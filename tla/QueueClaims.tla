----------------------------- MODULE QueueClaims -----------------------------
(***************************************************************************)
(* queue.json and everybody who rewrites it: the poller that claims tickets *)
(* (src/scheduler/poller.ts, claim.ts), `/factory start` and the run it     *)
(* drives (src/commands/start.ts, src/controller/), the operator's commands *)
(* and session recovery.                                                    *)
(*                                                                          *)
(* There is no lock on the file.  Each of them reads all of it, changes its *)
(* copy and later writes all of it back; a read and a write are a step of   *)
(* their own here, and whatever happens between them is others' steps.      *)
(* `/factory start` keeps one copy for as long as the run takes.            *)
(*                                                                          *)
(* A definition whose comment begins with "Defect" is wrong on purpose and  *)
(* unused: the properties are tested by putting it in place of the next.    *)
(***************************************************************************)
EXTENDS Naturals, Sequences, FiniteSets

CONSTANTS
  Tickets,      \* what the trackers hold; one repository
  Callers,      \* polls and commands that may be under way at a time
  Pauses,       \* how a run may wait for a human
  MaxRuns,      \* bound: runs ever started
  MaxCommands   \* bound: commands, relabelled tickets, late polls, restarts

ASSUME QueueAssumption == /\ Pauses \subseteq {"steer", "handoff", "approval"}
                          /\ MaxRuns \in Nat /\ MaxCommands \in Nat
                          /\ Tickets \cap Nat = {}

VARIABLES
  queue,   \* the entries of queue.json
  label,   \* the factory label of each ticket in its tracker
  runs,    \* the runs, in the order they were started
  pc,      \* where each caller is
  req,     \* what it executes: command, the entry's name or place, its run
  copy,    \* the queue it has read and changed
  inner,   \* the queue that its run's binding or publish stage has read
  hist     \* history, for the properties and the bounds only

vars == <<queue, label, runs, pc, req, copy, inner, hist>>

Terminal == {"landed", "closed", "abandoned"}
States == {"queued", "classifying", "needs-info", "ready", "running",
           "awaiting-steer", "awaiting-operator", "blocked", "published",
           "needs-rebase", "human-owned"} \cup Terminal

(* workspace: the entry knows worktree, branch and base commit; judged: it  *)
(* knows the published commit and the host's checkpoints.  Run 0 is no run. *)
Entry == [ticket : Tickets, state : States, run : 0..MaxRuns,
          workspace : BOOLEAN, judged : BOOLEAN]
Open(e) == e.state \notin Terminal

Finals == {"failed", "succeeded", "cancelled"}

Points == {"idle", "labels", "startRead", "startWrite", "provision", "bindRead", "bindWrite",
           "setup", "resuming", "executing", "publishWrite", "published",
           "startBack", "backRead", "write"}
Commands == {"none", "poll", "start", "approve", "replan", "resume", "edit"}
Statuses == {"pending", "running", "cancelling", "paused"} \cup Pauses \cup Finals
Run == [ticket : Tickets, status : Statuses]
Request == [cmd : Commands, name : Tickets \cup 0..MaxRuns, at : Nat,
            run : 0..MaxRuns, outcome : Statuses \cup {"none"}]
NoRequest == [cmd |-> "none", name |-> 0, at |-> 0, run |-> 0, outcome |-> "none"]

(* stale: copies that another caller has overtaken; lost: one was written;  *)
(* torn: what a session that ended left halfway; forced: tickets an operator*)
(* meddled with, by setting their state or while a start or an outcome was  *)
(* in passing;                                                              *)
(* revived: those with a finished entry reopened.                           *)
History == [stale : SUBSET (Callers \X {"copy", "inner"}), lost : BOOLEAN,
            torn : SUBSET (Tickets \X {"claim", "binding", "outcome"}),
            forced : SUBSET Tickets, revived : SUBSET Tickets,
            commands : 0..MaxCommands]

(* Every variable has the shape the code gives it.                          *)
TypeOK == /\ queue \in Seq(Entry)
          /\ label \in [Tickets -> {"none", "ready", "in-progress"}]
          /\ runs \in Seq(Run) /\ Len(runs) <= MaxRuns
          /\ pc \in [Callers -> Points]
          /\ req \in [Callers -> Request]
          /\ copy \in [Callers -> Seq(Entry)]
          /\ inner \in [Callers -> Seq(Entry)]
          /\ hist \in History

Init == /\ queue = <<>>
        /\ label \in [Tickets -> {"none", "ready"}]
        /\ runs = <<>>
        /\ pc = [c \in Callers |-> "idle"]
        /\ req = [c \in Callers |-> NoRequest]
        /\ copy = [c \in Callers |-> <<>>]
        /\ inner = [c \in Callers |-> <<>>]
        /\ hist = [stale |-> {}, lost |-> FALSE, torn |-> {}, forced |-> {},
                   revived |-> {}, commands |-> 0]

-----------------------------------------------------------------------------
(* Reading and writing                                                      *)

Goto(c, p) == pc' = [pc EXCEPT ![c] = p]

NewEntry(t, st) == [ticket |-> t, state |-> st, run |-> 0,
                    workspace |-> FALSE, judged |-> FALSE]

(* findQueueEntry: the first entry with that ticket or that run; 0 if none. *)
Named(q, name) == {i \in DOMAIN q : q[i].ticket = name \/ (name # 0 /\ q[i].run = name)}
Find(q, name) == IF Named(q, name) = {} THEN 0
                 ELSE CHOOSE i \in Named(q, name) : \A j \in Named(q, name) : i <= j

(* An entry in the copy changes; a finished one may come back to life.      *)
Edited(q, i, e) == IF i = 0 THEN q ELSE [q EXCEPT ![i] = e]
Revives(q, i, e) == IF i # 0 /\ ~Open(q[i]) /\ Open(e) THEN {q[i].ticket} ELSE {}

(* readQueue, and what the caller then changes in what it read.             *)
Read(c, i, e, point) ==
  /\ copy' = [copy EXCEPT ![c] = Edited(queue, i, e)]
  /\ hist' = [hist EXCEPT !.revived = @ \cup Revives(queue, i, e)]
  /\ Goto(c, point)

ReadInner(c, i, e, point) ==
  /\ inner' = [inner EXCEPT ![c] = Edited(queue, i, e)]
  /\ hist' = [hist EXCEPT !.revived = @ \cup Revives(queue, i, e)]
  /\ Goto(c, point)

(* Who holds a copy that the others' writes put out of date.                *)
HoldsCopy(c) == \/ pc[c] \in {"labels", "write"}
                \/ req[c].cmd = "start" /\ pc[c] # "startRead"
Holding == {<<c, "copy">> : c \in {d \in Callers : HoldsCopy(d)}}
           \cup {<<c, "inner">> : c \in {d \in Callers :
                                            pc[d] \in {"bindWrite", "publishWrite"}}}

(* writeQueue, of a copy that is given up.  What the caller's own run wrote *)
(* meanwhile does not count as lost: that is a matter of its own.           *)
Put(c, which, q) ==
  /\ queue' = q
  /\ hist' = [hist EXCEPT
       !.lost = @ \/ <<c, which>> \in hist.stale,
       !.stale = IF hist.lost THEN {}
                 ELSE (@ \cup {h \in Holding : h[1] # c}) \ {<<c, which>>}]

Done(c) == /\ Goto(c, "idle")
           /\ req' = [req EXCEPT ![c] = NoRequest]
           /\ copy' = [copy EXCEPT ![c] = <<>>]

(* A caller that has nothing to do between its change and its write.        *)
Write(c) ==
  /\ pc[c] = "write"
  /\ Put(c, "copy", copy[c])
  /\ Done(c)
  /\ UNCHANGED <<label, runs, inner>>

-----------------------------------------------------------------------------
(* Claims and enqueues                                                      *)

(* Whoever begins something that the bound on commands bounds.              *)
CanIssue(c) == pc[c] = "idle" /\ hist.commands < MaxCommands
Issued == [hist EXCEPT !.commands = @ + 1]

(* Defect: looks at the first entry of the ticket only, as findQueueEntry.  *)
FirstIsOpen(t) == Find(queue, t) # 0 /\ Open(queue[Find(queue, t)])

(* The ticket has an entry that is not finished.                            *)
OpenEntry(t) == \E i \in DOMAIN queue : queue[i].ticket = t /\ Open(queue[i])

(* onTicket reads the queue, for a ticket that the tracker listed as ready  *)
(* just now or, which the bound on commands bounds too, a while ago.  One   *)
(* that has an open entry, or whose labeller may not trigger a run, is      *)
(* skipped, and the copy written back.                                      *)
PollRead(c, t) ==
  /\ pc[c] = "idle"
  /\ \/ label[t] = "ready" /\ UNCHANGED hist
     \/ label[t] = "in-progress" /\ CanIssue(c) /\ hist' = Issued
  /\ \/ Goto(c, "write")
     \/ ~OpenEntry(t) /\ Goto(c, "labels")
  /\ copy' = [copy EXCEPT ![c] = queue]
  /\ req' = [req EXCEPT ![c] = [NoRequest EXCEPT !.cmd = "poll", !.name = t]]
  /\ UNCHANGED <<queue, label, runs, inner>>

(* Defect: a ticket that intake parks gets no entry.                        *)
PollClaimParked(c) ==
  LET t == req[c].name IN
  /\ pc[c] = "labels"
  /\ label' = [label EXCEPT ![t] = "in-progress"]
  /\ \/ \E st \in {"classifying", "ready"} :
          copy' = [copy EXCEPT ![c] = Append(@, NewEntry(t, st))]
     \/ UNCHANGED copy
  /\ Goto(c, "write")
  /\ UNCHANGED <<queue, runs, req, inner, hist>>

(* claimTicket swaps the labels and appends the entry to the copy; intake   *)
(* classifies it, or cannot, or parks it for want of information.           *)
PollClaim(c) ==
  LET t == req[c].name IN
  /\ pc[c] = "labels"
  /\ label' = [label EXCEPT ![t] = "in-progress"]
  /\ \E st \in {"classifying", "ready", "needs-info"} :
       copy' = [copy EXCEPT ![c] = Append(@, NewEntry(t, st))]
  /\ Goto(c, "write")
  /\ UNCHANGED <<queue, runs, req, inner, hist>>

(* `/factory enqueue`; with --kind the entry is ready at once.              *)
Enqueue(c, t) ==
  /\ CanIssue(c)
  /\ \/ OpenEntry(t) /\ copy' = [copy EXCEPT ![c] = queue]
     \/ /\ ~OpenEntry(t)
        /\ \E st \in {"queued", "ready"} :
             copy' = [copy EXCEPT ![c] = Append(queue, NewEntry(t, st))]
  /\ hist' = Issued
  /\ req' = [req EXCEPT ![c].cmd = "edit"]
  /\ Goto(c, "write")
  /\ UNCHANGED <<queue, label, runs, inner>>

(* In the tracker, somebody asks for the ticket (again).                    *)
Relabel(t) ==
  /\ label[t] # "ready" /\ hist.commands < MaxCommands
  /\ label' = [label EXCEPT ![t] = "ready"]
  /\ hist' = Issued
  /\ UNCHANGED <<queue, runs, pc, req, copy, inner>>

-----------------------------------------------------------------------------
(* Starting and resuming runs                                               *)

(* The states of an entry whose run has that status (queueStateFor).        *)
queueStateFor(status) ==
  CASE status \in {"pending", "running", "cancelling", "paused"} -> "running"
    [] status \in {"approval", "failed"} -> "blocked"
    [] status = "handoff"   -> "awaiting-operator"
    [] status = "steer"     -> "awaiting-steer"
    [] status = "succeeded" -> "published"
    [] status = "cancelled" -> "closed"

Executing(r) == \E c \in Callers :
  req[c].run = r /\ pc[c] \in {"executing", "publishWrite", "published"}

SetStatus(r, status) == runs' = [runs EXCEPT ![r].status = status]

(* A start has the ticket and does not execute its run yet, or a caller has *)
(* the outcome of the run and has not recorded it yet.                      *)
Unrecorded(r) == \E c \in Callers : pc[c] = "backRead" /\ req[c].run = r
InPassing(e) ==
  \/ \E c \in Callers :
       /\ req[c].cmd = "start" /\ req[c].name = e.ticket
       /\ pc[c] \in {"startWrite", "provision", "bindRead", "bindWrite", "setup"}
  \/ Unrecorded(e.run)
Meddled(e) == IF InPassing(e) THEN {e.ticket} ELSE {}

Start(c) ==
  /\ CanIssue(c)
  /\ req' = [req EXCEPT ![c].cmd = "start"]
  /\ hist' = Issued
  /\ Goto(c, "startRead")
  /\ UNCHANGED <<queue, label, runs, copy, inner>>

(* The loop of runStart: the first entry that is queued or ready.           *)
StartRead(c) ==
  LET Fit == {i \in DOMAIN queue : queue[i].state \in {"queued", "ready"}} IN
  /\ pc[c] = "startRead"
  /\ \/ Fit = {} /\ Done(c) /\ UNCHANGED hist
     \/ \E i \in Fit :
          /\ \A j \in Fit : i <= j
          /\ Read(c, i, [queue[i] EXCEPT !.state = "running"], "startWrite")
          /\ req' = [req EXCEPT ![c] = [NoRequest EXCEPT !.cmd = "start", !.at = i,
                                                   !.name = queue[i].ticket]]
  /\ UNCHANGED <<queue, label, runs, inner>>

(* Defect: that the entry is running is written with the outcome only.      *)
StartWriteLate(c) ==
  /\ pc[c] = "startWrite"
  /\ Goto(c, "provision")
  /\ UNCHANGED <<queue, label, runs, req, copy, inner, hist>>

(* It is recorded as running before anything is done for it.                *)
StartWrite(c) ==
  /\ pc[c] = "startWrite"
  /\ Put(c, "copy", copy[c])
  /\ Goto(c, "provision")
  /\ UNCHANGED <<label, runs, req, copy, inner>>

(* Defect: leaves the run to the binding.                                   *)
OutcomeUnbound(c, r, status) ==
  copy' = [copy EXCEPT ![c][req[c].at].state = queueStateFor(status)]

(* The entry that runStart still holds gets the outcome of the run ...      *)
Outcome(c, r, status) ==
  copy' = [copy EXCEPT ![c][req[c].at].state = queueStateFor(status),
                       ![c][req[c].at].run = r]

(* ... or, when something throws, becomes blocked and nothing else.         *)
Thrown(c) ==
  /\ copy' = [copy EXCEPT ![c][req[c].at].state = "blocked"]
  /\ req' = [req EXCEPT ![c].run = 0]
  /\ Goto(c, "startBack")

(* runTicket makes the worktree and the run, or fails to.                   *)
Provision(c) ==
  /\ pc[c] = "provision"
  /\ \/ Thrown(c) /\ UNCHANGED runs
     \/ /\ Len(runs) < MaxRuns
        /\ runs' = Append(runs, [ticket |-> req[c].name, status |-> "pending"])
        /\ req' = [req EXCEPT ![c].run = Len(runs) + 1]
        /\ Goto(c, "bindRead")
        /\ UNCHANGED copy
  /\ UNCHANGED <<queue, label, inner, hist>>

(* Defect: the run is bound by its outcome alone.                           *)
BindNever(c) ==
  /\ pc[c] = "bindRead"
  /\ Goto(c, "setup")
  /\ UNCHANGED <<queue, label, runs, req, copy, inner, hist>>

(* bindQueueRun: the first entry of the ticket learns run and workspace.    *)
BindRead(c) ==
  LET i == Find(queue, req[c].name) IN
  /\ pc[c] = "bindRead"
  /\ \/ i = 0 /\ Goto(c, "setup") /\ UNCHANGED <<inner, hist>>
     \/ /\ i # 0
        /\ ReadInner(c, i, [queue[i] EXCEPT !.run = req[c].run, !.workspace = TRUE],
                     "bindWrite")
  /\ UNCHANGED <<queue, label, runs, req, copy>>

InnerWrite(c, from, to) ==
  /\ pc[c] = from
  /\ Put(c, "inner", inner[c])
  /\ inner' = [inner EXCEPT ![c] = <<>>]
  /\ Goto(c, to)
  /\ UNCHANGED <<label, runs, req, copy>>

BindWrite(c) == InnerWrite(c, "bindWrite", "setup")

(* The setup command; then executeRun, which throws if the run is executing *)
(* already (a resume came first: the entry will be written back without its *)
(* run) and returns at once if it was cancelled.                            *)
Setup(c) ==
  LET r == req[c].run IN
  /\ pc[c] = "setup"
  /\ \/ /\ SetStatus(r, "failed")
        /\ Outcome(c, r, "failed") /\ Goto(c, "startBack") /\ UNCHANGED req
     \/ Executing(r) /\ Thrown(c) /\ UNCHANGED runs
     \/ /\ ~Executing(r) /\ runs[r].status \in Finals
        /\ Outcome(c, r, runs[r].status) /\ Goto(c, "startBack")
        /\ UNCHANGED <<runs, req>>
     \/ /\ ~Executing(r) /\ runs[r].status \notin Finals
        /\ SetStatus(r, "running")
        /\ Goto(c, "executing") /\ UNCHANGED <<req, copy>>
  /\ UNCHANGED <<queue, label, inner, hist>>

(* The publish stage records the push in the entry of the run.              *)
findPublishEntry(q, r) == IF Named(q, r) # {} THEN Find(q, r)
                          ELSE Find(q, runs[r].ticket)

Publish(c) ==
  LET i == findPublishEntry(queue, req[c].run) IN
  /\ pc[c] = "executing"
  /\ \/ i = 0 /\ Goto(c, "published") /\ UNCHANGED <<inner, hist>>
     \/ /\ i # 0
        /\ ReadInner(c, i, [queue[i] EXCEPT !.state = "published", !.judged = TRUE],
                     "publishWrite")
  /\ UNCHANGED <<queue, label, runs, req, copy>>

PublishWrite(c) == InnerWrite(c, "publishWrite", "published")

(* executeRun returns.  A start has the entry at hand; the others look for  *)
(* it again.                                                                *)
RunEnds(c) ==
  LET r == req[c].run IN
  /\ pc[c] \in {"executing", "published"}
  /\ \E status \in Pauses \cup Finals :
       /\ (status = "cancelled") <=> (runs[r].status = "cancelling")
       /\ status = "succeeded" => pc[c] = "published"
       /\ status \in Pauses \cup {"failed"} => pc[c] = "executing"
       /\ SetStatus(r, status)
       /\ \/ /\ req[c].cmd = "start"
             /\ Outcome(c, r, status) /\ Goto(c, "startBack") /\ UNCHANGED req
          \/ /\ req[c].cmd # "start"
             /\ req' = [req EXCEPT ![c].outcome = status]
             /\ Goto(c, "backRead") /\ UNCHANGED copy
  /\ UNCHANGED <<queue, label, inner, hist>>

(* The finally of runStart; after a steer pause or an error it stops.       *)
StartBack(c) ==
  /\ pc[c] = "startBack"
  /\ Put(c, "copy", copy[c])
  /\ \/ /\ req[c].run = 0 \/ copy[c][req[c].at].state = "awaiting-steer"
        /\ Done(c)
     \/ /\ req[c].run # 0 /\ copy[c][req[c].at].state # "awaiting-steer"
        /\ Goto(c, "startRead")
        /\ req' = [req EXCEPT ![c] = [NoRequest EXCEPT !.cmd = "start"]]
        /\ copy' = [copy EXCEPT ![c] = <<>>]
  /\ UNCHANGED <<label, runs, inner>>

(* approve, replan, grant and resume read the queue for the run of an entry.*)
(* approve finds the entry by its key afterwards, the others as before.     *)
Resume(c, name, cmd) ==
  LET i == Find(queue, name) IN
  /\ CanIssue(c)
  /\ i # 0 /\ queue[i].run # 0
  /\ cmd = "approve" => queue[i].state = "awaiting-steer"
  /\ req' = [req EXCEPT ![c] =
       [NoRequest EXCEPT !.cmd = cmd, !.run = queue[i].run,
                         !.name = IF cmd = "approve" THEN queue[i].ticket ELSE name]]
  /\ hist' = [Issued EXCEPT !.forced = @ \cup Meddled(queue[i])]
  /\ Goto(c, "resuming")
  /\ UNCHANGED <<queue, label, runs, copy, inner>>

(* resumeRun; only `/factory resume --from` revives a failed run.           *)
Resuming(c) ==
  LET r == req[c].run
      resumable == {"pending", "paused"} \cup Pauses
                   \cup (IF req[c].cmd = "resume" THEN {"failed"} ELSE {}) IN
  /\ pc[c] = "resuming"
  /\ \/ /\ Executing(r) \/ runs[r].status \notin resumable
        /\ Done(c) /\ UNCHANGED runs
     \/ /\ ~Executing(r) /\ runs[r].status \in resumable
        /\ SetStatus(r, "running")
        /\ Goto(c, "executing") /\ UNCHANGED <<req, copy>>
  /\ hist' = [hist EXCEPT !.forced = @ \cup
                 (IF Unrecorded(r) THEN {runs[r].ticket} ELSE {})]
  /\ UNCHANGED <<queue, label, inner>>

BackRead(c) ==
  LET i == Find(queue, req[c].name)
      r == req[c].run IN
  /\ pc[c] = "backRead"
  /\ \/ i = 0 /\ Done(c) /\ UNCHANGED hist
     \/ /\ i # 0
        /\ Read(c, i, [queue[i] EXCEPT !.state = queueStateFor(req[c].outcome),
                                       !.run = r], "write")
        /\ UNCHANGED req
  /\ UNCHANGED <<queue, label, runs, inner>>

-----------------------------------------------------------------------------
(* Commands that change an entry                                            *)

(* The operator's command reads the queue and has its change made; run is   *)
(* the run it touched.                                                      *)
Edit(c, i, e, run) ==
  /\ CanIssue(c)
  /\ i # 0
  /\ copy' = [copy EXCEPT ![c] = Edited(queue, i, e)]
  /\ req' = [req EXCEPT ![c] = [NoRequest EXCEPT !.cmd = "edit", !.run = run,
                                                 !.name = queue[i].ticket]]
  /\ Goto(c, "write")

Edits(i, e, meddled) ==
  hist' = [Issued EXCEPT !.revived = @ \cup Revives(queue, i, e),
                         !.forced = @ \cup meddled]

(* Defect: a run that waits for a human is left alone.                      *)
CancelledLive(r) ==
  IF r # 0 /\ Executing(r) THEN [runs EXCEPT ![r].status = "cancelling"] ELSE runs

(* cancelRun only marks a run that is executing.                            *)
Cancelled(r) ==
  IF r = 0 \/ runs[r].status \in Finals THEN runs
  ELSE [runs EXCEPT ![r].status = IF Executing(r) THEN "cancelling" ELSE "cancelled"]

(* `/factory cancel`, and the first half of `/factory drop`.  An entry that *)
(* is being started and is not bound yet names no run to cancel: the run    *)
(* goes on, and the closed state is all that says otherwise.                *)
Cancel(c, name) ==
  LET i == Find(queue, name) IN
  /\ i # 0
  /\ Edit(c, i, [queue[i] EXCEPT !.state = "closed"], queue[i].run)
  /\ Edits(i, [queue[i] EXCEPT !.state = "closed"], Meddled(queue[i]))
  /\ runs' = Cancelled(queue[i].run)
  /\ UNCHANGED <<queue, label, inner>>

(* `/factory closed`, `/factory landed` and `/factory classify` set the     *)
(* state whatever it was.                                                   *)
SetByHand(c, name) ==
  LET i == Find(queue, name) IN
  /\ i # 0
  /\ \E st \in {"closed", "landed", "queued"} :
       /\ Edit(c, i, [queue[i] EXCEPT !.state = st], 0)
       /\ Edits(i, [queue[i] EXCEPT !.state = st], {queue[i].ticket})
  /\ UNCHANGED <<queue, label, runs, inner>>

(* `/factory rebase`: needs the branch, and nothing of the state.           *)
Rebase(c, name) ==
  LET i == Find(queue, name) IN
  /\ i # 0 /\ queue[i].workspace
  /\ \E st \in {"published", "human-owned", queue[i].state} :
       /\ Edit(c, i, [queue[i] EXCEPT !.state = st], 0)
       /\ Edits(i, [queue[i] EXCEPT !.state = st],
                IF queue[i].state \in {"published", "needs-rebase", "human-owned"}
                THEN {} ELSE {queue[i].ticket})
  /\ UNCHANGED <<queue, label, runs, inner>>

(* What reconcile makes of a queue.                                         *)
Reconciled(landed, closed, behind) ==
  [i \in DOMAIN queue |->
     [queue[i] EXCEPT !.state = IF i \in landed THEN "landed"
                                ELSE IF i \in closed THEN "closed"
                                ELSE IF i \in behind THEN "needs-rebase"
                                ELSE @]]

(* `/factory reconcile`: a published entry landed if git shows what was     *)
(* judged in the base branch, is closed if its branch has been gone too     *)
(* long, and needs a rebase if what landed conflicts with its branch.       *)
Reconcile(c) ==
  LET Published == {i \in DOMAIN queue : queue[i].state = "published"} IN
  /\ CanIssue(c)
  /\ \E landed \in SUBSET {i \in Published : queue[i].judged},
        closed, behind \in SUBSET {i \in Published : queue[i].workspace} :
       /\ landed \cap (closed \cup behind) = {} /\ closed \cap behind = {}
       /\ behind # {} => landed # {}
       /\ copy' = [copy EXCEPT ![c] = Reconciled(landed, closed, behind)]
  /\ req' = [req EXCEPT ![c].cmd = "edit"]
  /\ hist' = Issued
  /\ Goto(c, "write")
  /\ UNCHANGED <<queue, label, runs, inner>>

(* `/factory gc` removes worktrees of entries that were closed long ago.    *)
Gc(c) ==
  /\ CanIssue(c)
  /\ \E old \in SUBSET {i \in DOMAIN queue : queue[i].state = "closed" /\ queue[i].workspace} :
       copy' = [copy EXCEPT ![c] = [i \in DOMAIN queue |->
                  [queue[i] EXCEPT !.workspace = @ /\ i \notin old]]]
  /\ req' = [req EXCEPT ![c].cmd = "edit"]
  /\ hist' = Issued
  /\ Goto(c, "write")
  /\ UNCHANGED <<queue, label, runs, inner>>

-----------------------------------------------------------------------------
(* The session ends and another begins                                      *)

TicketOf(c) == IF req[c].run = 0 THEN req[c].name ELSE runs[req[c].run].ticket

(* What each caller leaves behind.                                          *)
TornBy(c) ==
  CASE req[c].cmd = "poll" /\ pc[c] = "write" /\ label[req[c].name] = "in-progress"
         -> {<<TicketOf(c), "claim">>}
    [] pc[c] \in {"bindRead", "bindWrite"} -> {<<TicketOf(c), "binding">>}
    [] \/ pc[c] \in {"publishWrite", "published", "startBack", "backRead"}
       \/ pc[c] = "write" /\ req[c].run # 0
       \/ /\ pc[c] = "executing"
          /\ req[c].cmd # "start" \/ runs[req[c].run].status = "cancelling"
         -> {<<TicketOf(c), "outcome">>}
    [] OTHER -> {}

(* recoverFactory pauses the runs that were executing and, with the lease,  *)
(* blocks entries whose worktree has gone.                                  *)
Restart ==
  /\ \E c \in Callers : pc[c] # "idle"
  /\ hist.commands < MaxCommands
  /\ runs' = [r \in DOMAIN runs |->
                IF runs[r].status \in {"running", "cancelling"}
                THEN [runs[r] EXCEPT !.status = "paused"] ELSE runs[r]]
  /\ \E gone \in SUBSET {i \in DOMAIN queue :
                           queue[i].state = "running" /\ queue[i].workspace} :
       queue' = [i \in DOMAIN queue |->
                   IF i \in gone THEN [queue[i] EXCEPT !.state = "blocked"] ELSE queue[i]]
  /\ pc' = [c \in Callers |-> "idle"]
  /\ req' = [c \in Callers |-> NoRequest]
  /\ copy' = [c \in Callers |-> <<>>]
  /\ inner' = [c \in Callers |-> <<>>]
  /\ hist' = [Issued EXCEPT !.stale = {}, !.torn = @ \cup UNION {TornBy(c) : c \in Callers}]
  /\ UNCHANGED label

Names == Tickets \cup 1..MaxRuns

Order(c) ==
  \/ Start(c) \/ Reconcile(c) \/ Gc(c)
  \/ \E t \in Tickets : Enqueue(c, t)
  \/ \E name \in Names : \/ \E cmd \in {"approve", "replan", "resume"} : Resume(c, name, cmd)
                         \/ Cancel(c, name) \/ SetByHand(c, name) \/ Rebase(c, name)

Step(c) ==
  \/ PollClaim(c) \/ Write(c)
  \/ StartRead(c) \/ StartWrite(c) \/ Provision(c) \/ BindRead(c) \/ BindWrite(c)
  \/ Setup(c) \/ Publish(c) \/ PublishWrite(c) \/ RunEnds(c) \/ StartBack(c)
  \/ Resuming(c) \/ BackRead(c)

Next == \/ \E c \in Callers : Order(c) \/ Step(c) \/ \E t \in Tickets : PollRead(c, t)
        \/ \E t \in Tickets : Relabel(t)
        \/ Restart

Spec == Init /\ [][Next]_vars

-----------------------------------------------------------------------------
(* Properties                                                               *)

(* A ticket has two open entries only after an operator, a run or a publish *)
(* has reopened one that was finished: the polls and enqueues of any number *)
(* of callers never make a second one, stale as their copies may be.        *)
OneOpenEntry ==
  \A i, j \in DOMAIN queue :
    /\ queue[i].ticket = queue[j].ticket /\ i # j
    /\ Open(queue[i]) /\ Open(queue[j])
    => queue[i].ticket \in hist.revived

(* An entry that waits for a human names a run of its ticket, whatever was  *)
(* lost: without it approve, replan and resume refuse.                      *)
WaitingHasRun ==
  \A i \in DOMAIN queue :
    queue[i].state \in {"awaiting-steer", "awaiting-operator"} =>
      queue[i].run # 0 /\ runs[queue[i].run].ticket = queue[i].ticket

(* What holds of the queue even when updates of it are lost.                *)
EntriesSound == OneOpenEntry /\ WaitingHasRun

(* What follows holds until a caller writes a copy that another's write has *)
(* put out of date, and of tickets that were queued once and whose state    *)
(* nobody set by hand.                                                      *)
Regular(t) == /\ ~hist.lost /\ t \notin hist.forced
              /\ Cardinality({i \in DOMAIN queue : queue[i].ticket = t}) <= 1

(* A ticket that was taken off the tracker's ready list is in the queue or  *)
(* in the hands of a poll, unless a session ended between the two writes.   *)
NoClaimLost ==
  \A t \in Tickets :
    label[t] = "in-progress" /\ ~hist.lost /\ <<t, "claim">> \notin hist.torn =>
      \/ \E i \in DOMAIN queue : queue[i].ticket = t
      \/ \E c \in Callers : req[c].cmd = "poll" /\ req[c].name = t

(* The states an entry may show while its run has that status and is at     *)
(* rest.  A published one moves on, an ended one may be closed, one that a  *)
(* session left may have lost its worktree.                                 *)
Shows(status) ==
  {queueStateFor(status)}
  \cup (IF status \in Finals THEN {"closed"} ELSE {})
  \cup (IF status = "succeeded" THEN {"landed", "needs-rebase", "human-owned"} ELSE {})
  \cup (IF status \in {"pending", "paused"} THEN {"blocked"} ELSE {})

AtWork(r) == \E c \in Callers : req[c].run = r /\ pc[c] # "idle"

(* The queue tells what became of a run nobody is at work on.               *)
QueueTellsOutcome ==
  \A i \in DOMAIN queue :
    /\ Regular(queue[i].ticket) /\ <<queue[i].ticket, "outcome">> \notin hist.torn
    /\ queue[i].run # 0 /\ ~AtWork(queue[i].run)
    => queue[i].state \in Shows(runs[queue[i].run].status)

(* One ticket is not worked on twice: of its runs at most one is unfinished.*)
OneRunPerTicket ==
  \A r, s \in DOMAIN runs :
    /\ r # s /\ runs[r].ticket = runs[s].ticket /\ Regular(runs[r].ticket)
    => runs[r].status \in Finals \/ runs[s].status \in Finals

(* A run that can go on can be found through the queue, also after a        *)
(* session ended in the middle of it, unless it ended before the binding.   *)
RunIsNamed ==
  \A r \in DOMAIN runs :
    /\ runs[r].status \notin Finals /\ Regular(runs[r].ticket) /\ ~AtWork(r)
    /\ <<runs[r].ticket, "binding">> \notin hist.torn
    => \E i \in DOMAIN queue : queue[i].run = r

(* No ticket and no run drops out of the queue or is worked on twice.       *)
WorkIsAccounted == NoClaimLost /\ OneRunPerTicket /\ RunIsNamed

(* An entry that says published is one that reconcile can find in the base  *)
(* branch: it knows the commit that was judged and pushed.                  *)
PublishedCanLand ==
  \A i \in DOMAIN queue :
    /\ Regular(queue[i].ticket) /\ queue[i].state = "published"
    /\ queue[i].run # 0 /\ ~AtWork(queue[i].run)
    => queue[i].judged
=============================================================================
