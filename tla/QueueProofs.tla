---------------------------- MODULE QueueProofs ----------------------------
(***************************************************************************)
(* What is proved of QueueClaims, for any tickets, callers and bounds.       *)
(*                                                                          *)
(* A lost update replaces the queue by a copy that somebody has held for a  *)
(* while.  So the invariant of the claims says of every copy what it says of*)
(* the queue, and of a copy only what others' steps cannot take away: that  *)
(* it names runs by their tickets, and that it has no two open entries of a *)
(* ticket none of whose finished entries was ever reopened.                 *)
(*                                                                          *)
(* Until an update is lost, more is true: what a ticket is owed is in the   *)
(* queue and in every copy that was not overtaken, the accounts below.      *)
(***************************************************************************)
EXTENDS QueueClaims, TLAPS, WellFoundedInduction, SequenceTheorems, FiniteSetTheorems

-----------------------------------------------------------------------------
(* The claims.                                                              *)

(* An entry names a run of its ticket, or none, and one if it waits.        *)
EntrySound(e, rs) ==
  /\ e.run # 0 => e.run \in DOMAIN rs /\ rs[e.run].ticket = e.ticket
  /\ e.state \in {"awaiting-steer", "awaiting-operator"} => e.run # 0

OneOpen(q, revived) ==
  \A i, j \in DOMAIN q :
    /\ q[i].ticket = q[j].ticket /\ i # j
    /\ Open(q[i]) /\ Open(q[j])
    => q[i].ticket \in revived

QueueSound(q, rs, revived) ==
  /\ q \in Seq(Entry)
  /\ \A i \in DOMAIN q : EntrySound(q[i], rs)
  /\ OneOpen(q, revived)

(* The points of a start that has an entry, of one that has a run, and of   *)
(* whoever executes a run.                                                  *)
Started == {"startWrite", "provision", "bindRead", "bindWrite", "setup"}
Bound   == {"bindRead", "bindWrite", "setup"}
Running == {"executing", "publishWrite", "published"}
Resumes == {"approve", "replan", "resume"}

(* A start has an open entry of its ticket at hand, and its run is one of   *)
(* that ticket.                                                             *)
StartSound(p, r, k, rs) ==
  r.cmd = "start" =>
    /\ p \in Started \cup Running \cup {"startBack"} => r.name \in Tickets
    /\ p \in Started \cup Running =>
         r.at \in DOMAIN k /\ k[r.at].ticket = r.name /\ Open(k[r.at])
    /\ p \in Bound \cup Running => r.run # 0 /\ rs[r.run].ticket = r.name

(* A poll has no open entry of the ticket it claims.                        *)
PollSound(p, r, k) ==
  /\ r.cmd = "poll" => r.name \in Tickets
  /\ p = "labels" => /\ r.cmd = "poll"
                     /\ \A i \in DOMAIN k : k[i].ticket = r.name => ~Open(k[i])

(* A resume looks for the entry by the ticket or the number of its run.     *)
ResumeSound(p, r, rs) ==
  /\ r.cmd \in Resumes => r.run # 0 /\ r.name \in {r.run, rs[r.run].ticket}
  /\ p \in {"resuming", "backRead"} => r.cmd \in Resumes
  /\ p = "backRead" => r.outcome \in Pauses \cup Finals

(* What holds of a caller at point p with request r and copy k.             *)
CallSound(p, r, k, rs) ==
  /\ p \in Points /\ r \in Request
  /\ r.run # 0 => r.run \in DOMAIN rs
  /\ p \in Started \cup {"startBack"} => r.cmd = "start"
  /\ p \in Running => r.cmd \in Resumes \cup {"start"}
  /\ StartSound(p, r, k, rs) /\ PollSound(p, r, k) /\ ResumeSound(p, r, rs)

Sound ==
  /\ QueueSound(queue, runs, hist.revived)
  /\ \A c \in Callers : /\ QueueSound(copy[c], runs, hist.revived)
                        /\ QueueSound(inner[c], runs, hist.revived)
                        /\ CallSound(pc[c], req[c], copy[c], runs)

Inv == TypeOK /\ Sound

-----------------------------------------------------------------------------
(* The operators on queues                                                  *)

(* findQueueEntry finds nothing, or an entry of that ticket or run.         *)
LEMMA FindFinds ==
  ASSUME NEW q \in Seq(Entry), NEW name, Find(q, name) # 0
  PROVE  /\ Find(q, name) \in DOMAIN q
         /\ \/ q[Find(q, name)].ticket = name
            \/ name # 0 /\ q[Find(q, name)].run = name
<1> DEFINE N == Named(q, name)
<1>1. N # {} /\ N \subseteq Nat
  BY DEF Find, Named
<1>2. PICK i \in N : \A j \in N : ~ (<<j, i>> \in OpToRel(<, Nat))
  BY <1>1, WFMin, NatLessThanWellFounded
<1>3. \A j \in N : i <= j
  <2>1. ASSUME NEW j \in N, j < i PROVE FALSE
    <3>1. <<j, i>> \in Nat \X Nat /\ <<j, i>>[1] < <<j, i>>[2]
      BY <1>1, <2>1
    <3>2. QED
      BY <3>1, <1>2 DEF OpToRel
  <2>2. QED
    BY <1>1, <2>1
<1>4. Find(q, name) \in N
  BY <1>1, <1>3 DEF Find
<1>5. QED
  BY <1>4 DEF Named

(* Every status of a run has a state of the queue.                          *)
LEMMA StateOfStatus ==
  ASSUME NEW status \in Statuses
  PROVE  queueStateFor(status) \in States
  BY QueueAssumption DEF Statuses, Finals, queueStateFor, States, Terminal

(* An entry may change in anything but its ticket; if it is reopened, that  *)
(* is recorded.                                                             *)
LEMMA EditedSound ==
  ASSUME NEW q, NEW rs, NEW revived, QueueSound(q, rs, revived),
         NEW i, i = 0 \/ i \in DOMAIN q,
         NEW e, i # 0 => e \in Entry /\ e.ticket = q[i].ticket /\ EntrySound(e, rs)
  PROVE  /\ QueueSound(Edited(q, i, e), rs, revived \cup Revives(q, i, e))
         /\ Revives(q, i, e) \subseteq Tickets
<1>1. CASE i = 0
  BY <1>1 DEF QueueSound, OneOpen, Edited, Revives
<1>2. CASE i # 0
  <2> DEFINE k == [q EXCEPT ![i] = e]
  <2>1. /\ k \in Seq(Entry) /\ DOMAIN k = DOMAIN q /\ k[i] = e
        /\ \A j \in DOMAIN q : j # i => k[j] = q[j]
    BY <1>2 DEF QueueSound
  <2>2. q[i].ticket \in Tickets
    <3>1. q[i] \in Entry
      BY <1>2 DEF QueueSound
    <3>2. QED
      BY <3>1 DEF Entry
  <2>3. \A j \in DOMAIN k : EntrySound(k[j], rs)
    BY <1>2, <2>1 DEF QueueSound
  <2>4. OneOpen(k, revived \cup Revives(q, i, e))
    BY <1>2, <2>1 DEF QueueSound, OneOpen, Revives
  <2>5. QED
    BY <1>2, <2>1, <2>2, <2>3, <2>4 DEF QueueSound, Edited, Revives
<1>3. QED
  BY <1>1, <1>2

(* A ticket without an open entry may get one.                              *)
LEMMA AppendedSound ==
  ASSUME NEW q, NEW rs, NEW revived, QueueSound(q, rs, revived),
         NEW t \in Tickets, \A i \in DOMAIN q : q[i].ticket = t => ~Open(q[i]),
         NEW st \in States \ {"awaiting-steer", "awaiting-operator"}
  PROVE  QueueSound(Append(q, NewEntry(t, st)), rs, revived)
<1> DEFINE e == NewEntry(t, st)
           k == Append(q, e)
<1>1. e \in Entry /\ e.ticket = t /\ EntrySound(e, rs)
  BY QueueAssumption DEF NewEntry, Entry, EntrySound
<1>2. k \in Seq(Entry) /\ DOMAIN k = DOMAIN q \cup {Len(q) + 1} /\ k[Len(q) + 1] = e
      /\ \A i \in DOMAIN q : k[i] = q[i]
  BY <1>1 DEF QueueSound
<1>3. \A i \in DOMAIN k : EntrySound(k[i], rs)
  BY <1>1, <1>2 DEF QueueSound
<1>4. OneOpen(k, revived)
  BY <1>1, <1>2 DEF QueueSound, OneOpen
<1>5. QED
  BY <1>2, <1>3, <1>4 DEF QueueSound

(* Runs are added and change their status, and keep their tickets.          *)
Grows(rs, ss) == /\ DOMAIN rs \subseteq DOMAIN ss
                 /\ \A r \in DOMAIN rs : ss[r].ticket = rs[r].ticket

LEMMA StillSound ==
  ASSUME NEW q, NEW rs, NEW ss, Grows(rs, ss),
         NEW revived, NEW more, revived \subseteq more,
         QueueSound(q, rs, revived)
  PROVE  QueueSound(q, ss, more)
  BY DEF QueueSound, OneOpen, EntrySound, Grows

LEMMA StillCallSound ==
  ASSUME NEW p, NEW r, NEW k, NEW rs, NEW ss, Grows(rs, ss),
         CallSound(p, r, k, rs)
  PROVE  CallSound(p, r, k, ss)
  BY DEF CallSound, StartSound, PollSound, ResumeSound, Grows, Bound, Running

LEMMA EmptySound ==
  ASSUME NEW rs, NEW revived
  PROVE  QueueSound(<<>>, rs, revived)
  BY DEF QueueSound, OneOpen

LEMMA NoRequestTyped == NoRequest \in Request /\ NoRequest.run = 0
  BY QueueAssumption DEF NoRequest, Request, Commands

LEMMA IdleSound ==
  ASSUME NEW rs
  PROVE  CallSound("idle", NoRequest, <<>>, rs)
  BY QueueAssumption DEF CallSound, StartSound, PollSound, ResumeSound, Started,
     Bound, Running, Resumes, NoRequest, Request, Points, Commands

-----------------------------------------------------------------------------
(* What the steps of one caller have in common                              *)

(* The caller is at p with request r, its copies are k and n; the others    *)
(* stay where they are.                                                     *)
Moves(c, p, r, k, n) ==
  /\ pc' = [pc EXCEPT ![c] = p] /\ req' = [req EXCEPT ![c] = r]
  /\ copy' = [copy EXCEPT ![c] = k] /\ inner' = [inner EXCEPT ![c] = n]

(* Labels keep their type, runs grow, and the history does.                 *)
Progress ==
  /\ label' \in [Tickets -> {"none", "ready", "in-progress"}]
  /\ runs' \in Seq(Run) /\ Len(runs') <= MaxRuns /\ Grows(runs, runs')
  /\ hist' \in History /\ hist.revived \subseteq hist'.revived

(* A step keeps the invariant if what its caller holds and writes is sound. *)
LEMMA Stepped ==
  ASSUME Inv, NEW c \in Callers, NEW p, NEW r, NEW k, NEW n,
         Moves(c, p, r, k, n), Progress,
         QueueSound(queue', runs', hist'.revived),
         QueueSound(k, runs', hist'.revived),
         QueueSound(n, runs', hist'.revived),
         CallSound(p, r, k, runs')
  PROVE  Inv'
<1>1. /\ p \in Points /\ r \in Request
      /\ queue' \in Seq(Entry) /\ k \in Seq(Entry) /\ n \in Seq(Entry)
  BY DEF CallSound, QueueSound
<1>2. TypeOK'
  BY <1>1 DEF Inv, TypeOK, Moves, Progress
<1>3. ASSUME NEW d \in Callers
      PROVE  /\ QueueSound(copy[d]', runs', hist'.revived)
             /\ QueueSound(inner[d]', runs', hist'.revived)
             /\ CallSound(pc[d]', req[d]', copy[d]', runs')
  <2>1. CASE d = c
    <3>1. pc[d]' = p /\ req[d]' = r /\ copy[d]' = k /\ inner[d]' = n
      BY <2>1 DEF Inv, TypeOK, Moves
    <3>2. QED
      BY <3>1
  <2>2. CASE d # c
    <3>1. /\ pc[d]' = pc[d] /\ req[d]' = req[d]
          /\ copy[d]' = copy[d] /\ inner[d]' = inner[d]
      BY <2>2 DEF Inv, TypeOK, Moves
    <3>2. /\ QueueSound(copy[d], runs, hist.revived)
          /\ QueueSound(inner[d], runs, hist.revived)
          /\ CallSound(pc[d], req[d], copy[d], runs)
      BY DEF Inv, Sound
    <3>3. QED
      BY <3>1, <3>2, StillSound, StillCallSound DEF Progress
  <2>3. QED
    BY <2>1, <2>2
<1>4. QED
  BY <1>2, <1>3 DEF Inv, Sound

(* What the invariant says of a caller.                                     *)
LEMMA Holds ==
  ASSUME Inv, NEW c \in Callers
  PROVE  /\ QueueSound(queue, runs, hist.revived)
         /\ QueueSound(copy[c], runs, hist.revived)
         /\ QueueSound(inner[c], runs, hist.revived)
         /\ CallSound(pc[c], req[c], copy[c], runs)
         /\ pc[c] \in Points /\ req[c] \in Request
         /\ hist \in History
         /\ pc = [pc EXCEPT ![c] = pc[c]] /\ req = [req EXCEPT ![c] = req[c]]
         /\ copy = [copy EXCEPT ![c] = copy[c]] /\ inner = [inner EXCEPT ![c] = inner[c]]
  BY DEF Inv, TypeOK, Sound

(* Labels and runs stay as they are.                                        *)
LEMMA QuietProgress ==
  ASSUME Inv, UNCHANGED <<label, runs>>,
         hist' \in History, hist.revived \subseteq hist'.revived
  PROVE  Progress
  BY DEF Inv, TypeOK, Progress, Grows

(* Only the status of runs changes.                                         *)
LEMMA StatusProgress ==
  ASSUME Inv, UNCHANGED label, NEW r \in DOMAIN runs, NEW status \in Statuses,
         SetStatus(r, status),
         hist' \in History, hist.revived \subseteq hist'.revived
  PROVE  Progress
<1>1. runs[r] \in Run
  BY DEF Inv, TypeOK
<1>2. [runs[r] EXCEPT !.status = status] \in Run
  BY <1>1 DEF Run
<1>3. /\ runs' \in Seq(Run) /\ Len(runs') = Len(runs) /\ DOMAIN runs' = DOMAIN runs
      /\ \A s \in DOMAIN runs : runs'[s].ticket = runs[s].ticket
  BY <1>1, <1>2 DEF Inv, TypeOK, SetStatus, Run
<1>4. QED
  BY <1>3 DEF Inv, TypeOK, Progress, Grows

(* writeQueue as far as the history goes.                                   *)
LEMMA Puts ==
  ASSUME Inv, NEW c \in Callers, NEW where \in {"copy", "inner"}, NEW q,
         Put(c, where, q)
  PROVE  queue' = q /\ hist' \in History /\ hist'.revived = hist.revived
<1>1. Holding \subseteq Callers \X {"copy", "inner"}
  BY DEF Holding
<1>2. hist \in History
  BY DEF Inv, TypeOK
<1>3. QED
  BY <1>1, <1>2 DEF Put, History

(* The history of a caller that issues a command, and of one that reads.    *)
LEMMA Issues ==
  ASSUME Inv, NEW c \in Callers, CanIssue(c),
         NEW X \in SUBSET Tickets, NEW Y \in SUBSET Tickets
  PROVE  /\ Issued \in History /\ Issued.revived = hist.revived
         /\ [Issued EXCEPT !.forced = @ \cup Y] \in History
         /\ [Issued EXCEPT !.forced = @ \cup Y].revived = hist.revived
         /\ [Issued EXCEPT !.revived = @ \cup X, !.forced = @ \cup Y] \in History
         /\ [Issued EXCEPT !.revived = @ \cup X, !.forced = @ \cup Y].revived
              = hist.revived \cup X
<1>1. hist \in History
  BY DEF Inv, TypeOK
<1>2. hist.commands + 1 \in 0..MaxCommands
  BY <1>1, QueueAssumption DEF CanIssue, History
<1>3. QED
  BY <1>1, <1>2 DEF Issued, History

LEMMA Records ==
  ASSUME Inv, NEW X \in SUBSET Tickets
  PROVE  /\ [hist EXCEPT !.revived = @ \cup X] \in History
         /\ [hist EXCEPT !.revived = @ \cup X].revived = hist.revived \cup X
         /\ [hist EXCEPT !.forced = @ \cup X] \in History
         /\ [hist EXCEPT !.forced = @ \cup X].revived = hist.revived
  BY DEF Inv, TypeOK, History

-----------------------------------------------------------------------------
(* Claims and enqueues                                                      *)

LEMMA WriteStep ==
  ASSUME Inv, NEW c \in Callers, Write(c)
  PROVE  Inv'
<1>1. Moves(c, "idle", NoRequest, <<>>, inner[c])
  BY Holds DEF Write, Done, Goto, Moves
<1>2. queue' = copy[c] /\ hist' \in History /\ hist'.revived = hist.revived
  BY Puts DEF Write
<1>3. Progress /\ runs' = runs
  BY <1>2, QuietProgress DEF Write
<1>4. QED
  BY <1>1, <1>2, <1>3, Holds, EmptySound, IdleSound, Stepped

LEMMA PollReadStep ==
  ASSUME Inv, NEW c \in Callers, NEW t \in Tickets, PollRead(c, t)
  PROVE  Inv'
<1> DEFINE r == [NoRequest EXCEPT !.cmd = "poll", !.name = t]
<1>1. PICK p \in {"write", "labels"} : /\ pc' = [pc EXCEPT ![c] = p]
                                       /\ p = "labels" => ~OpenEntry(t)
  BY DEF PollRead, Goto
<1>2. Moves(c, p, r, queue, inner[c])
  BY <1>1, Holds DEF PollRead, Moves
<1>3. hist' \in History /\ hist'.revived = hist.revived
  BY Issues, Holds DEF PollRead
<1>4. Progress /\ runs' = runs /\ queue' = queue
  BY <1>3, QuietProgress DEF PollRead
<1>5. CallSound(p, r, queue, runs)
  <2>1. r \in Request /\ r.cmd = "poll" /\ r.name = t /\ r.run = 0
    BY NoRequestTyped DEF Request, Commands
  <2>2. p = "labels" => \A i \in DOMAIN queue : queue[i].ticket = t => ~Open(queue[i])
    BY <1>1 DEF OpenEntry
  <2>3. QED
    BY <2>1, <2>2 DEF CallSound, StartSound, PollSound, ResumeSound, Started,
       Bound, Running, Resumes, Points
<1>6. QED
  BY <1>2, <1>3, <1>4, <1>5, Holds, Stepped

LEMMA PollClaimStep ==
  ASSUME Inv, NEW c \in Callers, PollClaim(c)
  PROVE  Inv'
<1> DEFINE t == req[c].name
<1>1. /\ pc[c] = "labels" /\ t \in Tickets
      /\ \A i \in DOMAIN copy[c] : copy[c][i].ticket = t => ~Open(copy[c][i])
  BY Holds DEF PollClaim, CallSound, PollSound
<1>2. PICK st \in {"classifying", "ready", "needs-info"} :
        copy' = [copy EXCEPT ![c] = Append(copy[c], NewEntry(t, st))]
  BY Holds DEF PollClaim, Inv, TypeOK
<1> DEFINE k == Append(copy[c], NewEntry(t, st))
<1>3. Moves(c, "write", req[c], k, inner[c])
  BY <1>2, Holds DEF PollClaim, Goto, Moves
<1>4. Progress /\ runs' = runs /\ queue' = queue /\ hist' = hist
  <2>1. label' \in [Tickets -> {"none", "ready", "in-progress"}]
    BY DEF PollClaim, Inv, TypeOK
  <2>2. QED
    BY <2>1, Holds DEF PollClaim, Progress, Grows, Inv, TypeOK
<1>5. QueueSound(k, runs, hist.revived)
  BY <1>1, Holds, AppendedSound DEF States
<1>6. CallSound("write", req[c], k, runs)
  BY <1>1, Holds DEF CallSound, StartSound, PollSound, ResumeSound, Started,
     Bound, Running, Points
<1>7. QED
  BY <1>3, <1>4, <1>5, <1>6, Holds, Stepped

(* A command that holds a changed queue and names no run.                   *)
LEMMA EditSound ==
  ASSUME Inv, NEW c \in Callers, NEW k, NEW r \in Request,
         r.cmd = "edit", r.run # 0 => r.run \in DOMAIN runs
  PROVE  CallSound("write", r, k, runs)
  BY DEF CallSound, StartSound, PollSound, ResumeSound, Started, Bound, Running,
     Resumes, Points

LEMMA EnqueueStep ==
  ASSUME Inv, NEW c \in Callers, NEW t \in Tickets, Enqueue(c, t)
  PROVE  Inv'
<1> DEFINE r == [req[c] EXCEPT !.cmd = "edit"]
<1>1. PICK k : /\ copy' = [copy EXCEPT ![c] = k]
               /\ \/ k = queue
                  \/ /\ ~OpenEntry(t)
                     /\ \E st \in {"queued", "ready"} : k = Append(queue, NewEntry(t, st))
  BY DEF Enqueue
<1>2. Moves(c, "write", r, k, inner[c])
  BY <1>1, Holds DEF Enqueue, Goto, Moves, Inv, TypeOK
<1>3. hist' \in History /\ hist'.revived = hist.revived
  BY Issues DEF Enqueue
<1>4. Progress /\ runs' = runs /\ queue' = queue
  BY <1>3, QuietProgress DEF Enqueue
<1>5. QueueSound(k, runs, hist.revived)
  <2>1. ASSUME ~OpenEntry(t), NEW st \in {"queued", "ready"}
        PROVE  QueueSound(Append(queue, NewEntry(t, st)), runs, hist.revived)
    <3>1. \A i \in DOMAIN queue : queue[i].ticket = t => ~Open(queue[i])
      BY <2>1 DEF OpenEntry
    <3>2. st \in States \ {"awaiting-steer", "awaiting-operator"}
      BY DEF States
    <3>3. QED
      BY <3>1, <3>2, Holds, AppendedSound
  <2>2. QED
    BY <1>1, <2>1, Holds
<1>6. CallSound("write", r, k, runs)
  <2>1. r \in Request /\ r.cmd = "edit" /\ r.run = req[c].run
    BY Holds DEF Request, Commands
  <2>2. QED
    BY <2>1, Holds, EditSound DEF CallSound
<1>7. QED
  BY <1>2, <1>3, <1>4, <1>5, <1>6, Holds, Stepped

LEMMA RelabelStep ==
  ASSUME Inv, NEW t \in Tickets, Relabel(t)
  PROVE  Inv'
<1>1. hist \in History
  BY DEF Inv, TypeOK
<1>2. hist.commands + 1 \in 0..MaxCommands
  BY <1>1, QueueAssumption DEF Relabel, History
<1>3. hist' \in History /\ hist'.revived = hist.revived
  BY <1>1, <1>2 DEF Relabel, Issued, History
<1>4. QED
  BY <1>3 DEF Relabel, Inv, TypeOK, Sound

-----------------------------------------------------------------------------
(* Starts                                                                   *)

LEMMA StartStep ==
  ASSUME Inv, NEW c \in Callers, Start(c)
  PROVE  Inv'
<1> DEFINE r == [req[c] EXCEPT !.cmd = "start"]
<1>1. Moves(c, "startRead", r, copy[c], inner[c])
  BY Holds DEF Start, Goto, Moves, Inv, TypeOK
<1>2. hist' \in History /\ hist'.revived = hist.revived
  BY Issues DEF Start
<1>3. Progress /\ runs' = runs /\ queue' = queue
  BY <1>2, QuietProgress DEF Start
<1>4. CallSound("startRead", r, copy[c], runs)
  <2>1. r \in Request /\ r.cmd = "start" /\ r.run = req[c].run
    BY Holds DEF Request, Commands
  <2>2. QED
    BY <2>1, Holds DEF CallSound, StartSound, PollSound, ResumeSound, Started,
       Bound, Running, Resumes, Points
<1>5. QED
  BY <1>1, <1>2, <1>3, <1>4, Holds, Stepped

(* A caller that has nothing more to do.                                    *)
LEMMA DoneStep ==
  ASSUME Inv, NEW c \in Callers, Done(c), UNCHANGED <<queue, label, inner>>,
         Progress, runs' = runs
  PROVE  Inv'
<1>1. Moves(c, "idle", NoRequest, <<>>, inner[c])
  BY Holds DEF Done, Goto, Moves
<1>2. QueueSound(queue, runs, hist'.revived) /\ QueueSound(inner[c], runs, hist'.revived)
  BY SMTT(20), Holds, StillSound DEF Progress
<1>3. QED
  BY <1>1, <1>2, EmptySound, IdleSound, Stepped

LEMMA StartReadStep ==
  ASSUME Inv, NEW c \in Callers, StartRead(c)
  PROVE  Inv'
<1>1. CASE Done(c) /\ UNCHANGED hist
  <2>1. Progress
    BY <1>1, Holds, QuietProgress DEF StartRead
  <2>2. QED
    BY <1>1, <2>1, DoneStep DEF StartRead
<1>2. ASSUME NEW i \in DOMAIN queue, queue[i].state \in {"queued", "ready"},
             Read(c, i, [queue[i] EXCEPT !.state = "running"], "startWrite"),
             req' = [req EXCEPT ![c] = [NoRequest EXCEPT !.cmd = "start", !.at = i,
                                                   !.name = queue[i].ticket]]
      PROVE  Inv'
  <2> DEFINE e == [queue[i] EXCEPT !.state = "running"]
             r == [NoRequest EXCEPT !.cmd = "start", !.at = i, !.name = queue[i].ticket]
             k == Edited(queue, i, e)
  <2>1. queue[i] \in Entry /\ i \in Nat \ {0}
    BY Holds DEF QueueSound
  <2>2. /\ e \in Entry /\ e.ticket = queue[i].ticket /\ EntrySound(e, runs)
        /\ Open(e) /\ e.ticket \in Tickets
    BY <2>1, Holds DEF Entry, States, Open, Terminal, EntrySound, QueueSound
  <2>3. /\ QueueSound(k, runs, hist.revived \cup Revives(queue, i, e))
        /\ Revives(queue, i, e) \subseteq Tickets
    BY <2>2, Holds, EditedSound
  <2>4. hist' \in History /\ hist'.revived = hist.revived \cup Revives(queue, i, e)
    BY <1>2, <2>3, Records DEF Read
  <2>5. Moves(c, "startWrite", r, k, inner[c])
    BY <1>2, Holds DEF StartRead, Read, Goto, Moves
  <2>6. Progress /\ runs' = runs /\ queue' = queue
    BY <2>4, QuietProgress DEF StartRead
  <2>7. CallSound("startWrite", r, k, runs)
    <3>1. r \in Request /\ r.cmd = "start" /\ r.name = e.ticket /\ r.at = i /\ r.run = 0
      <4>1. queue[i].ticket \in Tickets /\ queue[i].ticket = e.ticket
        BY <2>1, <2>2 DEF Entry
      <4>2. QED
        BY <4>1, <2>1, NoRequestTyped DEF Request, Commands
    <3>2. i \in DOMAIN k /\ k[i] = e
      BY <2>1 DEF Edited
    <3>3. QED
      BY <2>2, <3>1, <3>2 DEF CallSound, StartSound, PollSound, ResumeSound,
         Started, Bound, Running, Resumes, Points
  <2>8. QueueSound(queue, runs, hist'.revived) /\ QueueSound(inner[c], runs, hist'.revived)
    BY <2>6, Holds, StillSound DEF Progress
  <2>9. QED
    BY <2>3, <2>4, <2>5, <2>6, <2>7, <2>8, Stepped
<1>3. QED
  BY <1>1, <1>2 DEF StartRead

LEMMA StartWriteStep ==
  ASSUME Inv, NEW c \in Callers, StartWrite(c)
  PROVE  Inv'
<1>1. Moves(c, "provision", req[c], copy[c], inner[c])
  BY Holds DEF StartWrite, Goto, Moves
<1>2. queue' = copy[c] /\ hist' \in History /\ hist'.revived = hist.revived
  BY Puts DEF StartWrite
<1>3. Progress /\ runs' = runs
  BY <1>2, QuietProgress DEF StartWrite
<1>4. CallSound("provision", req[c], copy[c], runs)
  BY Holds DEF StartWrite, CallSound, StartSound, PollSound, ResumeSound,
     Started, Bound, Running, Points
<1>5. QED
  BY <1>1, <1>2, <1>3, <1>4, Holds, Stepped

(* The entry a start has at hand may become any of its ticket.              *)
LEMMA AtHand ==
  ASSUME Inv, NEW c \in Callers,
         req[c].cmd = "start", pc[c] \in Started \cup Running,
         NEW e \in Entry, e.ticket = req[c].name, EntrySound(e, runs)
  PROVE  QueueSound([copy[c] EXCEPT ![req[c].at] = e], runs, hist.revived)
<1>1. /\ req[c].at \in DOMAIN copy[c] /\ copy[c][req[c].at].ticket = req[c].name
      /\ Open(copy[c][req[c].at]) /\ QueueSound(copy[c], runs, hist.revived)
  BY Holds DEF CallSound, StartSound
<1>2. req[c].at # 0
  BY <1>1 DEF QueueSound
<1>3. /\ Edited(copy[c], req[c].at, e) = [copy[c] EXCEPT ![req[c].at] = e]
      /\ Revives(copy[c], req[c].at, e) = {}
  BY <1>1, <1>2 DEF Edited, Revives
<1>4. QED
  BY <1>1, <1>3, EditedSound

(* The entry with the outcome of its run.                                   *)
LEMMA Outcomes ==
  ASSUME Inv, NEW c \in Callers,
         req[c].cmd = "start", pc[c] \in Bound \cup Running,
         NEW status \in Statuses, Outcome(c, req[c].run, status)
  PROVE  \E k : /\ copy' = [copy EXCEPT ![c] = k]
                /\ QueueSound(k, runs, hist.revived)
<1> DEFINE at == req[c].at
           e == [copy[c][at] EXCEPT !.state = queueStateFor(status), !.run = req[c].run]
           k == [copy[c] EXCEPT ![at] = e]
<1>1. /\ at \in DOMAIN copy[c] /\ copy[c][at].ticket = req[c].name
      /\ req[c].run # 0 /\ req[c].run \in DOMAIN runs /\ runs[req[c].run].ticket = req[c].name
      /\ copy[c] \in Seq(Entry) /\ req[c] \in Request
  BY Holds DEF CallSound, StartSound, QueueSound, Bound, Started
<1>2. copy[c][at] \in Entry
  BY <1>1
<1>3. e \in Entry /\ e.ticket = req[c].name /\ e.run = req[c].run
  BY <1>1, <1>2, StateOfStatus DEF Entry, Request
<1>4. QueueSound(k, runs, hist.revived)
  BY <1>1, <1>3, AtHand DEF EntrySound, Bound, Started
<1>5. copy' = [copy EXCEPT ![c] = k]
  BY <1>1, <1>2 DEF Outcome, Inv, TypeOK, Entry
<1>6. QED
  BY <1>4, <1>5

LEMMA ThrownStep ==
  ASSUME Inv, NEW c \in Callers,
         req[c].cmd = "start", pc[c] \in Started \cup Running, Thrown(c),
         UNCHANGED <<queue, label, runs, inner, hist>>
  PROVE  Inv'
<1> DEFINE at == req[c].at
           e == [copy[c][at] EXCEPT !.state = "blocked"]
           k == [copy[c] EXCEPT ![at] = e]
           r == [req[c] EXCEPT !.run = 0]
<1>1. /\ at \in DOMAIN copy[c] /\ copy[c][at].ticket = req[c].name
      /\ copy[c] \in Seq(Entry) /\ req[c] \in Request /\ req[c].name \in Tickets
      /\ EntrySound(copy[c][at], runs)
  BY Holds DEF CallSound, StartSound, QueueSound
<1>2. copy[c][at] \in Entry
  BY SMTT(20), <1>1
<1>3. e \in Entry /\ e.ticket = req[c].name /\ EntrySound(e, runs)
  BY <1>1, <1>2 DEF Entry, EntrySound, States
<1>4. QueueSound(k, runs, hist.revived)
  BY <1>3, AtHand
<1>5. Moves(c, "startBack", r, k, inner[c])
  BY <1>1, <1>2, Holds DEF Thrown, Goto, Moves, Inv, TypeOK, Entry
<1>6. Progress
  BY Holds, QuietProgress
<1>7. CallSound("startBack", r, k, runs)
  <2>1. r \in Request /\ r.cmd = "start" /\ r.run = 0 /\ r.name = req[c].name
    BY <1>1, QueueAssumption DEF Request
  <2>2. QED
    BY <2>1, <1>1 DEF CallSound, StartSound, PollSound, ResumeSound, Started,
       Bound, Running, Resumes, Points
<1>8. QED
  BY <1>4, <1>5, <1>6, <1>7, Holds, Stepped

LEMMA ProvisionStep ==
  ASSUME Inv, NEW c \in Callers, Provision(c)
  PROVE  Inv'
<1>1. pc[c] = "provision" /\ req[c].cmd = "start" /\ req[c].name \in Tickets
  BY Holds DEF Provision, CallSound, StartSound, Started
<1>2. CASE Thrown(c) /\ UNCHANGED runs
  BY <1>1, <1>2, ThrownStep DEF Provision, Started
<1>3. CASE /\ Len(runs) < MaxRuns
           /\ runs' = Append(runs, [ticket |-> req[c].name, status |-> "pending"])
           /\ req' = [req EXCEPT ![c].run = Len(runs) + 1]
           /\ Goto(c, "bindRead")
           /\ UNCHANGED copy
  <2> DEFINE n == Len(runs) + 1
             r == [req[c] EXCEPT !.run = n]
             new == [ticket |-> req[c].name, status |-> "pending"]
  <2>1. new \in Run /\ runs \in Seq(Run)
    BY <1>1 DEF Run, Statuses, Inv, TypeOK
  <2>2. /\ runs' \in Seq(Run) /\ Len(runs') = n /\ n \in 1..MaxRuns /\ n \in DOMAIN runs'
        /\ runs'[n].ticket = req[c].name /\ Grows(runs, runs')
    BY <1>3, <2>1, QueueAssumption DEF Grows
  <2>3. Moves(c, "bindRead", r, copy[c], inner[c])
    BY <1>3, Holds DEF Provision, Goto, Moves, Inv, TypeOK
  <2>4. Progress /\ UNCHANGED <<queue, hist>>
    BY <2>2 DEF Provision, Progress, Inv, TypeOK
  <2>5. CallSound("bindRead", r, copy[c], runs')
    <3>1. r \in Request /\ r.run = n /\ r.cmd = "start" /\ r.name = req[c].name
          /\ r.at = req[c].at
      BY SMTT(30), <1>1, <2>2, Holds DEF Request
    <3>2. /\ r.at \in DOMAIN copy[c] /\ copy[c][r.at].ticket = r.name
          /\ Open(copy[c][r.at])
      BY <1>1, <3>1, Holds DEF CallSound, StartSound, Started
    <3>3. QED
      BY <1>1, <2>2, <3>1, <3>2 DEF CallSound, StartSound, PollSound, ResumeSound,
         Started, Bound, Running, Resumes, Points
  <2>6. /\ QueueSound(queue, runs', hist.revived)
        /\ QueueSound(copy[c], runs', hist.revived)
        /\ QueueSound(inner[c], runs', hist.revived)
    BY <2>2, Holds, StillSound
  <2>7. QED
    BY <2>3, <2>4, <2>5, <2>6, Stepped
<1>4. QED
  BY <1>2, <1>3 DEF Provision

(* A caller that only goes on, from a point of its run to another.          *)
LEMMA GoesOn ==
  ASSUME NEW p, NEW r, NEW k, NEW rs, CallSound(p, r, k, rs),
         NEW q, \/ p \in Bound /\ q \in Bound \cup Running
                \/ p \in Running /\ q \in Running
  PROVE  CallSound(q, r, k, rs)
  BY DEF CallSound, StartSound, PollSound, ResumeSound, Started, Bound, Running,
     Points

(* The binding or the publish stage has read the queue and changed an entry.*)
LEMMA ReadInnerStep ==
  ASSUME Inv, NEW c \in Callers, NEW i \in DOMAIN queue, NEW e \in Entry,
         e.ticket = queue[i].ticket, EntrySound(e, runs),
         NEW point, ReadInner(c, i, e, point),
         CallSound(point, req[c], copy[c], runs),
         UNCHANGED <<queue, label, runs, req, copy>>
  PROVE  Inv'
<1> DEFINE n == Edited(queue, i, e)
<1>1. /\ QueueSound(n, runs, hist.revived \cup Revives(queue, i, e))
      /\ Revives(queue, i, e) \subseteq Tickets
  BY Holds, EditedSound
<1>2. hist' \in History /\ hist'.revived = hist.revived \cup Revives(queue, i, e)
  BY <1>1, Records DEF ReadInner
<1>3. Moves(c, point, req[c], copy[c], n)
  BY Holds DEF ReadInner, Goto, Moves
<1>4. Progress
  BY <1>2, QuietProgress
<1>5. QueueSound(queue, runs, hist'.revived) /\ QueueSound(copy[c], runs, hist'.revived)
  BY <1>4, Holds, StillSound DEF Progress
<1>6. QED
  BY <1>1, <1>2, <1>3, <1>4, <1>5, Stepped

(* A caller goes on and leaves everything else as it is.                    *)
LEMMA OnlyGoes ==
  ASSUME Inv, NEW c \in Callers, NEW point, Goto(c, point),
         CallSound(point, req[c], copy[c], runs),
         UNCHANGED <<queue, label, runs, req, copy, inner, hist>>
  PROVE  Inv'
<1>1. Moves(c, point, req[c], copy[c], inner[c])
  BY Holds DEF Goto, Moves
<1>2. Progress
  BY Holds, QuietProgress
<1>3. QED
  BY <1>1, <1>2, Holds, Stepped

LEMMA BindReadStep ==
  ASSUME Inv, NEW c \in Callers, BindRead(c)
  PROVE  Inv'
<1> DEFINE i == Find(queue, req[c].name)
           e == [queue[i] EXCEPT !.run = req[c].run, !.workspace = TRUE]
<1>1. /\ pc[c] = "bindRead" /\ req[c].cmd = "start" /\ req[c].name \in Tickets
      /\ req[c].run # 0 /\ req[c].run \in DOMAIN runs
      /\ runs[req[c].run].ticket = req[c].name /\ req[c].run \in 0..MaxRuns
  BY Holds DEF BindRead, CallSound, StartSound, Started, Bound, Request
<1>2. \A point \in {"setup", "bindWrite"} : CallSound(point, req[c], copy[c], runs)
  BY <1>1, Holds, GoesOn DEF Bound
<1>3. CASE i = 0
  BY <1>2, <1>3, OnlyGoes DEF BindRead
<1>4. CASE i # 0
  <2>1. /\ i \in DOMAIN queue
        /\ queue[i].ticket = req[c].name \/ queue[i].run = req[c].name
    BY <1>4, FindFinds, Holds DEF QueueSound
  <2>2. queue[i] \in Entry
    BY <2>1, Holds DEF QueueSound
  <2>3. queue[i].ticket = req[c].name
    BY <1>1, <2>1, <2>2, QueueAssumption DEF Entry
  <2>4. e \in Entry /\ e.ticket = queue[i].ticket /\ EntrySound(e, runs)
    BY <1>1, <2>2, <2>3 DEF Entry, EntrySound
  <2>5. ReadInner(c, i, e, "bindWrite")
    BY <1>4 DEF BindRead
  <2>6. QED
    BY <1>2, <2>1, <2>4, <2>5, ReadInnerStep DEF BindRead
<1>5. QED
  BY <1>3, <1>4

LEMMA InnerWriteStep ==
  ASSUME Inv, NEW c \in Callers, NEW from, NEW to, InnerWrite(c, from, to),
         \/ from \in Bound /\ to \in Bound
         \/ from \in Running /\ to \in Running
  PROVE  Inv'
<1>1. Moves(c, to, req[c], copy[c], <<>>)
  BY Holds DEF InnerWrite, Goto, Moves
<1>2. queue' = inner[c] /\ hist' \in History /\ hist'.revived = hist.revived
  BY Puts DEF InnerWrite
<1>3. Progress /\ runs' = runs
  BY <1>2, QuietProgress DEF InnerWrite
<1>4. CallSound(to, req[c], copy[c], runs)
  BY Holds, GoesOn DEF InnerWrite
<1>5. QED
  BY <1>1, <1>2, <1>3, <1>4, Holds, EmptySound, Stepped

LEMMA PublishStep ==
  ASSUME Inv, NEW c \in Callers, Publish(c)
  PROVE  Inv'
<1> DEFINE i == findPublishEntry(queue, req[c].run)
           e == [queue[i] EXCEPT !.state = "published", !.judged = TRUE]
<1>1. \A point \in Running : CallSound(point, req[c], copy[c], runs)
  BY Holds, GoesOn DEF Publish, Running
<1>2. CASE i = 0 /\ Goto(c, "published") /\ UNCHANGED <<inner, hist>>
  BY <1>1, <1>2, OnlyGoes DEF Publish, Running
<1>3. CASE i # 0 /\ ReadInner(c, i, e, "publishWrite")
  <2>1. i \in DOMAIN queue
    BY <1>3, FindFinds, Holds DEF findPublishEntry, QueueSound
  <2>2. queue[i] \in Entry /\ EntrySound(queue[i], runs)
    BY <2>1, Holds DEF QueueSound
  <2>3. e \in Entry /\ e.ticket = queue[i].ticket /\ EntrySound(e, runs)
    BY <2>2 DEF Entry, EntrySound, States
  <2>4. QED
    BY <1>1, <1>3, <2>1, <2>3, ReadInnerStep DEF Publish, Running
<1>4. QED
  BY <1>2, <1>3 DEF Publish

(* A start that has the outcome of its run, whose status may change with it.*)
LEMMA OutcomeStep ==
  ASSUME Inv, NEW c \in Callers,
         req[c].cmd = "start", pc[c] \in Bound \cup Running,
         NEW status \in Statuses, Outcome(c, req[c].run, status),
         Goto(c, "startBack"), UNCHANGED <<queue, label, req, inner, hist>>,
         UNCHANGED runs \/ SetStatus(req[c].run, status)
  PROVE  Inv'
<1>1. /\ req[c].run \in DOMAIN runs /\ req[c].name \in Tickets
      /\ req[c].run # 0
  BY Holds DEF CallSound, StartSound, Started, Bound
<1>2. PICK k : /\ copy' = [copy EXCEPT ![c] = k]
               /\ QueueSound(k, runs, hist.revived)
  BY Outcomes
<1>3. Progress
  BY <1>1, Holds, QuietProgress, StatusProgress
<1>4. Moves(c, "startBack", req[c], k, inner[c])
  BY <1>2, Holds DEF Goto, Moves
<1>5. CallSound("startBack", req[c], k, runs')
  <2>1. CallSound("startBack", req[c], k, runs)
    BY <1>1, Holds DEF CallSound, StartSound, PollSound, ResumeSound, Started,
       Bound, Running, Resumes, Points
  <2>2. QED
    BY <1>3, <2>1, StillCallSound DEF Progress
<1>6. /\ QueueSound(queue, runs', hist.revived)
      /\ QueueSound(k, runs', hist.revived)
      /\ QueueSound(inner[c], runs', hist.revived)
  BY <1>2, <1>3, Holds, StillSound DEF Progress
<1>7. QED
  BY <1>3, <1>4, <1>5, <1>6, Stepped

(* A run begins, or goes on.                                                *)
LEMMA ExecutingStep ==
  ASSUME Inv, NEW c \in Callers, SetStatus(req[c].run, "running"),
         req[c].run \in DOMAIN runs, Goto(c, "executing"),
         CallSound("executing", req[c], copy[c], runs),
         UNCHANGED <<queue, label, req, copy, inner>>,
         hist' \in History, hist'.revived = hist.revived
  PROVE  Inv'
<1>1. Progress
  BY StatusProgress DEF Statuses
<1>2. Moves(c, "executing", req[c], copy[c], inner[c])
  BY Holds DEF Goto, Moves
<1>3. CallSound("executing", req[c], copy[c], runs')
  BY <1>1, StillCallSound DEF Progress
<1>4. /\ QueueSound(queue, runs', hist.revived)
      /\ QueueSound(copy[c], runs', hist.revived)
      /\ QueueSound(inner[c], runs', hist.revived)
  BY <1>1, Holds, StillSound DEF Progress
<1>5. QED
  BY <1>1, <1>2, <1>3, <1>4, Stepped

LEMMA SetupStep ==
  ASSUME Inv, NEW c \in Callers, Setup(c)
  PROVE  Inv'
<1> DEFINE r == req[c].run
<1>1. pc[c] = "setup" /\ req[c].cmd = "start" /\ r # 0 /\ r \in DOMAIN runs
  BY Holds DEF Setup, CallSound, StartSound, Started, Bound
<1>2. runs[r].status \in Statuses
  <2>1. runs[r] \in Run
    BY <1>1 DEF Inv, TypeOK
  <2>2. QED
    BY <2>1 DEF Run
<1>3. pc[c] \in Bound /\ pc[c] \in Started \cup Running
  BY <1>1 DEF Bound, Started
<1>4. CASE /\ SetStatus(r, "failed") /\ Outcome(c, r, "failed")
           /\ Goto(c, "startBack") /\ UNCHANGED req
  BY <1>1, <1>3, <1>4, OutcomeStep DEF Setup, Statuses, Finals
<1>5. CASE Thrown(c) /\ UNCHANGED runs
  BY <1>1, <1>3, <1>5, ThrownStep DEF Setup
<1>6. CASE /\ Outcome(c, r, runs[r].status) /\ Goto(c, "startBack")
           /\ UNCHANGED <<runs, req>>
  BY <1>1, <1>2, <1>3, <1>6, OutcomeStep DEF Setup
<1>7. CASE /\ SetStatus(r, "running")
           /\ Goto(c, "executing") /\ UNCHANGED <<req, copy>>
  <2>1. CallSound("executing", req[c], copy[c], runs)
    BY <1>3, Holds, GoesOn DEF Running
  <2>2. QED
    BY <1>1, <1>7, <2>1, Holds, ExecutingStep DEF Setup
<1>8. QED
  BY <1>4, <1>5, <1>6, <1>7 DEF Setup

LEMMA RunEndsStep ==
  ASSUME Inv, NEW c \in Callers, RunEnds(c)
  PROVE  Inv'
<1> DEFINE r == req[c].run
<1>1. PICK status \in Pauses \cup Finals :
        /\ SetStatus(r, status)
        /\ \/ /\ req[c].cmd = "start"
              /\ Outcome(c, r, status) /\ Goto(c, "startBack") /\ UNCHANGED req
           \/ /\ req[c].cmd # "start"
              /\ req' = [req EXCEPT ![c].outcome = status]
              /\ Goto(c, "backRead") /\ UNCHANGED copy
  BY DEF RunEnds
<1>2. status \in Statuses /\ pc[c] \in Running
  BY DEF Statuses, RunEnds, Running
<1>3. CASE req[c].cmd = "start"
  BY <1>1, <1>2, <1>3, OutcomeStep DEF RunEnds
<1>4. CASE req[c].cmd # "start"
  <2> DEFINE s == [req[c] EXCEPT !.outcome = status]
  <2>1. req[c].cmd \in Resumes /\ r # 0 /\ r \in DOMAIN runs
    BY <1>2, <1>4, Holds DEF CallSound, ResumeSound
  <2>2. Progress /\ UNCHANGED <<queue, hist>>
    BY <1>1, <1>2, <2>1, Holds, StatusProgress DEF RunEnds
  <2>3. Moves(c, "backRead", s, copy[c], inner[c])
    BY <1>1, <1>4, Holds DEF RunEnds, Goto, Moves, Inv, TypeOK
  <2>4. CallSound("backRead", s, copy[c], runs')
    <3>1. /\ s \in Request /\ s.cmd = req[c].cmd /\ s.run = r /\ s.name = req[c].name
          /\ s.outcome = status
      BY <1>2, Holds DEF Request
    <3>2. s.name \in {s.run, runs[s.run].ticket}
      BY <2>1, <3>1, Holds DEF CallSound, ResumeSound
    <3>3. CallSound("backRead", s, copy[c], runs)
      BY <2>1, <3>1, <3>2 DEF CallSound, StartSound, PollSound, ResumeSound,
         Started, Bound, Running, Resumes, Points
    <3>4. QED
      BY <2>2, <3>3, StillCallSound DEF Progress
  <2>5. /\ QueueSound(queue, runs', hist.revived)
        /\ QueueSound(copy[c], runs', hist.revived)
        /\ QueueSound(inner[c], runs', hist.revived)
    BY <2>2, Holds, StillSound DEF Progress
  <2>6. QED
    BY <2>2, <2>3, <2>4, <2>5, Stepped
<1>5. QED
  BY <1>3, <1>4

LEMMA StartBackStep ==
  ASSUME Inv, NEW c \in Callers, StartBack(c)
  PROVE  Inv'
<1>1. queue' = copy[c] /\ hist' \in History /\ hist'.revived = hist.revived
  BY Puts DEF StartBack
<1>2. Progress /\ runs' = runs
  BY <1>1, QuietProgress DEF StartBack
<1>3. CASE Done(c)
  <2>1. Moves(c, "idle", NoRequest, <<>>, inner[c])
    BY <1>3, Holds DEF StartBack, Done, Goto, Moves
  <2>2. QED
    BY <1>1, <1>2, <2>1, Holds, EmptySound, IdleSound, Stepped
<1>4. CASE /\ Goto(c, "startRead")
           /\ req' = [req EXCEPT ![c] = [NoRequest EXCEPT !.cmd = "start"]]
           /\ copy' = [copy EXCEPT ![c] = <<>>]
  <2> DEFINE r == [NoRequest EXCEPT !.cmd = "start"]
  <2>1. Moves(c, "startRead", r, <<>>, inner[c])
    BY <1>4, Holds DEF StartBack, Goto, Moves
  <2>2. r \in Request /\ r.cmd = "start" /\ r.run = 0
    BY NoRequestTyped DEF Request, Commands
  <2>3. CallSound("startRead", r, <<>>, runs)
    BY <2>2 DEF CallSound, StartSound, PollSound, ResumeSound, Started, Bound,
       Running, Resumes, Points
  <2>4. QED
    BY <1>1, <1>2, <2>1, <2>3, Holds, EmptySound, Stepped
<1>5. QED
  BY <1>3, <1>4 DEF StartBack

-----------------------------------------------------------------------------
(* Resumes                                                                  *)

(* A ticket of the queue or of the runs.                                    *)
LEMMA MeddledTicket ==
  ASSUME Inv, NEW i \in DOMAIN queue
  PROVE  queue[i].ticket \in Tickets /\ Meddled(queue[i]) \subseteq Tickets
<1>1. queue[i] \in Entry
  BY DEF Inv, TypeOK
<1>2. QED
  BY <1>1 DEF Entry, Meddled

LEMMA ResumeStep ==
  ASSUME Inv, NEW c \in Callers, NEW name \in Names,
         NEW cmd \in Resumes, Resume(c, name, cmd)
  PROVE  Inv'
<1> DEFINE i == Find(queue, name)
           s == [NoRequest EXCEPT !.cmd = cmd, !.run = queue[i].run,
                   !.name = IF cmd = "approve" THEN queue[i].ticket ELSE name]
<1>1. /\ i \in DOMAIN queue
      /\ queue[i].ticket = name \/ queue[i].run = name
  BY FindFinds, Holds DEF Resume, QueueSound
<1>2. queue[i] \in Entry /\ EntrySound(queue[i], runs) /\ queue[i].run # 0
  BY <1>1, Holds DEF Resume, QueueSound
<1>3. /\ queue[i].run \in DOMAIN runs /\ queue[i].run \in 0..MaxRuns
      /\ runs[queue[i].run].ticket = queue[i].ticket /\ queue[i].ticket \in Tickets
  BY <1>2 DEF EntrySound, Entry
<1>4. /\ s \in Request /\ s.cmd = cmd /\ s.run = queue[i].run
      /\ s.name \in {queue[i].run, queue[i].ticket}
  <2> DEFINE nm == IF cmd = "approve" THEN queue[i].ticket ELSE name
  <2>1. nm \in Tickets \cup 0..MaxRuns /\ nm \in {queue[i].run, queue[i].ticket}
    BY <1>1, <1>3, QueueAssumption DEF Names
  <2>2. cmd \in Commands
    BY DEF Commands, Resumes
  <2>3. QED
    BY <1>3, <2>1, <2>2, NoRequestTyped DEF Request
<1>5. CallSound("resuming", s, copy[c], runs)
  BY <1>2, <1>3, <1>4 DEF CallSound, StartSound, PollSound, ResumeSound, Started,
     Bound, Running, Resumes, Points
<1>6. Moves(c, "resuming", s, copy[c], inner[c])
  BY Holds DEF Resume, Goto, Moves
<1>7. hist' \in History /\ hist'.revived = hist.revived
  BY <1>1, MeddledTicket, Issues DEF Resume
<1>8. Progress /\ runs' = runs /\ queue' = queue
  BY <1>7, QuietProgress DEF Resume
<1>9. QED
  BY <1>5, <1>6, <1>7, <1>8, Holds, Stepped

LEMMA ResumingStep ==
  ASSUME Inv, NEW c \in Callers, Resuming(c)
  PROVE  Inv'
<1> DEFINE r == req[c].run
           met == IF Unrecorded(r) THEN {runs[r].ticket} ELSE {}
<1>1. pc[c] = "resuming" /\ req[c].cmd \in Resumes /\ r # 0 /\ r \in DOMAIN runs
  BY Holds DEF Resuming, CallSound, ResumeSound
<1>2. runs[r].ticket \in Tickets
  <2>1. runs[r] \in Run
    BY <1>1 DEF Inv, TypeOK
  <2>2. QED
    BY <2>1 DEF Run
<1>3. hist' \in History /\ hist'.revived = hist.revived
  <2>1. met \in SUBSET Tickets /\ hist' = [hist EXCEPT !.forced = @ \cup met]
    BY <1>2 DEF Resuming
  <2>2. QED
    BY <2>1, Records
<1>4. CASE Done(c) /\ UNCHANGED runs
  <2>1. Progress
    BY <1>3, <1>4, QuietProgress DEF Resuming
  <2>2. QED
    BY <1>4, <2>1, DoneStep DEF Resuming
<1>5. CASE SetStatus(r, "running") /\ Goto(c, "executing") /\ UNCHANGED <<req, copy>>
  <2>1. CallSound("executing", req[c], copy[c], runs)
    BY <1>1, Holds DEF CallSound, StartSound, PollSound, ResumeSound, Started,
       Bound, Running, Resumes, Points
  <2>2. QED
    BY <1>1, <1>3, <1>5, <2>1, ExecutingStep DEF Resuming
<1>6. QED
  BY <1>4, <1>5 DEF Resuming

LEMMA BackReadStep ==
  ASSUME Inv, NEW c \in Callers, BackRead(c)
  PROVE  Inv'
<1> DEFINE i == Find(queue, req[c].name)
           r == req[c].run
           e == [queue[i] EXCEPT !.state = queueStateFor(req[c].outcome), !.run = r]
           k == Edited(queue, i, e)
<1>1. /\ pc[c] = "backRead" /\ req[c].cmd \in Resumes /\ r # 0 /\ r \in DOMAIN runs
      /\ req[c].name \in {r, runs[r].ticket} /\ req[c].outcome \in Statuses
      /\ r \in 0..MaxRuns
  BY Holds DEF BackRead, CallSound, ResumeSound, Request, Statuses
<1>2. CASE i = 0 /\ Done(c) /\ UNCHANGED hist
  <2>1. Progress
    BY <1>2, Holds, QuietProgress DEF BackRead
  <2>2. QED
    BY <1>2, <2>1, DoneStep DEF BackRead
<1>3. CASE i # 0 /\ Read(c, i, e, "write") /\ UNCHANGED req
  <2>1. /\ i \in DOMAIN queue
        /\ queue[i].ticket = req[c].name \/ queue[i].run = req[c].name
    BY <1>3, FindFinds, Holds DEF QueueSound
  <2>2. queue[i] \in Entry /\ EntrySound(queue[i], runs)
    BY <2>1, Holds DEF QueueSound
  <2>3. queue[i].ticket = runs[r].ticket
    <3>1. runs[r] \in Run /\ queue[i].ticket \in Tickets /\ queue[i].run \in Nat
      BY SMTT(30), <1>1, <2>2, QueueAssumption DEF Inv, TypeOK, Entry
    <3>2. runs[r].ticket \in Tickets /\ r \in Nat
      BY <1>1, <3>1 DEF Run
    <3>3. QED
      BY <1>1, <2>1, <2>2, <3>1, <3>2, QueueAssumption DEF EntrySound
  <2>4. e \in Entry /\ e.ticket = queue[i].ticket /\ EntrySound(e, runs)
    BY <1>1, <2>2, <2>3, StateOfStatus DEF Entry, EntrySound
  <2>5. /\ QueueSound(k, runs, hist.revived \cup Revives(queue, i, e))
        /\ Revives(queue, i, e) \subseteq Tickets
    BY <2>1, <2>4, Holds, EditedSound
  <2>6. hist' \in History /\ hist'.revived = hist.revived \cup Revives(queue, i, e)
    BY <1>3, <2>5, Records DEF Read
  <2>7. Progress /\ runs' = runs /\ queue' = queue
    BY <2>6, QuietProgress DEF BackRead
  <2>8. Moves(c, "write", req[c], k, inner[c])
    BY <1>3, Holds DEF BackRead, Read, Goto, Moves
  <2>9. CallSound("write", req[c], k, runs)
    BY <1>1, Holds DEF CallSound, StartSound, PollSound, ResumeSound, Started,
       Bound, Running, Resumes, Points
  <2>10. QueueSound(queue, runs, hist'.revived) /\ QueueSound(inner[c], runs, hist'.revived)
    BY <2>7, Holds, StillSound DEF Progress
  <2>11. QED
    BY <2>5, <2>6, <2>7, <2>8, <2>9, <2>10, Stepped
<1>4. QED
  BY <1>2, <1>3 DEF BackRead

-----------------------------------------------------------------------------
(* Commands                                                                 *)

(* A command that changes an entry, and at most the status of its run.      *)
LEMMA EditStep ==
  ASSUME Inv, NEW c \in Callers, NEW i \in DOMAIN queue, NEW e \in Entry,
         e.ticket = queue[i].ticket, EntrySound(e, runs),
         NEW number \in 0..MaxRuns, number # 0 => number \in DOMAIN runs,
         NEW meddled \in SUBSET Tickets,
         Edit(c, i, e, number), Edits(i, e, meddled),
         UNCHANGED <<queue, label, inner>>,
         UNCHANGED runs \/ \E status \in Statuses : number # 0 /\ SetStatus(number, status)
  PROVE  Inv'
<1> DEFINE k == Edited(queue, i, e)
           s == [NoRequest EXCEPT !.cmd = "edit", !.run = number, !.name = queue[i].ticket]
<1>1. /\ QueueSound(k, runs, hist.revived \cup Revives(queue, i, e))
      /\ Revives(queue, i, e) \subseteq Tickets
  BY Holds, EditedSound
<1>2. hist' \in History /\ hist'.revived = hist.revived \cup Revives(queue, i, e)
  BY <1>1, Issues DEF Edit, Edits
<1>3. Progress
  BY <1>2, QuietProgress, StatusProgress
<1>4. Moves(c, "write", s, k, inner[c])
  BY Holds DEF Edit, Goto, Moves
<1>5. CallSound("write", s, k, runs)
  <2>1. s \in Request /\ s.cmd = "edit" /\ s.run = number
    BY MeddledTicket, NoRequestTyped DEF Request, Commands
  <2>2. QED
    BY <2>1, EditSound
<1>6. CallSound("write", s, k, runs') /\ QueueSound(k, runs', hist'.revived)
  BY <1>1, <1>2, <1>3, <1>5, StillSound, StillCallSound DEF Progress
<1>7. QueueSound(queue, runs', hist'.revived) /\ QueueSound(inner[c], runs', hist'.revived)
  BY <1>3, Holds, StillSound DEF Progress
<1>8. QED
  BY <1>3, <1>4, <1>6, <1>7, Stepped

(* An entry whose state changes, to one that is not a wait.                 *)
LEMMA Restated ==
  ASSUME Inv, NEW i \in DOMAIN queue,
         NEW st \in States \ {"awaiting-steer", "awaiting-operator"}
  PROVE  /\ [queue[i] EXCEPT !.state = st] \in Entry
         /\ [queue[i] EXCEPT !.state = st].ticket = queue[i].ticket
         /\ EntrySound([queue[i] EXCEPT !.state = st], runs)
<1>1. queue[i] \in Entry /\ EntrySound(queue[i], runs)
  BY DEF Inv, TypeOK, Sound, QueueSound
<1>2. QED
  BY <1>1 DEF Entry, EntrySound

LEMMA CancelStep ==
  ASSUME Inv, NEW c \in Callers, NEW name, Cancel(c, name)
  PROVE  Inv'
<1> DEFINE i == Find(queue, name)
           e == [queue[i] EXCEPT !.state = "closed"]
           r == queue[i].run
<1>1. i \in DOMAIN queue
  BY FindFinds, Holds DEF Cancel, QueueSound
<1>2. r \in 0..MaxRuns /\ (r # 0 => r \in DOMAIN runs)
  <2>1. queue[i] \in Entry /\ EntrySound(queue[i], runs)
    BY <1>1, Holds DEF QueueSound
  <2>2. QED
    BY <2>1 DEF Entry, EntrySound
<1>3. e \in Entry /\ e.ticket = queue[i].ticket /\ EntrySound(e, runs)
  BY <1>1, Restated DEF States, Terminal
<1>4. UNCHANGED runs \/ \E status \in Statuses : r # 0 /\ SetStatus(r, status)
  <2>1. /\ "cancelling" \in Statuses /\ "cancelled" \in Statuses
        /\ runs' = Cancelled(r)
    BY DEF Statuses, Finals, Cancel
  <2>2. QED
    BY <2>1 DEF Cancelled, SetStatus
<1>5. Meddled(queue[i]) \in SUBSET Tickets
  BY <1>1, MeddledTicket
<1>6. Edit(c, i, e, r) /\ Edits(i, e, Meddled(queue[i])) /\ UNCHANGED <<queue, label, inner>>
  BY DEF Cancel
<1>7. QED
  BY <1>1, <1>2, <1>3, <1>4, <1>5, <1>6, EditStep

LEMMA SetByHandStep ==
  ASSUME Inv, NEW c \in Callers, NEW name, SetByHand(c, name)
  PROVE  Inv'
<1> DEFINE i == Find(queue, name)
<1>1. i \in DOMAIN queue
  BY FindFinds, Holds DEF SetByHand, QueueSound
<1>2. PICK st \in {"closed", "landed", "queued"} :
        /\ Edit(c, i, [queue[i] EXCEPT !.state = st], 0)
        /\ Edits(i, [queue[i] EXCEPT !.state = st], {queue[i].ticket})
  BY DEF SetByHand
<1> DEFINE e == [queue[i] EXCEPT !.state = st]
<1>3. e \in Entry /\ e.ticket = queue[i].ticket /\ EntrySound(e, runs)
  BY <1>1, Restated DEF States, Terminal
<1>4. {queue[i].ticket} \in SUBSET Tickets /\ 0 \in 0..MaxRuns
  BY <1>1, MeddledTicket, QueueAssumption
<1>5. QED
  BY <1>1, <1>2, <1>3, <1>4, EditStep DEF SetByHand

LEMMA RebaseStep ==
  ASSUME Inv, NEW c \in Callers, NEW name, Rebase(c, name)
  PROVE  Inv'
<1> DEFINE i == Find(queue, name)
           meddled == IF queue[i].state \in {"published", "needs-rebase", "human-owned"}
                      THEN {} ELSE {queue[i].ticket}
<1>1. i \in DOMAIN queue
  BY FindFinds, Holds DEF Rebase, QueueSound
<1>2. PICK st \in {"published", "human-owned", queue[i].state} :
        /\ Edit(c, i, [queue[i] EXCEPT !.state = st], 0)
        /\ Edits(i, [queue[i] EXCEPT !.state = st], meddled)
  BY DEF Rebase
<1> DEFINE e == [queue[i] EXCEPT !.state = st]
<1>3. e \in Entry /\ e.ticket = queue[i].ticket /\ EntrySound(e, runs)
  <2>1. CASE st \in {"published", "human-owned"}
    BY <1>1, <2>1, Restated DEF States
  <2>2. CASE st = queue[i].state
    <3>1. queue[i] \in Entry /\ EntrySound(queue[i], runs)
      BY <1>1, Holds DEF QueueSound
    <3>2. QED
      BY <2>2, <3>1 DEF Entry, EntrySound
  <2>3. QED
    BY <2>1, <2>2
<1>4. meddled \in SUBSET Tickets /\ 0 \in 0..MaxRuns
  BY <1>1, MeddledTicket, QueueAssumption
<1>5. QED
  BY <1>1, <1>2, <1>3, <1>4, EditStep DEF Rebase

(* A queue whose entries change one by one, none of which is reopened.      *)
Mapped(q, k, rs) ==
  /\ k \in [DOMAIN q -> Entry]
  /\ \A i \in DOMAIN q : /\ k[i].ticket = q[i].ticket /\ EntrySound(k[i], rs)
                         /\ Open(k[i]) => Open(q[i])

LEMMA MappedSound ==
  ASSUME NEW q, NEW rs, NEW revived, QueueSound(q, rs, revived),
         NEW k, Mapped(q, k, rs)
  PROVE  QueueSound(k, rs, revived)
<1>1. Len(q) \in Nat /\ DOMAIN q = 1..Len(q) /\ DOMAIN k = DOMAIN q
  BY DEF QueueSound, Mapped
<1>2. k \in Seq(Entry)
  BY <1>1 DEF Mapped
<1>3. OneOpen(k, revived)
  BY <1>1 DEF QueueSound, OneOpen, Mapped
<1>4. QED
  BY <1>1, <1>2, <1>3 DEF QueueSound, Mapped

(* A command that holds such a queue.                                       *)
LEMMA MappedStep ==
  ASSUME Inv, NEW c \in Callers, NEW k, Mapped(queue, k, runs),
         CanIssue(c), copy' = [copy EXCEPT ![c] = k],
         req' = [req EXCEPT ![c].cmd = "edit"], hist' = Issued, Goto(c, "write"),
         UNCHANGED <<queue, label, runs, inner>>
  PROVE  Inv'
<1> DEFINE r == [req[c] EXCEPT !.cmd = "edit"]
<1>1. QueueSound(k, runs, hist.revived)
  BY Holds, MappedSound
<1>2. hist' \in History /\ hist'.revived = hist.revived
  BY Issues
<1>3. Progress
  BY <1>2, QuietProgress
<1>4. Moves(c, "write", r, k, inner[c])
  BY Holds DEF Goto, Moves, Inv, TypeOK
<1>5. CallSound("write", r, k, runs)
  <2>1. r \in Request /\ r.cmd = "edit" /\ r.run = req[c].run
    BY Holds DEF Request, Commands
  <2>2. QED
    BY <2>1, Holds, EditSound DEF CallSound
<1>6. QED
  BY <1>1, <1>2, <1>3, <1>4, <1>5, Holds, Stepped

LEMMA ReconcileStep ==
  ASSUME Inv, NEW c \in Callers, Reconcile(c)
  PROVE  Inv'
<1> DEFINE Published == {i \in DOMAIN queue : queue[i].state = "published"}
<1>1. PICK landed \in SUBSET {i \in Published : queue[i].judged},
           closed \in SUBSET {i \in Published : queue[i].workspace},
           behind \in SUBSET {i \in Published : queue[i].workspace} :
        copy' = [copy EXCEPT ![c] = Reconciled(landed, closed, behind)]
  BY DEF Reconcile
<1> DEFINE k == Reconciled(landed, closed, behind)
<1>2. ASSUME NEW i \in DOMAIN queue
      PROVE  /\ k[i] \in Entry /\ k[i].ticket = queue[i].ticket
             /\ EntrySound(k[i], runs)
             /\ Open(k[i]) => Open(queue[i])
  <2>1. queue[i] \in Entry /\ EntrySound(queue[i], runs)
    BY Holds DEF QueueSound
  <2>2. CASE i \in Published
    BY <2>1, <2>2 DEF Reconciled, Entry, EntrySound, Open, States, Terminal
  <2>3. CASE i \notin Published
    <3>1. k[i] = queue[i]
      BY <2>1, <2>3, <1>1 DEF Reconciled, Entry
    <3>2. QED
      BY <2>1, <3>1
  <2>4. QED
    BY <2>2, <2>3
<1>3. Mapped(queue, k, runs)
  BY <1>2 DEF Mapped, Reconciled
<1>4. QED
  BY <1>1, <1>3, MappedStep DEF Reconcile

LEMMA GcStep ==
  ASSUME Inv, NEW c \in Callers, Gc(c)
  PROVE  Inv'
<1> DEFINE After(old) == [i \in DOMAIN queue |->
             [queue[i] EXCEPT !.workspace = @ /\ i \notin old]]
<1>1. PICK old : copy' = [copy EXCEPT ![c] = After(old)]
  BY DEF Gc
<1> DEFINE k == After(old)
<1>2. ASSUME NEW i \in DOMAIN queue
      PROVE  /\ k[i] \in Entry /\ k[i].ticket = queue[i].ticket
             /\ EntrySound(k[i], runs)
             /\ Open(k[i]) => Open(queue[i])
  <2>1. queue[i] \in Entry /\ EntrySound(queue[i], runs)
    BY Holds DEF QueueSound
  <2>2. (queue[i].workspace /\ i \notin old) \in BOOLEAN
    OBVIOUS
  <2>3. QED
    BY <2>1, <2>2 DEF Entry, EntrySound, Open
<1>3. Mapped(queue, k, runs)
  BY <1>2 DEF Mapped
<1>4. QED
  BY <1>1, <1>3, MappedStep DEF Gc

-----------------------------------------------------------------------------
(* A session ends                                                           *)

LEMMA TornTyped ==
  ASSUME Inv, NEW c \in Callers
  PROVE  TornBy(c) \subseteq Tickets \X {"claim", "binding", "outcome"}
<1>1. CallSound(pc[c], req[c], copy[c], runs)
  BY Holds
<1>2. (req[c].run # 0 \/ req[c].name \in Tickets) => TicketOf(c) \in Tickets
  <2>1. ASSUME req[c].run # 0 PROVE runs[req[c].run] \in Run
    BY <1>1, <2>1 DEF CallSound, Inv, TypeOK
  <2>2. QED
    BY <2>1 DEF TicketOf, Run
<1>3. req[c].cmd = "poll" => req[c].name \in Tickets
  BY <1>1 DEF CallSound, PollSound
<1>4. pc[c] \in Started \cup Running \cup {"startBack", "backRead"} =>
        req[c].run # 0 \/ req[c].name \in Tickets
  BY <1>1 DEF CallSound, StartSound, ResumeSound
<1>5. QED
  BY <1>2, <1>3, <1>4 DEF TornBy, Started, Running

LEMMA RestartStep ==
  ASSUME Inv, Restart
  PROVE  Inv'
<1>1. runs' \in Seq(Run) /\ Len(runs') <= MaxRuns /\ Grows(runs, runs')
  <2>1. ASSUME NEW r \in DOMAIN runs
        PROVE  runs'[r] \in Run /\ runs'[r].ticket = runs[r].ticket
    <3>1. runs[r] \in Run
      BY DEF Inv, TypeOK
    <3>2. [runs[r] EXCEPT !.status = "paused"] \in Run
      BY <3>1 DEF Run, Statuses
    <3>3. QED
      BY <3>1, <3>2 DEF Restart, Run
  <2>2. Len(runs) \in Nat /\ DOMAIN runs = 1..Len(runs) /\ Len(runs) <= MaxRuns
    BY DEF Inv, TypeOK
  <2>3. DOMAIN runs' = DOMAIN runs /\ runs' = [r \in 1..Len(runs) |-> runs'[r]]
    BY <2>2 DEF Restart
  <2>4. runs' \in Seq(Run)
    BY <2>1, <2>2, <2>3
  <2>5. QED
    BY <2>1, <2>2, <2>3, <2>4 DEF Grows
<1>2. QueueSound(queue', runs', hist.revived)
  <2>1. PICK gone \in SUBSET {i \in DOMAIN queue :
                                queue[i].state = "running" /\ queue[i].workspace} :
          queue' = [i \in DOMAIN queue |->
            IF i \in gone THEN [queue[i] EXCEPT !.state = "blocked"] ELSE queue[i]]
    BY DEF Restart
  <2> DEFINE k == [i \in DOMAIN queue |->
            IF i \in gone THEN [queue[i] EXCEPT !.state = "blocked"] ELSE queue[i]]
  <2>2. ASSUME NEW i \in DOMAIN queue
        PROVE  /\ k[i] \in Entry /\ k[i].ticket = queue[i].ticket
               /\ EntrySound(k[i], runs)
               /\ Open(k[i]) => Open(queue[i])
    <3>1. queue[i] \in Entry /\ EntrySound(queue[i], runs)
      BY DEF Inv, Sound, QueueSound
    <3>2. CASE i \in gone
      <4>1. k[i] = [queue[i] EXCEPT !.state = "blocked"] /\ queue[i].state = "running"
        BY <3>2
      <4>2. k[i] \in Entry /\ k[i].ticket = queue[i].ticket /\ EntrySound(k[i], runs)
        BY <4>1, Restated DEF States
      <4>3. QED
        BY <4>1, <4>2 DEF Open, Terminal
    <3>3. QED
      BY <3>1, <3>2
  <2>3. Mapped(queue, k, runs)
    BY <2>2 DEF Mapped
  <2>4. QueueSound(queue, runs, hist.revived)
    BY DEF Inv, Sound
  <2>5. QueueSound(k, runs, hist.revived)
    BY <2>3, <2>4, MappedSound
  <2>6. QED
    BY <1>1, <2>1, <2>5, StillSound
<1>3. hist' \in History /\ hist'.revived = hist.revived
  <2>1. hist \in History
    BY DEF Inv, TypeOK
  <2>2. hist.commands + 1 \in 0..MaxCommands
    BY <2>1, QueueAssumption DEF Restart, History
  <2>3. UNION {TornBy(c) : c \in Callers} \subseteq Tickets \X {"claim", "binding", "outcome"}
    BY TornTyped
  <2>4. QED
    BY <2>1, <2>2, <2>3 DEF Restart, Issued, History
<1>4. ASSUME NEW c \in Callers
      PROVE  /\ QueueSound(copy'[c], runs', hist'.revived)
             /\ QueueSound(inner'[c], runs', hist'.revived)
             /\ CallSound(pc'[c], req'[c], copy'[c], runs')
  <2>1. pc'[c] = "idle" /\ req'[c] = NoRequest /\ copy'[c] = <<>> /\ inner'[c] = <<>>
    BY DEF Restart
  <2>2. QED
    BY <2>1, EmptySound, IdleSound
<1>5. TypeOK'
  BY <1>1, <1>2, <1>3, NoRequestTyped DEF Restart, Inv, TypeOK, QueueSound, Points
<1>6. QED
  BY <1>2, <1>3, <1>4, <1>5 DEF Inv, Sound

-----------------------------------------------------------------------------
(* The invariant and what it implies                                        *)

LEMMA InvInit == Init => Inv
<1> SUFFICES ASSUME Init PROVE Inv
  OBVIOUS
<1>1. TypeOK
  BY NoRequestTyped, QueueAssumption DEF Init, TypeOK, History, Points
<1>2. QueueSound(queue, runs, hist.revived)
  BY EmptySound DEF Init
<1>3. ASSUME NEW c \in Callers
      PROVE  /\ QueueSound(copy[c], runs, hist.revived)
             /\ QueueSound(inner[c], runs, hist.revived)
             /\ CallSound(pc[c], req[c], copy[c], runs)
  <2>1. pc[c] = "idle" /\ req[c] = NoRequest /\ copy[c] = <<>> /\ inner[c] = <<>>
    BY DEF Init
  <2>2. QED
    BY <2>1, EmptySound, IdleSound
<1>4. QED
  BY <1>1, <1>2, <1>3 DEF Inv, Sound

LEMMA OrderStep ==
  ASSUME Inv, NEW c \in Callers, Order(c)
  PROVE  Inv'
<1>1. CASE \E t \in Tickets : Enqueue(c, t)
  BY <1>1, EnqueueStep
<1>2. CASE \E name \in Names : \E cmd \in {"approve", "replan", "resume"} :
             Resume(c, name, cmd)
  BY <1>2, ResumeStep DEF Resumes
<1>3. CASE \E name \in Names : Cancel(c, name) \/ SetByHand(c, name) \/ Rebase(c, name)
  BY <1>3, CancelStep, SetByHandStep, RebaseStep
<1>4. QED
  BY <1>1, <1>2, <1>3, StartStep, ReconcileStep, GcStep DEF Order

LEMMA StepStep ==
  ASSUME Inv, NEW c \in Callers, Step(c)
  PROVE  Inv'
<1>1. CASE PollClaim(c) \/ Write(c)
  BY <1>1, PollClaimStep, WriteStep
<1>2. CASE StartRead(c) \/ StartWrite(c) \/ Provision(c) \/ BindRead(c) \/ Setup(c)
           \/ StartBack(c)
  BY <1>2, StartReadStep, StartWriteStep, ProvisionStep, BindReadStep, SetupStep,
     StartBackStep
<1>3. CASE BindWrite(c) \/ PublishWrite(c)
  BY <1>3, InnerWriteStep DEF BindWrite, PublishWrite, Bound, Running
<1>4. CASE Publish(c) \/ RunEnds(c) \/ Resuming(c) \/ BackRead(c)
  BY <1>4, PublishStep, RunEndsStep, ResumingStep, BackReadStep
<1>5. QED
  BY <1>1, <1>2, <1>3, <1>4 DEF Step

LEMMA InvNext == Inv /\ [Next]_vars => Inv'
<1> SUFFICES ASSUME Inv, [Next]_vars PROVE Inv'
  OBVIOUS
<1>1. CASE \E c \in Callers : Order(c) \/ Step(c) \/ \E t \in Tickets : PollRead(c, t)
  BY <1>1, OrderStep, StepStep, PollReadStep
<1>2. CASE (\E t \in Tickets : Relabel(t)) \/ Restart
  BY <1>2, RelabelStep, RestartStep
<1>3. CASE UNCHANGED vars
  BY <1>3 DEF vars, Inv, TypeOK, Sound
<1>4. QED
  BY <1>1, <1>2, <1>3 DEF Next

LEMMA InvAlways == Spec => []Inv
  BY InvInit, InvNext, PTL DEF Spec

(* The queue, every copy of it that is held, the requests and the history   *)
(* keep their types: no caller writes back anything but entries.            *)
THEOREM TypeCorrect == Spec => []TypeOK
<1>1. Inv => TypeOK
  BY DEF Inv
<1>2. QED
  BY <1>1, InvAlways, PTL

(* A ticket has two open entries only after a finished one was reopened:    *)
(* claim.ts and the commands never queue one twice, even from a stale copy  *)
(* or by a write that undoes another's.                                     *)
THEOREM OneOpenEntryAlways == Spec => []OneOpenEntry
<1>1. Inv => OneOpenEntry
  BY DEF Inv, Sound, QueueSound, OneOpen, OneOpenEntry
<1>2. QED
  BY <1>1, InvAlways, PTL

(* An entry that waits for a human names a run of its own ticket, which     *)
(* approve, replan and resume need, whatever updates of the queue are lost. *)
THEOREM WaitingHasRunAlways == Spec => []WaitingHasRun
<1>1. Inv => WaitingHasRun
  BY DEF Inv, Sound, QueueSound, EntrySound, WaitingHasRun
<1>2. QED
  BY <1>1, InvAlways, PTL

(* The two together: what the queue keeps although updates are lost.        *)
THEOREM EntriesSoundAlways == Spec => []EntriesSound
  BY OneOpenEntryAlways, WaitingHasRunAlways, PTL DEF EntriesSound

-----------------------------------------------------------------------------
(* The accounts: what holds until an update is lost.                        *)

(* The states a start looks for, and the points after it has recorded one.  *)
Startable == {"queued", "ready"}
Past == {"provision", "startBack"} \cup Bound \cup Running

Starts(c, t, points) == req[c].cmd = "start" /\ req[c].name = t /\ pc[c] \in points
HasRun(t) == \E r \in DOMAIN runs : runs[r].ticket = t

(* A ticket that was queued once and that nobody meddled with.              *)
Once(q, t) == \A i, j \in DOMAIN q : q[i].ticket = t /\ q[j].ticket = t => i = j
Lone(t) == t \notin hist.forced /\ Once(queue, t)

(* Someone who will write what became of a run.                             *)
Owes(d, r) == req[d].run = r /\ pc[d] \notin {"idle", "resuming"}

(* What the entry of such a ticket owes to the runs and to those at work: it *)
(* does not look startable once somebody has started it (Used), it is        *)
(* running until its run executes and as long as nobody cancels it (Begun),  *)
(* it names the run once it is bound (ToName), and its state is one that the *)
(* run's status allows unless one of others is about to write it (Wrong).    *)
Used == {t \in Tickets : Lone(t) /\ (HasRun(t) \/ \E c \in Callers : Starts(c, t, Past))}
Begun == {t \in Tickets : Lone(t) /\ \E c \in Callers :
            \/ Starts(c, t, {"provision"} \cup Bound)
            \/ Starts(c, t, {"executing"}) /\ runs[req[c].run].status = "running"}
ToName == {t \in Tickets : /\ Lone(t) /\ HasRun(t) /\ <<t, "binding">> \notin hist.torn
                           /\ \A c \in Callers : ~Starts(c, t, {"bindRead", "bindWrite"})}
Wrong(others) ==
  {p \in Tickets \X States :
     /\ Lone(p[1]) /\ <<p[1], "outcome">> \notin hist.torn
     /\ \E r \in DOMAIN runs : /\ runs[r].ticket = p[1] /\ p[2] \notin Shows(runs[r].status)
                               /\ \A d \in others : ~Owes(d, r)}

Accounts(e, used, begun, named, wrong) ==
  /\ e.ticket \in used => e.state \notin Startable
  /\ e.ticket \in begun => e.state = "running"
  /\ e.ticket \in named => e.run # 0
  /\ e.run # 0 => <<e.ticket, e.state>> \notin wrong
AllAccount(q, k, used, begun, named, wrong) ==
  \A i \in DOMAIN q : Accounts(k[i], used, begun, named, wrong)

(* Where a caller may be.                                                   *)
PointSound(p, r) ==
  /\ p = "idle" => r = NoRequest
  /\ r.cmd = "none" => p = "idle"
  /\ r.cmd = "poll" => p \in {"labels", "write"} /\ r.run = 0
  /\ r.cmd = "edit" => p = "write"
  /\ r.cmd = "start" => p \in {"startRead", "startBack"} \cup Started \cup Running
  /\ r.cmd \in Resumes => p \in {"resuming", "backRead", "write"} \cup Running
  /\ p \in {"startRead", "startWrite", "provision"} => r.cmd = "start" /\ r.run = 0

(* At most one caller executes a run, and one that executes is executed.    *)
Alone ==
  /\ \A c \in Callers : PointSound(pc[c], req[c])
  /\ \A c, d \in Callers : pc[c] \in Running /\ pc[d] \in Running /\ req[c].run = req[d].run => c = d
  /\ \A r \in DOMAIN runs : runs[r].status \in {"running", "cancelling"} => Executing(r)
  /\ \A t \in Tickets : <<t, "binding">> \in hist.torn => HasRun(t)

(* A copy that was not overtaken has the entries of the queue, and more.    *)
Extends(q, k) == DOMAIN q \subseteq DOMAIN k /\ \A i \in DOMAIN q : k[i].ticket = q[i].ticket
Keeps(q, k) == \A i \in DOMAIN q : q[i].run # 0 => k[i].run # 0
Same(q, k, t) == DOMAIN k = DOMAIN q /\ \A i \in DOMAIN q : q[i].ticket # t => k[i] = q[i]

Fresh(c, where) == <<c, where>> \notin hist.stale
CopySound(c) ==
  HoldsCopy(c) /\ Fresh(c, "copy") =>
    /\ Extends(queue, copy[c])
    /\ req[c].cmd # "start" \/ pc[c] = "startBack" =>
         AllAccount(queue, copy[c], Used, Begun, ToName, Wrong(Callers \ {c}))
    /\ req[c].cmd # "start" => Keeps(queue, copy[c])
    /\ req[c].cmd = "start" => Same(queue, copy[c], req[c].name)
    /\ pc[c] = "startWrite" =>
         /\ queue[req[c].at].state \in Startable
         /\ copy[c] = [queue EXCEPT ![req[c].at].state = "running"]
InnerSound(c) ==
  pc[c] \in {"bindWrite", "publishWrite"} /\ Fresh(c, "inner") =>
    /\ Extends(queue, inner[c]) /\ Keeps(queue, inner[c])
    /\ Same(queue, inner[c], runs[req[c].run].ticket)
    /\ AllAccount(queue, inner[c], Used, Begun, ToName, Wrong(Callers))
    /\ pc[c] = "bindWrite" /\ Lone(req[c].name) =>
         \A i \in DOMAIN queue : queue[i].ticket = req[c].name => inner[c][i].run # 0

(* Such a ticket has one run and one start, which no one else resumes before *)
(* it executes, and whose outcome nobody changes before it is read.          *)
LoneSound(t) ==
  /\ \A r, s \in DOMAIN runs : runs[r].ticket = t /\ runs[s].ticket = t => r = s
  /\ \A c, d \in Callers : Starts(c, t, Past) /\ Starts(d, t, Past) => c = d
  /\ \A c \in Callers : Starts(c, t, Past) => <<t, "binding">> \notin hist.torn
  /\ \A c \in Callers : Starts(c, t, {"provision"}) => ~HasRun(t)
  /\ \A c, d \in Callers : Starts(c, t, Bound) =>
       /\ runs[req[c].run].status = "pending"
       /\ req[d].run = req[c].run => c = d
  /\ \A c, d \in Callers : Starts(c, t, Running) /\ req[d].run = req[c].run =>
       pc[d] # "backRead" /\ (pc[d] = "write" => req[d].cmd = "edit")
  /\ \A c \in Callers : pc[c] = "backRead" /\ runs[req[c].run].ticket = t =>
       runs[req[c].run].status = req[c].outcome /\ ~Executing(req[c].run)
  /\ \A c \in Callers : pc[c] \in Running /\ runs[req[c].run].ticket = t =>
       runs[req[c].run].status \in {"running", "cancelling"}

InQueue(t) == \E i \in DOMAIN queue : queue[i].ticket = t
Claiming(c, t) == /\ req[c].cmd = "poll" /\ pc[c] = "write"
                  /\ \E i \in DOMAIN copy[c] : copy[c][i].ticket = t
Account ==
  /\ \A t \in Tickets : HasRun(t) => InQueue(t)
  /\ \A c \in Callers : req[c].cmd = "start" /\ pc[c] \in Past \cup {"startWrite"} =>
       req[c].at \in DOMAIN queue /\ queue[req[c].at].ticket = req[c].name
  /\ \A c \in Callers, t \in Tickets :
       req[c].cmd \in Resumes /\ runs[req[c].run].ticket = t /\ Lone(t) =>
         \A i \in DOMAIN queue : queue[i].ticket = t => queue[i].run # 0
  /\ \A t \in Tickets : label[t] = "in-progress" /\ <<t, "claim">> \notin hist.torn =>
       InQueue(t) \/ \E c \in Callers : Claiming(c, t) /\ req[c].name = t
  /\ \A c \in Callers : CopySound(c) /\ InnerSound(c)
  /\ \A t \in Tickets : Lone(t) => LoneSound(t)
  /\ AllAccount(queue, queue, Used, Begun, ToName, Wrong(Callers))

Acc == Inv /\ Alone /\ (~hist.lost => Account)

-----------------------------------------------------------------------------
(* Frames                                                                   *)

LEMMA After ==
  ASSUME Inv, NEW c \in Callers, NEW p, NEW r, NEW k, NEW n, Moves(c, p, r, k, n)
  PROVE  /\ pc'[c] = p /\ req'[c] = r /\ copy'[c] = k /\ inner'[c] = n
         /\ \A d \in Callers : d # c => /\ pc'[d] = pc[d] /\ req'[d] = req[d]
                                        /\ copy'[d] = copy[d] /\ inner'[d] = inner[d]
  BY DEF Inv, TypeOK, Moves

(* A ticket that is still alone was so.                                     *)
LEMMA StillLone ==
  ASSUME hist.forced \subseteq hist'.forced, Extends(queue, queue')
  PROVE  \A t : Lone(t)' => Lone(t)
  BY DEF Lone, Once, Extends

LEMMA ExtendsItself == Extends(queue, queue)
  BY DEF Extends

(* Demands may shrink.                                                      *)
LEMMA Weaker ==
  ASSUME NEW q, NEW k, NEW u, NEW b, NEW n, NEW w, AllAccount(q, k, u, b, n, w),
         NEW u1 \in SUBSET u, NEW b1 \in SUBSET b, NEW n1 \in SUBSET n, NEW w1 \in SUBSET w
  PROVE  AllAccount(q, k, u1, b1, n1, w1)
  BY DEF AllAccount, Accounts

(* All that is asked of a ticket is asked of one that was used.             *)
LEMMA AskedOfUsed ==
  ASSUME NEW t
  PROVE  /\ t \in Begun => t \in Used
         /\ t \in ToName => t \in Used
         /\ \A others, st : <<t, st>> \in Wrong(others) => t \in Used
  BY DEF Begun, ToName, Wrong, Used, Starts, HasRun, Past, Bound, Running

LEMMA UsedIsQueued ==
  ASSUME Account, NEW t \in Used
  PROVE  InQueue(t)
  BY DEF Account, Used, HasRun, Starts, InQueue

-----------------------------------------------------------------------------
(* A step that has nothing new to do with a ticket                          *)

(* The runs of the ticket are as they were.                                 *)
RunsKept(t, rs, ss) ==
  /\ Grows(rs, ss)
  /\ \A r \in DOMAIN ss : ss[r].ticket = t => r \in DOMAIN rs /\ ss[r] = rs[r]

(* The caller gets no further with the ticket: it does not start it, execute *)
(* or read the outcome of its run if it did not before, and takes up its run *)
(* only if nobody has started and not executed it.                          *)
NoFurther(c, p, r, t) ==
  LET ofTicket == r.run # 0 /\ runs'[r.run].ticket = t IN
  /\ r.cmd = "start" /\ r.name = t /\ p \in Past => Starts(c, t, Past)
  /\ r.cmd = "start" /\ r.name = t /\ p \in {"provision", "executing"} \cup Bound =>
       r = req[c] /\ (p = pc[c] \/ (p \in Bound /\ pc[c] \in Bound))
  /\ ofTicket /\ p \in Running => pc[c] \in Running /\ r = req[c]
  /\ ofTicket /\ p = "backRead" => pc[c] = "backRead" /\ r = req[c]
  /\ ofTicket /\ p = "write" => r.cmd = "edit" \/ (pc[c] = "backRead" /\ r = req[c])
  /\ ofTicket /\ r.run # req[c].run => \A d \in Callers : ~Starts(d, t, Bound)

LEMMA CalledRun ==
  ASSUME NEW p, NEW r, NEW k, NEW rs, CallSound(p, r, k, rs)
  PROVE  /\ r.run # 0 => r.run \in DOMAIN rs
         /\ p \in Running \cup Bound \cup {"backRead"} => r.run # 0
         /\ r.cmd = "start" /\ p \in Running \cup Bound => rs[r.run].ticket = r.name
  BY DEF CallSound, StartSound, ResumeSound, Running, Bound, Resumes, Started

LEMMA RunOf ==
  ASSUME Inv, NEW d \in Callers
  PROVE  /\ req[d].run # 0 => req[d].run \in DOMAIN runs
         /\ pc[d] \in Running \cup Bound \cup {"backRead"} => req[d].run # 0
         /\ req[d].cmd = "start" /\ pc[d] \in Running \cup Bound =>
              runs[req[d].run].ticket = req[d].name
  BY Holds, CalledRun

LEMMA RunThen ==
  ASSUME Inv', NEW d \in Callers
  PROVE  /\ req'[d].run # 0 => req'[d].run \in DOMAIN runs'
         /\ pc'[d] \in Running \cup Bound \cup {"backRead"} => req'[d].run # 0
         /\ req'[d].cmd = "start" /\ pc'[d] \in Running \cup Bound =>
              runs'[req'[d].run].ticket = req'[d].name
  <1>1. CallSound(pc'[d], req'[d], copy'[d], runs')
    BY DEF Inv, Sound
  <1>2. QED
    BY <1>1, CalledRun

LEMMA SteadyDemands ==
  ASSUME Acc, ~hist.lost, NEW c \in Callers, NEW p, NEW r, NEW k, NEW n, Moves(c, p, r, k, n),
         hist'.torn = hist.torn, NEW t \in Tickets, Lone(t)' => Lone(t),
         RunsKept(t, runs, runs'), NoFurther(c, p, r, t)
  PROVE  /\ t \in Used' => t \in Used
         /\ t \in Begun' => t \in Begun
         /\ t \in ToName' => t \in ToName \/ Starts(c, t, {"bindRead", "bindWrite"})
         /\ \A O \in SUBSET Callers : \A st : <<t, st>> \in Wrong(O)' => <<t, st>> \in Wrong(O \ {c})
<1>1. /\ pc'[c] = p /\ req'[c] = r
      /\ \A d \in Callers : d # c => pc'[d] = pc[d] /\ req'[d] = req[d]
  BY After DEF Acc
<1>2. ASSUME t \in Used' PROVE t \in Used
  BY <1>1, <1>2 DEF Used, HasRun, Starts, RunsKept, NoFurther
<1>3. ASSUME t \in Begun' PROVE t \in Begun
  <2>1. PICK d \in Callers : \/ Starts(d, t, {"provision"} \cup Bound)'
                             \/ Starts(d, t, {"executing"})' /\ runs'[req'[d].run].status = "running"
    BY <1>3 DEF Begun
  <2>2. /\ Starts(d, t, {"executing"})' => Starts(d, t, {"executing"}) /\ req'[d] = req[d]
        /\ Starts(d, t, {"provision"} \cup Bound)' => Starts(d, t, {"provision"} \cup Bound)
    BY <1>1 DEF Starts, NoFurther, Bound
  <2>3. ASSUME Starts(d, t, {"executing"}) PROVE runs'[req[d].run] = runs[req[d].run]
    <3>1. req[d].run \in DOMAIN runs /\ runs[req[d].run].ticket = t
      BY <2>3, RunOf DEF Starts, Acc, Running
    <3>2. QED
      BY <3>1 DEF RunsKept, Grows
  <2>4. QED
    BY <1>3, <2>1, <2>2, <2>3 DEF Begun
<1>4. ASSUME t \in ToName', ~Starts(c, t, {"bindRead", "bindWrite"}) PROVE t \in ToName
  BY <1>1, <1>4 DEF ToName, HasRun, Starts, RunsKept
<1>5. ASSUME NEW O \in SUBSET Callers, NEW st, <<t, st>> \in Wrong(O)'
      PROVE  <<t, st>> \in Wrong(O \ {c})
  <2>1. PICK x \in DOMAIN runs' : /\ runs'[x].ticket = t /\ st \notin Shows(runs'[x].status)
                                  /\ \A d \in O : ~Owes(d, x)'
    BY <1>5 DEF Wrong
  <2>2. x \in DOMAIN runs /\ runs'[x] = runs[x]
    BY <2>1 DEF RunsKept
  <2>3. \A d \in O \ {c} : ~Owes(d, x)
    BY <1>1, <2>1 DEF Owes
  <2>4. QED
    BY <1>5, <2>1, <2>2, <2>3 DEF Wrong
<1>6. QED
  BY <1>2, <1>3, <1>4, <1>5

LEMMA SteadyLone ==
  ASSUME Acc, ~hist.lost, NEW c \in Callers, NEW p, NEW r, NEW k, NEW n, Moves(c, p, r, k, n), Inv',
         hist'.torn = hist.torn, NEW t \in Tickets, Lone(t)' => Lone(t),
         RunsKept(t, runs, runs'), NoFurther(c, p, r, t), Lone(t)'
  PROVE  LoneSound(t)'
<1>1. /\ pc'[c] = p /\ req'[c] = r
      /\ \A d \in Callers : d # c => pc'[d] = pc[d] /\ req'[d] = req[d]
  BY After DEF Acc
<1>2. LoneSound(t)
  BY DEF Acc, Account
<1>3. ASSUME NEW d \in Callers
      PROVE  /\ Starts(d, t, Past)' => Starts(d, t, Past)
             /\ Starts(d, t, {"provision"})' => Starts(d, t, {"provision"})
             /\ Starts(d, t, Bound)' => Starts(d, t, Bound) /\ req'[d] = req[d]
  BY <1>1 DEF Starts, NoFurther, Past, Bound
<1>4. ASSUME NEW d \in Callers, req'[d].run # 0, runs'[req'[d].run].ticket = t
      PROVE  /\ req'[d].run \in DOMAIN runs /\ runs'[req'[d].run] = runs[req'[d].run]
             /\ pc'[d] \in Running => pc[d] \in Running /\ req'[d] = req[d]
             /\ pc'[d] = "backRead" => pc[d] = "backRead" /\ req'[d] = req[d]
             /\ pc'[d] = "write" /\ req'[d].cmd # "edit" =>
                  pc[d] \in {"backRead", "write"} /\ req'[d] = req[d]
             /\ req'[d].run # req[d].run => \A e \in Callers : ~Starts(e, t, Bound)
  <2>1. req'[d].run \in DOMAIN runs'
    BY <1>4, RunThen
  <2>2. QED
    BY <1>1, <1>4, <2>1 DEF NoFurther, RunsKept
<1>5. \A x, y \in DOMAIN runs' : runs'[x].ticket = t /\ runs'[y].ticket = t => x = y
  BY <1>2 DEF LoneSound, RunsKept
<1>6. \A d, e \in Callers : Starts(d, t, Past)' /\ Starts(e, t, Past)' => d = e
  BY <1>2, <1>3 DEF LoneSound
<1>7. \A d \in Callers : Starts(d, t, Past)' => <<t, "binding">> \notin hist'.torn
  BY <1>2, <1>3 DEF LoneSound
<1>8. \A d \in Callers : Starts(d, t, {"provision"})' => ~HasRun(t)'
  BY <1>2, <1>3 DEF LoneSound, HasRun, RunsKept
<1>9. ASSUME NEW d \in Callers, NEW e \in Callers, Starts(d, t, Bound)'
      PROVE  /\ runs'[req'[d].run].status = "pending"
             /\ req'[e].run = req'[d].run => d = e
  <2>1. req'[d].run # 0 /\ runs'[req'[d].run].ticket = t
    BY <1>9, RunThen DEF Starts
  <2>2. Starts(d, t, Bound) /\ req'[d] = req[d]
    BY <1>3, <1>9
  <2>3. runs'[req'[d].run].status = "pending"
    BY <1>2, <1>4, <2>1, <2>2 DEF LoneSound
  <2>4. ASSUME req'[e].run = req'[d].run PROVE d = e
    <3>1. req'[e].run = req[e].run
      BY <1>4, <2>1, <2>2, <2>4
    <3>2. req[e].run = req[d].run
      BY <2>2, <2>4, <3>1
    <3>3. \A x, y \in Callers : Starts(x, t, Bound) /\ req[y].run = req[x].run => x = y
      BY <1>2 DEF LoneSound
    <3>4. QED
      BY <2>2, <3>2, <3>3
  <2>5. QED
    BY <2>3, <2>4
<1>10. ASSUME NEW d \in Callers, NEW e \in Callers, Starts(d, t, Running)', req'[e].run = req'[d].run
       PROVE  pc'[e] # "backRead" /\ (pc'[e] = "write" => req'[e].cmd = "edit")
  <2>1. req'[d].run # 0 /\ runs'[req'[d].run].ticket = t
    BY <1>10, RunThen DEF Starts
  <2>2. Starts(d, t, Running) /\ req'[d] = req[d]
    BY <1>4, <1>10, <2>1 DEF Starts
  <2>3. ASSUME pc'[e] = "backRead" PROVE FALSE
    BY <1>2, <1>4, <1>10, <2>1, <2>2, <2>3 DEF LoneSound
  <2>4. ASSUME pc'[e] = "write", req'[e].cmd # "edit" PROVE FALSE
    BY <1>2, <1>4, <1>10, <2>1, <2>2, <2>4 DEF LoneSound
  <2>5. QED
    BY <2>3, <2>4
<1>11. ASSUME NEW d \in Callers, pc'[d] = "backRead", runs'[req'[d].run].ticket = t
       PROVE  runs'[req'[d].run].status = req'[d].outcome /\ ~Executing(req[d].run)'
  <2>1. req'[d].run # 0
    BY <1>11, RunThen
  <2>2. pc[d] = "backRead" /\ req'[d] = req[d] /\ runs'[req[d].run] = runs[req[d].run]
    BY <1>4, <1>11, <2>1
  <2>3. runs[req[d].run].status = req[d].outcome /\ ~Executing(req[d].run)
    BY <1>2, <1>11, <2>2 DEF LoneSound
  <2>4. ASSUME NEW e \in Callers, req'[e].run = req[d].run, pc'[e] \in Running PROVE FALSE
    BY <1>4, <1>11, <2>1, <2>2, <2>3, <2>4 DEF Executing, Running
  <2>5. QED
    BY <2>2, <2>3, <2>4 DEF Executing, Running
<1>12. ASSUME NEW d \in Callers, pc'[d] \in Running, runs'[req'[d].run].ticket = t
       PROVE  runs'[req'[d].run].status \in {"running", "cancelling"}
  <2>1. req'[d].run # 0
    BY <1>12, RunThen
  <2>2. QED
    BY <1>2, <1>4, <1>12, <2>1 DEF LoneSound
<1>13. QED
  BY <1>5, <1>6, <1>7, <1>8, <1>9, <1>10, <1>11, <1>12 DEF LoneSound

-----------------------------------------------------------------------------
(* The steps that do not write the queue, and those that do                 *)

LEMMA AloneKept ==
  ASSUME Acc, NEW c \in Callers, NEW p, NEW r, NEW k, NEW n, Moves(c, p, r, k, n),
         Grows(runs, runs'), hist'.torn = hist.torn, PointSound(p, r),
         p \in Running => (pc[c] \in Running /\ r.run = req[c].run) \/ ~Executing(r.run),
         pc[c] \in Running => \/ p \in Running /\ r.run = req[c].run
                              \/ runs'[req[c].run].status \notin {"running", "cancelling"},
         \A x \in DOMAIN runs' : runs'[x].status \in {"running", "cancelling"} =>
           \/ x \in DOMAIN runs /\ runs[x].status \in {"running", "cancelling"}
           \/ p \in Running /\ r.run = x
  PROVE  Alone'
<1>1. /\ pc'[c] = p /\ req'[c] = r
      /\ \A d \in Callers : d # c => pc'[d] = pc[d] /\ req'[d] = req[d]
  BY After DEF Acc
<1>2. Alone
  BY DEF Acc
<1>3. \A d \in Callers : PointSound(pc'[d], req'[d])
  BY <1>1, <1>2 DEF Alone
<1>4. ASSUME NEW d \in Callers, NEW e \in Callers, pc'[d] \in Running, pc'[e] \in Running,
             req'[d].run = req'[e].run
      PROVE  d = e
  BY <1>1, <1>2, <1>4 DEF Alone, Executing, Running
<1>5. ASSUME NEW x \in DOMAIN runs', runs'[x].status \in {"running", "cancelling"}
      PROVE  \E d \in Callers : req'[d].run = x /\ pc'[d] \in Running
  <2>1. CASE p \in Running /\ r.run = x
    BY <1>1, <2>1
  <2>2. CASE ~(p \in Running /\ r.run = x)
    <3>1. PICK d \in Callers : req[d].run = x /\ pc[d] \in Running
      BY <1>2, <1>5, <2>2 DEF Alone, Executing, Running
    <3>2. d # c
      BY <1>5, <2>2, <3>1
    <3>3. QED
      BY <1>1, <3>1, <3>2
  <2>3. QED
    BY <2>1, <2>2
<1>6. \A t \in Tickets : <<t, "binding">> \in hist'.torn => HasRun(t)'
  BY <1>2 DEF Alone, HasRun, Grows
<1>7. QED
  BY <1>3, <1>4, <1>5, <1>6 DEF Alone, Executing, Running

(* The step asks nothing more of the entry of the ticket than was asked     *)
(* before, except of the caller's own copy.                                 *)
Modest(c, t) ==
  /\ t \in Used' => t \in Used
  /\ t \in Begun' => t \in Begun
  /\ t \in ToName' => t \in ToName
  /\ \A O \in SUBSET Callers : c \in O => \A st : <<t, st>> \in Wrong(O)' => <<t, st>> \in Wrong(O)

LEMMA Asks ==
  ASSUME NEW O
  PROVE  /\ Used \subseteq Tickets /\ Begun \subseteq Tickets /\ ToName \subseteq Tickets
         /\ Wrong(O) \subseteq Tickets \X States
         /\ \A t : t \in Used \/ t \in Begun \/ t \in ToName => Lone(t)
         /\ \A t, st : <<t, st>> \in Wrong(O) => Lone(t)
  BY DEF Used, Begun, ToName, Wrong

(* What is asked then of a queue that is as it was.                         *)
LEMMA AsksLess ==
  ASSUME NEW c \in Callers, \A t \in Tickets : Lone(t)' => Modest(c, t),
         NEW O \in SUBSET Callers, c \in O
  PROVE  /\ Used' \in SUBSET Used /\ Begun' \in SUBSET Begun /\ ToName' \in SUBSET ToName
         /\ Wrong(O)' \in SUBSET Wrong(O)
<1>1. Used' \in SUBSET Used
  BY DEF Used, Modest
<1>2. Begun' \in SUBSET Begun
  BY DEF Begun, Modest
<1>3. ToName' \in SUBSET ToName
  BY DEF ToName, Modest
<1>4. Wrong(O)' \in SUBSET Wrong(O)
  <2>1. ASSUME NEW x \in Wrong(O)' PROVE x \in Wrong(O)
    <3>1. PICK t \in Tickets, st \in States : x = <<t, st>>
      BY <2>1 DEF Wrong
    <3>2. Lone(t)'
      BY <2>1, <3>1 DEF Wrong
    <3>3. QED
      BY <2>1, <3>1, <3>2 DEF Modest
  <2>2. QED
    BY <2>1
<1>5. QED
  BY <1>1, <1>2, <1>3, <1>4

(* A step that leaves the queue alone.                                      *)
LEMMA QuietKeeps ==
  ASSUME Acc, Inv', Alone', NEW c \in Callers, NEW p, NEW r, NEW k, NEW n, Moves(c, p, r, k, n),
         queue' = queue, Grows(runs, runs'), pc[c] # "write",
         hist'.stale = hist.stale, hist'.lost = hist.lost, hist'.torn = hist.torn,
         hist.forced \subseteq hist'.forced,
         ~hist.lost =>
           /\ \A t \in Tickets : Lone(t)' => Modest(c, t) /\ LoneSound(t)'
           /\ CopySound(c)' /\ InnerSound(c)'
           /\ \A t \in Tickets : HasRun(t)' => InQueue(t)
           /\ r.cmd = "start" /\ p \in Past \cup {"startWrite"} =>
                r.at \in DOMAIN queue /\ queue[r.at].ticket = r.name
           /\ \A t \in Tickets : r.cmd \in Resumes /\ runs'[r.run].ticket = t /\ Lone(t)' =>
                \A i \in DOMAIN queue : queue[i].ticket = t => queue[i].run # 0
           /\ \A t \in Tickets : label'[t] = "in-progress" =>
                \/ label[t] = "in-progress"
                \/ Claiming(c, t)' /\ r.name = t
  PROVE  Acc'
<1> SUFFICES ASSUME ~hist.lost PROVE Account'
  BY DEF Acc
<1>1. /\ pc'[c] = p /\ req'[c] = r
      /\ \A d \in Callers : d # c => /\ pc'[d] = pc[d] /\ req'[d] = req[d]
                                     /\ copy'[d] = copy[d] /\ inner'[d] = inner[d]
  BY After DEF Acc
<1>2. Account
  BY DEF Acc
<1>3. \A t : Lone(t)' => Lone(t)
  BY StillLone, ExtendsItself
<1>4. \A t \in Tickets : HasRun(t)' => InQueue(t)'
  BY DEF InQueue
<1>5. \A d \in Callers : req'[d].cmd = "start" /\ pc'[d] \in Past \cup {"startWrite"} =>
        req'[d].at \in DOMAIN queue' /\ queue'[req'[d].at].ticket = req'[d].name
  BY <1>1, <1>2 DEF Account
<1>6. ASSUME NEW d \in Callers, NEW t \in Tickets, req'[d].cmd \in Resumes,
             runs'[req'[d].run].ticket = t, Lone(t)'
      PROVE  \A i \in DOMAIN queue' : queue'[i].ticket = t => queue'[i].run # 0
  <2>1. CASE d = c
    BY <1>1, <1>6, <2>1
  <2>2. CASE d # c
    <3>1. req'[d] = req[d] /\ req[d].run \in DOMAIN runs
      BY <1>1, <1>6, <2>2, Holds DEF Acc, CallSound, ResumeSound
    <3>2. runs[req[d].run].ticket = t
      BY <1>6, <3>1 DEF Grows
    <3>3. QED
      BY <1>2, <1>3, <1>6, <3>1, <3>2 DEF Account
  <2>3. QED
    BY <2>1, <2>2
<1>7. ASSUME NEW t \in Tickets, label'[t] = "in-progress", <<t, "claim">> \notin hist'.torn
      PROVE  InQueue(t)' \/ \E d \in Callers : Claiming(d, t)' /\ req'[d].name = t
  <2>1. CASE Claiming(c, t)' /\ r.name = t
    BY <1>1, <2>1
  <2>2. CASE label[t] = "in-progress"
    <3>1. CASE InQueue(t)
      BY <3>1 DEF InQueue
    <3>2. ASSUME NEW d \in Callers, Claiming(d, t), req[d].name = t
          PROVE  Claiming(d, t)' /\ req'[d].name = t
      BY <1>1, <3>2 DEF Claiming
    <3>3. QED
      BY <1>2, <1>7, <2>2, <3>1, <3>2 DEF Account
  <2>3. QED
    BY <1>7, <2>1, <2>2
<1>12. ASSUME NEW O \in SUBSET Callers, c \in O, NEW q,
              AllAccount(queue, q, Used, Begun, ToName, Wrong(O))
       PROVE  AllAccount(queue, q, Used', Begun', ToName', Wrong(O)')
  <2>1. /\ Used' \in SUBSET Used /\ Begun' \in SUBSET Begun /\ ToName' \in SUBSET ToName
        /\ Wrong(O)' \in SUBSET Wrong(O)
    BY <1>12, AsksLess
  <2>2. QED
    BY <1>12, <2>1, Weaker
<1>8. ASSUME NEW d \in Callers PROVE CopySound(d)'
  <2>1. CASE d # c
    <3>1. /\ HoldsCopy(d)' = HoldsCopy(d) /\ Fresh(d, "copy")' = Fresh(d, "copy")
          /\ pc'[d] = pc[d] /\ req'[d] = req[d] /\ copy'[d] = copy[d]
      BY <1>1, <2>1 DEF HoldsCopy, Fresh
    <3>2. CopySound(d)
      BY <1>2 DEF Account
    <3>3. c \in Callers \ {d} /\ Callers \ {d} \in SUBSET Callers
      BY <2>1
    <3>4. AllAccount(queue, copy[d], Used, Begun, ToName, Wrong(Callers \ {d})) =>
          AllAccount(queue, copy[d], Used', Begun', ToName', Wrong(Callers \ {d})')
      BY <1>12, <3>3
    <3>5. QED
      BY <3>1, <3>2, <3>4 DEF CopySound
  <2>2. QED
    BY <2>1
<1>9. ASSUME NEW d \in Callers PROVE InnerSound(d)'
  <2>1. CASE d # c
    <3>1. /\ Fresh(d, "inner")' = Fresh(d, "inner")
          /\ pc'[d] = pc[d] /\ req'[d] = req[d] /\ inner'[d] = inner[d]
      BY <1>1, <2>1 DEF Fresh
    <3>2. InnerSound(d)
      BY <1>2 DEF Account
    <3>4. AllAccount(queue, inner[d], Used, Begun, ToName, Wrong(Callers)) =>
          AllAccount(queue, inner[d], Used', Begun', ToName', Wrong(Callers)')
      BY <1>12
    <3>5. pc[d] \in {"bindWrite", "publishWrite"} => runs'[req[d].run].ticket = runs[req[d].run].ticket
      BY RunOf DEF Acc, Grows, Running, Bound
    <3>6. QED
      BY <1>3, <3>1, <3>2, <3>4, <3>5 DEF InnerSound
  <2>2. QED
    BY <2>1
<1>10. AllAccount(queue, queue, Used', Begun', ToName', Wrong(Callers)')
  BY <1>2, <1>12 DEF Account
<1>11. QED
  BY <1>4, <1>5, <1>6, <1>7, <1>8, <1>9, <1>10 DEF Account

(* A step that writes the queue.                                            *)
LEMMA PutKeeps ==
  ASSUME Acc, Inv', Alone', NEW c \in Callers, NEW p, NEW r, NEW k, NEW n, Moves(c, p, r, k, n),
         NEW where \in {"copy", "inner"}, NEW q, Put(c, where, q), UNCHANGED <<label, runs>>,
         ~hist.lost /\ Fresh(c, where) =>
           /\ Extends(queue, q)
           /\ \A t \in Tickets : Lone(t)' =>
                /\ LoneSound(t)'
                /\ \A i \in DOMAIN queue : queue[i].ticket = t /\ queue[i].run # 0 => q[i].run # 0
           /\ \A t \in Used' : InQueue(t)
           /\ AllAccount(queue, q, Used', Begun', ToName', Wrong(Callers)')
           /\ CopySound(c)' /\ p \notin {"bindWrite", "publishWrite"}
           /\ r.cmd = "start" /\ p \in Past \cup {"startWrite"} =>
                r.at \in DOMAIN queue /\ queue[r.at].ticket = r.name
           /\ r.cmd \in Resumes => r = req[c]
           /\ \A t \in Tickets : Claiming(c, t) => \E i \in DOMAIN q : q[i].ticket = t
  PROVE  Acc'
<1>1. /\ pc'[c] = p /\ req'[c] = r
      /\ \A d \in Callers : d # c => /\ pc'[d] = pc[d] /\ req'[d] = req[d]
                                     /\ copy'[d] = copy[d] /\ inner'[d] = inner[d]
  BY After DEF Acc
<1>2. /\ queue' = q /\ hist'.torn = hist.torn /\ hist'.forced = hist.forced
      /\ hist'.lost = (hist.lost \/ ~Fresh(c, where))
      /\ ~hist.lost => hist'.stale = (hist.stale \cup {h \in Holding : h[1] # c}) \ {<<c, where>>}
  BY DEF Put, Fresh, Acc, Inv, TypeOK, History
<1> SUFFICES ASSUME ~hist.lost, Fresh(c, where) PROVE Account'
  BY <1>2 DEF Acc
<1>3. Account
  BY DEF Acc
<1>4. \A t : Lone(t)' => Lone(t)
  BY <1>2, StillLone
<1>5. \A t : InQueue(t) => InQueue(t)'
  BY <1>2 DEF InQueue, Extends
<1>6. \A t \in Tickets : HasRun(t)' => InQueue(t)'
  BY <1>3, <1>5 DEF Account, HasRun
<1>7. ASSUME NEW d \in Callers, req'[d].cmd = "start", pc'[d] \in Past \cup {"startWrite"}
      PROVE  req'[d].at \in DOMAIN queue' /\ queue'[req'[d].at].ticket = req'[d].name
  <2>1. req'[d].at \in DOMAIN queue /\ queue[req'[d].at].ticket = req'[d].name
    BY <1>1, <1>3, <1>7 DEF Account
  <2>2. QED
    BY <1>2, <2>1 DEF Extends
(* An entry of such a ticket has its place in the queue before.             *)
<1>8. ASSUME NEW t, Lone(t)', InQueue(t), NEW i \in DOMAIN queue', queue'[i].ticket = t
      PROVE  i \in DOMAIN queue /\ queue[i].ticket = t
  BY <1>2, <1>8 DEF Lone, Once, InQueue, Extends
<1>9. ASSUME NEW d \in Callers, NEW t \in Tickets, req'[d].cmd \in Resumes,
             runs'[req'[d].run].ticket = t, Lone(t)'
      PROVE  \A i \in DOMAIN queue' : queue'[i].ticket = t => queue'[i].run # 0
  <2>1. req'[d] = req[d] /\ req[d].run \in DOMAIN runs /\ runs[req[d].run].ticket = t
    BY <1>1, <1>9, Holds DEF Acc, CallSound, ResumeSound
  <2>2. InQueue(t) /\ \A i \in DOMAIN queue : queue[i].ticket = t => queue[i].run # 0
    BY <1>3, <1>4, <1>9, <2>1 DEF Account, HasRun
  <2>3. QED
    BY <1>2, <1>8, <1>9, <2>2
<1>10. ASSUME NEW t \in Tickets, label'[t] = "in-progress", <<t, "claim">> \notin hist'.torn
       PROVE  InQueue(t)' \/ \E d \in Callers : Claiming(d, t)' /\ req'[d].name = t
  <2>1. CASE InQueue(t)
    BY <1>5, <2>1
  <2>2. ASSUME NEW d \in Callers, d # c, Claiming(d, t), req[d].name = t
        PROVE  Claiming(d, t)' /\ req'[d].name = t
    BY <1>1, <2>2 DEF Claiming
  <2>3. CASE Claiming(c, t)
    BY <1>2, <2>3 DEF InQueue
  <2>4. QED
    BY <1>2, <1>3, <1>10, <2>1, <2>2, <2>3 DEF Account
<1>11. ASSUME NEW d \in Callers PROVE CopySound(d)'
  <2>1. ASSUME d # c, HoldsCopy(d)' PROVE ~Fresh(d, "copy")'
    <3>1. HoldsCopy(d)
      BY <1>1, <2>1 DEF HoldsCopy
    <3>2. <<d, "copy">> \in Holding /\ <<d, "copy">>[1] = d
      BY <3>1 DEF Holding
    <3>3. QED
      BY <1>2, <2>1, <3>2 DEF Fresh
  <2>2. QED
    BY <2>1 DEF CopySound
<1>12. ASSUME NEW d \in Callers PROVE InnerSound(d)'
  <2>1. ASSUME d # c, pc'[d] \in {"bindWrite", "publishWrite"} PROVE ~Fresh(d, "inner")'
    <3>1. <<d, "inner">> \in Holding /\ <<d, "inner">>[1] = d
      BY <1>1, <2>1 DEF Holding
    <3>2. QED
      BY <1>2, <2>1, <3>1 DEF Fresh
  <2>2. QED
    BY <1>1, <2>1 DEF InnerSound
<1>13. ASSUME NEW i \in DOMAIN queue' PROVE Accounts(queue'[i], Used', Begun', ToName', Wrong(Callers)')
  <2>1. CASE i \in DOMAIN queue
    BY <1>2, <2>1 DEF AllAccount
  <2>2. CASE i \notin DOMAIN queue
    <3>1. queue'[i].ticket \notin Used'
      <4>1. ASSUME NEW t \in Used', queue'[i].ticket = t PROVE FALSE
        <5>1. Lone(t)' /\ InQueue(t)
          BY <4>1 DEF Used
        <5>2. QED
          BY <1>8, <2>2, <4>1, <5>1
      <4>2. QED
        BY <4>1
    <3>2. ASSUME NEW t \in Begun' \cup ToName' PROVE t \in Used'
      BY <3>2 DEF Begun, ToName, Used, Starts, HasRun, Past, Bound, Running
    <3>3. ASSUME NEW t, NEW st, <<t, st>> \in Wrong(Callers)' PROVE t \in Used'
      BY <3>3 DEF Wrong, Used, HasRun
    <3>4. QED
      BY <3>1, <3>2, <3>3 DEF Accounts
  <2>3. QED
    BY <2>1, <2>2
<1>14. AllAccount(queue', queue', Used', Begun', ToName', Wrong(Callers)')
  BY <1>13 DEF AllAccount
<1>15. QED
  BY <1>6, <1>7, <1>9, <1>10, <1>11, <1>12, <1>14 DEF Account

(* The caller has nothing new to do with the ticket, and neither binds nor  *)
(* leaves its run.                                                          *)
Steady(c, p, r, t) ==
  /\ RunsKept(t, runs, runs') /\ NoFurther(c, p, r, t)
  /\ Starts(c, t, {"bindRead", "bindWrite"}) => p \in {"bindRead", "bindWrite"} /\ r = req[c]
  /\ \A x \in DOMAIN runs : runs[x].ticket = t /\ Owes(c, x) =>
       r.run = x /\ p \notin {"idle", "resuming"}

LEMMA SteadyModest ==
  ASSUME Acc, ~hist.lost, Inv', NEW c \in Callers, NEW p, NEW r, NEW k, NEW n, Moves(c, p, r, k, n),
         hist'.torn = hist.torn, NEW t \in Tickets, Lone(t), Lone(t)', Steady(c, p, r, t)
  PROVE  /\ Modest(c, t) /\ LoneSound(t)'
<1>1. /\ pc'[c] = p /\ req'[c] = r
      /\ \A d \in Callers : d # c => pc'[d] = pc[d] /\ req'[d] = req[d]
  BY After DEF Acc
<1>2. LoneSound(t)'
  BY SteadyLone DEF Steady
<1>3. /\ t \in Used' => t \in Used
      /\ t \in Begun' => t \in Begun
      /\ t \in ToName' => t \in ToName \/ Starts(c, t, {"bindRead", "bindWrite"})
      /\ \A O \in SUBSET Callers : \A st : <<t, st>> \in Wrong(O)' => <<t, st>> \in Wrong(O \ {c})
  BY SteadyDemands DEF Steady
<1>4. t \in ToName' => ~Starts(c, t, {"bindRead", "bindWrite"})
  BY <1>1 DEF Steady, ToName, Starts
<1>5. ASSUME NEW O \in SUBSET Callers, c \in O, NEW st, <<t, st>> \in Wrong(O)'
      PROVE  <<t, st>> \in Wrong(O)
  <2>1. PICK x \in DOMAIN runs' : /\ runs'[x].ticket = t /\ st \notin Shows(runs'[x].status)
                                  /\ \A d \in O : ~Owes(d, x)'
    BY <1>5 DEF Wrong
  <2>2. x \in DOMAIN runs /\ runs'[x] = runs[x]
    BY <2>1 DEF Steady, RunsKept
  <2>3. ~Owes(c, x)
    BY <1>1, <1>5, <2>1, <2>2 DEF Steady, Owes
  <2>4. \A d \in O : ~Owes(d, x)
    BY <1>1, <2>1, <2>3 DEF Owes
  <2>5. QED
    BY <1>5, <2>1, <2>2, <2>4 DEF Wrong
<1>6. Modest(c, t)
  BY <1>3, <1>4, <1>5 DEF Modest
<1>7. QED
  BY <1>2, <1>6

(* Then the entry of the ticket, as it is, also has what is asked of the    *)
(* copy of a caller that owes it nothing.                                   *)
LEMMA OwnAccounts ==
  ASSUME Acc, ~hist.lost, Inv', NEW c \in Callers, NEW p, NEW r, NEW k, NEW n, Moves(c, p, r, k, n),
         hist'.torn = hist.torn, NEW t \in Tickets, Lone(t), Lone(t)', Steady(c, p, r, t),
         \A x \in DOMAIN runs : runs[x].ticket = t => ~Owes(c, x),
         NEW i \in DOMAIN queue, queue[i].ticket = t
  PROVE  Accounts(queue[i], Used', Begun', ToName', Wrong(Callers \ {c})')
<1>1. Accounts(queue[i], Used, Begun, ToName, Wrong(Callers))
  BY DEF Acc, Account, AllAccount
<1>2. Modest(c, t)
  BY SteadyModest
<1>3. ASSUME NEW st, <<t, st>> \in Wrong(Callers \ {c})' PROVE <<t, st>> \in Wrong(Callers)
  <2>1. <<t, st>> \in Wrong((Callers \ {c}) \ {c})
    BY <1>3, SteadyDemands DEF Steady
  <2>2. (Callers \ {c}) \ {c} = Callers \ {c}
    OBVIOUS
  <2>3. <<t, st>> \in Wrong(Callers \ {c})
    BY <2>1, <2>2
  <2>4. QED
    BY <2>3 DEF Wrong
<1>4. QED
  BY <1>1, <1>2, <1>3 DEF Accounts, Modest

(* Nothing is asked of a ticket that is not alone.                          *)
LEMMA NotLone ==
  ASSUME NEW e, NEW t, e.ticket = t, ~Lone(t)', NEW O
  PROVE  Accounts(e, Used', Begun', ToName', Wrong(O)')
  BY DEF Accounts, Used, Begun, ToName, Wrong

-----------------------------------------------------------------------------
(* What the states of an entry tell                                         *)

(* Where an entry of a published run may go.                                *)
Outside == {"published", "needs-rebase", "human-owned"}

LEMMA StateOf ==
  /\ \A status \in {"pending", "running", "cancelling", "paused"} : queueStateFor(status) = "running"
  /\ \A status \in {"approval", "failed"} : queueStateFor(status) = "blocked"
  /\ queueStateFor("handoff") = "awaiting-operator" /\ queueStateFor("steer") = "awaiting-steer"
  /\ queueStateFor("succeeded") = "published" /\ queueStateFor("cancelled") = "closed"
<1>1. \A status \in {"pending", "running", "cancelling", "paused"} : queueStateFor(status) = "running"
  BY DEF queueStateFor
<1>2. \A status \in {"approval", "failed"} : queueStateFor(status) = "blocked"
  BY DEF queueStateFor
<1>3. queueStateFor("handoff") = "awaiting-operator" /\ queueStateFor("steer") = "awaiting-steer"
  BY DEF queueStateFor
<1>4. queueStateFor("succeeded") = "published" /\ queueStateFor("cancelled") = "closed"
  BY DEF queueStateFor
<1>5. QED
  BY <1>1, <1>2, <1>3, <1>4

LEMMA StatusCases ==
  ASSUME NEW status \in Statuses
  PROVE  status \in {"pending", "running", "cancelling", "paused", "approval", "failed",
                     "handoff", "steer", "succeeded", "cancelled"}
  BY QueueAssumption DEF Statuses, Finals

LEMMA StateTells ==
  ASSUME NEW status \in Statuses
  PROVE  /\ queueStateFor(status) \in States /\ queueStateFor(status) \notin Startable
         /\ queueStateFor(status) \in Shows(status)
         /\ \A s \in Outside, st \in Outside \cup {"landed", "closed"} :
              s \in Shows(status) => st \in Shows(status)
         /\ status \in Finals => "closed" \in Shows(status)
         /\ status \in {"pending", "running", "cancelling", "paused"} => "running" \in Shows(status)
  BY StateOf, StatusCases DEF Shows, Outside, Finals, States, Startable, Terminal

LEMMA StatusOf ==
  ASSUME Inv, NEW x \in DOMAIN runs
  PROVE  runs[x].ticket \in Tickets /\ runs[x].status \in Statuses
<1>1. runs \in Seq(Run)
  BY DEF Inv, TypeOK
<1>2. runs[x] \in Run
  BY <1>1
<1>3. QED
  BY <1>2 DEF Run

LEMMA StatusThen ==
  ASSUME Inv', NEW x \in DOMAIN runs'
  PROVE  runs'[x].ticket \in Tickets /\ runs'[x].status \in Statuses
<1>1. runs' \in Seq(Run)
  BY DEF Inv, TypeOK
<1>2. runs'[x] \in Run
  BY <1>1
<1>3. QED
  BY <1>2 DEF Run

(* An entry that changes no more than what was published does.              *)
Milder(e, f) ==
  /\ f.ticket = e.ticket /\ f.run = e.run
  /\ \/ f.state = e.state
     \/ e.state \in Outside /\ f.state \in Outside \cup {"landed", "closed"}

LEMMA MilderAccounts ==
  ASSUME Inv', NEW O, NEW e \in Entry, NEW f, Milder(e, f),
         Accounts(e, Used', Begun', ToName', Wrong(O)')
  PROVE  Accounts(f, Used', Begun', ToName', Wrong(O)')
<1>1. ASSUME NEW t, NEW st, <<t, st>> \in Wrong(O)', st \in Outside \cup {"landed", "closed"},
             NEW s \in Outside \cap States, s = e.state
      PROVE  <<t, s>> \in Wrong(O)'
  <2>1. PICK x \in DOMAIN runs' : /\ runs'[x].ticket = t /\ st \notin Shows(runs'[x].status)
                                  /\ \A d \in O : ~Owes(d, x)'
    BY <1>1 DEF Wrong
  <2>2. runs'[x].status \in Statuses
    BY <2>1, StatusThen
  <2>3. s \notin Shows(runs'[x].status)
    BY <1>1, <2>1, <2>2, StateTells
  <2>4. QED
    BY <1>1, <2>1, <2>3 DEF Wrong
<1>2. e.state \in Outside => e.state # "running"
  BY DEF Outside
<1>3. f.state # e.state => f.state \notin Startable
  BY DEF Milder, Outside, Startable
<1>4. e.state \in States
  BY DEF Entry
<1>5. QED
  BY <1>1, <1>2, <1>3, <1>4 DEF Accounts, Milder

-----------------------------------------------------------------------------
(* Claims, enqueues and the commands that change an entry                   *)

LEMMA EntryOf ==
  ASSUME Inv, NEW i \in DOMAIN queue
  PROVE  /\ queue[i] \in Entry /\ queue[i].ticket \in Tickets /\ queue[i].state \in States
         /\ queue[i].run # 0 => queue[i].run \in DOMAIN runs /\ runs[queue[i].run].ticket = queue[i].ticket
<1>1. queue \in Seq(Entry)
  BY DEF Inv, TypeOK
<1>2. queue[i] \in Entry
  BY <1>1
<1>3. EntrySound(queue[i], runs)
  BY DEF Inv, Sound, QueueSound
<1>4. QED
  BY <1>2, <1>3 DEF Entry, EntrySound

(* Step and caller have nothing to do with any ticket.                      *)
LEMMA QuietSteady ==
  ASSUME Acc, Inv', NEW c \in Callers, NEW p, NEW r, NEW k, NEW n, Moves(c, p, r, k, n),
         queue' = queue, hist'.torn = hist.torn, hist.forced \subseteq hist'.forced, ~hist.lost,
         NEW t \in Tickets, Lone(t)', Steady(c, p, r, t)
  PROVE  Lone(t) /\ Modest(c, t) /\ LoneSound(t)'
<1>1. Lone(t)
  BY StillLone, ExtendsItself
<1>2. QED
  BY <1>1, SteadyModest

LEMMA IdleOwes ==
  ASSUME Acc, NEW c \in Callers, pc[c] = "idle"
  PROVE  /\ req[c] = NoRequest /\ req[c].run = 0 /\ req[c].cmd = "none"
         /\ \A x : ~Owes(c, x)
  BY DEF Acc, Alone, PointSound, Owes, NoRequest

LEMMA EditAcc ==
  ASSUME Acc, Inv', NEW c \in Callers, NEW p \in {"write", "labels"}, NEW r, NEW k,
         Moves(c, p, r, k, inner[c]), pc[c] = "idle",
         r.cmd \in {"edit", "poll"}, r.run = 0, PointSound(p, r),
         UNCHANGED <<queue, label, runs>>,
         hist'.stale = hist.stale, hist'.lost = hist.lost, hist'.torn = hist.torn,
         hist.forced \subseteq hist'.forced,
         Extends(queue, k), Keeps(queue, k),
         \A i \in DOMAIN queue : queue[i].ticket \in hist'.forced \/ Milder(queue[i], k[i])
  PROVE  Acc'
<1>1. pc'[c] = p /\ req'[c] = r /\ copy'[c] = k
  BY After DEF Acc
<1>2. Inv /\ Grows(runs, runs') /\ req[c].run = 0 /\ \A x : ~Owes(c, x)
  BY IdleOwes DEF Acc, Grows
<1>3. Alone'
  BY <1>2, AloneKept DEF Running
<1>4. ASSUME NEW t \in Tickets PROVE Steady(c, p, r, t)
  BY <1>2 DEF Steady, RunsKept, NoFurther, Starts
<1>5. ASSUME ~hist.lost, NEW t \in Tickets, Lone(t)'
      PROVE  Lone(t) /\ Modest(c, t) /\ LoneSound(t)'
  BY <1>4, <1>5, QuietSteady
<1>6. ASSUME ~hist.lost, NEW i \in DOMAIN queue
      PROVE  Accounts(k[i], Used', Begun', ToName', Wrong(Callers \ {c})')
  <2>1. queue[i] \in Entry /\ queue[i].ticket \in Tickets
    BY <1>2, EntryOf
  <2>2. PICK t \in Tickets : queue[i].ticket = t /\ k[i].ticket = t
    BY <2>1 DEF Extends
  <2>3. CASE ~Lone(t)'
    BY <2>2, <2>3, NotLone
  <2>4. CASE Lone(t)'
    <3>1. Milder(queue[i], k[i])
      BY <2>2, <2>4 DEF Lone
    <3>2. Accounts(queue[i], Used', Begun', ToName', Wrong(Callers \ {c})')
      BY <1>2, <1>4, <1>5, <1>6, <2>2, <2>4, OwnAccounts
    <3>3. QED
      BY <2>1, <3>1, <3>2, MilderAccounts
  <2>5. QED
    BY <2>3, <2>4
<1>7. ~hist.lost => CopySound(c)'
  <2>1. ~hist.lost => AllAccount(queue, k, Used', Begun', ToName', Wrong(Callers \ {c})')
    BY <1>6 DEF AllAccount
  <2>2. QED
    BY <1>1, <2>1 DEF CopySound
<1>8. InnerSound(c)'
  BY <1>1 DEF InnerSound
<1>9. \A t \in Tickets : HasRun(t)' = HasRun(t)
  BY DEF HasRun
<1>10. ~hist.lost => \A t \in Tickets : HasRun(t)' => InQueue(t)
  BY <1>9 DEF Acc, Account
<1>11. r.cmd # "start" /\ r.cmd \notin Resumes
  BY DEF Resumes
<1>12. QED
  BY <1>2, <1>3, <1>5, <1>7, <1>8, <1>10, <1>11, QuietKeeps

LEMMA IssueKeeps ==
  ASSUME Inv, NEW X, NEW Y
  PROVE  /\ Issued.stale = hist.stale /\ Issued.lost = hist.lost /\ Issued.torn = hist.torn
         /\ Issued.forced = hist.forced
         /\ LET h == [hist EXCEPT !.revived = @ \cup X]
            IN  /\ h.stale = hist.stale /\ h.lost = hist.lost /\ h.torn = hist.torn
                /\ h.forced = hist.forced
         /\ LET h == [hist EXCEPT !.forced = @ \cup X]
            IN  /\ h.stale = hist.stale /\ h.lost = hist.lost /\ h.torn = hist.torn
                /\ h.forced = hist.forced \cup X
         /\ LET h == [Issued EXCEPT !.forced = @ \cup X]
            IN  /\ h.stale = hist.stale /\ h.lost = hist.lost /\ h.torn = hist.torn
                /\ h.forced = hist.forced \cup X
         /\ LET h == [Issued EXCEPT !.revived = @ \cup X, !.forced = @ \cup Y]
            IN  /\ h.stale = hist.stale /\ h.lost = hist.lost /\ h.torn = hist.torn
                /\ h.forced = hist.forced \cup Y
<1>1. hist \in History
  BY DEF Inv, TypeOK
<1>2. QED
  BY <1>1 DEF Issued, History

LEMMA EditedIs ==
  ASSUME Inv, NEW i \in DOMAIN queue, NEW e
  PROVE  LET k == Edited(queue, i, e)
         IN  /\ DOMAIN k = DOMAIN queue /\ k[i] = e
             /\ \A j \in DOMAIN queue : j # i => k[j] = queue[j]
<1>1. queue \in Seq(Entry) /\ i # 0
  BY DEF Inv, TypeOK
<1>2. QED
  BY <1>1 DEF Edited

(* One entry changes its state.                                             *)
LEMMA RestateAcc ==
  ASSUME Acc, Inv', NEW c \in Callers, NEW i \in DOMAIN queue, NEW st, NEW meddled,
         Edit(c, i, [queue[i] EXCEPT !.state = st], 0),
         Edits(i, [queue[i] EXCEPT !.state = st], meddled),
         UNCHANGED <<queue, label, runs, inner>>,
         \/ queue[i].ticket \in meddled \/ st = queue[i].state
         \/ queue[i].state \in Outside /\ st \in Outside \cup {"landed", "closed"}
  PROVE  Acc'
<1> DEFINE e == [queue[i] EXCEPT !.state = st]
           k == Edited(queue, i, e)
           s == [NoRequest EXCEPT !.cmd = "edit", !.run = 0, !.name = queue[i].ticket]
<1>1. Inv /\ queue[i] \in Entry
  BY EntryOf DEF Acc
<1>2. e.ticket = queue[i].ticket /\ e.run = queue[i].run /\ e.state = st
  BY <1>1 DEF Entry
<1>3. DOMAIN k = DOMAIN queue /\ k[i] = e /\ \A j \in DOMAIN queue : j # i => k[j] = queue[j]
  BY <1>1, EditedIs
<1>4. Extends(queue, k) /\ Keeps(queue, k)
  BY <1>2, <1>3 DEF Extends, Keeps
<1>5. /\ hist'.stale = hist.stale /\ hist'.lost = hist.lost /\ hist'.torn = hist.torn
      /\ hist'.forced = hist.forced \cup meddled
  BY <1>1, IssueKeeps DEF Edits
<1>6. \A j \in DOMAIN queue : queue[j].ticket \in hist'.forced \/ Milder(queue[j], k[j])
  BY <1>2, <1>3, <1>5 DEF Milder
<1>7. Moves(c, "write", s, k, inner[c])
  BY <1>1, Holds DEF Edit, Goto, Moves
<1>8. pc[c] = "idle" /\ s.cmd = "edit" /\ s.run = 0
  BY DEF Edit, CanIssue, NoRequest
<1>9. PointSound("write", s)
  BY <1>8 DEF PointSound, Resumes
<1>10. QED
  BY <1>4, <1>5, <1>6, <1>7, <1>8, <1>9, EditAcc

LEMMA SetByHandAcc ==
  ASSUME Acc, Inv', NEW c \in Callers, NEW name, SetByHand(c, name)
  PROVE  Acc'
<1> DEFINE i == Find(queue, name)
<1>1. i \in DOMAIN queue
  BY FindFinds, Holds DEF SetByHand, QueueSound, Acc
<1>2. PICK st : /\ Edit(c, i, [queue[i] EXCEPT !.state = st], 0)
                /\ Edits(i, [queue[i] EXCEPT !.state = st], {queue[i].ticket})
  BY DEF SetByHand
<1>3. QED
  BY <1>1, <1>2, RestateAcc DEF SetByHand

LEMMA RebaseAcc ==
  ASSUME Acc, Inv', NEW c \in Callers, NEW name, Rebase(c, name)
  PROVE  Acc'
<1> DEFINE i == Find(queue, name)
           meddled == IF queue[i].state \in {"published", "needs-rebase", "human-owned"}
                      THEN {} ELSE {queue[i].ticket}
<1>1. i \in DOMAIN queue
  BY FindFinds, Holds DEF Rebase, QueueSound, Acc
<1>2. PICK st \in {"published", "human-owned", queue[i].state} :
        /\ Edit(c, i, [queue[i] EXCEPT !.state = st], 0)
        /\ Edits(i, [queue[i] EXCEPT !.state = st], meddled)
  BY DEF Rebase
<1>3. \/ queue[i].ticket \in meddled \/ st = queue[i].state
      \/ queue[i].state \in Outside /\ st \in Outside \cup {"landed", "closed"}
  BY <1>2 DEF Outside
<1>4. QED
  BY <1>1, <1>2, <1>3, RestateAcc DEF Rebase

(* A command that holds a queue with no more than such changes.             *)
LEMMA IssueAcc ==
  ASSUME Acc, Inv', NEW c \in Callers, NEW k,
         CanIssue(c), copy' = [copy EXCEPT ![c] = k],
         req' = [req EXCEPT ![c].cmd = "edit"], hist' = Issued, Goto(c, "write"),
         UNCHANGED <<queue, label, runs, inner>>,
         DOMAIN queue \subseteq DOMAIN k, \A i \in DOMAIN queue : Milder(queue[i], k[i])
  PROVE  Acc'
<1> DEFINE r == [req[c] EXCEPT !.cmd = "edit"]
<1>1. Inv /\ pc[c] = "idle" /\ req[c] = NoRequest
  BY IdleOwes DEF Acc, CanIssue
<1>2. Moves(c, "write", r, k, inner[c])
  BY <1>1, Holds DEF Goto, Moves, Inv, TypeOK
<1>3. r.cmd = "edit" /\ r.run = 0
  BY <1>1 DEF NoRequest
<1>4. PointSound("write", r)
  BY <1>3 DEF PointSound, Resumes
<1>5. Extends(queue, k) /\ Keeps(queue, k)
  BY DEF Extends, Keeps, Milder
<1>6. QED
  BY <1>1, <1>2, <1>3, <1>4, <1>5, IssueKeeps, EditAcc

LEMMA ReconcileAcc ==
  ASSUME Acc, Inv', NEW c \in Callers, Reconcile(c)
  PROVE  Acc'
<1> DEFINE Published == {i \in DOMAIN queue : queue[i].state = "published"}
<1>1. PICK landed \in SUBSET {i \in Published : queue[i].judged},
           closed \in SUBSET {i \in Published : queue[i].workspace},
           behind \in SUBSET {i \in Published : queue[i].workspace} :
        copy' = [copy EXCEPT ![c] = Reconciled(landed, closed, behind)]
  BY DEF Reconcile
<1> DEFINE k == Reconciled(landed, closed, behind)
<1>2. DOMAIN k = DOMAIN queue
  BY DEF Reconciled
<1>3. ASSUME NEW i \in DOMAIN queue PROVE Milder(queue[i], k[i])
  <2>1. queue[i] \in Entry
    BY EntryOf DEF Acc
  <2>2. CASE i \in Published
    BY <2>1, <2>2 DEF Reconciled, Entry, Milder, Outside
  <2>3. CASE i \notin Published
    BY <2>1, <2>3, <1>1 DEF Reconciled, Entry, Milder
  <2>4. QED
    BY <2>2, <2>3
<1>4. QED
  BY <1>1, <1>2, <1>3, IssueAcc DEF Reconcile

LEMMA GcAcc ==
  ASSUME Acc, Inv', NEW c \in Callers, Gc(c)
  PROVE  Acc'
<1> DEFINE Cleared(old) == [i \in DOMAIN queue |->
             [queue[i] EXCEPT !.workspace = @ /\ i \notin old]]
<1>1. PICK old : copy' = [copy EXCEPT ![c] = Cleared(old)]
  BY DEF Gc
<1> DEFINE k == Cleared(old)
<1>2. ASSUME NEW i \in DOMAIN queue PROVE Milder(queue[i], k[i])
  <2>1. queue[i] \in Entry
    BY EntryOf DEF Acc
  <2>2. QED
    BY <2>1 DEF Entry, Milder
<1>3. QED
  BY <1>1, <1>2, IssueAcc DEF Gc

LEMMA EnqueueAcc ==
  ASSUME Acc, Inv', NEW c \in Callers, NEW t \in Tickets, Enqueue(c, t)
  PROVE  Acc'
<1>1. PICK k : /\ copy' = [copy EXCEPT ![c] = k]
               /\ k = queue \/ \E e : k = Append(queue, e)
  BY DEF Enqueue
<1>2. DOMAIN queue \subseteq DOMAIN k /\ \A i \in DOMAIN queue : k[i] = queue[i]
  <2>1. queue \in Seq(Entry)
    BY DEF Acc, Inv, TypeOK
  <2>2. QED
    BY <1>1, <2>1
<1>3. QED
  BY <1>1, <1>2, IssueAcc DEF Enqueue, Milder

LEMMA PollReadAcc ==
  ASSUME Acc, Inv', NEW c \in Callers, NEW t \in Tickets, PollRead(c, t)
  PROVE  Acc'
<1> DEFINE r == [NoRequest EXCEPT !.cmd = "poll", !.name = t]
<1>1. PICK p \in {"write", "labels"} : pc' = [pc EXCEPT ![c] = p]
  BY DEF PollRead, Goto
<1>2. Inv
  BY DEF Acc
<1>3. Moves(c, p, r, queue, inner[c])
  BY <1>1, <1>2, Holds DEF PollRead, Moves
<1>4. /\ hist'.stale = hist.stale /\ hist'.lost = hist.lost /\ hist'.torn = hist.torn
      /\ hist'.forced = hist.forced
  BY <1>2, IssueKeeps DEF PollRead
<1>5. r.cmd = "poll" /\ r.run = 0
  BY DEF NoRequest
<1>6. PointSound(p, r)
  BY <1>5 DEF PointSound, Resumes
<1>7. Extends(queue, queue) /\ Keeps(queue, queue) /\ \A i \in DOMAIN queue : Milder(queue[i], queue[i])
  BY DEF Extends, Keeps, Milder
<1>8. QED
  BY <1>3, <1>4, <1>5, <1>6, <1>7, EditAcc DEF PollRead

(* What is asked then of the caller's own copy.                             *)
LEMMA OwnLess ==
  ASSUME Acc, ~hist.lost, Inv', NEW c \in Callers, NEW p, NEW r, NEW k, NEW n, Moves(c, p, r, k, n),
         queue' = queue, hist'.torn = hist.torn, hist.forced \subseteq hist'.forced,
         \A t \in Tickets : Steady(c, p, r, t),
         NEW q, AllAccount(queue, q, Used, Begun, ToName, Wrong(Callers \ {c}))
  PROVE  AllAccount(queue, q, Used', Begun', ToName', Wrong(Callers \ {c})')
<1>1. \A t \in Tickets : Lone(t)' => Lone(t) /\ Modest(c, t)
  BY QuietSteady
<1>2. Used' \in SUBSET Used /\ Begun' \in SUBSET Begun /\ ToName' \in SUBSET ToName
  BY <1>1, AsksLess
<1>3. ASSUME NEW x \in Wrong(Callers \ {c})' PROVE x \in Wrong(Callers \ {c})
  <2>1. PICK t \in Tickets, st \in States : x = <<t, st>> /\ Lone(t)'
    BY <1>3 DEF Wrong
  <2>2. <<t, st>> \in Wrong((Callers \ {c}) \ {c})
    BY <1>1, <1>3, <2>1, SteadyDemands DEF Steady
  <2>3. (Callers \ {c}) \ {c} = Callers \ {c}
    OBVIOUS
  <2>4. QED
    BY <2>1, <2>2, <2>3
<1>4. QED
  BY <1>2, <1>3 DEF AllAccount, Accounts

LEMMA PollClaimAcc ==
  ASSUME Acc, Inv', NEW c \in Callers, PollClaim(c)
  PROVE  Acc'
<1>1. Inv /\ Alone
  BY DEF Acc
<1>2. PICK t \in Tickets : /\ pc[c] = "labels" /\ req[c].name = t
                           /\ req[c].cmd = "poll" /\ req[c].run = 0
  BY <1>1, Holds DEF PollClaim, CallSound, PollSound, Alone, PointSound
<1>3. PICK st \in {"classifying", "ready", "needs-info"} :
        copy' = [copy EXCEPT ![c] = Append(copy[c], NewEntry(t, st))]
  BY <1>2 DEF PollClaim
<1> DEFINE e == NewEntry(t, st)
           k == Append(copy[c], e)
<1>4. Moves(c, "write", req[c], k, inner[c])
  BY <1>1, <1>3, Holds DEF PollClaim, Goto, Moves
<1> HIDE DEF k
<1>5. queue' = queue /\ runs' = runs /\ hist' = hist /\ Grows(runs, runs')
  BY DEF PollClaim, Grows
<1>6. pc'[c] = "write" /\ req'[c] = req[c] /\ copy'[c] = k
  BY <1>1, <1>4, After
<1>7. ASSUME NEW x \in Tickets PROVE Steady(c, "write", req[c], x)
  BY <1>2, <1>5 DEF Steady, RunsKept, NoFurther, Starts, Owes
<1>8. PointSound("write", req[c])
  BY <1>2 DEF PointSound, Resumes
<1>9. Alone'
  BY <1>2, <1>4, <1>5, <1>8, AloneKept DEF Running
<1>10. /\ DOMAIN copy[c] \subseteq DOMAIN k /\ \A i \in DOMAIN copy[c] : k[i] = copy[c][i]
       /\ \E i \in DOMAIN k : k[i].ticket = t
  <2>1. copy[c] \in Seq(Entry)
    BY <1>1 DEF Inv, TypeOK
  <2>2. Len(copy[c]) + 1 \in DOMAIN k /\ k[Len(copy[c]) + 1] = e
    BY <2>1 DEF k
  <2>3. DOMAIN copy[c] \subseteq DOMAIN k /\ \A i \in DOMAIN copy[c] : k[i] = copy[c][i]
    BY <2>1 DEF k
  <2>4. QED
    BY <2>2, <2>3 DEF NewEntry
<1>11. ASSUME ~hist.lost PROVE CopySound(c)' /\ InnerSound(c)' /\ Claiming(c, t)'
  <2>1. ASSUME Fresh(c, "copy")
        PROVE  /\ Extends(queue, copy[c]) /\ Keeps(queue, copy[c])
               /\ AllAccount(queue, copy[c], Used, Begun, ToName, Wrong(Callers \ {c}))
    BY <1>2, <1>11, <2>1 DEF Acc, Account, CopySound, HoldsCopy
  <2>2. ASSUME Fresh(c, "copy")
        PROVE  AllAccount(queue, copy[c], Used', Begun', ToName', Wrong(Callers \ {c})')
    <3>1. \A x \in Tickets : Steady(c, "write", req[c], x)
      BY <1>7
    <3>2. hist'.torn = hist.torn /\ hist.forced \subseteq hist'.forced
      BY <1>5
    <3>3. QED
      BY <1>4, <1>5, <1>11, <2>1, <2>2, <3>1, <3>2, OwnLess
  <2>3. ASSUME Fresh(c, "copy")
        PROVE  /\ Extends(queue, k) /\ Keeps(queue, k)
               /\ AllAccount(queue, k, Used', Begun', ToName', Wrong(Callers \ {c})')
    BY <1>10, <2>1, <2>2, <2>3 DEF Extends, Keeps, AllAccount
  <2>4. CopySound(c)'
    BY <1>2, <1>5, <1>6, <2>3 DEF CopySound, Fresh
  <2>5. InnerSound(c)' /\ Claiming(c, t)'
    BY <1>2, <1>6, <1>10 DEF InnerSound, Claiming
  <2>6. QED
    BY <2>4, <2>5
<1>12. \A x \in Tickets : label'[x] = "in-progress" =>
         label[x] = "in-progress" \/ (req[c].name = x /\ x = t)
  BY <1>1, <1>2 DEF PollClaim, Inv, TypeOK
<1>13. ~hist.lost => /\ \A x \in Tickets : HasRun(x)' => InQueue(x)
                     /\ \A x \in Tickets : Lone(x)' => Modest(c, x) /\ LoneSound(x)'
                     /\ CopySound(c)' /\ InnerSound(c)'
                     /\ \A x \in Tickets : label'[x] = "in-progress" =>
                          \/ label[x] = "in-progress"
                          \/ Claiming(c, x)' /\ req[c].name = x
  <2>1. ~hist.lost => \A x \in Tickets : HasRun(x)' => InQueue(x)
    BY <1>5 DEF HasRun, Acc, Account
  <2>2. ~hist.lost => \A x \in Tickets : Lone(x)' => Modest(c, x) /\ LoneSound(x)'
    BY <1>4, <1>5, <1>7, QuietSteady
  <2>3. QED
    BY <1>11, <1>12, <2>1, <2>2
<1>14. req[c].cmd # "start" /\ req[c].cmd \notin Resumes /\ pc[c] # "write"
  BY <1>2 DEF Resumes
<1>15. QED
  BY <1>4, <1>5, <1>9, <1>13, <1>14, QuietKeeps

(* Nobody moves; a ticket may be labelled ready.                            *)
LEMMA Unmoved ==
  ASSUME Acc, Inv', UNCHANGED <<queue, runs, pc, req, copy, inner>>,
         hist'.stale = hist.stale, hist'.lost = hist.lost, hist'.torn = hist.torn,
         hist'.forced = hist.forced,
         \A t \in Tickets : label'[t] = "in-progress" => label[t] = "in-progress"
  PROVE  Acc'
<1>1. /\ queue' = queue /\ runs' = runs /\ pc' = pc /\ req' = req /\ copy' = copy /\ inner' = inner
  OBVIOUS
<1>2. /\ \A t : Lone(t)' = Lone(t) /\ HasRun(t)' = HasRun(t) /\ InQueue(t)' = InQueue(t)
      /\ \A c, t, points : Starts(c, t, points)' = Starts(c, t, points)
      /\ \A c, x : Owes(c, x)' = Owes(c, x)
      /\ \A x : Executing(x)' = Executing(x)
      /\ \A c, t : Claiming(c, t)' = Claiming(c, t)
      /\ \A c, where : Fresh(c, where)' = Fresh(c, where)
      /\ \A c : HoldsCopy(c)' = HoldsCopy(c)
  BY <1>1 DEF Lone, HasRun, InQueue, Starts, Owes, Executing, Claiming, Fresh, HoldsCopy
<1>3. Used' = Used /\ Begun' = Begun /\ ToName' = ToName
  BY <1>1, <1>2 DEF Used, Begun, ToName
<1>4. \A O : Wrong(O)' = Wrong(O)
  BY <1>1, <1>2 DEF Wrong
<1>5. Alone'
  BY <1>1, <1>2 DEF Acc, Alone
<1>6. ASSUME ~hist.lost PROVE Account'
  <2>1. Account
    BY <1>6 DEF Acc
  <2>2. ASSUME NEW c \in Callers PROVE CopySound(c)'
    <3>1. Wrong(Callers \ {c})' = Wrong(Callers \ {c})
      BY <1>1, <1>2 DEF Wrong
    <3>2. CopySound(c)
      BY <2>1 DEF Account
    <3>3. QED
      BY <1>1, <1>2, <1>3, <3>1, <3>2 DEF CopySound
  <2>3. \A c \in Callers : InnerSound(c)'
    BY <1>1, <1>2, <1>3, <1>4, <2>1 DEF InnerSound, Account
  <2>4. ASSUME NEW t \in Tickets, Lone(t)' PROVE LoneSound(t)'
    <3>1. LoneSound(t)
      BY <1>2, <2>1, <2>4 DEF Account
    <3>2. QED
      BY <1>1, <1>2, <3>1 DEF LoneSound
  <2>5. AllAccount(queue, queue, Used', Begun', ToName', Wrong(Callers)')
    BY <1>3, <1>4, <2>1 DEF Account
  <2>6. \A t \in Tickets : label'[t] = "in-progress" /\ <<t, "claim">> \notin hist'.torn =>
          InQueue(t)' \/ \E c \in Callers : Claiming(c, t)' /\ req'[c].name = t
    BY <1>1, <1>2, <2>1 DEF Account
  <2>7. QED
    BY <1>1, <1>2, <2>1, <2>2, <2>3, <2>4, <2>5, <2>6 DEF Account
<1>7. QED
  BY <1>5, <1>6 DEF Acc

LEMMA RelabelAcc ==
  ASSUME Acc, Inv', NEW t \in Tickets, Relabel(t)
  PROVE  Acc'
<1>1. \A x \in Tickets : label'[x] = "in-progress" => label[x] = "in-progress"
  BY DEF Relabel, Acc, Inv, TypeOK
<1>2. QED
  BY <1>1, IssueKeeps, Unmoved DEF Relabel, Acc

(* A caller that has nothing more to do, and owes nothing.                  *)
LEMMA DoneAcc ==
  ASSUME Acc, Inv', NEW c \in Callers, Done(c), UNCHANGED <<queue, label, runs, inner>>,
         hist'.stale = hist.stale, hist'.lost = hist.lost, hist'.torn = hist.torn,
         hist.forced \subseteq hist'.forced,
         pc[c] \in {"startRead", "resuming", "backRead"},
         ~hist.lost => \A t \in Tickets : Lone(t)' =>
           \A x \in DOMAIN runs : runs[x].ticket = t => ~Owes(c, x)
  PROVE  Acc'
<1>1. Moves(c, "idle", NoRequest, <<>>, inner[c])
  BY Holds DEF Done, Goto, Moves, Acc
<1>2. /\ pc'[c] = "idle" /\ req'[c] = NoRequest
      /\ NoRequest.cmd = "none" /\ NoRequest.run = 0
  BY <1>1, After DEF Acc, NoRequest
<1>3. PointSound("idle", NoRequest)
  BY <1>2 DEF PointSound, Resumes
<1>4. Alone'
  BY <1>1, <1>3, AloneKept DEF Running, Grows
<1>5. ASSUME ~hist.lost, NEW t \in Tickets, Lone(t)' PROVE Modest(c, t) /\ LoneSound(t)'
  <2>1. Steady(c, "idle", NoRequest, t)
    BY <1>2, <1>5 DEF Steady, RunsKept, Grows, NoFurther, Starts
  <2>2. QED
    BY <1>1, <1>5, <2>1, QuietSteady
<1>6. CopySound(c)' /\ InnerSound(c)'
  BY <1>2 DEF CopySound, InnerSound, HoldsCopy
<1>7. ~hist.lost => \A t \in Tickets : HasRun(t)' => InQueue(t)
  BY DEF HasRun, Acc, Account
<1>8. NoRequest.cmd # "start" /\ NoRequest.cmd \notin Resumes
  BY <1>2 DEF Resumes
<1>9. Grows(runs, runs')
  BY DEF Grows
<1>10. QED
  BY <1>1, <1>4, <1>5, <1>6, <1>7, <1>8, <1>9, QuietKeeps

LEMMA StartAcc ==
  ASSUME Acc, Inv', NEW c \in Callers, Start(c)
  PROVE  Acc'
<1> DEFINE r == [req[c] EXCEPT !.cmd = "start"]
<1>1. Inv /\ pc[c] = "idle" /\ req[c] = NoRequest /\ \A x : ~Owes(c, x)
  BY IdleOwes DEF Acc, Start, CanIssue
<1>2. Moves(c, "startRead", r, copy[c], inner[c])
  BY <1>1, Holds DEF Start, Goto, Moves, Inv, TypeOK
<1>3. r.cmd = "start" /\ r.run = 0
  BY <1>1 DEF NoRequest
<1> HIDE DEF r
<1>4. PointSound("startRead", r)
  BY <1>3 DEF PointSound, Resumes
<1>5. /\ queue' = queue /\ runs' = runs /\ label' = label /\ Grows(runs, runs')
      /\ hist'.stale = hist.stale /\ hist'.lost = hist.lost /\ hist'.torn = hist.torn
      /\ hist'.forced = hist.forced
  BY <1>1, IssueKeeps DEF Start, Grows
<1>6. Alone'
  BY <1>1, <1>2, <1>4, <1>5, AloneKept DEF Running
<1>7. \A t \in Tickets : Steady(c, "startRead", r, t)
  BY <1>1, <1>3, <1>5 DEF Steady, RunsKept, NoFurther, Starts, Past, Bound, Running
<1>8. CopySound(c)' /\ InnerSound(c)'
  <2>1. pc'[c] = "startRead"
    BY <1>1, <1>2, After
  <2>2. QED
    BY <2>1 DEF CopySound, InnerSound, HoldsCopy
<1>9. ~hist.lost => \A t \in Tickets : HasRun(t)' => InQueue(t)
  BY <1>5 DEF HasRun, Acc, Account
<1>10. ~hist.lost => \A t \in Tickets : Lone(t)' => Modest(c, t) /\ LoneSound(t)'
  BY <1>2, <1>5, <1>7, QuietSteady
<1>11. r.cmd \notin Resumes /\ "startRead" \notin Past \cup {"startWrite"}
  BY <1>3 DEF Resumes, Past, Bound, Running
<1>12. QED
  BY <1>1, <1>2, <1>5, <1>6, <1>8, <1>9, <1>10, <1>11, QuietKeeps

-----------------------------------------------------------------------------
(* The steps of a start                                                     *)

LEMMA StartReadAcc ==
  ASSUME Acc, Inv', NEW c \in Callers, StartRead(c)
  PROVE  Acc'
<1>1. Inv /\ pc[c] = "startRead" /\ req[c].run = 0 /\ \A x \in DOMAIN runs : ~Owes(c, x)
  <2>1. Inv /\ pc[c] = "startRead" /\ req[c].run = 0
    BY DEF Acc, Alone, PointSound, StartRead
  <2>2. runs \in Seq(Run)
    BY <2>1 DEF Inv, TypeOK
  <2>3. 0 \notin DOMAIN runs
    BY <2>2
  <2>4. QED
    BY <2>1, <2>3 DEF Owes
<1>2. CASE Done(c) /\ UNCHANGED hist
  BY <1>1, <1>2, DoneAcc DEF StartRead
<1>3. ASSUME NEW i \in DOMAIN queue, queue[i].state \in {"queued", "ready"},
             Read(c, i, [queue[i] EXCEPT !.state = "running"], "startWrite"),
             req' = [req EXCEPT ![c] = [NoRequest EXCEPT !.cmd = "start", !.at = i,
                                                   !.name = queue[i].ticket]]
      PROVE  Acc'
  <2> DEFINE e == [queue[i] EXCEPT !.state = "running"]
             r == [NoRequest EXCEPT !.cmd = "start", !.at = i, !.name = queue[i].ticket]
             k == Edited(queue, i, e)
  <2>1. queue[i] \in Entry
    BY <1>1, EntryOf
  <2>2. e.ticket = queue[i].ticket
    BY <2>1 DEF Entry
  <2>3. DOMAIN k = DOMAIN queue /\ k[i] = e /\ \A j \in DOMAIN queue : j # i => k[j] = queue[j]
    BY <1>1, EditedIs
  <2>4. k = [queue EXCEPT ![i].state = "running"]
    <3>1. i # 0
      BY <1>1 DEF Inv, TypeOK
    <3>2. QED
      BY <3>1 DEF Edited
  <2>5. Moves(c, "startWrite", r, k, inner[c])
    BY <1>1, <1>3, Holds DEF StartRead, Read, Goto, Moves
  <2>6. r.cmd = "start" /\ r.run = 0 /\ r.at = i /\ r.name = queue[i].ticket
    BY DEF NoRequest
  <2>7. /\ queue' = queue /\ runs' = runs /\ label' = label /\ Grows(runs, runs')
        /\ hist'.stale = hist.stale /\ hist'.lost = hist.lost /\ hist'.torn = hist.torn
        /\ hist'.forced = hist.forced
    BY <1>1, <1>3, IssueKeeps DEF StartRead, Read, Grows
  <2> HIDE DEF r, k
  <2>8. pc'[c] = "startWrite" /\ req'[c] = r /\ copy'[c] = k
    BY <1>1, <2>5, After
  <2>9. PointSound("startWrite", r)
    BY <2>6 DEF PointSound, Resumes, Started
  <2>10. Alone'
    BY <1>1, <2>5, <2>7, <2>9, AloneKept DEF Running
  <2>11. ASSUME NEW t \in Tickets PROVE Steady(c, "startWrite", r, t)
    BY <1>1, <2>6, <2>7 DEF Steady, RunsKept, NoFurther, Starts, Past, Bound, Running
  <2>12. CopySound(c)'
    <3>1. Extends(queue, k) /\ Same(queue, k, r.name)
      BY <2>2, <2>3, <2>6 DEF Extends, Same
    <3>2. queue[r.at].state \in Startable /\ k = [queue EXCEPT ![r.at].state = "running"]
      BY <1>3, <2>4, <2>6 DEF Startable
    <3>3. QED
      BY <2>6, <2>7, <2>8, <3>1, <3>2 DEF CopySound
  <2>13. InnerSound(c)'
    BY <2>8 DEF InnerSound
  <2>14. ~hist.lost => \A t \in Tickets : HasRun(t)' => InQueue(t)
    BY <2>7 DEF HasRun, Acc, Account
  <2>15. ~hist.lost => \A t \in Tickets : Lone(t)' => Modest(c, t) /\ LoneSound(t)'
    BY <2>5, <2>7, <2>11, QuietSteady
  <2>16. r.cmd \notin Resumes /\ r.at \in DOMAIN queue /\ queue[r.at].ticket = r.name
    BY <2>6 DEF Resumes
  <2>17. QED
    BY <1>1, <2>5, <2>7, <2>10, <2>12, <2>13, <2>14, <2>15, <2>16, QuietKeeps
<1>4. QED
  BY <1>2, <1>3 DEF StartRead

(* The ticket is another one than the caller works on.                      *)
LEMMA OtherSteady ==
  ASSUME NEW c, NEW p, NEW r, NEW t, RunsKept(t, runs, runs'),
         req[c].cmd = "start" => req[c].name # t,
         r.cmd = "start" => r.name # t,
         r.run # 0 => runs'[r.run].ticket # t,
         \A x \in DOMAIN runs : runs[x].ticket = t => ~Owes(c, x)
  PROVE  Steady(c, p, r, t)
  BY DEF Steady, NoFurther, Starts

(* A start keeps the copy that it has read before it began.                 *)
LEMMA StartHolds ==
  ASSUME Acc, ~hist.lost, NEW c \in Callers, queue' = queue, hist'.stale = hist.stale,
         req[c].cmd = "start", pc[c] \in {"provision"} \cup Bound \cup Running,
         req'[c].cmd = "start", req'[c].name = req[c].name,
         pc'[c] \in {"provision"} \cup Bound \cup Running, copy'[c] = copy[c]
  PROVE  CopySound(c)'
<1>1. HoldsCopy(c) /\ CopySound(c)
  BY DEF HoldsCopy, Acc, Account, Bound, Running
<1>2. Fresh(c, "copy") => Extends(queue, copy[c]) /\ Same(queue, copy[c], req[c].name)
  BY <1>1 DEF CopySound
<1>3. pc'[c] \notin {"startBack", "startWrite"}
  BY DEF Bound, Running
<1>4. QED
  BY <1>2, <1>3 DEF CopySound, Fresh

(* A start has the outcome of its run, or none, in the entry at hand.       *)
LEMMA BackCopy ==
  ASSUME Acc, Inv', ~hist.lost, NEW c \in Callers, NEW r, NEW k, NEW n, Moves(c, "startBack", r, k, n),
         queue' = queue, hist'.stale = hist.stale, hist'.torn = hist.torn,
         hist.forced \subseteq hist'.forced,
         NEW Z \in Tickets, req[c].cmd = "start", req[c].name = Z,
         pc[c] \in {"provision"} \cup Bound \cup Running,
         r.cmd = "start", r.name = Z, r.at = req[c].at,
         DOMAIN k = DOMAIN copy[c], k[r.at].ticket = Z,
         \A j \in DOMAIN copy[c] : j # r.at => k[j] = copy[c][j],
         \A x \in DOMAIN runs : Owes(c, x) => runs[x].ticket = Z,
         \A t \in Tickets \ {Z} : Steady(c, "startBack", r, t),
         Lone(Z)' => Accounts(k[r.at], Used', Begun', ToName', Wrong(Callers \ {c})')
  PROVE  CopySound(c)'
<1>1. /\ pc'[c] = "startBack" /\ req'[c] = r /\ copy'[c] = k
  BY After DEF Acc
<1>2. r.at \in DOMAIN queue /\ queue[r.at].ticket = Z
  BY DEF Acc, Account, Past
<1>3. ASSUME Fresh(c, "copy")
      PROVE  /\ Extends(queue, k) /\ Same(queue, k, Z)
             /\ AllAccount(queue, k, Used', Begun', ToName', Wrong(Callers \ {c})')
  <2>1. Extends(queue, copy[c]) /\ Same(queue, copy[c], Z)
    BY <1>3 DEF Acc, Account, CopySound, HoldsCopy, Bound, Running
  <2>2. Extends(queue, k) /\ Same(queue, k, Z)
    BY <1>2, <2>1 DEF Extends, Same
  <2>3. ASSUME NEW j \in DOMAIN queue
        PROVE  Accounts(k[j], Used', Begun', ToName', Wrong(Callers \ {c})')
    <3>1. PICK t \in Tickets : queue[j].ticket = t /\ k[j].ticket = t
      BY <2>2, EntryOf DEF Extends, Acc
    <3>2. CASE ~Lone(t)'
      BY <3>1, <3>2, NotLone
    <3>3. CASE Lone(t)' /\ t = Z
      <4>1. j = r.at
        BY <1>2, <3>1, <3>3 DEF Lone, Once
      <4>2. QED
        BY <3>3, <4>1
    <3>4. CASE Lone(t)' /\ t # Z
      <4>1. Steady(c, "startBack", r, t) /\ Lone(t)
        BY <3>4, QuietSteady
      <4>2. Accounts(queue[j], Used', Begun', ToName', Wrong(Callers \ {c})')
        BY <3>1, <3>4, <4>1, OwnAccounts
      <4>3. k[j] = queue[j]
        BY <2>2, <3>1, <3>4 DEF Same
      <4>4. QED
        BY <4>2, <4>3
    <3>5. QED
      BY <3>2, <3>3, <3>4
  <2>4. QED
    BY <2>2, <2>3 DEF AllAccount
<1>4. QED
  BY <1>1, <1>3 DEF CopySound, Fresh

(* The start of a ticket that is alone makes its run, has it executed, or   *)
(* comes back with its outcome.                                             *)
Provided(c, r, Z) ==
  /\ pc[c] = "provision" /\ r.run \notin DOMAIN runs /\ DOMAIN runs' = DOMAIN runs \cup {r.run}
  /\ \A y \in DOMAIN runs : runs'[y] = runs[y]
  /\ runs'[r.run].ticket = Z /\ runs'[r.run].status = "pending"
Restates(x) == /\ DOMAIN runs' = DOMAIN runs /\ Grows(runs, runs')
               /\ \A y \in DOMAIN runs : y # x => runs'[y] = runs[y]
Executes(c, r) ==
  /\ pc[c] = "setup" /\ r = req[c] /\ Restates(r.run) /\ runs'[r.run].status = "running"
Returns(c, p, r) ==
  /\ p = "startBack"
  /\ \/ pc[c] = "provision" /\ runs' = runs /\ r.run = 0
     \/ pc[c] = "setup" /\ runs' = runs /\ r.run = 0 /\ Executing(req[c].run)
     \/ pc[c] \in {"setup"} \cup Running /\ r = req[c] /\ Restates(r.run)
Advances(c, p, r, Z) == \/ p = "bindRead" /\ Provided(c, r, Z)
                        \/ p = "executing" /\ Executes(c, r)
                        \/ Returns(c, p, r)

LEMMA OwnStart ==
  ASSUME Acc, Inv', Alone', ~hist.lost, NEW c \in Callers, NEW p, NEW r, NEW k, NEW n,
         Moves(c, p, r, k, n),
         hist'.torn = hist.torn, NEW Z \in Tickets, Lone(Z), Lone(Z)',
         req[c].cmd = "start", req[c].name = Z, r.cmd = "start", r.name = Z,
         Grows(runs, runs'), Advances(c, p, r, Z)
  PROVE  /\ Modest(c, Z) /\ LoneSound(Z)'
         /\ p = "startBack" => /\ Z \notin Begun'
                               /\ r.run = 0 => ~HasRun(Z)'
                               /\ \A x \in DOMAIN runs' : runs'[x].ticket = Z => x = r.run
<1>1. /\ pc'[c] = p /\ req'[c] = r
      /\ \A d \in Callers : d # c => pc'[d] = pc[d] /\ req'[d] = req[d]
  BY After DEF Acc
<1>2. LoneSound(Z) /\ Inv /\ Alone
  BY DEF Acc, Account
<1>3. /\ Starts(c, Z, Past) /\ pc[c] \in {"provision", "setup"} \cup Running
      /\ p \in {"bindRead", "executing", "startBack"}
  BY DEF Starts, Past, Bound, Running, Advances, Provided, Executes, Returns
<1>4. \A d \in Callers : Starts(d, Z, Past)' => d = c
  BY <1>1, <1>2, <1>3 DEF LoneSound, Starts
<1>5. pc[c] = "provision" => ~HasRun(Z)
  BY <1>2 DEF LoneSound, Starts
<1>6. ASSUME pc[c] # "provision"
      PROVE  /\ req[c].run # 0 /\ req[c].run \in DOMAIN runs /\ runs[req[c].run].ticket = Z
             /\ \A x \in DOMAIN runs : runs[x].ticket = Z => x = req[c].run
             /\ \A d \in Callers : d # c /\ req[d].run = req[c].run =>
                  /\ pc[d] \notin Running \cup {"backRead"}
                  /\ pc[c] # "setup"
  <2>1. req[c].run # 0 /\ req[c].run \in DOMAIN runs /\ runs[req[c].run].ticket = Z
    BY <1>2, <1>3, <1>6, RunOf DEF Bound
  <2>2. \A x \in DOMAIN runs : runs[x].ticket = Z => x = req[c].run
    BY <1>2, <2>1 DEF LoneSound
  <2>3. ASSUME NEW d \in Callers, d # c, req[d].run = req[c].run
        PROVE  pc[d] \notin Running \cup {"backRead"} /\ pc[c] # "setup"
    <3>1. pc[c] # "setup"
      BY <1>2, <2>3 DEF LoneSound, Starts, Bound
    <3>2. pc[c] \in Running
      BY <1>3, <1>6, <3>1
    <3>3. pc[d] \notin Running
      BY <1>2, <2>3, <3>2 DEF Alone
    <3>4. pc[d] # "backRead"
      BY <1>2, <2>3, <3>2 DEF LoneSound, Starts
    <3>5. QED
      BY <3>1, <3>3, <3>4
  <2>4. QED
    BY <2>1, <2>2, <2>3
<1>7. CASE p = "bindRead" /\ Provided(c, r, Z)
  <2>1. /\ pc[c] = "provision" /\ \A x \in DOMAIN runs' : runs'[x].ticket = Z => x = r.run
    BY <1>5, <1>7 DEF Provided, HasRun, Grows
  <2>2. ASSUME NEW d \in Callers, d # c PROVE req'[d].run # r.run
    <3>1. req'[d].run \in DOMAIN runs \/ req'[d].run = 0
      BY <1>1, <1>2, <2>2, RunOf
    <3>2. 0 \notin DOMAIN runs' /\ r.run \in DOMAIN runs'
      <4>1. runs' \in Seq(Run)
        BY DEF Inv, TypeOK
      <4>2. 0 \notin DOMAIN runs'
        BY <4>1
      <4>3. QED
        BY <1>7, <4>2 DEF Provided
    <3>3. QED
      BY <1>7, <3>1, <3>2 DEF Provided
  <2>3. Z \in Used /\ Z \in Begun /\ Z \notin ToName'
    BY <1>1, <1>3, <1>7, <2>1 DEF Used, Begun, ToName, Starts
  <2>4. ASSUME NEW O \in SUBSET Callers, c \in O, NEW st PROVE <<Z, st>> \notin Wrong(O)'
    BY <1>1, <1>7, <2>1, <2>4 DEF Wrong, Owes
  <2>5. Modest(c, Z)
    BY <2>3, <2>4 DEF Modest
  <2>6. /\ \A d \in Callers : ~Starts(d, Z, {"provision"})' /\ ~Starts(d, Z, Running)'
        /\ \A d \in Callers : Starts(d, Z, Bound)' => d = c
        /\ \A d \in Callers : Starts(d, Z, Past)' => d = c
    BY <1>1, <1>4, <1>7 DEF Starts, Past, Running
  <2>7. \A d \in Callers : pc'[d] \in Running \cup {"backRead"} => runs'[req'[d].run].ticket # Z
    <3>1. SUFFICES ASSUME NEW d \in Callers, pc'[d] \in Running \cup {"backRead"},
                          runs'[req'[d].run].ticket = Z
                   PROVE  FALSE
      OBVIOUS
    <3>2. d # c
      BY <1>1, <1>7, <3>1 DEF Running
    <3>3. req'[d].run \in DOMAIN runs'
      BY <3>1, RunThen
    <3>4. QED
      BY <2>1, <2>2, <3>1, <3>2, <3>3
  <2>8. <<Z, "binding">> \notin hist'.torn
    BY <1>2, <1>3 DEF LoneSound
  <2>9. LoneSound(Z)'
    BY <1>1, <1>7, <2>1, <2>2, <2>6, <2>7, <2>8 DEF LoneSound, Provided
  <2>10. QED
    BY <1>7, <2>5, <2>9
<1>8. CASE p = "executing" /\ Executes(c, r)
  <2>1. /\ pc[c] = "setup" /\ r = req[c] /\ r.run # 0
        /\ \A x \in DOMAIN runs' : runs'[x].ticket = Z => x = r.run
    BY <1>6, <1>8 DEF Executes, Restates, Grows
  <2>2. \A d \in Callers : d # c => req'[d].run # r.run
    BY <1>1, <1>6, <2>1
  <2>3. Z \in Used /\ Z \in Begun /\ Z \in ToName
    <3>1. \A d \in Callers : ~Starts(d, Z, {"bindRead", "bindWrite"})
      BY <1>2, <1>3, <2>1 DEF LoneSound, Starts, Past, Bound
    <3>2. <<Z, "binding">> \notin hist.torn
      BY <1>2, <1>3 DEF LoneSound
    <3>3. HasRun(Z)
      BY <1>6, <2>1 DEF HasRun
    <3>4. Z \in ToName
      BY <3>1, <3>2, <3>3 DEF ToName
    <3>5. Z \in Begun
      BY <2>1 DEF Begun, Starts, Bound
    <3>6. QED
      BY <3>3, <3>4, <3>5 DEF Used
  <2>4. ASSUME NEW O \in SUBSET Callers, c \in O, NEW st PROVE <<Z, st>> \notin Wrong(O)'
    BY <1>1, <1>8, <2>1, <2>4 DEF Wrong, Owes
  <2>5. Modest(c, Z)
    BY <2>3, <2>4 DEF Modest
  <2>6. /\ \A d \in Callers : ~Starts(d, Z, {"provision"})' /\ ~Starts(d, Z, Bound)'
        /\ \A d \in Callers : Starts(d, Z, Running)' => d = c
        /\ \A d \in Callers : Starts(d, Z, Past)' => d = c
    BY <1>1, <1>4, <1>8 DEF Starts, Past, Bound, Running
  <2>7. \A d \in Callers : pc'[d] \in Running \cup {"backRead"} /\ runs'[req'[d].run].ticket = Z => d = c
    <3>1. SUFFICES ASSUME NEW d \in Callers, pc'[d] \in Running \cup {"backRead"},
                          runs'[req'[d].run].ticket = Z, d # c
                   PROVE  FALSE
      OBVIOUS
    <3>2. req'[d].run \in DOMAIN runs'
      BY <3>1, RunThen
    <3>3. QED
      BY <2>1, <2>2, <3>1, <3>2
  <2>8. <<Z, "binding">> \notin hist'.torn
    BY <1>2, <1>3 DEF LoneSound
  <2>9. LoneSound(Z)'
    BY <1>1, <1>8, <2>1, <2>2, <2>6, <2>7, <2>8 DEF LoneSound, Executes, Running
  <2>10. QED
    BY <1>8, <2>5, <2>9
<1>9. CASE Returns(c, p, r)
  <2>1. /\ p = "startBack"
        /\ r.run = 0 => ~HasRun(Z)' /\ runs' = runs
        /\ r.run # 0 => pc[c] # "provision" /\ r = req[c]
        /\ \A x \in DOMAIN runs' : runs'[x].ticket = Z => x = r.run
    <3>1. CASE pc[c] = "provision"
      BY <1>3, <1>5, <1>9, <3>1 DEF Returns, HasRun, Running
    <3>2. CASE pc[c] # "provision"
      <4>1. ~(pc[c] = "setup" /\ Executing(req[c].run))
        BY <1>6, <3>2 DEF Executing, Running
      <4>2. r = req[c] /\ Restates(r.run) /\ p = "startBack"
        BY <1>9, <3>2, <4>1 DEF Returns
      <4>3. QED
        BY <1>6, <3>2, <4>2 DEF Restates, Grows
    <3>3. QED
      BY <3>1, <3>2
  <2>2. Z \in Used
    BY <1>3 DEF Used
  <2>3. \A d \in Callers : ~Starts(d, Z, {"provision"} \cup Bound \cup Running)'
    BY <1>1, <1>4, <2>1 DEF Starts, Past, Bound, Running
  <2>4. Z \notin Begun'
    BY <2>3 DEF Begun, Starts, Bound, Running
  <2>5. Z \in ToName' => Z \in ToName
    <3>1. SUFFICES ASSUME Z \in ToName' PROVE Z \in ToName
      OBVIOUS
    <3>2. HasRun(Z)' /\ pc[c] # "provision"
      BY <2>1, <3>1 DEF ToName
    <3>3. \A d \in Callers : ~Starts(d, Z, {"bindRead", "bindWrite"})
      BY <1>2, <1>3, <3>2 DEF LoneSound, Starts, Past, Bound, Running
    <3>4. QED
      BY <1>6, <3>1, <3>2, <3>3 DEF ToName, HasRun
  <2>6. ASSUME NEW O \in SUBSET Callers, c \in O, NEW st PROVE <<Z, st>> \notin Wrong(O)'
    <3>1. r.run = 0 => \A x \in DOMAIN runs' : runs'[x].ticket # Z
      BY <2>1 DEF HasRun
    <3>2. QED
      BY <1>1, <2>1, <2>6, <3>1 DEF Wrong, Owes
  <2>7. Modest(c, Z)
    BY <2>2, <2>4, <2>5, <2>6 DEF Modest
  <2>8. \A d \in Callers : pc'[d] \in Running \cup {"backRead"} => runs'[req'[d].run].ticket # Z
    <3>1. SUFFICES ASSUME NEW d \in Callers, pc'[d] \in Running \cup {"backRead"},
                          runs'[req'[d].run].ticket = Z
                   PROVE  FALSE
      OBVIOUS
    <3>2. req'[d].run \in DOMAIN runs' /\ req'[d].run # 0
      BY <3>1, RunThen
    <3>3. d # c
      BY <1>1, <2>1, <3>1 DEF Running
    <3>4. QED
      BY <1>1, <1>6, <2>1, <3>1, <3>2, <3>3
  <2>9. <<Z, "binding">> \notin hist'.torn /\ \A d \in Callers : Starts(d, Z, Past)' => d = c
    BY <1>2, <1>3, <1>4 DEF LoneSound
  <2>10. \A d \in Callers : /\ ~Starts(d, Z, {"provision"})' /\ ~Starts(d, Z, Bound)'
                            /\ ~Starts(d, Z, Running)'
    BY <2>3 DEF Starts
  <2>11. LoneSound(Z)'
    BY <2>1, <2>8, <2>9, <2>10 DEF LoneSound
  <2>12. QED
    BY <2>1, <2>4, <2>7, <2>11
<1>10. QED
  BY <1>7, <1>8, <1>9 DEF Advances

LEMMA OwnStartAcc ==
  ASSUME Acc, Inv', Alone', NEW c \in Callers, NEW p, NEW r, NEW k, Moves(c, p, r, k, inner[c]),
         UNCHANGED <<queue, label, hist>>, NEW Z \in Tickets,
         req[c].cmd = "start", req[c].name = Z, r.cmd = "start", r.name = Z, r.at = req[c].at,
         Grows(runs, runs'), Advances(c, p, r, Z), r.run # 0 => runs'[r.run].ticket = Z,
         p # "startBack" => k = copy[c],
         p = "startBack" =>
           /\ DOMAIN k = DOMAIN copy[c] /\ \A j \in DOMAIN copy[c] : j # r.at => k[j] = copy[c][j]
           /\ k[r.at].ticket = Z /\ k[r.at].state \notin Startable
           /\ r.run # 0 => k[r.at].run = r.run /\ k[r.at].state \in Shows(runs'[r.run].status)
  PROVE  Acc'
<1>1. /\ pc'[c] = p /\ req'[c] = r /\ copy'[c] = k
      /\ \A d \in Callers : d # c => pc'[d] = pc[d] /\ req'[d] = req[d]
  BY After DEF Acc
<1>2. /\ pc[c] \in {"provision"} \cup Bound \cup Running /\ p \in {"bindRead", "executing", "startBack"}
      /\ p \in {"provision"} \cup Bound \cup Running \/ p = "startBack"
  BY DEF Advances, Provided, Executes, Returns, Bound, Running
<1>3. \A x \in DOMAIN runs : Owes(c, x) => runs[x].ticket = Z
  <2>1. ASSUME NEW x \in DOMAIN runs, Owes(c, x) PROVE runs[x].ticket = Z
    <3>1. pc[c] # "provision"
      <4>1. pc[c] = "provision" => req[c].run = 0
        BY DEF Acc, Alone, PointSound
      <4>2. runs \in Seq(Run)
        BY DEF Acc, Inv, TypeOK
      <4>3. 0 \notin DOMAIN runs
        BY <4>2
      <4>4. QED
        BY <2>1, <4>1, <4>3 DEF Owes
    <3>2. QED
      BY <1>2, <2>1, <3>1, RunOf DEF Owes, Acc
  <2>2. QED
    BY <2>1
<1>4. \A x \in DOMAIN runs' : runs'[x].ticket # Z => x \in DOMAIN runs /\ runs'[x] = runs[x]
  <2>1. pc[c] \in Bound \cup Running => runs[req[c].run].ticket = Z
    BY RunOf DEF Acc
  <2>2. CASE Provided(c, r, Z)
    BY <2>2 DEF Provided
  <2>3. CASE Executes(c, r) \/ Returns(c, p, r)
    BY <2>1, <2>3 DEF Executes, Returns, Restates, Grows, Bound, Running
  <2>4. QED
    BY <2>2, <2>3 DEF Advances
<1>5. ASSUME NEW t \in Tickets \ {Z} PROVE Steady(c, p, r, t)
  <2>1. RunsKept(t, runs, runs')
    BY <1>4 DEF RunsKept
  <2>2. QED
    BY <1>3, <2>1, OtherSteady
<1>6. ASSUME ~hist.lost, NEW t \in Tickets, Lone(t)' PROVE Lone(t) /\ Modest(c, t) /\ LoneSound(t)'
  <2>1. Lone(t)
    BY <1>6, StillLone, ExtendsItself
  <2>2. CASE t = Z
    BY <1>6, <2>1, <2>2, OwnStart
  <2>3. CASE t # Z
    BY <1>5, <1>6, <2>3, QuietSteady
  <2>4. QED
    BY <2>1, <2>2, <2>3
<1>7. ASSUME ~hist.lost PROVE CopySound(c)'
  <2>1. CASE p # "startBack"
    BY <1>1, <1>2, <1>7, <2>1, StartHolds
  <2>2. CASE p = "startBack"
    <3>1. ASSUME Lone(Z)' PROVE Accounts(k[r.at], Used', Begun', ToName', Wrong(Callers \ {c})')
      <4>1. /\ Z \notin Begun' /\ (r.run = 0 => ~HasRun(Z)')
            /\ \A x \in DOMAIN runs' : runs'[x].ticket = Z => x = r.run
        BY <1>6, <1>7, <2>2, <3>1, OwnStart
      <4>2. Z \in ToName' => k[r.at].run # 0
        BY <2>2, <4>1 DEF ToName
      <4>3. ASSUME NEW st, <<Z, st>> \in Wrong(Callers \ {c})' PROVE st # k[r.at].state
        <5>1. PICK x \in DOMAIN runs' : runs'[x].ticket = Z /\ st \notin Shows(runs'[x].status)
          BY <4>3 DEF Wrong
        <5>2. r.run # 0 /\ x = r.run
          BY <4>1, <5>1 DEF HasRun
        <5>3. QED
          BY <2>2, <5>1, <5>2
      <4>4. QED
        BY <2>2, <4>1, <4>2, <4>3 DEF Accounts
    <3>2. QED
      BY <1>2, <1>3, <1>5, <1>7, <2>2, <3>1, BackCopy
  <2>3. QED
    BY <2>1, <2>2
<1>8. InnerSound(c)'
  BY <1>1, <1>2 DEF InnerSound
<1>9. ~hist.lost => \A t \in Tickets : HasRun(t)' => InQueue(t)
  <2>1. ASSUME ~hist.lost, NEW t \in Tickets, HasRun(t)' PROVE InQueue(t)
    <3>1. CASE t = Z
      BY <1>2, <2>1, <3>1 DEF Acc, Account, Past, InQueue
    <3>2. CASE t # Z
      BY <1>4, <2>1, <3>2 DEF HasRun, Acc, Account
    <3>3. QED
      BY <3>1, <3>2
  <2>2. QED
    BY <2>1
<1>10. ~hist.lost => r.at \in DOMAIN queue /\ queue[r.at].ticket = r.name
  BY <1>2 DEF Acc, Account, Past
<1>11. /\ r.cmd \notin Resumes /\ pc[c] # "write"
       /\ hist'.stale = hist.stale /\ hist'.lost = hist.lost /\ hist'.torn = hist.torn
       /\ hist.forced \subseteq hist'.forced
  BY <1>2 DEF Resumes, Bound, Running
<1>12. QED
  BY <1>6, <1>7, <1>8, <1>9, <1>10, <1>11, QuietKeeps

(* What a start has at hand once it writes an outcome into it, with its run *)
(* if there is one.                                                         *)
Recorded(c, k, st, x) ==
  /\ DOMAIN k = DOMAIN copy[c] /\ \A j \in DOMAIN copy[c] : j # req[c].at => k[j] = copy[c][j]
  /\ k[req[c].at].ticket = req[c].name /\ k[req[c].at].state = st
  /\ x # 0 => k[req[c].at].run = x

LEMMA AtHandNow ==
  ASSUME Inv, NEW c \in Callers, req[c].cmd = "start", pc[c] \in Started \cup Running
  PROVE  /\ req[c].at \in DOMAIN copy[c] /\ copy[c][req[c].at].ticket = req[c].name
         /\ copy[c] \in Seq(Entry) /\ copy[c][req[c].at] \in Entry /\ req[c] \in Request
<1>1. /\ req[c].at \in DOMAIN copy[c] /\ copy[c][req[c].at].ticket = req[c].name
      /\ copy[c] \in Seq(Entry) /\ req[c] \in Request
  BY Holds DEF CallSound, StartSound, QueueSound
<1>2. copy[c][req[c].at] \in Entry
  BY <1>1
<1>3. QED
  BY <1>1, <1>2

LEMMA OutcomeIs ==
  ASSUME Inv, NEW c \in Callers, req[c].cmd = "start", pc[c] \in Started \cup Running,
         NEW status, NEW x, Outcome(c, x, status)
  PROVE  \E k : copy' = [copy EXCEPT ![c] = k] /\ Recorded(c, k, queueStateFor(status), x)
<1> DEFINE at == req[c].at
           e == [copy[c][at] EXCEPT !.state = queueStateFor(status), !.run = x]
           k == [copy[c] EXCEPT ![at] = e]
<1>1. at \in DOMAIN copy[c] /\ copy[c][at].ticket = req[c].name /\ copy[c][at] \in Entry
  BY AtHandNow
<1>2. copy' = [copy EXCEPT ![c] = k]
  BY <1>1 DEF Outcome, Inv, TypeOK, Entry
<1>3. e.ticket = req[c].name /\ e.state = queueStateFor(status) /\ e.run = x
  BY <1>1 DEF Entry
<1>4. Recorded(c, k, queueStateFor(status), x)
  BY <1>1, <1>3 DEF Recorded
<1>5. QED
  BY <1>2, <1>4

LEMMA ThrownIs ==
  ASSUME Inv, NEW c \in Callers, req[c].cmd = "start", pc[c] \in Started \cup Running, Thrown(c)
  PROVE  \E k : copy' = [copy EXCEPT ![c] = k] /\ Recorded(c, k, "blocked", 0)
<1> DEFINE at == req[c].at
           e == [copy[c][at] EXCEPT !.state = "blocked"]
           k == [copy[c] EXCEPT ![at] = e]
<1>1. at \in DOMAIN copy[c] /\ copy[c][at].ticket = req[c].name /\ copy[c][at] \in Entry
  BY AtHandNow
<1>2. copy' = [copy EXCEPT ![c] = k]
  BY <1>1 DEF Thrown, Inv, TypeOK, Entry
<1>3. e.ticket = req[c].name /\ e.state = "blocked"
  BY <1>1 DEF Entry
<1>4. Recorded(c, k, "blocked", 0)
  BY <1>1, <1>3 DEF Recorded
<1>5. QED
  BY <1>2, <1>4

(* The start comes back, with an outcome or because something was thrown.   *)
LEMMA ReturnAcc ==
  ASSUME Acc, Inv', NEW c \in Callers, NEW r, NEW st,
         pc' = [pc EXCEPT ![c] = "startBack"], req' = [req EXCEPT ![c] = r],
         NEW k, copy' = [copy EXCEPT ![c] = k], Recorded(c, k, st, r.run), st \notin Startable,
         UNCHANGED <<queue, label, inner, hist>>, Grows(runs, runs'),
         req[c].cmd = "start", r.cmd = "start", r.name = req[c].name, r.at = req[c].at,
         Returns(c, "startBack", r),
         \A x \in DOMAIN runs' : runs'[x].status \in {"running", "cancelling"} =>
           x \in DOMAIN runs /\ runs[x].status \in {"running", "cancelling"},
         pc[c] \in Running => runs'[req[c].run].status \notin {"running", "cancelling"},
         r.run # 0 => st \in Shows(runs'[r.run].status)
  PROVE  Acc'
<1>1. Inv /\ pc[c] \in Started \cup Running
  BY DEF Acc, Returns, Started
<1>2. PICK Z \in Tickets : req[c].name = Z
  BY <1>1, Holds DEF CallSound, StartSound
<1>3. Moves(c, "startBack", r, k, inner[c])
  BY <1>1, Holds DEF Moves
<1>4. PointSound("startBack", r)
  BY DEF PointSound, Resumes, NoRequest
<1>5. Alone'
  BY <1>3, <1>4, AloneKept DEF Running
<1>6. r.run # 0 => runs'[r.run].ticket = Z
  <2>1. ASSUME r.run # 0 PROVE runs'[r.run].ticket = Z
    <3>1. r = req[c] /\ pc[c] \in Bound \cup Running
      BY <2>1 DEF Returns, Bound, Running
    <3>2. QED
      BY <1>1, <1>2, <2>1, <3>1, RunOf DEF Grows
  <2>2. QED
    BY <2>1
<1>7. Advances(c, "startBack", r, Z)
  BY DEF Advances
<1>8. /\ DOMAIN k = DOMAIN copy[c] /\ \A j \in DOMAIN copy[c] : j # r.at => k[j] = copy[c][j]
      /\ k[r.at].ticket = Z /\ k[r.at].state \notin Startable
      /\ r.run # 0 => k[r.at].run = r.run /\ k[r.at].state \in Shows(runs'[r.run].status)
  BY <1>2 DEF Recorded
<1>9. QED
  BY <1>2, <1>3, <1>5, <1>6, <1>7, <1>8, OwnStartAcc

LEMMA ThrownAcc ==
  ASSUME Acc, Inv', NEW c \in Callers, req[c].cmd = "start",
         pc[c] = "provision" \/ (pc[c] = "setup" /\ Executing(req[c].run)),
         Thrown(c), UNCHANGED <<queue, label, runs, inner, hist>>
  PROVE  Acc'
<1> DEFINE r == [req[c] EXCEPT !.run = 0]
<1>1. Inv /\ pc[c] \in Started \cup Running
  BY DEF Acc, Started
<1>2. PICK k : copy' = [copy EXCEPT ![c] = k] /\ Recorded(c, k, "blocked", 0)
  BY <1>1, ThrownIs
<1>3. r.run = 0 /\ r.cmd = "start" /\ r.name = req[c].name /\ r.at = req[c].at
  BY <1>1, AtHandNow DEF Request
<1>4. pc' = [pc EXCEPT ![c] = "startBack"] /\ req' = [req EXCEPT ![c] = r]
  BY <1>1 DEF Thrown, Goto, Inv, TypeOK
<1> HIDE DEF r
<1>5. Returns(c, "startBack", r) /\ Grows(runs, runs') /\ pc[c] \notin Running
  BY <1>3 DEF Returns, Grows, Running
<1>6. "blocked" \notin Startable
  BY DEF Startable
<1>7. QED
  BY <1>2, <1>3, <1>4, <1>5, <1>6, ReturnAcc

LEMMA ProvisionAcc ==
  ASSUME Acc, Inv', NEW c \in Callers, Provision(c)
  PROVE  Acc'
<1>1. /\ Inv /\ pc[c] = "provision" /\ req[c].cmd = "start" /\ req[c].run = 0
      /\ runs \in Seq(Run) /\ req[c] \in Request
  BY Holds DEF Acc, Alone, PointSound, Provision, Inv, TypeOK
<1>2. CASE Thrown(c) /\ UNCHANGED runs
  BY <1>1, <1>2, ThrownAcc DEF Provision
<1>3. CASE /\ Len(runs) < MaxRuns
           /\ runs' = Append(runs, [ticket |-> req[c].name, status |-> "pending"])
           /\ req' = [req EXCEPT ![c].run = Len(runs) + 1]
           /\ Goto(c, "bindRead")
           /\ UNCHANGED copy
  <2> DEFINE x == Len(runs) + 1
             r == [req[c] EXCEPT !.run = x]
  <2>1. PICK Z \in Tickets : req[c].name = Z
    BY <1>1, Holds DEF CallSound, StartSound, Started
  <2>2. /\ DOMAIN runs' = DOMAIN runs \cup {x} /\ x \notin DOMAIN runs /\ x # 0
        /\ runs'[x] = [ticket |-> Z, status |-> "pending"]
        /\ \A y \in DOMAIN runs : runs'[y] = runs[y]
    BY <1>1, <1>3, <2>1
  <2>3. r.run = x /\ r.cmd = "start" /\ r.name = Z /\ r.at = req[c].at
    BY <1>1, <2>1 DEF Request
  <2>4. Moves(c, "bindRead", r, copy[c], inner[c])
    BY <1>1, <1>3, Holds DEF Provision, Goto, Moves, Inv, TypeOK
  <2> HIDE DEF x, r
  <2>5. Grows(runs, runs') /\ Advances(c, "bindRead", r, Z) /\ runs'[r.run].ticket = Z
    BY <1>1, <2>2, <2>3 DEF Grows, Advances, Provided
  <2>6. PointSound("bindRead", r)
    BY <2>3 DEF PointSound, Resumes, Started
  <2>7. \A y \in DOMAIN runs' : runs'[y].status \in {"running", "cancelling"} =>
          y \in DOMAIN runs /\ runs[y].status \in {"running", "cancelling"}
    BY <2>2
  <2>8. Alone'
    BY <1>1, <2>4, <2>5, <2>6, <2>7, AloneKept DEF Running, Provision
  <2>9. QED
    BY <1>1, <2>1, <2>3, <2>4, <2>5, <2>8, OwnStartAcc DEF Provision
<1>4. QED
  BY <1>2, <1>3 DEF Provision

LEMMA SetStatusIs ==
  ASSUME Inv, NEW x \in DOMAIN runs, NEW status, SetStatus(x, status)
  PROVE  Restates(x) /\ runs'[x].status = status /\ runs'[x].ticket = runs[x].ticket
<1>1. runs \in Seq(Run)
  BY DEF Inv, TypeOK
<1>2. runs[x] \in Run
  BY <1>1
<1>3. /\ DOMAIN runs' = DOMAIN runs /\ \A y \in DOMAIN runs : y # x => runs'[y] = runs[y]
      /\ runs'[x] = [runs[x] EXCEPT !.status = status]
  BY <1>1 DEF SetStatus
<1>4. runs'[x].status = status /\ runs'[x].ticket = runs[x].ticket
  BY <1>2, <1>3 DEF Run
<1>5. QED
  BY <1>3, <1>4 DEF Restates, Grows

LEMMA SetupAcc ==
  ASSUME Acc, Inv', NEW c \in Callers, Setup(c)
  PROVE  Acc'
<1> DEFINE x == req[c].run
<1>1. /\ Inv /\ pc[c] = "setup" /\ req[c].cmd = "start" /\ x \in DOMAIN runs /\ x # 0
      /\ pc[c] \in Started \cup Running /\ pc[c] \notin Running
      /\ runs[x].ticket = req[c].name /\ runs[x].status \in Statuses
  <2>1. Inv /\ pc[c] = "setup" /\ pc[c] \in Started /\ pc[c] \in Bound /\ pc[c] \notin Running
    BY DEF Acc, Setup, Started, Bound, Running
  <2>2. req[c].cmd = "start"
    BY <2>1, Holds DEF CallSound
  <2>3. x \in DOMAIN runs /\ x # 0 /\ runs[x].ticket = req[c].name
    BY <2>1, <2>2, RunOf
  <2>4. QED
    BY <2>1, <2>2, <2>3, StatusOf
<1>2. req = [req EXCEPT ![c] = req[c]]
  BY <1>1 DEF Inv, TypeOK
<1>3. CASE /\ SetStatus(x, "failed")
           /\ Outcome(c, x, "failed") /\ Goto(c, "startBack") /\ UNCHANGED req
  <2>1. Restates(x) /\ runs'[x].status = "failed"
    BY <1>1, <1>3, SetStatusIs
  <2>2. PICK k : copy' = [copy EXCEPT ![c] = k] /\ Recorded(c, k, queueStateFor("failed"), x)
    BY <1>1, <1>3, OutcomeIs
  <2>3. "failed" \in Statuses
    BY DEF Statuses, Finals
  <2>4. Returns(c, "startBack", req[c]) /\ Grows(runs, runs')
    BY <1>1, <2>1 DEF Returns, Restates
  <2>5. \A y \in DOMAIN runs' : runs'[y].status \in {"running", "cancelling"} =>
          y \in DOMAIN runs /\ runs[y].status \in {"running", "cancelling"}
    BY <1>1, <2>1 DEF Restates
  <2>6. QED
    BY <1>1, <1>2, <1>3, <2>1, <2>2, <2>3, <2>4, <2>5, StateTells, ReturnAcc DEF Setup, Goto
<1>4. CASE Executing(x) /\ Thrown(c) /\ UNCHANGED runs
  BY <1>1, <1>4, ThrownAcc DEF Setup
<1>5. CASE /\ ~Executing(x) /\ runs[x].status \in Finals
           /\ Outcome(c, x, runs[x].status) /\ Goto(c, "startBack")
           /\ UNCHANGED <<runs, req>>
  <2>1. Restates(x)
    BY <1>5 DEF Restates, Grows
  <2>2. PICK k : copy' = [copy EXCEPT ![c] = k] /\ Recorded(c, k, queueStateFor(runs[x].status), x)
    BY <1>1, <1>5, OutcomeIs
  <2>4. Returns(c, "startBack", req[c]) /\ Grows(runs, runs')
    BY <1>1, <2>1 DEF Returns, Restates
  <2>5. \A y \in DOMAIN runs' : runs'[y].status \in {"running", "cancelling"} =>
          y \in DOMAIN runs /\ runs[y].status \in {"running", "cancelling"}
    BY <1>5
  <2>6. QED
    BY <1>1, <1>2, <1>5, <2>2, <2>4, <2>5, StateTells, ReturnAcc DEF Setup, Goto
<1>6. CASE /\ ~Executing(x) /\ runs[x].status \notin Finals
           /\ SetStatus(x, "running")
           /\ Goto(c, "executing") /\ UNCHANGED <<req, copy>>
  <2>1. Restates(x) /\ runs'[x].status = "running" /\ runs'[x].ticket = runs[x].ticket
    BY <1>1, <1>6, SetStatusIs
  <2>2. PICK Z \in Tickets : req[c].name = Z
    BY <1>1, Holds DEF CallSound, StartSound
  <2>3. Moves(c, "executing", req[c], copy[c], inner[c])
    BY <1>1, <1>2, <1>6, Holds DEF Setup, Goto, Moves, Inv, TypeOK
  <2>4. PointSound("executing", req[c])
    BY <1>1 DEF PointSound, Resumes, Running
  <2>5. \A y \in DOMAIN runs' : runs'[y].status \in {"running", "cancelling"} =>
          \/ y \in DOMAIN runs /\ runs[y].status \in {"running", "cancelling"}
          \/ "executing" \in Running /\ x = y
    BY <2>1 DEF Restates, Running
  <2>6. Grows(runs, runs')
    BY <2>1 DEF Restates
  <2>7. Alone'
    BY <1>1, <1>6, <2>3, <2>4, <2>5, <2>6, AloneKept DEF Setup
  <2>8. Advances(c, "executing", req[c], Z)
    BY <1>1, <2>1 DEF Advances, Executes
  <2>9. QED
    BY <1>1, <2>1, <2>2, <2>3, <2>6, <2>7, <2>8, OwnStartAcc DEF Setup
<1>7. QED
  BY <1>3, <1>4, <1>5, <1>6 DEF Setup

(* A start whose run ends has the outcome at hand.                          *)
LEMMA StartEndsAcc ==
  ASSUME Acc, Inv', NEW c \in Callers, pc[c] \in Running, req[c].cmd = "start",
         NEW status \in Pauses \cup Finals, SetStatus(req[c].run, status),
         Outcome(c, req[c].run, status), Goto(c, "startBack"),
         UNCHANGED <<queue, label, req, inner, hist>>
  PROVE  Acc'
<1> DEFINE x == req[c].run
<1>1. /\ Inv /\ x \in DOMAIN runs /\ x # 0
      /\ pc[c] \in Started \cup Running
      /\ runs[x].ticket = req[c].name
  BY RunOf DEF Acc
<1>2. req' = [req EXCEPT ![c] = req[c]]
  BY <1>1 DEF Inv, TypeOK
<1>3. Restates(x) /\ runs'[x].status = status
  BY <1>1, SetStatusIs
<1>4. PICK k : copy' = [copy EXCEPT ![c] = k] /\ Recorded(c, k, queueStateFor(status), x)
  BY <1>1, OutcomeIs
<1>5. status \in Statuses /\ status \notin {"running", "cancelling"}
  BY QueueAssumption DEF Statuses, Finals
<1>6. Returns(c, "startBack", req[c]) /\ Grows(runs, runs')
  BY <1>1, <1>3 DEF Returns, Restates
<1>7. \A y \in DOMAIN runs' : runs'[y].status \in {"running", "cancelling"} =>
        y \in DOMAIN runs /\ runs[y].status \in {"running", "cancelling"}
  BY <1>1, <1>3, <1>5 DEF Restates
<1>8. QED
  BY <1>1, <1>2, <1>3, <1>4, <1>5, <1>6, <1>7, StateTells, ReturnAcc DEF Goto

(* One that was resumed is looked for in the queue again.                   *)
LEMMA ResumeEndsAcc ==
  ASSUME Acc, Inv', NEW c \in Callers, pc[c] \in Running, req[c].cmd # "start",
         NEW status \in Pauses \cup Finals, SetStatus(req[c].run, status),
         req' = [req EXCEPT ![c].outcome = status], Goto(c, "backRead"),
         UNCHANGED <<queue, label, copy, inner, hist>>
  PROVE  Acc'
<1> DEFINE x == req[c].run
           r == [req[c] EXCEPT !.outcome = status]
<1>1. /\ Inv /\ Alone /\ x \in DOMAIN runs /\ x # 0 /\ req[c].cmd \in Resumes
      /\ pc[c] # "write"
  <2>1. Inv /\ Alone /\ x \in DOMAIN runs /\ x # 0
    BY RunOf DEF Acc
  <2>2. req[c].cmd \in Resumes
    BY <2>1, Holds DEF CallSound
  <2>3. QED
    BY <2>1, <2>2 DEF Running
<1>2. Restates(x) /\ runs'[x].status = status /\ runs'[x].ticket = runs[x].ticket
  BY <1>1, SetStatusIs
<1>3. PICK Z \in Tickets : runs[x].ticket = Z
  BY <1>1, StatusOf
<1>4. r.cmd = req[c].cmd /\ r.run = x /\ r.outcome = status
  <2>1. req[c] \in Request
    BY <1>1, Holds DEF CallSound
  <2>2. QED
    BY <2>1 DEF Request
<1>5. Moves(c, "backRead", r, copy[c], inner[c])
  BY <1>1, Holds DEF Goto, Moves, Inv, TypeOK
<1> HIDE DEF r
<1>6. status \notin {"running", "cancelling"}
  BY QueueAssumption DEF Finals
<1>7. PointSound("backRead", r)
  BY <1>1, <1>4 DEF PointSound, Resumes
<1>8. Grows(runs, runs')
  BY <1>2 DEF Restates
<1>9. Alone'
  <2>1. \A y \in DOMAIN runs' : runs'[y].status \in {"running", "cancelling"} =>
          y \in DOMAIN runs /\ runs[y].status \in {"running", "cancelling"}
    BY <1>1, <1>2, <1>6 DEF Restates
  <2>2. QED
    BY <1>2, <1>5, <1>6, <1>7, <1>8, <2>1, AloneKept DEF Running
<1>10. /\ pc'[c] = "backRead" /\ req'[c] = r
       /\ \A d \in Callers : d # c => pc'[d] = pc[d] /\ req'[d] = req[d]
  BY <1>1, <1>5, After
<1>11. \A y \in DOMAIN runs' : y \in DOMAIN runs /\ runs'[y].ticket = runs[y].ticket
  BY <1>2 DEF Restates, Grows
<1>12. \A t : HasRun(t)' <=> HasRun(t)
  BY <1>2, <1>11 DEF HasRun, Restates
<1>13. \A d \in Callers : \A t, points : Starts(d, t, points)' => d # c /\ Starts(d, t, points)
  BY <1>1, <1>4, <1>10 DEF Starts, Resumes
<1>14. \A d \in Callers : \A t, points : Starts(d, t, points) => Starts(d, t, points)'
  BY <1>1, <1>10 DEF Starts, Resumes
<1>15. \A d \in Callers : pc'[d] \in Running => d # c /\ req'[d].run # x
  BY <1>1, <1>10 DEF Alone, Running
(* The ticket of the run, when it is alone.                                 *)
<1>16. ASSUME ~hist.lost, Lone(Z)' PROVE Modest(c, Z) /\ LoneSound(Z)'
  <2>1. Lone(Z) /\ LoneSound(Z)
    <3>1. Lone(Z)
      BY <1>16, StillLone, ExtendsItself
    <3>2. QED
      BY <1>16, <3>1 DEF Acc, Account
  <2>2. \A y \in DOMAIN runs' : runs'[y].ticket = Z => y = x
    BY <1>1, <1>3, <1>11, <2>1 DEF LoneSound
  <2>3. HasRun(Z)
    BY <1>1, <1>3 DEF HasRun
  <2>4. ASSUME NEW d \in Callers, Starts(d, Z, {"provision"} \cup Bound \cup Running)' PROVE FALSE
    <3>1. Starts(d, Z, {"provision"} \cup Bound \cup Running) /\ d # c
      BY <1>13, <2>4
    <3>2. CASE pc[d] = "provision"
      BY <2>1, <2>3, <3>1, <3>2 DEF LoneSound, Starts
    <3>3. CASE pc[d] \in Bound \cup Running
      <4>1. req[d].run \in DOMAIN runs /\ runs[req[d].run].ticket = Z
        BY <1>1, <3>1, <3>3, RunOf DEF Starts
      <4>2. req[d].run = x
        BY <1>1, <1>3, <2>1, <4>1 DEF LoneSound
      <4>3. pc[d] \notin Running
        BY <1>1, <3>1, <4>2 DEF Alone
      <4>4. Starts(d, Z, Bound)
        BY <3>1, <3>3, <4>3 DEF Starts
      <4>5. QED
        BY <2>1, <3>1, <4>2, <4>4 DEF LoneSound
    <3>4. QED
      BY <3>1, <3>2, <3>3 DEF Starts
  <2>5. \A d \in Callers : /\ ~Starts(d, Z, {"provision"})' /\ ~Starts(d, Z, Bound)'
                           /\ ~Starts(d, Z, Running)' /\ ~Starts(d, Z, {"executing"})'
                           /\ ~Starts(d, Z, {"provision"} \cup Bound)'
    BY <2>4 DEF Starts, Running
  <2>6. Z \in Used
    BY <2>1, <2>3, <1>3 DEF Used
  <2>7. Z \notin Begun'
    BY <2>5 DEF Begun
  <2>8. Z \in ToName' => Z \in ToName
    BY <1>14, <2>1, <2>3 DEF ToName
  <2>9. ASSUME NEW O \in SUBSET Callers, c \in O, NEW st PROVE <<Z, st>> \notin Wrong(O)'
    BY <1>4, <1>10, <2>2, <2>9 DEF Wrong, Owes
  <2>10. Modest(c, Z)
    BY <2>6, <2>7, <2>8, <2>9 DEF Modest
  <2>11. ASSUME NEW d \in Callers, pc'[d] = "backRead", runs'[req'[d].run].ticket = Z
         PROVE  d = c /\ req'[d].run = x
    <3>1. req'[d].run \in DOMAIN runs'
      BY <2>11, RunThen
    <3>2. req'[d].run = x
      BY <2>2, <2>11, <3>1
    <3>3. ASSUME d # c PROVE FALSE
      <4>1. pc[d] = "backRead" /\ req[d].run = x /\ Executing(x)
        BY <1>10, <2>11, <3>2, <3>3 DEF Executing, Running
      <4>2. QED
        BY <1>3, <2>1, <4>1 DEF LoneSound
    <3>4. QED
      BY <3>2, <3>3
  <2>12. ASSUME NEW d \in Callers, pc'[d] \in Running, runs'[req'[d].run].ticket = Z PROVE FALSE
    <3>1. req'[d].run \in DOMAIN runs'
      BY <2>12, RunThen
    <3>2. QED
      BY <1>15, <2>2, <2>12, <3>1
  <2>13. ~Executing(x)'
    BY <1>15 DEF Executing, Running
  <2>14. \A d \in Callers : Starts(d, Z, Past)' => <<Z, "binding">> \notin hist'.torn
    BY <1>13, <2>1 DEF LoneSound
  <2>15. \A d, e \in Callers : Starts(d, Z, Past)' /\ Starts(e, Z, Past)' => d = e
    BY <1>13, <2>1 DEF LoneSound
  <2>16. \A d \in Callers : pc'[d] = "backRead" /\ runs'[req'[d].run].ticket = Z =>
           runs'[req'[d].run].status = req'[d].outcome /\ ~Executing(req[d].run)'
    <3>1. ASSUME NEW d \in Callers, pc'[d] = "backRead", runs'[req'[d].run].ticket = Z
          PROVE  runs'[req'[d].run].status = req'[d].outcome /\ ~Executing(req[d].run)'
      <4>1. d = c
        BY <2>11, <3>1
      <4>2. \A y : y = x => ~Executing(y)'
        BY <1>15 DEF Executing, Running
      <4>3. Executing(req[d].run)' <=> \E e \in Callers : req'[e].run = req'[d].run /\ pc'[e] \in Running
        BY DEF Executing, Running
      <4>4. QED
        BY <1>2, <1>4, <1>10, <1>15, <4>1, <4>3
    <3>2. QED
      BY <3>1
  <2>17. LoneSound(Z)'
    BY <2>2, <2>5, <2>12, <2>14, <2>15, <2>16 DEF LoneSound
  <2>18. QED
    BY <2>10, <2>17
<1>17. ASSUME NEW t \in Tickets \ {Z} PROVE Steady(c, "backRead", r, t)
  <2>1. RunsKept(t, runs, runs')
    BY <1>2, <1>3, <1>8 DEF RunsKept, Restates
  <2>2. QED
    BY <1>1, <1>2, <1>3, <1>4, <2>1, OtherSteady DEF Owes, Resumes
<1>18. ASSUME ~hist.lost, NEW t \in Tickets, Lone(t)' PROVE Modest(c, t) /\ LoneSound(t)'
  <2>1. CASE t = Z
    BY <1>16, <1>18, <2>1
  <2>2. CASE t # Z
    BY <1>5, <1>17, <1>18, <2>2, QuietSteady
  <2>3. QED
    BY <2>1, <2>2
<1>19. CopySound(c)' /\ InnerSound(c)'
  BY <1>1, <1>4, <1>10 DEF CopySound, InnerSound, HoldsCopy, Resumes
<1>20. ~hist.lost => \A t \in Tickets : HasRun(t)' => InQueue(t)
  BY <1>12 DEF Acc, Account
<1>21. ASSUME ~hist.lost, NEW t \in Tickets, runs'[r.run].ticket = t, Lone(t)'
       PROVE  \A i \in DOMAIN queue : queue[i].ticket = t => queue[i].run # 0
  <2>1. Lone(t) /\ runs[x].ticket = t
    <3>1. Lone(t)
      BY <1>21, StillLone, ExtendsItself
    <3>2. QED
      BY <1>2, <1>4, <1>21, <3>1
  <2>2. QED
    BY <1>1, <1>21, <2>1 DEF Acc, Account
<1>22. r.cmd # "start"
  BY <1>4
<1>23. /\ queue' = queue /\ label' = label
       /\ hist'.stale = hist.stale /\ hist'.lost = hist.lost /\ hist'.torn = hist.torn
       /\ hist.forced \subseteq hist'.forced
  OBVIOUS
<1>24. QED
  BY <1>1, <1>5, <1>8, <1>9, <1>18, <1>19, <1>20, <1>21, <1>22, <1>23, QuietKeeps

LEMMA RunEndsAcc ==
  ASSUME Acc, Inv', NEW c \in Callers, RunEnds(c)
  PROVE  Acc'
<1>1. pc[c] \in Running
  BY DEF RunEnds, Running
<1>2. PICK status \in Pauses \cup Finals :
        /\ SetStatus(req[c].run, status)
        /\ \/ /\ req[c].cmd = "start"
              /\ Outcome(c, req[c].run, status) /\ Goto(c, "startBack") /\ UNCHANGED req
           \/ /\ req[c].cmd # "start"
              /\ req' = [req EXCEPT ![c].outcome = status]
              /\ Goto(c, "backRead") /\ UNCHANGED copy
  BY DEF RunEnds
<1>3. UNCHANGED <<queue, label, inner, hist>>
  BY DEF RunEnds
<1>4. QED
  BY <1>1, <1>2, <1>3, StartEndsAcc, ResumeEndsAcc

(* An entry that is there is found.                                         *)
LEMMA FindsNamed ==
  ASSUME NEW q \in Seq(Entry), NEW name, NEW e \in DOMAIN q, e \in Named(q, name)
  PROVE  Find(q, name) # 0
<1> DEFINE N == Named(q, name)
<1>1. N # {} /\ N \subseteq DOMAIN q /\ DOMAIN q \subseteq Nat /\ 0 \notin DOMAIN q
  BY DEF Named
<1>2. PICK i \in N : \A j \in N : ~ (<<j, i>> \in OpToRel(<, Nat))
  BY <1>1, WFMin, NatLessThanWellFounded
<1>3. \A j \in N : i <= j
  <2>1. ASSUME NEW j \in N, j < i PROVE FALSE
    <3>1. <<j, i>> \in Nat \X Nat /\ <<j, i>>[1] < <<j, i>>[2]
      BY <1>1, <2>1
    <3>2. QED
      BY <3>1, <1>2 DEF OpToRel
  <2>2. QED
    BY <1>1, <2>1
<1>4. Find(q, name) \in N
  BY <1>1, <1>3 DEF Find
<1>5. QED
  BY <1>1, <1>4

LEMMA QueuedIsFound ==
  ASSUME Inv, NEW t, InQueue(t)
  PROVE  Find(queue, t) # 0
<1>1. queue \in Seq(Entry)
  BY DEF Inv, TypeOK
<1>2. PICK i \in DOMAIN queue : i \in Named(queue, t)
  BY DEF InQueue, Named
<1>3. QED
  BY <1>1, <1>2, FindsNamed

(* What is found by a ticket or a run is an entry of it.                    *)
LEMMA FoundIs ==
  ASSUME Inv, NEW name, Find(queue, name) # 0
  PROVE  /\ Find(queue, name) \in DOMAIN queue
         /\ name \in Tickets => queue[Find(queue, name)].ticket = name
         /\ name \in DOMAIN runs => /\ queue[Find(queue, name)].run = name
                                    /\ queue[Find(queue, name)].ticket = runs[name].ticket
<1> DEFINE i == Find(queue, name)
<1>1. queue \in Seq(Entry) /\ runs \in Seq(Run)
  BY DEF Inv, TypeOK
<1>2. i \in DOMAIN queue /\ (queue[i].ticket = name \/ (name # 0 /\ queue[i].run = name))
  BY <1>1, FindFinds
<1>3. queue[i].ticket \in Tickets /\ queue[i].run \in Nat
  BY <1>2, EntryOf DEF Entry
<1>4. name \in DOMAIN runs => name \in Nat
  BY <1>1
<1>5. QED
  BY <1>2, <1>3, <1>4, EntryOf, QueueAssumption

(* The binding and the publish stage keep what they read of the queue and   *)
(* change the entry of the run in it.                                       *)
Rereads(i, n, p, x) ==
  /\ DOMAIN n = DOMAIN queue /\ \A j \in DOMAIN queue : j # i => n[j] = queue[j]
  /\ i \in DOMAIN queue /\ queue[i].ticket = runs[x].ticket /\ n[i].ticket = runs[x].ticket
  /\ p = "bindWrite" => n[i].run = x /\ n[i].state = queue[i].state
  /\ p = "publishWrite" => n[i].run = queue[i].run /\ n[i].state = "published"

LEMMA ReadsOnAcc ==
  ASSUME Acc, Inv', NEW c \in Callers, NEW p, NEW n, Moves(c, p, req[c], copy[c], n),
         UNCHANGED <<queue, label, runs>>,
         hist'.stale = hist.stale, hist'.lost = hist.lost, hist'.torn = hist.torn,
         hist'.forced = hist.forced,
         \/ pc[c] = "bindRead" /\ p \in {"bindWrite", "setup"}
         \/ pc[c] = "executing" /\ p \in {"publishWrite", "published"},
         p = "setup" => hist.lost, NEW i,
         p \in {"bindWrite", "publishWrite"} => Rereads(i, n, p, req[c].run)
  PROVE  Acc'
<1> DEFINE r == req[c]
           x == req[c].run
<1>1. /\ Inv /\ Alone /\ x \in DOMAIN runs /\ x # 0 /\ PointSound(pc[c], r)
      /\ pc[c] \notin {"write", "idle", "resuming"} /\ p \notin {"write", "idle", "resuming"}
      /\ (pc[c] \in Bound /\ p \in Bound) \/ (pc[c] \in Running /\ p \in Running)
  <2>1. /\ Inv /\ Alone /\ PointSound(pc[c], r)
        /\ pc[c] \notin {"write", "idle", "resuming"} /\ p \notin {"write", "idle", "resuming"}
        /\ (pc[c] \in Bound /\ p \in Bound) \/ (pc[c] \in Running /\ p \in Running)
    BY DEF Acc, Alone, Bound, Running
  <2>2. QED
    BY <2>1, RunOf DEF Acc
<1>2. PICK Z \in Tickets : runs[x].ticket = Z
  BY <1>1, StatusOf
<1>3. pc[c] \in Bound => r.cmd = "start"
  BY <1>1, Holds DEF CallSound, Bound, Started
<1>4. r.cmd = "start" => r.name = Z
  BY <1>1, <1>2, RunOf
<1>5. PointSound(p, r)
  BY <1>1, <1>3 DEF PointSound, Started, Bound, Running, Resumes
<1>6. Alone'
  BY <1>1, <1>5, AloneKept DEF Grows, Bound, Running
<1>7. ASSUME NEW t \in Tickets, ~hist.lost PROVE Steady(c, p, r, t)
  BY <1>1, <1>7 DEF Steady, RunsKept, Grows, NoFurther, Starts, Past, Bound, Running, Owes
<1>8. ASSUME ~hist.lost, NEW t \in Tickets, Lone(t)' PROVE Lone(t) /\ Modest(c, t) /\ LoneSound(t)'
  BY <1>7, <1>8, QuietSteady
<1>9. /\ pc'[c] = p /\ req'[c] = r /\ copy'[c] = copy[c] /\ inner'[c] = n
      /\ \A d \in Callers : d # c => pc'[d] = pc[d] /\ req'[d] = req[d]
  BY <1>1, After
<1>10. ASSUME ~hist.lost PROVE CopySound(c)'
  <2>1. CASE r.cmd = "start"
    BY <1>1, <1>9, <1>10, <2>1, StartHolds
  <2>2. CASE r.cmd # "start"
    BY <1>1, <1>3, <1>9, <2>2 DEF CopySound, HoldsCopy, Running
  <2>3. QED
    BY <2>1, <2>2
<1>11. ASSUME ~hist.lost, p \in {"bindWrite", "publishWrite"} PROVE InnerSound(c)'
  <2>1. Rereads(i, n, p, x) /\ i \in DOMAIN queue /\ queue[i].ticket = Z
    BY <1>2, <1>11 DEF Rereads
  <2>2. /\ Extends(queue, n) /\ Same(queue, n, Z) /\ Keeps(queue, n)
    BY <1>1, <1>2, <1>11, <2>1 DEF Rereads, Extends, Same, Keeps
  <2>3. AllAccount(queue, queue, Used', Begun', ToName', Wrong(Callers)')
    <3>1. AllAccount(queue, queue, Used, Begun, ToName, Wrong(Callers))
      BY <1>11 DEF Acc, Account
    <3>2. /\ Used' \in SUBSET Used /\ Begun' \in SUBSET Begun /\ ToName' \in SUBSET ToName
          /\ Wrong(Callers)' \in SUBSET Wrong(Callers)
      BY <1>8, <1>11, AsksLess
    <3>3. QED
      BY <3>1, <3>2, Weaker
  <2>4. ASSUME Lone(Z)' PROVE Accounts(n[i], Used', Begun', ToName', Wrong(Callers)')
    <3>1. Lone(Z) /\ LoneSound(Z)
      BY <1>8, <1>11, <2>4 DEF Acc, Account
    <3>2. \A y \in DOMAIN runs' : runs'[y].ticket = Z => y = x
      BY <1>1, <1>2, <3>1 DEF LoneSound
    <3>3. ASSUME NEW st PROVE <<Z, st>> \notin Wrong(Callers)'
      BY <1>1, <1>9, <3>2 DEF Wrong, Owes
    <3>4. Accounts(queue[i], Used', Begun', ToName', Wrong(Callers)')
      BY <2>1, <2>3 DEF AllAccount
    <3>5. CASE p = "bindWrite"
      BY <1>1, <1>2, <2>1, <3>3, <3>4, <3>5 DEF Rereads, Accounts
    <3>6. CASE p = "publishWrite"
      <4>1. pc[c] = "executing"
        BY <3>6, <1>1 DEF Bound, Running
      <4>2. ASSUME NEW d \in Callers, \/ Starts(d, Z, {"provision"} \cup Bound)'
                                      \/ Starts(d, Z, {"executing"})'
            PROVE  FALSE
        <5>1. d # c
          BY <1>9, <3>6, <4>2 DEF Starts, Bound
        <5>2. Starts(d, Z, {"provision"}) \/ Starts(d, Z, Bound) \/ Starts(d, Z, {"executing"})
          BY <1>9, <4>2, <5>1 DEF Starts
        <5>3. ~Starts(d, Z, {"provision"})
          BY <1>1, <1>2, <3>1 DEF LoneSound, HasRun
        <5>4. req[d].run = x
          <6>1. req[d].run \in DOMAIN runs /\ runs[req[d].run].ticket = Z
            BY <1>1, <5>2, <5>3, RunOf DEF Starts, Running
          <6>2. QED
            BY <1>1, <1>2, <3>1, <6>1 DEF LoneSound
        <5>5. ~Starts(d, Z, Bound)
          BY <3>1, <5>1, <5>4 DEF LoneSound
        <5>6. pc[d] \in Running /\ pc[c] \in Running
          BY <4>1, <5>2, <5>3, <5>5 DEF Starts, Running
        <5>7. QED
          BY <1>1, <5>1, <5>4, <5>6 DEF Alone
      <4>3. Z \notin Begun'
        BY <4>2 DEF Begun
      <4>4. "published" \notin Startable
        BY DEF Startable
      <4>5. QED
        BY <1>2, <2>1, <3>3, <3>4, <3>6, <4>3, <4>4 DEF Rereads, Accounts
    <3>7. QED
      BY <1>11, <3>5, <3>6
  <2>5. ASSUME NEW j \in DOMAIN queue PROVE Accounts(n[j], Used', Begun', ToName', Wrong(Callers)')
    <3>1. CASE j # i
      BY <2>1, <2>3, <3>1 DEF Rereads, AllAccount
    <3>2. CASE j = i /\ Lone(Z)'
      BY <2>4, <3>2
    <3>3. CASE j = i /\ ~Lone(Z)'
      <4>1. n[j].ticket = Z
        BY <1>2, <2>1, <3>3 DEF Rereads
      <4>2. QED
        BY <3>3, <4>1, NotLone
    <3>4. QED
      BY <3>1, <3>2, <3>3
  <2>6. AllAccount(queue, n, Used', Begun', ToName', Wrong(Callers)')
    BY <2>5 DEF AllAccount
  <2>7. ASSUME p = "bindWrite", Lone(Z)', NEW j \in DOMAIN queue, queue[j].ticket = Z
        PROVE  n[j].run # 0
    <3>1. j = i
      BY <2>1, <2>7 DEF Lone, Once
    <3>2. QED
      BY <1>1, <2>1, <2>7, <3>1 DEF Rereads
  <2>8. p = "bindWrite" => r.name = Z
    BY <1>1, <1>3, <1>4 DEF Bound, Running
  <2>9. QED
    BY <1>2, <1>9, <2>2, <2>6, <2>7, <2>8 DEF InnerSound
<1>12. ~hist.lost => InnerSound(c)'
  <2>1. p \notin {"bindWrite", "publishWrite"} => InnerSound(c)'
    BY <1>9 DEF InnerSound
  <2>2. QED
    BY <1>11, <2>1
<1>13. ASSUME ~hist.lost
       PROVE  /\ \A t \in Tickets : HasRun(t)' => InQueue(t)
              /\ r.cmd = "start" => r.at \in DOMAIN queue /\ queue[r.at].ticket = r.name
              /\ \A t \in Tickets : r.cmd \in Resumes /\ runs'[r.run].ticket = t /\ Lone(t)' =>
                   \A j \in DOMAIN queue : queue[j].ticket = t => queue[j].run # 0
  <2>1. Account
    BY <1>13 DEF Acc
  <2>2. \A t \in Tickets : HasRun(t)' => InQueue(t)
    BY <2>1 DEF HasRun, Account
  <2>3. r.cmd = "start" => r.at \in DOMAIN queue /\ queue[r.at].ticket = r.name
    BY <1>1, <2>1 DEF Account, Past
  <2>4. QED
    BY <1>8, <1>13, <2>1, <2>2, <2>3 DEF Account
<1>14. Grows(runs, runs') /\ label' = label /\ queue' = queue /\ hist.forced \subseteq hist'.forced
  BY DEF Grows
<1>15. QED
  BY <1>1, <1>6, <1>8, <1>10, <1>12, <1>13, <1>14, QuietKeeps

LEMMA BindReadAcc ==
  ASSUME Acc, Inv', NEW c \in Callers, BindRead(c)
  PROVE  Acc'
<1> DEFINE i == Find(queue, req[c].name)
           x == req[c].run
           e == [queue[i] EXCEPT !.run = x, !.workspace = TRUE]
           n == Edited(queue, i, e)
<1>1. /\ Inv /\ pc[c] = "bindRead" /\ req[c].cmd = "start" /\ req[c].name \in Tickets
      /\ x \in DOMAIN runs /\ runs[x].ticket = req[c].name
  <2>1. Inv /\ pc[c] = "bindRead" /\ pc[c] \in Bound /\ pc[c] \in Started
    BY DEF Acc, BindRead, Bound, Started
  <2>2. req[c].cmd = "start" /\ req[c].name \in Tickets
    BY <2>1, Holds DEF CallSound, StartSound
  <2>3. QED
    BY <2>1, <2>2, RunOf
<1>2. CASE i = 0 /\ Goto(c, "setup") /\ UNCHANGED <<inner, hist>>
  <2>1. Moves(c, "setup", req[c], copy[c], inner[c])
    BY <1>1, <1>2, Holds DEF BindRead, Goto, Moves, Inv, TypeOK
  <2>2. hist.lost
    <3>1. ~hist.lost => InQueue(req[c].name)
      BY <1>1 DEF Acc, Account, HasRun
    <3>2. QED
      BY <1>1, <1>2, <3>1, QueuedIsFound
  <2>3. QED
    BY <1>1, <1>2, <2>1, <2>2, ReadsOnAcc DEF BindRead
<1>3. CASE i # 0 /\ ReadInner(c, i, e, "bindWrite")
  <2>1. i \in DOMAIN queue /\ queue[i].ticket = req[c].name
    BY <1>1, <1>3, FoundIs
  <2>2. e.ticket = queue[i].ticket /\ e.run = x /\ e.state = queue[i].state
    BY <1>1, <2>1, EntryOf DEF Entry
  <2>3. DOMAIN n = DOMAIN queue /\ n[i] = e /\ \A j \in DOMAIN queue : j # i => n[j] = queue[j]
    BY <1>1, <2>1, EditedIs
  <2>4. Rereads(i, n, "bindWrite", x)
    BY <1>1, <2>1, <2>2, <2>3 DEF Rereads
  <2>5. Moves(c, "bindWrite", req[c], copy[c], n)
    BY <1>1, <1>3, Holds DEF BindRead, ReadInner, Goto, Moves, Inv, TypeOK
  <2>6. /\ hist'.stale = hist.stale /\ hist'.lost = hist.lost /\ hist'.torn = hist.torn
        /\ hist'.forced = hist.forced
    BY <1>1, <1>3, IssueKeeps DEF ReadInner
  <2> HIDE DEF n
  <2>7. QED
    BY <1>1, <2>4, <2>5, <2>6, ReadsOnAcc DEF BindRead
<1>4. QED
  BY <1>2, <1>3 DEF BindRead

LEMMA PublishAcc ==
  ASSUME Acc, Inv', NEW c \in Callers, Publish(c)
  PROVE  Acc'
<1> DEFINE x == req[c].run
           i == findPublishEntry(queue, x)
           e == [queue[i] EXCEPT !.state = "published", !.judged = TRUE]
           n == Edited(queue, i, e)
<1>1. Inv /\ pc[c] = "executing" /\ x \in DOMAIN runs /\ runs[x].ticket \in Tickets
  <2>1. Inv /\ pc[c] = "executing" /\ pc[c] \in Running
    BY DEF Acc, Publish, Running
  <2>2. QED
    BY <2>1, RunOf, StatusOf
<1>2. CASE i = 0 /\ Goto(c, "published") /\ UNCHANGED <<inner, hist>>
  <2>1. Moves(c, "published", req[c], copy[c], inner[c])
    BY <1>1, <1>2, Holds DEF Publish, Goto, Moves, Inv, TypeOK
  <2>2. QED
    BY <1>1, <1>2, <2>1, ReadsOnAcc DEF Publish
<1>3. CASE i # 0 /\ ReadInner(c, i, e, "publishWrite")
  <2>1. i \in DOMAIN queue /\ queue[i].ticket = runs[x].ticket
    BY <1>1, <1>3, FoundIs DEF findPublishEntry
  <2>2. e.ticket = queue[i].ticket /\ e.run = queue[i].run /\ e.state = "published"
    BY <1>1, <2>1, EntryOf DEF Entry
  <2>3. DOMAIN n = DOMAIN queue /\ n[i] = e /\ \A j \in DOMAIN queue : j # i => n[j] = queue[j]
    BY <1>1, <2>1, EditedIs
  <2>4. Rereads(i, n, "publishWrite", x)
    BY <1>1, <2>1, <2>2, <2>3 DEF Rereads
  <2>5. Moves(c, "publishWrite", req[c], copy[c], n)
    BY <1>1, <1>3, Holds DEF Publish, ReadInner, Goto, Moves, Inv, TypeOK
  <2>6. /\ hist'.stale = hist.stale /\ hist'.lost = hist.lost /\ hist'.torn = hist.torn
        /\ hist'.forced = hist.forced
    BY <1>1, <1>3, IssueKeeps DEF ReadInner
  <2> HIDE DEF n
  <2>7. QED
    BY <1>1, <2>4, <2>5, <2>6, ReadsOnAcc DEF Publish
<1>4. QED
  BY <1>2, <1>3 DEF Publish

-----------------------------------------------------------------------------
(* Resumes and what they write back                                         *)

LEMMA ResumeAcc ==
  ASSUME Acc, Inv', NEW c \in Callers, NEW name, NEW cmd \in Resumes, Resume(c, name, cmd)
  PROVE  Acc'
<1> DEFINE i == Find(queue, name)
           x == queue[i].run
           r == [NoRequest EXCEPT !.cmd = cmd, !.run = x,
                           !.name = IF cmd = "approve" THEN queue[i].ticket ELSE name]
<1>1. /\ Inv /\ pc[c] = "idle" /\ req[c].cmd = "none" /\ req[c].run = 0 /\ \A y : ~Owes(c, y)
  BY IdleOwes DEF Acc, Resume, CanIssue
<1>2. i \in DOMAIN queue /\ x # 0
  BY <1>1, FoundIs DEF Resume
<1>3. PICK Z \in Tickets : queue[i].ticket = Z /\ runs[x].ticket = Z
  BY <1>1, <1>2, EntryOf
<1>4. r.cmd = cmd /\ r.run = x
  BY DEF NoRequest
<1>5. Moves(c, "resuming", r, copy[c], inner[c])
  BY <1>1, Holds DEF Resume, Goto, Moves, Inv, TypeOK
<1>6. /\ hist'.stale = hist.stale /\ hist'.lost = hist.lost /\ hist'.torn = hist.torn
      /\ hist'.forced = hist.forced \cup Meddled(queue[i])
  BY <1>1, IssueKeeps DEF Resume
<1>7. /\ queue' = queue /\ runs' = runs /\ label' = label /\ Grows(runs, runs')
  BY DEF Resume, Grows
<1> HIDE DEF r
<1>8. PointSound("resuming", r)
  BY <1>2, <1>4 DEF PointSound, Resumes
<1>9. Alone'
  BY <1>1, <1>5, <1>6, <1>7, <1>8, AloneKept DEF Running
<1>10. \A d \in Callers : Lone(Z)' => ~Starts(d, Z, Bound)
  BY <1>3, <1>6 DEF Lone, Meddled, InPassing, Starts, Bound
<1>11. ASSUME NEW t \in Tickets, Lone(t)' PROVE Steady(c, "resuming", r, t)
  <2>1. r.cmd # "start" /\ req[c].cmd # "start" /\ "resuming" \notin Running \cup {"backRead", "write"}
    BY <1>1, <1>4 DEF Resumes, Running
  <2>2. runs'[r.run].ticket = t => t = Z
    BY <1>3, <1>4, <1>7
  <2>3. NoFurther(c, "resuming", r, t)
    BY <1>10, <1>11, <2>1, <2>2 DEF NoFurther
  <2>4. QED
    BY <1>1, <1>7, <2>1, <2>3 DEF Steady, RunsKept, Starts
<1>12. CopySound(c)' /\ InnerSound(c)'
  <2>1. pc'[c] = "resuming" /\ req'[c] = r
    BY <1>1, <1>5, After
  <2>2. QED
    BY <1>4, <2>1 DEF CopySound, InnerSound, HoldsCopy, Resumes
<1>13. ~hist.lost => \A t \in Tickets : HasRun(t)' => InQueue(t)
  BY <1>7 DEF HasRun, Acc, Account
<1>14. ~hist.lost => \A t \in Tickets : Lone(t)' => Modest(c, t) /\ LoneSound(t)'
  BY <1>5, <1>6, <1>7, <1>11, QuietSteady
<1>15. ASSUME NEW t \in Tickets, runs'[r.run].ticket = t, Lone(t)'
       PROVE  \A j \in DOMAIN queue : queue[j].ticket = t => queue[j].run # 0
  <2>1. t = Z
    BY <1>3, <1>4, <1>7, <1>15
  <2>2. QED
    BY <1>2, <1>3, <1>7, <1>15, <2>1 DEF Lone, Once
<1>16. r.cmd # "start"
  BY <1>4 DEF Resumes
<1>17. QED
  BY <1>1, <1>5, <1>6, <1>7, <1>9, <1>12, <1>13, <1>14, <1>15, <1>16, QuietKeeps

LEMMA ResumingAcc ==
  ASSUME Acc, Inv', NEW c \in Callers, Resuming(c)
  PROVE  Acc'
<1> DEFINE x == req[c].run
           r == req[c]
<1>1. /\ Inv /\ Alone /\ pc[c] = "resuming" /\ r.cmd \in Resumes /\ x # 0 /\ x \in DOMAIN runs
  <2>1. Inv /\ Alone /\ pc[c] = "resuming"
    BY DEF Acc, Resuming
  <2>2. r.cmd \in Resumes
    BY <2>1, Holds DEF CallSound, ResumeSound
  <2>3. x # 0
    BY <2>1, <2>2, Holds DEF CallSound, ResumeSound
  <2>4. QED
    BY <2>1, <2>2, <2>3, RunOf
<1>2. PICK Z \in Tickets : runs[x].ticket = Z
  BY <1>1, StatusOf
<1>3. /\ hist'.stale = hist.stale /\ hist'.lost = hist.lost /\ hist'.torn = hist.torn
      /\ hist'.forced = hist.forced \cup (IF Unrecorded(x) THEN {Z} ELSE {})
      /\ hist.forced \subseteq hist'.forced
  <2>1. hist' = [hist EXCEPT !.forced = @ \cup (IF Unrecorded(x) THEN {Z} ELSE {})]
    BY <1>2 DEF Resuming
  <2>2. QED
    BY <1>1, <2>1, IssueKeeps
<1>4. queue' = queue /\ label' = label /\ inner' = inner
  BY DEF Resuming
<1>5. CASE Done(c) /\ UNCHANGED runs
  BY <1>1, <1>3, <1>4, <1>5, DoneAcc DEF Owes
<1>6. ASSUME ~Executing(x), SetStatus(x, "running"), Goto(c, "executing"), UNCHANGED <<req, copy>>
      PROVE  Acc'
  <2>1. Restates(x) /\ runs'[x].status = "running" /\ runs'[x].ticket = runs[x].ticket
    BY <1>1, <1>6, SetStatusIs
  <2>2. Moves(c, "executing", r, copy[c], inner[c])
    BY <1>1, <1>4, <1>6, Holds DEF Goto, Moves, Inv, TypeOK
  <2>3. PointSound("executing", r)
    BY <1>1 DEF PointSound, Resumes, Running
  <2>4. Grows(runs, runs')
    BY <2>1 DEF Restates
  <2>5. Alone'
    <3>1. \A y \in DOMAIN runs' : runs'[y].status \in {"running", "cancelling"} =>
            \/ y \in DOMAIN runs /\ runs[y].status \in {"running", "cancelling"}
            \/ "executing" \in Running /\ x = y
      BY <2>1 DEF Restates, Running
    <3>2. pc[c] \notin Running
      BY <1>1 DEF Running
    <3>3. QED
      BY <1>3, <1>6, <2>2, <2>3, <2>4, <3>1, <3>2, AloneKept
  <2>6. /\ pc'[c] = "executing" /\ req'[c] = r
        /\ \A d \in Callers : d # c => pc'[d] = pc[d] /\ req'[d] = req[d]
    BY <1>1, <2>2, After
  <2>7. \A y \in DOMAIN runs' : y \in DOMAIN runs /\ runs'[y].ticket = runs[y].ticket
    BY <2>1 DEF Restates, Grows
  <2>8. \A t : HasRun(t)' <=> HasRun(t)
    BY <2>1, <2>7 DEF HasRun, Restates
  <2>9. \A d \in Callers : \A t, points : Starts(d, t, points)' <=> Starts(d, t, points)
    BY <1>1, <2>6 DEF Starts, Resumes
  <2>10. \A d \in Callers : pc'[d] \in Running => d = c \/ req'[d].run # x
    BY <1>6, <2>6 DEF Executing, Running
  <2>11. ASSUME ~hist.lost, Lone(Z)' PROVE Modest(c, Z) /\ LoneSound(Z)'
    <3>1. Lone(Z) /\ LoneSound(Z)
      <4>1. Lone(Z)
        BY <1>3, <1>4, <2>11, StillLone, ExtendsItself
      <4>2. QED
        BY <2>11, <4>1 DEF Acc, Account
    <3>2. \A y \in DOMAIN runs' : runs'[y].ticket = Z => y = x
      BY <1>1, <1>2, <2>7, <3>1 DEF LoneSound
    <3>3. HasRun(Z) /\ ~Unrecorded(x)
      BY <1>1, <1>2, <1>3, <2>11 DEF HasRun, Lone
    <3>4. ASSUME NEW d \in Callers, Starts(d, Z, {"provision"} \cup Bound \cup Running) PROVE FALSE
      <4>1. d # c
        BY <1>1, <3>4 DEF Starts, Resumes
      <4>2. CASE pc[d] = "provision"
        BY <3>1, <3>3, <3>4, <4>2 DEF LoneSound, Starts
      <4>3. CASE pc[d] \in Bound \cup Running
        <5>1. req[d].run \in DOMAIN runs /\ runs[req[d].run].ticket = Z
          BY <1>1, <3>4, <4>3, RunOf DEF Starts
        <5>2. req[d].run = x
          BY <1>1, <1>2, <3>1, <5>1 DEF LoneSound
        <5>3. pc[d] \notin Running
          BY <1>6, <5>2 DEF Executing, Running
        <5>4. Starts(d, Z, Bound)
          BY <3>4, <4>3, <5>3 DEF Starts
        <5>5. QED
          BY <3>1, <4>1, <5>2, <5>4 DEF LoneSound
      <4>4. QED
        BY <3>4, <4>2, <4>3 DEF Starts
    <3>5. \A d \in Callers : /\ ~Starts(d, Z, {"provision"})' /\ ~Starts(d, Z, Bound)'
                             /\ ~Starts(d, Z, Running)' /\ ~Starts(d, Z, {"executing"})'
                             /\ ~Starts(d, Z, {"provision"} \cup Bound)'
      <4>1. ASSUME NEW d \in Callers
            PROVE  /\ ~Starts(d, Z, {"provision"}) /\ ~Starts(d, Z, Bound)
                   /\ ~Starts(d, Z, Running) /\ ~Starts(d, Z, {"executing"})
                   /\ ~Starts(d, Z, {"provision"} \cup Bound)
        BY <3>4 DEF Starts, Running
      <4>2. QED
        BY <2>9, <4>1
    <3>6. Z \in Used
      BY <1>2, <3>1, <3>3 DEF Used
    <3>7. Z \notin Begun'
      BY <3>5 DEF Begun
    <3>8. Z \in ToName' => Z \in ToName
      BY <1>3, <2>9, <3>1, <3>3 DEF ToName
    <3>9. ASSUME NEW O \in SUBSET Callers, c \in O, NEW st PROVE <<Z, st>> \notin Wrong(O)'
      BY <1>1, <2>6, <3>2, <3>9 DEF Wrong, Owes
    <3>10. Modest(c, Z)
      BY <3>6, <3>7, <3>8, <3>9 DEF Modest
    <3>11. ASSUME NEW d \in Callers, pc'[d] = "backRead", runs'[req'[d].run].ticket = Z PROVE FALSE
      <4>1. req'[d].run \in DOMAIN runs'
        BY <3>11, RunThen
      <4>2. req'[d].run = x
        BY <3>2, <3>11, <4>1
      <4>3. pc[d] = "backRead" /\ req[d].run = x
        BY <2>6, <3>11, <4>2
      <4>4. QED
        BY <3>3, <4>3 DEF Unrecorded
    <3>12. ASSUME NEW d \in Callers, pc'[d] \in Running, runs'[req'[d].run].ticket = Z
           PROVE  runs'[req'[d].run].status = "running"
      <4>1. req'[d].run \in DOMAIN runs'
        BY <3>12, RunThen
      <4>2. QED
        BY <2>1, <3>2, <3>12, <4>1
    <3>13. \A d \in Callers : Starts(d, Z, Past)' => <<Z, "binding">> \notin hist'.torn
      BY <1>3, <2>9, <3>1 DEF LoneSound
    <3>14. \A d, e \in Callers : Starts(d, Z, Past)' /\ Starts(e, Z, Past)' => d = e
      BY <2>9, <3>1 DEF LoneSound
    <3>15. LoneSound(Z)'
      BY <3>2, <3>5, <3>11, <3>12, <3>13, <3>14 DEF LoneSound
    <3>16. QED
      BY <3>10, <3>15
  <2>12. ASSUME NEW t \in Tickets \ {Z} PROVE Steady(c, "executing", r, t)
    <3>1. RunsKept(t, runs, runs')
      BY <1>2, <2>1, <2>4 DEF RunsKept, Restates
    <3>2. QED
      BY <1>1, <1>2, <2>1, <3>1, OtherSteady DEF Owes, Resumes
  <2>13. ASSUME ~hist.lost, NEW t \in Tickets, Lone(t)' PROVE Modest(c, t) /\ LoneSound(t)'
    <3>1. CASE t = Z
      BY <2>11, <2>13, <3>1
    <3>2. CASE t # Z
      BY <1>3, <1>4, <2>2, <2>12, <2>13, <3>2, QuietSteady
    <3>3. QED
      BY <3>1, <3>2
  <2>14. CopySound(c)' /\ InnerSound(c)'
    BY <1>1, <2>6 DEF CopySound, InnerSound, HoldsCopy, Resumes
  <2>15. ~hist.lost => \A t \in Tickets : HasRun(t)' => InQueue(t)
    BY <2>8 DEF Acc, Account
  <2>16. ASSUME ~hist.lost, NEW t \in Tickets, runs'[r.run].ticket = t, Lone(t)'
         PROVE  \A i \in DOMAIN queue : queue[i].ticket = t => queue[i].run # 0
    <3>1. Lone(t) /\ runs[x].ticket = t
      BY <1>3, <1>4, <2>1, <2>16, StillLone, ExtendsItself
    <3>2. QED
      BY <1>1, <2>16, <3>1 DEF Acc, Account
  <2>17. r.cmd # "start" /\ pc[c] # "write"
    BY <1>1 DEF Resumes
  <2>18. QED
    BY <1>3, <1>4, <2>2, <2>4, <2>5, <2>13, <2>14, <2>15, <2>16, <2>17, QuietKeeps
<1>7. QED
  BY <1>5, <1>6 DEF Resuming

LEMMA BackReadAcc ==
  ASSUME Acc, Inv', NEW c \in Callers, BackRead(c)
  PROVE  Acc'
<1> DEFINE i == Find(queue, req[c].name)
           x == req[c].run
           r == req[c]
           e == [queue[i] EXCEPT !.state = queueStateFor(req[c].outcome), !.run = x]
           k == Edited(queue, i, e)
<1>1. /\ Inv /\ Alone /\ pc[c] = "backRead" /\ r.cmd \in Resumes /\ x # 0 /\ x \in DOMAIN runs
      /\ r.name \in {x, runs[x].ticket} /\ r.outcome \in Pauses \cup Finals
  <2>1. Inv /\ Alone /\ pc[c] = "backRead"
    BY DEF Acc, BackRead
  <2>2. /\ r.cmd \in Resumes /\ x # 0 /\ r.name \in {x, runs[x].ticket}
        /\ r.outcome \in Pauses \cup Finals
    BY <2>1, Holds DEF CallSound, ResumeSound
  <2>3. QED
    BY <2>1, <2>2, RunOf
<1>2. PICK Z \in Tickets : runs[x].ticket = Z
  BY <1>1, StatusOf
<1>3. queue' = queue /\ label' = label /\ runs' = runs /\ inner' = inner /\ Grows(runs, runs')
  BY DEF BackRead, Grows
<1>4. \A y : Owes(c, y) => y = x
  BY DEF Owes
<1>5. CASE i = 0 /\ Done(c) /\ UNCHANGED hist
  <2>1. ASSUME ~hist.lost, Lone(Z)' PROVE FALSE
    <3>1. Lone(Z)
      BY <1>3, <1>5, <2>1, StillLone, ExtendsItself
    <3>2. PICK j \in DOMAIN queue : queue[j].ticket = Z
      BY <1>1, <1>2, <2>1 DEF Acc, Account, HasRun, InQueue
    <3>3. queue[j].run # 0
      BY <1>1, <1>2, <2>1, <3>1, <3>2 DEF Acc, Account
    <3>4. queue[j].run = x
      <4>1. LoneSound(Z)
        BY <2>1, <3>1 DEF Acc, Account
      <4>2. queue[j].run \in DOMAIN runs /\ runs[queue[j].run].ticket = Z
        BY <1>1, <3>2, <3>3, EntryOf
      <4>3. QED
        BY <1>1, <1>2, <4>1, <4>2 DEF LoneSound
    <3>5. j \in Named(queue, r.name)
      BY <1>1, <1>2, <3>2, <3>4 DEF Named
    <3>6. queue \in Seq(Entry)
      BY <1>1 DEF Inv, TypeOK
    <3>7. QED
      BY <1>5, <3>5, <3>6, FindsNamed
  <2>2. ~hist.lost => \A t \in Tickets : Lone(t)' => \A y \in DOMAIN runs : runs[y].ticket = t => ~Owes(c, y)
    BY <1>2, <1>4, <2>1
  <2>3. QED
    BY <1>1, <1>3, <1>5, <2>2, DoneAcc
<1>6. CASE i # 0 /\ Read(c, i, e, "write") /\ UNCHANGED req
  <2>1. i \in DOMAIN queue /\ queue[i].ticket = Z
    BY <1>1, <1>2, <1>6, FoundIs
  <2>2. /\ e.ticket = Z /\ e.run = x /\ e.state = queueStateFor(r.outcome)
    BY <1>1, <2>1, EntryOf DEF Entry
  <2>3. DOMAIN k = DOMAIN queue /\ k[i] = e /\ \A j \in DOMAIN queue : j # i => k[j] = queue[j]
    BY <1>1, <2>1, EditedIs
  <2>4. Moves(c, "write", r, k, inner[c])
    BY <1>1, <1>3, <1>6, Holds DEF Read, Goto, Moves, Inv, TypeOK
  <2>5. /\ hist'.stale = hist.stale /\ hist'.lost = hist.lost /\ hist'.torn = hist.torn
        /\ hist'.forced = hist.forced
    BY <1>1, <1>6, IssueKeeps DEF Read
  <2> HIDE DEF k, e
  <2>6. PointSound("write", r)
    BY <1>1 DEF PointSound, Resumes
  <2>7. Alone'
    BY <1>1, <1>3, <2>4, <2>5, <2>6, AloneKept DEF Running
  <2>8. pc'[c] = "write" /\ req'[c] = r /\ copy'[c] = k
    BY <1>1, <2>4, After
  <2>9. ASSUME NEW t \in Tickets PROVE Steady(c, "write", r, t)
    BY <1>1, <1>3 DEF Steady, RunsKept, NoFurther, Starts, Owes, Resumes, Bound, Running
  <2>10. ASSUME ~hist.lost, NEW t \in Tickets, Lone(t)' PROVE Lone(t) /\ Modest(c, t) /\ LoneSound(t)'
    BY <1>3, <2>4, <2>5, <2>9, <2>10, QuietSteady
  <2>11. ASSUME ~hist.lost, Lone(Z)' PROVE Accounts(e, Used', Begun', ToName', Wrong(Callers \ {c})')
    <3>1. LoneSound(Z)
      BY <2>10, <2>11 DEF Acc, Account
    <3>2. \A y \in DOMAIN runs' : runs'[y].ticket = Z => y = x
      BY <1>1, <1>2, <1>3, <3>1 DEF LoneSound
    <3>3. runs[x].status = r.outcome /\ ~Executing(x)
      BY <1>1, <1>2, <3>1 DEF LoneSound
    <3>4. r.outcome \in Statuses
      BY <1>1, <3>3, StatusOf
    <3>5. e.state \notin Startable /\ e.state \in Shows(r.outcome)
      BY <2>2, <3>4, StateTells
    <3>6. ASSUME NEW d \in Callers, \/ Starts(d, Z, {"provision"} \cup Bound)
                                    \/ Starts(d, Z, {"executing"})
          PROVE  FALSE
      <4>1. d # c
        BY <1>1, <3>6 DEF Starts, Resumes
      <4>2. ~Starts(d, Z, {"provision"})
        BY <1>1, <1>2, <3>1 DEF LoneSound, HasRun
      <4>3. req[d].run = x
        <5>1. req[d].run \in DOMAIN runs /\ runs[req[d].run].ticket = Z
          BY <1>1, <3>6, <4>2, RunOf DEF Starts, Running
        <5>2. QED
          BY <1>3, <3>2, <5>1
      <4>4. ~Starts(d, Z, {"executing"})
        BY <3>3, <4>3 DEF Starts, Executing
      <4>5. Starts(d, Z, Bound)
        BY <3>6, <4>2, <4>4 DEF Starts
      <4>6. QED
        BY <3>1, <4>1, <4>3, <4>5 DEF LoneSound
    <3>7. Z \notin Begun
      BY <3>6 DEF Begun
    <3>8. Z \notin Begun'
      BY <2>10, <2>11, <3>7 DEF Modest
    <3>9. ASSUME NEW st, <<Z, st>> \in Wrong(Callers \ {c})' PROVE st # e.state
      BY <1>3, <3>2, <3>3, <3>5, <3>9 DEF Wrong
    <3>10. QED
      BY <1>1, <2>2, <3>5, <3>8, <3>9 DEF Accounts
  <2>12. ASSUME ~hist.lost, NEW j \in DOMAIN queue
         PROVE  Accounts(k[j], Used', Begun', ToName', Wrong(Callers \ {c})')
    <3>1. PICK t \in Tickets : queue[j].ticket = t /\ k[j].ticket = t
      BY <1>1, <2>1, <2>2, <2>3, EntryOf
    <3>2. CASE ~Lone(t)'
      BY <3>1, <3>2, NotLone
    <3>3. CASE Lone(t)' /\ t = Z
      <4>1. j = i
        BY <1>3, <2>1, <3>1, <3>3 DEF Lone, Once
      <4>2. QED
        BY <2>3, <2>11, <2>12, <3>3, <4>1
    <3>4. CASE Lone(t)' /\ t # Z
      <4>1. \A y \in DOMAIN runs : runs[y].ticket = t => ~Owes(c, y)
        BY <1>2, <1>4, <3>4
      <4>2. Accounts(queue[j], Used', Begun', ToName', Wrong(Callers \ {c})')
        BY <2>4, <2>5, <2>9, <2>10, <2>12, <3>1, <3>4, <4>1, OwnAccounts
      <4>3. k[j] = queue[j]
        BY <2>1, <2>3, <3>1, <3>4
      <4>4. QED
        BY <4>2, <4>3
    <3>5. QED
      BY <3>2, <3>3, <3>4
  <2>13. ~hist.lost => CopySound(c)'
    <3>1. Extends(queue, k) /\ Keeps(queue, k)
      BY <1>1, <2>1, <2>2, <2>3 DEF Extends, Keeps
    <3>2. ~hist.lost => AllAccount(queue, k, Used', Begun', ToName', Wrong(Callers \ {c})')
      BY <2>12 DEF AllAccount
    <3>3. r.cmd # "start"
      BY <1>1 DEF Resumes
    <3>4. QED
      BY <1>3, <2>8, <3>1, <3>2, <3>3 DEF CopySound
  <2>14. InnerSound(c)'
    BY <2>8 DEF InnerSound
  <2>15. ~hist.lost => \A t \in Tickets : HasRun(t)' => InQueue(t)
    BY <1>3 DEF HasRun, Acc, Account
  <2>16. ASSUME ~hist.lost, NEW t \in Tickets, runs'[r.run].ticket = t, Lone(t)'
         PROVE  \A j \in DOMAIN queue : queue[j].ticket = t => queue[j].run # 0
    BY <1>1, <1>3, <2>10, <2>16 DEF Acc, Account
  <2>17. r.cmd # "start"
    BY <1>1 DEF Resumes
  <2>18. QED
    BY <1>1, <1>3, <2>4, <2>5, <2>7, <2>10, <2>13, <2>14, <2>15, <2>16, <2>17, QuietKeeps
<1>7. QED
  BY <1>5, <1>6 DEF BackRead

(* cancelRun.                                                               *)
LEMMA CancelledIs ==
  ASSUME Inv, NEW x, x # 0 => x \in DOMAIN runs, runs' = Cancelled(x)
  PROVE  /\ Restates(x)
         /\ \/ runs' = runs /\ (x = 0 \/ runs[x].status \in Finals)
            \/ /\ x # 0
               /\ \/ Executing(x) /\ runs'[x].status = "cancelling"
                  \/ ~Executing(x) /\ runs'[x].status = "cancelled"
<1>1. CASE x = 0 \/ runs[x].status \in Finals
  BY <1>1 DEF Cancelled, Restates, Grows
<1>2. CASE x # 0 /\ runs[x].status \notin Finals /\ Executing(x)
  <2>1. SetStatus(x, "cancelling")
    BY <1>2 DEF Cancelled, SetStatus
  <2>2. QED
    BY <1>2, <2>1, SetStatusIs
<1>3. CASE x # 0 /\ runs[x].status \notin Finals /\ ~Executing(x)
  <2>1. SetStatus(x, "cancelled")
    BY <1>3 DEF Cancelled, SetStatus
  <2>2. QED
    BY <1>3, <2>1, SetStatusIs
<1>4. QED
  BY <1>1, <1>2, <1>3

LEMMA CancelAcc ==
  ASSUME Acc, Inv', NEW c \in Callers, NEW name, Cancel(c, name)
  PROVE  Acc'
<1> DEFINE i == Find(queue, name)
           x == queue[i].run
           e == [queue[i] EXCEPT !.state = "closed"]
           r == [NoRequest EXCEPT !.cmd = "edit", !.run = x, !.name = queue[i].ticket]
           k == Edited(queue, i, e)
<1>1. /\ Inv /\ Alone /\ pc[c] = "idle" /\ req[c].cmd = "none" /\ req[c].run = 0
      /\ \A y : ~Owes(c, y)
  BY IdleOwes DEF Acc, Cancel, Edit, CanIssue
<1>2. i \in DOMAIN queue /\ (x # 0 => x \in DOMAIN runs)
  BY <1>1, FoundIs, EntryOf DEF Cancel
<1>3. PICK Z \in Tickets : queue[i].ticket = Z /\ (x # 0 => runs[x].ticket = Z)
  BY <1>1, <1>2, EntryOf
<1>4. r.cmd = "edit" /\ r.run = x
  BY DEF NoRequest
<1>5. Moves(c, "write", r, k, inner[c])
  BY <1>1, Holds DEF Cancel, Edit, Goto, Moves, Inv, TypeOK
<1>6. /\ hist'.stale = hist.stale /\ hist'.lost = hist.lost /\ hist'.torn = hist.torn
      /\ hist'.forced = hist.forced \cup Meddled(queue[i])
      /\ hist.forced \subseteq hist'.forced
  BY <1>1, IssueKeeps DEF Cancel, Edits
<1>7. e.ticket = Z /\ e.run = x /\ e.state = "closed"
  BY <1>1, <1>2, <1>3, EntryOf DEF Entry
<1>8. DOMAIN k = DOMAIN queue /\ k[i] = e /\ \A j \in DOMAIN queue : j # i => k[j] = queue[j]
  BY <1>1, <1>2, EditedIs
<1>9. /\ Restates(x)
      /\ \/ runs' = runs /\ (x = 0 \/ runs[x].status \in Finals)
         \/ /\ x # 0
            /\ \/ Executing(x) /\ runs'[x].status = "cancelling"
               \/ ~Executing(x) /\ runs'[x].status = "cancelled"
  BY <1>1, <1>2, CancelledIs DEF Cancel
<1>10. queue' = queue /\ label' = label /\ Grows(runs, runs')
  BY <1>9 DEF Cancel, Restates
<1> HIDE DEF r, e, k
<1>11. /\ pc'[c] = "write" /\ req'[c] = r /\ copy'[c] = k
       /\ \A d \in Callers : d # c => pc'[d] = pc[d] /\ req'[d] = req[d]
  BY <1>1, <1>5, After
<1>12. Alone'
  <2>1. \A d \in Callers : PointSound(pc'[d], req'[d])
    <3>1. PointSound("write", r)
      BY <1>4 DEF PointSound, Resumes, NoRequest
    <3>2. QED
      BY <1>1, <1>11, <3>1 DEF Alone
  <2>2. \A d \in Callers : pc'[d] \in Running => d # c /\ pc[d] \in Running /\ req'[d] = req[d]
    BY <1>11 DEF Running
  <2>3. \A y : Executing(y) => Executing(y)'
    <3>1. ASSUME NEW y, Executing(y) PROVE Executing(y)'
      <4>1. PICK d \in Callers : req[d].run = y /\ pc[d] \in Running
        BY <3>1 DEF Executing, Running
      <4>2. d # c
        BY <1>1, <4>1 DEF Running
      <4>3. QED
        BY <1>11, <4>1, <4>2 DEF Executing, Running
    <3>2. QED
      BY <3>1
  <2>4. ASSUME NEW y \in DOMAIN runs', runs'[y].status \in {"running", "cancelling"}
        PROVE  Executing(y)
    BY <1>1, <1>9, <2>4 DEF Restates, Alone
  <2>5. \A t \in Tickets : <<t, "binding">> \in hist'.torn => HasRun(t)'
    BY <1>1, <1>6, <1>10 DEF Alone, HasRun, Grows
  <2>6. \A d, f \in Callers : pc'[d] \in Running /\ pc'[f] \in Running /\ req'[d].run = req'[f].run => d = f
    BY <1>1, <2>2 DEF Alone
  <2>7. \A y \in DOMAIN runs' : runs'[y].status \in {"running", "cancelling"} => Executing(y)'
    BY <2>3, <2>4
  <2>8. QED
    BY <2>1, <2>5, <2>6, <2>7 DEF Alone
<1>13. \A y \in DOMAIN runs' : y \in DOMAIN runs /\ runs'[y].ticket = runs[y].ticket
  BY <1>9 DEF Restates, Grows
<1>14. \A t : HasRun(t)' <=> HasRun(t)
  BY <1>9, <1>13 DEF HasRun, Restates
<1>15. \A d \in Callers : \A t, points : Starts(d, t, points)' <=> Starts(d, t, points)
  BY <1>1, <1>4, <1>11 DEF Starts
(* Nobody was starting the ticket or had the outcome of its run.            *)
<1>16. ASSUME Lone(Z)'
       PROVE  /\ \A d \in Callers : ~Starts(d, Z, {"provision"} \cup Bound)
              /\ ~Unrecorded(x)
  BY <1>3, <1>6, <1>16 DEF Lone, Meddled, InPassing, Starts, Bound
<1>17. ASSUME Lone(Z)'
       PROVE  \A d \in Callers : ~Starts(d, Z, {"provision"}) /\ ~Starts(d, Z, Bound)
                                 /\ ~Starts(d, Z, {"bindRead", "bindWrite"})
  BY <1>16, <1>17 DEF Starts, Bound
<1>18. ASSUME NEW t \in Tickets, t # Z PROVE Steady(c, "write", r, t)
  <2>1. RunsKept(t, runs, runs')
    <3>1. ASSUME NEW y \in DOMAIN runs', runs'[y].ticket = t PROVE y \in DOMAIN runs /\ runs'[y] = runs[y]
      <4>1. y \in DOMAIN runs /\ runs[y].ticket = t
        BY <1>13, <3>1
      <4>2. CASE y = x /\ x # 0
        BY <1>3, <1>18, <4>1, <4>2
      <4>3. CASE y # x
        BY <1>9, <4>1, <4>3 DEF Restates
      <4>4. CASE x = 0
        BY <1>9, <4>1, <4>4
      <4>5. QED
        BY <4>2, <4>3, <4>4
    <3>2. QED
      BY <1>10, <3>1 DEF RunsKept
  <2>2. r.run # 0 => runs'[r.run].ticket # t
    BY <1>2, <1>3, <1>4, <1>13, <1>18, <1>9 DEF Restates
  <2>3. QED
    BY <1>1, <1>4, <2>1, <2>2, OtherSteady
<1>19. ASSUME ~hist.lost, Lone(Z)'
       PROVE  /\ Lone(Z) /\ Modest(c, Z) /\ LoneSound(Z)'
              /\ Accounts(e, Used', Begun', ToName', Wrong(Callers \ {c})')
  <2>1. Lone(Z) /\ LoneSound(Z)
    <3>1. Lone(Z)
      BY <1>6, <1>10, <1>19, StillLone, ExtendsItself
    <3>2. QED
      BY <1>19, <3>1 DEF Acc, Account
  <2>2. x # 0 => \A y \in DOMAIN runs' : runs'[y].ticket = Z => y = x
    BY <1>2, <1>3, <1>13, <2>1 DEF LoneSound
  <2>3. Accounts(queue[i], Used, Begun, ToName, Wrong(Callers))
    BY <1>2, <1>19 DEF Acc, Account, AllAccount
(* The run may have ended, or there was none.                               *)
  <2>4. ASSUME runs' = runs, x = 0 \/ runs[x].status \in Finals
        PROVE  Modest(c, Z) /\ LoneSound(Z)' /\ Z \notin Begun'
    <3>1. Steady(c, "write", r, Z)
      <4>1. NoFurther(c, "write", r, Z)
        BY <1>4, <1>17, <1>19 DEF NoFurther, Running
      <4>2. QED
        BY <1>1, <2>4, <4>1 DEF Steady, RunsKept, Starts, Grows
    <3>2. Modest(c, Z) /\ LoneSound(Z)'
      BY <1>5, <1>6, <1>10, <1>19, <3>1, QuietSteady
    <3>3. ASSUME NEW d \in Callers, Starts(d, Z, {"executing"}), runs[req[d].run].status = "running"
          PROVE  FALSE
      <4>1. req[d].run \in DOMAIN runs /\ runs[req[d].run].ticket = Z
        BY <1>1, <3>3, RunOf DEF Starts, Running
      <4>2. CASE x # 0
        BY <2>2, <2>4, <3>3, <4>1, <4>2 DEF Finals
      <4>3. CASE x = 0
        <5>1. Z \notin ToName
          BY <1>3, <2>3, <4>3 DEF Accounts
        <5>2. HasRun(Z)
          BY <4>1 DEF HasRun
        <5>3. <<Z, "binding">> \in hist.torn
          BY <1>17, <1>19, <2>1, <5>1, <5>2, <1>3 DEF ToName
        <5>4. Starts(d, Z, Past)
          BY <3>3 DEF Starts, Past, Running
        <5>5. QED
          BY <2>1, <5>3, <5>4 DEF LoneSound
      <4>4. QED
        BY <4>2, <4>3
    <3>4. Z \notin Begun
      BY <1>16, <1>19, <3>3 DEF Begun
    <3>5. QED
      BY <3>2, <3>4 DEF Modest
(* Or it is cancelled now.                                                  *)
  <2>5. ASSUME x # 0, runs'[x].status \in {"cancelling", "cancelled"},
               runs'[x].status = "cancelled" => ~Executing(x)
        PROVE  Modest(c, Z) /\ LoneSound(Z)' /\ Z \notin Begun'
    <3>1. Z \in Used
      BY <1>2, <1>3, <2>1, <2>5 DEF Used, HasRun
    <3>2. ASSUME NEW d \in Callers, pc'[d] \in Running \cup {"backRead"}, runs'[req'[d].run].ticket = Z
          PROVE  req'[d].run = x
      <4>1. req'[d].run \in DOMAIN runs'
        BY <3>2, RunThen
      <4>2. QED
        BY <2>2, <2>5, <3>2, <4>1
    <3>3. \A d \in Callers : Starts(d, Z, {"executing"})' => runs'[req'[d].run].status # "running"
      <4>1. ASSUME NEW d \in Callers, Starts(d, Z, {"executing"})' PROVE runs'[req'[d].run].status # "running"
        <5>1. pc'[d] \in Running /\ runs'[req'[d].run].ticket = Z
          BY <4>1, RunThen DEF Starts, Running
        <5>2. QED
          BY <2>5, <3>2, <5>1
      <4>2. QED
        BY <4>1
    <3>4. Z \notin Begun'
      BY <1>15, <1>16, <1>19, <3>3 DEF Begun
    <3>5. Z \in ToName' => Z \in ToName
      BY <1>6, <1>14, <1>15, <2>1 DEF ToName
    <3>6. ASSUME NEW O \in SUBSET Callers, c \in O, NEW st PROVE <<Z, st>> \notin Wrong(O)'
      BY <1>4, <1>11, <2>2, <2>5, <3>6 DEF Wrong, Owes
    <3>7. Modest(c, Z)
      BY <3>1, <3>4, <3>5, <3>6 DEF Modest
    <3>8. ASSUME NEW d \in Callers, pc'[d] = "backRead", runs'[req'[d].run].ticket = Z PROVE FALSE
      <4>1. d # c /\ pc[d] = "backRead" /\ req[d].run = x
        BY <1>11, <3>2, <3>8
      <4>2. QED
        BY <1>16, <1>19, <4>1 DEF Unrecorded
    <3>9. ASSUME NEW d \in Callers, pc'[d] \in Running, runs'[req'[d].run].ticket = Z
          PROVE  runs'[req'[d].run].status = "cancelling"
      <4>1. d # c /\ pc[d] \in Running /\ req[d].run = x /\ req'[d].run = x
        BY <1>11, <3>2, <3>9 DEF Running
      <4>2. Executing(x)
        BY <4>1 DEF Executing, Running
      <4>3. QED
        BY <2>5, <4>1, <4>2
    <3>10. ASSUME NEW d \in Callers, NEW f \in Callers, Starts(d, Z, Running)', req'[f].run = req'[d].run
           PROVE  pc'[f] # "backRead" /\ (pc'[f] = "write" => req'[f].cmd = "edit")
      <4>1. CASE f = c
        BY <1>4, <1>11, <4>1
      <4>2. CASE f # c
        <5>1. Starts(d, Z, Running) /\ d # c
          BY <1>11, <1>15, <3>10 DEF Starts, Running
        <5>2. req[f].run = req[d].run /\ pc'[f] = pc[f] /\ req'[f] = req[f]
          BY <1>11, <3>10, <4>2, <5>1
        <5>3. QED
          BY <2>1, <5>1, <5>2 DEF LoneSound
      <4>3. QED
        BY <4>1, <4>2
    <3>11. \A d \in Callers : ~Starts(d, Z, Bound)' /\ ~Starts(d, Z, {"provision"})'
      BY <1>15, <1>17, <1>19
    <3>12. \A d \in Callers : Starts(d, Z, Past)' => <<Z, "binding">> \notin hist'.torn
      BY <1>6, <1>15, <2>1 DEF LoneSound
    <3>13. \A d, f \in Callers : Starts(d, Z, Past)' /\ Starts(f, Z, Past)' => d = f
      BY <1>15, <2>1 DEF LoneSound
    <3>14. LoneSound(Z)'
      BY <2>2, <2>5, <3>8, <3>9, <3>10, <3>11, <3>12, <3>13 DEF LoneSound
    <3>15. QED
      BY <3>4, <3>7, <3>14
  <2>6. Modest(c, Z) /\ LoneSound(Z)' /\ Z \notin Begun'
    BY <1>9, <2>4, <2>5
  <2>7. ASSUME NEW st, <<Z, st>> \in Wrong(Callers \ {c})', x # 0 PROVE st # "closed"
    <3>1. PICK y \in DOMAIN runs' : /\ runs'[y].ticket = Z /\ st \notin Shows(runs'[y].status)
                                    /\ \A d \in Callers \ {c} : ~Owes(d, y)'
      BY <2>7 DEF Wrong
    <3>2. y = x /\ runs'[x].status \in Statuses
      BY <2>2, <2>7, <3>1, StatusThen
    <3>3. CASE runs'[x].status \in Finals
      BY <3>1, <3>2, <3>3, StateTells
    <3>4. CASE runs'[x].status \notin Finals
      <4>1. Executing(x)
        BY <1>9, <2>7, <3>4 DEF Finals
      <4>2. PICK d \in Callers : req[d].run = x /\ pc[d] \in Running
        BY <4>1 DEF Executing, Running
      <4>3. d # c /\ pc'[d] \in Running /\ req'[d].run = x
        BY <1>1, <1>11, <4>2 DEF Running
      <4>4. QED
        BY <3>1, <3>2, <4>3 DEF Owes, Running
    <3>5. QED
      BY <3>3, <3>4
  <2>8. Z \in ToName' => x # 0
    BY <1>3, <2>3, <2>6 DEF Modest, Accounts
  <2>9. "closed" \notin Startable
    BY DEF Startable
  <2>10. QED
    BY <1>7, <2>1, <2>6, <2>7, <2>8, <2>9 DEF Accounts
<1>20. ASSUME ~hist.lost, NEW t \in Tickets, Lone(t)' PROVE Lone(t) /\ Modest(c, t) /\ LoneSound(t)'
  <2>1. CASE t = Z
    BY <1>19, <1>20, <2>1
  <2>2. CASE t # Z
    BY <1>5, <1>6, <1>10, <1>18, <1>20, <2>2, QuietSteady
  <2>3. QED
    BY <2>1, <2>2
<1>21. ASSUME ~hist.lost, NEW j \in DOMAIN queue
       PROVE  Accounts(k[j], Used', Begun', ToName', Wrong(Callers \ {c})')
  <2>1. PICK t \in Tickets : queue[j].ticket = t /\ k[j].ticket = t
    BY <1>1, <1>3, <1>7, <1>8, EntryOf
  <2>2. CASE ~Lone(t)'
    BY <2>1, <2>2, NotLone
  <2>3. CASE Lone(t)' /\ t = Z
    <3>1. j = i
      BY <1>2, <1>3, <1>10, <2>1, <2>3 DEF Lone, Once
    <3>2. QED
      BY <1>8, <1>19, <1>21, <2>3, <3>1
  <2>4. CASE Lone(t)' /\ t # Z
    <3>1. Accounts(queue[j], Used', Begun', ToName', Wrong(Callers \ {c})')
      BY <1>1, <1>5, <1>6, <1>18, <1>20, <1>21, <2>1, <2>4, OwnAccounts
    <3>2. k[j] = queue[j]
      BY <1>3, <1>8, <2>1, <2>4
    <3>3. QED
      BY <3>1, <3>2
  <2>5. QED
    BY <2>2, <2>3, <2>4
<1>22. ~hist.lost => CopySound(c)'
  <2>1. Extends(queue, k) /\ Keeps(queue, k)
    BY <1>3, <1>7, <1>8 DEF Extends, Keeps
  <2>2. ~hist.lost => AllAccount(queue, k, Used', Begun', ToName', Wrong(Callers \ {c})')
    BY <1>21 DEF AllAccount
  <2>3. QED
    BY <1>4, <1>10, <1>11, <2>1, <2>2 DEF CopySound
<1>23. InnerSound(c)'
  BY <1>11 DEF InnerSound
<1>24. ~hist.lost => \A t \in Tickets : HasRun(t)' => InQueue(t)
  BY <1>14 DEF Acc, Account
<1>25. r.cmd # "start" /\ r.cmd \notin Resumes
  BY <1>4 DEF Resumes
<1>26. QED
  BY <1>1, <1>5, <1>6, <1>10, <1>12, <1>20, <1>22, <1>23, <1>24, <1>25, QuietKeeps

-----------------------------------------------------------------------------
(* The steps that write the queue                                           *)

LEMMA PutIs ==
  ASSUME Inv, NEW c \in Callers, NEW where, NEW q, Put(c, where, q)
  PROVE  /\ queue' = q /\ hist'.torn = hist.torn /\ hist'.forced = hist.forced
         /\ ~hist.lost => \A d \in Callers : \A w : Fresh(d, w)' =>
                            Fresh(d, w) \/ (d = c /\ w = where)
<1>1. hist \in History
  BY DEF Inv, TypeOK
<1>2. QED
  BY <1>1 DEF Put, Fresh, History

(* The write asks nothing more of a ticket but that the run be named.       *)
LEMMA PutSteady ==
  ASSUME Acc, ~hist.lost, Inv', NEW c \in Callers, NEW p, NEW r, NEW k, NEW n, Moves(c, p, r, k, n),
         NEW where, NEW q, Put(c, where, q), runs' = runs, Extends(queue, q),
         NEW t \in Tickets, Lone(t)', NoFurther(c, p, r, t)
  PROVE  /\ Lone(t) /\ LoneSound(t)'
         /\ t \in Used' => t \in Used
         /\ t \in Begun' => t \in Begun
         /\ t \in ToName' => t \in ToName \/ Starts(c, t, {"bindRead", "bindWrite"})
         /\ \A O \in SUBSET Callers : \A st : <<t, st>> \in Wrong(O)' => <<t, st>> \in Wrong(O \ {c})
<1>1. queue' = q /\ hist'.torn = hist.torn /\ hist'.forced = hist.forced
  BY PutIs DEF Acc
<1>2. Lone(t)
  BY <1>1, StillLone
<1>3. RunsKept(t, runs, runs')
  BY DEF RunsKept, Grows
<1>4. LoneSound(t)'
  BY <1>1, <1>2, <1>3, SteadyLone
<1>5. /\ t \in Used' => t \in Used
      /\ t \in Begun' => t \in Begun
      /\ t \in ToName' => t \in ToName \/ Starts(c, t, {"bindRead", "bindWrite"})
      /\ \A O \in SUBSET Callers : \A st : <<t, st>> \in Wrong(O)' => <<t, st>> \in Wrong(O \ {c})
  BY <1>1, <1>2, <1>3, SteadyDemands
<1>6. QED
  BY <1>2, <1>4, <1>5

(* A copy that answers for its writer, who is then done with the ticket.    *)
LEMMA PutCopyAcc ==
  ASSUME Acc, Inv', NEW c \in Callers, NEW p \in {"idle", "startRead"}, NEW r, NEW k, NEW n,
         Moves(c, p, r, k, n), Put(c, "copy", copy[c]), UNCHANGED <<label, runs>>,
         pc[c] \in {"write", "startBack"}, PointSound(p, r), r.run = 0,
         r.cmd \in {"none", "start"}, r.cmd = "start" => p = "startRead"
  PROVE  Acc'
<1> DEFINE q == copy[c]
<1>1. Inv /\ Alone /\ PointSound(pc[c], req[c])
  BY DEF Acc, Alone
<1>2. /\ pc'[c] = p /\ req'[c] = r
      /\ \A d \in Callers : d # c => pc'[d] = pc[d] /\ req'[d] = req[d]
  BY <1>1, After
<1>3. queue' = q /\ hist'.torn = hist.torn /\ hist'.forced = hist.forced
  BY <1>1, PutIs
<1>4. Alone'
  BY <1>3, AloneKept DEF Grows, Running
<1>5. ASSUME NEW t PROVE NoFurther(c, p, r, t) /\ ~Starts(c, t, {"bindRead", "bindWrite"})
  BY DEF NoFurther, Starts, Past, Bound, Running
<1>6. ~HoldsCopy(c)'
  BY <1>2 DEF HoldsCopy
<1>7. ASSUME ~hist.lost, Fresh(c, "copy")
      PROVE  /\ Extends(queue, q)
             /\ \A t \in Tickets : Lone(t)' =>
                  /\ LoneSound(t)'
                  /\ \A i \in DOMAIN queue : queue[i].ticket = t /\ queue[i].run # 0 => q[i].run # 0
             /\ \A t \in Used' : InQueue(t)
             /\ AllAccount(queue, q, Used', Begun', ToName', Wrong(Callers)')
             /\ \A t \in Tickets : Claiming(c, t) => \E i \in DOMAIN q : q[i].ticket = t
  <2>1. Account /\ CopySound(c) /\ HoldsCopy(c)
    <3>1. pc[c] = "startBack" => req[c].cmd = "start"
      BY <1>1, Holds DEF CallSound
    <3>2. QED
      BY <1>7, <3>1 DEF Acc, Account, HoldsCopy
  <2>2. /\ Extends(queue, q)
        /\ AllAccount(queue, q, Used, Begun, ToName, Wrong(Callers \ {c}))
        /\ req[c].cmd # "start" => Keeps(queue, q)
        /\ req[c].cmd = "start" => pc[c] = "startBack" /\ Same(queue, q, req[c].name)
    <3>1. req[c].cmd = "start" => pc[c] = "startBack"
      BY <1>1 DEF PointSound, Started, Running
    <3>2. QED
      BY <1>7, <2>1, <3>1 DEF CopySound
  <2>3. ASSUME NEW t \in Tickets, Lone(t)'
        PROVE  /\ Lone(t) /\ LoneSound(t)'
               /\ t \in Used' => t \in Used
               /\ t \in Begun' => t \in Begun
               /\ t \in ToName' => t \in ToName
               /\ \A st : <<t, st>> \in Wrong(Callers)' => <<t, st>> \in Wrong(Callers \ {c})
    <3>1. NoFurther(c, p, r, t) /\ ~Starts(c, t, {"bindRead", "bindWrite"})
      BY <1>5
    <3>2. Callers \in SUBSET Callers
      OBVIOUS
    <3>3. QED
      BY <1>7, <2>2, <2>3, <3>1, <3>2, PutSteady
  <2>4. Used' \subseteq Used
    BY <2>3 DEF Used
  <2>5. ASSUME NEW j \in DOMAIN queue PROVE Accounts(q[j], Used', Begun', ToName', Wrong(Callers)')
    <3>1. PICK t \in Tickets : queue[j].ticket = t /\ q[j].ticket = t
      BY <1>1, <2>2, EntryOf DEF Extends
    <3>2. CASE ~Lone(t)'
      BY <3>1, <3>2, NotLone
    <3>3. CASE Lone(t)'
      <4>1. Accounts(q[j], Used, Begun, ToName, Wrong(Callers \ {c}))
        BY <2>2 DEF AllAccount
      <4>2. QED
        BY <2>3, <3>1, <3>3, <4>1 DEF Accounts
    <3>4. QED
      BY <3>2, <3>3
  <2>6. ASSUME NEW t \in Tickets, Lone(t)', NEW i \in DOMAIN queue, queue[i].ticket = t, queue[i].run # 0
        PROVE  q[i].run # 0
    <3>1. CASE req[c].cmd # "start"
      BY <2>2, <2>6, <3>1 DEF Keeps
    <3>2. CASE req[c].cmd = "start" /\ req[c].name # t
      BY <2>2, <2>6, <3>2 DEF Same
    <3>3. CASE req[c].cmd = "start" /\ req[c].name = t
      <4>1. Lone(t) /\ LoneSound(t) /\ Starts(c, t, Past) /\ pc[c] = "startBack"
        BY <2>1, <2>2, <2>3, <2>6, <3>3 DEF Account, Starts, Past
      <4>2. HasRun(t)
        BY <1>1, <2>6, EntryOf DEF HasRun
      <4>3. \A d \in Callers : ~Starts(d, t, {"bindRead", "bindWrite"})
        BY <4>1 DEF LoneSound, Starts, Past, Bound
      <4>4. <<t, "binding">> \notin hist.torn
        BY <4>1 DEF LoneSound
      <4>5. t \in ToName
        BY <4>1, <4>2, <4>3, <4>4 DEF ToName
      <4>6. Accounts(q[i], Used, Begun, ToName, Wrong(Callers \ {c})) /\ q[i].ticket = t
        BY <2>2, <2>6 DEF AllAccount, Extends
      <4>7. QED
        BY <4>5, <4>6 DEF Accounts
    <3>4. QED
      BY <3>1, <3>2, <3>3
  <2>7. \A t \in Used' : InQueue(t)
    BY <2>1, <2>4, UsedIsQueued
  <2>8. AllAccount(queue, q, Used', Begun', ToName', Wrong(Callers)')
    BY <2>5 DEF AllAccount
  <2>9. QED
    BY <2>2, <2>3, <2>6, <2>7, <2>8 DEF Claiming
<1>8. CopySound(c)'
  BY <1>6 DEF CopySound
<1>9. r.cmd \notin Resumes /\ p \notin {"bindWrite", "publishWrite"} \cup Past \cup {"startWrite"}
  BY DEF Resumes, Past, Bound, Running
<1> HIDE DEF q
<1>10. QED
  BY <1>4, <1>7, <1>8, <1>9, PutKeeps DEF q

LEMMA WriteAcc ==
  ASSUME Acc, Inv', NEW c \in Callers, Write(c)
  PROVE  Acc'
<1>1. Moves(c, "idle", NoRequest, <<>>, inner[c])
  BY Holds DEF Acc, Write, Done, Goto, Moves
<1>2. PointSound("idle", NoRequest) /\ NoRequest.run = 0 /\ NoRequest.cmd = "none"
  BY DEF PointSound, NoRequest, Resumes
<1>3. QED
  BY <1>1, <1>2, PutCopyAcc DEF Write

LEMMA StartBackAcc ==
  ASSUME Acc, Inv', NEW c \in Callers, StartBack(c)
  PROVE  Acc'
<1> DEFINE r == [NoRequest EXCEPT !.cmd = "start"]
<1>1. CASE Done(c)
  <2>1. Moves(c, "idle", NoRequest, <<>>, inner[c])
    BY <1>1, Holds DEF Acc, StartBack, Done, Goto, Moves
  <2>2. PointSound("idle", NoRequest) /\ NoRequest.run = 0 /\ NoRequest.cmd = "none"
    BY DEF PointSound, NoRequest, Resumes
  <2>3. QED
    BY <2>1, <2>2, PutCopyAcc DEF StartBack
<1>2. CASE /\ Goto(c, "startRead") /\ req' = [req EXCEPT ![c] = r]
           /\ copy' = [copy EXCEPT ![c] = <<>>]
  <2>1. Moves(c, "startRead", r, <<>>, inner[c])
    BY <1>2, Holds DEF Acc, StartBack, Goto, Moves
  <2>2. r.run = 0 /\ r.cmd = "start"
    BY DEF NoRequest
  <2> HIDE DEF r
  <2>3. PointSound("startRead", r)
    BY <2>2 DEF PointSound, Resumes
  <2>4. QED
    BY <2>1, <2>2, <2>3, PutCopyAcc DEF StartBack
<1>3. QED
  BY <1>1, <1>2 DEF StartBack

LEMMA InnerWriteAcc ==
  ASSUME Acc, Inv', NEW c \in Callers, NEW from, NEW to, InnerWrite(c, from, to),
         \/ from = "bindWrite" /\ to = "setup"
         \/ from = "publishWrite" /\ to = "published"
  PROVE  Acc'
<1> DEFINE q == inner[c]
           r == req[c]
           x == req[c].run
<1>1. /\ Inv /\ Alone /\ pc[c] = from /\ PointSound(from, r)
      /\ (from \in Bound /\ to \in Bound) \/ (from \in Running /\ to \in Running)
      /\ from \notin {"idle", "resuming", "write"} /\ to \notin {"idle", "resuming", "write"}
      /\ from \in {"bindWrite", "publishWrite"}
  BY DEF Acc, Alone, InnerWrite, Bound, Running
<1>2. /\ x \in DOMAIN runs /\ x # 0 /\ (r.cmd = "start" => runs[x].ticket = r.name)
      /\ from = "bindWrite" => r.cmd = "start"
  <2>1. from = "bindWrite" => r.cmd = "start"
    BY <1>1, Holds DEF CallSound, Started
  <2>2. QED
    BY <1>1, <2>1, RunOf
<1>3. PICK Z \in Tickets : runs[x].ticket = Z
  BY <1>1, <1>2, StatusOf
<1>4. Moves(c, to, r, copy[c], <<>>)
  BY <1>1, Holds DEF InnerWrite, Goto, Moves, Inv, TypeOK
<1>5. Put(c, "inner", q) /\ label' = label /\ runs' = runs
  BY DEF InnerWrite
<1>6. /\ queue' = q /\ hist'.torn = hist.torn /\ hist'.forced = hist.forced
      /\ ~hist.lost => \A d \in Callers : \A w : Fresh(d, w)' =>
                         Fresh(d, w) \/ (d = c /\ w = "inner")
  BY <1>1, <1>5, PutIs
<1> HIDE DEF q
<1>7. /\ pc'[c] = to /\ req'[c] = r /\ copy'[c] = copy[c]
      /\ \A d \in Callers : d # c => pc'[d] = pc[d] /\ req'[d] = req[d]
  BY <1>1, <1>4, After
<1>8. PointSound(to, r)
  BY <1>1, <1>2 DEF PointSound, Started, Bound, Running, Resumes
<1>9. Alone'
  BY <1>1, <1>4, <1>5, <1>6, <1>8, AloneKept DEF Grows, Bound, Running
<1>10. ASSUME NEW t PROVE NoFurther(c, to, r, t)
  BY <1>1 DEF NoFurther, Starts, Past, Bound, Running
<1>11. \A d, y : Owes(d, y)' <=> Owes(d, y)
  <2>1. ASSUME NEW d, NEW y PROVE Owes(d, y)' <=> Owes(d, y)
    BY <1>1, <1>4 DEF Owes, Moves, Inv, TypeOK
  <2>2. QED
    BY <2>1
<1>12. ASSUME ~hist.lost, Fresh(c, "inner")
       PROVE  /\ Extends(queue, q)
              /\ \A t \in Tickets : Lone(t)' =>
                   /\ LoneSound(t)'
                   /\ \A i \in DOMAIN queue : queue[i].ticket = t /\ queue[i].run # 0 => q[i].run # 0
              /\ \A t \in Used' : InQueue(t)
              /\ AllAccount(queue, q, Used', Begun', ToName', Wrong(Callers)')
              /\ CopySound(c)'
              /\ r.cmd = "start" => r.at \in DOMAIN queue /\ queue[r.at].ticket = r.name
  <2>1. Account /\ InnerSound(c)
    BY <1>12 DEF Acc, Account
  <2>2. /\ Extends(queue, q) /\ Keeps(queue, q) /\ Same(queue, q, Z)
        /\ AllAccount(queue, q, Used, Begun, ToName, Wrong(Callers))
        /\ from = "bindWrite" /\ Lone(r.name) =>
             \A i \in DOMAIN queue : queue[i].ticket = r.name => q[i].run # 0
    BY <1>1, <1>3, <1>12, <2>1 DEF InnerSound, q
  <2>3. ASSUME NEW t \in Tickets, Lone(t)'
        PROVE  /\ Lone(t) /\ LoneSound(t)'
               /\ t \in Used' => t \in Used
               /\ t \in Begun' => t \in Begun
               /\ t \in ToName' => t \in ToName \/ Starts(c, t, {"bindRead", "bindWrite"})
    BY <1>4, <1>5, <1>10, <1>12, <2>2, <2>3, PutSteady
  <2>4. \A t \in Tickets : \A st : <<t, st>> \in Wrong(Callers)' => <<t, st>> \in Wrong(Callers)
    BY <1>5, <1>6, <1>11, <2>3 DEF Wrong
  <2>5. Used' \subseteq Used
    BY <2>3 DEF Used
  <2>6. ASSUME NEW j \in DOMAIN queue PROVE Accounts(q[j], Used', Begun', ToName', Wrong(Callers)')
    <3>1. PICK t \in Tickets : queue[j].ticket = t /\ q[j].ticket = t
      BY <1>1, <2>2, EntryOf DEF Extends
    <3>2. CASE ~Lone(t)'
      BY <3>1, <3>2, NotLone
    <3>3. CASE Lone(t)'
      <4>1. Accounts(q[j], Used, Begun, ToName, Wrong(Callers))
        BY <2>2 DEF AllAccount
      <4>2. Starts(c, t, {"bindRead", "bindWrite"}) => q[j].run # 0
        <5>1. ASSUME Starts(c, t, {"bindRead", "bindWrite"}) PROVE q[j].run # 0
          <6>1. from = "bindWrite" /\ r.name = t
            BY <1>1, <5>1 DEF Starts
          <6>2. QED
            BY <2>2, <2>3, <3>1, <3>3, <6>1
        <5>2. QED
          BY <5>1
      <4>3. QED
        BY <2>3, <2>4, <3>1, <3>3, <4>1, <4>2 DEF Accounts
    <3>4. QED
      BY <3>2, <3>3
  <2>7. \A t \in Used' : InQueue(t)
    BY <2>1, <2>5, UsedIsQueued
  <2>8. AllAccount(queue, q, Used', Begun', ToName', Wrong(Callers)')
    BY <2>6 DEF AllAccount
  <2>9. CopySound(c)'
    <3>1. CASE r.cmd = "start"
      <4>1. ASSUME Fresh(c, "copy")' PROVE Extends(q, copy[c]) /\ Same(q, copy[c], r.name)
        <5>1. Fresh(c, "copy") /\ HoldsCopy(c) /\ CopySound(c)
          BY <1>1, <1>6, <1>12, <2>1, <3>1, <4>1 DEF HoldsCopy, Account
        <5>2. Extends(queue, copy[c]) /\ Same(queue, copy[c], r.name)
          BY <3>1, <5>1 DEF CopySound
        <5>3. Z = r.name
          BY <1>2, <1>3, <3>1
        <5>4. QED
          BY <2>2, <5>2, <5>3 DEF Extends, Same
      <4>2. to \notin {"startBack", "startWrite"}
        OBVIOUS
      <4>3. QED
        BY <1>6, <1>7, <3>1, <4>1, <4>2 DEF CopySound
    <3>2. CASE r.cmd # "start"
      BY <1>2, <1>7, <3>2 DEF CopySound, HoldsCopy
    <3>3. QED
      BY <3>1, <3>2
  <2>10. r.cmd = "start" => r.at \in DOMAIN queue /\ queue[r.at].ticket = r.name
    BY <1>1, <2>1 DEF Account, Past
  <2>11. QED
    BY <2>2, <2>3, <2>6, <2>7, <2>8, <2>9, <2>10 DEF Keeps
<1>13. \A t : ~Claiming(c, t)
  BY <1>1 DEF Claiming
<1>14. to \notin {"bindWrite", "publishWrite"}
  OBVIOUS
<1>15. QED
  BY <1>4, <1>5, <1>9, <1>12, <1>13, <1>14, PutKeeps

LEMMA StartWriteAcc ==
  ASSUME Acc, Inv', NEW c \in Callers, StartWrite(c)
  PROVE  Acc'
<1> DEFINE q == copy[c]
           r == req[c]
           at == req[c].at
<1>1. /\ Inv /\ Alone /\ pc[c] = "startWrite" /\ r.cmd = "start" /\ r.run = 0
      /\ r.name \in Tickets /\ r \in Request
  <2>1. Inv /\ Alone /\ pc[c] = "startWrite" /\ PointSound(pc[c], r)
    BY DEF Acc, Alone, StartWrite
  <2>2. QED
    BY <2>1, Holds DEF PointSound, CallSound, StartSound, Started
<1> PICK Z \in Tickets : r.name = Z
  BY <1>1
<1>2. Moves(c, "provision", r, q, inner[c])
  BY <1>1, Holds DEF StartWrite, Goto, Moves, Inv, TypeOK
<1>3. Put(c, "copy", q) /\ label' = label /\ runs' = runs
  BY DEF StartWrite
<1>4. queue' = q /\ hist'.torn = hist.torn /\ hist'.forced = hist.forced
  BY <1>1, <1>3, PutIs
<1>5. /\ pc'[c] = "provision" /\ req'[c] = r /\ copy'[c] = q
      /\ \A d \in Callers : d # c => pc'[d] = pc[d] /\ req'[d] = req[d]
  BY <1>1, <1>2, After
<1>6. PointSound("provision", r)
  BY <1>1 DEF PointSound, Started, Resumes
<1>7. Alone'
  BY <1>1, <1>2, <1>3, <1>4, <1>6, AloneKept DEF Grows, Running
<1>8. \A d, y : Owes(d, y)' <=> Owes(d, y)
  <2>1. ASSUME NEW d, NEW y PROVE Owes(d, y)' <=> Owes(d, y)
    BY <1>1, <1>2 DEF Owes, Moves, Inv, TypeOK
  <2>2. QED
    BY <2>1
<1>9. ASSUME ~hist.lost, Fresh(c, "copy")
      PROVE  /\ Extends(queue, q)
             /\ \A t \in Tickets : Lone(t)' =>
                  /\ LoneSound(t)'
                  /\ \A i \in DOMAIN queue : queue[i].ticket = t /\ queue[i].run # 0 => q[i].run # 0
             /\ \A t \in Used' : InQueue(t)
             /\ AllAccount(queue, q, Used', Begun', ToName', Wrong(Callers)')
             /\ at \in DOMAIN queue /\ queue[at].ticket = Z
  <2>1. Account /\ CopySound(c) /\ HoldsCopy(c)
    BY <1>1, <1>9 DEF Acc, Account, HoldsCopy
  <2>2. /\ Extends(queue, q) /\ queue[at].state \in Startable
        /\ q = [queue EXCEPT ![at].state = "running"]
    BY <1>1, <1>9, <2>1 DEF CopySound
  <2>3. at \in DOMAIN queue /\ queue[at].ticket = Z
    BY <1>1, <2>1 DEF Account
  <2>4. queue[at] \in Entry /\ queue \in Seq(Entry)
    BY <1>1, <2>3, EntryOf DEF Inv, TypeOK
  <2>5. /\ DOMAIN q = DOMAIN queue /\ \A j \in DOMAIN queue : j # at => q[j] = queue[j]
        /\ q[at] = [queue[at] EXCEPT !.state = "running"]
    BY <2>2, <2>3, <2>4
  <2>6. q[at].state = "running" /\ q[at].ticket = Z /\ q[at].run = queue[at].run
    BY <2>3, <2>4, <2>5 DEF Entry
  <2>7. ASSUME NEW t, Lone(t)' PROVE Lone(t)
    BY <1>4, <2>2, <2>7, StillLone
(* Nobody has started the ticket.                                           *)
  <2>8. ASSUME Lone(Z)'
        PROVE  /\ ~HasRun(Z) /\ \A d \in Callers : ~Starts(d, Z, Past)
               /\ <<Z, "binding">> \notin hist.torn
    <3>1. Accounts(queue[at], Used, Begun, ToName, Wrong(Callers))
      BY <2>1, <2>3 DEF Account, AllAccount
    <3>2. Z \notin Used
      BY <2>2, <2>3, <3>1 DEF Accounts
    <3>3. ~HasRun(Z) /\ \A d \in Callers : ~Starts(d, Z, Past)
      BY <1>1, <2>7, <2>8, <3>2 DEF Used
    <3>4. QED
      BY <1>1, <3>3 DEF Alone
  <2>9. ASSUME Lone(Z)' PROVE LoneSound(Z)' /\ ~HasRun(Z)'
    <3>1. ~HasRun(Z)'
      BY <1>3, <2>8, <2>9 DEF HasRun
    <3>2. \A d \in Callers : Starts(d, Z, Past)' => d = c
      BY <1>5, <2>8, <2>9 DEF Starts
    <3>3. \A d \in Callers : ~Starts(d, Z, Bound)' /\ ~Starts(d, Z, Running)'
      <4>1. \A d \in Callers : ~Starts(d, Z, Bound) /\ ~Starts(d, Z, Running)
        BY <2>8, <2>9 DEF Starts, Past
      <4>2. QED
        BY <1>5, <4>1 DEF Starts, Bound, Running
    <3>4. \A d \in Callers : pc'[d] \in Running \cup {"backRead"} => runs'[req'[d].run].ticket # Z
      BY <3>1, RunThen DEF HasRun
    <3>5. <<Z, "binding">> \notin hist'.torn
      BY <1>4, <2>8, <2>9
    <3>6. \A y \in DOMAIN runs' : runs'[y].ticket # Z
      BY <3>1 DEF HasRun
    <3>7. LoneSound(Z)'
      BY <3>1, <3>2, <3>3, <3>4, <3>5, <3>6 DEF LoneSound
    <3>8. QED
      BY <3>1, <3>7
  <2>10. ASSUME NEW t \in Tickets, Lone(t)', t # Z
         PROVE  /\ LoneSound(t)'
                /\ t \in Used' => t \in Used
                /\ t \in Begun' => t \in Begun
                /\ t \in ToName' => t \in ToName
    <3>1. NoFurther(c, "provision", r, t)
      BY <1>1, <2>10 DEF NoFurther, Starts, Running
    <3>2. ~Starts(c, t, {"bindRead", "bindWrite"})
      BY <1>1 DEF Starts
    <3>3. QED
      BY <1>2, <1>3, <1>9, <2>2, <2>10, <3>1, <3>2, PutSteady
  <2>11. \A t \in Tickets : \A st : <<t, st>> \in Wrong(Callers)' => <<t, st>> \in Wrong(Callers)
    BY <1>3, <1>4, <1>8, <2>7 DEF Wrong
  <2>12. ASSUME NEW j \in DOMAIN queue PROVE Accounts(q[j], Used', Begun', ToName', Wrong(Callers)')
    <3>1. PICK t \in Tickets : queue[j].ticket = t /\ q[j].ticket = t
      BY <1>1, <2>2, EntryOf DEF Extends
    <3>2. CASE ~Lone(t)'
      BY <3>1, <3>2, NotLone
    <3>3. CASE Lone(t)' /\ t = Z
      <4>1. j = at
        BY <2>3, <2>7, <3>1, <3>3 DEF Lone, Once
      <4>2. Z \notin ToName' /\ \A st : <<Z, st>> \notin Wrong(Callers)'
        BY <2>9, <3>3 DEF ToName, Wrong, HasRun
      <4>3. "running" \notin Startable
        BY DEF Startable
      <4>4. QED
        BY <2>6, <4>1, <4>2, <4>3 DEF Accounts
    <3>4. CASE Lone(t)' /\ t # Z
      <4>1. Accounts(queue[j], Used, Begun, ToName, Wrong(Callers)) /\ q[j] = queue[j]
        BY <2>1, <2>3, <2>5, <3>1, <3>4 DEF Account, AllAccount
      <4>2. QED
        BY <2>10, <2>11, <3>1, <3>4, <4>1 DEF Accounts
    <3>5. QED
      BY <3>2, <3>3, <3>4
  <2>13. \A t \in Used' : InQueue(t)
    <3>1. ASSUME NEW t \in Used' PROVE InQueue(t)
      <4>1. t \in Tickets /\ Lone(t)'
        BY <3>1 DEF Used
      <4>2. CASE t = Z
        BY <2>3, <4>2 DEF InQueue
      <4>3. CASE t # Z
        BY <2>1, <2>10, <3>1, <4>1, <4>3, UsedIsQueued
      <4>4. QED
        BY <4>2, <4>3
    <3>2. QED
      BY <3>1
  <2>14. \A t \in Tickets : Lone(t)' =>
           /\ LoneSound(t)'
           /\ \A i \in DOMAIN queue : queue[i].ticket = t /\ queue[i].run # 0 => q[i].run # 0
    <3>1. \A i \in DOMAIN queue : q[i].run = queue[i].run
      BY <2>5, <2>6
    <3>2. ASSUME NEW t \in Tickets, Lone(t)' PROVE LoneSound(t)'
      <4>1. CASE t = Z
        BY <2>9, <3>2, <4>1
      <4>2. CASE t # Z
        BY <2>10, <3>2, <4>2
      <4>3. QED
        BY <4>1, <4>2
    <3>3. QED
      BY <3>1, <3>2
  <2>15. AllAccount(queue, q, Used', Begun', ToName', Wrong(Callers)')
    BY <2>12 DEF AllAccount
  <2>16. QED
    BY <2>2, <2>3, <2>13, <2>14, <2>15
<1>10. CopySound(c)'
  BY <1>1, <1>4, <1>5 DEF CopySound, Extends, Same
<1>11. /\ \A t : ~Claiming(c, t)
       /\ r.cmd \notin Resumes /\ "provision" \notin {"bindWrite", "publishWrite"}
  BY <1>1 DEF Claiming, Resumes
<1> HIDE DEF q
<1>12. QED
  BY <1>2, <1>3, <1>7, <1>9, <1>10, <1>11, PutKeeps

-----------------------------------------------------------------------------
(* The session ends                                                         *)

LEMMA TornIs ==
  ASSUME Acc, NEW c \in Callers
  PROVE  /\ pc[c] \in {"bindRead", "bindWrite"} => TornBy(c) = {<<TicketOf(c), "binding">>}
         /\ pc[c] \notin {"bindRead", "bindWrite"} => \A t : <<t, "binding">> \notin TornBy(c)
         /\ pc[c] \in {"publishWrite", "published", "startBack", "backRead"} =>
              TornBy(c) = {<<TicketOf(c), "outcome">>}
         /\ pc[c] = "write" /\ req[c].run # 0 => TornBy(c) = {<<TicketOf(c), "outcome">>}
         /\ pc[c] = "executing" /\ (req[c].cmd # "start" \/ runs[req[c].run].status = "cancelling") =>
              TornBy(c) = {<<TicketOf(c), "outcome">>}
         /\ req[c].cmd = "poll" /\ pc[c] = "write" /\ label[req[c].name] = "in-progress" =>
              TornBy(c) = {<<req[c].name, "claim">>}
<1>1. req[c].cmd = "poll" => req[c].run = 0
  BY DEF Acc, Alone, PointSound
<1>2. pc[c] \in {"bindRead", "bindWrite"} => TornBy(c) = {<<TicketOf(c), "binding">>}
  BY DEF TornBy
<1>3. pc[c] \notin {"bindRead", "bindWrite"} => \A t : <<t, "binding">> \notin TornBy(c)
  BY DEF TornBy
<1>4. pc[c] \in {"publishWrite", "published", "startBack", "backRead"} =>
        TornBy(c) = {<<TicketOf(c), "outcome">>}
  BY DEF TornBy
<1>5. pc[c] = "write" /\ req[c].run # 0 => TornBy(c) = {<<TicketOf(c), "outcome">>}
  BY <1>1 DEF TornBy
<1>6. pc[c] = "executing" /\ (req[c].cmd # "start" \/ runs[req[c].run].status = "cancelling") =>
        TornBy(c) = {<<TicketOf(c), "outcome">>}
  BY DEF TornBy
<1>7. req[c].cmd = "poll" /\ pc[c] = "write" /\ label[req[c].name] = "in-progress" =>
        TornBy(c) = {<<req[c].name, "claim">>}
  BY <1>1 DEF TornBy, TicketOf
<1>8. QED
  BY <1>2, <1>3, <1>4, <1>5, <1>6, <1>7

(* Whoever will write the outcome of a run leaves it torn, unless it has not*)
(* been executed or was not cancelled and executes: then it runs or is about*)
(* to, and the entry of its ticket says so.                                 *)
LEMMA OwesTorn ==
  ASSUME Acc, NEW c \in Callers, NEW x \in DOMAIN runs, Owes(c, x)
  PROVE  \/ <<runs[x].ticket, "outcome">> \in TornBy(c)
         \/ /\ Starts(c, runs[x].ticket, Bound)
         \/ /\ Starts(c, runs[x].ticket, {"executing"}) /\ runs[x].status # "cancelling"
<1>1. /\ Inv /\ PointSound(pc[c], req[c]) /\ req[c].run = x /\ pc[c] \notin {"idle", "resuming"}
      /\ x # 0
  <2>1. runs \in Seq(Run)
    BY DEF Acc, Inv, TypeOK
  <2>2. x # 0
    BY <2>1
  <2>3. QED
    BY <2>2 DEF Acc, Alone, Owes
<1>2. TicketOf(c) = runs[x].ticket
  BY <1>1 DEF TicketOf
<1>3. req[c].cmd \in {"edit", "start"} \cup Resumes
  <2>1. req[c].cmd \in Commands
    BY <1>1, Holds DEF CallSound, Request
  <2>2. QED
    BY <1>1, <2>1 DEF PointSound, Commands, Resumes
<1>4. req[c].cmd = "start" /\ pc[c] \in Bound \cup Running => runs[x].ticket = req[c].name
  BY <1>1, RunOf
<1>5. CASE req[c].cmd = "edit"
  BY <1>1, <1>2, <1>5, TornIs DEF PointSound
<1>6. CASE req[c].cmd \in Resumes
  <2>1. pc[c] \in {"backRead", "write", "publishWrite", "published"} \/ pc[c] = "executing"
    BY <1>1, <1>6 DEF PointSound, Running
  <2>2. QED
    BY <1>1, <1>2, <1>6, <2>1, TornIs DEF Resumes
<1>7. CASE req[c].cmd = "start"
  <2>1. pc[c] \in {"startBack", "publishWrite", "published", "executing"} \cup Bound
    BY <1>1, <1>7 DEF PointSound, Running, Started, Bound
  <2>2. QED
    BY <1>1, <1>2, <1>4, <1>7, <2>1, TornIs DEF Starts, Bound, Running
<1>8. QED
  BY <1>3, <1>5, <1>6, <1>7

(* What shows running shows blocked when it waits.                          *)
LEMMA BlockedTells ==
  /\ \A status \in Statuses \ {"running", "cancelling"} :
       "running" \in Shows(status) => "blocked" \in Shows(status)
  /\ {"running", "blocked"} \subseteq Shows("paused") \cap Shows("pending")
<1>1. ASSUME NEW status \in Statuses \ {"running", "cancelling"}, "running" \in Shows(status)
      PROVE  "blocked" \in Shows(status)
  BY <1>1, StateOf, StatusCases DEF Shows, Finals
<1>2. {"running", "blocked"} \subseteq Shows("paused") \cap Shows("pending")
  BY StateOf DEF Shows
<1>3. QED
  BY <1>1, <1>2

LEMMA RestartIs ==
  ASSUME Acc, Restart
  PROVE  /\ DOMAIN runs' = DOMAIN runs /\ DOMAIN queue' = DOMAIN queue
         /\ \A x \in DOMAIN runs :
              /\ runs'[x].ticket = runs[x].ticket
              /\ runs[x].status \in {"running", "cancelling"} => runs'[x].status = "paused"
              /\ runs[x].status \notin {"running", "cancelling"} => runs'[x].status = runs[x].status
         /\ \A i \in DOMAIN queue :
              /\ queue'[i].ticket = queue[i].ticket /\ queue'[i].run = queue[i].run
              /\ \/ queue'[i].state = queue[i].state
                 \/ queue[i].state = "running" /\ queue'[i].state = "blocked"
         /\ \A c \in Callers : pc'[c] = "idle" /\ req'[c] = NoRequest
         /\ hist'.lost = hist.lost /\ hist'.forced = hist.forced /\ label' = label
         /\ hist'.torn = hist.torn \cup UNION {TornBy(c) : c \in Callers}
<1>1. Inv
  BY DEF Acc
<1>2. \A x \in DOMAIN runs :
        /\ runs'[x].ticket = runs[x].ticket
        /\ runs[x].status \in {"running", "cancelling"} => runs'[x].status = "paused"
        /\ runs[x].status \notin {"running", "cancelling"} => runs'[x].status = runs[x].status
  <2>1. ASSUME NEW x \in DOMAIN runs
        PROVE  /\ runs'[x].ticket = runs[x].ticket
               /\ runs[x].status \in {"running", "cancelling"} => runs'[x].status = "paused"
               /\ runs[x].status \notin {"running", "cancelling"} => runs'[x].status = runs[x].status
    <3>1. runs \in Seq(Run)
      BY <1>1 DEF Inv, TypeOK
    <3>2. runs[x] \in Run
      BY <3>1
    <3>3. QED
      BY <3>2 DEF Restart, Run
  <2>2. QED
    BY <2>1
<1>3. PICK gone \in SUBSET {i \in DOMAIN queue :
                              queue[i].state = "running" /\ queue[i].workspace} :
        queue' = [i \in DOMAIN queue |->
          IF i \in gone THEN [queue[i] EXCEPT !.state = "blocked"] ELSE queue[i]]
  BY DEF Restart
<1>4. ASSUME NEW i \in DOMAIN queue
      PROVE  /\ queue'[i].ticket = queue[i].ticket /\ queue'[i].run = queue[i].run
             /\ \/ queue'[i].state = queue[i].state
                \/ queue[i].state = "running" /\ queue'[i].state = "blocked"
  <2>1. queue[i] \in Entry
    BY <1>1, EntryOf
  <2>2. CASE i \in gone
    <3>1. queue'[i] = [queue[i] EXCEPT !.state = "blocked"] /\ queue[i].state = "running"
      BY <1>3, <2>2
    <3>2. QED
      BY <2>1, <3>1 DEF Entry
  <2>3. CASE i \notin gone
    BY <1>3, <2>3
  <2>4. QED
    BY <2>2, <2>3
<1>5. /\ hist'.lost = hist.lost /\ hist'.forced = hist.forced
      /\ hist'.torn = hist.torn \cup UNION {TornBy(c) : c \in Callers}
  <2>1. hist \in History
    BY <1>1 DEF Inv, TypeOK
  <2>2. QED
    BY <2>1 DEF Restart, Issued, History
<1>6. QED
  BY <1>2, <1>3, <1>4, <1>5 DEF Restart

LEMMA RestartAcc ==
  ASSUME Acc, Inv', Restart
  PROVE  Acc'
<1>1. Inv /\ Alone
  BY DEF Acc
<1>2. /\ DOMAIN runs' = DOMAIN runs /\ DOMAIN queue' = DOMAIN queue
      /\ \A x \in DOMAIN runs :
           /\ runs'[x].ticket = runs[x].ticket
           /\ runs[x].status \in {"running", "cancelling"} => runs'[x].status = "paused"
           /\ runs[x].status \notin {"running", "cancelling"} => runs'[x].status = runs[x].status
      /\ \A i \in DOMAIN queue :
           /\ queue'[i].ticket = queue[i].ticket /\ queue'[i].run = queue[i].run
           /\ \/ queue'[i].state = queue[i].state
              \/ queue[i].state = "running" /\ queue'[i].state = "blocked"
      /\ \A c \in Callers : pc'[c] = "idle" /\ req'[c] = NoRequest
      /\ hist'.lost = hist.lost /\ hist'.forced = hist.forced /\ label' = label
      /\ hist'.torn = hist.torn \cup UNION {TornBy(c) : c \in Callers}
  BY RestartIs
<1>3. NoRequest.cmd = "none" /\ NoRequest.run = 0
  BY DEF NoRequest
<1>4. \A t : HasRun(t)' <=> HasRun(t)
  BY <1>2 DEF HasRun
<1>5. \A t : Lone(t)' => Lone(t)
  BY <1>2 DEF Lone, Once
<1>6. \A d \in Callers : \A t, points : ~Starts(d, t, points)'
  BY <1>2, <1>3 DEF Starts
<1>7. \A x : ~Executing(x)'
  BY <1>2 DEF Executing
<1>8. Alone'
  <2>1. \A c \in Callers : PointSound(pc'[c], req'[c])
    BY <1>2, <1>3 DEF PointSound, Resumes
  <2>2. \A c \in Callers : pc'[c] \notin Running
    BY <1>2 DEF Running
  <2>3. \A x \in DOMAIN runs' : runs'[x].status \notin {"running", "cancelling"}
    BY <1>2
  <2>4. ASSUME NEW t \in Tickets, <<t, "binding">> \in hist'.torn PROVE HasRun(t)
    <3>1. CASE <<t, "binding">> \in hist.torn
      BY <1>1, <3>1 DEF Alone
    <3>2. CASE <<t, "binding">> \notin hist.torn
      <4>1. PICK c \in Callers : <<t, "binding">> \in TornBy(c)
        BY <1>2, <2>4, <3>2
      <4>2. pc[c] \in {"bindRead", "bindWrite"} /\ t = TicketOf(c)
        BY <4>1, TornIs
      <4>3. req[c].run # 0 /\ req[c].run \in DOMAIN runs
        BY <1>1, <4>2, RunOf DEF Bound
      <4>4. QED
        BY <4>2, <4>3 DEF HasRun, TicketOf
    <3>3. QED
      BY <3>1, <3>2
  <2>5. QED
    BY <1>4, <2>1, <2>2, <2>3, <2>4 DEF Alone
<1>9. ASSUME ~hist.lost PROVE Account'
  <2>1. Account
    BY <1>9 DEF Acc
  <2>2. \A t \in Tickets : HasRun(t)' => InQueue(t)'
    BY <1>2, <1>4, <2>1 DEF Account, InQueue
  <2>3. ASSUME NEW t \in Tickets, label'[t] = "in-progress", <<t, "claim">> \notin hist'.torn
        PROVE  InQueue(t)'
    <3>1. ASSUME NEW c \in Callers, Claiming(c, t), req[c].name = t PROVE FALSE
      <4>1. <<t, "claim">> \in TornBy(c)
        BY <1>2, <2>3, <3>1, TornIs DEF Claiming
      <4>2. QED
        BY <1>2, <2>3, <4>1
    <3>2. InQueue(t)
      BY <1>2, <2>1, <2>3, <3>1 DEF Account
    <3>3. QED
      BY <1>2, <3>2 DEF InQueue
  <2>4. \A c \in Callers : CopySound(c)' /\ InnerSound(c)'
    BY <1>2, <1>3 DEF CopySound, InnerSound, HoldsCopy
  <2>5. ASSUME NEW t \in Tickets, Lone(t)' PROVE LoneSound(t)'
    <3>1. LoneSound(t)
      BY <1>5, <2>1, <2>5 DEF Account
    <3>2. \A x, y \in DOMAIN runs' : runs'[x].ticket = t /\ runs'[y].ticket = t => x = y
      BY <1>2, <3>1 DEF LoneSound
    <3>3. \A c \in Callers : pc'[c] \notin Running \cup {"backRead"}
      BY <1>2 DEF Running
    <3>4. QED
      BY <1>6, <3>2, <3>3 DEF LoneSound
  <2>6. ASSUME NEW i \in DOMAIN queue, NEW t \in Tickets, queue[i].ticket = t, Lone(t)'
        PROVE  Accounts(queue'[i], Used', Begun', ToName', Wrong(Callers)')
    <3>1. /\ Lone(t) /\ LoneSound(t)
          /\ Accounts(queue[i], Used, Begun, ToName, Wrong(Callers))
      BY <1>5, <2>1, <2>6 DEF Account, AllAccount
    <3>2. /\ queue'[i].ticket = t /\ queue'[i].run = queue[i].run
          /\ \/ queue'[i].state = queue[i].state
             \/ queue[i].state = "running" /\ queue'[i].state = "blocked"
      BY <1>2, <2>6
    <3>3. t \in Used' => queue'[i].state \notin Startable
      <4>1. t \in Used' => t \in Used
        BY <1>4, <1>6, <3>1 DEF Used
      <4>2. QED
        BY <2>6, <3>1, <3>2, <4>1 DEF Accounts, Startable
    <3>4. t \notin Begun'
      BY <1>6 DEF Begun
    <3>5. t \in ToName' => queue'[i].run # 0
      <4>1. ASSUME t \in ToName' PROVE t \in ToName
        <5>1. ASSUME NEW c \in Callers, Starts(c, t, {"bindRead", "bindWrite"}) PROVE FALSE
          <6>1. TicketOf(c) = t
            BY <1>1, <5>1, RunOf DEF Starts, Bound, TicketOf
          <6>2. <<t, "binding">> \in TornBy(c)
            BY <5>1, <6>1, TornIs DEF Starts
          <6>3. QED
            BY <1>2, <4>1, <6>2 DEF ToName
        <5>2. QED
          BY <1>2, <1>4, <3>1, <4>1, <5>1 DEF ToName
      <4>2. QED
        BY <2>6, <3>1, <3>2, <4>1 DEF Accounts
    <3>6. ASSUME queue[i].run # 0, <<t, queue'[i].state>> \in Wrong(Callers)' PROVE FALSE
      <4>1. PICK x \in DOMAIN runs : /\ runs[x].ticket = t /\ queue'[i].state \notin Shows(runs'[x].status)
        BY <1>2, <3>6 DEF Wrong
      <4>2. <<t, "outcome">> \notin hist'.torn
        BY <3>6 DEF Wrong
      <4>3. <<t, "outcome">> \notin hist.torn /\ \A c \in Callers : <<t, "outcome">> \notin TornBy(c)
        BY <1>2, <4>2
      <4>4. queue[i].state \in States /\ runs[x].status \in Statuses
        BY <1>1, EntryOf, StatusOf
      <4>5. CASE \E d \in Callers : Owes(d, x)
        <5>1. PICK d \in Callers : Owes(d, x)
          BY <4>5
        <5>2. \/ Starts(d, t, Bound)
              \/ Starts(d, t, {"executing"}) /\ runs[x].status # "cancelling"
          BY <4>1, <4>3, <5>1, OwesTorn
        <5>3. runs'[x].status \in {"paused", "pending"} /\ t \in Begun
          <6>1. CASE Starts(d, t, Bound)
            <7>1. runs[x].status = "pending"
              BY <3>1, <5>1, <6>1 DEF LoneSound, Owes
            <7>2. Starts(d, t, {"provision"} \cup Bound)
              BY <6>1 DEF Starts
            <7>3. QED
              BY <1>2, <3>1, <7>1, <7>2 DEF Begun
          <6>2. CASE Starts(d, t, {"executing"}) /\ runs[x].status # "cancelling"
            <7>1. runs[x].status = "running"
              BY <3>1, <4>1, <5>1, <6>2 DEF LoneSound, Owes, Starts, Running
            <7>2. QED
              BY <1>2, <3>1, <5>1, <6>2, <7>1 DEF Begun, Owes
          <6>3. QED
            BY <5>2, <6>1, <6>2
        <5>4. queue[i].state = "running"
          BY <2>6, <3>1, <5>3 DEF Accounts
        <5>5. queue'[i].state \in {"running", "blocked"}
          BY <3>2, <5>4
        <5>6. QED
          BY <4>1, <5>3, <5>5, BlockedTells
      <4>6. CASE \A d \in Callers : ~Owes(d, x)
        <5>1. queue[i].state \in Shows(runs[x].status)
          BY <2>6, <3>1, <3>6, <4>1, <4>3, <4>4, <4>6 DEF Accounts, Wrong
        <5>2. runs[x].status \notin {"running", "cancelling"}
          BY <1>1, <4>6 DEF Alone, Executing, Owes
        <5>3. runs'[x].status = runs[x].status
          BY <1>2, <5>2
        <5>4. QED
          BY <3>2, <4>1, <4>4, <5>1, <5>2, <5>3, BlockedTells
      <4>7. QED
        BY <4>5, <4>6
    <3>7. QED
      BY <3>2, <3>3, <3>4, <3>5, <3>6 DEF Accounts
  <2>7. ASSUME NEW i \in DOMAIN queue'
        PROVE  Accounts(queue'[i], Used', Begun', ToName', Wrong(Callers)')
    <3>1. PICK t \in Tickets : queue[i].ticket = t /\ queue'[i].ticket = t /\ i \in DOMAIN queue
      BY <1>1, <1>2, <2>7, EntryOf
    <3>2. CASE Lone(t)'
      BY <2>6, <3>1, <3>2
    <3>3. CASE ~Lone(t)'
      BY <3>1, <3>3, NotLone
    <3>4. QED
      BY <3>2, <3>3
  <2>8. AllAccount(queue', queue', Used', Begun', ToName', Wrong(Callers)')
    BY <2>7 DEF AllAccount
  <2>9. \A c \in Callers : req'[c].cmd \notin Resumes \cup {"start"}
    BY <1>2, <1>3 DEF Resumes
  <2>10. QED
    BY <2>2, <2>3, <2>4, <2>5, <2>8, <2>9 DEF Account
<1>10. QED
  BY <1>2, <1>8, <1>9 DEF Acc

-----------------------------------------------------------------------------
(* The accounts are kept, and what they imply                               *)

LEMMA AccInit == Init => Acc
<1> SUFFICES ASSUME Init PROVE Acc
  OBVIOUS
<1>1. Inv
  BY InvInit
<1>2. /\ queue = <<>> /\ runs = <<>> /\ hist.torn = {} /\ hist.lost = FALSE
      /\ \A c \in Callers : pc[c] = "idle" /\ req[c] = NoRequest
      /\ \A t \in Tickets : label[t] # "in-progress"
  BY DEF Init
<1>3. NoRequest.cmd = "none" /\ NoRequest.run = 0
  BY DEF NoRequest
<1>4. DOMAIN queue = {} /\ DOMAIN runs = {}
  BY <1>2
<1>5. Alone
  BY <1>2, <1>3, <1>4 DEF Alone, PointSound, Resumes, Running
<1>6. \A t \in Tickets : LoneSound(t)
  <2>1. \A c \in Callers : pc[c] \notin Running \cup {"backRead"}
    BY <1>2 DEF Running
  <2>2. \A c \in Callers : \A t, points : ~Starts(c, t, points)
    BY <1>2, <1>3 DEF Starts
  <2>3. QED
    BY <1>4, <2>1, <2>2 DEF LoneSound
<1>7. \A c \in Callers : CopySound(c) /\ InnerSound(c)
  BY <1>2, <1>3 DEF CopySound, InnerSound, HoldsCopy
<1>8. \A c \in Callers : req[c].cmd \notin Resumes \cup {"start"}
  BY <1>2, <1>3 DEF Resumes
<1>9. AllAccount(queue, queue, Used, Begun, ToName, Wrong(Callers))
  BY <1>4 DEF AllAccount
<1>10. Account
  BY <1>2, <1>4, <1>6, <1>7, <1>8, <1>9 DEF Account, HasRun
<1>11. QED
  BY <1>1, <1>5, <1>10 DEF Acc

LEMMA AccNext == Acc /\ [Next]_vars => Acc'
<1> SUFFICES ASSUME Acc, [Next]_vars PROVE Acc'
  OBVIOUS
<1>1. Inv'
  BY InvNext DEF Acc
<1>2. ASSUME NEW c \in Callers, Order(c) PROVE Acc'
  <2>1. CASE Start(c) \/ Reconcile(c) \/ Gc(c) \/ \E t \in Tickets : Enqueue(c, t)
    BY <1>1, <1>2, <2>1, StartAcc, ReconcileAcc, GcAcc, EnqueueAcc
  <2>2. CASE \E name \in Names : \E cmd \in {"approve", "replan", "resume"} : Resume(c, name, cmd)
    BY <1>1, <1>2, <2>2, ResumeAcc DEF Resumes
  <2>3. CASE \E name \in Names : Cancel(c, name) \/ SetByHand(c, name) \/ Rebase(c, name)
    BY <1>1, <1>2, <2>3, CancelAcc, SetByHandAcc, RebaseAcc
  <2>4. QED
    BY <1>2, <2>1, <2>2, <2>3 DEF Order
<1>3. ASSUME NEW c \in Callers, Step(c) PROVE Acc'
  <2>1. CASE PollClaim(c) \/ Write(c) \/ StartRead(c) \/ StartWrite(c) \/ Provision(c)
    BY <1>1, <1>3, <2>1, PollClaimAcc, WriteAcc, StartReadAcc, StartWriteAcc, ProvisionAcc
  <2>2. CASE BindRead(c) \/ Setup(c) \/ Publish(c) \/ RunEnds(c) \/ StartBack(c)
    BY <1>1, <1>3, <2>2, BindReadAcc, SetupAcc, PublishAcc, RunEndsAcc, StartBackAcc
  <2>3. CASE BindWrite(c) \/ PublishWrite(c)
    BY <1>1, <1>3, <2>3, InnerWriteAcc DEF BindWrite, PublishWrite
  <2>4. CASE Resuming(c) \/ BackRead(c)
    BY <1>1, <1>3, <2>4, ResumingAcc, BackReadAcc
  <2>5. QED
    BY <1>3, <2>1, <2>2, <2>3, <2>4 DEF Step
<1>4. ASSUME NEW c \in Callers, NEW t \in Tickets, PollRead(c, t) PROVE Acc'
  BY <1>1, <1>4, PollReadAcc
<1>5. ASSUME NEW t \in Tickets, Relabel(t) PROVE Acc'
  BY <1>1, <1>5, RelabelAcc
<1>6. CASE Restart
  BY <1>1, <1>6, RestartAcc
<1>7. CASE UNCHANGED vars
  BY <1>1, <1>7, Unmoved DEF vars
<1>8. QED
  BY <1>2, <1>3, <1>4, <1>5, <1>6, <1>7 DEF Next

LEMMA AccAlways == Spec => []Acc
  BY AccInit, AccNext, PTL DEF Spec

-----------------------------------------------------------------------------
(* What a reader of the queue may rely on.                                  *)

(* To have at most one entry is for any two to be the same one.             *)
LEMMA RegularIsLone ==
  ASSUME Inv, NEW t \in Tickets, Regular(t)
  PROVE  ~hist.lost /\ Lone(t)
<1> DEFINE S == {i \in DOMAIN queue : queue[i].ticket = t}
<1>1. queue \in Seq(Entry)
  BY DEF Inv, TypeOK
<1>2. DOMAIN queue = 1..Len(queue) /\ Len(queue) \in Int
  BY <1>1
<1>3. IsFiniteSet(DOMAIN queue)
  BY <1>2, FS_Interval
<1>4. IsFiniteSet(S)
  BY <1>3, FS_Subset
<1>5. Cardinality(S) \in Nat /\ Cardinality(S) <= 1
  BY <1>4, FS_CardinalityType DEF Regular
<1>6. S = {} \/ \E x : S = {x}
  <2>1. Cardinality(S) = 0 \/ Cardinality(S) = 1
    BY <1>5
  <2> HIDE DEF S
  <2>2. CASE Cardinality(S) = 0
    BY <1>4, <2>2, FS_EmptySet
  <2>3. CASE Cardinality(S) = 1
    BY <1>4, <2>3, FS_Singleton
  <2>4. QED
    BY <2>1, <2>2, <2>3
<1>7. ASSUME NEW i \in DOMAIN queue, NEW j \in DOMAIN queue,
             queue[i].ticket = t, queue[j].ticket = t
      PROVE  i = j
  <2>1. i \in S /\ j \in S
    BY <1>7
  <2>2. QED
    BY <1>6, <2>1
<1>8. QED
  BY <1>7 DEF Regular, Lone, Once

(* What the accounts say of such a ticket.                                  *)
LEMMA RegularAccount ==
  ASSUME Acc, NEW t \in Tickets, Regular(t)
  PROVE  Inv /\ Account /\ Lone(t) /\ LoneSound(t)
<1>1. Inv
  BY DEF Acc
<1>2. ~hist.lost /\ Lone(t)
  BY <1>1, RegularIsLone
<1>3. Account
  BY <1>2 DEF Acc
<1>4. LoneSound(t)
  BY <1>2, <1>3 DEF Account
<1>5. QED
  BY <1>1, <1>2, <1>3, <1>4

LEMMA AccClaims == Acc => NoClaimLost
<1> SUFFICES ASSUME Acc, NEW t \in Tickets, label[t] = "in-progress", ~hist.lost,
                    <<t, "claim">> \notin hist.torn
             PROVE  \/ \E i \in DOMAIN queue : queue[i].ticket = t
                    \/ \E c \in Callers : req[c].cmd = "poll" /\ req[c].name = t
  BY DEF NoClaimLost
<1>1. Account
  BY DEF Acc
<1>2. InQueue(t) \/ \E c \in Callers : Claiming(c, t) /\ req[c].name = t
  BY <1>1 DEF Account
<1>3. QED
  BY <1>2 DEF InQueue, Claiming

(* A regular ticket has one run: all the more one that is unfinished.       *)
LEMMA AccOneRun == Acc => OneRunPerTicket
<1> SUFFICES ASSUME Acc, NEW r \in DOMAIN runs, NEW s \in DOMAIN runs,
                    r # s, runs[r].ticket = runs[s].ticket, Regular(runs[r].ticket)
             PROVE  FALSE
  BY DEF OneRunPerTicket
<1>1. Inv
  BY DEF Acc
<1>2. runs[r].ticket \in Tickets
  BY <1>1, StatusOf
<1>3. LoneSound(runs[r].ticket)
  BY <1>2, RegularAccount
<1>4. QED
  BY <1>3 DEF LoneSound

(* A run that nobody is at work on has been bound, so the one entry of its  *)
(* ticket names a run of it, and it has no other.                           *)
LEMMA AccNamed == Acc => RunIsNamed
<1> SUFFICES ASSUME Acc, NEW r \in DOMAIN runs, Regular(runs[r].ticket), ~AtWork(r),
                    <<runs[r].ticket, "binding">> \notin hist.torn
             PROVE  \E i \in DOMAIN queue : queue[i].run = r
  BY DEF RunIsNamed
<1>1. Inv
  BY DEF Acc
<1>2. PICK t \in Tickets : runs[r].ticket = t
  BY <1>1, StatusOf
<1>3. Account /\ Lone(t) /\ LoneSound(t)
  BY <1>2, RegularAccount
<1>4. \A s \in DOMAIN runs : runs[s].ticket = t => s = r
  BY <1>2, <1>3 DEF LoneSound
<1>5. HasRun(t)
  BY <1>2 DEF HasRun
<1>6. ASSUME NEW c \in Callers, Starts(c, t, {"bindRead", "bindWrite"}) PROVE FALSE
  <2>1. req[c].cmd = "start" /\ req[c].name = t /\ pc[c] \in Bound /\ pc[c] # "idle"
    BY <1>6 DEF Starts, Bound
  <2>2. req[c].run \in DOMAIN runs /\ runs[req[c].run].ticket = t
    BY <1>1, <2>1, RunOf
  <2>3. req[c].run = r
    BY <1>4, <2>2
  <2>4. QED
    BY <2>1, <2>3 DEF AtWork
<1>7. t \in ToName
  BY <1>2, <1>3, <1>5, <1>6 DEF ToName
<1>8. PICK i \in DOMAIN queue : queue[i].ticket = t
  BY <1>3, <1>5 DEF Account, InQueue
<1>9. Accounts(queue[i], Used, Begun, ToName, Wrong(Callers))
  BY <1>3, <1>8 DEF Account, AllAccount
<1>10. queue[i].run # 0
  BY <1>7, <1>8, <1>9 DEF Accounts
<1>11. queue[i].run \in DOMAIN runs /\ runs[queue[i].run].ticket = t
  BY <1>1, <1>8, <1>10, EntryOf
<1>12. QED
  BY <1>4, <1>8, <1>11

(* Nobody is about to write what became of a run that nobody is at work on. *)
LEMMA AccOutcome == Acc => QueueTellsOutcome
<1> SUFFICES ASSUME Acc, NEW i \in DOMAIN queue, Regular(queue[i].ticket),
                    <<queue[i].ticket, "outcome">> \notin hist.torn,
                    queue[i].run # 0, ~AtWork(queue[i].run)
             PROVE  queue[i].state \in Shows(runs[queue[i].run].status)
  BY DEF QueueTellsOutcome
<1>1. Inv
  BY DEF Acc
<1>2. /\ queue[i].ticket \in Tickets /\ queue[i].state \in States
      /\ queue[i].run \in DOMAIN runs /\ runs[queue[i].run].ticket = queue[i].ticket
  BY <1>1, EntryOf
<1>3. Account /\ Lone(queue[i].ticket)
  BY <1>2, RegularAccount
<1>4. Accounts(queue[i], Used, Begun, ToName, Wrong(Callers))
  BY <1>3 DEF Account, AllAccount
<1>5. <<queue[i].ticket, queue[i].state>> \notin Wrong(Callers)
  BY <1>4 DEF Accounts
<1>6. \A d \in Callers : ~Owes(d, queue[i].run)
  BY DEF Owes, AtWork
<1>7. <<queue[i].ticket, queue[i].state>> \in Tickets \X States
  BY <1>2
<1>8. QED
  BY <1>2, <1>3, <1>5, <1>6, <1>7 DEF Wrong

(* Until an update of queue.json is lost, a ticket taken off the tracker's  *)
(* ready list is in the queue or in a poll's hands, a regular ticket has no *)
(* two unfinished runs, and a run that nobody is at work on is named by an  *)
(* entry: for any number of tickets, callers and runs (claimTicket, runStart*)
(* with bindQueueRun, resumePausedRun and session recovery).                *)
THEOREM WorkIsAccountedAlways == Spec => []WorkIsAccounted
<1>1. Acc => WorkIsAccounted
  BY AccClaims, AccOneRun, AccNamed DEF WorkIsAccounted
<1>2. QED
  BY <1>1, AccAlways, PTL

(* The state of an entry is one that the status of its run allows once      *)
(* nobody is at work on the run, whatever order the operator's commands,    *)
(* the run's own write-backs and cancellations came in (queueStateFor).     *)
THEOREM QueueTellsOutcomeAlways == Spec => []QueueTellsOutcome
  BY AccOutcome, AccAlways, PTL

=============================================================================
