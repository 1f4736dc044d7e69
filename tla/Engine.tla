------------------------------- MODULE Engine -------------------------------
(***************************************************************************)
(* The run engine (src/engine/engine.ts): one run, its state.json on disk,  *)
(* and the operator commands that start, resume and cancel it.              *)
(*                                                                          *)
(* A caller is one call of an engine method by a command handler.  Calls of *)
(* one Pi process interleave at every await; a process can crash and a new  *)
(* session can start, or a second session can start beside the first one.   *)
(* Every call works on its own in-memory copy of the run (mem); a save      *)
(* serialises the copy at once (snap) and reaches the disk when the         *)
(* temporary file is renamed over state.json (the *Saved actions).          *)
(*                                                                          *)
(* Beside some definitions stands a defective variant, marked "Defect":     *)
(* nothing uses it; the properties are tested by putting it in place of the *)
(* definition that follows it.                                              *)
(***************************************************************************)
EXTENDS LaneCompile

CONSTANTS
  Lane,         \* the compiled lane: a sequence of stage records
  FixRounds,    \* budget.fixRounds of the lane
  MaxSpend,     \* wall and cost budget in units of one step, 0 = unlimited
  Costs,        \* what one step may add to it
  SteerPauses,  \* the steering policy asks a human (FALSE: steering = auto)
  Callers,      \* identities of concurrent engine calls
  Procs,        \* Pi processes that share one factory home
  HomeOf,       \* the process each caller runs in
  NoCaller,     \* "no entry in Engine.active"
  ReviseFrom,   \* the stages a resume with resetRounds may start from
  Commands,     \* the commands the operator may issue
  Overlap,      \* when commands may arrive beside each other, see Apart
  LiveEdits,    \* the operator may commit in the worktree of a live run
  MaxCommands,  \* bound: resume-like commands
  MaxStarts,    \* bound: session starts after the first
  MaxTree       \* bound: versions of the worktree's content

AllCommands == {"run", "resume", "approve", "replan", "revise", "cancel"}

ASSUME LaneAssumption  == Lane \in Seq(Stage) /\ Len(Lane) >= 1
(* No lane of src/assets/lanes.yaml verifies, and so checkpoints, a gating  *)
(* stage before its verdict is bound to HEAD.                               *)
ASSUME GatingAssumption ==
  \A i \in 1..Len(Lane) : Lane[i].safetyGating => ~Lane[i].verify
ASSUME BoundAssumption == /\ FixRounds \in Nat /\ MaxSpend \in Nat
                          /\ Costs \subseteq Nat
                          /\ MaxCommands \in Nat /\ MaxStarts \in Nat
                          /\ MaxTree \in Nat
ASSUME CallerAssumption == /\ NoCaller \notin Callers
                           /\ HomeOf \in [Callers -> Procs]
                           /\ Commands \subseteq AllCommands
                           /\ ReviseFrom \subseteq 1..Len(Lane)
                           /\ SteerPauses \in BOOLEAN
                           /\ Overlap \in {"none", "any"}
                           /\ LiveEdits \in BOOLEAN

VARIABLES
  disk,       \* state.json of the run
  mem,        \* the RunState object each caller holds
  snap,       \* the serialised state a caller's pending save will rename in
  pc,         \* where each caller is
  req,        \* the command a caller executes, with its options
  res,        \* the StepResult a caller is processing
  active,     \* Engine.active, per process
  up,         \* the processes whose session is running
  git,        \* the worktree and the lane branch
  late,       \* publish bodies still running after their deadline
  steerFile,  \* steer-decision.json in the run directory
  hist        \* history of the run, read by the properties only

vars == <<disk, mem, snap, pc, req, res, active, up, git, late, steerFile, hist>>

Statuses == {"pending", "running", "waiting_user", "paused",
             "succeeded", "failed", "cancelled"}
Verdicts == {"PASS", "FAIL", "NEEDS_MORE"}

(* What escalated the run.  "rounds" and "backstop" are the two causes of   *)
(* the code loop-exhausted; "stage" is a code the stage asked for, "onfail" *)
(* the code of its onFail, "setup" env-setup-failed.                        *)
Causes == {"none", "rounds", "backstop", "budget", "stage", "onfail", "setup"}

Finals == {"succeeded", "failed", "cancelled"}

RunState == [status : Statuses, at : Steps(Lane), iteration : Nat,
             rounds : [1..Len(Lane) -> Nat], cancelling : BOOLEAN,
             cause : Causes, maxIter : Nat, spent : Nat, judged : Nat,
             host : SUBSET Nat, decision : BOOLEAN]

StepResult == [verdict : Verdicts, pause : BOOLEAN, escalate : BOOLEAN,
               commit : BOOLEAN, cost : Nat, skipped : BOOLEAN]

Request == [cmd : AllCommands \cup {"none", "approve2"},
            from : 0..(Len(Lane) + 1), decision : BOOLEAN,
            reset : 0..Len(Lane)]

(* startRun: newRunState with the first stage and the iteration budget.     *)
NewRun == [status |-> "pending", at |-> 1, iteration |-> 0,
           rounds |-> [i \in 1..Len(Lane) |-> 0], cancelling |-> FALSE,
           cause |-> "none",
           maxIter |-> computeIterationBudget(Lane, FixRounds),
           spent |-> 0, judged |-> 0, host |-> {}, decision |-> FALSE]

(* The worktree: the version of its content, the version at HEAD, and the   *)
(* commits made since the base, each named by the version it recorded.      *)
(* Versions only grow, so the tree is dirty when it is not the version at   *)
(* HEAD; 0 stands for an absent judgedSha.                                  *)
Git == [tree : Nat, head : Nat, commits : SUBSET Nat]
Base == 1
Dirty(g) == g.tree # g.head
Edited(g) == [g EXCEPT !.tree = @ + 1]
Committed(g) == [g EXCEPT !.head = g.tree, !.commits = @ \cup {g.tree}]

(* checkpointCommit: commit what is there, or nothing in a clean tree; the  *)
(* sha it returns is recorded in hostCommits.                               *)
Checkpoint(g) == IF Dirty(g) THEN Committed(g) ELSE g
Checkpointed(s, g) == IF Dirty(g) THEN [s EXCEPT !.host = @ \cup {g.tree}] ELSE s

LateBodies == [proc : Procs, judged : Nat, host : SUBSET Nat]

NoResult  == [verdict |-> "PASS", pause |-> FALSE, escalate |-> FALSE,
              commit |-> FALSE, cost |-> 0, skipped |-> FALSE]
NoRequest == [cmd |-> "none", from |-> 0, decision |-> FALSE, reset |-> 0]

(* The program points of executeRun between active.set and active.delete.   *)
LivePoints == {"beginSave", "top", "decisionSave", "invoke", "finishing",
               "stepSave", "after", "nextSave", "pauseSave", "endSave"}
Points == LivePoints \cup {"idle", "resumeCheck", "resumeLoad", "resumeSave",
                           "execCheck", "execLoad", "setup", "setupSave",
                           "cancelLoad", "cancelSave"}

Live(c)   == pc[c] \in LivePoints
Executing == {c \in Callers : Live(c)}

History == [started : BOOLEAN, commands : Nat, starts : Nat,
            jumped : BOOLEAN, approvals : Nat, given : Nat, delivered : Nat,
            asked : BOOLEAN, seen : [Callers -> Nat], reviewed : SUBSET Nat,
            pushed : SUBSET Nat]

TypeOK ==
  /\ disk \in RunState
  /\ mem \in [Callers -> RunState] /\ snap \in [Callers -> RunState]
  /\ pc \in [Callers -> Points]
  /\ req \in [Callers -> Request] /\ res \in [Callers -> StepResult]
  /\ active \in [Procs -> Callers \cup {NoCaller}]
  /\ up \subseteq Procs
  /\ git \in Git
  /\ late \subseteq LateBodies
  /\ steerFile \in {"none", "approve", "replan"}
  /\ hist \in History

-----------------------------------------------------------------------------
(* Steps every handler shares.                                              *)

Goto(c, point) == pc' = [pc EXCEPT ![c] = point]

(* save(): serialise now, continue at point once the rename is done.        *)
Save(c, s, point) ==
  /\ mem'  = [mem EXCEPT ![c] = s]
  /\ snap' = [snap EXCEPT ![c] = s]
  /\ Goto(c, point)

(* The rename: the only write of state.json.                                *)
Rename(c) ==
  /\ disk' = snap[c]
  /\ snap' = [snap EXCEPT ![c] = NewRun]

Saved(c, point, next) == pc[c] = point /\ Rename(c) /\ Goto(c, next)

(* What a call has loaded is garbage once it returns or throws.             *)
Forget(c) ==
  /\ mem' = [mem EXCEPT ![c] = NewRun]
  /\ res' = [res EXCEPT ![c] = NoResult]

(* A call returns.  /factory approve calls executeRun once more after       *)
(* resumeRun, which has already executed the run.                           *)
Return(c) ==
  /\ Forget(c)
  /\ IF req[c].cmd = "approve"
       THEN /\ Goto(c, "execCheck")
            /\ req' = [req EXCEPT ![c].cmd = "approve2"]
       ELSE /\ Goto(c, "idle")
            /\ req' = [req EXCEPT ![c] = NoRequest]

(* A call throws: the command ends.                                         *)
Throw(c) ==
  /\ Forget(c)
  /\ Goto(c, "idle")
  /\ req' = [req EXCEPT ![c] = NoRequest]

(* The guard of resumeRun and executeRun, which throw "already executing".  *)
(* Defect: the guard never fires.                                           *)
NeverExecuting(c) == FALSE
AlreadyExecuting(c) == active[HomeOf[c]] # NoCaller

(* checkBudget *)
Exhausted(s) == MaxSpend > 0 /\ s.spent >= MaxSpend
OutOfIterations(s) == s.iteration >= s.maxIter

(* finish(): a final status; a pending cancellation is forgotten.           *)
Finish(c, s, status) ==
  Save(c, [s EXCEPT !.status = status, !.cancelling = FALSE], "endSave")

(* escalate(): record the cause and route to the terminal stage.  Every     *)
(* compiled lane has one, so the branch without it is not reachable.        *)
EscalateTo(c, s, cause) ==
  Save(c, [s EXCEPT !.cause = cause, !.at = Escalate(Lane)], "nextSave")

-----------------------------------------------------------------------------
(* Commands.                                                                *)

(* When a command may arrive while call d is under way.  "any": whenever it *)
(* likes.  "none": once d is executing the run; only a cancel if d is an    *)
(* approve, whose second executeRun is still to come.                       *)
Apart(d, cmd) ==
  \/ pc[d] = "idle"
  \/ Live(d) /\ (cmd = "cancel" \/ req[d].cmd # "approve")
  \/ Overlap = "any"

(* A command finds its caller idle in a running session, and the run there. *)
CanIssue(c, cmd) ==
  /\ cmd \in Commands
  /\ hist.started = (cmd # "run")
  /\ pc[c] = "idle" /\ HomeOf[c] \in up
  /\ \A d \in Callers : Apart(d, cmd)

Issue(c, cmd, from, decision, reset) ==
  /\ CanIssue(c, cmd)
  /\ hist.commands < MaxCommands
  /\ req' = [req EXCEPT ![c] = [cmd |-> cmd, from |-> from,
                                decision |-> decision, reset |-> reset]]
  /\ Goto(c, "resumeCheck")
  /\ hist' = [hist EXCEPT !.commands = @ + 1,
                          !.given = @ + (IF decision THEN 1 ELSE 0)]
  /\ UNCHANGED <<disk, mem, snap, res, active, up, git, late>>

(* runTicket: the run it has just created (the initial disk, which it holds *)
(* in memory too) has its environment set up and is executed, once.         *)
CallRun(c) ==
  /\ CanIssue(c, "run")
  /\ hist' = [hist EXCEPT !.started = TRUE]
  /\ req' = [req EXCEPT ![c].cmd = "run"]
  /\ Goto(c, "setup")
  /\ UNCHANGED <<disk, mem, snap, res, active, up, git, late, steerFile>>

SetupDone(c) ==
  /\ pc[c] = "setup"
  /\ Goto(c, "execCheck")
  /\ UNCHANGED <<disk, mem, snap, req, res, active, up, git, late, steerFile, hist>>

(* failEnvSetup: the setup command or the sandbox failed; the copy made     *)
(* before the setup is saved, whatever state.json says by now.              *)
SetupFailed(c) ==
  /\ pc[c] = "setup"
  /\ Save(c, [mem[c] EXCEPT !.status = "failed", !.cause = "setup"], "setupSave")
  /\ UNCHANGED <<disk, req, res, active, up, git, late, steerFile, hist>>

SetupSaved(c) ==
  /\ pc[c] = "setupSave"
  /\ Rename(c)
  /\ Return(c)
  /\ UNCHANGED <<active, up, git, late, steerFile, hist>>

(* /factory resume <ref> [--from <stage>] *)
CallResume(c) ==
  \E from \in 0..(Len(Lane) + 1) :
    Issue(c, "resume", from, FALSE, 0) /\ UNCHANGED steerFile

(* /factory approve asks the queue's entry whether it awaits steer, which is  *)
(* QueueClaims' and may be behind the run: here it comes at any time.  The   *)
(* decision file is written before the run is resumed.                      *)
CallApprove(c) ==
  Issue(c, "approve", 0, FALSE, 0) /\ steerFile' = "approve"

(* /factory replan: the file is written whatever the run's status.          *)
CallReplan(c) ==
  Issue(c, "replan", 0, TRUE, 0) /\ steerFile' = "replan"

(* A resume with resetRounds: it moves the run to a stage and gives an      *)
(* implement stage one round back.  The revise cycle                        *)
(* (src/scheduler/revise-cycle.ts) asks for it with both at implement.      *)
CallRevise(c) ==
  \E from \in ReviseFrom, stage \in {i \in 1..Len(Lane) : Lane[i].impl} :
    Issue(c, "revise", from, FALSE, stage) /\ UNCHANGED steerFile

(* cancelRun of a live run: mark it and abort the step in flight.           *)
CancelLive(c) ==
  /\ CanIssue(c, "cancel")
  /\ active[HomeOf[c]] # NoCaller
  /\ mem' = [mem EXCEPT ![active[HomeOf[c]]].cancelling = TRUE]
  /\ hist' = [hist EXCEPT !.asked = TRUE]
  /\ UNCHANGED <<disk, snap, pc, req, res, active, up, git, late, steerFile>>

(* cancelRun of a run that is not live goes through the disk.               *)
CallCancel(c) ==
  /\ CanIssue(c, "cancel")
  /\ active[HomeOf[c]] = NoCaller
  /\ disk.status \notin Finals
  /\ req' = [req EXCEPT ![c].cmd = "cancel"]
  /\ Goto(c, "cancelLoad")
  /\ UNCHANGED <<disk, mem, snap, res, active, up, git, late, steerFile, hist>>

CancelLoad(c) ==
  /\ pc[c] = "cancelLoad"
  /\ \/ /\ disk.status \in Finals
        /\ Return(c)
        /\ UNCHANGED snap
     \/ /\ disk.status \notin Finals
        /\ Save(c, [disk EXCEPT !.status = "cancelled", !.cancelling = FALSE],
                "cancelSave")
        /\ UNCHANGED <<req, res>>
  /\ UNCHANGED <<disk, active, up, git, late, steerFile, hist>>

CancelSaved(c) ==
  /\ pc[c] = "cancelSave"
  /\ Rename(c)
  /\ Return(c)
  /\ UNCHANGED <<active, up, git, late, steerFile, hist>>

-----------------------------------------------------------------------------
(* resumeRun *)

ResumeCheck(c) ==
  /\ pc[c] = "resumeCheck"
  /\ \/ ~AlreadyExecuting(c) /\ Goto(c, "resumeLoad") /\ UNCHANGED <<mem, req, res>>
     \/ AlreadyExecuting(c) /\ Throw(c)
  /\ UNCHANGED <<disk, snap, active, up, git, late, steerFile, hist>>

(* Defect: a cancelled run may be resumed.                                  *)
ResumeRefusedNotCancelled(s, from) ==
  \/ s.status \in {"running", "succeeded"}
  \/ s.status = "failed" /\ from = 0

ResumeRefused(s, from) ==
  \/ s.status \in {"running", "succeeded", "cancelled"}
  \/ s.status = "failed" /\ from = 0

(* resetRounds: give one round back, and with it the iterations it may cost.*)
Restores(s, stage) == stage # 0 /\ s.rounds[stage] > 0

ResetRound(s, stage) ==
  IF Restores(s, stage)
    THEN [s EXCEPT !.rounds[stage] = @ - 1,
                   !.maxIter = @ + resetRoundIterationGrant(Lane)]
    ELSE s

Resumed(s, r) ==
  LET moved == IF r.from = 0 THEN s
               ELSE [s EXCEPT !.at = r.from, !.cause = "none"]
  IN  [ResetRound(moved, r.reset) EXCEPT !.decision = r.decision, !.status = "paused"]

ResumeLoad(c) ==
  /\ pc[c] = "resumeLoad"
  /\ \/ /\ ResumeRefused(disk, req[c].from)
        /\ Throw(c)
        /\ UNCHANGED <<snap, hist>>
     \/ /\ ~ResumeRefused(disk, req[c].from)
        /\ Save(c, Resumed(disk, req[c]), "resumeSave")
        /\ hist' = [hist EXCEPT !.jumped =
             @ \/ (req[c].from # 0 /\ ~Restores(disk, req[c].reset))]
        /\ UNCHANGED <<req, res>>
  /\ UNCHANGED <<disk, active, up, git, late, steerFile>>

ResumeSaved(c) ==
  /\ Saved(c, "resumeSave", "execCheck")
  /\ Forget(c)
  /\ UNCHANGED <<req, active, up, git, late, steerFile, hist>>

-----------------------------------------------------------------------------
(* executeRun *)

ExecCheck(c) ==
  /\ pc[c] = "execCheck"
  /\ \/ ~AlreadyExecuting(c) /\ Goto(c, "execLoad") /\ UNCHANGED <<mem, req, res>>
     \/ AlreadyExecuting(c) /\ Throw(c)
  /\ UNCHANGED <<disk, snap, active, up, git, late, steerFile, hist>>

(* Defect: the loaded status is not looked at.                              *)
ExecLoadUnchecked(c) ==
  /\ pc[c] = "execLoad"
  /\ Save(c, [disk EXCEPT !.status = "running"], "beginSave")
  /\ active' = [active EXCEPT ![HomeOf[c]] = c]
  /\ UNCHANGED <<disk, req, res, up, git, late, steerFile, hist>>

ExecLoad(c) ==
  /\ pc[c] = "execLoad"
  /\ \/ /\ disk.status \in Finals
        /\ Return(c)
        /\ UNCHANGED <<snap, active>>
     \/ /\ disk.status \notin Finals
        /\ Save(c, [disk EXCEPT !.status = "running"], "beginSave")
        /\ active' = [active EXCEPT ![HomeOf[c]] = c]
        /\ UNCHANGED <<req, res>>
  /\ UNCHANGED <<disk, up, git, late, steerFile, hist>>

BeginSaved(c) ==
  /\ Saved(c, "beginSave", "top")
  /\ UNCHANGED <<mem, req, res, active, up, git, late, steerFile, hist>>

(* The top of the loop: cancellation, then the budgets, then the stage.     *)
TopCancelled(c) ==
  /\ pc[c] = "top" /\ mem[c].cancelling
  /\ Finish(c, mem[c], "cancelled")
  /\ UNCHANGED <<disk, req, res, active, up, git, late, steerFile, hist>>

(* Defect: the terminal stage is not budget-exempt.                         *)
TopExhaustedNoExemption(c) ==
  /\ pc[c] = "top" /\ ~mem[c].cancelling
  /\ Exhausted(mem[c]) /\ EscalateTo(c, mem[c], "budget")
  /\ UNCHANGED <<disk, req, res, active, up, git, late, steerFile, hist>>

TopExhausted(c) ==
  LET s == mem[c] IN
  /\ pc[c] = "top" /\ ~s.cancelling
  /\ ~isTerminalStep(Lane, s.at)
  /\ \/ Exhausted(s) /\ EscalateTo(c, s, "budget")
     \/ ~Exhausted(s) /\ OutOfIterations(s) /\ EscalateTo(c, s, "backstop")
  /\ UNCHANGED <<disk, req, res, active, up, git, late, steerFile, hist>>

MayStart(c) ==
  LET s == mem[c] IN
  /\ pc[c] = "top" /\ ~s.cancelling
  /\ isTerminalStep(Lane, s.at) \/ (~Exhausted(s) /\ ~OutOfIterations(s))

(* The stage's `when` is false, or fails to evaluate.                       *)
SkipStage(c) ==
  /\ MayStart(c)
  /\ ~isTerminalStep(Lane, mem[c].at) /\ Lane[mem[c].at].optional
  /\ \/ res' = [res EXCEPT ![c] = [NoResult EXCEPT !.skipped = TRUE]]
     \/ res' = [res EXCEPT ![c] = [NoResult EXCEPT !.verdict = "FAIL",
                                                   !.escalate = TRUE]]
  /\ Goto(c, "finishing")
  /\ UNCHANGED <<disk, mem, snap, req, active, up, git, late, steerFile, hist>>

(* A pending operator decision is consumed on disk before the stage runs.   *)
(* Defect: the decision is not cleared.                                     *)
ConsumeDecisionKept(c) ==
  /\ MayStart(c) /\ mem[c].decision
  /\ Save(c, mem[c], "decisionSave")
  /\ UNCHANGED <<disk, req, res, active, up, git, late, steerFile, hist>>

ConsumeDecision(c) ==
  /\ MayStart(c) /\ mem[c].decision
  /\ Save(c, [mem[c] EXCEPT !.decision = FALSE], "decisionSave")
  /\ UNCHANGED <<disk, req, res, active, up, git, late, steerFile, hist>>

DecisionSaved(c) ==
  /\ Saved(c, "decisionSave", "invoke")
  /\ hist' = [hist EXCEPT !.delivered = @ + 1, !.seen[c] = git.tree]
  /\ UNCHANGED <<mem, req, res, active, up, git, late, steerFile>>

StartStage(c) ==
  /\ MayStart(c) /\ ~mem[c].decision
  /\ Goto(c, "invoke")
  /\ hist' = [hist EXCEPT !.seen[c] = git.tree]
  /\ UNCHANGED <<disk, mem, snap, req, res, active, up, git, late, steerFile>>

-----------------------------------------------------------------------------
(* Stage bodies.                                                            *)

Returns(c, r) == res' = [res EXCEPT ![c] = r] /\ Goto(c, "finishing")

AtStage(c) == pc[c] = "invoke" /\ ~isTerminalStep(Lane, mem[c].at)
StageOf(c) == Lane[mem[c].at]

(* host escalate: fails with the escalation it reports.                     *)
TerminalReturns(c) ==
  /\ pc[c] = "invoke" /\ isTerminalStep(Lane, mem[c].at)
  /\ Returns(c, [NoResult EXCEPT !.verdict = "FAIL"])
  /\ UNCHANGED <<disk, mem, snap, req, active, up, git, late, steerFile, hist>>

(* The steer stage: act on the decision file and archive it; without one    *)
(* pause, or pass under the auto policy.  The decisions steer, edit-approve *)
(* and drop of steer/dialog.ts are persisted by no command.                 *)
SteerReturns(c) ==
  /\ AtStage(c) /\ StageOf(c).kind = "human"
  /\ \/ /\ steerFile = "approve" \/ (steerFile = "none" /\ ~SteerPauses)
        /\ Returns(c, NoResult)
        /\ hist' = [hist EXCEPT !.approvals = @ + 1]
     \/ /\ steerFile = "replan"
        /\ Returns(c, [NoResult EXCEPT !.verdict = "NEEDS_MORE"])
        /\ UNCHANGED hist
     \/ /\ steerFile = "none" /\ SteerPauses
        /\ Returns(c, [NoResult EXCEPT !.pause = TRUE])
        /\ UNCHANGED hist
  /\ steerFile' = "none"
  /\ UNCHANGED <<disk, mem, snap, req, active, up, git, late>>

(* publishPreflight, under the repo lock: HEAD is the judged commit, the     *)
(* branch holds exactly the recorded host checkpoints and the tree is clean. *)
(* Defect: foreign commits are not looked for.                              *)
PreflightForeign(judged, host) ==
  judged # 0 /\ git.head = judged /\ ~Dirty(git)

Preflight(judged, host) ==
  /\ judged # 0
  /\ git.head = judged
  /\ git.commits = host
  /\ ~Dirty(git)

Push == hist' = [hist EXCEPT !.pushed = @ \cup {git.head}]

(* The publish stage: pushed, or refused by the preflight, another of its   *)
(* checks or the remote; what follows a push (the look at the remote, the   *)
(* pull request) may still fail the stage.                                  *)
Refused == [NoResult EXCEPT !.verdict = "FAIL", !.escalate = TRUE]

PublishReturns(c) ==
  /\ AtStage(c) /\ StageOf(c).publish
  /\ \/ /\ Preflight(mem[c].judged, mem[c].host)
        /\ \E r \in {NoResult, Refused} : Returns(c, r)
        /\ Push
     \/ Returns(c, Refused) /\ UNCHANGED hist
  /\ UNCHANGED <<disk, mem, snap, req, active, up, git, late, steerFile>>

(* invoke() gives up at the deadline, but nothing stops the publish body,   *)
(* which does not look at the abort signal: it can push later.              *)
PublishTimesOut(c) ==
  /\ AtStage(c) /\ StageOf(c).publish
  /\ Returns(c, [NoResult EXCEPT !.verdict = "FAIL"])
  /\ late' = late \cup {[proc |-> HomeOf[c], judged |-> mem[c].judged,
                         host |-> mem[c].host]}
  /\ UNCHANGED <<disk, mem, snap, req, active, up, git, steerFile, hist>>

LatePublish(body) ==
  /\ body \in late
  /\ late' = late \ {body}
  /\ \/ Preflight(body.judged, body.host) /\ Push
     \/ UNCHANGED hist
  /\ UNCHANGED <<disk, mem, snap, pc, req, res, active, up, git, steerFile>>

(* Any other stage: a worker or a host action returns any verdict, throws   *)
(* (worker-crash), asks for an escalation, or times out (FAIL).             *)
Outcomes(stage) ==
  {r \in [verdict : Verdicts, pause : {FALSE}, escalate : BOOLEAN,
          commit : BOOLEAN, cost : Costs, skipped : {FALSE}] :
     r.escalate => r.verdict = "FAIL"}

(* It leaves the worktree as g; an agent that answered asks for a           *)
(* checkpoint of a dirty one.  A fused stage asks for none.                 *)
AsksCheckpoint(stage, r, g) == r.commit => stage.kind = "agent" /\ Dirty(g)

(* defaultVerify: fails, with or without an escalation, when the tree is    *)
(* still dirty or the gate manifest has changed.                            *)
Verified(r, g) ==
  {[r EXCEPT !.verdict = "FAIL", !.commit = FALSE, !.escalate = e] : e \in BOOLEAN}
    \cup IF Dirty(g) THEN {} ELSE {[r EXCEPT !.commit = FALSE]}

(* On PASS a verified stage is checkpointed first and then verified, which  *)
(* can turn the verdict into FAIL and fails when the tree is still dirty.   *)
StageReturns(c) ==
  /\ AtStage(c) /\ StageOf(c).kind # "human" /\ ~StageOf(c).publish
  /\ \E g \in {git} \cup (IF git.tree < MaxTree THEN {Edited(git)} ELSE {}) :
     \E r \in Outcomes(StageOf(c)) :
       /\ AsksCheckpoint(StageOf(c), r, g)
       /\ \/ /\ r.verdict = "PASS" /\ StageOf(c).verify
             /\ LET checked == IF r.commit THEN Checkpoint(g) ELSE g
                IN  /\ git' = checked
                    /\ mem' = [mem EXCEPT ![c] =
                                 IF r.commit THEN Checkpointed(@, g) ELSE @]
                    /\ \E v \in Verified(r, checked) : Returns(c, v)
          \/ /\ ~(r.verdict = "PASS" /\ StageOf(c).verify)
             /\ Returns(c, r)
             /\ git' = g
             /\ UNCHANGED mem
  /\ UNCHANGED <<disk, snap, req, active, up, late, steerFile, hist>>

(* finishStep: a safety-gating PASS binds the run to HEAD; only then is a   *)
(* requested checkpoint committed.                                          *)
Gating(stage, r) == stage.safetyGating /\ r.verdict = "PASS" /\ ~r.skipped

FinishStep(c) ==
  LET s == mem[c]
      r == res[c]
      gating == ~isTerminalStep(Lane, s.at) /\ Gating(Lane[s.at], r)
      bound  == [s EXCEPT !.judged = IF gating THEN git.head ELSE @,
                          !.spent = @ + r.cost]
  IN
  /\ pc[c] = "finishing"
  /\ git' = IF r.commit THEN Checkpoint(git) ELSE git
  /\ hist' = [hist EXCEPT !.reviewed =
                IF gating THEN @ \cup {hist.seen[c]} ELSE @, !.seen[c] = 0]
  /\ Save(c, IF r.commit THEN Checkpointed(bound, git) ELSE bound, "stepSave")
  /\ UNCHANGED <<disk, req, res, active, up, late, steerFile>>

StepSaved(c) ==
  /\ Saved(c, "stepSave", "after")
  /\ UNCHANGED <<mem, req, res, active, up, git, late, steerFile, hist>>

-----------------------------------------------------------------------------
(* After a stage: cancellation, budget, pause, terminal, escalation, and    *)
(* only then the transition.                                                *)

AfterCancelled(c) ==
  /\ pc[c] = "after" /\ mem[c].cancelling
  /\ Finish(c, mem[c], "cancelled")
  /\ UNCHANGED <<disk, req, res, active, up, git, late, steerFile, hist>>

AfterExhausted(c) ==
  /\ pc[c] = "after" /\ ~mem[c].cancelling
  /\ ~isTerminalStep(Lane, mem[c].at) /\ Exhausted(mem[c])
  /\ EscalateTo(c, mem[c], "budget")
  /\ UNCHANGED <<disk, req, res, active, up, git, late, steerFile, hist>>

(* Defect: a cancelled run goes on.                                         *)
ProceedsCancelled(c) ==
  /\ pc[c] = "after"
  /\ isTerminalStep(Lane, mem[c].at) \/ ~Exhausted(mem[c])

Proceeds(c) ==
  /\ pc[c] = "after" /\ ~mem[c].cancelling
  /\ isTerminalStep(Lane, mem[c].at) \/ ~Exhausted(mem[c])

(* Defect: the pause moves past the stage that asked for it.                *)
AfterPauseAdvanced(c) ==
  /\ Proceeds(c) /\ res[c].pause
  /\ Save(c, [mem[c] EXCEPT !.status = "waiting_user", !.at = @ + 1],
             "pauseSave")
  /\ UNCHANGED <<disk, req, res, active, up, git, late, steerFile, hist>>

AfterPause(c) ==
  /\ Proceeds(c) /\ res[c].pause
  /\ Save(c, [mem[c] EXCEPT !.status = "waiting_user"], "pauseSave")
  /\ UNCHANGED <<disk, req, res, active, up, git, late, steerFile, hist>>

AfterTerminal(c) ==
  /\ Proceeds(c) /\ ~res[c].pause /\ isTerminalStep(Lane, mem[c].at)
  /\ Finish(c, mem[c], "failed")
  /\ UNCHANGED <<disk, req, res, active, up, git, late, steerFile, hist>>

AfterEscalation(c) ==
  /\ Proceeds(c) /\ ~res[c].pause /\ ~isTerminalStep(Lane, mem[c].at)
  /\ res[c].escalate
  /\ EscalateTo(c, mem[c], "stage")
  /\ UNCHANGED <<disk, req, res, active, up, git, late, steerFile, hist>>

(* A fix round is charged to the stage it goes back to, and to the stage    *)
(* that asked for it when that stage has a bound of its own.                *)
ChargeTarget(s, target) == [s EXCEPT !.rounds[target] = @ + 1]
ChargeOwn(s, own) ==
  IF Lane[own].maxRounds = 0 THEN s ELSE [s EXCEPT !.rounds[own] = @ + 1]

RoundsLeft(s, target) == s.rounds[target] < FixRounds
OwnRoundsLeft(s, own) ==
  Lane[own].maxRounds = 0 \/ s.rounds[own] < Lane[own].maxRounds

Advance(c, s, target) ==
  Save(c, [s EXCEPT !.iteration = @ + 1, !.at = target], "nextSave")

(* applyTransition *)
ApplyTransition(c) ==
  LET s       == mem[c]
      verdict == res[c].verdict
      target  == Transition(Lane, s.at, verdict)
      charged == verdict # "PASS" /\ Lane[s.at].onFail = "fix-round"
  IN
  /\ Proceeds(c) /\ ~res[c].pause /\ ~isTerminalStep(Lane, s.at)
  /\ ~res[c].escalate
  /\ \/ target = Halt /\ Finish(c, s, "succeeded")
     \/ target = Escalate(Lane) /\ EscalateTo(c, s, "onfail")
     \/ /\ target \in 1..Len(Lane) /\ ~charged
        /\ Advance(c, s, target)
     \/ /\ target \in 1..Len(Lane) /\ charged
        /\ LET t == ChargeTarget(s, target)
               u == ChargeOwn(t, s.at)
           IN  \/ ~RoundsLeft(s, target) /\ EscalateTo(c, t, "rounds")
               \/ /\ RoundsLeft(s, target) /\ ~OwnRoundsLeft(t, s.at)
                  /\ EscalateTo(c, u, "rounds")
               \/ /\ RoundsLeft(s, target) /\ OwnRoundsLeft(t, s.at)
                  /\ Advance(c, u, target)
  /\ UNCHANGED <<disk, req, res, active, up, git, late, steerFile, hist>>

NextSaved(c) ==
  /\ Saved(c, "nextSave", "top")
  /\ res' = [res EXCEPT ![c] = NoResult]
  /\ UNCHANGED <<mem, req, active, up, git, late, steerFile, hist>>

(* The run pauses or ends: executeRun returns, its finally clause removes   *)
(* the run from active whoever put it there.                                *)
ExecuteEnds(c) ==
  /\ pc[c] \in {"pauseSave", "endSave"}
  /\ Rename(c)
  /\ active' = [active EXCEPT ![HomeOf[c]] = NoCaller]
  /\ Return(c)
  /\ UNCHANGED <<up, git, late, steerFile, hist>>

-----------------------------------------------------------------------------
(* Processes and the operator's hands.                                      *)

(* The process dies: its calls and its active map are gone.                 *)
Crash(p) ==
  /\ p \in up
  /\ hist.starts < MaxStarts
  /\ up' = up \ {p}
  /\ pc'  = [c \in Callers |-> IF HomeOf[c] = p THEN "idle" ELSE pc[c]]
  /\ req' = [c \in Callers |-> IF HomeOf[c] = p THEN NoRequest ELSE req[c]]
  /\ mem'  = [c \in Callers |-> IF HomeOf[c] = p THEN NewRun ELSE mem[c]]
  /\ snap' = [c \in Callers |-> IF HomeOf[c] = p THEN NewRun ELSE snap[c]]
  /\ res'  = [c \in Callers |-> IF HomeOf[c] = p THEN NoResult ELSE res[c]]
  /\ active' = [active EXCEPT ![p] = NoCaller]
  /\ late' = {b \in late : b.proc # p}
  /\ UNCHANGED <<disk, git, steerFile, hist>>

(* session_start: pauseRunningEngineRuns turns every run that state.json    *)
(* calls running into paused, before it has asked for the daemon lease.     *)
(* Defect: running runs are left as they are.                               *)
SessionStartForgetful(p) ==
  /\ p \notin up
  /\ hist.starts < MaxStarts
  /\ up' = up \cup {p}
  /\ hist' = [hist EXCEPT !.starts = @ + 1]
  /\ UNCHANGED <<disk, mem, snap, pc, req, res, active, git, late, steerFile>>

SessionStart(p) ==
  /\ p \notin up
  /\ hist.starts < MaxStarts
  /\ up' = up \cup {p}
  /\ disk' = IF disk.status = "running" THEN [disk EXCEPT !.status = "paused"]
             ELSE disk
  /\ hist' = [hist EXCEPT !.starts = @ + 1]
  /\ UNCHANGED <<mem, snap, pc, req, res, active, git, late, steerFile>>

(* The operator edits the worktree, as the humanAction of several           *)
(* escalations suggests, and may commit what is there by hand.              *)
HandEdit ==
  /\ LiveEdits \/ Executing = {}
  /\ \/ git.tree < MaxTree /\ git' = Edited(git)
     \/ Dirty(git) /\ git' = Committed(git)
  /\ UNCHANGED <<disk, mem, snap, pc, req, res, active, up, late, steerFile, hist>>

-----------------------------------------------------------------------------
Init ==
  /\ disk = NewRun
  /\ mem = [c \in Callers |-> NewRun] /\ snap = [c \in Callers |-> NewRun]
  /\ pc = [c \in Callers |-> "idle"]
  /\ req = [c \in Callers |-> NoRequest]
  /\ res = [c \in Callers |-> NoResult]
  /\ active = [p \in Procs |-> NoCaller]
  /\ \E p \in Procs : up = {p}
  /\ git = [tree |-> Base, head |-> Base, commits |-> {}]
  /\ late = {}
  /\ steerFile = "none"
  /\ hist = [started |-> FALSE, commands |-> 0, starts |-> 0, jumped |-> FALSE,
             approvals |-> 0, given |-> 0, delivered |-> 0, asked |-> FALSE,
             seen |-> [c \in Callers |-> 0],
             reviewed |-> {}, pushed |-> {}]

Command(c) ==
  \/ CallRun(c) \/ CallResume(c) \/ CallApprove(c) \/ CallReplan(c)
  \/ CallRevise(c) \/ CancelLive(c) \/ CallCancel(c)

Body(c) ==
  \/ TerminalReturns(c) \/ SteerReturns(c) \/ PublishReturns(c)
  \/ PublishTimesOut(c) \/ StageReturns(c)

(* What the event loop does on its own once a command has been issued.      *)
Continue(c) ==
  \/ SetupDone(c) \/ SetupFailed(c) \/ SetupSaved(c)
  \/ CancelLoad(c) \/ CancelSaved(c)
  \/ ResumeCheck(c) \/ ResumeLoad(c) \/ ResumeSaved(c)
  \/ ExecCheck(c) \/ ExecLoad(c) \/ BeginSaved(c)
  \/ TopCancelled(c) \/ TopExhausted(c) \/ SkipStage(c)
  \/ ConsumeDecision(c) \/ DecisionSaved(c) \/ StartStage(c)
  \/ Body(c) \/ FinishStep(c) \/ StepSaved(c)
  \/ AfterCancelled(c) \/ AfterExhausted(c) \/ AfterPause(c)
  \/ AfterTerminal(c) \/ AfterEscalation(c) \/ ApplyTransition(c)
  \/ NextSaved(c) \/ ExecuteEnds(c)

Next ==
  \/ \E c \in Callers : Command(c) \/ Continue(c)
  \/ \E p \in Procs : Crash(p) \/ SessionStart(p)
  \/ \E body \in late : LatePublish(body)
  \/ HandEdit

Spec == Init /\ [][Next]_vars

(* Saves complete and stage bodies return: every compiled step carries a    *)
(* timeout and invoke() resolves at the deadline.  Commands, crashes and    *)
(* hand edits are never owed.                                               *)
FairSpec == Spec /\ \A c \in Callers : WF_vars(Continue(c))
-----------------------------------------------------------------------------
(* Safety.                                                                  *)

(* One run is executed by at most one executeRun at a time: `active` and    *)
(* the status check of resumeRun keep a second one out.                     *)
AtMostOneExecutor == Cardinality(Executing) <= 1

(* The run never works on after it has succeeded or been cancelled: no call *)
(* is still executing it, and none can bring it back.                       *)
FinishedIsQuiet ==
  disk.status \in {"succeeded", "cancelled"} => Executing = {}

FinishedIsFinal ==
  [][disk.status \in {"succeeded", "cancelled"} => disk'.status = disk.status]_vars

(* Whatever was edited, committed, resumed or replayed on the way, a commit *)
(* that reached the remote is one whose content a safety-gating stage was   *)
(* given as a clean tree and passed (README: the push happens only after a  *)
(* judge PASS bound to the judged commit).                                  *)
PushedWasReviewed == hist.pushed \subseteq hist.reviewed

(* No worker of an implement-class stage starts before the steer stage has  *)
(* let the run through, unless the operator moved the run by hand.          *)
ImplementNeedsSteer ==
  \A c \in Callers :
    (pc[c] = "invoke" /\ ~isTerminalStep(Lane, mem[c].at) /\ Lane[mem[c].at].impl)
      => hist.approvals > 0 \/ hist.jumped

(* An operator's decision reaches at most one stage attempt, across retries,*)
(* pauses and crashes.                                                      *)
DecisionAtMostOnce == hist.delivered <= hist.given

(* No decision of the operator is skipped, and none is replayed.            *)
DecisionsHonoured == ImplementNeedsSteer /\ DecisionAtMostOnce

(* In a session that is up, a run that says it is running is running:       *)
(* resumeRun refuses such a run, so nothing could ever move it again.       *)
RunningHasExecutor ==
  disk.status = "running" /\ up = Procs => Executing # {}

(* The status on disk tells whether anybody executes the run.               *)
StatusTellsExecutor == FinishedIsQuiet /\ RunningHasExecutor

(* A cancellation that has reached the disk, and so survives a crash, ends  *)
(* the run as cancelled and in no other way.                                *)
CancelHonoured ==
  [][disk.cancelling => disk'.status \notin {"succeeded", "failed"}]_vars

(* A fix-round counter stops a run before the iteration backstop does       *)
(* (budget.ts: never trips before the per-stage round counters), however    *)
(* often the run is resumed where it stopped.                               *)
BackstopNeverFirst ==
  disk.cause = "backstop" =>
    hist.jumped \/ disk.maxIter # computeIterationBudget(Lane, FixRounds)

-----------------------------------------------------------------------------
(* Liveness.                                                                *)

(* Every execution ends by itself, in a pause or a final status, however    *)
(* its stages fail: fix rounds, iterations and the budget-exempt terminal   *)
(* stage leave no loop.                                                     *)
ExecutionEnds == \A c \in Callers : Live(c) ~> ~Live(c)

-----------------------------------------------------------------------------
(* What comments and messages of the source say.                            *)

(* budget.ts, resetRoundIterationGrant: a clean pass of headroom covers the *)
(* re-entry from any earlier step, so the restored round counter still trips*)
(* before the global backstop.  Said of runs all of whose moves by hand gave*)
(* a round back.                                                            *)
RestoredRoundTripsFirst == disk.cause = "backstop" => hist.jumped

(* engine.ts, cancelRun: executeRun finalises `cancelled` at the next       *)
(* boundary.                                                                *)
CancelFinalises == hist.asked ~> disk.status \in Finals
=============================================================================
