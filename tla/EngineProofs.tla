---------------------------- MODULE EngineProofs ----------------------------
(***************************************************************************)
(* What is proved of Engine for every lane, every number of callers and     *)
(* processes and every overlap of commands: the types, that nothing is      *)
(* pushed that a safety-gating stage was not given, that no implement stage *)
(* starts before the operator has let the run through, and that the fix     *)
(* rounds stop a run before the iteration backstop.  And what holds when    *)
(* one process works and its commands come one at a time: one executor, the *)
(* status tells it, no decision is skipped or replayed, a finished run stays*)
(* finished and a cancellation is honoured.                                 *)
(***************************************************************************)
EXTENDS Engine, FiniteSetTheorems, TLAPS

(* A lane has stages, and a workflow the first and the terminal step.       *)
LEMMA LaneFacts ==
  /\ Len(Lane) \in Nat /\ Len(Lane) >= 1
  /\ \A i \in 1..Len(Lane) : Lane[i] \in Stage
  /\ Steps(Lane) = 1..(Len(Lane) + 1)
  /\ 1 \in Steps(Lane) /\ Escalate(Lane) \in Steps(Lane)
  /\ 1..Len(Lane) \subseteq Steps(Lane)
  BY LaneAssumption DEF Steps, Escalate

(* The iteration budget and the grant of a round given back are numbers.    *)
LEMMA BudgetType ==
  /\ computeIterationBudget(Lane, FixRounds) \in Nat
  /\ resetRoundIterationGrant(Lane) \in Nat
<1>1. IsFiniteSet(1..Len(Lane))
  BY LaneFacts, FS_Interval
<1>2. FixCycle(Lane) \in SUBSET (1..Len(Lane))
  BY DEF FixCycle
<1>3. fixCycleLength(Lane) \in Nat
  BY <1>1, <1>2, FS_Subset, FS_CardinalityType DEF fixCycleLength
<1>4. resetRoundIterationGrant(Lane) \in Nat
  BY <1>3, LaneFacts DEF resetRoundIterationGrant, cleanPassSteps
<1>5. FixRounds * fixCycleLength(Lane) \in Nat
  BY <1>3, BoundAssumption
<1>6. QED
  BY <1>4, <1>5, LaneFacts
  DEF computeIterationBudget, cleanPassSteps, ITERATION_SLACK

(* What startRun creates, and what a caller holds that holds nothing.       *)
LEMMA NewTypes ==
  /\ NewRun \in RunState /\ NoResult \in StepResult /\ NoRequest \in Request
  BY LaneFacts, BudgetType
  DEF NewRun, NoResult, NoRequest, RunState, StepResult, Request, Statuses,
      Causes, Verdicts, AllCommands

(* resumeRun turns a run state into a run state.                            *)
LEMMA ResumedType ==
  ASSUME NEW s \in RunState, NEW r \in Request
  PROVE  Resumed(s, r) \in RunState
<1> DEFINE moved == IF r.from = 0 THEN s
                    ELSE [s EXCEPT !.at = r.from, !.cause = "none"]
<1>1. moved \in RunState
  <2>1. CASE r.from # 0
    <3>1. r.from \in Steps(Lane) /\ "none" \in Causes
      BY <2>1, LaneFacts DEF Request, Causes
    <3>2. [s EXCEPT !.at = r.from, !.cause = "none"] \in RunState
      BY <3>1 DEF RunState
    <3>3. QED
      BY <2>1, <3>2
  <2>2. QED
    BY <2>1
<1>2. ResetRound(moved, r.reset) \in RunState
  <2>1. r.reset \in 0..Len(Lane)
    BY DEF Request
  <2>2. CASE Restores(moved, r.reset)
    <3>1. r.reset \in 1..Len(Lane) /\ moved.rounds[r.reset] - 1 \in Nat
      BY <1>1, <2>1, <2>2, LaneFacts DEF Restores, RunState
    <3>2. moved.maxIter + resetRoundIterationGrant(Lane) \in Nat
      BY <1>1, BudgetType DEF RunState
    <3>3. QED
      BY <1>1, <2>2, <3>1, <3>2 DEF ResetRound, RunState
  <2>3. QED
    BY <1>1, <2>2 DEF ResetRound
<1>3. QED
  BY <1>2 DEF Resumed, RunState, Request, Statuses

-----------------------------------------------------------------------------
(* The steps every handler shares keep the types of what they write.        *)
LEMMA SaveType ==
  ASSUME TypeOK, NEW c \in Callers, NEW s \in RunState, NEW p \in Points,
         Save(c, s, p)
  PROVE  /\ mem' \in [Callers -> RunState] /\ snap' \in [Callers -> RunState]
         /\ pc' \in [Callers -> Points]
  BY DEF TypeOK, Save, Goto

LEMMA RenameType ==
  ASSUME TypeOK, NEW c \in Callers, Rename(c)
  PROVE  disk' \in RunState /\ snap' \in [Callers -> RunState]
  BY NewTypes DEF TypeOK, Rename

LEMMA ForgetType ==
  ASSUME TypeOK, NEW c \in Callers, Forget(c)
  PROVE  mem' \in [Callers -> RunState] /\ res' \in [Callers -> StepResult]
  BY NewTypes DEF TypeOK, Forget

LEMMA ReturnType ==
  ASSUME TypeOK, NEW c \in Callers, Return(c)
  PROVE  /\ mem' \in [Callers -> RunState] /\ res' \in [Callers -> StepResult]
         /\ pc' \in [Callers -> Points] /\ req' \in [Callers -> Request]
<1>1. {"idle", "execCheck"} \subseteq Points
  BY DEF Points
<1>2. \A r \in Request : [r EXCEPT !.cmd = "approve2"] \in Request
  BY DEF Request
<1>3. req' \in [Callers -> Request] /\ pc' \in [Callers -> Points]
  BY <1>1, <1>2, NewTypes DEF Return, Goto, TypeOK
<1>4. QED
  BY <1>3, ForgetType DEF Return

LEMMA ThrowType ==
  ASSUME TypeOK, NEW c \in Callers, Throw(c)
  PROVE  /\ mem' \in [Callers -> RunState] /\ res' \in [Callers -> StepResult]
         /\ pc' \in [Callers -> Points] /\ req' \in [Callers -> Request]
  BY ForgetType, NewTypes DEF Throw, Goto, TypeOK, Points

LEMMA FinishType ==
  ASSUME TypeOK, NEW c \in Callers, NEW s \in RunState, NEW x \in Statuses,
         Finish(c, s, x)
  PROVE  /\ mem' \in [Callers -> RunState] /\ snap' \in [Callers -> RunState]
         /\ pc' \in [Callers -> Points]
<1>1. [s EXCEPT !.status = x, !.cancelling = FALSE] \in RunState
  BY DEF RunState
<1>2. QED
  BY <1>1, SaveType DEF Finish, Points, LivePoints

LEMMA EscalateType ==
  ASSUME TypeOK, NEW c \in Callers, NEW s \in RunState, NEW x \in Causes,
         EscalateTo(c, s, x)
  PROVE  /\ mem' \in [Callers -> RunState] /\ snap' \in [Callers -> RunState]
         /\ pc' \in [Callers -> Points]
<1>1. [s EXCEPT !.cause = x, !.at = Escalate(Lane)] \in RunState
  BY LaneFacts DEF RunState
<1>2. QED
  BY <1>1, SaveType DEF EscalateTo, Points, LivePoints

-----------------------------------------------------------------------------
(* A command keeps the types.                                               *)
LEMMA CommandType ==
  ASSUME TypeOK, NEW c \in Callers, Command(c)
  PROVE  TypeOK'
<1>1. ASSUME NEW cmd \in AllCommands, NEW from \in 0..(Len(Lane) + 1),
             NEW decision \in BOOLEAN, NEW reset \in 0..Len(Lane),
             Issue(c, cmd, from, decision, reset),
             steerFile' \in {"none", "approve", "replan"}
      PROVE  TypeOK'
  <2>1. req' \in [Callers -> Request]
    BY <1>1 DEF TypeOK, Issue, Request
  <2>2. pc' \in [Callers -> Points]
    BY <1>1 DEF TypeOK, Issue, Goto, Points
  <2>3. hist' \in History
    <3>1. (IF decision THEN 1 ELSE 0) \in Nat
      OBVIOUS
    <3>2. /\ hist \in History
          /\ hist.commands + 1 \in Nat
          /\ hist.given + (IF decision THEN 1 ELSE 0) \in Nat
      BY <3>1 DEF TypeOK, History
    <3>3. hist' = [hist EXCEPT !.commands = hist.commands + 1,
                     !.given = hist.given + (IF decision THEN 1 ELSE 0)]
      BY <1>1 DEF Issue
    <3>4. QED
      BY <3>2, <3>3 DEF History
  <2>4. QED
    BY <1>1, <2>1, <2>2, <2>3 DEF TypeOK, Issue
<1>2. CASE CallRun(c)
  <2>1. req' \in [Callers -> Request]
    <3>1. req \in [Callers -> Request]
      BY DEF TypeOK
    <3>2. \A q \in Request : [q EXCEPT !.cmd = "run"] \in Request
      BY DEF Request, AllCommands
    <3>3. req' = [req EXCEPT ![c] = [req[c] EXCEPT !.cmd = "run"]]
      BY <1>2 DEF CallRun
    <3>4. QED
      BY <3>1, <3>2, <3>3
  <2>2. pc' \in [Callers -> Points]
    BY <1>2 DEF TypeOK, CallRun, Goto, Points
  <2>3. hist' \in History
    BY <1>2 DEF TypeOK, CallRun, History
  <2>4. QED
    BY <1>2, <2>1, <2>2, <2>3 DEF TypeOK, CallRun
<1>3. CASE CallResume(c)
  <2>1. PICK from \in 0..(Len(Lane) + 1) :
          Issue(c, "resume", from, FALSE, 0) /\ UNCHANGED steerFile
    BY <1>3 DEF CallResume
  <2>2. steerFile' \in {"none", "approve", "replan"}
    BY <2>1 DEF TypeOK
  <2>3. "resume" \in AllCommands /\ FALSE \in BOOLEAN /\ 0 \in 0..Len(Lane)
    BY LaneFacts DEF AllCommands
  <2>4. QED
    BY <1>1, <2>1, <2>2, <2>3
<1>4. CASE CallApprove(c)
  <2>1. /\ "approve" \in AllCommands /\ FALSE \in BOOLEAN
        /\ 0 \in 0..Len(Lane) /\ 0 \in 0..(Len(Lane) + 1)
    BY LaneFacts DEF AllCommands
  <2>2. Issue(c, "approve", 0, FALSE, 0) /\ steerFile' = "approve"
    BY <1>4 DEF CallApprove
  <2>3. QED
    BY <1>1, <2>1, <2>2
<1>5. CASE CallReplan(c)
  <2>1. /\ "replan" \in AllCommands /\ TRUE \in BOOLEAN
        /\ 0 \in 0..Len(Lane) /\ 0 \in 0..(Len(Lane) + 1)
    BY LaneFacts DEF AllCommands
  <2>2. Issue(c, "replan", 0, TRUE, 0) /\ steerFile' = "replan"
    BY <1>5 DEF CallReplan
  <2>3. QED
    BY <1>1, <2>1, <2>2
<1>6. CASE CallRevise(c)
  <2>1. PICK from \in ReviseFrom, stage \in {i \in 1..Len(Lane) : Lane[i].impl} :
          Issue(c, "revise", from, FALSE, stage) /\ UNCHANGED steerFile
    BY <1>6 DEF CallRevise
  <2>2. from \in 0..(Len(Lane) + 1) /\ stage \in 0..Len(Lane)
    BY LaneFacts, CallerAssumption
  <2>3. "revise" \in AllCommands /\ FALSE \in BOOLEAN
    BY DEF AllCommands
  <2>4. steerFile' \in {"none", "approve", "replan"}
    BY <2>1 DEF TypeOK
  <2>5. QED
    BY <1>1, <2>1, <2>2, <2>3, <2>4
<1>7. CASE CancelLive(c)
  <2>1. active[HomeOf[c]] \in Callers
    BY <1>7, CallerAssumption DEF TypeOK, CancelLive
  <2>2. \A s \in RunState : [s EXCEPT !.cancelling = TRUE] \in RunState
    BY DEF RunState
  <2>3. mem' \in [Callers -> RunState]
    BY <1>7, <2>1, <2>2 DEF TypeOK, CancelLive
  <2>4. hist' \in History
    BY <1>7 DEF TypeOK, CancelLive, History
  <2>5. QED
    BY <1>7, <2>3, <2>4 DEF TypeOK, CancelLive
<1>8. CASE CallCancel(c)
  <2>1. req' \in [Callers -> Request]
    <3>1. req \in [Callers -> Request]
      BY DEF TypeOK
    <3>2. \A q \in Request : [q EXCEPT !.cmd = "cancel"] \in Request
      BY DEF Request, AllCommands
    <3>3. req' = [req EXCEPT ![c] = [req[c] EXCEPT !.cmd = "cancel"]]
      BY <1>8 DEF CallCancel
    <3>4. QED
      BY <3>1, <3>2, <3>3
  <2>2. pc' \in [Callers -> Points]
    BY <1>8 DEF TypeOK, CallCancel, Goto, Points
  <2>3. QED
    BY <1>8, <2>1, <2>2 DEF TypeOK, CallCancel
<1>9. QED
  BY <1>2, <1>3, <1>4, <1>5, <1>6, <1>7, <1>8 DEF Command

(* So does what follows a command: the setup, a cancel through the disk and *)
(* resumeRun ...                                                            *)
LEMMA ResumeType ==
  ASSUME TypeOK, NEW c \in Callers,
         \/ SetupDone(c) \/ SetupFailed(c) \/ SetupSaved(c)
         \/ CancelLoad(c) \/ CancelSaved(c)
         \/ ResumeCheck(c) \/ ResumeLoad(c) \/ ResumeSaved(c)
  PROVE  TypeOK'
<1>1. CASE SetupDone(c)
  BY <1>1 DEF TypeOK, SetupDone, Goto, Points
<1>2. CASE SetupFailed(c)
  <2>1. [mem[c] EXCEPT !.status = "failed", !.cause = "setup"] \in RunState
    BY DEF TypeOK, RunState, Statuses, Causes
  <2>2. /\ mem' \in [Callers -> RunState] /\ snap' \in [Callers -> RunState]
        /\ pc' \in [Callers -> Points]
    BY <1>2, <2>1, SaveType DEF SetupFailed, Points
  <2>3. QED
    BY <1>2, <2>2 DEF TypeOK, SetupFailed
<1>3. CASE SetupSaved(c)
  BY <1>3, RenameType, ReturnType DEF TypeOK, SetupSaved
<1>4. CASE CancelLoad(c)
  <2>1. CASE Return(c) /\ UNCHANGED snap
    BY <1>4, <2>1, ReturnType DEF TypeOK, CancelLoad
  <2>2. CASE /\ Save(c, [disk EXCEPT !.status = "cancelled", !.cancelling = FALSE],
                         "cancelSave")
             /\ UNCHANGED <<req, res>>
    <3>1. [disk EXCEPT !.status = "cancelled", !.cancelling = FALSE] \in RunState
      BY DEF TypeOK, RunState, Statuses
    <3>2. /\ mem' \in [Callers -> RunState] /\ snap' \in [Callers -> RunState]
          /\ pc' \in [Callers -> Points]
      BY <2>2, <3>1, SaveType DEF Points
    <3>3. QED
      BY <1>4, <2>2, <3>2 DEF TypeOK, CancelLoad
  <2>3. QED
    BY <1>4, <2>1, <2>2 DEF CancelLoad
<1>5. CASE CancelSaved(c)
  BY <1>5, RenameType, ReturnType DEF TypeOK, CancelSaved
<1>6. CASE ResumeCheck(c)
  <2>1. CASE Goto(c, "resumeLoad") /\ UNCHANGED <<mem, req, res>>
    BY <1>6, <2>1 DEF TypeOK, ResumeCheck, Goto, Points
  <2>2. CASE Throw(c)
    BY <1>6, <2>2, ThrowType DEF TypeOK, ResumeCheck
  <2>3. QED
    BY <1>6, <2>1, <2>2 DEF ResumeCheck
<1>7. CASE ResumeLoad(c)
  <2>1. CASE Throw(c) /\ UNCHANGED <<snap, hist>>
    BY <1>7, <2>1, ThrowType DEF TypeOK, ResumeLoad
  <2>2. CASE /\ Save(c, Resumed(disk, req[c]), "resumeSave")
             /\ hist' = [hist EXCEPT !.jumped =
                  @ \/ (req[c].from # 0 /\ ~Restores(disk, req[c].reset))]
             /\ UNCHANGED <<req, res>>
    <3>1. disk \in RunState /\ req[c] \in Request
      BY DEF TypeOK
    <3>2. /\ mem' \in [Callers -> RunState] /\ snap' \in [Callers -> RunState]
          /\ pc' \in [Callers -> Points]
      BY <2>2, <3>1, ResumedType, SaveType DEF Points
    <3>3. hist' \in History
      BY <2>2, Zenon DEF TypeOK, History
    <3>4. QED
      BY <1>7, <2>2, <3>2, <3>3 DEF TypeOK, ResumeLoad
  <2>3. QED
    BY <1>7, <2>1, <2>2 DEF ResumeLoad
<1>8. CASE ResumeSaved(c)
  BY <1>8, RenameType, ForgetType DEF TypeOK, ResumeSaved, Saved, Goto, Points
<1>9. QED
  BY <1>1, <1>2, <1>3, <1>4, <1>5, <1>6, <1>7, <1>8

(* ... the way of executeRun to a stage ...                                 *)
LEMMA StartType ==
  ASSUME TypeOK, NEW c \in Callers,
         \/ ExecCheck(c) \/ ExecLoad(c) \/ BeginSaved(c)
         \/ TopCancelled(c) \/ TopExhausted(c) \/ SkipStage(c)
         \/ ConsumeDecision(c) \/ DecisionSaved(c) \/ StartStage(c)
  PROVE  TypeOK'
<1> mem[c] \in RunState /\ git.tree \in Nat /\ HomeOf[c] \in Procs
  BY CallerAssumption DEF TypeOK, Git
<1>1. CASE ExecCheck(c)
  <2>1. CASE Goto(c, "execLoad") /\ UNCHANGED <<mem, req, res>>
    BY <1>1, <2>1 DEF TypeOK, ExecCheck, Goto, Points
  <2>2. CASE Throw(c)
    BY <1>1, <2>2, ThrowType DEF TypeOK, ExecCheck
  <2>3. QED
    BY <1>1, <2>1, <2>2 DEF ExecCheck
<1>2. CASE ExecLoad(c)
  <2>1. CASE Return(c) /\ UNCHANGED <<snap, active>>
    BY <1>2, <2>1, ReturnType DEF TypeOK, ExecLoad
  <2>2. CASE /\ Save(c, [disk EXCEPT !.status = "running"], "beginSave")
             /\ active' = [active EXCEPT ![HomeOf[c]] = c]
             /\ UNCHANGED <<req, res>>
    <3>1. [disk EXCEPT !.status = "running"] \in RunState
      BY DEF TypeOK, RunState, Statuses
    <3>2. /\ mem' \in [Callers -> RunState] /\ snap' \in [Callers -> RunState]
          /\ pc' \in [Callers -> Points]
      BY <2>2, <3>1, SaveType DEF Points, LivePoints
    <3>3. QED
      BY <1>2, <2>2, <3>2 DEF TypeOK, ExecLoad
  <2>3. QED
    BY <1>2, <2>1, <2>2 DEF ExecLoad
<1>3. CASE BeginSaved(c)
  BY <1>3, RenameType DEF TypeOK, BeginSaved, Saved, Goto, Points, LivePoints
<1>4. CASE TopCancelled(c)
  BY <1>4, FinishType DEF TypeOK, TopCancelled, Statuses
<1>5. CASE TopExhausted(c)
  BY <1>5, EscalateType DEF TypeOK, TopExhausted, Causes
<1>6. CASE SkipStage(c)
  <2>1. /\ [NoResult EXCEPT !.skipped = TRUE] \in StepResult
        /\ [NoResult EXCEPT !.verdict = "FAIL", !.escalate = TRUE] \in StepResult
    BY DEF NoResult, StepResult, Verdicts
  <2>2. res' \in [Callers -> StepResult]
    BY <1>6, <2>1 DEF TypeOK, SkipStage
  <2>3. QED
    BY <1>6, <2>2 DEF TypeOK, SkipStage, Goto, Points, LivePoints
<1>7. CASE ConsumeDecision(c)
  <2>1. [mem[c] EXCEPT !.decision = FALSE] \in RunState
    BY DEF RunState
  <2>2. QED
    BY <1>7, <2>1, SaveType DEF TypeOK, ConsumeDecision, Points, LivePoints
<1>8. CASE DecisionSaved(c)
  <2>1. hist' = [hist EXCEPT !.delivered = hist.delivered + 1,
                             !.seen = [hist.seen EXCEPT ![c] = git.tree]]
    BY <1>8 DEF DecisionSaved
  <2>2. hist.seen \in [Callers -> Nat] /\ hist.delivered + 1 \in Nat
    BY DEF TypeOK, History
  <2>3. [hist.seen EXCEPT ![c] = git.tree] \in [Callers -> Nat]
    BY <2>2
  <2>4. hist' \in History
    BY <2>1, <2>2, <2>3 DEF TypeOK, History
  <2>5. QED
    BY <1>8, <2>4, RenameType
    DEF TypeOK, DecisionSaved, Saved, Goto, Points, LivePoints
<1>9. CASE StartStage(c)
  <2>1. hist' = [hist EXCEPT !.seen = [hist.seen EXCEPT ![c] = git.tree]]
    BY <1>9 DEF StartStage
  <2>2. [hist.seen EXCEPT ![c] = git.tree] \in [Callers -> Nat]
    BY DEF TypeOK, History
  <2>3. hist' \in History
    BY <2>1, <2>2 DEF TypeOK, History
  <2>4. QED
    BY <1>9, <2>3 DEF TypeOK, StartStage, Goto, Points, LivePoints
<1>10. QED
  BY <1>1, <1>2, <1>3, <1>4, <1>5, <1>6, <1>7, <1>8, <1>9

(* ... the stage's body and what is recorded of it ...                      *)
LEMMA GitType ==
  ASSUME NEW g \in Git
  PROVE  Edited(g) \in Git /\ Committed(g) \in Git /\ Checkpoint(g) \in Git
<1>1. g.tree \in Nat /\ g.tree + 1 \in Nat /\ g.commits \cup {g.tree} \in SUBSET Nat
  BY DEF Git
<1>2. Edited(g) \in Git
  BY <1>1 DEF Git, Edited
<1>3. Committed(g) \in Git
  BY <1>1 DEF Git, Committed
<1>4. QED
  BY <1>2, <1>3 DEF Checkpoint

LEMMA CheckpointedType ==
  ASSUME NEW s \in RunState, NEW g \in Git
  PROVE  Checkpointed(s, g) \in RunState
  BY DEF RunState, Git, Checkpointed

LEMMA ReturnsType ==
  ASSUME TypeOK, NEW c \in Callers, NEW r \in StepResult, Returns(c, r)
  PROVE  res' \in [Callers -> StepResult] /\ pc' \in [Callers -> Points]
  BY DEF TypeOK, Returns, Goto, Points, LivePoints

LEMMA PushType ==
  ASSUME TypeOK, Push
  PROVE  hist' \in History
  BY DEF TypeOK, Push, History, Git

LEMMA BodyType ==
  ASSUME TypeOK, NEW c \in Callers, Body(c)
  PROVE  TypeOK'
<1> mem[c] \in RunState /\ git \in Git /\ HomeOf[c] \in Procs
  BY CallerAssumption DEF TypeOK
<1>a. /\ [NoResult EXCEPT !.verdict = "FAIL"] \in StepResult
      /\ [NoResult EXCEPT !.verdict = "NEEDS_MORE"] \in StepResult
      /\ [NoResult EXCEPT !.pause = TRUE] \in StepResult
      /\ NoResult \in StepResult /\ Refused \in StepResult
  BY DEF NoResult, Refused, StepResult, Verdicts
<1>1. CASE TerminalReturns(c)
  BY <1>1, <1>a, ReturnsType DEF TypeOK, TerminalReturns
<1>2. CASE SteerReturns(c)
  <2>1. \E r \in StepResult : Returns(c, r)
    BY <1>2, <1>a DEF SteerReturns
  <2>2. hist' \in History
    BY <1>2 DEF TypeOK, SteerReturns, History
  <2>3. QED
    BY <1>2, <2>1, <2>2, ReturnsType DEF TypeOK, SteerReturns
<1>3. CASE PublishReturns(c)
  <2>1. \E r \in StepResult : Returns(c, r)
    BY <1>3, <1>a DEF PublishReturns
  <2>2. hist' \in History
    BY <1>3, PushType DEF TypeOK, PublishReturns
  <2>3. QED
    BY <1>3, <2>1, <2>2, ReturnsType DEF TypeOK, PublishReturns
<1>4. CASE PublishTimesOut(c)
  <2>1. [proc |-> HomeOf[c], judged |-> mem[c].judged, host |-> mem[c].host]
          \in LateBodies
    BY DEF LateBodies, RunState
  <2>2. late' \subseteq LateBodies
    BY <1>4, <2>1 DEF TypeOK, PublishTimesOut
  <2>3. QED
    BY <1>4, <1>a, <2>2, ReturnsType DEF TypeOK, PublishTimesOut
<1>5. CASE StageReturns(c)
  <2>1. PICK g \in {git} \cup (IF git.tree < MaxTree THEN {Edited(git)} ELSE {}),
             r \in Outcomes(StageOf(c)) :
          \/ /\ r.verdict = "PASS" /\ StageOf(c).verify
             /\ LET checked == IF r.commit THEN Checkpoint(g) ELSE g
                IN  /\ git' = checked
                    /\ mem' = [mem EXCEPT ![c] =
                                 IF r.commit THEN Checkpointed(@, g) ELSE @]
                    /\ \E v \in Verified(r, checked) : Returns(c, v)
          \/ /\ ~(r.verdict = "PASS" /\ StageOf(c).verify)
             /\ Returns(c, r)
             /\ git' = g
             /\ UNCHANGED mem
    BY <1>5 DEF StageReturns
  <2>2. g \in Git /\ Checkpoint(g) \in Git /\ Checkpointed(mem[c], g) \in RunState
    BY <2>1, GitType, CheckpointedType
  <2>3. r \in StepResult
    BY <2>1, BoundAssumption DEF Outcomes, StepResult
  <2>4. \A h : Verified(r, h) \subseteq StepResult
    <3>1. \A e \in BOOLEAN :
            [r EXCEPT !.verdict = "FAIL", !.commit = FALSE, !.escalate = e]
              \in StepResult
      BY <2>3 DEF StepResult, Verdicts
    <3>2. [r EXCEPT !.commit = FALSE] \in StepResult
      BY <2>3 DEF StepResult
    <3>3. QED
      BY <3>1, <3>2 DEF Verified
  <2>5. git' \in Git /\ mem' \in [Callers -> RunState]
    BY <2>1, <2>2 DEF TypeOK
  <2>6. \E v \in StepResult : Returns(c, v)
    BY <2>1, <2>3, <2>4
  <2>7. QED
    BY <1>5, <2>5, <2>6, ReturnsType DEF TypeOK, StageReturns
<1>6. QED
  BY <1>1, <1>2, <1>3, <1>4, <1>5 DEF Body

LEMMA FinishStepType ==
  ASSUME TypeOK, NEW c \in Callers, FinishStep(c)
  PROVE  TypeOK'
<1> DEFINE r == res[c]
           gating == ~isTerminalStep(Lane, mem[c].at) /\ Gating(Lane[mem[c].at], r)
           bound == [mem[c] EXCEPT !.judged = IF gating THEN git.head ELSE @,
                                   !.spent = @ + r.cost]
           kept == IF r.commit THEN Checkpointed(bound, git) ELSE bound
<1>1. mem[c] \in RunState /\ git \in Git /\ r \in StepResult
  BY DEF TypeOK
<1>2. bound \in RunState
  <2>1. mem[c].spent + r.cost \in Nat
    BY <1>1 DEF RunState, StepResult
  <2>2. (IF gating THEN git.head ELSE mem[c].judged) \in Nat
    BY <1>1 DEF RunState, Git
  <2>3. QED
    BY <1>1, <2>1, <2>2 DEF RunState
<1>3. kept \in RunState
  BY <1>1, <1>2, CheckpointedType
<1>4. git' \in Git
  BY <1>1, GitType DEF FinishStep
<1>5. hist' \in History
  <2>1. hist' = [hist EXCEPT
                   !.reviewed = IF gating THEN hist.reviewed \cup {hist.seen[c]}
                                ELSE hist.reviewed,
                   !.seen = [hist.seen EXCEPT ![c] = 0]]
    BY DEF FinishStep
  <2>2. [hist.seen EXCEPT ![c] = 0] \in [Callers -> Nat]
    BY DEF TypeOK, History
  <2>3. (IF gating THEN hist.reviewed \cup {hist.seen[c]} ELSE hist.reviewed)
          \in SUBSET Nat
    BY DEF TypeOK, History
  <2>4. QED
    BY <2>1, <2>2, <2>3 DEF TypeOK, History
<1>6. Save(c, kept, "stepSave")
  BY DEF FinishStep
<1>7. /\ mem' \in [Callers -> RunState] /\ snap' \in [Callers -> RunState]
      /\ pc' \in [Callers -> Points]
  BY <1>3, <1>6, SaveType DEF Points, LivePoints
<1>8. QED
  BY <1>4, <1>5, <1>7 DEF TypeOK, FinishStep

(* ... and what the loop does after it.                                     *)
LEMMA AfterType ==
  ASSUME TypeOK, NEW c \in Callers,
         \/ StepSaved(c) \/ AfterCancelled(c) \/ AfterExhausted(c)
         \/ AfterPause(c) \/ AfterTerminal(c) \/ AfterEscalation(c)
         \/ NextSaved(c) \/ ExecuteEnds(c)
  PROVE  TypeOK'
<1> mem[c] \in RunState /\ HomeOf[c] \in Procs
  BY CallerAssumption DEF TypeOK
<1>1. CASE StepSaved(c)
  BY <1>1, RenameType DEF TypeOK, StepSaved, Saved, Goto, Points, LivePoints
<1>2. CASE AfterCancelled(c)
  BY <1>2, FinishType DEF TypeOK, AfterCancelled, Statuses
<1>3. CASE AfterExhausted(c)
  BY <1>3, EscalateType DEF TypeOK, AfterExhausted, Causes
<1>4. CASE AfterPause(c)
  <2>1. [mem[c] EXCEPT !.status = "waiting_user"] \in RunState
    BY DEF RunState, Statuses
  <2>2. QED
    BY <1>4, <2>1, SaveType DEF TypeOK, AfterPause, Points, LivePoints
<1>5. CASE AfterTerminal(c)
  BY <1>5, FinishType DEF TypeOK, AfterTerminal, Statuses
<1>6. CASE AfterEscalation(c)
  BY <1>6, EscalateType DEF TypeOK, AfterEscalation, Causes
<1>7. CASE NextSaved(c)
  BY <1>7, RenameType, NewTypes
  DEF TypeOK, NextSaved, Saved, Goto, Points, LivePoints
<1>8. CASE ExecuteEnds(c)
  <2>1. active' \in [Procs -> Callers \cup {NoCaller}]
    BY <1>8 DEF TypeOK, ExecuteEnds
  <2>2. QED
    BY <1>8, <2>1, RenameType, ReturnType DEF TypeOK, ExecuteEnds
<1>9. QED
  BY <1>1, <1>2, <1>3, <1>4, <1>5, <1>6, <1>7, <1>8

(* A counter that is charged stays one.                                     *)
LEMMA ChargeType ==
  ASSUME NEW s \in RunState, NEW i \in 1..Len(Lane)
  PROVE  ChargeTarget(s, i) \in RunState /\ ChargeOwn(s, i) \in RunState
<1>1. s.rounds[i] + 1 \in Nat
  BY DEF RunState
<1>2. [s EXCEPT !.rounds[i] = @ + 1] \in RunState
  BY <1>1 DEF RunState
<1>3. QED
  BY <1>2 DEF ChargeTarget, ChargeOwn

LEMMA TransitionType ==
  ASSUME TypeOK, NEW c \in Callers, ApplyTransition(c)
  PROVE  TypeOK'
<1> DEFINE s == mem[c]
           target == Transition(Lane, s.at, res[c].verdict)
<1>1. s \in RunState /\ s.at \in 1..Len(Lane)
  <2>1. s \in RunState
    BY DEF TypeOK
  <2>2. s.at \in 1..(Len(Lane) + 1)
    BY <2>1, LaneFacts DEF RunState
  <2>3. s.at # Len(Lane) + 1
    BY DEF ApplyTransition, isTerminalStep, Escalate
  <2>4. QED
    BY <2>1, <2>2, <2>3, LaneFacts
<1>2. \/ Finish(c, s, "succeeded")
      \/ \E t \in RunState, x \in Causes : EscalateTo(c, t, x)
      \/ \E t \in RunState, i \in 1..Len(Lane) : Advance(c, t, i)
  <2>1. CASE target = Halt /\ Finish(c, s, "succeeded")
    BY <2>1
  <2>2. CASE target = Escalate(Lane) /\ EscalateTo(c, s, "onfail")
    BY <1>1, <2>2 DEF Causes
  <2>3. CASE target \in 1..Len(Lane) /\ Advance(c, s, target)
    BY <1>1, <2>3
  <2>4. CASE /\ target \in 1..Len(Lane)
             /\ LET t == ChargeTarget(s, target)
                    u == ChargeOwn(t, s.at)
                IN  \/ EscalateTo(c, t, "rounds") \/ EscalateTo(c, u, "rounds")
                    \/ Advance(c, u, target)
    <3>1. /\ ChargeTarget(s, target) \in RunState
          /\ ChargeOwn(ChargeTarget(s, target), s.at) \in RunState
      BY <1>1, <2>4, ChargeType
    <3>2. "rounds" \in Causes
      BY DEF Causes
    <3>3. QED
      BY <2>4, <3>1, <3>2
  <2>5. QED
    BY <2>1, <2>2, <2>3, <2>4 DEF ApplyTransition
<1>3. /\ mem' \in [Callers -> RunState] /\ snap' \in [Callers -> RunState]
      /\ pc' \in [Callers -> Points]
  <2>1. CASE Finish(c, s, "succeeded")
    BY <1>1, <2>1, FinishType DEF Statuses
  <2>2. CASE \E t \in RunState, x \in Causes : EscalateTo(c, t, x)
    BY <2>2, EscalateType
  <2>3. CASE \E t \in RunState, i \in 1..Len(Lane) : Advance(c, t, i)
    <3>1. PICK t \in RunState, i \in 1..Len(Lane) : Advance(c, t, i)
      BY <2>3
    <3>2. i \in Steps(Lane) /\ t.iteration + 1 \in Nat
      BY LaneFacts DEF RunState
    <3>3. [t EXCEPT !.iteration = t.iteration + 1, !.at = i] \in RunState
      BY <3>2 DEF RunState
    <3>4. Save(c, [t EXCEPT !.iteration = t.iteration + 1, !.at = i], "nextSave")
      BY <3>1 DEF Advance
    <3>5. QED
      BY <3>3, <3>4, SaveType DEF Points, LivePoints
  <2>4. QED
    BY <1>2, <2>1, <2>2, <2>3
<1>4. QED
  BY <1>3 DEF TypeOK, ApplyTransition

(* Crashes, sessions, late pushes and the operator's edits.                 *)
LEMMA WorldType ==
  ASSUME TypeOK,
         \/ \E p \in Procs : Crash(p) \/ SessionStart(p)
         \/ \E body \in late : LatePublish(body)
         \/ HandEdit
  PROVE  TypeOK'
<1>1. ASSUME NEW p \in Procs, Crash(p)
      PROVE  TypeOK'
  <2>1. pc' \in [Callers -> Points] /\ req' \in [Callers -> Request]
    BY <1>1, NewTypes DEF TypeOK, Crash, Points
  <2>2. mem' \in [Callers -> RunState] /\ snap' \in [Callers -> RunState]
    BY <1>1, NewTypes DEF TypeOK, Crash
  <2>3. res' \in [Callers -> StepResult]
    BY <1>1, NewTypes DEF TypeOK, Crash
  <2>4. /\ active' \in [Procs -> Callers \cup {NoCaller}]
        /\ up' \subseteq Procs /\ late' \subseteq LateBodies
    BY <1>1 DEF TypeOK, Crash
  <2>5. QED
    BY <1>1, <2>1, <2>2, <2>3, <2>4 DEF TypeOK, Crash
<1>2. ASSUME NEW p \in Procs, SessionStart(p)
      PROVE  TypeOK'
  <2>1. disk' \in RunState
    BY <1>2 DEF TypeOK, SessionStart, RunState, Statuses
  <2>2. hist' \in History
    BY <1>2 DEF TypeOK, SessionStart, History
  <2>3. QED
    BY <1>2, <2>1, <2>2 DEF TypeOK, SessionStart
<1>3. ASSUME NEW body \in late, LatePublish(body)
      PROVE  TypeOK'
  <2>1. hist' \in History
    BY <1>3, PushType DEF TypeOK, LatePublish
  <2>2. QED
    BY <1>3, <2>1 DEF TypeOK, LatePublish
<1>4. CASE HandEdit
  BY <1>4, GitType DEF TypeOK, HandEdit
<1>5. QED
  BY <1>1, <1>2, <1>3, <1>4

(* Every reachable state is well typed: run states move between disk, memory*)
(* and pending saves without ever naming a stage that does not exist or a   *)
(* counter below zero.                                                      *)
THEOREM TypeCorrect == Spec => []TypeOK
<1>1. Init => TypeOK
  <2> SUFFICES ASSUME Init PROVE TypeOK
    OBVIOUS
  <2>1. hist \in History
    BY DEF Init, History
  <2>2. git \in Git
    BY DEF Init, Git, Base
  <2>3. QED
    BY <2>1, <2>2, NewTypes DEF Init, TypeOK, Points
<1>2. TypeOK /\ [Next]_vars => TypeOK'
  <2> SUFFICES ASSUME TypeOK, [Next]_vars PROVE TypeOK'
    OBVIOUS
  <2>1. CASE UNCHANGED vars
    BY <2>1 DEF vars, TypeOK
  <2>2. ASSUME NEW c \in Callers, Continue(c) PROVE TypeOK'
    BY <2>2, ResumeType, StartType, BodyType, FinishStepType, AfterType,
       TransitionType DEF Continue
  <2>3. QED
    BY <2>1, <2>2, CommandType, WorldType DEF Next
<1>3. QED
  BY <1>1, <1>2, PTL DEF Spec

-----------------------------------------------------------------------------
(* Why nothing is pushed that was not reviewed.  A run state is sound when  *)
(* its recorded checkpoints are versions the worktree has had and its       *)
(* judged version was reviewed, or can never be pushed with it: the tree    *)
(* has moved on, or the commit is not one of its checkpoints.               *)
SoundWith(s, g, reviewed) ==
  /\ \A v \in s.host : v <= g.tree
  /\ s.judged <= g.head
  /\ s.judged # 0 => \/ s.judged \in reviewed
                     \/ s.judged < g.tree
                     \/ s.judged # Base /\ s.judged \notin s.host
RunSound(s) == SoundWith(s, git, hist.reviewed)

(* Every run state the system holds somewhere, and what identifies it here. *)
Held == {NewRun, disk} \cup {mem[c] : c \in Callers}
          \cup {snap[c] : c \in Callers} \cup late
Same(s, t) == s.judged = t.judged /\ s.host = t.host

GitSound(g) == /\ Base <= g.head /\ g.head <= g.tree
               /\ g.head = Base \/ g.head \in g.commits

(* The caller is in the body of a stage, or has a PASS of it to record.     *)
InBody(c) ==
  \/ pc[c] = "invoke"
  \/ pc[c] = "finishing" /\ res[c].verdict = "PASS" /\ ~res[c].skipped

(* While a gating stage works its run has no checkpoint newer than the tree *)
(* the stage was given: a commit made meanwhile is foreign to the run.      *)
SeenSound(c) ==
  InBody(c) /\ ~isTerminalStep(Lane, mem[c].at) /\ Lane[mem[c].at].safetyGating
    => /\ Base <= hist.seen[c] /\ hist.seen[c] <= git.tree
       /\ \A v \in mem[c].host : v <= hist.seen[c]

Sound ==
  /\ \A s \in Held : RunSound(s)
  /\ GitSound(git)
  /\ \A c \in Callers : SeenSound(c)
  /\ PushedWasReviewed

(* A step that copies run states about and starts no stage body.            *)
Quiet ==
  /\ \A t \in Held' : \E s \in Held : Same(s, t)
  /\ \A d \in Callers :
       InBody(d)' => InBody(d) /\ Same(mem[d], mem'[d]) /\ mem'[d].at = mem[d].at

LEMMA HeldTypes ==
  ASSUME TypeOK
  PROVE  \A s \in Held : s.judged \in Nat /\ s.host \subseteq Nat
  BY NewTypes DEF TypeOK, Held, RunState, LateBodies

(* What is sound stays sound while versions and reviews are only added.     *)
LEMMA SoundGrows ==
  ASSUME NEW s, s.judged \in Nat, s.host \subseteq Nat, NEW t, Same(s, t),
         NEW g \in Git, NEW h \in Git, NEW old, NEW new,
         SoundWith(s, g, old), g.tree <= h.tree, g.head <= h.head,
         old \subseteq new
  PROVE  SoundWith(t, h, new)
  BY DEF SoundWith, Same, Git

(* A checkpoint records only a version that is newer than HEAD.             *)
LEMMA SoundCheckpoint ==
  ASSUME NEW s \in RunState, NEW g \in Git, GitSound(g), NEW reviewed,
         SoundWith(s, g, reviewed)
  PROVE  SoundWith(Checkpointed(s, g), Checkpoint(g), reviewed)
<1>1. CASE Dirty(g)
  <2>1. /\ Checkpointed(s, g).host = s.host \cup {g.tree}
        /\ Checkpointed(s, g).judged = s.judged
        /\ Checkpoint(g).tree = g.tree /\ Checkpoint(g).head = g.tree
    BY <1>1 DEF RunState, Git, Checkpointed, Checkpoint, Committed
  <2>2. s.judged < g.tree /\ \A v \in s.host : v \in Nat
    BY <1>1 DEF SoundWith, GitSound, Dirty, RunState, Git
  <2>3. QED
    BY <2>1, <2>2 DEF SoundWith, RunState, Git
<1>2. QED
  BY <1>1 DEF Checkpointed, Checkpoint

(* The worktree only moves forward.                                         *)
LEMMA GitGrows ==
  ASSUME NEW g \in Git, GitSound(g)
  PROVE  /\ GitSound(Edited(g)) /\ GitSound(Committed(g)) /\ GitSound(Checkpoint(g))
         /\ g.tree <= Edited(g).tree /\ g.head <= Edited(g).head
         /\ g.tree <= Committed(g).tree /\ g.head <= Committed(g).head
         /\ g.tree <= Checkpoint(g).tree /\ g.head <= Checkpoint(g).head
<1>1. /\ GitSound(Edited(g)) /\ g.tree <= Edited(g).tree
      /\ g.head <= Edited(g).head
  BY DEF Git, GitSound, Edited
<1>2. /\ GitSound(Committed(g)) /\ g.tree <= Committed(g).tree
      /\ g.head <= Committed(g).head
  <2>1. /\ Committed(g).tree = g.tree /\ Committed(g).head = g.tree
        /\ g.tree \in Committed(g).commits
    BY DEF Git, Committed
  <2>2. /\ g.tree \in Nat /\ g.head \in Nat /\ Base \in Nat
        /\ Base <= g.head /\ g.head <= g.tree
    BY DEF Git, GitSound, Base
  <2>3. QED
    BY <2>1, <2>2 DEF GitSound
<1>3. g.tree <= g.tree /\ g.head <= g.head
  BY DEF Git
<1>4. QED
  BY <1>1, <1>2, <1>3 DEF Checkpoint

(* The preflight only passes a version that was reviewed.                   *)
LEMMA PreflightReviewed ==
  ASSUME NEW s, RunSound(s), GitSound(git), git \in Git,
         Preflight(s.judged, s.host)
  PROVE  git.head \in hist.reviewed
  BY DEF RunSound, SoundWith, GitSound, Preflight, Dirty, Git

LEMMA QuietStep ==
  ASSUME TypeOK, TypeOK', Sound, Quiet,
         git' = git, hist'.reviewed = hist.reviewed,
         PushedWasReviewed', hist'.seen = hist.seen
  PROVE  Sound'
<1>1. git \in Git /\ git.tree <= git.tree /\ git.head <= git.head
  BY DEF TypeOK, Git
<1>2. \A t \in Held' : RunSound(t)'
  <2> TAKE t \in Held'
  <2>1. PICK s \in Held : Same(s, t)
    BY DEF Quiet
  <2>2. s.judged \in Nat /\ s.host \subseteq Nat /\ SoundWith(s, git, hist.reviewed)
    BY HeldTypes DEF Sound, RunSound
  <2>3. SoundWith(t, git, hist.reviewed)
    BY <1>1, <2>1, <2>2, SoundGrows
  <2>4. QED
    BY <2>3 DEF RunSound
<1>3. GitSound(git)'
  BY DEF Sound
<1>4. \A c \in Callers : SeenSound(c)'
  BY DEF Sound, SeenSound, Quiet, Same
<1>5. QED
  BY <1>2, <1>3, <1>4 DEF Sound

(* A step of one caller is quiet when it leaves the stage body and puts     *)
(* only held run states into memory, into its pending save and on disk.     *)
Kept(t) == \E s \in Held : Same(s, t)

LEMMA QuietStepOf ==
  ASSUME TypeOK, TypeOK', NEW c \in Callers,
         \A d \in Callers \ {c} : /\ pc'[d] = pc[d] /\ mem'[d] = mem[d]
                                 /\ res'[d] = res[d] /\ snap'[d] = snap[d],
         pc'[c] \notin {"invoke", "finishing"},
         Kept(disk'), Kept(mem'[c]), Kept(snap'[c]),
         \A b \in late' : Kept(b)
  PROVE  Quiet
<1>1. \A h \in Held : Kept(h)
  BY DEF Kept, Same
<1>2. Kept(NewRun) /\ \A d \in Callers : Kept(mem[d]) /\ Kept(snap[d])
  BY <1>1 DEF Held
<1>3. \A d \in Callers : Kept(mem'[d]) /\ Kept(snap'[d])
  BY <1>2
<1>4. NewRun' = NewRun
  BY DEF NewRun
<1>5. \A t \in Held' : Kept(t)
  BY <1>2, <1>3, <1>4 DEF Held
<1>6. \A d \in Callers :
        InBody(d)' => InBody(d) /\ Same(mem[d], mem'[d]) /\ mem'[d].at = mem[d].at
  BY DEF InBody, Same
<1>7. QED
  BY <1>5, <1>6 DEF Quiet, Kept

LEMMA HeldKept ==
  /\ Kept(NewRun) /\ Kept(disk) /\ \A b \in late : Kept(b)
  /\ \A d \in Callers : Kept(mem[d]) /\ Kept(snap[d])
  BY DEF Kept, Held, Same

(* The shared steps are quiet.                                              *)
LEMMA QuietSave ==
  ASSUME TypeOK, TypeOK', NEW c \in Callers, NEW s, NEW p,
         p \notin {"invoke", "finishing"}, Kept(s), Save(c, s, p),
         UNCHANGED <<disk, res, late>>
  PROVE  Quiet
  BY QuietStepOf, HeldKept DEF Save, Goto, TypeOK

LEMMA QuietFinish ==
  ASSUME TypeOK, TypeOK', NEW c \in Callers, NEW s, NEW x,
         s \in RunState, Kept(s),
         Finish(c, s, x) \/ EscalateTo(c, s, x), UNCHANGED <<disk, res, late>>
  PROVE  Quiet
<1>1. /\ Kept([s EXCEPT !.status = x, !.cancelling = FALSE])
      /\ Kept([s EXCEPT !.cause = x, !.at = Escalate(Lane)])
  BY DEF Kept, Same, RunState
<1>2. QED
  BY <1>1, QuietSave DEF Finish, EscalateTo

LEMMA QuietRename ==
  ASSUME TypeOK, TypeOK', NEW c \in Callers, NEW point, NEW next,
         next \notin {"invoke", "finishing"}, Saved(c, point, next),
         \/ Forget(c)
         \/ mem' = mem /\ (res' = res \/ res' = [res EXCEPT ![c] = NoResult]),
         late' = late
  PROVE  Quiet
  BY QuietStepOf, HeldKept DEF Saved, Rename, Goto, Forget, TypeOK

LEMMA QuietReturn ==
  ASSUME TypeOK, TypeOK', NEW c \in Callers, Return(c) \/ Throw(c),
         UNCHANGED <<disk, snap>> \/ Rename(c), late' = late
  PROVE  Quiet
  BY QuietStepOf, HeldKept DEF Return, Throw, Rename, Goto, Forget, TypeOK

LEMMA QuietGoto ==
  ASSUME TypeOK, TypeOK', NEW c \in Callers, NEW p,
         p \notin {"invoke", "finishing"}, Goto(c, p),
         UNCHANGED <<disk, mem, snap, res, late>>
  PROVE  Quiet
  BY QuietStepOf, HeldKept DEF Goto, TypeOK

(* Every command is quiet.                                                  *)
LEMMA QuietCommand ==
  ASSUME TypeOK, TypeOK', NEW c \in Callers, Command(c)
  PROVE  /\ Quiet /\ git' = git /\ hist'.reviewed = hist.reviewed
         /\ hist'.pushed = hist.pushed /\ hist'.seen = hist.seen
<1>1. ASSUME NEW cmd, NEW from, NEW decision, NEW reset,
             Issue(c, cmd, from, decision, reset)
      PROVE  /\ Quiet /\ git' = git /\ hist'.reviewed = hist.reviewed
             /\ hist'.pushed = hist.pushed /\ hist'.seen = hist.seen
  BY <1>1, QuietGoto DEF Issue, TypeOK, History
<1>2. CASE CallRun(c)
  BY <1>2, QuietGoto DEF CallRun, TypeOK, History
<1>3. CASE CallCancel(c)
  BY <1>3, QuietGoto DEF CallCancel
<1>4. CASE CancelLive(c)
  <2> DEFINE d == active[HomeOf[c]]
  <2>1. d \in Callers
    BY <1>4, CallerAssumption DEF TypeOK, CancelLive
  <2>2. mem[d] \in RunState
    BY <2>1 DEF TypeOK
  <2>3. /\ \A e \in Callers \ {d} : mem'[e] = mem[e]
        /\ mem'[d] = [mem[d] EXCEPT !.cancelling = TRUE]
    BY <1>4, <2>1 DEF CancelLive, TypeOK
  <2>4. \A e \in Callers : Same(mem[e], mem'[e]) /\ mem'[e].at = mem[e].at
    BY <2>2, <2>3 DEF Same, RunState
  <2>5. NewRun' = NewRun /\ UNCHANGED <<disk, snap, late, pc, res>>
    BY <1>4 DEF NewRun, CancelLive
  <2>6. \A t \in Held' : Kept(t)
    BY <2>4, <2>5, HeldKept DEF Held, Kept
  <2>7. Quiet
    BY <2>4, <2>5, <2>6 DEF Quiet, Kept, InBody
  <2>8. QED
    BY <1>4, <2>7 DEF CancelLive, TypeOK, History
<1>5. QED
  BY <1>1, <1>2, <1>3, <1>4
  DEF Command, CallResume, CallApprove, CallReplan, CallRevise

(* So is everything executeRun and resumeRun do outside a stage body.       *)
LEMMA QuietControl ==
  ASSUME TypeOK, TypeOK', NEW c \in Callers,
         \/ SetupDone(c) \/ SetupFailed(c) \/ SetupSaved(c)
         \/ CancelLoad(c) \/ CancelSaved(c)
         \/ ResumeCheck(c) \/ ResumeLoad(c) \/ ResumeSaved(c)
         \/ ExecCheck(c) \/ ExecLoad(c) \/ BeginSaved(c)
         \/ TopCancelled(c) \/ TopExhausted(c) \/ ConsumeDecision(c)
         \/ StepSaved(c) \/ AfterCancelled(c) \/ AfterExhausted(c)
         \/ AfterPause(c) \/ AfterTerminal(c) \/ AfterEscalation(c)
         \/ NextSaved(c) \/ ExecuteEnds(c)
  PROVE  /\ Quiet /\ git' = git /\ hist'.reviewed = hist.reviewed
         /\ hist'.pushed = hist.pushed /\ hist'.seen = hist.seen
<1>a. mem[c] \in RunState /\ disk \in RunState /\ Kept(mem[c]) /\ Kept(disk)
  BY HeldKept DEF TypeOK
<1>1. CASE SetupDone(c)
  BY <1>1, QuietGoto DEF SetupDone
<1>2. CASE SetupFailed(c)
  <2>1. Kept([mem[c] EXCEPT !.status = "failed", !.cause = "setup"])
    BY <1>a DEF Kept, Same, RunState
  <2>2. QED
    BY <1>2, <2>1, QuietSave DEF SetupFailed
<1>3. CASE SetupSaved(c) \/ CancelSaved(c)
  BY <1>3, QuietReturn DEF SetupSaved, CancelSaved
<1>4. CASE CancelLoad(c)
  <2>1. Kept([disk EXCEPT !.status = "cancelled", !.cancelling = FALSE])
    BY <1>a DEF Kept, Same, RunState
  <2>2. QED
    BY <1>4, <2>1, QuietSave, QuietReturn DEF CancelLoad
<1>5. CASE ResumeCheck(c)
  BY <1>5, QuietGoto, QuietReturn DEF ResumeCheck
<1>6. CASE ResumeLoad(c)
  <2>1. Same(disk, Resumed(disk, req[c]))
    BY <1>a DEF Same, Resumed, ResetRound, RunState
  <2>2. Kept(Resumed(disk, req[c]))
    BY <2>1 DEF Kept, Held
  <2>3. Quiet
    BY <1>6, <2>2, QuietSave, QuietReturn DEF ResumeLoad
  <2>4. QED
    BY <1>6, <2>3 DEF ResumeLoad, TypeOK, History
<1>7. CASE ResumeSaved(c)
  <2>1. /\ Saved(c, "resumeSave", "execCheck") /\ Forget(c)
        /\ late' = late /\ git' = git /\ hist' = hist
    BY <1>7 DEF ResumeSaved
  <2>2. QED
    BY <2>1, QuietRename
<1>8. CASE ExecCheck(c)
  BY <1>8, QuietGoto, QuietReturn DEF ExecCheck
<1>9. CASE ExecLoad(c)
  <2>1. Kept([disk EXCEPT !.status = "running"])
    BY <1>a DEF Kept, Same, RunState
  <2>2. CASE Return(c) /\ UNCHANGED <<snap, active>>
    BY <1>9, <2>2, QuietReturn DEF ExecLoad
  <2>3. CASE /\ Save(c, [disk EXCEPT !.status = "running"], "beginSave")
             /\ UNCHANGED <<req, res>>
    BY <1>9, <2>1, <2>3, QuietSave DEF ExecLoad
  <2>4. QED
    BY <1>9, <2>2, <2>3 DEF ExecLoad
<1>10. CASE BeginSaved(c) \/ StepSaved(c) \/ NextSaved(c)
  <2>1. /\ late' = late /\ git' = git /\ hist' = hist /\ mem' = mem
        /\ res' = res \/ res' = [res EXCEPT ![c] = NoResult]
        /\ \/ Saved(c, "beginSave", "top") \/ Saved(c, "stepSave", "after")
           \/ Saved(c, "nextSave", "top")
    BY <1>10 DEF BeginSaved, StepSaved, NextSaved
  <2>2. "top" \notin {"invoke", "finishing"} /\ "after" \notin {"invoke", "finishing"}
    OBVIOUS
  <2>3. Quiet
    BY <2>1, <2>2, QuietRename
  <2>4. QED
    BY <2>1, <2>3
<1>11. CASE \/ TopCancelled(c) \/ TopExhausted(c) \/ AfterCancelled(c)
            \/ AfterExhausted(c) \/ AfterTerminal(c) \/ AfterEscalation(c)
  BY <1>a, <1>11, QuietFinish
  DEF TopCancelled, TopExhausted, AfterCancelled, AfterExhausted,
      AfterTerminal, AfterEscalation
<1>12. CASE ConsumeDecision(c)
  <2>1. Kept([mem[c] EXCEPT !.decision = FALSE])
    BY <1>a DEF Kept, Same, RunState
  <2>2. QED
    BY <1>12, <2>1, QuietSave DEF ConsumeDecision
<1>13. CASE AfterPause(c)
  <2>1. Kept([mem[c] EXCEPT !.status = "waiting_user"])
    BY <1>a DEF Kept, Same, RunState
  <2>2. QED
    BY <1>13, <2>1, QuietSave DEF AfterPause
<1>14. CASE ExecuteEnds(c)
  BY <1>14, QuietReturn DEF ExecuteEnds
<1>15. QED
  BY <1>1, <1>2, <1>3, <1>4, <1>5, <1>6, <1>7, <1>8, <1>9, <1>10, <1>11,
     <1>12, <1>13, <1>14

LEMMA QuietTransition ==
  ASSUME TypeOK, TypeOK', NEW c \in Callers, ApplyTransition(c)
  PROVE  Quiet
<1> DEFINE s == mem[c]
           target == Transition(Lane, s.at, res[c].verdict)
           t == ChargeTarget(s, target)
           u == ChargeOwn(t, s.at)
<1>1. s \in RunState /\ Kept(s)
  BY HeldKept DEF TypeOK
<1>2. /\ s.at \in 1..(Len(Lane) + 1) /\ s.at # Len(Lane) + 1
  BY <1>1, LaneFacts DEF ApplyTransition, isTerminalStep, Escalate, RunState
<1>3. s.at \in 1..Len(Lane)
  BY <1>2, LaneFacts
<1>4. UNCHANGED <<disk, res, late>>
  BY DEF ApplyTransition
<1>5. ASSUME NEW v \in RunState, Same(s, v)
      PROVE  Kept(v)
  BY <1>1, <1>5 DEF Kept, Same
<1>6. ASSUME target \in 1..Len(Lane)
      PROVE  t \in RunState /\ u \in RunState /\ Same(s, t) /\ Same(s, u)
  <2>1. t \in RunState /\ u \in RunState
    BY <1>1, <1>3, <1>6, ChargeType
  <2>2. Same(s, t)
    BY <1>1 DEF Same, ChargeTarget, RunState
  <2>3. Same(t, u)
    BY <2>1 DEF Same, ChargeOwn, RunState
  <2>4. QED
    BY <2>1, <2>2, <2>3 DEF Same
<1>7. ASSUME NEW v \in RunState, Same(s, v), NEW i, Advance(c, v, i)
      PROVE  Quiet
  <2>1. Same(v, [v EXCEPT !.iteration = @ + 1, !.at = i])
    BY DEF Same, RunState
  <2>2. Kept([v EXCEPT !.iteration = @ + 1, !.at = i])
    BY <1>1, <1>7, <2>1 DEF Kept, Same
  <2>3. QED
    BY <1>4, <1>7, <2>2, QuietSave DEF Advance
<1>8. CASE Finish(c, s, "succeeded") \/ EscalateTo(c, s, "onfail")
  BY <1>1, <1>4, <1>8, QuietFinish
<1>9. CASE target \in 1..Len(Lane) /\ Advance(c, s, target)
  BY <1>1, <1>7, <1>9 DEF Same
<1>10. CASE /\ target \in 1..Len(Lane)
            /\ \/ EscalateTo(c, t, "rounds") \/ EscalateTo(c, u, "rounds")
               \/ Advance(c, u, target)
  <2>1. t \in RunState /\ u \in RunState /\ Same(s, t) /\ Same(s, u)
    BY <1>6, <1>10
  <2>2. Kept(t) /\ Kept(u)
    BY <1>5, <2>1
  <2>3. QED
    BY <1>4, <1>7, <1>10, <2>1, <2>2, QuietFinish
<1>11. QED
  BY <1>8, <1>9, <1>10 DEF ApplyTransition

(* A stage that returns without touching the worktree or its run state, and *)
(* one that is skipped, are quiet.                                          *)
LEMMA QuietBody ==
  ASSUME TypeOK, TypeOK', NEW c \in Callers, pc[c] = "invoke",
         NEW r, Returns(c, r), UNCHANGED <<disk, mem, snap>>,
         \A b \in late' : Kept(b)
  PROVE  Quiet
<1>1. NewRun' = NewRun
  BY DEF NewRun
<1>2. \A t \in Held' : Kept(t)
  BY <1>1, HeldKept DEF Held
<1>3. \A d \in Callers :
        InBody(d)' => InBody(d) /\ Same(mem[d], mem'[d]) /\ mem'[d].at = mem[d].at
  BY DEF InBody, Same, Returns, Goto, TypeOK
<1>4. QED
  BY <1>2, <1>3 DEF Quiet, Kept

LEMMA QuietSkip ==
  ASSUME TypeOK, TypeOK', NEW c \in Callers, SkipStage(c)
  PROVE  Quiet
<1>1. NewRun' = NewRun /\ UNCHANGED <<disk, mem, snap, late>>
  BY DEF NewRun, SkipStage
<1>2. \A t \in Held' : Kept(t)
  BY <1>1, HeldKept DEF Held
<1>3. /\ \A d \in Callers \ {c} : pc'[d] = pc[d] /\ res'[d] = res[d]
      /\ pc'[c] = "finishing" /\ (res'[c].verdict = "FAIL" \/ res'[c].skipped)
  <2> DEFINE skip == [NoResult EXCEPT !.skipped = TRUE]
             fail == [NoResult EXCEPT !.verdict = "FAIL", !.escalate = TRUE]
  <2>a. skip.skipped /\ fail.verdict = "FAIL"
    BY DEF NoResult
  <2>b. res' = [res EXCEPT ![c] = skip] \/ res' = [res EXCEPT ![c] = fail]
    BY DEF SkipStage
  <2>1. PICK r : /\ res' = [res EXCEPT ![c] = r]
                 /\ r.verdict = "FAIL" \/ r.skipped
    BY <2>a, <2>b
  <2>2. pc' = [pc EXCEPT ![c] = "finishing"]
    BY DEF SkipStage, Goto
  <2>3. QED
    BY <2>1, <2>2 DEF TypeOK
<1>4. \A d \in Callers :
        InBody(d)' => InBody(d) /\ Same(mem[d], mem'[d]) /\ mem'[d].at = mem[d].at
  BY <1>1, <1>3 DEF InBody, Same
<1>5. QED
  BY <1>2, <1>4 DEF Quiet, Kept

(* A stage that starts is given the tree as it is: no checkpoint of its run *)
(* is newer.                                                                *)
LEMMA StartSound ==
  ASSUME TypeOK, TypeOK', Sound, NEW c \in Callers,
         DecisionSaved(c) \/ StartStage(c)
  PROVE  Sound'
<1>1. /\ git' = git /\ mem' = mem /\ res' = res /\ late' = late
      /\ hist'.reviewed = hist.reviewed /\ hist'.pushed = hist.pushed
      /\ hist'.seen = [hist.seen EXCEPT ![c] = git.tree]
      /\ \A d \in Callers \ {c} : pc'[d] = pc[d]
  BY DEF DecisionSaved, Saved, Rename, StartStage, Goto, TypeOK, History
<1>2. NewRun' = NewRun
  BY DEF NewRun
<1>3. disk' \in {disk, snap[c]} /\ \A d \in Callers : snap'[d] \in {snap[d], NewRun}
  BY DEF DecisionSaved, Saved, Rename, StartStage, TypeOK
<1>4. Held' \subseteq Held
  BY <1>1, <1>2, <1>3 DEF Held
<1>5. \A t \in Held' : RunSound(t)'
  BY <1>1, <1>4 DEF Sound, RunSound
<1>6. hist.seen \in [Callers -> Nat] /\ git.tree \in Nat
  BY DEF TypeOK, History, Git
<1>7. SeenSound(c)'
  <2>1. RunSound(mem[c]) /\ Base <= git.tree /\ git.tree <= git.tree
    BY <1>6 DEF Sound, Held, GitSound, TypeOK, Git, Base
  <2>2. hist'.seen[c] = git.tree
    BY <1>1, <1>6
  <2>3. QED
    BY <1>1, <2>1, <2>2 DEF SeenSound, RunSound, SoundWith
<1>8. \A d \in Callers \ {c} : SeenSound(d)'
  BY <1>1, <1>6 DEF Sound, SeenSound, InBody
<1>9. PushedWasReviewed' /\ GitSound(git)'
  BY <1>1 DEF Sound, PushedWasReviewed
<1>10. QED
  BY <1>5, <1>7, <1>8, <1>9 DEF Sound

(* A stage that returns leaves what it was given, or what it was given and  *)
(* an edit, or that committed by the verifier's checkpoint.                 *)
LEMMA StageReturnsSound ==
  ASSUME TypeOK, TypeOK', Sound, NEW c \in Callers, StageReturns(c)
  PROVE  Sound'
<1>1. PICK g \in {git} \cup (IF git.tree < MaxTree THEN {Edited(git)} ELSE {}),
           r \in Outcomes(StageOf(c)) :
        \/ /\ r.verdict = "PASS" /\ StageOf(c).verify
           /\ LET checked == IF r.commit THEN Checkpoint(g) ELSE g
              IN  /\ git' = checked
                  /\ mem' = [mem EXCEPT ![c] =
                               IF r.commit THEN Checkpointed(@, g) ELSE @]
                  /\ \E v \in Verified(r, checked) : Returns(c, v)
        \/ /\ ~(r.verdict = "PASS" /\ StageOf(c).verify)
           /\ Returns(c, r)
           /\ git' = g
           /\ UNCHANGED mem
  BY DEF StageReturns
<1>2. /\ UNCHANGED <<disk, snap, late, hist>>
      /\ pc[c] = "invoke" /\ mem[c].at # Escalate(Lane)
      /\ pc' = [pc EXCEPT ![c] = "finishing"]
      /\ \A d \in Callers \ {c} : res'[d] = res[d] /\ mem'[d] = mem[d]
  BY <1>1 DEF StageReturns, AtStage, isTerminalStep, Returns, Goto, TypeOK
<1>3. /\ git \in Git /\ mem[c] \in RunState /\ GitSound(git)
      /\ SoundWith(mem[c], git, hist.reviewed)
  BY DEF TypeOK, Sound, RunSound, Held
<1>4. /\ g \in Git /\ GitSound(g) /\ git.tree <= g.tree /\ git.head <= g.head
  <2>1. g \in {git, Edited(git)} /\ git.tree <= git.tree /\ git.head <= git.head
    BY <1>3 DEF Git
  <2>2. QED
    BY <1>3, <2>1, GitType, GitGrows
<1>5. SoundWith(mem[c], g, hist.reviewed)
  <2>1. /\ mem[c].judged \in Nat /\ mem[c].host \subseteq Nat
        /\ Same(mem[c], mem[c]) /\ hist.reviewed \subseteq hist.reviewed
    BY <1>3 DEF RunState, Same
  <2>2. QED
    BY <1>3, <1>4, <2>1, SoundGrows
<1>6. \/ git' = g /\ mem'[c] = mem[c]
      \/ /\ git' = Checkpoint(g) /\ mem'[c] = Checkpointed(mem[c], g)
         /\ StageOf(c).verify
  BY <1>1 DEF TypeOK
<1>7. /\ GitSound(git') /\ git.tree <= git'.tree /\ git.head <= git'.head
      /\ git' \in Git /\ SoundWith(mem'[c], git', hist.reviewed)
  <2>1. CASE git' = g /\ mem'[c] = mem[c]
    BY <1>4, <1>5, <2>1
  <2>2. CASE git' = Checkpoint(g) /\ mem'[c] = Checkpointed(mem[c], g)
    <3>1. /\ GitSound(git') /\ g.tree <= git'.tree /\ g.head <= git'.head
          /\ git' \in Git
      BY <1>4, <2>2, GitType, GitGrows
    <3>2. git.tree <= git'.tree /\ git.head <= git'.head
      BY <1>3, <1>4, <3>1 DEF Git
    <3>3. QED
      BY <1>3, <1>4, <1>5, <2>2, <3>1, <3>2, SoundCheckpoint
  <2>3. QED
    BY <1>6, <2>1, <2>2
<1>8. \A t \in Held' : RunSound(t)'
  <2>1. NewRun' = NewRun
    BY DEF NewRun
  <2>2. Held' \subseteq Held \cup {mem'[c]}
    BY <1>2, <2>1 DEF Held
  <2>3. ASSUME NEW t \in Held
        PROVE  SoundWith(t, git', hist.reviewed)
    <3>1. /\ t.judged \in Nat /\ t.host \subseteq Nat /\ Same(t, t)
          /\ SoundWith(t, git, hist.reviewed)
      BY HeldTypes DEF Same, Sound, RunSound
    <3>2. QED
      BY <1>3, <1>7, <3>1, SoundGrows
  <2>4. QED
    BY <1>2, <1>7, <2>2, <2>3 DEF RunSound
<1>9. ASSUME NEW d \in Callers
      PROVE  SeenSound(d)'
  <2>1. hist.seen[d] \in Nat /\ git.tree \in Nat /\ git'.tree \in Nat
    BY <1>7 DEF TypeOK, History, Git
  <2>2. CASE d # c
    BY <1>2, <1>7, <2>1, <2>2 DEF Sound, SeenSound, InBody, TypeOK
  <2>3. CASE d = c
    <3>1. mem'[c].at = mem[c].at
      BY <1>3, <1>6 DEF Checkpointed, RunState
    <3>2. mem[c].at \in 1..(Len(Lane) + 1) /\ mem[c].at # Len(Lane) + 1
      BY <1>2, <1>3, LaneFacts DEF RunState, Escalate
    <3>3. mem[c].at \in 1..Len(Lane)
      BY <3>2, LaneFacts
    <3>4. Lane[mem[c].at].safetyGating => mem'[c] = mem[c]
      BY <1>6, <3>3, GatingAssumption DEF StageOf
    <3>5. InBody(c) /\ SeenSound(c)
      BY <1>2 DEF InBody, Sound
    <3>6. QED
      BY <1>2, <1>7, <2>1, <2>3, <3>1, <3>4, <3>5 DEF SeenSound
  <2>4. QED
    BY <2>2, <2>3
<1>10. PushedWasReviewed'
  BY <1>2 DEF Sound, PushedWasReviewed
<1>11. QED
  BY <1>7, <1>8, <1>9, <1>10 DEF Sound

(* The step that binds a PASS of a gating stage to HEAD.  HEAD is what the  *)
(* stage was given, and then reviewed; or older, and then the tree differs  *)
(* from HEAD; or newer, and then no checkpoint of this run.                 *)
LEMMA FinishStepSound ==
  ASSUME TypeOK, TypeOK', Sound, NEW c \in Callers, FinishStep(c)
  PROVE  Sound'
<1> DEFINE r == res[c]
           gating == ~isTerminalStep(Lane, mem[c].at) /\ Gating(Lane[mem[c].at], r)
           bound == [mem[c] EXCEPT !.judged = IF gating THEN git.head ELSE @,
                                   !.spent = @ + r.cost]
           kept == IF r.commit THEN Checkpointed(bound, git) ELSE bound
<1>1. /\ git \in Git /\ mem[c] \in RunState /\ GitSound(git) /\ r \in StepResult
      /\ SoundWith(mem[c], git, hist.reviewed)
      /\ hist.seen \in [Callers -> Nat] /\ pc[c] = "finishing"
  BY DEF TypeOK, Sound, RunSound, Held, History, FinishStep
<1>2. /\ hist'.reviewed = IF gating THEN hist.reviewed \cup {hist.seen[c]}
                          ELSE hist.reviewed
      /\ hist'.seen = [hist.seen EXCEPT ![c] = 0] /\ hist'.pushed = hist.pushed
  BY DEF FinishStep, TypeOK, History
<1>3. /\ Save(c, kept, "stepSave") /\ UNCHANGED <<disk, res, late>>
      /\ git' = IF r.commit THEN Checkpoint(git) ELSE git
  BY DEF FinishStep
<1>4. bound \in RunState /\ bound.host = mem[c].host
      /\ bound.judged = IF gating THEN git.head ELSE mem[c].judged
  <2>1. mem[c].spent + r.cost \in Nat
    BY <1>1 DEF RunState, StepResult
  <2>2. (IF gating THEN git.head ELSE mem[c].judged) \in Nat
    BY <1>1 DEF RunState, Git
  <2>3. QED
    BY <1>1, <2>1, <2>2 DEF RunState
<1>5. SoundWith(bound, git, hist'.reviewed)
  <2>1. CASE gating
    <3>1. InBody(c) /\ SeenSound(c)
      BY <1>1, <2>1 DEF InBody, Gating, Sound
    <3>2. /\ Base <= hist.seen[c] /\ hist.seen[c] <= git.tree
          /\ \A v \in mem[c].host : v <= hist.seen[c]
      BY <2>1, <3>1 DEF SeenSound, Gating
    <3>3. \A v \in mem[c].host : v \in Nat /\ v <= git.tree
      BY <1>1 DEF SoundWith, RunState
    <3>4. hist.seen[c] \in Nat /\ git.head \in Nat /\ git.tree \in Nat
      BY <1>1 DEF Git
    <3>5. CASE git.head = hist.seen[c]
      BY <1>2, <1>4, <2>1, <3>3, <3>4, <3>5 DEF SoundWith
    <3>6. CASE git.head < hist.seen[c]
      BY <1>4, <2>1, <3>2, <3>3, <3>4, <3>6 DEF SoundWith
    <3>7. CASE git.head > hist.seen[c]
      BY <1>4, <2>1, <3>2, <3>3, <3>4, <3>7 DEF SoundWith, Base
    <3>8. QED
      BY <3>4, <3>5, <3>6, <3>7
  <2>2. CASE ~gating
    BY <1>1, <1>2, <1>4, <2>2 DEF SoundWith
  <2>3. QED
    BY <2>1, <2>2
<1>6. /\ GitSound(git') /\ git' \in Git /\ SoundWith(kept, git', hist'.reviewed)
      /\ git.tree <= git'.tree /\ git.head <= git'.head
  <2>1. git.tree <= git.tree /\ git.head <= git.head
    BY <1>1 DEF Git
  <2>2. QED
    BY <1>1, <1>3, <1>4, <1>5, <2>1, SoundCheckpoint, GitGrows, GitType
<1>7. \A t \in Held' : RunSound(t)'
  <2>1. NewRun' = NewRun
    BY DEF NewRun
  <2>2. Held' \subseteq Held \cup {kept}
    BY <1>3, <2>1 DEF Held, Save, TypeOK
  <2>3. ASSUME NEW t \in Held
        PROVE  SoundWith(t, git', hist'.reviewed)
    <3>1. /\ t.judged \in Nat /\ t.host \subseteq Nat /\ Same(t, t)
          /\ SoundWith(t, git, hist.reviewed) /\ hist.reviewed \subseteq hist'.reviewed
      BY <1>2, HeldTypes DEF Same, Sound, RunSound
    <3>2. QED
      BY <1>1, <1>6, <3>1, SoundGrows
  <2>4. QED
    BY <1>6, <2>2, <2>3 DEF RunSound
<1>8. ASSUME NEW d \in Callers
      PROVE  SeenSound(d)'
  <2>1. hist.seen[d] \in Nat /\ git.tree \in Nat /\ git'.tree \in Nat
    BY <1>1, <1>6 DEF Git
  <2>2. CASE d # c
    BY <1>1, <1>2, <1>3, <1>6, <2>1, <2>2
    DEF Sound, SeenSound, InBody, Save, Goto, TypeOK
  <2>3. CASE d = c
    BY <1>3, <2>3 DEF SeenSound, InBody, Save, Goto, TypeOK
  <2>4. QED
    BY <2>2, <2>3
<1>9. PushedWasReviewed'
  BY <1>2 DEF Sound, PushedWasReviewed
<1>10. QED
  BY <1>6, <1>7, <1>8, <1>9 DEF Sound

(* A stage body of any kind keeps the invariant.                            *)
LEMMA BodySound ==
  ASSUME TypeOK, TypeOK', Sound, NEW c \in Callers, Body(c)
  PROVE  Sound'
<1>1. CASE TerminalReturns(c)
  <2>1. /\ pc[c] = "invoke" /\ UNCHANGED <<disk, mem, snap, late, git, hist>>
        /\ \E r : Returns(c, r)
    BY <1>1 DEF TerminalReturns
  <2>2. Quiet
    BY <2>1, QuietBody, HeldKept
  <2>3. QED
    BY <2>1, <2>2, QuietStep DEF Sound, PushedWasReviewed
<1>2. CASE SteerReturns(c)
  <2>1. /\ pc[c] = "invoke" /\ UNCHANGED <<disk, mem, snap, late, git>>
        /\ \E r : Returns(c, r)
    BY <1>2 DEF SteerReturns, AtStage
  <2>2. /\ hist'.reviewed = hist.reviewed /\ hist'.pushed = hist.pushed
        /\ hist'.seen = hist.seen
    BY <1>2 DEF SteerReturns, TypeOK, History
  <2>3. Quiet
    BY <2>1, QuietBody, HeldKept
  <2>4. QED
    BY <2>1, <2>2, <2>3, QuietStep DEF Sound, PushedWasReviewed
<1>3. CASE PublishReturns(c)
  <2>1. /\ pc[c] = "invoke" /\ UNCHANGED <<disk, mem, snap, late, git>>
        /\ \E r : Returns(c, r)
    BY <1>3 DEF PublishReturns, AtStage
  <2>2. RunSound(mem[c]) /\ GitSound(git) /\ git \in Git
    BY DEF Sound, Held, TypeOK
  <2>3. Push => hist'.reviewed = hist.reviewed /\ hist'.seen = hist.seen
                  /\ hist'.pushed = hist.pushed \cup {git.head}
    BY DEF Push, TypeOK, History
  <2>4. CASE Preflight(mem[c].judged, mem[c].host) /\ Push
    <3>1. PushedWasReviewed'
      BY <2>2, <2>3, <2>4, PreflightReviewed DEF Sound, PushedWasReviewed
    <3>2. Quiet
      BY <2>1, QuietBody, HeldKept
    <3>3. QED
      BY <2>1, <2>3, <2>4, <3>1, <3>2, QuietStep
  <2>5. CASE hist' = hist
    <3>1. Quiet
      BY <2>1, QuietBody, HeldKept
    <3>2. QED
      BY <2>1, <2>5, <3>1, QuietStep DEF Sound, PushedWasReviewed
  <2>6. QED
    BY <1>3, <2>4, <2>5 DEF PublishReturns
<1>4. CASE PublishTimesOut(c)
  <2> DEFINE body == [proc |-> HomeOf[c], judged |-> mem[c].judged,
                      host |-> mem[c].host]
  <2>1. /\ pc[c] = "invoke" /\ UNCHANGED <<disk, mem, snap, git, hist>>
        /\ late' = late \cup {body} /\ \E r : Returns(c, r)
    BY <1>4 DEF PublishTimesOut, AtStage
  <2>2. Kept(body)
    BY DEF Kept, Same, Held
  <2>3. Quiet
    BY <2>1, <2>2, QuietBody, HeldKept
  <2>4. QED
    BY <2>1, <2>3, QuietStep DEF Sound, PushedWasReviewed
<1>5. QED
  BY <1>1, <1>2, <1>3, <1>4, StageReturnsSound DEF Body

(* So do crashes, sessions, late pushes and the operator's hands.           *)
LEMMA WorldSound ==
  ASSUME TypeOK, TypeOK', Sound,
         \/ \E p \in Procs : Crash(p) \/ SessionStart(p)
         \/ \E body \in late : LatePublish(body)
         \/ HandEdit
  PROVE  Sound'
<1>0. NewRun' = NewRun
  BY DEF NewRun
<1>1. ASSUME NEW p \in Procs, Crash(p)
      PROVE  Sound'
  <2>1. /\ UNCHANGED <<disk, git, hist>> /\ late' \subseteq late
        /\ \A d \in Callers : mem'[d] \in {mem[d], NewRun}
                               /\ snap'[d] \in {snap[d], NewRun}
    BY <1>1 DEF Crash
  <2>2. \A d \in Callers : \/ pc'[d] = "idle"
                          \/ /\ pc'[d] = pc[d] /\ mem'[d] = mem[d]
                             /\ res'[d] = res[d]
    BY <1>1 DEF Crash
  <2>3. Held' \subseteq Held
    BY <1>0, <2>1 DEF Held
  <2>4. Quiet
    BY <2>2, <2>3 DEF Quiet, Same, InBody
  <2>5. QED
    BY <2>1, <2>4, QuietStep DEF Sound, PushedWasReviewed
<1>2. ASSUME NEW p \in Procs, SessionStart(p)
      PROVE  Sound'
  <2>1. /\ UNCHANGED <<mem, snap, pc, res, git, late>>
        /\ hist'.reviewed = hist.reviewed /\ hist'.pushed = hist.pushed
        /\ hist'.seen = hist.seen
    BY <1>2 DEF SessionStart, TypeOK, History
  <2>2. Same(disk, disk')
    BY <1>2 DEF SessionStart, Same, TypeOK, RunState
  <2>3. \A t \in Held' : Kept(t)
    BY <1>0, <2>1, <2>2, HeldKept DEF Held, Kept
  <2>4. Quiet
    BY <2>1, <2>3 DEF Quiet, Kept, Same, InBody
  <2>5. QED
    BY <2>1, <2>4, QuietStep DEF Sound, PushedWasReviewed
<1>3. ASSUME NEW body \in late, LatePublish(body)
      PROVE  Sound'
  <2>1. /\ UNCHANGED <<disk, mem, snap, pc, res, git>> /\ late' \subseteq late
        /\ (Preflight(body.judged, body.host) /\ Push) \/ hist' = hist
    BY <1>3 DEF LatePublish
  <2>2. Held' \subseteq Held
    BY <1>0, <2>1 DEF Held
  <2>3. Quiet
    BY <2>1, <2>2 DEF Quiet, Same, InBody
  <2>4. RunSound(body) /\ GitSound(git) /\ git \in Git
    BY DEF Sound, Held, TypeOK
  <2>5. Push => hist'.reviewed = hist.reviewed /\ hist'.seen = hist.seen
                  /\ hist'.pushed = hist.pushed \cup {git.head}
    BY DEF Push, TypeOK, History
  <2>6. PushedWasReviewed'
    BY <2>1, <2>4, <2>5, PreflightReviewed DEF Sound, PushedWasReviewed
  <2>7. QED
    BY <2>1, <2>3, <2>5, <2>6, QuietStep
<1>4. CASE HandEdit
  <2>1. /\ UNCHANGED <<disk, mem, snap, pc, res, late, hist>>
        /\ git' \in {Edited(git), Committed(git)}
    BY <1>4 DEF HandEdit
  <2>2. git \in Git /\ GitSound(git)
    BY DEF TypeOK, Sound
  <2>3. /\ git' \in Git /\ GitSound(git')
        /\ git.tree <= git'.tree /\ git.head <= git'.head
    BY <2>1, <2>2, GitType, GitGrows
  <2>4. Held' = Held
    BY <1>0, <2>1 DEF Held
  <2>5. ASSUME NEW t \in Held
        PROVE  SoundWith(t, git', hist.reviewed)
    <3>1. /\ t.judged \in Nat /\ t.host \subseteq Nat /\ Same(t, t)
          /\ SoundWith(t, git, hist.reviewed)
      BY HeldTypes DEF Same, Sound, RunSound
    <3>2. QED
      BY <2>2, <2>3, <3>1, SoundGrows
  <2>6. \A t \in Held' : RunSound(t)'
    BY <2>1, <2>4, <2>5 DEF RunSound
  <2>7. ASSUME NEW d \in Callers
        PROVE  SeenSound(d)'
    <3>1. hist.seen[d] \in Nat /\ git.tree \in Nat /\ git'.tree \in Nat
      BY <2>3 DEF TypeOK, History, Git
    <3>2. QED
      BY <2>1, <2>3, <3>1 DEF Sound, SeenSound, InBody
  <2>8. QED
    BY <2>1, <2>3, <2>6, <2>7 DEF Sound, PushedWasReviewed
<1>5. QED
  BY <1>1, <1>2, <1>3, <1>4

(* Whatever callers, sessions and hands do and however their steps overlap, *)
(* a commit that reached the remote has content that a safety-gating stage  *)
(* was given and passed.                                                    *)
THEOREM OnlyReviewedIsPushed == Spec => []PushedWasReviewed
<1>1. Init => Sound
  <2> SUFFICES ASSUME Init PROVE Sound
    OBVIOUS
  <2>1. Held = {NewRun}
    BY DEF Init, Held
  <2>2. NewRun.judged = 0 /\ NewRun.host = {}
    BY DEF NewRun
  <2>3. git.tree = 1 /\ git.head = 1
    BY DEF Init, Base
  <2>4. \A s \in Held : RunSound(s)
    BY <2>1, <2>2, <2>3 DEF RunSound, SoundWith
  <2>5. \A c \in Callers : ~InBody(c)
    BY DEF Init, InBody
  <2>6. PushedWasReviewed
    BY DEF Init, PushedWasReviewed
  <2>7. QED
    BY <2>3, <2>4, <2>5, <2>6 DEF Sound, SeenSound, GitSound, Base
<1>2. TypeOK /\ TypeOK' /\ Sound /\ [Next]_vars => Sound'
  <2> SUFFICES ASSUME TypeOK, TypeOK', Sound, [Next]_vars PROVE Sound'
    OBVIOUS
  <2>1. CASE UNCHANGED vars
    <3>1. /\ UNCHANGED <<disk, mem, snap, pc, res, late, git, hist>>
      BY <2>1 DEF vars
    <3>2. Held' = Held
      BY <3>1 DEF Held, NewRun
    <3>3. Quiet
      BY <3>1, <3>2 DEF Quiet, Same, InBody
    <3>4. QED
      BY <3>1, <3>3, QuietStep DEF Sound, PushedWasReviewed
  <2>2. ASSUME NEW c \in Callers, Command(c) PROVE Sound'
    BY <2>2, QuietCommand, QuietStep DEF Sound, PushedWasReviewed
  <2>3. ASSUME NEW c \in Callers, Continue(c) PROVE Sound'
    <3>1. CASE SkipStage(c)
      <4>1. git' = git /\ hist' = hist /\ Quiet
        BY <3>1, QuietSkip DEF SkipStage
      <4>2. QED
        BY <4>1, QuietStep DEF Sound, PushedWasReviewed
    <3>2. CASE ApplyTransition(c)
      <4>1. git' = git /\ hist' = hist /\ Quiet
        BY <3>2, QuietTransition DEF ApplyTransition
      <4>2. QED
        BY <4>1, QuietStep DEF Sound, PushedWasReviewed
    <3>3. CASE \/ DecisionSaved(c) \/ StartStage(c) \/ Body(c) \/ FinishStep(c)
      BY <3>3, StartSound, BodySound, FinishStepSound
    <3>4. CASE ~(\/ SkipStage(c) \/ ApplyTransition(c) \/ DecisionSaved(c)
                 \/ StartStage(c) \/ Body(c) \/ FinishStep(c))
      <4>1. /\ Quiet /\ git' = git /\ hist'.reviewed = hist.reviewed
            /\ hist'.pushed = hist.pushed /\ hist'.seen = hist.seen
        BY <2>3, <3>4, QuietControl DEF Continue
      <4>2. QED
        BY <4>1, QuietStep DEF Sound, PushedWasReviewed
    <3>5. QED
      BY <3>1, <3>2, <3>3, <3>4
  <2>4. QED
    BY <2>1, <2>2, <2>3, WorldSound DEF Next
<1>3. Sound => PushedWasReviewed
  BY DEF Sound
<1>4. QED
  BY <1>1, <1>2, <1>3, TypeCorrect, PTL DEF Spec

-----------------------------------------------------------------------------
(* One process and one command at a time.  Where calls may overlap freely   *)
(* (Overlap = "any") a second executor slips in, and none of what follows   *)
(* under Serial holds.                                                      *)
Serial == Overlap = "none" /\ \A p, q \in Procs : p = q

SavePoints == {"beginSave", "decisionSave", "stepSave", "nextSave"}

(* Who may be under way beside whom: a call that executes the run, and one  *)
(* that has come meanwhile and will find it executing.                      *)
Beside(c, d) ==
  \/ pc[d] = "idle"
  \/ Live(c) /\ req[c].cmd # "approve" /\ pc[d] = "resumeCheck"

Placed ==
  /\ \A c, d \in Callers : c # d => Beside(c, d) \/ Beside(d, c)
  /\ \A c \in Callers : Live(c) => active[HomeOf[c]] = c
  /\ \A p \in Procs : active[p] # NoCaller => Live(active[p])
  /\ \A c \in Callers : pc[c] # "idle" => HomeOf[c] \in up /\ hist.started

(* What a call that executes the run may write, as the disk stands.         *)
LiveFits(x, d, m, s) ==
  /\ d.status \notin {"succeeded", "cancelled"}
  /\ m.decision => d.decision
  /\ x # "endSave" => (d.cancelling => m.cancelling)
  /\ x \notin {"pauseSave", "endSave"} => m.status = "running"
  /\ x \in SavePoints => s.status = "running" /\ (s.cancelling => m.cancelling)
  /\ x \in SavePoints \cup {"pauseSave", "endSave"}
       => (s.decision => d.decision) /\ (m.decision => s.decision)
  /\ x = "decisionSave" => d.decision /\ ~s.decision
  /\ x = "pauseSave" => s.status = "waiting_user"
  /\ x = "endSave" => /\ s.status \in Finals /\ ~s.cancelling
                      /\ d.cancelling => s.status = "cancelled"

(* What any other call holds, and may write.                                *)
Fits(c) ==
  /\ pc[c] \in {"idle", "setup"} => mem[c] = NewRun
  /\ pc[c] \in {"setup", "setupSave"} => disk = NewRun
  /\ pc[c] = "setupSave" =>
       snap[c].status = "failed" /\ ~snap[c].cancelling /\ ~snap[c].decision
  /\ pc[c] = "resumeSave" =>
       /\ disk.status \notin {"succeeded", "cancelled"}
       /\ snap[c].status = "paused"
  /\ pc[c] = "cancelSave" =>
       /\ disk.status \notin Finals
       /\ snap[c].status = "cancelled" /\ ~snap[c].cancelling
       /\ snap[c].decision => disk.decision
  /\ Live(c) => LiveFits(pc[c], disk, mem[c], snap[c])

DiskFits ==
  /\ disk.status \in Finals => ~disk.cancelling
  /\ ~hist.started => disk = NewRun
  /\ RunningHasExecutor

(* A decision that is on its way to the disk.                               *)
Brings(c) ==
  \/ pc[c] \in {"resumeCheck", "resumeLoad"} /\ req[c].decision
  \/ pc[c] = "resumeSave" /\ snap[c].decision

Owed(n) ==
  hist.delivered + (IF disk.decision THEN 1 ELSE 0) + n <= hist.given

Counted == Owed(0) /\ \A c \in Callers : Brings(c) => Owed(1)

Controlled == Placed /\ (\A c \in Callers : Fits(c)) /\ DiskFits /\ Counted

-----------------------------------------------------------------------------
(* The stage where the operator is asked stands before every stage that     *)
(* implements (invariants.ts), and cannot be skipped.                       *)
Steers(h) ==
  /\ h \in 1..Len(Lane)
  /\ Lane[h].kind = "human" /\ ~Lane[h].optional /\ ~Lane[h].publish
  /\ Lane[h].onFail # "continue"
  /\ \A i \in 1..Len(Lane) : Lane[i].impl => h < i

(* Nobody has let the run through, and nobody has moved it.                 *)
Unsteered == hist.approvals = 0 /\ ~hist.jumped

Before(s, h) ==
  /\ s.at \in 1..h \cup {Escalate(Lane)}
  /\ \A i \in 1..Len(Lane) : Lane[i].impl => s.rounds[i] = 0

HeldBack(h) ==
  Unsteered =>
    /\ Before(disk, h)
    /\ \A c \in Callers :
         /\ Before(mem[c], h) /\ Before(snap[c], h)
         /\ pc[c] \in {"finishing", "stepSave", "after"} /\ mem[c].at = h
              => res[c].verdict # "PASS" \/ res[c].pause

ResetsImpl ==
  \A c \in Callers : req[c].reset # 0 => Lane[req[c].reset].impl

-----------------------------------------------------------------------------
(* What a step of a call touches: what the call itself holds, and the disk, *)
(* to which it writes what it has serialised.                               *)
Others(c) ==
  \A d \in Callers \ {c} :
    /\ pc'[d] = pc[d] /\ mem'[d] = mem[d] /\ snap'[d] = snap[d]
    /\ req'[d] = req[d] /\ res'[d] = res[d]

OwnStep(c) ==
  /\ Others(c)
  /\ disk' \in {disk, snap[c]} /\ snap'[c] \in {snap[c], NewRun, mem'[c]}
  /\ req'[c].reset \in {0, req[c].reset}
  /\ up' = up /\ hist'.started = hist.started /\ hist'.given = hist.given

LEMMA SaveOwn ==
  ASSUME TypeOK, NEW c \in Callers, NEW s, NEW x, Save(c, s, x),
         UNCHANGED <<disk, req, res, up>>,
         hist'.started = hist.started, hist'.given = hist.given
  PROVE  /\ OwnStep(c) /\ mem'[c] = s /\ snap'[c] = s /\ pc'[c] = x
  BY DEF OwnStep, Others, Save, Goto, TypeOK

LEMMA GotoOwn ==
  ASSUME TypeOK, NEW c \in Callers, NEW x, Goto(c, x),
         UNCHANGED <<disk, mem, snap, req, res, up>>,
         hist'.started = hist.started, hist'.given = hist.given
  PROVE  /\ OwnStep(c) /\ pc'[c] = x
  BY DEF OwnStep, Others, Goto, TypeOK

LEMMA RenameOwn ==
  ASSUME TypeOK, NEW c \in Callers, NEW x, NEW y, Saved(c, x, y),
         \/ Forget(c)
         \/ mem' = mem /\ (res' = res \/ res' = [res EXCEPT ![c] = NoResult]),
         UNCHANGED <<req, up>>,
         hist'.started = hist.started, hist'.given = hist.given
  PROVE  /\ OwnStep(c) /\ disk' = snap[c] /\ snap'[c] = NewRun
         /\ mem'[c] \in {mem[c], NewRun} /\ pc'[c] = y
  BY DEF OwnStep, Others, Saved, Rename, Forget, Goto, TypeOK

LEMMA ReturnOwn ==
  ASSUME TypeOK, NEW c \in Callers, Return(c) \/ Throw(c),
         UNCHANGED <<disk, snap>> \/ Rename(c), UNCHANGED <<up, hist>>
  PROVE  /\ OwnStep(c) /\ mem'[c] = NewRun /\ pc'[c] \in {"idle", "execCheck"}
         /\ Rename(c) => disk' = snap[c] /\ snap'[c] = NewRun
         /\ pc'[c] = "execCheck" => req[c].cmd = "approve"
<1>1. /\ mem'[c] = NewRun /\ pc'[c] \in {"idle", "execCheck"}
      /\ pc'[c] = "execCheck" => req[c].cmd = "approve"
      /\ \A d \in Callers \ {c} : /\ pc'[d] = pc[d] /\ mem'[d] = mem[d]
                                 /\ req'[d] = req[d] /\ res'[d] = res[d]
  BY DEF Return, Throw, Forget, Goto, TypeOK
<1>2. req'[c] \in {NoRequest, [req[c] EXCEPT !.cmd = "approve2"]}
  BY DEF Return, Throw, TypeOK
<1>3. req'[c].reset \in {0, req[c].reset}
  BY <1>2 DEF NoRequest, TypeOK, Request
<1>4. /\ Rename(c) => disk' = snap[c] /\ snap'[c] = NewRun
      /\ disk' \in {disk, snap[c]} /\ snap'[c] \in {snap[c], NewRun, mem'[c]}
      /\ \A d \in Callers \ {c} : snap'[d] = snap[d]
  BY DEF Rename, TypeOK
<1>5. QED
  BY <1>1, <1>3, <1>4 DEF OwnStep, Others

LEMMA ReturnsOwn ==
  ASSUME TypeOK, NEW c \in Callers, NEW r, Returns(c, r),
         UNCHANGED <<disk, mem, snap, req, up>>,
         hist'.started = hist.started, hist'.given = hist.given
  PROVE  OwnStep(c) /\ pc'[c] = "finishing" /\ res'[c] = r
  BY DEF OwnStep, Others, Returns, Goto, TypeOK

(* The steps of a call that executes the run: it works at a stage, it saves *)
(* what it holds, or its save reaches the disk.                             *)
SameControl(s, t) ==
  s.status = t.status /\ s.cancelling = t.cancelling /\ s.decision = t.decision
SamePosition(s, t) ==
  /\ t.at = s.at /\ t.rounds = s.rounds
  /\ t.iteration = s.iteration /\ t.maxIter = s.maxIter
  /\ t.cause = "backstop" => s.cause = "backstop"

Works(c) ==
  /\ OwnStep(c) /\ req'[c] = req[c] /\ snap'[c] = snap[c]
  /\ disk' = disk /\ active' = active /\ hist'.delivered = hist.delivered
  /\ pc[c] \in {"top", "invoke"} /\ pc'[c] \in {"invoke", "finishing"}
  /\ SameControl(mem[c], mem'[c]) /\ SamePosition(mem[c], mem'[c])

Saves(c) ==
  /\ OwnStep(c) /\ req'[c] = req[c] /\ mem'[c] = snap'[c]
  /\ disk' = disk /\ active' = active /\ hist'.delivered = hist.delivered
  /\ pc[c] \in {"top", "finishing", "after"}
  /\ \/ /\ pc'[c] \in {"stepSave", "nextSave"} /\ SameControl(mem[c], mem'[c])
     \/ /\ pc'[c] = "decisionSave" /\ mem[c].decision /\ ~mem'[c].decision
        /\ mem'[c].status = mem[c].status /\ mem'[c].cancelling = mem[c].cancelling
     \/ /\ pc'[c] = "pauseSave" /\ mem'[c].status = "waiting_user"
        /\ mem'[c].decision = mem[c].decision
        /\ mem'[c].cancelling = mem[c].cancelling
     \/ /\ pc'[c] = "endSave" /\ mem'[c].status \in Finals
        /\ mem'[c].decision = mem[c].decision /\ ~mem'[c].cancelling
        /\ mem[c].cancelling => mem'[c].status = "cancelled"

LEMMA CheckpointedKeeps ==
  ASSUME NEW s \in RunState, NEW g
  PROVE  /\ SameControl(s, Checkpointed(s, g))
         /\ SamePosition(s, Checkpointed(s, g))
  BY DEF Checkpointed, SameControl, SamePosition, RunState

LEMMA StageReturnsIs ==
  ASSUME TypeOK, NEW c \in Callers, StageReturns(c)
  PROVE  /\ mem' = mem \/ \E g : mem' = [mem EXCEPT ![c] = Checkpointed(@, g)]
         /\ \E r : Returns(c, r)
         /\ AtStage(c) /\ StageOf(c).kind # "human" /\ ~StageOf(c).publish
         /\ UNCHANGED <<disk, snap, req, active, up, late, steerFile, hist>>
<1>1. PICK g, r :
        \/ /\ r.verdict = "PASS" /\ StageOf(c).verify
           /\ LET checked == IF r.commit THEN Checkpoint(g) ELSE g
              IN  /\ git' = checked
                  /\ mem' = [mem EXCEPT ![c] =
                               IF r.commit THEN Checkpointed(@, g) ELSE @]
                  /\ \E v \in Verified(r, checked) : Returns(c, v)
        \/ /\ ~(r.verdict = "PASS" /\ StageOf(c).verify)
           /\ Returns(c, r)
           /\ git' = g
           /\ UNCHANGED mem
  BY DEF StageReturns
<1>2. \E v : Returns(c, v)
  BY <1>1
<1>3. \/ mem' = [mem EXCEPT ![c] = Checkpointed(mem[c], g)]
      \/ mem' = mem
      \/ mem' = [mem EXCEPT ![c] = mem[c]]
  BY <1>1
<1>4. mem \in [Callers -> RunState]
  BY DEF TypeOK
<1>5. mem' = mem \/ mem' = [mem EXCEPT ![c] = Checkpointed(mem[c], g)]
  BY <1>3, <1>4
<1>6. mem' = mem \/ \E h : mem' = [mem EXCEPT ![c] = Checkpointed(@, h)]
  BY <1>5
<1>7. QED
  BY <1>2, <1>6 DEF StageReturns

LEMMA WorkStep ==
  ASSUME TypeOK, NEW c \in Callers, SkipStage(c) \/ StartStage(c) \/ Body(c)
  PROVE  Works(c)
<1> SameControl(mem[c], mem[c]) /\ SamePosition(mem[c], mem[c])
  BY DEF SameControl, SamePosition
<1>1. CASE SkipStage(c)
  <2>1. Others(c) /\ pc'[c] = "finishing"
    BY <1>1 DEF SkipStage, Others, Goto, TypeOK
  <2>2. QED
    BY <1>1, <2>1 DEF SkipStage, MayStart, Works, OwnStep
<1>2. CASE StartStage(c)
  <2>1. /\ hist'.started = hist.started /\ hist'.given = hist.given
        /\ hist'.delivered = hist.delivered
    BY <1>2 DEF StartStage, TypeOK, History
  <2>2. OwnStep(c) /\ pc'[c] = "invoke"
    BY <1>2, <2>1, GotoOwn DEF StartStage
  <2>3. QED
    BY <1>2, <2>1, <2>2 DEF StartStage, MayStart, Works
<1>3. CASE TerminalReturns(c) \/ SteerReturns(c) \/ PublishReturns(c)
             \/ PublishTimesOut(c)
  <2>1. /\ hist'.started = hist.started /\ hist'.given = hist.given
        /\ hist'.delivered = hist.delivered
    BY <1>3
    DEF TerminalReturns, SteerReturns, PublishReturns, PublishTimesOut, Push,
        TypeOK, History
  <2>2. /\ pc[c] = "invoke" /\ \E r : Returns(c, r)
        /\ UNCHANGED <<disk, mem, snap, req, active, up>>
    BY <1>3
    DEF TerminalReturns, SteerReturns, PublishReturns, PublishTimesOut, AtStage
  <2>3. OwnStep(c) /\ pc'[c] = "finishing"
    BY <2>1, <2>2, ReturnsOwn
  <2>4. QED
    BY <2>1, <2>2, <2>3 DEF Works
<1>4. CASE StageReturns(c)
  <2>1. /\ \E r : Returns(c, r)
        /\ pc[c] = "invoke"
        /\ UNCHANGED <<disk, snap, req, active, up, hist>>
    BY <1>4, StageReturnsIs DEF AtStage
  <2>2. /\ \A d \in Callers \ {c} : mem'[d] = mem[d]
        /\ SameControl(mem[c], mem'[c]) /\ SamePosition(mem[c], mem'[c])
    BY <1>4, StageReturnsIs, CheckpointedKeeps DEF TypeOK
  <2>3. /\ pc'[c] = "finishing"
        /\ \A d \in Callers \ {c} : pc'[d] = pc[d] /\ res'[d] = res[d]
    BY <2>1 DEF Returns, Goto, TypeOK
  <2>4. OwnStep(c)
    BY <2>1, <2>2, <2>3 DEF OwnStep, Others
  <2>5. QED
    BY <2>1, <2>2, <2>3, <2>4 DEF Works
<1>5. QED
  BY <1>1, <1>2, <1>3, <1>4 DEF Body

LEMMA FinishSaves ==
  ASSUME TypeOK, NEW c \in Callers, NEW x \in Finals,
         pc[c] \in {"top", "after"}, Finish(c, mem[c], x),
         mem[c].cancelling => x = "cancelled",
         UNCHANGED <<disk, req, res, active, up, hist>>
  PROVE  Saves(c) /\ SamePosition(mem[c], mem'[c])
<1> DEFINE s == [mem[c] EXCEPT !.status = x, !.cancelling = FALSE]
<1>1. /\ s.status = x /\ ~s.cancelling /\ s.decision = mem[c].decision
      /\ SamePosition(mem[c], s)
  BY DEF TypeOK, RunState, SamePosition
<1>2. OwnStep(c) /\ mem'[c] = s /\ snap'[c] = s /\ pc'[c] = "endSave"
  BY SaveOwn DEF Finish
<1>3. QED
  BY <1>1, <1>2 DEF Saves

LEMMA EscalateSaves ==
  ASSUME TypeOK, NEW c \in Callers, NEW x, NEW s \in RunState,
         SameControl(mem[c], s),
         pc[c] \in {"top", "after"}, EscalateTo(c, s, x),
         UNCHANGED <<disk, req, res, active, up, hist>>
  PROVE  /\ Saves(c) /\ mem'[c].at = Escalate(Lane) /\ mem'[c].rounds = s.rounds
         /\ mem'[c].iteration = s.iteration /\ mem'[c].maxIter = s.maxIter
         /\ mem'[c].cause = x
<1> DEFINE t == [s EXCEPT !.cause = x, !.at = Escalate(Lane)]
<1>1. /\ SameControl(mem[c], t) /\ t.at = Escalate(Lane) /\ t.rounds = s.rounds
      /\ t.iteration = s.iteration /\ t.maxIter = s.maxIter /\ t.cause = x
  BY DEF RunState, SameControl
<1>2. OwnStep(c) /\ mem'[c] = t /\ snap'[c] = t /\ pc'[c] = "nextSave"
  BY SaveOwn DEF EscalateTo
<1>3. QED
  BY <1>1, <1>2 DEF Saves

(* Where a step that moves nowhere leaves the run: where it was, or at the  *)
(* terminal stage.                                                          *)
Stays(c) ==
  /\ mem'[c].rounds = mem[c].rounds
  /\ mem'[c].at \in {mem[c].at, Escalate(Lane)}
  /\ mem'[c].iteration = mem[c].iteration /\ mem'[c].maxIter = mem[c].maxIter
  /\ mem'[c].cause = "backstop" =>
       \/ mem[c].cause = "backstop"
       \/ OutOfIterations(mem[c]) /\ ~isTerminalStep(Lane, mem[c].at)

LEMMA PositionStays ==
  ASSUME NEW c \in Callers, SamePosition(mem[c], mem'[c])
  PROVE  Stays(c)
  BY DEF SamePosition, Stays

LEMMA SaveStep ==
  ASSUME TypeOK, NEW c \in Callers,
         \/ ConsumeDecision(c) \/ TopCancelled(c) \/ TopExhausted(c)
         \/ FinishStep(c) \/ AfterCancelled(c) \/ AfterExhausted(c)
         \/ AfterPause(c) \/ AfterTerminal(c) \/ AfterEscalation(c)
  PROVE  /\ Saves(c) /\ Stays(c)
         /\ pc'[c] = "stepSave" => /\ pc[c] = "finishing" /\ res'[c] = res[c]
                                   /\ mem'[c].at = mem[c].at
<1> mem[c] \in RunState /\ SameControl(mem[c], mem[c])
    /\ {"failed", "cancelled"} \subseteq Finals
  BY DEF TypeOK, SameControl, Finals
<1>1. CASE ConsumeDecision(c)
  <2> DEFINE s == [mem[c] EXCEPT !.decision = FALSE]
  <2>1. /\ s.status = mem[c].status /\ s.cancelling = mem[c].cancelling
        /\ ~s.decision /\ SamePosition(mem[c], s)
    BY DEF RunState, SamePosition
  <2>2. OwnStep(c) /\ mem'[c] = s /\ snap'[c] = s /\ pc'[c] = "decisionSave"
    BY <1>1, SaveOwn DEF ConsumeDecision
  <2>3. QED
    BY <1>1, <2>1, <2>2, PositionStays DEF ConsumeDecision, MayStart, Saves
<1>2. CASE TopCancelled(c)
  <2>1. Saves(c) /\ SamePosition(mem[c], mem'[c])
    BY <1>2, FinishSaves DEF TopCancelled
  <2>2. pc'[c] = "endSave"
    BY <1>2 DEF TopCancelled, Finish, Save, Goto, TypeOK
  <2>3. QED
    BY <2>1, <2>2, PositionStays
<1>3. CASE TopExhausted(c)
  <2>1. ~isTerminalStep(Lane, mem[c].at)
    BY <1>3 DEF TopExhausted
  <2>2. Saves(c) /\ Stays(c)
    <3>1. CASE EscalateTo(c, mem[c], "budget")
      BY <1>3, <3>1, EscalateSaves DEF TopExhausted, Stays
    <3>2. CASE OutOfIterations(mem[c]) /\ EscalateTo(c, mem[c], "backstop")
      BY <1>3, <2>1, <3>2, EscalateSaves DEF TopExhausted, Stays
    <3>3. QED
      BY <1>3, <3>1, <3>2 DEF TopExhausted
  <2>3. pc'[c] = "nextSave"
    BY <1>3 DEF TopExhausted, EscalateTo, Save, Goto, TypeOK
  <2>4. QED
    BY <2>2, <2>3
<1>4. CASE FinishStep(c)
  <2> DEFINE r == res[c]
             gating == ~isTerminalStep(Lane, mem[c].at) /\ Gating(Lane[mem[c].at], r)
             bound == [mem[c] EXCEPT !.judged = IF gating THEN git.head ELSE @,
                                     !.spent = @ + r.cost]
             kept == IF r.commit THEN Checkpointed(bound, git) ELSE bound
  <2>1. Save(c, kept, "stepSave") /\ UNCHANGED <<disk, req, res, active, up>>
        /\ pc[c] = "finishing"
    BY <1>4 DEF FinishStep
  <2>2. /\ hist'.started = hist.started /\ hist'.given = hist.given
        /\ hist'.delivered = hist.delivered
    BY <1>4 DEF FinishStep, TypeOK, History
  <2>3. bound \in RunState /\ SameControl(mem[c], bound)
        /\ SamePosition(mem[c], bound)
    <3>1. r \in StepResult /\ git \in Git
      BY DEF TypeOK
    <3>2. mem[c].spent + r.cost \in Nat
      BY <3>1 DEF RunState, StepResult
    <3>3. (IF gating THEN git.head ELSE mem[c].judged) \in Nat
      BY <3>1 DEF RunState, Git
    <3>4. QED
      BY <3>2, <3>3 DEF RunState, SameControl, SamePosition
  <2>4. SameControl(mem[c], kept) /\ SamePosition(mem[c], kept)
    <3>1. SameControl(bound, kept) /\ SamePosition(bound, kept)
      <4>1. CASE r.commit
        BY <2>3, <4>1, CheckpointedKeeps
      <4>2. CASE ~r.commit
        BY <4>2 DEF SameControl, SamePosition
      <4>3. QED
        BY <4>1, <4>2
    <3>2. QED
      BY <2>3, <3>1 DEF SameControl, SamePosition
  <2>5. OwnStep(c) /\ mem'[c] = kept /\ snap'[c] = kept /\ pc'[c] = "stepSave"
    BY <2>1, <2>2, SaveOwn
  <2>6. QED
    BY <2>1, <2>2, <2>4, <2>5, PositionStays DEF Saves, SamePosition
<1>5. CASE AfterCancelled(c)
  <2>1. Saves(c) /\ SamePosition(mem[c], mem'[c])
    BY <1>5, FinishSaves DEF AfterCancelled
  <2>2. pc'[c] = "endSave"
    BY <1>5 DEF AfterCancelled, Finish, Save, Goto, TypeOK
  <2>3. QED
    BY <2>1, <2>2, PositionStays
<1>6. CASE AfterExhausted(c)
  <2>1. Saves(c) /\ Stays(c)
    BY <1>6, EscalateSaves DEF AfterExhausted, Stays
  <2>2. pc'[c] = "nextSave"
    BY <1>6 DEF AfterExhausted, EscalateTo, Save, Goto, TypeOK
  <2>3. QED
    BY <2>1, <2>2
<1>7. CASE AfterPause(c)
  <2> DEFINE s == [mem[c] EXCEPT !.status = "waiting_user"]
  <2>1. /\ s.status = "waiting_user" /\ s.cancelling = mem[c].cancelling
        /\ s.decision = mem[c].decision /\ SamePosition(mem[c], s)
    BY DEF RunState, SamePosition
  <2>2. OwnStep(c) /\ mem'[c] = s /\ snap'[c] = s /\ pc'[c] = "pauseSave"
    BY <1>7, SaveOwn DEF AfterPause
  <2>3. QED
    BY <1>7, <2>1, <2>2, PositionStays DEF AfterPause, Proceeds, Saves
<1>8. CASE AfterTerminal(c)
  <2>1. Saves(c) /\ SamePosition(mem[c], mem'[c])
    BY <1>8, FinishSaves DEF AfterTerminal, Proceeds
  <2>2. pc'[c] = "endSave"
    BY <1>8 DEF AfterTerminal, Finish, Save, Goto, TypeOK
  <2>3. QED
    BY <2>1, <2>2, PositionStays
<1>9. CASE AfterEscalation(c)
  <2>1. Saves(c) /\ Stays(c)
    BY <1>9, EscalateSaves DEF AfterEscalation, Proceeds, Stays
  <2>2. pc'[c] = "nextSave"
    BY <1>9 DEF AfterEscalation, EscalateTo, Save, Goto, TypeOK
  <2>3. QED
    BY <2>1, <2>2
<1>10. QED
  BY <1>1, <1>2, <1>3, <1>4, <1>5, <1>6, <1>7, <1>8, <1>9

(* A charge touches the counters only.                                      *)
SamePace(s, t) ==
  t.iteration = s.iteration /\ t.maxIter = s.maxIter /\ t.cause = s.cause

LEMMA ChargeKeeps ==
  ASSUME NEW s \in RunState, NEW i \in 1..Len(Lane)
  PROVE  /\ SameControl(s, ChargeTarget(s, i)) /\ ChargeTarget(s, i).at = s.at
         /\ SameControl(s, ChargeOwn(s, i)) /\ ChargeOwn(s, i).at = s.at
         /\ SamePace(s, ChargeTarget(s, i)) /\ SamePace(s, ChargeOwn(s, i))
  BY DEF RunState, SameControl, SamePace, ChargeTarget, ChargeOwn

(* One iteration more, and a round more if the way back is charged.         *)
Moves(c, target, charged) ==
  /\ target \in 1..Len(Lane) /\ mem'[c].at = target
  /\ mem'[c].iteration = mem[c].iteration + 1
  /\ mem'[c].maxIter = mem[c].maxIter /\ mem'[c].cause = mem[c].cause
  /\ IF charged
       THEN /\ RoundsLeft(mem[c], target)
            /\ mem'[c].rounds =
                 ChargeOwn(ChargeTarget(mem[c], target), mem[c].at).rounds
       ELSE mem'[c].rounds = mem[c].rounds

(* Where a transition leads.                                                *)
LEMMA TransitionIs ==
  ASSUME TypeOK, NEW c \in Callers, ApplyTransition(c)
  PROVE  LET target == Transition(Lane, mem[c].at, res[c].verdict)
             charged == /\ res[c].verdict # "PASS"
                        /\ Lane[mem[c].at].onFail = "fix-round"
         IN
         /\ Saves(c) /\ mem[c].at \in 1..Len(Lane) /\ ~res[c].pause
         /\ pc[c] = "after" /\ pc'[c] # "stepSave"
         /\ \/ mem'[c].at \in {mem[c].at, Escalate(Lane)}
            \/ mem'[c].at = target /\ target \in 1..Len(Lane)
         /\ mem'[c].rounds # mem[c].rounds => target \in 1..Len(Lane) /\ charged
         /\ \/ SamePosition(mem[c], mem'[c])
            \/ /\ mem'[c].at = Escalate(Lane) /\ mem'[c].cause # "backstop"
               /\ mem'[c].iteration = mem[c].iteration
               /\ mem'[c].maxIter = mem[c].maxIter
            \/ Moves(c, target, charged)
<1> DEFINE s == mem[c]
           target == Transition(Lane, s.at, res[c].verdict)
           charged == /\ res[c].verdict # "PASS"
                      /\ Lane[s.at].onFail = "fix-round"
           t == ChargeTarget(s, target)
           u == ChargeOwn(t, s.at)
<1>1. /\ s \in RunState /\ s.at \in 1..Len(Lane) /\ pc[c] = "after"
      /\ ~s.cancelling /\ ~res[c].pause
      /\ UNCHANGED <<disk, req, res, active, up, hist>> /\ SameControl(s, s)
  <2>1. s \in RunState
    BY DEF TypeOK
  <2>2. s.at \in 1..(Len(Lane) + 1)
    BY <2>1, LaneFacts DEF RunState
  <2>3. s.at # Len(Lane) + 1
    BY DEF ApplyTransition, isTerminalStep, Escalate
  <2>4. QED
    BY <2>1, <2>2, <2>3, LaneFacts DEF ApplyTransition, Proceeds, SameControl
<1>2. ASSUME NEW w \in RunState, NEW x, SameControl(s, w), SamePace(s, w),
             EscalateTo(c, w, x)
      PROVE  /\ Saves(c) /\ mem'[c].at = Escalate(Lane)
             /\ mem'[c].rounds = w.rounds /\ pc'[c] = "nextSave"
             /\ mem'[c].iteration = s.iteration /\ mem'[c].maxIter = s.maxIter
             /\ mem'[c].cause = x
  <2>1. pc'[c] = "nextSave"
    BY <1>2 DEF EscalateTo, Save, Goto, TypeOK
  <2>2. QED
    BY <1>1, <1>2, <2>1, EscalateSaves DEF SamePace
<1>3. ASSUME NEW w \in RunState, SameControl(s, w), SamePace(s, w),
             Advance(c, w, target)
      PROVE  /\ Saves(c) /\ mem'[c].at = target
             /\ mem'[c].rounds = w.rounds /\ pc'[c] = "nextSave"
             /\ mem'[c].iteration = s.iteration + 1
             /\ mem'[c].maxIter = s.maxIter /\ mem'[c].cause = s.cause
  <2> DEFINE v == [w EXCEPT !.iteration = @ + 1, !.at = target]
  <2>1. /\ SameControl(s, v) /\ v.at = target /\ v.rounds = w.rounds
        /\ v.iteration = s.iteration + 1 /\ v.maxIter = s.maxIter
        /\ v.cause = s.cause
    BY <1>3 DEF SameControl, SamePace, RunState
  <2>2. OwnStep(c) /\ mem'[c] = v /\ snap'[c] = v /\ pc'[c] = "nextSave"
    BY <1>1, <1>3, SaveOwn DEF Advance
  <2>3. QED
    BY <1>1, <2>1, <2>2 DEF Saves
<1>4. CASE target = Halt /\ Finish(c, s, "succeeded")
  <2>1. Saves(c) /\ SamePosition(s, mem'[c])
    BY <1>1, <1>4, FinishSaves DEF Finals
  <2>2. pc'[c] = "endSave"
    BY <1>4 DEF Finish, Save, Goto, TypeOK
  <2>3. QED
    BY <1>1, <2>1, <2>2 DEF SamePosition
<1>5. CASE target = Escalate(Lane) /\ EscalateTo(c, s, "onfail")
  <2>1. SamePace(s, s)
    BY DEF SamePace
  <2>2. /\ Saves(c) /\ mem'[c].at = Escalate(Lane) /\ mem'[c].rounds = s.rounds
        /\ pc'[c] = "nextSave" /\ mem'[c].iteration = s.iteration
        /\ mem'[c].maxIter = s.maxIter /\ mem'[c].cause = "onfail"
    BY <1>1, <1>2, <1>5, <2>1
  <2>3. QED
    BY <1>1, <2>2
<1>6. CASE target \in 1..Len(Lane) /\ ~charged /\ Advance(c, s, target)
  <2>1. SamePace(s, s)
    BY DEF SamePace
  <2>2. QED
    BY <1>1, <1>3, <1>6, <2>1 DEF Moves
<1>7. CASE target \in 1..Len(Lane) /\ charged
  <2>1. /\ t \in RunState /\ SameControl(s, t) /\ SamePace(s, t)
        /\ u \in RunState /\ SameControl(s, u) /\ SamePace(s, u)
    <3>1. t \in RunState /\ SameControl(s, t) /\ SamePace(s, t)
      BY <1>1, <1>7, ChargeType, ChargeKeeps
    <3>2. u \in RunState /\ SameControl(t, u) /\ SamePace(t, u)
      BY <1>1, <3>1, ChargeType, ChargeKeeps
    <3>3. QED
      BY <3>1, <3>2 DEF SameControl, SamePace
  <2>2. \/ EscalateTo(c, t, "rounds") \/ EscalateTo(c, u, "rounds")
        \/ RoundsLeft(s, target) /\ Advance(c, u, target)
    BY <1>1, <1>7 DEF ApplyTransition, Halt, Escalate
  <2>3. CASE EscalateTo(c, t, "rounds") \/ EscalateTo(c, u, "rounds")
    <3>1. /\ Saves(c) /\ mem'[c].at = Escalate(Lane)
          /\ pc'[c] = "nextSave" /\ mem'[c].iteration = s.iteration
          /\ mem'[c].maxIter = s.maxIter /\ mem'[c].cause = "rounds"
      BY <1>2, <2>1, <2>3
    <3>2. QED
      BY <1>1, <1>7, <3>1
  <2>4. CASE RoundsLeft(s, target) /\ Advance(c, u, target)
    BY <1>1, <1>3, <1>7, <2>1, <2>4 DEF Moves
  <2>5. QED
    BY <2>2, <2>3, <2>4
<1>8. QED
  BY <1>4, <1>5, <1>6, <1>7 DEF ApplyTransition

(* A save reaches the disk and executeRun goes on.                          *)
Renames(c) ==
  /\ OwnStep(c) /\ req'[c] = req[c] /\ mem'[c] = mem[c]
  /\ disk' = snap[c] /\ snap'[c] = NewRun /\ active' = active
  /\ \/ /\ pc[c] = "beginSave" /\ pc'[c] = "top"
     \/ /\ pc[c] = "decisionSave" /\ pc'[c] = "invoke"
     \/ /\ pc[c] = "stepSave" /\ pc'[c] = "after" /\ res'[c] = res[c]
     \/ /\ pc[c] = "nextSave" /\ pc'[c] = "top"
  /\ hist'.delivered = IF pc[c] = "decisionSave" THEN hist.delivered + 1
                       ELSE hist.delivered

LEMMA RenameStep ==
  ASSUME TypeOK, NEW c \in Callers,
         BeginSaved(c) \/ DecisionSaved(c) \/ StepSaved(c) \/ NextSaved(c)
  PROVE  Renames(c)
<1>1. CASE BeginSaved(c)
  <2>1. OwnStep(c) /\ disk' = snap[c] /\ snap'[c] = NewRun /\ pc'[c] = "top"
    BY <1>1, RenameOwn DEF BeginSaved
  <2>2. QED
    BY <1>1, <2>1 DEF BeginSaved, Saved, Renames
<1>2. CASE DecisionSaved(c)
  <2>1. /\ hist'.started = hist.started /\ hist'.given = hist.given
        /\ hist'.delivered = hist.delivered + 1
    BY <1>2 DEF DecisionSaved, TypeOK, History
  <2>2. OwnStep(c) /\ disk' = snap[c] /\ snap'[c] = NewRun /\ pc'[c] = "invoke"
    BY <1>2, <2>1, RenameOwn DEF DecisionSaved
  <2>3. QED
    BY <1>2, <2>1, <2>2 DEF DecisionSaved, Saved, Renames
<1>3. CASE StepSaved(c)
  <2>1. OwnStep(c) /\ disk' = snap[c] /\ snap'[c] = NewRun /\ pc'[c] = "after"
    BY <1>3, RenameOwn DEF StepSaved
  <2>2. QED
    BY <1>3, <2>1 DEF StepSaved, Saved, Renames
<1>4. CASE NextSaved(c)
  <2>1. OwnStep(c) /\ disk' = snap[c] /\ snap'[c] = NewRun /\ pc'[c] = "top"
    BY <1>4, RenameOwn DEF NextSaved
  <2>2. QED
    BY <1>4, <2>1 DEF NextSaved, Saved, Renames
<1>5. QED
  BY <1>1, <1>2, <1>3, <1>4

(* Every other step of a call leaves the loop of executeRun, or is not in it*)
(* yet.                                                                     *)
Prepares(c) ==
  \/ SetupDone(c) \/ SetupFailed(c) \/ SetupSaved(c)
  \/ CancelLoad(c) \/ CancelSaved(c)
  \/ ResumeCheck(c) \/ ResumeLoad(c) \/ ResumeSaved(c)
  \/ ExecCheck(c) \/ ExecLoad(c)

LEMMA StepsOfCall ==
  ASSUME TypeOK, NEW c \in Callers, Continue(c)
  PROVE  Prepares(c) \/ Works(c) \/ Saves(c) \/ Renames(c) \/ ExecuteEnds(c)
  BY WorkStep, SaveStep, TransitionIs, RenameStep DEF Continue, Prepares

Over(c) == /\ pc'[c] \in {"idle", "execCheck"} /\ mem'[c] = NewRun

Prepared(c) ==
  /\ OwnStep(c) /\ hist'.delivered = hist.delivered
  /\ pc'[c] # "beginSave" => active' = active
  /\ \/ /\ pc[c] = "setup" /\ pc'[c] = "execCheck" /\ disk' = disk
     \/ /\ pc[c] = "setup" /\ pc'[c] = "setupSave" /\ disk' = disk
        /\ snap'[c].status = "failed"
        /\ snap'[c].cancelling = mem[c].cancelling
        /\ snap'[c].decision = mem[c].decision
     \/ pc[c] \in {"setupSave", "cancelSave"} /\ Over(c) /\ disk' = snap[c]
     \/ /\ pc[c] = "cancelLoad" /\ pc'[c] = "cancelSave" /\ disk' = disk
        /\ disk.status \notin Finals
        /\ snap'[c].status = "cancelled" /\ ~snap'[c].cancelling
        /\ snap'[c].decision = disk.decision
     \/ /\ pc[c] = "resumeCheck" /\ pc'[c] = "resumeLoad" /\ disk' = disk
        /\ active[HomeOf[c]] = NoCaller /\ req'[c] = req[c]
     \/ /\ pc[c] = "resumeLoad" /\ pc'[c] = "resumeSave" /\ disk' = disk
        /\ disk.status \notin {"running", "succeeded", "cancelled"}
        /\ snap'[c].status = "paused"
        /\ snap'[c].decision = req[c].decision
     \/ pc[c] = "resumeSave" /\ pc'[c] = "execCheck" /\ disk' = snap[c]
     \/ /\ pc[c] = "execCheck" /\ pc'[c] = "execLoad" /\ disk' = disk
     \/ /\ pc[c] \in {"cancelLoad", "resumeCheck", "resumeLoad", "execCheck",
                      "execLoad"}
        /\ Over(c) /\ disk' = disk
        /\ pc[c] = "resumeCheck" => pc'[c] = "idle"
     \/ /\ pc[c] = "execLoad" /\ pc'[c] = "beginSave" /\ disk' = disk
        /\ active' = [active EXCEPT ![HomeOf[c]] = c]
        /\ disk.status \notin Finals
        /\ mem'[c] = snap'[c] /\ mem'[c].status = "running"
        /\ mem'[c].cancelling = disk.cancelling
        /\ mem'[c].decision = disk.decision
  /\ \/ SamePosition(NewRun, mem'[c])
     \/ SamePosition(mem[c], mem'[c])
     \/ SamePosition(disk, mem'[c])
     \/ /\ mem'[c] = Resumed(disk, req[c])
        /\ hist'.jumped = (hist.jumped \/ (req[c].from # 0 /\ ~Restores(disk, req[c].reset)))

LEMMA ThrowOwn ==
  ASSUME TypeOK, NEW c \in Callers, Throw(c), UNCHANGED <<disk, snap, up, hist>>
  PROVE  OwnStep(c) /\ mem'[c] = NewRun /\ pc'[c] = "idle"
<1>1. pc'[c] = "idle"
  BY DEF Throw, Goto, TypeOK
<1>2. QED
  BY <1>1, ReturnOwn

LEMMA ResumedControl ==
  ASSUME NEW s \in RunState, NEW r \in Request
  PROVE  Resumed(s, r).status = "paused" /\ Resumed(s, r).decision = r.decision
<1> DEFINE moved == IF r.from = 0 THEN s
                    ELSE [s EXCEPT !.at = r.from, !.cause = "none"]
           back == ResetRound(moved, r.reset)
<1>1. DOMAIN s = DOMAIN NewRun
  BY DEF RunState, NewRun
<1>2. DOMAIN moved = DOMAIN s
  OBVIOUS
<1>3. DOMAIN back = DOMAIN s
  BY <1>2 DEF ResetRound
<1>4. "status" \in DOMAIN back /\ "decision" \in DOMAIN back
  BY <1>1, <1>3 DEF NewRun
<1>5. Resumed(s, r) = [back EXCEPT !.decision = r.decision, !.status = "paused"]
  BY DEF Resumed
<1>6. QED
  BY <1>4, <1>5

LEMMA PrepareStep ==
  ASSUME TypeOK, NEW c \in Callers, Prepares(c)
  PROVE  Prepared(c)
<1> mem[c] \in RunState /\ disk \in RunState /\ req[c] \in Request
  BY DEF TypeOK
<1> SamePosition(NewRun, NewRun) /\ SamePosition(mem[c], mem[c])
  BY DEF SamePosition
<1>1. CASE SetupDone(c)
  <2>1. OwnStep(c) /\ pc'[c] = "execCheck"
    BY <1>1, GotoOwn DEF SetupDone
  <2>2. QED
    BY <1>1, <2>1 DEF SetupDone, Prepared
<1>2. CASE SetupFailed(c)
  <2> DEFINE s == [mem[c] EXCEPT !.status = "failed", !.cause = "setup"]
  <2>1. /\ s.status = "failed" /\ s.cancelling = mem[c].cancelling
        /\ s.decision = mem[c].decision /\ SamePosition(mem[c], s)
    BY DEF RunState, SamePosition
  <2>2. OwnStep(c) /\ mem'[c] = s /\ snap'[c] = s /\ pc'[c] = "setupSave"
    BY <1>2, SaveOwn DEF SetupFailed
  <2>3. QED
    BY <1>2, <2>1, <2>2 DEF SetupFailed, Prepared
<1>3. CASE SetupSaved(c)
  <2>1. OwnStep(c) /\ Over(c) /\ disk' = snap[c]
    BY <1>3, ReturnOwn DEF SetupSaved, Over
  <2>2. QED
    BY <1>3, <2>1 DEF SetupSaved, Prepared, Over
<1>4. CASE CancelLoad(c)
  <2>1. CASE Return(c) /\ UNCHANGED snap
    <3>1. OwnStep(c) /\ Over(c)
      BY <1>4, <2>1, ReturnOwn DEF CancelLoad, Over
    <3>2. QED
      BY <1>4, <3>1 DEF CancelLoad, Prepared, Over
  <2>2. CASE ~(Return(c) /\ UNCHANGED snap)
    <3> DEFINE s == [disk EXCEPT !.status = "cancelled", !.cancelling = FALSE]
    <3>1. /\ s.status = "cancelled" /\ ~s.cancelling
          /\ s.decision = disk.decision /\ SamePosition(disk, s)
      BY DEF RunState, SamePosition
    <3>2. OwnStep(c) /\ mem'[c] = s /\ snap'[c] = s /\ pc'[c] = "cancelSave"
      BY <1>4, <2>2, SaveOwn DEF CancelLoad
    <3>3. QED
      BY <1>4, <2>2, <3>1, <3>2 DEF CancelLoad, Prepared
  <2>3. QED
    BY <2>1, <2>2
<1>5. CASE CancelSaved(c)
  <2>1. OwnStep(c) /\ Over(c) /\ disk' = snap[c]
    BY <1>5, ReturnOwn DEF CancelSaved, Over
  <2>2. QED
    BY <1>5, <2>1 DEF CancelSaved, Prepared, Over
<1>6. CASE ResumeCheck(c)
  <2>1. CASE ~AlreadyExecuting(c) /\ Goto(c, "resumeLoad") /\ UNCHANGED <<mem, req, res>>
    <3>1. OwnStep(c) /\ pc'[c] = "resumeLoad"
      BY <1>6, <2>1, GotoOwn DEF ResumeCheck
    <3>2. QED
      BY <1>6, <2>1, <3>1 DEF ResumeCheck, Prepared, AlreadyExecuting
  <2>2. CASE Throw(c)
    <3>1. OwnStep(c) /\ Over(c) /\ pc'[c] = "idle"
      BY <1>6, <2>2, ThrowOwn DEF ResumeCheck, Over
    <3>2. QED
      BY <1>6, <3>1 DEF ResumeCheck, Prepared, Over
  <2>3. QED
    BY <1>6, <2>1, <2>2 DEF ResumeCheck
<1>7. CASE ResumeLoad(c)
  <2>1. CASE Throw(c) /\ UNCHANGED <<snap, hist>>
    <3>1. OwnStep(c) /\ Over(c)
      BY <1>7, <2>1, ThrowOwn DEF ResumeLoad, Over
    <3>2. QED
      BY <1>7, <2>1, <3>1 DEF ResumeLoad, Prepared, Over
  <2>2. CASE ~(Throw(c) /\ UNCHANGED <<snap, hist>>)
    <3> DEFINE s == Resumed(disk, req[c])
    <3>1. /\ ~ResumeRefused(disk, req[c].from) /\ Save(c, s, "resumeSave")
          /\ hist' = [hist EXCEPT !.jumped =
               @ \/ (req[c].from # 0 /\ ~Restores(disk, req[c].reset))]
          /\ UNCHANGED <<req, res>>
      BY <1>7, <2>2 DEF ResumeLoad
    <3>2. s.status = "paused" /\ s.decision = req[c].decision
      BY ResumedControl
    <3>3. DOMAIN hist = {"started", "commands", "starts", "jumped", "approvals",
            "given", "delivered", "asked", "seen", "reviewed", "pushed"}
      BY DEF TypeOK, History
    <3>4. /\ hist'.started = hist.started /\ hist'.given = hist.given
          /\ hist'.delivered = hist.delivered
          /\ hist'.jumped = (hist.jumped \/ (req[c].from # 0 /\ ~Restores(disk, req[c].reset)))
      BY <3>1, <3>3
    <3>5. OwnStep(c) /\ mem'[c] = s /\ snap'[c] = s /\ pc'[c] = "resumeSave"
      BY <1>7, <3>1, <3>4, SaveOwn DEF ResumeLoad
    <3>6. QED
      BY <1>7, <3>1, <3>2, <3>4, <3>5 DEF ResumeLoad, ResumeRefused, Prepared
  <2>3. QED
    BY <2>1, <2>2
<1>8. CASE ResumeSaved(c)
  <2>1. OwnStep(c) /\ disk' = snap[c] /\ pc'[c] = "execCheck" /\ mem'[c] \in {mem[c], NewRun}
    BY <1>8, RenameOwn DEF ResumeSaved
  <2>2. QED
    BY <1>8, <2>1 DEF ResumeSaved, Saved, Prepared
<1>9. CASE ExecCheck(c)
  <2>1. CASE Goto(c, "execLoad") /\ UNCHANGED <<mem, req, res>>
    <3>1. OwnStep(c) /\ pc'[c] = "execLoad"
      BY <1>9, <2>1, GotoOwn DEF ExecCheck
    <3>2. QED
      BY <1>9, <2>1, <3>1 DEF ExecCheck, Prepared
  <2>2. CASE Throw(c)
    <3>1. OwnStep(c) /\ Over(c)
      BY <1>9, <2>2, ThrowOwn DEF ExecCheck, Over
    <3>2. QED
      BY <1>9, <3>1 DEF ExecCheck, Prepared, Over
  <2>3. QED
    BY <1>9, <2>1, <2>2 DEF ExecCheck
<1>10. CASE ExecLoad(c)
  <2>1. CASE Return(c) /\ UNCHANGED <<snap, active>>
    <3>1. OwnStep(c) /\ Over(c)
      BY <1>10, <2>1, ReturnOwn DEF ExecLoad, Over
    <3>2. QED
      BY <1>10, <2>1, <3>1 DEF ExecLoad, Prepared, Over
  <2>2. CASE ~(Return(c) /\ UNCHANGED <<snap, active>>)
    <3> DEFINE s == [disk EXCEPT !.status = "running"]
    <3>1. /\ s.status = "running" /\ s.cancelling = disk.cancelling
          /\ s.decision = disk.decision /\ SamePosition(disk, s)
      BY DEF RunState, SamePosition
    <3>2. OwnStep(c) /\ mem'[c] = s /\ snap'[c] = s /\ pc'[c] = "beginSave"
      BY <1>10, <2>2, SaveOwn DEF ExecLoad
    <3>3. QED
      BY <1>10, <2>2, <3>1, <3>2 DEF ExecLoad, Prepared
  <2>3. QED
    BY <2>1, <2>2
<1>11. QED
  BY <1>1, <1>2, <1>3, <1>4, <1>5, <1>6, <1>7, <1>8, <1>9, <1>10 DEF Prepares

-----------------------------------------------------------------------------
(* With one process and one command at a time a call is alone, or it has    *)
(* come beside the one that executes the run.                               *)
Alone(c) == \A d \in Callers \ {c} : pc[d] = "idle"

LEMMA PendingAlone ==
  ASSUME Placed, NEW c \in Callers,
         pc[c] \notin LivePoints \cup {"idle", "resumeCheck"}
  PROVE  Alone(c)
  BY DEF Placed, Alone, Beside, Live

LEMMA CheckedAlone ==
  ASSUME Serial, TypeOK, Placed, NEW c \in Callers, pc[c] = "resumeCheck",
         active[HomeOf[c]] = NoCaller
  PROVE  Alone(c)
<1> SUFFICES ASSUME NEW d \in Callers \ {c}, pc[d] # "idle" PROVE FALSE
  BY DEF Alone
<1>1. Beside(c, d) \/ Beside(d, c)
  BY DEF Placed
<1>2. ~Live(c)
  BY DEF Live, LivePoints
<1>3. Live(d)
  BY <1>1, <1>2 DEF Beside
<1>4. active[HomeOf[d]] = d /\ HomeOf[d] = HomeOf[c]
  BY <1>3, CallerAssumption DEF Placed, Serial
<1>5. QED
  BY <1>4, CallerAssumption

LEMMA BesideLive ==
  ASSUME Placed, NEW c \in Callers, Live(c), NEW d \in Callers \ {c}
  PROVE  /\ ~Live(d)
         /\ \/ pc[d] = "idle"
            \/ pc[d] = "resumeCheck" /\ req[c].cmd # "approve"
  BY DEF Placed, Beside, Live, LivePoints

(* How the places are kept: by a call that stays alone, and by the one that *)
(* executes the run and goes on.                                            *)
LEMMA PlacedAlone ==
  ASSUME TypeOK', NEW c \in Callers, Alone(c)',
         Live(c)' => active'[HomeOf[c]] = c,
         \A p \in Procs : active'[p] # NoCaller => active'[p] = c /\ Live(c)',
         pc'[c] # "idle" => HomeOf[c] \in up' /\ hist'.started
  PROVE  Placed'
<1>1. \A d \in Callers \ {c} : pc'[d] = "idle" /\ ~Live(d)'
  BY DEF Alone, Live, LivePoints
<1>2. \A d, e \in Callers : d # e => Beside(d, e)' \/ Beside(e, d)'
  BY <1>1 DEF Beside
<1>3. QED
  BY <1>1, <1>2 DEF Placed

LEMMA PlacedLive ==
  ASSUME TypeOK, Placed, NEW c \in Callers, Live(c), Live(c)', OwnStep(c),
         req'[c] = req[c], active' = active
  PROVE  Placed'
<1>1. \A d \in Callers : Live(d)' <=> Live(d)
  BY DEF OwnStep, Others, Live
<1>2. \A d \in Callers \ {c} : pc'[d] = pc[d] /\ req'[d] = req[d]
  BY DEF OwnStep, Others
<1>3. ASSUME NEW d \in Callers, NEW e \in Callers, d # e
      PROVE  Beside(d, e)' \/ Beside(e, d)'
  <2>1. CASE d = c
    BY <1>1, <1>2, <1>3, <2>1, BesideLive DEF Beside
  <2>2. CASE e = c
    BY <1>1, <1>2, <1>3, <2>2, BesideLive DEF Beside
  <2>3. CASE d # c /\ e # c
    BY <1>1, <1>2, <1>3, <2>3 DEF Beside, Placed
  <2>4. QED
    BY <2>1, <2>2, <2>3
<1>4. up' = up /\ hist'.started = hist.started
  BY DEF OwnStep
<1>5. \A p \in Procs : active[p] # NoCaller => active[p] \in Callers
  BY DEF TypeOK
<1>6. pc[c] # "idle"
  BY DEF Live, LivePoints
<1>7. /\ \A d \in Callers : Live(d)' => active'[HomeOf[d]] = d
      /\ \A p \in Procs : active'[p] # NoCaller => pc'[active'[p]] \in LivePoints
      /\ \A d \in Callers : pc'[d] # "idle" => HomeOf[d] \in up' /\ hist'.started
  <2>1. \A d \in Callers : Live(d)' => active'[HomeOf[d]] = d
    BY <1>1 DEF Placed
  <2>2. \A p \in Procs : active'[p] # NoCaller => pc'[active'[p]] \in LivePoints
    BY <1>1, <1>5 DEF Placed, Live
  <2>3. \A d \in Callers : pc'[d] # "idle" => HomeOf[d] \in up' /\ hist'.started
    BY <1>2, <1>4, <1>6 DEF Placed
  <2>4. QED
    BY <2>1, <2>2, <2>3
<1>8. QED
  BY <1>3, <1>7 DEF Placed, Live

(* What the other calls hold still fits: they have read nothing yet, or the *)
(* disk is as it was.                                                       *)
LEMMA OthersFit ==
  ASSUME NEW c \in Callers, Others(c), NEW d \in Callers \ {c}, Fits(d),
         disk' = disk \/ pc[d] \in {"idle", "resumeCheck"}
  PROVE  Fits(d)'
<1>1. /\ pc'[d] = pc[d] /\ mem'[d] = mem[d] /\ snap'[d] = snap[d]
      /\ NewRun' = NewRun
  BY DEF Others, NewRun
<1>2. CASE disk' = disk
  BY <1>1, <1>2 DEF Fits, LiveFits, Live
<1>3. CASE pc[d] \in {"idle", "resumeCheck"}
  <2>1. ~Live(d)'
    BY <1>1, <1>3 DEF Live, LivePoints
  <2>2. QED
    BY <1>1, <1>3, <2>1 DEF Fits
<1>4. QED
  BY <1>2, <1>3

LEMMA OwedKept ==
  ASSUME TypeOK, hist'.delivered = hist.delivered, hist'.given = hist.given,
         disk'.decision => disk.decision, NEW n \in Nat, Owed(n)
  PROVE  Owed(n)'
<1>1. hist.delivered \in Nat /\ hist.given \in Nat
  BY DEF TypeOK, History
<1>2. QED
  BY <1>1 DEF Owed

LEMMA OthersBring ==
  ASSUME NEW c \in Callers, Others(c), NEW d \in Callers \ {c}
  PROVE  Brings(d)' <=> Brings(d)
  BY DEF Others, Brings

LEMMA PlacedBack ==
  ASSUME TypeOK, Placed, NEW c \in Callers, ~Live(c), pc'[c] = "idle",
         OwnStep(c), active' = active
  PROVE  Placed'
<1>1. /\ \A d \in Callers \ {c} : pc'[d] = pc[d] /\ req'[d] = req[d]
      /\ up' = up /\ hist'.started = hist.started
      /\ \A p \in Procs : active[p] # NoCaller => active[p] \in Callers
  BY DEF OwnStep, Others, TypeOK
<1>2. \A d \in Callers : Live(d)' <=> Live(d)
  BY <1>1 DEF Live, LivePoints
<1>3. \A d, e \in Callers : d # e => Beside(d, e)' \/ Beside(e, d)'
  BY <1>1, <1>2 DEF Placed, Beside
<1>4. \A d \in Callers : Live(d)' => active'[HomeOf[d]] = d
  BY <1>2 DEF Placed
<1>5. \A p \in Procs : active'[p] # NoCaller => pc'[active'[p]] \in LivePoints
  BY <1>1, <1>2 DEF Placed, Live
<1>6. \A d \in Callers : pc'[d] # "idle" => HomeOf[d] \in up' /\ hist'.started
  BY <1>1 DEF Placed
<1>7. QED
  BY <1>3, <1>4, <1>5, <1>6 DEF Placed, Live

(* The steps before and after executeRun keep the invariant.                *)
LEMMA ControlledPrepare ==
  ASSUME Serial, TypeOK, TypeOK', Controlled, NEW c \in Callers, Prepared(c)
  PROVE  Controlled'
<1>1. /\ Placed /\ OwnStep(c) /\ Others(c) /\ ~Live(c) /\ pc[c] # "idle"
      /\ \A d \in Callers : Fits(d)
      /\ up' = up /\ hist'.started = hist.started /\ hist'.given = hist.given
      /\ hist'.delivered = hist.delivered
  BY DEF Controlled, Prepared, OwnStep, Live, LivePoints
<1>2. \/ Alone(c)
      \/ pc[c] = "resumeCheck" /\ pc'[c] = "idle" /\ disk' = disk
  <2>1. CASE pc[c] = "resumeCheck" /\ pc'[c] = "resumeLoad"
    <3>1. active[HomeOf[c]] = NoCaller
      BY <2>1 DEF Prepared, Over
    <3>2. QED
      BY <1>1, <2>1, <3>1, CheckedAlone
  <2>2. CASE pc[c] = "resumeCheck" /\ pc'[c] # "resumeLoad"
    BY <2>2 DEF Prepared, Over
  <2>3. CASE pc[c] # "resumeCheck"
    BY <1>1, <2>3, PendingAlone DEF Live
  <2>4. QED
    BY <2>1, <2>2, <2>3
<1>3. Alone(c) => /\ Alone(c)'
                  /\ \A p \in Procs : active[p] = NoCaller
                  /\ \A d \in Callers \ {c} : ~Brings(d) /\ ~Live(d)
  <2> SUFFICES ASSUME Alone(c)
               PROVE  /\ Alone(c)'
                      /\ \A p \in Procs : active[p] = NoCaller
                      /\ \A d \in Callers \ {c} : ~Brings(d) /\ ~Live(d)
    OBVIOUS
  <2>1. Alone(c)'
    BY <1>1 DEF Alone, Others
  <2>2. \A d \in Callers \ {c} : ~Brings(d) /\ ~Live(d)
    BY DEF Alone, Brings, Live, LivePoints
  <2>3. \A p \in Procs : active[p] = NoCaller
    BY <1>1, <2>2 DEF Placed, TypeOK
  <2>4. QED
    BY <2>1, <2>2, <2>3
<1>4. Placed'
  <2>1. CASE Alone(c)
    <3>1. pc'[c] # "idle" => HomeOf[c] \in up' /\ hist'.started
      BY <1>1 DEF Placed
    <3>2. CASE pc'[c] = "beginSave"
      <4>1. active' = [active EXCEPT ![HomeOf[c]] = c] /\ Live(c)'
        BY <3>2 DEF Prepared, Over, Live, LivePoints
      <4>2. HomeOf[c] \in Procs /\ active \in [Procs -> Callers \cup {NoCaller}]
        BY CallerAssumption DEF TypeOK
      <4>3. /\ active'[HomeOf[c]] = c
            /\ \A p \in Procs : active'[p] # NoCaller => active'[p] = c /\ Live(c)'
        BY <1>3, <2>1, <4>1, <4>2
      <4>4. QED
        BY <1>3, <2>1, <3>1, <4>3, PlacedAlone
    <3>3. CASE pc'[c] # "beginSave"
      <4>1. active' = active /\ ~Live(c)'
        BY <3>3 DEF Prepared, Over, Live, LivePoints
      <4>2. QED
        BY <1>3, <2>1, <3>1, <4>1, PlacedAlone
    <3>4. QED
      BY <3>2, <3>3
  <2>2. CASE pc[c] = "resumeCheck" /\ pc'[c] = "idle" /\ disk' = disk
    BY <1>1, <2>2, PlacedBack DEF Prepared
  <2>3. QED
    BY <1>2, <2>1, <2>2
<1>5. \A d \in Callers \ {c} : Fits(d)'
  BY <1>1, <1>2, OthersFit DEF Alone
<1>6. /\ Fits(c)'
      /\ disk' # disk => /\ disk'.status # "running"
                         /\ disk'.status \in Finals => ~disk'.cancelling
                         /\ disk'.decision => disk.decision \/ Brings(c)
                         /\ hist.started
  <2> USE <1>1
  <2>0. NewRun' = NewRun /\ Fits(c) /\ hist.started
    BY DEF NewRun, Placed
  <2>1. CASE pc[c] = "setup"
    <3>1. disk' = disk /\ disk = NewRun /\ mem[c] = NewRun /\ ~Live(c)'
      BY <2>0, <2>1 DEF Prepared, Fits, Live, LivePoints
    <3>2. ~NewRun.cancelling /\ ~NewRun.decision
      BY DEF NewRun
    <3>3. QED
      BY <2>0, <2>1, <3>1, <3>2 DEF Prepared, Fits
  <2>2. CASE pc[c] = "setupSave"
    BY <2>0, <2>2 DEF Prepared, Over, Fits, Live, LivePoints, Finals
  <2>3. CASE pc[c] = "cancelSave"
    BY <2>0, <2>3 DEF Prepared, Over, Fits, Live, LivePoints, Finals
  <2>4. CASE pc[c] = "resumeSave"
    BY <2>0, <2>4 DEF Prepared, Over, Fits, Live, LivePoints, Finals, Brings
  <2>5. CASE pc[c] = "cancelLoad"
    BY <2>0, <2>5 DEF Prepared, Over, Fits, Live, LivePoints
  <2>6. CASE pc[c] \in {"resumeCheck", "resumeLoad"}
    BY <2>0, <2>6 DEF Prepared, Over, Fits, Live, LivePoints
  <2>7. CASE pc[c] = "execCheck"
    BY <2>0, <2>7 DEF Prepared, Over, Fits, Live, LivePoints
  <2>8. CASE pc[c] = "execLoad"
    <3>1. disk' = disk
      BY <2>8 DEF Prepared, Over
    <3>2. CASE pc'[c] = "beginSave"
      <4>1. /\ disk.status \notin Finals
            /\ mem'[c] = snap'[c] /\ mem'[c].status = "running"
            /\ mem'[c].cancelling = disk.cancelling
            /\ mem'[c].decision = disk.decision
        BY <2>8, <3>2 DEF Prepared, Over
      <4>2. LiveFits("beginSave", disk, mem'[c], snap'[c])
        BY <4>1 DEF LiveFits, SavePoints, Finals
      <4>3. QED
        BY <3>1, <3>2, <4>2 DEF Fits
    <3>3. CASE pc'[c] # "beginSave"
      BY <2>0, <2>8, <3>1, <3>3 DEF Prepared, Over, Fits, Live, LivePoints
    <3>4. QED
      BY <3>2, <3>3
  <2>9. QED
    BY <2>1, <2>2, <2>3, <2>4, <2>5, <2>6, <2>7, <2>8 DEF Prepared
<1>7. DiskFits'
  <2>1. NewRun' = NewRun /\ hist.started
    BY <1>1 DEF NewRun, Placed
  <2>2. disk' = disk => Executing \subseteq Executing'
    BY <1>1 DEF Executing, Live, Others
  <2>3. CASE disk' = disk
    BY <1>1, <2>1, <2>2, <2>3 DEF Controlled, DiskFits, RunningHasExecutor
  <2>4. CASE disk' # disk
    BY <1>1, <1>6, <2>1, <2>4 DEF DiskFits, RunningHasExecutor
  <2>5. QED
    BY <2>3, <2>4
<1>8. Counted'
  <2>1. Counted /\ hist.delivered \in Nat /\ hist.given \in Nat
    BY DEF Controlled, TypeOK, History
  <2>2. CASE disk' = disk
    <3>1. /\ Brings(c)' => Brings(c)
          /\ \A d \in Callers \ {c} : Brings(d)' => Brings(d)
      <4>1. Brings(c)' => Brings(c)
        BY <2>2 DEF Prepared, Over, Brings
      <4>2. QED
        BY <1>1, <4>1, OthersBring
    <3>2. /\ Owed(0) => Owed(0)'
          /\ Owed(1) => Owed(1)'
      BY <1>1, <2>2, OwedKept
    <3>3. QED
      BY <2>1, <3>1, <3>2 DEF Counted
  <2>3. CASE disk' # disk
    <3>1. Alone(c) /\ \A d \in Callers \ {c} : ~Brings(d)'
      BY <1>1, <1>2, <1>3, <2>3, OthersBring
    <3>2. ~Brings(c)'
      BY <2>3 DEF Prepared, Over, Brings
    <3>3. Owed(0)'
      <4>1. Owed(0) /\ (Brings(c) => Owed(1)) /\ (disk'.decision => disk.decision \/ Brings(c))
        BY <1>6, <2>1, <2>3 DEF Counted
      <4>2. QED
        BY <1>1, <2>1, <4>1 DEF Owed
    <3>4. QED
      BY <3>1, <3>2, <3>3 DEF Counted
  <2>4. QED
    BY <2>2, <2>3
<1>9. QED
  BY <1>4, <1>5, <1>6, <1>7, <1>8 DEF Controlled

(* So do the steps inside executeRun: none of them writes the disk ...      *)
LEMMA ControlledLive ==
  ASSUME TypeOK, TypeOK', Controlled, NEW c \in Callers, Live(c), Live(c)',
         OwnStep(c), req'[c] = req[c], active' = active, Fits(c)',
         \/ disk' = disk /\ hist'.delivered = hist.delivered
         \/ /\ disk'.status \notin Finals
            /\ Owed(0)' /\ (Owed(1) => Owed(1)')
  PROVE  Controlled'
<1>1. /\ Placed /\ Others(c) /\ up' = up /\ hist'.started = hist.started
      /\ hist'.given = hist.given /\ hist.started /\ Counted
      /\ \A d \in Callers : Fits(d)
  BY DEF Controlled, OwnStep, Placed, Live, LivePoints
<1>2. Placed'
  BY <1>1, PlacedLive
<1>3. \A d \in Callers \ {c} : pc[d] \in {"idle", "resumeCheck"}
  BY <1>1, BesideLive
<1>4. \A d \in Callers \ {c} : Fits(d)'
  BY <1>1, <1>3, OthersFit
<1>5. DiskFits'
  <2>1. c \in Executing'
    BY DEF Executing
  <2>2. disk'.status \in Finals => ~disk'.cancelling
    BY DEF Controlled, DiskFits
  <2>3. QED
    BY <1>1, <2>1, <2>2 DEF DiskFits, RunningHasExecutor
<1>6. Counted'
  <2>1. ~Brings(c)'
    BY DEF Brings, Live, LivePoints
  <2>2. \A d \in Callers \ {c} : Brings(d)' => Brings(d)
    BY <1>1, OthersBring
  <2>3. CASE disk' = disk /\ hist'.delivered = hist.delivered
    <3>1. (Owed(0) => Owed(0)') /\ (Owed(1) => Owed(1)')
      BY <1>1, <2>3, OwedKept
    <3>2. QED
      BY <1>1, <2>1, <2>2, <3>1 DEF Counted
  <2>4. CASE Owed(0)' /\ (Owed(1) => Owed(1)')
    BY <1>1, <2>1, <2>2, <2>4 DEF Counted
  <2>5. QED
    BY <2>3, <2>4
<1>7. QED
  BY <1>2, <1>4, <1>5, <1>6 DEF Controlled

LEMMA ControlledWork ==
  ASSUME TypeOK, TypeOK', Controlled, NEW c \in Callers, Works(c)
  PROVE  Controlled'
<1>1. Live(c) /\ Live(c)' /\ Fits(c)
  BY DEF Works, Live, LivePoints, Controlled
<1>2. Fits(c)'
  BY <1>1 DEF Fits, LiveFits, Works, SavePoints, LivePoints, SameControl
<1>3. QED
  BY <1>1, <1>2, ControlledLive DEF Works

LEMMA ControlledSave ==
  ASSUME TypeOK, TypeOK', Controlled, NEW c \in Callers, Saves(c)
  PROVE  Controlled'
<1>1. Live(c) /\ Live(c)' /\ LiveFits(pc[c], disk, mem[c], snap[c])
  BY DEF Saves, Live, LivePoints, Controlled, Fits
<1>2. /\ mem[c].status = "running" /\ (disk.cancelling => mem[c].cancelling)
      /\ (mem[c].decision => disk.decision)
      /\ disk.status \notin {"succeeded", "cancelled"}
  BY <1>1 DEF LiveFits, Saves
<1>3. LiveFits(pc'[c], disk', mem'[c], snap'[c])
  BY <1>2 DEF LiveFits, Saves, SavePoints, SameControl
<1>4. Fits(c)'
  BY <1>1, <1>3 DEF Fits, Saves
<1>5. QED
  BY <1>1, <1>4, ControlledLive DEF Saves

(* ... or writes what fits.                                                 *)
LEMMA ControlledRename ==
  ASSUME TypeOK, TypeOK', Controlled, NEW c \in Callers, Renames(c)
  PROVE  Controlled'
<1>1. Live(c) /\ Live(c)' /\ LiveFits(pc[c], disk, mem[c], snap[c])
  BY DEF Renames, Live, LivePoints, Controlled, Fits
<1>2. /\ mem[c].status = "running" /\ snap[c].status = "running"
      /\ snap[c].cancelling => mem[c].cancelling
      /\ snap[c].decision => disk.decision
      /\ mem[c].decision => snap[c].decision
      /\ pc[c] = "decisionSave" => disk.decision /\ ~snap[c].decision
  BY <1>1 DEF LiveFits, Renames, SavePoints
<1>3. LiveFits(pc'[c], disk', mem'[c], snap'[c])
  BY <1>2 DEF LiveFits, Renames, SavePoints
<1>4. Fits(c)'
  BY <1>1, <1>3 DEF Fits, Renames
<1>5. /\ disk'.status \notin Finals /\ (disk'.decision => disk.decision)
      /\ Owed(0)' /\ (Owed(1) => Owed(1)')
  <2>1. /\ disk'.status \notin Finals /\ (disk'.decision => disk.decision)
        /\ hist'.given = hist.given
    BY <1>2 DEF Renames, OwnStep, Finals
  <2>2. Owed(0) /\ hist.delivered \in Nat /\ hist.given \in Nat
    BY DEF Controlled, Counted, TypeOK, History
  <2>3. CASE pc[c] = "decisionSave"
    <3>1. hist'.delivered = hist.delivered + 1 /\ disk.decision /\ ~disk'.decision
      BY <1>2, <2>3 DEF Renames
    <3>2. QED
      BY <2>1, <2>2, <3>1 DEF Owed
  <2>4. CASE pc[c] # "decisionSave"
    BY <2>1, <2>2, <2>4, OwedKept DEF Renames
  <2>5. QED
    BY <2>1, <2>3, <2>4
<1>6. QED
  BY <1>1, <1>4, <1>5, ControlledLive DEF Renames

(* The call that ends the execution is alone again, or has returned to its  *)
(* command while another one waits to look.                                 *)
Ends(c) ==
  /\ OwnStep(c) /\ Over(c) /\ pc[c] \in {"pauseSave", "endSave"}
  /\ disk' = snap[c] /\ hist'.delivered = hist.delivered
  /\ active' = [active EXCEPT ![HomeOf[c]] = NoCaller]
  /\ pc'[c] = "execCheck" => req[c].cmd = "approve"

LEMMA EndStep ==
  ASSUME TypeOK, NEW c \in Callers, ExecuteEnds(c)
  PROVE  Ends(c)
<1>1. /\ OwnStep(c) /\ Over(c) /\ disk' = snap[c]
      /\ pc'[c] = "execCheck" => req[c].cmd = "approve"
  BY ReturnOwn DEF ExecuteEnds, Over
<1>2. QED
  BY <1>1 DEF ExecuteEnds, Ends

LEMMA ControlledEnd ==
  ASSUME Serial, TypeOK, TypeOK', Controlled, NEW c \in Callers, Ends(c)
  PROVE  Controlled'
<1>1. /\ Placed /\ Live(c) /\ ~Live(c)' /\ Others(c)
      /\ LiveFits(pc[c], disk, mem[c], snap[c]) /\ hist.started
      /\ up' = up /\ hist'.started = hist.started /\ hist'.given = hist.given
      /\ HomeOf[c] \in up /\ \A d \in Callers : Fits(d)
  BY DEF Controlled, Ends, Over, OwnStep, Live, LivePoints, Fits, Placed
<1>2. /\ \A d \in Callers \ {c} : ~Live(d)' /\ pc'[d] = pc[d]
      /\ \A d \in Callers \ {c} :
           pc[d] = "idle" \/ (pc[d] = "resumeCheck" /\ pc'[c] = "idle")
  BY <1>1, BesideLive DEF Others, Live, Ends, Over
<1>3. \A p \in Procs : active'[p] = NoCaller
  <2>1. HomeOf[c] \in Procs /\ active \in [Procs -> Callers \cup {NoCaller}]
    BY CallerAssumption DEF TypeOK
  <2>2. QED
    BY <2>1 DEF Ends, Serial
<1>4. Placed'
  <2>1. \A d, e \in Callers : d # e => pc'[d] = "idle" \/ pc'[e] = "idle"
    <3> SUFFICES ASSUME NEW d \in Callers, NEW e \in Callers, d # e
                 PROVE  pc'[d] = "idle" \/ pc'[e] = "idle"
      OBVIOUS
    <3>1. CASE d = c \/ e = c
      BY <1>2, <3>1
    <3>2. CASE d # c /\ e # c
      BY <1>1, <1>2, <3>2 DEF Placed, Beside, Live, LivePoints
    <3>3. QED
      BY <3>1, <3>2
  <2>2. \A d \in Callers : ~Live(d)'
    BY <1>1, <1>2
  <2>3. \A d \in Callers : pc'[d] # "idle" => HomeOf[d] \in up' /\ hist'.started
    BY <1>1, <1>2 DEF Placed
  <2>4. QED
    BY <1>3, <2>1, <2>2, <2>3 DEF Placed, Beside
<1>5. \A d \in Callers \ {c} : Fits(d)'
  BY <1>1, <1>2, OthersFit
<1>6. Fits(c)'
  BY <1>1 DEF Fits, Ends, Over, NewRun
<1>7. /\ disk'.status # "running" /\ (disk'.status \in Finals => ~disk'.cancelling)
      /\ disk'.decision => disk.decision
  BY <1>1 DEF LiveFits, Ends, Finals
<1>8. DiskFits'
  BY <1>1, <1>7 DEF DiskFits, RunningHasExecutor
<1>9. Counted'
  <2>1. ~Brings(c)'
    BY DEF Ends, Over, Brings
  <2>2. \A d \in Callers \ {c} : Brings(d)' => Brings(d)
    BY <1>1, OthersBring
  <2>3. (Owed(0) => Owed(0)') /\ (Owed(1) => Owed(1)')
    BY <1>1, <1>7, OwedKept DEF Ends
  <2>4. QED
    BY <2>1, <2>2, <2>3 DEF Controlled, Counted
<1>10. QED
  BY <1>4, <1>5, <1>6, <1>8, <1>9 DEF Controlled

(* A command comes when nobody is under way or beside the call that         *)
(* executes the run.                                                        *)
LEMMA ControlledEnter ==
  ASSUME Serial, TypeOK, TypeOK', Controlled, NEW c \in Callers, NEW cmd,
         CanIssue(c, cmd), Others(c), UNCHANGED <<disk, mem, snap, active, up>>,
         hist'.started, hist'.delivered = hist.delivered,
         pc'[c] \in {"resumeCheck", "setup", "cancelLoad"},
         pc'[c] = "resumeCheck" => cmd \in AllCommands \ {"run", "cancel"},
         pc'[c] = "setup" => ~hist.started,
         pc'[c] = "cancelLoad" => active[HomeOf[c]] = NoCaller,
         hist'.given = hist.given + (IF Brings(c)' THEN 1 ELSE 0)
  PROVE  Controlled'
<1>1. /\ Placed /\ pc[c] = "idle" /\ HomeOf[c] \in up /\ Fits(c)
      /\ hist.started = (cmd # "run") /\ ~Live(c) /\ ~Live(c)'
      /\ mem[c] = NewRun /\ NewRun' = NewRun
  BY DEF Controlled, CanIssue, Live, LivePoints, Fits, NewRun
<1>2. \A d \in Callers \ {c} :
        /\ Live(d)' <=> Live(d)
        /\ pc'[d] = pc[d] /\ req'[d] = req[d]
        /\ pc[d] = "idle" \/ (Live(d) /\ (cmd = "cancel" \/ req[d].cmd # "approve"))
  BY DEF CanIssue, Apart, Serial, Others, Live
<1>3. \A d \in Callers \ {c} :
        pc[d] = "idle" \/ (Live(d) /\ req[d].cmd # "approve" /\ pc'[c] = "resumeCheck")
  <2> SUFFICES ASSUME NEW d \in Callers \ {c}, pc[d] # "idle"
               PROVE  Live(d) /\ req[d].cmd # "approve" /\ pc'[c] = "resumeCheck"
    OBVIOUS
  <2>1. Live(d)
    BY <1>2
  <2>2. pc'[c] # "cancelLoad"
    BY <1>1, <2>1, CallerAssumption DEF Placed, Serial
  <2>3. pc'[c] # "setup"
    BY <1>1 DEF Placed
  <2>4. QED
    BY <1>2, <2>1, <2>2, <2>3
<1>4. Placed'
  <2>1. \A d, e \in Callers : d # e => Beside(d, e)' \/ Beside(e, d)'
    <3> SUFFICES ASSUME NEW d \in Callers, NEW e \in Callers, d # e
                 PROVE  Beside(d, e)' \/ Beside(e, d)'
      OBVIOUS
    <3>1. CASE d = c
      BY <1>2, <1>3, <3>1 DEF Beside
    <3>2. CASE e = c
      BY <1>2, <1>3, <3>2 DEF Beside
    <3>3. CASE d # c /\ e # c
      BY <1>1, <1>2, <3>3 DEF Placed, Beside
    <3>4. QED
      BY <3>1, <3>2, <3>3
  <2>2. \A d \in Callers : Live(d)' => active'[HomeOf[d]] = d
    BY <1>1, <1>2 DEF Placed
  <2>3. \A p \in Procs : active'[p] # NoCaller => pc'[active'[p]] \in LivePoints
    <3> SUFFICES ASSUME NEW p \in Procs, active[p] # NoCaller
                 PROVE  pc'[active[p]] \in LivePoints
      OBVIOUS
    <3>1. active[p] \in Callers /\ Live(active[p])
      BY <1>1 DEF TypeOK, Placed
    <3>2. QED
      BY <1>1, <1>2, <3>1 DEF Live
  <2>4. \A d \in Callers : pc'[d] # "idle" => HomeOf[d] \in up' /\ hist'.started
    BY <1>1, <1>2 DEF Placed
  <2>5. QED
    BY <2>1, <2>2, <2>3, <2>4 DEF Placed, Live
<1>5. \A d \in Callers \ {c} : Fits(d)'
  BY OthersFit DEF Controlled
<1>6. Fits(c)'
  <2>1. pc'[c] = "setup" => disk = NewRun
    BY DEF Controlled, DiskFits
  <2>2. QED
    BY <1>1, <2>1 DEF Fits, Live, LivePoints
<1>7. DiskFits'
  <2>1. Executing \subseteq Executing'
    BY <1>1, <1>2 DEF Executing
  <2>2. QED
    BY <1>1, <2>1 DEF Controlled, DiskFits, RunningHasExecutor
<1>8. Counted'
  <2>1. /\ hist.delivered \in Nat /\ hist.given \in Nat /\ Counted
    BY DEF TypeOK, History, Controlled
  <2>2. \A d \in Callers \ {c} : ~Brings(d)'
    BY <1>2 DEF Brings, Live, LivePoints
  <2>3. Owed(0)' /\ (Brings(c)' => Owed(1)')
    BY <2>1 DEF Counted, Owed
  <2>4. QED
    BY <2>2, <2>3 DEF Counted
<1>9. QED
  BY <1>4, <1>5, <1>6, <1>7, <1>8 DEF Controlled

LEMMA ControlledIssue ==
  ASSUME Serial, TypeOK, TypeOK', Controlled, NEW c \in Callers,
         NEW cmd \in AllCommands \ {"run", "cancel"}, NEW from,
         NEW decision \in BOOLEAN, NEW reset, Issue(c, cmd, from, decision, reset)
  PROVE  Controlled'
<1>1. hist.started = TRUE /\ CanIssue(c, cmd)
  BY DEF Issue, CanIssue, TypeOK, History
<1>2. /\ hist'.started = hist.started /\ hist'.delivered = hist.delivered
      /\ hist'.given = hist.given + (IF decision THEN 1 ELSE 0)
  BY DEF Issue, TypeOK, History
<1>3. /\ pc'[c] = "resumeCheck" /\ req'[c].decision = decision /\ Others(c)
      /\ UNCHANGED <<disk, mem, snap, active, up>>
  BY DEF Issue, Goto, Others, TypeOK
<1>4. Brings(c)' <=> decision
  BY <1>3 DEF Brings
<1>5. QED
  BY <1>1, <1>2, <1>3, <1>4, ControlledEnter

LEMMA ControlledCommand ==
  ASSUME Serial, TypeOK, TypeOK', Controlled, NEW c \in Callers, Command(c)
  PROVE  Controlled'
<1>1. CASE \/ CallResume(c) \/ CallApprove(c) \/ CallReplan(c) \/ CallRevise(c)
  <2>1. PICK cmd \in AllCommands \ {"run", "cancel"}, from \in Nat,
             decision \in BOOLEAN, reset \in Nat :
          Issue(c, cmd, from, decision, reset)
    <3>1. CASE CallResume(c)
      <4>1. PICK from \in 0..(Len(Lane) + 1) : Issue(c, "resume", from, FALSE, 0)
        BY <3>1 DEF CallResume
      <4>2. from \in Nat /\ "resume" \in AllCommands \ {"run", "cancel"}
        BY LaneFacts DEF AllCommands
      <4>3. QED
        BY <4>1, <4>2
    <3>2. CASE CallApprove(c)
      BY <3>2 DEF CallApprove, AllCommands
    <3>3. CASE CallReplan(c)
      BY <3>3 DEF CallReplan, AllCommands
    <3>4. CASE CallRevise(c)
      <4>1. PICK from \in ReviseFrom, stage \in {i \in 1..Len(Lane) : Lane[i].impl} :
              Issue(c, "revise", from, FALSE, stage)
        BY <3>4 DEF CallRevise
      <4>2. from \in Nat /\ stage \in Nat
        BY LaneFacts, CallerAssumption
      <4>3. "revise" \in AllCommands \ {"run", "cancel"}
        BY DEF AllCommands
      <4>4. QED
        BY <4>1, <4>2, <4>3
    <3>5. QED
      BY <1>1, <3>1, <3>2, <3>3, <3>4
  <2>2. QED
    BY <2>1, ControlledIssue
<1>2. CASE CallRun(c)
  <2>1. /\ CanIssue(c, "run") /\ ~hist.started /\ pc'[c] = "setup" /\ Others(c)
        /\ UNCHANGED <<disk, mem, snap, active, up>>
    BY <1>2 DEF CallRun, CanIssue, Goto, Others, TypeOK
  <2>2. /\ hist'.started = TRUE /\ hist'.delivered = hist.delivered
        /\ hist'.given = hist.given /\ hist.given \in Nat
    BY <1>2 DEF CallRun, TypeOK, History
  <2>3. ~Brings(c)'
    BY <2>1 DEF Brings
  <2>4. QED
    BY <2>1, <2>2, <2>3, ControlledEnter
<1>3. CASE CallCancel(c)
  <2>1. /\ CanIssue(c, "cancel") /\ pc'[c] = "cancelLoad" /\ Others(c)
        /\ UNCHANGED <<disk, mem, snap, active, up, hist>>
        /\ active[HomeOf[c]] = NoCaller
    BY <1>3 DEF CallCancel, Goto, Others, TypeOK
  <2>2. hist.started /\ hist.given \in Nat
    BY <2>1 DEF CanIssue, TypeOK, History
  <2>3. ~Brings(c)'
    BY <2>1 DEF Brings
  <2>4. QED
    BY <2>1, <2>2, <2>3, ControlledEnter
<1>4. CASE CancelLive(c)
  <2> DEFINE e == active[HomeOf[c]]
  <2>1. e \in Callers /\ Live(e)
    BY <1>4, CallerAssumption DEF TypeOK, CancelLive, Controlled, Placed
  <2>2. /\ UNCHANGED <<disk, snap, pc, req, active, up>>
        /\ \A d \in Callers \ {e} : mem'[d] = mem[d]
        /\ mem'[e] = [mem[e] EXCEPT !.cancelling = TRUE] /\ mem[e] \in RunState
    BY <1>4, <2>1 DEF CancelLive, TypeOK
  <2>3. /\ mem'[e].cancelling /\ mem'[e].status = mem[e].status
        /\ mem'[e].decision = mem[e].decision
    BY <2>2 DEF RunState
  <2>4. /\ hist'.started = hist.started /\ hist'.delivered = hist.delivered
        /\ hist'.given = hist.given
    BY <1>4 DEF CancelLive, TypeOK, History
  <2>5. Placed'
    BY <2>2, <2>4 DEF Controlled, Placed, Beside, Live
  <2>6. ASSUME NEW d \in Callers PROVE Fits(d)'
    <3>1. Fits(d) /\ NewRun' = NewRun
      BY DEF Controlled, NewRun
    <3>2. CASE d # e
      BY <2>2, <3>1, <3>2 DEF Fits, LiveFits, Live
    <3>3. CASE d = e
      <4>1. pc[e] \notin {"idle", "setup", "setupSave", "resumeSave", "cancelSave"}
        BY <2>1 DEF Live, LivePoints
      <4>2. LiveFits(pc[e], disk, mem[e], snap[e])
        BY <2>1, <3>1, <3>3 DEF Fits
      <4>3. LiveFits(pc[e], disk, mem'[e], snap[e])
        BY <2>3, <4>2 DEF LiveFits
      <4>4. QED
        BY <2>2, <3>3, <4>1, <4>3 DEF Fits
    <3>4. QED
      BY <3>2, <3>3
  <2>7. DiskFits'
    BY <2>2, <2>4
    DEF Controlled, DiskFits, RunningHasExecutor, Executing, Live, NewRun
  <2>8. Counted'
    BY <2>2, <2>4 DEF Controlled, Counted, Owed, Brings
  <2>9. QED
    BY <2>5, <2>6, <2>7, <2>8 DEF Controlled
<1>5. QED
  BY <1>1, <1>2, <1>3, <1>4 DEF Command

(* A step that leaves everything the invariant speaks of.                   *)
LEMMA ControlledStill ==
  ASSUME Controlled, UNCHANGED <<disk, mem, snap, pc, req, active, up>>,
         hist'.started = hist.started, hist'.delivered = hist.delivered,
         hist'.given = hist.given
  PROVE  Controlled'
<1>1. Placed' /\ Counted'
  BY DEF Controlled, Placed, Beside, Live, Counted, Owed, Brings
<1>2. \A d \in Callers : Fits(d)'
  BY DEF Controlled, Fits, LiveFits, Live, NewRun
<1>3. DiskFits'
  BY DEF Controlled, DiskFits, RunningHasExecutor, Executing, Live, NewRun
<1>4. QED
  BY <1>1, <1>2, <1>3 DEF Controlled

LEMMA ControlledWorld ==
  ASSUME Serial, TypeOK, TypeOK', Controlled,
         \/ \E p \in Procs : Crash(p) \/ SessionStart(p)
         \/ \E body \in late : LatePublish(body)
         \/ HandEdit
  PROVE  Controlled'
<1>1. ASSUME NEW p \in Procs, Crash(p) PROVE Controlled'
  <2>1. \A c \in Callers : HomeOf[c] = p
    BY CallerAssumption DEF Serial
  <2>2. /\ \A c \in Callers : pc'[c] = "idle" /\ mem'[c] = NewRun /\ ~Live(c)'
        /\ \A q \in Procs : active'[q] = NoCaller
        /\ up' # Procs /\ UNCHANGED <<disk, hist>>
    BY <1>1, <2>1 DEF Crash, Serial, TypeOK, Live, LivePoints
  <2>3. Placed'
    BY <2>2 DEF Placed, Beside
  <2>4. \A c \in Callers : Fits(c)'
    BY <2>2 DEF Fits, NewRun
  <2>5. DiskFits'
    BY <2>2 DEF Controlled, DiskFits, RunningHasExecutor, NewRun
  <2>6. Counted'
    BY <2>2 DEF Controlled, Counted, Owed, Brings
  <2>7. QED
    BY <2>3, <2>4, <2>5, <2>6 DEF Controlled
<1>2. ASSUME NEW p \in Procs, SessionStart(p) PROVE Controlled'
  <2>1. \A c \in Callers : pc[c] = "idle" /\ ~Live(c)
    <3>1. \A c \in Callers : HomeOf[c] = p
      BY CallerAssumption DEF Serial
    <3>2. QED
      BY <1>2, <3>1 DEF SessionStart, Controlled, Placed, Live, LivePoints
  <2>2. /\ UNCHANGED <<mem, snap, pc, req, active>>
        /\ hist'.started = hist.started /\ hist'.delivered = hist.delivered
        /\ hist'.given = hist.given
    BY <1>2 DEF SessionStart, TypeOK, History
  <2>3. /\ disk'.status # "running" /\ disk'.decision = disk.decision
        /\ disk'.status \in Finals => disk' = disk
        /\ disk.status # "running" => disk' = disk
    BY <1>2 DEF SessionStart, TypeOK, RunState, Finals
  <2>4. Placed'
    BY <2>1, <2>2 DEF Controlled, Placed, Beside, Live, LivePoints
  <2>5. \A c \in Callers : Fits(c)'
    BY <2>1, <2>2 DEF Controlled, Fits, Live, LivePoints, NewRun
  <2>6. DiskFits'
    <3>1. NewRun' = NewRun /\ NewRun.status # "running"
      BY DEF NewRun
    <3>2. QED
      BY <2>2, <2>3, <3>1 DEF Controlled, DiskFits, RunningHasExecutor
  <2>7. Counted'
    BY <2>1, <2>2, <2>3 DEF Controlled, Counted, Owed, Brings
  <2>8. QED
    BY <2>4, <2>5, <2>6, <2>7 DEF Controlled
<1>3. ASSUME NEW body \in late, LatePublish(body) PROVE Controlled'
  <2>1. /\ hist'.started = hist.started /\ hist'.delivered = hist.delivered
        /\ hist'.given = hist.given
    BY <1>3 DEF LatePublish, Push, TypeOK, History
  <2>2. QED
    BY <1>3, <2>1, ControlledStill DEF LatePublish
<1>4. CASE HandEdit
  BY <1>4, ControlledStill DEF HandEdit
<1>5. QED
  BY <1>1, <1>2, <1>3, <1>4

LEMMA ControlledStart ==
  ASSUME Init
  PROVE  Controlled
<1>1. \A c \in Callers : ~Live(c) /\ ~Brings(c)
  BY DEF Init, Live, LivePoints, Brings
<1>2. /\ NewRun.status = "pending" /\ ~NewRun.decision
  BY DEF NewRun
<1>3. Placed
  BY <1>1 DEF Init, Placed, Beside
<1>4. \A c \in Callers : Fits(c)
  BY <1>1 DEF Init, Fits
<1>5. DiskFits
  BY <1>2 DEF Init, DiskFits, RunningHasExecutor, Finals
<1>6. Counted
  BY <1>1, <1>2 DEF Init, Counted, Owed
<1>7. QED
  BY <1>3, <1>4, <1>5, <1>6 DEF Controlled

(* The invariant of one session at a time.                                  *)
LEMMA ControlledAlways ==
  ASSUME Serial
  PROVE  Spec => []Controlled
<1>1. Init => Controlled
  BY ControlledStart
<1>2. TypeOK /\ TypeOK' /\ Controlled /\ [Next]_vars => Controlled'
  <2> SUFFICES ASSUME TypeOK, TypeOK', Controlled, [Next]_vars
               PROVE  Controlled'
    OBVIOUS
  <2>1. CASE UNCHANGED vars
    BY <2>1, ControlledStill DEF vars
  <2>2. ASSUME NEW c \in Callers, Continue(c) PROVE Controlled'
    <3>1. Prepares(c) \/ Works(c) \/ Saves(c) \/ Renames(c) \/ ExecuteEnds(c)
      BY <2>2, StepsOfCall
    <3>2. QED
      BY <3>1, PrepareStep, EndStep, ControlledPrepare, ControlledWork,
         ControlledSave, ControlledRename, ControlledEnd
  <2>3. QED
    BY <2>1, <2>2, ControlledCommand, ControlledWorld DEF Next
<1>3. QED
  BY <1>1, <1>2, TypeCorrect, PTL DEF Spec

-----------------------------------------------------------------------------
(* `active` and the status check of resumeRun keep a second executeRun out. *)
THEOREM OneExecutor ==
  ASSUME Serial
  PROVE  Spec => []AtMostOneExecutor
<1>1. Controlled => AtMostOneExecutor
  <2> SUFFICES ASSUME Controlled PROVE Cardinality(Executing) <= 1
    BY DEF AtMostOneExecutor
  <2>1. \A c, d \in Executing : c = d
    BY BesideLive DEF Controlled, Executing
  <2>2. CASE Executing = {}
    BY <2>2, FS_EmptySet
  <2>3. CASE Executing # {}
    <3>1. PICK c \in Executing : TRUE
      BY <2>3
    <3>2. Executing = {c}
      BY <2>1, <3>1
    <3>3. QED
      BY <3>2, FS_Singleton
  <2>4. QED
    BY <2>2, <2>3
<1>2. QED
  BY <1>1, ControlledAlways, PTL

(* The status on disk tells whether the run is executed: nothing works on   *)
(* after it has succeeded or been cancelled, and a run that says it runs    *)
(* does.                                                                    *)
THEOREM StatusTells ==
  ASSUME Serial
  PROVE  Spec => []StatusTellsExecutor
<1>1. Controlled => StatusTellsExecutor
  <2> SUFFICES ASSUME Controlled PROVE FinishedIsQuiet /\ RunningHasExecutor
    BY DEF StatusTellsExecutor
  <2>1. FinishedIsQuiet
    BY DEF Controlled, Fits, LiveFits, FinishedIsQuiet, Executing
  <2>2. QED
    BY <2>1 DEF Controlled, DiskFits
<1>2. QED
  BY <1>1, ControlledAlways, PTL

(* What a step may write to state.json, as it stands.                       *)
DiskSafe ==
  /\ disk.status \in {"succeeded", "cancelled"} => disk'.status = disk.status
  /\ disk.cancelling => disk'.status \notin {"succeeded", "failed"}

LEMMA DiskStep ==
  ASSUME TypeOK, Controlled, [Next]_vars
  PROVE  DiskSafe
<1>1. CASE disk' = disk
  BY <1>1 DEF DiskSafe, Controlled, DiskFits, Finals
<1>2. ASSUME NEW p \in Procs, SessionStart(p) PROVE DiskSafe
  BY <1>2 DEF SessionStart, DiskSafe, Controlled, DiskFits, Finals, TypeOK, RunState
<1>3. ASSUME NEW c \in Callers, Continue(c), disk' # disk PROVE DiskSafe
  <2>1. Fits(c) /\ (Live(c) => LiveFits(pc[c], disk, mem[c], snap[c]))
    BY DEF Controlled, Fits
  <2>2. CASE Prepared(c)
    <3>1. pc[c] \in {"setupSave", "cancelSave", "resumeSave"} /\ disk' = snap[c]
      BY <1>3, <2>2 DEF Prepared
    <3>2. NewRun.status = "pending" /\ ~NewRun.cancelling
      BY DEF NewRun
    <3>3. QED
      BY <2>1, <3>1, <3>2 DEF Fits, DiskSafe, Finals
  <2>3. CASE Renames(c)
    <3>1. Live(c) /\ pc[c] \in SavePoints /\ disk' = snap[c]
      BY <2>3 DEF Renames, SavePoints, Live, LivePoints
    <3>2. QED
      BY <2>1, <3>1 DEF LiveFits, DiskSafe
  <2>4. CASE Ends(c)
    <3>1. Live(c) /\ pc[c] \in {"pauseSave", "endSave"} /\ disk' = snap[c]
      BY <2>4 DEF Ends, Live, LivePoints
    <3>2. QED
      BY <2>1, <3>1 DEF LiveFits, DiskSafe
  <2>5. QED
    BY <1>3, <2>2, <2>3, <2>4, StepsOfCall, PrepareStep, EndStep DEF Works, Saves
<1>4. CASE ~(disk' = disk)
  <2>1. ASSUME NEW c \in Callers PROVE ~Command(c)
    BY <1>4
    DEF Command, CallRun, CallResume, CallApprove, CallReplan, CallRevise,
        CancelLive, CallCancel, Issue
  <2>2. ~(UNCHANGED vars) /\ ~HandEdit
    BY <1>4 DEF vars, HandEdit
  <2>3. \A p \in Procs : ~Crash(p)
    BY <1>4 DEF Crash
  <2>4. \A body \in late : ~LatePublish(body)
    BY <1>4 DEF LatePublish
  <2>5. QED
    BY <1>2, <1>3, <1>4, <2>1, <2>2, <2>3, <2>4 DEF Next
<1>5. QED
  BY <1>1, <1>4

(* A run that has succeeded or been cancelled stays so: no resume, no late  *)
(* save and no session start brings it back.                                *)
THEOREM FinishedStays ==
  ASSUME Serial
  PROVE  Spec => FinishedIsFinal
<1>1. TypeOK /\ Controlled /\ [Next]_vars =>
        [disk.status \in {"succeeded", "cancelled"} => disk'.status = disk.status]_vars
  BY DiskStep DEF DiskSafe
<1>2. QED
  BY <1>1, TypeCorrect, ControlledAlways, PTL DEF Spec, FinishedIsFinal

(* A cancellation that has reached the disk ends the run as cancelled, or   *)
(* leaves it to be resumed; it never succeeds and never fails.              *)
THEOREM CancelIsHonoured ==
  ASSUME Serial
  PROVE  Spec => CancelHonoured
<1>1. TypeOK /\ Controlled /\ [Next]_vars =>
        [disk.cancelling => disk'.status \notin {"succeeded", "failed"}]_vars
  BY DiskStep DEF DiskSafe
<1>2. QED
  BY <1>1, TypeCorrect, ControlledAlways, PTL DEF Spec, CancelHonoured

-----------------------------------------------------------------------------
(* Why no implement stage starts before the operator has let the run        *)
(* through.  This needs no order of the calls.                              *)

(* Where the transitions from before the steer stage lead.                  *)
LEMMA TransitionBefore ==
  ASSUME NEW h, Steers(h), NEW i \in 1..h, NEW verdict,
         i = h => verdict # "PASS"
  PROVE  LET target == Transition(Lane, i, verdict) IN
         /\ target \in 1..Len(Lane) => target \in 1..h
         /\ verdict # "PASS" /\ Lane[i].onFail = "fix-round" => target \notin 1..Len(Lane)
<1> DEFINE target == Transition(Lane, i, verdict)
<1>1. /\ h \in 1..Len(Lane) /\ Len(Lane) \in Nat /\ i \in 1..Len(Lane)
      /\ h <= Len(Lane) /\ ~Lane[i].impl
  <2>1. h \in 1..Len(Lane) /\ Len(Lane) \in Nat
    BY LaneFacts DEF Steers
  <2>2. i \in 1..Len(Lane)
    BY <2>1
  <2>3. ~Lane[i].impl
    BY <2>1, <2>2 DEF Steers
  <2>4. QED
    BY <2>1, <2>2, <2>3
<1>2. ~(\E j \in 1..(i - 1) : IsMostRecentImplement(Lane, i, j))
  <2> SUFFICES ASSUME NEW j \in 1..(i - 1), Lane[j].impl PROVE FALSE
    BY DEF IsMostRecentImplement
  <2>1. j \in 1..Len(Lane) /\ j < h
    BY <1>1
  <2>2. h < j
    BY <2>1 DEF Steers
  <2>3. QED
    BY <1>1, <2>1, <2>2
<1>3. mostRecentImplementStage(Lane, i) = Escalate(Lane)
  BY <1>2 DEF mostRecentImplementStage
<1>4. Escalate(Lane) \notin 1..Len(Lane)
  BY <1>1 DEF Escalate
<1>5. CASE verdict = "PASS"
  <2>1. i # h /\ i < h /\ i < Len(Lane)
    BY <1>1, <1>5
  <2>2. target = i + 1
    BY <1>5, <2>1 DEF Transition, OnPass, NextStage
  <2>3. QED
    BY <1>1, <1>5, <2>1, <2>2
<1>6. CASE verdict # "PASS" /\ Lane[i].onFail = "fix-round"
  BY <1>1, <1>3, <1>4, <1>6 DEF Transition, OnNotPass
<1>7. CASE verdict # "PASS" /\ Lane[i].onFail = "continue"
  <2>1. i # h
    BY <1>7 DEF Steers
  <2>2. i < h /\ i < Len(Lane)
    BY <1>1, <2>1
  <2>3. target = i + 1
    BY <1>7, <2>2 DEF Transition, OnNotPass, NextStage
  <2>4. QED
    BY <1>1, <1>7, <2>2, <2>3
<1>8. CASE verdict # "PASS" /\ Lane[i].onFail \notin {"fix-round", "continue"}
  BY <1>4, <1>8 DEF Transition, OnNotPass
<1>9. QED
  BY <1>5, <1>6, <1>7, <1>8

(* A resume that moves nothing keeps the run where it was.                  *)
LEMMA ResumedBefore ==
  ASSUME NEW s \in RunState, NEW r \in Request, NEW h, Before(s, h),
         r.reset # 0 => Lane[r.reset].impl,
         r.from = 0 \/ Restores(s, r.reset)
  PROVE  Before(Resumed(s, r), h)
<1>1. ~Restores(s, r.reset)
  <2> SUFFICES ASSUME r.reset # 0, s.rounds[r.reset] > 0 PROVE FALSE
    BY DEF Restores
  <2>1. r.reset \in 1..Len(Lane)
    BY LaneFacts DEF Request
  <2>2. s.rounds[r.reset] = 0
    BY <2>1 DEF Before
  <2>3. QED
    BY <2>2
<1>2. r.from = 0
  BY <1>1
<1>3. Resumed(s, r) = [s EXCEPT !.decision = r.decision, !.status = "paused"]
  BY <1>1, <1>2 DEF Resumed, ResetRound
<1>4. Resumed(s, r).at = s.at /\ Resumed(s, r).rounds = s.rounds
  BY <1>3 DEF RunState
<1>5. QED
  BY <1>4 DEF Before

LEMMA PositionBefore ==
  ASSUME NEW s, NEW t, NEW h, Before(s, h), t.rounds = s.rounds,
         t.at \in {s.at, Escalate(Lane)}
  PROVE  Before(t, h)
  BY DEF Before

LEMMA NewBefore ==
  ASSUME NEW h, Steers(h)
  PROVE  Before(NewRun, h)
  BY LaneFacts DEF Steers, Before, NewRun

(* The caller has the result of a stage to act on.                          *)
Reports(c) == pc[c] \in {"finishing", "stepSave", "after"}
NotLetThrough(c, h) ==
  Reports(c) /\ mem[c].at = h => res[c].verdict # "PASS" \/ res[c].pause

(* The step of a call, seen from the invariant: only its own memory moves.  *)
LEMMA HeldBackStep ==
  ASSUME NEW h, Steers(h), HeldBack(h), NEW c \in Callers, OwnStep(c),
         Unsteered' => Unsteered,
         Unsteered' => Before(mem'[c], h) /\ NotLetThrough(c, h)'
  PROVE  HeldBack(h)'
<1> SUFFICES ASSUME Unsteered'
             PROVE  /\ Before(disk', h)
                    /\ \A d \in Callers :
                         /\ Before(mem'[d], h) /\ Before(snap'[d], h)
                         /\ NotLetThrough(d, h)'
  BY DEF HeldBack, NotLetThrough, Reports
<1>1. /\ Before(disk, h)
      /\ \A d \in Callers : /\ Before(mem[d], h) /\ Before(snap[d], h)
                            /\ NotLetThrough(d, h)
  BY DEF HeldBack, NotLetThrough, Reports
<1>2. /\ disk' \in {disk, snap[c]} /\ snap'[c] \in {snap[c], NewRun, mem'[c]}
      /\ Others(c)
  BY DEF OwnStep
<1>3. Before(disk', h) /\ Before(snap'[c], h)
  BY <1>1, <1>2, NewBefore
<1>4. \A d \in Callers \ {c} : /\ Before(mem'[d], h) /\ Before(snap'[d], h)
                               /\ NotLetThrough(d, h)'
  BY <1>1, <1>2 DEF Others, NotLetThrough, Reports
<1>5. QED
  BY <1>3, <1>4

LEMMA ContinueOwn ==
  ASSUME TypeOK, NEW c \in Callers, Continue(c)
  PROVE  OwnStep(c)
  BY StepsOfCall, PrepareStep, EndStep
  DEF Prepared, Works, Saves, Renames, Ends

LEMMA CommandIs ==
  ASSUME TypeOK, NEW c \in Callers, Command(c)
  PROVE  /\ UNCHANGED <<disk, snap, res>>
         /\ \A d \in Callers : SamePosition(mem[d], mem'[d])
         /\ \A d \in Callers : Reports(d)' => Reports(d)
         /\ \A d \in Callers \ {c} : req'[d] = req[d]
         /\ req'[c].reset # 0 => req'[c].reset = req[c].reset \/ Lane[req'[c].reset].impl
         /\ hist'.approvals = hist.approvals /\ hist'.jumped = hist.jumped
<1>0. \A d \in Callers : SamePosition(mem[d], mem[d])
  BY DEF SamePosition
<1>1. ASSUME NEW cmd, NEW from, NEW decision, NEW reset,
             reset # 0 => Lane[reset].impl, Issue(c, cmd, from, decision, reset)
      PROVE  /\ UNCHANGED <<disk, snap, res, mem>>
             /\ \A d \in Callers : Reports(d)' => Reports(d)
             /\ \A d \in Callers \ {c} : req'[d] = req[d]
             /\ req'[c].reset # 0 => Lane[req'[c].reset].impl
             /\ hist'.approvals = hist.approvals /\ hist'.jumped = hist.jumped
  <2>1. req'[c].reset = reset /\ \A d \in Callers \ {c} : req'[d] = req[d]
    BY <1>1 DEF Issue, TypeOK
  <2>2. \A d \in Callers : pc'[d] = pc[d] \/ pc'[d] = "resumeCheck"
    BY <1>1 DEF Issue, Goto, TypeOK
  <2>3. hist'.approvals = hist.approvals /\ hist'.jumped = hist.jumped
    BY <1>1 DEF Issue, TypeOK, History
  <2>4. QED
    BY <1>1, <2>1, <2>2, <2>3 DEF Issue, Reports
<1>2. CASE \/ CallResume(c) \/ CallApprove(c) \/ CallReplan(c) \/ CallRevise(c)
  <2>1. \E cmd, from, decision, reset :
          (reset # 0 => Lane[reset].impl) /\ Issue(c, cmd, from, decision, reset)
    BY <1>2 DEF CallResume, CallApprove, CallReplan, CallRevise
  <2>2. QED
    BY <1>0, <1>1, <2>1
<1>3. CASE CallRun(c) \/ CallCancel(c)
  <2>1. /\ UNCHANGED <<disk, snap, res, mem>>
        /\ hist'.approvals = hist.approvals /\ hist'.jumped = hist.jumped
        /\ \A d \in Callers : pc'[d] = pc[d] \/ pc'[d] \in {"setup", "cancelLoad"}
    BY <1>3 DEF CallRun, CallCancel, Goto, TypeOK, History
  <2>2. \E x : req' = [req EXCEPT ![c] = [req[c] EXCEPT !.cmd = x]]
    BY <1>3 DEF CallRun, CallCancel
  <2>3. /\ \A d \in Callers \ {c} : req'[d] = req[d]
        /\ req'[c].reset = req[c].reset
    BY <2>2 DEF TypeOK, Request
  <2>4. QED
    BY <1>0, <2>1, <2>3 DEF Reports
<1>4. CASE CancelLive(c)
  <2>1. \A d \in Callers : mem[d] \in RunState
    BY DEF TypeOK
  <2>2. \A d \in Callers : mem'[d] = mem[d] \/ mem'[d] = [mem[d] EXCEPT !.cancelling = TRUE]
    BY <1>4 DEF CancelLive, TypeOK
  <2>3. ASSUME NEW d \in Callers PROVE SamePosition(mem[d], mem'[d])
    <3>1. CASE mem'[d] = mem[d]
      BY <1>0, <3>1
    <3>2. CASE mem'[d] = [mem[d] EXCEPT !.cancelling = TRUE]
      <4> DEFINE s == mem[d]
                 t == [s EXCEPT !.cancelling = TRUE]
      <4>1. s \in RunState
        BY <2>1
      <4>2. SamePosition(s, t)
        BY <4>1 DEF RunState, SamePosition
      <4>3. QED
        BY <3>2, <4>2
    <3>3. QED
      BY <2>2, <3>1, <3>2
  <2>4. QED
    BY <1>4, <2>3 DEF CancelLive, Reports, TypeOK, History
<1>5. QED
  BY <1>2, <1>3, <1>4 DEF Command

(* The operator's word and hand are remembered.                             *)
Grown == /\ hist.jumped => hist'.jumped
         /\ hist'.approvals = 0 => hist.approvals = 0

LEMMA HistoryGrows ==
  ASSUME TypeOK, NEW c \in Callers, Continue(c)
  PROVE  Grown
<1>0. hist.approvals \in Nat
  BY DEF TypeOK, History
<1>1. CASE hist' = hist
  BY <1>1 DEF Grown
<1>2. CASE SteerReturns(c)
  BY <1>0, <1>2 DEF SteerReturns, Grown, TypeOK, History
<1>3. CASE PublishReturns(c)
  BY <1>3 DEF PublishReturns, Push, Grown, TypeOK, History
<1>4. CASE ResumeLoad(c)
  <2>1. CASE UNCHANGED hist
    BY <2>1 DEF Grown
  <2>2. CASE hist' = [hist EXCEPT !.jumped =
               @ \/ (req[c].from # 0 /\ ~Restores(disk, req[c].reset))]
    <3>1. DOMAIN hist = {"started", "commands", "starts", "jumped", "approvals",
            "given", "delivered", "asked", "seen", "reviewed", "pushed"}
      BY DEF TypeOK, History
    <3>2. /\ hist'.approvals = hist.approvals
          /\ hist'.jumped = (hist.jumped \/ (req[c].from # 0 /\ ~Restores(disk, req[c].reset)))
      BY <2>2, <3>1
    <3>3. QED
      BY <3>2 DEF Grown
  <2>3. QED
    BY <1>4, <2>1, <2>2 DEF ResumeLoad
<1>5. CASE DecisionSaved(c)
  BY <1>5 DEF DecisionSaved, Grown, TypeOK, History
<1>6. CASE StartStage(c)
  BY <1>6 DEF StartStage, Grown, TypeOK, History
<1>7. CASE FinishStep(c)
  BY <1>7 DEF FinishStep, Grown, TypeOK, History
<1>8. QED
  BY <1>1, <1>2, <1>3, <1>4, <1>5, <1>6, <1>7
  DEF Continue, Body, SetupDone, SetupFailed, SetupSaved, CancelLoad, CancelSaved,
      ResumeCheck, ResumeSaved, ExecCheck, ExecLoad, BeginSaved, TopCancelled,
      TopExhausted, SkipStage, ConsumeDecision, TerminalReturns, PublishTimesOut,
      StageReturns, StepSaved, AfterCancelled, AfterExhausted, AfterPause,
      AfterTerminal, AfterEscalation, ApplyTransition, NextSaved, ExecuteEnds

LEMMA WorksHeldBack ==
  ASSUME TypeOK, NEW h, Steers(h), HeldBack(h), NEW c \in Callers,
         SkipStage(c) \/ StartStage(c) \/ Body(c), Unsteered, Unsteered'
  PROVE  Before(mem'[c], h) /\ NotLetThrough(c, h)'
<1>1. Works(c) /\ Before(mem[c], h) /\ h \in 1..Len(Lane)
  BY WorkStep DEF HeldBack, Steers
<1>2. mem'[c].at = mem[c].at /\ mem'[c].rounds = mem[c].rounds
  BY <1>1 DEF Works, SamePosition
<1>3. Before(mem'[c], h)
  BY <1>1, <1>2 DEF Before
<1>4. ASSUME mem[c].at = h PROVE NotLetThrough(c, h)'
  <2>1. ~isTerminalStep(Lane, mem[c].at) /\ StageOf(c) = Lane[h]
    BY <1>1, <1>4, LaneFacts DEF isTerminalStep, Escalate, StageOf
  <2>2. /\ Lane[h].kind = "human" /\ ~Lane[h].optional /\ ~Lane[h].publish
    BY DEF Steers
  <2>3. CASE StartStage(c)
    BY <2>3 DEF StartStage, Goto, TypeOK, NotLetThrough, Reports
  <2>4. CASE SteerReturns(c)
    <3>1. hist' # [hist EXCEPT !.approvals = @ + 1]
      BY DEF TypeOK, History, Unsteered
    <3>2. \/ Returns(c, [NoResult EXCEPT !.verdict = "NEEDS_MORE"])
          \/ Returns(c, [NoResult EXCEPT !.pause = TRUE])
      BY <2>4, <3>1 DEF SteerReturns
    <3>3. \/ res'[c] = [NoResult EXCEPT !.verdict = "NEEDS_MORE"]
          \/ res'[c] = [NoResult EXCEPT !.pause = TRUE]
      BY <3>2 DEF Returns, TypeOK
    <3>4. res'[c].verdict # "PASS" \/ res'[c].pause
      BY <3>3 DEF NoResult
    <3>5. QED
      BY <3>4 DEF NotLetThrough
  <2>5. ~SkipStage(c) /\ ~TerminalReturns(c) /\ ~PublishReturns(c)
        /\ ~PublishTimesOut(c) /\ ~StageReturns(c)
    BY <1>4, <2>1, <2>2
    DEF SkipStage, TerminalReturns, PublishReturns, PublishTimesOut, StageReturns
  <2>6. QED
    BY <2>3, <2>4, <2>5 DEF Body
<1>5. QED
  BY <1>2, <1>3, <1>4 DEF NotLetThrough

LEMMA HeldBackContinue ==
  ASSUME TypeOK, ResetsImpl, NEW h, Steers(h), HeldBack(h), NEW c \in Callers,
         Continue(c)
  PROVE  HeldBack(h)'
<1>1. OwnStep(c) /\ (Unsteered' => Unsteered)
  BY ContinueOwn, HistoryGrows DEF Grown, Unsteered
<1>2. ASSUME Unsteered', Unsteered
      PROVE  Before(mem'[c], h) /\ NotLetThrough(c, h)'
  <2>1. /\ Before(disk, h) /\ Before(mem[c], h) /\ Before(snap[c], h)
        /\ NotLetThrough(c, h) /\ Before(NewRun, h)
    BY <1>2, NewBefore DEF HeldBack, NotLetThrough, Reports
  <2>2. CASE SkipStage(c) \/ StartStage(c) \/ Body(c)
    BY <1>2, <2>2, WorksHeldBack
  <2>3. CASE Prepares(c)
    <3>1. Prepared(c)
      BY <2>3, PrepareStep
    <3>2. ~Reports(c)'
      BY <3>1 DEF Prepared, Over, Reports
    <3>3. CASE /\ mem'[c] = Resumed(disk, req[c])
               /\ hist'.jumped = (hist.jumped \/ (req[c].from # 0 /\ ~Restores(disk, req[c].reset)))
      <4>1. req[c].from = 0 \/ Restores(disk, req[c].reset)
        BY <1>2, <3>3 DEF Unsteered
      <4>2. disk \in RunState /\ req[c] \in Request
            /\ (req[c].reset # 0 => Lane[req[c].reset].impl)
        BY DEF TypeOK, ResetsImpl
      <4>3. QED
        BY <2>1, <3>2, <3>3, <4>1, <4>2, ResumedBefore DEF NotLetThrough
    <3>4. CASE \/ SamePosition(NewRun, mem'[c]) \/ SamePosition(mem[c], mem'[c])
               \/ SamePosition(disk, mem'[c])
      BY <2>1, <3>2, <3>4, PositionBefore DEF SamePosition, NotLetThrough
    <3>5. QED
      BY <3>1, <3>3, <3>4 DEF Prepared
  <2>4. CASE \/ ConsumeDecision(c) \/ TopCancelled(c) \/ TopExhausted(c)
             \/ FinishStep(c) \/ AfterCancelled(c) \/ AfterExhausted(c)
             \/ AfterPause(c) \/ AfterTerminal(c) \/ AfterEscalation(c)
    <3>1. /\ Saves(c) /\ mem'[c].rounds = mem[c].rounds
          /\ mem'[c].at \in {mem[c].at, Escalate(Lane)}
          /\ pc'[c] = "stepSave" => /\ pc[c] = "finishing" /\ res'[c] = res[c]
                                    /\ mem'[c].at = mem[c].at
      BY <2>4, SaveStep DEF Stays
    <3>2. Reports(c)' => pc'[c] = "stepSave"
      BY <3>1 DEF Saves, Reports
    <3>3. Before(mem'[c], h)
      BY <2>1, <3>1, PositionBefore
    <3>4. QED
      BY <2>1, <3>1, <3>2, <3>3 DEF NotLetThrough, Reports
  <2>5. CASE ApplyTransition(c)
    <3> DEFINE target == Transition(Lane, mem[c].at, res[c].verdict)
    <3>1. /\ Saves(c) /\ mem[c].at \in 1..Len(Lane) /\ ~res[c].pause
          /\ pc[c] = "after" /\ pc'[c] # "stepSave"
          /\ \/ mem'[c].at \in {mem[c].at, Escalate(Lane)}
             \/ mem'[c].at = target /\ target \in 1..Len(Lane)
          /\ mem'[c].rounds # mem[c].rounds =>
               /\ target \in 1..Len(Lane)
               /\ res[c].verdict # "PASS" /\ Lane[mem[c].at].onFail = "fix-round"
      BY <2>5, TransitionIs
    <3>2. mem[c].at \in 1..h
      BY <2>1, <3>1, LaneFacts DEF Before, Escalate
    <3>3. mem[c].at = h => res[c].verdict # "PASS"
      BY <2>1, <3>1 DEF NotLetThrough, Reports
    <3>4. /\ target \in 1..Len(Lane) => target \in 1..h
          /\ res[c].verdict # "PASS" /\ Lane[mem[c].at].onFail = "fix-round"
               => target \notin 1..Len(Lane)
      BY <3>2, <3>3, TransitionBefore
    <3>5. Before(mem'[c], h)
      BY <2>1, <3>1, <3>4 DEF Before
    <3>6. ~Reports(c)'
      BY <3>1 DEF Saves, Reports
    <3>7. QED
      BY <3>5, <3>6 DEF NotLetThrough
  <2>6. CASE BeginSaved(c) \/ DecisionSaved(c) \/ StepSaved(c) \/ NextSaved(c)
    <3>1. Renames(c)
      BY <2>6, RenameStep
    <3>2. QED
      BY <2>1, <3>1 DEF Renames, NotLetThrough, Reports
  <2>7. CASE ExecuteEnds(c)
    <3>1. Ends(c)
      BY <2>7, EndStep
    <3>2. QED
      BY <2>1, <3>1 DEF Ends, Over, NotLetThrough, Reports
  <2>8. QED
    BY <2>2, <2>3, <2>4, <2>5, <2>6, <2>7 DEF Continue, Prepares
<1>3. QED
  BY <1>1, <1>2, HeldBackStep

LEMMA HeldBackStill ==
  ASSUME NEW h, HeldBack(h), Unsteered' => Unsteered,
         disk'.at = disk.at, disk'.rounds = disk.rounds, snap' = snap, res' = res,
         \A d \in Callers : mem'[d].at = mem[d].at /\ mem'[d].rounds = mem[d].rounds,
         \A d \in Callers : Reports(d)' => Reports(d)
  PROVE  HeldBack(h)'
  BY DEF HeldBack, Before, Reports

LEMMA HeldBackAlways ==
  ASSUME NEW CONSTANT h, Steers(h)
  PROVE  Spec => [](ResetsImpl /\ HeldBack(h))
<1>1. Init => ResetsImpl /\ HeldBack(h)
  BY NewBefore DEF Init, ResetsImpl, HeldBack, NoRequest
<1>2. TypeOK /\ ResetsImpl /\ HeldBack(h) /\ [Next]_vars
        => (ResetsImpl /\ HeldBack(h))'
  <2> SUFFICES ASSUME TypeOK, ResetsImpl, HeldBack(h), [Next]_vars
               PROVE  ResetsImpl' /\ HeldBack(h)'
    OBVIOUS
  <2>1. CASE UNCHANGED vars
    BY <2>1, HeldBackStill DEF vars, ResetsImpl, Unsteered, Reports
  <2>2. ASSUME NEW c \in Callers, Continue(c) PROVE ResetsImpl' /\ HeldBack(h)'
    <3>1. OwnStep(c)
      BY <2>2, ContinueOwn
    <3>2. ResetsImpl'
      BY <3>1 DEF ResetsImpl, OwnStep, Others
    <3>3. QED
      BY <2>2, <3>2, HeldBackContinue
  <2>3. ASSUME NEW c \in Callers, Command(c) PROVE ResetsImpl' /\ HeldBack(h)'
    <3>1. ResetsImpl'
      BY <2>3, CommandIs DEF ResetsImpl
    <3>2. HeldBack(h)'
      BY <2>3, CommandIs, HeldBackStill DEF Unsteered, SamePosition
    <3>3. QED
      BY <3>1, <3>2
  <2>4. ASSUME NEW p \in Procs, Crash(p) PROVE ResetsImpl' /\ HeldBack(h)'
    <3>1. /\ \A d \in Callers :
               \/ /\ pc'[d] = "idle" /\ mem'[d] = NewRun /\ snap'[d] = NewRun
                  /\ req'[d] = NoRequest
               \/ /\ pc'[d] = pc[d] /\ mem'[d] = mem[d] /\ snap'[d] = snap[d]
                  /\ res'[d] = res[d] /\ req'[d] = req[d]
          /\ disk' = disk /\ hist' = hist
      BY <2>4 DEF Crash
    <3>2. ResetsImpl'
      BY <3>1 DEF ResetsImpl, NoRequest
    <3>3. HeldBack(h)'
      BY <3>1, NewBefore DEF HeldBack, Unsteered
    <3>4. QED
      BY <3>2, <3>3
  <2>5. ASSUME NEW p \in Procs, SessionStart(p) PROVE ResetsImpl' /\ HeldBack(h)'
    <3>1. /\ UNCHANGED <<mem, snap, pc, req, res>>
          /\ disk'.at = disk.at /\ disk'.rounds = disk.rounds
          /\ hist'.approvals = hist.approvals /\ hist'.jumped = hist.jumped
      BY <2>5 DEF SessionStart, TypeOK, RunState, History
    <3>2. QED
      BY <3>1, HeldBackStill DEF ResetsImpl, Unsteered, Reports
  <2>6. CASE (\E body \in late : LatePublish(body)) \/ HandEdit
    <3>1. /\ UNCHANGED <<disk, mem, snap, pc, req, res>>
          /\ hist'.approvals = hist.approvals /\ hist'.jumped = hist.jumped
      BY <2>6 DEF LatePublish, HandEdit, Push, TypeOK, History
    <3>2. QED
      BY <3>1, HeldBackStill DEF ResetsImpl, Unsteered, Reports
  <2>7. QED
    BY <2>1, <2>2, <2>3, <2>4, <2>5, <2>6 DEF Next
<1>3. QED
  BY <1>1, <1>2, TypeCorrect, PTL DEF Spec

(* A lane that asks the operator before its first implement stage starts    *)
(* none until it has been let through or moved by hand, whatever calls,     *)
(* crashes and sessions come between.                                       *)
THEOREM SteerComesFirst ==
  ASSUME NEW CONSTANT h, Steers(h)
  PROVE  Spec => []ImplementNeedsSteer
<1>1. TypeOK /\ HeldBack(h) => ImplementNeedsSteer
  <2> SUFFICES ASSUME TypeOK, HeldBack(h), NEW c \in Callers,
                      ~isTerminalStep(Lane, mem[c].at), Lane[mem[c].at].impl,
                      ~(hist.approvals > 0 \/ hist.jumped)
               PROVE  FALSE
    BY DEF ImplementNeedsSteer
  <2>1. Unsteered
    BY DEF Unsteered, TypeOK, History
  <2>2. mem[c].at \in 1..h
    BY <2>1 DEF HeldBack, Before, isTerminalStep
  <2>3. mem[c].at \in 1..Len(Lane) /\ mem[c].at <= h
    BY <2>2, LaneFacts DEF Steers
  <2>4. h < mem[c].at
    BY <2>3 DEF Steers
  <2>5. QED
    BY <2>2, <2>3, <2>4, LaneFacts DEF Steers
<1>2. QED
  BY <1>1, HeldBackAlways, TypeCorrect, PTL

(* No decision of the operator is skipped and none is replayed: an approval *)
(* stands before every implement stage, and what `/factory replan` asked for*)
(* reaches at most one attempt, across retries, pauses and crashes.         *)
THEOREM DecisionsAreHonoured ==
  ASSUME Serial, NEW CONSTANT h, Steers(h)
  PROVE  Spec => []DecisionsHonoured
<1>1. TypeOK /\ Controlled => DecisionAtMostOnce
  <2> SUFFICES ASSUME TypeOK, Controlled PROVE hist.delivered <= hist.given
    BY DEF DecisionAtMostOnce
  <2>1. Owed(0) /\ hist.delivered \in Nat /\ hist.given \in Nat
    BY DEF Controlled, Counted, TypeOK, History
  <2>2. QED
    BY <2>1 DEF Owed
<1>2. ImplementNeedsSteer /\ DecisionAtMostOnce => DecisionsHonoured
  BY DEF DecisionsHonoured
<1>3. QED
  BY <1>1, <1>2, SteerComesFirst, ControlledAlways, TypeCorrect, PTL

-----------------------------------------------------------------------------
(* Why the fix-round counters stop a run before the iteration backstop does.*)
(* In a lane with one implement stage every way back leads to it, costs one *)
(* of its rounds and at most a fix cycle of iterations.  This needs no order*)
(* of the calls either.                                                     *)
OneImplement(m) ==
  m \in 1..Len(Lane) /\ \A i \in 1..Len(Lane) : Lane[i].impl => i = m

Cycle  == fixCycleLength(Lane)
Budget == computeIterationBudget(Lane, FixRounds)
Credit(r) == IF r <= FixRounds THEN r ELSE FixRounds

(* The iterations spent are those of the stages passed and of the rounds    *)
(* charged.                                                                 *)
Paced(s, m) ==
  /\ s.maxIter >= Budget
  /\ s.maxIter = Budget =>
       /\ s.at # Escalate(Lane) =>
            s.iteration + 1 <= s.at + Credit(s.rounds[m]) * Cycle
       /\ s.cause # "backstop"

AllPaced(m) ==
  ~hist.jumped => /\ Paced(disk, m)
                  /\ \A c \in Callers : Paced(mem[c], m) /\ Paced(snap[c], m)

LEMMA TimesGrows ==
  ASSUME NEW a \in Nat, NEW b \in Nat, NEW n \in Nat, a <= b
  PROVE  a * n <= b * n /\ (a + 1 <= b => a * n + n <= b * n)
<1>1. a * n \in Nat /\ (b - a) \in Nat /\ (b - a) * n \in Nat
  OBVIOUS
<1>2. b * n = a * n + (b - a) * n
  OBVIOUS
<1>3. a + 1 <= b => (b - a) * n = n + (b - a - 1) * n /\ (b - a - 1) * n \in Nat
  OBVIOUS
<1>4. QED
  BY <1>1, <1>2, <1>3

LEMMA CycleFacts ==
  /\ Cycle \in Nat /\ Budget \in Nat
  /\ Budget = Len(Lane) + FixRounds * Cycle + 2 /\ FixRounds \in Nat
  /\ resetRoundIterationGrant(Lane) \in Nat
  /\ resetRoundIterationGrant(Lane) >= 1
<1>1. IsFiniteSet(1..Len(Lane)) /\ FixCycle(Lane) \in SUBSET (1..Len(Lane))
  BY LaneFacts, FS_Interval DEF FixCycle
<1>2. Cycle \in Nat
  BY <1>1, FS_Subset, FS_CardinalityType DEF Cycle, fixCycleLength
<1>3. resetRoundIterationGrant(Lane) >= 1
  BY <1>2, LaneFacts DEF resetRoundIterationGrant, cleanPassSteps, Cycle
<1>4. Budget = Len(Lane) + FixRounds * Cycle + 2 /\ FixRounds \in Nat
  BY BoundAssumption
  DEF Budget, computeIterationBudget, cleanPassSteps, ITERATION_SLACK, Cycle
<1>5. QED
  BY <1>2, <1>3, <1>4, BudgetType DEF Budget

(* A way back leads to the implement stage, over at most a fix cycle.       *)
LEMMA WayBack ==
  ASSUME NEW m, OneImplement(m), NEW i \in 1..Len(Lane),
         Lane[i].onFail = "fix-round", OnNotPass(Lane, i) \in 1..Len(Lane)
  PROVE  OnNotPass(Lane, i) = m /\ i + 1 <= m + Cycle
<1> DEFINE j == OnNotPass(Lane, i)
<1>0. Len(Lane) \in Nat /\ m \in 1..Len(Lane) /\ Escalate(Lane) \notin 1..Len(Lane)
  BY LaneFacts DEF OneImplement, Escalate
<1>1. j = m /\ m <= i
  <2>1. CASE Lane[i].impl
    <3>1. j = i /\ i = m
      BY <2>1 DEF OnNotPass, OneImplement
    <3>2. QED
      BY <3>1, <1>0
  <2>2. CASE ~Lane[i].impl
    <3>1. j = mostRecentImplementStage(Lane, i)
      BY <2>2 DEF OnNotPass
    <3>2. \E k \in 1..(i - 1) : IsMostRecentImplement(Lane, i, k)
      BY <1>0, <3>1 DEF mostRecentImplementStage
    <3>3. j \in 1..(i - 1) /\ Lane[j].impl
      BY <3>1, <3>2 DEF mostRecentImplementStage, IsMostRecentImplement
    <3>4. QED
      BY <1>0, <3>3 DEF OneImplement
  <2>3. QED
    BY <2>1, <2>2
<1>2. i \in BackSources(Lane)
  BY <1>0, <1>1 DEF BackSources
<1>3. m..i \subseteq FixCycle(Lane)
  <2> SUFFICES ASSUME NEW k \in m..i PROVE k \in FixCycle(Lane)
    OBVIOUS
  <2>1. k \in 1..Len(Lane) /\ m <= k /\ k <= i
    BY <1>0
  <2>2. QED
    BY <1>1, <1>2, <2>1 DEF FixCycle
<1>4. IsFiniteSet(FixCycle(Lane))
  <2>1. FixCycle(Lane) \in SUBSET (1..Len(Lane)) /\ IsFiniteSet(1..Len(Lane))
    BY LaneFacts, FS_Interval DEF FixCycle
  <2>2. QED
    BY <2>1, FS_Subset
<1>5. Cardinality(m..i) <= Cycle
  BY <1>3, <1>4, FS_Subset DEF Cycle, fixCycleLength
<1>6. Cardinality(m..i) = i - m + 1
  BY <1>0, <1>1, FS_Interval
<1>7. QED
  BY <1>0, <1>1, <1>5, <1>6, CycleFacts

LEMMA PacedType ==
  ASSUME NEW s \in RunState, NEW m \in 1..Len(Lane)
  PROVE  /\ s.iteration \in Nat /\ s.maxIter \in Nat /\ s.at \in Nat
         /\ s.rounds[m] \in Nat /\ Credit(s.rounds[m]) \in 0..FixRounds
         /\ Credit(s.rounds[m]) * Cycle \in Nat
<1>1. /\ s.iteration \in Nat /\ s.maxIter \in Nat /\ s.at \in Nat
      /\ s.rounds[m] \in Nat
  BY LaneFacts DEF RunState
<1>2. Credit(s.rounds[m]) \in 0..FixRounds
  BY <1>1, CycleFacts DEF Credit
<1>3. QED
  BY <1>1, <1>2, CycleFacts

(* A run that was given no round back has iterations left at every stage.   *)
LEMMA IterationsLeft ==
  ASSUME NEW s \in RunState, NEW m \in 1..Len(Lane), Paced(s, m),
         s.maxIter = Budget, s.at # Escalate(Lane)
  PROVE  ~OutOfIterations(s)
<1> DEFINE spent == Credit(s.rounds[m]) * Cycle
           cap == FixRounds * Cycle
<1>1. s.iteration + 1 <= s.at + spent
  BY DEF Paced
<1>2. s.at <= Len(Lane)
  BY LaneFacts DEF RunState, Escalate
<1>3. spent <= cap
  BY PacedType, CycleFacts, TimesGrows
<1>4. cap \in Nat /\ spent \in Nat /\ s.at \in Nat /\ s.iteration \in Nat
      /\ Len(Lane) \in Nat /\ s.maxIter = Len(Lane) + cap + 2
  BY PacedType, LaneFacts, CycleFacts
<1> HIDE DEF spent, cap
<1>5. s.iteration < s.maxIter
  BY <1>1, <1>2, <1>3, <1>4
<1>6. QED
  BY <1>4, <1>5 DEF OutOfIterations

LEMMA NewPaced ==
  ASSUME NEW m, OneImplement(m)
  PROVE  Paced(NewRun, m)
<1>1. NewRun \in RunState /\ m \in 1..Len(Lane)
  BY NewTypes DEF OneImplement
<1>2. NewRun.maxIter = Budget /\ NewRun.iteration = 0 /\ NewRun.at = 1
      /\ NewRun.cause = "none"
  BY DEF NewRun, Budget
<1>3. QED
  BY <1>1, <1>2, PacedType, CycleFacts DEF Paced

LEMMA PositionPaced ==
  ASSUME NEW s, NEW t, NEW m, Paced(s, m), SamePosition(s, t)
  PROVE  Paced(t, m)
  BY DEF Paced, SamePosition

LEMMA StaysPaced ==
  ASSUME TypeOK, NEW c \in Callers, NEW m \in 1..Len(Lane), Paced(mem[c], m),
         Stays(c)
  PROVE  Paced(mem'[c], m)
<1>1. mem[c] \in RunState
  BY DEF TypeOK
<1>2. mem'[c].maxIter = Budget => mem'[c].cause # "backstop"
  BY <1>1, IterationsLeft DEF Paced, Stays, isTerminalStep
<1>3. QED
  BY <1>2 DEF Paced, Stays

(* A charge counts at the stage it is made at.                              *)
LEMMA ChargeCounts ==
  ASSUME NEW s \in RunState, NEW m \in 1..Len(Lane), NEW i \in 1..Len(Lane)
  PROVE  LET r == ChargeOwn(ChargeTarget(s, m), i).rounds IN
         r[m] \in Nat /\ s.rounds[m] + 1 <= r[m]
<1> DEFINE t == ChargeTarget(s, m)
<1>1. t \in RunState
  BY ChargeType
<1>2. s.rounds \in [1..Len(Lane) -> Nat] /\ t.rounds \in [1..Len(Lane) -> Nat]
  BY <1>1 DEF RunState
<1>3. t.rounds = [s.rounds EXCEPT ![m] = @ + 1]
  BY DEF ChargeTarget, RunState
<1>4. ChargeOwn(t, i).rounds \in {t.rounds, [t.rounds EXCEPT ![i] = @ + 1]}
  BY <1>1 DEF ChargeOwn, RunState
<1>5. s.rounds[m] \in Nat /\ t.rounds[m] = s.rounds[m] + 1
  BY <1>2, <1>3
<1>6. ChargeOwn(t, i).rounds[m] \in {t.rounds[m], t.rounds[m] + 1}
  BY <1>2, <1>4
<1>7. /\ ChargeOwn(t, i).rounds[m] \in Nat
      /\ s.rounds[m] + 1 <= ChargeOwn(t, i).rounds[m]
  <2> DEFINE x == t.rounds[m]
             y == ChargeOwn(t, i).rounds[m]
             z == s.rounds[m]
  <2>1. z \in Nat /\ x = z + 1 /\ y \in {x, x + 1}
    BY <1>5, <1>6
  <2> HIDE DEF x, y, z
  <2>2. y \in Nat /\ z + 1 <= y
    BY <2>1
  <2>3. QED
    BY <2>2 DEF y, z
<1>8. QED
  BY <1>7

LEMMA MovesPaced ==
  ASSUME TypeOK, TypeOK', NEW m, OneImplement(m), NEW c \in Callers,
         Paced(mem[c], m), mem[c].at \in 1..Len(Lane),
         LET target == Transition(Lane, mem[c].at, res[c].verdict)
             charged == /\ res[c].verdict # "PASS"
                        /\ Lane[mem[c].at].onFail = "fix-round"
         IN  Moves(c, target, charged)
  PROVE  Paced(mem'[c], m)
<1> DEFINE s == mem[c]
           u == mem'[c]
           i == s.at
           target == Transition(Lane, i, res[c].verdict)
           charged == res[c].verdict # "PASS" /\ Lane[i].onFail = "fix-round"
<1>1. /\ s \in RunState /\ u \in RunState /\ m \in 1..Len(Lane)
      /\ i \in 1..Len(Lane) /\ Len(Lane) \in Nat
  BY LaneFacts DEF TypeOK, OneImplement
<1>2. /\ target \in 1..Len(Lane) /\ u.at = target /\ u.iteration = s.iteration + 1
      /\ u.maxIter = s.maxIter /\ u.cause = s.cause
  BY DEF Moves
<1>3. /\ s.iteration \in Nat /\ Credit(s.rounds[m]) * Cycle \in Nat
      /\ Credit(u.rounds[m]) * Cycle \in Nat /\ Cycle \in Nat
      /\ s.rounds[m] \in Nat /\ FixRounds \in Nat
  BY <1>1, PacedType, CycleFacts
<1> SUFFICES ASSUME s.maxIter = Budget
             PROVE  u.iteration + 1 <= u.at + Credit(u.rounds[m]) * Cycle
  BY <1>2 DEF Paced
<1>4. s.iteration + 1 <= i + Credit(s.rounds[m]) * Cycle
  BY <1>1, LaneFacts DEF Paced, Escalate
<1>5. CASE ~charged
  <2>1. target = i + 1
    <3>1. Escalate(Lane) \notin 1..Len(Lane) /\ Halt \notin 1..Len(Lane)
      BY LaneFacts DEF Escalate, Halt
    <3>2. target = NextStage(Lane, i)
      BY <1>2, <1>5, <3>1 DEF Transition, OnPass, OnNotPass
    <3>3. QED
      BY <1>2, <3>1, <3>2 DEF NextStage
  <2>2. u.rounds = s.rounds
    BY <1>5 DEF Moves
  <2>3. QED
    BY <1>1, <1>2, <1>3, <1>4, <2>1, <2>2
<1>6. CASE charged
  <2>1. target = OnNotPass(Lane, i)
    BY <1>6 DEF Transition
  <2>2. target = m /\ i + 1 <= m + Cycle
    BY <1>1, <1>2, <1>6, <2>1, WayBack
  <2>3. /\ s.rounds[m] < FixRounds
        /\ u.rounds = ChargeOwn(ChargeTarget(s, m), i).rounds
    BY <1>6, <2>2 DEF Moves, RoundsLeft
  <2>4. u.rounds[m] \in Nat /\ s.rounds[m] + 1 <= u.rounds[m]
    BY <1>1, <2>3, ChargeCounts
  <2>5. /\ Credit(s.rounds[m]) \in Nat /\ Credit(u.rounds[m]) \in Nat
        /\ Credit(s.rounds[m]) + 1 <= Credit(u.rounds[m])
    BY <1>3, <2>3, <2>4 DEF Credit
  <2> HIDE DEF s, u, target, charged
  <2>6. Credit(s.rounds[m]) * Cycle + Cycle <= Credit(u.rounds[m]) * Cycle
    <3> DEFINE a == Credit(s.rounds[m])
               b == Credit(u.rounds[m])
    <3>1. a \in Nat /\ b \in Nat /\ a + 1 <= b /\ a <= b /\ Cycle \in Nat
      BY <1>3, <2>5
    <3> HIDE DEF a, b
    <3>2. a * Cycle + Cycle <= b * Cycle
      BY <3>1, TimesGrows
    <3>3. QED
      BY <3>2 DEF a, b
  <2>7. QED
    BY <1>1, <1>2, <1>3, <1>4, <2>2, <2>6
<1>7. QED
  BY <1>5, <1>6

(* A resume that moves nothing, or gives a round back, keeps the pace.      *)
LEMMA ResumedPaced ==
  ASSUME NEW s \in RunState, NEW r \in Request, NEW m, OneImplement(m), Paced(s, m),
         r.from = 0 \/ Restores(s, r.reset)
  PROVE  Paced(Resumed(s, r), m)
<1>1. CASE Restores(s, r.reset)
  <2> DEFINE moved == IF r.from = 0 THEN s
                      ELSE [s EXCEPT !.at = r.from, !.cause = "none"]
             back == [moved EXCEPT !.rounds[r.reset] = @ - 1,
                                   !.maxIter = @ + resetRoundIterationGrant(Lane)]
  <2>1. moved \in [DOMAIN NewRun -> UNION {{moved[x]} : x \in DOMAIN NewRun}]
        /\ moved.rounds = s.rounds /\ moved.maxIter = s.maxIter
    BY DEF RunState, NewRun
  <2>2. back.maxIter = s.maxIter + resetRoundIterationGrant(Lane)
    BY <2>1 DEF NewRun
  <2>3. Resumed(s, r) = [back EXCEPT !.decision = r.decision, !.status = "paused"]
    BY <1>1, <2>1 DEF Resumed, ResetRound, Restores
  <2>4. Resumed(s, r).maxIter = back.maxIter
    BY <2>1, <2>3 DEF NewRun
  <2>5. s.maxIter \in Nat /\ s.maxIter >= Budget
    BY DEF RunState, Paced
  <2>6. QED
    BY <2>2, <2>4, <2>5, CycleFacts DEF Paced
<1>2. CASE ~Restores(s, r.reset)
  <2>1. Resumed(s, r) = [s EXCEPT !.decision = r.decision, !.status = "paused"]
    BY <1>2 DEF Resumed, ResetRound
  <2>2. SamePosition(s, Resumed(s, r))
    BY <2>1 DEF SamePosition, RunState
  <2>3. QED
    BY <2>2, PositionPaced
<1>3. QED
  BY <1>1, <1>2

LEMMA PacedStep ==
  ASSUME NEW m, OneImplement(m), AllPaced(m), NEW c \in Callers, OwnStep(c),
         hist.jumped => hist'.jumped,
         ~hist'.jumped => Paced(mem'[c], m)
  PROVE  AllPaced(m)'
<1> SUFFICES ASSUME ~hist'.jumped
             PROVE  /\ Paced(disk', m)
                    /\ \A d \in Callers : Paced(mem'[d], m) /\ Paced(snap'[d], m)
  BY DEF AllPaced, Paced, Budget, Cycle, Credit
<1>1. /\ Paced(disk, m)
      /\ \A d \in Callers : Paced(mem[d], m) /\ Paced(snap[d], m)
  BY DEF AllPaced
<1>2. /\ disk' \in {disk, snap[c]} /\ snap'[c] \in {snap[c], NewRun, mem'[c]}
      /\ Others(c)
  BY DEF OwnStep
<1>3. Paced(disk', m) /\ Paced(snap'[c], m)
  BY <1>1, <1>2, NewPaced
<1>4. \A d \in Callers \ {c} : Paced(mem'[d], m) /\ Paced(snap'[d], m)
  BY <1>1, <1>2 DEF Others
<1>5. QED
  BY <1>3, <1>4

LEMMA PacedContinue ==
  ASSUME TypeOK, TypeOK', NEW m, OneImplement(m), AllPaced(m), NEW c \in Callers,
         Continue(c)
  PROVE  AllPaced(m)'
<1>1. OwnStep(c) /\ (hist.jumped => hist'.jumped)
  BY ContinueOwn, HistoryGrows DEF Grown
<1>2. ASSUME ~hist'.jumped PROVE Paced(mem'[c], m)
  <2>1. /\ Paced(disk, m) /\ Paced(mem[c], m) /\ Paced(NewRun, m)
        /\ m \in 1..Len(Lane) /\ ~hist.jumped
    BY <1>1, <1>2, NewPaced DEF AllPaced, OneImplement
  <2>2. CASE SkipStage(c) \/ StartStage(c) \/ Body(c)
    BY <2>1, <2>2, WorkStep, PositionPaced DEF Works
  <2>3. CASE Prepares(c)
    <3>1. Prepared(c)
      BY <2>3, PrepareStep
    <3>2. CASE /\ mem'[c] = Resumed(disk, req[c])
               /\ hist'.jumped = (hist.jumped \/ (req[c].from # 0 /\ ~Restores(disk, req[c].reset)))
      <4>1. req[c].from = 0 \/ Restores(disk, req[c].reset)
        BY <1>2, <3>2
      <4>2. disk \in RunState /\ req[c] \in Request
        BY DEF TypeOK
      <4>3. QED
        BY <2>1, <3>2, <4>1, <4>2, ResumedPaced
    <3>3. CASE \/ SamePosition(NewRun, mem'[c]) \/ SamePosition(mem[c], mem'[c])
               \/ SamePosition(disk, mem'[c])
      BY <2>1, <3>3, PositionPaced
    <3>4. QED
      BY <3>1, <3>2, <3>3 DEF Prepared
  <2>4. CASE \/ ConsumeDecision(c) \/ TopCancelled(c) \/ TopExhausted(c)
             \/ FinishStep(c) \/ AfterCancelled(c) \/ AfterExhausted(c)
             \/ AfterPause(c) \/ AfterTerminal(c) \/ AfterEscalation(c)
    BY <2>1, <2>4, SaveStep, StaysPaced
  <2>5. CASE ApplyTransition(c)
    <3> DEFINE target == Transition(Lane, mem[c].at, res[c].verdict)
               charged == /\ res[c].verdict # "PASS"
                          /\ Lane[mem[c].at].onFail = "fix-round"
    <3>1. /\ mem[c].at \in 1..Len(Lane)
          /\ \/ SamePosition(mem[c], mem'[c])
             \/ /\ mem'[c].at = Escalate(Lane) /\ mem'[c].cause # "backstop"
                /\ mem'[c].iteration = mem[c].iteration
                /\ mem'[c].maxIter = mem[c].maxIter
             \/ Moves(c, target, charged)
      BY <2>5, TransitionIs
    <3>2. CASE Moves(c, target, charged)
      BY <2>1, <3>1, <3>2, MovesPaced
    <3>3. QED
      BY <2>1, <3>1, <3>2, PositionPaced DEF Paced
  <2>6. CASE BeginSaved(c) \/ DecisionSaved(c) \/ StepSaved(c) \/ NextSaved(c)
    BY <2>1, <2>6, RenameStep DEF Renames
  <2>7. CASE ExecuteEnds(c)
    BY <2>1, <2>7, EndStep DEF Ends, Over
  <2>8. QED
    BY <2>2, <2>3, <2>4, <2>5, <2>6, <2>7 DEF Continue, Prepares
<1>3. QED
  BY <1>1, <1>2, PacedStep

LEMMA PacedStill ==
  ASSUME NEW m, AllPaced(m), hist.jumped => hist'.jumped,
         SamePosition(disk, disk'), snap' = snap,
         \A d \in Callers : SamePosition(mem[d], mem'[d])
  PROVE  AllPaced(m)'
  BY PositionPaced DEF AllPaced, Paced, Budget, Cycle, Credit

LEMMA PacedAlways ==
  ASSUME NEW CONSTANT m, OneImplement(m)
  PROVE  Spec => []AllPaced(m)
<1>1. Init => AllPaced(m)
  BY NewPaced DEF Init, AllPaced
<1>2. TypeOK /\ TypeOK' /\ AllPaced(m) /\ [Next]_vars => AllPaced(m)'
  <2> SUFFICES ASSUME TypeOK, TypeOK', AllPaced(m), [Next]_vars
               PROVE  AllPaced(m)'
    OBVIOUS
  <2>0. \A s : SamePosition(s, s)
    BY DEF SamePosition
  <2>1. CASE UNCHANGED vars
    BY <2>0, <2>1, PacedStill DEF vars
  <2>2. ASSUME NEW c \in Callers, Continue(c) PROVE AllPaced(m)'
    BY <2>2, PacedContinue
  <2>3. ASSUME NEW c \in Callers, Command(c) PROVE AllPaced(m)'
    BY <2>0, <2>3, CommandIs, PacedStill
  <2>4. ASSUME NEW p \in Procs, Crash(p) PROVE AllPaced(m)'
    <3>1. /\ \A d \in Callers : mem'[d] \in {NewRun, mem[d]} /\ snap'[d] \in {NewRun, snap[d]}
          /\ disk' = disk /\ hist' = hist
      BY <2>4 DEF Crash
    <3>2. QED
      BY <3>1, NewPaced DEF AllPaced, Paced, Budget, Cycle, Credit
  <2>5. ASSUME NEW p \in Procs, SessionStart(p) PROVE AllPaced(m)'
    <3>1. /\ UNCHANGED <<mem, snap>> /\ hist'.jumped = hist.jumped
          /\ SamePosition(disk, disk')
      BY <2>5 DEF SessionStart, TypeOK, RunState, History, SamePosition
    <3>2. QED
      BY <2>0, <3>1, PacedStill
  <2>6. CASE (\E body \in late : LatePublish(body)) \/ HandEdit
    <3>1. UNCHANGED <<disk, mem, snap>> /\ hist'.jumped = hist.jumped
      BY <2>6 DEF LatePublish, HandEdit, Push, TypeOK, History
    <3>2. QED
      BY <2>0, <3>1, PacedStill
  <2>7. QED
    BY <2>1, <2>2, <2>3, <2>4, <2>5, <2>6 DEF Next
<1>3. QED
  BY <1>1, <1>2, TypeCorrect, PTL DEF Spec

(* A lane with one implement stage, as each of src/assets/lanes.yaml is: a  *)
(* run that nobody moved and that was given no round back never meets the   *)
(* iteration backstop, for any number of fix rounds, however its stages     *)
(* fail, and however often it is resumed, crashes or is cancelled.          *)
THEOREM BackstopIsLast ==
  ASSUME NEW CONSTANT m, OneImplement(m)
  PROVE  Spec => []BackstopNeverFirst
<1>1. AllPaced(m) => BackstopNeverFirst
  BY DEF AllPaced, Paced, BackstopNeverFirst, Budget
<1>2. QED
  BY <1>1, PacedAlways, PTL
=============================================================================
