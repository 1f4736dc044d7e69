----------------------------- MODULE LaneCompile -----------------------------
(***************************************************************************)
(* How a lane (a YAML list of stages) becomes the workflow the engine runs: *)
(* src/lanes/compile.ts and the iteration budget of src/engine/budget.ts.   *)
(*                                                                          *)
(* A lane is a sequence of stage records.  A stage is named by its index,   *)
(* 1..Len(lane); the terminal stage that compileLane appends is Escalate    *)
(* and the pseudo-target "halt" is Halt, so that a workflow's steps are     *)
(* 1..Len(lane) \cup {Escalate(lane)}.                                      *)
(***************************************************************************)
EXTENDS Naturals, Sequences, FiniteSets

StageKinds == {"agent", "host", "human"}
OnFails    == {"fix-round", "continue", "escalate"}

(* The part of a stage definition that the compiler and the engine read.    *)
(* impl: the name is in IMPLEMENT_CLASS_STAGES; maxRounds = 0 stands for an *)
(* absent bound; optional: the stage has a `when` expression; publish: the  *)
(* stage's host action is publish; any agent stage may ask for a commit.    *)
Stage == [kind : StageKinds, impl : BOOLEAN, onFail : OnFails,
          maxRounds : Nat, safetyGating : BOOLEAN, verify : BOOLEAN,
          optional : BOOLEAN, publish : BOOLEAN]

Halt == 0
Escalate(lane) == Len(lane) + 1
Steps(lane)    == 1..(Len(lane) + 1)
isTerminalStep(lane, i) == i = Escalate(lane)

(* The stage that follows i in YAML order, "halt" after the last one.       *)
NextStage(lane, i) == IF i < Len(lane) THEN i + 1 ELSE Halt

(* j is the implement-class stage that mostRecentImplementStage finds when  *)
(* it walks back from the stage before i.                                   *)
IsMostRecentImplement(lane, i, j) ==
  /\ j \in 1..(i - 1)
  /\ lane[j].impl
  /\ \A k \in (j + 1)..(i - 1) : ~lane[k].impl

mostRecentImplementStage(lane, i) ==
  IF \E j \in 1..(i - 1) : IsMostRecentImplement(lane, i, j)
    THEN CHOOSE j \in 1..(i - 1) : IsMostRecentImplement(lane, i, j)
    ELSE Escalate(lane)

(* generateTransitions: the target of a stage on PASS and on any other      *)
(* verdict.  An implement-class stage retries itself; a later fix-round     *)
(* stage goes back to the most recent implement-class stage.                *)
OnPass(lane, i) == NextStage(lane, i)

OnNotPass(lane, i) ==
  CASE lane[i].onFail = "fix-round" /\ lane[i].impl  -> i
    [] lane[i].onFail = "fix-round" /\ ~lane[i].impl -> mostRecentImplementStage(lane, i)
    [] lane[i].onFail = "continue"                   -> NextStage(lane, i)
    [] OTHER                                         -> Escalate(lane)

Transition(lane, i, verdict) ==
  IF verdict = "PASS" THEN OnPass(lane, i) ELSE OnNotPass(lane, i)

-----------------------------------------------------------------------------
(* src/engine/budget.ts *)

ITERATION_SLACK == 2

cleanPassSteps(lane) == Len(lane)

(* The fix-round stages whose failing transition goes backward or stays.    *)
BackSources(lane) ==
  {i \in 1..Len(lane) : /\ lane[i].onFail = "fix-round"
                        /\ OnNotPass(lane, i) \in 1..i}

(* The number of stages from the earliest back-edge target to the latest    *)
(* back-edge source.                                                        *)
FixCycle(lane) ==
  {k \in 1..Len(lane) : \E first, last \in BackSources(lane) :
                          OnNotPass(lane, first) <= k /\ k <= last}

fixCycleLength(lane) == Cardinality(FixCycle(lane))

(* Defect: the fix rounds do not multiply the cycle.                        *)
OneCycleBudget(lane, fixRounds) ==
  cleanPassSteps(lane) + fixCycleLength(lane) + ITERATION_SLACK

computeIterationBudget(lane, fixRounds) ==
  cleanPassSteps(lane) + fixRounds * fixCycleLength(lane) + ITERATION_SLACK

resetRoundIterationGrant(lane) ==
  LET longer == IF cleanPassSteps(lane) >= fixCycleLength(lane)
                  THEN cleanPassSteps(lane) ELSE fixCycleLength(lane)
  IN  IF longer >= 1 THEN longer ELSE 1
=============================================================================
