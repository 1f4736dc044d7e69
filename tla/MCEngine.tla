------------------------------- MODULE MCEngine -------------------------------
(***************************************************************************)
(* Instances of Engine for TLC: lanes cut down from src/assets/lanes.yaml   *)
(* to the stages the properties tell apart, one Pi process, and one or two  *)
(* callers.                                                                 *)
(***************************************************************************)
EXTENDS Engine, TLC

CONSTANTS c1, c2, p1

Plain == [kind |-> "host", impl |-> FALSE, onFail |-> "escalate",
          maxRounds |-> 0, safetyGating |-> FALSE, verify |-> FALSE,
          optional |-> FALSE, publish |-> FALSE]

steer     == [Plain EXCEPT !.kind = "human"]
implement == [Plain EXCEPT !.kind = "agent", !.impl = TRUE, !.verify = TRUE,
                           !.onFail = "fix-round"]
test      == [Plain EXCEPT !.onFail = "fix-round"]
security  == [Plain EXCEPT !.kind = "agent", !.optional = TRUE,
                           !.maxRounds = 1, !.onFail = "fix-round"]
judge     == [Plain EXCEPT !.kind = "agent", !.safetyGating = TRUE,
                           !.onFail = "fix-round"]
publish   == [Plain EXCEPT !.publish = TRUE]

(* A build lane at its shortest, with its human stage and without.          *)
BuildLane == <<steer, implement, judge, publish>>
WorkLane  == <<implement, security, judge, publish>>

(* The chore lane as it stands in src/assets/lanes.yaml.                    *)
scopeCheck == [Plain EXCEPT !.onFail = "continue"]
plan       == [Plain EXCEPT !.kind = "agent"]
review     == [Plain EXCEPT !.kind = "agent", !.maxRounds = 1,
                            !.onFail = "fix-round"]
ChoreLane  == <<scopeCheck, plan, steer, implement, test, review, security,
                judge, publish>>

OneCaller   == {c1}
TwoCallers  == {c1, c2}
OneProc     == {p1}
AllAtHome   == [c \in TwoCallers |-> p1]
OneAtHome   == [c \in OneCaller |-> p1]

Perms == Permutations(TwoCallers)

(* implement, in ChoreLane, BuildLane and WorkLane.                         *)
FromImplement  == {4}
FromImplement2 == {2}
FromImplement1 == {1}

NoCosts == {0}
UnitCosts == {0, 1}

RunResume   == {"run", "resume"}
RunRevise   == {"run", "revise"}
RunCancel   == {"run", "cancel"}
SteerCommands == {"run", "resume", "approve", "replan", "revise",
                  "cancel"}
=============================================================================
