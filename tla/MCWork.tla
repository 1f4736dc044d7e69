---------------------------------- MODULE MCWork ----------------------------------
(***************************************************************************)
(* What the stages of a build run lean on, each on its own: the gates around*)
(* implement and test, the siblings of a split or repeated task, and the    *)
(* slots of a fused stage.                                                  *)
(***************************************************************************)
EXTENDS Naturals, Sequences, FiniteSets, TLC

CONSTANTS
  Files, Roots, Tests, Infra, Docs, Absent, Optional, Criteria, TestIds, MaxChanged, MaxRounds, MaxEdited, MaxLate,  \* Gates
  Plans, PlanModes, TaskFiles, Candidates,                                                       \* Siblings
  Requests, SlotNames, Texts(_), SlotVotes(_)                                                    \* Fusion

ASSUME FilesAssumption == IsFiniteSet(Files) /\ MaxChanged \in Nat

VARIABLES
  which,  \* the component that runs
  base, head, work, manifest, declared, issues, judged, pc, pushed, hist,
  mode, plan, remaining, wave, results, primary, wrote, votes, phase, outcome,
  request, aborted, worker, active, returned, merged

gatesVars == <<base, head, work, manifest, declared, issues, judged, pc, pushed, hist>>
siblingsVars == <<mode, plan, remaining, wave, results, primary, wrote, votes, phase, outcome>>
fusionVars == <<request, aborted, worker, active, returned, merged>>

-----------------------------------------------------------------------------
(* Siblings: two or three tasks with any dependencies, and refused plans.  *)
MCModes == {"sequential", "parallel", "collaborate", "bestOf"}
T(i, d, f) == [id |-> i, dependsOn |-> d, files |-> f]
MCFiles == {"f", "g"}
FileSets == {{"f"}, {"g"}, {"f", "g"}}
\* Two or three tasks with any dependencies, cycles included, and plans that are refused.
MCPlans ==
  {<<T(1, d1, f1), T(2, d2, f2), T(3, d3, f3)>> :
      d1 \in SUBSET {2, 3}, d2 \in SUBSET {1, 3}, d3 \in SUBSET {1, 2}, f1 \in FileSets, f2 \in {{"f"}, {"g"}}, f3 \in {{"f"}, {"g"}}}
  \cup {<<T(1, {}, {"f"}), T(1, {}, {"g"})>>, <<T(1, {4}, {"f"})>>, <<T(1, {}, {"out"})>>}
MCCandidates ==
  [verdict : {"PASS", "FAIL", "NEEDS_MORE"},
   files : {"f" :> c : c \in {"x", "x reformatted", "y"}} \cup {("f" :> "x") @@ ("g" :> "y"), "g" :> "x"}]

-----------------------------------------------------------------------------
(* Fusion: every mode over two slots, debates of up to three rounds, both  *)
(* executors, one worker without fusion, and stacks that miss a slot.      *)
Asked(m, rounds, off, visible, stack, slots) ==
  [mode |-> m, slots |-> slots, all |-> FALSE, rounds |-> rounds, off |-> off, visible |-> visible, stack |-> stack]
AllModes == {"single", "sample", "opinion", "fuse", "debate", "adversarial", "veto", "collaborate"}
AB == <<"A", "B">>
MCRequests ==
  {Asked(m, 0, FALSE, FALSE, AB, AB) : m \in AllModes \ {"debate"}}
  \cup {Asked(m, 0, FALSE, TRUE, AB, AB) : m \in {"veto", "single"}}
  \cup {Asked("debate", 3, FALSE, TRUE, AB, AB), Asked("veto", 0, TRUE, FALSE, AB, AB), Asked("veto", 0, FALSE, FALSE, <<>>, AB)}
  \cup {Asked("sample", 0, FALSE, FALSE, <<"A">>, AB), [Asked("veto", 0, FALSE, FALSE, <<"A">>, <<>>) EXCEPT !.all = TRUE]}

Section(t, c) == [title |-> t, cites |-> c]
Task(id, who, deps) == [id |-> id, assignee |-> who, dependsOn |-> deps, complete |-> TRUE]
MCTexts(m) ==
  CASE m = "debate"      -> {{"x"}, {"x", "y"}}
    [] m = "adversarial" -> {[findings |-> {1}, confirmed |-> {}], [findings |-> {2}, confirmed |-> {1}]}
    [] m = "fuse"        -> {[conflict |-> c, sections |-> {Section("Goal", {"A"}), Section("Approach", {"A"})}] : c \in BOOLEAN}
    [] m = "collaborate" -> {<<>>, <<Task(1, "A", {2}), Task(2, "B", {})>>, <<Task(1, "A", {2}), Task(2, "B", {1})>>}
    [] OTHER             -> {<<>>}
MCVotes(m) == IF m \in {"veto", "sample", "single"} THEN {"PASS", "FAIL"} ELSE {"PASS"}

-----------------------------------------------------------------------------
(* The components.                                                         *)

G == INSTANCE Gates
S == INSTANCE Siblings WITH Files <- TaskFiles, WriteRoots <- TaskFiles, Modes <- PlanModes
F == INSTANCE Fusion WITH Votes <- SlotVotes, results <- returned, outcome <- merged

(* A plan is a list of tasks, on a tree that has files.                     *)
ASSUME PlansAssumption == TaskFiles # {} /\ \A p \in Plans : p \in Seq({p[i] : i \in DOMAIN p})

(* The slots of a stage are named in a list, a verdict is one of three, and *)
(* a plan is a list of tasks.                                               *)
ASSUME RequestsAssumption ==
  /\ IsFiniteSet(SlotNames)
  /\ \A q \in Requests : q.mode \in F!Modes /\ F!resolveSlots(q) \in Seq(SlotNames)
ASSUME VerdictsAssumption == \A m \in F!Modes : SlotVotes(m) \subseteq {"PASS", "FAIL", "NEEDS_MORE"}
ASSUME TextsAssumption == \A t \in Texts("collaborate") : t \in Seq({t[i] : i \in DOMAIN t})

Idle == "idle"
gatesIdle ==
  /\ base = Idle /\ head = Idle /\ work = Idle /\ manifest = Idle /\ declared = Idle /\ issues = Idle
  /\ judged = Idle /\ pc = Idle /\ pushed = Idle /\ hist = Idle
siblingsIdle ==
  /\ mode = Idle /\ plan = Idle /\ remaining = Idle /\ wave = Idle /\ results = Idle /\ primary = Idle
  /\ wrote = Idle /\ votes = Idle /\ phase = Idle /\ outcome = Idle
fusionIdle == request = Idle /\ aborted = Idle /\ worker = Idle /\ active = Idle /\ returned = Idle /\ merged = Idle

(* One of them, alone.                                                      *)
Init ==
  \/ which = "gates" /\ G!Init /\ siblingsIdle /\ fusionIdle
  \/ which = "siblings" /\ S!Init /\ gatesIdle /\ fusionIdle
  \/ which = "fusion" /\ F!Init /\ gatesIdle /\ siblingsIdle

Next ==
  /\ UNCHANGED which
  /\ \/ which = "gates" /\ G!Next /\ UNCHANGED <<siblingsVars, fusionVars>>
     \/ which = "siblings" /\ S!Next /\ UNCHANGED <<gatesVars, fusionVars>>
     \/ which = "fusion" /\ F!Next /\ UNCHANGED <<gatesVars, siblingsVars>>

vars == <<which, gatesVars, siblingsVars, fusionVars>>
(* Fusion's timers, polls and deaths; nothing else has to move.              *)
Fairness ==
  /\ WF_fusionVars(which = "fusion" /\ F!EndRound)
  /\ \A s \in SlotNames :
       /\ WF_fusionVars(which = "fusion" /\ s \in F!Slots /\ F!Executor(s))
       /\ WF_fusionVars(which = "fusion" /\ s \in F!Slots /\ F!Die(s))
Spec == Init /\ [][Next]_vars /\ Fairness

----------------------------------------------------------------------------
(* What is pushed has passed every gate: in scope, checked, its tests known.  *)
PushedPassedGates == which = "gates" => G!PushedPassedGates
(* Siblings are applied for what their tasks or votes entitle them to.       *)
AppliedIsRight == which = "siblings" => S!AppliedIsRight
(* A fused stage passes on what its slots really said.                       *)
PassIsEarned == which = "fusion" => F!PassIsEarned
(* Every fused stage ends, whatever a worker does.                           *)
StageEnds == which = "fusion" ~> which = "fusion" /\ merged.verdict # "none"
=============================================================================
