------------------------------ MODULE Siblings ------------------------------
(***************************************************************************)
(* Work split over sibling worktrees (src/v3/dag-parallel.ts, best-of-n.ts  *)
(* and collaborate-exec.ts).  The tasks of a plan run in waves, each in a   *)
(* sibling cut from the base branch, and the files a task returns replace   *)
(* those of the primary worktree; or two or three siblings do the same      *)
(* task and vote on every file.  What a file holds is the set of tasks      *)
(* whose edits are in it.                                                   *)
(***************************************************************************)
EXTENDS Naturals, Sequences, FiniteSets, SequencesExt

CONSTANTS
  Plans,       \* sequences of [id, dependsOn, files]
  Modes,       \* of "sequential", "parallel", "collaborate", "bestOf"
  Files, WriteRoots,
  Candidates   \* what a sibling may come back with: [verdict, files], a function of the files it has

VARIABLES
  mode, plan,
  remaining,   \* tasks of waves to come
  wave,        \* tasks of this wave that are still to be applied
  results,     \* task of this wave -> where it is, and its files
  primary,     \* file -> tasks
  wrote,       \* task -> number of its wave and the files it returned
  votes,       \* what the siblings of a best-of came back with
  phase, outcome
vars == <<mode, plan, remaining, wave, results, primary, wrote, votes, phase, outcome>>

Ids       == {plan[i].id : i \in DOMAIN plan}
Place(id) == CHOOSE i \in DOMAIN plan : plan[i].id = id
Task(id)  == plan[Place(id)]
Idle      == [at |-> "waiting", files |-> {}]
NoOutcome == [verdict |-> "none", files |-> <<>>, winner |-> 0, method |-> "none"]

(* Nobody of a set without a dependency in it: a cycle.                     *)
assertAcyclic == \A S \in SUBSET Ids : S # {} => \E id \in S : Task(id).dependsOn \cap S = {}

validatePlanDag ==
  /\ Cardinality(Ids) = Len(plan)
  /\ \A t \in ToSet(plan) : t.files \subseteq WriteRoots /\ t.dependsOn \subseteq Ids
  /\ assertAcyclic

ReadyOf(left)  == {id \in left : Task(id).dependsOn \cap left = {}}
FilesOf(ids)   == UNION {Task(id).files : id \in ids}
InPlanFirst(ids) == CHOOSE id \in ids : \A other \in ids : Place(id) <= Place(other)

(* Defect: every ready task joins the wave.                                 *)
EveryReady(left) == ReadyOf(left)

(* The ready tasks, in the plan's order, but for those that share a file    *)
(* with one taken before.                                                   *)
scheduleDag(left) ==
  CHOOSE ids \in SUBSET ReadyOf(left) : \A id \in ReadyOf(left) :
    id \in ids <=> Task(id).files \cap FilesOf({other \in ids : Place(other) < Place(id)}) = {}

NextWave(left) == IF mode = "collaborate" THEN EveryReady(left) ELSE scheduleDag(left)

(* What a task returns: its files as it saw them, and itself.  A sibling    *)
(* sees the base, a patch nothing at all.                                   *)
Seen(f) == IF mode = "sequential" THEN primary[f] ELSE {}

Starts(left) ==
  /\ wave' = NextWave(left) /\ remaining' = left \ wave'
  /\ results' = [id \in wave' |-> Idle]

Fails(verdict) ==
  /\ phase' = "over" /\ outcome' = [NoOutcome EXCEPT !.verdict = verdict]

-----------------------------------------------------------------------------
RunPlan ==
  /\ phase = "start" /\ mode # "bestOf"
  /\ IF validatePlanDag
     THEN Starts(Ids) /\ phase' = "waves" /\ UNCHANGED outcome
     ELSE Fails("invalid") /\ UNCHANGED <<wave, remaining, results>>
  /\ UNCHANGED <<mode, plan, primary, wrote, votes>>

(* In a wave of siblings everybody starts at once; on one tree a task ends  *)
(* and is applied before the next begins.                                   *)
MayStart(id) == mode = "parallel" \/ id = InPlanFirst(wave)

createSiblings(id) ==
  /\ phase = "waves" /\ id \in wave /\ results[id].at = "waiting" /\ MayStart(id)
  /\ results' = [results EXCEPT ![id].at = "running"]
  /\ UNCHANGED <<mode, plan, remaining, wave, primary, wrote, votes, phase, outcome>>

(* The files that come back are not held to those the plan declares.        *)
RunTask(id) ==
  /\ phase = "waves" /\ id \in wave /\ results[id].at = "running"
  /\ \E files \in {Task(id).files, Task(id).files \cup {CHOOSE f \in Files : TRUE}} :
       results' = [results EXCEPT ![id] = [at |-> "ran", files |-> files]]
  /\ UNCHANGED <<mode, plan, remaining, wave, primary, wrote, votes, phase, outcome>>

(* One that throws ends the run: what earlier waves applied stays, and so   *)
(* do the siblings.                                                         *)
TaskThrows(id) ==
  /\ phase = "waves" /\ id \in wave /\ results[id].at \in {"waiting", "running"} /\ MayStart(id)
  /\ Fails("threw") /\ UNCHANGED <<mode, plan, remaining, wave, results, primary, wrote, votes>>

Applies ==
  /\ phase = "waves" /\ wave # {}
  /\ IF mode = "parallel" THEN \A id \in wave : results[id].at = "ran" ELSE results[InPlanFirst(wave)].at = "ran"
  /\ LET id == InPlanFirst(wave)  files == results[id].files IN
     /\ primary' = [f \in Files |-> IF f \in files THEN Seen(f) \cup {id} ELSE primary[f]]
     /\ wave' = wave \ {id}
     /\ wrote' = [wrote EXCEPT ![id] = [wave |-> 1 + Cardinality(Ids \ (remaining \cup DOMAIN results)), files |-> files]]
  /\ UNCHANGED <<mode, plan, remaining, results, votes, phase, outcome>>

WaveEnds ==
  /\ phase = "waves" /\ wave = {}
  /\ IF remaining = {} THEN phase' = "over" /\ outcome' = [NoOutcome EXCEPT !.verdict = "PASS"]
                            /\ UNCHANGED <<wave, remaining, results>>
     ELSE Starts(remaining) /\ UNCHANGED <<phase, outcome>>
  /\ UNCHANGED <<mode, plan, primary, wrote, votes>>

-----------------------------------------------------------------------------
(* runBestOfN.                                                              *)

(* A file that a sibling has not returned counts as an empty one.           *)
Empty == ""
Content(c, f) == IF f \in DOMAIN c.files THEN c.files[f] ELSE Empty
(* The same program, however it is laid out.                                *)
fileFingerprint(content) == IF content = "x reformatted" THEN "x" ELSE content

(* The files' contents by majority of fingerprints, else the first's; the   *)
(* winner is the first sibling with all of them, else the first.            *)
consensus(passed) ==
  LET First(is)   == CHOOSE i \in is : \A j \in is : i <= j
      paths       == UNION {DOMAIN votes[i].files : i \in passed}
      Alike(f, i) == {j \in passed : fileFingerprint(Content(votes[j], f)) = fileFingerprint(Content(votes[i], f))}
      Voted(f)    == {i \in passed : 2 * Cardinality(Alike(f, i)) > Cardinality(passed)}
      files       == [f \in paths |-> Content(votes[First(IF Voted(f) = {} THEN passed ELSE Voted(f))], f)]
      Whole       == {i \in passed : \A f \in paths : Content(votes[i], f) = files[f]}
  IN  [verdict |-> "PASS", files |-> files, winner |-> First(IF Whole = {} THEN passed ELSE Whole),
       method |-> IF \E f \in paths : Voted(f) = {} THEN "fallback-first"
                  ELSE IF \A f \in paths : Voted(f) = passed THEN "ast-equal" ELSE "majority"]

(* Defect: whoever came back has a vote.                                    *)
EverybodyVotes(results2) == DOMAIN results2

Passed(results2) == {i \in DOMAIN results2 : results2[i].verdict = "PASS"}

Votes ==
  /\ phase = "start" /\ mode = "bestOf" /\ Len(votes) < 3
  /\ \E c \in Candidates : votes' = Append(votes, c)
  /\ UNCHANGED <<mode, plan, remaining, wave, results, primary, wrote, phase, outcome>>

runBestOfN ==
  /\ phase = "start" /\ mode = "bestOf" /\ Len(votes) \in {2, 3}
  /\ IF Passed(votes) = {}
     THEN Fails(IF \E i \in DOMAIN votes : votes[i].verdict = "FAIL" THEN "FAIL" ELSE "NEEDS_MORE")
     ELSE phase' = "over" /\ outcome' = consensus(Passed(votes))
  /\ UNCHANGED <<mode, plan, remaining, wave, results, primary, wrote, votes>>

Init ==
  /\ mode \in Modes /\ plan \in (IF mode = "bestOf" THEN {<<>>} ELSE Plans)
  /\ remaining = {} /\ wave = {} /\ results = <<>> /\ primary = [f \in Files |-> {}] /\ votes = <<>>
  /\ wrote = [id \in {plan[i].id : i \in DOMAIN plan} |-> [wave |-> 0, files |-> {}]]
  /\ phase = "start" /\ outcome = NoOutcome

Next ==
  \/ RunPlan \/ Applies \/ WaveEnds \/ Votes \/ runBestOfN
  \/ \E id \in Ids : createSiblings(id) \/ RunTask(id) \/ TaskThrows(id)
Spec == Init /\ [][Next]_vars

-----------------------------------------------------------------------------
Declared(id) == wrote[id].files \subseteq Task(id).files

(* dag-parallel.ts:103: the siblings of one wave do not undo each other's   *)
(* edits: an edit that is gone was overwritten by a task of a later wave,   *)
(* whose sibling was cut from the base, or by files nobody declared.        *)
EditsKept ==
  outcome.verdict = "PASS" /\ mode \in {"sequential", "parallel"} =>
    \A id \in Ids : \A f \in wrote[id].files :
      \/ id \in primary[f]
      \/ mode = "parallel" /\ \E u \in Ids : f \in wrote[u].files /\ (wrote[u].wave > wrote[id].wave \/ ~Declared(u) \/ ~Declared(id))

(* best-of-n.ts:323-339: what is applied is, file by file, what a sibling    *)
(* that passed has returned, and no file is touched that none of them has.  *)
(* A file that some of them have and another has not may be left empty.     *)
Returned(i, f) == votes[i].verdict = "PASS" /\ f \in DOMAIN votes[i].files
AppliedWasPassed ==
  mode = "bestOf" /\ outcome.verdict = "PASS" =>
    \A f \in DOMAIN outcome.files :
      /\ \E i \in DOMAIN votes : Returned(i, f)
      /\ \/ \E i \in DOMAIN votes : Returned(i, f) /\ votes[i].files[f] = outcome.files[f]
         \/ /\ outcome.files[f] = Empty
            /\ \E i \in DOMAIN votes : votes[i].verdict = "PASS" /\ f \notin DOMAIN votes[i].files

(* What ends up in the primary worktree is the work of siblings that are    *)
(* entitled to it: every task's of a plan, the passing ones of a vote.      *)
AppliedIsRight == EditsKept /\ AppliedWasPassed
=============================================================================
