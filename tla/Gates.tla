------------------------------- MODULE Gates -------------------------------
(***************************************************************************)
(* The gates of a build lane (src/gate, src/controller/predicates.ts) over   *)
(* the files of a worktree, from the gate writer's tests to the push: what    *)
(* each stage may leave behind, what its gates compare it with, and what the  *)
(* next round starts from.                                                  *)
(*                                                                          *)
(* A file is in one of a few Contents; the texts the gates read are inputs   *)
(* chosen where a gate reads them.  Which step follows a failed one is the    *)
(* lane's business (Engine): here a failed stage goes back to implement while *)
(* MaxRounds lasts, and the gate writer's failure ends the run.              *)
(*                                                                          *)
(* A definition whose comment begins with "Defect" is wrong on purpose and  *)
(* unused: the properties are tested by putting it in place of the next.    *)
(***************************************************************************)
EXTENDS Naturals, Sequences, FiniteSets

CONSTANTS
  Files,       \* paths of the repository
  Roots,       \* paths inside writeRoots of the run's kind
  Tests,       \* paths inside testDir
  Infra,       \* testInfra, each of its globs one path
  Docs,        \* paths that match generatedDocPatterns
  Absent,      \* paths that are not there at baseSha
  Optional,    \* paths that may not be there
  Criteria,    \* acceptance criteria of the brief and the plan
  TestIds,     \* ids of gate tests
  MaxChanged,  \* maxChangedFiles, which stands for maxDiffLines too
  MaxRounds,   \* bound: rounds of implement
  MaxEdited,   \* bound: files that differ from the base
  MaxLate      \* bound: files that are changed after the checks

VARIABLES
  base,      \* the tree at baseSha
  head,      \* the tree at HEAD
  work,      \* the worktree
  manifest,  \* manifest.json: the test files as recorded
  declared,  \* testChanges of the latest verdict of implement
  issues,    \* the issues of each round of implement
  judged,    \* the tree at judgedSha
  pc,        \* the stage that runs next
  pushed,    \* the tree that was pushed
  hist       \* history: the tests at the outset; the tree the latest checks ran on, the files changed since
             \* (late) by the checks, a review or an audit, and those of them an audit changed (audited)

vars == <<base, head, work, manifest, declared, issues, judged, pc, pushed, hist>>

(* skip: a test with a skip marker; marked: a file with the generated marker *)
(* in its first line.                                                       *)
Contents == {"none", "base", "edit", "skip", "marked"}

Tree == [Files -> Contents]

NoTree == [f \in {} |-> "none"]

Stages == {"gate", "implement", "test", "review", "security", "judge", "publish", "escalated", "done"}

InTestScope(f) == f \in Tests \cup Infra

TypeOK ==
  /\ {base, head, work} \subseteq Tree
  /\ {judged, pushed, hist.tree} \subseteq Tree \cup {NoTree}
  /\ {manifest, hist.tests} \subseteq [{f \in Files : InTestScope(f)} -> Contents] \cup {NoTree}
  /\ declared \cup hist.late \subseteq Files /\ hist.audited \subseteq hist.late /\ pc \in Stages
  /\ issues \in Seq({"none", "some"})

-----------------------------------------------------------------------------
(* Trees.                                                                   *)

(* diffSnapshots: added, removed and changed.                               *)
Changed(before, after) == {f \in Files : before[f] # after[f]}

SkipMarkers(tree, f) == IF tree[f] = "skip" THEN 1 ELSE 0

FindGeneratedDocs(tree, changed) ==
  {f \in changed : f \in Docs \/ tree[f] = "marked"}

(* finalize: what is wrong with a tree that has grown from baseSha.          *)
Violations(tree) ==
  LET changed == Changed(base, tree) IN
  (IF changed \subseteq Roots THEN {} ELSE {"scope-violation"})
  \cup (IF FindGeneratedDocs(tree, changed) = {} THEN {} ELSE {"generated-doc"})
  \cup (IF Cardinality(changed) > MaxChanged THEN {"too-large"} ELSE {})

(* Defect: the snapshots have looked at the scope already.                  *)
FinalizeUnscoped(tree) == Violations(tree) \ {"scope-violation"}

(* The worktree, whoever changed it and when, tracked or not.               *)
Finalize(tree) == Violations(tree)

(* checkpointCommit: everything but the generated docs.                     *)
Checkpoint(tree) ==
  head' = [f \in Files |-> IF f \in Docs THEN head[f] ELSE tree[f]]

Clean == Changed(head, work) \subseteq Docs

-----------------------------------------------------------------------------
(* Gates.                                                                   *)

(* Statuses the gate tests have in the report; a test not reported has none. *)
RedBaseline(ids, status, collected) ==
  IF ids = {} \/ ~collected THEN "gate-invalid"
  ELSE IF \E id \in ids : status[id] \in {"missing", "error", "skipped"}
  THEN "gate-invalid"
  ELSE IF \E id \in ids : status[id] = "passed" THEN "gate-baseline-green"
  ELSE "ok"

SnapshotGate(before, after, roots) == Changed(before, after) \subseteq roots

Recorded(tree) == [f \in {g \in Files : InTestScope(g)} |-> tree[f]]

(* The count of collected tests is recorded as 0 and never decreases.       *)
ManifestGate(recorded, tree, changes) ==
  LET changed == {f \in DOMAIN recorded : tree[f] # recorded[f]} IN
  IF \E f \in changed : SkipMarkers(tree, f) > SkipMarkers(recorded, f)
  THEN "test-tampering"
  ELSE IF changed \subseteq changes THEN "ok" ELSE "undeclared"

InfraRestored(tree) == \A f \in Infra : tree[f] = base[f]

(* Both of the last two rounds named issues, and the same ones; what this    *)
(* round made of them does not count.                                        *)
Stuck ==
  LET n == Len(issues) IN
  n >= 2 /\ issues[n] = issues[n - 1] /\ issues[n] # "none"

(* approval: the verifier's dependency-approval.json.                       *)
DepsApproval(requested, approval) == requested => approval

Checklist(reviewed, tested) == Criteria \subseteq reviewed \cup tested

AcSpotcheck(tested) == Criteria # {} => Criteria \cap tested # {}

(* evidence: of each stage and round, whether it is signed and free of        *)
(* synthesized parts.                                                       *)
EvidenceSigned(evidence) == evidence # {} /\ \A e \in evidence : e.signed

NoSynthesized(evidence) == \A e \in evidence : ~e.synthesized

VerdictConsistent(approved, blocking) == ~(approved /\ blocking)

(* applyGateOutcomes: a failed gate takes a PASS away.                       *)
Outcome(verdict, gates) == IF verdict = "PASS" /\ ~gates THEN "FAIL" ELSE verdict

-----------------------------------------------------------------------------
Init ==
  /\ base \in [Files -> {"none", "base"}]
  /\ \A f \in Files : f \notin Optional => (base[f] = "none" <=> f \in Absent)
  /\ head = base /\ work = base
  /\ manifest = NoTree /\ declared = {} /\ issues = <<>>
  /\ judged = NoTree /\ pushed = NoTree
  /\ hist = [tree |-> NoTree, tests |-> NoTree, late |-> {}, audited |-> {}]
  /\ pc \in {"gate", "implement"}     \* a gateless lane starts at implement

(* What an agent or a check may make of a tree: one file written, or put back *)
(* as it was at baseSha.  A marker counts only in a file that is neither a    *)
(* document nor out of scope anyway.                                        *)
Edits(tree) ==
  {edited \in UNION {{[tree EXCEPT ![f] = c] : c \in {base[f], "edit"}} : f \in Files}
              \cup {[tree EXCEPT ![f] = "marked"] : f \in Roots \ (Tests \cup Docs)}
              \cup {[tree EXCEPT ![f] = "skip"] : f \in Tests} \cup {tree} :
     Cardinality(Changed(base, edited)) <= MaxEdited}

LateEdits(tree, late) ==
  {edited \in Edits(tree) : Cardinality(late \cup Changed(tree, edited)) <= MaxLate}

FixRound(rounds) == IF Len(rounds) < MaxRounds THEN "implement" ELSE "escalated"

(* The gate writer: tests only, red before any implementation, recorded.     *)
GateStage(tree, ids, status, collected) ==
  /\ pc = "gate"
  /\ work' = tree /\ Checkpoint(tree)
  /\ manifest' = Recorded(tree) /\ hist' = [hist EXCEPT !.tests = Recorded(tree)]
  /\ pc' = IF /\ RedBaseline(ids, status, collected) = "ok"
              /\ SnapshotGate(work, tree, Tests)
           THEN "implement" ELSE "escalated"
  /\ UNCHANGED <<base, declared, issues, judged, pushed>>

(* Defect: every round records the tests it finds.                          *)
BoundaryEach == Recorded(work)

(* prepareWriteBoundary: the first implement of a lane without gate records. *)
Boundary == IF manifest = NoTree THEN Recorded(work) ELSE manifest

Remember ==
  hist' = [tree |-> NoTree, late |-> {}, audited |-> {},
           tests |-> IF hist.tests = NoTree THEN Recorded(work) ELSE hist.tests]

(* A round of implement, held to the tree it found and to the recorded tests.*)
(* junit: the report of the first check is green.                           *)
Implement(tree, verdict, changes, junit, requested, approval) ==
  LET tests == ManifestGate(Boundary, tree, changes)
      gates == /\ SnapshotGate(work, tree, Roots) /\ tests = "ok"
               /\ junit /\ DepsApproval(requested, approval) /\ ~Stuck IN
  /\ pc = "implement" /\ Len(issues) < MaxRounds
  /\ manifest' = Boundary /\ Remember
  /\ work' = tree /\ Checkpoint(tree)
  /\ declared' = changes
  /\ issues' = Append(issues, IF verdict = "PASS" THEN "none" ELSE "some")
  /\ pc' = IF tests = "test-tampering" \/ Stuck THEN "escalated"
           ELSE IF Outcome(verdict, gates) = "PASS" THEN "test" ELSE FixRound(issues')
  /\ UNCHANGED <<base, judged, pushed>>

(* No verdict in time: no gate is asked, nothing is committed, and the files  *)
(* stay as they are for the next round.                                     *)
ImplementTimeout(tree) ==
  /\ pc = "implement" /\ Len(issues) < MaxRounds
  /\ manifest' = Boundary /\ Remember
  /\ work' = tree
  /\ issues' = Append(issues, "some")
  /\ pc' = FixRound(issues')
  /\ UNCHANGED <<base, head, declared, judged, pushed>>

(* The files of testInfra as they were at baseSha; git refuses to check any  *)
(* out when one of the globs matches nothing there.                         *)
Restored ==
  IF \A f \in Infra : base[f] # "none"
  THEN [f \in Files |-> IF f \in Infra THEN base[f] ELSE work[f]] ELSE work

(* An attempt at a check: whether it exits 0, runs out of time (and is       *)
(* killed), and what its report says.                                       *)
Attempt ==
  {a \in [zero : BOOLEAN, late : BOOLEAN, report : {"missing", "clean", "failures"}] : a.late => ~a.zero}

(* runOne: an attempt whose report names failures is repeated once.          *)
Reruns(first) == first.report = "failures" /\ ~first.late

RunOne(first, second) ==
  IF Reruns(first) /\ second.report # "missing" THEN second ELSE first

(* The file is removed before each attempt, so what is read is the last's.   *)
JunitGreen(first, second) ==
  (IF Reruns(first) THEN second ELSE first).report = "clean"

ChecksGreen(result) == result.zero /\ ~result.late

(* The infra files are put back, the check runs, and the tree it leaves is   *)
(* measured.                                                                *)
TestStage(first, second, tree) ==
  LET green == ChecksGreen(RunOne(first, second)) /\ JunitGreen(first, second) IN
  /\ pc = "test"
  /\ work' = tree
  /\ hist' = [tests |-> hist.tests, tree |-> Restored, late |-> Changed(Restored, tree), audited |-> {}]
  /\ pc' = IF green /\ Finalize(tree) = {} /\ InfraRestored(tree)
           THEN "review"
           ELSE IF "too-large" \in Finalize(tree) THEN "escalated" ELSE FixRound(issues)
  /\ UNCHANGED <<base, head, manifest, declared, issues, judged, pushed>>

ChangedLate(tree, audited) ==
  hist' = [tests |-> hist.tests, tree |-> hist.tree,
           late |-> hist.late \cup Changed(work, tree), audited |-> hist.audited \cup audited]

(* A review reads, but what it runs may write (GuardLayers).  Its gates look*)
(* at the scope only; its checkpoint commits all that there is.             *)
Review(tree, verdict, cited, approved, blocking) ==
  /\ pc = "review"
  /\ work' = tree /\ Checkpoint(tree)
  /\ ChangedLate(tree, {})
  /\ pc' \in IF Outcome(verdict, /\ cited /\ VerdictConsistent(approved, blocking)
                                /\ "scope-violation" \notin Finalize(tree)) = "PASS"
             THEN {"security", "judge"} ELSE {FixRound(issues)}
  /\ UNCHANGED <<base, manifest, declared, issues, judged, pushed>>

(* The audit of an elevated run has no gates.                               *)
Security(tree, verdict) ==
  /\ pc = "security"
  /\ work' = tree /\ Checkpoint(tree)
  /\ ChangedLate(tree, Changed(work, tree))
  /\ pc' = IF verdict = "PASS" THEN "judge" ELSE FixRound(issues)
  /\ UNCHANGED <<base, manifest, declared, issues, judged, pushed>>

(* A reader without a verdict in time: as ImplementTimeout.                  *)
ReaderTimeout(tree) ==
  /\ pc \in {"review", "security", "judge"}
  /\ work' = tree /\ pc' = FixRound(issues)
  /\ UNCHANGED <<base, head, manifest, declared, issues, judged, pushed, hist>>

(* judgedSha is HEAD before the checkpoint of what the judge has changed.    *)
Judge(tree, verdict, evidence, reviewed, tested) ==
  LET pass == Outcome(verdict,
                /\ EvidenceSigned(evidence) /\ NoSynthesized(evidence)
                /\ Checklist(reviewed, tested) /\ AcSpotcheck(tested)) = "PASS" IN
  /\ pc = "judge"
  /\ judged' = IF pass THEN head ELSE judged
  /\ work' = tree /\ Checkpoint(tree)
  /\ pc' = IF pass THEN "publish" ELSE FixRound(issues)
  /\ UNCHANGED <<base, manifest, declared, issues, pushed, hist>>

Publish ==
  /\ pc = "publish"
  /\ IF judged = head /\ Clean /\ FindGeneratedDocs(head, Changed(base, head)) = {}
     THEN pushed' = head /\ pc' = "done"
     ELSE pc' = "escalated" /\ UNCHANGED pushed
  /\ UNCHANGED <<base, head, work, manifest, declared, issues, judged, hist>>

Verdicts == {"PASS", "FAIL"}

(* The records of the stages, one of which at most is not as it should be.   *)
Evidence ==
  {{}} \cup {{[signed |-> TRUE, synthesized |-> FALSE], r} : r \in [signed : BOOLEAN, synthesized : BOOLEAN]}

Next ==
  \/ /\ pc \in {"gate", "implement", "review", "security", "judge"}
     /\ \E tree \in Edits(work) :
          \/ /\ pc = "gate"
             /\ \E ids \in SUBSET TestIds, collected \in BOOLEAN,
                   status \in [TestIds -> {"failed", "passed", "error", "skipped", "missing"}] :
                  GateStage(tree, ids, status, collected)
          \/ /\ pc = "implement"
             /\ \E verdict \in Verdicts, changes \in SUBSET Tests,
                   junit, requested \in BOOLEAN : \E approval \in {requested, FALSE} :
                  Implement(tree, verdict, changes, junit, requested, approval)
          \/ ImplementTimeout(tree) \/ ReaderTimeout(tree)
          \/ /\ pc = "judge"
             /\ \E verdict \in Verdicts, evidence \in Evidence, reviewed, tested \in SUBSET Criteria :
                  Judge(tree, verdict, evidence, reviewed, tested)
  \/ /\ pc \in {"review", "security"}
     /\ \E verdict \in Verdicts, tree \in LateEdits(work, hist.late) :
          \/ \E cited, approved, blocking \in BOOLEAN :
               Review(tree, verdict, cited, approved \/ verdict = "PASS", blocking)
          \/ Security(tree, verdict)
  \/ /\ pc = "test"
     /\ \E tree \in LateEdits(Restored, {}), first \in Attempt :
          \E second \in IF Reruns(first) THEN Attempt ELSE {first} : TestStage(first, second, tree)
  \/ Publish

Spec == Init /\ [][Next]_vars

-----------------------------------------------------------------------------
(* Properties.                                                              *)

(* What is pushed is what the checks ran on, but for files that the checks   *)
(* themselves, the review or the audit changed since: nothing of the judge, *)
(* and nothing that a round left which timed out or failed its snapshot     *)
(* (snapshot.ts:84, finalize.ts:90, preflight.ts).  It has changed nothing   *)
(* since the base but files that the run may write, audits apart; holds no   *)
(* generated document, no changed test infrastructure, and no more changes   *)
(* than it may, late ones apart.                                            *)
PushedIsInScope ==
  pushed # NoTree =>
    LET changed == Changed(base, pushed) IN
    /\ Changed(pushed, hist.tree) \subseteq hist.late
    /\ changed \subseteq Roots \cup hist.audited
    /\ FindGeneratedDocs(pushed, changed) = {}
    /\ changed \cap Infra \subseteq hist.late
    /\ Cardinality(changed \ hist.late) <= MaxChanged

(* The tests that are pushed are those recorded before the first round of     *)
(* implement, or the last round declared them changed, and no test is skipped *)
(* that was not (manifest.ts:99), but for those changed late.                *)
PushedTestsAreKnown ==
  pushed # NoTree =>
    \A f \in Files \ hist.late : InTestScope(f) /\ f \notin Infra =>
      /\ pushed[f] = hist.tests[f] \/ f \in declared
      /\ SkipMarkers(pushed, f) <= SkipMarkers(hist.tests, f)

(* What is pushed has passed every gate, whatever the rounds before it left *)
(* behind; the gates after the checks look at less, as said above.          *)
PushedPassedGates == PushedIsInScope /\ PushedTestsAreKnown
=============================================================================
