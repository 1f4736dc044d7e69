----------------------------- MODULE WorkProofs -----------------------------
(***************************************************************************)
(* What is proved of the components of MCWork: that what a build lane pushes*)
(* has passed its gates, for every repository, every set of roots, tests and*)
(* test infrastructure, and every number of rounds; that a fused stage      *)
(* passes on what its slots said, for every stack of slots, mode, text and  *)
(* vote; and that siblings keep each other's edits and apply what passed,   *)
(* for every plan and every set of candidates.                              *)
(***************************************************************************)
EXTENDS MCWork, TLAPS, FiniteSetTheorems, NaturalsInduction, WellFoundedInduction

(* The files that the gates record at the outset.                           *)
Scope == {f \in Files : G!InTestScope(f)}

(* The tests of a tree are the recorded ones, or declared, and none is newly*)
(* skipped, but for those of some late files.                               *)
TestsKnown(tree, recorded, changes, late) ==
  \A f \in (Scope \ Infra) \ late :
    /\ tree[f] = recorded[f] \/ f \in changes
    /\ G!SkipMarkers(tree, f) <= G!SkipMarkers(recorded, f)

(* What a tree may be once the checks have passed: the one they ran on, in   *)
(* scope and with the infrastructure of the outset, but for what has been    *)
(* changed since.                                                           *)
Fit(tree, outset, since, recorded, changes) ==
  /\ \A f \in Files :
       /\ tree[f] # since.tree[f] => f \in since.late
       /\ tree[f] # outset[f] => f \in Roots \cup since.audited
       /\ tree[f] # outset[f] /\ f \in Infra => f \in since.late
  /\ Cardinality(G!Changed(outset, tree) \ since.late) <= MaxChanged
  /\ TestsKnown(tree, recorded, changes, since.late)

(* What a checkpoint would commit.                                          *)
Committed(tree) == [f \in Files |-> IF f \in Docs THEN base[f] ELSE tree[f]]

(* What a stage may rely on because the stages before it have passed: it is *)
(* lost by a new round and by nothing else.  It speaks of the tree that is   *)
(* on its way to the push: in the worktree, then at HEAD, then judged.       *)
Gated ==
  /\ hist = [tree |-> hist.tree, tests |-> manifest, late |-> hist.late, audited |-> hist.audited]
  /\ manifest = G!NoTree \/ DOMAIN manifest = Scope
  /\ \A f \in Files \cap Docs : head[f] = base[f]
  /\ pc = "test" => TestsKnown(work, manifest, declared, {})
  /\ pc \in {"review", "security"} => Fit(Committed(work), base, hist, manifest, declared)
  /\ pc = "judge" => Fit(head, base, hist, manifest, declared)
  /\ pc = "publish" => Fit(judged, base, hist, manifest, declared)
  /\ pushed # G!NoTree => pc = "done" /\ G!PushedPassedGates

GatesHold == which = "gates" => Gated

-----------------------------------------------------------------------------
(* Gates.                                                                   *)

(* The cardinality that Gates speaks of is the one of the library.          *)
LEMMA SameCardinality == \A set : G!Cardinality(set) = Cardinality(set)
  BY DEF G!Cardinality, Cardinality

(* The record of the tests covers the files in the scope of the gates.      *)
LEMMA RecordedScope == \A tree : DOMAIN G!Recorded(tree) = Scope
  BY DEF G!Recorded, Scope

(* No checkpoint commits a generated document.                              *)
LEMMA DocsKept ==
  ASSUME Gated, NEW tree, G!Checkpoint(tree), base' = base
  PROVE  /\ (\A f \in Files \cap Docs : head[f] = base[f])'
         /\ \A f \in Files : head'[f] = Committed(tree)[f]
  BY DEF Gated, G!Checkpoint, Committed

(* A tree that differs from a fit one in late files only stays fit.         *)
LEMMA FitKept ==
  ASSUME NEW tree, NEW next, NEW outset, NEW since, NEW late, NEW recorded, NEW changes,
         Fit(tree, outset, since, recorded, changes),
         late.tree = since.tree, since.late \subseteq late.late,
         \A f \in Files : next[f] # tree[f] => f \in late.late,
         \A f \in Files : next[f] # outset[f] => f \in Roots \cup late.audited
  PROVE  Fit(next, outset, late, recorded, changes)
<1>1. \A f \in Files :
        /\ next[f] # late.tree[f] => f \in late.late
        /\ next[f] # outset[f] /\ f \in Infra => f \in late.late
  BY DEF Fit
<1>2. Cardinality(G!Changed(outset, next) \ late.late) <= MaxChanged
  <2> DEFINE before == G!Changed(outset, tree) \ since.late
             after  == G!Changed(outset, next) \ late.late
  <2>1. after \subseteq before /\ before \subseteq Files
    BY DEF G!Changed
  <2>2. IsFiniteSet(before)
    BY <2>1, FilesAssumption, FS_Subset
  <2>3. Cardinality(after) <= Cardinality(before)
    BY <2>1, <2>2, FS_Subset
  <2>4. Cardinality(after) \in Nat /\ Cardinality(before) \in Nat
    BY <2>1, <2>2, FS_Subset, FS_CardinalityType
  <2>5. Cardinality(before) <= MaxChanged
    BY DEF Fit
  <2> HIDE DEF before, after
  <2>6. Cardinality(after) <= MaxChanged
    BY <2>3, <2>4, <2>5, FilesAssumption
  <2>7. QED
    BY <2>6 DEF after
<1>3. TestsKnown(next, recorded, changes, late.late)
  BY DEF Fit, TestsKnown, Scope, G!SkipMarkers
<1>4. QED
  BY <1>1, <1>2, <1>3 DEF Fit

(* A round of the gate writer, whatever it ends with.                       *)
LEMMA GatedGate ==
  ASSUME Gated, NEW tree, NEW ids, NEW status, NEW collected,
         G!GateStage(tree, ids, status, collected)
  PROVE  Gated'
<1>1. /\ pc = "gate" /\ pc' \in {"implement", "escalated"}
      /\ manifest' = G!Recorded(tree) /\ pushed' = pushed /\ base' = base
      /\ hist' = [hist EXCEPT !.tests = G!Recorded(tree)] /\ G!Checkpoint(tree)
  BY DEF G!GateStage
<1>2. hist' = [tree |-> hist'.tree, tests |-> manifest', late |-> hist'.late, audited |-> hist'.audited]
  BY <1>1 DEF Gated
<1>3. pushed' = G!NoTree
  BY <1>1 DEF Gated
<1>4. QED
  BY <1>1, <1>2, <1>3, DocsKept, RecordedScope DEF Gated

(* What every round of implement does with the record of the tests.         *)
LEMMA GatedBoundary ==
  ASSUME Gated, G!Remember, manifest' = G!Boundary
  PROVE  /\ hist' = [tree |-> hist'.tree, tests |-> manifest', late |-> hist'.late, audited |-> hist'.audited]
         /\ DOMAIN G!Boundary = Scope
<1>1. manifest = G!NoTree \/ DOMAIN manifest = Scope
  BY DEF Gated
<1>2. DOMAIN G!Boundary = Scope
  BY <1>1, RecordedScope DEF G!Boundary
<1>3. hist.tests = manifest
  BY DEF Gated
<1>4. hist' = [tree |-> G!NoTree, late |-> {}, audited |-> {}, tests |-> manifest']
  BY <1>3 DEF G!Remember, G!Boundary
<1>5. QED
  BY <1>2, <1>4

(* A round of implement, whatever it ends with: what it leaves to the check  *)
(* has the recorded tests.                                                  *)
LEMMA GatedImplement ==
  ASSUME Gated, NEW tree, NEW verdict, NEW changes, NEW junit, NEW requested, NEW approval,
         G!Implement(tree, verdict, changes, junit, requested, approval)
  PROVE  Gated'
<1>1. /\ pc = "implement" /\ pc' \in {"test", "implement", "escalated"}
      /\ manifest' = G!Boundary /\ pushed' = pushed /\ G!Remember /\ base' = base
      /\ work' = tree /\ declared' = changes /\ G!Checkpoint(tree)
  BY DEF G!Implement, G!FixRound
<1>2. pc' = "test" => G!ManifestGate(G!Boundary, tree, changes) = "ok"
  BY DEF G!Implement, G!FixRound, G!Outcome
<1>3. DOMAIN G!Boundary = Scope
  BY <1>1, GatedBoundary
<1>4. pc' = "test" => TestsKnown(tree, G!Boundary, changes, {})
  <2> SUFFICES ASSUME pc' = "test", NEW f \in Scope \ Infra
               PROVE  /\ tree[f] = G!Boundary[f] \/ f \in changes
                      /\ G!SkipMarkers(tree, f) <= G!SkipMarkers(G!Boundary, f)
    BY DEF TestsKnown
  <2>1. \A g \in DOMAIN G!Boundary : tree[g] # G!Boundary[g] =>
          /\ ~(G!SkipMarkers(tree, g) > G!SkipMarkers(G!Boundary, g))
          /\ g \in changes
    BY <1>2 DEF G!ManifestGate
  <2>2. CASE tree[f] = G!Boundary[f]
    BY <2>2 DEF G!SkipMarkers
  <2>3. CASE tree[f] # G!Boundary[f]
    BY <2>1, <2>3, <1>3 DEF G!SkipMarkers
  <2>4. QED
    BY <2>2, <2>3
<1>5. pc' = "test" => TestsKnown(work, manifest, declared, {})'
  BY <1>1, <1>4 DEF TestsKnown, Scope, G!InTestScope, G!SkipMarkers
<1>6. pushed' = G!NoTree
  BY <1>1 DEF Gated
<1>7. /\ hist' = [tree |-> hist'.tree, tests |-> manifest', late |-> hist'.late, audited |-> hist'.audited]
      /\ DOMAIN manifest' = Scope
      /\ (\A f \in Files \cap Docs : head[f] = base[f])'
  BY <1>1, GatedBoundary, DocsKept
<1>8. QED
  BY <1>1, <1>5, <1>6, <1>7 DEF Gated

(* A round of implement without a verdict, or a reader without one.         *)
LEMMA GatedTimeout ==
  ASSUME Gated, NEW tree, G!ImplementTimeout(tree) \/ G!ReaderTimeout(tree)
  PROVE  Gated'
<1>1. /\ pc \in {"implement", "review", "security", "judge"} /\ pc' \in {"implement", "escalated"}
      /\ pushed' = pushed /\ head' = head /\ base' = base
      /\ \/ manifest' = G!Boundary /\ G!Remember
         \/ manifest' = manifest /\ hist' = hist
  BY DEF G!ImplementTimeout, G!ReaderTimeout, G!FixRound
<1>2. pushed' = G!NoTree
  BY <1>1 DEF Gated
<1>3. /\ hist' = [tree |-> hist'.tree, tests |-> manifest', late |-> hist'.late, audited |-> hist'.audited]
      /\ manifest' = G!NoTree \/ DOMAIN manifest' = Scope
  BY <1>1, GatedBoundary DEF Gated
<1>4. QED
  BY <1>1, <1>2, <1>3 DEF Gated

(* The violations that finalize does not find.                              *)
LEMMA FinalizeClean ==
  ASSUME NEW tree, G!Violations(tree) = {}
  PROVE  /\ G!Changed(base, tree) \subseteq Roots
         /\ G!FindGeneratedDocs(tree, G!Changed(base, tree)) = {}
         /\ ~(Cardinality(G!Changed(base, tree)) > MaxChanged)
<1> DEFINE changed == G!Changed(base, tree)
           outside == IF changed \subseteq Roots THEN {} ELSE {"scope-violation"}
           docs    == IF G!FindGeneratedDocs(tree, changed) = {} THEN {} ELSE {"generated-doc"}
           large   == IF Cardinality(changed) > MaxChanged THEN {"too-large"} ELSE {}
<1>1. outside \cup docs \cup large = {}
  BY SameCardinality DEF G!Violations
<1>2. outside = {} /\ docs = {} /\ large = {}
  BY <1>1
<1>3. changed \subseteq Roots
  BY <1>2
<1>4. ~(Cardinality(changed) > MaxChanged)
  BY <1>2
<1>5. G!FindGeneratedDocs(tree, changed) = {}
  BY <1>2
<1>6. QED
  BY <1>3, <1>4, <1>5

(* The check: it puts the infrastructure back and measures what it leaves.  *)
LEMMA GatedTest ==
  ASSUME Gated, NEW first, NEW second, NEW tree, G!TestStage(first, second, tree)
  PROVE  Gated'
<1>1. /\ pc = "test" /\ pc' \in {"review", "escalated", "implement"}
      /\ work' = tree
      /\ hist' = [tests |-> hist.tests, tree |-> G!Restored, late |-> G!Changed(G!Restored, tree), audited |-> {}]
      /\ UNCHANGED <<base, head, manifest, declared, pushed>>
      /\ pc' = "review" => G!Violations(tree) = {} /\ G!InfraRestored(tree)
  BY DEF G!TestStage, G!FixRound, G!Finalize
<1>2. hist' = [tree |-> G!Restored, tests |-> manifest', late |-> G!Changed(G!Restored, tree), audited |-> {}]
  BY <1>1 DEF Gated
<1>3. \A f \in Scope \ Infra : G!Restored[f] = work[f]
  BY DEF G!Restored, Scope
<1>4. pushed' = G!NoTree
  BY <1>1 DEF Gated
<1>5. ASSUME pc' = "review"
      PROVE  Fit(Committed(work)', base, hist', manifest, declared)
  <2>1. PICK commit : commit = Committed(work)'
    OBVIOUS
  <2>2. PICK since : since = hist'
    OBVIOUS
  <2>3. PICK put : put = G!Restored
    OBVIOUS
  <2>4. /\ G!Changed(base, tree) \subseteq Roots
        /\ G!FindGeneratedDocs(tree, G!Changed(base, tree)) = {}
        /\ ~(Cardinality(G!Changed(base, tree)) > MaxChanged)
    BY <1>1, <1>5, FinalizeClean
  <2>5. \A f \in Files : commit[f] = tree[f]
    BY <1>1, <2>1, <2>4 DEF Committed, G!FindGeneratedDocs, G!Changed
  <2>6. since.tree = put /\ since.late = G!Changed(put, tree)
    BY <1>2, <2>2, <2>3
  <2>7. \A f \in Files :
          /\ commit[f] # since.tree[f] => f \in since.late
          /\ commit[f] # base[f] => f \in Roots \cup since.audited
          /\ commit[f] # base[f] /\ f \in Infra => f \in since.late
    BY <1>1, <1>5, <2>4, <2>5, <2>6 DEF G!Changed, G!InfraRestored
  <2>8. Cardinality(G!Changed(base, commit) \ since.late) <= MaxChanged
    <3>1. G!Changed(base, commit) = G!Changed(base, tree) /\ G!Changed(base, tree) \subseteq Files
      BY <2>5 DEF G!Changed
    <3>2. PICK all : all = G!Changed(base, tree)
      OBVIOUS
    <3>3. PICK some : some = all \ since.late
      OBVIOUS
    <3>4. IsFiniteSet(all) /\ some \subseteq all
      BY <3>1, <3>2, <3>3, FilesAssumption, FS_Subset
    <3>5. Cardinality(some) <= Cardinality(all) /\ IsFiniteSet(some)
      BY <3>4, FS_Subset
    <3>6. Cardinality(some) \in Nat /\ Cardinality(all) \in Nat
      BY <3>4, <3>5, FS_CardinalityType
    <3>7. ~(Cardinality(all) > MaxChanged)
      BY <2>4, <3>2
    <3>8. Cardinality(some) <= MaxChanged
      BY <3>5, <3>6, <3>7, FilesAssumption
    <3>9. QED
      BY <3>1, <3>2, <3>3, <3>8
  <2>9. TestsKnown(commit, manifest, declared, since.late)
    <3> SUFFICES ASSUME NEW f \in (Scope \ Infra) \ since.late
                 PROVE  /\ commit[f] = manifest[f] \/ f \in declared
                        /\ G!SkipMarkers(commit, f) <= G!SkipMarkers(manifest, f)
      BY DEF TestsKnown
    <3>1. f \in Files /\ commit[f] = work[f]
      BY <2>3, <2>5, <2>6, <1>3 DEF Scope, G!Changed
    <3>2. TestsKnown(work, manifest, declared, {})
      BY <1>1 DEF Gated
    <3>3. QED
      BY <3>1, <3>2 DEF TestsKnown, G!SkipMarkers
  <2>10. Fit(commit, base, since, manifest, declared)
    BY <2>7, <2>8, <2>9 DEF Fit
  <2>11. QED
    BY <2>1, <2>2, <2>10
<1>6. pc' = "review" => Fit(Committed(work), base, hist, manifest, declared)'
  BY <1>1, <1>5 DEF Fit, TestsKnown, Scope, G!InTestScope, G!SkipMarkers, G!Changed
<1>7. hist' = [tree |-> hist'.tree, tests |-> manifest', late |-> hist'.late, audited |-> hist'.audited]
  BY <1>2
<1>8. QED
  BY <1>1, <1>4, <1>6, <1>7 DEF Gated

(* A reader's step, the review's or the audit's: what it changes is late, and*)
(* it leaves nothing out of scope that an audit has not put there.          *)
LEMMA GatedReader ==
  ASSUME Gated, NEW tree, NEW audited,
         pc \in {"review", "security"}, pc' \in {"security", "judge", "implement", "escalated"},
         work' = tree, G!Checkpoint(tree),
         G!ChangedLate(tree, audited),
         UNCHANGED <<base, manifest, declared, judged, pushed>>,
         pc' \in {"security", "judge"} =>
           \A f \in Files : f \notin Docs /\ tree[f] # base[f] => f \in Roots \cup hist.audited \cup audited
  PROVE  Gated'
<1>0. hist.tests = manifest
  BY DEF Gated
<1>1. hist' = [tests |-> manifest', tree |-> hist.tree,
               late |-> hist.late \cup G!Changed(work, tree), audited |-> hist.audited \cup audited]
  BY <1>0 DEF G!ChangedLate
<1>2. pushed' = G!NoTree
  BY DEF Gated
<1>3. /\ (\A f \in Files \cap Docs : head[f] = base[f])'
      /\ \A f \in Files : head'[f] = Committed(tree)[f]
  BY DocsKept
<1>4. ASSUME pc' \in {"security", "judge"}
      PROVE  Fit(Committed(tree), base, hist', manifest, declared)
  <2>1. PICK before : before = Committed(work)
    OBVIOUS
  <2>2. PICK after : after = Committed(tree)
    OBVIOUS
  <2>3. PICK late : late = hist'
    OBVIOUS
  <2>4. Fit(before, base, hist, manifest, declared)
    BY <2>1 DEF Gated
  <2>5. late.tree = hist.tree /\ late.late = hist.late \cup G!Changed(work, tree) /\ late.audited = hist.audited \cup audited
    BY <1>1, <2>3
  <2>6. \A f \in Files : after[f] # before[f] => f \in late.late
    BY <2>1, <2>2, <2>5 DEF Committed, G!Changed
  <2>7. \A f \in Files : after[f] # base[f] => f \in Roots \cup late.audited
    BY <1>4, <2>2, <2>5 DEF Committed
  <2>8. hist.late \subseteq late.late
    BY <2>5
  <2>9. Fit(after, base, late, manifest, declared)
    BY <2>4, <2>5, <2>6, <2>7, <2>8, FitKept
  <2>10. QED
    BY <2>2, <2>3, <2>9
<1>5. pc' = "judge" => Fit(head, base, hist, manifest, declared)'
  BY <1>3, <1>4 DEF Fit, TestsKnown, Scope, G!InTestScope, G!SkipMarkers, G!Changed
<1>6. pc' = "security" => Fit(Committed(work), base, hist, manifest, declared)'
  <2>1. \A f \in Files : Committed(work)'[f] = Committed(tree)[f]
    BY DEF Committed
  <2>2. QED
    BY <1>4, <2>1 DEF Fit, TestsKnown, Scope, G!InTestScope, G!SkipMarkers, G!Changed
<1>7. hist' = [tree |-> hist'.tree, tests |-> manifest', late |-> hist'.late, audited |-> hist'.audited]
  BY <1>1
<1>8. QED
  BY <1>2, <1>3, <1>5, <1>6, <1>7 DEF Gated

(* The review's gates have looked at the scope of what it commits.          *)
LEMMA GatedReview ==
  ASSUME Gated, NEW tree, NEW verdict, NEW cited, NEW approved, NEW blocking,
         G!Review(tree, verdict, cited, approved, blocking)
  PROVE  Gated'
<1>1. /\ pc = "review" /\ pc' \in {"security", "judge", "implement", "escalated"}
      /\ work' = tree /\ G!Checkpoint(tree)
      /\ G!ChangedLate(tree, {})
      /\ UNCHANGED <<base, manifest, declared, judged, pushed>>
      /\ pc' \in {"security", "judge"} => "scope-violation" \notin G!Violations(tree)
  BY DEF G!Review, G!FixRound, G!Outcome, G!Finalize
<1>2. ASSUME pc' \in {"security", "judge"}
      PROVE  \A f \in Files : f \notin Docs /\ tree[f] # base[f] => f \in Roots \cup hist.audited \cup {}
  <2>1. G!Changed(base, tree) \subseteq Roots
    BY <1>1, <1>2 DEF G!Violations
  <2>2. QED
    BY <2>1 DEF G!Changed
<1>3. QED
  BY <1>1, <1>2, GatedReader

(* The audit has no gates: what it changes is on its own account.           *)
LEMMA GatedSecurity ==
  ASSUME Gated, NEW tree, NEW verdict, G!Security(tree, verdict)
  PROVE  Gated'
<1>1. PICK audited : audited = G!Changed(work, tree)
  OBVIOUS
<1>2. /\ pc = "security" /\ pc' \in {"judge", "implement", "escalated"}
      /\ work' = tree /\ G!Checkpoint(tree) /\ G!ChangedLate(tree, audited)
      /\ UNCHANGED <<base, manifest, declared, judged, pushed>>
  BY <1>1 DEF G!Security, G!FixRound
<1>3. Fit(Committed(work), base, hist, manifest, declared)
  BY <1>2 DEF Gated
<1>4. \A f \in Files : f \notin Docs /\ tree[f] # base[f] => f \in Roots \cup hist.audited \cup audited
  BY <1>1, <1>3 DEF Fit, Committed, G!Changed
<1>5. QED
  BY <1>2, <1>4, GatedReader

(* The judge: what was at HEAD before its own checkpoint is what is judged.  *)
LEMMA GatedJudge ==
  ASSUME Gated, NEW tree, NEW verdict, NEW evidence, NEW reviewed, NEW tested,
         G!Judge(tree, verdict, evidence, reviewed, tested)
  PROVE  Gated'
<1>1. /\ pc = "judge" /\ pc' \in {"publish", "implement", "escalated"}
      /\ pc' = "publish" => judged' = head
      /\ G!Checkpoint(tree) /\ UNCHANGED <<base, manifest, declared, pushed, hist>>
  BY DEF G!Judge, G!FixRound
<1>2. pushed' = G!NoTree
  BY <1>1 DEF Gated
<1>3. (\A f \in Files \cap Docs : head[f] = base[f])'
  BY <1>1, DocsKept
<1>4. Fit(head, base, hist, manifest, declared)
  BY <1>1 DEF Gated
<1>5. pc' = "publish" => Fit(judged, base, hist, manifest, declared)'
  BY <1>1, <1>4 DEF Fit, TestsKnown, Scope, G!InTestScope, G!SkipMarkers, G!Changed
<1>6. QED
  BY <1>1, <1>2, <1>3, <1>5 DEF Gated

(* What is pushed is what was judged.                                       *)
LEMMA GatedPublish ==
  ASSUME Gated, G!Publish
  PROVE  Gated'
<1>1. CASE ~(judged = head /\ G!Clean /\ G!FindGeneratedDocs(head, G!Changed(base, head)) = {})
  BY <1>1 DEF G!Publish, Gated
<1>2. CASE judged = head /\ G!Clean /\ G!FindGeneratedDocs(head, G!Changed(base, head)) = {}
  <2>1. /\ pc' = "done" /\ pushed' = judged
        /\ UNCHANGED <<base, head, manifest, declared, hist>>
        /\ G!FindGeneratedDocs(judged, G!Changed(base, judged)) = {}
    BY <1>2 DEF G!Publish
  <2>2. Fit(judged, base, hist, manifest, declared)
    BY DEF Gated, G!Publish
  <2>3. hist.tests = manifest
    BY DEF Gated
  <2>4. /\ G!Changed(judged, hist.tree) \subseteq hist.late
        /\ G!Changed(base, judged) \subseteq Roots \cup hist.audited
        /\ G!Changed(base, judged) \cap Infra \subseteq hist.late
        /\ Cardinality(G!Changed(base, judged) \ hist.late) <= MaxChanged
    BY <2>2 DEF Fit, G!Changed
  <2>5. G!PushedIsInScope'
    <3>1. /\ G!Changed(base, pushed)' = G!Changed(base, judged)
          /\ G!Changed(pushed, hist.tree)' = G!Changed(judged, hist.tree)
          /\ G!FindGeneratedDocs(pushed, G!Changed(base, pushed))' = {}
      BY <2>1 DEF G!Changed, G!FindGeneratedDocs
    <3>2. QED
      BY <3>1, <2>1, <2>4, SameCardinality DEF G!PushedIsInScope
  <2>6. ASSUME NEW f \in Files \ hist.late, G!InTestScope(f), f \notin Infra
        PROVE  /\ judged[f] = hist.tests[f] \/ f \in declared
               /\ G!SkipMarkers(judged, f) <= G!SkipMarkers(hist.tests, f)
    BY <2>2, <2>3, <2>6 DEF Fit, TestsKnown, Scope, G!SkipMarkers
  <2>7. G!PushedTestsAreKnown'
    BY <2>1, <2>6 DEF G!PushedTestsAreKnown, G!InTestScope, G!SkipMarkers
  <2>8. QED
    BY <2>1, <2>5, <2>7 DEF Gated, G!PushedPassedGates
<1>3. QED
  BY <1>1, <1>2

(* In a run of the gates, whatever the agents write and in whatever order   *)
(* rounds fail, time out and are repeated.                                  *)
LEMMA GatesHoldAlways == Spec => []GatesHold
<1>1. Init => GatesHold
  BY DEF Init, G!Init, GatesHold, Gated, Idle, gatesIdle
<1>2. GatesHold /\ [Next]_vars => GatesHold'
  <2> SUFFICES ASSUME GatesHold, [Next]_vars, which = "gates" PROVE Gated'
    BY DEF GatesHold, Next, vars
  <2>0. Gated
    BY DEF GatesHold
  <2>1. CASE UNCHANGED vars
    BY <2>0, <2>1
    DEF vars, gatesVars, Gated, Fit, TestsKnown, Committed, Scope, G!InTestScope,
        G!SkipMarkers, G!Changed, G!FindGeneratedDocs, G!PushedPassedGates,
        G!PushedIsInScope, G!PushedTestsAreKnown
  <2>2. CASE G!Next
    <3>1. CASE \E tree \in G!Edits(work) :
                 \E ids \in SUBSET TestIds, collected \in BOOLEAN,
                    status \in [TestIds -> {"failed", "passed", "error", "skipped", "missing"}] :
                   G!GateStage(tree, ids, status, collected)
      BY <2>0, <3>1, GatedGate
    <3>2. CASE \E tree \in G!Edits(work) :
                 \E verdict \in G!Verdicts, changes \in SUBSET Tests, junit, requested \in BOOLEAN :
                   \E approval \in {requested, FALSE} :
                     G!Implement(tree, verdict, changes, junit, requested, approval)
      BY <2>0, <3>2, GatedImplement
    <3>3. CASE \E tree \in G!Edits(work) : G!ImplementTimeout(tree) \/ G!ReaderTimeout(tree)
      BY <2>0, <3>3, GatedTimeout
    <3>4. CASE \E tree \in G!Edits(work) :
                 \E verdict \in G!Verdicts, evidence \in G!Evidence, reviewed, tested \in SUBSET Criteria :
                   G!Judge(tree, verdict, evidence, reviewed, tested)
      BY <2>0, <3>4, GatedJudge
    <3>5. CASE \E verdict \in G!Verdicts, tree \in G!LateEdits(work, hist.late) :
                 \E cited, approved, blocking \in BOOLEAN :
                   G!Review(tree, verdict, cited, approved \/ verdict = "PASS", blocking)
      BY <2>0, <3>5, GatedReview
    <3>6. CASE \E verdict \in G!Verdicts, tree \in G!LateEdits(work, hist.late) :
                 G!Security(tree, verdict)
      BY <2>0, <3>6, GatedSecurity
    <3>7. CASE \E tree \in G!LateEdits(G!Restored, {}), first \in G!Attempt :
                 \E second \in IF G!Reruns(first) THEN G!Attempt ELSE {first} :
                   G!TestStage(first, second, tree)
      BY <2>0, <3>7, GatedTest
    <3>8. CASE G!Publish
      BY <2>0, <3>8, GatedPublish
    <3>9. QED
      BY <2>2, <3>1, <3>2, <3>3, <3>4, <3>5, <3>6, <3>7, <3>8 DEF G!Next
  <2>3. QED
    BY <2>1, <2>2 DEF Next
<1>3. QED
  BY <1>1, <1>2, PTL DEF Spec

(* What is pushed has passed every gate: it stays inside the run's roots and*)
(* the limit, changes no test infrastructure, has no generated document and *)
(* no test that was changed or skipped without being declared, and is what  *)
(* the checks ran on.                                                       *)
THEOREM PushedPassedGatesAlways == Spec => []PushedPassedGates
<1>1. GatesHold => PushedPassedGates
  BY DEF GatesHold, Gated, PushedPassedGates, G!PushedPassedGates,
         G!PushedIsInScope, G!PushedTestsAreKnown
<1>2. QED
  BY <1>1, GatesHoldAlways, PTL

-----------------------------------------------------------------------------
(* Sequences and numbers.                                                   *)

(* A sequence, of whatever is in it.                                        *)
IsSeq(q) == q \in Seq({q[i] : i \in DOMAIN q})

LEMMA Appended ==
  ASSUME NEW q, IsSeq(q), NEW x
  PROVE  /\ IsSeq(Append(q, x)) /\ Len(q) \in Nat /\ Len(Append(q, x)) = Len(q) + 1
         /\ DOMAIN q = 1 .. Len(q) /\ DOMAIN Append(q, x) = 1 .. Len(q) + 1
         /\ Append(q, x)[Len(q) + 1] = x
         /\ \A i \in 1 .. Len(q) : Append(q, x)[i] = q[i]
<1> DEFINE Elements == {q[i] : i \in DOMAIN q} \cup {x}
<1>1. q \in Seq(Elements)
  BY DEF IsSeq
<1>2. x \in Elements
  OBVIOUS
<1> HIDE DEF Elements
<1>3. /\ Len(q) \in Nat /\ Len(Append(q, x)) = Len(q) + 1
      /\ DOMAIN q = 1 .. Len(q) /\ DOMAIN Append(q, x) = 1 .. Len(q) + 1
      /\ Append(q, x)[Len(q) + 1] = x
      /\ \A i \in 1 .. Len(q) : Append(q, x)[i] = q[i]
  BY <1>1, <1>2
<1>4. PICK r : r = Append(q, x)
  OBVIOUS
<1>5. r \in Seq(Elements)
  BY <1>1, <1>2, <1>4
<1>6. r \in Seq({r[i] : i \in DOMAIN r})
  BY <1>5
<1>7. QED
  BY <1>3, <1>4, <1>6 DEF IsSeq

LEMMA Greatest ==
  ASSUME NEW N, N \subseteq Nat, NEW n \in N, \A i \in N : i <= n
  PROVE  F!Max(N) = n
<1>1. \E x \in N : \A y \in N : x >= y
  BY SMT
<1>2. F!Max(N) \in N /\ \A y \in N : F!Max(N) >= y
  BY <1>1, Zenon DEF F!Max
<1>3. PICK m : m = F!Max(N)
  OBVIOUS
<1>4. m \in Nat /\ n \in Nat /\ m >= n /\ n >= m
  BY <1>2, <1>3
<1>5. QED
  BY <1>3, <1>4

LEMMA Least ==
  ASSUME NEW N, N \subseteq Nat, N # {}
  PROVE  F!Min(N) \in N /\ \A y \in N : F!Min(N) <= y
<1>1. PICK i \in N : \A j \in N : ~ (<<j, i>> \in OpToRel(<, Nat))
  BY WFMin, NatLessThanWellFounded
<1>2. \A j \in N : i <= j
  <2>1. ASSUME NEW j \in N, j < i PROVE FALSE
    <3>1. <<j, i>> \in Nat \X Nat /\ <<j, i>>[1] < <<j, i>>[2]
      BY <2>1
    <3>2. QED
      BY <3>1, <1>1 DEF OpToRel
  <2>2. QED
    BY <2>1
<1>3. \E x \in N : \A y \in N : x <= y
  BY <1>2, SMT
<1>4. QED
  BY <1>3, Zenon DEF F!Min

-----------------------------------------------------------------------------
(* Fusion.                                                                  *)

(* A result that counts: the worker was in time, is dead when headless, and *)
(* its verdict file is valid and says what the result says.                 *)
Counts(w) == w.pc = "done" /\ ~F!isDroppedSlot(w.result)

Delivered(f, q) == f.st = "valid" => f.verdict \in SlotVotes(q.mode) /\ f.text \in Texts(q.mode)

WorkerSound(w, q) ==
  /\ w = [pc |-> w.pc, alive |-> w.alive, file |-> w.file, timer |-> w.timer,
          timedOut |-> w.timedOut, killed |-> w.killed, result |-> w.result]
  /\ w.file = [st |-> w.file.st, verdict |-> w.file.verdict, text |-> w.file.text]
  /\ Delivered(w.file, q)
  /\ ~q.visible /\ w.pc = "closing" => ~w.alive
  /\ Counts(w) =>
       /\ w.file.st = "valid" /\ ~w.result.timedOut
       /\ w.result.verdict = w.file.verdict /\ w.result.text = w.file.text
       /\ ~q.visible => ~w.alive /\ ~w.timedOut /\ w.timer = "off"

(* What a step may do to a worker: one that counts stays as it is.          *)
Keeps(w, x) == Counts(w) => Counts(x) /\ x.file = w.file /\ x.result = w.result

(* A worker with other control, file and life.                              *)
Worker(control, alive, file, timer, timedOut, killed, result) ==
  [pc |-> control, alive |-> alive, file |-> file, timer |-> timer,
   timedOut |-> timedOut, killed |-> killed, result |-> result]

(* The steps that one worker and its executor take.                         *)
WorkerStep(s) ==
  F!Executor(s) \/ F!VerdictEmit(s) \/ F!Scribble(s) \/ F!Exit(s) \/ F!PollThrows(s) \/ F!DebatePromptLost(s)

(* The results there are: of a verdict in time, of none and of a failure.   *)
LEMMA Results ==
  /\ F!Nothing.verdict = "none" /\ ~F!Nothing.timedOut
  /\ F!isDroppedSlot(F!Nothing) /\ F!isDroppedSlot(F!Thrown)
  /\ \A x : F!isDroppedSlot([F!Nothing EXCEPT !.timedOut = x])
  BY DEF F!Nothing, F!Thrown, F!Result, F!isDroppedSlot

LEMMA SlotOf ==
  ASSUME NEW w, ~F!isDroppedSlot(F!toSlot(w))
  PROVE  /\ ~w.timedOut /\ w.file.st = "valid" /\ ~F!toSlot(w).timedOut
         /\ F!toSlot(w).verdict = w.file.verdict /\ F!toSlot(w).text = w.file.text
<1>1. CASE w.timedOut \/ w.file.st # "valid"
  BY <1>1, Results DEF F!toSlot
<1>2. CASE ~(w.timedOut \/ w.file.st # "valid")
  BY <1>2 DEF F!toSlot, F!Result
<1>3. QED
  BY <1>1, <1>2

LEMMA IdleSound ==
  ASSUME NEW q
  PROVE  WorkerSound(F!Idle, q) /\ F!Idle.pc = "idle" /\ ~F!Idle.alive /\ F!Idle.timer = "off" /\ ~F!Idle.timedOut
<1>1. F!Idle.pc = "idle" /\ ~F!Idle.alive /\ F!Idle.timer = "off" /\ ~F!Idle.timedOut /\ F!Idle.file = F!NoFile
  BY DEF F!Idle
<1>2. F!Idle = [pc |-> F!Idle.pc, alive |-> F!Idle.alive, file |-> F!Idle.file, timer |-> F!Idle.timer,
                timedOut |-> F!Idle.timedOut, killed |-> F!Idle.killed, result |-> F!Idle.result]
  BY DEF F!Idle
<1>3. F!NoFile = [st |-> F!NoFile.st, verdict |-> F!NoFile.verdict, text |-> F!NoFile.text] /\ F!NoFile.st = "none"
  BY DEF F!NoFile
<1>4. QED
  BY <1>1, <1>2, <1>3 DEF WorkerSound, Counts, Delivered

(* A worker with some of its fields changed.                                *)
IsWorker(w) ==
  w = [pc |-> w.pc, alive |-> w.alive, file |-> w.file, timer |-> w.timer,
       timedOut |-> w.timedOut, killed |-> w.killed, result |-> w.result]
IsFile(f) == f = [st |-> f.st, verdict |-> f.verdict, text |-> f.text]

Launched(w, a, b, c, d) == [w EXCEPT !.pc = a, !.alive = b, !.timer = c, !.killed = d]
Later(w, a, b) == [w EXCEPT !.pc = a, !.timer = b]
Reaped(w, a, b) == [w EXCEPT !.pc = a, !.killed = b]
Gone(w, a, b) == [w EXCEPT !.alive = a, !.killed = b]
Overdue(w, a, b) == [w EXCEPT !.timer = a, !.timedOut = b]
Goes(w, a) == [w EXCEPT !.pc = a]
Lives(w, a) == [w EXCEPT !.alive = a]
Wrote(w, a) == [w EXCEPT !.file = a]
Stilled(w, a) == [w EXCEPT !.timer = a]
Hit(w, a) == [w EXCEPT !.killed = a]

LEMMA Changes ==
  ASSUME NEW w, IsWorker(w)
  PROVE  /\ \A r : F!Finished(w, r) = Worker("done", w.alive, w.file, w.timer, w.timedOut, w.killed, r)
         /\ \A a, b, c, d : Launched(w, a, b, c, d) = Worker(a, b, w.file, c, w.timedOut, d, w.result)
         /\ \A a, b : Later(w, a, b) = Worker(a, w.alive, w.file, b, w.timedOut, w.killed, w.result)
         /\ \A a, b : Reaped(w, a, b) = Worker(a, w.alive, w.file, w.timer, w.timedOut, b, w.result)
         /\ \A a, b : Gone(w, a, b) = Worker(w.pc, a, w.file, w.timer, w.timedOut, b, w.result)
         /\ \A a, b : Overdue(w, a, b) = Worker(w.pc, w.alive, w.file, a, b, w.killed, w.result)
         /\ \A a : Goes(w, a) = Worker(a, w.alive, w.file, w.timer, w.timedOut, w.killed, w.result)
         /\ \A a : Lives(w, a) = Worker(w.pc, a, w.file, w.timer, w.timedOut, w.killed, w.result)
         /\ \A a : Wrote(w, a) = Worker(w.pc, w.alive, a, w.timer, w.timedOut, w.killed, w.result)
         /\ \A a : Stilled(w, a) = Worker(w.pc, w.alive, w.file, a, w.timedOut, w.killed, w.result)
         /\ \A a : Hit(w, a) = Worker(w.pc, w.alive, w.file, w.timer, w.timedOut, a, w.result)
<1>1. ASSUME NEW r PROVE F!Finished(w, r) = Worker("done", w.alive, w.file, w.timer, w.timedOut, w.killed, r)
  <2>1. [w EXCEPT !.pc = "done"] = Worker("done", w.alive, w.file, w.timer, w.timedOut, w.killed, w.result)
    BY DEF IsWorker, Worker
  <2>2. PICK v1 : v1 = Worker("done", w.alive, w.file, w.timer, w.timedOut, w.killed, w.result)
    OBVIOUS
  <2>3. [v1 EXCEPT !.result = r] = Worker("done", w.alive, w.file, w.timer, w.timedOut, w.killed, r)
    BY <2>2 DEF IsWorker, Worker
  <2>4. QED
    BY <2>1, <2>2, <2>3 DEF F!Finished
<1>2. ASSUME NEW a, NEW b, NEW c, NEW d PROVE Launched(w, a, b, c, d) = Worker(a, b, w.file, c, w.timedOut, d, w.result)
  <2>1. [w EXCEPT !.pc = a] = Worker(a, w.alive, w.file, w.timer, w.timedOut, w.killed, w.result)
    BY DEF IsWorker, Worker
  <2>2. PICK v1 : v1 = Worker(a, w.alive, w.file, w.timer, w.timedOut, w.killed, w.result)
    OBVIOUS
  <2>3. [v1 EXCEPT !.alive = b] = Worker(a, b, w.file, w.timer, w.timedOut, w.killed, w.result)
    BY <2>2 DEF IsWorker, Worker
  <2>4. PICK v2 : v2 = Worker(a, b, w.file, w.timer, w.timedOut, w.killed, w.result)
    OBVIOUS
  <2>5. [v2 EXCEPT !.timer = c] = Worker(a, b, w.file, c, w.timedOut, w.killed, w.result)
    BY <2>4 DEF IsWorker, Worker
  <2>6. PICK v3 : v3 = Worker(a, b, w.file, c, w.timedOut, w.killed, w.result)
    OBVIOUS
  <2>7. [v3 EXCEPT !.killed = d] = Worker(a, b, w.file, c, w.timedOut, d, w.result)
    BY <2>6 DEF IsWorker, Worker
  <2>8. QED
    BY <2>1, <2>2, <2>3, <2>4, <2>5, <2>6, <2>7 DEF Launched
<1>3. ASSUME NEW a, NEW b PROVE Later(w, a, b) = Worker(a, w.alive, w.file, b, w.timedOut, w.killed, w.result)
  <2>1. [w EXCEPT !.pc = a] = Worker(a, w.alive, w.file, w.timer, w.timedOut, w.killed, w.result)
    BY DEF IsWorker, Worker
  <2>2. PICK v1 : v1 = Worker(a, w.alive, w.file, w.timer, w.timedOut, w.killed, w.result)
    OBVIOUS
  <2>3. [v1 EXCEPT !.timer = b] = Worker(a, w.alive, w.file, b, w.timedOut, w.killed, w.result)
    BY <2>2 DEF IsWorker, Worker
  <2>4. QED
    BY <2>1, <2>2, <2>3 DEF Later
<1>4. ASSUME NEW a, NEW b PROVE Reaped(w, a, b) = Worker(a, w.alive, w.file, w.timer, w.timedOut, b, w.result)
  <2>1. [w EXCEPT !.pc = a] = Worker(a, w.alive, w.file, w.timer, w.timedOut, w.killed, w.result)
    BY DEF IsWorker, Worker
  <2>2. PICK v1 : v1 = Worker(a, w.alive, w.file, w.timer, w.timedOut, w.killed, w.result)
    OBVIOUS
  <2>3. [v1 EXCEPT !.killed = b] = Worker(a, w.alive, w.file, w.timer, w.timedOut, b, w.result)
    BY <2>2 DEF IsWorker, Worker
  <2>4. QED
    BY <2>1, <2>2, <2>3 DEF Reaped
<1>5. ASSUME NEW a, NEW b PROVE Gone(w, a, b) = Worker(w.pc, a, w.file, w.timer, w.timedOut, b, w.result)
  <2>1. [w EXCEPT !.alive = a] = Worker(w.pc, a, w.file, w.timer, w.timedOut, w.killed, w.result)
    BY DEF IsWorker, Worker
  <2>2. PICK v1 : v1 = Worker(w.pc, a, w.file, w.timer, w.timedOut, w.killed, w.result)
    OBVIOUS
  <2>3. [v1 EXCEPT !.killed = b] = Worker(w.pc, a, w.file, w.timer, w.timedOut, b, w.result)
    BY <2>2 DEF IsWorker, Worker
  <2>4. QED
    BY <2>1, <2>2, <2>3 DEF Gone
<1>6. ASSUME NEW a, NEW b PROVE Overdue(w, a, b) = Worker(w.pc, w.alive, w.file, a, b, w.killed, w.result)
  <2>1. [w EXCEPT !.timer = a] = Worker(w.pc, w.alive, w.file, a, w.timedOut, w.killed, w.result)
    BY DEF IsWorker, Worker
  <2>2. PICK v1 : v1 = Worker(w.pc, w.alive, w.file, a, w.timedOut, w.killed, w.result)
    OBVIOUS
  <2>3. [v1 EXCEPT !.timedOut = b] = Worker(w.pc, w.alive, w.file, a, b, w.killed, w.result)
    BY <2>2 DEF IsWorker, Worker
  <2>4. QED
    BY <2>1, <2>2, <2>3 DEF Overdue
<1>7. ASSUME NEW a PROVE Goes(w, a) = Worker(a, w.alive, w.file, w.timer, w.timedOut, w.killed, w.result)
  BY DEF Goes, IsWorker, Worker
<1>8. ASSUME NEW a PROVE Lives(w, a) = Worker(w.pc, a, w.file, w.timer, w.timedOut, w.killed, w.result)
  BY DEF Lives, IsWorker, Worker
<1>9. ASSUME NEW a PROVE Wrote(w, a) = Worker(w.pc, w.alive, a, w.timer, w.timedOut, w.killed, w.result)
  BY DEF Wrote, IsWorker, Worker
<1>10. ASSUME NEW a PROVE Stilled(w, a) = Worker(w.pc, w.alive, w.file, a, w.timedOut, w.killed, w.result)
  BY DEF Stilled, IsWorker, Worker
<1>11. ASSUME NEW a PROVE Hit(w, a) = Worker(w.pc, w.alive, w.file, w.timer, w.timedOut, a, w.result)
  BY DEF Hit, IsWorker, Worker
<1>12. QED
  BY <1>1, <1>2, <1>3, <1>4, <1>5, <1>6, <1>7, <1>8, <1>9, <1>10, <1>11

LEMMA NewWorker ==
  ASSUME NEW w, NEW q, WorkerSound(w, q), NEW control, NEW alive, NEW file, NEW timer, NEW timedOut, NEW killed, NEW result,
         \/ file = w.file
         \/ w.file.st # "valid" /\ IsFile(file) /\ Delivered(file, q),
         ~q.visible /\ control = "closing" => ~alive,
         control = "done" /\ ~F!isDroppedSlot(result) =>
           /\ file.st = "valid" /\ ~result.timedOut /\ result.verdict = file.verdict /\ result.text = file.text
           /\ ~q.visible => ~alive /\ ~timedOut /\ timer = "off",
         Counts(w) => control = "done" /\ result = w.result
  PROVE  LET x == Worker(control, alive, file, timer, timedOut, killed, result)
         IN  WorkerSound(x, q) /\ Keeps(w, x)
<1>1. PICK x : x = Worker(control, alive, file, timer, timedOut, killed, result)
  OBVIOUS
<1>2. /\ x.pc = control /\ x.alive = alive /\ x.file = file /\ x.timer = timer /\ x.timedOut = timedOut
      /\ x.killed = killed /\ x.result = result
      /\ x = [pc |-> x.pc, alive |-> x.alive, file |-> x.file, timer |-> x.timer,
              timedOut |-> x.timedOut, killed |-> x.killed, result |-> x.result]
  BY <1>1 DEF Worker
<1>3. IsFile(file) /\ Delivered(file, q)
  BY DEF WorkerSound, IsFile
<1>4. Counts(w) => w.file.st = "valid"
  BY DEF WorkerSound
<1>5. WorkerSound(x, q)
  BY <1>2, <1>3 DEF WorkerSound, Counts, IsFile
<1>6. Keeps(w, x)
  BY <1>2, <1>4 DEF Keeps, Counts
<1>7. QED
  BY <1>1, <1>5, <1>6

(* What a worker that the step does not wait for anybody else turns into.   *)
Moved(s) ==
  \E x : worker' = [worker EXCEPT ![s] = x] /\ WorkerSound(x, request) /\ Keeps(worker[s], x)

LEMMA Starts ==
  ASSUME NEW s, WorkerSound(worker[s], request), F!Start(s) \/ F!DebatePromptLost(s)
  PROVE  Moved(s)
<1>1. IsWorker(F!Idle) /\ F!Idle.pc = "idle" /\ WorkerSound(F!Idle, request) /\ worker[s].pc = "idle" /\ ~Counts(worker[s])
  BY IdleSound DEF WorkerSound, IsWorker, F!Start, F!DebatePromptLost, Counts
<1>2. PICK i : i = F!Idle
  OBVIOUS
<1>3. F!Finished(i, F!Thrown) = Worker("done", i.alive, i.file, i.timer, i.timedOut, i.killed, F!Thrown)
  BY <1>1, <1>2, Changes
<1>4. WorkerSound(F!Finished(i, F!Thrown), request)
  BY <1>1, <1>2, <1>3, Results, NewWorker DEF Counts
<1>5. PICK k : k = (aborted /\ ~request.visible)
  OBVIOUS
<1>6. Launched(i, "racing", TRUE, "armed", k) = Worker("racing", TRUE, i.file, "armed", i.timedOut, k, i.result)
  <2>1. \A a, b, c, d : Launched(i, a, b, c, d) = Worker(a, b, i.file, c, i.timedOut, d, i.result)
    BY <1>1, <1>2, Changes
  <2>2. QED
    BY <2>1, Zenon
<1>7. WorkerSound(Launched(i, "racing", TRUE, "armed", k), request)
  BY <1>1, <1>2, <1>6, NewWorker DEF Counts
<1>8. \/ worker' = [worker EXCEPT ![s] = Launched(i, "racing", TRUE, "armed", k)]
      \/ worker' = [worker EXCEPT ![s] = F!Finished(i, F!Thrown)]
  BY <1>2, <1>5 DEF F!Start, F!DebatePromptLost, F!Set, Launched
<1>9. QED
  BY <1>1, <1>4, <1>7, <1>8 DEF Moved, Keeps

(* The worker itself, and its end.                                          *)
LEMMA Lived ==
  ASSUME NEW s, WorkerSound(worker[s], request), F!VerdictEmit(s) \/ F!Scribble(s) \/ F!Exit(s)
  PROVE  Moved(s)
<1>0. PICK w, q : w = worker[s] /\ q = request
  OBVIOUS
<1>1. WorkerSound(w, q) /\ IsWorker(w) /\ IsFile(w.file)
  BY <1>0 DEF WorkerSound, IsWorker, IsFile
<1>2. CASE F!Exit(s)
  <2>0. PICK no : no = FALSE
    OBVIOUS
  <2>1. Gone(w, no, no) = Worker(w.pc, no, w.file, w.timer, w.timedOut, no, w.result)
    BY <1>1, Changes
  <2>2. WorkerSound(Gone(w, no, no), q) /\ Keeps(w, Gone(w, no, no))
    BY <1>1, <2>0, <2>1, NewWorker DEF WorkerSound, Delivered, Counts
  <2>3. worker' = [worker EXCEPT ![s] = Gone(w, no, no)]
    BY <1>0, <1>2, <2>0 DEF F!Exit, F!Set, Gone
  <2>4. QED
    BY <1>0, <2>2, <2>3 DEF Moved
<1>3. ASSUME NEW f, IsFile(f), w.file.st # "valid", Delivered(f, q),
             worker' = [worker EXCEPT ![s] = Wrote(w, f)]
      PROVE  Moved(s)
  <2>1. Wrote(w, f) = Worker(w.pc, w.alive, f, w.timer, w.timedOut, w.killed, w.result)
    BY <1>1, Changes
  <2>2. WorkerSound(Wrote(w, f), q) /\ Keeps(w, Wrote(w, f))
    BY <1>1, <1>3, <2>1, NewWorker DEF WorkerSound, Delivered, Counts
  <2>3. QED
    BY <1>0, <1>3, <2>2 DEF Moved
<1>4. CASE F!VerdictEmit(s)
  <2>1. PICK v \in SlotVotes(q.mode), t \in Texts(q.mode) :
          worker' = [worker EXCEPT ![s] = Wrote(w, [st |-> "valid", verdict |-> v, text |-> t])]
    BY <1>0, <1>4 DEF F!VerdictEmit, F!Set, Wrote
  <2>2. w.file.st # "valid"
    BY <1>0, <1>4 DEF F!VerdictEmit
  <2>3. PICK f : f = [st |-> "valid", verdict |-> v, text |-> t]
    OBVIOUS
  <2>4. IsFile(f) /\ Delivered(f, q)
    BY <2>3 DEF IsFile, Delivered
  <2>5. QED
    BY <1>3, <2>1, <2>2, <2>3, <2>4
<1>5. CASE F!Scribble(s)
  <2>1. PICK st \in {"torn", "bad"} : worker' = [worker EXCEPT ![s] = [w EXCEPT !.file.st = st]]
    BY <1>0, <1>5 DEF F!Scribble, F!Set
  <2>2. w.file.st # "valid"
    BY <1>0, <1>5 DEF F!Scribble
  <2>3. PICK f : f = [w.file EXCEPT !.st = st]
    OBVIOUS
  <2>4. PICK g : g = w.file
    OBVIOUS
  <2>5. f = [g EXCEPT !.st = st] /\ IsFile(g)
    BY <1>1, <2>3, <2>4
  <2>6. f = [st |-> st, verdict |-> g.verdict, text |-> g.text]
    BY <2>5 DEF IsFile
  <2>7. IsFile(f) /\ Delivered(f, q)
    BY <2>1, <2>6 DEF IsFile, Delivered
  <2>8. Wrote(w, f) = [w EXCEPT !.file.st = st]
    BY <2>3 DEF Wrote
  <2>9. QED
    BY <1>3, <2>1, <2>2, <2>7, <2>8
<1>6. QED
  BY <1>2, <1>4, <1>5

(* A worker that a visible executor is done with: its pane may live on.     *)
LEMMA Closed ==
  ASSUME NEW s, NEW w, NEW r, WorkerSound(w, request), WorkerSound(worker[s], request), ~Counts(worker[s]), request.visible,
         F!PaneClosed(s, F!Finished(w, r)),
         ~F!isDroppedSlot(r) => /\ w.file.st = "valid" /\ ~r.timedOut
                                /\ r.verdict = w.file.verdict /\ r.text = w.file.text
  PROVE  Moved(s)
<1>1. PICK q : q = request
  OBVIOUS
<1>2. IsWorker(w) /\ WorkerSound(w, q)
  BY <1>1 DEF WorkerSound, IsWorker
<1>3. PICK x : x = F!Finished(w, r)
  OBVIOUS
<1>4. x = Worker("done", w.alive, w.file, w.timer, w.timedOut, w.killed, r)
  BY <1>2, <1>3, Changes
<1>5. x.pc = "done" /\ x.file = w.file /\ x.result = r /\ IsWorker(x)
  BY <1>4 DEF Worker, IsWorker
<1>6. PICK alive : worker' = [worker EXCEPT ![s] = Lives(x, alive)]
  BY <1>3 DEF F!PaneClosed, F!Set, Lives
<1>7. Lives(x, alive) = Worker(x.pc, alive, x.file, x.timer, x.timedOut, x.killed, x.result)
  BY <1>5, Changes
<1>8. WorkerSound(x, q)
  BY <1>1, <1>2, <1>5 DEF WorkerSound, IsWorker, Counts
<1>9. WorkerSound(Lives(x, alive), q)
  BY <1>1, <1>5, <1>7, <1>8, NewWorker DEF Counts
<1>10. QED
  BY <1>1, <1>6, <1>9 DEF Moved, Keeps

(* One that a headless executor is done with.                               *)
LEMMA Ended ==
  ASSUME NEW s, NEW w, NEW r, WorkerSound(w, request), WorkerSound(worker[s], request), ~Counts(worker[s]),
         F!Set(s, F!Finished(w, r)),
         ~F!isDroppedSlot(r) => /\ w.file.st = "valid" /\ ~r.timedOut
                                /\ r.verdict = w.file.verdict /\ r.text = w.file.text
                                /\ ~request.visible => ~w.alive /\ ~w.timedOut /\ w.timer = "off"
  PROVE  Moved(s)
<1>1. PICK q : q = request
  OBVIOUS
<1>2. IsWorker(w) /\ WorkerSound(w, q)
  BY <1>1 DEF WorkerSound, IsWorker
<1>3. PICK x : x = F!Finished(w, r)
  OBVIOUS
<1>4. x = Worker("done", w.alive, w.file, w.timer, w.timedOut, w.killed, r)
  BY <1>2, <1>3, Changes
<1>5. /\ x.pc = "done" /\ x.file = w.file /\ x.result = r /\ IsWorker(x)
      /\ x.alive = w.alive /\ x.timedOut = w.timedOut /\ x.timer = w.timer
  BY <1>4 DEF Worker, IsWorker
<1>6. WorkerSound(x, q)
  BY <1>1, <1>2, <1>5 DEF WorkerSound, IsWorker, Counts
<1>7. QED
  BY <1>1, <1>3, <1>6 DEF Moved, Keeps, F!Set

(* The file is found, or cannot be read.                                    *)
LEMMA Seen ==
  ASSUME NEW s, WorkerSound(worker[s], request), F!VerdictSeen(s) \/ F!PollThrows(s)
  PROVE  Moved(s)
<1>0. PICK w, q : w = worker[s] /\ q = request
  OBVIOUS
<1>1. WorkerSound(w, q) /\ IsWorker(w) /\ w.pc = "racing" /\ ~Counts(w)
  BY <1>0 DEF WorkerSound, IsWorker, Counts, F!VerdictSeen, F!PollThrows
<1>2. CASE F!PollThrows(s)
  <2>1. IF q.visible THEN F!PaneClosed(s, F!Finished(w, F!Thrown)) ELSE F!Set(s, F!Finished(w, F!Thrown))
    BY <1>0, <1>2 DEF F!PollThrows
  <2>2. QED
    BY <1>0, <1>1, <2>1, Results, Closed, Ended
<1>3. CASE F!VerdictSeen(s) /\ q.visible
  <2>1. F!PaneClosed(s, F!Finished(w, F!toSlot(w)))
    BY <1>0, <1>3 DEF F!VerdictSeen
  <2>2. QED
    BY <1>0, <1>1, <1>3, <2>1, SlotOf, Closed
<1>4. CASE F!VerdictSeen(s) /\ ~q.visible
  <2>1. PICK t, g : g = "grace" /\ worker' = [worker EXCEPT ![s] = Later(w, g, t)]
    BY <1>0, <1>4 DEF F!VerdictSeen, F!Set, Later
  <2>2. Later(w, g, t) = Worker(g, w.alive, w.file, t, w.timedOut, w.killed, w.result)
    BY <1>1, Changes
  <2>3. WorkerSound(Later(w, g, t), q) /\ Keeps(w, Later(w, g, t))
    BY <1>1, <2>1, <2>2, NewWorker
  <2>4. QED
    BY <1>0, <2>1, <2>3 DEF Moved
<1>5. QED
  BY <1>2, <1>3, <1>4

(* The deadline.                                                            *)
LEMMA Late ==
  ASSUME NEW s, WorkerSound(worker[s], request), F!Timeout(s)
  PROVE  Moved(s)
<1>0. PICK w, q, off, yes : w = worker[s] /\ q = request /\ off = "off" /\ yes = TRUE
  OBVIOUS
<1>1. WorkerSound(w, q) /\ IsWorker(w) /\ w.timer # off /\ (q.visible => ~Counts(w))
  BY <1>0 DEF WorkerSound, IsWorker, Counts, F!Timeout
<1>2. PICK x : x = Overdue(w, off, yes)
  OBVIOUS
<1>3. x = Worker(w.pc, w.alive, w.file, off, yes, w.killed, w.result)
  BY <1>1, <1>2, Changes
<1>4. /\ x.pc = w.pc /\ x.alive = w.alive /\ x.file = w.file /\ x.timer = off
      /\ x.timedOut = yes /\ x.result = w.result /\ IsWorker(x)
  BY <1>3 DEF Worker, IsWorker
<1>5. ~Counts(w)
  BY <1>0, <1>1 DEF WorkerSound
<1>6. WorkerSound(x, q) /\ Keeps(w, x)
  BY <1>1, <1>3, <1>5, NewWorker DEF WorkerSound, Delivered, Counts
<1>7. CASE q.visible
  <2>1. F!PaneClosed(s, F!Finished(x, [F!Nothing EXCEPT !.timedOut = TRUE]))
    BY <1>0, <1>2, <1>7 DEF F!Timeout, Overdue
  <2>2. QED
    BY <1>0, <1>1, <1>6, <1>7, <2>1, Results, Closed
<1>8. CASE ~q.visible
  <2>1. worker' = [worker EXCEPT ![s] = Hit(x, w.alive)]
    <3>1. worker' = [worker EXCEPT ![s] = Hit(x, x.alive)]
      BY <1>0, <1>2, <1>8 DEF F!Timeout, F!Set, Hit, Overdue
    <3>2. QED
      BY <3>1, <1>4
  <2>2. Hit(x, w.alive) = Worker(x.pc, x.alive, x.file, x.timer, x.timedOut, w.alive, x.result)
    BY <1>4, Changes
  <2>3. WorkerSound(Hit(x, w.alive), q) /\ Keeps(x, Hit(x, w.alive))
    BY <1>6, <2>2, NewWorker DEF WorkerSound, Delivered, Counts
  <2>4. Keeps(w, Hit(x, w.alive))
    BY <1>6, <2>3 DEF Keeps
  <2>5. QED
    BY <1>0, <2>1, <2>3, <2>4 DEF Moved
<1>9. QED
  BY <1>7, <1>8

(* The worker is gone, or made to go; the file is read once more.           *)
LEMMA Waited ==
  ASSUME NEW s, WorkerSound(worker[s], request), F!SeeExit(s) \/ F!GraceOver(s) \/ F!Close(s)
  PROVE  Moved(s)
<1>0. PICK w, q : w = worker[s] /\ q = request
  OBVIOUS
<1>1. WorkerSound(w, q) /\ IsWorker(w) /\ w.pc # "done" /\ ~Counts(w)
  BY <1>0 DEF WorkerSound, IsWorker, Counts, F!SeeExit, F!GraceOver, F!Close
<1>2. CASE F!SeeExit(s)
  <2>1. PICK c : c = "closing" /\ worker' = [worker EXCEPT ![s] = Goes(w, c)] /\ ~w.alive
    BY <1>0, <1>2 DEF F!SeeExit, F!Set, Goes
  <2>2. Goes(w, c) = Worker(c, w.alive, w.file, w.timer, w.timedOut, w.killed, w.result)
    BY <1>1, Changes
  <2>3. WorkerSound(Goes(w, c), q) /\ Keeps(w, Goes(w, c))
    BY <1>1, <2>1, <2>2, NewWorker
  <2>4. QED
    BY <1>0, <2>1, <2>3 DEF Moved
<1>3. CASE F!GraceOver(s)
  <2>1. PICK c, k : c = "reaping" /\ k = TRUE /\ worker' = [worker EXCEPT ![s] = Reaped(w, c, k)]
    BY <1>0, <1>3 DEF F!GraceOver, F!Set, Reaped
  <2>2. Reaped(w, c, k) = Worker(c, w.alive, w.file, w.timer, w.timedOut, k, w.result)
    BY <1>1, Changes
  <2>3. WorkerSound(Reaped(w, c, k), q) /\ Keeps(w, Reaped(w, c, k))
    BY <1>1, <2>1, <2>2, NewWorker
  <2>4. QED
    BY <1>0, <2>1, <2>3 DEF Moved
<1>4. CASE F!Close(s)
  <2>1. PICK off : off = "off"
    OBVIOUS
  <2>2. PICK x : x = Stilled(w, off)
    OBVIOUS
  <2>3. x = Worker(w.pc, w.alive, w.file, off, w.timedOut, w.killed, w.result)
    BY <1>1, <2>2, Changes
  <2>4. /\ x.pc = w.pc /\ x.alive = w.alive /\ x.file = w.file /\ x.timer = off
        /\ x.timedOut = w.timedOut /\ x.result = w.result
    BY <2>3 DEF Worker
  <2>5. WorkerSound(x, q)
    BY <1>1, <2>3, NewWorker DEF WorkerSound, Delivered, Counts
  <2>6. ~q.visible => ~x.alive
    BY <1>0, <1>1, <1>4, <2>4 DEF WorkerSound, F!Close
  <2>7. F!Set(s, F!Finished(x, F!toSlot(x))) \/ F!Set(s, F!Finished(x, F!Thrown))
    BY <1>0, <1>4, <2>1, <2>2 DEF F!Close, Stilled
  <2>8. QED
    BY <1>0, <1>1, <2>1, <2>4, <2>5, <2>6, <2>7, Results, SlotOf, Ended
<1>5. QED
  BY <1>2, <1>3, <1>4

(* Whatever a worker or its executor does.                                  *)
LEMMA WorkerMoves ==
  ASSUME NEW s, WorkerStep(s), WorkerSound(worker[s], request)
  PROVE  Moved(s) /\ F!OthersKept
<1>1. F!OthersKept
  BY DEF WorkerStep, F!Executor, F!Start, F!VerdictSeen, F!Timeout, F!SeeExit, F!GraceOver, F!Close,
         F!VerdictEmit, F!Scribble, F!Exit, F!PollThrows, F!DebatePromptLost
<1>2. Moved(s)
  BY Starts, Lived, Seen, Late, Waited DEF WorkerStep, F!Executor
<1>3. QED
  BY <1>1, <1>2

(* The run's abort closes the panes, or has the children killed.            *)
LEMMA Aborted ==
  ASSUME F!Abort, \A s \in DOMAIN worker : WorkerSound(worker[s], request)
  PROVE  /\ DOMAIN worker' = DOMAIN worker
         /\ \A s \in DOMAIN worker : WorkerSound(worker'[s], request) /\ Keeps(worker[s], worker'[s])
<1>1. SUFFICES ASSUME NEW s \in DOMAIN worker
               PROVE  WorkerSound(worker'[s], request) /\ Keeps(worker[s], worker'[s])
  BY DEF F!Abort, F!Slots
<1>2. PICK w, q, no : w = worker[s] /\ q = request /\ no = FALSE
  OBVIOUS
<1>3. WorkerSound(w, q) /\ IsWorker(w)
  BY <1>2 DEF WorkerSound, IsWorker
<1>4. CASE q.visible /\ w.pc = "racing"
  <2>1. worker'[s] = F!Finished(Lives(w, no), F!Nothing)
    BY <1>2, <1>4 DEF F!Abort, F!Slots, Lives
  <2>2. PICK x : x = Lives(w, no)
    OBVIOUS
  <2>3. x = Worker(w.pc, no, w.file, w.timer, w.timedOut, w.killed, w.result)
    BY <1>3, <2>2, Changes
  <2>4. WorkerSound(x, q) /\ IsWorker(x) /\ x.pc = w.pc
    BY <1>2, <1>3, <1>4, <2>3, NewWorker DEF WorkerSound, Delivered, Counts, Worker, IsWorker
  <2>5. F!Finished(x, F!Nothing) = Worker("done", x.alive, x.file, x.timer, x.timedOut, x.killed, F!Nothing)
    BY <2>4, Changes
  <2>6. WorkerSound(F!Finished(x, F!Nothing), q)
    BY <1>4, <2>4, <2>5, Results, NewWorker DEF Counts
  <2>7. QED
    BY <1>2, <1>4, <2>1, <2>2, <2>6 DEF Keeps, Counts
<1>5. CASE ~(q.visible /\ w.pc = "racing")
  <2>1. PICK k : worker'[s] = Hit(w, k)
    BY <1>2, <1>5 DEF F!Abort, F!Slots, Hit
  <2>2. Hit(w, k) = Worker(w.pc, w.alive, w.file, w.timer, w.timedOut, k, w.result)
    BY <1>3, Changes
  <2>3. WorkerSound(Hit(w, k), q) /\ Keeps(w, Hit(w, k))
    BY <1>3, <2>2, NewWorker DEF WorkerSound, Delivered, Counts
  <2>4. QED
    BY <1>2, <2>1, <2>3
<1>6. QED
  BY <1>4, <1>5

(* The rounds that are over: a slot that is not in this one dropped out of  *)
(* the last it was in.                                                      *)
DroppedOut(rounds, slots) ==
  \A s \in slots : \E i \in DOMAIN rounds :
    /\ s \in DOMAIN rounds[i] /\ F!isDroppedSlot(rounds[i][s])
    /\ \A j \in DOMAIN rounds : s \in DOMAIN rounds[j] => j <= i

(* What a debate makes of its rounds: what each slot said last, nothing     *)
(* that counts when it dropped out.                                         *)
LEMMA Collapsed ==
  ASSUME NEW rounds, IsSeq(rounds), NEW d, DOMAIN d = active, active \subseteq F!Slots,
         DroppedOut(rounds, F!Slots \ active)
  PROVE  LET c == F!collapseRounds(Append(rounds, d))
         IN  /\ \A s \in active : c[s] = d[s]
             /\ \A s \in F!Slots \ active : F!isDroppedSlot(c[s])
<1>1. PICK r : r = Append(rounds, d)
  OBVIOUS
<1>2. PICK n : n = Len(rounds)
  OBVIOUS
<1>3. /\ n \in Nat /\ DOMAIN rounds = 1 .. n /\ DOMAIN r = 1 .. n + 1 /\ r[n + 1] = d
      /\ \A i \in 1 .. n : r[i] = rounds[i]
  BY <1>1, <1>2, Appended
<1>4. ASSUME NEW s \in active PROVE F!collapseRounds(r)[s] = d[s]
  <2> DEFINE N == {i \in DOMAIN r : s \in DOMAIN r[i]}
  <2>1. N \subseteq Nat /\ n + 1 \in N /\ \A i \in N : i <= n + 1
    BY <1>3
  <2>2. F!Max(N) = n + 1
    <3> HIDE DEF N
    <3>1. QED
      BY <2>1, Greatest
  <2>3. F!collapseRounds(r)[s] = r[F!Max(N)][s]
    BY DEF F!collapseRounds
  <2>4. QED
    BY <1>3, <2>2, <2>3
<1>5. ASSUME NEW s \in F!Slots \ active PROVE F!isDroppedSlot(F!collapseRounds(r)[s])
  <2>1. PICK i \in 1 .. n : /\ s \in DOMAIN rounds[i] /\ F!isDroppedSlot(rounds[i][s])
                            /\ \A j \in 1 .. n : s \in DOMAIN rounds[j] => j <= i
    BY <1>3 DEF DroppedOut
  <2> DEFINE N == {j \in DOMAIN r : s \in DOMAIN r[j]}
  <2>2. N \subseteq Nat /\ i \in N /\ \A j \in N : j <= i
    BY <1>3, <2>1
  <2>3. F!Max(N) = i
    <3> HIDE DEF N
    <3>1. QED
      BY <2>2, Greatest
  <2>4. F!collapseRounds(r)[s] = r[F!Max(N)][s]
    BY DEF F!collapseRounds
  <2>5. QED
    BY <1>3, <2>1, <2>3, <2>4
<1>6. QED
  BY <1>1, <1>4, <1>5

(* The merged results.                                                      *)
Outcome(verdict, ran, discarded, timedOut, agreement, levels) ==
  [verdict |-> verdict, ran |-> ran, discarded |-> discarded, timedOut |-> timedOut,
   agreement |-> agreement, levels |-> levels]
IsOutcome(m) == m = Outcome(m.verdict, m.ran, m.discarded, m.timedOut, m.agreement, m.levels)

Degraded(m, a, b, c) == [m EXCEPT !.ran = a, !.discarded = b, !.timedOut = c]
Agreed(m, a) == [m EXCEPT !.agreement = a]
Levelled(m, a) == [m EXCEPT !.levels = a]

LEMMA MergedIs ==
  ASSUME NEW v
  PROVE  LET m == F!Merged(v) IN IsOutcome(m) /\ m.verdict = v
  BY DEF F!Merged, IsOutcome, Outcome

LEMMA Outcomes ==
  ASSUME NEW m, IsOutcome(m)
  PROVE  /\ \A a, b, c : Degraded(m, a, b, c) = Outcome(m.verdict, a, b, c, m.agreement, m.levels)
         /\ \A a : Agreed(m, a) = Outcome(m.verdict, m.ran, m.discarded, m.timedOut, a, m.levels)
         /\ \A a : Levelled(m, a) = Outcome(m.verdict, m.ran, m.discarded, m.timedOut, m.agreement, a)
<1>1. ASSUME NEW a, NEW b, NEW c PROVE Degraded(m, a, b, c) = Outcome(m.verdict, a, b, c, m.agreement, m.levels)
  <2>1. [m EXCEPT !.ran = a] = Outcome(m.verdict, a, m.discarded, m.timedOut, m.agreement, m.levels)
    BY DEF IsOutcome, Outcome
  <2>2. PICK v : v = Outcome(m.verdict, a, m.discarded, m.timedOut, m.agreement, m.levels)
    OBVIOUS
  <2>3. [v EXCEPT !.discarded = b] = Outcome(m.verdict, a, b, m.timedOut, m.agreement, m.levels)
    BY <2>2 DEF IsOutcome, Outcome
  <2>4. PICK x : x = Outcome(m.verdict, a, b, m.timedOut, m.agreement, m.levels)
    OBVIOUS
  <2>5. [x EXCEPT !.timedOut = c] = Outcome(m.verdict, a, b, c, m.agreement, m.levels)
    BY <2>4 DEF IsOutcome, Outcome
  <2>6. QED
    BY <2>1, <2>2, <2>3, <2>4, <2>5 DEF Degraded
<1>2. ASSUME NEW a PROVE Agreed(m, a) = Outcome(m.verdict, m.ran, m.discarded, m.timedOut, a, m.levels)
  BY DEF Agreed, IsOutcome, Outcome
<1>3. ASSUME NEW a PROVE Levelled(m, a) = Outcome(m.verdict, m.ran, m.discarded, m.timedOut, m.agreement, a)
  BY DEF Levelled, IsOutcome, Outcome
<1>4. QED
  BY <1>1, <1>2, <1>3

(* What a merge passes on, said of the set of slots heard and their results *)
(* r: the five modes that promise something.                                *)
Said(heard, r, v) == {s \in heard : r[s].verdict = v}
Walks(levels, tasks) ==
  \A t \in F!ToSet(tasks) : \E i \in DOMAIN levels :
    /\ t.id \in levels[i] /\ \A j \in DOMAIN levels \ {i} : t.id \notin levels[j]
    /\ \A d \in t.dependsOn : \E j \in 1 .. (i - 1) : d \in levels[j]
MergeEarned(m, heard, r) ==
  /\ IsOutcome(m) /\ m.verdict # "none"
  /\ m.verdict = "PASS" =>
       /\ request.mode \in {"veto", "single"} => Said(heard, r, "PASS") = heard
       /\ request.mode = "sample" =>
            \A v \in {"FAIL", "NEEDS_MORE"} : Cardinality(Said(heard, r, "PASS")) > Cardinality(Said(heard, r, v))
       /\ request.mode = "debate" => \A x \in m.agreement, s \in heard : x \in r[s].text
       /\ request.mode = "collaborate" => \E s \in heard : Walks(m.levels, r[s].text)

LEMMA SlotCardinality ==
  ASSUME NEW N
  PROVE  F!Cardinality(N) = Cardinality(N)
  BY DEF F!Cardinality, Cardinality

LEMMA SampleEarned ==
  ASSUME NEW heard, IsFiniteSet(heard), NEW r, request.mode = "sample"
  PROVE  MergeEarned(F!mergeSample(heard, r), heard, r)
<1> DEFINE V == {"PASS", "FAIL", "NEEDS_MORE"}
           given(v) == Cardinality(Said(heard, r, v))
           top == {v \in V : \A x \in V : given(x) <= given(v)}
<1>1. \A v \in V : given(v) \in Nat
  BY FS_Subset, FS_CardinalityType DEF Said
<1>2. \A v : F!Cardinality({s \in heard : r[s].verdict = v}) = given(v)
  BY SlotCardinality DEF Said
<1>3. F!mergeSample(heard, r)
        = F!Merged(IF Cardinality(top) = 1 THEN CHOOSE v \in top : TRUE ELSE "NEEDS_MORE")
  <2> DEFINE counted(v) == F!Cardinality({s \in heard : r[s].verdict = v})
             best == {v \in V : \A x \in V : counted(x) <= counted(v)}
  <2>1. F!mergeSample(heard, r) = F!Merged(IF F!Cardinality(best) = 1 THEN CHOOSE v \in best : TRUE ELSE "NEEDS_MORE")
    BY Zenon DEF F!mergeSample
  <2>2. best = top
    <3>1. \A v : counted(v) = given(v)
      BY <1>2
    <3> HIDE DEF counted, given
    <3>2. QED
      BY <3>1
  <2>3. F!Cardinality(best) = Cardinality(best)
    BY SlotCardinality, Zenon
  <2>4. QED
    BY <2>1, <2>2, <2>3, Zenon
<1>4. PICK v : v = IF Cardinality(top) = 1 THEN CHOOSE x \in top : TRUE ELSE "NEEDS_MORE"
  OBVIOUS
<1>5. F!mergeSample(heard, r) = F!Merged(v)
  BY <1>3, <1>4, Zenon
<1>6. top \subseteq V
  OBVIOUS
<1>7. CASE Cardinality(top) = 1
  <2>1. IsFiniteSet(top)
    <3>1. V = (({} \cup {"PASS"}) \cup {"FAIL"}) \cup {"NEEDS_MORE"}
      OBVIOUS
    <3>2. IsFiniteSet(V)
      <4>1. \A a, b, c : IsFiniteSet((({} \cup {a}) \cup {b}) \cup {c})
        BY FS_EmptySet, FS_AddElement
      <4>2. IsFiniteSet((({} \cup {"PASS"}) \cup {"FAIL"}) \cup {"NEEDS_MORE"})
        BY <4>1, Zenon
      <4>3. QED
        BY <3>1, <4>2, Zenon
    <3>3. QED
      BY <1>6, <3>2, FS_Subset
  <2>2. PICK x : top = {x}
    <3> HIDE DEF top
    <3>1. QED
      BY <1>7, <2>1, FS_Singleton
  <2>3. v = x
    BY <1>4, <1>7, <2>2
  <2>4. x \in V /\ \A y \in V : given(y) <= given(x) /\ (y # x => ~\A z \in V : given(z) <= given(y))
    BY <2>2
  <2>5. x = "PASS" => \A y \in {"FAIL", "NEEDS_MORE"} : given("PASS") > given(y)
    <3>1. PICK f : f = [y \in V |-> given(y)]
      OBVIOUS
    <3>2. \A y \in V : f[y] = given(y) /\ f[y] \in Nat
      BY <1>1, <3>1
    <3> HIDE DEF given
    <3>3. \A y \in V : f[y] <= f[x] /\ (y # x => ~\A z \in V : f[z] <= f[y])
      BY <2>4, <3>2
    <3>4. x = "PASS" => \A y \in {"FAIL", "NEEDS_MORE"} : f["PASS"] > f[y]
      BY <3>2, <3>3
    <3>5. QED
      BY <3>2, <3>4
  <2>6. QED
    BY <1>5, <2>3, <2>4, <2>5, MergedIs DEF MergeEarned
<1>8. CASE Cardinality(top) # 1
  BY <1>4, <1>5, <1>8, MergedIs DEF MergeEarned
<1>9. QED
  BY <1>7, <1>8

LEMMA OthersEarned ==
  ASSUME NEW heard, NEW ss, NEW r, request.mode \in F!Modes \ {"sample", "collaborate"},
         \A s \in heard : r[s].verdict \in {"PASS", "FAIL", "NEEDS_MORE"},
         request.mode = "single" => heard = {"A"}
  PROVE  MergeEarned(F!mergeForMode(heard, ss, r), heard, r)
<1>1. CASE request.mode = "single"
  BY <1>1, MergedIs DEF F!mergeForMode, F!runAgent, MergeEarned, Said
<1>2. CASE request.mode = "opinion"
  BY <1>2, MergedIs DEF F!mergeForMode, MergeEarned
<1>3. CASE request.mode = "fuse"
  <2>1. PICK v \in {"PASS", "FAIL"} : F!mergeForMode(heard, ss, r) = F!Merged(v)
    BY <1>3 DEF F!mergeForMode, F!mergeFuse, F!Pass
  <2>2. QED
    BY <1>3, <2>1, MergedIs DEF MergeEarned
<1>4. CASE request.mode = "adversarial"
  <2>1. PICK v \in {"PASS", "FAIL"} : F!mergeForMode(heard, ss, r) = F!Merged(v)
    BY <1>4 DEF F!mergeForMode, F!mergeAdversarial, F!Pass
  <2>2. QED
    BY <1>4, <2>1, MergedIs DEF MergeEarned
<1>5. CASE request.mode = "veto"
  <2>1. PICK v : /\ F!mergeForMode(heard, ss, r) = F!Merged(v) /\ v \in {"PASS", "FAIL", "NEEDS_MORE"}
                 /\ v = "PASS" => \A s \in heard : r[s].verdict \notin {"FAIL", "NEEDS_MORE"}
    BY <1>5 DEF F!mergeForMode, F!mergeVeto
  <2>2. v = "PASS" => Said(heard, r, "PASS") = heard
    BY <2>1 DEF Said
  <2>3. QED
    BY <1>5, <2>1, <2>2, MergedIs DEF MergeEarned
<1>6. CASE request.mode = "debate"
  <2>1. PICK p : p = F!Merged("PASS")
    OBVIOUS
  <2>2. PICK a : a = {x \in UNION {r[s].text : s \in heard} : \A s \in heard : x \in r[s].text}
    OBVIOUS
  <2>3. F!mergeForMode(heard, ss, r) = Agreed(p, a)
    BY <1>6, <2>1, <2>2 DEF F!mergeForMode, F!mergeDebate, Agreed
  <2>4. IsOutcome(p) /\ p.verdict = "PASS"
    BY <2>1, MergedIs
  <2>5. PICK m : m = Agreed(p, a)
    OBVIOUS
  <2>6. m = Outcome(p.verdict, p.ran, p.discarded, p.timedOut, a, p.levels)
    BY <2>4, <2>5, Outcomes
  <2>7. IsOutcome(m) /\ m.verdict = "PASS" /\ m.agreement = a
    BY <2>4, <2>6 DEF IsOutcome, Outcome
  <2>8. QED
    BY <1>6, <2>2, <2>3, <2>5, <2>7 DEF MergeEarned
<1>7. QED
  BY <1>1, <1>2, <1>3, <1>4, <1>5, <1>6 DEF F!Modes

(* Levels: where nothing waits in a ring, every one can be put in the level *)
(* after the last of those it depends on.                                   *)
Ranked(l, D, dep) ==
  \A id \in D : /\ \A d \in dep[id] : l[d] < l[id]
                /\ l[id] = 1 \/ \E d \in dep[id] : l[d] = l[id] - 1
Layers(D, dep) ==
  {l \in [D -> 1 .. Cardinality(D)] : (\A id \in D : dep[id] \subseteq D) /\ Ranked(l, D, dep)}

LEMMA OneMore ==
  ASSUME NEW D, IsFiniteSet(D), NEW dep, NEW l \in Layers(D, dep), NEW id, id \notin D, dep[id] \subseteq D
  PROVE  Layers(D \cup {id}, dep) # {}
<1>1. PICK n : n = Cardinality(D)
  OBVIOUS
<1>2. n \in Nat /\ Cardinality(D \cup {id}) = n + 1
  BY <1>1, FS_AddElement, FS_CardinalityType
<1>3. /\ l \in [D -> 1 .. n] /\ \A x \in D : dep[x] \subseteq D
      /\ \A x \in D : /\ \A d \in dep[x] : l[d] < l[x]
                      /\ l[x] = 1 \/ \E d \in dep[x] : l[d] = l[x] - 1
  BY <1>1 DEF Layers, Ranked
<1>4. PICK N : N = {k \in 1 .. n + 1 : \A d \in dep[id] : l[d] < k}
  OBVIOUS
<1>5. N \subseteq Nat /\ n + 1 \in N
  BY <1>2, <1>3, <1>4
<1>6. PICK h \in N : \A k \in N : h <= k
  BY <1>5, Least
<1>7. h \in 1 .. n + 1 /\ \A d \in dep[id] : l[d] < h
  BY <1>4
<1>8. h = 1 \/ \E d \in dep[id] : l[d] = h - 1
  <2>1. SUFFICES ASSUME h # 1 PROVE \E d \in dep[id] : l[d] = h - 1
    OBVIOUS
  <2>2. h - 1 \in 1 .. n + 1 /\ h - 1 \notin N
    BY <1>2, <1>5, <1>6, <1>7, <2>1
  <2>3. PICK d \in dep[id] : ~(l[d] < h - 1)
    BY <1>4, <2>2
  <2>4. l[d] \in 1 .. n /\ l[d] < h
    BY <1>3, <1>7
  <2>5. QED
    BY <1>2, <1>7, <2>3, <2>4
<1>9. PICK m : m = [x \in D \cup {id} |-> IF x = id THEN h ELSE l[x]]
  OBVIOUS
<1>10. m[id] = h /\ \A x \in D : m[x] = l[x] /\ m[x] \in 1 .. n
  BY <1>3, <1>9
<1>11. m \in [D \cup {id} -> 1 .. n + 1]
  BY <1>2, <1>3, <1>7, <1>9
<1>12. \A x \in D \cup {id} : dep[x] \subseteq D
  BY <1>3
<1>13. Ranked(m, D \cup {id}, dep)
  BY <1>3, <1>7, <1>8, <1>10, <1>12 DEF Ranked
<1>14. QED
  BY <1>2, <1>11, <1>12, <1>13 DEF Layers

LEMMA LayersExist ==
  ASSUME NEW ids, IsFiniteSet(ids), NEW dep, \A id \in ids : dep[id] \subseteq ids,
         \A C \in SUBSET ids : C # {} => \E id \in C : dep[id] \cap C = {}
  PROVE  Layers(ids, dep) # {}
<1>1. \A D \in SUBSET ids : IsFiniteSet(D) /\ Cardinality(D) \in Nat /\ Cardinality(D) <= Cardinality(ids)
  BY FS_Subset, FS_CardinalityType
<1>2. Cardinality(ids) \in Nat
  BY FS_CardinalityType
<1>3. Layers({}, dep) # {}
  <2>1. [x \in {} |-> x] \in [{} -> 1 .. Cardinality({})]
    OBVIOUS
  <2>2. QED
    BY <2>1 DEF Layers, Ranked
<1>4. PICK N : N = {Cardinality(ids) - Cardinality(D) : D \in {D \in SUBSET ids : Layers(D, dep) # {}}}
  OBVIOUS
<1>5. N \subseteq Nat /\ N # {}
  BY <1>1, <1>2, <1>3, <1>4
<1>6. PICK k \in N : \A j \in N : k <= j
  BY <1>5, Least
<1>7. PICK D \in SUBSET ids : Layers(D, dep) # {} /\ k = Cardinality(ids) - Cardinality(D)
  BY <1>4
<1>8. CASE D # ids
  <2>1. PICK id \in ids \ D : dep[id] \cap (ids \ D) = {}
    BY <1>8
  <2>2. dep[id] \subseteq D
    BY <2>1
  <2>3. PICK E \in SUBSET ids : E = D \cup {id}
    BY <2>1
  <2>4. Layers(E, dep) # {}
    BY <1>1, <1>7, <2>1, <2>2, <2>3, OneMore
  <2>5. Cardinality(E) = Cardinality(D) + 1
    BY <1>1, <2>1, <2>3, FS_AddElement
  <2>6. Cardinality(ids) - Cardinality(E) \in N
    BY <1>4, <2>4
  <2>7. QED
    BY <1>1, <1>2, <1>6, <1>7, <2>5, <2>6
<1>9. QED
  BY <1>7, <1>8

(* A valid plan has its levels, and they walk it.                           *)
Ids(tasks) == {t.id : t \in F!ToSet(tasks)}
Levels(tasks) ==
  {l \in [Ids(tasks) -> 1 .. Len(tasks)] : \A t \in F!ToSet(tasks) :
     /\ \A d \in t.dependsOn : l[d] < l[t.id]
     /\ l[t.id] = 1 \/ \E d \in t.dependsOn : l[d] = l[t.id] - 1}

LEMMA PlanIds ==
  ASSUME NEW tasks, IsSeq(tasks), F!Cardinality(Ids(tasks)) = Len(tasks)
  PROVE  /\ IsFiniteSet(Ids(tasks)) /\ Cardinality(Ids(tasks)) = Len(tasks)
         /\ \A t, u \in F!ToSet(tasks) : t.id = u.id => t = u
<1>1. PICK n : n = Len(tasks)
  OBVIOUS
<1>2. n \in Nat /\ DOMAIN tasks = 1 .. n /\ F!ToSet(tasks) = {tasks[i] : i \in 1 .. n}
  BY <1>1, Appended DEF F!ToSet
<1>3. Cardinality(Ids(tasks)) = n
  BY <1>1, SlotCardinality
<1>4. IsFiniteSet(1 .. n) /\ Cardinality(1 .. n) = n
  BY <1>2, FS_Interval
<1>5. PICK f : f = [i \in 1 .. n |-> tasks[i].id]
  OBVIOUS
<1>6. Ids(tasks) = {tasks[i].id : i \in 1 .. n}
  BY <1>2 DEF Ids
<1>7. f \in Surjection(1 .. n, Ids(tasks))
  BY <1>5, <1>6 DEF Surjection
<1>8. IsFiniteSet(Ids(tasks)) /\ f \in Injection(1 .. n, Ids(tasks))
  BY <1>3, <1>4, <1>7, FS_Surjection
<1>9. \A i, j \in 1 .. n : tasks[i].id = tasks[j].id => i = j
  BY <1>5, <1>8 DEF Injection, IsInjective
<1>10. QED
  BY <1>1, <1>2, <1>3, <1>8, <1>9

LEMMA PlanHasLevels ==
  ASSUME NEW tasks, IsSeq(tasks), NEW names, F!validateCollaboratePlan(tasks, names)
  PROVE  Levels(tasks) # {}
<1>1. /\ F!Cardinality(Ids(tasks)) = Len(tasks)
      /\ \A t \in F!ToSet(tasks) : t.dependsOn \subseteq Ids(tasks) \ {t.id}
      /\ ~F!findCycle(tasks)
  BY Zenon DEF F!validateCollaboratePlan, Ids
<1>2. PICK dep : dep = [id \in Ids(tasks) |-> (CHOOSE t \in F!ToSet(tasks) : t.id = id).dependsOn \ {id}]
  OBVIOUS
<1>3. \A t \in F!ToSet(tasks) : t.id \in Ids(tasks) /\ dep[t.id] = t.dependsOn
  <2>1. SUFFICES ASSUME NEW t \in F!ToSet(tasks) PROVE t.id \in Ids(tasks) /\ dep[t.id] = t.dependsOn
    OBVIOUS
  <2>2. PICK c : c = CHOOSE u \in F!ToSet(tasks) : u.id = t.id
    OBVIOUS
  <2>3. c \in F!ToSet(tasks) /\ c.id = t.id
    BY <2>1, <2>2
  <2>4. c = t
    BY <1>1, <2>3, PlanIds
  <2>5. t.id \in Ids(tasks)
    BY DEF Ids
  <2>6. dep[t.id] = c.dependsOn \ {t.id}
    BY <1>2, <2>2, <2>5
  <2>7. QED
    BY <1>1, <2>4, <2>5, <2>6
<1>4. \A id \in Ids(tasks) : dep[id] \subseteq Ids(tasks)
  BY <1>1, <1>3 DEF Ids
<1>5. \A C \in SUBSET Ids(tasks) : C # {} => \E id \in C : dep[id] \cap C = {}
  <2>1. SUFFICES ASSUME NEW C \in SUBSET Ids(tasks), C # {}, \A id \in C : dep[id] \cap C # {}
                 PROVE  FALSE
    OBVIOUS
  <2>2. \A id \in C : ((CHOOSE t \in F!ToSet(tasks) : t.id = id).dependsOn \ {id}) \cap C # {}
    BY <1>2, <2>1
  <2>3. F!findCycle(tasks)
    BY <2>1, <2>2 DEF F!findCycle, Ids
  <2>4. QED
    BY <1>1, <2>3
<1>6. PICK l : l \in Layers(Ids(tasks), dep)
  BY <1>1, <1>4, <1>5, PlanIds, LayersExist
<1>7. l \in [Ids(tasks) -> 1 .. Len(tasks)]
  BY <1>1, <1>6, PlanIds DEF Layers
<1>8. Ranked(l, Ids(tasks), dep)
  BY <1>6 DEF Layers
<1>9. l \in Levels(tasks)
  BY <1>3, <1>7, <1>8 DEF Ranked, Levels
<1>10. QED
  BY <1>9

LEMMA PlanWalks ==
  ASSUME NEW tasks, IsSeq(tasks), NEW names, F!validateCollaboratePlan(tasks, names)
  PROVE  Walks(F!levelsOf(tasks), tasks)
<1>1. PICK level : level = CHOOSE l \in Levels(tasks) : TRUE
  OBVIOUS
<1>2. level \in Levels(tasks)
  BY <1>1, PlanHasLevels
<1>3. F!levelsOf(tasks) = [n \in {level[id] : id \in Ids(tasks)} |-> {id \in Ids(tasks) : level[id] = n}]
  BY <1>1, Zenon DEF F!levelsOf, Levels, Ids
<1>4. PICK levels : levels = F!levelsOf(tasks)
  OBVIOUS
<1>5. \A t \in F!ToSet(tasks) : t.id \in Ids(tasks) /\ \A d \in t.dependsOn : d \in Ids(tasks)
  BY DEF F!validateCollaboratePlan, Ids
<1>6. \A id \in Ids(tasks) : /\ level[id] \in DOMAIN levels /\ id \in levels[level[id]]
                             /\ \A j \in DOMAIN levels \ {level[id]} : id \notin levels[j]
  BY <1>3, <1>4
<1>7. /\ \A id \in Ids(tasks) : level[id] \in 1 .. Len(tasks)
      /\ \A t \in F!ToSet(tasks) : \A d \in t.dependsOn : level[d] < level[t.id]
  BY <1>2 DEF Levels
<1>8. ASSUME NEW t \in F!ToSet(tasks), NEW d \in t.dependsOn
      PROVE  \E j \in 1 .. (level[t.id] - 1) : d \in levels[j]
  <2>1. d \in Ids(tasks) /\ t.id \in Ids(tasks) /\ level[d] < level[t.id]
    BY <1>5, <1>7
  <2>2. level[d] \in 1 .. (level[t.id] - 1)
    BY <1>7, <2>1, Appended
  <2>3. QED
    BY <1>6, <2>1, <2>2
<1>9. QED
  BY <1>4, <1>5, <1>6, <1>8 DEF Walks

LEMMA CollaborateEarned ==
  ASSUME NEW heard, NEW r, request.mode = "collaborate", IsSeq(F!resolveSlots(request)),
         \A s \in heard : IsSeq(r[s].text)
  PROVE  MergeEarned(F!mergeCollaborate(heard, r), heard, r)
<1>1. PICK slots : slots = F!resolveSlots(request)
  OBVIOUS
<1>2. PICK valid : valid = {i \in DOMAIN slots : slots[i] \in heard /\ F!validateCollaboratePlan(r[slots[i]].text, heard)}
  OBVIOUS
<1>3. F!mergeCollaborate(heard, r)
        = IF valid = {} THEN F!Merged("FAIL")
          ELSE Levelled(F!Merged("PASS"), F!levelsOf(r[slots[F!Min(valid)]].text))
  BY <1>1, <1>2, Zenon DEF F!mergeCollaborate, Levelled
<1>4. CASE valid = {}
  BY <1>3, <1>4, MergedIs DEF MergeEarned
<1>5. CASE valid # {}
  <2>1. valid \subseteq Nat
    BY <1>1, <1>2, Appended
  <2>2. F!Min(valid) \in valid
    BY <1>5, <2>1, Least
  <2>3. PICK i : i = F!Min(valid) /\ slots[i] \in heard /\ F!validateCollaboratePlan(r[slots[i]].text, heard)
    BY <1>2, <2>2
  <2>4. PICK s : s = slots[i]
    OBVIOUS
  <2>5. Walks(F!levelsOf(r[s].text), r[s].text)
    BY <2>3, <2>4, PlanWalks
  <2>6. PICK p, l : p = F!Merged("PASS") /\ l = F!levelsOf(r[s].text)
    OBVIOUS
  <2>7. IsOutcome(p) /\ p.verdict = "PASS"
    BY <2>6, MergedIs
  <2>8. PICK m : m = Levelled(p, l)
    OBVIOUS
  <2>9. m = Outcome(p.verdict, p.ran, p.discarded, p.timedOut, p.agreement, l)
    BY <2>7, <2>8, Outcomes
  <2>10. IsOutcome(m) /\ m.verdict = "PASS" /\ m.levels = l
    BY <2>7, <2>9 DEF IsOutcome, Outcome
  <2>11. F!mergeCollaborate(heard, r) = m
    BY <1>3, <1>5, <2>3, <2>4, <2>6, <2>8
  <2>12. QED
    BY <2>3, <2>4, <2>5, <2>6, <2>10, <2>11 DEF MergeEarned
<1>6. QED
  BY <1>4, <1>5

(* A round's outcome, said of the results r that every slot ended with.     *)
OutcomeEarned(m, r) ==
  /\ m.verdict # "none" /\ m.ran = {s \in F!Slots : ~F!isDroppedSlot(r[s])}
  /\ m.verdict = "PASS" =>
       /\ m.ran # {} /\ (request.mode = "veto" => m.ran = F!Slots)
       /\ MergeEarned(m, m.ran, r)

LEMMA DegradedEarned ==
  ASSUME NEW r, request.mode \in F!Modes, IsSeq(F!resolveSlots(request)), IsFiniteSet(F!Slots),
         request.mode = "single" => F!Slots = {"A"},
         \A s \in F!Slots : ~F!isDroppedSlot(r[s]) =>
           /\ r[s].verdict \in {"PASS", "FAIL", "NEEDS_MORE"}
           /\ request.mode = "collaborate" => IsSeq(r[s].text)
  PROVE  OutcomeEarned(F!degradeSlots(r), r)
<1>1. PICK heard, discarded : /\ discarded = {s \in F!Slots : F!isDroppedSlot(r[s])}
                              /\ heard = F!Slots \ discarded
  OBVIOUS
<1>2. PICK ss : ss = F!SelectSeq(F!resolveSlots(request), LAMBDA s : ~F!isDroppedSlot(r[s]))
  OBVIOUS
<1>3. PICK closed : closed = (heard = {} \/ (request.mode = "veto" /\ discarded # {}))
  OBVIOUS
<1>4. PICK m : m = IF closed THEN F!Merged("FAIL") ELSE F!mergeForMode(heard, ss, r)
  OBVIOUS
<1>5. PICK late : F!degradeSlots(r) = Degraded(m, heard, discarded, late)
  BY <1>1, <1>2, <1>3, <1>4, Zenon DEF F!degradeSlots, Degraded
<1>6. heard = {s \in F!Slots : ~F!isDroppedSlot(r[s])} /\ (request.mode = "single" /\ heard # {} => heard = {"A"})
  BY <1>1
<1>7. IsOutcome(m) /\ m.verdict # "none" /\ (m.verdict = "PASS" => ~closed /\ MergeEarned(m, heard, r))
  <2>1. CASE closed
    BY <1>4, <2>1, MergedIs
  <2>2. CASE ~closed
    <3>1. CASE request.mode = "sample"
      <4>1. IsFiniteSet(heard)
        BY <1>1, FS_Subset
      <4>2. m = F!mergeSample(heard, r)
        BY <1>4, <2>2, <3>1 DEF F!mergeForMode
      <4>3. QED
        BY <2>2, <3>1, <4>1, <4>2, SampleEarned DEF MergeEarned
    <3>2. CASE request.mode = "collaborate"
      <4>1. m = F!mergeCollaborate(heard, r)
        BY <1>4, <2>2, <3>2 DEF F!mergeForMode
      <4>2. QED
        BY <1>6, <2>2, <3>2, <4>1, CollaborateEarned DEF MergeEarned
    <3>3. CASE request.mode \notin {"sample", "collaborate"}
      <4>1. MergeEarned(F!mergeForMode(heard, ss, r), heard, r)
        BY <1>3, <1>6, <2>2, <3>3, OthersEarned
      <4>2. QED
        BY <1>4, <2>2, <4>1 DEF MergeEarned
    <3>4. QED
      BY <3>1, <3>2, <3>3
  <2>3. QED
    BY <2>1, <2>2
<1>8. PICK o : o = Degraded(m, heard, discarded, late)
  OBVIOUS
<1>9. o = Outcome(m.verdict, heard, discarded, late, m.agreement, m.levels)
  BY <1>7, <1>8, Outcomes
<1>10. /\ IsOutcome(o) /\ o.verdict = m.verdict /\ o.ran = heard
       /\ o.agreement = m.agreement /\ o.levels = m.levels
  BY <1>9 DEF IsOutcome, Outcome
<1>11. MergeEarned(m, heard, r) => MergeEarned(o, heard, r)
  BY <1>10 DEF MergeEarned
<1>12. QED
  BY <1>1, <1>3, <1>5, <1>6, <1>7, <1>8, <1>10, <1>11 DEF OutcomeEarned

(* A merged result passes on what its slots wrote, f: the property, said of *)
(* the files that were heard.                                               *)
EarnedBy(f, m, q, slots, rounds) ==
  m.verdict = "PASS" =>
    LET ran == m.ran
        voted(v) == {s \in ran : f[s].verdict = v}
    IN  /\ ran # {}
        /\ q.mode \in {"veto", "single"} => ran = slots /\ voted("PASS") = slots
        /\ q.mode = "sample" => \A v \in {"FAIL", "NEEDS_MORE"} : Cardinality(voted("PASS")) > Cardinality(voted(v))
        /\ q.mode = "debate" => /\ ran \subseteq DOMAIN F!Last(rounds)
                                /\ \A x \in m.agreement, s \in ran : x \in f[s].text
        /\ q.mode = "collaborate" => \E s \in ran : Walks(m.levels, f[s].text)

Heard == [s \in merged.ran |-> worker[s].file]

FusionSound ==
  /\ request \in Requests
  /\ DOMAIN worker = F!ToSet(F!resolveSlots(request)) /\ active \subseteq DOMAIN worker
  /\ \A s \in DOMAIN worker : WorkerSound(worker[s], request)
  /\ IsSeq(returned)
  /\ merged.verdict = "none" => DroppedOut(returned, DOMAIN worker \ active)
  /\ merged.verdict # "none" =>
       /\ merged.ran \subseteq DOMAIN worker /\ \A s \in merged.ran : Counts(worker[s])
       /\ EarnedBy(Heard, merged, request, DOMAIN worker, returned)

LEMMA FusionSoundEarns ==
  FusionSound => F!PassIsEarned
<1>1. SUFFICES ASSUME FusionSound, merged.verdict = "PASS" PROVE F!PassIsEarned
  BY DEF F!PassIsEarned
<1>2. /\ merged.ran \subseteq DOMAIN worker /\ \A s \in merged.ran : Counts(worker[s]) /\ WorkerSound(worker[s], request)
      /\ EarnedBy(Heard, merged, request, DOMAIN worker, returned)
  BY <1>1 DEF FusionSound
<1>3. \A s \in merged.ran : /\ worker[s].file.st = "valid" /\ ~worker[s].result.timedOut
                            /\ ~request.visible => ~worker[s].alive /\ ~worker[s].timedOut
  BY <1>2 DEF WorkerSound
<1>4. \A s \in merged.ran : Heard[s] = worker[s].file
  BY DEF Heard
<1>5. \A v : {s \in merged.ran : Heard[s].verdict = v} = {s \in merged.ran : worker[s].file.verdict = v}
  BY <1>4
<1>6. request.mode = "sample" =>
        \A v \in {"FAIL", "NEEDS_MORE"} :
          F!Cardinality({s \in merged.ran : worker[s].file.verdict = "PASS"})
            > F!Cardinality({s \in merged.ran : worker[s].file.verdict = v})
  <2>1. request.mode = "sample" =>
          \A v \in {"FAIL", "NEEDS_MORE"} :
            Cardinality({s \in merged.ran : Heard[s].verdict = "PASS"})
              > Cardinality({s \in merged.ran : Heard[s].verdict = v})
    BY <1>1, <1>2, Zenon DEF EarnedBy
  <2>2. QED
    BY <2>1, <1>5, SlotCardinality, Zenon
<1>7. request.mode \in {"veto", "single"} =>
        /\ merged.ran = DOMAIN worker
        /\ {s \in merged.ran : worker[s].file.verdict = "PASS"} = DOMAIN worker
  BY <1>1, <1>2, <1>5, Zenon DEF EarnedBy
<1>8. /\ merged.ran # {}
      /\ request.mode = "debate" => /\ merged.ran \subseteq DOMAIN F!Last(returned)
                                    /\ \A x \in merged.agreement, s \in merged.ran : x \in worker[s].file.text
      /\ request.mode = "collaborate" => \E s \in merged.ran : Walks(merged.levels, worker[s].file.text)
  BY <1>1, <1>2, <1>4, Zenon DEF EarnedBy
<1>9. QED
  BY <1>3, <1>6, <1>7, <1>8, Zenon DEF F!PassIsEarned, F!Slots, Walks

LEMMA FusionSoundInit ==
  F!Init => FusionSound
<1>1. SUFFICES ASSUME F!Init PROVE FusionSound
  OBVIOUS
<1>2. /\ request \in Requests /\ active = F!ToSet(F!resolveSlots(request)) /\ DOMAIN worker = active
      /\ \A s \in DOMAIN worker : worker[s] = F!Idle
      /\ returned = <<>> /\ merged = F!Merged("none")
  BY <1>1 DEF F!Init
<1>3. IsSeq(<<>>) /\ DroppedOut(<<>>, {})
  BY DEF IsSeq, DroppedOut
<1>4. merged.verdict = "none"
  BY <1>2, MergedIs
<1>5. QED
  BY <1>2, <1>3, <1>4, IdleSound DEF FusionSound

LEMMA FusionSoundStep ==
  ASSUME FusionSound, \E s \in F!Slots : WorkerStep(s)
  PROVE  FusionSound'
<1>1. PICK s \in DOMAIN worker : WorkerStep(s)
  BY DEF F!Slots
<1>2. Moved(s) /\ F!OthersKept
  BY <1>1, WorkerMoves DEF FusionSound
<1>3. PICK x : worker' = [worker EXCEPT ![s] = x] /\ WorkerSound(x, request) /\ Keeps(worker[s], x)
  BY <1>2 DEF Moved
<1>4. /\ DOMAIN worker' = DOMAIN worker
      /\ \A t \in DOMAIN worker : WorkerSound(worker'[t], request) /\ Keeps(worker[t], worker'[t])
  BY <1>1, <1>3 DEF FusionSound, Keeps
<1>5. \A t \in merged.ran : merged.verdict # "none" => Counts(worker'[t]) /\ worker'[t].file = worker[t].file
  BY <1>4 DEF FusionSound, Keeps
<1>6. UNCHANGED <<request, active, returned, merged>>
  BY <1>2 DEF F!OthersKept
<1>7. merged.verdict # "none" => Heard' = Heard
  BY <1>5, <1>6 DEF Heard
<1>8. QED
  BY <1>4, <1>5, <1>6, <1>7 DEF FusionSound

LEMMA FusionSoundAbort ==
  ASSUME FusionSound, F!Abort
  PROVE  FusionSound'
<1>1. /\ DOMAIN worker' = DOMAIN worker /\ \A s \in DOMAIN worker : WorkerSound(worker'[s], request)
      /\ UNCHANGED <<request, active, returned, merged>> /\ merged.verdict = "none"
  BY Aborted DEF FusionSound, F!Abort, F!Running
<1>2. QED
  BY <1>1 DEF FusionSound

(* The end of a round, and of the stage.                                    *)
LEMMA FusionSoundRound ==
  ASSUME FusionSound, F!EndRound
  PROVE  FusionSound'
<1>1. PICK d : d = [s \in active |-> worker[s].result]
  OBVIOUS
<1>2. PICK rounds : rounds = Append(returned, d)
  OBVIOUS
<1>3. PICK n : n = Len(returned)
  OBVIOUS
<1>4. /\ IsSeq(rounds) /\ n \in Nat /\ DOMAIN returned = 1 .. n /\ DOMAIN rounds = 1 .. n + 1 /\ Len(rounds) = n + 1
      /\ rounds[n + 1] = d /\ \A i \in 1 .. n : rounds[i] = returned[i]
  BY <1>2, <1>3, Appended DEF FusionSound
<1>5. /\ DOMAIN d = active /\ active \subseteq DOMAIN worker /\ F!Slots = DOMAIN worker
      /\ \A s \in active : d[s] = worker[s].result /\ worker[s].pc = "done"
      /\ \A s \in DOMAIN worker : WorkerSound(worker[s], request)
  BY <1>1 DEF FusionSound, F!EndRound, F!Slots
<1>6. /\ DroppedOut(returned, F!Slots \ active) /\ merged.verdict = "none"
      /\ returned' = rounds /\ request' = request
  BY <1>1, <1>2 DEF FusionSound, F!EndRound, F!Running, F!Slots
<1>7. PICK survivors : survivors = {s \in active : ~F!isDroppedSlot(d[s])}
  OBVIOUS
<1>8. PICK r : r = F!collapseRounds(rounds)
  OBVIOUS
<1>9. \/ merged' = F!degradeSlots(r) /\ UNCHANGED <<active, worker>>
      \/ /\ active' = survivors /\ UNCHANGED merged
         /\ worker' = [s \in DOMAIN worker |-> IF s \in survivors THEN F!Idle ELSE worker[s]]
  BY <1>1, <1>2, <1>7, <1>8 DEF F!EndRound, F!Slots
<1>10. CASE /\ active' = survivors /\ UNCHANGED merged
            /\ worker' = [s \in DOMAIN worker |-> IF s \in survivors THEN F!Idle ELSE worker[s]]
  <2>1. DOMAIN worker' = DOMAIN worker /\ \A s \in DOMAIN worker : WorkerSound(worker'[s], request)
    BY <1>5, <1>10, IdleSound
  <2>2. DroppedOut(rounds, DOMAIN worker \ survivors)
    <3>1. SUFFICES ASSUME NEW s \in DOMAIN worker \ survivors
                   PROVE  \E i \in DOMAIN rounds :
                            /\ s \in DOMAIN rounds[i] /\ F!isDroppedSlot(rounds[i][s])
                            /\ \A j \in DOMAIN rounds : s \in DOMAIN rounds[j] => j <= i
      BY DEF DroppedOut
    <3>2. CASE s \in active
      <4>1. s \in DOMAIN rounds[n + 1] /\ F!isDroppedSlot(rounds[n + 1][s])
        BY <1>4, <1>5, <1>7, <3>2
      <4>2. n + 1 \in DOMAIN rounds /\ \A j \in DOMAIN rounds : j <= n + 1
        BY <1>4
      <4>3. QED
        BY <4>1, <4>2
    <3>3. CASE s \notin active
      <4>1. PICK i \in 1 .. n : /\ s \in DOMAIN returned[i] /\ F!isDroppedSlot(returned[i][s])
                                /\ \A j \in 1 .. n : s \in DOMAIN returned[j] => j <= i
        BY <1>4, <1>5, <1>6, <3>1, <3>3 DEF DroppedOut
      <4>2. i \in 1 .. n + 1 /\ \A j \in 1 .. n + 1 : s \in DOMAIN rounds[j] => j <= i
        BY <1>4, <1>5, <3>3, <4>1
      <4>3. QED
        BY <1>4, <4>1, <4>2
    <3>4. QED
      BY <3>2, <3>3
  <2>3. survivors \subseteq DOMAIN worker
    BY <1>5, <1>7
  <2>4. QED
    BY <1>4, <1>6, <1>10, <2>1, <2>2, <2>3 DEF FusionSound
<1>11. CASE merged' = F!degradeSlots(r) /\ UNCHANGED <<active, worker>>
  <2>1. /\ \A s \in active : r[s] = worker[s].result
        /\ \A s \in F!Slots \ active : F!isDroppedSlot(r[s])
    <3>1. IsSeq(returned) /\ active \subseteq F!Slots
      BY <1>5 DEF FusionSound
    <3>2. /\ \A s \in active : r[s] = d[s]
          /\ \A s \in F!Slots \ active : F!isDroppedSlot(r[s])
      <4>1. DOMAIN d = active /\ DroppedOut(returned, F!Slots \ active) /\ r = F!collapseRounds(Append(returned, d))
        BY <1>2, <1>5, <1>6, <1>8
      <4>2. QED
        BY <3>1, <4>1, Collapsed
    <3>3. QED
      BY <1>5, <3>2
  <2>2. \A s \in F!Slots : ~F!isDroppedSlot(r[s]) =>
          /\ s \in active /\ Counts(worker[s]) /\ worker[s].file.st = "valid"
          /\ r[s].verdict = worker[s].file.verdict /\ r[s].text = worker[s].file.text
          /\ worker[s].file.verdict \in SlotVotes(request.mode) /\ worker[s].file.text \in Texts(request.mode)
    <3>1. SUFFICES ASSUME NEW s \in F!Slots, ~F!isDroppedSlot(r[s])
                   PROVE  /\ s \in active /\ Counts(worker[s]) /\ worker[s].file.st = "valid"
                          /\ r[s].verdict = worker[s].file.verdict /\ r[s].text = worker[s].file.text
                          /\ worker[s].file.verdict \in SlotVotes(request.mode)
                          /\ worker[s].file.text \in Texts(request.mode)
      OBVIOUS
    <3>2. s \in active /\ r[s] = worker[s].result
      BY <2>1, <3>1
    <3>3. PICK w, q : w = worker[s] /\ q = request
      OBVIOUS
    <3>4. WorkerSound(w, q) /\ Counts(w)
      BY <1>5, <3>1, <3>2, <3>3 DEF Counts
    <3>5. /\ w.file.st = "valid" /\ w.result.verdict = w.file.verdict /\ w.result.text = w.file.text
          /\ w.file.verdict \in SlotVotes(q.mode) /\ w.file.text \in Texts(q.mode)
      BY <3>4 DEF WorkerSound, Delivered
    <3>6. QED
      BY <3>2, <3>3, <3>4, <3>5
  <2>3. request \in Requests /\ request.mode \in F!Modes /\ F!resolveSlots(request) \in Seq(SlotNames)
    BY RequestsAssumption DEF FusionSound
  <2>4. IsSeq(F!resolveSlots(request)) /\ IsFiniteSet(F!Slots)
    <3>1. PICK q : q = F!resolveSlots(request)
      OBVIOUS
    <3>2. q \in Seq(SlotNames) /\ F!Slots = {q[i] : i \in DOMAIN q}
      BY <1>5, <2>3, <3>1 DEF FusionSound, F!ToSet
    <3>3. q \in Seq({q[i] : i \in DOMAIN q}) /\ {q[i] : i \in DOMAIN q} \subseteq SlotNames
      BY <3>2
    <3>4. QED
      BY <3>1, <3>2, <3>3, RequestsAssumption, FS_Subset DEF IsSeq
  <2>5. request.mode = "single" => F!Slots = {"A"}
    BY <1>5 DEF FusionSound, F!resolveSlots, F!ToSet
  <2>6. \A s \in F!Slots : ~F!isDroppedSlot(r[s]) =>
          /\ r[s].verdict \in {"PASS", "FAIL", "NEEDS_MORE"}
          /\ request.mode = "collaborate" => IsSeq(r[s].text)
    BY <2>2, <2>3, VerdictsAssumption, TextsAssumption DEF IsSeq
  <2>7. PICK m : m = merged'
    OBVIOUS
  <2>8. OutcomeEarned(m, r)
    BY <1>11, <2>3, <2>4, <2>5, <2>6, <2>7, DegradedEarned
  <2>9. /\ m.verdict # "none" /\ m.ran \subseteq DOMAIN worker
        /\ \A s \in m.ran : /\ s \in active /\ Counts(worker[s])
                            /\ r[s].verdict = worker[s].file.verdict /\ r[s].text = worker[s].file.text
    BY <1>5, <2>2, <2>8 DEF OutcomeEarned
  <2>10. PICK f : f = [s \in m.ran |-> worker[s].file]
    OBVIOUS
  <2>11. EarnedBy(f, m, request, DOMAIN worker, rounds)
    <3>1. SUFFICES ASSUME m.verdict = "PASS" PROVE EarnedBy(f, m, request, DOMAIN worker, rounds)
      BY DEF EarnedBy
    <3>2. m.ran # {} /\ (request.mode = "veto" => m.ran = DOMAIN worker) /\ MergeEarned(m, m.ran, r)
      BY <1>5, <2>8, <3>1 DEF OutcomeEarned
    <3>3. \A s \in m.ran : f[s].verdict = r[s].verdict /\ f[s].text = r[s].text
      BY <2>9, <2>10
    <3>4. \A v : Said(m.ran, r, v) = {s \in m.ran : f[s].verdict = v}
      BY <3>3 DEF Said
    <3>5. request.mode = "sample" =>
            \A v \in {"FAIL", "NEEDS_MORE"} :
              Cardinality({s \in m.ran : f[s].verdict = "PASS"}) > Cardinality({s \in m.ran : f[s].verdict = v})
      <4>1. request.mode = "sample" =>
              \A v \in {"FAIL", "NEEDS_MORE"} : Cardinality(Said(m.ran, r, "PASS")) > Cardinality(Said(m.ran, r, v))
        BY <3>1, <3>2 DEF MergeEarned
      <4>2. QED
        BY <3>4, <4>1, Zenon
    <3>6. request.mode \in {"veto", "single"} =>
            m.ran = DOMAIN worker /\ {s \in m.ran : f[s].verdict = "PASS"} = DOMAIN worker
      <4>1. request.mode = "single" => m.ran = DOMAIN worker
        BY <1>5, <2>5, <2>9, <3>2
      <4>2. request.mode \in {"veto", "single"} => Said(m.ran, r, "PASS") = m.ran
        BY <3>1, <3>2 DEF MergeEarned
      <4>3. QED
        BY <3>2, <3>4, <4>1, <4>2
    <3>7. request.mode = "debate" => /\ m.ran \subseteq DOMAIN F!Last(rounds)
                                     /\ \A x \in m.agreement, s \in m.ran : x \in f[s].text
      <4>1. F!Last(rounds) = d
        BY <1>4 DEF F!Last
      <4>2. request.mode = "debate" => \A x \in m.agreement, s \in m.ran : x \in r[s].text
        BY <3>1, <3>2 DEF MergeEarned
      <4>3. QED
        BY <1>5, <2>9, <3>3, <4>1, <4>2
    <3>8. request.mode = "collaborate" => \E s \in m.ran : Walks(m.levels, f[s].text)
      BY <3>1, <3>2, <3>3 DEF MergeEarned
    <3>9. QED
      BY <3>2, <3>5, <3>6, <3>7, <3>8, Zenon DEF EarnedBy
  <2>12. Heard' = f
    BY <1>11, <2>7, <2>10 DEF Heard
  <2>13. EarnedBy(Heard, merged, request, DOMAIN worker, returned)'
    BY <1>6, <1>11, <2>7, <2>11, <2>12 DEF EarnedBy
  <2>14. QED
    BY <1>4, <1>5, <1>6, <1>11, <2>3, <2>7, <2>9, <2>13 DEF FusionSound
<1>12. QED
  BY <1>9, <1>10, <1>11

LEMMA FusionSoundNext ==
  ASSUME FusionSound, F!Next
  PROVE  FusionSound'
<1>1. (\E s \in F!Slots : WorkerStep(s)) \/ F!Abort \/ F!EndRound
  BY Zenon DEF F!Next, WorkerStep
<1>2. QED
  BY <1>1, FusionSoundStep, FusionSoundAbort, FusionSoundRound

LEMMA FusionSoundStutters ==
  ASSUME FusionSound, UNCHANGED fusionVars
  PROVE  FusionSound'
<1>1. UNCHANGED <<request, worker, active, returned, merged>>
  BY DEF fusionVars
<1>2. Heard' = Heard
  BY <1>1 DEF Heard
<1>3. QED
  BY <1>1, <1>2 DEF FusionSound

FusionHolds == which = "fusion" => FusionSound

LEMMA FusionHoldsAlways == Spec => []FusionHolds
<1>1. Init => FusionHolds
  BY FusionSoundInit DEF Init, FusionHolds
<1>2. FusionHolds /\ [Next]_vars => FusionHolds'
  <2> SUFFICES ASSUME FusionHolds, [Next]_vars, which = "fusion" PROVE FusionSound'
    BY DEF FusionHolds, Next, vars
  <2>1. FusionSound
    BY DEF FusionHolds
  <2>2. F!Next \/ UNCHANGED fusionVars
    BY DEF Next, vars
  <2>3. QED
    BY <2>1, <2>2, FusionSoundNext, FusionSoundStutters
<1>3. QED
  BY <1>1, <1>2, PTL DEF Spec

(* A fused stage that passes hands on what its slots said: it passed over   *)
(* valid verdict files of workers that were in time and, run headless, are  *)
(* dead; a veto had every slot's PASS, a sample more for PASS than for any  *)
(* other vote, a debate's agreement was said by every slot heard, in the    *)
(* last round they all were in, and a collaborate plan has each task in one *)
(* level, after what it depends on.                                         *)
THEOREM PassIsEarnedAlways == Spec => []PassIsEarned
<1>1. FusionHolds => PassIsEarned
  BY FusionSoundEarns DEF FusionHolds, PassIsEarned
<1>2. QED
  BY <1>1, FusionHoldsAlways, PTL

-----------------------------------------------------------------------------
(* Siblings.                                                                *)

LEMMA SiblingCardinality ==
  ASSUME NEW N
  PROVE  S!Cardinality(N) = Cardinality(N)
  BY DEF S!Cardinality, Cardinality

(* A task of the plan has its place in it, and no other task has the same.  *)
LEMMA Places ==
  ASSUME IsSeq(plan)
  PROVE  /\ Len(plan) \in Nat /\ IsFiniteSet(S!Ids)
         /\ \A id \in S!Ids : S!Place(id) \in 1 .. Len(plan) /\ S!Task(id).id = id /\ S!Task(id) \in S!ToSet(plan)
         /\ \A id, other \in S!Ids : S!Place(id) = S!Place(other) => id = other
<1>1. PICK n : n = Len(plan)
  OBVIOUS
<1>2. n \in Nat /\ DOMAIN plan = 1 .. n
  BY <1>1, Appended
<1>3. ASSUME NEW id \in S!Ids PROVE S!Place(id) \in 1 .. n /\ plan[S!Place(id)].id = id
  <2>1. \E i \in DOMAIN plan : plan[i].id = id
    BY DEF S!Ids
  <2>2. QED
    BY <1>2, <2>1, Zenon DEF S!Place
<1>4. IsFiniteSet(S!Ids)
  <2>1. PICK f : f = [i \in 1 .. n |-> plan[i].id]
    OBVIOUS
  <2>2. f \in Surjection(1 .. n, S!Ids)
    BY <1>2, <2>1 DEF Surjection, S!Ids
  <2>3. IsFiniteSet(1 .. n)
    BY <1>2, FS_Interval
  <2>4. QED
    BY <2>2, <2>3, FS_Surjection
<1>5. QED
  BY <1>1, <1>2, <1>3, <1>4 DEF S!Task, S!ToSet

(* Whoever is first in the plan of some tasks.                              *)
LEMMA FirstIs ==
  ASSUME IsSeq(plan), NEW ids, ids \subseteq S!Ids, ids # {}
  PROVE  S!InPlanFirst(ids) \in ids
<1>1. PICK N : N = {S!Place(id) : id \in ids}
  OBVIOUS
<1>2. N \subseteq Nat /\ N # {}
  BY <1>1, Places
<1>3. PICK k \in N : \A j \in N : k <= j
  BY <1>2, Least
<1>4. \E id \in ids : \A other \in ids : S!Place(id) <= S!Place(other)
  BY <1>1, <1>3
<1>5. QED
  BY <1>4, Zenon DEF S!InPlanFirst

(* Some of R, taken in the order of their places p: each that shares nothing*)
(* with those taken before it.                                              *)
Greedy(W, R, p, fs, k) ==
  \A id \in R : p[id] <= k =>
    (id \in W <=> fs[id] \cap UNION {fs[other] : other \in {x \in W : p[x] < p[id]}} = {})

LEMMA GreedyExists ==
  ASSUME NEW R, NEW n \in Nat, NEW p \in [R -> 1 .. n], \A a, b \in R : p[a] = p[b] => a = b, NEW fs
  PROVE  \E W \in SUBSET R : Greedy(W, R, p, fs, n)
<1> DEFINE Good(k) == \E W \in SUBSET R : Greedy(W, R, p, fs, k) /\ \A x \in W : p[x] <= k
<1>1. PICK N : N = {k \in Nat : ~Good(k)}
  OBVIOUS
<1>2. CASE N = {}
  BY <1>1, <1>2
<1>3. CASE N # {}
  <2>1. PICK k \in N : \A j \in N : k <= j
    BY <1>1, <1>3, Least
  <2>2. k \in Nat /\ ~Good(k)
    BY <1>1, <2>1
  <2>3. k # 0
    <3>1. Greedy({}, R, p, fs, 0)
      BY DEF Greedy
    <3>2. QED
      BY <2>2, <3>1
  <2>4. Good(k - 1)
    BY <1>1, <2>1, <2>2, <2>3
  <2>5. PICK W \in SUBSET R : Greedy(W, R, p, fs, k - 1) /\ \A x \in W : p[x] <= k - 1
    BY <2>4
  <2>6. ASSUME \A x \in R : p[x] # k PROVE FALSE
    <3>1. \A x \in R : p[x] <= k => p[x] <= k - 1
      BY <2>2, <2>6
    <3>2. Greedy(W, R, p, fs, k)
      BY <2>5, <3>1 DEF Greedy
    <3>3. \A x \in W : p[x] <= k
      BY <2>2, <2>5
    <3>4. QED
      BY <2>2, <3>2, <3>3
  <2>7. PICK new \in R : p[new] = k
    BY <2>6
  <2>8. PICK V : V = IF fs[new] \cap UNION {fs[other] : other \in W} = {} THEN W \cup {new} ELSE W
    OBVIOUS
  <2>9. V \in SUBSET R /\ \A x \in V : p[x] <= k
    BY <2>2, <2>5, <2>7, <2>8
  <2>10. new \notin W /\ \A x \in W : p[x] < k
    BY <2>2, <2>5, <2>7
  <2>11. \A id \in R : p[id] < k => {x \in V : p[x] < p[id]} = {x \in W : p[x] < p[id]}
    BY <2>2, <2>7, <2>8
  <2>12. {x \in V : p[x] < p[new]} = W
    BY <2>2, <2>7, <2>8, <2>10
  <2>13. ASSUME NEW id \in R, p[id] <= k
         PROVE  id \in V <=> fs[id] \cap UNION {fs[other] : other \in {x \in V : p[x] < p[id]}} = {}
    <3>1. CASE id = new
      BY <2>8, <2>10, <2>12, <3>1
    <3>2. CASE id # new
      <4>1. p[id] < k /\ p[id] <= k - 1
        BY <2>2, <2>7, <2>13, <3>2
      <4>2. id \in V <=> id \in W
        BY <2>8, <3>2
      <4>3. id \in W <=> fs[id] \cap UNION {fs[other] : other \in {x \in W : p[x] < p[id]}} = {}
        BY <2>5, <4>1 DEF Greedy
      <4>4. QED
        BY <2>11, <4>1, <4>2, <4>3
    <3>3. QED
      BY <3>1, <3>2
  <2>14. Greedy(V, R, p, fs, k)
    BY <2>13 DEF Greedy
  <2>15. QED
    BY <2>2, <2>9, <2>14
<1>4. QED
  BY <1>2, <1>3

(* The next wave is of tasks that are left, and no two of them declare the  *)
(* same file.                                                               *)
LEMMA WaveIs ==
  ASSUME IsSeq(plan), NEW left, left \subseteq S!Ids
  PROVE  /\ S!NextWave(left) \subseteq left
         /\ mode # "collaborate" =>
              \A a, b \in S!NextWave(left) : a # b => S!Task(a).files \cap S!Task(b).files = {}
<1>1. CASE mode = "collaborate"
  BY <1>1 DEF S!NextWave, S!EveryReady, S!ReadyOf
<1>2. CASE mode # "collaborate"
  <2>1. PICK R : R = S!ReadyOf(left)
    OBVIOUS
  <2>2. R \subseteq left
    BY <2>1 DEF S!ReadyOf
  <2>3. PICK p, fs : p = [id \in R |-> S!Place(id)] /\ fs = [id \in R |-> S!Task(id).files]
    OBVIOUS
  <2>4. PICK n : n = Len(plan)
    OBVIOUS
  <2>5. p \in [R -> 1 .. n] /\ n \in Nat /\ \A a, b \in R : p[a] = p[b] => a = b
    BY <2>2, <2>3, <2>4, Places
  <2>6. PICK W \in SUBSET R : Greedy(W, R, p, fs, n)
    BY <2>5, GreedyExists
  <2> DEFINE Fair(ids) == \A id \in R :
               id \in ids <=> S!Task(id).files \cap S!FilesOf({other \in ids : S!Place(other) < S!Place(id)}) = {}
  <2>7. Fair(W)
    <3>1. SUFFICES ASSUME NEW id \in R
                   PROVE  id \in W <=> S!Task(id).files \cap S!FilesOf({other \in W : S!Place(other) < S!Place(id)}) = {}
      OBVIOUS
    <3>2. p[id] <= n /\ p[id] = S!Place(id) /\ fs[id] = S!Task(id).files
      BY <2>3, <2>5
    <3>3. id \in W <=> fs[id] \cap UNION {fs[other] : other \in {x \in W : p[x] < p[id]}} = {}
      BY <2>6, <3>2 DEF Greedy
    <3>4. {x \in W : p[x] < p[id]} = {other \in W : S!Place(other) < S!Place(id)}
      BY <2>3, <3>2
    <3>5. UNION {fs[other] : other \in {x \in W : p[x] < p[id]}}
            = S!FilesOf({other \in W : S!Place(other) < S!Place(id)})
      BY <2>3, <3>4 DEF S!FilesOf
    <3>6. QED
      BY <3>2, <3>3, <3>5
  <2>8. PICK ids : ids = S!scheduleDag(left)
    OBVIOUS
  <2>9. ids = CHOOSE x \in SUBSET R : Fair(x)
    BY <2>1, <2>8, Zenon DEF S!scheduleDag
  <2>10. ids \in SUBSET R /\ Fair(ids)
    <3> HIDE DEF Fair
    <3>1. QED
      BY <2>7, <2>9
  <2>11. ASSUME NEW a \in ids, NEW b \in ids, S!Place(a) < S!Place(b)
         PROVE  S!Task(a).files \cap S!Task(b).files = {}
    <3>1. S!Task(b).files \cap S!FilesOf({other \in ids : S!Place(other) < S!Place(b)}) = {}
      BY <2>10
    <3>2. S!Task(a).files \subseteq S!FilesOf({other \in ids : S!Place(other) < S!Place(b)})
      BY <2>11 DEF S!FilesOf
    <3>3. QED
      BY <3>1, <3>2
  <2>12. \A a, b \in ids : a # b => S!Place(a) < S!Place(b) \/ S!Place(b) < S!Place(a)
    BY <2>2, <2>5, <2>10, Places
  <2>13. S!NextWave(left) = ids
    BY <1>2, <2>8 DEF S!NextWave
  <2>14. QED
    BY <2>2, <2>10, <2>11, <2>12, <2>13
<1>3. QED
  BY <1>1, <1>2

(* The tasks of the waves before this one.                                  *)
Earlier == S!Ids \ (remaining \cup DOMAIN results)
Now == 1 + Cardinality(Earlier)

(* An edit is there, or was overwritten by one that the plan does not keep  *)
(* apart from it.                                                           *)
Overwritten(id, f) ==
  mode = "parallel" /\ \E u \in S!Ids :
    f \in wrote[u].files /\ (wrote[u].wave > wrote[id].wave \/ ~S!Declared(u) \/ ~S!Declared(id))
EditsHold ==
  mode \in {"sequential", "parallel"} =>
    \A id \in S!Ids : \A f \in wrote[id].files : id \in primary[f] \/ Overwritten(id, f)

(* The tasks left, those of this wave and what they came back with.         *)
WaveSound ==
  /\ remaining \subseteq S!Ids /\ wave \subseteq DOMAIN results /\ DOMAIN results \subseteq S!Ids
  /\ remaining \cap DOMAIN results = {}
  /\ \A id \in DOMAIN results : /\ results[id] = [at |-> results[id].at, files |-> results[id].files]
                                /\ results[id].files \subseteq TaskFiles
  /\ mode # "collaborate" => \A a, b \in DOMAIN results : a # b => S!Task(a).files \cap S!Task(b).files = {}
  /\ phase = "waves" => \A id \in S!Ids : S!Task(id).files \subseteq TaskFiles

(* What each task wrote, and when.                                          *)
WroteSound ==
  /\ DOMAIN wrote = S!Ids /\ DOMAIN primary = TaskFiles
  /\ \A id \in S!Ids : wrote[id].files \subseteq TaskFiles
  /\ \A id \in remaining \cup wave : wrote[id].files = {}
  /\ \A id \in S!Ids : wrote[id].files # {} =>
       /\ wrote[id].wave \in Nat
       /\ id \in DOMAIN results => wrote[id].wave = Now
       /\ id \notin DOMAIN results => wrote[id].wave < Now

SiblingsSound ==
  /\ IsSeq(plan) /\ IsSeq(votes) /\ WaveSound /\ WroteSound /\ EditsHold
  /\ outcome.verdict = "PASS" => phase = "over"
  /\ phase = "start" => \A id \in S!Ids : wrote[id].files = {}
  /\ mode = "bestOf" => phase # "waves"
  /\ S!AppliedWasPassed

LEMMA SiblingsSoundInit ==
  S!Init => SiblingsSound
<1>1. SUFFICES ASSUME S!Init PROVE SiblingsSound
  OBVIOUS
<1>2. /\ remaining = {} /\ wave = {} /\ results = <<>> /\ primary = [f \in TaskFiles |-> {}]
      /\ wrote = [id \in S!Ids |-> [wave |-> 0, files |-> {}]]
      /\ phase = "start" /\ outcome.verdict = "none"
  BY <1>1 DEF S!Init, S!NoOutcome, S!Ids
<1>3. IsSeq(plan)
  <2>1. CASE plan \in Plans
    BY <2>1, PlansAssumption DEF IsSeq
  <2>2. CASE plan = <<>>
    BY <2>2 DEF IsSeq
  <2>3. QED
    BY <1>1, <2>1, <2>2 DEF S!Init
<1>4. \A id \in S!Ids : wrote[id].files = {}
  BY <1>2
<1>5. WaveSound /\ WroteSound /\ EditsHold /\ S!AppliedWasPassed /\ IsSeq(votes)
  BY <1>1, <1>2, <1>4 DEF S!Init, IsSeq, WaveSound, WroteSound, EditsHold, S!AppliedWasPassed
<1>6. QED
  BY <1>2, <1>3, <1>4, <1>5 DEF SiblingsSound

(* The next wave begins.                                                    *)
LEMMA WaveBegins ==
  ASSUME SiblingsSound, NEW left, left \subseteq S!Ids, S!Starts(left), phase' = "waves",
         \A id \in S!Ids : S!Task(id).files \subseteq TaskFiles,
         \A id \in left : wrote[id].files = {},
         UNCHANGED <<mode, plan, primary, wrote, votes>>,
         \A id \in S!Ids : wrote[id].files # {} =>
           wrote[id].wave \in Nat /\ wrote[id].wave < 1 + Cardinality(S!Ids \ left)
  PROVE  WaveSound' /\ WroteSound' /\ EditsHold'
<1>1. PICK next : next = S!NextWave(left)
  OBVIOUS
<1>2. /\ next \subseteq left
      /\ mode # "collaborate" => \A a, b \in next : a # b => S!Task(a).files \cap S!Task(b).files = {}
  BY <1>1, WaveIs DEF SiblingsSound
<1>3. /\ wave' = next /\ remaining' = left \ next /\ results' = [id \in next |-> S!Idle]
      /\ S!Idle = [at |-> S!Idle.at, files |-> S!Idle.files] /\ S!Idle.files = {}
  BY <1>1 DEF S!Starts, S!Idle
<1>4. S!Ids' = S!Ids /\ \A id : S!Task(id)' = S!Task(id)
  BY DEF S!Ids, S!Task, S!Place
<1>5. remaining' \cup DOMAIN results' = left
  BY <1>2, <1>3
<1>6. Now' = 1 + Cardinality(S!Ids \ left)
  BY <1>4, <1>5 DEF Now, Earlier
<1>7. WaveSound'
  <2>1. \A id \in DOMAIN results' : results'[id] = S!Idle
    BY <1>3
  <2>2. /\ remaining' \subseteq S!Ids /\ wave' \subseteq DOMAIN results' /\ DOMAIN results' \subseteq S!Ids
        /\ remaining' \cap DOMAIN results' = {}
    BY <1>2, <1>3
  <2>3. mode' = mode /\ (mode # "collaborate" =>
          \A a, b \in DOMAIN results' : a # b => S!Task(a).files \cap S!Task(b).files = {})
    BY <1>2, <1>3
  <2>4. \A id \in DOMAIN results' : /\ results'[id] = [at |-> results'[id].at, files |-> results'[id].files]
                                    /\ results'[id].files \subseteq TaskFiles
    BY <1>3, <2>1
  <2>5. QED
    BY <1>4, <2>2, <2>3, <2>4 DEF WaveSound
<1>8. WroteSound'
  <2>1. \A id \in remaining' \cup wave' : wrote[id].files = {}
    BY <1>2, <1>3
  <2>2. \A id \in S!Ids : wrote[id].files # {} => id \notin DOMAIN results'
    BY <1>2, <1>3
  <2>3. QED
    BY <1>4, <1>6, <2>1, <2>2 DEF WroteSound, SiblingsSound
<1>9. EditsHold'
  BY <1>4 DEF SiblingsSound, EditsHold, Overwritten, S!Declared
<1>10. QED
  BY <1>7, <1>8, <1>9

LEMMA RunPlanKeeps ==
  ASSUME SiblingsSound, S!RunPlan
  PROVE  SiblingsSound'
<1>1. S!AppliedWasPassed'
  BY DEF S!RunPlan, S!AppliedWasPassed
<1>2. CASE ~S!validatePlanDag
  <2>1. /\ UNCHANGED <<mode, plan, primary, wrote, votes, wave, remaining, results>>
        /\ phase' = "over" /\ outcome'.verdict = "invalid" /\ phase = "start"
    BY <1>2 DEF S!RunPlan, S!Fails, S!NoOutcome
  <2>2. S!Ids' = S!Ids /\ (\A id : S!Task(id)' = S!Task(id)) /\ Now' = Now
    BY <2>1 DEF S!Ids, S!Task, S!Place, Now, Earlier
  <2>3. WaveSound' /\ WroteSound' /\ EditsHold'
    BY <2>1, <2>2 DEF SiblingsSound, WaveSound, WroteSound, EditsHold, Overwritten, S!Declared
  <2>4. QED
    BY <1>1, <2>1, <2>3 DEF SiblingsSound
<1>3. CASE S!validatePlanDag
  <2>1. /\ S!Starts(S!Ids) /\ phase' = "waves" /\ UNCHANGED <<mode, plan, primary, wrote, votes, outcome>>
        /\ phase = "start" /\ mode # "bestOf"
    BY <1>3 DEF S!RunPlan
  <2>2. \A id \in S!Ids : S!Task(id).files \subseteq TaskFiles
    BY <1>3, Places DEF S!validatePlanDag, SiblingsSound
  <2>3. \A id \in S!Ids : wrote[id].files = {}
    BY DEF S!RunPlan, SiblingsSound
  <2>4. WaveSound' /\ WroteSound' /\ EditsHold'
    BY <2>1, <2>2, <2>3, WaveBegins
  <2>5. QED
    BY <1>1, <2>1, <2>4 DEF SiblingsSound
<1>4. QED
  BY <1>2, <1>3

LEMMA WaveEndsKeeps ==
  ASSUME SiblingsSound, S!WaveEnds
  PROVE  SiblingsSound'
<1>1. UNCHANGED <<mode, plan, primary, wrote, votes>> /\ phase = "waves" /\ wave = {} /\ mode # "bestOf"
  BY DEF S!WaveEnds, SiblingsSound
<1>2. S!AppliedWasPassed'
  BY <1>1 DEF S!AppliedWasPassed
<1>3. CASE remaining = {}
  <2>1. phase' = "over" /\ UNCHANGED <<wave, remaining, results>>
    BY <1>3 DEF S!WaveEnds
  <2>2. S!Ids' = S!Ids /\ (\A id : S!Task(id)' = S!Task(id)) /\ Now' = Now
    BY <1>1, <2>1 DEF S!Ids, S!Task, S!Place, Now, Earlier
  <2>3. WaveSound' /\ WroteSound' /\ EditsHold'
    BY <1>1, <2>1, <2>2 DEF SiblingsSound, WaveSound, WroteSound, EditsHold, Overwritten, S!Declared
  <2>4. QED
    BY <1>1, <1>2, <2>1, <2>3 DEF SiblingsSound
<1>4. CASE remaining # {}
  <2>1. S!Starts(remaining) /\ phase' = "waves" /\ outcome' = outcome
    BY <1>1, <1>4 DEF S!WaveEnds
  <2>2. \A id \in S!Ids : wrote[id].files # {} =>
          wrote[id].wave \in Nat /\ wrote[id].wave < 1 + Cardinality(S!Ids \ remaining)
    <3>1. SUFFICES ASSUME NEW id \in S!Ids, wrote[id].files # {}
                   PROVE  wrote[id].wave \in Nat /\ wrote[id].wave < 1 + Cardinality(S!Ids \ remaining)
      OBVIOUS
    <3>2. PICK c, d : c = Cardinality(Earlier) /\ d = Cardinality(S!Ids \ remaining)
      OBVIOUS
    <3>3. IsFiniteSet(S!Ids \ remaining) /\ IsFiniteSet(S!Ids)
      BY Places, FS_Subset DEF SiblingsSound
    <3>4. Earlier \in SUBSET (S!Ids \ remaining)
      BY DEF Earlier
    <3>5. c \in Nat /\ d \in Nat /\ c <= d /\ (c = d => Earlier = S!Ids \ remaining)
      BY <3>2, <3>3, <3>4, FS_Subset, FS_CardinalityType
    <3>6. wrote[id].wave \in Nat /\ id \notin remaining
      BY <3>1 DEF SiblingsSound, WroteSound
    <3>7. CASE id \in DOMAIN results
      <4>1. id \in (S!Ids \ remaining) /\ id \notin Earlier
        BY <3>1, <3>6, <3>7 DEF Earlier
      <4>2. wrote[id].wave = 1 + c
        BY <3>1, <3>2, <3>7 DEF SiblingsSound, WroteSound, Now
      <4>3. QED
        BY <3>2, <3>5, <3>6, <4>1, <4>2
    <3>8. CASE id \notin DOMAIN results
      <4>1. wrote[id].wave < 1 + c
        BY <3>1, <3>2, <3>8 DEF SiblingsSound, WroteSound, Now
      <4>2. QED
        BY <3>2, <3>5, <3>6, <4>1
    <3>9. QED
      BY <3>7, <3>8
  <2>3. /\ remaining \subseteq S!Ids /\ \A id \in remaining : wrote[id].files = {}
        /\ \A id \in S!Ids : S!Task(id).files \subseteq TaskFiles
    BY <1>1 DEF SiblingsSound, WaveSound, WroteSound
  <2>4. WaveSound' /\ WroteSound' /\ EditsHold'
    BY <1>1, <2>1, <2>2, <2>3, WaveBegins
  <2>5. QED
    BY <1>1, <1>2, <2>1, <2>4 DEF SiblingsSound
<1>5. QED
  BY <1>3, <1>4

(* A task of the wave begins, and comes back with files.                    *)
LEMMA TaskKeeps ==
  ASSUME SiblingsSound, NEW id, S!createSiblings(id) \/ S!RunTask(id) \/ S!TaskThrows(id)
  PROVE  SiblingsSound'
<1>1. /\ UNCHANGED <<mode, plan, remaining, wave, primary, wrote, votes>>
      /\ phase = "waves" /\ id \in wave /\ mode # "bestOf" /\ id \in DOMAIN results /\ id \in S!Ids
  BY DEF S!createSiblings, S!RunTask, S!TaskThrows, SiblingsSound, WaveSound
<1>2. \/ results' = results /\ phase' = "over" /\ outcome'.verdict # "PASS"
      \/ /\ UNCHANGED <<phase, outcome>>
         /\ \E x : /\ results' = [results EXCEPT ![id] = x]
                   /\ x = [at |-> x.at, files |-> x.files] /\ x.files \subseteq TaskFiles
  <2>1. CASE S!TaskThrows(id)
    BY <2>1 DEF S!TaskThrows, S!Fails, S!NoOutcome
  <2>2. CASE S!createSiblings(id)
    <3>1. PICK r : r = results[id]
      OBVIOUS
    <3>2. r = [at |-> r.at, files |-> r.files] /\ r.files \subseteq TaskFiles
      BY <1>1, <3>1 DEF SiblingsSound, WaveSound
    <3>3. PICK x : x = [r EXCEPT !.at = "running"]
      OBVIOUS
    <3>4. x = [at |-> "running", files |-> r.files]
      BY <3>2, <3>3
    <3>5. results' = [results EXCEPT ![id] = x] /\ UNCHANGED <<phase, outcome>>
      BY <2>2, <3>1, <3>3 DEF S!createSiblings
    <3>6. x = [at |-> x.at, files |-> x.files] /\ x.files \subseteq TaskFiles
      BY <3>2, <3>4
    <3>7. QED
      BY <3>5, <3>6
  <2>3. CASE S!RunTask(id)
    <3>1. PICK files \in {S!Task(id).files, S!Task(id).files \cup {CHOOSE f \in TaskFiles : TRUE}} :
            results' = [results EXCEPT ![id] = [at |-> "ran", files |-> files]]
      BY <2>3 DEF S!RunTask
    <3>2. S!Task(id).files \subseteq TaskFiles
      BY <1>1 DEF SiblingsSound, WaveSound
    <3>3. files \subseteq TaskFiles
      BY <3>1, <3>2, PlansAssumption
    <3>4. PICK x : x = [at |-> "ran", files |-> files]
      OBVIOUS
    <3>5. x.files = files /\ x = [at |-> x.at, files |-> x.files] /\ UNCHANGED <<phase, outcome>>
      BY <2>3, <3>4 DEF S!RunTask
    <3>6. QED
      BY <3>1, <3>3, <3>4, <3>5
  <2>4. QED
    BY <2>1, <2>2, <2>3
<1>3. /\ DOMAIN results' = DOMAIN results
      /\ \A t \in DOMAIN results : /\ results'[t] = [at |-> results'[t].at, files |-> results'[t].files]
                                   /\ results'[t].files \subseteq TaskFiles
  <2>1. CASE results' = results
    BY <2>1 DEF SiblingsSound, WaveSound
  <2>2. ASSUME NEW x, results' = [results EXCEPT ![id] = x], x = [at |-> x.at, files |-> x.files], x.files \subseteq TaskFiles
        PROVE  <1>3!1 /\ <1>3!2
    BY <2>2 DEF SiblingsSound, WaveSound
  <2>3. QED
    BY <1>2, <2>1, <2>2
<1>4. S!Ids' = S!Ids /\ (\A t : S!Task(t)' = S!Task(t)) /\ Now' = Now
  BY <1>1, <1>3 DEF S!Ids, S!Task, S!Place, Now, Earlier
<1>5. WaveSound'
  BY <1>1, <1>3, <1>4 DEF SiblingsSound, WaveSound
<1>6. WroteSound' /\ EditsHold'
  BY <1>1, <1>3, <1>4 DEF SiblingsSound, WroteSound, EditsHold, Overwritten, S!Declared
<1>7. S!AppliedWasPassed'
  BY <1>1 DEF S!AppliedWasPassed
<1>8. QED
  BY <1>1, <1>2, <1>5, <1>6, <1>7 DEF SiblingsSound

(* The files of a task that came back go over those of the primary tree.    *)
LEMMA AppliesKeeps ==
  ASSUME SiblingsSound, S!Applies
  PROVE  SiblingsSound'
<1>1. PICK id : id = S!InPlanFirst(wave)
  OBVIOUS
<1>2. PICK files : files = results[id].files
  OBVIOUS
<1>3. /\ UNCHANGED <<mode, plan, remaining, results, votes, phase, outcome>>
      /\ phase = "waves" /\ wave # {} /\ wave' = wave \ {id}
      /\ primary' = [f \in TaskFiles |-> IF f \in files THEN S!Seen(f) \cup {id} ELSE primary[f]]
      /\ wrote' = [wrote EXCEPT ![id] = [wave |-> Now, files |-> files]]
  BY <1>1, <1>2, SiblingCardinality DEF S!Applies, Now, Earlier
<1>4. id \in wave /\ id \in DOMAIN results /\ id \in S!Ids /\ wrote[id].files = {} /\ files \subseteq TaskFiles
  BY <1>1, <1>2, <1>3, FirstIs DEF SiblingsSound, WaveSound, WroteSound
<1>5. S!Ids' = S!Ids /\ (\A t : S!Task(t)' = S!Task(t)) /\ Now' = Now
  BY <1>3 DEF S!Ids, S!Task, S!Place, Now, Earlier
<1>6. /\ DOMAIN wrote' = S!Ids /\ wrote'[id].wave = Now /\ wrote'[id].files = files
      /\ \A t \in S!Ids : t # id => wrote'[t] = wrote[t]
  BY <1>3, <1>4 DEF SiblingsSound, WroteSound
<1>7. Now \in Nat
  BY Places, FS_Subset, FS_CardinalityType DEF Now, Earlier, SiblingsSound
<1>8. WaveSound'
  BY <1>3, <1>5 DEF SiblingsSound, WaveSound
<1>9. WroteSound'
  <2>1. DOMAIN primary' = TaskFiles
    BY <1>3
  <2>2. \A t \in remaining \cup wave' : t # id /\ wrote'[t].files = {}
    BY <1>3, <1>4, <1>6 DEF SiblingsSound, WaveSound, WroteSound
  <2>3. \A t \in S!Ids : wrote'[t].files \subseteq TaskFiles
    BY <1>4, <1>6 DEF SiblingsSound, WroteSound
  <2>4. \A t \in S!Ids : wrote'[t].files # {} =>
          /\ wrote'[t].wave \in Nat
          /\ t \in DOMAIN results => wrote'[t].wave = Now
          /\ t \notin DOMAIN results => wrote'[t].wave < Now
    BY <1>4, <1>6, <1>7 DEF SiblingsSound, WroteSound
  <2>5. QED
    BY <1>3, <1>5, <1>6, <2>1, <2>2, <2>3, <2>4 DEF WroteSound
<1>10. EditsHold'
  <2>1. SUFFICES ASSUME mode \in {"sequential", "parallel"}, NEW t \in S!Ids, NEW f \in wrote'[t].files,
                        t \notin primary'[f]
                 PROVE  Overwritten(t, f)'
    BY <1>3, <1>5 DEF EditsHold
  <2>2. f \in TaskFiles
    BY <1>4, <1>6, <2>1 DEF SiblingsSound, WroteSound
  <2>3. t # id /\ f \in wrote[t].files
    BY <1>3, <1>6, <2>1, <2>2
  <2>4. t \in primary[f] \/ Overwritten(t, f)
    BY <2>1, <2>3 DEF SiblingsSound, EditsHold
  <2>5. wrote'[t] = wrote[t] /\ (S!Declared(t)' <=> S!Declared(t))
    BY <1>5, <1>6, <2>3 DEF S!Declared
  <2>6. CASE mode = "sequential"
    <3>1. t \in primary[f]
      BY <2>4, <2>6 DEF Overwritten
    <3>2. primary[f] \subseteq primary'[f]
      BY <1>3, <2>2, <2>6 DEF S!Seen
    <3>3. QED
      BY <2>1, <3>1, <3>2
  <2>7. CASE mode = "parallel" /\ f \notin files
    <3>1. Overwritten(t, f)
      BY <1>3, <2>1, <2>2, <2>4, <2>7
    <3>2. PICK u \in S!Ids : f \in wrote[u].files /\ (wrote[u].wave > wrote[t].wave \/ ~S!Declared(u) \/ ~S!Declared(t))
      BY <3>1 DEF Overwritten
    <3>3. u # id /\ wrote'[u] = wrote[u] /\ (S!Declared(u)' <=> S!Declared(u))
      BY <1>4, <1>5, <1>6, <3>2 DEF S!Declared
    <3>4. QED
      BY <1>3, <1>5, <2>5, <2>7, <3>2, <3>3 DEF Overwritten
  <2>8. CASE mode = "parallel" /\ f \in files
    <3>1. SUFFICES ASSUME S!Declared(id)', S!Declared(t)' PROVE wrote'[id].wave > wrote'[t].wave
      BY <1>3, <1>4, <1>5, <1>6, <2>8 DEF Overwritten
    <3>2. f \in S!Task(id).files /\ f \in S!Task(t).files
      BY <1>5, <1>6, <2>1, <2>8, <3>1 DEF S!Declared
    <3>3. t \notin DOMAIN results
      BY <1>4, <2>3, <2>8, <3>2 DEF SiblingsSound, WaveSound
    <3>4. wrote[t].wave \in Nat /\ wrote[t].wave < Now
      BY <2>1, <2>3, <3>3 DEF SiblingsSound, WroteSound
    <3>5. QED
      BY <1>6, <1>7, <2>5, <3>4
  <2>9. QED
    BY <2>1, <2>6, <2>7, <2>8
<1>11. S!AppliedWasPassed'
  BY <1>3 DEF SiblingsSound, S!AppliedWasPassed, S!Returned
<1>12. QED
  BY <1>3, <1>8, <1>9, <1>10, <1>11 DEF SiblingsSound

(* A file that a vote has settled on: somebody who passed has it, and it is  *)
(* theirs, or empty for one who passed without it.                          *)
Earned(f, content) ==
  /\ \E i \in DOMAIN votes : S!Returned(i, f)
  /\ \/ \E i \in DOMAIN votes : S!Returned(i, f) /\ votes[i].files[f] = content
     \/ /\ content = S!Empty
        /\ \E i \in DOMAIN votes : votes[i].verdict = "PASS" /\ f \notin DOMAIN votes[i].files

(* What a vote settles on is, file by file, of one that passed.             *)
LEMMA Settled ==
  ASSUME IsSeq(votes), S!Passed(votes) # {}
  PROVE  LET files == S!consensus(S!Passed(votes)).files
         IN  \A f \in DOMAIN files : Earned(f, files[f])
<1>1. PICK passed : passed = S!Passed(votes)
  OBVIOUS
<1>2. passed \subseteq Nat /\ passed \subseteq DOMAIN votes /\ passed # {} /\ \A i \in passed : votes[i].verdict = "PASS"
  BY <1>1, Appended DEF S!Passed
<1>3. ASSUME NEW N \in SUBSET passed, N # {} PROVE (CHOOSE i \in N : \A j \in N : i <= j) \in passed
  <2>1. \E i \in N : \A j \in N : i <= j
    BY <1>2, <1>3, Least
  <2>2. QED
    BY <2>1, Zenon
<1>4. PICK files : files = S!consensus(passed).files
  OBVIOUS
<1>5. ASSUME NEW f \in DOMAIN files
      PROVE  /\ \E N \in SUBSET passed : N # {} /\ files[f] = S!Content(votes[CHOOSE i \in N : \A j \in N : i <= j], f)
             /\ \E i \in passed : f \in DOMAIN votes[i].files
  <2> DEFINE paths == UNION {DOMAIN votes[i].files : i \in passed}
             Alike(g, i) == {j \in passed : S!fileFingerprint(S!Content(votes[j], g)) = S!fileFingerprint(S!Content(votes[i], g))}
             Voted(g) == {i \in passed : 2 * S!Cardinality(Alike(g, i)) > S!Cardinality(passed)}
  <2>1. files = [g \in paths |-> S!Content(votes[CHOOSE i \in (IF Voted(g) = {} THEN passed ELSE Voted(g)) :
                                                   \A j \in (IF Voted(g) = {} THEN passed ELSE Voted(g)) : i <= j], g)]
    BY <1>4 DEF S!consensus
  <2>2. Voted(f) \subseteq passed
    OBVIOUS
  <2> HIDE DEF Voted
  <2>3. PICK N : N = IF Voted(f) = {} THEN passed ELSE Voted(f)
    OBVIOUS
  <2>4. files[f] = S!Content(votes[CHOOSE i \in N : \A j \in N : i <= j], f)
    BY <1>5, <2>1, <2>3
  <2>5. f \in paths
    BY <1>5, <2>1
  <2>6. QED
    BY <1>2, <2>2, <2>3, <2>4, <2>5
<1>6. ASSUME NEW f \in DOMAIN files PROVE Earned(f, files[f])
  <2>1. PICK N \in SUBSET passed : N # {} /\ files[f] = S!Content(votes[CHOOSE i \in N : \A j \in N : i <= j], f)
    BY <1>5, <1>6
  <2>2. PICK i : i = CHOOSE k \in N : \A j \in N : k <= j
    OBVIOUS
  <2>3. i \in passed
    BY <1>3, <2>1, <2>2
  <2>4. files[f] = S!Content(votes[i], f)
    BY <2>1, <2>2
  <2>5. \E j \in DOMAIN votes : S!Returned(j, f)
    BY <1>2, <1>5, <1>6 DEF S!Returned
  <2>6. CASE f \in DOMAIN votes[i].files
    BY <1>2, <2>3, <2>4, <2>5, <2>6 DEF Earned, S!Content, S!Returned
  <2>7. CASE f \notin DOMAIN votes[i].files
    BY <1>2, <2>3, <2>4, <2>5, <2>7 DEF Earned, S!Content
  <2>8. QED
    BY <2>6, <2>7
<1>7. QED
  BY <1>1, <1>4, <1>6

LEMMA VotesKeep ==
  ASSUME SiblingsSound, S!Votes \/ S!runBestOfN
  PROVE  SiblingsSound'
<1>1. UNCHANGED <<mode, plan, remaining, wave, results, primary, wrote>> /\ phase = "start" /\ mode = "bestOf"
  BY DEF S!Votes, S!runBestOfN
<1>2. S!Ids' = S!Ids /\ (\A t : S!Task(t)' = S!Task(t)) /\ Now' = Now
  BY <1>1 DEF S!Ids, S!Task, S!Place, Now, Earlier
<1>3. phase' # "waves"
  BY <1>1 DEF S!Votes, S!runBestOfN, S!Fails
<1>4. WaveSound' /\ WroteSound' /\ EditsHold'
  BY <1>1, <1>2, <1>3 DEF SiblingsSound, WaveSound, WroteSound, EditsHold
<1>5. IsSeq(votes')
  <2>1. votes' = votes \/ \E c : votes' = Append(votes, c)
    BY DEF S!Votes, S!runBestOfN
  <2>2. IsSeq(votes) /\ \A c : IsSeq(Append(votes, c))
    BY Appended DEF SiblingsSound
  <2>3. QED
    BY <2>1, <2>2
<1>6. (outcome'.verdict = "PASS" => phase' = "over") /\ S!AppliedWasPassed'
  <2>1. CASE S!Votes
    BY <1>1, <2>1 DEF S!Votes, SiblingsSound, S!AppliedWasPassed
  <2>2. CASE S!runBestOfN /\ S!Passed(votes) = {}
    BY <2>2 DEF S!runBestOfN, S!Fails, S!NoOutcome, S!AppliedWasPassed
  <2>3. CASE S!runBestOfN /\ S!Passed(votes) # {}
    <3>1. phase' = "over" /\ outcome' = S!consensus(S!Passed(votes)) /\ votes' = votes
      BY <2>3 DEF S!runBestOfN
    <3>2. PICK files : files = outcome'.files
      OBVIOUS
    <3>3. \A f \in DOMAIN files : Earned(f, files[f])
      BY <2>3, <3>1, <3>2, Settled DEF SiblingsSound
    <3>4. QED
      BY <3>1, <3>2, <3>3 DEF Earned, S!AppliedWasPassed, S!Returned
  <2>4. QED
    BY <2>1, <2>2, <2>3
<1>7. QED
  BY <1>1, <1>3, <1>4, <1>5, <1>6, <1>2 DEF SiblingsSound

SiblingsHold == which = "siblings" => SiblingsSound

LEMMA SiblingsHoldAlways == Spec => []SiblingsHold
<1>1. Init => SiblingsHold
  BY SiblingsSoundInit DEF Init, SiblingsHold
<1>2. SiblingsHold /\ [Next]_vars => SiblingsHold'
  <2> SUFFICES ASSUME SiblingsHold, [Next]_vars, which = "siblings" PROVE SiblingsSound'
    BY DEF SiblingsHold, Next, vars
  <2>1. SiblingsSound
    BY DEF SiblingsHold
  <2>2. S!Next \/ UNCHANGED siblingsVars
    BY DEF Next, vars
  <2>3. CASE S!Next
    BY <2>1, <2>3, RunPlanKeeps, WaveEndsKeeps, TaskKeeps, AppliesKeeps, VotesKeep DEF S!Next
  <2>4. CASE UNCHANGED siblingsVars
    <3>1. S!Ids' = S!Ids /\ (\A t : S!Task(t)' = S!Task(t)) /\ Now' = Now
      BY <2>4 DEF siblingsVars, S!Ids, S!Task, S!Place, Now, Earlier
    <3>2. WaveSound' /\ WroteSound' /\ EditsHold' /\ S!AppliedWasPassed'
      BY <2>1, <2>4, <3>1
      DEF SiblingsSound, siblingsVars, WaveSound, WroteSound, EditsHold, Overwritten, S!Declared,
          S!AppliedWasPassed, S!Returned
    <3>3. QED
      BY <2>1, <2>4, <3>1, <3>2 DEF SiblingsSound, siblingsVars
  <2>5. QED
    BY <2>2, <2>3, <2>4
<1>3. QED
  BY <1>1, <1>2, PTL DEF Spec

(* What siblings leave in the primary worktree they are entitled to: with   *)
(* any plan, and whatever the tasks return, a plan that passed has every    *)
(* edit of every task, but for one that a task of a later wave, or a file   *)
(* that nobody declared, has overwritten; and what a vote applies is, file  *)
(* by file, the work of a sibling that passed.                              *)
THEOREM AppliedIsRightAlways == Spec => []AppliedIsRight
<1>1. SiblingsHold => AppliedIsRight
  BY DEF SiblingsHold, SiblingsSound, EditsHold, Overwritten, AppliedIsRight, S!AppliedIsRight, S!EditsKept
<1>2. QED
  BY <1>1, SiblingsHoldAlways, PTL
=============================================================================
