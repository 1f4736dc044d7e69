------------------------------- MODULE Rubric -------------------------------
(***************************************************************************)
(* The rubric an assessment of recurring work is scored with                *)
(* (src/codify/rubric.ts) and the globs it reasons about (src/gate/glob.ts).*)
(* A path or a glob is the sequence of its segments; a segment is a name,   *)
(* "*" or "**"; "" is what is left behind a trailing slash.  A value, a     *)
(* token or a pattern is a name.                                            *)
(***************************************************************************)
EXTENDS Naturals, Sequences, FiniteSets, Functions

CONSTANTS
  Assessments,  \* [verdict, inputs, decisions, posts, globs, commands, residuals, bindings]
  Clusters,     \* [members, writeRoots, deny, oracles]

  InputTypes, Provenances, OracleKinds, Verifiable, ReadonlyGit

VARIABLES assessment, cluster, result
vars == <<assessment, cluster, result>>

Rules == {"R1", "R2", "R3", "R5", "R6"}
None  == "none"

----------------------------------------------------------------------------
(* Globs.                                                                   *)

Covers(segment, name) == segment = "*" \/ segment = name

(* "**" before a slash is any number of segments, at the end one or more.   *)
matchGlob(path, glob) ==
  LET n == Len(glob)
      m == Len(path)
      M[i \in 1..n + 1, j \in 1..m + 1] ==
        \/ i = n + 1 /\ j = m + 1
        \/ i = n /\ glob[n] = "**" /\ (j <= m \/ n = 1)
        \/ i < n /\ glob[i] = "**" /\ \E k \in j..m + 1 : M[i + 1, k]
        \/ i <= n /\ j <= m /\ glob[i] # "**" /\ Covers(glob[i], path[j]) /\ M[i + 1, j + 1]
  IN M[1, 1]

matchesAny(path, globs) == \E g \in globs : matchGlob(path, g)

Tailless(glob)      == SubSeq(glob, 1, Len(glob) - 1)
Cut(glob, segment)  == IF Len(glob) > 1 /\ glob[Len(glob)] = segment THEN Tailless(glob) ELSE glob
Wipe(glob, segment) ==
  IF glob = <<>> \/ glob[Len(glob)] # segment THEN glob
  ELSE IF Len(glob) = 1 THEN <<>> ELSE Append(Tailless(glob), "")

(* What stands before the wildcards at the end of a glob.                   *)
stripGlob(glob) ==
  IF glob \in {<<"**">>, <<"*">>} THEN <<>> ELSE Wipe(Wipe(Cut(Cut(glob, "**"), "*"), "**"), "*")

Begins(path, dir) == Len(dir) <= Len(path) /\ SubSeq(path, 1, Len(dir)) = dir
Under(g, root)    == g = root \/ (Begins(g, root) /\ Len(g) > Len(root))

(* Defect: a glob above a root is taken to be below it.                     *)
EitherWay(glob, roots) ==
  \E r \in roots : LET gs == stripGlob(glob)
                       rs == stripGlob(r)
                   IN Under(gs, rs) \/ Under(rs, gs)

(* The glob is below a root, its wildcards read as names.                   *)
globCoveredBy(glob, roots) ==
  LET gs == stripGlob(glob)
  IN \/ matchesAny(glob, roots)
     \/ gs # <<>> /\ (matchesAny(gs, roots) \/ matchesAny(Append(gs, "dummy"), roots))
     \/ \E r \in roots :
          \/ glob = r
          \/ gs # <<>> /\ stripGlob(r) # <<>> /\ Under(gs, stripGlob(r))

(* One glob, read as a path, is matched by the other or stands below it:    *)
(* "src/**" and "**/tests/**" are found apart.                              *)
globsIntersect(a, b) ==
  LET sa == stripGlob(a)
      sb == stripGlob(b)
      Meets(g, sg, h, sh) ==
        matchGlob(g, h) \/ Under(sg, sh) \/ matchGlob(sg, h) \/ matchGlob(Append(sg, "x"), h)
  IN a = b \/ sa = <<>> \/ sb = <<>> \/ Meets(a, sa, b, sb) \/ Meets(b, sb, a, sa)

----------------------------------------------------------------------------
(* The rules.  Each names the reasons it fails for; R4 and R7 are no part   *)
(* of an assessment.                                                        *)

constantValues(a, inp) ==
  {v \in {inp.value} \cup {b.value : b \in {c \in a.bindings : c.name = inp.name}} : v # None}

scoreR1(a, c) ==
  \/ Cardinality(a.inputs) > 6
  \/ \E inp \in a.inputs : inp.type \notin InputTypes \/ inp.provenance \notin Provenances
  \/ a.residuals # {}
  \/ /\ Cardinality(c.members) = 1
     /\ \E m \in c.members, inp \in a.inputs :
          inp.provenance = "constant" /\ constantValues(a, inp) \cap m.title # {}

First(branches) == IF branches = <<>> THEN None ELSE Head(branches)

(* Without an oracle of the caller's a decision is for its first branch or  *)
(* for none at all.                                                         *)
defaultOracle(d, m) ==
  LET there == d.file \in DOMAIN m.tree
  IN IF \/ d.oracle = "input"
        \/ d.oracle = "fs" /\ there /\ (d.pattern = None \/ d.pattern \in m.tree[d.file])
        \/ d.oracle = "regex" /\ there /\ d.pattern # None /\ d.pattern \in m.tree[d.file]
     THEN First(d.branches) ELSE None

selectBranch(c, d, m) ==
  IF <<d.id, m.run>> \in DOMAIN c.oracles THEN c.oracles[<<d.id, m.run>>] ELSE defaultOracle(d, m)

Observed(d, m) == IF d.id \in DOMAIN m.observed THEN m.observed[d.id] ELSE First(d.branches)

ForRun(b, m)        == b.run \in {None, m.run}
coveredTokens(a, m) ==
  {inp.name : inp \in a.inputs} \cup {inp.value : inp \in a.inputs}
    \cup {b.value : b \in {x \in a.bindings : ForRun(x, m)}} \cup UNION {Range(d.branches) : d \in a.decisions}
bindingCovers(a, m, lit) ==
  \/ \E inp \in a.inputs : inp.value = lit
  \/ \E b \in a.bindings : b.value = lit /\ ForRun(b, m)

scoreR2(a, c) ==
  \/ \E d \in a.decisions : d.oracle \notin OracleKinds
  \/ \E d \in a.decisions, m \in c.members :
       selectBranch(c, d, m) = None \/ Observed(d, m) \notin {None, selectBranch(c, d, m)}
  \/ \E m \in c.members : ~(m.tokens \subseteq coveredTokens(a, m))

isReadonlyGitCommand(cmd) == cmd[1] = "git" /\ (Len(cmd) = 1 \/ cmd[2] \in ReadonlyGit)
isVerifiablePostcondition(pc) == pc # <<>> /\ (pc[1] \in Verifiable \/ isReadonlyGitCommand(pc))

scoreR3(a) == a.posts = {} \/ \E pc \in a.posts : ~isVerifiablePostcondition(pc)

scoreR5(a, c) ==
  \/ \E g \in a.globs : ~globCoveredBy(g, c.writeRoots) \/ \E d \in c.deny : globsIntersect(g, d)
  \/ \E cmd \in a.commands : ~isReadonlyGitCommand(cmd)

scoreR6(a, c) == \E m \in c.members, lit \in UNION {m2.literals : m2 \in c.members} :
                   lit \in m.literals /\ ~bindingCovers(a, m, lit)

Failed(a, c) == {r \in Rules : \/ r = "R1" /\ scoreR1(a, c)
                               \/ r = "R2" /\ scoreR2(a, c)
                               \/ r = "R3" /\ scoreR3(a)
                               \/ r = "R5" /\ scoreR5(a, c)
                               \/ r = "R6" /\ scoreR6(a, c)}

scoreAssessment(a, c) ==
  LET failed == Failed(a, c)
  IN [verdict |-> IF failed # {} THEN "not-codifiable" ELSE a.verdict, failed |-> failed]

----------------------------------------------------------------------------
Unscored == [verdict |-> None, failed |-> {}]

Init == assessment \in Assessments /\ cluster \in Clusters /\ result = Unscored

(* The caller has the assessment scored against the cluster.                *)
Score ==
  /\ result = Unscored
  /\ result' = scoreAssessment(assessment, cluster)
  /\ UNCHANGED <<assessment, cluster>>

(* The assessor answers a refusal with another assessment.                  *)
Reassess ==
  /\ result.verdict = "not-codifiable"
  /\ assessment' \in Assessments
  /\ result' = Unscored
  /\ UNCHANGED cluster

Next == Score \/ Reassess
Spec == Init /\ [][Next]_vars

----------------------------------------------------------------------------
Names  == (UNION {Range(g) : g \in UNION {a.globs : a \in Assessments} \cup UNION {c.writeRoots : c \in Clusters}})
            \ {"*", "**", ""}
Paths  == UNION {[1..n -> Names] : n \in 1..3}

Loosely(root) == [i \in DOMAIN root |-> IF root[i] = "*" THEN "**" ELSE root[i]]
Above(path, root) == Begins(stripGlob(root), path)
Below(path, root) == stripGlob(root) = root /\ Begins(path, root)

(* Whatever the globs of an accepted assessment let a codified tool write   *)
(* is in a write root of the cluster's kind: the rubric compares globs with *)
(* globs, as texts, and never asks which paths they stand for.  A root with *)
(* no wildcard is a file, nothing is below it, and what stands above the    *)
(* wildcard of another is a directory.  "packages/**/src/x" is found in     *)
(* "packages/*/src/**", so a "*" of a root is as good as a "**".            *)
AcceptedIsInside ==
  result.verdict = "codifiable" =>
    \A g \in assessment.globs, p \in Paths :
      matchGlob(p, g) => \E r \in cluster.writeRoots : matchGlob(p, Loosely(r)) \/ Above(p, r) \/ Below(p, r)
=============================================================================
