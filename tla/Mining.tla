------------------------------- MODULE Mining -------------------------------
(***************************************************************************)
(* Where codified tools come from (src/codify/seeds.ts, inbox.ts, miner.ts, *)
(* shapes.ts, roi.ts and the scan of src/commands/codify.ts).  A writer     *)
(* stage that passed leaves a seed for every script it made and ran; the    *)
(* published runs and the seeds share one inbox, which a landing rewrites;  *)
(* a scan clusters the executions of the runs in it by signature.           *)
(***************************************************************************)
EXTENDS Naturals, Sequences, FiniteSets, FiniteSetsExt

CONSTANTS
  Runs, Scripts,
  Executions,                \* what the runs' execution.json may hold: run -> [signature, stage, features, traits, elevated, barred]
  Published,                 \* eligibility is "published": what has not landed counts
  MinRecurrence, MaxCandidates,
  MaxRounds, MaxRows         \* bounds

VARIABLES
  execution,   \* run -> its execution.json
  round,       \* run -> rounds of its writer stage so far
  seeding,     \* the seeding under way: run, scripts to come, number of the next, round
  seeds,       \* run and number -> script and round of the file
  inbox,       \* rows: run, kind, number and script of a seed, landed
  stamp,       \* a landing's rewrite: its run and the rows it read
  cooling,     \* signatures rejected within the cooldown
  candidates   \* of the scan just made
vars == <<execution, round, seeding, seeds, inbox, stamp, cooling, candidates>>

NoSeeding == [run |-> "none", todo |-> <<>>, n |-> 0]
NoStamp   == [run |-> "none", rows |-> <<>>]
Never     == {"steer", "review", "security", "judge", "gate", "diagnose", "design"}

-----------------------------------------------------------------------------
(* Seeds.                                                                   *)

(* A script counts when it is there and an interpreter ran it, or the worker*)
(* declared it.                                                             *)
detectSeeds(made) ==
  LET found == {s \in DOMAIN made : made[s] \in {"ran", "declared"}}
  IN  CHOOSE list \in [1 .. Cardinality(found) -> found] : IsInjective(list)

SeedRow(r, n, s) == [run |-> r, kind |-> "seed", n |-> n, script |-> s, round |-> round[r], landed |-> FALSE]
PublishedRow(r)  == [run |-> r, kind |-> "published", n |-> 0, script |-> "none", round |-> 0, landed |-> FALSE]

seedAfterWriterStage(r) ==
  /\ seeding = NoSeeding /\ MapThenSumSet(LAMBDA x : round[x], Runs) < MaxRounds
  /\ \E made \in [Scripts -> {"absent", "made", "ran", "declared"}] :
       seeding' = [run |-> r, todo |-> detectSeeds(made), n |-> 0]
  /\ round' = [round EXCEPT ![r] = @ + 1]
  /\ UNCHANGED <<execution, seeds, inbox, stamp, cooling>>

(* Defect: the number stays behind.                                         *)
NextSame(n) == n
NextNumber(n) == n + 1

(* The file is written, then its row; numbers begin at nought every round.  *)
snapshotSeed ==
  /\ seeding.todo # <<>> /\ Len(inbox) < MaxRows
  /\ LET r == seeding.run  s == Head(seeding.todo)  row == SeedRow(r, seeding.n, s) IN
     /\ seeds' = [seeds EXCEPT ![<<r, seeding.n>>] = [script |-> s, round |-> round[r]]]
     /\ inbox' = Append(inbox, row)
  /\ seeding' = [seeding EXCEPT !.todo = Tail(@), !.n = NextNumber(@)]
  /\ UNCHANGED <<execution, round, stamp, cooling>>

(* A script that cannot be read, or a row that cannot be appended, ends the *)
(* seeding and not the stage.                                               *)
SeedFails ==
  /\ seeding # NoSeeding /\ seeding' = NoSeeding
  /\ seeds' \in {seeds} \cup (IF seeding.todo = <<>> THEN {}
                              ELSE {[seeds EXCEPT ![<<seeding.run, seeding.n>>] =
                                      [script |-> Head(seeding.todo), round |-> round[seeding.run]]]})
  /\ UNCHANGED <<execution, round, inbox, stamp, cooling>>

SeedingEnds ==
  /\ seeding # NoSeeding /\ seeding.todo = <<>> /\ seeding' = NoSeeding
  /\ UNCHANGED <<execution, round, seeds, inbox, stamp, cooling>>

-----------------------------------------------------------------------------
(* The inbox.                                                               *)

appendCodifyInbox(r) ==
  /\ Len(inbox) < MaxRows /\ inbox' = Append(inbox, PublishedRow(r))
  /\ UNCHANGED <<execution, round, seeding, seeds, stamp, cooling>>

StampReads(r) ==
  /\ stamp = NoStamp /\ inbox # <<>> /\ stamp' = [run |-> r, rows |-> inbox]
  /\ UNCHANGED <<execution, round, seeding, seeds, inbox, cooling>>

(* Defect: the file is left with the rows of the run.                       *)
StampedAlone(rows, r) == SelectSeq([i \in DOMAIN rows |-> [rows[i] EXCEPT !.landed = @ \/ rows[i].run = r]],
                                   LAMBDA row : row.run = r)

(* Every row of the run is stamped, its seeds' too.                         *)
Stamped(rows, r) == [i \in DOMAIN rows |-> [rows[i] EXCEPT !.landed = @ \/ rows[i].run = r]]

(* The rows as they were read replace the file, unless none was the run's.  *)
stampLanded ==
  /\ stamp # NoStamp /\ stamp' = NoStamp
  /\ inbox' = IF \E i \in DOMAIN stamp.rows : stamp.rows[i].run = stamp.run THEN Stamped(stamp.rows, stamp.run) ELSE inbox
  /\ UNCHANGED <<execution, round, seeding, seeds, cooling>>

-----------------------------------------------------------------------------
(* The miner.                                                               *)

Weight(f) == CASE f = "reproducible" -> 35 [] f = "substitution" -> 20 [] f = "sourced" -> 15
               [] f = "noFixRounds" -> 10 [] f = "lowEffort" -> 10 [] OTHER -> 5
scoreFeatures(ex) == MapThenSumSet(Weight, ex.features)

(* The first shape whose traits the change has.                             *)
Shapes == <<[shape |-> "version-bump", of |-> {"semver", "manifest", "lock"}],
            [shape |-> "dependency-companion", of |-> {"manifest", "lock"}],
            [shape |-> "changelog-entry", of |-> {"changelog"}], [shape |-> "codegen-docs", of |-> {"generated"}],
            [shape |-> "boilerplate-from-sibling", of |-> {"similar adds"}],
            [shape |-> "migration-scaffold", of |-> {"migration"}], [shape |-> "rename", of |-> {"rename"}],
            [shape |-> "config-toggle", of |-> {"config"}], [shape |-> "header-insertion", of |-> {"header"}],
            [shape |-> "formatting-only", of |-> {"format"}]>>
detectMechanicalShape(ex) ==
  LET hits == SelectSeq(Shapes, LAMBDA s : s.of \subseteq ex.traits) IN IF hits = <<>> THEN "none" ELSE Head(hits).shape

isNeverCandidate(ex) == ex.stage \in Never \/ ex.barred \/ ex.signature \in cooling
isEligible(row) == row.landed \/ Published

(* One execution for every row of the run in the inbox: a cluster is the     *)
(* places of its rows.                                                      *)
clusterExecutions ==
  LET counted == {i \in DOMAIN inbox : isEligible(inbox[i]) /\ ~isNeverCandidate(execution[inbox[i].run])}
      signature(i) == execution[inbox[i].run].signature
  IN [sig \in {signature(i) : i \in counted} |-> {i \in counted : signature(i) = sig}]

Score(cluster) == MapThenSumSet(LAMBDA i : scoreFeatures(execution[inbox[i].run]), cluster)
HeadShape(cluster) == detectMechanicalShape(execution[inbox[Min(cluster)].run])

(* Defect: one is enough to recur.                                          *)
CandidateOfOne(cluster) == Score(cluster) >= 50 * Cardinality(cluster)

(* Many of them that score a half each, or one alone that scores 0.7 and has*)
(* a shape; one alone of an elevated run never is.                          *)
toCandidate(cluster) ==
  LET n == Cardinality(cluster)
  IN  /\ n = 1 => \A i \in cluster : ~execution[inbox[i].run].elevated
      /\ \/ n >= MinRecurrence /\ Score(cluster) >= 50 * n
         \/ n = 1 /\ Score(cluster) >= 70 /\ HeadShape(cluster) # "none"

(* The mean, and a point for every member that landed and survived.         *)
rankScore(cluster) ==
  (Score(cluster) \div Cardinality(cluster)) + 100 * Cardinality({i \in cluster : inbox[i].landed})

(* The best are kept, up to the number of one run; the admission is asked   *)
(* with inputs that pass.                                                   *)
scanCodify ==
  /\ inbox # <<>>
  /\ LET clusters == clusterExecutions
         good     == {sig \in DOMAIN clusters : toCandidate(clusters[sig])}
         Ahead(sig) == {o \in good : rankScore(clusters[o]) > rankScore(clusters[sig])}
     IN candidates' = {[signature |-> sig, runs |-> {inbox[i].run : i \in clusters[sig]},
                        rows |-> Cardinality(clusters[sig]), shape |-> HeadShape(clusters[sig])] :
                          sig \in {s \in good : Cardinality(Ahead(s)) < MaxCandidates}}
  /\ UNCHANGED <<execution, round, seeding, seeds, inbox, stamp, cooling>>

(* A person turns a candidate down; its cooldown ends.                      *)
Reject ==
  /\ \E c \in candidates : cooling' = cooling \cup {c.signature}
  /\ UNCHANGED <<execution, round, seeding, seeds, inbox, stamp>>
cooldownActive ==
  /\ cooling # {} /\ cooling' = {} /\ UNCHANGED <<execution, round, seeding, seeds, inbox, stamp>>

Init ==
  /\ execution \in Executions /\ round = [r \in Runs |-> 0] /\ seeding = NoSeeding
  /\ seeds = [s \in Runs \X (0 .. Cardinality(Scripts)) |-> [script |-> "none", round |-> 0]]
  /\ inbox = <<>> /\ stamp = NoStamp
  /\ cooling = {} /\ candidates = {}

Next ==
  \/ scanCodify
  \/ /\ \/ \E r \in Runs : seedAfterWriterStage(r) \/ appendCodifyInbox(r) \/ StampReads(r)
        \/ snapshotSeed \/ SeedFails \/ SeedingEnds \/ stampLanded \/ Reject \/ cooldownActive
     /\ candidates' = {}
Spec == Init /\ [][Next]_vars

-----------------------------------------------------------------------------
Plain(row) == [row EXCEPT !.landed = FALSE]

(* inbox.ts:70-92: what was appended is still there after any landing's     *)
(* rewrite, but for the rows that came between its read and its rename.     *)
RowKept ==
  \A i \in DOMAIN inbox : stamp = NoStamp \/ i <= Len(stamp.rows) =>
    \E j \in DOMAIN inbox' : Plain(inbox'[j]) = Plain(inbox[i])

(* seeds.ts:259-289: a seed's row leads to the script it was written for,   *)
(* unless a later round of the stage has written over the file.             *)
SeedRowTells ==
  \A i \in DOMAIN inbox : inbox[i].kind = "seed" =>
    LET file == seeds[<<inbox[i].run, inbox[i].n>>] IN file.script = inbox[i].script \/ file.round > inbox[i].round

(* miner.ts:124-131: a candidate without a shape recurs in as many runs as  *)
(* asked for, or one of its runs has several rows in the inbox.             *)
CandidateRecurs ==
  \A c \in candidates : c.shape = "none" => Cardinality(c.runs) >= MinRecurrence \/ c.rows > Cardinality(c.runs)

(* What mining reports, rows and candidates, is what the runs did.          *)
MinedIsTrue == SeedRowTells /\ CandidateRecurs
=============================================================================
