-------------------------------- MODULE Intake --------------------------------
(***************************************************************************)
(* How a tracker's ticket becomes ready or is parked: a poll claims it       *)
(* (scheduler/poller.ts, claim.ts), two analysts read it, a third if they    *)
(* disagree (intake/analyze.ts), their briefs are merged (merge-samples.ts), *)
(* rated (confidence.ts), held against the Definition of Ready (dor.ts) and   *)
(* routed (route.ts); a parked ticket is commented on and labelled           *)
(* (scheduler/intake-claim.ts). A person may edit the ticket and label it    *)
(* again at any time. /factory start takes what is ready.                    *)
(*                                                                          *)
(* A text is what the patterns of intake find in it, a brief what its fields  *)
(* hold; the samples are not bounded in time (poller passes no timeout).     *)
(*                                                                          *)
(* A definition whose comment begins with "Defect" is wrong on purpose and  *)
(* unused: the properties are tested by putting it in place of the next.    *)
(***************************************************************************)
EXTENDS Integers, Sequences, FiniteSets, FiniteSetsExt

CONSTANTS
  Texts,     \* what a ticket's text can be: records of the facts below
  Briefs,    \* what an analyst may answer
  Analyst,   \* whether the scheduler was given an analyst
  Risky,     \* the paths that are risk paths
  NoKind,
  MaxEdits   \* bound: edits by people

VARIABLES
  read,      \* the text as the poll listed it
  text,      \* of the ticket: [kindLabel, prior, short, question, epic, failure, command, repro, suspect, paths]
  labels,    \* the factory's labels on it
  entry,     \* the queue's entry of it
  phase,     \* of the intake under way
  answers,   \* slot -> brief, or why there is none
  basis,     \* history: the text and the samples the entry was decided on
  told,      \* a comment said why the ticket is parked
  polled,    \* what the last poll did with the ticket
  edits

vars == <<text, read, labels, entry, phase, answers, basis, told, polled, edits>>

Kinds  == {"feature", "enhancement", "bug", "chore"}
Parked == {"needs-info", "needs-triage"}
TERMINAL_QUEUE_STATES == {"landed", "closed", "abandoned"}
NoEntry == [state |-> "none", kind |-> NoKind, tier |-> "low", confidence |-> "none"]
NoBasis == [text |-> {}, samples |-> <<>>]

Slots   == {"A", "B", "tiebreak"}
Pending == [is |-> "pending"]
Failed  == [is |-> "failed"]   \* it threw, or parseBrief refused the answer

-----------------------------------------------------------------------------
(* Merging the briefs: sequences of samples.                                *)

(* What most samples say; of two, what was said first.                       *)
Majority(said) ==
  LET count(v) == Cardinality({i \in DOMAIN said : said[i] = v})
      first    == CHOOSE i \in DOMAIN said :
                    /\ \A j \in DOMAIN said : count(said[j]) <= count(said[i])
                    /\ \A j \in 1 .. i - 1 : count(said[j]) < count(said[i])
  IN  said[first]

quotedCount(b) == Cardinality({c \in b.criteria : c.source = "quoted"})

pickAcceptance(samples) ==
  LET best == CHOOSE i \in DOMAIN samples :
                /\ \A j \in DOMAIN samples : quotedCount(samples[j]) <= quotedCount(samples[i])
                /\ \A j \in 1 .. i - 1 : quotedCount(samples[j]) < quotedCount(samples[i])
  IN  samples[best].criteria

(* In sixths: a sample has up to three criteria, of one token each.          *)
jaccard(a, b) == IF a = {} /\ b = {} THEN 6 ELSE (6 * Cardinality(a \cap b)) \div Cardinality(a \cup b)
sampleTokenSet(b) == {c.text : c \in b.criteria}

(* acAgreement(samples) < 0.5                                               *)
Disagree(samples) ==
  LET pairs    == {p \in (DOMAIN samples) \X (DOMAIN samples) : p[1] < p[2]}
      alike(p) == jaccard(sampleTokenSet(samples[p[1]]), sampleTokenSet(samples[p[2]]))
  IN  pairs # {} /\ MapThenSumSet(alike, pairs) < 3 * Cardinality(pairs)

(* A duplicate is one that every sample names.                               *)
intersectDuplicates(samples) ==
  LET named == {samples[i].duplicate : i \in DOMAIN samples}
  IN  IF Cardinality(named) = 1 THEN samples[1].duplicate ELSE FALSE

Field(samples, f) == [i \in DOMAIN samples |-> samples[i][f]]
Union(samples, f) == UNION {samples[i][f] : i \in DOMAIN samples}

mergeSamples(samples) ==
  LET present == {i \in DOMAIN samples : samples[i].repro}
  IN  [kind |-> Majority(Field(samples, "kind")), size |-> Majority(Field(samples, "size")),
       flags |-> Union(samples, "flags"), paths |-> Union(samples, "paths"), questions |-> Union(samples, "questions"),
       repro |-> 2 * Cardinality(present) >= Len(samples), criteria |-> pickAcceptance(samples),
       duplicate |-> intersectDuplicates(samples), confidence |-> "none"]

-----------------------------------------------------------------------------
(* What the host makes of it.                                              *)

downgrade(level) == IF level = "HIGH" THEN "MEDIUM" ELSE "LOW"

(* Defect: most samples are enough, so that the third analyst settles it.     *)
computeConfidenceByMost(samples, prior) ==
  LET kind  == Majority(Field(samples, "kind"))
      most  == 2 * Cardinality({i \in DOMAIN samples : samples[i].kind = kind}) > Len(samples)
      level == CASE ~most -> "LOW" [] prior = kind -> "HIGH" [] OTHER -> "MEDIUM"
  IN  IF Disagree(samples) THEN downgrade(level) ELSE level

computeConfidence(samples, prior) ==
  LET unanimous == Len(samples) >= 2 /\ \A i \in DOMAIN samples : samples[i].kind = samples[1].kind
      level     == IF ~unanimous THEN "LOW" ELSE IF prior = samples[1].kind THEN "HIGH" ELSE "MEDIUM"
  IN  IF Disagree(samples) THEN downgrade(level) ELSE level

ELEVATED_FLAGS == {"security", "needsDeps", "touchesMigrations", "injectionSuspect"}

computeTier(b) ==
  IF \/ b.flags \cap ELEVATED_FLAGS # {}
     \/ b.kind = "feature" /\ (b.confidence = "MEDIUM" \/ b.size = "L")
     \/ b.paths \cap Risky # {}
  THEN "elevated" ELSE "low"

Rated(b, level) == [b EXCEPT !.confidence = level]
withScreen(b, t) == IF t.suspect THEN [b EXCEPT !.flags = @ \cup {"injectionSuspect"}] ELSE b

HostBrief(kind, level, repro, paths) ==
  [kind |-> kind, flags |-> {}, size |-> "M", repro |-> repro, criteria |-> {}, paths |-> paths, questions |-> {},
   duplicate |-> FALSE, confidence |-> level]

fallbackBrief(prior) ==
  [HostBrief(IF prior = NoKind THEN "chore" ELSE prior, "LOW", FALSE, {}) EXCEPT !.questions = {"intake samples failed"}]

(* A person's label: no analyst is asked, and nobody names criteria.         *)
hostOverrideBrief(t) == HostBrief(t.kindLabel, "HIGH", t.repro, t.paths)

runIntakeAnalysis(t, samples) ==
  withScreen(IF t.kindLabel # NoKind THEN hostOverrideBrief(t)
             ELSE IF samples = <<>> THEN fallbackBrief(t.prior)
             ELSE Rated(mergeSamples(samples), computeConfidence(samples, t.prior)), t)

Sourced(b) == \E c \in b.criteria : c.source \in {"quoted", "derived"}

evaluateDoR(b, t) ==
  /\ ~t.short /\ ~t.question /\ ~t.epic
  /\ ~b.duplicate
  /\ b.size # "XL"
  /\ b.kind # "chore" => Sourced(b)
  /\ b.kind = "feature" \/ (b.kind = "enhancement" /\ b.confidence = "MEDIUM") => b.questions = {}
  /\ b.kind = "bug" => b.repro \/ t.failure
  /\ b.kind = "chore" => b.paths # {} \/ t.paths # {} \/ t.command

routeBrief(b) ==
  CASE b.kind # "chore" /\ ~Sourced(b) -> "needs-info"
    [] b.confidence = "LOW" -> "needs-triage"
    [] OTHER -> "proceed"

-----------------------------------------------------------------------------

Init ==
  /\ text \in Texts /\ read = text
  /\ labels = {"ready"}
  /\ entry = NoEntry /\ phase = "idle"
  /\ answers = [s \in Slots |-> Pending]
  /\ basis = NoBasis /\ told = FALSE /\ polled = "none" /\ edits = 0

(* The poll: a ticket with an open entry is left alone, label and all.        *)
claimTicket ==
  /\ phase = "idle" /\ "ready" \in labels
  /\ read' = text
  /\ IF entry.state # "none" /\ entry.state \notin TERMINAL_QUEUE_STATES
     THEN polled' = "deduped" /\ UNCHANGED <<labels, entry, phase, answers>>
     ELSE /\ polled' = "claimed"
          /\ labels' = (labels \ {"ready"}) \cup {"in-progress"}
          /\ entry' = [NoEntry EXCEPT !.state = "classifying"]
          /\ phase' = IF text.kindLabel # NoKind THEN "settle" ELSE IF Analyst THEN "sample" ELSE "idle"
          /\ answers' = [s \in Slots |-> Pending]
  /\ UNCHANGED <<text, basis, told, edits>>

(* sampleOnce: A and B are asked together and answer in any order; a third    *)
(* is asked when both answered and disagree about the kind.                   *)
Split(got) == got["A"].is = "brief" /\ got["B"].is = "brief" /\ got["A"].kind # got["B"].kind
sampleOnce(s) ==
  /\ phase = IF s = "tiebreak" THEN "tie" ELSE "sample"
  /\ answers[s] = Pending
  /\ \E a \in Briefs \cup {Failed} :
       LET got == [answers EXCEPT ![s] = a]
       IN  /\ answers' = got
           /\ phase' = IF s # "tiebreak" /\ Pending \in {got["A"], got["B"]} THEN "sample"
                       ELSE IF s # "tiebreak" /\ Split(got) THEN "tie" ELSE "settle"
  /\ UNCHANGED <<text, read, labels, entry, basis, told, polled, edits>>

(* What came back, in the order asked.                                       *)
Said(s)   == IF answers[s].is = "brief" THEN <<answers[s]>> ELSE <<>>
Collected == Said("A") \o Said("B") \o Said("tiebreak")

(* applyIntake after the analysis: the state of the entry; a ticket the route *)
(* turns away is told so. A call that fails throws past the entry's save.     *)
applyIntake ==
  LET b      == runIntakeAnalysis(read, Collected)
      ready  == evaluateDoR(b, read)
      route  == routeBrief(b)
      state  == IF route # "proceed" THEN route ELSE IF ready THEN "ready" ELSE "needs-info"
  IN  /\ phase = "settle" /\ phase' = "idle"
      /\ basis' = [text |-> read, samples |-> Collected]
      /\ answers' = [s \in Slots |-> Pending]
      /\ \/ /\ entry' = [state |-> state, kind |-> b.kind, tier |-> computeTier(b), confidence |-> b.confidence]
            /\ told' = (route # "proceed")
            /\ labels' = labels \cup (IF route # "proceed" THEN {"needs-triage"} ELSE {})
         \/ /\ route # "proceed"
            /\ entry' = NoEntry /\ UNCHANGED labels
            /\ told' \in BOOLEAN
      /\ UNCHANGED <<text, read, polled, edits>>

(* A person edits the ticket and asks for it again.                          *)
Edit ==
  /\ edits < MaxEdits /\ edits' = edits + 1
  /\ text' \in Texts
  /\ labels' = labels \cup {"ready"}
  /\ polled' = "none"
  /\ UNCHANGED <<read, entry, phase, answers, basis, told>>

(* /factory start asks the local tracker for the ticket of a ready entry,     *)
(* whatever tracker it is of (controller/register.ts:141, start.ts:46).       *)
fetch(tracker) == IF tracker = "local" THEN "running" ELSE "blocked"
runStart ==
  /\ phase = "idle" /\ entry.state = "ready"
  /\ entry' = [entry EXCEPT !.state = fetch("github")]
  /\ UNCHANGED <<text, read, labels, phase, answers, basis, told, polled, edits>>

Next == claimTicket \/ (\E s \in Slots : sampleOnce(s)) \/ applyIntake \/ Edit \/ runStart

Spec == Init /\ [][Next]_vars

-----------------------------------------------------------------------------
Agreed(s, kind) == Len(s) = 2 /\ s[1].kind = kind /\ s[2].kind = kind
Warned(t, s)    == t.suspect \/ \E i \in DOMAIN s : s[i].flags \cap ELEVATED_FLAGS # {} \/ s[i].paths \cap Risky # {}

(* A ticket is ready for a run only as a chore that a person called one, or as *)
(* what two analysts called it without a third; with criteria that one of them *)
(* drew from the text, but for a chore; and whatever any of them, or the text,  *)
(* warned of is in its tier. A ticket is parked without a word only if it is     *)
(* classified and merely not ready, and stays unclassified only where nobody     *)
(* could be asked (intake/analyze.ts:168-211, scheduler/intake-claim.ts:39-88).  *)
ReadyIsAgreed ==
  LET t == basis.text  s == basis.samples
  IN  /\ entry.state = "ready" =>
           /\ \/ t.kindLabel = "chore" /\ s = <<>> /\ entry.kind = "chore"
              \/ Agreed(s, entry.kind) /\ entry.confidence # "LOW"
           /\ entry.kind = "chore" \/ \E i \in DOMAIN s : Sourced(s[i])
           /\ Warned(t, s) => entry.tier = "elevated"
      /\ entry.state \in Parked /\ ~told =>
           /\ Agreed(s, entry.kind) \/ t.kindLabel = "chore"
           /\ ~evaluateDoR(Rated(IF s = <<>> THEN hostOverrideBrief(t) ELSE mergeSamples(s), entry.confidence), t)
      /\ entry.state = "classifying" /\ phase = "idle" => ~Analyst

(* A parked ticket that is labelled again is read again, as its comment says   *)
(* (intake/route.ts:73).                                                      *)
ReAddedIsHeard == ~(polled = "deduped" /\ entry.state \in Parked)

(* A ready ticket that is taken is run.                                      *)
ReadyIsRun == entry.state # "blocked"
=============================================================================
