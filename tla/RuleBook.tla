------------------------------- MODULE RuleBook -------------------------------
(***************************************************************************)
(* The operator's rules (src/rules/): /factory remember and forget read the  *)
(* effective rules, then read one rules file, change the copy and write it   *)
(* back, without a lock; a worker's prompt gets the rules in its scope, the   *)
(* most specific first, up to a bound.                                       *)
(*                                                                          *)
(* Two sessions may run the commands at once. A file is written in place:     *)
(* between the truncation and the text a reader finds nothing (and a file     *)
(* that does not parse reads as no rules). A text is the set of its words.    *)
(*                                                                          *)
(* A definition whose comment begins with "Defect" is wrong on purpose and  *)
(* unused: the properties are tested by putting it in place of the next.    *)
(***************************************************************************)
EXTENDS Naturals, Sequences, FiniteSets, TLC

CONSTANTS
  Procs,        \* the sessions
  Sayings,      \* what may be remembered: [words, stem, class, stages, kind, lane, screened, size]; no stages: any
  Builtin,      \* the built-in rule, locked: a rule as below
  Stages, Kinds,
  MAX_RULES,    \* of a prompt
  MAX_BYTES,    \* of a prompt; a rule takes its size, the end of its line included
  Commands      \* bound: commands given

Global == "global"
Files  == {Global, "local"}   \* the operator's file and that of the repository

VARIABLES
  file,      \* file -> its rules
  proc,      \* session -> the command it runs
  said,      \* history: file -> the rules as the operator left them
  crossed,   \* history: the files on which two commands, or a crash, crossed
  given

vars == <<file, proc, said, crossed, given>>

NoRule == [id |-> <<"none", 0>>]
AtRest == [pc |-> "idle", at |-> Global, rule |-> NoRule, copy |-> <<>>]

-----------------------------------------------------------------------------
(* The layers: built in, global, local; a locked rule stays what it was.      *)

overlay(acc, rules, layer) ==
  LET Put(a, r) == IF r.id \in DOMAIN a /\ a[r.id].rule.status = "locked" THEN a
                   ELSE (r.id :> [rule |-> r, layer |-> layer]) @@ a
      upTo[n \in 0 .. Len(rules)] == IF n = 0 THEN acc ELSE Put(upTo[n - 1], rules[n])
  IN  upTo[Len(rules)]

(* What a command sees that was given the repository, or --global.           *)
loadEffectiveRules(fs, withRepo) ==
  LET builtin == Builtin.id :> [rule |-> Builtin, layer |-> "builtin"]
      global  == overlay(builtin, fs[Global], Global)
  IN  IF withRepo THEN overlay(global, fs["local"], "local") ELSE global

live(r) == r.status \in {"active", "locked"}
tokenSetSimilar(a, b) == 10 * Cardinality(a \cap b) >= 6 * Cardinality(a \cup b)

(* Defect: the number is not looked for.                                     *)
allocateIdOfWords(stem, taken) == <<stem, 1>>

(* The stem of the day and the words, and the first number that is free.      *)
allocateId(stem, taken) ==
  <<stem, CHOOSE n \in 1 .. Cardinality(taken) + 1 :
            <<stem, n>> \notin taken /\ \A m \in 1 .. n - 1 : <<stem, m>> \in taken>>

-----------------------------------------------------------------------------
(* The prompt.                                                             *)

applies(r, stage, kind) ==
  /\ live(r)
  /\ r.stages = {} \/ stage \in r.stages
  /\ r.kind \in {"*", kind}
  /\ stage \in {"review", "judge"} => r.class # "guidance"

ruleSpecificity(r) ==
  (IF r.lane # "*" THEN 4 ELSE 0) + (IF r.kind # "*" THEN 2 ELSE 0) + (IF r.stages # {} THEN 1 ELSE 0)

(* Ids in the order of their letters: the order the operator gave them in.    *)
Before(r, s) ==
  \/ ruleSpecificity(r) > ruleSpecificity(s)
  \/ ruleSpecificity(r) = ruleSpecificity(s) /\ s = Builtin /\ r # Builtin
  \/ ruleSpecificity(r) = ruleSpecificity(s) /\ r # Builtin /\ s # Builtin /\ r.rank < s.rank

Bytes(rules) == Cardinality(UNION {{r.id} \X (1 .. r.size) : r \in rules})

(* Defect: a rule too long is passed over, and those after it are not.        *)
BlockSkipsLong(rules, stage, kind) ==
  LET selected == {r \in rules : applies(r, stage, kind) /\ r.size <= MAX_BYTES + 1}
  IN  {r \in selected : Cardinality({s \in selected : Before(s, r)}) < MAX_RULES}

(* The rules of the block: the last in order are dropped, until both bounds   *)
(* hold. The last line has no end.                                           *)
operatorRulesBlock(rules, stage, kind) ==
  LET selected == {r \in rules : applies(r, stage, kind)}
      upTo(r)  == {s \in selected : s = r \/ Before(s, r)}
  IN  {r \in selected : Cardinality(upTo(r)) <= MAX_RULES /\ Bytes(upTo(r)) <= MAX_BYTES + 1}

-----------------------------------------------------------------------------

Busy(f)      == {p \in Procs : proc[p].pc # "idle" /\ proc[p].at = f}
Writing(f)   == \E p \in Procs : proc[p].pc = "write" /\ proc[p].at = f
Contents(f)  == IF Writing(f) THEN <<>> ELSE file[f]
Seen         == [f \in Files |-> Contents(f)]
Crossing(fs) == {f \in fs : \E p \in Procs : proc[p].pc # "idle" /\ proc[p].at = f}

Init ==
  /\ file = [f \in Files |-> <<>>]
  /\ proc = [p \in Procs |-> AtRest]
  /\ said = [f \in Files |-> {}]
  /\ crossed = {}
  /\ given = 0

Begin(p, f) ==
  /\ proc[p].pc = "idle" /\ given < Commands /\ given' = given + 1
  /\ crossed' = crossed \cup Crossing(IF f = Global THEN {Global} ELSE Files)
  /\ UNCHANGED <<file, said>>

(* addRule up to its read of the file: a rule that is refused, or nearly one   *)
(* there is, is not added.                                                   *)
addRule(p) ==
  \E f \in Files :
    LET effective == loadEffectiveRules(Seen, f # Global)
    IN  /\ Begin(p, f)
        /\ \E s \in Sayings :
             /\ ~s.screened
             /\ \A id \in DOMAIN effective :
                  effective[id].rule.status # "retired" => ~tokenSetSimilar(s.words, effective[id].rule.words)
             /\ proc' = [proc EXCEPT ![p] =
                  [pc |-> "read", at |-> f, copy |-> <<>>,
                   rule |-> [id |-> allocateId(s.stem, DOMAIN effective), words |-> s.words, class |-> s.class, stages |-> s.stages,
                             kind |-> s.kind, lane |-> s.lane, size |-> s.size, status |-> "active", rank |-> given]]]

(* retireRule: in the file the effective rule comes from.                     *)
retireRule(p) ==
  \E withRepo \in BOOLEAN :
    LET effective == loadEffectiveRules(Seen, withRepo)
    IN  \E id \in DOMAIN effective :
          /\ effective[id].rule.status # "locked" /\ effective[id].layer # "builtin"
          /\ Begin(p, effective[id].layer)
          /\ proc' = [proc EXCEPT ![p] = [pc |-> "read", at |-> effective[id].layer, copy |-> <<>>,
                                          rule |-> [effective[id].rule EXCEPT !.status = "retired"]]]

(* The copy with the rule added, or the first of its id retired.              *)
Changed(stored, r) ==
  IF r.status = "active" THEN Append(stored, r)
  ELSE LET idx == {i \in DOMAIN stored : stored[i].id = r.id}
       IN  [i \in DOMAIN stored |-> IF i \in idx /\ \A j \in idx : i <= j THEN [stored[i] EXCEPT !.status = "retired"] ELSE stored[i]]

(* A rule to retire that is no longer there ends the command.                 *)
readStoredRules(p) ==
  LET f == proc[p].at  r == proc[p].rule
  IN  /\ proc[p].pc = "read"
      /\ proc' = [proc EXCEPT ![p] =
           IF r.status = "retired" /\ \A i \in DOMAIN Contents(f) : Contents(f)[i].id # r.id THEN AtRest
           ELSE [@ EXCEPT !.pc = "have", !.copy = Changed(Contents(f), r)]]
      /\ UNCHANGED <<file, said, crossed, given>>

(* writeStoredRules: the file is truncated, then filled.                      *)
Truncate(p) ==
  /\ proc[p].pc = "have"
  /\ proc' = [proc EXCEPT ![p].pc = "write"]
  /\ UNCHANGED <<file, said, crossed, given>>

writeStoredRules(p) ==
  LET f == proc[p].at  r == proc[p].rule
  IN  /\ proc[p].pc = "write"
      /\ file' = [file EXCEPT ![f] = proc[p].copy]
      /\ said' = [said EXCEPT ![f] = IF r.status = "active" THEN @ \cup {r}
                                     ELSE {IF s.id = r.id THEN [s EXCEPT !.status = "retired"] ELSE s : s \in @}]
      /\ proc' = [proc EXCEPT ![p] = AtRest]
      /\ UNCHANGED <<crossed, given>>

(* A session that dies; in the middle of a write it leaves nothing.           *)
Crash(p) ==
  LET f == proc[p].at
  IN  /\ proc[p].pc # "idle"
      /\ file' = IF proc[p].pc = "write" THEN [file EXCEPT ![f] = <<>>] ELSE file
      /\ crossed' = crossed \cup {f}
      /\ proc' = [proc EXCEPT ![p] = AtRest]
      /\ UNCHANGED <<said, given>>

Next == \E p \in Procs :
  addRule(p) \/ retireRule(p) \/ readStoredRules(p) \/ Truncate(p) \/ writeStoredRules(p) \/ Crash(p)

Spec == Init /\ [][Next]_vars

-----------------------------------------------------------------------------
AtWork == \E p \in Procs : proc[p].pc # "idle"
Effective == LET e == loadEffectiveRules(file, TRUE) IN {e[id] : id \in DOMAIN e}

(* Near each other and both live: only where the later one was remembered      *)
(* globally, from where the repository's rules are not seen.                   *)
Near(effective) == \A a, b \in effective :
  a # b /\ live(a.rule) /\ live(b.rule) /\ tokenSetSimilar(a.rule.words, b.rule.words)
    => {a.layer, b.layer} = Files /\ \A g, l \in {a, b} : g.layer = Global /\ l.layer = "local" => g.rule.rank > l.rule.rank

(* Hidden: a global rule whose id a rule of the repository has as well.        *)
Hidden(r) == \E s \in said["local"] : s.id = r.id
Held(effective) == \A f \in Files : \A r \in said[f] :
  (f = Global => ~Hidden(r)) => [rule |-> r, layer |-> f] \in effective

(* As long as no two commands crossed on a file, and none died at it: what the *)
(* operator remembered is in force and what he retired is not, but for global   *)
(* rules that a local one of the same id hides; no two rules in force say       *)
(* nearly the same, but for the global ones; and a prompt has the first rules   *)
(* of its scope, within both bounds, and as many as fit: what is in force may    *)
(* be missing from it, but for one before it that does not fit or its own size   *)
(* (rules/remember.ts:163, 221, load.ts:59, prompt.ts:51).                       *)
RulesInForce ==
  crossed = {} /\ ~AtWork =>
    LET effective == Effective
        rules == {e.rule : e \in effective}
    IN  /\ Held(effective) /\ Near(effective)
        /\ [rule |-> Builtin, layer |-> "builtin"] \in effective
        /\ \A stage \in Stages, kind \in Kinds :
             LET block == operatorRulesBlock(rules, stage, kind)
                 left  == {r \in rules : applies(r, stage, kind)} \ block
             IN  /\ Cardinality(block) <= MAX_RULES /\ Bytes(block) <= MAX_BYTES + 1
                 /\ \A b \in block, r \in left : Before(b, r)
                 /\ \A r \in left : (\A s \in left \ {r} : Before(r, s)) =>
                      Cardinality(block) = MAX_RULES \/ Bytes(block \cup {r}) > MAX_BYTES + 1

(* The locked rule is in every prompt of its scope.                          *)
LockedIsTold ==
  ~AtWork => \A stage \in Builtin.stages, kind \in Kinds : Builtin \in operatorRulesBlock({e.rule : e \in Effective}, stage, kind)
=============================================================================
