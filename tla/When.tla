--------------------------------- MODULE When ---------------------------------
(***************************************************************************)
(* The `when` condition of a stage (lanes/expr.ts) and what the engine does  *)
(* with it: before a stage runs, its condition is parsed and evaluated over  *)
(* what Engine.whenScope shows of the run; a condition that cannot be read   *)
(* escalates the run, one that is not true skips the stage.                  *)
(*                                                                          *)
(* A condition is the sequence of its tokens. The values it handles carry    *)
(* their type, so that === of two values is their equality here.             *)
(*                                                                          *)
(* A definition whose comment begins with "Defect" is wrong on purpose and  *)
(* unused: the properties are tested by putting it in place of the next.    *)
(***************************************************************************)
EXTENDS Naturals, Sequences, FiniteSets, SequencesExt

CONSTANTS
  Texts,   \* the conditions of the lanes, as sequences of tokens
  Facts,   \* what may be true of a run and its ticket: objects, as below
  Within   \* the pairs of strings of which the first is a substring of the second

VARIABLES
  text,    \* the condition of the stage
  facts,   \* what is true of the run and its ticket, an object
  answer   \* what became of the stage, and the facts at the time

vars == <<text, facts, answer>>

-----------------------------------------------------------------------------
(* Values.                                                                 *)

Undefined  == <<"undefined">>
Boolean(b) == <<"boolean", b>>
Object(f)  == <<"object", f>>

lookup(ctx, parts) ==
  FoldLeft(LAMBDA cur, part : IF cur[1] = "object" /\ part \in DOMAIN cur[2] THEN cur[2][part] ELSE Undefined, ctx, parts)

truthy(v) ==
  CASE v[1] = "undefined" -> FALSE
    [] v[1] = "boolean"   -> v[2]
    [] v[1] = "string"    -> v[2] # ""
    [] v[1] = "number"    -> v[2] # 0
    [] OTHER              -> TRUE

inOp(l, r) ==
  \/ r[1] = "array" /\ \E i \in DOMAIN r[2] : r[2][i] = l
  \/ r[1] = "object" /\ l[1] = "string" /\ l[2] \in DOMAIN r[2]
  \/ r[1] = "string" /\ l[1] = "string" /\ <<l[2], r[2]>> \in Within

-----------------------------------------------------------------------------
(* The parser: recursive descent. Each of its functions reads s from i on and *)
(* returns the expression and the place after it, or Refused (WhenError); or *)
(* is parseOr itself, place by place, which the brackets lead back to.        *)

Refused == [at |-> 0]
Got(at, e) == [at |-> at, expr |-> e]
peek(s, i) == IF i <= Len(s) THEN s[i].kind ELSE "eof"

parsePath(s, i) ==
  LET path[k \in Nat] ==
        IF peek(s, k) # "ident" THEN Refused
        ELSE IF peek(s, k + 1) # "dot" THEN Got(k + 1, <<s[k].value>>)
        ELSE LET rest == path[k + 2]
             IN  IF rest.at = 0 THEN Refused ELSE Got(rest.at, <<s[k].value>> \o rest.expr)
  IN  path[i]

(* The argument of the one call that is allowed, diff.touches(<globKey>).     *)
parseCall(s, path) ==
  IF peek(s, path.at + 1) = "ident" /\ peek(s, path.at + 2) = "rparen" /\ path.expr = <<"diff", "touches">>
  THEN Got(path.at + 3, <<"call", s[path.at + 1].value>>)
  ELSE Refused

parsePrimary(s, or, i) ==
  CASE peek(s, i) = "literal" -> Got(i + 1, <<"literal", s[i].value>>)
    [] peek(s, i) = "lparen" ->
         LET inner == or[i + 1]
         IN  IF inner.at # 0 /\ peek(s, inner.at) = "rparen" THEN Got(inner.at + 1, inner.expr) ELSE Refused
    [] peek(s, i) = "ident" ->
         LET path == parsePath(s, i)
         IN  IF path.at = 0 THEN Refused
             ELSE IF peek(s, path.at) = "lparen" THEN parseCall(s, path)
             ELSE Got(path.at, <<"path", path.expr>>)
    [] OTHER -> Refused

Binary(op, left, right) ==
  IF right.at = 0 THEN Refused ELSE Got(right.at, <<op, left.expr, right.expr>>)

(* One comparison at most: a second one is trailing input.                   *)
parseCmp(s, or, i) ==
  LET left == parsePrimary(s, or, i)
      op   == peek(s, left.at)
  IN  IF left.at # 0 /\ op \in {"eq", "neq", "in"}
      THEN Binary(op, left, parsePrimary(s, or, left.at + 1))
      ELSE left

parseNot(s, or, i) ==
  LET not[k \in Nat] ==
        IF peek(s, k) # "not" THEN parseCmp(s, or, k)
        ELSE LET arg == not[k + 1] IN IF arg.at = 0 THEN Refused ELSE Got(arg.at, <<"not", arg.expr>>)
  IN  not[i]

(* A loop reads on while the mark follows, at most once for every token.      *)
parseAnd(s, or, i) ==
  FoldLeft(LAMBDA left, t : IF left.at # 0 /\ peek(s, left.at) = "and"
                            THEN Binary("and", left, parseNot(s, or, left.at + 1)) ELSE left,
           parseNot(s, or, i), s)

parseOr(s) ==
  LET or[i \in Nat] ==
        FoldLeft(LAMBDA left, t : IF left.at # 0 /\ peek(s, left.at) = "or"
                                  THEN Binary("or", left, parseAnd(s, or, left.at + 1)) ELSE left,
                 parseAnd(s, or, i), s)
  IN  or

(* Defect: what follows the expression is not looked at.                      *)
parseWhenPrefix(s) == parseOr(s)[1]

(* An empty condition and trailing input are refused.                         *)
parseWhen(s) ==
  LET e == parseOr(s)[1] IN IF e.at = Len(s) + 1 THEN e ELSE Refused

-----------------------------------------------------------------------------
(* The evaluation. An expression is no deeper than its condition is long.     *)

Operands(e) == IF e[1] \in {"literal", "path", "call"} THEN {} ELSE {e[i] : i \in 2 .. Len(e)}
Subexpressions(e)  == FoldLeft(LAMBDA es, t : es \cup UNION {Operands(x) : x \in es}, {e}, text)

evalExpr(e, ctx) ==
  LET value[x \in Subexpressions(e)] ==
        CASE x[1] = "literal" -> x[2]
          [] x[1] = "path"    -> lookup(ctx, x[2])
          [] x[1] = "not"     -> Boolean(~truthy(value[x[2]]))
          [] x[1] = "call"    ->
               LET fn == lookup(ctx, <<"diff", "touches">>) IN Boolean(fn[1] = "function" /\ x[2] \in fn[2])
          [] x[1] = "and"     -> Boolean(truthy(value[x[2]]) /\ truthy(value[x[3]]))
          [] x[1] = "or"      -> Boolean(truthy(value[x[2]]) \/ truthy(value[x[3]]))
          [] x[1] = "in"      -> Boolean(inOp(value[x[2]], value[x[3]]))
          [] x[1] = "eq"      -> Boolean(value[x[2]] = value[x[3]])
          [] x[1] = "neq"     -> Boolean(value[x[2]] # value[x[3]])
  IN  value[e]

(* Engine.whenScope: the part of the facts the engine passes on.             *)
ScopeKeys == {"tier", "kind", "lane", "iteration", "rounds", "artifacts"}
whenScope(f) == Object([k \in ScopeKeys |-> f[2][k]])

-----------------------------------------------------------------------------

NoAnswer == [is |-> "none", of |-> Undefined]

Init ==
  /\ text \in Texts
  /\ facts \in Facts
  /\ answer = NoAnswer

(* runStep: the condition decides whether the stage runs.                    *)
RunStep ==
  LET e == parseWhen(text)
  IN  answer' = [is |-> IF e.at = 0 THEN "escalated"
                        ELSE IF truthy(evalExpr(e.expr, whenScope(facts))) THEN "runs"
                        ELSE "skipped",
                 of |-> facts]
      /\ UNCHANGED <<text, facts>>

(* The scope-check of the chore lane found a risk path in the ticket.         *)
scopeCheck ==
  /\ facts[2]["lane"] = <<"string", "chore">>
  /\ facts' = Object([facts[2] EXCEPT !["tier"] = <<"string", "elevated">>])
  /\ UNCHANGED <<text, answer>>

(* A failed stage behind it sends the run into its next fix round.            *)
FixRound ==
  /\ facts[2]["iteration"] = <<"number", 0>>
  /\ facts' = Object([facts[2] EXCEPT !["iteration"] = <<"number", 1>>])
  /\ UNCHANGED <<text, answer>>

Next == RunStep \/ scopeCheck \/ FixRound

Spec == Init /\ [][Next]_vars

-----------------------------------------------------------------------------
(* What the language is: the sentences of a grammar, and their meaning.      *)

Kinds(s) == [i \in DOMAIN s |-> s[i].kind]
Parts(s, mark) == {k \in DOMAIN s : s[k].kind = mark}
Left(s, k)  == SubSeq(s, 1, k - 1)
Right(s, k) == SubSeq(s, k + 1, Len(s))

(* A name, or names with dots between them.                                  *)
IsPath(s) ==
  /\ Len(s) % 2 = 1
  /\ \A i \in DOMAIN s : s[i].kind = IF i % 2 = 1 THEN "ident" ELSE "dot"
Names(s) == [i \in 1 .. ((Len(s) + 1) \div 2) |-> s[2 * i - 1].value]

(* What is read inside brackets is a disjunction of a shorter sentence (or).  *)
Primaries(s, or) ==
  {<<"literal", t.value>> : t \in IF Kinds(s) = <<"literal">> THEN {s[1]} ELSE {}}
    \cup (IF IsPath(s) THEN {<<"path", Names(s)>>} ELSE {})
    \cup (IF Len(s) > 2 /\ s[1].kind = "lparen" /\ s[Len(s)].kind = "rparen" THEN or[SubSeq(s, 2, Len(s) - 1)] ELSE {})
    \cup (IF Kinds(s) = <<"ident", "dot", "ident", "lparen", "ident", "rparen">> /\ Names(SubSeq(s, 1, 3)) = <<"diff", "touches">>
          THEN {<<"call", s[5].value>>} ELSE {})
Comparisons(s, or) ==
  Primaries(s, or) \cup UNION {UNION {{<<op, l, r>> : l \in Primaries(Left(s, k), or), r \in Primaries(Right(s, k), or)} :
                                        k \in Parts(s, op)} : op \in {"eq", "neq", "in"}}
Negations(s, or) ==
  LET not[t \in SubSeqs(s)] ==
        Comparisons(t, or) \cup (IF t # <<>> /\ t[1].kind = "not" THEN {<<"not", e>> : e \in not[Tail(t)]} ELSE {})
  IN  not[s]
Conjunctions(s, or) ==
  LET and[t \in SubSeqs(s)] ==
        Negations(t, or) \cup UNION {{<<"and", l, r>> : l \in and[Left(t, k)], r \in Negations(Right(t, k), or)} : k \in Parts(t, "and")}
  IN  and[s]
Disjunctions(s) ==
  LET or[t \in SubSeqs(s)] ==
        Conjunctions(t, or) \cup UNION {{<<"or", l, r>> : l \in or[Left(t, k)], r \in Conjunctions(Right(t, k), or)} : k \in Parts(t, "or")}
  IN  or[s]

(* The paths a condition asks for begin with these names.                    *)
Asked(s) == {s[k].value : k \in {k \in Parts(s, "ident") : k = 1 \/ s[k - 1].kind # "dot"}}

(* The stage is treated as the condition says of the facts.                   *)
Treated ==
  LET readings == Disjunctions(text)
  IN  /\ Cardinality(readings) <= 1
      /\ answer.is = "escalated" <=> readings = {}
      /\ \A e \in readings : answer.is = "runs" <=> truthy(evalExpr(e, answer.of))

(* A condition means what the grammar says it means: it is read in one way or *)
(* refused, and over what the engine shows of a run the stage runs just when  *)
(* the condition is true of the run as it was at that step, elevated or in a   *)
(* fix round by then (lanes/expr.ts:98-206, engine/engine.ts:365-404).        *)
WhenIsRead == answer # NoAnswer /\ Asked(text) \subseteq ScopeKeys => Treated

(* So are the conditions the shipped lanes set on the brief, the size, the     *)
(* flags and the diff of the ticket (assets/lanes.yaml:16, 27, 34, 62).        *)
ConditionsSeeTheTicket == answer # NoAnswer => Treated
=============================================================================
