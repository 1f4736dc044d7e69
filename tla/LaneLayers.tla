----------------------------- MODULE LaneLayers -----------------------------
(***************************************************************************)
(* From lane files to a running lane: src/lanes/load.ts (the layers and     *)
(* their merge), src/lanes/schema.ts and invariants.ts (what a merged lane  *)
(* must satisfy), src/lanes/intake.ts (which lane takes a ticket) and the   *)
(* walk of the compiled stages (LaneCompile).                               *)
(*                                                                          *)
(* A stage and a lane are records in which an optional key that nobody has  *)
(* set is simply no field; a patch is such a record too, and the spread     *)
(* { ...base, ...patch } is patch @@ base.  Prompts, models, timeouts and   *)
(* fusion blocks are left out.  A `when` is either "true", which always     *)
(* holds, or an expression whose value is anybody's guess.                  *)
(***************************************************************************)
EXTENDS Naturals, Sequences, SequencesExt

CONSTANTS
  Builtin,     \* the shipped layer: a function from lane names to patches
  Overlays,    \* the layers an operator or a repository may add
  Tickets,     \* [kind, labels] as the intake classified them
  Known,       \* the agents, host actions and predicates of the catalog
  MaxLayers,   \* bound: layers after the shipped one
  MaxHead      \* bound: commits of implement-class stages

VARIABLES
  layers,      \* how many layers have been merged
  lanes,       \* the lanes merged so far, or Failed
  phase,       \* "load", "refused", "ready", "walk", "end"
  lane,        \* the lane the ticket was given
  at,          \* the stage about to run (an index)
  passed,      \* names of the stages that ran and passed
  head,        \* commits on the branch
  judged,      \* head when a safety-gating stage last passed, 99 before any
  pushed       \* head the publish stage pushed, 99 before any

vars == <<layers, lanes, phase, lane, at, passed, head, judged, pushed>>

L == INSTANCE LaneCompile

Failed == [failed |-> TRUE]
Opt(r, key, default) == IF key \in DOMAIN r THEN r[key] ELSE default

-----------------------------------------------------------------------------
(* schema.ts, load.ts *)

ImplementClass == {"implement", "fix"}
isImplementClassStage(name) == name \in ImplementClass

stageKindCount(s) ==
  Cardinality({k \in {"agent", "host"} : k \in DOMAIN s})
    + (IF Opt(s, "human", FALSE) THEN 1 ELSE 0)

(* A layer may leave a stage's kind to the layers below, never give two.    *)
assertLaneLayerFile(file) ==
  \A name \in DOMAIN file : \A i \in DOMAIN Opt(file[name], "stages", <<>>) :
    stageKindCount(file[name].stages[i]) <= 1

StageAt(stages, name) == SelectInSeq(stages, LAMBDA s : s.name = name)

Positional == {"remove", "insertAfter"}

MergeStage(stages, patch) ==
  LET idx   == StageAt(stages, patch.name)
      rest  == [k \in DOMAIN patch \ Positional |-> patch[k]]
      after == IF "insertAfter" \in DOMAIN patch THEN StageAt(stages, patch.insertAfter) ELSE 0
  IN  CASE Opt(patch, "remove", FALSE) /\ idx > 0  -> RemoveAt(stages, idx)
        [] Opt(patch, "remove", FALSE) /\ idx = 0  -> stages
        [] ~Opt(patch, "remove", FALSE) /\ idx > 0 -> [stages EXCEPT ![idx] = rest @@ @]
        [] ~Opt(patch, "remove", FALSE) /\ idx = 0 /\ after > 0 -> InsertAt(stages, after + 1, rest)
        [] OTHER                                   -> Append(stages, rest)

mergeStages(stages, overlay) == FoldLeft(MergeStage, stages, overlay)

NoBudget == [fixRounds |-> 1, maxWallSeconds |-> 0, maxCostUsd |-> 0]

mergeLanePatch(base, patch) ==
  [match  |-> Opt(patch, "match", <<>>) @@ Opt(base, "match", <<>>),
   budget |-> Opt(patch, "budget", <<>>) @@ Opt(base, "budget", NoBudget),
   stages |-> mergeStages(Opt(base, "stages", <<>>), Opt(patch, "stages", <<>>))]
    @@ patch @@ base

(* match, budget and stages always exist after a merge: only the priority   *)
(* can be missing.                                                          *)
assertComplete(merged) == IF "priority" \in DOMAIN merged THEN merged ELSE Failed

(* resolveNew: a new lane on top of the lane it extends, which may be a new *)
(* one of the same file.  A lane still unresolved after as many parents as  *)
(* the file has lanes goes round a cycle; a parent nobody defines fails.    *)
resolveNew(acc, file) ==
  LET resolve[k \in 0..Cardinality(DOMAIN file), name \in DOMAIN file] ==
        LET parent == Opt(file[name], "extends", name)
            from   == CASE parent = name                          -> <<>>
                        [] parent # name /\ parent \in DOMAIN acc -> acc[parent]
                        [] parent \notin DOMAIN acc \cup DOMAIN file -> Failed
                        [] OTHER -> IF k = 0 THEN Failed ELSE resolve[k - 1, parent]
        IN  IF from = Failed THEN Failed ELSE assertComplete(mergeLanePatch(from, file[name]))
  IN  [name \in DOMAIN file \ DOMAIN acc |-> resolve[Cardinality(DOMAIN file), name]]

(* One pass of mergeLanes: the lanes that exist are patched before the new  *)
(* ones are resolved.                                                       *)
mergeLanes(acc, file) ==
  LET patched == [name \in DOMAIN acc |->
                    IF name \in DOMAIN file THEN mergeLanePatch(acc[name], file[name]) ELSE acc[name]]
      created == resolveNew(patched, file)
      all     == patched @@ created
  IN  IF \E name \in DOMAIN all : all[name] = Failed THEN Failed ELSE all

builtins == mergeLanes(<<>>, Builtin)

-----------------------------------------------------------------------------
(* invariants.ts *)

HasStage(l, P(_))  == \E i \in DOMAIN l.stages : P(l.stages[i])
Named(l, name)     == IF StageAt(l.stages, name) = 0 THEN <<>> ELSE l.stages[StageAt(l.stages, name)]
First(l, P(_))     == SelectInSeq(l.stages, P)
Host(s)            == Opt(s, "host", "none")
Agent(s)           == Opt(s, "agent", "none")
Human(s)           == Opt(s, "human", FALSE)
Gates(s)           == Opt(s, "gates", {})
Locked(s)          == Opt(s, "locked", FALSE)
SafetyGating(s)    == Opt(s, "safetyGating", FALSE)
Impl(s)            == isImplementClassStage(s.name)
Class(l)           == Opt(l, "class", "build")
LastStage(l)       == IF l.stages = <<>> THEN <<>> ELSE Last(l.stages)
isAlways(s)        == Opt(s, "when", "true") = "true"

Rules(r) == {rule \in DOMAIN r : r[rule]}

checkCatalogInvariants(l) ==
  Rules([unknown |-> HasStage(l, LAMBDA s :
           ~({Agent(s), Host(s)} \cup Gates(s) \subseteq Known \cup {"none"}))])

checkBuild(name, l) ==
  LET firstImpl == First(l, Impl)
      steer     == First(l, LAMBDA s : s.name = "steer" /\ Human(s))
      gateIdx   == StageAt(l.stages, "gate")
      writes    == HasStage(l, LAMBDA s : Agent(s) = "implementer" \/ s.name = "implement")
  IN  Rules([
        steerMissing     |-> steer = 0,
        steerAfter       |-> steer > 0 /\ firstImpl > 0 /\ steer > firstImpl,
        judgeMissing     |-> ~SafetyGating(Named(l, "judge")),
        publishNotLast   |-> Host(LastStage(l)) # "publish",
        gateMissing      |-> writes /\ ~Opt(l, "gateless", FALSE) /\ gateIdx = 0,
        redMissing       |-> gateIdx > 0 /\ "red-baseline" \notin Gates(Named(l, "gate")),
        gateAfter        |-> gateIdx > 0 /\ firstImpl > 0 /\ gateIdx > firstImpl,
        scopeCheckFirst  |-> /\ name = "chore" \/ Opt(l.match, "kind", "any") = "chore"
                             /\ l.stages = <<>> \/ Host(Head(l.stages)) # "scope-check"])

checkPreBuild(l) ==
  Rules([hasImplement |-> HasStage(l, LAMBDA s : Impl(s) \/ Agent(s) = "implementer"),
         hasPublish   |-> HasStage(l, LAMBDA s : Host(s) = "publish"),
         handoffLast  |-> ~Human(LastStage(l))])

MetaAgents == {"codifier", "judge", "reviewer", "security-auditor"}
isMetaPublishHost(host) == host \in {"publish", "codify-publish"}

checkMeta(l) ==
  LET security == Named(l, "security")
      judge    == Named(l, "judge")
      vi       == First(l, LAMBDA s : s.name = "validate" \/ Host(s) = "codify-validate")
      validate == IF vi = 0 THEN <<>> ELSE l.stages[vi]
      final    == LastStage(l)
  IN  Rules([
        hasHuman       |-> HasStage(l, Human),
        hasImplement   |-> HasStage(l, LAMBDA s : Impl(s) \/ Agent(s) = "implementer"),
        hasGate        |-> StageAt(l.stages, "gate") > 0,
        hasSteer       |-> StageAt(l.stages, "steer") > 0,
        securityWhen   |-> Opt(security, "when", "absent") # "true",
        securityLocked |-> ~Locked(security),
        judgeMissing   |-> ~SafetyGating(judge),
        judgeLocked    |-> ~Locked(judge),
        validateLocked |-> ~Locked(validate) \/ Host(validate) # "codify-validate",
        publishNotLast |-> ~isMetaPublishHost(Host(final)),
        publishLocked  |-> isMetaPublishHost(Host(final)) /\ ~Locked(final),
        onlyWriter     |-> HasStage(l, LAMBDA s : Agent(s) \notin MetaAgents \cup {"none"})])

checkInvariants(name, l) ==
  checkCatalogInvariants(l) \cup
    CASE Class(l) = "pre-build" -> checkPreBuild(l)
      [] Class(l) = "meta"      -> checkMeta(l)
      [] OTHER                  -> checkBuild(name, l)

(* Two lanes may take the same ticket unless a scalar differs or two        *)
(* non-empty lists have nothing in common.                                  *)
ScalarKeys == {"kind", "tier", "size"}
ListKeys   == {"labels", "trigger"}
matchesOverlap(a, b) ==
  /\ \A k \in ScalarKeys : k \in DOMAIN a \cap DOMAIN b => a[k] = b[k]
  /\ \A k \in ListKeys   : (Opt(a, k, {}) # {} /\ Opt(b, k, {}) # {}) => a[k] \cap b[k] # {}

SameRankOverlap(ls) ==
  \E m, n \in DOMAIN ls : m # n /\ ls[m].priority = ls[n].priority
                                /\ matchesOverlap(ls[m].match, ls[n].match)

(* Defect: nobody looks at the conditions of the stages.                    *)
WhenIgnored(s, t) == FALSE

WhenLoosened(s, t) == isAlways(s) /\ ~isAlways(t)

(* What a layer may not do to a shipped lane.                               *)
OverrideErrors(base, next) ==
  LET locked    == SelectSeq(base.stages, Locked)
      pos       == [i \in DOMAIN locked |-> StageAt(next.stages, locked[i].name)]
      Both(P(_, _)) == \E s \in Range(base.stages), t \in Range(next.stages) :
                         s.name = t.name /\ P(s, t)
  IN  Rules([
        lockedRemoved   |-> \E i \in DOMAIN pos : pos[i] = 0,
        lockedReordered |-> \E i, j \in DOMAIN pos : i < j /\ 0 < pos[j] /\ pos[j] < pos[i],
        gatesRemoved    |-> Both(LAMBDA s, t : ~(Gates(s) \subseteq Gates(t))),
        budgetLoosened  |-> \E k \in DOMAIN NoBudget : next.budget[k] > base.budget[k],
        whenLoosened    |-> Both(WhenLoosened)])

checkOverrideInvariants(base, eff) ==
  UNION {OverrideErrors(base[name], eff[name]) : name \in DOMAIN base \cap DOMAIN eff}
    \cup Rules([metaAdded    |-> \E n \in DOMAIN eff : Class(eff[n]) = "meta" /\
                                   (n \in DOMAIN base => Class(base[n]) # "meta"),
                matchOverlap |-> SameRankOverlap(eff)])

checkAllInvariants(base, eff) ==
  UNION {checkInvariants(name, eff[name]) : name \in DOMAIN eff}
    \cup checkOverrideInvariants(base, eff)

-----------------------------------------------------------------------------
(* intake.ts *)

laneMatches(match, ticket) ==
  /\ "kind" \in DOMAIN match => match.kind = ticket.kind
  /\ Opt(match, "labels", {}) # {} => match.labels \cap ticket.labels # {}
  /\ Opt(match, "trigger", {}) # {} => match.trigger \cap ticket.labels # {}

(* First match in descending priority; equals are taken in name order, which*)
(* is any order here.                                                       *)
selectLane(ls, ticket) ==
  LET fits == {n \in DOMAIN ls : laneMatches(ls[n].match, ticket)}
  IN  {n \in fits : \A m \in fits : ls[m].priority <= ls[n].priority}

-----------------------------------------------------------------------------
(* The walk over the compiled lane. *)

stages == lanes[lane].stages
stageKind(s) == IF Human(s) THEN "human" ELSE IF Host(s) # "none" THEN "host" ELSE "agent"
defaultOnFail(kind) == IF kind = "host" THEN "continue" ELSE "escalate"

Compiled == [i \in DOMAIN stages |->
               [impl   |-> Impl(stages[i]),
                onFail |-> Opt(stages[i], "onFail", defaultOnFail(stageKind(stages[i])))]]

Init ==
  /\ layers = 0 /\ lanes = builtins /\ phase = "load" /\ lane = "none" /\ at = 0
  /\ passed = {} /\ head = 0 /\ judged = 99 /\ pushed = 99

LoadLayer ==
  /\ phase = "load" /\ layers < MaxLayers
  /\ \E file \in Overlays :
       LET merged == mergeLanes(lanes, file)
       IN  IF assertLaneLayerFile(file) /\ merged # Failed
             THEN lanes' = merged /\ layers' = layers + 1 /\ UNCHANGED phase
             ELSE phase' = "refused" /\ UNCHANGED <<lanes, layers>>
  /\ UNCHANGED <<lane, at, passed, head, judged, pushed>>

loadEffectiveLanes ==
  /\ phase = "load"
  /\ phase' = IF checkAllInvariants(builtins, lanes) = {} THEN "ready" ELSE "refused"
  /\ UNCHANGED <<layers, lanes, lane, at, passed, head, judged, pushed>>

Intake ==
  /\ phase = "ready"
  /\ \E ticket \in Tickets : \E name \in selectLane(lanes, ticket) : lane' = name
  /\ phase' = "walk" /\ at' = 1
  /\ UNCHANGED <<layers, lanes, passed, head, judged, pushed>>

Goto(target) ==
  /\ at' = target
  /\ phase' = IF target \in DOMAIN stages THEN "walk" ELSE "end"

(* A stage whose condition does not hold passes without being run.          *)
Skip ==
  /\ phase = "walk" /\ ~isAlways(stages[at])
  /\ Goto(L!Transition(Compiled, at, "PASS"))
  /\ UNCHANGED <<layers, lanes, lane, passed, head, judged, pushed>>

(* A stage runs.  An implement-class stage may leave a commit.  The gate    *)
(* head-is-judged-sha passes only when the head is the one judged; without  *)
(* it a host publish pushes what is there.  The operator's refusal of a     *)
(* human stage and a failing gate are verdicts other than PASS.             *)
Run ==
  /\ phase = "walk"
  /\ LET s == stages[at] IN
     \E verdict \in {"PASS", "FAIL"} :
       /\ verdict = "PASS" /\ "head-is-judged-sha" \in Gates(s) => judged = head
       /\ head' \in IF Impl(s) /\ head < MaxHead THEN {head, head + 1} ELSE {head}
       /\ judged' = IF SafetyGating(s) /\ verdict = "PASS" THEN head' ELSE judged
       /\ pushed' = IF Host(s) = "publish" /\ verdict = "PASS" THEN head' ELSE pushed
       /\ passed' = IF verdict = "PASS" THEN passed \cup {s.name} ELSE passed \ {s.name}
       /\ Goto(L!Transition(Compiled, at, verdict))
  /\ UNCHANGED <<layers, lanes, lane>>

Next == LoadLayer \/ loadEffectiveLanes \/ Intake \/ Skip \/ Run

-----------------------------------------------------------------------------
(* Properties *)

Shipped == lane \in DOMAIN builtins /\ Class(builtins[lane]) = "build"

(* src/lanes/load.ts:155: whatever layers are accepted, on a shipped build  *)
(* lane no implement-class stage is about to run before the steering stage  *)
(* has passed, unless a layer made steering's refusal continue; and what is *)
(* pushed is what a safety-gating stage last passed.                        *)
AcceptedStaysGuarded ==
  phase \in {"walk", "end"} /\ Shipped =>
    /\ (phase = "walk" /\ Impl(stages[at])) =>
         \/ "steer" \in passed
         \/ Opt(Named(lanes[lane], "steer"), "onFail", "escalate") = "continue"
    /\ pushed # 99 => pushed = judged
=============================================================================
