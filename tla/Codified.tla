------------------------------ MODULE Codified ------------------------------
(***************************************************************************)
(* The registry of codified tools (src/codify/registry.ts), the commands    *)
(* that change it (src/commands/codified.ts), what it lets the dispatcher    *)
(* do (dispatch.ts, matcher.ts).                                            *)
(*                                                                          *)
(* The registry is one file.  Every change loads it, changes the copy and    *)
(* writes it back whole; nothing locks it, so commands of two sessions, and  *)
(* the host that records what tools did, may write over each other.          *)
(*                                                                          *)
(* A definition whose comment begins with "Defect" is wrong on purpose and  *)
(* unused: the properties are tested by putting it in place of the next.    *)
(***************************************************************************)
EXTENDS Integers, Sequences, FiniteSets

CONSTANTS
  Tools,      \* names of registered tools
  Callers,    \* sessions that run /factory codified
  Bound,      \* tools whose secrets are bound
  Clean,      \* tools whose source landed clean
  TaskTools,  \* tools of class task-tool, none of them supervised yet
  Local,      \* tools of scope repo, all of one repository
  MaxRepo,    \* maxActivePerRepo
  MaxGlobal,  \* maxActiveGlobal
  Agree,      \* shadowAgreeToActivate
  Failures,   \* demoteAfterFailures
  RecentCap,  \* RECENT_CAP
  MaxHits,    \* bound: hits recorded
  Stages      \* what stages ask of the dispatcher, some of Query

VARIABLES
  reg,    \* registry.json
  call,   \* what a session is doing, with the copy it has loaded
  hist    \* history, read by properties only

vars == <<reg, call, hist>>

States == {"staged", "probationary", "active", "assist", "demoted", "retired",
           "rejected", "drifted"}

Kinds == {"exact", "partial", "fail", "precondition", "shadow-agree",
          "shadow-disagree"}

Hits == (Kinds \ {"exact", "partial"}) \cup {"ok"}

(* recent: hit within staleDays.                                            *)
Tool == [state : States, hits : Seq(Hits), agree : 0..MaxHits,
         disagree : 0..MaxHits, exact : 0..MaxHits, recent : BOOLEAN]

Registry == [Tools -> Tool]

(* A session between commands holds no copy.                                *)
NoCopy == <<>>

TypeOK ==
  /\ reg \in Registry
  /\ \A t \in Tools : Len(reg[t].hits) <= RecentCap
  /\ \A c \in Callers :
       /\ call[c].pc \in {"idle", "confirm", "load", "save", "shadow"}
       /\ call[c].to \in States /\ call[c].tool \in Tools
       /\ call[c].copy \in Registry \cup {NoCopy}
       /\ call[c].pc \in {"save", "shadow"} => call[c].copy # NoCopy
  /\ hist.hits <= MaxHits /\ hist.approved \subseteq Tools /\ hist.reverted \subseteq Tools

-----------------------------------------------------------------------------
(* Transitions.                                                             *)

(* Defect: a tool that is out may be tried again.                           *)
LegalTransitionsBack ==
  {<<"staged", "probationary">>, <<"probationary", "active">>,
   <<"active", "retired">>, <<"retired", "probationary">>}

LegalTransitions ==
  {<<"staged", "probationary">>, <<"staged", "rejected">>,
   <<"active", "demoted">>, <<"active", "drifted">>, <<"active", "retired">>,
   <<"active", "probationary">>, <<"demoted", "retired">>,
   <<"demoted", "probationary">>, <<"drifted", "probationary">>,
   <<"drifted", "retired">>, <<"assist", "retired">>}
  \cup {"probationary"} \X {"active", "assist", "demoted", "retired", "drifted"}

Legal(from, to) == from = to \/ <<from, to>> \in LegalTransitions

SetState(r, t, to) == [r EXCEPT ![t].state = to]

CanPromote(t) == t \in Bound /\ t \in Clean

PushRecent(hits, hit) ==
  LET all == Append(hits, hit) IN
  IF Len(all) > RecentCap THEN Tail(all) ELSE all

RecordHit(e, kind) ==
  LET one(k) == IF kind = k THEN 1 ELSE 0 IN
  [e EXCEPT !.hits = PushRecent(@, IF kind \in Hits THEN kind ELSE "ok"),
            !.recent = TRUE,
            !.exact = @ + one("exact"), !.agree = @ + one("shadow-agree"),
            !.disagree = @ + one("shadow-disagree")]

TrailingFails(hits, n) ==
  Len(hits) >= n /\ \A i \in (Len(hits) - n + 1)..Len(hits) : hits[i] = "fail"

Count(hits, hit) == Cardinality({i \in DOMAIN hits : hits[i] = hit})

MaybeDemote(e) ==
  LET fails == Count(e.hits, "fail") IN
  IF e.state = "demoted" /\ (TrailingFails(e.hits, 3) \/ fails > Failures)
  THEN [e EXCEPT !.state = "retired"]
  ELSE IF e.state = "active" /\ (TrailingFails(e.hits, 2) \/ fails >= Failures)
  THEN [e EXCEPT !.state = "demoted"]
  ELSE e

(* Defect: agreement outweighs disagreement.                                *)
MaybeActivateAny(e, t) ==
  IF e.state \in {"probationary", "staged"} /\ e.agree >= Agree
  THEN [e EXCEPT !.state = "active"] ELSE e

MaybeActivate(e, t) ==
  IF /\ e.state = "probationary"
     /\ e.agree >= Agree /\ e.disagree = 0
     /\ t \notin TaskTools     \* supervisedSuccesses is never counted up
  THEN [e EXCEPT !.state = "active"] ELSE e

-----------------------------------------------------------------------------
(* Eviction.                                                                *)

ActiveTools(r) == {t \in Tools : r[t].state = "active"}

(* 0.5 reliability + 0.3 usage + 0.2 recency, over a common denominator;    *)
(* recency only as within staleDays or not.  No tool has fixtureIds: nothing *)
(* writes them, so the overlap is 0.                                         *)
UtilityScore(r, t) ==
  LET e == r[t]
      n == IF e.hits = <<>> THEN 1 ELSE Len(e.hits)
      most == CHOOSE m \in 1..(MaxHits + 1) :
                /\ \A u \in ActiveTools(r) : r[u].exact <= m
                /\ m = 1 \/ \E u \in ActiveTools(r) : r[u].exact = m IN
  5 * (Count(e.hits, "ok") + Count(e.hits, "shadow-agree")) * most
  + 3 * e.exact * n + (IF e.recent THEN 2 ELSE 0) * n * most

(* Scores of two tools compare as fractions.                                *)
Denominator(r, t) == IF r[t].hits = <<>> THEN 1 ELSE Len(r[t].hits)

LessUseful(r, t, u) ==
  UtilityScore(r, t) * Denominator(r, u) < UtilityScore(r, u) * Denominator(r, t)

PickEviction(r, pool) ==
  CHOOSE t \in pool : \A u \in pool : ~LessUseful(r, u, t)

(* The pool over its cap: the repository's, or the global tools', which are  *)
(* held to maxActivePerRepo too, before all of them.                         *)
OverCap(r) ==
  LET active == ActiveTools(r)
      over(pool, max) == IF Cardinality(pool) > max THEN {pool} ELSE {}
      repo == over(active \cap Local, MaxRepo) \cup over(active \ Local, MaxRepo)
  IN IF repo # {} THEN CHOOSE pool \in repo : TRUE
     ELSE UNION over(active, MaxGlobal)

EvictOne(r) ==
  LET pool == OverCap(r) IN
  IF pool = {} THEN r ELSE SetState(r, PickEviction(r, pool), "retired")

(* Defect: the cap itself is too many.                                      *)
EvictAtCap(r) ==
  IF ActiveTools(r) = {} THEN r
  ELSE SetState(EvictOne(r), PickEviction(r, ActiveTools(r)), "retired")

(* Round by round; one for every tool is often enough.                      *)
EvictIfNeeded(r) ==
  LET after[n \in Nat] == IF n = 0 THEN r ELSE EvictOne(after[n - 1])
  IN  after[Cardinality(Tools)]

MarkStale(r) ==
  [t \in Tools |->
     IF r[t].state \in {"active", "probationary", "assist"} /\ ~r[t].recent
        /\ r[t].hits # <<>>
     THEN [r[t] EXCEPT !.state = "retired"] ELSE r[t]]

-----------------------------------------------------------------------------
(* /factory codified.                                                       *)

Reset == [pc |-> "idle", to |-> "staged", tool |-> CHOOSE t \in Tools : TRUE,
          copy |-> NoCopy]

Done(c) == call' = [call EXCEPT ![c] = Reset]

Ask(c, pc, t, to) ==
  call' = [call EXCEPT ![c] = [pc |-> pc, to |-> to, tool |-> t, copy |-> NoCopy]]

Hold(c, pc, t, to) ==
  call' = [call EXCEPT ![c] = [pc |-> pc, to |-> to, tool |-> t, copy |-> reg]]

(* Looks at the tool, then waits for the operator.                          *)
Promote(c, t) ==
  /\ call[c].pc = "idle" /\ CanPromote(t)
  /\ Ask(c, "confirm", t, "probationary")
  /\ UNCHANGED <<reg, hist>>

Confirm(c) ==
  /\ call[c].pc = "confirm"
  /\ \/ /\ Ask(c, "load", call[c].tool, "probationary")
        /\ hist' = [hist EXCEPT !.approved = @ \cup {call[c].tool}]
     \/ Done(c) /\ UNCHANGED hist
  /\ UNCHANGED reg

Demote(c, t) ==
  /\ call[c].pc = "idle"
  /\ Ask(c, "load", t, "demoted")
  /\ UNCHANGED <<reg, hist>>

Retire(c, t) ==
  /\ call[c].pc = "idle"
  /\ Ask(c, "load", t, "retired")
  /\ UNCHANGED <<reg, hist>>

(* applyTransition: what it loads now decides, whatever was asked before.   *)
Load(c) ==
  /\ call[c].pc = "load"
  /\ LET to == call[c].to
         t == call[c].tool IN
     IF Legal(reg[t].state, to) THEN Hold(c, "save", t, to) ELSE Done(c)
  /\ UNCHANGED <<reg, hist>>

Save(c) ==
  /\ call[c].pc = "save"
  /\ reg' = SetState(call[c].copy, call[c].tool, call[c].to)
  /\ Done(c)
  /\ UNCHANGED hist

(* /factory codified shadow: a shadow run that agreed, and what it earns.    *)
Shadow(c, t) ==
  /\ call[c].pc = "idle" /\ hist.hits < MaxHits
  /\ Hold(c, "shadow", t, "active")
  /\ UNCHANGED reg
  /\ hist' = [hist EXCEPT !.hits = @ + 1]

(* The hit is saved with the state the copy had; the activation is a second  *)
(* load and save.                                                            *)
ShadowSave(c) ==
  /\ call[c].pc = "shadow"
  /\ LET t == call[c].tool
         hit == RecordHit(call[c].copy[t], "shadow-agree") IN
     /\ reg' = [call[c].copy EXCEPT ![t] = hit]
     /\ IF MaybeActivate(hit, t).state # hit.state THEN Ask(c, "load", t, "active")
        ELSE Done(c)
  /\ UNCHANGED hist

-----------------------------------------------------------------------------
(* The host, in one step each: it loads, changes and saves.                  *)

Host(r) ==
  /\ reg' = r
  /\ UNCHANGED call

(* A run used the tool, or let it run in the shadow.                         *)
Used(t, kind) ==
  /\ hist.hits < MaxHits
  /\ LET e == RecordHit(reg[t], kind) IN
     Host([reg EXCEPT ![t] = MaybeDemote(MaybeActivate(e, t))])
  /\ hist' = [hist EXCEPT !.hits = @ + 1]

Drift(t) ==
  /\ Legal(reg[t].state, "drifted")
  /\ Host(SetState(reg, t, "drifted"))
  /\ UNCHANGED hist

(* What the tool was made from was reverted.  Nothing asks what state it is   *)
(* in, so that this also puts a tool on probation that no operator promoted.  *)
SurvivalReverted(t) ==
  /\ Legal(reg[t].state, "probationary")
  /\ Host(SetState(reg, t, "probationary"))
  /\ hist' = IF reg[t].state = "staged" THEN [hist EXCEPT !.reverted = @ \cup {t}] ELSE hist

(* A tool that broke a safety rule is retired from any state.               *)
SafetyRetire(t) ==
  /\ Host(SetState(reg, t, "retired"))
  /\ UNCHANGED hist

Reject(t) ==
  /\ Legal(reg[t].state, "rejected")
  /\ Host(SetState(reg, t, "rejected"))
  /\ UNCHANGED hist

Evict == Host(EvictIfNeeded(reg)) /\ UNCHANGED hist

Age(t) == Host([reg EXCEPT ![t].recent = FALSE]) /\ UNCHANGED hist

Stale == Host(MarkStale(reg)) /\ UNCHANGED hist

-----------------------------------------------------------------------------
(* The dispatcher's choice, for one stage of a run.                          *)

Modes == {"off", "partial", "shadow", "exact"}

Rank(mode) == CASE mode = "partial" -> 1 [] mode = "shadow" -> 2 [] mode = "exact" -> 3

(* hit: tools whose title or plan patterns match in time; late: a pattern    *)
(* ran out of time; fit: tools all of whose likely paths are theirs.         *)
Query == [codifiable : BOOLEAN, hit : SUBSET Tools, late : BOOLEAN,
          fit : SUBSET Tools, bindings : BOOLEAN, churn : BOOLEAN,
          sandbox : BOOLEAN, ceiling : Modes]

(* matchTools: only tools in use are looked at.                             *)
Matches(r, q) ==
  {t \in q.hit : r[t].state \in {"active", "probationary", "assist"}}

Wanted(r, q) ==
  IF Cardinality(Matches(r, q)) >= 2 THEN "partial"
  ELSE LET t == CHOOSE u \in Matches(r, q) : TRUE
           fit == t \in q.fit IN
       IF r[t].state = "active" /\ fit /\ q.bindings /\ ~q.churn THEN "exact"
       ELSE IF r[t].state = "probationary"
               \/ (r[t].state = "active" /\ (~fit \/ q.churn)) THEN "shadow"
       ELSE "partial"

CapMode(wanted, ceiling) ==
  IF ceiling = "off" THEN "off"
  ELSE IF Rank(wanted) <= Rank(ceiling) THEN wanted ELSE ceiling

(* An exact run whose dry run fails is offered as partial: Outcome.          *)
Dispatch(r, q) ==
  IF q.ceiling = "off" THEN "off"
  ELSE IF ~q.codifiable \/ q.late \/ Matches(r, q) = {} THEN "none"
  ELSE LET mode == CapMode(Wanted(r, q), q.ceiling) IN
       IF mode \in {"exact", "shadow"} /\ ~q.sandbox THEN "refused" ELSE mode

-----------------------------------------------------------------------------
Init ==
  /\ reg = [t \in Tools |-> [state |-> "staged", hits |-> <<>>, agree |-> 0,
                             disagree |-> 0, exact |-> 0, recent |-> FALSE]]
  /\ call = [c \in Callers |-> Reset]
  /\ hist = [hits |-> 0, approved |-> {}, reverted |-> {}]

Command(c, t) == Promote(c, t) \/ Demote(c, t) \/ Retire(c, t) \/ Shadow(c, t)

Next ==
  \/ \E c \in Callers : \/ Confirm(c) \/ Load(c) \/ Save(c) \/ ShadowSave(c)
                        \/ \E t \in Tools : Command(c, t)
  \/ \E t \in Tools : \/ \E kind \in Kinds : Used(t, kind)
                      \/ Drift(t) \/ SurvivalReverted(t) \/ SafetyRetire(t)
                      \/ Reject(t) \/ Age(t)
  \/ Evict \/ Stale

Spec == Init /\ [][Next]_vars

-----------------------------------------------------------------------------
(* Properties.                                                              *)

(* A tool is run in the host's place only when no second tool matched, it is *)
(* no task tool, and an operator has confirmed its promotion, with secrets   *)
(* bound and a source that landed clean, whatever commands wrote over each   *)
(* other and whatever the run asked (dispatch.ts:149, registry.ts:230).  One *)
(* way leads past the operator: a reversion of the source of a staged tool   *)
(* (drift.ts:59).                                                            *)
ExactIsEarned ==
  \A q \in Stages : Dispatch(reg, q) = "exact" =>
    /\ q.ceiling = "exact" /\ q.sandbox /\ ~q.churn
    /\ Cardinality(Matches(reg, q)) = 1
    /\ Matches(reg, q) \cap TaskTools = {}
    /\ Matches(reg, q) \subseteq (hist.approved \cap Bound \cap Clean) \cup hist.reverted

(* A tool that is out comes back on probation only, as the operator promoted  *)
(* it or a reversion of its source had it tried again, and once retired or   *)
(* rejected not at all: except when a command writes back a copy of the      *)
(* registry that is not the latest (codified.ts:152).                        *)
StaysOut ==
  \A t \in Tools :
    (reg[t].state \in {"demoted", "drifted", "retired", "rejected"}
     /\ reg'[t].state \notin {reg[t].state, "retired"})
    => LET back == reg[t].state \in {"demoted", "drifted"} /\ reg'[t].state = "probationary" IN
       \/ \E c \in Callers :
            /\ call[c].pc \in {"save", "shadow"} /\ call[c] # call'[c]
            /\ \/ call[c].copy # reg
               \/ back /\ call[c].tool = t /\ call[c].to = "probationary"
       \/ back /\ SurvivalReverted(t)

(* An eviction leaves every pool within its cap, and retires no more than it *)
(* must: a pool never falls below its cap (registry.ts:389).                 *)
EvictionFits ==
  LET after == EvictIfNeeded(reg)
      n(r, pool) == Cardinality(ActiveTools(r) \cap pool) IN
  /\ \A pool \in {Local, Tools \ Local} : n(after, pool) <= MaxRepo
  /\ n(after, Tools) <= MaxGlobal
  /\ after # reg => \/ \E pool \in {Local, Tools \ Local} :
                           n(after, pool) = MaxRepo /\ n(reg, pool) > MaxRepo
                    \/ n(after, Tools) = MaxGlobal

(* A tool has its place by what it earned, and loses it by an eviction only *)
(* when it must.                                                            *)
PlacesAreEarned == ExactIsEarned /\ EvictionFits
=============================================================================
