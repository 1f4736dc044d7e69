---------------------------- MODULE RulesProofs ----------------------------
(***************************************************************************)
(* What is proved of the components of MCRules: the guard confines every    *)
(* call it lets through, whatever the calls and the policies; the           *)
(* configuration in effect is never looser than its layers may make it,     *)
(* whatever their files hold; a ticket gets ready by what was agreed on,      *)
(* whatever it says and is answered; the vault keeps its secrets readable    *)
(* and apart, for any sessions and any number of secrets; a mined seed says  *)
(* of its script what its runs show, for any scripts; and a codified tool    *)
(* has its place in the registry by what it earned, for any tools and calls. *)
(***************************************************************************)
EXTENDS MCRules, TLAPS, FiniteSetTheorems, WellFoundedInduction


-----------------------------------------------------------------------------
(* The guard.                                                               *)

(* A segment that is not destructive changes nothing, or is a check.         *)
LEMMA SafeSegment ==
  ASSUME NEW c \in Calls, NEW s \in G!AllSegments(c.segs), G!classifySegment(s) # "destructive"
  PROVE  G!OnlyChecks(s) /\ s.verb \in G!KnownEffects /\ ~(s.verb = "shell" /\ s.depth >= G!MAX_NEST)
<1>1. /\ s.redirects \ {"null"} = {}
      /\ ~(s.verb = "shell" /\ s.depth >= G!MAX_NEST)
      /\ s.verb # "shell" => s.outputs \ {"null"} = {} /\ s.verb \in G!SafeVerbs \cup {"tee"}
  BY DEF G!classifySegment
<1>2. s.verb \in G!SafeVerbs \cup {"tee", "shell"}
  BY <1>1
<1>3. (s.verb = "shell" => s.outputs = {}) /\ (s.own # {} => s.verb \in {"check", "tooling", "other"})
  BY CallsAssumption
<1>4. G!WritesOf(s) = {} /\ G!DeletesOf(s) = {}
  BY <1>1, <1>2, <1>3 DEF G!WritesOf, G!DeletesOf, G!SafeVerbs
<1>5. s.own = {} \/ s.verb = "check"
  BY <1>2, <1>3 DEF G!SafeVerbs
<1>6. s.verb \in G!KnownEffects
  BY <1>2 DEF G!SafeVerbs, G!KnownEffects
<1>7. QED
  BY <1>1, <1>4, <1>5, <1>6 DEF G!OnlyChecks

(* A command that is not destructive is not nested too deep for the guard,  *)
(* and all of it is known and changes nothing, but for checks.              *)
LEMMA SafeTouchesNothing ==
  ASSUME NEW c \in Calls, G!classifyBash(c) # "destructive"
  PROVE  /\ ~c.opaque
         /\ G!Seen(c.segs) = G!AllSegments(c.segs)
         /\ \A s \in G!AllSegments(c.segs) : G!OnlyChecks(s) /\ s.verb \in G!KnownEffects
<1>1. ~c.opaque /\ \A s \in G!Seen(c.segs) : G!classifySegment(s) # "destructive"
  BY DEF G!classifyBash
<1>2. \A s \in G!AllSegments(c.segs) : s.depth \in Nat
  BY CallsAssumption
<1>3. ASSUME NEW s \in G!AllSegments(c.segs)
      PROVE  s \in G!Seen(c.segs)
  <2>1. SUFFICES ASSUME s.depth > G!MAX_NEST
                 PROVE  FALSE
    BY <1>2 DEF G!Seen, G!MAX_NEST
  <2>2. PICK t \in G!AllSegments(c.segs) : t.verb = "shell" /\ t.depth = G!MAX_NEST
    BY <2>1, CallsAssumption
  <2>3. t \in G!Seen(c.segs) /\ t.depth >= G!MAX_NEST
    BY <2>2 DEF G!Seen, G!MAX_NEST
  <2>4. QED
    BY <1>1, <2>2, <2>3, SafeSegment
<1>4. QED
  BY <1>1, <1>3, SafeSegment DEF G!Seen

(* A shell command that the domain of its agent lets pass is in it where    *)
(* the guard looks: what it writes and deletes there is the agent's, and    *)
(* its effects are known.                                                   *)
LEMMA ConfinedBash ==
  ASSUME NEW c \in Calls, NEW p, c.tool = "bash", ~G!domainBlock(c, p)
  PROVE  /\ ~c.opaque
         /\ \A s \in G!Seen(c.segs) :
              /\ s.verb \in G!KnownEffects
              /\ G!WritesOf(s) \subseteq p.upsert \ p.deny
              /\ G!DeletesOf(s) \subseteq p.delete
<1>1. p.bash # "none"
  BY DEF G!domainBlock
<1>2. CASE p.bash = "read-only"
  <2>1. G!classifyBash(c) # "destructive"
    BY <1>2 DEF G!domainBlock
  <2>2. QED
    BY <2>1, SafeTouchesNothing DEF G!OnlyChecks
<1>3. CASE p.bash # "read-only"
  <2>1. G!confineCommand(c, p)
    BY <1>1, <1>3 DEF G!domainBlock
  <2>2. QED
    BY <2>1 DEF G!confineCommand, G!checkWrite, G!checkDelete
<1>4. QED
  BY <1>2, <1>3

(* What a call that no layer blocks may change.                             *)
LEMMA PassConfines ==
  ASSUME NEW c \in Calls, NEW a, NEW t \in BOOLEAN, G!evaluate(c, a, t) = "pass"
  PROVE  /\ G!LookedAt(c) \subseteq (Policies[a].upsert \ Policies[a].deny) \cup Policies[a].delete
         /\ G!stageClassOf(a) = "read-only" => G!LookedAt(c) \subseteq G!RunZones
         /\ \A z \in G!LookedAt(c) :
              G!isProtectedPath(z, a) => \E s \in G!Seen(c.segs) : z \in s.outputs \ s.words
         /\ c.tool \in G!SHELL_TOOLS =>
              \/ G!ApprovedShell(c, a, t)
              \/ \A s \in G!AllSegments(c.segs) : G!OnlyChecks(s)
         /\ c.tool = "bash" => ~c.opaque /\ \A s \in G!Seen(c.segs) : s.verb \in G!KnownEffects
         /\ c.tool \in G!READ_TOOLS => (Policies[a].read = {} \/ c.zone \in Policies[a].read \cup {"absent"})
         /\ c.tool \in G!POLICY_GATED_TOOLS => ~Policies[a].broken
<1> DEFINE p == Policies[a]
<1>1. ~G!hardBlock(c, a) /\ ~G!readOnlyBlock(c, a) /\ ~G!defaultDenyBlock(c, t) /\ ~G!loadDomainPolicy(c, p)
  <2>1. ~G!hardBlock(c, a)
    BY DEF G!evaluate
  <2>2. ~G!readOnlyBlock(c, a)
    BY <2>1 DEF G!evaluate
  <2>3. ~G!defaultDenyBlock(c, t)
    BY <2>1, <2>2 DEF G!evaluate
  <2>4. ~G!loadDomainPolicy(c, p)
    BY <2>1, <2>2, <2>3 DEF G!evaluate
  <2>5. QED
    BY <2>1, <2>2, <2>3, <2>4
<1> HIDE DEF p
<1>2. c.tool \in G!POLICY_GATED_TOOLS => ~p.broken /\ ~G!domainBlock(c, p)
  BY <1>1 DEF G!loadDomainPolicy
<1>3. CASE c.tool \in {"write", "edit"}
  <2>1. /\ G!LookedAt(c) = {c.zone} /\ c.tool \in G!PATH_TOOLS /\ c.tool \in G!POLICY_GATED_TOOLS
        /\ c.tool \notin G!SHELL_TOOLS /\ c.tool \notin G!READ_TOOLS /\ c.tool # "bash"
    BY <1>3 DEF G!LookedAt, G!READ_TOOLS, G!PATH_TOOLS, G!SHELL_TOOLS, G!POLICY_GATED_TOOLS
  <2>2. ~G!isProtectedPath(c.zone, a)
    BY <1>1, <2>1 DEF G!hardBlock
  <2>3. c.zone \in p.upsert \ p.deny
    BY <1>2, <1>3, <2>1 DEF G!domainBlock, G!checkWrite
  <2>4. G!stageClassOf(a) = "read-only" => c.zone \in G!RunZones
    BY <1>1, <1>3, <2>1 DEF G!readOnlyBlock, G!READ_ONLY_TOOLS, G!READ_TOOLS
  <2>5. QED
    BY <1>2, <2>1, <2>2, <2>3, <2>4 DEF p
<1>4. CASE c.tool = "bash"
  <2>1. G!LookedAt(c) = UNION {G!WritesOf(s) \cup G!DeletesOf(s) : s \in G!Seen(c.segs)}
    BY <1>4 DEF G!LookedAt
  <2>2. ~G!domainBlock(c, p) /\ ~p.broken
    BY <1>2, <1>4 DEF G!POLICY_GATED_TOOLS, G!SHELL_TOOLS
  <2>3. /\ ~c.opaque
        /\ \A s \in G!Seen(c.segs) :
             /\ s.verb \in G!KnownEffects
             /\ G!WritesOf(s) \subseteq p.upsert \ p.deny
             /\ G!DeletesOf(s) \subseteq p.delete
    BY <1>4, <2>2, ConfinedBash
  <2>4. \A s \in G!Seen(c.segs) : \A z \in s.words \cup s.redirects : ~G!isProtectedPath(z, a)
    BY <1>1, <1>4 DEF G!hardBlock, G!SHELL_TOOLS
  <2>5. \A z \in G!LookedAt(c) :
          G!isProtectedPath(z, a) => \E s \in G!Seen(c.segs) : z \in s.outputs \ s.words
    <3> SUFFICES ASSUME NEW z \in G!LookedAt(c), G!isProtectedPath(z, a)
                 PROVE  \E s \in G!Seen(c.segs) : z \in s.outputs \ s.words
      OBVIOUS
    <3>1. PICK s \in G!Seen(c.segs) : z \in G!WritesOf(s) \cup G!DeletesOf(s)
      BY <2>1
    <3>2. z \notin s.words \cup s.redirects
      BY <2>4, <3>1
    <3>3. z \in s.outputs \ s.words
      BY <3>1, <3>2 DEF G!WritesOf, G!DeletesOf
    <3>4. QED
      BY <3>1, <3>3
  <2>6. G!stageClassOf(a) = "read-only" => G!classifyBash(c) # "destructive"
    BY <1>1, <1>4 DEF G!readOnlyBlock, G!READ_ONLY_TOOLS, G!READ_TOOLS
  <2>7. ~t => G!classifyBash(c) # "destructive"
    BY <1>1, <1>4 DEF G!defaultDenyBlock
  <2>8. p.bash \in {"none", "read-only"} => G!classifyBash(c) # "destructive"
    BY <1>4, <2>2 DEF G!domainBlock
  <2>9. G!classifyBash(c) # "destructive" =>
          /\ \A s \in G!AllSegments(c.segs) : G!OnlyChecks(s)
          /\ G!LookedAt(c) = {}
    BY <2>1, SafeTouchesNothing DEF G!OnlyChecks
  <2>10. G!ApprovedShell(c, a, t) \/ G!classifyBash(c) # "destructive"
    BY <1>4, <2>6, <2>7, <2>8 DEF G!ApprovedShell, p, G!stageClassOf
  <2>11. c.tool \notin G!READ_TOOLS
    BY <1>4 DEF G!READ_TOOLS
  <2>12. G!LookedAt(c) \subseteq (p.upsert \ p.deny) \cup p.delete
    BY <2>1, <2>3
  <2>13. QED
    BY <2>2, <2>3, <2>5, <2>6, <2>9, <2>10, <2>11, <2>12 DEF p
<1>5. CASE c.tool = "powershell"
  <2>1. G!LookedAt(c) = {} /\ c.tool # "bash" /\ c.tool \notin G!READ_TOOLS
    BY <1>5 DEF G!LookedAt, G!READ_TOOLS
  <2>2. ~p.broken
    BY <1>2, <1>5 DEF G!POLICY_GATED_TOOLS, G!SHELL_TOOLS
  <2>3. t
    BY <1>1, <1>5 DEF G!defaultDenyBlock
  <2>4. G!stageClassOf(a) # "read-only"
    BY <1>1, <1>5 DEF G!readOnlyBlock, G!READ_ONLY_TOOLS, G!READ_TOOLS
  <2>5. G!ApprovedShell(c, a, t)
    BY <1>5, <2>3, <2>4 DEF G!ApprovedShell, G!stageClassOf
  <2>6. QED
    BY <2>1, <2>2, <2>5 DEF p
<1>6. CASE c.tool \notin {"write", "edit", "bash", "powershell"}
  <2>1. G!LookedAt(c) = {} /\ c.tool \notin G!SHELL_TOOLS /\ c.tool # "bash"
    BY <1>6 DEF G!LookedAt, G!SHELL_TOOLS
  <2>2. c.tool \in G!READ_TOOLS => c.tool \in G!POLICY_GATED_TOOLS
    BY DEF G!POLICY_GATED_TOOLS, G!PATH_TOOLS
  <2>3. c.tool \in G!READ_TOOLS => (p.read = {} \/ c.zone \in p.read \cup {"absent"})
    BY <1>2, <2>2 DEF G!domainBlock
  <2>4. QED
    BY <1>2, <2>1, <2>3 DEF p
<1>7. QED
  BY <1>3, <1>4, <1>5, <1>6

(* The answer is what the layers say of the call.                           *)
GuardSound ==
  /\ call \in Calls /\ token \in BOOLEAN
  /\ answer = "pass" => G!evaluate(call, agent, token) = "pass"
GuardHolds == which = "guard" => GuardSound

LEMMA GuardInit == Init => GuardHolds
BY DEF Init, GuardHolds, GuardSound, G!Init

LEMMA GuardNext == GuardHolds /\ [Next]_vars => GuardHolds'
<1> SUFFICES ASSUME GuardHolds, [Next]_vars, which' = "guard"
             PROVE  GuardSound'
  BY DEF GuardHolds
<1>1. which = "guard" /\ GuardSound
  BY DEF Next, vars, GuardHolds
<1>2. CASE G!Next
  BY <1>1, <1>2 DEF G!Next, G!ToolCall, GuardSound
<1>3. CASE UNCHANGED guardVars
  BY <1>1, <1>3 DEF GuardSound, guardVars
<1>4. G!Next \/ UNCHANGED guardVars
  BY <1>1 DEF Next, vars
<1>5. QED
  BY <1>2, <1>3, <1>4

(* A call that the guard passes writes and deletes only what its agent's     *)
(* policy lets it, never a protected zone, and what it does is known: for    *)
(* every policy, every zone and every command (safety/guard.ts:95).          *)
THEOREM PassedCallsAreConfined == Spec => []PassedIsConfined
<1>1. GuardHolds => PassedIsConfined
  <2> SUFFICES ASSUME which = "guard", GuardSound, answer = "pass"
               PROVE  G!PassedIsConfined
    BY DEF GuardHolds, PassedIsConfined, G!PassedIsConfined
  <2>1. G!evaluate(call, agent, token) = "pass" /\ call \in Calls /\ token \in BOOLEAN
    BY DEF GuardSound
  <2>2. QED
    BY <2>1, PassConfines DEF G!PassedIsConfined
<1>2. QED
  BY <1>1, GuardInit, GuardNext, PTL DEF Spec

-----------------------------------------------------------------------------
(* The configuration.                                                       *)

(* The place of a layer in the order.                                       *)
LEMMA IndexOf ==
  /\ Len(C!LAYER_ORDER) = 5 /\ DOMAIN C!LAYER_ORDER = 1 .. 5
  /\ \A i \in 1 .. 5 : C!LAYER_ORDER[i] \in C!Layers /\ C!Index(C!LAYER_ORDER[i]) = i
<1>1. Len(C!LAYER_ORDER) = 5 /\ DOMAIN C!LAYER_ORDER = 1 .. 5
  BY DEF C!LAYER_ORDER
<1>2. \A i, j \in 1 .. 5 : C!LAYER_ORDER[i] = C!LAYER_ORDER[j] => i = j
  BY DEF C!LAYER_ORDER
<1>3. ASSUME NEW i \in 1 .. 5
      PROVE  C!LAYER_ORDER[i] \in C!Layers /\ C!Index(C!LAYER_ORDER[i]) = i
  BY <1>1, <1>2 DEF C!Index, C!Layers
<1>4. QED
  BY <1>1, <1>3

LEMMA LayerNames ==
  /\ C!LAYER_ORDER[1] = "builtin" /\ C!LAYER_ORDER[2] = "global" /\ C!LAYER_ORDER[3] = "committed"
  /\ C!LAYER_ORDER[4] = "overrides" /\ C!LAYER_ORDER[5] = "local"
BY DEF C!LAYER_ORDER

(* The keys that layer i may only tighten, as the property names them.      *)
NarrowedAt(i) ==
  IF i = 3 THEN {"steering", "planApproval", "sandbox", "generatedDocPatterns"}
  ELSE IF i = 2 THEN {"generatedDocPatterns"} ELSE C!SAFETY_KEYS

LEMMA NarrowedKeys ==
  ASSUME NEW i \in 2 .. 5
  PROVE  NarrowedAt(i) = C!narrowedKeysFor(C!LAYER_ORDER[i]) /\ C!LAYER_ORDER[i] # "builtin"
<1>1. CASE i = 2
  BY <1>1, LayerNames DEF NarrowedAt, C!narrowedKeysFor
<1>2. CASE i = 3
  BY <1>2, LayerNames DEF NarrowedAt, C!narrowedKeysFor
<1>3. CASE i = 4
  BY <1>3, LayerNames DEF NarrowedAt, C!narrowedKeysFor
<1>4. CASE i = 5
  BY <1>4, LayerNames DEF NarrowedAt, C!narrowedKeysFor
<1>5. QED
  BY <1>1, <1>2, <1>3, <1>4

(* A level or a number is a natural number.                                 *)
Numeric == DOMAIN C!Ranks \cup C!Numbers
Typed(values) == \A k \in DOMAIN values \cap Numeric : values[k] \in Nat

LEMMA TightensOrders ==
  ASSUME NEW k, NEW a, NEW b, NEW c,
         k \in Numeric => a \in Nat /\ b \in Nat /\ c \in Nat
  PROVE  /\ C!Tightens(k, a, a)
         /\ C!Tightens(k, a, b) /\ C!Tightens(k, b, c) => C!Tightens(k, a, c)
<1>1. CASE k \in DOMAIN C!Ranks
  BY <1>1 DEF C!Tightens, Numeric
<1>2. CASE k \notin DOMAIN C!Ranks /\ k \in C!Numbers
  BY <1>2 DEF C!Tightens, Numeric
<1>3. CASE k \notin DOMAIN C!Ranks /\ k \notin C!Numbers /\ k \in C!Lists
  BY <1>3 DEF C!Tightens
<1>4. CASE k \notin DOMAIN C!Ranks /\ k \notin C!Numbers /\ k \notin C!Lists
  BY <1>4 DEF C!Tightens
<1>5. QED
  BY <1>1, <1>2, <1>3, <1>4

(* What a file that the loader accepts sets is typed.                       *)
LEMMA AcceptedIsTyped ==
  ASSUME NEW layer \in C!Layers, NEW f \in LayerFiles[layer], C!FileError(f) = "none"
  PROVE  Typed(C!readLayer(f).set)
<1> DEFINE lower == C!readLayer(f)
<1>1. CASE f.is = "missing"
  <2>1. lower.set = <<>>
    BY <1>1 DEF C!readLayer, C!NoOverlay
  <2>2. QED
    BY <2>1 DEF Typed
<1>2. CASE f.is # "missing"
  <2>1. lower = C!Overlay(f)
    BY <1>2 DEF C!readLayer
  <2>2. DOMAIN lower.set = DOMAIN f.body \ C!RETIRED_KEYS /\ \A k \in DOMAIN lower.set : lower.set[k] = f.body[k]
    BY <2>1 DEF C!Overlay, C!dropRetiredKeys
  <2>3. \A k \in DOMAIN lower.set : C!InSchema(k, lower.set[k])
    BY <1>2 DEF C!FileError
  <2>4. \A k \in DOMAIN lower.set \cap DOMAIN C!Ranks : lower.set[k] \in Nat
    BY <2>3 DEF C!InSchema, C!Ranks
  <2>5. \A k \in DOMAIN lower.set \cap C!Numbers : lower.set[k] \in Nat
    BY <2>2, ContentsAssumption
  <2>6. QED
    BY <2>4, <2>5 DEF Typed, Numeric
<1>3. QED
  BY <1>1, <1>2

(* The layers merged so far have each left a typed configuration, and those  *)
(* of the safety keys that every layer since narrows are in effect as tight  *)
(* or tighter.                                                              *)
ConfigSound ==
  /\ next \in 1 .. 6
  /\ DOMAIN upper = {C!LAYER_ORDER[i] : i \in 1 .. next - 1}
  /\ Typed(config) /\ \A l \in DOMAIN upper : Typed(upper[l])
  /\ \A k \in DOMAIN config : k \in DOMAIN provenance /\ provenance[k] \in DOMAIN upper
  /\ C!EffectiveIsHonest
ConfigHolds == which = "config" => ConfigSound

LEMMA ConfigInit == Init => ConfigHolds
<1> SUFFICES ASSUME Init, which = "config"
             PROVE  ConfigSound
  BY DEF ConfigHolds
<1>1. next = 1 /\ config = <<>> /\ provenance = <<>> /\ upper = <<>>
  BY DEF Init, C!Init
<1>2. DOMAIN config = {} /\ DOMAIN provenance = {} /\ DOMAIN upper = {}
  BY <1>1
<1>3. C!EffectiveIsHonest
  BY <1>2 DEF C!EffectiveIsHonest, C!NeverLoosened, C!ProvenanceTells
<1>4. QED
  BY <1>1, <1>2, <1>3 DEF ConfigSound, Typed

(* A layer that the loader reads and accepts is merged.                     *)
Merges(layer, lower) ==
  /\ config' = C!deepMerge(config, lower)
  /\ provenance' = C!Touch(provenance, lower, layer)
  /\ upper' = [l \in DOMAIN upper \cup {layer} |-> IF l = layer THEN config' ELSE upper[l]]
  /\ next' = next + 1

LEMMA MergeKeeps ==
  ASSUME ConfigSound, next \in 1 .. 5,
         NEW layer, layer = C!LAYER_ORDER[next],
         NEW lower, Typed(lower.set), C!assertNarrowing(lower, config, layer), Merges(layer, lower)
  PROVE  ConfigSound'
<1>1. /\ \A i \in 1 .. next - 1 : C!LAYER_ORDER[i] \in DOMAIN upper /\ C!LAYER_ORDER[i] # layer
      /\ \A l \in DOMAIN upper : C!Index(l) \in 1 .. next - 1 /\ l # layer
      /\ C!Index(layer) = next
  BY IndexOf DEF ConfigSound
<1>2. /\ DOMAIN config' = (DOMAIN config \cup DOMAIN lower.set) \ lower.del
      /\ \A k \in DOMAIN config' : config'[k] = IF k \in DOMAIN lower.set THEN lower.set[k] ELSE config[k]
  BY DEF Merges, C!deepMerge
<1>3. /\ DOMAIN provenance' = (DOMAIN provenance \cup DOMAIN lower.set) \ lower.del
      /\ \A k \in DOMAIN provenance' : provenance'[k] = IF k \in DOMAIN lower.set THEN layer ELSE provenance[k]
  BY DEF Merges, C!Touch
<1>4. /\ DOMAIN upper' = DOMAIN upper \cup {layer}
      /\ upper'[layer] = config'
      /\ \A l \in DOMAIN upper : upper'[l] = upper[l]
  BY <1>1 DEF Merges
<1>5. next' = next + 1 /\ next' \in 1 .. 6
  BY DEF Merges
<1>6. DOMAIN upper' = {C!LAYER_ORDER[i] : i \in 1 .. next' - 1}
  <2>1. 1 .. next' - 1 = (1 .. next - 1) \cup {next}
    BY <1>5
  <2>2. QED
    BY <1>4, <2>1 DEF ConfigSound
<1>7. Typed(config')
  BY <1>2 DEF ConfigSound, Typed
<1>8. \A l \in DOMAIN upper' : Typed(upper'[l])
  BY <1>4, <1>7 DEF ConfigSound
<1>9. \A k \in DOMAIN config' : k \in DOMAIN provenance' /\ provenance'[k] \in DOMAIN upper'
  BY <1>2, <1>3, <1>4 DEF ConfigSound
<1>10. C!NeverLoosened'
  <2> SUFFICES ASSUME NEW l \in DOMAIN upper', NEW k \in DOMAIN upper'[l] \cap C!SAFETY_KEYS,
                      \A i \in (C!Index(l) + 1) .. (next' - 1) : k \in NarrowedAt(i)
               PROVE  k \in DOMAIN config' /\ C!Tightens(k, upper'[l][k], config'[k])
    BY DEF C!NeverLoosened, NarrowedAt, C!SAFETY_KEYS
  <2>1. CASE l = layer
    <3>1. k \in DOMAIN config' /\ upper'[l][k] = config'[k]
      BY <2>1, <1>4
    <3>2. k \in Numeric => config'[k] \in Nat
      BY <3>1, <1>7 DEF Typed
    <3>3. QED
      BY <3>1, <3>2, TightensOrders
  <2>2. CASE l # layer
    <3>1. l \in DOMAIN upper /\ upper'[l] = upper[l] /\ C!Index(l) \in 1 .. next - 1
      BY <2>2, <1>1, <1>4
    <3>2. k \in DOMAIN config /\ C!Tightens(k, upper[l][k], config[k])
      <4>1. \A i \in (C!Index(l) + 1) .. (next - 1) : k \in NarrowedAt(i)
        BY <3>1, <1>5
      <4>2. C!NeverLoosened
        BY DEF ConfigSound, C!EffectiveIsHonest
      <4>3. QED
        BY <3>1, <4>1, <4>2 DEF C!NeverLoosened, NarrowedAt
    <3>3. k \in NarrowedAt(next) /\ next \in 2 .. 5
      BY <3>1, <1>5
    <3>4. k \in C!narrowedKeysFor(layer) /\ layer # "builtin"
      BY <3>3, NarrowedKeys
    <3>5. k \in DOMAIN config'
      BY <3>2, <3>4, <1>2 DEF C!assertNarrowing
    <3>6. k \in Numeric => upper[l][k] \in Nat /\ config[k] \in Nat /\ config'[k] \in Nat
      BY <3>1, <3>2, <3>5, <1>7 DEF ConfigSound, Typed
    <3>7. CASE k \in DOMAIN lower.set
      <4>1. C!Tightens(k, config[k], config'[k])
        BY <3>2, <3>4, <3>5, <3>7, <1>2 DEF C!assertNarrowing
      <4>2. QED
        BY <3>1, <3>2, <3>5, <3>6, <4>1, TightensOrders
    <3>8. CASE k \notin DOMAIN lower.set
      BY <3>1, <3>2, <3>5, <3>8, <1>2
    <3>9. QED
      BY <3>7, <3>8
  <2>3. QED
    BY <2>1, <2>2
<1>11. C!ProvenanceTells'
  <2>1. DOMAIN config' \subseteq DOMAIN provenance'
    BY <1>9
  <2>2. ASSUME NEW k \in DOMAIN provenance' \cap DOMAIN config', NEW l \in DOMAIN upper',
               C!Index(l) >= C!Index(provenance'[k])
        PROVE  k \in DOMAIN upper'[l] /\ upper'[l][k] = config'[k]
    <3>1. CASE l = layer
      BY <3>1, <1>4
    <3>2. CASE l # layer
      <4>1. l \in DOMAIN upper /\ upper'[l] = upper[l] /\ C!Index(l) \in 1 .. next - 1
        BY <3>2, <1>1, <1>4
      <4>2. k \notin DOMAIN lower.set
        BY <4>1, <2>2, <1>1, <1>3
      <4>3. k \in DOMAIN config /\ config'[k] = config[k] /\ k \in DOMAIN provenance /\ provenance'[k] = provenance[k]
        BY <4>2, <1>2, <1>3
      <4>4. C!ProvenanceTells
        BY DEF ConfigSound, C!EffectiveIsHonest
      <4>5. k \in DOMAIN upper[l] /\ upper[l][k] = config[k]
        BY <4>1, <4>3, <4>4, <2>2 DEF C!ProvenanceTells
      <4>6. QED
        BY <4>1, <4>3, <4>5
    <3>3. QED
      BY <3>1, <3>2
  <2>3. QED
    BY <2>1, <2>2 DEF C!ProvenanceTells
<1>12. QED
  BY <1>5, <1>6, <1>7, <1>8, <1>9, <1>10, <1>11 DEF ConfigSound, C!EffectiveIsHonest

(* Filling in the branches adds to the provenance and changes none of it.    *)
LEMMA FillKeeps ==
  ASSUME ConfigSound, provenance' = C!FilledFrom(provenance), UNCHANGED <<next, config, upper>>
  PROVE  ConfigSound'
<1> DEFINE based == C!Filled(provenance, "branching.base", "builtin")
<1>1. ASSUME NEW prov, NEW key, NEW value, NEW k \in DOMAIN prov
      PROVE  k \in DOMAIN C!Filled(prov, key, value) /\ C!Filled(prov, key, value)[k] = prov[k]
  BY DEF C!Filled
<1>2. \A k \in DOMAIN provenance : k \in DOMAIN based /\ based[k] = provenance[k]
  BY <1>1
<1>3. provenance' = C!Filled(based, "branching.target", based["branching.base"])
  BY DEF C!FilledFrom
<1> HIDE DEF based
<1>4. \A k \in DOMAIN provenance : k \in DOMAIN provenance' /\ provenance'[k] = provenance[k]
  BY <1>1, <1>2, <1>3
<1>5. C!ProvenanceTells'
  <2>1. C!ProvenanceTells
    BY DEF ConfigSound, C!EffectiveIsHonest
  <2>2. \A k \in DOMAIN config : k \in DOMAIN provenance
    BY DEF ConfigSound
  <2>3. QED
    BY <1>4, <2>1, <2>2 DEF C!ProvenanceTells
<1>6. C!NeverLoosened'
  BY DEF ConfigSound, C!EffectiveIsHonest, C!NeverLoosened
<1>7. QED
  BY <1>4, <1>5, <1>6 DEF ConfigSound, C!EffectiveIsHonest

LEMMA ConfigNext == ConfigHolds /\ [Next]_vars => ConfigHolds'
<1> SUFFICES ASSUME ConfigHolds, [Next]_vars, which' = "config"
             PROVE  ConfigSound'
  BY DEF ConfigHolds
<1>1. which = "config" /\ ConfigSound
  BY DEF Next, vars, ConfigHolds
<1>2. ASSUME C!MergeLayer
      PROVE  ConfigSound'
  <2>1. next \in 1 .. 5
    BY <1>1, <1>2, IndexOf DEF C!MergeLayer, ConfigSound
  <2> DEFINE layer == C!LAYER_ORDER[next]
  <2>2. layer \in C!Layers
    BY <2>1, IndexOf
  <2>3. PICK f \in LayerFiles[layer] :
          \/ UNCHANGED <<next, config, provenance, upper>>
          \/ /\ C!FileError(f) = "none"
             /\ C!assertNarrowing(C!readLayer(f), config, layer)
             /\ Merges(layer, C!readLayer(f))
    BY <1>2 DEF C!MergeLayer, Merges
  <2>4. CASE UNCHANGED <<next, config, provenance, upper>>
    BY <1>1, <2>4 DEF ConfigSound, C!EffectiveIsHonest, C!NeverLoosened, C!ProvenanceTells
  <2>5. CASE ~UNCHANGED <<next, config, provenance, upper>>
    <3>1. Typed(C!readLayer(f).set)
      BY <2>2, <2>3, <2>5, AcceptedIsTyped
    <3>2. QED
      BY <1>1, <2>1, <2>3, <2>5, <3>1, MergeKeeps
  <2>6. QED
    BY <2>4, <2>5
<1>3. ASSUME C!loadEffectiveConfig
      PROVE  ConfigSound'
  <2>1. CASE provenance' = C!FilledFrom(provenance)
    BY <1>1, <1>3, <2>1, FillKeeps DEF C!loadEffectiveConfig
  <2>2. CASE provenance' = provenance
    BY <1>1, <1>3, <2>2 DEF C!loadEffectiveConfig, ConfigSound, C!EffectiveIsHonest, C!NeverLoosened, C!ProvenanceTells
  <2>3. QED
    BY <1>3, <2>1, <2>2 DEF C!loadEffectiveConfig
<1>4. CASE UNCHANGED configVars
  BY <1>1, <1>4 DEF ConfigSound, configVars, C!EffectiveIsHonest, C!NeverLoosened, C!ProvenanceTells
<1>5. C!Next \/ UNCHANGED configVars
  BY <1>1 DEF Next, vars
<1>6. QED
  BY <1>2, <1>3, <1>4, <1>5 DEF C!Next

(* No layer brings back what one above it narrowed, and the layer that is    *)
(* named for a value is the one that set it: whatever the files of the five  *)
(* layers hold, as long as their numbers are numbers (config/narrowing.ts:35,*)
(* effective.ts:51).                                                        *)
THEOREM ConfigurationIsHonest == Spec => []EffectiveIsHonest
<1>1. ConfigHolds => EffectiveIsHonest
  BY DEF ConfigHolds, ConfigSound, EffectiveIsHonest
<1>2. QED
  BY <1>1, ConfigInit, ConfigNext, PTL DEF Spec
-----------------------------------------------------------------------------
(* Intake.                                                                  *)

(* The samples under way: a third one only if two told the kind apart, and   *)
(* none if a person named it; what is decided is decided on these.           *)
AnswersSound ==
  /\ DOMAIN answers = I!Slots
  /\ \A s \in I!Slots : answers[s] \in Briefs \cup {I!Pending, I!Failed}
  /\ answers["tiebreak"] # I!Pending \/ stage = "tie" => I!Split(answers)
  /\ stage = "settle" /\ listed.kindLabel # "none" => \A s \in I!Slots : answers[s] = I!Pending
IntakeSound ==
  /\ stage \in {"idle", "sample", "tie", "settle"}
  /\ stage \in {"sample", "tie"} => listed.kindLabel = "none"
  /\ stage # "idle" => AnswersSound
  /\ I!ReadyIsAgreed
IntakeHolds == which = "intake" => IntakeSound

LEMMA TwoFirst ==
  ASSUME NEW x, NEW y, NEW z, NEW u, u = <<x>> \o <<y>>, NEW v, v = u \o <<z>>
  PROVE  /\ Len(u) = 2 /\ DOMAIN u = 1 .. 2 /\ u[1] = x /\ u[2] = y
         /\ u \o <<>> = u
         /\ Len(v) = 3 /\ {1, 2} \subseteq DOMAIN v /\ v[1] = x /\ v[2] = y
<1>1. Len(u) = 2 /\ DOMAIN u = 1 .. 2 /\ u[1] = x /\ u[2] = y
  OBVIOUS
<1>2. u \in Seq({x, y, z}) /\ <<z>> \in Seq({x, y, z}) /\ Len(<<z>>) = 1
  OBVIOUS
<1>3. u \o <<>> = u
  BY <1>2
<1>4. Len(u \o <<z>>) = 3 /\ \A i \in 1 .. 2 : (u \o <<z>>)[i] = u[i]
  BY <1>1, <1>2
<1>5. u \o <<z>> \in Seq({x, y, z})
  BY <1>2
<1>6. QED
  BY <1>1, <1>3, <1>4, <1>5

LEMMA SamplesAre ==
  ASSUME AnswersSound
  PROVE  LET s == I!Collected
         IN  /\ (\A x \in I!Slots : answers[x] = I!Pending) => s = <<>>
             /\ Len(s) >= 2 /\ (\A i \in DOMAIN s : s[i].kind = s[1].kind) =>
                  Len(s) = 2 /\ DOMAIN s = 1 .. 2 /\ s[1] \in Briefs /\ s[2] \in Briefs
<1> DEFINE a == answers["A"]
           b == answers["B"]
           t == answers["tiebreak"]
           got(x) == IF x.is = "brief" THEN <<x>> ELSE <<>>
<1>1. I!Collected = got(a) \o got(b) \o got(t)
  BY DEF I!Collected, I!Said
<1>2. \A x \in {a, b, t} : x \in Briefs \cup {I!Pending, I!Failed}
  BY DEF AnswersSound, I!Slots
<1>3. \A x \in {a, b, t} : x.is = "brief" => x \in Briefs
  BY <1>2 DEF I!Pending, I!Failed
<1>4. t.is = "brief" => a.is = "brief" /\ b.is = "brief" /\ a.kind # b.kind
  BY DEF AnswersSound, I!Split, I!Pending
<1>5. (\A x \in I!Slots : answers[x] = I!Pending) => a.is # "brief" /\ b.is # "brief" /\ t.is # "brief"
  BY DEF I!Slots, I!Pending
<1> HIDE DEF a, b, t
<1>6. CASE t.is = "brief"
  <2>1. I!Collected = (<<a>> \o <<b>>) \o <<t>>
    BY <1>1, <1>4, <1>6
  <2> HIDE DEF got
  <2>2. Len(I!Collected) = 3 /\ {1, 2} \subseteq DOMAIN I!Collected /\ I!Collected[1] = a /\ I!Collected[2] = b
    <3>1. \A u, v : u = <<a>> \o <<b>> /\ v = u \o <<t>> =>
                      Len(v) = 3 /\ {1, 2} \subseteq DOMAIN v /\ v[1] = a /\ v[2] = b
      <4> SUFFICES ASSUME NEW u, NEW v, u = <<a>> \o <<b>>, v = u \o <<t>>
                   PROVE  Len(v) = 3 /\ {1, 2} \subseteq DOMAIN v /\ v[1] = a /\ v[2] = b
        OBVIOUS
      <4>1. QED
        BY TwoFirst
    <3>2. QED
      BY <2>1, <3>1, Zenon
  <2>3. QED
    BY <1>4, <1>5, <1>6, <2>2
<1>7. CASE t.is # "brief" /\ a.is = "brief" /\ b.is = "brief"
  <2>1. I!Collected = (<<a>> \o <<b>>) \o <<>>
    BY <1>1, <1>7
  <2>2. Len(I!Collected) = 2 /\ DOMAIN I!Collected = 1 .. 2 /\ I!Collected[1] = a /\ I!Collected[2] = b
    BY <2>1, TwoFirst
  <2>3. QED
    BY <1>3, <1>5, <1>7, <2>2
<1>8. CASE t.is # "brief" /\ ~(a.is = "brief" /\ b.is = "brief")
  <2>1. \A x : <<x>> \o <<>> = <<x>> /\ <<>> \o <<x>> = <<x>>
    OBVIOUS
  <2>2. I!Collected = IF a.is = "brief" THEN <<a>> ELSE IF b.is = "brief" THEN <<b>> ELSE <<>>
    BY <1>1, <1>8, <2>1
  <2>3. QED
    BY <1>5, <1>8, <2>2
<1>9. QED
  BY <1>6, <1>7, <1>8

(* Of two that say the same, the most say it, and the criteria are one's.     *)
LEMMA Pair ==
  ASSUME NEW s, DOMAIN s = 1 .. 2, s[1] \in Briefs, s[2] \in Briefs, s[2].kind = s[1].kind
  PROVE  /\ I!Majority(I!Field(s, "kind")) = s[1].kind
         /\ \E i \in DOMAIN s : I!pickAcceptance(s) = s[i].criteria
<1> DEFINE kinds == I!Field(s, "kind")
           q(i) == I!quotedCount(s[i])
           count(v) == I!Cardinality({i \in DOMAIN kinds : kinds[i] = v})
<1>1. DOMAIN s = {1, 2} /\ DOMAIN kinds = {1, 2} /\ kinds[1] = s[1].kind /\ kinds[2] = s[1].kind
  BY DEF I!Field
<1>2. \A i \in {1, 2} : q(i) \in Nat
  BY BriefsAssumption
<1>3. I!Majority(kinds) = s[1].kind
  <2>1. {i \in DOMAIN kinds : kinds[i] = s[1].kind} = {1, 2}
    BY <1>1
  <2>2. count(s[1].kind) \in Nat
    <3>1. I!Cardinality({1, 2}) = Cardinality({1, 2})
      BY DEF I!Cardinality, Cardinality
    <3>2. Cardinality({1, 2}) \in Nat
      <4>1. {1, 2} = 1 .. 2 /\ 1 \in Int /\ 2 \in Int
        OBVIOUS
      <4>2. QED
        BY <4>1, FS_Interval, FS_CardinalityType
    <3>3. QED
      BY <2>1, <3>1, <3>2
  <2> DEFINE First(i) == /\ \A j \in DOMAIN kinds : count(kinds[j]) <= count(kinds[i])
                         /\ \A j \in 1 .. i - 1 : count(kinds[j]) < count(kinds[i])
  <2>3. I!Majority(kinds) = kinds[CHOOSE i \in DOMAIN kinds : First(i)]
    BY Zenon DEF I!Majority
  <2> HIDE DEF count
  <2>4. First(1)
    BY <1>1, <2>2
  <2> HIDE DEF First
  <2>5. (CHOOSE i \in DOMAIN kinds : First(i)) \in DOMAIN kinds
    BY <1>1, <2>4
  <2>6. QED
    BY <1>1, <2>3, <2>5
<1>4. \E i \in DOMAIN s : I!pickAcceptance(s) = s[i].criteria
  <2> DEFINE Best(i) == /\ \A j \in DOMAIN s : q(j) <= q(i)
                        /\ \A j \in 1 .. i - 1 : q(j) < q(i)
  <2>1. I!pickAcceptance(s) = s[CHOOSE i \in DOMAIN s : Best(i)].criteria
    BY Zenon DEF I!pickAcceptance
  <2> HIDE DEF q
  <2>2. \E i \in DOMAIN s : Best(i)
    <3>1. CASE q(2) <= q(1)
      BY <1>1, <1>2, <3>1
    <3>2. CASE q(1) < q(2)
      BY <1>1, <1>2, <3>2
    <3>3. QED
      BY <1>2, <3>1, <3>2
  <2> HIDE DEF Best
  <2>3. (CHOOSE i \in DOMAIN s : Best(i)) \in DOMAIN s
    BY <2>2
  <2>4. QED
    BY <2>1, <2>3
<1>5. QED
  BY <1>3, <1>4

(* Without two that say the same the confidence is low.                      *)
LEMMA AloneIsLow ==
  ASSUME NEW s, NEW prior, ~(Len(s) >= 2 /\ \A i \in DOMAIN s : s[i].kind = s[1].kind)
  PROVE  I!computeConfidence(s, prior) = "LOW"
<1> DEFINE U == Len(s) >= 2 /\ \A i \in DOMAIN s : s[i].kind = s[1].kind
           l == IF ~U THEN "LOW" ELSE IF prior = s[1].kind THEN "HIGH" ELSE "MEDIUM"
<1>1. I!computeConfidence(s, prior) = IF I!Disagree(s) THEN I!downgrade(l) ELSE l
  BY Zenon DEF I!computeConfidence
<1>2. QED
  BY <1>1 DEF I!downgrade

(* A brief with these flags and this confidence, and the rest of r.          *)
Like(r, flags, confidence) ==
  [kind |-> r.kind, size |-> r.size, flags |-> flags, paths |-> r.paths, questions |-> r.questions, repro |-> r.repro,
   criteria |-> r.criteria, duplicate |-> r.duplicate, confidence |-> confidence]

LEMMA BriefChanges ==
  ASSUME NEW r, NEW f, NEW c, NEW x
  PROVE  /\ I!Rated(Like(r, f, c), x) = Like(r, f, x)
         /\ [Like(r, f, c) EXCEPT !.flags = x] = Like(r, x, c)
<1>1. I!Rated(Like(r, f, c), x) = Like(r, f, x)
  BY DEF Like, I!Rated
<1>2. [Like(r, f, c) EXCEPT !.flags = x] = Like(r, x, c)
  BY DEF Like
<1>3. QED
  BY <1>1, <1>2, Zenon

WithSuspicion(f, t) == IF t.suspect THEN f \cup {"injectionSuspect"} ELSE f

LEMMA Screened ==
  ASSUME NEW r, NEW f, NEW c, NEW t
  PROVE  I!withScreen(Like(r, f, c), t) = Like(r, WithSuspicion(f, t), c)
<1> DEFINE b == Like(r, f, c)
<1>1. b.flags = f
  BY DEF Like
<1>2. CASE t.suspect
  <2>1. I!withScreen(b, t) = [b EXCEPT !.flags = b.flags \cup {"injectionSuspect"}]
    BY <1>2 DEF I!withScreen
  <2>2. I!withScreen(b, t) = [b EXCEPT !.flags = f \cup {"injectionSuspect"}]
    BY <1>1, <2>1, Zenon
  <2>3. [b EXCEPT !.flags = f \cup {"injectionSuspect"}] = Like(r, f \cup {"injectionSuspect"}, c)
    <3>1. \A x : [Like(r, f, c) EXCEPT !.flags = x] = Like(r, x, c)
      BY DEF Like
    <3>2. QED
      BY <3>1, Zenon
  <2>4. QED
    BY <1>2, <2>2, <2>3 DEF WithSuspicion
<1>3. CASE ~t.suspect
  BY <1>3 DEF I!withScreen, WithSuspicion
<1>4. QED
  BY <1>2, <1>3

(* The Definition of Ready does not read the flags.                          *)
LEMMA FlagsAside ==
  ASSUME NEW r, NEW f, NEW g, NEW c, NEW t
  PROVE  I!evaluateDoR(Like(r, f, c), t) = I!evaluateDoR(Like(r, g, c), t)
<1> DEFINE b == Like(r, f, c)
           h == Like(r, g, c)
<1>1. /\ b.duplicate = h.duplicate /\ b.size = h.size /\ b.kind = h.kind /\ b.criteria = h.criteria
      /\ b.confidence = h.confidence /\ b.questions = h.questions /\ b.repro = h.repro /\ b.paths = h.paths
  BY DEF Like
<1> HIDE DEF b, h
<1>2. I!Sourced(b) = I!Sourced(h)
  BY <1>1 DEF I!Sourced
<1>3. I!evaluateDoR(b, t) = I!evaluateDoR(h, t)
  BY <1>1, <1>2, Zenon DEF I!evaluateDoR
<1>4. QED
  BY <1>3 DEF b, h

(* The brief that the host rates and screens.                                *)
LEMMA HostBrief ==
  ASSUME NEW m, NEW f, NEW c, NEW l, NEW t, m = Like(m, f, c),
         NEW e, e = I!Rated(m, l), NEW b, b = I!withScreen(e, t)
  PROVE  /\ b.kind = m.kind /\ b.criteria = m.criteria /\ b.paths = m.paths /\ b.confidence = l
         /\ f \subseteq b.flags /\ (t.suspect => "injectionSuspect" \in b.flags)
         /\ I!evaluateDoR(e, t) = I!evaluateDoR(b, t)
<1>1. e = Like(m, f, l)
  <2>1. I!Rated(Like(m, f, c), l) = Like(m, f, l)
    BY BriefChanges
  <2>2. QED
    BY <2>1
<1>2. b = Like(m, WithSuspicion(f, t), l)
  <2>1. I!withScreen(Like(m, f, l), t) = Like(m, WithSuspicion(f, t), l)
    BY Screened
  <2>2. QED
    BY <1>1, <2>1
<1>3. /\ b.kind = m.kind /\ b.criteria = m.criteria /\ b.paths = m.paths /\ b.confidence = l
      /\ b.flags = WithSuspicion(f, t)
  BY <1>2 DEF Like
<1>4. I!evaluateDoR(e, t) = I!evaluateDoR(b, t)
  <2>1. I!evaluateDoR(Like(m, f, l), t) = I!evaluateDoR(Like(m, WithSuspicion(f, t), l), t)
    BY FlagsAside
  <2>2. QED
    BY <1>1, <1>2, <2>1
<1>5. f \subseteq WithSuspicion(f, t) /\ (t.suspect => "injectionSuspect" \in WithSuspicion(f, t))
  BY DEF WithSuspicion
<1>6. QED
  BY <1>3, <1>4, <1>5

(* The brief of a ticket whose kind a person named.                          *)
LEMMA NamedByPerson ==
  ASSUME NEW t, NEW s, t.kindLabel # "none", NEW b, b = I!runIntakeAnalysis(t, s)
  PROVE  /\ b.kind = t.kindLabel /\ b.criteria = {} /\ (t.suspect => "injectionSuspect" \in b.flags)
         /\ b.confidence = "HIGH" /\ I!Rated(I!hostOverrideBrief(t), "HIGH") = I!hostOverrideBrief(t)
         /\ I!evaluateDoR(I!hostOverrideBrief(t), t) = I!evaluateDoR(b, t)
<1> DEFINE h == I!hostOverrideBrief(t)
<1>1. h = Like(h, {}, "HIGH") /\ h.kind = t.kindLabel /\ h.criteria = {}
  BY DEF I!hostOverrideBrief, I!HostBrief, Like
<1>2. b = I!withScreen(h, t)
  BY Zenon DEF I!runIntakeAnalysis
<1> HIDE DEF h
<1>3. h = I!Rated(h, "HIGH")
  <2>1. I!Rated(Like(h, {}, "HIGH"), "HIGH") = Like(h, {}, "HIGH")
    BY BriefChanges
  <2>2. QED
    BY <1>1, <2>1
<1>4. /\ b.kind = h.kind /\ b.criteria = h.criteria /\ b.confidence = "HIGH"
      /\ (t.suspect => "injectionSuspect" \in b.flags)
      /\ I!evaluateDoR(h, t) = I!evaluateDoR(b, t)
  BY <1>1, <1>2, <1>3, HostBrief
<1>5. QED
  BY <1>1, <1>3, <1>4 DEF h

(* The brief when nobody answered is of low confidence.                      *)
LEMMA NobodyAnswered ==
  ASSUME NEW t, t.kindLabel = "none"
  PROVE  I!runIntakeAnalysis(t, <<>>).confidence = "LOW"
<1>1. I!runIntakeAnalysis(t, <<>>) = I!withScreen(I!fallbackBrief(t.prior), t)
  BY Zenon DEF I!runIntakeAnalysis
<1>2. I!fallbackBrief(t.prior).confidence = "LOW"
      /\ DOMAIN I!fallbackBrief(t.prior) = DOMAIN I!HostBrief("", "", 1, 1)
  BY DEF I!fallbackBrief, I!HostBrief
<1>3. QED
  BY <1>1, <1>2 DEF I!withScreen, I!HostBrief

(* The brief of samples.                                                    *)
LEMMA MergedBrief ==
  ASSUME NEW t, NEW s, t.kindLabel = "none", s # <<>>, NEW b, b = I!runIntakeAnalysis(t, s)
  PROVE  /\ b.kind = I!Majority(I!Field(s, "kind")) /\ b.criteria = I!pickAcceptance(s)
         /\ b.confidence = I!computeConfidence(s, t.prior)
         /\ I!Union(s, "flags") \subseteq b.flags /\ b.paths = I!Union(s, "paths")
         /\ t.suspect => "injectionSuspect" \in b.flags
         /\ I!evaluateDoR(I!Rated(I!mergeSamples(s), I!computeConfidence(s, t.prior)), t) = I!evaluateDoR(b, t)
<1> DEFINE m == I!mergeSamples(s)
           c == I!computeConfidence(s, t.prior)
           r == I!Rated(m, c)
           e == IF t.kindLabel # "none" THEN I!hostOverrideBrief(t) ELSE IF s = <<>> THEN I!fallbackBrief(t.prior) ELSE r
<1>1. b = I!withScreen(e, t)
  BY Zenon DEF I!runIntakeAnalysis
<1>2. m = Like(m, I!Union(s, "flags"), "none")
  BY DEF I!mergeSamples, Like
<1>3. /\ m.kind = I!Majority(I!Field(s, "kind")) /\ m.criteria = I!pickAcceptance(s)
      /\ m.paths = I!Union(s, "paths")
  BY DEF I!mergeSamples
<1> HIDE DEF m, c
<1>4. e = I!Rated(m, c)
  OBVIOUS
<1> HIDE DEF e
<1>5. /\ b.kind = m.kind /\ b.criteria = m.criteria /\ b.paths = m.paths /\ b.confidence = c
      /\ I!Union(s, "flags") \subseteq b.flags /\ (t.suspect => "injectionSuspect" \in b.flags)
      /\ I!evaluateDoR(e, t) = I!evaluateDoR(b, t)
  BY <1>1, <1>2, <1>4, HostBrief
<1>6. QED
  BY <1>3, <1>4, <1>5 DEF m, c

(* A brief that may proceed is what two samples, or a person, agreed on.      *)
LEMMA Proceeds ==
  ASSUME AnswersSound, stage = "settle",
         NEW b, b = I!runIntakeAnalysis(listed, I!Collected), I!routeBrief(b) = "proceed"
  PROVE  /\ \/ listed.kindLabel = "chore" /\ I!Collected = <<>> /\ b.kind = "chore"
            \/ I!Agreed(I!Collected, b.kind) /\ b.confidence # "LOW"
         /\ b.kind = "chore" \/ \E i \in DOMAIN I!Collected : I!Sourced(I!Collected[i])
         /\ I!Warned(listed, I!Collected) => I!computeTier(b) = "elevated"
         /\ I!evaluateDoR(I!Rated(IF I!Collected = <<>> THEN I!hostOverrideBrief(listed) ELSE I!mergeSamples(I!Collected),
                                  b.confidence), listed)
              = I!evaluateDoR(b, listed)
<1> DEFINE s == I!Collected
<1>1. b.confidence # "LOW" /\ (b.kind = "chore" \/ I!Sourced(b))
  BY DEF I!routeBrief
<1>2. CASE listed.kindLabel # "none"
  <2>1. s = <<>>
    BY <1>2, SamplesAre DEF AnswersSound
  <2>2. /\ b.kind = listed.kindLabel /\ b.criteria = {} /\ (listed.suspect => "injectionSuspect" \in b.flags)
        /\ b.confidence = "HIGH" /\ I!Rated(I!hostOverrideBrief(listed), "HIGH") = I!hostOverrideBrief(listed)
        /\ I!evaluateDoR(I!hostOverrideBrief(listed), listed) = I!evaluateDoR(b, listed)
    BY <1>2, NamedByPerson
  <2>3. b.kind = "chore"
    BY <1>1, <2>2 DEF I!Sourced
  <2>4. I!Warned(listed, s) => I!computeTier(b) = "elevated"
    BY <2>1, <2>2 DEF I!Warned, I!computeTier, I!ELEVATED_FLAGS
  <2>5. I!evaluateDoR(I!Rated(IF s = <<>> THEN I!hostOverrideBrief(listed) ELSE I!mergeSamples(s), b.confidence), listed)
          = I!evaluateDoR(b, listed)
    BY <2>1, <2>2
  <2>6. QED
    BY <2>1, <2>2, <2>3, <2>4, <2>5
<1>3. CASE listed.kindLabel = "none"
  <2>1. s # <<>>
    BY <1>1, <1>3, NobodyAnswered
  <2>2. /\ b.kind = I!Majority(I!Field(s, "kind")) /\ b.criteria = I!pickAcceptance(s)
        /\ b.confidence = I!computeConfidence(s, listed.prior)
        /\ I!Union(s, "flags") \subseteq b.flags /\ b.paths = I!Union(s, "paths")
        /\ listed.suspect => "injectionSuspect" \in b.flags
        /\ I!evaluateDoR(I!Rated(I!mergeSamples(s), I!computeConfidence(s, listed.prior)), listed) = I!evaluateDoR(b, listed)
    BY <1>3, <2>1, MergedBrief
  <2>3. Len(s) >= 2 /\ \A i \in DOMAIN s : s[i].kind = s[1].kind
    BY <1>1, <2>2, AloneIsLow
  <2>4. Len(s) = 2 /\ DOMAIN s = 1 .. 2 /\ s[1] \in Briefs /\ s[2] \in Briefs
    BY <2>3, SamplesAre
  <2>5. s[2].kind = s[1].kind
    BY <2>3, <2>4
  <2> HIDE DEF s
  <2>6. I!Majority(I!Field(s, "kind")) = s[1].kind /\ \E i \in DOMAIN s : I!pickAcceptance(s) = s[i].criteria
    BY <2>4, <2>5, Pair
  <2>7. I!Agreed(s, b.kind)
    BY <2>2, <2>4, <2>5, <2>6 DEF I!Agreed
  <2>8. b.kind = "chore" \/ \E i \in DOMAIN s : I!Sourced(s[i])
    BY <1>1, <2>2, <2>6 DEF I!Sourced
  <2>9. I!Warned(listed, s) => I!computeTier(b) = "elevated"
    <3>1. \A i \in DOMAIN s : s[i].flags \subseteq b.flags /\ s[i].paths \subseteq b.paths
      BY <2>2 DEF I!Union
    <3>2. listed.suspect => "injectionSuspect" \in b.flags
      BY <2>2
    <3>3. QED
      BY <3>1, <3>2 DEF I!Warned, I!computeTier, I!ELEVATED_FLAGS
  <2>10. I!evaluateDoR(I!Rated(IF s = <<>> THEN I!hostOverrideBrief(listed) ELSE I!mergeSamples(s), b.confidence), listed)
           = I!evaluateDoR(b, listed)
    BY <2>1, <2>2
  <2>11. QED
    BY <1>1, <2>7, <2>8, <2>9, <2>10 DEF s
<1>4. QED
  BY <1>2, <1>3

LEMMA IntakeInit == Init => IntakeHolds
<1> SUFFICES ASSUME Init, which = "intake"
             PROVE  IntakeSound
  BY DEF IntakeHolds
<1>1. stage = "idle" /\ entry.state = "none"
  BY DEF Init, I!Init, I!NoEntry
<1>2. QED
  BY <1>1 DEF IntakeSound, I!ReadyIsAgreed, I!Parked

LEMMA ClaimSound ==
  ASSUME IntakeSound, I!claimTicket
  PROVE  IntakeSound'
<1>1. CASE entry' = entry /\ stage' = stage
  BY <1>1 DEF IntakeSound, I!claimTicket, I!ReadyIsAgreed
<1>2. CASE /\ entry' = [I!NoEntry EXCEPT !.state = "classifying"]
           /\ listed' = text /\ answers' = [s \in I!Slots |-> I!Pending]
           /\ stage' = IF text.kindLabel # "none" THEN "settle" ELSE IF Analyst THEN "sample" ELSE "idle"
  <2>1. entry'.state = "classifying"
    BY <1>2 DEF I!NoEntry
  <2>2. /\ stage' \in {"settle", "sample", "idle"} /\ (stage' = "settle" => listed'.kindLabel # "none")
        /\ stage' = "sample" => listed'.kindLabel = "none"
        /\ stage' = "idle" => ~Analyst
    BY <1>2
  <2>3. AnswersSound'
    BY <1>2, <2>2 DEF AnswersSound, I!Slots
  <2>4. QED
    BY <2>1, <2>2, <2>3 DEF IntakeSound, I!ReadyIsAgreed, I!Parked
<1>3. QED
  BY <1>1, <1>2 DEF I!claimTicket

LEMMA SampleSound ==
  ASSUME IntakeSound, NEW s \in I!Slots, I!sampleOnce(s)
  PROVE  IntakeSound'
<1>1. PICK a \in Briefs \cup {I!Failed} :
        /\ answers' = [answers EXCEPT ![s] = a]
        /\ stage' = IF s # "tiebreak" /\ I!Pending \in {answers'["A"], answers'["B"]} THEN "sample"
                    ELSE IF s # "tiebreak" /\ I!Split(answers') THEN "tie" ELSE "settle"
  BY DEF I!sampleOnce
<1>2. /\ answers[s] = I!Pending /\ UNCHANGED <<listed, entry, basis, told>>
      /\ stage = IF s = "tiebreak" THEN "tie" ELSE "sample"
  BY DEF I!sampleOnce
<1>3. listed.kindLabel = "none" /\ AnswersSound /\ I!ReadyIsAgreed
  BY <1>2 DEF IntakeSound
<1>4. DOMAIN answers' = I!Slots /\ \A x \in I!Slots : answers'[x] \in Briefs \cup {I!Pending, I!Failed}
  BY <1>1, <1>3 DEF AnswersSound
<1>5. CASE s = "tiebreak"
  <2>1. stage' = "settle" /\ stage = "tie"
    BY <1>1, <1>2, <1>5
  <2>2. I!Split(answers')
    BY <1>1, <1>3, <1>5, <2>1 DEF AnswersSound, I!Split, I!Slots
  <2>3. AnswersSound'
    BY <1>2, <1>3, <1>4, <2>1, <2>2 DEF AnswersSound
  <2>4. QED
    BY <1>2, <1>3, <2>1, <2>3 DEF IntakeSound, I!ReadyIsAgreed
<1>6. CASE s # "tiebreak"
  <2>1. stage' \in {"sample", "tie", "settle"} /\ (stage' = "tie" => I!Split(answers'))
    BY <1>1, <1>6
  <2>2. answers["tiebreak"] = I!Pending
    <3>1. answers["tiebreak"] # I!Pending => answers["A"].is = "brief" /\ answers["B"].is = "brief"
      BY <1>3 DEF AnswersSound, I!Split
    <3>2. QED
      BY <1>2, <1>6, <3>1 DEF I!Pending, I!Slots
  <2>3. answers'["tiebreak"] = I!Pending
    BY <1>1, <1>3, <1>6, <2>2 DEF AnswersSound, I!Slots
  <2>4. AnswersSound'
    BY <1>2, <1>3, <1>4, <2>1, <2>3 DEF AnswersSound
  <2>5. QED
    BY <1>2, <1>3, <2>1, <2>4 DEF IntakeSound, I!ReadyIsAgreed
<1>7. QED
  BY <1>5, <1>6

LEMMA ApplySound ==
  ASSUME IntakeSound, I!applyIntake
  PROVE  IntakeSound'
<1> DEFINE b == I!runIntakeAnalysis(listed, I!Collected)
           ready == I!evaluateDoR(b, listed)
           route == I!routeBrief(b)
           state == IF route # "proceed" THEN route ELSE IF ready THEN "ready" ELSE "needs-info"
<1>1. /\ stage = "settle" /\ stage' = "idle" /\ AnswersSound
      /\ basis' = [text |-> listed, samples |-> I!Collected]
  BY DEF IntakeSound, I!applyIntake
<1>2. \/ /\ entry' = [state |-> state, kind |-> b.kind, tier |-> I!computeTier(b), confidence |-> b.confidence]
         /\ told' = (route # "proceed")
      \/ entry' = I!NoEntry
  BY DEF I!applyIntake
<1>3. CASE entry' = I!NoEntry
  <2>1. entry'.state = "none"
    BY <1>3 DEF I!NoEntry
  <2>2. QED
    BY <1>1, <2>1 DEF IntakeSound, I!ReadyIsAgreed, I!Parked
<1>4. CASE /\ entry' = [state |-> state, kind |-> b.kind, tier |-> I!computeTier(b), confidence |-> b.confidence]
           /\ told' = (route # "proceed")
  <2>1. route \in {"needs-info", "needs-triage", "proceed"}
    BY DEF I!routeBrief
  <2>2. /\ basis'.text = listed /\ basis'.samples = I!Collected
        /\ entry'.kind = b.kind /\ entry'.tier = I!computeTier(b) /\ entry'.confidence = b.confidence
        /\ entry'.state = state
    BY <1>1, <1>4
  <2>3. CASE route # "proceed"
    <3>1. entry'.state \in I!Parked /\ told' /\ entry'.state # "ready" /\ entry'.state # "classifying"
      BY <1>4, <2>1, <2>2, <2>3 DEF I!Parked
    <3>2. QED
      BY <1>1, <3>1 DEF IntakeSound, I!ReadyIsAgreed
  <2>4. CASE route = "proceed"
    <3>1. entry'.state = IF ready THEN "ready" ELSE "needs-info"
      BY <2>2, <2>4
    <3>2. /\ \/ listed.kindLabel = "chore" /\ I!Collected = <<>> /\ b.kind = "chore"
             \/ I!Agreed(I!Collected, b.kind) /\ b.confidence # "LOW"
          /\ b.kind = "chore" \/ \E i \in DOMAIN I!Collected : I!Sourced(I!Collected[i])
          /\ I!Warned(listed, I!Collected) => I!computeTier(b) = "elevated"
          /\ I!evaluateDoR(I!Rated(IF I!Collected = <<>> THEN I!hostOverrideBrief(listed)
                                   ELSE I!mergeSamples(I!Collected), b.confidence), listed)
               = ready
      BY <1>1, <2>4, Proceeds
    <3> HIDE DEF b
    <3>3. CASE ready
      <4>1. entry'.state = "ready"
        BY <3>1, <3>3
      <4>2. QED
        BY <1>1, <2>2, <3>2, <4>1 DEF IntakeSound, I!ReadyIsAgreed, I!Parked
    <3>4. CASE ~ready
      <4>1. entry'.state = "needs-info"
        BY <3>1, <3>4
      <4>2. QED
        BY <1>1, <2>2, <3>2, <3>4, <4>1 DEF IntakeSound, I!ReadyIsAgreed
    <3>5. QED
      BY <3>3, <3>4
  <2>5. QED
    BY <2>3, <2>4
<1>5. QED
  BY <1>2, <1>3, <1>4

LEMMA IntakeNext == IntakeHolds /\ [Next]_vars => IntakeHolds'
<1> SUFFICES ASSUME IntakeHolds, [Next]_vars, which' = "intake"
             PROVE  IntakeSound'
  BY DEF IntakeHolds
<1>1. which = "intake" /\ IntakeSound
  BY DEF Next, vars, IntakeHolds
<1>2. I!Next \/ UNCHANGED intakeVars
  BY <1>1 DEF Next, vars
<1>3. CASE I!claimTicket
  BY <1>1, <1>3, ClaimSound
<1>4. CASE \E s \in I!Slots : I!sampleOnce(s)
  BY <1>1, <1>4, SampleSound
<1>5. CASE I!applyIntake
  BY <1>1, <1>5, ApplySound
<1>6. CASE I!Edit
  BY <1>1, <1>6 DEF I!Edit, IntakeSound, AnswersSound, I!ReadyIsAgreed
<1>7. CASE I!runStart
  <2>1. entry'.state = "blocked"
    BY <1>7 DEF I!runStart, I!fetch
  <2>2. QED
    BY <1>1, <1>7, <2>1 DEF I!runStart, IntakeSound, AnswersSound, I!ReadyIsAgreed, I!Parked
<1>8. CASE UNCHANGED intakeVars
  BY <1>1, <1>8 DEF intakeVars, IntakeSound, AnswersSound, I!ReadyIsAgreed
<1>9. QED
  BY <1>2, <1>3, <1>4, <1>5, <1>6, <1>7, <1>8 DEF I!Next

(* A ticket is ready as a chore that a person called one, or as what two      *)
(* analysts called it without a third, and what any of them warned of is in   *)
(* its tier; it is parked without a word only if its brief lacks something:   *)
(* whatever the tickets say and the analysts answer (intake/analyze.ts:168).  *)
THEOREM ReadyIsAgreedAlways == Spec => []ReadyIsAgreed
<1>1. IntakeHolds => ReadyIsAgreed
  BY DEF IntakeHolds, IntakeSound, ReadyIsAgreed
<1>2. QED
  BY <1>1, IntakeInit, IntakeNext, PTL DEF Spec

-----------------------------------------------------------------------------
(* The vault.                                                               *)

Overwriting == {"set", "rotate", "import", "bindSet"}
Reading == {"export", "scrub", "bindTo"}
AtSeed  == {"seedRead", "seedOpen", "seedWrite", "manifest"}
Late    == {"seedOpen", "seedWrite", "manifest"}
Todos   == {<<>>, <<"global">>, <<"scoped">>, <<"global", "scoped">>}

(* The values that there can be; those that were issued, or there before.     *)
Sealable == 1 .. MaxSecrets + 2
Fetched(issued) == {v \in Sealable : v <= issued \/ v > MaxSecrets}

IsRow(r) ==
  /\ r = [is |-> "row", value |-> r.value, key |-> r.key, created |-> r.created, rotated |-> r.rotated]
  /\ r.value \in Sealable /\ r.key \in Nat /\ r.rotated \in BOOLEAN

(* Values by name, each the name's own.                                     *)
IsTable(f, own, issued) ==
  /\ DOMAIN f \subseteq V!Names
  /\ \A n \in DOMAIN f : f[n] \in Fetched(issued) /\ own[f[n]] = n
  /\ f = <<>> \/ DOMAIN f # {}

(* What a session's command may be.                                         *)
IsShape(c) ==
  c = [pc |-> c.pc, op |-> c.op, name |-> c.name, value |-> c.value, key |-> c.key, then |-> c.then, row |-> c.row,
       todo |-> c.todo, got |-> c.got, for |-> c.for, copy |-> c.copy, text |-> c.text, shown |-> c.shown]
IsCommand(c, own, issued) ==
  /\ IsShape(c)
  /\ c.pc \in {"idle", "master", "generated", "begin", "put", "read", "decrypt"} \cup AtSeed
  /\ c.key \in Nat
  /\ c.row # V!NoRow => IsRow(c.row)
  /\ c.todo \in Todos
  /\ IsTable(c.got, own, issued)
  /\ c.op \in {"rm", "bindTo"} => c.name \in V!Names

(* It knows where it goes on once it has the master, and what it then needs. *)
OnItsWay(c, own, issued) ==
  /\ c.pc \in {"master", "generated"} => c.then \in {"begin", "put", "decrypt"}
  /\ c.pc = "begin" => c.then = "begin"
  /\ c.then = "begin" /\ c.op \in Reading => c.got = <<>>
  /\ c.pc = "put" => c.then = "put"
  /\ c.then = "put" => c.op \in Overwriting /\ c.pc \in {"master", "generated", "put"}
  /\ c.op \in Overwriting /\ c.pc \notin AtSeed =>
       c.name \in V!Names /\ c.value \in Fetched(issued) /\ own[c.value] = c.name
  /\ c.op = "import" => c.todo # <<>> /\ \A i \in DOMAIN c.todo : c.todo[i] \in DOMAIN c.got
  /\ c.pc = "decrypt" => c.then = "decrypt"
  /\ c.then = "decrypt" => c.op \in Reading /\ c.pc \in {"master", "generated", "decrypt", "read"} \cup AtSeed
  /\ c.pc = "read" => c.op \in Reading
  /\ c.op \in Reading /\ c.pc \notin AtSeed => \A i \in DOMAIN c.todo : c.todo[i] \notin DOMAIN c.got
  /\ c.then = "decrypt" /\ c.pc \in {"master", "generated", "decrypt"} =>
       c.todo # <<>> /\ c.row # V!NoRow /\ c.row.value \in Fetched(issued) /\ own[c.row.value] = c.todo[1]

(* While no two masters were made at once there is one key for all rows, and *)
(* who has a key, or a row, has that one.                                   *)
UnderOneMaster(c, raced, m) ==
  ~raced =>
    /\ c.pc = "generated" => m = V!NoMaster
    /\ c.pc \in {"put", "decrypt"} => c.key = m /\ m # V!NoMaster
    /\ c.row # V!NoRow => c.row.key = m /\ m # V!NoMaster

(* A row that is to be overwritten is the one that was read.                *)
Sealer(c) == c.pc # "idle" /\ V!Writes(c.op) /\ c.then = "put"
RowIsLast(c, overlapped, rows) == Sealer(c) /\ c.name \notin overlapped => c.row = rows[c.name]

(* It reads values by and by.                                               *)
Looking(c) == c.pc = "read" \/ (c.then = "decrypt" /\ c.pc \notin AtSeed)

(* A bind names a secret that the vault has or had.                          *)
Had == V!Stored \cup past.removed
BindsKnown(c, had) ==
  /\ c.pc \in AtSeed => c.name \in had
  /\ c.op = "bindTo" /\ Looking(c) =>
       /\ c.todo \in {<<c.name>>, <<>>}
       /\ c.pc # "read" \/ c.todo = <<>> => c.name \in had
  /\ c.pc \in Late => V!Values(c.copy) \subseteq had

(* A scrub has found, or will find, every value it was shown that is there.  *)
Has(rows, n, v)  == rows[n] # V!NoRow /\ rows[n].value = v
Finds(c, rows, v) ==
  /\ \E n \in V!Names : Has(rows, n, v)
  /\ v \in V!Values(c.got) \/ \E i \in DOMAIN c.todo : Has(rows, c.todo[i], v)
  /\ c.then = "decrypt" /\ c.pc # "read" /\ Has(rows, c.todo[1], v) => c.row.value = v
FindsAll(c, raced, rows) ==
  ~raced /\ c.op = "scrub" /\ Looking(c) => c.shown \subseteq c.text /\ \A v \in c.shown : Finds(c, rows, v)

CommandSound(c, own, issued, raced, overlapped, had, m, rows) ==
  /\ IsCommand(c, own, issued) /\ OnItsWay(c, own, issued) /\ UnderOneMaster(c, raced, m)
  /\ RowIsLast(c, overlapped, rows) /\ BindsKnown(c, had) /\ FindsAll(c, raced, rows)

TableSound(own, rows, raced, issued, m) ==
  /\ DOMAIN rows = V!Names
  /\ \A n \in V!Names : rows[n] # V!NoRow =>
       IsRow(rows[n]) /\ rows[n].value \in Fetched(issued) /\ own[rows[n].value] = n
  /\ ~raced => \A n \in V!Names : rows[n] # V!NoRow => rows[n].key = m /\ m # V!NoMaster

PastSound ==
  /\ past = [given |-> past.given, masters |-> past.masters, raced |-> past.raced, overlapped |-> past.overlapped,
             removed |-> past.removed, binds |-> past.binds, left |-> past.left, meant |-> past.meant]
  /\ past.masters \in Nat /\ past.given \in 0 .. MaxSecrets
  /\ DOMAIN past.meant = V!Names
  /\ \A n \in V!Names : past.meant[n] # V!NoRow => IsRow(past.meant[n])

SeedSound ==
  /\ V!Values(seed.bindings) \subseteq Had
  /\ past.binds =>
    /\ seed = V!Json(seed.bindings, V!secretsBound(seed.bindings))
    /\ (\A p \in Sessions : command[p].pc # "manifest") => manifest = seed
    /\ \A p \in Sessions : command[p].pc = "manifest" => seed = V!Json(command[p].copy, V!secretsBound(command[p].copy))

(* Two commands that seal the same name overlap; two binds are not at the    *)
(* seed's file at once.                                                     *)
Apart ==
  \A p, q \in Sessions : p # q =>
    /\ Sealer(command[p]) /\ Sealer(command[q]) /\ command[p].name = command[q].name => command[p].name \in past.overlapped
    /\ past.binds => ~(command[p].pc \in Late /\ command[q].pc \in Late)

AllSound(own) ==
  /\ own \in [Sealable -> V!Names]
  /\ TableSound(own, store, past.raced, past.given, master)
  /\ IsTable(envelope, own, past.given)
  /\ \A p \in Sessions : CommandSound(command[p], own, past.given, past.raced, past.overlapped, Had, master, store)

Settled == master \in Nat /\ DOMAIN command = Sessions /\ PastSound /\ V!AsMeant /\ V!NothingLeft
VaultSound == Settled /\ SeedSound /\ Apart /\ \E own \in [Sealable -> V!Names] : AllSound(own)
VaultHolds == which = "vault" => VaultSound
LEMMA Rows ==
  ASSUME NEW a, NEW k, NEW b, NEW r
  PROVE  /\ V!Row(a, k, b, r).is = "row" /\ V!Row(a, k, b, r).value = a /\ V!Row(a, k, b, r).key = k
         /\ V!Row(a, k, b, r).created = b /\ V!Row(a, k, b, r).rotated = r
         /\ \A l : [V!Row(a, k, b, r) EXCEPT !.key = l] = V!Row(a, l, b, r)
BY DEF V!Row

LEMMA Todo ==
  ASSUME NEW t \in Todos
  PROVE  /\ DOMAIN t = 1 .. Len(t) /\ \A i \in DOMAIN t : t[i] \in V!Names
         /\ t # <<>> => /\ 1 \in DOMAIN t /\ Head(t) = t[1] /\ Tail(t) \in Todos
                        /\ \A i \in DOMAIN Tail(t) : i + 1 \in DOMAIN t /\ Tail(t)[i] = t[i + 1] /\ t[i + 1] # t[1]
                        /\ \A i \in DOMAIN t : i = 1 \/ (i - 1 \in DOMAIN Tail(t) /\ Tail(t)[i - 1] = t[i])
<1>1. CASE t = <<>>
  BY <1>1 DEF Todos, V!Names
<1>2. CASE t = <<"global">>
  BY <1>2 DEF Todos, V!Names
<1>3. CASE t = <<"scoped">>
  BY <1>3 DEF Todos, V!Names
<1>4. CASE t = <<"global", "scoped">>
  BY <1>4 DEF Todos, V!Names
<1>5. QED
  BY <1>1, <1>2, <1>3, <1>4 DEF Todos

(* All stored names, in order.                                              *)
LEMMA Ordered ==
  ASSUME NEW names \in SUBSET V!Names
  PROVE  /\ V!InOrder(names) \in Todos
         /\ \A n : n \in names <=> \E i \in DOMAIN V!InOrder(names) : V!InOrder(names)[i] = n
         /\ \A i \in DOMAIN V!InOrder(names) : V!InOrder(names)[i] \in names
         /\ names # {} => V!InOrder(names) # <<>>
<1>1. CASE names = {}
  <2>1. V!InOrder(names) = <<>>
    BY <1>1 DEF V!InOrder, V!Names
  <2>2. QED
    BY <1>1, <2>1 DEF Todos
<1>2. CASE names = V!Names
  <2>1. V!InOrder(names) = <<"global", "scoped">>
    BY <1>2 DEF V!InOrder, V!Names
  <2>2. QED
    BY <1>2, <2>1 DEF Todos, V!Names
<1>3. CASE names = {"global"}
  <2>1. V!InOrder(names) = <<"global">>
    BY <1>3 DEF V!InOrder, V!Names
  <2>2. QED
    BY <1>3, <2>1 DEF Todos
<1>4. CASE names = {"scoped"}
  <2>1. V!InOrder(names) = <<"scoped">>
    BY <1>4 DEF V!InOrder, V!Names
  <2>2. QED
    BY <1>4, <2>1 DEF Todos
<1>5. names = {} \/ names = V!Names \/ names = {"global"} \/ names = {"scoped"}
  BY DEF V!Names
<1>6. QED
  BY <1>1, <1>2, <1>3, <1>4, <1>5

(* A command at rest is sound.                                              *)
LEMMA RestIsSound ==
  ASSUME NEW own, NEW issued, NEW raced, NEW overlapped, NEW had, NEW m, NEW rows
  PROVE  CommandSound(V!AtRest, own, issued, raced, overlapped, had, m, rows)
<1>1. IsCommand(V!AtRest, own, issued)
  BY DEF V!AtRest, IsCommand, IsShape, AtSeed, Todos, IsTable, V!Names, V!NoRow, V!NoMaster, Reading
<1>2. OnItsWay(V!AtRest, own, issued)
  BY DEF V!AtRest, OnItsWay, Overwriting, Reading, AtSeed
<1>3. UnderOneMaster(V!AtRest, raced, m) /\ RowIsLast(V!AtRest, overlapped, rows)
  BY DEF V!AtRest, UnderOneMaster, RowIsLast, Sealer
<1>4. BindsKnown(V!AtRest, had) /\ FindsAll(V!AtRest, raced, rows)
  BY DEF V!AtRest, BindsKnown, FindsAll, AtSeed, Late, Looking
<1>5. QED
  BY <1>1, <1>2, <1>3, <1>4 DEF CommandSound

(* What is sound stays so while the table and the master stay, as more is     *)
(* issued, more overlaps and more was once there.                            *)
LEMMA SoundStays ==
  ASSUME NEW c, NEW own, NEW m, NEW rows, NEW i1 \in Nat, NEW i2 \in Nat, i1 <= i2, NEW r,
         NEW o1, NEW o2, o1 \subseteq o2, NEW h1, NEW h2, h1 \subseteq h2,
         CommandSound(c, own, i1, r, o1, h1, m, rows)
  PROVE  CommandSound(c, own, i2, r, o2, h2, m, rows)
<1>1. Fetched(i1) \subseteq Fetched(i2)
  BY VaultAssumption DEF Fetched, Sealable
<1>2. IsCommand(c, own, i2)
  BY <1>1 DEF CommandSound, IsCommand, IsTable
<1>3. OnItsWay(c, own, i2)
  BY <1>1 DEF CommandSound, OnItsWay
<1>4. UnderOneMaster(c, r, m) /\ RowIsLast(c, o2, rows)
  BY DEF CommandSound, UnderOneMaster, RowIsLast
<1>5. BindsKnown(c, h2) /\ FindsAll(c, r, rows)
  BY DEF CommandSound, BindsKnown, FindsAll
<1>6. QED
  BY <1>2, <1>3, <1>4, <1>5 DEF CommandSound

LEMMA VaultInit == Init => VaultHolds
<1> SUFFICES ASSUME Init, which = "vault"
             PROVE  VaultSound
  BY DEF VaultHolds
<1>1. V!Init
  BY DEF Init
<1>2. command = [p \in Sessions |-> V!AtRest] /\ DOMAIN command = Sessions
  BY <1>1 DEF V!Init
<1>3. past.raced = FALSE /\ past.left = {} /\ past.given = 0 /\ past.masters = master /\ past.overlapped = {} /\ past.removed = {}
      /\ past.binds = TRUE /\ past.meant = IF store = V!Fresh THEN V!Fresh ELSE V!Used(V!NoMaster)
  BY <1>1 DEF V!Init
<1>4. master \in Nat
  BY <1>1 DEF V!Init, V!NoMaster
<1>5. (store = V!Fresh /\ envelope = <<>>)
      \/ (store = V!Used(1) /\ master = 1 /\ envelope \in {<<>>, [n \in V!Names |-> V!Earlier(n)]})
  BY <1>1 DEF V!Init
<1>6. \A n \in V!Names : V!Fresh[n] = V!NoRow /\ (\A k \in Nat : V!Used(k)[n] = V!Row(V!Earlier(n), k, V!Earlier(n), FALSE))
  BY DEF V!Fresh, V!Used
<1>7. V!Used(1) # V!Fresh
  <2>1. "global" \in V!Names /\ 1 \in Nat
    BY DEF V!Names
  <2>2. V!Fresh["global"] = V!NoRow /\ V!Used(1)["global"] = V!Row(V!Earlier("global"), 1, V!Earlier("global"), FALSE)
    BY <1>6, <2>1
  <2>3. V!Row(V!Earlier("global"), 1, V!Earlier("global"), FALSE).is = "row" /\ V!NoRow.is = "none"
    BY DEF V!Row, V!NoRow
  <2>4. QED
    BY <2>2, <2>3
<1>8. \A n \in V!Names : V!Earlier(n) \in Fetched(0) /\ V!Earlier(n) \in Sealable
  BY VaultAssumption DEF V!Earlier, Fetched, Sealable, V!Names
<1>9. \A n \in V!Names, k \in Nat : IsRow(V!Row(V!Earlier(n), k, V!Earlier(n), FALSE)) /\ V!Row(V!Earlier(n), k, V!Earlier(n), FALSE) # V!NoRow
  BY <1>8 DEF IsRow, V!Row, V!NoRow
<1>10. Settled
  <2>1. PastSound
    <3>1. past = [given |-> past.given, masters |-> past.masters, raced |-> past.raced, overlapped |-> past.overlapped,
                  removed |-> past.removed, binds |-> past.binds, left |-> past.left, meant |-> past.meant]
      BY <1>1 DEF V!Init
    <3>2. DOMAIN past.meant = V!Names
      BY <1>3 DEF V!Fresh, V!Used
    <3>3. \A n \in V!Names : past.meant[n] # V!NoRow => IsRow(past.meant[n])
      <4>1. V!NoMaster \in Nat
        BY DEF V!NoMaster
      <4>2. CASE past.meant = V!Fresh
        BY <1>6, <4>2
      <4>3. CASE past.meant = V!Used(V!NoMaster)
        BY <1>6, <1>9, <4>1, <4>3
      <4>4. QED
        BY <1>3, <4>2, <4>3
    <3>4. QED
      BY <1>3, <1>4, <3>1, <3>2, <3>3, VaultAssumption DEF PastSound
  <2>2. V!AsMeant
    <3>1. CASE store = V!Fresh
      BY <1>3, <1>6, <3>1 DEF V!AsMeant
    <3>2. CASE store = V!Used(1)
      <4>1. past.meant = V!Used(V!NoMaster) /\ V!NoMaster \in Nat /\ store = V!Used(master)
        BY <1>3, <1>5, <1>7, <3>2 DEF V!NoMaster
      <4>2. ASSUME NEW n \in V!Names
            PROVE  store[n] # V!NoRow /\ past.meant[n] # V!NoRow /\ [store[n] EXCEPT !.key = V!NoMaster] = past.meant[n]
        <5>1. store[n] = V!Row(V!Earlier(n), master, V!Earlier(n), FALSE)
              /\ past.meant[n] = V!Row(V!Earlier(n), V!NoMaster, V!Earlier(n), FALSE)
          BY <1>4, <1>6, <4>1
        <5>2. store[n] # V!NoRow /\ past.meant[n] # V!NoRow
          BY <1>4, <1>9, <4>1, <5>1
        <5>3. PICK r : r = FALSE
          OBVIOUS
        <5>4. store[n] = V!Row(V!Earlier(n), master, V!Earlier(n), r)
              /\ past.meant[n] = V!Row(V!Earlier(n), V!NoMaster, V!Earlier(n), r)
          BY <5>1, <5>3
        <5>5. QED
          BY <5>2, <5>4, Rows
      <4>3. QED
        BY <4>2 DEF V!AsMeant
    <3>3. QED
      BY <1>5, <3>1, <3>2
  <2>3. QED
    BY <1>2, <1>3, <1>4, <2>1, <2>2 DEF Settled, V!NothingLeft
<1>11. SeedSound
  <2>1. seed = V!Json(<<>>, FALSE) /\ manifest = seed /\ seed.bindings = <<>>
    BY <1>1 DEF V!Init, V!Unbound, V!Json
  <2>2. V!secretsBound(<<>>) = FALSE /\ V!Values(<<>>) = {}
    BY VaultAssumption DEF V!secretsBound, V!Values
  <2>3. \A p \in Sessions : command[p].pc # "manifest"
    BY <1>2 DEF V!AtRest
  <2>4. QED
    BY <2>1, <2>2, <2>3 DEF SeedSound
<1>12. Apart
  BY <1>2 DEF Apart, V!AtRest, Sealer, Late
<1>13. \E own \in [Sealable -> V!Names] : AllSound(own)
  <2> DEFINE own == [v \in Sealable |-> IF v = V!Earlier("scoped") THEN "scoped" ELSE "global"]
  <2>1. own \in [Sealable -> V!Names]
    BY DEF V!Names
  <2>2. \A n \in V!Names : own[V!Earlier(n)] = n
    BY <1>8, VaultAssumption DEF V!Names, V!Earlier
  <2> HIDE DEF own
  <2>3. TableSound(own, store, past.raced, past.given, master)
    <3>1. CASE store = V!Fresh
      <4>1. DOMAIN store = V!Names /\ \A n \in V!Names : store[n] = V!NoRow
        BY <3>1 DEF V!Fresh
      <4>2. QED
        BY <4>1 DEF TableSound
    <3>2. CASE store = V!Used(1) /\ master = 1
      <4>1. \A n \in V!Names : store[n] = V!Row(V!Earlier(n), 1, V!Earlier(n), FALSE) /\ store[n].value = V!Earlier(n) /\ store[n].key = 1
        BY <1>6, <3>2 DEF V!Row
      <4>2. DOMAIN store = V!Names
        BY <3>2 DEF V!Used
      <4>3. 1 \in Nat /\ master # V!NoMaster
        BY <3>2 DEF V!NoMaster
      <4>4. ASSUME NEW n \in V!Names
            PROVE  IsRow(store[n]) /\ store[n].value \in Fetched(past.given) /\ own[store[n].value] = n /\ store[n].key = master
        BY <1>3, <1>8, <1>9, <2>2, <3>2, <4>1, <4>3
      <4>5. QED
        BY <4>2, <4>3, <4>4 DEF TableSound
    <3>3. QED
      BY <1>5, <3>1, <3>2
  <2>4. IsTable(envelope, own, past.given)
    BY <1>3, <1>5, <1>8, <2>2 DEF IsTable, V!Names
  <2>5. \A p \in Sessions : CommandSound(command[p], own, past.given, past.raced, past.overlapped, Had, master, store)
    BY <1>2, RestIsSound
  <2>6. QED
    BY <2>1, <2>3, <2>4, <2>5 DEF AllSound
<1>14. QED
  BY <1>10, <1>11, <1>12, <1>13 DEF VaultSound
(* One command moves; the table and the master stay, and what is past grows.  *)
Moves(p, d) ==
  /\ command' = [command EXCEPT ![p] = d] /\ UNCHANGED <<master, store>>
  /\ PastSound' /\ V!NothingLeft'
  /\ past'.given >= past.given /\ past'.raced = past.raced /\ past.overlapped \subseteq past'.overlapped
  /\ past'.removed = past.removed /\ past'.meant = past.meant /\ (past'.binds => past.binds)

MovesApart(p, d) ==
  /\ Sealer(d) => \/ Sealer(command[p]) /\ d.name = command[p].name
                  \/ \A q \in Sessions \ {p} : Sealer(command[q]) /\ command[q].name = d.name => d.name \in past'.overlapped
  /\ past'.binds /\ d.pc \in Late => command[p].pc \in Late \/ \A q \in Sessions \ {p} : command[q].pc \notin Late

LEMMA OneMoves ==
  ASSUME VaultSound, NEW own, AllSound(own), NEW p \in Sessions, NEW d, Moves(p, d), MovesApart(p, d), SeedSound',
         IsTable(envelope', own, past'.given),
         CommandSound(d, own, past'.given, past'.raced, past'.overlapped, Had, master, store)
  PROVE  VaultSound'
<1>1. DOMAIN command' = Sessions /\ command'[p] = d /\ \A q \in Sessions \ {p} : command'[q] = command[q]
  BY DEF VaultSound, Settled, Moves
<1>2. master' = master /\ store' = store /\ Had' = Had
  BY DEF Moves, Had, V!Stored
<1>3. Settled'
  <2>1. V!AsMeant'
    BY <1>2 DEF Moves, VaultSound, Settled, V!AsMeant
  <2>2. QED
    BY <1>1, <1>2, <2>1 DEF VaultSound, Settled, Moves
<1>4. Apart'
  <2>1. SUFFICES ASSUME NEW q \in Sessions, NEW r \in Sessions, q # r
                 PROVE  /\ Sealer(command'[q]) /\ Sealer(command'[r]) /\ command'[q].name = command'[r].name => command'[q].name \in past'.overlapped
                        /\ past'.binds => ~(command'[q].pc \in Late /\ command'[r].pc \in Late)
    BY DEF Apart
  <2>2. /\ Sealer(command[q]) /\ Sealer(command[r]) /\ command[q].name = command[r].name => command[q].name \in past.overlapped
        /\ past.binds => ~(command[q].pc \in Late /\ command[r].pc \in Late)
    BY <2>1 DEF VaultSound, Apart
  <2>3. CASE q = p
    BY <1>1, <2>1, <2>2, <2>3 DEF MovesApart, Moves
  <2>4. CASE r = p
    BY <1>1, <2>1, <2>2, <2>4 DEF MovesApart, Moves
  <2>5. CASE q # p /\ r # p
    BY <1>1, <2>2, <2>5 DEF Moves
  <2>6. QED
    BY <2>3, <2>4, <2>5
<1>5. AllSound(own)'
  <2>1. past.given \in Nat /\ past'.given \in Nat /\ past.given <= past'.given /\ past'.raced = past.raced
        /\ past.overlapped \subseteq past'.overlapped
    BY VaultAssumption DEF Moves, PastSound, VaultSound, Settled
  <2>2. Fetched(past.given) \subseteq Fetched(past'.given)
    BY <2>1, VaultAssumption DEF Fetched, Sealable
  <2>3. \A q \in Sessions : CommandSound(command'[q], own, past'.given, past'.raced, past'.overlapped, Had, master, store)
    <3>1. ASSUME NEW q \in Sessions, q # p
          PROVE  CommandSound(command'[q], own, past'.given, past'.raced, past'.overlapped, Had, master, store)
      <4>1. command'[q] = command[q] /\ CommandSound(command[q], own, past.given, past.raced, past.overlapped, Had, master, store)
        BY <1>1, <3>1 DEF AllSound
      <4>2. Had \subseteq Had
        OBVIOUS
      <4>3. QED
        BY <2>1, <4>1, <4>2, SoundStays
    <3>2. QED
      BY <1>1, <3>1
  <2>4. TableSound(own, store, past'.raced, past'.given, master)
    BY <2>1, <2>2 DEF AllSound, TableSound
  <2>5. QED
    BY <1>2, <2>3, <2>4 DEF AllSound
<1>6. QED
  BY <1>3, <1>4, <1>5 DEF VaultSound, AllSound

(* A seed that nobody writes, as none of its writers comes or goes.           *)
LEMMA SeedStays ==
  ASSUME VaultSound, NEW p \in Sessions, NEW d, Moves(p, d), d.pc # "manifest", command[p].pc # "manifest", UNCHANGED <<seed, manifest>>
  PROVE  SeedSound'
<1>1. DOMAIN command' = Sessions /\ command'[p] = d /\ \A q \in Sessions \ {p} : command'[q] = command[q]
  BY DEF VaultSound, Settled, Moves
<1>2. (past'.binds => past.binds) /\ Had' = Had /\ seed' = seed /\ manifest' = manifest
  BY DEF Moves, Had, V!Stored
<1>3. \A q \in Sessions : command'[q].pc = "manifest" => command[q].pc = "manifest" /\ command'[q] = command[q]
  BY <1>1
<1>4. (\A q \in Sessions : command'[q].pc # "manifest") => \A q \in Sessions : command[q].pc # "manifest"
  BY <1>1
<1>5. QED
  BY <1>2, <1>3, <1>4 DEF VaultSound, SeedSound

(* A command that leaves the past alone.                                     *)
LEMMA PastStays ==
  ASSUME VaultSound, NEW p \in Sessions, NEW d, command' = [command EXCEPT ![p] = d], UNCHANGED <<master, store, past>>
  PROVE  Moves(p, d)
<1>1. PastSound' /\ V!NothingLeft'
  BY DEF VaultSound, Settled, PastSound, V!NothingLeft
<1>2. past.given >= past.given
  BY VaultAssumption DEF VaultSound, Settled, PastSound
<1>3. QED
  BY <1>1, <1>2 DEF Moves

(* A command ends.                                                          *)
LEMMA EndKeeps ==
  ASSUME VaultSound, NEW own, AllSound(own), NEW p \in Sessions, Moves(p, V!AtRest), SeedSound',
         IsTable(envelope', own, past'.given)
  PROVE  VaultSound'
<1>1. MovesApart(p, V!AtRest)
  BY DEF MovesApart, V!AtRest, Sealer, Late
<1>2. CommandSound(V!AtRest, own, past'.given, past'.raced, past'.overlapped, Had, master, store)
  BY RestIsSound
<1>3. QED
  BY <1>1, <1>2, OneMoves

LEMMA GetMasterKeeps ==
  ASSUME VaultSound, NEW p \in Sessions, V!GetMaster(p)
  PROVE  VaultSound'
<1> DEFINE c == command[p]
           x == IF master = V!NoMaster THEN "generated" ELSE c.then
<1>0. PICK d : d = [c EXCEPT !.pc = x, !.key = master]
  OBVIOUS
<1>1. PICK own : AllSound(own)
  BY DEF VaultSound
<1>2. CommandSound(c, own, past.given, past.raced, past.overlapped, Had, master, store) /\ IsShape(c)
  BY <1>1 DEF AllSound, CommandSound, IsCommand
<1>3. c.pc = "master"
  BY DEF V!GetMaster
<1>4. Moves(p, d)
  <2>1. command' = [command EXCEPT ![p] = d]
    BY <1>0, <1>3 DEF V!GetMaster
  <2>2. UNCHANGED <<master, store, past>>
    BY DEF V!GetMaster
  <2>3. QED
    BY <2>1, <2>2, PastStays
<1>5. /\ IsShape(d) /\ d.pc = x /\ d.op = c.op /\ d.name = c.name /\ d.value = c.value /\ d.key = master /\ d.then = c.then /\ d.row = c.row
      /\ d.todo = c.todo /\ d.got = c.got /\ d.for = c.for /\ d.copy = c.copy /\ d.text = c.text /\ d.shown = c.shown
  <2> HIDE DEF c, x
  <2>1. QED
    BY <1>0, <1>2 DEF IsShape
<1> HIDE DEF c
<1>6. CommandSound(d, own, past.given, past.raced, past.overlapped, Had, master, store)
  <2>1. IsCommand(d, own, past.given)
    BY <1>2, <1>3, <1>5 DEF CommandSound, IsCommand, OnItsWay, VaultSound, Settled
  <2>2. OnItsWay(d, own, past.given)
    BY <1>2, <1>3, <1>5 DEF CommandSound, IsCommand, OnItsWay, AtSeed, Reading, Overwriting
  <2>3. UnderOneMaster(d, past.raced, master)
    BY <1>2, <1>3, <1>5 DEF CommandSound, OnItsWay, UnderOneMaster, AtSeed
  <2>4. RowIsLast(d, past.overlapped, store)
    BY <1>2, <1>3, <1>5 DEF CommandSound, OnItsWay, RowIsLast, Sealer, AtSeed
  <2>5. BindsKnown(d, Had)
    BY <1>2, <1>3, <1>5 DEF CommandSound, IsCommand, OnItsWay, BindsKnown, Looking, AtSeed, Late
  <2>6. FindsAll(d, past.raced, store)
    BY <1>2, <1>3, <1>5 DEF CommandSound, OnItsWay, FindsAll, Finds, Looking, AtSeed, Reading
  <2>7. QED
    BY <2>1, <2>2, <2>3, <2>4, <2>5, <2>6 DEF CommandSound
<1>7. MovesApart(p, d)
  BY <1>2, <1>3, <1>5 DEF MovesApart, Sealer, Late, c, CommandSound, OnItsWay
<1>8. SeedSound'
  <2>1. UNCHANGED <<seed, manifest>>
    BY DEF V!GetMaster
  <2>2. d.pc # "manifest" /\ c.pc # "manifest"
    BY <1>2, <1>3, <1>5 DEF CommandSound, OnItsWay
  <2>3. QED
    BY <1>4, <2>1, <2>2, SeedStays DEF c
<1>9. IsTable(envelope', own, past.given) /\ past' = past
  BY <1>1 DEF V!GetMaster, AllSound
<1>10. QED
  BY <1>1, <1>4, <1>6, <1>7, <1>8, <1>9, OneMoves

LEMMA BindReadyKeeps ==
  ASSUME VaultSound, NEW p \in Sessions, V!BindReady(p)
  PROVE  VaultSound'
<1> DEFINE c == command[p]
<1>0. PICK d : d = [c EXCEPT !.pc = "seedRead"]
  OBVIOUS
<1>1. PICK own : AllSound(own)
  BY DEF VaultSound
<1>2. CommandSound(c, own, past.given, past.raced, past.overlapped, Had, master, store) /\ IsShape(c)
  BY <1>1 DEF AllSound, CommandSound, IsCommand
<1>3. c.pc = "read" /\ c.todo = <<>> /\ c.op = "bindTo"
  BY DEF V!BindReady, V!GotAll
<1>4. Moves(p, d)
  <2>1. command' = [command EXCEPT ![p] = d]
    BY <1>0, <1>3 DEF V!BindReady, V!Goto
  <2>2. UNCHANGED <<master, store, past>>
    BY DEF V!BindReady
  <2>3. QED
    BY <2>1, <2>2, PastStays
<1>5. /\ IsShape(d) /\ d.pc = "seedRead" /\ d.op = c.op /\ d.name = c.name /\ d.value = c.value /\ d.key = c.key /\ d.then = c.then /\ d.row = c.row
      /\ d.todo = c.todo /\ d.got = c.got /\ d.for = c.for /\ d.copy = c.copy /\ d.text = c.text /\ d.shown = c.shown
  <2> HIDE DEF c
  <2>1. QED
    BY <1>0, <1>2 DEF IsShape
<1> HIDE DEF c
<1>6. CommandSound(d, own, past.given, past.raced, past.overlapped, Had, master, store)
  <2>1. IsCommand(d, own, past.given)
    BY <1>2, <1>3, <1>5 DEF CommandSound, IsCommand, OnItsWay, AtSeed, Reading, Overwriting
  <2>2. OnItsWay(d, own, past.given)
    BY <1>2, <1>3, <1>5 DEF CommandSound, IsCommand, OnItsWay, AtSeed, Reading, Overwriting
  <2>3. UnderOneMaster(d, past.raced, master)
    BY <1>2, <1>3, <1>5 DEF CommandSound, OnItsWay, UnderOneMaster, AtSeed
  <2>4. RowIsLast(d, past.overlapped, store)
    BY <1>2, <1>3, <1>5 DEF CommandSound, OnItsWay, RowIsLast, Sealer, AtSeed
  <2>5. BindsKnown(d, Had)
    BY <1>2, <1>3, <1>5 DEF CommandSound, IsCommand, OnItsWay, BindsKnown, Looking, AtSeed, Late
  <2>6. FindsAll(d, past.raced, store)
    BY <1>2, <1>3, <1>5 DEF CommandSound, OnItsWay, FindsAll, Finds, Looking, AtSeed, Reading
  <2>7. QED
    BY <2>1, <2>2, <2>3, <2>4, <2>5, <2>6 DEF CommandSound
<1>7. MovesApart(p, d)
  BY <1>2, <1>3, <1>5 DEF MovesApart, Sealer, Late, c, CommandSound, OnItsWay
<1>8. SeedSound'
  <2>1. UNCHANGED <<seed, manifest>>
    BY DEF V!BindReady
  <2>2. d.pc # "manifest" /\ c.pc # "manifest"
    BY <1>2, <1>3, <1>5 DEF CommandSound, OnItsWay
  <2>3. QED
    BY <1>4, <2>1, <2>2, SeedStays DEF c
<1>9. IsTable(envelope', own, past.given) /\ past' = past
  BY <1>1 DEF V!BindReady, AllSound
<1>10. QED
  BY <1>1, <1>4, <1>6, <1>7, <1>8, <1>9, OneMoves

LEMMA TruncateSeedKeeps ==
  ASSUME VaultSound, NEW p \in Sessions, V!TruncateSeed(p)
  PROVE  VaultSound'
<1> DEFINE c == command[p]
<1>0. PICK d : d = [c EXCEPT !.pc = "seedWrite"]
  OBVIOUS
<1>1. PICK own : AllSound(own)
  BY DEF VaultSound
<1>2. CommandSound(c, own, past.given, past.raced, past.overlapped, Had, master, store) /\ IsShape(c)
  BY <1>1 DEF AllSound, CommandSound, IsCommand
<1>3. c.pc = "seedOpen"
  BY DEF V!TruncateSeed
<1>4. Moves(p, d)
  <2>1. command' = [command EXCEPT ![p] = d]
    BY <1>0, <1>3 DEF V!TruncateSeed, V!Goto
  <2>2. UNCHANGED <<master, store, past>>
    BY DEF V!TruncateSeed
  <2>3. QED
    BY <2>1, <2>2, PastStays
<1>5. /\ IsShape(d) /\ d.pc = "seedWrite" /\ d.op = c.op /\ d.name = c.name /\ d.value = c.value /\ d.key = c.key /\ d.then = c.then /\ d.row = c.row
      /\ d.todo = c.todo /\ d.got = c.got /\ d.for = c.for /\ d.copy = c.copy /\ d.text = c.text /\ d.shown = c.shown
  <2> HIDE DEF c
  <2>1. QED
    BY <1>0, <1>2 DEF IsShape
<1> HIDE DEF c
<1>6. CommandSound(d, own, past.given, past.raced, past.overlapped, Had, master, store)
  <2>1. IsCommand(d, own, past.given)
    BY <1>2, <1>3, <1>5 DEF CommandSound, IsCommand, OnItsWay, AtSeed, Reading, Overwriting
  <2>2. OnItsWay(d, own, past.given)
    BY <1>2, <1>3, <1>5 DEF CommandSound, IsCommand, OnItsWay, AtSeed, Reading, Overwriting
  <2>3. UnderOneMaster(d, past.raced, master)
    BY <1>2, <1>3, <1>5 DEF CommandSound, OnItsWay, UnderOneMaster, AtSeed
  <2>4. RowIsLast(d, past.overlapped, store)
    BY <1>2, <1>3, <1>5 DEF CommandSound, OnItsWay, RowIsLast, Sealer, AtSeed
  <2>5. BindsKnown(d, Had)
    BY <1>2, <1>3, <1>5 DEF CommandSound, IsCommand, OnItsWay, BindsKnown, Looking, AtSeed, Late
  <2>6. FindsAll(d, past.raced, store)
    BY <1>2, <1>3, <1>5 DEF CommandSound, OnItsWay, FindsAll, Finds, Looking, AtSeed, Reading
  <2>7. QED
    BY <2>1, <2>2, <2>3, <2>4, <2>5, <2>6 DEF CommandSound
<1>7. MovesApart(p, d)
  BY <1>2, <1>3, <1>5 DEF MovesApart, Sealer, Late, c, CommandSound, OnItsWay
<1>8. SeedSound'
  <2>1. UNCHANGED <<seed, manifest>>
    BY DEF V!TruncateSeed
  <2>2. d.pc # "manifest" /\ c.pc # "manifest"
    BY <1>2, <1>3, <1>5 DEF CommandSound, OnItsWay
  <2>3. QED
    BY <1>4, <2>1, <2>2, SeedStays DEF c
<1>9. IsTable(envelope', own, past.given) /\ past' = past
  BY <1>1 DEF V!TruncateSeed, AllSound
<1>10. QED
  BY <1>1, <1>4, <1>6, <1>7, <1>8, <1>9, OneMoves
LEMMA ListKeeps ==
  ASSUME VaultSound, NEW p \in Sessions, V!List(p)
  PROVE  VaultSound'
<1> DEFINE c == command[p]
           t == IF c.op = "bindTo" THEN <<c.name>> ELSE V!InOrder(V!Stored)
           x == IF c.op = "scrub" THEN shown ELSE {}
           s == IF c.op = "scrub" THEN shown \cap {store[n].value : n \in V!Stored} ELSE {}
<1>0. PICK d : d = [c EXCEPT !.pc = "read", !.todo = t, !.text = x, !.shown = s]
  OBVIOUS
<1>1. PICK own : AllSound(own)
  BY DEF VaultSound
<1>2. CommandSound(c, own, past.given, past.raced, past.overlapped, Had, master, store) /\ IsShape(c)
  BY <1>1 DEF AllSound, CommandSound, IsCommand
<1>3. c.pc = "begin" /\ c.op \in Reading
  BY DEF V!List, Reading
<1>4. Moves(p, d)
  <2>1. command' = [command EXCEPT ![p] = d]
    BY <1>0, <1>3 DEF V!List
  <2>2. UNCHANGED <<master, store, past>>
    BY DEF V!List
  <2>3. QED
    BY <2>1, <2>2, PastStays
<1>5. /\ IsShape(d) /\ d.pc = "read" /\ d.op = c.op /\ d.name = c.name /\ d.value = c.value /\ d.key = c.key /\ d.then = c.then /\ d.row = c.row
      /\ d.todo = t /\ d.got = c.got /\ d.for = c.for /\ d.copy = c.copy /\ d.text = x /\ d.shown = s
  <2> HIDE DEF c, t, x, s
  <2>1. QED
    BY <1>0, <1>2 DEF IsShape
<1>11. /\ t \in Todos /\ (c.op = "bindTo" => t = <<c.name>>)
       /\ c.op # "bindTo" => \A n \in V!Stored : \E i \in DOMAIN t : t[i] = n
  <2>1. CASE c.op = "bindTo"
    <3>1. c.name \in V!Names
      BY <1>2, <2>1 DEF CommandSound, IsCommand
    <3>2. <<c.name>> \in Todos
      BY <3>1 DEF Todos, V!Names
    <3>3. QED
      BY <2>1, <3>2
  <2>2. CASE c.op # "bindTo"
    <3>1. V!Stored \in SUBSET V!Names /\ t = V!InOrder(V!Stored)
      BY <2>2 DEF V!Stored
    <3>2. QED
      BY <2>2, <3>1, Ordered
  <2>3. QED
    BY <2>1, <2>2
<1>12. c.op = "scrub" => s \subseteq x /\ \A v \in s : \E n \in V!Stored : store[n].value = v
  OBVIOUS
<1>13. c.then = "begin" /\ c.got = <<>>
  BY <1>2, <1>3 DEF CommandSound, OnItsWay, Reading
<1> HIDE DEF t, x, s
<1> HIDE DEF c
<1>6. CommandSound(d, own, past.given, past.raced, past.overlapped, Had, master, store)
  <2>1. IsCommand(d, own, past.given)
    BY <1>2, <1>3, <1>5, <1>11 DEF CommandSound, IsCommand, Reading
  <2>2. OnItsWay(d, own, past.given)
    BY <1>2, <1>3, <1>5, <1>13 DEF CommandSound, OnItsWay, Reading, Overwriting, AtSeed
  <2>3. UnderOneMaster(d, past.raced, master)
    BY <1>2, <1>3, <1>5 DEF CommandSound, OnItsWay, UnderOneMaster, AtSeed
  <2>4. RowIsLast(d, past.overlapped, store)
    BY <1>2, <1>3, <1>5 DEF CommandSound, OnItsWay, RowIsLast, Sealer, AtSeed
  <2>5. BindsKnown(d, Had)
    <3>1. d.pc \notin AtSeed /\ d.pc \notin Late
      BY <1>5 DEF AtSeed, Late
    <3>2. \A n : <<n>> # <<>>
      OBVIOUS
    <3>3. d.op = "bindTo" => d.todo = <<d.name>> /\ d.todo # <<>>
      BY <1>5, <1>11, <3>2
    <3>4. d.pc = "read"
      BY <1>5
    <3>5. QED
      BY <3>1, <3>3, <3>4 DEF BindsKnown
  <2>6. FindsAll(d, past.raced, store)
    <3>1. SUFFICES ASSUME c.op = "scrub", NEW v \in s
                   PROVE  Finds(d, store, v)
      BY <1>5, <1>12 DEF FindsAll
    <3>2. PICK n \in V!Stored : store[n].value = v
      BY <1>12, <3>1
    <3>3. n \in V!Names /\ Has(store, n, v)
      BY <3>2 DEF V!Stored, Has
    <3>4. PICK i \in DOMAIN t : t[i] = n
      BY <1>11, <3>1, <3>2
    <3>5. QED
      BY <1>5, <3>3, <3>4 DEF Finds
  <2>7. QED
    BY <2>1, <2>2, <2>3, <2>4, <2>5, <2>6 DEF CommandSound
<1>7. MovesApart(p, d)
  BY <1>2, <1>3, <1>5 DEF MovesApart, Sealer, Late, c, CommandSound, OnItsWay
<1>8. SeedSound'
  <2>1. UNCHANGED <<seed, manifest>>
    BY DEF V!List
  <2>2. d.pc # "manifest" /\ c.pc # "manifest"
    BY <1>2, <1>3, <1>5 DEF CommandSound, OnItsWay
  <2>3. QED
    BY <1>4, <2>1, <2>2, SeedStays DEF c
<1>9. IsTable(envelope', own, past.given) /\ past' = past
  BY <1>1 DEF V!List, AllSound
<1>10. QED
  BY <1>1, <1>4, <1>6, <1>7, <1>8, <1>9, OneMoves

LEMMA UnpackTakesKeeps ==
  ASSUME VaultSound, NEW p \in Sessions, V!Unpack(p), envelope # <<>>
  PROVE  VaultSound'
<1> DEFINE c == command[p]
           t == V!InOrder(DOMAIN envelope)
<1>0. PICK d : d = [c EXCEPT !.op = "import", !.todo = t, !.got = envelope, !.name = Head(t), !.value = envelope[Head(t)]]
  OBVIOUS
<1>1. PICK own : AllSound(own)
  BY DEF VaultSound
<1>2. CommandSound(c, own, past.given, past.raced, past.overlapped, Had, master, store) /\ IsShape(c)
  BY <1>1 DEF AllSound, CommandSound, IsCommand
<1>3. c.pc = "begin" /\ c.op = "unpack"
  BY DEF V!Unpack
<1>4. Moves(p, d)
  <2>1. command' = [command EXCEPT ![p] = d]
    BY <1>0, <1>3 DEF V!Unpack
  <2>2. UNCHANGED <<master, store, past>>
    BY DEF V!Unpack
  <2>3. QED
    BY <2>1, <2>2, PastStays
<1>5. /\ IsShape(d) /\ d.pc = c.pc /\ d.op = "import" /\ d.name = Head(t) /\ d.value = envelope[Head(t)] /\ d.key = c.key /\ d.then = c.then /\ d.row = c.row
      /\ d.todo = t /\ d.got = envelope /\ d.for = c.for /\ d.copy = c.copy /\ d.text = c.text /\ d.shown = c.shown
  <2> HIDE DEF c, t
  <2>1. QED
    BY <1>0, <1>2 DEF IsShape
<1>11. IsTable(envelope, own, past.given) /\ DOMAIN envelope \in SUBSET V!Names /\ DOMAIN envelope # {}
  BY <1>1 DEF AllSound, IsTable
<1>12. t \in Todos /\ t # <<>> /\ \A i \in DOMAIN t : t[i] \in DOMAIN envelope
  BY <1>11, Ordered
<1>13. Head(t) \in DOMAIN envelope
  BY <1>12, Todo
<1>14. c.then = "begin"
  BY <1>2, <1>3 DEF CommandSound, OnItsWay
<1> HIDE DEF t
<1> HIDE DEF c
<1>6. CommandSound(d, own, past.given, past.raced, past.overlapped, Had, master, store)
  <2>1. IsCommand(d, own, past.given)
    BY <1>2, <1>3, <1>5, <1>11, <1>12 DEF CommandSound, IsCommand
  <2>2. OnItsWay(d, own, past.given)
    BY <1>3, <1>5, <1>11, <1>12, <1>13, <1>14 DEF OnItsWay, IsTable, Reading, Overwriting, AtSeed
  <2>3. UnderOneMaster(d, past.raced, master)
    BY <1>2, <1>3, <1>5 DEF CommandSound, OnItsWay, UnderOneMaster, AtSeed
  <2>4. RowIsLast(d, past.overlapped, store)
    BY <1>3, <1>5, <1>14 DEF RowIsLast, Sealer
  <2>5. BindsKnown(d, Had)
    BY <1>3, <1>5 DEF BindsKnown, AtSeed, Late
  <2>6. FindsAll(d, past.raced, store)
    BY <1>5 DEF FindsAll
  <2>7. QED
    BY <2>1, <2>2, <2>3, <2>4, <2>5, <2>6 DEF CommandSound
<1>7. MovesApart(p, d)
  BY <1>2, <1>3, <1>5 DEF MovesApart, Sealer, Late, c, CommandSound, OnItsWay
<1>8. SeedSound'
  <2>1. UNCHANGED <<seed, manifest>>
    BY DEF V!Unpack
  <2>2. d.pc # "manifest" /\ c.pc # "manifest"
    BY <1>2, <1>3, <1>5 DEF CommandSound, OnItsWay
  <2>3. QED
    BY <1>4, <2>1, <2>2, SeedStays DEF c
<1>9. IsTable(envelope', own, past.given) /\ past' = past
  BY <1>1 DEF V!Unpack, AllSound
<1>10. QED
  BY <1>1, <1>4, <1>6, <1>7, <1>8, <1>9, OneMoves

LEMMA UnpackKeeps ==
  ASSUME VaultSound, NEW p \in Sessions, V!Unpack(p)
  PROVE  VaultSound'
<1>1. CASE envelope # <<>>
  BY <1>1, UnpackTakesKeeps
<1>2. CASE envelope = <<>>
  <2>1. PICK own : AllSound(own)
    BY DEF VaultSound
  <2>2. Moves(p, V!AtRest) /\ past' = past
    BY <1>2, PastStays DEF V!Unpack, V!Ends
  <2>3. SeedSound'
    BY <2>2, SeedStays DEF V!Unpack, V!AtRest
  <2>4. IsTable(envelope', own, past'.given)
    BY <2>1, <2>2 DEF V!Unpack, AllSound
  <2>5. QED
    BY <2>1, <2>2, <2>3, <2>4, EndKeeps
<1>3. QED
  BY <1>1, <1>2

LEMMA ReadRowFindsKeeps ==
  ASSUME VaultSound, NEW p \in Sessions, V!ReadRow(p), store[Head(command[p].todo)] # V!NoRow
  PROVE  VaultSound'
<1> DEFINE c == command[p]
           r == store[Head(c.todo)]
<1>0. PICK d : d = [c EXCEPT !.pc = "master", !.then = "decrypt", !.row = r]
  OBVIOUS
<1>1. PICK own : AllSound(own)
  BY DEF VaultSound
<1>2. CommandSound(c, own, past.given, past.raced, past.overlapped, Had, master, store) /\ IsShape(c)
  BY <1>1 DEF AllSound, CommandSound, IsCommand
<1>3. c.pc = "read" /\ c.todo # <<>> /\ store[Head(c.todo)] # V!NoRow
  BY DEF V!ReadRow
<1>4. Moves(p, d)
  <2>1. command' = [command EXCEPT ![p] = d]
    BY <1>0, <1>3 DEF V!ReadRow
  <2>2. UNCHANGED <<master, store, past>>
    BY DEF V!ReadRow
  <2>3. QED
    BY <2>1, <2>2, PastStays
<1>5. /\ IsShape(d) /\ d.pc = "master" /\ d.op = c.op /\ d.name = c.name /\ d.value = c.value /\ d.key = c.key /\ d.then = "decrypt" /\ d.row = r
      /\ d.todo = c.todo /\ d.got = c.got /\ d.for = c.for /\ d.copy = c.copy /\ d.text = c.text /\ d.shown = c.shown
  <2> HIDE DEF c, r
  <2>1. QED
    BY <1>0, <1>2 DEF IsShape
<1>11. c.todo \in Todos /\ c.op \in Reading
  BY <1>2, <1>3 DEF CommandSound, IsCommand, OnItsWay
<1>12. Head(c.todo) = c.todo[1] /\ c.todo[1] \in V!Names
  BY <1>3, <1>11, Todo
<1>13. IsRow(r) /\ r.value \in Fetched(past.given) /\ own[r.value] = c.todo[1] /\ r # V!NoRow /\ r = store[c.todo[1]]
       /\ (~past.raced => r.key = master /\ master # V!NoMaster)
  BY <1>1, <1>3, <1>12 DEF AllSound, TableSound
<1>14. c.todo[1] \in V!Stored
  BY <1>3, <1>12 DEF V!Stored
<1> HIDE DEF r
<1> HIDE DEF c
<1>6. CommandSound(d, own, past.given, past.raced, past.overlapped, Had, master, store)
  <2>1. IsCommand(d, own, past.given)
    BY <1>2, <1>3, <1>5, <1>13 DEF CommandSound, IsCommand, AtSeed, Reading
  <2>2. OnItsWay(d, own, past.given)
    BY <1>2, <1>3, <1>5, <1>11, <1>13 DEF CommandSound, OnItsWay, AtSeed, Reading, Overwriting
  <2>3. UnderOneMaster(d, past.raced, master)
    BY <1>5, <1>13 DEF UnderOneMaster
  <2>4. RowIsLast(d, past.overlapped, store)
    BY <1>5 DEF RowIsLast, Sealer
  <2>5. BindsKnown(d, Had)
    <3>1. c.op = "bindTo" => c.todo = <<c.name>> /\ c.todo[1] = c.name
      BY <1>2, <1>3 DEF CommandSound, BindsKnown, Looking
    <3>2. QED
      BY <1>5, <1>14, <3>1 DEF BindsKnown, AtSeed, Late, Had
  <2>6. FindsAll(d, past.raced, store)
    BY <1>2, <1>3, <1>5, <1>13 DEF CommandSound, FindsAll, Finds, Looking, Has
  <2>7. QED
    BY <2>1, <2>2, <2>3, <2>4, <2>5, <2>6 DEF CommandSound
<1>7. MovesApart(p, d)
  BY <1>2, <1>3, <1>5 DEF MovesApart, Sealer, Late, c, CommandSound, OnItsWay
<1>8. SeedSound'
  <2>1. UNCHANGED <<seed, manifest>>
    BY DEF V!ReadRow
  <2>2. d.pc # "manifest" /\ c.pc # "manifest"
    BY <1>2, <1>3, <1>5 DEF CommandSound, OnItsWay
  <2>3. QED
    BY <1>4, <2>1, <2>2, SeedStays DEF c
<1>9. IsTable(envelope', own, past.given) /\ past' = past
  BY <1>1 DEF V!ReadRow, AllSound
<1>10. QED
  BY <1>1, <1>4, <1>6, <1>7, <1>8, <1>9, OneMoves

(* A scrub goes on without a value that it can do without.                   *)
LEMMA SkipKeeps ==
  ASSUME VaultSound, NEW p \in Sessions, V!Unread(p), command[p].op = "scrub", command[p].pc \in {"read", "decrypt"}, command[p].todo # <<>>,
         past.raced \/ store[command[p].todo[1]] = V!NoRow, UNCHANGED <<master, store, seed, manifest, shown, envelope, past>>
  PROVE  VaultSound'
<1> DEFINE c == command[p]
<1>0. PICK d : d = [c EXCEPT !.pc = "read", !.todo = Tail(c.todo)]
  OBVIOUS
<1>1. PICK own : AllSound(own)
  BY DEF VaultSound
<1>2. CommandSound(c, own, past.given, past.raced, past.overlapped, Had, master, store) /\ IsShape(c)
  BY <1>1 DEF AllSound, CommandSound, IsCommand
<1>3. c.pc \in {"read", "decrypt"} /\ c.op = "scrub" /\ c.todo # <<>> /\ (past.raced \/ store[c.todo[1]] = V!NoRow)
  BY DEF V!Unread
<1>4. Moves(p, d)
  <2>1. command' = [command EXCEPT ![p] = d]
    BY <1>0, <1>3 DEF V!Unread
  <2>2. UNCHANGED <<master, store, past>>
    BY DEF V!Unread
  <2>3. QED
    BY <2>1, <2>2, PastStays
<1>5. /\ IsShape(d) /\ d.pc = "read" /\ d.op = c.op /\ d.name = c.name /\ d.value = c.value /\ d.key = c.key /\ d.then = c.then /\ d.row = c.row
      /\ d.todo = Tail(c.todo) /\ d.got = c.got /\ d.for = c.for /\ d.copy = c.copy /\ d.text = c.text /\ d.shown = c.shown
  <2> HIDE DEF c
  <2>1. QED
    BY <1>0, <1>2 DEF IsShape
<1>11. /\ Tail(c.todo) \in Todos
       /\ \A i \in DOMAIN Tail(c.todo) : i + 1 \in DOMAIN c.todo /\ Tail(c.todo)[i] = c.todo[i + 1]
       /\ \A i \in DOMAIN c.todo : i = 1 \/ (i - 1 \in DOMAIN Tail(c.todo) /\ Tail(c.todo)[i - 1] = c.todo[i])
  BY <1>2, <1>3, Todo DEF CommandSound, IsCommand
<1> HIDE DEF c
<1>6. CommandSound(d, own, past.given, past.raced, past.overlapped, Had, master, store)
  <2>1. IsCommand(d, own, past.given)
    BY <1>2, <1>3, <1>5, <1>11 DEF CommandSound, IsCommand
  <2>2. OnItsWay(d, own, past.given)
    BY <1>2, <1>3, <1>5, <1>11 DEF CommandSound, OnItsWay, AtSeed, Reading, Overwriting
  <2>3. UnderOneMaster(d, past.raced, master)
    BY <1>2, <1>3, <1>5 DEF CommandSound, OnItsWay, UnderOneMaster, AtSeed
  <2>4. RowIsLast(d, past.overlapped, store)
    BY <1>2, <1>3, <1>5 DEF CommandSound, OnItsWay, RowIsLast, Sealer, AtSeed
  <2>5. BindsKnown(d, Had)
    BY <1>2, <1>3, <1>5 DEF CommandSound, IsCommand, OnItsWay, BindsKnown, Looking, AtSeed, Late
  <2>6. FindsAll(d, past.raced, store)
    <3>1. SUFFICES ASSUME ~past.raced
                   PROVE  c.shown \subseteq c.text /\ \A v \in c.shown : Finds(d, store, v)
      BY <1>5 DEF FindsAll
    <3>2. ASSUME NEW v \in c.shown
          PROVE  Finds(d, store, v)
      <4>1. Finds(c, store, v)
        BY <1>2, <1>3, <3>1, <3>2 DEF CommandSound, FindsAll, Looking, OnItsWay, AtSeed
      <4>2. \A i \in DOMAIN c.todo : Has(store, c.todo[i], v) => i # 1
        BY <1>3, <3>1 DEF Has
      <4>3. QED
        BY <1>5, <1>11, <4>1, <4>2 DEF Finds
    <3>3. QED
      BY <1>2, <1>3, <3>1, <3>2 DEF CommandSound, FindsAll, Looking, OnItsWay, AtSeed
  <2>7. QED
    BY <2>1, <2>2, <2>3, <2>4, <2>5, <2>6 DEF CommandSound
<1>7. MovesApart(p, d)
  BY <1>2, <1>3, <1>5 DEF MovesApart, Sealer, Late, c, CommandSound, OnItsWay
<1>8. SeedSound'
  <2>1. UNCHANGED <<seed, manifest>>
    OBVIOUS
  <2>2. d.pc # "manifest" /\ c.pc # "manifest"
    BY <1>2, <1>3, <1>5 DEF CommandSound, OnItsWay
  <2>3. QED
    BY <1>4, <2>1, <2>2, SeedStays DEF c
<1>9. IsTable(envelope', own, past.given) /\ past' = past
  BY <1>1 DEF AllSound
<1>10. QED
  BY <1>1, <1>4, <1>6, <1>7, <1>8, <1>9, OneMoves

(* Any other that cannot read a value ends.                                  *)
LEMMA UnreadEnds ==
  ASSUME VaultSound, NEW p \in Sessions, V!Unread(p), command[p].op # "scrub", command[p].pc \in {"read", "decrypt"},
         UNCHANGED <<master, store, seed, manifest, shown, envelope, past>>
  PROVE  VaultSound'
<1>1. PICK own : AllSound(own)
  BY DEF VaultSound
<1>2. Moves(p, V!AtRest)
  BY PastStays DEF V!Unread, V!Ends
<1>3. SeedSound'
  BY <1>2, SeedStays DEF V!AtRest
<1>4. IsTable(envelope', own, past'.given)
  BY <1>1 DEF AllSound
<1>5. QED
  BY <1>1, <1>2, <1>3, <1>4, EndKeeps

LEMMA ReadRowKeeps ==
  ASSUME VaultSound, NEW p \in Sessions, V!ReadRow(p)
  PROVE  VaultSound'
<1>1. CASE store[Head(command[p].todo)] # V!NoRow
  BY <1>1, ReadRowFindsKeeps
<1>2. CASE store[Head(command[p].todo)] = V!NoRow
  <2>1. command[p].pc = "read" /\ command[p].todo # <<>> /\ V!Unread(p)
        /\ UNCHANGED <<master, store, seed, manifest, shown, envelope, past>>
    BY <1>2 DEF V!ReadRow
  <2>2. command[p].todo \in Todos
    BY DEF VaultSound, AllSound, CommandSound, IsCommand
  <2>3. store[command[p].todo[1]] = V!NoRow
    BY <1>2, <2>1, <2>2, Todo
  <2>4. QED
    BY <2>1, <2>3, SkipKeeps, UnreadEnds
<1>3. QED
  BY <1>1, <1>2

LEMMA DecryptOpensKeeps ==
  ASSUME VaultSound, NEW p \in Sessions, V!Decrypt(p), command[p].row.key = command[p].key
  PROVE  VaultSound'
<1> DEFINE c == command[p]
           g == V!With(c.got, Head(c.todo), c.row.value)
<1>0. PICK d : d = [c EXCEPT !.pc = "read", !.todo = Tail(c.todo), !.got = g]
  OBVIOUS
<1>1. PICK own : AllSound(own)
  BY DEF VaultSound
<1>2. CommandSound(c, own, past.given, past.raced, past.overlapped, Had, master, store) /\ IsShape(c)
  BY <1>1 DEF AllSound, CommandSound, IsCommand
<1>3. c.pc = "decrypt" /\ c.row.key = c.key
  BY DEF V!Decrypt
<1>4. Moves(p, d)
  <2>1. command' = [command EXCEPT ![p] = d]
    BY <1>0, <1>3 DEF V!Decrypt
  <2>2. UNCHANGED <<master, store, past>>
    BY DEF V!Decrypt
  <2>3. QED
    BY <2>1, <2>2, PastStays
<1>5. /\ IsShape(d) /\ d.pc = "read" /\ d.op = c.op /\ d.name = c.name /\ d.value = c.value /\ d.key = c.key /\ d.then = c.then /\ d.row = c.row
      /\ d.todo = Tail(c.todo) /\ d.got = g /\ d.for = c.for /\ d.copy = c.copy /\ d.text = c.text /\ d.shown = c.shown
  <2> HIDE DEF c, g
  <2>1. QED
    BY <1>0, <1>2 DEF IsShape
<1>11. c.then = "decrypt" /\ c.op \in Reading /\ c.todo # <<>> /\ c.todo \in Todos /\ IsTable(c.got, own, past.given)
       /\ c.row.value \in Fetched(past.given) /\ own[c.row.value] = c.todo[1] /\ \A i \in DOMAIN c.todo : c.todo[i] \notin DOMAIN c.got
  BY <1>2, <1>3 DEF CommandSound, IsCommand, OnItsWay, AtSeed
<1>12. /\ 1 \in DOMAIN c.todo /\ Head(c.todo) = c.todo[1] /\ Tail(c.todo) \in Todos /\ c.todo[1] \in V!Names
       /\ \A i \in DOMAIN Tail(c.todo) : i + 1 \in DOMAIN c.todo /\ Tail(c.todo)[i] = c.todo[i + 1] /\ c.todo[i + 1] # c.todo[1]
       /\ \A i \in DOMAIN c.todo : i = 1 \/ (i - 1 \in DOMAIN Tail(c.todo) /\ Tail(c.todo)[i - 1] = c.todo[i])
  BY <1>11, Todo
<1>13. DOMAIN g = DOMAIN c.got \cup {c.todo[1]} /\ g[c.todo[1]] = c.row.value /\ \A n \in DOMAIN c.got : n # c.todo[1] => g[n] = c.got[n]
  BY <1>12 DEF V!With
<1> HIDE DEF g
<1>14. IsTable(g, own, past.given)
  BY <1>11, <1>12, <1>13 DEF IsTable
<1>15. V!Values(c.got) \subseteq V!Values(g) /\ c.row.value \in V!Values(g)
  BY <1>11, <1>12, <1>13 DEF V!Values
<1> HIDE DEF c
<1>6. CommandSound(d, own, past.given, past.raced, past.overlapped, Had, master, store)
  <2>1. IsCommand(d, own, past.given)
    BY <1>2, <1>3, <1>5, <1>12, <1>14 DEF CommandSound, IsCommand, Reading
  <2>2. OnItsWay(d, own, past.given)
    <3>1. \A i \in DOMAIN Tail(c.todo) : Tail(c.todo)[i] \notin DOMAIN g
      BY <1>11, <1>12, <1>13
    <3>2. QED
      BY <1>2, <1>3, <1>5, <1>11, <3>1 DEF OnItsWay, AtSeed, Reading, Overwriting
  <2>3. UnderOneMaster(d, past.raced, master)
    BY <1>2, <1>3, <1>5 DEF CommandSound, OnItsWay, UnderOneMaster, AtSeed
  <2>4. RowIsLast(d, past.overlapped, store)
    BY <1>5, <1>11 DEF RowIsLast, Sealer
  <2>5. BindsKnown(d, Had)
    <3>1. c.op = "bindTo" => c.todo = <<c.name>> /\ c.name \in Had
      BY <1>2, <1>3, <1>11 DEF CommandSound, BindsKnown, Looking, AtSeed
    <3>2. \A n : Tail(<<n>>) = <<>>
      OBVIOUS
    <3>3. QED
      BY <1>5, <3>1, <3>2 DEF BindsKnown, AtSeed, Late
  <2>6. FindsAll(d, past.raced, store)
    <3>1. SUFFICES ASSUME ~past.raced, c.op = "scrub"
                   PROVE  c.shown \subseteq c.text /\ \A v \in c.shown : Finds(d, store, v)
      BY <1>5 DEF FindsAll
    <3>2. c.shown \subseteq c.text /\ \A v \in c.shown : Finds(c, store, v)
      BY <1>2, <1>3, <1>11, <3>1 DEF CommandSound, FindsAll, Looking, AtSeed
    <3>3. ASSUME NEW v \in c.shown
          PROVE  Finds(d, store, v)
      <4>1. Finds(c, store, v)
        BY <3>2
      <4>2. Has(store, c.todo[1], v) => v \in V!Values(g)
        BY <1>3, <1>11, <1>15, <4>1 DEF Finds
      <4>3. v \in V!Values(g) \/ \E i \in DOMAIN Tail(c.todo) : Has(store, Tail(c.todo)[i], v)
        BY <1>12, <1>15, <4>1, <4>2 DEF Finds
      <4>4. QED
        BY <1>5, <4>1, <4>3 DEF Finds
    <3>4. QED
      BY <3>2, <3>3
  <2>7. QED
    BY <2>1, <2>2, <2>3, <2>4, <2>5, <2>6 DEF CommandSound
<1>7. MovesApart(p, d)
  BY <1>2, <1>3, <1>5 DEF MovesApart, Sealer, Late, c, CommandSound, OnItsWay
<1>8. SeedSound'
  <2>1. UNCHANGED <<seed, manifest>>
    BY DEF V!Decrypt
  <2>2. d.pc # "manifest" /\ c.pc # "manifest"
    BY <1>2, <1>3, <1>5 DEF CommandSound, OnItsWay
  <2>3. QED
    BY <1>4, <2>1, <2>2, SeedStays DEF c
<1>9. IsTable(envelope', own, past.given) /\ past' = past
  BY <1>1 DEF V!Decrypt, AllSound
<1>10. QED
  BY <1>1, <1>4, <1>6, <1>7, <1>8, <1>9, OneMoves

LEMMA DecryptKeeps ==
  ASSUME VaultSound, NEW p \in Sessions, V!Decrypt(p)
  PROVE  VaultSound'
<1>1. CASE command[p].row.key = command[p].key
  BY <1>1, DecryptOpensKeeps
<1>2. CASE command[p].row.key # command[p].key
  <2>1. command[p].pc = "decrypt" /\ V!Unread(p) /\ UNCHANGED <<master, store, seed, manifest, shown, envelope, past>>
    BY <1>2 DEF V!Decrypt
  <2>2. PICK own : CommandSound(command[p], own, past.given, past.raced, past.overlapped, Had, master, store)
    BY DEF VaultSound, AllSound
  <2>3. command[p].todo # <<>> /\ command[p].row # V!NoRow
    BY <2>1, <2>2 DEF CommandSound, OnItsWay
  <2>4. past.raced
    BY <1>2, <2>1, <2>2, <2>3 DEF CommandSound, UnderOneMaster
  <2>5. QED
    BY <2>1, <2>3, <2>4, SkipKeeps, UnreadEnds
<1>3. QED
  BY <1>1, <1>2
LEMMA exportVaultKeeps ==
  ASSUME VaultSound, NEW p \in Sessions, V!exportVault(p)
  PROVE  VaultSound'
<1>1. PICK own : AllSound(own)
  BY DEF VaultSound
<1>2. IsTable(command[p].got, own, past.given) /\ command[p].pc = "read"
  BY <1>1 DEF AllSound, CommandSound, IsCommand, V!exportVault, V!GotAll
<1>3. Moves(p, V!AtRest) /\ past' = past
  BY PastStays DEF V!exportVault, V!Ends
<1>4. SeedSound'
  BY <1>2, <1>3, SeedStays DEF V!exportVault, V!AtRest
<1>5. IsTable(envelope', own, past'.given)
  BY <1>2, <1>3 DEF V!exportVault
<1>6. QED
  BY <1>1, <1>3, <1>4, <1>5, EndKeeps

(* Two binds that are both past the reading of the seed cross.               *)
LEMMA AloneAtSeed ==
  ASSUME VaultSound, past.binds, NEW p \in Sessions, command[p].pc \in Late, NEW q \in Sessions, q # p
  PROVE  command[q].pc \notin Late
BY DEF VaultSound, Apart

LEMMA WriteSeedKeeps ==
  ASSUME VaultSound, NEW p \in Sessions, V!WriteSeed(p)
  PROVE  VaultSound'
<1> DEFINE c == command[p]
<1>0. PICK d : d = [c EXCEPT !.pc = "manifest"]
  OBVIOUS
<1>1. PICK own : AllSound(own)
  BY DEF VaultSound
<1>2. CommandSound(c, own, past.given, past.raced, past.overlapped, Had, master, store) /\ IsShape(c)
  BY <1>1 DEF AllSound, CommandSound, IsCommand
<1>3. c.pc = "seedWrite"
  BY DEF V!WriteSeed
<1>4. Moves(p, d)
  <2>1. command' = [command EXCEPT ![p] = d]
    BY <1>0, <1>3 DEF V!WriteSeed, V!Goto
  <2>2. UNCHANGED <<master, store, past>>
    BY DEF V!WriteSeed
  <2>3. QED
    BY <2>1, <2>2, PastStays
<1>5. /\ IsShape(d) /\ d.pc = "manifest" /\ d.op = c.op /\ d.name = c.name /\ d.value = c.value /\ d.key = c.key /\ d.then = c.then /\ d.row = c.row
      /\ d.todo = c.todo /\ d.got = c.got /\ d.for = c.for /\ d.copy = c.copy /\ d.text = c.text /\ d.shown = c.shown
  <2> HIDE DEF c
  <2>1. QED
    BY <1>0, <1>2 DEF IsShape
<1> HIDE DEF c
<1>6. CommandSound(d, own, past.given, past.raced, past.overlapped, Had, master, store)
  <2>1. IsCommand(d, own, past.given)
    BY <1>2, <1>3, <1>5 DEF CommandSound, IsCommand, OnItsWay, AtSeed, Reading, Overwriting
  <2>2. OnItsWay(d, own, past.given)
    BY <1>2, <1>3, <1>5 DEF CommandSound, IsCommand, OnItsWay, AtSeed, Reading, Overwriting
  <2>3. UnderOneMaster(d, past.raced, master)
    BY <1>2, <1>3, <1>5 DEF CommandSound, OnItsWay, UnderOneMaster, AtSeed
  <2>4. RowIsLast(d, past.overlapped, store)
    BY <1>2, <1>3, <1>5 DEF CommandSound, OnItsWay, RowIsLast, Sealer, AtSeed
  <2>5. BindsKnown(d, Had)
    BY <1>2, <1>3, <1>5 DEF CommandSound, IsCommand, OnItsWay, BindsKnown, Looking, AtSeed, Late
  <2>6. FindsAll(d, past.raced, store)
    BY <1>2, <1>3, <1>5 DEF CommandSound, OnItsWay, FindsAll, Finds, Looking, AtSeed, Reading
  <2>7. QED
    BY <2>1, <2>2, <2>3, <2>4, <2>5, <2>6 DEF CommandSound
<1>7. MovesApart(p, d)
  BY <1>2, <1>3, <1>5 DEF MovesApart, Sealer, Late, c, CommandSound, OnItsWay
<1>8. SeedSound'
  <2>1. DOMAIN command' = Sessions /\ command'[p] = d /\ \A q \in Sessions \ {p} : command'[q] = command[q]
    BY <1>4 DEF Moves, VaultSound, Settled
  <2>2. past' = past /\ Had' = Had /\ seed' = V!Json(c.copy, V!secretsBound(c.copy))
    BY <1>4 DEF Moves, V!WriteSeed, Had, V!Stored, c
  <2>4. past.binds => \A q \in Sessions : q # p => command[q].pc # "manifest"
    BY <1>3, AloneAtSeed DEF Late, c
  <2>5. past.binds => \A q \in Sessions : command'[q].pc = "manifest" => q = p
    BY <2>1, <2>4
  <2>6. seed'.bindings = c.copy
    BY <2>2 DEF V!Json
  <2>7. V!Values(c.copy) \subseteq Had
    BY <1>2, <1>3 DEF CommandSound, BindsKnown, Late
  <2>8. QED
    BY <1>5, <2>1, <2>2, <2>5, <2>6, <2>7 DEF SeedSound
<1>9. IsTable(envelope', own, past.given) /\ past' = past
  BY <1>1 DEF V!WriteSeed, AllSound
<1>10. QED
  BY <1>1, <1>4, <1>6, <1>7, <1>8, <1>9, OneMoves

LEMMA WriteManifestKeeps ==
  ASSUME VaultSound, NEW p \in Sessions, V!WriteManifest(p)
  PROVE  VaultSound'
<1>1. PICK own : AllSound(own)
  BY DEF VaultSound
<1>2. command[p].pc = "manifest"
  BY DEF V!WriteManifest
<1>3. Moves(p, V!AtRest) /\ past' = past
  BY PastStays DEF V!WriteManifest, V!Ends
<1>4. SeedSound'
  <2>1. DOMAIN command' = Sessions /\ command'[p] = V!AtRest /\ \A q \in Sessions \ {p} : command'[q] = command[q]
    BY <1>3 DEF Moves, VaultSound, Settled
  <2>2. Had' = Had /\ seed' = seed /\ manifest' = V!Json(command[p].copy, V!secretsBound(command[p].copy))
    BY <1>3 DEF Moves, V!WriteManifest, Had, V!Stored
  <2>3. SUFFICES ASSUME past.binds
                 PROVE  SeedSound'
    BY <1>3, <2>2 DEF VaultSound, SeedSound
  <2>4. seed = manifest'
    BY <1>2, <2>2, <2>3 DEF VaultSound, SeedSound
  <2>5. \A q \in Sessions : q # p => command[q].pc # "manifest"
    BY <1>2, <2>3, AloneAtSeed DEF Late
  <2>6. \A q \in Sessions : command'[q].pc # "manifest"
    BY <2>1, <2>5 DEF V!AtRest
  <2>7. QED
    BY <1>3, <2>2, <2>3, <2>4, <2>6 DEF VaultSound, SeedSound
<1>5. IsTable(envelope', own, past'.given)
  BY <1>1, <1>3 DEF V!WriteManifest, AllSound
<1>6. QED
  BY <1>1, <1>3, <1>4, <1>5, EndKeeps

LEMMA ShowKeeps ==
  ASSUME VaultSound, V!Show
  PROVE  VaultSound'
<1>1. UNCHANGED <<master, store, seed, manifest, envelope, command, past>>
  BY DEF V!Show
<1>2. Settled' /\ SeedSound' /\ Apart'
  BY <1>1 DEF VaultSound, Settled, PastSound, V!AsMeant, V!NothingLeft, SeedSound, Apart, Had, V!Stored
<1>3. PICK own : own \in [Sealable -> V!Names] /\ AllSound(own)
  BY DEF VaultSound
<1>4. AllSound(own)'
  BY <1>1, <1>3 DEF AllSound, Had, V!Stored
<1>5. QED
  BY <1>2, <1>3, <1>4 DEF VaultSound

(* scrubFile leaves none of what it was shown.                               *)
LEMMA scrubFileKeeps ==
  ASSUME VaultSound, NEW p \in Sessions, V!scrubFile(p)
  PROVE  VaultSound'
<1> DEFINE c == command[p]
<1>1. PICK own : AllSound(own)
  BY DEF VaultSound
<1>2. CommandSound(c, own, past.given, past.raced, past.overlapped, Had, master, store)
  BY <1>1 DEF AllSound
<1>3. c.pc = "read" /\ c.todo = <<>> /\ c.op = "scrub" /\ past' = [past EXCEPT !.left = @ \cup (c.shown \cap shown')]
      /\ UNCHANGED <<master, store, seed, manifest, envelope>> /\ command' = [command EXCEPT ![p] = V!AtRest]
      /\ shown' = IF V!Scrubbed(c.text, c.got) = c.text THEN shown ELSE V!Scrubbed(c.text, c.got)
  BY DEF V!scrubFile, V!GotAll, V!Ends
<1> HIDE DEF c
<1>4. ~past.raced => c.shown \cap shown' = {}
  <2>1. SUFFICES ASSUME ~past.raced, NEW v \in c.shown
                 PROVE  v \notin shown'
    OBVIOUS
  <2>2. v \in c.text /\ v \in V!Values(c.got)
    BY <1>2, <1>3, <2>1 DEF CommandSound, FindsAll, Looking, Finds
  <2>3. v \notin V!Scrubbed(c.text, c.got)
    BY <2>2 DEF V!Scrubbed
  <2>4. QED
    BY <1>3, <2>2, <2>3
<1>5. past'.given = past.given /\ past'.masters = past.masters /\ past'.raced = past.raced /\ past'.overlapped = past.overlapped
      /\ past'.removed = past.removed /\ past'.binds = past.binds /\ past'.meant = past.meant /\ past'.left = past.left \cup (c.shown \cap shown')
      /\ past' = [given |-> past'.given, masters |-> past'.masters, raced |-> past'.raced, overlapped |-> past'.overlapped,
                  removed |-> past'.removed, binds |-> past'.binds, left |-> past'.left, meant |-> past'.meant]
  BY <1>3 DEF VaultSound, Settled, PastSound
<1>6. Moves(p, V!AtRest)
  <2>1. PastSound'
    BY <1>5 DEF VaultSound, Settled, PastSound
  <2>2. V!NothingLeft'
    BY <1>4, <1>5 DEF VaultSound, Settled, V!NothingLeft
  <2>3. past'.given >= past.given
    BY <1>5, VaultAssumption DEF VaultSound, Settled, PastSound
  <2>4. QED
    BY <1>3, <1>5, <2>1, <2>2, <2>3 DEF Moves
<1>7. SeedSound'
  BY <1>3, <1>6, SeedStays DEF V!AtRest, c
<1>8. IsTable(envelope', own, past'.given)
  BY <1>1, <1>3, <1>5 DEF AllSound
<1>9. QED
  BY <1>1, <1>6, <1>7, <1>8, EndKeeps

(* What is past, but for what overlapped and which binds are told apart.     *)
LEMMA PastGrows ==
  ASSUME VaultSound, NEW p \in Sessions, NEW d, command' = [command EXCEPT ![p] = d], UNCHANGED <<master, store>>,
         NEW o, past.overlapped \subseteq o, NEW b, b => past.binds, past' = [past EXCEPT !.overlapped = o, !.binds = b]
  PROVE  /\ Moves(p, d) /\ past'.given = past.given /\ past'.raced = past.raced /\ past'.overlapped = o /\ past'.binds = b
         /\ past'.left = past.left /\ past'.meant = past.meant /\ past'.masters = past.masters /\ past'.removed = past.removed
<1>1. past'.given = past.given /\ past'.masters = past.masters /\ past'.raced = past.raced /\ past'.overlapped = o
      /\ past'.removed = past.removed /\ past'.binds = b /\ past'.left = past.left /\ past'.meant = past.meant
      /\ past' = [given |-> past'.given, masters |-> past'.masters, raced |-> past'.raced, overlapped |-> past'.overlapped,
                  removed |-> past'.removed, binds |-> past'.binds, left |-> past'.left, meant |-> past'.meant]
  BY DEF VaultSound, Settled, PastSound
<1>2. PastSound'
  BY <1>1 DEF VaultSound, Settled, PastSound
<1>3. V!NothingLeft'
  BY <1>1 DEF VaultSound, Settled, V!NothingLeft
<1>4. past'.given >= past.given
  BY <1>1, VaultAssumption DEF VaultSound, Settled, PastSound
<1>5. QED
  BY <1>1, <1>2, <1>3, <1>4 DEF Moves

LEMMA ReadSeedKeeps ==
  ASSUME VaultSound, NEW p \in Sessions, V!ReadSeed(p)
  PROVE  VaultSound'
<1> DEFINE c == command[p]
           copy == V!With(seed.bindings, c.for, c.name)
<1>0. PICK b : b = (past.binds /\ V!Binding \subseteq {p})
  OBVIOUS
<1>1. PICK own : AllSound(own)
  BY DEF VaultSound
<1>2. CommandSound(c, own, past.given, past.raced, past.overlapped, Had, master, store) /\ IsShape(c)
  BY <1>1 DEF AllSound, CommandSound, IsCommand
<1>3. c.pc = "seedRead" /\ UNCHANGED <<master, store, seed, manifest, envelope>>
  BY DEF V!ReadSeed
<1>4. past' = [past EXCEPT !.overlapped = past.overlapped, !.binds = b] /\ (b => past.binds) /\ past.overlapped \subseteq past.overlapped
  BY <1>0 DEF V!ReadSeed, VaultSound, Settled, PastSound
<1>5. IsTable(envelope, own, past.given)
  BY <1>1 DEF AllSound
<1>6. CASE command' = [command EXCEPT ![p] = V!AtRest]
  <2>1. Moves(p, V!AtRest) /\ past'.given = past.given
    BY <1>3, <1>4, <1>6, PastGrows
  <2>2. SeedSound'
    BY <1>3, <2>1, SeedStays DEF V!AtRest
  <2>3. IsTable(envelope', own, past'.given)
    BY <1>3, <1>5, <2>1
  <2>4. QED
    BY <1>1, <2>1, <2>2, <2>3, EndKeeps
<1>7. CASE command' = [command EXCEPT ![p].pc = "seedOpen", ![p].copy = copy]
  <2>1. PICK d : d = [c EXCEPT !.pc = "seedOpen", !.copy = copy]
    OBVIOUS
  <2>2. command' = [command EXCEPT ![p] = d]
    BY <1>7, <2>1
  <2>3. Moves(p, d) /\ past'.given = past.given /\ past'.raced = past.raced /\ past'.overlapped = past.overlapped /\ past'.binds = b
    <3>1. UNCHANGED <<master, store>>
      BY <1>3
    <3>2. QED
      BY <1>4, <2>2, <3>1, PastGrows
  <2>4. /\ IsShape(d) /\ d.pc = "seedOpen" /\ d.op = c.op /\ d.name = c.name /\ d.value = c.value /\ d.key = c.key /\ d.then = c.then /\ d.row = c.row
      /\ d.todo = c.todo /\ d.got = c.got /\ d.for = c.for /\ d.copy = copy /\ d.text = c.text /\ d.shown = c.shown
    <3> HIDE DEF c, copy
    <3>1. DOMAIN d = DOMAIN c /\ {"pc", "copy"} \subseteq DOMAIN c
      BY <1>2, <2>1 DEF IsShape
    <3>2. d.pc = "seedOpen" /\ d.copy = copy
      BY <2>1, <3>1
    <3>3. IsShape(d)
      BY <1>2, <2>1 DEF IsShape
    <3>4. QED
      BY <1>2, <2>1, <3>2, <3>3 DEF IsShape
  <2>5. c.name \in Had
    BY <1>2, <1>3 DEF CommandSound, BindsKnown, AtSeed
  <2>6. V!Values(copy) \subseteq Had
    <3>1. V!Values(copy) \subseteq V!Values(seed.bindings) \cup {c.name}
      BY DEF V!Values, V!With
    <3>2. QED
      BY <2>5, <3>1 DEF VaultSound, SeedSound
  <2> HIDE DEF c, copy
  <2>7. CommandSound(d, own, past.given, past.raced, past.overlapped, Had, master, store)
    <3>1. IsCommand(d, own, past.given)
      BY <1>2, <1>3, <2>4 DEF CommandSound, IsCommand, OnItsWay, AtSeed, Reading, Overwriting
    <3>2. OnItsWay(d, own, past.given)
      BY <1>2, <1>3, <2>4 DEF CommandSound, IsCommand, OnItsWay, AtSeed, Reading, Overwriting
    <3>3. UnderOneMaster(d, past.raced, master)
      BY <1>2, <1>3, <2>4 DEF CommandSound, OnItsWay, UnderOneMaster, AtSeed
    <3>4. RowIsLast(d, past.overlapped, store)
      BY <1>2, <1>3, <2>4 DEF CommandSound, OnItsWay, RowIsLast, Sealer, AtSeed
    <3>5. BindsKnown(d, Had)
      BY <1>2, <1>3, <2>4, <2>5, <2>6 DEF CommandSound, IsCommand, OnItsWay, BindsKnown, Looking, AtSeed, Late
    <3>6. FindsAll(d, past.raced, store)
      BY <1>2, <1>3, <2>4 DEF CommandSound, OnItsWay, FindsAll, Finds, Looking, AtSeed, Reading
    <3>7. QED
      BY <3>1, <3>2, <3>3, <3>4, <3>5, <3>6 DEF CommandSound
  <2>8. MovesApart(p, d)
    <3>1. ~Sealer(d)
      BY <1>2, <1>3, <2>4 DEF CommandSound, OnItsWay, Sealer
    <3>2. b => \A q \in Sessions \ {p} : command[q].pc \notin Late
      BY <1>0 DEF V!Binding, Late
    <3>3. QED
      BY <2>3, <3>1, <3>2 DEF MovesApart
  <2>9. SeedSound'
    BY <1>3, <2>3, <2>4, SeedStays DEF c
  <2>10. IsTable(envelope', own, past'.given)
    BY <1>3, <1>5, <2>3
  <2>11. QED
    BY <1>1, <2>3, <2>7, <2>8, <2>9, <2>10, OneMoves
<1>8. QED
  BY <1>6, <1>7 DEF V!ReadSeed, V!Ends

LEMMA CrashKeeps ==
  ASSUME VaultSound, NEW p \in Sessions, V!Crash(p)
  PROVE  VaultSound'
<1>0. PICK b : b = (past.binds /\ p \notin V!Binding)
  OBVIOUS
<1>1. PICK own : AllSound(own)
  BY DEF VaultSound
<1>2. UNCHANGED <<master, store, manifest, envelope>> /\ command' = [command EXCEPT ![p] = V!AtRest]
      /\ seed' = IF command[p].pc = "seedWrite" THEN V!Torn ELSE seed
  BY DEF V!Crash, V!Ends
<1>3. past' = [past EXCEPT !.overlapped = past.overlapped, !.binds = b] /\ (b => past.binds) /\ past.overlapped \subseteq past.overlapped
  BY <1>0 DEF V!Crash, VaultSound, Settled, PastSound
<1>4. Moves(p, V!AtRest) /\ past'.given = past.given /\ past'.binds = b
  BY <1>2, <1>3, PastGrows
<1>5. SeedSound'
  <2>1. CASE command[p].pc \in AtSeed
    <3>1. ~past'.binds
      BY <1>0, <1>4, <2>1 DEF V!Binding, AtSeed
    <3>2. V!Torn.bindings = <<>> /\ V!Values(<<>>) = {}
      BY DEF V!Torn, V!Json, V!Values
    <3>3. Had' = Had
      BY <1>4 DEF Moves, Had, V!Stored
    <3>4. QED
      BY <1>2, <3>1, <3>2, <3>3 DEF VaultSound, SeedSound
  <2>2. CASE command[p].pc \notin AtSeed
    <3>1. seed' = seed /\ command[p].pc # "manifest"
      BY <1>2, <2>2 DEF AtSeed
    <3>2. QED
      BY <1>2, <1>4, <3>1, SeedStays DEF V!AtRest
  <2>3. QED
    BY <2>1, <2>2
<1>6. IsTable(envelope', own, past'.given)
  BY <1>1, <1>2, <1>4 DEF AllSound
<1>7. QED
  BY <1>1, <1>4, <1>5, <1>6, EndKeeps

LEMMA LoadKeeps ==
  ASSUME VaultSound, NEW p \in Sessions, V!Load(p)
  PROVE  VaultSound'
<1> DEFINE c == command[p]
           n == c.name
           o == past.overlapped \cup (IF V!Sealing(n) = {} THEN {} ELSE {n})
<1>1. PICK own : AllSound(own)
  BY DEF VaultSound
<1>2. CommandSound(c, own, past.given, past.raced, past.overlapped, Had, master, store) /\ IsShape(c)
  BY <1>1 DEF AllSound, CommandSound, IsCommand
<1>3. c.pc = "begin" /\ c.op \in Overwriting /\ UNCHANGED <<master, store, seed, manifest, envelope>>
  BY DEF V!Load, V!Writes, Overwriting
<1>4. IsTable(envelope, own, past.given)
  BY <1>1 DEF AllSound
<1>5. CASE command' = [command EXCEPT ![p] = V!AtRest] /\ past' = past
  <2>1. Moves(p, V!AtRest)
    BY <1>3, <1>5, PastStays
  <2>2. SeedSound'
    BY <1>3, <2>1, SeedStays DEF V!AtRest
  <2>3. QED
    BY <1>1, <1>3, <1>4, <1>5, <2>1, <2>2, EndKeeps
<1>6. CASE /\ command' = [command EXCEPT ![p].pc = "master", ![p].then = "put", ![p].row = store[n]]
           /\ past' = [past EXCEPT !.overlapped = o]
  <2>0. PICK r : r = store[n]
    OBVIOUS
  <2>1. PICK d : d = [c EXCEPT !.pc = "master", !.then = "put", !.row = r]
    OBVIOUS
  <2>2. command' = [command EXCEPT ![p] = d]
    BY <1>6, <2>0, <2>1
  <2>3. /\ IsShape(d) /\ d.pc = "master" /\ d.op = c.op /\ d.name = c.name /\ d.value = c.value /\ d.key = c.key /\ d.then = "put" /\ d.row = r
      /\ d.todo = c.todo /\ d.got = c.got /\ d.for = c.for /\ d.copy = c.copy /\ d.text = c.text /\ d.shown = c.shown
    <3> HIDE DEF c
    <3>1. QED
      BY <1>2, <2>1 DEF IsShape
  <2>4. Moves(p, d) /\ past'.given = past.given /\ past'.raced = past.raced /\ past'.overlapped = o
    <3>1. PICK b : b = past.binds
      OBVIOUS
    <3>2. PICK u : u = o
      OBVIOUS
    <3>3. past.overlapped \subseteq u /\ (b => past.binds)
      BY <3>1, <3>2
    <3> HIDE DEF o
    <3>4. past' = [past EXCEPT !.overlapped = u, !.binds = b]
      BY <1>6, <3>1, <3>2 DEF VaultSound, Settled, PastSound
    <3>5. QED
      BY <1>3, <2>2, <3>2, <3>3, <3>4, PastGrows
  <2>5. \A q \in Sessions : Sealer(command[q]) /\ command[q].name = n => n \in o
    BY DEF V!Sealing, Sealer
  <2> HIDE DEF c, o
  <2>6. n \in V!Names /\ c.value \in Fetched(past.given) /\ own[c.value] = n
    BY <1>2, <1>3 DEF CommandSound, OnItsWay, AtSeed
  <2>7. r # V!NoRow => IsRow(r) /\ (~past.raced => r.key = master /\ master # V!NoMaster)
    BY <1>1, <2>0, <2>6 DEF AllSound, TableSound
  <2>8. CommandSound(d, own, past.given, past.raced, o, Had, master, store)
    <3>1. IsCommand(d, own, past.given)
      BY <1>2, <1>3, <2>3, <2>7 DEF CommandSound, IsCommand
    <3>2. OnItsWay(d, own, past.given)
      BY <1>2, <1>3, <2>3, <2>6 DEF CommandSound, OnItsWay, AtSeed, Reading, Overwriting
    <3>3. UnderOneMaster(d, past.raced, master)
      BY <2>3, <2>7 DEF UnderOneMaster
    <3>4. RowIsLast(d, o, store)
      BY <2>0, <2>3 DEF RowIsLast
    <3>5. BindsKnown(d, Had) /\ FindsAll(d, past.raced, store)
      BY <1>3, <2>3 DEF BindsKnown, FindsAll, AtSeed, Late, Looking
    <3>6. QED
      BY <3>1, <3>2, <3>3, <3>4, <3>5 DEF CommandSound
  <2>9. MovesApart(p, d)
    BY <2>3, <2>4, <2>5 DEF MovesApart, Late, Sealer
  <2>10. SeedSound'
    BY <1>3, <2>3, <2>4, SeedStays DEF c
  <2>11. IsTable(envelope', own, past'.given)
    BY <1>3, <1>4, <2>4
  <2>12. QED
    BY <1>1, <2>4, <2>8, <2>9, <2>10, <2>11, OneMoves
<1>7. QED
  BY <1>5, <1>6 DEF V!Load, V!Ends

(* A value that is not there yet may be anybody's.                           *)
LEMMA NewIsFree ==
  ASSUME VaultSound, NEW own, AllSound(own), past.given < MaxSecrets, NEW n \in V!Names, NEW own2,
         own2 = [own EXCEPT ![past.given + 1] = n]
  PROVE  AllSound(own2) /\ own2[past.given + 1] = n /\ past.given + 1 \in Fetched(past.given + 1)
<1>1. past.given \in Nat /\ past.given + 1 \in Sealable /\ past.given + 1 \notin Fetched(past.given)
      /\ past.given + 1 \in Fetched(past.given + 1)
  BY VaultAssumption DEF VaultSound, Settled, PastSound, Sealable, Fetched
<1>2. own \in [Sealable -> V!Names]
  BY DEF AllSound
<1>3. own2 \in [Sealable -> V!Names] /\ own2[past.given + 1] = n /\ \A v \in Fetched(past.given) : own2[v] = own[v]
  BY <1>1, <1>2 DEF Fetched
<1>4. TableSound(own2, store, past.raced, past.given, master)
  BY <1>3 DEF AllSound, TableSound
<1>5. IsTable(envelope, own2, past.given)
  BY <1>3 DEF AllSound, IsTable
<1>6. ASSUME NEW q \in Sessions
      PROVE  CommandSound(command[q], own2, past.given, past.raced, past.overlapped, Had, master, store)
  <2>1. CommandSound(command[q], own, past.given, past.raced, past.overlapped, Had, master, store)
    BY DEF AllSound
  <2>2. IsCommand(command[q], own2, past.given)
    BY <1>3, <2>1 DEF CommandSound, IsCommand, IsTable
  <2>3. OnItsWay(command[q], own2, past.given)
    BY <1>3, <2>1 DEF CommandSound, OnItsWay
  <2>4. QED
    BY <2>1, <2>2, <2>3 DEF CommandSound
<1>7. QED
  BY <1>1, <1>3, <1>4, <1>5, <1>6 DEF AllSound

LEMMA openVaultKeeps ==
  ASSUME VaultSound, NEW p \in Sessions, NEW op, NEW n, NEW for, V!openVault(p, op, n, for),
         op \in {"set", "rotate", "rm", "bindTo", "bindSet"} => n \in V!Names,
         op \in {"set", "rotate", "rm", "export", "unpack", "scrub", "bindTo", "bindSet"}
  PROVE  VaultSound'
<1>1. past.given < MaxSecrets /\ UNCHANGED <<master, store, seed, manifest, envelope>> /\ command[p].pc = "idle"
  BY DEF V!openVault
<1>2. PICK m \in V!Names : n \in V!Names => m = n
  BY DEF V!Names
<1>3. PICK old : AllSound(old)
  BY DEF VaultSound
<1>4. PICK own : own = [old EXCEPT ![past.given + 1] = m]
  OBVIOUS
<1>5. AllSound(own) /\ own[past.given + 1] = m /\ past.given + 1 \in Fetched(past.given + 1)
  BY <1>1, <1>3, <1>4, NewIsFree
<1>6. PICK v : v = past.given + 1
  OBVIOUS
<1>7. PICK c : c = V!AtRest /\ IsShape(c)
  <2>1. IsShape(V!AtRest)
    BY DEF V!AtRest, IsShape
  <2>2. QED
    BY <2>1
<1>8. PICK d : d = [c EXCEPT !.pc = "master", !.op = op, !.name = n, !.value = v, !.then = "begin", !.for = for]
  OBVIOUS
<1>9. IsShape(d) /\ d.pc = "master" /\ d.op = op /\ d.name = n /\ d.value = v /\ d.key = c.key /\ d.then = "begin" /\ d.row = c.row
      /\ d.todo = c.todo /\ d.got = c.got /\ d.copy = c.copy
  BY <1>7, <1>8 DEF IsShape
<1>10. c.key = 0 /\ c.row = V!NoRow /\ c.todo = <<>> /\ c.got = <<>> /\ c.copy = <<>>
  BY <1>7 DEF V!AtRest, V!NoMaster
<1>11. command' = [command EXCEPT ![p] = d]
  BY <1>6, <1>7, <1>8 DEF V!openVault
<1>12. past'.given = v /\ past'.masters = past.masters /\ past'.raced = past.raced /\ past'.overlapped = past.overlapped
      /\ past'.removed = past.removed /\ past'.binds = past.binds /\ past'.left = past.left /\ past'.meant = past.meant
      /\ past' = [given |-> past'.given, masters |-> past'.masters, raced |-> past'.raced, overlapped |-> past'.overlapped,
                  removed |-> past'.removed, binds |-> past'.binds, left |-> past'.left, meant |-> past'.meant]
  BY <1>6 DEF V!openVault, VaultSound, Settled, PastSound
<1>13. past.given \in Nat /\ past'.given \in 0 .. MaxSecrets /\ past'.given >= past.given
  BY <1>1, <1>6, <1>12, VaultAssumption DEF VaultSound, Settled, PastSound
<1>14. Moves(p, d)
  <2>1. PastSound'
    BY <1>12, <1>13 DEF VaultSound, Settled, PastSound
  <2>2. V!NothingLeft'
    BY <1>12 DEF VaultSound, Settled, V!NothingLeft
  <2>3. QED
    BY <1>1, <1>11, <1>12, <1>13, <2>1, <2>2 DEF Moves
<1>15. CommandSound(d, own, past'.given, past'.raced, past'.overlapped, Had, master, store)
  <2>1. IsCommand(d, own, past'.given)
    BY <1>9, <1>10 DEF IsCommand, IsTable, Todos, AtSeed, V!Names
  <2>2. OnItsWay(d, own, past'.given)
    BY <1>2, <1>5, <1>6, <1>9, <1>10, <1>12 DEF OnItsWay, Overwriting, Reading, AtSeed
  <2>3. UnderOneMaster(d, past'.raced, master) /\ RowIsLast(d, past'.overlapped, store)
    BY <1>9, <1>10 DEF UnderOneMaster, RowIsLast, Sealer
  <2>4. BindsKnown(d, Had) /\ FindsAll(d, past'.raced, store)
    BY <1>9 DEF BindsKnown, FindsAll, AtSeed, Late, Looking
  <2>5. QED
    BY <2>1, <2>2, <2>3, <2>4 DEF CommandSound
<1>16. MovesApart(p, d)
  BY <1>9 DEF MovesApart, Late, Sealer
<1>17. SeedSound'
  BY <1>1, <1>9, <1>14, SeedStays
<1>18. IsTable(envelope', own, past'.given)
  <2>1. Fetched(past.given) \subseteq Fetched(past'.given)
    BY <1>13, VaultAssumption DEF Fetched, Sealable
  <2>2. QED
    BY <1>1, <1>5, <2>1 DEF AllSound, IsTable
<1>19. QED
  BY <1>5, <1>14, <1>15, <1>16, <1>17, <1>18, OneMoves

LEMMA BeginKeeps ==
  ASSUME VaultSound, NEW p \in Sessions, V!Begin(p)
  PROVE  VaultSound'
<1>1. CASE \E op \in {"set", "rotate", "rm"}, n \in V!Names : V!openVault(p, op, n, "none")
  BY <1>1, openVaultKeeps
<1>2. CASE \E op \in {"export", "unpack", "scrub"} : V!openVault(p, op, "none", "none")
  BY <1>2, openVaultKeeps
<1>3. CASE \E op \in {"bindTo", "bindSet"}, n \in V!Names, for \in Placeholders : V!openVault(p, op, n, for)
  BY <1>3, openVaultKeeps
<1>4. QED
  BY <1>1, <1>2, <1>3 DEF V!Begin

(* A new master: either nobody has sealed, or had a key, before, or there were *)
(* two at once.                                                             *)
LEMMA SetMasterKeeps ==
  ASSUME VaultSound, NEW p \in Sessions, V!SetMaster(p)
  PROVE  VaultSound'
<1> DEFINE c == command[p]
<1>1. PICK own : AllSound(own)
  BY DEF VaultSound
<1>2. CommandSound(c, own, past.given, past.raced, past.overlapped, Had, master, store) /\ IsShape(c)
  BY <1>1 DEF AllSound, CommandSound, IsCommand
<1>3. c.pc = "generated" /\ UNCHANGED <<store, seed, manifest, envelope>> /\ master' = past.masters + 1
  BY DEF V!SetMaster
<1>4. PICK k : k = past.masters + 1
  OBVIOUS
<1>5. PICK x : x = c.then
  OBVIOUS
<1>6. PICK d : d = [c EXCEPT !.pc = x, !.key = k]
  OBVIOUS
<1>7. command' = [command EXCEPT ![p] = d]
  BY <1>4, <1>5, <1>6 DEF V!SetMaster
<1>8. /\ IsShape(d) /\ d.pc = x /\ d.op = c.op /\ d.name = c.name /\ d.value = c.value /\ d.key = k /\ d.then = c.then /\ d.row = c.row
      /\ d.todo = c.todo /\ d.got = c.got /\ d.for = c.for /\ d.copy = c.copy /\ d.text = c.text /\ d.shown = c.shown
  <2> HIDE DEF c
  <2>1. QED
    BY <1>2, <1>6 DEF IsShape
<1>9. PICK r : r = (past.raced \/ \E q \in Sessions \ {p} : command[q].pc = "generated")
  OBVIOUS
<1>10. past'.given = past.given /\ past'.masters = k /\ past'.raced = r /\ past'.overlapped = past.overlapped
      /\ past'.removed = past.removed /\ past'.binds = past.binds /\ past'.left = past.left /\ past'.meant = past.meant
      /\ past' = [given |-> past'.given, masters |-> past'.masters, raced |-> past'.raced, overlapped |-> past'.overlapped,
                  removed |-> past'.removed, binds |-> past'.binds, left |-> past'.left, meant |-> past'.meant]
  BY <1>4, <1>9 DEF V!SetMaster, VaultSound, Settled, PastSound
<1>11. past.masters \in Nat /\ k \in Nat /\ k # V!NoMaster /\ master' = k
  BY <1>3, <1>4 DEF VaultSound, Settled, PastSound, V!NoMaster
<1> HIDE DEF c
<1>12. (~r => ~past.raced /\ master = V!NoMaster) /\ (past.raced => r)
  BY <1>2, <1>3, <1>9 DEF CommandSound, UnderOneMaster
<1>13. DOMAIN command' = Sessions /\ command'[p] = d /\ \A q \in Sessions \ {p} : command'[q] = command[q]
  BY <1>7 DEF VaultSound, Settled
<1>14. Had' = Had /\ store' = store
  BY <1>3, <1>10 DEF Had, V!Stored
<1>15. Settled'
  <2>1. PastSound'
    BY <1>10, <1>11 DEF VaultSound, Settled, PastSound
  <2>2. V!NothingLeft' /\ V!AsMeant'
    BY <1>10, <1>12, <1>14 DEF VaultSound, Settled, V!NothingLeft, V!AsMeant
  <2>3. QED
    BY <1>11, <1>13, <2>1, <2>2 DEF Settled
<1>16. c.then \in {"begin", "put", "decrypt"}
  BY <1>2, <1>3 DEF CommandSound, OnItsWay
<1>17. SeedSound'
  <2>1. \A q \in Sessions : command'[q].pc = "manifest" => command[q].pc = "manifest" /\ command'[q] = command[q]
    BY <1>5, <1>8, <1>13, <1>16
  <2>2. (\A q \in Sessions : command'[q].pc # "manifest") => \A q \in Sessions : command[q].pc # "manifest"
    BY <1>3, <1>13 DEF c
  <2>3. QED
    BY <1>3, <1>10, <1>14, <2>1, <2>2 DEF VaultSound, SeedSound
<1>18. Apart'
  <2>1. \A q \in Sessions : command'[q].name = command[q].name /\ (Sealer(command'[q]) => Sealer(command[q]))
                           /\ (command'[q].pc \in Late => command[q].pc \in Late)
    BY <1>3, <1>5, <1>8, <1>13, <1>16 DEF Sealer, Late, c
  <2>2. QED
    BY <1>10, <2>1 DEF VaultSound, Apart
<1>19. AllSound(own)'
  <2>1. TableSound(own, store, r, past.given, k)
    BY <1>1, <1>12 DEF AllSound, TableSound
  <2>2. ASSUME NEW q \in Sessions
        PROVE  CommandSound(command'[q], own, past.given, r, past.overlapped, Had, k, store)
    <3>1. CASE q = p
      <4>1. IsCommand(d, own, past.given)
        BY <1>2, <1>5, <1>8, <1>11, <1>16 DEF CommandSound, IsCommand
      <4>2. OnItsWay(d, own, past.given)
        BY <1>2, <1>3, <1>5, <1>8, <1>16 DEF CommandSound, OnItsWay, AtSeed
      <4>3. UnderOneMaster(d, r, k)
        BY <1>2, <1>5, <1>8, <1>11, <1>12, <1>16 DEF CommandSound, UnderOneMaster
      <4>4. RowIsLast(d, past.overlapped, store)
        BY <1>2, <1>3, <1>5, <1>8, <1>16 DEF CommandSound, RowIsLast, Sealer
      <4>5. BindsKnown(d, Had)
        BY <1>2, <1>3, <1>5, <1>8, <1>16 DEF CommandSound, BindsKnown, Looking, AtSeed, Late
      <4>6. FindsAll(d, r, store)
        BY <1>2, <1>3, <1>5, <1>8, <1>12, <1>16 DEF CommandSound, FindsAll, Finds, Looking, AtSeed
      <4>7. QED
        BY <1>13, <3>1, <4>1, <4>2, <4>3, <4>4, <4>5, <4>6 DEF CommandSound
    <3>2. CASE q # p
      <4>1. CommandSound(command[q], own, past.given, past.raced, past.overlapped, Had, master, store)
        BY <1>1 DEF AllSound
      <4>2. ~r => command[q].pc # "generated"
        BY <1>9, <3>2
      <4>3. UnderOneMaster(command[q], r, k)
        BY <1>12, <4>1, <4>2 DEF CommandSound, UnderOneMaster
      <4>4. FindsAll(command[q], r, store)
        BY <1>12, <4>1 DEF CommandSound, FindsAll
      <4>5. QED
        BY <1>13, <3>2, <4>1, <4>3, <4>4 DEF CommandSound
    <3>3. QED
      BY <3>1, <3>2
  <2>3. QED
    BY <1>1, <1>3, <1>10, <1>11, <1>14, <2>1, <2>2 DEF AllSound
<1>20. QED
  BY <1>1, <1>15, <1>17, <1>18, <1>19 DEF VaultSound, AllSound

(* The others as a name gets another row: they are told, or it was not theirs. *)
ShownIs(d, c, s) == d = [c EXCEPT !.shown = s]

Told(c, s, n, rows1, rows2, o1, o2, h1, h2) ==
  /\ n \in V!Names /\ o1 \subseteq o2 /\ h1 \subseteq h2 /\ (\A l \in V!Names \ {n} : rows2[l] = rows1[l])
  /\ Sealer(c) /\ c.name = n => n \in o2
  /\ s \subseteq c.shown /\ \A v \in s : \E l \in V!Names : Has(rows2, l, v)

LEMMA OthersKeep ==
  ASSUME NEW c, NEW own, NEW i, NEW r, NEW o1, NEW o2, NEW h1, NEW h2, NEW m, NEW rows1, NEW rows2, NEW n, NEW s, NEW d,
         TableSound(own, rows1, r, i, m), TableSound(own, rows2, r, i, m), CommandSound(c, own, i, r, o1, h1, m, rows1),
         Told(c, s, n, rows1, rows2, o1, o2, h1, h2), ShownIs(d, c, s)
  PROVE  CommandSound(d, own, i, r, o2, h2, m, rows2) /\ d.pc = c.pc /\ d.name = c.name /\ d.copy = c.copy /\ (Sealer(d) <=> Sealer(c))
<1>0. /\ n \in V!Names /\ o1 \subseteq o2 /\ h1 \subseteq h2 /\ (\A l \in V!Names \ {n} : rows2[l] = rows1[l])
      /\ Sealer(c) /\ c.name = n => n \in o2
      /\ s \subseteq c.shown /\ \A v \in s : \E l \in V!Names : Has(rows2, l, v)
  BY DEF Told
<1>1. IsShape(c)
  BY DEF CommandSound, IsCommand
<1>2. /\ IsShape(d) /\ d.pc = c.pc /\ d.op = c.op /\ d.name = c.name /\ d.value = c.value /\ d.key = c.key /\ d.then = c.then
      /\ d.row = c.row /\ d.todo = c.todo /\ d.got = c.got /\ d.for = c.for /\ d.copy = c.copy /\ d.text = c.text /\ d.shown = s
  BY <1>1 DEF IsShape, ShownIs
<1>3. IsCommand(d, own, i)
  BY <1>2 DEF CommandSound, IsCommand
<1>4. OnItsWay(d, own, i) /\ UnderOneMaster(d, r, m)
  BY <1>2 DEF CommandSound, OnItsWay, UnderOneMaster
<1>5. RowIsLast(d, o2, rows2)
  <2>1. Sealer(d) => Sealer(c) /\ c.name \in V!Names
    BY <1>2 DEF Sealer, CommandSound, OnItsWay, V!Writes, Overwriting, AtSeed
  <2>2. QED
    BY <1>0, <1>2, <2>1 DEF RowIsLast, CommandSound
<1>6. BindsKnown(d, h2)
  BY <1>0, <1>2 DEF CommandSound, BindsKnown, Looking
<1>7. FindsAll(d, r, rows2)
  <2>1. SUFFICES ASSUME ~r, c.op = "scrub", Looking(c)
                 PROVE  s \subseteq c.text /\ \A v \in s : Finds(d, rows2, v)
    BY <1>2 DEF FindsAll, Looking
  <2>2. c.shown \subseteq c.text /\ \A v \in c.shown : Finds(c, rows1, v)
    BY <2>1 DEF CommandSound, FindsAll
  <2>3. \A j \in DOMAIN c.todo : c.todo[j] \in V!Names
    BY Todo DEF CommandSound, IsCommand
  <2>4. ASSUME NEW v \in s
        PROVE  Finds(d, rows2, v)
    <3>1. v \in c.shown /\ Finds(c, rows1, v)
      BY <1>0, <2>2, <2>4
    <3>2. PICK l \in V!Names : Has(rows2, l, v)
      BY <1>0, <2>4
    <3>3. \A k \in V!Names : Has(rows1, k, v) => own[v] = k
      BY DEF TableSound, Has
    <3>4. \A k \in V!Names : Has(rows2, k, v) => own[v] = k
      BY DEF TableSound, Has
    <3>5. \A k \in V!Names : Has(rows1, k, v) <=> Has(rows2, k, v)
      <4>1. PICK k \in V!Names : Has(rows1, k, v)
        BY <3>1 DEF Finds
      <4>2. k = l
        BY <3>2, <3>3, <3>4, <4>1
      <4>3. QED
        BY <3>2, <3>3, <3>4, <4>1, <4>2
    <3>6. v \in V!Values(c.got) \/ \E j \in DOMAIN c.todo : Has(rows2, c.todo[j], v)
      BY <2>3, <3>1, <3>5 DEF Finds
    <3>7. ASSUME c.then = "decrypt", c.pc # "read", Has(rows2, c.todo[1], v)
          PROVE  c.row.value = v
      <4>1. c.todo # <<>> /\ c.todo \in Todos
        BY <2>1, <3>7 DEF CommandSound, IsCommand, OnItsWay, Looking
      <4>2. c.todo[1] \in V!Names
        BY <4>1, Todo
      <4>3. QED
        BY <3>1, <3>5, <3>7, <4>2 DEF Finds
    <3>8. QED
      BY <1>2, <3>2, <3>6, <3>7 DEF Finds
  <2>5. QED
    BY <1>0, <2>2, <2>4
<1>8. QED
  BY <1>2, <1>3, <1>4, <1>5, <1>6, <1>7 DEF CommandSound, Sealer

(* A command that is no scrub may be shown anything.                         *)
LEMMA ShownOther ==
  ASSUME NEW c, NEW own, NEW i, NEW r, NEW o, NEW h, NEW m, NEW rows, CommandSound(c, own, i, r, o, h, m, rows), c.op # "scrub",
         NEW s, NEW d, d = [c EXCEPT !.shown = s]
  PROVE  CommandSound(d, own, i, r, o, h, m, rows) /\ d.pc = c.pc /\ d.copy = c.copy /\ (Sealer(d) <=> Sealer(c))
<1>1. IsShape(c)
  BY DEF CommandSound, IsCommand
<1>2. /\ IsShape(d) /\ d.pc = c.pc /\ d.op = c.op /\ d.name = c.name /\ d.value = c.value /\ d.key = c.key /\ d.then = c.then
      /\ d.row = c.row /\ d.todo = c.todo /\ d.got = c.got /\ d.for = c.for /\ d.copy = c.copy /\ d.text = c.text /\ d.shown = s
  BY <1>1 DEF IsShape
<1>3. IsCommand(d, own, i)
  BY <1>2 DEF CommandSound, IsCommand
<1>4. OnItsWay(d, own, i) /\ UnderOneMaster(d, r, m)
  BY <1>2 DEF CommandSound, OnItsWay, UnderOneMaster
<1>5. RowIsLast(d, o, rows) /\ BindsKnown(d, h) /\ FindsAll(d, r, rows)
  BY <1>2 DEF CommandSound, RowIsLast, Sealer, BindsKnown, Looking, FindsAll
<1>6. QED
  BY <1>2, <1>3, <1>4, <1>5 DEF CommandSound, Sealer

(* A name gets another row, or none, and all the commands are told.          *)
Overwrites(p, n, row, e) ==
  /\ store' = [store EXCEPT ![n] = row]
  /\ command' = V!Kept([command EXCEPT ![p] = e], store')
  /\ UNCHANGED <<master, seed, manifest, envelope>>
  /\ PastSound' /\ V!NothingLeft' /\ V!AsMeant'
  /\ past'.given = past.given /\ past'.raced = past.raced /\ past.overlapped \subseteq past'.overlapped
  /\ past.removed \subseteq past'.removed /\ past'.binds = past.binds
  /\ row = V!NoRow => n \in past'.removed

LEMMA OneOverwrites ==
  ASSUME VaultSound, NEW own, AllSound(own), NEW p \in Sessions, NEW n \in V!Names, NEW row, NEW e, Overwrites(p, n, row, e),
         row # V!NoRow => /\ IsRow(row) /\ row.value \in Fetched(past.given) /\ own[row.value] = n
                          /\ (~past.raced => row.key = master /\ master # V!NoMaster),
         \A q \in Sessions \ {p} : Sealer(command[q]) /\ command[q].name = n => n \in past'.overlapped,
         CommandSound(e, own, past.given, past.raced, past'.overlapped, Had', master, store'), e.op # "scrub",
         ~Sealer(e), e.pc \notin Late, command[p].pc # "manifest"
  PROVE  VaultSound'
<1>1. DOMAIN store = V!Names /\ DOMAIN store' = V!Names /\ store'[n] = row /\ \A l \in V!Names \ {n} : store'[l] = store[l]
  BY DEF AllSound, TableSound, Overwrites
<1>2. TableSound(own, store, past.raced, past.given, master) /\ TableSound(own, store', past.raced, past.given, master)
  <2>1. TableSound(own, store, past.raced, past.given, master)
    BY DEF AllSound
  <2>2. QED
    BY <1>1, <2>1 DEF TableSound
<1>3. Had \subseteq Had'
  BY <1>1 DEF Overwrites, Had, V!Stored
<1> DEFINE kept(c) == c.shown \cap {store'[l].value : l \in {k \in V!Names : store'[k] # V!NoRow}}
<1>4. DOMAIN command = Sessions
  BY DEF VaultSound, Settled
<1>5. DOMAIN command' = Sessions /\ command'[p] = [e EXCEPT !.shown = kept(e)]
      /\ \A q \in Sessions \ {p} : command'[q] = [command[q] EXCEPT !.shown = kept(command[q])]
  BY <1>4 DEF Overwrites, V!Kept
<1>6. /\ CommandSound(command'[p], own, past.given, past.raced, past'.overlapped, Had', master, store')
      /\ ~Sealer(command'[p]) /\ command'[p].pc \notin Late
  <2>1. PICK d : d = command'[p]
    OBVIOUS
  <2>2. PICK s : s = kept(e)
    OBVIOUS
  <2>3. d = [e EXCEPT !.shown = s]
    BY <1>5, <2>1, <2>2
  <2> HIDE DEF kept
  <2>4. QED
    BY <2>1, <2>3, ShownOther
<1>7. ASSUME NEW q \in Sessions \ {p}
      PROVE  /\ CommandSound(command'[q], own, past.given, past.raced, past'.overlapped, Had', master, store')
             /\ command'[q].pc = command[q].pc /\ command'[q].name = command[q].name /\ command'[q].copy = command[q].copy
             /\ (Sealer(command'[q]) <=> Sealer(command[q]))
  <2>0. PICK c : c = command[q]
    OBVIOUS
  <2>1. PICK d : d = command'[q]
    OBVIOUS
  <2>2. PICK s : s = kept(c)
    OBVIOUS
  <2>3. ShownIs(d, c, s)
    BY <1>5, <2>0, <2>1, <2>2 DEF ShownIs
  <2>4. CommandSound(c, own, past.given, past.raced, past.overlapped, Had, master, store)
    BY <2>0 DEF AllSound
  <2>5. PICK rows2 : rows2 = store'
    OBVIOUS
  <2>6. s \subseteq c.shown /\ \A v \in s : \E l \in V!Names : Has(rows2, l, v)
    BY <2>2, <2>5 DEF Has
  <2>7. PICK h2 : h2 = Had'
    OBVIOUS
  <2>8. PICK o2 : o2 = past'.overlapped
    OBVIOUS
  <2>9. past.overlapped \subseteq o2 /\ (Sealer(c) /\ c.name = n => n \in o2)
    BY <2>0, <2>8 DEF Overwrites
  <2> HIDE DEF kept
  <2>20. \A l \in V!Names \ {n} : rows2[l] = store[l]
    BY <1>1, <2>5
  <2>21. TableSound(own, store, past.raced, past.given, master) /\ TableSound(own, rows2, past.raced, past.given, master)
    BY <1>2, <2>5
  <2>22. Had \subseteq h2
    BY <1>3, <2>7
  <2>10. CommandSound(d, own, past.given, past.raced, o2, h2, master, rows2) /\ d.pc = c.pc /\ d.name = c.name /\ d.copy = c.copy
         /\ (Sealer(d) <=> Sealer(c))
    <3>1. Told(c, s, n, store, rows2, past.overlapped, o2, Had, h2)
      BY <2>6, <2>9, <2>20, <2>22 DEF Told
    <3>2. QED
      BY <2>3, <2>4, <2>21, <3>1, OthersKeep
  <2>11. QED
    BY <2>0, <2>1, <2>5, <2>7, <2>8, <2>10
<1>8. Settled'
  BY <1>5 DEF Settled, VaultSound, Overwrites
<1>9. SeedSound'
  <2>1. seed' = seed /\ manifest' = manifest /\ past'.binds = past.binds
    BY DEF Overwrites
  <2>2. \A q \in Sessions : command'[q].pc = "manifest" => q # p
    BY <1>6 DEF Late
  <2>3. \A q \in Sessions : command'[q].pc = "manifest" => command[q].pc = "manifest" /\ command'[q].copy = command[q].copy
    BY <1>7, <2>2
  <2>4. (\A q \in Sessions : command'[q].pc # "manifest") => \A q \in Sessions : command[q].pc # "manifest"
    BY <1>7
  <2>5. QED
    BY <1>3, <2>1, <2>3, <2>4 DEF VaultSound, SeedSound
<1>10. Apart'
  <2>1. (past'.binds => past.binds) /\ past.overlapped \subseteq past'.overlapped
    BY DEF Overwrites
  <2>2. \A q \in Sessions : /\ Sealer(command'[q]) => Sealer(command[q]) /\ command'[q].name = command[q].name
                            /\ command'[q].pc \in Late => command[q].pc \in Late
    BY <1>6, <1>7
  <2>3. ASSUME NEW q \in Sessions, NEW r \in Sessions, q # r
        PROVE  /\ Sealer(command'[q]) /\ Sealer(command'[r]) /\ command'[q].name = command'[r].name => command'[q].name \in past'.overlapped
               /\ past'.binds => ~(command'[q].pc \in Late /\ command'[r].pc \in Late)
    <3>1. /\ Sealer(command[q]) /\ Sealer(command[r]) /\ command[q].name = command[r].name => command[q].name \in past.overlapped
          /\ past.binds => ~(command[q].pc \in Late /\ command[r].pc \in Late)
      BY <2>3 DEF VaultSound, Apart
    <3>2. /\ Sealer(command'[q]) => Sealer(command[q]) /\ command'[q].name = command[q].name
          /\ Sealer(command'[r]) => Sealer(command[r]) /\ command'[r].name = command[r].name
          /\ command'[q].pc \in Late => command[q].pc \in Late
          /\ command'[r].pc \in Late => command[r].pc \in Late
      BY <2>2
    <3>3. Sealer(command'[q]) /\ Sealer(command'[r]) /\ command'[q].name = command'[r].name => command'[q].name \in past'.overlapped
      BY <2>1, <3>1, <3>2
    <3>4. past'.binds => ~(command'[q].pc \in Late /\ command'[r].pc \in Late)
      BY <2>1, <3>1, <3>2
    <3>5. QED
      BY <3>3, <3>4
  <2>4. QED
    BY <2>3 DEF Apart
<1>11. AllSound(own)'
  <2>1. \A q \in Sessions : CommandSound(command'[q], own, past.given, past.raced, past'.overlapped, Had', master, store')
    BY <1>6, <1>7
  <2>2. master' = master /\ envelope' = envelope /\ past'.given = past.given /\ past'.raced = past.raced
    BY DEF Overwrites
  <2>3. QED
    BY <1>2, <2>1, <2>2 DEF AllSound
<1>12. QED
  BY <1>8, <1>9, <1>10, <1>11 DEF VaultSound, AllSound

LEMMA SameButKey ==
  ASSUME NEW a, IsRow(a), NEW k, NEW b, b = [a EXCEPT !.key = k]
  PROVE  b.created = a.created /\ b.rotated = a.rotated /\ b.value = a.value
<1>1. a = [is |-> "row", value |-> a.value, key |-> a.key, created |-> a.created, rotated |-> a.rotated]
  BY DEF IsRow
<1>2. QED
  BY <1>1

(* Where a command goes on after it sealed a value.                          *)
LEMMA AfterPutIs ==
  ASSUME VaultSound, NEW own, AllSound(own), NEW p \in Sessions, command[p].pc = "put", NEW h, command[p].name \in h, NEW rows,
         Had \subseteq h
  PROVE  \E e : /\ V!AfterPut(p) = [command EXCEPT ![p] = e]
                /\ CommandSound(e, own, past.given, past.raced, past.overlapped, h, master, rows)
                /\ e.op # "scrub" /\ ~Sealer(e) /\ e.pc \notin Late
<1> DEFINE c == command[p]
<1>1. CommandSound(c, own, past.given, past.raced, past.overlapped, Had, master, store) /\ IsShape(c)
  BY DEF AllSound, CommandSound, IsCommand
<1>2. c.pc = "put" /\ c.then = "put" /\ c.op \in Overwriting
  BY <1>1 DEF CommandSound, OnItsWay
<1>3. CASE c.op = "import" /\ Tail(c.todo) # <<>>
  <2> DEFINE rest == Tail(c.todo)
  <2>1. PICK n : n = Head(rest)
    OBVIOUS
  <2>2. PICK v : v = c.got[n]
    OBVIOUS
  <2>3. PICK t : t = rest
    OBVIOUS
  <2>4. PICK d : d = [c EXCEPT !.pc = "begin", !.then = "begin", !.todo = t, !.name = n, !.value = v]
    OBVIOUS
  <2>5. V!AfterPut(p) = [command EXCEPT ![p] = d]
    BY <1>3, <2>1, <2>2, <2>3, <2>4 DEF V!AfterPut
  <2>6. /\ IsShape(d) /\ d.pc = "begin" /\ d.op = c.op /\ d.name = n /\ d.value = v /\ d.key = c.key /\ d.then = "begin" /\ d.row = c.row
      /\ d.todo = t /\ d.got = c.got /\ d.for = c.for /\ d.copy = c.copy /\ d.text = c.text /\ d.shown = c.shown
    <3> HIDE DEF c
    <3>1. QED
      BY <1>1, <2>4 DEF IsShape
  <2> HIDE DEF c, rest
  <2>7. c.todo # <<>> /\ c.todo \in Todos /\ (\A i \in DOMAIN c.todo : c.todo[i] \in DOMAIN c.got) /\ IsTable(c.got, own, past.given)
    BY <1>1, <1>2, <1>3 DEF CommandSound, IsCommand, OnItsWay
  <2>8. t \in Todos /\ t # <<>> /\ \A i \in DOMAIN t : t[i] \in DOMAIN c.got
    BY <1>3, <2>3, <2>7, Todo DEF rest
  <2>9. n \in DOMAIN c.got
    BY <2>1, <2>3, <2>8, Todo
  <2>10. n \in V!Names /\ v \in Fetched(past.given) /\ own[v] = n
    BY <2>2, <2>7, <2>9 DEF IsTable
  <2>11. CommandSound(d, own, past.given, past.raced, past.overlapped, h, master, rows)
    <3>1. IsCommand(d, own, past.given)
      BY <1>1, <1>3, <2>6, <2>8 DEF CommandSound, IsCommand
    <3>2. OnItsWay(d, own, past.given)
      BY <1>3, <2>6, <2>8, <2>10 DEF OnItsWay, AtSeed, Overwriting, Reading
    <3>3. UnderOneMaster(d, past.raced, master)
      BY <1>1, <2>6 DEF CommandSound, UnderOneMaster
    <3>4. RowIsLast(d, past.overlapped, rows) /\ BindsKnown(d, h) /\ FindsAll(d, past.raced, rows)
      BY <1>3, <2>6 DEF RowIsLast, Sealer, BindsKnown, FindsAll, Looking, AtSeed, Late
    <3>5. QED
      BY <3>1, <3>2, <3>3, <3>4 DEF CommandSound
  <2>12. d.op # "scrub" /\ ~Sealer(d) /\ d.pc \notin Late
    BY <1>3, <2>6 DEF Sealer, Late
  <2>13. QED
    BY <2>5, <2>11, <2>12
<1>4. CASE c.op = "bindSet"
  <2>1. PICK d : d = [c EXCEPT !.pc = "seedRead", !.then = "none"]
    OBVIOUS
  <2>2. V!AfterPut(p) = [command EXCEPT ![p] = d]
    BY <1>4, <2>1 DEF V!AfterPut
  <2>3. /\ IsShape(d) /\ d.pc = "seedRead" /\ d.op = c.op /\ d.name = c.name /\ d.value = c.value /\ d.key = c.key /\ d.then = "none" /\ d.row = c.row
      /\ d.todo = c.todo /\ d.got = c.got /\ d.for = c.for /\ d.copy = c.copy /\ d.text = c.text /\ d.shown = c.shown
    <3> HIDE DEF c
    <3>1. QED
      BY <1>1, <2>1 DEF IsShape
  <2>4. c.name \in h
    OBVIOUS
  <2> HIDE DEF c
  <2>5. CommandSound(d, own, past.given, past.raced, past.overlapped, h, master, rows)
    <3>1. IsCommand(d, own, past.given)
      BY <1>1, <1>4, <2>3 DEF CommandSound, IsCommand, AtSeed
    <3>2. OnItsWay(d, own, past.given)
      BY <1>4, <2>3 DEF OnItsWay, AtSeed, Overwriting, Reading
    <3>3. UnderOneMaster(d, past.raced, master)
      BY <1>1, <2>3 DEF CommandSound, UnderOneMaster
    <3>4. RowIsLast(d, past.overlapped, rows) /\ BindsKnown(d, h) /\ FindsAll(d, past.raced, rows)
      BY <1>4, <2>3, <2>4 DEF RowIsLast, Sealer, BindsKnown, FindsAll, Looking, AtSeed, Late
    <3>5. QED
      BY <3>1, <3>2, <3>3, <3>4 DEF CommandSound
  <2>6. d.op # "scrub" /\ ~Sealer(d) /\ d.pc \notin Late
    BY <1>4, <2>3 DEF Sealer, Late
  <2>7. QED
    BY <2>2, <2>5, <2>6
<1>5. CASE ~(c.op = "import" /\ Tail(c.todo) # <<>>) /\ c.op # "bindSet"
  <2>1. V!AfterPut(p) = [command EXCEPT ![p] = V!AtRest]
    BY <1>5 DEF V!AfterPut
  <2>2. CommandSound(V!AtRest, own, past.given, past.raced, past.overlapped, h, master, rows)
    BY RestIsSound
  <2>3. V!AtRest.op # "scrub" /\ ~Sealer(V!AtRest) /\ V!AtRest.pc \notin Late
    BY DEF V!AtRest, Sealer, Late
  <2>4. QED
    BY <2>1, <2>2, <2>3
<1>6. QED
  BY <1>3, <1>4, <1>5

LEMMA PutKeeps ==
  ASSUME VaultSound, NEW p \in Sessions, V!Put(p)
  PROVE  VaultSound'
<1> DEFINE c == command[p]
           n == c.name
<1>1. PICK own : AllSound(own)
  BY DEF VaultSound
<1>2. CommandSound(c, own, past.given, past.raced, past.overlapped, Had, master, store)
  BY <1>1 DEF AllSound
<1>3. c.pc = "put" /\ UNCHANGED <<master, seed, manifest, envelope>>
  BY DEF V!Put
<1>4. PICK was : was = c.row
  OBVIOUS
<1>5. PICK meant : meant = past.meant[n]
  OBVIOUS
<1>6. PICK cr : cr = IF was = V!NoRow THEN c.value ELSE was.created
  OBVIOUS
<1>7. PICK ro : ro = (c.op = "rotate" \/ (was # V!NoRow /\ was.rotated))
  OBVIOUS
<1>8. PICK cm : cm = IF meant = V!NoRow THEN c.value ELSE meant.created
  OBVIOUS
<1>9. PICK rm : rm = (c.op = "rotate" \/ (meant # V!NoRow /\ meant.rotated))
  OBVIOUS
<1>10. PICK row : row = V!Row(c.value, c.key, cr, ro)
  OBVIOUS
<1>11. PICK now : now = V!Row(c.value, V!NoMaster, cm, rm)
  OBVIOUS
<1>12. store' = [store EXCEPT ![n] = row]
  BY <1>4, <1>6, <1>7, <1>10 DEF V!Put, V!Sealed
<1>13. past' = [past EXCEPT !.meant[n] = now]
  BY <1>5, <1>8, <1>9, <1>11 DEF V!Put
<1>14. command' = V!Kept(V!AfterPut(p), store')
  BY DEF V!Put
<1>15. past' = [past EXCEPT !.meant = [past.meant EXCEPT ![n] = now]]
  BY <1>13
<1>16. PICK all : all = [past.meant EXCEPT ![n] = now]
  OBVIOUS
<1> HIDE DEF c
<1>17. past'.given = past.given /\ past'.masters = past.masters /\ past'.raced = past.raced /\ past'.overlapped = past.overlapped
      /\ past'.removed = past.removed /\ past'.binds = past.binds /\ past'.left = past.left /\ past'.meant = all
      /\ past' = [given |-> past'.given, masters |-> past'.masters, raced |-> past'.raced, overlapped |-> past'.overlapped,
                  removed |-> past'.removed, binds |-> past'.binds, left |-> past'.left, meant |-> past'.meant]
  BY <1>15, <1>16 DEF VaultSound, Settled, PastSound
<1>18. c.then = "put" /\ c.op \in Overwriting /\ n \in V!Names /\ c.value \in Fetched(past.given) /\ own[c.value] = n /\ Sealer(c)
  BY <1>2, <1>3 DEF CommandSound, OnItsWay, AtSeed, Sealer, V!Writes, Overwriting
<1>19. c.key \in Nat /\ (~past.raced => c.key = master /\ master # V!NoMaster) /\ (was # V!NoRow => IsRow(was))
  BY <1>2, <1>3, <1>4 DEF CommandSound, IsCommand, UnderOneMaster
<1>20. DOMAIN store = V!Names /\ DOMAIN past.meant = V!Names /\ (\A l \in V!Names : past.meant[l] # V!NoRow => IsRow(past.meant[l]))
  BY <1>1 DEF AllSound, TableSound, VaultSound, Settled, PastSound
<1>21. row.is = "row" /\ row.value = c.value /\ row.key = c.key /\ row.rotated = ro
       /\ row = [is |-> "row", value |-> row.value, key |-> row.key, created |-> row.created, rotated |-> row.rotated]
       /\ [row EXCEPT !.key = V!NoMaster] = V!Row(c.value, V!NoMaster, cr, ro)
  BY <1>10 DEF V!Row
<1>22. now.is = "row" /\ now.value = c.value /\ now.key = V!NoMaster /\ now.rotated = rm
       /\ now = [is |-> "row", value |-> now.value, key |-> now.key, created |-> now.created, rotated |-> now.rotated]
  BY <1>11 DEF V!Row
<1>23. row # V!NoRow /\ now # V!NoRow
  BY <1>21, <1>22 DEF V!NoRow
<1>24. ro \in BOOLEAN /\ rm \in BOOLEAN
  BY <1>7, <1>9
<1>25. IsRow(row) /\ IsRow(now)
  BY <1>18, <1>19, <1>21, <1>22, <1>24 DEF IsRow, Fetched, V!NoMaster
<1>26. V!AsMeant'
  <2>1. \A l \in V!Names \ {n} : store'[l] = store[l] /\ past'.meant[l] = past.meant[l]
    BY <1>12, <1>16, <1>17, <1>20
  <2>2. store'[n] = row /\ past'.meant[n] = now
    BY <1>12, <1>16, <1>17, <1>18, <1>20
  <2>3. ASSUME n \notin past.overlapped
        PROVE  cr = cm /\ ro = rm
    <3>1. was = store[n]
      BY <1>2, <1>4, <1>18, <2>3 DEF CommandSound, RowIsLast
    <3>2. CASE meant = V!NoRow
      <4>1. store[n] = V!NoRow
        BY <1>5, <1>18, <2>3, <3>2 DEF VaultSound, Settled, V!AsMeant
      <4>2. QED
        BY <1>6, <1>7, <1>8, <1>9, <3>1, <3>2, <4>1
    <3>3. CASE meant # V!NoRow
      <4>1. store[n] # V!NoRow /\ [store[n] EXCEPT !.key = V!NoMaster] = meant
        BY <1>5, <1>18, <2>3, <3>3 DEF VaultSound, Settled, V!AsMeant
      <4>2. meant.created = was.created /\ meant.rotated = was.rotated
        BY <1>19, <3>1, <4>1, SameButKey
      <4>3. cr = cm
        BY <1>6, <1>8, <3>1, <3>3, <4>1, <4>2
      <4>4. ro = rm
        BY <1>7, <1>9, <3>1, <3>3, <4>1, <4>2
      <4>5. QED
        BY <4>3, <4>4
    <3>4. QED
      BY <3>2, <3>3
  <2>4. n \notin past.overlapped => [row EXCEPT !.key = V!NoMaster] = now
    BY <1>11, <1>21, <2>3
  <2>5. ASSUME NEW l \in V!Names \ past'.overlapped
        PROVE  IF past'.meant[l] = V!NoRow THEN store'[l] = V!NoRow
               ELSE store'[l] # V!NoRow /\ [store'[l] EXCEPT !.key = V!NoMaster] = past'.meant[l]
    <3>1. CASE l = n
      BY <1>17, <1>23, <2>2, <2>4, <2>5, <3>1
    <3>2. CASE l # n
      BY <1>17, <2>1, <2>5, <3>2 DEF VaultSound, Settled, V!AsMeant
    <3>3. QED
      BY <3>1, <3>2
  <2>6. QED
    BY <2>5 DEF V!AsMeant
<1>27. PastSound'
  BY <1>16, <1>17, <1>18, <1>20, <1>25 DEF VaultSound, Settled, PastSound
<1>28. V!NothingLeft'
  BY <1>17 DEF VaultSound, Settled, V!NothingLeft
<1>29. Had \subseteq Had' /\ n \in Had'
  BY <1>12, <1>17, <1>18, <1>20, <1>23 DEF Had, V!Stored
<1>30. PICK e : /\ V!AfterPut(p) = [command EXCEPT ![p] = e]
               /\ CommandSound(e, own, past.given, past.raced, past.overlapped, Had', master, store')
               /\ e.op # "scrub" /\ ~Sealer(e) /\ e.pc \notin Late
  <2>1. PICK h : h = Had'
    OBVIOUS
  <2>2. PICK rows : rows = store'
    OBVIOUS
  <2>3. command[p].pc = "put" /\ command[p].name \in h /\ Had \subseteq h
    BY <1>3, <1>29, <2>1 DEF c
  <2>4. QED
    BY <1>1, <2>1, <2>2, <2>3, AfterPutIs
<1>31. Overwrites(p, n, row, e)
  BY <1>3, <1>12, <1>14, <1>17, <1>23, <1>26, <1>27, <1>28, <1>30, VaultAssumption DEF Overwrites
<1>32. \A q \in Sessions \ {p} : Sealer(command[q]) /\ command[q].name = n => n \in past'.overlapped
  BY <1>17, <1>18 DEF VaultSound, Apart, c
<1>33. command[p].pc # "manifest"
  BY <1>3 DEF c
<1>34. CommandSound(e, own, past.given, past.raced, past'.overlapped, Had', master, store')
  BY <1>17, <1>30
<1>35. QED
  BY <1>1, <1>18, <1>19, <1>21, <1>25, <1>30, <1>31, <1>32, <1>33, <1>34, OneOverwrites

LEMMA rmKeeps ==
  ASSUME VaultSound, NEW p \in Sessions, V!rm(p)
  PROVE  VaultSound'
<1> DEFINE c == command[p]
           n == c.name
<1>1. PICK own : AllSound(own)
  BY DEF VaultSound
<1>2. CommandSound(c, own, past.given, past.raced, past.overlapped, Had, master, store)
  BY <1>1 DEF AllSound
<1>3. c.pc = "begin" /\ c.op = "rm" /\ UNCHANGED <<master, seed, manifest, envelope>> /\ store' = [store EXCEPT ![n] = V!NoRow]
      /\ command' = V!Kept([command EXCEPT ![p] = V!AtRest], store')
  BY DEF V!rm
<1>4. PICK u : u = past.removed \cup {n}
  OBVIOUS
<1>5. PICK o : o = past.overlapped \cup (IF V!Sealing(n) = {} THEN {} ELSE {n})
  OBVIOUS
<1>6. past' = [past EXCEPT !.meant = [past.meant EXCEPT ![n] = V!NoRow], !.removed = u, !.overlapped = o]
  BY <1>4, <1>5 DEF V!rm
<1>7. PICK all : all = [past.meant EXCEPT ![n] = V!NoRow]
  OBVIOUS
<1>8. \A q \in Sessions \ {p} : Sealer(command[q]) /\ command[q].name = n => n \in o
  BY <1>5 DEF V!Sealing, Sealer
<1>9. past.overlapped \subseteq o /\ past.removed \subseteq u /\ n \in u
  BY <1>4, <1>5
<1> HIDE DEF c
<1>10. past'.given = past.given /\ past'.masters = past.masters /\ past'.raced = past.raced /\ past'.overlapped = o
      /\ past'.removed = u /\ past'.binds = past.binds /\ past'.left = past.left /\ past'.meant = all
      /\ past' = [given |-> past'.given, masters |-> past'.masters, raced |-> past'.raced, overlapped |-> past'.overlapped,
                  removed |-> past'.removed, binds |-> past'.binds, left |-> past'.left, meant |-> past'.meant]
  BY <1>6, <1>7 DEF VaultSound, Settled, PastSound
<1>11. n \in V!Names
  BY <1>2, <1>3 DEF CommandSound, IsCommand
<1>12. DOMAIN store = V!Names /\ DOMAIN past.meant = V!Names /\ (\A l \in V!Names : past.meant[l] # V!NoRow => IsRow(past.meant[l]))
  BY <1>1 DEF AllSound, TableSound, VaultSound, Settled, PastSound
<1>13. store'[n] = V!NoRow /\ past'.meant[n] = V!NoRow /\ \A l \in V!Names \ {n} : store'[l] = store[l] /\ past'.meant[l] = past.meant[l]
  BY <1>3, <1>7, <1>10, <1>11, <1>12
<1>14. V!AsMeant'
  BY <1>9, <1>10, <1>13 DEF VaultSound, Settled, V!AsMeant
<1>15. PastSound'
  BY <1>7, <1>10, <1>12, <1>13 DEF VaultSound, Settled, PastSound
<1>16. V!NothingLeft'
  BY <1>10 DEF VaultSound, Settled, V!NothingLeft
<1>17. Overwrites(p, n, V!NoRow, V!AtRest)
  BY <1>3, <1>9, <1>10, <1>14, <1>15, <1>16 DEF Overwrites
<1>18. CommandSound(V!AtRest, own, past.given, past.raced, past'.overlapped, Had', master, store')
  <2>1. PICK x : x = past'.overlapped
    OBVIOUS
  <2>2. PICK h : h = Had'
    OBVIOUS
  <2>3. PICK rows : rows = store'
    OBVIOUS
  <2>4. QED
    BY <2>1, <2>2, <2>3, RestIsSound
<1>19. V!AtRest.op # "scrub" /\ ~Sealer(V!AtRest) /\ V!AtRest.pc \notin Late
  BY DEF V!AtRest, Sealer, Late
<1>20. \A q \in Sessions \ {p} : Sealer(command[q]) /\ command[q].name = n => n \in past'.overlapped
  BY <1>8, <1>10
<1>21. command[p].pc # "manifest"
  BY <1>3 DEF c
<1>22. QED
  BY <1>1, <1>11, <1>17, <1>18, <1>19, <1>20, <1>21, OneOverwrites

LEMMA VaultNext == VaultHolds /\ [Next]_vars => VaultHolds'
<1> SUFFICES ASSUME VaultHolds, [Next]_vars, which = "vault", which' = which
             PROVE  VaultSound'
  BY DEF VaultHolds, Next, vars
<1>1. VaultSound
  BY DEF VaultHolds
<1>2. V!Next \/ UNCHANGED vaultVars
  BY DEF Next, vars
<1>3. CASE UNCHANGED vaultVars
  BY <1>1, <1>3 DEF vaultVars, VaultSound, Settled, PastSound, V!AsMeant, V!NothingLeft, SeedSound, Apart, AllSound, Had, V!Stored
<1>4. CASE \E p \in Sessions :
            \/ V!Begin(p) \/ V!GetMaster(p) \/ V!SetMaster(p) \/ V!Load(p) \/ V!Put(p) \/ V!rm(p)
            \/ V!List(p) \/ V!Unpack(p) \/ V!ReadRow(p) \/ V!Decrypt(p) \/ V!exportVault(p) \/ V!scrubFile(p)
            \/ V!BindReady(p) \/ V!ReadSeed(p) \/ V!TruncateSeed(p) \/ V!WriteSeed(p) \/ V!WriteManifest(p) \/ V!Crash(p)
  BY <1>1, <1>4, BeginKeeps, GetMasterKeeps, SetMasterKeeps, LoadKeeps, PutKeeps, rmKeeps, ListKeeps, UnpackKeeps, ReadRowKeeps,
     DecryptKeeps, exportVaultKeeps, scrubFileKeeps, BindReadyKeeps, ReadSeedKeeps, TruncateSeedKeeps, WriteSeedKeeps,
     WriteManifestKeeps, CrashKeeps
<1>5. CASE V!Show
  BY <1>1, <1>5, ShowKeeps
<1>6. QED
  BY <1>2, <1>3, <1>4, <1>5 DEF V!Next

(* Whatever sessions do at once, the vault holds what was set last under its   *)
(* one master, binds agree with the seed, and a scrub leaves nothing it was    *)
(* shown (vault/vault.ts:60, bind.ts:53, scrub.ts:106).                        *)
THEOREM VaultHoldsSecrets == Spec => []SecretsHold
<1>1. VaultHolds => SecretsHold
  <2>1. SUFFICES ASSUME VaultSound
                 PROVE  V!SecretsHold
    BY DEF VaultHolds, SecretsHold
  <2>2. PICK own : AllSound(own)
    BY <2>1 DEF VaultSound
  <2>3. V!Readable
    BY <2>2 DEF AllSound, TableSound, V!Readable, V!Stored
  <2>4. V!BoundRight
    <3>1. SUFFICES ASSUME past.binds, V!Binding = {}
                   PROVE  /\ seed = manifest
                          /\ seed.bound <=> Placeholders \subseteq DOMAIN seed.bindings
                          /\ V!Values(seed.bindings) \subseteq V!Stored \cup past.removed
      BY DEF V!BoundRight
    <3>2. \A p \in Sessions : command[p].pc # "manifest"
      BY <3>1 DEF V!Binding
    <3>3. seed = manifest /\ seed = V!Json(seed.bindings, V!secretsBound(seed.bindings)) /\ V!Values(seed.bindings) \subseteq Had
      BY <2>1, <3>1, <3>2 DEF VaultSound, SeedSound
    <3>4. seed.bound = V!secretsBound(seed.bindings)
      BY <3>3 DEF V!Json
    <3>5. QED
      BY <3>3, <3>4 DEF V!secretsBound, Had
  <2>5. QED
    BY <2>1, <2>3, <2>4 DEF VaultSound, Settled, V!SecretsHold
<1>2. QED
  BY <1>1, VaultInit, VaultNext, PTL DEF Spec

-----------------------------------------------------------------------------
(* Mining.                                                                  *)

(* Numbers of a run's seeds.                                                *)
SeedNumbers == 0 .. M!Cardinality(Scripts)
Row == [run : Runs, kind : {"seed", "published"}, n : Nat, script : Scripts \cup {"none"},
        round : Nat, landed : BOOLEAN]

(* A seed's row is of a round that its run has had, and while the seeding of *)
(* that round goes on its number has been given; its file says what it says, *)
(* or is of a later round.                                                  *)
RowTells(row) ==
  row.kind = "seed" =>
    /\ row.n \in SeedNumbers /\ row.round <= round[row.run]
    /\ seeding # M!NoSeeding /\ seeding.run = row.run /\ row.round = round[row.run] => row.n < seeding.n
    /\ \/ seeds[<<row.run, row.n>>].script = row.script
       \/ seeds[<<row.run, row.n>>].round > row.round

(* A seeding has numbers left for the scripts to come.                      *)
SeedingSound ==
  seeding # M!NoSeeding =>
    /\ seeding.run \in Runs /\ seeding.n \in Nat
    /\ seeding.todo \in Seq(Scripts)
    /\ seeding.n + Len(seeding.todo) <= M!Cardinality(Scripts)

(* What a landing read is still the beginning of the inbox.                 *)
StampSound ==
  stamp # M!NoStamp =>
    /\ stamp.run \in Runs /\ stamp.rows \in Seq(Row)
    /\ Len(stamp.rows) <= Len(inbox)
    /\ \A i \in 1 .. Len(stamp.rows) : stamp.rows[i] = inbox[i]

MiningSound ==
  /\ round \in [Runs -> Nat]
  /\ inbox \in Seq(Row)
  /\ seeds \in [Runs \X SeedNumbers -> [script : Scripts \cup {"none"}, round : Nat]]
  /\ \A i \in 1 .. Len(inbox) : RowTells(inbox[i])
  /\ SeedingSound /\ StampSound /\ M!CandidateRecurs

MiningHolds == which = "mining" => MiningSound

LEMMA CountedAlike == \A set : M!Cardinality(set) = Cardinality(set)
  BY DEF M!Cardinality, Cardinality

LEMMA ScriptsCounted == M!Cardinality(Scripts) \in Nat
  BY CountedAlike, ScriptsAssumption, FS_CardinalityType

(* A row of every script found, each once.                                  *)
LEMMA SeedsFound ==
  ASSUME NEW made, DOMAIN made = Scripts
  PROVE  M!detectSeeds(made) \in Seq(Scripts) /\ Len(M!detectSeeds(made)) <= M!Cardinality(Scripts)
<1>1. PICK found : found = {s \in DOMAIN made : made[s] \in {"ran", "declared"}}
  OBVIOUS
<1>2. found \in SUBSET Scripts
  BY <1>1
<1>3. IsFiniteSet(found) /\ Cardinality(found) <= Cardinality(Scripts)
  BY <1>2, ScriptsAssumption, FS_Subset
<1>4. Cardinality(found) \in Nat /\ ExistsBijection(1 .. Cardinality(found), found)
  BY <1>3, FS_CardinalityType
<1>5. PICK n \in Nat : n = M!Cardinality(found)
  BY <1>4, CountedAlike
<1>6. \E f \in [1 .. n -> found] : M!IsInjective(f)
  BY <1>4, <1>5, CountedAlike DEF ExistsBijection, Bijection, Injection, IsInjective, M!IsInjective
<1>7. M!detectSeeds(made) \in [1 .. n -> found]
  BY <1>1, <1>5, <1>6 DEF M!detectSeeds
<1>8. M!detectSeeds(made) \in Seq(found) /\ Len(M!detectSeeds(made)) = n
  BY <1>7
<1>9. QED
  BY <1>2, <1>3, <1>5, <1>8, CountedAlike

LEMMA MiningStarts == M!Init => MiningSound
<1> SUFFICES ASSUME M!Init PROVE MiningSound
  OBVIOUS
<1>1. seeding = M!NoSeeding /\ stamp = M!NoStamp /\ inbox = <<>> /\ candidates = {}
  BY DEF M!Init
<1>2. round \in [Runs -> Nat]
  BY DEF M!Init
<1>3. seeds \in [Runs \X SeedNumbers -> [script : Scripts \cup {"none"}, round : Nat]]
  BY DEF M!Init, SeedNumbers
<1>4. inbox \in Seq(Row) /\ Len(inbox) = 0
  BY <1>1
<1>5. QED
  BY <1>1, <1>2, <1>3, <1>4 DEF MiningSound, SeedingSound, StampSound, M!CandidateRecurs

(* A candidate's runs are no more than its rows.                            *)
LEMMA scanKeeps ==
  ASSUME MiningSound, M!scanCodify
  PROVE  M!CandidateRecurs'
<1> DEFINE mined == M!clusterExecutions
<1>1. IsFiniteSet(DOMAIN inbox)
  BY FS_Interval DEF MiningSound
<1>2. ASSUME NEW sig \in DOMAIN mined
      PROVE  mined[sig] \in SUBSET DOMAIN inbox
  BY <1>2 DEF M!clusterExecutions
<1>3. ASSUME NEW sig \in DOMAIN mined, M!toCandidate(mined[sig]), M!HeadShape(mined[sig]) = "none"
      PROVE  \/ M!Cardinality({inbox[i].run : i \in mined[sig]}) >= MinRecurrence
             \/ M!Cardinality(mined[sig]) > M!Cardinality({inbox[i].run : i \in mined[sig]})
  <2>1. PICK spots : spots = mined[sig]
    OBVIOUS
  <2>2. IsFiniteSet(spots)
    BY <1>1, <1>2, <2>1, FS_Subset
  <2>3. PICK its : its = {inbox[i].run : i \in spots}
    OBVIOUS
  <2>4. [i \in spots |-> inbox[i].run] \in Surjection(spots, its)
    BY <2>3 DEF Surjection
  <2>5. IsFiniteSet(its) /\ Cardinality(its) <= Cardinality(spots)
    BY <2>2, <2>4, FS_Surjection
  <2>6. Cardinality(its) \in Nat /\ Cardinality(spots) \in Nat
    BY <2>2, <2>5, FS_CardinalityType
  <2>7. M!Cardinality(spots) >= MinRecurrence
    BY <1>3, <2>1 DEF M!toCandidate
  <2>8. Cardinality(its) >= MinRecurrence \/ Cardinality(spots) > Cardinality(its)
    BY <2>5, <2>6, <2>7, CountedAlike
  <2>9. QED
    BY <2>1, <2>3, <2>8, CountedAlike
<1>4. ASSUME NEW c \in candidates', c.shape = "none"
      PROVE  M!Cardinality(c.runs) >= MinRecurrence \/ c.rows > M!Cardinality(c.runs)
  <2>1. PICK sig \in DOMAIN mined :
          /\ M!toCandidate(mined[sig])
          /\ c = [signature |-> sig, runs |-> {inbox[i].run : i \in mined[sig]},
                  rows |-> M!Cardinality(mined[sig]), shape |-> M!HeadShape(mined[sig])]
    BY <1>4 DEF M!scanCodify
  <2> HIDE DEF mined
  <2>2. QED
    BY <1>3, <1>4, <2>1
<1>5. QED
  BY <1>4 DEF M!CandidateRecurs

LEMMA MinedRow ==
  ASSUME MiningSound, NEW i \in 1 .. Len(inbox)
  PROVE  inbox[i] \in Row /\ RowTells(inbox[i])
  BY DEF MiningSound

(* Rows stay true when files do, and a seeding ends or goes on.             *)
LEMMA RowsAsBefore ==
  ASSUME MiningSound, seeds' = seeds, round' = round, seeding' = seeding \/ seeding' = M!NoSeeding,
         NEW row, RowTells(row)
  PROVE  RowTells(row)'
  BY DEF RowTells

(* Stamping a row changes nothing that it tells.                            *)
LEMMA StampedTells ==
  ASSUME NEW row \in Row, NEW x \in BOOLEAN, RowTells(row)
  PROVE  /\ RowTells([row EXCEPT !.landed = x])
         /\ [row EXCEPT !.landed = x] \in Row
         /\ M!Plain([row EXCEPT !.landed = x]) = M!Plain(row)
<1>1. PICK stamped : stamped = [row EXCEPT !.landed = x]
  OBVIOUS
<1>2. stamped.run = row.run /\ stamped.kind = row.kind /\ stamped.n = row.n /\ stamped.script = row.script /\ stamped.round = row.round
  BY <1>1 DEF Row
<1>3. stamped \in Row
  BY <1>1 DEF Row
<1>4. M!Plain(stamped) = M!Plain(row)
  BY <1>1 DEF M!Plain, Row
<1>5. RowTells(stamped)
  BY <1>2 DEF RowTells
<1>6. QED
  BY <1>1, <1>3, <1>4, <1>5

LEMMA NoCandidates == candidates' = {} => M!CandidateRecurs'
  BY DEF M!CandidateRecurs

LEMMA LeftAlone ==
  ASSUME MiningSound, UNCHANGED <<round, seeding, seeds, inbox, stamp>>, M!CandidateRecurs'
  PROVE  MiningSound'
<1>1. \A i \in 1 .. Len(inbox) : RowTells(inbox[i])'
  BY RowsAsBefore DEF MiningSound
<1>2. SeedingSound' /\ StampSound'
  BY DEF MiningSound, SeedingSound, StampSound
<1>3. QED
  BY <1>1, <1>2 DEF MiningSound

LEMMA seedKeeps ==
  ASSUME MiningSound, NEW r \in Runs, M!seedAfterWriterStage(r), candidates' = {}
  PROVE  MiningSound'
<1>1. PICK made \in [Scripts -> {"absent", "made", "ran", "declared"}] :
        seeding' = [run |-> r, todo |-> M!detectSeeds(made), n |-> 0]
  BY DEF M!seedAfterWriterStage
<1>2. round' = [round EXCEPT ![r] = @ + 1] /\ UNCHANGED <<seeds, inbox, stamp>> /\ seeding = M!NoSeeding
  BY DEF M!seedAfterWriterStage
<1>3. SeedingSound'
  BY <1>1, SeedsFound, ScriptsCounted DEF SeedingSound
<1>4. round' \in [Runs -> Nat]
  BY <1>2 DEF MiningSound
<1>5. ASSUME NEW i \in 1 .. Len(inbox) PROVE RowTells(inbox[i])'
  <2>1. inbox[i] \in Row /\ RowTells(inbox[i])
    BY MinedRow
  <2>2. PICK row \in Row : row = inbox[i]
    BY <2>1
  <2>3. row.run \in Runs /\ row.round \in Nat
    BY DEF Row
  <2>4. round[row.run] <= round'[row.run] /\ (row.run = r => round'[row.run] = round[row.run] + 1)
    BY <1>2, <2>3 DEF MiningSound
  <2>5. round[row.run] \in Nat /\ round'[row.run] \in Nat
    BY <1>4, <2>3 DEF MiningSound
  <2>6. seeding'.run = r
    BY <1>1
  <2>7. RowTells(row)'
    BY <1>2, <2>1, <2>2, <2>3, <2>4, <2>5, <2>6 DEF RowTells
  <2>8. QED
    BY <1>2, <2>2, <2>7
<1>6. StampSound'
  BY <1>2 DEF MiningSound, StampSound
<1>7. inbox' \in Seq(Row) /\ seeds' \in [Runs \X SeedNumbers -> [script : Scripts \cup {"none"}, round : Nat]]
  BY <1>2 DEF MiningSound
<1>8. inbox' = inbox /\ M!CandidateRecurs'
  BY <1>2, NoCandidates
<1>9. QED
  BY <1>3, <1>4, <1>5, <1>6, <1>7, <1>8 DEF MiningSound

(* A file of the seeding's next number is written over.                     *)
LEMMA FileWritten ==
  ASSUME MiningSound, seeding # M!NoSeeding, seeding.todo # <<>>, round' = round,
         seeds' = [seeds EXCEPT ![<<seeding.run, seeding.n>>] =
                     [script |-> Head(seeding.todo), round |-> round[seeding.run]]],
         \/ seeding' = M!NoSeeding
         \/ seeding'.run = seeding.run /\ seeding'.n = seeding.n + 1
  PROVE  /\ seeding.run \in Runs /\ seeding.n \in SeedNumbers /\ Head(seeding.todo) \in Scripts
         /\ seeds' \in [Runs \X SeedNumbers -> [script : Scripts \cup {"none"}, round : Nat]]
         /\ \A row \in Row : RowTells(row) => RowTells(row)'
         /\ seeds'[<<seeding.run, seeding.n>>].script = Head(seeding.todo)
<1>1. /\ seeding.run \in Runs /\ seeding.n \in Nat /\ seeding.todo \in Seq(Scripts)
      /\ seeding.n + Len(seeding.todo) <= M!Cardinality(Scripts)
  BY DEF MiningSound, SeedingSound
<1>2. seeding.n \in SeedNumbers /\ Head(seeding.todo) \in Scripts /\ Len(seeding.todo) \in Nat
  BY <1>1, ScriptsCounted DEF SeedNumbers
<1>3. round[seeding.run] \in Nat
  BY <1>1 DEF MiningSound
<1>4. PICK x : x = <<seeding.run, seeding.n>>
  OBVIOUS
<1>5. PICK wrote : wrote = [script |-> Head(seeding.todo), round |-> round[seeding.run]]
  OBVIOUS
<1>6. wrote \in [script : Scripts \cup {"none"}, round : Nat] /\ x \in Runs \X SeedNumbers
  BY <1>1, <1>2, <1>3, <1>4, <1>5
<1>7. seeds' = [seeds EXCEPT ![x] = wrote]
  BY <1>4, <1>5
<1>8. /\ seeds' \in [Runs \X SeedNumbers -> [script : Scripts \cup {"none"}, round : Nat]]
      /\ seeds'[x] = wrote
      /\ \A y \in Runs \X SeedNumbers : y # x => seeds'[y] = seeds[y]
  <2>1. PICK places : places = Runs \X SeedNumbers
    OBVIOUS
  <2>2. PICK files : files = [script : Scripts \cup {"none"}, round : Nat]
    OBVIOUS
  <2>3. seeds \in [places -> files] /\ wrote \in files /\ x \in places
    BY <1>6, <2>1, <2>2 DEF MiningSound
  <2>4. seeds' \in [places -> files] /\ seeds'[x] = wrote /\ \A y \in places : y # x => seeds'[y] = seeds[y]
    BY <1>7, <2>3
  <2>5. QED
    BY <2>1, <2>2, <2>4
<1>9. ASSUME NEW row \in Row, RowTells(row) PROVE RowTells(row)'
  <2>1. RowTells(row)
    BY <1>9
  <2>3. row.run \in Runs /\ row.round \in Nat /\ row.n \in Nat
    BY DEF Row
  <2>4. SUFFICES ASSUME row.kind = "seed" PROVE RowTells(row)'
    BY DEF RowTells
  <2>5. row.n \in SeedNumbers /\ row.round <= round[row.run]
    BY <2>1, <2>4 DEF RowTells
  <2>6. <<row.run, row.n>> \in Runs \X SeedNumbers
    BY <2>3, <2>5
  <2>7. round[row.run] \in Nat
    BY <2>3 DEF MiningSound
  <2>8. seeding.run = row.run /\ row.round = round[row.run] => row.n < seeding.n
    BY <2>1, <2>4 DEF RowTells
  <2>9. CASE <<row.run, row.n>> = x
    <3>1. row.run = seeding.run /\ row.n = seeding.n
      BY <1>4, <2>9
    <3>2. row.round < round[row.run]
      BY <1>1, <2>3, <2>5, <2>7, <2>8, <3>1
    <3>3. seeds'[<<row.run, row.n>>].round = round[row.run]
      BY <1>5, <1>8, <2>9, <3>1
    <3>4. QED
      BY <2>3, <2>5, <2>7, <3>2, <3>3 DEF RowTells
  <2>10. CASE <<row.run, row.n>> # x
    <3>1. seeds'[<<row.run, row.n>>] = seeds[<<row.run, row.n>>]
      BY <1>8, <2>6, <2>10
    <3>2. seeds[<<row.run, row.n>>].script = row.script \/ seeds[<<row.run, row.n>>].round > row.round
      BY <2>1, <2>4 DEF RowTells
    <3>3. seeding' # M!NoSeeding /\ seeding'.run = row.run /\ row.round = round[row.run] => row.n < seeding'.n
      BY <1>1, <2>3, <2>8
    <3>4. QED
      BY <2>5, <3>1, <3>2, <3>3 DEF RowTells
  <2>11. QED
    BY <2>9, <2>10
<1>10. QED
  BY <1>1, <1>2, <1>4, <1>5, <1>8, <1>9

(* Another row at the end of the inbox.                                     *)
LEMMA RowAppended ==
  ASSUME MiningSound, NEW row \in Row, RowTells(row)', inbox' = Append(inbox, row),
         \A old \in Row : RowTells(old) => RowTells(old)',
         round' = round, stamp' = stamp, SeedingSound', candidates' = {},
         seeds' \in [Runs \X SeedNumbers -> [script : Scripts \cup {"none"}, round : Nat]]
  PROVE  MiningSound'
<1>1. inbox \in Seq(Row)
  BY DEF MiningSound
<1>2. /\ inbox' \in Seq(Row) /\ Len(inbox') = Len(inbox) + 1 /\ inbox'[Len(inbox) + 1] = row /\ Len(inbox) \in Nat
      /\ \A i \in 1 .. Len(inbox) : inbox'[i] = inbox[i]
  BY <1>1
<1>3. ASSUME NEW i \in 1 .. Len(inbox') PROVE RowTells(inbox[i])'
  <2>1. CASE i = Len(inbox) + 1
    BY <1>2, <2>1 DEF RowTells
  <2>2. CASE i \in 1 .. Len(inbox)
    <3>1. PICK old \in Row : old = inbox[i] /\ RowTells(old)
      BY <2>2, MinedRow
    <3>2. RowTells(old)' /\ inbox'[i] = old
      BY <1>2, <2>2, <3>1
    <3>3. QED
      BY <3>2 DEF RowTells
  <2>3. QED
    BY <1>2, <2>1, <2>2
<1>4. StampSound'
  <2>1. SUFFICES ASSUME stamp # M!NoStamp
                 PROVE  /\ stamp.run \in Runs /\ stamp.rows \in Seq(Row)
                        /\ Len(stamp.rows) <= Len(inbox')
                        /\ \A i \in 1 .. Len(stamp.rows) : stamp.rows[i] = inbox'[i]
    BY DEF StampSound
  <2>2. /\ stamp.run \in Runs /\ stamp.rows \in Seq(Row)
        /\ Len(stamp.rows) <= Len(inbox)
        /\ \A i \in 1 .. Len(stamp.rows) : stamp.rows[i] = inbox[i]
    BY <2>1 DEF MiningSound, StampSound
  <2>3. Len(stamp.rows) \in Nat
    BY <2>2
  <2>4. QED
    BY <1>2, <2>2, <2>3
<1>5. round' \in [Runs -> Nat]
  BY DEF MiningSound
<1>6. M!CandidateRecurs'
  BY NoCandidates
<1>7. QED
  BY <1>2, <1>3, <1>4, <1>5, <1>6 DEF MiningSound

LEMMA snapshotKeeps ==
  ASSUME MiningSound, M!snapshotSeed, candidates' = {}
  PROVE  MiningSound'
<1>1. seeding.todo # <<>> /\ seeding # M!NoSeeding
  BY DEF M!snapshotSeed, M!NoSeeding
<1>2. /\ inbox' = Append(inbox, M!SeedRow(seeding.run, seeding.n, Head(seeding.todo)))
      /\ seeds' = [seeds EXCEPT ![<<seeding.run, seeding.n>>] =
                     [script |-> Head(seeding.todo), round |-> round[seeding.run]]]
      /\ seeding' = [seeding EXCEPT !.todo = Tail(@), !.n = M!NextNumber(@)]
      /\ UNCHANGED <<round, stamp>>
  BY DEF M!snapshotSeed
<1>3. /\ seeding.run \in Runs /\ seeding.n \in Nat /\ seeding.todo \in Seq(Scripts)
      /\ seeding.n + Len(seeding.todo) <= M!Cardinality(Scripts)
  BY <1>1 DEF MiningSound, SeedingSound
<1>4. seeding'.run = seeding.run /\ seeding'.n = seeding.n + 1 /\ seeding'.todo = Tail(seeding.todo)
  BY <1>1, <1>2 DEF M!NextNumber, MiningSound, SeedingSound
<1>5. SeedingSound'
  <2>1. Len(Tail(seeding.todo)) = Len(seeding.todo) - 1 /\ Tail(seeding.todo) \in Seq(Scripts)
    BY <1>1, <1>3
  <2>2. Len(seeding.todo) \in Nat
    BY <1>3
  <2>3. QED
    BY <1>3, <1>4, <2>1, <2>2, ScriptsCounted DEF SeedingSound
<1>6. PICK row : row = M!SeedRow(seeding.run, seeding.n, Head(seeding.todo))
  OBVIOUS
<1>7. /\ seeding.n \in SeedNumbers /\ Head(seeding.todo) \in Scripts
      /\ seeds' \in [Runs \X SeedNumbers -> [script : Scripts \cup {"none"}, round : Nat]]
      /\ \A old \in Row : RowTells(old) => RowTells(old)'
      /\ seeds'[<<seeding.run, seeding.n>>].script = Head(seeding.todo)
  BY <1>1, <1>2, <1>4, FileWritten
<1>8. round[seeding.run] \in Nat
  BY <1>3 DEF MiningSound
<1>9. row \in Row /\ row.run = seeding.run /\ row.n = seeding.n /\ row.script = Head(seeding.todo) /\ row.round = round[seeding.run]
  BY <1>3, <1>6, <1>7, <1>8 DEF M!SeedRow, Row
<1>10. RowTells(row)'
  BY <1>2, <1>3, <1>4, <1>7, <1>8, <1>9 DEF RowTells
<1>11. QED
  BY <1>2, <1>5, <1>6, <1>7, <1>9, <1>10, RowAppended

LEMMA publishedKeeps ==
  ASSUME MiningSound, NEW r \in Runs, M!appendCodifyInbox(r), candidates' = {}
  PROVE  MiningSound'
<1>1. PICK row : row = M!PublishedRow(r)
  OBVIOUS
<1>2. row \in Row /\ row.kind = "published"
  BY <1>1 DEF M!PublishedRow, Row
<1>3. inbox' = Append(inbox, row) /\ UNCHANGED <<round, seeding, seeds, stamp>>
  BY <1>1 DEF M!appendCodifyInbox
<1>4. RowTells(row)'
  BY <1>2 DEF RowTells
<1>5. \A old \in Row : RowTells(old) => RowTells(old)'
  BY <1>3, RowsAsBefore
<1>6. SeedingSound'
  BY <1>3 DEF MiningSound, SeedingSound
<1>7. seeds' \in [Runs \X SeedNumbers -> [script : Scripts \cup {"none"}, round : Nat]]
  BY <1>3 DEF MiningSound
<1>8. round' = round /\ stamp' = stamp
  BY <1>3
<1>9. QED
  BY <1>2, <1>3, <1>4, <1>5, <1>6, <1>7, <1>8, RowAppended

LEMMA seedingEnds ==
  ASSUME MiningSound, M!SeedFails \/ M!SeedingEnds, candidates' = {}
  PROVE  MiningSound'
<1>1. seeding # M!NoSeeding /\ seeding' = M!NoSeeding /\ UNCHANGED <<round, inbox, stamp>>
  BY DEF M!SeedFails, M!SeedingEnds
<1>2. \/ seeds' = seeds
      \/ /\ seeding.todo # <<>>
         /\ seeds' = [seeds EXCEPT ![<<seeding.run, seeding.n>>] =
                        [script |-> Head(seeding.todo), round |-> round[seeding.run]]]
  BY DEF M!SeedFails, M!SeedingEnds
<1>3. /\ seeds' \in [Runs \X SeedNumbers -> [script : Scripts \cup {"none"}, round : Nat]]
      /\ \A old \in Row : RowTells(old) => RowTells(old)'
  <2>1. CASE seeds' = seeds
    <3>1. \A old \in Row : RowTells(old) => RowTells(old)'
      BY <1>1, <2>1, RowsAsBefore
    <3>2. QED
      BY <2>1, <3>1 DEF MiningSound
  <2>2. CASE /\ seeding.todo # <<>>
             /\ seeds' = [seeds EXCEPT ![<<seeding.run, seeding.n>>] =
                            [script |-> Head(seeding.todo), round |-> round[seeding.run]]]
    BY <1>1, <2>2, FileWritten
  <2>3. QED
    BY <1>2, <2>1, <2>2
<1>4. ASSUME NEW i \in 1 .. Len(inbox) PROVE RowTells(inbox[i])'
  BY <1>1, <1>3, MinedRow
<1>5. SeedingSound' /\ StampSound'
  BY <1>1 DEF MiningSound, SeedingSound, StampSound
<1>6. round' \in [Runs -> Nat] /\ inbox' \in Seq(Row) /\ inbox' = inbox
  BY <1>1 DEF MiningSound
<1>7. M!CandidateRecurs'
  BY NoCandidates
<1>8. QED
  BY <1>3, <1>4, <1>5, <1>6, <1>7 DEF MiningSound

LEMMA readsKeeps ==
  ASSUME MiningSound, NEW r \in Runs, M!StampReads(r), candidates' = {}
  PROVE  MiningSound'
<1>1. stamp' = [run |-> r, rows |-> inbox] /\ UNCHANGED <<round, seeding, seeds, inbox>>
  BY DEF M!StampReads
<1>2. StampSound'
  BY <1>1 DEF MiningSound, StampSound
<1>3. ASSUME NEW i \in 1 .. Len(inbox) PROVE RowTells(inbox[i])'
  BY <1>1, MinedRow, RowsAsBefore
<1>4. SeedingSound'
  BY <1>1 DEF MiningSound, SeedingSound
<1>5. M!CandidateRecurs'
  BY NoCandidates
<1>6. QED
  BY <1>1, <1>2, <1>3, <1>4, <1>5 DEF MiningSound

(* What a landing writes back is what is there, up to the rows it read, and *)
(* says of each row what the row said.                                      *)
LEMMA stampKeeps ==
  ASSUME MiningSound, M!stampLanded, candidates' = {}
  PROVE  /\ MiningSound'
         /\ \A i \in 1 .. Len(inbox) : i <= Len(stamp.rows) =>
              i \in 1 .. Len(inbox') /\ M!Plain(inbox'[i]) = M!Plain(inbox[i])
<1>1. stamp # M!NoStamp /\ stamp' = M!NoStamp /\ UNCHANGED <<round, seeding, seeds>>
  BY DEF M!stampLanded
<1>2. /\ stamp.rows \in Seq(Row) /\ Len(stamp.rows) <= Len(inbox) /\ inbox \in Seq(Row)
      /\ \A i \in 1 .. Len(stamp.rows) : stamp.rows[i] = inbox[i]
  BY <1>1 DEF MiningSound, StampSound
<1>3. StampSound'
  BY <1>1 DEF StampSound
<1>4. SeedingSound' /\ round' \in [Runs -> Nat]
  BY <1>1 DEF MiningSound, SeedingSound
<1>5. seeds' \in [Runs \X SeedNumbers -> [script : Scripts \cup {"none"}, round : Nat]]
  BY <1>1 DEF MiningSound
<1>6. M!CandidateRecurs'
  BY NoCandidates
<1>7. CASE inbox' = inbox
  <2>1. ASSUME NEW i \in 1 .. Len(inbox) PROVE RowTells(inbox[i])'
    BY <1>1, <1>7, MinedRow, RowsAsBefore
  <2>2. QED
    BY <1>2, <1>3, <1>4, <1>5, <1>6, <1>7, <2>1 DEF MiningSound
<1>8. CASE inbox' = M!Stamped(stamp.rows, stamp.run)
  <2>1. DOMAIN stamp.rows = 1 .. Len(stamp.rows) /\ Len(stamp.rows) \in Nat /\ Len(inbox) \in Nat
    BY <1>2
  <2>2. inbox' = [i \in 1 .. Len(stamp.rows) |->
                    [stamp.rows[i] EXCEPT !.landed = @ \/ stamp.rows[i].run = stamp.run]]
    BY <1>8, <2>1 DEF M!Stamped
  <2>3. ASSUME NEW i \in 1 .. Len(stamp.rows)
        PROVE  inbox'[i] \in Row /\ RowTells(inbox[i])' /\ M!Plain(inbox'[i]) = M!Plain(inbox[i])
    <3>1. PICK row \in Row : row = inbox[i] /\ row = stamp.rows[i] /\ RowTells(row)
      BY <1>2, <2>1, MinedRow
    <3>2. PICK x \in BOOLEAN : x = (row.landed \/ row.run = stamp.run)
      BY <3>1
    <3>3. inbox'[i] = [row EXCEPT !.landed = x]
      BY <2>2, <3>1, <3>2
    <3>4. PICK y \in Row : y = [row EXCEPT !.landed = x] /\ RowTells(y) /\ M!Plain(y) = M!Plain(row)
      BY <3>1, StampedTells
    <3>5. RowTells(y)'
      BY <1>1, <3>4, RowsAsBefore
    <3>6. RowTells(inbox[i])'
      BY <3>3, <3>4, <3>5 DEF RowTells
    <3>7. QED
      BY <3>1, <3>3, <3>4, <3>6
  <2>4. inbox' \in Seq(Row) /\ Len(inbox') = Len(stamp.rows)
    <3>1. inbox' \in [1 .. Len(stamp.rows) -> Row]
      BY <2>2, <2>3
    <3>2. QED
      BY <2>1, <3>1
  <2>5. MiningSound'
    BY <1>3, <1>4, <1>5, <1>6, <2>3, <2>4 DEF MiningSound
  <2>6. QED
    BY <1>2, <2>1, <2>3, <2>4, <2>5
<1>9. QED
  BY <1>7, <1>8 DEF M!stampLanded

(* Rows that are appended after it leave a row what it was.                  *)
LEMMA AppendedKeeps ==
  ASSUME MiningSound, NEW row, inbox' = Append(inbox, row)
  PROVE  M!RowKept
<1>1. inbox \in Seq(Row)
  BY DEF MiningSound
<1>2. \A i \in DOMAIN inbox : i \in DOMAIN inbox' /\ inbox'[i] = inbox[i]
  BY <1>1
<1>3. QED
  BY <1>2 DEF M!RowKept

LEMMA MiningStep ==
  ASSUME MiningSound, M!Next
  PROVE  MiningSound' /\ M!RowKept
<1>1. ASSUME inbox' = inbox PROVE M!RowKept
  BY <1>1 DEF M!RowKept
<1>2. CASE M!scanCodify
  <2>1. UNCHANGED <<round, seeding, seeds, inbox, stamp>>
    BY <1>2 DEF M!scanCodify
  <2>2. QED
    BY <1>1, <1>2, <2>1, scanKeeps, LeftAlone
<1>3. CASE candidates' = {} /\ \E r \in Runs : M!seedAfterWriterStage(r)
  <2>1. inbox' = inbox
    BY <1>3 DEF M!seedAfterWriterStage
  <2>2. QED
    BY <1>1, <1>3, <2>1, seedKeeps
<1>4. CASE candidates' = {} /\ \E r \in Runs : M!appendCodifyInbox(r)
  <2>1. PICK r \in Runs : M!appendCodifyInbox(r)
    BY <1>4
  <2>2. inbox' = Append(inbox, M!PublishedRow(r))
    BY <2>1 DEF M!appendCodifyInbox
  <2>3. QED
    BY <1>4, <2>1, <2>2, publishedKeeps, AppendedKeeps
<1>5. CASE candidates' = {} /\ \E r \in Runs : M!StampReads(r)
  <2>1. inbox' = inbox
    BY <1>5 DEF M!StampReads
  <2>2. QED
    BY <1>1, <1>5, <2>1, readsKeeps
<1>6. CASE candidates' = {} /\ M!snapshotSeed
  <2>1. inbox' = Append(inbox, M!SeedRow(seeding.run, seeding.n, Head(seeding.todo)))
    BY <1>6 DEF M!snapshotSeed
  <2>2. QED
    BY <1>6, <2>1, snapshotKeeps, AppendedKeeps
<1>7. CASE candidates' = {} /\ (M!SeedFails \/ M!SeedingEnds)
  <2>1. inbox' = inbox
    BY <1>7 DEF M!SeedFails, M!SeedingEnds
  <2>2. QED
    BY <1>1, <1>7, <2>1, seedingEnds
<1>8. CASE candidates' = {} /\ M!stampLanded
  <2>1. stamp # M!NoStamp /\ inbox \in Seq(Row)
    BY <1>8 DEF M!stampLanded, MiningSound
  <2>2. /\ MiningSound'
        /\ \A i \in 1 .. Len(inbox) : i <= Len(stamp.rows) =>
             i \in 1 .. Len(inbox') /\ M!Plain(inbox'[i]) = M!Plain(inbox[i])
    BY <1>8, stampKeeps
  <2>3. DOMAIN inbox = 1 .. Len(inbox) /\ DOMAIN inbox' = 1 .. Len(inbox')
    BY <2>1, <2>2 DEF MiningSound
  <2>4. QED
    BY <2>1, <2>2, <2>3 DEF M!RowKept
<1>9. CASE candidates' = {} /\ (M!Reject \/ M!cooldownActive)
  <2>1. UNCHANGED <<round, seeding, seeds, inbox, stamp>>
    BY <1>9 DEF M!Reject, M!cooldownActive
  <2>2. QED
    BY <1>1, <1>9, <2>1, NoCandidates, LeftAlone
<1>10. QED
  BY <1>2, <1>3, <1>4, <1>5, <1>6, <1>7, <1>8, <1>9 DEF M!Next

LEMMA MiningNext ==
  ASSUME MiningHolds, [Next]_vars
  PROVE  MiningHolds' /\ [which = "mining" => M!RowKept]_miningVars
<1>1. which' = which
  BY DEF Next, vars
<1>2. CASE which = "mining"
  <2>1. MiningSound
    BY <1>2 DEF MiningHolds
  <2>2. M!Next \/ UNCHANGED miningVars
    BY <1>2 DEF Next, vars
  <2>3. CASE UNCHANGED miningVars
    <3>1. UNCHANGED <<round, seeding, seeds, inbox, stamp, candidates>>
      BY <2>3 DEF miningVars
    <3>2. M!CandidateRecurs'
      BY <2>1, <3>1 DEF MiningSound, M!CandidateRecurs
    <3>3. QED
      BY <2>1, <2>3, <3>1, <3>2, LeftAlone DEF MiningHolds
  <2>4. QED
    BY <2>1, <2>2, <2>3, MiningStep DEF MiningHolds
<1>3. QED
  BY <1>1, <1>2 DEF MiningHolds

(* A seed's row leads to its script, a candidate recurs in as many runs as   *)
(* asked for, and a landing's rewrite keeps the rows it read, whatever runs, *)
(* scripts, landings and scans there are (codify/seeds.ts, inbox.ts,        *)
(* miner.ts).                                                               *)
THEOREM MinedIsTrueAlways == Spec => MinedIsTrue
<1>1. Init => MiningHolds
  BY MiningStarts DEF Init, MiningHolds
<1>2. MiningHolds => (which = "mining" => M!MinedIsTrue)
  <2>1. SUFFICES ASSUME MiningSound, NEW i \in DOMAIN inbox, inbox[i].kind = "seed"
                 PROVE  \/ seeds[<<inbox[i].run, inbox[i].n>>].script = inbox[i].script
                        \/ seeds[<<inbox[i].run, inbox[i].n>>].round > inbox[i].round
    BY DEF MiningHolds, MiningSound, M!MinedIsTrue, M!SeedRowTells
  <2>2. i \in 1 .. Len(inbox)
    BY <2>1 DEF MiningSound
  <2>3. QED
    BY <2>1, <2>2, MinedRow DEF RowTells
<1>3. QED
  BY <1>1, <1>2, MiningNext, PTL DEF Spec, MinedIsTrue

-----------------------------------------------------------------------------
(* The registry of codified tools.                                          *)

LEMMA CountedTools == \A set : D!Cardinality(set) = Cardinality(set)
  BY DEF D!Cardinality, Cardinality

(* The smallest of a set of numbers.                                        *)
LEMMA Smallest ==
  ASSUME NEW numbers, numbers \subseteq Nat, numbers # {}
  PROVE  \E i \in numbers : \A j \in numbers : i <= j
<1>1. PICK i \in numbers : \A j \in numbers : ~ (<<j, i>> \in OpToRel(<, Nat))
  BY WFMin, NatLessThanWellFounded
<1>2. ASSUME NEW j \in numbers, j < i PROVE FALSE
  <2>1. <<j, i>> \in Nat \X Nat /\ <<j, i>>[1] < <<j, i>>[2]
    BY <1>2
  <2>2. QED
    BY <1>1, <2>1 DEF OpToRel
<1>3. \A j \in numbers : i <= j
  BY <1>2
<1>4. QED
  BY <1>3

(* Rounds: what comes of a value when a step is taken again and again.      *)
LEMMA Rounds ==
  ASSUME NEW values, NEW step \in [values -> values], NEW x \in values
  PROVE  \E all \in [Nat -> values] : all[0] = x /\ \A n \in Nat : n # 0 => all[n] = step[all[n - 1]]
<1> DEFINE Upto(n) == {g \in [0 .. n -> values] : g[0] = x /\ \A i \in 1 .. n : g[i] = step[g[i - 1]]}
<1>1. \A n \in Nat : Upto(n) # {}
  <2> DEFINE bad == {n \in Nat : Upto(n) = {}}
  <2>1. SUFFICES ASSUME bad # {} PROVE FALSE
    OBVIOUS
  <2>2. PICK n \in bad : \A m \in bad : n <= m
    BY <2>1, Smallest
  <2>3. CASE n = 0
    <3>1. [i \in 0 .. 0 |-> x] \in Upto(0)
      OBVIOUS
    <3>2. QED
      BY <2>2, <2>3, <3>1
  <2>4. CASE n # 0
    <3>1. n - 1 \in Nat /\ n - 1 \notin bad
      <4>1. n \in Nat /\ n - 1 \in Nat /\ ~(n <= n - 1)
        BY <2>2, <2>4
      <4> HIDE DEF bad
      <4>2. QED
        BY <2>2, <4>1
    <3>2. PICK g \in Upto(n - 1) : TRUE
      BY <3>1
    <3>3. PICK h : h = [i \in 0 .. n |-> IF i = n THEN step[g[n - 1]] ELSE g[i]]
      OBVIOUS
    <3>4. /\ g \in [0 .. (n - 1) -> values] /\ g[0] = x /\ n - 1 \in 0 .. (n - 1)
          /\ \A i \in 1 .. (n - 1) : g[i] = step[g[i - 1]]
      BY <3>1, <3>2
    <3>8. step[g[n - 1]] \in values
      BY <3>4
    <3>9. h \in [0 .. n -> values] /\ h[0] = x
      BY <2>4, <3>1, <3>3, <3>4, <3>8
    <3>5. ASSUME NEW i \in 1 .. n PROVE h[i] = step[h[i - 1]]
      BY <3>1, <3>2, <3>3
    <3>6. h \in Upto(n)
      BY <3>5, <3>9
    <3>7. QED
      BY <2>2, <3>6
  <2>5. QED
    BY <2>3, <2>4
<1>2. \A n, m \in Nat : \A g \in Upto(n), h \in Upto(m) : \A i \in 0 .. n : i <= m => g[i] = h[i]
  <2>1. SUFFICES ASSUME NEW n \in Nat, NEW m \in Nat, NEW g \in Upto(n), NEW h \in Upto(m),
                        ~ \A i \in 0 .. n : i <= m => g[i] = h[i]
                 PROVE  FALSE
    OBVIOUS
  <2>2. PICK bad : bad = {i \in 0 .. n : i <= m /\ g[i] # h[i]}
    OBVIOUS
  <2>3. bad \subseteq Nat /\ bad # {}
    BY <2>1, <2>2
  <2>4. PICK i \in bad : \A j \in bad : i <= j
    BY <2>3, Smallest
  <2>5. i # 0
    BY <2>2
  <2>6. i - 1 \in 0 .. n /\ i - 1 <= m /\ i - 1 \notin bad /\ i \in 1 .. n /\ i \in 1 .. m
    BY <2>2, <2>4, <2>5
  <2>7. g[i] = step[g[i - 1]] /\ h[i] = step[h[i - 1]] /\ g[i - 1] = h[i - 1]
    BY <2>2, <2>6
  <2>8. QED
    BY <2>2, <2>4, <2>7
<1> DEFINE g(n) == CHOOSE h \in Upto(n) : TRUE
<1>3. \A n \in Nat : g(n) \in Upto(n)
  BY <1>1
<1> HIDE DEF g
<1>4. PICK all : all = [n \in Nat |-> g(n)[n]]
  OBVIOUS
<1>5. all[0] = x /\ \A n \in Nat : all[n] \in values
  BY <1>3, <1>4
<1>6. ASSUME NEW n \in Nat, n # 0 PROVE all[n] = step[all[n - 1]]
  <2>1. n - 1 \in Nat /\ n - 1 \in 0 .. n /\ n \in 1 .. n
    BY <1>6
  <2>2. g(n) \in Upto(n) /\ g(n - 1) \in Upto(n - 1)
    BY <1>3, <2>1
  <2>3. g(n)[n] = step[g(n)[n - 1]]
    BY <2>1, <2>2
  <2>4. g(n)[n - 1] = g(n - 1)[n - 1]
    <3>1. PICK k \in Nat : k = n - 1
      BY <2>1
    <3>2. k \in 0 .. n /\ k <= k /\ g(n) \in Upto(n) /\ g(k) \in Upto(k)
      BY <2>1, <2>2, <3>1
    <3> HIDE DEF Upto
    <3>3. \A i \in 0 .. n : i <= k => g(n)[i] = g(k)[i]
      BY <1>2, <3>2
    <3>4. QED
      BY <3>1, <3>2, <3>3
  <2>5. QED
    BY <1>4, <2>1, <2>3, <2>4
<1>7. all \in [Nat -> values]
  BY <1>4, <1>5
<1>8. QED
  BY <1>5, <1>6, <1>7

(* Fractions compare as their products do.                                  *)
LEMMA Scaled ==
  ASSUME NEW x \in Int, NEW y \in Int, NEW z \in Int, z > 0
  PROVE  x < y <=> x * z < y * z
  OBVIOUS

LEMMA Fractions ==
  ASSUME NEW a \in Int, NEW b \in Int, NEW c \in Int, NEW p \in Int, NEW q \in Int, NEW s \in Int,
         p > 0, q > 0, s > 0, a * q < b * p, b * s < c * q
  PROVE  a * s < c * p
<1>1. (a * q) * s < (b * p) * s
  BY Scaled
<1>2. (b * s) * p < (c * q) * p
  BY Scaled
<1>3. (b * p) * s = (b * s) * p /\ (a * q) * s = (a * s) * q /\ (c * q) * p = (c * p) * q
  OBVIOUS
<1>4. (a * s) * q < (c * p) * q
  BY <1>1, <1>2, <1>3
<1>5. a * s \in Int /\ c * p \in Int
  OBVIOUS
<1>6. QED
  BY <1>4, <1>5, Scaled

LEMMA ToolOf ==
  ASSUME NEW r \in D!Registry, NEW t \in Tools
  PROVE  /\ r[t] \in D!Tool /\ r[t].state \in D!States /\ r[t].hits \in Seq(D!Hits)
         /\ r[t].agree \in 0 .. MaxHits /\ r[t].disagree \in 0 .. MaxHits /\ r[t].exact \in 0 .. MaxHits
         /\ r[t].recent \in BOOLEAN
<1>1. r[t] \in D!Tool
  BY DEF D!Registry
<1>2. QED
  BY <1>1 DEF D!Tool

(* The most that an active tool was used, for scores to be compared with.   *)
LEMMA MostUsed ==
  ASSUME NEW r \in D!Registry
  PROVE  \E m \in 1 .. (MaxHits + 1) :
           /\ \A u \in D!ActiveTools(r) : r[u].exact <= m
           /\ m = 1 \/ \E u \in D!ActiveTools(r) : r[u].exact = m
<1>1. PICK enough : enough = {m \in 1 .. (MaxHits + 1) : \A u \in D!ActiveTools(r) : r[u].exact <= m}
  OBVIOUS
<1>2. \A u \in D!ActiveTools(r) : r[u].exact \in 0 .. MaxHits
  BY ToolOf DEF D!ActiveTools
<1>3. MaxHits \in Nat
  BY CodifiedAssumption
<1>4. enough \subseteq Nat /\ MaxHits + 1 \in enough
  BY <1>1, <1>2, <1>3
<1>5. PICK m \in enough : \A k \in enough : m <= k
  BY <1>4, Smallest
<1>6. m \in 1 .. (MaxHits + 1) /\ \A u \in D!ActiveTools(r) : r[u].exact <= m
  BY <1>1, <1>5
<1>7. CASE m = 1
  BY <1>6, <1>7
<1>8. CASE m # 1
  <2>1. m - 1 \in 1 .. (MaxHits + 1) /\ m - 1 \notin enough
    BY <1>3, <1>5, <1>6, <1>8
  <2>2. PICK u \in D!ActiveTools(r) : ~ (r[u].exact <= m - 1)
    BY <1>1, <2>1
  <2>3. r[u].exact \in Int /\ r[u].exact <= m
    BY <1>2, <1>3, <1>6
  <2>4. r[u].exact = m
    BY <1>6, <2>2, <2>3
  <2>5. QED
    BY <1>6, <2>4
<1>9. QED
  BY <1>7, <1>8

LEMMA CountIs ==
  ASSUME NEW r \in D!Registry, NEW t \in Tools, NEW hit
  PROVE  D!Count(r[t].hits, hit) \in Int
<1>1. PICK hits \in Seq(D!Hits) : hits = r[t].hits
  BY ToolOf
<1>2. DOMAIN hits = 1 .. Len(hits) /\ Len(hits) \in Nat
  BY <1>1
<1>3. IsFiniteSet(DOMAIN hits)
  BY <1>2, FS_Interval
<1>4. PICK places : places = {i \in DOMAIN hits : hits[i] = hit}
  OBVIOUS
<1>5. Cardinality(places) \in Nat
  BY <1>3, <1>4, FS_Subset, FS_CardinalityType
<1>6. D!Count(r[t].hits, hit) = Cardinality(places)
  BY <1>1, <1>4, CountedTools DEF D!Count
<1>7. QED
  BY <1>5, <1>6

LEMMA ScoreIs ==
  ASSUME NEW r \in D!Registry, NEW t \in Tools
  PROVE  D!UtilityScore(r, t) \in Int /\ D!Denominator(r, t) \in Int /\ D!Denominator(r, t) > 0
<1>1. PICK n \in Nat : n = IF r[t].hits = <<>> THEN 1 ELSE Len(r[t].hits)
  BY ToolOf
<1>2. n > 0
  BY <1>1, ToolOf
<1>3. PICK most : most = CHOOSE m \in 1 .. (MaxHits + 1) :
                /\ \A u \in D!ActiveTools(r) : r[u].exact <= m
                /\ m = 1 \/ \E u \in D!ActiveTools(r) : r[u].exact = m
  OBVIOUS
<1>4. most \in 1 .. (MaxHits + 1)
  BY <1>3, MostUsed, Zenon
<1>5. most \in Int
  BY <1>4, CodifiedAssumption
<1>6. PICK good \in Int : good = D!Count(r[t].hits, "ok") + D!Count(r[t].hits, "shadow-agree")
  BY CountIs
<1>7. D!UtilityScore(r, t) = 5 * good * most + 3 * r[t].exact * n + (IF r[t].recent THEN 2 ELSE 0) * n * most
  BY <1>1, <1>3, <1>6, Zenon DEF D!UtilityScore
<1>8. r[t].exact \in Int
  BY ToolOf, CodifiedAssumption
<1>9. PICK recent \in Int : recent = IF r[t].recent THEN 2 ELSE 0
  OBVIOUS
<1>10. 5 * good * most \in Int /\ 3 * r[t].exact * n \in Int /\ recent * n * most \in Int
  BY <1>1, <1>5, <1>8
<1>11. D!UtilityScore(r, t) = 5 * good * most + 3 * r[t].exact * n + recent * n * most
  BY <1>7, <1>9, Zenon
<1>12. D!UtilityScore(r, t) \in Int
  BY <1>10, <1>11
<1>13. D!Denominator(r, t) = n
  BY <1>1, Zenon DEF D!Denominator
<1>14. QED
  BY <1>1, <1>2, <1>12, <1>13

LEMMA LessIsOrder ==
  ASSUME NEW r \in D!Registry, NEW t \in Tools, NEW u \in Tools, NEW v \in Tools
  PROVE  /\ ~ D!LessUseful(r, t, t)
         /\ D!LessUseful(r, t, u) /\ D!LessUseful(r, u, v) => D!LessUseful(r, t, v)
<1>1. PICK a \in Int, b \in Int, c \in Int :
        a = D!UtilityScore(r, t) /\ b = D!UtilityScore(r, u) /\ c = D!UtilityScore(r, v)
  BY ScoreIs
<1>2. PICK p \in Int, q \in Int, s \in Int :
        /\ p = D!Denominator(r, t) /\ q = D!Denominator(r, u) /\ s = D!Denominator(r, v)
        /\ p > 0 /\ q > 0 /\ s > 0
  BY ScoreIs
<1>3. a * q < b * p /\ b * s < c * q => a * s < c * p
  BY <1>2, Fractions
<1>4. QED
  BY <1>1, <1>2, <1>3 DEF D!LessUseful

(* A pool has a tool than which none is less useful.                        *)
LEMMA LeastUseful ==
  ASSUME NEW r \in D!Registry
  PROVE  \A pool \in SUBSET Tools : pool # {} => D!PickEviction(r, pool) \in pool
<1> DEFINE LeastIn(pool) == \E t \in pool : \A u \in pool : ~ D!LessUseful(r, u, t)
           bad == {n \in Nat : \E pool \in SUBSET Tools : pool # {} /\ ~LeastIn(pool) /\ Cardinality(pool) = n}
<1>1. \A pool \in SUBSET Tools : IsFiniteSet(pool) /\ Cardinality(pool) \in Nat
  BY CodifiedAssumption, FS_Subset, FS_CardinalityType
<1>2. bad = {}
  <2>1. SUFFICES ASSUME bad # {} PROVE FALSE
    OBVIOUS
  <2>2. PICK n \in bad : \A m \in bad : n <= m
    BY <2>1, Smallest
  <2>3. PICK pool \in SUBSET Tools : pool # {} /\ ~LeastIn(pool) /\ Cardinality(pool) = n
    BY <2>2
  <2>4. PICK x \in pool : TRUE
    BY <2>3
  <2>5. PICK rest : rest = pool \ {x}
    OBVIOUS
  <2>6. rest \in SUBSET Tools /\ Cardinality(rest) = n - 1 /\ n \in Nat /\ n - 1 \in Nat
    <3>1. IsFiniteSet(pool) /\ Cardinality(pool) = n /\ n \in Nat
      BY <1>1, <2>3
    <3>2. Cardinality(rest) = n - 1
      BY <2>4, <2>5, <3>1, FS_RemoveElement
    <3>3. rest \in SUBSET Tools
      BY <2>3, <2>5
    <3>4. QED
      BY <1>1, <3>1, <3>2, <3>3
  <2>7. CASE rest = {}
    <3>1. \A u \in pool : u = x
      BY <2>5, <2>7
    <3>2. ~ D!LessUseful(r, x, x)
      BY <2>3, <2>4, LessIsOrder
    <3>3. QED
      BY <2>3, <2>4, <3>1, <3>2
  <2>8. CASE rest # {}
    <3>1. LeastIn(rest)
      <4>1. n - 1 \notin bad
        <5>1. ~ (n <= n - 1)
          BY <2>6
        <5> HIDE DEF bad
        <5>2. QED
          BY <2>2, <5>1
      <4>2. QED
        BY <2>6, <2>8, <4>1
    <3>2. PICK t \in rest : \A u \in rest : ~ D!LessUseful(r, u, t)
      BY <3>1
    <3>3. x \in Tools /\ t \in Tools /\ t \in pool
      BY <2>3, <2>4, <2>5, <3>2
    <3>4. CASE D!LessUseful(r, x, t)
      <4>1. ASSUME NEW u \in pool, D!LessUseful(r, u, x) PROVE FALSE
        <5>1. u \in Tools /\ u # x
          BY <2>3, <3>3, <4>1, LessIsOrder
        <5>2. D!LessUseful(r, u, t)
          BY <3>3, <3>4, <4>1, <5>1, LessIsOrder
        <5>3. QED
          BY <2>5, <3>2, <5>1, <5>2
      <4>2. QED
        BY <2>3, <2>4, <4>1
    <3>5. CASE ~ D!LessUseful(r, x, t)
      <4>1. \A u \in pool : ~ D!LessUseful(r, u, t)
        BY <2>5, <3>2, <3>5
      <4>2. QED
        BY <2>3, <3>3, <4>1
    <3>6. QED
      BY <3>4, <3>5
  <2>9. QED
    BY <2>7, <2>8
<1>3. \A pool \in SUBSET Tools : pool # {} => LeastIn(pool)
  BY <1>1, <1>2
<1>4. QED
  BY <1>3, Zenon DEF D!PickEviction

(* Evictions.                                                               *)
Pools == {Local, Tools \ Local}
InUse(r, pool) == Cardinality(D!ActiveTools(r) \cap pool)

LEMMA InUseIs ==
  ASSUME NEW r, NEW s, NEW pool
  PROVE  /\ IsFiniteSet(D!ActiveTools(r) \cap pool) /\ InUse(r, pool) \in Nat
         /\ InUse(r, Tools) = Cardinality(D!ActiveTools(r)) /\ InUse(r, Tools) \in Nat
         /\ D!ActiveTools(s) \subseteq D!ActiveTools(r) => InUse(s, pool) <= InUse(r, pool)
<1>1. D!ActiveTools(r) \cap pool \in SUBSET Tools /\ D!ActiveTools(r) \cap Tools = D!ActiveTools(r)
  BY DEF D!ActiveTools
<1>2. \A some \in SUBSET Tools : IsFiniteSet(some) /\ Cardinality(some) \in Nat
  BY CodifiedAssumption, FS_Subset, FS_CardinalityType
<1>3. ASSUME D!ActiveTools(s) \subseteq D!ActiveTools(r) PROVE InUse(s, pool) <= InUse(r, pool)
  <2>1. D!ActiveTools(s) \cap pool \subseteq D!ActiveTools(r) \cap pool
    BY <1>3
  <2>2. QED
    BY <1>1, <1>2, <2>1, FS_Subset DEF InUse
<1>4. QED
  BY <1>1, <1>2, <1>3 DEF InUse

LEMMA OverCapIs ==
  ASSUME NEW r \in D!Registry
  PROVE  /\ D!OverCap(r) \subseteq D!ActiveTools(r)
         /\ D!OverCap(r) = {} => /\ \A pool \in Pools : InUse(r, pool) <= MaxRepo
                                 /\ InUse(r, Tools) <= MaxGlobal
         /\ D!OverCap(r) # {} =>
              \/ \E pool \in Pools : D!OverCap(r) = D!ActiveTools(r) \cap pool /\ InUse(r, pool) > MaxRepo
              \/ D!OverCap(r) = D!ActiveTools(r) /\ InUse(r, Tools) > MaxGlobal
<1>1. PICK active : active = D!ActiveTools(r)
  OBVIOUS
<1> DEFINE over(pool, max) == IF D!Cardinality(pool) > max THEN {pool} ELSE {}
           repo == over(active \cap Local, MaxRepo) \cup over(active \ Local, MaxRepo)
<1>2. D!OverCap(r) = IF repo # {} THEN CHOOSE pool \in repo : TRUE ELSE UNION over(active, MaxGlobal)
  BY <1>1 DEF D!OverCap
<1>3. /\ active \cap (Tools \ Local) = active \ Local
      /\ D!Cardinality(active \cap Local) = InUse(r, Local)
      /\ D!Cardinality(active \ Local) = InUse(r, Tools \ Local)
      /\ D!Cardinality(active) = InUse(r, Tools)
  <2>1. active \subseteq Tools
    BY <1>1 DEF D!ActiveTools
  <2>2. active \cap (Tools \ Local) = active \ Local /\ active \cap Tools = active
    BY <2>1
  <2>3. QED
    BY <1>1, <2>2, CountedTools DEF InUse
<1>4. \A pool : InUse(r, pool) \in Nat
  BY InUseIs
<1>5. MaxRepo \in Nat /\ MaxGlobal \in Nat
  BY CodifiedAssumption
<1>6. Cardinality({}) = 0
  BY FS_EmptySet
<1>7. CASE repo # {}
  <2>1. PICK some : some = CHOOSE pool \in repo : TRUE
    OBVIOUS
  <2>2. some \in repo
    BY <1>7, <2>1
  <2>3. D!OverCap(r) = some
    BY <1>2, <1>7, <2>1
  <2>4. \E pool \in Pools : some = active \cap pool /\ InUse(r, pool) > MaxRepo
    BY <1>3, <2>2 DEF Pools
  <2>5. some # {}
    <3>1. PICK pool \in Pools : some = active \cap pool /\ InUse(r, pool) > MaxRepo
      BY <2>4
    <3>2. InUse(r, pool) # 0
      BY <1>4, <1>5, <3>1
    <3>3. QED
      BY <1>1, <1>6, <3>1, <3>2 DEF InUse
  <2>6. QED
    BY <1>1, <2>3, <2>4, <2>5
<1>8. CASE repo = {}
  <2>1. \A pool \in Pools : InUse(r, pool) <= MaxRepo
    <3>1. ~ (InUse(r, Local) > MaxRepo) /\ ~ (InUse(r, Tools \ Local) > MaxRepo)
      BY <1>3, <1>8
    <3>2. QED
      BY <1>4, <1>5, <3>1 DEF Pools
  <2>2. D!OverCap(r) = UNION over(active, MaxGlobal)
    BY <1>2, <1>8
  <2>3. CASE InUse(r, Tools) > MaxGlobal
    <3>1. D!OverCap(r) = active
      BY <1>3, <2>2, <2>3
    <3>2. InUse(r, Tools) # 0
      BY <1>4, <1>5, <2>3
    <3>3. active # {}
      BY <1>1, <1>6, <3>2, InUseIs
    <3>4. QED
      BY <1>1, <2>3, <3>1, <3>3
  <2>4. CASE ~ (InUse(r, Tools) > MaxGlobal)
    <3>1. D!OverCap(r) = {}
      BY <1>3, <2>2, <2>4
    <3>2. QED
      BY <1>4, <1>5, <2>1, <2>4, <3>1
  <2>5. QED
    BY <2>3, <2>4
<1>9. QED
  BY <1>7, <1>8

LEMMA Retired ==
  ASSUME NEW r \in D!Registry, NEW t \in Tools, NEW st \in D!States
  PROVE  /\ D!SetState(r, t, st) \in D!Registry
         /\ D!SetState(r, t, st)[t].state = st
         /\ \A u \in Tools : /\ u # t => D!SetState(r, t, st)[u] = r[u]
                             /\ D!SetState(r, t, st)[u].agree = r[u].agree
                             /\ D!SetState(r, t, st)[u].disagree = r[u].disagree
                             /\ D!SetState(r, t, st)[u].exact = r[u].exact
<1>1. PICK e : e = [r[t] EXCEPT !.state = st]
  OBVIOUS
<1>2. D!SetState(r, t, st) = [r EXCEPT ![t] = e]
  BY <1>1 DEF D!SetState
<1>3. e \in D!Tool /\ e.state = st /\ e.agree = r[t].agree /\ e.disagree = r[t].disagree /\ e.exact = r[t].exact
  BY <1>1, ToolOf DEF D!Tool
<1>4. QED
  BY <1>2, <1>3 DEF D!Registry

(* One eviction takes one tool of a pool over its cap out of use.            *)
LEMMA EvictOneIs ==
  ASSUME NEW r \in D!Registry
  PROVE  /\ D!EvictOne(r) \in D!Registry
         /\ D!OverCap(r) = {} => D!EvictOne(r) = r
         /\ D!OverCap(r) # {} =>
              \E v \in D!OverCap(r) : /\ D!EvictOne(r) = D!SetState(r, v, "retired")
                                      /\ D!ActiveTools(D!EvictOne(r)) = D!ActiveTools(r) \ {v}
<1>1. CASE D!OverCap(r) = {}
  BY <1>1 DEF D!EvictOne
<1>2. CASE D!OverCap(r) # {}
  <2>1. D!OverCap(r) \in SUBSET Tools
    BY OverCapIs DEF D!ActiveTools
  <2>2. PICK v \in D!OverCap(r) : v = D!PickEviction(r, D!OverCap(r))
    BY <1>2, <2>1, LeastUseful
  <2>3. D!EvictOne(r) = D!SetState(r, v, "retired")
    BY <1>2, <2>2 DEF D!EvictOne
  <2>4. v \in Tools /\ "retired" \in D!States
    BY <2>1, <2>2 DEF D!States
  <2>5. PICK s \in D!Registry : /\ s = D!SetState(r, v, "retired") /\ s[v].state = "retired"
                                /\ \A u \in Tools : u # v => s[u] = r[u]
    BY <2>4, Retired
  <2>6. D!ActiveTools(s) = D!ActiveTools(r) \ {v}
    BY <2>4, <2>5 DEF D!ActiveTools
  <2>7. QED
    BY <1>2, <2>2, <2>3, <2>5, <2>6
<1>3. QED
  BY <1>1, <1>2

(* What rounds of eviction make of a registry: tools in use are retired and *)
(* nothing else changes, and whoever is retired leaves a pool at its cap.   *)
Weeded(r, s) ==
  /\ s \in D!Registry
  /\ \A t \in Tools : /\ s[t].state \in {r[t].state, "retired"}
                      /\ s[t].agree = r[t].agree /\ s[t].disagree = r[t].disagree /\ s[t].exact = r[t].exact
  /\ D!ActiveTools(s) \subseteq D!ActiveTools(r)
  /\ \/ s = r
     \/ \E pool \in Pools : InUse(s, pool) >= MaxRepo /\ InUse(r, pool) > MaxRepo
     \/ InUse(s, Tools) >= MaxGlobal

LEMMA WeededFurther ==
  ASSUME NEW r \in D!Registry, NEW s, Weeded(r, s)
  PROVE  /\ Weeded(r, D!EvictOne(s))
         /\ \/ D!OverCap(s) = {} /\ D!EvictOne(s) = s
            \/ InUse(D!EvictOne(s), Tools) = InUse(s, Tools) - 1
<1>1. s \in D!Registry
  BY DEF Weeded
<1>2. CASE D!OverCap(s) = {}
  BY <1>1, <1>2, EvictOneIs
<1>3. CASE D!OverCap(s) # {}
  <2>1. PICK v \in D!OverCap(s) : /\ D!EvictOne(s) = D!SetState(s, v, "retired")
                                  /\ D!ActiveTools(D!EvictOne(s)) = D!ActiveTools(s) \ {v}
    BY <1>1, <1>3, EvictOneIs
  <2>2. PICK e \in D!Registry : e = D!EvictOne(s)
    BY <1>1, EvictOneIs
  <2>3. v \in D!ActiveTools(s) /\ v \in Tools
    BY <1>1, <2>1, OverCapIs DEF D!ActiveTools
  <2>4. "retired" \in D!States
    BY DEF D!States
  <2>5. \A t \in Tools : /\ e[t].state \in {s[t].state, "retired"}
                         /\ e[t].agree = s[t].agree /\ e[t].disagree = s[t].disagree /\ e[t].exact = s[t].exact
    <3>1. SUFFICES ASSUME NEW t \in Tools
                   PROVE  /\ e[t].state \in {s[t].state, "retired"}
                          /\ e[t].agree = s[t].agree /\ e[t].disagree = s[t].disagree /\ e[t].exact = s[t].exact
      OBVIOUS
    <3>2. CASE t = v
      BY <1>1, <2>1, <2>2, <2>3, <2>4, <3>2, Retired
    <3>3. CASE t # v
      BY <1>1, <2>1, <2>2, <2>3, <2>4, <3>3, Retired
    <3>4. QED
      BY <3>2, <3>3
  <2>6. \A t \in Tools : /\ e[t].state \in {r[t].state, "retired"}
                         /\ e[t].agree = r[t].agree /\ e[t].disagree = r[t].disagree /\ e[t].exact = r[t].exact
    BY <2>5 DEF Weeded
  <2>7. D!ActiveTools(e) = D!ActiveTools(s) \ {v} /\ D!ActiveTools(s) \subseteq D!ActiveTools(r)
    BY <2>1, <2>2 DEF Weeded
  <2>8. ASSUME NEW pool, v \in pool
        PROVE  InUse(e, pool) = InUse(s, pool) - 1
    <3>1. D!ActiveTools(e) \cap pool = (D!ActiveTools(s) \cap pool) \ {v} /\ v \in D!ActiveTools(s) \cap pool
      BY <2>3, <2>7, <2>8
    <3>2. IsFiniteSet(D!ActiveTools(s) \cap pool)
      BY InUseIs
    <3>3. QED
      BY <3>1, <3>2, FS_RemoveElement DEF InUse
  <2>9. \/ \E pool \in Pools : InUse(e, pool) >= MaxRepo /\ InUse(r, pool) > MaxRepo
        \/ InUse(e, Tools) >= MaxGlobal
    <3>1. CASE \E pool \in Pools : D!OverCap(s) = D!ActiveTools(s) \cap pool /\ InUse(s, pool) > MaxRepo
      <4>1. PICK pool \in Pools : D!OverCap(s) = D!ActiveTools(s) \cap pool /\ InUse(s, pool) > MaxRepo
        BY <3>1
      <4>2. v \in pool
        BY <4>1
      <4>3. InUse(e, pool) = InUse(s, pool) - 1
        BY <2>8, <4>2
      <4>4. InUse(s, pool) <= InUse(r, pool) /\ InUse(s, pool) \in Nat /\ InUse(r, pool) \in Nat /\ MaxRepo \in Nat
        BY <2>7, InUseIs, CodifiedAssumption
      <4>5. InUse(e, pool) >= MaxRepo /\ InUse(r, pool) > MaxRepo
        BY <4>1, <4>3, <4>4
      <4>6. QED
        BY <4>5
    <3>2. CASE InUse(s, Tools) > MaxGlobal
      <4>1. InUse(e, Tools) = InUse(s, Tools) - 1
        BY <2>3, <2>8
      <4>2. InUse(s, Tools) \in Nat /\ MaxGlobal \in Nat
        BY InUseIs, CodifiedAssumption
      <4>3. QED
        BY <3>2, <4>1, <4>2
    <3>3. QED
      BY <1>1, <1>3, <3>1, <3>2, OverCapIs
  <2>10. Weeded(r, e)
    BY <2>6, <2>7, <2>9 DEF Weeded
  <2>11. InUse(e, Tools) = InUse(s, Tools) - 1
    BY <2>3, <2>8
  <2>12. QED
    BY <2>2, <2>10, <2>11
<1>4. QED
  BY <1>2, <1>3

LEMMA EvictRoundsExist ==
  ASSUME NEW r \in D!Registry
  PROVE  \E all : all = [n \in Nat |-> IF n = 0 THEN r ELSE D!EvictOne(all[n - 1])]
<1>1. PICK step : step = [s \in D!Registry |-> D!EvictOne(s)]
  OBVIOUS
<1>2. step \in [D!Registry -> D!Registry]
  BY <1>1, EvictOneIs
<1>3. PICK all \in [Nat -> D!Registry] : all[0] = r /\ \A n \in Nat : n # 0 => all[n] = step[all[n - 1]]
  BY <1>2, Rounds
<1>4. \A n \in Nat : n # 0 => all[n - 1] \in D!Registry /\ step[all[n - 1]] = D!EvictOne(all[n - 1])
  BY <1>1
<1>5. all = [n \in Nat |-> IF n = 0 THEN r ELSE D!EvictOne(all[n - 1])]
  BY <1>3, <1>4
<1>6. QED
  BY <1>5

LEMMA EvictRounds ==
  ASSUME NEW r \in D!Registry,
         NEW f, f = CHOOSE h : h = [n \in Nat |-> IF n = 0 THEN r ELSE D!EvictOne(h[n - 1])]
  PROVE  f[0] = r /\ \A n \in Nat : f[n] \in D!Registry /\ f[n + 1] = D!EvictOne(f[n])
<1>5. f = [n \in Nat |-> IF n = 0 THEN r ELSE D!EvictOne(f[n - 1])]
  BY EvictRoundsExist
<1>6. f[0] = r
  BY <1>5
<1>7. ASSUME NEW n \in Nat PROVE f[n + 1] = D!EvictOne(f[n])
  <2>1. n + 1 \in Nat /\ n + 1 # 0 /\ (n + 1) - 1 = n
    OBVIOUS
  <2>2. f[n + 1] = D!EvictOne(f[(n + 1) - 1])
    BY <1>5, <2>1
  <2>3. QED
    BY <2>1, <2>2
<1>8. \A n \in Nat : f[n] \in D!Registry
  <2>1. SUFFICES ASSUME ~ \A n \in Nat : f[n] \in D!Registry PROVE FALSE
    OBVIOUS
  <2>2. PICK bad : bad = {n \in Nat : f[n] \notin D!Registry}
    OBVIOUS
  <2>3. PICK n \in bad : \A m \in bad : n <= m
    BY <2>1, <2>2, Smallest
  <2>4. n # 0
    BY <1>6, <2>2
  <2>5. n - 1 \in Nat /\ n - 1 \notin bad /\ n = (n - 1) + 1
    BY <2>2, <2>3, <2>4
  <2>6. f[n - 1] \in D!Registry /\ f[n] = D!EvictOne(f[n - 1])
    BY <1>7, <2>2, <2>5
  <2>7. D!EvictOne(f[n - 1]) \in D!Registry
    BY <2>6, EvictOneIs
  <2>8. QED
    BY <2>2, <2>6, <2>7
<1>9. QED
  BY <1>6, <1>7, <1>8

(* There are as many rounds as tools, so after the last one no pool is over *)
(* its cap.                                                                 *)
LEMMA EvictIfNeededIs ==
  ASSUME NEW r \in D!Registry
  PROVE  Weeded(r, D!EvictIfNeeded(r)) /\ D!OverCap(D!EvictIfNeeded(r)) = {}
<1>1. PICK f : /\ f = CHOOSE h : h = [n \in Nat |-> IF n = 0 THEN r ELSE D!EvictOne(h[n - 1])]
               /\ D!EvictIfNeeded(r) = f[D!Cardinality(Tools)]
  BY DEF D!EvictIfNeeded
<1>2. f[0] = r /\ \A n \in Nat : f[n] \in D!Registry /\ f[n + 1] = D!EvictOne(f[n])
  BY <1>1, EvictRounds
<1>3. PICK most \in Nat : most = Cardinality(Tools)
  BY CodifiedAssumption, FS_CardinalityType
<1>4. InUse(r, Tools) <= most /\ InUse(r, Tools) \in Nat
  <2>1. D!ActiveTools(r) \cap Tools \in SUBSET Tools
    OBVIOUS
  <2>2. QED
    BY <1>3, <2>1, InUseIs, CodifiedAssumption, FS_Subset DEF InUse
<1> DEFINE Far(n) == /\ Weeded(r, f[n])
                     /\ D!OverCap(f[n]) = {} \/ InUse(f[n], Tools) + n <= InUse(r, Tools)
           bad == {n \in Nat : ~Far(n)}
<1>5. Far(0)
  BY <1>2, <1>4 DEF Weeded
<1>6. ASSUME NEW n \in Nat, Far(n) PROVE Far(n + 1)
  <2>1. Weeded(r, f[n]) /\ f[n + 1] = D!EvictOne(f[n])
    BY <1>2, <1>6
  <2>2. /\ Weeded(r, f[n + 1])
        /\ \/ D!OverCap(f[n]) = {} /\ f[n + 1] = f[n]
           \/ InUse(f[n + 1], Tools) = InUse(f[n], Tools) - 1
    BY <2>1, WeededFurther
  <2>3. InUse(f[n], Tools) \in Nat /\ InUse(f[n + 1], Tools) \in Nat
    BY InUseIs
  <2>4. CASE D!OverCap(f[n]) = {}
    <3>1. f[n + 1] = f[n]
      BY <1>2, <2>1, <2>4, EvictOneIs
    <3>2. QED
      BY <2>2, <2>4, <3>1
  <2>5. CASE D!OverCap(f[n]) # {}
    BY <1>4, <1>6, <2>2, <2>3, <2>5
  <2>6. QED
    BY <2>4, <2>5
<1>7. \A n \in Nat : Far(n)
  <2>1. SUFFICES ASSUME bad # {} PROVE FALSE
    OBVIOUS
  <2>2. bad \subseteq Nat /\ 0 \notin bad /\ \A n \in Nat : n \notin bad => n + 1 \notin bad
    BY <1>5, <1>6
  <2> HIDE DEF bad
  <2>3. PICK n \in bad : \A m \in bad : n <= m
    BY <2>1, <2>2, Smallest
  <2>4. n - 1 \in Nat /\ n - 1 \notin bad /\ n = (n - 1) + 1
    BY <2>2, <2>3
  <2>5. QED
    BY <2>2, <2>3, <2>4
<1>8. Far(most)
  BY <1>7
<1>9. D!EvictIfNeeded(r) = f[most]
  BY <1>1, <1>3, CountedTools
<1>10. D!OverCap(f[most]) = {}
  <2>1. SUFFICES ASSUME D!OverCap(f[most]) # {} PROVE FALSE
    BY Zenon
  <2>2. InUse(f[most], Tools) + most <= InUse(r, Tools) /\ InUse(f[most], Tools) \in Nat
    BY <1>8, <2>1, InUseIs
  <2>3. InUse(f[most], Tools) = 0
    BY <1>4, <2>2
  <2>4. D!ActiveTools(f[most]) = {}
    <3>1. IsFiniteSet(D!ActiveTools(f[most]))
      BY CodifiedAssumption, FS_Subset DEF D!ActiveTools
    <3>2. QED
      BY <2>3, <3>1, InUseIs, FS_EmptySet
  <2>5. f[most] \in D!Registry
    BY <1>2, <1>3
  <2>6. QED
    BY <2>1, <2>4, <2>5, OverCapIs
<1>11. QED
  BY <1>8, <1>9, <1>10

LEMMA EvictionAlwaysFits == reg \in D!Registry => D!EvictionFits
<1> SUFFICES ASSUME reg \in D!Registry PROVE D!EvictionFits
  OBVIOUS
<1>1. PICK after : after = D!EvictIfNeeded(reg)
  OBVIOUS
<1>2. Weeded(reg, after) /\ D!OverCap(after) = {} /\ after \in D!Registry
  BY <1>1, EvictIfNeededIs DEF Weeded
<1>3. (\A pool \in Pools : InUse(after, pool) <= MaxRepo) /\ InUse(after, Tools) <= MaxGlobal
  BY <1>2, OverCapIs
<1>4. \A pool : InUse(after, pool) \in Nat
  BY InUseIs
<1>5. after # reg => \/ \E pool \in Pools : InUse(after, pool) = MaxRepo /\ InUse(reg, pool) > MaxRepo
                     \/ InUse(after, Tools) = MaxGlobal
  <2>1. SUFFICES ASSUME after # reg
                 PROVE  \/ \E pool \in Pools : InUse(after, pool) = MaxRepo /\ InUse(reg, pool) > MaxRepo
                        \/ InUse(after, Tools) = MaxGlobal
    OBVIOUS
  <2>2. CASE InUse(after, Tools) >= MaxGlobal
    BY <1>3, <1>4, <2>2, CodifiedAssumption
  <2>3. CASE \E pool \in Pools : InUse(after, pool) >= MaxRepo /\ InUse(reg, pool) > MaxRepo
    BY <1>3, <1>4, <2>3, CodifiedAssumption
  <2>4. QED
    BY <1>2, <2>1, <2>2, <2>3 DEF Weeded
<1>6. \A s, pool : D!Cardinality(D!ActiveTools(s) \cap pool) = InUse(s, pool)
  BY CountedTools DEF InUse
<1>7. QED
  BY <1>1, <1>3, <1>5, <1>6 DEF D!EvictionFits, Pools

(* What the registry says is earned.                                        *)
Untried == {"staged", "rejected", "retired"}
Trusted(h) == (h.approved \cap Bound \cap Clean) \cup h.reverted
Hist == [hits : 0 .. MaxHits, approved : SUBSET Tools, reverted : SUBSET Tools]

(* A tool was used no more often than there were hits, it left the stage only *)
(* when it was trusted or its source reverted, and no task tool is active.    *)
ToolSound(e, t, h) ==
  /\ e.agree <= h.hits /\ e.disagree <= h.hits /\ e.exact <= h.hits
  /\ e.state \notin Untried => t \in Trusted(h)
  /\ e.state = "active" => t \notin TaskTools

RegSound(r, h) == r \in D!Registry /\ \A t \in Tools : ToolSound(r[t], t, h)

(* What a command has asked for, and the copy it holds.                     *)
CommandIsSound(m, h) ==
  /\ m.pc \in {"idle", "confirm", "load", "save", "shadow"}
  /\ m.pc # "idle" => m.tool \in Tools
  /\ m.pc = "confirm" => D!CanPromote(m.tool)
  /\ m.pc \in {"load", "save"} =>
       /\ m.to \in {"probationary", "demoted", "retired", "active"}
       /\ m.to = "probationary" => m.tool \in Trusted(h)
       /\ m.to = "active" => m.tool \notin TaskTools
  /\ m.pc \in {"save", "shadow"} => RegSound(m.copy, h)
  /\ m.pc = "save" => D!Legal(m.copy[m.tool].state, m.to)
  /\ m.pc = "shadow" => \A t \in Tools : m.copy[t].agree < h.hits

CodifiedSound ==
  /\ hist \in Hist
  /\ RegSound(reg, hist)
  /\ calls = [c \in Callers |-> calls[c]]
  /\ \A c \in Callers : CommandIsSound(calls[c], hist)

CodifiedHolds == which = "codified" => CodifiedSound

LEMMA CodifiedStarts == D!Init => CodifiedSound
<1> SUFFICES ASSUME D!Init PROVE CodifiedSound
  OBVIOUS
<1>1. PICK e : e = [state |-> "staged", hits |-> <<>>, agree |-> 0, disagree |-> 0, exact |-> 0, recent |-> FALSE]
  OBVIOUS
<1>2. MaxHits \in Nat
  BY CodifiedAssumption
<1>3. e \in D!Tool
  BY <1>1, <1>2 DEF D!Tool, D!States
<1>4. reg = [t \in Tools |-> e] /\ hist \in Hist /\ hist.hits = 0
  BY <1>1, <1>2 DEF D!Init, Hist
<1>5. RegSound(reg, hist)
  BY <1>1, <1>3, <1>4 DEF RegSound, ToolSound, Untried, D!Registry
<1>6. \A c \in Callers : CommandIsSound(calls[c], hist)
  BY DEF D!Init, D!Reset, CommandIsSound
<1>7. QED
  BY <1>4, <1>5, <1>6 DEF CodifiedSound, D!Init

(* History only grows, and takes nothing away.                              *)
Grown(g, h) ==
  /\ g \in Hist /\ h \in Hist /\ g.hits <= h.hits
  /\ g.approved \subseteq h.approved /\ g.reverted \subseteq h.reverted

LEMMA ToolLasts ==
  ASSUME NEW r \in D!Registry, NEW t \in Tools, NEW g, NEW h, Grown(g, h), ToolSound(r[t], t, g)
  PROVE  ToolSound(r[t], t, h)
<1>1. r[t].agree \in Int /\ r[t].disagree \in Int /\ r[t].exact \in Int
  BY ToolOf
<1>2. g.hits \in Int /\ h.hits \in Int /\ g.hits <= h.hits /\ Trusted(g) \subseteq Trusted(h)
  BY DEF Grown, Hist, Trusted
<1>3. QED
  BY <1>1, <1>2 DEF ToolSound

LEMMA RegLasts ==
  ASSUME NEW r, NEW g, NEW h, Grown(g, h), RegSound(r, g)
  PROVE  RegSound(r, h)
  BY ToolLasts DEF RegSound

LEMMA CommandLasts ==
  ASSUME NEW m, NEW g, NEW h, Grown(g, h), CommandIsSound(m, g)
  PROVE  CommandIsSound(m, h)
<1>1. g.hits \in Int /\ h.hits \in Int /\ g.hits <= h.hits /\ Trusted(g) \subseteq Trusted(h)
  BY DEF Grown, Hist, Trusted
<1>2. m.pc \in {"save", "shadow"} => RegSound(m.copy, h)
  BY RegLasts DEF CommandIsSound
<1>3. m.pc = "shadow" => \A t \in Tools : m.copy[t].agree < h.hits
  <2>1. SUFFICES ASSUME m.pc = "shadow", NEW t \in Tools PROVE m.copy[t].agree < h.hits
    OBVIOUS
  <2>2. m.copy[t].agree \in Int /\ m.copy[t].agree < g.hits
    BY <2>1, ToolOf DEF CommandIsSound, RegSound
  <2>3. QED
    BY <1>1, <2>2
<1>4. QED
  BY <1>1, <1>2, <1>3 DEF CommandIsSound

(* A command moves; the host moves.                                         *)
LEMMA CommandMoves ==
  ASSUME CodifiedSound, NEW c \in Callers, NEW m, calls' = [calls EXCEPT ![c] = m],
         Grown(hist, hist'), CommandIsSound(m, hist'), RegSound(reg', hist')
  PROVE  CodifiedSound'
<1>1. /\ calls' = [d \in Callers |-> calls'[d]] /\ calls'[c] = m
      /\ \A d \in Callers : d # c => calls'[d] = calls[d]
  BY DEF CodifiedSound
<1>2. \A d \in Callers : CommandIsSound(calls'[d], hist')
  <2>1. SUFFICES ASSUME NEW d \in Callers PROVE CommandIsSound(calls'[d], hist')
    OBVIOUS
  <2>2. CASE d = c
    BY <1>1, <2>2
  <2>3. CASE d # c
    BY <1>1, <2>3, CommandLasts DEF CodifiedSound
  <2>4. QED
    BY <2>2, <2>3
<1>3. hist' \in Hist
  BY DEF Grown
<1>4. QED
  BY <1>1, <1>2, <1>3 DEF CodifiedSound

LEMMA HostMoves ==
  ASSUME CodifiedSound, calls' = calls, Grown(hist, hist'), RegSound(reg', hist')
  PROVE  CodifiedSound'
<1>1. \A d \in Callers : CommandIsSound(calls[d], hist')
  BY CommandLasts DEF CodifiedSound
<1>2. hist' \in Hist
  BY DEF Grown
<1>3. QED
  BY <1>1, <1>2 DEF CodifiedSound

(* One tool changes.                                                        *)
LEMMA RegPut ==
  ASSUME NEW r, NEW h, RegSound(r, h), NEW t \in Tools, NEW e \in D!Tool, ToolSound(e, t, h)
  PROVE  /\ RegSound([r EXCEPT ![t] = e], h)
         /\ [r EXCEPT ![t] = e][t] = e
         /\ \A u \in Tools : u # t => [r EXCEPT ![t] = e][u] = r[u]
  BY DEF RegSound, D!Registry

LEMMA StatePut ==
  ASSUME NEW r, NEW h, RegSound(r, h), NEW t \in Tools, NEW st \in D!States,
         st \notin Untried => t \in Trusted(h),
         st = "active" => t \notin TaskTools
  PROVE  RegSound(D!SetState(r, t, st), h)
<1>1. r \in D!Registry /\ \A u \in Tools : ToolSound(r[u], u, h)
  BY DEF RegSound
<1>2. PICK s \in D!Registry : s = D!SetState(r, t, st)
  BY <1>1, Retired
<1>3. /\ s[t].state = st
      /\ s[t].agree = r[t].agree /\ s[t].disagree = r[t].disagree /\ s[t].exact = r[t].exact
      /\ \A u \in Tools : u # t => s[u] = r[u]
  BY <1>1, <1>2, Retired
<1>4. ToolSound(s[t], t, h)
  BY <1>1, <1>3 DEF ToolSound
<1>5. \A u \in Tools : ToolSound(s[u], u, h)
  BY <1>1, <1>3, <1>4
<1>6. QED
  BY <1>2, <1>5 DEF RegSound

(* A recorded hit counts as what it was, and changes no state.               *)
LEMMA HitRecorded ==
  ASSUME NEW e \in D!Tool, NEW kind \in D!Kinds,
         kind = "exact" => e.exact < MaxHits,
         kind = "shadow-agree" => e.agree < MaxHits,
         kind = "shadow-disagree" => e.disagree < MaxHits
  PROVE  /\ D!RecordHit(e, kind) \in D!Tool
         /\ D!RecordHit(e, kind).state = e.state
         /\ D!RecordHit(e, kind).exact = e.exact + (IF kind = "exact" THEN 1 ELSE 0)
         /\ D!RecordHit(e, kind).agree = e.agree + (IF kind = "shadow-agree" THEN 1 ELSE 0)
         /\ D!RecordHit(e, kind).disagree = e.disagree + (IF kind = "shadow-disagree" THEN 1 ELSE 0)
<1>1. PICK hit : hit = IF kind \in D!Hits THEN kind ELSE "ok"
  OBVIOUS
<1>2. hit \in D!Hits
  BY <1>1 DEF D!Hits
<1>3. PICK hits \in Seq(D!Hits) : hits = D!PushRecent(e.hits, hit)
  <2> DEFINE all == Append(e.hits, hit)
  <2>1. all \in Seq(D!Hits) /\ all # <<>>
    <3>1. PICK before \in Seq(D!Hits) : before = e.hits
      BY DEF D!Tool
    <3>2. Append(before, hit) \in Seq(D!Hits) /\ Append(before, hit) # <<>>
      BY <1>2
    <3>3. QED
      BY <3>1, <3>2
  <2>2. Tail(all) \in Seq(D!Hits)
    BY <2>1
  <2>3. D!PushRecent(e.hits, hit) \in Seq(D!Hits)
    BY <2>1, <2>2 DEF D!PushRecent
  <2>4. QED
    BY <2>3
<1>4. PICK x, a, d : /\ x = e.exact + (IF kind = "exact" THEN 1 ELSE 0)
                     /\ a = e.agree + (IF kind = "shadow-agree" THEN 1 ELSE 0)
                     /\ d = e.disagree + (IF kind = "shadow-disagree" THEN 1 ELSE 0)
  OBVIOUS
<1>5. D!RecordHit(e, kind) = [e EXCEPT !.hits = hits, !.recent = TRUE, !.exact = x, !.agree = a, !.disagree = d]
  BY <1>1, <1>3, <1>4 DEF D!RecordHit
<1>6. x \in 0 .. MaxHits /\ a \in 0 .. MaxHits /\ d \in 0 .. MaxHits
  BY <1>4, CodifiedAssumption DEF D!Tool
<1>7. QED
  BY <1>4, <1>5, <1>6 DEF D!Tool

(* What a hit earns or costs a tool that is in use; one that is out stays so *)
(* or is retired.                                                           *)
LEMMA Judged ==
  ASSUME NEW e \in D!Tool, NEW t
  PROVE  LET j == D!MaybeDemote(D!MaybeActivate(e, t)) IN
         /\ j \in D!Tool /\ j.agree = e.agree /\ j.disagree = e.disagree /\ j.exact = e.exact
         /\ \/ j.state \in {e.state, "retired"}
            \/ e.state \in {"probationary", "active"} /\ j.state \in {"active", "demoted"}
         /\ j.state = "active" => e.state = "active" \/ t \notin TaskTools
<1>1. PICK a : a = D!MaybeActivate(e, t)
  OBVIOUS
<1>2. /\ a \in D!Tool /\ a.agree = e.agree /\ a.disagree = e.disagree /\ a.exact = e.exact
      /\ a.state = e.state \/ (e.state = "probationary" /\ a.state = "active" /\ t \notin TaskTools)
  BY <1>1 DEF D!MaybeActivate, D!Tool, D!States
<1>3. PICK j : j = D!MaybeDemote(a)
  OBVIOUS
<1>4. PICK retire, demote : j = IF a.state = "demoted" /\ retire THEN [a EXCEPT !.state = "retired"]
                                ELSE IF a.state = "active" /\ demote THEN [a EXCEPT !.state = "demoted"] ELSE a
  BY <1>3, Zenon DEF D!MaybeDemote
<1>5. /\ j \in D!Tool /\ j.agree = a.agree /\ j.disagree = a.disagree /\ j.exact = a.exact
      /\ \/ j.state = a.state
         \/ a.state = "demoted" /\ j.state = "retired"
         \/ a.state = "active" /\ j.state = "demoted"
  BY <1>2, <1>4 DEF D!Tool, D!States
<1>6. QED
  BY <1>1, <1>2, <1>3, <1>5

(* A tool that a stage may run in the host's place.                          *)
LEMMA ExactIs ==
  ASSUME RegSound(reg, hist), NEW q \in Stages, D!Dispatch(reg, q) = "exact"
  PROVE  /\ q.ceiling = "exact" /\ q.sandbox /\ ~q.churn
         /\ \E t \in Tools : D!Matches(reg, q) = {t} /\ reg[t].state = "active"
<1>1. q \in D!Query
  BY CodifiedAssumption
<1>2. q.ceiling \in D!Modes /\ q.ceiling # "off"
  BY <1>1 DEF D!Query, D!Dispatch
<1>3. PICK found : found = D!Matches(reg, q)
  OBVIOUS
<1>4. PICK wanted : wanted = D!Wanted(reg, q)
  OBVIOUS
<1>5. PICK mode : mode = D!CapMode(wanted, q.ceiling)
  OBVIOUS
<1>6. found # {} /\ D!Dispatch(reg, q) = IF mode \in {"exact", "shadow"} /\ ~q.sandbox THEN "refused" ELSE mode
  BY <1>2, <1>3, <1>4, <1>5 DEF D!Dispatch
<1>7. mode = "exact" /\ q.sandbox
  BY <1>1, <1>6 DEF D!Query
<1>8. found \subseteq Tools /\ \A t \in found : reg[t].state \in {"active", "probationary", "assist"}
  BY <1>1, <1>3 DEF D!Matches, D!Query
<1>9. PICK t : t = CHOOSE u \in found : TRUE
  OBVIOUS
<1>10. t \in found
  BY <1>6, <1>9
<1>11. /\ wanted \in {"partial", "shadow", "exact"}
       /\ wanted = "exact" => ~ (D!Cardinality(found) >= 2) /\ reg[t].state = "active" /\ ~q.churn
  BY <1>3, <1>4, <1>9 DEF D!Wanted
<1>12. D!Rank("partial") = 1 /\ D!Rank("shadow") = 2 /\ D!Rank("exact") = 3
  BY DEF D!Rank
<1>13. q.ceiling = "exact"
  BY <1>2, <1>5, <1>7, <1>11, <1>12 DEF D!CapMode, D!Modes
<1>14. wanted = "exact"
  BY <1>5, <1>7, <1>11, <1>12, <1>13 DEF D!CapMode
<1>15. found = {t}
  <2>1. IsFiniteSet(found) /\ IsFiniteSet({t})
    BY <1>8, CodifiedAssumption, FS_Subset, FS_Singleton
  <2>2. Cardinality(found) \in Nat /\ ~ (Cardinality(found) >= 2)
    BY <1>11, <1>14, <2>1, CountedTools, FS_CardinalityType
  <2>3. ASSUME NEW u \in found, u # t PROVE FALSE
    <3>1. {t, u} \subseteq found /\ Cardinality({t} \cup {u}) = Cardinality({t}) + 1 /\ Cardinality({t}) = 1
      BY <1>10, <2>1, <2>3, FS_AddElement, FS_Singleton
    <3>2. {t} \cup {u} \in SUBSET found
      BY <1>10, <2>3
    <3>3. Cardinality({t} \cup {u}) <= Cardinality(found)
      BY <2>1, <3>2, FS_Subset
    <3>4. QED
      BY <2>2, <3>1, <3>3
  <2>4. QED
    BY <1>10, <2>3
<1>16. QED
  BY <1>3, <1>7, <1>8, <1>10, <1>11, <1>13, <1>14, <1>15

LEMMA EarnedExact == CodifiedSound => D!ExactIsEarned
<1> SUFFICES ASSUME CodifiedSound, NEW q \in Stages, D!Dispatch(reg, q) = "exact"
             PROVE  /\ q.ceiling = "exact" /\ q.sandbox /\ ~q.churn
                    /\ D!Cardinality(D!Matches(reg, q)) = 1
                    /\ D!Matches(reg, q) \cap TaskTools = {}
                    /\ D!Matches(reg, q) \subseteq (hist.approved \cap Bound \cap Clean) \cup hist.reverted
  BY DEF D!ExactIsEarned
<1>1. RegSound(reg, hist)
  BY DEF CodifiedSound
<1>2. PICK t \in Tools : D!Matches(reg, q) = {t} /\ reg[t].state = "active"
  BY <1>1, ExactIs
<1>3. t \in (hist.approved \cap Bound \cap Clean) \cup hist.reverted /\ t \notin TaskTools
  BY <1>1, <1>2 DEF RegSound, ToolSound, Trusted, Untried
<1>4. D!Cardinality({t}) = 1
  BY CountedTools, FS_Singleton
<1>5. QED
  BY <1>1, <1>2, <1>3, <1>4, ExactIs

(* The steps of a command.                                                  *)
Gone == {"demoted", "drifted", "retired", "rejected"}

LEMMA NobodyBack ==
  ASSUME \A t \in Tools : reg[t].state \in Gone => reg'[t].state \in {reg[t].state, "retired"}
  PROVE  D!StaysOut
  BY DEF D!StaysOut, Gone

LEMMA HistStays == CodifiedSound /\ hist' = hist => Grown(hist, hist')
  BY DEF CodifiedSound, Grown, Hist

LEMMA CalledOn ==
  ASSUME CodifiedSound, NEW c \in Callers, NEW m, calls' = [calls EXCEPT ![c] = m]
  PROVE  CommandIsSound(calls[c], hist) /\ calls'[c] = m
  BY DEF CodifiedSound

LEMMA ResetSound == \A h : CommandIsSound(D!Reset, h) /\ D!Reset.pc = "idle"
  BY DEF CommandIsSound, D!Reset

LEMMA Asked ==
  ASSUME NEW c, NEW pc, NEW t, NEW to
  PROVE  /\ D!Ask(c, pc, t, to) =>
              \E m : /\ calls' = [calls EXCEPT ![c] = m]
                     /\ m.pc = pc /\ m.tool = t /\ m.to = to
         /\ D!Hold(c, pc, t, to) =>
              \E m : /\ calls' = [calls EXCEPT ![c] = m]
                     /\ m.pc = pc /\ m.tool = t /\ m.to = to /\ m.copy = reg
<1>1. PICK m : m = [pc |-> pc, to |-> to, tool |-> t, copy |-> D!NoCopy]
  OBVIOUS
<1>2. PICK n : n = [pc |-> pc, to |-> to, tool |-> t, copy |-> reg]
  OBVIOUS
<1>3. D!Ask(c, pc, t, to) => calls' = [calls EXCEPT ![c] = m]
  BY <1>1 DEF D!Ask
<1>4. D!Hold(c, pc, t, to) => calls' = [calls EXCEPT ![c] = n]
  BY <1>2 DEF D!Hold
<1>5. m.pc = pc /\ m.tool = t /\ m.to = to /\ n.pc = pc /\ n.tool = t /\ n.to = to /\ n.copy = reg
  BY <1>1, <1>2
<1>6. QED
  BY <1>3, <1>4, <1>5, Zenon

(* A command that asks, or takes a copy, and changes no tool.               *)
LEMMA AskKeeps ==
  ASSUME CodifiedSound, NEW c \in Callers,
         NEW t \in Tools, D!Promote(c, t) \/ D!Demote(c, t) \/ D!Retire(c, t)
  PROVE  CodifiedSound' /\ D!StaysOut
<1>1. reg' = reg /\ hist' = hist /\ D!StaysOut
  BY NobodyBack DEF D!Promote, D!Demote, D!Retire
<1>2. PICK m : /\ calls' = [calls EXCEPT ![c] = m] /\ m.tool = t
               /\ \/ m.pc = "confirm" /\ D!CanPromote(t)
                  \/ m.pc = "load" /\ m.to \in {"demoted", "retired"}
  <2>1. CASE D!Promote(c, t)
    BY <2>1, Asked DEF D!Promote
  <2>2. CASE D!Demote(c, t)
    BY <2>2, Asked DEF D!Demote
  <2>3. CASE D!Retire(c, t)
    BY <2>3, Asked DEF D!Retire
  <2>4. QED
    BY <2>1, <2>2, <2>3
<1>3. CommandIsSound(m, hist)
  BY <1>2 DEF CommandIsSound
<1>4. RegSound(reg, hist)
  BY DEF CodifiedSound
<1>5. QED
  BY <1>1, <1>2, <1>3, <1>4, HistStays, CommandMoves

(* There is one hit more.                                                   *)
LEMMA HitCounts ==
  ASSUME CodifiedSound, hist.hits < MaxHits, hist' = [hist EXCEPT !.hits = hist.hits + 1]
  PROVE  Grown(hist, hist') /\ hist'.hits = hist.hits + 1 /\ Trusted(hist') = Trusted(hist)
<1>1. PICK h \in Hist : h = hist
  BY DEF CodifiedSound
<1>2. PICK g : g = [h EXCEPT !.hits = h.hits + 1]
  OBVIOUS
<1>3. /\ g \in Hist /\ g.hits = h.hits + 1 /\ h.hits <= g.hits
      /\ g.approved = h.approved /\ g.reverted = h.reverted
  BY <1>1, <1>2, CodifiedAssumption DEF Hist
<1>4. hist' = g
  BY <1>1, <1>2
<1>5. QED
  BY <1>1, <1>3, <1>4 DEF Grown, Trusted

LEMMA ShadowKeeps ==
  ASSUME CodifiedSound, NEW c \in Callers, NEW t \in Tools, D!Shadow(c, t)
  PROVE  CodifiedSound' /\ D!StaysOut
<1>1. reg' = reg /\ D!StaysOut
  BY NobodyBack DEF D!Shadow
<1>2. PICK m : /\ calls' = [calls EXCEPT ![c] = m]
               /\ m.pc = "shadow" /\ m.tool = t /\ m.copy = reg
  BY Asked DEF D!Shadow
<1>3. Grown(hist, hist') /\ hist'.hits = hist.hits + 1
  BY HitCounts DEF D!Shadow
<1>4. RegSound(reg, hist) /\ hist \in Hist
  BY DEF CodifiedSound
<1>5. RegSound(reg, hist')
  BY <1>3, <1>4, RegLasts
<1>6. \A u \in Tools : reg[u].agree < hist'.hits
  <2>1. SUFFICES ASSUME NEW u \in Tools PROVE reg[u].agree < hist'.hits
    OBVIOUS
  <2>2. reg[u].agree \in Int /\ reg[u].agree <= hist.hits /\ hist.hits \in Int
    BY <1>4, ToolOf DEF RegSound, ToolSound, Hist
  <2>3. QED
    BY <1>3, <2>2
<1>7. CommandIsSound(m, hist')
  BY <1>2, <1>5, <1>6 DEF CommandIsSound
<1>8. QED
  BY <1>1, <1>2, <1>3, <1>5, <1>7, CommandMoves

LEMMA ConfirmKeeps ==
  ASSUME CodifiedSound, NEW c \in Callers, D!Confirm(c)
  PROVE  CodifiedSound' /\ D!StaysOut
<1>1. reg' = reg /\ D!StaysOut /\ calls[c].pc = "confirm"
  BY NobodyBack DEF D!Confirm
<1>2. RegSound(reg, hist) /\ hist \in Hist /\ CommandIsSound(calls[c], hist)
  BY DEF CodifiedSound
<1>3. PICK t \in Tools : t = calls[c].tool /\ D!CanPromote(t)
  BY <1>1, <1>2 DEF CommandIsSound
<1>4. CASE D!Done(c) /\ hist' = hist
  BY <1>1, <1>2, <1>4, HistStays, ResetSound, CommandMoves DEF D!Done
<1>5. CASE /\ D!Ask(c, "load", calls[c].tool, "probationary")
           /\ hist' = [hist EXCEPT !.approved = hist.approved \cup {calls[c].tool}]
  <2>1. Grown(hist, hist') /\ t \in Trusted(hist')
    BY <1>2, <1>3, <1>5 DEF Grown, Hist, Trusted, D!CanPromote
  <2>2. PICK m : calls' = [calls EXCEPT ![c] = m] /\ m.pc = "load" /\ m.to = "probationary" /\ m.tool = t
    BY <1>3, <1>5, Asked
  <2>3. CommandIsSound(m, hist')
    BY <2>1, <2>2 DEF CommandIsSound
  <2>4. QED
    BY <1>1, <1>2, <2>1, <2>2, <2>3, RegLasts, CommandMoves
<1>6. QED
  BY <1>4, <1>5 DEF D!Confirm

LEMMA LoadCommandKeeps ==
  ASSUME CodifiedSound, NEW c \in Callers, D!Load(c)
  PROVE  CodifiedSound' /\ D!StaysOut
<1>1. reg' = reg /\ hist' = hist /\ D!StaysOut /\ calls[c].pc = "load"
  BY NobodyBack DEF D!Load
<1>2. RegSound(reg, hist) /\ hist \in Hist /\ CommandIsSound(calls[c], hist)
  BY DEF CodifiedSound
<1>3. CASE D!Done(c)
  BY <1>1, <1>2, <1>3, HistStays, ResetSound, CommandMoves DEF D!Done
<1>4. CASE D!Legal(reg[calls[c].tool].state, calls[c].to) /\ D!Hold(c, "save", calls[c].tool, calls[c].to)
  <2>1. PICK m : /\ calls' = [calls EXCEPT ![c] = m] /\ m.pc = "save" /\ m.to = calls[c].to
                 /\ m.tool = calls[c].tool /\ m.copy = reg
    BY <1>4, Asked
  <2>2. CommandIsSound(m, hist)
    BY <1>1, <1>2, <1>4, <2>1 DEF CommandIsSound
  <2>3. QED
    BY <1>1, <1>2, <2>1, <2>2, HistStays, CommandMoves
<1>5. QED
  BY <1>3, <1>4 DEF D!Load

(* Only what was legal for the copy is written.                             *)
LEMMA SaveKeeps ==
  ASSUME CodifiedSound, NEW c \in Callers, D!Save(c)
  PROVE  CodifiedSound' /\ D!StaysOut
<1>1. /\ calls[c].pc = "save" /\ hist' = hist /\ calls' = [calls EXCEPT ![c] = D!Reset]
      /\ reg' = D!SetState(calls[c].copy, calls[c].tool, calls[c].to)
  BY DEF D!Save, D!Done
<1>2. CommandIsSound(calls[c], hist) /\ hist \in Hist
  BY DEF CodifiedSound
<1>3. PICK r, t, to : t \in Tools /\ r = calls[c].copy /\ t = calls[c].tool /\ to = calls[c].to
  BY <1>1, <1>2 DEF CommandIsSound
<1>4. /\ RegSound(r, hist) /\ r \in D!Registry
      /\ to \in {"probationary", "demoted", "retired", "active"}
      /\ to = "probationary" => t \in Trusted(hist)
      /\ to = "active" => t \notin TaskTools
      /\ D!Legal(r[t].state, to)
  BY <1>1, <1>2, <1>3 DEF CommandIsSound, RegSound
<1>5. to \in D!States
  BY <1>4 DEF D!States
<1>6. to \notin Untried => t \in Trusted(hist)
  <2>1. ToolSound(r[t], t, hist)
    BY <1>3, <1>4 DEF RegSound
  <2>2. to \in {"demoted", "active"} => r[t].state \in {"active", "probationary", "demoted"}
    BY <1>4 DEF D!Legal, D!LegalTransitions
  <2>3. QED
    BY <1>4, <2>1, <2>2 DEF ToolSound, Untried
<1>7. RegSound(reg', hist)
  BY <1>1, <1>3, <1>4, <1>5, <1>6, StatePut
<1>8. CodifiedSound'
  BY <1>1, <1>7, HistStays, ResetSound, CommandMoves
<1>9. reg'[t].state = to /\ \A v \in Tools : v # t => reg'[v] = r[v]
  <2>1. PICK s : s = D!SetState(r, t, to)
    OBVIOUS
  <2>2. s[t].state = to /\ \A v \in Tools : v # t => s[v] = r[v]
    BY <1>3, <1>4, <1>5, <2>1, Retired
  <2>3. reg' = s
    BY <1>1, <1>3, <2>1
  <2>4. QED
    BY <2>2, <2>3
<1>10. D!StaysOut
  <2>1. SUFFICES ASSUME NEW u \in Tools, reg[u].state \in Gone, reg'[u].state \notin {reg[u].state, "retired"}
                 PROVE  \/ calls[c].copy # reg
                        \/ /\ reg[u].state \in {"demoted", "drifted"} /\ reg'[u].state = "probationary"
                           /\ calls[c].tool = u /\ calls[c].to = "probationary"
    <3>1. calls[c] # calls'[c]
      BY <1>1, ResetSound, CalledOn
    <3>2. QED
      BY <1>1, <3>1 DEF D!StaysOut, Gone
  <2>2. SUFFICES ASSUME r = reg
                 PROVE  /\ reg[u].state \in {"demoted", "drifted"} /\ reg'[u].state = "probationary"
                        /\ t = u /\ to = "probationary"
    BY <1>3
  <2>3. u = t
    BY <1>9, <2>1, <2>2
  <2>4. D!Legal(reg[t].state, to) /\ reg[t].state \in Gone /\ to \notin {reg[t].state, "retired"}
    BY <1>4, <1>9, <2>1, <2>2, <2>3
  <2>5. to = "probationary" /\ reg[t].state \in {"demoted", "drifted"}
    BY <2>4 DEF D!Legal, D!LegalTransitions, Gone
  <2>6. QED
    BY <1>9, <2>3, <2>5
<1>11. QED
  BY <1>8, <1>10

(* A shadow run of a command counts, for a copy that may be an old one.      *)
LEMMA ShadowSaveKeeps ==
  ASSUME CodifiedSound, NEW c \in Callers, D!ShadowSave(c)
  PROVE  CodifiedSound' /\ D!StaysOut
<1>1. calls[c].pc = "shadow" /\ hist' = hist
  BY DEF D!ShadowSave
<1>2. CommandIsSound(calls[c], hist) /\ hist \in Hist
  BY DEF CodifiedSound
<1>3. PICK r, t : t \in Tools /\ r = calls[c].copy /\ t = calls[c].tool
  BY <1>1, <1>2 DEF CommandIsSound
<1>4. /\ RegSound(r, hist) /\ r \in D!Registry /\ ToolSound(r[t], t, hist)
      /\ r[t].agree < hist.hits /\ hist.hits \in Int /\ hist.hits <= MaxHits
  BY <1>1, <1>2, <1>3 DEF CommandIsSound, RegSound, Hist
<1>5. PICK e : e = D!RecordHit(r[t], "shadow-agree")
  OBVIOUS
<1>6. "shadow-agree" \in D!Kinds /\ r[t] \in D!Tool /\ r[t].agree \in Int /\ r[t].agree < MaxHits
  BY <1>3, <1>4, ToolOf, CodifiedAssumption DEF D!Kinds
<1>7. /\ e \in D!Tool /\ e.state = r[t].state /\ e.agree = r[t].agree + 1
      /\ e.exact = r[t].exact /\ e.disagree = r[t].disagree
  <2>1. r[t].exact \in Int /\ r[t].disagree \in Int
    BY <1>3, <1>4, ToolOf
  <2>2. QED
    BY <1>5, <1>6, <2>1, HitRecorded
<1>8. ToolSound(e, t, hist)
  BY <1>4, <1>6, <1>7 DEF ToolSound
<1>9. reg' = [r EXCEPT ![t] = e]
  BY <1>3, <1>5 DEF D!ShadowSave
<1>10. RegSound(reg', hist) /\ reg'[t] = e /\ \A u \in Tools : u # t => reg'[u] = r[u]
  BY <1>3, <1>4, <1>7, <1>8, <1>9, RegPut
<1>11. PICK m : /\ calls' = [calls EXCEPT ![c] = m] /\ CommandIsSound(m, hist) /\ m.pc # "shadow"
  <2>1. CASE D!Done(c)
    BY <2>1, ResetSound DEF D!Done
  <2>2. CASE D!MaybeActivate(e, t).state # e.state /\ D!Ask(c, "load", t, "active")
    <3>1. t \notin TaskTools
      BY <2>2 DEF D!MaybeActivate
    <3>2. PICK m : calls' = [calls EXCEPT ![c] = m] /\ m.pc = "load" /\ m.tool = t /\ m.to = "active"
      BY <2>2, Asked
    <3>3. CommandIsSound(m, hist)
      BY <1>3, <3>1, <3>2 DEF CommandIsSound
    <3>4. QED
      BY <3>2, <3>3
  <2>3. QED
    BY <1>3, <1>5, <2>1, <2>2 DEF D!ShadowSave
<1>12. CodifiedSound'
  BY <1>1, <1>10, <1>11, HistStays, CommandMoves
<1>13. D!StaysOut
  <2>1. calls[c] # calls'[c]
    BY <1>1, <1>11, CalledOn
  <2>2. CASE r # reg
    BY <1>1, <1>3, <2>1, <2>2 DEF D!StaysOut
  <2>3. CASE r = reg
    <3>1. \A u \in Tools : reg'[u].state = reg[u].state
      BY <1>7, <1>10, <2>3
    <3>2. QED
      BY <3>1, NobodyBack
  <2>4. QED
    BY <2>2, <2>3
<1>14. QED
  BY <1>12, <1>13

(* The host changes one tool: it may go wherever it may go from its state.   *)
LEMMA StateKeeps ==
  ASSUME CodifiedSound, NEW t \in Tools, NEW st \in D!States,
         calls' = calls, hist' = hist, reg' = D!SetState(reg, t, st),
         st \notin Untried => t \in Trusted(hist), st # "active",
         reg[t].state \in Gone => st \in {reg[t].state, "retired"}
  PROVE  CodifiedSound' /\ D!StaysOut
<1>1. RegSound(reg, hist) /\ reg \in D!Registry
  BY DEF CodifiedSound, RegSound
<1>2. RegSound(reg', hist)
  BY <1>1, StatePut
<1>3. reg'[t].state = st /\ \A u \in Tools : u # t => reg'[u] = reg[u]
  BY <1>1, Retired
<1>4. D!StaysOut
  BY <1>3, NobodyBack
<1>5. QED
  BY <1>2, <1>4, HistStays, HostMoves

LEMMA HostKeeps ==
  ASSUME CodifiedSound, NEW t \in Tools,
         D!Drift(t) \/ D!SafetyRetire(t) \/ D!Reject(t)
  PROVE  CodifiedSound' /\ D!StaysOut
<1>1. calls' = calls /\ hist' = hist
  BY DEF D!Drift, D!SafetyRetire, D!Reject, D!Host
<1>2. ToolSound(reg[t], t, hist) /\ {"drifted", "retired", "rejected"} \subseteq D!States
  BY DEF CodifiedSound, RegSound, D!States
<1>3. CASE D!Drift(t)
  <2>1. reg' = D!SetState(reg, t, "drifted") /\ reg[t].state \in {"drifted", "active", "probationary"}
    BY <1>3 DEF D!Drift, D!Host, D!Legal, D!LegalTransitions
  <2>2. t \in Trusted(hist)
    BY <1>2, <2>1 DEF ToolSound, Untried
  <2>3. QED
    BY <1>1, <1>2, <2>1, <2>2, StateKeeps DEF Gone
<1>4. CASE D!SafetyRetire(t)
  <2>1. reg' = D!SetState(reg, t, "retired")
    BY <1>4 DEF D!SafetyRetire, D!Host
  <2>2. QED
    BY <1>1, <1>2, <2>1, StateKeeps DEF Untried
<1>5. CASE D!Reject(t)
  <2>1. reg' = D!SetState(reg, t, "rejected") /\ reg[t].state \in {"rejected", "staged"}
    BY <1>5 DEF D!Reject, D!Host, D!Legal, D!LegalTransitions
  <2>2. QED
    BY <1>1, <1>2, <2>1, StateKeeps DEF Untried, Gone
<1>6. QED
  BY <1>3, <1>4, <1>5

(* A reversion of the source takes a tool from the stage, or back from where  *)
(* it was demoted or drifted to.                                            *)
LEMMA RevertedKeeps ==
  ASSUME CodifiedSound, NEW t \in Tools, D!SurvivalReverted(t)
  PROVE  CodifiedSound' /\ D!StaysOut
<1>1. /\ calls' = calls /\ reg' = D!SetState(reg, t, "probationary") /\ D!Legal(reg[t].state, "probationary")
      /\ hist' = IF reg[t].state = "staged" THEN [hist EXCEPT !.reverted = hist.reverted \cup {t}] ELSE hist
  BY DEF D!SurvivalReverted, D!Host
<1>2. RegSound(reg, hist) /\ reg \in D!Registry /\ ToolSound(reg[t], t, hist) /\ "probationary" \in D!States
  BY DEF CodifiedSound, RegSound, D!States
<1>3. reg[t].state \in {"probationary", "staged", "active", "demoted", "drifted"}
  BY <1>1 DEF D!Legal, D!LegalTransitions
<1>4. PICK h : h = hist'
  OBVIOUS
<1>5. Grown(hist, h) /\ t \in Trusted(h)
  <2>1. hist \in Hist
    BY DEF CodifiedSound
  <2>2. CASE reg[t].state = "staged"
    BY <1>1, <1>4, <2>1, <2>2 DEF Grown, Hist, Trusted
  <2>3. CASE reg[t].state # "staged"
    BY <1>1, <1>2, <1>3, <1>4, <2>1, <2>3 DEF Grown, Hist, ToolSound, Untried
  <2>4. QED
    BY <2>2, <2>3
<1>6. RegSound(reg', h)
  <2>1. RegSound(reg, h)
    BY <1>2, <1>5, RegLasts
  <2>2. RegSound(D!SetState(reg, t, "probationary"), h)
    BY <1>2, <1>5, <2>1, StatePut
  <2>3. QED
    BY <1>1, <2>2
<1>7. reg'[t].state = "probationary" /\ \A u \in Tools : u # t => reg'[u] = reg[u]
  BY <1>1, <1>2, Retired
<1>8. D!StaysOut
  <2>1. SUFFICES ASSUME NEW u \in Tools, reg[u].state \in Gone, reg'[u].state \notin {reg[u].state, "retired"}
                 PROVE  /\ reg[u].state \in {"demoted", "drifted"} /\ reg'[u].state = "probationary"
                        /\ u = t
    BY DEF D!StaysOut, Gone
  <2>2. u = t
    BY <1>7, <2>1
  <2>3. QED
    BY <1>3, <1>7, <2>1, <2>2 DEF Gone
<1>9. QED
  BY <1>1, <1>4, <1>5, <1>6, <1>8, HostMoves

LEMMA UsedKeeps ==
  ASSUME CodifiedSound, NEW t \in Tools, NEW kind \in D!Kinds, D!Used(t, kind)
  PROVE  CodifiedSound' /\ D!StaysOut
<1>1. /\ hist.hits < MaxHits /\ hist' = [hist EXCEPT !.hits = hist.hits + 1] /\ calls' = calls
  BY DEF D!Used, D!Host
<1>2. Grown(hist, hist') /\ hist'.hits = hist.hits + 1 /\ Trusted(hist') = Trusted(hist)
  BY <1>1, HitCounts
<1>3. /\ RegSound(reg, hist) /\ reg \in D!Registry /\ ToolSound(reg[t], t, hist) /\ hist.hits \in Int
      /\ MaxHits \in Int
  BY CodifiedAssumption DEF CodifiedSound, RegSound, Hist
<1>4. /\ reg[t] \in D!Tool
      /\ reg[t].agree \in Int /\ reg[t].disagree \in Int /\ reg[t].exact \in Int
      /\ reg[t].agree <= hist.hits /\ reg[t].disagree <= hist.hits /\ reg[t].exact <= hist.hits
  BY <1>3, ToolOf DEF ToolSound
<1>5. PICK e \in D!Tool :
        /\ e = D!RecordHit(reg[t], kind) /\ e.state = reg[t].state
        /\ e.exact = reg[t].exact + (IF kind = "exact" THEN 1 ELSE 0)
        /\ e.agree = reg[t].agree + (IF kind = "shadow-agree" THEN 1 ELSE 0)
        /\ e.disagree = reg[t].disagree + (IF kind = "shadow-disagree" THEN 1 ELSE 0)
  <2>1. reg[t].exact < MaxHits /\ reg[t].agree < MaxHits /\ reg[t].disagree < MaxHits
    BY <1>1, <1>3, <1>4
  <2>2. QED
    BY <1>4, <2>1, HitRecorded
<1>6. PICK j \in D!Tool :
        /\ j = D!MaybeDemote(D!MaybeActivate(e, t))
        /\ j.agree = e.agree /\ j.disagree = e.disagree /\ j.exact = e.exact
        /\ \/ j.state \in {e.state, "retired"}
           \/ e.state \in {"probationary", "active"} /\ j.state \in {"active", "demoted"}
        /\ j.state = "active" => e.state = "active" \/ t \notin TaskTools
  BY Judged
<1>7. reg' = [reg EXCEPT ![t] = j]
  BY <1>5, <1>6 DEF D!Used, D!Host
<1>8. j.agree <= hist'.hits /\ j.disagree <= hist'.hits /\ j.exact <= hist'.hits
  BY <1>2, <1>3, <1>4, <1>5, <1>6
<1>9. ToolSound(j, t, hist')
  BY <1>2, <1>3, <1>5, <1>6, <1>8 DEF ToolSound, Untried
<1>10. RegSound(reg, hist')
  BY <1>2, <1>3, RegLasts
<1>11. RegSound(reg', hist') /\ reg'[t] = j /\ \A u \in Tools : u # t => reg'[u] = reg[u]
  <2>1. PICK h, r : h = hist' /\ r = reg
    OBVIOUS
  <2>2. RegSound(r, h) /\ ToolSound(j, t, h)
    BY <1>9, <1>10, <2>1
  <2>3. /\ RegSound([r EXCEPT ![t] = j], h) /\ [r EXCEPT ![t] = j][t] = j
        /\ \A u \in Tools : u # t => [r EXCEPT ![t] = j][u] = r[u]
    BY <2>2, RegPut
  <2>4. reg' = [r EXCEPT ![t] = j]
    BY <1>7, <2>1
  <2>5. QED
    BY <2>1, <2>3, <2>4
<1>12. D!StaysOut
  <2>1. reg[t].state \in Gone => j.state \in {reg[t].state, "retired"}
    BY <1>5, <1>6 DEF Gone
  <2>2. QED
    BY <1>11, <2>1, NobodyBack
<1>13. QED
  BY <1>1, <1>2, <1>11, <1>12, HostMoves

(* The host changes any tools, but only retires them.                       *)
LEMMA ManyKeep ==
  ASSUME CodifiedSound, calls' = calls, hist' = hist, reg' \in D!Registry,
         \A t \in Tools : /\ reg'[t].state \in {reg[t].state, "retired"}
                          /\ reg'[t].agree = reg[t].agree /\ reg'[t].disagree = reg[t].disagree
                          /\ reg'[t].exact = reg[t].exact
  PROVE  CodifiedSound' /\ D!StaysOut
<1>1. RegSound(reg, hist)
  BY DEF CodifiedSound
<1>2. \A t \in Tools : ToolSound(reg'[t], t, hist)
  BY <1>1 DEF RegSound, ToolSound, Untried
<1>3. RegSound(reg', hist)
  BY <1>2 DEF RegSound
<1>4. D!StaysOut
  BY NobodyBack
<1>5. QED
  BY <1>3, <1>4, HistStays, HostMoves

LEMMA ManyRetired ==
  ASSUME CodifiedSound, D!Evict \/ D!Stale \/ \E t \in Tools : D!Age(t)
  PROVE  CodifiedSound' /\ D!StaysOut
<1>1. reg \in D!Registry /\ calls' = calls /\ hist' = hist
  BY DEF CodifiedSound, RegSound, D!Evict, D!Stale, D!Age, D!Host
<1>2. CASE D!Evict
  <2>1. reg' = D!EvictIfNeeded(reg)
    BY <1>2 DEF D!Evict, D!Host
  <2>2. Weeded(reg, reg')
    BY <1>1, <2>1, EvictIfNeededIs
  <2>3. QED
    BY <1>1, <2>2, ManyKeep DEF Weeded
<1>3. CASE D!Stale
  <2>1. reg' = D!MarkStale(reg)
    BY <1>3 DEF D!Stale, D!Host
  <2>2. ASSUME NEW t \in Tools
        PROVE  /\ reg'[t] \in D!Tool /\ reg'[t].state \in {reg[t].state, "retired"}
               /\ reg'[t].agree = reg[t].agree /\ reg'[t].disagree = reg[t].disagree
               /\ reg'[t].exact = reg[t].exact
    <3>1. PICK e : e = reg[t] /\ e \in D!Tool
      BY <1>1, ToolOf
    <3>2. reg'[t] = e \/ reg'[t] = [e EXCEPT !.state = "retired"]
      BY <2>1, <3>1 DEF D!MarkStale
    <3>3. QED
      BY <3>1, <3>2 DEF D!Tool, D!States
  <2>3. reg' \in D!Registry
    BY <2>1, <2>2 DEF D!MarkStale, D!Registry
  <2>4. QED
    BY <1>1, <2>2, <2>3, ManyKeep
<1>4. CASE \E t \in Tools : D!Age(t)
  <2>1. PICK t \in Tools : reg' = [reg EXCEPT ![t].recent = FALSE]
    BY <1>4 DEF D!Age, D!Host
  <2>2. PICK e, o : e = reg[t] /\ e \in D!Tool /\ o = [e EXCEPT !.recent = FALSE]
    BY <1>1, ToolOf
  <2>3. o \in D!Tool /\ o.state = e.state /\ o.agree = e.agree /\ o.disagree = e.disagree /\ o.exact = e.exact
    BY <2>2 DEF D!Tool
  <2>4. reg' = [reg EXCEPT ![t] = o]
    BY <2>1, <2>2
  <2>5. reg' \in D!Registry /\ reg'[t] = o /\ \A u \in Tools : u # t => reg'[u] = reg[u]
    BY <1>1, <2>3, <2>4 DEF D!Registry
  <2>6. QED
    BY <1>1, <2>2, <2>3, <2>5, ManyKeep
<1>5. QED
  BY <1>2, <1>3, <1>4

LEMMA CodifiedStep ==
  ASSUME CodifiedSound, D!Next
  PROVE  CodifiedSound' /\ D!StaysOut
<1>1. CASE \E c \in Callers : D!Confirm(c) \/ D!Load(c) \/ D!Save(c) \/ D!ShadowSave(c)
  BY <1>1, ConfirmKeeps, LoadCommandKeeps, SaveKeeps, ShadowSaveKeeps
<1>2. CASE \E c \in Callers, t \in Tools : D!Command(c, t)
  BY <1>2, AskKeeps, ShadowKeeps DEF D!Command
<1>3. CASE \E t \in Tools : \/ \E kind \in D!Kinds : D!Used(t, kind)
                            \/ D!Drift(t) \/ D!SurvivalReverted(t) \/ D!SafetyRetire(t) \/ D!Reject(t)
  BY <1>3, UsedKeeps, HostKeeps, RevertedKeeps
<1>4. CASE D!Evict \/ D!Stale \/ \E t \in Tools : D!Age(t)
  BY <1>4, ManyRetired
<1>5. QED
  BY <1>1, <1>2, <1>3, <1>4 DEF D!Next

LEMMA CodifiedNext ==
  ASSUME CodifiedHolds, [Next]_vars
  PROVE  CodifiedHolds' /\ [which = "codified" => D!StaysOut]_codifiedVars
<1>1. which' = which
  BY DEF Next, vars
<1>2. CASE which = "codified"
  <2>1. CodifiedSound
    BY <1>2 DEF CodifiedHolds
  <2>2. D!Next \/ UNCHANGED codifiedVars
    BY <1>2 DEF Next, vars
  <2>3. CASE UNCHANGED codifiedVars
    BY <1>1, <2>1, <2>3 DEF codifiedVars, CodifiedHolds, CodifiedSound
  <2>4. QED
    BY <2>1, <2>2, <2>3, CodifiedStep DEF CodifiedHolds
<1>3. QED
  BY <1>1, <1>2 DEF CodifiedHolds

(* A tool runs in the host's place only when it has earned it, comes back    *)
(* only as it may or by a copy that is not the latest, and an eviction leaves*)
(* every pool within its cap and no lower, whatever tools, sessions and caps *)
(* there are (codify/registry.ts, dispatch.ts, commands/codified.ts).        *)
THEOREM PlacesAreEarnedAlways == Spec => PlacesAreEarned
<1>1. Init => CodifiedHolds
  BY CodifiedStarts DEF Init, CodifiedHolds
<1>2. CodifiedHolds => (which = "codified" => D!PlacesAreEarned)
  BY EarnedExact, EvictionAlwaysFits DEF CodifiedHolds, CodifiedSound, RegSound, D!PlacesAreEarned
<1>3. QED
  BY <1>1, <1>2, CodifiedNext, PTL DEF Spec, PlacesAreEarned

=============================================================================
