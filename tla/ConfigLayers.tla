---------------------------- MODULE ConfigLayers ----------------------------
(***************************************************************************)
(* The five configuration layers of a repository: src/config/layers.ts and  *)
(* migrate.ts (how a file becomes an overlay or an error), merge.ts (the    *)
(* merge and its provenance), narrowing.ts (what a layer may not loosen)    *)
(* and effective.ts (the result), with the two places that load it for a    *)
(* run, runTicket and attachRunWorkflow of src/controller/lane-runner.ts.   *)
(*                                                                          *)
(* A configuration is a function from dotted leaf paths to values; an       *)
(* overlay is one too, with the set of the leaves it deletes (null).  The   *)
(* schema makes every path a leaf in all layers or in none, so that the     *)
(* recursive merge of objects is a merge of leaves.  Levels are ranks,      *)
(* lists are sets.  The operator block, which the same merge joins from two *)
(* layers without narrowing, is left out but for its retired key.           *)
(***************************************************************************)
EXTENDS Naturals, Sequences

CONSTANTS
  Defaults,    \* DEFAULTS.repo
  Contents,    \* what the file of a layer may hold: [layer -> set of files]
  Base         \* the default branch that git tells

VARIABLES
  next,        \* index of the layer about to be merged
  config,      \* merged so far
  provenance,  \* leaf path -> layer
  upper,       \* the configuration each layer left, by layer
  failed,      \* the code of the ConfigError, "none"
  effective    \* the configuration loaded, empty until then

vars == <<next, config, provenance, upper, failed, effective>>

LAYER_ORDER == <<"builtin", "global", "committed", "overrides", "local">>
Layers == {LAYER_ORDER[i] : i \in DOMAIN LAYER_ORDER}

-----------------------------------------------------------------------------
(* migrate.ts, layers.ts.  A file is missing, malformed or an object: its   *)
(* version (0 when absent), the keys it sets and the keys it nulls.         *)

SCHEMA_VERSION == 1
RETIRED_KEYS == {"operator.coAuthoredBy"}
Ranks == [steering |-> {0, 1, 2}, planApproval |-> {0, 1, 2}, sandbox |-> {0, 1, 2}]
Numbers == {"maxDiffLines", "maxChangedFiles", "checksTimeoutSeconds"}
Lists == {"riskPaths", "securityPaths", "exclusivePaths", "generatedDocPatterns"}
WriteRoots == {"writeRoots.feature", "writeRoots.enhancement", "writeRoots.bug", "writeRoots.chore"}
Branching == {"branching.base", "branching.target"}
Declared == DOMAIN Ranks \cup Numbers \cup Lists \cup WriteRoots \cup Branching

dropRetiredKeys(body) == [k \in DOMAIN body \ RETIRED_KEYS |-> body[k]]

InSchema(key, value) ==
  /\ key \in DOMAIN Ranks => value \in Ranks[key]
  /\ key \in Numbers => value >= 1

Overlay(file) == [set |-> dropRetiredKeys(file.body), del |-> file.nulls \ RETIRED_KEYS]
NoOverlay == [set |-> <<>>, del |-> {}]

readLayer(file) == IF file.is = "missing" THEN NoOverlay ELSE Overlay(file)

FileError(file) ==
  LET lower == readLayer(file)
      keys  == DOMAIN lower.set
  IN  CASE file.is = "missing"                                -> "none"
        [] file.is = "malformed"                              -> "parse"
        [] file.is = "object" /\ file.version # SCHEMA_VERSION -> "version"
        [] OTHER -> IF ~(keys \cup lower.del \subseteq Declared) THEN "unknown-key"
                    ELSE IF \E k \in keys : ~InSchema(k, lower.set[k]) THEN "schema"
                    ELSE "none"

-----------------------------------------------------------------------------
(* merge.ts *)

deepMerge(base, lower) ==
  [k \in (DOMAIN base \cup DOMAIN lower.set) \ lower.del |->
     IF k \in DOMAIN lower.set THEN lower.set[k] ELSE base[k]]

(* Defect: a key keeps the layer that set it first.                         *)
TouchKept(prov, lower, layer) ==
  [k \in (DOMAIN prov \cup DOMAIN lower.set) \ lower.del |->
     IF k \in DOMAIN prov THEN prov[k] ELSE layer]

Touch(prov, lower, layer) ==
  [k \in (DOMAIN prov \cup DOMAIN lower.set) \ lower.del |->
     IF k \in DOMAIN lower.set THEN layer ELSE prov[k]]

-----------------------------------------------------------------------------
(* narrowing.ts *)

SAFETY_KEYS == DOMAIN Ranks \cup {"maxDiffLines", "maxChangedFiles"} \cup Lists \cup WriteRoots

(* Defect: the committed layer, which anybody with a merge request writes,  *)
(* narrows nothing.                                                         *)
NarrowedFromOverrides(layer) ==
  IF layer \in {"overrides", "local"} THEN SAFETY_KEYS ELSE {"generatedDocPatterns"}

narrowedKeysFor(layer) ==
  CASE layer = "builtin"   -> {}
    [] layer = "global"    -> {"generatedDocPatterns"}
    [] layer = "committed" -> {"steering", "planApproval", "sandbox", "generatedDocPatterns"}
    [] OTHER               -> SAFETY_KEYS

(* Levels may only rise, bounds only fall, lists only grow, write roots     *)
(* only shrink.                                                             *)
Tightens(key, prev, new) ==
  CASE key \in DOMAIN Ranks -> new >= prev
    [] key \in Numbers      -> new <= prev
    [] key \in Lists        -> prev \subseteq new
    [] OTHER                -> new \subseteq prev

assertNarrowing(lower, current, layer) ==
  /\ layer # "builtin" => lower.del \cap SAFETY_KEYS = {}
  /\ \A k \in narrowedKeysFor(layer) \cap DOMAIN lower.set \cap DOMAIN current :
       Tightens(k, current[k], lower.set[k])

-----------------------------------------------------------------------------
(* effective.ts *)

Init ==
  /\ next = 1 /\ config = <<>> /\ provenance = <<>> /\ upper = <<>>
  /\ failed = "none" /\ effective = <<>>

(* mergeLayers: the layer is read, judged against the layers before it and  *)
(* merged.                                                                  *)
MergeLayer ==
  /\ failed = "none" /\ next <= Len(LAYER_ORDER)
  /\ LET layer == LAYER_ORDER[next] IN
     \E file \in Contents[layer] :
       LET lower == readLayer(file)
       IN  IF FileError(file) # "none" THEN
             /\ failed' = FileError(file)
             /\ UNCHANGED <<next, config, provenance, upper>>
           ELSE IF ~assertNarrowing(lower, config, layer) THEN
             /\ failed' = "narrowing"
             /\ UNCHANGED <<next, config, provenance, upper>>
           ELSE
             /\ config' = deepMerge(config, lower)
             /\ provenance' = Touch(provenance, lower, layer)
             /\ upper' = [l \in DOMAIN upper \cup {layer} |-> IF l = layer THEN config' ELSE upper[l]]
             /\ next' = next + 1
             /\ UNCHANGED failed
  /\ UNCHANGED effective

(* A default that a null removed is refused; the branches nobody set are    *)
(* probed, and the target follows the base.                                 *)
assertDefaultsPresent(merged) == DOMAIN Defaults \subseteq DOMAIN merged

Filled(merged, key, value) ==
  [k \in DOMAIN merged \cup {key} |-> IF k \in DOMAIN merged THEN merged[k] ELSE value]

Effective(merged) ==
  LET based == Filled(merged, "branching.base", Base)
  IN  Filled(based, "branching.target", based["branching.base"])

FilledFrom(prov) ==
  LET based == Filled(prov, "branching.base", "builtin")
  IN  Filled(based, "branching.target", based["branching.base"])

loadEffectiveConfig ==
  /\ failed = "none" /\ next = Len(LAYER_ORDER) + 1 /\ effective = <<>>
  /\ IF assertDefaultsPresent(config)
       THEN /\ effective' = Effective(config)
            /\ provenance' = FilledFrom(provenance)
            /\ UNCHANGED failed
       ELSE failed' = "deleted-default" /\ UNCHANGED <<effective, provenance>>
  /\ UNCHANGED <<next, config, upper>>

Next == MergeLayer \/ loadEffectiveConfig

-----------------------------------------------------------------------------
(* Properties *)

Index(layer) == CHOOSE i \in DOMAIN LAYER_ORDER : LAYER_ORDER[i] = layer

(* src/config/narrowing.ts:35: across any number of layers, a key is never  *)
(* looser than what an earlier layer left when every layer between narrows  *)
(* it; so no null, probe or later layer brings a loosened value back.       *)
NeverLoosened ==
  \A l \in DOMAIN upper : \A k \in DOMAIN upper[l] \cap SAFETY_KEYS :
    (\A i \in (Index(l) + 1)..(next - 1) :
        k \in IF i = 3 THEN {"steering", "planApproval", "sandbox", "generatedDocPatterns"}
              ELSE IF i = 2 THEN {"generatedDocPatterns"} ELSE SAFETY_KEYS)
      => k \in DOMAIN config /\ Tightens(k, upper[l][k], config[k])

(* src/config/effective.ts:51: the layer that provenance names for a key is *)
(* the first that left the value in effect, and every value in effect has   *)
(* one.                                                                     *)
ProvenanceTells ==
  /\ DOMAIN config \subseteq DOMAIN provenance
  /\ \A k \in DOMAIN provenance \cap DOMAIN config :
       \A l \in DOMAIN upper : Index(l) >= Index(provenance[k]) =>
         k \in DOMAIN upper[l] /\ upper[l][k] = config[k]

(* The value in effect is one the narrowing rules allow, from the layer that*)
(* is named for it.                                                         *)
EffectiveIsHonest == NeverLoosened /\ ProvenanceTells
=============================================================================
