---------------------------------- MODULE MCRules ----------------------------------
(***************************************************************************)
(* What decides what a run and its workers may do, each on its own: the     *)
(* guard of the tool calls, the layers of the configuration and of the      *)
(* lanes, the conditions of stages, the operator's rules, the intake of      *)
(* tickets, the vault, and codify: the candidates it mines, the rubric, the  *)
(* registry.                                                                *)
(***************************************************************************)
EXTENDS Naturals, Sequences, FiniteSets, TLC

CONSTANTS
  Calls, Policies,                                                                    \* GuardLayers
  Defaults, LayerFiles, Base,                                                         \* ConfigLayers
  MaxLayers, MaxHead,                                                                 \* LaneLayers
  Runs, Scripts, Executions, Published, MinRecurrence, MaxCandidates, MaxRounds, MaxRows,  \* Mining
  Tools, Callers, Bound, Clean, TaskTools, Local, MaxRepo, MaxGlobal, Agree, Failures, RecentCap, MaxHits, Stages,  \* Codified
  Sessions, Sayings, Rule, RuleStages, RuleKinds, MaxCommands, MaxRules, MaxBytes,     \* RuleBook
  Texts, Briefs, Analyst, Risky, MaxEdits,                                             \* Intake
  Placeholders, MaxSecrets                                                            \* Vault; its sessions are RuleBook's

VARIABLES
  which,  \* the component that runs
  agent, call, token, answer,
  next, config, provenance, upper, failed, effective,
  layers, lanes, phase, lane, at, passed, head, judged, pushed,
  assessment, cluster, result,
  execution, round, seeding, seeds, inbox, stamp, cooling, candidates,
  reg, calls, hist,
  condition, facts, treated,
  file, proc, said, crossed, given,
  listed, text, labels, entry, stage, answers, basis, told, polled, edits,
  master, store, seed, manifest, shown, envelope, command, past

guardVars == <<agent, call, token, answer>>
configVars == <<next, config, provenance, upper, failed, effective>>
lanesVars == <<layers, lanes, phase, lane, at, passed, head, judged, pushed>>
rubricVars == <<assessment, cluster, result>>
miningVars == <<execution, round, seeding, seeds, inbox, stamp, cooling, candidates>>
codifiedVars == <<reg, calls, hist>>
whenVars == <<condition, facts, treated>>
bookVars == <<file, proc, said, crossed, given>>
intakeVars == <<listed, text, labels, entry, stage, answers, basis, told, polled, edits>>
vaultVars == <<master, store, seed, manifest, shown, envelope, command, past>>

-----------------------------------------------------------------------------
(* The guard: a writer, a reader, the judge and a worker whose policy file *)
(* cannot be read; commands of one or two segments.                        *)
AllZones == {"runArtifact", "runOwned", "judgeSlot", "verdictFile", "source", "tests", "treeGit", "treeSecret", "system",
             "credential", "factory", "main", "sibling", "tmp", "null", "absent"}
MCPolicies ==
  [implementer |-> [read |-> {}, upsert |-> {"source", "runArtifact", "treeGit"}, delete |-> {"source"}, deny |-> {"tests"}, bash |-> "full", broken |-> FALSE],
   reviewer    |-> [read |-> {"source", "runArtifact"}, upsert |-> {"runArtifact", "source"}, delete |-> {}, deny |-> {}, bash |-> "read-only", broken |-> FALSE],
   judge       |-> [read |-> {}, upsert |-> {"judgeSlot", "runArtifact"}, delete |-> {}, deny |-> {}, bash |-> "read-only", broken |-> FALSE],
   tester      |-> [read |-> {}, upsert |-> {"tests"}, delete |-> {}, deny |-> {}, bash |-> "full", broken |-> TRUE]]

SomeZones == {"runArtifact", "runOwned", "judgeSlot", "source", "tests", "treeGit", "main", "tmp", "null"}
AtMostOne == {{}} \cup {{z} : z \in SomeZones}
Seg(v, w, r, o, own) == [verb |-> v, depth |-> 0, words |-> w, redirects |-> r, outputs |-> o, own |-> own]
Segment == {Seg(v, w, r, {}, {}) :
             v \in {"read", "gitRead", "gitPush", "rm", "dump", "other", "none"}, w \in AtMostOne, r \in {{}, {"source"}, {"null"}}}
         \cup {Seg(v, w, {}, {}, own) : v \in {"check", "tooling", "other"}, w \in {{}, {"main"}, {"tests"}}, own \in AtMostOne}
         \cup {Seg("tee", {o}, {}, {o}, {}) : o \in SomeZones}
         \cup {Seg("read", w, {}, {o}, {}) : w \in {{}, {"tests"}, {"treeGit"}}, o \in SomeZones}
Second == {Seg(v, {z}, {}, {}, {}) : v \in {"read", "rm", "gitCommit"}, z \in {"source", "tmp"}}
          \cup {Seg("tooling", {}, {}, {}, {"main"})}
(* A command given to a shell, which is given to a shell, n times.          *)
Nested(s, n) == [i \in 1..(n + 1) |-> IF i <= n THEN [Seg("shell", {}, {}, {}, {}) EXCEPT !.depth = i - 1] ELSE [s EXCEPT !.depth = n]]
Shells(t, segs) == [tool |-> t, zone |-> "null", segs |-> segs, opaque |-> FALSE]
Bash(segs) == Shells("bash", segs)

MCCalls ==
  {[tool |-> t, zone |-> z, segs |-> <<>>, opaque |-> FALSE] : t \in {"read", "grep", "write", "edit", "VerdictEmit"}, z \in AllZones}
  \cup {Bash(Nested(s, n)) : s \in Segment, n \in {0, 1, 4, 5}} \cup {Shells("powershell", <<s>>) : s \in Segment}
  \cup {Bash(<<s, t>>) : s \in Segment, t \in Second}
  \cup {[Bash(<<s>>) EXCEPT !.opaque = TRUE] : s \in Segment}

-----------------------------------------------------------------------------
(* Configuration: a key of each narrowing rule, and files that set or delete *)
(* one or two keys or are refused for each reason the loader knows.        *)
MCDefaults == [steering |-> 1, sandbox |-> 1, checksTimeoutSeconds |-> 9, maxDiffLines |-> 2] @@
              ("writeRoots.bug" :> {"src"}) @@ [generatedDocPatterns |-> {"plan"}]

File(body)     == [is |-> "object", version |-> 1, body |-> body, nulls |-> {}]
Nulling(k)     == [File(<<>>) EXCEPT !.nulls = {k}]
Missing        == [File(<<>>) EXCEPT !.is = "missing"]
One == [steering : {1, 2}] \cup [sandbox : {0, 2}] \cup [maxDiffLines : {1, 3}]
       \cup [generatedDocPatterns : {{"plan", "spec"}, {}}]
       \cup {"writeRoots.bug" :> v : v \in {{"src", "docs"}, {}}}
       \cup {k :> "main" : k \in {"branching.base", "branching.target"}}
Refused == {[Missing EXCEPT !.is = "malformed"], [File(<<>>) EXCEPT !.version = 0],
            [File(<<>>) EXCEPT !.version = 2], File([operators |-> 1]), File([sandbox |-> 3]),
            File("operator.coAuthoredBy" :> 1)}
Some == {Missing} \cup {File(b) : b \in One}
        \cup {Nulling(k) : k \in {"steering", "branching.base", "branching.target", "checksTimeoutSeconds"}}
        \cup {File(a @@ b) : a \in [sandbox : {0, 2}], b \in [maxDiffLines : {1, 3}]}

MCContents == [builtin   |-> {File(MCDefaults)},
               global    |-> Some \cup Refused,
               committed |-> Some,
               overrides |-> Some,
               local     |-> Some]

-----------------------------------------------------------------------------
(* Lanes: the bug lane, codify and grill cut to what the invariants read, and *)
(* layers that patch, remove, move, insert or condition one or two stages. *)
S(name, who)  == [name |-> name, agent |-> who]
H(name, host)  == [name |-> name, host |-> host, locked |-> TRUE]

MCBuiltin ==
  [bug |-> [class |-> "build", match |-> [kind |-> "bug"], priority |-> 100,
            budget |-> [fixRounds |-> 2, maxWallSeconds |-> 1, maxCostUsd |-> 1],
            stages |-> <<
              [name |-> "gate", agent |-> "tester", locked |-> TRUE, gates |-> {"red-baseline"}, onFail |-> "escalate"],
              [name |-> "steer", human |-> TRUE, locked |-> TRUE, onFail |-> "escalate"],
              [name |-> "implement", agent |-> "implementer", gates |-> {"snapshot"}, onFail |-> "fix-round"],
              [name |-> "test", host |-> "checks", locked |-> TRUE, gates |-> {"finalize"}, onFail |-> "fix-round"],
              [name |-> "security", agent |-> "security-auditor", when |-> "elevated", onFail |-> "fix-round"],
              [name |-> "judge", agent |-> "judge", safetyGating |-> TRUE, locked |-> TRUE, onFail |-> "fix-round"],
              [name |-> "publish", host |-> "publish", locked |-> TRUE,
               gates |-> {"head-is-judged-sha"}, onFail |-> "escalate"] >>],
   grill |-> [class |-> "pre-build", match |-> [trigger |-> {"grill"}], priority |-> 50,
            stages |-> << S("frame", "cartographer"), [name |-> "handoff", human |-> TRUE, locked |-> TRUE] >>],
   codify |-> [class |-> "meta", match |-> [trigger |-> {"codify"}], priority |-> 0,
            stages |-> << S("generate", "codifier"), H("validate", "codify-validate"),
              [name |-> "security", agent |-> "security-auditor", when |-> "true", locked |-> TRUE],
              [name |-> "judge", agent |-> "judge", safetyGating |-> TRUE, locked |-> TRUE],
              H("publish", "codify-publish") >>]]

MCKnown == {"tester", "implementer", "security-auditor", "judge", "cartographer", "codifier", "checks",
            "publish", "codify-validate", "codify-publish", "red-baseline", "snapshot", "finalize",
            "head-is-judged-sha"}

StagePatches ==
  {[name |-> n, remove |-> TRUE] : n \in {"implement", "judge", "steer"}}
  \cup {[name |-> n, when |-> w] : n \in {"steer", "judge", "security"}, w \in {"true", "elevated"}}
  \cup {[name |-> n, onFail |-> "continue"] : n \in {"steer", "judge"}}
  \cup {[name |-> "publish", gates |-> {}],
        [name |-> "steer", human |-> FALSE, host |-> "checks"],
        [name |-> "gate", agent |-> "tester", host |-> "checks"],
        [name |-> "judge", safetyGating |-> FALSE]}
  \cup {[name |-> "implement", agent |-> "implementer", gates |-> {"snapshot"}, onFail |-> "fix-round",
         insertAfter |-> p] : p \in {"gate", "judge"}}
  \cup {[name |-> "fix", agent |-> "implementer", insertAfter |-> p] : p \in {"gate", "judge", "publish"}}

MCOverlays ==
  {[bug |-> [stages |-> p]] : p \in {<<a>> : a \in StagePatches} \cup {<<a, b>> : a, b \in StagePatches}}
  \cup {[bug |-> [budget |-> [fixRounds |-> n]]] : n \in {1, 3}}
  \cup {[hot |-> [extends |-> "bug", priority |-> p, match |-> [labels |-> {"hot"}]]] : p \in {100, 101}}
  \cup {[mine |-> [extends |-> "codify", priority |-> 7]],
        [codify |-> [stages |-> <<[name |-> "generate", agent |-> "implementer"]>>]],
        [a |-> [extends |-> "b", priority |-> 1], b |-> [extends |-> "a", priority |-> 2]],
        [c |-> [match |-> [labels |-> {"c"}]]]}

MCTickets == {[kind |-> "bug", labels |-> l] : l \in SUBSET {"grill", "codify", "hot"}}

-----------------------------------------------------------------------------
(* Rubric: assessments that fail each rule, and write globs of every shape. *)
Nothing == "none"
Empty == [i \in {} |-> Nothing]
Input(n, t, p, v) == [name |-> n, type |-> t, provenance |-> p, value |-> v]
Version == Input("version", "semver", "title", Nothing)
Decision(o, f, p, b) == [id |-> "layout", oracle |-> o, file |-> f, pattern |-> p, branches |-> b]
Draft(inputs, decisions, posts, globs, commands, residuals, bindings) ==
  [verdict |-> "codifiable", inputs |-> inputs, decisions |-> decisions, posts |-> posts, globs |-> globs,
   commands |-> commands, residuals |-> residuals, bindings |-> bindings]

Tests    == <<"checks">>
InSource == <<"src", "**">>
MCGlobs  == {<<a>> : a \in {"src", "*", "**", "x"}}
              \cup {<<a, b>> : a \in {"src", "x", "**", "tests"}, b \in {"x", "*", "**", "tests"}}
              \cup {<<a, b, c>> : a \in {"src", "docs", "**"}, b \in {"x", "**"}, c \in {"x", "*", "**"}}
MCAssessments ==
  {Draft({Version}, {}, {Tests}, {g, h}, {<<"git", "log">>}, {}, {}) : g \in MCGlobs, h \in {InSource, <<"docs", "x", "x">>}}
    \cup {Draft(i, d, {Tests}, {InSource}, {}, {}, b) :
            i \in {{Version}, {Input("n", "identifier", "constant", "1.2")}, {Input("n", "path", "title", Nothing)}},
            d \in {{}} \cup {{Decision(o, "src/a", p, <<"new", "old">>)} : o \in {"input", "fs", "regex", "vote"}, p \in {Nothing, "esm"}},
            b \in {{}, {[name |-> "n", value |-> "1.2", run |-> Nothing]}, {[name |-> "n", value |-> "old", run |-> "r1"]}}}
    \cup {Draft({Version}, {}, p, {InSource}, c, r, {}) :
            p \in {{}, {Tests}, {<<"git", "diff">>}, {<<"make">>}}, c \in {{}, {<<"git">>}, {<<"git", "push">>}}, r \in {{}, {"why"}}}
Member(r, title, literals, tokens, tree, observed) ==
  [run |-> r, title |-> title, literals |-> literals, tokens |-> tokens, tree |-> tree, observed |-> observed]
Plain(r) == Member(r, {}, {}, {}, Empty, Empty)
MCMembers == {{Plain("r1")}, {Member("r1", {"1.2"}, {"1.2"}, {"1.2"}, Empty, Empty), Plain("r2")},
              {Member("r1", {"1.2"}, {}, {"version"}, [f \in {"src/a"} |-> {"esm"}], [d \in {"layout"} |-> "new"])},
              {Member("r1", {}, {}, {"old"}, [f \in {"src/a"} |-> {}], [d \in {"layout"} |-> "old"]), Plain("r2")}}
MCRoots    == {{InSource, <<"docs", "x", "**">>}, {<<"src", "x", "**">>, <<"docs", "*", "x">>, <<"docs", "x", "x">>}}
MCOracles  == {Empty, [k \in {<<"layout", "r1">>} |-> "old"]}
MCClusters == {[members |-> m, writeRoots |-> w, deny |-> {<<"tests">>, <<"tests", "**">>, <<"**", "tests", "**">>, <<"**", "auth", "**">>}, oracles |-> o] :
                 m \in MCMembers, w \in MCRoots, o \in MCOracles}
MCInputTypes  == {"semver", "identifier", "shortText"}
MCProvenances == {"constant", "title"}
MCOracleKinds == {"fs", "regex", "exit-code", "input"}
MCVerifiable  == {"checks"}
MCReadonlyGit == {"log", "diff"}

-----------------------------------------------------------------------------
(* Mining.                                                                 *)
\* An elevated run without a shape, and a version bump.
Elevated == [signature |-> "s", stage |-> "implement", features |-> {"reproducible", "substitution", "sourced"},
             traits |-> {}, elevated |-> TRUE, barred |-> FALSE]
Bump     == [signature |-> "v", stage |-> "implement", features |-> {"reproducible", "substitution", "sourced", "small"},
             traits |-> {"semver", "manifest", "lock"}, elevated |-> FALSE, barred |-> FALSE]
MCExecutions == {[r \in Runs |-> Elevated], [r \in Runs |-> IF r = "p" THEN Elevated ELSE Bump]}

-----------------------------------------------------------------------------
(* Codified: stages where an exact run is possible.                        *)
(* Stages where an exact run is possible: one or both tools match, the paths *)
(* fit or not, the paths churned or not.                                     *)
MCStages ==
  [codifiable : {TRUE}, hit : SUBSET Tools \ {{}}, late : {FALSE},
   fit : {Tools}, bindings : {TRUE}, churn : BOOLEAN, sandbox : {TRUE},
   ceiling : {"exact"}]

-----------------------------------------------------------------------------
(* Conditions: every sequence of up to three tokens, and sentences of two or *)
(* three comparisons, and three of the shipped lanes. A run and its ticket:   *)
(* its lane and its rounds of planning differ, the rest asks for every stage. *)
Str(s)  == <<"string", s>>
Id(n)   == [kind |-> "ident", value |-> n]
Lit(v)  == [kind |-> "literal", value |-> v]
Mark(m) == [kind |-> m]
Is(n, v)  == <<Id(n), Mark("eq"), Lit(v)>>
Dot(a, b) == <<Id(a), Mark("dot"), Id(b)>>
Touches(g) == Dot("diff", "touches") \o <<Mark("lparen"), Id(g), Mark("rparen")>>
Then(a, m, b) == a \o <<Mark(m)>> \o b
WhenTokens == {Id("tier"), Lit(Str("elevated")), Lit(<<"boolean", TRUE>>)}
              \cup {Mark(m) : m \in {"eq", "and", "or", "not", "lparen", "rparen"}}
Atoms == {Is("tier", Str("elevated")), <<Id("iteration")>>, <<Lit(Str("plan")), Mark("in"), Id("rounds")>>, Dot("rounds", "plan"),
          <<Lit(Str("a")), Mark("in"), Id("lane")>>, <<Id("lane"), Mark("neq"), Id("kind")>>}
Shipped == {Then(Is("tier", Str("elevated")), "or", Touches("securityPaths")), Then(Is("size", Str("L")), "or", Dot("flags", "architecture")),
            Dot("brief", "reproSteps") \o <<Mark("eq"), Lit(Str("absent"))>>}
MCConditions ==
  UNION {[1 .. n -> WhenTokens] : n \in 0 .. 3}
  \cup {Then(Then(a, m, b), n, c) : a, b, c \in Atoms, m, n \in {"and", "or"}}
  \cup {<<Mark("lparen")>> \o Then(a, "or", b) \o <<Mark("rparen"), Mark(m)>> \o c : a, b, c \in Atoms, m \in {"and", "eq"}}
  \cup {<<Mark("not")>> \o Then(a, "and", b) : a, b \in Atoms} \cup Shipped
Shown(l, n) ==
  [tier |-> Str("low"), kind |-> Str("bug"), lane |-> Str(l), iteration |-> <<"number", 0>>,
   rounds |-> <<"object", [plan |-> <<"number", n>>]>>, artifacts |-> <<"object", <<>>>>, size |-> Str("L"),
   brief |-> <<"object", [reproSteps |-> Str("absent")]>>, flags |-> <<"object", [architecture |-> <<"boolean", TRUE>>]>>,
   diff |-> <<"object", [touches |-> <<"function", {"securityPaths"}>>]>>]
MCFacts  == {<<"object", Shown(l, n)>> : l \in {"bug", "chore"}, n \in {0, 1}}
MCWithin == {<<"a", "chore">>}

-----------------------------------------------------------------------------
(* Rules: two that are nearly one, one apart, and a guidance for one lane;   *)
(* the built-in rule; a prompt of two rules, two long ones being too much.   *)
Saying(stem, words, class, stages, kind, l, size) ==
  [stem |-> stem, words |-> words, class |-> class, stages |-> stages, kind |-> kind, lane |-> l, screened |-> FALSE,
   size |-> size]
MCRuleStages == {"implement", "review"}
MCSayings == {Saying("x", {"use", "esm", "x"}, "constraint", MCRuleStages, "*", "*", 1),
              Saying("x", {"use", "esm", "x", "now"}, "constraint", MCRuleStages, "bug", "*", 2),
              Saying("x", {"keep", "it"}, "constraint", MCRuleStages, "*", "*", 2),
              Saying("y", {"be", "nice"}, "guidance", {}, "*", "bug", 1)}
MCRule == [id |-> <<"builtin", 1>>, words |-> {"generated", "docs"}, class |-> "constraint", stages |-> MCRuleStages,
           kind |-> "*", lane |-> "*", status |-> "locked", rank |-> 0, size |-> 1]

-----------------------------------------------------------------------------
(* Intake: tickets with and without a kind, and analysts who disagree, warn,  *)
(* ask or find a duplicate.                                                  *)
Bare == [kindLabel |-> "none", prior |-> "none", short |-> FALSE, question |-> FALSE, epic |-> FALSE,
         failure |-> FALSE, command |-> FALSE, repro |-> FALSE, suspect |-> FALSE, paths |-> {}]
MCTexts == {[Bare EXCEPT !.prior = "bug", !.failure = TRUE, !.suspect = TRUE],
            [Bare EXCEPT !.kindLabel = "chore", !.command = TRUE],
            [Bare EXCEPT !.kindLabel = "bug", !.short = TRUE, !.repro = TRUE, !.failure = TRUE]}
Criterion(t, s) == [text |-> t, source |-> s]
Brief(k, c) == [is |-> "brief", kind |-> k, size |-> "M", flags |-> {}, paths |-> {}, questions |-> {}, repro |-> FALSE,
                criteria |-> c, duplicate |-> FALSE]
MCBriefs == {Brief("bug", {Criterion("a", "quoted")}),
             [Brief("bug", {Criterion("a", "inferred"), Criterion("b", "derived")}) EXCEPT !.repro = TRUE],
             [Brief("bug", {Criterion("b", "inferred")}) EXCEPT !.flags = {"security"}, !.size = "XL", !.duplicate = TRUE],
             [Brief("chore", {}) EXCEPT !.paths = {"migrations"}],
             [Brief("feature", {Criterion("a", "quoted")}) EXCEPT !.size = "L", !.questions = {"q"}]}

-----------------------------------------------------------------------------
(* The components.                                                         *)

G == INSTANCE GuardLayers
C == INSTANCE ConfigLayers WITH Contents <- LayerFiles
L == INSTANCE LaneLayers WITH Builtin <- MCBuiltin, Overlays <- MCOverlays, Tickets <- MCTickets,
                                Known <- MCKnown
R == INSTANCE Rubric WITH Assessments <- MCAssessments, Clusters <- MCClusters, InputTypes <- MCInputTypes,
                            Provenances <- MCProvenances, OracleKinds <- MCOracleKinds, Verifiable <- MCVerifiable,
                            ReadonlyGit <- MCReadonlyGit
M == INSTANCE Mining
D == INSTANCE Codified WITH call <- calls
W == INSTANCE When WITH Texts <- MCConditions, Facts <- MCFacts, Within <- MCWithin, text <- condition, answer <- treated
B == INSTANCE RuleBook WITH Procs <- Sessions, Builtin <- Rule, Stages <- RuleStages, Kinds <- RuleKinds,
                              MAX_RULES <- MaxRules, MAX_BYTES <- MaxBytes, Commands <- MaxCommands
I == INSTANCE Intake WITH NoKind <- "none", read <- listed, phase <- stage
V == INSTANCE Vault WITH Commands <- MaxSecrets, file <- shown

-----------------------------------------------------------------------------
(* What the proofs assume of the constants.                                  *)

(* A shell writes by the commands it is given: it has no output flag itself. *)
(* Only programs change files on their own; a segment in more shells than    *)
(* the guard follows is in one that it sees.                                 *)
ASSUME CallsAssumption ==
  \A c \in Calls : \A s \in G!AllSegments(c.segs) :
    /\ s.depth \in Nat
    /\ s.verb = "shell" => s.outputs = {}
    /\ s.own # {} => s.verb \in {"check", "tooling", "other"}
    /\ s.depth > G!MAX_NEST => \E t \in G!AllSegments(c.segs) : t.verb = "shell" /\ t.depth = G!MAX_NEST

(* The numbers of a configuration file are integers, as its schema says.     *)
ASSUME ContentsAssumption ==
  \A layer \in C!Layers : \A f \in LayerFiles[layer] :
    \A k \in C!Numbers \cap DOMAIN f.body : f.body[k] \in Nat

(* A brief quotes the ticket a number of times.                              *)
ASSUME BriefsAssumption == \A b \in Briefs : b.is = "brief" /\ I!quotedCount(b) \in Nat

(* A stage makes a finite number of scripts.                                 *)
ASSUME ScriptsAssumption == IsFiniteSet(Scripts)

(* There are finitely many tools, the caps are numbers, and a stage asks    *)
(* what a stage can ask.                                                    *)
ASSUME CodifiedAssumption ==
  /\ IsFiniteSet(Tools) /\ MaxRepo \in Nat /\ MaxGlobal \in Nat /\ MaxHits \in Nat
  /\ Stages \subseteq D!Query

(* A seed that asks for secrets has a place for one.                         *)
ASSUME VaultAssumption == Placeholders # {} /\ MaxSecrets \in Nat

-----------------------------------------------------------------------------
(* Sessions are alike.                                                      *)
Interchangeable == Permutations(Sessions)

Idle == "idle"
guardIdle == agent = Idle /\ call = Idle /\ token = Idle /\ answer = Idle
configIdle == next = Idle /\ config = Idle /\ provenance = Idle /\ upper = Idle /\ failed = Idle /\ effective = Idle
lanesIdle ==
  /\ layers = Idle /\ lanes = Idle /\ phase = Idle /\ lane = Idle /\ at = Idle /\ passed = Idle /\ head = Idle
  /\ judged = Idle /\ pushed = Idle
rubricIdle == assessment = Idle /\ cluster = Idle /\ result = Idle
miningIdle ==
  /\ execution = Idle /\ round = Idle /\ seeding = Idle /\ seeds = Idle /\ inbox = Idle /\ stamp = Idle
  /\ cooling = Idle /\ candidates = Idle
codifiedIdle == reg = Idle /\ calls = Idle /\ hist = Idle
whenIdle == condition = Idle /\ facts = Idle /\ treated = Idle
bookIdle == file = Idle /\ proc = Idle /\ said = Idle /\ crossed = Idle /\ given = Idle
intakeIdle ==
  /\ listed = Idle /\ text = Idle /\ labels = Idle /\ entry = Idle /\ stage = Idle /\ answers = Idle /\ basis = Idle
  /\ told = Idle /\ polled = Idle /\ edits = Idle
vaultIdle ==
  /\ master = Idle /\ store = Idle /\ seed = Idle /\ manifest = Idle /\ shown = Idle /\ envelope = Idle
  /\ command = Idle /\ past = Idle

(* One of them, alone.                                                      *)
Init ==
  \/ /\ which = "guard" /\ G!Init
     /\ configIdle /\ lanesIdle /\ rubricIdle /\ miningIdle /\ codifiedIdle
     /\ whenIdle /\ bookIdle /\ intakeIdle /\ vaultIdle
  \/ /\ which = "config" /\ C!Init
     /\ guardIdle /\ lanesIdle /\ rubricIdle /\ miningIdle /\ codifiedIdle
     /\ whenIdle /\ bookIdle /\ intakeIdle /\ vaultIdle
  \/ /\ which = "lanes" /\ L!Init
     /\ guardIdle /\ configIdle /\ rubricIdle /\ miningIdle /\ codifiedIdle
     /\ whenIdle /\ bookIdle /\ intakeIdle /\ vaultIdle
  \/ /\ which = "rubric" /\ R!Init
     /\ guardIdle /\ configIdle /\ lanesIdle /\ miningIdle /\ codifiedIdle
     /\ whenIdle /\ bookIdle /\ intakeIdle /\ vaultIdle
  \/ /\ which = "mining" /\ M!Init
     /\ guardIdle /\ configIdle /\ lanesIdle /\ rubricIdle /\ codifiedIdle
     /\ whenIdle /\ bookIdle /\ intakeIdle /\ vaultIdle
  \/ /\ which = "codified" /\ D!Init
     /\ guardIdle /\ configIdle /\ lanesIdle /\ rubricIdle /\ miningIdle
     /\ whenIdle /\ bookIdle /\ intakeIdle /\ vaultIdle
  \/ /\ which = "when" /\ W!Init
     /\ guardIdle /\ configIdle /\ lanesIdle /\ rubricIdle /\ miningIdle
     /\ codifiedIdle /\ bookIdle /\ intakeIdle /\ vaultIdle
  \/ /\ which = "book" /\ B!Init
     /\ guardIdle /\ configIdle /\ lanesIdle /\ rubricIdle /\ miningIdle
     /\ codifiedIdle /\ whenIdle /\ intakeIdle /\ vaultIdle
  \/ /\ which = "intake" /\ I!Init
     /\ guardIdle /\ configIdle /\ lanesIdle /\ rubricIdle /\ miningIdle
     /\ codifiedIdle /\ whenIdle /\ bookIdle /\ vaultIdle
  \/ /\ which = "vault" /\ V!Init
     /\ guardIdle /\ configIdle /\ lanesIdle /\ rubricIdle /\ miningIdle
     /\ codifiedIdle /\ whenIdle /\ bookIdle /\ intakeIdle

Next ==
  /\ UNCHANGED which
  /\ \/ /\ which = "guard" /\ G!Next
        /\ UNCHANGED <<configVars, lanesVars, rubricVars, miningVars, codifiedVars, whenVars, bookVars, intakeVars, vaultVars>>
     \/ /\ which = "config" /\ C!Next
        /\ UNCHANGED <<guardVars, lanesVars, rubricVars, miningVars, codifiedVars, whenVars, bookVars, intakeVars, vaultVars>>
     \/ /\ which = "lanes" /\ L!Next
        /\ UNCHANGED <<guardVars, configVars, rubricVars, miningVars, codifiedVars, whenVars, bookVars, intakeVars, vaultVars>>
     \/ /\ which = "rubric" /\ R!Next
        /\ UNCHANGED <<guardVars, configVars, lanesVars, miningVars, codifiedVars, whenVars, bookVars, intakeVars, vaultVars>>
     \/ /\ which = "mining" /\ M!Next
        /\ UNCHANGED <<guardVars, configVars, lanesVars, rubricVars, codifiedVars, whenVars, bookVars, intakeVars, vaultVars>>
     \/ /\ which = "codified" /\ D!Next
        /\ UNCHANGED <<guardVars, configVars, lanesVars, rubricVars, miningVars, whenVars, bookVars, intakeVars, vaultVars>>
     \/ /\ which = "when" /\ W!Next
        /\ UNCHANGED <<guardVars, configVars, lanesVars, rubricVars, miningVars, codifiedVars, bookVars, intakeVars, vaultVars>>
     \/ /\ which = "book" /\ B!Next
        /\ UNCHANGED <<guardVars, configVars, lanesVars, rubricVars, miningVars, codifiedVars, whenVars, intakeVars, vaultVars>>
     \/ /\ which = "intake" /\ I!Next
        /\ UNCHANGED <<guardVars, configVars, lanesVars, rubricVars, miningVars, codifiedVars, whenVars, bookVars, vaultVars>>
     \/ /\ which = "vault" /\ V!Next
        /\ UNCHANGED <<guardVars, configVars, lanesVars, rubricVars, miningVars, codifiedVars, whenVars, bookVars, intakeVars>>

vars == <<which, guardVars, configVars, lanesVars, rubricVars, miningVars, codifiedVars, whenVars, bookVars, intakeVars, vaultVars>>
Spec == Init /\ [][Next]_vars

----------------------------------------------------------------------------
(* One tool out at a time, a copy that is stale in one tool, and a tool that  *)
(* the operator promoted or a reversion put on probation, not both.          *)
OneOut ==
  which = "codified" =>
    /\ hist.approved \cap hist.reverted = {}
    /\ Cardinality({t \in Tools : reg[t].state \in {"rejected", "drifted", "retired", "demoted"}}) <= 1
    /\ \A c \in Callers : calls[c].copy # <<>> =>
         /\ Cardinality({t \in Tools : calls[c].copy[t] # reg[t]}) <= 1
         /\ \A t \in Tools : calls[c].copy[t].recent = reg[t].recent
(* A call the guard passes touches only what the agent's policy lets it.     *)
PassedIsConfined == which = "guard" => G!PassedIsConfined
(* No layer loosens what one below it narrowed, or hides where a value is of.*)
EffectiveIsHonest == which = "config" => C!EffectiveIsHonest
(* Lanes accepted as not loosened let nothing be pushed unguarded.           *)
AcceptedStaysGuarded == which = "lanes" => L!AcceptedStaysGuarded
(* What an accepted assessment may write lies in the write roots.            *)
AcceptedIsInside == which = "rubric" => R!AcceptedIsInside
(* The rows and candidates of codify say what the runs did, and the inbox     *)
(* loses no row but to a stamp that was read before it.                      *)
MinedIsTrue == [](which = "mining" => M!MinedIsTrue) /\ [][which = "mining" => M!RowKept]_miningVars
(* A tool runs in the host's place, and stays, by what it has earned; one that *)
(* is out comes back by the operator or a stale copy only.                   *)
PlacesAreEarned == [](which = "codified" => D!PlacesAreEarned) /\ [][which = "codified" => D!StaysOut]_codifiedVars
(* A stage runs just when its condition, read by the grammar, is true.       *)
WhenIsRead == which = "when" => W!WhenIsRead
(* The rules in force, and those in a prompt, are the operator's.            *)
RulesInForce == which = "book" => B!RulesInForce
(* A ticket gets ready by what two analysts, or a person, agreed on.         *)
ReadyIsAgreed == which = "intake" => I!ReadyIsAgreed
(* The vault holds what was last set, readable, and the binds agree with it.  *)
SecretsHold == which = "vault" => V!SecretsHold

(* What the documents say and the code does not do.                          *)
ConditionsSeeTheTicket == which = "when" => W!ConditionsSeeTheTicket
LockedIsTold == which = "book" => B!LockedIsTold
ReAddedIsHeard == which = "intake" => I!ReAddedIsHeard
ReadyIsRun == which = "intake" => I!ReadyIsRun
=============================================================================
