----------------------------- MODULE GuardLayers -----------------------------
(***************************************************************************)
(* What a worker's tool call may do: the guard of src/safety/guard.ts, which*)
(* asks the hard blocks (layer-a.ts, paths.ts), the stage class (layer-b.ts,*)
(* classifier.ts), the default denial (layer-c.ts) and the agent's domain   *)
(* (layer-d.ts), in that order.  The tokens that layer C takes are module   *)
(* Approvals; here a token is there for the call or not.                    *)
(*                                                                          *)
(* A path is the zone it lies in.  A shell command is what shell.ts reads   *)
(* in it: a sequence of segments, each with the class of its verb, how many *)
(* shells it is nested in (depth), the zones its words name, those its      *)
(* redirections and output flags write, and those its program changes       *)
(* without saying so (own); or a construct that shell.ts does not follow    *)
(* (opaque).  An output flag and its file may be one word, which names no   *)
(* zone.  Quoting and the spelling of the commands are left out.            *)
(***************************************************************************)
EXTENDS Naturals, Sequences, FiniteSets

CONSTANTS
  Calls,       \* the tool calls a worker may try: [tool, zone, segs, opaque]
  Policies     \* agent -> [read, upsert, delete, deny : SUBSET Zones, bash, broken]

VARIABLES agent, call, token, answer
vars == <<agent, call, token, answer>>

READ_TOOLS == {"read", "grep", "glob", "find", "ls"}
PATH_TOOLS == READ_TOOLS \cup {"write", "edit"}
SHELL_TOOLS == {"bash", "powershell"}
READ_ONLY_TOOLS == READ_TOOLS \cup {"VerdictEmit", "RequestApproval", "AskHost"}
POLICY_GATED_TOOLS == PATH_TOOLS \cup SHELL_TOOLS

-----------------------------------------------------------------------------
(* paths.ts *)

RunZones  == {"runArtifact", "runOwned", "judgeSlot", "verdictFile"}
TreeZones == {"source", "tests", "treeGit", "treeSecret"}
Zones     == RunZones \cup TreeZones \cup {"system", "credential", "factory", "main", "sibling", "tmp", "null", "absent"}

isProtectedPath(zone, a) ==
  \/ zone \in {"system", "credential", "runOwned", "factory", "treeSecret", "treeGit", "main", "sibling"}
  \/ zone = "judgeSlot" /\ a # "judge"

-----------------------------------------------------------------------------
(* shell.ts, classifier.ts *)

MAX_NEST == 4

(* Tests and linters are safe though they may change files (eslint --fix,   *)
(* yq -i).  The effects of git, package managers, gh and env are "known",   *)
(* whatever they change: "tooling".                                         *)
SafeVerbs    == {"read", "gitRead", "check", "none"}
KnownEffects == SafeVerbs \cup {"tooling", "rm", "tee", "dump", "shell"}

AllSegments(segs) == {segs[i] : i \in DOMAIN segs}
Seen(segs)        == {s \in AllSegments(segs) : s.depth <= MAX_NEST}

WritesOf(s)  == (s.redirects \cup s.outputs) \ {"null"}
DeletesOf(s) == IF s.verb = "rm" THEN s.words ELSE {}

classifySegment(s) ==
  IF \/ s.redirects \ {"null"} # {}
     \/ s.verb = "shell" /\ s.depth >= MAX_NEST
     \/ s.verb # "shell" /\ (s.outputs \ {"null"} # {} \/ s.verb \notin SafeVerbs \cup {"tee"})
    THEN "destructive" ELSE "safe"

(* Defect: only the first segment is looked at.                             *)
ClassifiesFirst(c) ==
  IF c.opaque \/ classifySegment(c.segs[1]) = "destructive" THEN "destructive" ELSE "safe"

classifyBash(c) ==
  IF c.opaque \/ \E s \in Seen(c.segs) : classifySegment(s) = "destructive"
    THEN "destructive" ELSE "safe"

-----------------------------------------------------------------------------
(* The layers: each answers "pass" or its own letter. *)

hardBlock(c, a) ==
  \/ c.tool \in PATH_TOOLS /\ isProtectedPath(c.zone, a)
  \/ c.tool \in SHELL_TOOLS /\
       \/ \E s \in AllSegments(c.segs) : s.verb \in {"gitPush", "gitCommit"}
       \/ \E s \in Seen(c.segs) : \E z \in s.words \cup s.redirects : isProtectedPath(z, a)

WriterAgents == {"tester", "implementer", "codifier"}
stageClassOf(a) == IF a \in WriterAgents THEN "writer" ELSE "read-only"

readOnlyBlock(c, a) ==
  /\ stageClassOf(a) = "read-only"
  /\ c.tool \notin READ_ONLY_TOOLS
  /\ ~(c.tool = "bash" /\ classifyBash(c) = "safe")
  /\ ~(c.tool \in {"write", "edit"} /\ c.zone \in RunZones)

defaultDenyBlock(c, hasToken) ==
  \/ c.tool \in {"write", "edit"} /\ c.zone = "absent"
  \/ /\ ~hasToken
     /\ \/ c.tool = "powershell"
        \/ c.tool = "bash" /\ classifyBash(c) = "destructive"
        \/ c.tool \in {"write", "edit"} /\ c.zone \notin RunZones \cup TreeZones

checkWrite(z, p)  == z \notin p.deny /\ z \in p.upsert
checkDelete(z, p) == z \in p.delete

confineCommand(c, p) ==
  /\ ~c.opaque
  /\ \A s \in Seen(c.segs) :
       /\ s.verb \in KnownEffects
       /\ \A z \in WritesOf(s)  : checkWrite(z, p)
       /\ \A z \in DeletesOf(s) : checkDelete(z, p)

domainBlock(c, p) ==
  \/ c.tool \in READ_TOOLS /\ p.read # {} /\ c.zone \notin p.read \cup {"absent"}
  \/ c.tool \in {"write", "edit"} /\ ~checkWrite(c.zone, p)
  \/ c.tool = "bash" /\ CASE p.bash = "none"      -> TRUE
                          [] p.bash = "read-only" -> classifyBash(c) = "destructive"
                          [] OTHER                -> ~confineCommand(c, p)

(* A policy file that cannot be read, or whose digest is not the expected   *)
(* one, closes every tool it would have decided about.                      *)
loadDomainPolicy(c, p) == IF p.broken THEN c.tool \in POLICY_GATED_TOOLS ELSE domainBlock(c, p)

evaluate(c, a, hasToken) ==
  CASE hardBlock(c, a)                                                  -> "A"
    [] ~hardBlock(c, a) /\ readOnlyBlock(c, a)                          -> "B"
    [] ~hardBlock(c, a) /\ ~readOnlyBlock(c, a) /\ defaultDenyBlock(c, hasToken) -> "C"
    [] OTHER -> IF loadDomainPolicy(c, Policies[a]) THEN "D" ELSE "pass"

Init ==
  /\ agent \in DOMAIN Policies /\ call \in Calls /\ token \in BOOLEAN /\ answer = "asked"

ToolCall ==
  /\ answer = "asked"
  /\ answer' = evaluate(call, agent, token)
  /\ UNCHANGED <<agent, call, token>>

Next == ToolCall

-----------------------------------------------------------------------------
(* What a call writes or deletes where layer D looks.                       *)
LookedAt(c) ==
  IF c.tool \in {"write", "edit"} THEN {c.zone}
  ELSE IF c.tool = "bash" THEN UNION {WritesOf(s) \cup DeletesOf(s) : s \in Seen(c.segs)}
  ELSE {}

OnlyChecks(s) == WritesOf(s) \cup DeletesOf(s) = {} /\ (s.own = {} \/ s.verb = "check")

(* Someone approved the call, of an agent that writes and has the shell.    *)
ApprovedShell(c, a, hasToken) ==
  hasToken /\ stageClassOf(a) = "writer" /\ (c.tool = "powershell" \/ Policies[a].bash \notin {"none", "read-only"})

(* src/safety/guard.ts:95: of a call that passes, what write, edit,         *)
(* redirections, output flags, tee and rm change is in the agent's write or *)
(* delete roots, in the run directory for an agent that only reads, and     *)
(* never a protected zone (but for the file of a flag of one word); a shell *)
(* command that changes anything else, by git, an installer or a shell in   *)
(* too many shells, is approved, of a writer, or it is a test or a linter;  *)
(* what bash runs is known; a tool reads inside the read roots, if any; and *)
(* without a policy file that loads no such call passes.                    *)
PassedIsConfined ==
  answer = "pass" =>
    /\ LookedAt(call) \subseteq (Policies[agent].upsert \ Policies[agent].deny) \cup Policies[agent].delete
    /\ stageClassOf(agent) = "read-only" => LookedAt(call) \subseteq RunZones
    /\ \A z \in LookedAt(call) :
         isProtectedPath(z, agent) => \E s \in Seen(call.segs) : z \in s.outputs \ s.words
    /\ call.tool \in SHELL_TOOLS =>
         \/ ApprovedShell(call, agent, token)
         \/ \A s \in AllSegments(call.segs) : OnlyChecks(s)
    /\ call.tool = "bash" => ~call.opaque /\ \A s \in Seen(call.segs) : s.verb \in KnownEffects
    /\ call.tool \in READ_TOOLS => (Policies[agent].read = {} \/ call.zone \in Policies[agent].read \cup {"absent"})
    /\ call.tool \in POLICY_GATED_TOOLS => ~Policies[agent].broken
=============================================================================
