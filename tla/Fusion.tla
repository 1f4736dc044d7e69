------------------------------- MODULE Fusion -------------------------------
(***************************************************************************)
(* One agent stage as the host runs it: the fan-out of src/fusion/ over the *)
(* slots of the stage, debate rounds, degradation and the merge of each     *)
(* mode, over the executors of src/runtime/ that start a worker, watch its  *)
(* verdict file and its exit, and kill it when it is late.                  *)
(*                                                                          *)
(* A verdict is what VerdictEmit writes: the vote and the text that a merge *)
(* reads.  The text is what the mode's merge sees in it: sentences (debate),*)
(* findings (adversarial), sections with the slots they cite (fuse), a plan *)
(* (collaborate).  Prompts, fences, costs and issues' wording are left out. *)
(* Two slots of one name would share a verdict file; the requests here name *)
(* their slots apart.                                                       *)
(***************************************************************************)
EXTENDS Naturals, Sequences, FiniteSets, SequencesExt, FiniteSetsExt

CONSTANTS
  Requests,       \* [mode, slots, all, rounds, off, visible, stack]
  SlotNames,      \* the names a stack may use, "A" among them
  Texts(_),       \* mode -> the texts a worker may deliver
  Votes(_)        \* mode -> the verdicts a worker may deliver

VARIABLES
  request,     \* the stage's fusion block, the operator's stack and executor
  aborted,     \* the run's abort signal
  worker,      \* slot -> its executor call of this round
  active,      \* the slots dispatched in this round
  results,     \* the rounds already over: slot -> result
  outcome      \* the merged step result
vars == <<request, aborted, worker, active, results, outcome>>

Modes == {"single", "sample", "opinion", "fuse", "debate", "adversarial", "veto", "collaborate"}
MULTI_SLOT_FUSION_MODES == {"fuse", "debate", "adversarial", "veto", "collaborate"}
MAX_DEBATE_ROUNDS == 3

-----------------------------------------------------------------------------
(* From the stage to the slots. *)

(* compile.ts: what the lane compiler lets through.  An empty stack accepts *)
(* every name.                                                              *)
assertFusion(q) ==
  /\ q.rounds # 0 => q.mode = "debate"
  /\ ~q.all => /\ Len(q.slots) >= IF q.mode \in MULTI_SLOT_FUSION_MODES THEN 2 ELSE 1
               /\ q.stack = <<>> \/ ToSet(q.slots) \subseteq ToSet(q.stack)

(* A name that the stack does not have is dropped in silence.               *)
parseSlots(q) == IF q.all THEN q.stack ELSE SelectSeq(q.slots, LAMBDA s : s \in ToSet(q.stack))

debateRoundCount(q) == IF q.mode # "debate" THEN 1 ELSE Min({MAX_DEBATE_ROUNDS, Max({1, q.rounds})})

(* Without fusion, or with no slot left, one worker runs the stage itself.  *)
resolveSlots(q) == IF q.mode = "single" \/ q.off \/ parseSlots(q) = <<>> THEN <<"A">> ELSE parseSlots(q)
Slots == DOMAIN worker

-----------------------------------------------------------------------------
(* What a slot leaves behind. *)

NoText(m) ==
  CASE m = "debate"      -> {}
    [] m = "adversarial" -> [findings |-> {}, confirmed |-> {}]
    [] m = "fuse"        -> [conflict |-> FALSE, sections |-> {}]
    [] OTHER             -> <<>>

NoFile == [st |-> "none", verdict |-> "none", text |-> NoText(request.mode)]
Result(verdict, text, timedOut, error) == [verdict |-> verdict, text |-> text, timedOut |-> timedOut, error |-> error]
Nothing == Result("none", NoText(request.mode), FALSE, FALSE)
Thrown  == [Nothing EXCEPT !.error = TRUE]
Idle    == [pc |-> "idle", alive |-> FALSE, file |-> NoFile, timer |-> "off", timedOut |-> FALSE, killed |-> FALSE, result |-> Nothing]

isDroppedSlot(r) == r.timedOut \/ r.verdict = "none" \/ r.error

(* toSlot: the verdict that counts, none when the worker timed out.         *)
toSlot(w) ==
  IF w.timedOut \/ w.file.st # "valid" THEN [Nothing EXCEPT !.timedOut = w.timedOut]
  ELSE Result(w.file.verdict, w.file.text, FALSE, FALSE)

-----------------------------------------------------------------------------
(* The merges: over the results r of the slots that remain, the set heard,  *)
(* or ss where their order tells.                                           *)

Merged(v) == [verdict |-> v, ran |-> {}, discarded |-> {}, timedOut |-> FALSE, agreement |-> {}, levels |-> <<>>]
Pass(b) == IF b THEN "PASS" ELSE "FAIL"

mergeSample(heard, r) ==
  LET votes(v) == Cardinality({s \in heard : r[s].verdict = v})
      top == {v \in {"PASS", "FAIL", "NEEDS_MORE"} : \A x \in {"PASS", "FAIL", "NEEDS_MORE"} : votes(x) <= votes(v)}
  IN  Merged(IF Cardinality(top) = 1 THEN CHOOSE v \in top : TRUE ELSE "NEEDS_MORE")

mergeFuse(ss, r) ==
  LET synth == IF "synthesizer" \in ToSet(ss) THEN "synthesizer" ELSE Last(ss)
      text  == r[synth].text
  IN  Merged(Pass(/\ ~text.conflict
                  /\ {"Goal", "Approach"} \subseteq {x.title : x \in text.sections}
                  /\ \A x \in text.sections : x.cites \cap (ToSet(ss) \ {synth}) # {}))

mergeDebate(heard, r) ==
  [Merged("PASS") EXCEPT !.agreement = {x \in UNION {r[s].text : s \in heard} : \A s \in heard : x \in r[s].text}]

(* The producer and the refuter are the first two slots that remain.        *)
mergeAdversarial(ss, r) ==
  LET confirmed == IF Len(ss) > 1 THEN r[ss[2]].text.confirmed ELSE {}
  IN  Merged(Pass(r[ss[1]].text.findings \cap confirmed = {}))

mergeVeto(heard, r) ==
  LET said == {r[s].verdict : s \in heard}
  IN  Merged(IF "FAIL" \in said THEN "FAIL" ELSE IF "NEEDS_MORE" \in said THEN "NEEDS_MORE" ELSE "PASS")

(* A plan is a sequence of tasks [id, assignee, dependsOn, complete].       *)
findCycle(tasks) ==
  LET deps(id) == (CHOOSE t \in ToSet(tasks) : t.id = id).dependsOn \ {id}
  IN  \E C \in SUBSET {t.id : t \in ToSet(tasks)} : C # {} /\ \A id \in C : deps(id) \cap C # {}

validateCollaboratePlan(tasks, names) ==
  LET ids == {t.id : t \in ToSet(tasks)}
  IN  /\ tasks # <<>> /\ Cardinality(ids) = Len(tasks)
      /\ \A t \in ToSet(tasks) : t.complete /\ t.assignee \in names /\ t.dependsOn \subseteq ids \ {t.id}
      /\ \A n \in names : \E t \in ToSet(tasks) : t.assignee = n
      /\ ~findCycle(tasks)

(* A task is in the level after the last of those it depends on.             *)
levelsOf(tasks) ==
  LET ids   == {t.id : t \in ToSet(tasks)}
      level == CHOOSE l \in [ids -> 1 .. Len(tasks)] : \A t \in ToSet(tasks) :
                 /\ \A d \in t.dependsOn : l[d] < l[t.id]
                 /\ l[t.id] = 1 \/ \E d \in t.dependsOn : l[d] = l[t.id] - 1
  IN  [n \in {level[id] : id \in ids} |-> {id \in ids : level[id] = n}]

(* The first slot whose plan is valid.                                      *)
mergeCollaborate(heard, r) ==
  LET slots == resolveSlots(request)
      valid == {i \in DOMAIN slots : slots[i] \in heard /\ validateCollaboratePlan(r[slots[i]].text, heard)}
  IN  IF valid = {} THEN Merged("FAIL") ELSE [Merged("PASS") EXCEPT !.levels = levelsOf(r[slots[Min(valid)]].text)]

(* Without fusion the one worker's verdict is the stage's; gates apart.     *)
runAgent(r) == Merged(r["A"].verdict)

mergeForMode(heard, ss, r) ==
  CASE request.mode = "single"      -> runAgent(r)
    [] request.mode = "sample"      -> mergeSample(heard, r)
    [] request.mode = "opinion"     -> Merged("PASS")
    [] request.mode = "fuse"        -> mergeFuse(ss, r)
    [] request.mode = "debate"      -> mergeDebate(heard, r)
    [] request.mode = "adversarial" -> mergeAdversarial(ss, r)
    [] request.mode = "veto"        -> mergeVeto(heard, r)
    [] request.mode = "collaborate" -> mergeCollaborate(heard, r)

(* Defect: a slot that drops in a later round keeps the opinion it had.     *)
CollapseKeeps(rounds) ==
  [s \in Slots |-> LET said == {i \in DOMAIN rounds : s \in DOMAIN rounds[i] /\ ~isDroppedSlot(rounds[i][s])}
                   IN  IF said = {} THEN Nothing ELSE rounds[Max(said)][s]]

collapseRounds(rounds) == [s \in Slots |-> rounds[Max({i \in DOMAIN rounds : s \in DOMAIN rounds[i]})][s]]

degradeSlots(r) ==
  LET remaining  == SelectSeq(resolveSlots(request), LAMBDA s : ~isDroppedSlot(r[s]))
      discarded  == {s \in Slots : isDroppedSlot(r[s])}
      heard      == Slots \ discarded
      failClosed == heard = {} \/ (request.mode = "veto" /\ discarded # {})
  IN  [(IF failClosed THEN Merged("FAIL") ELSE mergeForMode(heard, remaining, r))
        EXCEPT !.ran = heard, !.discarded = discarded, !.timedOut = \E s \in discarded : r[s].timedOut]

positionsChanged(previous, next) == \E s \in DOMAIN next : s \notin DOMAIN previous \/ previous[s].text # next[s].text

-----------------------------------------------------------------------------
(* A worker under its executor. *)

Running == outcome.verdict = "none"
Set(s, w) == worker' = [worker EXCEPT ![s] = w]
OthersKept == UNCHANGED <<request, aborted, active, results, outcome>>
Finished(w, r) == [w EXCEPT !.pc = "done", !.result = r]

(* run: the prompt is read, the verdict file removed and the worker started;*)
(* any of it may fail.                                                      *)
Start(s) ==
  /\ Running /\ s \in active /\ worker[s].pc = "idle" /\ OthersKept
  /\ \/ Set(s, [Idle EXCEPT !.pc = "racing", !.alive = TRUE, !.timer = "armed", !.killed = aborted /\ ~request.visible])
     \/ Set(s, Finished(Idle, Thrown))

(* The other slots' opinions cannot be written down for this one.           *)
DebatePromptLost(s) ==
  /\ Running /\ s \in active /\ worker[s].pc = "idle" /\ results # <<>> /\ OthersKept
  /\ Set(s, Finished(Idle, Thrown))

(* VerdictEmit: once, whatever the worker wrote there before.               *)
VerdictEmit(s) ==
  /\ worker[s].alive /\ worker[s].file.st # "valid" /\ OthersKept
  /\ \E v \in Votes(request.mode), t \in Texts(request.mode) :
       Set(s, [worker[s] EXCEPT !.file = [st |-> "valid", verdict |-> v, text |-> t]])

(* The worker writes its verdict file by hand: not JSON yet, or never valid.*)
Scribble(s) ==
  /\ worker[s].alive /\ worker[s].file.st = "none" /\ OthersKept
  /\ \E st \in {"torn", "bad"} : Set(s, [worker[s] EXCEPT !.file.st = st])

Exit(s) == worker[s].alive /\ Set(s, [worker[s] EXCEPT !.alive = FALSE, !.killed = FALSE]) /\ OthersKept

(* VisibleExecutor closes the pane, and ignores a failure to close it.      *)
PaneClosed(s, w) == \E alive \in {FALSE, w.alive} : Set(s, [w EXCEPT !.alive = alive])

(* waitForVerdictFile returned.                                             *)
VerdictSeen(s) ==
  LET w == worker[s] IN
  /\ w.pc = "racing" /\ w.file.st \in {"valid", "bad"} /\ OthersKept
  /\ IF request.visible
       THEN PaneClosed(s, Finished(w, toSlot(w)))
       ELSE Set(s, [w EXCEPT !.pc = "grace", !.timer = IF w.file.st = "valid" THEN "off" ELSE @])

(* The poll's read fails (the file went between stat and read, an I/O       *)
(* error): run() throws with the child alive and its timer armed.           *)
PollThrows(s) ==
  LET w == worker[s] IN
  /\ w.pc = "racing" /\ w.file.st # "none" /\ OthersKept
  /\ IF request.visible THEN PaneClosed(s, Finished(w, Thrown)) ELSE Set(s, Finished(w, Thrown))

Timeout(s) ==
  LET w == [worker[s] EXCEPT !.timer = "off", !.timedOut = TRUE] IN
  /\ worker[s].timer = "armed" /\ OthersKept
  /\ IF request.visible THEN w.pc = "racing" /\ PaneClosed(s, Finished(w, [Nothing EXCEPT !.timedOut = TRUE]))
     ELSE Set(s, [w EXCEPT !.killed = w.alive])

Abort ==
  /\ Running /\ ~aborted /\ aborted' = TRUE
  /\ worker' = [s \in Slots |->
       IF request.visible /\ worker[s].pc = "racing" THEN Finished([worker[s] EXCEPT !.alive = FALSE], Nothing)
       ELSE [worker[s] EXCEPT !.killed = @ \/ (worker[s].alive /\ ~request.visible)]]
  /\ UNCHANGED <<request, active, results, outcome>>

SeeExit(s) ==
  /\ ~request.visible /\ worker[s].pc \in {"racing", "grace", "reaping"} /\ ~worker[s].alive /\ OthersKept
  /\ Set(s, [worker[s] EXCEPT !.pc = "closing"])

(* Defect: a worker that lingers after its verdict is waited for only.      *)
GraceForgets(s) ==
  /\ worker[s].pc = "grace" /\ worker[s].alive /\ OthersKept
  /\ Set(s, [worker[s] EXCEPT !.pc = "reaping"])

GraceOver(s) ==
  /\ worker[s].pc = "grace" /\ worker[s].alive /\ OthersKept
  /\ Set(s, [worker[s] EXCEPT !.pc = "reaping", !.killed = TRUE])

(* The timers are cleared, and the file is read once more unless the worker *)
(* timed out; that read, or the poller's last, may fail.                    *)
Close(s) ==
  LET w == [worker[s] EXCEPT !.timer = "off"] IN
  /\ w.pc = "closing" /\ OthersKept
  /\ \/ Set(s, Finished(w, toSlot(w)))
     \/ w.file.st # "none" /\ Set(s, Finished(w, Thrown))

(* SIGKILL follows SIGTERM.                                                 *)
Die(s) == worker[s].killed /\ Exit(s)

-----------------------------------------------------------------------------
(* The rounds. *)

EndRound ==
  LET dispatched == [s \in active |-> worker[s].result]
      rounds     == Append(results, dispatched)
      survivors  == {s \in active : ~isDroppedSlot(dispatched[s])}
      over       == \/ Len(rounds) = debateRoundCount(request) \/ Cardinality(survivors) < 2
                    \/ results # <<>> /\ ~positionsChanged(Last(results), dispatched)
  IN  /\ Running /\ \A s \in active : worker[s].pc = "done"
      /\ results' = rounds
      /\ IF over
           THEN outcome' = degradeSlots(collapseRounds(rounds)) /\ UNCHANGED <<active, worker>>
           ELSE /\ active' = survivors
                /\ worker' = [s \in Slots |-> IF s \in survivors THEN Idle ELSE worker[s]]
                /\ UNCHANGED outcome
      /\ UNCHANGED <<request, aborted>>

Init ==
  /\ request \in {q \in Requests : assertFusion(q)}
  /\ aborted = FALSE /\ results = <<>> /\ outcome = Merged("none")
  /\ active = ToSet(resolveSlots(request))
  /\ worker = [s \in active |-> Idle]

Executor(s) == Start(s) \/ VerdictSeen(s) \/ Timeout(s) \/ SeeExit(s) \/ GraceOver(s) \/ Close(s)

Next ==
  \/ \E s \in Slots : Executor(s) \/ VerdictEmit(s) \/ Scribble(s) \/ Exit(s) \/ PollThrows(s) \/ DebatePromptLost(s)
  \/ Abort \/ EndRound

(* Timers fire, polls and reads come back, a killed process dies; the worker*)
(* itself may do nothing for ever.                                          *)
Fairness ==
  /\ WF_vars(EndRound)
  /\ \A s \in SlotNames : WF_vars(s \in Slots /\ Executor(s)) /\ WF_vars(s \in Slots /\ Die(s))
Spec == Init /\ [][Next]_vars /\ Fairness

-----------------------------------------------------------------------------
(* src/fusion/degrade.ts:21-33, src/fusion/run.ts:215-227: a stage passes on*)
(* nothing but verdict files of workers that were in time and, run          *)
(* headless, are dead; a veto only when every slot asked for voted PASS; a  *)
(* sample when PASS beats every other vote; a debate's agreement was said by*)
(* every slot it heard, all in the same last round; a collaborate plan walks*)
(* its tasks once, each after what it depends on.                           *)
PassIsEarned ==
  outcome.verdict = "PASS" =>
    LET ran == outcome.ran
        voted(v) == {s \in ran : worker[s].file.verdict = v}
    IN  /\ ran # {} /\ \A s \in ran : /\ worker[s].file.st = "valid" /\ ~worker[s].result.timedOut
                                      /\ ~request.visible => ~worker[s].alive /\ ~worker[s].timedOut
        /\ request.mode \in {"veto", "single"} => ran = Slots /\ voted("PASS") = Slots
        /\ request.mode = "sample" => \A v \in {"FAIL", "NEEDS_MORE"} : Cardinality(voted("PASS")) > Cardinality(voted(v))
        /\ request.mode = "debate" => /\ ran \subseteq DOMAIN Last(results)
                                      /\ \A x \in outcome.agreement, s \in ran : x \in worker[s].file.text
        /\ request.mode = "collaborate" =>
             \E s \in ran : LET tasks == worker[s].file.text IN
               \A t \in ToSet(tasks) : \E i \in DOMAIN outcome.levels :
                 /\ t.id \in outcome.levels[i] /\ \A j \in DOMAIN outcome.levels \ {i} : t.id \notin outcome.levels[j]
                 /\ \A d \in t.dependsOn : \E j \in 1..(i - 1) : d \in outcome.levels[j]

(* src/runtime/headless.ts:124-147: a stage ends, whatever its workers do.  *)
StageEnds == <>(outcome.verdict # "none")
=============================================================================
