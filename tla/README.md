# A TLA+ verification of pi-engteam

pi-engteam is a Pi extension that works off tickets: it polls trackers, claims a
ticket into a queue, gives it a git worktree, and drives it through a *lane* (a list
of stages: planning, steering by a human, implementation by an agent, tests,
review, a judge, publishing). Its README promises a "human in the loop at two
points: the steer stage before implementation, and the PR merge", and "a push that
happens only after a judge PASS bound to the judged commit". This directory models
the parts of the program that keep those promises, checks them with TLC on small
instances, and proves the central ones with TLAPS.

Paths below are relative to the repository; the implementation is `src/`.

## 1. Inventory

| Component | Code | State | Operations | Modelled in |
| --- | --- | --- | --- | --- |
| Lane compiler, iteration budget | `src/lanes/compile.ts`, `catalog.ts`, `src/engine/budget.ts` | none (pure) | compile, transitions, budget, reset grant | `LaneCompile` |
| Run engine | `src/engine/engine.ts`, `state.ts`, `verify.ts` | `state.json` of a run; `Engine.active` | start, execute, resume, cancel | `Engine` |
| Stage bodies, `runTicket` | `src/controller/stage-hooks.ts`, `lane-runner.ts`, `predicates.ts` | worktree, run directory | host, agent, human stages; gates; publish | `Engine` (as outcomes), `Gates`, `Fusion` |
| Steering | `src/steer/` | `steer-decision.json` | steer stage, decision file | `Engine` |
| Checkpoint, publish | `src/git/checkpoint.ts`, `preflight.ts`, `publish.ts` | lane branch, `hostCommits`, `judgedSha` | commit, preflight, push | `Engine`, `Gates` (scope), `Workspaces` (fingerprint) |
| Operator commands on a run | `src/commands/*.ts` | queue.json, the run | resume, approve, replan, cancel, start, drop, gc ... | `Engine`, `QueueClaims`, `Workspaces` |
| Session recovery | `src/scheduler/recover.ts`, `src/controller/register.ts` | all runs | pause running runs, mark lost workspaces | `Engine`, `Lease`, `QueueClaims` |
| Daemon lease | `src/scheduler/lease.ts` | `daemon.lease/owner.json` | acquire, renew, take over, stop | `Lease` |
| Queue, poller, claims | `src/scheduler/queue.ts`, `poller.ts`, `claim.ts`, `watermark.ts`, `src/commands/start.ts` | `queue.json`, watermarks, labels | poll, claim, admit, start | `QueueClaims`, `Polling`, `WriteBacks` |
| Land, rebase, revise cycles | `src/scheduler/land-reconcile.ts`, `rebase-cycle.ts`, `revise-cycle.ts`, `src/git/reconcile.ts`, `patch-id.ts` | published entries, branches | watch, reconcile, rebase, revise | `LandCycle` |
| Workspaces, repo lock | `src/workspace/`, `src/commands/gc.ts`, `drop.ts` | worktrees, shared git configuration, `lock` directories | create, remove, collect, lock, fingerprint | `Workspaces`, `RepoLock` |
| Lane schema, invariants, conditions | `src/lanes/load.ts`, `schema.ts`, `invariants.ts`, `intake.ts`, `expr.ts` | layers of `lanes.yaml` | merge, validate, choose, evaluate `when` | `LaneLayers`, `When` |
| Safety layers | `src/safety/guard.ts`, `layer-*.ts`, `shell.ts`, `paths.ts`, `classifier.ts` | none (pure) | classify a worker's tool call | `GuardLayers` |
| Approval tokens | `src/safety/tokens.ts`, `dispatch.ts`, `src/commands/grant.ts` | `approvals/*` of a run | ask, mint, take, put back, decide | `Approvals` |
| Gates and evidence | `src/gate/`, `src/controller/predicates.ts`, `src/engine/evidence.ts` | manifest, snapshots, evidence | snapshot, record, check, verify | `Gates` |
| Configuration | `src/config/` | five YAML layers | migrate, merge, narrow, provenance | `ConfigLayers` |
| Fusion, worker runtime | `src/fusion/`, `src/runtime/headless.ts`, `visible.ts` | slots of one stage, worker processes, verdict files | fan out, wait, kill, degrade, merge | `Fusion` |
| v3 scheduling | `src/v3/` | sibling worktrees | waves, apply, vote | `Siblings` (the rest not modelled) |
| Codify | `src/codify/`, `src/commands/codify.ts`, `codified.ts` | seeds, inbox, registry | mine, score, promote, dispatch, evict | `Mining`, `Rubric`, `Codified` |
| Vault | `src/vault/`, `src/commands/secret.ts` | keyring, table, seed, manifest | set, rotate, bind, export, scrub | `Vault` |
| Trackers | `src/trackers/`, `src/git/sticky.ts` | remote services | list, label, comment, who labelled | `WriteBacks`, `Triggers`, `Polling` |
| Intake | `src/intake/`, `src/scheduler/intake-claim.ts` | the entry being claimed | analyse, merge, rate, route | `Intake` |
| Operator's rules | `src/rules/`, `src/commands/remember.ts`, `forget.ts` | rules files | remember, retire, layer, tell | `RuleBook` |
| Setup, completions | `src/setup/`, `src/commands/completions.ts`, `doctor.ts` | none | dialogues, probes | not modelled |

How they interact. Every Pi session is one Node process; its command handlers are
`async` functions that interleave at every `await`. Several sessions can share one
factory home, and then they meet only in files: `state.json` of each run,
`queue.json`, rules, registry, vault, lock directories, `daemon.lease`. `/factory start`
takes an entry from the queue and calls `runTicket`, which provisions a workspace,
creates the run (`startRun`), sets up the environment and executes it (`executeRun`).
The engine calls stage bodies and saves `state.json` after each step; an agent's stage
starts workers through fusion, each worker asks the guard before every tool call, and
the host's predicates judge what it left in the worktree. A human answers a steer
pause by `/factory approve` or `/factory replan`, which write a decision file and
call `resumeRun`. `session_start` calls `recoverFactory`, which pauses whatever
`state.json` calls running, then asks for the daemon lease and, as its holder,
polls the trackers; intake reads what was claimed. What is published is watched until it
lands, and landings of others start rebases.

What is hard here, and where the models aim:

* calls check, await, and only then claim: the engine's `active`, the vault's master,
  the lease, the lock;
* a state that was loaded before an `await` is saved after it, over what others wrote:
  runs, queue, rules, registry, inbox;
* a crash between two writes that belong together: decision and verdict, commit and save,
  worktree and its metadata, seed and manifest, label and queue;
* workers and publish bodies that outlive their deadline;
* counters that must trip in the right order, also after rounds were given back;
* several layers (lanes, configuration, guard) of which each may only narrow, and texts
  (globs, conditions, shell lines) that stand for sets the code never enumerates;
* remote calls that fail after they took effect, pages that end, roles that are cached,
  marks that are taken at the wrong end of a drain.

`PROJECT.json` lists each of them at its line, with the property that covers it.

## 2. The modules

| Module | What it is |
| --- | --- |
| `LaneCompile` | How a lane becomes transitions; the iteration budget. Pure operators. |
| `Engine` | One run under any number of callers and processes. Extends `LaneCompile`. |
| `Mutex` | An abstract lock: callers enter when nobody is inside, and leave. |
| `RepoLock` | The lock directory of a repository, step by step. Implements `Mutex`. |
| `Lease` | The daemon lease and the scheduler that asks for it. Implements `Mutex`. |
| `QueueClaims` | `queue.json` and everybody who rewrites it. |
| `Approvals` | The approval tokens of a run: who asks, who mints, who takes them. |
| `Gates`, `Siblings`, `Fusion` | Parts of a build stage: gates over a worktree, sibling worktrees, a fused stage. Together: `MCWork`. |
| `LandCycle`, `WriteBacks`, `Triggers`, `Polling`, `Workspaces` | What happens to a ticket outside its run. Together, with `QueueClaims`: `MCTickets`. |
| `GuardLayers`, `ConfigLayers`, `LaneLayers`, `When`, `RuleBook`, `Intake`, `Vault`, `Mining`, `Rubric`, `Codified` | What decides what a run may do. Together: `MCRules`. |
| `EngineProofs`, `RepoLockProofs`, `LeaseProofs`, `ApprovalsProofs` | TLAPS proofs about `Engine`, `RepoLock`, `Lease` and `Approvals`. |
| `WorkProofs` | ... about the gates, the siblings and the fused stage, as `MCWork` runs them. |
| `QueueProofs` | ... about `QueueClaims`. |
| `TicketsProofs` | ... about the land cycles, the worktrees, the poll, the triggers and the write-backs, as `MCTickets` runs them. |
| `RulesProofs` | ... about the guard, the configuration, intake, the vault, the mining and the registry of codified tools, as `MCRules` runs them. |
| `MCEngine`, `MCRepoLock`, `MCLease`, `MCQueueClaims`, `MCApprovals`, `MCWorkspaces` | Instances of one component. |

The modules meet where the code does: `Engine` takes the repository lock to be
exclusive (`RepoLock` says when it is), `QueueClaims` takes a run to be its status
(`Engine` says how it comes by it), a poll of `QueueClaims` is what the holder of
`Lease` does, `GuardLayers` asks whether there is a token (`Approvals` says how it is taken),
`Gates` stands under the verdicts of `Engine`'s stages, and `LaneLayers` compiles the
lane it accepts with `LaneCompile`.

`MCWork`, `MCTickets` and `MCRules` put components that share no state side by side: the
variable `which` says which of them runs, the others are idle. One run of TLC then answers
for all of them; the behaviours are those of each component alone, no product is formed.

Definitions whose comment begins with *Defect:* are wrong on purpose and used by
nothing. Each property is tested by putting one of them in place of the definition
that follows it: TLC must then refute the property.

### LaneCompile

A lane is a sequence of stage records with what the compiler and the engine read of
a stage: its kind, whether it is implement-class, `onFail`, `maxRounds`, whether its
PASS is safety-gating, whether the host verifies it, whether it has a `when`, whether
it publishes. A stage is its index; the terminal stage that `compileLane` appends is
`Escalate(lane)` and the pseudo-target `halt` is 0. Prompts, models, tools and fusion
slots are left out.

### Engine

| Variable | In the code |
| --- | --- |
| `disk` | `state.json`: status, current step, iteration, rounds, `cancelling`, escalation, budget, `judgedSha`, `hostCommits`, the pending decision |
| `mem` | the `RunState` object each call works on |
| `snap` | what `saveRunState` has serialised and not yet renamed into place |
| `pc`, `req`, `res` | where each call is, the command it executes, the `StepResult` in hand |
| `active` | `Engine.active`, one map per process |
| `up` | the running Pi sessions |
| `git` | content, HEAD and commits of the lane branch |
| `late` | publish bodies that run on after `invoke` gave up on them |
| `steerFile` | `steer-decision.json` |
| `hist` | history, written beside the code's state and read by properties and bounds only: approvals given, decisions delivered, what a gating stage was given, what was pushed |

One action stands for the code between two awaits that let others in; the names
follow the code (`ResumeCheck`, `ResumeLoad`, `ResumeSaved`, `ExecCheck`, `ExecLoad`,
`TopExhausted`, `FinishStep`, `ApplyTransition` ...). A save is two steps: the object
is serialised at once, the file appears with the rename. That split is what makes a
late `cancelling` mark, or a cancel between a load and a save, visible.

Stage bodies are their outcomes: any verdict the kind of stage can return, with or
without an escalation, a checkpoint request, a cost, a new content of the worktree.
The content of the worktree is a version number; a commit is named by the version it
recorded, so "the tree that was judged is the tree that is pushed" is an equation.

Abstractions to know of:

* `pauseRunningEngineRuns` loads and saves one run at a time; for one run that is a
  single step here (`SessionStart`). Commands are registered before `session_start` comes
  (`register.ts:225`, `236`), so one could slip in between the two: the step is right for
  `Overlap = "none"`, and leaves that race out otherwise.
* `/factory approve` asks the queue's entry whether it awaits steer. The entry is
  `QueueClaims`' and may be behind the run, so that `CallApprove` comes at any time here.
* Where HEAD cannot be read, `finishStep` binds the verdict to the latest checkpoint
  (`engine.ts:484`): HEAD can be read in `FinishStep`. Its awaits up to the save
  (`engine.ts:478-515`) are one step.
* The repository lock that publish takes is exclusive.
* Saves do not fail. A failed write leaves a running status behind, which only a
  new session repairs, see *Known hazards without a property*.
* The handoff stage, `workspace_lost` and prompts are left out; gates and evidence are
  `Gates`.
* Only `/factory approve` and `/factory replan` write the decision file; the
  dialog's other answers (steer, edit-approve, drop) are persisted by no command.
* A `revise` is a resume with `resetRounds`. Its one caller, the revise cycle,
  resumes at `implement`; `ReviseFrom` widens that to any stage of the lane, as the
  comment on `resetRoundIterationGrant` claims it may.

`Overlap` says when a command may arrive while another call is between its own
awaits. `"any"` is the code: any time. `"none"` lets commands meet a run that is
executing, but not another command that has not reached its claim or its end yet:
what an operator who waits for each prompt can do. The safety properties of the run
`control` hold under `"none"`, and the run `overlap` shows that the first of them
fails under `"any"`. The same property fails when a second Pi process starts
(`recoverFactory` pauses the first one's live run before it asks for the lease); no run
repeats it.

### RepoLock

| Variable | In the code |
| --- | --- |
| `dir` | the lock directory: whether it is there, the pid in `owner.json`, whether it is older than `staleMs` |
| `pc` | where each call of `withRepoLock` is |
| `saw` | the owner it has read (`readOwner`) before it asks for the age (`lockAgeMs`) |
| `up` | live processes |
| `turns` | history: no two calls have been between reading the owner and the takeover at a time |

`mkdir`, the write of the owner, the read of the owner, the read of the age, the
rename that takes a lock over and the removal are a step each. A crash ends all calls
of a process and leaves the directory. `Slow` is whether `staleMs` (180 s) may pass
between two adjacent steps of one call; the runs and the proofs assume it does not.

### Lease

| Variable | In the code |
| --- | --- |
| `dir`, `fd` | `daemon.lease` and its owner; writes of `owner.json` that have opened the file and not filled it |
| `pc`, `tries` | where the acquire of a session is, for recovery or for the scheduler; how often it has taken over |
| `sched` | the `Scheduler`'s `lease`, interval timers and `stopped` |
| `renewers`, `renewing` | renewal timers of handles not stopped; renewals between open and fill |
| `rescans` | sessions in which a `/factory rescan` is draining |
| `turns` | history: nobody has looked at the lease while another was writing or taking it, and no start was met by a stop |

A session starts with `recoverFactory`, which takes the lease and gives it back, and
then `Scheduler.start`. `/factory start` may start the scheduler again, a stop may come
at any time, a session may shut down or die at any point and come back with a new pid;
`DeadProc` stands for the pids that are gone. `/factory rescan` (`Rescan`, `RescanEnds`) polls
in any session at any time, with neither the lease nor the interval's `ticking` flag: two sessions
can poll at once by it whatever the lease says, so that `UnaskedPollIsAlone` is about the sessions that poll by
themselves. What two polls at once do to the queue is in `QueueClaims`, whose polls know of no lease.
`MaxHandles` bounds the leases one session
has taken and not given back (it can do so again and again: `MCLease_leak.cfg`).

### QueueClaims

| Variable | In the code |
| --- | --- |
| `queue` | the entries of `queue.json`: ticket, state, run, whether workspace and judged commit are recorded |
| `label` | the factory label of a ticket in its tracker |
| `runs` | the runs and the status their `state.json` shows |
| `pc`, `req` | where each poll or command is and what it works on |
| `copy` | the queue it has read and changed, `runStart`'s for as long as the run takes |
| `inner` | the queue that `bindQueueRun` or the publish stage has read |
| `hist` | history: copies overtaken by another's write (`stale`), whether one was written (`lost`), what an ended session left halfway (`torn`), tickets whose state was set by hand or in passing (`forced`), finished entries reopened (`revived`) |

There is no lock on `queue.json`, so a read and a write are steps of their own and every
command interleaves with every other. What a session does between the two (intake,
git, the run itself) is in between.

Each property says under which history it holds. `EntriesSound` (one open entry per ticket;
who waits for a human has a run) holds whatever is lost. The others hold until a caller writes a copy that another's write has
overtaken, and of tickets that were queued once and that no operator has set by hand;
after a lost update nothing about the queue is true, and the model shows that rather
than hides it: `hist.lost` is reached in a few steps.

Abstractions to know of:

* Key, ref and id of a ticket are one thing; one repository and one tracker. What a tracker
  may do to the calls of a claim is `WriteBacks`'.
* A write is atomic, although writers of one process share one temporary file.
* A poll may work on a list it got earlier, so it needs the ticket to have been labelled
  ready at some time, not now.
* Admission never refuses: the default `world` of `makeOnTicket` is empty and nothing
  in `src/` passes another. `retry` of a lost claim is in `WriteBacks`.
* A second `executeRun` after `resumeRun` (approve) returns what the first did; `Engine`
  has its races.
* Where intake parks a ticket (needs-triage, needs-info, needs-decision) is one state.

### Approvals

| Variable | In the code |
| --- | --- |
| `pending`, `denied`, `request` | the request files of a run, `approvals/pending` and `approvals/denied`, and what they ask for |
| `granted`, `token` | which tokens are under their own name in `approvals/granted`; the content of each file, wherever it has been renamed to |
| `guard` | where the guard of each worker is in `fileTokenSource.take`: names of its listing not looked at, the token it has renamed to itself |
| `grant` | the command `/factory grant`, between the request it shows and the token it writes |
| `disp` | the dispatcher: its tick, what it remembers (`seen`), `stopped` |
| `hist` | history: tokens minted, used, unlinked as unreadable, left by a killed worker; how often a call went through and was approved; what the dispatcher decided |

Workers run beside the controller and share nothing with it but these directories. A token is
written in two steps (the file appears, then its content), and a guard may come between
them. A file that a guard has renamed nobody else can reach, so what it does with it (spend,
put back, unlink) is one step. A directory is listed in any order.

Abstractions to know of:

* A call stands for its `op` and `argsHash`. A request whose label or path is not spelt
  the way the guard hashes it opens nothing, and is left out.
* Layers A, B and D, and the shell classification behind layer C, are `GuardLayers`': `Calls`
  are those that layer C lets through with a token only, `Local` those that
  `localDestructiveOnly` accepts. Layer D may still refuse a call whose token is spent.
* A request is written in one step; file operations do not fail; a worker killed elsewhere than
  with a token in hand leaves nothing behind.
* What `resumeRun` does after a grant is `Engine`'s. The worker is told to stop with the
  flag `approval-needed`; nothing in `src/` turns that flag into a pause.
* The dispatcher is written and tested, but `src/` does not start it yet. It is modelled
  beside `/factory grant`, as its comments intend it to run.

### Gates

| Variable | In the code |
| --- | --- |
| `base`, `head`, `work` | the trees at `baseSha`, at HEAD, in the worktree: file to content |
| `manifest`, `declared` | `manifest.json` as the gate writer recorded it; `testChanges` of the latest verdict of implement |
| `issues` | what `stuck-detector` compares: the issues of each round |
| `judged`, `pushed` | the trees at `judgedSha` and on the remote |
| `pc`, `hist` | the stage that runs next; history: the tests at the outset, the tree the latest checks ran on, the files changed since (`late`), and those of them that an audit changed (`audited`) |

A content is none, the base's, an edit, a skip marker or a doc marker; what the gates read
from texts (junit, evidence, criteria) is an input chosen where it is read. `GateStage`,
`Implement`, `ImplementTimeout`, `TestStage`, `Review`, `Security`, `ReaderTimeout`, `Judge` and `Publish`
are each a stage with its predicates in their order; every one of them but publish may leave
another tree than it found, since an agent that only reads has a shell too (`GuardLayers`), and its
checkpoint commits that. The checks run on one tree and their gates measure the one they leave
(`stage-hooks.ts:369`, `374`). `MaxChanged` stands for `maxDiffLines` too.

Behaviour to know of: what the checks or a review change is not held against the manifest,
the infrastructure or (a review's) the limit on size any more, and what the audit changes is held against nothing: its
checkpoint commits it, `judgedSha` is taken after it, and publish pushes it. What the judge changes is
committed after `judgedSha` was taken, so that publish refuses.

Behaviour to know of: the snapshot a round is compared with is taken anew for each round, so
what a timed-out round left outside the write roots is caught by `finalize` alone; the manifest
of a run is never recorded again; `collectedCount` is never recorded; the restore of test infrastructure
by `git checkout base -- globs` restores nothing when one glob matches nothing; a check without a
`junitPath` can never pass, because `junit-green` is always added.

### Siblings

`mode`, `plan`, `remaining`, `wave`, `results`, `votes` and `phase` are the locals of
`runParallelDag`, `runBestOfN` and `executeCollaborate`; `primary` is the primary worktree, a file
being the set of tasks whose edits are in it; `wrote` and `outcome` are what came of it. A sibling
is cut from the base branch, runs, and is applied in the order of its wave. A wave is a set of tasks, in the
order of the plan (`Place`), and `scheduleDag` is the one set that a walk of the ready tasks in that
order takes: a task is left out exactly if a file of it is taken. Nothing in `src/` calls
these functions yet. They hold what the property says within a wave only: a later wave's files are
cut from the base and go over the earlier one's, returned files are not compared with the
declared ones, and a task that throws leaves the siblings behind. A file that a candidate does not return
counts as empty (`Content`, `best-of-n.ts:197`): where most of those that passed lack it, or the first
of them does and no two agree, it is written empty over the primary's. `RunPlan` validates every plan at once; the
collaborate loop does not, and throws at the task that cannot start, with what it ran before left in place.

### Fusion

| Variable | In the code |
| --- | --- |
| `request` | the stage's fusion block, the operator's stack, the executor |
| `aborted` | the run's abort signal |
| `worker` | a slot's executor call of this round: process, verdict file, deadline, grace, kill |
| `active`, `results`, `outcome` | the slots dispatched, the rounds that are over, the merged result |

Every mode of `src/fusion/` over both executors. A worker emits, scribbles into the file, exits,
hangs or is killed, at any time against the poll, the deadline and the abort. Texts are what the
merge of a mode reads in them.

Behaviour to know of: a throwing read in the poll ends `run()` with the child alive
(`headless.ts:124`); an unknown slot name is dropped without a word, and an empty stack turns a veto
into one worker; the visible executor never notices that a worker has exited; two slots of one
name would share a verdict file and are left out.

### LandCycle

| Variable | In the code |
| --- | --- |
| `base`, `fetched` | the commits of the remote base; how many of them `origin/<base>` shows |
| `entry` | published queue entries: state, counters, patches, mark |
| `branch`, `remote` | local branches by their suffix `-r<n>`; which of them the remote has |
| `job`, `revising` | the reconcile, `afterLand` or rebase under way; runs resumed for a review event |

Work is a set of patch-ids, so that squash, merge, rebase and a partial cherry-pick are
different commits over the same set. A squash commit may touch a published entry's hunks in half or
more of their lines, or not. `afterLand`, `watchPublished`, `drainReviseOnce` and
`reconcilePublished` are exported and called by nothing in `src/`; they are modelled as their
comments place them, beside the commands. A failed cycle leaves its branch behind, and a retry
under the same suffix then fails for good (`rebase-cycle.ts:105`); a revision's patch is foreign to
`hostCommits`, so that a later rebase takes the branch for a human's.

### WriteBacks, Triggers, Polling

`WriteBacks`: an operation (claim, abstain, publish, land, rebase, retry) is the sequence `plan`
of the calls it has left to make. A call may fail before or after it took effect, the host may stop between two,
a person may change labels or remove a comment. `posts` counts what was ever posted under an
idempotency key, `marked` is the comments with their marker, `page` is whether there are more comments than a page
holds and which markers are past the first (a lookup reads one page: 30 comments of GitHub, 20 of GitLab, one answer of Azure DevOps), `posted` is the adapter's memory, `disk`
and `held` are the queue's entry and the copy at hand, `tags` is what Azure's
read-modify-write works on, `excuses` counts repetitions whose reason lies outside the host.

`Triggers`: `events` and `role` are the tracker's own book, `roles` is GitHub's cache, `answer` is
the last question with what the book says about it. `labelerOf` and `isAuthorized` have no
caller in `src/`; they are asked here whenever.

`Polling`: `drain` is the listing under way, with its attempts; `marks` are the watermark files;
`outlasted` tells that a drain took longer than the overlap.

Behaviour to know of: Jira in cadence mode looks up no key; a comment that fails after a claim
(`poller.ts:174`) leaves the entry claimed; `retry` on GitHub passes a bare number, so its label
is not removed; an edit of the sticky comment loses its marker; only 429 is retried; one page
of a history is read; a person's cached role never expires; `makeOnTicket` is never given
`authorized`; inbox requests are read, deleted and discarded.

### Workspaces

| Variable | In the code |
| --- | --- |
| `config`, `private` | the git configuration all worktrees share; a worktree's own |
| `tree`, `tip`, `pushed` | worktrees, branches, what the remote has |
| `lock` | the repository's lock |
| `run`, `entry` | a run, its branch and claimed fingerprint; its queue entry |
| `op` | the removal, `gc` or `drop` under way |
| `lost`, `unwritten` | history: branches removed with work nobody else has; trees removed by a drop, or a collection that did not live to write the queue |

Kinds of worktree: the provider's own, one whose entry names its repo by `owner/name`, herdr's, the
main checkout, a sibling. `Crash` ends the session. The fingerprint covers the shared configuration as a
whole, hence the run `workspace_drift`. `drop` takes the worktree for the git directory, so its
lock directory dirties the tree and a removal without force refuses (`DropRemoves`). The herdr provider
knows a worktree only in the session that made it (`Known`, `herdr-provider.ts:43`), since the queue does not record
its workspace id: after a restart drop and gc throw at it. herdr's own removal is external; it is taken to refuse
what git refuses and to remove the branch. `drop` does not tell the queue that the tree is gone: its entry
goes on naming it, and gc then throws there for good.
Checks of a removal come before its lock; `create` refuses for good where a crash left a
worktree without metadata (`git-provider.ts:130`).

### GuardLayers

`agent`, `call`, `token` and `answer`: one tool call, by an agent of a policy, with an approval
there or not. A path is its zone, a shell line the segments that `shell.ts` finds in it, or opaque.
A segment has the class of its verb, how many shells it is nested in, the zones its words name, those its
redirections and output flags write, and those that its program changes without saying so (`own`).
The four layers are operators in their order; layer C takes the token before layer D looks, so a
call may be refused with its token spent. `controllerHardBlock` is left out.

Behaviour to know of: the effects of git, installers, `gh` and `env` are "known" (`classifier.ts:150`), but
nothing looks at what they write or delete: an approved `git clean`, `git checkout --` or `npm install` of a
writer may change any file. Tests and linters are safe without an approval, `eslint --fix` included.
`powershell` is judged by layers A to C and not by layer D. No layer looks into a fifth shell;
a command that opens one is destructive. An output flag and its file in one word name no zone for
layer A. `PassedIsConfined` states what is left: what layer D can see is confined, and what it cannot is
approved or a check's.

### ConfigLayers

`next` layers have been merged into `config` with `provenance`; `upper` keeps what each left, so
that the property can compare; `failed` is the error, `effective` what the run gets. Keys that
narrow by each rule (rank, ceiling, subset, superset) stand for the rest. Values are pinned to a run
by `configSha` according to `effective.ts:51`, while `lane-runner` loads them again: a pinned run
is not modelled.

### LaneLayers and When

`LaneLayers` merges `layers` of lane files into `lanes`, refuses or accepts, chooses a `lane` for a
ticket and walks it with `LaneCompile`'s transitions (`at`, `passed`, `head`, `judged`, `pushed`).
The property is about what an *accepted* combination of layers can do when it runs.

`When` holds the grammar of conditions as a descent over tokens (functions of the place in the text that
lead back to each other through the brackets), beside a reference that says what a condition means, and the
engine's evaluation over the scope `whenScope` gives.

Behaviour to know of: the conditions of diagnose, design and security in `assets/lanes.yaml` read
brief, size, flags and diff, which `whenScope` never passes (`ConditionsSeeTheTicket`); the tier is
"low" until the chore's scope check; a name that every object inherits (`constructor`) is found by `lookup` in the
code and not in the model; a condition is not parsed at load; an overlay may set
`onFail: continue` on a judge or place an implementer's agent under another name before steer.

### RuleBook and Intake

`RuleBook`: `file` holds the rules of the operator's and the repository's file, `proc` the command
each session runs, `given` the rules a prompt was given. A write truncates, then fills. History: `said`
is what the operator left in force, `crossed` are files on which two commands or a crash met. A rule is a
line of some size, and a prompt drops rules from the end until their number and their bytes fit (6 KiB: `MAX_BYTES`), so that a
rule in force may not be told. A rule's
lane, repo and paths are filtered nowhere; a torn file reads as no rules and the next write keeps
it so; a locked built-in rule is last in order and the first to go at the cap of a prompt
(`LockedIsTold`).

`Intake`: `text` is the ticket's, `read` what the poll listed, `answers` the samples, `basis` what the
entry was decided on, `told` whether a comment said why it is parked. Samples have no deadline. The
controller passes no analyst (`register.ts:192`), so that a ticket without a kind label stays
`classifying`; a parked ticket that is edited and labelled again is a duplicate (run `rules_readded`);
`runStart` reads every ticket from the local tracker, which refuses a remote one's reference
(`ReadyIsRun`).

### Vault

`master` is the keyring's, `store` the table (a row's `key` is the master it was sealed under),
`seed` and `manifest` the two writes of a bind, `file` and `envelope` what scrub and export work on, `proc` the
command of each session, `hist` history. Two sessions at first use both make a master; a set in flight
loses a rotation's mark or brings a removed row back; a crash in a bind leaves a seed no later bind
reads; scrub skips rows it cannot open and writes stale text back; seeds are scrubbed by token shapes
only, because nobody passes `deps.vault`. A scrub's temporary file and its rename are one step, although two scrubs
of a file share its name (`scrub.ts:126`).

### Mining, Rubric, Codified

`Mining`: seeds of a writer stage, rows of the shared inbox, a landing's rewrite of it from a copy
(`stamp`), a scan's candidates. `Rubric`: `scoreAssessment` over globs as sequences of segments, against
the paths they stand for. `Codified`: `reg` is the registry file, `call` a command with its copy. A member that is
reverted puts its tool on probation from every state that may become probationary, also staged, demoted and
drifted (`SurvivalReverted`, `drift.ts:59`): this is a way to a place without the operator, and the
property names it. A rejection without a date (`registry.ts:196`) has no cooldown and is not modelled.
`execution.json` is written by nothing in `src/`, and demotion, eviction, staleness, drift,
`stampLanded`, `appendCodifyInbox` and the rubric have no caller there; they are modelled as exported.

## 3. What is checked

### Runs that pass

| Run | Instance | Shows |
| --- | --- | --- |
| `control` | steer, implement, judge, publish; two callers in one process; two commands, a crash and a restart | one executor (`AtMostOneExecutor`); the status on disk tells whether somebody executes (`StatusTellsExecutor`: no run is left `running` with nobody executing it, a finished one is quiet); `FinishedIsFinal`; no implementation before steering, and a decision reaches one attempt (`DecisionsHonoured`); a cancellation on disk is never turned into success or failure (`CancelHonoured`) |
| `work` | implement, security (optional, one round of its own), judge, publish; one caller; any edit and hand commit at any time, late publish bodies, two fix rounds, a budget of one cost unit; one resume from any stage, one restart | what is pushed was reviewed (`PushedWasReviewed`); the round counters trip before the iteration backstop (`BackstopNeverFirst`); every execution comes to a pause or an end (`ExecutionEnds`) |
| `lock_calls` | four calls in three processes, two of them in one; crashes anywhere | `ExclusiveUntilACrash`; refinement of `Mutex` (`ImplementsMutex`); `CallEnds` |
| `lease_sessions` | two sessions that start, recover, poll, stop, renew, die and come back; one may rescan | one holder, one session that polls unasked, and it is on record, by turns (`UnaskedPollIsAlone`); refinement of `Mutex`; an abandoned lease is taken (`AbandonedIsTaken`) |
| `approval_tokens` | two guards, a local and a remote call, one request, two tokens that may expire; operator and dispatcher; one end of the controller | a token opens once, for a call that was approved as often, the dispatcher decides once and is quiet after `stop()` (`ApprovalsCount`); no token is lost between two guards that try it (`TokenKept`, `RefusedWithoutToken`) |
| `work_parts` | `MCWork`: gates, siblings, fusion | `PushedPassedGates`: but for what was changed after the checks began, the pushed tree is in scope, is what they ran on, and its tests are known. `AppliedIsRight`: siblings of a wave do not undo each other, and a vote applies the work of those that passed. `PassIsEarned`: a fused stage passes on verdicts in time, a veto on every slot asked for. `StageEnds` |
| `tickets_parts` | `MCTickets`: queue, land, write-backs, triggers, polling, workspaces | `EntriesSound`, and while no stale copy is written `WorkIsAccounted` and `QueueTellsOutcome`; `EntryTellsLanding`; `OpenBranchKept`; `ToldOnce`; `AuthorizedByTrusted`; `PollSeesAll`; `TreesAreKept` |
| `rules_parts` | `MCRules`: ten components | `PassedIsConfined` (guard), `EffectiveIsHonest` (configuration), `AcceptedStaysGuarded` (lanes), `WhenIsRead` (conditions), `RulesInForce`, `ReadyIsAgreed` (intake), `SecretsHold` (vault), `AcceptedIsInside` (rubric), `MinedIsTrue`, `PlacesAreEarned` (registry) |

Some of these names are conjunctions: the parts are named definitions above them in the
module, each with its comment, and at least one wrong variant of the code per part is known to
break it (`PROJECT.json`, "mutants").

What the properties except, and why. Many components keep their promise but for a
named window, and the property says which: `OpenBranchKept` has none; `ImplementsMutex` and
`UnaskedPollIsAlone` hold by turns; `UnaskedPollIsAlone` excepts the polls of `/factory rescan`;
`TokenKept` tokens that a guard met half-written or was killed with; `WorkIsAccounted` and
`QueueTellsOutcome` stale copies; `PassedIsConfined` what a program changes without
saying so, of an approved call or a check; `PushedPassedGates` the files that the checks, the review or the audit changed
after the checks had begun; `AppliedIsRight` files of a later wave or that nobody declared, and a file
emptied by candidates without it; `PassIsEarned` slot names that the stack does not know;
`ToldOnce` excuses a failed or blind lookup, a marker past the first page or that a person removed, Jira, and a claim that
failed half-way; `PollSeesAll` a drain that outlasted the overlap of five minutes;
`AuthorizedByTrusted` a history longer than a page, a stale cached role, and Azure and Jira, which
name whoever edited any label last; `AcceptedStaysGuarded` a layer that lets steering's refusal continue; `TreesAreKept` a forced `gc`, commits between a check
and its lock, and entries whose tree was dropped; `RulesInForce` files on which two commands crossed; `SecretsHold` two sessions that
both found no master, and binds that crossed; `MinedIsTrue` rows that came between a landing's read
and rename; `PlacesAreEarned` a stale copy of the registry and a reverted member. These exceptions are the
hazards that remain: each is there because TLC found a behaviour of the code that needs it.

Bounds. Two callers are enough for every race between two engine calls; a third
call would have to pass the same two guards. Two commands after the first `run` allow
resume after resume, approve with a cancel, replan and then approve. One crash
reaches every program point and meets every later command. Three contents of the tree
distinguish the base, the judged and a later one. The lanes have one stage
of each sort the engine treats differently; a longer one repeats the same
transitions, except for the counters, which is why `MCEngine_restored.cfg` takes the chore
lane of `assets/lanes.yaml` as it stands.

The lock needs three callers for one to hold while two judge, and a fourth beside one of
them in its process; each process may die. Two sessions are enough for the lease: one
that has it and one that looks; one of them may rescan. Two guards are enough to take one token from each other; a request
may be granted by the operator twice, by the dispatcher and the operator, or by two dispatchers
one after the other, which takes two tokens.

* `work_parts`. Gates: five files, one inside each set a gate distinguishes, at most three that
  differ from the base, which is one more than the limit of the gate, and one of them changed late,
  by a check, a review or the audit; three rounds, so that a failed round can taint the next and the one after.
  Siblings: every dependency graph over three tasks, cycles included, and two files. Fusion: two
  slots and every mode; a debate of three rounds under the visible executor only, since rounds
  and processes multiply.
* `tickets_parts`. Queue: one ticket (a lost update takes all of them, which a ticket with a
  re-enqueued second entry shows too), two callers, so that a start with its run and bindings interleaves
  with a whole second command, two runs, and three commands. Land: two entries, one of which more
  happens to than a merge; two commits of the base, three patches, one cycle and one revision;
  the constraint `FewDeeds` allows any three of landings, cycles, revisions and deletions, and fewer
  once two are landings. Write-backs: seven adapters, two faults or restarts, one change by a
  person, who may also fill the page and push markers past it. Triggers: pages of three, four events, two role changes. Polling: two trackers, an
  overlap of one and a clock to five. Workspaces: two runs of three pairs of kinds,
  one commit per branch, two operations. Callers are symmetric.
* `rules_parts`. Guard: file tools in all sixteen zones; shell lines of one segment and of two over nine of
  them, in one shell, in the last that the guard looks into and in the next, and in powershell; segments that name,
  redirect to, output to or change by themselves one zone at most; four policies. Configuration: keys of each narrowing rule, files that set or delete one or
  two, five layers. Lanes: two layers over the shipped lanes. Conditions:
  every sequence of up to three tokens, sentences of two or three comparisons, three of the shipped
  conditions. Rules: two sessions, three commands; a prompt has room for two
  rules, or for one that is long. Vault: two sessions, two commands, a new vault or
  one in use. Mining: two runs and scripts, two rounds, two rows each. Registry: two tools, one of which did not land clean, one caller beside
  the host's own changes, caps of one; no tool is a task tool there, which could never be active and leave two tools to
  compete (that such a tool does not run in the host's place is proved only); the constraint `OneOut` keeps one tool out of its pool at a
  time, and a caller's copy different in one tool. Intake: tickets with and without a kind
  label, five answers of an analyst and a failing one, one edit. Sessions are symmetric.

Fairness. `FairSpec` of `Engine` asks weak fairness of `Continue(c)`, what the event loop does
by itself once a command is issued: file operations finish, and `invoke` resolves at
the stage's deadline at the latest, because every compiled step carries a timeout.
Commands, crashes, restarts and edits are never owed. `ExecutionEnds` holds
because fix rounds and iterations are bounded and the terminal stage is exempt from
the budgets: without the exemption (`TopExhaustedNoExemption`) escalation would lead
to escalation for ever.

`CallEnds` asks weak fairness of the steps of a call and strong fairness of `GiveUp`:
a call that sleeps and tries again for ever comes by its deadline over and over
(`Date.now() >= deadline`), and must find it passed. Nothing is owed by `fn`.
`AbandonedIsTaken` asks weak fairness of an acquire that has begun; starts, stops and the age of a lease are never owed. `StageEnds` asks weak
fairness of the executor's own timers and polls, of the death of a process that was killed,
and of the merge of a round; a worker owes nothing. The other parts have no liveness
property: who must act next in them is a person, a tracker or another command.

The system may really stop in every run (the run has ended and no command is left),
so all configurations say `CHECK_DEADLOCK FALSE`. `control` uses symmetry over the two
callers, which live in the same process; it checks no liveness.

### Runs that find a violation

| Run | Violated | Because |
| --- | --- | --- |
| `overlap` | `AtMostOneExecutor` | `executeRun` and `resumeRun` check `active`, then await; two resumes both pass and execute the run together |
| `queue_forgets` | `PublishedCanLand` | `runStart` writes back the queue it read before the run, over what the publish stage recorded in it |
| `workspace_drift` | `TamperedMeansTampered` | creating a second worktree adds tracking lines to the configuration all worktrees share, and the first run's fingerprint no longer matches |
| `rules_readded` | `ReAddedIsHeard` | a parked entry is open, so the ticket its comment asked to edit and label again is a duplicate |

`PROJECT.json` quotes the comment or guard each of them contradicts.

### Further disagreements

Found the same way and kept as configurations: `tlc -config <file> <module>` shows each. The last four
need no configuration of their own: they are the one named with that one property in place of its own,
and without its `PROPERTIES` and `SYMMETRY`.

| Configuration | Violated | Because |
| --- | --- | --- |
| `MCEngine_cancel_lost.cfg` | `CancelFinalises` | a cancel that arrives during the save of a pause marks an object nobody looks at again |
| `MCEngine_restored.cfg` | `RestoredRoundTripsFirst` | `resetRounds` grants nine iterations for a round that may use ten; after three resumes the backstop ends the run and not the round counter |
| `MCRepoLock_two_takers.cfg` | `MutualExclusion` | two calls judge a dead holder's lock stale; the slower one's rename takes the faster one's fresh lock |
| `MCLease_leak.cfg` | `StopReleases` | a scheduler started twice forgets the handle that holds the lease, and stop releases nothing |
| as `MCWorkspaces_drift.cfg`, as a `PROPERTY` | `DropRemoves` | `drop` makes its lock directory inside the worktree, which `git worktree remove` without force then refuses |
| as `MCRules_parts.cfg` | `ConditionsSeeTheTicket` | shipped conditions read brief, size, flags and diff, which `whenScope` does not pass |
| as `MCRules_parts.cfg` | `LockedIsTold` | the locked built-in rule is the first to be dropped at the cap of a prompt |
| as `MCRules_parts.cfg` | `ReadyIsRun` | `runStart` fetches every ticket from the local tracker, which refuses a remote one's reference |

### Known hazards without a property

`PROJECT.json` lists the hazards, with a note on what of each no property covers. Those that a run shows, or a paragraph
*Behaviour to know of* explains, in short:

* `src/src/scheduler/recover.ts:71`: recovery of a second session pauses the live runs of the first
  before it knows who holds the lease. The models show it (`AtMostOneExecutor` fails with a second
  process); no run repeats the violation that `overlap` has.
* `recover.ts:76`: it also kills the workers of every recorded run; workers' processes are not
  in `Engine`.
* `src/src/engine/engine.ts:279`: a failed write leaves a running status behind, which only a
  new session repairs; saves do not fail in `Engine`.
* `engine.ts:261`: the lost cancel, see above.
* `src/src/commands/cancel.ts:13`: a cancel while the ticket is provisioned finds no run; the run starts
  all the same. `Engine` begins with `startRun`, `QueueClaims` takes provisioning for one step.
* `src/src/commands/grant.ts:30`: `grant` takes the first request listed and never removes it: with two
  requests it may show the same for ever. `Approvals` has one request.
* `src/src/commands/replan.ts:20`, `src/src/engine/budget.ts:53`, `src/src/scheduler/poller.ts:39`
  (`start()` that throws keeps the lease with no timer), `src/src/commands/drop.ts:21`: see the
  violations above, or the paragraphs *Behaviour to know of*.

## 4. What is proved

`EngineProofs` proves for every lane with a non-empty list of stages, every
`FixRounds`, budget, set of callers, set of processes and every `Overlap`, so also
for the races that the runs above show:

* `TypeCorrect`: `Spec => []TypeOK`. It includes that no round counter goes below
  zero, which `resetRounds` could break.
* `OnlyReviewedIsPushed`: `Spec => []PushedWasReviewed`. What reached the remote is a
  tree that a safety-gating stage was given and passed.

Assumptions: those named in `Engine` on its constants. The one that says something
about the program is `GatingAssumption`: a safety-gating stage is not also a
host-verified one. The lanes of `assets/lanes.yaml` satisfy it; a lane that broke it
would let the host commit a checkpoint between what the judge saw and what HEAD is
when its PASS is bound.

The argument. `PushedWasReviewed` alone is not inductive: that the preflight accepts a
commit says something only if the run state it compares with is right. The invariant
`Sound` strengthens it:

* `RunSound`, for every copy of the run held anywhere (on disk, in memory, in a save
  under way, by a late publish body): its checkpoints are not newer than the tree, its
  judged commit is not newer than HEAD, and a judged commit either was reviewed, or has
  been overtaken by an edit, or is a commit that the run's checkpoints do not contain
  (the operator's own). In the last two cases the preflight refuses it.
* `GitSound`: HEAD is the base or one of the commits, and not newer than the tree.
* `SeenSound`, while a safety-gating stage works: the run has no checkpoint newer than
  the tree the stage was given, so a commit made meanwhile is foreign to the run.

Copies may be stale and may overwrite each other, and that does not matter: each is
sound by itself, because versions and `hist.reviewed` only grow, and the preflight
compares a single copy with the repository. This is why the theorem does not need
`AtMostOneExecutor`, which the code does not keep. A step is either *quiet* (it copies
run states about and starts no stage body: the lemmas `Quiet...`) or one of the few that
change the worktree, bind a verdict or push, which have a lemma each.

The control properties are proved in the same module, each with the hypothesis it needs and no more:

* `OneExecutor`, `StatusTells`, `FinishedStays`, `CancelIsHonoured`, `DecisionsAreHonoured` for `Serial`: one
  process whose calls come one after the other (`Overlap = "none"`). That is the setting of the run
  `control`, and it is the weakest one: with calls that overlap the run `overlap` shows two executors
  of one run. Crashes, restarts and late publish bodies are part of it.
* `SteerComesFirst` for `Steers(h)`: stage h is a mandatory human stage in front of every implement stage,
  which `src/lanes/invariants.ts:49` (steer-after-implement) asks of a lane. It needs no order of calls: it
  holds for any `Overlap`.
* `BackstopIsLast` for `OneImplement(m)`: stage m is the lane's one implement-class stage. Each lane of
  `assets/lanes.yaml` has one at most. With several, each with its own round counter, the backstop could come
  first, so that the hypothesis is needed. Overlap is free here too.

The invariant behind the first five is `Controlled`. `Placed`: of two calls under way one is a call that is
about to find the other executing, and `active` names the executing one. `Fits`, for each call: what it
holds and is about to save agrees with the disk, by the point it has reached (an executor's copy says running
unless it saves a pause or its end; a cancel's copy is of a run not yet final; whoever saves a decision found it
on disk). `DiskFits`: what is final is not being cancelled, and a running run has its executor. `Counted`:
decisions delivered, on disk and on their way are not more than were given. `SteerComesFirst` rests on
`HeldBack`: as long as nobody has approved or jumped, every copy of the run, on disk, in memory or being
saved, is at or before the steer stage with its implement counters at zero. `BackstopIsLast` rests on `Paced`,
again of every copy: `iteration + 1 <= at + (rounds charged) * (length of a fix cycle)` while the budget is the
compiled one.

`RepoLockProofs` proves for every set of callers and processes and every assignment of
the one to the other:

* `TypeCorrect`.
* `ExclusiveWithoutCrash`: `~Slow => (Spec => []ExclusiveUntilACrash)`. The invariant is
  `Base` (who has made the directory that is there, who is on record in it, and that a
  caller which finds it old has read the owner of that very directory) with `Calm`:
  before the first death, nobody takes over, since every directory has a live maker that
  is on record or has just made it. It does not need turns.
* `ExclusiveByTurns`, `OnRecordByTurns` (no run checks these two by themselves): `~Slow => (Spec => []ExclusiveInTurns)`, and
  `HolderIsOnRecord`. The invariant is `Base` with `Turned`: of those that have read an owner,
  one at most goes on to take over, and what it takes is the directory it judged.
* `LockRefinesMutex`: `~Slow => (Spec => ImplementsMutex)`; a caller enters the abstract lock
  when it has written its owner, and leaves it by the release or its death.

`~Slow` is the one assumption beyond the types of the constants: no call stops for 180 s
between making the directory and writing its owner, or between reading an owner and taking
over. Without it a sleeping maker's directory would be old and without an owner.

`LeaseProofs` proves for every set of sessions and every number of handles:

* `TypeCorrect`, which includes that no handle and no renewal timer is given back twice.
* `UnaskedPollIsAloneAlways`: as long as sessions have looked at the lease by turns, of two that poll at once one at
  least was told to by `/factory rescan`, and whoever polls by its own timer is named by the file, or is just rewriting
  it. `OneHolderAlways` says the same of the handles.
* `LeaseRefinesMutex`: in those histories the lease implements `Mutex`, step by step.

The invariant follows the pattern of the repository lock: `OneAtWork` (of the sessions that have judged the
lease, one at most goes on to take it over), `HolderOnRecord`, `WritesOwn` (a file being written is written by
its owner) and `OneHandle` (a session with a timer or a scheduler has the handle that they belong to). What
happens when sessions do not take turns is the race of `RepoLock` again.

`QueueProofs` proves for every set of tickets and callers and every bound, of
`queue.json` and whoever rewrites it without a lock:

* `TypeCorrect`.
* `OneOpenEntryAlways`: a ticket has two open entries only after a finished one of it
  was reopened.
* `WaitingHasRunAlways`: an entry that waits for a human names a run of its own ticket.
* `EntriesSoundAlways`: both, as the run `tickets_parts` checks them.

* `WorkIsAccountedAlways` and `QueueTellsOutcomeAlways`: until an update is lost, what was taken off the
  tracker's ready list is in the queue, a run is named by the entry of its ticket, and an entry tells what became of
  its run.

The assumptions are those on the types of the constants (`QueueAssumption`). The first three
say nothing about lost updates, and none can break them: writing a stale copy
back is harmless to a property that the copy itself has. So `Sound` says of every copy,
whoever holds it and for however long, what it says of the queue (`QueueSound`): its
entries name runs by their tickets, and two open ones of a ticket mean that one was
reopened. That is stable because runs are only added and keep their tickets, and
`hist.revived` only grows (`StillSound`). `CallSound` adds what a caller knows between
its steps: a poll that is to claim has no open entry of the ticket in its own copy, a start
has its entry at hand and a run of that ticket, a resume looks for the entry by its run or
that run's ticket. Each step is then a caller moving with copies that are sound
(`Stepped`), except a restart, which leaves no caller with any.

The last two are about lost updates, and their invariant `Acc` compares each copy with the queue. A copy that
nobody has overtaken (`Fresh`: to write it back loses nothing) has every entry of the queue and may have more
(`CopySound`, `InnerSound`), so that its write takes nothing away. What an entry owes is said of the queue and of each such
copy alike, for a ticket that was queued once and that no command meddled with (`Lone`): that it does not look startable
once somebody has started it (`Used`), that it is running until its run executes and as long as nobody cancels it
(`Begun`), that it names the run once the binding is over (`ToName`), and that its state is one that the run's status
allows unless somebody is about to write it (`Wrong`). A caller's own copy is measured without the caller's promise,
because the write is what keeps it. `LoneSound` says why this is enough: such a ticket has one run and one start, and nobody resumes
that run before it was bound. `Alone` needs no condition: of two callers one at most executes a run. A step is
then one that does not write the queue (`QuietKeeps`), one that writes it (`PutKeeps`), or the end of a session, after
which what was under way is in `hist.torn` (`RestartAcc`).

`ApprovalsProofs` proves all that the run checks, for every set of workers, calls and requests
and every finite set of tokens (`ApprovalAssumption`): `TypeCorrect`, `UsedOnceAlways`,
`TokenKeptAlways`, `RunsWithinApprovalsAlways`, `DecidesOnceAlways`, `StoppedIsQuietAlways` and
`RefusedWithoutTokenAlways`; `ApprovalsCountAlways` is the conjunction that the run names. The invariants behind them:

* `Located`: a token is in one place at a time. Its name in the directory and the claims of
  the guards exclude each other and are distinct, and what is in one of them is unused.
  Rename being the only way to take a token is all it needs.
* `Counted`: `approved` and `ran` are cardinalities, of the tokens minted for a call and of
  those among them that were used; the second set is part of the first.
* `Deciding`: while the dispatcher's process lives, a request that is still pending and that
  it is not just finishing has neither been granted by it nor denied.
* `Looked`: a token that a guard has passed over is unlinked, or complete and of no use for its
  call, and it stays so, because tokens only fill up and expire.

The components that `MCWork` and `MCTickets` put side by side are proved there, as theorems of that module's
specification: `which` says whose invariant is meant, and a step of one component leaves the others alone.

* `PushedPassedGatesAlways` (`WorkProofs`), for every finite set of files, every limit and number of rounds
  (`FilesAssumption`). `Gated`: what the gate recorded is what the tests are held to; the test stage stands on a
  tree whose tests are known. A stage that comes after the boundary stands on a fit tree (`Fit`): in scope, of known tests and
  the one the checks ran on, but for the files changed since the checks began and what the audit let pass. `FitKept` says that a later
  edit or checkpoint keeps a tree fit, because it adds what it changes to those files. The head at the time of the verdict
  is fit in the same sense, and it is what is pushed.
* `PollSeesAllAlways` (`TicketsProofs`), for every registry of trackers, overlap, clock and number of attempts
  (`PollingAssumption`). `Polled`: what waits for a poll is not older than the window of the next one (`Sees`),
  and while a drain is under way its window begins at the mark or before it, and what still waits of a tracker it has
  drained came after its listing (`Drains`). The step that matters writes the mark: it is the time of the end of the
  drain, not of the listing, so that the overlap has to cover what came in between, or the drain outlasted it.
* `AuthorizedByTrustedAlways` (`TicketsProofs`), for every set of persons, histories and pages, and all four kinds of
  tracker or some (`TriggersAssumption`). What is shown of an answer is what the adapter read from the history as it
  stood then.
* `ToldOnceAlways` (`TicketsProofs`), for every set of adapters and all bounds. `Told`: a planned look-up is followed
  by its post and a post, but on Jira, preceded by its look-up (`Paired`); a comment that was posted is remembered by the
  adapter or has an excuse (`Excused`), such as a marker that the look-up did not find on the first page; a claim whose entry is not saved yet has the save as its last call (`Claims`).
  A ticket that is neither ready nor queued then had a call that failed.
* `EntryTellsLandingAlways`, `OpenBranchKeptAlways`, `LandTypes` (`TicketsProofs`), for every set of entries and all
  bounds (`LandAssumption`; entries a live session owns are entries). `LandSound`: an entry's first branch has
  the original work (`Own`), a patch-id in the base is that of a part of what landed (`IdsAreParts`), and what a cycle
  holds between its steps is still so (`JobSound`). `LandTypes` says that no cycle, revision or edit of a person breaks the
  types of what they write, which the other two rest on.
* `TreesAreKeptAlways` (`TicketsProofs`), for every finite set of runs, any assignment of tickets to them (two runs may
  have one ticket), every kind of worktree and all bounds (`WorkspacesAssumption`; `nobody` is no run), whichever trees a session of herdr knows. `Kept`
  has three parts beyond the types. What a removal found in its check is still so when it acts, but for commits that came
  since (`Operates`). An entry, on disk or in the copy a collection holds, names a tree that is there or one
  that this collection, one that died, or a drop has removed (`NamesTree`). And between the making of a tree and the moment
  the queue names it, one run is making it and no collection has it on its list, unless one that died had it
  before (`Makes`): without this last part a collection could take a tree away just before its run binds it. That needs the
  lock (`Locks`): a run that finds no tree still finds none when it adds one, because whoever else could add it waits.

* `AppliedIsRightAlways` (`WorkProofs`), for every set of plans and candidates, any files and modes. It needs that a plan
  is a list of tasks and that there is a file at all (`PlansAssumption`). `SiblingsSound`: the tasks left, those of
  the wave and those that are done are apart, and two tasks of a wave declare no file in common (`WaveSound`); what a task
  wrote bears the number of its wave, which is one more than the number of tasks of earlier waves, and a task that is
  still to be applied has written nothing (`WroteSound`); an edit is there, or an edit of a later wave or of an undeclared
  file went over it (`EditsHold`); and what a vote applies a candidate returned, or the vote emptied it for a passing
  candidate without the file. That `scheduleDag` takes a set at all, and that it takes one whose tasks keep
  apart, is the lemma on `Greedy`: the set exists up to any place of the plan, by the least place where it would not.
* `PassIsEarnedAlways` (`WorkProofs`), for every set of requests, slots, texts and verdicts: the stack of a request is a
  list of slot names, of which there are finitely many, and a verdict file that parses holds one of the three verdicts
  (`RequestsAssumption`, `VerdictsAssumption`; `TextsAssumption`: what a collaborator's plan holds is a list). `FusionSound`:
  what a worker's result says is true of its file, its deadline and its process (`WorkerSound`); who was
  dropped was dropped in the last round in which it was asked (`DroppedOut`); and the merge was earned by what the slots
  heard, by the rule of its mode (`EarnedBy`). For the level walk of `collaborate` this needs that a plan
  without a cycle has a level function, and that then every level's tasks wait for earlier ones only (`Layers`).
* `PassedCallsAreConfined` (`RulesProofs`), for every set of calls, of any number of segments, and the policies of the
  code. The one assumption (`CallsAssumption`) says what a line is: a shell has no output flag of its own, because what
  it writes, its segments write; only programs change files without saying so; a segment in more shells than the guard follows
  is inside one that it sees. The invariant says that the answer is that of the four layers in their order; the lemmas say what each
  of them lets through.
* `ConfigurationIsHonest` (`RulesProofs`), for every default and any content of the five files whose numbers are
  numbers (`ContentsAssumption`; ranks need no assumption, because the schema refuses others). `ConfigSound`: what each
  layer left is typed, and each safety key is in effect as tight as every layer since left it or tighter,
  as far as all the layers since narrow it. A layer must be compared with all that came before it, not with its
  neighbour only, because a file that deletes a key leaves the next layer nothing to compare with but the default.
* `ReadyIsAgreedAlways` (`RulesProofs`), for every set of tickets and of briefs, with an analyst or without; a brief quotes
  its ticket a number of times (`BriefsAssumption`). `IntakeSound`: samples are asked for only if no person named the kind; a third
  one is asked for, or has answered, only if the first two called the ticket different kinds (`AnswersSound`). The lemmas say what
  the merge and the confidence make of no sample, of one, of two that agree and of three. A kind without two that agree is never above `LOW`.
* `VaultHoldsSecrets` (`RulesProofs`), for every set of sessions, every number of secrets and any non-empty set of
  placeholders (`VaultAssumption`). `VaultSound` follows each command through its awaits. Every value belongs to
  one name (`own`, chosen once for each value issued); who has a key has the one master, unless two were made at once
  (`UnderOneMaster`); a row that is about to be overwritten is the one that was read, unless two commands overlapped
  (`RowIsLast`); a bind names a secret that the vault has or had (`BindsKnown`), and the seed and its manifest agree
  but for the one bind between its two writes (`SeedSound`); a scrub has met, or still has on its list, every
  value it was shown that is there (`FindsAll`).
* `MinedIsTrueAlways` (`RulesProofs`), for every set of runs and executions and every finite set of scripts
  (`ScriptsAssumption`). `MiningSound`: a seed's row is of a round that its run has had, its number has been given in that
  round, and its file says what the row says or is of a later round (`RowTells`). It is said of the rows a landing has
  read as well (`stamp`), which are a prefix of the inbox, so that a rewrite brings back nothing else. That a candidate recurs in
  as many runs as the miner asks for is no induction: it is a property of the scan's result at once.
* `PlacesAreEarnedAlways` (`RulesProofs`), for every finite set of tools, every set of sessions, all caps and what a
  stage may ask (`CodifiedAssumption`). `CodifiedSound` says of the registry and of every copy a command holds, for
  however long, that a tool which has left the stage was confirmed, bound and clean, or put on probation by a reversion of its source
  (`hist.reverted`), that an active one is no task tool, and
  that no counter exceeds the hits recorded (`RegSound`); and of a command that what it is about to write was legal for the
  copy it holds (`CommandIsSound`). Writing back an old copy is harmless to the first two. What it can break is that a tool
  which is out stays out, and `StaysOut` says that it breaks by that, by the operator's promotion and by a reversion only. That an eviction ends within the caps
  (`EvictIfNeededIs`) is a lemma on its rounds: scores compare as fractions, a finite pool has a least of them, each round
  retires one tool of a pool over its cap and no other, and after as many rounds as there are tools nothing is over.

Only model-checked, and why:

* `WhenIsRead` compares a parser with a reference for every text, `AcceptedStaysGuarded` a walk over compiled lanes with the
  merge of layers, `AcceptedIsInside` the matching of globs with the paths they stand for, `RulesInForce` a fold
  over rules files. What these operators compute for every input is an induction over data.
* The four properties that runs refute are not theorems, of course. Liveness (`ExecutionEnds`, `CallEnds`, `AbandonedIsTaken`,
  `StageEnds`) is outside the prover's reach.

## 5. Not modelled

* Cryptography, the keyring, SQLite; herdr, forges and trackers beyond the answers the code reads.
* Sandbox profiles, the proxy, sockets, the event log and `src/observer/`: plumbing.
* The parser of a shell line: `GuardLayers` starts from what it returns.
* `src/v3/merge-queue.ts` and `cross-repo.ts` map one state to another and schedule nothing;
  `webhooks.ts` and `dispatch.ts` are called by nothing.
* Codify's fixtures, the Python runner, return on investment, `admitCodify`.
* A secret's way into a worker (`inject.ts`, `resolve.ts`); the committed layer of rules; the local
  tracker's shorter intake; inbox requests (read and discarded); admission (its only world never
  refuses).
* The killing of orphan workers by recovery; the handoff stage; prompts, packets and wording;
  setup dialogues, completions and read-only probes.

## 6. Plan

Done: the core with its proofs (`LaneCompile`, `Engine`, `RepoLock`, `Lease`, `QueueClaims`,
`Approvals`), and every other component that keeps state or decides what a run may do
(`MCWork`, `MCTickets`, `MCRules`), with proofs of every safety invariant that does not rest on an induction
over data.
