----------------------------- MODULE Workspaces -----------------------------
(***************************************************************************)
(* The worktrees of one repository (src/workspace/, src/git/checkpoint.ts,  *)
(* the provisioning of src/controller/lane-runner.ts and the gc and drop    *)
(* commands).  Every run has a worktree of its own, but git's configuration *)
(* is shared by all of them, and a run compares its fingerprint with the    *)
(* one taken at the claim before each write.  A step of an action is what   *)
(* happens between two awaits that others can come in at.                   *)
(***************************************************************************)
EXTENDS Naturals, Sequences, FiniteSets, SequencesExt

CONSTANTS
  Runs, Ticket,      \* runs; run -> its ticket, which names the worktree's path and the branch
  Kinds,             \* the assignments of ticket -> "path", "slug" (its entry's repo is owner/name), "herdr" (a session that
                     \* found herdr), "main" (before the build) or "sibling" (of another run's tree)
  MaxWork, MaxOps    \* bounds: commits of a branch; drops, collections and edits of configuration

VARIABLES
  kind,     \* ticket -> which of these its run is
  config,   \* what the shared configuration holds: a section of every tracking branch, and edits
  private,  \* ticket -> edits of the worktree's own configuration
  tree,     \* ticket -> the worktree at its path
  tip,      \* branch -> number of commits on the base, NoTip where there is no such branch
  pushed,   \* branch -> commits that the remote has
  lock,     \* holder of the repository's lock
  run,      \* run -> where it is, its branch, and the configuration it claimed
  entry,    \* ticket -> the queue entry: closed or not, and whether it names a workspace
  op,       \* the gc, drop or removal under way
  ops,      \* operations and edits so far
  lost,     \* branches removed with commits that nobody else has, and how
  unwritten \* tickets whose tree was removed by a drop, or a collection that did not live to write the queue
vars == <<config, private, tree, tip, pushed, lock, run, entry, op, ops, lost, unwritten, kind>>

WorkedOn == {Ticket[r] : r \in Runs}
Branches == WorkedOn \X (0 .. Cardinality(Runs))
NoTip    == MaxWork + 1
NoBranch == <<>>
Nobody   == "nobody"
Operator == "operator"
Shared   == <<"edit", 0>>
Own      == <<"own", 0>>
NoTree   == [there |-> FALSE, listed |-> FALSE, locked |-> FALSE, meta |-> FALSE, dirty |-> FALSE, branch |-> NoBranch]
NewRun   == [at |-> "idle", branch |-> NoBranch, sha |-> {}, clean |-> {}]
NoEntry  == [closed |-> FALSE, named |-> FALSE]
NoOp     == [kind |-> "none", todo |-> <<>>, done |-> {}, tip |-> NoTip, book |-> [t \in WorkedOn |-> NoEntry]]

(* The fingerprint tells every part of the configuration apart.             *)
computeConfigSha(t) == config \cup {x \in {Own} : private[t]}
(* What somebody other than the host put there.                             *)
Edits(t) == computeConfigSha(t) \cap {Shared, Own}

At(r, where) == run' = [run EXCEPT ![r].at = where]
Editors == {r \in Runs : run[r].at \in {"sealing", "installing", "work", "checked", "committing"}}

-----------------------------------------------------------------------------
(* create of the git provider.                                              *)

TakeLock(r, from, to) ==
  /\ run[r].at = from /\ lock = Nobody /\ lock' = r /\ At(r, to)
  /\ UNCHANGED <<config, private, tree, tip, pushed, entry, op, ops, lost, unwritten, kind>>

(* worktree prune forgets a tree whose directory is gone, unless locked.    *)
Pruned(trees) == [t \in WorkedOn |-> IF trees[t].there \/ trees[t].locked THEN trees[t] ELSE NoTree]

(* A missing branch is used, else the first free retry name: no caller of   *)
(* create tells the last host commit.                                       *)
chooseBranch(t) == <<t, CHOOSE n \in 0 .. Cardinality(Runs) :
                          tip[<<t, n>>] = NoTip /\ \A m \in 0 .. n - 1 : tip[<<t, m>>] # NoTip>>

(* A locked tree whose directory vanished is unlocked and pruned.           *)
CreateChecks(r) ==
  LET t == Ticket[r] IN
  /\ run[r].at = "creating"
  /\ IF tree[t].there
     THEN /\ run' = [run EXCEPT ![r].at = "failed"] /\ lock' = Nobody /\ tree' = Pruned(tree)
     ELSE /\ tree' = Pruned([tree EXCEPT ![t] = NoTree])
          /\ run' = [run EXCEPT ![r].at = "adding", ![r].branch = chooseBranch(t)] /\ UNCHANGED lock
  /\ UNCHANGED <<config, private, tip, pushed, entry, op, ops, lost, unwritten, kind>>

(* worktree add -b from a remote branch: git records in the shared          *)
(* configuration what the new branch tracks.                                *)
CreateAdds(r) ==
  LET t == Ticket[r] IN
  /\ run[r].at = "adding" /\ At(r, "sealing")
  /\ tree' = [tree EXCEPT ![t] = [NoTree EXCEPT !.there = TRUE, !.listed = TRUE, !.branch = run[r].branch]]
  /\ tip' = [tip EXCEPT ![run[r].branch] = 0] /\ pushed' = [pushed EXCEPT ![run[r].branch] = 0]
  /\ config' = config \cup {run[r].branch} /\ private' = [private EXCEPT ![t] = FALSE]
  /\ UNCHANGED <<lock, entry, op, ops, lost, unwritten, kind>>

(* An edit of the hooks path fails the sanity check, and leaves the tree    *)
(* without the file by which list knows it.                                 *)
CreateSeals(r) ==
  LET t == Ticket[r] IN
  /\ run[r].at = "sealing" /\ tree' = [tree EXCEPT ![t].locked = TRUE, ![t].meta = ~private[t]]
  /\ run' = [run EXCEPT ![r].at = IF private[t] THEN "failed" ELSE "provisioned",
                        ![r].sha = computeConfigSha(t), ![r].clean = Edits(t)]
  /\ lock' = Nobody /\ UNCHANGED <<config, private, tip, pushed, entry, op, ops, lost, unwritten, kind>>

CreateStarts(r) == kind[Ticket[r]] \notin {"main", "herdr"} /\ TakeLock(r, "idle", "creating")

(* The fingerprint of a tree that herdr made is the word herdr.             *)
HerdrCreates(r) ==
  LET t == Ticket[r]  b == chooseBranch(t) IN
  /\ run[r].at = "idle" /\ kind[t] = "herdr" /\ ~tree[t].there
  /\ run' = [run EXCEPT ![r] = [at |-> "provisioned", branch |-> b, sha |-> {<<"herdr", 0>>}, clean |-> Edits(t)]]
  /\ tip' = [tip EXCEPT ![b] = 0] /\ pushed' = [pushed EXCEPT ![b] = 0]
  /\ tree' = [tree EXCEPT ![t] = [NoTree EXCEPT !.there = TRUE, !.branch = b]]
  /\ UNCHANGED <<config, private, lock, entry, op, ops, lost, unwritten, kind>>

(* That of the main checkout is the one of the configuration's layers.      *)
workspaceOnMainCheckout(r) ==
  LET t == Ticket[r] IN
  /\ run[r].at = "idle" /\ kind[t] = "main"
  /\ run' = [run EXCEPT ![r] = [at |-> "provisioned", branch |-> tree[t].branch, sha |-> {<<"layers", 0>>}, clean |-> Edits(t)]]
  /\ UNCHANGED <<config, private, tree, tip, pushed, lock, entry, op, ops, lost, unwritten, kind>>

bindQueueRun(r) ==
  /\ run[r].at = "provisioned" /\ At(r, IF kind[Ticket[r]] \in {"main", "sibling"} THEN "work" ELSE "setup")
  /\ entry' = IF kind[Ticket[r]] = "sibling" THEN entry ELSE [entry EXCEPT ![Ticket[r]] = [closed |-> FALSE, named |-> TRUE]]
  /\ UNCHANGED <<config, private, tree, tip, pushed, lock, op, ops, lost, unwritten, kind>>

(* The install command runs under the lock; when it times out it is killed, *)
(* and the lock is kept until the last of its children has let go.          *)
SetupStarts(r) == TakeLock(r, "setup", "installing")
SetupEnds(r) ==
  /\ run[r].at = "installing" /\ lock' = Nobody /\ \E to \in {"work", "failed"} : At(r, to)
  /\ UNCHANGED <<config, private, tree, tip, pushed, entry, op, ops, lost, unwritten, kind>>

-----------------------------------------------------------------------------
(* Work in a tree and its checkpoints.                                      *)

Edit ==
  /\ ops < MaxOps /\ ops' = ops + 1
  /\ \/ config' = config \cup {Shared} /\ UNCHANGED private
     \/ \E r \in Editors : private' = [private EXCEPT ![Ticket[r]] = TRUE] /\ UNCHANGED config
  /\ UNCHANGED <<tree, tip, pushed, lock, run, entry, op, lost, unwritten, kind>>

Works(r) ==
  /\ run[r].at = "work" /\ tree[Ticket[r]].there /\ tip[run[r].branch] < MaxWork
  /\ tree' = [tree EXCEPT ![Ticket[r]].dirty = TRUE]
  /\ UNCHANGED <<config, private, tip, pushed, lock, run, entry, op, ops, lost, unwritten, kind>>

(* The fingerprint is compared before the lock is asked for.                *)
assertNoDrift(r) ==
  /\ run[r].at = "work" /\ tree[Ticket[r]].there
  /\ At(r, IF computeConfigSha(Ticket[r]) = run[r].sha THEN "checked" ELSE "refused")
  /\ UNCHANGED <<config, private, tree, tip, pushed, lock, entry, op, ops, lost, unwritten, kind>>

CheckpointLocks(r) == TakeLock(r, "checked", "committing")

checkpointCommit(r) ==
  LET t == Ticket[r] IN
  /\ run[r].at = "committing" /\ lock' = Nobody /\ At(r, IF tree[t].there THEN "work" ELSE "failed")
  /\ tip' = IF tree[t].there /\ tree[t].dirty THEN [tip EXCEPT ![tree[t].branch] = @ + 1] ELSE tip
  /\ tree' = [tree EXCEPT ![t].dirty = FALSE]
  /\ UNCHANGED <<config, private, pushed, entry, op, ops, lost, unwritten, kind>>

(* publish holds the lock around its preflight and the push.                *)
publish(r) ==
  LET t == Ticket[r] IN
  /\ run[r].at = "work" /\ tree[t].there /\ ~tree[t].dirty /\ lock = Nobody
  /\ IF computeConfigSha(t) = run[r].sha
     THEN pushed' = [pushed EXCEPT ![tree[t].branch] = tip[tree[t].branch]] /\ At(r, "over")
     ELSE At(r, "refused") /\ UNCHANGED pushed
  /\ UNCHANGED <<config, private, tree, tip, lock, entry, op, ops, lost, unwritten, kind>>

Closes(t) ==
  /\ ~entry[t].closed /\ entry' = [entry EXCEPT ![t].closed = TRUE]
  /\ UNCHANGED <<config, private, tree, tip, pushed, lock, run, op, ops, lost, unwritten, kind>>

(* The session ends; a dead holder's lock is taken over; runs with a saved  *)
(* state go on from their stage.                                            *)
Crash ==
  /\ ops < MaxOps /\ ops' = ops + 1 /\ op' = NoOp /\ lock' = Nobody /\ unwritten' = unwritten \cup op.done
  /\ run' = [r \in Runs |-> CASE run[r].at \in {"checked", "committing", "installing"} -> [run[r] EXCEPT !.at = "work"]
                              [] run[r].at \in {"creating", "adding", "sealing", "provisioned"} -> [run[r] EXCEPT !.at = "failed"]
                              [] OTHER -> run[r]]
  /\ UNCHANGED <<config, private, tree, tip, pushed, entry, lost, kind>>

-----------------------------------------------------------------------------
(* remove, and who calls it.                                                *)

Unpushed(t) == tip[tree[t].branch] > pushed[tree[t].branch]

(* Defect: only what is not committed counts as work.                       *)
RemovalOfCommitted(t, force) == force \/ ~tree[t].dirty

(* Dirty or unpushed work is refused unless forced, before the lock.        *)
RemovalAllowed(t, force) == force \/ (~tree[t].dirty /\ ~Unpushed(t))

(* gc and drop give the worktree as the place of the lock: it is the lock   *)
(* of nobody else, and an untracked directory that git refuses to remove;   *)
(* herdr takes no lock.                                                     *)
LockInTree == op.kind \in {"gc", "drop"}
GitRemoves(t, force) ==
  tree[t].there /\ kind[t] \in {"path", "herdr", "sibling"} /\ (force \/ (~tree[t].dirty /\ (LockInTree => kind[t] = "herdr")))

(* The herdr provider throws for a worktree that a session before this one   *)
(* made.                                                                    *)
Known(t) == {TRUE, kind[t] # "herdr"}

(* worktree unlock, remove, branch -D, prune: the section of the branch     *)
(* leaves the shared configuration.                                         *)
Removes(t, force) ==
  LET b == tree[t].branch IN
  /\ tree' = Pruned([tree EXCEPT ![t] = NoTree])
  /\ tip' = [tip EXCEPT ![b] = NoTip] /\ config' = config \ {b} /\ private' = [private EXCEPT ![t] = FALSE]
  /\ lost' = lost \cup {[branch |-> b, by |-> op.kind, raced |-> tip[b] # op.tip] : x \in {y \in {1} : Unpushed(t)}}
  /\ UNCHANGED <<pushed, run>>

Refused(t) == UNCHANGED <<config, private, tip, pushed, run, lost>> /\ tree' = [tree EXCEPT ![t].locked = @ /\ kind[t] \in {"slug", "main"}]

Ends == op' = NoOp

(* drop closes the entry first (runCancel).                                 *)
runDrop(t) ==
  /\ ops < MaxOps /\ op.kind = "none" /\ entry[t].named /\ ops' = ops + 1
  /\ entry' = [entry EXCEPT ![t].closed = TRUE]
  /\ op' = IF tree[t].there /\ RemovalAllowed(t, FALSE)
           THEN [NoOp EXCEPT !.kind = "drop", !.todo = <<t>>, !.tip = tip[tree[t].branch]] ELSE NoOp
  /\ UNCHANGED <<config, private, tree, tip, pushed, lock, run, lost, unwritten, kind>>

(* removeSiblings gives the workspace that create returned.                 *)
removeSiblings(r) ==
  LET t == Ticket[r] IN
  /\ ops < MaxOps /\ op.kind = "none" /\ run[r].at = "work" /\ kind[t] = "sibling" /\ ops' = ops + 1 /\ tree[t].there
  /\ op' = IF RemovalAllowed(t, FALSE)
           THEN [NoOp EXCEPT !.kind = "sibling", !.todo = <<t>>, !.tip = tip[tree[t].branch]] ELSE NoOp
  /\ UNCHANGED <<config, private, tree, tip, pushed, lock, run, entry, lost, unwritten, kind>>

(* Outside a drop's own lock the repository's is free; what git refuses     *)
(* leaves the tree unlocked.  A drop does not tell the queue.               *)
RemoveOne ==
  /\ op.kind \in {"drop", "sibling"} /\ (LockInTree \/ lock = Nobody)
  /\ LET t == Head(op.todo) IN
       \E known \in Known(t) :
         IF known /\ GitRemoves(t, FALSE)
         THEN Removes(t, FALSE) /\ unwritten' = unwritten \cup {u \in {t} : op.kind = "drop"}
         ELSE Refused(t) /\ UNCHANGED unwritten
  /\ Ends /\ UNCHANGED <<lock, entry, ops, kind>>

(* gc reads the queue once.                                                 *)
runGc ==
  /\ ops < MaxOps /\ op.kind = "none" /\ ops' = ops + 1
  /\ op' = [NoOp EXCEPT !.kind = "gc", !.book = entry,
                        !.todo = SetToSeq({t \in WorkedOn : entry[t].closed /\ entry[t].named})]
  /\ UNCHANGED <<config, private, tree, tip, pushed, lock, run, entry, lost, unwritten, kind>>

(* One removal that throws ends the collection with the queue unwritten.    *)
GcRemoves ==
  /\ op.kind = "gc" /\ op.todo # <<>>
  /\ LET t == Head(op.todo) IN
       \E known \in Known(t) :
       IF known /\ GitRemoves(t, TRUE)
       THEN Removes(t, TRUE) /\ op' = [op EXCEPT !.todo = Tail(@), !.done = @ \cup {t}] /\ UNCHANGED unwritten
       ELSE Refused(t) /\ Ends /\ unwritten' = unwritten \cup op.done
  /\ UNCHANGED <<lock, entry, ops, kind>>

(* Defect: what was removed is not told to the queue.                       *)
WrittenAsRead(book, done) == book

(* The whole queue is written back as it was read, but for what was removed.*)
Written(book, done) == [t \in WorkedOn |-> [book[t] EXCEPT !.named = @ /\ t \notin done]]

GcWrites ==
  /\ op.kind = "gc" /\ op.todo = <<>> /\ Ends /\ entry' = Written(op.book, op.done)
  /\ UNCHANGED <<config, private, tree, tip, pushed, lock, run, ops, lost, unwritten, kind>>

Init ==
  /\ kind \in Kinds /\ config = {} /\ private = [t \in WorkedOn |-> FALSE] /\ lock = Nobody
  /\ tree = [t \in WorkedOn |-> IF kind[t] = "main" THEN [NoTree EXCEPT !.there = TRUE, !.listed = TRUE, !.branch = <<t, 0>>]
                               ELSE NoTree]
  /\ tip = [b \in Branches |-> IF kind[b[1]] = "main" /\ b[2] = 0 THEN 0 ELSE NoTip]
  /\ pushed = [b \in Branches |-> 0] /\ run = [r \in Runs |-> NewRun] /\ entry = [t \in WorkedOn |-> NoEntry]
  /\ op = NoOp /\ ops = 0 /\ lost = {} /\ unwritten = {}

Next ==
  \/ \E r \in Runs :
       \/ CreateStarts(r) \/ CreateChecks(r) \/ CreateAdds(r) \/ CreateSeals(r) \/ HerdrCreates(r)
       \/ workspaceOnMainCheckout(r) \/ bindQueueRun(r) \/ SetupStarts(r) \/ SetupEnds(r) \/ Works(r)
       \/ assertNoDrift(r) \/ CheckpointLocks(r) \/ checkpointCommit(r) \/ publish(r) \/ removeSiblings(r)
  \/ \E t \in WorkedOn : Closes(t) \/ runDrop(t)
  \/ Edit \/ Crash \/ RemoveOne \/ runGc \/ GcRemoves \/ GcWrites
Spec == Init /\ [][Next]_vars

-----------------------------------------------------------------------------
(* git-provider.ts:165: "Never removes dirty or unpushed work unless        *)
(* forced": a branch removed with commits that the remote lacks was removed *)
(* by gc, which forces, or got them between the check and the lock.         *)
UnpushedIsKept == \A l \in lost : l.by = "gc" \/ l.raced

(* gc.ts:27-31: an entry names a tree that is there, unless a drop removed   *)
(* it, or a collection that ended before it wrote the queue.                *)
EntryNamesATree == \A t \in WorkedOn : entry[t].named /\ ~tree[t].there => t \in unwritten \cup op.done

(* The commands remove no work, and the queue knows what they removed.       *)
TreesAreKept == UnpushedIsKept /\ EntryNamesATree

(* drift.ts:1, preflight.ts:47: a run is refused for its configuration when *)
(* somebody other than the host has changed it since the claim.             *)
TamperedMeansTampered ==
  \A r \in Runs : run[r].at = "refused" => Edits(Ticket[r]) # run[r].clean

(* lane-control.test.ts:109: a drop that finds the work committed and pushed*)
(* removes the tree.                                                        *)
DropRemoves ==
  [][op.kind = "drop" /\ op'.kind = "none" => \/ ~tree'[Head(op.todo)].there
                                            \/ tree[Head(op.todo)].dirty \/ kind[Head(op.todo)] # "path"]_vars
=============================================================================
