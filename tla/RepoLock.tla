------------------------------ MODULE RepoLock ------------------------------
(***************************************************************************)
(* The per-repository lock (src/workspace/lock.ts): a directory that mkdir  *)
(* creates and rm removes, with the pid of its holder in owner.json.  Every *)
(* caller is one call of withRepoLock; several live in one process.         *)
(*                                                                          *)
(* A definition whose comment begins with "Defect" is wrong on purpose and  *)
(* unused: the properties are tested by putting it in place of the next.    *)
(***************************************************************************)
EXTENDS Naturals, FiniteSets

CONSTANTS
  Callers,   \* calls of withRepoLock for one repository
  Procs,     \* processes, named by their pid; a pid does not come back
  HomeOf,    \* the process of a caller
  NoProc,    \* no readable owner.json
  Slow       \* staleMs may pass between two steps of one call

ASSUME LockAssumption == /\ NoProc \notin Procs
                         /\ HomeOf \in [Callers -> Procs]
                         /\ Slow \in BOOLEAN

VARIABLES
  dir,       \* the lock directory
  pc,        \* where each caller is
  saw,       \* the owner a caller has read
  up,        \* the processes that are alive
  turns      \* history: no two callers have judged the lock at a time so far

vars == <<dir, pc, saw, up, turns>>

(* old: the directory was made, or its owner written, staleMs ago.          *)
Directory == [present : BOOLEAN, owner : Procs \cup {NoProc}, old : BOOLEAN]
Absent    == [present |-> FALSE, owner |-> NoProc, old |-> FALSE]
Fresh     == [present |-> TRUE, owner |-> NoProc, old |-> FALSE]

Points == {"idle", "try", "owner", "hold", "look", "age", "take", "wait"}

TypeOK == /\ dir \in Directory
          /\ dir.old => dir.present
          /\ pc \in [Callers -> Points]
          /\ saw \in [Callers -> Procs \cup {NoProc}]
          /\ up \subseteq Procs
          /\ turns \in BOOLEAN

Goto(c, point) == pc' = [pc EXCEPT ![c] = point]

-----------------------------------------------------------------------------
Call(c) ==
  /\ pc[c] = "idle" /\ HomeOf[c] \in up
  /\ Goto(c, "try")
  /\ UNCHANGED <<dir, saw, up, turns>>

(* tryAcquire: mkdir is atomic and fails when the directory exists.         *)
(* Defect: a recursive mkdir, which does not fail.                          *)
MkdirRecursive(c) ==
  /\ pc[c] = "try"
  /\ dir' = Fresh /\ Goto(c, "owner")
  /\ UNCHANGED <<saw, up, turns>>

Mkdir(c) ==
  /\ pc[c] = "try"
  /\ \/ ~dir.present /\ dir' = Fresh /\ Goto(c, "owner")
     \/ dir.present /\ Goto(c, "look") /\ UNCHANGED dir
  /\ UNCHANGED <<saw, up, turns>>

(* owner.json is written by its path, whoever made the directory that is    *)
(* there now; without one the write throws out of withRepoLock.             *)
WriteOwner(c) ==
  /\ pc[c] = "owner"
  /\ \/ /\ dir.present
        /\ dir' = [dir EXCEPT !.owner = HomeOf[c],
                              !.old = @ /\ dir.owner # NoProc]
        /\ Goto(c, "hold")
     \/ ~dir.present /\ Goto(c, "idle") /\ UNCHANGED dir
  /\ UNCHANGED <<saw, up, turns>>

(* fn has returned or thrown; release removes the directory that is there.  *)
Release(c) ==
  /\ pc[c] = "hold"
  /\ dir' = Absent /\ Goto(c, "idle")
  /\ UNCHANGED <<saw, up, turns>>

(* The owner is read first, the age of the directory after it.              *)
ReadOwner(c) ==
  /\ pc[c] = "look"
  /\ saw' = [saw EXCEPT ![c] = dir.owner]
  /\ turns' = (turns /\ \A d \in Callers : pc[d] \notin {"age", "take"})
  /\ Goto(c, "age")
  /\ UNCHANGED <<dir, up>>

(* Defect: only the age counts.                                             *)
StaleWhoeverOwns(c) == dir.present /\ dir.old

Stale(c) == dir.present /\ dir.old /\ saw[c] \notin up

ReadAge(c) ==
  /\ pc[c] = "age"
  /\ Goto(c, IF Stale(c) THEN "take" ELSE "wait")
  /\ saw' = [saw EXCEPT ![c] = NoProc]
  /\ UNCHANGED <<dir, up, turns>>

(* takeOver: the directory of that name is moved aside, or is gone already. *)
(* Defect: it cannot be moved, and the error is swallowed.                  *)
TakeOverFails(c) ==
  /\ pc[c] = "take"
  /\ Goto(c, "try")
  /\ UNCHANGED <<dir, saw, up, turns>>

TakeOver(c) ==
  /\ pc[c] = "take"
  /\ dir' = Absent /\ Goto(c, "try")
  /\ UNCHANGED <<saw, up, turns>>

(* Before the deadline the caller sleeps and tries again, after it it       *)
(* throws RepoLockTimeoutError.                                             *)
Retry(c) ==
  /\ pc[c] = "wait"
  /\ Goto(c, "try")
  /\ UNCHANGED <<dir, saw, up, turns>>

GiveUp(c) ==
  /\ pc[c] = "wait"
  /\ Goto(c, "idle")
  /\ UNCHANGED <<dir, saw, up, turns>>

(* staleMs passes.  It is 180 s: unless Slow, no call takes so long between *)
(* mkdir and the write of the owner or from looking to taking over.         *)
Age ==
  /\ dir.present /\ ~dir.old
  /\ Slow \/ \A c \in Callers : pc[c] \notin {"owner", "age", "take"}
  /\ dir' = [dir EXCEPT !.old = TRUE]
  /\ UNCHANGED <<pc, saw, up, turns>>

Crash(p) ==
  /\ p \in up
  /\ up' = up \ {p}
  /\ pc' = [c \in Callers |-> IF HomeOf[c] = p THEN "idle" ELSE pc[c]]
  /\ UNCHANGED <<dir, saw, turns>>

-----------------------------------------------------------------------------
Init == /\ dir = Absent
        /\ pc = [c \in Callers |-> "idle"]
        /\ saw = [c \in Callers |-> NoProc]
        /\ up = Procs
        /\ turns = TRUE

Acquire(c) == \/ Mkdir(c) \/ WriteOwner(c) \/ ReadOwner(c) \/ ReadAge(c)
              \/ TakeOver(c) \/ Retry(c)

Next == \/ \E c \in Callers : Call(c) \/ Acquire(c) \/ GiveUp(c) \/ Release(c)
        \/ Age
        \/ \E p \in Procs : Crash(p)

Spec == Init /\ [][Next]_vars

(* A call goes on, and its deadline comes: one that waits over and over has *)
(* to find it passed.  Nothing is owed by whoever holds the lock.           *)
FairSpec == Spec /\ \A c \in Callers : WF_vars(Acquire(c)) /\ SF_vars(GiveUp(c))

-----------------------------------------------------------------------------
Holding == {c \in Callers : pc[c] = "hold"}

(* One caller at a time runs its fn.                                        *)
MutualExclusion == \A c, d \in Holding : c = d

(* So it is, crashes or not, until two callers judge the lock at a time.    *)
ExclusiveInTurns == turns => MutualExclusion

(* However calls interleave, two of them can be inside only after a process *)
(* has died: a live holder is never taken for a dead one.                   *)
ExclusiveUntilACrash == up = Procs => MutualExclusion

(* While a caller is inside the directory is there and names its process,   *)
(* so that every other process can tell that the holder lives.              *)
OnRecord == \A c \in Holding : dir.present /\ dir.owner = HomeOf[c]
HolderIsOnRecord == turns => OnRecord

(* Until two callers judge the lock at a time, callers enter and leave as   *)
(* those of an abstract lock do.                                            *)
Lock == INSTANCE Mutex WITH holders <- IF turns THEN Holding ELSE {}
ImplementsMutex == Lock!Spec

(* A call comes to an end or gets the lock: a lock left behind by a dead    *)
(* process does not keep it looping.                                        *)
CallEnds == \A c \in Callers : pc[c] = "try" ~> pc[c] \in {"idle", "hold"}
=============================================================================
