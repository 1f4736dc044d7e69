-------------------------------- MODULE Lease --------------------------------
(***************************************************************************)
(* The daemon lease (src/scheduler/lease.ts) and the scheduler that asks    *)
(* for it (src/scheduler/poller.ts): of all the Pi sessions that share one  *)
(* factory home, one is to poll the trackers.  /factory rescan polls from   *)
(* any of them without asking for the lease.                                *)
(*                                                                          *)
(* The lease is a directory with an owner.json that the holder rewrites     *)
(* every minute.  A write opens the file, which empties it, and then fills  *)
(* it; until then a reader sees no owner.                                   *)
(*                                                                          *)
(* A definition whose comment begins with "Defect" is wrong on purpose and  *)
(* unused: the properties are tested by putting it in place of the next.    *)
(***************************************************************************)
EXTENDS Naturals, FiniteSets

CONSTANTS
  Procs,       \* sessions, named by the pid they have
  NoProc,      \* no readable owner.json
  DeadProc,    \* the pid of a process that has ended; it does not come back
  MaxHandles,  \* bound: leases one session has taken and not given back
  Rescanners   \* bound: sessions in which somebody says /factory rescan

ASSUME LeaseAssumption == /\ Rescanners \subseteq Procs
                          /\ {NoProc, DeadProc} \cap Procs = {}
                          /\ NoProc # DeadProc
                          /\ MaxHandles \in Nat \ {0}

VARIABLES
  dir,       \* the lease directory
  fd,        \* writes under way into the owner.json of that directory
  pc,        \* where the acquire or drain of a session is
  tries,     \* takeovers of the acquire under way
  sched,     \* the fields of the session's Scheduler
  renewers,  \* renewal timers that run in a session
  renewing,  \* sessions with a renewal write under way
  rescans,   \* sessions in which /factory rescan drains the trackers
  turns      \* history: nobody has looked at the lease while another was
             \* writing or taking it, and no start was met by a stop

vars == <<dir, fd, pc, tries, sched, renewers, renewing, rescans, turns>>

(* old: owner.json names a time at least staleMs ago.                       *)
Directory == [present : BOOLEAN, owner : Procs \cup {NoProc, DeadProc}, old : BOOLEAN]
Absent    == [present |-> FALSE, owner |-> NoProc, old |-> FALSE]
Fresh     == [present |-> TRUE, owner |-> NoProc, old |-> FALSE]

(* The same steps serve recoverFactory and Scheduler.start: a session that  *)
(* acquires for recovery is at a point of the first row.                    *)
Recovering == {"rTry", "rOpen", "rWrite", "rLook", "rTake", "recovering"}
Starting   == {"try", "open", "write", "look", "take"}
Points     == {"off", "idle", "drain"} \cup Recovering \cup Starting

(* Scheduler.lease; how many interval timers run; whether one of them is    *)
(* Scheduler.timer; Scheduler.stopped.                                      *)
Scheduler == [lease : {"none", "holder", "other"}, timers : 0..MaxHandles,
              timer : BOOLEAN, stopped : BOOLEAN]
NewScheduler == [lease |-> "none", timers |-> 0, timer |-> FALSE, stopped |-> TRUE]

TypeOK == /\ dir \in Directory
          /\ fd \subseteq Procs \X {"acquire", "renew"}
          /\ pc \in [Procs -> Points]
          /\ tries \in [Procs -> 0..2]
          /\ sched \in [Procs -> Scheduler]
          /\ renewers \in [Procs -> 0..MaxHandles]
          /\ renewing \subseteq Procs /\ rescans \subseteq Procs /\ turns \in BOOLEAN

At(p, point, rPoint) == pc[p] \in {point, rPoint}
Goto(p, point)       == pc' = [pc EXCEPT ![p] = point]
GotoSame(p, point, rPoint) ==
  Goto(p, IF pc[p] \in Recovering THEN rPoint ELSE point)

(* The directory of that name goes, by a rename or by rm; what is still     *)
(* written goes with it.                                                    *)
RemoveDir == dir' = Absent /\ fd' = {}

(* Opening owner.json creates or empties it.                                *)
OpenOwner(p, for) ==
  /\ dir' = [dir EXCEPT !.owner = NoProc, !.old = FALSE]
  /\ fd' = fd \cup {<<p, for>>}

FillOwner(p, for) ==
  /\ dir' = IF <<p, for>> \in fd THEN [dir EXCEPT !.owner = p, !.old = FALSE]
            ELSE dir
  /\ fd' = fd \ {<<p, for>>}

(* Nobody but p is between a look and what follows, or writes the owner.    *)
Undisturbed(p) ==
  /\ renewing = {}
  /\ \A q \in Procs \ {p} : pc[q] \notin
       {"open", "write", "take", "rOpen", "rWrite", "rTake"}

-----------------------------------------------------------------------------
(* acquireDaemonLease *)

(* session_start: recoverFactory asks for the lease first.                  *)
SessionStart(p) ==
  /\ pc[p] = "off"
  /\ Goto(p, "rTry")
  /\ UNCHANGED <<dir, fd, tries, sched, renewers, renewing, rescans, turns>>

TryMkdir(p) ==
  /\ At(p, "try", "rTry") /\ turns' = (turns /\ Undisturbed(p))
  /\ \/ ~dir.present /\ dir' = Fresh /\ GotoSame(p, "open", "rOpen")
     \/ dir.present /\ GotoSame(p, "look", "rLook") /\ UNCHANGED dir
  /\ UNCHANGED <<fd, tries, sched, renewers, renewing, rescans>>

(* Without a directory the write throws out of the acquire; so does         *)
(* recoverFactory, and session_start does not start the scheduler.          *)
AcquireOpens(p) ==
  /\ At(p, "open", "rOpen")
  /\ \/ /\ dir.present /\ OpenOwner(p, "acquire")
        /\ GotoSame(p, "write", "rWrite") /\ UNCHANGED tries
     \/ /\ ~dir.present /\ Goto(p, "idle")
        /\ tries' = [tries EXCEPT ![p] = 0] /\ UNCHANGED <<dir, fd>>
  /\ UNCHANGED <<sched, renewers, renewing, rescans, turns>>

(* The lease is returned with its renewal timer.  recoverFactory repairs    *)
(* the queue with it, Scheduler.start drains the trackers.                  *)
AcquireReturns(p) ==
  /\ At(p, "write", "rWrite")
  /\ renewers[p] < MaxHandles /\ sched[p].timers < MaxHandles
  /\ FillOwner(p, "acquire")
  /\ renewers' = [renewers EXCEPT ![p] = @ + 1]
  /\ tries' = [tries EXCEPT ![p] = 0]
  /\ sched' = IF pc[p] = "rWrite" THEN sched
              ELSE [sched EXCEPT ![p].lease = "holder"]
  /\ GotoSame(p, "drain", "recovering")
  /\ UNCHANGED <<renewing, rescans, turns>>

(* A non-holder: recovery goes on to Scheduler.start, which gives up.       *)
(* Defect: it drains and polls all the same.                                *)
RefuseUnchecked(p) ==
  /\ tries' = [tries EXCEPT ![p] = 0]
  /\ GotoSame(p, "drain", "try")
  /\ sched' = IF pc[p] \in Recovering
                THEN [sched EXCEPT ![p].stopped = FALSE]
                ELSE [sched EXCEPT ![p].lease = "other"]

Refuse(p) ==
  /\ tries' = [tries EXCEPT ![p] = 0]
  /\ GotoSame(p, "idle", "try")
  /\ sched' = IF pc[p] \in Recovering
                THEN [sched EXCEPT ![p].stopped = FALSE]
                ELSE [sched EXCEPT ![p].lease = "other"]

(* Defect: a missing owner counts as alive.                                 *)
AbandonedNeedsOwner == dir.owner = DeadProc /\ dir.old

(* dead and stale, each of which a missing owner counts as.                 *)
Abandoned == dir.owner = NoProc \/ (dir.owner = DeadProc /\ dir.old)

Look(p) ==
  /\ At(p, "look", "rLook") /\ turns' = (turns /\ Undisturbed(p))
  /\ \/ Abandoned /\ GotoSame(p, "take", "rTake") /\ UNCHANGED <<tries, sched>>
     \/ ~Abandoned /\ Refuse(p)
  /\ UNCHANGED <<dir, fd, renewers, renewing, rescans>>

(* takeOver, three times at most.                                           *)
Take(p) ==
  /\ At(p, "take", "rTake")
  /\ RemoveDir
  /\ \/ /\ tries[p] < 2
        /\ tries' = [tries EXCEPT ![p] = @ + 1]
        /\ GotoSame(p, "try", "rTry") /\ UNCHANGED sched
     \/ tries[p] = 2 /\ Refuse(p)
  /\ UNCHANGED <<renewers, renewing, rescans, turns>>

-----------------------------------------------------------------------------
(* recoverFactory and the Scheduler                                         *)

(* The finally clause of recoverFactory gives the lease back.               *)
(* Defect: its renewal timer is not cleared.                                *)
RecoveredKeepsTimer(p) ==
  /\ pc[p] = "recovering"
  /\ RemoveDir
  /\ sched' = [sched EXCEPT ![p].stopped = FALSE]
  /\ Goto(p, "try")
  /\ UNCHANGED <<tries, renewers, renewing, rescans, turns>>

Recovered(p) ==
  /\ pc[p] = "recovering"
  /\ RemoveDir
  /\ renewers' = [renewers EXCEPT ![p] = @ - 1]
  /\ sched' = [sched EXCEPT ![p].stopped = FALSE]
  /\ Goto(p, "try")
  /\ UNCHANGED <<tries, renewing, rescans, turns>>

(* The first drain ends, and polling begins; or a tracker throws, and start *)
(* throws with the lease in hand.                                           *)
Drained(p) ==
  /\ pc[p] = "drain" /\ Goto(p, "idle")
  /\ \/ sched' = [sched EXCEPT ![p].timers = @ + 1, ![p].timer = TRUE]
     \/ UNCHANGED sched
  /\ UNCHANGED <<dir, fd, tries, renewers, renewing, rescans, turns>>

(* /factory start calls Scheduler.start, which session_start has called     *)
(* before.                                                                  *)
Start(p) ==
  /\ pc[p] = "idle"
  /\ sched' = [sched EXCEPT ![p].stopped = FALSE]
  /\ Goto(p, "try")
  /\ UNCHANGED <<dir, fd, tries, renewers, renewing, rescans, turns>>

(* /factory rescan calls drainOnce whatever the lease and the timer of the  *)
(* session say; the drain ends, or a tracker throws.                        *)
Rescan(p) ==
  /\ p \in Rescanners \ rescans /\ pc[p] # "off"
  /\ rescans' = rescans \cup {p}
  /\ UNCHANGED <<dir, fd, pc, tries, sched, renewers, renewing, turns>>

RescanEnds(p) ==
  /\ p \in rescans
  /\ rescans' = rescans \ {p}
  /\ UNCHANGED <<dir, fd, pc, tries, sched, renewers, renewing, turns>>

(* Scheduler.stop stops the timer it knows of and the lease it knows of.    *)
Stopped(s) ==
  [lease |-> "none", timers |-> IF s.timer THEN s.timers - 1 ELSE s.timers,
   timer |-> FALSE, stopped |-> TRUE]

(* Defect: the directory goes even if it is another session's.              *)
StopLeaseAlways(p) == RemoveDir

StopLease(p) == IF sched[p].lease = "holder" THEN RemoveDir
                ELSE UNCHANGED <<dir, fd>>

TimersLeft(p) == IF sched[p].lease = "holder" THEN renewers[p] - 1
                 ELSE renewers[p]

Stop(p) ==
  /\ pc[p] # "off" /\ turns' = (turns /\ pc[p] = "idle")
  /\ StopLease(p)
  /\ renewers' = [renewers EXCEPT ![p] = TimersLeft(p)]
  /\ sched' = [sched EXCEPT ![p] = Stopped(@)]
  /\ UNCHANGED <<pc, tries, renewing, rescans>>

(* The process is gone, with its timers and its open files; the lease it    *)
(* leaves is a dead one's.                                                  *)
Gone(p) ==
  /\ pc' = [pc EXCEPT ![p] = "off"]
  /\ tries' = [tries EXCEPT ![p] = 0]
  /\ sched' = [sched EXCEPT ![p] = NewScheduler]
  /\ renewers' = [renewers EXCEPT ![p] = 0]
  /\ renewing' = renewing \ {p}
  /\ rescans' = rescans \ {p}
  /\ UNCHANGED turns

LeaveDir(p) ==
  /\ dir' = [dir EXCEPT !.owner = IF @ = p THEN DeadProc ELSE @]
  /\ fd' = fd \ ({p} \X {"acquire", "renew"})

(* session_shutdown stops the scheduler before the process ends.            *)
Shutdown(p) ==
  /\ pc[p] = "idle"
  /\ Gone(p)
  /\ IF sched[p].lease = "holder" THEN RemoveDir ELSE LeaveDir(p)

Crash(p) ==
  /\ pc[p] # "off"
  /\ Gone(p)
  /\ LeaveDir(p)

(* Every minute, whoever owns the directory by now; without one the write   *)
(* fails and nobody notices.                                                *)
RenewOpens(p) ==
  /\ renewers[p] > 0 /\ p \notin renewing /\ dir.present
  /\ OpenOwner(p, "renew")
  /\ renewing' = renewing \cup {p}
  /\ turns' = /\ turns /\ Undisturbed(p)
              /\ pc[p] \in {"idle", "drain", "recovering"}
  /\ UNCHANGED <<pc, tries, sched, renewers, rescans>>

RenewFills(p) ==
  /\ p \in renewing
  /\ FillOwner(p, "renew")
  /\ renewing' = renewing \ {p}
  /\ UNCHANGED <<pc, tries, sched, renewers, rescans, turns>>

(* staleMs passes after the last renewal of a session that has died.        *)
Age ==
  /\ ~dir.old /\ dir.owner = DeadProc
  /\ dir' = [dir EXCEPT !.old = TRUE]
  /\ UNCHANGED <<fd, pc, tries, sched, renewers, renewing, rescans, turns>>

-----------------------------------------------------------------------------
Init == /\ dir = Absent /\ fd = {}
        /\ pc = [p \in Procs |-> "off"]
        /\ tries = [p \in Procs |-> 0]
        /\ sched = [p \in Procs |-> NewScheduler]
        /\ renewers = [p \in Procs |-> 0]
        /\ renewing = {} /\ rescans = {}
        /\ turns = TRUE

Acquire(p) == \/ TryMkdir(p) \/ AcquireOpens(p) \/ AcquireReturns(p)
              \/ Look(p) \/ Take(p)

Next == \E p \in Procs :
          \/ SessionStart(p) \/ Acquire(p) \/ Recovered(p) \/ Drained(p)
          \/ Start(p) \/ Stop(p) \/ Shutdown(p) \/ Crash(p)
          \/ RenewOpens(p) \/ RenewFills(p)
          \/ Rescan(p) \/ RescanEnds(p)
          \/ Age

Spec == Init /\ [][Next]_vars

(* A session that acquires goes on.                                         *)
FairSpec == Spec /\ \A p \in Procs : WF_vars(Acquire(p))

-----------------------------------------------------------------------------
(* The sessions with a lease they renew; those whose scheduler reads the    *)
(* trackers by itself, and those that read them.                            *)
Holders   == {p \in Procs : renewers[p] > 0}
Scheduled == {p \in Procs : \/ pc[p] = "drain"
                            \/ sched[p].timers > 0 /\ ~sched[p].stopped}
Pollers   == Scheduled \cup rescans

(* One session at a time holds the lease, whatever its commands do, as long *)
(* as sessions take turns.                                                  *)
OneHolder == \A p, q \in Holders : p = q
AtMostOneHolder == turns => OneHolder

(* Of two sessions that poll at once, and may claim the same tickets, one   *)
(* does so only because a person said /factory rescan there.                *)
AtMostOneUnasked ==
  turns => \A p, q \in Pollers : p = q \/ ~({p, q} \subseteq Scheduled)

(* Whoever polls by itself does it under a lease that says so.              *)
UnaskedIsOnRecord ==
  turns => \A p \in Scheduled : dir.present /\ (dir.owner = p \/ p \in renewing)

(* There is one session that polls unasked and everybody can see it.        *)
UnaskedPollIsAlone == AtMostOneUnasked /\ UnaskedIsOnRecord

(* A scheduler that has been stopped neither holds the lease nor is on      *)
(* record for it (the lease test: stop() deletes owner.json and allows a    *)
(* new holder).                                                             *)
StopReleases ==
  turns => \A p \in Procs :
    pc[p] = "idle" /\ sched[p].stopped => p \notin Holders /\ dir.owner # p

(* Sessions take and give back the lease as callers of an abstract lock do, *)
(* as long as they take turns.                                              *)
Lock == INSTANCE Mutex WITH Callers <- Procs,
                            holders <- IF turns THEN Holders ELSE {}
ImplementsMutex == Lock!Spec

(* A lease whose owner is dead and which nobody renews does not survive a   *)
(* session that asks for it, however sessions interleave.                   *)
Orphaned == /\ dir.present
            /\ (dir.owner = DeadProc /\ dir.old) \/ dir.owner = NoProc
AbandonedIsTaken ==
  \A p \in Procs :
    pc[p] \in {"try", "rTry"} /\ Orphaned ~> pc[p] = "off" \/ ~Orphaned
=============================================================================
