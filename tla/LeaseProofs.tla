----------------------------- MODULE LeaseProofs -----------------------------
(***************************************************************************)
(* What is proved of Lease, for any number of sessions and handles: the     *)
(* counters of a session never go below nothing, and while sessions take    *)
(* turns one of them polls unasked, on record, under a lease that           *)
(* implements Mutex.                                                        *)
(***************************************************************************)
EXTENDS Lease, TLAPS

(* What a session has to give back it has taken: no stop and no end of a    *)
(* recovery counts below zero, and a drain leaves room for its timer.       *)
Sound(point, s, handles) ==
  /\ point \in Recovering \cup {"off"} => s.lease # "holder"
  /\ point = "recovering" \/ s.lease = "holder" => handles > 0
  /\ s.timer => s.timers > 0
  /\ point = "drain" => s.timers < MaxHandles

Counted == \A p \in Procs : Sound(pc[p], sched[p], renewers[p])

(* A session between the look that found no lease in force and the return   *)
(* of its acquire; Making: with a directory of its own.                     *)
Making(p)  == pc[p] \in {"open", "write", "rOpen", "rWrite"}
Judging(p) == Making(p) \/ pc[p] \in {"take", "rTake"}

(* Taking turns: who has judged that there is no lease is right for as long *)
(* as it acts on that, and a renewal write has the directory for itself.    *)
OneAtWork ==
  /\ \A p, q \in Procs : Judging(p) /\ Judging(q) => p = q
  /\ \A p, q \in renewing : p = q
  /\ \A p \in Procs : Judging(p) => renewing = {} /\ Holders = {}

(* Who holds the lease is named by the directory, or is writing its name.   *)
HolderOnRecord ==
  \A p \in Holders :
    /\ dir.present
    /\ IF p \in renewing THEN dir.owner = NoProc /\ <<p, "renew">> \in fd
       ELSE dir.owner = p

(* An open owner.json is the one of the directory that is there, and the    *)
(* name that is being written is its holder's or its maker's.               *)
WritesOwn ==
  \A p \in Procs :
    /\ Making(p) => dir.present
    /\ pc[p] \in {"write", "rWrite"} => <<p, "acquire">> \in fd
    /\ <<p, "renew">> \in fd => p \in Holders

(* A session has one handle, and its timer runs only with it.               *)
OneHandle ==
  \A p \in Procs :
    /\ renewers[p] <= 1
    /\ sched[p].timers > 0 =>
         sched[p].timers = 1 /\ sched[p].timer /\ renewers[p] > 0
    /\ pc[p] \in {"drain", "recovering"} =>
         renewers[p] > 0 /\ sched[p].timers = 0

Turned  == OneAtWork /\ HolderOnRecord /\ WritesOwn /\ OneHandle
InTurns == turns => Turned

-----------------------------------------------------------------------------
(* The steps of one session.                                                *)
Step(p) == \/ SessionStart(p) \/ Acquire(p) \/ Recovered(p) \/ Drained(p)
           \/ Start(p) \/ Stop(p) \/ Shutdown(p) \/ Crash(p)
           \/ RenewOpens(p) \/ RenewFills(p) \/ Rescan(p) \/ RescanEnds(p)

LEMMA Steps ==
  ASSUME [Next]_vars
  PROVE  (\E p \in Procs : Step(p)) \/ Age \/ UNCHANGED vars
  BY DEF Next, Step

(* What a directory is when it has been made or removed.                    *)
LEMMA Directories ==
  /\ Fresh \in Directory /\ Fresh.present /\ Fresh.owner = NoProc
  /\ Absent \in Directory /\ ~Absent.present /\ Absent.owner = NoProc
  BY DEF Fresh, Absent, Directory

(* What the fields of a scheduler are after each of its assignments.        *)
LEMMA BoundIsNat == MaxHandles \in Nat /\ MaxHandles > 0
  BY LeaseAssumption

LEMMA NewIs ==
  /\ NewScheduler \in Scheduler /\ NewScheduler.timers = 0
  /\ NewScheduler.lease = "none" /\ ~NewScheduler.timer
  BY BoundIsNat DEF NewScheduler, Scheduler

LEMMA FieldsAre ==
  ASSUME NEW s \in Scheduler
  PROVE  s.timers \in 0..MaxHandles /\ s.timer \in BOOLEAN
  BY DEF Scheduler

LEMMA StartedIs ==
  ASSUME NEW s \in Scheduler
  PROVE  LET t == [s EXCEPT !.stopped = FALSE] IN
         /\ t \in Scheduler /\ t.lease = s.lease
         /\ t.timers = s.timers /\ t.timer = s.timer
  BY DEF Scheduler

LEMMA LeasedIs ==
  ASSUME NEW s \in Scheduler, NEW l \in {"none", "holder", "other"}
  PROVE  LET t == [s EXCEPT !.lease = l] IN
         /\ t \in Scheduler /\ t.lease = l
         /\ t.timers = s.timers /\ t.timer = s.timer
  BY DEF Scheduler

LEMMA TimedIs ==
  ASSUME NEW s \in Scheduler, s.timers < MaxHandles
  PROVE  LET t == [s EXCEPT !.timers = @ + 1, !.timer = TRUE] IN
         /\ t \in Scheduler /\ t.lease = s.lease
         /\ t.timers = s.timers + 1 /\ t.timer
<1>1. s.timers + 1 \in 0..MaxHandles
  BY FieldsAre, BoundIsNat
<1>2. [s EXCEPT !.timers = s.timers + 1] \in Scheduler
  BY <1>1 DEF Scheduler
<1>3. QED
  BY <1>2 DEF Scheduler

LEMMA StoppedIs ==
  ASSUME NEW s \in Scheduler, s.timer => s.timers > 0
  PROVE  /\ Stopped(s) \in Scheduler /\ Stopped(s).lease = "none"
         /\ ~Stopped(s).timer
         /\ Stopped(s).timers = IF s.timer THEN s.timers - 1 ELSE s.timers
<1>1. (IF s.timer THEN s.timers - 1 ELSE s.timers) \in 0..MaxHandles
  BY FieldsAre, BoundIsNat
<1>2. QED
  BY <1>1 DEF Stopped, Scheduler

LEMMA TypeFacts ==
  ASSUME TypeOK, NEW p \in Procs
  PROVE  /\ dir \in Directory /\ fd \subseteq Procs \X {"acquire", "renew"}
         /\ renewing \subseteq Procs /\ rescans \subseteq Procs /\ turns \in BOOLEAN
         /\ pc[p] \in Points /\ sched[p] \in Scheduler
         /\ renewers[p] \in 0..MaxHandles /\ tries[p] \in 0..2
         /\ pc = [pc EXCEPT ![p] = @] /\ sched = [sched EXCEPT ![p] = @]
         /\ renewers = [renewers EXCEPT ![p] = @] /\ tries = [tries EXCEPT ![p] = @]
  BY DEF TypeOK

-----------------------------------------------------------------------------
Typed == TypeOK /\ Counted

LEMMA InitTyped ==
  ASSUME Init PROVE Typed
<1>1. TypeOK
  BY Directories, NewIs, BoundIsNat DEF Init, TypeOK, Points
<1>2. QED
  BY <1>1, NewIs DEF Init, Typed, Counted, Sound, Recovering

(* A step that gives p alone a new point, a new scheduler and new counts.   *)
LEMMA OwnStep ==
  ASSUME Typed, NEW p \in Procs, dir' \in Directory,
         fd' \subseteq Procs \X {"acquire", "renew"},
         renewing' \subseteq Procs, rescans' \subseteq Procs, turns' \in BOOLEAN,
         NEW point \in Points, pc' = [pc EXCEPT ![p] = point],
         NEW s \in Scheduler, sched' = [sched EXCEPT ![p] = s],
         NEW n \in 0..MaxHandles, renewers' = [renewers EXCEPT ![p] = n],
         NEW t \in 0..2, tries' = [tries EXCEPT ![p] = t],
         Sound(point, s, n)
  PROVE  Typed'
<1>1. TypeOK'
  BY DEF Typed, TypeOK
<1>2. ASSUME NEW q \in Procs PROVE Sound(pc'[q], sched'[q], renewers'[q])
  <2>1. CASE q = p
    BY <2>1 DEF Typed, TypeOK
  <2>2. CASE q # p
    BY <2>2 DEF Typed, TypeOK, Counted
  <2>3. QED
    BY <2>1, <2>2
<1>3. QED
  BY <1>1, <1>2 DEF Typed, Counted

(* The directory and the writes under way keep their types.                 *)
LEMMA DirTyped ==
  ASSUME TypeOK, NEW p \in Procs,
         \/ RemoveDir \/ LeaveDir(p) \/ UNCHANGED <<dir, fd>>
         \/ dir' = Fresh /\ UNCHANGED fd
         \/ \E for \in {"acquire", "renew"} : OpenOwner(p, for) \/ FillOwner(p, for)
  PROVE  dir' \in Directory /\ fd' \subseteq Procs \X {"acquire", "renew"}
<1>1. CASE RemoveDir
  BY <1>1, Directories DEF RemoveDir
<1>2. CASE UNCHANGED <<dir, fd>> \/ (dir' = Fresh /\ UNCHANGED fd)
  BY <1>2, Directories DEF TypeOK
<1>3. CASE LeaveDir(p)
  BY <1>3 DEF LeaveDir, Directory, TypeOK
<1>4. ASSUME NEW for \in {"acquire", "renew"}, OpenOwner(p, for)
      PROVE  dir' \in Directory /\ fd' \subseteq Procs \X {"acquire", "renew"}
  <2>1. [dir EXCEPT !.owner = NoProc, !.old = FALSE] \in Directory
    BY DEF Directory, TypeOK
  <2>2. QED
    BY <1>4, <2>1 DEF OpenOwner, TypeOK
<1>5. ASSUME NEW for \in {"acquire", "renew"}, FillOwner(p, for)
      PROVE  dir' \in Directory /\ fd' \subseteq Procs \X {"acquire", "renew"}
  BY <1>5 DEF FillOwner, Directory, TypeOK
<1>6. QED
  BY <1>1, <1>2, <1>3, <1>4, <1>5

(* A session that is refused keeps its handle and its timer.                *)
LEMMA RefusedKeepsTyped ==
  ASSUME Typed, NEW p \in Procs, Refuse(p), pc[p] \in Recovering \cup Starting,
         pc[p] # "recovering",
         dir' \in Directory, fd' \subseteq Procs \X {"acquire", "renew"},
         turns' \in BOOLEAN, UNCHANGED <<renewers, renewing, rescans>>
  PROVE  Typed'
<1>1. /\ tries' = [tries EXCEPT ![p] = 0] /\ renewing' \subseteq Procs
      /\ rescans' \subseteq Procs
      /\ renewers' = [renewers EXCEPT ![p] = renewers[p]]
      /\ renewers[p] \in 0..MaxHandles /\ 0 \in 0..2 /\ sched[p] \in Scheduler
      /\ "try" \in Points /\ "idle" \in Points
  BY TypeFacts DEF Refuse, Typed, Points, Starting
<1>2. CASE pc[p] \in Recovering
  <2>1. pc' = [pc EXCEPT ![p] = "try"]
        /\ sched' = [sched EXCEPT ![p] = [sched[p] EXCEPT !.stopped = FALSE]]
    BY <1>2 DEF Refuse, GotoSame, Goto
  <2>2. Sound("try", [sched[p] EXCEPT !.stopped = FALSE], renewers[p])
    BY <1>2, TypeFacts, StartedIs DEF Typed, Counted, Sound, Recovering
  <2>3. QED
    BY <1>1, <2>1, <2>2, OwnStep, StartedIs
<1>3. CASE pc[p] \notin Recovering
  <2>1. pc' = [pc EXCEPT ![p] = "idle"]
        /\ sched' = [sched EXCEPT ![p] = [sched[p] EXCEPT !.lease = "other"]]
    BY <1>3 DEF Refuse, GotoSame, Goto
  <2>2. Sound("idle", [sched[p] EXCEPT !.lease = "other"], renewers[p])
    BY TypeFacts, LeasedIs DEF Typed, Counted, Sound, Recovering
  <2>3. QED
    BY <1>1, <2>1, <2>2, OwnStep, LeasedIs
<1>4. QED
  BY <1>2, <1>3

(* So do the steps that move on from one point to another.                  *)
LEMMA MoveStep ==
  ASSUME Typed, NEW p \in Procs, NEW point \in Points \ {"recovering", "drain"},
         pc' = [pc EXCEPT ![p] = point],
         point \in Recovering => pc[p] \in Recovering \cup {"off"},
         point # "off",
         dir' \in Directory, fd' \subseteq Procs \X {"acquire", "renew"},
         turns' \in BOOLEAN, tries'[p] \in 0..2,
         tries' = [tries EXCEPT ![p] = tries'[p]],
         UNCHANGED <<sched, renewers, renewing, rescans>>
  PROVE  Typed'
<1>1. Sound(point, sched[p], renewers[p])
  BY DEF Typed, Counted, Sound
<1>2. QED
  BY <1>1, OwnStep, TypeFacts DEF Typed

LEMMA TypedStep ==
  ASSUME Typed, NEW p \in Procs, Step(p) PROVE Typed'
<1> USE DEF Typed
<1>1. CASE SessionStart(p)
  <2>1. pc' = [pc EXCEPT ![p] = "rTry"] /\ pc[p] = "off"
        /\ UNCHANGED <<dir, fd, tries, sched, renewers, renewing, rescans, turns>>
    BY <1>1 DEF SessionStart, Goto
  <2>2. QED
    BY <2>1, MoveStep, TypeFacts DEF Points, Recovering
<1>2. CASE Start(p)
  <2>1. Sound("try", [sched[p] EXCEPT !.stopped = FALSE], renewers[p])
    BY TypeFacts, StartedIs DEF Counted, Sound, Recovering, Start
  <2>2. QED
    BY <1>2, <2>1, OwnStep, TypeFacts, StartedIs DEF Start, Goto, Points, Starting
<1>3. CASE TryMkdir(p)
  <2>1. dir' \in Directory /\ UNCHANGED <<fd, tries, sched, renewers, renewing, rescans>>
        /\ turns' \in BOOLEAN
    BY <1>3, DirTyped, TypeFacts DEF TryMkdir
  <2>2. PICK x \in {"open", "rOpen", "look", "rLook"} :
          pc' = [pc EXCEPT ![p] = x] /\ (x \in {"rOpen", "rLook"} => pc[p] \in Recovering)
    BY <1>3 DEF TryMkdir, GotoSame, Goto
  <2>3. QED
    BY <2>1, <2>2, MoveStep, TypeFacts DEF Points, Recovering, Starting
<1>4. CASE AcquireOpens(p)
  <2>1. dir' \in Directory /\ fd' \subseteq Procs \X {"acquire", "renew"}
        /\ UNCHANGED <<sched, renewers, renewing, rescans, turns>>
    BY <1>4, DirTyped DEF AcquireOpens
  <2>2. PICK x \in {"write", "rWrite", "idle"} :
          pc' = [pc EXCEPT ![p] = x] /\ (x = "rWrite" => pc[p] \in Recovering)
    BY <1>4 DEF AcquireOpens, GotoSame, Goto
  <2>3. tries' = [tries EXCEPT ![p] = tries'[p]] /\ tries'[p] \in 0..2
    BY <1>4 DEF AcquireOpens, TypeOK
  <2>4. QED
    BY <2>1, <2>2, <2>3, MoveStep, TypeFacts DEF Points, Recovering, Starting
<1>5. CASE AcquireReturns(p)
  <2>1. dir' \in Directory /\ fd' \subseteq Procs \X {"acquire", "renew"}
    BY <1>5, DirTyped DEF AcquireReturns
  <2>2. /\ tries' = [tries EXCEPT ![p] = 0] /\ UNCHANGED <<renewing, rescans, turns>>
        /\ renewers' = [renewers EXCEPT ![p] = renewers[p] + 1]
        /\ renewers[p] < MaxHandles /\ sched[p].timers < MaxHandles
        /\ pc[p] \in {"write", "rWrite"}
    BY <1>5 DEF AcquireReturns, At
  <2>3. /\ renewers[p] + 1 \in 0..MaxHandles /\ renewers[p] + 1 > 0
        /\ renewing' \subseteq Procs /\ rescans' \subseteq Procs
        /\ turns' \in BOOLEAN /\ 0 \in 0..2
        /\ sched[p] \in Scheduler /\ sched = [sched EXCEPT ![p] = sched[p]]
        /\ "recovering" \in Points /\ "drain" \in Points
    BY <2>2, TypeFacts, BoundIsNat DEF Points, Recovering
  <2>4. CASE pc[p] = "rWrite"
    <3>1. pc' = [pc EXCEPT ![p] = "recovering"] /\ UNCHANGED sched
      BY <1>5, <2>4 DEF AcquireReturns, GotoSame, Goto, Recovering
    <3>2. Sound("recovering", sched[p], renewers[p] + 1)
      BY <2>3, <2>4 DEF Counted, Sound, Recovering
    <3>3. QED
      BY <2>1, <2>2, <2>3, <3>1, <3>2, OwnStep
  <2>5. CASE pc[p] = "write"
    <3>1. pc' = [pc EXCEPT ![p] = "drain"]
          /\ sched' = [sched EXCEPT ![p] = [sched[p] EXCEPT !.lease = "holder"]]
      BY <1>5, <2>5 DEF AcquireReturns, GotoSame, Goto, Recovering
    <3>2. Sound("drain", [sched[p] EXCEPT !.lease = "holder"], renewers[p] + 1)
      BY <2>2, <2>3, LeasedIs, TypeFacts DEF Counted, Sound, Recovering
    <3>3. QED
      BY <2>1, <2>2, <2>3, <3>1, <3>2, OwnStep, LeasedIs
  <2>6. QED
    BY <2>2, <2>4, <2>5
<1>6. CASE Look(p)
  <2>1. UNCHANGED <<dir, fd, renewers, renewing, rescans>> /\ turns' \in BOOLEAN
        /\ pc[p] \in {"look", "rLook"}
    BY <1>6, TypeFacts DEF Look, At
  <2>2. CASE Refuse(p)
    BY <2>1, <2>2, RefusedKeepsTyped, TypeFacts DEF Recovering, Starting
  <2>3. CASE ~Refuse(p)
    <3>1. PICK x \in {"take", "rTake"} :
            pc' = [pc EXCEPT ![p] = x] /\ (x = "rTake" => pc[p] \in Recovering)
      BY <1>6, <2>3 DEF Look, GotoSame, Goto
    <3>2. UNCHANGED <<tries, sched>>
      BY <1>6, <2>3 DEF Look
    <3>3. QED
      BY <2>1, <3>1, <3>2, MoveStep, TypeFacts DEF Points, Recovering, Starting
  <2>4. QED
    BY <2>2, <2>3
<1>7. CASE Take(p)
  <2>1. dir' \in Directory /\ fd' \subseteq Procs \X {"acquire", "renew"}
    BY <1>7, DirTyped DEF Take
  <2>2. UNCHANGED <<renewers, renewing, rescans, turns>> /\ pc[p] \in {"take", "rTake"}
    BY <1>7 DEF Take, At
  <2>3. CASE Refuse(p)
    BY <2>1, <2>2, <2>3, RefusedKeepsTyped, TypeFacts DEF Recovering, Starting
  <2>4. CASE ~Refuse(p)
    <3>1. PICK x \in {"try", "rTry"} :
            pc' = [pc EXCEPT ![p] = x] /\ (x = "rTry" => pc[p] \in Recovering)
      BY <1>7, <2>4 DEF Take, GotoSame, Goto
    <3>2. UNCHANGED sched /\ tries[p] < 2
          /\ tries' = [tries EXCEPT ![p] = tries[p] + 1]
      BY <1>7, <2>4 DEF Take
    <3>3. tries' = [tries EXCEPT ![p] = tries'[p]] /\ tries'[p] \in 0..2
      BY <3>2, TypeFacts DEF TypeOK
    <3>4. QED
      BY <2>1, <2>2, <3>1, <3>2, <3>3, MoveStep, TypeFacts
      DEF Points, Recovering, Starting
  <2>5. QED
    BY <2>3, <2>4
<1>8. CASE Recovered(p)
  <2>1. dir' \in Directory /\ fd' \subseteq Procs \X {"acquire", "renew"}
    BY <1>8, DirTyped DEF Recovered
  <2>2. renewers[p] - 1 \in 0..MaxHandles
    BY <1>8, TypeFacts, BoundIsNat DEF Recovered, Counted, Sound
  <2>3. Sound("try", [sched[p] EXCEPT !.stopped = FALSE], renewers[p] - 1)
    BY <1>8, TypeFacts, StartedIs DEF Recovered, Counted, Sound, Recovering
  <2>4. QED
    BY <1>8, <2>1, <2>2, <2>3, OwnStep, TypeFacts, StartedIs
    DEF Recovered, Goto, Points, Starting
<1>9. CASE Drained(p)
  <2>1. /\ pc[p] = "drain" /\ sched[p].timers < MaxHandles
        /\ pc' = [pc EXCEPT ![p] = "idle"]
        /\ UNCHANGED <<dir, fd, tries, renewers, renewing, rescans, turns>>
    BY <1>9 DEF Drained, Goto, Counted, Sound
  <2>2. CASE UNCHANGED sched
    BY <2>1, <2>2, MoveStep, TypeFacts DEF Points, Recovering
  <2>3. CASE ~UNCHANGED sched
    <3>1. sched' = [sched EXCEPT ![p] = [sched[p] EXCEPT !.timers = @ + 1, !.timer = TRUE]]
      BY <1>9, <2>3 DEF Drained
    <3>2. sched[p].timers + 1 > 0 /\ sched[p] \in Scheduler
      BY TypeFacts, FieldsAre, BoundIsNat
    <3>3. Sound("idle", [sched[p] EXCEPT !.timers = @ + 1, !.timer = TRUE], renewers[p])
      BY <2>1, <3>2, TimedIs DEF Counted, Sound, Recovering
    <3>4. QED
      BY <2>1, <3>1, <3>3, OwnStep, TypeFacts, TimedIs DEF Points
  <2>4. QED
    BY <2>2, <2>3
<1>10. CASE Stop(p)
  <2>1. dir' \in Directory /\ fd' \subseteq Procs \X {"acquire", "renew"}
    BY <1>10, DirTyped DEF Stop, StopLease
  <2>2. /\ sched' = [sched EXCEPT ![p] = Stopped(sched[p])]
        /\ UNCHANGED <<pc, tries, renewing, rescans>> /\ turns' \in BOOLEAN
        /\ renewers' = [renewers EXCEPT ![p] = TimersLeft(p)]
        /\ pc[p] # "off"
    BY <1>10, TypeFacts DEF Stop
  <2>3. /\ TimersLeft(p) \in 0..MaxHandles
        /\ sched[p].lease # "holder" => TimersLeft(p) = renewers[p]
    BY TypeFacts, BoundIsNat DEF TimersLeft, Counted, Sound
  <2>4. Sound(pc[p], Stopped(sched[p]), TimersLeft(p))
    BY <2>2, <2>3, StoppedIs, TypeFacts, FieldsAre, BoundIsNat
    DEF Counted, Sound, Recovering
  <2>5. Stopped(sched[p]) \in Scheduler
    BY StoppedIs, TypeFacts DEF Counted, Sound
  <2>6. QED
    BY <2>1, <2>2, <2>3, <2>4, <2>5, OwnStep, TypeFacts
<1>11. CASE Shutdown(p) \/ Crash(p)
  <2>1. dir' \in Directory /\ fd' \subseteq Procs \X {"acquire", "renew"}
    BY <1>11, DirTyped DEF Shutdown, Crash
  <2>2. Gone(p)
    BY <1>11 DEF Shutdown, Crash
  <2>3. Sound("off", NewScheduler, 0)
    BY NewIs DEF Sound, Recovering
  <2>4. 0 \in 0..MaxHandles /\ 0 \in 0..2
    BY BoundIsNat
  <2>5. QED
    BY <2>1, <2>2, <2>3, <2>4, NewIs, OwnStep, TypeFacts DEF Gone, Points
<1>12. CASE RenewOpens(p) \/ RenewFills(p)
  <2>1. dir' \in Directory /\ fd' \subseteq Procs \X {"acquire", "renew"}
    BY <1>12, DirTyped DEF RenewOpens, RenewFills
  <2>2. TypeOK'
    BY <1>12, <2>1 DEF RenewOpens, RenewFills, TypeOK
  <2>3. QED
    BY <1>12, <2>2 DEF RenewOpens, RenewFills, Counted
<1>13. CASE Rescan(p) \/ RescanEnds(p)
  BY <1>13 DEF Rescan, RescanEnds, TypeOK, Counted
<1>14. QED
  BY <1>1, <1>2, <1>3, <1>4, <1>5, <1>6, <1>7, <1>8, <1>9, <1>10, <1>11, <1>12,
     <1>13
  DEF Step, Acquire

LEMMA TypedAlways == Spec => []Typed
<1>1. Init => Typed
  BY InitTyped
<1>2. Typed /\ [Next]_vars => Typed'
  <2> SUFFICES ASSUME Typed, [Next]_vars PROVE Typed'
    OBVIOUS
  <2>1. CASE Age
    BY <2>1 DEF Age, Typed, TypeOK, Directory, Counted
  <2>2. CASE UNCHANGED vars
    BY <2>2 DEF vars, Typed, TypeOK, Counted
  <2>3. QED
    BY <2>1, <2>2, Steps, TypedStep
<1>3. QED
  BY <1>1, <1>2, PTL DEF Spec

(* The directory, the writes, the sessions' points and counters keep their  *)
(* types: no handle and no timer is given back twice.                       *)
THEOREM TypeCorrect == Spec => []TypeOK
<1>1. Typed => TypeOK
  BY DEF Typed
<1>2. QED
  BY <1>1, TypedAlways, PTL

-----------------------------------------------------------------------------
(* Turns once missed stay missed.                                           *)
LEMMA TurnsEnd ==
  ASSUME [Next]_vars, turns' PROVE turns
<1>1. ASSUME NEW p \in Procs, Step(p) PROVE turns
  BY <1>1 DEF Step, Acquire, SessionStart, TryMkdir, AcquireOpens, AcquireReturns,
    Look, Take, Recovered, Drained, Start, Stop, Shutdown, Crash, Gone,
    RenewOpens, RenewFills, Rescan, RescanEnds
<1>2. CASE Age \/ UNCHANGED vars
  BY <1>2 DEF Age, vars
<1>3. QED
  BY <1>1, <1>2, Steps

(* A holder is known by the directory, and its owner names one session.     *)
LEMMA HolderFacts ==
  ASSUME Turned, TypeOK
  PROVE  /\ \A p, q \in Holders : p = q
         /\ \A p \in Holders : /\ dir.present
                               /\ dir.owner = p \/ (dir.owner = NoProc /\ p \in renewing)
                               /\ dir.owner # DeadProc
<1>1. ASSUME NEW p \in Holders
      PROVE  /\ p # NoProc /\ p # DeadProc /\ dir.present
             /\ dir.owner = p \/ (dir.owner = NoProc /\ p \in renewing)
  <2>1. p \in Procs
    BY DEF Holders
  <2>2. p # NoProc /\ p # DeadProc
    BY <2>1, LeaseAssumption
  <2>3. QED
    BY <2>2 DEF Turned, HolderOnRecord
<1>2. \A p, q \in renewing : p = q
  BY DEF Turned, OneAtWork
<1>3. NoProc # DeadProc
  BY LeaseAssumption
<1>4. QED
  BY <1>1, <1>2, <1>3

LEMMA PlainFacts ==
  ASSUME TypeOK
  PROVE  /\ DOMAIN pc = Procs /\ DOMAIN sched = Procs /\ DOMAIN renewers = Procs
         /\ renewing \subseteq Procs
         /\ \A p \in Procs : sched[p].timers \in Nat /\ renewers[p] \in Nat
  BY FieldsAre, BoundIsNat DEF TypeOK

(* A step by which the lease stays as it is and a session goes to a point   *)
(* from which it does not act on it.                                        *)
LEMMA QuietStep ==
  ASSUME Turned, TypeOK, UNCHANGED <<dir, fd, renewers, renewing>>, NEW p \in Procs,
         NEW point, pc' = [pc EXCEPT ![p] = point],
         point \notin {"open", "write", "take", "rOpen", "rWrite", "rTake",
                      "drain", "recovering"},
         \A q \in Procs : /\ sched'[q].timers = sched[q].timers
                          /\ sched'[q].timer = sched[q].timer
  PROVE  Turned'
<1> USE PlainFacts DEF Turned, Holders
<1>1. \A q \in Procs : (pc'[q] = pc[q] \/ q = p) /\ pc'[p] = point
  OBVIOUS
<1>2. OneAtWork'
  BY <1>1 DEF OneAtWork, Judging, Making
<1>3. HolderOnRecord'
  BY DEF HolderOnRecord
<1>4. WritesOwn'
  BY <1>1 DEF WritesOwn, Making
<1>5. OneHandle'
  BY <1>1 DEF OneHandle
<1>6. QED
  BY <1>2, <1>3, <1>4, <1>5

(* The step of a session that works on the lease while nobody holds it.     *)
LEMMA WorkStep ==
  ASSUME Turned, TypeOK, NEW p \in Procs, NEW point, pc' = [pc EXCEPT ![p] = point],
         Holders = {}, renewing = {}, \A q \in Procs : Judging(q) => q = p,
         UNCHANGED <<renewers, renewing>>,
         point \notin {"drain", "recovering"},
         point \in {"open", "write", "rOpen", "rWrite"} => dir'.present,
         point \in {"write", "rWrite"} => <<p, "acquire">> \in fd',
         \A q \in Procs : <<q, "renew">> \in fd' => <<q, "renew">> \in fd,
         \A q \in Procs : /\ sched'[q].timers = sched[q].timers
                          /\ sched'[q].timer = sched[q].timer
  PROVE  Turned'
<1> USE PlainFacts DEF Turned, Holders
<1>1. \A q \in Procs : (pc'[q] = pc[q] \/ q = p) /\ pc'[p] = point
  OBVIOUS
<1>2. Holders' = {}
  OBVIOUS
<1>3. OneAtWork'
  BY <1>1, <1>2 DEF OneAtWork, Judging, Making
<1>4. HolderOnRecord'
  BY <1>2 DEF HolderOnRecord
<1>5. WritesOwn'
  BY <1>1, <1>2 DEF WritesOwn, Judging, Making
<1>6. OneHandle'
  BY <1>1 DEF OneHandle
<1>7. QED
  BY <1>3, <1>4, <1>5, <1>6

(* The step by which a session ends with the lease, or without one.         *)
LEMMA EndStep ==
  ASSUME Turned, TypeOK, NEW p \in Procs,
         \A q \in Procs \ {p} : /\ pc'[q] = pc[q] /\ sched'[q] = sched[q]
                                /\ renewers'[q] = renewers[q],
         sched'[p].timers = 0, renewers'[p] = 0, renewing' \subseteq renewing,
         pc'[p] \notin {"open", "write", "take", "rOpen", "rWrite", "rTake",
                        "drain", "recovering"},
         \/ RemoveDir /\ p \in Holders
         \/ LeaveDir(p) /\ renewing' = renewing \ {p}
  PROVE  Turned'
<1> USE PlainFacts DEF Turned, Holders
<1>1. ~(0 > 0) /\ 0 <= 1
  OBVIOUS
<1>2. Holders' = Holders \ {p}
  BY <1>1
<1>3. OneAtWork'
  BY <1>1, <1>2 DEF OneAtWork, Judging, Making
<1>4. OneHandle'
  BY <1>1 DEF OneHandle
<1>5. CASE RemoveDir /\ p \in Holders
  <2>1. Holders' = {} /\ \A q \in Procs : ~Judging(q)
    BY <1>2, <1>5, HolderFacts DEF OneAtWork
  <2>2. HolderOnRecord'
    BY <2>1 DEF HolderOnRecord
  <2>3. WritesOwn'
    BY <1>1, <1>5, <2>1 DEF WritesOwn, RemoveDir, Judging, Making
  <2>4. QED
    BY <1>3, <1>4, <2>2, <2>3
<1>6. CASE LeaveDir(p) /\ renewing' = renewing \ {p}
  <2>1. /\ dir'.present = dir.present
        /\ dir.owner # p => dir'.owner = dir.owner
        /\ \A q \in Procs : \A for \in {"acquire", "renew"} :
             <<q, for>> \in fd' <=> <<q, for>> \in fd /\ q # p
    BY <1>6, TypeFacts DEF LeaveDir, Directory
  <2>2. HolderOnRecord'
    <3> SUFFICES ASSUME NEW q \in Holders'
                 PROVE  /\ dir'.present
                        /\ IF q \in renewing' THEN dir'.owner = NoProc /\ <<q, "renew">> \in fd'
                           ELSE dir'.owner = q
      BY DEF HolderOnRecord
    <3>1. q \in Holders /\ q # p /\ q \in Procs
      BY <1>2
    <3>2. dir.owner # p
      BY <3>1, LeaseAssumption DEF HolderOnRecord
    <3>3. QED
      BY <1>6, <2>1, <3>1, <3>2 DEF HolderOnRecord
  <2>3. WritesOwn'
    BY <1>1, <1>2, <2>1 DEF WritesOwn, Making
  <2>4. QED
    BY <1>3, <1>4, <2>2, <2>3
<1>7. QED
  BY <1>5, <1>6

LEMMA TurnedStep ==
  ASSUME Turned, TypeOK, Counted, turns, turns', NEW p \in Procs, Step(p)
  PROVE  Turned'
<1>1. CASE SessionStart(p)
  BY <1>1, QuietStep DEF SessionStart, Goto
<1>2. CASE Start(p)
  <2>1. \A q \in Procs : /\ sched'[q].timers = sched[q].timers
                         /\ sched'[q].timer = sched[q].timer
    BY <1>2, StartedIs, PlainFacts, TypeFacts DEF Start
  <2>2. QED
    BY <1>2, <2>1, QuietStep DEF Start, Goto
<1>3. CASE TryMkdir(p)
  <2>1. /\ UNCHANGED <<fd, tries, sched, renewers, renewing>>
        /\ renewing = {} /\ \A q \in Procs : Judging(q) => q = p
        /\ pc[p] \in {"try", "rTry"}
    BY <1>3 DEF TryMkdir, Undisturbed, Judging, Making, At
  <2>2. CASE dir.present
    BY <1>3, <2>1, <2>2, QuietStep DEF TryMkdir, GotoSame, Goto
  <2>3. CASE ~dir.present
    <3>1. Holders = {}
      <4>1. \A q \in Holders : dir.present
        BY HolderFacts
      <4>2. QED
        BY <2>3, <4>1
    <3>2. dir'.present
      BY <1>3, <2>3, Directories DEF TryMkdir
    <3>3. PICK point \in {"open", "rOpen"} : pc' = [pc EXCEPT ![p] = point]
      BY <1>3, <2>3 DEF TryMkdir, GotoSame, Goto
    <3>4. QED
      BY <2>1, <3>1, <3>2, <3>3, WorkStep
  <2>4. QED
    BY <2>2, <2>3
<1>4. CASE AcquireOpens(p)
  <2>1. /\ UNCHANGED <<sched, renewers, renewing, turns>> /\ Judging(p)
        /\ Making(p)
    BY <1>4 DEF AcquireOpens, Judging, Making, At
  <2>2. /\ Holders = {} /\ renewing = {} /\ \A q \in Procs : Judging(q) => q = p
        /\ dir.present
    BY <2>1 DEF Turned, OneAtWork, WritesOwn
  <2>3. PICK point \in {"write", "rWrite"} : pc' = [pc EXCEPT ![p] = point]
    BY <1>4, <2>2 DEF AcquireOpens, GotoSame, Goto
  <2>4. /\ dir'.present /\ <<p, "acquire">> \in fd'
        /\ \A q \in Procs : <<q, "renew">> \in fd' => <<q, "renew">> \in fd
    BY <1>4, <2>2, TypeFacts DEF AcquireOpens, OpenOwner, Directory
  <2>5. QED
    BY <2>1, <2>2, <2>3, <2>4, WorkStep
<1>5. CASE AcquireReturns(p)
  <2>1. /\ Judging(p) /\ Making(p) /\ UNCHANGED renewing
        /\ renewers' = [renewers EXCEPT ![p] = renewers[p] + 1]
        /\ <<p, "acquire">> \in fd
    BY <1>5 DEF AcquireReturns, Judging, Making, At, Turned, WritesOwn
  <2>2. /\ Holders = {} /\ renewing = {} /\ \A q \in Procs : Judging(q) => q = p
        /\ dir.present
    BY <2>1 DEF Turned, OneAtWork, WritesOwn
  <2>3. PICK point \in {"drain", "recovering"} : pc' = [pc EXCEPT ![p] = point]
    BY <1>5 DEF AcquireReturns, GotoSame, Goto
  <2>4. \A q \in Procs : sched'[q].timers = sched[q].timers /\ sched[q].timers = 0
    <3>1. \A q \in Procs : sched'[q].timers = sched[q].timers
      BY <1>5, LeasedIs, PlainFacts, TypeFacts DEF AcquireReturns
    <3>2. QED
      BY <2>2, <3>1, PlainFacts DEF Turned, OneHandle, Holders
  <2>5. /\ renewers'[p] = 1 /\ \A q \in Procs \ {p} : renewers'[q] = 0
        /\ \A q \in Procs : (pc'[q] = pc[q] \/ q = p) /\ pc'[p] = point
    BY <2>1, <2>2, <2>3, PlainFacts DEF Holders
  <2>6. dir'.present /\ dir'.owner = p /\ fd' = fd \ {<<p, "acquire">>}
    BY <1>5, <2>1, <2>2, TypeFacts DEF AcquireReturns, FillOwner, Directory
  <2>7. Holders' = {p}
    BY <2>5 DEF Holders
  <2>8. OneAtWork'
    BY <2>1, <2>2, <2>5 DEF OneAtWork, Judging, Making
  <2>9. HolderOnRecord'
    BY <2>1, <2>2, <2>6, <2>7 DEF HolderOnRecord
  <2>10. WritesOwn'
    BY <2>2, <2>3, <2>5, <2>6 DEF WritesOwn, Judging, Making, Turned
  <2>11. OneHandle'
    BY <2>2, <2>4, <2>5, PlainFacts DEF OneHandle, Holders, Turned
  <2>12. QED
    BY <2>8, <2>9, <2>10, <2>11 DEF Turned
<1>6. CASE Look(p)
  <2>1. /\ UNCHANGED <<dir, fd, renewers, renewing>>
        /\ renewing = {} /\ \A q \in Procs : Judging(q) => q = p
        /\ pc[p] \in {"look", "rLook"}
    BY <1>6 DEF Look, Undisturbed, Judging, Making, At
  <2>2. CASE Refuse(p)
    <3>1. PICK point \in {"try", "idle"} : pc' = [pc EXCEPT ![p] = point]
      BY <2>2 DEF Refuse, GotoSame, Goto
    <3>2. \A q \in Procs : /\ sched'[q].timers = sched[q].timers
                           /\ sched'[q].timer = sched[q].timer
      BY <2>2, StartedIs, LeasedIs, PlainFacts, TypeFacts DEF Refuse
    <3>3. QED
      BY <2>1, <3>1, <3>2, QuietStep
  <2>3. CASE ~Refuse(p)
    <3>1. Abandoned /\ UNCHANGED <<tries, sched>>
      BY <1>6, <2>3 DEF Look
    <3>2. PICK point \in {"take", "rTake"} : pc' = [pc EXCEPT ![p] = point]
      BY <1>6, <2>3 DEF Look, GotoSame, Goto
    <3>3. Holders = {}
      BY <2>1, <3>1, HolderFacts, LeaseAssumption DEF Abandoned, Holders
    <3>4. QED
      BY <2>1, <3>1, <3>2, <3>3, WorkStep
  <2>4. QED
    BY <2>2, <2>3
<1>7. CASE Take(p)
  <2>1. /\ UNCHANGED <<renewers, renewing, turns>> /\ Judging(p) /\ fd' = {}
    BY <1>7 DEF Take, RemoveDir, Judging, At
  <2>2. Holders = {} /\ renewing = {} /\ \A q \in Procs : Judging(q) => q = p
    BY <2>1 DEF Turned, OneAtWork
  <2>3. PICK point \in {"try", "rTry", "idle"} : pc' = [pc EXCEPT ![p] = point]
    BY <1>7 DEF Take, Refuse, GotoSame, Goto
  <2>4. \A q \in Procs : /\ sched'[q].timers = sched[q].timers
                         /\ sched'[q].timer = sched[q].timer
    <3>1. CASE Refuse(p)
      BY <3>1, StartedIs, LeasedIs, PlainFacts, TypeFacts DEF Refuse
    <3>2. CASE ~Refuse(p)
      BY <1>7, <3>2 DEF Take
    <3>3. QED
      BY <3>1, <3>2
  <2>5. QED
    BY <2>1, <2>2, <2>3, <2>4, WorkStep
<1>8. CASE Recovered(p)
  <2>1. renewers[p] = 1 /\ sched[p].timers = 0 /\ p \in Holders
    BY <1>8, PlainFacts DEF Recovered, Turned, OneHandle, Holders
  <2>2. sched'[p].timers = 0
    BY <1>8, <2>1, StartedIs, TypeFacts, PlainFacts DEF Recovered
  <2>3. /\ RemoveDir /\ pc'[p] = "try" /\ renewers'[p] = 0 /\ renewing' \subseteq renewing
        /\ \A q \in Procs \ {p} : /\ pc'[q] = pc[q] /\ sched'[q] = sched[q]
                                  /\ renewers'[q] = renewers[q]
    BY <1>8, <2>1, PlainFacts DEF Recovered, Goto
  <2>4. QED
    BY <2>1, <2>2, <2>3, EndStep
<1>9. CASE Drained(p)
  <2>1. /\ pc[p] = "drain" /\ sched[p].timers = 0 /\ renewers[p] > 0
        /\ pc' = [pc EXCEPT ![p] = "idle"]
        /\ UNCHANGED <<dir, fd, renewers, renewing>>
    BY <1>9 DEF Drained, Goto, Turned, OneHandle
  <2>2. CASE UNCHANGED sched
    BY <2>1, <2>2, QuietStep
  <2>3. CASE ~UNCHANGED sched
    <3>1. sched' = [sched EXCEPT ![p] = [sched[p] EXCEPT !.timers = @ + 1, !.timer = TRUE]]
      BY <1>9, <2>3 DEF Drained
    <3>2. sched[p].timers < MaxHandles /\ sched[p] \in Scheduler
      BY <2>1, BoundIsNat, TypeFacts
    <3>3. sched'[p].timers = 1 /\ sched'[p].timer
      <4>1. /\ [sched[p] EXCEPT !.timers = @ + 1, !.timer = TRUE].timers = sched[p].timers + 1
            /\ [sched[p] EXCEPT !.timers = @ + 1, !.timer = TRUE].timer
        BY <3>2, TimedIs
      <4>2. QED
        BY <2>1, <3>1, <4>1, PlainFacts
    <3>4. /\ \A q \in Procs \ {p} : sched'[q] = sched[q]
          /\ \A q \in Procs : (pc'[q] = pc[q] \/ q = p) /\ pc'[p] = "idle"
      BY <2>1, <3>1, PlainFacts
    <3>5. OneHandle'
      BY <2>1, <3>3, <3>4, PlainFacts DEF OneHandle, Turned
    <3>6. OneAtWork' /\ HolderOnRecord' /\ WritesOwn'
      BY <2>1, <3>4
      DEF Turned, OneAtWork, HolderOnRecord, WritesOwn, Judging, Making, Holders
    <3>7. QED
      BY <3>5, <3>6 DEF Turned
  <2>4. QED
    BY <2>2, <2>3
<1>10. CASE Stop(p)
  <2>1. /\ pc[p] = "idle" /\ UNCHANGED <<pc, renewing>> /\ StopLease(p)
        /\ sched' = [sched EXCEPT ![p] = Stopped(sched[p])]
        /\ renewers' = [renewers EXCEPT ![p] = TimersLeft(p)]
        /\ pc = [pc EXCEPT ![p] = "idle"]
    BY <1>10, PlainFacts DEF Stop, TypeOK
  <2>2. /\ sched[p] \in Scheduler /\ sched[p].timer \in BOOLEAN
        /\ sched[p].timer => sched[p].timers > 0
    BY TypeFacts, FieldsAre DEF Counted, Sound
  <2>3. Stopped(sched[p]).timers = 0 /\ ~Stopped(sched[p]).timer
    <3>1. /\ sched[p].timers \in Nat
          /\ sched[p].timers > 0 => sched[p].timers = 1 /\ sched[p].timer
      BY PlainFacts DEF Turned, OneHandle
    <3>2. (IF sched[p].timer THEN sched[p].timers - 1 ELSE sched[p].timers) = 0
      BY <2>2, <3>1
    <3>3. QED
      BY <3>2 DEF Stopped
  <2>4. CASE sched[p].lease = "holder"
    <3>1. renewers[p] = 1 /\ p \in Holders
      BY <2>4, PlainFacts DEF Counted, Sound, Turned, OneHandle, Holders
    <3>2. RemoveDir /\ TimersLeft(p) = 0
      BY <2>1, <2>4, <3>1 DEF StopLease, TimersLeft
    <3>3. /\ sched'[p].timers = 0 /\ renewers'[p] = 0 /\ pc'[p] = "idle"
          /\ \A q \in Procs \ {p} : /\ pc'[q] = pc[q] /\ sched'[q] = sched[q]
                                    /\ renewers'[q] = renewers[q]
      BY <2>1, <2>3, <3>2, PlainFacts
    <3>4. QED
      BY <2>1, <3>1, <3>2, <3>3, EndStep
  <2>5. CASE sched[p].lease # "holder"
    <3>1. UNCHANGED <<dir, fd, renewers>>
      BY <2>1, <2>5, TypeFacts DEF StopLease, TimersLeft
    <3>2. /\ sched'[p].timers = 0 /\ \A q \in Procs \ {p} : sched'[q] = sched[q]
      BY <2>1, <2>3, PlainFacts
    <3>3. OneHandle'
      BY <2>1, <3>1, <3>2 DEF OneHandle, Turned
    <3>4. QED
      BY <2>1, <3>1, <3>3
      DEF Turned, OneAtWork, HolderOnRecord, WritesOwn, Judging, Making, Holders
  <2>6. QED
    BY <2>4, <2>5
<1>11. CASE Shutdown(p) \/ Crash(p)
  <2>1. /\ pc'[p] = "off" /\ sched'[p].timers = 0 /\ renewers'[p] = 0
        /\ \A q \in Procs \ {p} : /\ pc'[q] = pc[q] /\ sched'[q] = sched[q]
                                  /\ renewers'[q] = renewers[q]
        /\ renewing' = renewing \ {p} /\ renewing' \subseteq renewing
    BY <1>11, NewIs, PlainFacts DEF Shutdown, Crash, Gone
  <2>2. CASE Shutdown(p) /\ sched[p].lease = "holder"
    <3>1. p \in Holders
      BY <2>2 DEF Counted, Sound, Holders
    <3>2. RemoveDir
      BY <2>2 DEF Shutdown
    <3>3. QED
      BY <2>1, <3>1, <3>2, EndStep
  <2>3. CASE ~(Shutdown(p) /\ sched[p].lease = "holder")
    <3>1. LeaveDir(p)
      BY <1>11, <2>3 DEF Shutdown, Crash
    <3>2. QED
      BY <2>1, <3>1, EndStep
  <2>4. QED
    BY <2>2, <2>3
<1>12. CASE RenewOpens(p)
  <2>1. /\ p \in Holders /\ dir.present /\ renewing = {} /\ renewing' = {p}
        /\ UNCHANGED <<pc, tries, sched, renewers>>
        /\ \A q \in Procs : ~Judging(q)
    BY <1>12 DEF RenewOpens, Holders, Undisturbed, Judging, Making
  <2>2. /\ dir'.present /\ dir'.owner = NoProc /\ fd' = fd \cup {<<p, "renew">>}
    BY <1>12, <2>1, TypeFacts DEF RenewOpens, OpenOwner, Directory
  <2>3. Holders = {p} /\ Holders' = Holders
    BY <2>1, HolderFacts DEF Holders
  <2>4. OneAtWork'
    BY <2>1 DEF OneAtWork, Judging, Making
  <2>5. HolderOnRecord'
    BY <2>1, <2>2, <2>3 DEF HolderOnRecord
  <2>6. WritesOwn'
    BY <2>1, <2>2, <2>3 DEF WritesOwn, Turned, Judging, Making
  <2>7. OneHandle'
    BY <2>1 DEF OneHandle, Turned
  <2>8. QED
    BY <2>4, <2>5, <2>6, <2>7 DEF Turned
<1>13. CASE RenewFills(p)
  <2>1. /\ p \in renewing /\ renewing' = {} /\ fd' = fd \ {<<p, "renew">>}
        /\ UNCHANGED <<pc, tries, sched, renewers, turns>>
        /\ \A q \in Procs : ~Judging(q)
    BY <1>13, PlainFacts DEF RenewFills, FillOwner, Turned, OneAtWork
  <2>2. /\ dir'.present = dir.present
        /\ dir'.owner = IF <<p, "renew">> \in fd THEN p ELSE dir.owner
    BY <1>13, TypeFacts DEF RenewFills, FillOwner, Directory
  <2>3. Holders' = Holders
    BY <2>1 DEF Holders
  <2>4. OneAtWork'
    BY <2>1 DEF OneAtWork, Judging, Making
  <2>5. HolderOnRecord'
    <3> SUFFICES ASSUME NEW q \in Holders PROVE dir'.present /\ dir'.owner = q
      BY <2>1, <2>3 DEF HolderOnRecord
    <3>1. q \in Procs
      BY DEF Holders
    <3>2. CASE <<p, "renew">> \in fd
      <4>1. p \in Holders
        BY <3>2 DEF Turned, WritesOwn
      <4>2. QED
        BY <2>2, <3>2, <4>1, HolderFacts
    <3>3. CASE <<p, "renew">> \notin fd
      <4>1. q # p
        BY <2>1, <3>3 DEF Turned, HolderOnRecord
      <4>2. q \notin renewing
        BY <2>1, <4>1 DEF Turned, OneAtWork
      <4>3. QED
        BY <2>2, <3>3, <4>2 DEF Turned, HolderOnRecord
    <3>4. QED
      BY <3>2, <3>3
  <2>6. WritesOwn'
    BY <2>1, <2>2, <2>3 DEF WritesOwn, Turned, Judging, Making
  <2>7. OneHandle'
    BY <2>1 DEF OneHandle, Turned
  <2>8. QED
    BY <2>4, <2>5, <2>6, <2>7 DEF Turned
<1>14. CASE Rescan(p) \/ RescanEnds(p)
  BY <1>14
  DEF Rescan, RescanEnds, Turned, OneAtWork, HolderOnRecord, WritesOwn,
      OneHandle, Judging, Making, Holders
<1>15. QED
  BY <1>1, <1>2, <1>3, <1>4, <1>5, <1>6, <1>7, <1>8, <1>9, <1>10, <1>11, <1>12,
     <1>13, <1>14
  DEF Step, Acquire

LEMMA InTurnsAlways == Spec => []InTurns
<1>1. Init => InTurns
  <2> SUFFICES ASSUME Init PROVE Turned
    BY DEF InTurns
  <2>1. QED
    BY NewIs
    DEF Init, Turned, OneAtWork, HolderOnRecord, WritesOwn, OneHandle,
        Judging, Making, Holders
<1>2. Typed /\ InTurns /\ [Next]_vars => InTurns'
  <2> SUFFICES ASSUME Typed, InTurns, [Next]_vars, turns' PROVE Turned'
    BY DEF InTurns
  <2>1. turns /\ Turned
    BY TurnsEnd DEF InTurns
  <2>2. CASE Age
    <3>1. dir'.present = dir.present /\ dir'.owner = dir.owner
          /\ UNCHANGED <<fd, pc, sched, renewers, renewing>>
      BY <2>2, TypeFacts DEF Age, Typed, TypeOK, Directory
    <3>2. QED
      BY <2>1, <3>1
      DEF Turned, OneAtWork, HolderOnRecord, WritesOwn, OneHandle,
          Judging, Making, Holders
  <2>3. CASE UNCHANGED vars
    BY <2>1, <2>3
    DEF vars, Turned, OneAtWork, HolderOnRecord, WritesOwn, OneHandle,
        Judging, Making, Holders
  <2>4. QED
    BY <2>1, <2>2, <2>3, Steps, TurnedStep DEF Typed
<1>3. QED
  BY <1>1, <1>2, TypedAlways, PTL DEF Spec

(* While sessions take turns one of them polls unasked, and the lease names *)
(* it: whoever else reads the trackers was told to by /factory rescan.      *)
THEOREM UnaskedPollIsAloneAlways == Spec => []UnaskedPollIsAlone
<1>1. Typed /\ InTurns => UnaskedPollIsAlone
  <2> SUFFICES ASSUME Typed, InTurns, turns
               PROVE  /\ \A p, q \in Scheduled : p = q
                      /\ \A p \in Scheduled : dir.present /\ (dir.owner = p \/ p \in renewing)
    BY DEF UnaskedPollIsAlone, AtMostOneUnasked, UnaskedIsOnRecord
  <2>1. Scheduled \subseteq Holders
    BY DEF Scheduled, Holders, InTurns, Turned, OneHandle
  <2>2. /\ \A p, q \in Holders : p = q
        /\ \A p \in Holders : dir.present /\ (dir.owner = p \/ p \in renewing)
    BY HolderFacts DEF Typed, InTurns
  <2>3. QED
    BY <2>1, <2>2
<1>2. QED
  BY <1>1, TypedAlways, InTurnsAlways, PTL

(* And one of them holds the lease, whatever its commands do.               *)
THEOREM OneHolderAlways == Spec => []AtMostOneHolder
<1>1. Typed /\ InTurns => AtMostOneHolder
  BY HolderFacts DEF Typed, InTurns, AtMostOneHolder, OneHolder
<1>2. QED
  BY <1>1, TypedAlways, InTurnsAlways, PTL

-----------------------------------------------------------------------------
(* Who is in the abstract lock: a session enters by the return of its       *)
(* acquire and leaves by a stop, the end of its recovery or its own.        *)
InLock == IF turns THEN Holders ELSE {}

(* Until two sessions meet, the lease implements the abstract lock.         *)
THEOREM LeaseRefinesMutex == Spec => ImplementsMutex
<1>1. Init => Lock!Init
  BY DEF Init, Lock!Init, Holders
<1>2. Typed /\ InTurns /\ InTurns' /\ [Next]_vars => [Lock!Next]_InLock
  <2> SUFFICES ASSUME Typed, InTurns, InTurns', [Next]_vars PROVE [Lock!Next]_InLock
    OBVIOUS
  <2>1. CASE ~turns
    BY <2>1, TurnsEnd DEF InLock
  <2>2. CASE turns
    <3> USE <2>2 DEF Typed, InTurns, InLock
    <3>1. \A c, d \in Holders : c = d
      BY HolderFacts
    <3>2. ASSUME Holders' \subseteq Holders PROVE [Lock!Next]_InLock
      <4>1. CASE InLock' = InLock
        BY <4>1
      <4>2. CASE InLock' # InLock
        <5>1. InLock' \subseteq Holders
          BY <3>2
        <5>2. PICK c \in Holders : c \notin InLock'
          BY <4>2, <5>1
        <5>3. Holders = {c} /\ InLock' = Holders \ {c} /\ c \in Procs
          BY <3>1, <5>1, <5>2 DEF Holders
        <5>4. QED
          BY <5>3 DEF Lock!Next, Lock!Leave
      <4>3. QED
        BY <4>1, <4>2
    <3>3. ASSUME NEW p \in Procs, Step(p) PROVE [Lock!Next]_InLock
      <4>1. CASE AcquireReturns(p)
        <5>1. /\ Judging(p) /\ renewers' = [renewers EXCEPT ![p] = renewers[p] + 1]
              /\ UNCHANGED turns
          BY <4>1 DEF AcquireReturns, Judging, Making, At
        <5>2. Holders = {}
          BY <5>1 DEF Turned, OneAtWork
        <5>3. Holders' = {p}
          BY <5>1, <5>2, PlainFacts DEF Holders
        <5>4. QED
          BY <5>1, <5>2, <5>3 DEF Lock!Next, Lock!Enter
      <4>2. CASE ~AcquireReturns(p)
        <5>1. CASE renewers' = renewers
          BY <3>2, <5>1 DEF Holders
        <5>2. CASE Recovered(p) \/ Stop(p) \/ Shutdown(p) \/ Crash(p)
          <6>1. \A q \in Procs \ {p} : renewers'[q] = renewers[q]
            BY <5>2, PlainFacts DEF Recovered, Stop, Shutdown, Crash, Gone
          <6>2. renewers'[p] \in {0, renewers[p], renewers[p] - 1}
            BY <5>2, PlainFacts DEF Recovered, Stop, TimersLeft, Shutdown, Crash, Gone
          <6>3. \A q \in Procs : renewers'[q] > 0 => renewers[q] > 0
            BY <6>1, <6>2, PlainFacts
          <6>4. QED
            BY <3>2, <6>3 DEF Holders
        <5>3. QED
          BY <3>3, <4>2, <5>1, <5>2
          DEF Step, Acquire, SessionStart, TryMkdir, AcquireOpens, Look, Take,
              Drained, Start, RenewOpens, RenewFills, Rescan, RescanEnds
      <4>3. QED
        BY <4>1, <4>2
    <3>4. CASE Age \/ UNCHANGED vars
      <4>1. Holders' = Holders
        BY <3>4 DEF Age, vars, Holders
      <4>2. QED
        BY <3>2, <4>1
    <3>5. QED
      BY <3>3, <3>4, Steps
  <2>3. QED
    BY <2>1, <2>2
<1>3. QED
  BY <1>1, <1>2, TypedAlways, InTurnsAlways, PTL
  DEF Spec, ImplementsMutex, Lock!Spec, InLock
=============================================================================
