--------------------------- MODULE RepoLockProofs ---------------------------
(***************************************************************************)
(* What is proved of RepoLock, for any callers and processes: exclusion     *)
(* until a process dies, and exclusion with crashes, as an implementation   *)
(* of Mutex, until two callers judge the lock at a time.                    *)
(***************************************************************************)
EXTENDS RepoLock, TLAPS

(* The steps of one caller.                                                 *)
Step(c) == Call(c) \/ Acquire(c) \/ GiveUp(c) \/ Release(c)

LEMMA Steps ==
  ASSUME [Next]_vars
  PROVE  \/ \E c \in Callers : Step(c)
         \/ Age
         \/ \E p \in Procs : Crash(p)
         \/ UNCHANGED vars
  BY DEF Next, Step

(* What a directory is when it has just been made or removed.               *)
LEMMA NewDirectories ==
  /\ Fresh \in Directory /\ Fresh.present /\ ~Fresh.old /\ Fresh.owner = NoProc
  /\ Absent \in Directory /\ ~Absent.present /\ ~Absent.old
  BY DEF Fresh, Absent, Directory

(* What it is when its owner has been written.                              *)
LEMMA Owned ==
  ASSUME TypeOK, NEW c \in Callers, WriteOwner(c), dir.present
  PROVE  /\ dir' \in Directory /\ dir'.present /\ dir'.owner = HomeOf[c]
         /\ dir'.old => dir.old /\ dir.owner # NoProc
         /\ pc' = [pc EXCEPT ![c] = "hold"]
  BY LockAssumption DEF WriteOwner, Goto, TypeOK, Directory

(* dir, pc, saw and up keep their types, whatever the callers do.           *)
THEOREM TypeCorrect == Spec => []TypeOK
<1>1. Init => TypeOK
  BY LockAssumption DEF Init, TypeOK, Directory, Absent, Points
<1>2. TypeOK /\ [Next]_vars => TypeOK'
  <2> SUFFICES ASSUME TypeOK, [Next]_vars PROVE TypeOK'
    OBVIOUS
  <2>1. ASSUME NEW c \in Callers, Step(c) PROVE TypeOK'
    <3>1. CASE Call(c)
      BY <3>1 DEF Call, Goto, TypeOK, Points
    <3>2. CASE Mkdir(c)
      BY <3>2, NewDirectories DEF Mkdir, Goto, TypeOK, Points
    <3>3. CASE WriteOwner(c)
      <4>1. CASE dir.present
        BY <3>3, <4>1, Owned DEF WriteOwner, TypeOK, Points
      <4>2. CASE ~dir.present
        BY <3>3, <4>2 DEF WriteOwner, Goto, TypeOK, Points
      <4>3. QED
        BY <4>1, <4>2
    <3>4. CASE ReadOwner(c)
      BY <3>4 DEF ReadOwner, Goto, TypeOK, Points, Directory
    <3>5. CASE ReadAge(c)
      BY <3>5 DEF ReadAge, Goto, TypeOK, Points
    <3>6. CASE TakeOver(c) \/ Release(c)
      BY <3>6, NewDirectories DEF TakeOver, Release, Goto, TypeOK, Points
    <3>7. CASE Retry(c) \/ GiveUp(c)
      BY <3>7 DEF Retry, GiveUp, Goto, TypeOK, Points
    <3>8. QED
      BY <2>1, <3>1, <3>2, <3>3, <3>4, <3>5, <3>6, <3>7 DEF Step, Acquire
  <2>2. CASE Age
    BY <2>2 DEF Age, TypeOK, Directory
  <2>3. ASSUME NEW p \in Procs, Crash(p) PROVE TypeOK'
    BY <2>3 DEF Crash, TypeOK, Points
  <2>4. CASE UNCHANGED vars
    BY <2>4 DEF vars, TypeOK
  <2>5. QED
    BY <2>1, <2>2, <2>3, <2>4, Steps
<1>3. QED
  BY <1>1, <1>2, PTL DEF Spec

-----------------------------------------------------------------------------
(* Nobody acts for a dead process.                                          *)
Alive == \A c \in Callers : pc[c] # "idle" => HomeOf[c] \in up

(* A caller that has read the owner and then finds the directory old has    *)
(* read the owner of that directory: no directory ages while it decides.    *)
SawThatOwner ==
  \A c \in Callers : pc[c] = "age" /\ dir.old => saw[c] = dir.owner

(* A caller between mkdir and the write of its owner.                       *)
MadeFresh ==
  \A c \in Callers : pc[c] = "owner" =>
    dir.present /\ dir.owner = NoProc /\ ~dir.old

(* At most one caller has made the directory that is there.                 *)
Inside(c) == pc[c] \in {"owner", "hold"}
OneInside == \A c, d \in Callers : Inside(c) /\ Inside(d) => c = d

Base == /\ TypeOK /\ Alive /\ SawThatOwner
        /\ MadeFresh /\ OnRecord /\ OneInside

(* Who is about to take a directory over takes it from nobody.              *)
NobodyRobbed ==
  \A c \in Callers : pc[c] = "take" =>
    dir.present /\ \A d \in Callers : ~Inside(d)

LEMMA BaseFacts ==
  ASSUME Base
  PROVE  /\ dir \in Directory /\ pc \in [Callers -> Points]
         /\ saw \in [Callers -> Procs \cup {NoProc}]
         /\ \A c \in Callers : Inside(c) => dir.present
  BY DEF Base, TypeOK, MadeFresh, OnRecord, Holding, Inside

(* A step by which the directory stays and nobody gets inside keeps Base.   *)
LEMMA StillBase ==
  ASSUME Base, TypeOK', UNCHANGED <<dir, up>>, NEW c \in Callers,
         NEW p \in Points \ {"owner", "hold"}, Goto(c, p),
         HomeOf[c] \in up, p = "age" => saw'[c] = dir.owner,
         \A d \in Callers \ {c} : saw'[d] = saw[d]
  PROVE  Base'
  BY BaseFacts
  DEF Base, TypeOK, Goto, Alive, SawThatOwner, MadeFresh, OnRecord,
      Holding, OneInside, Inside

(* Nobody who is not robbed is driven out: Base is kept.                    *)
LEMMA BaseStep ==
  ASSUME ~Slow, Base, NobodyRobbed, [Next]_vars, TypeOK'
  PROVE  Base'
<1> USE LockAssumption, BaseFacts
<1>1. ASSUME NEW c \in Callers, Step(c) PROVE Base'
  <2>1. CASE Call(c) \/ Retry(c) \/ GiveUp(c) \/ ReadOwner(c) \/ ReadAge(c)
    <3>1. HomeOf[c] \in up
      BY <2>1 DEF Base, Alive, Call, Retry, GiveUp, ReadOwner, ReadAge
    <3>2. CASE Call(c) \/ Retry(c)
      BY <3>1, <3>2, StillBase DEF Call, Retry, Points
    <3>3. CASE GiveUp(c)
      BY <3>1, <3>3, StillBase DEF GiveUp, Points
    <3>4. CASE ReadOwner(c)
      BY <3>1, <3>4, StillBase DEF ReadOwner, Points
    <3>5. CASE ReadAge(c)
      BY <3>1, <3>5, StillBase DEF ReadAge, Points
    <3>6. QED
      BY <2>1, <3>2, <3>3, <3>4, <3>5
  <2>2. CASE Mkdir(c)
    <3>1. CASE dir.present
      <4>1. HomeOf[c] \in up
        BY <2>2 DEF Base, Alive, Mkdir
      <4>2. QED
        BY <2>2, <3>1, <4>1, StillBase DEF Mkdir, Points
    <3>2. CASE ~dir.present
      <4>1. \A d \in Callers : ~Inside(d)
        BY <3>2
      <4>2. dir' = Fresh /\ pc' = [pc EXCEPT ![c] = "owner"]
            /\ pc[c] = "try" /\ UNCHANGED <<saw, up>>
        BY <2>2, <3>2 DEF Mkdir, Goto
      <4>3. QED
        BY <4>1, <4>2, NewDirectories
        DEF Base, Alive, SawThatOwner, MadeFresh, OnRecord, Holding,
            OneInside, Inside
    <3>3. QED
      BY <3>1, <3>2
  <2>3. CASE WriteOwner(c)
    <3>1. dir.present /\ Inside(c) /\ dir.owner = NoProc /\ ~dir.old
      BY <2>3 DEF Base, MadeFresh, WriteOwner, Inside
    <3>2. dir'.present /\ dir'.owner = HomeOf[c] /\ ~dir'.old
          /\ pc' = [pc EXCEPT ![c] = "hold"] /\ UNCHANGED <<saw, up>>
      BY <2>3, <3>1, Owned DEF Base, WriteOwner
    <3>3. \A d \in Callers : Inside(d) => d = c
      BY <3>1 DEF Base, OneInside
    <3>4. QED
      BY <3>1, <3>2, <3>3
      DEF Base, Alive, SawThatOwner, MadeFresh, OnRecord, Holding,
          OneInside, Inside
  <2>4. CASE TakeOver(c) \/ Release(c)
    <3>1. \A d \in Callers : Inside(d) => d = c /\ Release(c)
      BY <2>4 DEF Base, OneInside, NobodyRobbed, Inside, TakeOver, Release
    <3>2. /\ dir' = Absent /\ UNCHANGED <<saw, up>> /\ pc[c] # "idle"
          /\ pc' = [pc EXCEPT ![c] = IF Release(c) THEN "idle" ELSE "try"]
      BY <2>4 DEF TakeOver, Release, Goto
    <3>3. \A d \in Callers : ~Inside(d)'
      BY <3>1, <3>2 DEF Inside
    <3>4. QED
      BY <3>2, <3>3, NewDirectories
      DEF Base, Alive, SawThatOwner, MadeFresh, OnRecord, Holding,
          OneInside, Inside
  <2>5. QED
    BY <1>1, <2>1, <2>2, <2>3, <2>4 DEF Step, Acquire
<1>2. CASE Age
  <2>1. /\ dir'.present /\ dir'.owner = dir.owner /\ UNCHANGED <<pc, saw, up>>
        /\ \A c \in Callers : pc[c] \notin {"owner", "age", "take"}
    BY <1>2 DEF Age, Directory
  <2>2. QED
    BY <2>1
    DEF Base, Alive, SawThatOwner, MadeFresh, OnRecord, Holding,
        OneInside, Inside
<1>3. ASSUME NEW p \in Procs, Crash(p) PROVE Base'
  <2>1. /\ UNCHANGED <<dir, saw>>
        /\ \A c \in Callers : pc'[c] # "idle" =>
             pc'[c] = pc[c] /\ HomeOf[c] # p
        /\ up' = up \ {p}
    BY <1>3 DEF Crash
  <2>2. QED
    BY <2>1
    DEF Base, Alive, SawThatOwner, MadeFresh, OnRecord, Holding,
        OneInside, Inside
<1>4. CASE UNCHANGED vars
  BY <1>4
  DEF vars, Base, Alive, SawThatOwner, MadeFresh, OnRecord, Holding,
      OneInside, Inside
<1>5. QED
  BY <1>1, <1>2, <1>3, <1>4, Steps

LEMMA InitBase ==
  ASSUME Init PROVE Base /\ \A c \in Callers : pc[c] = "idle"
  BY LockAssumption, NewDirectories
  DEF Init, Base, TypeOK, Points, Alive, SawThatOwner, MadeFresh,
      OnRecord, Holding, OneInside, Inside

LEMMA BaseExcludes ==
  ASSUME Base PROVE MutualExclusion
  BY DEF Base, OneInside, MutualExclusion, Holding, Inside

-----------------------------------------------------------------------------
(* Without a crash nobody takes over, because a directory that is there has *)
(* a live maker: one about to write its owner, or on record.                *)
Calm == /\ \A c \in Callers : pc[c] # "take"
        /\ dir.present => \E c \in Callers : Inside(c)

LEMMA CalmStep ==
  ASSUME ~Slow, Base, Calm, Base', [Next]_vars, up' = up
  PROVE  Calm'
<1> USE LockAssumption, BaseFacts
<1>1. ASSUME NEW c \in Callers, ReadAge(c) PROVE Calm'
  <2>1. ~Stale(c)
    <3> SUFFICES ASSUME Stale(c) PROVE FALSE
      OBVIOUS
    <3>1. dir.present /\ dir.old /\ dir.owner \notin up
      BY <1>1 DEF Stale, ReadAge, Base, SawThatOwner
    <3>2. PICK d \in Callers : Inside(d)
      BY <3>1 DEF Calm
    <3>3. pc[d] = "hold" /\ HomeOf[d] \in up
      BY <3>1, <3>2 DEF Inside, Base, MadeFresh, Alive
    <3>4. QED
      BY <3>1, <3>3 DEF Base, OnRecord, Holding
  <2>2. QED
    BY <1>1, <2>1 DEF ReadAge, Goto, Calm, Inside
<1>2. ASSUME NEW c \in Callers, Step(c), ~ReadAge(c) PROVE Calm'
  <2>1. CASE Mkdir(c)
    BY <2>1 DEF Mkdir, Goto, Calm, Inside
  <2>2. CASE WriteOwner(c)
    <3>1. pc' = [pc EXCEPT ![c] = "hold"]
      BY <2>2 DEF WriteOwner, Goto, Base, MadeFresh
    <3>2. QED
      BY <3>1 DEF Calm, Inside
  <2>3. CASE Release(c)
    BY <2>3, NewDirectories DEF Release, Goto, Calm
  <2>4. CASE Call(c) \/ Retry(c) \/ GiveUp(c) \/ ReadOwner(c) \/ TakeOver(c)
    BY <2>4 DEF Call, Retry, GiveUp, ReadOwner, TakeOver, Goto, Calm, Inside
  <2>5. QED
    BY <1>2, <2>1, <2>2, <2>3, <2>4 DEF Step, Acquire
<1>3. CASE Age
  <2>1. dir.present /\ UNCHANGED pc
    BY <1>3 DEF Age
  <2>2. QED
    BY <2>1 DEF Calm, Inside
<1>4. ASSUME NEW p \in Procs, Crash(p) PROVE Calm'
  <2>1. UNCHANGED <<dir, pc>>
    <3>1. p \in up /\ up' = up \ {p}
      BY <1>4 DEF Crash
    <3>2. QED
      BY <3>1
  <2>2. QED
    BY <2>1 DEF Calm, Inside
<1>5. CASE UNCHANGED vars
  BY <1>5 DEF vars, Calm, Inside
<1>6. QED
  BY <1>1, <1>2, <1>3, <1>4, <1>5, Steps

(* However calls interleave, two are inside only after a process has died:  *)
(* the pid in owner.json and the age of an ownerless directory suffice, as  *)
(* long as no call sleeps for staleMs between two of its steps.             *)
THEOREM ExclusiveWithoutCrash ==
  ~Slow => (Spec => []ExclusiveUntilACrash)
<1> SUFFICES ASSUME ~Slow PROVE Spec => []ExclusiveUntilACrash
  OBVIOUS
<1> DEFINE I == up = Procs => Base /\ Calm
<1>1. Init => I
  <2> SUFFICES ASSUME Init PROVE Base /\ Calm
    OBVIOUS
  <2>1. QED
    BY InitBase, NewDirectories DEF Init, Calm
<1>2. TypeOK /\ TypeOK' /\ I /\ [Next]_vars => I'
  <2> SUFFICES ASSUME TypeOK, TypeOK', I, [Next]_vars, up' = Procs
               PROVE  (Base /\ Calm)'
    OBVIOUS
  <2>1. up' \subseteq up /\ up \subseteq Procs
    BY Steps DEF TypeOK, Step, Acquire, Call, Mkdir, WriteOwner, ReadOwner,
                 ReadAge, TakeOver, Retry, GiveUp, Release, Age, Crash, vars
  <2>2. up' = up /\ Base /\ Calm
    BY <2>1
  <2>3. NobodyRobbed
    BY <2>2 DEF Calm, NobodyRobbed
  <2>4. Base'
    BY <2>2, <2>3, BaseStep
  <2>5. QED
    BY <2>2, <2>4, CalmStep
<1>3. I => ExclusiveUntilACrash
  BY BaseExcludes DEF ExclusiveUntilACrash
<1>4. QED
  BY <1>1, <1>2, <1>3, TypeCorrect, PTL DEF Spec

-----------------------------------------------------------------------------
(* Callers that take turns: one at most decides over a directory, so that   *)
(* the directory it decided about is the one it takes.                      *)
Deciding(c) == pc[c] \in {"age", "take"}
OneDecides == \A c, d \in Callers : Deciding(c) /\ Deciding(d) => c = d

Turned == Base /\ NobodyRobbed /\ OneDecides

LEMMA TurnedStep ==
  ASSUME ~Slow, turns', Turned, Base', [Next]_vars
  PROVE  Turned'
<1> USE LockAssumption, BaseFacts DEF Turned
<1>1. ASSUME NEW c \in Callers, ReadAge(c) PROVE Turned'
  <2>1. ASSUME Stale(c) PROVE dir.present /\ \A d \in Callers : ~Inside(d)
    <3>1. dir.present /\ dir.old /\ dir.owner \notin up
      BY <1>1, <2>1 DEF Stale, ReadAge, Base, SawThatOwner
    <3>2. ASSUME NEW d \in Callers, Inside(d) PROVE FALSE
      <4>1. pc[d] = "hold" /\ HomeOf[d] \in up
        BY <3>1, <3>2 DEF Inside, Base, MadeFresh, Alive
      <4>2. QED
        BY <3>1, <4>1 DEF Base, OnRecord, Holding
    <3>3. QED
      BY <3>1, <3>2
  <2>2. OneDecides'
    BY <1>1 DEF ReadAge, Goto, OneDecides, Deciding
  <2>3. \A d \in Callers : pc[d] # "take"
    BY <1>1 DEF ReadAge, OneDecides, Deciding
  <2>4. NobodyRobbed'
    BY <1>1, <2>1, <2>3 DEF ReadAge, Goto, NobodyRobbed, Inside
  <2>5. QED
    BY <2>2, <2>4
<1>2. ASSUME NEW c \in Callers, Step(c), ~ReadAge(c) PROVE Turned'
  <2>1. CASE Mkdir(c)
    BY <2>1 DEF Mkdir, Goto, NobodyRobbed, OneDecides, Deciding, Inside
  <2>2. CASE WriteOwner(c) \/ Release(c)
    <3>1. \A d \in Callers : pc[d] # "take"
      BY <2>2 DEF WriteOwner, Release, NobodyRobbed, Inside
    <3>2. pc' = [pc EXCEPT ![c] = "hold"] \/ pc' = [pc EXCEPT ![c] = "idle"]
      BY <2>2 DEF WriteOwner, Release, Goto
    <3>3. QED
      BY <3>1, <3>2 DEF NobodyRobbed, OneDecides, Deciding
  <2>3. CASE TakeOver(c)
    <3>1. \A d \in Callers \ {c} : pc[d] # "take"
      BY <2>3 DEF TakeOver, OneDecides, Deciding
    <3>2. QED
      BY <2>3, <3>1 DEF TakeOver, Goto, NobodyRobbed, OneDecides, Deciding
  <2>4. CASE ReadOwner(c)
    BY <2>4 DEF ReadOwner, Goto, NobodyRobbed, OneDecides, Deciding, Inside
  <2>5. CASE Call(c) \/ Retry(c) \/ GiveUp(c)
    BY <2>5
    DEF Call, Retry, GiveUp, Goto, NobodyRobbed, OneDecides, Deciding, Inside
  <2>6. QED
    BY <1>2, <2>1, <2>2, <2>3, <2>4, <2>5 DEF Step, Acquire
<1>3. CASE Age
  <2>1. UNCHANGED pc /\ dir'.present
    BY <1>3 DEF Age, Directory
  <2>2. QED
    BY <2>1 DEF NobodyRobbed, OneDecides, Deciding, Inside
<1>4. ASSUME NEW p \in Procs, Crash(p) PROVE Turned'
  <2>1. /\ UNCHANGED dir
        /\ \A c \in Callers : pc'[c] # "idle" => pc'[c] = pc[c]
    BY <1>4 DEF Crash
  <2>2. QED
    BY <2>1 DEF NobodyRobbed, OneDecides, Deciding, Inside
<1>5. CASE UNCHANGED vars
  BY <1>5 DEF vars, NobodyRobbed, OneDecides, Deciding, Inside
<1>6. QED
  BY <1>1, <1>2, <1>3, <1>4, <1>5, Steps

(* Turns once missed stay missed.                                           *)
LEMMA TurnsEnd ==
  ASSUME [Next]_vars, turns' PROVE turns
  BY Steps DEF Step, Acquire, Call, Mkdir, WriteOwner, ReadOwner, ReadAge,
               TakeOver, Retry, GiveUp, Release, Age, Crash, vars

InTurns == turns => Turned

LEMMA TurnedAlways ==
  ASSUME ~Slow PROVE Spec => []InTurns
<1>1. Init => InTurns
  <2> SUFFICES ASSUME Init PROVE Turned
    BY DEF InTurns
  <2>1. QED
    BY InitBase DEF Turned, NobodyRobbed, OneDecides, Deciding
<1>2. InTurns /\ TypeOK' /\ [Next]_vars => InTurns'
  <2> SUFFICES ASSUME InTurns, TypeOK', [Next]_vars, turns' PROVE Turned'
    BY DEF InTurns
  <2>1. Turned
    BY TurnsEnd DEF InTurns
  <2>2. QED
    BY <2>1, BaseStep, TurnedStep DEF Turned
<1>3. QED
  BY <1>1, <1>2, TypeCorrect, PTL DEF Spec

(* With crashes, one caller at a time is inside until two callers judge the *)
(* lock at a time.                                                          *)
THEOREM ExclusiveByTurns ==
  ~Slow => (Spec => []ExclusiveInTurns)
<1> SUFFICES ASSUME ~Slow PROVE Spec => []ExclusiveInTurns
  OBVIOUS
<1>1. InTurns => ExclusiveInTurns
  BY BaseExcludes DEF InTurns, Turned, ExclusiveInTurns
<1>2. QED
  BY <1>1, TurnedAlways, PTL

(* And who is inside is on record.                                          *)
THEOREM OnRecordByTurns ==
  ~Slow => (Spec => []HolderIsOnRecord)
<1> SUFFICES ASSUME ~Slow PROVE Spec => []HolderIsOnRecord
  OBVIOUS
<1>1. InTurns => HolderIsOnRecord
  BY DEF InTurns, Turned, Base, HolderIsOnRecord
<1>2. QED
  BY <1>1, TurnedAlways, PTL

(* Until then the lock directory implements the abstract lock: a caller     *)
(* enters when it has written its owner and leaves by the release or by its *)
(* death.                                                                   *)
InLock == IF turns THEN Holding ELSE {}

THEOREM LockRefinesMutex ==
  ~Slow => (Spec => ImplementsMutex)
<1> SUFFICES ASSUME ~Slow PROVE Spec => ImplementsMutex
  OBVIOUS
<1>1. Init => Lock!Init
  BY DEF Init, Lock!Init, Holding
<1>2. InTurns /\ InTurns' /\ [Next]_vars => [Lock!Next]_InLock
  <2> SUFFICES ASSUME InTurns, InTurns', [Next]_vars PROVE [Lock!Next]_InLock
    OBVIOUS
  <2>1. CASE ~turns
    <3>1. ~turns'
      BY <2>1, TurnsEnd
    <3>2. QED
      BY <2>1, <3>1 DEF InLock
  <2>2. CASE turns
    <3> USE <2>2, BaseFacts DEF Turned, InTurns, InLock
    <3>1. \A c, d \in Callers : Inside(c) /\ Inside(d) => c = d
      BY DEF Base, OneInside
    <3>2. ASSUME NEW c \in Callers, Holding = {}, Holding' = {c}, turns'
          PROVE  Lock!Next
      BY <3>2 DEF Lock!Next, Lock!Enter
    <3>3. ASSUME NEW c \in Callers, c \in Holding, InLock' = Holding \ {c}
          PROVE  Lock!Next
      BY <3>3 DEF Lock!Next, Lock!Leave
    <3>4. ASSUME Holding' \subseteq Holding PROVE [Lock!Next]_InLock
      <4>1. CASE InLock' = InLock
        BY <4>1
      <4>2. CASE InLock' # InLock
        <5>1. InLock' \subseteq Holding
          BY <3>4
        <5>2. PICK c \in Callers : c \in Holding /\ c \notin InLock'
          BY <4>2, <5>1 DEF Holding
        <5>3. Holding = {c} /\ InLock' = Holding \ {c}
          BY <3>1, <5>1, <5>2 DEF Holding, Inside
        <5>4. QED
          BY <3>3, <5>2, <5>3
      <4>3. QED
        BY <4>1, <4>2
    <3>5. ASSUME NEW c \in Callers, Step(c) PROVE [Lock!Next]_InLock
      <4>1. CASE WriteOwner(c)
        <5>1. pc[c] = "owner" /\ pc' = [pc EXCEPT ![c] = "hold"] /\ turns'
          BY <4>1 DEF WriteOwner, Goto, Base, MadeFresh
        <5>2. Holding = {} /\ Holding' = {c}
          BY <3>1, <5>1 DEF Holding, Inside
        <5>3. QED
          BY <3>2, <5>1, <5>2
      <4>2. CASE Release(c)
        <5>1. Holding' \subseteq Holding
          BY <4>2 DEF Release, Goto, Holding
        <5>2. QED
          BY <3>4, <5>1
      <4>3. CASE ~WriteOwner(c) /\ ~Release(c)
        <5>1. Holding' = Holding
          BY <3>5, <4>3
          DEF Step, Acquire, Call, Mkdir, ReadOwner, ReadAge, TakeOver, Retry,
              GiveUp, Goto, Holding
        <5>2. QED
          BY <3>4, <5>1
      <4>4. QED
        BY <4>1, <4>2, <4>3
    <3>6. ASSUME NEW p \in Procs, Crash(p) PROVE [Lock!Next]_InLock
      <4>1. Holding' \subseteq Holding
        BY <3>6 DEF Crash, Holding
      <4>2. QED
        BY <3>4, <4>1
    <3>7. CASE Age \/ UNCHANGED vars
      <4>1. Holding' = Holding
        BY <3>7 DEF Age, vars, Holding
      <4>2. QED
        BY <3>4, <4>1
    <3>8. QED
      BY <3>5, <3>6, <3>7, Steps
  <2>3. QED
    BY <2>1, <2>2
<1>3. QED
  BY <1>1, <1>2, TurnedAlways, PTL DEF Spec, ImplementsMutex, Lock!Spec, InLock
=============================================================================
