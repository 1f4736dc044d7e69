-------------------------------- MODULE Mutex --------------------------------
(***************************************************************************)
(* What a lock promises: one caller at a time is inside.  The directory     *)
(* locks of src/workspace/lock.ts and src/scheduler/lease.ts are measured   *)
(* against it.                                                              *)
(***************************************************************************)
CONSTANT Callers
VARIABLE holders    \* the callers that are inside

Init == holders = {}

Enter(c) == holders = {} /\ holders' = {c}

(* A caller leaves by itself or dies inside.                                *)
Leave(c) == c \in holders /\ holders' = holders \ {c}

Next == \E c \in Callers : Enter(c) \/ Leave(c)

Spec == Init /\ [][Next]_holders
=============================================================================
