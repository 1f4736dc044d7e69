---------------------------- MODULE MCQueueClaims ----------------------------
(***************************************************************************)
(* QueueClaims for TLC.                                                     *)
(***************************************************************************)
EXTENDS QueueClaims, TLC

CONSTANTS t1, c1, c2

OneTicket == {t1}
TwoCallers == {c1, c2}
Interchangeable == Permutations(TwoCallers)
=============================================================================
