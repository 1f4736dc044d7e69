------------------------------- MODULE MCLease -------------------------------
(***************************************************************************)
(* Lease for TLC: two sessions, each of which may end and come back.        *)
(***************************************************************************)
EXTENDS Lease

CONSTANTS p1, p2

TwoProcs == {p1, p2}
OneProc  == {p1}
=============================================================================
