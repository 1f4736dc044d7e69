----------------------------- MODULE MCApprovals -----------------------------
(***************************************************************************)
(* An instance of Approvals for TLC: two guards, a local and a remote call. *)
(***************************************************************************)
EXTENDS Approvals, TLC

CONSTANTS w1, w2, rm, push, r1, t1, t2

Perms == Permutations({w1, w2}) \cup Permutations({t1, t2})
=============================================================================
