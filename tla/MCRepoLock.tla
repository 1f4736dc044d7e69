----------------------------- MODULE MCRepoLock -----------------------------
(***************************************************************************)
(* RepoLock for TLC: three processes, one of them with two calls.           *)
(***************************************************************************)
EXTENDS RepoLock, TLC

CONSTANTS c1, c2, c3, c4, p1, p2, p3

ThreeProcs   == {p1, p2, p3}
FourCallers  == {c1, c2, c3, c4}
TwoTogether  == c1 :> p1 @@ c2 :> p1 @@ c3 :> p2 @@ c4 :> p3
=============================================================================
