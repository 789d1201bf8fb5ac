---------------------------- MODULE MCSolverLoop ----------------------------
(***************************************************************************)
(* An instance of SolverLoop for TLC: two worlds that need one to four     *)
(* iterations, limits of none, fewer and as many as some of them need, a   *)
(* poll window that does not divide the largest limit.                     *)
(***************************************************************************)
EXTENDS SolverLoopInv

CONSTANTS w1, w2

TwoWorlds == {w1, w2}
Limits3 == {0, 1, 3}
=============================================================================
