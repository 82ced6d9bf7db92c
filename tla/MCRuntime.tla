------------------------------ MODULE MCRuntime ------------------------------
(* Runtime with three scopes and two procedure registers. *)
EXTENDS Runtime

CONSTANTS root, s1, s2, p1, p2

MCScope == {root, s1, s2}
MCProc  == {p1, p2}
=============================================================================
