---------------------------- MODULE MCUpdateLock ----------------------------
(* Two writers and a reader, each in a process of its own.                 *)
EXTENDS UpdateLock, TLC

CONSTANTS p1, p2, p3, w1, w2, r1

OneEach == (w1 :> p1) @@ (w2 :> p2) @@ (r1 :> p3)
=============================================================================
