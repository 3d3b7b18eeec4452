--------------------------- MODULE MCDistRuntime ---------------------------
(* Instances of DistRuntime for TLC: each process has one worker, and one   *)
(* process serves the requests.                                             *)
EXTENDS DistRuntime, TLC

CONSTANTS p1, p2, w1, w2, u1

MCHome == (w1 :> p1) @@ (w2 :> p2) @@ (u1 :> p1)

Symmetry == Permutations(Tasks)
=============================================================================
