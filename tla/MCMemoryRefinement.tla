------------------------- MODULE MCMemoryRefinement -------------------------
(* Instances of MemoryRefinement for TLC.                                  *)
EXTENDS MemoryRefinement, TLC
CONSTANTS s1, f1, f2, x1, x2
AllSimilar == {{a, b} : a, b \in {s1, f1, f2}}
\* One execution that succeeded after a failed attempt, one that failed.
TwoExecutions == x1 :> {s1, f1} @@ x2 :> {f2}
=============================================================================
