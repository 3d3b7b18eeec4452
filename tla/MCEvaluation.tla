---------------------------- MODULE MCEvaluation ----------------------------
(* Instances of Evaluation for TLC. *)
EXTENDS Evaluation, TLC

Symmetry == Permutations(Cases) \cup Permutations(Workers)
=============================================================================
