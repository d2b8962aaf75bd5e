---------------------------- MODULE MCCompletion ----------------------------
(* Instances of Completion for TLC. *)
EXTENDS Completion, TLC

(* Requests are not told apart, and no property is a liveness property. *)
RequestSymmetry == Permutations(Requests)
=============================================================================
