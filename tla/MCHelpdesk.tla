----------------------------- MODULE MCHelpdesk -----------------------------
(* Instances of Helpdesk for TLC. *)
EXTENDS Helpdesk, TLC

(* Neither requests nor students are told apart; no property is a liveness property. *)
HelpdeskSymmetry == Permutations(Requests) \cup Permutations(Students)
=============================================================================
