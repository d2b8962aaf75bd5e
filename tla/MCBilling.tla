----------------------------- MODULE MCBilling -----------------------------
(* Instances of Billing for TLC. *)
EXTENDS Billing, TLC

(* The first user makes every order but the last. *)
TwoBuyers == [o \in Orders |-> IF o = "order3" THEN "other" ELSE "user"]

(* Requests are not told apart and no property is a liveness property. *)
RequestSymmetry == Permutations(Requests)
=============================================================================
