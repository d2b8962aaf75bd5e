-------------------------- MODULE MCOrderPayments --------------------------
(* Instances of OrderPayments for TLC. *)
EXTENDS OrderPayments, TLC

(* Every order buys the same course for the same student. *)
SameCourse == [o \in Orders |-> CHOOSE e \in Enrollments : TRUE]

RequestSymmetry == Permutations(Workers)
=============================================================================
