--------------------------- MODULE MCCourseReview ---------------------------
(* Instances of CourseReview for TLC. *)
EXTENDS CourseReview, TLC

(* Requests are not told apart, and no property is a liveness property. *)
RequestSymmetry == Permutations(Requests)
=============================================================================
