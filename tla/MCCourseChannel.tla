-------------------------- MODULE MCCourseChannel --------------------------
(* Instances of CourseChannel for TLC. *)
EXTENDS CourseChannel, TLC

RequestSymmetry == Permutations(Workers)

(* The student was not removed before: a row that is out comes about by a
   removal of this behaviour. *)
NotYetRemovedInit == Init /\ row.state # "out"
NotYetRemovedSpec == NotYetRemovedInit /\ [][Next]_vars
=============================================================================
