--------------------------- MODULE MCQuizAttempts ---------------------------
(* Instances of QuizAttempts for TLC. *)
EXTENDS QuizAttempts, QuizGrading, TLC

(* A time limit that comes and goes, with one attempt; one attempt or two with a *)
(* cooldown between them, in unlimited time.                                     *)
TwoTeachers ==
  {{[limit |-> l, max |-> 1, cooldown |-> 0] : l \in {0, 1}},
   {[limit |-> 0, max |-> m, cooldown |-> 2] : m \in {1, 2}}}

(* Requests are not told apart and no property is a liveness property. *)
StudentSymmetry == Permutations(Workers)

(* Whatever attempt has been submitted, the way it was drawn up and graded is fair  *)
(* (buildAttemptSnapshot, readResponses and gradeAttempt, src/src/lib/quiz-grading). *)
GradingIsFair == Taken # {} => QuestionsAreFair /\ MisplacingIsFair /\ AttemptsAreFair
=============================================================================
