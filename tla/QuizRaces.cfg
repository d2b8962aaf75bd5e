\* Two overlapping requests of the student, a teacher who edits and deletes the quiz.
SPECIFICATION Spec
CONSTANTS
  Attempts = {a1, a2, a3}
  Workers = {w1, w2}
  NoAttempt = NoAttempt
  Sheets = {blank, right}
  Blank = blank
  Settings <- TwoTeachers
  Grace = 0
  MaxClock = 2
  MaxOptions = 4
  Points = {2}
SYMMETRY StudentSymmetry
INVARIANTS TypeOK OneOpenAttempt RecordIsGraded AutoGradesSaved AttemptsBounded KeyHelpsNoLaterStart GradingIsFair
PROPERTIES GradedOnce CountedAttemptsKept
