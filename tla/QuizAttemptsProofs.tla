------------------------- MODULE QuizAttemptsProofs -------------------------
(***************************************************************************)
(* Theorems about QuizAttempts, for any number of attempts, requests and   *)
(* answer sheets and any clock, and about QuizGrading, for any questions   *)
(* and whatever a form may post to them.                                   *)
(***************************************************************************)
EXTENDS QuizAttempts, QuizGrading, FiniteSetTheorems, WellFoundedInduction, TLAPS

(* A request past its first query works on an attempt that exists, unless  *)
(* the quiz has been deleted under it.                                     *)
OnAttempt == {"readSaved", "finalize", "commitSave"}
TargetOK ==
  \A w \in Workers : req[w].step \in OnAttempt =>
    /\ req[w].attempt \in Attempts
    /\ quiz.state # "DELETED" => req[w].attempt \in Taken

DeletedIsEmpty == quiz.state = "DELETED" => Taken = {}

(* A request that auto-submits an attempt with a deadline found it over,   *)
(* and what it read is among the sheets the attempt may be graded on.      *)
Timed(a) == IsOpen(a) /\ attempts[a].deadlineAt # NoDeadline
Over(a) == clock > attempts[a].deadlineAt + Grace
AutoOK ==
  \A w \in Workers :
    /\ req[w].step = "readSaved" /\ Timed(req[w].attempt) => Over(req[w].attempt)
    /\ req[w].step = "finalize" /\ req[w].auto /\ Timed(req[w].attempt) =>
         Over(req[w].attempt) /\ req[w].sheet \in kept[req[w].attempt]

SavedIsKept == \A a \in Attempts \ Submitted : answers[a] \in kept[a]

(* deleteQuiz goes on to delete only when it saw no attempt, and nobody    *)
(* else deletes the quiz.                                                  *)
DeleterOK ==
  /\ ~ deleter.found => deleter.seen = {}
  /\ deleter.step = "decided" => quiz.state # "DELETED"

IInv ==
  /\ TypeOK
  /\ TargetOK
  /\ DeletedIsEmpty
  /\ OneOpenAttempt
  /\ RecordIsGraded
  /\ AutoOK
  /\ SavedIsKept
  /\ AutoGradesSaved
  /\ DeleterOK

-----------------------------------------------------------------------------
(* Types *)

(* A setting is a limit, a number of attempts and a cooldown. *)
LEMMA TimeLimitTypes ==
  /\ TimeLimits \subseteq Nat /\ TimeLimits # {}
  /\ \A choices \in Settings : \A s \in choices :
       s.limit \in TimeLimits /\ s.max \in Nat \ {0} /\ s.cooldown \in Nat
<1>1. \A s \in UNION Settings : s \in [limit: Nat, max: Nat \ {0}, cooldown: Nat]
  BY QuizAssumption
<1> QED
  BY <1>1, QuizAssumption DEF TimeLimits

(* Nothing is running at first, and the rows are empty. *)
LEMMA InitIInv == Init => IInv
<1> SUFFICES ASSUME Init PROVE IInv
  OBVIOUS
<1> USE QuizAssumption
<1>1. TypeOK
  <2>1. NoRow \in AttemptRow
    BY DEF NoRow, AttemptRow, Times, NoDeadline
  <2>2. Idle.limit \in TimeLimits
    BY TimeLimitTypes DEF Idle
  <2>3. req \in [Workers -> [step: Steps, starting: BOOLEAN, attempt: Attempts \cup {NoAttempt},
                             sheet: Sheets, auto: BOOLEAN, limit: TimeLimits, now: Times,
                             barred: BOOLEAN]]
    BY <2>2 DEF Init, Idle, Steps, Times
  <2>4. quiz \in QuizRow
    <3>1. PICK choices \in Settings : \E s \in choices :
            quiz = [limit |-> s.limit, max |-> s.max, cooldown |-> s.cooldown,
                    most |-> s.max, choices |-> choices, state |-> "LIVE"]
      BY DEF Init
    <3>2. PICK s \in choices :
            quiz = [limit |-> s.limit, max |-> s.max, cooldown |-> s.cooldown,
                    most |-> s.max, choices |-> choices, state |-> "LIVE"]
      BY <3>1
    <3>3. s.limit \in TimeLimits /\ s.max \in Nat \ {0} /\ s.cooldown \in Nat
      BY TimeLimitTypes
    <3> QED
      BY <3>2, <3>3 DEF QuizRow
  <2> QED
    BY <2>1, <2>3, <2>4 DEF Init, TypeOK, Times, NotDeleting
<1>2. Taken = {}
  BY DEF Init, Taken, NoRow
<1>3. Open = {} /\ Submitted = {}
  BY <1>2 DEF Taken, Open, Submitted, IsOpen, IsSubmitted
<1>4. \A w \in Workers : req[w].step = "idle"
  BY DEF Init, Idle
<1> QED
  BY <1>1, <1>2, <1>3, <1>4
     DEF IInv, TargetOK, OnAttempt, DeletedIsEmpty, OneOpenAttempt, RecordIsGraded, AutoOK,
         SavedIsKept, AutoGradesSaved, DeleterOK, Init, NotDeleting

(* What closing and opening an attempt make of its row. *)
LEMMA RowTypes ==
  ASSUME NEW row \in AttemptRow, NEW time \in Times, NEW auto \in BOOLEAN, NEW sheet \in Sheets,
         NEW deadline \in Nat
  PROVE  /\ [row EXCEPT !.status = "SUBMITTED", !.submittedAt = time, !.auto = auto,
                        !.graded = sheet] \in AttemptRow
         /\ [row EXCEPT !.status = "IN_PROGRESS", !.startedAt = time,
                        !.deadlineAt = deadline] \in AttemptRow
BY DEF AttemptRow

(* Every action keeps the types; TargetOK gives the rows it indexes. *)
LEMMA TypeStep ==
  ASSUME TypeOK, TargetOK, [Next]_vars
  PROVE  TypeOK'
<1> USE QuizAssumption, TimeLimitTypes DEF TypeOK, Times
<1> DEFINE Request == [step: Steps, starting: BOOLEAN, attempt: Attempts \cup {NoAttempt},
                       sheet: Sheets, auto: BOOLEAN, limit: TimeLimits, now: 0..MaxClock,
                       barred: BOOLEAN]
<1>0. Idle \in Request /\ req \in [Workers -> Request]
  BY DEF Idle, Steps
<1>1. CASE Tick
  BY <1>1 DEF Tick, rowVars
<1>2. CASE Teacher
  <2>1. NoRow \in AttemptRow
    BY DEF NoRow, AttemptRow, NoDeadline
  <2>2. ASSUME NEW s \in quiz.choices, UpdateQuizSettings(s)
        PROVE  TypeOK'
    <3>1. s.limit \in TimeLimits /\ s.max \in Nat \ {0} /\ s.cooldown \in Nat
      BY DEF QuizRow
    <3>2. quiz' \in QuizRow
      BY <2>2, <3>1 DEF UpdateQuizSettings, QuizRow
    <3>3. req' \in [Workers -> Request]
      BY <1>0, <2>2 DEF UpdateQuizSettings
    <3> QED
      BY <2>2, <3>2, <3>3 DEF UpdateQuizSettings, rowVars
  <2>3. CASE CountAttempts
    BY <2>3 DEF CountAttempts, rowVars, Taken
  <2>4. CASE ArchiveQuiz
    BY <2>4 DEF ArchiveQuiz, rowVars, QuizRow, NotDeleting
  <2>5. CASE RemoveQuiz
    BY <2>1, <2>5 DEF RemoveQuiz, QuizRow, NotDeleting
  <2> QED
    BY <1>2, <2>2, <2>3, <2>4, <2>5 DEF Teacher
<1>3. ASSUME NEW w \in Workers, Begin(w)
      PROVE  TypeOK'
  <2>1. CASE StartAnew(w)
    BY <1>0, <2>1 DEF StartAnew, Goto, rowVars, Steps
  <2>2. ASSUME NEW a \in Attempts, NEW starting \in BOOLEAN, FindExpired(w, a, starting)
        PROVE  TypeOK'
    BY <1>0, <2>2 DEF FindExpired, Goto, rowVars, Steps
  <2>3. ASSUME NEW a \in Attempts, NEW sheet \in Sheets,
               NEW next \in {"commitSave", "finalize"}, Send(w, a, sheet, next)
        PROVE  TypeOK'
    BY <1>0, <2>3 DEF Send, Goto, rowVars, Steps
  <2> QED
    BY <1>3, <2>1, <2>2, <2>3 DEF Begin
<1>4. ASSUME NEW w \in Workers, Continue(w)
      PROVE  TypeOK'
  <2>1. CASE CommitSave(w)
    BY <1>0, <2>1 DEF CommitSave, Done, Goto, At, TargetOK, OnAttempt
  <2>2. CASE ReadSaved(w)
    <3>1. answers[req[w].attempt] \in Sheets
      BY <2>2 DEF ReadSaved, At, TargetOK, OnAttempt
    <3>2. [req[w] EXCEPT !.step = "finalize", !.sheet = answers[req[w].attempt], !.auto = TRUE]
            \in Request
      BY <1>0, <3>1 DEF Steps
    <3>3. req' \in [Workers -> Request]
      BY <1>0, <2>2, <3>2 DEF ReadSaved
    <3> QED
      BY <2>2, <3>3 DEF ReadSaved, rowVars
  <2>3. CASE Finalize(w)
    <3>1. req' \in [Workers -> Request]
      BY <1>0, <2>3 DEF Finalize, Goto, Steps
    <3> DEFINE a == req[w].attempt
    <3>2. a \in Attempts
      BY <2>3 DEF Finalize, At, TargetOK, OnAttempt
    <3>3. [attempts[a] EXCEPT !.status = "SUBMITTED", !.submittedAt = clock,
                              !.auto = req[w].auto, !.graded = req[w].sheet] \in AttemptRow
      BY <1>0, <3>2, RowTypes
    <3>4. attempts' \in [Attempts -> AttemptRow]
      <4>1. CASE IsOpen(a)
        <5>1. attempts' = [attempts EXCEPT ![a] =
                [attempts[a] EXCEPT !.status = "SUBMITTED", !.submittedAt = clock,
                                    !.auto = req[w].auto, !.graded = req[w].sheet]]
          BY <2>3, <3>2, <4>1 DEF Finalize, Grade
        <5> QED
          BY <3>2, <3>3, <5>1
      <4>2. CASE ~ IsOpen(a)
        BY <2>3, <4>2 DEF Finalize, Grade
      <4> QED
        BY <4>1, <4>2
    <3>5. answers' \in [Attempts -> Sheets]
      BY <1>0, <2>3, <3>2 DEF Finalize, Grade
    <3> QED
      BY <2>3, <3>1, <3>4, <3>5 DEF Finalize
  <2>4. CASE ReadQuiz(w)
    <3> DEFINE Reads(b) == [req[w] EXCEPT !.step = "checkEligible", !.limit = quiz.limit,
                                          !.barred = b]
    <3>1. NoneLeft \in BOOLEAN
      BY DEF NoneLeft
    <3>2. \A b \in BOOLEAN : Reads(b) \in Request
      BY <1>0 DEF Steps, QuizRow
    <3>3. Done(w) \/ req' = [req EXCEPT ![w] = Reads(NoneLeft)]
      BY <1>0, <2>4 DEF ReadQuiz
    <3> HIDE DEF Reads
    <3>4. req' \in [Workers -> Request]
      BY <1>0, <3>1, <3>2, <3>3 DEF Done, Goto
    <3> QED
      BY <2>4, <3>4 DEF ReadQuiz, rowVars
  <2>5. CASE CheckEligible(w)
    BY <1>0, <2>5 DEF CheckEligible, Done, Goto, rowVars, Steps
  <2>6. CASE CreateNothing(w)
    BY <1>0, <2>6 DEF CreateNothing, Done, Goto, rowVars
  <2>7. ASSUME NEW a \in Attempts, CreateAttempt(w, a)
        PROVE  TypeOK'
    <3> DEFINE deadline == QuizDeadline(req[w].now, req[w].limit)
    <3>1. req[w].now \in 0..MaxClock /\ req[w].limit \in Nat
      BY <1>0
    <3>2. deadline \in Nat
      BY <3>1 DEF QuizDeadline, NoDeadline
    <3> HIDE DEF deadline
    <3>3. [attempts[a] EXCEPT !.status = "IN_PROGRESS", !.startedAt = req[w].now,
                              !.deadlineAt = deadline] \in AttemptRow
      BY <3>1, <3>2, RowTypes
    <3>4. attempts' \in [Attempts -> AttemptRow]
      BY <2>7, <3>3 DEF CreateAttempt, deadline
    <3>5. req' \in [Workers -> Request]
      BY <1>0, <2>7 DEF CreateAttempt, Done, Goto
    <3> QED
      BY <2>7, <3>4, <3>5 DEF CreateAttempt
  <2> QED
    BY <1>4, <2>1, <2>2, <2>3, <2>4, <2>5, <2>6, <2>7 DEF Continue
<1>5. CASE UNCHANGED vars
  BY <1>5 DEF vars
<1> QED
  BY <1>1, <1>2, <1>3, <1>4, <1>5 DEF Next

-----------------------------------------------------------------------------
(* The invariant *)

(* A step that writes no row of an attempt can disturb only what relates   *)
(* the requests, the quiz and the teacher to the rows.                     *)
LEMMA RowsUntouched ==
  ASSUME IInv, UNCHANGED rowVars,
         TypeOK', TargetOK', DeletedIsEmpty', AutoOK', DeleterOK'
  PROVE  IInv'
<1>1. Open' = Open /\ Submitted' = Submitted
  BY DEF rowVars, Open, Submitted, IsOpen, IsSubmitted
<1> QED
  BY <1>1 DEF IInv, rowVars, OneOpenAttempt, RecordIsGraded, SavedIsKept, AutoGradesSaved

(* The teacher's actions that leave the attempts alone, and the clock. *)
LEMMA OutsideStep ==
  ASSUME IInv, TypeOK',
         Tick \/ (\E s \in quiz.choices : UpdateQuizSettings(s)) \/ CountAttempts \/ ArchiveQuiz
  PROVE  IInv'
<1> USE QuizAssumption
<1>0. UNCHANGED rowVars /\ clock' >= clock
  <2>1. clock \in Nat
    BY DEF IInv, TypeOK, Times
  <2>2. clock' = clock \/ clock' = clock + 1
    BY DEF Tick, UpdateQuizSettings, CountAttempts, ArchiveQuiz
  <2>3. UNCHANGED rowVars
    BY DEF Tick, UpdateQuizSettings, CountAttempts, ArchiveQuiz, rowVars
  <2> QED
    BY <2>1, <2>2, <2>3
<1>1. \A w \in Workers : /\ req'[w].step = req[w].step /\ req'[w].attempt = req[w].attempt
                          /\ req'[w].auto = req[w].auto /\ req'[w].sheet = req[w].sheet
  <2>1. \/ req' = req
        \/ req' = [w \in Workers |-> [req[w] EXCEPT !.barred = FALSE]]
    BY DEF Tick, CountAttempts, ArchiveQuiz, UpdateQuizSettings
  <2>2. \A w \in Workers :
          req[w] \in [step: Steps, starting: BOOLEAN, attempt: Attempts \cup {NoAttempt},
                      sheet: Sheets, auto: BOOLEAN, limit: TimeLimits, now: Times,
                      barred: BOOLEAN]
    BY DEF IInv, TypeOK
  <2> QED
    BY <2>1, <2>2
<1>2. UNCHANGED quiz.state \/ ArchiveQuiz
  BY DEF Tick, UpdateQuizSettings, CountAttempts, IInv, TypeOK, QuizRow
<1>3. (quiz.state = "DELETED")' <=> quiz.state = "DELETED"
  BY <1>2 DEF ArchiveQuiz, IInv, TypeOK, QuizRow, DeleterOK
<1>4. DeletedIsEmpty'
  BY <1>0, <1>3 DEF IInv, DeletedIsEmpty, Taken, rowVars
<1>5. TargetOK'
  BY <1>0, <1>1, <1>3 DEF IInv, TargetOK, Taken, rowVars
<1>6. AutoOK'
  <2> SUFFICES ASSUME NEW w \in Workers, req[w].step \in OnAttempt,
                      Over(req[w].attempt), Timed(req[w].attempt)
               PROVE  Over(req[w].attempt)'
    BY <1>0, <1>1 DEF IInv, AutoOK, Timed, Over, IsOpen, rowVars, OnAttempt
  <2> QED
    BY <1>0, <1>1 DEF Over, rowVars, IInv, TypeOK, Times, TargetOK, AttemptRow
<1>7. DeleterOK'
  <2>1. CASE CountAttempts
    BY <2>1 DEF CountAttempts, DeleterOK
  <2>2. CASE ArchiveQuiz
    BY <2>2 DEF ArchiveQuiz, NotDeleting, DeleterOK
  <2>3. CASE UNCHANGED deleter
    BY <1>3, <2>3 DEF IInv, DeleterOK
  <2> QED
    BY <2>1, <2>2, <2>3 DEF Tick, UpdateQuizSettings
<1> QED
  BY <1>0, <1>4, <1>5, <1>6, <1>7, RowsUntouched

(* A request that only moves on, having written nothing. *)
LEMMA RequestMoves ==
  ASSUME IInv, TypeOK', UNCHANGED <<clock, quiz, rowVars, deleter>>,
         NEW w \in Workers, NEW r, req' = [req EXCEPT ![w] = r],
         r.step \in OnAttempt =>
           r.attempt \in Attempts /\ (quiz.state # "DELETED" => r.attempt \in Taken),
         r.step = "readSaved" /\ Timed(r.attempt) => Over(r.attempt),
         r.step = "finalize" /\ r.auto /\ Timed(r.attempt) =>
           Over(r.attempt) /\ r.sheet \in kept[r.attempt]
  PROVE  IInv'
<1>1. req'[w] = r /\ \A v \in Workers : v # w => req'[v] = req[v]
  BY DEF IInv, TypeOK
<1>2. DeletedIsEmpty' /\ DeleterOK'
  BY DEF IInv, DeletedIsEmpty, DeleterOK, Taken, rowVars
<1>3. TargetOK'
  <2>1. Taken' = Taken
    BY DEF Taken, rowVars
  <2> QED
    BY <1>1, <2>1 DEF IInv, TargetOK
<1>4. AutoOK'
  <2> SUFFICES ASSUME NEW v \in Workers
               PROVE  /\ req'[v].step = "readSaved" /\ Timed(req'[v].attempt) => Over(req'[v].attempt)
                      /\ req'[v].step = "finalize" /\ req'[v].auto /\ Timed(req'[v].attempt) =>
                           Over(req'[v].attempt) /\ req'[v].sheet \in kept[req'[v].attempt]
    BY DEF AutoOK, Timed, Over, IsOpen, rowVars
  <2> QED
    BY <1>1 DEF IInv, AutoOK
<1> QED
  BY <1>2, <1>3, <1>4, RowsUntouched

(* The steps of a request that write no row. *)
LEMMA QuietStep ==
  ASSUME IInv, TypeOK', NEW w \in Workers,
         Begin(w) \/ ReadSaved(w) \/ ReadQuiz(w) \/ CheckEligible(w) \/ CreateNothing(w)
  PROVE  IInv'
<1> USE QuizAssumption
<1>1. CASE StartAnew(w)
  BY <1>1, RequestMoves DEF StartAnew, Goto, Idle, OnAttempt
<1>2. ASSUME NEW a \in Attempts, NEW starting \in BOOLEAN, FindExpired(w, a, starting)
      PROVE  IInv'
  <2>1. a \in Taken
    BY <1>2 DEF FindExpired, IsOpen, Taken
  <2>2. Timed(a) => Over(a)
    BY <1>2 DEF FindExpired, Timed, Over, IsPastDeadline, DeadlineOf
  <2> QED
    BY <1>2, <2>1, <2>2, RequestMoves DEF FindExpired, Goto, Idle
<1>3. ASSUME NEW a \in Attempts, NEW sheet \in Sheets,
             NEW next \in {"commitSave", "finalize"}, Send(w, a, sheet, next)
      PROVE  IInv'
  <2>1. a \in Taken
    BY <1>3 DEF Send, IsOpen, Taken
  <2> QED
    BY <1>3, <2>1, RequestMoves DEF Send, Goto, Idle
<1>4. CASE ReadSaved(w)
  <2> DEFINE a == req[w].attempt
             r == [req[w] EXCEPT !.step = "finalize", !.sheet = answers[a], !.auto = TRUE]
  <2>1. req' = [req EXCEPT ![w] = r] /\ r.step = "finalize" /\ r.attempt = a /\ r.sheet = answers[a]
    BY <1>4 DEF ReadSaved, IInv, TypeOK
  <2>2. a \in Attempts /\ (quiz.state # "DELETED" => a \in Taken)
    BY <1>4 DEF ReadSaved, At, IInv, TargetOK, OnAttempt
  <2>3. Timed(a) => Over(a) /\ answers[a] \in kept[a]
    BY <1>4, <2>2 DEF ReadSaved, At, IInv, AutoOK, SavedIsKept, Timed, IsOpen, Submitted, IsSubmitted
  <2> HIDE DEF r
  <2> QED
    BY <1>4, <2>1, <2>2, <2>3, RequestMoves DEF ReadSaved
<1>5. CASE ReadQuiz(w)
  <2>1. CASE Done(w)
    BY <1>5, <2>1, RequestMoves DEF ReadQuiz, Done, Goto, Idle, OnAttempt
  <2>2. CASE req' = [req EXCEPT ![w] = [req[w] EXCEPT !.step = "checkEligible", !.limit = quiz.limit,
                                                      !.barred = NoneLeft]]
    <3> DEFINE r == [req[w] EXCEPT !.step = "checkEligible", !.limit = quiz.limit, !.barred = NoneLeft]
    <3>1. r.step = "checkEligible"
      BY DEF IInv, TypeOK
    <3> HIDE DEF r
    <3> QED
      BY <1>5, <2>2, <3>1, RequestMoves DEF ReadQuiz, OnAttempt, r
  <2> QED
    BY <1>5, <2>1, <2>2 DEF ReadQuiz
<1>6. CASE CheckEligible(w)
  <2>1. CASE Done(w)
    BY <1>6, <2>1, RequestMoves DEF CheckEligible, Done, Goto, Idle, OnAttempt
  <2>2. CASE req' = [req EXCEPT ![w] = [req[w] EXCEPT !.step = "create", !.now = clock]]
    <3> DEFINE r == [req[w] EXCEPT !.step = "create", !.now = clock]
    <3>1. r.step = "create"
      BY DEF IInv, TypeOK
    <3> HIDE DEF r
    <3> QED
      BY <1>6, <2>2, <3>1, RequestMoves DEF CheckEligible, OnAttempt, r
  <2> QED
    BY <1>6, <2>1, <2>2 DEF CheckEligible
<1>7. CASE CreateNothing(w)
  BY <1>7, RequestMoves DEF CreateNothing, Done, Goto, Idle, OnAttempt
<1> QED
  BY <1>1, <1>2, <1>3, <1>4, <1>5, <1>6, <1>7 DEF Begin

(* A save replaces the answers of an attempt that is still open. *)
LEMMA CommitSaveStep ==
  ASSUME IInv, TypeOK', NEW w \in Workers, CommitSave(w)
  PROVE  IInv'
<1> DEFINE a == req[w].attempt
<1>1. a \in Attempts
  BY DEF CommitSave, At, IInv, TargetOK, OnAttempt
<1>2. UNCHANGED <<clock, quiz, attempts, deleter>>
  BY DEF CommitSave
<1>3. Open' = Open /\ Submitted' = Submitted /\ Taken' = Taken
  BY <1>2 DEF Open, Submitted, Taken, IsOpen, IsSubmitted
<1>4. req'[w].step = "idle" /\ \A v \in Workers : v # w => req'[v] = req[v]
  BY DEF CommitSave, Done, Goto, Idle, IInv, TypeOK
<1>5. \A b \in Attempts : b # a \/ ~ IsOpen(a) => answers'[b] = answers[b] /\ kept'[b] = kept[b]
  BY <1>1 DEF CommitSave, IInv, TypeOK
<1>6. IsOpen(a) => answers'[a] = req[w].sheet /\ req[w].sheet \in kept'[a]
  BY <1>1 DEF CommitSave, IInv, TypeOK
<1>7. Timed(a) /\ Over(a) => kept[a] \subseteq kept'[a]
  BY <1>1 DEF CommitSave, IInv, TypeOK, Timed, Over, IsPastDeadline, DeadlineOf
<1>8. TargetOK' /\ DeletedIsEmpty' /\ OneOpenAttempt' /\ DeleterOK'
  BY <1>2, <1>3, <1>4 DEF IInv, TargetOK, DeletedIsEmpty, OneOpenAttempt, DeleterOK, OnAttempt
<1>9. RecordIsGraded' /\ AutoGradesSaved'
  BY <1>2, <1>3, <1>5 DEF IInv, RecordIsGraded, AutoGradesSaved, Submitted, IsSubmitted, IsOpen
<1>10. SavedIsKept'
  BY <1>3, <1>5, <1>6 DEF IInv, SavedIsKept
<1>11. AutoOK'
  <2> SUFFICES ASSUME NEW v \in Workers, v # w
               PROVE  /\ req[v].step = "readSaved" /\ Timed(req[v].attempt) => Over(req[v].attempt)
                      /\ req[v].step = "finalize" /\ req[v].auto /\ Timed(req[v].attempt) =>
                           Over(req[v].attempt) /\ req[v].sheet \in kept'[req[v].attempt]
    BY <1>2, <1>4 DEF AutoOK, Timed, Over, IsOpen
  <2>1. req[v].step \in OnAttempt => req[v].attempt \in Attempts
    BY DEF IInv, TargetOK
  <2> QED
    BY <1>5, <1>7, <2>1 DEF IInv, AutoOK, Timed, OnAttempt
<1> QED
  BY <1>8, <1>9, <1>10, <1>11 DEF IInv

(* Grading closes an attempt that is still open, on one sheet. *)
LEMMA FinalizeStep ==
  ASSUME IInv, TypeOK', NEW w \in Workers, Finalize(w)
  PROVE  IInv'
<1> USE QuizAssumption
<1> DEFINE a == req[w].attempt
<1>1. a \in Attempts
  BY DEF Finalize, At, IInv, TargetOK, OnAttempt
<1>2. UNCHANGED <<clock, quiz, deleter, kept>>
  BY DEF Finalize
<1>3. req'[w].step \notin OnAttempt /\ \A v \in Workers : v # w => req'[v] = req[v]
  BY DEF Finalize, Goto, Idle, IInv, TypeOK, OnAttempt
<1>4. \A b \in Attempts : b # a \/ ~ IsOpen(a) => attempts'[b] = attempts[b] /\ answers'[b] = answers[b]
  BY <1>1 DEF Finalize, Grade, IInv, TypeOK
<1>5. IsOpen(a) =>
        /\ attempts'[a].status = "SUBMITTED" /\ attempts'[a].submittedAt = clock
        /\ attempts'[a].auto = req[w].auto /\ attempts'[a].graded = req[w].sheet
        /\ attempts'[a].deadlineAt = attempts[a].deadlineAt
        /\ answers'[a] = req[w].sheet
  BY <1>1 DEF Finalize, Grade, IInv, TypeOK, AttemptRow
<1>6. Taken' = Taken
  BY <1>1, <1>4, <1>5 DEF Taken, IsOpen
<1>7. Open' \subseteq Open /\ a \notin Open'
  BY <1>1, <1>4, <1>5 DEF Open, IsOpen
<1>8. TargetOK' /\ DeletedIsEmpty' /\ OneOpenAttempt' /\ DeleterOK'
  BY <1>2, <1>3, <1>6, <1>7 DEF IInv, TargetOK, DeletedIsEmpty, OneOpenAttempt, DeleterOK
<1>9. RecordIsGraded'
  BY <1>1, <1>4, <1>5 DEF IInv, RecordIsGraded, Submitted, IsSubmitted
<1>10. SavedIsKept'
  BY <1>1, <1>2, <1>4, <1>5 DEF IInv, SavedIsKept, Submitted, IsSubmitted
<1>11. AutoGradesSaved'
  <2> SUFFICES ASSUME NEW b \in Attempts, attempts'[b].status = "SUBMITTED", attempts'[b].auto,
                      attempts'[b].deadlineAt # NoDeadline
               PROVE  /\ attempts'[b].submittedAt > attempts'[b].deadlineAt + Grace
                      /\ attempts'[b].graded \in kept[b]
    BY <1>2 DEF AutoGradesSaved, Submitted, IsSubmitted
  <2>1. CASE b # a \/ ~ IsOpen(a)
    BY <1>4, <2>1 DEF IInv, AutoGradesSaved, Submitted, IsSubmitted
  <2>2. CASE b = a /\ IsOpen(a)
    <3>1. Timed(a) /\ req[w].step = "finalize" /\ req[w].auto
      BY <1>5, <2>2 DEF Timed, Finalize, At
    <3>2. Over(a) /\ req[w].sheet \in kept[a]
      BY <3>1 DEF IInv, AutoOK
    <3> QED
      BY <1>5, <2>2, <3>2 DEF Over
  <2> QED
    BY <2>1, <2>2
<1>12. AutoOK'
  <2> SUFFICES ASSUME NEW v \in Workers, v # w, req[v].step \in OnAttempt, Timed(req[v].attempt)'
               PROVE  req[v].attempt # a /\ Timed(req[v].attempt) /\ Over(req[v].attempt)' = Over(req[v].attempt)
    BY <1>2, <1>3 DEF IInv, AutoOK, OnAttempt, Timed, Over, IsOpen
  <2>1. req[v].attempt \in Attempts /\ req'[v] = req[v]
    BY <1>3 DEF IInv, TargetOK
  <2>2. req[v].attempt \in Open'
    BY <2>1 DEF Timed, Open, IsOpen
  <2> QED
    BY <1>2, <1>4, <1>7, <2>1, <2>2 DEF Timed, Over, IsOpen
<1> QED
  BY <1>8, <1>9, <1>10, <1>11, <1>12 DEF IInv

(* The lock's second look makes the attempt it creates the only open one. *)
LEMMA CreateAttemptStep ==
  ASSUME IInv, TypeOK', NEW w \in Workers, NEW a \in Attempts, CreateAttempt(w, a)
  PROVE  IInv'
<1>1. UNCHANGED <<clock, quiz, answers, deleter, kept>> /\ quiz.state # "DELETED"
  BY DEF CreateAttempt
<1>2. req'[w].step = "idle" /\ \A v \in Workers : v # w => req'[v] = req[v]
  BY DEF CreateAttempt, Done, Goto, Idle, IInv, TypeOK
<1>3. a \notin Taken /\ Open = {}
  BY DEF CreateAttempt, Taken
<1>4. attempts'[a].status = "IN_PROGRESS" /\ \A b \in Attempts : b # a => attempts'[b] = attempts[b]
  BY DEF CreateAttempt, IInv, TypeOK, AttemptRow
<1>5. Taken' = Taken \cup {a} /\ Submitted' = Submitted
  BY <1>3, <1>4 DEF Taken, Submitted, IsSubmitted
<1>6. Open' = {a}
  BY <1>3, <1>4 DEF Open, IsOpen
<1>7. TargetOK' /\ DeletedIsEmpty' /\ OneOpenAttempt' /\ DeleterOK'
  BY <1>1, <1>2, <1>5, <1>6
     DEF IInv, TargetOK, DeletedIsEmpty, OneOpenAttempt, DeleterOK, OnAttempt
<1>8. RecordIsGraded' /\ AutoGradesSaved'
  <2>1. a \notin Submitted /\ Submitted \subseteq Attempts
    BY <1>3 DEF Taken, Submitted, IsSubmitted
  <2> QED
    BY <1>1, <1>4, <1>5, <2>1 DEF IInv, RecordIsGraded, AutoGradesSaved
<1>9. SavedIsKept'
  BY <1>1, <1>5 DEF IInv, SavedIsKept
<1>10. AutoOK'
  <2> SUFFICES ASSUME NEW v \in Workers, v # w, req[v].step \in OnAttempt, Timed(req[v].attempt)'
               PROVE  FALSE
    BY <1>1, <1>2 DEF AutoOK, OnAttempt
  <2>1. req'[v] = req[v] /\ req[v].attempt \in Taken
    BY <1>1, <1>2 DEF IInv, TargetOK
  <2>2. req[v].attempt \in Open'
    BY <2>1 DEF Timed, Open, IsOpen, Taken
  <2> QED
    BY <1>3, <1>6, <2>1, <2>2
<1> QED
  BY <1>7, <1>8, <1>9, <1>10 DEF IInv

(* Deleting the quiz empties every row, so whoever still works on an *)
(* attempt finds it no longer open.                                  *)
LEMMA RemoveQuizStep ==
  ASSUME IInv, TypeOK', RemoveQuiz
  PROVE  IInv'
<1> USE QuizAssumption
<1>1. /\ attempts' = [b \in Attempts |-> NoRow] /\ answers' = [b \in Attempts |-> Blank]
      /\ kept' = [b \in Attempts |-> {Blank}] /\ UNCHANGED <<clock, req>>
      /\ deleter' = NotDeleting /\ quiz'.state = "DELETED"
  BY DEF RemoveQuiz, IInv, TypeOK, QuizRow
<1>2. Taken' = {} /\ Open' = {} /\ Submitted' = {}
  BY <1>1 DEF Taken, Open, Submitted, IsOpen, IsSubmitted, NoRow
<1>3. TargetOK'
  BY <1>1 DEF IInv, TargetOK
<1>4. AutoOK'
  BY <1>1, <1>2 DEF IInv, AutoOK, TargetOK, OnAttempt, Timed, Open
<1>5. SavedIsKept'
  BY <1>1 DEF SavedIsKept
<1> QED
  BY <1>1, <1>2, <1>3, <1>4, <1>5
     DEF IInv, DeletedIsEmpty, OneOpenAttempt, RecordIsGraded, AutoGradesSaved, DeleterOK, NotDeleting

LEMMA IndStep == IInv /\ [Next]_vars => IInv'
<1> SUFFICES ASSUME IInv, [Next]_vars PROVE IInv'
  OBVIOUS
<1>1. TypeOK'
  BY TypeStep DEF IInv
<1>2. CASE Tick
  BY <1>1, <1>2, OutsideStep
<1>3. CASE Teacher
  BY <1>1, <1>3, OutsideStep, RemoveQuizStep DEF Teacher
<1>4. ASSUME NEW w \in Workers, Begin(w)
      PROVE  IInv'
  BY <1>1, <1>4, QuietStep
<1>5. ASSUME NEW w \in Workers, Continue(w)
      PROVE  IInv'
  BY <1>1, <1>5, QuietStep, CommitSaveStep, FinalizeStep, CreateAttemptStep DEF Continue
<1>6. CASE UNCHANGED vars
  <2>1. Open' = Open /\ Submitted' = Submitted /\ Taken' = Taken
    BY <1>6 DEF vars, rowVars, Open, Submitted, Taken, IsOpen, IsSubmitted
  <2>2. TargetOK'
    BY <1>6, <2>1 DEF vars, IInv, TargetOK
  <2>3. AutoOK'
    BY <1>6 DEF vars, rowVars, IInv, AutoOK, Timed, Over, IsOpen
  <2>4. DeletedIsEmpty' /\ DeleterOK'
    BY <1>6, <2>1 DEF vars, IInv, DeletedIsEmpty, DeleterOK
  <2> QED
    BY <1>1, <1>6, <2>2, <2>3, <2>4, RowsUntouched DEF vars, rowVars
<1> QED
  BY <1>2, <1>3, <1>4, <1>5, <1>6 DEF Next

(* The inductive invariant holds in every reachable state. *)
THEOREM Inductive == Spec => []IInv
<1> QED
  BY InitIInv, IndStep, PTL DEF Spec

-----------------------------------------------------------------------------
(* What it is for *)

(* Every row, request and clock value keeps its type. *)
THEOREM TypeCorrect == Spec => []TypeOK
<1>1. IInv => TypeOK
  BY DEF IInv
<1> QED
  BY <1>1, Inductive, PTL

(* However many requests start attempts at once, one at most is in *)
(* progress (the advisory lock of startQuizAttempt).                *)
THEOREM OneOpen == Spec => []OneOpenAttempt
<1>1. IInv => OneOpenAttempt
  BY DEF IInv
<1> QED
  BY <1>1, Inductive, PTL

(* The answers on record of a submitted attempt are the graded ones: the *)
(* row lock keeps every save out once the attempt has closed.            *)
THEOREM RecordIsWhatWasGraded == Spec => []RecordIsGraded
<1>1. IInv => RecordIsGraded
  BY DEF IInv
<1> QED
  BY <1>1, Inductive, PTL

(* An auto-submit is never early, and never loses what was saved in time. *)
THEOREM AutoSubmitIsFair == Spec => []AutoGradesSaved
<1>1. IInv => AutoGradesSaved
  BY DEF IInv
<1> QED
  BY <1>1, Inductive, PTL

(* No step changes a submitted attempt or its answers, unless the quiz is *)
(* gone after it.                                                         *)
LEMMA GradedStep ==
  ASSUME IInv, [Next]_vars, NEW b \in Attempts, IsSubmitted(b), quiz'.state # "DELETED"
  PROVE  attempts'[b] = attempts[b] /\ answers'[b] = answers[b]
<1> USE DEF IInv, TypeOK
<1>1. CASE UNCHANGED <<attempts, answers>>
  BY <1>1
<1>2. CASE RemoveQuiz
  BY <1>2 DEF RemoveQuiz, QuizRow
<1>3. ASSUME NEW w \in Workers, CommitSave(w)
      PROVE  attempts'[b] = attempts[b] /\ answers'[b] = answers[b]
  BY <1>3 DEF CommitSave, IsOpen, IsSubmitted
<1>4. ASSUME NEW w \in Workers, Finalize(w)
      PROVE  attempts'[b] = attempts[b] /\ answers'[b] = answers[b]
  BY <1>4 DEF Finalize, Grade, IsOpen, IsSubmitted
<1>5. ASSUME NEW w \in Workers, NEW a \in Attempts, CreateAttempt(w, a)
      PROVE  attempts'[b] = attempts[b] /\ answers'[b] = answers[b]
  BY <1>5 DEF CreateAttempt, IsSubmitted
<1>6. CASE Tick \/ \E w \in Workers : Begin(w)
  BY <1>1, <1>6 DEF Tick, Begin, StartAnew, FindExpired, Send, rowVars
<1>7. CASE Teacher
  BY <1>1, <1>2, <1>7 DEF Teacher, UpdateQuizSettings, CountAttempts, ArchiveQuiz, rowVars
<1>8. ASSUME NEW w \in Workers, Continue(w)
      PROVE  attempts'[b] = attempts[b] /\ answers'[b] = answers[b]
  BY <1>1, <1>3, <1>4, <1>5, <1>8
     DEF Continue, ReadSaved, ReadQuiz, CheckEligible, CreateNothing, rowVars
<1>9. CASE UNCHANGED vars
  BY <1>1, <1>9 DEF vars, rowVars
<1> QED
  BY <1>6, <1>7, <1>8, <1>9 DEF Next

(* An attempt is graded once: after that nothing but the quiz's deletion *)
(* touches it, whatever saves and submits are still running.             *)
THEOREM GradedExactlyOnce == Spec => GradedOnce
<1>1. IInv /\ [Next]_vars =>
        [\A a \in Attempts :
           IsSubmitted(a) /\ quiz'.state # "DELETED"
             => attempts'[a] = attempts[a] /\ answers'[a] = answers[a]]_vars
  BY GradedStep
<1> QED
  BY <1>1, Inductive, PTL DEF Spec, GradedOnce

(* No step removes an attempt that deleteQuiz has counted. *)
LEMMA CountedStep ==
  ASSUME IInv, [Next]_vars, NEW b \in deleter.seen \cap Taken
  PROVE  attempts'[b].status # "NONE"
<1> USE DEF IInv, TypeOK
<1>0. b \in Attempts /\ attempts[b].status # "NONE"
  BY DEF Taken
<1>1. CASE UNCHANGED attempts
  BY <1>0, <1>1
<1>2. CASE RemoveQuiz
  BY <1>2 DEF RemoveQuiz, DeleterOK
<1>3. ASSUME NEW w \in Workers, Finalize(w)
      PROVE  attempts'[b].status # "NONE"
  <2>1. req[w].attempt \in Attempts
    BY <1>3 DEF Finalize, At, TargetOK, OnAttempt
  <2>2. attempts[b] \in AttemptRow /\ attempts[req[w].attempt] \in AttemptRow
    BY <1>0, <2>1
  <2>3. CASE attempts' = attempts
    BY <1>0, <2>3
  <2>4. CASE attempts' = [attempts EXCEPT ![req[w].attempt].status = "SUBMITTED",
                            ![req[w].attempt].submittedAt = clock, ![req[w].attempt].auto = req[w].auto,
                            ![req[w].attempt].graded = req[w].sheet]
    <3>1. CASE b = req[w].attempt
      <4>1. attempts'[b].status = "SUBMITTED"
        BY <1>0, <2>1, <2>2, <2>4, <3>1 DEF AttemptRow
      <4> QED
        BY <4>1
    <3>2. CASE b # req[w].attempt
      BY <1>0, <2>1, <2>4, <3>2
    <3> QED
      BY <3>1, <3>2
  <2> QED
    BY <1>3, <2>3, <2>4 DEF Finalize, Grade
<1>4. ASSUME NEW w \in Workers, NEW a \in Attempts, CreateAttempt(w, a)
      PROVE  attempts'[b].status # "NONE"
  BY <1>0, <1>4 DEF CreateAttempt
<1>5. CASE Tick \/ \E w \in Workers : Begin(w)
  BY <1>1, <1>5 DEF Tick, Begin, StartAnew, FindExpired, Send, rowVars
<1>6. CASE Teacher
  BY <1>1, <1>2, <1>6 DEF Teacher, UpdateQuizSettings, CountAttempts, ArchiveQuiz, rowVars
<1>7. ASSUME NEW w \in Workers, Continue(w)
      PROVE  attempts'[b].status # "NONE"
  BY <1>1, <1>3, <1>4, <1>7
     DEF Continue, CommitSave, ReadSaved, ReadQuiz, CheckEligible, CreateNothing, rowVars
<1>8. CASE UNCHANGED vars
  BY <1>1, <1>8 DEF vars, rowVars
<1> QED
  BY <1>5, <1>6, <1>7, <1>8 DEF Next

(* "A quiz students have taken is archived rather than deleted": an *)
(* attempt that existed when deleteQuiz counted outlives it.        *)
THEOREM CountedAreKept == Spec => CountedAttemptsKept
<1>1. IInv /\ [Next]_vars => [\A a \in deleter.seen \cap Taken : attempts'[a].status # "NONE"]_vars
  BY CountedStep
<1> QED
  BY <1>1, Inductive, PTL DEF Spec, CountedAttemptsKept

-----------------------------------------------------------------------------
(* How many attempts *)

(* The requests that may still open an attempt, should the open one close: *)
(* past getInProgressAttempt, or about to be, with an attempt to auto-     *)
(* submit that is no longer open.                                          *)
Creating == {w \in Workers : req[w].step = "create"}
Racing ==
  {w \in Workers :
     \/ req[w].step \in {"readQuiz", "checkEligible", "create"}
     \/ /\ req[w].step \in {"readSaved", "finalize"} /\ req[w].starting
        /\ req[w].attempt \notin Open}

(* While an attempt is open the request that opened it does not race, so   *)
(* that the others make up the bound: each attempt taken, and each request *)
(* that has been found eligible, counts.                                   *)
CountInv ==
  /\ Open # {} => \E w \in Workers : w \notin Racing
  /\ quiz.max <= quiz.most
  /\ Cardinality(Taken) + Cardinality(Creating) <= quiz.most + Cardinality(Workers) - 1

(* The sets that are counted are finite. *)
LEMMA CountsAreNat ==
  /\ IsFiniteSet(Taken) /\ Cardinality(Taken) \in Nat
  /\ IsFiniteSet(Submitted) /\ Cardinality(Submitted) \in Nat
  /\ IsFiniteSet(Creating) /\ Cardinality(Creating) \in Nat
  /\ Cardinality(Workers) \in Nat
  /\ Cardinality(Creating) <= Cardinality(Workers)
<1>1. Taken \in SUBSET Attempts /\ Submitted \in SUBSET Attempts /\ Creating \in SUBSET Workers
  BY DEF Taken, Submitted, Creating
<1>2. IsFiniteSet(Taken) /\ IsFiniteSet(Submitted)
  BY <1>1, FS_Subset, QuizAssumption
<1>3. IsFiniteSet(Creating) /\ Cardinality(Creating) <= Cardinality(Workers)
  BY <1>1, FS_Subset, QuizAssumption
<1> QED
  BY <1>2, <1>3, FS_CardinalityType, QuizAssumption

(* The attempts taken are the submitted ones and, at most, an open one. *)
LEMMA TakenIsClosedOrOpen ==
  ASSUME TypeOK, OneOpenAttempt
  PROVE  /\ Open = {} => Taken = Submitted
         /\ Cardinality(Taken) <= Cardinality(Submitted) + 1
         /\ Open # {} => Cardinality(Taken) = Cardinality(Submitted) + 1
<1>1. Taken = Submitted \cup Open
  BY DEF TypeOK, AttemptRow, Taken, Submitted, Open, IsOpen, IsSubmitted
<1>2. ASSUME NEW a \in Open
      PROVE  Cardinality(Taken) = Cardinality(Submitted) + 1
  <2>1. Taken = Submitted \cup {a} /\ a \notin Submitted
    BY <1>1, <1>2 DEF OneOpenAttempt, Open, Submitted, IsOpen, IsSubmitted
  <2> QED
    BY <2>1, CountsAreNat, FS_AddElement
<1>3. Open = {} => Taken = Submitted
  BY <1>1
<1> QED
  BY <1>2, <1>3, CountsAreNat

(* A step that takes no attempt and lets no request through keeps the count. *)
LEMMA CountShrinks ==
  ASSUME CountInv, quiz.most \in Nat, quiz'.most \in Nat, quiz.most <= quiz'.most,
         Taken' \subseteq Taken, Creating' \subseteq Creating
  PROVE  (Cardinality(Taken) + Cardinality(Creating) <= quiz.most + Cardinality(Workers) - 1)'
<1>1. Cardinality(Taken') <= Cardinality(Taken) /\ Cardinality(Creating') <= Cardinality(Creating)
  BY CountsAreNat, FS_Subset
<1>2. Cardinality(Taken') \in Nat /\ Cardinality(Creating') \in Nat
  BY CountsAreNat, FS_Subset, FS_CardinalityType
<1> QED
  BY <1>1, <1>2, CountsAreNat, QuizAssumption DEF CountInv

(* The clock and the teacher: only deleting the quiz touches the attempts. *)
LEMMA OutsideCount ==
  ASSUME IInv, CountInv, Tick \/ Teacher \/ UNCHANGED vars
  PROVE  CountInv'
<1>0. quiz \in QuizRow /\ quiz.most \in Nat /\ quiz.max \in Nat
  BY DEF IInv, TypeOK, QuizRow
<1>1. CASE RemoveQuiz
  <2>1. Open' = {} /\ Taken' = {} /\ Creating' = Creating
    BY <1>1 DEF RemoveQuiz, Open, Taken, IsOpen, NoRow, Creating
  <2>2. quiz'.most = quiz.most /\ quiz'.max = quiz.max
    BY <1>0, <1>1 DEF RemoveQuiz, QuizRow
  <2> QED
    BY <1>0, <2>1, <2>2, CountShrinks DEF CountInv
<1>2. CASE \E s \in quiz.choices : UpdateQuizSettings(s)
  <2>1. PICK s \in quiz.choices : UpdateQuizSettings(s)
    BY <1>2
  <2>2. UNCHANGED attempts /\ quiz'.max = s.max /\ s.max \in Nat
        /\ quiz'.most = IF s.max > quiz.most THEN s.max ELSE quiz.most
    BY <1>0, <2>1, TimeLimitTypes DEF UpdateQuizSettings, rowVars, QuizRow
  <2>3. \A w \in Workers : /\ req'[w].step = req[w].step /\ req'[w].attempt = req[w].attempt
                            /\ req'[w].starting = req[w].starting
    BY <2>1 DEF UpdateQuizSettings, IInv, TypeOK
  <2>4. Open' = Open /\ Taken' = Taken
    BY <2>2 DEF Open, Taken, IsOpen
  <2>5. Creating' = Creating /\ Racing' = Racing
    BY <2>3, <2>4 DEF Creating, Racing
  <2>6. quiz'.most \in Nat /\ quiz.most <= quiz'.most /\ quiz'.max <= quiz'.most
    BY <1>0, <2>2
  <2> QED
    BY <1>0, <2>4, <2>5, <2>6, CountShrinks DEF CountInv
<1>3. CASE Tick \/ CountAttempts \/ ArchiveQuiz \/ UNCHANGED vars
  <2>1. UNCHANGED <<attempts, req>> /\ quiz'.most = quiz.most /\ quiz'.max = quiz.max
    BY <1>0, <1>3 DEF Tick, CountAttempts, ArchiveQuiz, vars, rowVars, QuizRow
  <2>2. Open' = Open /\ Taken' = Taken /\ Creating' = Creating /\ Racing' = Racing
    BY <2>1 DEF Open, Taken, IsOpen, Creating, Racing
  <2> QED
    BY <2>1, <2>2 DEF CountInv
<1> QED
  BY <1>1, <1>2, <1>3 DEF Teacher

(* A request that is not let through, and writes no row, joins no race. *)
LEMMA QuietCount ==
  ASSUME IInv, CountInv, UNCHANGED <<attempts, quiz>>,
         NEW w \in Workers, NEW r, req' = [req EXCEPT ![w] = r],
         r.step = "create" => w \in Creating,
         Open # {} /\ r.step \in {"readQuiz", "checkEligible", "create"} => w \in Racing,
         Open # {} /\ r.step \in {"readSaved", "finalize"} /\ r.starting /\ r.attempt \notin Open
           => w \in Racing
  PROVE  CountInv'
<1>1. req'[w] = r /\ \A v \in Workers : v # w => req'[v] = req[v]
  BY DEF IInv, TypeOK
<1>2. Open' = Open /\ Taken' = Taken
  BY DEF Open, Taken, IsOpen
<1>3. Creating' \subseteq Creating
  BY <1>1 DEF Creating
<1>4. Open # {} => Racing' \subseteq Racing
  BY <1>1, <1>2 DEF Racing
<1>5. quiz.most \in Nat /\ quiz.max <= quiz.most
  BY DEF IInv, TypeOK, QuizRow, CountInv
<1> QED
  BY <1>2, <1>3, <1>4, <1>5, CountShrinks DEF CountInv

(* attemptBlock lets a request through only below the limit. While another *)
(* attempt is open, the request that opened it cannot be let through too.  *)
LEMMA CheckEligibleCount ==
  ASSUME IInv, CountInv, NEW w \in Workers, CheckEligible(w)
  PROVE  CountInv'
<1> USE QuizAssumption
<1>0. UNCHANGED quiz /\ quiz.most \in Nat \ {0} /\ quiz.max \in Nat /\ quiz.max <= quiz.most
  BY DEF CheckEligible, IInv, TypeOK, QuizRow, CountInv
<1>1. CASE Done(w)
  BY <1>1, QuietCount DEF CheckEligible, Done, Goto, Idle, rowVars
<1>2. CASE ~ Done(w)
  <2>1. /\ quiz.state = "LIVE" \/ quiz.state = "DELETED"
        /\ quiz.state = "LIVE" => ~ AttemptBlock
        /\ UNCHANGED attempts
        /\ req' = [req EXCEPT ![w].step = "create", ![w].now = clock]
    BY <1>2 DEF CheckEligible, IInv, TypeOK, QuizRow, rowVars
  <2>2. req'[w].step = "create" /\ \A v \in Workers : v # w => req'[v] = req[v]
    BY <2>1 DEF IInv, TypeOK
  <2>3. Open' = Open /\ Taken' = Taken
    BY <2>1 DEF Open, Taken, IsOpen
  <2>4. Racing' \subseteq Racing
    BY <1>2, <2>2, <2>3 DEF CheckEligible, At, Racing
  <2>5. Cardinality(Submitted) <= quiz.most - 1
    <3>1. CASE quiz.state = "LIVE"
      BY <1>0, <2>1, <3>1, CountsAreNat DEF AttemptBlock
    <3>2. CASE quiz.state = "DELETED"
      <4>1. Submitted = {}
        BY <3>2 DEF IInv, DeletedIsEmpty, Submitted, Taken, IsSubmitted
      <4> QED
        BY <1>0, <4>1, FS_EmptySet
    <3> QED
      BY <2>1, <3>1, <3>2
  <2>6. IsFiniteSet(Creating') /\ Cardinality(Creating') \in Nat
        /\ Cardinality(Creating') <= Cardinality(Workers)
    <3>1. Creating' \in SUBSET Workers
      BY DEF Creating
    <3> QED
      BY <3>1, FS_Subset, FS_CardinalityType
  <2>7. (Cardinality(Taken) + Cardinality(Creating) <= quiz.most + Cardinality(Workers) - 1)'
    <3>1. CASE Open = {}
      <4>1. Cardinality(Taken) <= quiz.most - 1
        BY <2>5, <3>1, TakenIsClosedOrOpen DEF IInv
      <4> QED
        BY <1>0, <2>3, <2>6, <4>1, CountsAreNat
    <3>2. CASE Open # {}
      <4>1. PICK v \in Workers : v \notin Racing
        BY <3>2 DEF CountInv
      <4>2. Creating' \in SUBSET (Workers \ {v})
        BY <2>4, <4>1 DEF Creating, Racing
      <4>3. Cardinality(Workers \ {v}) = Cardinality(Workers) - 1 /\ IsFiniteSet(Workers \ {v})
        BY FS_RemoveElement
      <4>4. Cardinality(Creating') <= Cardinality(Workers) - 1
        BY <4>2, <4>3, FS_Subset
      <4>5. Cardinality(Taken) <= quiz.most
        BY <1>0, <2>5, CountsAreNat, TakenIsClosedOrOpen DEF IInv
      <4> QED
        BY <1>0, <2>3, <2>6, <4>4, <4>5, CountsAreNat
    <3> QED
      BY <3>1, <3>2
  <2> QED
    BY <1>0, <2>3, <2>4, <2>7 DEF CountInv
<1> QED
  BY <1>1, <1>2

(* The one who opens an attempt was counted, and leaves the race. *)
LEMMA CreateAttemptCount ==
  ASSUME IInv, CountInv, NEW w \in Workers, NEW a \in Attempts, CreateAttempt(w, a)
  PROVE  CountInv'
<1> USE QuizAssumption
<1>1. req' = [req EXCEPT ![w] = Idle] /\ req[w].step = "create"
  BY DEF CreateAttempt, Done, Goto, At
<1>2. req'[w] = Idle /\ \A v \in Workers : v # w => req'[v] = req[v]
  BY <1>1 DEF IInv, TypeOK
<1>3. Taken' = Taken \cup {a} /\ a \notin Taken
  <2>1. attempts'[a].status = "IN_PROGRESS" /\ attempts[a].status = "NONE"
        /\ \A b \in Attempts : b # a => attempts'[b] = attempts[b]
    BY DEF CreateAttempt, IInv, TypeOK, AttemptRow
  <2> QED
    BY <2>1 DEF Taken
<1>4. Creating' = Creating \ {w} /\ w \in Creating
  BY <1>1, <1>2 DEF Creating, Idle
<1>5. w \notin Racing'
  BY <1>2 DEF Racing, Idle
<1>6. Cardinality(Taken') = Cardinality(Taken) + 1
  BY <1>3, CountsAreNat, FS_AddElement
<1>7. Cardinality(Creating') = Cardinality(Creating) - 1
  BY <1>4, CountsAreNat, FS_RemoveElement
<1>8. UNCHANGED quiz /\ quiz.most \in Nat
  BY DEF CreateAttempt, IInv, TypeOK, QuizRow
<1> QED
  BY <1>5, <1>6, <1>7, <1>8, CountsAreNat DEF CountInv

(* The first request to grade closes the only open attempt; a later one    *)
(* was racing already.                                                     *)
LEMMA FinalizeCount ==
  ASSUME IInv, CountInv, NEW w \in Workers, Finalize(w)
  PROVE  CountInv'
<1> DEFINE a == req[w].attempt
           r == IF req[w].starting THEN [Idle EXCEPT !.step = "readQuiz"] ELSE Idle
<1>1. a \in Attempts /\ req[w].step = "finalize" /\ req' = [req EXCEPT ![w] = r]
  BY DEF Finalize, Goto, At, IInv, TargetOK, OnAttempt
<1>2. r.step = (IF req[w].starting THEN "readQuiz" ELSE "idle")
  BY DEF Idle
<1>3. CASE IsOpen(a)
  <2>1. attempts'[a].status = "SUBMITTED" /\ \A b \in Attempts : b # a => attempts'[b] = attempts[b]
    BY <1>1, <1>3 DEF Finalize, Grade, IInv, TypeOK, AttemptRow
  <2>2. Open' = {}
    BY <1>1, <1>3, <2>1 DEF Open, IsOpen, IInv, OneOpenAttempt
  <2>3. Taken' \subseteq Taken
    BY <1>1, <1>3, <2>1 DEF Taken, IsOpen
  <2>4. Creating' \subseteq Creating
    BY <1>1, <1>2 DEF Creating, IInv, TypeOK
  <2>5. UNCHANGED quiz /\ quiz.most \in Nat
    BY DEF Finalize, IInv, TypeOK, QuizRow
  <2> QED
    BY <2>2, <2>3, <2>4, <2>5, CountShrinks DEF CountInv
<1>4. CASE ~ IsOpen(a)
  <2>1. UNCHANGED <<attempts, quiz>>
    BY <1>4 DEF Finalize, Grade
  <2>2. req[w].starting => w \in Racing
    BY <1>1, <1>4 DEF Racing, Open
  <2> HIDE DEF r
  <2> QED
    BY <1>1, <1>2, <2>1, <2>2, QuietCount
<1> QED
  BY <1>3, <1>4

(* Every other step of a request. *)
LEMMA RequestCount ==
  ASSUME IInv, CountInv, NEW w \in Workers, Begin(w) \/ Continue(w)
  PROVE  CountInv'
<1>1. CASE StartAnew(w)
  BY <1>1, QuietCount DEF StartAnew, Goto, Idle, rowVars
<1>2. ASSUME NEW a \in Attempts, NEW starting \in BOOLEAN, FindExpired(w, a, starting)
      PROVE  CountInv'
  <2>1. a \in Open
    BY <1>2 DEF FindExpired, Open
  <2> QED
    BY <1>2, <2>1, QuietCount DEF FindExpired, Goto, Idle, rowVars
<1>3. ASSUME NEW a \in Attempts, NEW sheet \in Sheets,
             NEW next \in {"commitSave", "finalize"}, Send(w, a, sheet, next)
      PROVE  CountInv'
  BY <1>3, QuietCount DEF Send, Goto, Idle, rowVars
<1>4. CASE CommitSave(w)
  BY <1>4, QuietCount DEF CommitSave, Done, Goto, Idle
<1>5. CASE ReadSaved(w)
  <2> DEFINE r == [req[w] EXCEPT !.step = "finalize", !.sheet = answers[req[w].attempt],
                                 !.auto = TRUE]
  <2>1. /\ req[w].step = "readSaved" /\ UNCHANGED <<attempts, quiz>>
        /\ req' = [req EXCEPT ![w] = r]
        /\ r.step = "finalize" /\ r.attempt = req[w].attempt /\ r.starting = req[w].starting
    BY <1>5 DEF ReadSaved, At, rowVars, IInv, TypeOK
  <2>2. r.starting /\ r.attempt \notin Open => w \in Racing
    BY <2>1 DEF Racing
  <2> HIDE DEF r
  <2> QED
    BY <2>1, <2>2, QuietCount
<1>6. CASE ReadQuiz(w)
  <2>1. w \in Racing /\ UNCHANGED <<attempts, quiz>>
    BY <1>6 DEF ReadQuiz, At, Racing, rowVars
  <2>2. CASE Done(w)
    BY <2>1, <2>2, QuietCount DEF Done, Goto, Idle
  <2>3. CASE ~ Done(w)
    <3> DEFINE r == [req[w] EXCEPT !.step = "checkEligible", !.limit = quiz.limit, !.barred = NoneLeft]
    <3>1. req' = [req EXCEPT ![w] = r] /\ r.step = "checkEligible"
      <4>1. \A b : [req[w] EXCEPT !.step = "checkEligible", !.limit = quiz.limit,
                                  !.barred = b].step = "checkEligible"
        BY DEF IInv, TypeOK
      <4>2. req' = [req EXCEPT ![w] = r]
        BY <1>6, <2>3 DEF ReadQuiz
      <4> QED
        BY <4>1, <4>2
    <3> HIDE DEF r
    <3> QED
      BY <2>1, <3>1, QuietCount
  <2> QED
    BY <2>2, <2>3
<1>7. CASE CreateNothing(w)
  BY <1>7, QuietCount DEF CreateNothing, Done, Goto, Idle, rowVars
<1> QED
  BY <1>1, <1>2, <1>3, <1>4, <1>5, <1>6, <1>7, FinalizeCount, CheckEligibleCount,
     CreateAttemptCount DEF Begin, Continue

(* However starts, submits and auto-submits overlap, the student's other   *)
(* running requests bound the attempts beyond maxAttempts (attemptBlock,   *)
(* which startQuizAttempt evaluates outside its lock).                     *)
THEOREM OverrunIsBounded == Spec => []AttemptsBounded
<1>1. Init => CountInv
  <2> SUFFICES ASSUME Init PROVE CountInv
    OBVIOUS
  <2>1. Taken = {} /\ Open = {} /\ Creating = {}
    BY DEF Init, Taken, Open, IsOpen, NoRow, Creating, Idle
  <2>2. quiz.most \in Nat \ {0} /\ quiz.max = quiz.most
    BY InitIInv DEF Init, IInv, TypeOK, QuizRow
  <2> QED
    BY <2>1, <2>2, FS_EmptySet, CountsAreNat, QuizAssumption DEF CountInv
<1>2. IInv /\ CountInv /\ [Next]_vars => CountInv'
  BY OutsideCount, RequestCount DEF Next
<1>3. IInv /\ CountInv => AttemptsBounded
  BY CountsAreNat, QuizAssumption DEF IInv, TypeOK, QuizRow, CountInv, AttemptsBounded
<1> QED
  BY <1>1, <1>2, <1>3, Inductive, PTL DEF Spec

(* A start that was barred when it read the quiz finds itself blocked,     *)
(* because submitted attempts stay submitted while the quiz exists.        *)
BarredInv ==
  /\ KeyHelpsNoLaterStart
  /\ \A w \in Workers : req[w].step = "checkEligible" /\ req[w].barred =>
       NoneLeft \/ quiz.state = "DELETED"

(* Submitted attempts do not become fewer as long as the quiz exists. *)
LEMMA NoneLeftLasts ==
  ASSUME IInv, [Next]_vars, quiz'.state # "DELETED", NoneLeft, quiz'.max <= quiz.max
  PROVE  NoneLeft'
<1>1. Submitted \subseteq Submitted'
  <2> SUFFICES ASSUME NEW a \in Submitted PROVE a \in Submitted'
    OBVIOUS
  <2>1. a \in Attempts /\ IsSubmitted(a)
    BY DEF Submitted
  <2>2. attempts'[a] = attempts[a]
    BY <2>1, GradedStep
  <2> QED
    BY <2>1, <2>2 DEF Submitted, IsSubmitted
<1>2. Submitted' \in SUBSET Attempts
  BY DEF Submitted
<1>3. IsFiniteSet(Submitted') /\ Cardinality(Submitted') \in Nat
  BY <1>2, FS_Subset, FS_CardinalityType, QuizAssumption
<1>4. Cardinality(Submitted) <= Cardinality(Submitted')
  BY <1>1, <1>3, FS_Subset
<1>5. quiz.max \in Nat /\ quiz'.max \in Nat
  BY TypeStep DEF IInv, TypeOK, QuizRow
<1> QED
  BY <1>3, <1>4, <1>5, CountsAreNat DEF NoneLeft

(* A deleted quiz stays deleted. *)
LEMMA DeletedLasts ==
  ASSUME IInv, [Next]_vars, quiz.state = "DELETED"
  PROVE  quiz'.state = "DELETED"
<1>1. CASE Tick
  BY <1>1 DEF Tick
<1>2. CASE Teacher
  BY <1>2 DEF Teacher, UpdateQuizSettings, CountAttempts, ArchiveQuiz, RemoveQuiz, IInv, TypeOK,
              QuizRow, DeleterOK
<1>3. ASSUME NEW w \in Workers, Begin(w) \/ Continue(w)
      PROVE  UNCHANGED quiz
  BY <1>3 DEF Begin, StartAnew, FindExpired, Send, Continue, CommitSave, ReadSaved, Finalize,
              ReadQuiz, CheckEligible, CreateNothing, CreateAttempt
<1>4. CASE UNCHANGED vars
  BY <1>4 DEF vars
<1> QED
  BY <1>1, <1>2, <1>3, <1>4 DEF Next

(* What a step leaves of a request that was barred. *)
LEMMA BarredStep ==
  ASSUME IInv, BarredInv, [Next]_vars
  PROVE  BarredInv'
<1> SUFFICES ASSUME NEW w \in Workers, req'[w].step \in {"checkEligible", "create"}, req'[w].barred,
                    quiz'.state # "DELETED"
             PROVE  req'[w].step = "checkEligible" /\ NoneLeft'
  BY DEF BarredInv, KeyHelpsNoLaterStart
<1>1. quiz.state # "DELETED"
  BY DeletedLasts
<1>2. quiz.max \in Nat /\ req \in [Workers -> [step: Steps, starting: BOOLEAN,
          attempt: Attempts \cup {NoAttempt}, sheet: Sheets, auto: BOOLEAN, limit: TimeLimits,
          now: Times, barred: BOOLEAN]]
  BY DEF IInv, TypeOK, QuizRow
<1>3. CASE req'[w] = req[w] /\ quiz'.max <= quiz.max
  <2>1. req[w].step = "checkEligible" /\ NoneLeft
    BY <1>1, <1>3 DEF BarredInv, KeyHelpsNoLaterStart
  <2> QED
    BY <1>3, <2>1, NoneLeftLasts
<1>4. ASSUME NEW s \in quiz.choices, UpdateQuizSettings(s)
      PROVE  req'[w].step = "checkEligible" /\ NoneLeft'
  <2>1. s.max \in Nat
    BY TimeLimitTypes DEF IInv, TypeOK, QuizRow
  <2>2. quiz'.max = s.max
    BY <1>4 DEF UpdateQuizSettings, IInv, TypeOK, QuizRow
  <2>3. ~ (s.max > quiz.max)
    <3>1. SUFFICES ASSUME s.max > quiz.max PROVE FALSE
      OBVIOUS
    <3>2. req' = [v \in Workers |-> [req[v] EXCEPT !.barred = FALSE]]
      BY <1>4, <3>1 DEF UpdateQuizSettings
    <3>3. req'[w].barred = FALSE
      BY <1>2, <3>2
    <3> QED
      BY <3>3
  <2>4. req' = req
    BY <1>4, <2>3 DEF UpdateQuizSettings
  <2> QED
    BY <1>2, <1>3, <2>1, <2>2, <2>3, <2>4
<1>5. CASE Tick \/ CountAttempts \/ ArchiveQuiz \/ RemoveQuiz \/ UNCHANGED vars
  <2>1. req' = req /\ quiz'.max = quiz.max
    BY <1>5 DEF Tick, CountAttempts, ArchiveQuiz, RemoveQuiz, vars, IInv, TypeOK, QuizRow
  <2> QED
    BY <1>2, <1>3, <2>1
<1>6. ASSUME NEW v \in Workers, Begin(v) \/ Continue(v)
      PROVE  req'[w].step = "checkEligible" /\ NoneLeft'
  <2>1. UNCHANGED quiz
    BY <1>6 DEF Begin, StartAnew, FindExpired, Send, Continue, CommitSave, ReadSaved, Finalize,
                ReadQuiz, CheckEligible, CreateNothing, CreateAttempt
  <2>2. CASE v # w
    <3>1. req'[w] = req[w]
      BY <1>2, <1>6, <2>2 DEF Begin, StartAnew, FindExpired, Send, Continue, CommitSave, ReadSaved,
           Finalize, ReadQuiz, CheckEligible, CreateNothing, CreateAttempt, Goto, Done
    <3> QED
      BY <1>2, <1>3, <2>1, <3>1
  <2>3. CASE v = w
    <3>1. CASE ReadQuiz(w)
      <4> DEFINE Reads(b) == [req[w] EXCEPT !.step = "checkEligible", !.limit = quiz.limit,
                                            !.barred = b]
      <4>0. \A b : Reads(b).step = "checkEligible" /\ Reads(b).barred = b
        BY <1>2
      <4>2. req' = [req EXCEPT ![w] = Reads(NoneLeft)]
        BY <1>1, <3>1 DEF ReadQuiz
      <4> HIDE DEF Reads
      <4>3. req'[w] = Reads(NoneLeft)
        BY <1>2, <4>2
      <4>1. req'[w].step = "checkEligible" /\ req'[w].barred = NoneLeft
        BY <4>0, <4>3
      <4> QED
        BY <1>2, <2>1, <4>1, NoneLeftLasts
    <3>2. CASE CheckEligible(w)
      <4>1. req'[w].barred = FALSE
        <5>1. CASE Done(w)
          BY <1>2, <5>1 DEF Done, Goto, Idle
        <5>2. CASE ~ Done(w)
          <6>0. /\ ~ (quiz.state = "LIVE" /\ AttemptBlock) /\ quiz.state # "ARCHIVED"
                /\ req' = [req EXCEPT ![w].step = "create", ![w].now = clock]
                /\ req[w].step = "checkEligible"
            BY <3>2, <5>2 DEF CheckEligible, At
          <6>3. quiz.state \in {"LIVE", "ARCHIVED", "DELETED"}
            BY DEF IInv, TypeOK, QuizRow
          <6>4. req'[w].barred = req[w].barred
            BY <1>2, <6>0
          <6>1. req'[w].barred = req[w].barred /\ ~ AttemptBlock /\ req[w].step = "checkEligible"
            BY <1>1, <6>0, <6>3, <6>4
          <6>2. ~ NoneLeft
            BY <6>1 DEF AttemptBlock, NoneLeft
          <6> QED
            BY <1>1, <1>2, <6>1, <6>2 DEF BarredInv
        <5> QED
          BY <5>1, <5>2
      <4> QED
        BY <4>1
    <3>3. CASE ~ ReadQuiz(w) /\ ~ CheckEligible(w)
      <4>1. req'[w].step \notin {"checkEligible", "create"}
        <5>1. CASE Begin(w)
          <6>1. \/ StartAnew(w)
                \/ \E a \in Attempts, starting \in BOOLEAN : FindExpired(w, a, starting)
                \/ \E a \in Attempts, sheet \in Sheets, next \in {"commitSave", "finalize"} :
                      Send(w, a, sheet, next)
            BY <5>1 DEF Begin
          <6>2. CASE StartAnew(w)
            BY <1>2, <6>2 DEF StartAnew, Goto, Idle
          <6>3. ASSUME NEW a \in Attempts, NEW starting \in BOOLEAN, FindExpired(w, a, starting)
                PROVE  req'[w].step = "readSaved"
            BY <1>2, <6>3 DEF FindExpired, Goto, Idle
          <6>4. ASSUME NEW a \in Attempts, NEW sheet \in Sheets,
                       NEW next \in {"commitSave", "finalize"}, Send(w, a, sheet, next)
                PROVE  req'[w].step = next
            BY <1>2, <6>4 DEF Send, Goto, Idle
          <6> QED
            BY <6>1, <6>2, <6>3, <6>4
        <5>2. CASE ReadSaved(w)
          BY <1>2, <5>2 DEF ReadSaved
        <5>3. CASE Finalize(w)
          BY <1>2, <5>3 DEF Finalize, Goto, Idle
        <5>4. CASE CommitSave(w) \/ CreateNothing(w) \/ \E a \in Attempts : CreateAttempt(w, a)
          <6>1. Done(w)
            BY <5>4 DEF CommitSave, CreateNothing, CreateAttempt
          <6> QED
            BY <1>2, <6>1 DEF Done, Goto, Idle
        <5> QED
          BY <1>6, <2>3, <3>3, <5>1, <5>2, <5>3, <5>4 DEF Continue
      <4> QED
        BY <4>1
    <3> QED
      BY <3>1, <3>2, <3>3
  <2> QED
    BY <2>2, <2>3
<1> QED
  BY <1>4, <1>5, <1>6 DEF Next, Teacher

(* What the result pages count (canRevealAnswers) and what the start counts *)
(* (attemptBlock) agree at every moment in between: a start that reads the  *)
(* quiz when the key shows, for want of attempts, opens none.               *)
THEOREM KeyHelpsNoLater == Spec => []KeyHelpsNoLaterStart
<1>1. Init => BarredInv
  BY DEF Init, Idle, BarredInv, KeyHelpsNoLaterStart
<1>2. IInv /\ BarredInv /\ [Next]_vars => BarredInv'
  BY BarredStep
<1>3. BarredInv => KeyHelpsNoLaterStart
  BY DEF BarredInv
<1> QED
  BY <1>1, <1>2, <1>3, Inductive, PTL DEF Spec

-----------------------------------------------------------------------------
(* Grading: QuizGrading is pure, so what follows is about its operators. *)

(* Division by what is not zero. *)
LEMMA Division ==
  ASSUME NEW a \in Nat, NEW b \in Nat \ {0}
  PROVE  /\ a \div b \in Nat
         /\ b * (a \div b) <= a /\ a < b * (a \div b) + b
OBVIOUS

(* A product grows with its factors. *)
LEMMA Products ==
  ASSUME NEW x \in Nat, NEW y \in Nat, NEW z \in Nat, x <= y
  PROVE  z * x <= z * y /\ z * x \in Nat /\ z * y \in Nat
OBVIOUS

(* Of two quotients by the same number, the smaller dividend has the smaller. *)
LEMMA QuotientsGrow ==
  ASSUME NEW a \in Nat, NEW c \in Nat, NEW b \in Nat \ {0}, a <= c
  PROVE  a \div b <= c \div b
<1>1. PICK q \in Nat : q = a \div b /\ b * q <= a
  BY Division
<1>2. PICK r \in Nat : r = c \div b /\ c < b * r + b
  BY Division
<1>3. ASSUME r + 1 <= q PROVE FALSE
  <2>1. b * (r + 1) <= b * q
    BY <1>3, Products
  <2>2. b * (r + 1) = b * r + b
    OBVIOUS
  <2>3. b * q \in Nat /\ b * r \in Nat
    OBVIOUS
  <2> QED
    BY <1>1, <1>2, <2>1, <2>2, <2>3
<1> QED
  BY <1>1, <1>2, <1>3

(* What round2 makes of a part of the points is none of them for no part, all of *)
(* them for the whole and, unless the parts are finer than half a hundredth, less *)
(* for less than the whole; and it grows with the part.                           *)
LEMMA RoundOf ==
  ASSUME NEW p \in Nat \ {0}, NEW den \in Nat \ {0}, NEW num \in 0..den
  PROVE  /\ round2(p, num, den) \in 0..(100 * p)
         /\ num = 0 => round2(p, num, den) = 0
         /\ num = den => round2(p, num, den) = 100 * p
         /\ num < den /\ den < 200 * p => round2(p, num, den) < 100 * p
         /\ \A less \in 0..num : round2(p, less, den) <= round2(p, num, den)
<1> DEFINE a == 200 * p * num + den
<1>1. /\ a \in Nat /\ 200 * p \in Nat /\ 200 * p * num \in Nat /\ num \in Nat /\ 2 * den \in Nat \ {0}
      /\ 200 * p * den \in Nat
  OBVIOUS
<1>2. PICK q \in Nat : q = a \div (2 * den) /\ (2 * den) * q <= a /\ a < (2 * den) * q + 2 * den
  BY <1>1, Division
<1>3. q = round2(p, num, den)
  BY <1>2 DEF round2
<1>4. (2 * den) * (100 * p) = 200 * p * den /\ (2 * den) * (100 * p + 1) = 200 * p * den + 2 * den
  OBVIOUS
<1>5. 200 * p * num <= 200 * p * den
  BY <1>1, Products
<1>6. ASSUME q >= 100 * p + 1 PROVE FALSE
  <2>1. (2 * den) * (100 * p + 1) <= (2 * den) * q
    BY <1>1, <1>6, Products
  <2> HIDE DEF a
  <2>2. (2 * den) * q \in Nat
    BY <1>1
  <2> QED
    BY <1>1, <1>2, <1>4, <1>5, <2>1, <2>2 DEF a
<1>7. num = 0 => q = 0
  <2> SUFFICES ASSUME num = 0, q >= 1 PROVE FALSE
    OBVIOUS
  <2>1. (2 * den) * 1 <= (2 * den) * q
    BY <1>1, Products
  <2>2. a = den
    OBVIOUS
  <2> QED
    BY <1>1, <1>2, <2>1, <2>2
<1>8. num = den => q >= 100 * p
  <2> SUFFICES ASSUME num = den, q + 1 <= 100 * p PROVE FALSE
    OBVIOUS
  <2>1. (2 * den) * (q + 1) <= (2 * den) * (100 * p)
    BY <1>1, Products
  <2>2. (2 * den) * (q + 1) = (2 * den) * q + 2 * den /\ (2 * den) * q \in Nat
    OBVIOUS
  <2> QED
    BY <1>1, <1>2, <1>4, <2>1, <2>2
<1>9. num < den /\ den < 200 * p => q < 100 * p
  <2> SUFFICES ASSUME num + 1 <= den, den < 200 * p, 100 * p <= q PROVE FALSE
    OBVIOUS
  <2>1. (2 * den) * (100 * p) <= (2 * den) * q
    BY <1>1, Products
  <2>2. (200 * p) * (num + 1) <= (200 * p) * den
    BY <1>1, Products
  <2>3. (200 * p) * (num + 1) = 200 * p * num + 200 * p /\ (2 * den) * q \in Nat
    OBVIOUS
  <2> QED
    BY <1>1, <1>2, <1>4, <2>1, <2>2, <2>3
<1>10. ASSUME NEW less \in 0..num PROVE round2(p, less, den) <= q
  <2>1. less \in Nat /\ 200 * p * less \in Nat /\ 200 * p * less <= 200 * p * num
    BY <1>1, Products
  <2> QED
    BY <1>1, <1>3, <2>1, QuotientsGrow DEF round2
<1> QED
  BY <1>1, <1>2, <1>3, <1>6, <1>7, <1>8, <1>9, <1>10

(* Sequences of things that occur once. *)
Distinct(S) == {seq \in Seq(S) : \A i, j \in DOMAIN seq : seq[i] = seq[j] => i = j}

(* A function that is one to one and onto is a bijection. *)
LEMMA BijectionFound ==
  ASSUME NEW A, NEW B, NEW f \in [A -> B],
         \A x, y \in A : f[x] = f[y] => x = y,
         \A b \in B : \E x \in A : f[x] = b
  PROVE  ExistsBijection(A, B)
<1>1. f \in Injection(A, B)
  BY DEF Injection, IsInjective
<1>2. f \in Surjection(A, B)
  BY DEF Surjection
<1> QED
  BY <1>1, <1>2 DEF ExistsBijection, Bijection

(* As many numbers as the last of them. *)
LEMMA IntervalSize ==
  ASSUME NEW n \in Nat
  PROVE  IsFiniteSet(1..n) /\ Cardinality(1..n) = n
BY FS_Interval

(* A sequence of things that occur once has as many places as things. *)
LEMMA SizeOfDistinct ==
  ASSUME NEW S, NEW seq \in Distinct(S)
  PROVE  /\ ToSet(seq) \subseteq S /\ IsFiniteSet(ToSet(seq))
         /\ Len(seq) \in Nat /\ Cardinality(ToSet(seq)) = Len(seq)
<1> DEFINE I == 1..Len(seq)
<1>1. Len(seq) \in Nat /\ seq \in [I -> S]
  BY DEF Distinct
<1>2. \A x, y \in I : seq[x] = seq[y] => x = y
  BY <1>1 DEF Distinct
<1>3. IsFiniteSet(I) /\ Cardinality(I) = Len(seq)
  BY <1>1, IntervalSize
<1> HIDE DEF I
<1>4. ToSet(seq) = {seq[i] : i \in I} /\ ToSet(seq) \subseteq S
  BY <1>1 DEF ToSet
<1>5. seq \in [I -> ToSet(seq)] /\ \A t \in ToSet(seq) : \E x \in I : seq[x] = t
  BY <1>1, <1>4
<1>6. ExistsBijection(I, ToSet(seq))
  BY <1>2, <1>5, BijectionFound
<1> QED
  BY <1>1, <1>3, <1>4, <1>6, FS_Bijection

(* What is in a sequence after Append. *)
LEMMA AppendedSet ==
  ASSUME NEW S, NEW seq \in Seq(S), NEW o
  PROVE  ToSet(Append(seq, o)) = ToSet(seq) \cup {o} /\ Len(Append(seq, o)) = Len(seq) + 1
<1> DEFINE more == Append(seq, o)
<1>1. /\ Len(seq) \in Nat /\ DOMAIN seq = 1..Len(seq) /\ Len(more) = Len(seq) + 1
      /\ DOMAIN more = 1..(Len(seq) + 1)
      /\ \A i \in 1..Len(seq) : more[i] = seq[i]
      /\ more[Len(seq) + 1] = o
  <2>1. seq \in Seq(S \cup {o}) /\ o \in S \cup {o}
    OBVIOUS
  <2> QED
    BY <2>1
<1> HIDE DEF more
<1>2. ToSet(more) \subseteq ToSet(seq) \cup {o}
  BY <1>1 DEF ToSet
<1>3. o \in ToSet(more)
  <2>1. Len(seq) + 1 \in DOMAIN more
    BY <1>1
  <2> QED
    BY <1>1, <2>1 DEF ToSet
<1>4. ToSet(seq) \subseteq ToSet(more)
  BY <1>1 DEF ToSet
<1> QED
  BY <1>1, <1>2, <1>3, <1>4 DEF more

(* A question with several right options, as validateOptions admits it. *)
ChoiceQuestion(q) ==
  /\ q.points \in Nat \ {0}
  /\ q.correct # {} /\ IsFiniteSet(q.correct)

(* The right picks that no wrong one cancels, of len picks. *)
Credit(right, len) == IF right > len - right THEN 2 * right - len ELSE 0

(* gradeChoices by the numbers of right picks, of picks and of right options: all *)
(* and only the right ones, or the credit of the right picks no wrong one cancels. *)
LEMMA CreditOfChoices ==
  ASSUME NEW q, ChoiceQuestion(q), NEW S, NEW chosen \in Distinct(S), NEW partialCredit \in BOOLEAN
  PROVE  \E right \in Nat, size \in Nat \ {0} :
           /\ right = Cardinality(ToSet(chosen) \cap q.correct) /\ size = Cardinality(q.correct)
           /\ right <= size /\ right <= Len(chosen)
           /\ right = size <=> q.correct \subseteq ToSet(chosen)
           /\ right = Len(chosen) <=> ToSet(chosen) \subseteq q.correct
           /\ gradeChoices(q, chosen, partialCredit) =
                IF right = size /\ Len(chosen) = right THEN Full(q, TRUE)
                ELSE IF ~ partialCredit THEN Full(q, FALSE)
                ELSE Part(q, Credit(right, Len(chosen)), size)
<1> DEFINE common == ToSet(chosen) \cap q.correct
<1>1. /\ IsFiniteSet(ToSet(chosen)) /\ Len(chosen) \in Nat /\ Cardinality(ToSet(chosen)) = Len(chosen)
  BY SizeOfDistinct
<1>2. IsFiniteSet(q.correct) /\ Cardinality(q.correct) \in Nat \ {0}
  BY FS_CardinalityType, FS_EmptySet DEF ChoiceQuestion
<1>3. /\ IsFiniteSet(common) /\ Cardinality(common) \in Nat
      /\ Cardinality(common) <= Cardinality(q.correct) /\ Cardinality(common) <= Len(chosen)
      /\ Cardinality(common) = Cardinality(q.correct) => common = q.correct
      /\ Cardinality(common) = Len(chosen) => common = ToSet(chosen)
  BY <1>1, <1>2, FS_Subset, FS_CardinalityType
<1>4. common = q.correct <=> q.correct \subseteq ToSet(chosen)
  OBVIOUS
<1>5. common = ToSet(chosen) <=> ToSet(chosen) \subseteq q.correct
  OBVIOUS
<1>6. Len(chosen) - Cardinality(common) = 0 <=> Len(chosen) = Cardinality(common)
  BY <1>1, <1>3
<1>7. Cardinality(common) - (Len(chosen) - Cardinality(common)) = 2 * Cardinality(common) - Len(chosen)
  BY <1>1, <1>3
<1> QED
  <2> DEFINE right == Cardinality(common)
             size == Cardinality(q.correct)
  <2>1. gradeChoices(q, chosen, partialCredit) =
                IF right = size /\ Len(chosen) = right THEN Full(q, TRUE)
                ELSE IF ~ partialCredit THEN Full(q, FALSE)
                ELSE Part(q, Credit(right, Len(chosen)), size)
    BY <1>2, <1>6, <1>7 DEF gradeChoices, Credit
  <2>2. /\ right \in Nat /\ size \in Nat \ {0} /\ right <= size /\ right <= Len(chosen)
        /\ right = size <=> q.correct \subseteq ToSet(chosen)
        /\ right = Len(chosen) <=> ToSet(chosen) \subseteq q.correct
    BY <1>1, <1>2, <1>3, <1>4, <1>5, <1>1
  <2> HIDE DEF right, size
  <2>3. right = Cardinality(ToSet(chosen) \cap q.correct) /\ size = Cardinality(q.correct)
    BY DEF right, size
  <2> QED
    BY <2>1, <2>2, <2>3

(* Appending what is not there leaves each thing once. *)
LEMMA AppendedDistinct ==
  ASSUME NEW S, NEW seq \in Distinct(S), NEW o \in S \ ToSet(seq)
  PROVE  Append(seq, o) \in Distinct(S)
<1> DEFINE more == Append(seq, o)
<1>1. /\ seq \in Seq(S) /\ more \in Seq(S) /\ Len(seq) \in Nat /\ DOMAIN seq = 1..Len(seq)
      /\ DOMAIN more = 1..(Len(seq) + 1)
      /\ \A i \in 1..Len(seq) : more[i] = seq[i]
      /\ more[Len(seq) + 1] = o
  BY DEF Distinct
<1>2. \A i \in 1..Len(seq) : seq[i] # o
  BY <1>1 DEF ToSet
<1>3. \A i, j \in 1..Len(seq) : seq[i] = seq[j] => i = j
  BY <1>1 DEF Distinct
<1> HIDE DEF more
<1>4. ASSUME NEW i \in DOMAIN more, NEW j \in DOMAIN more, more[i] = more[j] PROVE i = j
  <2>1. \A k \in DOMAIN more : k \in 1..Len(seq) \/ k = Len(seq) + 1
    BY <1>1
  <2> QED
    BY <1>1, <1>2, <1>3, <1>4, <2>1
<1> QED
  BY <1>1, <1>4 DEF Distinct, more

(* The credit is a part of the right options, the whole only for a right answer; *)
(* a right pick more never takes from it, a wrong one never adds to it.          *)
LEMMA CreditFits ==
  ASSUME NEW size \in Nat \ {0}, NEW right \in 0..size, NEW len \in Nat, right <= len
  PROVE  /\ Credit(right, len) \in 0..size
         /\ ~ (right = size /\ len = right) => Credit(right, len) < size
         /\ Credit(right, len) <= Credit(right + 1, len + 1)
         /\ Credit(right, len + 1) \in 0..Credit(right, len)
         /\ 2 * right <= len => Credit(right, len) = 0
BY DEF Credit

(* What right of size and len picks earn, in hundredths. *)
Earned(p, size, partialCredit, right, len) ==
  IF right = size /\ len = right THEN 100 * p
  ELSE IF ~ partialCredit THEN 0 ELSE round2(p, Credit(right, len), size)

(* What the picks earn is within the points, and all of them only if all is right. *)
LEMMA EarnedFits ==
  ASSUME NEW p \in Nat \ {0}, NEW size \in Nat \ {0}, NEW partialCredit \in BOOLEAN,
         NEW right \in 0..size, NEW len \in Nat, right <= len
  PROVE  /\ Earned(p, size, partialCredit, right, len) \in 0..(100 * p)
         /\ size < 200 * p /\ Earned(p, size, partialCredit, right, len) = 100 * p => right = size /\ len = right
         /\ 2 * right <= len => Earned(p, size, partialCredit, right, len) = 0
<1>1. /\ Credit(right, len) \in 0..size
      /\ ~ (right = size /\ len = right) => Credit(right, len) < size
      /\ 2 * right <= len => Credit(right, len) = 0
  BY CreditFits
<1>2. PICK c \in 0..size : c = Credit(right, len)
  BY <1>1
<1>3. /\ round2(p, c, size) \in 0..(100 * p)
      /\ c = 0 => round2(p, c, size) = 0
      /\ c < size /\ size < 200 * p => round2(p, c, size) < 100 * p
  BY RoundOf
<1>4. Earned(p, size, partialCredit, right, len) =
        IF right = size /\ len = right THEN 100 * p ELSE IF ~ partialCredit THEN 0 ELSE round2(p, c, size)
  BY <1>2 DEF Earned
<1> QED
  BY <1>1, <1>2, <1>3, <1>4

(* A right pick more never earns less, a wrong one never earns more. *)
LEMMA EarnedGrows ==
  ASSUME NEW p \in Nat \ {0}, NEW size \in Nat \ {0}, NEW partialCredit \in BOOLEAN,
         NEW right \in 0..size, NEW len \in Nat, right <= len
  PROVE  /\ right + 1 <= size =>
              Earned(p, size, partialCredit, right, len) <= Earned(p, size, partialCredit, right + 1, len + 1)
         /\ Earned(p, size, partialCredit, right, len + 1) <= Earned(p, size, partialCredit, right, len)
<1> DEFINE earned(r, l) == Earned(p, size, partialCredit, r, l)
<1>1. /\ Credit(right, len) \in 0..size
      /\ Credit(right, len + 1) \in 0..Credit(right, len)
      /\ Credit(right, len) <= Credit(right + 1, len + 1)
  BY CreditFits
<1>2. right + 1 <= size => right + 1 \in 0..size /\ len + 1 \in Nat /\ right + 1 <= len + 1
  OBVIOUS
<1>3. /\ right + 1 <= size => Credit(right + 1, len + 1) \in 0..size
      /\ earned(right, len) \in 0..(100 * p)
      /\ right + 1 <= size => earned(right + 1, len + 1) \in 0..(100 * p)
      /\ earned(right, len + 1) \in 0..(100 * p)
  <2>1. earned(right, len) \in 0..(100 * p)
    BY EarnedFits
  <2>2. earned(right, len + 1) \in 0..(100 * p)
    <3>1. len + 1 \in Nat /\ right <= len + 1
      OBVIOUS
    <3> QED
      BY <3>1, EarnedFits
  <2>3. right + 1 <= size => Credit(right + 1, len + 1) \in 0..size
    BY <1>2, CreditFits
  <2>4. right + 1 <= size => earned(right + 1, len + 1) \in 0..(100 * p)
    BY <1>2, EarnedFits
  <2> HIDE DEF earned
  <2> QED
    BY <2>1, <2>2, <2>3, <2>4
<1>4. \A less, more \in 0..size : less <= more => round2(p, less, size) <= round2(p, more, size)
  BY RoundOf
<1>5. ASSUME right + 1 <= size PROVE earned(right, len) <= earned(right + 1, len + 1)
  <2>1. CASE right + 1 = size /\ len + 1 = right + 1
    <3>1. earned(right + 1, len + 1) = 100 * p
      BY <2>1 DEF Earned
    <3> QED
      BY <1>3, <3>1
  <2>2. CASE ~ (right + 1 = size /\ len + 1 = right + 1)
    <3>1. earned(right, len) = IF ~ partialCredit THEN 0 ELSE round2(p, Credit(right, len), size)
      BY <1>5 DEF Earned
    <3>2. earned(right + 1, len + 1) = IF ~ partialCredit THEN 0 ELSE round2(p, Credit(right + 1, len + 1), size)
      BY <2>2 DEF Earned
    <3>3. round2(p, Credit(right, len), size) <= round2(p, Credit(right + 1, len + 1), size)
      BY <1>1, <1>3, <1>4, <1>5
    <3> QED
      BY <3>1, <3>2, <3>3
  <2> QED
    BY <2>1, <2>2
<1>6. earned(right, len + 1) <= earned(right, len)
  <2>1. CASE right = size /\ len = right
    <3>1. earned(right, len) = 100 * p
      BY <2>1 DEF Earned
    <3> QED
      BY <1>3, <3>1
  <2>2. CASE ~ (right = size /\ len = right)
    <3>1. earned(right, len) = IF ~ partialCredit THEN 0 ELSE round2(p, Credit(right, len), size)
      BY <2>2 DEF Earned
    <3>2. earned(right, len + 1) = IF ~ partialCredit THEN 0 ELSE round2(p, Credit(right, len + 1), size)
      BY DEF Earned
    <3>3. round2(p, Credit(right, len + 1), size) <= round2(p, Credit(right, len), size)
      BY <1>1, <1>4
    <3> QED
      BY <3>1, <3>2, <3>3
  <2> QED
    BY <2>1, <2>2
<1> QED
  BY <1>5, <1>6

(* gradeChoices gives what Earned says, and calls right the picks of all that is right. *)
LEMMA GradeIsEarned ==
  ASSUME NEW q, ChoiceQuestion(q), NEW S, NEW chosen \in Distinct(S), NEW partialCredit \in BOOLEAN
  PROVE  LET right == Cardinality(ToSet(chosen) \cap q.correct)
             size == Cardinality(q.correct)
         IN /\ right \in 0..size /\ right <= Len(chosen)
            /\ gradeChoices(q, chosen, partialCredit).points = Earned(q.points, size, partialCredit, right, Len(chosen))
            /\ gradeChoices(q, chosen, partialCredit).isCorrect <=> ToSet(chosen) = q.correct
            /\ right = size /\ Len(chosen) = right <=> ToSet(chosen) = q.correct
<1>1. PICK right \in Nat, size \in Nat \ {0} :
           /\ right = Cardinality(ToSet(chosen) \cap q.correct) /\ size = Cardinality(q.correct)
           /\ right <= size /\ right <= Len(chosen)
           /\ right = size <=> q.correct \subseteq ToSet(chosen)
           /\ right = Len(chosen) <=> ToSet(chosen) \subseteq q.correct
           /\ gradeChoices(q, chosen, partialCredit) =
                IF right = size /\ Len(chosen) = right THEN Full(q, TRUE)
                ELSE IF ~ partialCredit THEN Full(q, FALSE)
                ELSE Part(q, Credit(right, Len(chosen)), size)
  BY CreditOfChoices
<1>2. right = size /\ Len(chosen) = right <=> ToSet(chosen) = q.correct
  BY <1>1
<1>3. /\ Full(q, TRUE).isCorrect = TRUE /\ Full(q, TRUE).points = 100 * q.points
      /\ Full(q, FALSE).isCorrect = FALSE /\ Full(q, FALSE).points = 0
      /\ Part(q, Credit(right, Len(chosen)), size).isCorrect = FALSE
      /\ Part(q, Credit(right, Len(chosen)), size).points = round2(q.points, Credit(right, Len(chosen)), size)
  BY DEF Full, Part
<1>4. gradeChoices(q, chosen, partialCredit).points = Earned(q.points, size, partialCredit, right, Len(chosen))
  BY <1>1, <1>3 DEF Earned
<1>5. gradeChoices(q, chosen, partialCredit).isCorrect <=> ToSet(chosen) = q.correct
  <2>1. CASE ToSet(chosen) = q.correct
    <3>1. gradeChoices(q, chosen, partialCredit) = Full(q, TRUE)
      BY <1>1, <1>2, <2>1
    <3> QED
      BY <1>3, <2>1, <3>1
  <2>2. CASE ToSet(chosen) # q.correct
    <3>1. gradeChoices(q, chosen, partialCredit)
            \in {Full(q, FALSE), Part(q, Credit(right, Len(chosen)), size)}
      BY <1>1, <1>2, <2>2
    <3>2. gradeChoices(q, chosen, partialCredit).isCorrect = FALSE
      BY <1>3, <3>1
    <3> QED
      BY <2>2, <3>2
  <2> QED
    BY <2>1, <2>2
<1>6. right \in 0..size /\ right <= Len(chosen)
  BY <1>1
<1> QED
  <2> DEFINE is == gradeChoices(q, chosen, partialCredit).isCorrect
             points == gradeChoices(q, chosen, partialCredit).points
  <2>1. is <=> ToSet(chosen) = q.correct
    BY <1>5
  <2>2. points = Earned(q.points, size, partialCredit, right, Len(chosen))
    BY <1>4
  <2> HIDE DEF is, points
  <2>3. right = Cardinality(ToSet(chosen) \cap q.correct) /\ size = Cardinality(q.correct)
    BY <1>1
  <2> SUFFICES /\ right \in 0..size /\ right <= Len(chosen)
               /\ points = Earned(q.points, size, partialCredit, right, Len(chosen))
               /\ is <=> ToSet(chosen) = q.correct
               /\ right = size /\ Len(chosen) = right <=> ToSet(chosen) = q.correct
    BY <2>3, Zenon DEF is, points
  <2> QED
    BY <1>2, <1>6, <2>1, <2>2

(* gradeChoices gives the points in full to what it calls right and, unless there *)
(* are 200 right options for each point, to nothing else.                         *)
LEMMA ChoicesInFull ==
  ASSUME NEW q, ChoiceQuestion(q), NEW S, NEW chosen \in Distinct(S), NEW partialCredit \in BOOLEAN
  PROVE LET grade == gradeChoices(q, chosen, partialCredit) IN
        /\ grade.points \in 0..(100 * q.points)
        /\ grade.isCorrect => grade.points = 100 * q.points
        /\ Cardinality(q.correct) < 200 * q.points /\ grade.points = 100 * q.points => grade.isCorrect
<1> DEFINE right == Cardinality(ToSet(chosen) \cap q.correct)
           size == Cardinality(q.correct)
           p == q.points
           grade == gradeChoices(q, chosen, partialCredit)
<1>1. p \in Nat \ {0} /\ size \in Nat \ {0} /\ Len(chosen) \in Nat
  BY FS_CardinalityType, FS_EmptySet, SizeOfDistinct DEF ChoiceQuestion
<1>2. /\ right \in 0..size /\ right <= Len(chosen)
      /\ grade.points = Earned(p, size, partialCredit, right, Len(chosen))
      /\ grade.isCorrect <=> ToSet(chosen) = q.correct
      /\ right = size /\ Len(chosen) = right <=> ToSet(chosen) = q.correct
  BY GradeIsEarned, ZenonT(30)
<1> HIDE DEF right, size, p, grade
<1>3. /\ Earned(p, size, partialCredit, right, Len(chosen)) \in 0..(100 * p)
      /\ size < 200 * p /\ Earned(p, size, partialCredit, right, Len(chosen)) = 100 * p
           => right = size /\ Len(chosen) = right
  <2>1. Earned(p, size, partialCredit, right, Len(chosen)) \in 0..(100 * p)
    BY <1>1, <1>2, EarnedFits
  <2>2. size < 200 * p /\ Earned(p, size, partialCredit, right, Len(chosen)) = 100 * p
           => right = size /\ Len(chosen) = right
    BY <1>1, <1>2, EarnedFits
  <2> QED
    BY <2>1, <2>2
<1>4. right = size /\ Len(chosen) = right => Earned(p, size, partialCredit, right, Len(chosen)) = 100 * p
  BY DEF Earned
<1> QED
  BY <1>2, <1>3, <1>4 DEF size, p, grade

(* gradeChoices gives no more for a wrong pick more and no less for a right one, and *)
(* nothing unless most of the picks are right.                                       *)
LEMMA ChoicesAreFair ==
  ASSUME NEW q, ChoiceQuestion(q), NEW S, NEW chosen \in Distinct(S), NEW partialCredit \in BOOLEAN
  PROVE  LET grade(picks) == gradeChoices(q, picks, partialCredit)
             right == Cardinality(ToSet(chosen) \cap q.correct)
         IN /\ grade(chosen).points \in 0..(100 * q.points)
            /\ grade(chosen).isCorrect <=> ToSet(chosen) = q.correct
            /\ grade(chosen).isCorrect => grade(chosen).points = 100 * q.points
            /\ Cardinality(q.correct) < 200 * q.points /\ grade(chosen).points = 100 * q.points
                 => grade(chosen).isCorrect
            /\ \A o \in S \ ToSet(chosen) :
                 IF o \in q.correct THEN grade(Append(chosen, o)).points >= grade(chosen).points
                 ELSE grade(Append(chosen, o)).points <= grade(chosen).points
            /\ 2 * right <= Len(chosen) => grade(chosen).points = 0
<1> DEFINE grade(picks) == gradeChoices(q, picks, partialCredit)
           right == Cardinality(ToSet(chosen) \cap q.correct)
           size == Cardinality(q.correct)
           p == q.points
           earned(r, l) == Earned(p, size, partialCredit, r, l)
<1>1. p \in Nat \ {0} /\ size \in Nat \ {0} /\ Len(chosen) \in Nat /\ IsFiniteSet(q.correct)
  BY FS_CardinalityType, FS_EmptySet, SizeOfDistinct DEF ChoiceQuestion
<1>2. /\ right \in 0..size /\ right <= Len(chosen)
      /\ grade(chosen).points = earned(right, Len(chosen))
      /\ grade(chosen).isCorrect <=> ToSet(chosen) = q.correct
      /\ right = size /\ Len(chosen) = right <=> ToSet(chosen) = q.correct
  BY GradeIsEarned, ZenonT(30)
<1>3. ASSUME NEW o \in S \ ToSet(chosen)
      PROVE  IF o \in q.correct
             THEN right + 1 <= size /\ grade(Append(chosen, o)).points = earned(right + 1, Len(chosen) + 1)
             ELSE grade(Append(chosen, o)).points = earned(right, Len(chosen) + 1)
  <2> DEFINE now == Cardinality(ToSet(Append(chosen, o)) \cap q.correct)
  <2>1. Append(chosen, o) \in Distinct(S) /\ ToSet(Append(chosen, o)) = ToSet(chosen) \cup {o}
        /\ Len(Append(chosen, o)) = Len(chosen) + 1
    BY AppendedDistinct, AppendedSet DEF Distinct
  <2>2. now \in 0..size /\ grade(Append(chosen, o)).points = earned(now, Len(chosen) + 1)
    <3> DEFINE more == Append(chosen, o)
    <3>1. more \in Distinct(S) /\ Len(more) = Len(chosen) + 1
      BY <2>1
    <3> HIDE DEF more
    <3>2. /\ Cardinality(ToSet(more) \cap q.correct) \in 0..size
          /\ gradeChoices(q, more, partialCredit).points =
               Earned(p, size, partialCredit, Cardinality(ToSet(more) \cap q.correct), Len(more))
      BY <3>1, GradeIsEarned
    <3> QED
      BY <3>1, <3>2 DEF more
  <2>3. IsFiniteSet(ToSet(chosen) \cap q.correct) /\ o \notin ToSet(chosen) \cap q.correct
    BY <1>1, FS_Subset
  <2>4. now = IF o \in q.correct THEN right + 1 ELSE right
    <3>1. CASE o \in q.correct
      <4>1. ToSet(Append(chosen, o)) \cap q.correct = (ToSet(chosen) \cap q.correct) \cup {o}
        BY <2>1, <3>1
      <4> QED
        BY <2>3, <3>1, <4>1, FS_AddElement
    <3>2. CASE o \notin q.correct
      <4>1. ToSet(Append(chosen, o)) \cap q.correct = ToSet(chosen) \cap q.correct
        BY <2>1, <3>2
      <4> QED
        BY <3>2, <4>1
    <3> QED
      BY <3>1, <3>2
  <2> HIDE DEF now, grade, earned, right, size
  <2> QED
    BY <2>2, <2>4
<1>4. /\ earned(right, Len(chosen)) \in 0..(100 * p)
      /\ 2 * right <= Len(chosen) => earned(right, Len(chosen)) = 0
      /\ right + 1 <= size => earned(right, Len(chosen)) <= earned(right + 1, Len(chosen) + 1)
      /\ earned(right, Len(chosen) + 1) <= earned(right, Len(chosen))
  <2> HIDE DEF right, size, p
  <2>1. p \in Nat \ {0} /\ size \in Nat \ {0} /\ Len(chosen) \in Nat /\ right \in 0..size /\ right <= Len(chosen)
    BY <1>1, <1>2
  <2>2. earned(right, Len(chosen)) \in 0..(100 * p)
    BY <2>1, EarnedFits
  <2>3. 2 * right <= Len(chosen) => earned(right, Len(chosen)) = 0
    BY <2>1, EarnedFits
  <2>4. /\ right + 1 <= size => earned(right, Len(chosen)) <= earned(right + 1, Len(chosen) + 1)
        /\ earned(right, Len(chosen) + 1) <= earned(right, Len(chosen))
    BY <2>1, EarnedGrows
  <2> QED
    BY <2>2, <2>3, <2>4
<1>5. /\ grade(chosen).points \in 0..(100 * p)
      /\ grade(chosen).isCorrect => grade(chosen).points = 100 * p
      /\ size < 200 * p /\ grade(chosen).points = 100 * p => grade(chosen).isCorrect
  BY ChoicesInFull
<1> HIDE DEF earned, right, size, p
<1>6. ASSUME NEW o \in S \ ToSet(chosen)
      PROVE  IF o \in q.correct THEN grade(Append(chosen, o)).points >= grade(chosen).points
             ELSE grade(Append(chosen, o)).points <= grade(chosen).points
  <2> HIDE DEF grade
  <2>1. CASE o \in q.correct
    BY <1>2, <1>3, <1>4, <2>1
  <2>2. CASE o \notin q.correct
    BY <1>2, <1>3, <1>4, <2>2
  <2> QED
    BY <2>1, <2>2
<1>7. 2 * right <= Len(chosen) => grade(chosen).points = 0
  <2> HIDE DEF grade
  <2> QED
    BY <1>2, <1>4
<1> QED
  BY <1>2, <1>5, <1>6, <1>7 DEF right, size, p

Neighbours(seq) == {<<seq[i], seq[i + 1]>> : i \in 1..(Len(seq) - 1)}

(* Things that occur once have one pair of neighbours less than there are. *)
LEMMA NeighbourCount ==
  ASSUME NEW S, NEW seq \in Distinct(S), Len(seq) >= 1
  PROVE  IsFiniteSet(Neighbours(seq)) /\ Cardinality(Neighbours(seq)) = Len(seq) - 1
<1>1. Len(seq) \in Nat /\ DOMAIN seq = 1..Len(seq)
  BY DEF Distinct
<1>2. PICK k \in Nat : k = Len(seq) - 1
  <2>1. Len(seq) - 1 \in Nat
    BY <1>1
  <2> QED
    BY <2>1
<1> DEFINE I == 1..k
           pairs == [i \in I |-> <<seq[i], seq[i + 1]>>]
<1>3. \A i, j \in I : seq[i] = seq[j] => i = j
  <2>1. I \subseteq DOMAIN seq
    BY <1>1, <1>2
  <2> QED
    BY <2>1 DEF Distinct
<1>4. Neighbours(seq) = {<<seq[i], seq[i + 1]>> : i \in I}
  BY <1>2 DEF Neighbours
<1>5. IsFiniteSet(I) /\ Cardinality(I) = k
  BY IntervalSize
<1> HIDE DEF I
<1>6. pairs \in [I -> Neighbours(seq)]
  BY <1>4
<1>7. \A i, j \in I : pairs[i] = pairs[j] => i = j
  BY <1>3
<1>8. \A pair \in Neighbours(seq) : \E i \in I : pairs[i] = pair
  BY <1>4
<1> HIDE DEF pairs
<1>9. ExistsBijection(I, Neighbours(seq))
  BY <1>6, <1>7, <1>8, BijectionFound
<1> QED
  BY <1>2, <1>5, <1>9, FS_Bijection

(* Induction in the form the provers take: if there are any numbers of which *)
(* something fails, there is a least.                                        *)
LEMMA LeastExists ==
  ASSUME NEW T \in SUBSET Nat, T # {}
  PROVE  \E n \in T : \A k \in T : n <= k
<1>1. PICK n \in T : \A k \in T : ~ (<<k, n>> \in OpToRel(<, Nat))
  BY NatLessThanWellFounded, WFMin
<1>2. \A k \in T : ~ (k < n)
  BY <1>1 DEF OpToRel
<1> QED
  BY <1>2

(* Who has all the pairs has the order: each item stands right behind the one *)
(* before it, so the first cannot stand anywhere but in front.                *)
LEMMA PairsMakeTheOrder ==
  ASSUME NEW S, NEW c \in Distinct(S), NEW s \in Distinct(S), Len(s) = Len(c), Len(c) >= 2,
         Neighbours(c) \subseteq Neighbours(s)
  PROVE  s = c
<1> DEFINE n == Len(c)
<1>1. /\ n \in Nat /\ n >= 2 /\ DOMAIN c = 1..n /\ DOMAIN s = 1..n
      /\ c \in Seq(S) /\ s \in Seq(S)
  BY DEF Distinct
<1>2. \A i, j \in 1..n : s[i] = s[j] => i = j
  BY <1>1 DEF Distinct
<1>3. Len(s) = n
  OBVIOUS
<1> HIDE DEF n
<1>4. \A i \in 1..(n - 1) : \E j \in 1..(n - 1) : s[j] = c[i] /\ s[j + 1] = c[i + 1]
  <2> SUFFICES ASSUME NEW i \in 1..(n - 1)
               PROVE  \E j \in 1..(n - 1) : s[j] = c[i] /\ s[j + 1] = c[i + 1]
    OBVIOUS
  <2>1. <<c[i], c[i + 1]>> \in Neighbours(s)
    BY DEF Neighbours, n
  <2> QED
    BY <1>3, <2>1 DEF Neighbours
<1>5. \A i \in 1..n : \E j \in 1..n : s[j] = c[i]
  <2> SUFFICES ASSUME NEW i \in 1..n PROVE \E j \in 1..n : s[j] = c[i]
    OBVIOUS
  <2>1. CASE i # n
    <3>1. i \in 1..(n - 1)
      BY <1>1, <2>1
    <3>2. PICK j \in 1..(n - 1) : s[j] = c[i]
      BY <1>4, <3>1
    <3> QED
      BY <1>1, <3>2
  <2>2. CASE i = n
    <3>1. n - 1 \in 1..(n - 1) /\ n - 1 + 1 = n
      BY <1>1
    <3>2. PICK j \in 1..(n - 1) : s[j + 1] = c[n]
      <4>1. \E j \in 1..(n - 1) : s[j + 1] = c[n - 1 + 1]
        BY <1>4, <3>1
      <4> QED
        BY <3>1, <4>1
    <3>3. j + 1 \in 1..n
      BY <1>1
    <3> QED
      BY <2>2, <3>2, <3>3
  <2> QED
    BY <2>1, <2>2
<1> DEFINE at == [i \in 1..n |-> CHOOSE j \in 1..n : s[j] = c[i]]
<1>6. \A i \in 1..n : at[i] \in 1..n /\ s[at[i]] = c[i]
  BY <1>5
<1> HIDE DEF at
<1>7. \A i \in 1..(n - 1) : at[i + 1] = at[i] + 1
  <2> SUFFICES ASSUME NEW i \in 1..(n - 1) PROVE at[i + 1] = at[i] + 1
    OBVIOUS
  <2>1. PICK j \in 1..(n - 1) : s[j] = c[i] /\ s[j + 1] = c[i + 1]
    BY <1>4
  <2>2. i \in 1..n /\ i + 1 \in 1..n /\ j \in 1..n /\ j + 1 \in 1..n
    BY <1>1
  <2>3. at[i] = j
    BY <1>2, <1>6, <2>1, <2>2
  <2>4. at[i + 1] = j + 1
    BY <1>2, <1>6, <2>1, <2>2
  <2> QED
    BY <2>3, <2>4
<1>8. \A i \in 1..n : at[i] = at[1] + i - 1
  <2> DEFINE wrong == {i \in 1..n : at[i] # at[1] + i - 1}
  <2> SUFFICES ASSUME wrong # {} PROVE FALSE
    OBVIOUS
  <2>1. wrong \in SUBSET Nat
    BY <1>1
  <2> HIDE DEF wrong
  <2>2. PICK i \in wrong : \A k \in wrong : i <= k
    BY <2>1, LeastExists
  <2>3. i \in 1..n /\ at[i] # at[1] + i - 1
    BY <2>2 DEF wrong
  <2>4. 1 \in 1..n /\ at[1] \in 1..n
    BY <1>1, <1>6
  <2>5. i # 1
    BY <1>1, <2>3, <2>4
  <2>6. i - 1 \in 1..(n - 1) /\ i - 1 \in 1..n /\ i - 1 + 1 = i
    BY <1>1, <2>3, <2>5
  <2>7. i - 1 \notin wrong
    BY <2>2, <2>6
  <2>8. at[i - 1] = at[1] + (i - 1) - 1
    BY <2>6, <2>7 DEF wrong
  <2>9. at[i] = at[i - 1] + 1
    BY <1>7, <2>6
  <2> QED
    BY <2>3, <2>4, <2>6, <2>8, <2>9
<1>9. \A i \in 1..n : at[i] = i
  <2>1. 1 \in 1..n /\ n \in 1..n
    BY <1>1
  <2>2. at[1] \in 1..n /\ at[n] \in 1..n /\ at[n] = at[1] + n - 1
    BY <1>6, <1>8, <2>1
  <2>3. at[1] = 1
    BY <1>1, <2>2
  <2> QED
    BY <1>8, <2>3
<1>10. \A i \in 1..n : s[i] = c[i]
  BY <1>6, <1>9
<1> QED
  BY <1>1, <1>3, <1>10 DEF n

(* The grade of an ordering (gradeQuestion, by pairs of neighbours) is within the   *)
(* points of the question; it is right for the right order and for no other, and    *)
(* however many pairs a wrong order has in common with it, rounding never makes them *)
(* full points as long as there are at most 200 items for each point.               *)
THEOREM OrdersAreFair ==
  ASSUME NEW q, q.points \in Nat \ {0}, NEW S, q.correctOrder \in Distinct(S), NEW chosen \in Distinct(S),
         NEW partialCredit \in BOOLEAN
  PROVE  LET grade == gradeOrder(q, chosen, partialCredit)
         IN /\ grade.points \in 0..(100 * q.points)
            /\ grade.isCorrect <=> chosen = q.correctOrder
            /\ grade.isCorrect => grade.points = 100 * q.points
            /\ Len(q.correctOrder) <= 200 * q.points /\ grade.points = 100 * q.points => grade.isCorrect
<1> DEFINE n == Len(q.correctOrder)
           common == Neighbours(chosen) \cap Neighbours(q.correctOrder)
           grade == gradeOrder(q, chosen, partialCredit)
           p == q.points
<1>1. n \in Nat /\ Len(chosen) \in Nat /\ p \in Nat \ {0}
  BY SizeOfDistinct
<1>2. /\ Full(q, TRUE).isCorrect = TRUE /\ Full(q, TRUE).points = 100 * p
      /\ Full(q, FALSE).isCorrect = FALSE /\ Full(q, FALSE).points = 0
      /\ Part(q, Cardinality(common), n - 1).isCorrect = FALSE
      /\ Part(q, Cardinality(common), n - 1).points = round2(p, Cardinality(common), n - 1)
  BY DEF Full, Part
<1>3. CASE chosen = q.correctOrder
  <2>1. grade = Full(q, TRUE)
    BY <1>3 DEF gradeOrder
  <2>2. grade.isCorrect = TRUE /\ grade.points = 100 * p
    BY <1>2, <2>1
  <2>3. 100 * p \in 0..(100 * p)
    BY <1>1
  <2> HIDE DEF n, common, grade, p
  <2> QED
    BY <1>3, <2>2, <2>3 DEF n, grade, p
<1>4. CASE chosen # q.correctOrder /\ (~ partialCredit \/ n < 2 \/ Len(chosen) # n)
  <2>1. grade = Full(q, FALSE)
    BY <1>4 DEF gradeOrder
  <2>2. grade.isCorrect = FALSE /\ grade.points = 0
    BY <1>2, <2>1
  <2>3. 0 \in 0..(100 * p) /\ 0 # 100 * p
    BY <1>1
  <2> HIDE DEF n, common, grade, p
  <2> QED
    BY <1>4, <2>2, <2>3 DEF n, grade, p
<1>5. CASE chosen # q.correctOrder /\ ~ (~ partialCredit \/ n < 2 \/ Len(chosen) # n)
  <2>1. grade = Part(q, Cardinality(common), n - 1)
    BY <1>5 DEF gradeOrder, Neighbours
  <2>2. IsFiniteSet(Neighbours(q.correctOrder)) /\ Cardinality(Neighbours(q.correctOrder)) = n - 1
    BY <1>1, <1>5, NeighbourCount
  <2>3. /\ Cardinality(common) \in Nat /\ Cardinality(common) <= n - 1
        /\ Cardinality(common) = n - 1 => common = Neighbours(q.correctOrder)
    BY <2>2, FS_Subset, FS_CardinalityType
  <2>4. Cardinality(common) # n - 1
    <3> SUFFICES ASSUME Cardinality(common) = n - 1 PROVE FALSE
      OBVIOUS
    <3>1. Neighbours(q.correctOrder) \subseteq Neighbours(chosen)
      BY <2>3
    <3> QED
      BY <1>1, <1>5, <3>1, PairsMakeTheOrder
  <2>5. PICK den \in Nat \ {0}, num \in Nat : den = n - 1 /\ num = Cardinality(common) /\ num < den
    <3>1. n - 1 \in Nat \ {0}
      <4>1. ~ (n < 2)
        BY <1>5
      <4> HIDE DEF n
      <4> QED
        BY <1>1, <4>1
    <3>2. Cardinality(common) \in 0..(n - 1) /\ Cardinality(common) < n - 1
      BY <2>3, <2>4, <3>1
    <3>3. Cardinality(common) \in Nat
      BY <3>2
    <3> HIDE DEF n, common
    <3> QED
      BY <3>1, <3>2, <3>3
  <2>6. /\ round2(p, num, den) \in 0..(100 * p)
        /\ den < 200 * p => round2(p, num, den) < 100 * p
    <3>1. num \in 0..den /\ num < den
      BY <2>5
    <3> HIDE DEF p
    <3> QED
      BY <1>1, <3>1, RoundOf
  <2>7. grade.points = round2(p, num, den) /\ grade.isCorrect = FALSE
    BY <1>2, <2>1, <2>5
  <2>8. n <= 200 * p => den < 200 * p
    BY <1>1, <2>5
  <2> HIDE DEF n, common, grade, p
  <2>9. /\ grade.points \in 0..(100 * p)
        /\ n <= 200 * p => grade.points # 100 * p
    BY <1>1, <2>6, <2>7, <2>8
  <2> QED
    BY <1>5, <2>7, <2>9 DEF n, grade, p
<1> QED
  BY <1>3, <1>4, <1>5

(* Bounded numbers have a greatest. *)
LEMMA MaximumExists ==
  ASSUME NEW S \in SUBSET Nat, S # {}, NEW b \in Nat, \A s \in S : s <= b
  PROVE  \E s \in S : \A t \in S : t <= s
<1> DEFINE T == {n \in Nat : \A s \in S : s <= n}
<1>1. T \subseteq Nat /\ T # {}
  OBVIOUS
<1>2. PICK n \in T : \A k \in T : n <= k
  BY <1>1, LeastExists
<1>3. n \in S
  <2> SUFFICES ASSUME n \notin S PROVE FALSE
    OBVIOUS
  <2>1. n # 0
    <3>1. PICK s \in S : s <= n
      OBVIOUS
    <3> QED
      BY <3>1
  <2>2. n - 1 \in T
    BY <2>1
  <2> QED
    BY <1>2, <2>2
<1> QED
  BY <1>3

(* Max finds it. *)
LEMMA MaxFound ==
  ASSUME NEW n \in Nat, NEW S \in SUBSET (1..n), S # {}
  PROVE  Max(S) \in S /\ \A t \in S : t <= Max(S)
<1>1. \E s \in S : \A t \in S : t <= s
  <2>1. S \in SUBSET Nat /\ \A s \in S : s <= n
    OBVIOUS
  <2> QED
    BY <2>1, MaximumExists
<1>2. \E s \in S : \A t \in S : s >= t
  BY <1>1
<1> QED
  BY <1>2 DEF Max

(* The last of the first k places. *)
LEMMA MaxOfInterval ==
  ASSUME NEW k \in Nat \ {0}
  PROVE  Max(1..k) = k
<1>1. 1..k # {} /\ k \in 1..k
  OBVIOUS
<1>2. Max(1..k) \in 1..k /\ \A t \in 1..k : t <= Max(1..k)
  BY <1>1, MaxFound
<1> QED
  BY <1>1, <1>2

(* One step of ChosenOf: the pick is added if it is an option not yet chosen. *)
Added(options, seq, o) == IF o \in options \ ToSet(seq) THEN Append(seq, o) ELSE seq

(* A fold of the grading, of one sequence: a sum or the options chosen.  The fold is *)
(* a function from sets of places to what there is after them, the last one last.    *)
Step(f, acc, x) == IF f.sum THEN acc + x ELSE Added(f.options, acc, x)
Body(f, g, s) == IF s = {} THEN f.base ELSE Step(f, g[s \ {Max(s)}], f.seq[Max(s)])

(* There is such a function: on sets of at most k places for each k, by the least k *)
(* for which there is none.                                                         *)
LEMMA FoldExists ==
  ASSUME NEW f, NEW V, f.seq \in Seq(V)
  PROVE  \E h : h = [s \in SUBSET DOMAIN f.seq |-> Body(f, h, s)]
<1> DEFINE n == Len(f.seq)
           D == DOMAIN f.seq
           Good(k, g) == \A s \in SUBSET D : Cardinality(s) <= k => g[s] = Body(f, g, s)
<1>1. n \in Nat /\ D = 1..n /\ IsFiniteSet(D) /\ Cardinality(D) = n
  BY IntervalSize
<1>2. ASSUME NEW s \in SUBSET D, s # {}
      PROVE  /\ s \ {Max(s)} \in SUBSET D /\ Cardinality(s) \in Nat \ {0}
             /\ Cardinality(s \ {Max(s)}) = Cardinality(s) - 1
  <2>1. IsFiniteSet(s) /\ Max(s) \in s
    BY <1>1, <1>2, FS_Subset, MaxFound
  <2> QED
    BY <1>2, <2>1, FS_CardinalityType, FS_EmptySet, FS_RemoveElement
<1>3. ASSUME NEW k \in Nat PROVE \E g : Good(k, g)
  <2> DEFINE wrong == {x \in Nat : ~ \E g : Good(x, g)}
  <2> SUFFICES ASSUME wrong # {} PROVE FALSE
    OBVIOUS
  <2>1. PICK x \in wrong : \A y \in wrong : x <= y
    BY LeastExists
  <2>2. x # 0
    <3> DEFINE g == [s \in SUBSET D |-> f.base]
    <3>1. \A s \in SUBSET D : Cardinality(s) <= 0 => s = {}
      <4> SUFFICES ASSUME NEW s \in SUBSET D, s # {} PROVE ~ (Cardinality(s) <= 0)
        OBVIOUS
      <4>1. Cardinality(s) \in Nat \ {0}
        BY <1>2
      <4> QED
        BY <4>1
    <3>2. Good(0, g)
      BY <3>1 DEF Body
    <3> QED
      BY <3>2
  <2>3. x - 1 \in Nat /\ x - 1 \notin wrong
    BY <2>1, <2>2
  <2>4. PICK g : Good(x - 1, g)
    BY <2>3
  <2> DEFINE more == [s \in SUBSET D |-> IF Cardinality(s) <= x - 1 THEN g[s] ELSE Body(f, g, s)]
  <2>5. ASSUME NEW s \in SUBSET D, Cardinality(s) <= x PROVE more[s] = Body(f, more, s)
    <3>1. more[s] = Body(f, g, s)
      BY <2>4
    <3>2. CASE s = {}
      BY <3>1, <3>2 DEF Body
    <3>3. CASE s # {}
      <4>1. s \ {Max(s)} \in SUBSET D /\ Cardinality(s \ {Max(s)}) <= x - 1
        <5>1. /\ s \ {Max(s)} \in SUBSET D /\ Cardinality(s) \in Nat \ {0}
              /\ Cardinality(s \ {Max(s)}) = Cardinality(s) - 1
          BY <1>2, <3>3
        <5> QED
          BY <2>3, <2>5, <5>1
      <4>2. more[s \ {Max(s)}] = g[s \ {Max(s)}]
        BY <4>1
      <4> HIDE DEF more
      <4> QED
        BY <3>1, <3>3, <4>2 DEF Body
    <3> QED
      BY <3>2, <3>3
  <2>6. Good(x, more)
    BY <2>5
  <2> HIDE DEF Good
  <2> QED
    BY <2>1, <2>6
<1>4. PICK g : Good(n, g)
  BY <1>1, <1>3
<1> DEFINE h == [s \in SUBSET D |-> g[s]]
<1>5. \A s \in SUBSET D : h[s] = Body(f, h, s)
  <2> SUFFICES ASSUME NEW s \in SUBSET D PROVE h[s] = Body(f, h, s)
    OBVIOUS
  <2>1. Cardinality(s) <= n
    BY <1>1, FS_Subset
  <2>2. h[s] = Body(f, g, s)
    BY <1>4, <2>1
  <2>3. s # {} => h[s \ {Max(s)}] = g[s \ {Max(s)}]
    BY <1>2
  <2> HIDE DEF h
  <2> QED
    BY <2>2, <2>3 DEF Body
<1>6. h = [s \in SUBSET D |-> Body(f, h, s)]
  <2>1. h = [s \in SUBSET D |-> h[s]]
    OBVIOUS
  <2> HIDE DEF h
  <2> QED
    BY <1>5, <2>1
<1> HIDE DEF h
<1> QED
  BY <1>6

(* ChosenOf is such a fold, whose function is this one. *)
Fold(options, picks) ==
  CHOOSE g : g = [s \in SUBSET DOMAIN picks |->
    IF s = {} THEN <<>> ELSE Added(options, g[s \ {Max(s)}], picks[Max(s)])]

(* Unfolding ChosenOf down to its choice of a function. *)
LEMMA ChosenIsFold ==
  ASSUME NEW q, NEW picks
  PROVE  ChosenOf(q, picks) = Fold(ToSet(q.options), picks)[DOMAIN picks]
BY DEF ChosenOf, FoldLeft, MapThenFoldSet, Fold, Added

(* That function is defined on each set of places by one less. *)
LEMMA FoldFound ==
  ASSUME NEW options, NEW V, NEW picks \in Seq(V)
  PROVE  \A s \in SUBSET DOMAIN picks : Fold(options, picks)[s] =
           IF s = {} THEN <<>> ELSE Added(options, Fold(options, picks)[s \ {Max(s)}], picks[Max(s)])
<1> DEFINE f == [sum |-> FALSE, base |-> <<>>, options |-> options, seq |-> picks]
           Found(g) == g = [s \in SUBSET DOMAIN picks |->
             IF s = {} THEN <<>> ELSE Added(options, g[s \ {Max(s)}], picks[Max(s)])]
<1>1. f.sum = FALSE /\ f.base = <<>> /\ f.options = options /\ f.seq = picks
  OBVIOUS
<1> HIDE DEF f
<1>2. PICK h : h = [s \in SUBSET DOMAIN picks |-> Body(f, h, s)]
  BY <1>1, FoldExists
<1>3. \A s : Body(f, h, s) = IF s = {} THEN <<>> ELSE Added(options, h[s \ {Max(s)}], picks[Max(s)])
  BY <1>1 DEF Body, Step
<1>4. Found(h)
  BY <1>2, <1>3
<1>5. Found(Fold(options, picks))
  BY <1>4 DEF Fold
<1> HIDE DEF Fold
<1>6. Fold(options, picks) = [s \in SUBSET DOMAIN picks |->
        IF s = {} THEN <<>> ELSE Added(options, Fold(options, picks)[s \ {Max(s)}], picks[Max(s)])]
  BY <1>5
<1> DEFINE fold == Fold(options, picks)
<1> HIDE DEF fold
<1>7. fold = [s \in SUBSET DOMAIN picks |->
        IF s = {} THEN <<>> ELSE Added(options, fold[s \ {Max(s)}], picks[Max(s)])]
  BY <1>6 DEF fold
<1>8. \A s \in SUBSET DOMAIN picks : fold[s] =
           IF s = {} THEN <<>> ELSE Added(options, fold[s \ {Max(s)}], picks[Max(s)])
  BY <1>7
<1> QED
  BY <1>8 DEF fold

(* What ChosenOf has after the first k picks. *)
Prefix(options, picks, k) == Fold(options, picks)[1..k]

(* ChosenOf pick by pick. *)
LEMMA PrefixSteps ==
  ASSUME NEW options, NEW V, NEW picks \in Seq(V)
  PROVE  /\ Prefix(options, picks, 0) = <<>>
         /\ \A k \in 1..Len(picks) : Prefix(options, picks, k) = Added(options, Prefix(options, picks, k - 1), picks[k])
         /\ \A q : ToSet(q.options) = options => ChosenOf(q, picks) = Prefix(options, picks, Len(picks))
<1> DEFINE D == DOMAIN picks
           fold == Fold(options, picks)
<1>1. Len(picks) \in Nat /\ D = 1..Len(picks)
  OBVIOUS
<1>3. \A s \in SUBSET D : fold[s] = IF s = {} THEN <<>> ELSE Added(options, fold[s \ {Max(s)}], picks[Max(s)])
  BY FoldFound
<1> HIDE DEF fold
<1>4. fold[{}] = <<>>
  BY <1>3
<1>5. ASSUME NEW k \in 1..Len(picks)
      PROVE  fold[1..k] = Added(options, fold[1..(k - 1)], picks[k])
  <2>1. k \in Nat \ {0} /\ 1..k # {} /\ 1..k \in SUBSET D /\ (1..k) \ {k} = 1..(k - 1)
    BY <1>1
  <2>2. Max(1..k) = k
    BY <2>1, MaxOfInterval
  <2> QED
    BY <1>3, <2>1, <2>2
<1>6. 1..0 = {}
  OBVIOUS
<1>7. ASSUME NEW q, ToSet(q.options) = options PROVE ChosenOf(q, picks) = fold[1..Len(picks)]
  BY <1>1, <1>7, ChosenIsFold DEF fold
<1> QED
  BY <1>4, <1>5, <1>6, <1>7 DEF Prefix, fold

(* What ChosenOf makes of a form is some of the options, each once: those that *)
(* were picked.                                                                *)
LEMMA ChosenFound ==
  ASSUME NEW q, NEW V, NEW picks \in Seq(V)
  PROVE  /\ ChosenOf(q, picks) \in Distinct(ToSet(q.options))
         /\ ToSet(ChosenOf(q, picks)) = ToSet(picks) \cap ToSet(q.options)
<1> DEFINE n == Len(picks)
           options == ToSet(q.options)
           upTo(k) == Prefix(options, picks, k)
           Right(k) == upTo(k) \in Distinct(options) /\ ToSet(upTo(k)) = {picks[i] : i \in 1..k} \cap options
<1>1. n \in Nat /\ DOMAIN picks = 1..n
  OBVIOUS
<1>2. /\ upTo(0) = <<>>
      /\ \A k \in 1..n : upTo(k) = Added(options, upTo(k - 1), picks[k])
      /\ ChosenOf(q, picks) = upTo(n)
  BY PrefixSteps
<1>3. \A k \in 0..n : Right(k)
  <2> DEFINE wrong == {k \in 0..n : ~ Right(k)}
  <2> SUFFICES ASSUME wrong # {} PROVE FALSE
    OBVIOUS
  <2>1. PICK k \in wrong : \A j \in wrong : k <= j
    <3>1. wrong \in SUBSET Nat
      BY <1>1
    <3> HIDE DEF wrong
    <3> QED
      BY <3>1, LeastExists
  <2>2. k # 0
    <3>1. <<>> \in Distinct(options) /\ ToSet(<<>>) = {}
      BY DEF Distinct, ToSet
    <3>2. {picks[i] : i \in 1..0} = {}
      OBVIOUS
    <3>3. Right(0)
      BY <1>2, <3>1, <3>2
    <3> QED
      BY <2>1, <3>3
  <2>3. k \in 1..n /\ k - 1 \in 0..n /\ k - 1 \notin wrong
    BY <1>1, <2>1, <2>2
  <2>4. Right(k - 1)
    BY <2>3
  <2>5. {picks[i] : i \in 1..k} = {picks[i] : i \in 1..(k - 1)} \cup {picks[k]}
    <3>1. 1..k = 1..(k - 1) \cup {k}
      BY <1>1, <2>3
    <3> QED
      BY <3>1
  <2>6. upTo(k) = Added(options, upTo(k - 1), picks[k])
    BY <1>2, <2>3
  <2> HIDE DEF upTo, wrong, options
  <2>7. Right(k)
    <3>1. CASE picks[k] \in options \ ToSet(upTo(k - 1))
      <4>1. upTo(k) = Append(upTo(k - 1), picks[k])
        BY <2>6, <3>1 DEF Added, options
      <4>2. upTo(k - 1) \in Seq(options)
        BY <2>4 DEF Distinct
      <4>3. Append(upTo(k - 1), picks[k]) \in Distinct(options)
        BY <2>4, <3>1, AppendedDistinct
      <4>4. ToSet(Append(upTo(k - 1), picks[k])) = ToSet(upTo(k - 1)) \cup {picks[k]}
        BY <4>2, AppendedSet
      <4> QED
        BY <2>4, <2>5, <3>1, <4>1, <4>3, <4>4
    <3>2. CASE picks[k] \notin options \ ToSet(upTo(k - 1))
      <4>1. upTo(k) = upTo(k - 1)
        BY <2>6, <3>2 DEF Added, options
      <4> QED
        BY <2>4, <2>5, <3>2, <4>1
    <3> QED
      BY <3>1, <3>2
  <2> QED
    BY <2>1, <2>7 DEF wrong
<1>4. Right(n)
  BY <1>1, <1>3
<1>5. ToSet(picks) = {picks[i] : i \in 1..n}
  BY <1>1 DEF ToSet
<1> QED
  BY <1>2, <1>4, <1>5

(* Whatever order the options are shown in, the same of them are chosen. *)
LEMMA ChosenInAnyOrder ==
  ASSUME NEW q, NEW r, ToSet(r.options) = ToSet(q.options), NEW picks
  PROVE  ChosenOf(r, picks) = ChosenOf(q, picks)
BY ChosenIsFold

(* gradeChoices does not look at the order of the picks. *)
LEMMA SameChoicesSameGrade ==
  ASSUME NEW q, ChoiceQuestion(q), NEW S, NEW chosen \in Distinct(S), NEW other \in Distinct(S),
         ToSet(chosen) = ToSet(other), NEW partialCredit \in BOOLEAN
  PROVE  gradeChoices(q, chosen, partialCredit).points = gradeChoices(q, other, partialCredit).points
<1>1. Len(chosen) = Len(other)
  BY SizeOfDistinct
<1>2. /\ gradeChoices(q, chosen, partialCredit).points
           = Earned(q.points, Cardinality(q.correct), partialCredit, Cardinality(ToSet(chosen) \cap q.correct), Len(chosen))
      /\ gradeChoices(q, other, partialCredit).points
           = Earned(q.points, Cardinality(q.correct), partialCredit, Cardinality(ToSet(other) \cap q.correct), Len(other))
  BY GradeIsEarned, ZenonT(30)
<1> QED
  BY <1>1, <1>2

(* A question as buildOptionRows and validateOptions of src/server/services/quiz-service *)
(* let a teacher save it.                                                               *)
Question(q) ==
  LET O == ToSet(q.options) IN
  /\ q \in [type : Types, options : Seq(O), correct : SUBSET O, correctOrder : Distinct(O), points : Nat \ {0}]
  /\ q.type # "FILL_BLANK" => q.options \in Distinct(O)
  /\ q.type = "MULTIPLE_CHOICE" => q.correct # {}
  /\ q.type \in {"SINGLE_CHOICE", "TRUE_FALSE"} => \E o \in O : q.correct = {o}

(* All the points for what is right, none for what is wrong. *)
LEMMA FullGrade ==
  ASSUME NEW q, q.points \in Nat \ {0}, NEW isCorrect \in BOOLEAN
  PROVE  /\ Full(q, isCorrect).points \in 0..(100 * q.points)
         /\ Full(q, isCorrect).isCorrect <=> isCorrect
         /\ Full(q, isCorrect).points = 100 * q.points <=> isCorrect
<1>1. 100 * q.points \in Nat \ {0}
  OBVIOUS
<1> QED
  BY <1>1 DEF Full

(* A question has at least as many options as right ones. *)
LEMMA OptionCount ==
  ASSUME NEW q, Question(q)
  PROVE  /\ Len(q.options) \in Nat
         /\ q.type = "MULTIPLE_CHOICE" =>
              /\ ChoiceQuestion(q) /\ Cardinality(q.correct) \in Nat /\ Cardinality(q.correct) <= Len(q.options)
              /\ IsFiniteSet(ToSet(q.options)) /\ Cardinality(ToSet(q.options)) = Len(q.options)
         /\ q.type = "ORDERING" => Len(q.correctOrder) \in Nat /\ Len(q.correctOrder) <= Len(q.options)
<1>1. ASSUME q.type # "FILL_BLANK"
      PROVE  IsFiniteSet(ToSet(q.options)) /\ Cardinality(ToSet(q.options)) = Len(q.options)
  BY <1>1, SizeOfDistinct DEF Question
<1>2. ASSUME q.type = "MULTIPLE_CHOICE"
      PROVE  ChoiceQuestion(q) /\ Cardinality(q.correct) \in Nat /\ Cardinality(q.correct) <= Len(q.options)
  <2>1. q.correct \subseteq ToSet(q.options) /\ q.correct # {} /\ q.points \in Nat \ {0}
    BY <1>2 DEF Question
  <2> QED
    BY <1>1, <1>2, <2>1, FS_Subset, FS_CardinalityType DEF ChoiceQuestion
<1>3. ASSUME q.type = "ORDERING"
      PROVE  Len(q.correctOrder) \in Nat /\ Len(q.correctOrder) <= Len(q.options)
  <2>1. q.correctOrder \in Distinct(ToSet(q.options))
    BY <1>3 DEF Question
  <2>2. /\ ToSet(q.correctOrder) \subseteq ToSet(q.options) /\ Len(q.correctOrder) \in Nat
        /\ Cardinality(ToSet(q.correctOrder)) = Len(q.correctOrder)
    BY <2>1, SizeOfDistinct
  <2> QED
    BY <1>1, <1>3, <2>2, FS_Subset
<1>4. Len(q.options) \in Nat
  BY DEF Question
<1> QED
  BY <1>1, <1>2, <1>3, <1>4

(* Whatever a form posts, options of another question and repeated ones included,    *)
(* gradeQuestion awards from nothing to the points of the question; all of them when *)
(* the answer is right, and only then unless the question has 200 options for each   *)
(* point, which is where round2 would round a partial credit up to the full one.     *)
THEOREM GradesAreFair ==
  ASSUME NEW q, Question(q), NEW V, NEW picks \in Seq(V), NEW partialCredit \in BOOLEAN
  PROVE  LET grade == gradeQuestion(q, picks, partialCredit) IN
         /\ grade.points \in 0..(100 * q.points)
         /\ grade.isCorrect => grade.points = 100 * q.points
         /\ Len(q.options) < 200 * q.points /\ grade.points = 100 * q.points => grade.isCorrect
<1> DEFINE chosen == ChosenOf(q, picks)
           grade == gradeQuestion(q, picks, partialCredit)
           p == q.points
           n == Len(q.options)
           Fair(g) == /\ g.points \in 0..(100 * p)
                      /\ g.isCorrect => g.points = 100 * p
                      /\ n < 200 * p /\ g.points = 100 * p => g.isCorrect
<1>1. chosen \in Distinct(ToSet(q.options))
  BY ChosenFound
<1>2. n \in Nat /\ p \in Nat \ {0} /\ q.type \in Types
  BY OptionCount DEF Question
<1>3. ASSUME NEW isCorrect \in BOOLEAN PROVE Fair(Full(q, isCorrect))
  BY <1>2, FullGrade
<1>4. CASE q.type \in {"SINGLE_CHOICE", "TRUE_FALSE"}
  <2>1. \E isCorrect \in BOOLEAN : grade = Full(q, isCorrect)
    BY <1>4 DEF gradeQuestion
  <2> HIDE DEF grade, Fair
  <2>2. Fair(grade)
    BY <1>3, <2>1
  <2> QED
    BY <2>2 DEF Fair, grade, n, p
<1>5. CASE q.type = "FILL_BLANK"
  <2>1. \E isCorrect \in BOOLEAN : grade = Full(q, isCorrect)
    BY <1>5 DEF gradeQuestion
  <2> HIDE DEF grade, Fair
  <2>2. Fair(grade)
    BY <1>3, <2>1
  <2> QED
    BY <2>2 DEF Fair, grade, n, p
<1>6. CASE q.type = "MULTIPLE_CHOICE"
  <2>1. grade = gradeChoices(q, chosen, partialCredit)
    BY <1>6 DEF gradeQuestion
  <2>2. ChoiceQuestion(q) /\ Cardinality(q.correct) \in Nat /\ Cardinality(q.correct) <= n
    BY <1>6, OptionCount
  <2> HIDE DEF chosen, grade
  <2>3. /\ grade.points \in 0..(100 * p)
        /\ grade.isCorrect => grade.points = 100 * p
        /\ Cardinality(q.correct) < 200 * p /\ grade.points = 100 * p => grade.isCorrect
    BY <1>1, <2>1, <2>2, ChoicesInFull
  <2> HIDE DEF n, p
  <2> QED
    BY <1>2, <2>2, <2>3 DEF grade, n, p
<1>7. CASE q.type = "ORDERING"
  <2>1. grade = gradeOrder(q, chosen, partialCredit)
    BY <1>7 DEF gradeQuestion
  <2>2. q.correctOrder \in Distinct(ToSet(q.options)) /\ Len(q.correctOrder) \in Nat /\ Len(q.correctOrder) <= n
    BY <1>7, OptionCount DEF Question
  <2> HIDE DEF chosen, grade
  <2>3. /\ grade.points \in 0..(100 * p)
        /\ grade.isCorrect => grade.points = 100 * p
        /\ Len(q.correctOrder) <= 200 * p /\ grade.points = 100 * p => grade.isCorrect
    BY <1>1, <1>2, <2>1, <2>2, OrdersAreFair
  <2> HIDE DEF n, p
  <2> QED
    BY <1>2, <2>2, <2>3 DEF grade, n, p
<1> QED
  BY <1>2, <1>4, <1>5, <1>6, <1>7 DEF Types

(* The order in which the options are shown does not change a grade. *)
LEMMA ShufflingIsFair ==
  ASSUME NEW q, Question(q), NEW shown \in Seq(ToSet(q.options)), ToSet(shown) = ToSet(q.options),
         NEW V, NEW picks \in Seq(V), NEW partialCredit \in BOOLEAN
  PROVE  gradeQuestion([q EXCEPT !.options = shown], picks, partialCredit) = gradeQuestion(q, picks, partialCredit)
<1> DEFINE r == [q EXCEPT !.options = shown]
           chosen == ChosenOf(q, picks)
           First(options) == \E i \in DOMAIN options :
             /\ chosen = <<options[i]>> /\ options[i] \in q.correct
             /\ \A j \in 1..(i - 1) : options[j] \notin q.correct
<1>1. /\ r.type = q.type /\ r.points = q.points /\ r.correct = q.correct
      /\ r.correctOrder = q.correctOrder /\ r.options = shown
      /\ q.type \in Types
  BY DEF Question
<1> HIDE DEF r
<1>2. ChosenOf(r, picks) = chosen
  BY <1>1, ChosenInAnyOrder
<1> HIDE DEF chosen
<1>3. \A isCorrect : Full(r, isCorrect) = Full(q, isCorrect)
  BY <1>1 DEF Full
<1>4. \A num, den : Part(r, num, den) = Part(q, num, den)
  BY <1>1 DEF Part
<1>5. CASE q.type \in {"SINGLE_CHOICE", "TRUE_FALSE"}
  <2>1. PICK o \in ToSet(q.options) : q.correct = {o}
    BY <1>5 DEF Question
  <2>2. ASSUME NEW options \in Seq(ToSet(q.options)), ToSet(options) = ToSet(q.options)
        PROVE  First(options) <=> chosen = <<o>>
    <3>1. ASSUME First(options) PROVE chosen = <<o>>
      BY <2>1, <3>1
    <3>2. ASSUME chosen = <<o>> PROVE First(options)
      <4> DEFINE places == {i \in DOMAIN options : options[i] = o}
      <4>1. places # {} /\ places \in SUBSET Nat /\ DOMAIN options = 1..Len(options) /\ Len(options) \in Nat
        <5>1. o \in ToSet(options)
          BY <2>2
        <5>2. DOMAIN options = 1..Len(options) /\ Len(options) \in Nat
          OBVIOUS
        <5>3. \E i \in DOMAIN options : options[i] = o
          BY <5>1 DEF ToSet
        <5> QED
          BY <5>2, <5>3
      <4> HIDE DEF places
      <4>2. PICK i \in places : \A j \in places : i <= j
        BY <4>1, LeastExists
      <4>3. i \in 1..Len(options) /\ options[i] = o
        BY <4>1, <4>2 DEF places
      <4>4. ASSUME NEW j \in 1..(i - 1) PROVE options[j] # o
        <5>1. j \in 1..Len(options) /\ ~ (i <= j)
          BY <4>1, <4>3
        <5> QED
          BY <4>1, <4>2, <5>1 DEF places
      <4> QED
        BY <2>1, <3>2, <4>1, <4>3, <4>4
    <3> QED
      BY <3>1, <3>2
  <2>3. First(shown) <=> First(q.options)
    <3>1. q.options \in Seq(ToSet(q.options))
      BY DEF Question
    <3> HIDE DEF First
    <3> QED
      BY <2>2, <3>1
  <2>4. gradeQuestion(q, picks, partialCredit) = Full(q, First(q.options))
    BY <1>5 DEF gradeQuestion, chosen
  <2>5. gradeQuestion(r, picks, partialCredit) = Full(r, First(shown))
    BY <1>1, <1>2, <1>5 DEF gradeQuestion
  <2>6. First(shown) = First(q.options)
    BY <2>3
  <2> HIDE DEF First
  <2> QED
    BY <1>3, <2>4, <2>5, <2>6 DEF r
<1>6. CASE q.type = "FILL_BLANK"
  <2>1. gradeQuestion(q, picks, partialCredit) = Full(q, picks # <<>> /\ Head(picks) \in ToSet(q.options))
    BY <1>6 DEF gradeQuestion
  <2>2. gradeQuestion(r, picks, partialCredit) = Full(r, picks # <<>> /\ Head(picks) \in ToSet(q.options))
    BY <1>1, <1>6 DEF gradeQuestion
  <2> QED
    BY <1>3, <2>1, <2>2 DEF r
<1>7. CASE q.type = "MULTIPLE_CHOICE"
  <2>1. gradeQuestion(q, picks, partialCredit) = gradeChoices(q, chosen, partialCredit)
    BY <1>7 DEF gradeQuestion, chosen
  <2>2. gradeQuestion(r, picks, partialCredit) = gradeChoices(r, chosen, partialCredit)
    BY <1>1, <1>2, <1>7 DEF gradeQuestion
  <2>3. gradeChoices(r, chosen, partialCredit) = gradeChoices(q, chosen, partialCredit)
    BY <1>1 DEF gradeChoices, Full, Part
  <2> QED
    BY <2>1, <2>2, <2>3 DEF r
<1>8. CASE q.type = "ORDERING"
  <2>1. gradeQuestion(q, picks, partialCredit) = gradeOrder(q, chosen, partialCredit)
    BY <1>8 DEF gradeQuestion, chosen
  <2>2. gradeQuestion(r, picks, partialCredit) = gradeOrder(r, chosen, partialCredit)
    BY <1>1, <1>2, <1>8 DEF gradeQuestion
  <2>3. gradeOrder(r, chosen, partialCredit) = gradeOrder(q, chosen, partialCredit)
    BY <1>1 DEF gradeOrder, Full, Part
  <2> QED
    BY <2>1, <2>2, <2>3 DEF r
<1> QED
  BY <1>1, <1>5, <1>6, <1>7, <1>8 DEF Types

(* Of a question with several right options, with or without partial credit: to pick *)
(* a wrong option more never earns more and to pick a right one more never earns     *)
(* less, and ticking every box earns nothing unless most of them are right           *)
(* (gradeQuestion subtracts the wrong picks from the right ones).                    *)
THEOREM MorePicksAreFair ==
  ASSUME NEW q, Question(q), q.type = "MULTIPLE_CHOICE", NEW V, NEW picks \in Seq(V),
         NEW partialCredit \in BOOLEAN
  PROVE  LET points(posted) == gradeQuestion(q, posted, partialCredit).points IN
         /\ \A o \in ToSet(q.options) \ q.correct : points(Append(picks, o)) <= points(picks)
         /\ \A o \in q.correct : points(Append(picks, o)) >= points(picks)
         /\ ToSet(q.options) \subseteq ToSet(picks) /\ 2 * Cardinality(q.correct) <= Len(q.options)
              => points(picks) = 0
<1> DEFINE O == ToSet(q.options)
           chosen == ChosenOf(q, picks)
           points(posted) == gradeQuestion(q, posted, partialCredit).points
           earned(choices) == gradeChoices(q, choices, partialCredit).points
<1>1. /\ ChoiceQuestion(q) /\ q.correct \subseteq O /\ Cardinality(O) = Len(q.options)
  BY OptionCount DEF Question
<1>2. \A posted : points(posted) = earned(ChosenOf(q, posted))
  BY DEF gradeQuestion
<1>3. chosen \in Distinct(O) /\ ToSet(chosen) = ToSet(picks) \cap O
  BY ChosenFound
<1>4. /\ earned(chosen) \in Nat
      /\ \A o \in O \ ToSet(chosen) :
           IF o \in q.correct THEN earned(Append(chosen, o)) >= earned(chosen)
           ELSE earned(Append(chosen, o)) <= earned(chosen)
      /\ 2 * Cardinality(ToSet(chosen) \cap q.correct) <= Len(chosen) => earned(chosen) = 0
  <2> HIDE DEF chosen, O
  <2>1. gradeChoices(q, chosen, partialCredit).points \in 0..(100 * q.points)
    BY <1>1, <1>3, ChoicesInFull
  <2>2. ASSUME NEW o \in O \ ToSet(chosen)
        PROVE  IF o \in q.correct
               THEN gradeChoices(q, Append(chosen, o), partialCredit).points >= gradeChoices(q, chosen, partialCredit).points
               ELSE gradeChoices(q, Append(chosen, o), partialCredit).points <= gradeChoices(q, chosen, partialCredit).points
    BY <1>1, <1>3, ChoicesAreFair
  <2>3. 2 * Cardinality(ToSet(chosen) \cap q.correct) <= Len(chosen)
          => gradeChoices(q, chosen, partialCredit).points = 0
    BY <1>1, <1>3, ChoicesAreFair
  <2>4. q.points \in Nat
    BY <1>1 DEF ChoiceQuestion
  <2> QED
    BY <2>1, <2>2, <2>3, <2>4
<1>5. ASSUME NEW o \in O
      PROVE  /\ o \in ToSet(chosen) => earned(ChosenOf(q, Append(picks, o))) = earned(chosen)
             /\ o \notin ToSet(chosen) => earned(ChosenOf(q, Append(picks, o))) = earned(Append(chosen, o))
  <2> DEFINE posted == Append(picks, o)
             more == ChosenOf(q, posted)
  <2>1. posted \in Seq(V \cup {o}) /\ ToSet(posted) = ToSet(picks) \cup {o}
    <3>1. picks \in Seq(V \cup {o})
      OBVIOUS
    <3> QED
      BY <3>1, AppendedSet
  <2>2. more \in Distinct(O) /\ ToSet(more) = (ToSet(picks) \cup {o}) \cap O
    <3> HIDE DEF posted
    <3> QED
      BY <2>1, ChosenFound
  <2>3. ToSet(more) = ToSet(chosen) \cup {o}
    BY <1>3, <2>2
  <2> HIDE DEF more, chosen, O
  <2>4. ASSUME o \in ToSet(chosen) PROVE earned(more) = earned(chosen)
    <3>1. ToSet(more) = ToSet(chosen)
      BY <2>3, <2>4
    <3> QED
      BY <1>1, <1>3, <2>2, <3>1, SameChoicesSameGrade
  <2>5. ASSUME o \notin ToSet(chosen) PROVE earned(more) = earned(Append(chosen, o))
    <3>1. Append(chosen, o) \in Distinct(O) /\ ToSet(Append(chosen, o)) = ToSet(more)
      BY <1>3, <2>3, <2>5, AppendedDistinct, AppendedSet DEF Distinct
    <3> HIDE DEF earned
    <3> QED
      BY <1>1, <2>2, <3>1, SameChoicesSameGrade DEF earned
  <2> QED
    BY <2>4, <2>5 DEF more
<1>6. ASSUME O \subseteq ToSet(picks), 2 * Cardinality(q.correct) <= Len(q.options) PROVE earned(chosen) = 0
  <2>1. ToSet(chosen) = O
    BY <1>3, <1>6
  <2>2. Len(chosen) = Len(q.options)
    BY <1>1, <1>3, <2>1, SizeOfDistinct
  <2>3. ToSet(chosen) \cap q.correct = q.correct
    BY <1>1, <2>1
  <2> QED
    BY <1>4, <1>6, <2>2, <2>3
<1> HIDE DEF earned, chosen, points
<1>7. points(picks) = earned(chosen)
  BY <1>2 DEF chosen
<1>8. ASSUME NEW o \in O \ q.correct PROVE points(Append(picks, o)) <= points(picks)
  BY <1>2, <1>4, <1>5, <1>7, <1>8
<1>9. ASSUME NEW o \in q.correct PROVE points(Append(picks, o)) >= points(picks)
  BY <1>1, <1>2, <1>4, <1>5, <1>7, <1>9
<1> QED
  BY <1>6, <1>7, <1>8, <1>9 DEF points, O

(* The sum of a sequence is the fold whose function is this one. *)
SumFold(seq) ==
  CHOOSE g : g = [s \in SUBSET DOMAIN seq |-> IF s = {} THEN 0 ELSE g[s \ {Max(s)}] + seq[Max(s)]]

(* Unfolding a sum down to its choice of a function. *)
LEMMA SumIsFold ==
  ASSUME NEW seq
  PROVE  FoldLeft(+, 0, seq) = SumFold(seq)[DOMAIN seq]
BY DEF FoldLeft, MapThenFoldSet, SumFold

(* That function is defined on each set of places by one less. *)
LEMMA SumFound ==
  ASSUME NEW V, NEW seq \in Seq(V)
  PROVE  \A s \in SUBSET DOMAIN seq :
           SumFold(seq)[s] = IF s = {} THEN 0 ELSE SumFold(seq)[s \ {Max(s)}] + seq[Max(s)]
<1> DEFINE f == [sum |-> TRUE, base |-> 0, options |-> {}, seq |-> seq]
           Found(g) == g = [s \in SUBSET DOMAIN seq |-> IF s = {} THEN 0 ELSE g[s \ {Max(s)}] + seq[Max(s)]]
<1>1. f.sum = TRUE /\ f.base = 0 /\ f.seq = seq
  OBVIOUS
<1> HIDE DEF f
<1>2. PICK h : h = [s \in SUBSET DOMAIN seq |-> Body(f, h, s)]
  BY <1>1, FoldExists
<1>3. \A s : Body(f, h, s) = IF s = {} THEN 0 ELSE h[s \ {Max(s)}] + seq[Max(s)]
  BY <1>1 DEF Body, Step
<1>4. Found(h)
  BY <1>2, <1>3
<1>5. Found(SumFold(seq))
  BY <1>4 DEF SumFold
<1> DEFINE fold == SumFold(seq)
<1>6. fold = [s \in SUBSET DOMAIN seq |-> IF s = {} THEN 0 ELSE fold[s \ {Max(s)}] + seq[Max(s)]]
  BY <1>5
<1> HIDE DEF fold
<1>7. \A s \in SUBSET DOMAIN seq : fold[s] = IF s = {} THEN 0 ELSE fold[s \ {Max(s)}] + seq[Max(s)]
  BY <1>6
<1> QED
  BY <1>7 DEF fold

(* A sum number by number. *)
LEMMA SumSteps ==
  ASSUME NEW V, NEW seq \in Seq(V)
  PROVE  \E sum : /\ sum[0] = 0
                  /\ \A k \in 1..Len(seq) : sum[k] = sum[k - 1] + seq[k]
                  /\ FoldLeft(+, 0, seq) = sum[Len(seq)]
<1> DEFINE fold == SumFold(seq)
           sum == [k \in 0..Len(seq) |-> fold[1..k]]
<1>1. Len(seq) \in Nat /\ DOMAIN seq = 1..Len(seq)
  OBVIOUS
<1>2. \A s \in SUBSET DOMAIN seq : fold[s] = IF s = {} THEN 0 ELSE fold[s \ {Max(s)}] + seq[Max(s)]
  BY SumFound
<1>3. FoldLeft(+, 0, seq) = fold[1..Len(seq)]
  BY <1>1, SumIsFold
<1> HIDE DEF fold
<1>4. sum[0] = 0
  <2>1. 1..0 = {}
    OBVIOUS
  <2>2. 0 \in 0..Len(seq)
    BY <1>1
  <2>3. sum[0] = fold[{}]
    BY <2>1, <2>2
  <2> QED
    BY <1>2, <2>3
<1>5. ASSUME NEW k \in 1..Len(seq) PROVE sum[k] = sum[k - 1] + seq[k]
  <2>1. k \in Nat \ {0} /\ 1..k # {} /\ 1..k \in SUBSET DOMAIN seq /\ (1..k) \ {k} = 1..(k - 1)
    <3>1. k \in Nat \ {0} /\ k <= Len(seq)
      BY <1>1
    <3>2. 1..k \in SUBSET (1..Len(seq))
      BY <1>1, <3>1
    <3>3. (1..k) \ {k} = 1..(k - 1) /\ k \in 1..k
      BY <3>1
    <3> QED
      BY <1>1, <3>1, <3>2, <3>3
  <2>2. Max(1..k) = k
    BY <2>1, MaxOfInterval
  <2>3. fold[1..k] = fold[1..(k - 1)] + seq[k]
    BY <1>2, <2>1, <2>2
  <2>4. k \in 0..Len(seq) /\ k - 1 \in 0..Len(seq)
    BY <1>1
  <2> QED
    BY <2>3, <2>4
<1>6. FoldLeft(+, 0, seq) = sum[Len(seq)]
  <2>1. Len(seq) \in 0..Len(seq)
    BY <1>1
  <2> QED
    BY <1>3, <2>1
<1> HIDE DEF sum
<1> QED
  BY <1>4, <1>5, <1>6

(* If each number is at most c times another, so are their sums, which differ if any *)
(* two do; and as many numbers above zero add up to at least their count.            *)
LEMMA SumsCompare ==
  ASSUME NEW a \in Seq(Nat), NEW b \in Seq(Nat), Len(a) = Len(b), NEW c \in Nat,
         \A i \in 1..Len(a) : a[i] <= c * b[i]
  PROVE  /\ FoldLeft(+, 0, a) \in Nat /\ FoldLeft(+, 0, b) \in Nat
         /\ FoldLeft(+, 0, a) <= c * FoldLeft(+, 0, b)
         /\ (\A i \in 1..Len(a) : a[i] = c * b[i]) => FoldLeft(+, 0, a) = c * FoldLeft(+, 0, b)
         /\ \A i \in 1..Len(a) : a[i] < c * b[i] => FoldLeft(+, 0, a) < c * FoldLeft(+, 0, b)
         /\ (\A i \in 1..Len(a) : b[i] > 0) => FoldLeft(+, 0, b) >= Len(b)
<1> DEFINE n == Len(a)
           Same == \A i \in 1..n : a[i] = c * b[i]
           Less(i) == a[i] < c * b[i]
           Positive == \A i \in 1..n : b[i] > 0
<1>1. n \in Nat /\ Len(b) = n /\ \A i \in 1..n : a[i] \in Nat /\ b[i] \in Nat
  OBVIOUS
<1>2. PICK x : x[0] = 0 /\ (\A k \in 1..n : x[k] = x[k - 1] + a[k]) /\ FoldLeft(+, 0, a) = x[n]
  BY SumSteps
<1>3. PICK y : y[0] = 0 /\ (\A k \in 1..n : y[k] = y[k - 1] + b[k]) /\ FoldLeft(+, 0, b) = y[n]
  BY SumSteps
<1> DEFINE Right(k) == /\ x[k] \in Nat /\ y[k] \in Nat /\ x[k] <= c * y[k]
                       /\ Same => x[k] = c * y[k]
                       /\ \A i \in 1..k : Less(i) => x[k] < c * y[k]
                       /\ Positive => y[k] >= k
           wrong == {k \in 0..n : ~ Right(k)}
<1>4. wrong = {}
  <2> SUFFICES ASSUME wrong # {} PROVE FALSE
    OBVIOUS
  <2>1. PICK k \in wrong : \A j \in wrong : k <= j
    <3>1. wrong \in SUBSET Nat
      BY <1>1
    <3> HIDE DEF wrong
    <3> QED
      BY <3>1, LeastExists
  <2>2. Right(0)
    <3>1. x[0] = 0 /\ y[0] = 0
      BY <1>2, <1>3
    <3>2. c * 0 = 0 /\ 1..0 = {}
      OBVIOUS
    <3> HIDE DEF Same, Positive, Less
    <3> QED
      BY <3>1, <3>2
  <2>3. k \in 1..n /\ k - 1 \in 0..n /\ k - 1 \notin wrong
    <3>1. k # 0 /\ k \in 0..n
      BY <2>1, <2>2
    <3>2. k - 1 \notin wrong
      <4> HIDE DEF wrong
      <4> QED
        BY <1>1, <2>1, <3>1
    <3> QED
      BY <1>1, <3>1, <3>2
  <2>4. Right(k - 1)
    BY <2>3
  <2>5. /\ x[k] = x[k - 1] + a[k] /\ y[k] = y[k - 1] + b[k]
        /\ a[k] \in Nat /\ b[k] \in Nat /\ a[k] <= c * b[k]
        /\ Same => a[k] = c * b[k]
        /\ Positive => b[k] > 0
    BY <1>1, <1>2, <1>3, <2>3
  <2>10. Less(k) => a[k] < c * b[k]
    OBVIOUS
  <2> HIDE DEF Same, Positive, wrong, n, Less
  <2>6. /\ y[k - 1] \in Nat /\ x[k - 1] \in Nat /\ k \in Nat
        /\ x[k - 1] <= c * y[k - 1] /\ a[k] \in Nat /\ b[k] \in Nat /\ a[k] <= c * b[k]
    BY <1>1, <2>3, <2>4, <2>5
  <2>7. PICK u \in Nat, v \in Nat, d \in Nat, e \in Nat :
          u = x[k - 1] /\ v = y[k - 1] /\ d = a[k] /\ e = b[k] /\ u <= c * v /\ d <= c * e
    BY <2>6
  <2>8. /\ u + d \in Nat /\ v + e \in Nat /\ u + d <= c * (v + e)
        /\ u = c * v /\ d = c * e => u + d = c * (v + e)
        /\ u < c * v \/ d < c * e => u + d < c * (v + e)
    <3>1. c * (v + e) = c * v + c * e /\ c * v \in Nat /\ c * e \in Nat
      OBVIOUS
    <3>2. PICK cv \in Nat, ce \in Nat : cv = c * v /\ ce = c * e
      BY <3>1
    <3>3. c * (v + e) = cv + ce /\ u <= cv /\ d <= ce
      BY <2>7, <3>1, <3>2
    <3>4. /\ u + d <= cv + ce /\ (u = cv /\ d = ce => u + d = cv + ce)
          /\ u < cv \/ d < ce => u + d < cv + ce
      BY <3>3
    <3> QED
      BY <3>2, <3>3, <3>4
  <2>9. Right(k)
    <3>1. x[k] = u + d /\ y[k] = v + e
      BY <2>5, <2>7
    <3>2. Same => u = c * v /\ d = c * e
      BY <2>4, <2>5, <2>7
    <3>3. Positive => v + e >= k
      <4>1. Positive => v >= k - 1 /\ e > 0
        BY <2>4, <2>5, <2>7
      <4>2. k \in Nat
        BY <2>6
      <4> HIDE DEF Right
      <4> QED
        BY <4>1, <4>2
    <3>4. x[k] \in Nat /\ y[k] \in Nat /\ x[k] <= c * y[k]
      BY <2>8, <3>1
    <3>5. Same => x[k] = c * y[k]
      BY <2>8, <3>1, <3>2
    <3>6. ASSUME NEW i \in 1..k, Less(i) PROVE x[k] < c * y[k]
      <4>1. i \in 1..(k - 1) \/ i = k
        BY <2>6
      <4>2. i \in 1..(k - 1) => u < c * v
        BY <2>4, <2>7, <3>6
      <4>3. i = k => d < c * e
        BY <2>7, <2>10, <3>6
      <4> QED
        BY <2>8, <3>1, <4>1, <4>2, <4>3
    <3> QED
      BY <3>1, <3>3, <3>4, <3>5, <3>6
  <2> QED
    BY <2>1, <2>9 DEF wrong
<1>5. Right(n)
  <2>1. n \in 0..n
    BY <1>1
  <2> QED
    BY <1>4, <2>1
<1> QED
  BY <1>1, <1>2, <1>3, <1>5

(* The percentage that gradeAttempt rounds to, and whether it lies halfway. *)
Up(earned, possible) == (2 * earned + possible) \div (2 * possible)
Halfway(earned, possible) == 2 * possible * Up(earned, possible) = 2 * earned + possible

(* It is a percentage, 100 if all was earned, and only something earned lies halfway. *)
Percentage(earned, possible) ==
  /\ Up(earned, possible) \in 0..100 /\ Up(earned, possible) \in Nat
  /\ earned = 100 * possible => Up(earned, possible) = 100 /\ ~ Halfway(earned, possible)
  /\ Halfway(earned, possible) => Up(earned, possible) \in 1..100

LEMMA ScoreOf ==
  ASSUME NEW possible \in Nat \ {0}, NEW earned \in 0..(100 * possible)
  PROVE  Percentage(earned, possible)
<1>1. 2 * earned + possible \in Nat /\ 2 * possible \in Nat \ {0}
  OBVIOUS
<1>2. PICK d \in Nat : /\ d = Up(earned, possible)
                       /\ (2 * possible) * d <= 2 * earned + possible
                       /\ 2 * earned + possible < (2 * possible) * d + 2 * possible
  BY <1>1, Division DEF Up
<1>3. ASSUME d >= 101 PROVE FALSE
  <2>1. (2 * possible) * 101 <= (2 * possible) * d
    BY <1>1, <1>3, Products
  <2> QED
    BY <1>1, <1>2, <2>1
<1>4. ASSUME earned = 100 * possible, d <= 99 PROVE FALSE
  <2>1. (2 * possible) * d <= (2 * possible) * 99
    BY <1>1, <1>4, Products
  <2> QED
    BY <1>1, <1>2, <1>4, <2>1
<1>5. Halfway(earned, possible) <=> (2 * possible) * d = 2 * earned + possible
  <2>1. (2 * possible) * d = 2 * possible * d
    OBVIOUS
  <2> QED
    BY <1>2, <2>1 DEF Halfway
<1>6. ASSUME earned = 100 * possible, (2 * possible) * d = 2 * earned + possible PROVE FALSE
  <2>1. d = 100
    BY <1>2, <1>3, <1>4, <1>6
  <2> QED
    BY <1>6, <2>1
<1>7. ASSUME (2 * possible) * d = 2 * earned + possible, d = 0 PROVE FALSE
  BY <1>7
<1> QED
  BY <1>2, <1>3, <1>4, <1>5, <1>6, <1>7 DEF Percentage

(* Who earned less rounds to less than what lies halfway, and never to more. *)
LEMMA ScoresGrow ==
  ASSUME NEW possible \in Nat \ {0}, NEW earned \in Nat, NEW less \in Nat, less < earned
  PROVE  /\ Up(less, possible) <= Up(earned, possible)
         /\ Halfway(earned, possible) => Up(less, possible) < Up(earned, possible)
<1>1. /\ 2 * earned + possible \in Nat /\ 2 * less + possible \in Nat /\ 2 * possible \in Nat \ {0}
      /\ 2 * less + possible < 2 * earned + possible
  OBVIOUS
<1>2. PICK d \in Nat : d = Up(earned, possible)
  BY <1>1, Division DEF Up
<1>3. PICK l \in Nat : l = Up(less, possible) /\ (2 * possible) * l <= 2 * less + possible
  BY <1>1, Division DEF Up
<1>4. l <= d
  <2>1. 2 * less + possible <= 2 * earned + possible
    BY <1>1
  <2>2. (2 * less + possible) \div (2 * possible) <= (2 * earned + possible) \div (2 * possible)
    BY <1>1, <2>1, QuotientsGrow, ZenonT(30)
  <2> QED
    BY <1>2, <1>3, <2>2 DEF Up
<1>5. (2 * possible) * d = 2 * possible * d
  OBVIOUS
<1>6. Halfway(earned, possible) => l # d
  BY <1>1, <1>2, <1>3, <1>5 DEF Halfway
<1> QED
  BY <1>2, <1>3, <1>4, <1>6

(* The score of an attempt (gradeAttempt) is a percentage; a sheet on which each      *)
(* answer is right scores 100 and passes whatever the passing score; and to do better *)
(* on some question and worse on none never lowers the score, although each grade is  *)
(* rounded, and so is the score, which may go either way when it lies halfway.        *)
THEOREM ScoresAreFair ==
  ASSUME NEW Bank, \A q \in Bank : Question(q), NEW questions \in Seq(Bank), questions # <<>>,
         NEW V, NEW responses \in [DOMAIN questions -> Seq(V)],
         NEW partialCredit \in BOOLEAN, NEW passingScore \in 0..100
  PROVE  LET result(sheet) == gradeAttempt(questions, sheet, partialCredit, passingScore)
             grade(sheet, i) == gradeQuestion(questions[i], sheet[i], partialCredit)
         IN /\ \A r \in result(responses) : r.score \in 0..100
            /\ (\A i \in DOMAIN questions : grade(responses, i).isCorrect)
                 => result(responses) = {[score |-> 100, passed |-> TRUE]}
            /\ \A better \in [DOMAIN questions -> Seq(V)] :
                 /\ \A i \in DOMAIN questions : grade(responses, i).points <= grade(better, i).points
                 /\ \E i \in DOMAIN questions : grade(responses, i).points < grade(better, i).points
                 => \A r \in result(responses), b \in result(better) : r.score <= b.score
<1> DEFINE n == Len(questions)
           D == DOMAIN questions
           Filled == [D -> Seq(V)]
           full == [i \in D |-> questions[i].points]
           each(sheet) == [i \in D |-> gradeQuestion(questions[i], sheet[i], partialCredit).points]
           possible == FoldLeft(+, 0, full)
           earned(sheet) == FoldLeft(+, 0, each(sheet))
           up(sheet) == Up(earned(sheet), possible)
           halfway(sheet) == Halfway(earned(sheet), possible)
           scores(sheet) == IF halfway(sheet) THEN {up(sheet) - 1, up(sheet)} ELSE {up(sheet)}
           result(sheet) == gradeAttempt(questions, sheet, partialCredit, passingScore)
           Right(sheet) == \A i \in D : gradeQuestion(questions[i], sheet[i], partialCredit).isCorrect
<1>1. n \in Nat \ {0} /\ D = 1..n /\ \A i \in D : Question(questions[i])
  OBVIOUS
<1>2. full \in Seq(Nat) /\ Len(full) = n /\ \A i \in 1..n : full[i] = questions[i].points /\ full[i] \in Nat \ {0}
  <2>1. \A i \in D : questions[i].points \in Nat \ {0}
    BY <1>1 DEF Question
  <2>2. full \in [1..n -> Nat] /\ \A i \in 1..n : full[i] = questions[i].points
    BY <1>1, <2>1
  <2> HIDE DEF full
  <2>3. full \in Seq(Nat) /\ Len(full) = n
    BY <1>1, <2>2
  <2>4. \A i \in 1..n : full[i] = questions[i].points /\ full[i] \in Nat \ {0}
    BY <1>1, <2>1, <2>2
  <2> QED
    BY <2>3, <2>4
<1>3. ASSUME NEW sheet \in Filled, NEW i \in D
      PROVE  /\ gradeQuestion(questions[i], sheet[i], partialCredit).points \in 0..(100 * questions[i].points)
             /\ gradeQuestion(questions[i], sheet[i], partialCredit).isCorrect
                  => gradeQuestion(questions[i], sheet[i], partialCredit).points = 100 * questions[i].points
  <2>1. Question(questions[i]) /\ sheet[i] \in Seq(V)
    BY <1>1
  <2> QED
    BY <2>1, GradesAreFair
<1>4. ASSUME NEW sheet \in Filled
      PROVE  /\ each(sheet) \in Seq(Nat) /\ Len(each(sheet)) = n
             /\ \A i \in 1..n : /\ each(sheet)[i] = gradeQuestion(questions[i], sheet[i], partialCredit).points
                                /\ each(sheet)[i] \in Nat /\ each(sheet)[i] <= 100 * full[i]
             /\ Right(sheet) => \A i \in 1..n : each(sheet)[i] = 100 * full[i]
  <2> DEFINE of(i) == gradeQuestion(questions[i], sheet[i], partialCredit)
             points == each(sheet)
  <2>1. \A i \in D : of(i).points \in 0..(100 * full[i]) /\ (of(i).isCorrect => of(i).points = 100 * full[i])
    BY <1>1, <1>2, <1>3
  <2>2. \A i \in D : of(i).points \in Nat /\ of(i).points <= 100 * full[i]
    BY <1>1, <1>2, <2>1
  <2> HIDE DEF full
  <2>3. points \in [1..n -> Nat] /\ \A i \in 1..n : points[i] = of(i).points
    BY <1>1, <2>2
  <2>4. Right(sheet) => \A i \in 1..n : points[i] = 100 * full[i]
    BY <1>1, <2>1, <2>3
  <2> HIDE DEF points, of
  <2>5. points \in Seq(Nat) /\ Len(points) = n
    BY <1>1, <2>3
  <2> QED
    BY <1>1, <2>2, <2>3, <2>4, <2>5 DEF points, of
<1> HIDE DEF full, each
<1>5. ASSUME NEW sheet \in Filled
      PROVE  /\ possible \in Nat \ {0} /\ earned(sheet) \in 0..(100 * possible)
             /\ Right(sheet) => earned(sheet) = 100 * possible
  <2>1. /\ each(sheet) \in Seq(Nat) /\ full \in Seq(Nat) /\ Len(each(sheet)) = Len(full) /\ Len(full) = n
        /\ \A i \in 1..Len(each(sheet)) : each(sheet)[i] <= 100 * full[i]
        /\ \A i \in 1..Len(each(sheet)) : full[i] > 0
        /\ Right(sheet) => \A i \in 1..Len(each(sheet)) : each(sheet)[i] = 100 * full[i]
    <3>1. each(sheet) \in Seq(Nat) /\ full \in Seq(Nat) /\ Len(each(sheet)) = n /\ Len(full) = n
      BY <1>2, <1>4
    <3>2. /\ \A i \in 1..n : each(sheet)[i] <= 100 * full[i]
          /\ Right(sheet) => \A i \in 1..n : each(sheet)[i] = 100 * full[i]
      BY <1>4
    <3>3. \A i \in 1..n : full[i] > 0
      BY <1>2
    <3> HIDE DEF n, Right
    <3> QED
      BY <3>1, <3>2, <3>3
  <2>2. /\ earned(sheet) \in Nat /\ possible \in Nat
        /\ earned(sheet) <= 100 * possible
        /\ (\A i \in 1..Len(each(sheet)) : each(sheet)[i] = 100 * full[i]) => earned(sheet) = 100 * possible
        /\ possible >= Len(full)
    <3> DEFINE points == each(sheet)
    <3>1. /\ points \in Seq(Nat) /\ full \in Seq(Nat) /\ Len(points) = Len(full)
          /\ \A i \in 1..Len(points) : points[i] <= 100 * full[i]
      BY <2>1
    <3>2. \A i \in 1..Len(points) : full[i] > 0
      BY <2>1
    <3> HIDE DEF points
    <3>3. /\ FoldLeft(+, 0, points) \in Nat /\ possible \in Nat
          /\ FoldLeft(+, 0, points) <= 100 * possible
      BY <3>1, SumsCompare, ZenonT(30)
    <3>4. (\A i \in 1..Len(points) : points[i] = 100 * full[i]) => FoldLeft(+, 0, points) = 100 * possible
      BY <3>1, SumsCompare, ZenonT(30)
    <3>5. possible >= Len(full)
      BY <3>1, <3>2, SumsCompare, ZenonT(30)
    <3> QED
      BY <3>3, <3>4, <3>5 DEF points
  <2> HIDE DEF earned, possible
  <2> QED
    BY <1>1, <2>1, <2>2
<1>6. ASSUME NEW sheet \in Filled, NEW better \in Filled,
             \A i \in D : gradeQuestion(questions[i], sheet[i], partialCredit).points
                            <= gradeQuestion(questions[i], better[i], partialCredit).points
      PROVE  \A i \in D : gradeQuestion(questions[i], sheet[i], partialCredit).points
                              < gradeQuestion(questions[i], better[i], partialCredit).points
               => earned(sheet) < earned(better)
  <2> SUFFICES ASSUME NEW m \in D,
                      gradeQuestion(questions[m], sheet[m], partialCredit).points
                        < gradeQuestion(questions[m], better[m], partialCredit).points
               PROVE  earned(sheet) < earned(better)
    OBVIOUS
  <2>1. /\ each(sheet) \in Seq(Nat) /\ each(better) \in Seq(Nat) /\ Len(each(sheet)) = Len(each(better))
        /\ \A i \in 1..Len(each(sheet)) : each(sheet)[i] <= 1 * each(better)[i]
        /\ m \in 1..Len(each(sheet)) /\ each(sheet)[m] < 1 * each(better)[m]
    <3>1. /\ each(sheet) \in Seq(Nat) /\ each(better) \in Seq(Nat)
          /\ Len(each(sheet)) = n /\ Len(each(better)) = n
      BY <1>4
    <3>2. ASSUME NEW i \in 1..n PROVE each(sheet)[i] <= 1 * each(better)[i]
      <4>1. each(sheet)[i] <= each(better)[i]
        <5>1. /\ each(sheet)[i] = gradeQuestion(questions[i], sheet[i], partialCredit).points
              /\ each(better)[i] = gradeQuestion(questions[i], better[i], partialCredit).points
          BY <1>4
        <5> QED
          BY <1>1, <1>6, <5>1
      <4>2. each(sheet)[i] \in Nat /\ each(better)[i] \in Nat
        BY <1>4
      <4> QED
        BY <4>1, <4>2
    <3>3. each(sheet)[m] < 1 * each(better)[m] /\ m \in 1..n
      <4>1. /\ m \in 1..n
            /\ each(sheet)[m] = gradeQuestion(questions[m], sheet[m], partialCredit).points
            /\ each(better)[m] = gradeQuestion(questions[m], better[m], partialCredit).points
            /\ each(sheet)[m] \in Nat /\ each(better)[m] \in Nat
        BY <1>1, <1>4
      <4> QED
        BY <4>1
    <3> HIDE DEF n
    <3> QED
      BY <3>1, <3>2, <3>3
  <2>2. /\ earned(sheet) < 1 * earned(better) /\ earned(better) \in Nat
        /\ earned(sheet) \in Nat
    BY <2>1, SumsCompare, ZenonT(30)
  <2> HIDE DEF earned
  <2> QED
    BY <2>2
<1> HIDE DEF earned, possible
<1>7. ASSUME NEW sheet \in Filled
      PROVE  /\ up(sheet) \in 0..100 /\ up(sheet) \in Nat
             /\ earned(sheet) = 100 * possible => up(sheet) = 100 /\ ~ halfway(sheet)
             /\ halfway(sheet) => up(sheet) \in 1..100
  <2>1. possible \in Nat \ {0} /\ earned(sheet) \in 0..(100 * possible)
    BY <1>5
  <2>2. Percentage(earned(sheet), possible)
    BY <2>1, ScoreOf, Zenon
  <2> QED
    BY <2>2, Zenon DEF Percentage
<1>8. ASSUME NEW sheet \in Filled
      PROVE  result(sheet) = {[score |-> s, passed |-> s >= passingScore] : s \in scores(sheet)}
  <2>1. possible # 0
    BY <1>5
  <2> QED
    BY <2>1 DEF gradeAttempt, possible, earned, full, each, Up, Halfway
<1> HIDE DEF Filled
<1>9. ASSUME NEW sheet \in Filled, NEW better \in Filled, earned(sheet) < earned(better)
      PROVE  \A r \in scores(sheet), b \in scores(better) : r <= b
  <2>1. /\ possible \in Nat \ {0} /\ earned(better) \in 0..(100 * possible)
        /\ earned(sheet) \in 0..earned(better)
    <3>1. possible \in Nat \ {0} /\ earned(better) \in Nat /\ earned(better) <= 100 * possible
          /\ earned(sheet) \in Nat
      BY <1>5
    <3> QED
      BY <1>9, <3>1
  <2>2. earned(sheet) \in Nat /\ earned(better) \in Nat
    BY <2>1
  <2>3. up(sheet) <= up(better) /\ (halfway(better) => up(sheet) < up(better))
    BY <1>9, <2>1, <2>2, ScoresGrow
  <2> HIDE DEF up, halfway
  <2>4. up(sheet) \in Nat /\ up(better) \in Nat
    BY <1>7, Zenon
  <2>5. \A r \in scores(sheet) : r <= up(sheet)
    BY <2>4
  <2>6. CASE halfway(better)
    <3>1. scores(better) = {up(better) - 1, up(better)} /\ up(sheet) <= up(better) - 1
      BY <2>3, <2>4, <2>6
    <3>2. \A b \in scores(better) : up(sheet) <= b /\ b \in Int
      BY <2>4, <3>1
    <3>3. \A r \in scores(sheet) : r \in Int
      BY <2>4
    <3> HIDE DEF scores
    <3> QED
      BY <2>4, <2>5, <3>2, <3>3
  <2>7. CASE ~ halfway(better)
    <3>1. scores(better) = {up(better)}
      BY <2>7
    <3>2. \A r \in scores(sheet) : r \in Int
      BY <2>4
    <3> HIDE DEF scores
    <3> QED
      BY <2>3, <2>4, <2>5, <3>1, <3>2
  <2> QED
    BY <2>6, <2>7
<1> HIDE DEF result, Right, up, halfway
<1>10. responses \in Filled
  BY DEF Filled
<1>11. \A r \in result(responses) : r.score \in 0..100
  <2>1. up(responses) \in 0..100 /\ (halfway(responses) => up(responses) \in 1..100)
    BY <1>7, <1>10
  <2>2. \A s \in scores(responses) : s \in 0..100
    <3>1. CASE halfway(responses)
      <4>1. PICK u \in 1..100 : u = up(responses)
        BY <2>1, <3>1
      <4>2. u - 1 \in 0..100 /\ u \in 0..100
        OBVIOUS
      <4>3. scores(responses) = {u - 1, u}
        BY <3>1, <4>1
      <4> QED
        BY <4>2, <4>3
    <3>2. CASE ~ halfway(responses)
      BY <2>1, <3>2
    <3> QED
      BY <3>1, <3>2
  <2> HIDE DEF scores
  <2>3. result(responses) = {[score |-> s, passed |-> s >= passingScore] : s \in scores(responses)}
    BY <1>8, <1>10
  <2> QED
    BY <2>2, <2>3
<1>12. Right(responses) => result(responses) = {[score |-> 100, passed |-> TRUE]}
  <2> SUFFICES ASSUME Right(responses) PROVE result(responses) = {[score |-> 100, passed |-> TRUE]}
    OBVIOUS
  <2>1. scores(responses) = {100}
    BY <1>5, <1>7, <1>10
  <2>2. (100 >= passingScore) = TRUE
    OBVIOUS
  <2> HIDE DEF scores
  <2>3. result(responses) = {[score |-> s, passed |-> s >= passingScore] : s \in scores(responses)}
    BY <1>8, <1>10
  <2>4. {[score |-> s, passed |-> s >= passingScore] : s \in {100}}
          = {[score |-> 100, passed |-> (100 >= passingScore)]}
    OBVIOUS
  <2> QED
    BY <2>1, <2>2, <2>3, <2>4
<1>13. ASSUME NEW better \in Filled,
              \A i \in D : gradeQuestion(questions[i], responses[i], partialCredit).points
                             <= gradeQuestion(questions[i], better[i], partialCredit).points,
              \E i \in D : gradeQuestion(questions[i], responses[i], partialCredit).points
                             < gradeQuestion(questions[i], better[i], partialCredit).points
       PROVE  \A r \in result(responses), b \in result(better) : r.score <= b.score
  <2>1. earned(responses) < earned(better)
    BY <1>6, <1>10, <1>13
  <2>2. \A r \in scores(responses), b \in scores(better) : r <= b
    BY <1>9, <1>10, <2>1
  <2> HIDE DEF scores
  <2> QED
    BY <1>8, <1>10, <1>13, <2>2
<1> QED
  BY <1>11, <1>12, <1>13 DEF Right, Filled, result

(* Choosing from what was chosen changes nothing. *)
LEMMA ChosenAgain ==
  ASSUME NEW q, NEW picks \in Distinct(ToSet(q.options))
  PROVE  ChosenOf(q, picks) = picks
<1> DEFINE n == Len(picks)
           options == ToSet(q.options)
           upTo(k) == Prefix(options, picks, k)
           Right(k) == /\ upTo(k) \in Seq(options) /\ Len(upTo(k)) = k
                       /\ \A i \in 1..k : upTo(k)[i] = picks[i]
           wrong == {k \in 0..n : ~ Right(k)}
<1>1. /\ n \in Nat /\ picks \in Seq(options) /\ DOMAIN picks = 1..n
      /\ \A i, j \in 1..n : picks[i] = picks[j] => i = j
      /\ \A i \in 1..n : picks[i] \in options
  BY DEF Distinct
<1>2. /\ upTo(0) = <<>>
      /\ \A k \in 1..n : upTo(k) = Added(options, upTo(k - 1), picks[k])
      /\ ChosenOf(q, picks) = upTo(n)
  <2>1. picks \in Seq(options) /\ ToSet(q.options) = options
    BY <1>1
  <2> HIDE DEF options
  <2> QED
    BY <2>1, PrefixSteps
<1> HIDE DEF n, options, upTo
<1>3. wrong = {}
  <2> SUFFICES ASSUME wrong # {} PROVE FALSE
    OBVIOUS
  <2>1. PICK k \in wrong : \A j \in wrong : k <= j
    <3>1. wrong \in SUBSET Nat
      BY <1>1
    <3> HIDE DEF wrong
    <3> QED
      BY <3>1, LeastExists
  <2>2. Right(0)
    <3>1. <<>> \in Seq(options) /\ Len(<<>>) = 0 /\ 1..0 = {}
      OBVIOUS
    <3> QED
      BY <1>2, <3>1
  <2>3. k \in 1..n /\ k - 1 \in 0..n /\ k - 1 \notin wrong
    <3>1. k # 0 /\ k \in 0..n
      BY <2>1, <2>2
    <3>2. k - 1 \notin wrong
      <4> HIDE DEF wrong
      <4> QED
        BY <1>1, <2>1, <3>1
    <3> QED
      BY <1>1, <3>1, <3>2
  <2>4. Right(k - 1)
    BY <2>3
  <2>5. picks[k] \in options \ ToSet(upTo(k - 1))
    <3>1. picks[k] \in options
      BY <1>1, <2>3
    <3>2. ToSet(upTo(k - 1)) = {picks[i] : i \in 1..(k - 1)}
      <4> DEFINE before == upTo(k - 1)
      <4>1. before \in Seq(options) /\ Len(before) = k - 1 /\ \A i \in 1..(k - 1) : before[i] = picks[i]
        BY <2>4
      <4> HIDE DEF before
      <4>2. DOMAIN before = 1..(k - 1)
        BY <4>1
      <4>3. ToSet(before) = {picks[i] : i \in 1..(k - 1)}
        BY <4>1, <4>2 DEF ToSet
      <4> QED
        BY <4>3 DEF before
    <3>3. ASSUME NEW i \in 1..(k - 1) PROVE picks[i] # picks[k]
      BY <1>1, <2>3
    <3> QED
      BY <3>1, <3>2, <3>3
  <2>6. upTo(k) = Append(upTo(k - 1), picks[k])
    BY <1>2, <2>3, <2>5 DEF Added
  <2>7. Right(k)
    <3> DEFINE before == upTo(k - 1)
               after == Append(before, picks[k])
    <3>1. before \in Seq(options) /\ Len(before) = k - 1 /\ \A i \in 1..(k - 1) : before[i] = picks[i]
      BY <2>4
    <3>2. k \in Nat \ {0} /\ picks[k] \in options
      BY <1>1, <2>3
    <3> HIDE DEF before
    <3>3. /\ after \in Seq(options) /\ Len(after) = k
          /\ \A i \in 1..(k - 1) : after[i] = before[i]
          /\ after[k] = picks[k]
      BY <3>1, <3>2
    <3> HIDE DEF after
    <3>4. \A i \in 1..k : after[i] = picks[i]
      BY <3>1, <3>2, <3>3
    <3> QED
      BY <2>6, <3>3, <3>4 DEF after, before
  <2> QED
    BY <2>1, <2>7
<1>4. Right(n)
  <2>1. n \in 0..n
    BY <1>1
  <2> QED
    BY <1>3, <2>1
<1>5. upTo(n) = picks
  BY <1>1, <1>4 DEF n
<1> QED
  BY <1>2, <1>5

(* What readResponses has taken from a form it takes again unchanged, so a sheet that *)
(* was auto-saved and is submitted as it was saved is graded on what was saved.       *)
THEOREM ResponsesAreStable ==
  ASSUME NEW q, q.type \in Types, NEW V, NEW values \in Seq(V)
  PROVE  readResponse(q, readResponse(q, values)) = readResponse(q, values)
<1> DEFINE known == ChosenOf(q, values)
           O == ToSet(q.options)
<1>1. known \in Distinct(O)
  BY ChosenFound
<1>2. ASSUME NEW S, NEW seq \in Seq(S)
      PROVE  FirstOf(FirstOf(seq)) = FirstOf(seq)
  BY DEF FirstOf
<1>3. CASE q.type = "FILL_BLANK"
  <2>1. \A given : readResponse(q, given) = FirstOf(given)
    BY <1>3 DEF readResponse
  <2> QED
    BY <1>2, <2>1
<1>4. CASE q.type \in {"SINGLE_CHOICE", "TRUE_FALSE"}
  <2>1. \A given : readResponse(q, given) = FirstOf(ChosenOf(q, given))
    BY <1>4 DEF readResponse
  <2>2. FirstOf(known) \in Distinct(O) /\ FirstOf(FirstOf(known)) = FirstOf(known)
    <3> HIDE DEF known, O
    <3>1. known \in Seq(O)
      BY <1>1 DEF Distinct
    <3>2. FirstOf(known) \in Seq(O) /\ Len(FirstOf(known)) \in {0, 1}
      BY <3>1 DEF FirstOf
    <3>3. FirstOf(known) \in Distinct(O)
      BY <3>2 DEF Distinct
    <3> QED
      BY <1>2, <3>1, <3>3
  <2>3. ChosenOf(q, FirstOf(known)) = FirstOf(known)
    BY <2>2, ChosenAgain
  <2> HIDE DEF known
  <2> QED
    BY <2>1, <2>2, <2>3 DEF known
<1>5. CASE q.type \in {"MULTIPLE_CHOICE", "ORDERING"}
  <2>1. \A given : readResponse(q, given) = ChosenOf(q, given)
    BY <1>5 DEF readResponse
  <2>2. ChosenOf(q, known) = known
    BY <1>1, ChosenAgain
  <2> HIDE DEF known
  <2> QED
    BY <2>1, <2>2 DEF known
<1> QED
  BY <1>3, <1>4, <1>5 DEF Types

(* A shuffle has the same things, each once. *)
LEMMA ShuffledOptions ==
  ASSUME NEW S, NEW seq \in Distinct(S), NEW s \in Shuffles(seq)
  PROVE  s \in Distinct(ToSet(seq)) /\ ToSet(s) = ToSet(seq) /\ Len(s) = Len(seq)
<1>1. /\ IsFiniteSet(ToSet(seq)) /\ Len(seq) \in Nat /\ Cardinality(ToSet(seq)) = Len(seq)
  BY SizeOfDistinct
<1>2. DOMAIN seq = 1..Len(seq)
  BY DEF Distinct
<1>3. s \in [1..Len(seq) -> ToSet(seq)] /\ \A i, j \in DOMAIN s : s[i] = s[j] => i = j
  BY <1>2 DEF Shuffles
<1>4. s \in Seq(ToSet(seq)) /\ Len(s) = Len(seq)
  BY <1>1, <1>3
<1>5. s \in Distinct(ToSet(seq))
  BY <1>3, <1>4 DEF Distinct
<1>6. ToSet(s) \subseteq ToSet(seq) /\ Cardinality(ToSet(s)) = Len(s)
  BY <1>5, SizeOfDistinct
<1>7. ToSet(s) = ToSet(seq)
  BY <1>1, <1>4, <1>6, FS_Subset
<1> QED
  BY <1>4, <1>5, <1>7

(* A turn has the same things, and not the same order. *)
LEMMA RotatedOptions ==
  ASSUME NEW S, NEW seq \in Distinct(S), Len(seq) > 1
  PROVE  Rotated(seq) \in Seq(S) /\ ToSet(Rotated(seq)) = ToSet(seq) /\ Rotated(seq) # seq
<1> DEFINE n == Len(seq)
           turned == Rotated(seq)
<1>1. seq \in Seq(S) /\ n \in Nat /\ DOMAIN seq = 1..n /\ n > 1
  BY DEF Distinct
<1>2. /\ turned \in Seq(S) /\ Len(turned) = n /\ DOMAIN turned = 1..n
      /\ \A i \in 1..(n - 1) : turned[i] = seq[i + 1]
      /\ turned[n] = seq[1]
  <2> DEFINE rest == Tail(seq)
             first == Head(seq)
  <2>1. /\ rest \in Seq(S) /\ Len(rest) = n - 1 /\ first \in S /\ first = seq[1]
        /\ \A i \in 1..(n - 1) : rest[i] = seq[i + 1]
    BY <1>1
  <2>2. turned = Append(rest, first)
    BY DEF Rotated
  <2> HIDE DEF rest, first, n, turned
  <2>3. n - 1 \in Nat /\ n - 1 + 1 = n
    BY <1>1
  <2>4. turned \in Seq(S) /\ Len(turned) = n
    BY <2>1, <2>2, <2>3
  <2>5. turned[n] = seq[1] /\ \A i \in 1..(n - 1) : turned[i] = rest[i]
    BY <2>1, <2>2, <2>3
  <2> QED
    BY <1>1, <2>1, <2>4, <2>5
<1>3. seq[2] # seq[1]
  BY <1>1 DEF Distinct
<1> HIDE DEF turned, n
<1>4. turned # seq
  BY <1>1, <1>2, <1>3
<1>5. ToSet(turned) = ToSet(seq)
  <2>1. ASSUME NEW i \in 1..n PROVE \E j \in 1..n : turned[i] = seq[j]
    <3>1. CASE i = n
      BY <1>1, <1>2, <3>1
    <3>2. CASE i # n
      <4>1. i \in 1..(n - 1) /\ i + 1 \in 1..n
        BY <1>1, <3>2
      <4> QED
        BY <1>2, <4>1
    <3> QED
      BY <3>1, <3>2
  <2>2. ASSUME NEW j \in 1..n PROVE \E i \in 1..n : turned[i] = seq[j]
    <3>1. CASE j = 1
      BY <1>1, <1>2, <3>1
    <3>2. CASE j # 1
      <4>1. j - 1 \in 1..(n - 1) /\ j - 1 \in 1..n /\ j - 1 + 1 = j
        BY <1>1, <3>2
      <4> QED
        BY <1>2, <4>1
    <3> QED
      BY <3>1, <3>2
  <2>3. ToSet(turned) = {turned[i] : i \in 1..n} /\ ToSet(seq) = {seq[i] : i \in 1..n}
    BY <1>1, <1>2 DEF ToSet
  <2>4. ToSet(turned) \subseteq ToSet(seq)
    BY <2>1, <2>3
  <2>5. ToSet(seq) \subseteq ToSet(turned)
    BY <2>2, <2>3
  <2> QED
    BY <2>4, <2>5
<1> QED
  BY <1>2, <1>4, <1>5 DEF turned

(* However an attempt shows the options of a question (buildAttemptSnapshot), it shows *)
(* all of them and the answer is graded as if they had not been shuffled; items to be  *)
(* ordered are never shown in the order in which the question keeps them.              *)
THEOREM ShownIsFair ==
  ASSUME NEW q, Question(q), NEW shuffleOptions \in BOOLEAN, NEW shown \in Shown(q, shuffleOptions),
         NEW V, NEW picks \in Seq(V), NEW partialCredit \in BOOLEAN
  PROVE  /\ shown \in Seq(ToSet(q.options)) /\ ToSet(shown) = ToSet(q.options)
         /\ q.type = "ORDERING" /\ Len(q.options) > 1 => shown # q.options
         /\ gradeQuestion([q EXCEPT !.options = shown], picks, partialCredit)
              = gradeQuestion(q, picks, partialCredit)
<1> DEFINE O == ToSet(q.options)
           Kept(s) == s \in Seq(O) /\ ToSet(s) = O
<1>1. ASSUME q.type # "FILL_BLANK", NEW s \in Shuffles(q.options) PROVE Kept(s)
  BY <1>1, ShuffledOptions DEF Question, Distinct
<1>2. Kept(q.options)
  BY DEF Question
<1>3. ASSUME q.type = "ORDERING", NEW s \in Shuffles(q.options), Len(s) > 1, s = q.options
      PROVE  Kept(Rotated(s)) /\ Rotated(s) # q.options
  <2>1. q.options \in Distinct(O)
    BY <1>3 DEF Question
  <2> QED
    BY <1>3, <2>1, RotatedOptions
<1>4. CASE q.type = "ORDERING"
  <2>1. PICK s \in Shuffles(q.options) : shown = IF Len(s) > 1 /\ s = q.options THEN Rotated(s) ELSE s
    BY <1>4 DEF Shown
  <2>2. Kept(shown)
    <3> HIDE DEF Kept
    <3> QED
      BY <1>1, <1>3, <1>4, <2>1
  <2>3. Len(q.options) > 1 => shown # q.options
    BY <1>3, <1>4, <2>1
  <2> QED
    BY <2>2, <2>3, ShufflingIsFair
<1>5. CASE q.type # "ORDERING"
  <2>1. (shown \in Shuffles(q.options) /\ q.type # "FILL_BLANK") \/ shown = q.options
    BY <1>5 DEF Shown
  <2>2. Kept(shown)
    <3> HIDE DEF Kept
    <3> QED
      BY <1>1, <1>2, <2>1
  <2> QED
    BY <1>5, <2>2, ShufflingIsFair
<1> QED
  BY <1>4, <1>5

=============================================================================
