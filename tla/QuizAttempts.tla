---------------------------- MODULE QuizAttempts ----------------------------
(***************************************************************************)
(* One student's attempts at one quiz:                                     *)
(* src/src/server/services/quiz-attempt-service.ts with lib/quiz-rules.ts, *)
(* and the teacher's updateQuizSettings and deleteQuiz of quiz-service.ts. *)
(*                                                                         *)
(* The student may have several requests running (two tabs, a double       *)
(* click, an autosave behind a submit), on one server process or several.  *)
(* A request moves from one awaited query to the next in req; a prisma     *)
(* transaction, an advisory lock or FOR UPDATE included, is one step.      *)
(* Answers are abstracted to whole sheets, and what those score is left to *)
(* QuizGrading; the quiz has questions and the student keeps access.       *)
(***************************************************************************)
EXTENDS Naturals, FiniteSets

CONSTANTS
  Attempts,       \* identities of QuizAttempt rows: a bound on the attempts started
  Workers,        \* requests the student has running at once
  Sheets,         \* what a student can have answered
  Blank,          \* nothing answered
  Settings,        \* sets of settings between which a teacher changes: timeLimitSec and
                  \* retakeCooldownMin, 0 for none, and maxAttempts, a large one for none
  Grace,          \* QUIZ_SUBMIT_GRACE_MS
  MaxClock,       \* bound on the clock
  NoAttempt

ASSUME QuizAssumption ==
  /\ Blank \in Sheets
  /\ Settings \subseteq SUBSET [limit: Nat, max: Nat \ {0}, cooldown: Nat]
  /\ UNION Settings # {}
  /\ Grace \in Nat /\ MaxClock \in Nat
  /\ NoAttempt \notin Attempts
  /\ IsFiniteSet(Attempts) /\ IsFiniteSet(Workers)

VARIABLES
  clock,     \* the time, the same for every request
  quiz,      \* the Quiz row: its settings, those that it may get (choices), whether it is live,
             \* archived or deleted, and (history) the most attempts it has allowed so far
  attempts,  \* QuizAttempt rows
  answers,   \* the QuizAnswer rows of each attempt
  req,       \* what each request is doing
  deleter,   \* the teacher's deleteQuiz: did it count any attempts, and (history) which there were
  kept       \* history: the last sheet saved into each attempt before its time was up,
             \* and those saved after that by a save that was let through in time

vars == <<clock, quiz, attempts, answers, req, deleter, kept>>
rowVars == <<attempts, answers, kept>>

-----------------------------------------------------------------------------
(* Data *)

Times == 0..MaxClock
NoDeadline == 0   \* a null deadlineAt; a real one is never 0, as limits are positive

TimeLimits == {s.limit : s \in UNION Settings}
QuizRow == [limit: TimeLimits, max: Nat \ {0}, cooldown: Nat, most: Nat \ {0},
            choices: Settings, state: {"LIVE", "ARCHIVED", "DELETED"}]
AttemptRow == [status: {"NONE", "IN_PROGRESS", "SUBMITTED"}, startedAt: Times,
               deadlineAt: Nat, submittedAt: Times, auto: BOOLEAN, graded: Sheets]
Steps == {"idle", "readQuiz", "checkEligible", "create", "readSaved", "finalize", "commitSave"}

NoRow == [status |-> "NONE", startedAt |-> 0, deadlineAt |-> NoDeadline,
          submittedAt |-> 0, auto |-> FALSE, graded |-> Blank]
Idle == [step |-> "idle", starting |-> FALSE, attempt |-> NoAttempt, sheet |-> Blank,
         auto |-> FALSE, limit |-> CHOOSE l \in TimeLimits : TRUE, now |-> 0, barred |-> FALSE]
NotDeleting == [step |-> "idle", found |-> FALSE, seen |-> {}]

TypeOK ==
  /\ clock \in Times
  /\ quiz \in QuizRow
  /\ attempts \in [Attempts -> AttemptRow]
  /\ answers \in [Attempts -> Sheets]
  /\ req \in [Workers -> [step: Steps, starting: BOOLEAN, attempt: Attempts \cup {NoAttempt},
                          sheet: Sheets, auto: BOOLEAN, limit: TimeLimits, now: Times,
                          barred: BOOLEAN]]
  /\ deleter \in [step: {"idle", "decided"}, found: BOOLEAN, seen: SUBSET Attempts]
  /\ kept \in [Attempts -> SUBSET Sheets]

Init ==
  /\ clock = 0
  /\ \E choices \in Settings : \E s \in choices :
       quiz = [limit |-> s.limit, max |-> s.max, cooldown |-> s.cooldown,
               most |-> s.max, choices |-> choices, state |-> "LIVE"]
  /\ attempts = [a \in Attempts |-> NoRow]
  /\ answers = [a \in Attempts |-> Blank]
  /\ req = [w \in Workers |-> Idle]
  /\ deleter = NotDeleting
  /\ kept = [a \in Attempts |-> {Blank}]

-----------------------------------------------------------------------------
(* Helpers *)

IsOpen(a) == attempts[a].status = "IN_PROGRESS"
IsSubmitted(a) == attempts[a].status = "SUBMITTED"
Taken == {a \in Attempts : attempts[a].status # "NONE"}
Submitted == {a \in Attempts : IsSubmitted(a)}
Open == {a \in Attempts : IsOpen(a)}

QuizDeadline(startedAt, limit) == IF limit = 0 THEN NoDeadline ELSE startedAt + limit

(* attempt.deadlineAt ?? quizDeadline(attempt.startedAt, attempt.quiz.timeLimitSec) *)
DeadlineOf(a) ==
  IF attempts[a].deadlineAt # NoDeadline
  THEN attempts[a].deadlineAt
  ELSE QuizDeadline(attempts[a].startedAt, quiz.limit)

IsAtDeadline(deadline) == deadline # NoDeadline /\ clock >= deadline + Grace
IsPastDeadline(deadline) == deadline # NoDeadline /\ clock > deadline + Grace

AttemptBlockOffByOne ==
  \/ Cardinality(Submitted) > quiz.max
  \/ \E a \in Submitted : attempts[a].submittedAt + quiz.cooldown > clock

AttemptBlockManual ==
  \/ Cardinality({a \in Submitted : ~ attempts[a].auto}) >= quiz.max
  \/ \E a \in Submitted : attempts[a].submittedAt + quiz.cooldown > clock

(* attemptBlock: does the number of attempts, or the cooldown, block a new one? *)
AttemptBlock ==
  \/ Cardinality(Submitted) >= quiz.max
  \/ \E a \in Submitted : attempts[a].submittedAt + quiz.cooldown > clock

(* canRevealAnswers of getAttemptResult: do the result pages show the key because *)
(* the student has no attempts left?  (They also do once a student has passed.)  *)
NoneLeft == Cardinality(Submitted) >= quiz.max

At(w, step) == req[w].step = step
Goto(w, state) == req' = [req EXCEPT ![w] = state]
Done(w) == Goto(w, Idle)

-----------------------------------------------------------------------------
(* Requests *)

(* getInProgressAttempt, the first half of startQuizAttempt, finds nothing open. *)
StartAnew(w) ==
  /\ At(w, "idle")
  /\ Open = {}
  /\ Goto(w, [Idle EXCEPT !.step = "readQuiz"])
  /\ UNCHANGED <<clock, quiz, rowVars, deleter>>

(* Whoever reads an open attempt whose time is up auto-submits it: the quiz *)
(* page, a save or a submit, and a start, which then goes on.               *)
FindExpired(w, a, starting) ==
  /\ At(w, "idle")
  /\ IsOpen(a) /\ IsPastDeadline(DeadlineOf(a))
  /\ Goto(w, [Idle EXCEPT !.step = "readSaved", !.attempt = a, !.starting = starting])
  /\ UNCHANGED <<clock, quiz, rowVars, deleter>>

(* saveQuizAnswers and submitQuizAttempt find the attempt open, in time. *)
Send(w, a, sheet, next) ==
  /\ At(w, "idle")
  /\ IsOpen(a) /\ ~ IsPastDeadline(DeadlineOf(a))
  /\ Goto(w, [Idle EXCEPT !.step = next, !.attempt = a, !.sheet = sheet])
  /\ UNCHANGED <<clock, quiz, rowVars, deleter>>

CommitSaveUnchecked(w) ==
  /\ At(w, "commitSave")
  /\ answers' = [answers EXCEPT ![req[w].attempt] = req[w].sheet]
  /\ Done(w)
  /\ UNCHANGED <<clock, quiz, attempts, deleter, kept>>

(* saveQuizAnswers: the transaction that locks the row and replaces the answers. *)
CommitSave(w) ==
  LET a == req[w].attempt IN
  /\ At(w, "commitSave")
  /\ IF IsOpen(a)
     THEN /\ answers' = [answers EXCEPT ![a] = req[w].sheet]
          /\ kept' = [kept EXCEPT ![a] = {req[w].sheet} \cup
                                         IF IsPastDeadline(DeadlineOf(a)) THEN @ ELSE {}]
     ELSE UNCHANGED <<answers, kept>>
  /\ Done(w)
  /\ UNCHANGED <<clock, quiz, attempts, deleter>>

(* autoSubmit reads the saved answers before the transaction that grades them. *)
ReadSaved(w) ==
  /\ At(w, "readSaved")
  /\ req' = [req EXCEPT ![w].step = "finalize", ![w].sheet = answers[req[w].attempt],
                        ![w].auto = TRUE]
  /\ UNCHANGED <<clock, quiz, rowVars, deleter>>

GradeUnconditionally(w) ==
  LET a == req[w].attempt IN
  /\ attempts' = [attempts EXCEPT ![a].status = "SUBMITTED", ![a].submittedAt = clock,
                                  ![a].auto = req[w].auto, ![a].graded = req[w].sheet]
  /\ answers' = [answers EXCEPT ![a] = req[w].sheet]

(* finalizeAttempt's transaction: the IN_PROGRESS -> SUBMITTED flip is conditional. *)
Grade(w) ==
  LET a == req[w].attempt IN
  IF IsOpen(a)
  THEN /\ attempts' = [attempts EXCEPT ![a].status = "SUBMITTED", ![a].submittedAt = clock,
                                       ![a].auto = req[w].auto, ![a].graded = req[w].sheet]
       /\ answers' = [answers EXCEPT ![a] = req[w].sheet]
  ELSE UNCHANGED <<attempts, answers>>

Finalize(w) ==
  /\ At(w, "finalize")
  /\ Grade(w)
  /\ Goto(w, IF req[w].starting THEN [Idle EXCEPT !.step = "readQuiz"] ELSE Idle)
  /\ UNCHANGED <<clock, quiz, deleter, kept>>

ReadQuizDeadline(w) ==
  /\ At(w, "readQuiz")
  /\ Goto(w, [req[w] EXCEPT !.step = "checkEligible", !.limit = clock + quiz.limit])
  /\ UNCHANGED <<clock, quiz, rowVars, deleter>>

(* startQuizAttempt once nothing is open: the quiz row is read (barred, a   *)
(* history, is set if the key shows by now), then the eligibility, in two   *)
(* queries taken as one, then the clock; the lock only covers the last step. *)
ReadQuiz(w) ==
  /\ At(w, "readQuiz")
  /\ IF quiz.state = "DELETED"
     THEN Done(w)
     ELSE req' = [req EXCEPT ![w].step = "checkEligible", ![w].limit = quiz.limit,
                             ![w].barred = NoneLeft]
  /\ UNCHANGED <<clock, quiz, rowVars, deleter>>

CheckEligible(w) ==
  /\ At(w, "checkEligible")
  /\ IF quiz.state = "ARCHIVED" \/ (quiz.state = "LIVE" /\ AttemptBlock)
     THEN Done(w)
     ELSE req' = [req EXCEPT ![w].step = "create", ![w].now = clock]
  /\ UNCHANGED <<clock, quiz, rowVars, deleter>>

(* Which row is a new one does not matter, so one choice will do. *)
NewRow == CHOOSE a \in Attempts : attempts[a].status = "NONE"

CreateAttemptWithoutRecheck(w, a) ==
  /\ At(w, "create")
  /\ quiz.state # "DELETED" /\ attempts[a].status = "NONE" /\ a = NewRow
  /\ attempts' = [attempts EXCEPT ![a].status = "IN_PROGRESS", ![a].startedAt = req[w].now,
                                  ![a].deadlineAt = QuizDeadline(req[w].now, req[w].limit)]
  /\ Done(w)
  /\ UNCHANGED <<clock, quiz, answers, deleter, kept>>

CreateAttempt(w, a) ==
  /\ At(w, "create")
  /\ quiz.state # "DELETED" /\ Open = {}
  /\ attempts[a].status = "NONE" /\ a = NewRow
  /\ attempts' = [attempts EXCEPT ![a].status = "IN_PROGRESS", ![a].startedAt = req[w].now,
                                  ![a].deadlineAt = QuizDeadline(req[w].now, req[w].limit)]
  /\ Done(w)
  /\ UNCHANGED <<clock, quiz, answers, deleter, kept>>

(* The attempt someone else opened is resumed, or the insert breaks its foreign key. *)
CreateNothing(w) ==
  /\ At(w, "create")
  /\ quiz.state = "DELETED" \/ Open # {}
  /\ Done(w)
  /\ UNCHANGED <<clock, quiz, rowVars, deleter>>

-----------------------------------------------------------------------------
(* The teacher, and time *)

(* The teacher changes settings; who raises maxAttempts lets the student try *)
(* again, whatever the result pages have shown.                             *)
UpdateQuizSettings(s) ==
  /\ quiz.state # "DELETED"
  /\ s # [limit |-> quiz.limit, max |-> quiz.max, cooldown |-> quiz.cooldown]
  /\ quiz' = [quiz EXCEPT !.limit = s.limit, !.max = s.max, !.cooldown = s.cooldown,
                         !.most = IF s.max > @ THEN s.max ELSE @]
  /\ req' = IF s.max > quiz.max
            THEN [w \in Workers |-> [req[w] EXCEPT !.barred = FALSE]]
            ELSE req
  /\ UNCHANGED <<clock, rowVars, deleter>>

CountSubmittedAttempts ==
  /\ deleter.step = "idle" /\ quiz.state # "DELETED"
  /\ deleter' = [step |-> "decided", found |-> Submitted # {}, seen |-> Taken]
  /\ UNCHANGED <<clock, quiz, rowVars, req>>

CountAttempts ==
  /\ deleter.step = "idle" /\ quiz.state # "DELETED"
  /\ deleter' = [step |-> "decided", found |-> Taken # {}, seen |-> Taken]
  /\ UNCHANGED <<clock, quiz, rowVars, req>>

ArchiveQuiz ==
  /\ deleter.step = "decided" /\ deleter.found
  /\ quiz' = [quiz EXCEPT !.state = "ARCHIVED"]
  /\ deleter' = NotDeleting
  /\ UNCHANGED <<clock, rowVars, req>>

(* The attempts, and their answers, go with the quiz (onDelete: Cascade). *)
RemoveQuiz ==
  /\ deleter.step = "decided" /\ ~ deleter.found
  /\ quiz' = [quiz EXCEPT !.state = "DELETED"]
  /\ deleter' = NotDeleting
  /\ attempts' = [a \in Attempts |-> NoRow]
  /\ answers' = [a \in Attempts |-> Blank]
  /\ kept' = [a \in Attempts |-> {Blank}]
  /\ UNCHANGED <<clock, req>>

Tick ==
  /\ clock < MaxClock
  /\ clock' = clock + 1
  /\ UNCHANGED <<quiz, rowVars, req, deleter>>

-----------------------------------------------------------------------------

Begin(w) ==
  \/ StartAnew(w)
  \/ \E a \in Attempts :
       \/ \E starting \in BOOLEAN : FindExpired(w, a, starting)
       \/ \E sheet \in Sheets, next \in {"commitSave", "finalize"} : Send(w, a, sheet, next)

Continue(w) ==
  \/ CommitSave(w) \/ ReadSaved(w) \/ Finalize(w)
  \/ ReadQuiz(w) \/ CheckEligible(w) \/ CreateNothing(w)
  \/ \E a \in Attempts : CreateAttempt(w, a)

Teacher ==
  \/ \E s \in quiz.choices : UpdateQuizSettings(s)
  \/ CountAttempts \/ ArchiveQuiz \/ RemoveQuiz

Next == Tick \/ Teacher \/ \E w \in Workers : Begin(w) \/ Continue(w)

Spec == Init /\ [][Next]_vars

-----------------------------------------------------------------------------
(* Properties *)

(* "A per-student lock serialises double clicks, which would otherwise     *)
(* open two attempts" (startQuizAttempt): however the starts interleave,   *)
(* one attempt at most is in progress.                                     *)
OneOpenAttempt == \A a, b \in Open : a = b

(* "grades the attempt exactly once" (finalizeAttempt): a submitted        *)
(* attempt and its answers never change again, whatever saves, submits and *)
(* auto-submits are still running; only the quiz's deletion removes it.    *)
GradedOnce ==
  [][\A a \in Attempts :
       IsSubmitted(a) /\ quiz'.state # "DELETED"
         => attempts'[a] = attempts[a] /\ answers'[a] = answers[a]]_vars

(* The answers on record are the ones that were graded: "a save can't land *)
(* on top of a submit that is grading the same attempt" (saveQuizAnswers). *)
RecordIsGraded == \A a \in Submitted : attempts[a].graded = answers[a]

(* An attempt is auto-submitted only when its deadline and the grace are   *)
(* over, and is graded from what had been saved by then: nothing saved in  *)
(* time is lost, except to a later save that was let through in time.      *)
AutoGradesSaved ==
  \A a \in Submitted :
    attempts[a].auto /\ attempts[a].deadlineAt # NoDeadline =>
      /\ attempts[a].submittedAt > attempts[a].deadlineAt + Grace
      /\ attempts[a].graded \in kept[a]

(* The eligibility check runs outside the lock, so starts that overlap a   *)
(* submit can exceed maxAttempts, but by no more than the student's other  *)
(* running requests, whatever the teacher changes meanwhile; a student who *)
(* does one thing at a time never has more than was allowed at some time.  *)
AttemptsBounded == Cardinality(Taken) <= quiz.most + Cardinality(Workers) - 1

(* "A quiz students have taken is archived rather than deleted"            *)
(* (deleteQuiz): an attempt that existed when deleteQuiz counted is never  *)
(* removed, even if it was still open.                                     *)
CountedAttemptsKept ==
  [][\A a \in deleter.seen \cap Taken : attempts'[a].status # "NONE"]_vars

(* "Correct answers are only shown once they can no longer help on a later *)
(* attempt: after the student has passed the quiz, or when they have no    *)
(* attempts left" (quiz-rules.ts): a start that reads the quiz when the    *)
(* result pages show the key to a student with no attempts left is refused *)
(* on its way to the insert, whatever overlaps, unless the teacher raises  *)
(* maxAttempts or deletes the quiz meanwhile.                              *)
KeyHelpsNoLaterStart ==
  \A w \in Workers : req[w].step = "create" /\ req[w].barred => quiz.state = "DELETED"

=============================================================================
