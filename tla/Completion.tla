----------------------------- MODULE Completion -----------------------------
(***************************************************************************)
(* One student on one course: lessons that come and go, lesson progress,   *)
(* Enrollment.completedAt, which progress-service.ts keeps in line with    *)
(* both, and the certificate (certificate-service.ts) that a completed     *)
(* course with its quizzes passed earns.                                   *)
(*                                                                         *)
(* A request goes from one awaited query to the next; the queries of one   *)
(* Promise.all are one step.  recomputeCourseCompletion treats every       *)
(* student of a course alike and apart, so one student is enough.  The     *)
(* enrolment itself is opened and ended by orders, grants and refunds.     *)
(***************************************************************************)
EXTENDS Naturals, FiniteSets

CONSTANTS
  Lessons,    \* identities of lessons: a bound on those ever created
  Previews,   \* the lessons anybody may see and have progress on
  Requests    \* requests running at once, of the student, the teacher and the admins

ASSUME CompletionAssumption == IsFiniteSet(Lessons) /\ Previews \subseteq Lessons

VARIABLES
  lessons,      \* the course's lessons
  unused,       \* identities not given to a lesson yet
  done,         \* the lessons whose LessonProgress is completed
  enrolment,    \* the Enrollment row: status and whether completedAt is set
  subscribed,   \* has the student access by a subscription?
  quizDue,      \* is there a live quiz with questions that the student has not passed?
  certificate,  \* the Certificate row
  req,          \* what each request is doing
  finished,     \* history: has the student ever had every lesson done?
  drift         \* history: why completedAt may be out of line, see Drifts

vars == <<lessons, unused, done, enrolment, subscribed, quizDue, certificate, req, finished, drift>>
courseVars == <<lessons, unused>>
outside == <<subscribed, quizDue>>

-----------------------------------------------------------------------------
(* Data *)

Steps == {"idle", "upsert", "count", "tally", "write",
          "checkEnrolment", "checkQuizzes", "reread", "create"}
Verdicts == {"none", "complete", "clear"}

(* What a recomputation did not see: "overlap", rows it reads changed before it  *)
(* had written; "unenrolled", it found the enrolment not ACTIVE; "undone", a     *)
(* lesson was set undone, after which nothing is recomputed; "died", it died.    *)
(* The next recomputation that nothing overlaps makes up for all four.           *)
(* "miscounted" stays: an overlapped recomputation has set completedAt.          *)
Drifts == {"overlap", "unenrolled", "undone", "died", "miscounted"}

Count == 0..Cardinality(Lessons)
NoRequest == [step |-> "idle", lesson |-> {}, completed |-> FALSE, total |-> 0,
              found |-> FALSE, verdict |-> "none", overlapped |-> FALSE]

TypeOK ==
  /\ lessons \subseteq Lessons /\ unused \subseteq Lessons \ lessons
  /\ done \subseteq lessons
  /\ enrolment \in [status: {"NONE", "ACTIVE", "ENDED"}, completed: BOOLEAN]
  /\ subscribed \in BOOLEAN /\ quizDue \in BOOLEAN
  /\ certificate \in {"none", "issued", "revoked"}
  /\ req \in [Requests -> [step: Steps, lesson: SUBSET Lessons, completed: BOOLEAN, total: Count,
                           found: BOOLEAN, verdict: Verdicts, overlapped: BOOLEAN]]
  /\ finished \in BOOLEAN
  /\ drift \subseteq Drifts

Init ==
  /\ \E l \in Lessons : lessons = {l}
  /\ unused = Lessons \ lessons
  /\ done = {}
  /\ enrolment = [status |-> "NONE", completed |-> FALSE]
  /\ subscribed \in BOOLEAN
  /\ quizDue \in BOOLEAN
  /\ certificate = "none"
  /\ req = [r \in Requests |-> NoRequest]
  /\ finished = FALSE
  /\ drift = {}

Finished(ls, ds) == ls # {} /\ ds = ls
At(r, step) == req[r].step = step
Recomputing(r) == At(r, "tally") \/ At(r, "write")

(* The next state of the requests when r moves on to state, having changed rows *)
(* a recomputation reads or not.                                                *)
Move(r, state, changes) ==
  req' = [q \in Requests |->
    IF q = r THEN state
    ELSE IF changes /\ Recomputing(q) THEN [req[q] EXCEPT !.overlapped = TRUE] ELSE req[q]]

(* canAccessCourse, of a student and a published course. *)
CanAccessCourse == enrolment.status = "ACTIVE" \/ subscribed
CanAccessLesson(l) == l \in lessons /\ (l \in Previews \/ CanAccessCourse)

-----------------------------------------------------------------------------
(* Progress and curriculum *)

(* recordLessonProgress: access and the lesson are read first, *)
RecordLessonProgress(r, l, completed) ==
  /\ At(r, "idle")
  /\ CanAccessLesson(l)
  /\ Move(r, [NoRequest EXCEPT !.step = "upsert", !.lesson = {l}, !.completed = completed], FALSE)
  /\ UNCHANGED <<courseVars, done, enrolment, outside, certificate, finished, drift>>

(* then the progress row is written, which fails if the lesson has gone; only a *)
(* completed lesson is followed by a recomputation.                             *)
UpsertLessonProgress(r) ==
  /\ At(r, "upsert")
  /\ IF req[r].lesson \subseteq lessons
     THEN /\ done' = IF req[r].completed THEN done \cup req[r].lesson ELSE done \ req[r].lesson
          /\ Move(r, IF req[r].completed THEN [NoRequest EXCEPT !.step = "count"] ELSE NoRequest,
                  done' # done)
          /\ drift' = IF req[r].completed THEN drift ELSE drift \cup {"undone"}
     ELSE Move(r, NoRequest, FALSE) /\ UNCHANGED <<done, drift>>
  /\ finished' = (finished \/ Finished(lessons, done'))
  /\ UNCHANGED <<courseVars, enrolment, outside, certificate>>

CreateLessonSilently(r, l) ==
  /\ At(r, "idle")
  /\ l \in unused
  /\ lessons' = lessons \cup {l}
  /\ unused' = unused \ {l}
  /\ Move(r, NoRequest, TRUE)
  /\ UNCHANGED <<done, enrolment, outside, certificate, finished, drift>>

(* createLesson, *)
CreateLesson(r, l) ==
  /\ At(r, "idle")
  /\ l \in unused
  /\ lessons' = lessons \cup {l}
  /\ unused' = unused \ {l}
  /\ Move(r, [NoRequest EXCEPT !.step = "count"], TRUE)
  /\ UNCHANGED <<done, enrolment, outside, certificate, finished, drift>>

DeleteLessonsOnly(r, gone) ==
  /\ At(r, "idle")
  /\ gone # {} /\ gone \subseteq lessons
  /\ lessons' = lessons \ gone
  /\ Move(r, [NoRequest EXCEPT !.step = "count"], TRUE)
  /\ finished' = (finished \/ Finished(lessons', done))
  /\ UNCHANGED <<unused, done, enrolment, outside, certificate, drift>>

(* deleteLesson and deleteSection, whose lessons take their progress with them. *)
DeleteLessons(r, gone) ==
  /\ At(r, "idle")
  /\ gone # {} /\ gone \subseteq lessons
  /\ lessons' = lessons \ gone
  /\ done' = done \ gone
  /\ Move(r, [NoRequest EXCEPT !.step = "count"], TRUE)
  /\ finished' = (finished \/ Finished(lessons', done'))
  /\ UNCHANGED <<unused, enrolment, outside, certificate, drift>>

-----------------------------------------------------------------------------
(* recomputeCourseCompletion *)

(* The lessons are counted and the active enrolments read, *)
CountLessons(r) ==
  /\ At(r, "count")
  /\ IF enrolment.status = "ACTIVE"
     THEN /\ Move(r, [NoRequest EXCEPT !.step = "tally", !.total = Cardinality(lessons),
                                       !.found = enrolment.completed], FALSE)
          /\ UNCHANGED drift
     ELSE /\ Move(r, NoRequest, FALSE)
          /\ drift' = drift \cup {"unenrolled"}
  /\ UNCHANGED <<courseVars, done, enrolment, outside, certificate, finished>>

Judge(r, complete) ==
  IF complete /\ ~ req[r].found THEN "complete"
  ELSE IF ~ complete /\ req[r].found /\ certificate = "none" THEN "clear"
  ELSE "none"

TallyProgressOfNone(r) ==
  /\ At(r, "tally")
  /\ Move(r, [req[r] EXCEPT !.step = "write",
        !.verdict = Judge(r, Cardinality(done) >= req[r].total)], FALSE)
  /\ UNCHANGED <<courseVars, done, enrolment, outside, certificate, finished, drift>>

(* then the lessons done and the certificates; *)
TallyProgress(r) ==
  /\ At(r, "tally")
  /\ Move(r, [req[r] EXCEPT !.step = "write",
        !.verdict = Judge(r, req[r].total > 0 /\ Cardinality(done) >= req[r].total)], FALSE)
  /\ UNCHANGED <<courseVars, done, enrolment, outside, certificate, finished, drift>>

(* and completedAt is set or cleared: set only where it is null, cleared as it is. *)
WriteCompletion(r) ==
  /\ At(r, "write")
  /\ enrolment' = CASE req[r].verdict = "complete" -> [enrolment EXCEPT !.completed = TRUE]
                    [] req[r].verdict = "clear"    -> [enrolment EXCEPT !.completed = FALSE]
                    [] OTHER                       -> enrolment
  /\ Move(r, NoRequest, enrolment' # enrolment)
  /\ drift' =
       IF req[r].overlapped
       THEN drift \cup {"overlap"} \cup (IF req[r].verdict = "complete" THEN {"miscounted"} ELSE {})
       ELSE drift \cap {"miscounted"}
  /\ UNCHANGED <<courseVars, done, outside, certificate, finished>>

(* A query throws, or the process dies, before a recomputation has written. *)
Die(r) ==
  /\ At(r, "count") \/ Recomputing(r)
  /\ Move(r, NoRequest, FALSE)
  /\ drift' = drift \cup {"died"}
  /\ UNCHANGED <<courseVars, done, enrolment, outside, certificate, finished>>

-----------------------------------------------------------------------------
(* The certificate *)

GoOn(r, from, condition, to) ==
  /\ At(r, from)
  /\ Move(r, IF condition THEN [NoRequest EXCEPT !.step = to] ELSE NoRequest, FALSE)
  /\ UNCHANGED <<courseVars, done, enrolment, outside, certificate, finished, drift>>

(* generateCertificate: one that exists is returned, or refused as revoked. *)
GenerateCertificate(r) == certificate = "none" /\ GoOn(r, "idle", TRUE, "checkEnrolment")

(* canGenerateCertificate: an active, completed enrolment, *)
CheckEnrolment(r) ==
  GoOn(r, "checkEnrolment", enrolment.status = "ACTIVE" /\ enrolment.completed, "checkQuizzes")

(* and every live quiz that has questions passed. *)
CheckQuizzes(r) == GoOn(r, "checkQuizzes", ~ quizDue, "reread")

(* The enrolment is read again for completedAt, which the certificate needs. *)
RereadEnrolment(r) == GoOn(r, "reread", enrolment.completed, "create")

(* One certificate for a student and a course: a second create throws. *)
CreateCertificate(r) ==
  /\ At(r, "create")
  /\ certificate' = IF certificate = "none" THEN "issued" ELSE certificate
  /\ Move(r, NoRequest, FALSE)
  /\ UNCHANGED <<courseVars, done, enrolment, outside, finished, drift>>

RevokeCertificate ==
  /\ certificate # "none"
  /\ certificate' = "revoked"
  /\ UNCHANGED <<courseVars, done, enrolment, outside, req, finished, drift>>

-----------------------------------------------------------------------------
(* What others do: the enrolment row, access and the quizzes *)

SetStatus(status) ==
  /\ enrolment' = [enrolment EXCEPT !.status = status]
  /\ req' = [q \in Requests |-> IF Recomputing(q) THEN [req[q] EXCEPT !.overlapped = TRUE] ELSE req[q]]
  /\ UNCHANGED <<courseVars, done, outside, certificate, finished, drift>>

(* enrollInFreeCourse, of who has no enrolment. *)
EnrollInFreeCourse == enrolment.status = "NONE" /\ SetStatus("ACTIVE")

(* enrollUserByEmail, or a purchase: completedAt is left as it is. *)
EnrollUserByEmail == enrolment.status # "ACTIVE" /\ SetStatus("ACTIVE")

(* A refund or a dispute. *)
EndEnrolment == enrolment.status = "ACTIVE" /\ SetStatus("ENDED")

(* A quiz is passed, or goes live, is archived or deleted; the subscription lapses. *)
ChangeOutside ==
  /\ \/ quizDue' = ~ quizDue /\ UNCHANGED subscribed
     \/ subscribed /\ subscribed' = FALSE /\ UNCHANGED quizDue
  /\ UNCHANGED <<courseVars, done, enrolment, certificate, req, finished, drift>>

Next ==
  \/ \E r \in Requests :
       \/ \E l \in Lessons : CreateLesson(r, l) \/ \E c \in BOOLEAN : RecordLessonProgress(r, l, c)
       \/ \E gone \in SUBSET lessons : DeleteLessons(r, gone)
       \/ UpsertLessonProgress(r) \/ CountLessons(r) \/ TallyProgress(r) \/ WriteCompletion(r) \/ Die(r)
       \/ GenerateCertificate(r) \/ CheckEnrolment(r) \/ CheckQuizzes(r) \/ RereadEnrolment(r)
       \/ CreateCertificate(r)
  \/ RevokeCertificate \/ EnrollInFreeCourse \/ EnrollUserByEmail \/ EndEnrolment \/ ChangeOutside

Spec == Init /\ [][Next]_vars

-----------------------------------------------------------------------------
(* Properties *)

(* recomputeCourseCompletion "brings completedAt in line with the course's current *)
(* lessons", however the progress and the curriculum change: an active enrolment   *)
(* is completed exactly when every lesson is done, unless a recomputation is still *)
(* to come, the student holds a certificate, or something drifted that no later    *)
(* recomputation has made up for.                                                  *)
CompletionIsCurrent ==
  enrolment.status = "ACTIVE" /\ enrolment.completed # Finished(lessons, done) =>
    \/ \E r \in Requests : At(r, "count") \/ Recomputing(r)
    \/ enrolment.completed /\ certificate # "none"
    \/ drift \ {"miscounted"} # {}

(* A certificate is earned: its student has at some time had every lesson of the  *)
(* course done.  Only a recomputation that counted the lessons before, and the    *)
(* progress after, a change of the curriculum can complete a course otherwise.    *)
CertificateWasEarned == certificate # "none" => finished \/ "miscounted" \in drift
=============================================================================
