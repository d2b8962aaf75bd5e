---------------------------- MODULE CourseReview ----------------------------
(***************************************************************************)
(* One course on its way to the catalogue, and after: the teacher's edits, *)
(* the publish checklist and the submission for review, the decisions of   *)
(* the admins and the flag that sends an edited course back to them, in    *)
(* src/src/server/services/course-service.ts with lib/studio.ts; and the   *)
(* catalogue numbers of course-stats-service.ts, which those edits and the *)
(* students' reviews (review-service.ts) recompute.                        *)
(*                                                                         *)
(* A request goes from one awaited query to the next; a transaction is one *)
(* step.  What the teacher writes is a version number.  Who may do what is *)
(* checked before anything is read here and is left out.                   *)
(***************************************************************************)
EXTENDS Naturals

CONSTANTS
  Requests,  \* requests running at once, of the teacher, the admins and the students
  MaxEdits   \* bound on the versions written

ASSUME ReviewAssumption == MaxEdits \in Nat

VARIABLES
  course,   \* status, whether changedSinceReviewAt is set, isFeatured, is the checklist done
  content,  \* version of what a review is about: details, price, curriculum, lessons
  source,   \* version of what the catalogue numbers are computed from
  stats,    \* the version they were last computed from
  req,      \* what each request is doing
  signed,   \* history: the content an admin last signed off
  told,     \* history: were the admins told of a change since then?
  lapses    \* history: what has gone wrong with a request, see Lapses

vars == <<course, content, source, stats, req, signed, told, lapses>>
courseHistory == <<signed, told, lapses>>

-----------------------------------------------------------------------------
(* Data *)

Statuses == {"DRAFT", "IN_REVIEW", "APPROVED", "PUBLISHED", "REJECTED"}
Reviewed == {"APPROVED", "PUBLISHED"}
Versions == 0..MaxEdits

(* The statuses in which each decision goes ahead; a course is taken off   *)
(* the home page, and its changes are signed off, in any.                  *)
Submittable == {"DRAFT", "REJECTED"}
AwaitingReview == {"IN_REVIEW"}
Publishable == {"APPROVED"}
OnSale == {"PUBLISHED"}
Needs == [submit |-> Submittable, approve |-> AwaitingReview, reject |-> AwaitingReview,
          publish |-> Publishable, unpublish |-> OnSale, feature |-> OnSale,
          unfeature |-> Statuses, signOff |-> Statuses]
Decisions == DOMAIN Needs

(* What an edit has to do once it is written: "lesson" is counted and flagged,  *)
(* as the price and the lessons are, "text" only flagged, as the landing page   *)
(* and the order of the curriculum are, "rating" only counted.                  *)
Edits == {"lesson", "text", "rating"}
Refreshes == {"lesson", "rating"}
Flagged == {"lesson", "text"}
Steps == {"idle", "decided", "readStats", "writeStats", "readFlag", "writeFlag", "notifyAdmins"}

(* A decision: it was written over a status in which it does not go           *)
(* ahead.  "unflagged", "unrefreshed": a request died before it had flagged   *)
(* or refreshed what it wrote.  "silent": a change was flagged by a request   *)
(* that had found the flag set before the last sign-off.  "regressed":        *)
(* numbers computed from an older version were written over newer ones.       *)
Lapses == Decisions \cup {"unflagged", "unrefreshed", "silent", "regressed"}

Idle == [step |-> "idle", does |-> "text", saw |-> 0, wasFlagged |-> FALSE, expired |-> FALSE]

TypeOK ==
  /\ course \in [status: Statuses, changed: BOOLEAN, featured: BOOLEAN, ready: BOOLEAN]
  /\ content \in Versions /\ source \in Versions /\ stats \in Versions /\ signed \in Versions
  /\ req \in [Requests -> [step: Steps, does: Decisions \cup Edits, saw: Versions,
                           wasFlagged: BOOLEAN, expired: BOOLEAN]]
  /\ told \in BOOLEAN
  /\ lapses \subseteq Lapses

Init ==
  /\ course = [status |-> "DRAFT", changed |-> FALSE, featured |-> FALSE, ready |-> FALSE]
  /\ content = 0 /\ source = 0 /\ stats = 0 /\ signed = 0
  /\ req = [r \in Requests |-> Idle]
  /\ told = FALSE
  /\ lapses = {}

At(r, step) == req[r].step = step
Goto(r, state) == req' = [req EXCEPT ![r] = state]
Done(r) == Goto(r, Idle)

-----------------------------------------------------------------------------
(* Edits *)

(* flagChangedSinceReview comes last; ratings and numbers are not the teacher's. *)
AfterStats(edit) == IF edit \in Flagged THEN "readFlag" ELSE "idle"
AfterWriteRated(edit) == IF edit = "rating" THEN "readStats" ELSE AfterStats(edit)
AfterWrite(edit) == IF edit \in Refreshes THEN "readStats" ELSE AfterStats(edit)

(* An edit is written, and may complete or undo the checklist. *)
Edit(r, edit, ready) ==
  /\ At(r, "idle")
  /\ content < MaxEdits /\ source < MaxEdits
  /\ content' = IF edit \in Flagged THEN content + 1 ELSE content
  /\ source' = IF edit \in Refreshes THEN source + 1 ELSE source
  /\ course' = [course EXCEPT !.ready = ready]
  /\ Goto(r, [Idle EXCEPT !.step = AfterWrite(edit), !.does = edit])
  /\ UNCHANGED <<stats, courseHistory>>

(* updateCourseDetails and updateCoursePricing; updateCourseLanding and updateCourseGoals. *)
EditDetails(r, edit, ready) == Edit(r, edit, ready)

(* createLesson, updateLesson, deleteLesson and deleteSection; moveSection  *)
(* and moveLesson.  recomputeCourseCompletion, which comes before the       *)
(* numbers for all but updateLesson, reads and writes none of these rows: a *)
(* request that dies in it is one that dies at readStats.                   *)
EditCurriculum(r, edit, ready) ==
  /\ edit = "text" => ready = course.ready
  /\ Edit(r, edit, ready)

(* submitReview, and setReviewHidden and deleteReview of an admin. *)
RateCourse(r) == Edit(r, "rating", course.ready)

(* createSection, updateSection: neither flagged nor counted; an empty section *)
(* undoes the checklist.                                                       *)
EditSection(r, ready) ==
  /\ At(r, "idle")
  /\ ready => course.ready
  /\ course' = [course EXCEPT !.ready = ready]
  /\ UNCHANGED <<content, source, stats, req, courseHistory>>

(* refreshCourseStats: the reads run side by side.  The step is the first of *)
(* them: what the others see can only be newer, and counts as no newer,      *)
ReadStats(r) ==
  /\ At(r, "readStats")
  /\ Goto(r, [req[r] EXCEPT !.step = "writeStats", !.saw = source])
  /\ UNCHANGED <<course, content, source, stats, courseHistory>>

(* and the update, which overwrites whatever is there. *)
WriteStats(r) ==
  /\ At(r, "writeStats")
  /\ stats' = req[r].saw
  /\ lapses' = (IF req[r].saw < stats THEN lapses \cup {"regressed"} ELSE lapses)
               \ (IF req[r].saw = source THEN {"unrefreshed", "regressed"} ELSE {})
  /\ IF AfterStats(req[r].does) = "idle" THEN Done(r)
     ELSE Goto(r, [req[r] EXCEPT !.step = AfterStats(req[r].does), !.saw = 0])
  /\ UNCHANGED <<course, content, source, signed, told>>

ReadFlagPublished(r) ==
  /\ At(r, "readFlag")
  /\ IF course.status = "PUBLISHED"
     THEN Goto(r, [req[r] EXCEPT !.step = "writeFlag", !.wasFlagged = course.changed])
     ELSE Done(r)
  /\ UNCHANGED <<course, content, source, stats, courseHistory>>

(* flagChangedSinceReview reads the course, which only a review protects, *)
ReadFlag(r) ==
  /\ At(r, "readFlag")
  /\ IF course.status \in Reviewed
     THEN Goto(r, [req[r] EXCEPT !.step = "writeFlag", !.wasFlagged = course.changed])
     ELSE Done(r)
  /\ UNCHANGED <<course, content, source, stats, courseHistory>>

WriteFlagQuietly(r) ==
  /\ At(r, "writeFlag")
  /\ course' = [course EXCEPT !.changed = TRUE]
  /\ Done(r)
  /\ UNCHANGED <<content, source, stats, courseHistory>>

(* sets the flag, whatever has been decided since, and goes on to tell the admins *)
(* unless it had found the flag set: they know of this round of changes.          *)
WriteFlag(r) ==
  /\ At(r, "writeFlag")
  /\ course' = [course EXCEPT !.changed = TRUE]
  /\ IF req[r].wasFlagged
     THEN /\ Done(r)
          /\ lapses' = IF req[r].expired THEN lapses \cup {"silent"} ELSE lapses
     ELSE /\ Goto(r, [req[r] EXCEPT !.step = "notifyAdmins", !.expired = FALSE])
          /\ UNCHANGED lapses
  /\ UNCHANGED <<content, source, stats, signed, told>>

NotifyAdmins(r) ==
  /\ At(r, "notifyAdmins")
  /\ told' = TRUE
  /\ Done(r)
  /\ UNCHANGED <<course, content, source, stats, signed, lapses>>

(* A query of an edit throws, or its process dies. *)
Die(r) ==
  /\ ~ At(r, "idle") /\ ~ At(r, "decided")
  /\ lapses' = lapses
       \cup (IF At(r, "readStats") \/ At(r, "writeStats") THEN {"unrefreshed"} ELSE {})
       \cup (IF req[r].does \in Flagged THEN {"unflagged"} ELSE {})
  /\ Done(r)
  /\ UNCHANGED <<course, content, source, stats, signed, told>>

-----------------------------------------------------------------------------
(* Decisions *)

(* Every decision reads the course and checks its status; a submission its *)
(* checklist too.                                                          *)
Decide(r, d) ==
  /\ At(r, "idle")
  /\ course.status \in Needs[d]
  /\ d = "submit" => course.ready
  /\ Goto(r, [Idle EXCEPT !.step = "decided", !.does = d])
  /\ UNCHANGED <<course, content, source, stats, courseHistory>>

(* The update that follows is by id alone. *)
Commit(r, d) ==
  /\ At(r, "decided") /\ req[r].does = d
  /\ lapses' = IF course.status \in Needs[d] THEN lapses ELSE lapses \cup {d}
  /\ Done(r)
  /\ UNCHANGED <<content, source, stats>>

(* An approval or a sign-off covers the content of its moment.  The requests *)
(* that have read the flag are now a round late.                             *)
CommitSignOff(r, d, after) ==
  /\ At(r, "decided") /\ req[r].does = d
  /\ course' = after
  /\ req' = [q \in Requests |->
       IF q = r THEN Idle ELSE IF At(q, "writeFlag") THEN [req[q] EXCEPT !.expired = TRUE] ELSE req[q]]
  /\ signed' = content
  /\ told' = FALSE
  /\ lapses' = (IF course.status \in Needs[d] THEN lapses ELSE lapses \cup {d}) \ {"unflagged", "silent"}
  /\ UNCHANGED <<content, source, stats>>

SubmitCourseForReview(r) ==
  /\ Commit(r, "submit")
  /\ course' = [course EXCEPT !.status = "IN_REVIEW"]
  /\ UNCHANGED <<signed, told>>

ApproveCourse(r) ==
  CommitSignOff(r, "approve", [course EXCEPT !.status = "APPROVED", !.changed = FALSE])

RejectCourse(r) ==
  /\ Commit(r, "reject")
  /\ course' = [course EXCEPT !.status = "REJECTED"]
  /\ UNCHANGED <<signed, told>>

PublishCourse(r) ==
  /\ Commit(r, "publish")
  /\ course' = [course EXCEPT !.status = "PUBLISHED"]
  /\ UNCHANGED <<signed, told>>

UnpublishCourseFeatured(r) ==
  /\ Commit(r, "unpublish")
  /\ course' = [course EXCEPT !.status = "APPROVED"]
  /\ UNCHANGED <<signed, told>>

(* An unpublished course leaves the home page's rail. *)
UnpublishCourse(r) ==
  /\ Commit(r, "unpublish")
  /\ course' = [course EXCEPT !.status = "APPROVED", !.featured = FALSE]
  /\ UNCHANGED <<signed, told>>

MarkCourseReviewed(r) == CommitSignOff(r, "signOff", [course EXCEPT !.changed = FALSE])

SetCourseFeatured(r) ==
  /\ Commit(r, req[r].does)
  /\ req[r].does \in {"feature", "unfeature"}
  /\ course' = [course EXCEPT !.featured = (req[r].does = "feature")]
  /\ UNCHANGED <<signed, told>>

Next ==
  \/ \E r \in Requests, edit \in Flagged, ready \in BOOLEAN :
       EditDetails(r, edit, ready) \/ EditCurriculum(r, edit, ready)
  \/ \E r \in Requests : RateCourse(r)
  \/ \E r \in Requests, ready \in BOOLEAN : EditSection(r, ready)
  \/ \E r \in Requests, d \in Decisions : Decide(r, d)
  \/ \E r \in Requests :
       \/ ReadStats(r) \/ WriteStats(r) \/ ReadFlag(r) \/ WriteFlag(r) \/ NotifyAdmins(r) \/ Die(r)
       \/ SubmitCourseForReview(r) \/ ApproveCourse(r) \/ RejectCourse(r)
       \/ PublishCourse(r) \/ UnpublishCourse(r) \/ MarkCourseReviewed(r) \/ SetCourseFeatured(r)

Spec == Init /\ [][Next]_vars

-----------------------------------------------------------------------------
(* Properties *)

(* An edit that is written and has yet to flag the course. *)
Flagging(r) == req[r].does \in Flagged /\ req[r].step \in {"readStats", "writeStats", "readFlag", "writeFlag"}

(* "A teacher edit to its details, price or lessons flags it for re-review      *)
(* instead of slipping through unseen": what a reviewed course holds beyond     *)
(* what was signed off is flagged, or about to be.  This is true of edits and   *)
(* sign-offs in any order; not when a request died after writing, nor when a    *)
(* publish or unpublish was written over a status that another decision had     *)
(* taken the course to.                                                         *)
ChangesAreFlagged ==
  course.status \in Reviewed /\ content # signed =>
    \/ course.changed
    \/ \E r \in Requests : Flagging(r)
    \/ lapses \cap {"unflagged", "publish", "unpublish"} # {}

(* "Admins are notified on the first change since the last review": of a flagged *)
(* course they have been told, or are about to be, unless the edit had found the *)
(* flag set before a sign-off cleared it, or died.                               *)
ToldOfChanges ==
  course.changed =>
    \/ told
    \/ \E r \in Requests : At(r, "notifyAdmins")
    \/ lapses \cap {"silent", "unflagged"} # {}

(* "Unpublished courses must never surface on the home page rail": a featured    *)
(* course is on sale, as long as no decision is written over another one.        *)
FeaturedIsOnSale ==
  course.featured => course.status = "PUBLISHED" \/ lapses \cap Decisions # {}

(* The numbers the catalogue sorts and filters by are those of the rows they are *)
(* computed from, or will be, however the recomputations overlap, unless one that *)
(* read older rows wrote last, or one died.                                       *)
StatsAreFresh ==
  stats # source =>
    \/ \E r \in Requests : At(r, "readStats")
    \/ \E r \in Requests : At(r, "writeStats") /\ req[r].saw = source
    \/ lapses \cap {"unrefreshed", "regressed"} # {}
=============================================================================
