------------------------- MODULE CourseReviewProofs -------------------------
(***************************************************************************)
(* Theorems about CourseReview, for any number of requests and edits.      *)
(***************************************************************************)
EXTENDS CourseReview, TLAPS

(* What a request has read of the numbers is not newer than the rows are. *)
SeenIsPast ==
  /\ stats <= source
  /\ \A r \in Requests : req[r].saw <= source

(* Only an edit that has to flags the course; and one that found it flagged *)
(* finds it so still, unless a sign-off has made it late.                   *)
FlagIsKnown ==
  \A r \in Requests :
    /\ req[r].step \in {"readFlag", "writeFlag", "notifyAdmins"} => req[r].does \in Flagged
    /\ At(r, "writeFlag") /\ req[r].wasFlagged /\ ~ req[r].expired => course.changed

IInv ==
  /\ TypeOK
  /\ SeenIsPast
  /\ FlagIsKnown
  /\ ChangesAreFlagged
  /\ ToldOfChanges
  /\ FeaturedIsOnSale
  /\ StatsAreFresh

-----------------------------------------------------------------------------
(* Types *)

Request == [step: Steps, does: Decisions \cup Edits, saw: Versions,
            wasFlagged: BOOLEAN, expired: BOOLEAN]
Course == [status: Statuses, changed: BOOLEAN, featured: BOOLEAN, ready: BOOLEAN]

LEMMA Types ==
  /\ TypeOK <=>
       /\ course \in Course
       /\ content \in Versions /\ source \in Versions /\ stats \in Versions /\ signed \in Versions
       /\ req \in [Requests -> Request]
       /\ told \in BOOLEAN
       /\ lapses \subseteq Lapses
  /\ TypeOK' <=>
       /\ course' \in Course
       /\ content' \in Versions /\ source' \in Versions /\ stats' \in Versions /\ signed' \in Versions
       /\ req' \in [Requests -> Request]
       /\ told' \in BOOLEAN
       /\ lapses' \subseteq Lapses
BY DEF TypeOK, Course, Request

LEMMA IdleType == Idle \in Request
BY ReviewAssumption DEF Idle, Request, Steps, Edits, Versions

(* What the steps make of a request. *)
LEMMA RequestTypes ==
  ASSUME NEW old \in Request, NEW step \in Steps, NEW does \in Decisions \cup Edits,
         NEW saw \in Versions, NEW yes \in BOOLEAN
  PROVE  /\ [Idle EXCEPT !.step = step, !.does = does] \in Request
         /\ [old EXCEPT !.step = step, !.saw = saw] \in Request
         /\ [old EXCEPT !.step = step, !.wasFlagged = yes] \in Request
         /\ [old EXCEPT !.step = step, !.expired = yes] \in Request
BY IdleType DEF Request

LEMMA InitIInv == Init => IInv
<1> SUFFICES ASSUME Init PROVE IInv
  OBVIOUS
<1>1. course \in Course
  BY DEF Init, Course, Statuses
<1>2. 0 \in Versions
  BY ReviewAssumption DEF Versions
<1>3. req \in [Requests -> Request]
  BY IdleType DEF Init
<1>4. TypeOK
  BY <1>1, <1>2, <1>3, Types DEF Init
<1> QED
  BY <1>4
     DEF Init, IInv, SeenIsPast, FlagIsKnown, ChangesAreFlagged, ToldOfChanges,
         FeaturedIsOnSale, StatsAreFresh, At, Idle, Reviewed

(* The steps, those of the teacher and of students as the edit they make. *)
Signs(r) == \E d \in {"approve", "signOff"}, after \in Course :
  /\ CommitSignOff(r, d, after)
  /\ ~ after.changed /\ after.featured = course.featured
  /\ after.status = IF d = "approve" THEN "APPROVED" ELSE course.status
StepOf(r) ==
  \/ \E edit \in Edits, ready \in BOOLEAN : Edit(r, edit, ready)
  \/ \E ready \in BOOLEAN : EditSection(r, ready)
  \/ \E d \in Decisions : Decide(r, d)
  \/ ReadStats(r) \/ WriteStats(r) \/ ReadFlag(r) \/ WriteFlag(r) \/ NotifyAdmins(r) \/ Die(r)
  \/ SubmitCourseForReview(r) \/ RejectCourse(r) \/ PublishCourse(r) \/ UnpublishCourse(r)
  \/ Signs(r) \/ SetCourseFeatured(r)

LEMMA StepCases ==
  ASSUME TypeOK, [Next]_vars
  PROVE  UNCHANGED vars \/ \E r \in Requests : StepOf(r)
<1>1. ASSUME NEW r \in Requests, ApproveCourse(r) \/ MarkCourseReviewed(r)
      PROVE  Signs(r)
  <2>1. course \in Course
    BY Types
  <2>2. CASE ApproveCourse(r)
    <3> DEFINE after == [course EXCEPT !.status = "APPROVED", !.changed = FALSE]
    <3>1. after \in Course /\ ~ after.changed /\ after.featured = course.featured /\ after.status = "APPROVED"
      BY <2>1 DEF Course, Statuses
    <3>2. CommitSignOff(r, "approve", after)
      BY <2>2 DEF ApproveCourse
    <3> QED
      BY <3>1, <3>2 DEF Signs
  <2>3. CASE MarkCourseReviewed(r)
    <3> DEFINE after == [course EXCEPT !.changed = FALSE]
    <3>1. after \in Course /\ ~ after.changed /\ after.featured = course.featured /\ after.status = course.status
      BY <2>1 DEF Course
    <3>2. CommitSignOff(r, "signOff", after)
      BY <2>3 DEF MarkCourseReviewed
    <3> QED
      BY <3>1, <3>2 DEF Signs
  <2> QED
    BY <1>1, <2>2, <2>3
<1>2. course.ready \in BOOLEAN
  BY Types DEF Course
<1> QED
  BY <1>1, <1>2
     DEF Next, StepOf, EditDetails, EditCurriculum, RateCourse, Flagged, Edits

(* Every action keeps the types. *)
LEMMA TypeStep ==
  ASSUME TypeOK, [Next]_vars
  PROVE  TypeOK'
<1> USE Types
<1>0. /\ course \in Course
      /\ content \in Versions /\ source \in Versions /\ stats \in Versions /\ signed \in Versions
      /\ req \in [Requests -> Request]
      /\ lapses \subseteq Lapses
  OBVIOUS
<1>1. CASE UNCHANGED vars
  BY <1>1 DEF vars, courseHistory
<1>2. ASSUME NEW r \in Requests, StepOf(r)
      PROVE  TypeOK'
  <2>0. req[r] \in Request /\ req[r].saw \in Versions /\ req[r].does \in Decisions \cup Edits
    BY <1>0 DEF Request
  <2>1. ASSUME NEW edit \in Edits, NEW ready \in BOOLEAN, Edit(r, edit, ready)
        PROVE  TypeOK'
    <3>1. AfterWrite(edit) \in Steps
      BY DEF AfterWrite, AfterStats, Steps
    <3>2. req' \in [Requests -> Request]
      BY <1>0, <2>1, <3>1, RequestTypes, IdleType DEF Edit, Goto
    <3>3. course' \in Course
      BY <1>0, <2>1 DEF Edit, Course
    <3>4. content' \in Versions /\ source' \in Versions
      BY <1>0, <2>1, ReviewAssumption DEF Edit, Versions
    <3> QED
      BY <2>1, <3>2, <3>3, <3>4 DEF Edit, courseHistory
  <2>2. ASSUME NEW ready \in BOOLEAN, EditSection(r, ready)
        PROVE  TypeOK'
    BY <1>0, <2>2 DEF EditSection, Course, courseHistory
  <2>3. ASSUME NEW d \in Decisions, Decide(r, d)
        PROVE  TypeOK'
    <3>1. req' \in [Requests -> Request]
      BY <1>0, <2>3, RequestTypes, IdleType DEF Decide, Goto, Steps
    <3> QED
      BY <2>3, <3>1 DEF Decide, courseHistory
  <2>4. CASE ReadStats(r)
    BY <1>0, <2>0, <2>4, RequestTypes DEF ReadStats, Goto, Steps, courseHistory
  <2>5. CASE WriteStats(r)
    <3>1. AfterStats(req[r].does) \in Steps /\ 0 \in Versions
      BY ReviewAssumption DEF AfterStats, Steps, Versions
    <3>a. [req[r] EXCEPT !.step = AfterStats(req[r].does), !.saw = 0] \in Request
      BY <2>0, <3>1, RequestTypes
    <3>2. req' \in [Requests -> Request]
      BY <1>0, <2>5, <3>a, IdleType DEF WriteStats, Done, Goto
    <3>3. lapses' \subseteq Lapses
      BY <1>0, <2>5 DEF WriteStats, Lapses
    <3> QED
      BY <2>0, <2>5, <3>2, <3>3 DEF WriteStats
  <2>6. CASE ReadFlag(r)
    <3>1. course.changed \in BOOLEAN
      BY <1>0 DEF Course
    <3>2. req' \in [Requests -> Request]
      BY <1>0, <2>0, <2>6, <3>1, RequestTypes, IdleType DEF ReadFlag, Done, Goto, Steps
    <3> QED
      BY <2>6, <3>2 DEF ReadFlag, courseHistory
  <2>7. CASE WriteFlag(r)
    <3>1. req' \in [Requests -> Request]
      BY <1>0, <2>0, <2>7, RequestTypes, IdleType DEF WriteFlag, Done, Goto, Steps
    <3>2. course' \in Course
      BY <1>0, <2>7 DEF WriteFlag, Course
    <3>3. lapses' \subseteq Lapses
      BY <1>0, <2>7 DEF WriteFlag, Lapses
    <3> QED
      BY <2>7, <3>1, <3>2, <3>3 DEF WriteFlag
  <2>8. CASE NotifyAdmins(r)
    BY <1>0, <2>8, IdleType DEF NotifyAdmins, Done, Goto
  <2>9. CASE Die(r)
    <3>1. req' \in [Requests -> Request]
      BY <1>0, <2>9, IdleType DEF Die, Done, Goto
    <3>2. lapses' \subseteq Lapses
      BY <1>0, <2>9 DEF Die, Lapses
    <3> QED
      BY <2>9, <3>1, <3>2 DEF Die
  <2>10. ASSUME NEW d \in Decisions, Commit(r, d), course' \in Course, UNCHANGED <<signed, told>>
         PROVE  TypeOK'
    <3>1. req' \in [Requests -> Request]
      BY <1>0, <2>10, IdleType DEF Commit, Done, Goto
    <3>2. lapses' \subseteq Lapses
      BY <1>0, <2>10 DEF Commit, Lapses
    <3> QED
      BY <2>10, <3>1, <3>2 DEF Commit
  <2>11. CASE SubmitCourseForReview(r) \/ RejectCourse(r) \/ PublishCourse(r) \/ UnpublishCourse(r)
    <3>1. course' \in Course
      BY <1>0, <2>11
         DEF Course, SubmitCourseForReview, RejectCourse, PublishCourse, UnpublishCourse, Statuses
    <3>2. \E d \in {"submit", "reject", "publish", "unpublish"} : Commit(r, d)
      BY <2>11 DEF SubmitCourseForReview, RejectCourse, PublishCourse, UnpublishCourse
    <3>3. {"submit", "reject", "publish", "unpublish"} \subseteq Decisions
      BY DEF Decisions, Needs, Submittable, AwaitingReview, Publishable, OnSale
    <3> QED
      BY <2>10, <2>11, <3>1, <3>2, <3>3
         DEF SubmitCourseForReview, RejectCourse, PublishCourse, UnpublishCourse
  <2>12. CASE SetCourseFeatured(r)
    <3>1. course' \in Course
      BY <1>0, <2>12 DEF SetCourseFeatured, Course
    <3>2. req[r].does \in Decisions
      BY <2>12 DEF SetCourseFeatured, Decisions,
         Needs, Submittable, AwaitingReview, Publishable, OnSale
    <3> QED
      BY <2>10, <2>12, <3>1, <3>2 DEF SetCourseFeatured
  <2>13. CASE Signs(r)
    <3>1. PICK d \in {"approve", "signOff"}, after \in Course : CommitSignOff(r, d, after)
      BY <2>13 DEF Signs
    <3>2. \A q \in Requests : [req[q] EXCEPT !.expired = TRUE] \in Request
      BY <1>0 DEF Request
    <3>3. req' \in [Requests -> Request]
      BY <1>0, <3>1, <3>2, IdleType DEF CommitSignOff
    <3>4. lapses' \subseteq Lapses
      BY <1>0, <3>1 DEF CommitSignOff, Lapses, Decisions,
         Needs, Submittable, AwaitingReview, Publishable, OnSale
    <3> QED
      BY <1>0, <3>1, <3>3, <3>4 DEF CommitSignOff
  <2> QED
    BY <1>2, <2>1, <2>2, <2>3, <2>4, <2>5, <2>6, <2>7, <2>8, <2>9, <2>11, <2>12, <2>13 DEF StepOf
<1> QED
  BY <1>1, <1>2, StepCases

-----------------------------------------------------------------------------
(* The invariant *)

(* What each step of an edit makes of its request. *)
Others(r) == \A q \in Requests : q # r => req'[q] = req[q]

LEMMA ReadStatsGoesOn ==
  ASSUME TypeOK, NEW r \in Requests, ReadStats(r)
  PROVE  /\ Others(r) /\ req[r].step = "readStats" /\ req'[r].step = "writeStats"
         /\ req'[r].does = req[r].does /\ req'[r].saw = source
         /\ UNCHANGED <<course, content, source, stats, signed, told, lapses>>
<1>1. req \in [Requests -> Request] /\ req[r] \in Request
  BY Types
<1>2. req' = [req EXCEPT ![r] = [req[r] EXCEPT !.step = "writeStats", !.saw = source]]
  BY DEF ReadStats, Goto
<1>3. req'[r] = [req[r] EXCEPT !.step = "writeStats", !.saw = source] /\ Others(r)
  BY <1>1, <1>2 DEF Others
<1> QED
  BY <1>1, <1>3 DEF ReadStats, At, Request, courseHistory

LEMMA WriteStatsGoesOn ==
  ASSUME TypeOK, NEW r \in Requests, WriteStats(r)
  PROVE  /\ Others(r) /\ req[r].step = "writeStats"
         /\ req'[r].step = AfterStats(req[r].does) /\ req'[r].saw = 0
         /\ req'[r].step # "idle" => req'[r].does = req[r].does
<1>1. req \in [Requests -> Request] /\ req[r] \in Request
  BY Types
<1>2. req[r].step = "writeStats"
  BY DEF WriteStats, At
<1>3. CASE AfterStats(req[r].does) = "idle"
  BY <1>1, <1>2, <1>3 DEF WriteStats, Done, Goto, Others, Idle
<1>4. CASE AfterStats(req[r].does) # "idle"
  <2>1. req' = [req EXCEPT ![r] = [req[r] EXCEPT !.step = AfterStats(req[r].does), !.saw = 0]]
    BY <1>4 DEF WriteStats, Goto
  <2>2. req'[r] = [req[r] EXCEPT !.step = AfterStats(req[r].does), !.saw = 0] /\ Others(r)
    BY <1>1, <2>1 DEF Others
  <2> QED
    BY <1>1, <1>2, <2>2 DEF Request
<1> QED
  BY <1>3, <1>4

LEMMA ReadFlagGoesOn ==
  ASSUME TypeOK, NEW r \in Requests, ReadFlag(r)
  PROVE  /\ Others(r) /\ req[r].step = "readFlag"
         /\ IF course.status \in Reviewed
            THEN /\ req'[r].step = "writeFlag" /\ req'[r].wasFlagged = course.changed
                 /\ req'[r].does = req[r].does /\ req'[r].saw = req[r].saw
            ELSE req'[r] = Idle
         /\ UNCHANGED <<course, content, source, stats, signed, told, lapses>>
<1>1. req \in [Requests -> Request] /\ req[r] \in Request
  BY Types
<1>2. req[r].step = "readFlag" /\ UNCHANGED <<course, content, source, stats, signed, told, lapses>>
  BY DEF ReadFlag, At, courseHistory
<1>3. CASE course.status \notin Reviewed
  BY <1>1, <1>2, <1>3 DEF ReadFlag, Done, Goto, Others
<1>4. CASE course.status \in Reviewed
  <2>1. req' = [req EXCEPT ![r] = [req[r] EXCEPT !.step = "writeFlag", !.wasFlagged = course.changed]]
    BY <1>4 DEF ReadFlag, Goto
  <2>2. req'[r] = [req[r] EXCEPT !.step = "writeFlag", !.wasFlagged = course.changed] /\ Others(r)
    BY <1>1, <2>1 DEF Others
  <2> QED
    BY <1>1, <1>2, <1>4, <2>2 DEF Request
<1> QED
  BY <1>3, <1>4

LEMMA WriteFlagGoesOn ==
  ASSUME TypeOK, NEW r \in Requests, WriteFlag(r)
  PROVE  /\ Others(r) /\ req[r].step = "writeFlag"
         /\ IF req[r].wasFlagged
            THEN /\ req'[r] = Idle
                 /\ lapses' = IF req[r].expired THEN lapses \cup {"silent"} ELSE lapses
            ELSE /\ req'[r].step = "notifyAdmins"
                 /\ req'[r].does = req[r].does /\ req'[r].saw = req[r].saw
                 /\ UNCHANGED lapses
         /\ course'.changed /\ UNCHANGED <<course.status, course.featured>>
         /\ UNCHANGED <<content, source, stats, signed, told>>
<1>1. req \in [Requests -> Request] /\ req[r] \in Request /\ course \in Course
  BY Types
<1>2. req[r].step = "writeFlag" /\ UNCHANGED <<content, source, stats, signed, told>>
  BY DEF WriteFlag, At
<1>3. course'.changed /\ UNCHANGED <<course.status, course.featured>>
  BY <1>1 DEF WriteFlag, Course
<1>4. CASE req[r].wasFlagged
  BY <1>1, <1>2, <1>3, <1>4 DEF WriteFlag, Done, Goto, Others
<1>5. CASE ~ req[r].wasFlagged
  <2>1. req' = [req EXCEPT ![r] = [req[r] EXCEPT !.step = "notifyAdmins", !.expired = FALSE]] /\ UNCHANGED lapses
    BY <1>5 DEF WriteFlag, Goto
  <2>2. req'[r] = [req[r] EXCEPT !.step = "notifyAdmins", !.expired = FALSE] /\ Others(r)
    BY <1>1, <2>1 DEF Others
  <2> QED
    BY <1>1, <1>2, <1>3, <1>5, <2>1, <2>2 DEF Request
<1> QED
  BY <1>4, <1>5

(* An edit that is done, or dies. *)
LEMMA EditEnds ==
  ASSUME TypeOK, NEW r \in Requests, NotifyAdmins(r) \/ Die(r)
  PROVE  /\ Others(r) /\ req'[r] = Idle
         /\ UNCHANGED <<course, content, source, stats, signed>>
BY Types DEF NotifyAdmins, Die, Done, Goto, Others

(* A decision that is written answers its request. *)
LEMMA DecisionDone ==
  ASSUME TypeOK, NEW r \in Requests,
         \/ SubmitCourseForReview(r) \/ RejectCourse(r) \/ PublishCourse(r) \/ UnpublishCourse(r)
         \/ SetCourseFeatured(r)
  PROVE  /\ req' = [req EXCEPT ![r] = Idle] /\ req[r].step = "decided"
         /\ UNCHANGED <<content, source, stats, signed, told, course.changed>>
         /\ lapses \subseteq lapses'
BY Types
   DEF SubmitCourseForReview, RejectCourse, PublishCourse, UnpublishCourse, SetCourseFeatured,
       Commit, At, Done, Goto, Course

LEMMA SeenStep ==
  ASSUME TypeOK, SeenIsPast, NEW r \in Requests, StepOf(r)
  PROVE  SeenIsPast'
<1> USE DEF SeenIsPast
<1>0. /\ source \in Nat /\ stats \in Nat /\ req \in [Requests -> Request]
      /\ \A q \in Requests : req[q].saw \in Nat
  BY ReviewAssumption, Types DEF Versions, Request
<1>1. ASSUME NEW edit \in Edits, NEW ready \in BOOLEAN, Edit(r, edit, ready)
      PROVE  SeenIsPast'
  BY <1>0, <1>1 DEF Edit, Goto, Idle
<1>2. ASSUME UNCHANGED <<source, stats>>, \A q \in Requests : req'[q].saw \in {0, req[q].saw, source}
      PROVE  SeenIsPast'
  BY <1>0, <1>2
<1>3. ASSUME NEW ready \in BOOLEAN, EditSection(r, ready)
      PROVE  SeenIsPast'
  BY <1>2, <1>3 DEF EditSection
<1>4. ASSUME NEW d \in Decisions, Decide(r, d)
      PROVE  SeenIsPast'
  BY <1>0, <1>2, <1>4 DEF Decide, Goto, Idle
<1>5. CASE ReadStats(r) \/ ReadFlag(r)
  BY <1>2, <1>5, ReadStatsGoesOn, ReadFlagGoesOn DEF Others, Idle
<1>6. CASE WriteStats(r)
  <2>1. stats' = req[r].saw /\ UNCHANGED source
    BY <1>6 DEF WriteStats
  <2> QED
    BY <1>0, <1>6, <2>1, WriteStatsGoesOn DEF Others
<1>7. CASE WriteFlag(r) \/ NotifyAdmins(r) \/ Die(r)
  BY <1>2, <1>7, WriteFlagGoesOn, EditEnds DEF Others, Idle
<1>8. CASE Signs(r)
  BY <1>0, <1>2, <1>8 DEF Signs, CommitSignOff, Idle, Request
<1>9. CASE SubmitCourseForReview(r) \/ RejectCourse(r) \/ PublishCourse(r) \/ UnpublishCourse(r)
           \/ SetCourseFeatured(r)
  BY <1>0, <1>2, <1>9, DecisionDone DEF Idle
<1> QED
  BY <1>1, <1>3, <1>4, <1>5, <1>6, <1>7, <1>8, <1>9 DEF StepOf

LEMMA FlagStep ==
  ASSUME TypeOK, FlagIsKnown, NEW r \in Requests, StepOf(r)
  PROVE  FlagIsKnown'
<1> USE DEF FlagIsKnown, At
<1>0. req \in [Requests -> Request] /\ course \in Course
  BY Types
<1>1. ASSUME NEW edit \in Edits, NEW ready \in BOOLEAN, Edit(r, edit, ready)
      PROVE  FlagIsKnown'
  BY <1>0, <1>1 DEF Edit, Goto, Idle, AfterWrite, AfterStats, Course
<1>2. ASSUME NEW ready \in BOOLEAN, EditSection(r, ready)
      PROVE  FlagIsKnown'
  BY <1>0, <1>2 DEF EditSection, Course
<1>3. ASSUME NEW d \in Decisions, Decide(r, d)
      PROVE  FlagIsKnown'
  BY <1>0, <1>3 DEF Decide, Goto, Idle
<1>4. CASE ReadStats(r) \/ ReadFlag(r)
  BY <1>4, ReadStatsGoesOn, ReadFlagGoesOn DEF Others, Idle
<1>5. CASE WriteStats(r)
  BY <1>5, WriteStatsGoesOn DEF WriteStats, Others, AfterStats
<1>6. CASE WriteFlag(r)
  BY <1>6, WriteFlagGoesOn DEF Others, Idle
<1>7. CASE NotifyAdmins(r) \/ Die(r)
  BY <1>7, EditEnds DEF Others, Idle
<1>8. CASE Signs(r)
  BY <1>0, <1>8 DEF Signs, CommitSignOff, Idle, Request
<1>9. CASE SubmitCourseForReview(r) \/ RejectCourse(r) \/ PublishCourse(r) \/ UnpublishCourse(r)
           \/ SetCourseFeatured(r)
  BY <1>0, <1>9, DecisionDone DEF Idle
<1> QED
  BY <1>1, <1>2, <1>3, <1>4, <1>5, <1>6, <1>7, <1>8, <1>9 DEF StepOf

(* A change since the sign-off is with a request until the flag is set, and  *)
(* a course comes to be reviewed by a sign-off or by a decision written over *)
(* another.                                                                  *)
LEMMA ChangesStep ==
  ASSUME TypeOK, ChangesAreFlagged, NEW r \in Requests, StepOf(r)
  PROVE  ChangesAreFlagged'
<1> USE DEF ChangesAreFlagged, Flagging, Reviewed
<1>0. req \in [Requests -> Request] /\ course \in Course
  BY Types
<1>1. ASSUME NEW edit \in Edits, NEW ready \in BOOLEAN, Edit(r, edit, ready)
      PROVE  ChangesAreFlagged'
  BY <1>0, <1>1 DEF Edit, At, Goto, Idle, AfterWrite, AfterStats, Course, courseHistory
<1>2. ASSUME NEW ready \in BOOLEAN, EditSection(r, ready)
      PROVE  ChangesAreFlagged'
  BY <1>0, <1>2 DEF EditSection, Course, courseHistory
<1>3. ASSUME NEW d \in Decisions, Decide(r, d)
      PROVE  ChangesAreFlagged'
  BY <1>0, <1>3 DEF Decide, At, Goto, Idle, courseHistory
<1>4. CASE ReadStats(r) \/ ReadFlag(r)
  BY <1>4, ReadStatsGoesOn, ReadFlagGoesOn DEF Others, Reviewed
<1>5. CASE WriteStats(r)
  BY <1>5, WriteStatsGoesOn DEF WriteStats, AfterStats, Others
<1>6. CASE WriteFlag(r)
  BY <1>0, <1>6 DEF WriteFlag, Course
<1>7. CASE NotifyAdmins(r) \/ Die(r)
  BY <1>0, <1>7 DEF NotifyAdmins, Die, At, Done, Goto, Idle
<1>8. CASE Signs(r)
  BY <1>0, <1>8 DEF Signs, CommitSignOff
<1>9. CASE SubmitCourseForReview(r) \/ RejectCourse(r) \/ PublishCourse(r) \/ UnpublishCourse(r)
           \/ SetCourseFeatured(r)
  BY <1>0, <1>9
     DEF SubmitCourseForReview, RejectCourse, PublishCourse, UnpublishCourse, SetCourseFeatured,
         Commit, At, Done, Goto, Idle, Course,
            Needs, Submittable, AwaitingReview, Publishable, OnSale
<1> QED
  BY <1>1, <1>2, <1>3, <1>4, <1>5, <1>6, <1>7, <1>8, <1>9 DEF StepOf

(* Whoever sets the flag anew tells the admins, or leaves a trace. *)
LEMMA ToldStep ==
  ASSUME TypeOK, FlagIsKnown, ToldOfChanges, NEW r \in Requests, StepOf(r)
  PROVE  ToldOfChanges'
<1> USE DEF ToldOfChanges, At
<1>0. req \in [Requests -> Request] /\ course \in Course
  BY Types
<1>1. ASSUME NEW edit \in Edits, NEW ready \in BOOLEAN, Edit(r, edit, ready)
      PROVE  ToldOfChanges'
  BY <1>0, <1>1 DEF Edit, Goto, Course, courseHistory
<1>2. ASSUME NEW ready \in BOOLEAN, EditSection(r, ready)
      PROVE  ToldOfChanges'
  BY <1>0, <1>2 DEF EditSection, Course, courseHistory
<1>3. ASSUME NEW d \in Decisions, Decide(r, d)
      PROVE  ToldOfChanges'
  BY <1>0, <1>3 DEF Decide, Goto, courseHistory
<1>4. CASE ReadStats(r) \/ ReadFlag(r)
  BY <1>0, <1>4 DEF ReadStats, ReadFlag, Done, Goto, courseHistory
<1>5. CASE WriteStats(r)
  BY <1>0, <1>5 DEF WriteStats, Done, Goto
<1>6. CASE WriteFlag(r)
  BY <1>0, <1>6 DEF WriteFlag, Done, Goto, FlagIsKnown, Request, Course
<1>7. CASE NotifyAdmins(r)
  BY <1>7 DEF NotifyAdmins
<1>8. CASE Die(r)
  BY <1>0, <1>8 DEF Die, Done, Goto, FlagIsKnown
<1>9. CASE Signs(r)
  BY <1>9 DEF Signs, CommitSignOff
<1>10. CASE SubmitCourseForReview(r) \/ RejectCourse(r) \/ PublishCourse(r) \/ UnpublishCourse(r)
           \/ SetCourseFeatured(r)
  BY <1>0, <1>10
     DEF SubmitCourseForReview, RejectCourse, PublishCourse, UnpublishCourse, SetCourseFeatured,
         Commit, Done, Goto, Course
<1> QED
  BY <1>1, <1>2, <1>3, <1>4, <1>5, <1>6, <1>7, <1>8, <1>9, <1>10 DEF StepOf

(* Only what is on sale is featured, and what is unpublished loses its place. *)
LEMMA FeaturedStep ==
  ASSUME TypeOK, FeaturedIsOnSale, NEW r \in Requests, StepOf(r)
  PROVE  FeaturedIsOnSale'
<1> USE DEF FeaturedIsOnSale
<1>0. course \in Course
  BY Types
<1>1. ASSUME UNCHANGED <<course.status, course.featured>>,
             lapses \cap Decisions \subseteq lapses'
      PROVE  FeaturedIsOnSale'
  BY <1>1
<1>2. \A l \in {"unflagged", "unrefreshed", "silent", "regressed"} : l \notin Decisions
  BY DEF Decisions, Needs, Submittable, AwaitingReview, Publishable, OnSale
<1>3. ASSUME NEW edit \in Edits, NEW ready \in BOOLEAN, Edit(r, edit, ready)
      PROVE  FeaturedIsOnSale'
  BY <1>0, <1>1, <1>3 DEF Edit, Course, courseHistory
<1>16. ASSUME NEW ready \in BOOLEAN, EditSection(r, ready)
      PROVE  FeaturedIsOnSale'
  BY <1>0, <1>1, <1>16 DEF EditSection, Course, courseHistory
<1>4. ASSUME NEW d \in Decisions, Decide(r, d)
      PROVE  FeaturedIsOnSale'
  BY <1>1, <1>4 DEF Decide, courseHistory
<1>5. CASE ReadStats(r) \/ ReadFlag(r) \/ NotifyAdmins(r)
  BY <1>1, <1>5 DEF ReadStats, ReadFlag, NotifyAdmins, courseHistory
<1>6. CASE WriteStats(r) \/ Die(r)
  BY <1>1, <1>2, <1>6 DEF WriteStats, Die
<1>7. CASE WriteFlag(r)
  BY <1>0, <1>1, <1>7 DEF WriteFlag, Course
<1>8. CASE Signs(r)
  BY <1>0, <1>2, <1>8 DEF Signs, CommitSignOff, Course, Decisions,
     Needs, Submittable, AwaitingReview, Publishable, OnSale
<1>9. ASSUME NEW d \in Decisions, Commit(r, d)
      PROVE  IF course.status \in Needs[d] THEN lapses' = lapses ELSE lapses' \cap Decisions # {}
  BY <1>9 DEF Commit
<1>10. {"submit", "reject", "publish", "unpublish", "feature", "unfeature"} \subseteq Decisions
  BY DEF Decisions, Needs, Submittable, AwaitingReview, Publishable, OnSale
<1>11. CASE SubmitCourseForReview(r)
  BY <1>0, <1>9, <1>10, <1>11 DEF SubmitCourseForReview,
     Needs, Submittable, AwaitingReview, Publishable, OnSale, Course
<1>12. CASE RejectCourse(r)
  BY <1>0, <1>9, <1>10, <1>12 DEF RejectCourse,
     Needs, Submittable, AwaitingReview, Publishable, OnSale, Course
<1>13. CASE PublishCourse(r)
  BY <1>0, <1>9, <1>10, <1>13 DEF PublishCourse,
     Needs, Submittable, AwaitingReview, Publishable, OnSale, Course
<1>14. CASE UnpublishCourse(r)
  BY <1>0, <1>14 DEF UnpublishCourse, Course
<1>15. CASE SetCourseFeatured(r)
  <2>1. Commit(r, req[r].does) /\ req[r].does \in {"feature", "unfeature"}
    BY <1>15 DEF SetCourseFeatured
  <2>2. course'.featured = (req[r].does = "feature") /\ UNCHANGED course.status
    BY <1>0, <1>15 DEF SetCourseFeatured, Course
  <2> QED
    BY <1>9, <1>10, <2>1, <2>2 DEF Needs, Submittable, AwaitingReview, Publishable, OnSale
<1> HIDE DEF FeaturedIsOnSale
<1> QED
  BY <1>3, <1>4, <1>5, <1>6, <1>7, <1>8, <1>11, <1>12, <1>13, <1>14, <1>15, <1>16 DEF StepOf

(* The numbers are of the rows, or somebody is about to make them so. *)
LEMMA StatsStep ==
  ASSUME TypeOK, SeenIsPast, StatsAreFresh, NEW r \in Requests, StepOf(r)
  PROVE  StatsAreFresh'
<1> USE DEF StatsAreFresh, At
<1>0. /\ source \in Nat /\ stats \in Nat /\ req \in [Requests -> Request]
      /\ \A q \in Requests : req[q].saw \in Nat
  BY ReviewAssumption, Types DEF Versions, Request
<1>1. ASSUME NEW edit \in Edits, NEW ready \in BOOLEAN, Edit(r, edit, ready)
      PROVE  StatsAreFresh'
  BY <1>0, <1>1 DEF Edit, Goto, Idle, AfterWrite, courseHistory
<1>2. ASSUME NEW ready \in BOOLEAN, EditSection(r, ready)
      PROVE  StatsAreFresh'
  BY <1>2 DEF EditSection, courseHistory
<1>3. ASSUME NEW d \in Decisions, Decide(r, d)
      PROVE  StatsAreFresh'
  BY <1>0, <1>3 DEF Decide, Goto, courseHistory
<1>4. CASE ReadStats(r)
  BY <1>4, ReadStatsGoesOn DEF Others
<1>5. CASE WriteStats(r)
  BY <1>0, <1>5 DEF WriteStats, Done, Goto, SeenIsPast
<1>6. CASE ReadFlag(r) \/ WriteFlag(r) \/ NotifyAdmins(r)
  BY <1>0, <1>6 DEF ReadFlag, WriteFlag, NotifyAdmins, Done, Goto, courseHistory
<1>7. CASE Die(r)
  BY <1>0, <1>7 DEF Die, Done, Goto
<1>8. CASE Signs(r)
  BY <1>0, <1>8 DEF Signs, CommitSignOff, Request
<1>9. CASE SubmitCourseForReview(r) \/ RejectCourse(r) \/ PublishCourse(r) \/ UnpublishCourse(r)
           \/ SetCourseFeatured(r)
  BY <1>0, <1>9, DecisionDone
<1> QED
  BY <1>1, <1>2, <1>3, <1>4, <1>5, <1>6, <1>7, <1>8, <1>9 DEF StepOf

LEMMA InvariantStep == IInv /\ [Next]_vars => IInv'
<1> SUFFICES ASSUME IInv, [Next]_vars PROVE IInv'
  OBVIOUS
<1>1. TypeOK'
  BY TypeStep DEF IInv
<1>2. CASE UNCHANGED vars
  BY <1>1, <1>2
     DEF IInv, vars, courseHistory, SeenIsPast, FlagIsKnown, ChangesAreFlagged, ToldOfChanges,
         FeaturedIsOnSale, StatsAreFresh, At, Flagging
<1>3. ASSUME NEW r \in Requests, StepOf(r)
      PROVE  IInv'
  BY <1>1, <1>3, SeenStep, FlagStep, ChangesStep, ToldStep, FeaturedStep, StatsStep DEF IInv
<1> QED
  BY <1>2, <1>3, StepCases DEF IInv

-----------------------------------------------------------------------------
(* Theorems *)

(* The invariant holds in every state the service can reach. *)
THEOREM Invariant == Spec => []IInv
BY InitIInv, InvariantStep, PTL DEF Spec

(* Every row and request is of its type. *)
THEOREM TypeCorrect == Spec => []TypeOK
<1>1. IInv => TypeOK
  BY DEF IInv
<1> QED
  BY <1>1, Invariant, PTL

(* A change to a reviewed course is flagged (flagChangedSinceReview), with any *)
(* number of edits and decisions overlapping.                                  *)
THEOREM EveryChangeIsFlagged == Spec => []ChangesAreFlagged
<1>1. IInv => ChangesAreFlagged
  BY DEF IInv
<1> QED
  BY <1>1, Invariant, PTL

(* The admins are told of the first change since the last sign-off. *)
THEOREM AdminsAreTold == Spec => []ToldOfChanges
<1>1. IInv => ToldOfChanges
  BY DEF IInv
<1> QED
  BY <1>1, Invariant, PTL

(* The home page's rail shows courses that are on sale (setCourseFeatured, *)
(* unpublishCourse), unless decisions were written over each other.        *)
THEOREM RailIsOnSale == Spec => []FeaturedIsOnSale
<1>1. IInv => FeaturedIsOnSale
  BY DEF IInv
<1> QED
  BY <1>1, Invariant, PTL

(* The catalogue numbers are up to date, or about to be (refreshCourseStats). *)
THEOREM NumbersAreFresh == Spec => []StatsAreFresh
<1>1. IInv => StatsAreFresh
  BY DEF IInv
<1> QED
  BY <1>1, Invariant, PTL
=============================================================================
