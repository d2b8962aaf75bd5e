-------------------------- MODULE CompletionProofs --------------------------
(***************************************************************************)
(* Theorems about Completion, for any lessons and any number of requests.  *)
(***************************************************************************)
EXTENDS Completion, FiniteSetTheorems, TLAPS

(* What a recomputation has read still is so, unless something has overlapped it: *)
(* the enrolment it found, the lessons it counted, and what it makes of both.     *)
SawRows ==
  \A r \in Requests : ~ req[r].overlapped =>
    /\ At(r, "tally") => req[r].found = enrolment.completed /\ req[r].total = Cardinality(lessons)
    /\ At(r, "write") =>
         /\ req[r].verdict = "complete" => Finished(lessons, done)
         /\ req[r].verdict = "clear" => ~ Finished(lessons, done)
         /\ req[r].verdict = "none" =>
              \/ enrolment.completed <=> Finished(lessons, done)
              \/ enrolment.completed /\ certificate # "none"

(* CompletionIsCurrent, of an enrolment that is not active too: it is activated *)
(* with the completedAt it has.                                                 *)
InLine ==
  \/ enrolment.completed <=> Finished(lessons, done)
  \/ \E r \in Requests : At(r, "count") \/ Recomputing(r)
  \/ enrolment.completed /\ certificate # "none"
  \/ drift \ {"miscounted"} # {}

(* Until the student has finished, or a recomputation has miscounted, nothing is *)
(* completed, and no certificate is on its way.                                  *)
NotYet ==
  /\ certificate = "none" /\ ~ enrolment.completed /\ ~ Finished(lessons, done)
  /\ \A r \in Requests : req[r].step \notin {"checkQuizzes", "reread", "create"}
Earned == finished \/ "miscounted" \in drift \/ NotYet

IInv ==
  /\ TypeOK
  /\ SawRows
  /\ InLine
  /\ Earned

-----------------------------------------------------------------------------
(* Types *)

Request == [step: Steps, lesson: SUBSET Lessons, completed: BOOLEAN, total: Count,
            found: BOOLEAN, verdict: Verdicts, overlapped: BOOLEAN]
Enrolment == [status: {"NONE", "ACTIVE", "ENDED"}, completed: BOOLEAN]

LEMMA Types ==
  /\ TypeOK => /\ req \in [Requests -> Request] /\ enrolment \in Enrolment
               /\ lessons \subseteq Lessons /\ unused \subseteq Lessons \ lessons
               /\ done \subseteq lessons /\ drift \subseteq Drifts
               /\ certificate \in {"none", "issued", "revoked"} /\ finished \in BOOLEAN
  /\ req' \in [Requests -> Request] /\ enrolment' \in Enrolment =>
       (TypeOK' <=>
         /\ lessons' \subseteq Lessons /\ unused' \subseteq Lessons \ lessons'
         /\ done' \subseteq lessons'
         /\ subscribed' \in BOOLEAN /\ quizDue' \in BOOLEAN
         /\ certificate' \in {"none", "issued", "revoked"}
         /\ finished' \in BOOLEAN
         /\ drift' \subseteq Drifts)
BY DEF TypeOK, Request, Enrolment

LEMMA Counting ==
  /\ \A S \in SUBSET Lessons : Cardinality(S) \in Count /\ Cardinality(S) \in Nat
  /\ \A S \in SUBSET Lessons : \A T \in SUBSET S : Cardinality(T) >= Cardinality(S) => T = S
  /\ \A S \in SUBSET Lessons : Cardinality(S) > 0 <=> S # {}
<1>1. IsFiniteSet(Lessons)
  BY CompletionAssumption
<1>2. ASSUME NEW S \in SUBSET Lessons
      PROVE  /\ IsFiniteSet(S) /\ Cardinality(S) \in Nat /\ Cardinality(Lessons) \in Nat
             /\ Cardinality(S) <= Cardinality(Lessons)
  BY <1>1, FS_Subset, FS_CardinalityType
<1>3. ASSUME NEW S \in SUBSET Lessons, NEW T \in SUBSET S, Cardinality(T) >= Cardinality(S)
      PROVE  T = S
  <2>1. Cardinality(T) <= Cardinality(S) /\ (Cardinality(S) = Cardinality(T) => S = T)
    BY <1>2, FS_Subset
  <2>2. Cardinality(T) \in Nat /\ Cardinality(S) \in Nat
    BY <1>2
  <2> QED
    BY <1>3, <2>1, <2>2
<1>4. ASSUME NEW S \in SUBSET Lessons
      PROVE  Cardinality(S) > 0 <=> S # {}
  BY <1>2, FS_EmptySet
<1> QED
  BY <1>2, <1>3, <1>4 DEF Count

(* A request that begins something, and what it is made of it. *)
Beginning(step) == [NoRequest EXCEPT !.step = step]

LEMMA NoRequestType ==
  /\ NoRequest \in Request /\ NoRequest.step = "idle"
  /\ \A step \in Steps : Beginning(step) \in Request /\ Beginning(step).step = step
<1>1. NoRequest \in Request
  BY CompletionAssumption, FS_CardinalityType DEF NoRequest, Request, Steps, Verdicts, Count
<1> QED
  BY <1>1 DEF NoRequest, Beginning, Request

(* When a request moves on, the others stay where they are, but for those that *)
(* recompute from rows that have changed.                                      *)
LEMMA Moving ==
  ASSUME req \in [Requests -> Request], NEW r \in Requests, NEW state \in Request,
         NEW changes \in BOOLEAN, Move(r, state, changes)
  PROVE  /\ req' \in [Requests -> Request]
         /\ req'[r] = state
         /\ \A q \in Requests \ {r} :
              /\ req'[q].step = req[q].step
              /\ req'[q] = req[q] \/ (changes /\ req'[q].overlapped)
              /\ changes /\ Recomputing(q) => req'[q].overlapped
BY DEF Move, Request

LEMMA InitIInv == Init => IInv
<1> SUFFICES ASSUME Init PROVE IInv
  OBVIOUS
<1>1. req \in [Requests -> Request] /\ enrolment \in Enrolment
  BY NoRequestType DEF Init, Enrolment
<1>2. TypeOK
  BY <1>1 DEF Init, TypeOK, Request, Enrolment
<1>3. \A r \in Requests : req[r].step = "idle"
  BY NoRequestType DEF Init
<1>4. ~ Finished(lessons, done)
  BY DEF Init, Finished
<1> QED
  BY <1>2, <1>3, <1>4 DEF Init, IInv, SawRows, InLine, Earned, NotYet, At

-----------------------------------------------------------------------------
(* What others may do: steps of r that end no recomputation *)

(* What a bystander has read is as it was, or it knows of it. *)
LEMMA SawStill ==
  ASSUME SawRows, NEW q \in Requests,
         \/ req'[q].step \notin {"tally", "write"}
         \/ req'[q].overlapped
         \/ /\ req'[q] = req[q]
            /\ UNCHANGED <<lessons, done, enrolment.completed>>
            /\ certificate # "none" => certificate' # "none"
  PROVE  ~ req'[q].overlapped =>
    /\ At(q, "tally")' => req'[q].found = enrolment'.completed /\ req'[q].total = Cardinality(lessons')
    /\ At(q, "write")' =>
         /\ req'[q].verdict = "complete" => Finished(lessons', done')
         /\ req'[q].verdict = "clear" => ~ Finished(lessons', done')
         /\ req'[q].verdict = "none" =>
              \/ enrolment'.completed <=> Finished(lessons', done')
              \/ enrolment'.completed /\ certificate' # "none"
BY DEF SawRows, At, Finished

(* A step of r that leaves the rows is harmless to what is in line, unless it *)
(* ends a recomputation.                                                      *)
LEMMA InLineStill ==
  ASSUME InLine, NEW r \in Requests,
         UNCHANGED <<lessons, done, enrolment.completed>>,
         drift \subseteq drift', certificate # "none" => certificate' # "none",
         \A q \in Requests \ {r} : req'[q].step = req[q].step,
         \/ req[r].step \notin {"count", "tally", "write"}
         \/ req'[r].step \in {"count", "tally", "write"}
         \/ drift' \ {"miscounted"} # {}
  PROVE  InLine'
<1>1. CASE \E q \in Requests : At(q, "count") \/ Recomputing(q)
  <2>1. PICK q \in Requests : req[q].step \in {"count", "tally", "write"}
    BY <1>1 DEF At, Recomputing
  <2>2. req'[q].step \in {"count", "tally", "write"} \/ drift' \ {"miscounted"} # {}
    BY <2>1
  <2> QED
    BY <2>2 DEF InLine, At, Recomputing
<1>2. CASE drift \ {"miscounted"} # {}
  BY <1>2 DEF InLine
<1> QED
  BY <1>1, <1>2 DEF InLine

(* Once earned, always earned. *)
LEMMA EarnedStill ==
  ASSUME Earned, finished => finished', "miscounted" \in drift => "miscounted" \in drift',
         NotYet => NotYet' \/ finished' \/ "miscounted" \in drift'
  PROVE  Earned'
BY DEF Earned

-----------------------------------------------------------------------------
(* Progress and curriculum *)

(* Steps that change the course or the progress in it. *)
Curriculum(r) ==
  \/ \E l \in Lessons : CreateLesson(r, l) \/ \E c \in BOOLEAN : RecordLessonProgress(r, l, c)
  \/ \E gone \in SUBSET lessons : DeleteLessons(r, gone)
  \/ UpsertLessonProgress(r)

LEMMA CurriculumKept ==
  ASSUME IInv, NEW r \in Requests, Curriculum(r)
  PROVE  IInv'
<1>0. /\ req \in [Requests -> Request] /\ enrolment \in Enrolment
      /\ lessons \subseteq Lessons /\ unused \subseteq Lessons \ lessons
      /\ done \subseteq lessons /\ drift \subseteq Drifts /\ finished \in BOOLEAN
      /\ NoRequest \in Request /\ NoRequest.step = "idle"
      /\ Beginning("count") \in Request /\ Beginning("count").step = "count"
  BY Types, NoRequestType DEF IInv, Steps
<1>1. ASSUME NEW changes \in BOOLEAN, NEW state \in Request, Move(r, state, changes),
             state.step \in {"idle", "upsert", "count"},
             UNCHANGED <<enrolment, outside, certificate>>,
             lessons' \subseteq Lessons /\ unused' \subseteq Lessons \ lessons' /\ done' \subseteq lessons',
             drift' \in {drift, drift \cup {"undone"}}, finished' \in BOOLEAN, finished => finished',
             changes \/ UNCHANGED <<lessons, done>>,
             UNCHANGED <<lessons, done>> \/ state.step = "count" \/ "undone" \in drift',
             req[r].step \in {"idle", "upsert"},
             Finished(lessons', done') => finished' \/ Finished(lessons, done)
      PROVE  IInv'
  <2>1. /\ req' \in [Requests -> Request] /\ req'[r] = state
        /\ \A q \in Requests \ {r} :
             /\ req'[q].step = req[q].step
             /\ req'[q] = req[q] \/ (changes /\ req'[q].overlapped)
             /\ changes /\ Recomputing(q) => req'[q].overlapped
    BY <1>0, <1>1, Moving
  <2>2. TypeOK'
    <3>1. drift' \subseteq Drifts
      BY <1>0, <1>1 DEF Drifts
    <3>2. subscribed' \in BOOLEAN /\ quizDue' \in BOOLEAN /\ certificate' \in {"none", "issued", "revoked"}
      BY <1>1 DEF IInv, TypeOK, outside
    <3> QED
      BY <1>0, <1>1, <2>1, <3>1, <3>2, Types
  <2>3. SawRows'
    <3>1. ASSUME NEW q \in Requests
          PROVE  \/ req'[q].step \notin {"tally", "write"}
                 \/ req'[q].overlapped
                 \/ /\ req'[q] = req[q]
                    /\ UNCHANGED <<lessons, done, enrolment.completed>>
                    /\ certificate # "none" => certificate' # "none"
      BY <1>1, <2>1 DEF Recomputing, At
    <3> QED
      BY <3>1, SawStill DEF IInv, SawRows
  <2>4. InLine'
    <3>1. CASE UNCHANGED <<lessons, done>>
      <4>1. drift \subseteq drift'
        BY <1>1
      <4> QED
        BY <1>1, <2>1, <3>1, <4>1, InLineStill DEF IInv
    <3>2. CASE state.step = "count" \/ "undone" \in drift'
      BY <2>1, <3>2 DEF InLine, At
    <3> QED
      BY <1>1, <3>1, <3>2
  <2>5. Earned'
    <3>1. NotYet => NotYet' \/ finished'
      BY <1>1, <2>1 DEF NotYet
    <3>2. "miscounted" \in drift => "miscounted" \in drift'
      BY <1>1
    <3> QED
      BY <1>1, <3>1, <3>2, EarnedStill DEF IInv
  <2> QED
    BY <2>2, <2>3, <2>4, <2>5 DEF IInv
<1>2. CASE \E l \in Lessons : CreateLesson(r, l)
  <2>1. PICK l \in Lessons : CreateLesson(r, l)
    BY <1>2
  <2>2. /\ req[r].step = "idle" /\ l \in unused /\ Move(r, Beginning("count"), TRUE)
        /\ lessons' = lessons \cup {l} /\ unused' = unused \ {l}
        /\ UNCHANGED <<done, enrolment, outside, certificate, finished, drift>>
    BY <2>1 DEF CreateLesson, At, Beginning
  <2>3. ~ Finished(lessons', done')
    BY <1>0, <2>2 DEF Finished
  <2> QED
    BY <1>0, <1>1, <2>2, <2>3
<1>3. CASE \E l \in Lessons, c \in BOOLEAN : RecordLessonProgress(r, l, c)
  <2>1. PICK l \in Lessons, c \in BOOLEAN : RecordLessonProgress(r, l, c)
    BY <1>3
  <2> DEFINE state == [NoRequest EXCEPT !.step = "upsert", !.lesson = {l}, !.completed = c]
  <2>2. state \in Request /\ state.step = "upsert"
    BY <1>0 DEF Request, Steps
  <2>3. req[r].step = "idle" /\ Move(r, state, FALSE)
        /\ UNCHANGED <<courseVars, done, enrolment, outside, certificate, finished, drift>>
    BY <2>1 DEF RecordLessonProgress, At
  <2> HIDE DEF state
  <2> QED
    BY <1>0, <1>1, <2>2, <2>3 DEF courseVars
<1>4. CASE \E gone \in SUBSET lessons : DeleteLessons(r, gone)
  <2>1. PICK gone \in SUBSET lessons : DeleteLessons(r, gone)
    BY <1>4
  <2>2. /\ req[r].step = "idle" /\ Move(r, Beginning("count"), TRUE)
        /\ lessons' = lessons \ gone /\ done' = done \ gone
        /\ finished' = (finished \/ Finished(lessons', done'))
        /\ UNCHANGED <<unused, enrolment, outside, certificate, drift>>
    BY <2>1 DEF DeleteLessons, At, Beginning
  <2>3. finished' \in BOOLEAN
    BY <1>0, <2>2 DEF Finished
  <2> QED
    BY <1>0, <1>1, <2>2, <2>3
<1>5. CASE UpsertLessonProgress(r)
  <2>1. /\ req[r].step = "upsert" /\ finished' = (finished \/ Finished(lessons, done'))
        /\ UNCHANGED <<courseVars, enrolment, outside, certificate>>
    BY <1>5 DEF UpsertLessonProgress, At
  <2>2. finished' \in BOOLEAN /\ UNCHANGED <<lessons, unused>>
    BY <2>1 DEF Finished, courseVars
  <2>3. CASE req[r].lesson \subseteq lessons
    <3>1. /\ done' = IF req[r].completed THEN done \cup req[r].lesson ELSE done \ req[r].lesson
          /\ drift' = IF req[r].completed THEN drift ELSE drift \cup {"undone"}
          /\ Move(r, IF req[r].completed THEN Beginning("count") ELSE NoRequest, done' # done)
      BY <1>5, <2>3 DEF UpsertLessonProgress, Beginning
    <3>2. done' \subseteq lessons /\ (done' # done) \in BOOLEAN
      BY <1>0, <2>3, <3>1
    <3>3. CASE req[r].completed
      BY <1>0, <1>1, <2>1, <2>2, <3>1, <3>2, <3>3
    <3>4. CASE ~ req[r].completed
      BY <1>0, <1>1, <2>1, <2>2, <3>1, <3>2, <3>4
    <3> QED
      BY <3>3, <3>4
  <2>4. CASE ~ (req[r].lesson \subseteq lessons)
    <3>1. Move(r, NoRequest, FALSE) /\ UNCHANGED <<done, drift>>
      BY <1>5, <2>4 DEF UpsertLessonProgress
    <3> QED
      BY <1>0, <1>1, <2>1, <2>2, <3>1
  <2> QED
    BY <2>3, <2>4
<1> QED
  BY <1>2, <1>3, <1>4, <1>5 DEF Curriculum

-----------------------------------------------------------------------------
(* recomputeCourseCompletion *)

Counted == [NoRequest EXCEPT !.step = "tally", !.total = Cardinality(lessons), !.found = enrolment.completed]

(* Counting and judging leave the rows; what they find is what is there. *)
LEMMA CountKept ==
  ASSUME IInv, NEW r \in Requests, CountLessons(r)
  PROVE  IInv'
<1>0. /\ req \in [Requests -> Request] /\ enrolment \in Enrolment
      /\ lessons \subseteq Lessons /\ drift \subseteq Drifts
      /\ NoRequest \in Request /\ NoRequest.step = "idle"
  BY Types, NoRequestType DEF IInv
<1>1. /\ req[r].step = "count"
      /\ UNCHANGED <<lessons, unused, done, enrolment, outside, certificate, finished>>
  BY DEF CountLessons, At, courseVars
<1>2. /\ Counted \in Request /\ Counted.step = "tally"
      /\ Counted.total = Cardinality(lessons) /\ Counted.found = enrolment.completed
  <2>1. Cardinality(lessons) \in Count /\ enrolment.completed \in BOOLEAN
    BY <1>0, Counting DEF Enrolment
  <2> QED
    BY <1>0, <2>1 DEF Counted, Request, Steps
<1>3. ASSUME NEW state \in {NoRequest, Counted}, Move(r, state, FALSE),
             drift' = IF state = NoRequest THEN drift \cup {"unenrolled"} ELSE drift
      PROVE  IInv'
  <2>1. state \in Request /\ (state = Counted \/ state.step = "idle")
    BY <1>0, <1>2, <1>3
  <2>2. req' \in [Requests -> Request] /\ req'[r] = state /\ \A q \in Requests \ {r} : req'[q] = req[q]
    BY <1>0, <1>3, <2>1, Moving
  <2>3. drift' \subseteq Drifts /\ drift \subseteq drift'
    BY <1>0, <1>3 DEF Drifts
  <2>4. TypeOK'
    BY <1>0, <1>1, <2>2, <2>3, Types DEF IInv, TypeOK, outside
  <2>5. SawRows'
    <3>1. ASSUME NEW q \in Requests \ {r}
          PROVE  /\ req'[q] = req[q]
                 /\ UNCHANGED <<lessons, done, enrolment.completed>>
                 /\ certificate # "none" => certificate' # "none"
      BY <1>1, <2>2
    <3>2. At(r, "tally")' => req'[r].found = enrolment'.completed /\ req'[r].total = Cardinality(lessons')
      BY <1>1, <1>2, <2>1, <2>2 DEF At
    <3>3. ~ At(r, "write")'
      BY <1>2, <2>1, <2>2 DEF At
    <3> QED
      BY <3>1, <3>2, <3>3, SawStill DEF IInv, SawRows
  <2>6. InLine'
    <3>1. req'[r].step \in {"count", "tally", "write"} \/ drift' \ {"miscounted"} # {}
      BY <1>2, <1>3, <2>1, <2>2
    <3> QED
      BY <1>1, <2>2, <2>3, <3>1, InLineStill DEF IInv
  <2>7. Earned'
    <3>1. NotYet => NotYet'
      BY <1>1, <1>2, <2>1, <2>2 DEF NotYet
    <3> QED
      BY <1>1, <2>3, <3>1, EarnedStill DEF IInv
  <2> QED
    BY <2>4, <2>5, <2>6, <2>7 DEF IInv
<1>4. CASE enrolment.status = "ACTIVE"
  <2>1. Move(r, Counted, FALSE) /\ UNCHANGED drift
    BY <1>4 DEF CountLessons, Counted
  <2>2. Counted # NoRequest
    BY <1>0, <1>2
  <2> QED
    BY <1>3, <2>1, <2>2
<1>5. CASE enrolment.status # "ACTIVE"
  BY <1>3, <1>5 DEF CountLessons
<1> QED
  BY <1>4, <1>5

LEMMA TallyKept ==
  ASSUME IInv, NEW r \in Requests, TallyProgress(r)
  PROVE  IInv'
<1> DEFINE complete == req[r].total > 0 /\ Cardinality(done) >= req[r].total
           verdict == Judge(r, complete)
           state == [req[r] EXCEPT !.step = "write", !.verdict = verdict]
<1>0. /\ req \in [Requests -> Request] /\ enrolment \in Enrolment
      /\ lessons \subseteq Lessons /\ done \subseteq lessons
  BY Types DEF IInv
<1>1. /\ req[r].step = "tally" /\ Move(r, state, FALSE)
      /\ UNCHANGED <<lessons, unused, done, enrolment, outside, certificate, finished, drift>>
  BY DEF TallyProgress, At, courseVars
<1>2. verdict \in Verdicts
  BY DEF Judge, Verdicts
<1>3. /\ verdict = "complete" => complete /\ ~ req[r].found
      /\ verdict = "clear" => ~ complete /\ req[r].found /\ certificate = "none"
      /\ verdict = "none" => (req[r].found <=> complete) \/ (req[r].found /\ certificate # "none")
  BY DEF Judge
<1>4. req[r].total = Cardinality(lessons) => (complete <=> Finished(lessons, done))
  <2>1. /\ Cardinality(lessons) > 0 <=> lessons # {}
        /\ Cardinality(lessons) \in Nat
        /\ Cardinality(done) >= Cardinality(lessons) => done = lessons
    BY <1>0, Counting
  <2> QED
    BY <2>1 DEF Finished
<1> HIDE DEF complete, verdict
<1>5. /\ state \in Request /\ state.step = "write" /\ state.verdict = verdict
      /\ state.overlapped = req[r].overlapped
  BY <1>0, <1>2 DEF Request, Steps
<1> HIDE DEF state
<1>6. req' \in [Requests -> Request] /\ req'[r] = state /\ \A q \in Requests \ {r} : req'[q] = req[q]
  BY <1>0, <1>1, <1>5, Moving
<1>7. TypeOK'
  BY <1>0, <1>1, <1>6, Types DEF IInv, TypeOK, outside
<1>8. SawRows'
  <2>1. ASSUME NEW q \in Requests \ {r}
        PROVE  /\ req'[q] = req[q]
               /\ UNCHANGED <<lessons, done, enrolment.completed>>
               /\ certificate # "none" => certificate' # "none"
    BY <1>1, <1>6
  <2>2. ~ At(r, "tally")'
    BY <1>5, <1>6 DEF At
  <2>3. ASSUME ~ req'[r].overlapped
        PROVE  /\ verdict = "complete" => Finished(lessons, done)
               /\ verdict = "clear" => ~ Finished(lessons, done)
               /\ verdict = "none" =>
                    \/ enrolment.completed <=> Finished(lessons, done)
                    \/ enrolment.completed /\ certificate # "none"
    <3>1. req[r].found = enrolment.completed /\ req[r].total = Cardinality(lessons)
      BY <1>1, <1>5, <1>6, <2>3 DEF IInv, SawRows, At
    <3> QED
      BY <1>3, <1>4, <3>1
  <2>4. ~ req'[r].overlapped =>
          /\ req'[r].verdict = "complete" => Finished(lessons', done')
          /\ req'[r].verdict = "clear" => ~ Finished(lessons', done')
          /\ req'[r].verdict = "none" =>
               \/ enrolment'.completed <=> Finished(lessons', done')
               \/ enrolment'.completed /\ certificate' # "none"
    BY <1>1, <1>5, <1>6, <2>3 DEF Finished
  <2> QED
    BY <2>1, <2>2, <2>4, SawStill DEF IInv, SawRows
<1>9. InLine'
  BY <1>1, <1>5, <1>6, InLineStill DEF IInv
<1>10. Earned'
  <2>1. NotYet => NotYet'
    BY <1>1, <1>5, <1>6 DEF NotYet
  <2> QED
    BY <1>1, <2>1, EarnedStill DEF IInv
<1> QED
  BY <1>7, <1>8, <1>9, <1>10 DEF IInv

(* Writing puts completedAt in line with the lessons, if nothing has overlapped. *)
LEMMA WriteKept ==
  ASSUME IInv, NEW r \in Requests, WriteCompletion(r)
  PROVE  IInv'
<1>0. /\ req \in [Requests -> Request] /\ enrolment \in Enrolment
      /\ lessons \subseteq Lessons /\ drift \subseteq Drifts
      /\ NoRequest \in Request /\ NoRequest.step = "idle"
      /\ req[r].verdict \in Verdicts
  BY Types, NoRequestType DEF IInv, Request
<1>1. /\ req[r].step = "write" /\ Move(r, NoRequest, enrolment' # enrolment)
      /\ UNCHANGED <<lessons, unused, done, outside, certificate, finished>>
  BY DEF WriteCompletion, At, courseVars
<1>2. enrolment' = CASE req[r].verdict = "complete" -> [enrolment EXCEPT !.completed = TRUE]
                    [] req[r].verdict = "clear"    -> [enrolment EXCEPT !.completed = FALSE]
                    [] OTHER                       -> enrolment
  BY DEF WriteCompletion
<1>3. /\ enrolment' \in Enrolment
      /\ req[r].verdict = "complete" => enrolment'.completed
      /\ req[r].verdict = "clear" => ~ enrolment'.completed
      /\ req[r].verdict = "none" => enrolment' = enrolment
  BY <1>0, <1>2 DEF Enrolment, Verdicts
<1>4. /\ req[r].overlapped => /\ drift' = drift \cup {"overlap"} \cup
                                    (IF req[r].verdict = "complete" THEN {"miscounted"} ELSE {})
      /\ ~ req[r].overlapped => drift' = drift \cap {"miscounted"}
  BY DEF WriteCompletion
<1>5. drift' \subseteq Drifts /\ ("miscounted" \in drift => "miscounted" \in drift')
  BY <1>0, <1>4 DEF Drifts
<1>6. /\ req' \in [Requests -> Request] /\ req'[r] = NoRequest
      /\ \A q \in Requests \ {r} :
           /\ req'[q].step = req[q].step
           /\ req'[q] = req[q] \/ req'[q].overlapped
           /\ enrolment' # enrolment /\ Recomputing(q) => req'[q].overlapped
  BY <1>0, <1>1, Moving
<1>7. TypeOK'
  BY <1>0, <1>1, <1>3, <1>5, <1>6, Types DEF IInv, TypeOK, outside
<1>8. SawRows'
  <2>1. ASSUME NEW q \in Requests
        PROVE  \/ req'[q].step \notin {"tally", "write"}
               \/ req'[q].overlapped
               \/ /\ req'[q] = req[q]
                  /\ UNCHANGED <<lessons, done, enrolment.completed>>
                  /\ certificate # "none" => certificate' # "none"
    BY <1>0, <1>1, <1>6 DEF Recomputing, At
  <2> QED
    BY <2>1, SawStill DEF IInv, SawRows
<1>9. InLine'
  <2>1. CASE req[r].overlapped
    BY <1>4, <2>1 DEF InLine
  <2>2. CASE ~ req[r].overlapped
    <3>1. /\ req[r].verdict = "complete" => Finished(lessons, done)
          /\ req[r].verdict = "clear" => ~ Finished(lessons, done)
          /\ req[r].verdict = "none" =>
               \/ enrolment.completed <=> Finished(lessons, done)
               \/ enrolment.completed /\ certificate # "none"
      BY <1>1, <2>2 DEF IInv, SawRows, At
    <3>2. \/ enrolment'.completed <=> Finished(lessons, done)
          \/ enrolment'.completed /\ certificate # "none"
      BY <1>0, <1>3, <3>1 DEF Verdicts
    <3> QED
      BY <1>1, <3>2 DEF InLine, Finished
  <2> QED
    BY <2>1, <2>2
<1>10. Earned'
  <2>1. NotYet => NotYet' \/ "miscounted" \in drift'
    <3>1. CASE req[r].verdict = "complete"
      BY <1>1, <1>4, <3>1 DEF IInv, SawRows, NotYet, At
    <3>2. CASE req[r].verdict # "complete"
      <4>1. NotYet => ~ enrolment'.completed
        BY <1>0, <1>3, <3>2 DEF NotYet, Verdicts
      <4> QED
        BY <1>0, <1>1, <1>6, <4>1 DEF NotYet, Finished
    <3> QED
      BY <3>1, <3>2
  <2> QED
    BY <1>1, <1>5, <2>1, EarnedStill DEF IInv
<1> QED
  BY <1>7, <1>8, <1>9, <1>10 DEF IInv

-----------------------------------------------------------------------------
(* Steps that neither change the lessons nor what is done of them *)

(* Who dies, and the way to the certificate. *)
Others(r) ==
  Die(r) \/ GenerateCertificate(r) \/ CheckEnrolment(r) \/ CheckQuizzes(r) \/ RereadEnrolment(r)
         \/ CreateCertificate(r)

LEMMA OthersKept ==
  ASSUME IInv, NEW r \in Requests, Others(r)
  PROVE  IInv'
<1>0. /\ req \in [Requests -> Request] /\ enrolment \in Enrolment
      /\ drift \subseteq Drifts /\ certificate \in {"none", "issued", "revoked"}
      /\ NoRequest \in Request /\ NoRequest.step = "idle"
      /\ \A step \in Steps : Beginning(step) \in Request /\ Beginning(step).step = step
      /\ {"checkEnrolment", "checkQuizzes", "reread", "create"} \subseteq Steps
  BY Types, NoRequestType DEF IInv, Steps
<1>1. ASSUME NEW state \in Request, Move(r, state, FALSE), state.step \notin {"tally", "write"},
             UNCHANGED <<lessons, unused, done, enrolment, outside, finished>>,
             certificate' \in {"none", "issued", "revoked"},
             certificate # "none" => certificate' # "none",
             drift' \in {drift, drift \cup {"died"}},
             req[r].step \in {"count", "tally", "write"} => drift' = drift \cup {"died"},
             NotYet => certificate' = "none" /\ state.step \notin {"checkQuizzes", "reread", "create"}
      PROVE  IInv'
  <2>1. req' \in [Requests -> Request] /\ req'[r] = state /\ \A q \in Requests \ {r} : req'[q] = req[q]
    BY <1>0, <1>1, Moving
  <2>2. drift' \subseteq Drifts /\ drift \subseteq drift'
    BY <1>0, <1>1 DEF Drifts
  <2>3. TypeOK'
    BY <1>0, <1>1, <2>1, <2>2, Types DEF IInv, TypeOK, outside
  <2>4. SawRows'
    <3>1. ASSUME NEW q \in Requests
          PROVE  \/ req'[q].step \notin {"tally", "write"}
                 \/ req'[q].overlapped
                 \/ /\ req'[q] = req[q]
                    /\ UNCHANGED <<lessons, done, enrolment.completed>>
                    /\ certificate # "none" => certificate' # "none"
      BY <1>1, <2>1
    <3> QED
      BY <3>1, SawStill DEF IInv, SawRows
  <2>5. InLine'
    <3>1. req[r].step \in {"count", "tally", "write"} => drift' \ {"miscounted"} # {}
      BY <1>1
    <3> QED
      BY <1>1, <2>1, <2>2, <3>1, InLineStill DEF IInv
  <2>6. Earned'
    <3>1. NotYet => NotYet'
      BY <1>1, <2>1 DEF NotYet, Finished
    <3> QED
      BY <1>1, <2>2, <3>1, EarnedStill DEF IInv
  <2> QED
    BY <2>3, <2>4, <2>5, <2>6 DEF IInv
<1>2. CASE Die(r)
  <2>1. /\ Move(r, NoRequest, FALSE) /\ drift' = drift \cup {"died"}
        /\ UNCHANGED <<lessons, unused, done, enrolment, outside, certificate, finished>>
    BY <1>2 DEF Die, courseVars
  <2> QED
    BY <1>0, <1>1, <2>1 DEF NotYet
<1>3. ASSUME NEW from, NEW condition \in BOOLEAN, NEW to \in {"checkEnrolment", "checkQuizzes", "reread", "create"},
             GoOn(r, from, condition, to), from \notin {"count", "tally", "write"},
             condition /\ NotYet => to = "checkEnrolment"
      PROVE  IInv'
  <2> DEFINE state == IF condition THEN Beginning(to) ELSE NoRequest
  <2>1. state \in Request /\ state.step = IF condition THEN to ELSE "idle"
    BY <1>0
  <2>2. /\ req[r].step = from /\ Move(r, state, FALSE)
        /\ UNCHANGED <<lessons, unused, done, enrolment, outside, certificate, finished, drift>>
    BY <1>3 DEF GoOn, At, courseVars, Beginning
  <2> HIDE DEF state
  <2>3. NotYet => certificate' = "none" /\ state.step \notin {"checkQuizzes", "reread", "create"}
    BY <1>3, <2>1, <2>2 DEF NotYet
  <2>4. state.step \notin {"tally", "write"}
    BY <2>1
  <2> QED
    BY <1>0, <1>1, <1>3, <2>1, <2>2, <2>3, <2>4
<1>4. CASE GenerateCertificate(r)
  BY <1>3, <1>4 DEF GenerateCertificate
<1>5. CASE CheckEnrolment(r)
  <2>1. (enrolment.status = "ACTIVE" /\ enrolment.completed) \in BOOLEAN
    BY <1>0 DEF Enrolment
  <2>2. ~ (NotYet /\ enrolment.completed)
    BY DEF NotYet
  <2> QED
    BY <1>3, <1>5, <2>1, <2>2 DEF CheckEnrolment
<1>6. ASSUME NEW step \in {"checkQuizzes", "reread", "create"}, At(r, step)
      PROVE  ~ NotYet
  BY <1>6 DEF NotYet, At
<1>7. CASE CheckQuizzes(r)
  <2>1. GoOn(r, "checkQuizzes", ~ quizDue, "reread") /\ At(r, "checkQuizzes")
    BY <1>7 DEF CheckQuizzes, GoOn
  <2> QED
    BY <1>3, <1>6, <2>1
<1>8. CASE RereadEnrolment(r)
  <2>1. GoOn(r, "reread", enrolment.completed, "create") /\ At(r, "reread")
    BY <1>8 DEF RereadEnrolment, GoOn
  <2>2. enrolment.completed \in BOOLEAN
    BY <1>0 DEF Enrolment
  <2> QED
    BY <1>3, <1>6, <2>1, <2>2
<1>9. CASE CreateCertificate(r)
  <2>1. /\ req[r].step = "create" /\ Move(r, NoRequest, FALSE)
        /\ certificate' = IF certificate = "none" THEN "issued" ELSE certificate
        /\ UNCHANGED <<lessons, unused, done, enrolment, outside, finished, drift>>
    BY <1>9 DEF CreateCertificate, At, courseVars
  <2>2. ~ NotYet
    BY <1>6, <2>1 DEF At
  <2> QED
    BY <1>0, <1>1, <2>1, <2>2
<1> QED
  BY <1>2, <1>4, <1>5, <1>7, <1>8, <1>9 DEF Others

(* What happens outside of the requests. *)
Elsewhere == RevokeCertificate \/ EnrollInFreeCourse \/ EnrollUserByEmail \/ EndEnrolment \/ ChangeOutside

LEMMA ElsewhereKept ==
  ASSUME IInv, Elsewhere
  PROVE  IInv'
<1>0. /\ req \in [Requests -> Request] /\ enrolment \in Enrolment
      /\ drift \subseteq Drifts /\ certificate \in {"none", "issued", "revoked"}
  BY Types DEF IInv
<1>1. ASSUME NEW status \in {"ACTIVE", "ENDED"}, SetStatus(status)
      PROVE  IInv'
  <2>1. enrolment' \in Enrolment /\ enrolment'.completed = enrolment.completed
    BY <1>0, <1>1 DEF SetStatus, Enrolment
  <2>2. UNCHANGED <<lessons, unused, done, subscribed, quizDue, certificate, finished, drift>>
    BY <1>1 DEF SetStatus, courseVars, outside
  <2>3. /\ req' \in [Requests -> Request]
        /\ \A q \in Requests : req'[q].step = req[q].step /\ (Recomputing(q) => req'[q].overlapped)
    <3>1. \A q \in Requests : [req[q] EXCEPT !.overlapped = TRUE] \in Request
      BY <1>0 DEF Request
    <3>2. req' = [q \in Requests |-> IF Recomputing(q) THEN [req[q] EXCEPT !.overlapped = TRUE] ELSE req[q]]
      BY <1>1 DEF SetStatus
    <3>3. req' \in [Requests -> Request]
      BY <1>0, <3>1, <3>2
    <3> QED
      BY <1>0, <3>2, <3>3 DEF Request
  <2>4. TypeOK'
    BY <1>0, <2>1, <2>2, <2>3, Types DEF IInv, TypeOK
  <2>5. SawRows'
    <3>1. ASSUME NEW q \in Requests
          PROVE  req'[q].step \notin {"tally", "write"} \/ req'[q].overlapped
      BY <2>3 DEF Recomputing, At
    <3> QED
      BY <3>1 DEF SawRows, At
  <2>6. InLine'
    BY <2>1, <2>2, <2>3 DEF IInv, InLine, Finished, At, Recomputing
  <2>7. Earned'
    BY <2>1, <2>2, <2>3 DEF IInv, Earned, NotYet, Finished
  <2> QED
    BY <2>4, <2>5, <2>6, <2>7 DEF IInv
<1>2. ASSUME UNCHANGED <<lessons, unused, done, enrolment, req, finished, drift>>,
             subscribed' \in BOOLEAN, quizDue' \in BOOLEAN,
             certificate' \in {"none", "issued", "revoked"},
             certificate = "none" <=> certificate' = "none"
      PROVE  IInv'
  <2>1. TypeOK'
    BY <1>0, <1>2, Types DEF IInv, TypeOK
  <2>2. SawRows'
    BY <1>2 DEF IInv, SawRows, At, Finished
  <2>3. InLine'
    BY <1>2 DEF IInv, InLine, Finished, At, Recomputing
  <2>4. Earned'
    BY <1>2 DEF IInv, Earned, NotYet, Finished
  <2> QED
    BY <2>1, <2>2, <2>3, <2>4 DEF IInv
<1>3. CASE RevokeCertificate
  <2>1. subscribed' \in BOOLEAN /\ quizDue' \in BOOLEAN
    BY <1>3 DEF RevokeCertificate, outside, IInv, TypeOK
  <2> QED
    BY <1>2, <1>3, <2>1 DEF RevokeCertificate, courseVars
<1>4. CASE EnrollInFreeCourse \/ EnrollUserByEmail \/ EndEnrolment
  BY <1>1, <1>4 DEF EnrollInFreeCourse, EnrollUserByEmail, EndEnrolment
<1>5. CASE ChangeOutside
  <2>1. subscribed' \in BOOLEAN /\ quizDue' \in BOOLEAN
    BY <1>5 DEF ChangeOutside, IInv, TypeOK
  <2> QED
    BY <1>0, <1>2, <1>5, <2>1 DEF ChangeOutside, courseVars
<1> QED
  BY <1>3, <1>4, <1>5 DEF Elsewhere

-----------------------------------------------------------------------------
(* The invariant *)

LEMMA InvariantStep == IInv /\ [Next]_vars => IInv'
<1> SUFFICES ASSUME IInv, [Next]_vars PROVE IInv'
  OBVIOUS
<1>1. CASE UNCHANGED vars
  <2>1. TypeOK'
    BY <1>1 DEF IInv, TypeOK, vars, courseVars, outside
  <2> QED
    BY <1>1, <2>1
       DEF IInv, vars, courseVars, SawRows, InLine, Earned, NotYet, Finished, At, Recomputing
<1>2. \/ UNCHANGED vars
      \/ Elsewhere
      \/ \E r \in Requests :
           Curriculum(r) \/ CountLessons(r) \/ TallyProgress(r) \/ WriteCompletion(r) \/ Others(r)
  BY DEF Next, Elsewhere, Curriculum, Others
<1> QED
  BY <1>1, <1>2, CurriculumKept, CountKept, TallyKept, WriteKept, OthersKept, ElsewhereKept

-----------------------------------------------------------------------------
(* Theorems *)

(* The invariant holds in every state the service can reach. *)
THEOREM Invariant == Spec => []IInv
BY InitIInv, InvariantStep, PTL DEF Spec

(* Every row and request is of its type: progress is of lessons there are. *)
THEOREM TypeCorrect == Spec => []TypeOK
<1>1. IInv => TypeOK
  BY DEF IInv
<1> QED
  BY <1>1, Invariant, PTL

(* completedAt is in line with the lessons there are (recomputeCourseCompletion), *)
(* with any number of requests that change the two.                               *)
THEOREM CompletionStaysCurrent == Spec => []CompletionIsCurrent
<1>1. ASSUME IInv PROVE CompletionIsCurrent
  <2>1. enrolment.completed \in BOOLEAN /\ Finished(lessons, done) \in BOOLEAN
    BY <1>1, Types DEF IInv, Enrolment, Finished
  <2>2. (enrolment.completed <=> Finished(lessons, done)) => enrolment.completed = Finished(lessons, done)
    BY <2>1
  <2> QED
    BY <1>1, <2>2 DEF IInv, InLine, CompletionIsCurrent
<1> QED
  BY <1>1, Invariant, PTL

(* Who holds a certificate (generateCertificate) has once finished the course, *)
(* unless a recomputation has miscounted.                                      *)
THEOREM CertificatesAreEarned == Spec => []CertificateWasEarned
<1>1. IInv => CertificateWasEarned
  BY DEF IInv, Earned, NotYet, CertificateWasEarned
<1> QED
  BY <1>1, Invariant, PTL
=============================================================================
