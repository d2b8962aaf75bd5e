--------------------------- MODULE HelpdeskProofs ---------------------------
(***************************************************************************)
(* Theorems about Helpdesk, for any number of requests, agents, students   *)
(* and answers.                                                            *)
(***************************************************************************)
EXTENDS Helpdesk, FiniteSetTheorems, TLAPS

(* What a request carries from one step to the next. *)
CarriesOn ==
  \A r \in Requests :
    /\ At(r, "message") => req[r].by \in Staff \cup {NoOne}
    /\ At(r, "toggle") => req[r].by \in Students
    /\ At(r, "point") => req[r].answer \in Answers

(* A message is applied under the conversation's lock; the status it has read is *)
(* the ticket's, unless updateTicket, which takes no lock, has come between.     *)
SawUnderLock ==
  \A r \in Requests : At(r, "message") =>
    /\ lock = {r}
    /\ req[r].saw.status = ticket.status \/ req[r].overtaken

Voters == {s \in Students : votes[s] # 0}
Given == {a \in Answers : answers[a] # "none"}
Accepted == {a \in Answers : answers[a] = "accepted"}

Counted ==
  /\ question.upvotes = Cardinality(Voters)
  /\ question.answerCount = Cardinality(Given)

(* An answer is the first until another has come between: none is accepted before *)
(* it, nobody is about to name one, and it stays the only one until it is named.  *)
FirstIsFirst ==
  "bothFirst" \in excused \/ \A r \in Requests : ~ req[r].overtaken =>
    /\ At(r, "answer") /\ req[r].first => Accepted = {} /\ \A q \in Requests : ~ At(q, "point")
    /\ At(r, "point") => Accepted = {req[r].answer}

NamedIsAccepted ==
  \/ Accepted = {question.accepted} \ {NoAnswer}
  \/ \E r \in Requests : At(r, "point")
  \/ "bothFirst" \in excused

IInv ==
  /\ TypeOK
  /\ CarriesOn
  /\ SawUnderLock
  /\ TicketIsTrue
  /\ Counted
  /\ FirstIsFirst
  /\ NamedIsAccepted

-----------------------------------------------------------------------------
(* Types *)

Request == [step: Steps, by: Staff \cup Students \cup {NoOne}, saw: Ticket, vote: 0..MaxVotes,
            instructor: BOOLEAN, first: BOOLEAN, answer: Answers \cup {NoAnswer}, overtaken: BOOLEAN]
Question == [upvotes: Nat, answerCount: Nat, accepted: Answers \cup {NoAnswer}, answered: BOOLEAN]

LEMMA Types ==
  /\ TypeOK =>
       /\ ticket \in Ticket
       /\ votes \in [Students -> 0..MaxVotes] /\ lastVote \in 0..MaxVotes
       /\ answers \in [Answers -> {"none", "plain", "accepted"}]
       /\ question \in Question
       /\ req \in [Requests -> Request]
       /\ excused \subseteq {"rewritten", "closedOver", "bothFirst"}
  /\ req' \in [Requests -> Request] /\ question' \in Question =>
       (TypeOK' <=>
         /\ desk' \in {"ticket", "question"}
         /\ ticket' \in Ticket
         /\ lock' \subseteq Requests /\ Cardinality(lock') <= 1
         /\ votes' \in [Students -> 0..MaxVotes] /\ lastVote' \in 0..MaxVotes
         /\ answers' \in [Answers -> {"none", "plain", "accepted"}]
         /\ waiting' \in BOOLEAN
         /\ excused' \subseteq {"rewritten", "closedOver", "bothFirst"})
BY DEF TypeOK, Request, Question

LEMMA NoRequestType ==
  NoRequest \in Request /\ NoRequest.step = "idle" /\ ~ NoRequest.overtaken
BY HelpdeskAssumption DEF NoRequest, Request, NewTicket, Ticket, Statuses, Steps

(* What somebody who has read the ticket goes on with. *)
Reading(step, by) == [NoRequest EXCEPT !.step = step, !.by = by, !.saw = ticket]

LEMMA ReadingTicket ==
  ASSUME ticket \in Ticket, NEW step \in {"message", "update"}, NEW by \in Staff \cup {NoOne}
  PROVE  /\ Reading(step, by) \in Request
         /\ Reading(step, by).step = step /\ Reading(step, by).by = by /\ Reading(step, by).saw = ticket
BY NoRequestType DEF Reading, Request, Steps

(* Overtaking changes one field of the others. *)
LEMMA Overtaking ==
  ASSUME req \in [Requests -> Request], NEW r \in Requests, NEW state \in Request,
         NEW steps, Overtake(r, state, steps)
  PROVE  /\ req' \in [Requests -> Request]
         /\ req'[r] = state
         /\ \A q \in Requests \ {r} :
              /\ req'[q].step = req[q].step /\ req'[q].by = req[q].by /\ req'[q].saw = req[q].saw
              /\ req'[q].first = req[q].first /\ req'[q].answer = req[q].answer
              /\ req[q].step \in steps => req'[q].overtaken
              /\ req[q].step \notin steps => req'[q].overtaken = req[q].overtaken
BY DEF Overtake, Request

LEMMA Going ==
  ASSUME req \in [Requests -> Request], NEW r \in Requests, NEW state \in Request, Goto(r, state)
  PROVE  /\ req' \in [Requests -> Request]
         /\ req'[r] = state
         /\ \A q \in Requests \ {r} : req'[q] = req[q]
BY DEF Goto

LEMMA OneHolder ==
  ASSUME NEW r \in Requests
  PROVE  {r} \subseteq Requests /\ Cardinality({r}) <= 1 /\ Cardinality({}) <= 1
BY FS_Singleton, FS_EmptySet

LEMMA InitIInv == Init => IInv
<1> SUFFICES ASSUME Init PROVE IInv
  OBVIOUS
<1>1. req \in [Requests -> Request] /\ question \in Question
  BY NoRequestType DEF Init, Question
<1>2. TypeOK
  <2>1. ticket \in Ticket
    BY HelpdeskAssumption DEF Init, NewTicket, Ticket, Statuses
  <2>2. votes \in [Students -> 0..MaxVotes] /\ lastVote \in 0..MaxVotes
    BY HelpdeskAssumption DEF Init
  <2>3. lock \subseteq Requests /\ Cardinality(lock) <= 1
    BY FS_EmptySet DEF Init
  <2> QED
    BY <1>1, <2>1, <2>2, <2>3 DEF Init, TypeOK, Request, Question
<1>3. Voters = {} /\ Given = {} /\ Accepted = {}
  BY DEF Init, Voters, Given, Accepted
<1>4. Counted /\ NamedIsAccepted
  BY <1>3, FS_EmptySet DEF Init, Counted, NamedIsAccepted
<1> QED
  BY <1>2, <1>4 DEF Init, IInv, CarriesOn, SawUnderLock, TicketIsTrue, FirstIsFirst, At, NoRequest, NewTicket, Closed

-----------------------------------------------------------------------------
(* The steps of a request about the ticket, and about the question *)

TicketStep(r) ==
  \/ \E by \in Staff \cup {NoOne} : ReadTicketForMessage(r, by)
  \/ \E s \in Staff : ReadTicketForUpdate(r, s)
  \/ ApplyCustomerMessage(r) \/ ApplyStaffMessage(r)
  \/ \E status \in Statuses, assignee \in Staff \cup {NoOne} : UpdateTicket(r, status, assignee)
VoteStep(r) == CommitVote(r) \/ \E s \in Students : ReadVote(r, s)
AnswerStep(r) ==
  \/ \E instructor \in BOOLEAN : ReadQuestion(r, instructor)
  \/ \E a \in Answers : CommitAnswer(r, a)
  \/ PointToAnswer(r)
ModerateStep == (\E a \in Answers : AcceptAnswer(a)) \/ \E answered \in BOOLEAN : MarkAnswered(answered)

LEMMA StepCases ==
  ASSUME [Next]_vars
  PROVE  \/ UNCHANGED vars
         \/ \E r \in Requests : TicketStep(r) \/ VoteStep(r) \/ AnswerStep(r)
         \/ ModerateStep
BY DEF Next, TicketStep, VoteStep, AnswerStep, ModerateStep

(* What a step that has to do with the ticket makes of the requests. *)
LEMMA TicketRequests ==
  ASSUME TypeOK, NEW r \in Requests, TicketStep(r)
  PROVE  /\ req' \in [Requests -> Request]
         /\ \A q \in Requests \ {r} :
              /\ req'[q].step = req[q].step /\ req'[q].by = req[q].by /\ req'[q].saw = req[q].saw
              /\ req'[q].first = req[q].first /\ req'[q].answer = req[q].answer
              /\ req'[q].overtaken # req[q].overtaken =>
                    req'[q].overtaken /\ req[q].step \in {"update", "message"}
         /\ req'[r].step \notin {"answer", "point", "toggle"} /\ req[r].step \notin {"answer", "point", "toggle"}
         /\ UNCHANGED questionVars /\ ("bothFirst" \in excused' <=> "bothFirst" \in excused)
<1> USE DEF At
<1>0. req \in [Requests -> Request] /\ ticket \in Ticket
  BY Types
<1>1. NoRequest \in Request /\ NoRequest.step = "idle"
  BY NoRequestType
<1>2. ASSUME NEW by \in Staff \cup {NoOne},
             ReadTicketForMessage(r, by) \/ ReadTicketForUpdate(r, by)
      PROVE  \E state \in Request :
               /\ Goto(r, state) /\ state.step \in {"message", "update"}
               /\ req[r].step = "idle" /\ UNCHANGED <<questionVars, excused>>
  <2>1. CASE ReadTicketForMessage(r, by)
    BY <1>0, <2>1, ReadingTicket DEF ReadTicketForMessage, Reading
  <2>2. CASE ReadTicketForUpdate(r, by)
    BY <1>0, <2>2, ReadingTicket DEF ReadTicketForUpdate, Reading
  <2> QED
    BY <1>2, <2>1, <2>2
<1>3. CASE \E by \in Staff \cup {NoOne} :
             ReadTicketForMessage(r, by) \/ ReadTicketForUpdate(r, by)
  <2>1. PICK state \in Request :
               /\ Goto(r, state) /\ state.step \in {"message", "update"}
               /\ req[r].step = "idle" /\ UNCHANGED <<questionVars, excused>>
    BY <1>2, <1>3
  <2> QED
    BY <1>0, <2>1, Going
<1>4. CASE ApplyCustomerMessage(r)
  <2>1. /\ Overtake(r, NoRequest, {"update"}) /\ req[r].step = "message" /\ UNCHANGED questionVars
        /\ ("bothFirst" \in excused' <=> "bothFirst" \in excused)
    BY <1>4 DEF ApplyCustomerMessage
  <2> QED
    BY <1>0, <1>1, <2>1, Overtaking
<1>5. CASE ApplyStaffMessage(r)
  <2>1. /\ Goto(r, NoRequest) /\ req[r].step = "message" /\ UNCHANGED questionVars
        /\ ("bothFirst" \in excused' <=> "bothFirst" \in excused)
    BY <1>5 DEF ApplyStaffMessage, Done
  <2> QED
    BY <1>0, <1>1, <2>1, Going
<1>6. CASE \E status \in Statuses, assignee \in Staff \cup {NoOne} : UpdateTicket(r, status, assignee)
  <2>1. PICK status \in Statuses, assignee \in Staff \cup {NoOne} : UpdateTicket(r, status, assignee)
    BY <1>6
  <2>2. CASE status = req[r].saw.status
    <3>1. Goto(r, NoRequest) /\ req[r].step = "update" /\ UNCHANGED <<questionVars, excused>>
      BY <2>1, <2>2 DEF UpdateTicket, Done
    <3> QED
      BY <1>0, <1>1, <3>1, Going
  <2>3. CASE status # req[r].saw.status
    <3>1. Overtake(r, NoRequest, {"message"}) /\ req[r].step = "update" /\ UNCHANGED questionVars
          /\ ("bothFirst" \in excused' <=> "bothFirst" \in excused)
      BY <2>1, <2>3 DEF UpdateTicket
    <3> QED
      BY <1>0, <1>1, <3>1, Overtaking
  <2> QED
    BY <2>2, <2>3
<1> QED
  BY <1>3, <1>4, <1>5, <1>6 DEF TicketStep

(* What the customer and the staff write keeps the ticket true to what became of it. *)
LEMMA TicketKept ==
  ASSUME TypeOK, CarriesOn, SawUnderLock, TicketIsTrue, NEW r \in Requests, TicketStep(r)
  PROVE  TypeOK' /\ CarriesOn' /\ SawUnderLock' /\ TicketIsTrue'
<1> USE DEF At
<1>0. /\ req \in [Requests -> Request] /\ ticket \in Ticket /\ NoRequest \in Request
      /\ excused \subseteq {"rewritten", "closedOver", "bothFirst"}
      /\ NoRequest.step = "idle"
  BY Types, NoRequestType
<1>1. /\ req' \in [Requests -> Request]
      /\ \A q \in Requests \ {r} :
           /\ req'[q].step = req[q].step /\ req'[q].by = req[q].by /\ req'[q].saw = req[q].saw
           /\ req'[q].first = req[q].first /\ req'[q].answer = req[q].answer
           /\ req'[q].overtaken # req[q].overtaken =>
                 req'[q].overtaken /\ req[q].step \in {"update", "message"}
      /\ req'[r].step \notin {"answer", "point", "toggle"}
      /\ UNCHANGED questionVars
  BY TicketRequests
<1>2. \A q \in Requests : req[q].step = "message" => lock = {q}
  BY DEF SawUnderLock
<1>3. \A q \in Requests \ {r} : req'[q].step = "message" => req[q].step = "message"
  BY <1>1
<1>4. question' \in Question
  BY <1>1, Types DEF questionVars
<1>5. {r} \subseteq Requests /\ Cardinality({r}) <= 1 /\ Cardinality({}) <= 1
  BY OneHolder
<1>6. CASE \E by \in Staff \cup {NoOne} : ReadTicketForMessage(r, by)
  <2>1. PICK by \in Staff \cup {NoOne} : ReadTicketForMessage(r, by)
    BY <1>6
  <2>2. /\ lock = {} /\ lock' = {r} /\ UNCHANGED <<desk, ticket, waiting, excused>>
        /\ req'[r].step = "message" /\ req'[r].by = by /\ req'[r].saw = ticket
    <3>1. req'[r] = Reading("message", by)
      BY <1>0, <2>1 DEF ReadTicketForMessage, Goto, Reading
    <3>2. /\ req'[r].step = "message" /\ req'[r].by = by /\ req'[r].saw = ticket
      BY <1>0, <3>1, ReadingTicket
    <3> QED
      BY <2>1, <3>2 DEF ReadTicketForMessage
  <2>3. TypeOK'
    BY <1>1, <1>4, <1>5, <2>2, Types DEF TypeOK, questionVars
  <2>4. CarriesOn'
    BY <1>1, <2>2 DEF CarriesOn
  <2>5. SawUnderLock'
    BY <1>1, <1>2, <1>3, <2>2 DEF SawUnderLock
  <2> QED
    BY <2>2, <2>3, <2>4, <2>5 DEF TicketIsTrue
<1>7. CASE \E s \in Staff : ReadTicketForUpdate(r, s)
  <2>1. UNCHANGED <<desk, ticket, lock, waiting, excused>> /\ req'[r].step = "update"
    <3>1. PICK s \in Staff : ReadTicketForUpdate(r, s)
      BY <1>7
    <3>2. req'[r] = Reading("update", s)
      BY <1>0, <3>1 DEF ReadTicketForUpdate, Goto, Reading
    <3>3. req'[r].step = "update"
      BY <1>0, <3>2, ReadingTicket
    <3> QED
      BY <3>1, <3>3 DEF ReadTicketForUpdate, ticketVars
  <2>2. TypeOK'
    BY <1>1, <1>4, <2>1, Types DEF TypeOK, questionVars
  <2>3. CarriesOn'
    BY <1>1, <2>1 DEF CarriesOn
  <2>4. SawUnderLock'
    BY <1>1, <1>2, <1>3, <2>1 DEF SawUnderLock
  <2> QED
    BY <2>1, <2>2, <2>3, <2>4 DEF TicketIsTrue
<1>8. CASE ApplyCustomerMessage(r)
  <2>1. /\ lock' = {} /\ waiting' = TRUE /\ UNCHANGED desk
        /\ excused' = excused \ {"rewritten", "closedOver"}
        /\ req'[r].step = "idle" /\ req[r].step = "message"
    BY <1>0, <1>8, Overtaking DEF ApplyCustomerMessage
  <2>2. ticket' \in Ticket /\ ticket'.status = "OPEN" /\ ~ ticket'.resolvedAt
    BY <1>0, <1>8 DEF ApplyCustomerMessage, Ticket, Statuses
  <2>3. TypeOK'
    BY <1>0, <1>1, <1>4, <1>5, <2>1, <2>2, Types DEF TypeOK, questionVars
  <2>4. CarriesOn'
    BY <1>1, <2>1 DEF CarriesOn
  <2>5. SawUnderLock'
    BY <1>1, <1>2, <1>3, <2>1 DEF SawUnderLock
  <2> QED
    BY <2>1, <2>2, <2>3, <2>4, <2>5 DEF TicketIsTrue, Closed
<1>9. CASE ApplyStaffMessage(r)
  <2>1. /\ lock' = {} /\ waiting' = FALSE /\ UNCHANGED desk
        /\ excused' = (excused \ {"closedOver"}) \cup (IF req[r].overtaken THEN {"rewritten"} ELSE {})
        /\ req'[r].step = "idle" /\ req[r].step = "message"
    BY <1>0, <1>9 DEF ApplyStaffMessage, Done, Goto
  <2>2. req[r].saw \in Ticket /\ req[r].by \in Staff \cup {NoOne}
    BY <1>0, <2>1 DEF CarriesOn, Request
  <2>3. /\ ticket' \in Ticket /\ ticket'.resolvedAt = ticket.resolvedAt
        /\ Closed(ticket'.status) <=> Closed(req[r].saw.status)
    <3>1. ticket' = [ticket EXCEPT
            !.status = IF req[r].saw.status = "OPEN" THEN "PENDING" ELSE req[r].saw.status,
            !.responded = TRUE,
            !.assignee = IF req[r].saw.assignee = NoOne THEN req[r].by ELSE req[r].saw.assignee]
      BY <1>9 DEF ApplyStaffMessage
    <3>2. /\ (IF req[r].saw.status = "OPEN" THEN "PENDING" ELSE req[r].saw.status) \in Statuses
          /\ (IF req[r].saw.assignee = NoOne THEN req[r].by ELSE req[r].saw.assignee) \in Staff \cup {NoOne}
      BY <2>2 DEF Ticket, Statuses
    <3>3. ticket' \in Ticket /\ ticket'.resolvedAt = ticket.resolvedAt
          /\ ticket'.status = IF req[r].saw.status = "OPEN" THEN "PENDING" ELSE req[r].saw.status
      BY <1>0, <3>1, <3>2 DEF Ticket
    <3> QED
      BY <3>3 DEF Closed
  <2>4. TypeOK'
    BY <1>0, <1>1, <1>4, <1>5, <2>1, <2>3, Types DEF TypeOK, questionVars
  <2>5. CarriesOn'
    BY <1>1, <2>1 DEF CarriesOn
  <2>6. SawUnderLock'
    BY <1>1, <1>2, <1>3, <2>1 DEF SawUnderLock
  <2>7. req[r].saw.status = ticket.status \/ req[r].overtaken
    BY <2>1 DEF SawUnderLock
  <2> QED
    BY <2>1, <2>3, <2>4, <2>5, <2>6, <2>7 DEF TicketIsTrue
<1>10. CASE \E status \in Statuses, assignee \in Staff \cup {NoOne} : UpdateTicket(r, status, assignee)
  <2>1. PICK status \in Statuses, assignee \in Staff \cup {NoOne} : UpdateTicket(r, status, assignee)
    BY <1>10
  <2>2. req[r].step = "update" /\ UNCHANGED <<desk, lock>>
    BY <2>1 DEF UpdateTicket
  <2>3. CASE status = req[r].saw.status
    <3>0. /\ UNCHANGED <<waiting, excused>> /\ req'[r].step = "idle"
          /\ ticket' = [ticket EXCEPT !.assignee = assignee]
      BY <1>0, <2>1, <2>3 DEF UpdateTicket, Done, Goto
    <3>1. /\ UNCHANGED <<waiting, excused>> /\ req'[r].step = "idle"
          /\ ticket' \in Ticket /\ ticket'.status = ticket.status /\ ticket'.resolvedAt = ticket.resolvedAt
      BY <1>0, <3>0 DEF Ticket
    <3>2. TypeOK'
      BY <1>1, <1>4, <2>2, <3>1, Types DEF TypeOK, questionVars
    <3>3. CarriesOn'
      BY <1>1, <3>1 DEF CarriesOn
    <3>4. SawUnderLock'
      BY <1>1, <1>2, <1>3, <2>2, <3>1 DEF SawUnderLock
    <3> QED
      BY <3>1, <3>2, <3>3, <3>4 DEF TicketIsTrue
  <2>4. CASE status # req[r].saw.status
    <3>1. /\ ticket' = [ticket EXCEPT !.assignee = assignee, !.status = status, !.resolvedAt = Closed(status)]
          /\ waiting' = (waiting /\ (req[r].overtaken \/ ~ Closed(status)))
          /\ excused' = (excused \ {"rewritten", "closedOver"})
               \cup (IF Closed(status) /\ req[r].overtaken THEN {"closedOver"} ELSE {})
          /\ Overtake(r, NoRequest, {"message"})
      BY <2>1, <2>4 DEF UpdateTicket
    <3>2. ticket' \in Ticket /\ ticket'.status = status /\ ticket'.resolvedAt = Closed(status)
      <4>1. Closed(status) \in BOOLEAN
        BY DEF Closed
      <4> QED
        BY <1>0, <3>1, <4>1 DEF Ticket
    <3>3. req'[r].step = "idle"
          /\ \A q \in Requests \ {r} : req'[q].step = "message" => req'[q].overtaken
      BY <1>0, <3>1, Overtaking
    <3>4. TypeOK'
      <4>1. waiting' \in BOOLEAN /\ excused' \subseteq {"rewritten", "closedOver", "bothFirst"}
        BY <1>0, <3>1
      <4> QED
        BY <1>1, <1>4, <2>2, <3>2, <4>1, Types DEF TypeOK, questionVars
    <3>5. CarriesOn'
      BY <1>1, <3>3 DEF CarriesOn
    <3>6. SawUnderLock'
      BY <1>1, <1>2, <1>3, <2>2, <3>3 DEF SawUnderLock
    <3>7. TicketIsTrue'
      BY <3>1, <3>2 DEF TicketIsTrue
    <3> QED
      BY <3>4, <3>5, <3>6, <3>7
  <2> QED
    BY <2>3, <2>4
<1> QED
  BY <1>6, <1>7, <1>8, <1>9, <1>10 DEF TicketStep

(* What has nothing to do with answers leaves the first one the first. *)
LEMMA AnswersAlone ==
  ASSUME FirstIsFirst, NamedIsAccepted, UNCHANGED <<answers, question.accepted>>,
         "bothFirst" \in excused' <=> "bothFirst" \in excused,
         \A q \in Requests :
           \/ req[q].step \notin {"answer", "point"} /\ req'[q].step \notin {"answer", "point"}
           \/ /\ req'[q].step = req[q].step /\ req'[q].first = req[q].first
              /\ req'[q].answer = req[q].answer /\ req'[q].overtaken = req[q].overtaken
  PROVE  FirstIsFirst' /\ NamedIsAccepted'
<1>1. Accepted' = Accepted
  BY DEF Accepted
<1>2. \A q \in Requests : /\ At(q, "answer")' <=> At(q, "answer")
                          /\ At(q, "point")' <=> At(q, "point")
  BY DEF At
<1>3. FirstIsFirst'
  BY <1>1, <1>2 DEF FirstIsFirst, At
<1>4. NamedIsAccepted'
  BY <1>1, <1>2 DEF NamedIsAccepted
<1> QED
  BY <1>3, <1>4

(* What has nothing to do with the ticket leaves it true. *)
LEMMA TicketAlone ==
  ASSUME SawUnderLock, TicketIsTrue, UNCHANGED ticketVars,
         excused' \ {"bothFirst"} = excused \ {"bothFirst"},
         \A q \in Requests :
           req'[q].step = "message" =>
             req[q].step = "message" /\ req'[q].saw = req[q].saw /\ (req[q].overtaken => req'[q].overtaken)
  PROVE  SawUnderLock' /\ TicketIsTrue'
<1>1. SawUnderLock'
  BY DEF SawUnderLock, At, ticketVars
<1>2. TicketIsTrue'
  BY DEF TicketIsTrue, ticketVars
<1> QED
  BY <1>1, <1>2

-----------------------------------------------------------------------------
(* Votes *)

LEMMA OneMore ==
  ASSUME NEW S, IsFiniteSet(S), NEW x, x \notin S
  PROVE  Cardinality(S \cup {x}) = Cardinality(S) + 1
BY FS_AddElement

LEMMA OneLess ==
  ASSUME NEW S, IsFiniteSet(S), NEW x \in S
  PROVE  Cardinality(S \ {x}) = Cardinality(S) - 1 /\ Cardinality(S) \in Nat /\ Cardinality(S) > 0
<1>1. Cardinality(S \ {x}) = Cardinality(S) - 1 /\ Cardinality(S) \in Nat
  BY FS_RemoveElement, FS_CardinalityType
<1>2. Cardinality(S) # 0
  BY FS_EmptySet
<1> QED
  BY <1>1, <1>2

LEMMA FiniteCounts == IsFiniteSet(Voters) /\ IsFiniteSet(Given)
BY HelpdeskAssumption, FS_Subset DEF Voters, Given

(* A vote is counted as it is created, and no more as it is deleted. *)
LEMMA VoteKept ==
  ASSUME TypeOK, CarriesOn, Counted, NEW r \in Requests, VoteStep(r)
  PROVE  /\ TypeOK' /\ CarriesOn' /\ Counted'
         /\ UNCHANGED <<ticketVars, answers, question.accepted, excused>>
         /\ req[r].step \in {"idle", "toggle"} /\ req'[r].step \in {"idle", "toggle"}
         /\ \A q \in Requests \ {r} : req'[q] = req[q]
<1> USE DEF At
<1>0. /\ req \in [Requests -> Request] /\ question \in Question
      /\ votes \in [Students -> 0..MaxVotes] /\ lastVote \in 0..MaxVotes
      /\ NoRequest \in Request /\ NoRequest.step = "idle"
  BY Types, NoRequestType
<1>1. ASSUME NEW s \in Students, ReadVote(r, s)
      PROVE  /\ req'[r] \in Request /\ req'[r].step = "toggle" /\ req'[r].by = s
             /\ req' = [req EXCEPT ![r] = req'[r]] /\ req[r].step = "idle"
             /\ UNCHANGED <<desk, ticketVars, votes, lastVote, answers, question, excused>>
  <2>1. [NoRequest EXCEPT !.step = "toggle", !.by = s, !.vote = votes[s]] \in Request
    BY <1>0 DEF Request, Steps
  <2> QED
    BY <1>0, <1>1, <2>1 DEF ReadVote, Goto, questionVars, Request
<1>2. CASE \E s \in Students : ReadVote(r, s)
  <2>1. TypeOK'
    <3>1. req' \in [Requests -> Request] /\ question' \in Question
      BY <1>0, <1>1, <1>2
    <3> QED
      BY <1>1, <1>2, <3>1, Types DEF TypeOK, ticketVars
  <2>2. CarriesOn' /\ Counted'
    BY <1>0, <1>1, <1>2 DEF CarriesOn, Counted, Voters, Given
  <2> QED
    BY <1>0, <1>1, <1>2, <2>1, <2>2
<1>3. CASE CommitVote(r)
  <2> DEFINE s == req[r].by
  <2>1. /\ req[r].step = "toggle" /\ req' = [req EXCEPT ![r] = NoRequest]
        /\ UNCHANGED <<desk, ticketVars, answers, excused>>
    BY <1>3 DEF CommitVote, Done, Goto
  <2>2. /\ req' \in [Requests -> Request] /\ req'[r].step = "idle"
        /\ \A q \in Requests \ {r} : req'[q] = req[q]
    BY <1>0, <2>1
  <2>3. s \in Students
    BY <2>1 DEF CarriesOn
  <2>4. CarriesOn'
    BY <2>2 DEF CarriesOn
  <2>5. Given' = Given
    BY <2>1 DEF Given
  <2>6. ASSUME question' \in Question, question'.accepted = question.accepted,
               votes' \in [Students -> 0..MaxVotes], lastVote' \in 0..MaxVotes,
               question'.upvotes = Cardinality(Voters'), question'.answerCount = question.answerCount
        PROVE  TypeOK' /\ Counted' /\ UNCHANGED question.accepted
    <3>1. TypeOK'
      BY <2>1, <2>2, <2>6, Types DEF TypeOK, ticketVars
    <3> QED
      BY <2>5, <2>6, <3>1 DEF Counted
  <2>7. CASE votes[s] # req[r].vote
    <3>1. UNCHANGED <<votes, lastVote, question>>
      BY <1>3, <2>7 DEF CommitVote
    <3> QED
      BY <1>0, <2>1, <2>2, <2>4, <2>6, <3>1 DEF Counted, Voters
  <2>8. CASE votes[s] = req[r].vote /\ votes[s] = 0
    <3>1. /\ lastVote < MaxVotes /\ lastVote' = lastVote + 1
          /\ votes' = [votes EXCEPT ![s] = lastVote + 1]
          /\ question' = [question EXCEPT !.upvotes = @ + 1]
      BY <1>3, <2>8 DEF CommitVote
    <3>2. votes' \in [Students -> 0..MaxVotes] /\ lastVote' \in 0..MaxVotes /\ lastVote + 1 # 0
      <4>1. lastVote + 1 \in 0..MaxVotes /\ lastVote + 1 # 0
        BY <1>0, <3>1, HelpdeskAssumption
      <4> QED
        BY <1>0, <3>1, <4>1
    <3>3. Voters' = Voters \cup {s} /\ s \notin Voters
      BY <1>0, <2>3, <2>8, <3>1, <3>2 DEF Voters
    <3>4. Cardinality(Voters') = question.upvotes + 1
      BY <3>3, FiniteCounts, OneMore DEF Counted
    <3>5. /\ question' \in Question /\ question'.upvotes = question.upvotes + 1
          /\ question'.answerCount = question.answerCount /\ question'.accepted = question.accepted
      BY <1>0, <3>1 DEF Question
    <3> QED
      BY <2>1, <2>2, <2>4, <2>6, <3>2, <3>4, <3>5
  <2>9. CASE votes[s] = req[r].vote /\ votes[s] # 0
    <3>1. /\ UNCHANGED lastVote
          /\ votes' = [votes EXCEPT ![s] = 0]
          /\ question' = [question EXCEPT !.upvotes = @ - 1]
      BY <1>3, <2>9 DEF CommitVote
    <3>2. votes' \in [Students -> 0..MaxVotes] /\ lastVote' \in 0..MaxVotes
      <4>1. 0 \in 0..MaxVotes
        BY HelpdeskAssumption
      <4> QED
        BY <1>0, <3>1, <4>1
    <3>3. Voters' = Voters \ {s} /\ s \in Voters
      BY <1>0, <2>3, <2>9, <3>1 DEF Voters
    <3>4. Cardinality(Voters') = question.upvotes - 1 /\ question.upvotes - 1 \in Nat
      <4>1. /\ Cardinality(Voters \ {s}) = Cardinality(Voters) - 1
            /\ Cardinality(Voters) \in Nat /\ Cardinality(Voters) > 0
        BY <3>3, FiniteCounts, OneLess
      <4> QED
        BY <3>3, <4>1 DEF Counted
    <3>5. /\ question' \in Question /\ question'.upvotes = question.upvotes - 1
          /\ question'.answerCount = question.answerCount /\ question'.accepted = question.accepted
      BY <1>0, <3>1, <3>4 DEF Question
    <3> QED
      BY <2>1, <2>2, <2>4, <2>6, <3>2, <3>4, <3>5
  <2> QED
    BY <2>7, <2>8, <2>9
<1> QED
  BY <1>2, <1>3 DEF VoteStep

-----------------------------------------------------------------------------
(* Answers *)

(* Reading the question: who finds no answer accepted, and nobody about to name *)
(* one, is the first.                                                           *)
LEMMA ReadKept ==
  ASSUME TypeOK, CarriesOn, FirstIsFirst, NamedIsAccepted,
         NEW r \in Requests, NEW instructor \in BOOLEAN, ReadQuestion(r, instructor)
  PROVE  /\ TypeOK' /\ CarriesOn' /\ FirstIsFirst' /\ NamedIsAccepted'
         /\ UNCHANGED <<ticketVars, questionVars, excused>>
         /\ req'[r].step = "answer" /\ \A q \in Requests \ {r} : req'[q] = req[q]
<1> USE DEF At
<1> DEFINE first == instructor /\ question.accepted = NoAnswer
           pointing == \E q \in Requests : req[q].step = "point"
           state == [NoRequest EXCEPT !.step = "answer", !.instructor = instructor, !.first = first,
                                      !.overtaken = pointing]
<1>0. req \in [Requests -> Request] /\ question \in Question /\ NoRequest \in Request
  BY Types, NoRequestType
<1>1. state \in Request /\ state.step = "answer" /\ state.first = first /\ state.overtaken = pointing
  <2>1. first \in BOOLEAN /\ pointing \in BOOLEAN
    OBVIOUS
  <2> HIDE DEF first, pointing
  <2> QED
    BY <1>0, <2>1 DEF Request, Steps
<1>2. /\ req[r].step = "idle" /\ req' = [req EXCEPT ![r] = state]
      /\ UNCHANGED <<desk, ticketVars, questionVars, excused>>
  BY DEF ReadQuestion, Goto
<1> HIDE DEF state
<1>3. /\ req' \in [Requests -> Request] /\ req'[r] = state
      /\ \A q \in Requests \ {r} : req'[q] = req[q]
  BY <1>0, <1>1, <1>2
<1>4. UNCHANGED <<votes, lastVote, answers, question>>
  BY <1>2 DEF questionVars
<1>5. TypeOK'
  BY <1>0, <1>2, <1>3, <1>4, Types DEF TypeOK, ticketVars
<1>6. CarriesOn'
  BY <1>1, <1>3 DEF CarriesOn
<1>7. Accepted' = Accepted
  BY <1>4 DEF Accepted
<1>8. NamedIsAccepted'
  BY <1>1, <1>2, <1>3, <1>4, <1>7 DEF NamedIsAccepted
<1>9. "bothFirst" \notin excused /\ ~ pointing /\ first => Accepted = {}
  BY DEF NamedIsAccepted
<1>10. FirstIsFirst'
  BY <1>1, <1>2, <1>3, <1>7, <1>9 DEF FirstIsFirst
<1> QED
  BY <1>1, <1>2, <1>3, <1>5, <1>6, <1>8, <1>10

(* Giving an answer: it is counted, and the first that is accepted is the only one. *)
LEMMA CommitKept ==
  ASSUME TypeOK, CarriesOn, Counted, FirstIsFirst, NamedIsAccepted,
         NEW r \in Requests, NEW a \in Answers, CommitAnswer(r, a)
  PROVE  /\ TypeOK' /\ CarriesOn' /\ Counted' /\ FirstIsFirst' /\ NamedIsAccepted'
         /\ UNCHANGED ticketVars /\ excused' \ {"bothFirst"} = excused \ {"bothFirst"}
         /\ req'[r].step # "message"
         /\ \A q \in Requests \ {r} :
              /\ req'[q].step = req[q].step /\ req'[q].saw = req[q].saw
              /\ req[q].overtaken => req'[q].overtaken
<1> USE DEF At
<1>0. /\ req \in [Requests -> Request] /\ question \in Question
      /\ answers \in [Answers -> {"none", "plain", "accepted"}]
      /\ excused \subseteq {"rewritten", "closedOver", "bothFirst"}
      /\ NoRequest \in Request /\ NoRequest.step = "idle"
  BY Types, NoRequestType
<1>1. /\ req[r].step = "answer" /\ answers[a] = "none"
      /\ answers' = [answers EXCEPT ![a] = IF req[r].first THEN "accepted" ELSE "plain"]
      /\ question' = [question EXCEPT !.answerCount = @ + 1, !.answered = @ \/ req[r].instructor]
      /\ excused' = IF req[r].first /\ req[r].overtaken THEN excused \cup {"bothFirst"} ELSE excused
      /\ UNCHANGED <<desk, ticketVars, votes, lastVote>>
  BY DEF CommitAnswer
<1>2. /\ question' \in Question /\ question'.answerCount = question.answerCount + 1
      /\ question'.upvotes = question.upvotes /\ question'.accepted = question.accepted
  <2>1. ASSUME NEW count \in Nat, NEW answered \in BOOLEAN,
               question' = [question EXCEPT !.answerCount = count, !.answered = answered]
        PROVE  /\ question' \in Question /\ question'.answerCount = count
               /\ question'.upvotes = question.upvotes /\ question'.accepted = question.accepted
    BY <1>0, <2>1 DEF Question
  <2>2. (question.answered \/ req[r].instructor) \in BOOLEAN /\ question.answerCount + 1 \in Nat
    BY <1>0 DEF Question
  <2> QED
    BY <1>1, <2>1, <2>2
<1>3. answers' \in [Answers -> {"none", "plain", "accepted"}]
  BY <1>0, <1>1
<1>4. Counted'
  <2>1. Given' = Given \cup {a} /\ a \notin Given
    BY <1>0, <1>1 DEF Given
  <2>2. Cardinality(Given') = question.answerCount + 1
    BY <2>1, FiniteCounts, OneMore DEF Counted
  <2>3. Voters' = Voters
    BY <1>1 DEF Voters
  <2> QED
    BY <1>2, <2>2, <2>3 DEF Counted
<1>5. CASE req[r].first
  <2>1. Answer(r, a) \in Request /\ Answer(r, a).step = "point" /\ Answer(r, a).answer = a
        /\ Answer(r, a).overtaken = req[r].overtaken
    BY <1>0 DEF Answer, Request, Steps
  <2>2. Overtake(r, Answer(r, a), {"answer", "point"})
    BY <1>5 DEF CommitAnswer
  <2>3. /\ req' \in [Requests -> Request] /\ req'[r] = Answer(r, a)
        /\ \A q \in Requests \ {r} :
             /\ req'[q].step = req[q].step /\ req'[q].by = req[q].by /\ req'[q].saw = req[q].saw
             /\ req'[q].first = req[q].first /\ req'[q].answer = req[q].answer
             /\ req[q].step \in {"answer", "point"} => req'[q].overtaken
             /\ req[q].step \notin {"answer", "point"} => req'[q].overtaken = req[q].overtaken
    BY <1>0, <2>1, <2>2, Overtaking
  <2>4. TypeOK'
    BY <1>0, <1>1, <1>2, <1>3, <2>3, Types DEF TypeOK, ticketVars
  <2>5. CarriesOn'
    BY <2>1, <2>3 DEF CarriesOn
  <2>6. Accepted' = Accepted \cup {a}
    BY <1>0, <1>1, <1>5 DEF Accepted
  <2>7. "bothFirst" \notin excused /\ ~ req[r].overtaken => Accepted = {}
    BY <1>1, <1>5 DEF FirstIsFirst
  <2>8. FirstIsFirst'
    BY <1>1, <1>5, <2>1, <2>3, <2>6, <2>7 DEF FirstIsFirst
  <2>9. NamedIsAccepted'
    BY <2>1, <2>3 DEF NamedIsAccepted
  <2> QED
    BY <1>1, <1>4, <2>1, <2>3, <2>4, <2>5, <2>8, <2>9
<1>6. CASE ~ req[r].first
  <2>1. Goto(r, NoRequest)
    BY <1>6 DEF CommitAnswer, Done
  <2>2. /\ req' \in [Requests -> Request] /\ req'[r] = NoRequest
        /\ \A q \in Requests \ {r} : req'[q] = req[q]
    BY <1>0, <2>1, Going
  <2>3. TypeOK'
    BY <1>0, <1>1, <1>2, <1>3, <1>6, <2>2, Types DEF TypeOK, ticketVars
  <2>4. CarriesOn'
    BY <1>0, <2>2 DEF CarriesOn
  <2>5. Accepted' = Accepted
    BY <1>0, <1>1, <1>6 DEF Accepted
  <2>6. FirstIsFirst'
    BY <1>0, <1>1, <1>6, <2>2, <2>5 DEF FirstIsFirst
  <2>7. NamedIsAccepted'
    BY <1>0, <1>1, <1>2, <1>6, <2>2, <2>5 DEF NamedIsAccepted
  <2> QED
    BY <1>0, <1>1, <1>4, <1>6, <2>2, <2>3, <2>4, <2>6, <2>7
<1> QED
  BY <1>5, <1>6

(* Naming an answer: it is the one that is accepted, if it still is the first. *)
LEMMA PointKept ==
  ASSUME TypeOK, CarriesOn, Counted, FirstIsFirst, NEW r \in Requests, PointToAnswer(r)
  PROVE  /\ TypeOK' /\ CarriesOn' /\ Counted' /\ FirstIsFirst' /\ NamedIsAccepted'
         /\ UNCHANGED ticketVars /\ excused' \ {"bothFirst"} = excused \ {"bothFirst"}
         /\ req'[r].step # "message"
         /\ \A q \in Requests \ {r} :
              /\ req'[q].step = req[q].step /\ req'[q].saw = req[q].saw
              /\ req[q].overtaken => req'[q].overtaken
<1> USE DEF At
<1>0. /\ req \in [Requests -> Request] /\ question \in Question
      /\ excused \subseteq {"rewritten", "closedOver", "bothFirst"}
      /\ NoRequest \in Request /\ NoRequest.step = "idle"
  BY Types, NoRequestType
<1>1. /\ req[r].step = "point" /\ question' = [question EXCEPT !.accepted = req[r].answer]
      /\ excused' = IF req[r].overtaken THEN excused \cup {"bothFirst"} ELSE excused
      /\ Overtake(r, NoRequest, {"point"})
      /\ UNCHANGED <<desk, ticketVars, votes, lastVote, answers>>
  BY DEF PointToAnswer
<1>2. req[r].answer \in Answers
  BY <1>1 DEF CarriesOn
<1>3. /\ question' \in Question /\ question'.accepted = req[r].answer
      /\ question'.upvotes = question.upvotes /\ question'.answerCount = question.answerCount
  BY <1>0, <1>1, <1>2 DEF Question
<1>4. /\ req' \in [Requests -> Request] /\ req'[r] = NoRequest
      /\ \A q \in Requests \ {r} :
           /\ req'[q].step = req[q].step /\ req'[q].by = req[q].by /\ req'[q].saw = req[q].saw
           /\ req'[q].first = req[q].first /\ req'[q].answer = req[q].answer
           /\ req[q].step = "point" => req'[q].overtaken
           /\ req[q].step # "point" => req'[q].overtaken = req[q].overtaken
  BY <1>0, <1>1, Overtaking
<1>5. TypeOK'
  BY <1>0, <1>1, <1>3, <1>4, Types DEF TypeOK, ticketVars
<1>6. CarriesOn'
  BY <1>0, <1>4 DEF CarriesOn
<1>7. Counted'
  BY <1>1, <1>3 DEF Counted, Voters, Given
<1>8. Accepted' = Accepted
  BY <1>1 DEF Accepted
<1>9. NamedIsAccepted'
  <2>1. "bothFirst" \in excused' \/ Accepted = {req[r].answer}
    BY <1>1 DEF FirstIsFirst
  <2> QED
    BY <1>2, <1>3, <1>8, <2>1, HelpdeskAssumption DEF NamedIsAccepted
<1>10. FirstIsFirst'
  BY <1>0, <1>1, <1>4, <1>8 DEF FirstIsFirst
<1> QED
  BY <1>0, <1>1, <1>4, <1>5, <1>6, <1>7, <1>9, <1>10

(* A moderator's choice is the only accepted answer, and overtakes who is about to choose. *)
LEMMA ModerateKept ==
  ASSUME TypeOK, CarriesOn, SawUnderLock, TicketIsTrue, Counted, FirstIsFirst, NamedIsAccepted, ModerateStep
  PROVE  /\ TypeOK' /\ CarriesOn' /\ SawUnderLock' /\ TicketIsTrue'
         /\ Counted' /\ FirstIsFirst' /\ NamedIsAccepted'
<1> USE DEF At
<1>0. /\ req \in [Requests -> Request] /\ question \in Question
      /\ answers \in [Answers -> {"none", "plain", "accepted"}]
      /\ excused \subseteq {"rewritten", "closedOver", "bothFirst"}
  BY Types
<1>1. CASE \E a \in Answers : AcceptAnswer(a)
  <2>1. PICK a \in Answers : AcceptAnswer(a)
    BY <1>1
  <2>2. /\ answers[a] # "none"
        /\ answers' = [b \in Answers |->
             IF b = a THEN "accepted" ELSE IF answers[b] = "accepted" THEN "plain" ELSE answers[b]]
        /\ question' = [question EXCEPT !.accepted = a, !.answered = TRUE]
        /\ req' = [q \in Requests |->
             IF req[q].step \in {"answer", "point"} THEN [req[q] EXCEPT !.overtaken = TRUE] ELSE req[q]]
        /\ excused' = excused \ {"bothFirst"}
        /\ UNCHANGED <<desk, ticketVars, votes, lastVote>>
    BY <2>1 DEF AcceptAnswer
  <2>3. /\ question' \in Question /\ question'.accepted = a
        /\ question'.upvotes = question.upvotes /\ question'.answerCount = question.answerCount
    BY <1>0, <2>2 DEF Question
  <2>4. /\ req' \in [Requests -> Request]
        /\ \A q \in Requests :
             /\ req'[q].step = req[q].step /\ req'[q].by = req[q].by /\ req'[q].saw = req[q].saw
             /\ req'[q].answer = req[q].answer
             /\ req[q].step \in {"answer", "point"} => req'[q].overtaken
             /\ req[q].step \notin {"answer", "point"} => req'[q].overtaken = req[q].overtaken
    <3>1. ASSUME NEW q \in Requests
          PROVE  [req[q] EXCEPT !.overtaken = TRUE] \in Request
      BY <1>0 DEF Request
    <3>2. req' \in [Requests -> Request]
      BY <1>0, <2>2, <3>1
    <3> QED
      BY <1>0, <2>2, <3>2 DEF Request
  <2>5. answers' \in [Answers -> {"none", "plain", "accepted"}]
    BY <1>0, <2>2
  <2>6. TypeOK'
    BY <1>0, <2>2, <2>3, <2>4, <2>5, Types DEF TypeOK, ticketVars
  <2>7. CarriesOn'
    BY <2>4 DEF CarriesOn
  <2>8. SawUnderLock' /\ TicketIsTrue'
    BY <2>2, <2>4, TicketAlone
  <2>9. Voters' = Voters /\ Given' = Given /\ Accepted' = {a}
    BY <1>0, <2>2 DEF Voters, Given, Accepted
  <2>10. Counted' /\ FirstIsFirst'
    BY <2>3, <2>4, <2>9 DEF Counted, FirstIsFirst
  <2>11. NamedIsAccepted'
    BY <2>3, <2>9, HelpdeskAssumption DEF NamedIsAccepted
  <2> QED
    BY <2>6, <2>7, <2>8, <2>10, <2>11
<1>2. CASE \E answered \in BOOLEAN : MarkAnswered(answered)
  <2>1. /\ question' \in Question /\ question'.accepted = question.accepted
        /\ question'.upvotes = question.upvotes /\ question'.answerCount = question.answerCount
        /\ UNCHANGED <<desk, ticketVars, votes, lastVote, answers, req, excused>>
    BY <1>0, <1>2 DEF MarkAnswered, Question
  <2>2. TypeOK'
    BY <1>0, <2>1, Types DEF TypeOK, ticketVars
  <2>3. CarriesOn' /\ Counted'
    BY <2>1 DEF CarriesOn, Counted, Voters, Given
  <2>4. SawUnderLock' /\ TicketIsTrue'
    BY <2>1, TicketAlone
  <2>5. FirstIsFirst' /\ NamedIsAccepted'
    BY <2>1, AnswersAlone
  <2> QED
    BY <2>2, <2>3, <2>4, <2>5
<1> QED
  BY <1>1, <1>2 DEF ModerateStep

-----------------------------------------------------------------------------
(* The invariant *)

LEMMA InvariantStep == IInv /\ [Next]_vars => IInv'
<1> SUFFICES ASSUME IInv, [Next]_vars PROVE IInv'
  OBVIOUS
<1>1. CASE UNCHANGED vars
  <2>1. TypeOK'
    BY <1>1 DEF IInv, TypeOK, vars
  <2> QED
    BY <1>1, <2>1
       DEF IInv, vars, CarriesOn, SawUnderLock, TicketIsTrue, Counted, Voters, Given, FirstIsFirst,
           NamedIsAccepted, Accepted, At
<1>2. ASSUME NEW r \in Requests, TicketStep(r)
      PROVE  IInv'
  <2>1. TypeOK' /\ CarriesOn' /\ SawUnderLock' /\ TicketIsTrue'
    BY <1>2, TicketKept DEF IInv
  <2>2. Counted'
    <3>1. UNCHANGED <<votes, answers, question>>
      BY <1>2, TicketRequests DEF IInv, questionVars
    <3> QED
      BY <3>1 DEF IInv, Counted, Voters, Given
  <2>3. FirstIsFirst' /\ NamedIsAccepted'
    <3>1. \A q \in Requests :
            \/ req[q].step \notin {"answer", "point"} /\ req'[q].step \notin {"answer", "point"}
            \/ /\ req'[q].step = req[q].step /\ req'[q].first = req[q].first
               /\ req'[q].answer = req[q].answer /\ req'[q].overtaken = req[q].overtaken
      BY <1>2, TicketRequests DEF IInv
    <3>2. UNCHANGED <<answers, question.accepted>> /\ ("bothFirst" \in excused' <=> "bothFirst" \in excused)
      BY <1>2, TicketRequests DEF IInv, questionVars
    <3> QED
      BY <3>1, <3>2, AnswersAlone DEF IInv
  <2> QED
    BY <2>1, <2>2, <2>3 DEF IInv
<1>3. ASSUME NEW r \in Requests, VoteStep(r)
      PROVE  IInv'
  <2>1. /\ TypeOK' /\ CarriesOn' /\ Counted'
        /\ UNCHANGED <<ticketVars, answers, question.accepted, excused>>
        /\ req[r].step \in {"idle", "toggle"} /\ req'[r].step \in {"idle", "toggle"}
        /\ \A q \in Requests \ {r} : req'[q] = req[q]
    BY <1>3, VoteKept DEF IInv
  <2>2. SawUnderLock' /\ TicketIsTrue'
    BY <2>1, TicketAlone DEF IInv
  <2>3. FirstIsFirst' /\ NamedIsAccepted'
    BY <2>1, AnswersAlone DEF IInv
  <2> QED
    BY <2>1, <2>2, <2>3 DEF IInv
<1>4. ASSUME NEW r \in Requests, AnswerStep(r)
      PROVE  IInv'
  <2>1. CASE \E instructor \in BOOLEAN : ReadQuestion(r, instructor)
    <3>1. /\ TypeOK' /\ CarriesOn' /\ FirstIsFirst' /\ NamedIsAccepted'
          /\ UNCHANGED <<ticketVars, questionVars, excused>>
          /\ req'[r].step = "answer" /\ \A q \in Requests \ {r} : req'[q] = req[q]
      BY <2>1, ReadKept DEF IInv
    <3>2. SawUnderLock' /\ TicketIsTrue'
      BY <3>1, TicketAlone DEF IInv
    <3>3. Counted'
      BY <3>1 DEF IInv, Counted, Voters, Given, questionVars
    <3> QED
      BY <3>1, <3>2, <3>3 DEF IInv
  <2>2. CASE (\E a \in Answers : CommitAnswer(r, a)) \/ PointToAnswer(r)
    <3>1. /\ TypeOK' /\ CarriesOn' /\ Counted' /\ FirstIsFirst' /\ NamedIsAccepted'
          /\ UNCHANGED ticketVars /\ excused' \ {"bothFirst"} = excused \ {"bothFirst"}
          /\ req'[r].step # "message"
          /\ \A q \in Requests \ {r} :
               /\ req'[q].step = req[q].step /\ req'[q].saw = req[q].saw
               /\ req[q].overtaken => req'[q].overtaken
      BY <2>2, CommitKept, PointKept DEF IInv
    <3>2. SawUnderLock' /\ TicketIsTrue'
      BY <3>1, TicketAlone DEF IInv
    <3> QED
      BY <3>1, <3>2 DEF IInv
  <2> QED
    BY <1>4, <2>1, <2>2 DEF AnswerStep
<1>5. CASE ModerateStep
  BY <1>5, ModerateKept DEF IInv
<1> QED
  BY <1>1, <1>2, <1>3, <1>4, <1>5, StepCases

-----------------------------------------------------------------------------
(* Theorems *)

(* The invariant holds in every state the service can reach. *)
THEOREM Invariant == Spec => []IInv
BY InitIInv, InvariantStep, PTL DEF Spec

(* Rows and requests are of their types; the conversation's lock has one holder. *)
THEOREM TypeCorrect == Spec => []TypeOK
<1>1. IInv => TypeOK
  BY DEF IInv
<1> QED
  BY <1>1, Invariant, PTL

(* A ticket says what became of it (applyTicketOnMessage, updateTicket), with *)
(* any number of customers' and agents' requests overlapping.                 *)
THEOREM TicketStaysTrue == Spec => []TicketIsTrue
<1>1. IInv => TicketIsTrue
  BY DEF IInv
<1> QED
  BY <1>1, Invariant, PTL

(* The counters of a question are those of its rows (toggleUpvote, answerQuestion), *)
(* and its accepted answer is the one that is marked so.                            *)
THEOREM QuestionStaysTrue == Spec => []QuestionIsTrue
<1>1. IInv => QuestionIsTrue
  BY DEF IInv, QuestionIsTrue, Counted, NamedIsAccepted, Voters, Given, Accepted
<1> QED
  BY <1>1, Invariant, PTL
=============================================================================
