------------------------------ MODULE Helpdesk ------------------------------
(***************************************************************************)
(* Where people ask for help: a support ticket                             *)
(* (src/src/server/chat/support.ts) and a question under a lesson          *)
(* (src/src/server/chat/qa.ts).  The two share no state, so a behaviour is *)
(* about one of them, desk says which.                                     *)
(*                                                                         *)
(* Requests of customers, staff, students and instructors overlap; each    *)
(* goes from one awaited query to the next.  A transaction is one step but *)
(* for the one that saves a support message: it locks the conversation and *)
(* reads the ticket, and updates the ticket in a second step, while        *)
(* updateTicket goes on without that lock.  Roles are checked before, and  *)
(* priorities, subjects and notifications left out.                        *)
(***************************************************************************)
EXTENDS Naturals, FiniteSets

CONSTANTS
  Requests,   \* requests running at once
  Staff,      \* support agents
  NoOne,      \* no assignee
  Students,   \* those who vote on the question
  MaxVotes,   \* bound on the vote rows ever created
  Answers,    \* identities of the question's answers: a bound on those given
  NoAnswer    \* acceptedAnswerId is null

ASSUME HelpdeskAssumption ==
  /\ NoOne \notin Staff /\ NoAnswer \notin Answers
  /\ MaxVotes \in Nat /\ IsFiniteSet(Students) /\ IsFiniteSet(Answers)

VARIABLES
  desk,      \* what the requests are about
  ticket,    \* the SupportTicket row
  lock,      \* the requests that hold the conversation's row lock: at most one
  votes,     \* the vote row of each student, 0 for none
  lastVote,  \* the last vote row created
  answers,   \* the answers given, and whether they are accepted
  question,  \* the LessonQuestion row
  req,       \* what each request is doing
  waiting,   \* history: is there a customer message nobody has replied to or closed the ticket over?
  excused    \* history: races that have spoiled the ticket or the question, see Init

vars == <<desk, ticket, lock, votes, lastVote, answers, question, req, waiting, excused>>
ticketVars == <<ticket, lock, waiting>>
questionVars == <<votes, lastVote, answers, question>>

-----------------------------------------------------------------------------
(* Data *)

Statuses == {"OPEN", "PENDING", "RESOLVED", "CLOSED"}
Closed(status) == status \in {"RESOLVED", "CLOSED"}
Ticket == [status: Statuses, assignee: Staff \cup {NoOne}, responded: BOOLEAN,
           asked: BOOLEAN, resolvedAt: BOOLEAN]
NewTicket == [status |-> "OPEN", assignee |-> NoOne, responded |-> FALSE,
              asked |-> FALSE, resolvedAt |-> FALSE]
NoRequest == [step |-> "idle", by |-> NoOne, saw |-> NewTicket, vote |-> 0, instructor |-> FALSE,
              first |-> FALSE, answer |-> NoAnswer, overtaken |-> FALSE]
Steps == {"idle", "message", "update", "toggle", "answer", "point"}

TypeOK ==
  /\ desk \in {"ticket", "question"}
  /\ ticket \in Ticket
  /\ lock \subseteq Requests /\ Cardinality(lock) <= 1
  /\ votes \in [Students -> 0..MaxVotes] /\ lastVote \in 0..MaxVotes
  /\ answers \in [Answers -> {"none", "plain", "accepted"}]
  /\ question \in [upvotes: Nat, answerCount: Nat, accepted: Answers \cup {NoAnswer}, answered: BOOLEAN]
  /\ req \in [Requests -> [step: Steps, by: Staff \cup Students \cup {NoOne}, saw: Ticket,
                           vote: 0..MaxVotes, instructor: BOOLEAN, first: BOOLEAN,
                           answer: Answers \cup {NoAnswer}, overtaken: BOOLEAN]]
  /\ waiting \in BOOLEAN
  /\ excused \subseteq {"rewritten", "closedOver", "bothFirst"}

(* "rewritten": a reply has written back a status that updateTicket had changed.  *)
(* "closedOver": the ticket was closed by someone who had read it before the      *)
(* customer's last message.  "bothFirst": an answer that had read that none was   *)
(* accepted was given or pointed to after another had been.                       *)
Init ==
  /\ desk \in {"ticket", "question"}
  /\ ticket = NewTicket /\ lock = {}
  /\ votes = [s \in Students |-> 0] /\ lastVote = 0
  /\ answers = [a \in Answers |-> "none"]
  /\ question = [upvotes |-> 0, answerCount |-> 0, accepted |-> NoAnswer, answered |-> FALSE]
  /\ req = [r \in Requests |-> NoRequest]
  /\ waiting = FALSE
  /\ excused = {}

At(r, step) == req[r].step = step
Goto(r, state) == req' = [req EXCEPT ![r] = state]
Done(r) == Goto(r, NoRequest)

(* r moves on to state, having overtaken the requests at one of these steps. *)
Overtake(r, state, steps) ==
  req' = [q \in Requests |->
    IF q = r THEN state ELSE IF req[q].step \in steps THEN [req[q] EXCEPT !.overtaken = TRUE] ELSE req[q]]

-----------------------------------------------------------------------------
(* The ticket *)

(* sendChatMessage locks the conversation; applyTicketOnMessage reads the ticket, *)
(* with NoOne for the customer, who may write again whatever its status,          *)
ReadTicketForMessage(r, by) ==
  /\ desk = "ticket" /\ At(r, "idle") /\ lock = {}
  /\ lock' = {r}
  /\ Goto(r, [NoRequest EXCEPT !.step = "message", !.by = by, !.saw = ticket])
  /\ UNCHANGED <<desk, ticket, questionVars, waiting, excused>>

ApplyCustomerReply(r) ==
  /\ At(r, "message") /\ req[r].by = NoOne
  /\ ticket' = [ticket EXCEPT !.asked = TRUE,
       !.status = IF req[r].saw.status = "PENDING" THEN "OPEN" ELSE req[r].saw.status]
  /\ lock' = {}
  /\ waiting' = TRUE
  /\ excused' = excused \ {"rewritten", "closedOver"}
  /\ Overtake(r, NoRequest, {"update"})
  /\ UNCHANGED <<desk, questionVars>>

(* and from the customer opens it; a reopened ticket loses its assignee; *)
ApplyCustomerMessage(r) ==
  /\ At(r, "message") /\ req[r].by = NoOne
  /\ LET opened == [ticket EXCEPT !.status = "OPEN", !.asked = TRUE, !.resolvedAt = FALSE]
         reopened == req[r].saw.asked /\ Closed(req[r].saw.status)
     IN ticket' = IF reopened THEN [opened EXCEPT !.assignee = NoOne, !.responded = FALSE] ELSE opened
  /\ lock' = {}
  /\ waiting' = TRUE
  /\ excused' = excused \ {"rewritten", "closedOver"}
  /\ Overtake(r, NoRequest, {"update"})
  /\ UNCHANGED <<desk, questionVars>>

(* from staff, makes an open ticket wait for the customer, assigns it unless it *)
(* was assigned, and writes status and assignee back as it has read them.       *)
ApplyStaffMessage(r) ==
  /\ At(r, "message") /\ req[r].by # NoOne
  /\ ticket' = [ticket EXCEPT
       !.status = IF req[r].saw.status = "OPEN" THEN "PENDING" ELSE req[r].saw.status,
       !.responded = TRUE,
       !.assignee = IF req[r].saw.assignee = NoOne THEN req[r].by ELSE req[r].saw.assignee]
  /\ lock' = {}
  /\ waiting' = FALSE
  /\ excused' = (excused \ {"closedOver"}) \cup (IF req[r].overtaken THEN {"rewritten"} ELSE {})
  /\ Done(r)
  /\ UNCHANGED <<desk, questionVars>>

(* updateTicket reads the ticket, *)
ReadTicketForUpdate(r, by) ==
  /\ desk = "ticket" /\ At(r, "idle")
  /\ Goto(r, [NoRequest EXCEPT !.step = "update", !.by = by, !.saw = ticket])
  /\ UNCHANGED <<desk, ticketVars, questionVars, excused>>

(* and writes the assignee, and the status with resolvedAt if it differs from the *)
(* one it has read, whatever the ticket is by now; an input without an assignee   *)
(* writes the one there is.                                                       *)
UpdateTicket(r, status, assignee) ==
  /\ At(r, "update")
  /\ IF status = req[r].saw.status
     THEN /\ ticket' = [ticket EXCEPT !.assignee = assignee]
          /\ Done(r)
          /\ UNCHANGED <<waiting, excused>>
     ELSE /\ ticket' = [ticket EXCEPT !.assignee = assignee, !.status = status, !.resolvedAt = Closed(status)]
          /\ waiting' = (waiting /\ (req[r].overtaken \/ ~ Closed(status)))
          /\ excused' = (excused \ {"rewritten", "closedOver"})
               \cup (IF Closed(status) /\ req[r].overtaken THEN {"closedOver"} ELSE {})
          /\ Overtake(r, NoRequest, {"message"})
  /\ UNCHANGED <<desk, lock, questionVars>>

-----------------------------------------------------------------------------
(* The question *)

(* toggleUpvote reads the student's vote, *)
ReadVote(r, s) ==
  /\ desk = "question" /\ At(r, "idle")
  /\ Goto(r, [NoRequest EXCEPT !.step = "toggle", !.by = s, !.vote = votes[s]])
  /\ UNCHANGED <<desk, ticketVars, questionVars, excused>>

CommitVoteUnchecked(r) ==
  /\ At(r, "toggle")
  /\ lastVote < MaxVotes
  /\ lastVote' = lastVote + 1
  /\ LET s == req[r].by IN
       IF req[r].vote = 0
       THEN /\ votes' = [votes EXCEPT ![s] = lastVote + 1]
            /\ question' = [question EXCEPT !.upvotes = @ + 1]
       ELSE /\ votes' = [votes EXCEPT ![s] = 0]
            /\ question' = [question EXCEPT !.upvotes = @ - 1]
  /\ Done(r)
  /\ UNCHANGED <<desk, ticketVars, answers, excused>>

(* and creates or deletes it together with the count; the transaction fails when *)
(* another request of the student has created one, or deleted that row.          *)
CommitVote(r) ==
  /\ At(r, "toggle")
  /\ LET s == req[r].by IN
       IF votes[s] # req[r].vote
       THEN UNCHANGED <<votes, lastVote, question>>
       ELSE IF votes[s] = 0
       THEN /\ lastVote < MaxVotes
            /\ lastVote' = lastVote + 1
            /\ votes' = [votes EXCEPT ![s] = lastVote + 1]
            /\ question' = [question EXCEPT !.upvotes = @ + 1]
       ELSE /\ votes' = [votes EXCEPT ![s] = 0]
            /\ question' = [question EXCEPT !.upvotes = @ - 1]
            /\ UNCHANGED lastVote
  /\ Done(r)
  /\ UNCHANGED <<desk, ticketVars, answers, excused>>

(* answerQuestion reads the question: an instructor's answer is accepted when it *)
(* finds that none is;                                                           *)
ReadQuestion(r, instructor) ==
  /\ desk = "question" /\ At(r, "idle")
  /\ Goto(r, [NoRequest EXCEPT !.step = "answer", !.instructor = instructor,
                               !.first = instructor /\ question.accepted = NoAnswer,
                               !.overtaken = \E q \in Requests : At(q, "point")])
  /\ UNCHANGED <<desk, ticketVars, questionVars, excused>>

Answer(r, a) == [req[r] EXCEPT !.step = "point", !.answer = a]

(* the answer and the count are written together, *)
CommitAnswer(r, a) ==
  /\ At(r, "answer") /\ answers[a] = "none"
  /\ answers' = [answers EXCEPT ![a] = IF req[r].first THEN "accepted" ELSE "plain"]
  /\ question' = [question EXCEPT !.answerCount = @ + 1, !.answered = @ \/ req[r].instructor]
  /\ IF req[r].first THEN Overtake(r, Answer(r, a), {"answer", "point"}) ELSE Done(r)
  /\ excused' = IF req[r].first /\ req[r].overtaken THEN excused \cup {"bothFirst"} ELSE excused
  /\ UNCHANGED <<desk, ticketVars, votes, lastVote>>

(* and a first accepted one is then made the question's. *)
PointToAnswer(r) ==
  /\ At(r, "point")
  /\ question' = [question EXCEPT !.accepted = req[r].answer]
  /\ excused' = IF req[r].overtaken THEN excused \cup {"bothFirst"} ELSE excused
  /\ Overtake(r, NoRequest, {"point"})
  /\ UNCHANGED <<desk, ticketVars, votes, lastVote, answers>>

(* moderateQuestion: an answer is accepted instead of any other, *)
AcceptAnswer(a) ==
  /\ desk = "question" /\ answers[a] # "none"
  /\ answers' = [b \in Answers |->
       IF b = a THEN "accepted" ELSE IF answers[b] = "accepted" THEN "plain" ELSE answers[b]]
  /\ question' = [question EXCEPT !.accepted = a, !.answered = TRUE]
  /\ req' = [q \in Requests |->
       IF req[q].step \in {"answer", "point"} THEN [req[q] EXCEPT !.overtaken = TRUE] ELSE req[q]]
  /\ excused' = excused \ {"bothFirst"}
  /\ UNCHANGED <<desk, ticketVars, votes, lastVote>>

(* or the question is marked as answered or not. *)
MarkAnswered(answered) ==
  /\ desk = "question"
  /\ question' = [question EXCEPT !.answered = answered]
  /\ UNCHANGED <<desk, ticketVars, votes, lastVote, answers, req, excused>>

Next ==
  \/ \E r \in Requests :
       \/ \E s \in Staff : ReadTicketForUpdate(r, s) \/ ReadTicketForMessage(r, s)
       \/ ReadTicketForMessage(r, NoOne)
       \/ ApplyCustomerMessage(r) \/ ApplyStaffMessage(r)
       \/ \E status \in Statuses, assignee \in Staff \cup {NoOne} : UpdateTicket(r, status, assignee)
       \/ \E s \in Students : ReadVote(r, s)
       \/ \E instructor \in BOOLEAN : ReadQuestion(r, instructor)
       \/ \E a \in Answers : CommitAnswer(r, a)
       \/ CommitVote(r) \/ PointToAnswer(r)
  \/ \E a \in Answers : AcceptAnswer(a)
  \/ \E answered \in BOOLEAN : MarkAnswered(answered)

Spec == Init /\ [][Next]_vars

-----------------------------------------------------------------------------
(* Properties *)

(* A ticket says what became of it.  It has a time of resolution exactly when it  *)
(* is resolved or closed, unless a reply has written an old status back; and no   *)
(* message of the customer lies in a closed ticket, which the queue of open work  *)
(* leaves out, unless whoever closed it had read it before the message.           *)
TicketIsTrue ==
  /\ (ticket.resolvedAt <=> Closed(ticket.status)) \/ "rewritten" \in excused
  /\ Closed(ticket.status) /\ waiting => "closedOver" \in excused

(* The numbers a question carries are those of its rows however clicks overlap,   *)
(* and the accepted answer it names is the one that is marked so, once it is      *)
(* named, unless two answers were both the first.                                 *)
QuestionIsTrue ==
  /\ question.upvotes = Cardinality({s \in Students : votes[s] # 0})
  /\ question.answerCount = Cardinality({a \in Answers : answers[a] # "none"})
  /\ \/ {a \in Answers : answers[a] = "accepted"} = {question.accepted} \ {NoAnswer}
     \/ \E r \in Requests : At(r, "point")
     \/ "bothFirst" \in excused
=============================================================================
