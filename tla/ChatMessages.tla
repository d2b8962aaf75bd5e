---------------------------- MODULE ChatMessages ----------------------------
(***************************************************************************)
(* One conversation on the server: sendChatMessage and markChatRead of     *)
(* src/src/server/chat/messages.ts, as the socket server, the REST routes  *)
(* and any number of processes run them at once.                           *)
(*                                                                         *)
(* A request moves from one awaited query to the next; a prisma            *)
(* transaction or statement is one step. The transaction of a send locks   *)
(* the conversation row it increments, so that sends commit one by one.    *)
(* A message is its clientMsgId: what it says, replies, reactions and the  *)
(* support ticket are left out.                                            *)
(***************************************************************************)
EXTENDS Integers, FiniteSets, Sequences

CONSTANTS
  Messages,   \* the messages clients send, each under its clientMsgId
  Users,
  Sender,     \* who sends each message
  Earlier,    \* the messages sent before, in order
  Workers,    \* requests running at once
  MaxTries,   \* bound on the times a message is sent
  MaxFaults,  \* bound on what goes wrong
  NoMessage, NoUser

ASSUME ChatAssumption ==
  /\ Sender \in [Messages -> Users]
  /\ Earlier \in Seq(Messages)
  /\ \A i, j \in 1..Len(Earlier) : Earlier[i] = Earlier[j] => i = j
  /\ MaxTries \in Nat \ {0} /\ MaxFaults \in Nat
  /\ NoMessage \notin Messages /\ NoUser \notin Users
  /\ IsFiniteSet(Messages)

VARIABLES
  lastSeq,    \* Conversation.lastSeq
  rows,       \* Message rows
  mark,       \* ConversationParticipant.lastReadSeq of each user
  req,        \* what each request is doing
  tries,      \* how many times each message was sent
  faults      \* what has gone wrong so far

chatVars == <<lastSeq, rows, mark, req, tries, faults>>

-----------------------------------------------------------------------------
(* Data *)

NoRow == -1   \* no ConversationParticipant row: who never posted or read
Steps == {"idle", "findSent", "transaction", "findRaced", "announce",
          "readSeq", "setMark", "createMark"}
Request == [step: Steps, msg: Messages \cup {NoMessage}, user: Users \cup {NoUser}, seq: Nat]

Idle == [step |-> "idle", msg |-> NoMessage, user |-> NoUser, seq |-> 0]

TypeOK ==
  /\ lastSeq \in Nat
  /\ rows \subseteq [seq: 1..lastSeq, msg: Messages]
  /\ mark \in [Users -> {NoRow} \cup 0..lastSeq]
  /\ req \in [Workers -> Request]
  /\ tries \in [Messages -> 0..MaxTries]
  /\ faults \in 0..MaxFaults

-----------------------------------------------------------------------------
(* Helpers *)

At(w, step) == req[w].step = step
Goto(w, step) == req' = [req EXCEPT ![w].step = step]
Done(w) == req' = [req EXCEPT ![w] = Idle]
Fault == faults < MaxFaults /\ faults' = faults + 1

Sent(m) == \E r \in rows : r.msg = m
Saved == {m \in Messages : Sent(m)}
SeqOf(m) == (CHOOSE r \in rows : r.msg = m).seq

(* Who sent an earlier message has read up to it. *)
Init ==
  /\ lastSeq = Len(Earlier)
  /\ rows = {[seq |-> i, msg |-> Earlier[i]] : i \in 1..Len(Earlier)}
  /\ mark \in [Users -> {NoRow} \cup 0..Len(Earlier)]
  /\ \A i \in 1..Len(Earlier) : mark[Sender[Earlier[i]]] >= i
  /\ req = [w \in Workers |-> Idle]
  /\ tries = [m \in Messages |-> IF Sent(m) THEN MaxTries ELSE 0]
  /\ faults = 0

-----------------------------------------------------------------------------
(* sendChatMessage *)

(* A send, or a retry of one, reaches the server. *)
StartSend(w, m) ==
  /\ At(w, "idle")
  /\ tries[m] < MaxTries
  /\ req' = [req EXCEPT ![w] = [Idle EXCEPT !.step = "findSent", !.msg = m]]
  /\ tries' = [tries EXCEPT ![m] = @ + 1]
  /\ UNCHANGED <<lastSeq, rows, mark, faults>>

(* A message that was saved before is answered from its row. *)
FindSent(w) ==
  /\ At(w, "findSent")
  /\ Sent(req[w].msg)
  /\ Done(w)
  /\ UNCHANGED <<lastSeq, rows, mark, tries, faults>>

FindNothing(w) ==
  /\ At(w, "findSent")
  /\ ~ Sent(req[w].msg)
  /\ Goto(w, "transaction")
  /\ UNCHANGED <<lastSeq, rows, mark, tries, faults>>

(* The increment, the row and the sender's own position, together. *)
Transaction(w) ==
  LET m == req[w].msg
      seq == lastSeq + 1
  IN
  /\ At(w, "transaction")
  /\ ~ Sent(m)
  /\ lastSeq' = seq
  /\ rows' = rows \cup {[seq |-> seq, msg |-> m]}
  /\ mark' = [mark EXCEPT ![Sender[m]] = seq]
  /\ Goto(w, "announce")
  /\ UNCHANGED <<tries, faults>>

(* Another copy of this send was saved first: the unique index rolls the   *)
(* transaction back, the increment included.                               *)
Conflict(w) ==
  /\ At(w, "transaction")
  /\ Sent(req[w].msg)
  /\ Goto(w, "findRaced")
  /\ UNCHANGED <<lastSeq, rows, mark, tries, faults>>

FindRaced(w) ==
  /\ At(w, "findRaced")
  /\ Done(w)
  /\ UNCHANGED <<lastSeq, rows, mark, tries, faults>>

(* The members are read; the room is told, and the sender answered. *)
Announce(w) ==
  /\ At(w, "announce")
  /\ Done(w)
  /\ UNCHANGED <<lastSeq, rows, mark, tries, faults>>

-----------------------------------------------------------------------------
(* markChatRead *)

(* A client reports how far it has read; a REST call without a seq asks    *)
(* for the newest, which is what any number past the end stands for.       *)
StartRead(w, u, seq) ==
  /\ At(w, "idle")
  /\ req' = [req EXCEPT ![w] = [Idle EXCEPT !.step = "readSeq", !.user = u, !.seq = seq]]
  /\ UNCHANGED <<lastSeq, rows, mark, tries, faults>>

ReadSeqUnclamped(w) ==
  /\ At(w, "readSeq")
  /\ Goto(w, "setMark")
  /\ UNCHANGED <<lastSeq, rows, mark, tries, faults>>

ReadSeq(w) ==
  /\ At(w, "readSeq")
  /\ req' = [req EXCEPT ![w].step = "setMark",
                        ![w].seq = IF @ <= lastSeq THEN @ ELSE lastSeq]
  /\ UNCHANGED <<lastSeq, rows, mark, tries, faults>>

SetMarkUnconditionally(w) ==
  LET u == req[w].user IN
  /\ At(w, "setMark")
  /\ IF mark[u] # NoRow
     THEN mark' = [mark EXCEPT ![u] = req[w].seq] /\ Done(w)
     ELSE Goto(w, "createMark") /\ UNCHANGED mark
  /\ UNCHANGED <<lastSeq, rows, tries, faults>>

(* updateMany where lastReadSeq < target *)
SetMark(w) ==
  LET u == req[w].user IN
  /\ At(w, "setMark")
  /\ IF mark[u] # NoRow /\ mark[u] < req[w].seq
     THEN mark' = [mark EXCEPT ![u] = req[w].seq] /\ Done(w)
     ELSE Goto(w, "createMark") /\ UNCHANGED mark
  /\ UNCHANGED <<lastSeq, rows, tries, faults>>

(* Nothing was updated: an upsert that changes no existing row. *)
CreateMark(w) ==
  LET u == req[w].user IN
  /\ At(w, "createMark")
  /\ mark' = IF mark[u] = NoRow THEN [mark EXCEPT ![u] = req[w].seq] ELSE mark
  /\ Done(w)
  /\ UNCHANGED <<lastSeq, rows, tries, faults>>

(* A query throws: the request ends with an error, after a commit too. *)
Throw(w) ==
  /\ ~ At(w, "idle")
  /\ Fault
  /\ Done(w)
  /\ UNCHANGED <<lastSeq, rows, mark, tries>>

-----------------------------------------------------------------------------

Send(w) ==
  \/ FindSent(w) \/ FindNothing(w) \/ Transaction(w) \/ Conflict(w)
  \/ FindRaced(w) \/ Announce(w)

Read(w) == ReadSeq(w) \/ SetMark(w) \/ CreateMark(w)

Next ==
  \E w \in Workers :
    \/ \E m \in Messages : StartSend(w, m)
    \/ \E u \in Users, seq \in 1..Cardinality(Messages) : StartRead(w, u, seq)
    \/ Send(w) \/ Read(w) \/ Throw(w)

Spec == Init /\ [][Next]_chatVars

-----------------------------------------------------------------------------
(* Properties *)

Abstract == INSTANCE ChatLog WITH
  log <- [i \in 1..lastSeq |-> (CHOOSE r \in rows : r.seq = i).msg],
  position <- [u \in Users |-> IF mark[u] = NoRow THEN 0 ELSE mark[u]]

(* "concurrent senders queue up and get consecutive numbers", "a retry of  *)
(* a send that already landed returns the saved message rather than        *)
(* posting it twice" (sendChatMessage) and "a late 'read up to 4' can't    *)
(* undo a 'read up to 9' from another tab" (markChatRead): however copies  *)
(* of sends and reads interleave, the rows are a log with read positions.  *)
ImplementsLog == Abstract!Spec

=============================================================================
