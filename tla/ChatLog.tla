------------------------------- MODULE ChatLog -------------------------------
(***************************************************************************)
(* What server/chat/messages.ts promises of one conversation: a log in     *)
(* which every message a client names appears at most once, at the next    *)
(* number, and for each user a read position that only moves forward and   *)
(* never past the log.                                                     *)
(***************************************************************************)
EXTENDS Naturals, Sequences

CONSTANTS
  Messages,   \* the messages clients send, each under its clientMsgId
  Users,
  Sender,     \* who sends each message
  Earlier     \* the messages sent before

VARIABLES
  log,        \* the messages, in seq order
  position    \* lastReadSeq of each user

Init == log = Earlier /\ position \in [Users -> 0..Len(Earlier)]

Logged(m) == \E i \in 1..Len(log) : log[i] = m

(* A message takes the next number, and its sender has read up to it. *)
Post(m) ==
  /\ ~ Logged(m)
  /\ log' = Append(log, m)
  /\ position' = [position EXCEPT ![Sender[m]] = Len(log) + 1]

Read(u, seq) ==
  /\ position[u] < seq /\ seq <= Len(log)
  /\ position' = [position EXCEPT ![u] = seq]
  /\ UNCHANGED log

Next ==
  \/ \E m \in Messages : Post(m)
  \/ \E u \in Users, seq \in 1..Len(log) : Read(u, seq)

Spec == Init /\ [][Next]_<<log, position>>
=============================================================================
