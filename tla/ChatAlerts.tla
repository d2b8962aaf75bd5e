----------------------------- MODULE ChatAlerts -----------------------------
(***************************************************************************)
(* What tells one user that a conversation has new messages: the           *)
(* notifications that collapse per conversation (notify.ts), the user who  *)
(* reads the chat or dismisses a notification (messages.ts,                *)
(* notification-service.ts), and the worker's scan that pushes what stays  *)
(* unread (jobs.ts).  The user has the conversation on screen or not as    *)
(* Presence has it; the keys are read here, never written.                 *)
(*                                                                         *)
(* Messages come from several senders, and each goes through the steps of  *)
(* message:send on its own.  A query, or a call to Redis or to the push    *)
(* service, is one step.  The user wants notifications and pushes, and has *)
(* not muted the conversation.                                             *)
(***************************************************************************)
EXTENDS Presence, Naturals

CONSTANTS
  MaxLoad,      \* bound on the messages sent and the user's tabs together
  Readers,      \* calls of markChatRead that may be under way at once, from one tab or several
  Scans,        \* scans of the worker that may be under way at once
  Mortal        \* those that may stop half-way for good: their worker dies, a query throws

ASSUME AlertsAssumption == IsFiniteSet(Tabs) /\ MaxLoad \in Nat /\ Mortal \subseteq Scans

VARIABLES
  lastSeq,    \* Conversation.lastSeq: messages are numbered 1..lastSeq
  lastRead,   \* the user's lastReadSeq
  send,       \* how far the notification of each message has come
  rows,       \* Notification rows with the conversation's group key
  reader,     \* the calls of markChatRead under way
  scan,       \* the worker's push scans
  pushes,     \* history: how often each row was pushed
  excused     \* history: messages and rows for which the promises below are off, see AlertsInit

alertVars == <<lastSeq, lastRead, send, rows, reader, scan, pushes, excused>>
allVars == <<presenceVars, alertVars>>

-----------------------------------------------------------------------------
(* Data *)

Messages == 1..MaxLoad
Rows == Messages    \* every message creates at most one
NoneFound == 0
SendSteps == {"none", "saved", "find", "write", "skipped", "done"}
ReadSteps == {"idle", "advance", "reread", "mark"}
ScanSteps == {"idle", "viewing", "push", "mark"}

(* due: its unread streak (since) began a minute ago or more; at: its place in   *)
(* the order of createdAt, the time at which the writeOne that wrote it last had *)
(* begun; covers (history): the messages it tells of.                            *)
Blank == [status |-> "NONE", count |-> 0, due |-> FALSE, pushed |-> FALSE, at |-> 0, covers |-> {}]
NotReading == [step |-> "idle", seen |-> 0, target |-> 0]
NotScanning == [step |-> "idle", batch |-> {}, wanted |-> {}]

AlertsTypeOK ==
  /\ PresenceTypeOK
  /\ lastSeq \in 0..MaxLoad /\ lastRead \in 0..lastSeq
  /\ send \in [Messages -> [step: SendSteps, at: 0..MaxLoad, row: Rows \cup {NoneFound}, count: 0..MaxLoad]]
  /\ rows \in [Rows -> [status: {"NONE", "UNREAD", "READ"}, count: 0..MaxLoad, due: BOOLEAN,
                        pushed: BOOLEAN, at: 0..MaxLoad, covers: SUBSET Messages]]
  /\ reader \in [Readers -> [step: ReadSteps, seen: 0..MaxLoad, target: 0..MaxLoad]]
  /\ scan \in [Scans -> [step: ScanSteps, batch: SUBSET Rows, wanted: SUBSET Rows]]
  /\ pushes \in [Rows -> Nat]
  /\ excused \in [messages: SUBSET Messages, rows: SUBSET Rows]

(* excused.messages: those whose row was read while they were being added to it, *)
(* or along with a message that was; and those the user dismissed unread.        *)
(* excused.rows: rows that two scans held at once, one of them dead perhaps.    *)
AlertsInit ==
  /\ PresenceInit /\ Cardinality(tabs) <= MaxLoad
  /\ lastSeq = 0 /\ lastRead = 0
  /\ send = [m \in Messages |-> [step |-> "none", at |-> 0, row |-> NoneFound, count |-> 0]]
  /\ rows = [i \in Rows |-> Blank]
  /\ reader = [r \in Readers |-> NotReading]
  /\ scan = [s \in Scans |-> NotScanning]
  /\ pushes = [i \in Rows |-> 0]
  /\ excused = [messages |-> {}, rows |-> {}]

Unread == {i \in Rows : rows[i].status = "UNREAD"}
Newest(is) == CHOOSE i \in is : \A j \in is : rows[j].at <= rows[i].at
NextAt == Cardinality({m \in Messages : send[m].at # 0}) + 1
Scanned == UNION {scan[s].batch : s \in Scans}

-----------------------------------------------------------------------------
(* message:send, once the message is saved *)

SaveMessage ==
  /\ lastSeq + Cardinality(tabs) < MaxLoad
  /\ lastSeq' = lastSeq + 1
  /\ send' = [send EXCEPT ![lastSeq + 1].step = "saved"]
  /\ UNCHANGED <<lastRead, rows, reader, scan, pushes, excused>>

(* "Whoever has this conversation on screen already sees the message": no *)
(* notification for them.  For others writeOne begins, and takes the time *)
(* before anything else.                                                  *)
CheckViewing(m) ==
  /\ send[m].step = "saved"
  /\ send' = [send EXCEPT ![m].step = IF onScreen THEN "skipped" ELSE "find",
                          ![m].at = IF onScreen THEN 0 ELSE NextAt]
  /\ UNCHANGED <<lastSeq, lastRead, rows, reader, scan, pushes, excused>>

(* It looks for the newest unread row of the group, *)
FindOpen(m) ==
  /\ send[m].step = "find"
  /\ send' = [send EXCEPT ![m] =
       [step |-> "write", at |-> send[m].at, row |-> IF Unread = {} THEN NoneFound ELSE Newest(Unread),
        count |-> IF Unread = {} THEN 0 ELSE rows[Newest(Unread)].count]]
  /\ UNCHANGED <<lastSeq, lastRead, rows, reader, scan, pushes, excused>>

(* and updates it, status and pushedAt as they are by now, or creates one. *)
WriteOne(m) ==
  /\ send[m].step = "write"
  /\ send' = [send EXCEPT ![m].step = "done"]
  /\ LET i == IF send[m].row = NoneFound THEN m ELSE send[m].row
         after == [rows[i] EXCEPT !.count = send[m].count + 1, !.at = send[m].at, !.covers = @ \cup {m}]
     IN /\ rows' = [rows EXCEPT ![i] = IF send[m].row = NoneFound THEN [after EXCEPT !.status = "UNREAD"] ELSE after]
        /\ excused' = [excused EXCEPT !.messages = IF rows[i].status = "READ" THEN @ \cup {m} ELSE @]
  /\ UNCHANGED <<lastSeq, lastRead, reader, scan, pushes>>

-----------------------------------------------------------------------------
(* The user reads *)

(* markChatRead reads lastSeq; the user has read up to target, *)
StartReading(r, target) ==
  /\ reader[r].step = "idle"
  /\ target \in 1..lastSeq
  /\ reader' = [reader EXCEPT ![r] = [step |-> "advance", seen |-> lastSeq, target |-> target]]
  /\ UNCHANGED <<lastSeq, lastRead, send, rows, scan, pushes, excused>>

(* moves the position forward only, *)
AdvanceRead(r) ==
  /\ reader[r].step = "advance"
  /\ lastRead' = IF reader[r].target > lastRead THEN reader[r].target ELSE lastRead
  /\ reader' = [reader EXCEPT ![r].step = "reread"]
  /\ UNCHANGED <<lastSeq, send, rows, scan, pushes, excused>>

RereadPositionUnasked(r) ==
  /\ reader[r].step = "reread"
  /\ reader' = [reader EXCEPT ![r].step = "mark"]
  /\ UNCHANGED <<lastSeq, lastRead, send, rows, scan, pushes, excused>>

(* reads it back, and is done unless the user had caught up with the lastSeq read first; *)
RereadPosition(r) ==
  /\ reader[r].step = "reread"
  /\ reader' = [reader EXCEPT ![r] = IF lastRead >= reader[r].seen THEN [reader[r] EXCEPT !.step = "mark"]
                                     ELSE NotReading]
  /\ UNCHANGED <<lastSeq, lastRead, send, rows, scan, pushes, excused>>

MarkedRead(some) == [i \in Rows |-> IF i \in some THEN [rows[i] EXCEPT !.status = "READ"] ELSE rows[i]]
Told(some) == UNION {rows[i].covers : i \in some}

(* markGroupRead, which takes with it what has been notified since. *)
MarkGroupRead(r) ==
  /\ reader[r].step = "mark"
  /\ rows' = MarkedRead(Unread)
  /\ excused' = [excused EXCEPT !.messages = @ \cup {m \in Told(Unread) : m > reader[r].seen}]
  /\ reader' = [reader EXCEPT ![r] = NotReading]
  /\ UNCHANGED <<lastSeq, lastRead, send, scan, pushes>>

(* markNotificationRead of one row, or markAllNotificationsRead: the user has *)
(* seen the alert.                                                            *)
Dismiss ==
  /\ \E some \in {Unread} \cup {{i} : i \in Unread} :
       /\ some # {}
       /\ rows' = MarkedRead(some)
       /\ excused' = [excused EXCEPT !.messages = @ \cup Told(some)]
  /\ UNCHANGED <<lastSeq, lastRead, send, reader, scan, pushes>>

-----------------------------------------------------------------------------
(* processChatPushScan *)

(* A minute passes for the rows there are. *)
Ripen ==
  /\ \E i \in Unread : ~ rows[i].due
  /\ rows' = [i \in Rows |-> IF i \in Unread THEN [rows[i] EXCEPT !.due = TRUE] ELSE rows[i]]
  /\ UNCHANGED <<lastSeq, lastRead, send, reader, scan, pushes, excused>>

Pending == {i \in Unread : rows[i].due /\ ~ rows[i].pushed}

(* The scan takes the rows that are unread, due and not yet pushed: the oldest *)
(* of them only when, with those of other users, there are more than the 500   *)
(* it reads,                                                                   *)
StartScan(s) ==
  /\ scan[s].step = "idle"
  /\ \E batch \in (SUBSET Pending) \ {{}} :
       /\ \A i \in batch, j \in Pending \ batch : rows[i].at < rows[j].at
       /\ scan' = [scan EXCEPT ![s] = [step |-> "viewing", batch |-> batch, wanted |-> {}]]
       /\ excused' = [excused EXCEPT !.rows = @ \cup (batch \cap Scanned)]
  /\ UNCHANGED <<lastSeq, lastRead, send, rows, reader, pushes>>

ScanViewingSkips(s) ==
  /\ scan[s].step = "viewing"
  /\ scan' = [scan EXCEPT ![s] = IF onScreen THEN NotScanning
                                 ELSE [scan[s] EXCEPT !.step = "push", !.wanted = scan[s].batch]]
  /\ UNCHANGED <<lastSeq, lastRead, send, rows, reader, pushes, excused>>

(* asks whether the conversation is on screen, *)
ScanViewing(s) ==
  /\ scan[s].step = "viewing"
  /\ scan' = [scan EXCEPT ![s].step = IF onScreen THEN "mark" ELSE "push",
                          ![s].wanted = IF onScreen THEN {} ELSE scan[s].batch]
  /\ UNCHANGED <<lastSeq, lastRead, send, rows, reader, pushes, excused>>

(* pushes row after row, whatever has become of it, *)
Push(s) ==
  /\ scan[s].step = "push"
  /\ \E i \in scan[s].wanted :
       /\ pushes' = [pushes EXCEPT ![i] = @ + 1]
       /\ scan' = [scan EXCEPT ![s].wanted = @ \ {i},
                               ![s].step = IF scan[s].wanted = {i} THEN "mark" ELSE "push"]
  /\ UNCHANGED <<lastSeq, lastRead, send, rows, reader, excused>>

MarkPushedLatest(s) ==
  /\ scan[s].step = "mark"
  /\ rows' = [i \in Rows |-> IF i \in scan[s].wanted THEN [rows[i] EXCEPT !.pushed = TRUE] ELSE rows[i]]
  /\ scan' = [scan EXCEPT ![s] = NotScanning]
  /\ UNCHANGED <<lastSeq, lastRead, send, reader, pushes, excused>>

(* and marks them all, those it has not pushed included. *)
MarkPushed(s) ==
  /\ scan[s].step = "mark"
  /\ rows' = [i \in Rows |-> IF i \in scan[s].batch THEN [rows[i] EXCEPT !.pushed = TRUE] ELSE rows[i]]
  /\ scan' = [scan EXCEPT ![s] = NotScanning]
  /\ UNCHANGED <<lastSeq, lastRead, send, reader, pushes, excused>>

AlertsStep ==
  \/ SaveMessage \/ Dismiss \/ Ripen
  \/ \E m \in Messages : CheckViewing(m) \/ FindOpen(m) \/ WriteOne(m)
  \/ \E r \in Readers : \/ \E target \in Messages : StartReading(r, target)
                        \/ AdvanceRead(r) \/ RereadPosition(r) \/ MarkGroupRead(r)
  \/ \E s \in Scans : StartScan(s) \/ ScanViewing(s) \/ Push(s) \/ MarkPushed(s)

AlertsNext ==
  \/ PresenceNext /\ UNCHANGED alertVars
  \/ AlertsStep /\ UNCHANGED presenceVars

(* The scan is a repeated job that a live worker takes up again, time passes,   *)
(* and the process that sends goes on; no user has to read.                     *)
AlertsFairness ==
  /\ PresenceFairness
  /\ WF_alertVars(Ripen)
  /\ \A m \in Messages : WF_alertVars(CheckViewing(m) \/ FindOpen(m) \/ WriteOne(m))
  /\ \A s \in Scans \ Mortal : WF_alertVars(StartScan(s)) /\ WF_alertVars(ScanViewing(s) \/ Push(s) \/ MarkPushed(s))

AlertsSpec == AlertsInit /\ [][AlertsNext]_allVars
FairAlertsSpec == AlertsSpec /\ AlertsFairness

-----------------------------------------------------------------------------
(* Properties *)

(* Who has unread messages has an unread notification of the conversation: of    *)
(* each message that was not skipped, once its notification is written.  A       *)
(* collapsing notification or markGroupRead that meets it halfway, or the user's *)
(* own dismissal, are the only ways to lose it.                                  *)
UnreadIsAlerted ==
  \A m \in Messages :
    m > lastRead /\ send[m].step = "done" /\ m \notin excused.messages => Unread # {}

(* "One push per unread streak": of each row, however scans overlap messages and *)
(* reading; a second one only when a scan took the row that another had, or died   *)
(* with.                                                                          *)
PushedOnce == \A i \in Rows : pushes[i] > 1 => i \in excused.rows

(* Every message that was not skipped comes to be notified, and what stays       *)
(* unread is taken by a scan: a notification comes to be pushed, or marked as    *)
(* not to be, or read.                                                           *)
AlertIsPushed ==
  \A m \in Messages :
    send[m].step = "saved" ~>
      send[m].step = "skipped" \/ \E i \in Rows :
        m \in rows[i].covers /\ (rows[i].pushed \/ rows[i].status = "READ")
=============================================================================
