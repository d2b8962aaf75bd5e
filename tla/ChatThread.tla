----------------------------- MODULE ChatThread -----------------------------
(***************************************************************************)
(* One open conversation in a browser tab,                                 *)
(* src/src/components/chat/use-chat-thread.ts, over ChatMessages, with the *)
(* room and the sync event of src/socket-server/events/chat.events.ts.     *)
(*                                                                         *)
(* Mine are the messages this tab sends. What the room is told travels in  *)
(* wire, in any order (other nodes' packets come through Redis), and is    *)
(* lost with the connection unless Socket.IO recovers it. The list's pages *)
(* travel over HTTP and survive the connection. Edits, removals, reactions *)
(* and pages of older messages are left out.                               *)
(***************************************************************************)
EXTENDS ChatMessages

CONSTANTS
  Mine,   \* the messages of this tab
  Me,     \* its user
  MaxReads   \* bound on what it reports as read

ASSUME TabAssumption == Me \in Users /\ MaxReads \in Nat
                         /\ Mine \subseteq {m \in Messages : Sender[m] = Me}

VARIABLES
  connected,  \* the tab's socket
  room,       \* is the tab's server-side session in the conversation's room?
  joining,    \* is a conversation:join on its way?
  wire,       \* message:new packets for the tab
  syncs,      \* sync events asked, by the seq they ask after
  answers,    \* sync answers on their way
  asked,      \* pages asked: the one of the opening, or a reload (loadLatest)
  pages,      \* pages on their way
  thread,     \* the saved messages the tab shows
  bubble,     \* for a message of the tab that is not shown as saved: pending or failed
  reported,   \* the numbers the tab reported as read (lastReadSent is the newest)
  via,        \* how the tab sent what a request is saving, while it listens for the answer
  excused,    \* history: saved messages a known hole of the code hides (see NothingMissed)
  skipped     \* history: those an answer or a first message went past, unnoticed

history == <<excused, skipped>>
tabVars == <<connected, room, joining, wire, syncs, answers, asked, pages, thread, bubble, reported, via, history>>
linkVars == <<connected, room, joining, syncs, answers, asked, pages>>
vars == <<chatVars, tabVars>>

-----------------------------------------------------------------------------
(* Data *)

NewSeqs == 0..Cardinality(Messages)
PageKinds == {"open", "reload"}

LinkOK ==
  /\ connected \in BOOLEAN /\ room \in BOOLEAN /\ joining \in BOOLEAN
  /\ syncs \subseteq NewSeqs
  /\ asked \subseteq PageKinds
  /\ reported \subseteq NewSeqs

(* Only what was saved is on its way to the tab, shown or accounted for.   *)
ShownOK ==
  /\ wire \subseteq Saved
  /\ answers \subseteq SUBSET Saved
  /\ pages \subseteq [kind: PageKinds, found: SUBSET Saved]
  /\ thread \subseteq Saved
  /\ bubble \in [Mine -> {"none", "pending", "failed"}]
  /\ via \in [Workers -> {"none", "socket", "rest"}]
  /\ \A w \in Workers : via[w] # "none" => ~ At(w, "idle") /\ req[w].msg \in Mine
  /\ excused \subseteq Saved /\ skipped \subseteq Saved

TabTypeOK == LinkOK /\ ShownOK

(* The conversation is opened: its room is joined, its newest page fetched. *)
TabInit ==
  /\ Init
  /\ connected = TRUE /\ room = FALSE /\ joining = TRUE
  /\ wire = {} /\ syncs = {} /\ answers = {}
  /\ asked = {"open"} /\ pages = {}
  /\ thread = {}
  /\ bubble = [m \in Mine |-> "none"]
  /\ reported = {}
  /\ via = [w \in Workers |-> "none"]
  /\ excused = {} /\ skipped = {}

-----------------------------------------------------------------------------
(* Helpers *)

Newest == IF thread = {} THEN 0 ELSE CHOOSE s \in NewSeqs :
            (\E m \in thread : SeqOf(m) = s) /\ \A m \in thread : SeqOf(m) <= s
Before(m) == {x \in Saved \ thread : SeqOf(x) < SeqOf(m)}
Showing == thread # {} \/ \E m \in Mine : bubble[m] # "none"

ShowBeside(found) ==
  /\ thread' = thread \cup found
  /\ UNCHANGED bubble

(* mergeMessages: saved copies are added, and replace the pending ones. *)
Show(found) ==
  /\ thread' = thread \cup found
  /\ bubble' = [m \in Mine |-> IF m \in found THEN "none" ELSE bubble[m]]

Listening(w) == via[w] # "none"
Fail(m) == [bubble EXCEPT ![m] = IF @ = "pending" THEN "failed" ELSE @]

-----------------------------------------------------------------------------
(* Sending *)

Deliver(w, m) ==
  /\ StartSend(w, m)
  /\ bubble' = [bubble EXCEPT ![m] = "pending"]
  /\ via' = [via EXCEPT ![w] = IF connected THEN "socket" ELSE "rest"]
  /\ UNCHANGED <<linkVars, reported, wire, thread, history>>

TabSends(w, m) == tries[m] = 0 /\ Deliver(w, m)
Retry(w, m) == bubble[m] = "failed" /\ Deliver(w, m)

Discard(m) ==
  /\ bubble[m] = "failed"
  /\ bubble' = [bubble EXCEPT ![m] = "none"]
  /\ UNCHANGED <<chatVars, linkVars, reported, wire, thread, via, history>>

OthersSend(w, m) ==
  /\ m \notin Mine /\ tries[m] = 0
  /\ StartSend(w, m)
  /\ UNCHANGED tabVars

(* The answer of a send reaches the tab, if it still listens: settle, which *)
(* unlike onNew does not look for a number it goes past.                   *)
Settle(w) ==
  /\ IF Listening(w)
     THEN /\ Show({req[w].msg})
          /\ via' = [via EXCEPT ![w] = "none"]
          /\ skipped' = skipped \cup Before(req[w].msg)
     ELSE UNCHANGED <<thread, bubble, via, skipped>>
  /\ UNCHANGED excused

AnswerDuplicate(w) ==
  /\ FindSent(w) \/ FindRaced(w)
  /\ Settle(w)
  /\ UNCHANGED <<linkVars, reported, wire>>

(* The room is told, which a tab out of it does not hear. *)
AnnounceToRoom(w) ==
  /\ Announce(w)
  /\ wire' = IF room THEN wire \cup {req[w].msg} ELSE wire
  /\ Settle(w)
  /\ UNCHANGED <<linkVars, reported>>

SendThrowsUnheard(w) ==
  LET m == req[w].msg IN
  /\ Throw(w)
  /\ m # NoMessage
  /\ excused' = IF At(w, "announce") THEN excused \cup {m} ELSE excused
  /\ UNCHANGED <<linkVars, reported, wire, thread, bubble, via, skipped>>

(* A send fails. When that comes after the commit the room is never told:  *)
(* the retry is answered with the saved message and not announced.         *)
SendThrows(w) ==
  LET m == req[w].msg IN
  /\ Throw(w)
  /\ m # NoMessage
  /\ IF Listening(w)
     THEN bubble' = Fail(m) /\ via' = [via EXCEPT ![w] = "none"]
     ELSE UNCHANGED <<bubble, via>>
  /\ excused' = IF At(w, "announce") THEN excused \cup {m} ELSE excused
  /\ UNCHANGED <<linkVars, reported, wire, thread, skipped>>

(* The acknowledgement comes too late, or the HTTP call is cut off. *)
NoAnswer(w) ==
  /\ Listening(w)
  /\ Fault
  /\ bubble' = Fail(req[w].msg)
  /\ via' = [via EXCEPT ![w] = "none"]
  /\ UNCHANGED <<lastSeq, rows, mark, req, tries, linkVars, reported, wire, thread, history>>

(* markRead, of the open and visible tab: "up to the newest I show" over   *)
(* the socket, the newest there is over HTTP.                              *)
MarkRead(w) ==
  /\ Cardinality(reported) < MaxReads
  /\ \E seq \in NewSeqs \ {0} :
       /\ seq = Newest /\ \A earlier \in reported : seq > earlier
       /\ StartRead(w, Me, IF connected THEN seq ELSE Cardinality(Messages))
       /\ reported' = reported \cup {seq}
  /\ UNCHANGED <<linkVars, wire, thread, bubble, via, history>>

Quietly(w) ==
  /\ FindNothing(w) \/ Transaction(w) \/ Conflict(w) \/ Read(w) \/ (Throw(w) /\ req[w].msg = NoMessage)
  /\ UNCHANGED tabVars

-----------------------------------------------------------------------------
(* Receiving *)

ReceiveBlindly(m) ==
  /\ connected /\ m \in wire
  /\ wire' = wire \ {m}
  /\ skipped' = IF Showing THEN skipped ELSE skipped \cup Before(m)
  /\ Show({m})
  /\ UNCHANGED <<chatVars, reported, connected, room, joining, syncs, answers, asked, pages, via, excused>>

(* onNew: a number skipped asks for a sync, unless the list is empty. *)
Receive(m) ==
  /\ connected /\ m \in wire
  /\ wire' = wire \ {m}
  /\ IF Showing
     THEN syncs' = (IF SeqOf(m) > Newest + 1 THEN syncs \cup {Newest} ELSE syncs) /\ UNCHANGED skipped
     ELSE skipped' = skipped \cup Before(m) /\ UNCHANGED syncs
  /\ Show({m})
  /\ UNCHANGED <<chatVars, reported, connected, room, joining, answers, asked, pages, via, excused>>

(* The sync handler: back into the room, then what came after. *)
AnswerSync(after) ==
  /\ connected /\ after \in syncs
  /\ syncs' = syncs \ {after}
  /\ room' = TRUE
  /\ answers' = answers \cup {{m \in Saved : SeqOf(m) > after}}
  /\ UNCHANGED <<chatVars, reported, connected, joining, asked, pages, wire, thread, bubble, via, history>>

ReceiveSync(found) ==
  /\ connected /\ found \in answers
  /\ answers' = answers \ {found}
  /\ Show(found)
  /\ UNCHANGED <<chatVars, reported, connected, room, joining, syncs, asked, pages, wire, via, history>>

(* No answer in time, an error, or "reset": the newest page instead. *)
SyncFails(after) ==
  /\ connected /\ after \in syncs
  /\ Fault
  /\ syncs' = syncs \ {after}
  /\ asked' = asked \cup {"reload"}
  /\ UNCHANGED <<lastSeq, rows, mark, req, tries, reported, connected, room, joining, answers, pages, wire,
                 thread, bubble, via, history>>

ReadPage(kind) ==
  /\ kind \in asked
  /\ asked' = asked \ {kind}
  /\ pages' = pages \cup {[kind |-> kind, found |-> Saved]}
  /\ UNCHANGED <<chatVars, reported, connected, room, joining, syncs, answers, wire, thread, bubble, via, history>>

(* A page replaces what is shown; a reload keeps what is not saved yet. *)
ReceivePage(page) ==
  /\ page \in pages
  /\ pages' = pages \ {page}
  /\ thread' = page.found
  /\ bubble' = [m \in Mine |-> IF m \in page.found \/ page.kind = "open" THEN "none" ELSE bubble[m]]
  /\ excused' = excused \cup (thread \ page.found)
  /\ UNCHANGED <<chatVars, reported, connected, room, joining, syncs, answers, asked, wire, via, skipped>>

(* A page that fails leaves what is shown, with what it was asked for. *)
PageFails(kind) ==
  /\ kind \in asked
  /\ Fault
  /\ asked' = asked \ {kind}
  /\ excused' = excused \cup (Saved \ thread)
  /\ UNCHANGED <<lastSeq, rows, mark, req, tries, reported, connected, room, joining, syncs, answers, pages, wire,
                 thread, bubble, via, skipped>>

-----------------------------------------------------------------------------
(* The connection *)

(* conversation:join. What the room was told before it is not asked for,   *)
(* unless a sync is still to be answered.                                  *)
Join ==
  /\ connected /\ joining
  /\ room' = TRUE
  /\ joining' = FALSE
  /\ excused' = IF room \/ syncs # {} THEN excused ELSE excused \cup (Saved \ thread)
  /\ UNCHANGED <<chatVars, reported, connected, syncs, answers, asked, pages, wire, thread, bubble, via, skipped>>

(* Every event that waits for its acknowledgement fails. *)
Disconnect ==
  /\ connected
  /\ Fault
  /\ connected' = FALSE
  /\ joining' = FALSE
  /\ syncs' = {} /\ answers' = {}
  /\ asked' = IF syncs # {} \/ answers # {} THEN asked \cup {"reload"} ELSE asked
  /\ bubble' = [m \in Mine |-> IF bubble[m] = "pending" /\ \E w \in Workers : via[w] = "socket" /\ req[w].msg = m
                               THEN "failed" ELSE bubble[m]]
  /\ via' = [w \in Workers |-> IF via[w] = "socket" THEN "none" ELSE via[w]]
  /\ UNCHANGED <<lastSeq, rows, mark, req, tries, reported, room, pages, wire, thread, history>>

(* onConnect, of a session Socket.IO recovered with its room and packets. *)
Recover ==
  /\ ~ connected
  /\ connected' = TRUE
  /\ joining' = TRUE
  /\ UNCHANGED <<chatVars, reported, room, syncs, answers, asked, pages, wire, thread, bubble, via, history>>

(* onConnect, of a new session in no room: join, and ask for the gap. *)
Reconnect ==
  /\ ~ connected
  /\ connected' = TRUE
  /\ room' = FALSE /\ joining' = TRUE
  /\ wire' = {}
  /\ syncs' = {Newest}
  /\ UNCHANGED <<chatVars, reported, answers, asked, pages, thread, bubble, via, history>>

-----------------------------------------------------------------------------

TabStep(w) ==
  \/ \E m \in Mine : TabSends(w, m) \/ Retry(w, m)
  \/ \E m \in Messages : OthersSend(w, m)
  \/ AnswerDuplicate(w) \/ AnnounceToRoom(w) \/ SendThrows(w) \/ NoAnswer(w) \/ MarkRead(w) \/ Quietly(w)

TabNext ==
  \/ \E w \in Workers : TabStep(w)
  \/ \E m \in Mine : Discard(m)
  \/ \E m \in wire : Receive(m)
  \/ \E after \in syncs : AnswerSync(after) \/ SyncFails(after)
  \/ \E found \in answers : ReceiveSync(found)
  \/ \E kind \in asked : ReadPage(kind) \/ PageFails(kind)
  \/ \E page \in pages : ReceivePage(page)
  \/ Join \/ Disconnect \/ Recover \/ Reconnect

TabSpec == TabInit /\ [][TabNext]_vars

-----------------------------------------------------------------------------
(* Properties *)

(* "Sends show at once (pending) and are matched to the saved copy by      *)
(* clientMsgId" (useChatThread): whichever of the answer, the room's       *)
(* packet, a sync and a page comes first, nothing is shown twice.          *)
NotShownTwice == \A m \in Mine : bubble[m] # "none" => m \notin thread

(* Nothing more is on its way to the tab. *)
Quiet ==
  /\ connected /\ room /\ ~ joining
  /\ wire = {} /\ syncs = {} /\ answers = {} /\ asked = {} /\ pages = {}
  /\ \A w \in Workers : ~ At(w, "announce")

(* "so nothing sent while it was offline is lost" (the sync event): once   *)
(* nothing is on its way, the tab shows every saved message, whatever it   *)
(* missed in between. Excused are those that the code does not show before *)
(* a later sync or reload: saved before the tab was in the room, dropped   *)
(* with the list a page replaced, on a page that failed, or never          *)
(* announced; and those that the answer to a send of the tab, or the first *)
(* message of an empty list, went past.                                    *)
NothingMissed == Quiet => Saved \subseteq thread \cup excused \cup skipped

=============================================================================
