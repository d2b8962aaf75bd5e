--------------------------- MODULE CourseChannel ---------------------------
(***************************************************************************)
(* One student and one standard channel of a course community: their       *)
(* participant row, which follows their access to the course               *)
(* (src/src/server/chat/membership.ts, channels.ts, chat-service.ts), and  *)
(* the socket server's cached answer and live room (socket-server/         *)
(* context.ts, events/chat.events.ts, gateway.ts).                         *)
(*                                                                         *)
(* A request moves from one awaited query to the next. The queries that    *)
(* look for what gives access are separate statements, so that each sees   *)
(* its own moment. The student has one tab, on one node of the socket      *)
(* server, and is neither staff nor the course's teacher.                  *)
(***************************************************************************)
EXTENDS Naturals

CONSTANTS
  Workers,      \* requests running at once
  Asked,        \* the kinds of request that are made
  OkTTL,        \* CACHE_TTL_MS, of a cached yes
  DeniedTTL,    \* DENIED_TTL_MS, of a cached no
  MaxClock,     \* bound on the clock
  MaxChanges,   \* bound on the changes of access
  MaxFaults     \* bound on what goes wrong

(* "ask" is an event of the socket that goes through the cache, to join    *)
(* (conversation:join, sync) or to post (message:send); "look"   *)
(* is one whose socket has gone, "post" one that was allowed.              *)
Requests == {"reconcile", "open", "add", "remove", "ask"}
Kinds == Requests \cup {"none", "look", "post"}

(* An instance in which nothing asks the socket server leaves it out.      *)
Served == "ask" \in Asked

ASSUME ChannelAssumption ==
  /\ Asked \subseteq Requests
  /\ OkTTL \in Nat /\ DeniedTTL \in Nat
  /\ MaxClock \in Nat /\ MaxChanges \in Nat /\ MaxFaults \in Nat

VARIABLES
  clock,
  access,     \* what gives the student access to the course
  changes,    \* how often that changed
  row,        \* their ConversationParticipant row
  req,        \* what each request is doing
  packets,    \* what the bus has published and the node has not handled
  cache,      \* the node's AccessCache entry for the student and the channel
  connected,  \* their socket
  room,       \* is their session in the channel's room?
  faults,     \* what has gone wrong so far
  lost,       \* history: what was absent at some time since a reconciliation began
  held        \* history: the last time the student had access

worldVars == <<clock, access, changes, held>>
nodeVars == <<cache, connected, room>>
vars == <<worldVars, row, req, packets, nodeVars, faults, lost>>

-----------------------------------------------------------------------------
(* Data *)

Times == 0..MaxClock

(* An ACTIVE enrolment, a CourseInstructor row, an ACTIVE subscription.    *)
Sources == {"enrolled", "assists", "subscribed"}
CourseSources == {"enrolled", "assists"}

Roles == {"MEMBER", "MODERATOR"}
RoleOf(found) == IF "assists" \in found THEN "MODERATOR" ELSE "MEMBER"

(* "out" is a row with removedAt; byModerator, one with removedById. *)
Row == [state: {"none", "in", "out"}, byModerator: BOOLEAN, role: Roles]
NoRow == [state |-> "none", byModerator |-> FALSE, role |-> "MEMBER"]
In(role) == [state |-> "in", byModerator |-> FALSE, role |-> role]
Out(role) == [state |-> "out", byModerator |-> FALSE, role |-> role]

Steps == {"idle", "desired", "putIn", "role", "takeOut", "write", "announce"}
Request == [kind: Kinds, step: Steps, unread: SUBSET Sources, found: SUBSET Sources,
            row: Row, since: Times, out: {"nothing", "added", "removed"}]
Idle == [kind |-> "none", step |-> "idle", unread |-> {}, found |-> {},
         row |-> NoRow, since |-> 0, out |-> "nothing"]
Post == [Idle EXCEPT !.kind = "post", !.step = "write"]

TTLOkOnly(ok) == OkTTL

TTL(ok) == IF ok THEN OkTTL ELSE DeniedTTL

Entry == [there: BOOLEAN, ok: BOOLEAN, expires: Nat]
NoEntry == [there |-> FALSE, ok |-> FALSE, expires |-> 0]

TypeOK ==
  /\ clock \in Times /\ held \in Times
  /\ access \subseteq Sources
  /\ changes \in 0..MaxChanges /\ faults \in 0..MaxFaults
  /\ row \in Row
  /\ req \in [Workers -> Request]
  /\ \A w \in Workers : req[w].kind = "none" => req[w].step \in {"idle", "announce"}
  /\ packets \subseteq {"invalidate", "leave"}
  /\ cache \in Entry
  /\ cache.expires <= clock + (IF cache.ok THEN OkTTL ELSE DeniedTTL)
  /\ connected \in BOOLEAN /\ room \in BOOLEAN
  /\ lost \in [Workers -> SUBSET Sources]

Init ==
  /\ clock = 0 /\ changes = 0 /\ faults = 0
  /\ access \in SUBSET Sources
  /\ row \in {NoRow} \cup {In(role) : role \in Roles} \cup {Out(role) : role \in Roles}
  /\ row.state = "in" => access # {} /\ row.role = RoleOf(access)
  /\ req = [w \in Workers |-> Idle]
  /\ packets = {}
  /\ cache = NoEntry
  /\ connected = TRUE /\ room = FALSE
  /\ lost = [w \in Workers |-> {}]
  /\ held = 0

-----------------------------------------------------------------------------
(* Helpers *)

At(w, step) == req[w].step = step
Is(w, kind) == req[w].kind = kind
Done(w) == req' = [req EXCEPT ![w] = Idle] /\ lost' = [lost EXCEPT ![w] = {}]
Goto(w, step) == req' = [req EXCEPT ![w].step = step] /\ UNCHANGED lost
Report(w, out) ==
  /\ req' = [req EXCEPT ![w] = [Idle EXCEPT !.step = "announce", !.out = out]]
  /\ lost' = [lost EXCEPT ![w] = {}]
Fault == faults < MaxFaults /\ faults' = faults + 1

(* What a request of each kind reads first. *)
Start(kind) == [Idle EXCEPT !.kind = kind,
                            !.step = IF kind = "reconcile" THEN "desired" ELSE "role",
                            !.unread = IF kind = "reconcile" THEN CourseSources ELSE Sources,
                            !.since = IF kind = "ask" THEN clock ELSE 0]

Begin(w, kind) ==
  /\ kind \in Asked
  /\ At(w, "idle")
  /\ req' = [req EXCEPT ![w] = Start(kind)]
  /\ lost' = [lost EXCEPT ![w] = IF kind = "reconcile" THEN Sources \ access ELSE {}]
  /\ UNCHANGED <<worldVars, row, packets, nodeVars, faults>>

-----------------------------------------------------------------------------
(* Access *)

Toggle(s) == IF s \in access THEN access \ {s} ELSE access \cup {s}

Changed(s) ==
  /\ changes < MaxChanges
  /\ changes' = changes + 1
  /\ access' = Toggle(s)
  /\ held' = IF access' # {} THEN clock ELSE held
  /\ UNCHANGED <<clock, row, packets, nodeVars, faults>>

(* An instructor is assigned or removed, a subscription starts or lapses:  *)
(* neither touches the channels.                                           *)
SourceChanges(s) ==
  /\ Changed(s)
  /\ lost' = [w \in Workers |-> IF Is(w, "reconcile") THEN lost[w] \cup (Sources \ access') ELSE {}]
  /\ UNCHANGED req

(* A payment, a refund, a grant: the enrolment, then syncCourseMembership. *)
EnrollmentChanges(w) ==
  /\ "reconcile" \in Asked
  /\ At(w, "idle")
  /\ Changed("enrolled")
  /\ req' = [req EXCEPT ![w] = Start("reconcile")]
  /\ lost' = [v \in Workers |->
       IF v = w \/ Is(v, "reconcile") THEN lost[v] \cup (Sources \ access') ELSE {}]

Tick ==
  /\ clock < MaxClock
  /\ clock' = clock + 1
  /\ held' = IF access # {} THEN clock' ELSE held
  /\ cache' = IF cache.there /\ cache.expires > clock' THEN cache ELSE NoEntry
  /\ UNCHANGED <<access, changes, row, req, packets, connected, room, faults, lost>>

-----------------------------------------------------------------------------
(* Reading what gives access *)

Resolved(w) == req[w].unread = {}

(* courseGroupRole looks for a subscription last, and only when it found   *)
(* nothing else.                                                           *)
ReadSource(w, s) ==
  LET found == req[w].found \cup ({s} \cap access)
      left == req[w].unread \ {s}
  IN
  /\ At(w, "desired") \/ At(w, "role")
  /\ s \in req[w].unread
  /\ s = "subscribed" => left = {}
  /\ req' = [req EXCEPT ![w].found = found,
                        ![w].unread = IF found # {} /\ left = {"subscribed"} THEN {} ELSE left]
  /\ UNCHANGED <<worldVars, row, packets, nodeVars, faults, lost>>

-----------------------------------------------------------------------------
(* reconcileCourseGroups *)

LoadInbox(w) == Begin(w, "reconcile")

CandidateEnrolled ==
  /\ row.state = "in" /\ row.role = "MEMBER"
  /\ "enrolled" \in access

(* The rows the worker's sweep finds. *)
Candidate ==
  /\ row.state = "in" /\ row.role = "MEMBER"
  /\ "enrolled" \notin access

Sweep(w) == Candidate /\ Begin(w, "reconcile")

FindRowsUnchecked(w) ==
  /\ At(w, "desired") /\ Resolved(w)
  /\ IF req[w].found # {} \/ row.state = "in"
     THEN req' = [req EXCEPT ![w].step = IF req[w].found # {} THEN "putIn" ELSE "takeOut",
                             ![w].row = row] /\ UNCHANGED lost
     ELSE Done(w)
  /\ UNCHANGED <<worldVars, row, packets, nodeVars, faults>>

(* The participant rows, after the desired roles. *)
FindRows(w) ==
  /\ At(w, "desired") /\ Resolved(w)
  /\ IF req[w].found # {}
     THEN req' = [req EXCEPT ![w].step = "putIn", ![w].row = row] /\ UNCHANGED lost
     ELSE IF row.state = "in"
     THEN req' = [req EXCEPT ![w].step = "role", ![w].row = row, ![w].unread = Sources] /\ UNCHANGED lost
     ELSE Done(w)
  /\ UNCHANGED <<worldVars, row, packets, nodeVars, faults>>

PutInNeverBack(w) ==
  LET was == req[w].row
      role == RoleOf(req[w].found)
  IN
  /\ At(w, "putIn")
  /\ \/ /\ was.state = "none"
        /\ row' = IF row.state = "none" THEN In(role) ELSE row
        /\ Report(w, "added")
     \/ was.state # "none" /\ Done(w) /\ UNCHANGED row
  /\ UNCHANGED <<worldVars, packets, nodeVars, faults>>

(* A missing row is created; one that was out, or has another role, comes  *)
(* back, unless a moderator's removal holds.                               *)
PutIn(w) ==
  LET was == req[w].row
      role == RoleOf(req[w].found)
      holds == was.state = "out" /\ was.byModerator /\ was.role = role
      same == was.state = "in" /\ was.role = role
  IN
  /\ At(w, "putIn")
  /\ \/ /\ was.state = "none"
        /\ row' = IF row.state = "none" THEN In(role) ELSE row
        /\ Report(w, "added")
     \/ /\ was.state # "none" /\ ~ holds /\ ~ same
        /\ row' = In(role)
        /\ IF was.state = "out" THEN Report(w, "added") ELSE Done(w)
     \/ (holds \/ same) /\ Done(w) /\ UNCHANGED row
  /\ UNCHANGED <<worldVars, packets, nodeVars, faults>>

(* courseGroupRole: not desired, but a subscriber may stay. *)
StillAllowed(w) ==
  /\ Is(w, "reconcile") /\ At(w, "role") /\ Resolved(w)
  /\ IF req[w].found # {} THEN Done(w) ELSE Goto(w, "takeOut")
  /\ UNCHANGED <<worldVars, row, packets, nodeVars, faults>>

TakeOut(w) ==
  /\ At(w, "takeOut")
  /\ row' = [row EXCEPT !.state = "out", !.byModerator = FALSE]
  /\ Report(w, "removed")
  /\ UNCHANGED <<worldVars, packets, nodeVars, faults>>

(* The bus: caches are dropped, and who was removed leaves the room. *)
Announce(w) ==
  /\ At(w, "announce")
  /\ packets' = IF ~ Served THEN packets
                 ELSE packets \cup {"invalidate"} \cup (IF req[w].out = "removed" THEN {"leave"} ELSE {})
  /\ Done(w)
  /\ UNCHANGED <<worldVars, row, nodeVars, faults>>

-----------------------------------------------------------------------------
(* Opening the channel; moderators *)

OpenChannel(w) == Begin(w, "open")
AddMember(w) == Begin(w, "add")
RemoveMember(w) == Begin(w, "remove")

(* The student's role is known: opening and adding need one, removing      *)
(* that it is not an instructor's.                                         *)
CheckRole(w) ==
  /\ req[w].kind \in {"open", "add", "remove"} /\ At(w, "role") /\ Resolved(w)
  /\ IF IF Is(w, "remove") THEN "assists" \notin req[w].found ELSE req[w].found # {}
     THEN Goto(w, "write")
     ELSE Done(w)
  /\ UNCHANGED <<worldVars, row, packets, nodeVars, faults>>

(* The upsert of an open leaves removedById alone. *)
WriteOpen(w) ==
  /\ Is(w, "open") /\ At(w, "write")
  /\ row' = [In(RoleOf(req[w].found)) EXCEPT !.byModerator = row.byModerator]
  /\ Done(w)
  /\ UNCHANGED <<worldVars, packets, nodeVars, faults>>

WriteAdded(w) ==
  /\ Is(w, "add") /\ At(w, "write")
  /\ row' = In(RoleOf(req[w].found))
  /\ Report(w, "added")
  /\ UNCHANGED <<worldVars, packets, nodeVars, faults>>

WriteRemoved(w) ==
  /\ Is(w, "remove") /\ At(w, "write")
  /\ row' = IF row.state = "in" THEN [row EXCEPT !.state = "out", !.byModerator = TRUE] ELSE row
  /\ Report(w, "removed")
  /\ UNCHANGED <<worldVars, packets, nodeVars, faults>>

-----------------------------------------------------------------------------
(* The socket server *)

(* AccessCache.get: a fresh entry answers. A denial is the end of it.      *)
AskCached(w) ==
  /\ Served /\ connected /\ At(w, "idle")
  /\ cache.there /\ cache.ok
  /\ \/ room' = TRUE /\ UNCHANGED req
     \/ req' = [req EXCEPT ![w] = Post] /\ UNCHANGED room
  /\ UNCHANGED <<worldVars, row, packets, cache, connected, faults, lost>>

Ask(w) ==
  /\ connected
  /\ ~ cache.there
  /\ Begin(w, "ask")

Cached(w, now) ==
  LET ok == req[w].found # {} IN
  cache' = IF now + TTL(ok) > clock THEN [there |-> TRUE, ok |-> ok, expires |-> now + TTL(ok)] ELSE NoEntry

AnswerTimedLate(w) ==
  /\ req[w].kind \in {"ask", "look"} /\ Resolved(w)
  /\ Cached(w, clock)
  /\ \/ Done(w) /\ room' = (room \/ (Is(w, "ask") /\ req[w].found # {}))
     \/ req[w].found # {} /\ req' = [req EXCEPT ![w] = Post] /\ UNCHANGED <<room, lost>>
  /\ UNCHANGED <<worldVars, row, packets, connected, faults>>

(* resolveAccess has answered: it is cached, whatever came in between, for *)
(* as long as since the question; who may read joins the room or posts.    *)
Answer(w) ==
  /\ req[w].kind \in {"ask", "look"} /\ Resolved(w)
  /\ Cached(w, req[w].since)
  /\ \/ Done(w) /\ room' = (room \/ (Is(w, "ask") /\ req[w].found # {}))
     \/ req[w].found # {} /\ req' = [req EXCEPT ![w] = Post] /\ UNCHANGED <<room, lost>>
  /\ UNCHANGED <<worldVars, row, packets, connected, faults>>

(* sendChatMessage: whoever takes part without a row gets one; of a row    *)
(* that is there only the read position changes, removed or not.           *)
WritePost(w) ==
  /\ Is(w, "post") /\ At(w, "write")
  /\ row' = IF row.state = "none" THEN In("MEMBER") ELSE row
  /\ Done(w)
  /\ UNCHANGED <<worldVars, packets, nodeVars, faults>>

Invalidate ==
  /\ "invalidate" \in packets
  /\ packets' = packets \ {"invalidate"}
  /\ cache' = NoEntry
  /\ UNCHANGED <<worldVars, row, req, connected, room, faults, lost>>

(* socketsLeave reaches the sockets that are there. *)
LeaveRoom ==
  /\ "leave" \in packets
  /\ packets' = packets \ {"leave"}
  /\ room' = (room /\ ~ connected)
  /\ UNCHANGED <<worldVars, row, req, cache, connected, faults, lost>>

(* conversation:leave *)
CloseConversation ==
  /\ connected /\ room
  /\ room' = FALSE
  /\ UNCHANGED <<worldVars, row, req, packets, cache, connected, faults, lost>>

(* Who was joining is not there any more. *)
Disconnect ==
  /\ Served /\ connected
  /\ Fault
  /\ connected' = FALSE
  /\ req' = [w \in Workers |-> IF Is(w, "ask") THEN [req[w] EXCEPT !.kind = "look"] ELSE req[w]]
  /\ UNCHANGED <<worldVars, row, packets, cache, room, lost>>

(* The session is recovered with its rooms. *)
Recover ==
  /\ ~ connected
  /\ connected' = TRUE
  /\ UNCHANGED <<worldVars, row, req, packets, cache, room, faults, lost>>

Reconnect ==
  /\ ~ connected
  /\ connected' = TRUE
  /\ room' = FALSE
  /\ UNCHANGED <<worldVars, row, req, packets, cache, faults, lost>>

-----------------------------------------------------------------------------
(* What goes wrong *)

(* A query throws, or the process stops. *)
Throw(w) ==
  /\ ~ At(w, "idle")
  /\ Fault
  /\ Done(w)
  /\ UNCHANGED <<worldVars, row, packets, nodeVars>>

(* "A failed publish is swallowed" (lib/realtime.ts). *)
LosePacket(p) ==
  /\ p \in packets
  /\ Fault
  /\ packets' = packets \ {p}
  /\ UNCHANGED <<worldVars, row, req, nodeVars, lost>>

-----------------------------------------------------------------------------

Requested(w) ==
  \/ EnrollmentChanges(w) \/ LoadInbox(w) \/ Sweep(w)
  \/ OpenChannel(w) \/ AddMember(w) \/ RemoveMember(w)
  \/ Ask(w) \/ AskCached(w)

Step(w) ==
  \/ \E s \in Sources : ReadSource(w, s)
  \/ FindRows(w) \/ PutIn(w) \/ StillAllowed(w) \/ TakeOut(w) \/ Announce(w)
  \/ CheckRole(w) \/ WriteOpen(w) \/ WriteAdded(w) \/ WriteRemoved(w)
  \/ Answer(w) \/ WritePost(w)

Next ==
  \/ \E w \in Workers : Requested(w) \/ Step(w) \/ Throw(w)
  \/ SourceChanges("assists") \/ SourceChanges("subscribed")
  \/ Tick
  \/ Invalidate \/ LeaveRoom \/ CloseConversation
  \/ Disconnect \/ Recover \/ Reconnect
  \/ \E p \in packets : LosePacket(p)

(* Queries are answered, and the worker's sweep runs every 15 minutes. *)
Fairness ==
  /\ \A w \in Workers : WF_vars(Step(w))
  /\ SF_vars(\E w \in Workers : Sweep(w))

Spec == Init /\ [][Next]_vars
FairSpec == Spec /\ Fairness

-----------------------------------------------------------------------------
(* Properties *)

(* "How long a permission answer [...] is trusted before re-reading the    *)
(* database" (context.ts): whatever invalidations are lost or overtaken, a *)
(* cached yes is never older than CACHE_TTL_MS, measured from a moment at  *)
(* which the student did have access.                                      *)
CachedAccessIsRecent == cache.there /\ cache.ok => clock < held + OkTTL

(* reconcileCourseGroups takes a student out only when each thing that     *)
(* gives access was absent at some time since it began, however the        *)
(* queries fall between other requests.                                    *)
RemovedForCause == \A w \in Workers : At(w, "takeOut") => lost[w] = Sources

(* "Membership is re-checked on every inbox load" (syncCourseMembership):  *)
(* reconciliations that undid each other do not matter to a student who    *)
(* stays enrolled and keeps looking at the inbox. They end in the channel, *)
(* unless a moderator removed them.                                        *)
EnrolledBelongs ==
  <>[]("enrolled" \in access) /\ []<><<\E w \in Workers : LoadInbox(w)>>_vars
    => <>[](row.state = "in" \/ (row.state = "out" /\ row.byModerator))

(* "and by the worker's sweep": who loses all access for good does not     *)
(* stay a member, also when no event tells of it, a request had read the   *)
(* access before, or the request that should have removed them died.       *)
LapsedLeave == <>[](access = {}) => <>[](row.state # "in" \/ row.role # "MEMBER")
=============================================================================
