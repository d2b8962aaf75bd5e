------------------------ MODULE ChannelAlertsProofs -------------------------
(***************************************************************************)
(* Theorems about who is in the channel of a course (CourseChannel) and    *)
(* who is told of its messages (ChatAlerts).  Of CourseChannel for any     *)
(* number of requests of any kind, any lifetimes of the cached answers and *)
(* any bounds; of ChatAlerts for any number of messages, tabs, processes,  *)
(* calls that read the chat and scans.                                     *)
(***************************************************************************)
EXTENDS CourseChannel, ChatAlerts, FiniteSetTheorems, WellFoundedInduction, TLAPS

(* Who has access has had it until now; a cached yes lives no longer than  *)
(* OkTTL from a time at which the student had access.                      *)
HeldOK ==
  /\ held <= clock
  /\ access # {} => held = clock
CacheOK ==
  cache.there => cache.expires > clock /\ (cache.ok => cache.expires <= held + OkTTL)

(* A request r, what was absent since it began, the time now, the last     *)
(* time the student had access and what gives it: a question that found  *)
(* access was asked before the student last had it, and what a             *)
(* reconciliation that has found nothing has looked for was absent.        *)
Fits(r, absent, now, had, have) ==
  /\ r \in Request /\ absent \in SUBSET Sources
  /\ r.kind = "none" => r.step \in {"idle", "announce"}
  /\ r.since <= now
  /\ r.kind \in {"ask", "look"} /\ r.found # {} => r.since <= had
  /\ r.step \in {"desired", "takeOut"} => r.kind = "reconcile"
  /\ r.kind = "reconcile" => Sources \ have \subseteq absent
  /\ r.step = "desired" /\ r.found = {} => CourseSources \ r.unread \subseteq absent
  /\ r.kind = "reconcile" /\ r.step = "role" /\ r.found = {} => Sources \ r.unread \subseteq absent
  /\ r.step = "takeOut" => absent = Sources

RequestsOK == \A w \in Workers : Fits(req[w], lost[w], clock, held, access)

IInv ==
  /\ TypeOK
  /\ HeldOK
  /\ CacheOK
  /\ RequestsOK

-----------------------------------------------------------------------------
(* Data *)

LEMMA RowTypes == NoRow \in Row /\ \A role \in Roles : In(role) \in Row /\ Out(role) \in Row
BY DEF NoRow, In, Out, Row, Roles

LEMMA RoleTypes == \A found : RoleOf(found) \in Roles
BY DEF RoleOf, Roles

(* The requests an action puts in place. *)
LEMMA RequestTypes ==
  /\ Idle \in Request
  /\ Post \in Request
  /\ \A out \in {"nothing", "added", "removed"} :
       [Idle EXCEPT !.step = "announce", !.out = out] \in Request
  /\ clock \in Times => \A kind \in Requests : Start(kind) \in Request
<1> USE ChannelAssumption
<1>1. Idle \in Request
  BY RowTypes DEF Idle, Request, Kinds, Steps, Times
<1>2. Post \in Request
  BY <1>1 DEF Post, Request, Kinds, Steps
<1>3. \A out \in {"nothing", "added", "removed"} :
        [Idle EXCEPT !.step = "announce", !.out = out] \in Request
  BY <1>1 DEF Request, Steps
<1>4. ASSUME clock \in Times, NEW kind \in Requests PROVE Start(kind) \in Request
  <2> DEFINE step == IF kind = "reconcile" THEN "desired" ELSE "role"
             unread == IF kind = "reconcile" THEN CourseSources ELSE Sources
             since == IF kind = "ask" THEN clock ELSE 0
  <2>1. step \in Steps /\ unread \in SUBSET Sources /\ since \in Times /\ kind \in Kinds
    BY <1>4 DEF Steps, CourseSources, Sources, Times, Kinds
  <2> HIDE DEF step, unread, since
  <2>2. [Idle EXCEPT !.kind = kind, !.step = step, !.unread = unread, !.since = since] \in Request
    BY <1>1, <2>1 DEF Request
  <2> QED
    BY <2>2 DEF Start, step, unread, since
<1> QED
  BY <1>1, <1>2, <1>3, <1>4

(* The idle request, a permitted post and an announcement ask for nothing. *)
LEMMA Quiet ==
  ASSUME TypeOK
  PROVE  /\ Fits(Idle, {}, clock, held, access)
         /\ \A absent \in SUBSET Sources : Fits(Post, absent, clock, held, access)
         /\ \A out \in {"added", "removed"} : Fits([Idle EXCEPT !.step = "announce", !.out = out], {}, clock, held, access)
<1> USE ChannelAssumption DEF TypeOK, Times
<1>1. Fits(Idle, {}, clock, held, access)
  BY RequestTypes DEF Fits, Idle
<1>2. \A absent \in SUBSET Sources : Fits(Post, absent, clock, held, access)
  BY RequestTypes DEF Fits, Post, Idle
<1>3. ASSUME NEW out \in {"added", "removed"}
      PROVE  Fits([Idle EXCEPT !.step = "announce", !.out = out], {}, clock, held, access)
  <2> DEFINE r == [Idle EXCEPT !.step = "announce", !.out = out]
  <2>1. r \in Request
    BY RequestTypes
  <2>2. r.kind = "none" /\ r.step = "announce" /\ r.since = 0
    BY DEF Idle
  <2> HIDE DEF r
  <2>3. Fits(r, {}, clock, held, access)
    BY <2>1, <2>2 DEF Fits
  <2> QED
    BY <2>3 DEF r
<1> QED
  BY <1>1, <1>2, <1>3

(* What a request has just begun to look for, it has not looked for yet.   *)
LEMMA Started ==
  ASSUME TypeOK, NEW kind \in Requests, NEW absent \in SUBSET Sources,
         kind = "reconcile" => Sources \ access \subseteq absent
  PROVE  Fits(Start(kind), absent, clock, held, access)
<1> USE ChannelAssumption DEF TypeOK, Times
<1>1. Start(kind) \in Request
  BY RequestTypes
<1>2. /\ Start(kind).kind = kind
      /\ Start(kind).step = IF kind = "reconcile" THEN "desired" ELSE "role"
      /\ Start(kind).unread = IF kind = "reconcile" THEN CourseSources ELSE Sources
      /\ Start(kind).found = {}
      /\ Start(kind).since <= clock
  BY DEF Start, Idle
<1> QED
  BY <1>1, <1>2 DEF Fits, Requests

(* Time and changes of access leave a request as good as it was.          *)
LEMMA Later ==
  ASSUME TypeOK, TypeOK', NEW r, NEW absent, NEW since \in SUBSET Sources, Fits(r, absent, clock, held, access),
         absent \cup (Sources \ access') \subseteq since \/ r.kind # "reconcile",
         clock <= clock', held <= held'
  PROVE  Fits(r, since, clock', held', access')
<1>1. r.step = "takeOut" => since = Sources
  BY DEF Fits
<1>2. r.since <= clock' /\ (r.kind \in {"ask", "look"} /\ r.found # {} => r.since <= held')
  BY ChannelAssumption DEF Fits, TypeOK, Times, Request
<1> QED
  BY <1>1, <1>2 DEF Fits

RequestTypeOK ==
  /\ req \in [Workers -> Request]
  /\ \A w \in Workers : req[w].kind = "none" => req[w].step \in {"idle", "announce"}
  /\ lost \in [Workers -> SUBSET Sources]

(* One request takes a step. *)
LEMMA OneRequest ==
  ASSUME RequestsOK, TypeOK, NEW w \in Workers, NEW r, NEW absent, Fits(r, absent, clock, held, access),
         req' = [req EXCEPT ![w] = r], lost' = [lost EXCEPT ![w] = absent],
         UNCHANGED <<clock, held, access>>
  PROVE  RequestsOK' /\ RequestTypeOK'
<1> SUFFICES RequestsOK'
  BY DEF RequestsOK, RequestTypeOK, TypeOK, Fits
<1> SUFFICES ASSUME NEW v \in Workers PROVE Fits(req'[v], lost'[v], clock', held', access')
  BY DEF RequestsOK
<1>1. \/ req'[v] = r /\ lost'[v] = absent
      \/ req'[v] = req[v] /\ lost'[v] = lost[v]
  BY DEF TypeOK
<1> QED
  BY <1>1 DEF RequestsOK

-----------------------------------------------------------------------------
(* The invariant *)

(* At first nothing is asked and nothing is cached. *)
LEMMA InitIInv == Init => IInv
<1> SUFFICES ASSUME Init PROVE IInv
  OBVIOUS
<1> USE ChannelAssumption
<1>1. row \in Row
  BY RowTypes DEF Init
<1>2. TypeOK
  <2>1. Idle \in Request /\ Idle.step = "idle"
    BY RequestTypes DEF Idle
  <2>2. cache \in Entry /\ cache.expires <= clock + (IF cache.ok THEN OkTTL ELSE DeniedTTL)
    BY DEF Init, Entry, NoEntry
  <2>3. /\ req \in [Workers -> Request]
        /\ \A w \in Workers : req[w].kind = "none" => req[w].step \in {"idle", "announce"}
        /\ lost \in [Workers -> SUBSET Sources]
    BY <2>1 DEF Init
  <2>4. /\ clock \in Times /\ held \in Times /\ changes \in 0..MaxChanges
        /\ faults \in 0..MaxFaults
    BY DEF Init, Times
  <2>5. /\ access \subseteq Sources /\ packets \subseteq {"invalidate", "leave"}
        /\ connected \in BOOLEAN /\ room \in BOOLEAN
    BY DEF Init
  <2> QED
    BY <1>1, <2>2, <2>3, <2>4, <2>5 DEF TypeOK
<1>3. HeldOK /\ CacheOK
  BY DEF Init, HeldOK, CacheOK, NoEntry
<1>4. RequestsOK
  BY <1>2, Quiet DEF Init, RequestsOK
<1> QED
  BY <1>2, <1>3, <1>4 DEF IInv

(* A new request. *)
LEMMA BeginStep ==
  ASSUME IInv, NEW w \in Workers, NEW kind, Begin(w, kind)
  PROVE  IInv'
<1> DEFINE absent == IF kind = "reconcile" THEN Sources \ access ELSE {}
<1>1. kind \in Requests
  BY ChannelAssumption DEF Begin
<1>2. absent \in SUBSET Sources
  OBVIOUS
<1>3. Fits(Start(kind), absent, clock, held, access)
  BY <1>1, <1>2, Started DEF IInv
<1>4. RequestsOK' /\ RequestTypeOK'
  BY <1>3, OneRequest DEF IInv, Begin, worldVars
<1> QED
  BY <1>4 DEF IInv, TypeOK, RequestTypeOK, HeldOK, CacheOK, Begin, worldVars, nodeVars

(* Access changes, whatever requests see of it. *)
LEMMA ChangeStep ==
  ASSUME IInv, NEW s \in Sources, Changed(s), RequestTypeOK'
  PROVE  TypeOK' /\ HeldOK' /\ CacheOK' /\ clock <= clock' /\ held <= held'
<1> USE ChannelAssumption
<1>1. access' \subseteq Sources
  BY DEF Changed, Toggle, IInv, TypeOK
<1>2. held' \in Times /\ held <= held' /\ clock' = clock /\ clock <= clock'
  BY DEF Changed, IInv, TypeOK, HeldOK, Times
<1>3. TypeOK'
  BY <1>1, <1>2 DEF Changed, IInv, TypeOK, RequestTypeOK, nodeVars
<1>4. HeldOK'
  BY DEF Changed, IInv, TypeOK, HeldOK, Times
<1>5. CacheOK'
  BY <1>2 DEF Changed, IInv, TypeOK, CacheOK, Times, Entry, nodeVars
<1> QED
  BY <1>2, <1>3, <1>4, <1>5

LEMMA EnrollmentStep ==
  ASSUME IInv, NEW w \in Workers, EnrollmentChanges(w)
  PROVE  IInv'
<1> DEFINE r == Start("reconcile")
<1>1. /\ r \in Request
      /\ r.kind = "reconcile" /\ r.step = "desired" /\ r.found = {} /\ r.since = 0
      /\ r.unread = CourseSources
  BY ChannelAssumption, RequestTypes DEF IInv, TypeOK, Requests, Start, Idle
<1> HIDE DEF r
<1>2. "enrolled" \in Sources /\ access' \subseteq Sources
  BY DEF EnrollmentChanges, Changed, Toggle, IInv, TypeOK, Sources
<1>3. req' = [req EXCEPT ![w] = r]
  BY DEF EnrollmentChanges, r
<1>4. RequestTypeOK'
  BY <1>1, <1>2, <1>3 DEF EnrollmentChanges, IInv, TypeOK, RequestTypeOK
<1>5. TypeOK' /\ HeldOK' /\ CacheOK' /\ clock <= clock' /\ held <= held'
  BY <1>2, <1>4, ChangeStep DEF EnrollmentChanges
<1>6. ASSUME NEW v \in Workers PROVE Fits(req'[v], lost'[v], clock', held', access')
  <2>1. CASE v = w
    <3>1. req'[v] = r /\ lost'[v] \in SUBSET Sources /\ Sources \ access' \subseteq lost'[v]
      BY <1>2, <1>3, <2>1 DEF EnrollmentChanges, IInv, TypeOK
    <3>2. 0 <= clock'
      BY <1>5, ChannelAssumption DEF TypeOK, Times
    <3> QED
      BY <1>1, <3>1, <3>2 DEF Fits
  <2>2. CASE v # w
    <3>1. req'[v] = req[v] /\ lost'[v] \in SUBSET Sources /\ Fits(req[v], lost[v], clock, held, access)
      BY <1>3, <1>4, <2>2 DEF IInv, TypeOK, RequestTypeOK, RequestsOK
    <3>2. lost[v] \cup (Sources \ access') \subseteq lost'[v] \/ req[v].kind # "reconcile"
      BY DEF EnrollmentChanges, Is
    <3> QED
      BY <1>5, <3>1, <3>2, Later DEF IInv
  <2> QED
    BY <2>1, <2>2
<1> QED
  BY <1>5, <1>6 DEF IInv, RequestsOK

LEMMA SourceStep ==
  ASSUME IInv, NEW s \in Sources, SourceChanges(s)
  PROVE  IInv'
<1>1. access' \subseteq Sources
  BY DEF SourceChanges, Changed, Toggle, IInv, TypeOK
<1>2. RequestTypeOK'
  BY <1>1 DEF SourceChanges, IInv, TypeOK, RequestTypeOK
<1>3. TypeOK' /\ HeldOK' /\ CacheOK' /\ clock <= clock' /\ held <= held'
  BY <1>2, ChangeStep DEF SourceChanges
<1>4. ASSUME NEW v \in Workers PROVE Fits(req'[v], lost'[v], clock', held', access')
  <2>1. req'[v] = req[v] /\ lost'[v] \in SUBSET Sources /\ Fits(req[v], lost[v], clock, held, access)
    BY <1>2 DEF SourceChanges, IInv, RequestTypeOK, RequestsOK
  <2>2. lost[v] \cup (Sources \ access') \subseteq lost'[v] \/ req[v].kind # "reconcile"
    BY DEF SourceChanges, Is
  <2> QED
    BY <1>3, <2>1, <2>2, Later DEF IInv
<1> QED
  BY <1>3, <1>4 DEF IInv, RequestsOK

(* The clock: an entry that has expired is gone. *)
LEMMA TickStep ==
  ASSUME IInv, Tick
  PROVE  IInv'
<1> USE ChannelAssumption
<1>1. clock' \in Times /\ held' \in Times /\ clock < clock' /\ held <= held'
  BY DEF Tick, IInv, TypeOK, HeldOK, Times
<1>2. cache' = cache \/ cache' = NoEntry
  BY DEF Tick
<1>3. cache' \in Entry /\ cache'.expires <= clock' + (IF cache'.ok THEN OkTTL ELSE DeniedTTL)
  <2>1. CASE cache' = cache
    BY <1>1, <2>1 DEF IInv, TypeOK, Times, Entry
  <2>2. CASE cache' = NoEntry
    <3>1. cache' \in Entry /\ cache'.ok = FALSE /\ cache'.expires = 0
      BY <2>2 DEF Entry, NoEntry
    <3>2. (IF cache'.ok THEN OkTTL ELSE DeniedTTL) = DeniedTTL
      BY <3>1
    <3>3. clock' \in Nat /\ DeniedTTL \in Nat
      BY <1>1 DEF Times
    <3>4. \A m, n \in Nat : 0 <= m + n
      OBVIOUS
    <3> QED
      BY <3>1, <3>2, <3>3, <3>4
  <2> QED
    BY <1>2, <2>1, <2>2
<1>4. TypeOK'
  BY <1>1, <1>3 DEF Tick, IInv, TypeOK
<1>5. HeldOK'
  BY DEF Tick, IInv, TypeOK, HeldOK, Times
<1>6. CacheOK'
  BY <1>1 DEF Tick, IInv, TypeOK, CacheOK, Times, Entry, NoEntry
<1>7. ASSUME NEW v \in Workers PROVE Fits(req'[v], lost'[v], clock', held', access')
  <2>1. req'[v] = req[v] /\ lost'[v] = lost[v] /\ lost[v] \in SUBSET Sources /\ Fits(req[v], lost[v], clock, held, access)
    BY DEF Tick, IInv, TypeOK, RequestsOK
  <2>2. clock <= clock' /\ held <= held'
    BY <1>1 DEF IInv, TypeOK, Times
  <2>3. lost[v] \cup (Sources \ access') \subseteq lost[v] \/ req[v].kind # "reconcile"
    BY <2>1 DEF Tick, Fits
  <2> QED
    BY <1>4, <2>1, <2>2, <2>3, Later DEF IInv
<1> QED
  BY <1>4, <1>5, <1>6, <1>7 DEF IInv, RequestsOK

-----------------------------------------------------------------------------
(* Steps of one request *)

(* A step that leaves time and access alone. *)
LEMMA RequestStep ==
  ASSUME IInv, NEW w \in Workers, NEW r, NEW absent, Fits(r, absent, clock, held, access),
         req' = [req EXCEPT ![w] = r], lost' = [lost EXCEPT ![w] = absent],
         UNCHANGED <<clock, access, changes, held>>,
         cache' \in Entry, CacheOK',
         cache'.expires <= clock + (IF cache'.ok THEN OkTTL ELSE DeniedTTL),
         row' \in Row, faults' \in 0..MaxFaults, packets' \subseteq {"invalidate", "leave"},
         connected' \in BOOLEAN, room' \in BOOLEAN
  PROVE  IInv'
<1>1. RequestsOK' /\ RequestTypeOK'
  BY OneRequest DEF IInv
<1> QED
  BY <1>1 DEF IInv, TypeOK, RequestTypeOK, HeldOK

(* A step that leaves the cache alone, too. *)
LEMMA QuietStep ==
  ASSUME IInv, NEW w \in Workers, NEW r, NEW absent, Fits(r, absent, clock, held, access),
         req' = [req EXCEPT ![w] = r], lost' = [lost EXCEPT ![w] = absent],
         UNCHANGED <<clock, access, changes, held, cache>>,
         row' \in Row, faults' \in 0..MaxFaults, packets' \subseteq {"invalidate", "leave"},
         connected' \in BOOLEAN, room' \in BOOLEAN
  PROVE  IInv'
<1>1. cache' \in Entry /\ cache'.expires <= clock + (IF cache'.ok THEN OkTTL ELSE DeniedTTL)
  BY DEF IInv, TypeOK
<1>2. CacheOK'
  BY DEF IInv, CacheOK
<1> QED
  BY <1>1, <1>2, RequestStep

LEMMA ReadStep ==
  ASSUME IInv, NEW w \in Workers, NEW s \in Sources, ReadSource(w, s)
  PROVE  IInv'
<1> DEFINE found == req[w].found \cup ({s} \cap access)
           left == req[w].unread \ {s}
           unread == IF found # {} /\ left = {"subscribed"} THEN {} ELSE left
           r == [req[w] EXCEPT !.found = found, !.unread = unread]
<1>1. Fits(req[w], lost[w], clock, held, access) /\ req[w] \in Request
  BY DEF IInv, RequestsOK, Fits
<1>2. found \in SUBSET Sources /\ unread \in SUBSET Sources
  BY <1>1 DEF Request, IInv, TypeOK
<1>3. /\ r \in Request
      /\ r.kind = req[w].kind /\ r.step = req[w].step /\ r.since = req[w].since
      /\ r.found = found /\ r.unread = unread
  BY <1>1, <1>2 DEF Request
<1>4. found # {} => req[w].found # {} \/ held = clock
  BY DEF IInv, HeldOK
<1>5. found = {} => req[w].found = {} /\ unread = req[w].unread \ {s} /\ s \notin access
  OBVIOUS
<1>6. r.step # "takeOut" /\ (r.kind = "none" => r.step \in {"idle", "announce"})
  BY <1>1, <1>3 DEF ReadSource, At, Fits
<1>7. r.since <= clock /\ (r.kind \in {"ask", "look"} /\ r.found # {} => r.since <= held)
  BY <1>1, <1>3, <1>4 DEF Fits
<1> HIDE DEF r, unread, found, left
<1>8. Fits(r, lost[w], clock, held, access)
  BY <1>1, <1>3, <1>5, <1>6, <1>7 DEF Fits
<1>9. req' = [req EXCEPT ![w] = r] /\ lost' = [lost EXCEPT ![w] = lost[w]]
  BY DEF ReadSource, r, unread, found, left, IInv, TypeOK
<1>10. UNCHANGED <<clock, access, changes, held, cache, row, faults, packets, connected, room>>
  BY DEF ReadSource, worldVars, nodeVars
<1>11. /\ row' \in Row /\ faults' \in 0..MaxFaults /\ packets' \subseteq {"invalidate", "leave"}
       /\ connected' \in BOOLEAN /\ room' \in BOOLEAN
  BY <1>10 DEF IInv, TypeOK
<1> QED
  BY <1>8, <1>9, <1>10, <1>11, QuietStep

(* A request goes to another step, keeping what it looked for. *)
LEMMA GotoFits ==
  ASSUME IInv, NEW w \in Workers, NEW step \in Steps \ {"idle", "desired", "takeOut"},
         Is(w, "reconcile") => step # "role", ~ Is(w, "none")
  PROVE  Fits([req[w] EXCEPT !.step = step], lost[w], clock, held, access)
<1> DEFINE r == [req[w] EXCEPT !.step = step]
<1>1. Fits(req[w], lost[w], clock, held, access) /\ req[w] \in Request
  BY DEF IInv, RequestsOK, Fits
<1>2. /\ r \in Request
      /\ r.kind = req[w].kind /\ r.step = step /\ r.since = req[w].since
      /\ r.found = req[w].found /\ r.unread = req[w].unread
  BY <1>1 DEF Request
<1> HIDE DEF r
<1>3. Fits(r, lost[w], clock, held, access)
  BY <1>1, <1>2 DEF Fits, Is
<1> QED
  BY <1>3 DEF r

(* A request is over, or has only to announce what it did. *)
LEMMA DoneStep ==
  ASSUME IInv, NEW w \in Workers,
         Done(w) \/ \E out \in {"added", "removed"} : Report(w, out),
         UNCHANGED <<clock, access, changes, held, cache>>,
         row' \in Row, faults' \in 0..MaxFaults, packets' \subseteq {"invalidate", "leave"},
         connected' \in BOOLEAN, room' \in BOOLEAN
  PROVE  IInv'
<1>1. CASE Done(w)
  BY <1>1, Quiet, QuietStep DEF Done, IInv
<1>2. ASSUME NEW out \in {"added", "removed"}, Report(w, out)
      PROVE  IInv'
  BY <1>2, Quiet, QuietStep DEF Report, IInv
<1> QED
  BY <1>1, <1>2

(* The rows the requests write. *)
LEMMA RowWrites ==
  ASSUME row \in Row
  PROVE  /\ [row EXCEPT !.state = "out", !.byModerator = FALSE] \in Row
         /\ [row EXCEPT !.state = "out", !.byModerator = TRUE] \in Row
         /\ \A found : [In(RoleOf(found)) EXCEPT !.byModerator = row.byModerator] \in Row
<1>1. \A found : In(RoleOf(found)) \in Row
  BY RowTypes, RoleTypes
<1> QED
  BY <1>1 DEF Row

LEMMA FindRowsStep ==
  ASSUME IInv, NEW w \in Workers, FindRows(w)
  PROVE  IInv'
<1>1. /\ Fits(req[w], lost[w], clock, held, access) /\ req[w] \in Request
      /\ req[w].step = "desired" /\ req[w].kind = "reconcile" /\ row \in Row
  BY DEF FindRows, At, IInv, TypeOK, RequestsOK, Fits
<1>2. /\ UNCHANGED <<clock, access, changes, held, cache>>
      /\ row' \in Row /\ faults' \in 0..MaxFaults /\ packets' \subseteq {"invalidate", "leave"}
      /\ connected' \in BOOLEAN /\ room' \in BOOLEAN
  BY DEF FindRows, worldVars, nodeVars, IInv, TypeOK
<1>3. lost' = lost => lost' = [lost EXCEPT ![w] = lost[w]]
  BY DEF IInv, TypeOK
<1>4. CASE req[w].found # {}
  <2> DEFINE r == [req[w] EXCEPT !.step = "putIn", !.row = row]
  <2>1. /\ r \in Request
        /\ r.kind = "reconcile" /\ r.step = "putIn" /\ r.since = req[w].since
    BY <1>1 DEF Request, Steps
  <2>2. req' = [req EXCEPT ![w] = r] /\ lost' = lost
    BY <1>4 DEF FindRows
  <2> HIDE DEF r
  <2>3. Fits(r, lost[w], clock, held, access)
    BY <1>1, <2>1 DEF Fits
  <2> QED
    BY <1>2, <1>3, <2>2, <2>3, QuietStep
<1>5. CASE req[w].found = {} /\ row.state = "in"
  <2> DEFINE r == [req[w] EXCEPT !.step = "role", !.row = row, !.unread = Sources]
  <2>1. /\ r \in Request
        /\ r.kind = "reconcile" /\ r.step = "role" /\ r.since = req[w].since
        /\ r.unread = Sources
    BY <1>1 DEF Request, Steps
  <2>2. req' = [req EXCEPT ![w] = r] /\ lost' = lost
    BY <1>5 DEF FindRows
  <2> HIDE DEF r
  <2>3. Fits(r, lost[w], clock, held, access)
    BY <1>1, <2>1 DEF Fits
  <2> QED
    BY <1>2, <1>3, <2>2, <2>3, QuietStep
<1>6. CASE req[w].found = {} /\ row.state # "in"
  BY <1>2, <1>6, DoneStep DEF FindRows
<1> QED
  BY <1>4, <1>5, <1>6

LEMMA ReconcileStep ==
  ASSUME IInv, NEW w \in Workers,
         PutIn(w) \/ StillAllowed(w) \/ TakeOut(w) \/ Announce(w)
  PROVE  IInv'
<1>1. /\ row \in Row /\ faults \in 0..MaxFaults /\ packets \subseteq {"invalidate", "leave"}
      /\ connected \in BOOLEAN /\ room \in BOOLEAN
  BY DEF IInv, TypeOK
<1>2. CASE PutIn(w)
  <2>1. row' \in Row
    BY <1>1, <1>2, RowTypes, RoleTypes DEF PutIn
  <2>2. Done(w) \/ \E out \in {"added", "removed"} : Report(w, out)
    BY <1>2 DEF PutIn
  <2> QED
    BY <1>1, <1>2, <2>1, <2>2, DoneStep DEF PutIn, worldVars, nodeVars
<1>3. CASE StillAllowed(w)
  <2>1. CASE Done(w)
    BY <1>1, <1>3, <2>1, DoneStep DEF StillAllowed, worldVars, nodeVars
  <2>2. CASE req[w].found = {}
    <3> DEFINE r == [req[w] EXCEPT !.step = "takeOut"]
    <3>1. /\ Fits(req[w], lost[w], clock, held, access) /\ req[w] \in Request
          /\ req[w].kind = "reconcile" /\ req[w].step = "role" /\ req[w].unread = {}
      BY <1>3 DEF StillAllowed, Is, At, Resolved, IInv, RequestsOK, Fits
    <3>2. lost[w] = Sources
      BY <2>2, <3>1 DEF Fits
    <3>3. /\ r \in Request
          /\ r.kind = "reconcile" /\ r.step = "takeOut" /\ r.since = req[w].since
      BY <3>1 DEF Request, Steps
    <3>4. req' = [req EXCEPT ![w] = r] /\ lost' = [lost EXCEPT ![w] = lost[w]]
      BY <1>3, <2>2 DEF StillAllowed, Goto, IInv, TypeOK
    <3> HIDE DEF r
    <3>5. Fits(r, lost[w], clock, held, access)
      BY <3>1, <3>2, <3>3 DEF Fits
    <3> QED
      BY <1>1, <1>3, <3>4, <3>5, QuietStep DEF StillAllowed, worldVars, nodeVars
  <2> QED
    BY <1>3, <2>1, <2>2 DEF StillAllowed
<1>4. CASE TakeOut(w)
  BY <1>1, <1>4, RowWrites, DoneStep DEF TakeOut, worldVars, nodeVars
<1>5. CASE Announce(w)
  <2>1. packets' \subseteq {"invalidate", "leave"}
    BY <1>1, <1>5 DEF Announce
  <2> QED
    BY <1>1, <1>5, <2>1, DoneStep DEF Announce, worldVars, nodeVars
<1> QED
  BY <1>2, <1>3, <1>4, <1>5

LEMMA ChannelStep ==
  ASSUME IInv, NEW w \in Workers,
         CheckRole(w) \/ WriteOpen(w) \/ WriteAdded(w) \/ WriteRemoved(w) \/ WritePost(w)
  PROVE  IInv'
<1>1. /\ row \in Row /\ faults \in 0..MaxFaults /\ packets \subseteq {"invalidate", "leave"}
      /\ connected \in BOOLEAN /\ room \in BOOLEAN
  BY DEF IInv, TypeOK
<1>2. CASE CheckRole(w)
  <2>1. CASE Done(w)
    BY <1>1, <1>2, <2>1, DoneStep DEF CheckRole, worldVars, nodeVars
  <2>2. CASE Goto(w, "write")
    <3>1. "write" \in Steps \ {"idle", "desired", "takeOut"} /\ ~ Is(w, "none")
      BY <1>2 DEF CheckRole, Is, Steps
    <3>2. Fits([req[w] EXCEPT !.step = "write"], lost[w], clock, held, access)
      BY <3>1, GotoFits
    <3>3. /\ req' = [req EXCEPT ![w] = [req[w] EXCEPT !.step = "write"]]
          /\ lost' = [lost EXCEPT ![w] = lost[w]]
      BY <2>2 DEF Goto, IInv, TypeOK
    <3> QED
      BY <1>1, <1>2, <3>2, <3>3, QuietStep DEF CheckRole, worldVars, nodeVars
  <2> QED
    BY <1>2, <2>1, <2>2 DEF CheckRole
<1>3. CASE WriteOpen(w)
  BY <1>1, <1>3, RowWrites, DoneStep DEF WriteOpen, worldVars, nodeVars
<1>4. CASE WriteAdded(w)
  BY <1>1, <1>4, RowTypes, RoleTypes, DoneStep DEF WriteAdded, worldVars, nodeVars
<1>5. CASE WriteRemoved(w)
  BY <1>1, <1>5, RowWrites, DoneStep DEF WriteRemoved, worldVars, nodeVars
<1>6. CASE WritePost(w)
  BY <1>1, <1>6, RowTypes, DoneStep DEF WritePost, Roles, worldVars, nodeVars
<1> QED
  BY <1>2, <1>3, <1>4, <1>5, <1>6

-----------------------------------------------------------------------------
(* The socket server *)

(* An answer that found access is cached for OkTTL from the question, and  *)
(* the student still had access then.                                      *)
LEMMA AnswerStep ==
  ASSUME IInv, NEW w \in Workers, Answer(w)
  PROVE  IInv'
<1> USE ChannelAssumption
<1> DEFINE ok == req[w].found # {}
           since == req[w].since
           entry == [there |-> TRUE, ok |-> ok, expires |-> since + TTL(ok)]
<1>1. /\ Fits(req[w], lost[w], clock, held, access) /\ req[w] \in Request
      /\ req[w].kind \in {"ask", "look"}
  BY DEF Answer, IInv, RequestsOK, Fits
<1>2. /\ since \in Nat /\ since <= clock /\ (ok => since <= held)
      /\ clock \in Nat /\ held \in Nat
  BY <1>1 DEF Fits, Request, Times, IInv, TypeOK
<1>3. TTL(ok) \in Nat /\ TTL(ok) = (IF ok THEN OkTTL ELSE DeniedTTL)
  BY DEF TTL
<1>4. entry \in Entry
  BY <1>2, <1>3 DEF Entry
<1>5. since + TTL(ok) <= clock + TTL(ok) /\ (ok => since + TTL(ok) <= held + OkTTL)
  BY <1>2, <1>3
<1> HIDE DEF ok, since
<1>6. cache' = IF since + TTL(ok) > clock THEN entry ELSE NoEntry
  BY DEF Answer, Cached, ok, since
<1>7. UNCHANGED <<clock, access, changes, held>>
  BY DEF Answer, worldVars
<1>8. /\ cache' \in Entry /\ CacheOK'
      /\ cache'.expires <= clock + (IF cache'.ok THEN OkTTL ELSE DeniedTTL)
  <2>1. CASE cache' = entry /\ since + TTL(ok) > clock
    <3>1. cache'.ok = ok /\ cache'.expires = since + TTL(ok)
      BY <2>1
    <3>2. cache' \in Entry
      BY <1>4, <2>1
    <3>3. cache'.expires > clock /\ (cache'.ok => cache'.expires <= held + OkTTL)
      BY <1>5, <2>1, <3>1
    <3>4. cache'.expires <= clock + TTL(ok)
      BY <1>5, <3>1
    <3> QED
      BY <1>3, <1>7, <3>1, <3>2, <3>3, <3>4 DEF CacheOK
  <2>2. CASE cache' = NoEntry
    <3>1. cache' \in Entry /\ cache'.there = FALSE /\ cache'.ok = FALSE /\ cache'.expires = 0
      BY <2>2 DEF Entry, NoEntry
    <3>2. \A m, n \in Nat : 0 <= m + n
      OBVIOUS
    <3>3. (IF cache'.ok THEN OkTTL ELSE DeniedTTL) = DeniedTTL
      BY <3>1
    <3> QED
      BY <1>2, <3>1, <3>2, <3>3 DEF CacheOK
  <2> QED
    BY <1>6, <2>1, <2>2
<1>9. /\ row' \in Row /\ faults' \in 0..MaxFaults /\ packets' \subseteq {"invalidate", "leave"}
      /\ connected' \in BOOLEAN /\ room' \in BOOLEAN
  BY DEF Answer, IInv, TypeOK
<1>10. CASE Done(w)
  <2>1. Fits(Idle, {}, clock, held, access)
    BY Quiet DEF IInv
  <2> QED
    BY <1>7, <1>8, <1>9, <1>10, <2>1, RequestStep DEF Done
<1>11. CASE req' = [req EXCEPT ![w] = Post] /\ lost' = lost
  <2>1. Fits(Post, lost[w], clock, held, access)
    BY Quiet DEF IInv, TypeOK
  <2>2. lost' = [lost EXCEPT ![w] = lost[w]]
    BY <1>11 DEF IInv, TypeOK
  <2> QED
    BY <1>7, <1>8, <1>9, <1>11, <2>1, <2>2, RequestStep
<1> QED
  BY <1>10, <1>11 DEF Answer

LEMMA CachedStep ==
  ASSUME IInv, NEW w \in Workers, AskCached(w)
  PROVE  IInv'
<1>1. /\ UNCHANGED <<clock, access, changes, held, cache, lost>>
      /\ row' \in Row /\ faults' \in 0..MaxFaults /\ packets' \subseteq {"invalidate", "leave"}
      /\ connected' \in BOOLEAN /\ room' \in BOOLEAN
  BY DEF AskCached, worldVars, IInv, TypeOK
<1>2. CASE req' = [req EXCEPT ![w] = Post]
  <2>1. Fits(Post, lost[w], clock, held, access)
    BY Quiet DEF IInv, TypeOK
  <2>2. lost' = [lost EXCEPT ![w] = lost[w]]
    BY <1>1 DEF IInv, TypeOK
  <2> QED
    BY <1>1, <1>2, <2>1, <2>2, QuietStep
<1>3. CASE req' = req
  BY <1>1, <1>3 DEF IInv, TypeOK, HeldOK, CacheOK, RequestsOK
<1> QED
  BY <1>2, <1>3 DEF AskCached

LEMMA NodeStep ==
  ASSUME IInv, Invalidate \/ LeaveRoom \/ CloseConversation \/ Recover \/ Reconnect
               \/ \E p \in packets : LosePacket(p)
  PROVE  IInv'
<1>1. UNCHANGED <<clock, access, changes, held, row, req, lost>>
  BY DEF Invalidate, LeaveRoom, CloseConversation, Recover, Reconnect, LosePacket, worldVars
<1>2. cache' = cache \/ cache' = NoEntry
  BY DEF Invalidate, LeaveRoom, CloseConversation, Recover, Reconnect, LosePacket, nodeVars
<1>3. /\ faults' \in 0..MaxFaults /\ packets' \subseteq {"invalidate", "leave"}
      /\ connected' \in BOOLEAN /\ room' \in BOOLEAN
  <2>1. faults' \in 0..MaxFaults
    BY ChannelAssumption
       DEF Invalidate, LeaveRoom, CloseConversation, Recover, Reconnect, LosePacket, Fault, IInv, TypeOK
  <2>2. packets' \subseteq {"invalidate", "leave"}
    BY DEF Invalidate, LeaveRoom, CloseConversation, Recover, Reconnect, LosePacket, IInv, TypeOK
  <2>3. connected' \in BOOLEAN
    BY DEF Invalidate, LeaveRoom, CloseConversation, Recover, Reconnect, LosePacket, nodeVars,
           IInv, TypeOK
  <2>4. room' \in BOOLEAN
    BY DEF Invalidate, LeaveRoom, CloseConversation, Recover, Reconnect, LosePacket, nodeVars,
           IInv, TypeOK
  <2> QED
    BY <2>1, <2>2, <2>3, <2>4
<1>4. /\ cache' \in Entry /\ CacheOK'
      /\ cache'.expires <= clock + (IF cache'.ok THEN OkTTL ELSE DeniedTTL)
  <2>1. CASE cache' = cache
    BY <1>1, <2>1 DEF IInv, TypeOK, CacheOK
  <2>2. CASE cache' = NoEntry
    <3>1. cache' \in Entry /\ cache'.there = FALSE /\ cache'.ok = FALSE /\ cache'.expires = 0
      BY <2>2 DEF Entry, NoEntry
    <3>2. clock \in Nat /\ DeniedTTL \in Nat /\ \A m, n \in Nat : 0 <= m + n
      BY ChannelAssumption DEF IInv, TypeOK, Times
    <3>3. (IF cache'.ok THEN OkTTL ELSE DeniedTTL) = DeniedTTL
      BY <3>1
    <3> QED
      BY <3>1, <3>2, <3>3 DEF CacheOK
  <2> QED
    BY <1>2, <2>1, <2>2
<1> QED
  BY <1>1, <1>3, <1>4 DEF IInv, TypeOK, HeldOK, RequestsOK

(* A question whose socket goes is still a question. *)
LEMMA DisconnectStep ==
  ASSUME IInv, Disconnect
  PROVE  IInv'
<1>1. ASSUME NEW v \in Workers
      PROVE  /\ Fits(req'[v], lost[v], clock, held, access)
             /\ req'[v] \in Request
             /\ req'[v].kind = "none" => req'[v].step \in {"idle", "announce"}
  <2> DEFINE r == [req[v] EXCEPT !.kind = "look"]
  <2>1. Fits(req[v], lost[v], clock, held, access) /\ req[v] \in Request
    BY DEF IInv, RequestsOK, Fits
  <2>2. CASE Is(v, "ask")
    <3>1. /\ r \in Request
          /\ r.kind = "look" /\ r.step = req[v].step /\ r.since = req[v].since
          /\ r.found = req[v].found /\ r.unread = req[v].unread
      BY <2>1 DEF Request, Kinds
    <3>2. req'[v] = r
      BY <2>2 DEF Disconnect
    <3> HIDE DEF r
    <3> QED
      BY <2>1, <2>2, <3>1, <3>2 DEF Fits, Is
  <2>3. CASE ~ Is(v, "ask")
    BY <2>1, <2>3 DEF Disconnect, Fits
  <2> QED
    BY <2>2, <2>3
<1>2. /\ req' \in [Workers -> Request]
      /\ \A v \in Workers : req'[v].kind = "none" => req'[v].step \in {"idle", "announce"}
  <2>1. req' = [v \in Workers |-> req'[v]]
    BY DEF Disconnect
  <2> QED
    BY <1>1, <2>1
<1>3. faults' \in 0..MaxFaults
  BY ChannelAssumption DEF Disconnect, Fault, IInv, TypeOK
<1> QED
  BY <1>1, <1>2, <1>3 DEF Disconnect, IInv, TypeOK, HeldOK, CacheOK, RequestsOK, worldVars

LEMMA ThrowStep ==
  ASSUME IInv, NEW w \in Workers, Throw(w)
  PROVE  IInv'
<1>1. faults' \in 0..MaxFaults
  BY ChannelAssumption DEF Throw, Fault, IInv, TypeOK
<1>2. /\ row \in Row /\ packets \subseteq {"invalidate", "leave"}
      /\ connected \in BOOLEAN /\ room \in BOOLEAN
  BY DEF IInv, TypeOK
<1> QED
  BY <1>1, <1>2, DoneStep DEF Throw, worldVars, nodeVars

-----------------------------------------------------------------------------
(* Theorems *)

(* Every step of the specification keeps the invariant. *)
LEMMA NextIInv == IInv /\ [Next]_vars => IInv'
<1> SUFFICES ASSUME IInv, [Next]_vars PROVE IInv'
  OBVIOUS
<1>1. CASE UNCHANGED vars
  BY <1>1 DEF vars, worldVars, nodeVars, IInv, TypeOK, HeldOK, CacheOK, RequestsOK
<1>2. ASSUME NEW w \in Workers, Requested(w)
      PROVE  IInv'
  BY <1>2, BeginStep, EnrollmentStep, CachedStep
     DEF Requested, LoadInbox, Sweep, OpenChannel, AddMember, RemoveMember, Ask
<1>3. ASSUME NEW w \in Workers, Step(w)
      PROVE  IInv'
  BY <1>3, ReadStep, FindRowsStep, ReconcileStep, ChannelStep, AnswerStep DEF Step
<1>4. ASSUME NEW w \in Workers, Throw(w)
      PROVE  IInv'
  BY <1>4, ThrowStep
<1>5. CASE SourceChanges("assists") \/ SourceChanges("subscribed")
  BY <1>5, SourceStep DEF Sources
<1>6. CASE Tick
  BY <1>6, TickStep
<1>7. CASE Invalidate \/ LeaveRoom \/ CloseConversation \/ Recover \/ Reconnect
           \/ \E p \in packets : LosePacket(p)
  BY <1>7, NodeStep
<1>8. CASE Disconnect
  BY <1>8, DisconnectStep
<1> QED
  BY <1>1, <1>2, <1>3, <1>4, <1>5, <1>6, <1>7, <1>8 DEF Next

(* The invariant holds at all times. *)
THEOREM Invariant == Spec => []IInv
BY InitIInv, NextIInv, PTL DEF Spec

(* Rows, requests, packets and the cached answer are of the kinds the code *)
(* handles, and no cached answer outlives the lifetime of its kind.        *)
THEOREM TypeCorrect == Spec => []TypeOK
<1>1. IInv => TypeOK
  BY DEF IInv
<1> QED
  BY <1>1, Invariant, PTL

(* context.ts: a cached yes is never older than CACHE_TTL_MS, measured     *)
(* from when the student last had access, whatever is lost or overtaken.   *)
THEOREM CacheStaysRecent == Spec => []CachedAccessIsRecent
<1>1. IInv => CachedAccessIsRecent
  <2> SUFFICES ASSUME IInv, cache.there, cache.ok
               PROVE  clock < held + OkTTL
    BY DEF CachedAccessIsRecent
  <2>1. cache.expires > clock /\ cache.expires <= held + OkTTL
    BY DEF IInv, CacheOK
  <2>2. cache.expires \in Nat /\ clock \in Nat /\ held \in Nat
    BY ChannelAssumption DEF IInv, TypeOK, Entry, Times
  <2> QED
    BY <2>1, <2>2, ChannelAssumption
<1> QED
  BY <1>1, Invariant, PTL

(* reconcileCourseGroups: a student is only taken out of a channel when    *)
(* everything that gives access was absent at some time since the          *)
(* reconciliation began.                                                   *)
THEOREM OnlyRemovedForCause == Spec => []RemovedForCause
<1>1. IInv => RemovedForCause
  BY DEF IInv, RequestsOK, Fits, RemovedForCause, At
<1> QED
  BY <1>1, Invariant, PTL

-----------------------------------------------------------------------------
(* ChatAlerts *)

(* The messages whose notification is written. *)
DoneMessages == {m \in Messages : send[m].step = "done"}

(* The messages whose writeOne has begun, each at a time of its own. *)
BegunMessages == {m \in Messages : send[m].at # 0}

(* What a writeOne under way holds: a row that was found is one that exists, *)
(* and its count no more than the messages it tells of by now.               *)
SendsOK ==
  \A m \in Messages :
    /\ m > lastSeq => send[m].step = "none"
    /\ send[m].step \in {"none", "saved"} => send[m].at = 0
    /\ send[m].step # "write" /\ send[m].step # "done" => send[m].row = NoneFound
    /\ send[m].row = NoneFound => send[m].count = 0
    /\ send[m].row # NoneFound =>
         rows[send[m].row].status # "NONE" /\ send[m].count <= Cardinality(rows[send[m].row].covers)

(* The count of a collapsing notification never passes the number of messages *)
(* the row tells of.                                                          *)
CountsOK == \A i \in Rows : rows[i].count <= Cardinality(rows[i].covers)

RowsOK ==
  \A i \in Rows :
    /\ rows[i].status # "NONE" => send[i].step = "done"
    /\ rows[i].covers \subseteq DoneMessages
(* markChatRead gets as far as markGroupRead only when the position has come *)
(* to what it saw first, so all up to reader.seen is read by then.           *)
ReaderOK ==
  \A r \in Readers :
    /\ reader[r].seen <= lastSeq /\ reader[r].target <= lastSeq
    /\ reader[r].step = "mark" => reader[r].seen <= lastRead
(* UnreadIsAlerted does not say which row: here it is one that tells of the  *)
(* message itself, so another message's row being read leaves it alone.      *)
AlertedOK ==
  \A m \in Messages :
    m > lastRead /\ send[m].step = "done" /\ m \notin excused.messages =>
       \E i \in Rows : rows[i].status = "UNREAD" /\ m \in rows[i].covers
ScansOK ==
  \A s \in Scans : scan[s].wanted \subseteq scan[s].batch /\ (scan[s].step = "idle" => scan[s].batch = {})
(* A row outside excused.rows is held by one scan at most; what was pushed   *)
(* is marked or will be by the scan that holds it, and what that scan still  *)
(* means to push, or has yet to decide on, was never pushed.                 *)
PushesOK ==
  \A i \in Rows \ excused.rows :
    /\ pushes[i] <= 1
    /\ pushes[i] > 0 => rows[i].pushed \/ \E s \in Scans : i \in scan[s].batch
    /\ \A s, z \in Scans : i \in scan[s].batch /\ i \in scan[z].batch => s = z
    /\ \A s \in Scans : i \in scan[s].wanted \/ (scan[s].step = "viewing" /\ i \in scan[s].batch) => pushes[i] = 0

AlertsIInv == AlertsTypeOK /\ SendsOK /\ RowsOK /\ CountsOK /\ ReaderOK /\ AlertedOK /\ ScansOK /\ PushesOK

-----------------------------------------------------------------------------
(* Rows, scans and the newest unread row *)

RowType == [status: {"NONE", "UNREAD", "READ"}, count: 0..MaxLoad, due: BOOLEAN,
            pushed: BOOLEAN, at: 0..MaxLoad, covers: SUBSET Messages]

(* What reading, ripening and marking change in a row, and what they leave. *)
LEMMA RowChanges ==
  ASSUME NEW r \in RowType
  PROVE  /\ [r EXCEPT !.status = "READ"] \in RowType
         /\ [r EXCEPT !.due = TRUE] \in RowType
         /\ [r EXCEPT !.pushed = TRUE] \in RowType
         /\ [r EXCEPT !.due = TRUE].status = r.status /\ [r EXCEPT !.due = TRUE].count = r.count
         /\ [r EXCEPT !.due = TRUE].covers = r.covers /\ [r EXCEPT !.due = TRUE].pushed = r.pushed
         /\ [r EXCEPT !.pushed = TRUE].status = r.status /\ [r EXCEPT !.pushed = TRUE].count = r.count
         /\ [r EXCEPT !.pushed = TRUE].covers = r.covers /\ [r EXCEPT !.pushed = TRUE].pushed = TRUE
         /\ r.pushed \in BOOLEAN
BY DEF RowType

ReaderType == [step: ReadSteps, seen: 0..MaxLoad, target: 0..MaxLoad]

ScanType == [step: ScanSteps, batch: SUBSET Rows, wanted: SUBSET Rows]

(* The two fields of a scan that ScanViewing and Push set, one after the other. *)
LEMMA ScanChanges ==
  ASSUME NEW r \in ScanType, NEW step \in ScanSteps, NEW wanted \in SUBSET Rows
  PROVE  /\ [[r EXCEPT !.step = step] EXCEPT !.wanted = wanted] = [step |-> step, batch |-> r.batch, wanted |-> wanted]
         /\ [[r EXCEPT !.wanted = wanted] EXCEPT !.step = step] = [step |-> step, batch |-> r.batch, wanted |-> wanted]
<1>1. ASSUME NEW q \in ScanType, NEW x \in ScanSteps
      PROVE  [q EXCEPT !.step = x] = [step |-> x, batch |-> q.batch, wanted |-> q.wanted]
  BY DEF ScanType
<1>2. ASSUME NEW q \in ScanType, NEW x \in SUBSET Rows
      PROVE  [q EXCEPT !.wanted = x] = [step |-> q.step, batch |-> q.batch, wanted |-> x]
  BY DEF ScanType
<1>3. /\ r.batch \in SUBSET Rows /\ r.wanted \in SUBSET Rows /\ r.step \in ScanSteps
  BY DEF ScanType
<1>4. /\ [step |-> step, batch |-> r.batch, wanted |-> r.wanted] \in ScanType
      /\ [step |-> r.step, batch |-> r.batch, wanted |-> wanted] \in ScanType
  BY <1>3 DEF ScanType
<1>5. [[r EXCEPT !.step = step] EXCEPT !.wanted = wanted] = [step |-> step, batch |-> r.batch, wanted |-> wanted]
  <2> DEFINE q == [step |-> step, batch |-> r.batch, wanted |-> r.wanted]
  <2>1. [r EXCEPT !.step = step] = q
    BY <1>1
  <2>2. [q EXCEPT !.wanted = wanted] = [step |-> q.step, batch |-> q.batch, wanted |-> wanted]
    <3>1. q \in ScanType
      BY <1>4
    <3> HIDE DEF q
    <3> QED
      BY <1>2, <3>1
  <2>3. q.step = step /\ q.batch = r.batch
    OBVIOUS
  <2> HIDE DEF q
  <2> QED
    BY <2>1, <2>2, <2>3
<1>6. [[r EXCEPT !.wanted = wanted] EXCEPT !.step = step] = [step |-> step, batch |-> r.batch, wanted |-> wanted]
  <2> DEFINE q == [step |-> r.step, batch |-> r.batch, wanted |-> wanted]
  <2>1. [r EXCEPT !.wanted = wanted] = q
    BY <1>2
  <2>2. [q EXCEPT !.step = step] = [step |-> step, batch |-> q.batch, wanted |-> q.wanted]
    <3>1. q \in ScanType
      BY <1>4
    <3> HIDE DEF q
    <3> QED
      BY <1>1, <3>1
  <2>3. q.wanted = wanted /\ q.batch = r.batch
    OBVIOUS
  <2> HIDE DEF q
  <2> QED
    BY <2>1, <2>2, <2>3
<1> QED
  BY <1>5, <1>6

(* A bounded set of numbers has a greatest: the least of its bounds, which   *)
(* exists since < on the naturals is well-founded, is in the set.            *)
LEMMA MaximumExists ==
  ASSUME NEW S \in SUBSET Nat, S # {}, NEW b \in Nat, \A s \in S : s <= b
  PROVE  \E s \in S : \A t \in S : t <= s
<1> DEFINE T == {n \in Nat : \A s \in S : s <= n}
<1>1. T \subseteq Nat /\ T # {}
  OBVIOUS
<1>2. PICK n \in T : \A k \in T : ~ (<<k, n>> \in OpToRel(<, Nat))
  BY <1>1, NatLessThanWellFounded, WFMin
<1>3. \A k \in T : ~ (k < n)
  BY <1>2 DEF OpToRel
<1>4. n \in S
  <2> SUFFICES ASSUME n \notin S PROVE FALSE
    OBVIOUS
  <2>1. n # 0
    <3>1. PICK s \in S : s <= n
      OBVIOUS
    <3> QED
      BY <3>1
  <2>2. n - 1 \in T
    BY <2>1
  <2> QED
    BY <2>2, <1>3
<1> QED
  BY <1>4

(* There are no more than MaxLoad messages, and fewer in a set that lacks one: *)
(* so the place of a notification (createdAt) and its count keep their bounds. *)
LEMMA MessagesCount ==
  ASSUME NEW S \in SUBSET Messages
  PROVE  /\ IsFiniteSet(S) /\ Cardinality(S) \in 0..MaxLoad
         /\ \A m \in Messages : m \notin S =>
              Cardinality(S) + 1 \in 1..MaxLoad /\ Cardinality(S \cup {m}) = Cardinality(S) + 1
<1>1. MaxLoad \in Nat /\ IsFiniteSet(Messages) /\ Cardinality(Messages) = MaxLoad
  BY AlertsAssumption, FS_Interval DEF Messages
<1>3. IsFiniteSet(S) /\ Cardinality(S) <= MaxLoad /\ Cardinality(S) \in Nat
  BY <1>1, FS_Subset, FS_CardinalityType
<1>4. ASSUME NEW m \in Messages, m \notin S
      PROVE  Cardinality(S) + 1 \in 1..MaxLoad /\ Cardinality(S \cup {m}) = Cardinality(S) + 1
  <2>1. Cardinality(S \cup {m}) = Cardinality(S) + 1
    BY <1>3, <1>4, FS_AddElement
  <2>2. Cardinality(S \cup {m}) <= Cardinality(Messages)
    BY <1>1, FS_Subset
  <2>3. Cardinality(S) + 1 <= MaxLoad
    BY <1>1, <2>1, <2>2
  <2> QED
    BY <1>1, <1>3, <2>1, <2>3
<1>5. Cardinality(S) \in 0..MaxLoad
  BY <1>1, <1>3
<1> QED
  BY <1>3, <1>4, <1>5

(* What writeOne finds, the newest unread row of the group, is there when any is. *)
LEMMA NewestUnread ==
  ASSUME AlertsTypeOK, Unread # {}
  PROVE  Newest(Unread) \in Unread
<1> DEFINE S == {n \in 0..MaxLoad : \E i \in Unread : rows[i].at = n}
<1>1. MaxLoad \in Nat /\ \A i \in Unread : rows[i].at \in 0..MaxLoad
  BY AlertsAssumption DEF AlertsTypeOK, Unread
<1>2. S \in SUBSET Nat /\ S # {} /\ \A s \in S : s <= MaxLoad
  BY <1>1
<1>3. PICK n \in S : \A t \in S : t <= n
  BY <1>1, <1>2, MaximumExists
<1>4. \E i \in Unread : \A j \in Unread : rows[j].at <= rows[i].at
  BY <1>1, <1>3
<1> QED
  BY <1>4 DEF Newest

-----------------------------------------------------------------------------
(* Every step keeps the invariant *)

LEMMA InitHolds == AlertsInit => AlertsIInv
<1> SUFFICES ASSUME AlertsInit PROVE AlertsIInv
  OBVIOUS
<1> USE AlertsAssumption DEF AlertsInit
<1>1. PresenceTypeOK
  BY DEF PresenceInit, PresenceTypeOK, Closing, Keys
<1>2. AlertsTypeOK
  <2>1. /\ send \in [Messages -> [step: SendSteps, at: 0..MaxLoad, row: Rows \cup {NoneFound}, count: 0..MaxLoad]]
        /\ reader \in [Readers -> ReaderType]
    BY DEF ReaderType, ReadSteps, NotReading, Messages, Rows, NoneFound, SendSteps
  <2>2. rows \in [Rows -> RowType] /\ pushes \in [Rows -> Nat]
    BY DEF RowType, Blank, Messages, Rows
  <2>3. scan \in [Scans -> ScanType] /\ excused \in [messages: SUBSET Messages, rows: SUBSET Rows]
    BY DEF ScanType, NotScanning, ScanSteps
  <2>4. lastSeq \in 0..MaxLoad /\ lastRead \in 0..lastSeq
    OBVIOUS
  <2> HIDE DEF AlertsInit
  <2> QED
    BY <1>1, <2>1, <2>2, <2>3, <2>4 DEF AlertsTypeOK, ReaderType, RowType, ScanType
<1>3. SendsOK /\ RowsOK /\ CountsOK
  BY MessagesCount, FS_EmptySet DEF SendsOK, RowsOK, CountsOK, Blank, NoneFound, Rows
<1>4. ReaderOK /\ AlertedOK /\ ScansOK /\ PushesOK
  BY DEF ReaderOK, AlertedOK, ScansOK, PushesOK, NotReading, NotScanning
<1> QED
  BY <1>2, <1>3, <1>4 DEF AlertsIInv

(* The gateway's sockets and keys, which ChatAlerts only reads. *)
LEMMA PresenceKeepsType ==
  ASSUME PresenceTypeOK, PresenceNext
  PROVE  PresenceTypeOK'
<1> USE DEF PresenceTypeOK, Closing, Keys
<1>1. ASSUME NEW t \in Tabs, Connect(t) \/ StartViewing(t) \/ StopViewing(t) \/ LeaveConversation(t)
      PROVE  PresenceTypeOK'
  BY <1>1 DEF Connect, StartViewing, StopViewing, LeaveConversation
<1>2. ASSUME NEW t \in Tabs, SocketGone(t) \/ CloseViewing(t) \/ FetchSockets(t) \/ MarkOffline(t)
      PROVE  PresenceTypeOK'
  BY <1>2 DEF SocketGone, CloseViewing, FetchSockets, MarkOffline
<1>3. ASSUME NEW n \in Nodes, StartHeartbeat(n) \/ TouchKeys(n) PROVE PresenceTypeOK'
  <2>1. PICK keys \in SUBSET Keys : beat' = [beat EXCEPT ![n] = keys]
    BY <1>3 DEF StartHeartbeat, TouchKeys
  <2>2. UNCHANGED <<tabs, sockets, viewing, closing>> /\ online' \in BOOLEAN /\ onScreen' \in BOOLEAN
    BY <1>3 DEF StartHeartbeat, TouchKeys
  <2> QED
    BY <2>1, <2>2
<1>4. ASSUME NEW n \in Nodes, NodeCrash(n) PROVE PresenceTypeOK'
  BY <1>4 DEF NodeCrash, On
<1>5. CASE ExpireOnline \/ ExpireOnScreen
  BY <1>5 DEF ExpireOnline, ExpireOnScreen
<1> QED
  BY <1>1, <1>2, <1>3, <1>4, <1>5 DEF PresenceNext

(* A step of the gateway leaves all that is about alerts as it was. *)
LEMMA PresenceStays ==
  ASSUME AlertsIInv, PresenceTypeOK', UNCHANGED alertVars
  PROVE  AlertsIInv'
BY DEF alertVars, AlertsIInv, AlertsTypeOK, SendsOK, RowsOK, CountsOK, ReaderOK, AlertedOK, ScansOK, PushesOK, DoneMessages

(* A saved message is above lastRead, and is owed no row until its           *)
(* notification is written.                                                  *)
LEMMA SaveMessageKeeps ==
  ASSUME AlertsIInv, SaveMessage, UNCHANGED presenceVars
  PROVE  AlertsIInv'
<1> USE AlertsAssumption
<1>1. PresenceTypeOK'
  BY DEF AlertsIInv, AlertsTypeOK, PresenceTypeOK, presenceVars
<1>2. Cardinality(tabs) \in Nat
  BY FS_Subset, FS_CardinalityType DEF AlertsIInv, AlertsTypeOK, PresenceTypeOK
<1>3. lastSeq \in 0..MaxLoad /\ lastSeq + 1 \in 1..MaxLoad
  BY <1>2 DEF SaveMessage, AlertsIInv, AlertsTypeOK
<1>s. PICK k \in Messages : k = lastSeq + 1
  BY <1>3 DEF Messages
<1>t. /\ send' = [send EXCEPT ![k].step = "saved"] /\ send[k].step = "none"
      /\ lastSeq' = lastSeq + 1 /\ UNCHANGED <<lastRead, rows, reader, scan, pushes, excused>>
  BY <1>3, <1>s DEF SaveMessage, AlertsIInv, SendsOK
<1>4. DoneMessages' = DoneMessages
  BY <1>t DEF DoneMessages, AlertsIInv, AlertsTypeOK
<1>5. AlertsTypeOK'
  <2>1. send' \in [Messages -> [step: SendSteps, at: 0..MaxLoad, row: Rows \cup {NoneFound}, count: 0..MaxLoad]]
    <3>1. send[k] \in [step: SendSteps, at: 0..MaxLoad, row: Rows \cup {NoneFound}, count: 0..MaxLoad]
      BY DEF AlertsIInv, AlertsTypeOK
    <3>2. [send[k] EXCEPT !.step = "saved"] \in [step: SendSteps, at: 0..MaxLoad, row: Rows \cup {NoneFound}, count: 0..MaxLoad]
      BY <3>1 DEF SendSteps
    <3> QED
      BY <1>t, <3>2 DEF AlertsIInv, AlertsTypeOK
  <2>2. lastSeq' \in 0..MaxLoad /\ lastRead' \in 0..lastSeq'
    BY <1>3, <1>t DEF AlertsIInv, AlertsTypeOK
  <2> QED
    BY <1>1, <1>t, <2>1, <2>2 DEF AlertsIInv, AlertsTypeOK
<1>6. SendsOK' /\ RowsOK' /\ CountsOK'
  <2>1. \A m \in Messages : m \in Nat
    BY DEF Messages
  <2>2. SendsOK'
    BY <1>3, <1>s, <1>t, <2>1 DEF AlertsIInv, AlertsTypeOK, SendsOK
  <2>3. RowsOK' /\ CountsOK'
    BY <1>4, <1>t DEF AlertsIInv, AlertsTypeOK, RowsOK, CountsOK, Rows
  <2> QED
    BY <2>2, <2>3
<1>7. ReaderOK' /\ AlertedOK'
  BY <1>3 DEF SaveMessage, AlertsIInv, AlertsTypeOK, ReaderOK, ReaderType, AlertedOK, Messages
<1>8. ScansOK' /\ PushesOK'
  BY DEF SaveMessage, AlertsIInv, ScansOK, PushesOK
<1> QED
  BY <1>5, <1>6, <1>7, <1>8 DEF AlertsIInv

(* A message whose writeOne begins has had no time yet. *)
LEMMA CheckViewingKeeps ==
  ASSUME AlertsIInv, NEW m \in Messages, CheckViewing(m), UNCHANGED presenceVars
  PROVE  AlertsIInv'
<1>1. PresenceTypeOK'
  BY DEF AlertsIInv, AlertsTypeOK, PresenceTypeOK, presenceVars
<1>2. PICK step \in {"skipped", "find"}, at \in 0..MaxLoad :
        send' = [send EXCEPT ![m].step = step, ![m].at = at]
  <2>1. m \notin BegunMessages /\ BegunMessages \in SUBSET Messages
    BY DEF CheckViewing, AlertsIInv, SendsOK, BegunMessages
  <2>2. NextAt \in 0..MaxLoad /\ 0 \in 0..MaxLoad
    <3>1. Cardinality(BegunMessages) + 1 \in 1..MaxLoad
      BY <2>1, MessagesCount
    <3>2. NextAt = Cardinality(BegunMessages) + 1
      BY DEF NextAt, BegunMessages
    <3> QED
      BY <3>1, <3>2, AlertsAssumption
  <2> QED
    BY <2>2 DEF CheckViewing
<1>3. /\ UNCHANGED <<lastSeq, lastRead, rows, reader, scan, pushes, excused>> /\ send[m].step = "saved"
      /\ send \in [Messages -> [step: SendSteps, at: 0..MaxLoad, row: Rows \cup {NoneFound}, count: 0..MaxLoad]]
  BY DEF CheckViewing, AlertsIInv, AlertsTypeOK
<1>4. /\ send' \in [Messages -> [step: SendSteps, at: 0..MaxLoad, row: Rows \cup {NoneFound}, count: 0..MaxLoad]]
      /\ send'[m].step = step /\ send'[m].row = send[m].row /\ send'[m].count = send[m].count
      /\ \A x \in Messages \ {m} : send'[x] = send[x]
  BY <1>2, <1>3 DEF SendSteps
<1>5. AlertsTypeOK'
  BY <1>1, <1>3, <1>4 DEF AlertsIInv, AlertsTypeOK
<1>6. SendsOK' /\ RowsOK' /\ CountsOK'
  <2>1. SendsOK'
    BY <1>3, <1>4 DEF AlertsIInv, SendsOK
  <2>2. DoneMessages' = DoneMessages
    BY <1>3, <1>4 DEF DoneMessages
  <2>3. RowsOK' /\ CountsOK'
    BY <1>3, <1>4, <2>2 DEF AlertsIInv, RowsOK, CountsOK, Rows
  <2> QED
    BY <2>1, <2>3
<1>7. ReaderOK' /\ AlertedOK'
  BY <1>3, <1>4 DEF AlertsIInv, ReaderOK, AlertedOK
<1>8. ScansOK' /\ PushesOK'
  BY <1>3 DEF AlertsIInv, ScansOK, PushesOK
<1> QED
  BY <1>5, <1>6, <1>7, <1>8 DEF AlertsIInv

LEMMA FindOpenKeeps ==
  ASSUME AlertsIInv, NEW m \in Messages, FindOpen(m), UNCHANGED presenceVars
  PROVE  AlertsIInv'
<1> USE AlertsAssumption
<1>1. PresenceTypeOK'
  BY DEF AlertsIInv, AlertsTypeOK, PresenceTypeOK, presenceVars
<1>2. PICK new, count : /\ send' = [send EXCEPT ![m] = [step |-> "write", at |-> send[m].at, row |-> new, count |-> count]]
                        /\ \/ new = NoneFound /\ count = 0
                           \/ new \in Unread /\ count = rows[new].count
  BY NewestUnread DEF FindOpen, AlertsIInv
<1>3. /\ new \in Rows \cup {NoneFound} /\ count \in 0..MaxLoad
      /\ new = NoneFound => count = 0
      /\ new # NoneFound => rows[new].status # "NONE" /\ count <= Cardinality(rows[new].covers)
  BY <1>2 DEF Unread, AlertsIInv, AlertsTypeOK, CountsOK, NoneFound, Rows, Messages
<1>4. DoneMessages' = DoneMessages
  BY <1>2 DEF DoneMessages, FindOpen, AlertsIInv, AlertsTypeOK
<1>5. AlertsTypeOK'
  BY <1>1, <1>2, <1>3 DEF FindOpen, AlertsIInv, AlertsTypeOK, SendSteps
<1>6. SendsOK' /\ RowsOK' /\ CountsOK'
  <2>1. /\ send'[m] = [step |-> "write", at |-> send[m].at, row |-> new, count |-> count]
        /\ \A x \in Messages \ {m} : send'[x] = send[x]
        /\ UNCHANGED <<lastSeq, rows>> /\ send[m].step = "find"
    BY <1>2 DEF FindOpen, AlertsIInv, AlertsTypeOK
  <2>3. SendsOK'
    BY <1>3, <2>1 DEF AlertsIInv, SendsOK
  <2>4. RowsOK' /\ CountsOK'
    BY <1>4, <2>1 DEF AlertsIInv, RowsOK, CountsOK, Rows
  <2> QED
    BY <2>3, <2>4
<1>7. ReaderOK' /\ AlertedOK'
  BY <1>2 DEF FindOpen, AlertsIInv, AlertsTypeOK, ReaderOK, AlertedOK
<1>8. ScansOK' /\ PushesOK'
  BY DEF FindOpen, AlertsIInv, ScansOK, PushesOK
<1> QED
  BY <1>5, <1>6, <1>7, <1>8 DEF AlertsIInv

(* writeOne adds the message to the row it found, or creates the row.  The   *)
(* row is unread afterwards, or was read in between and excuses the message. *)
LEMMA WriteOneKeeps ==
  ASSUME AlertsIInv, NEW m \in Messages, WriteOne(m), UNCHANGED presenceVars
  PROVE  AlertsIInv'
<1> USE AlertsAssumption
<1>1. PresenceTypeOK'
  BY DEF AlertsIInv, AlertsTypeOK, PresenceTypeOK, presenceVars
<1>2. PICK i \in Rows : i = IF send[m].row = NoneFound THEN m ELSE send[m].row
  BY DEF AlertsIInv, AlertsTypeOK, Rows
<1>3. PICK status : status = IF send[m].row = NoneFound THEN "UNREAD" ELSE rows[i].status
  OBVIOUS
<1>4. PICK new : new = [status |-> status, count |-> send[m].count + 1, due |-> rows[i].due,
                        pushed |-> rows[i].pushed, at |-> send[m].at, covers |-> rows[i].covers \cup {m}]
  OBVIOUS
<1>5. /\ send' = [send EXCEPT ![m].step = "done"] /\ rows' = [rows EXCEPT ![i] = new]
      /\ excused' = [excused EXCEPT !.messages = IF rows[i].status = "READ" THEN @ \cup {m} ELSE @]
      /\ UNCHANGED <<lastSeq, lastRead, reader, scan, pushes>>
      /\ send[m].step = "write"
  <2> DEFINE after == [rows[i] EXCEPT !.count = send[m].count + 1, !.at = send[m].at, !.covers = @ \cup {m}]
  <2>1. rows[i] \in RowType
    BY DEF RowType, AlertsIInv, AlertsTypeOK
  <2>2. new = IF send[m].row = NoneFound THEN [after EXCEPT !.status = "UNREAD"] ELSE after
    BY <1>3, <1>4, <2>1 DEF RowType
  <2> QED
    BY <1>2, <2>2 DEF WriteOne
<1>6. DoneMessages' = DoneMessages \cup {m} /\ m \notin DoneMessages
  BY <1>5 DEF DoneMessages, AlertsIInv, AlertsTypeOK
<1>7. /\ rows[i].covers \subseteq Messages /\ m \notin rows[i].covers /\ Cardinality(rows[i].covers) \in Nat
      /\ Cardinality(rows[i].covers \cup {m}) = Cardinality(rows[i].covers) + 1
      /\ Cardinality(rows[i].covers) + 1 <= MaxLoad
  <2>1. rows[i].covers \in SUBSET Messages /\ m \notin rows[i].covers
    BY <1>6 DEF AlertsIInv, RowsOK, DoneMessages
  <2> QED
    BY <2>1, MessagesCount
<1>8. status \in {"UNREAD", "READ"} /\ (status = "READ" => rows[i].status = "READ")
      /\ (rows[i].status = "UNREAD" => status = "UNREAD")
  BY <1>2, <1>3 DEF AlertsIInv, AlertsTypeOK, SendsOK
<1>9. send[m].count + 1 \in 0..MaxLoad /\ send[m].count <= Cardinality(rows[i].covers)
  <2>1. send[m].count \in Nat /\ send[m].at \in 0..MaxLoad
    BY DEF AlertsIInv, AlertsTypeOK
  <2>2. send[m].count <= Cardinality(rows[i].covers)
    BY <1>2, <1>7 DEF AlertsIInv, SendsOK
  <2> QED
    BY <1>7, <2>1, <2>2
<1>10. AlertsTypeOK'
  <2>1. new \in RowType
    BY <1>4, <1>7, <1>8, <1>9 DEF RowType, AlertsIInv, AlertsTypeOK
  <2>2. send' \in [Messages -> [step: SendSteps, at: 0..MaxLoad, row: Rows \cup {NoneFound}, count: 0..MaxLoad]]
    <3>1. send \in [Messages -> [step: SendSteps, at: 0..MaxLoad, row: Rows \cup {NoneFound}, count: 0..MaxLoad]]
      BY DEF AlertsIInv, AlertsTypeOK
    <3>2. [send[m] EXCEPT !.step = "done"] \in [step: SendSteps, at: 0..MaxLoad, row: Rows \cup {NoneFound}, count: 0..MaxLoad]
      BY <3>1 DEF SendSteps
    <3> QED
      BY <1>5, <3>1, <3>2
  <2>3. rows' \in [Rows -> RowType]
    BY <1>5, <2>1 DEF RowType, AlertsIInv, AlertsTypeOK
  <2>4. excused' \in [messages: SUBSET Messages, rows: SUBSET Rows]
    BY <1>5 DEF AlertsIInv, AlertsTypeOK
  <2> QED
    BY <1>1, <1>5, <2>2, <2>3, <2>4 DEF RowType, AlertsIInv, AlertsTypeOK
<1>11. SendsOK' /\ RowsOK' /\ CountsOK'
  <2>1. send[m].row = NoneFound => i = m
    BY <1>2
  <2>2. /\ send'[m].step = "done" /\ send'[m].row = send[m].row
        /\ send'[m].count = send[m].count /\ send'[m].at = send[m].at
        /\ \A x \in Messages \ {m} : send'[x] = send[x]
        /\ rows'[i] = new /\ \A j \in Rows \ {i} : rows'[j] = rows[j]
    BY <1>5 DEF AlertsIInv, AlertsTypeOK
  <2>3. /\ new.status = status /\ new.covers = rows[i].covers \cup {m} /\ new.count = send[m].count + 1
        /\ Cardinality(new.covers) = Cardinality(rows[i].covers) + 1
    BY <1>4, <1>7
  <2>4. \A j \in Rows : rows[j].status # "NONE" => rows'[j].status # "NONE"
    BY <1>8, <2>2, <2>3
  <2>5. \A j \in Rows : \A n \in Nat : n <= Cardinality(rows[j].covers) => n <= Cardinality(rows'[j].covers)
    <3> SUFFICES ASSUME NEW j \in Rows, NEW n \in Nat, n <= Cardinality(rows[j].covers)
                 PROVE  n <= Cardinality(rows'[j].covers)
      OBVIOUS
    <3>1. CASE j = i
      <4>1. Cardinality(rows'[j].covers) = Cardinality(rows[i].covers) + 1
        BY <2>2, <2>3, <3>1
      <4> QED
        BY <1>7, <3>1, <4>1
    <3>2. CASE j # i
      BY <2>2, <3>2
    <3> QED
      BY <3>1, <3>2
  <2>6. SendsOK'
    <3> SUFFICES ASSUME NEW x \in Messages
                 PROVE  /\ x > lastSeq => send'[x].step = "none"
                        /\ send'[x].step \in {"none", "saved"} => send'[x].at = 0
                        /\ send'[x].step # "write" /\ send'[x].step # "done" => send'[x].row = NoneFound
                        /\ send'[x].row = NoneFound => send'[x].count = 0
                        /\ send'[x].row # NoneFound =>
                             /\ rows'[send'[x].row].status # "NONE"
                             /\ send'[x].count <= Cardinality(rows'[send'[x].row].covers)
      BY <1>5 DEF SendsOK
    <3>1. /\ x > lastSeq => send[x].step = "none"
          /\ send[x].step \in {"none", "saved"} => send[x].at = 0
          /\ send[x].step # "write" /\ send[x].step # "done" => send[x].row = NoneFound
          /\ send[x].row = NoneFound => send[x].count = 0
          /\ send[x].row # NoneFound =>
               /\ rows[send[x].row].status # "NONE"
               /\ send[x].count <= Cardinality(rows[send[x].row].covers)
      BY DEF AlertsIInv, SendsOK
    <3>2. send[x].count \in Nat /\ send[x].row \in Rows \cup {NoneFound}
      BY DEF AlertsIInv, AlertsTypeOK
    <3>3. send'[x].row = send[x].row /\ send'[x].count = send[x].count /\ send'[x].at = send[x].at
          /\ (send'[x].step = send[x].step \/ x = m)
      BY <2>2
    <3>4. send[x].row # NoneFound =>
            /\ rows'[send[x].row].status # "NONE"
            /\ send[x].count <= Cardinality(rows'[send[x].row].covers)
      BY <2>4, <2>5, <3>1, <3>2
    <3>5. ~ (m > lastSeq) /\ send'[m].step = "done"
      BY <1>5, <2>2 DEF AlertsIInv, SendsOK
    <3> QED
      BY <3>1, <3>3, <3>4, <3>5
  <2>7. RowsOK'
    <3> SUFFICES ASSUME NEW j \in Rows
                 PROVE  /\ rows'[j].status # "NONE" => send'[j].step = "done"
                        /\ rows'[j].covers \subseteq DoneMessages'
      BY DEF RowsOK
    <3>1. /\ rows[j].status # "NONE" => send[j].step = "done"
          /\ rows[j].covers \subseteq DoneMessages /\ j \in Messages
      BY DEF AlertsIInv, RowsOK, Rows
    <3>2. send[j].step = "done" => send'[j].step = "done"
      BY <2>2, <3>1
    <3>3. CASE j = i
      <4>1. rows'[j].covers = rows[i].covers \cup {m}
        BY <2>2, <2>3, <3>3
      <4>2. i = m \/ rows[i].status # "NONE"
        BY <1>2 DEF AlertsIInv, SendsOK
      <4>3. send'[j].step = "done"
        BY <2>2, <3>1, <3>2, <3>3, <4>2
      <4> QED
        BY <1>6, <3>1, <3>3, <4>1, <4>3
    <3>4. CASE j # i
      BY <1>6, <2>2, <3>1, <3>2, <3>4
    <3> QED
      BY <3>3, <3>4
  <2>8. CountsOK'
    <3>1. \A j \in Rows \ {i} : rows'[j].count <= Cardinality(rows'[j].covers)
      BY <2>2 DEF AlertsIInv, CountsOK
    <3>2. send[m].count \in Nat
      BY DEF AlertsIInv, AlertsTypeOK
    <3>3. rows'[i].count <= Cardinality(rows'[i].covers)
      BY <1>7, <1>9, <2>2, <2>3, <3>2
    <3> QED
      BY <3>1, <3>3 DEF CountsOK
  <2> QED
    BY <2>6, <2>7, <2>8
<1>12. ReaderOK'
  BY <1>5 DEF AlertsIInv, ReaderOK
<1>13. AlertedOK'
  BY <1>4, <1>5, <1>8 DEF AlertsIInv, AlertsTypeOK, AlertedOK, Rows
<1>14. ScansOK' /\ PushesOK'
  BY <1>4, <1>5 DEF AlertsIInv, AlertsTypeOK, ScansOK, PushesOK
<1> QED
  BY <1>10, <1>11, <1>12, <1>13, <1>14 DEF AlertsIInv

(* The position only moves forward, so fewer messages are owed a row. *)
LEMMA ReaderKeeps ==
  ASSUME AlertsIInv, UNCHANGED presenceVars, NEW r \in Readers,
         AdvanceRead(r) \/ RereadPosition(r) \/ \E m \in Messages : StartReading(r, m)
  PROVE  AlertsIInv'
<1>1. PresenceTypeOK'
  BY DEF AlertsIInv, AlertsTypeOK, PresenceTypeOK, presenceVars
<1>2. /\ lastSeq \in 0..MaxLoad /\ lastRead \in 0..lastSeq
      /\ reader \in [Readers -> ReaderType]
      /\ reader[r] \in ReaderType /\ reader[r].seen <= lastSeq /\ reader[r].target <= lastSeq
      /\ MaxLoad \in Nat
  BY AlertsAssumption DEF AlertsIInv, AlertsTypeOK, ReaderType, ReaderOK
<1>3. UNCHANGED <<lastSeq, send, rows, scan, pushes, excused>>
  BY DEF AdvanceRead, RereadPosition, StartReading
<1>4. PICK call \in ReaderType :
        /\ reader' = [reader EXCEPT ![r] = call]
        /\ call.seen <= lastSeq /\ call.target <= lastSeq
        /\ call.step = "mark" => call.seen <= lastRead'
        /\ lastRead' \in 0..lastSeq /\ lastRead' >= lastRead
  <2>1. CASE AdvanceRead(r)
    <3>1. [reader[r] EXCEPT !.step = "reread"] \in ReaderType
      BY <1>2 DEF ReaderType, ReadSteps
    <3>2. /\ [reader[r] EXCEPT !.step = "reread"].seen = reader[r].seen
          /\ [reader[r] EXCEPT !.step = "reread"].target = reader[r].target
          /\ [reader[r] EXCEPT !.step = "reread"].step = "reread"
      BY <1>2 DEF ReaderType
    <3>3. lastRead' \in 0..lastSeq /\ lastRead' >= lastRead
      BY <1>2, <2>1 DEF AdvanceRead, ReaderType
    <3>4. reader' = [reader EXCEPT ![r] = [reader[r] EXCEPT !.step = "reread"]]
      BY <1>2, <2>1 DEF AdvanceRead
    <3> QED
      BY <1>2, <3>1, <3>2, <3>3, <3>4
  <2>2. CASE RereadPosition(r)
    <3>1. CASE lastRead >= reader[r].seen
      <4>1. [reader[r] EXCEPT !.step = "mark"] \in ReaderType
        BY <1>2 DEF ReaderType, ReadSteps
      <4>2. /\ [reader[r] EXCEPT !.step = "mark"].seen = reader[r].seen
            /\ [reader[r] EXCEPT !.step = "mark"].target = reader[r].target
        BY <1>2 DEF ReaderType
      <4>3. reader[r].seen <= lastRead /\ lastRead <= lastRead
        BY <1>2, <3>1 DEF ReaderType
      <4>4. reader' = [reader EXCEPT ![r] = [reader[r] EXCEPT !.step = "mark"]] /\ lastRead' = lastRead
        BY <2>2, <3>1 DEF RereadPosition
      <4> QED
        BY <1>2, <4>1, <4>2, <4>3, <4>4
    <3>2. CASE ~ (lastRead >= reader[r].seen)
      <4>1. NotReading \in ReaderType /\ NotReading.seen = 0 /\ NotReading.target = 0 /\ NotReading.step = "idle"
        BY <1>2 DEF ReaderType, ReadSteps, NotReading
      <4>2. reader' = [reader EXCEPT ![r] = NotReading] /\ lastRead' = lastRead
        BY <2>2, <3>2 DEF RereadPosition
      <4> QED
        <5>1. lastRead >= lastRead /\ 0 <= lastSeq
          BY <1>2
        <5> QED
          BY <1>2, <4>1, <4>2, <5>1
    <3> QED
      BY <3>1, <3>2
  <2>3. CASE \E m \in Messages : StartReading(r, m)
    <3>1. PICK target \in 1..lastSeq :
            reader' = [reader EXCEPT ![r] = [step |-> "advance", seen |-> lastSeq, target |-> target]]
      BY <2>3 DEF StartReading
    <3>2. [step |-> "advance", seen |-> lastSeq, target |-> target] \in ReaderType
      BY <1>2 DEF ReaderType, ReadSteps
    <3>3. lastRead' = lastRead
      BY <2>3 DEF StartReading
    <3> QED
      <4> DEFINE call == [step |-> "advance", seen |-> lastSeq, target |-> target]
      <4>1. call.seen <= lastSeq /\ call.target <= lastSeq /\ call.step # "mark"
        BY <1>2, <3>1
      <4>2. lastRead' \in 0..lastSeq /\ lastRead' >= lastRead
        BY <1>2, <3>3
      <4>3. call \in ReaderType /\ reader' = [reader EXCEPT ![r] = call]
        BY <3>1, <3>2
      <4> HIDE DEF call
      <4> QED
        BY <4>1, <4>2, <4>3
  <2> QED
    BY <2>1, <2>2, <2>3
<1>5. AlertsTypeOK'
  <2>1. reader' \in [Readers -> ReaderType]
    BY <1>2, <1>4
  <2> QED
    BY <1>1, <1>3, <1>4, <2>1 DEF AlertsIInv, AlertsTypeOK, ReaderType
<1>6. AlertedOK' /\ ReaderOK'
  <2>1. \A m \in Messages : m > lastRead' => m > lastRead
    BY <1>2, <1>4 DEF Messages
  <2>2. AlertedOK'
    BY <1>3, <2>1 DEF AlertsIInv, AlertedOK
  <2>3. ASSUME NEW q \in Readers
        PROVE  /\ reader'[q].seen <= lastSeq /\ reader'[q].target <= lastSeq
               /\ reader'[q].step = "mark" => reader'[q].seen <= lastRead'
    <3>1. CASE q = r
      BY <1>2, <1>4, <3>1
    <3>2. CASE q # r
      <4>1. reader'[q] = reader[q] /\ reader[q] \in ReaderType
        BY <1>2, <1>4, <3>2
      <4>2. /\ reader[q].seen <= lastSeq /\ reader[q].target <= lastSeq
            /\ reader[q].step = "mark" => reader[q].seen <= lastRead
        BY DEF AlertsIInv, ReaderOK
      <4>3. reader[q].seen \in Nat /\ lastRead \in Nat /\ lastRead' \in Nat
        BY <1>2, <1>4, <4>1 DEF ReaderType
      <4> QED
        BY <1>4, <4>1, <4>2, <4>3
    <3> QED
      BY <3>1, <3>2
  <2> QED
    BY <1>3, <2>2, <2>3 DEF ReaderOK
<1>7. DoneMessages' = DoneMessages
  BY <1>3 DEF DoneMessages
<1>8. SendsOK' /\ RowsOK' /\ CountsOK' /\ ScansOK' /\ PushesOK'
  BY <1>3, <1>7 DEF AlertsIInv, SendsOK, RowsOK, CountsOK, ScansOK, PushesOK
<1> QED
  BY <1>5, <1>6, <1>8 DEF AlertsIInv

(* What a step of the reader or a scan does to the rows leaves their count   *)
(* and messages; what it takes from the unread ones is read, or excused.     *)
LEMMA RowsChange ==
  ASSUME AlertsIInv, UNCHANGED <<presenceVars, lastSeq, lastRead, send>>,
         rows' \in [Rows -> RowType],
         \A i \in Rows : /\ rows'[i].count = rows[i].count /\ rows'[i].covers = rows[i].covers
                         /\ rows'[i].status = "NONE" <=> rows[i].status = "NONE",
         excused.messages \subseteq excused'.messages,
         \A i \in Rows, m \in Messages :
           rows[i].status = "UNREAD" /\ rows'[i].status # "UNREAD" /\ m \in rows[i].covers /\ m > lastRead
             => m \in excused'.messages,
         reader' = reader \/ \E r \in Readers : reader' = [reader EXCEPT ![r] = NotReading],
         excused' \in [messages: SUBSET Messages, rows: SUBSET Rows],
         scan' \in [Scans -> ScanType],
         pushes' \in [Rows -> Nat], ScansOK', PushesOK'
  PROVE  AlertsIInv'
<1>1. PresenceTypeOK'
  BY DEF AlertsIInv, AlertsTypeOK, PresenceTypeOK, presenceVars
<1>0. /\ NotReading \in ReaderType /\ NotReading.seen = 0 /\ NotReading.target = 0 /\ NotReading.step = "idle"
      /\ reader \in [Readers -> ReaderType]
  BY AlertsAssumption DEF ReaderType, ReadSteps, NotReading, AlertsIInv, AlertsTypeOK
<1>2. /\ reader' \in [Readers -> ReaderType]
      /\ \A r \in Readers : reader'[r] = reader[r] \/ reader'[r] = NotReading
  BY <1>0
<1>3. AlertsTypeOK'
  BY <1>1, <1>2 DEF RowType, ScanType, ReaderType, AlertsIInv, AlertsTypeOK
<1>4. DoneMessages' = DoneMessages
  BY DEF DoneMessages
<1>5. SendsOK' /\ RowsOK' /\ CountsOK'
  <2>1. \A m \in Messages : send[m].row \in Rows \cup {NoneFound}
    BY DEF AlertsIInv, AlertsTypeOK
  <2> QED
    BY <1>4, <2>1 DEF AlertsIInv, SendsOK, RowsOK, CountsOK
<1>6. ReaderOK'
  <2>1. lastSeq \in Nat
    BY AlertsAssumption DEF AlertsIInv, AlertsTypeOK
  <2> QED
    BY <1>0, <1>2, <2>1 DEF AlertsIInv, ReaderOK
<1>7. AlertedOK'
  <2> SUFFICES ASSUME NEW m \in Messages, m > lastRead, send[m].step = "done", m \notin excused'.messages
               PROVE  \E i \in Rows : rows'[i].status = "UNREAD" /\ m \in rows'[i].covers
    BY DEF AlertedOK
  <2>1. PICK i \in Rows : rows[i].status = "UNREAD" /\ m \in rows[i].covers
    BY DEF AlertsIInv, AlertedOK
  <2>2. rows'[i].status = "UNREAD"
    BY <2>1
  <2> QED
    BY <2>1, <2>2
<1> QED
  BY <1>3, <1>5, <1>6, <1>7 DEF AlertsIInv

(* What updateMany of the unread rows to READ leaves of them. *)
LEMMA MarkedReadRows ==
  ASSUME AlertsIInv, NEW some \in SUBSET Unread, rows' = MarkedRead(some)
  PROVE  /\ rows' \in [Rows -> RowType]
         /\ \A i \in Rows : /\ rows'[i].count = rows[i].count /\ rows'[i].covers = rows[i].covers
                            /\ rows'[i].status = "NONE" <=> rows[i].status = "NONE"
                            /\ rows'[i].pushed = rows[i].pushed
                            /\ i \notin some => rows'[i] = rows[i]
<1>1. rows \in [Rows -> RowType]
  BY DEF AlertsIInv, AlertsTypeOK, RowType
<1>2. ASSUME NEW i \in Rows
      PROVE  /\ rows'[i] \in RowType
             /\ rows'[i].count = rows[i].count /\ rows'[i].covers = rows[i].covers
             /\ rows'[i].status = "NONE" <=> rows[i].status = "NONE"
             /\ rows'[i].pushed = rows[i].pushed
             /\ i \notin some => rows'[i] = rows[i]
  <2>1. rows[i] \in RowType
    BY <1>1
  <2>2. CASE i \in some
    <3>1. rows'[i] = [rows[i] EXCEPT !.status = "READ"] /\ rows[i].status = "UNREAD"
      BY <2>2 DEF MarkedRead, Unread
    <3>2. [rows[i] EXCEPT !.status = "READ"] \in RowType
      BY <2>1, RowChanges
    <3>3. /\ rows'[i].count = rows[i].count /\ rows'[i].covers = rows[i].covers
          /\ rows'[i].status = "READ"
      BY <2>1, <3>1 DEF RowType
    <3>4. rows'[i].pushed = rows[i].pushed
      BY <2>1, <3>1 DEF RowType
    <3> QED
      BY <2>2, <3>1, <3>2, <3>3, <3>4
  <2>3. CASE i \notin some
    BY <2>1, <2>3 DEF MarkedRead
  <2> QED
    BY <2>2, <2>3
<1>3. rows' = [i \in Rows |-> rows'[i]]
  BY DEF MarkedRead
<1> QED
  BY <1>2, <1>3

(* The rows that markGroupRead reads tell of messages up to reader.seen,     *)
(* read by now, and of later ones, which it excuses.                         *)
LEMMA MarkGroupReadKeeps ==
  ASSUME AlertsIInv, UNCHANGED presenceVars, NEW r \in Readers, MarkGroupRead(r)
  PROVE  AlertsIInv'
<1>1. /\ rows' = MarkedRead(Unread) /\ reader' = [reader EXCEPT ![r] = NotReading]
      /\ UNCHANGED <<lastSeq, lastRead, send, scan, pushes>>
      /\ excused' = [excused EXCEPT !.messages = @ \cup {m \in Told(Unread) : m > reader[r].seen}]
  BY DEF MarkGroupRead
<1>2. reader[r].seen <= lastRead /\ reader[r].seen \in Nat /\ lastRead \in Nat
  BY AlertsAssumption DEF MarkGroupRead, AlertsIInv, AlertsTypeOK, ReaderOK
<1>3. \A i \in Unread : rows[i].covers \subseteq Messages
  BY DEF Unread, AlertsIInv, AlertsTypeOK
<1>4. /\ excused' \in [messages: SUBSET Messages, rows: SUBSET Rows]
      /\ excused.messages \subseteq excused'.messages /\ excused'.rows = excused.rows
      /\ \A i \in Unread : \A m \in rows[i].covers : m > reader[r].seen => m \in excused'.messages
  <2> DEFINE later == {m \in Told(Unread) : m > reader[r].seen}
  <2>1. later \in SUBSET Messages
    BY <1>3 DEF Told
  <2>2. \A i \in Unread : \A m \in rows[i].covers : m > reader[r].seen => m \in later
    BY DEF Told
  <2>3. excused' = [excused EXCEPT !.messages = @ \cup later]
    BY <1>1
  <2>4. excused \in [messages: SUBSET Messages, rows: SUBSET Rows]
    BY DEF AlertsIInv, AlertsTypeOK
  <2> HIDE DEF later
  <2> QED
    BY <2>1, <2>2, <2>3, <2>4
<1>5. \A i \in Rows, m \in Messages :
        rows[i].status = "UNREAD" /\ m \in rows[i].covers /\ m > lastRead => m \in excused'.messages
  BY <1>2, <1>4 DEF Unread, Messages
<1>6. ScansOK' /\ PushesOK'
  BY <1>1, <1>4, MarkedReadRows DEF AlertsIInv, ScansOK, PushesOK
<1> QED
  BY <1>1, <1>4, <1>5, <1>6, MarkedReadRows, RowsChange DEF RowType, ScanType, AlertsIInv, AlertsTypeOK

(* Who dismisses the rows has seen what they tell of. *)
LEMMA DismissKeeps ==
  ASSUME AlertsIInv, UNCHANGED presenceVars, Dismiss
  PROVE  AlertsIInv'
<1>1. PICK some \in SUBSET Unread :
        /\ rows' = MarkedRead(some)
        /\ excused' = [excused EXCEPT !.messages = @ \cup Told(some)]
  BY DEF Dismiss
<1>2. UNCHANGED <<lastSeq, lastRead, send, reader, scan, pushes>>
  BY DEF Dismiss
<1>3. \A i \in some : rows[i].covers \subseteq Messages
  BY DEF Unread, AlertsIInv, AlertsTypeOK
<1>4. /\ excused' \in [messages: SUBSET Messages, rows: SUBSET Rows]
      /\ excused.messages \subseteq excused'.messages /\ excused'.rows = excused.rows
      /\ \A i \in some : \A m \in rows[i].covers : m \in excused'.messages
  <2> DEFINE told == Told(some)
  <2>1. told \in SUBSET Messages
    BY <1>3 DEF Told
  <2>2. \A i \in some : \A m \in rows[i].covers : m \in told
    BY DEF Told
  <2>3. excused' = [excused EXCEPT !.messages = @ \cup told]
    BY <1>1
  <2>4. excused \in [messages: SUBSET Messages, rows: SUBSET Rows]
    BY DEF AlertsIInv, AlertsTypeOK
  <2> HIDE DEF told
  <2> QED
    BY <2>1, <2>2, <2>3, <2>4
<1>5. \A i \in Rows, m \in Messages :
        rows[i].status = "UNREAD" /\ rows'[i].status # "UNREAD" /\ m \in rows[i].covers => m \in excused'.messages
  BY <1>1, <1>4, MarkedReadRows
<1>6. ScansOK' /\ PushesOK'
  BY <1>1, <1>2, <1>4, MarkedReadRows DEF AlertsIInv, ScansOK, PushesOK
<1> QED
  BY <1>1, <1>2, <1>4, <1>5, <1>6, MarkedReadRows, RowsChange DEF RowType, ScanType, AlertsIInv, AlertsTypeOK

(* Time changes nothing but what is due. *)
LEMMA RipenKeeps ==
  ASSUME AlertsIInv, UNCHANGED presenceVars, Ripen
  PROVE  AlertsIInv'
<1>1. /\ UNCHANGED <<lastSeq, lastRead, send, reader, scan, pushes, excused>>
      /\ rows' = [i \in Rows |-> IF i \in Unread THEN [rows[i] EXCEPT !.due = TRUE] ELSE rows[i]]
  BY DEF Ripen
<1>2. /\ rows' \in [Rows -> RowType]
      /\ \A i \in Rows : /\ rows'[i].count = rows[i].count /\ rows'[i].covers = rows[i].covers
                         /\ rows'[i].status = rows[i].status /\ rows'[i].pushed = rows[i].pushed
  <2>1. \A i \in Rows : rows[i] \in RowType
    BY DEF AlertsIInv, AlertsTypeOK, RowType
  <2>2. ASSUME NEW i \in Rows
        PROVE  /\ rows'[i] \in RowType
               /\ rows'[i].count = rows[i].count /\ rows'[i].covers = rows[i].covers
               /\ rows'[i].status = rows[i].status /\ rows'[i].pushed = rows[i].pushed
    <3>1. rows'[i] = rows[i] \/ rows'[i] = [rows[i] EXCEPT !.due = TRUE]
      BY <1>1
    <3>2. CASE rows'[i] = rows[i]
      BY <2>1, <3>2
    <3>3. CASE rows'[i] = [rows[i] EXCEPT !.due = TRUE]
      <4>1. rows[i] \in RowType
        BY <2>1
      <4>2. /\ [rows[i] EXCEPT !.due = TRUE] \in RowType
            /\ [rows[i] EXCEPT !.due = TRUE].status = rows[i].status
            /\ [rows[i] EXCEPT !.due = TRUE].count = rows[i].count
            /\ [rows[i] EXCEPT !.due = TRUE].covers = rows[i].covers
        BY <4>1, RowChanges
      <4>3. [rows[i] EXCEPT !.due = TRUE].pushed = rows[i].pushed
        BY <4>1, RowChanges
      <4> QED
        BY <3>3, <4>2, <4>3
    <3> QED
      BY <3>1, <3>2, <3>3
  <2> QED
    BY <1>1, <2>2
<1>3. ScansOK' /\ PushesOK'
  BY <1>1, <1>2 DEF AlertsIInv, ScansOK, PushesOK
<1> QED
  BY <1>1, <1>2, <1>3, RowsChange DEF RowType, ScanType, AlertsIInv, AlertsTypeOK

(* A scan takes rows nobody has pushed, or that another scan holds and are   *)
(* excused from then on; it pushes each row once.                            *)
LEMMA ScanKeeps ==
  ASSUME AlertsIInv, UNCHANGED presenceVars, NEW s \in Scans, StartScan(s) \/ ScanViewing(s) \/ Push(s)
  PROVE  AlertsIInv'
<1>1. UNCHANGED <<lastSeq, lastRead, send, reader, rows>>
  BY DEF StartScan, ScanViewing, Push
<1>2. scan \in [Scans -> ScanType] /\ pushes \in [Rows -> Nat] /\ excused \in [messages: SUBSET Messages, rows: SUBSET Rows]
  BY DEF ScanType, AlertsIInv, AlertsTypeOK
<1>3. CASE StartScan(s)
  <2>1. PICK batch \in SUBSET Pending :
          /\ scan' = [scan EXCEPT ![s] = [step |-> "viewing", batch |-> batch, wanted |-> {}]]
          /\ excused' = [excused EXCEPT !.rows = @ \cup (batch \cap Scanned)]
    BY <1>3 DEF StartScan
  <2>0. batch \in SUBSET Rows
    BY DEF Pending, Unread
  <2>2. /\ scan' = [scan EXCEPT ![s] = [step |-> "viewing", batch |-> batch, wanted |-> {}]]
        /\ excused' = [excused EXCEPT !.rows = @ \cup (batch \cap Scanned)]
        /\ pushes' = pushes /\ scan[s].step = "idle"
        /\ \A i \in batch : ~ rows[i].pushed
    BY <1>3, <2>1 DEF StartScan, Pending
  <2>3. scan' \in [Scans -> ScanType]
    BY <1>2, <2>0, <2>2 DEF ScanSteps, ScanType
  <2>4. excused' \in [messages: SUBSET Messages, rows: SUBSET Rows] /\ excused'.messages = excused.messages
        /\ excused.rows \subseteq excused'.rows
        /\ \A i \in batch, z \in Scans : i \in scan[z].batch => i \in excused'.rows
    BY <1>2, <2>0, <2>2 DEF Scanned
  <2>5. ScansOK'
    BY <1>2, <2>2 DEF AlertsIInv, ScansOK
  <2>6. PushesOK'
    <3> SUFFICES ASSUME NEW i \in Rows, i \notin excused'.rows
                 PROVE /\ pushes[i] <= 1
                       /\ pushes[i] > 0 => rows[i].pushed \/ \E z \in Scans : i \in scan'[z].batch
                       /\ \A y, z \in Scans : i \in scan'[y].batch /\ i \in scan'[z].batch => y = z
                       /\ \A z \in Scans : i \in scan'[z].wanted \/ (scan'[z].step = "viewing" /\ i \in scan'[z].batch)
                                             => pushes[i] = 0
      BY <1>1, <2>2 DEF PushesOK
    <3>1. /\ pushes[i] <= 1 /\ pushes[i] \in Nat
          /\ pushes[i] > 0 => rows[i].pushed \/ \E z \in Scans : i \in scan[z].batch
          /\ \A y, z \in Scans : i \in scan[y].batch /\ i \in scan[z].batch => y = z
          /\ \A z \in Scans : i \in scan[z].wanted \/ (scan[z].step = "viewing" /\ i \in scan[z].batch) => pushes[i] = 0
      BY <1>2, <2>4 DEF AlertsIInv, PushesOK
    <3>2. scan[s].batch = {} /\ scan'[s] = [step |-> "viewing", batch |-> batch, wanted |-> {}]
          /\ \A z \in Scans \ {s} : scan'[z] = scan[z]
      BY <1>2, <2>2 DEF AlertsIInv, ScansOK
    <3>3. CASE i \in batch
      <4>1. pushes[i] = 0 /\ \A z \in Scans : i \notin scan[z].batch
        BY <2>2, <2>4, <3>1, <3>3
      <4> QED
        BY <3>1, <3>2, <4>1
    <3>4. CASE i \notin batch
      BY <3>1, <3>2, <3>4
    <3> QED
      BY <3>3, <3>4
  <2> QED
    BY <1>1, <1>2, <2>2, <2>3, <2>4, <2>5, <2>6, RowsChange DEF RowType, ScanType, AlertsIInv, AlertsTypeOK
<1>4. CASE ScanViewing(s)
  <2>1. PICK step \in {"mark", "push"}, wanted \in {{}, scan[s].batch} :
          scan' = [scan EXCEPT ![s] = [step |-> step, batch |-> scan[s].batch, wanted |-> wanted]]
    <3>1. scan[s] \in ScanType
      BY <1>2
    <3>2. CASE onScreen
      <4>1. scan' = [scan EXCEPT ![s] = [step |-> "mark", batch |-> scan[s].batch, wanted |-> {}]]
        <5>1. scan' = [scan EXCEPT ![s] = [[scan[s] EXCEPT !.step = "mark"] EXCEPT !.wanted = {}]]
          BY <1>2, <1>4, <3>2 DEF ScanViewing
        <5>2. [[scan[s] EXCEPT !.step = "mark"] EXCEPT !.wanted = {}]
                = [step |-> "mark", batch |-> scan[s].batch, wanted |-> {}]
          BY <3>1, ScanChanges DEF ScanSteps, ScanType
        <5> QED
          BY <5>1, <5>2
      <4> QED
        BY <4>1
    <3>3. CASE ~ onScreen
      <4>1. scan' = [scan EXCEPT ![s] = [step |-> "push", batch |-> scan[s].batch, wanted |-> scan[s].batch]]
        <5>1. scan' = [scan EXCEPT ![s] = [[scan[s] EXCEPT !.step = "push"] EXCEPT !.wanted = scan[s].batch]]
          BY <1>2, <1>4, <3>3 DEF ScanViewing
        <5>2. [[scan[s] EXCEPT !.step = "push"] EXCEPT !.wanted = scan[s].batch]
                = [step |-> "push", batch |-> scan[s].batch, wanted |-> scan[s].batch]
          BY <3>1, ScanChanges DEF ScanSteps, ScanType
        <5> QED
          BY <5>1, <5>2
      <4> QED
        BY <4>1
    <3> QED
      BY <3>2, <3>3
  <2>2. /\ UNCHANGED <<pushes, excused>> /\ scan[s].step = "viewing"
    BY <1>4 DEF ScanViewing
  <2>3. scan' \in [Scans -> ScanType]
    BY <1>2, <2>1 DEF ScanSteps, ScanType
  <2>5. ScansOK'
    BY <1>2, <2>1 DEF AlertsIInv, ScansOK
  <2>6. PushesOK'
    BY <1>1, <1>2, <2>1, <2>2 DEF AlertsIInv, PushesOK
  <2> QED
    BY <1>1, <1>2, <2>2, <2>3, <2>5, <2>6, RowsChange DEF RowType, ScanType, AlertsIInv, AlertsTypeOK
<1>5. CASE Push(s)
  <2>1. PICK i \in scan[s].wanted, step \in {"mark", "push"} :
          /\ pushes' = [pushes EXCEPT ![i] = @ + 1]
          /\ scan' = [scan EXCEPT ![s] = [step |-> step, batch |-> scan[s].batch, wanted |-> scan[s].wanted \ {i}]]
    <3>1. PICK i \in scan[s].wanted :
            /\ pushes' = [pushes EXCEPT ![i] = @ + 1]
            /\ scan' = [scan EXCEPT ![s].wanted = @ \ {i},
                                    ![s].step = IF scan[s].wanted = {i} THEN "mark" ELSE "push"]
      BY <1>5 DEF Push
    <3>2. PICK step \in {"mark", "push"} : step = IF scan[s].wanted = {i} THEN "mark" ELSE "push"
      OBVIOUS
    <3>3. scan[s] \in ScanType
      BY <1>2
    <3>4. scan' = [scan EXCEPT ![s] = [step |-> step, batch |-> scan[s].batch, wanted |-> scan[s].wanted \ {i}]]
      <4>1. scan' = [scan EXCEPT ![s] = [[scan[s] EXCEPT !.wanted = @ \ {i}] EXCEPT !.step = step]]
        BY <1>2, <3>1, <3>2
      <4>2. [[scan[s] EXCEPT !.wanted = @ \ {i}] EXCEPT !.step = step]
              = [step |-> step, batch |-> scan[s].batch, wanted |-> scan[s].wanted \ {i}]
        BY <3>2, <3>3, ScanChanges DEF ScanSteps, ScanType
      <4> QED
        BY <4>1, <4>2
    <3> QED
      BY <3>1, <3>4
  <2>2. excused' = excused /\ i \in Rows /\ i \in scan[s].batch
    BY <1>2, <1>5 DEF Push, AlertsIInv, ScansOK, ScanType
  <2>3. scan' \in [Scans -> ScanType] /\ pushes' \in [Rows -> Nat]
    BY <1>2, <2>1 DEF ScanSteps, ScanType
  <2>5. ScansOK'
    BY <1>2, <2>1 DEF AlertsIInv, ScansOK
  <2>6. PushesOK'
    BY <1>1, <1>2, <2>1, <2>2 DEF AlertsIInv, PushesOK, ScansOK
  <2> QED
    BY <1>1, <1>2, <2>2, <2>3, <2>5, <2>6, RowsChange DEF RowType, ScanType, AlertsIInv, AlertsTypeOK
<1> QED
  BY <1>3, <1>4, <1>5

(* A scan lets go of its rows only as it marks them: no later scan takes them. *)
LEMMA MarkPushedKeeps ==
  ASSUME AlertsIInv, UNCHANGED presenceVars, NEW s \in Scans, MarkPushed(s)
  PROVE  AlertsIInv'
<1>1. /\ UNCHANGED <<lastSeq, lastRead, send, reader, pushes, excused>>
      /\ rows' = [i \in Rows |-> IF i \in scan[s].batch THEN [rows[i] EXCEPT !.pushed = TRUE] ELSE rows[i]]
      /\ scan' = [scan EXCEPT ![s] = NotScanning]
  BY DEF MarkPushed
<1>2. /\ rows' \in [Rows -> RowType]
      /\ \A i \in Rows : /\ rows'[i].count = rows[i].count /\ rows'[i].covers = rows[i].covers
                         /\ rows'[i].status = rows[i].status
                         /\ rows'[i].pushed <=> (rows[i].pushed \/ i \in scan[s].batch)
  <2>1. \A i \in Rows : rows[i] \in RowType
    BY DEF AlertsIInv, AlertsTypeOK, RowType
  <2>2. ASSUME NEW i \in Rows
        PROVE  /\ rows'[i] \in RowType
               /\ rows'[i].count = rows[i].count /\ rows'[i].covers = rows[i].covers
               /\ rows'[i].status = rows[i].status
               /\ rows'[i].pushed <=> (rows[i].pushed \/ i \in scan[s].batch)
    <3>1. CASE i \in scan[s].batch
      <4>1. rows'[i] = [rows[i] EXCEPT !.pushed = TRUE]
        BY <1>1, <3>1
      <4>2. rows[i] \in RowType
        BY <2>1
      <4>3. /\ [rows[i] EXCEPT !.pushed = TRUE] \in RowType
            /\ [rows[i] EXCEPT !.pushed = TRUE].status = rows[i].status
            /\ [rows[i] EXCEPT !.pushed = TRUE].count = rows[i].count
            /\ [rows[i] EXCEPT !.pushed = TRUE].covers = rows[i].covers
        BY <4>2, RowChanges
      <4>4. [rows[i] EXCEPT !.pushed = TRUE].pushed = TRUE
        BY <4>2, RowChanges
      <4>5. rows'[i].pushed = TRUE
        BY <4>1, <4>4
      <4> QED
        BY <3>1, <4>1, <4>3, <4>5
    <3>2. CASE i \notin scan[s].batch
      <4>1. rows'[i] = rows[i]
        BY <1>1, <3>2
      <4> QED
        BY <2>1, <3>2, <4>1, RowChanges
    <3> QED
      BY <3>1, <3>2
  <2> QED
    BY <1>1, <2>2
<1>3. scan' \in [Scans -> ScanType] /\ ScansOK'
  BY <1>1 DEF ScanType, AlertsIInv, AlertsTypeOK, ScansOK, NotScanning, ScanSteps
<1>4. PushesOK'
  BY <1>1, <1>2 DEF AlertsIInv, AlertsTypeOK, PushesOK, NotScanning
<1> QED
  BY <1>1, <1>2, <1>3, <1>4, RowsChange DEF AlertsIInv, AlertsTypeOK

LEMMA AlertsNextKeeps ==
  ASSUME AlertsIInv, AlertsNext
  PROVE  AlertsIInv'
<1>1. CASE PresenceNext /\ UNCHANGED alertVars
  BY <1>1, PresenceKeepsType, PresenceStays DEF AlertsIInv, AlertsTypeOK
<1>2. CASE AlertsStep /\ UNCHANGED presenceVars
  BY <1>2, SaveMessageKeeps, CheckViewingKeeps, FindOpenKeeps, WriteOneKeeps, ReaderKeeps, MarkGroupReadKeeps,
     DismissKeeps, RipenKeeps, ScanKeeps, MarkPushedKeeps DEF AlertsStep
<1> QED
  BY <1>1, <1>2 DEF AlertsNext

-----------------------------------------------------------------------------
(* Theorems *)

LEMMA AlertsInductive == AlertsSpec => []AlertsIInv
<1>1. AlertsIInv /\ UNCHANGED allVars => AlertsIInv'
  <2> SUFFICES ASSUME AlertsIInv, UNCHANGED allVars PROVE AlertsIInv'
    OBVIOUS
  <2>1. PresenceTypeOK' /\ UNCHANGED alertVars
    BY DEF allVars, AlertsIInv, AlertsTypeOK, PresenceTypeOK, presenceVars
  <2> QED
    BY <2>1, PresenceStays
<1> QED
  BY <1>1, InitHolds, AlertsNextKeeps, PTL DEF AlertsSpec

(* Every variable of ChatAlerts and of Presence has its type. *)
THEOREM AlertsTypeCorrect == AlertsSpec => []AlertsTypeOK
<1>1. AlertsIInv => AlertsTypeOK
  BY DEF AlertsIInv
<1> QED
  BY <1>1, AlertsInductive, PTL

(* writeOne: the count that a collapsing notification shows is never more than *)
(* the messages the row tells of, though it is written back from a row read    *)
(* earlier, whatever was written, read or dismissed in between.                *)
THEOREM CountsNoMoreThanTold == AlertsSpec => []CountsOK
<1>1. AlertsIInv => CountsOK
  BY DEF AlertsIInv
<1> QED
  BY <1>1, AlertsInductive, PTL

(* writeOne against markGroupRead and itself: whoever has unread messages    *)
(* that were notified has an unread notification, however many sends find    *)
(* the same row at once and wherever a reader's steps fall between theirs,   *)
(* except for what that meets halfway or the user has dismissed.             *)
THEOREM AlertedWhileUnread == AlertsSpec => []UnreadIsAlerted
<1>1. AlertsIInv => UnreadIsAlerted
  BY DEF AlertsIInv, AlertedOK, UnreadIsAlerted, Unread
<1> QED
  BY <1>1, AlertsInductive, PTL

(* processChatPushScan: no row is pushed twice, though the scan pushes from  *)
(* what it read earlier and marks only at the end, unless two scans held it, *)
(* one of them dead perhaps.                                                 *)
THEOREM PushedAtMostOnce == AlertsSpec => []PushedOnce
<1>1. AlertsIInv => PushedOnce
  BY DEF AlertsIInv, AlertsTypeOK, PushesOK, PushedOnce
<1> QED
  BY <1>1, AlertsInductive, PTL
=============================================================================
