------------------------------ MODULE Presence ------------------------------
(***************************************************************************)
(* Whether a user is online and has one conversation on screen: the keys   *)
(* of src/src/server/realtime/presence.ts, as the socket servers of        *)
(* src/socket-server/gateway.ts and events/chat.events.ts set, refresh and *)
(* delete them for the user's tabs, each connected to one server process.  *)
(*                                                                         *)
(* A key lives for 60 seconds and every server refreshes the keys of its   *)
(* sockets every 20: a key can expire only while no socket refreshes it.   *)
(* A call to Redis is one step, what a handler does before it another.     *)
(***************************************************************************)
EXTENDS FiniteSets

CONSTANTS
  Tabs,          \* the user's tabs
  Nodes,         \* server processes
  NodeOf(_)      \* the process a tab is connected to

ASSUME PresenceAssumption == \A t \in Tabs : NodeOf(t) \in Nodes

VARIABLES
  tabs,       \* the tabs the user opens, now and then: chosen at the start
  sockets,    \* the tabs with a socket
  viewing,    \* the tabs whose socket.data.viewing is the conversation
  closing,    \* what is left of each tab's disconnect handler
  beat,       \* the keys that each process's heartbeat is about to refresh
  online,     \* does the key presence:<user> exist?
  onScreen    \* does the key viewing:<conversation>:<user> exist?

presenceVars == <<tabs, sockets, viewing, closing, beat, online, onScreen>>

Keys == {"online", "onScreen"}
Closing == {"no", "stopViewing", "fetchSockets", "markOffline"}

PresenceTypeOK ==
  /\ viewing \subseteq sockets /\ sockets \subseteq tabs /\ tabs \subseteq Tabs
  /\ closing \in [Tabs -> Closing]
  /\ beat \in [Nodes -> SUBSET Keys]
  /\ online \in BOOLEAN /\ onScreen \in BOOLEAN

PresenceInit ==
  /\ tabs \in SUBSET Tabs
  /\ sockets = {} /\ viewing = {}
  /\ closing = [t \in Tabs |-> "no"]
  /\ beat = [n \in Nodes |-> {}]
  /\ online = FALSE /\ onScreen = FALSE

On(n, ts) == {t \in ts : NodeOf(t) = n}

(* A socket connects, and marks the user online. *)
Connect(t) ==
  /\ t \in tabs \ sockets
  /\ sockets' = sockets \cup {t}
  /\ online' = TRUE
  /\ UNCHANGED <<tabs, viewing, closing, beat, onScreen>>

(* conversation:viewing with the conversation, from a socket in its room, and *)
(* conversation:join of one that had asked before it was.                     *)
StartViewing(t) ==
  /\ t \in sockets
  /\ viewing' = viewing \cup {t}
  /\ onScreen' = TRUE
  /\ UNCHANGED <<tabs, sockets, closing, beat, online>>

(* conversation:viewing with another conversation, or none: the key goes unless *)
(* another tab of the same process has the conversation on screen.              *)
StopViewing(t) ==
  /\ t \in viewing
  /\ viewing' = viewing \ {t}
  /\ onScreen' = (onScreen /\ On(NodeOf(t), viewing') # {})
  /\ UNCHANGED <<tabs, sockets, closing, beat, online>>

(* conversation:leave does not look for another tab. *)
LeaveConversation(t) ==
  /\ t \in viewing
  /\ viewing' = viewing \ {t}
  /\ onScreen' = FALSE
  /\ UNCHANGED <<tabs, sockets, closing, beat, online>>

(* A socket is gone; its handler deletes the viewing key if the tab was viewing, *)
SocketGone(t) ==
  /\ t \in sockets /\ closing[t] = "no"
  /\ sockets' = sockets \ {t}
  /\ viewing' = viewing \ {t}
  /\ closing' = [closing EXCEPT ![t] = IF t \in viewing THEN "stopViewing" ELSE "fetchSockets"]
  /\ UNCHANGED <<tabs, beat, online, onScreen>>

CloseViewing(t) ==
  /\ closing[t] = "stopViewing"
  /\ onScreen' = FALSE
  /\ closing' = [closing EXCEPT ![t] = "fetchSockets"]
  /\ UNCHANGED <<tabs, sockets, viewing, beat, online>>

(* asks every process for other sockets of the user, *)
FetchSockets(t) ==
  /\ closing[t] = "fetchSockets"
  /\ closing' = [closing EXCEPT ![t] = IF sockets = {} THEN "markOffline" ELSE "no"]
  /\ UNCHANGED <<tabs, sockets, viewing, beat, online, onScreen>>

(* and marks the user offline if there was none. *)
MarkOffline(t) ==
  /\ closing[t] = "markOffline"
  /\ online' = FALSE
  /\ closing' = [closing EXCEPT ![t] = "no"]
  /\ UNCHANGED <<tabs, sockets, viewing, beat, onScreen>>

(* The heartbeat of a process lists its sockets, *)
StartHeartbeat(n) ==
  /\ beat[n] = {} /\ On(n, sockets) # {}
  /\ beat' = [beat EXCEPT ![n] = {"online"} \cup (IF On(n, viewing) # {} THEN {"onScreen"} ELSE {})]
  /\ UNCHANGED <<tabs, sockets, viewing, closing, online, onScreen>>

TouchOnline(n) ==
  /\ beat[n] # {}
  /\ online' = TRUE
  /\ beat' = [beat EXCEPT ![n] = {}]
  /\ UNCHANGED <<tabs, sockets, viewing, closing, onScreen>>

(* and sets their keys. *)
TouchKeys(n) ==
  /\ beat[n] # {}
  /\ online' = TRUE
  /\ onScreen' = (onScreen \/ "onScreen" \in beat[n])
  /\ beat' = [beat EXCEPT ![n] = {}]
  /\ UNCHANGED <<tabs, sockets, viewing, closing>>

(* A key that no socket refreshes expires. *)
ExpireOnline ==
  /\ online /\ sockets = {}
  /\ online' = FALSE
  /\ UNCHANGED <<tabs, sockets, viewing, closing, beat, onScreen>>

ExpireOnScreen ==
  /\ onScreen /\ viewing = {}
  /\ onScreen' = FALSE
  /\ UNCHANGED <<tabs, sockets, viewing, closing, beat, online>>

(* A process dies: its sockets are gone and no handler runs. *)
NodeCrash(n) ==
  /\ On(n, sockets) # {} \/ \E t \in Tabs : NodeOf(t) = n /\ closing[t] # "no"
  /\ sockets' = sockets \ On(n, Tabs)
  /\ viewing' = viewing \ On(n, Tabs)
  /\ closing' = [t \in Tabs |-> IF NodeOf(t) = n THEN "no" ELSE closing[t]]
  /\ beat' = [beat EXCEPT ![n] = {}]
  /\ UNCHANGED <<tabs, online, onScreen>>

PresenceNext ==
  \/ \E t \in Tabs :
       \/ Connect(t) \/ StartViewing(t) \/ StopViewing(t) \/ LeaveConversation(t)
       \/ SocketGone(t) \/ CloseViewing(t) \/ FetchSockets(t) \/ MarkOffline(t)
  \/ \E n \in Nodes : StartHeartbeat(n) \/ TouchKeys(n) \/ NodeCrash(n)
  \/ ExpireOnline \/ ExpireOnScreen

(* Timers fire, calls to Redis return, keys expire; nobody has to do anything. *)
PresenceFairness ==
  /\ \A t \in Tabs : WF_presenceVars(CloseViewing(t) \/ FetchSockets(t) \/ MarkOffline(t))
  /\ \A n \in Nodes : WF_presenceVars(StartHeartbeat(n)) /\ WF_presenceVars(TouchKeys(n))
  /\ WF_presenceVars(ExpireOnline) /\ WF_presenceVars(ExpireOnScreen)

-----------------------------------------------------------------------------
(* Properties *)

(* Whatever the handlers have overwritten of each other, the keys come to tell   *)
(* the truth: a user with a socket for good comes to be online and stays it, one *)
(* without comes to be offline ("a node that crashes simply lets its users' keys *)
(* expire"); and when the tabs that show the conversation stay as they are, the  *)
(* key comes to agree with them.                                                 *)
PresenceSettles ==
  /\ <>[](sockets # {}) => <>[]online
  /\ <>[](sockets = {}) => <>[]~online
  /\ \A showing \in SUBSET Tabs : <>[](viewing = showing) => <>[](onScreen <=> showing # {})
=============================================================================
