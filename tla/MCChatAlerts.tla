---------------------------- MODULE MCChatAlerts ----------------------------
(* Instances of ChatAlerts, and of Presence in it, for TLC. *)
EXTENDS ChatAlerts

(* Two tabs share a process, a third has one of its own. *)
FirstTwoTogether(t) == IF t \in {"t1", "t2"} THEN "n1" ELSE "n2"
=============================================================================
