---------------------------- MODULE MCChatThread ----------------------------
(* Instances of ChatThread for TLC. *)
EXTENDS ChatThread, TLC

CONSTANTS me, other, m0, m1, m2

(* m0 was there before; m1 is the tab's, m2 comes from somebody else. *)
MCEarlier == <<m0>>
MCMine == {m1}
MCSender == [m \in Messages |-> IF m = m1 THEN me ELSE other]

WorkerSymmetry == Permutations(Workers)
=============================================================================
