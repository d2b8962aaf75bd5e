\* Two tabs, on one server or two, and no message, one tab and one message, or no
\* tab and two messages; one call that reads the chat and two scans, one of which may die.
SPECIFICATION FairAlertsSpec
CONSTANTS
  Tabs = {"t1", "t2", "t3"}
  Nodes = {"n1", "n2"}
  NodeOf <- FirstTwoTogether
  MaxLoad = 2
  Readers = {"r1"}
  Scans = {"s1", "s2"}
  Mortal = {"s2"}
INVARIANTS UnreadIsAlerted PushedOnce
PROPERTIES PresenceSettles AlertIsPushed
CHECK_DEADLOCK FALSE
