\* A tab that opens a conversation with one message, sends one and receives
\* one, and reports a read; its send is retried once, one thing goes wrong.
SPECIFICATION TabSpec
CONSTANTS
  me = me
  other = other
  m0 = m0
  m1 = m1
  m2 = m2
  Messages = {m0, m1, m2}
  Earlier <- MCEarlier
  Users = {me, other}
  Workers = {w1, w2}
  Mine <- MCMine
  Me = me
  Sender <- MCSender
  MaxTries = 2
  MaxReads = 1
  MaxFaults = 1
  NoMessage = NoMessage
  NoUser = NoUser
SYMMETRY WorkerSymmetry
CHECK_DEADLOCK FALSE
INVARIANTS TypeOK NotShownTwice NothingMissed
PROPERTIES ImplementsLog
