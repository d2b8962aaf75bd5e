\* Two requests of any kind that touches the row, from every state of access;
\* one change of access, one query that throws.
SPECIFICATION FairSpec
CONSTANTS
  Workers = {w1, w2}
  Asked = {"reconcile", "open", "add", "remove"}
  OkTTL = 2
  DeniedTTL = 1
  MaxClock = 0
  MaxChanges = 1
  MaxFaults = 1
INVARIANT RemovedForCause
PROPERTIES EnrolledBelongs LapsedLeave
