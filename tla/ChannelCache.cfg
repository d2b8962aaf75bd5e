\* The socket server beside the reconciliations: an answer is cached for two
\* ticks and a denial for one; one change of access, one thing goes wrong.
SPECIFICATION NotYetRemovedSpec
CONSTANTS
  Workers = {w1, w2}
  Asked = {"reconcile", "ask"}
  OkTTL = 2
  DeniedTTL = 1
  MaxClock = 2
  MaxChanges = 1
  MaxFaults = 1
INVARIANTS TypeOK CachedAccessIsRecent
SYMMETRY RequestSymmetry
