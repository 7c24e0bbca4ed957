SPECIFICATION FairSpec
CONSTANTS
  Queries = {q1, q2, q3}
  HistoryLimit = 2
  None = None
  Torn = Torn
  MaxDeaths = 1
CHECK_DEADLOCK FALSE
INVARIANTS
  QueriesInv
  OrphanIsLate
PROPERTIES
  PendingEnds
