\* Two deliveries of one ticket and one of another would exceed the bounds of
\* a run; two deliveries of one ticket meet in every way.
SPECIFICATION ChainSpec
CONSTANTS
  Docs = {few_shot}
  Reviewed = {}
  FewShot = few_shot
  Contents = {a}
  Invalid = {}
  PatchKey = patch
  None = None
  Threads = {t1, t2}
  Served = {"approve"}
  Found <- NoRun
  MaxSteps = 1
  MaxRequests = 1
  MaxRuns = 2
  MaxDeaths = 1
  Tickets = {k}
  Deliveries = {d1, d2}
  TicketOf <- OneTicket
  MaxConcurrency = 1
  MaxRetries = 1
  MaxAttempts = 2
  MaxCrashes = 1
CHECK_DEADLOCK FALSE
INVARIANTS
  ChainInv
  OneRunPerTicket
PROPERTIES
  AnalysisIsFinal
  PendingEnds
