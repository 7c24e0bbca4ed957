\* Two threads serve requests for two jobs over three queries.
SPECIFICATION Spec
CONSTANTS
  x = x
  y = y
  t1 = t1
  t2 = t2
  c1 = c1
  c2 = c2
  c3 = c3
  j1 = j1
  j2 = j2
  Jobs = {j1, j2}
  Cyphers = {c1, c2}
  Texts = {x, y}
  LevelOf <- Difficulties
  Target <- Wanted
  None = None
  LeastAttempts = 3
  Threads = {t1, t2}
  MaxRequests = 3
  MaxDeaths = 1
SYMMETRY Alike
CHECK_DEADLOCK FALSE
INVARIANTS
  JobsInv
  NoRepeatedSample
  CompletedIsReleased
