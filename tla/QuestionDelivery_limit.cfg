\* Four redispatches of one sample at a time, with the limit of the code.
SPECIFICATION Spec
CONSTANTS
  Dispatches = {a1, a2, a3, a4}
  Redispatches = {a1, a2, a3, a4}
  Runs = {r1, r2, r3, r4}
  NoRun = none
  PostAttempts = 1
  SubmitAttempts = 3
  MaxRedispatches = 3
  MaxFaults = 0
  MaxDeaths = 0
CHECK_DEADLOCK FALSE
SYMMETRY RunSymmetry
INVARIANT RedispatchLimit
