\* A redispatch whose posts are tried three times, each time for a run of its own.
SPECIFICATION FairSpec
CONSTANTS
  Dispatches = {again}
  Redispatches = {again}
  Runs = {r1, r2, r3}
  NoRun = none
  PostAttempts = 3
  SubmitAttempts = 2
  MaxRedispatches = 3
  MaxFaults = 3
  MaxDeaths = 1
CHECK_DEADLOCK FALSE
INVARIANTS
  TypeOK
  DeliveredIsReceived
  ReportFollowsReceipt
  LossNeedsFaults
PROPERTIES
  DeliveryEnds
