\* The process dies once, also between the two files of a mutation.
SPECIFICATION FairSpec
CONSTANTS
  q1 = q1
  r1 = r1
  r2 = r2
  r3 = r3
  good = good
  bad = bad
  g1 = g1
  g2 = g2
  Ids = {q1}
  Runs = {r1, r2}
  Contents = {good, bad}
  Grammatical = {good}
  Goldens = {g1}
  Reported = {"generation_failed"}
  Announced = {}
  None = None
  MaxAttempts = 2
  MaxSlots = 1
  MaxCrashes = 1
  MaxFaults = 0
  TornWrites = TRUE
INVARIANTS
  OneAttemptPerRun
  SettledIsBacked
PROPERTIES
  ReadyIsEvaluated
