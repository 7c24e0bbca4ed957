\* One attempt whose task is rescheduled before its done callback, one death.
SPECIFICATION Spec
CONSTANTS
  q1 = q1
  r1 = r1
  r2 = r2
  r3 = r3
  good = good
  bad = bad
  g1 = g1
  g2 = g2
  Ids = {q1}
  Runs = {r1, r2}
  Contents = {good, bad}
  Grammatical = {good}
  Goldens = {g1}
  Reported = {"generation_failed"}
  Announced = {}
  None = None
  MaxAttempts = 1
  MaxSlots = 3
  MaxCrashes = 1
  MaxFaults = 1
  TornWrites = FALSE
SYMMETRY RunSymmetry
INVARIANTS
  ReadyIsScheduled
PROPERTIES
  SettledIsFinal
  ImplementsLedger
