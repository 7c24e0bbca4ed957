\* Two attempts of one sample: every order of requests and evaluations.
SPECIFICATION Spec
CONSTANTS
  q1 = q1
  r1 = r1
  r2 = r2
  r3 = r3
  good = good
  bad = bad
  g1 = g1
  g2 = g2
  Ids = {q1}
  Runs = {r1, r2}
  Contents = {good, bad}
  Grammatical = {good}
  Goldens = {g1}
  Reported = {"service_failed", "clarification_required", "generation_failed"}
  Announced = {r1, r2}
  None = None
  MaxAttempts = 2
  MaxSlots = 1
  MaxCrashes = 0
  MaxFaults = 1
  TornWrites = FALSE
SYMMETRY RunSymmetry
INVARIANTS
  TypeOK
  LatestIsNewest
  AttemptsAgree
  ViewsAgree
