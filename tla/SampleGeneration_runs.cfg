SPECIFICATION Spec
CONSTANTS
  Schemas <- MCSchemas
  Targets <- MCTargets
  Counts = {1, 2}
  MaxSkeletons = 4
  MaxOffset = 1
  Answers <- MCAnswers
  MaxAnswered = 2
  RoundtripRequired = TRUE
  NoLabel = NoLabel
CHECK_DEADLOCK FALSE
INVARIANTS
  SpecsKept
  
  ReleaseKept
