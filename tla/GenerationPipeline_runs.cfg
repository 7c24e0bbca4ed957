\* Every run of the pipeline with the default of two schema retries.
SPECIFICATION FairSpec
CONSTANT SchemaRetries = 2
INVARIANTS
  TypeOK
  OutputIsSubmittable
  GeneratedPassedEveryStage
  FaultIsServiceFailure
PROPERTY EveryRunAnswers
