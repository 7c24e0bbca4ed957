\* Two threads serve requests for one run and two documents.
SPECIFICATION Spec
CONSTANTS
  Docs = {few_shot, system_prompt}
  Reviewed = {system_prompt}
  FewShot = few_shot
  Contents = {a, b}
  Invalid = {b}
  PatchKey = patch
  None = None
  Threads = {t1, t2}
  Served = {"create_run", "legacy", "step", "approve", "reject", "create", "update", "delete", "edit"}
  Found <- OneRunOrNone
  MaxSteps = 3
  MaxRequests = 3
  MaxRuns = 1
  MaxDeaths = 1
CHECK_DEADLOCK FALSE
INVARIANTS
  ReviewedNeedsApproval
  KnowledgeInv
  DuplicatesByHand
