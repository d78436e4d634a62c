SPECIFICATION FairSpec
CONSTANTS
  Clients <- SingleClients
  Jobs <- SingleJobs
  Ids <- SingleJobs
  Plan <- SinglePlan
  IsBatch <- SingleBatch
  TaskId <- SingleId
  Prio <- SinglePrio
  QueueCap = 1
  MaxJobs = 1
  Configs <- BlockOnly
  IdleExit = TRUE
  Cancellable = {}
  Outcomes = {"success"}
CHECK_DEADLOCK FALSE
PROPERTIES
  EverySubmissionReturns
