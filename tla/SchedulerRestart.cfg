SPECIFICATION Spec
CONSTANTS
  Clients <- SingleClients
  Jobs <- SingleJobs
  Ids <- SingleJobs
  Plan <- SinglePlan
  IsBatch <- SingleBatch
  TaskId <- SingleId
  Prio <- SinglePrio
  QueueCap = 1
  MaxJobs = 1
  Configs <- PlainConfigs
  IdleExit = TRUE
  Cancellable = {"s1"}
  Outcomes = {"success", "panic"}
CHECK_DEADLOCK FALSE
INVARIANT PermitsConserved
INVARIANT StatusTruthful
