SPECIFICATION FairSpec
CONSTANTS
  Clients <- PairClients
  Jobs <- PairJobs
  Ids <- PairJobs
  Plan <- PairPlan
  IsBatch <- PairBatch
  TaskId <- PairId
  Prio <- PairPrio
  QueueCap = 1
  MaxJobs = 1
  Configs <- SubmitConfigs
  IdleExit = FALSE
  Cancellable = {}
  Outcomes = {"success", "panic"}
INVARIANT NoJobLost
INVARIANT OnePlaceOnly
INVARIANT AnswersAreOwn
INVARIANT QueueSound
PROPERTY EverySubmissionReturns
PROPERTY ImplementsFairJobPool
