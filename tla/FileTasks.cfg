SPECIFICATION PoolSpec
CONSTANTS
  MaxWorkers = 2
  Callers = {"c1", "c2"}
  Owner = "c1"
  Submits <- MCSubmits
  Tasks <- MCTasks
  Paths <- MCPaths
  Existing = {"a", "b", "w"}
  Kind <- MCKind
  Source <- MCSource
  Wanted <- MCWanted
  Suffixed <- MCSuffixed
  RenameFails = TRUE
  IoFails = TRUE
  Crashes = TRUE
INVARIANT NothingLost
INVARIANT FilesDelivered
INVARIANT PoolSound
PROPERTY PoolSettles
