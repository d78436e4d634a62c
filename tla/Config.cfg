SPECIFICATION Spec
CONSTANTS
  Threads = {t1, t2}
  Budget = 3
  Cpus = 8
  InitialFiles <- MCFiles
  Environments <- MCEnvironments
  Edits <- MCEdits
SYMMETRY ThreadSymmetry
INVARIANT OnlyValidIsKept
INVARIANT EnvironmentContained
INVARIANT CacheFollowsFile
