SPECIFICATION Spec
CONSTANTS
  Procs = {p1, p2}
  Inputs <- MCInputs
  Versions <- MCVersions
  Fresh <- MCFresh
  MaxBytes = 1
  Configs <- MCConfigs
  Answers <- MCAnswers
  Shown <- MCShown
  MaxRuns = 3
  MaxEdits = 1
SYMMETRY Symmetry
CHECK_DEADLOCK FALSE
INVARIANT PlanIsWhatWasMeant
INVARIANT CacheHitIsCurrent
INVARIANT ReplayIsSafe
