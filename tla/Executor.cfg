SPECIFICATION ExecFairSpec
CONSTANTS
  Tasks <- MCTasks
  Paths <- MCPaths
  Existing = {"a","b","c","v"}
  Kind <- MCKind
  Source <- MCSource
  Wanted <- ToTaken
  Suffixed <- MCSuffixed
  RenameFails = TRUE
  IoFails = TRUE
  Crashes = TRUE
  N = 3
  Mode <- ThreeModes
  Relocates <- Relocated
  BackupTask <- MCBackupTask
  PrimaryTask <- MCPrimaryTask
  Conflict = "AutoRename"
  Backups = TRUE
  HasJournal = TRUE
  SaveFails = TRUE
  Cancels = TRUE
  DryRuns = {TRUE, FALSE}
INVARIANT SubtitlesSafe
INVARIANT JournalSound
INVARIANT ReportsTruthful
PROPERTY BatchEnds
