SPECIFICATION AllocSpec
CONSTANTS
  N = 3
  Dirs = {1, 2, 3}
  Bases = {"m", "x"}
  Width = 8
  MaxCounter = 4
  VideoDir <- MCVideoDir
  TempDir = 2
  Sources <- MCSources
  Names <- MCNames
  Clutter <- MCClutter
  MaxAppear = 1
INVARIANT NoSharedTarget
INVARIANT NotStolen
INVARIANT NoClobber
PROPERTY Idempotent
