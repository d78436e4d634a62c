SPECIFICATION Spec
CONSTANTS
  Within <- MCWithin
  InitialFiles <- MCInitialFiles
  Targets = {"srt", "ass", "vtt", "sub"}
  PreserveStyling = {TRUE, FALSE}
  ValidateOutput = TRUE
  Permits = 2
  SampleSize = 4
  MaxOffset = 1000
  MinSpeech = 60
  Longest = 400000000
  Offsets <- MCOffsets
  Audio <- MCAudio
  Methods = {"default", "Manual"}
  MaxAudioBytes = 2
  PaddingChunks = 1
  Requests <- MCRequests
  NonAscii <- MCNonAscii
  MaxOps = 3
INVARIANT BatchIsolated
INVARIANT ConversionKeepsCues
INVARIANT DetectedOffsetHelps
PROPERTY EditsKeepCues
CHECK_DEADLOCK FALSE
