SPECIFICATION CallsSpec
CONSTANTS
  Callers = {c1, c2}
  Requests <- MCRequests
  Configs <- MCConfigs
  ClientRetries = 1
  MaxAttempts = 2
  TTL = 1
  MaxTime = 1
  AnswerTexts <- MCAnswerTexts
  ErrorBodies <- MCErrorBodies
  MaxErrorBody = 5
  Verified = {1}
INVARIANT PromptReadsBack
INVARIANT CachedIsCurrent
INVARIANT ErrorsAreSound
CHECK_DEADLOCK FALSE
