SPECIFICATION Spec
CONSTANTS
  Providers = {"openai", "openrouter", "azure", "local"}
  RetryAttempts = 2
  MaxCues = 3
  BatchSize = 2
  CueTexts <- MCCueTexts
  GlossaryText <- MCGlossaryText
  TermAnswers <- MCTermAnswers
  MaxEntries = 3
INVARIANT CuesFaithful
INVARIANT RequestsAccounted
PROPERTY ProgressTruthful
INVARIANT GlitchesMasked
PROPERTY Terminates
