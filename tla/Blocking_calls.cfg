SPECIFICATION FairSpec
CONSTANTS
  CalTimeout = 1
  DrainTimeout = 1
  MaxRetries = 0
  CallTimeout = 3
  ReadTimeout = 2
  ExchangeTimeout = 2
  FramesInPieces = TRUE
  SettingsChoices <- MCSettings
  Envelopes <- MCAnswers
  SendMayFail = TRUE
INVARIANTS
  OverrunBounded
  ResultsComplete
PROPERTIES
  CallReturns
