SPECIFICATION FairSpec
CONSTANTS
  CalTimeout = 1
  DrainTimeout = 1
  MaxRetries = 0
  CallTimeout = 2
  ReadTimeout = 1
  ExchangeTimeout = 2
  FramesInPieces = FALSE
  SettingsChoices <- MCNoSettings
  Envelopes <- MCShot
  SendMayFail = FALSE
PROPERTIES
  DrainGivenUp
