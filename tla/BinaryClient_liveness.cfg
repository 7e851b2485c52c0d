SPECIFICATION FairSpec
CONSTANTS
  CalTimeout = 1
  DrainTimeout = 1
  MaxRetries = 1
  OpTimeout = 2
  KeepaliveTimeout = 1
  KeepaliveInterval = 1
  MaxQueue = 1
  SettingsChoices <- MCOneSetting
  Envelopes <- MCLiveEnvelopes
  SendMayFail = FALSE
PROPERTIES
  OperationEnds
  ArmStarts
  KeepalivesContinue
