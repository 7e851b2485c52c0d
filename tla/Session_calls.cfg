SPECIFICATION SessionFairSpec
CONSTANTS
  CalTimeout = 1
  DrainTimeout = 1
  MaxRetries = 0
  OpTimeout = 2
  KeepaliveTimeout = 1
  KeepaliveInterval = 1
  MaxQueue = 2
  SettingsChoices <- MCSettings
  Envelopes <- DeviceEnvelopes
  SendMayFail = FALSE
  MaxBalls = 2
  MaxCalls = 1
INVARIANTS
  TimeoutsExplained
  BeliefHonest
  DataReturned
PROPERTIES
  ReArmed
