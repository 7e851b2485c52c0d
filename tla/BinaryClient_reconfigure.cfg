SPECIFICATION Spec
CONSTANTS
  CalTimeout = 1
  DrainTimeout = 1
  MaxRetries = 1
  OpTimeout = 2
  KeepaliveTimeout = 1
  KeepaliveInterval = 1
  MaxQueue = 2
  SettingsChoices <- MCSettings
  Envelopes <- MCReconfigureEnvelopes
  SendMayFail = FALSE
INVARIANTS
  DeadlineIffActive
  KeepaliveFlagHonest
  KeepaliveBound
  ConfigureOnlyDisarmed
PROPERTIES
  ServesInOrder
