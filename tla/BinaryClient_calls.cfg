SPECIFICATION Spec
CONSTANTS
  CalTimeout = 1
  DrainTimeout = 1
  MaxRetries = 1
  OpTimeout = 2
  KeepaliveTimeout = 1
  KeepaliveInterval = 1
  MaxQueue = 1
  SettingsChoices <- MCCallSettings
  Envelopes <- MCCallEnvelopes
  SendMayFail = TRUE
INVARIANTS
  NoPanic
PROPERTIES
  ArmsOncePerShot
  TimeoutIsFinal
  ServesInOrder
