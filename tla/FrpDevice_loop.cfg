SPECIFICATION MCFairSpec
CONSTANTS
  CalTimeout = 1
  DrainTimeout = 1
  MaxRetries = 0
  OpTimeout = 1
  KeepaliveTimeout = 1
  KeepaliveInterval = 1
  MaxQueue = 2
  SettingsChoices = {}
  Envelopes <- MCFrpEnvelopes
  SendMayFail = FALSE
  MaxShots = 1
  SendErrors = {"Closed"}
INVARIANTS
  TriggerTold
  ArmFollowsConfigure
PROPERTIES
  FinishedIsLast
  TimeoutEndsProgram
  ConfiguredIsArmed
