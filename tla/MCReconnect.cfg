SPECIFICATION Spec
\* the code's times in units of five seconds
CONSTANTS
  Tick = 1
  Lag = 2
  RefreshEvery = 1
  HeartbeatEvery = 6
  ResendAfter = 1
  GiveUpAfter = 18
  Delay = 10
  AuthTimeout = 2
  MaxEvents = 2
INVARIANTS LiveServerKept GivesUpAfterSeveral SilentServerNoticed PacedRetries AuthBounded
\* a client that was stopped does nothing any more
CHECK_DEADLOCK FALSE
