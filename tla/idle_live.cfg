SPECIFICATION FairSpec
CONSTANTS
  IdleTimeout = 2
  StopCooldown = 1
  StartGrace = 1
  StartTimeout = 1
  FlapWindow = 2
  FlapCycles = 1
  HistoryLen = 2
  MaxAge = 3
  Nothing = Nothing
  Env <- Raced
PROPERTIES
  RestartKeepsClock
  EmptyStops
