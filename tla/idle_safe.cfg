SPECIFICATION Spec
CONSTANTS
  IdleTimeout = 3
  StopCooldown = 2
  StartGrace = 1
  StartTimeout = 1
  FlapWindow = 3
  FlapCycles = 1
  HistoryLen = 3
  MaxAge = 4
  Nothing = Nothing
  Env <- Hosted
INVARIANTS
  TypeOK
PROPERTIES
  StopsOnlyIdle
