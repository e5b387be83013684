SPECIFICATION GateSpec
CONSTANTS
  p1 = p1
  p2 = p2
  Players = {p1, p2}
  Configs <- Settings
  MaxWrites = 1
  Garbled = Garbled
  Undecodable = Undecodable
  Never = Never
  Cooldown = 1
  MaxRefused = 3
  MaxTicks = 2
INVARIANTS
  GateTypeOK
  CopyIsCurrent
  AnswersAreTrue
  RateLimited
  TurnedAreAccounted
