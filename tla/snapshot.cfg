SPECIFICATION Spec
CONSTANTS
  None = None
  Torn = Torn
  Foreign = Foreign
  MaxAge = 1
  Origins <- Boots
  MaxMoves = 3
  MaxTicks = 3
  MaxSet = 1
INVARIANTS
  TypeOK
  FileIsCurrent
  ClockIsTrue
PROPERTIES
  ResumesRecent
  ImplementsRegister
