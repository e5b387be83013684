SPECIFICATION FairSpec
CONSTANTS
  Names = {"a", "b"}
  BindTries = 2
  Absent = Absent
  Misshapen = Misshapen
  Unreadable = Unreadable
  Numeral <- Numerals
  Lowered <- Lowers
  Rooted <- Roots
  Tokens <- EnvVars
  StartFiles <- AtStart
  Edits <- Written
INVARIANTS
  TypeOK
  TakenOverOrKept
  RunningIsSound
  QuietShutdownCloses
  OneLatePass
PROPERTIES
  ShutdownEnds
  PolledAgain
  ProxyComes
  ReloadTakes
CHECK_DEADLOCK FALSE
