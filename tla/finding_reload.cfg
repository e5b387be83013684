SPECIFICATION Spec
CONSTANTS
  Names = {"a", "b"}
  BindTries = 2
  Absent = Absent
  Misshapen = Misshapen
  Unreadable = Unreadable
  Numeral <- Numerals
  Lowered <- Lowers
  Rooted <- Roots
  Tokens <- EnvVars
  StartFiles <- AtStart
  Edits <- Written
PROPERTIES
  ReloadSurvives
CHECK_DEADLOCK FALSE
