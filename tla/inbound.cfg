SPECIFICATION Spec
CONSTANTS
  KnownEvents <- Looked
  MaxDepth = 6
  Nothing = Nothing
  Managed <- Servers
  Enabled = TRUE
  Path = "/events"
  Token = "secret"
  NonAscii = {"geheim"}
  Requests <- Asked
  Group = 8
  MaxGroups = 3
  SignBit = 128
  MaxPacket = 20
  Undecodable = {15}
  Unheard = Unheard
  LongBytes = 3
  Clients <- Connected
INVARIANTS
  TemplateIsHeard
  MovesAreMeant
  UnderstoodAsSent
  WholeLoginsWake
CHECK_DEADLOCK FALSE
