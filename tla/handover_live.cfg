SPECIFICATION FairSpec
CONSTANTS
  Clients = {c1}
  BindAttempts = 2
  WaitClosed = TRUE
  Env <- Unattended
PROPERTIES
  StartingEnds
  ProxyReturns
  StoppingEnds
