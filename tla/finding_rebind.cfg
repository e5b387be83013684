SPECIFICATION Spec
CONSTANTS
  Clients = {c1}
  BindAttempts = 2
  WaitClosed = FALSE
  Env <- Calm
PROPERTIES
  NeverRebind
