SPECIFICATION Spec
CONSTANTS
  Clients = {c1, c2}
  BindAttempts = 2
  WaitClosed = FALSE
  Env <- Calm
PROPERTIES
  UnracedBoot
  UnracedStart
