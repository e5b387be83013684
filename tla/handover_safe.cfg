SPECIFICATION Spec
CONSTANTS
  Clients = {c1, c2}
  BindAttempts = 2
  WaitClosed = TRUE
  Env <- Harsh
SYMMETRY HandlerSymmetry
INVARIANTS
  TypeOK
  StartingIsLocked
  LockoutFreesPort
PROPERTIES
  ImplementsLease
