SPECIFICATION FairSpec
CONSTANTS
  Wakes = {w1, w2}
  Env <- Harsh
INVARIANTS
  TypeOK
  LockoutFreesPort
PROPERTIES
  ProxyReturns
  UpIsNoticed
