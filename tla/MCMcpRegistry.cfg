SPECIFICATION Spec
CONSTANTS
  r1 = r1
  r2 = r2
  d1 = d1
  c1 = c1
  c2 = c2
  c3 = c3
  None = None
  Callers <- MCCallers
  Closers <- MCClosers
  Clients <- MCClients
INVARIANTS
  TypeOK
  CachedIsConnected
  OneClient
  OrphansExplained
PROPERTY CallersReturn
CHECK_DEADLOCK FALSE
