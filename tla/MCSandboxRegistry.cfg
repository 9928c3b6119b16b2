SPECIFICATION Spec
CONSTANTS
  t1 = t1
  t2 = t2
  c1 = c1
  s1 = s1
  s2 = s2
  s3 = s3
  None = None
  Callers <- MCCallers
  Closers <- MCClosers
  Sandboxes <- MCSandboxes
INVARIANTS
  TypeOK
  RepeatExplained
  NoStaleContainer
  OrphansExplained
PROPERTIES
  LocksReleased
CHECK_DEADLOCK FALSE
