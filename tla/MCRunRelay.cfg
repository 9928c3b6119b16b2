SPECIFICATION Spec
CONSTANT MaxEvents = 3
INVARIANTS
  TypeOK
  CompleteWhenDone
  WorkspaceKept
  VerdictsAgree
PROPERTIES
  RelayEnds
  FeedsInOrder
CHECK_DEADLOCK FALSE
