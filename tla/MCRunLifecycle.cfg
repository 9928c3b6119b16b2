SPECIFICATION Spec
CONSTANTS
  c1 = c1
  c2 = c2
  Streams <- MCStreams
  MaxEvents = 4
INVARIANTS
  TypeOK
  NothingLeftBehind
  InOrderOnce
  ResultsAgree
PROPERTIES
  StreamsEnd
  WorkspaceReclaimed
CHECK_DEADLOCK FALSE
