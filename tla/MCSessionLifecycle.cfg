SPECIFICATION Spec
CONSTANTS
  r1 = r1
  r2 = r2
  Requests <- MCRequests
  Redis = TRUE
  Servers = {"mcp_fs"}
INVARIANTS
  TypeOK
  NothingLeaks
  
PROPERTIES
  SparedIfActive
  SessionsExpire
CHECK_DEADLOCK FALSE
