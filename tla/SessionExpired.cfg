SPECIFICATION Spec
CONSTANTS
  r1 = r1
  r2 = r2
  Requests <- MCRequests
  Redis = TRUE
  Servers = {"mcp_fs"}
PROPERTY AcceptedInWorkspace
CHECK_DEADLOCK FALSE
