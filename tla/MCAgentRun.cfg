SPECIFICATION Spec
CONSTANTS
  UseLLM = TRUE
  PlanSizes <- MCPlanSizes
  RecoverySizes <- MCRecoverySizes
  MaxLoops = 4
  MaxToolCalls = 4
  MaxToolRounds = 2
  MaxStepRetries = 1
  MaxReplans = 2
INVARIANTS
  TypeOK
  InPlanOrder
  RetriesAreCounted
  ToolCallsBounded
  ReplansNeedTests
  VerdictIsEarned
PROPERTIES
  TraceNamesExecutedStep
  Termination
  ImplementsContract
CHECK_DEADLOCK FALSE
