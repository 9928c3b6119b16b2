SPECIFICATION Spec
CONSTANTS
  UseLLM = FALSE
  PlanSizes <- MCPlanSizes
  RecoverySizes <- MCRecoverySizes
  MaxLoops = 5
  MaxToolCalls = 6
  MaxToolRounds = 2
  MaxStepRetries = 2
  MaxReplans = 2
PROPERTY RecoveryRunsBeforeNextReplan
CHECK_DEADLOCK FALSE
