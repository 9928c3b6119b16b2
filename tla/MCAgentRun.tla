---- MODULE MCAgentRun ----
(* Small budgets for module AgentRun: every counter is reached by every other *)
(* one, so each exit of the loop is taken.                                    *)
EXTENDS AgentRun

MCPlanSizes == {1, 2}
MCRecoverySizes == {1}

====
