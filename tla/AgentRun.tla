------------------------------ MODULE AgentRun ------------------------------
(***************************************************************************)
(* One run of the agent: the loop of main.py's run_agent, the state it     *)
(* works on (core/state.py), the executor's execution of one step          *)
(* (core/executor.py) and the planner's two entry points                   *)
(* (core/planner.py).                                                      *)
(*                                                                         *)
(* What the language model, the tools and the clock answer is chosen       *)
(* nondeterministically.  What the loop does with the answer is not: every *)
(* budget check, early exit and counter of the code is here, in the order  *)
(* in which the code performs it.                                          *)
(***************************************************************************)
EXTENDS Naturals, Sequences, FiniteSets

CONSTANTS
  UseLLM,          \* TRUE when run_agent is given a client, FALSE in fallback mode
  PlanSizes,       \* numbers of steps an initial plan may have
  RecoverySizes,   \* numbers of steps a recovery plan may have
  MaxLoops,        \* max_loops of run_agent
  MaxToolCalls,    \* AgentBudget.max_tool_calls
  MaxToolRounds,   \* Executor.max_tool_rounds, or the longest suggested_tools list
  MaxStepRetries,  \* AgentBudget.max_step_retries
  MaxReplans       \* AgentBudget.max_replans

\* AgentBudget.__post_init__ refuses a budget that is not positive, and neither
\* planner ever delivers an empty plan.
ASSUME BudgetAssumption ==
  /\ UseLLM \in BOOLEAN
  /\ PlanSizes \subseteq Nat \ {0}
  /\ RecoverySizes \subseteq Nat \ {0}
  /\ MaxLoops \in Nat \ {0}
  /\ MaxToolCalls \in Nat \ {0}
  /\ MaxToolRounds \in Nat \ {0}
  /\ MaxStepRetries \in Nat \ {0}
  /\ MaxReplans \in Nat \ {0}

VARIABLES
  pc,                 \* where run_agent stands (see Control)
  plan,               \* state.plan
  loop_count,         \* iterations of the main loop entered so far
  current_step,       \* index in plan of the step being executed, 0 when none is
  rounds,             \* tool calls made by the attempt in progress
  tool_calls,         \* len(state.tool_history)
  test_results,       \* len(state.test_results)
  validation_status,  \* verdict of the latest test result
  test_count_at_last_replan_check,
  replan_count,
  next_id,            \* index of the first step of the latest recovery plan, 0 if none
  run_status,
  stop_reason,
  trace               \* the trajectory log, one entry per executed step

runVars  == <<run_status, stop_reason>>
toolVars == <<tool_calls, test_results, validation_status>>
loopVars == <<loop_count, current_step, rounds>>
replanVars == <<test_count_at_last_replan_check, replan_count, next_id>>
vars == <<pc, plan, loopVars, toolVars, replanVars, runVars, trace>>

-----------------------------------------------------------------------------
(* Values *)

\* "plan"  before create_initial_plan        "head"  top of the while loop
\* "exec"  inside execute_current_step       "judge" its tool rounds are over
\* "after" the step is marked, not recorded  "exit"  the loop was left
\* "done"  run_agent returned                "raised" run_agent raised
Control == {"plan", "head", "exec", "judge", "after", "exit", "done", "raised"}

StepStatus == {"pending", "running", "completed", "failed"}
ValidationStatus == {"not_run", "passed", "failed", "error"}
RunStatus == {"pending", "completed", "failed"}
StopReason == {"none", "step_retry_exhausted", "deadline_exceeded",
               "tool_call_limit_exceeded", "replan_limit_exceeded"}

\* Of a tool result the loop only reads which kind of tool it comes from and
\* whether it succeeded; of a step's list of results only which of these occur.
ToolResult == [test : BOOLEAN, success : BOOLEAN]

PlanStep == [status : StepStatus, retry_count : Nat, tool_results : SUBSET ToolResult]

TraceEntry == [step : Nat \ {0}, status : StepStatus, tool_results : SUBSET ToolResult]

NewStep == [status |-> "pending", retry_count |-> 0, tool_results |-> {}]

NewSteps(n) == [i \in 1..n |-> NewStep]

-----------------------------------------------------------------------------
(* AgentState's queries *)

Exhausted(step) == step.status = "failed" /\ step.retry_count > MaxStepRetries

\* The condition get_current_step tests on each step.
Retriable(step) ==
  /\ step.status \in {"pending", "failed"}
  /\ step.retry_count <= MaxStepRetries

\* Mutation: the newest step that may run is taken first.
IsCurrentStepFromTheEnd(i) ==
  /\ i \in DOMAIN plan
  /\ Retriable(plan[i])
  /\ \A j \in i+1..Len(plan) : ~Retriable(plan[j])

\* get_current_step: the first step of the plan that may be executed.
IsCurrentStep(i) ==
  /\ i \in DOMAIN plan
  /\ Retriable(plan[i])
  /\ \A j \in 1..i-1 : ~Retriable(plan[j])

NoCurrentStep == \A i \in DOMAIN plan : ~Retriable(plan[i])

\* Mutation: failures are forgotten.
IgnoredFailures == FALSE

HasUnresolvedFailures == \E i \in DOMAIN plan : Exhausted(plan[i])

Ended(step) == step.status \in {"completed", "failed"}

\* Mutation: the scan for the executed step starts at the front of the plan.
IsTracedStepFromTheFront(i) ==
  /\ i \in DOMAIN plan
  /\ Ended(plan[i])
  /\ \A j \in 1..i-1 : ~Ended(plan[j])

\* The step run_agent records after an attempt: the last one of the plan that is
\* completed or failed, and the last of all if there is none.
IsTracedStep(i) ==
  /\ i \in DOMAIN plan
  /\ \/ Ended(plan[i]) /\ \A j \in i+1..Len(plan) : ~Ended(plan[j])
     \/ i = Len(plan) /\ \A j \in DOMAIN plan : ~Ended(plan[j])

-----------------------------------------------------------------------------
(* Initial state: run_agent has built a fresh AgentState *)

Init ==
  /\ pc = "plan"
  /\ plan = <<>>
  /\ loop_count = 0
  /\ current_step = 0
  /\ rounds = 0
  /\ tool_calls = 0
  /\ test_results = 0
  /\ validation_status = "not_run"
  /\ test_count_at_last_replan_check = 0
  /\ replan_count = 0
  /\ next_id = 0
  /\ run_status = "pending"
  /\ stop_reason = "none"
  /\ trace = <<>>

-----------------------------------------------------------------------------
(* Planning *)

\* create_initial_plan: an LLM plan, or the rule-based one when there is no
\* client or the answer cannot be parsed.
CreateInitialPlan ==
  /\ pc = "plan"
  /\ \E n \in PlanSizes : plan' = NewSteps(n)
  /\ pc' = "head"
  /\ UNCHANGED <<loopVars, toolVars, replanVars, runVars, trace>>

\* client.chat raises while the initial plan is asked for: nothing catches it.
InitialPlanRaises ==
  /\ pc = "plan"
  /\ UseLLM
  /\ pc' = "raised"
  /\ UNCHANGED <<plan, loopVars, toolVars, replanVars, runVars, trace>>

-----------------------------------------------------------------------------
(* Top of the loop *)

EnterLoop ==
  /\ pc = "head"
  /\ loop_count < MaxLoops
  /\ loop_count' = loop_count + 1

\* Every way of leaving the loop that gives the run a verdict.
LeaveLoop(status, reason) ==
  /\ run_status' = status
  /\ stop_reason' = reason
  /\ pc' = "exit"
  /\ UNCHANGED <<plan, current_step, rounds, toolVars>>

\* No step may be executed any more: the run failed if one of them ran out of
\* retries, and is complete otherwise.
PlanFinished ==
  /\ EnterLoop
  /\ NoCurrentStep
  /\ IF HasUnresolvedFailures
     THEN LeaveLoop("failed", "step_retry_exhausted")
     ELSE LeaveLoop("completed", "none")
  /\ UNCHANGED <<replanVars, trace>>

\* The wall clock is read here and nowhere else.
DeadlineExceeded ==
  /\ EnterLoop
  /\ ~NoCurrentStep
  /\ LeaveLoop("failed", "deadline_exceeded")
  /\ UNCHANGED <<replanVars, trace>>

\* Mutation: off by one in the comparison with the budget.
ToolBudgetSpentTooLate == tool_calls > MaxToolCalls + 1

ToolBudgetSpent == tool_calls >= MaxToolCalls

ToolCallLimitExceeded ==
  /\ EnterLoop
  /\ ~NoCurrentStep
  /\ ToolBudgetSpent
  /\ LeaveLoop("failed", "tool_call_limit_exceeded")
  /\ UNCHANGED <<replanVars, trace>>

\* Mutation: the verdict is decided although the loop ran out of iterations.
LoopCapCompletes ==
  /\ pc = "head"
  /\ loop_count = MaxLoops
  /\ LeaveLoop("completed", "none")
  /\ UNCHANGED <<loop_count, replanVars, trace>>

\* The while condition is false: the loop ends with no verdict at all.
LoopCap ==
  /\ pc = "head"
  /\ loop_count = MaxLoops
  /\ pc' = "exit"
  /\ UNCHANGED <<plan, loopVars, toolVars, replanVars, runVars, trace>>

StartStep ==
  /\ EnterLoop
  /\ ~ToolBudgetSpent
  /\ \E i \in DOMAIN plan :
       /\ IsCurrentStep(i)
       /\ current_step' = i
       /\ plan' = [plan EXCEPT ![i].status = "running"]
  /\ rounds' = 0
  /\ pc' = "exec"
  /\ UNCHANGED <<toolVars, replanVars, runVars, trace>>

\* The model's suggested_tools is a list of something other than strings:
\* joining it for the console raises before the try block is entered.
StartStepRaises ==
  /\ UseLLM
  /\ EnterLoop
  /\ ~ToolBudgetSpent
  /\ \E i \in DOMAIN plan :
       /\ IsCurrentStep(i)
       /\ current_step' = i
       /\ plan' = [plan EXCEPT ![i].status = "running"]
  /\ pc' = "raised"
  /\ UNCHANGED <<rounds, toolVars, replanVars, runVars, trace>>

-----------------------------------------------------------------------------
(* Inside a step *)

\* state.add_tool_result, as far as the loop's decisions depend on it: every
\* result joins tool_history, a run_tests result also joins test_results and
\* sets the validation status.
AddToolResult(test, verdict) ==
  /\ tool_calls' = tool_calls + 1
  /\ test_results' = IF test THEN test_results + 1 ELSE test_results
  /\ validation_status' = IF test THEN verdict ELSE validation_status

\* What _execute_tool may return.  An unknown tool, a schema error and an exception of
\* the tool are failed results like any other; only a test can end in an error.
Outcome(test, success, verdict) ==
  /\ success <=> verdict = "passed"
  /\ test \/ verdict # "error"

\* _tool_result_is_enough: a failed result never ends the rounds of a step.  After a
\* successful one the fallback stops, and the LLM mode stops or goes on as the kind
\* of step and tool decide.
MayBeEnough(success, enough) ==
  /\ enough => success
  /\ UseLLM \/ enough = success

\* One round of _llm_execute_step, or one suggested tool of _fallback_execute_step.
ToolCall ==
  /\ pc = "exec"
  /\ rounds < MaxToolRounds
  /\ \E test, success, enough \in BOOLEAN, verdict \in {"passed", "failed", "error"} :
       /\ Outcome(test, success, verdict)
       /\ MayBeEnough(success, enough)
       /\ plan' = [plan EXCEPT ![current_step].tool_results =
                     @ \cup {[test |-> test, success |-> success]}]
       /\ AddToolResult(test, verdict)
       /\ pc' = IF enough \/ rounds + 1 = MaxToolRounds THEN "judge" ELSE "exec"
  /\ rounds' = rounds + 1
  /\ UNCHANGED <<loop_count, current_step, replanVars, runVars, trace>>

\* Mutation: a step that used up its tool rounds is never judged.
RoundsOverEarlyOnly == pc = "exec" /\ rounds > 0

\* The model may answer without calling a tool at once; the fallback tries at
\* least one tool before its list ends.
RoundsOver ==
  \/ pc = "judge"
  \/ pc = "exec" /\ (UseLLM \/ rounds > 0)

\* Mutation: mark_failed forgets to count the attempt.
MarkFailedUncounted(step) == [step EXCEPT !.status = "failed"]

MarkFailed(step) ==
  [status |-> "failed", retry_count |-> step.retry_count + 1,
   tool_results |-> step.tool_results]

MarkCompleted(step) == [step EXCEPT !.status = "completed"]

\* Tools were called for this step, in this attempt or an earlier one, and none
\* of them succeeded.
AllToolsFailed(results) == results # {} /\ \A r \in results : ~r.success

MarkStep ==
  /\ RoundsOver
  /\ plan' = [plan EXCEPT ![current_step] =
                IF AllToolsFailed(@.tool_results) THEN MarkFailed(@) ELSE MarkCompleted(@)]
  /\ pc' = "after"
  /\ UNCHANGED <<loopVars, toolVars, replanVars, runVars, trace>>

\* client.chat or the memory's write to disk raises: the step fails whatever its
\* tools answered.
StepRaises ==
  /\ RoundsOver
  /\ plan' = [plan EXCEPT ![current_step] = MarkFailed(@)]
  /\ pc' = "after"
  /\ UNCHANGED <<loopVars, toolVars, replanVars, runVars, trace>>

-----------------------------------------------------------------------------
(* After a step: the trajectory entry, then the replan gate *)

RecordStep ==
  \E i \in DOMAIN plan :
    /\ IsTracedStep(i)
    /\ trace' = Append(trace, [step |-> i, status |-> plan[i].status,
                               tool_results |-> plan[i].tool_results])

\* Mutation: the gate of the replan looks at every result ever seen.
StaleTestResult == test_results > 0

FreshTestResult == test_results > test_count_at_last_replan_check

NeedsReplan == FreshTestResult /\ validation_status # "passed"

\* Mutation: one replan too many.
ReplanBudgetSpentTooLate == replan_count > MaxReplans

ReplanBudgetSpent == replan_count >= MaxReplans

\* What every path out of "after" does first.
AfterStep ==
  /\ pc = "after"
  /\ RecordStep
  /\ test_count_at_last_replan_check' =
       IF FreshTestResult THEN test_results ELSE test_count_at_last_replan_check

NextIteration ==
  /\ AfterStep
  /\ ~NeedsReplan
  /\ current_step' = 0
  /\ pc' = "head"
  /\ UNCHANGED <<plan, loop_count, rounds, toolVars, replan_count, next_id, runVars>>

ReplanLimitExceeded ==
  /\ AfterStep
  /\ NeedsReplan
  /\ ReplanBudgetSpent
  /\ LeaveLoop("failed", "replan_limit_exceeded")
  /\ UNCHANGED <<loop_count, replan_count, next_id>>

\* adjust_plan: the replan is counted, then the recovery steps are appended with
\* ids that follow the largest one of the plan.
AdjustPlan ==
  /\ AfterStep
  /\ NeedsReplan
  /\ ~ReplanBudgetSpent
  /\ replan_count' = replan_count + 1
  /\ next_id' = Len(plan) + 1
  /\ \E n \in RecoverySizes : plan' = plan \o NewSteps(n)
  /\ current_step' = 0
  /\ pc' = "head"
  /\ UNCHANGED <<loop_count, rounds, toolVars, runVars>>

\* client.chat raises inside adjust_plan, after the replan was counted.
AdjustPlanRaises ==
  /\ UseLLM
  /\ AfterStep
  /\ NeedsReplan
  /\ ~ReplanBudgetSpent
  /\ replan_count' = replan_count + 1
  /\ pc' = "raised"
  /\ UNCHANGED <<plan, loopVars, toolVars, next_id, runVars>>

\* After the loop: finished_at, the "done" event, the trajectory file, the answer.
Finish ==
  /\ pc = "exit"
  /\ pc' = "done"
  /\ UNCHANGED <<plan, loopVars, toolVars, replanVars, runVars, trace>>

\* The trajectory file cannot be written: run_agent raises after it has already
\* announced the result.
FinishRaises ==
  /\ pc = "exit"
  /\ pc' = "raised"
  /\ UNCHANGED <<plan, loopVars, toolVars, replanVars, runVars, trace>>

-----------------------------------------------------------------------------
Next ==
  \/ CreateInitialPlan \/ InitialPlanRaises
  \/ PlanFinished \/ DeadlineExceeded \/ ToolCallLimitExceeded \/ LoopCap
  \/ StartStep \/ StartStepRaises
  \/ ToolCall \/ MarkStep \/ StepRaises
  \/ NextIteration \/ ReplanLimitExceeded \/ AdjustPlan \/ AdjustPlanRaises
  \/ Finish \/ FinishRaises

\* run_agent is one sequential function whose calls all return: commands, tests
\* and the model client carry timeouts.
Fairness == WF_vars(Next)

Spec == Init /\ [][Next]_vars /\ Fairness

-----------------------------------------------------------------------------
(* Properties *)

TypeOK ==
  /\ pc \in Control
  /\ plan \in Seq(PlanStep)
  /\ loop_count \in 0..MaxLoops
  /\ current_step \in 0..Len(plan)
  /\ rounds \in 0..MaxToolRounds
  /\ tool_calls \in Nat
  /\ test_results \in Nat
  /\ validation_status \in ValidationStatus
  /\ test_count_at_last_replan_check \in Nat
  /\ replan_count \in 0..MaxReplans
  /\ next_id \in 0..Len(plan)
  /\ run_status \in RunStatus
  /\ stop_reason \in StopReason
  /\ trace \in Seq(TraceEntry)

Settled(step) == step.status = "completed" \/ Exhausted(step)

\* No step is touched while an earlier one may still run: a recovery step never
\* starts before every step planned ahead of it is completed or out of retries.
InPlanOrder ==
  \A i, j \in DOMAIN plan : i < j /\ plan[j] # NewStep => Settled(plan[i])

\* The trajectory log names the step that was executed, although run_agent looks
\* for it again after the executor returned.
TraceNamesExecutedStep ==
  [][trace' # trace => trace'[Len(trace')].step = current_step]_vars

FailuresTraced(i) ==
  {k \in DOMAIN trace : trace[k].step = i /\ trace[k].status = "failed"}

\* Every failed attempt costs its step one retry and none is charged twice, and
\* the step is tried at most once more than its retries.
RetriesAreCounted ==
  \A i \in DOMAIN plan :
    /\ plan[i].retry_count <= MaxStepRetries + 1
    /\ pc # "after" => plan[i].retry_count = Cardinality(FailuresTraced(i))

\* The budget on tool calls is read between steps only, so it can be overrun, but
\* by less than the rounds of one step.
ToolCallsBounded == tool_calls < MaxToolCalls + MaxToolRounds

TestingEntries == {k \in DOMAIN trace : \E r \in trace[k].tool_results : r.test}

\* testcase/test_all.py, test_replan_only_fires_after_a_fresh_test_result: there are
\* never more replans than executed steps that ran a test.
ReplansNeedTests == replan_count <= Cardinality(TestingEntries)

\* The verdict says what happened: a completed run completed every step of every
\* plan it was given, and each reason for a failure holds when it is given.
VerdictIsEarned ==
  /\ run_status = "completed" => \A i \in DOMAIN plan : plan[i].status = "completed"
  /\ stop_reason = "step_retry_exhausted" =>
       /\ \E i \in DOMAIN plan : Exhausted(plan[i])
       /\ \A i \in DOMAIN plan : Settled(plan[i])
  /\ stop_reason = "tool_call_limit_exceeded" => tool_calls >= MaxToolCalls
  /\ stop_reason = "replan_limit_exceeded" =>
       replan_count = MaxReplans /\ validation_status # "passed"
  /\ pc \in {"exit", "done"} /\ run_status = "pending" => loop_count = MaxLoops

\* main.py and state.py on test_count_at_last_replan_check: the plan is not revised
\* again before the recovery plan just appended has had a chance to run.
RecoveryRunsBeforeNextReplan ==
  [][replan_count' > replan_count /\ next_id > 0 => plan[next_id].status # "pending"]_vars

Terminated == pc \in {"done", "raised"}

\* Whatever the model and the tools answer, run_agent returns or raises.
Termination == <>Terminated

Phase ==
  CASE pc = "exit"   -> "ended"
    [] pc = "done"   -> "returned"
    [] pc = "raised" -> "raised"
    [] OTHER         -> "running"

CompletedSteps == {i \in DOMAIN plan : plan[i].status = "completed"}

Contract == INSTANCE RunContract WITH
  Reasons   <- StopReason \ {"none"},
  phase     <- Phase,
  planned   <- Len(plan),
  completed <- CompletedSteps,
  verdict   <- run_status,
  reason    <- stop_reason

\* The loop keeps the promise stated in RunContract: completed steps are never
\* taken back or executed again, and the verdict is given once.
ImplementsContract == Contract!Spec

=============================================================================
