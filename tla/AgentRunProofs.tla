--------------------------- MODULE AgentRunProofs ---------------------------
(***************************************************************************)
(* Theorems about module AgentRun, for every value of its budgets and every *)
(* size of the plans.                                                      *)
(*                                                                         *)
(* None of the safety properties is inductive alone.  The strengthening    *)
(* says where in the plan the run stands (Position) and how much of each   *)
(* budget is left there (ToolBudget, ReplanBacking, RetryAccount).        *)
(***************************************************************************)
EXTENDS AgentRun, FiniteSetTheorems, SequenceTheorems, TLAPS

InStep == pc \in {"exec", "judge"}
Judged == pc \in {"exit", "done", "raised"}

\* The plan is cut in two at the current step: everything before it is settled,
\* everything after it is untouched, and only the current step can be running.
Position ==
  /\ pc = "plan" => plan = <<>>
  /\ InStep => current_step # 0 /\ plan[current_step].status = "running"
  /\ pc = "after" => current_step # 0 /\ Ended(plan[current_step])
  /\ \A i \in DOMAIN plan : plan[i].status = "running" =>
       i = current_step /\ pc \in {"exec", "judge", "raised"}
  /\ \A i \in DOMAIN plan : plan[i].status = "pending" => plan[i] = NewStep
  /\ InStep \/ pc = "after" =>
       \A i \in DOMAIN plan : i > current_step => plan[i] = NewStep

\* A step is started below the budget and each of its rounds is one tool call.
ToolBudget ==
  /\ tool_calls < MaxToolCalls + MaxToolRounds
  /\ pc = "exec" => tool_calls < MaxToolCalls + rounds

\* No verdict is given before the loop is left.
Unjudged == ~Judged => run_status = "pending" /\ stop_reason = "none"

\* A fresh test result comes from the step in progress and from no other, so the
\* trace entry written before a replan is one that ran a test.
ReplanBacking ==
  /\ test_count_at_last_replan_check <= test_results
  /\ pc \in {"plan", "head"} => ~FreshTestResult
  /\ InStep \/ pc = "after" =>
       (FreshTestResult => \E r \in plan[current_step].tool_results : r.test)
  /\ ReplansNeedTests

\* A failure that is charged to its step and not yet in the trace.
Unrecorded(i) ==
  IF pc = "after" /\ i = current_step /\ plan[i].status = "failed" THEN 1 ELSE 0

\* The retries of a step are its failures in the trace, but for the attempt that
\* has just ended; the trace only speaks of steps of the plan.
RetryAccount ==
  /\ \A i \in DOMAIN plan :
       /\ plan[i].retry_count = Cardinality(FailuresTraced(i)) + Unrecorded(i)
       /\ plan[i].retry_count <= MaxStepRetries + 1
       /\ plan[i].status = "running" => plan[i].retry_count <= MaxStepRetries
  /\ \A k \in DOMAIN trace : trace[k].step \in DOMAIN plan

IInv ==
  /\ TypeOK
  /\ InPlanOrder
  /\ Position
  /\ ToolBudget
  /\ Unjudged
  /\ VerdictIsEarned
  /\ ReplanBacking
  /\ RetryAccount

-----------------------------------------------------------------------------
(* The plan as data: what updating a step and appending a recovery plan do. *)

\* A plan one step of which is replaced keeps its length and its other steps.
LEMMA UpdatedPlan ==
  ASSUME plan \in Seq(PlanStep), NEW i \in DOMAIN plan, NEW x \in PlanStep,
         plan' = [plan EXCEPT ![i] = x]
  PROVE  /\ plan' \in Seq(PlanStep)
         /\ Len(plan') = Len(plan)
         /\ DOMAIN plan' = DOMAIN plan
         /\ plan'[i] = x
         /\ \A j \in DOMAIN plan : j # i => plan'[j] = plan[j]
<1>1. i \in 1..Len(plan) /\ DOMAIN plan = 1..Len(plan)
  BY LenProperties
<1>2. /\ plan' \in Seq(PlanStep)
      /\ Len(plan') = Len(plan)
      /\ \A j \in 1..Len(plan) : plan'[j] = IF j = i THEN x ELSE plan[j]
  BY <1>1, ExceptSeq
<1>3. DOMAIN plan' = 1..Len(plan')
  BY <1>2, LenProperties
<1> QED
  BY <1>1, <1>2, <1>3

\* A recovery plan leaves the steps before it alone and is made of new steps.
LEMMA ExtendedPlan ==
  ASSUME plan \in Seq(PlanStep), NEW n \in Nat, plan' = plan \o NewSteps(n)
  PROVE  /\ plan' \in Seq(PlanStep)
         /\ Len(plan') = Len(plan) + n
         /\ DOMAIN plan \subseteq DOMAIN plan'
         /\ \A i \in DOMAIN plan' :
              plan'[i] = IF i \in DOMAIN plan THEN plan[i] ELSE NewStep
<1>1. NewStep \in PlanStep
  BY DEF NewStep, PlanStep, StepStatus, ToolResult
<1>2. NewSteps(n) \in Seq(PlanStep) /\ Len(NewSteps(n)) = n
  BY <1>1 DEF NewSteps
<1>3. /\ plan' \in Seq(PlanStep)
      /\ Len(plan') = Len(plan) + n
      /\ \A i \in 1..Len(plan) + n :
           plan'[i] = IF i <= Len(plan) THEN plan[i] ELSE NewSteps(n)[i - Len(plan)]
  <2> DEFINE added == NewSteps(n)
  <2>1. added \in Seq(PlanStep) /\ Len(added) = n /\ plan' = plan \o added
    BY <1>2
  <2> HIDE DEF added
  <2>2. /\ plan \o added \in Seq(PlanStep)
        /\ Len(plan \o added) = Len(plan) + Len(added)
        /\ \A i \in 1..Len(plan) + Len(added) :
             (plan \o added)[i] = IF i <= Len(plan) THEN plan[i] ELSE added[i - Len(plan)]
    BY <2>1, ConcatProperties
  <2> QED
    BY <2>1, <2>2 DEF added
<1>4. Len(plan) \in Nat /\ DOMAIN plan = 1..Len(plan) /\ DOMAIN plan' = 1..Len(plan')
  BY <1>3, LenProperties
<1>5. \A k \in 1..n : NewSteps(n)[k] = NewStep
  BY DEF NewSteps
<1> QED
  BY <1>3, <1>4, <1>5

\* The records the loop stores stay in their types.
LEMMA StepTypes ==
  ASSUME NEW s \in PlanStep
  PROVE  /\ [s EXCEPT !.status = "running"] \in PlanStep
         /\ MarkFailed(s) \in PlanStep
         /\ MarkCompleted(s) \in PlanStep
         /\ \A r \in ToolResult :
              [s EXCEPT !.tool_results = s.tool_results \cup {r}] \in PlanStep
<1>1. /\ [s EXCEPT !.status = "running"] \in PlanStep
      /\ MarkCompleted(s) \in PlanStep
  BY DEF PlanStep, StepStatus, MarkCompleted
<1>2. MarkFailed(s) \in PlanStep
  BY DEF PlanStep, StepStatus, MarkFailed
<1>3. ASSUME NEW r \in ToolResult
      PROVE  [s EXCEPT !.tool_results = s.tool_results \cup {r}] \in PlanStep
  <2>1. s.tool_results \cup {r} \in SUBSET ToolResult
    BY <1>3 DEF PlanStep
  <2> QED
    BY <2>1 DEF PlanStep
<1> QED
  BY <1>1, <1>2, <1>3

\* What AfterStep leaves behind: the trace grew by one entry.
LEMMA RecordedTrace ==
  ASSUME TypeOK, RecordStep
  PROVE  trace' \in Seq(TraceEntry)
<1>1. PICK i \in DOMAIN plan :
        trace' = Append(trace, [step |-> i, status |-> plan[i].status,
                                tool_results |-> plan[i].tool_results])
  BY DEF RecordStep
<1>2. plan[i] \in PlanStep /\ i \in Nat \ {0}
  BY <1>1, LenProperties, ElementOfSeq DEF TypeOK
<1>3. [step |-> i, status |-> plan[i].status, tool_results |-> plan[i].tool_results]
        \in TraceEntry
  BY <1>2 DEF TraceEntry, PlanStep
<1> QED
  BY <1>1, <1>3 DEF TypeOK

-----------------------------------------------------------------------------
(* Type correctness *)

\* The fresh AgentState run_agent builds is well typed.
LEMMA InitTypeOK == Init => TypeOK
<1> USE BudgetAssumption
<1>1. Init => plan \in Seq(PlanStep) /\ Len(plan) = 0 /\ trace \in Seq(TraceEntry)
  BY EmptySeq DEF Init
<1> QED
  BY <1>1 DEF Init, TypeOK, Control, ValidationStatus, RunStatus, StopReason

\* The step of plan[i] that StartStep and StartStepRaises take.
LEMMA StartedPlan ==
  ASSUME TypeOK, NEW i \in DOMAIN plan,
         plan' = [plan EXCEPT ![i].status = "running"]
  PROVE  /\ i \in 1..Len(plan)
         /\ plan' \in Seq(PlanStep)
         /\ Len(plan') = Len(plan)
         /\ DOMAIN plan' = DOMAIN plan
         /\ plan'[i] = [plan[i] EXCEPT !.status = "running"]
         /\ \A j \in DOMAIN plan : j # i => plan'[j] = plan[j]
<1>1. plan \in Seq(PlanStep) /\ i \in 1..Len(plan)
  BY LenProperties DEF TypeOK
<1>2. [plan[i] EXCEPT !.status = "running"] \in PlanStep
  BY <1>1, ElementOfSeq, StepTypes
<1> QED
  BY <1>1, <1>2, UpdatedPlan

\* Inside a step the current step is a step of the plan.
LEMMA CurrentStepInPlan ==
  ASSUME TypeOK, Position, InStep \/ pc = "after"
  PROVE  /\ current_step \in DOMAIN plan
         /\ current_step \in 1..Len(plan)
         /\ plan[current_step] \in PlanStep
<1>1. Len(plan) \in Nat /\ DOMAIN plan = 1..Len(plan)
  BY LenProperties DEF TypeOK
<1>2. current_step \in 1..Len(plan)
  BY <1>1 DEF TypeOK, Position
<1> QED
  BY <1>1, <1>2, ElementOfSeq DEF TypeOK

\* One result joins the current step's list.
LEMMA ToolCallPlan ==
  ASSUME TypeOK, Position, ToolCall
  PROVE  \E r \in ToolResult :
           /\ plan' \in Seq(PlanStep)
           /\ Len(plan') = Len(plan)
           /\ DOMAIN plan' = DOMAIN plan
           /\ plan'[current_step] = [plan[current_step] EXCEPT
                 !.tool_results = plan[current_step].tool_results \cup {r}]
           /\ \A j \in DOMAIN plan : j # current_step => plan'[j] = plan[j]
           /\ test_results' = IF r.test THEN test_results + 1 ELSE test_results
<1>1. /\ current_step \in DOMAIN plan
      /\ plan[current_step] \in PlanStep
  BY CurrentStepInPlan DEF ToolCall, InStep
<1>2. PICK r \in ToolResult :
        /\ plan' = [plan EXCEPT ![current_step] = [plan[current_step] EXCEPT
                      !.tool_results = plan[current_step].tool_results \cup {r}]]
        /\ test_results' = IF r.test THEN test_results + 1 ELSE test_results
  <2>1. PICK test \in BOOLEAN, success \in BOOLEAN, verdict \in {"passed", "failed", "error"} :
          /\ plan' = [plan EXCEPT ![current_step].tool_results =
                         @ \cup {[test |-> test, success |-> success]}]
          /\ AddToolResult(test, verdict)
    BY DEF ToolCall
  <2> DEFINE r == [test |-> test, success |-> success]
  <2>2. r \in ToolResult /\ r.test = test
    BY DEF ToolResult
  <2>3. test_results' = IF r.test THEN test_results + 1 ELSE test_results
    BY <2>1, <2>2 DEF AddToolResult
  <2>4. plan' = [plan EXCEPT ![current_step] = [plan[current_step] EXCEPT
                   !.tool_results = plan[current_step].tool_results \cup {r}]]
    BY <2>1
  <2> HIDE DEF r
  <2> QED
    BY <2>2, <2>3, <2>4
<1>3. [plan[current_step] EXCEPT
         !.tool_results = plan[current_step].tool_results \cup {r}] \in PlanStep
  BY <1>1, StepTypes
<1>4. plan \in Seq(PlanStep)
  BY DEF TypeOK
<1> QED
  BY <1>1, <1>2, <1>3, <1>4, UpdatedPlan

\* The current step is marked, whatever the mark.
LEMMA MarkedPlan ==
  ASSUME TypeOK, Position, MarkStep \/ StepRaises
  PROVE  /\ plan' \in Seq(PlanStep)
         /\ Len(plan') = Len(plan)
         /\ DOMAIN plan' = DOMAIN plan
         /\ \/ plan'[current_step] = MarkFailed(plan[current_step])
            \/ plan'[current_step] = MarkCompleted(plan[current_step])
         /\ \A j \in DOMAIN plan : j # current_step => plan'[j] = plan[j]
<1>1. /\ current_step \in DOMAIN plan
      /\ plan[current_step] \in PlanStep
  BY CurrentStepInPlan DEF MarkStep, StepRaises, RoundsOver, InStep
<1>2. PICK x \in {MarkFailed(plan[current_step]), MarkCompleted(plan[current_step])} :
        plan' = [plan EXCEPT ![current_step] = x]
  BY DEF MarkStep, StepRaises
<1>3. x \in PlanStep
  BY <1>1, <1>2, StepTypes
<1>4. plan \in Seq(PlanStep)
  BY DEF TypeOK
<1> QED
  BY <1>1, <1>2, <1>3, <1>4, UpdatedPlan

\* Every step of the loop keeps the types and stays within the budgets they state.
LEMMA NextTypeOK == TypeOK /\ Position /\ [Next]_vars => TypeOK'
<1> SUFFICES ASSUME TypeOK, Position, [Next]_vars
             PROVE  TypeOK'
  OBVIOUS
<1> USE BudgetAssumption
<1>0. Len(plan) \in Nat /\ DOMAIN plan = 1..Len(plan)
  BY LenProperties DEF TypeOK
<1>1. CASE CreateInitialPlan
  <2>1. PICK n \in PlanSizes : plan' = NewSteps(n)
    BY <1>1 DEF CreateInitialPlan
  <2>2. NewStep \in PlanStep /\ n \in Nat
    BY <2>1 DEF NewStep, PlanStep, StepStatus, ToolResult
  <2>3. plan' \in Seq(PlanStep) /\ Len(plan') = n
    BY <2>1, <2>2 DEF NewSteps
  <2>4. current_step = 0 /\ next_id = 0
    BY <1>1, EmptySeq DEF CreateInitialPlan, Position, TypeOK
  <2>5. current_step' \in 0..Len(plan') /\ next_id' \in 0..Len(plan')
    BY <1>1, <2>2, <2>3, <2>4 DEF CreateInitialPlan, loopVars, replanVars
  <2> QED
    BY <1>1, <2>3, <2>5 DEF CreateInitialPlan, TypeOK, Control, loopVars, toolVars, replanVars, runVars
<1>2. CASE InitialPlanRaises
  BY <1>2 DEF InitialPlanRaises, TypeOK, Control, loopVars, toolVars, replanVars, runVars
<1>3. CASE PlanFinished \/ DeadlineExceeded \/ ToolCallLimitExceeded
  <2>1. PICK s \in RunStatus, r \in StopReason : EnterLoop /\ LeaveLoop(s, r)
                                                /\ UNCHANGED <<replanVars, trace>>
    BY <1>3 DEF PlanFinished, DeadlineExceeded, ToolCallLimitExceeded, RunStatus, StopReason
  <2>2. loop_count' \in 0..MaxLoops
    BY <2>1 DEF EnterLoop, TypeOK
  <2> QED
    BY <2>1, <2>2 DEF LeaveLoop, TypeOK, Control, toolVars, replanVars
<1>4. CASE LoopCap
  BY <1>4 DEF LoopCap, TypeOK, Control, loopVars, toolVars, replanVars, runVars
<1>5. CASE StartStep \/ StartStepRaises
  <2>1. PICK i \in DOMAIN plan : /\ current_step' = i
                                 /\ plan' = [plan EXCEPT ![i].status = "running"]
    BY <1>5 DEF StartStep, StartStepRaises
  <2>2. plan' \in Seq(PlanStep) /\ Len(plan') = Len(plan) /\ i \in 1..Len(plan)
    BY <2>1, StartedPlan
  <2>3. loop_count' \in 0..MaxLoops
    <3>1. EnterLoop
      BY <1>5 DEF StartStep, StartStepRaises
    <3> QED
      BY <3>1 DEF EnterLoop, TypeOK
  <2>4. rounds' \in 0..MaxToolRounds /\ pc' \in Control
    <3>1. (rounds' = 0 \/ rounds' = rounds) /\ pc' \in {"exec", "raised"}
      BY <1>5 DEF StartStep, StartStepRaises
    <3> QED
      BY <3>1 DEF TypeOK, Control
  <2>5. current_step' \in 0..Len(plan')
    BY <1>0, <2>1, <2>2
  <2>6. UNCHANGED <<toolVars, replanVars, runVars, trace>>
    BY <1>5 DEF StartStep, StartStepRaises
  <2> QED
    BY <2>2, <2>3, <2>4, <2>5, <2>6 DEF TypeOK, toolVars, replanVars, runVars
<1>6. CASE ToolCall
  <2>1. plan' \in Seq(PlanStep) /\ Len(plan') = Len(plan)
    BY <1>6, ToolCallPlan
  <2>2. /\ rounds' \in 0..MaxToolRounds
        /\ tool_calls' \in Nat
        /\ test_results' \in Nat
        /\ validation_status' \in ValidationStatus
        /\ pc' \in Control
    <3>1. PICK test \in BOOLEAN, verdict \in {"passed", "failed", "error"} :
            AddToolResult(test, verdict)
      BY <1>6 DEF ToolCall
    <3>2. rounds < MaxToolRounds /\ rounds' = rounds + 1 /\ pc' \in {"exec", "judge"}
      BY <1>6 DEF ToolCall
    <3> QED
      BY <3>1, <3>2 DEF AddToolResult, TypeOK, ValidationStatus, Control
  <2> QED
    BY <1>6, <2>1, <2>2 DEF ToolCall, TypeOK, replanVars, runVars
<1>7. CASE MarkStep \/ StepRaises
  <2>1. plan' \in Seq(PlanStep) /\ Len(plan') = Len(plan)
    BY <1>7, MarkedPlan
  <2> QED
    BY <1>7, <2>1 DEF MarkStep, StepRaises, TypeOK, Control, loopVars, toolVars, replanVars, runVars
<1>8. CASE NextIteration
  <2>1. trace' \in Seq(TraceEntry)
    BY <1>8, RecordedTrace DEF NextIteration, AfterStep
  <2> QED
    BY <1>0, <1>8, <2>1 DEF NextIteration, AfterStep, TypeOK, Control, toolVars, runVars
<1>9. CASE ReplanLimitExceeded
  <2>1. trace' \in Seq(TraceEntry)
    BY <1>9, RecordedTrace DEF ReplanLimitExceeded, AfterStep
  <2> QED
    BY <1>9, <2>1 DEF ReplanLimitExceeded, AfterStep, LeaveLoop, TypeOK, Control, RunStatus,
                      StopReason, toolVars
<1>10. CASE AdjustPlan
  <2>1. trace' \in Seq(TraceEntry)
    BY <1>10, RecordedTrace DEF AdjustPlan, AfterStep
  <2>2. PICK n \in RecoverySizes : plan' = plan \o NewSteps(n)
    BY <1>10 DEF AdjustPlan
  <2>3. plan' \in Seq(PlanStep) /\ Len(plan') = Len(plan) + n /\ n \in Nat \ {0}
    BY <2>2, ExtendedPlan DEF TypeOK
  <2>4. replan_count' \in 0..MaxReplans
    BY <1>10 DEF AdjustPlan, ReplanBudgetSpent, TypeOK
  <2>5. next_id' \in 0..Len(plan') /\ current_step' \in 0..Len(plan')
    BY <1>0, <1>10, <2>3 DEF AdjustPlan
  <2> QED
    BY <1>10, <2>1, <2>3, <2>4, <2>5
       DEF AdjustPlan, AfterStep, TypeOK, Control, toolVars, runVars
<1>11. CASE AdjustPlanRaises
  <2>1. trace' \in Seq(TraceEntry)
    BY <1>11, RecordedTrace DEF AdjustPlanRaises, AfterStep
  <2>2. replan_count' \in 0..MaxReplans
    BY <1>11 DEF AdjustPlanRaises, ReplanBudgetSpent, TypeOK
  <2> QED
    BY <1>11, <2>1, <2>2
       DEF AdjustPlanRaises, AfterStep, TypeOK, Control, loopVars, toolVars, runVars
<1>12. CASE Finish \/ FinishRaises
  BY <1>12 DEF Finish, FinishRaises, TypeOK, Control, loopVars, toolVars, replanVars, runVars
<1>13. CASE UNCHANGED vars
  BY <1>13 DEF vars, TypeOK, loopVars, toolVars, replanVars, runVars
<1> QED
  BY <1>1, <1>2, <1>3, <1>4, <1>5, <1>6, <1>7, <1>8, <1>9, <1>10, <1>11, <1>12, <1>13 DEF Next

-----------------------------------------------------------------------------
(* Where the run stands in its plan *)

\* At the top of the loop a step that may not run any more is settled.
LEMMA NotRetriableIsSettled ==
  ASSUME TypeOK, Position, pc = "head", NEW i \in DOMAIN plan, ~Retriable(plan[i])
  PROVE  Settled(plan[i])
<1>1. plan[i] \in PlanStep
  BY LenProperties, ElementOfSeq DEF TypeOK
<1>2. plan[i].status # "running"
  BY DEF Position
<1>3. plan[i].status # "pending"
  BY BudgetAssumption DEF Position, NewStep, Retriable
<1>4. plan[i].status \in {"completed", "failed"}
  BY <1>1, <1>2, <1>3 DEF PlanStep, StepStatus
<1>5. plan[i].retry_count \in Nat /\ MaxStepRetries \in Nat
  BY <1>1, BudgetAssumption DEF PlanStep
<1> QED
  BY <1>4, <1>5 DEF Retriable, Settled, Exhausted

\* The step get_current_step picks has only settled steps before it and only new
\* ones after it.
LEMMA CurrentStepCutsPlan ==
  ASSUME TypeOK, Position, InPlanOrder, pc = "head", NEW i \in DOMAIN plan, IsCurrentStep(i)
  PROVE  /\ \A j \in DOMAIN plan : j < i => Settled(plan[j])
         /\ \A j \in DOMAIN plan : j > i => plan[j] = NewStep
<1>0. Len(plan) \in Nat /\ DOMAIN plan = 1..Len(plan)
  BY LenProperties DEF TypeOK
<1>1. ASSUME NEW j \in DOMAIN plan, j < i
      PROVE  Settled(plan[j])
  <2>1. j \in 1..i-1
    BY <1>0, <1>1
  <2> QED
    BY <2>1, NotRetriableIsSettled DEF IsCurrentStep
<1>2. ~Settled(plan[i])
  <2>1. plan[i] \in PlanStep
    BY LenProperties, ElementOfSeq DEF TypeOK
  <2> QED
    BY <2>1, BudgetAssumption DEF IsCurrentStep, Retriable, Settled, Exhausted, PlanStep
<1>3. ASSUME NEW j \in DOMAIN plan, j > i
      PROVE  plan[j] = NewStep
  BY <1>0, <1>2, <1>3 DEF InPlanOrder
<1> QED
  BY <1>1, <1>3

\* Every step of the loop keeps the plan cut in two at the current step.
LEMMA NextPosition ==
  TypeOK /\ Position /\ InPlanOrder /\ [Next]_vars => Position' /\ InPlanOrder'
<1> SUFFICES ASSUME TypeOK, Position, InPlanOrder, [Next]_vars
             PROVE  Position' /\ InPlanOrder'
  OBVIOUS
<1>0. Len(plan) \in Nat /\ DOMAIN plan = 1..Len(plan)
  BY LenProperties DEF TypeOK
<1>1. CASE CreateInitialPlan
  <2>1. PICK n \in PlanSizes : plan' = NewSteps(n)
    BY <1>1 DEF CreateInitialPlan
  <2>2. \A i \in DOMAIN plan' : plan'[i] = NewStep
    BY <2>1 DEF NewSteps
  <2> QED
    BY <1>1, <2>2 DEF CreateInitialPlan, Position, InPlanOrder, InStep, NewStep
<1>2. CASE /\ UNCHANGED plan
         /\ pc' \in {"head", "exit", "done", "raised"}
         /\ pc \notin {"exec", "judge", "raised"}
  BY <1>2 DEF Position, InPlanOrder, InStep
<1>3. CASE StartStep \/ StartStepRaises
  <2>1. PICK i \in DOMAIN plan : /\ IsCurrentStep(i)
                                 /\ current_step' = i
                                 /\ plan' = [plan EXCEPT ![i].status = "running"]
    BY <1>3 DEF StartStep, StartStepRaises
  <2>2. /\ i \in 1..Len(plan)
        /\ DOMAIN plan' = DOMAIN plan
        /\ plan'[i] = [plan[i] EXCEPT !.status = "running"]
        /\ \A j \in DOMAIN plan : j # i => plan'[j] = plan[j]
    BY <2>1, StartedPlan
  <2>3. pc = "head" /\ pc' \in {"exec", "raised"}
    BY <1>3 DEF StartStep, StartStepRaises, EnterLoop
  <2>4. plan'[i].status = "running"
    BY <2>2, LenProperties, ElementOfSeq DEF TypeOK, PlanStep
  <2>5. /\ \A j \in DOMAIN plan : j < i => Settled(plan[j])
        /\ \A j \in DOMAIN plan : j > i => plan[j] = NewStep
    BY <2>1, <2>3, CurrentStepCutsPlan
  <2>6. Position'
    BY <1>0, <2>1, <2>2, <2>3, <2>4, <2>5 DEF Position, InStep
  <2>7. InPlanOrder'
    BY <1>0, <2>2, <2>5 DEF InPlanOrder
  <2> QED
    BY <2>6, <2>7
<1>4. CASE ToolCall
  <2>1. PICK r \in ToolResult :
           /\ DOMAIN plan' = DOMAIN plan
           /\ plan'[current_step] = [plan[current_step] EXCEPT
                 !.tool_results = plan[current_step].tool_results \cup {r}]
           /\ \A j \in DOMAIN plan : j # current_step => plan'[j] = plan[j]
    BY <1>4, ToolCallPlan
  <2>2. /\ pc = "exec" /\ InStep
        /\ pc' \in {"exec", "judge"}
        /\ current_step' = current_step
    BY <1>4 DEF ToolCall, InStep
  <2>3. current_step \in 1..Len(plan) /\ plan[current_step] \in PlanStep
    BY <2>2, CurrentStepInPlan
  <2>4. plan[current_step].status = "running" /\ plan'[current_step].status = "running"
    BY <2>1, <2>2, <2>3 DEF Position, PlanStep
  <2>5. Position'
    <3>1. /\ DOMAIN plan' = DOMAIN plan
          /\ \A j \in DOMAIN plan : j # current_step => plan'[j] = plan[j]
      BY <2>1
    <3> QED
      BY <1>0, <2>2, <2>3, <2>4, <3>1 DEF Position, InStep
  <2>6. ~Settled(plan[current_step]) /\ plan[current_step] # NewStep
    BY <2>4 DEF Settled, Exhausted, NewStep
  <2>7. InPlanOrder'
    BY <1>0, <2>1, <2>3, <2>6 DEF InPlanOrder
  <2> QED
    BY <2>5, <2>7
<1>5. CASE MarkStep \/ StepRaises
  <2>1. /\ DOMAIN plan' = DOMAIN plan
        /\ \/ plan'[current_step] = MarkFailed(plan[current_step])
           \/ plan'[current_step] = MarkCompleted(plan[current_step])
        /\ \A j \in DOMAIN plan : j # current_step => plan'[j] = plan[j]
    BY <1>5, MarkedPlan
  <2>2. InStep /\ pc' = "after" /\ current_step' = current_step
    BY <1>5 DEF MarkStep, StepRaises, RoundsOver, InStep, loopVars
  <2>3. current_step \in 1..Len(plan) /\ plan[current_step] \in PlanStep
    BY <2>2, CurrentStepInPlan
  <2>4. Ended(plan'[current_step])
    BY <2>1, <2>3 DEF MarkFailed, MarkCompleted, Ended, PlanStep
  <2>5. Position'
    BY <1>0, <2>1, <2>2, <2>3, <2>4 DEF Position, InStep, Ended
  <2>6. ~Settled(plan[current_step]) /\ plan[current_step] # NewStep
    BY <2>2 DEF Position, Settled, Exhausted, NewStep
  <2>7. InPlanOrder'
    BY <1>0, <2>1, <2>3, <2>6 DEF InPlanOrder
  <2> QED
    BY <2>5, <2>7
<1>6. CASE AdjustPlan
  <2>1. PICK n \in RecoverySizes : plan' = plan \o NewSteps(n)
    BY <1>6 DEF AdjustPlan
  <2>2. /\ Len(plan') = Len(plan) + n /\ n \in Nat
        /\ DOMAIN plan \subseteq DOMAIN plan'
        /\ DOMAIN plan' = 1..Len(plan')
        /\ \A i \in DOMAIN plan' : plan'[i] = IF i \in DOMAIN plan THEN plan[i] ELSE NewStep
    BY <2>1, BudgetAssumption, ExtendedPlan, LenProperties DEF TypeOK
  <2>3. pc = "after" /\ pc' = "head"
    BY <1>6 DEF AdjustPlan, AfterStep
  <2>4. Position'
    BY <2>2, <2>3 DEF Position, InStep, NewStep
  <2>5. InPlanOrder'
    BY <1>0, <2>2 DEF InPlanOrder
  <2> QED
    BY <2>4, <2>5
<1>7. CASE UNCHANGED vars
  BY <1>7 DEF vars, loopVars, Position, InPlanOrder, InStep
<1>8. CASE \/ InitialPlanRaises \/ PlanFinished \/ DeadlineExceeded \/ ToolCallLimitExceeded
           \/ LoopCap \/ NextIteration \/ ReplanLimitExceeded \/ AdjustPlanRaises
           \/ Finish \/ FinishRaises
  BY <1>2, <1>8 DEF InitialPlanRaises, PlanFinished, DeadlineExceeded, ToolCallLimitExceeded,
     LoopCap, NextIteration, ReplanLimitExceeded, AdjustPlanRaises, Finish, FinishRaises,
     EnterLoop, LeaveLoop, AfterStep
<1> QED
  BY <1>1, <1>3, <1>4, <1>5, <1>6, <1>7, <1>8 DEF Next

-----------------------------------------------------------------------------
(* Budgets *)

\* Every tool call uses up one round of a step that was started below the budget.
LEMMA NextToolBudget == TypeOK /\ ToolBudget /\ [Next]_vars => ToolBudget'
<1> SUFFICES ASSUME TypeOK, ToolBudget, [Next]_vars
             PROVE  ToolBudget'
  OBVIOUS
<1> USE BudgetAssumption
<1>1. CASE StartStep
  <2>1. ~ToolBudgetSpent /\ rounds' = 0 /\ tool_calls' = tool_calls
    BY <1>1 DEF StartStep, toolVars
  <2> QED
    BY <2>1 DEF ToolBudgetSpent, ToolBudget, TypeOK
<1>2. CASE ToolCall
  <2>1. /\ pc = "exec"
        /\ rounds < MaxToolRounds /\ rounds' = rounds + 1
        /\ tool_calls' = tool_calls + 1
    BY <1>2 DEF ToolCall, AddToolResult
  <2> QED
    BY <2>1 DEF ToolBudget, TypeOK
<1>3. CASE tool_calls' = tool_calls /\ pc' # "exec"
  BY <1>3 DEF ToolBudget
<1>4. CASE \/ CreateInitialPlan \/ InitialPlanRaises \/ PlanFinished \/ DeadlineExceeded
           \/ ToolCallLimitExceeded \/ LoopCap \/ StartStepRaises \/ MarkStep \/ StepRaises
           \/ NextIteration \/ ReplanLimitExceeded \/ AdjustPlan \/ AdjustPlanRaises
           \/ Finish \/ FinishRaises
  BY <1>3, <1>4 DEF CreateInitialPlan, InitialPlanRaises, PlanFinished, DeadlineExceeded,
     ToolCallLimitExceeded, LoopCap, StartStepRaises, MarkStep, StepRaises, NextIteration,
     ReplanLimitExceeded, AdjustPlan, AdjustPlanRaises, Finish, FinishRaises, LeaveLoop, toolVars
<1>5. CASE UNCHANGED vars
  BY <1>5 DEF vars, toolVars, loopVars, ToolBudget
<1> QED
  BY <1>1, <1>2, <1>4, <1>5 DEF Next

-----------------------------------------------------------------------------
(* The verdict *)

\* A verdict is given on leaving the loop only, for a reason that holds then.
LEMMA NextVerdict ==
  TypeOK /\ Position /\ Unjudged /\ VerdictIsEarned /\ [Next]_vars
    => Unjudged' /\ VerdictIsEarned'
<1> SUFFICES ASSUME TypeOK, Position, Unjudged, VerdictIsEarned, [Next]_vars
             PROVE  Unjudged' /\ VerdictIsEarned'
  OBVIOUS
<1> USE BudgetAssumption
<1>1. CASE PlanFinished
  <2>1. /\ pc = "head" /\ pc' = "exit" /\ plan' = plan
        /\ \A i \in DOMAIN plan : ~Retriable(plan[i])
    BY <1>1 DEF PlanFinished, EnterLoop, LeaveLoop, NoCurrentStep
  <2>2. \A i \in DOMAIN plan : Settled(plan[i])
    BY <2>1, NotRetriableIsSettled
  <2>3. CASE HasUnresolvedFailures
    <3>1. run_status' = "failed" /\ stop_reason' = "step_retry_exhausted"
      BY <1>1, <2>3 DEF PlanFinished, LeaveLoop
    <3>2. \E i \in DOMAIN plan : Exhausted(plan[i])
      BY <2>3 DEF HasUnresolvedFailures
    <3> QED
      BY <2>1, <2>2, <3>1, <3>2 DEF Unjudged, Judged, VerdictIsEarned
  <2>4. CASE ~HasUnresolvedFailures
    <3>1. run_status' = "completed" /\ stop_reason' = "none"
      BY <1>1, <2>4 DEF PlanFinished, LeaveLoop
    <3>2. \A i \in DOMAIN plan : plan[i].status = "completed"
      BY <2>2, <2>4 DEF HasUnresolvedFailures, Settled
    <3> QED
      BY <2>1, <3>1, <3>2 DEF Unjudged, Judged, VerdictIsEarned
  <2> QED
    BY <2>3, <2>4
<1>2. CASE DeadlineExceeded
  BY <1>2 DEF DeadlineExceeded, LeaveLoop, Unjudged, Judged, VerdictIsEarned
<1>3. CASE ToolCallLimitExceeded
  <2>1. /\ pc' = "exit" /\ run_status' = "failed" /\ tool_calls' = tool_calls
        /\ stop_reason' = "tool_call_limit_exceeded" /\ tool_calls >= MaxToolCalls
    BY <1>3 DEF ToolCallLimitExceeded, LeaveLoop, ToolBudgetSpent, toolVars
  <2> QED
    BY <2>1 DEF Unjudged, Judged, VerdictIsEarned
<1>4. CASE ReplanLimitExceeded
  <2>1. /\ pc' = "exit" /\ run_status' = "failed" /\ stop_reason' = "replan_limit_exceeded"
        /\ validation_status' = validation_status /\ validation_status # "passed"
        /\ replan_count' = replan_count /\ replan_count >= MaxReplans
    BY <1>4 DEF ReplanLimitExceeded, LeaveLoop, NeedsReplan, ReplanBudgetSpent, toolVars
  <2>2. replan_count = MaxReplans
    BY <2>1 DEF TypeOK
  <2> QED
    BY <2>1, <2>2 DEF Unjudged, Judged, VerdictIsEarned
<1>5. CASE LoopCap
  BY <1>5 DEF LoopCap, Unjudged, Judged, VerdictIsEarned, runVars, loopVars
<1>6. CASE Finish \/ FinishRaises
  BY <1>6 DEF Finish, FinishRaises, Unjudged, Judged, VerdictIsEarned,
              runVars, loopVars, toolVars, replanVars
<1>7. CASE UNCHANGED runVars /\ ~Judged /\ pc' \notin {"exit", "done"}
  BY <1>7 DEF Unjudged, VerdictIsEarned, runVars
<1>8. CASE \/ CreateInitialPlan \/ InitialPlanRaises \/ StartStep \/ StartStepRaises
           \/ ToolCall \/ MarkStep \/ StepRaises \/ NextIteration \/ AdjustPlan \/ AdjustPlanRaises
  BY <1>7, <1>8 DEF CreateInitialPlan, InitialPlanRaises, StartStep, StartStepRaises, ToolCall,
     MarkStep, StepRaises, RoundsOver, NextIteration, AdjustPlan, AdjustPlanRaises, EnterLoop,
     AfterStep, Judged
<1>9. CASE UNCHANGED vars
  BY <1>9 DEF vars, runVars, loopVars, toolVars, replanVars, Unjudged, Judged, VerdictIsEarned
<1> QED
  BY <1>1, <1>2, <1>3, <1>4, <1>5, <1>6, <1>8, <1>9 DEF Next

-----------------------------------------------------------------------------
(* The trajectory log *)

\* run_agent looks for the executed step from the end of the plan, and finds it:
\* the steps behind the current one have not been touched.
LEMMA RecordedStep ==
  ASSUME TypeOK, Position, AfterStep
  PROVE  /\ plan[current_step] \in PlanStep
         /\ trace' = Append(trace, [step |-> current_step,
                                    status |-> plan[current_step].status,
                                    tool_results |-> plan[current_step].tool_results])
<1>0. Len(plan) \in Nat /\ DOMAIN plan = 1..Len(plan)
  BY LenProperties DEF TypeOK
<1>1. pc = "after"
  BY DEF AfterStep
<1>2. current_step \in 1..Len(plan) /\ plan[current_step] \in PlanStep
  BY <1>1, CurrentStepInPlan
<1>3. /\ Ended(plan[current_step])
      /\ \A j \in DOMAIN plan : j > current_step => ~Ended(plan[j])
  BY <1>1 DEF Position, Ended, NewStep
<1>4. PICK i \in DOMAIN plan :
        /\ IsTracedStep(i)
        /\ trace' = Append(trace, [step |-> i, status |-> plan[i].status,
                                   tool_results |-> plan[i].tool_results])
  BY DEF AfterStep, RecordStep
<1>5. /\ Ended(plan[i])
      /\ \A j \in DOMAIN plan : j > i => ~Ended(plan[j])
  BY <1>0, <1>2, <1>3, <1>4 DEF IsTracedStep
<1>6. i = current_step
  BY <1>0, <1>2, <1>3, <1>5
<1> QED
  BY <1>2, <1>4, <1>6

\* What the new entry does to the set of entries that ran a test.
LEMMA TestingEntriesGrow ==
  ASSUME TypeOK, NEW e \in TraceEntry, trace' = Append(trace, e)
  PROVE  /\ IsFiniteSet(TestingEntries)
         /\ Cardinality(TestingEntries) \in Nat
         /\ Cardinality(TestingEntries') \in Nat
         /\ Cardinality(TestingEntries') >= Cardinality(TestingEntries)
         /\ (\E r \in e.tool_results : r.test) =>
              Cardinality(TestingEntries') = Cardinality(TestingEntries) + 1
<1>1. /\ Len(trace) \in Nat /\ DOMAIN trace = 1..Len(trace)
      /\ Len(trace') = Len(trace) + 1
      /\ trace' \in Seq(TraceEntry)
      /\ \A k \in 1..Len(trace) : trace'[k] = trace[k]
      /\ trace'[Len(trace) + 1] = e
  BY LenProperties DEF TypeOK
<1>2. DOMAIN trace' = 1..Len(trace) + 1
  BY <1>1, LenProperties
<1>3. IsFiniteSet(TestingEntries)
  <2>1. TestingEntries \in SUBSET (1..Len(trace)) /\ IsFiniteSet(1..Len(trace))
    BY <1>1, FS_Interval DEF TestingEntries
  <2> QED
    BY <2>1, FS_Subset
<1>4. Cardinality(TestingEntries) \in Nat
  BY <1>3, FS_CardinalityType
<1>5. CASE \E r \in e.tool_results : r.test
  <2>1. TestingEntries' = TestingEntries \cup {Len(trace) + 1}
    BY <1>1, <1>2, <1>5 DEF TestingEntries
  <2>2. Len(trace) + 1 \notin TestingEntries
    BY <1>1 DEF TestingEntries
  <2>3. Cardinality(TestingEntries') = Cardinality(TestingEntries) + 1
    BY <1>3, <2>1, <2>2, FS_AddElement
  <2> QED
    BY <1>3, <1>4, <2>3
<1>6. CASE ~\E r \in e.tool_results : r.test
  <2>1. TestingEntries' = TestingEntries
    BY <1>1, <1>2, <1>6 DEF TestingEntries
  <2> QED
    BY <1>3, <1>4, <1>6, <2>1
<1> QED
  BY <1>5, <1>6

\* A replan is counted in the same step that records an executed step with a test.
LEMMA NextReplanBacking ==
  TypeOK /\ Position /\ ReplanBacking /\ [Next]_vars => ReplanBacking'
<1> SUFFICES ASSUME TypeOK, Position, ReplanBacking, [Next]_vars
             PROVE  ReplanBacking'
  OBVIOUS
<1>0. /\ test_results \in Nat
      /\ test_count_at_last_replan_check \in Nat
      /\ replan_count \in Nat
  BY BudgetAssumption DEF TypeOK
<1>1. CASE AfterStep /\ pc' \in {"head", "exit", "raised"} /\ UNCHANGED test_results
             /\ \/ replan_count' = replan_count
                \/ replan_count' = replan_count + 1 /\ NeedsReplan
  <2> DEFINE e == [step |-> current_step, status |-> plan[current_step].status,
                   tool_results |-> plan[current_step].tool_results]
  <2>1. trace' = Append(trace, e) /\ plan[current_step] \in PlanStep
    BY <1>1, RecordedStep
  <2>2. current_step \in Nat \ {0} /\ pc = "after"
    BY <1>1, CurrentStepInPlan DEF AfterStep
  <2>3. e \in TraceEntry /\ e.tool_results = plan[current_step].tool_results
    BY <2>1, <2>2 DEF TraceEntry, PlanStep
  <2> HIDE DEF e
  <2>4. /\ Cardinality(TestingEntries) \in Nat
        /\ Cardinality(TestingEntries') \in Nat
        /\ Cardinality(TestingEntries') >= Cardinality(TestingEntries)
        /\ (\E r \in e.tool_results : r.test) =>
              Cardinality(TestingEntries') = Cardinality(TestingEntries) + 1
    BY <2>1, <2>3, TestingEntriesGrow
  <2>5. NeedsReplan => \E r \in e.tool_results : r.test
    BY <2>2, <2>3 DEF NeedsReplan, ReplanBacking
  <2>6. ReplansNeedTests'
    BY <1>0, <1>1, <2>4, <2>5 DEF ReplanBacking, ReplansNeedTests
  <2>7. test_count_at_last_replan_check' = test_results
    BY <1>0, <1>1 DEF AfterStep, FreshTestResult, ReplanBacking
  <2> QED
    BY <1>0, <1>1, <2>6, <2>7 DEF ReplanBacking, FreshTestResult, InStep
<1>2. CASE NextIteration \/ ReplanLimitExceeded \/ AdjustPlan \/ AdjustPlanRaises
  BY <1>1, <1>2 DEF NextIteration, ReplanLimitExceeded, AdjustPlan, AdjustPlanRaises,
                    LeaveLoop, toolVars
<1>3. CASE StartStep \/ StartStepRaises
  BY <1>3 DEF StartStep, StartStepRaises, EnterLoop, ReplanBacking, ReplansNeedTests,
              TestingEntries, FreshTestResult, toolVars, replanVars
<1>4. CASE ToolCall
  <2>1. /\ pc = "exec" /\ InStep
        /\ pc' \in {"exec", "judge"}
        /\ current_step' = current_step
        /\ UNCHANGED <<trace, test_count_at_last_replan_check, replan_count>>
    BY <1>4 DEF ToolCall, InStep, replanVars
  <2>2. plan[current_step] \in PlanStep
    BY <2>1, CurrentStepInPlan
  <2>3. PICK r \in ToolResult :
           /\ plan'[current_step] = [plan[current_step] EXCEPT
                 !.tool_results = plan[current_step].tool_results \cup {r}]
           /\ test_results' = IF r.test THEN test_results + 1 ELSE test_results
    BY <1>4, ToolCallPlan
  <2>4. plan'[current_step].tool_results = plan[current_step].tool_results \cup {r}
    BY <2>2, <2>3 DEF PlanStep
  <2>5. FreshTestResult' => \E x \in plan'[current_step].tool_results : x.test
    <3>1. CASE r.test
      BY <2>4, <3>1
    <3>2. CASE ~r.test
      BY <2>1, <2>3, <2>4, <3>2 DEF ReplanBacking, FreshTestResult
    <3> QED
      BY <3>1, <3>2
  <2>6. ReplansNeedTests'
    BY <2>1 DEF ReplanBacking, ReplansNeedTests, TestingEntries
  <2>7. test_count_at_last_replan_check' <= test_results'
    BY <1>0, <2>1, <2>3 DEF ReplanBacking
  <2> QED
    BY <2>1, <2>5, <2>6, <2>7 DEF ReplanBacking, InStep
<1>5. CASE MarkStep \/ StepRaises
  <2>1. /\ InStep /\ pc' = "after" /\ current_step' = current_step
        /\ UNCHANGED <<trace, test_results, test_count_at_last_replan_check, replan_count>>
    BY <1>5 DEF MarkStep, StepRaises, RoundsOver, InStep, loopVars, toolVars, replanVars
  <2>2. plan[current_step] \in PlanStep
    BY <2>1, CurrentStepInPlan
  <2>3. plan'[current_step].tool_results = plan[current_step].tool_results
    BY <1>5, <2>2, MarkedPlan DEF MarkFailed, MarkCompleted, PlanStep
  <2> QED
    BY <2>1, <2>3 DEF ReplanBacking, ReplansNeedTests, TestingEntries, FreshTestResult, InStep
<1>6. CASE /\ UNCHANGED <<trace, test_results, test_count_at_last_replan_check, replan_count>>
           /\ pc' \in {"head", "exit", "done", "raised"}
           /\ pc' = "head" => pc = "plan"
  BY <1>6 DEF ReplanBacking, ReplansNeedTests, TestingEntries, FreshTestResult, InStep
<1>7. CASE \/ CreateInitialPlan \/ InitialPlanRaises \/ PlanFinished \/ DeadlineExceeded
           \/ ToolCallLimitExceeded \/ LoopCap \/ Finish \/ FinishRaises
  BY <1>6, <1>7 DEF CreateInitialPlan, InitialPlanRaises, PlanFinished, DeadlineExceeded,
     ToolCallLimitExceeded, LoopCap, Finish, FinishRaises, LeaveLoop, toolVars, replanVars
<1>8. CASE UNCHANGED vars
  BY <1>8 DEF vars, loopVars, toolVars, replanVars, ReplanBacking, ReplansNeedTests,
              TestingEntries, FreshTestResult, InStep
<1> QED
  BY <1>2, <1>3, <1>4, <1>5, <1>7, <1>8 DEF Next

-----------------------------------------------------------------------------
(* Retries *)

\* One more entry is one more failure of the step it names, if it says so.
LEMMA FailuresGrow ==
  ASSUME TypeOK, NEW e \in TraceEntry, trace' = Append(trace, e), NEW i
  PROVE  /\ Cardinality(FailuresTraced(i)) \in Nat
         /\ e.step = i /\ e.status = "failed" =>
              Cardinality(FailuresTraced(i)') = Cardinality(FailuresTraced(i)) + 1
         /\ ~(e.step = i /\ e.status = "failed") =>
              Cardinality(FailuresTraced(i)') = Cardinality(FailuresTraced(i))
<1>1. /\ Len(trace) \in Nat /\ DOMAIN trace = 1..Len(trace)
      /\ DOMAIN trace' = 1..Len(trace) + 1
      /\ \A k \in 1..Len(trace) : trace'[k] = trace[k]
      /\ trace'[Len(trace) + 1] = e
  BY LenProperties DEF TypeOK
<1>2. IsFiniteSet(FailuresTraced(i))
  <2>1. FailuresTraced(i) \in SUBSET (1..Len(trace)) /\ IsFiniteSet(1..Len(trace))
    BY <1>1, FS_Interval DEF FailuresTraced
  <2> QED
    BY <2>1, FS_Subset
<1>3. Cardinality(FailuresTraced(i)) \in Nat
  BY <1>2, FS_CardinalityType
<1>4. CASE e.step = i /\ e.status = "failed"
  <2>1. FailuresTraced(i)' = FailuresTraced(i) \cup {Len(trace) + 1}
    BY <1>1, <1>4 DEF FailuresTraced
  <2>2. Len(trace) + 1 \notin FailuresTraced(i)
    BY <1>1 DEF FailuresTraced
  <2> QED
    BY <1>2, <1>3, <1>4, <2>1, <2>2, FS_AddElement
<1>5. CASE ~(e.step = i /\ e.status = "failed")
  <2>1. FailuresTraced(i)' = FailuresTraced(i)
    BY <1>1, <1>5 DEF FailuresTraced
  <2> QED
    BY <1>3, <1>5, <2>1
<1> QED
  BY <1>4, <1>5

\* The failures in the trace are those of the entries that name the step.
LEMMA FailuresCounted ==
  ASSUME TypeOK, NEW i
  PROVE  /\ Cardinality(FailuresTraced(i)) \in Nat
         /\ (\A k \in DOMAIN trace : trace[k].step # i) => Cardinality(FailuresTraced(i)) = 0
<1>1. Len(trace) \in Nat /\ DOMAIN trace = 1..Len(trace)
  BY LenProperties DEF TypeOK
<1>2. FailuresTraced(i) \in SUBSET (1..Len(trace)) /\ IsFiniteSet(1..Len(trace))
  BY <1>1, FS_Interval DEF FailuresTraced
<1>3. Cardinality(FailuresTraced(i)) \in Nat
  BY <1>2, FS_Subset, FS_CardinalityType
<1>4. ASSUME \A k \in DOMAIN trace : trace[k].step # i
      PROVE  Cardinality(FailuresTraced(i)) = 0
  <2>1. FailuresTraced(i) = {}
    BY <1>4 DEF FailuresTraced
  <2> QED
    BY <2>1, FS_EmptySet
<1> QED
  BY <1>3, <1>4

\* An attempt ends by charging its step, and is recorded before anything else is
\* done.
LEMMA NextRetryAccount ==
  TypeOK /\ Position /\ RetryAccount /\ [Next]_vars => RetryAccount'
<1> SUFFICES ASSUME TypeOK, Position, RetryAccount, [Next]_vars
             PROVE  RetryAccount'
  OBVIOUS
<1> USE BudgetAssumption
<1>0. /\ \A i \in DOMAIN plan : Cardinality(FailuresTraced(i)) \in Nat
      /\ \A i \in DOMAIN plan : plan[i] \in PlanStep /\ plan[i].retry_count \in Nat
      /\ Len(plan) \in Nat /\ DOMAIN plan = 1..Len(plan)
  <2>1. \A i \in DOMAIN plan : Cardinality(FailuresTraced(i)) \in Nat
    BY FailuresCounted
  <2>2. plan \in Seq(PlanStep) /\ Len(plan) \in Nat /\ DOMAIN plan = 1..Len(plan)
    BY LenProperties DEF TypeOK
  <2>3. \A i \in DOMAIN plan : plan[i] \in PlanStep
    BY <2>2, ElementOfSeq
  <2> QED
    BY <2>1, <2>2, <2>3 DEF PlanStep
<1>1. CASE CreateInitialPlan
  <2>1. PICK n \in PlanSizes : plan' = NewSteps(n)
    BY <1>1 DEF CreateInitialPlan
  <2>2. DOMAIN trace = {} /\ trace' = trace /\ pc' = "head"
    <3>1. DOMAIN plan = {}
      BY <1>1 DEF CreateInitialPlan, Position
    <3> QED
      BY <1>1, <3>1 DEF CreateInitialPlan, RetryAccount
  <2>3. \A i \in DOMAIN plan' : plan'[i] = NewStep
    BY <2>1 DEF NewSteps
  <2>4. \A i \in DOMAIN plan' : Cardinality(FailuresTraced(i)') = 0
    BY <2>2, FailuresCounted DEF FailuresTraced
  <2> QED
    BY <2>2, <2>3, <2>4 DEF RetryAccount, Unrecorded, NewStep
<1>2. CASE StartStep \/ StartStepRaises
  <2>1. PICK i \in DOMAIN plan : /\ IsCurrentStep(i)
                                 /\ plan' = [plan EXCEPT ![i].status = "running"]
    BY <1>2 DEF StartStep, StartStepRaises
  <2>2. /\ DOMAIN plan' = DOMAIN plan
        /\ plan'[i] = [plan[i] EXCEPT !.status = "running"]
        /\ \A j \in DOMAIN plan : j # i => plan'[j] = plan[j]
    BY <2>1, StartedPlan
  <2>3. pc = "head" /\ pc' # "after" /\ trace' = trace
    BY <1>2 DEF StartStep, StartStepRaises, EnterLoop
  <2>4. plan'[i].retry_count = plan[i].retry_count /\ plan[i].retry_count <= MaxStepRetries
    BY <1>0, <2>1, <2>2 DEF PlanStep, IsCurrentStep, Retriable
  <2>5. \A j \in DOMAIN plan : FailuresTraced(j)' = FailuresTraced(j)
    BY <2>3 DEF FailuresTraced
  <2>6. \A j \in DOMAIN plan : Unrecorded(j) = 0 /\ Unrecorded(j)' = 0
    BY <2>3 DEF Unrecorded
  <2>7. ASSUME NEW j \in DOMAIN plan
        PROVE  /\ plan'[j].retry_count = Cardinality(FailuresTraced(j)') + Unrecorded(j)'
               /\ plan'[j].retry_count <= MaxStepRetries + 1
               /\ plan'[j].status = "running" => plan'[j].retry_count <= MaxStepRetries
    <3>1. CASE j = i
      BY <1>0, <2>4, <2>5, <2>6, <3>1 DEF RetryAccount
    <3>2. CASE j # i
      BY <1>0, <2>2, <2>5, <2>6, <3>2 DEF RetryAccount
    <3> QED
      BY <3>1, <3>2
  <2> QED
    BY <2>2, <2>3, <2>7 DEF RetryAccount
<1>3. CASE ToolCall
  <2>1. PICK r \in ToolResult :
           /\ DOMAIN plan' = DOMAIN plan
           /\ plan'[current_step] = [plan[current_step] EXCEPT
                 !.tool_results = plan[current_step].tool_results \cup {r}]
           /\ \A j \in DOMAIN plan : j # current_step => plan'[j] = plan[j]
    BY <1>3, ToolCallPlan
  <2>2. current_step \in DOMAIN plan
    BY <1>3, CurrentStepInPlan DEF ToolCall, InStep
  <2>3. /\ plan'[current_step].status = plan[current_step].status
        /\ plan'[current_step].retry_count = plan[current_step].retry_count
    BY <1>0, <2>1, <2>2 DEF PlanStep
  <2>4. pc = "exec" /\ pc' # "after" /\ trace' = trace
    BY <1>3 DEF ToolCall
  <2>5. \A i \in DOMAIN plan : FailuresTraced(i)' = FailuresTraced(i)
    BY <2>4 DEF FailuresTraced
  <2>6. \A i \in DOMAIN plan : /\ plan'[i].status = plan[i].status
                             /\ plan'[i].retry_count = plan[i].retry_count
    BY <2>1, <2>3
  <2>7. \A i \in DOMAIN plan : Unrecorded(i) = 0 /\ Unrecorded(i)' = 0
    BY <2>4 DEF Unrecorded
  <2>8. \A i \in DOMAIN plan :
          /\ plan'[i].retry_count = Cardinality(FailuresTraced(i)') + Unrecorded(i)'
          /\ plan'[i].retry_count <= MaxStepRetries + 1
          /\ plan'[i].status = "running" => plan'[i].retry_count <= MaxStepRetries
    BY <2>5, <2>6, <2>7 DEF RetryAccount
  <2> QED
    BY <2>1, <2>4, <2>8 DEF RetryAccount
<1>4. CASE MarkStep \/ StepRaises
  <2>1. /\ DOMAIN plan' = DOMAIN plan
        /\ \/ plan'[current_step] = MarkFailed(plan[current_step])
           \/ plan'[current_step] = MarkCompleted(plan[current_step])
        /\ \A j \in DOMAIN plan : j # current_step => plan'[j] = plan[j]
    BY <1>4, MarkedPlan
  <2>2. /\ pc \in {"exec", "judge"} /\ pc' = "after" /\ trace' = trace
        /\ current_step' = current_step
    BY <1>4 DEF MarkStep, StepRaises, RoundsOver, loopVars
  <2>3. current_step \in DOMAIN plan /\ plan[current_step].status = "running"
    BY <2>2, CurrentStepInPlan DEF InStep, Position
  <2>4. \/ /\ plan'[current_step].status = "failed"
           /\ plan'[current_step].retry_count = plan[current_step].retry_count + 1
        \/ /\ plan'[current_step].status = "completed"
           /\ plan'[current_step].retry_count = plan[current_step].retry_count
    BY <1>0, <2>1, <2>3 DEF PlanStep, MarkFailed, MarkCompleted
  <2>5. \A i \in DOMAIN plan : FailuresTraced(i)' = FailuresTraced(i)
    BY <2>2 DEF FailuresTraced
  <2>6. plan[current_step].retry_count = Cardinality(FailuresTraced(current_step))
    BY <1>0, <2>2, <2>3 DEF RetryAccount, Unrecorded
  <2> QED
    BY <1>0, <2>1, <2>2, <2>3, <2>4, <2>5, <2>6 DEF RetryAccount, Unrecorded
<1>5. CASE AfterStep /\ pc' # "after" /\ (plan' = plan \/ AdjustPlan)
  <2> DEFINE e == [step |-> current_step, status |-> plan[current_step].status,
                   tool_results |-> plan[current_step].tool_results]
  <2>1. /\ trace' = Append(trace, e)
        /\ current_step \in DOMAIN plan
        /\ pc = "after"
    BY <1>5, RecordedStep, CurrentStepInPlan DEF AfterStep
  <2>2. e \in TraceEntry /\ e.step = current_step /\ e.status = plan[current_step].status
    BY <1>0, <2>1 DEF TraceEntry, PlanStep
  <2> HIDE DEF e
  <2>3. /\ Len(trace) \in Nat /\ DOMAIN trace = 1..Len(trace)
        /\ DOMAIN trace' = 1..Len(trace) + 1
        /\ \A k \in 1..Len(trace) : trace'[k] = trace[k]
        /\ trace'[Len(trace) + 1] = e
    BY <2>1, <2>2, LenProperties DEF TypeOK
  <2>4. \A i \in DOMAIN plan :
          Cardinality(FailuresTraced(i)') = Cardinality(FailuresTraced(i)) + Unrecorded(i)
    BY <1>0, <2>1, <2>2, FailuresGrow DEF Unrecorded
  <2>5. /\ DOMAIN plan \subseteq DOMAIN plan'
        /\ \A i \in DOMAIN plan' :
             plan'[i] = IF i \in DOMAIN plan THEN plan[i] ELSE NewStep
    <3>1. CASE AdjustPlan
      <4>1. PICK n \in RecoverySizes : plan' = plan \o NewSteps(n)
        BY <3>1 DEF AdjustPlan
      <4> QED
        BY <4>1, ExtendedPlan DEF TypeOK
    <3> QED
      BY <1>5, <3>1
  <2>6. \A k \in DOMAIN trace' : trace'[k].step \in DOMAIN plan
    BY <2>1, <2>2, <2>3 DEF RetryAccount
  <2>7. ASSUME NEW i \in DOMAIN plan', i \notin DOMAIN plan
        PROVE  Cardinality(FailuresTraced(i)') = 0
    <3>1. \A k \in DOMAIN trace : trace[k].step # i
      BY <2>7 DEF RetryAccount
    <3> QED
      BY <2>1, <2>2, <2>7, <3>1, FailuresGrow, FailuresCounted
  <2>8. \A i \in DOMAIN plan' : Unrecorded(i)' = 0
    BY <1>5 DEF Unrecorded
  <2>9. ASSUME NEW i \in DOMAIN plan'
        PROVE  /\ plan'[i].retry_count = Cardinality(FailuresTraced(i)') + Unrecorded(i)'
               /\ plan'[i].retry_count <= MaxStepRetries + 1
               /\ plan'[i].status = "running" => plan'[i].retry_count <= MaxStepRetries
    <3>1. CASE i \in DOMAIN plan
      BY <1>0, <2>4, <2>5, <2>8, <3>1 DEF RetryAccount
    <3>2. CASE i \notin DOMAIN plan
      BY <2>5, <2>7, <2>8, <3>2 DEF NewStep
    <3> QED
      BY <3>1, <3>2
  <2> QED
    BY <2>5, <2>6, <2>9 DEF RetryAccount
<1>6. CASE plan' = plan /\ trace' = trace /\ pc # "after" /\ pc' # "after"
  BY <1>0, <1>6 DEF RetryAccount, Unrecorded, FailuresTraced
<1>7. CASE UNCHANGED vars
  BY <1>7 DEF vars, loopVars, RetryAccount, Unrecorded, FailuresTraced
<1>8. CASE NextIteration \/ ReplanLimitExceeded \/ AdjustPlan \/ AdjustPlanRaises
  <2>1. AfterStep /\ pc' # "after" /\ (plan' = plan \/ AdjustPlan)
    BY <1>8 DEF NextIteration, ReplanLimitExceeded, AdjustPlan, AdjustPlanRaises, LeaveLoop
  <2> QED
    BY <1>5, <2>1
<1>9. CASE \/ InitialPlanRaises \/ PlanFinished \/ DeadlineExceeded \/ ToolCallLimitExceeded
           \/ LoopCap \/ Finish \/ FinishRaises
  BY <1>6, <1>9 DEF InitialPlanRaises, PlanFinished, DeadlineExceeded,
     ToolCallLimitExceeded, LoopCap, Finish, FinishRaises, EnterLoop, LeaveLoop
<1> QED
  BY <1>1, <1>2, <1>3, <1>4, <1>7, <1>8, <1>9 DEF Next

-----------------------------------------------------------------------------
(* The run implements its contract *)

\* There is a plan from the moment the planner has delivered one.
PlanMade == pc \notin {"plan", "raised"} => Len(plan) > 0

\* The planner never delivers an empty plan and no step of the loop shortens it.
LEMMA NextPlanMade == IInv /\ PlanMade /\ [Next]_vars => PlanMade'
<1> SUFFICES ASSUME IInv, PlanMade, [Next]_vars
             PROVE  PlanMade'
  OBVIOUS
<1> USE BudgetAssumption
<1>0. TypeOK /\ Position /\ Len(plan) \in Nat
  BY LenProperties DEF IInv, TypeOK
<1>1. CASE CreateInitialPlan
  <2>1. PICK n \in PlanSizes : plan' = NewSteps(n)
    BY <1>1 DEF CreateInitialPlan
  <2>2. n \in Nat \ {0} /\ NewStep \in PlanStep
    BY <2>1 DEF NewStep, PlanStep, StepStatus, ToolResult
  <2>3. Len(plan') = n
    BY <2>1, <2>2 DEF NewSteps
  <2> QED
    BY <2>2, <2>3 DEF PlanMade
<1>2. CASE StartStep \/ StartStepRaises
  <2>1. PICK i \in DOMAIN plan : plan' = [plan EXCEPT ![i].status = "running"]
    BY <1>2 DEF StartStep, StartStepRaises
  <2>2. Len(plan') = Len(plan) /\ pc = "head"
    BY <1>0, <1>2, <2>1, StartedPlan DEF StartStep, StartStepRaises, EnterLoop
  <2> QED
    BY <2>2 DEF PlanMade
<1>3. CASE ToolCall
  BY <1>0, <1>3, ToolCallPlan DEF ToolCall, PlanMade
<1>4. CASE MarkStep \/ StepRaises
  BY <1>0, <1>4, MarkedPlan DEF MarkStep, StepRaises, RoundsOver, PlanMade
<1>5. CASE AdjustPlan
  <2>1. PICK n \in RecoverySizes : plan' = plan \o NewSteps(n)
    BY <1>5 DEF AdjustPlan
  <2>2. Len(plan') = Len(plan) + n /\ n \in Nat \ {0}
    BY <1>0, <2>1, ExtendedPlan DEF TypeOK
  <2> QED
    BY <1>0, <2>2 DEF PlanMade
<1>6. CASE plan' = plan /\ (pc \in {"plan", "raised"} => pc' \in {"plan", "raised"})
  BY <1>6 DEF PlanMade
<1>7. CASE \/ InitialPlanRaises \/ PlanFinished \/ DeadlineExceeded \/ ToolCallLimitExceeded
           \/ LoopCap \/ NextIteration \/ ReplanLimitExceeded \/ AdjustPlanRaises
           \/ Finish \/ FinishRaises
  BY <1>6, <1>7 DEF InitialPlanRaises, PlanFinished, DeadlineExceeded, ToolCallLimitExceeded,
     LoopCap, NextIteration, ReplanLimitExceeded, AdjustPlanRaises, Finish, FinishRaises,
     EnterLoop, LeaveLoop, AfterStep
<1>8. CASE UNCHANGED vars
  BY <1>8, <1>6 DEF vars
<1> QED
  BY <1>1, <1>2, <1>3, <1>4, <1>5, <1>7, <1>8 DEF Next

\* A fresh run is a fresh promise: nothing planned, nothing completed, no verdict.
LEMMA InitContract == Init => Contract!Init
<1> SUFFICES ASSUME Init
             PROVE  Contract!Init
  OBVIOUS
<1>1. Len(plan) = 0 /\ DOMAIN plan = {}
  BY DEF Init
<1>2. CompletedSteps = {}
  BY <1>1 DEF CompletedSteps
<1> QED
  BY <1>1, <1>2 DEF Init, Contract!Init, Phase

\* Nothing of the contract changes while the phase, the number of steps, the
\* completed ones and the verdict stay the same.
LEMMA ContractStutter ==
  ASSUME Phase' = Phase, Len(plan') = Len(plan), CompletedSteps' = CompletedSteps,
         UNCHANGED runVars
  PROVE  UNCHANGED Contract!vars
BY DEF Contract!vars, runVars

\* Every step of the loop is a step of the contract or changes nothing in it.
LEMMA NextContract ==
  IInv /\ PlanMade /\ [Next]_vars => [Contract!Next]_(Contract!vars)
<1> SUFFICES ASSUME IInv, PlanMade, [Next]_vars
             PROVE  [Contract!Next]_(Contract!vars)
  OBVIOUS
<1> USE BudgetAssumption
<1>0. /\ TypeOK /\ Position
      /\ Len(plan) \in Nat /\ DOMAIN plan = 1..Len(plan)
  BY LenProperties DEF IInv, TypeOK
<1>1. CASE CreateInitialPlan
  <2>1. PICK n \in PlanSizes : plan' = NewSteps(n)
    BY <1>1 DEF CreateInitialPlan
  <2>2. n \in Nat \ {0} /\ NewStep \in PlanStep
    BY <2>1 DEF NewStep, PlanStep, StepStatus, ToolResult
  <2>3. Len(plan') = n /\ \A i \in DOMAIN plan' : plan'[i] = NewStep
    BY <2>1, <2>2 DEF NewSteps
  <2>4. Len(plan) = 0 /\ DOMAIN plan = {}
    BY <1>0, <1>1 DEF CreateInitialPlan, Position
  <2>5. CompletedSteps = {} /\ CompletedSteps' = {}
    BY <2>3, <2>4 DEF CompletedSteps, NewStep
  <2>6. Phase = "running" /\ Phase' = "running" /\ UNCHANGED runVars
    BY <1>1 DEF CreateInitialPlan, Phase
  <2> QED
    BY <2>2, <2>3, <2>4, <2>5, <2>6 DEF Contract!Next, Contract!Advance, runVars
<1>2. CASE InitialPlanRaises \/ AdjustPlanRaises \/ FinishRaises
  <2>1. /\ pc \in {"plan", "after", "exit"} /\ pc' = "raised"
        /\ UNCHANGED <<plan, runVars>>
    BY <1>2 DEF InitialPlanRaises, AdjustPlanRaises, FinishRaises, AfterStep
  <2>2. Phase \in {"running", "ended"} /\ Phase' = "raised"
    BY <2>1 DEF Phase
  <2>3. CompletedSteps' = CompletedSteps
    BY <2>1 DEF CompletedSteps
  <2> QED
    BY <2>1, <2>2, <2>3 DEF Contract!Next, Contract!Raise, runVars
<1>3. CASE PlanFinished
  <2>1. /\ pc = "head" /\ pc' = "exit" /\ plan' = plan
        /\ \A i \in DOMAIN plan : ~Retriable(plan[i])
    BY <1>3 DEF PlanFinished, EnterLoop, LeaveLoop, NoCurrentStep
  <2>2. \A i \in DOMAIN plan : Settled(plan[i])
    BY <1>0, <2>1, NotRetriableIsSettled
  <2>3. \/ /\ run_status' = "failed" /\ stop_reason' \in StopReason \ {"none"}
        \/ /\ run_status' = "completed" /\ stop_reason' = "none"
           /\ ~HasUnresolvedFailures
    BY <1>3 DEF PlanFinished, LeaveLoop, StopReason
  <2>4. ~HasUnresolvedFailures => CompletedSteps = 1..Len(plan)
    BY <1>0, <2>2 DEF HasUnresolvedFailures, Settled, CompletedSteps
  <2>5. CompletedSteps' = CompletedSteps
    BY <2>1 DEF CompletedSteps
  <2>6. Phase = "running" /\ Phase' = "ended" /\ Len(plan) > 0
    BY <2>1 DEF Phase, PlanMade
  <2> QED
    BY <2>1, <2>3, <2>4, <2>5, <2>6 DEF Contract!Next, Contract!Conclude
<1>4. CASE DeadlineExceeded \/ ToolCallLimitExceeded \/ ReplanLimitExceeded
  <2>1. /\ pc \in {"head", "after"} /\ pc' = "exit" /\ plan' = plan
        /\ run_status' = "failed" /\ stop_reason' \in StopReason \ {"none"}
    BY <1>4 DEF DeadlineExceeded, ToolCallLimitExceeded, ReplanLimitExceeded, EnterLoop,
                AfterStep, LeaveLoop, StopReason
  <2>2. CompletedSteps' = CompletedSteps
    BY <2>1 DEF CompletedSteps
  <2>3. Phase = "running" /\ Phase' = "ended" /\ Len(plan) > 0
    BY <2>1 DEF Phase, PlanMade
  <2> QED
    BY <2>1, <2>2, <2>3 DEF Contract!Next, Contract!Conclude
<1>5. CASE LoopCap
  <2>1. pc = "head" /\ pc' = "exit" /\ plan' = plan /\ UNCHANGED runVars
    BY <1>5 DEF LoopCap
  <2>2. run_status = "pending" /\ stop_reason = "none"
    BY <2>1 DEF IInv, Unjudged, Judged
  <2>3. CompletedSteps' = CompletedSteps
    BY <2>1 DEF CompletedSteps
  <2>4. Phase = "running" /\ Phase' = "ended" /\ Len(plan) > 0
    BY <2>1 DEF Phase, PlanMade
  <2> QED
    BY <2>1, <2>2, <2>3, <2>4 DEF Contract!Next, Contract!Conclude, runVars
<1>6. CASE StartStep \/ StartStepRaises
  <2>1. PICK i \in DOMAIN plan : /\ IsCurrentStep(i)
                                 /\ plan' = [plan EXCEPT ![i].status = "running"]
    BY <1>6 DEF StartStep, StartStepRaises
  <2>2. /\ Len(plan') = Len(plan) /\ DOMAIN plan' = DOMAIN plan
        /\ plan'[i] = [plan[i] EXCEPT !.status = "running"]
        /\ \A j \in DOMAIN plan : j # i => plan'[j] = plan[j]
    BY <1>0, <2>1, StartedPlan
  <2>3. plan[i] \in PlanStep
    BY LenProperties, ElementOfSeq, <1>0 DEF TypeOK
  <2>4. plan'[i].status # "completed" /\ plan[i].status # "completed"
    BY <2>1, <2>2, <2>3 DEF PlanStep, IsCurrentStep, Retriable
  <2>5. CompletedSteps' = CompletedSteps
    BY <2>2, <2>4 DEF CompletedSteps
  <2>6. /\ pc = "head" /\ pc' \in {"exec", "raised"} /\ UNCHANGED runVars
    BY <1>6 DEF StartStep, StartStepRaises, EnterLoop
  <2>7. Phase = "running" /\ Phase' \in {"running", "raised"}
    BY <2>6 DEF Phase
  <2>8. CASE Phase' = "running"
    BY <2>2, <2>5, <2>6, <2>7, <2>8, ContractStutter
  <2>9. CASE Phase' = "raised"
    BY <2>2, <2>5, <2>6, <2>7, <2>9 DEF Contract!Next, Contract!Raise, runVars
  <2> QED
    BY <2>7, <2>8, <2>9
<1>7. CASE ToolCall
  <2>1. PICK r \in ToolResult :
           /\ Len(plan') = Len(plan) /\ DOMAIN plan' = DOMAIN plan
           /\ plan'[current_step] = [plan[current_step] EXCEPT
                 !.tool_results = plan[current_step].tool_results \cup {r}]
           /\ \A j \in DOMAIN plan : j # current_step => plan'[j] = plan[j]
    BY <1>0, <1>7, ToolCallPlan
  <2>2. plan[current_step] \in PlanStep
    BY <1>0, <1>7, CurrentStepInPlan DEF ToolCall, InStep
  <2>3. plan'[current_step].status = plan[current_step].status
    BY <2>1, <2>2 DEF PlanStep
  <2>4. CompletedSteps' = CompletedSteps
    BY <2>1, <2>3 DEF CompletedSteps
  <2>5. Phase = "running" /\ Phase' = "running" /\ UNCHANGED runVars
    BY <1>7 DEF ToolCall, Phase
  <2> QED
    BY <2>1, <2>4, <2>5, ContractStutter
<1>8. CASE MarkStep \/ StepRaises
  <2>1. /\ Len(plan') = Len(plan) /\ DOMAIN plan' = DOMAIN plan
        /\ \A j \in DOMAIN plan : j # current_step => plan'[j] = plan[j]
    BY <1>0, <1>8, MarkedPlan
  <2>2. pc \in {"exec", "judge"} /\ pc' = "after" /\ UNCHANGED runVars
    BY <1>8 DEF MarkStep, StepRaises, RoundsOver
  <2>3. current_step \in 1..Len(plan) /\ plan[current_step].status = "running"
    BY <1>0, <2>2, CurrentStepInPlan DEF InStep, Position
  <2>4. Phase = "running" /\ Phase' = "running"
    BY <2>2 DEF Phase
  <2>5. CASE plan'[current_step].status = "completed"
    <3>1. CompletedSteps' = CompletedSteps \cup {current_step}
      BY <1>0, <2>1, <2>3, <2>5 DEF CompletedSteps
    <3> QED
      BY <2>1, <2>2, <2>3, <2>4, <3>1 DEF Contract!Next, Contract!Advance, runVars
  <2>6. CASE plan'[current_step].status # "completed"
    <3>1. CompletedSteps' = CompletedSteps
      BY <1>0, <2>1, <2>3, <2>6 DEF CompletedSteps
    <3> QED
      BY <2>1, <2>2, <2>4, <3>1, ContractStutter
  <2> QED
    BY <2>5, <2>6
<1>9. CASE AdjustPlan
  <2>1. PICK n \in RecoverySizes : plan' = plan \o NewSteps(n)
    BY <1>9 DEF AdjustPlan
  <2>2. /\ Len(plan') = Len(plan) + n /\ n \in Nat \ {0}
        /\ DOMAIN plan \subseteq DOMAIN plan'
        /\ \A i \in DOMAIN plan' : plan'[i] = IF i \in DOMAIN plan THEN plan[i] ELSE NewStep
    BY <1>0, <2>1, ExtendedPlan DEF TypeOK
  <2>3. CompletedSteps' = CompletedSteps
    BY <2>2 DEF CompletedSteps, NewStep
  <2>4. Phase = "running" /\ Phase' = "running" /\ UNCHANGED runVars
    BY <1>9 DEF AdjustPlan, AfterStep, Phase
  <2>5. Len(plan') > Len(plan)
    BY <1>0, <2>2
  <2> QED
    BY <2>3, <2>4, <2>5 DEF Contract!Next, Contract!Advance, runVars
<1>10. CASE NextIteration
  <2>1. UNCHANGED <<plan, runVars>> /\ Phase = "running" /\ Phase' = "running"
    BY <1>10 DEF NextIteration, AfterStep, Phase
  <2>2. CompletedSteps' = CompletedSteps
    BY <2>1 DEF CompletedSteps
  <2> QED
    BY <2>1, <2>2, ContractStutter
<1>11. CASE Finish
  <2>1. UNCHANGED <<plan, runVars>> /\ Phase = "ended" /\ Phase' = "returned"
    BY <1>11 DEF Finish, Phase
  <2>2. CompletedSteps' = CompletedSteps
    BY <2>1 DEF CompletedSteps
  <2> QED
    BY <2>1, <2>2 DEF Contract!Next, Contract!Return, runVars
<1>12. CASE UNCHANGED vars
  <2>1. UNCHANGED <<plan, pc, runVars>>
    BY <1>12 DEF vars
  <2>2. CompletedSteps' = CompletedSteps /\ Phase' = Phase
    BY <2>1 DEF CompletedSteps, Phase
  <2> QED
    BY <2>1, <2>2, ContractStutter
<1> QED
  BY <1>1, <1>2, <1>3, <1>4, <1>5, <1>6, <1>7, <1>8, <1>9, <1>10, <1>11, <1>12 DEF Next

-----------------------------------------------------------------------------
(* The theorems *)

\* A run starts in the inductive invariant.
LEMMA InitIInv == Init => IInv
<1> SUFFICES ASSUME Init
             PROVE  IInv
  OBVIOUS
<1> USE BudgetAssumption
<1>1. TypeOK
  BY InitTypeOK
<1>2. DOMAIN plan = {} /\ plan = <<>>
  BY DEF Init
<1>3. InPlanOrder /\ Position
  BY <1>2 DEF Init, InPlanOrder, Position, InStep
<1>4. ToolBudget /\ Unjudged
  BY DEF Init, ToolBudget, Unjudged
<1>5. VerdictIsEarned
  BY DEF Init, VerdictIsEarned
<1>6. ReplanBacking
  <2>1. TestingEntries = {}
    BY DEF Init, TestingEntries
  <2> QED
    BY <2>1, FS_EmptySet DEF Init, ReplanBacking, ReplansNeedTests, FreshTestResult, InStep
<1>7. RetryAccount
  BY <1>2 DEF Init, RetryAccount
<1> QED
  BY <1>1, <1>3, <1>4, <1>5, <1>6, <1>7 DEF IInv

\* Every step of a run keeps the inductive invariant.
LEMMA NextIInv == IInv /\ [Next]_vars => IInv'
<1> SUFFICES ASSUME IInv, [Next]_vars
             PROVE  IInv'
  OBVIOUS
<1> QED
  BY NextTypeOK, NextPosition, NextToolBudget, NextVerdict, NextReplanBacking,
     NextRetryAccount DEF IInv

\* The inductive invariant of the run loop holds in every reachable state.
THEOREM RunInvariant == Spec => []IInv
BY InitIInv, NextIInv, PTL DEF Spec

\* Every variable of the run keeps its type; the loop, the retries of a replan and
\* the rounds of a step never exceed their budgets.
THEOREM TypeCorrect == Spec => []TypeOK
BY RunInvariant, PTL DEF IInv

\* get_current_step: steps are executed in plan order, whatever replans append.
THEOREM PlanOrder == Spec => []InPlanOrder
BY RunInvariant, PTL DEF IInv

\* max_tool_calls: the overrun stays below the rounds of a single step.
THEOREM ToolOverrun == Spec => []ToolCallsBounded
<1>1. IInv => ToolCallsBounded
  BY DEF IInv, ToolBudget, ToolCallsBounded
<1> QED
  BY <1>1, RunInvariant, PTL

\* The replan gate: the assertion of the regression test holds for every run.
THEOREM ReplansBacked == Spec => []ReplansNeedTests
<1>1. IInv => ReplansNeedTests
  BY DEF IInv, ReplanBacking
<1> QED
  BY <1>1, RunInvariant, PTL

\* mark_failed and max_step_retries: every failed attempt is charged to its step once,
\* and no step is tried more than once beyond its retries.
THEOREM RetriesCounted == Spec => []RetriesAreCounted
<1>1. IInv => RetriesAreCounted
  <2> SUFFICES ASSUME IInv, NEW i \in DOMAIN plan
               PROVE  /\ plan[i].retry_count <= MaxStepRetries + 1
                      /\ pc # "after" => plan[i].retry_count = Cardinality(FailuresTraced(i))
    BY DEF RetriesAreCounted
  <2>1. TypeOK /\ RetryAccount
    BY DEF IInv
  <2>2. Cardinality(FailuresTraced(i)) \in Nat
    BY <2>1, FailuresCounted
  <2> QED
    BY <2>1, <2>2 DEF RetryAccount, Unrecorded
<1> QED
  BY <1>1, RunInvariant, PTL

\* The verdict of a run is the truth about its plan, its budgets and its tests.
THEOREM VerdictEarned == Spec => []VerdictIsEarned
BY RunInvariant, PTL DEF IInv

\* The step found by scanning the plan backwards is the step that was executed.
THEOREM TraceFaithful == Spec => TraceNamesExecutedStep
<1>1. IInv /\ [Next]_vars
        => [trace' # trace => trace'[Len(trace')].step = current_step]_vars
  <2> SUFFICES ASSUME IInv, Next, trace' # trace
               PROVE  trace'[Len(trace')].step = current_step
    OBVIOUS
  <2>1. AfterStep
    BY DEF Next, CreateInitialPlan, InitialPlanRaises, PlanFinished, DeadlineExceeded,
       ToolCallLimitExceeded, LoopCap, StartStep, StartStepRaises, ToolCall, MarkStep,
       StepRaises, NextIteration, ReplanLimitExceeded, AdjustPlan, AdjustPlanRaises,
       Finish, FinishRaises
  <2>2. trace' = Append(trace, [step |-> current_step,
                                status |-> plan[current_step].status,
                                tool_results |-> plan[current_step].tool_results])
    BY <2>1, RecordedStep DEF IInv
  <2>3. trace \in Seq(TraceEntry)
    BY DEF IInv, TypeOK
  <2> QED
    BY <2>2, <2>3
<1> QED
  BY <1>1, RunInvariant, PTL DEF Spec, TraceNamesExecutedStep

\* The safety part of ImplementsContract: every run is one the contract allows;
\* completed steps stay completed and the verdict is given once.
THEOREM ContractKept == Spec => Contract!Init /\ [][Contract!Next]_(Contract!vars)
<1>1. Init => PlanMade
  BY DEF Init, PlanMade
<1>2. Spec => []PlanMade
  BY <1>1, NextPlanMade, RunInvariant, PTL DEF Spec
<1> QED
  BY <1>2, InitContract, NextContract, RunInvariant, PTL DEF Spec

=============================================================================
