------------------------------ MODULE Workspace ------------------------------
(***************************************************************************)
(* One step of several runs on one workspace: the executor                 *)
(* (core/executor.py) asks the model for tool calls, or tries the          *)
(* suggested tools when there is no model, and hands every result to the   *)
(* memory.  The runs share the files, the index and its cached engine, and *)
(* the log of the memory, and nothing serialises them: a session may start *)
(* a run while another one is going on.  The process may die and start     *)
(* anew.                                                                   *)
(*                                                                         *)
(* Reading, searching, listing, commands and tests have no effect here:    *)
(* their output is the model's business, and what a command does to files  *)
(* is its own.                                                             *)
(***************************************************************************)
EXTENDS ToolCalls, FileTools, AgentMemory, RagEngine

CONSTANTS
  Settings,     \* which runs have a client for a model, what each may ask for in how many rounds
                \* (max_tool_rounds), and which have a summary for a task; and the source file
  MaxSteps,     \* steps started, by all the runs
  MaxCrashes,
  MaxTorn       \* failing writes that leave a part of a line

ASSUME WorkspaceAssumption ==
  /\ IsFiniteSet(Runs) /\ Fetchers = Runs
  /\ Settings \subseteq [clients : SUBSET Runs, asks : [Runs -> SUBSET (Tools \cup {"unknown"})],
                         rounds : [Runs -> 1..4], summaries : SUBSET Runs, odd : SUBSET {Odd}]
  /\ {MaxSteps, MaxCrashes, MaxTorn} \subseteq Nat

VARIABLES
  setting,
  pc,          \* run -> where its step is
  step,        \* run -> the step: its kind, and what happened in it
  started,
  crashes

stepVars == <<setting, pc, step, started, crashes>>
vars     == <<stepVars, fileVars, memoryVars, ragVars>>

Control ==
  {"off", "ask", "try", "edit", "fetch", "returned", "judge", "completed", "failed"}

\* left: suggested tools not tried.  results: did the tools succeed.  grounded: one of Grounding
\* was used.
NewStep(left) ==
  [left |-> left, rounds |-> 0, results |-> {},
   grounded |-> FALSE, tool |-> "none", ok |-> FALSE]

NoStep == NewStep(<<>>)

Init ==
  /\ setting \in Settings
  /\ FilesInit(setting.odd) /\ MemoryInit /\ RagInit
  /\ pc = [r \in Runs |-> "off"]
  /\ step = [r \in Runs |-> NoStep]
  /\ started = 0
  /\ crashes = 0

Goto(r, next) == pc' = [pc EXCEPT ![r] = next]

\* The step ends with this status.
End(r, status) == Goto(r, status) /\ step' = [step EXCEPT ![r] = NoStep]

-----------------------------------------------------------------------------
(* _execute_tool *)

\* Marks tell the edits apart.
MarkOf(r) == <<r, started, step[r].rounds>>

\* rest: the suggested tools that are left.
Dispatch(r, call, rest) ==
  LET begun == [step[r] EXCEPT !.rounds = IF r \in setting.clients THEN @ + 1 ELSE @,
                               !.left = rest, !.tool = call.tool]
      Returns(ok) == Goto(r, "returned") /\ step' = [step EXCEPT ![r] = [begun EXCEPT !.ok = ok]]
      Enters(stage) == Goto(r, stage) /\ step' = [step EXCEPT ![r] = begun]
      arg == Normalized(call)
  IN  \/ /\ NormalizeRaises(call)
         /\ End(r, "failed")
         /\ UNCHANGED <<fileVars, ragVars>>
      \/ /\ ~NormalizeRaises(call)
         /\ Rejected(call)
         /\ Returns(FALSE)
         /\ UNCHANGED <<fileVars, ragVars>>
      \/ /\ ~NormalizeRaises(call) /\ ~Rejected(call)
         /\ call.tool \in Editing
         /\ Enters("edit")
         /\ StartEdit(r, call.tool, arg, MarkOf(r))
         /\ UNCHANGED ragVars
      \/ /\ ~NormalizeRaises(call) /\ ~Rejected(call)
         /\ call.tool = "retrieve_context"
         /\ Enters("fetch")
         /\ StartFetch(r, arg = "rebuild")
         /\ UNCHANGED fileVars
      \/ /\ ~NormalizeRaises(call) /\ ~Rejected(call)
         /\ call.tool \notin Editing \cup {"retrieve_context"}
         /\ \E ok \in Outcomes(call) : Returns(ok)
         /\ UNCHANGED <<fileVars, ragVars>>

\* What is suggested when the plan suggests nothing.
DefaultTools ==
  {<<t>> : t \in {"list_files", "search_code", "read_file", "run_tests", "retrieve_context"}}

Suggestions == SuggestedTools \cup DefaultTools

\* execute_current_step: the first step of a run, the next one, or the same one again.
Start(r) ==
  /\ pc[r] \in {"off", "completed", "failed"}
  /\ started < MaxSteps
  /\ started' = started + 1

StartWithModel(r) ==
  /\ r \in setting.clients
  /\ Start(r)
  /\ step' = [step EXCEPT ![r] = NoStep]
  /\ Goto(r, "ask")
  /\ UNCHANGED <<setting, crashes, fileVars, memoryVars, ragVars>>

StartFallback(r) ==
  /\ r \notin setting.clients
  /\ Start(r)
  /\ \E tools \in Suggestions : step' = [step EXCEPT ![r] = NewStep(tools)]
  /\ Goto(r, "try")
  /\ UNCHANGED <<setting, crashes, fileVars, memoryVars, ragVars>>

\* _llm_execute_step: an answer that is not heard as a tool call is the final one.
Ask(r) ==
  /\ pc[r] = "ask"
  /\ \E response \in Responses :
       \/ /\ ~Heard(response)
          /\ Goto(r, "judge")
          /\ UNCHANGED <<step, fileVars, ragVars>>
       \/ /\ Heard(response)
          /\ \E call \in Calls : call.tool \in setting.asks[r] /\ Dispatch(r, call, <<>>)
  /\ UNCHANGED <<setting, started, crashes, memoryVars>>

\* The client raises.
AskRaises(r) ==
  /\ pc[r] = "ask"
  /\ End(r, "failed")
  /\ UNCHANGED <<setting, started, crashes, fileVars, memoryVars, ragVars>>

\* _fallback_execute_step
Try(r) ==
  /\ pc[r] = "try"
  /\ \E errors \in BOOLEAN : \E call \in FallbackCalls(Head(step[r].left), errors) :
       Dispatch(r, call, Tail(step[r].left))
  /\ UNCHANGED <<setting, started, crashes, memoryVars>>

-----------------------------------------------------------------------------
(* The result *)

Finished(r) ==
  \/ pc[r] = "returned"
  \/ pc[r] = "edit" /\ edit[r].stage \in {"ok", "failed"}
  \/ pc[r] = "fetch" /\ fetch[r].stage \in {"ok", "failed"}

Succeeded(r) ==
  CASE pc[r] = "edit" -> edit[r].stage = "ok"
    [] pc[r] = "fetch" -> fetch[r].stage = "ok"
    [] OTHER -> step[r].ok

Forget(r) ==
  /\ edit' = [edit EXCEPT ![r] = NoEdit]
  /\ fetch' = [fetch EXCEPT ![r] = NoFetch]
  /\ UNCHANGED <<files, late, expected, unreported, disturbed>>
  /\ UNCHANGED <<disk, engines, cached, builds, mixed, crossed>>

\* Mutation: one round more than there are.
OverTooLate(r, ok, grounded) ==
  \/ r \in setting.clients /\ IsEnough(r \in setting.summaries, step[r].tool, ok, grounded)
  \/ r \in setting.clients /\ step[r].rounds > setting.rounds[r]
  \/ r \notin setting.clients /\ (ok \/ step[r].left = <<>>)

\* No further tool in this step.
Over(r, ok, grounded) ==
  \/ r \in setting.clients /\ IsEnough(r \in setting.summaries, step[r].tool, ok, grounded)
  \/ r \in setting.clients /\ step[r].rounds = setting.rounds[r]
  \/ r \notin setting.clients /\ (ok \/ step[r].left = <<>>)

\* The result goes to the step and the memory, and ends the rounds or not.
TakeResult(r) ==
  LET s == step[r]
      ok == Succeeded(r)
      grounded == s.grounded \/ s.tool \in Grounding
  IN  /\ Finished(r)
      /\ \E insight \in HasInsight(s.tool, ok) :
           IF insight THEN Remember ELSE UNCHANGED memoryVars
      /\ step' = [step EXCEPT ![r].results = @ \cup {ok}, ![r].grounded = grounded,
                              ![r].tool = "none", ![r].ok = FALSE]
      /\ Goto(r, IF Over(r, ok, grounded) THEN "judge"
                   ELSE IF r \in setting.clients THEN "ask" ELSE "try")
      /\ Forget(r)
      /\ UNCHANGED <<setting, started, crashes>>

\* The memory's write raises, and the step with it, whatever the tool has done.
TakeResultRaises(r) ==
  /\ Finished(r)
  /\ TRUE \in HasInsight(step[r].tool, Succeeded(r))
  /\ (torn < MaxTorn /\ TearInsight) \/ UNCHANGED memoryVars
  /\ End(r, "failed")
  /\ Forget(r)
  /\ UNCHANGED <<setting, started, crashes>>

\* The step failed when it used tools and none succeeded.
Judge(r) ==
  /\ pc[r] = "judge"
  /\ End(r, IF step[r].results = {FALSE} THEN "failed" ELSE "completed")
  /\ UNCHANGED <<setting, started, crashes, fileVars, memoryVars, ragVars>>

-----------------------------------------------------------------------------
Edits(r) ==
  /\ EditStep(r)
  /\ UNCHANGED <<stepVars, memoryVars, ragVars>>

Fetches(r) ==
  /\ FetchStep(r)
  /\ UNCHANGED <<stepVars, memoryVars, fileVars>>

LatePatch ==
  /\ \E mark \in late : LandLate(mark)
  /\ UNCHANGED <<stepVars, memoryVars, ragVars>>

OtherWorkspaces ==
  /\ EvictEngine
  /\ UNCHANGED <<stepVars, memoryVars, fileVars>>

\* The process dies and is started again; when it is the machine, an insight being written may
\* be torn.
Crash ==
  /\ crashes < MaxCrashes
  /\ crashes' = crashes + 1
  /\ pc' = [r \in Runs |-> "off"]
  /\ step' = [r \in Runs |-> NoStep]
  /\ \/ UNCHANGED memoryVars
     \/ (\E r \in Runs : Finished(r)) /\ torn < MaxTorn /\ TearInsight
  /\ AbandonEdits
  /\ LoseEngines
  /\ UNCHANGED <<setting, started>>

RunStep(r) ==
  \/ StartWithModel(r) \/ StartFallback(r)
  \/ Ask(r) \/ AskRaises(r) \/ Try(r)
  \/ Edits(r) \/ Fetches(r)
  \/ TakeResult(r) \/ TakeResultRaises(r) \/ Judge(r)

Next == (\E r \in Runs : RunStep(r)) \/ LatePatch \/ OtherWorkspaces \/ Crash

Spec == Init /\ [][Next]_vars

-----------------------------------------------------------------------------
Marks == {Base, Odd} \cup (Runs \X (1..MaxSteps) \X Nat)

TypeOK ==
  /\ \A p \in Paths : /\ files[p].exists \in BOOLEAN
                      /\ files[p].text \subseteq Marks
                      /\ expected[p] \subseteq Marks
  /\ \A r \in Runs :
       /\ edit[r].stage \in EditStages /\ edit[r].tool \in Editing \cup {"none"}
       /\ pc[r] = "edit" <=> edit[r].stage # "idle"
       /\ fetch[r].stage \in FetchStages
       /\ pc[r] = "fetch" <=> fetch[r].stage # "idle"
       /\ fetch[r].eng \in {0} \cup EngineIds
       /\ pc[r] \in Control
       /\ pc[r] = "try" => step[r].left # <<>>
       /\ pc[r] = "ask" => step[r].rounds < setting.rounds[r]
       /\ step[r].results \subseteq BOOLEAN
  /\ cached \in {0} \cup EngineIds
  /\ open \in BOOLEAN /\ lost \in Nat /\ torn \in Nat
  /\ disk.index \in 0..builds /\ disk.chunks \in 0..builds /\ disk.torn \subseteq {"index", "chunks"}
  /\ unreported \subseteq Marks /\ late \subseteq unreported
  /\ disturbed \in BOOLEAN /\ mixed \in BOOLEAN /\ crossed \subseteq Runs
  /\ started \in 0..MaxSteps /\ crashes \in 0..MaxCrashes

\* As long as no two edits of a file overlapped and none stopped halfway, a file outside a
\* write, read as text, holds what the edits reported as done make of it, and nothing more than
\* the patches that git applied without a report: nothing is lost, and no failed or empty edit
\* is reported as done (tools.py, write_file, replace_in_file, apply_patch).  Steps without a
\* model write no code (test_all.py:1170).
EditsExplained ==
  /\ disturbed \/ (\E r \in Runs : edit[r].stage = "truncated")
       \/ \A p \in Paths :
            /\ AsRead(expected[p]) \subseteq files[p].text
            /\ files[p].text \subseteq expected[p] \cup unreported \cup PatchesAt({"applied"})
  /\ setting.clients = {} => AsRead(files["main.py"].text) = {Base} /\ files["output.txt"].text = {}

\* A line torn by a crash or a full disk costs at most the one insight that is appended next
\* (memory.py, _persist_insight and _load_from_disk).
MemoryLossBounded == lost <= torn

\* Vectors and chunks belong together by position, on disk and in what a search looks up,
\* unless two threads were at the files at once or a save stopped midway, or another thread
\* adopted its index into the same engine while this one searched.  And whatever other runs do
\* to the cache, a forced rebuild never searches, or looks up, an index from before it was asked
\* for (tools.py, _get_rag_engine; retrieve.py, rebuild and similarity_search; indexer.py, save
\* and load).
IndexPairing ==
  /\ \/ mixed
     \/ \E r \in Runs : fetch[r].stage \in Saving
     \/ disk.index = disk.chunks /\ disk.torn = {}
  /\ \A r \in Runs : fetch[r].stage = "resolve" =>
       /\ mixed \/ r \in crossed \/ fetch[r].taken = Mine(r).chunks
       /\ fetch[r].force => fetch[r].taken > fetch[r].since /\ Mine(r).chunks > fetch[r].since
=============================================================================
