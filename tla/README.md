# A verification project for Code Error Agent

Code Error Agent (`src/README.md`) is a coding agent: given a task and a
repository it makes a plan, executes the plan's steps with tools, runs the tests
and plans again when they fail.  It runs from the command line (`src/main.py`)
or behind a FastAPI server with a web page (`src/api/`).  This directory holds
TLA+ models of the parts whose control is hard to test, the TLC runs that check
them and the theorems TLAPS proves about them.

Check a model with `tlc -config <cfg> <module>` (the pairs are in the table of
runs), the proofs with `tlapm <module>` for each of `AgentRunProofs`, `SandboxProofs`,
`RunLifecycleProofs`, `SessionProofs`, `RunRelayProofs`, `McpProofs`, `WorkspaceProofs` and
`SequenceFacts`, which holds the lemmas on sequences that three of them share.

## 1. Inventory

### Components, their state and their operations

| part of the system | state it keeps | operations | modelled |
|---|---|---|---|
| Agent loop: `main.py` `run_agent`, `core/state.py`, `core/executor.py`, `core/planner.py` | `AgentState`: the plan with a status, a retry count and tool results per step; budgets and counters; the verdict; the trajectory | plan, execute a step, call a tool, judge the step, replan, give up | `AgentRun`; one step in detail in `ToolCalls`, `Workspace` |
| Sandbox: `sandbox/docker_sandbox.py`, `tools.py` `_exec_command` | `_sandboxes` and its lock; `_started` and `_lock` of each `DockerSandbox`; the container in docker | get or build the shared sandbox, exec with fallback to the host, close | `SandboxRegistry` |
| API server, one-shot runs: `api/server.py` | `_runs[run_id]` (queue, done, result), a worker thread, the temporary workspace | start, stream, get, delete, finalize, delayed cleanup | `RunLifecycle` |
| Persistence: `db/store.py`, `schema.sql`, `cleanup.sql` | tables `runs`, `sessions`, `messages` | best-effort inserts, updates, deletes | rows of `runs`, in `RunLifecycle` |
| API server, sessions | `_sessions[session_id]`, Redis TTL, a watchdog thread | create, message, expire, close | `SessionLifecycle` |
| Light chat | a session's history, a private queue | bounded tool rounds, then a streamed answer | as a request of `SessionLifecycle` |
| Queue dispatch: `db/cache.py`, `db/queue.py`, `server.py` `_dispatch_agent_run` | Redis channel, RQ job, relay thread | subscribe, enqueue, publish, relay, finalize | `RunRelay`, `EventFeed` |
| MCP client: `agent_mcp/client.py`, `main.py` `_load_mcp_tools` | `_shared_clients` and its lock; flags, background thread and subprocess of each client | look up, connect, publish, list tools, close | `McpRegistry` |
| Agent memory: `core/memory.py` | short- and long-term lists, an append-only file | remember, recall, reload | the file, in `AgentMemory` |
| Retrieval: `rag/`, `tools.py` `_get_rag_engine`, `retrieve_context` | two index files, a cache of engines | chunk, index, save, load, rebuild, query | `RagEngine` |
| File tools: `tools/tools.py`, `tools/specs.py` | the workspace | read, write, replace, patch, run | `FileTools`, `ToolCalls` |
| Web UI: `api/static/index.html` | selected session, bubbles, step list | open stream, merge events | no |
| LLM client: `llm.py` | none | one request, one answer | the shapes of its answers, in `ToolCalls` |
| Embedder, logging, skills, MCP server, evaluation harness | none of interest | I/O, numerics, texts | no |

### How they interact

`run_agent` is one sequential function.  It calls the planner and the executor
directly; the executor calls tools, which may reach a docker sandbox
(`_exec_command`), an MCP client or the retrieval engine, each through a
process-wide registry shared by every run of the process.  The API server starts
a thread per run, or an RQ job in another process, and hears from it through
`step_callback`, which puts events into the run's queue; streams poll that
queue from the event loop.  `_runs` and `_sessions` are plain dictionaries
touched by handlers, by worker threads and by watchdogs without a lock.
Closing a session or the end of a one-shot run closes the sandbox and the MCP
client of its workspace and removes the directory.

### What is hard

* interleaving: `_runs` and `_sessions` without locks; two callers that build
  the shared object of one registry at once; two streams of one queue;
* ordering: the `done` flag, the result and the sentinel; the INSERT of a run's
  row by its thread and the DELETE by a request; pub/sub without a backlog;
* failure: docker calls that time out, processes that crash and leave a
  container behind, best-effort database writes, an exception at each call of
  the language model;
* timeouts and retries: step retries against replans, fallback of a command to
  the host, the session watchdog against a message;
* sharing: the runs of a session edit the same files, append to the same log and
  use the same index, and nothing serialises them;
* bounds: tool calls, rounds, retries, replans, iterations, read at different
  places and multiplied with one another.

`PROJECT.json` lists each hazard at its line, with the properties that cover it.
Where a property has to except a hazard because the code does nothing about it,
a note says so.

### What makes each part correct

* Agent loop: it ends; the verdict is the one the steps earned; budgets bound
  what they are meant to bound; replans are backed by fresh tests; the plan is
  executed in order; the trajectory is true.
* Sandbox: a command runs once, or it is known why twice, never in a stale container; containers
  go away with the session; locks are released.
* Runs: every event reaches a stream once and in order; `done` implies a result;
  streams end; workspaces are reclaimed; a deleted record stays deleted.
* Sessions: a message never runs in a removed workspace; an active session is
  not expired; what a session opened is closed with it.
* Queue dispatch: the reader of a run that is done has its events, in order; the relay
  ends, and it is known when not; nobody works in a workspace that was removed.
* MCP client: one connected client per key; no subprocess survives its client.
* Files: a file is what the edits reported as done make of it.
* Memory: a line that was written is read again.
* Retrieval: chunks and vectors agree, on disk and in the engine that is searched; a
  forced rebuild is a rebuild.

## 2. Plan

1. `AgentRun`, refining `RunContract`; proofs in `AgentRunProofs`.  *Done.*
2. `SandboxRegistry`; proofs in `SandboxProofs`.  *Done.*
3. `RunLifecycle`: one-shot runs; proofs in `RunLifecycleProofs`.  *Done.*
4. `SessionLifecycle`: sessions, messages, light chats, the watchdog and close; proofs in
   `SessionProofs`.  *Done.*
5. `RunRelay`, refining `EventFeed`: the queue dispatch; proofs in `RunRelayProofs`, the
   refinement included.  *Done.*
6. `McpRegistry`: the shared clients of one server; proofs in `McpProofs`.  *Done.*
7. `Workspace`, which composes `ToolCalls`, `FileTools`, `AgentMemory` and `RagEngine`: one
   step of several runs on shared files, log and index; proofs in `WorkspaceProofs`.  *Done.*

Every invariant and every action property of a passing run is now a theorem, with one hypothesis in one
of them (`NothingLeaks`, section 5).  Left for the proofs: under which restriction
of the environment each refuted or excepted claim does hold, as `SessionCleanedUp` says for one of them.  There is one passing run per module or composition, and a violation run where the code
contradicts what it says of itself.

## 3. The modules

### AgentRun

`pc` names the place in `run_agent`: `plan` before `create_initial_plan`, `head` at
the `while`, `exec` inside `execute_current_step`, `judge` when its tool rounds
are over, `after` when the step is marked, `exit` when the loop was left, `done`
or `raised` at the end.  One action stands for the code between two such
places, so a handler such as `adjust_plan` is one action with everything it
changes: the count, the new ids, the extended plan.

| code | action |
|---|---|
| `create_initial_plan` | `CreateInitialPlan`, `InitialPlanRaises` |
| top of the loop, lines 175-199 of `main.py` | `PlanFinished`, `DeadlineExceeded`, `ToolCallLimitExceeded`, `LoopCap` |
| `execute_current_step` up to the `try` | `StartStep`, `StartStepRaises` |
| one round of `_llm_execute_step` or one tool of `_fallback_execute_step`, with `_execute_tool` and `add_tool_result` | `ToolCall` |
| the judgement and the `except` of `execute_current_step` | `MarkStep`, `StepRaises` |
| trajectory entry and replan gate | `NextIteration`, `ReplanLimitExceeded`, `AdjustPlan`, `AdjustPlanRaises` |
| after the loop | `Finish`, `FinishRaises` |

Abstracted: a tool result is the pair of facts the loop reads (is it a test, did
it succeed); a step's list of results is the set of those that occur in it,
which is all `any(r.success ...)` depends on; step ids are positions in the
plan, since only their order is used.  The clock is a choice: any pass through the top of
the loop may find the deadline exceeded.  `plan` never holds a step with status
`skipped` and `run_status` is never `running` or `skipped`: nothing in the code
assigns these.

`RunContract` is what a caller of `run_agent` relies on, in five variables: a
plan that grows, steps that stay completed, one verdict given once.
`AgentRun` implements it (`ImplementsContract`): `phase` is computed from `pc`,
`completed` is the set of completed steps.

### SandboxRegistry

One `repo_root`; repositories do not share a container name.  A caller is a
thread inside `_exec_command`, a closer a thread inside `close_shared_sandbox`.
A step of the model is one docker command or one access to the registry, which
is where threads can overtake one another.  `DockerSandbox` objects have
identities (`Sandboxes`), because two of them for one repository are exactly what goes
wrong; an unreachable one is reused.  `container` is what docker has under the name:
nothing, a container of this process or one left by an earlier process.
`Crash` may happen at any moment: docker keeps the container, the
process forgets everything.  A docker command that times out may or may not have
had its effect, and `docker rm -f`, whose exit code nobody reads, may have had none
(`GotoAfterAttempt`, `LeaveContainer`) while the object forgets the container all the same.
A command ends with a code (`Return`) or with output that is not valid text, which
raises after it was executed and sends it to the host (`ReturnUndecodable`).  `ran`, `undecoded`
and `unowned` are history variables: how often each command began, whose output could not be decoded,
and why the latest container may have nobody to stop it.

### RunLifecycle

One run id.  The worker thread's steps are its accesses to shared state (`row`, the
queue, `result`, `done`), in the order of `_execute_agent_run` and
`_finalize`; a stream's steps are the reads of `event_generator`; `DELETE` is two
steps, since the row is deleted in another thread after the entry has gone.
Events are numbers in the order of their emission, and `Sentinel` is the `None`
put last.  `run_agent` itself is abstracted to its events and to returning or
raising; module `AgentRun` is its model.  A database write may be lost, and
`rmtree(ignore_errors=True)` may leave the workspace where it is (`kept`).  The
queue dispatch is not taken (`AGENT_QUEUE_ENABLED` off).

### SessionLifecycle

One session id.  `request` is the place of a message or a light chat: `told` and `said`
before and after `touch_session_ttl` in the handler of a message, `asked` in the handler of
a chat, `running` and `chatting` in the worker thread, `finalize` in `_finalize`.  `teardown` is the
place of the two that end a session; both take `Teardown`'s steps in the same order, but `close_session` pops
the entry first (`Close`) and the watchdog last (`Pop`).  The watchdog is a thread and may stop between any two of its accesses;
handlers share one event loop (`EventLoopFree`), which matters only where a
handler is overtaken by a thread.

Time is what the two clocks say: `last_active` is `old` after half an hour, and `key` is `stale`
when it was set before the last activity, so that it may expire while the
session is in use.  Each access to Redis may fail (`Refresh`, `IsActive`, `ClearKey`).  `tmp_dir` is `revived` when a directory
that was removed has been made again, and `kept` when `rmtree(ignore_errors=True)` failed to remove it.  `clients` is what the registries of the
sandbox and of `agent_mcp/client.py` hold for the workspace; their own races are in
`SandboxRegistry`.  The history is a bag: no property depends on its order.
`unrefreshed`, `answered` and `late` are history variables; `late` is what a request
opened or made when neither end of the session was left to clean it up (`Attended`).  A run
connects to servers (`ConnectServer`), runs commands in the sandbox (`StartSandbox`) and makes directories
(`UseWorkspace`) at any time.  Runs are taken on a
thread, not on the queue.

### RunRelay

One run with its relay thread in the API process, its job in a worker, and Redis between
them.  `relay` is the place in `_run_via_queue` and `_finalize`, `job` the place in
`_execute_agent_run`.  The channel delivers in order to whoever is subscribed and keeps nothing
otherwise; `subscription` is `sent` when SUBSCRIBE was not confirmed within the five seconds of
`open_subscription`, and `Confirm` may come later or never.  `Publish` may fail unseen.
`Kill` ends the worker without its `finally`, `Restart` the API process with everything in it.

| code | action |
|---|---|
| `open_subscription` | `Subscribe`, `SubscribeRaises` |
| `enqueue_run` and its `except` | `Enqueue`, `EnqueueFails` |
| `iter_subscription` and the body of its loop | `RelayEvent`, `RelayResult`, `ListenRaises` |
| `_finalize`, `_cleanup` | `Finalize`, `Cleanup` |
| `_execute_agent_run` in the worker | `PickJob` to `PublishResult` |

`EventFeed` is what a reader of the run's queue may rely on: events in the order of their
emission, none twice, nothing after `done`.  `RunRelay` implements it with `fed` for the queue
without the relay's own error event, which can only be its last entry (`Fed`).  A job that is executed twice (RQ's retries are not
configured) is left out.

### McpRegistry

One key of `_shared_clients`.  `Callers` are threads in `_load_mcp_tools`, `Closers` threads that
close the client with a session or at exit.  Each client has the flags of `MCPToolClient` as
membership in a set (`thread`, `ready`, `failed`, `closed`, `stopping`) and a background session
(`server`), whose own steps are `Open`, `OpenFails`, `Shutdown` and the subprocess's `Die`.
`lock` is held across a step only where the code closes the losing candidate under it.

### Workspace and its parts

`Workspace` takes the executor's view: a run is at `ask` (for the model) or `try` (a suggested
tool), inside a tool (`edit`, `fetch`, or `returned` for one without effects), or at `judge`.  `Dispatch` is
`_execute_tool` with its checks; `TakeResult` hands the result to the step and to the memory, and
`Over` says whether the rounds end.  The plan around the steps is `AgentRun`'s: here a
step follows a step.  `Settings` says which runs have a client and what each may ask for.

* `ToolCalls` has no state: the answers of the model and which are heard as a tool call
  (`_parse_response`), the defaults and checks of arguments, the planner's templates with the
  calls made from them when there is no model, and the conditions under which the
  reading tools and commands succeed.  An argument is a member of a small set of kinds,
  told apart by what a tool makes of it.
* `FileTools`: every edit has its steps between which another run may come: look (read, or
  test for existence), truncate, put the text; or `git apply --check`, `git apply` and the report of
  its exit code.  A text is the
  set of marks of the edits it shows, `Base` for what the edits need to find in it, and `Odd` for
  bytes and line ends that `_read_text_file` does not return as they are (`AsRead`), which
  `replace_in_file` therefore loses when it writes back what it read.
  The change that `git apply` makes is taken to happen at one instant; after it (`applied`) come the report, a
  failure that is reported instead, an error of the sandbox and with it a second execution on the host
  (`RerunPatch`), or a crash.  A patch whose process outlives its timeout or the server is in `late`.
* `AgentMemory`: the log as lines: does it end inside one (`open`), how many complete ones
  were lost to that, how many were torn.
* `RagEngine`: the cache of engines with `_get_rag_engine`'s separate looks, engines with their
  indexer, and the two files.  An index is the number of the build that collected its chunks, and the files
  and attributes that belong together are the ones with one number.  Each of the two files is emptied
  and then written (`torn` in between, and after a crash or a full disk); the two attributes of an engine are
  assigned one after the other (`AdoptIndex`, `AdoptChunks`); and a search takes positions from
  the index (`SearchIndex`) before it looks them up in the chunks (`Resolve`), so that another thread may
  adopt its index between any two of these.

`expected`, `unreported`, `disturbed`, `lost`, `torn` of the log, `mixed` and `crossed` are history variables.

## 4. The runs

| run | module, cfg | shows |
|---|---|---|
| `agent_run` | `MCAgentRun`, `MCAgentRun.cfg` | the invariants, the action property, termination and the refinement, with a client (so that every raising exit is there) |
| `agent_run_starved` | `MCAgentRun`, `AgentRunStarved.cfg` | finding: recovery plans are never executed |
| `sandbox_registry` | `MCSandboxRegistry`, `MCSandboxRegistry.cfg` | safety and release of locks with two callers, a closer, crashes and a docker that fails |
| `sandbox_raced` | `MCSandboxRegistry`, `SandboxRaced.cfg` | finding: one caller removes the container another one works in |
| `run_lifecycle` | `MCRunLifecycle`, `MCRunLifecycle.cfg` | delivery, results and cleanup with two streams and a deletion |
| `run_deleted` | `MCRunLifecycle`, `RunDeleted.cfg` | finding: a deleted row comes back |
| `run_relay` | `MCRunRelay`, `MCRunRelay.cfg` | delivery, verdicts, the end of the relay and the refinement, with every fault |
| `mcp_registry` | `MCMcpRegistry`, `MCMcpRegistry.cfg` | one connected client, explained orphans and the return of every caller |
| `workspace` | `MCWorkspace`, `MCWorkspace.cfg` | files, log and index under two runs at once, crashes, full disks, late and repeated patches |
| `session_lifecycle` | `MCSessionLifecycle`, `MCSessionLifecycle.cfg` | cleanup, history and expiry with two requests and both ways to end |
| `session_revived` | `MCSessionLifecycle`, `SessionRevived.cfg` | finding: a removed workspace comes back |
| `session_expired` | `MCSessionLifecycle`, `SessionExpired.cfg` | finding: a message is accepted for a removed workspace |

### What the properties say

* `InPlanOrder`: a step is touched only when every earlier one is completed or out
  of retries, recovery steps included.
* `RetriesAreCounted`: the retry count of a step is the number of its failures in
  the trajectory, whichever branch marked them, and is bounded.
* `ToolCallsBounded`: the budget is read between steps only, so it is not a limit; the limit is
  the budget plus the rounds of one step, less one.
* `ReplansNeedTests`: the claim of
  `test_replan_only_fires_after_a_fresh_test_result`, for every behaviour.
* `VerdictIsEarned`: a completed run completed every step; each stop reason holds.
* `TraceNamesExecutedStep`: the backward scan finds the step that ran.
* `Termination`, `ImplementsContract`: see above.
* `RepeatExplained`, `NoStaleContainer`: the fallback to the host repeats a command that
  has begun only when its output could not be decoded, and once; a crash's left-over is never entered.
* `OrphansExplained`: a container without an owner, when all is quiet, was left by a docker that failed
  or did not answer in time, or was started again by a call that outlasted the session.
* `LocksReleased`: `_registry_lock` and every `_lock` are released, on every exit.
* `NothingLeftBehind`, `InOrderOnce`: the streams' claim on the queue.
* `ResultsAgree`: `done` implies a result; the row tells the same; a row without status
  comes only from a deletion.
* `StreamsEnd`, `WorkspaceReclaimed`: liveness of streams and cleanup.  The workspace is removed, or `rmtree` failed on
  it, unless the record was deleted before `_finalize` looked it up; a deletion after that changes nothing.
* `NothingLeaks`: what is left of a session that ended, with requests in flight or not, was
  opened or made by a request after the last of watchdog and close had passed the stage that cleans
  it up, or is a directory on which `rmtree` failed.
* `ConversationKept`: no entry of the history is doubled, no answer lost while the session is there.
* `SparedIfActive`: the watchdog decides to end a session in use only if the refresh of its Redis key was
  lost or has not happened yet.
* `SessionsExpire`: a session nobody closes is ended, also when Redis fails for ever.

* `CompleteWhenDone`: what `open_subscription` subscribes early for: a run that is done misses only
  events whose publication failed, unless the confirmation never came or the relay failed.
* `WorkspaceKept`: no job works in a workspace that was removed, unless `enqueue_run` had raised.
* `VerdictsAgree`: the result in memory is the one in the row, with the same exception.
* `RelayEnds`: a relay that listens ends, or one of the reasons named in it holds.
* `FeedsInOrder`: `RunRelay` implements `EventFeed`.
* `CachedIsConnected`: a failed or closed client is never in the cache.
* `OneClient`: callers at work use the cached client, or one that is being closed.
* `OrphansExplained` (`McpRegistry`): when all is quiet, a subprocess without an owner comes from a
  `connect()` that timed out or from a client connected again after its close.
* `CallersReturn`: a slow, failing or dead server delays a caller and never keeps it.
* `EditsExplained`: a file, read as text, holds everything that the edits reported as done make of it, and
  nothing more than the patches that git applied without a report (`unreported`), unless two edits of
  it overlapped or a write stopped halfway; without a
  model no code is changed.  Dropping the exception for overlaps, TLC finds the lost update
  of two `replace_in_file` in six steps.
* `MemoryLossBounded`: a torn line costs at most the one that follows it.
* `IndexPairing`: vectors and chunks, on disk and in a search, are of one build unless two threads were at the
  files or a save stopped midway (`mixed`), or another thread adopted its index into the engine between
  the two halves of this search (`crossed`); without the first exception TLC finds a mixed index, without
  the second a forced rebuild of one run under the search of another.  And a forced
  rebuild searches an index that is newer than the request, whatever other threads do to the cache.

Every one of them is violated by a plausible bug in the code, stated as a
`Mutation:` operator beside the definition it would replace and paired with it
in `PROJECT.json`.

### Bounds

* `agent_run`: plans of one or two steps, recovery plans of one, two rounds, four
  tool calls, one retry, two replans, four iterations.  The budgets are small and
  close together, so that each of them is the one that stops some run and each
  runs out in the same iteration as another.  Two steps are enough for order, one recovery step for
  a plan that was extended; the theorems remove these bounds for safety.
* `agent_run_starved`: fallback mode, two retries and two replans, as the
  starvation needs a retry after the first replan.
* `sandbox_registry`: two callers, so that one can lose the race; one closer; three objects, since two callers
  and the registry or the closer hold at most three at once.
* `run_lifecycle`: two streams and four events (`MaxEvents` in the guard of
  `EmitEvent`), one of which is "done" and one possibly "error".
* `session_lifecycle`: two requests, so that one may be in flight while the other is over or has
  still to come, and a run and a chat may share the session; Redis present, where every answer of a server that is
  absent is among those of one that fails; the built-in MCP server.
* `run_relay`: three events, the last one reserved for a possible "error": one lost in the
  middle, one delivered before and one after.
* `mcp_registry`: two callers, so that one loses the race to publish; one closer; three clients, as
  two callers and the closer hold at most three.
* `workspace`: two runs, two steps in all (`MaxSteps`), one crash (`MaxCrashes`), one torn
  line (`MaxTorn`).  Two edits are enough for an overlap, one after the other for a lost one, and the
  third append after a tear is as the second.  The five settings keep apart what has no
  common state: both runs without a model; both editing, one of them in two rounds, on a file of plain
  text and on one that is not; one summarising
  in three rounds, with every reading tool, while the other writes; both retrieving.

For safety these bounds are those of the runs only: the theorems hold for any number of threads, objects,
streams, events, requests, runs and settings.  They remain for liveness.

### Fairness

* `AgentRun`: weak fairness of the whole step.  The function is sequential and every
  call in it returns: commands, tests, MCP calls and the HTTP client have timeouts.
* `SandboxRegistry`: weak fairness of each thread that is inside a call, since every docker
  command has a timeout.  Nobody is obliged to call or to close, and a thread
  that waits for a lock is helped only by its holder.
* `RunLifecycle`: weak fairness of the worker thread (`run_agent` returns or raises, by
  `Termination`), of the delayed cleanup, and of each stream until its client
  goes away.  No client has to open a stream or delete the run.
* `SessionLifecycle`: weak fairness of the watchdog thread, of the handlers and threads of
  requests that were accepted, and of time (`Idle`, `KeyExpires`): half an hour without
  a message passes in the end, since there are finitely many requests.  Nobody has to send a message or to close.

* `RunRelay`: weak fairness of the relay thread and of the worker.  Nobody has to confirm, delete, kill
  or restart, and no connection has to break.
* `McpRegistry`: weak fairness of each thread inside a call, as `wait`, `join` and `future.result` have
  timeouts, and of a background loop that was told to stop.  A handshake may take for ever.
* `Workspace`: none, as only safety is checked; `AgentRun` has the termination of a step.

`CHECK_DEADLOCK FALSE` is set where the system stops by itself: a finished run, a quiet
registry (which could still crash), a closed
record, a session that is gone.

## 5. What is proved

For every value of the constants that satisfies the module's `ASSUME`.  Each proof module defines an
inductive invariant `IInv`, proves that `Init` implies it and that every action keeps it (a lemma for
each part of it, a step for each action), and draws the properties from it.  TLC checked the
strengthenings on the runs' instances before they were proved.

| module | theorems | about |
|---|---|---|
| `AgentRunProofs` | `TypeCorrect`, `PlanOrder`, `RetriesCounted`, `ToolOverrun`, `ReplansBacked`, `VerdictEarned`, `TraceFaithful`, `ContractKept` | every invariant and the action property of `AgentRun`; the safety part of the refinement of `RunContract` |
| `SandboxProofs` | `SandboxTypes`, `RepeatsExplained`, `NeverStale`, `OrphansAccounted` | every invariant of `SandboxRegistry` |
| `RunLifecycleProofs` | `LifecycleTypes`, `DeliveredInOrder`, `StreamsComplete`, `StoriesAgree` | every invariant of `RunLifecycle` |
| `SessionProofs` | `SessionTypes`, `HistoryComplete`, `WatchdogSpares`, `LeaksExplained`, `SessionCleanedUp` | every invariant of `SessionLifecycle` and the action property `SparedIfActive` |
| `RunRelayProofs` | `RelayTypes`, `DeliveryComplete`, `WorkspaceOutlivesJob`, `OneVerdict`, `FeedImplemented` | every invariant of `RunRelay` and the whole refinement of `EventFeed`, which is a safety specification |
| `McpProofs` | `McpTypes`, `CacheConnected`, `ClientShared`, `NoOrphans` | every invariant of `McpRegistry` |
| `WorkspaceProofs` | `WorkspaceTypes`, `EditsAccounted`, `MemoryHolds`, `IndexPaired` | every invariant of `Workspace` |

### The arguments

*The loop.*  None of the properties is inductive.  `Position` says that the plan is cut in two at the
current step (settled before it, untouched after it, and only the current step can be
running), which gives the order, the truth of the backward scan and the verdict.  `ToolBudget`: inside
a step the calls are below the budget plus the rounds made so far.  `ReplanBacking`: outside a step no
test result is fresh; inside one, freshness comes from the step itself, which gives one testing entry
per replan.  `RetryAccount`: the retries of a step are its failures in the trajectory, plus the
one that has just been charged and is not recorded yet; for that, the trajectory must only speak of
steps of the plan, so that a recovery step starts with none.

*The sandbox.*  The place of a thread decides how often its command has begun (`Executed`), and a
previous container coexists only with objects that have started nothing (`Cleared`), so that `start()`
removes it before anyone can enter, or docker refuses a second one of its name.  A command that began twice is one whose
caller met undecodable output.  For the orphans the invariant says who owns what:
a thread has the lock of its object exactly while it starts or removes the container (`Holding`);
a candidate is its caller's alone and what a closer took out does not come back (`Exclusive`); the
registered object stays started (`Registered`), so that a closer does not skip it.  `Accounted` then says that
as long as `unowned` is empty the registry, a caller about to register or a closer answers for the
container.

*Runs.*  The queue is cut by its readers: what was taken off is earlier than what is left
(`ReceivedEarlier`), what is left is in order with the sentinel behind it (`QueueOrdered`), and
together they are all the events that were emitted (`Conserved`).  A stream ends only when the run is flagged and
the queue holds no more events (`Ends`), since it looks at the flag before it looks at the queue again.

*Sessions.*  Requests and enders work only in a session that was opened (`Opened`); a request
speaks once and its answer is in the history when it is done (`Spoken`); a key that is gone
was set before the last activity (`KeyTells`), which is what the watchdog's decision rests on; and
whatever is open or there is either attended to, because someone has still to pass the stage that cleans
it up, or came too late (`LookedAfter`).  A directory that `rmtree` could not remove is `kept` and
nobody's any more.  `NothingLeaks` is false for an arbitrary list of servers, as section 6 tells, so
two theorems state what holds: `LeaksExplained`, without hypothesis, that nothing is left but the
clients of servers that `_close_mcp_for_repo` does not know, besides what came too late or could not be
removed; and `SessionCleanedUp`, that there are no such clients
when `mcp_fs`, the default of `agent_mcp/config.py`, is the only one.

*The relay.*  `RelayStaged` and `JobStaged` tie the two processes: a run that is done was never enqueued in
good order, or its job has ended.  `Ordered`: the channel is behind the queue and the
result is behind everything.  `Delivered`: with a confirmed subscription, no event is missing between
the queue, the channel and those that were lost in publication.  `Alone`: the relay's own error is the only
entry of its queue.  The refinement follows from `Ordered` for the order and from
`RelayStaged` for the end.

*The client cache.*  A client that is not published belongs to the thread that built it (`Owned`); who
waits for a handshake or to publish has an untouched client (`Handshake`); a closer works on what is no longer cached
(`Evicted`); what is stopped was closed (`Stopped`).  `Answerable` says who answers for each server that runs.

*The workspace.*  Files, index and memory share no variable.  Lemma `Parts` splits every step into one
of each part or a stutter of it, so that each part has an invariant of its own, tied to the others by `Staged` (where a run
stands).  Files: without a disturbance a file has one writer, who knows what it is to hold, or is a patch that git has
applied and that is not reported yet (`EditsApart`); without a
model there is nothing to write but an empty `output.txt` (`NothingWritten`).  Memory: a line that
is open will cost one insight more (`MemoryInv`).  Index: an engine without an index is its
thread's own and not in the cache (`Own`, `Uses`); no number is that of a build to come (`Counted`); whoever
builds the index of the engine that a forced call will search began after that call (`Fresh`); and as long as nobody was in its
way a builder is alone with the files, and everything paired is of one build (`Paired`), an
engine between its two assignments excepted (`EnginesPaired`), and with it the searches they crossed (`Straight`).  That an
engine can always be found for a new one is the pigeonhole principle on the finite set of runs.

### Only model-checked

* Liveness and fairness, which are beyond the prover: `Termination`, `LocksReleased`, `StreamsEnd`, `WorkspaceReclaimed`,
  `SessionsExpire`, `RelayEnds`, `CallersReturn`, and the fairness part of `ImplementsContract`.
* What the violation runs refute, of course, has no proof.

## 6. Findings

* `agent_run_starved`: `main.py:235-241` and `core/state.py:140-149` say that the gate on fresh
  results lets an appended recovery plan run.  The failed test step stays ahead of it in
  the plan and is retried at once; each retry is a fresh failure, and the replans are spent
  before a recovery step runs.
* `sandbox_raced`: "one persistent DockerSandbox per repo_root"
  (`docker_sandbox.py:211`).  Two first callers build two, of one container name, and
  the second removes the container under the first.
* `session_expired`: a message gets 404 once the session has expired (`server.py:658`).  The watchdog removes the
  workspace before the entry (`server.py:640-641`), and a message in between is dispatched in a directory that is gone.
* `run_deleted`: "delete a run record" (`server.py:733`).  The row is inserted by
  the worker thread after the request was answered, possibly after the deletion.
* `session_revived`: "Explicitly end a session and clean up its workspace"
  (`server.py:687`).  A request in flight makes the directory again after its removal, at the latest when
  it writes its trajectory (`main.py:300`), and nobody removes it a second time.

### Met on the way

Facts of the code that a reader of the models should know of, without a run of their own.  The first five
are the exceptions that properties of the passing runs make by name; without its exception TLC refutes each of them:

* A command runs in the container, "otherwise directly on the host" (`tools.py:17-19`).  When its output is not
  valid text, `subprocess.run(text=True)` raises after the command was executed (`docker_sandbox.py:157`), and
  `_exec_command` executes it again on the host (`undecoded` in `RepeatExplained`).
* The container is "stopped when the session ends" (`docker_sandbox.py:9`).  A call that still holds the stopped sandbox
  starts it again (`docker_sandbox.py:148`), and no registry knows of it (`unowned` in `OrphansExplained`).
* Deleting a run that is working pops the entry without which `_finalize` returns before it schedules the cleanup of
  the workspace (`server.py:402`; `Unfinalized` in `WorkspaceReclaimed`).
* "Replace exact text inside a file" (`tools.py:535`).  The file is read with `errors="replace"` and universal newlines and
  written back whole, so that bytes and line ends far from the edit change (`AsRead` in `EditsExplained`).
* Callers of `get_shared_mcp_client(cwd=...)` should close the client with the workspace (`client.py:224-228`).
  `_close_mcp_for_repo` closes the built-in filesystem server only, not the other servers that `mcp_servers.json` may run in the
  workspace (`LeaksExplained`; with a second server in `Servers`, `NothingLeaks` fails).
* With tools in the request, `LLMClient.chat` answers a dict that has the key `tool_calls`
  (`llm.py:93`, `llm.py:122`), and then `_parse_response` (`executor.py:227-238`) does not look for JSON in the content,
  although the prompt asks for JSON only (`executor.py:656`, `688-701`).  Such an answer ends the step as its final text
  (`Heard` in `ToolCalls`).
* `_normalize_tool_arguments` fills in every missing argument before `_validate_tool_arg` looks, which then
  finds only an explicit null (`SchemaError`); arguments that are no object raise outside the `try` and fail the step (`NormalizeRaises`).
* Without a model, `write_file` is called with the defaults: it creates an empty `output.txt`, succeeds, and completes the step.
* `used_tools` counts tools that failed (`executor.py:187`), so a summary step may end as if context had
  been read; the docstring of `_tool_result_is_enough` says it should be read first.
* `retrieve_context` with `force_rebuild` loads the old files before it rebuilds them (`retrieve.py:47`): with a torn
  `metadata.json` every call fails, the forced ones included (`LoadFails`).
* A client that was closed between the lookup and `get_tool_map` is connected again, and its `_closed` makes every later `close()`
  return at once (`client.py:70`, `156`): the subprocess stays until the process ends.
* Without a Redis server SUBSCRIBE raises; the branch for a missing subscription (`server.py:433-441`) is taken only when the client was never
  made.  The relay thread dies and its stream stays open.  `enqueue_run` asks its callers to fall back to a thread (`queue.py:65-67`); the
  dispatch reports a failed run instead.
* The connection is made with a `socket_timeout` of five seconds (`cache.py:48`), which bounds the silence the relay
  can listen to (`ListenRaises`).

## 7. What is not modelled, and why

The web UI (a page of script around the streams that `RunLifecycle` models); the embedder and
model cache (numerics); logging, skills and prompts (texts); the MCP server (stateless); the
evaluation harness (drivers of the program).  Inside the modelled parts:

* `Executor.run_step`, which nothing calls; a `step_callback` that raises, as a run from
  the command line has none and the server's is in `RunLifecycle`;
* `run_ephemeral` and the building of the image;
* a restart of the API process in `RunLifecycle`, which loses `_runs` and the pending cleanup threads
  (`RunRelay` has it); the queue dispatch of a session's run, which has no cleanup;
* the rows of tables `sessions` and `messages`, best-effort copies that nothing in a session reads;
* what a command does to the files, and edits outside `main.py` and `output.txt`, which stand for a
  file of the repository and a file that is not there;
* recall from memory, which only reads, and preferences, which no run writes; an insight is taken to be one write;
* chunking, scoring, reranking; both files of an index are loaded in one step, a truncated file does not keep a valid
  prefix, and one that was built before files changed stays in use until a
  forced rebuild, which no property forbids.
