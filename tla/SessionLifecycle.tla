-------------------------- MODULE SessionLifecycle --------------------------
(***************************************************************************)
(* One multi-turn session of the API server (api/server.py): the entry in  *)
(* _sessions, its workspace, the clients opened for the workspace, the     *)
(* Redis key that says whether it is active (db/cache.py), the requests    *)
(* that work in it and the two that end it, the watchdog thread and        *)
(* DELETE /api/session/{session_id}.                                       *)
(*                                                                         *)
(* Between two awaits a handler keeps the other handlers waiting, but not  *)
(* the watchdog and the worker threads.  Errors of Redis are swallowed.    *)
(* The rows of tables sessions and messages are left out: nothing in a     *)
(* session reads them.                                                     *)
(***************************************************************************)
EXTENDS Naturals, Bags

CONSTANTS
  Requests,    \* messages and light chats sent to the session
  Redis,       \* TRUE when init_redis found a server at startup
  Servers      \* MCP servers configured with cwd_from_repo_root; the default is {"mcp_fs"}

ASSUME SessionAssumption == Redis \in BOOLEAN /\ "sandbox" \notin Servers

VARIABLES
  session,      \* _sessions[session_id]: "none", "open", "gone", or "refused"
  last_active,  \* its last_active, "old" after 30 minutes
  history,      \* the bag of entries of its history, which the requests keep alive
  key,          \* session_active:{session_id} in Redis: "none", "fresh", or "stale"
                \* when it was set before the last activity
  unrefreshed,  \* history: the last activity has not reached the key
  tmp_dir,      \* the workspace, "revived" when made again after its removal, "kept" when
                \* rmtree failed to remove it
  clients,      \* what the registries hold for the workspace: its sandbox, its MCP clients
  teardown,     \* where each of the two that end the session stands
  request,      \* where each request stands
  answered,     \* history: runs that finalized with an answer
  late          \* history: what a request opened or made when nobody was left to clean
                \* it up

disk == <<tmp_dir, clients>>
clock == <<last_active, key, unrefreshed>>
vars == <<session, history, clock, disk, teardown, request, answered, late>>

Enders == {"watchdog", "close"}

\* The steps both of them take, in this order; only the watchdog has to pop the entry.
Teardown == {"key", "mcp", "sandbox", "rmtree", "pop"}
TeardownControl == Teardown \cup {"none", "asleep", "check", "ended"}

Clients == {"sandbox"} \cup Servers

TearingDown == \E e \in Enders : teardown[e] \in Teardown

\* No handler is between two of its awaits at a place where a thread may overtake it.
EventLoopFree ==
  /\ \A r \in Requests : request[r] # "told"
  /\ teardown["close"] \notin {"mcp", "sandbox", "rmtree"}

Init ==
  /\ session = "none"
  /\ last_active = "recent"
  /\ history = EmptyBag
  /\ key = "none"
  /\ unrefreshed = FALSE
  /\ tmp_dir = "none"
  /\ clients = {}
  /\ teardown = [e \in Enders |-> "none"]
  /\ request = [r \in Requests |-> "idle"]
  /\ answered = {}
  /\ late = {}

-----------------------------------------------------------------------------
(* Redis *)

\* touch_session_ttl: the SET may fail unnoticed.
Refresh ==
  \/ Redis /\ key' = "fresh" /\ unrefreshed' = FALSE
  \/ key' = (IF key = "fresh" THEN "stale" ELSE key) /\ unrefreshed' = TRUE

\* is_session_active: no answer without Redis or when EXISTS fails.
IsActive == {"unknown"} \cup
  (IF Redis THEN {IF key = "none" THEN "inactive" ELSE "active"} ELSE {})

\* Mutation: the entry of the history lost its role.
SayRoleless(role, r) == history' = history (+) SetToBag({<<r>>})

Say(role, r) == history' = history (+) SetToBag({<<role, r>>})

-----------------------------------------------------------------------------
(* POST /api/session *)

CreateSession ==
  /\ session = "none"
  /\ session' = "open"
  /\ tmp_dir' = "present"
  /\ UNCHANGED <<history, clock, clients, teardown, request, answered, late>>

CreateFails ==
  /\ session = "none"
  /\ session' = "refused"
  /\ tmp_dir' \in {"removed", "kept"}
  /\ UNCHANGED <<history, clock, clients, teardown, request, answered, late>>

\* The key and the watchdog; the id is returned only then.
StartWatchdog ==
  /\ session = "open"
  /\ teardown["watchdog"] = "none"
  /\ Refresh
  /\ teardown' = [teardown EXCEPT !["watchdog"] = "asleep"]
  /\ UNCHANGED <<session, last_active, history, disk, request, answered, late>>

-----------------------------------------------------------------------------
(* Requests *)

Goto(r, next) == request' = [request EXCEPT ![r] = next]

\* A request that finds the session.  One that does not gets 404 and changes nothing.
Accept(r, next) ==
  /\ EventLoopFree
  /\ request[r] = "idle"
  /\ session = "open"
  /\ teardown["watchdog"] # "none"
  /\ last_active' = "recent"
  /\ Say("user", r)
  /\ Goto(r, next)
  /\ key' = (IF key = "fresh" THEN "stale" ELSE key)
  /\ unrefreshed' = TRUE
  /\ UNCHANGED <<session, disk, teardown, answered, late>>

\* POST /api/session/{session_id}/message and /chat.
Message(r) == Accept(r, "told")
Chat(r) == Accept(r, "asked")

\* A message refreshes the key at once, the light chat only after its awaits.
RefreshKey(r) ==
  /\ request[r] = "told"
  /\ Refresh
  /\ Goto(r, "said")
  /\ UNCHANGED <<session, last_active, history, disk, teardown, answered, late>>

\* The rest of the handler, after its awaits: the worker thread.
DispatchRun(r) ==
  /\ EventLoopFree
  /\ request[r] = "said"
  /\ Goto(r, "running")
  /\ UNCHANGED <<session, history, clock, disk, teardown, answered, late>>

DispatchChat(r) ==
  /\ EventLoopFree
  /\ request[r] = "asked"
  /\ Refresh
  /\ Goto(r, "chatting")
  /\ UNCHANGED <<session, last_active, history, disk, teardown, answered, late>>

\* Someone is still to pass this stage of the teardown: one of the two is on its way
\* there, or the session is open and its watchdog has not decided yet.
Before(stage) ==
  CASE stage = "mcp"     -> {"key", "mcp"}
    [] stage = "sandbox" -> {"key", "mcp", "sandbox"}
    [] stage = "rmtree"  -> {"key", "mcp", "sandbox", "rmtree"}

Attended(stage) ==
  \/ \E e \in Enders : teardown[e] \in Before(stage)
  \/ session = "open" /\ teardown["watchdog"] \in {"none", "asleep", "check"}

OpenClient(client, stage) ==
  /\ clients' = clients \cup {client}
  /\ late' = IF client \in clients \/ Attended(stage) THEN late ELSE late \cup {client}

\* mkdir(parents=True): the workspace comes into being again.
MakeDirectory ==
  IF tmp_dir = "removed"
  THEN /\ tmp_dir' = "revived"
       /\ late' = IF Attended("rmtree") THEN late ELSE late \cup {"tmp_dir"}
  ELSE UNCHANGED <<tmp_dir, late>>

\* A run connects to the configured servers, in the workspace as their directory.
ConnectServer(r) ==
  /\ request[r] = "running"
  /\ tmp_dir # "removed"
  /\ \E server \in Servers : OpenClient(server, "mcp")
  /\ UNCHANGED <<session, history, clock, tmp_dir, teardown, request, answered>>

\* The commands of a run start the sandbox; the light chat has only git_diff to do it.
StartSandbox(r) ==
  /\ request[r] \in {"running", "chatting"}
  /\ OpenClient("sandbox", "sandbox")
  /\ UNCHANGED <<session, history, clock, tmp_dir, teardown, request, answered>>

\* The sandbox, the index, the memory and write_file make the directories they need.
UseWorkspace(r) ==
  /\ request[r] \in {"running", "chatting"}
  /\ MakeDirectory
  /\ UNCHANGED <<session, history, clock, clients, teardown, request, answered>>

\* run_agent returns after writing the trajectory file; the answer may be empty.
RunReturns(r) ==
  /\ request[r] = "running"
  /\ MakeDirectory
  /\ \/ Goto(r, "finalize") /\ answered' = answered \cup {r}
     \/ Goto(r, "done") /\ UNCHANGED answered
  /\ UNCHANGED <<session, history, clock, clients, teardown>>

RunRaises(r) ==
  /\ request[r] = "running"
  /\ Goto(r, "done")
  /\ UNCHANGED <<session, history, clock, disk, teardown, answered, late>>

\* Mutation: only the table of messages gets the answer.
FinalizeUnsaid(r) ==
  /\ request[r] = "finalize"
  /\ Goto(r, "done")
  /\ UNCHANGED <<session, history, clock, disk, teardown, answered, late>>

\* _finalize: an answer to a session that is gone is dropped.
Finalize(r) ==
  /\ request[r] = "finalize"
  /\ IF session = "open"
     THEN Say("agent", r) /\ Goto(r, "done")
     ELSE Goto(r, "done") /\ UNCHANGED history
  /\ UNCHANGED <<session, clock, disk, teardown, answered, late>>

\* The chat's worker appends to the history it holds, whether the session is gone or not.
ChatEnds(r) ==
  /\ request[r] = "chatting"
  /\ \/ Say("agent", r) /\ Goto(r, "done")
     \/ Goto(r, "done") /\ UNCHANGED history
  /\ UNCHANGED <<session, clock, disk, teardown, answered, late>>

-----------------------------------------------------------------------------
(* Time *)

\* Half an hour without a message.
Idle ==
  /\ session = "open"
  /\ last_active = "recent"
  /\ last_active' = "old"
  /\ UNCHANGED <<session, history, key, unrefreshed, disk, teardown, request,
                 answered, late>>

\* The key outlives the activity it was set for by half an hour, and no longer.
KeyExpires ==
  /\ \/ key = "stale"
     \/ key = "fresh" /\ last_active = "old"
  /\ key' = "none"
  /\ UNCHANGED <<session, history, last_active, unrefreshed, disk, teardown, request,
                 answered, late>>

-----------------------------------------------------------------------------
(* The end of the session *)

To(e, next) == teardown' = [teardown EXCEPT ![e] = next]

\* Every five minutes.
Wake ==
  /\ teardown["watchdog"] = "asleep"
  /\ To("watchdog", IF session = "open" THEN "check" ELSE "ended")
  /\ UNCHANGED <<session, history, clock, disk, request, answered, late>>

\* Mutation: an error of Redis counts as inactivity.
HasExpiredUnlessActive(active) == active # "active"

HasExpired(active) ==
  IF active = "unknown" THEN last_active = "old" ELSE active = "inactive"

\* Mutation: the watchdog looks once.
AfterCheckOnce == "ended"

AfterCheck == "asleep"

Check ==
  /\ teardown["watchdog"] = "check"
  /\ \E active \in IsActive :
       IF HasExpired(active)
       THEN To("watchdog", "key")
       ELSE To("watchdog", AfterCheck)
  /\ UNCHANGED <<session, history, clock, disk, request, answered, late>>

\* DELETE: the entry goes first.
Close ==
  /\ EventLoopFree
  /\ session = "open"
  /\ teardown["watchdog"] # "none"
  /\ session' = "gone"
  /\ To("close", "key")
  /\ UNCHANGED <<history, clock, disk, request, answered, late>>

ClearKey(e) ==
  /\ teardown[e] = "key"
  /\ e = "close" => EventLoopFree
  /\ key' \in {key, "none"}
  /\ To(e, "mcp")
  /\ UNCHANGED <<session, history, last_active, unrefreshed, disk, request, answered,
                 late>>

\* _close_mcp_for_repo knows one server, whatever was configured.
CloseMcp(e) ==
  /\ teardown[e] = "mcp"
  /\ clients' = clients \ {"mcp_fs"}
  /\ To(e, "sandbox")
  /\ UNCHANGED <<session, history, clock, tmp_dir, request, answered, late>>

\* Mutation: the sandbox of the workspace is left running.
SandboxForgotten == clients

SandboxClosed == clients \ {"sandbox"}

CloseSandbox(e) ==
  /\ teardown[e] = "sandbox"
  /\ clients' = SandboxClosed
  /\ To(e, "rmtree")
  /\ UNCHANGED <<session, history, clock, tmp_dir, request, answered, late>>

\* shutil.rmtree(ignore_errors=True): nobody is told when it fails.
RemoveWorkspace(e) ==
  /\ teardown[e] = "rmtree"
  /\ tmp_dir' \in IF tmp_dir = "removed" THEN {"removed"} ELSE {"removed", "kept"}
  /\ To(e, IF e = "watchdog" THEN "pop" ELSE "ended")
  /\ UNCHANGED <<session, history, clock, clients, request, answered, late>>

Pop ==
  /\ teardown["watchdog"] = "pop"
  /\ session' = "gone"
  /\ To("watchdog", "ended")
  /\ UNCHANGED <<history, clock, disk, request, answered, late>>

-----------------------------------------------------------------------------
RequestStep(r) ==
  \/ RefreshKey(r) \/ DispatchRun(r) \/ DispatchChat(r) \/ RunReturns(r) \/ RunRaises(r)
  \/ Finalize(r) \/ ChatEnds(r)

TeardownStep(e) == ClearKey(e) \/ CloseMcp(e) \/ CloseSandbox(e) \/ RemoveWorkspace(e)

WatchdogStep == Wake \/ Check \/ Pop \/ TeardownStep("watchdog")

Next ==
  \/ CreateSession \/ CreateFails \/ StartWatchdog
  \/ \E r \in Requests : Message(r) \/ Chat(r) \/ RequestStep(r)
                         \/ ConnectServer(r) \/ StartSandbox(r) \/ UseWorkspace(r)
  \/ Idle \/ KeyExpires
  \/ WatchdogStep \/ Close \/ TeardownStep("close")

\* Threads and handlers go on, time passes.  Nobody has to send a message or to close.
Fairness ==
  /\ WF_vars(StartWatchdog)
  /\ WF_vars(WatchdogStep)
  /\ WF_vars(TeardownStep("close"))
  /\ WF_vars(Idle)
  /\ WF_vars(KeyExpires)
  /\ \A r \in Requests : WF_vars(RequestStep(r))

Spec == Init /\ [][Next]_vars /\ Fairness

-----------------------------------------------------------------------------
(* Properties *)

Entry == {"user", "agent"} \X Requests

TypeOK ==
  /\ session \in {"none", "open", "gone", "refused"}
  /\ last_active \in {"recent", "old"}
  /\ IsABag(history) /\ BagToSet(history) \subseteq Entry
  /\ key \in {"none", "fresh", "stale"}
  /\ unrefreshed \in BOOLEAN
  /\ tmp_dir \in {"none", "present", "removed", "revived", "kept"}
  /\ clients \subseteq Clients
  /\ teardown \in [Enders -> TeardownControl]
  /\ request \in [Requests -> {"idle", "told", "said", "asked", "running", "chatting", "finalize",
                               "done"}]
  /\ answered \subseteq Requests
  /\ late \subseteq Clients \cup {"tmp_dir"}

\* Once a session has been ended, by the watchdog, by DELETE or by both, what is still
\* open or there was opened or made by a request after the last of them had passed the
\* stage that cleans it up, or is a directory that rmtree was tried on and failed.
\* Requests may be in flight all the time.
NothingLeaks ==
  session = "gone" /\ ~TearingDown =>
    /\ clients \subseteq late
    /\ tmp_dir \in {"removed", "kept"} \/ "tmp_dir" \in late

\* Nothing is in the history twice, and no answer of a run is lost to a session that is
\* still there.
ConversationKept ==
  /\ \A entry \in BagToSet(history) : history[entry] = 1
  /\ \A r \in answered :
       session = "open" /\ request[r] = "done" => BagIn(<<"agent", r>>, history)

\* api/server.py on the watchdog: with or without Redis, the watchdog decides to end a
\* session in use only when the refresh of its key was lost, or is still to come.
SparedIfActive ==
  [][teardown["watchdog"] = "check" /\ teardown'["watchdog"] = "key"
       => last_active = "old" \/ unrefreshed \/ session = "gone"]_vars

\* session_message and session_chat_stream answer 404 once a session has expired: no
\* message is accepted for a workspace that is gone.
AcceptedInWorkspace ==
  [][\A r \in Requests :
       request[r] = "idle" /\ request'[r] # "idle" => tmp_dir # "removed"]_vars

\* A session nobody closes is ended by the watchdog in the end.
SessionsExpire == session = "open" ~> session = "gone"

\* close_session: once the session is closed and its workspace cleaned up, the workspace
\* does not come back.
CleanedUp ==
  [][teardown["close"] = "ended" /\ tmp_dir = "removed" => tmp_dir' = "removed"]_vars

=============================================================================
