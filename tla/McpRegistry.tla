---------------------------- MODULE McpRegistry ----------------------------
(***************************************************************************)
(* The shared clients of one MCP server (agent_mcp/client.py): the cache   *)
(* _shared_clients, the MCPToolClient objects, the background thread and   *)
(* the subprocess of each.  Runs take the client out of the cache, connect *)
(* it and list its tools (main.py, _load_mcp_tools) while a session or the *)
(* exit of the process closes it.  Clients of different keys, the command, *)
(* its arguments, the namespace and the cwd, have nothing in common.       *)
(***************************************************************************)
EXTENDS Naturals

CONSTANTS
  Callers,   \* threads in _load_mcp_tools
  Closers,   \* threads in close_shared_mcp_client or close_all_shared_mcp_clients
  Clients,   \* identities of MCPToolClient objects, reused once unreachable
  None

Threads == Callers \cup Closers

ASSUME McpAssumption ==
  /\ Callers \cap Closers = {}
  /\ None \notin Threads \cup Clients

VARIABLES
  shared,       \* _shared_clients[key], or None
  lock,         \* holder of _shared_clients_lock across a close(), or None
  thread,       \* clients whose _thread is not None
  ready,        \* clients whose _ready is set
  failed,       \* clients with a _connect_error
  closed,       \* clients whose _closed is set
  stopping,     \* clients whose _stop_future is done
  server,       \* background session of a client: "none", "opening", "open", or "dead"
                \* when the subprocess died under it
  held,         \* the client a thread works with
  pc,
  abandoned,    \* history: clients given up by a connect() that timed out
  reborn        \* history: clients connected again after they were closed

cache   == <<shared, lock>>
flags   == <<thread, ready, failed, closed, stopping>>
history == <<abandoned, reborn>>
vars    == <<cache, flags, server, held, pc, history>>

CallerControl == {"idle", "connecting", "publish", "discard", "list", "fetch", "using"}
CloserControl == {"idle", "close", "join"}

Init ==
  /\ shared = None
  /\ lock = None
  /\ thread = {} /\ ready = {} /\ failed = {} /\ closed = {} /\ stopping = {}
  /\ server = [c \in Clients |-> "none"]
  /\ held = [t \in Threads |-> None]
  /\ pc = [t \in Threads |-> "idle"]
  /\ abandoned = {} /\ reborn = {}

Goto(t, next) == pc' = [pc EXCEPT ![t] = next]
GoHome(t) == Goto(t, "idle") /\ held' = [held EXCEPT ![t] = None]

-----------------------------------------------------------------------------
(* get_shared_mcp_client *)

Lookup(t) ==
  /\ pc[t] = "idle"
  /\ lock = None
  /\ shared # None
  /\ held' = [held EXCEPT ![t] = shared]
  /\ Goto(t, "list")
  /\ UNCHANGED <<cache, flags, server, history>>

Unreachable(c) == shared # c /\ server[c] = "none" /\ \A t \in Threads : held[t] # c

\* Nothing is cached: a candidate starts to connect outside the lock.
Construct(t) ==
  /\ pc[t] = "idle"
  /\ lock = None
  /\ shared = None
  /\ \E c \in Clients : Unreachable(c)
  /\ LET new == CHOOSE c \in Clients : Unreachable(c)
     IN  /\ held' = [held EXCEPT ![t] = new]
         /\ thread' = thread \cup {new}
         /\ ready' = ready \ {new}
         /\ failed' = failed \ {new}
         /\ closed' = closed \ {new}
         /\ stopping' = stopping \ {new}
         /\ server' = [server EXCEPT ![new] = "opening"]
         /\ abandoned' = abandoned \ {new}
         /\ reborn' = reborn \ {new}
  /\ Goto(t, "connecting")
  /\ UNCHANGED cache

\* Mutation: the error of the background thread is not looked at.
ConnectRaisesNever(t) == FALSE

ConnectRaises(t) == held[t] \in failed

Connect(t) ==
  /\ pc[t] = "connecting"
  /\ held[t] \in ready
  /\ IF ConnectRaises(t) THEN GoHome(t) ELSE Goto(t, "publish") /\ UNCHANGED held
  /\ UNCHANGED <<cache, flags, server, history>>

\* Mutation: a wait without a timeout.
ConnectWaits(t) == FALSE

\* The caller gives up; the background thread does not hear of it.
ConnectTimesOut(t) ==
  /\ pc[t] = "connecting"
  /\ held[t] \notin ready
  /\ abandoned' = abandoned \cup {held[t]}
  /\ GoHome(t)
  /\ UNCHANGED <<cache, flags, server, reborn>>

\* close(): the future is set on the client's loop.
Stop(c) == closed' = closed \cup {c} /\ stopping' = stopping \cup {c}

\* Mutation: the client that lost is dropped as it is.
DropLoser(c) == UNCHANGED <<closed, stopping>>

CloseLoser(c) == Stop(c)

\* Mutation: the later client replaces the earlier one.
PublishOver(t) ==
  /\ pc[t] = "publish"
  /\ lock = None
  /\ shared' = held[t]
  /\ Goto(t, "list")
  /\ UNCHANGED <<lock, flags, server, held, history>>

\* setdefault: the first one stays.
Publish(t) ==
  /\ pc[t] = "publish"
  /\ lock = None
  /\ IF shared = None
     THEN /\ shared' = held[t]
          /\ Goto(t, "list")
          /\ UNCHANGED <<lock, closed, stopping>>
     ELSE /\ lock' = t
          /\ CloseLoser(held[t])
          /\ Goto(t, "discard")
          /\ UNCHANGED shared
  /\ UNCHANGED <<thread, ready, failed, server, held, history>>

\* The join of the candidate's thread, ten seconds at most.
Discard(t) ==
  /\ pc[t] = "discard"
  /\ thread' = thread \ {held[t]}
  /\ lock' = None
  /\ held' = [held EXCEPT ![t] = shared]
  /\ Goto(t, "list")
  /\ UNCHANGED <<shared, ready, failed, closed, stopping, server, history>>

-----------------------------------------------------------------------------
(* get_tool_map *)

Session(c) == server[c] \in {"open", "dead"}

\* A client without a session is connected again, closed or not.  Its _ready is still
\* set, so that connect() does not wait.
EnsureConnected(t) ==
  /\ pc[t] = "list"
  /\ LET c == held[t]
     IN  IF Session(c) \/ c \in thread
         THEN UNCHANGED <<thread, stopping, server, reborn>>
         ELSE /\ thread' = thread \cup {c}
              /\ stopping' = stopping \ {c}
              /\ server' = [server EXCEPT ![c] = "opening"]
              /\ reborn' = reborn \cup {c}
  /\ Goto(t, "fetch")
  /\ UNCHANGED <<cache, ready, failed, closed, held, abandoned>>

\* list_tools on the background loop; an exception or the timeout costs the run the
\* tools of this server.
FetchTools(t) ==
  /\ pc[t] = "fetch"
  /\ \/ server[held[t]] = "open" /\ Goto(t, "using") /\ UNCHANGED held
     \/ GoHome(t)
  /\ UNCHANGED <<cache, flags, server, history>>

\* The run is over; its calls have reported success or failure and changed nothing here.
Leave(t) ==
  /\ pc[t] = "using"
  /\ GoHome(t)
  /\ UNCHANGED <<cache, flags, server, history>>

-----------------------------------------------------------------------------
(* close_shared_mcp_client *)

\* Mutation: the client is closed under the lock.
EvictLocked(t) ==
  /\ pc[t] = "idle"
  /\ lock = None
  /\ shared # None
  /\ held' = [held EXCEPT ![t] = shared]
  /\ shared' = None
  /\ lock' = t
  /\ Goto(t, "close")
  /\ UNCHANGED <<flags, server, history>>

Evict(t) ==
  /\ pc[t] = "idle"
  /\ lock = None
  /\ shared # None
  /\ held' = [held EXCEPT ![t] = shared]
  /\ shared' = None
  /\ Goto(t, "close")
  /\ UNCHANGED <<lock, flags, server, history>>

\* An exception of close() is swallowed.
Close(t) ==
  /\ pc[t] = "close"
  /\ IF held[t] \in thread /\ held[t] \notin closed
     THEN Stop(held[t]) /\ Goto(t, "join") /\ UNCHANGED held
     ELSE GoHome(t) /\ UNCHANGED <<closed, stopping>>
  /\ UNCHANGED <<cache, thread, ready, failed, server, history>>

Join(t) ==
  /\ pc[t] = "join"
  /\ thread' = thread \ {held[t]}
  /\ GoHome(t)
  /\ UNCHANGED <<cache, ready, failed, closed, stopping, server, history>>

-----------------------------------------------------------------------------
(* The background thread and the subprocess of a client *)

Open(c) ==
  /\ server[c] = "opening"
  /\ server' = [server EXCEPT ![c] = "open"]
  /\ ready' = ready \cup {c}
  /\ UNCHANGED <<cache, thread, failed, closed, stopping, held, pc, history>>

\* The error is kept for a connect() that still waits.
OpenFails(c) ==
  /\ server[c] = "opening"
  /\ server' = [server EXCEPT ![c] = "none"]
  /\ failed' = (IF c \in ready THEN failed ELSE failed \cup {c})
  /\ ready' = ready \cup {c}
  /\ UNCHANGED <<cache, thread, closed, stopping, held, pc, history>>

\* The subprocess ends by itself; the session waits for its future all the same.
Die(c) ==
  /\ server[c] = "open"
  /\ server' = [server EXCEPT ![c] = "dead"]
  /\ UNCHANGED <<cache, flags, held, pc, history>>

Shutdown(c) ==
  /\ c \in stopping /\ Session(c)
  /\ server' = [server EXCEPT ![c] = "none"]
  /\ UNCHANGED <<cache, flags, held, pc, history>>

-----------------------------------------------------------------------------
CallStep(t) ==
  \/ Connect(t) \/ ConnectTimesOut(t) \/ Publish(t) \/ Discard(t)
  \/ EnsureConnected(t) \/ FetchTools(t) \/ Leave(t)

CloseStep(t) == Close(t) \/ Join(t)

Next ==
  \/ \E t \in Callers : Lookup(t) \/ Construct(t) \/ CallStep(t)
  \/ \E t \in Closers : Evict(t) \/ CloseStep(t)
  \/ \E c \in Clients : Open(c) \/ OpenFails(c) \/ Die(c) \/ Shutdown(c)

\* Every wait of a thread has a timeout.  A server may stay in its handshake for ever.
Fairness ==
  /\ \A t \in Callers : WF_vars(CallStep(t))
  /\ \A t \in Closers : WF_vars(CloseStep(t))
  /\ \A c \in Clients : WF_vars(Shutdown(c))

Spec == Init /\ [][Next]_vars /\ Fairness

-----------------------------------------------------------------------------
(* Properties *)

TypeOK ==
  /\ shared \in Clients \cup {None}
  /\ lock \in Callers \cup {None}
  /\ thread \subseteq Clients /\ ready \subseteq Clients /\ failed \subseteq Clients
  /\ closed \subseteq Clients /\ stopping \subseteq Clients
  /\ server \in [Clients -> {"none", "opening", "open", "dead"}]
  /\ held \in [Threads -> Clients \cup {None}]
  /\ \A t \in Callers : pc[t] \in CallerControl
  /\ \A t \in Closers : pc[t] \in CloserControl
  /\ DOMAIN pc = Threads
  /\ abandoned \subseteq Clients /\ reborn \subseteq Clients

\* get_shared_mcp_client: what is cached has finished its handshake and was not closed; a
\* failed connection is never cached.
CachedIsConnected ==
  shared # None => shared \in ready \ (failed \cup closed) /\ Session(shared)

\* The comment on _shared_clients: callers that work at the same time work with the one
\* that is cached, or with one that is being closed, never with a second one.
OneClient ==
  \A t \in Callers :
    pc[t] \in {"list", "fetch", "using"} =>
      \/ held[t] = shared
      \/ held[t] \in closed
      \/ \E u \in Closers : pc[u] = "close" /\ held[u] = held[t]

\* No subprocess survives its client: when no thread is inside a call and no background thread is
\* shutting down, a server that runs is the cached one, or was given up by a timeout of
\* connect(), or was started again by get_tool_map after its client had been closed.
OrphansExplained ==
  (\A t \in Threads : pc[t] \in {"idle", "using"}) =>
    \A c \in Clients :
      server[c] # "none" /\ c \notin stopping => c = shared \/ c \in abandoned \cup reborn

\* A caller comes back with the tools or without, whatever the server does.
CallersReturn ==
  \A t \in Callers : pc[t] \notin {"idle", "using"} ~> pc[t] \in {"idle", "using"}
=============================================================================
