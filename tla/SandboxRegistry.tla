--------------------------- MODULE SandboxRegistry ---------------------------
(***************************************************************************)
(* The sandbox of one repo_root: the process-wide registry and the         *)
(* DockerSandbox objects of sandbox/docker_sandbox.py, as tools.py's        *)
(* _exec_command uses them from several runs at once and the API server    *)
(* closes them.  Repositories do not interact: the name of a container is  *)
(* derived from its repo_root, and every DockerSandbox built for the same  *)
(* repo_root, in this process or an earlier one, has the same name.        *)
(***************************************************************************)
EXTENDS Naturals

CONSTANTS
  Callers,    \* threads that run tool commands
  Closers,    \* threads that tear a session down
  Sandboxes,  \* identities of DockerSandbox objects, reused once unreachable
  None

Threads == Callers \cup Closers

ASSUME SandboxAssumption ==
  /\ Callers \cap Closers = {}
  /\ None \notin Threads \cup Sandboxes

VARIABLES
  sandboxes,      \* _sandboxes[repo_root], or None
  registry_lock,  \* holder of _registry_lock across a docker call, or None
  started,        \* the objects whose _started is True
  lock,           \* holder of each object's _lock
  held,           \* the object a thread works with
  container,      \* the container of that name: "none", "current", or "previous"
                  \* when it was left behind by a process that crashed
  pc,
  ran,            \* history: how often the command of a call began to execute
  undecoded,      \* history: the calls whose output could not be decoded
  unowned         \* history: why the latest container may have nobody to stop it

objectVars == <<sandboxes, registry_lock, started, lock, held>>
callVars == <<ran, undecoded>>
vars == <<objectVars, container, pc, callVars, unowned>>

\* Inside start(), for a candidate ("_new") or for a sandbox whose container has
\* gone ("_again").
Starting == {"check_new", "clear_new", "run_new", "check_again", "clear_again", "run_again"}

CallerControl ==
  Starting \cup {"idle", "register", "discard", "inspect", "lock", "enter",
                 "running", "killed", "host"}
CloserControl == {"idle", "stop", "remove"}

Init ==
  /\ sandboxes = None
  /\ registry_lock = None
  /\ started = {}
  /\ lock = [s \in Sandboxes |-> None]
  /\ held = [t \in Threads |-> None]
  /\ container = "none"
  /\ pc = [t \in Threads |-> "idle"]
  /\ ran = [t \in Callers |-> 0]
  /\ undecoded = {}
  /\ unowned = {}

-----------------------------------------------------------------------------
(* Docker *)

Goto(t, next) == pc' = [pc EXCEPT ![t] = next]

\* docker rm -f takes effect: whatever a command was doing in the container, it is
\* dead.
GotoAfterRemoval(t, next) ==
  /\ container' = "none"
  /\ pc' = [u \in Threads |-> IF u = t THEN next
                              ELSE IF pc[u] = "running" THEN "killed" ELSE pc[u]]

\* Its exit code is ignored: the caller goes on whether or not it took effect.
GotoAfterAttempt(t, next) ==
  \/ GotoAfterRemoval(t, next)
  \/ Goto(t, next) /\ UNCHANGED container

\* Mutation: an exit that keeps the object locked.
ReleaseForgotten(s) == lock' = lock

Release(s) == lock' = [lock EXCEPT ![s] = None]

\* Mutation: docker inspect alone decides, whoever started the container.
IsRunningByName(s) == container # "none"

\* DockerSandbox.is_running: started by this object, and docker inspect finds a
\* running container of that name (which another object may have started since).
IsRunning(s) == s \in started /\ container # "none"

-----------------------------------------------------------------------------
(* _exec_command: get_shared_sandbox, then exec *)

\* The record of a call starts with the call.
NewCall(t) ==
  /\ ran' = [ran EXCEPT ![t] = 0]
  /\ undecoded' = undecoded \ {t}

Lookup(t) ==
  /\ pc[t] = "idle"
  /\ registry_lock = None
  /\ sandboxes # None
  /\ held' = [held EXCEPT ![t] = sandboxes]
  /\ NewCall(t)
  /\ Goto(t, "inspect")
  /\ UNCHANGED <<sandboxes, registry_lock, started, lock, container, unowned>>

Unreachable(s) == \A t \in Threads : held[t] # s

\* Which of the unreachable objects is taken is immaterial.
NewSandbox == CHOOSE s \in Sandboxes : Unreachable(s)

\* No sandbox is registered: a candidate is built and started outside the lock.
Construct(t) ==
  /\ pc[t] = "idle"
  /\ registry_lock = None
  /\ sandboxes = None
  /\ \E s \in Sandboxes : Unreachable(s)
  /\ held' = [held EXCEPT ![t] = NewSandbox]
  /\ started' = started \ {NewSandbox}
  /\ lock' = [lock EXCEPT ![NewSandbox] = t]
  /\ NewCall(t)
  /\ Goto(t, "check_new")
  /\ UNCHANGED <<sandboxes, registry_lock, container, unowned>>

\* exec's unlocked look at the container.
Inspect(t) ==
  /\ pc[t] = "inspect"
  /\ Goto(t, IF IsRunning(held[t]) THEN "enter" ELSE "lock")
  /\ UNCHANGED <<objectVars, container, callVars, unowned>>

Lock(t) ==
  /\ pc[t] = "lock"
  /\ lock[held[t]] = None
  /\ lock' = [lock EXCEPT ![held[t]] = t]
  /\ Goto(t, "check_again")
  /\ UNCHANGED <<sandboxes, registry_lock, started, held, container, callVars, unowned>>

AfterStart(t) == IF pc[t] \in {"check_new", "run_new"} THEN "register" ELSE "enter"

\* start() looks again under the object's lock.
Check(t) ==
  /\ pc[t] \in {"check_new", "check_again"}
  /\ IF IsRunning(held[t])
     THEN Release(held[t]) /\ Goto(t, AfterStart(t))
     ELSE /\ Goto(t, IF pc[t] = "check_new" THEN "clear_new" ELSE "clear_again")
          /\ UNCHANGED lock
  /\ UNCHANGED <<sandboxes, registry_lock, started, held, container, callVars, unowned>>

ClearStale(t) ==
  /\ pc[t] \in {"clear_new", "clear_again"}
  /\ GotoAfterAttempt(t, IF pc[t] = "clear_new" THEN "run_new" ELSE "run_again")
  /\ UNCHANGED <<objectVars, callVars, unowned>>

\* Mutation: start() forgets to set _started.
MarkNotStarted(s) == started

MarkStarted(s) == started \cup {s}

\* A sandbox that was taken out of the registry and stopped is started again by a
\* call that still holds it.
Restarted(t) ==
  /\ pc[t] = "run_again"
  /\ held[t] # sandboxes
  /\ \A c \in Closers : held[c] # held[t]

RunContainer(t) ==
  /\ pc[t] \in {"run_new", "run_again"}
  /\ container = "none"
  /\ container' = "current"
  /\ unowned' = IF Restarted(t) THEN {"restart"} ELSE {}
  /\ started' = MarkStarted(held[t])
  /\ Release(held[t])
  /\ Goto(t, AfterStart(t))
  /\ UNCHANGED <<sandboxes, registry_lock, held, callVars>>

\* An exception anywhere in the sandbox: the command runs on the host.
FallBack(t) == held' = [held EXCEPT ![t] = None]

\* docker run fails: the name is taken by the container of another thread, or the
\* daemon refuses for a reason of its own.
RunRefused(t) ==
  /\ pc[t] \in {"run_new", "run_again"}
  /\ Release(held[t])
  /\ FallBack(t)
  /\ Goto(t, "host")
  /\ UNCHANGED <<sandboxes, registry_lock, started, container, callVars, unowned>>

\* The image cannot be built, or a docker command exceeds its timeout inside
\* start(), with or without effect.
StartTimesOut(t) ==
  /\ pc[t] \in Starting
  /\ Release(held[t])
  /\ FallBack(t)
  /\ \/ Goto(t, "host") /\ UNCHANGED <<container, unowned>>
     \/ /\ pc[t] \in {"clear_new", "clear_again"}
        /\ GotoAfterRemoval(t, "host")
        /\ UNCHANGED unowned
     \/ /\ pc[t] \in {"run_new", "run_again"} /\ container = "none"
        /\ container' = "current" /\ unowned' = {"docker"}
        /\ Goto(t, "host")
  /\ UNCHANGED <<sandboxes, registry_lock, started, callVars>>

InspectTimesOut(t) ==
  /\ pc[t] = "inspect"
  /\ FallBack(t)
  /\ Goto(t, "host")
  /\ UNCHANGED <<sandboxes, registry_lock, started, lock, container, callVars, unowned>>

\* setdefault: the first candidate to arrive wins.
Register(t) ==
  /\ pc[t] = "register"
  /\ registry_lock = None
  /\ \/ /\ sandboxes = None
        /\ sandboxes' = held[t]
        /\ Goto(t, "inspect")
        /\ UNCHANGED registry_lock
     \/ /\ sandboxes # None
        /\ registry_lock' = t
        /\ Goto(t, "discard")
        /\ UNCHANGED sandboxes
  /\ UNCHANGED <<started, lock, held, container, callVars, unowned>>

\* The losing candidate is stopped under the registry's lock.  It goes by the same
\* name as the winner.
Discard(t) ==
  /\ pc[t] = "discard"
  /\ GotoAfterAttempt(t, "inspect")
  /\ started' = started \ {held[t]}
  /\ held' = [held EXCEPT ![t] = sandboxes]
  /\ registry_lock' = None
  /\ UNCHANGED <<sandboxes, lock, callVars, unowned>>

DiscardTimesOut(t) ==
  /\ pc[t] = "discard"
  /\ GotoAfterAttempt(t, "host")
  /\ FallBack(t)
  /\ registry_lock' = None
  /\ UNCHANGED <<sandboxes, started, lock, callVars, unowned>>

\* docker exec: without a container it returns an error code, which is a result
\* like any other.
Enter(t) ==
  /\ pc[t] = "enter"
  /\ IF container # "none"
     THEN Goto(t, "running") /\ ran' = [ran EXCEPT ![t] = @ + 1] /\ UNCHANGED held
     ELSE Goto(t, "idle") /\ FallBack(t) /\ UNCHANGED ran
  /\ UNCHANGED <<sandboxes, registry_lock, started, lock, container, undecoded, unowned>>

\* Mutation: a command whose container died is taken for a sandbox error.
AfterKilledOnHost == "host"

AfterKilled == "idle"

\* The command ends or exceeds its timeout, or its container was removed: exec
\* returns a code in each case.
Return(t) ==
  /\ \/ pc[t] = "running" /\ Goto(t, "idle")
     \/ pc[t] = "killed" /\ Goto(t, AfterKilled)
  /\ FallBack(t)
  /\ UNCHANGED <<sandboxes, registry_lock, started, lock, container, callVars, unowned>>

\* What the command printed is not valid text: exec raises after the command has
\* been executed, and _exec_command takes it for a sandbox error.
ReturnUndecodable(t) ==
  /\ pc[t] \in {"running", "killed"}
  /\ undecoded' = undecoded \cup {t}
  /\ FallBack(t)
  /\ Goto(t, "host")
  /\ UNCHANGED <<sandboxes, registry_lock, started, lock, container, ran, unowned>>

RunOnHost(t) ==
  /\ pc[t] = "host"
  /\ ran' = [ran EXCEPT ![t] = @ + 1]
  /\ Goto(t, "idle")
  /\ UNCHANGED <<objectVars, container, undecoded, unowned>>

-----------------------------------------------------------------------------
(* close_shared_sandbox *)

Close(c) ==
  /\ pc[c] = "idle"
  /\ registry_lock = None
  /\ sandboxes # None
  /\ held' = [held EXCEPT ![c] = sandboxes]
  /\ sandboxes' = None
  /\ Goto(c, "stop")
  /\ UNCHANGED <<registry_lock, started, lock, container, callVars, unowned>>

Stop(c) ==
  /\ pc[c] = "stop"
  /\ lock[held[c]] = None
  /\ IF held[c] \in started
     THEN lock' = [lock EXCEPT ![held[c]] = c] /\ Goto(c, "remove") /\ UNCHANGED held
     ELSE Goto(c, "idle") /\ FallBack(c) /\ UNCHANGED lock
  /\ UNCHANGED <<sandboxes, registry_lock, started, container, callVars, unowned>>

\* docker rm -f leaves the container where it is, and this was the last attempt.
LeaveContainer(c) ==
  /\ Goto(c, "idle")
  /\ unowned' = unowned \cup {"docker"}
  /\ UNCHANGED container

StopContainer(c) ==
  /\ \/ GotoAfterRemoval(c, "idle") /\ UNCHANGED unowned
     \/ LeaveContainer(c)
  /\ Release(held[c])
  /\ FallBack(c)

Remove(c) ==
  /\ pc[c] = "remove"
  /\ StopContainer(c)
  /\ started' = started \ {held[c]}
  /\ UNCHANGED <<sandboxes, registry_lock, callVars>>

\* The server swallows the exception.
RemoveTimesOut(c) ==
  /\ pc[c] = "remove"
  /\ StopContainer(c)
  /\ UNCHANGED <<sandboxes, registry_lock, started, callVars>>

\* The process is killed and started again: docker keeps the container.
Crash ==
  /\ sandboxes' = None
  /\ registry_lock' = None
  /\ started' = {}
  /\ lock' = [s \in Sandboxes |-> None]
  /\ held' = [t \in Threads |-> None]
  /\ container' = IF container = "none" THEN "none" ELSE "previous"
  /\ pc' = [t \in Threads |-> "idle"]
  /\ ran' = [t \in Callers |-> 0]
  /\ undecoded' = {}
  /\ UNCHANGED unowned

-----------------------------------------------------------------------------
CallerStep(t) ==
  \/ Lookup(t) \/ Construct(t) \/ Inspect(t) \/ InspectTimesOut(t) \/ Lock(t) \/ Check(t)
  \/ ClearStale(t) \/ RunContainer(t) \/ RunRefused(t) \/ StartTimesOut(t)
  \/ Register(t) \/ Discard(t) \/ DiscardTimesOut(t)
  \/ Enter(t) \/ Return(t) \/ ReturnUndecodable(t) \/ RunOnHost(t)

CloserStep(c) == Close(c) \/ Stop(c) \/ Remove(c) \/ RemoveTimesOut(c)

Next ==
  \/ \E t \in Callers : CallerStep(t)
  \/ \E c \in Closers : CloserStep(c)
  \/ Crash

\* Every docker call carries a timeout, so a thread that can move does; nobody has
\* to run a command or close a session.
Fairness ==
  /\ \A t \in Callers : WF_vars(pc[t] # "idle" /\ CallerStep(t))
  /\ \A c \in Closers : WF_vars(pc[c] # "idle" /\ CloserStep(c))

Spec == Init /\ [][Next]_vars /\ Fairness

-----------------------------------------------------------------------------
(* Properties *)

TypeOK ==
  /\ sandboxes \in Sandboxes \cup {None}
  /\ registry_lock \in Callers \cup {None}
  /\ started \subseteq Sandboxes
  /\ lock \in [Sandboxes -> Threads \cup {None}]
  /\ held \in [Threads -> Sandboxes \cup {None}]
  /\ container \in {"none", "current", "previous"}
  /\ pc \in [Threads -> CallerControl \cup CloserControl]
  /\ \A c \in Closers : pc[c] \in CloserControl
  /\ ran \in [Callers -> Nat]
  /\ undecoded \subseteq Callers
  /\ unowned \subseteq {"docker", "restart"}
  /\ \A t \in Threads, s \in Sandboxes : lock[s] = t => held[t] = s

\* _exec_command falls back to the host on any sandbox error.  A command that has
\* begun to execute in the container is executed again there only when its output
\* could not be decoded, and never a third time.
RepeatExplained ==
  \A t \in Callers : ran[t] <= 1 \/ (ran[t] = 2 /\ t \in undecoded)

\* A container left over from a crash is cleared before a command enters it.
NoStaleContainer == \A t \in Callers : pc[t] = "running" => container = "current"

\* A container of this process that nobody works with and nobody will stop.
Abandoned ==
  /\ container = "current"
  /\ sandboxes = None
  /\ \A t \in Threads : pc[t] = "idle"

\* close_shared_sandbox: the container goes away with its session, however calls
\* and closers interleave, unless docker failed to remove it or did not answer in
\* time, or a call that outlasted the session started it again.
OrphansExplained == Abandoned => unowned # {}

\* A lock held across docker calls is always given back, by every exit of the code
\* that holds it.
LocksReleased ==
  /\ registry_lock # None ~> registry_lock = None
  /\ \A s \in Sandboxes : lock[s] # None ~> lock[s] = None

\* docker_sandbox.py on its design and on get_shared_sandbox: one persistent
\* container per repo_root, reused across calls and stopped when the session ends.
\* Nothing else takes the container away from a command that is running in it.
StoppedWithSession ==
  [][\A t \in Callers :
       pc[t] = "running" /\ pc'[t] = "killed"
         => \E c \in Closers : pc[c] = "remove"]_vars

==============================================================================
