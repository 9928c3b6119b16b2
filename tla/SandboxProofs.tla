--------------------------- MODULE SandboxProofs ---------------------------
(***************************************************************************)
(* Theorems about module SandboxRegistry, for any number of threads and of *)
(* sandbox objects.                                                        *)
(***************************************************************************)
EXTENDS SandboxRegistry, TLAPS

\* Where a call stands decides how often its command has begun to execute; it comes
\* to the host a second time only when its output could not be decoded.
RanOften(where, n, again) ==
  /\ n \in {0, 1, 2}
  /\ where \in {"running", "killed"} => n = 1
  /\ where = "host" => n = 0 \/ (n = 1 /\ again)
  /\ where \notin {"idle", "running", "killed", "host"} => n = 0
  /\ n = 2 => again

Executed ==
  /\ \A t \in Callers : RanOften(pc[t], ran[t], t \in undecoded)
  /\ undecoded \subseteq Callers

\* A container of an earlier process is gone before this process has started one.
Cleared ==
  /\ container = "previous" => started = {}
  /\ \A t \in Callers : pc[t] = "running" => container = "current"
  /\ \A t \in Callers : pc[t] = "enter" => container # "previous"
  /\ container \in {"none", "current", "previous"}

Control ==
  /\ pc \in [Threads -> CallerControl \cup CloserControl]
  /\ \A t \in Callers : pc[t] \in CallerControl
  /\ \A c \in Closers : pc[c] \in CloserControl
  /\ ran \in [Callers -> Nat]

Objects ==
  /\ sandboxes \in Sandboxes \cup {None}
  /\ registry_lock \in Callers \cup {None}
  /\ started \subseteq Sandboxes
  /\ lock \in [Sandboxes -> Threads \cup {None}]
  /\ held \in [Threads -> Sandboxes \cup {None}]
  /\ unowned \subseteq {"docker", "restart"}

\* A thread works with an object of its own choice until it is through with it, and
\* has the lock of that object exactly while it starts or removes its container.
Holding ==
  /\ \A t \in Threads : held[t] = None <=> pc[t] \in {"idle", "host"}
  /\ \A t \in Threads, s \in Sandboxes :
       lock[s] = t <=> held[t] = s /\ pc[t] \in Starting \cup {"remove"}
  /\ \A t \in Callers : registry_lock = t <=> pc[t] = "discard"

Candidacy == {"check_new", "clear_new", "run_new", "register", "discard"}

\* A candidate is its caller's alone, and what a closer has taken out of the
\* registry does not come back to it.
Exclusive ==
  /\ \A t \in Callers : pc[t] \in Candidacy =>
       held[t] # sandboxes /\ \A u \in Threads : u # t => held[u] # held[t]
  /\ \A c \in Closers : pc[c] # "idle" =>
       held[c] # sandboxes /\ \A d \in Closers : d # c => held[d] # held[c]

\* What is or may become the registered object has been started.
Registered ==
  /\ sandboxes # None => sandboxes \in started
  /\ \A t \in Callers : pc[t] = "register" => held[t] \in started
  /\ \A t \in Callers : pc[t] = "discard" => sandboxes # None
  /\ \A c \in Closers : pc[c] # "idle" => held[c] \in started

\* Who will take the container away, or leave it registered.
Answerable ==
  \/ sandboxes # None
  \/ \E t \in Callers : pc[t] = "register"
  \/ \E c \in Closers : pc[c] # "idle"

\* Unless docker or a restart by a call took its owner away, someone answers for
\* the container.
Accounted == container = "current" /\ unowned = {} => Answerable

\* What a command sees, and what becomes of the objects and of the container.
Commands == Control /\ Executed /\ Cleared
Lifetimes == Objects /\ Holding /\ Exclusive /\ Registered /\ Accounted

IInv == Commands /\ Lifetimes

-----------------------------------------------------------------------------
\* The registry starts empty and no command has been run.
LEMMA InitCommands == Init => Commands
BY SandboxAssumption
   DEF Init, RanOften, Commands, Control, Executed, Cleared, CallerControl, CloserControl,
       Starting, Threads

\* The steps of a call.
LEMMA CallerCommands ==
  ASSUME Commands, NEW t \in Callers, CallerStep(t)
  PROVE  Commands'
<1> USE SandboxAssumption DEF Commands, Control, Executed, Cleared, CallerControl, CloserControl,
        Starting, Threads, Goto, callVars
<1>1. CASE Lookup(t)
  BY <1>1 DEF Lookup, NewCall, RanOften
<1>2. CASE Construct(t)
  BY <1>2 DEF Construct, NewCall, RanOften
<1>3. CASE Inspect(t)
  BY <1>3 DEF RanOften, Inspect, IsRunning, objectVars
<1>4. CASE InspectTimesOut(t)
  BY <1>4 DEF RanOften, InspectTimesOut
<1>5. CASE Lock(t)
  BY <1>5 DEF RanOften, Lock
<1>6. CASE Check(t)
  BY <1>6 DEF RanOften, Check, IsRunning, AfterStart
<1>7. CASE ClearStale(t)
  BY <1>7 DEF RanOften, ClearStale, GotoAfterAttempt, GotoAfterRemoval, objectVars
<1>8. CASE RunContainer(t)
  BY <1>8 DEF RanOften, RunContainer, AfterStart
<1>9. CASE RunRefused(t)
  BY <1>9 DEF RanOften, RunRefused
<1>10. CASE StartTimesOut(t)
  BY <1>10 DEF RanOften, StartTimesOut, GotoAfterAttempt, GotoAfterRemoval
<1>11. CASE Register(t)
  BY <1>11 DEF RanOften, Register
<1>12. CASE Discard(t)
  BY <1>12 DEF RanOften, Discard, GotoAfterAttempt, GotoAfterRemoval
<1>13. CASE DiscardTimesOut(t)
  BY <1>13 DEF RanOften, DiscardTimesOut, GotoAfterAttempt, GotoAfterRemoval
<1>14. CASE Enter(t)
  BY <1>14 DEF Enter, RanOften
<1>15. CASE Return(t)
  BY <1>15 DEF RanOften, Return, AfterKilled
<1>16. CASE ReturnUndecodable(t)
  BY <1>16 DEF RanOften, ReturnUndecodable
<1>17. CASE RunOnHost(t)
  BY <1>17 DEF RanOften, RunOnHost, objectVars
<1> QED
  BY <1>1, <1>2, <1>3, <1>4, <1>5, <1>6, <1>7, <1>8, <1>9, <1>10, <1>11, <1>12, <1>13,
     <1>14, <1>15, <1>16, <1>17 DEF CallerStep

\* The steps of a thread that closes the session.
LEMMA CloserCommands ==
  ASSUME Commands, NEW c \in Closers, CloserStep(c)
  PROVE  Commands'
<1> USE SandboxAssumption DEF Commands, Control, Executed, Cleared, CallerControl, CloserControl,
        Starting, Threads, Goto, callVars
<1>1. CASE Close(c)
  BY <1>1 DEF Close
<1>2. CASE Stop(c)
  BY <1>2 DEF Stop
<1>3. CASE Remove(c)
  BY <1>3 DEF RanOften, Remove, StopContainer, LeaveContainer, GotoAfterRemoval, Release, FallBack
<1>4. CASE RemoveTimesOut(c)
  BY <1>4 DEF RanOften, RemoveTimesOut, StopContainer, LeaveContainer, GotoAfterRemoval
<1> QED
  BY <1>1, <1>2, <1>3, <1>4 DEF CloserStep

\* Whatever a thread does, and whenever the process crashes.
LEMMA NextCommands == Commands /\ [Next]_vars => Commands'
<1> SUFFICES ASSUME Commands, [Next]_vars
             PROVE  Commands'
  OBVIOUS
<1>1. CASE \E t \in Callers : CallerStep(t)
  BY <1>1, CallerCommands
<1>2. CASE \E c \in Closers : CloserStep(c)
  BY <1>2, CloserCommands
<1>3. CASE Crash
  BY <1>3 DEF Crash, RanOften, Commands, Control, Executed, Cleared, CallerControl, CloserControl,
              Starting, Threads
<1>4. CASE UNCHANGED vars
  <2>1. /\ pc' = pc /\ ran' = ran /\ undecoded' = undecoded
        /\ started' = started /\ container' = container
    BY <1>4 DEF vars, objectVars, callVars
  <2> QED
    BY <2>1 DEF Commands, Control, Executed, Cleared, RanOften, CallerControl, CloserControl,
                Starting, Threads
<1> QED
  BY <1>1, <1>2, <1>3, <1>4 DEF Next

-----------------------------------------------------------------------------
\* Construct takes an object that nobody works with.
LEMMA FreshSandbox ==
  ASSUME \E s \in Sandboxes : Unreachable(s)
  PROVE  NewSandbox \in Sandboxes /\ Unreachable(NewSandbox)
BY DEF NewSandbox

\* The variables keep to their types.
LEMMA ObjectsStep ==
  ASSUME IInv, [Next]_vars
  PROVE  Objects'
<1> USE SandboxAssumption DEF IInv, Commands, Lifetimes, Control, Threads, Goto, Release,
     FallBack, objectVars, callVars, vars, CallerControl, CloserControl, Starting, Objects, Holding,
     Registered
<1>1. ASSUME NEW t \in Callers, Lookup(t)
      PROVE  Objects'
  BY <1>1 DEF Lookup, NewCall
<1>2. ASSUME NEW t \in Callers, Construct(t)
      PROVE  Objects'
  BY <1>2, FreshSandbox DEF Construct, NewCall
<1>3. ASSUME NEW t \in Callers, Inspect(t)
      PROVE  Objects'
  BY <1>3 DEF Inspect, IsRunning
<1>4. ASSUME NEW t \in Callers, InspectTimesOut(t)
      PROVE  Objects'
  BY <1>4 DEF InspectTimesOut
<1>5. ASSUME NEW t \in Callers, Lock(t)
      PROVE  Objects'
  BY <1>5 DEF Lock
<1>6. ASSUME NEW t \in Callers, Check(t)
      PROVE  Objects'
  BY <1>6 DEF Check, AfterStart, IsRunning
<1>7. ASSUME NEW t \in Callers, ClearStale(t)
      PROVE  Objects'
  BY <1>7 DEF ClearStale, GotoAfterAttempt, GotoAfterRemoval
<1>8. ASSUME NEW t \in Callers, RunContainer(t)
      PROVE  Objects'
  BY <1>8 DEF RunContainer, AfterStart, MarkStarted
<1>9. ASSUME NEW t \in Callers, RunRefused(t)
      PROVE  Objects'
  BY <1>9 DEF RunRefused
<1>10. ASSUME NEW t \in Callers, StartTimesOut(t)
      PROVE  Objects'
  BY <1>10 DEF StartTimesOut, GotoAfterAttempt, GotoAfterRemoval
<1>11. ASSUME NEW t \in Callers, Register(t)
      PROVE  Objects'
  BY <1>11 DEF Register
<1>12. ASSUME NEW t \in Callers, Discard(t)
      PROVE  Objects'
  BY <1>12 DEF Discard, GotoAfterAttempt, GotoAfterRemoval
<1>13. ASSUME NEW t \in Callers, DiscardTimesOut(t)
      PROVE  Objects'
  BY <1>13 DEF DiscardTimesOut, GotoAfterAttempt, GotoAfterRemoval
<1>14. ASSUME NEW t \in Callers, Enter(t)
      PROVE  Objects'
  BY <1>14 DEF Enter
<1>15. ASSUME NEW t \in Callers, Return(t)
      PROVE  Objects'
  BY <1>15 DEF Return, AfterKilled
<1>16. ASSUME NEW t \in Callers, RunOnHost(t)
      PROVE  Objects'
  BY <1>16 DEF RunOnHost
<1>17. ASSUME NEW c \in Closers, Close(c)
      PROVE  Objects'
  BY <1>17 DEF Close
<1>18. ASSUME NEW c \in Closers, Stop(c)
      PROVE  Objects'
  BY <1>18 DEF Stop
<1>19. ASSUME NEW c \in Closers, Remove(c)
      PROVE  Objects'
  BY <1>19 DEF Remove, StopContainer, LeaveContainer, GotoAfterRemoval
<1>20. ASSUME NEW c \in Closers, RemoveTimesOut(c)
      PROVE  Objects'
  BY <1>20 DEF RemoveTimesOut, StopContainer, LeaveContainer, GotoAfterRemoval
<1>21. CASE Crash
  BY <1>21 DEF Crash
<1>22. CASE UNCHANGED vars
  BY <1>22
<1>23. ASSUME NEW t \in Callers, ReturnUndecodable(t)
      PROVE  Objects'
  BY <1>23 DEF ReturnUndecodable
<1> QED
  BY <1>1, <1>2, <1>3, <1>4, <1>5, <1>6, <1>7, <1>8, <1>9, <1>10, <1>11, <1>12, <1>13,
       <1>14, <1>15, <1>16, <1>17, <1>18, <1>19, <1>20, <1>21, <1>22, <1>23 DEF Next, CallerStep,
       CloserStep, Threads

\* Who holds an object, who its lock and who the lock of the registry.
LEMMA HoldingStep ==
  ASSUME IInv, [Next]_vars
  PROVE  Holding'
<1> USE SandboxAssumption DEF IInv, Commands, Lifetimes, Control, Threads, Goto, Release,
     FallBack, objectVars, callVars, vars, CallerControl, CloserControl, Starting, Objects, Holding,
     Registered, Unreachable
<1>1. ASSUME NEW t \in Callers, Lookup(t)
      PROVE  Holding'
  BY <1>1 DEF Lookup, NewCall
<1>2. ASSUME NEW t \in Callers, Construct(t)
      PROVE  Holding'
  BY <1>2, FreshSandbox DEF Construct, NewCall
<1>3. ASSUME NEW t \in Callers, Inspect(t)
      PROVE  Holding'
  BY <1>3 DEF Inspect, IsRunning
<1>4. ASSUME NEW t \in Callers, InspectTimesOut(t)
      PROVE  Holding'
  BY <1>4 DEF InspectTimesOut
<1>5. ASSUME NEW t \in Callers, Lock(t)
      PROVE  Holding'
  BY <1>5 DEF Lock
<1>6. ASSUME NEW t \in Callers, Check(t)
      PROVE  Holding'
  BY <1>6 DEF Check, AfterStart, IsRunning
<1>7. ASSUME NEW t \in Callers, ClearStale(t)
      PROVE  Holding'
  BY <1>7 DEF ClearStale, GotoAfterAttempt, GotoAfterRemoval
<1>8. ASSUME NEW t \in Callers, RunContainer(t)
      PROVE  Holding'
  BY <1>8 DEF RunContainer, AfterStart, MarkStarted
<1>9. ASSUME NEW t \in Callers, RunRefused(t)
      PROVE  Holding'
  BY <1>9 DEF RunRefused
<1>10. ASSUME NEW t \in Callers, StartTimesOut(t)
      PROVE  Holding'
  BY <1>10 DEF StartTimesOut, GotoAfterAttempt, GotoAfterRemoval
<1>11. ASSUME NEW t \in Callers, Register(t)
      PROVE  Holding'
  BY <1>11 DEF Register
<1>12. ASSUME NEW t \in Callers, Discard(t)
      PROVE  Holding'
  BY <1>12 DEF Discard, GotoAfterAttempt, GotoAfterRemoval
<1>13. ASSUME NEW t \in Callers, DiscardTimesOut(t)
      PROVE  Holding'
  BY <1>13 DEF DiscardTimesOut, GotoAfterAttempt, GotoAfterRemoval
<1>14. ASSUME NEW t \in Callers, Enter(t)
      PROVE  Holding'
  BY <1>14 DEF Enter
<1>15. ASSUME NEW t \in Callers, Return(t)
      PROVE  Holding'
  BY <1>15 DEF Return, AfterKilled
<1>16. ASSUME NEW t \in Callers, RunOnHost(t)
      PROVE  Holding'
  BY <1>16 DEF RunOnHost
<1>17. ASSUME NEW c \in Closers, Close(c)
      PROVE  Holding'
  BY <1>17 DEF Close
<1>18. ASSUME NEW c \in Closers, Stop(c)
      PROVE  Holding'
  BY <1>18 DEF Stop
<1>19. ASSUME NEW c \in Closers, Remove(c)
      PROVE  Holding'
  BY <1>19 DEF Remove, StopContainer, LeaveContainer, GotoAfterRemoval
<1>20. ASSUME NEW c \in Closers, RemoveTimesOut(c)
      PROVE  Holding'
  BY <1>20 DEF RemoveTimesOut, StopContainer, LeaveContainer, GotoAfterRemoval
<1>21. CASE Crash
  BY <1>21 DEF Crash
<1>22. CASE UNCHANGED vars
  BY <1>22
<1>23. ASSUME NEW t \in Callers, ReturnUndecodable(t)
      PROVE  Holding'
  BY <1>23 DEF ReturnUndecodable
<1> QED
  BY <1>1, <1>2, <1>3, <1>4, <1>5, <1>6, <1>7, <1>8, <1>9, <1>10, <1>11, <1>12, <1>13,
       <1>14, <1>15, <1>16, <1>17, <1>18, <1>19, <1>20, <1>21, <1>22, <1>23 DEF Next, CallerStep,
       CloserStep, Threads

\* Candidates, and objects on their way out, are nobody else's.
LEMMA ExclusiveStep ==
  ASSUME IInv, [Next]_vars
  PROVE  Exclusive'
<1> USE SandboxAssumption DEF IInv, Commands, Lifetimes, Control, Threads, Goto, Release,
     FallBack, objectVars, callVars, vars, CallerControl, CloserControl, Starting, Objects, Holding,
     Exclusive, Candidacy, Unreachable
<1>1. ASSUME NEW t \in Callers, Lookup(t)
      PROVE  Exclusive'
  BY <1>1 DEF Lookup, NewCall
<1>2. ASSUME NEW t \in Callers, Construct(t)
      PROVE  Exclusive'
  BY <1>2, FreshSandbox DEF Construct, NewCall
<1>3. ASSUME NEW t \in Callers, Inspect(t)
      PROVE  Exclusive'
  BY <1>3 DEF Inspect, IsRunning
<1>4. ASSUME NEW t \in Callers, InspectTimesOut(t)
      PROVE  Exclusive'
  BY <1>4 DEF InspectTimesOut
<1>5. ASSUME NEW t \in Callers, Lock(t)
      PROVE  Exclusive'
  BY <1>5 DEF Lock
<1>6. ASSUME NEW t \in Callers, Check(t)
      PROVE  Exclusive'
  BY <1>6 DEF Check, AfterStart, IsRunning
<1>7. ASSUME NEW t \in Callers, ClearStale(t)
      PROVE  Exclusive'
  BY <1>7 DEF ClearStale, GotoAfterAttempt, GotoAfterRemoval
<1>8. ASSUME NEW t \in Callers, RunContainer(t)
      PROVE  Exclusive'
  BY <1>8 DEF RunContainer, AfterStart, MarkStarted
<1>9. ASSUME NEW t \in Callers, RunRefused(t)
      PROVE  Exclusive'
  BY <1>9 DEF RunRefused
<1>10. ASSUME NEW t \in Callers, StartTimesOut(t)
      PROVE  Exclusive'
  BY <1>10 DEF StartTimesOut, GotoAfterAttempt, GotoAfterRemoval
<1>11. ASSUME NEW t \in Callers, Register(t)
      PROVE  Exclusive'
  BY <1>11 DEF Register
<1>12. ASSUME NEW t \in Callers, Discard(t)
      PROVE  Exclusive'
  BY <1>12 DEF Discard, GotoAfterAttempt, GotoAfterRemoval
<1>13. ASSUME NEW t \in Callers, DiscardTimesOut(t)
      PROVE  Exclusive'
  BY <1>13 DEF DiscardTimesOut, GotoAfterAttempt, GotoAfterRemoval
<1>14. ASSUME NEW t \in Callers, Enter(t)
      PROVE  Exclusive'
  BY <1>14 DEF Enter
<1>15. ASSUME NEW t \in Callers, Return(t)
      PROVE  Exclusive'
  BY <1>15 DEF Return, AfterKilled
<1>16. ASSUME NEW t \in Callers, RunOnHost(t)
      PROVE  Exclusive'
  BY <1>16 DEF RunOnHost
<1>17. ASSUME NEW c \in Closers, Close(c)
      PROVE  Exclusive'
  BY <1>17 DEF Close
<1>18. ASSUME NEW c \in Closers, Stop(c)
      PROVE  Exclusive'
  BY <1>18 DEF Stop
<1>19. ASSUME NEW c \in Closers, Remove(c)
      PROVE  Exclusive'
  BY <1>19 DEF Remove, StopContainer, LeaveContainer, GotoAfterRemoval
<1>20. ASSUME NEW c \in Closers, RemoveTimesOut(c)
      PROVE  Exclusive'
  BY <1>20 DEF RemoveTimesOut, StopContainer, LeaveContainer, GotoAfterRemoval
<1>21. CASE Crash
  BY <1>21 DEF Crash
<1>22. CASE UNCHANGED vars
  BY <1>22
<1>23. ASSUME NEW t \in Callers, ReturnUndecodable(t)
      PROVE  Exclusive'
  BY <1>23 DEF ReturnUndecodable
<1> QED
  BY <1>1, <1>2, <1>3, <1>4, <1>5, <1>6, <1>7, <1>8, <1>9, <1>10, <1>11, <1>12, <1>13,
       <1>14, <1>15, <1>16, <1>17, <1>18, <1>19, <1>20, <1>21, <1>22, <1>23 DEF Next, CallerStep,
       CloserStep, Threads

\* What is registered stays started as long as it is registered.
LEMMA RegisteredStep ==
  ASSUME IInv, [Next]_vars
  PROVE  Registered'
<1> USE SandboxAssumption DEF IInv, Commands, Lifetimes, Control, Threads, Goto, Release,
     FallBack, objectVars, callVars, vars, CallerControl, CloserControl, Starting, Objects, Holding,
     Exclusive, Registered, Candidacy, Unreachable
<1>1. ASSUME NEW t \in Callers, Lookup(t)
      PROVE  Registered'
  BY <1>1 DEF Lookup, NewCall
<1>2. ASSUME NEW t \in Callers, Construct(t)
      PROVE  Registered'
  BY <1>2, FreshSandbox DEF Construct, NewCall
<1>3. ASSUME NEW t \in Callers, Inspect(t)
      PROVE  Registered'
  BY <1>3 DEF Inspect, IsRunning
<1>4. ASSUME NEW t \in Callers, InspectTimesOut(t)
      PROVE  Registered'
  BY <1>4 DEF InspectTimesOut
<1>5. ASSUME NEW t \in Callers, Lock(t)
      PROVE  Registered'
  BY <1>5 DEF Lock
<1>6. ASSUME NEW t \in Callers, Check(t)
      PROVE  Registered'
  BY <1>6 DEF Check, AfterStart, IsRunning
<1>7. ASSUME NEW t \in Callers, ClearStale(t)
      PROVE  Registered'
  BY <1>7 DEF ClearStale, GotoAfterAttempt, GotoAfterRemoval
<1>8. ASSUME NEW t \in Callers, RunContainer(t)
      PROVE  Registered'
  BY <1>8 DEF RunContainer, AfterStart, MarkStarted
<1>9. ASSUME NEW t \in Callers, RunRefused(t)
      PROVE  Registered'
  BY <1>9 DEF RunRefused
<1>10. ASSUME NEW t \in Callers, StartTimesOut(t)
      PROVE  Registered'
  BY <1>10 DEF StartTimesOut, GotoAfterAttempt, GotoAfterRemoval
<1>11. ASSUME NEW t \in Callers, Register(t)
      PROVE  Registered'
  BY <1>11 DEF Register
<1>12. ASSUME NEW t \in Callers, Discard(t)
      PROVE  Registered'
  BY <1>12 DEF Discard, GotoAfterAttempt, GotoAfterRemoval
<1>13. ASSUME NEW t \in Callers, DiscardTimesOut(t)
      PROVE  Registered'
  BY <1>13 DEF DiscardTimesOut, GotoAfterAttempt, GotoAfterRemoval
<1>14. ASSUME NEW t \in Callers, Enter(t)
      PROVE  Registered'
  BY <1>14 DEF Enter
<1>15. ASSUME NEW t \in Callers, Return(t)
      PROVE  Registered'
  BY <1>15 DEF Return, AfterKilled
<1>16. ASSUME NEW t \in Callers, RunOnHost(t)
      PROVE  Registered'
  BY <1>16 DEF RunOnHost
<1>17. ASSUME NEW c \in Closers, Close(c)
      PROVE  Registered'
  BY <1>17 DEF Close
<1>18. ASSUME NEW c \in Closers, Stop(c)
      PROVE  Registered'
  BY <1>18 DEF Stop
<1>19. ASSUME NEW c \in Closers, Remove(c)
      PROVE  Registered'
  BY <1>19 DEF Remove, StopContainer, LeaveContainer, GotoAfterRemoval
<1>20. ASSUME NEW c \in Closers, RemoveTimesOut(c)
      PROVE  Registered'
  BY <1>20 DEF RemoveTimesOut, StopContainer, LeaveContainer, GotoAfterRemoval
<1>21. CASE Crash
  BY <1>21 DEF Crash
<1>22. CASE UNCHANGED vars
  BY <1>22
<1>23. ASSUME NEW t \in Callers, ReturnUndecodable(t)
      PROVE  Registered'
  BY <1>23 DEF ReturnUndecodable
<1> QED
  BY <1>1, <1>2, <1>3, <1>4, <1>5, <1>6, <1>7, <1>8, <1>9, <1>10, <1>11, <1>12, <1>13,
       <1>14, <1>15, <1>16, <1>17, <1>18, <1>19, <1>20, <1>21, <1>22, <1>23 DEF Next, CallerStep,
       CloserStep, Threads

\* Each step that leaves a container running leaves someone to answer for it.
LEMMA AccountedStep ==
  ASSUME IInv, [Next]_vars
  PROVE  Accounted'
<1> USE SandboxAssumption DEF IInv, Commands, Lifetimes, Control, Threads, Goto, Release,
     FallBack, objectVars, callVars, vars, CallerControl, CloserControl, Starting, Objects, Holding,
     Exclusive, Registered, Accounted, Answerable, Candidacy, Unreachable
<1>1. ASSUME NEW t \in Callers, Lookup(t)
      PROVE  Accounted'
  BY <1>1 DEF Lookup, NewCall
<1>2. ASSUME NEW t \in Callers, Construct(t)
      PROVE  Accounted'
  BY <1>2, FreshSandbox DEF Construct, NewCall
<1>3. ASSUME NEW t \in Callers, Inspect(t)
      PROVE  Accounted'
  BY <1>3 DEF Inspect, IsRunning
<1>4. ASSUME NEW t \in Callers, InspectTimesOut(t)
      PROVE  Accounted'
  BY <1>4 DEF InspectTimesOut
<1>5. ASSUME NEW t \in Callers, Lock(t)
      PROVE  Accounted'
  BY <1>5 DEF Lock
<1>6. ASSUME NEW t \in Callers, Check(t)
      PROVE  Accounted'
  BY <1>6 DEF Check, AfterStart, IsRunning
<1>7. ASSUME NEW t \in Callers, ClearStale(t)
      PROVE  Accounted'
  BY <1>7 DEF ClearStale, GotoAfterAttempt, GotoAfterRemoval
<1>8. ASSUME NEW t \in Callers, RunContainer(t)
      PROVE  Accounted'
  <2>1. /\ pc' = [pc EXCEPT ![t] = AfterStart(t)]
        /\ unowned' = IF Restarted(t) THEN {"restart"} ELSE {}
        /\ sandboxes' = sandboxes
    BY <1>8 DEF RunContainer
  <2>2. CASE pc[t] = "run_new"
    <3>1. pc'[t] = "register"
      BY <2>1, <2>2 DEF AfterStart
    <3> QED
      BY <3>1
  <2>3. CASE pc[t] = "run_again" /\ held[t] = sandboxes
    <3>1. sandboxes' # None
      BY <2>1, <2>3
    <3> QED
      BY <3>1
  <2>4. CASE \E c \in Closers : held[c] = held[t] /\ pc[t] = "run_again"
    <3>1. PICK c \in Closers : held[c] = held[t] /\ pc[t] = "run_again"
      BY <2>4
    <3>2. pc[c] # "idle" /\ pc'[c] = pc[c]
      BY <2>1, <3>1
    <3> QED
      BY <3>2
  <2>5. CASE Restarted(t)
    <3>1. unowned' # {}
      BY <2>1, <2>5
    <3> QED
      BY <3>1
  <2> QED
    BY <1>8, <2>2, <2>3, <2>4, <2>5 DEF RunContainer, Restarted
<1>9. ASSUME NEW t \in Callers, RunRefused(t)
      PROVE  Accounted'
  BY <1>9 DEF RunRefused
<1>10. ASSUME NEW t \in Callers, StartTimesOut(t)
      PROVE  Accounted'
  BY <1>10 DEF StartTimesOut, GotoAfterAttempt, GotoAfterRemoval
<1>11. ASSUME NEW t \in Callers, Register(t)
      PROVE  Accounted'
  BY <1>11 DEF Register
<1>12. ASSUME NEW t \in Callers, Discard(t)
      PROVE  Accounted'
  BY <1>12 DEF Discard, GotoAfterAttempt, GotoAfterRemoval
<1>13. ASSUME NEW t \in Callers, DiscardTimesOut(t)
      PROVE  Accounted'
  BY <1>13 DEF DiscardTimesOut, GotoAfterAttempt, GotoAfterRemoval
<1>14. ASSUME NEW t \in Callers, Enter(t)
      PROVE  Accounted'
  BY <1>14 DEF Enter
<1>15. ASSUME NEW t \in Callers, Return(t)
      PROVE  Accounted'
  BY <1>15 DEF Return, AfterKilled
<1>16. ASSUME NEW t \in Callers, RunOnHost(t)
      PROVE  Accounted'
  BY <1>16 DEF RunOnHost
<1>17. ASSUME NEW c \in Closers, Close(c)
      PROVE  Accounted'
  BY <1>17 DEF Close
<1>18. ASSUME NEW c \in Closers, Stop(c)
      PROVE  Accounted'
  BY <1>18 DEF Stop
<1>19. ASSUME NEW c \in Closers, Remove(c)
      PROVE  Accounted'
  BY <1>19 DEF Remove, StopContainer, LeaveContainer, GotoAfterRemoval
<1>20. ASSUME NEW c \in Closers, RemoveTimesOut(c)
      PROVE  Accounted'
  BY <1>20 DEF RemoveTimesOut, StopContainer, LeaveContainer, GotoAfterRemoval
<1>21. CASE Crash
  BY <1>21 DEF Crash
<1>22. CASE UNCHANGED vars
  BY <1>22
<1>23. ASSUME NEW t \in Callers, ReturnUndecodable(t)
      PROVE  Accounted'
  BY <1>23 DEF ReturnUndecodable
<1> QED
  BY <1>1, <1>2, <1>3, <1>4, <1>5, <1>6, <1>7, <1>8, <1>9, <1>10, <1>11, <1>12, <1>13,
       <1>14, <1>15, <1>16, <1>17, <1>18, <1>19, <1>20, <1>21, <1>22, <1>23 DEF Next, CallerStep,
       CloserStep, Threads

\* An empty registry: nothing is held, and there is nothing to answer for.
LEMMA InitIInv == Init => IInv
<1> SUFFICES ASSUME Init
             PROVE  IInv
  OBVIOUS
<1>1. Objects /\ Holding /\ Exclusive /\ Registered
  BY SandboxAssumption
     DEF Init, Objects, Holding, Exclusive, Registered, Threads, Starting, Candidacy
<1>2. Accounted
  BY SandboxAssumption DEF Init, Accounted, Candidacy, Threads
<1> QED
  BY <1>1, <1>2, InitCommands DEF IInv, Lifetimes

\* Every step keeps every part.
LEMMA NextIInv == IInv /\ [Next]_vars => IInv'
<1> SUFFICES ASSUME IInv, [Next]_vars
             PROVE  IInv'
  OBVIOUS
<1>1. Commands'
  BY NextCommands DEF IInv
<1>2. Lifetimes'
  BY ObjectsStep, HoldingStep, ExclusiveStep, RegisteredStep, AccountedStep DEF Lifetimes
<1> QED
  BY <1>1, <1>2 DEF IInv

-----------------------------------------------------------------------------
\* Every part of the invariant holds in every reachable state.
THEOREM SandboxInvariant == Spec => []IInv
BY InitIInv, NextIInv, PTL DEF Spec

\* The objects, locks and threads keep to their types, and a thread that has the
\* lock of an object works with that object.
THEOREM SandboxTypes == Spec => []TypeOK
<1>1. IInv => TypeOK
  BY DEF IInv, Commands, Lifetimes, Control, Cleared, Executed, Objects, Holding, TypeOK
<1> QED
  BY <1>1, SandboxInvariant, PTL

\* _exec_command: a command that has begun to execute in a container is executed
\* again on the host only when its output could not be decoded, and then once.
THEOREM RepeatsExplained == Spec => []RepeatExplained
<1>1. ASSUME IInv, NEW t \in Callers
      PROVE  ran[t] <= 1 \/ (ran[t] = 2 /\ t \in undecoded)
  <2>1. ran[t] = 0 \/ ran[t] = 1 \/ (ran[t] = 2 /\ t \in undecoded)
    BY <1>1 DEF IInv, Commands, Executed, RanOften
  <2> QED
    BY <2>1
<1> QED
  <2>1. IInv => RepeatExplained
    BY <1>1 DEF RepeatExplained
  <2> QED
    BY <2>1, SandboxInvariant, PTL

\* start(): no command enters a container that an earlier process left behind.
THEOREM NeverStale == Spec => []NoStaleContainer
<1>1. IInv => NoStaleContainer
  BY DEF IInv, Commands, Cleared, NoStaleContainer
<1> QED
  BY <1>1, SandboxInvariant, PTL

\* close_shared_sandbox: a container survives its session only when docker failed to
\* remove it or did not answer in time, or when a call that outlasted the session
\* started it again.  Otherwise the registry, a candidate's caller or a closer
\* answers for it, however many of them interleave.
THEOREM OrphansAccounted == Spec => []OrphansExplained
<1>1. IInv => OrphansExplained
  BY SandboxAssumption
     DEF IInv, Commands, Lifetimes, Control, Objects, Accounted, Answerable,
         OrphansExplained, Abandoned, Threads
<1> QED
  BY <1>1, SandboxInvariant, PTL

=============================================================================
