------------------------------ MODULE McpProofs ------------------------------
(***************************************************************************)
(* Theorems about module McpRegistry, for any number of threads and of     *)
(* client objects.                                                         *)
(*                                                                         *)
(* The invariant says who owns a client.  Until it is published a client   *)
(* belongs to the thread that built it and to nobody else; the thread that *)
(* took a client out of the cache is the one that stops it; and what is    *)
(* stopped was closed.                                                     *)
(***************************************************************************)
EXTENDS McpRegistry, TLAPS

Control == pc \in [Threads -> CallerControl \cup CloserControl]

Building == {"connecting", "publish", "discard"}

\* A client that is not published, or has lost, is in the hands of one thread.
Owned ==
  \A t \in Callers : pc[t] \in Building =>
    /\ held[t] # None
    /\ held[t] # shared
    /\ \A u \in Threads : held[u] = held[t] => u = t

\* Who waits for a handshake, and who waits to publish, has an untouched client.
Handshake ==
  /\ \A t \in Callers : pc[t] = "connecting" =>
       /\ held[t] \notin closed
       /\ IF held[t] \in ready
          THEN IF held[t] \in failed THEN server[held[t]] = "none" ELSE Session(held[t])
          ELSE server[held[t]] = "opening" /\ held[t] \notin failed
       /\ held[t] \in thread
  /\ \A t \in Callers : pc[t] = "publish" =>
       /\ held[t] \in ready \ (failed \cup closed)
       /\ Session(held[t])
       /\ held[t] \in thread

\* The lock is held across a step by the thread that closes its losing candidate.
Locking ==
  /\ lock # None => pc[lock] = "discard"
  /\ \A t \in Callers : pc[t] = "discard" => lock = t /\ shared # None

\* A closer works on a client that is no longer cached, and does not find it without its
\* thread before it was closed.
Evicted ==
  \A t \in Closers : pc[t] # "idle" =>
    /\ held[t] # None
    /\ held[t] # shared
    /\ pc[t] = "close" => held[t] \in thread \cup closed
    /\ pc[t] = "join" => held[t] \in closed

\* Callers at work have a client.
Working == \A t \in Callers : pc[t] \in {"list", "fetch", "using"} => held[t] # None

\* A client that was told to stop was closed, and stops unless it is connected again.
Stopped == stopping \subseteq closed /\ closed \ stopping \subseteq reborn

\* The cached client has its thread.
CachedHasThread == shared # None => shared \in thread

\* Somebody answers for every server that runs.
Answerable ==
  \A c \in Clients : server[c] # "none" /\ c \notin stopping =>
    \/ c = shared
    \/ c \in abandoned \cup reborn
    \/ \E t \in Callers : pc[t] \in {"connecting", "publish"} /\ held[t] = c
    \/ \E t \in Closers : pc[t] = "close" /\ held[t] = c

IInv ==
  /\ TypeOK /\ Control
  /\ Owned /\ Handshake /\ Locking /\ Evicted /\ Working /\ Stopped
  /\ CachedIsConnected /\ CachedHasThread /\ OneClient /\ Answerable

------------------------------------------------------------------------------
\* Whoever touches a client has one.
LEMMA NextTypes ==
  ASSUME TypeOK, Control, Owned, Working, [Next]_vars
  PROVE  (TypeOK /\ Control)'
<1> USE McpAssumption DEF TypeOK, Control, CallerControl, CloserControl, Threads, Goto,
     GoHome, cache, flags, history, Building, Owned, Working
<1>1. ASSUME NEW t \in Callers, Lookup(t)
      PROVE  (TypeOK /\ Control)'
  BY <1>1 DEF Lookup
<1>2. ASSUME NEW t \in Callers, Construct(t)
      PROVE  (TypeOK /\ Control)'
  BY <1>2 DEF Construct, Unreachable
<1>3. ASSUME NEW t \in Callers, Connect(t)
      PROVE  (TypeOK /\ Control)'
  BY <1>3 DEF Connect, ConnectRaises
<1>4. ASSUME NEW t \in Callers, ConnectTimesOut(t)
      PROVE  (TypeOK /\ Control)'
  BY <1>4 DEF ConnectTimesOut
<1>5. ASSUME NEW t \in Callers, Publish(t)
      PROVE  (TypeOK /\ Control)'
  BY <1>5 DEF Publish, CloseLoser, Stop
<1>6. ASSUME NEW t \in Callers, Discard(t)
      PROVE  (TypeOK /\ Control)'
  BY <1>6 DEF Discard
<1>7. ASSUME NEW t \in Callers, EnsureConnected(t)
      PROVE  (TypeOK /\ Control)'
  BY <1>7 DEF EnsureConnected, Session
<1>8. ASSUME NEW t \in Callers, FetchTools(t)
      PROVE  (TypeOK /\ Control)'
  BY <1>8 DEF FetchTools
<1>9. ASSUME NEW t \in Callers, Leave(t)
      PROVE  (TypeOK /\ Control)'
  BY <1>9 DEF Leave
<1>10. ASSUME NEW t \in Closers, Evict(t)
      PROVE  (TypeOK /\ Control)'
  BY <1>10 DEF Evict
<1>11. ASSUME NEW t \in Closers, Close(t)
      PROVE  (TypeOK /\ Control)'
  BY <1>11 DEF Close, Stop
<1>12. ASSUME NEW t \in Closers, Join(t)
      PROVE  (TypeOK /\ Control)'
  BY <1>12 DEF Join
<1>13. ASSUME NEW c \in Clients, Open(c)
      PROVE  (TypeOK /\ Control)'
  BY <1>13 DEF Open
<1>14. ASSUME NEW c \in Clients, OpenFails(c)
      PROVE  (TypeOK /\ Control)'
  BY <1>14 DEF OpenFails
<1>15. ASSUME NEW c \in Clients, Die(c)
      PROVE  (TypeOK /\ Control)'
  BY <1>15 DEF Die
<1>16. ASSUME NEW c \in Clients, Shutdown(c)
      PROVE  (TypeOK /\ Control)'
  BY <1>16 DEF Shutdown, Session
<1>17. CASE UNCHANGED vars
  BY <1>17 DEF vars
<1> QED
  BY <1>1, <1>2, <1>3, <1>4, <1>5, <1>6, <1>7, <1>8, <1>9, <1>10, <1>11, <1>12, <1>13,
       <1>14, <1>15, <1>16, <1>17 DEF Next, CallStep, CloseStep

\* A client is built from an object that nobody refers to, and published by its owner
\* only.
LEMMA NextOwned ==
  ASSUME TypeOK, Control, Owned, Locking, [Next]_vars
  PROVE  Owned'
<1> USE McpAssumption DEF TypeOK, Control, CallerControl, CloserControl, Threads, Goto,
     GoHome, cache, flags, history, Building, Locking, Owned
<1>1. ASSUME NEW t \in Callers, Lookup(t)
      PROVE  Owned'
  BY <1>1 DEF Lookup
<1>2. ASSUME NEW t \in Callers, Construct(t)
      PROVE  Owned'
  BY <1>2 DEF Construct, Unreachable
<1>3. ASSUME NEW t \in Callers, Connect(t)
      PROVE  Owned'
  BY <1>3 DEF Connect, ConnectRaises
<1>4. ASSUME NEW t \in Callers, ConnectTimesOut(t)
      PROVE  Owned'
  BY <1>4 DEF ConnectTimesOut
<1>5. ASSUME NEW t \in Callers, Publish(t)
      PROVE  Owned'
  BY <1>5 DEF Publish, CloseLoser, Stop
<1>6. ASSUME NEW t \in Callers, Discard(t)
      PROVE  Owned'
  BY <1>6 DEF Discard
<1>7. ASSUME NEW t \in Callers, EnsureConnected(t)
      PROVE  Owned'
  BY <1>7 DEF EnsureConnected, Session
<1>8. ASSUME NEW t \in Callers, FetchTools(t)
      PROVE  Owned'
  BY <1>8 DEF FetchTools
<1>9. ASSUME NEW t \in Callers, Leave(t)
      PROVE  Owned'
  BY <1>9 DEF Leave
<1>10. ASSUME NEW t \in Closers, Evict(t)
      PROVE  Owned'
  BY <1>10 DEF Evict
<1>11. ASSUME NEW t \in Closers, Close(t)
      PROVE  Owned'
  BY <1>11 DEF Close, Stop
<1>12. ASSUME NEW t \in Closers, Join(t)
      PROVE  Owned'
  BY <1>12 DEF Join
<1>13. ASSUME NEW c \in Clients, Open(c)
      PROVE  Owned'
  BY <1>13 DEF Open
<1>14. ASSUME NEW c \in Clients, OpenFails(c)
      PROVE  Owned'
  BY <1>14 DEF OpenFails
<1>15. ASSUME NEW c \in Clients, Die(c)
      PROVE  Owned'
  BY <1>15 DEF Die
<1>16. ASSUME NEW c \in Clients, Shutdown(c)
      PROVE  Owned'
  BY <1>16 DEF Shutdown, Session
<1>17. CASE UNCHANGED vars
  BY <1>17 DEF vars
<1> QED
  BY <1>1, <1>2, <1>3, <1>4, <1>5, <1>6, <1>7, <1>8, <1>9, <1>10, <1>11, <1>12, <1>13,
       <1>14, <1>15, <1>16, <1>17 DEF Next, CallStep, CloseStep

\* The background session of a client answers to its owner alone: others close what they
\* hold, and stop what was closed.
LEMMA NextHandshake ==
  ASSUME TypeOK, Control, Owned, Handshake, Evicted, Stopped, [Next]_vars
  PROVE  Handshake'
<1> USE McpAssumption DEF TypeOK, Control, CallerControl, CloserControl, Threads, Goto,
     GoHome, cache, flags, history, Building, Owned, Stopped, Session, Evicted, Handshake
<1>1. ASSUME NEW t \in Callers, Lookup(t)
      PROVE  Handshake'
  BY <1>1 DEF Lookup
<1>2. ASSUME NEW t \in Callers, Construct(t)
      PROVE  Handshake'
  BY <1>2 DEF Construct, Unreachable
<1>3. ASSUME NEW t \in Callers, Connect(t)
      PROVE  Handshake'
  BY <1>3 DEF Connect, ConnectRaises
<1>4. ASSUME NEW t \in Callers, ConnectTimesOut(t)
      PROVE  Handshake'
  BY <1>4 DEF ConnectTimesOut
<1>5. ASSUME NEW t \in Callers, Publish(t)
      PROVE  Handshake'
  BY <1>5 DEF Publish, CloseLoser, Stop
<1>6. ASSUME NEW t \in Callers, Discard(t)
      PROVE  Handshake'
  BY <1>6 DEF Discard
<1>7. ASSUME NEW t \in Callers, EnsureConnected(t)
      PROVE  Handshake'
  BY <1>7 DEF EnsureConnected
<1>8. ASSUME NEW t \in Callers, FetchTools(t)
      PROVE  Handshake'
  BY <1>8 DEF FetchTools
<1>9. ASSUME NEW t \in Callers, Leave(t)
      PROVE  Handshake'
  BY <1>9 DEF Leave
<1>10. ASSUME NEW t \in Closers, Evict(t)
      PROVE  Handshake'
  BY <1>10 DEF Evict
<1>11. ASSUME NEW t \in Closers, Close(t)
      PROVE  Handshake'
  BY <1>11 DEF Close, Stop
<1>12. ASSUME NEW t \in Closers, Join(t)
      PROVE  Handshake'
  BY <1>12 DEF Join
<1>13. ASSUME NEW c \in Clients, Open(c)
      PROVE  Handshake'
  BY <1>13 DEF Open
<1>14. ASSUME NEW c \in Clients, OpenFails(c)
      PROVE  Handshake'
  BY <1>14 DEF OpenFails
<1>15. ASSUME NEW c \in Clients, Die(c)
      PROVE  Handshake'
  BY <1>15 DEF Die
<1>16. ASSUME NEW c \in Clients, Shutdown(c)
      PROVE  Handshake'
  BY <1>16 DEF Shutdown
<1>17. CASE UNCHANGED vars
  BY <1>17 DEF vars
<1> QED
  BY <1>1, <1>2, <1>3, <1>4, <1>5, <1>6, <1>7, <1>8, <1>9, <1>10, <1>11, <1>12, <1>13,
       <1>14, <1>15, <1>16, <1>17 DEF Next, CallStep, CloseStep

\* The lock is given back by the step after the one that kept it.
LEMMA NextLocking ==
  ASSUME TypeOK, Control, Locking, [Next]_vars
  PROVE  Locking'
<1> USE McpAssumption DEF TypeOK, Control, CallerControl, CloserControl, Threads, Goto,
     GoHome, cache, flags, history, Locking
<1>1. ASSUME NEW t \in Callers, Lookup(t)
      PROVE  Locking'
  BY <1>1 DEF Lookup
<1>2. ASSUME NEW t \in Callers, Construct(t)
      PROVE  Locking'
  BY <1>2 DEF Construct, Unreachable
<1>3. ASSUME NEW t \in Callers, Connect(t)
      PROVE  Locking'
  BY <1>3 DEF Connect, ConnectRaises
<1>4. ASSUME NEW t \in Callers, ConnectTimesOut(t)
      PROVE  Locking'
  BY <1>4 DEF ConnectTimesOut
<1>5. ASSUME NEW t \in Callers, Publish(t)
      PROVE  Locking'
  BY <1>5 DEF Publish, CloseLoser, Stop
<1>6. ASSUME NEW t \in Callers, Discard(t)
      PROVE  Locking'
  BY <1>6 DEF Discard
<1>7. ASSUME NEW t \in Callers, EnsureConnected(t)
      PROVE  Locking'
  BY <1>7 DEF EnsureConnected, Session
<1>8. ASSUME NEW t \in Callers, FetchTools(t)
      PROVE  Locking'
  BY <1>8 DEF FetchTools
<1>9. ASSUME NEW t \in Callers, Leave(t)
      PROVE  Locking'
  BY <1>9 DEF Leave
<1>10. ASSUME NEW t \in Closers, Evict(t)
      PROVE  Locking'
  BY <1>10 DEF Evict
<1>11. ASSUME NEW t \in Closers, Close(t)
      PROVE  Locking'
  BY <1>11 DEF Close, Stop
<1>12. ASSUME NEW t \in Closers, Join(t)
      PROVE  Locking'
  BY <1>12 DEF Join
<1>13. ASSUME NEW c \in Clients, Open(c)
      PROVE  Locking'
  BY <1>13 DEF Open
<1>14. ASSUME NEW c \in Clients, OpenFails(c)
      PROVE  Locking'
  BY <1>14 DEF OpenFails
<1>15. ASSUME NEW c \in Clients, Die(c)
      PROVE  Locking'
  BY <1>15 DEF Die
<1>16. ASSUME NEW c \in Clients, Shutdown(c)
      PROVE  Locking'
  BY <1>16 DEF Shutdown, Session
<1>17. CASE UNCHANGED vars
  BY <1>17 DEF vars
<1> QED
  BY <1>1, <1>2, <1>3, <1>4, <1>5, <1>6, <1>7, <1>8, <1>9, <1>10, <1>11, <1>12, <1>13,
       <1>14, <1>15, <1>16, <1>17 DEF Next, CallStep, CloseStep

\* An evicted client does not come back into the cache, and loses its thread only when it
\* was closed.
LEMMA NextEvicted ==
  ASSUME TypeOK, Control, Owned, Evicted, CachedHasThread, [Next]_vars
  PROVE  Evicted'
<1> USE McpAssumption DEF TypeOK, Control, CallerControl, CloserControl, Threads, Goto,
     GoHome, cache, flags, history, Building, Owned, CachedHasThread, Evicted
<1>1. ASSUME NEW t \in Callers, Lookup(t)
      PROVE  Evicted'
  BY <1>1 DEF Lookup
<1>2. ASSUME NEW t \in Callers, Construct(t)
      PROVE  Evicted'
  BY <1>2 DEF Construct, Unreachable
<1>3. ASSUME NEW t \in Callers, Connect(t)
      PROVE  Evicted'
  BY <1>3 DEF Connect, ConnectRaises
<1>4. ASSUME NEW t \in Callers, ConnectTimesOut(t)
      PROVE  Evicted'
  BY <1>4 DEF ConnectTimesOut
<1>5. ASSUME NEW t \in Callers, Publish(t)
      PROVE  Evicted'
  BY <1>5 DEF Publish, CloseLoser, Stop
<1>6. ASSUME NEW t \in Callers, Discard(t)
      PROVE  Evicted'
  BY <1>6 DEF Discard
<1>7. ASSUME NEW t \in Callers, EnsureConnected(t)
      PROVE  Evicted'
  BY <1>7 DEF EnsureConnected, Session
<1>8. ASSUME NEW t \in Callers, FetchTools(t)
      PROVE  Evicted'
  BY <1>8 DEF FetchTools
<1>9. ASSUME NEW t \in Callers, Leave(t)
      PROVE  Evicted'
  BY <1>9 DEF Leave
<1>10. ASSUME NEW t \in Closers, Evict(t)
      PROVE  Evicted'
  BY <1>10 DEF Evict
<1>11. ASSUME NEW t \in Closers, Close(t)
      PROVE  Evicted'
  BY <1>11 DEF Close, Stop
<1>12. ASSUME NEW t \in Closers, Join(t)
      PROVE  Evicted'
  BY <1>12 DEF Join
<1>13. ASSUME NEW c \in Clients, Open(c)
      PROVE  Evicted'
  BY <1>13 DEF Open
<1>14. ASSUME NEW c \in Clients, OpenFails(c)
      PROVE  Evicted'
  BY <1>14 DEF OpenFails
<1>15. ASSUME NEW c \in Clients, Die(c)
      PROVE  Evicted'
  BY <1>15 DEF Die
<1>16. ASSUME NEW c \in Clients, Shutdown(c)
      PROVE  Evicted'
  BY <1>16 DEF Shutdown, Session
<1>17. CASE UNCHANGED vars
  BY <1>17 DEF vars
<1> QED
  BY <1>1, <1>2, <1>3, <1>4, <1>5, <1>6, <1>7, <1>8, <1>9, <1>10, <1>11, <1>12, <1>13,
       <1>14, <1>15, <1>16, <1>17 DEF Next, CallStep, CloseStep

\* A caller goes to work with the cached client, or with its own when it has published it.
LEMMA NextWorking ==
  ASSUME TypeOK, Control, Owned, Locking, Working, [Next]_vars
  PROVE  Working'
<1> USE McpAssumption DEF TypeOK, Control, CallerControl, CloserControl, Threads, Goto,
     GoHome, cache, flags, history, Building, Owned, Locking, Working
<1>1. ASSUME NEW t \in Callers, Lookup(t)
      PROVE  Working'
  BY <1>1 DEF Lookup
<1>2. ASSUME NEW t \in Callers, Construct(t)
      PROVE  Working'
  BY <1>2 DEF Construct, Unreachable
<1>3. ASSUME NEW t \in Callers, Connect(t)
      PROVE  Working'
  BY <1>3 DEF Connect, ConnectRaises
<1>4. ASSUME NEW t \in Callers, ConnectTimesOut(t)
      PROVE  Working'
  BY <1>4 DEF ConnectTimesOut
<1>5. ASSUME NEW t \in Callers, Publish(t)
      PROVE  Working'
  BY <1>5 DEF Publish, CloseLoser, Stop
<1>6. ASSUME NEW t \in Callers, Discard(t)
      PROVE  Working'
  BY <1>6 DEF Discard
<1>7. ASSUME NEW t \in Callers, EnsureConnected(t)
      PROVE  Working'
  BY <1>7 DEF EnsureConnected, Session
<1>8. ASSUME NEW t \in Callers, FetchTools(t)
      PROVE  Working'
  BY <1>8 DEF FetchTools
<1>9. ASSUME NEW t \in Callers, Leave(t)
      PROVE  Working'
  BY <1>9 DEF Leave
<1>10. ASSUME NEW t \in Closers, Evict(t)
      PROVE  Working'
  BY <1>10 DEF Evict
<1>11. ASSUME NEW t \in Closers, Close(t)
      PROVE  Working'
  BY <1>11 DEF Close, Stop
<1>12. ASSUME NEW t \in Closers, Join(t)
      PROVE  Working'
  BY <1>12 DEF Join
<1>13. ASSUME NEW c \in Clients, Open(c)
      PROVE  Working'
  BY <1>13 DEF Open
<1>14. ASSUME NEW c \in Clients, OpenFails(c)
      PROVE  Working'
  BY <1>14 DEF OpenFails
<1>15. ASSUME NEW c \in Clients, Die(c)
      PROVE  Working'
  BY <1>15 DEF Die
<1>16. ASSUME NEW c \in Clients, Shutdown(c)
      PROVE  Working'
  BY <1>16 DEF Shutdown, Session
<1>17. CASE UNCHANGED vars
  BY <1>17 DEF vars
<1> QED
  BY <1>1, <1>2, <1>3, <1>4, <1>5, <1>6, <1>7, <1>8, <1>9, <1>10, <1>11, <1>12, <1>13,
       <1>14, <1>15, <1>16, <1>17 DEF Next, CallStep, CloseStep

\* Only EnsureConnected takes back a stop, and then the client is reborn.
LEMMA NextStopped ==
  ASSUME TypeOK, Control, Stopped, [Next]_vars
  PROVE  Stopped'
<1> USE McpAssumption DEF TypeOK, Control, CallerControl, CloserControl, Threads, Goto,
     GoHome, cache, flags, history, Stopped
<1>1. ASSUME NEW t \in Callers, Lookup(t)
      PROVE  Stopped'
  BY <1>1 DEF Lookup
<1>2. ASSUME NEW t \in Callers, Construct(t)
      PROVE  Stopped'
  BY <1>2 DEF Construct, Unreachable
<1>3. ASSUME NEW t \in Callers, Connect(t)
      PROVE  Stopped'
  BY <1>3 DEF Connect, ConnectRaises
<1>4. ASSUME NEW t \in Callers, ConnectTimesOut(t)
      PROVE  Stopped'
  BY <1>4 DEF ConnectTimesOut
<1>5. ASSUME NEW t \in Callers, Publish(t)
      PROVE  Stopped'
  BY <1>5 DEF Publish, CloseLoser, Stop
<1>6. ASSUME NEW t \in Callers, Discard(t)
      PROVE  Stopped'
  BY <1>6 DEF Discard
<1>7. ASSUME NEW t \in Callers, EnsureConnected(t)
      PROVE  Stopped'
  BY <1>7 DEF EnsureConnected, Session
<1>8. ASSUME NEW t \in Callers, FetchTools(t)
      PROVE  Stopped'
  BY <1>8 DEF FetchTools
<1>9. ASSUME NEW t \in Callers, Leave(t)
      PROVE  Stopped'
  BY <1>9 DEF Leave
<1>10. ASSUME NEW t \in Closers, Evict(t)
      PROVE  Stopped'
  BY <1>10 DEF Evict
<1>11. ASSUME NEW t \in Closers, Close(t)
      PROVE  Stopped'
  BY <1>11 DEF Close, Stop
<1>12. ASSUME NEW t \in Closers, Join(t)
      PROVE  Stopped'
  BY <1>12 DEF Join
<1>13. ASSUME NEW c \in Clients, Open(c)
      PROVE  Stopped'
  BY <1>13 DEF Open
<1>14. ASSUME NEW c \in Clients, OpenFails(c)
      PROVE  Stopped'
  BY <1>14 DEF OpenFails
<1>15. ASSUME NEW c \in Clients, Die(c)
      PROVE  Stopped'
  BY <1>15 DEF Die
<1>16. ASSUME NEW c \in Clients, Shutdown(c)
      PROVE  Stopped'
  BY <1>16 DEF Shutdown, Session
<1>17. CASE UNCHANGED vars
  BY <1>17 DEF vars
<1> QED
  BY <1>1, <1>2, <1>3, <1>4, <1>5, <1>6, <1>7, <1>8, <1>9, <1>10, <1>11, <1>12, <1>13,
       <1>14, <1>15, <1>16, <1>17 DEF Next, CallStep, CloseStep

\* What is published has finished its handshake, and what is closed or stopped is not in
\* the cache.
LEMMA NextCached ==
  ASSUME TypeOK, Control, Owned, Handshake, Evicted, Stopped,
         CachedIsConnected, CachedHasThread, [Next]_vars
  PROVE  (CachedIsConnected /\ CachedHasThread)'
<1> USE McpAssumption DEF TypeOK, Control, CallerControl, CloserControl, Threads, Goto,
     GoHome, cache, flags, history, Building, Owned, Handshake, Evicted, Stopped, Session,
     CachedIsConnected, CachedHasThread
<1>1. ASSUME NEW t \in Callers, Lookup(t)
      PROVE  (CachedIsConnected /\ CachedHasThread)'
  BY <1>1 DEF Lookup
<1>2. ASSUME NEW t \in Callers, Construct(t)
      PROVE  (CachedIsConnected /\ CachedHasThread)'
  BY <1>2 DEF Construct, Unreachable
<1>3. ASSUME NEW t \in Callers, Connect(t)
      PROVE  (CachedIsConnected /\ CachedHasThread)'
  BY <1>3 DEF Connect, ConnectRaises
<1>4. ASSUME NEW t \in Callers, ConnectTimesOut(t)
      PROVE  (CachedIsConnected /\ CachedHasThread)'
  BY <1>4 DEF ConnectTimesOut
<1>5. ASSUME NEW t \in Callers, Publish(t)
      PROVE  (CachedIsConnected /\ CachedHasThread)'
  BY <1>5 DEF Publish, CloseLoser, Stop
<1>6. ASSUME NEW t \in Callers, Discard(t)
      PROVE  (CachedIsConnected /\ CachedHasThread)'
  BY <1>6 DEF Discard
<1>7. ASSUME NEW t \in Callers, EnsureConnected(t)
      PROVE  (CachedIsConnected /\ CachedHasThread)'
  BY <1>7 DEF EnsureConnected
<1>8. ASSUME NEW t \in Callers, FetchTools(t)
      PROVE  (CachedIsConnected /\ CachedHasThread)'
  BY <1>8 DEF FetchTools
<1>9. ASSUME NEW t \in Callers, Leave(t)
      PROVE  (CachedIsConnected /\ CachedHasThread)'
  BY <1>9 DEF Leave
<1>10. ASSUME NEW t \in Closers, Evict(t)
      PROVE  (CachedIsConnected /\ CachedHasThread)'
  BY <1>10 DEF Evict
<1>11. ASSUME NEW t \in Closers, Close(t)
      PROVE  (CachedIsConnected /\ CachedHasThread)'
  BY <1>11 DEF Close, Stop
<1>12. ASSUME NEW t \in Closers, Join(t)
      PROVE  (CachedIsConnected /\ CachedHasThread)'
  BY <1>12 DEF Join
<1>13. ASSUME NEW c \in Clients, Open(c)
      PROVE  (CachedIsConnected /\ CachedHasThread)'
  BY <1>13 DEF Open
<1>14. ASSUME NEW c \in Clients, OpenFails(c)
      PROVE  (CachedIsConnected /\ CachedHasThread)'
  BY <1>14 DEF OpenFails
<1>15. ASSUME NEW c \in Clients, Die(c)
      PROVE  (CachedIsConnected /\ CachedHasThread)'
  BY <1>15 DEF Die
<1>16. ASSUME NEW c \in Clients, Shutdown(c)
      PROVE  (CachedIsConnected /\ CachedHasThread)'
  BY <1>16 DEF Shutdown
<1>17. CASE UNCHANGED vars
  BY <1>17 DEF vars
<1> QED
  BY <1>1, <1>2, <1>3, <1>4, <1>5, <1>6, <1>7, <1>8, <1>9, <1>10, <1>11, <1>12, <1>13,
       <1>14, <1>15, <1>16, <1>17 DEF Next, CallStep, CloseStep

\* A caller loses the cached client only to a closer, and the closer closes it.
LEMMA NextOneClient ==
  ASSUME TypeOK, Control, Owned, Evicted, Working, OneClient, [Next]_vars
  PROVE  OneClient'
<1> USE McpAssumption DEF TypeOK, Control, CallerControl, CloserControl, Threads, Goto,
     GoHome, cache, flags, history, Building, Owned, Evicted, Working, OneClient
<1>1. ASSUME NEW t \in Callers, Lookup(t)
      PROVE  OneClient'
  BY <1>1 DEF Lookup
<1>2. ASSUME NEW t \in Callers, Construct(t)
      PROVE  OneClient'
  BY <1>2 DEF Construct, Unreachable
<1>3. ASSUME NEW t \in Callers, Connect(t)
      PROVE  OneClient'
  BY <1>3 DEF Connect, ConnectRaises
<1>4. ASSUME NEW t \in Callers, ConnectTimesOut(t)
      PROVE  OneClient'
  BY <1>4 DEF ConnectTimesOut
<1>5. ASSUME NEW t \in Callers, Publish(t)
      PROVE  OneClient'
  BY <1>5 DEF Publish, CloseLoser, Stop
<1>6. ASSUME NEW t \in Callers, Discard(t)
      PROVE  OneClient'
  BY <1>6 DEF Discard
<1>7. ASSUME NEW t \in Callers, EnsureConnected(t)
      PROVE  OneClient'
  BY <1>7 DEF EnsureConnected, Session
<1>8. ASSUME NEW t \in Callers, FetchTools(t)
      PROVE  OneClient'
  BY <1>8 DEF FetchTools
<1>9. ASSUME NEW t \in Callers, Leave(t)
      PROVE  OneClient'
  BY <1>9 DEF Leave
<1>10. ASSUME NEW t \in Closers, Evict(t)
      PROVE  OneClient'
  BY <1>10 DEF Evict
<1>11. ASSUME NEW t \in Closers, Close(t)
      PROVE  OneClient'
  BY <1>11 DEF Close, Stop
<1>12. ASSUME NEW t \in Closers, Join(t)
      PROVE  OneClient'
  BY <1>12 DEF Join
<1>13. ASSUME NEW c \in Clients, Open(c)
      PROVE  OneClient'
  BY <1>13 DEF Open
<1>14. ASSUME NEW c \in Clients, OpenFails(c)
      PROVE  OneClient'
  BY <1>14 DEF OpenFails
<1>15. ASSUME NEW c \in Clients, Die(c)
      PROVE  OneClient'
  BY <1>15 DEF Die
<1>16. ASSUME NEW c \in Clients, Shutdown(c)
      PROVE  OneClient'
  BY <1>16 DEF Shutdown, Session
<1>17. CASE UNCHANGED vars
  BY <1>17 DEF vars
<1> QED
  BY <1>1, <1>2, <1>3, <1>4, <1>5, <1>6, <1>7, <1>8, <1>9, <1>10, <1>11, <1>12, <1>13,
       <1>14, <1>15, <1>16, <1>17 DEF Next, CallStep, CloseStep

\* An owner gives up a running server only by publishing it, stopping it or leaving it to
\* its time-out.
LEMMA NextAnswerable ==
  ASSUME TypeOK, Control, Owned, Handshake, Evicted, Stopped, Answerable, [Next]_vars
  PROVE  Answerable'
<1> USE McpAssumption DEF TypeOK, Control, CallerControl, CloserControl, Threads, Goto,
     GoHome, cache, flags, history, Building, Owned, Handshake, Evicted, Stopped, Session,
     Answerable
<1>1. ASSUME NEW t \in Callers, Lookup(t)
      PROVE  Answerable'
  BY <1>1 DEF Lookup
<1>2. ASSUME NEW t \in Callers, Construct(t)
      PROVE  Answerable'
  BY <1>2 DEF Construct, Unreachable
<1>3. ASSUME NEW t \in Callers, Connect(t)
      PROVE  Answerable'
  BY <1>3 DEF Connect, ConnectRaises
<1>4. ASSUME NEW t \in Callers, ConnectTimesOut(t)
      PROVE  Answerable'
  BY <1>4 DEF ConnectTimesOut
<1>5. ASSUME NEW t \in Callers, Publish(t)
      PROVE  Answerable'
  BY <1>5 DEF Publish, CloseLoser, Stop
<1>6. ASSUME NEW t \in Callers, Discard(t)
      PROVE  Answerable'
  BY <1>6 DEF Discard
<1>7. ASSUME NEW t \in Callers, EnsureConnected(t)
      PROVE  Answerable'
  BY <1>7 DEF EnsureConnected
<1>8. ASSUME NEW t \in Callers, FetchTools(t)
      PROVE  Answerable'
  BY <1>8 DEF FetchTools
<1>9. ASSUME NEW t \in Callers, Leave(t)
      PROVE  Answerable'
  BY <1>9 DEF Leave
<1>10. ASSUME NEW t \in Closers, Evict(t)
      PROVE  Answerable'
  BY <1>10 DEF Evict
<1>11. ASSUME NEW t \in Closers, Close(t)
      PROVE  Answerable'
  BY <1>11 DEF Close, Stop
<1>12. ASSUME NEW t \in Closers, Join(t)
      PROVE  Answerable'
  BY <1>12 DEF Join
<1>13. ASSUME NEW c \in Clients, Open(c)
      PROVE  Answerable'
  BY <1>13 DEF Open
<1>14. ASSUME NEW c \in Clients, OpenFails(c)
      PROVE  Answerable'
  BY <1>14 DEF OpenFails
<1>15. ASSUME NEW c \in Clients, Die(c)
      PROVE  Answerable'
  BY <1>15 DEF Die
<1>16. ASSUME NEW c \in Clients, Shutdown(c)
      PROVE  Answerable'
  BY <1>16 DEF Shutdown
<1>17. CASE UNCHANGED vars
  BY <1>17 DEF vars
<1> QED
  BY <1>1, <1>2, <1>3, <1>4, <1>5, <1>6, <1>7, <1>8, <1>9, <1>10, <1>11, <1>12, <1>13,
       <1>14, <1>15, <1>16, <1>17 DEF Next, CallStep, CloseStep

-----------------------------------------------------------------------------
\* The registry starts without clients, and with every thread elsewhere.
LEMMA InitIInv == Init => IInv
BY McpAssumption
   DEF Init, IInv, TypeOK, Control, CallerControl, CloserControl, Threads, Building, Owned,
       Handshake, Locking, Evicted, Working, Stopped, CachedIsConnected, CachedHasThread,
       OneClient, Answerable

\* The conjuncts carry one another through every step.
LEMMA NextIInv == IInv /\ [Next]_vars => IInv'
BY NextTypes, NextOwned, NextHandshake, NextLocking, NextEvicted, NextWorking, NextStopped,
   NextCached, NextOneClient, NextAnswerable DEF IInv

\* IInv holds in every reachable state.
THEOREM McpInvariant == Spec => []IInv
BY InitIInv, NextIInv, PTL DEF Spec

\* Every variable of the registry and of its clients keeps its type.
THEOREM McpTypes == Spec => []TypeOK
<1>1. IInv => TypeOK
  BY DEF IInv
<1> QED
  BY <1>1, McpInvariant, PTL

\* get_shared_mcp_client: a client is cached when its handshake is over and until it is
\* closed; a failed connection never is.
THEOREM CacheConnected == Spec => []CachedIsConnected
<1>1. IInv => CachedIsConnected
  BY DEF IInv
<1> QED
  BY <1>1, McpInvariant, PTL

\* get_shared_mcp_client: callers at work share the cached client, or hold one that is being
\* closed.
THEOREM ClientShared == Spec => []OneClient
<1>1. IInv => OneClient
  BY DEF IInv
<1> QED
  BY <1>1, McpInvariant, PTL

\* close_shared_mcp_client and the loser's close(): once the threads are back, a server runs
\* for the cached client, or was given up by connect(), or was started again after a close.
THEOREM NoOrphans == Spec => []OrphansExplained
<1>1. ASSUME IInv, \A t \in Threads : pc[t] \in {"idle", "using"},
             NEW c \in Clients, server[c] # "none", c \notin stopping
      PROVE  c = shared \/ c \in abandoned \cup reborn
  BY <1>1 DEF IInv, Answerable, Threads
<1>2. IInv => OrphansExplained
  BY <1>1 DEF OrphansExplained
<1> QED
  BY <1>2, McpInvariant, PTL

=============================================================================
