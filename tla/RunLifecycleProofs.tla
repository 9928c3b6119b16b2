------------------------- MODULE RunLifecycleProofs -------------------------
(***************************************************************************)
(* Theorems about module RunLifecycle, for any number of streams and of    *)
(* events.                                                                 *)
(*                                                                         *)
(* The queue is cut by its readers, whoever they are: what was taken off   *)
(* is earlier than what is left, and together they are all the events that *)
(* were emitted.  The sentinel comes behind the last of them, and the flag *)
(* is raised when there is none to follow.                                 *)
(***************************************************************************)
EXTENDS RunLifecycle, SequenceFacts

Flagged == {"sentinel", "schedule", "ended"}

\* How far the worker has come.
WorkerStaged ==
  /\ worker \in {"none", "refused", "create"} => emitted = 0 /\ ~announced /\ row = "none"
  /\ worker \in {"none", "refused", "create", "running"} =>
       outcome = "none" /\ row \in {"none", "running"}
  /\ worker \in {"finish", "finalize", "store", "flag", "sentinel", "schedule"} =>
       outcome # "none"
  /\ worker \in {"flag", "sentinel", "schedule"} => result = outcome
  /\ done => worker \in Flagged /\ result = outcome /\ outcome # "none"
  /\ row \notin {"none", "running"} => row = outcome

\* Room for the events that are still to come.
Room ==
  /\ worker = "running" /\ ~announced => emitted + 2 <= MaxEvents
  /\ worker = "running" => emitted + 1 <= MaxEvents

\* A run without an entry was deleted, and only such a run has no result.
Deleted ==
  /\ worker \notin {"none", "refused"} /\ ~present => deletion # "none"
  /\ outcome = "empty" => deletion # "none"

\* The queue is in order, and the sentinel is its last entry.
QueueOrdered ==
  /\ \A i, j \in DOMAIN queue : i < j =>
       queue[i] # Sentinel /\ (queue[j] = Sentinel \/ queue[i] < queue[j])
  /\ \A i \in DOMAIN queue : queue[i] <= emitted
  /\ \A i \in DOMAIN queue : queue[i] = Sentinel => worker \in {"schedule", "ended"}

\* Whatever a stream has received is earlier than what is in the queue.
ReceivedEarlier ==
  /\ \A c \in Streams : \A i \in DOMAIN received[c] : received[c][i] <= emitted
  /\ \A c \in Streams : \A i \in DOMAIN received[c], j \in DOMAIN queue :
       queue[j] = Sentinel \/ received[c][i] < queue[j]

\* No event disappears.
Conserved ==
  \A e \in 1..emitted : e \in ToSet(queue) \/ \E d \in Streams : e \in ToSet(received[d])

\* A stream ends when the run is flagged and the queue has no more events.
Ends ==
  /\ \A c \in Streams : stream[c] = "recheck" => done
  /\ \A c \in Streams : stream[c] = "ended" => worker \in Flagged /\ ToSet(queue) \subseteq {Sentinel}

IInv ==
  /\ TypeOK /\ WorkerStaged /\ Room /\ Deleted
  /\ QueueOrdered /\ ReceivedEarlier /\ InOrderOnce /\ Conserved /\ Ends


-----------------------------------------------------------------------------
(* The queue and what was taken off it *)

\* One more entry in the queue.
LEMMA QueueGrows ==
  ASSUME TypeOK, NEW e \in 0..MaxEvents, queue' = Append(queue, e)
  PROVE  /\ queue' \in Seq(0..MaxEvents)
         /\ Len(queue) \in Nat
         /\ DOMAIN queue = 1..Len(queue) /\ DOMAIN queue' = 1..Len(queue) + 1
         /\ \A i \in DOMAIN queue : queue'[i] = queue[i]
         /\ queue'[Len(queue) + 1] = e
         /\ ToSet(queue') = ToSet(queue) \cup {e}
<1> DEFINE S == 0..MaxEvents
<1>1. queue \in Seq(S) /\ e \in S
  BY DEF TypeOK
<1> HIDE DEF S
<1>2. /\ queue' \in Seq(S)
      /\ Len(queue) \in Nat
      /\ DOMAIN queue = 1..Len(queue) /\ DOMAIN queue' = 1..Len(queue) + 1
      /\ \A i \in DOMAIN queue : queue'[i] = queue[i]
      /\ queue'[Len(queue) + 1] = e
      /\ ToSet(queue') = ToSet(queue) \cup {e}
  BY <1>1, Appended
<1> QED
  BY <1>2 DEF S

\* The queue without its head.
LEMMA QueueRead ==
  ASSUME TypeOK, queue # <<>>, queue' = Tail(queue)
  PROVE  /\ queue' \in Seq(0..MaxEvents)
         /\ Len(queue) \in Nat \ {0}
         /\ DOMAIN queue = 1..Len(queue) /\ DOMAIN queue' = 1..Len(queue) - 1
         /\ \A i \in DOMAIN queue' : i + 1 \in DOMAIN queue /\ queue'[i] = queue[i + 1]
         /\ 1 \in DOMAIN queue /\ Head(queue) = queue[1] /\ Head(queue) \in 0..MaxEvents
         /\ ToSet(queue) = {Head(queue)} \cup ToSet(queue')
<1>1. queue \in Seq(0..MaxEvents)
  BY DEF TypeOK
<1>2. /\ Tail(queue) \in Seq(0..MaxEvents)
      /\ Len(queue) \in Nat \ {0}
      /\ DOMAIN queue = 1..Len(queue) /\ DOMAIN Tail(queue) = 1..Len(queue) - 1
      /\ \A i \in DOMAIN Tail(queue) : Tail(queue)[i] = queue[i + 1]
      /\ Head(queue) = queue[1] /\ Head(queue) \in 0..MaxEvents
      /\ ToSet(queue) = {Head(queue)} \cup ToSet(Tail(queue))
  BY <1>1, Shortened
<1> QED
  BY <1>2

\* One more event on a stream.
LEMMA ReceivedGrows ==
  ASSUME TypeOK, NEW c \in Streams, NEW e \in 1..MaxEvents,
         received' = [received EXCEPT ![c] = Append(@, e)]
  PROVE  /\ received' \in [Streams -> Seq(1..MaxEvents)]
         /\ \A d \in Streams : d # c => received'[d] = received[d]
         /\ Len(received[c]) \in Nat
         /\ DOMAIN received[c] = 1..Len(received[c])
         /\ DOMAIN received'[c] = 1..Len(received[c]) + 1
         /\ \A i \in DOMAIN received[c] : received'[c][i] = received[c][i]
         /\ received'[c][Len(received[c]) + 1] = e
         /\ ToSet(received'[c]) = ToSet(received[c]) \cup {e}
<1> DEFINE S == 1..MaxEvents
<1>1. received[c] \in Seq(S) /\ e \in S /\ received'[c] = Append(received[c], e)
  BY DEF TypeOK
<1>2. \A d \in Streams : d # c => received'[d] = received[d]
  BY DEF TypeOK
<1> HIDE DEF S
<1>3. /\ received'[c] \in Seq(S)
      /\ Len(received[c]) \in Nat
      /\ DOMAIN received[c] = 1..Len(received[c])
      /\ DOMAIN received'[c] = 1..Len(received[c]) + 1
      /\ \A i \in DOMAIN received[c] : received'[c][i] = received[c][i]
      /\ received'[c][Len(received[c]) + 1] = e
      /\ ToSet(received'[c]) = ToSet(received[c]) \cup {e}
  BY <1>1, Appended
<1>4. received' \in [Streams -> Seq(1..MaxEvents)]
  BY <1>3 DEF TypeOK, S
<1> QED
  BY <1>2, <1>3, <1>4

\* What is in the queue and on a stream are numbers.
LEMMA Numbers ==
  ASSUME TypeOK
  PROVE  /\ \A i \in DOMAIN queue : queue[i] \in Nat
         /\ \A c \in Streams : \A i \in DOMAIN received[c] : received[c][i] \in Nat \ {0}
         /\ emitted \in Nat
<1> USE LifecycleAssumption
<1>1. queue \in Seq(Nat)
  <2>1. queue \in Seq(0..MaxEvents)
    BY DEF TypeOK
  <2>2. 0..MaxEvents \subseteq Nat
    OBVIOUS
  <2> QED
    BY <2>1, <2>2, SeqWider
<1>2. ASSUME NEW c \in Streams
      PROVE  received[c] \in Seq(Nat \ {0})
  <2>1. received[c] \in Seq(1..MaxEvents)
    BY DEF TypeOK
  <2>2. 1..MaxEvents \subseteq Nat \ {0}
    OBVIOUS
  <2> QED
    BY <2>1, <2>2, SeqWider
<1>3. \A i \in DOMAIN queue : queue[i] \in Nat
  BY <1>1, Entries
<1>4. \A c \in Streams : \A i \in DOMAIN received[c] : received[c][i] \in Nat \ {0}
  BY <1>2, Entries
<1>5. emitted \in Nat
  BY DEF TypeOK
<1> QED
  BY <1>3, <1>4, <1>5

\* The order of what is queued and what was received.
Delivery == QueueOrdered /\ ReceivedEarlier /\ InOrderOnce

\* A new event is later than all before it.
LEMMA EventPut ==
  ASSUME TypeOK, Delivery, worker \notin {"schedule", "ended"}, emitted < MaxEvents,
         PutEvent, UNCHANGED received
  PROVE  Delivery' /\ queue' \in Seq(0..MaxEvents) /\ ToSet(queue') = ToSet(queue) \cup {emitted'}
<1> USE LifecycleAssumption DEF Delivery, QueueOrdered, ReceivedEarlier, InOrderOnce, Sentinel, PutEvent
<1>1. emitted \in Nat /\ emitted' = emitted + 1 /\ emitted' \in 0..MaxEvents
  BY DEF TypeOK
<1>2. /\ queue' \in Seq(0..MaxEvents)
      /\ Len(queue) \in Nat
      /\ DOMAIN queue = 1..Len(queue) /\ DOMAIN queue' = 1..Len(queue) + 1
      /\ \A i \in DOMAIN queue : queue'[i] = queue[i]
      /\ queue'[Len(queue) + 1] = emitted'
      /\ ToSet(queue') = ToSet(queue) \cup {emitted'}
  BY <1>1, QueueGrows
<1>3. \A i \in DOMAIN queue : queue[i] # Sentinel /\ queue[i] \in Nat /\ queue[i] < emitted'
  BY <1>1, Numbers
<1>4. \A c \in Streams : \A i \in DOMAIN received[c] :
        received[c][i] \in Nat /\ received[c][i] < emitted'
  BY <1>1, Numbers
<1>5. QueueOrdered'
  <2>1. \A i, j \in DOMAIN queue' : i < j =>
          queue'[i] # Sentinel /\ (queue'[j] = Sentinel \/ queue'[i] < queue'[j])
    BY <1>1, <1>2, <1>3
  <2>2. \A i \in DOMAIN queue' : queue'[i] <= emitted' /\ queue'[i] # Sentinel
    BY <1>1, <1>2, <1>3
  <2> QED
    BY <2>1, <2>2
<1>6. ReceivedEarlier'
  <2>1. \A c \in Streams : \A i \in DOMAIN received[c], j \in DOMAIN queue' :
          queue'[j] = Sentinel \/ received[c][i] < queue'[j]
    BY <1>2, <1>4
  <2>2. \A c \in Streams : \A i \in DOMAIN received[c] : received[c][i] <= emitted'
    BY <1>1, <1>4
  <2> QED
    BY <2>1, <2>2
<1> QED
  BY <1>2, <1>5, <1>6

\* The sentinel is put behind the last event.
LEMMA SentinelPut ==
  ASSUME TypeOK, Delivery, PutSentinel
  PROVE  Delivery' /\ queue' \in Seq(0..MaxEvents) /\ ToSet(queue') = ToSet(queue) \cup {Sentinel}
<1> USE LifecycleAssumption DEF Delivery, QueueOrdered, ReceivedEarlier, InOrderOnce, Sentinel,
     PutSentinel, sse
<1>1. /\ queue' \in Seq(0..MaxEvents)
      /\ Len(queue) \in Nat
      /\ DOMAIN queue = 1..Len(queue) /\ DOMAIN queue' = 1..Len(queue) + 1
      /\ \A i \in DOMAIN queue : queue'[i] = queue[i]
      /\ queue'[Len(queue) + 1] = Sentinel
      /\ ToSet(queue') = ToSet(queue) \cup {Sentinel}
  BY QueueGrows
<1>2. emitted \in Nat /\ emitted' = emitted
  BY Numbers
<1>3. QueueOrdered'
  <2>1. \A i, j \in DOMAIN queue' : i < j =>
          queue'[i] # Sentinel /\ (queue'[j] = Sentinel \/ queue'[i] < queue'[j])
    BY <1>1
  <2>2. \A i \in DOMAIN queue' : queue'[i] <= emitted'
    BY <1>1, <1>2
  <2> QED
    BY <2>1, <2>2
<1>4. ReceivedEarlier'
  BY <1>1, <1>2
<1> QED
  BY <1>1, <1>3, <1>4

\* The head of the queue moves to a stream.
LEMMA EventTaken ==
  ASSUME TypeOK, Delivery, NEW c \in Streams, Poll(c), Head(queue) # Sentinel
  PROVE  /\ Delivery'
         /\ queue' \in Seq(0..MaxEvents) /\ received' \in [Streams -> Seq(1..MaxEvents)]
         /\ \A e \in ToSet(queue) : e \in ToSet(queue') \/ e \in ToSet(received'[c])
         /\ \A d \in Streams : ToSet(received[d]) \subseteq ToSet(received'[d])
<1> USE LifecycleAssumption DEF Delivery, QueueOrdered, ReceivedEarlier, InOrderOnce, Sentinel,
     Poll, TakeHead, run
<1>1. /\ queue' \in Seq(0..MaxEvents)
      /\ Len(queue) \in Nat \ {0}
      /\ DOMAIN queue = 1..Len(queue) /\ DOMAIN queue' = 1..Len(queue) - 1
      /\ \A i \in DOMAIN queue' : i + 1 \in DOMAIN queue /\ queue'[i] = queue[i + 1]
      /\ 1 \in DOMAIN queue /\ Head(queue) = queue[1] /\ Head(queue) \in 0..MaxEvents
      /\ ToSet(queue) = {Head(queue)} \cup ToSet(queue')
  BY QueueRead
<1> DEFINE h == Head(queue)
<1>2. h \in 1..MaxEvents /\ received' = [received EXCEPT ![c] = Append(@, h)]
  BY <1>1
<1> HIDE DEF h
<1>3. /\ received' \in [Streams -> Seq(1..MaxEvents)]
      /\ \A d \in Streams : d # c => received'[d] = received[d]
      /\ Len(received[c]) \in Nat
      /\ DOMAIN received[c] = 1..Len(received[c])
      /\ DOMAIN received'[c] = 1..Len(received[c]) + 1
      /\ \A i \in DOMAIN received[c] : received'[c][i] = received[c][i]
      /\ received'[c][Len(received[c]) + 1] = h
      /\ ToSet(received'[c]) = ToSet(received[c]) \cup {h}
  BY <1>2, ReceivedGrows
<1>4. /\ h = queue[1] /\ h # Sentinel /\ h <= emitted
      /\ worker' = worker /\ emitted' = emitted
  BY <1>1 DEF h
<1>5. QueueOrdered'
  <2>1. \A i, j \in DOMAIN queue' : i < j =>
          queue'[i] # Sentinel /\ (queue'[j] = Sentinel \/ queue'[i] < queue'[j])
    <3>1. \A i, j \in DOMAIN queue : i < j =>
            queue[i] # Sentinel /\ (queue[j] = Sentinel \/ queue[i] < queue[j])
      OBVIOUS
    <3> HIDE DEF Delivery, QueueOrdered, ReceivedEarlier, InOrderOnce, Sentinel, Poll, TakeHead, run
    <3>2. ASSUME NEW i \in DOMAIN queue', NEW j \in DOMAIN queue', i < j
          PROVE  queue'[i] # Sentinel /\ (queue'[j] = Sentinel \/ queue'[i] < queue'[j])
      <4>1. i + 1 \in DOMAIN queue /\ j + 1 \in DOMAIN queue /\ i + 1 < j + 1
        BY <1>1, <3>2
      <4>2. queue'[i] = queue[i + 1] /\ queue'[j] = queue[j + 1]
        BY <1>1
      <4> QED
        BY <3>1, <4>1, <4>2
    <3> QED
      BY <3>2
  <2>2. \A i \in DOMAIN queue : queue[i] <= emitted
    OBVIOUS
  <2>3. \A i \in DOMAIN queue' : queue'[i] <= emitted
    <3> HIDE DEF QueueOrdered, ReceivedEarlier, InOrderOnce, Delivery, Poll
    <3> QED
      BY <1>1, <2>2
  <2>4. \A i \in DOMAIN queue' : queue'[i] = Sentinel => worker \in {"schedule", "ended"}
    BY <1>1
  <2> QED
    BY <1>4, <2>1, <2>3, <2>4
<1>6. \A d \in Streams : \A i \in DOMAIN received[d] : received[d][i] < h
  BY <1>1, <1>4
<1>7. \A j \in DOMAIN queue' : queue'[j] = Sentinel \/ h < queue'[j]
  <2>1. \A i, j \in DOMAIN queue : i < j => queue[j] = Sentinel \/ queue[i] < queue[j]
    OBVIOUS
  <2> HIDE DEF Delivery, QueueOrdered, ReceivedEarlier, InOrderOnce, Sentinel, Poll
  <2>2. ASSUME NEW j \in DOMAIN queue'
        PROVE  queue[j + 1] = Sentinel \/ queue[1] < queue[j + 1]
    <3>1. j + 1 \in DOMAIN queue /\ 1 < j + 1
      BY <1>1, <2>2
    <3> QED
      BY <1>1, <2>1, <3>1
  <2> QED
    BY <1>1, <1>4, <2>2
<1>8. ASSUME NEW d \in Streams, NEW i \in DOMAIN received'[d]
      PROVE  \/ i \in DOMAIN received[d] /\ received'[d][i] = received[d][i]
             \/ d = c /\ i = Len(received[c]) + 1 /\ received'[d][i] = h
  <2>1. CASE d # c
    BY <1>3, <2>1
  <2>2. CASE d = c
    <3>1. i \in 1..Len(received[c]) \/ i = Len(received[c]) + 1
      BY <1>3, <2>2
    <3> QED
      BY <1>3, <2>2, <3>1
  <2> QED
    BY <2>1, <2>2
<1>9. ReceivedEarlier'
  <2>1. ASSUME NEW d \in Streams, NEW i \in DOMAIN received'[d]
        PROVE  /\ received'[d][i] <= emitted
               /\ \A j \in DOMAIN queue' : queue'[j] = Sentinel \/ received'[d][i] < queue'[j]
    <3>1. CASE i \in DOMAIN received[d] /\ received'[d][i] = received[d][i]
      BY <1>1, <3>1
    <3>2. CASE received'[d][i] = h
      BY <1>4, <1>7, <3>2
    <3> QED
      BY <1>8, <3>1, <3>2
  <2> QED
    BY <1>4, <2>1
<1>10. InOrderOnce'
  <2>1. \A d \in Streams : \A i \in DOMAIN received[d] : received[d][i] # h
    BY <1>2, <1>6, Numbers
  <2>2. \A i \in DOMAIN received[c] : i < Len(received[c]) + 1 /\ i \in Nat
    BY <1>3
  <2>3. ASSUME NEW d \in Streams, NEW i \in DOMAIN received'[c], NEW j \in DOMAIN received'[d]
        PROVE  /\ c = d /\ i < j => received'[c][i] < received'[d][j]
               /\ c # d => received'[c][i] # received'[d][j]
    <3>1. \/ i \in DOMAIN received[c] /\ received'[c][i] = received[c][i]
          \/ i = Len(received[c]) + 1 /\ received'[c][i] = h
      BY <1>8
    <3>2. \/ j \in DOMAIN received[d] /\ received'[d][j] = received[d][j]
          \/ d = c /\ j = Len(received[c]) + 1 /\ received'[d][j] = h
      BY <1>8
    <3>3. \A k \in DOMAIN received[c], l \in DOMAIN received[d] :
            /\ c = d /\ k < l => received[c][k] < received[d][l]
            /\ c # d => received[c][k] # received[d][l]
      OBVIOUS
    <3> HIDE DEF Delivery, QueueOrdered, ReceivedEarlier, InOrderOnce, Sentinel, Poll, TakeHead, run
    <3>4. CASE j \in DOMAIN received[d] /\ received'[d][j] = received[d][j]
      <4>1. CASE i \in DOMAIN received[c] /\ received'[c][i] = received[c][i]
        BY <3>3, <3>4, <4>1
      <4>2. CASE i = Len(received[c]) + 1 /\ received'[c][i] = h
        <5>1. c = d => ~(i < j)
          BY <1>3, <2>2, <3>4, <4>2
        <5>2. received'[c][i] # received'[d][j]
          BY <2>1, <3>4, <4>2
        <5> QED
          BY <5>1, <5>2
      <4> QED
        BY <3>1, <4>1, <4>2
    <3>5. CASE d = c /\ j = Len(received[c]) + 1 /\ received'[d][j] = h
      BY <1>3, <1>6, <2>2, <3>1, <3>5
    <3> QED
      BY <3>2, <3>4, <3>5
  <2>4. ASSUME NEW d \in Streams, NEW b \in Streams, d # c, b # c
        PROVE  \A i \in DOMAIN received'[d], j \in DOMAIN received'[b] :
                 /\ d = b /\ i < j => received'[d][i] < received'[b][j]
                 /\ d # b => received'[d][i] # received'[b][j]
    <3>1. received'[d] = received[d] /\ received'[b] = received[b]
      BY <1>3, <2>4
    <3> QED
      BY <3>1
  <2> QED
    BY <2>3, <2>4
<1> QED
  BY <1>1, <1>3, <1>5, <1>9, <1>10 DEF h

\* Nothing is left behind the sentinel.
LEMMA SentinelTaken ==
  ASSUME TypeOK, Delivery, NEW c \in Streams, Poll(c), Head(queue) = Sentinel
  PROVE  /\ Delivery'
         /\ queue' = <<>> /\ ToSet(queue') = {} /\ ToSet(queue) = {Sentinel}
         /\ worker \in {"schedule", "ended"}
<1> USE LifecycleAssumption DEF Delivery, QueueOrdered, ReceivedEarlier, InOrderOnce, Sentinel,
     Poll, TakeHead, run
<1>1. /\ queue' \in Seq(0..MaxEvents)
      /\ Len(queue) \in Nat \ {0}
      /\ DOMAIN queue = 1..Len(queue) /\ DOMAIN queue' = 1..Len(queue) - 1
      /\ \A i \in DOMAIN queue' : i + 1 \in DOMAIN queue /\ queue'[i] = queue[i + 1]
      /\ 1 \in DOMAIN queue /\ Head(queue) = queue[1]
      /\ ToSet(queue) = {Head(queue)} \cup ToSet(queue')
  BY QueueRead
<1>2. queue[1] = Sentinel /\ worker \in {"schedule", "ended"}
  BY <1>1
<1>3. Len(queue) = 1
  <2>1. SUFFICES ASSUME Len(queue) > 1
                 PROVE  FALSE
    BY <1>1
  <2>2. 2 \in DOMAIN queue /\ 1 < 2
    BY <1>1, <2>1
  <2> QED
    BY <1>1, <1>2, <2>2
<1>4. DOMAIN queue' = {}
  BY <1>1, <1>3
<1>5. queue' = <<>> /\ ToSet(queue') = {}
  BY <1>1, <1>4, EmptySeq, LenProperties DEF ToSet
<1>6. received' = received /\ emitted' = emitted /\ worker' = worker
  BY <1>2, <1>1
<1> QED
  BY <1>1, <1>2, <1>4, <1>5, <1>6

-----------------------------------------------------------------------------
(* One step *)

\* Nothing leaves its type: an event is numbered within the bound.
LEMMA NextTypeOK ==
  ASSUME TypeOK, WorkerStaged, Room, Delivery, [Next]_vars
  PROVE  TypeOK'
<1> USE LifecycleAssumption DEF entry, run, disk, sse, TypeOK, WorkerControl, Outcome
<1>1. CASE StartRun
  BY <1>1 DEF StartRun
<1>2. CASE StartFails
  BY <1>2 DEF StartFails, RemoveTree
<1>3. CASE CreateRow
  BY <1>3 DEF CreateRow
<1>4. CASE EmitEvent
  <2>1. emitted < MaxEvents /\ worker \notin {"schedule", "ended"} /\ UNCHANGED received
    BY <1>4 DEF EmitEvent, Room, TypeOK
  <2>2. queue' \in Seq(0..MaxEvents) /\ emitted' \in 0..MaxEvents
    BY <1>4, <2>1, EventPut DEF EmitEvent, PutEvent
  <2> QED
    BY <1>4, <2>2 DEF EmitEvent
<1>5. CASE EmitDone
  <2>1. emitted < MaxEvents /\ worker \notin {"schedule", "ended"} /\ UNCHANGED received
    BY <1>5 DEF EmitDone, Room, TypeOK
  <2>2. queue' \in Seq(0..MaxEvents) /\ emitted' \in 0..MaxEvents
    BY <1>5, <2>1, EventPut DEF EmitDone, PutEvent
  <2> QED
    BY <1>5, <2>2 DEF EmitDone
<1>6. CASE EmitRaises
  BY <1>6 DEF EmitRaises
<1>7. CASE RunReturns
  BY <1>7 DEF RunReturns
<1>8. CASE RunRaises
  <2>1. worker = "running" /\ emitted < MaxEvents /\ UNCHANGED received
    BY <1>8 DEF RunRaises, Room, TypeOK
  <2>2. CASE PutEvent
    <3>1. queue' \in Seq(0..MaxEvents) /\ emitted' \in 0..MaxEvents
      BY <2>1, <2>2, EventPut DEF PutEvent
    <3>2. outcome' \in Outcome /\ worker' \in WorkerControl
      BY <1>8 DEF RunRaises
    <3> QED
      BY <1>8, <3>1, <3>2 DEF RunRaises
  <2>3. CASE UNCHANGED <<queue, emitted>>
    BY <1>8, <2>3 DEF RunRaises
  <2> QED
    BY <1>8, <2>2, <2>3 DEF RunRaises
<1>9. CASE FinishRow
  BY <1>9 DEF FinishRow, WorkerStaged
<1>10. CASE Finalize
  BY <1>10 DEF Finalize
<1>11. CASE StoreResult
  BY <1>11 DEF StoreResult
<1>12. CASE RaiseFlag
  BY <1>12 DEF RaiseFlag
<1>13. CASE PutSentinel
  BY <1>13, SentinelPut DEF PutSentinel, Sentinel
<1>14. CASE ScheduleCleanup
  BY <1>14 DEF ScheduleCleanup
<1>15. CASE Cleanup
  BY <1>15 DEF Cleanup, RemoveTree
<1>16. ASSUME NEW c \in Streams, Open(c)
      PROVE  TypeOK'
  BY <1>16 DEF Open, Goto
<1>17. ASSUME NEW c \in Streams, Begin(c)
      PROVE  TypeOK'
  BY <1>17 DEF Begin, Goto
<1>18. ASSUME NEW c \in Streams, Poll(c)
      PROVE  TypeOK'
  <2>1. CASE Head(queue) = Sentinel
    <3>1. queue' \in Seq(0..MaxEvents)
      BY <1>18, <2>1, SentinelTaken, EmptySeq
    <3>2. stream' \in [Streams -> {"closed", "open", "poll", "check", "recheck",
                                    "ended", "aborted", "gone"}]
      BY <1>18, <2>1 DEF Poll, Goto
    <3> QED
      BY <1>18, <2>1, <3>1, <3>2 DEF Poll
  <2>2. CASE Head(queue) # Sentinel
    <3>1. queue' \in Seq(0..MaxEvents) /\ received' \in [Streams -> Seq(1..MaxEvents)]
      BY <1>18, <2>2, EventTaken
    <3> QED
      BY <1>18, <2>2, <3>1 DEF Poll
  <2> QED
    BY <2>1, <2>2
<1>19. ASSUME NEW c \in Streams, PollEmpty(c)
      PROVE  TypeOK'
  BY <1>19 DEF PollEmpty, Goto
<1>20. ASSUME NEW c \in Streams, CheckDone(c)
      PROVE  TypeOK'
  BY <1>20 DEF CheckDone, AfterDone, Goto
<1>21. ASSUME NEW c \in Streams, CheckEmpty(c)
      PROVE  TypeOK'
  BY <1>21 DEF CheckEmpty, Goto
<1>22. ASSUME NEW c \in Streams, Disconnect(c)
      PROVE  TypeOK'
  <2>1. stream' \in [Streams -> {"closed", "open", "poll", "check", "recheck",
                                "ended", "aborted", "gone"}]
    BY <1>22 DEF Disconnect, Goto
  <2> QED
    BY <1>22, <2>1 DEF Disconnect
<1>23. CASE DeleteEntry
  <2>1. present' \in BOOLEAN /\ deletion' \in {"none", "popped", "deleted"}
    BY <1>23 DEF DeleteEntry
  <2> QED
    BY <1>23, <2>1 DEF DeleteEntry
<1>24. CASE DeleteRow
  BY <1>24 DEF DeleteRow
<1>25. CASE UNCHANGED vars
  BY <1>25 DEF vars
<1> QED
  BY <1>1, <1>2, <1>3, <1>4, <1>5, <1>6, <1>7, <1>8, <1>9, <1>10, <1>11, <1>12, <1>13,
       <1>14, <1>15, <1>16, <1>17, <1>18, <1>19, <1>20, <1>21, <1>22, <1>23, <1>24, <1>25
       DEF Next, WorkerStep, StreamStep

\* The worker passes its stages in order; whoever else writes the row clears it.
LEMMA NextWorkerStaged ==
  ASSUME TypeOK, WorkerStaged, [Next]_vars
  PROVE  WorkerStaged'
<1> USE LifecycleAssumption DEF entry, run, disk, sse, TypeOK, WorkerControl, Outcome,
     WorkerStaged, Flagged
<1>1. CASE StartRun
  BY <1>1 DEF StartRun
<1>2. CASE StartFails
  BY <1>2 DEF StartFails, RemoveTree
<1>3. CASE CreateRow
  BY <1>3 DEF CreateRow
<1>4. CASE EmitEvent
  BY <1>4 DEF EmitEvent, PutEvent
<1>5. CASE EmitDone
  BY <1>5 DEF EmitDone, PutEvent
<1>6. CASE EmitRaises
  BY <1>6 DEF EmitRaises
<1>7. CASE RunReturns
  BY <1>7 DEF RunReturns
<1>8. CASE RunRaises
  BY <1>8 DEF RunRaises, PutEvent
<1>9. CASE FinishRow
  BY <1>9 DEF FinishRow
<1>10. CASE Finalize
  BY <1>10 DEF Finalize
<1>11. CASE StoreResult
  BY <1>11 DEF StoreResult
<1>12. CASE RaiseFlag
  BY <1>12 DEF RaiseFlag
<1>13. CASE PutSentinel
  BY <1>13 DEF PutSentinel
<1>14. CASE ScheduleCleanup
  BY <1>14 DEF ScheduleCleanup
<1>15. CASE Cleanup
  BY <1>15 DEF Cleanup, RemoveTree
<1>16. ASSUME NEW c \in Streams, Open(c)
      PROVE  WorkerStaged'
  BY <1>16 DEF Open, Goto
<1>17. ASSUME NEW c \in Streams, Begin(c)
      PROVE  WorkerStaged'
  BY <1>17 DEF Begin, Goto
<1>18. ASSUME NEW c \in Streams, Poll(c)
      PROVE  WorkerStaged'
  BY <1>18 DEF Poll, TakeHead, Goto
<1>19. ASSUME NEW c \in Streams, PollEmpty(c)
      PROVE  WorkerStaged'
  BY <1>19 DEF PollEmpty, Goto
<1>20. ASSUME NEW c \in Streams, CheckDone(c)
      PROVE  WorkerStaged'
  BY <1>20 DEF CheckDone, AfterDone, Goto
<1>21. ASSUME NEW c \in Streams, CheckEmpty(c)
      PROVE  WorkerStaged'
  BY <1>21 DEF CheckEmpty, Goto
<1>22. ASSUME NEW c \in Streams, Disconnect(c)
      PROVE  WorkerStaged'
  BY <1>22 DEF Disconnect, Goto
<1>23. CASE DeleteEntry
  BY <1>23 DEF DeleteEntry
<1>24. CASE DeleteRow
  BY <1>24 DEF DeleteRow
<1>25. CASE UNCHANGED vars
  BY <1>25 DEF vars
<1> QED
  BY <1>1, <1>2, <1>3, <1>4, <1>5, <1>6, <1>7, <1>8, <1>9, <1>10, <1>11, <1>12, <1>13,
       <1>14, <1>15, <1>16, <1>17, <1>18, <1>19, <1>20, <1>21, <1>22, <1>23, <1>24, <1>25
       DEF Next, WorkerStep, StreamStep

\* The bound leaves room for the end of the run.
LEMMA NextRoom ==
  ASSUME TypeOK, WorkerStaged, Room, [Next]_vars
  PROVE  Room'
<1> USE LifecycleAssumption DEF entry, run, disk, sse, TypeOK, Room
<1>1. CASE StartRun
  BY <1>1 DEF StartRun
<1>2. CASE StartFails
  BY <1>2 DEF StartFails, RemoveTree
<1>3. CASE CreateRow
  BY <1>3 DEF CreateRow, WorkerStaged
<1>4. CASE EmitEvent
  BY <1>4 DEF EmitEvent, PutEvent
<1>5. CASE EmitDone
  BY <1>5 DEF EmitDone, PutEvent
<1>6. CASE EmitRaises
  BY <1>6 DEF EmitRaises
<1>7. CASE RunReturns
  BY <1>7 DEF RunReturns
<1>8. CASE RunRaises
  BY <1>8 DEF RunRaises, PutEvent
<1>9. CASE FinishRow
  BY <1>9 DEF FinishRow
<1>10. CASE Finalize
  BY <1>10 DEF Finalize
<1>11. CASE StoreResult
  BY <1>11 DEF StoreResult
<1>12. CASE RaiseFlag
  BY <1>12 DEF RaiseFlag
<1>13. CASE PutSentinel
  BY <1>13 DEF PutSentinel
<1>14. CASE ScheduleCleanup
  BY <1>14 DEF ScheduleCleanup
<1>15. CASE Cleanup
  BY <1>15 DEF Cleanup, RemoveTree
<1>16. ASSUME NEW c \in Streams, Open(c)
      PROVE  Room'
  BY <1>16 DEF Open, Goto
<1>17. ASSUME NEW c \in Streams, Begin(c)
      PROVE  Room'
  BY <1>17 DEF Begin, Goto
<1>18. ASSUME NEW c \in Streams, Poll(c)
      PROVE  Room'
  BY <1>18 DEF Poll, TakeHead, Goto
<1>19. ASSUME NEW c \in Streams, PollEmpty(c)
      PROVE  Room'
  BY <1>19 DEF PollEmpty, Goto
<1>20. ASSUME NEW c \in Streams, CheckDone(c)
      PROVE  Room'
  BY <1>20 DEF CheckDone, AfterDone, Goto
<1>21. ASSUME NEW c \in Streams, CheckEmpty(c)
      PROVE  Room'
  BY <1>21 DEF CheckEmpty, Goto
<1>22. ASSUME NEW c \in Streams, Disconnect(c)
      PROVE  Room'
  BY <1>22 DEF Disconnect, Goto
<1>23. CASE DeleteEntry
  BY <1>23 DEF DeleteEntry
<1>24. CASE DeleteRow
  BY <1>24 DEF DeleteRow
<1>25. CASE UNCHANGED vars
  BY <1>25 DEF vars
<1> QED
  BY <1>1, <1>2, <1>3, <1>4, <1>5, <1>6, <1>7, <1>8, <1>9, <1>10, <1>11, <1>12, <1>13,
       <1>14, <1>15, <1>16, <1>17, <1>18, <1>19, <1>20, <1>21, <1>22, <1>23, <1>24, <1>25
       DEF Next, WorkerStep, StreamStep

\* Only DELETE removes the entry.
LEMMA NextDeleted ==
  ASSUME TypeOK, WorkerStaged, Deleted, [Next]_vars
  PROVE  Deleted'
<1> USE LifecycleAssumption DEF entry, run, disk, sse, TypeOK, WorkerControl, Outcome,
     Deleted
<1>1. CASE StartRun
  BY <1>1 DEF StartRun, WorkerStaged
<1>2. CASE StartFails
  BY <1>2 DEF StartFails, RemoveTree
<1>3. CASE CreateRow
  BY <1>3 DEF CreateRow
<1>4. CASE EmitEvent
  BY <1>4 DEF EmitEvent, PutEvent
<1>5. CASE EmitDone
  BY <1>5 DEF EmitDone, PutEvent
<1>6. CASE EmitRaises
  BY <1>6 DEF EmitRaises
<1>7. CASE RunReturns
  BY <1>7 DEF RunReturns
<1>8. CASE RunRaises
  BY <1>8 DEF RunRaises, PutEvent
<1>9. CASE FinishRow
  BY <1>9 DEF FinishRow
<1>10. CASE Finalize
  BY <1>10 DEF Finalize
<1>11. CASE StoreResult
  BY <1>11 DEF StoreResult
<1>12. CASE RaiseFlag
  BY <1>12 DEF RaiseFlag
<1>13. CASE PutSentinel
  BY <1>13 DEF PutSentinel
<1>14. CASE ScheduleCleanup
  BY <1>14 DEF ScheduleCleanup
<1>15. CASE Cleanup
  BY <1>15 DEF Cleanup, RemoveTree
<1>16. ASSUME NEW c \in Streams, Open(c)
      PROVE  Deleted'
  BY <1>16 DEF Open, Goto
<1>17. ASSUME NEW c \in Streams, Begin(c)
      PROVE  Deleted'
  BY <1>17 DEF Begin, Goto
<1>18. ASSUME NEW c \in Streams, Poll(c)
      PROVE  Deleted'
  BY <1>18 DEF Poll, TakeHead, Goto
<1>19. ASSUME NEW c \in Streams, PollEmpty(c)
      PROVE  Deleted'
  BY <1>19 DEF PollEmpty, Goto
<1>20. ASSUME NEW c \in Streams, CheckDone(c)
      PROVE  Deleted'
  BY <1>20 DEF CheckDone, AfterDone, Goto
<1>21. ASSUME NEW c \in Streams, CheckEmpty(c)
      PROVE  Deleted'
  BY <1>21 DEF CheckEmpty, Goto
<1>22. ASSUME NEW c \in Streams, Disconnect(c)
      PROVE  Deleted'
  BY <1>22 DEF Disconnect, Goto
<1>23. CASE DeleteEntry
  BY <1>23 DEF DeleteEntry
<1>24. CASE DeleteRow
  BY <1>24 DEF DeleteRow
<1>25. CASE UNCHANGED vars
  BY <1>25 DEF vars
<1> QED
  BY <1>1, <1>2, <1>3, <1>4, <1>5, <1>6, <1>7, <1>8, <1>9, <1>10, <1>11, <1>12, <1>13,
       <1>14, <1>15, <1>16, <1>17, <1>18, <1>19, <1>20, <1>21, <1>22, <1>23, <1>24, <1>25
       DEF Next, WorkerStep, StreamStep

\* Events are queued in the order of their numbers and taken off at the front.
LEMMA NextDelivery ==
  ASSUME TypeOK, WorkerStaged, Room, Delivery, [Next]_vars
  PROVE  Delivery'
<1> USE LifecycleAssumption DEF entry, run, disk, sse, Delivery, QueueOrdered,
     ReceivedEarlier, InOrderOnce
<1>1. CASE StartRun
  BY <1>1 DEF StartRun
<1>2. CASE StartFails
  BY <1>2 DEF StartFails, RemoveTree
<1>3. CASE CreateRow
  BY <1>3 DEF CreateRow
<1>4. CASE EmitEvent
  <2>1. emitted < MaxEvents /\ worker \notin {"schedule", "ended"} /\ UNCHANGED received
    BY <1>4 DEF EmitEvent, Room, TypeOK
  <2> QED
    BY <1>4, <2>1, EventPut DEF EmitEvent
<1>5. CASE EmitDone
  <2>1. emitted < MaxEvents /\ worker \notin {"schedule", "ended"} /\ UNCHANGED received
    BY <1>5 DEF EmitDone, Room, TypeOK
  <2> QED
    BY <1>5, <2>1, EventPut DEF EmitDone
<1>6. CASE EmitRaises
  BY <1>6 DEF EmitRaises
<1>7. CASE RunReturns
  BY <1>7 DEF RunReturns
<1>8. CASE RunRaises
  <2>1. worker = "running" /\ emitted < MaxEvents /\ UNCHANGED received
    BY <1>8 DEF RunRaises, Room, TypeOK
  <2>2. CASE PutEvent
    <3>1. queue' \in Seq(0..MaxEvents) /\ Delivery'
      BY <2>1, <2>2, EventPut
    <3> QED
      BY <3>1
  <2>3. CASE UNCHANGED <<queue, emitted>>
    BY <1>8, <2>1, <2>3 DEF RunRaises
  <2> QED
    BY <1>8, <2>2, <2>3 DEF RunRaises
<1>9. CASE FinishRow
  BY <1>9 DEF FinishRow, WorkerStaged
<1>10. CASE Finalize
  BY <1>10 DEF Finalize
<1>11. CASE StoreResult
  BY <1>11 DEF StoreResult
<1>12. CASE RaiseFlag
  BY <1>12 DEF RaiseFlag
<1>13. CASE PutSentinel
  BY <1>13, SentinelPut DEF PutSentinel
<1>14. CASE ScheduleCleanup
  BY <1>14 DEF ScheduleCleanup
<1>15. CASE Cleanup
  BY <1>15 DEF Cleanup, RemoveTree
<1>16. ASSUME NEW c \in Streams, Open(c)
      PROVE  Delivery'
  BY <1>16 DEF Open, Goto
<1>17. ASSUME NEW c \in Streams, Begin(c)
      PROVE  Delivery'
  BY <1>17 DEF Begin, Goto
<1>18. ASSUME NEW c \in Streams, Poll(c)
      PROVE  Delivery'
  BY <1>18, EventTaken, SentinelTaken DEF Poll, TakeHead, Goto
<1>19. ASSUME NEW c \in Streams, PollEmpty(c)
      PROVE  Delivery'
  BY <1>19 DEF PollEmpty, Goto
<1>20. ASSUME NEW c \in Streams, CheckDone(c)
      PROVE  Delivery'
  BY <1>20 DEF CheckDone, AfterDone, Goto
<1>21. ASSUME NEW c \in Streams, CheckEmpty(c)
      PROVE  Delivery'
  BY <1>21 DEF CheckEmpty, Goto
<1>22. ASSUME NEW c \in Streams, Disconnect(c)
      PROVE  Delivery'
  BY <1>22 DEF Disconnect, Goto
<1>23. CASE DeleteEntry
  BY <1>23 DEF DeleteEntry
<1>24. CASE DeleteRow
  BY <1>24 DEF DeleteRow
<1>25. CASE UNCHANGED vars
  BY <1>25 DEF vars
<1> QED
  BY <1>1, <1>2, <1>3, <1>4, <1>5, <1>6, <1>7, <1>8, <1>9, <1>10, <1>11, <1>12, <1>13,
       <1>14, <1>15, <1>16, <1>17, <1>18, <1>19, <1>20, <1>21, <1>22, <1>23, <1>24, <1>25
       DEF Next, WorkerStep, StreamStep

\* An event moves from the queue to a stream.
LEMMA NextConserved ==
  ASSUME TypeOK, WorkerStaged, Room, Delivery, Conserved, [Next]_vars
  PROVE  Conserved'
<1> USE LifecycleAssumption DEF entry, run, disk, sse, Conserved
<1>1. CASE StartRun
  BY <1>1 DEF StartRun
<1>2. CASE StartFails
  BY <1>2 DEF StartFails, RemoveTree
<1>3. CASE CreateRow
  BY <1>3 DEF CreateRow
<1>4. CASE EmitEvent
  <2>1. emitted < MaxEvents /\ worker \notin {"schedule", "ended"} /\ UNCHANGED received
    BY <1>4 DEF EmitEvent, Room, TypeOK
  <2>2. ToSet(queue') = ToSet(queue) \cup {emitted'} /\ emitted' = emitted + 1
    BY <1>4, <2>1, EventPut DEF EmitEvent, PutEvent
  <2> QED
    BY <2>1, <2>2 DEF TypeOK
<1>5. CASE EmitDone
  <2>1. emitted < MaxEvents /\ worker \notin {"schedule", "ended"} /\ UNCHANGED received
    BY <1>5 DEF EmitDone, Room, TypeOK
  <2>2. ToSet(queue') = ToSet(queue) \cup {emitted'} /\ emitted' = emitted + 1
    BY <1>5, <2>1, EventPut DEF EmitDone, PutEvent
  <2> QED
    BY <2>1, <2>2 DEF TypeOK
<1>6. CASE EmitRaises
  BY <1>6 DEF EmitRaises
<1>7. CASE RunReturns
  BY <1>7 DEF RunReturns
<1>8. CASE RunRaises
  <2>1. worker = "running" /\ emitted < MaxEvents /\ UNCHANGED received
    BY <1>8 DEF RunRaises, Room, TypeOK
  <2>2. CASE PutEvent
    <3>1. ToSet(queue') = ToSet(queue) \cup {emitted'} /\ emitted' = emitted + 1
      BY <2>1, <2>2, EventPut DEF PutEvent
    <3> QED
      BY <2>1, <3>1 DEF TypeOK
  <2>3. CASE UNCHANGED <<queue, emitted>>
    BY <1>8, <2>1, <2>3 DEF RunRaises
  <2> QED
    BY <1>8, <2>2, <2>3 DEF RunRaises
<1>9. CASE FinishRow
  BY <1>9 DEF FinishRow
<1>10. CASE Finalize
  BY <1>10 DEF Finalize
<1>11. CASE StoreResult
  BY <1>11 DEF StoreResult
<1>12. CASE RaiseFlag
  BY <1>12 DEF RaiseFlag
<1>13. CASE PutSentinel
  BY <1>13, SentinelPut DEF PutSentinel
<1>14. CASE ScheduleCleanup
  BY <1>14 DEF ScheduleCleanup
<1>15. CASE Cleanup
  BY <1>15 DEF Cleanup, RemoveTree
<1>16. ASSUME NEW c \in Streams, Open(c)
      PROVE  Conserved'
  BY <1>16 DEF Open, Goto
<1>17. ASSUME NEW c \in Streams, Begin(c)
      PROVE  Conserved'
  BY <1>17 DEF Begin, Goto
<1>18. ASSUME NEW c \in Streams, Poll(c)
      PROVE  Conserved'
  <2>1. emitted' = emitted
    BY <1>18 DEF Poll
  <2>2. CASE Head(queue) = Sentinel
    <3>1. ToSet(queue) = {0} /\ received' = received
      BY <1>18, <2>2, SentinelTaken DEF Sentinel, Poll
    <3>2. \A e \in 1..emitted : e # 0
      BY DEF TypeOK
    <3> QED
      BY <2>1, <3>1, <3>2
  <2>3. CASE Head(queue) # Sentinel
    BY <1>18, <2>1, <2>3, EventTaken
  <2> QED
    BY <2>2, <2>3
<1>19. ASSUME NEW c \in Streams, PollEmpty(c)
      PROVE  Conserved'
  BY <1>19 DEF PollEmpty, Goto
<1>20. ASSUME NEW c \in Streams, CheckDone(c)
      PROVE  Conserved'
  BY <1>20 DEF CheckDone, AfterDone, Goto
<1>21. ASSUME NEW c \in Streams, CheckEmpty(c)
      PROVE  Conserved'
  BY <1>21 DEF CheckEmpty, Goto
<1>22. ASSUME NEW c \in Streams, Disconnect(c)
      PROVE  Conserved'
  BY <1>22 DEF Disconnect, Goto
<1>23. CASE DeleteEntry
  BY <1>23 DEF DeleteEntry
<1>24. CASE DeleteRow
  BY <1>24 DEF DeleteRow
<1>25. CASE UNCHANGED vars
  BY <1>25 DEF vars
<1> QED
  BY <1>1, <1>2, <1>3, <1>4, <1>5, <1>6, <1>7, <1>8, <1>9, <1>10, <1>11, <1>12, <1>13,
       <1>14, <1>15, <1>16, <1>17, <1>18, <1>19, <1>20, <1>21, <1>22, <1>23, <1>24, <1>25
       DEF Next, WorkerStep, StreamStep

\* A stream that ends leaves no event in the queue, and none follows.
LEMMA NextEnds ==
  ASSUME TypeOK, WorkerStaged, Room, Delivery, Ends, [Next]_vars
  PROVE  Ends'
<1> USE LifecycleAssumption DEF entry, run, disk, sse, TypeOK, Ends, WorkerStaged, Flagged
<1>1. CASE StartRun
  BY <1>1 DEF StartRun
<1>2. CASE StartFails
  BY <1>2 DEF StartFails, RemoveTree
<1>3. CASE CreateRow
  BY <1>3 DEF CreateRow
<1>4. CASE EmitEvent
  BY <1>4 DEF EmitEvent, PutEvent
<1>5. CASE EmitDone
  BY <1>5 DEF EmitDone, PutEvent
<1>6. CASE EmitRaises
  BY <1>6 DEF EmitRaises
<1>7. CASE RunReturns
  BY <1>7 DEF RunReturns
<1>8. CASE RunRaises
  BY <1>8 DEF RunRaises, PutEvent
<1>9. CASE FinishRow
  BY <1>9 DEF FinishRow
<1>10. CASE Finalize
  BY <1>10 DEF Finalize
<1>11. CASE StoreResult
  BY <1>11 DEF StoreResult
<1>12. CASE RaiseFlag
  BY <1>12 DEF RaiseFlag
<1>13. CASE PutSentinel
  BY <1>13, SentinelPut DEF PutSentinel
<1>14. CASE ScheduleCleanup
  BY <1>14 DEF ScheduleCleanup
<1>15. CASE Cleanup
  BY <1>15 DEF Cleanup, RemoveTree
<1>16. ASSUME NEW c \in Streams, Open(c)
      PROVE  Ends'
  BY <1>16 DEF Open, Goto
<1>17. ASSUME NEW c \in Streams, Begin(c)
      PROVE  Ends'
  BY <1>17 DEF Begin, Goto
<1>18. ASSUME NEW c \in Streams, Poll(c)
      PROVE  Ends'
  <2>1. CASE Head(queue) = Sentinel
    <3>1. ToSet(queue') = {} /\ worker \in Flagged /\ worker' = worker /\ done' = done
      BY <1>18, <2>1, SentinelTaken DEF Poll
    <3>2. \A d \in Streams : stream'[d] = "recheck" => stream[d] = "recheck"
      BY <1>18, <2>1 DEF Poll, Goto
    <3> QED
      BY <3>1, <3>2
  <2>2. CASE Head(queue) # Sentinel
    <3>1. ToSet(queue') \subseteq ToSet(queue)
      BY <1>18, QueueRead DEF Poll, TakeHead
    <3> QED
      BY <1>18, <2>2, <3>1 DEF Poll
  <2> QED
    BY <2>1, <2>2
<1>19. ASSUME NEW c \in Streams, PollEmpty(c)
      PROVE  Ends'
  BY <1>19 DEF PollEmpty, Goto
<1>20. ASSUME NEW c \in Streams, CheckDone(c)
      PROVE  Ends'
  BY <1>20 DEF CheckDone, AfterDone, Goto
<1>21. ASSUME NEW c \in Streams, CheckEmpty(c)
      PROVE  Ends'
  <2>1. queue = <<>> => ToSet(queue) = {}
    BY DEF ToSet
  <2> QED
    BY <1>21, <2>1 DEF CheckEmpty, Goto
<1>22. ASSUME NEW c \in Streams, Disconnect(c)
      PROVE  Ends'
  BY <1>22 DEF Disconnect, Goto
<1>23. CASE DeleteEntry
  BY <1>23 DEF DeleteEntry
<1>24. CASE DeleteRow
  BY <1>24 DEF DeleteRow
<1>25. CASE UNCHANGED vars
  BY <1>25 DEF vars
<1> QED
  BY <1>1, <1>2, <1>3, <1>4, <1>5, <1>6, <1>7, <1>8, <1>9, <1>10, <1>11, <1>12, <1>13,
       <1>14, <1>15, <1>16, <1>17, <1>18, <1>19, <1>20, <1>21, <1>22, <1>23, <1>24, <1>25
       DEF Next, WorkerStep, StreamStep

-----------------------------------------------------------------------------
(* Theorems *)

\* Before POST /api/run there is nothing.
LEMMA InitIInv == Init => IInv
<1> SUFFICES ASSUME Init
             PROVE  IInv
  OBVIOUS
<1>1. /\ ToSet(queue) = {} /\ DOMAIN queue = {}
      /\ \A c \in Streams : DOMAIN received[c] = {}
  BY DEF Init, ToSet
<1>2. TypeOK
  <2>1. queue \in Seq(0..MaxEvents) /\ received \in [Streams -> Seq(1..MaxEvents)]
    BY EmptySeq DEF Init
  <2>2. emitted \in 0..MaxEvents
    BY LifecycleAssumption DEF Init
  <2> QED
    BY <2>1, <2>2 DEF Init, TypeOK, WorkerControl, Outcome
<1>3. WorkerStaged /\ Room /\ Deleted /\ Conserved /\ Ends
  BY DEF Init, WorkerStaged, Room, Deleted, Conserved, Ends
<1>4. QueueOrdered /\ ReceivedEarlier /\ InOrderOnce
  BY <1>1 DEF QueueOrdered, ReceivedEarlier, InOrderOnce
<1> QED
  BY <1>2, <1>3, <1>4 DEF IInv

\* The conjuncts carry one another through every step.
LEMMA NextIInv == IInv /\ [Next]_vars => IInv'
BY NextTypeOK, NextWorkerStaged, NextRoom, NextDeleted, NextDelivery, NextConserved, NextEnds
   DEF IInv, Delivery

\* IInv holds in every reachable state.
THEOREM LifecycleInvariant == Spec => []IInv
BY InitIInv, NextIInv, PTL DEF Spec

\* Every variable of the run, its streams and its row keeps its type.
THEOREM LifecycleTypes == Spec => []TypeOK
<1>1. IInv => TypeOK
  BY DEF IInv
<1> QED
  BY <1>1, LifecycleInvariant, PTL

\* The streams of a run that share its queue get every event at most once, and each of them
\* gets its events in the order in which they were emitted.
THEOREM DeliveredInOrder == Spec => []InOrderOnce
<1>1. IInv => InOrderOnce
  BY DEF IInv
<1> QED
  BY <1>1, LifecycleInvariant, PTL

\* stream_end: when a stream has ended, every event of the run was handed to some stream.
THEOREM StreamsComplete == Spec => []NothingLeftBehind
<1>1. IInv => NothingLeftBehind
  <2> SUFFICES ASSUME IInv, NEW c \in Streams, stream[c] = "ended"
               PROVE  /\ worker \notin {"create", "running"}
                      /\ \A e \in 1..emitted : \E d \in Streams : e \in ToSet(received[d])
    BY DEF NothingLeftBehind
  <2>1. worker \in Flagged /\ ToSet(queue) \subseteq {0}
    BY DEF IInv, Ends, Sentinel
  <2>2. \A e \in 1..emitted : e # 0
    BY DEF IInv, TypeOK
  <2> QED
    BY <2>1, <2>2 DEF IInv, Conserved, Flagged
<1> QED
  BY <1>1, LifecycleInvariant, PTL

\* _finalize: a run that is done has a result, and a row that was finished agrees with it.
THEOREM StoriesAgree == Spec => []ResultsAgree
<1>1. IInv => ResultsAgree
  BY DEF IInv, ResultsAgree, WorkerStaged, Deleted
<1> QED
  BY <1>1, LifecycleInvariant, PTL

=============================================================================
