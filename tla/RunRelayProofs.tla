--------------------------- MODULE RunRelayProofs ---------------------------
(***************************************************************************)
(* Theorems about module RunRelay, for any number of events.               *)
(*                                                                         *)
(* The invariant has two halves.  Staged ties the relay's place to the     *)
(* worker's: a run that is done either was never enqueued in good order,   *)
(* or its job has ended and nothing of it changes any more.  Ordered and   *)
(* Delivered follow the events: what is in the channel is later than what  *)
(* was fed, the result is behind everything, and no event is missing       *)
(* between the two.                                                        *)
(***************************************************************************)
EXTENDS RunRelay, SequenceFacts

Failed == RelayError \in ToSet(queue)

\* How far the relay has come.
RelayStaged ==
  /\ relay \in {"subscribe", "enqueue"} => job = "none" /\ queue = <<>>
  /\ relay \in {"subscribe", "enqueue", "listening", "finalize"} => ~done
  /\ relay = "cleanup" => done
  /\ workspace = "removed" => done
  /\ Failed => relay \notin {"subscribe", "enqueue", "listening"} /\ (job = "none" \/ doubtful)
  /\ done \/ relay = "finalize" => Failed \/ job = "ended"
  /\ done => result = Received

\* How far the job has come.
JobStaged ==
  /\ job \in {"none", "queued", "create"} => emitted = 0 /\ row = "none"
  /\ job \in {"none", "queued", "create", "running"} =>
       outcome = "none" /\ row \in {"none", "running"}
  /\ job \in {"finish", "publish", "ended"} => outcome # "none"
  /\ row \notin {"none", "running"} => row = outcome

\* The channel is in order, behind the queue, and the result comes last.
Ordered ==
  /\ \A i, j \in DOMAIN channel : i < j => channel[i] < channel[j]
  /\ \A i \in DOMAIN channel : IF channel[i] = Result THEN job = "ended" ELSE channel[i] <= emitted
  /\ \A i \in DOMAIN queue : queue[i] <= emitted
  /\ \A i \in DOMAIN queue, j \in DOMAIN channel : queue[i] < channel[j]

\* The relay's own event is alone in the queue.
Alone == Failed => queue = <<RelayError>>

Reached == ToSet(queue) \cup lost

\* Nothing is missing once the subscription is confirmed.
Delivered ==
  /\ relay = "enqueue" /\ ~unconfirmed => subscription = "active"
  /\ relay = "listening" /\ ~unconfirmed =>
       /\ subscription = "active"
       /\ 1..emitted \subseteq Reached \cup ToSet(channel)
  /\ (relay = "finalize" \/ done) /\ ~Failed /\ ~unconfirmed => 1..emitted \subseteq Reached

IInv == TypeOK /\ RelayStaged /\ JobStaged /\ Ordered /\ Alone /\ Delivered

-----------------------------------------------------------------------------
(* Sequences *)

\* One more entry in the queue.
LEMMA QueueGrows ==
  ASSUME TypeOK, NEW e \in Events \cup {RelayError}, queue' = Append(queue, e)
  PROVE  /\ queue' \in Seq(Events \cup {RelayError})
         /\ DOMAIN queue = 1..Len(queue) /\ DOMAIN queue' = 1..Len(queue) + 1
         /\ Len(queue) \in Nat
         /\ \A i \in DOMAIN queue : queue'[i] = queue[i]
         /\ queue'[Len(queue) + 1] = e
         /\ ToSet(queue') = ToSet(queue) \cup {e}
<1>1. queue \in Seq(Events \cup {RelayError})
  BY DEF TypeOK
<1> QED
  BY <1>1, Appended

\* One more message in the channel.
LEMMA ChannelGrows ==
  ASSUME TypeOK, NEW m \in Events \cup {Result}, channel' = Append(channel, m)
  PROVE  /\ channel' \in Seq(Events \cup {Result})
         /\ DOMAIN channel = 1..Len(channel) /\ DOMAIN channel' = 1..Len(channel) + 1
         /\ Len(channel) \in Nat
         /\ \A i \in DOMAIN channel : channel'[i] = channel[i]
         /\ channel'[Len(channel) + 1] = m
         /\ ToSet(channel') = ToSet(channel) \cup {m}
<1>1. channel \in Seq(Events \cup {Result})
  BY DEF TypeOK
<1> QED
  BY <1>1, Appended

\* The channel without the message that is read.
LEMMA ChannelRead ==
  ASSUME TypeOK, channel # <<>>
  PROVE  /\ Tail(channel) \in Seq(Events \cup {Result})
         /\ Len(channel) \in Nat \ {0} /\ DOMAIN channel = 1..Len(channel)
         /\ DOMAIN Tail(channel) = 1..Len(channel) - 1
         /\ \A i \in DOMAIN Tail(channel) : Tail(channel)[i] = channel[i + 1]
         /\ Head(channel) = channel[1] /\ Head(channel) \in Events \cup {Result}
         /\ ToSet(channel) = {Head(channel)} \cup ToSet(Tail(channel))
<1>1. channel \in Seq(Events \cup {Result})
  BY DEF TypeOK
<1> QED
  BY <1>1, Shortened

\* publish_event: the message reaches the channel or it is noted as lost, or it finds no
\* confirmed subscription.
LEMMA Published ==
  ASSUME TypeOK, NEW m \in Events \cup {Result}, Publish(m)
  PROVE  /\ channel' \in Seq(Events \cup {Result}) /\ lost' \subseteq Events \cup {Result}
         /\ channel' = channel \/ channel' = Append(channel, m)
         /\ lost \subseteq lost'
         /\ ToSet(channel) \subseteq ToSet(channel')
         /\ subscription = "active" => m \in ToSet(channel') \cup lost'
<1>1. /\ Append(channel, m) \in Seq(Events \cup {Result})
      /\ ToSet(Append(channel, m)) = ToSet(channel) \cup {m}
  BY Appended DEF TypeOK
<1> QED
  BY <1>1 DEF Publish, TypeOK

-----------------------------------------------------------------------------
\* A message later than all before it keeps the order.
LEMMA PublishedInOrder ==
  ASSUME TypeOK, Ordered, job # "ended", emitted' \in Nat, emitted <= emitted', queue' = queue,
         NEW m \in Events \cup {Result}, emitted < m,
         IF m = Result THEN job' = "ended" ELSE m <= emitted',
         channel' = channel \/ channel' = Append(channel, m)
  PROVE  Ordered'
<1> USE RelayAssumption DEF TypeOK, Ordered, Events, Result, RelayError
<1>1. \A i \in DOMAIN channel : channel[i] # Result /\ channel[i] <= emitted
  OBVIOUS
<1>2. emitted \in Nat /\ \A i \in DOMAIN queue : queue[i] \in Nat /\ queue[i] < m
  BY LenProperties
<1>3. CASE channel' = channel
  BY <1>1, <1>2, <1>3, LenProperties
<1>4. CASE channel' = Append(channel, m)
  <2>1. /\ DOMAIN channel = 1..Len(channel) /\ DOMAIN channel' = 1..Len(channel) + 1
        /\ Len(channel) \in Nat
        /\ \A i \in DOMAIN channel : channel'[i] = channel[i]
        /\ channel'[Len(channel) + 1] = m
    BY <1>4, ChannelGrows
  <2>2. \A i \in DOMAIN channel : channel[i] \in Nat /\ channel[i] < m
    BY <1>1, <2>1, LenProperties
  <2>3. \A i \in DOMAIN queue : queue[i] \in Nat
    BY <1>2
  <2>4. \A i, j \in DOMAIN channel' : i < j => channel'[i] < channel'[j]
    BY <2>1, <2>2
  <2>5. \A i \in DOMAIN channel' :
          IF channel'[i] = Result THEN job' = "ended" ELSE channel'[i] <= emitted'
    <3> HIDE DEF TypeOK, Ordered, Events, Result, RelayError
    <3>1. ASSUME NEW i \in DOMAIN channel
          PROVE  channel'[i] # Result /\ channel'[i] <= emitted'
      <4>1. channel'[i] = channel[i] /\ channel[i] \in Nat /\ channel[i] <= emitted
        BY <1>1, <2>1, <2>2
      <4> QED
        BY <1>1, <1>2, <4>1
    <3>2. \A i \in DOMAIN channel' : i \in DOMAIN channel \/ i = Len(channel) + 1
      BY <2>1
    <3> QED
      BY <2>1, <3>1, <3>2
  <2>6. \A i \in DOMAIN queue', j \in DOMAIN channel' : queue'[i] < channel'[j]
    BY <1>2, <2>1, <2>2
  <2> QED
    BY <1>2, <2>4, <2>5, <2>6
<1> QED
  BY <1>3, <1>4

\* So does moving the first message to the queue.
LEMMA RelayedInOrder ==
  ASSUME TypeOK, Ordered, channel # <<>>, Head(channel) # Result,
         queue' = Append(queue, Head(channel)), channel' = Tail(channel),
         job' = job, emitted' = emitted
  PROVE  Ordered'
<1> USE RelayAssumption DEF TypeOK, Ordered, Events, Result, RelayError
<1>1. /\ Len(channel) \in Nat \ {0} /\ DOMAIN channel = 1..Len(channel)
      /\ DOMAIN channel' = 1..Len(channel) - 1
      /\ \A i \in DOMAIN channel' : channel'[i] = channel[i + 1]
      /\ Head(channel) = channel[1] /\ Head(channel) \in Events
  BY ChannelRead
<1>2. /\ DOMAIN queue = 1..Len(queue) /\ DOMAIN queue' = 1..Len(queue) + 1
      /\ Len(queue) \in Nat
      /\ \A i \in DOMAIN queue : queue'[i] = queue[i]
      /\ queue'[Len(queue) + 1] = Head(channel)
  BY <1>1, QueueGrows
<1>3. \A i \in DOMAIN channel' : i + 1 \in DOMAIN channel /\ 1 < i + 1
  BY <1>1
<1>4. \A i, j \in DOMAIN channel' : i < j => channel'[i] < channel'[j]
  BY <1>1, <1>3
<1>5. \A i \in DOMAIN channel' :
        IF channel'[i] = Result THEN job' = "ended" ELSE channel'[i] <= emitted'
  BY <1>1, <1>3
<1>6. \A i \in DOMAIN queue' : queue'[i] <= emitted'
  <2>1. Head(channel) <= emitted
    BY <1>1
  <2> QED
    BY <1>2, <2>1
<1>7. \A i \in DOMAIN queue', j \in DOMAIN channel' : queue'[i] < channel'[j]
  <2>1. \A j \in DOMAIN channel' : Head(channel) < channel'[j]
    BY <1>1, <1>3
  <2>2. \A i \in DOMAIN queue, j \in DOMAIN channel' : queue'[i] < channel'[j]
    BY <1>1, <1>2, <1>3
  <2> QED
    BY <1>2, <2>1, <2>2
<1> QED
  BY <1>4, <1>5, <1>6, <1>7

\* Nothing leaves its type: an event is numbered within the bound, and the result of a run
\* that is done is a verdict.
LEMMA NextTypeOK ==
  ASSUME TypeOK, [Next]_vars
  PROVE  TypeOK'
<1> USE RelayAssumption DEF api, redis, run, TypeOK, RelayControl, JobControl, Events,
     Result, RelayError
<1>1. CASE Subscribe
  <2>1. subscription' \in {"sent", "active"} /\ unconfirmed' \in BOOLEAN
    BY <1>1 DEF Subscribe
  <2> QED
    BY <1>1, <2>1 DEF Subscribe
<1>2. CASE SubscribeRaises
  BY <1>2 DEF SubscribeRaises
<1>3. CASE Enqueue
  BY <1>3 DEF Enqueue
<1>4. CASE EnqueueFails
  <2>1. queue' \in Seq(Events \cup {RelayError})
    BY <1>4, QueueGrows DEF EnqueueFails
  <2>2. channel' \in Seq(Events \cup {Result})
    BY <1>4, EmptySeq DEF EnqueueFails, CloseSubscription
  <2>3. job' \in JobControl /\ doubtful' \in BOOLEAN /\ relay' \in RelayControl
    BY <1>4 DEF EnqueueFails
  <2> QED
    BY <1>4, <2>1, <2>2, <2>3 DEF EnqueueFails, CloseSubscription
<1>5. CASE RelayEvent
  <2>1. Head(channel) \in Events /\ Tail(channel) \in Seq(Events \cup {Result})
    BY <1>5, ChannelRead DEF RelayEvent
  <2>3. CASE present
    <3>1. queue' \in Seq(Events \cup {RelayError})
      BY <1>5, <2>1, <2>3, QueueGrows DEF RelayEvent
    <3>2. channel' \in Seq(Events \cup {Result})
      BY <1>5, <2>1, <2>3 DEF RelayEvent, RestAfter
    <3>3. UNCHANGED <<relay, subscription, unconfirmed, present, done, result, run, workspace,
                      doubtful>>
      BY <1>5, <2>3 DEF RelayEvent
    <3> QED
      BY <3>1, <3>2, <3>3
  <2>4. CASE ~present
    BY <1>5, <2>4, EmptySeq DEF RelayEvent, CloseSubscription
  <2> QED
    BY <2>3, <2>4
<1>6. CASE RelayResult
  BY <1>6, EmptySeq DEF RelayResult, CloseSubscription
<1>7. CASE Finalize
  <2>1. done' \in BOOLEAN /\ result' \in {"none", "completed", "failed"} /\ relay' \in RelayControl
    BY <1>7 DEF Finalize, Received
  <2> QED
    BY <1>7, <2>1 DEF Finalize
<1>8. CASE Cleanup
  BY <1>8 DEF Cleanup
<1>9. CASE ListenRaises
  BY <1>9, EmptySeq DEF ListenRaises, CloseSubscription
<1>10. CASE PickJob
  BY <1>10 DEF PickJob
<1>11. CASE CreateRow
  BY <1>11 DEF CreateRow
<1>12. CASE EmitEvent
  BY <1>12, Published DEF EmitEvent
<1>13. CASE RunReturns
  BY <1>13 DEF RunReturns
<1>14. CASE RunRaises
  BY <1>14, Published DEF RunRaises
<1>15. CASE FinishRow
  BY <1>15 DEF FinishRow
<1>16. CASE PublishResult
  BY <1>16, Published DEF PublishResult
<1>17. CASE Confirm
  BY <1>17 DEF Confirm
<1>18. CASE Kill
  BY <1>18 DEF Kill
<1>19. CASE Delete
  <2>1. present' \in BOOLEAN
    BY <1>19 DEF Delete
  <2> QED
    BY <1>19, <2>1 DEF Delete
<1>20. CASE Restart
  <2>1. present' \in BOOLEAN /\ channel' \in Seq(Events \cup {Result})
    BY <1>20, EmptySeq DEF Restart, CloseSubscription
  <2> QED
    BY <1>20, <2>1 DEF Restart, CloseSubscription
<1>21. CASE UNCHANGED vars
  BY <1>21 DEF vars
<1> QED
  BY <1>1, <1>2, <1>3, <1>4, <1>5, <1>6, <1>7, <1>8, <1>9, <1>10, <1>11, <1>12, <1>13,
       <1>14, <1>15, <1>16, <1>17, <1>18, <1>19, <1>20, <1>21 DEF Next, RelayStep,
       WorkerStep

\* The relay is done only with a job that has ended, or with its own error.
LEMMA NextRelayStaged ==
  ASSUME TypeOK, RelayStaged, JobStaged, Ordered, [Next]_vars
  PROVE  RelayStaged'
<1> USE RelayAssumption DEF api, redis, run, TypeOK, RelayControl, JobControl, Events,
     Result, RelayError, RelayStaged, Failed, Received
<1>1. CASE Subscribe
  BY <1>1 DEF Subscribe
<1>2. CASE SubscribeRaises
  BY <1>2 DEF SubscribeRaises
<1>3. CASE Enqueue
  BY <1>3 DEF Enqueue
<1>4. CASE EnqueueFails
  <2>1. job' # "none" => doubtful'
    BY <1>4 DEF EnqueueFails
  <2>2. CASE present
    <3>1. queue' = Append(queue, RelayError) /\ RelayError \in ToSet(queue')
      BY <1>4, <2>2, QueueGrows DEF EnqueueFails
    <3> QED
      BY <1>4, <2>1, <2>2, <3>1 DEF EnqueueFails, CloseSubscription
  <2>3. CASE ~present
    <3>1. queue' = <<>> /\ ToSet(queue') = {}
      BY <1>4, <2>3 DEF EnqueueFails, ToSet
    <3> QED
      BY <1>4, <2>1, <2>3, <3>1 DEF EnqueueFails, CloseSubscription
  <2> QED
    BY <2>2, <2>3
<1>5. CASE RelayEvent
  <2>1. Head(channel) \in Events
    BY <1>5, ChannelRead DEF RelayEvent
  <2>2. ~Failed'
    BY <1>5, <2>1, QueueGrows DEF RelayEvent
  <2> QED
    BY <1>5, <2>2 DEF RelayEvent, CloseSubscription
<1>6. CASE RelayResult
  BY <1>6, ChannelRead DEF RelayResult, CloseSubscription, Ordered
<1>7. CASE Finalize
  BY <1>7 DEF Finalize
<1>8. CASE Cleanup
  BY <1>8 DEF Cleanup
<1>9. CASE ListenRaises
  BY <1>9 DEF ListenRaises, CloseSubscription
<1>10. CASE PickJob
  BY <1>10 DEF PickJob
<1>11. CASE CreateRow
  BY <1>11 DEF CreateRow
<1>12. CASE EmitEvent
  BY <1>12 DEF EmitEvent
<1>13. CASE RunReturns
  BY <1>13 DEF RunReturns
<1>14. CASE RunRaises
  BY <1>14 DEF RunRaises
<1>15. CASE FinishRow
  BY <1>15 DEF FinishRow
<1>16. CASE PublishResult
  BY <1>16 DEF PublishResult
<1>17. CASE Confirm
  BY <1>17 DEF Confirm
<1>18. CASE Kill
  BY <1>18 DEF Kill
<1>19. CASE Delete
  BY <1>19 DEF Delete
<1>20. CASE Restart
  BY <1>20 DEF Restart, CloseSubscription
<1>21. CASE UNCHANGED vars
  BY <1>21 DEF vars
<1> QED
  BY <1>1, <1>2, <1>3, <1>4, <1>5, <1>6, <1>7, <1>8, <1>9, <1>10, <1>11, <1>12, <1>13,
       <1>14, <1>15, <1>16, <1>17, <1>18, <1>19, <1>20, <1>21 DEF Next, RelayStep,
       WorkerStep

\* The outcome is written once, and the row after it.
LEMMA NextJobStaged ==
  ASSUME TypeOK, JobStaged, RelayStaged, [Next]_vars
  PROVE  JobStaged'
<1> USE RelayAssumption DEF api, redis, run, TypeOK, RelayControl, JobControl, Events,
     Result, RelayError, JobStaged, RelayStaged
<1>1. CASE Subscribe
  BY <1>1 DEF Subscribe
<1>2. CASE SubscribeRaises
  BY <1>2 DEF SubscribeRaises
<1>3. CASE Enqueue
  BY <1>3 DEF Enqueue
<1>4. CASE EnqueueFails
  BY <1>4 DEF EnqueueFails, CloseSubscription
<1>5. CASE RelayEvent
  BY <1>5 DEF RelayEvent, CloseSubscription, RestAfter
<1>6. CASE RelayResult
  BY <1>6 DEF RelayResult, CloseSubscription
<1>7. CASE Finalize
  BY <1>7 DEF Finalize, Received
<1>8. CASE Cleanup
  BY <1>8 DEF Cleanup
<1>9. CASE ListenRaises
  BY <1>9 DEF ListenRaises, CloseSubscription
<1>10. CASE PickJob
  BY <1>10 DEF PickJob
<1>11. CASE CreateRow
  BY <1>11 DEF CreateRow
<1>12. CASE EmitEvent
  BY <1>12 DEF EmitEvent
<1>13. CASE RunReturns
  BY <1>13 DEF RunReturns
<1>14. CASE RunRaises
  BY <1>14 DEF RunRaises
<1>15. CASE FinishRow
  BY <1>15 DEF FinishRow
<1>16. CASE PublishResult
  BY <1>16 DEF PublishResult
<1>17. CASE Confirm
  BY <1>17 DEF Confirm
<1>18. CASE Kill
  BY <1>18 DEF Kill
<1>19. CASE Delete
  BY <1>19 DEF Delete
<1>20. CASE Restart
  BY <1>20 DEF Restart, CloseSubscription
<1>21. CASE UNCHANGED vars
  BY <1>21 DEF vars
<1> QED
  BY <1>1, <1>2, <1>3, <1>4, <1>5, <1>6, <1>7, <1>8, <1>9, <1>10, <1>11, <1>12, <1>13,
       <1>14, <1>15, <1>16, <1>17, <1>18, <1>19, <1>20, <1>21 DEF Next, RelayStep,
       WorkerStep

\* Events are published in the order of their numbers and read from the front.
LEMMA NextOrdered ==
  ASSUME TypeOK, RelayStaged, JobStaged, Ordered, [Next]_vars
  PROVE  Ordered'
<1> USE RelayAssumption DEF api, redis, run, TypeOK, RelayControl, JobControl, Events,
     Result, RelayError, Ordered
<1>1. CASE Subscribe
  BY <1>1 DEF Subscribe
<1>2. CASE SubscribeRaises
  BY <1>2 DEF SubscribeRaises
<1>3. CASE Enqueue
  BY <1>3 DEF Enqueue, RelayStaged
<1>4. CASE EnqueueFails
  BY <1>4, QueueGrows DEF EnqueueFails, CloseSubscription, RelayStaged
<1>5. CASE RelayEvent
  <2>1. CASE present
    BY <1>5, <2>1, RelayedInOrder DEF RelayEvent, RestAfter
  <2>2. CASE ~present
    BY <1>5, <2>2 DEF RelayEvent, CloseSubscription
  <2> QED
    BY <2>1, <2>2
<1>6. CASE RelayResult
  BY <1>6 DEF RelayResult, CloseSubscription
<1>7. CASE Finalize
  BY <1>7 DEF Finalize, Received
<1>8. CASE Cleanup
  BY <1>8 DEF Cleanup
<1>9. CASE ListenRaises
  BY <1>9 DEF ListenRaises, CloseSubscription
<1>10. CASE PickJob
  BY <1>10 DEF PickJob
<1>11. CASE CreateRow
  BY <1>11 DEF CreateRow
<1>12. CASE EmitEvent
  <2>1. channel' = channel \/ channel' = Append(channel, emitted + 1)
    BY <1>12 DEF EmitEvent, Publish
  <2> QED
    BY <1>12, <2>1, PublishedInOrder DEF EmitEvent
<1>13. CASE RunReturns
  BY <1>13 DEF RunReturns
<1>14. CASE RunRaises
  <2>1. channel' = channel \/ channel' = Append(channel, emitted + 1)
    BY <1>14 DEF RunRaises, Publish
  <2> QED
    BY <1>14, <2>1, PublishedInOrder DEF RunRaises
<1>15. CASE FinishRow
  BY <1>15 DEF FinishRow
<1>16. CASE PublishResult
  <2>1. channel' = channel \/ channel' = Append(channel, Result)
    BY <1>16 DEF PublishResult, Publish
  <2>2. emitted < Result /\ emitted \in Nat
    OBVIOUS
  <2> QED
    BY <1>16, <2>1, <2>2, PublishedInOrder DEF PublishResult
<1>17. CASE Confirm
  BY <1>17 DEF Confirm
<1>18. CASE Kill
  BY <1>18 DEF Kill
<1>19. CASE Delete
  BY <1>19 DEF Delete
<1>20. CASE Restart
  BY <1>20 DEF Restart, CloseSubscription
<1>21. CASE UNCHANGED vars
  BY <1>21 DEF vars
<1> QED
  BY <1>1, <1>2, <1>3, <1>4, <1>5, <1>6, <1>7, <1>8, <1>9, <1>10, <1>11, <1>12, <1>13,
       <1>14, <1>15, <1>16, <1>17, <1>18, <1>19, <1>20, <1>21 DEF Next, RelayStep,
       WorkerStep

\* The relay puts its own event first or never.
LEMMA NextAlone ==
  ASSUME TypeOK, RelayStaged, Ordered, Alone, [Next]_vars
  PROVE  Alone'
<1> USE RelayAssumption DEF api, redis, run, TypeOK, RelayControl, JobControl, Events,
     Result, RelayError, Alone, Failed, RelayStaged
<1>1. CASE Subscribe
  BY <1>1 DEF Subscribe
<1>2. CASE SubscribeRaises
  BY <1>2 DEF SubscribeRaises
<1>3. CASE Enqueue
  BY <1>3 DEF Enqueue
<1>4. CASE EnqueueFails
  BY <1>4, QueueGrows DEF EnqueueFails, CloseSubscription
<1>5. CASE RelayEvent
  <2>1. /\ ~Failed /\ (queue' = queue \/ queue' = Append(queue, Head(channel)))
        /\ channel # <<>> /\ Head(channel) # Result
    BY <1>5 DEF RelayEvent
  <2>2. Head(channel) \in Events
    BY <2>1, ChannelRead
  <2>3. RelayError \notin Events
    OBVIOUS
  <2> HIDE DEF TypeOK, RelayStaged, Events, RelayError
  <2>4. CASE queue' = queue
    BY <2>1, <2>4
  <2>5. CASE queue' = Append(queue, Head(channel))
    <3>1. ToSet(queue') = ToSet(queue) \cup {Head(channel)}
      BY <2>2, <2>5, QueueGrows
    <3> QED
      BY <2>1, <2>2, <2>3, <3>1
  <2> QED
    BY <2>1, <2>4, <2>5
<1>6. CASE RelayResult
  BY <1>6 DEF RelayResult, CloseSubscription
<1>7. CASE Finalize
  BY <1>7 DEF Finalize, Received
<1>8. CASE Cleanup
  BY <1>8 DEF Cleanup
<1>9. CASE ListenRaises
  BY <1>9 DEF ListenRaises, CloseSubscription
<1>10. CASE PickJob
  BY <1>10 DEF PickJob
<1>11. CASE CreateRow
  BY <1>11 DEF CreateRow
<1>12. CASE EmitEvent
  BY <1>12 DEF EmitEvent
<1>13. CASE RunReturns
  BY <1>13 DEF RunReturns
<1>14. CASE RunRaises
  BY <1>14 DEF RunRaises
<1>15. CASE FinishRow
  BY <1>15 DEF FinishRow
<1>16. CASE PublishResult
  BY <1>16 DEF PublishResult
<1>17. CASE Confirm
  BY <1>17 DEF Confirm
<1>18. CASE Kill
  BY <1>18 DEF Kill
<1>19. CASE Delete
  BY <1>19 DEF Delete
<1>20. CASE Restart
  BY <1>20 DEF Restart, CloseSubscription
<1>21. CASE UNCHANGED vars
  BY <1>21 DEF vars
<1> QED
  BY <1>1, <1>2, <1>3, <1>4, <1>5, <1>6, <1>7, <1>8, <1>9, <1>10, <1>11, <1>12, <1>13,
       <1>14, <1>15, <1>16, <1>17, <1>18, <1>19, <1>20, <1>21 DEF Next, RelayStep,
       WorkerStep

\* An event moves from the channel to the queue and is nowhere lost unnoticed; the result
\* is read when the channel holds nothing else.
LEMMA NextDelivered ==
  ASSUME TypeOK, RelayStaged, JobStaged, Ordered, Delivered, [Next]_vars
  PROVE  Delivered'
<1> USE RelayAssumption DEF api, redis, run, TypeOK, RelayControl, JobControl, Events,
     Result, RelayError, Delivered, Reached, Failed
<1>1. CASE Subscribe
  BY <1>1 DEF Subscribe, RelayStaged
<1>2. CASE SubscribeRaises
  BY <1>2 DEF SubscribeRaises
<1>3. CASE Enqueue
  BY <1>3 DEF Enqueue, JobStaged, RelayStaged
<1>4. CASE EnqueueFails
  BY <1>4, QueueGrows DEF EnqueueFails, CloseSubscription, RelayStaged
<1>5. CASE RelayEvent
  <2>1. /\ relay = "listening" /\ relay' \in {"listening", "died"}
        /\ UNCHANGED <<job, emitted, lost, done, result, unconfirmed>> /\ ~done
    BY <1>5 DEF RelayEvent, CloseSubscription, RelayStaged
  <2>2. CASE present
    <3>1. ToSet(channel) = {Head(channel)} \cup ToSet(channel') /\ Head(channel) \in Events
      BY <1>5, <2>2, ChannelRead DEF RelayEvent, RestAfter
    <3>2. ToSet(queue') = ToSet(queue) \cup {Head(channel)}
      BY <1>5, <2>2, <3>1, QueueGrows DEF RelayEvent
    <3>3. relay' = relay /\ subscription' = subscription /\ Reached' = Reached \cup {Head(channel)}
      BY <1>5, <2>1, <2>2, <3>2 DEF RelayEvent
    <3> QED
      BY <2>1, <3>1, <3>3
  <2>3. CASE ~present
    BY <1>5, <2>1, <2>3 DEF RelayEvent
  <2> QED
    BY <2>2, <2>3
<1>6. CASE RelayResult
  <2>1. /\ Len(channel) \in Nat \ {0} /\ DOMAIN channel = 1..Len(channel)
        /\ channel[1] = Result /\ ToSet(channel) = {channel[i] : i \in DOMAIN channel}
    BY <1>6, ChannelRead DEF RelayResult, ToSet
  <2>2. \A i \in DOMAIN channel : channel[i] \in Events \cup {Result}
    BY <2>1, LenProperties
  <2>3. \A i \in DOMAIN channel : i = 1
    BY <2>1, <2>2 DEF Ordered
  <2>4. ToSet(channel) = {Result}
    BY <2>1, <2>3
  <2>5. Result \notin 1..emitted
    OBVIOUS
  <2> QED
    BY <1>6, <2>4, <2>5 DEF RelayResult, CloseSubscription, RelayStaged
<1>7. CASE Finalize
  BY <1>7 DEF Finalize, Received
<1>8. CASE Cleanup
  BY <1>8 DEF Cleanup
<1>9. CASE ListenRaises
  BY <1>9 DEF ListenRaises, CloseSubscription
<1>10. CASE PickJob
  BY <1>10 DEF PickJob
<1>11. CASE CreateRow
  BY <1>11 DEF CreateRow
<1>12. CASE EmitEvent
  BY <1>12, Published DEF EmitEvent, JobStaged, RelayStaged
<1>13. CASE RunReturns
  BY <1>13 DEF RunReturns
<1>14. CASE RunRaises
  BY <1>14, Published DEF RunRaises, JobStaged, RelayStaged
<1>15. CASE FinishRow
  BY <1>15 DEF FinishRow
<1>16. CASE PublishResult
  BY <1>16, Published DEF PublishResult, RelayStaged
<1>17. CASE Confirm
  BY <1>17 DEF Confirm
<1>18. CASE Kill
  BY <1>18 DEF Kill
<1>19. CASE Delete
  BY <1>19 DEF Delete
<1>20. CASE Restart
  BY <1>20 DEF Restart, CloseSubscription
<1>21. CASE UNCHANGED vars
  BY <1>21 DEF vars
<1> QED
  BY <1>1, <1>2, <1>3, <1>4, <1>5, <1>6, <1>7, <1>8, <1>9, <1>10, <1>11, <1>12, <1>13,
       <1>14, <1>15, <1>16, <1>17, <1>18, <1>19, <1>20, <1>21 DEF Next, RelayStep,
       WorkerStep

-----------------------------------------------------------------------------
(* The refinement of EventFeed *)

\* The relay's own event apart, what was fed is what is in the queue.
LEMMA FedIsQueue == TypeOK /\ ~Failed => Fed = queue
<1> SUFFICES ASSUME TypeOK, ~Failed, queue # <<>>
             PROVE  Last(queue) # RelayError
  BY DEF Fed
<1>1. queue \in Seq(Events \cup {RelayError})
  BY DEF TypeOK
<1>2. Len(queue) \in DOMAIN queue
  BY <1>1, EmptySeq, LenProperties
<1> QED
  BY <1>2 DEF Failed, ToSet, Last

\* Nothing was fed yet when the relay reports that it could not enqueue the run.
LEMMA NothingFed ==
  ASSUME queue = <<>>, queue' \in {<<>>, Append(queue, RelayError)}
  PROVE  Fed = <<>> /\ Fed' = <<>>
<1>1. Fed = <<>>
  BY DEF Fed
<1>2. CASE queue' = <<>>
  BY <1>1, <1>2 DEF Fed
<1>3. CASE queue' = Append(queue, RelayError)
  <2>1. queue' = <<RelayError>> /\ Len(queue') = 1
    BY <1>3
  <2>2. SubSeq(queue', 1, 0) = <<>>
    BY SubSeqEmpty
  <2>3. Last(queue') = RelayError /\ Front(queue') = <<>> /\ queue' # <<>>
    BY <2>1, <2>2 DEF Last, Front
  <2> QED
    BY <1>1, <2>3 DEF Fed
<1> QED
  BY <1>2, <1>3

\* A relay that starts has fed nothing.
LEMMA InitFeed == Init => Feed!Init
BY DEF Init, Feed!Init, Fed

\* Each step emits an event, feeds a later one, finishes the run, or is invisible.
LEMMA NextFeed == IInv /\ [Next]_vars => [Feed!Next]_(Feed!vars)
<1> SUFFICES ASSUME IInv, [Next]_vars
             PROVE  [Feed!Next]_(Feed!vars)
  OBVIOUS
<1> USE DEF IInv, api, redis, run
<1>1. queue' = queue => Fed' = Fed
  BY DEF Fed
<1>2. ASSUME queue' = queue, done' = done, emitted' = emitted
      PROVE  [Feed!Next]_(Feed!vars)
  BY <1>1, <1>2 DEF Feed!vars
<1>3. ASSUME queue' = queue, done' = done, emitted' = emitted + 1
      PROVE  [Feed!Next]_(Feed!vars)
  BY <1>1, <1>3 DEF Feed!Next, Feed!Emit
<1>4. CASE Subscribe \/ SubscribeRaises \/ Enqueue \/ RelayResult \/ Cleanup \/ ListenRaises
  BY <1>2, <1>4 DEF Subscribe, SubscribeRaises, Enqueue, RelayResult, Cleanup, ListenRaises,
     CloseSubscription
<1>5. CASE PickJob \/ CreateRow \/ RunReturns \/ FinishRow \/ PublishResult
  BY <1>2, <1>5 DEF PickJob, CreateRow, RunReturns, FinishRow, PublishResult
<1>6. CASE Confirm \/ Kill \/ Delete \/ Restart
  BY <1>2, <1>6 DEF Confirm, Kill, Delete, Restart
<1>7. CASE EmitEvent \/ RunRaises
  BY <1>3, <1>7 DEF EmitEvent, RunRaises
<1>8. CASE EnqueueFails
  <2>1. queue = <<>> /\ queue' \in {<<>>, Append(queue, RelayError)}
    BY <1>8 DEF EnqueueFails, RelayStaged
  <2>2. Fed' = Fed /\ done' = done /\ emitted' = emitted
    BY <1>8, <2>1, NothingFed DEF EnqueueFails
  <2> QED
    BY <2>2 DEF Feed!vars
<1>9. CASE RelayEvent
  <2>1. CASE present
    <3>1. /\ channel # <<>> /\ Head(channel) # Result
          /\ relay = "listening" /\ queue' = Append(queue, Head(channel))
          /\ done' = done /\ emitted' = emitted
      BY <1>9, <2>1 DEF RelayEvent
    <3>2. /\ 1 \in DOMAIN channel /\ Head(channel) = channel[1]
          /\ Head(channel) \in Events
      BY <3>1, ChannelRead
    <3>3. ~done /\ Fed = queue
      BY <3>1, FedIsQueue DEF RelayStaged
    <3>4. Fed' = queue'
      <4>1. /\ queue' \in Seq(Events \cup {RelayError}) /\ Len(queue) \in Nat
            /\ DOMAIN queue' = 1..Len(queue) + 1 /\ queue'[Len(queue) + 1] = Head(channel)
        BY <3>1, <3>2, QueueGrows
      <4>2. Len(queue') = Len(queue) + 1
        BY <4>1, LenProperties
      <4> QED
        BY <3>2, <4>1, <4>2 DEF Fed, Last, Events, RelayError
    <3>5. Head(channel) \in 1..emitted /\ \A i \in DOMAIN queue : queue[i] < Head(channel)
      BY <3>1, <3>2 DEF Ordered, TypeOK, Events
    <3> QED
      BY <3>1, <3>3, <3>4, <3>5 DEF Feed!Next, Feed!Feed
  <2>2. CASE ~present
    BY <1>2, <1>9, <2>2 DEF RelayEvent
  <2> QED
    BY <2>1, <2>2
<1>10. CASE Finalize
  <2>1. ~done /\ queue' = queue /\ emitted' = emitted /\ done' \in {done, TRUE}
    BY <1>10 DEF Finalize, RelayStaged
  <2> QED
    BY <1>1, <1>2, <2>1 DEF Feed!Next, Feed!Finish
<1>11. CASE UNCHANGED vars
  BY <1>2, <1>11 DEF vars
<1> QED
  BY <1>4, <1>5, <1>6, <1>7, <1>8, <1>9, <1>10, <1>11 DEF Next, RelayStep, WorkerStep

-----------------------------------------------------------------------------
(* Theorems *)

\* A run is dispatched with nothing sent and nothing done.
LEMMA InitIInv == Init => IInv
<1> SUFFICES ASSUME Init
             PROVE  IInv
  OBVIOUS
<1>1. ToSet(queue) = {} /\ DOMAIN queue = {} /\ DOMAIN channel = {}
  BY DEF Init, ToSet
<1>2. TypeOK
  <2>1. channel \in Seq(Events \cup {Result}) /\ queue \in Seq(Events \cup {RelayError})
    BY EmptySeq DEF Init
  <2>2. emitted \in 0..MaxEvents
    BY RelayAssumption DEF Init
  <2>3. lost \subseteq Events \cup {Result}
    BY DEF Init
  <2> QED
    BY <2>1, <2>2, <2>3 DEF Init, TypeOK, RelayControl, JobControl
<1>3. RelayStaged /\ JobStaged /\ Alone /\ Delivered
  BY <1>1 DEF Init, RelayStaged, JobStaged, Alone, Delivered, Failed
<1>4. Ordered
  BY <1>1 DEF Ordered
<1> QED
  BY <1>2, <1>3, <1>4 DEF IInv

\* The conjuncts carry one another through every step.
LEMMA NextIInv == IInv /\ [Next]_vars => IInv'
BY NextTypeOK, NextRelayStaged, NextJobStaged, NextOrdered, NextAlone, NextDelivered DEF IInv

\* IInv holds in every reachable state.
THEOREM RelayInvariant == Spec => []IInv
BY InitIInv, NextIInv, PTL DEF Spec

\* Every variable of the relay, of Redis and of the worker keeps its type.
THEOREM RelayTypes == Spec => []TypeOK
<1>1. IInv => TypeOK
  BY DEF IInv
<1> QED
  BY <1>1, RelayInvariant, PTL

\* open_subscription: a run that is done, of a relay that was subscribed in time and did not
\* fail, misses no event that was published.
THEOREM DeliveryComplete == Spec => []CompleteWhenDone
<1>1. IInv => CompleteWhenDone
  BY FedIsQueue DEF IInv, CompleteWhenDone, Delivered, Failed, Reached
<1> QED
  BY <1>1, RelayInvariant, PTL

\* _cleanup: the workspace goes when the job has ended, unless Redis has a job that the relay
\* took for refused.
THEOREM WorkspaceOutlivesJob == Spec => []WorkspaceKept
<1>1. IInv => WorkspaceKept
  BY DEF IInv, WorkspaceKept, RelayStaged
<1> QED
  BY <1>1, RelayInvariant, PTL

\* _finalize and finish_run: the entry and the row get one verdict, with the same exception.
THEOREM OneVerdict == Spec => []VerdictsAgree
<1>1. IInv => VerdictsAgree
  BY DEF IInv, VerdictsAgree, RelayStaged, JobStaged, Failed, Received
<1> QED
  BY <1>1, RelayInvariant, PTL

\* The relay implements EventFeed: its reader gets the events in their order and none twice,
\* and nothing after the end.
THEOREM FeedImplemented == Spec => FeedsInOrder
<1>1. IInv /\ [Next]_vars => [Feed!Next]_(Feed!vars)
  BY NextFeed
<1> QED
  BY <1>1, InitFeed, RelayInvariant, PTL DEF Spec, FeedsInOrder, Feed!Spec

=============================================================================
