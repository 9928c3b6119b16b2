------------------------------ MODULE RunRelay ------------------------------
(***************************************************************************)
(* A one-shot run dispatched to an RQ worker (AGENT_QUEUE_ENABLED): the    *)
(* relay thread of _dispatch_agent_run (api/server.py), the Redis channel  *)
(* run_events:{run_id} (db/cache.py), the queue of jobs (db/queue.py) and  *)
(* the worker process that executes _execute_agent_run.                    *)
(*                                                                         *)
(* Redis delivers what is published to the subscribers it has, in order,   *)
(* and keeps nothing for the others.  Either process may be killed.        *)
(***************************************************************************)
EXTENDS Naturals, Sequences, SequencesExt

CONSTANT MaxEvents    \* bound on the events of the run

ASSUME RelayAssumption == MaxEvents \in Nat \ {0}

VARIABLES
  relay,         \* where the relay thread stands
  subscription,  \* of the relay: "none", "sent" without its confirmation, "active", "closed"
  channel,       \* messages Redis has passed on and the relay has not read
  present,       \* run_id in _runs
  queue,         \* the events ever put into _runs[run_id]["queue"]
  done,          \* _runs[run_id]["done"]
  result,        \* _runs[run_id]["result"]
  job,           \* the RQ job
  connected,     \* the worker's init_redis succeeded
  emitted,       \* number of events run_agent has emitted in the worker
  outcome,       \* run_status of what the run returned
  row,           \* run_status of the run's row, "none" without a row
  workspace,     \* the run's tmp_dir
  unconfirmed,   \* history: SUBSCRIBE was not confirmed in time
  lost,          \* history: the messages whose publication failed in the worker
  doubtful       \* history: enqueue_run raised, and Redis may have the job

api   == <<present, queue, done, result>>
redis == <<subscription, channel, unconfirmed>>
run   == <<job, connected, emitted, outcome, row, lost>>
vars  == <<relay, redis, api, run, workspace, doubtful>>

\* The message of type "run_result", and the event the relay itself puts when it fails;
\* the other messages are the events by their numbers.
Result == MaxEvents + 1
RelayError == 0

RelayControl == {"subscribe", "enqueue", "listening", "finalize", "cleanup", "ended",
                 "died", "gone"}
JobControl == {"none", "queued", "create", "running", "finish", "publish", "ended", "killed"}

Init ==
  /\ relay = "subscribe"
  /\ subscription = "none"
  /\ channel = <<>>
  /\ present = TRUE
  /\ queue = <<>>
  /\ done = FALSE
  /\ result = "none"
  /\ job = "none"
  /\ connected = FALSE
  /\ emitted = 0
  /\ outcome = "none"
  /\ row = "none"
  /\ workspace = "present"
  /\ unconfirmed = FALSE
  /\ lost = {}
  /\ doubtful = FALSE

-----------------------------------------------------------------------------
(* The relay thread *)

\* Mutation: SUBSCRIBE is sent, and nobody waits for its confirmation.
SubscribeUnawaited ==
  /\ relay = "subscribe"
  /\ subscription' = "sent"
  /\ relay' = "enqueue"
  /\ UNCHANGED <<channel, unconfirmed, api, run, workspace, doubtful>>

\* open_subscription waits five seconds for the confirmation and does not look at it.
Subscribe ==
  /\ relay = "subscribe"
  /\ \/ subscription' = "active" /\ UNCHANGED unconfirmed
     \/ subscription' = "sent" /\ unconfirmed' = TRUE
  /\ relay' = "enqueue"
  /\ UNCHANGED <<channel, api, run, workspace, doubtful>>

\* The client is never None again once init_redis made it: without a server SUBSCRIBE
\* raises, and nobody catches it.
SubscribeRaises ==
  /\ relay = "subscribe"
  /\ relay' = "died"
  /\ UNCHANGED <<redis, api, run, workspace, doubtful>>

CloseSubscription == subscription' = "closed" /\ channel' = <<>> /\ UNCHANGED unconfirmed

Enqueue ==
  /\ relay = "enqueue"
  /\ job' = "queued"
  /\ relay' = "listening"
  /\ UNCHANGED <<redis, api, connected, emitted, outcome, row, lost, workspace, doubtful>>

\* enqueue_run raises: the queue is unreachable, or only its answer was lost.
EnqueueFails ==
  /\ relay = "enqueue"
  /\ \/ job' = "queued" /\ doubtful' = TRUE
     \/ UNCHANGED <<job, doubtful>>
  /\ CloseSubscription
  /\ IF present
     THEN relay' = "finalize" /\ queue' = Append(queue, RelayError)
     ELSE relay' = "died" /\ UNCHANGED queue
  /\ UNCHANGED <<present, done, result, connected, emitted, outcome, row, lost, workspace>>

\* Mutation: an event already relayed is read again.
RestAfterRead(seq) == seq

RestAfter(seq) == Tail(seq)

\* One message of iter_subscription.  Without the entry the put raises KeyError.
RelayEvent ==
  /\ relay = "listening"
  /\ channel # <<>> /\ Head(channel) # Result
  /\ IF present
     THEN /\ queue' = Append(queue, Head(channel))
          /\ channel' = RestAfter(channel)
          /\ UNCHANGED <<relay, subscription, unconfirmed>>
     ELSE /\ relay' = "died"
          /\ CloseSubscription
          /\ UNCHANGED queue
  /\ UNCHANGED <<present, done, result, run, workspace, doubtful>>

RelayResult ==
  /\ relay = "listening"
  /\ channel # <<>> /\ Head(channel) = Result
  /\ relay' = "finalize"
  /\ CloseSubscription
  /\ UNCHANGED <<api, run, workspace, doubtful>>

\* Mutation: a broken connection counts as the end of the run.
ListenFinalizes ==
  /\ relay = "listening"
  /\ relay' = "finalize"
  /\ CloseSubscription
  /\ UNCHANGED <<api, run, workspace, doubtful>>

\* The connection breaks, or is silent for the five seconds of its socket_timeout.
ListenRaises ==
  /\ relay = "listening"
  /\ relay' = "died"
  /\ CloseSubscription
  /\ UNCHANGED <<api, run, workspace, doubtful>>

\* Mutation: the error event is kept in place of a result.
ReceivedEvent == IF RelayError \in ToSet(queue) THEN "error" ELSE outcome

\* Mutation: whatever ends is a success.
ReceivedBlindly == IF RelayError \in ToSet(queue) THEN "failed" ELSE "completed"

\* The result the relay got from the channel, or its own.
Received == IF RelayError \in ToSet(queue) THEN "failed" ELSE outcome

Finalize ==
  /\ relay = "finalize"
  /\ IF present
     THEN done' = TRUE /\ result' = Received /\ relay' = "cleanup"
     ELSE relay' = "ended" /\ UNCHANGED <<done, result>>
  /\ UNCHANGED <<redis, present, queue, run, workspace, doubtful>>

\* Five minutes later.
Cleanup ==
  /\ relay = "cleanup"
  /\ workspace' = "removed"
  /\ relay' = "ended"
  /\ UNCHANGED <<redis, api, run, doubtful>>

-----------------------------------------------------------------------------
(* Redis *)

Confirm ==
  /\ subscription = "sent"
  /\ subscription' = "active"
  /\ UNCHANGED <<relay, channel, unconfirmed, api, run, workspace, doubtful>>

\* publish_event: an error is swallowed, and without a subscriber nothing is kept.
Publish(message) ==
  \/ /\ connected
     /\ channel' = IF subscription = "active" THEN Append(channel, message) ELSE channel
     /\ UNCHANGED lost
  \/ UNCHANGED channel /\ lost' = lost \cup {message}

-----------------------------------------------------------------------------
(* The worker process: _execute_agent_run *)

\* init_redis and init_pool of the worker's own process.
PickJob ==
  /\ job = "queued"
  /\ job' = "create"
  /\ connected' \in BOOLEAN
  /\ UNCHANGED <<relay, redis, api, emitted, outcome, row, lost, workspace, doubtful>>

CreateRow ==
  /\ job = "create"
  /\ row' \in {row, "running"}
  /\ job' = "running"
  /\ UNCHANGED <<relay, redis, api, connected, emitted, outcome, lost, workspace, doubtful>>

\* The bound leaves room for an "error" event.
EmitEvent ==
  /\ job = "running"
  /\ emitted + 1 < MaxEvents
  /\ emitted' = emitted + 1
  /\ Publish(emitted + 1)
  /\ UNCHANGED <<relay, subscription, unconfirmed, api, job, connected, outcome, row, workspace, doubtful>>

RunReturns ==
  /\ job = "running"
  /\ outcome' = "completed"
  /\ job' = "finish"
  /\ UNCHANGED <<relay, redis, api, connected, emitted, row, lost, workspace, doubtful>>

\* The exception is reported as an event and as the result.
RunRaises ==
  /\ job = "running"
  /\ emitted < MaxEvents
  /\ emitted' = emitted + 1
  /\ Publish(emitted + 1)
  /\ outcome' = "failed"
  /\ job' = "finish"
  /\ UNCHANGED <<relay, subscription, unconfirmed, api, connected, row, workspace, doubtful>>

FinishRow ==
  /\ job = "finish"
  /\ row' \in {row, IF row = "none" THEN "none" ELSE outcome}
  /\ job' = "publish"
  /\ UNCHANGED <<relay, redis, api, connected, emitted, outcome, lost, workspace, doubtful>>

\* Mutation: the marker is published in the try block, not in its finally clause.
PublishSuccess ==
  /\ job = "publish"
  /\ IF outcome = "completed" THEN Publish(Result) ELSE UNCHANGED <<channel, lost>>
  /\ job' = "ended"
  /\ UNCHANGED <<relay, subscription, unconfirmed, api, connected, emitted, outcome, row, workspace, doubtful>>

PublishResult ==
  /\ job = "publish"
  /\ Publish(Result)
  /\ job' = "ended"
  /\ UNCHANGED <<relay, subscription, unconfirmed, api, connected, emitted, outcome, row, workspace, doubtful>>

\* Killed too hard for its finally clause.
Kill ==
  /\ job \in {"create", "running", "finish", "publish"}
  /\ job' = "killed"
  /\ UNCHANGED <<relay, redis, api, connected, emitted, outcome, row, lost, workspace, doubtful>>

-----------------------------------------------------------------------------
(* The API process *)

Delete ==
  /\ present
  /\ present' = FALSE
  /\ UNCHANGED <<relay, redis, queue, done, result, run, workspace, doubtful>>

\* Registry, relay and cleanup are gone; nothing brings them back.
Restart ==
  /\ relay # "gone"
  /\ relay' = "gone"
  /\ present' = FALSE
  /\ CloseSubscription
  /\ UNCHANGED <<queue, done, result, run, workspace, doubtful>>

-----------------------------------------------------------------------------
RelayStep ==
  \/ Subscribe \/ SubscribeRaises \/ Enqueue \/ EnqueueFails
  \/ RelayEvent \/ RelayResult \/ Finalize \/ Cleanup

WorkerStep ==
  \/ PickJob \/ CreateRow \/ EmitEvent \/ RunReturns \/ RunRaises
  \/ FinishRow \/ PublishResult

Next ==
  \/ RelayStep \/ ListenRaises \/ WorkerStep
  \/ Confirm \/ Kill \/ Delete \/ Restart

\* The thread and a worker go on.  Nobody has to delete, kill or restart, no connection
\* has to break, and a SUBSCRIBE may stay unconfirmed.
Fairness ==
  /\ WF_vars(RelayStep)
  /\ WF_vars(WorkerStep)

Spec == Init /\ [][Next]_vars /\ Fairness

-----------------------------------------------------------------------------
(* Properties *)

Events == 1..MaxEvents

TypeOK ==
  /\ relay \in RelayControl
  /\ subscription \in {"none", "sent", "active", "closed"}
  /\ channel \in Seq(Events \cup {Result})
  /\ present \in BOOLEAN
  /\ queue \in Seq(Events \cup {RelayError})
  /\ done \in BOOLEAN
  /\ result \in {"none", "completed", "failed"}
  /\ job \in JobControl
  /\ connected \in BOOLEAN
  /\ emitted \in 0..MaxEvents
  /\ outcome \in {"none", "completed", "failed"}
  /\ row \in {"none", "running", "completed", "failed"}
  /\ workspace \in {"present", "removed"}
  /\ unconfirmed \in BOOLEAN
  /\ lost \subseteq Events \cup {Result}
  /\ doubtful \in BOOLEAN

\* Without the relay's own event, which is the last one if it is there.
Fed == IF queue # <<>> /\ Last(queue) = RelayError THEN Front(queue) ELSE queue

\* db/cache.py on open_subscription: since the relay subscribes before it enqueues, the
\* reader of a run that is done has every event, except those whose publication failed,
\* if the confirmation came in time and the relay did not fail.
CompleteWhenDone ==
  done /\ RelayError \notin ToSet(queue) /\ ~unconfirmed => 1..emitted \subseteq ToSet(Fed) \cup lost

\* _cleanup: no job works in a workspace that was removed, unless its enqueuing was
\* reported as failed.
WorkspaceKept ==
  job \in {"create", "running"} /\ workspace = "removed" => doubtful

\* A reader of the entry and a reader of the row get the same verdict, with the same
\* exception; a row keeps "running" for a job that was killed, or for a lost UPDATE.
VerdictsAgree ==
  done /\ row \notin {"none", "running"} => result = row \/ doubtful

\* Whatever was subscribed and enqueued in good order comes to an end: the run is done
\* unless it was deleted, the worker was killed, the relay lost its connection, or the
\* marker at the end was not published or not heard.
RelayEnds ==
  relay = "listening" ~> \/ done \/ ~present
                         \/ job = "killed" \/ relay = "died" \/ Result \in lost \/ unconfirmed

\* The events of the run reach its queue as EventFeed promises.
Feed == INSTANCE EventFeed WITH fed <- Fed
FeedsInOrder == Feed!Spec
=============================================================================
