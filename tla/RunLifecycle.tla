---------------------------- MODULE RunLifecycle ----------------------------
(***************************************************************************)
(* One run of the API server (api/server.py) from POST /api/run to the     *)
(* removal of its workspace: the request handlers on the event loop, the   *)
(* worker thread of _dispatch_agent_run, the streams that poll the run's   *)
(* queue and the row kept in Postgres (db/store.py).                       *)
(*                                                                         *)
(* Everybody shares the entry of the run in _runs without a lock.  A       *)
(* handler is atomic between two awaits; a thread may be overtaken between *)
(* any two of its accesses to shared state.                                *)
(***************************************************************************)
EXTENDS Naturals, Sequences, SequencesExt

CONSTANTS
  Streams,     \* requests for GET /api/run/{run_id}/stream
  MaxEvents    \* bound on the events of the run

ASSUME LifecycleAssumption == MaxEvents \in Nat /\ MaxEvents > 1

VARIABLES
  present,     \* run_id in _runs
  queue,       \* _runs[run_id]["queue"]: numbered events, and the sentinel
  done,        \* _runs[run_id]["done"]
  result,      \* _runs[run_id]["result"]
  worker,      \* where the worker thread stands
  outcome,     \* what _execute_agent_run returns
  emitted,     \* number of events put into the queue so far
  announced,   \* history: the "done" event has been emitted
  row,         \* run_status of the run's row, "none" without a row
  workspace,   \* the run's tmp_dir; "kept" when rmtree failed to remove it
  cleanup,     \* the thread that removes it
  deletion,    \* progress of DELETE /api/run/{run_id}
  stream,      \* where each stream stands
  received     \* the events each stream has taken off the queue

entry == <<present, queue, done, result>>
run   == <<worker, outcome, emitted, announced>>
disk  == <<workspace, cleanup>>
sse   == <<stream, received>>
vars  == <<entry, run, row, disk, deletion, sse>>

Sentinel == 0

WorkerControl == {"none", "refused", "create", "running", "finish", "finalize",
                  "store", "flag", "sentinel", "schedule", "ended"}

\* "state" stands for the fields of a finished AgentState, "error" for the result
\* of a run that raised, "empty" for {}.
Outcome == {"none", "state", "error", "empty"}

Init ==
  /\ present = FALSE
  /\ queue = <<>>
  /\ done = FALSE
  /\ result = "none"
  /\ worker = "none"
  /\ outcome = "none"
  /\ emitted = 0
  /\ announced = FALSE
  /\ row = "none"
  /\ workspace = "none"
  /\ cleanup = "none"
  /\ deletion = "none"
  /\ stream = [c \in Streams |-> "closed"]
  /\ received = [c \in Streams |-> <<>>]

-----------------------------------------------------------------------------
(* POST /api/run *)

\* shutil.rmtree(tmp_dir, ignore_errors=True): nobody is told when it fails.
RemoveTree == workspace' \in {"removed", "kept"}

StartRun ==
  /\ worker = "none"
  /\ workspace' = "present"
  /\ present' = TRUE
  /\ worker' = "create"
  /\ UNCHANGED <<queue, done, result, outcome, emitted, announced, row, cleanup, deletion, sse>>

\* The clone or the upload fails: the workspace is removed before the answer 400.
StartFails ==
  /\ worker = "none"
  /\ RemoveTree
  /\ worker' = "refused"
  /\ UNCHANGED <<entry, outcome, emitted, announced, row, cleanup, deletion, sse>>

-----------------------------------------------------------------------------
(* The worker thread: _execute_agent_run, then _finalize *)

\* create_run is best effort: the INSERT may fail, and the run goes on.
CreateRow ==
  /\ worker = "create"
  /\ row' \in {row, "running"}
  /\ worker' = "running"
  /\ UNCHANGED <<entry, outcome, emitted, announced, disk, deletion, sse>>

PutEvent ==
  /\ present
  /\ emitted' = emitted + 1
  /\ queue' = Append(queue, emitted + 1)

\* step_callback puts the event into the queue.  The bound leaves room for the "done"
\* event and an "error" event.
EmitEvent ==
  /\ worker = "running"
  /\ ~announced
  /\ emitted + 2 < MaxEvents
  /\ PutEvent
  /\ UNCHANGED <<present, done, result, worker, outcome, announced, row, disk, deletion, sse>>

\* Mutation: the end is announced over and over.
EmitDoneAgain ==
  /\ worker = "running"
  /\ ~announced
  /\ PutEvent
  /\ UNCHANGED <<present, done, result, worker, outcome, announced, row, disk, deletion, sse>>

\* The last event run_agent emits.
EmitDone ==
  /\ worker = "running"
  /\ ~announced
  /\ PutEvent
  /\ announced' = TRUE
  /\ UNCHANGED <<present, done, result, worker, outcome, row, disk, deletion, sse>>

\* The entry is gone: the callback raises KeyError, and so does the one that should
\* report it, so that _execute_agent_run itself raises after its finally clause.
EmitRaises ==
  /\ worker = "running"
  /\ ~present
  /\ ~announced
  /\ outcome' = "empty"
  /\ worker' = "finish"
  /\ UNCHANGED <<entry, emitted, announced, row, disk, deletion, sse>>

\* run_agent returns; its last callback was the "done" event.
RunReturns ==
  /\ worker = "running"
  /\ announced
  /\ outcome' = "state"
  /\ worker' = "finish"
  /\ UNCHANGED <<entry, emitted, announced, row, disk, deletion, sse>>

\* run_agent raises, possibly after the "done" event, while it writes the trajectory
\* file: an "error" event is emitted.
RunRaises ==
  /\ worker = "running"
  /\ \/ PutEvent /\ outcome' = "error"
     \/ ~present /\ outcome' = "empty" /\ UNCHANGED <<queue, emitted>>
  /\ worker' = "finish"
  /\ UNCHANGED <<present, done, result, announced, row, disk, deletion, sse>>

\* finish_run updates the row if there is one; _finalize follows unless the thread
\* is unwinding an exception.
FinishRow ==
  /\ worker = "finish"
  /\ row' \in {row, IF row = "none" THEN "none" ELSE outcome}
  /\ worker' = IF outcome = "empty" THEN "ended" ELSE "finalize"
  /\ UNCHANGED <<entry, outcome, emitted, announced, disk, deletion, sse>>

\* _finalize returns at once when the run was deleted.
Finalize ==
  /\ worker = "finalize"
  /\ worker' = IF present THEN "store" ELSE "ended"
  /\ UNCHANGED <<entry, outcome, emitted, announced, row, disk, deletion, sse>>

\* Mutation: the flag is raised before the result is there.
FlagFirst ==
  /\ worker = "store"
  /\ done' = TRUE
  /\ worker' = "flag"
  /\ UNCHANGED <<present, queue, result, outcome, emitted, announced, row, disk, deletion, sse>>

StoreResult ==
  /\ worker = "store"
  /\ result' = outcome
  /\ worker' = "flag"
  /\ UNCHANGED <<present, queue, done, outcome, emitted, announced, row, disk, deletion, sse>>

\* Mutation: the thread stops before it flags the run.
FlagForgotten ==
  /\ worker = "flag"
  /\ worker' = "ended"
  /\ UNCHANGED <<entry, outcome, emitted, announced, row, disk, deletion, sse>>

RaiseFlag ==
  /\ worker = "flag"
  /\ done' = TRUE
  /\ worker' = "sentinel"
  /\ UNCHANGED <<present, queue, result, outcome, emitted, announced, row, disk, deletion, sse>>

PutSentinel ==
  /\ worker = "sentinel"
  /\ queue' = Append(queue, Sentinel)
  /\ worker' = "schedule"
  /\ UNCHANGED <<present, done, result, outcome, emitted, announced, row, disk, deletion, sse>>

\* Mutation: no thread is left to remove the workspace.
ScheduleNothing ==
  /\ worker = "schedule"
  /\ worker' = "ended"
  /\ UNCHANGED <<entry, outcome, emitted, announced, row, disk, deletion, sse>>

ScheduleCleanup ==
  /\ worker = "schedule"
  /\ cleanup' = "waiting"
  /\ worker' = "ended"
  /\ UNCHANGED <<entry, outcome, emitted, announced, row, workspace, deletion, sse>>

\* Five minutes later.
Cleanup ==
  /\ cleanup = "waiting"
  /\ RemoveTree
  /\ cleanup' = "done"
  /\ UNCHANGED <<entry, run, row, deletion, sse>>

-----------------------------------------------------------------------------
(* GET /api/run/{run_id}/stream *)

Goto(c, next) == stream' = [stream EXCEPT ![c] = next]

Open(c) ==
  /\ stream[c] = "closed"
  /\ present
  /\ Goto(c, "open")
  /\ UNCHANGED <<entry, run, row, disk, deletion, received>>

\* The generator starts when the response is sent.
Begin(c) ==
  /\ stream[c] = "open"
  /\ Goto(c, IF present THEN "poll" ELSE "aborted")
  /\ UNCHANGED <<entry, run, row, disk, deletion, received>>

\* Mutation: an event is looked at but left in the queue.
TakeHeadTwice == queue' = queue

TakeHead == queue' = Tail(queue)

Poll(c) ==
  /\ stream[c] = "poll"
  /\ queue # <<>>
  /\ TakeHead
  /\ IF Head(queue) = Sentinel
     THEN Goto(c, "ended") /\ UNCHANGED received
     ELSE received' = [received EXCEPT ![c] = Append(@, Head(queue))] /\ UNCHANGED stream
  /\ UNCHANGED <<present, done, result, run, row, disk, deletion>>

PollEmpty(c) ==
  /\ stream[c] = "poll"
  /\ queue = <<>>
  /\ Goto(c, "check")
  /\ UNCHANGED <<entry, run, row, disk, deletion, received>>

\* Mutation: a run that is done is taken for a queue that is empty.
AfterDoneFlag == "ended"

AfterDone == "recheck"

\* The queue was empty: is the run done?  A deleted run raises KeyError here.
CheckDone(c) ==
  /\ stream[c] = "check"
  /\ Goto(c, IF ~present THEN "aborted" ELSE IF done THEN AfterDone ELSE "poll")
  /\ UNCHANGED <<entry, run, row, disk, deletion, received>>

\* And is the queue still empty, now that nothing can follow but the sentinel?
CheckEmpty(c) ==
  /\ stream[c] = "recheck"
  /\ Goto(c, IF queue = <<>> THEN "ended" ELSE "poll")
  /\ UNCHANGED <<entry, run, row, disk, deletion, received>>

\* The browser goes away.
Disconnect(c) ==
  /\ stream[c] \in {"open", "poll", "check", "recheck"}
  /\ Goto(c, "gone")
  /\ UNCHANGED <<entry, run, row, disk, deletion, received>>

-----------------------------------------------------------------------------
(* DELETE /api/run/{run_id}: the entry, then (in another thread) the row *)

DeleteEntry ==
  /\ deletion = "none"
  /\ present
  /\ present' = FALSE
  /\ deletion' = "popped"
  /\ UNCHANGED <<queue, done, result, run, row, disk, sse>>

DeleteRow ==
  /\ deletion = "popped"
  /\ row' \in {row, "none"}
  /\ deletion' = "deleted"
  /\ UNCHANGED <<entry, run, disk, sse>>

-----------------------------------------------------------------------------
WorkerStep ==
  \/ CreateRow \/ EmitEvent \/ EmitDone \/ EmitRaises \/ RunReturns \/ RunRaises \/ FinishRow
  \/ Finalize \/ StoreResult \/ RaiseFlag \/ PutSentinel \/ ScheduleCleanup

\* What a stream does without its client.
StreamStep(c) == Begin(c) \/ Poll(c) \/ PollEmpty(c) \/ CheckDone(c) \/ CheckEmpty(c)

Next ==
  \/ StartRun \/ StartFails
  \/ WorkerStep \/ Cleanup
  \/ \E c \in Streams : Open(c) \/ StreamStep(c) \/ Disconnect(c)
  \/ DeleteEntry \/ DeleteRow

\* Threads run, run_agent returns or raises, and the generator is resumed as long
\* as its client listens.  Nobody has to open a stream or delete the run.
Fairness ==
  /\ WF_vars(WorkerStep)
  /\ WF_vars(Cleanup)
  /\ \A c \in Streams : WF_vars(StreamStep(c))

Spec == Init /\ [][Next]_vars /\ Fairness

-----------------------------------------------------------------------------
(* Properties *)

TypeOK ==
  /\ present \in BOOLEAN /\ done \in BOOLEAN /\ announced \in BOOLEAN
  /\ queue \in Seq(0..MaxEvents)
  /\ result \in Outcome /\ outcome \in Outcome
  /\ worker \in WorkerControl
  /\ emitted \in 0..MaxEvents
  /\ row \in Outcome \cup {"running"}
  /\ workspace \in {"none", "present", "removed", "kept"}
  /\ cleanup \in {"none", "waiting", "done"}
  /\ deletion \in {"none", "popped", "deleted"}
  /\ stream \in [Streams -> {"closed", "open", "poll", "check", "recheck",
                             "ended", "aborted", "gone"}]
  /\ received \in [Streams -> Seq(1..MaxEvents)]

\* A stream ends with stream_end only after every event of the run has been handed
\* to a stream, although "done" is read outside the queue's lock.
NothingLeftBehind ==
  \A c \in Streams : stream[c] = "ended" =>
    /\ worker \notin {"create", "running"}
    /\ \A e \in 1..emitted : \E d \in Streams : e \in ToSet(received[d])

\* However many streams share the queue, no event is delivered twice and none is
\* overtaken by a later one on the same stream.
InOrderOnce ==
  \A c, d \in Streams : \A i \in DOMAIN received[c], j \in DOMAIN received[d] :
    /\ c = d /\ i < j => received[c][i] < received[d][j]
    /\ c # d => received[c][i] # received[d][j]

\* GET /api/run/{run_id} never says "done" without a result, and the row of the run,
\* once finished, tells the same story as the result.
ResultsAgree ==
  /\ done => result # "none"
  /\ done /\ row \notin {"none", "running"} => row = result
  /\ row = "empty" => deletion # "none"

\* Every stream comes to an end: it is ended, aborted by a deletion or abandoned.
StreamsEnd ==
  \A c \in Streams :
    stream[c] = "poll" ~> stream[c] \in {"ended", "aborted", "gone"}

\* Where the worker thread stands until _finalize has looked the run up.
Unfinalized == {"create", "running", "finish", "finalize"}

\* _finalize and _cleanup: the workspace of a run that was started is removed in the
\* end, or rmtree was tried on it and failed, unless the record of the run was
\* deleted before _finalize looked it up.  A later deletion changes nothing.
WorkspaceReclaimed ==
  worker = "create" ~>
    \/ workspace \in {"removed", "kept"}
    \/ ~present /\ worker \in Unfinalized

\* delete_run, "Delete a run record": once its row is deleted, no row of the run
\* appears again.
DeletedForGood == [][deletion = "deleted" /\ row = "none" => row' = "none"]_vars

=============================================================================
