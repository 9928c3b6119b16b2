----------------------------- MODULE EventFeed -----------------------------
(***************************************************************************)
(* What the events of a run promise to whoever reads them (api/server.py): *)
(* the events fed into the run's queue are events of the run, in the order *)
(* they were emitted and none of them twice, and nothing follows once the  *)
(* run is done.  An event may get lost on its way.                         *)
(***************************************************************************)
EXTENDS Naturals, Sequences

VARIABLES
  emitted,   \* number of events emitted by run_agent
  fed,       \* those that went into _runs[run_id]["queue"], in this order
  done       \* _runs[run_id]["done"]

vars == <<emitted, fed, done>>

Init ==
  /\ emitted = 0
  /\ fed = <<>>
  /\ done = FALSE

Emit ==
  /\ emitted' = emitted + 1
  /\ UNCHANGED <<fed, done>>

\* An event later than the last one fed.
Feed ==
  /\ ~done
  /\ \E e \in 1..emitted :
       /\ \A i \in DOMAIN fed : fed[i] < e
       /\ fed' = Append(fed, e)
  /\ UNCHANGED <<emitted, done>>

Finish ==
  /\ ~done
  /\ done' = TRUE
  /\ UNCHANGED <<emitted, fed>>

Next == Emit \/ Feed \/ Finish

Spec == Init /\ [][Next]_vars
=============================================================================
