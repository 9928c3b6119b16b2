---------------------------- MODULE RunContract ----------------------------
(***************************************************************************)
(* What a run of the agent promises to its caller, without the loop that   *)
(* keeps the promise.  A caller of run_agent (the command line, the API    *)
(* server, the evaluation harness) sees a plan that only grows, steps that *)
(* are completed and stay completed, and at most one verdict, given once   *)
(* and never revised.  Module AgentRun implements this specification.      *)
(***************************************************************************)
EXTENDS Naturals

CONSTANT Reasons          \* the reasons a failed run may give

VARIABLES
  phase,        \* "running", "ended" (loop left), "returned" or "raised"
  planned,      \* number of steps planned so far
  completed,    \* the steps that are completed
  verdict,      \* "pending" until the run is judged, then "completed" or "failed"
  reason        \* why it failed, "none" otherwise

vars == <<phase, planned, completed, verdict, reason>>

Phase == {"running", "ended", "returned", "raised"}
Verdict == {"pending", "completed", "failed"}

TypeOK ==
  /\ phase \in Phase
  /\ planned \in Nat
  /\ completed \subseteq 1..planned
  /\ verdict \in Verdict
  /\ reason \in Reasons \cup {"none"}

Init ==
  /\ phase = "running"
  /\ planned = 0
  /\ completed = {}
  /\ verdict = "pending"
  /\ reason = "none"

\* The plan is made, grows after a replan, or one more step of it is completed.
Advance ==
  /\ phase = "running"
  /\ \/ planned' > planned /\ completed' = completed
     \/ \E i \in 1..planned : completed' = completed \cup {i} /\ planned' = planned
  /\ UNCHANGED <<phase, verdict, reason>>

\* A completed run has completed every step; a failed one says why; a run that is
\* cut off by the cap on its iterations ends without a verdict.
Conclude ==
  /\ phase = "running"
  /\ planned > 0
  /\ phase' = "ended"
  /\ \/ verdict' = "completed" /\ completed = 1..planned /\ reason' = "none"
     \/ verdict' = "failed" /\ reason' \in Reasons
     \/ verdict' = "pending" /\ reason' = "none"
  /\ UNCHANGED <<planned, completed>>

Return ==
  /\ phase = "ended"
  /\ phase' = "returned"
  /\ UNCHANGED <<planned, completed, verdict, reason>>

Raise ==
  /\ phase \in {"running", "ended"}
  /\ phase' = "raised"
  /\ UNCHANGED <<planned, completed, verdict, reason>>

Next == Advance \/ Conclude \/ Return \/ Raise

\* A run is not allowed to go on forever.
Spec == Init /\ [][Next]_vars /\ WF_vars(Conclude \/ Return \/ Raise)

=============================================================================
