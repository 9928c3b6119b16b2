-------------------------- MODULE MCRunLifecycle --------------------------
(* Two streams compete for the events of one run. *)
EXTENDS RunLifecycle
CONSTANTS c1, c2
MCStreams == {c1, c2}
===========================================================================
