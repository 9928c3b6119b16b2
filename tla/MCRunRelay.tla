----------------------------- MODULE MCRunRelay -----------------------------
(* One run with up to three events. *)
EXTENDS RunRelay
=============================================================================
