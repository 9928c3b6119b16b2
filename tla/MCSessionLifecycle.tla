------------------------- MODULE MCSessionLifecycle -------------------------
(* Two requests in one session, each of them a message or a light chat. *)
EXTENDS SessionLifecycle
CONSTANTS r1, r2
MCRequests == {r1, r2}
=============================================================================
