--------------------------- MODULE MCMcpRegistry ---------------------------
(* Two runs and one session that is torn down, with three client objects. *)
EXTENDS McpRegistry
CONSTANTS r1, r2, d1, c1, c2, c3
MCCallers == {r1, r2}
MCClosers == {d1}
MCClients == {c1, c2, c3}
=============================================================================
