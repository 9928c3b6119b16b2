------------------------- MODULE MCSandboxRegistry -------------------------
(* Two runs of one session and the thread that closes it, with as many      *)
(* DockerSandbox objects as they can hold at once.                          *)
EXTENDS SandboxRegistry
CONSTANTS t1, t2, c1, s1, s2, s3
MCCallers == {t1, t2}
MCClosers == {c1}
MCSandboxes == {s1, s2, s3}
=============================================================================
