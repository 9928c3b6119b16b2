----------------------------- MODULE AgentMemory -----------------------------
(***************************************************************************)
(* The log of insights of a session (core/memory.py): memory.jsonl is     *)
(* only ever appended to, by every run of the session, and read line by    *)
(* line when a run starts; a line that does not parse is skipped.  An      *)
(* insight goes to the file in one write; a full disk or a crash of the    *)
(* machine can leave part of it.                                           *)
(*                                                                         *)
(* Insights are counted, not told apart.  The preferences that             *)
(* remember_preference upserts are not written by a run.                   *)
(***************************************************************************)
EXTENDS Naturals

VARIABLES
  open,   \* the file ends inside a line
  lost,   \* history: insights whose append returned, on a line that does not parse
  torn    \* history: appends that raised and left a part of their line

memoryVars == <<open, lost, torn>>

MemoryInit ==
  /\ open = FALSE
  /\ lost = 0
  /\ torn = 0

\* Mutation: the newline is forgotten, so that every later line is joined with the first.
RememberUnterminated ==
  /\ open' = TRUE
  /\ lost' = IF open THEN lost + 1 ELSE lost
  /\ UNCHANGED torn

\* _persist_insight: the line goes behind whatever the file ends with, and is skipped with it
\* when that is a part of a line; either way it ends with a newline.
Remember ==
  /\ open' = FALSE
  /\ lost' = IF open THEN lost + 1 ELSE lost
  /\ UNCHANGED torn

\* add_insight raises: the write fails with a part of the line in the file.
TearInsight ==
  /\ open' = TRUE
  /\ torn' = torn + 1
  /\ UNCHANGED lost

\* extract_insight_from_tool_result: is there something to remember?  git_diff and a
\* command without output fail with no error text.
HasInsight(tool, ok) ==
  CASE ok -> {tool \in {"read_file", "run_tests"}}
    [] ~ok /\ tool \in {"run_command", "git_diff"} -> BOOLEAN
    [] OTHER -> {TRUE}
=============================================================================
