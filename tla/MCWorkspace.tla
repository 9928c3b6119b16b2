----------------------------- MODULE MCWorkspace -----------------------------
(* Two runs: both without a model; both editing, one in two rounds of tools,  *)
(* on a file that can be read as text without a loss or not; one summarising  *)
(* while the other one writes; and both retrieving.                           *)
EXTENDS Workspace

MCRuns == {"r1", "r2"}

\* A setting in which r1 may ask for the first set of tools, and r2 for the second one.
WithModel(tools1, tools2, rounds1, summaries, odd) ==
  [clients |-> MCRuns, summaries |-> summaries, odd |-> odd,
   asks |-> [r \in MCRuns |-> IF r = "r1" THEN tools1 ELSE tools2],
   rounds |-> [r \in MCRuns |-> IF r = "r1" THEN rounds1 ELSE 1]]

MCSettings ==
  {[clients |-> {}, summaries |-> {}, odd |-> {Odd}, asks |-> [r \in MCRuns |-> {}],
    rounds |-> [r \in MCRuns |-> 1]],
   WithModel(Tools \ (Editing \cup {"retrieve_context"}), {"write_file"}, 3, {"r1"}, {}),
   WithModel({"retrieve_context", "replace_in_file"}, {"retrieve_context"}, 1, {}, {})}
  \cup {WithModel(Editing \cup {"run_tests", "unknown"}, Editing \cup {"read_file"}, 2, {}, odd) :
          odd \in {{}, {Odd}}}
=============================================================================
