------------------------------ MODULE FileTools ------------------------------
(***************************************************************************)
(* The tools of tools/tools.py that change files, one edit per run at a    *)
(* time, on a workspace that several runs share.                           *)
(*                                                                         *)
(* Of a file's text we keep which edits it shows: Base stands for the      *)
(* repository's own text, in which the text to replace and the context of  *)
(* a patch are found, and every edit adds a mark of its own; Odd stands    *)
(* for what reading as text loses, bytes that are no UTF-8 and line ends   *)
(* other than a newline.  Writing a file is open() for writing, which      *)
(* empties it, and then the text.                                          *)
(***************************************************************************)
EXTENDS Naturals, FiniteSets

CONSTANT Runs

VARIABLES
  files,      \* path -> does it exist, and the marks in its text
  edit,       \* run -> the edit it is carrying out
  late,       \* patches whose git process may go on after its timeout, or after a crash
  expected,   \* history: the text that the edits reported as done amount to
  unreported, \* history: patches that git applied, or may still apply, with no report of it
  disturbed   \* history: two edits of a file overlapped, or one stopped between the two steps of
              \* a write

fileVars == <<files, edit, late, expected, unreported, disturbed>>

Base == <<>>
Odd == <<"odd">>
Paths == {"main.py", "output.txt"}

NoEdit == [stage |-> "idle", tool |-> "none", arg |-> "none", mark |-> Base, seen |-> {}]

\* "begin"  called                      "write"      checked, about to write
\* "apply"  git apply --check was fine  "truncated"  the file is open and empty
\* "applied"  git has done it, and the tool has not returned
EditStages == {"idle", "begin", "write", "truncated", "apply", "applied", "ok", "failed"}

PathOf(e) == IF e.arg = "output" THEN "output.txt" ELSE "main.py"

Text(e) == files[PathOf(e)].text
Exists(e) == files[PathOf(e)].exists

\* A run between its look at the file, or git's change of it, and its report.
Busy(r, path) == edit[r].stage \in {"write", "truncated", "applied"} /\ PathOf(edit[r]) = path

OthersBusy(r, path) == \E q \in Runs \ {r} : Busy(q, path)

\* odd: what the source file has that reading as text loses.
FilesInit(odd) ==
  /\ files = [p \in Paths |-> IF p = "main.py" THEN [exists |-> TRUE, text |-> {Base} \cup odd]
                                               ELSE [exists |-> FALSE, text |-> {}]]
  /\ edit = [r \in Runs |-> NoEdit]
  /\ late = {}
  /\ expected = [p \in Paths |-> files[p].text]
  /\ unreported = {}
  /\ disturbed = FALSE

-----------------------------------------------------------------------------
StartEdit(r, tool, arg, mark) ==
  /\ edit' = [edit EXCEPT ![r] =
       [stage |-> "begin", tool |-> tool, arg |-> arg, mark |-> mark, seen |-> {}]]
  /\ UNCHANGED <<files, late, expected, unreported, disturbed>>

\* The tool returns.  expected follows what it says, not what it did.
Report(r, ok) ==
  LET e == edit[r]
      claimed == IF e.arg = "output" THEN {} ELSE {e.mark}
  IN  /\ edit' = [edit EXCEPT ![r] = [NoEdit EXCEPT !.stage = IF ok THEN "ok" ELSE "failed"]]
      /\ expected' = IF ~ok THEN expected
                     ELSE [expected EXCEPT ![PathOf(e)] =
                             IF e.tool = "write_file" THEN claimed ELSE @ \cup claimed]

\* Mutation: nobody looks whether the replacement changed anything.
RefusedUnlessSame(e) ==
  CASE e.tool = "write_file" -> Exists(e) /\ e.arg # "overwrite"
    [] OTHER -> ~Exists(e) \/ Base \notin Text(e) \/ e.arg \in {"empty", "nomatch"}

\* The early returns of write_file, replace_in_file and apply_patch, git apply --check included.
Refused(e) ==
  CASE e.tool = "write_file" -> Exists(e) /\ e.arg # "overwrite"
    [] OTHER -> ~Exists(e) \/ Base \notin Text(e) \/ e.arg \in {"empty", "nomatch", "same"}

Refuse(r) ==
  /\ edit[r].stage = "begin"
  /\ Refused(edit[r])
  /\ Report(r, FALSE)
  /\ UNCHANGED <<files, late, unreported, disturbed>>

\* _read_text_file: errors = "replace", and every line end becomes a newline.
AsRead(text) == text \ {Odd}

\* replace_in_file keeps the text it read; write_file only saw whether the file is there.
Look(r) ==
  /\ edit[r].stage = "begin"
  /\ edit[r].tool # "apply_patch"
  /\ ~Refused(edit[r])
  /\ edit' = [edit EXCEPT ![r].stage = "write",
                          ![r].seen = IF edit[r].tool = "replace_in_file"
                                      THEN AsRead(Text(edit[r])) ELSE {}]
  /\ disturbed' = (disturbed \/ OthersBusy(r, PathOf(edit[r])))
  /\ UNCHANGED <<files, late, expected, unreported>>

Truncate(r) ==
  /\ edit[r].stage = "write"
  /\ files' = [files EXCEPT ![PathOf(edit[r])] = [exists |-> TRUE, text |-> {}]]
  /\ edit' = [edit EXCEPT ![r].stage = "truncated"]
  /\ UNCHANGED <<late, expected, unreported, disturbed>>

\* What the edit adds; output.txt is written with no content.
NewText(e) == IF e.arg \in {"output", "same"} THEN {} ELSE {e.mark}

\* What another run has written since the file was emptied may be left behind the end of
\* this text.
PutText(r) ==
  /\ edit[r].stage = "truncated"
  /\ \E rest \in {{}, Text(edit[r])} :
       files' = [files EXCEPT ![PathOf(edit[r])].text = edit[r].seen \cup NewText(edit[r]) \cup rest]
  /\ Report(r, TRUE)
  /\ UNCHANGED <<late, unreported, disturbed>>

\* The disk is full, or the text cannot be encoded (a lone surrogate): the edit is reported as
\* failed and the text is gone.
PutTextFails(r) ==
  /\ edit[r].stage = "truncated"
  /\ Report(r, FALSE)
  /\ disturbed' = TRUE
  /\ UNCHANGED <<files, late, unreported>>

-----------------------------------------------------------------------------
(* apply_patch *)

CheckPatch(r) ==
  /\ edit[r].stage = "begin"
  /\ edit[r].tool = "apply_patch"
  /\ ~Refused(edit[r])
  /\ edit' = [edit EXCEPT ![r].stage = "apply"]
  /\ UNCHANGED <<files, late, expected, unreported, disturbed>>

\* git apply takes effect on the file as it is now.
Patch(mark) == files' = [files EXCEPT !["main.py"].text = @ \cup {mark}]

ApplyPatch(r) ==
  /\ edit[r].stage = "apply"
  /\ Base \in Text(edit[r])
  /\ Patch(edit[r].mark)
  /\ edit' = [edit EXCEPT ![r].stage = "applied"]
  /\ disturbed' = (disturbed \/ OthersBusy(r, "main.py"))
  /\ UNCHANGED <<late, expected, unreported>>

\* The context is gone, or the patch is in the file already.
ApplyPatchFails(r) ==
  /\ edit[r].stage = "apply"
  /\ Base \notin Text(edit[r]) \/ edit[r].mark \in Text(edit[r])
  /\ Report(r, FALSE)
  /\ UNCHANGED <<files, late, unreported, disturbed>>

\* The exit code of git apply has come back.
ReportPatch(r) ==
  /\ edit[r].stage = "applied"
  /\ Report(r, TRUE)
  /\ UNCHANGED <<files, late, unreported, disturbed>>

Unreport(r) == unreported' = unreported \cup {edit[r].mark}

\* It comes too late, or what git prints cannot be decoded: a failure is reported.
MisreportPatch(r) ==
  /\ edit[r].stage = "applied"
  /\ Report(r, FALSE)
  /\ Unreport(r)
  /\ UNCHANGED <<files, late, disturbed>>

\* _exec_command: an exception of the sandbox, once the command has been executed there, and
\* the host executes it again.
RerunPatch(r) ==
  /\ edit[r].stage = "applied"
  /\ edit[r].mark \notin unreported
  /\ edit' = [edit EXCEPT ![r].stage = "apply"]
  /\ Unreport(r)
  /\ UNCHANGED <<files, late, expected, disturbed>>

\* A timeout of git apply is reported as a failure; the process, in the container or below
\* the shell that was killed, may go on.
PatchTimesOut(r) ==
  /\ edit[r].stage = "apply"
  /\ Report(r, FALSE)
  /\ Unreport(r)
  /\ late' = late \cup {edit[r].mark}
  /\ UNCHANGED <<files, disturbed>>

\* It ends after the tool has returned, if the file still takes the patch.
LandLate(mark) ==
  /\ mark \in late
  /\ Base \in files["main.py"].text
  /\ late' = late \ {mark}
  /\ Patch(mark)
  /\ disturbed' = (disturbed \/ \E r \in Runs : Busy(r, "main.py"))
  /\ UNCHANGED <<edit, expected, unreported>>

\* Anything else that raises: a path outside the workspace, no permission, a patch that cannot
\* be saved, a check that takes too long.
EditRaises(r) ==
  /\ edit[r].stage \in {"begin", "write", "apply"}
  /\ Report(r, FALSE)
  /\ UNCHANGED <<files, late, unreported, disturbed>>

EditStep(r) ==
  \/ Refuse(r) \/ Look(r) \/ Truncate(r) \/ PutText(r) \/ PutTextFails(r)
  \/ CheckPatch(r) \/ ApplyPatch(r) \/ ApplyPatchFails(r) \/ ReportPatch(r) \/ MisreportPatch(r)
  \/ RerunPatch(r) \/ PatchTimesOut(r) \/ EditRaises(r)

PatchesAt(stages) == {edit[r].mark : r \in {q \in Runs : edit[q].stage \in stages}}

\* The process dies.  A git process may go on.
AbandonEdits ==
  /\ edit' = [r \in Runs |-> NoEdit]
  /\ late' = late \cup PatchesAt({"apply"})
  /\ unreported' = unreported \cup PatchesAt({"apply", "applied"})
  /\ disturbed' = (disturbed \/ \E r \in Runs : edit[r].stage = "truncated")
  /\ UNCHANGED <<files, expected>>
=============================================================================
