--------------------------- MODULE WorkspaceProofs ---------------------------
(***************************************************************************)
(* Theorems about module Workspace, for any number of runs, steps, torn    *)
(* writes and crashes, and for any settings.                               *)
(*                                                                         *)
(* The files, the memory and the index share no variable, so that a step   *)
(* of the workspace is a step of each of them or leaves it alone.  Each    *)
(* has an inductive invariant of its own; the control of the runs ties     *)
(* them together.                                                          *)
(***************************************************************************)
EXTENDS Workspace, FiniteSetTheorems, SequenceFacts

-----------------------------------------------------------------------------
(* The invariants of the runs and of the memory *)

ToolNames == Tools \cup {"unknown", "none"}

StepRecords == [left : Seq(Tools), rounds : Nat, results : SUBSET BOOLEAN,
                grounded : BOOLEAN, tool : ToolNames, ok : BOOLEAN]

RunTypes ==
  /\ setting \in Settings
  /\ pc \in [Runs -> Control]
  /\ step \in [Runs -> StepRecords]
  /\ started \in 0..MaxSteps
  /\ crashes \in 0..MaxCrashes

\* Where a run stands, and what is left to it.
Staged ==
  \A r \in Runs :
    /\ pc[r] \in {"ask", "try", "edit", "fetch", "returned"} => started > 0
    /\ pc[r] = "ask" => r \in setting.clients /\ step[r].rounds < setting.rounds[r]
    /\ pc[r] = "try" => r \notin setting.clients /\ step[r].left # <<>>
    /\ pc[r] \in {"edit", "fetch", "returned"} /\ r \in setting.clients =>
         step[r].rounds <= setting.rounds[r]
    /\ pc[r] = "edit" <=> edit[r].stage # "idle"
    /\ pc[r] = "fetch" <=> fetch[r].stage # "idle"

\* A line that is open will cost one insight more.
MemoryInv ==
  /\ open \in BOOLEAN /\ lost \in Nat /\ torn \in Nat
  /\ lost + (IF open THEN 1 ELSE 0) <= torn

-----------------------------------------------------------------------------
(* The invariant of the files *)

\* With what an editing tool is called.
EditArgs(tool) ==
  IF tool = "write_file" THEN {"good", "overwrite", "output"}
                         ELSE {"good", "nomatch", "same", "empty", "null"}

EditRecords ==
  [stage : EditStages, tool : Editing \cup {"none"},
   arg : {"none", "good", "overwrite", "output", "nomatch", "same", "empty", "null"},
   mark : Marks, seen : SUBSET Marks]

EditTypes ==
  /\ files \in [Paths -> [exists : BOOLEAN, text : SUBSET Marks]]
  /\ edit \in [Runs -> EditRecords]
  /\ late \subseteq unreported
  /\ unreported \subseteq Marks
  /\ expected \in [Paths -> SUBSET Marks]
  /\ disturbed \in BOOLEAN

\* What is written is what was asked for, and only a replacement keeps what it read.
EditStaged ==
  \A r \in Runs :
    /\ edit[r].stage \in {"begin", "write", "truncated", "apply", "applied"} =>
         edit[r].tool \in Editing /\ edit[r].arg \in EditArgs(edit[r].tool)
    /\ edit[r].stage \in {"write", "truncated"} =>
         /\ edit[r].tool # "apply_patch" /\ edit[r].arg # "same"
         /\ edit[r].tool = "write_file" => edit[r].seen = {}
    /\ edit[r].stage \in {"apply", "applied"} => edit[r].tool = "apply_patch"

\* What a text holds of the edits: all that was reported, and nothing that was not even tried.
Holds(text, p) == AsRead(expected[p]) \subseteq text /\ text \subseteq expected[p] \cup unreported

\* Without a disturbance a file has one writer, who knows what the file is to hold.
OneWriter(r, p) ==
  /\ \A q \in Runs : Busy(q, p) => q = r
  /\ edit[r].stage = "write" => Holds(files[p].text, p)
  /\ edit[r].stage \in {"write", "truncated"} /\ edit[r].tool = "replace_in_file" =>
       Holds(edit[r].seen, p)
  /\ edit[r].stage = "truncated" => files[p].text = {}
  /\ edit[r].stage = "applied" =>
       /\ edit[r].mark \in files[p].text
       /\ AsRead(expected[p]) \subseteq files[p].text
       /\ files[p].text \subseteq expected[p] \cup unreported \cup {edit[r].mark}

Apart(p) ==
  /\ (\A r \in Runs : ~Busy(r, p)) => Holds(files[p].text, p)
  /\ \A r \in Runs : Busy(r, p) => OneWriter(r, p)

EditsApart == ~disturbed => \A p \in Paths : Apart(p)

\* Without a model there is nothing to write but an empty output.txt.
NothingWritten ==
  setting.clients = {} =>
    /\ AsRead(files["main.py"].text) = {Base} /\ files["output.txt"].text = {}
    /\ unreported = {}
    /\ \A r \in Runs :
         /\ edit[r].stage = "begin" => edit[r].arg \in {"empty", "output"}
         /\ edit[r].stage \in {"write", "truncated"} => edit[r].arg = "output" /\ edit[r].seen = {}
         /\ edit[r].stage \notin {"apply", "applied"}

FilesInv == EditTypes /\ EditStaged /\ EditsApart

-----------------------------------------------------------------------------
(* The invariant of the index *)

FetchRecords ==
  [stage : FetchStages, force : BOOLEAN, eng : {0} \cup EngineIds, since : Nat, vectors : Nat,
   taken : Nat]

EngineRecords == [index : Nat, chunks : Nat, ixIndex : Nat, ixChunks : Nat]

RagTypes ==
  /\ fetch \in [Fetchers -> FetchRecords]
  /\ engines \in [EngineIds -> EngineRecords]
  /\ disk \in [index : Nat, chunks : Nat, torn : SUBSET {"index", "chunks"}]
  /\ cached \in {0} \cup EngineIds
  /\ builds \in Nat
  /\ mixed \in BOOLEAN
  /\ crossed \subseteq Fetchers

\* No number is that of a build to come.
Counted ==
  /\ disk.index <= builds /\ disk.chunks <= builds
  /\ \A r \in Fetchers : fetch[r].since <= builds /\ fetch[r].vectors <= builds
  /\ \A e \in EngineIds : engines[e].ixChunks <= builds

Collected == {"saveIndex", "adopt", "adoptChunks"} \cup Saving
Searching == {"search", "resolve"}

\* The engine of a thread is its own as long as it has no chunks, and is not in the cache
\* before it has some.
Own(r) ==
  fetch[r].stage \in Reading \cup Building /\ Mine(r).chunks = 0 =>
    /\ cached # fetch[r].eng
    /\ \A q \in Fetchers : q # r => fetch[q].eng # fetch[r].eng

Uses(r) ==
  /\ fetch[r].stage \in Reading \cup Building \cup Searching => fetch[r].eng # 0
  /\ fetch[r].stage \in {"idle", "lookup", "ok", "failed"} => fetch[r].eng = 0
  /\ fetch[r].stage = "lookup" => fetch[r].vectors = 0
  /\ fetch[r].stage = "load" => fetch[r].vectors = 0 /\ disk.chunks # 0 /\ Mine(r).chunks = 0
  /\ fetch[r].stage \in {"saveIndex"} \cup Saving => fetch[r].vectors # 0
  /\ fetch[r].stage \in Collected => Mine(r).ixChunks # 0
  /\ fetch[r].stage = "adoptChunks" => fetch[r].taken # 0
  /\ fetch[r].stage \in {"adopt", "adoptChunks"} /\ fetch[r].vectors = 0 => Mine(r).chunks = 0
  /\ fetch[r].stage \in Searching => Mine(r).chunks # 0

EngineUse ==
  /\ cached # 0 => engines[cached].chunks # 0
  /\ \A r \in Fetchers : Own(r) /\ Uses(r)

\* The engine a forced call is to search: its own once it has come back from
\* the cache with it, and what is in the cache before.
Rebuilds(r) == fetch[r].stage \in Building \cup Searching /\ Mine(r).chunks # 0
Target(r) == IF Rebuilds(r) THEN fetch[r].eng ELSE cached

\* Whoever else builds the index of that engine began after the forced call.
FreshFor(r) ==
  /\ \A q \in Fetchers :
       Target(r) # 0 /\ fetch[q].eng = Target(r) /\ fetch[q].stage \in Collected =>
         /\ fetch[q].vectors > fetch[r].since
         /\ engines[Target(r)].ixChunks > fetch[r].since
         /\ fetch[q].stage = "adoptChunks" => fetch[q].taken > fetch[r].since
  /\ Rebuilds(r) /\ fetch[r].stage \in Saving \cup {"adopt", "adoptChunks"} \cup Searching =>
       Mine(r).ixIndex > fetch[r].since
  /\ fetch[r].stage \in {"adoptChunks"} \cup Searching /\ Rebuilds(r) =>
       Mine(r).index > fetch[r].since
  /\ fetch[r].stage \in Searching => Mine(r).chunks > fetch[r].since
  /\ fetch[r].stage = "resolve" => fetch[r].taken > fetch[r].since

Fresh == \A r \in Fetchers : fetch[r].force => FreshFor(r)

\* A thread that builds and saves, until it has adopted the index.
Builder(r) ==
  fetch[r].stage \in Building
    /\ ~(fetch[r].stage \in {"adopt", "adoptChunks"} /\ fetch[r].vectors = 0)

\* As long as nobody was in its way, a builder is alone with the files, and everything that
\* is paired comes from one build.
Alone == \A r, q \in Fetchers : Builder(r) /\ q # r => fetch[q].stage \notin Building \cup Reading

Matched(r) ==
  /\ fetch[r].stage \in {"saveIndex"} \cup Saving => Mine(r).ixChunks = fetch[r].vectors
  /\ fetch[r].stage \in Saving =>
       Mine(r).ixIndex = fetch[r].vectors /\ disk.index = fetch[r].vectors
         /\ disk.torn \subseteq (CASE fetch[r].stage = "writeIndex" -> {"index"}
                                  [] fetch[r].stage = "writeChunks" -> {"chunks"}
                                  [] OTHER -> {})
  /\ fetch[r].stage = "adopt" => Mine(r).ixIndex = Mine(r).ixChunks
  /\ fetch[r].stage = "adoptChunks" => fetch[r].taken = Mine(r).index

DiskPaired ==
  (\A r \in Fetchers : fetch[r].stage \notin Saving) => disk.index = disk.chunks /\ disk.torn = {}

\* An engine has its vectors and its chunks from one build, but for the moment between the
\* two assignments, and so has what a search has found in it.
EnginesPaired ==
  \A e \in EngineIds :
    (\A r \in Fetchers : ~(fetch[r].stage = "adoptChunks" /\ fetch[r].eng = e)) =>
      engines[e].index = engines[e].chunks

Straight(r) == fetch[r].stage = "resolve" /\ r \notin crossed => fetch[r].taken = Mine(r).chunks

Paired ==
  ~mixed => /\ Alone
            /\ \A r \in Fetchers : Matched(r) /\ Straight(r)
            /\ DiskPaired /\ EnginesPaired

RagInv == RagTypes /\ Counted /\ EngineUse /\ Fresh /\ Paired

IInv == RunTypes /\ Staged /\ MemoryInv /\ FilesInv /\ NothingWritten /\ RagInv

-----------------------------------------------------------------------------
(* Tool calls *)

\* What the model may ask for is a tool or nothing, and an edit has arguments that the tool
\* knows.
LEMMA CallsTyped ==
  ASSUME NEW call \in Calls
  PROVE  /\ call.tool \in ToolNames
         /\ call.tool \in Editing => Normalized(call) \in EditArgs(call.tool)
BY DEF Calls, ToolNames, Tools, Editing, Normalized, Defaulted, EditArgs

\* Without a model an edit has nothing to do but to create output.txt.
LEMMA FallbackTyped ==
  ASSUME NEW tool \in Tools, NEW errors \in BOOLEAN, NEW call \in FallbackCalls(tool, errors)
  PROVE  /\ call.tool = tool
         /\ tool \in Editing =>
              Normalized(call) \in EditArgs(tool) /\ Normalized(call) \in {"empty", "output"}
<1>1. call.tool = tool /\ call.arg \in FallbackArguments(tool, errors)
  BY DEF FallbackCalls
<1> QED
  BY <1>1 DEF FallbackArguments, Tools, Editing, Normalized, Defaulted, EditArgs

\* A tool that changes nothing succeeds or fails.
LEMMA OutcomesBoolean ==
  ASSUME NEW call, call.tool \in Tools \ (Editing \cup {"retrieve_context"}),
         NEW ok \in Outcomes(call)
  PROVE  ok \in BOOLEAN
<1> USE DEF Outcomes, ListFiles, ReadFile, SearchCode, RunCommand, RunTests, IdentifyError, GitDiff
<1>1. CASE call.tool = "list_files"
  BY <1>1
<1>2. CASE call.tool = "read_file"
  BY <1>2
<1>3. CASE call.tool = "search_code"
  BY <1>3
<1>4. CASE call.tool = "run_command"
  BY <1>4
<1>5. CASE call.tool = "run_tests"
  BY <1>5
<1>6. CASE call.tool = "identify_error"
  BY <1>6
<1>7. CASE call.tool = "git_diff"
  BY <1>7
<1> QED
  BY <1>1, <1>2, <1>3, <1>4, <1>5, <1>6, <1>7 DEF Tools, Editing

\* A plan suggests at least one tool for each of its steps.
LEMMA SuggestionsTyped ==
  ASSUME NEW tools \in Suggestions
  PROVE  tools \in Seq(Tools) /\ tools # <<>>
<1> DEFINE Lists == {s \in Seq(Tools) : s # <<>>}
<1>1. \A a, b, c \in Tools : <<a>> \in Lists /\ <<a, b>> \in Lists /\ <<a, b, c>> \in Lists
  OBVIOUS
<1> HIDE DEF Lists
<1>2. \A a, b, c, d, e \in Lists : <<a, b, c, d>> \in Seq(Lists) /\ <<a, b, c, d, e>> \in Seq(Lists)
  OBVIOUS
<1>3. \A t \in {"list_files", "search_code", "read_file", "run_tests", "retrieve_context", "git_diff",
                "write_file", "replace_in_file", "apply_patch", "run_command", "identify_error"} :
        t \in Tools
  BY DEF Tools, Editing
<1>4. /\ PlanAnalysis \in Seq(Lists) /\ PlanReview \in Seq(Lists)
      /\ PlanTestWriting \in Seq(Lists) /\ FallbackReplan \in Seq(Lists)
      /\ PlanDependencyUpgrade \in Seq(Lists)
  <2>1. PlanAnalysis \in Seq(Lists)
    BY <1>1, <1>2, <1>3 DEF PlanAnalysis
  <2>2. PlanReview \in Seq(Lists)
    BY <1>1, <1>2, <1>3 DEF PlanReview
  <2>3. PlanTestWriting \in Seq(Lists)
    BY <1>1, <1>2, <1>3 DEF PlanTestWriting
  <2>4. FallbackReplan \in Seq(Lists)
    BY <1>1, <1>2, <1>3 DEF FallbackReplan
  <2>5. PlanDependencyUpgrade \in Seq(Lists)
    BY <1>1, <1>2, <1>3 DEF PlanDependencyUpgrade
  <2> QED
    BY <2>1, <2>2, <2>3, <2>4, <2>5
<1>5. /\ PlanRefactor \in Seq(Lists) /\ PlanFeatureAdd \in Seq(Lists) /\ PlanBugFix \in Seq(Lists)
  BY <1>1, <1>2, <1>3 DEF PlanRefactor, PlanFeatureAdd, PlanBugFix
<1>6. \A plan \in FallbackPlans : plan \in Seq(Lists)
  BY <1>4, <1>5 DEF FallbackPlans
<1>7. \A plan \in FallbackPlans : \A i \in DOMAIN plan : plan[i] \in Lists
  BY <1>6, Entries
<1>8. \A t \in DefaultTools : t \in Lists
  BY <1>1, <1>3 DEF DefaultTools
<1>9. tools \in Lists
  BY <1>7, <1>8 DEF Suggestions, SuggestedTools
<1> QED
  BY <1>9 DEF Lists

\* The run goes to another place in its step.
Moves(r, next) ==
  /\ pc' = [pc EXCEPT ![r] = next]
  /\ step' \in [Runs -> StepRecords]
  /\ \A q \in Runs : q # r => step'[q] = step[q]
  /\ step'[r].rounds = IF r \in setting.clients THEN step[r].rounds + 1 ELSE step[r].rounds

\* _execute_tool raises, or the call has returned, or an edit or a retrieval is under way.
LEMMA Dispatched ==
  ASSUME RunTypes, NEW r \in Runs, NEW call, call.tool \in ToolNames, NEW rest \in Seq(Tools),
         Dispatch(r, call, rest)
  PROVE  \/ End(r, "failed") /\ UNCHANGED <<fileVars, ragVars>>
         \/ Moves(r, "returned") /\ UNCHANGED <<fileVars, ragVars>>
         \/ /\ Moves(r, "edit") /\ UNCHANGED ragVars
            /\ call.tool \in Editing /\ StartEdit(r, call.tool, Normalized(call), MarkOf(r))
         \/ /\ Moves(r, "fetch") /\ UNCHANGED fileVars
            /\ StartFetch(r, TRUE) \/ StartFetch(r, FALSE)
<1> DEFINE begun == [step[r] EXCEPT !.rounds = IF r \in setting.clients THEN @ + 1 ELSE @,
                                    !.left = rest, !.tool = call.tool]
<1>1. /\ begun \in StepRecords
      /\ begun.rounds = IF r \in setting.clients THEN step[r].rounds + 1 ELSE step[r].rounds
  <2>1. step[r] \in StepRecords /\ step[r].rounds + 1 \in Nat
    BY DEF RunTypes, StepRecords
  <2>2. CASE r \in setting.clients
    BY <2>1, <2>2 DEF StepRecords
  <2>3. CASE r \notin setting.clients
    BY <2>1, <2>3 DEF StepRecords
  <2> QED
    BY <2>2, <2>3
<1>2. ASSUME NEW ok \in BOOLEAN
      PROVE  /\ [begun EXCEPT !.ok = ok] \in StepRecords
             /\ [begun EXCEPT !.ok = ok].rounds = begun.rounds
  BY <1>1 DEF StepRecords
<1> HIDE DEF begun
<1>3. ASSUME NEW s \in StepRecords, s.rounds = begun.rounds, NEW next, Goto(r, next),
             step' = [step EXCEPT ![r] = s]
      PROVE  Moves(r, next)
  BY <1>1, <1>3 DEF RunTypes, Moves, Goto
<1>4. CASE NormalizeRaises(call)
  BY <1>4 DEF Dispatch
<1>5. CASE ~NormalizeRaises(call) /\ Rejected(call)
  <2>1. /\ Goto(r, "returned") /\ step' = [step EXCEPT ![r] = [begun EXCEPT !.ok = FALSE]]
        /\ UNCHANGED <<fileVars, ragVars>>
    BY <1>5 DEF Dispatch, begun
  <2> QED
    BY <1>2, <1>3, <2>1
<1>6. CASE ~NormalizeRaises(call) /\ ~Rejected(call) /\ call.tool \in Editing
  <2>1. /\ Goto(r, "edit") /\ step' = [step EXCEPT ![r] = begun]
        /\ StartEdit(r, call.tool, Normalized(call), MarkOf(r)) /\ UNCHANGED ragVars
    BY <1>6 DEF Dispatch, begun, Editing
  <2> QED
    BY <1>1, <1>3, <1>6, <2>1
<1>7. CASE ~NormalizeRaises(call) /\ ~Rejected(call) /\ call.tool = "retrieve_context"
  <2>1. /\ Goto(r, "fetch") /\ step' = [step EXCEPT ![r] = begun]
        /\ StartFetch(r, Normalized(call) = "rebuild") /\ UNCHANGED fileVars
    BY <1>7 DEF Dispatch, begun, Editing
  <2>2. StartFetch(r, TRUE) \/ StartFetch(r, FALSE)
    <3>1. CASE Normalized(call) = "rebuild"
      BY <2>1, <3>1 DEF StartFetch
    <3>2. CASE Normalized(call) # "rebuild"
      BY <2>1, <3>2 DEF StartFetch
    <3> QED
      BY <3>1, <3>2
  <2> QED
    BY <1>1, <1>3, <2>1, <2>2
<1>8. CASE /\ ~NormalizeRaises(call) /\ ~Rejected(call)
           /\ call.tool \notin Editing \cup {"retrieve_context"}
  <2>1. PICK ok \in Outcomes(call) :
          /\ Goto(r, "returned") /\ step' = [step EXCEPT ![r] = [begun EXCEPT !.ok = ok]]
          /\ UNCHANGED <<fileVars, ragVars>>
    BY <1>8 DEF Dispatch, begun
  <2>2. ok \in BOOLEAN
    BY <1>8, OutcomesBoolean DEF Rejected
  <2> QED
    BY <1>2, <1>3, <2>1, <2>2
<1> QED
  BY <1>4, <1>5, <1>6, <1>7, <1>8

-----------------------------------------------------------------------------
(* The files *)

\* A run that has finished its edit lets go of it.
ForgetsEdit(r) ==
  /\ edit[r].stage \in {"idle", "ok", "failed"}
  /\ edit' = [edit EXCEPT ![r] = NoEdit]
  /\ UNCHANGED <<files, late, expected, unreported, disturbed>>

\* A run that is not editing begins an edit.
StartsEdit(r, tool, arg, mark) == edit[r].stage = "idle" /\ StartEdit(r, tool, arg, mark)

FilesNext ==
  \/ UNCHANGED fileVars
  \/ \E r \in Runs, tool \in Editing, mark \in Marks : \E arg \in EditArgs(tool) :
       /\ setting.clients = {} => arg \in {"empty", "output"}
       /\ StartsEdit(r, tool, arg, mark)
  \/ \E r \in Runs : EditStep(r) \/ ForgetsEdit(r)
  \/ \E mark \in late : LandLate(mark)
  \/ AbandonEdits

\* The answer of an editing tool, and what is expected of the file by it.
LEMMA Reported ==
  ASSUME EditTypes, EditStaged, NEW r \in Runs, NEW ok \in BOOLEAN,
         edit[r].stage \in {"begin", "write", "truncated", "apply", "applied"}, Report(r, ok)
  PROVE  /\ edit' \in [Runs -> EditRecords] /\ expected' \in [Paths -> SUBSET Marks]
         /\ edit'[r].stage \in {"ok", "failed"}
         /\ \A q \in Runs : q # r => edit'[q] = edit[q]
         /\ ~ok => expected' = expected
         /\ ok => \A p \in Paths : expected'[p] =
              LET claimed == IF edit[r].arg = "output" THEN {} ELSE {edit[r].mark}
              IN  IF p # PathOf(edit[r]) THEN expected[p]
                  ELSE IF edit[r].tool = "write_file" THEN claimed ELSE expected[p] \cup claimed
<1> USE DEF EditTypes
<1>1. edit[r] \in EditRecords
  OBVIOUS
<1>2. [NoEdit EXCEPT !.stage = IF ok THEN "ok" ELSE "failed"] \in EditRecords
  BY DEF NoEdit, EditRecords, EditStages, Marks
<1>3. [NoEdit EXCEPT !.stage = IF ok THEN "ok" ELSE "failed"].stage \in {"ok", "failed"}
  BY DEF NoEdit
<1>4. edit' = [edit EXCEPT ![r] = [NoEdit EXCEPT !.stage = IF ok THEN "ok" ELSE "failed"]]
  BY DEF Report
<1>5. /\ edit' \in [Runs -> EditRecords] /\ edit'[r].stage \in {"ok", "failed"}
      /\ \A q \in Runs : q # r => edit'[q] = edit[q]
  BY <1>2, <1>3, <1>4
<1>6. PathOf(edit[r]) \in Paths /\ edit[r].mark \in Marks
  BY <1>1 DEF PathOf, Paths, EditRecords
<1>7. CASE ~ok
  BY <1>5, <1>7 DEF Report
<1>8. CASE ok
  <2> DEFINE claimed == IF edit[r].arg = "output" THEN {} ELSE {edit[r].mark}
             p == PathOf(edit[r])
  <2>1. expected' = [expected EXCEPT ![p] = IF edit[r].tool = "write_file" THEN claimed
                                            ELSE @ \cup claimed]
    BY <1>8 DEF Report
  <2>2. claimed \subseteq Marks
    BY <1>6
  <2> QED
    BY <1>5, <1>6, <1>8, <2>1, <2>2
<1> QED
  BY <1>7, <1>8

\* Another stage of the same edit.
LEMMA StageTyped ==
  ASSUME EditTypes, NEW r \in Runs, NEW stage \in EditStages, NEW seen \in SUBSET Marks,
         edit' = [edit EXCEPT ![r].stage = stage, ![r].seen = seen]
  PROVE  /\ edit' \in [Runs -> EditRecords]
         /\ edit'[r].stage = stage /\ edit'[r].seen = seen
         /\ edit'[r].tool = edit[r].tool /\ edit'[r].arg = edit[r].arg
         /\ edit'[r].mark = edit[r].mark
         /\ \A q \in Runs : q # r => edit'[q] = edit[q]
<1>1. edit[r] \in EditRecords
  BY DEF EditTypes
<1>2. edit' = [edit EXCEPT ![r] = [edit[r] EXCEPT !.stage = stage, !.seen = seen]]
  BY DEF EditTypes
<1>3. /\ [edit[r] EXCEPT !.stage = stage, !.seen = seen] \in EditRecords
      /\ edit'[r] = [edit[r] EXCEPT !.stage = stage, !.seen = seen]
  BY <1>1, <1>2 DEF EditRecords, EditTypes
<1> QED
  BY <1>1, <1>2, <1>3 DEF EditRecords, EditTypes

\* What is in a file, and which of the two it is.
LEMMA TextTyped ==
  ASSUME EditTypes, NEW r \in Runs
  PROVE  /\ PathOf(edit[r]) \in Paths /\ edit[r].mark \in Marks /\ edit[r].seen \subseteq Marks
         /\ Text(edit[r]) = files[PathOf(edit[r])].text /\ Text(edit[r]) \subseteq Marks
BY DEF EditTypes, EditRecords, PathOf, Paths, Text

\* The checks are over, and the text is read or not.
LEMMA Looked ==
  ASSUME EditTypes, EditStaged, NEW r \in Runs, Look(r)
  PROVE  /\ edit' \in [Runs -> EditRecords]
         /\ edit[r].stage = "begin" /\ edit'[r].stage = "write"
         /\ edit[r].tool \in {"write_file", "replace_in_file"}
         /\ edit[r].arg \in EditArgs(edit[r].tool) \ {"same", "empty", "nomatch"}
         /\ edit'[r].tool = edit[r].tool /\ edit'[r].arg = edit[r].arg
         /\ edit'[r].mark = edit[r].mark
         /\ edit'[r].seen = IF edit[r].tool = "replace_in_file"
                            THEN AsRead(files[PathOf(edit[r])].text) ELSE {}
         /\ \A q \in Runs : q # r => edit'[q] = edit[q]
<1> DEFINE seen == IF edit[r].tool = "replace_in_file" THEN AsRead(Text(edit[r])) ELSE {}
<1>1. seen \in SUBSET Marks
  BY TextTyped DEF AsRead
<1>2. edit' = [edit EXCEPT ![r].stage = "write", ![r].seen = seen]
  BY DEF Look
<1>3. "write" \in EditStages
  BY DEF EditStages
<1> HIDE DEF seen
<1>4. /\ edit' \in [Runs -> EditRecords]
      /\ edit'[r].stage = "write" /\ edit'[r].seen = seen
      /\ edit'[r].tool = edit[r].tool /\ edit'[r].arg = edit[r].arg
      /\ edit'[r].mark = edit[r].mark
      /\ \A q \in Runs : q # r => edit'[q] = edit[q]
  BY <1>1, <1>2, <1>3, StageTyped
<1>5. edit[r].stage = "begin" /\ edit[r].tool # "apply_patch" /\ ~Refused(edit[r])
  BY DEF Look
<1>6. edit[r].tool \in Editing /\ edit[r].arg \in EditArgs(edit[r].tool)
  BY <1>5 DEF EditStaged
<1>7. CASE edit[r].tool = "write_file"
  BY <1>4, <1>5, <1>6, <1>7 DEF EditArgs, seen
<1>8. CASE edit[r].tool = "replace_in_file"
  BY <1>4, <1>5, <1>6, <1>8, TextTyped DEF EditArgs, seen, Refused
<1> QED
  BY <1>5, <1>6, <1>7, <1>8 DEF Editing

\* A run that is not editing has not written anything.
LEMMA Forgotten ==
  ASSUME EditTypes, NEW r \in Runs, edit' = [edit EXCEPT ![r] = NoEdit]
  PROVE  /\ edit' \in [Runs -> EditRecords] /\ edit'[r] = NoEdit /\ NoEdit.stage = "idle"
         /\ \A q \in Runs : q # r => edit'[q] = edit[q]
<1>1. NoEdit \in EditRecords /\ NoEdit.stage = "idle"
  BY DEF NoEdit, EditRecords, EditStages, Marks
<1> QED
  BY <1>1 DEF EditTypes

\* Nothing in a file, in an edit or in what is expected of it leaves its type.
LEMMA FilesNextTypes ==
  ASSUME EditTypes, EditStaged, FilesNext
  PROVE  EditTypes'
<1> USE DEF fileVars
<1>1. CASE UNCHANGED fileVars
  BY <1>1 DEF EditTypes
<1>2. ASSUME NEW r \in Runs, NEW tool \in Editing, NEW mark \in Marks, NEW arg \in
     EditArgs(tool), setting.clients = {} => arg \in {"empty", "output"}, StartsEdit(r,
     tool, arg, mark)
      PROVE  EditTypes'
  <2>1. [stage |-> "begin", tool |-> tool, arg |-> arg, mark |-> mark, seen |-> {}] \in EditRecords
    BY DEF EditRecords, EditStages, EditArgs
  <2> QED
    BY <1>2, <2>1 DEF StartsEdit, StartEdit, EditTypes
<1>3. ASSUME NEW r \in Runs, Refuse(r)
      PROVE  EditTypes'
  <2>1. edit[r].stage \in {"begin", "write", "truncated", "apply", "applied"} /\ Report(r, FALSE)
    BY <1>3 DEF Refuse
  <2>2. edit' \in [Runs -> EditRecords] /\ expected' \in [Paths -> SUBSET Marks]
    BY <2>1, Reported
  <2> QED
    BY <1>3, <2>2 DEF Refuse, EditTypes
<1>4. ASSUME NEW r \in Runs, Look(r)
      PROVE  EditTypes'
  <2>1. edit' \in [Runs -> EditRecords]
    BY <1>4, Looked
  <2> QED
    BY <1>4, <2>1 DEF Look, EditTypes
<1>5. ASSUME NEW r \in Runs, Truncate(r)
      PROVE  EditTypes'
  <2>1. edit' \in [Runs -> EditRecords]
    BY <1>5 DEF Truncate, EditTypes, EditRecords, EditStages
  <2> QED
    BY <1>5, <2>1, TextTyped DEF Truncate, EditTypes
<1>6. ASSUME NEW r \in Runs, PutText(r)
      PROVE  EditTypes'
  <2>1. edit[r].stage \in {"begin", "write", "truncated", "apply", "applied"} /\ Report(r, TRUE)
    BY <1>6 DEF PutText
  <2>2. edit' \in [Runs -> EditRecords] /\ expected' \in [Paths -> SUBSET Marks]
    BY <2>1, Reported
  <2>3. PICK rest \in {{}, Text(edit[r])} :
          files' = [files EXCEPT ![PathOf(edit[r])].text = edit[r].seen \cup NewText(edit[r]) \cup rest]
    BY <1>6 DEF PutText
  <2>4. edit[r].seen \cup NewText(edit[r]) \cup rest \subseteq Marks
    BY TextTyped DEF NewText
  <2>5. files' \in [Paths -> [exists : BOOLEAN, text : SUBSET Marks]]
    BY <2>3, <2>4, TextTyped DEF EditTypes
  <2> QED
    BY <1>6, <2>2, <2>5 DEF PutText, EditTypes
<1>7. ASSUME NEW r \in Runs, PutTextFails(r)
      PROVE  EditTypes'
  <2>1. edit[r].stage \in {"begin", "write", "truncated", "apply", "applied"} /\ Report(r, FALSE)
    BY <1>7 DEF PutTextFails
  <2>2. edit' \in [Runs -> EditRecords] /\ expected' \in [Paths -> SUBSET Marks]
    BY <2>1, Reported
  <2> QED
    BY <1>7, <2>2 DEF PutTextFails, EditTypes
<1>8. ASSUME NEW r \in Runs, CheckPatch(r)
      PROVE  EditTypes'
  <2>1. edit' \in [Runs -> EditRecords]
    <3>1. edit[r] \in EditRecords
      BY DEF EditTypes
    <3>2. [edit[r] EXCEPT !.stage = "apply"] \in EditRecords
      BY <3>1 DEF EditRecords, EditStages
    <3>3. edit' = [edit EXCEPT ![r] = [edit[r] EXCEPT !.stage = "apply"]]
      BY <1>8 DEF CheckPatch
    <3> QED
      BY <3>2, <3>3 DEF EditTypes
  <2> QED
    BY <1>8, <2>1 DEF CheckPatch, EditTypes
<1>9. ASSUME NEW r \in Runs, ApplyPatch(r)
      PROVE  EditTypes'
  <2>1. edit' \in [Runs -> EditRecords]
    <3>1. edit[r] \in EditRecords
      BY DEF EditTypes
    <3>2. [edit[r] EXCEPT !.stage = "applied"] \in EditRecords
      BY <3>1 DEF EditRecords, EditStages
    <3>3. edit' = [edit EXCEPT ![r] = [edit[r] EXCEPT !.stage = "applied"]]
      BY <1>9 DEF ApplyPatch
    <3> QED
      BY <3>2, <3>3 DEF EditTypes
  <2> QED
    BY <1>9, <2>1, TextTyped DEF ApplyPatch, Patch, Paths, EditTypes
<1>10. ASSUME NEW r \in Runs, ApplyPatchFails(r)
      PROVE  EditTypes'
  <2>1. edit[r].stage \in {"begin", "write", "truncated", "apply", "applied"} /\ Report(r, FALSE)
    BY <1>10 DEF ApplyPatchFails
  <2>2. edit' \in [Runs -> EditRecords] /\ expected' \in [Paths -> SUBSET Marks]
    BY <2>1, Reported
  <2> QED
    BY <1>10, <2>2 DEF ApplyPatchFails, EditTypes
<1>11. ASSUME NEW r \in Runs, PatchTimesOut(r)
      PROVE  EditTypes'
  <2>1. edit[r].stage \in {"begin", "write", "truncated", "apply", "applied"} /\ Report(r, FALSE)
    BY <1>11 DEF PatchTimesOut
  <2>2. edit' \in [Runs -> EditRecords] /\ expected' \in [Paths -> SUBSET Marks]
    BY <2>1, Reported
  <2> QED
    BY <1>11, <2>2, TextTyped DEF PatchTimesOut, Unreport, EditTypes
<1>12. ASSUME NEW r \in Runs, EditRaises(r)
      PROVE  EditTypes'
  <2>1. edit[r].stage \in {"begin", "write", "truncated", "apply", "applied"} /\ Report(r, FALSE)
    BY <1>12 DEF EditRaises
  <2>2. edit' \in [Runs -> EditRecords] /\ expected' \in [Paths -> SUBSET Marks]
    BY <2>1, Reported
  <2> QED
    BY <1>12, <2>2 DEF EditRaises, EditTypes
<1>13. ASSUME NEW r \in Runs, ForgetsEdit(r)
      PROVE  EditTypes'
  BY <1>13, Forgotten DEF ForgetsEdit, EditTypes
<1>14. ASSUME NEW mark \in late, LandLate(mark)
      PROVE  EditTypes'
  BY <1>14 DEF LandLate, Patch, Paths, EditTypes
<1>15. CASE AbandonEdits
  <2>1. NoEdit \in EditRecords
    BY DEF NoEdit, EditRecords, EditStages, Marks
  <2>2. disturbed' \in BOOLEAN
    BY <1>15 DEF AbandonEdits
  <2>3. \A stages : PatchesAt(stages) \subseteq Marks
    BY TextTyped DEF PatchesAt
  <2>4. PatchesAt({"apply"}) \subseteq PatchesAt({"apply", "applied"})
    BY DEF PatchesAt
  <2>5. late' \subseteq unreported' /\ unreported' \subseteq Marks
    BY <1>15, <2>3, <2>4 DEF AbandonEdits, EditTypes
  <2> QED
    BY <1>15, <2>1, <2>2, <2>5 DEF AbandonEdits, EditTypes
<1>16. ASSUME NEW r \in Runs, ReportPatch(r)
      PROVE  EditTypes'
  <2>1. edit[r].stage \in {"begin", "write", "truncated", "apply", "applied"} /\ Report(r, TRUE)
    BY <1>16 DEF ReportPatch
  <2>2. edit' \in [Runs -> EditRecords] /\ expected' \in [Paths -> SUBSET Marks]
    BY <2>1, Reported
  <2> QED
    BY <1>16, <2>2, TextTyped DEF ReportPatch, EditTypes
<1>17. ASSUME NEW r \in Runs, MisreportPatch(r)
      PROVE  EditTypes'
  <2>1. edit[r].stage \in {"begin", "write", "truncated", "apply", "applied"} /\ Report(r, FALSE)
    BY <1>17 DEF MisreportPatch
  <2>2. edit' \in [Runs -> EditRecords] /\ expected' \in [Paths -> SUBSET Marks]
    BY <2>1, Reported
  <2> QED
    BY <1>17, <2>2, TextTyped DEF MisreportPatch, Unreport, EditTypes
<1>18. ASSUME NEW r \in Runs, RerunPatch(r)
      PROVE  EditTypes'
  <2>1. edit' \in [Runs -> EditRecords]
    <3>1. edit[r] \in EditRecords
      BY DEF EditTypes
    <3>2. [edit[r] EXCEPT !.stage = "apply"] \in EditRecords
      BY <3>1 DEF EditRecords, EditStages
    <3>3. edit' = [edit EXCEPT ![r] = [edit[r] EXCEPT !.stage = "apply"]]
      BY <1>18 DEF RerunPatch
    <3> QED
      BY <3>2, <3>3 DEF EditTypes
  <2> QED
    BY <1>18, <2>1, TextTyped DEF RerunPatch, Unreport, EditTypes
<1> QED
  BY <1>1, <1>2, <1>3, <1>4, <1>5, <1>6, <1>7, <1>8, <1>9, <1>10, <1>11, <1>12, <1>13,
       <1>14, <1>15, <1>16, <1>17, <1>18 DEF FilesNext, EditStep

\* An edit keeps the tool and the arguments it was called with.
LEMMA FilesNextStaged ==
  ASSUME EditTypes, EditStaged, FilesNext
  PROVE  EditStaged'
<1> USE DEF fileVars, EditStaged
<1>1. CASE UNCHANGED fileVars
  BY <1>1
<1>2. ASSUME NEW r \in Runs, NEW tool \in Editing, NEW mark \in Marks, NEW arg \in
     EditArgs(tool), setting.clients = {} => arg \in {"empty", "output"}, StartsEdit(r,
     tool, arg, mark)
      PROVE  EditStaged'
  BY <1>2 DEF StartsEdit, StartEdit, EditTypes, EditArgs, Editing
<1>3. ASSUME NEW r \in Runs, Refuse(r)
      PROVE  EditStaged'
  <2>1. edit[r].stage \in {"begin", "write", "truncated", "apply", "applied"} /\ Report(r, FALSE)
    BY <1>3 DEF Refuse
  <2>2. edit'[r].stage \in {"ok", "failed"} /\ \A q \in Runs : q # r => edit'[q] = edit[q]
    BY <2>1, Reported
  <2> QED
    BY <2>2
<1>4. ASSUME NEW r \in Runs, Look(r)
      PROVE  EditStaged'
  <2>1. /\ edit'[r].stage = "write" /\ edit'[r].tool \in {"write_file", "replace_in_file"}
        /\ edit'[r].arg \in EditArgs(edit'[r].tool) /\ edit'[r].arg # "same"
        /\ edit'[r].tool = "write_file" => edit'[r].seen = {}
    BY <1>4, Looked
  <2>2. \A q \in Runs : q # r => edit'[q] = edit[q]
    BY <1>4, Looked
  <2> QED
    BY <2>1, <2>2 DEF Editing
<1>5. ASSUME NEW r \in Runs, Truncate(r)
      PROVE  EditStaged'
  BY <1>5 DEF Truncate, EditTypes
<1>6. ASSUME NEW r \in Runs, PutText(r)
      PROVE  EditStaged'
  <2>1. edit[r].stage \in {"begin", "write", "truncated", "apply", "applied"} /\ Report(r, TRUE)
    BY <1>6 DEF PutText
  <2>2. edit'[r].stage \in {"ok", "failed"} /\ \A q \in Runs : q # r => edit'[q] = edit[q]
    BY <2>1, Reported
  <2> QED
    BY <2>2
<1>7. ASSUME NEW r \in Runs, PutTextFails(r)
      PROVE  EditStaged'
  <2>1. edit[r].stage \in {"begin", "write", "truncated", "apply", "applied"} /\ Report(r, FALSE)
    BY <1>7 DEF PutTextFails
  <2>2. edit'[r].stage \in {"ok", "failed"} /\ \A q \in Runs : q # r => edit'[q] = edit[q]
    BY <2>1, Reported
  <2> QED
    BY <2>2
<1>8. ASSUME NEW r \in Runs, CheckPatch(r)
      PROVE  EditStaged'
  BY <1>8 DEF CheckPatch, EditTypes, Editing
<1>9. ASSUME NEW r \in Runs, ApplyPatch(r)
      PROVE  EditStaged'
  BY <1>9 DEF ApplyPatch, EditTypes, Editing
<1>10. ASSUME NEW r \in Runs, ApplyPatchFails(r)
      PROVE  EditStaged'
  <2>1. edit[r].stage \in {"begin", "write", "truncated", "apply", "applied"} /\ Report(r, FALSE)
    BY <1>10 DEF ApplyPatchFails
  <2>2. edit'[r].stage \in {"ok", "failed"} /\ \A q \in Runs : q # r => edit'[q] = edit[q]
    BY <2>1, Reported
  <2> QED
    BY <2>2
<1>11. ASSUME NEW r \in Runs, PatchTimesOut(r)
      PROVE  EditStaged'
  <2>1. edit[r].stage \in {"begin", "write", "truncated", "apply", "applied"} /\ Report(r, FALSE)
    BY <1>11 DEF PatchTimesOut
  <2>2. edit'[r].stage \in {"ok", "failed"} /\ \A q \in Runs : q # r => edit'[q] = edit[q]
    BY <2>1, Reported
  <2> QED
    BY <2>2
<1>12. ASSUME NEW r \in Runs, EditRaises(r)
      PROVE  EditStaged'
  <2>1. edit[r].stage \in {"begin", "write", "truncated", "apply", "applied"} /\ Report(r, FALSE)
    BY <1>12 DEF EditRaises
  <2>2. edit'[r].stage \in {"ok", "failed"} /\ \A q \in Runs : q # r => edit'[q] = edit[q]
    BY <2>1, Reported
  <2> QED
    BY <2>2
<1>13. ASSUME NEW r \in Runs, ForgetsEdit(r)
      PROVE  EditStaged'
  BY <1>13, Forgotten DEF ForgetsEdit
<1>14. ASSUME NEW mark \in late, LandLate(mark)
      PROVE  EditStaged'
  BY <1>14 DEF LandLate
<1>15. CASE AbandonEdits
  BY <1>15 DEF AbandonEdits, NoEdit
<1>16. ASSUME NEW r \in Runs, ReportPatch(r)
      PROVE  EditStaged'
  <2>1. edit[r].stage \in {"begin", "write", "truncated", "apply", "applied"} /\ Report(r, TRUE)
    BY <1>16 DEF ReportPatch
  <2>2. edit'[r].stage \in {"ok", "failed"} /\ \A q \in Runs : q # r => edit'[q] = edit[q]
    BY <2>1, Reported
  <2> QED
    BY <2>2
<1>17. ASSUME NEW r \in Runs, MisreportPatch(r)
      PROVE  EditStaged'
  <2>1. edit[r].stage \in {"begin", "write", "truncated", "apply", "applied"} /\ Report(r, FALSE)
    BY <1>17 DEF MisreportPatch
  <2>2. edit'[r].stage \in {"ok", "failed"} /\ \A q \in Runs : q # r => edit'[q] = edit[q]
    BY <2>1, Reported
  <2> QED
    BY <2>2
<1>18. ASSUME NEW r \in Runs, RerunPatch(r)
      PROVE  EditStaged'
  BY <1>18 DEF RerunPatch, EditTypes, Editing
<1> QED
  BY <1>1, <1>2, <1>3, <1>4, <1>5, <1>6, <1>7, <1>8, <1>9, <1>10, <1>11, <1>12, <1>13,
       <1>14, <1>15, <1>16, <1>17, <1>18 DEF FilesNext, EditStep

\* What is not touched stays as it is.
LEMMA ApartElsewhere ==
  ASSUME NEW p \in Paths, Apart(p), files'[p].text = files[p].text, expected'[p] = expected[p],
         unreported \subseteq unreported',
         \A q \in Runs : /\ Busy(q, p)' <=> Busy(q, p)
                         /\ Busy(q, p) => edit'[q] = edit[q]
  PROVE  Apart(p)'
BY DEF Apart, OneWriter, Holds, AsRead

\* The one writer leaves the file as it should be.
LEMMA ApartLeft ==
  ASSUME NEW r \in Runs, NEW p \in Paths, Apart(p), Busy(r, p), ~Busy(r, p)',
         \A q \in Runs : q # r => edit'[q] = edit[q], Holds(files[p].text, p)'
  PROVE  Apart(p)'
<1>1. \A q \in Runs : q # r => ~Busy(q, p)
  BY DEF Apart, OneWriter
<1>2. \A q \in Runs : ~Busy(q, p)'
  BY <1>1 DEF Busy
<1> QED
  BY <1>2 DEF Apart

\* An edit ends, with no success, that was not between its look and its report.
LEMMA ApartRefused ==
  ASSUME EditTypes, EditStaged, EditsApart, NEW r \in Runs, Report(r, FALSE),
         edit[r].stage \in {"begin", "apply"}, files' = files, unreported \subseteq unreported',
         disturbed => disturbed'
  PROVE  EditsApart'
<1>1. /\ edit'[r].stage \in {"ok", "failed"} /\ \A q \in Runs : q # r => edit'[q] = edit[q]
      /\ expected' = expected
  BY Reported
<1>2. \A q \in Runs, p \in Paths : (Busy(q, p)' <=> Busy(q, p)) /\ (Busy(q, p) => edit'[q] = edit[q])
  BY <1>1 DEF Busy
<1>3. ASSUME ~disturbed', NEW p \in Paths
      PROVE  Apart(p)'
  BY <1>1, <1>2, <1>3, ApartElsewhere DEF EditsApart
<1> QED
  BY <1>3 DEF EditsApart

\* A patch that has been applied is reported, or it is not.
LEMMA ApartApplied ==
  ASSUME EditTypes, EditStaged, EditsApart, NEW r \in Runs, edit[r].stage = "applied",
         edit'[r].stage \in {"apply", "ok", "failed"},
         \A q \in Runs : q # r => edit'[q] = edit[q],
         files' = files, disturbed' = disturbed, expected'["output.txt"] = expected["output.txt"],
         unreported \subseteq unreported', expected["main.py"] \subseteq expected'["main.py"],
         expected'["main.py"] \subseteq expected["main.py"] \cup {edit[r].mark},
         edit[r].mark \in unreported' \cup expected'["main.py"]
  PROVE  EditsApart'
<1>1. PathOf(edit[r]) = "main.py" /\ "main.py" \in Paths
  BY DEF EditStaged, EditArgs, PathOf, Paths
<1>2. Busy(r, "main.py") /\ ~Busy(r, "main.py")' /\ ~Busy(r, "output.txt") /\ ~Busy(r, "output.txt")'
  BY <1>1 DEF Busy
<1>3. ASSUME ~disturbed'
      PROVE  Apart("main.py")'
  <2>1. Apart("main.py")
    BY <1>1, <1>3 DEF EditsApart
  <2>2. /\ edit[r].mark \in files["main.py"].text
        /\ AsRead(expected["main.py"]) \subseteq files["main.py"].text
        /\ files["main.py"].text \subseteq expected["main.py"] \cup unreported \cup {edit[r].mark}
    BY <1>2, <2>1 DEF Apart, OneWriter
  <2>3. AsRead(expected'["main.py"]) \subseteq files["main.py"].text
    BY <2>2 DEF AsRead
  <2>4. files["main.py"].text \subseteq expected'["main.py"] \cup unreported'
    BY <2>2
  <2>5. Holds(files["main.py"].text, "main.py")'
    BY <2>3, <2>4 DEF Holds, AsRead
  <2> QED
    BY <1>1, <1>2, <2>1, <2>5, ApartLeft
<1>4. ASSUME ~disturbed'
      PROVE  Apart("output.txt")'
  <2>1. Apart("output.txt") /\ "output.txt" \in Paths
    BY <1>4 DEF EditsApart, Paths
  <2>2. \A q \in Runs : /\ Busy(q, "output.txt")' <=> Busy(q, "output.txt")
                        /\ Busy(q, "output.txt") => edit'[q] = edit[q]
    BY <1>2 DEF Busy
  <2> QED
    BY <2>1, <2>2, ApartElsewhere
<1> QED
  BY <1>3, <1>4 DEF EditsApart, Paths

\* Whoever comes between another writer and its file is noticed.
LEMMA FilesNextApart ==
  ASSUME EditTypes, EditStaged, EditsApart, FilesNext
  PROVE  EditsApart'
<1>1. CASE UNCHANGED fileVars
  BY <1>1 DEF fileVars, EditsApart, Apart, OneWriter, Holds, AsRead, Busy, PathOf
<1>2. ASSUME NEW r \in Runs, NEW tool \in Editing, NEW mark \in Marks, NEW arg \in
     EditArgs(tool), setting.clients = {} => arg \in {"empty", "output"}, StartsEdit(r,
     tool, arg, mark)
      PROVE  EditsApart'
  <2>1. /\ edit[r].stage = "idle" /\ edit'[r].stage = "begin"
        /\ \A q \in Runs : q # r => edit'[q] = edit[q]
        /\ files' = files /\ expected' = expected /\ unreported' = unreported /\ disturbed' = disturbed
    BY <1>2 DEF StartsEdit, StartEdit, EditTypes
  <2>2. \A q \in Runs, p \in Paths : (Busy(q, p)' <=> Busy(q, p)) /\ (Busy(q, p) => edit'[q] = edit[q])
    BY <2>1 DEF Busy
  <2>3. ASSUME ~disturbed', NEW p \in Paths
        PROVE  Apart(p)'
    BY <2>1, <2>2, <2>3, ApartElsewhere DEF EditsApart
  <2> QED
    BY <2>3 DEF EditsApart
<1>3. ASSUME NEW r \in Runs, Refuse(r) \/ ApplyPatchFails(r) \/ PatchTimesOut(r)
      PROVE  EditsApart'
  <2>1. /\ edit[r].stage \in {"begin", "apply"} /\ Report(r, FALSE) /\ files' = files
        /\ unreported \subseteq unreported' /\ disturbed' = disturbed
    BY <1>3 DEF Refuse, ApplyPatchFails, PatchTimesOut, Unreport
  <2> QED
    BY <2>1, ApartRefused
<1>4. ASSUME NEW r \in Runs, Look(r)
      PROVE  EditsApart'
  <2>0. PICK path \in Paths : path = PathOf(edit[r])
    BY TextTyped
  <2>1. /\ edit[r].stage = "begin" /\ edit'[r].stage = "write" /\ PathOf(edit'[r]) = path
        /\ edit'[r].tool = edit[r].tool
        /\ edit'[r].tool = "replace_in_file" => edit'[r].seen = AsRead(files[path].text)
        /\ \A q \in Runs : q # r => edit'[q] = edit[q]
    BY <2>0, <1>4, Looked DEF PathOf
  <2>2. /\ files' = files /\ expected' = expected /\ unreported' = unreported
        /\ ~disturbed' => ~disturbed /\ ~OthersBusy(r, path)
    BY <2>0, <1>4 DEF Look
  <2>3. path \in Paths
    BY <2>0, TextTyped
  <2>4. ASSUME ~disturbed'
        PROVE  Apart(path)'
    <3>1. \A q \in Runs : ~Busy(q, path)
      BY <2>1, <2>2, <2>4 DEF OthersBusy, Busy
    <3>2. Holds(files[path].text, path)
      BY <2>2, <2>3, <2>4, <3>1 DEF EditsApart, Apart
    <3>3. Holds(AsRead(files[path].text), path)
      BY <3>2 DEF Holds, AsRead
    <3>4. Busy(r, path)' /\ \A q \in Runs : Busy(q, path)' => q = r
      BY <2>1, <3>1 DEF Busy
    <3>5. Holds(files[path].text, path)' /\ Holds(AsRead(files[path].text), path)'
      BY <2>2, <3>2, <3>3 DEF Holds, AsRead
    <3>6. edit'[r].tool = "replace_in_file" => Holds(edit[r].seen, path)'
      BY <2>1, <2>2, <3>5 DEF Holds
    <3>7. OneWriter(r, path)'
      BY <2>1, <3>4, <3>5, <3>6 DEF OneWriter
    <3> QED
      BY <3>4, <3>7 DEF Apart
  <2>5. ASSUME ~disturbed', NEW p \in Paths, p # path
        PROVE  Apart(p)'
    <3>1. \A q \in Runs : (Busy(q, p)' <=> Busy(q, p)) /\ (Busy(q, p) => edit'[q] = edit[q])
      BY <2>0, <2>1, <2>5 DEF Busy
    <3> QED
      BY <2>2, <2>5, <3>1, ApartElsewhere DEF EditsApart
  <2> QED
    BY <2>4, <2>5 DEF EditsApart
<1>5. ASSUME NEW r \in Runs, Truncate(r)
      PROVE  EditsApart'
  <2>0. PICK path \in Paths : path = PathOf(edit[r])
    BY TextTyped
  <2>1. /\ edit[r].stage = "write" /\ edit'[r].stage = "truncated" /\ PathOf(edit'[r]) = path
        /\ edit'[r].tool = edit[r].tool /\ edit'[r].seen = edit[r].seen
        /\ \A q \in Runs : q # r => edit'[q] = edit[q]
    BY <2>0, <1>5 DEF Truncate, EditTypes, PathOf
  <2>2. path \in Paths
    BY <2>0, TextTyped
  <2>3. /\ expected' = expected /\ unreported' = unreported /\ disturbed' = disturbed
        /\ files'[path].text = {} /\ \A p \in Paths : p # path => files'[p] = files[p]
    BY <2>0, <1>5, <2>2 DEF Truncate, EditTypes
  <2>4. Busy(r, path) /\ Busy(r, path)'
    BY <2>0, <2>1 DEF Busy
  <2>5. \A p \in Paths : p # path => ~Busy(r, p) /\ ~Busy(r, p)'
    BY <2>0, <2>1 DEF Busy
  <2>6. ASSUME ~disturbed'
        PROVE  Apart(path)'
    <3>1. OneWriter(r, path)
      BY <2>2, <2>3, <2>4, <2>6 DEF EditsApart, Apart
    <3>2. \A q \in Runs : Busy(q, path)' => q = r
      BY <2>1, <3>1 DEF OneWriter, Busy
    <3>3. edit'[r].tool = "replace_in_file" => Holds(edit[r].seen, path)'
      BY <2>1, <2>3, <3>1 DEF OneWriter, Holds, AsRead
    <3>4. OneWriter(r, path)'
      BY <2>1, <2>3, <3>2, <3>3 DEF OneWriter
    <3> QED
      BY <2>4, <3>2, <3>4 DEF Apart
  <2>7. ASSUME ~disturbed', NEW p \in Paths, p # path
        PROVE  Apart(p)'
    <3>1. \A q \in Runs : (Busy(q, p)' <=> Busy(q, p)) /\ (Busy(q, p) => edit'[q] = edit[q])
      BY <2>1, <2>5, <2>7 DEF Busy
    <3> QED
      BY <2>3, <2>7, <3>1, ApartElsewhere DEF EditsApart
  <2> QED
    BY <2>6, <2>7 DEF EditsApart
<1>6. ASSUME NEW r \in Runs, PutText(r)
      PROVE  EditsApart'
  <2>0. PICK path \in Paths : path = PathOf(edit[r])
    BY TextTyped
  <2> DEFINE claimed == IF edit[r].arg = "output" THEN {} ELSE {edit[r].mark}
  <2>1. /\ edit[r].stage = "truncated" /\ Report(r, TRUE)
        /\ disturbed' = disturbed /\ unreported' = unreported
        /\ edit[r].tool \in {"write_file", "replace_in_file"} /\ edit[r].arg # "same"
        /\ edit[r].tool = "write_file" => edit[r].seen = {}
    BY <2>0, <1>6 DEF PutText, EditStaged, Editing
  <2>2. /\ edit'[r].stage \in {"ok", "failed"} /\ \A q \in Runs : q # r => edit'[q] = edit[q]
        /\ \A p \in Paths : expected'[p] = IF p # path THEN expected[p]
              ELSE IF edit[r].tool = "write_file" THEN claimed ELSE expected[p] \cup claimed
    BY <2>0, <2>1, Reported
  <2>3. NewText(edit[r]) = claimed
    BY <2>0, <2>1 DEF NewText
  <2>4. path \in Paths /\ Text(edit[r]) = files[path].text
    BY <2>0, TextTyped
  <2>5. PICK rest \in {{}, Text(edit[r])} :
          files' = [files EXCEPT ![path].text = edit[r].seen \cup NewText(edit[r]) \cup rest]
    BY <2>0, <1>6 DEF PutText
  <2>6. /\ files'[path].text = edit[r].seen \cup claimed \cup rest
        /\ \A p \in Paths : p # path => files'[p] = files[p]
    BY <2>0, <2>3, <2>4, <2>5 DEF EditTypes
  <2>7. Busy(r, path) /\ ~Busy(r, path)' /\ \A p \in Paths : p # path => ~Busy(r, p) /\ ~Busy(r, p)'
    BY <2>0, <2>1, <2>2 DEF Busy
  <2> HIDE DEF claimed
  <2>8. ASSUME ~disturbed'
        PROVE  Apart(path)'
    <3>1. Apart(path) /\ OneWriter(r, path)
      BY <2>1, <2>4, <2>7, <2>8 DEF EditsApart, Apart
    <3>2. rest = {}
      BY <2>1, <2>4, <2>5, <3>1 DEF OneWriter
    <3>3. ASSUME edit[r].tool = "write_file"
          PROVE  Holds(files[path].text, path)'
      <4>1. files'[path].text = claimed /\ expected'[path] = claimed
        BY <2>1, <2>2, <2>4, <2>6, <3>2, <3>3
      <4> QED
        BY <4>1 DEF Holds, AsRead
    <3>4. ASSUME edit[r].tool = "replace_in_file"
          PROVE  Holds(files[path].text, path)'
      <4>1. files'[path].text = edit[r].seen \cup claimed /\ expected'[path] = expected[path] \cup claimed
        BY <2>2, <2>4, <2>6, <3>2, <3>4
      <4>2. Holds(edit[r].seen, path)
        BY <2>1, <3>1, <3>4 DEF OneWriter
      <4> QED
        BY <2>1, <4>1, <4>2 DEF Holds, AsRead
    <3>5. Holds(files[path].text, path)'
      BY <2>1, <3>3, <3>4
    <3> QED
      BY <2>2, <2>4, <2>7, <3>1, <3>5, ApartLeft
  <2>9. ASSUME ~disturbed', NEW p \in Paths, p # path
        PROVE  Apart(p)'
    <3>1. \A q \in Runs : (Busy(q, p)' <=> Busy(q, p)) /\ (Busy(q, p) => edit'[q] = edit[q])
      BY <2>2, <2>7, <2>9 DEF Busy
    <3>2. files'[p].text = files[p].text /\ expected'[p] = expected[p] /\ Apart(p)
      BY <2>1, <2>2, <2>6, <2>9 DEF EditsApart
    <3> QED
      BY <2>1, <3>1, <3>2, ApartElsewhere
  <2> QED
    BY <2>8, <2>9 DEF EditsApart
<1>7. ASSUME NEW r \in Runs, PutTextFails(r)
      PROVE  EditsApart'
  BY <1>7 DEF PutTextFails, EditsApart
<1>8. ASSUME NEW r \in Runs, CheckPatch(r)
      PROVE  EditsApart'
  <2>1. /\ edit[r].stage = "begin" /\ edit'[r].stage = "apply"
        /\ \A q \in Runs : q # r => edit'[q] = edit[q]
        /\ files' = files /\ expected' = expected /\ unreported' = unreported /\ disturbed' = disturbed
    BY <1>8 DEF CheckPatch, EditTypes
  <2>2. \A q \in Runs, p \in Paths : (Busy(q, p)' <=> Busy(q, p)) /\ (Busy(q, p) => edit'[q] = edit[q])
    BY <2>1 DEF Busy
  <2>3. ASSUME ~disturbed', NEW p \in Paths
        PROVE  Apart(p)'
    BY <2>1, <2>2, <2>3, ApartElsewhere DEF EditsApart
  <2> QED
    BY <2>3 DEF EditsApart
<1>9. ASSUME NEW r \in Runs, ApplyPatch(r)
      PROVE  EditsApart'
  <2>1. /\ edit[r].stage = "apply" /\ PathOf(edit[r]) = "main.py"
        /\ ~disturbed' => ~disturbed /\ ~OthersBusy(r, "main.py")
        /\ expected' = expected /\ unreported' = unreported
    BY <1>9 DEF ApplyPatch, EditStaged, EditArgs, PathOf
  <2>2. /\ edit'[r].stage = "applied" /\ edit'[r].mark = edit[r].mark /\ edit'[r].arg = edit[r].arg
        /\ \A q \in Runs : q # r => edit'[q] = edit[q]
    BY <1>9 DEF ApplyPatch, EditTypes, EditRecords
  <2>3. PathOf(edit'[r]) = "main.py"
    BY <2>1, <2>2 DEF PathOf
  <2>4. /\ files'["main.py"].text = files["main.py"].text \cup {edit[r].mark}
        /\ files'["output.txt"] = files["output.txt"]
    BY <1>9 DEF ApplyPatch, Patch, EditTypes, Paths
  <2>5. Busy(r, "main.py")' /\ ~Busy(r, "output.txt") /\ ~Busy(r, "output.txt")' /\ ~Busy(r, "main.py")
    BY <2>1, <2>2, <2>3 DEF Busy
  <2>6. ASSUME ~disturbed'
        PROVE  Apart("main.py")'
    <3>1. \A q \in Runs : ~Busy(q, "main.py")
      BY <2>1, <2>5, <2>6 DEF OthersBusy
    <3>2. Holds(files["main.py"].text, "main.py")
      BY <2>1, <2>6, <3>1 DEF EditsApart, Apart, Paths
    <3>3. \A q \in Runs : Busy(q, "main.py")' => q = r
      BY <2>2, <3>1 DEF Busy
    <3>4. /\ edit[r].mark \in files'["main.py"].text
          /\ AsRead(expected'["main.py"]) \subseteq files'["main.py"].text
          /\ files'["main.py"].text \subseteq expected'["main.py"] \cup unreported' \cup {edit[r].mark}
      BY <2>1, <2>4, <3>2 DEF Holds, AsRead
    <3>5. OneWriter(r, "main.py")'
      BY <2>2, <3>3, <3>4 DEF OneWriter, AsRead
    <3> QED
      BY <2>5, <3>3, <3>5 DEF Apart
  <2>7. ASSUME ~disturbed'
        PROVE  Apart("output.txt")'
    <3>1. Apart("output.txt") /\ "output.txt" \in Paths
      BY <2>1, <2>7 DEF EditsApart, Paths
    <3>2. \A q \in Runs : /\ Busy(q, "output.txt")' <=> Busy(q, "output.txt")
                          /\ Busy(q, "output.txt") => edit'[q] = edit[q]
      BY <2>2, <2>5 DEF Busy
    <3> QED
      BY <2>1, <2>4, <3>1, <3>2, ApartElsewhere
  <2> QED
    BY <2>6, <2>7 DEF EditsApart, Paths
<1>10. ASSUME NEW r \in Runs, ReportPatch(r)
      PROVE  EditsApart'
  <2>1. /\ edit[r].stage = "applied" /\ Report(r, TRUE) /\ edit[r].tool = "apply_patch"
        /\ edit[r].arg # "output" /\ PathOf(edit[r]) = "main.py"
        /\ files' = files /\ unreported' = unreported /\ disturbed' = disturbed
    BY <1>10 DEF ReportPatch, EditStaged, EditArgs, PathOf
  <2>2. /\ edit'[r].stage \in {"ok", "failed"} /\ \A q \in Runs : q # r => edit'[q] = edit[q]
        /\ \A p \in Paths : expected'[p] =
             LET claimed == IF edit[r].arg = "output" THEN {} ELSE {edit[r].mark}
             IN  IF p # PathOf(edit[r]) THEN expected[p]
                 ELSE IF edit[r].tool = "write_file" THEN claimed ELSE expected[p] \cup claimed
    BY <2>1, Reported
  <2>3. /\ expected'["main.py"] = expected["main.py"] \cup {edit[r].mark}
        /\ expected'["output.txt"] = expected["output.txt"]
    BY <2>1, <2>2 DEF Paths
  <2> QED
    BY <2>1, <2>2, <2>3, ApartApplied
<1>11. ASSUME NEW r \in Runs, MisreportPatch(r)
      PROVE  EditsApart'
  <2>1. /\ edit[r].stage = "applied" /\ Report(r, FALSE)
        /\ files' = files /\ disturbed' = disturbed
        /\ unreported \subseteq unreported' /\ edit[r].mark \in unreported'
    BY <1>11 DEF MisreportPatch, Unreport
  <2>2. /\ edit'[r].stage \in {"ok", "failed"} /\ \A q \in Runs : q # r => edit'[q] = edit[q]
        /\ expected' = expected
    BY <2>1, Reported
  <2> QED
    BY <2>1, <2>2, ApartApplied
<1>12. ASSUME NEW r \in Runs, RerunPatch(r)
      PROVE  EditsApart'
  <2>1. /\ edit[r].stage = "applied" /\ files' = files /\ disturbed' = disturbed
        /\ unreported \subseteq unreported' /\ edit[r].mark \in unreported' /\ expected' = expected
    BY <1>12 DEF RerunPatch, Unreport
  <2>2. edit'[r].stage = "apply" /\ \A q \in Runs : q # r => edit'[q] = edit[q]
    BY <1>12 DEF RerunPatch, EditTypes
  <2> QED
    BY <2>1, <2>2, ApartApplied
<1>13. ASSUME NEW r \in Runs, EditRaises(r)
      PROVE  EditsApart'
  <2>1. /\ edit[r].stage \in {"begin", "write", "apply"} /\ Report(r, FALSE)
        /\ files' = files /\ unreported' = unreported /\ disturbed' = disturbed
    BY <1>13 DEF EditRaises
  <2>2. CASE edit[r].stage \in {"begin", "apply"}
    BY <2>1, <2>2, ApartRefused
  <2>3. CASE edit[r].stage = "write"
    <3>0. PICK path \in Paths : path = PathOf(edit[r])
      BY TextTyped
    <3>1. /\ edit'[r].stage \in {"ok", "failed"} /\ \A q \in Runs : q # r => edit'[q] = edit[q]
          /\ expected' = expected
      BY <3>0, <2>1, Reported
    <3>2. path \in Paths
      BY <3>0, TextTyped
    <3>3. /\ Busy(r, path) /\ ~Busy(r, path)'
          /\ \A p \in Paths : p # path => ~Busy(r, p) /\ ~Busy(r, p)'
      BY <3>0, <2>3, <3>1 DEF Busy
    <3>4. ASSUME ~disturbed'
          PROVE  Apart(path)'
      <4>1. Apart(path) /\ Holds(files[path].text, path)
        BY <2>1, <2>3, <3>2, <3>3, <3>4 DEF EditsApart, Apart, OneWriter
      <4>2. Holds(files[path].text, path)'
        BY <2>1, <3>1, <4>1 DEF Holds, AsRead
      <4> QED
        BY <3>1, <3>2, <3>3, <4>1, <4>2, ApartLeft
    <3>5. ASSUME ~disturbed', NEW p \in Paths, p # path
          PROVE  Apart(p)'
      <4>1. \A q \in Runs : (Busy(q, p)' <=> Busy(q, p)) /\ (Busy(q, p) => edit'[q] = edit[q])
        BY <3>1, <3>3, <3>5 DEF Busy
      <4> QED
        BY <2>1, <3>1, <3>5, <4>1, ApartElsewhere DEF EditsApart
    <3> QED
      BY <3>4, <3>5 DEF EditsApart
  <2> QED
    BY <2>1, <2>2, <2>3
<1>14. ASSUME NEW r \in Runs, ForgetsEdit(r)
      PROVE  EditsApart'
  <2>1. /\ edit'[r].stage = "idle" /\ \A q \in Runs : q # r => edit'[q] = edit[q]
        /\ edit[r].stage \in {"idle", "ok", "failed"}
        /\ files' = files /\ expected' = expected /\ unreported' = unreported /\ disturbed' = disturbed
    BY <1>14, Forgotten DEF ForgetsEdit
  <2>2. \A q \in Runs, p \in Paths : (Busy(q, p)' <=> Busy(q, p)) /\ (Busy(q, p) => edit'[q] = edit[q])
    BY <2>1 DEF Busy
  <2>3. ASSUME ~disturbed', NEW p \in Paths
        PROVE  Apart(p)'
    BY <2>1, <2>2, <2>3, ApartElsewhere DEF EditsApart
  <2> QED
    BY <2>3 DEF EditsApart
<1>15. ASSUME NEW mark \in late, LandLate(mark)
      PROVE  EditsApart'
  <2>1. /\ edit' = edit /\ (~disturbed' => ~disturbed /\ \A r \in Runs : ~Busy(r, "main.py"))
        /\ expected' = expected /\ unreported' = unreported /\ mark \in unreported
        /\ files'["main.py"].text = files["main.py"].text \cup {mark}
        /\ files'["output.txt"] = files["output.txt"]
    BY <1>15 DEF LandLate, Patch, EditTypes, Paths
  <2>2. ASSUME ~disturbed'
        PROVE  Apart("main.py")'
    <3>1. Holds(files["main.py"].text, "main.py")
      BY <2>1, <2>2 DEF EditsApart, Apart, Paths
    <3>2. Holds(files["main.py"].text, "main.py")'
      BY <2>1, <3>1 DEF Holds, AsRead
    <3>3. \A r \in Runs : ~Busy(r, "main.py")'
      BY <2>1, <2>2 DEF Busy
    <3> QED
      BY <3>2, <3>3 DEF Apart
  <2>3. ASSUME ~disturbed'
        PROVE  Apart("output.txt")'
    <3>1. Apart("output.txt") /\ "output.txt" \in Paths
      BY <2>1, <2>3 DEF EditsApart, Paths
    <3>2. \A q \in Runs : /\ Busy(q, "output.txt")' <=> Busy(q, "output.txt")
                          /\ Busy(q, "output.txt") => edit'[q] = edit[q]
      BY <2>1 DEF Busy
    <3> QED
      BY <2>1, <3>1, <3>2, ApartElsewhere
  <2> QED
    BY <2>2, <2>3 DEF EditsApart, Paths
<1>16. CASE AbandonEdits
  <2>1. /\ files' = files /\ expected' = expected
        /\ unreported' = unreported \cup PatchesAt({"apply", "applied"})
        /\ ~disturbed' => ~disturbed /\ \A r \in Runs : edit[r].stage # "truncated"
    BY <1>16 DEF AbandonEdits
  <2>2. \A r \in Runs, p \in Paths : ~Busy(r, p)'
    BY <1>16 DEF AbandonEdits, NoEdit, Busy
  <2>3. ASSUME ~disturbed', NEW p \in Paths
        PROVE  Holds(files[p].text, p)'
    <3>1. Apart(p)
      BY <2>1, <2>3 DEF EditsApart
    <3>2. CASE \A r \in Runs : ~Busy(r, p)
      <4>1. Holds(files[p].text, p)
        BY <3>1, <3>2 DEF Apart
      <4> QED
        BY <2>1, <4>1 DEF Holds, AsRead
    <3>3. ASSUME NEW r \in Runs, Busy(r, p)
          PROVE  Holds(files[p].text, p)'
      <4>1. OneWriter(r, p) /\ edit[r].stage \in {"write", "applied"}
        BY <2>1, <2>3, <3>1, <3>3 DEF Apart, Busy
      <4>2. CASE edit[r].stage = "write"
        <5>1. Holds(files[p].text, p)
          BY <4>1, <4>2 DEF OneWriter
        <5> QED
          BY <2>1, <5>1 DEF Holds, AsRead
      <4>3. CASE edit[r].stage = "applied"
        <5>1. edit[r].mark \in unreported'
          BY <2>1, <4>3 DEF PatchesAt
        <5>2. /\ AsRead(expected[p]) \subseteq files[p].text
              /\ files[p].text \subseteq expected[p] \cup unreported \cup {edit[r].mark}
          BY <4>1, <4>3 DEF OneWriter
        <5> QED
          BY <2>1, <5>1, <5>2 DEF Holds, AsRead
      <4> QED
        BY <4>1, <4>2, <4>3
    <3> QED
      BY <3>2, <3>3
  <2> QED
    BY <2>2, <2>3 DEF EditsApart, Apart
<1> QED
  BY <1>1, <1>2, <1>3, <1>4, <1>5, <1>6, <1>7, <1>8, <1>9, <1>10, <1>11, <1>12, <1>13,
       <1>14, <1>15, <1>16 DEF FilesNext, EditStep

\* Without a model every edit but that of output.txt is refused.
LEMMA FilesNextNothing ==
  ASSUME EditTypes, EditStaged, NothingWritten, FilesNext, setting' = setting
  PROVE  NothingWritten'
<1> USE DEF fileVars, NothingWritten
<1>1. CASE UNCHANGED fileVars
  BY <1>1
<1>2. ASSUME NEW r \in Runs, NEW tool \in Editing, NEW mark \in Marks, NEW arg \in
     EditArgs(tool), setting.clients = {} => arg \in {"empty", "output"}, StartsEdit(r,
     tool, arg, mark)
      PROVE  NothingWritten'
  BY <1>2 DEF StartsEdit, StartEdit, EditTypes
<1>3. ASSUME NEW r \in Runs, Refuse(r)
      PROVE  NothingWritten'
  <2>1. /\ edit[r].stage \in {"begin", "write", "truncated", "apply", "applied"} /\ Report(r, FALSE)
        /\ setting.clients = {} => edit[r].stage # "apply"
    BY <1>3 DEF Refuse, NothingWritten
  <2>2. edit'[r].stage \in {"ok", "failed"} /\ \A q \in Runs : q # r => edit'[q] = edit[q]
    BY <2>1, Reported
  <2> QED
    BY <1>3, <2>1, <2>2 DEF Refuse
<1>4. ASSUME NEW r \in Runs, Look(r)
      PROVE  NothingWritten'
  <2>1. /\ edit[r].stage = "begin" /\ edit'[r].stage = "write" /\ edit'[r].arg = edit[r].arg
        /\ edit[r].tool \in {"write_file", "replace_in_file"}
        /\ edit[r].arg \in EditArgs(edit[r].tool) \ {"same", "empty", "nomatch"}
        /\ edit[r].tool # "replace_in_file" => edit'[r].seen = {}
        /\ \A q \in Runs : q # r => edit'[q] = edit[q]
    BY <1>4, Looked
  <2>2. setting.clients = {} => edit[r].arg = "output" /\ edit[r].tool = "write_file"
    BY <2>1 DEF EditArgs
  <2>3. files' = files /\ unreported' = unreported
    BY <1>4 DEF Look
  <2>4. ASSUME setting.clients = {}, NEW q \in Runs
        PROVE  /\ edit'[q].stage = "begin" => edit'[q].arg \in {"empty", "output"}
               /\ edit'[q].stage \in {"write", "truncated"} =>
                    edit'[q].arg = "output" /\ edit'[q].seen = {}
               /\ edit'[q].stage \notin {"apply", "applied"}
    <3>1. CASE q = r
      BY <2>1, <2>2, <2>4, <3>1
    <3>2. CASE q # r
      BY <2>1, <2>4, <3>2
    <3> QED
      BY <3>1, <3>2
  <2> QED
    BY <2>3, <2>4
<1>5. ASSUME NEW r \in Runs, Truncate(r)
      PROVE  NothingWritten'
  <2>1. /\ edit[r].stage = "write" /\ edit'[r].stage = "truncated"
        /\ edit'[r].arg = edit[r].arg /\ edit'[r].seen = edit[r].seen
        /\ \A q \in Runs : q # r => edit'[q] = edit[q]
    BY <1>5 DEF Truncate, EditTypes
  <2>2. setting.clients = {} => PathOf(edit[r]) = "output.txt"
    BY <2>1 DEF PathOf
  <2>3. setting.clients = {} => files'["output.txt"].text = {} /\ files'["main.py"] = files["main.py"]
    BY <1>5, <2>2 DEF Truncate, EditTypes, Paths
  <2> QED
    BY <1>5, <2>1, <2>3 DEF Truncate
<1>6. ASSUME NEW r \in Runs, PutText(r)
      PROVE  NothingWritten'
  <2>1. edit[r].stage = "truncated" /\ Report(r, TRUE) /\ unreported' = unreported
    BY <1>6 DEF PutText
  <2>2. edit'[r].stage \in {"ok", "failed"} /\ \A q \in Runs : q # r => edit'[q] = edit[q]
    BY <2>1, Reported
  <2>3. PICK rest \in {{}, Text(edit[r])} :
          files' = [files EXCEPT ![PathOf(edit[r])].text = edit[r].seen \cup NewText(edit[r]) \cup rest]
    BY <1>6 DEF PutText
  <2>4. setting.clients = {} =>
          /\ PathOf(edit[r]) = "output.txt" /\ edit[r].seen = {} /\ NewText(edit[r]) = {} /\ rest = {}
    BY <2>1, TextTyped DEF PathOf, NewText
  <2>5. setting.clients = {} => files'["output.txt"].text = {} /\ files'["main.py"] = files["main.py"]
    BY <2>3, <2>4 DEF EditTypes, Paths
  <2> QED
    BY <2>1, <2>2, <2>5
<1>7. ASSUME NEW r \in Runs, PutTextFails(r)
      PROVE  NothingWritten'
  <2>1. /\ edit[r].stage \in {"begin", "write", "truncated", "apply", "applied"} /\ Report(r, FALSE)
        /\ setting.clients = {} => edit[r].stage # "apply"
    BY <1>7 DEF PutTextFails, NothingWritten
  <2>2. edit'[r].stage \in {"ok", "failed"} /\ \A q \in Runs : q # r => edit'[q] = edit[q]
    BY <2>1, Reported
  <2> QED
    BY <1>7, <2>1, <2>2 DEF PutTextFails
<1>8. ASSUME NEW r \in Runs, CheckPatch(r)
      PROVE  NothingWritten'
  BY <1>8 DEF CheckPatch, EditTypes, EditStaged, EditArgs, Refused
<1>9. ASSUME NEW r \in Runs, ApplyPatch(r)
      PROVE  NothingWritten'
  BY <1>9 DEF ApplyPatch, Paths
<1>10. ASSUME NEW r \in Runs, ApplyPatchFails(r)
      PROVE  NothingWritten'
  <2>1. /\ edit[r].stage \in {"begin", "write", "truncated", "apply", "applied"} /\ Report(r, FALSE)
        /\ setting.clients = {} => edit[r].stage # "apply"
    BY <1>10 DEF ApplyPatchFails, NothingWritten
  <2>2. edit'[r].stage \in {"ok", "failed"} /\ \A q \in Runs : q # r => edit'[q] = edit[q]
    BY <2>1, Reported
  <2> QED
    BY <1>10, <2>1, <2>2 DEF ApplyPatchFails
<1>11. ASSUME NEW r \in Runs, PatchTimesOut(r)
      PROVE  NothingWritten'
  <2>1. /\ edit[r].stage \in {"begin", "write", "truncated", "apply", "applied"} /\ Report(r, FALSE)
        /\ setting.clients = {} => edit[r].stage # "apply"
    BY <1>11 DEF PatchTimesOut, NothingWritten
  <2>2. edit'[r].stage \in {"ok", "failed"} /\ \A q \in Runs : q # r => edit'[q] = edit[q]
    BY <2>1, Reported
  <2> QED
    BY <1>11, <2>1, <2>2 DEF PatchTimesOut
<1>12. ASSUME NEW r \in Runs, EditRaises(r)
      PROVE  NothingWritten'
  <2>1. /\ edit[r].stage \in {"begin", "write", "truncated", "apply", "applied"} /\ Report(r, FALSE)
        /\ setting.clients = {} => edit[r].stage # "apply"
    BY <1>12 DEF EditRaises, NothingWritten
  <2>2. edit'[r].stage \in {"ok", "failed"} /\ \A q \in Runs : q # r => edit'[q] = edit[q]
    BY <2>1, Reported
  <2> QED
    BY <1>12, <2>1, <2>2 DEF EditRaises
<1>13. ASSUME NEW r \in Runs, ForgetsEdit(r)
      PROVE  NothingWritten'
  <2>1. edit'[r].stage = "idle" /\ \A q \in Runs : q # r => edit'[q] = edit[q]
    BY <1>13, Forgotten DEF ForgetsEdit
  <2> QED
    BY <1>13, <2>1 DEF ForgetsEdit
<1>14. ASSUME NEW mark \in late, LandLate(mark)
      PROVE  NothingWritten'
  BY <1>14 DEF LandLate, EditTypes
<1>15. CASE AbandonEdits
  <2>1. setting.clients = {} => PatchesAt({"apply", "applied"}) = {}
    BY DEF PatchesAt
  <2> QED
    BY <1>15, <2>1 DEF AbandonEdits, NoEdit
<1>16. ASSUME NEW r \in Runs, ReportPatch(r) \/ MisreportPatch(r) \/ RerunPatch(r)
      PROVE  NothingWritten'
  BY <1>16 DEF ReportPatch, MisreportPatch, RerunPatch
<1> QED
  BY <1>1, <1>2, <1>3, <1>4, <1>5, <1>6, <1>7, <1>8, <1>9, <1>10, <1>11, <1>12, <1>13,
       <1>14, <1>15, <1>16 DEF FilesNext, EditStep

-----------------------------------------------------------------------------
(* A step of a run is a step of its parts *)

MemoryNext == UNCHANGED memoryVars \/ Remember \/ TearInsight

\* A run that is not retrieving begins to, or has finished and lets go of it.
StartsFetch(r, force) == fetch[r].stage = "idle" /\ StartFetch(r, force)

ForgetsFetch(r) ==
  /\ fetch[r].stage \in {"idle", "ok", "failed"}
  /\ fetch' = [fetch EXCEPT ![r] = NoFetch]
  /\ UNCHANGED <<disk, engines, cached, builds, mixed, crossed>>

RagNext ==
  \/ UNCHANGED ragVars
  \/ \E r \in Fetchers, force \in BOOLEAN : StartsFetch(r, force)
  \/ \E r \in Fetchers : FetchStep(r) \/ ForgetsFetch(r)
  \/ EvictEngine
  \/ LoseEngines

\* A call of the model's, or a suggested tool, is one for the files or for the index.
LEMMA DispatchParts ==
  ASSUME RunTypes, Staged, NEW r \in Runs, pc[r] \in {"ask", "try"},
         NEW call, call.tool \in ToolNames, NEW rest \in Seq(Tools), Dispatch(r, call, rest),
         call.tool \in Editing =>
           /\ Normalized(call) \in EditArgs(call.tool)
           /\ setting.clients = {} => Normalized(call) \in {"empty", "output"}
  PROVE  FilesNext /\ RagNext
<1>1. edit[r].stage = "idle" /\ fetch[r].stage = "idle" /\ started > 0
  BY DEF Staged
<1>2. MarkOf(r) \in Marks
  BY <1>1, WorkspaceAssumption DEF RunTypes, StepRecords, MarkOf, Marks
<1>3. Fetchers = Runs
  BY WorkspaceAssumption
<1>4. CASE UNCHANGED <<fileVars, ragVars>>
  BY <1>4 DEF FilesNext, RagNext
<1>5. CASE /\ UNCHANGED ragVars
           /\ call.tool \in Editing /\ StartEdit(r, call.tool, Normalized(call), MarkOf(r))
  BY <1>1, <1>2, <1>5 DEF FilesNext, StartsEdit, RagNext
<1>6. CASE UNCHANGED fileVars /\ (StartFetch(r, TRUE) \/ StartFetch(r, FALSE))
  BY <1>1, <1>3, <1>6 DEF FilesNext, StartsFetch, RagNext
<1> QED
  BY <1>4, <1>5, <1>6, Dispatched

\* The answer of the model is a call it may make.
LEMMA AskParts ==
  ASSUME RunTypes, Staged, NEW r \in Runs, Ask(r)
  PROVE  \/ Goto(r, "judge") /\ UNCHANGED <<step, fileVars, ragVars>>
         \/ \E call \in Calls : /\ call.tool \in ToolNames /\ <<>> \in Seq(Tools)
                                /\ Dispatch(r, call, <<>>)
BY CallsTyped DEF Ask

\* The tool tried is the next of the suggested ones.
LEMMA TryParts ==
  ASSUME RunTypes, Staged, NEW r \in Runs, Try(r)
  PROVE  \E call : /\ call.tool \in Tools /\ Tail(step[r].left) \in Seq(Tools)
                   /\ call.tool \in Editing =>
                        /\ Normalized(call) \in EditArgs(call.tool)
                        /\ Normalized(call) \in {"empty", "output"}
                   /\ Dispatch(r, call, Tail(step[r].left))
<1>1. step[r].left \in Seq(Tools) /\ step[r].left # <<>>
  BY DEF RunTypes, StepRecords, Staged, Try
<1>2. Head(step[r].left) \in Tools /\ Tail(step[r].left) \in Seq(Tools)
  BY <1>1
<1>3. PICK errors \in BOOLEAN : \E call \in FallbackCalls(Head(step[r].left), errors) :
        Dispatch(r, call, Tail(step[r].left))
  BY DEF Try
<1>4. PICK call \in FallbackCalls(Head(step[r].left), errors) : Dispatch(r, call, Tail(step[r].left))
  BY <1>3
<1>5. /\ call.tool = Head(step[r].left)
      /\ call.tool \in Editing =>
           Normalized(call) \in EditArgs(call.tool) /\ Normalized(call) \in {"empty", "output"}
  BY <1>2, FallbackTyped
<1> QED
  BY <1>2, <1>4, <1>5

\* Whatever happens is a step of the files, of the index and of the memory.
LEMMA Parts ==
  ASSUME RunTypes, Staged, [Next]_vars
  PROVE  FilesNext /\ RagNext /\ MemoryNext /\ setting' = setting
<1> USE DEF memoryVars
<1>1. ASSUME NEW r \in Runs, StartWithModel(r)
      PROVE  FilesNext /\ RagNext /\ MemoryNext /\ setting' = setting
  BY <1>1 DEF StartWithModel, FilesNext, RagNext, MemoryNext, End, Start
<1>2. ASSUME NEW r \in Runs, StartFallback(r)
      PROVE  FilesNext /\ RagNext /\ MemoryNext /\ setting' = setting
  BY <1>2 DEF StartFallback, FilesNext, RagNext, MemoryNext, End, Start
<1>3. ASSUME NEW r \in Runs, Ask(r)
      PROVE  FilesNext /\ RagNext /\ MemoryNext /\ setting' = setting
  <2>1. setting' = setting /\ memoryVars' = memoryVars /\ pc[r] = "ask" /\ setting.clients # {}
    BY <1>3 DEF Ask, Staged
  <2>2. CASE Goto(r, "judge") /\ UNCHANGED <<step, fileVars, ragVars>>
    BY <2>1, <2>2 DEF FilesNext, RagNext, MemoryNext
  <2>3. ASSUME NEW call \in Calls, call.tool \in ToolNames, <<>> \in Seq(Tools), Dispatch(r, call, <<>>)
        PROVE  FilesNext /\ RagNext
    BY <2>1, <2>3, CallsTyped, DispatchParts
  <2> QED
    BY <1>3, <2>1, <2>2, <2>3, AskParts DEF MemoryNext
<1>4. ASSUME NEW r \in Runs, AskRaises(r)
      PROVE  FilesNext /\ RagNext /\ MemoryNext /\ setting' = setting
  BY <1>4 DEF AskRaises, FilesNext, RagNext, MemoryNext, End, Start
<1>5. ASSUME NEW r \in Runs, Try(r)
      PROVE  FilesNext /\ RagNext /\ MemoryNext /\ setting' = setting
  <2>1. setting' = setting /\ memoryVars' = memoryVars /\ pc[r] = "try"
    BY <1>5 DEF Try
  <2>2. PICK call : /\ call.tool \in Tools /\ Tail(step[r].left) \in Seq(Tools)
                    /\ call.tool \in Editing =>
                         /\ Normalized(call) \in EditArgs(call.tool)
                         /\ Normalized(call) \in {"empty", "output"}
                    /\ Dispatch(r, call, Tail(step[r].left))
    BY <1>5, TryParts
  <2>3. call.tool \in ToolNames
    BY <2>2 DEF ToolNames
  <2>4. FilesNext /\ RagNext
    BY <2>1, <2>2, <2>3, DispatchParts
  <2> QED
    BY <2>1, <2>4 DEF MemoryNext
<1>6. ASSUME NEW r \in Runs, Edits(r)
      PROVE  FilesNext /\ RagNext /\ MemoryNext /\ setting' = setting
  BY <1>6 DEF Edits, FilesNext, RagNext, MemoryNext, stepVars
<1>7. ASSUME NEW r \in Runs, Fetches(r)
      PROVE  FilesNext /\ RagNext /\ MemoryNext /\ setting' = setting
  BY <1>7, WorkspaceAssumption DEF Fetches, FilesNext, RagNext, MemoryNext, stepVars
<1>8. ASSUME NEW r \in Runs, TakeResult(r)
      PROVE  FilesNext /\ RagNext /\ MemoryNext /\ setting' = setting
  <2>1. /\ Forget(r) /\ setting' = setting
        /\ edit[r].stage \in {"idle", "ok", "failed"} /\ fetch[r].stage \in {"idle", "ok", "failed"}
    BY <1>8 DEF TakeResult, Finished, Staged
  <2>2. ForgetsEdit(r) /\ ForgetsFetch(r) /\ r \in Fetchers
    BY <2>1, WorkspaceAssumption DEF Forget, ForgetsEdit, ForgetsFetch
  <2>3. MemoryNext
    BY <1>8 DEF TakeResult, MemoryNext
  <2> QED
    BY <2>1, <2>2, <2>3 DEF FilesNext, RagNext
<1>9. ASSUME NEW r \in Runs, TakeResultRaises(r)
      PROVE  FilesNext /\ RagNext /\ MemoryNext /\ setting' = setting
  <2>1. /\ Forget(r) /\ setting' = setting
        /\ edit[r].stage \in {"idle", "ok", "failed"} /\ fetch[r].stage \in {"idle", "ok", "failed"}
    BY <1>9 DEF TakeResultRaises, Finished, Staged
  <2>2. ForgetsEdit(r) /\ ForgetsFetch(r) /\ r \in Fetchers
    BY <2>1, WorkspaceAssumption DEF Forget, ForgetsEdit, ForgetsFetch
  <2>3. MemoryNext
    BY <1>9 DEF TakeResultRaises, MemoryNext
  <2> QED
    BY <2>1, <2>2, <2>3 DEF FilesNext, RagNext
<1>10. ASSUME NEW r \in Runs, Judge(r)
      PROVE  FilesNext /\ RagNext /\ MemoryNext /\ setting' = setting
  BY <1>10 DEF Judge, FilesNext, RagNext, MemoryNext, End, Start
<1>11. CASE LatePatch
  BY <1>11 DEF LatePatch, FilesNext, RagNext, MemoryNext, stepVars
<1>12. CASE OtherWorkspaces
  BY <1>12 DEF OtherWorkspaces, FilesNext, RagNext, MemoryNext, stepVars
<1>13. CASE Crash
  BY <1>13 DEF Crash, FilesNext, RagNext, MemoryNext
<1>14. CASE UNCHANGED vars
  BY <1>14 DEF vars, stepVars, FilesNext, RagNext, MemoryNext
<1> QED
  BY <1>1, <1>2, <1>3, <1>4, <1>5, <1>6, <1>7, <1>8, <1>9, <1>10, <1>11, <1>12, <1>13,
       <1>14 DEF Next, RunStep

\* A line that is torn is open, and an insight behind it is lost.
LEMMA MemoryKept ==
  ASSUME MemoryInv, MemoryNext
  PROVE  MemoryInv'
<1>1. CASE UNCHANGED memoryVars
  BY <1>1 DEF memoryVars, MemoryInv
<1>2. CASE Remember
  <2>1. CASE open
    <3>1. lost \in Nat /\ torn \in Nat /\ lost + 1 <= torn
      BY <2>1 DEF MemoryInv
    <3>2. open' = FALSE /\ lost' = lost + 1 /\ torn' = torn
      BY <1>2, <2>1 DEF Remember
    <3>3. (IF open' THEN 1 ELSE 0) = 0
      BY <3>2
    <3>4. lost' \in Nat /\ torn' \in Nat /\ lost' + (IF open' THEN 1 ELSE 0) <= torn'
      BY <3>1, <3>2, <3>3
    <3>5. open' \in BOOLEAN
      BY <3>2
    <3> QED
      BY <3>4, <3>5 DEF MemoryInv
  <2>2. CASE ~open
    <3>1. lost \in Nat /\ torn \in Nat /\ lost <= torn
      BY <2>2 DEF MemoryInv
    <3>2. open' = FALSE /\ lost' = lost /\ torn' = torn
      BY <1>2, <2>2 DEF Remember
    <3>3. (IF open' THEN 1 ELSE 0) = 0
      BY <3>2
    <3>4. lost' \in Nat /\ torn' \in Nat /\ lost' + (IF open' THEN 1 ELSE 0) <= torn'
      BY <3>1, <3>2, <3>3
    <3>5. open' \in BOOLEAN
      BY <3>2
    <3> QED
      BY <3>4, <3>5 DEF MemoryInv
  <2> QED
    BY <2>1, <2>2
<1>3. CASE TearInsight
  <2>1. lost \in Nat /\ torn \in Nat /\ lost <= torn
    <3>1. CASE open
      BY <3>1 DEF MemoryInv
    <3>2. CASE ~open
      BY <3>2 DEF MemoryInv
    <3> QED
      BY <3>1, <3>2
  <2> QED
    BY <1>3, <2>1 DEF TearInsight, MemoryInv
<1> QED
  BY <1>1, <1>2, <1>3 DEF MemoryNext

\* A step of an edit leaves the run editing, and the others alone.
LEMMA EditKeeps ==
  ASSUME EditTypes, EditStaged, NEW r \in Runs, EditStep(r)
  PROVE  /\ edit[r].stage # "idle" /\ edit'[r].stage # "idle"
         /\ \A q \in Runs : q # r => edit'[q] = edit[q]
<1>1. ASSUME NEW ok \in BOOLEAN, Report(r, ok),
             edit[r].stage \in {"begin", "write", "truncated", "apply", "applied"}
      PROVE  /\ edit'[r].stage # "idle" /\ \A q \in Runs : q # r => edit'[q] = edit[q]
  BY <1>1, Reported
<1>2. CASE \/ Refuse(r) \/ PutTextFails(r) \/ ApplyPatchFails(r) \/ MisreportPatch(r)
           \/ PatchTimesOut(r) \/ EditRaises(r)
  <2>1. edit[r].stage \in {"begin", "write", "truncated", "apply", "applied"} /\ Report(r, FALSE)
    BY <1>2 DEF Refuse, PutTextFails, ApplyPatchFails, MisreportPatch, PatchTimesOut, EditRaises
  <2> QED
    BY <1>1, <2>1
<1>3. CASE PutText(r) \/ ReportPatch(r)
  <2>1. edit[r].stage \in {"begin", "write", "truncated", "apply", "applied"} /\ Report(r, TRUE)
    BY <1>3 DEF PutText, ReportPatch
  <2> QED
    BY <1>1, <2>1
<1>4. CASE Look(r)
  BY <1>4, Looked
<1>5. CASE Truncate(r) \/ CheckPatch(r) \/ ApplyPatch(r) \/ RerunPatch(r)
  <2>1. edit \in [Runs -> EditRecords] /\ edit[r] \in EditRecords
    BY DEF EditTypes
  <2>2. \E stage \in {"truncated", "apply", "applied"} : edit' = [edit EXCEPT ![r].stage = stage]
    BY <1>5 DEF Truncate, CheckPatch, ApplyPatch, RerunPatch
  <2>3. edit[r].stage # "idle"
    BY <1>5 DEF Truncate, CheckPatch, ApplyPatch, RerunPatch
  <2> QED
    BY <2>1, <2>2, <2>3 DEF EditRecords
<1> QED
  BY <1>2, <1>3, <1>4, <1>5 DEF EditStep

\* A retrieval goes on to another stage, with the same engine or another one.
LEMMA Moved ==
  ASSUME RagTypes, NEW r \in Fetchers, NEW stage \in FetchStages,
         NEW eng \in {0} \cup EngineIds, NEW vectors \in Nat,
         fetch' = [fetch EXCEPT ![r] = [fetch[r] EXCEPT !.stage = stage, !.eng = eng, !.vectors = vectors]]
  PROVE  /\ fetch' \in [Fetchers -> FetchRecords]
         /\ fetch'[r].stage = stage /\ fetch'[r].eng = eng /\ fetch'[r].vectors = vectors
         /\ fetch'[r].force = fetch[r].force /\ fetch'[r].since = fetch[r].since
         /\ fetch'[r].taken = fetch[r].taken
         /\ \A q \in Fetchers : q # r => fetch'[q] = fetch[q]
<1>1. fetch[r] \in FetchRecords /\ fetch \in [Fetchers -> FetchRecords]
  BY DEF RagTypes
<1>2. fetch'[r] = [fetch[r] EXCEPT !.stage = stage, !.eng = eng, !.vectors = vectors]
  BY <1>1
<1>3. [fetch[r] EXCEPT !.stage = stage, !.eng = eng, !.vectors = vectors] \in FetchRecords
  BY <1>1 DEF FetchRecords
<1> QED
  BY <1>1, <1>2, <1>3 DEF FetchRecords

\* The same for its stage alone.
LEMMA StageMoved ==
  ASSUME RagTypes, NEW r \in Fetchers, NEW stage \in FetchStages, Move(r, stage)
  PROVE  /\ fetch' \in [Fetchers -> FetchRecords]
         /\ fetch'[r].stage = stage /\ fetch'[r].eng = fetch[r].eng
         /\ fetch'[r].vectors = fetch[r].vectors /\ fetch'[r].taken = fetch[r].taken
         /\ fetch'[r].force = fetch[r].force /\ fetch'[r].since = fetch[r].since
         /\ \A q \in Fetchers : q # r => fetch'[q] = fetch[q]
<1>1. fetch[r] \in FetchRecords /\ fetch \in [Fetchers -> FetchRecords]
  BY DEF RagTypes
<1> DEFINE eng == fetch[r].eng
           vectors == fetch[r].vectors
<1>2. [fetch[r] EXCEPT !.stage = stage]
        = [fetch[r] EXCEPT !.stage = stage, !.eng = eng, !.vectors = vectors]
  BY <1>1 DEF FetchRecords
<1>3. fetch' = [fetch EXCEPT ![r] = [fetch[r] EXCEPT !.stage = stage, !.eng = eng,
                                                     !.vectors = vectors]]
  BY <1>1, <1>2 DEF Move
<1>4. eng \in {0} \cup EngineIds /\ vectors \in Nat
  BY <1>1 DEF FetchRecords
<1>5. eng = fetch[r].eng /\ vectors = fetch[r].vectors
  OBVIOUS
<1> HIDE DEF eng, vectors
<1>6. /\ fetch' \in [Fetchers -> FetchRecords]
      /\ fetch'[r].stage = stage /\ fetch'[r].eng = eng /\ fetch'[r].vectors = vectors
      /\ fetch'[r].force = fetch[r].force /\ fetch'[r].since = fetch[r].since
      /\ fetch'[r].taken = fetch[r].taken
      /\ \A q \in Fetchers : q # r => fetch'[q] = fetch[q]
  BY <1>3, <1>4, Moved
<1> QED
  BY <1>5, <1>6

\* The same for its stage and what it has taken.
LEMMA Took ==
  ASSUME RagTypes, NEW r \in Fetchers, NEW stage \in FetchStages, NEW taken \in Nat,
         fetch' = [fetch EXCEPT ![r].stage = stage, ![r].taken = taken]
  PROVE  /\ fetch' \in [Fetchers -> FetchRecords]
         /\ fetch'[r].stage = stage /\ fetch'[r].taken = taken /\ fetch'[r].eng = fetch[r].eng
         /\ fetch'[r].vectors = fetch[r].vectors
         /\ fetch'[r].force = fetch[r].force /\ fetch'[r].since = fetch[r].since
         /\ \A q \in Fetchers : q # r => fetch'[q] = fetch[q]
<1> DEFINE new == [fetch[r] EXCEPT !.stage = stage, !.taken = taken]
<1>1. fetch[r] \in FetchRecords /\ fetch \in [Fetchers -> FetchRecords]
  BY DEF RagTypes
<1>2. /\ new \in FetchRecords /\ new.stage = stage /\ new.taken = taken
      /\ new.eng = fetch[r].eng /\ new.vectors = fetch[r].vectors
      /\ new.force = fetch[r].force /\ new.since = fetch[r].since
  BY <1>1 DEF FetchRecords
<1>3. fetch' = [fetch EXCEPT ![r] = new]
  BY <1>1
<1> HIDE DEF new
<1> QED
  BY <1>1, <1>2, <1>3

\* A call that returns lets go of its engine.
LEMMA Returned ==
  ASSUME RagTypes, NEW r \in Fetchers, NEW stage \in FetchStages, Finish(r, stage)
  PROVE  /\ fetch' \in [Fetchers -> FetchRecords]
         /\ fetch'[r].stage = stage /\ fetch'[r].eng = 0 /\ fetch'[r].vectors = 0
         /\ fetch'[r].force = FALSE /\ fetch'[r].since = 0
         /\ \A q \in Fetchers : q # r => fetch'[q] = fetch[q]
<1>1. /\ NoFetch \in FetchRecords
      /\ NoFetch.eng = 0 /\ NoFetch.vectors = 0 /\ NoFetch.since = 0 /\ NoFetch.force = FALSE
  BY DEF NoFetch, FetchRecords, FetchStages
<1> DEFINE new == [NoFetch EXCEPT !.stage = stage]
<1>2. /\ new \in FetchRecords /\ new.stage = stage /\ new.force = FALSE /\ new.since = 0
      /\ new.eng = 0 /\ new.vectors = 0
  BY <1>1 DEF FetchRecords
<1> HIDE DEF new
<1>3. fetch' = [fetch EXCEPT ![r] = new]
  BY DEF new, Finish
<1> QED
  BY <1>2, <1>3 DEF RagTypes

\* A thread that constructs an engine finds a number for it that no other one has.
LEMMA SpareEngine ==
  ASSUME RagTypes
  PROVE  \E e \in EngineIds : \A q \in Fetchers : fetch[q].eng # e
<1> SUFFICES ASSUME \A e \in EngineIds : \E q \in Fetchers : fetch[q].eng = e
             PROVE  FALSE
  OBVIOUS
<1> DEFINE N == Cardinality(Fetchers)
           user == [e \in EngineIds |-> CHOOSE q \in Fetchers : fetch[q].eng = e]
<1>1. IsFiniteSet(Fetchers) /\ N \in Nat
  BY WorkspaceAssumption, FS_CardinalityType
<1>2. EngineIds = 1..(N + 1)
  BY DEF EngineIds
<1> HIDE DEF N
<1>3. IsFiniteSet(1..(N + 1)) /\ Cardinality(1..(N + 1)) = N + 1
  BY <1>1, FS_Interval
<1>4. IsFiniteSet(EngineIds) /\ N < Cardinality(EngineIds)
  BY <1>1, <1>2, <1>3
<1>5. user \in [EngineIds -> Fetchers] /\ \A e \in EngineIds : fetch[user[e]].eng = e
  OBVIOUS
<1> HIDE DEF user
<1>6. PICK a, b \in EngineIds : a # b /\ user[a] = user[b]
  BY <1>1, <1>4, <1>5, FS_PigeonHole DEF N
<1> QED
  BY <1>5, <1>6

\* The numbers of the engines do not begin with 0.
LEMMA EngineNumbers == 0 \notin EngineIds
BY DEF EngineIds

\* The engine constructed is new and nobody else's.
LEMMA Constructed ==
  ASSUME RagTypes, NEW r \in Fetchers, Construct(r)
  PROVE  \E new \in EngineIds :
           /\ \A q \in Fetchers : fetch[q].eng # new
           /\ engines' = [engines EXCEPT ![new] = NewEngine]
           /\ LET load == disk.index # 0 /\ disk.chunks # 0
                  stage == IF load THEN "load" ELSE "collect"
              IN  /\ fetch' = [fetch EXCEPT ![r] = [fetch[r] EXCEPT !.stage = stage, !.eng = new,
                                                                   !.vectors = fetch[r].vectors]]
                  /\ mixed' = (mixed \/ OthersIn(r, IF load THEN Building ELSE Building \cup Reading))
<1> DEFINE new == CHOOSE e \in EngineIds : \A q \in Fetchers : fetch[q].eng # e
           load == disk.index # 0 /\ disk.chunks # 0
           stage == IF load THEN "load" ELSE "collect"
<1>1. new \in EngineIds /\ \A q \in Fetchers : fetch[q].eng # new
  BY SpareEngine
<1>2. /\ engines' = [engines EXCEPT ![new] = NewEngine]
      /\ fetch' = [fetch EXCEPT ![r].eng = new, ![r].stage = stage]
      /\ mixed' = (mixed \/ OthersIn(r, IF load THEN Building ELSE Building \cup Reading))
  BY DEF Construct
<1> HIDE DEF new, stage
<1>3. fetch[r] \in FetchRecords /\ fetch \in [Fetchers -> FetchRecords]
  BY DEF RagTypes
<1>4. fetch' = [fetch EXCEPT ![r] = [fetch[r] EXCEPT !.eng = new, !.stage = stage]]
  BY <1>2, <1>3
<1>5. [fetch[r] EXCEPT !.eng = new, !.stage = stage]
        = [fetch[r] EXCEPT !.stage = stage, !.eng = new, !.vectors = fetch[r].vectors]
  BY <1>3 DEF FetchRecords
<1> QED
  BY <1>1, <1>2, <1>4, <1>5 DEF stage

\* A step of a retrieval leaves the others alone, too.
LEMMA FetchKeeps ==
  ASSUME RagTypes, NEW r \in Fetchers, FetchStep(r)
  PROVE  /\ fetch[r].stage # "idle" /\ fetch'[r].stage # "idle"
         /\ \A q \in Fetchers : q # r => fetch'[q] = fetch[q]
<1>1. fetch[r] \in FetchRecords
  BY DEF RagTypes
<1>3. CASE \/ UseCached(r) \/ Load(r) \/ OpenIndex(r) \/ WriteIndex(r) \/ OpenChunks(r)
           \/ WriteChunks(r) \/ AdoptChunks(r)
  <2>1. /\ fetch[r].stage # "idle"
        /\ \E stage \in {"return", "adopt", "writeIndex", "saveChunks", "writeChunks", "search"} :
             Move(r, stage)
    BY <1>3 DEF UseCached, Load, OpenIndex, WriteIndex, OpenChunks, WriteChunks, AdoptChunks,
       AfterAdopt, At
  <2>2. PICK stage \in {"return", "adopt", "writeIndex", "saveChunks", "writeChunks", "search"} :
          Move(r, stage)
    BY <2>1
  <2>3. stage \in FetchStages /\ stage # "idle"
    BY DEF FetchStages, Building, Saving
  <2> QED
    BY <2>1, <2>2, <2>3, StageMoved
<1>4. CASE \/ LoadFails(r) \/ BuildFails(r) \/ SaveFails(r) \/ SearchFails(r) \/ Resolve(r)
  <2>1. fetch[r].stage # "idle" /\ \E stage \in {"ok", "failed"} : Finish(r, stage)
    BY <1>4 DEF LoadFails, BuildFails, SaveFails, SearchFails, Resolve, At, Saving
  <2>2. PICK stage \in {"ok", "failed"} : Finish(r, stage)
    BY <2>1
  <2>3. stage \in FetchStages /\ stage # "idle"
    BY DEF FetchStages
  <2> QED
    BY <2>1, <2>2, <2>3, Returned
<1>5. CASE Construct(r)
  <2>1. fetch[r].stage # "idle"
    BY <1>5 DEF Construct, At
  <2>2. PICK new \in EngineIds, stage \in {"load", "collect"} :
          fetch' = [fetch EXCEPT ![r] = [fetch[r] EXCEPT !.stage = stage, !.eng = new,
                                                         !.vectors = fetch[r].vectors]]
    BY <1>5, Constructed
  <2>3. fetch[r].vectors \in Nat
    BY <1>1 DEF FetchRecords
  <2>4. stage \in FetchStages /\ stage # "idle"
    BY DEF FetchStages, Reading, Building
  <2>5. fetch'[r].stage = stage /\ \A q \in Fetchers : q # r => fetch'[q] = fetch[q]
    BY <2>2, <2>3, <2>4, Moved
  <2> QED
    BY <2>1, <2>4, <2>5
<1>6. CASE Collect(r)
  BY <1>1, <1>6 DEF Collect, At, RagTypes, FetchRecords
<1>7. CASE Return(r)
  <2>1. fetch[r].stage # "idle"
    BY <1>7 DEF Return, At
  <2>2. CASE cached = 0
    <3>1. Finish(r, "failed") /\ "failed" \in FetchStages
      BY <1>7, <2>2 DEF Return, FetchStages
    <3> QED
      BY <2>1, <3>1, Returned
  <2>3. CASE cached # 0
    BY <1>1, <1>7, <2>1, <2>3 DEF Return, RagTypes, FetchRecords
  <2> QED
    BY <2>2, <2>3
<1>8. CASE AdoptIndex(r) \/ SearchIndex(r)
  BY <1>1, <1>8 DEF AdoptIndex, SearchIndex, At, RagTypes, FetchRecords
<1> QED
  BY <1>3, <1>4, <1>5, <1>6, <1>7, <1>8 DEF FetchStep

-----------------------------------------------------------------------------
(* The control of the runs *)

\* A call leaves the run in a place that fits what it has begun.
LEMMA DispatchStaged ==
  ASSUME RunTypes, Staged, RagTypes, EditTypes, NEW r \in Runs, pc[r] \in {"ask", "try"},
         NEW call, call.tool \in ToolNames, NEW rest \in Seq(Tools), Dispatch(r, call, rest),
         setting' = setting, started' = started, crashes' = crashes
  PROVE  RunTypes' /\ Staged'
<1>1. /\ edit[r].stage = "idle" /\ fetch[r].stage = "idle" /\ started > 0
      /\ r \in setting.clients => step[r].rounds < setting.rounds[r]
      /\ step[r].rounds \in Nat /\ setting.rounds[r] \in Nat
  <2>1. setting.rounds[r] \in 1..4
    BY WorkspaceAssumption DEF RunTypes
  <2>2. step[r].rounds \in Nat
    BY DEF RunTypes, StepRecords
  <2> QED
    BY <2>1, <2>2 DEF Staged
<1>2. ASSUME NEW next \in {"returned", "edit", "fetch"}, Moves(r, next),
             next = "edit" <=> edit'[r].stage # "idle", next = "fetch" <=> fetch'[r].stage # "idle",
             \A q \in Runs : q # r => edit'[q] = edit[q] /\ fetch'[q] = fetch[q]
      PROVE  RunTypes' /\ Staged'
  <2>1. RunTypes'
    BY <1>2 DEF RunTypes, Moves, Control
  <2>2. /\ pc'[r] = next /\ \A q \in Runs : q # r => pc'[q] = pc[q] /\ step'[q] = step[q]
        /\ r \in setting.clients => step'[r].rounds <= setting.rounds[r]
    BY <1>1, <1>2 DEF RunTypes, Moves
  <2>3. Staged'
    BY <1>2, <2>2 DEF Staged
  <2> QED
    BY <2>1, <2>3
<1>3. CASE End(r, "failed") /\ UNCHANGED <<fileVars, ragVars>>
  <2>1. NoStep \in StepRecords
    BY DEF NoStep, NewStep, StepRecords, ToolNames
  <2>2. RunTypes'
    BY <1>3, <2>1 DEF End, Goto, RunTypes, Control
  <2>3. Staged'
    BY <1>1, <1>3 DEF End, Goto, RunTypes, Staged, fileVars, ragVars
  <2> QED
    BY <2>2, <2>3
<1>4. CASE Moves(r, "returned") /\ UNCHANGED <<fileVars, ragVars>>
  BY <1>1, <1>2, <1>4 DEF fileVars, ragVars
<1>5. CASE Moves(r, "edit") /\ UNCHANGED ragVars /\ StartEdit(r, call.tool, Normalized(call), MarkOf(r))
  <2>1. edit'[r].stage = "begin" /\ \A q \in Runs : q # r => edit'[q] = edit[q]
    BY <1>5 DEF StartEdit, EditTypes
  <2> QED
    BY <1>1, <1>2, <1>5, <2>1 DEF ragVars
<1>6. CASE Moves(r, "fetch") /\ UNCHANGED fileVars /\ (StartFetch(r, TRUE) \/ StartFetch(r, FALSE))
  <2>1. PICK force \in BOOLEAN : StartFetch(r, force)
    BY <1>6
  <2>2. /\ r \in Fetchers /\ "lookup" \in FetchStages
        /\ (IF force THEN builds ELSE 0) \in Nat
    BY WorkspaceAssumption DEF FetchStages, RagTypes
  <2>3. fetch'[r].stage = "lookup" /\ \A q \in Runs : q # r => fetch'[q] = fetch[q]
    BY <2>1, <2>2, WorkspaceAssumption DEF StartFetch, RagTypes
  <2> QED
    BY <1>1, <1>2, <1>6, <2>3 DEF fileVars
<1> QED
  BY <1>3, <1>4, <1>5, <1>6, Dispatched

\* Every step of a run, and every crash, leaves the runs where they may be.
LEMMA NextControl ==
  ASSUME RunTypes, Staged, RagTypes, EditTypes, EditStaged, [Next]_vars
  PROVE  RunTypes' /\ Staged'
<1> USE DEF memoryVars
<1>1. ASSUME NEW r \in Runs, StartWithModel(r)
      PROVE  RunTypes' /\ Staged'
  <2>1. NoStep \in StepRecords /\ NoStep.rounds = 0
    BY DEF NoStep, NewStep, StepRecords, ToolNames
  <2>2. started' \in 0..MaxSteps /\ started' > 0
    BY <1>1, WorkspaceAssumption DEF StartWithModel, Start, RunTypes
  <2>3. RunTypes'
    BY <1>1, <2>1, <2>2 DEF StartWithModel, Start, Goto, RunTypes, Control
  <2>4. setting.rounds[r] \in 1..4
    BY WorkspaceAssumption DEF RunTypes
  <2>5. Staged'
    BY <1>1, <2>1, <2>2, <2>4 DEF StartWithModel, Start, Goto, RunTypes, Staged, fileVars, ragVars
  <2> QED
    BY <2>3, <2>5
<1>2. ASSUME NEW r \in Runs, StartFallback(r)
      PROVE  RunTypes' /\ Staged'
  <2>1. PICK tools \in Suggestions : step' = [step EXCEPT ![r] = NewStep(tools)]
    BY <1>2 DEF StartFallback
  <2>2. NewStep(tools) \in StepRecords /\ NewStep(tools).left # <<>>
    BY SuggestionsTyped DEF NewStep, StepRecords, ToolNames
  <2>3. started' \in 0..MaxSteps /\ started' > 0
    BY <1>2, WorkspaceAssumption DEF StartFallback, Start, RunTypes
  <2>4. RunTypes'
    BY <1>2, <2>1, <2>2, <2>3 DEF StartFallback, Start, Goto, RunTypes, Control
  <2>5. Staged'
    BY <1>2, <2>1, <2>2, <2>3 DEF StartFallback, Start, Goto, RunTypes, Staged, fileVars, ragVars
  <2> QED
    BY <2>4, <2>5
<1>3. ASSUME NEW r \in Runs, Ask(r)
      PROVE  RunTypes' /\ Staged'
  <2>1. pc[r] = "ask" /\ setting' = setting /\ started' = started /\ crashes' = crashes
    BY <1>3 DEF Ask
  <2>2. CASE Goto(r, "judge") /\ UNCHANGED <<step, fileVars, ragVars>>
    BY <2>1, <2>2 DEF Goto, RunTypes, Staged, Control, fileVars, ragVars
  <2>3. ASSUME NEW call \in Calls, call.tool \in ToolNames, <<>> \in Seq(Tools), Dispatch(r, call, <<>>)
        PROVE  RunTypes' /\ Staged'
    BY <2>1, <2>3, DispatchStaged
  <2> QED
    BY <1>3, <2>2, <2>3, AskParts
<1>4. ASSUME NEW r \in Runs, AskRaises(r)
      PROVE  RunTypes' /\ Staged'
  <2>1. NoStep \in StepRecords
    BY DEF NoStep, NewStep, StepRecords, ToolNames
  <2>2. RunTypes'
    BY <1>4, <2>1 DEF AskRaises, End, Goto, RunTypes, Control
  <2>3. Staged'
    BY <1>4 DEF AskRaises, End, Goto, RunTypes, Staged, fileVars, ragVars
  <2> QED
    BY <2>2, <2>3
<1>5. ASSUME NEW r \in Runs, Try(r)
      PROVE  RunTypes' /\ Staged'
  <2>1. pc[r] = "try" /\ setting' = setting /\ started' = started /\ crashes' = crashes
    BY <1>5 DEF Try
  <2>2. PICK call : /\ call.tool \in Tools /\ Tail(step[r].left) \in Seq(Tools)
                    /\ Dispatch(r, call, Tail(step[r].left))
    BY <1>5, TryParts
  <2>3. call.tool \in ToolNames
    BY <2>2 DEF ToolNames
  <2> QED
    BY <2>1, <2>2, <2>3, DispatchStaged
<1>6. ASSUME NEW r \in Runs, Edits(r)
      PROVE  RunTypes' /\ Staged'
  <2>1. /\ edit[r].stage # "idle" /\ edit'[r].stage # "idle"
        /\ \A q \in Runs : q # r => edit'[q] = edit[q]
    BY <1>6, EditKeeps DEF Edits
  <2> QED
    BY <1>6, <2>1 DEF Edits, stepVars, ragVars, RunTypes, Staged
<1>7. ASSUME NEW r \in Runs, Fetches(r)
      PROVE  RunTypes' /\ Staged'
  <2>1. /\ fetch[r].stage # "idle" /\ fetch'[r].stage # "idle"
        /\ \A q \in Runs : q # r => fetch'[q] = fetch[q]
    BY <1>7, FetchKeeps, WorkspaceAssumption DEF Fetches
  <2> QED
    BY <1>7, <2>1 DEF Fetches, stepVars, fileVars, RunTypes, Staged
<1>8. ASSUME NEW r \in Runs, TakeResult(r)
      PROVE  RunTypes' /\ Staged'
  <2>1. /\ edit'[r].stage = "idle" /\ fetch'[r].stage = "idle"
        /\ \A q \in Runs : q # r => edit'[q] = edit[q] /\ fetch'[q] = fetch[q]
    BY <1>8, WorkspaceAssumption DEF TakeResult, Forget, NoEdit, NoFetch, EditTypes, RagTypes
  <2> DEFINE ok == Succeeded(r)
             grounded == step[r].grounded \/ step[r].tool \in Grounding
             taken == [step[r] EXCEPT !.results = step[r].results \cup {ok}, !.grounded = grounded,
                                      !.tool = "none", !.ok = FALSE]
             next == IF Over(r, ok, grounded) THEN "judge"
                     ELSE IF r \in setting.clients THEN "ask" ELSE "try"
  <2>2. step[r] \in StepRecords /\ step \in [Runs -> StepRecords]
    BY DEF RunTypes
  <2>3. ok \in BOOLEAN
    BY <2>2 DEF Succeeded, StepRecords
  <2>4. grounded \in BOOLEAN
    BY <2>2 DEF StepRecords
  <2>5. /\ step' = [step EXCEPT ![r] = taken] /\ Goto(r, next)
        /\ setting' = setting /\ started' = started /\ crashes' = crashes
        /\ pc[r] \in {"returned", "edit", "fetch"}
    BY <1>8, <2>2 DEF TakeResult, Finished
  <2>6. /\ r \in setting.clients => next = "judge" \/ (next = "ask" /\ step[r].rounds # setting.rounds[r])
        /\ r \notin setting.clients => next = "judge" \/ (next = "try" /\ step[r].left # <<>>)
    BY DEF Over
  <2> HIDE DEF ok, grounded, next
  <2>7. taken \in StepRecords /\ taken.rounds = step[r].rounds /\ taken.left = step[r].left
    BY <2>2, <2>3, <2>4 DEF StepRecords, ToolNames
  <2> HIDE DEF taken
  <2>8. /\ step' \in [Runs -> StepRecords] /\ step'[r].rounds = step[r].rounds
        /\ step'[r].left = step[r].left /\ \A q \in Runs : q # r => step'[q] = step[q]
    BY <2>2, <2>5, <2>7
  <2>9. /\ pc' \in [Runs -> Control] /\ pc'[r] = next /\ \A q \in Runs : q # r => pc'[q] = pc[q]
    BY <2>5, <2>6 DEF Goto, RunTypes, Control
  <2>10. setting.rounds[r] \in 1..4
    BY WorkspaceAssumption DEF RunTypes
  <2>11. RunTypes'
    BY <2>5, <2>8, <2>9 DEF RunTypes
  <2>12. /\ started > 0 /\ step[r].rounds \in Nat
         /\ r \in setting.clients => step[r].rounds <= setting.rounds[r]
    BY <2>2, <2>5 DEF Staged, StepRecords
  <2>13. Staged'
    BY <2>1, <2>5, <2>6, <2>8, <2>9, <2>10, <2>12 DEF Staged
  <2> QED
    BY <2>11, <2>13
<1>9. ASSUME NEW r \in Runs, TakeResultRaises(r)
      PROVE  RunTypes' /\ Staged'
  <2>1. NoStep \in StepRecords
    BY DEF NoStep, NewStep, StepRecords, ToolNames
  <2>2. /\ edit'[r].stage = "idle" /\ fetch'[r].stage = "idle"
        /\ \A q \in Runs : q # r => edit'[q] = edit[q] /\ fetch'[q] = fetch[q]
    BY <1>9, WorkspaceAssumption DEF TakeResultRaises, Forget, NoEdit, NoFetch, EditTypes, RagTypes
  <2>3. RunTypes'
    BY <1>9, <2>1 DEF TakeResultRaises, End, Goto, RunTypes, Control
  <2>4. Staged'
    BY <1>9, <2>2 DEF TakeResultRaises, End, Goto, RunTypes, Staged
  <2> QED
    BY <2>3, <2>4
<1>10. ASSUME NEW r \in Runs, Judge(r)
      PROVE  RunTypes' /\ Staged'
  <2>1. NoStep \in StepRecords
    BY DEF NoStep, NewStep, StepRecords, ToolNames
  <2>2. RunTypes'
    BY <1>10, <2>1 DEF Judge, End, Goto, RunTypes, Control
  <2>3. Staged'
    BY <1>10 DEF Judge, End, Goto, RunTypes, Staged, fileVars, ragVars
  <2> QED
    BY <2>2, <2>3
<1>11. CASE LatePatch
  <2>1. edit' = edit /\ UNCHANGED <<stepVars, ragVars>>
    BY <1>11 DEF LatePatch, LandLate
  <2> QED
    BY <2>1 DEF stepVars, ragVars, RunTypes, Staged
<1>12. CASE OtherWorkspaces
  <2>1. fetch' = fetch /\ UNCHANGED <<stepVars, fileVars>>
    BY <1>12 DEF OtherWorkspaces, EvictEngine
  <2> QED
    BY <2>1 DEF stepVars, fileVars, RunTypes, Staged
<1>13. CASE Crash
  <2>1. NoStep \in StepRecords
    BY DEF NoStep, NewStep, StepRecords, ToolNames
  <2>2. crashes' \in 0..MaxCrashes
    BY <1>13, WorkspaceAssumption DEF Crash, RunTypes
  <2>3. RunTypes'
    BY <1>13, <2>1, <2>2 DEF Crash, RunTypes, Control
  <2>4. Staged'
    BY <1>13, WorkspaceAssumption DEF Crash, AbandonEdits, LoseEngines, NoEdit, NoFetch, Staged
  <2> QED
    BY <2>3, <2>4
<1>14. CASE UNCHANGED vars
  BY <1>14 DEF vars, stepVars, fileVars, ragVars, RunTypes, Staged
<1> QED
  BY <1>1, <1>2, <1>3, <1>4, <1>5, <1>6, <1>7, <1>8, <1>9, <1>10, <1>11, <1>12, <1>13,
       <1>14 DEF Next, RunStep

-----------------------------------------------------------------------------
(* The index *)

\* The engines in use stay as they are.
SameEngines ==
  /\ engines' \in [EngineIds -> EngineRecords]
  /\ cached' # 0 => engines'[cached'] = engines[cached']
  /\ \A q \in Fetchers : fetch'[q].eng # 0 => engines'[fetch'[q].eng] = engines[fetch'[q].eng]
  /\ \A e \in EngineIds : engines'[e] = engines[e] \/ engines'[e] = NewEngine

\* Only an engine that nobody uses is given up.
LEMMA KeptEngines ==
  ASSUME RagTypes, fetch' \in [Fetchers -> FetchRecords], cached' \in {0} \cup EngineIds, Kept
  PROVE  SameEngines
<1>1. NewEngine \in EngineRecords
  BY DEF NewEngine, EngineRecords
<1>2. engines' = [e \in EngineIds |->
        IF e = cached' \/ \E q \in Fetchers : fetch'[q].eng = e THEN engines[e] ELSE NewEngine]
  BY DEF Kept
<1>3. \A q \in Fetchers : fetch'[q].eng \in {0} \cup EngineIds
  BY DEF FetchRecords
<1> QED
  BY <1>1, <1>2, <1>3 DEF SameEngines, RagTypes

\* Nor is one when the engines do not change at all.
LEMMA UnchangedEngines ==
  ASSUME RagTypes, engines' = engines
  PROVE  SameEngines
BY DEF SameEngines, RagTypes

\* How the stages of a call are related.
LEMMA Stages ==
  /\ Collected \subseteq Building /\ Saving \subseteq Collected
  /\ {"saveIndex", "adopt", "adoptChunks"} \cap Saving = {}
  /\ {"saveIndex", "adopt", "adoptChunks"} \subseteq Collected
  /\ {"writeIndex", "saveChunks", "writeChunks"} = Saving
  /\ Reading = {"load"} /\ Searching = {"search", "resolve"}
  /\ Building = Collected \cup {"collect"} /\ "collect" \notin Collected
  /\ (Reading \cup Searching \cup {"idle", "lookup", "return", "ok", "failed"}) \cap Building = {}
  /\ Searching \cap Reading = {}
  /\ {"idle", "lookup", "return", "ok", "failed"} \cap (Reading \cup Searching) = {}
  /\ Reading \cup Building \cup Searching \cup {"idle", "lookup", "return", "ok", "failed"}
       = FetchStages
BY DEF Collected, Saving, Building, Reading, Searching, FetchStages

\* A call that begins, looks into the cache or ends, and has no engine then, spoils nothing for the others.
LEMMA Disengaged ==
  ASSUME RagInv, NEW r \in Fetchers, fetch' \in [Fetchers -> FetchRecords],
         fetch'[r].stage \in {"idle", "lookup", "return", "ok", "failed"},
         fetch'[r].eng = 0, fetch'[r].vectors = 0, fetch'[r].since <= builds,
         fetch'[r].force => \/ cached' = 0
                            \/ /\ fetch[r].force /\ fetch'[r].since = fetch[r].since
                               /\ fetch[r].stage = "lookup",
         \A q \in Fetchers : q # r => fetch'[q] = fetch[q],
         cached' \in {0, cached}, disk' = disk, builds' = builds, SameEngines,
         crossed' \in {crossed, crossed \ {r}}, fetch[r].stage # "adoptChunks",
         mixed' \in BOOLEAN, ~mixed' => ~mixed /\ fetch[r].stage \notin Saving
  PROVE  RagInv'
<1> USE DEF RagInv
<1>1. RagTypes'
  BY DEF RagTypes, SameEngines
<1>2. NewEngine.ixChunks = 0 /\ NewEngine.index = NewEngine.chunks
  BY DEF NewEngine
<1>3. Counted'
  BY <1>2 DEF Counted, RagTypes, SameEngines
<1>4. \A q \in Fetchers : q # r /\ fetch[q].stage \in Reading \cup Building \cup Searching =>
        fetch[q].eng # 0 /\ Mine(q)' = Mine(q) /\ engines'[fetch[q].eng] = engines[fetch[q].eng]
  BY DEF EngineUse, Uses, Mine, SameEngines
<1>5. cached' # 0 => cached' = cached /\ engines'[cached'] = engines[cached]
  BY DEF SameEngines
<1>6. fetch'[r].stage \notin Reading \cup Building \cup Searching
  BY Stages
<1>7. EngineUse'
  <2>1. cached' # 0 => engines'[cached'].chunks # 0
    BY <1>5 DEF EngineUse
  <2>2. Own(r)' /\ Uses(r)'
    BY <1>6, Stages DEF Own, Uses
  <2>3. ASSUME NEW q \in Fetchers, q # r
        PROVE  Own(q)' /\ Uses(q)'
    <3>1. Own(q) /\ Uses(q) /\ fetch'[q] = fetch[q]
      BY <2>3 DEF EngineUse
    <3>2. Own(q)'
      BY <1>4, <1>5, <2>3, <3>1 DEF Own, Uses
    <3>3. Uses(q)'
      BY <1>4, <2>3, <3>1, Stages DEF Uses
    <3> QED
      BY <3>2, <3>3
  <2> QED
    BY <2>1, <2>2, <2>3 DEF EngineUse
<1>8. Fresh'
  <2> SUFFICES ASSUME NEW s \in Fetchers, fetch'[s].force
               PROVE  FreshFor(s)'
    BY DEF Fresh
  <2>1. ASSUME Target(s)' \in {0, Target(s)}, FreshFor(s), fetch'[s].since = fetch[s].since,
               NEW q \in Fetchers,
               Target(s)' # 0, fetch'[q].eng = Target(s)', fetch'[q].stage \in Collected
        PROVE  /\ fetch'[q].vectors > fetch'[s].since
               /\ engines'[Target(s)'].ixChunks > fetch'[s].since
               /\ fetch'[q].stage = "adoptChunks" => fetch'[q].taken > fetch'[s].since
    <3>1. q # r /\ fetch'[q] = fetch[q] /\ Target(s)' = Target(s)
      BY <1>6, <2>1, Stages
    <3>2. engines'[Target(s)] = engines[Target(s)]
      BY <1>4, <2>1, <3>1, Stages
    <3> QED
      BY <2>1, <3>1, <3>2 DEF FreshFor
  <2>2. CASE s = r /\ cached' = 0
    BY <1>6, <2>2, Stages DEF FreshFor, Target, Rebuilds
  <2>3. CASE s = r /\ cached' # 0
    <3>1. FreshFor(r) /\ fetch'[r].since = fetch[r].since /\ fetch[r].stage = "lookup"
      BY <2>3 DEF Fresh
    <3>2. ~Rebuilds(r) /\ Target(r) = cached
      BY <3>1, Stages DEF Rebuilds, Target
    <3>3. ~Rebuilds(r)' /\ Target(r)' = cached
      BY <1>5, <1>6, <2>3 DEF Rebuilds, Target
    <3> QED
      BY <1>6, <2>1, <2>3, <3>1, <3>2, <3>3, Stages DEF FreshFor
  <2>4. CASE s # r
    <3>1. FreshFor(s) /\ fetch'[s] = fetch[s]
      BY <2>4 DEF Fresh
    <3>2. fetch[s].stage \in Building \cup Searching => Mine(s)' = Mine(s)
      BY <1>4, <2>4
    <3>3. (Rebuilds(s)' <=> Rebuilds(s)) /\ Target(s)' \in {0, Target(s)}
      BY <1>5, <3>1, <3>2 DEF Rebuilds, Target
    <3> QED
      BY <2>1, <3>1, <3>2, <3>3, Stages DEF FreshFor, Rebuilds
  <2> QED
    BY <2>2, <2>3, <2>4
<1>9. Paired'
  <2> SUFFICES ASSUME ~mixed'
               PROVE  /\ Alone' /\ \A q \in Fetchers : Matched(q)' /\ Straight(q)'
                      /\ DiskPaired' /\ EnginesPaired'
    BY DEF Paired
  <2>1. /\ Alone /\ \A q \in Fetchers : Matched(q) /\ Straight(q)
        /\ DiskPaired /\ EnginesPaired
    BY DEF Paired
  <2>2. Alone'
    BY <1>6, <2>1 DEF Alone, Builder
  <2>3. ASSUME NEW q \in Fetchers
        PROVE  Matched(q)' /\ Straight(q)'
    <3>1. CASE q = r
      BY <1>6, <3>1, Stages DEF Matched, Straight
    <3>2. CASE q # r
      <4>1. fetch'[q] = fetch[q] /\ Matched(q) /\ Straight(q) /\ (q \notin crossed' => q \notin crossed)
        BY <2>1, <3>2
      <4>2. CASE fetch[q].stage \in Building \cup Searching
        <5>1. Mine(q)' = Mine(q)
          BY <1>4, <3>2, <4>2
        <5> QED
          BY <4>1, <5>1 DEF Matched, Straight
      <4>3. CASE fetch[q].stage \notin Building \cup Searching
        BY <4>1, <4>3, Stages DEF Matched, Straight
      <4> QED
        BY <4>2, <4>3
    <3> QED
      BY <3>1, <3>2
  <2>4. DiskPaired'
    BY <1>6, <2>1, Stages DEF DiskPaired
  <2>5. EnginesPaired'
    BY <1>2, <2>1 DEF EnginesPaired, SameEngines
  <2> QED
    BY <2>2, <2>3, <2>4, <2>5
<1> QED
  BY <1>1, <1>3, <1>7, <1>8, <1>9

\* A call that begins has no engine yet, and what is forced is not in the cache any more.
LEMMA StartsFetchKeeps ==
  ASSUME RagInv, NEW r \in Fetchers, NEW force \in BOOLEAN, StartsFetch(r, force)
  PROVE  RagInv'
<1> DEFINE since == IF force THEN builds ELSE 0
<1>1. since \in Nat /\ since <= builds /\ RagTypes
  BY DEF RagInv, RagTypes
<1>2. fetch' = [fetch EXCEPT ![r] = [NoFetch EXCEPT !.stage = "lookup", !.force = force, !.since = since]]
  BY DEF StartsFetch, StartFetch
<1>3. /\ cached' \in {0, cached} /\ (force => cached' = 0) /\ Kept
      /\ UNCHANGED <<disk, builds, mixed, crossed>> /\ fetch[r].stage = "idle"
  BY DEF StartsFetch, StartFetch
<1>4. "lookup" \in FetchStages
  BY DEF FetchStages
<1> HIDE DEF since
<1>5. /\ fetch' \in [Fetchers -> FetchRecords]
      /\ fetch'[r].stage = "lookup" /\ fetch'[r].eng = 0 /\ fetch'[r].vectors = 0
      /\ fetch'[r].force = force /\ fetch'[r].since = since
      /\ \A q \in Fetchers : q # r => fetch'[q] = fetch[q]
  <2>1. /\ NoFetch \in FetchRecords /\ NoFetch.eng = 0 /\ NoFetch.vectors = 0
    BY DEF NoFetch, FetchRecords, FetchStages
  <2> DEFINE new == [NoFetch EXCEPT !.stage = "lookup", !.force = force, !.since = since]
  <2>2. /\ new \in FetchRecords /\ new.stage = "lookup" /\ new.force = force /\ new.since = since
        /\ new.eng = 0 /\ new.vectors = 0
    BY <1>1, <1>4, <2>1 DEF FetchRecords
  <2> HIDE DEF new
  <2>3. fetch' = [fetch EXCEPT ![r] = new]
    BY <1>2 DEF new
  <2> QED
    BY <1>1, <2>2, <2>3 DEF RagTypes
<1>6. cached' \in {0} \cup EngineIds
  BY <1>1, <1>3 DEF RagTypes
<1>7. SameEngines
  BY <1>1, <1>3, <1>5, <1>6, KeptEngines
<1>8. mixed' \in BOOLEAN /\ (~mixed' => ~mixed /\ fetch[r].stage \notin Saving)
  BY <1>1, <1>3 DEF RagTypes, Saving
<1> QED
  BY <1>1, <1>3, <1>5, <1>7, <1>8, Disengaged

\* A run that has taken the result has no engine either.
LEMMA ForgetsFetchKeeps ==
  ASSUME RagInv, NEW r \in Fetchers, ForgetsFetch(r)
  PROVE  RagInv'
<1>1. /\ RagTypes /\ UNCHANGED <<disk, engines, cached, builds, mixed, crossed>>
      /\ fetch[r].stage \notin Saving /\ fetch[r].stage # "adoptChunks"
  BY DEF RagInv, ForgetsFetch, Saving
<1>2. /\ NoFetch \in FetchRecords /\ NoFetch.eng = 0 /\ NoFetch.vectors = 0 /\ NoFetch.since = 0
      /\ NoFetch.force = FALSE /\ NoFetch.stage = "idle"
  BY DEF NoFetch, FetchRecords, FetchStages
<1>3. fetch' \in [Fetchers -> FetchRecords] /\ fetch'[r] = NoFetch
      /\ \A q \in Fetchers : q # r => fetch'[q] = fetch[q]
  BY <1>1, <1>2 DEF ForgetsFetch, RagTypes
<1>4. mixed' \in BOOLEAN /\ 0 <= builds
  BY <1>1 DEF RagTypes
<1> QED
  BY <1>1, <1>2, <1>3, <1>4, UnchangedEngines, Disengaged

\* A call that returns lets go of its engine; one that stops in the middle of a save leaves
\* its mark.
LEMMA FinishKeeps ==
  ASSUME RagInv, NEW r \in Fetchers, NEW stage \in {"ok", "failed"}, Finish(r, stage), Kept,
         UNCHANGED <<disk, cached, builds>>, fetch[r].stage # "adoptChunks",
         crossed' \in {crossed, crossed \ {r}},
         mixed' \in BOOLEAN, ~mixed' => ~mixed /\ fetch[r].stage \notin Saving
  PROVE  RagInv'
<1>1. RagTypes /\ stage \in FetchStages
  BY DEF RagInv, FetchStages
<1>2. /\ fetch' \in [Fetchers -> FetchRecords]
      /\ fetch'[r].stage = stage /\ fetch'[r].eng = 0 /\ fetch'[r].vectors = 0
      /\ fetch'[r].force = FALSE /\ fetch'[r].since = 0
      /\ \A q \in Fetchers : q # r => fetch'[q] = fetch[q]
  BY <1>1, Returned
<1>3. cached' \in {0} \cup EngineIds /\ 0 <= builds
  BY <1>1 DEF RagTypes
<1>4. SameEngines
  BY <1>1, <1>2, <1>3, KeptEngines
<1> QED
  BY <1>2, <1>3, <1>4, Disengaged

\* So do the calls that fail or have searched.
LEMMA FinishesKeep ==
  ASSUME RagInv, NEW r \in Fetchers,
         \/ LoadFails(r) \/ BuildFails(r) \/ SaveFails(r) \/ SearchFails(r) \/ Resolve(r)
         \/ Return(r) /\ cached = 0
  PROVE  RagInv'
<1>1. mixed \in BOOLEAN
  BY DEF RagInv, RagTypes
<1>2. CASE LoadFails(r) \/ BuildFails(r) \/ SearchFails(r)
  BY <1>1, <1>2, FinishKeeps DEF LoadFails, BuildFails, SearchFails, At, Saving
<1>3. CASE SaveFails(r)
  BY <1>3, FinishKeeps DEF SaveFails, Saving
<1>4. CASE Resolve(r)
  <2>1. PICK stage \in {"ok", "failed"} : Finish(r, stage)
    BY <1>4 DEF Resolve
  <2>2. /\ Kept /\ UNCHANGED <<disk, cached, builds>> /\ mixed' \in BOOLEAN
        /\ ~mixed' => ~mixed /\ fetch[r].stage \notin Saving
        /\ fetch[r].stage # "adoptChunks" /\ crossed' = crossed \ {r}
    BY <1>1, <1>4 DEF Resolve, At, Saving
  <2> QED
    BY <2>1, <2>2, FinishKeeps
<1>5. CASE Return(r) /\ cached = 0
  <2>1. /\ Finish(r, "failed") /\ Kept /\ UNCHANGED <<disk, cached, builds, crossed>>
        /\ fetch[r].stage \notin Saving /\ fetch[r].stage # "adoptChunks" /\ mixed' = mixed
    <3>1. mixed' = mixed
      BY <1>1, <1>5 DEF Return
    <3> QED
      BY <1>5, <3>1 DEF Return, At, Saving
  <2> QED
    BY <1>1, <2>1, FinishKeeps
<1> QED
  BY <1>2, <1>3, <1>4, <1>5

\* An engine that leaves the cache is kept by the calls that use it.
LEMMA EvictKeeps ==
  ASSUME RagInv, EvictEngine
  PROVE  RagInv'
<1>1. /\ RagTypes /\ cached' = 0 /\ UNCHANGED <<disk, fetch, builds, mixed, crossed>>
  BY DEF RagInv, EvictEngine
<1>2. SameEngines
  BY <1>1, KeptEngines DEF EvictEngine, RagTypes
<1>3. NewEngine.ixChunks = 0 /\ NewEngine.index = NewEngine.chunks
  BY DEF NewEngine
<1>4. \A q \in Fetchers : fetch[q].stage \in Reading \cup Building \cup Searching =>
        fetch[q].eng # 0 /\ Mine(q)' = Mine(q) /\ engines'[fetch[q].eng] = engines[fetch[q].eng]
  BY <1>1, <1>2 DEF RagInv, EngineUse, Uses, Mine, SameEngines
<1>5. RagTypes'
  BY <1>1, <1>2 DEF RagTypes, SameEngines
<1>6. Counted'
  BY <1>1, <1>2, <1>3 DEF RagInv, Counted, RagTypes, SameEngines
<1>7. EngineUse'
  <2> SUFFICES ASSUME NEW q \in Fetchers
               PROVE  Own(q)' /\ Uses(q)'
    BY <1>1 DEF EngineUse
  <2>1. Own(q) /\ Uses(q)
    BY DEF RagInv, EngineUse
  <2>2. Own(q)'
    BY <1>1, <1>4, <2>1 DEF Own, Uses
  <2>3. Uses(q)'
    BY <1>1, <1>4, <2>1, Stages DEF Uses
  <2> QED
    BY <2>2, <2>3
<1>8. Fresh'
  <2> SUFFICES ASSUME NEW s \in Fetchers, fetch'[s].force
               PROVE  FreshFor(s)'
    BY DEF Fresh
  <2>1. FreshFor(s)
    BY <1>1 DEF RagInv, Fresh
  <2>2. fetch[s].stage \in Building \cup Searching => Mine(s)' = Mine(s)
    BY <1>4
  <2>3. (Rebuilds(s)' <=> Rebuilds(s)) /\ Target(s)' \in {0, Target(s)}
    BY <1>1, <2>2 DEF Rebuilds, Target
  <2>4. ASSUME NEW q \in Fetchers, Target(s)' # 0, fetch[q].eng = Target(s)',
               fetch[q].stage \in Collected
        PROVE  /\ fetch[q].vectors > fetch[s].since
               /\ engines'[Target(s)'].ixChunks > fetch[s].since
               /\ fetch[q].stage = "adoptChunks" => fetch[q].taken > fetch[s].since
    <3>1. Target(s)' = Target(s) /\ engines'[Target(s)] = engines[Target(s)]
      BY <1>4, <2>3, <2>4, Stages
    <3> QED
      BY <2>1, <2>4, <3>1 DEF FreshFor
  <2> QED
    BY <1>1, <2>1, <2>2, <2>3, <2>4, Stages DEF FreshFor, Rebuilds
<1>9. Paired'
  <2> SUFFICES ASSUME ~mixed'
               PROVE  /\ Alone' /\ \A q \in Fetchers : Matched(q)' /\ Straight(q)'
                      /\ DiskPaired' /\ EnginesPaired'
    BY DEF Paired
  <2>1. /\ Alone /\ \A q \in Fetchers : Matched(q) /\ Straight(q)
        /\ DiskPaired /\ EnginesPaired
    BY <1>1 DEF RagInv, Paired
  <2>2. Alone' /\ DiskPaired'
    BY <1>1, <2>1 DEF Alone, DiskPaired, Builder
  <2>3. \A q \in Fetchers : Matched(q)' /\ Straight(q)'
    BY <1>1, <1>4, <2>1, Stages DEF Matched, Straight
  <2>4. EnginesPaired'
    BY <1>1, <1>2, <1>3, <2>1 DEF EnginesPaired, SameEngines
  <2> QED
    BY <2>2, <2>3, <2>4
<1> QED
  BY <1>5, <1>6, <1>7, <1>8, <1>9 DEF RagInv

\* After a restart there is nothing but the files.
LEMMA LoseKeeps ==
  ASSUME RagInv, LoseEngines
  PROVE  RagInv'
<1>1. /\ RagTypes /\ cached' = 0 /\ UNCHANGED <<disk, builds>> /\ builds \in Nat
      /\ fetch' = [q \in Fetchers |-> NoFetch] /\ Kept /\ crossed' = {}
  BY DEF RagInv, LoseEngines, RagTypes
<1>2. /\ NoFetch \in FetchRecords /\ NoFetch.eng = 0 /\ NoFetch.vectors = 0 /\ NoFetch.since = 0
      /\ NoFetch.force = FALSE /\ NoFetch.stage = "idle"
  BY DEF NoFetch, FetchRecords, FetchStages
<1>3. fetch' \in [Fetchers -> FetchRecords] /\ \A q \in Fetchers : fetch'[q] = NoFetch
  BY <1>1, <1>2
<1>4. SameEngines
  BY <1>1, <1>3, KeptEngines
<1>5. /\ NewEngine.ixChunks = 0 /\ NewEngine.index = NewEngine.chunks
      /\ \A e \in EngineIds : engines'[e] = NewEngine
  BY <1>1, <1>2, <1>3, EngineNumbers DEF NewEngine, Kept
<1>6. mixed' \in BOOLEAN /\ (~mixed' => ~mixed /\ \A q \in Fetchers : fetch[q].stage \notin Saving)
  BY <1>1 DEF LoseEngines, Saving, RagTypes
<1>7. "idle" \notin Reading \cup Building \cup Collected \cup Saving \cup Searching
  BY Stages
<1>8. RagTypes'
  BY <1>1, <1>3, <1>4, <1>6 DEF RagTypes, SameEngines
<1>9. Counted'
  BY <1>1, <1>2, <1>3, <1>4, <1>5 DEF RagInv, Counted, SameEngines
<1>10. EngineUse'
  BY <1>1, <1>2, <1>3, <1>7 DEF EngineUse, Own, Uses
<1>11. Fresh'
  BY <1>2, <1>3 DEF Fresh
<1>12. Paired'
  <2> SUFFICES ASSUME ~mixed'
               PROVE  /\ Alone' /\ \A q \in Fetchers : Matched(q)' /\ Straight(q)'
                      /\ DiskPaired' /\ EnginesPaired'
    BY DEF Paired
  <2>1. DiskPaired /\ EnginesPaired
    BY <1>6 DEF RagInv, Paired
  <2>2. Alone' /\ \A q \in Fetchers : Matched(q)' /\ Straight(q)'
    BY <1>2, <1>3, <1>7 DEF Alone, Builder, Matched, Straight
  <2>3. DiskPaired'
    BY <1>1, <1>6, <2>1 DEF DiskPaired
  <2>4. EnginesPaired'
    BY <1>5 DEF EnginesPaired
  <2> QED
    BY <2>2, <2>3, <2>4
<1> QED
  BY <1>8, <1>9, <1>10, <1>11, <1>12 DEF RagInv

\* A call that has found an engine in the cache does not hold it yet.
LEMMA UseCachedKeeps ==
  ASSUME RagInv, NEW r \in Fetchers, UseCached(r)
  PROVE  RagInv'
<1>1. /\ RagTypes /\ Move(r, "return")
      /\ UNCHANGED <<disk, engines, cached, builds, mixed, crossed>>
      /\ fetch[r].stage = "lookup" /\ "return" \in FetchStages
  BY DEF RagInv, UseCached, At, FetchStages
<1>2. /\ fetch' \in [Fetchers -> FetchRecords]
      /\ fetch'[r].stage = "return" /\ fetch'[r].eng = fetch[r].eng
      /\ fetch'[r].vectors = fetch[r].vectors
      /\ fetch'[r].force = fetch[r].force /\ fetch'[r].since = fetch[r].since
      /\ \A q \in Fetchers : q # r => fetch'[q] = fetch[q]
  BY <1>1, StageMoved
<1>3. fetch[r].eng = 0 /\ fetch[r].vectors = 0 /\ fetch[r].since <= builds
  BY <1>1 DEF RagInv, EngineUse, Uses, Counted
<1>4. SameEngines
  BY <1>1, UnchangedEngines
<1>5. mixed' \in BOOLEAN /\ (~mixed' => ~mixed /\ fetch[r].stage \notin Saving)
  BY <1>1 DEF RagTypes, Saving
<1> QED
  BY <1>1, <1>2, <1>3, <1>4, <1>5, Disengaged

\* While a save writes, nothing but the stage and the files change.
LEMMA WritesKeep ==
  ASSUME RagInv, NEW r \in Fetchers, WriteIndex(r) \/ OpenChunks(r) \/ WriteChunks(r)
  PROVE  RagInv'
<1>1. /\ RagTypes /\ UNCHANGED <<engines, cached, builds, mixed, crossed>>
      /\ fetch[r].stage \in Saving
  BY DEF RagInv, WriteIndex, OpenChunks, WriteChunks, At, Saving
<1>2. PICK next \in {"saveChunks", "writeChunks", "adopt"} :
        /\ Move(r, next)
        /\ next = "saveChunks" =>
             /\ fetch[r].stage = "writeIndex"
             /\ disk' = [disk EXCEPT !.torn = @ \ {"index"}, !.index = fetch[r].vectors]
        /\ next = "writeChunks" =>
             /\ fetch[r].stage = "saveChunks"
             /\ disk' = [disk EXCEPT !.torn = @ \cup {"chunks"}, !.chunks = Mine(r).ixChunks]
        /\ next = "adopt" =>
             /\ fetch[r].stage = "writeChunks"
             /\ disk' = [disk EXCEPT !.torn = @ \ {"chunks"}, !.chunks = Mine(r).ixChunks]
  <2>1. CASE WriteIndex(r)
    BY <2>1 DEF WriteIndex, At
  <2>2. CASE OpenChunks(r)
    BY <2>2 DEF OpenChunks, At
  <2>3. CASE WriteChunks(r)
    BY <2>3 DEF WriteChunks, At
  <2> QED
    BY <2>1, <2>2, <2>3
<1>3. /\ next \in FetchStages /\ next \in Collected /\ fetch[r].stage \in Collected
      /\ next # "adoptChunks" /\ next \notin Searching
  BY <1>1, Stages
<1>4. /\ fetch' \in [Fetchers -> FetchRecords]
      /\ fetch'[r].stage = next /\ fetch'[r].eng = fetch[r].eng
      /\ fetch'[r].vectors = fetch[r].vectors /\ fetch'[r].taken = fetch[r].taken
      /\ fetch'[r].force = fetch[r].force /\ fetch'[r].since = fetch[r].since
      /\ \A q \in Fetchers : q # r => fetch'[q] = fetch[q]
  BY <1>1, <1>2, <1>3, StageMoved
<1>5. \A q \in Fetchers : /\ Mine(q)' = Mine(q) /\ fetch'[q].eng = fetch[q].eng
                          /\ fetch'[q].force = fetch[q].force /\ fetch'[q].since = fetch[q].since
                          /\ fetch'[q].vectors = fetch[q].vectors
                          /\ fetch'[q].taken = fetch[q].taken
  BY <1>1, <1>4 DEF Mine
<1>6. Uses(r) /\ Own(r)
  BY DEF RagInv, EngineUse
<1>7. /\ fetch[r].eng \in EngineIds /\ Mine(r).ixChunks \in Nat /\ Mine(r).ixChunks <= builds
      /\ fetch[r].vectors \in Nat /\ fetch[r].vectors <= builds
      /\ Mine(r).ixChunks # 0 /\ fetch[r].vectors # 0
  <2>1. fetch[r].eng \in EngineIds
    BY <1>1, <1>6, Stages DEF Uses, RagTypes, FetchRecords
  <2>2. engines[fetch[r].eng] \in EngineRecords /\ fetch[r] \in FetchRecords
    BY <1>1, <2>1 DEF RagTypes
  <2> QED
    BY <1>1, <1>3, <1>6, <2>1, <2>2 DEF RagInv, Counted, Uses, Mine, EngineRecords, FetchRecords
<1>8. /\ disk' \in [index : Nat, chunks : Nat, torn : SUBSET {"index", "chunks"}]
      /\ disk'.index \in {disk.index, fetch[r].vectors}
      /\ disk'.chunks \in {disk.chunks, Mine(r).ixChunks}
  <2>1. disk \in [index : Nat, chunks : Nat, torn : SUBSET {"index", "chunks"}]
    BY <1>1 DEF RagTypes
  <2>2. CASE next = "saveChunks"
    BY <1>2, <1>7, <2>1, <2>2
  <2>3. CASE next = "writeChunks"
    BY <1>2, <1>7, <2>1, <2>3
  <2>4. CASE next = "adopt"
    BY <1>2, <1>7, <2>1, <2>4
  <2> QED
    BY <2>2, <2>3, <2>4
<1>9. RagTypes'
  BY <1>1, <1>4, <1>8 DEF RagTypes
<1>10. Counted'
  BY <1>1, <1>5, <1>7, <1>8 DEF RagInv, Counted
<1>11. EngineUse'
  <2> SUFFICES ASSUME NEW q \in Fetchers
               PROVE  Own(q)' /\ Uses(q)'
    BY <1>1 DEF RagInv, EngineUse
  <2>1. Own(q) /\ Uses(q)
    BY DEF RagInv, EngineUse
  <2>2. CASE q = r
    <3>1. Own(r)'
      BY <1>1, <1>3, <1>4, <1>5, <1>6, Stages DEF Own
    <3>2. Uses(r)'
      BY <1>1, <1>2, <1>3, <1>4, <1>5, <1>6, <1>7, Stages DEF Uses
    <3> QED
      BY <2>2, <3>1, <3>2
  <2>3. CASE q # r
    <3>1. Own(q)'
      BY <1>1, <1>4, <1>5, <2>1, <2>3 DEF Own
    <3>2. Uses(q)'
      BY <1>1, <1>4, <1>5, <1>7, <1>8, <2>1, <2>3 DEF Uses
    <3> QED
      BY <3>1, <3>2
  <2> QED
    BY <2>2, <2>3
<1>12. Fresh'
  <2> SUFFICES ASSUME NEW s \in Fetchers, fetch'[s].force
               PROVE  FreshFor(s)'
    BY DEF Fresh
  <2>1. FreshFor(s)
    BY <1>5 DEF RagInv, Fresh
  <2>2. (Rebuilds(s)' <=> Rebuilds(s)) /\ Target(s)' = Target(s)
    BY <1>1, <1>3, <1>4, <1>5, Stages DEF Rebuilds, Target
  <2>3. \A q \in Fetchers :
          /\ fetch'[q].stage \in Collected => fetch[q].stage \in Collected
          /\ fetch'[q].stage = "adoptChunks" => fetch[q].stage = "adoptChunks"
          /\ fetch'[q].stage \in Searching => fetch[q].stage \in Searching
          /\ fetch'[q].stage = "resolve" => fetch[q].stage = "resolve"
          /\ fetch'[q].stage \in Saving \cup {"adopt"} => fetch[q].stage \in Saving \cup {"adopt"}
    BY <1>1, <1>3, <1>4, Stages
  <2> QED
    BY <1>1, <1>5, <2>1, <2>2, <2>3 DEF FreshFor
<1>13. Paired'
  <2> SUFFICES ASSUME ~mixed'
               PROVE  /\ Alone' /\ \A q \in Fetchers : Matched(q)' /\ Straight(q)'
                      /\ DiskPaired' /\ EnginesPaired'
    BY DEF Paired
  <2>1. /\ Alone /\ \A q \in Fetchers : Matched(q) /\ Straight(q)
        /\ DiskPaired /\ EnginesPaired
    BY <1>1 DEF RagInv, Paired
  <2>2. Builder(r)
    BY <1>1, Stages DEF Builder
  <2>3. \A q \in Fetchers : q # r => fetch[q].stage \notin Building \cup Reading
    BY <2>1, <2>2 DEF Alone
  <2>4. Alone'
    BY <1>4, <2>3 DEF Alone, Builder
  <2>5. Mine(r).ixChunks = fetch[r].vectors /\ Mine(r).ixIndex = fetch[r].vectors
        /\ disk.index = fetch[r].vectors
    BY <1>1, <2>1 DEF Matched
  <2>6. /\ disk'.index = fetch[r].vectors
        /\ next = "saveChunks" => disk'.torn = {}
        /\ next = "writeChunks" => disk'.torn \subseteq {"chunks"}
        /\ next = "adopt" => disk'.torn = {} /\ disk'.chunks = fetch[r].vectors
    <3>1. /\ fetch[r].stage = "writeIndex" => disk.torn \subseteq {"index"}
          /\ fetch[r].stage = "saveChunks" => disk.torn = {}
          /\ fetch[r].stage = "writeChunks" => disk.torn \subseteq {"chunks"}
      BY <1>1, <2>1 DEF Matched
    <3>2. disk \in [index : Nat, chunks : Nat, torn : SUBSET {"index", "chunks"}]
      BY <1>1 DEF RagTypes
    <3>3. CASE next = "saveChunks"
      <4>1. disk.torn \subseteq {"index"}
        BY <1>2, <3>1, <3>3
      <4>2. disk' = [disk EXCEPT !.torn = @ \ {"index"}, !.index = fetch[r].vectors]
        BY <1>2, <3>3
      <4>3. disk'.torn = {} /\ disk'.index = fetch[r].vectors
        BY <3>2, <4>1, <4>2
      <4> QED
        BY <3>3, <4>3
    <3>4. CASE next = "writeChunks"
      <4>1. disk.torn = {}
        BY <1>2, <3>1, <3>4
      <4>2. disk' = [disk EXCEPT !.torn = @ \cup {"chunks"}, !.chunks = Mine(r).ixChunks]
        BY <1>2, <3>4
      <4>3. disk'.torn \subseteq {"chunks"} /\ disk'.index = disk.index
        BY <3>2, <4>1, <4>2
      <4> QED
        BY <2>5, <3>4, <4>3
    <3>5. CASE next = "adopt"
      <4>1. disk.torn \subseteq {"chunks"}
        BY <1>2, <3>1, <3>5
      <4>2. disk' = [disk EXCEPT !.torn = @ \ {"chunks"}, !.chunks = Mine(r).ixChunks]
        BY <1>2, <3>5
      <4>3. disk'.torn = {} /\ disk'.chunks = Mine(r).ixChunks /\ disk'.index = disk.index
        BY <3>2, <4>1, <4>2
      <4> QED
        BY <2>5, <3>5, <4>3
    <3> QED
      BY <3>3, <3>4, <3>5
  <2>7. ASSUME NEW q \in Fetchers
        PROVE  Matched(q)' /\ Straight(q)'
    <3>1. CASE q = r
      BY <1>3, <1>4, <1>5, <2>5, <2>6, <3>1, Stages DEF Matched, Straight
    <3>2. CASE q # r
      BY <1>1, <1>4, <1>5, <2>1, <2>3, <3>2, Stages DEF Matched, Straight
    <3> QED
      BY <3>1, <3>2
  <2>8. DiskPaired'
    BY <1>4, <2>6, Stages DEF DiskPaired
  <2>9. EnginesPaired'
    BY <1>1, <1>3, <1>4, <2>1, Stages DEF EnginesPaired
  <2> QED
    BY <2>4, <2>7, <2>8, <2>9
<1> QED
  BY <1>9, <1>10, <1>11, <1>12, <1>13 DEF RagInv

\* A call that takes the engine from the cache builds it anew or searches it.
LEMMA ReturnKeeps ==
  ASSUME RagInv, NEW r \in Fetchers, Return(r), cached # 0
  PROVE  RagInv'
<1> DEFINE next == IF fetch[r].force THEN "collect" ELSE "search"
<1>1. /\ RagTypes /\ UNCHANGED <<disk, cached, builds, crossed>> /\ Kept
      /\ fetch[r].stage = "return" /\ fetch[r] \in FetchRecords /\ cached \in EngineIds
      /\ fetch' = [fetch EXCEPT ![r].eng = cached, ![r].stage = next]
  BY DEF RagInv, Return, At, RagTypes
<1>2. mixed' = (mixed \/ (fetch[r].force /\ OthersIn(r, Building \cup Reading)))
  BY DEF Return
<1>3. /\ fetch[r].force => next = "collect"
      /\ ~fetch[r].force => next = "search"
      /\ next \in FetchStages
  BY DEF FetchStages, Building
<1> HIDE DEF next
<1>4. /\ fetch' \in [Fetchers -> FetchRecords]
      /\ fetch'[r].stage = next /\ fetch'[r].eng = cached
      /\ fetch'[r].vectors = fetch[r].vectors
      /\ fetch'[r].force = fetch[r].force /\ fetch'[r].since = fetch[r].since
      /\ \A q \in Fetchers : q # r => fetch'[q] = fetch[q]
  <2> DEFINE new == [fetch[r] EXCEPT !.eng = cached, !.stage = next]
  <2>1. /\ new \in FetchRecords /\ new.stage = next /\ new.eng = cached
        /\ new.vectors = fetch[r].vectors /\ new.force = fetch[r].force
        /\ new.since = fetch[r].since
    BY <1>1, <1>3 DEF FetchRecords
  <2>2. fetch \in [Fetchers -> FetchRecords] /\ fetch' = [fetch EXCEPT ![r] = new]
    BY <1>1 DEF RagTypes
  <2> HIDE DEF new
  <2> QED
    BY <2>1, <2>2
<1>5. SameEngines
  BY <1>1, <1>4, KeptEngines DEF RagTypes
<1>6. NewEngine.ixChunks = 0 /\ NewEngine.index = NewEngine.chunks
  BY DEF NewEngine
<1>7. /\ engines'[cached] = engines[cached] /\ engines[cached].chunks # 0
      /\ Mine(r)' = engines[cached]
  BY <1>1, <1>4, <1>5 DEF RagInv, EngineUse, SameEngines, Mine
<1>8. \A q \in Fetchers : q # r /\ fetch[q].stage \in Reading \cup Building \cup Searching =>
        fetch[q].eng # 0 /\ Mine(q)' = Mine(q) /\ engines'[fetch[q].eng] = engines[fetch[q].eng]
  BY <1>4, <1>5 DEF RagInv, EngineUse, Uses, Mine, SameEngines
<1>9. /\ next \notin Collected \cup Reading \cup {"resolve"} /\ next \in {"collect", "search"}
      /\ fetch[r].stage \notin Collected \cup Reading \cup Building \cup Searching
  BY <1>1, <1>3, Stages
<1>10. RagTypes'
  <2>1. mixed' \in BOOLEAN
    BY <1>2
  <2> QED
    BY <1>1, <1>4, <1>5, <2>1 DEF RagTypes, SameEngines
<1>11. Counted'
  BY <1>1, <1>4, <1>5, <1>6 DEF RagInv, Counted, RagTypes, SameEngines
<1>12. EngineUse'
  <2> SUFFICES ASSUME NEW q \in Fetchers
               PROVE  Own(q)' /\ Uses(q)'
    BY <1>1, <1>7 DEF EngineUse
  <2>1. Own(q) /\ Uses(q)
    BY DEF RagInv, EngineUse
  <2>2. CASE q = r
    BY <1>1, <1>4, <1>7, <1>9, <2>2, EngineNumbers, Stages DEF Own, Uses
  <2>3. CASE q # r
    <3>1. Own(q)'
      BY <1>1, <1>4, <1>8, <2>1, <2>3 DEF Own, Uses
    <3>2. Uses(q)'
      BY <1>1, <1>4, <1>8, <2>1, <2>3, Stages DEF Uses
    <3> QED
      BY <3>1, <3>2
  <2> QED
    BY <2>2, <2>3
<1>13. Fresh'
  <2> SUFFICES ASSUME NEW s \in Fetchers, fetch'[s].force
               PROVE  FreshFor(s)'
    BY DEF Fresh
  <2>1. FreshFor(s) /\ fetch'[s].since = fetch[s].since
    BY <1>4 DEF RagInv, Fresh
  <2>2. ASSUME Target(s)' = Target(s), NEW q \in Fetchers,
               Target(s)' # 0, fetch'[q].eng = Target(s)', fetch'[q].stage \in Collected
        PROVE  /\ fetch'[q].vectors > fetch'[s].since
               /\ engines'[Target(s)'].ixChunks > fetch'[s].since
               /\ fetch'[q].stage = "adoptChunks" => fetch'[q].taken > fetch'[s].since
    <3>1. q # r /\ fetch'[q] = fetch[q]
      BY <1>4, <1>9, <2>2
    <3>2. engines'[Target(s)] = engines[Target(s)]
      BY <1>8, <2>2, <3>1, Stages
    <3> QED
      BY <2>1, <2>2, <3>1, <3>2 DEF FreshFor
  <2>3. CASE s = r
    <3>1. ~Rebuilds(r) /\ Target(r) = cached
      BY <1>9 DEF Rebuilds, Target
    <3>2. next = "collect" /\ Target(r)' = cached
      BY <1>1, <1>3, <1>4, <2>3 DEF Target
    <3> QED
      BY <1>4, <2>2, <2>3, <3>1, <3>2, Stages DEF FreshFor
  <2>4. CASE s # r
    <3>1. fetch'[s] = fetch[s]
      BY <1>4, <2>4
    <3>2. fetch[s].stage \in Building \cup Searching => Mine(s)' = Mine(s)
      BY <1>8, <2>4
    <3>3. Rebuilds(s)' <=> Rebuilds(s)
      BY <3>1, <3>2 DEF Rebuilds
    <3>4. cached' = cached
      BY <1>1
    <3>5. Target(s)' = Target(s)
      BY <3>1, <3>3, <3>4 DEF Target
    <3> QED
      BY <2>1, <2>2, <3>1, <3>2, <3>3, <3>5, Stages DEF FreshFor, Rebuilds
  <2> QED
    BY <2>3, <2>4
<1>14. Paired'
  <2> SUFFICES ASSUME ~mixed'
               PROVE  /\ Alone' /\ \A q \in Fetchers : Matched(q)' /\ Straight(q)'
                      /\ DiskPaired' /\ EnginesPaired'
    BY DEF Paired
  <2>1. /\ Alone /\ \A q \in Fetchers : Matched(q) /\ Straight(q)
        /\ DiskPaired /\ EnginesPaired
        /\ next = "collect" => \A q \in Fetchers : q # r => fetch[q].stage \notin Building \cup Reading
    <3>1. ~mixed /\ ~(fetch[r].force /\ OthersIn(r, Building \cup Reading))
      BY <1>2
    <3> QED
      BY <1>3, <3>1 DEF RagInv, Paired, OthersIn
  <2>2. Alone'
    <3>1. CASE next = "collect"
      BY <1>4, <2>1, <3>1 DEF Alone, Builder
    <3>2. CASE next = "search"
      BY <1>4, <2>1, <3>2, Stages DEF Alone, Builder
    <3> QED
      BY <1>9, <3>1, <3>2
  <2>3. ASSUME NEW q \in Fetchers
        PROVE  Matched(q)' /\ Straight(q)'
    <3>1. CASE q = r
      BY <1>4, <1>9, <3>1, Stages DEF Matched, Straight
    <3>2. CASE q # r
      <4>1. fetch'[q] = fetch[q] /\ Matched(q) /\ Straight(q)
        BY <1>4, <2>1, <3>2
      <4>2. fetch[q].stage \in Building \cup Searching => Mine(q)' = Mine(q)
        BY <1>8, <3>2
      <4>3. Matched(q)'
        BY <1>1, <4>1, <4>2, Stages DEF Matched
      <4>4. Straight(q)'
        BY <1>1, <4>1, <4>2, Stages DEF Straight
      <4> QED
        BY <4>3, <4>4
    <3> QED
      BY <3>1, <3>2
  <2>4. DiskPaired'
    BY <1>1, <1>4, <1>9, <2>1, Stages DEF DiskPaired
  <2>5. EnginesPaired'
    BY <1>1, <1>4, <1>5, <1>6, <2>1 DEF EnginesPaired, SameEngines
  <2> QED
    BY <2>2, <2>3, <2>4, <2>5
<1> QED
  BY <1>10, <1>11, <1>12, <1>13, <1>14 DEF RagInv

\* A new engine is nobody else's, and whoever is at the files then is noticed.
LEMMA ConstructKeeps ==
  ASSUME RagInv, NEW r \in Fetchers, Construct(r)
  PROVE  RagInv'
<1> DEFINE load == disk.index # 0 /\ disk.chunks # 0
           next == IF load THEN "load" ELSE "collect"
<1>1. /\ RagTypes /\ cached = 0 /\ UNCHANGED <<disk, cached, builds, crossed>>
      /\ fetch[r].stage = "lookup"
      /\ fetch[r].vectors \in Nat
  BY DEF RagInv, Construct, At, RagTypes, FetchRecords
<1>2. PICK new \in EngineIds :
        /\ \A q \in Fetchers : fetch[q].eng # new
        /\ engines' = [engines EXCEPT ![new] = NewEngine]
        /\ fetch' = [fetch EXCEPT ![r] = [fetch[r] EXCEPT !.stage = next, !.eng = new,
                                                          !.vectors = fetch[r].vectors]]
        /\ mixed' = (mixed \/ OthersIn(r, IF load THEN Building ELSE Building \cup Reading))
  BY <1>1, Constructed
<1>3. /\ next \in {"load", "collect"} /\ (next = "load" => disk.chunks # 0)
      /\ next \in FetchStages /\ mixed' \in BOOLEAN
      /\ ~mixed' => /\ ~mixed
                    /\ \A q \in Fetchers : q # r => fetch[q].stage \notin Building
                    /\ next = "collect" => \A q \in Fetchers : q # r => fetch[q].stage \notin Reading
  <2>1. CASE load
    BY <1>2, <2>1 DEF OthersIn, FetchStages, Reading, Building
  <2>2. CASE ~load
    BY <1>2, <2>2 DEF OthersIn, FetchStages, Reading, Building
  <2> QED
    BY <2>1, <2>2
<1>4. engines' = [engines EXCEPT ![new] = NewEngine] /\ \A q \in Fetchers : fetch[q].eng # new
  BY <1>2
<1> DEFINE vectors == fetch[r].vectors
<1>5. fetch' = [fetch EXCEPT ![r] = [fetch[r] EXCEPT !.stage = next, !.eng = new, !.vectors = vectors]]
  BY <1>2
<1>6. vectors \in Nat /\ vectors = fetch[r].vectors
  BY <1>1
<1> HIDE DEF load, next, vectors
<1>7. /\ fetch' \in [Fetchers -> FetchRecords]
      /\ fetch'[r].stage = next /\ fetch'[r].eng = new /\ fetch'[r].vectors = vectors
      /\ fetch'[r].force = fetch[r].force /\ fetch'[r].since = fetch[r].since
      /\ \A q \in Fetchers : q # r => fetch'[q] = fetch[q]
  <2> DEFINE call == [fetch[r] EXCEPT !.stage = next, !.eng = new, !.vectors = vectors]
  <2>1. fetch[r] \in FetchRecords
    BY <1>1 DEF RagTypes
  <2>2. /\ call \in FetchRecords /\ call.stage = next /\ call.eng = new
        /\ call.vectors = vectors /\ call.force = fetch[r].force /\ call.since = fetch[r].since
    BY <1>3, <1>6, <2>1 DEF FetchRecords
  <2>3. fetch' = [fetch EXCEPT ![r] = call]
    BY <1>5
  <2> HIDE DEF call
  <2> QED
    BY <1>1, <2>2, <2>3 DEF RagTypes
<1>8. /\ NewEngine \in EngineRecords /\ NewEngine.ixChunks = 0 /\ NewEngine.index = 0
      /\ NewEngine.chunks = 0
  BY DEF NewEngine, EngineRecords
<1>9. /\ engines' \in [EngineIds -> EngineRecords] /\ engines'[new] = NewEngine
      /\ \A e \in EngineIds : e # new => engines'[e] = engines[e]
  BY <1>1, <1>4, <1>8 DEF RagTypes
<1>10. new # 0 /\ Mine(r)' = NewEngine
  BY <1>7, <1>9, EngineNumbers DEF Mine
<1>11. \A q \in Fetchers : q # r /\ fetch[q].stage \in Reading \cup Building \cup Searching =>
         fetch[q].eng # 0 /\ Mine(q)' = Mine(q)
  <2> SUFFICES ASSUME NEW q \in Fetchers, q # r, fetch[q].stage \in Reading \cup Building \cup Searching
               PROVE  fetch[q].eng # 0 /\ Mine(q)' = Mine(q)
    OBVIOUS
  <2>1. fetch[q].eng # 0
    BY DEF RagInv, EngineUse, Uses
  <2>2. fetch[q].eng \in EngineIds /\ fetch[q].eng # new
    BY <1>1, <1>4, <2>1 DEF RagTypes, FetchRecords
  <2> QED
    BY <1>7, <1>9, <2>1, <2>2 DEF Mine
<1>12. next \notin Collected \cup Searching
  BY <1>3, Stages
<1>13. RagTypes'
  BY <1>1, <1>3, <1>7, <1>9 DEF RagTypes
<1>14. Counted'
  BY <1>1, <1>6, <1>7, <1>8, <1>9 DEF RagInv, Counted, RagTypes
<1>15. EngineUse'
  <2> SUFFICES ASSUME NEW q \in Fetchers
               PROVE  Own(q)' /\ Uses(q)'
    BY <1>1 DEF EngineUse
  <2>1. Own(q) /\ Uses(q) /\ Uses(r)
    BY DEF RagInv, EngineUse
  <2>2. CASE q = r
    <3>1. Own(r)'
      BY <1>1, <1>4, <1>7, <1>10 DEF Own
    <3>2. vectors = 0
      BY <1>1, <1>6, <2>1 DEF Uses
    <3>3. Uses(r)'
      BY <1>1, <1>3, <1>7, <1>8, <1>10, <1>12, <3>2, Stages DEF Uses
    <3> QED
      BY <2>2, <3>1, <3>3
  <2>3. CASE q # r
    <3>1. Own(q)'
      BY <1>1, <1>4, <1>7, <1>11, <2>1, <2>3 DEF Own
    <3>2. Uses(q)'
      BY <1>1, <1>7, <1>11, <2>1, <2>3, Stages DEF Uses
    <3> QED
      BY <3>1, <3>2
  <2> QED
    BY <2>2, <2>3
<1>16. Fresh'
  <2> SUFFICES ASSUME NEW s \in Fetchers, fetch'[s].force
               PROVE  FreshFor(s)'
    BY DEF Fresh
  <2>1. FreshFor(s)
    BY <1>7 DEF RagInv, Fresh
  <2>2. CASE s = r
    <3>1. ~Rebuilds(r)' /\ Target(r)' = 0 /\ fetch'[r].stage \notin Searching
      BY <1>1, <1>8, <1>10, <1>7, <1>12 DEF Rebuilds, Target
    <3> QED
      BY <2>2, <3>1, Stages DEF FreshFor
  <2>3. CASE s # r
    <3>1. /\ fetch'[s] = fetch[s]
          /\ fetch[s].stage \in Building \cup Searching => Mine(s)' = Mine(s)
      BY <1>7, <1>11, <2>3
    <3>2. (Rebuilds(s)' <=> Rebuilds(s)) /\ Target(s)' = Target(s)
      BY <1>1, <3>1 DEF Target, Rebuilds
    <3>3. ASSUME NEW q \in Fetchers, Target(s)' # 0, fetch'[q].eng = Target(s)',
                 fetch'[q].stage \in Collected
          PROVE  /\ fetch'[q].vectors > fetch'[s].since
                 /\ engines'[Target(s)'].ixChunks > fetch'[s].since
                 /\ fetch'[q].stage = "adoptChunks" => fetch'[q].taken > fetch'[s].since
      <4>1. q # r /\ fetch'[q] = fetch[q]
        BY <1>7, <1>12, <3>3
      <4>2. Mine(q)' = Mine(q) /\ fetch[q].eng = Target(s)
        BY <1>11, <3>2, <3>3, <4>1, Stages
      <4>3. engines'[Target(s)] = engines[Target(s)]
        BY <4>1, <4>2 DEF Mine
      <4> QED
        BY <2>1, <3>1, <3>2, <3>3, <4>1, <4>3 DEF FreshFor
    <3> QED
      BY <2>1, <3>1, <3>2, <3>3, Stages DEF FreshFor, Rebuilds
  <2> QED
    BY <2>2, <2>3
<1>17. Paired'
  <2> SUFFICES ASSUME ~mixed'
               PROVE  /\ Alone' /\ \A q \in Fetchers : Matched(q)' /\ Straight(q)'
                      /\ DiskPaired' /\ EnginesPaired'
    BY DEF Paired
  <2>1. /\ Alone /\ \A q \in Fetchers : Matched(q) /\ Straight(q)
        /\ DiskPaired /\ EnginesPaired
    BY <1>3 DEF RagInv, Paired
  <2>2. Alone'
    BY <1>3, <1>7, Stages DEF Alone, Builder
  <2>3. ASSUME NEW q \in Fetchers
        PROVE  Matched(q)' /\ Straight(q)'
    <3>1. CASE q = r
      BY <1>7, <1>12, <3>1, Stages DEF Matched, Straight
    <3>2. CASE q # r
      <4>1. fetch'[q] = fetch[q] /\ Straight(q) /\ fetch[q].stage \notin Building
        BY <1>3, <1>7, <2>1, <3>2
      <4>2. fetch[q].stage = "resolve" => Mine(q)' = Mine(q)
        BY <1>11, <3>2, Stages
      <4>3. Straight(q)'
        BY <1>1, <4>1, <4>2 DEF Straight
      <4> QED
        BY <4>1, <4>3, Stages DEF Matched
    <3> QED
      BY <3>1, <3>2
  <2>4. DiskPaired'
    BY <1>1, <1>3, <1>7, <1>12, <2>1, Stages DEF DiskPaired
  <2>5. EnginesPaired'
    BY <1>1, <1>7, <1>8, <1>9, <2>1 DEF EnginesPaired
  <2> QED
    BY <2>2, <2>3, <2>4, <2>5
<1> QED
  BY <1>13, <1>14, <1>15, <1>16, <1>17 DEF RagInv

\* The engine of a call that reads, builds or searches.
LEMMA EngineOf ==
  ASSUME RagInv, NEW r \in Fetchers, fetch[r].stage \in Reading \cup Building \cup Searching
  PROVE  fetch[r].eng \in EngineIds /\ Mine(r) \in EngineRecords /\ Mine(r) = engines[fetch[r].eng]
BY DEF RagInv, EngineUse, Uses, RagTypes, FetchRecords, Mine

\* What an engine gets from the files is its own affair as long as it has no index.
LEMMA LoadKeeps ==
  ASSUME RagInv, NEW r \in Fetchers, Load(r)
  PROVE  RagInv'
<1> DEFINE e == fetch[r].eng
           loaded == [engines[e] EXCEPT !.ixIndex = disk.index, !.ixChunks = disk.chunks]
<1>1. /\ RagTypes /\ UNCHANGED <<disk, cached, builds, mixed, crossed>>
      /\ fetch[r].stage = "load" /\ Move(r, "adopt") /\ "adopt" \in FetchStages
  BY DEF RagInv, Load, At, FetchStages, Building
<1>2. e \in EngineIds /\ engines[e] \in EngineRecords /\ e = fetch[r].eng
  BY <1>1, EngineOf DEF Reading, RagTypes
<1>3. Uses(r) /\ Own(r)
  BY DEF RagInv, EngineUse
<1>4. /\ fetch[r].vectors = 0 /\ disk.chunks # 0 /\ engines[e].chunks = 0
      /\ cached # e /\ \A q \in Fetchers : q # r => fetch[q].eng # e
  BY <1>1, <1>3 DEF Uses, Own, Mine, Reading
<1>5. engines' = [engines EXCEPT ![e] = loaded]
  BY <1>1, <1>2 DEF Load, RagTypes
<1>6. /\ loaded \in EngineRecords /\ loaded.ixIndex = disk.index /\ loaded.ixChunks = disk.chunks
      /\ loaded.index = engines[e].index /\ loaded.chunks = engines[e].chunks
  BY <1>1, <1>2 DEF EngineRecords, RagTypes
<1> HIDE DEF e, loaded
<1>7. /\ engines' \in [EngineIds -> EngineRecords] /\ engines'[e] = loaded
      /\ \A d \in EngineIds : d # e => engines'[d] = engines[d]
  BY <1>1, <1>2, <1>5, <1>6 DEF RagTypes
<1>8. /\ fetch' \in [Fetchers -> FetchRecords]
      /\ fetch'[r].stage = "adopt" /\ fetch'[r].eng = e /\ fetch'[r].vectors = 0
      /\ fetch'[r].force = fetch[r].force /\ fetch'[r].since = fetch[r].since
      /\ \A q \in Fetchers : q # r => fetch'[q] = fetch[q]
  BY <1>1, <1>2, <1>4, StageMoved
<1>9. Mine(r)' = loaded /\ loaded.chunks = 0
  BY <1>4, <1>6, <1>7, <1>8 DEF Mine
<1>10. ASSUME NEW q \in Fetchers, q # r, fetch[q].stage \in Reading \cup Building \cup Searching
       PROVE  fetch'[q] = fetch[q] /\ Mine(q)' = Mine(q)
  BY <1>4, <1>7, <1>8, <1>10, EngineOf DEF Mine
<1>11. RagTypes'
  BY <1>1, <1>7, <1>8 DEF RagTypes
<1>12. Counted'
  BY <1>1, <1>2, <1>6, <1>7, <1>8 DEF RagInv, Counted, RagTypes
<1>13. EngineUse'
  <2>1. cached' # 0 => engines'[cached'].chunks # 0
    BY <1>1, <1>4, <1>7 DEF RagInv, EngineUse, RagTypes
  <2>2. Own(r)'
    BY <1>1, <1>4, <1>8 DEF Own
  <2>3. Uses(r)'
    BY <1>2, <1>4, <1>6, <1>8, <1>9, EngineNumbers, Stages DEF Uses
  <2>4. ASSUME NEW q \in Fetchers, q # r
        PROVE  Own(q)' /\ Uses(q)'
    <3>1. Own(q) /\ Uses(q) /\ fetch'[q] = fetch[q]
      BY <1>8, <2>4 DEF RagInv, EngineUse
    <3>2. Own(q)'
      BY <1>1, <1>4, <1>8, <1>10, <2>4, <3>1 DEF Own
    <3>3. Uses(q)'
      BY <1>1, <1>10, <2>4, <3>1, Stages DEF Uses
    <3> QED
      BY <3>2, <3>3
  <2> QED
    BY <2>1, <2>2, <2>3, <2>4 DEF EngineUse
<1>14. Fresh'
  <2> SUFFICES ASSUME NEW s \in Fetchers, fetch'[s].force
               PROVE  FreshFor(s)'
    BY DEF Fresh
  <2>1. FreshFor(s)
    BY <1>8 DEF RagInv, Fresh
  <2>2. CASE s = r
    <3>1. ~Rebuilds(r)' /\ ~Rebuilds(r)
      BY <1>1, <1>8, <1>9, Stages DEF Rebuilds
    <3>2. Target(r)' = Target(r) /\ Target(r) # e
      BY <1>1, <1>4, <3>1 DEF Target
    <3>3. \A q \in Fetchers : fetch'[q].eng = Target(r) => q # r /\ fetch'[q] = fetch[q]
      BY <1>8, <3>2
    <3>4. Target(r) # 0 => engines'[Target(r)] = engines[Target(r)]
      BY <1>1, <1>7, <3>1, <3>2 DEF Target, RagTypes
    <3> QED
      BY <1>8, <2>1, <2>2, <3>1, <3>2, <3>3, <3>4, Stages DEF FreshFor
  <2>3. CASE s # r
    <3>1. fetch'[s] = fetch[s]
      BY <1>8, <2>3
    <3>2. fetch[s].stage \in Building \cup Searching => Mine(s)' = Mine(s)
      BY <1>10, <2>3
    <3>3. Rebuilds(s)' <=> Rebuilds(s)
      BY <3>1, <3>2 DEF Rebuilds
    <3>4. Target(s)' = Target(s) /\ Target(s) # e /\ Target(s) \in {0} \cup EngineIds
      <4>1. cached' = cached /\ cached \in {0} \cup EngineIds /\ fetch[s].eng \in {0} \cup EngineIds
        BY <1>1 DEF RagTypes, FetchRecords
      <4> QED
        BY <1>4, <2>3, <3>1, <3>3, <4>1 DEF Target
    <3>5. ASSUME NEW q \in Fetchers, Target(s)' # 0, fetch'[q].eng = Target(s)',
                 fetch'[q].stage \in Collected
          PROVE  /\ fetch'[q].vectors > fetch'[s].since
                 /\ engines'[Target(s)'].ixChunks > fetch'[s].since
                 /\ fetch'[q].stage = "adoptChunks" => fetch'[q].taken > fetch'[s].since
      <4>1. q # r /\ fetch'[q] = fetch[q]
        BY <1>8, <3>4, <3>5
      <4>2. engines'[Target(s)] = engines[Target(s)]
        BY <1>7, <3>4, <3>5
      <4> QED
        BY <2>1, <3>1, <3>4, <3>5, <4>1, <4>2 DEF FreshFor
    <3> QED
      BY <2>1, <3>1, <3>2, <3>3, <3>5, Stages DEF FreshFor, Rebuilds
  <2> QED
    BY <2>2, <2>3
<1>15. Paired'
  <2> SUFFICES ASSUME ~mixed'
               PROVE  /\ Alone' /\ \A q \in Fetchers : Matched(q)' /\ Straight(q)'
                      /\ DiskPaired' /\ EnginesPaired'
    BY DEF Paired
  <2>1. /\ Alone /\ \A q \in Fetchers : Matched(q) /\ Straight(q)
        /\ DiskPaired /\ EnginesPaired
    BY <1>1 DEF RagInv, Paired
  <2>2. \A q \in Fetchers : q # r => ~Builder(q)
    BY <1>1, <2>1, Stages DEF Alone
  <2>3. Alone'
    BY <1>8, <2>2, Stages DEF Alone, Builder
  <2>4. ASSUME NEW q \in Fetchers
        PROVE  fetch[q].stage \notin Saving
    <3>1. CASE q = r
      BY <1>1, <3>1, Stages
    <3>2. CASE q # r
      BY <2>2, <3>2, Stages DEF Builder
    <3> QED
      BY <3>1, <3>2
  <2>5. disk.index = disk.chunks
    BY <2>1, <2>4 DEF DiskPaired
  <2>6. ASSUME NEW q \in Fetchers
        PROVE  Matched(q)' /\ Straight(q)'
    <3>1. CASE q = r
      BY <1>6, <1>8, <1>9, <2>5, <3>1, Stages DEF Matched, Straight
    <3>2. CASE q # r
      <4>1. Matched(q) /\ Straight(q) /\ fetch'[q] = fetch[q]
        BY <1>8, <2>1, <3>2
      <4>2. fetch[q].stage \in Building \cup Searching => Mine(q)' = Mine(q)
        BY <1>10, <3>2
      <4>3. Matched(q)'
        BY <1>1, <4>1, <4>2, Stages DEF Matched
      <4>4. Straight(q)'
        BY <1>1, <4>1, <4>2, Stages DEF Straight
      <4> QED
        BY <4>3, <4>4
    <3> QED
      BY <3>1, <3>2
  <2>7. DiskPaired'
    BY <1>1, <2>1, <2>4 DEF DiskPaired
  <2>8. EnginesPaired'
    BY <1>1, <1>2, <1>6, <1>7, <1>8, <2>1 DEF EnginesPaired
  <2> QED
    BY <2>3, <2>6, <2>7, <2>8
<1> QED
  BY <1>11, <1>12, <1>13, <1>14, <1>15 DEF RagInv

\* A build has a number of its own, higher than all before.
LEMMA CollectKeeps ==
  ASSUME RagInv, NEW r \in Fetchers, Collect(r)
  PROVE  RagInv'
<1> DEFINE e == fetch[r].eng
           new == [engines[e] EXCEPT !.ixChunks = builds + 1]
<1>1. /\ RagTypes /\ UNCHANGED <<disk, cached, mixed, crossed>> /\ fetch[r].stage = "collect"
      /\ builds' = builds + 1 /\ builds \in Nat /\ "saveIndex" \in FetchStages
      /\ fetch[r] \in FetchRecords
  BY DEF RagInv, Collect, At, RagTypes, FetchStages, Building
<1>2. e \in EngineIds /\ engines[e] \in EngineRecords /\ e = fetch[r].eng
  BY <1>1, EngineOf DEF Building, RagTypes
<1>3. engines' = [engines EXCEPT ![e] = new]
  BY <1>1, <1>2 DEF Collect, RagTypes
<1>4. /\ new \in EngineRecords /\ new.ixIndex = engines[e].ixIndex /\ new.ixChunks = builds + 1
      /\ new.index = engines[e].index /\ new.chunks = engines[e].chunks
  BY <1>1, <1>2 DEF EngineRecords
<1> HIDE DEF e, new
<1>5. /\ engines' \in [EngineIds -> EngineRecords] /\ engines'[e] = new
      /\ \A d \in EngineIds : d # e => engines'[d] = engines[d]
  BY <1>1, <1>2, <1>3, <1>4 DEF RagTypes
<1>6. /\ fetch' \in [Fetchers -> FetchRecords]
      /\ fetch'[r].stage = "saveIndex" /\ fetch'[r].eng = e /\ fetch'[r].vectors = builds + 1
      /\ fetch'[r].force = fetch[r].force /\ fetch'[r].since = fetch[r].since
      /\ fetch'[r].taken = fetch[r].taken
      /\ \A q \in Fetchers : q # r => fetch'[q] = fetch[q]
  <2> DEFINE number == builds + 1
             call == [fetch[r] EXCEPT !.stage = "saveIndex", !.vectors = number]
  <2>1. number \in Nat /\ number = builds + 1
    BY <1>1
  <2> HIDE DEF number
  <2>2. /\ call \in FetchRecords /\ call.stage = "saveIndex" /\ call.eng = fetch[r].eng
        /\ call.vectors = number /\ call.force = fetch[r].force
        /\ call.since = fetch[r].since
        /\ call.taken = fetch[r].taken
    BY <1>1, <2>1 DEF FetchRecords
  <2>3. fetch' = [fetch EXCEPT ![r] = call]
    <3>1. fetch' = [fetch EXCEPT ![r].stage = "saveIndex", ![r].vectors = number]
      BY <1>1, <2>1 DEF Collect
    <3> QED
      BY <1>1, <3>1 DEF RagTypes
  <2> HIDE DEF call
  <2> QED
    BY <1>1, <1>2, <2>2, <2>3, <2>1 DEF RagTypes
<1>7. Mine(r)' = new
  BY <1>5, <1>6 DEF Mine
<1>8. ASSUME NEW q \in Fetchers, fetch[q].stage \in Reading \cup Building \cup Searching
      PROVE  /\ fetch'[q].eng = fetch[q].eng /\ Mine(q)'.index = Mine(q).index
             /\ fetch'[q].taken = fetch[q].taken
             /\ Mine(q)'.chunks = Mine(q).chunks /\ Mine(q)'.ixIndex = Mine(q).ixIndex
             /\ Mine(q)'.ixChunks \in {Mine(q).ixChunks, builds + 1}
  BY <1>2, <1>4, <1>5, <1>6, <1>8, EngineOf DEF Mine
<1>9. \A q \in Fetchers : fetch[q].since \in Nat /\ fetch[q].since <= builds
  BY <1>1 DEF RagInv, Counted, RagTypes, FetchRecords
<1>10. cached # 0 => engines'[cached].chunks = engines[cached].chunks
  BY <1>1, <1>2, <1>4, <1>5 DEF RagTypes
<1>11. RagTypes'
  BY <1>1, <1>5, <1>6 DEF RagTypes
<1>12. Counted'
  <2>1. disk'.index <= builds' /\ disk'.chunks <= builds'
    BY <1>1 DEF RagInv, Counted, RagTypes
  <2>2. \A d \in EngineIds : engines'[d].ixChunks <= builds'
    BY <1>1, <1>4, <1>5 DEF RagInv, Counted, RagTypes, EngineRecords
  <2>3. ASSUME NEW q \in Fetchers
        PROVE  fetch'[q].since <= builds' /\ fetch'[q].vectors <= builds'
    <3>1. /\ fetch[q].since <= builds /\ fetch[q].vectors <= builds
          /\ fetch[q].since \in Nat /\ fetch[q].vectors \in Nat
      BY <1>1 DEF RagInv, Counted, RagTypes, FetchRecords
    <3> QED
      BY <1>1, <1>6, <3>1
  <2> QED
    BY <2>1, <2>2, <2>3 DEF Counted
<1>13. EngineUse'
  <2>1. cached' # 0 => engines'[cached'].chunks # 0
    BY <1>1, <1>10 DEF RagInv, EngineUse
  <2>2. ASSUME NEW q \in Fetchers
        PROVE  Own(q)' /\ Uses(q)'
    <3>1. Own(q) /\ Uses(q)
      BY DEF RagInv, EngineUse
    <3>2. CASE q = r
      <4>1. Own(r)'
        <5>1. \A p \in Fetchers : p # r => fetch'[p].eng = fetch[p].eng
          BY <1>6
        <5> QED
          BY <1>1, <1>2, <1>6, <1>8, <3>1, <3>2, <5>1, Stages DEF Own
      <4>2. Uses(r)'
        BY <1>1, <1>2, <1>4, <1>6, <1>7, EngineNumbers, Stages DEF Uses
      <4> QED
        BY <3>2, <4>1, <4>2
    <3>3. CASE q # r
      <4>1. \A p \in Fetchers : fetch'[p].eng = fetch[p].eng
        BY <1>2, <1>6
      <4>2. fetch'[q] = fetch[q]
        BY <1>6, <3>3
      <4>3. Own(q)'
        BY <1>1, <1>8, <3>1, <4>1, <4>2 DEF Own
      <4>4. Uses(q)'
        BY <1>1, <1>8, <3>1, <4>2, Stages DEF Uses
      <4> QED
        BY <4>3, <4>4
    <3> QED
      BY <3>2, <3>3
  <2> QED
    BY <2>1, <2>2 DEF EngineUse
<1>14. Fresh'
  <2> SUFFICES ASSUME NEW s \in Fetchers, fetch'[s].force
               PROVE  FreshFor(s)'
    BY DEF Fresh
  <2>1. FreshFor(s) /\ fetch'[s].since = fetch[s].since /\ fetch'[s].taken = fetch[s].taken
    BY <1>6 DEF RagInv, Fresh
  <2>2. /\ fetch'[s].stage \in Building \cup Searching <=> fetch[s].stage \in Building \cup Searching
        /\ fetch'[s].eng = fetch[s].eng
    BY <1>1, <1>2, <1>6, Stages
  <2>3. Rebuilds(s)' <=> Rebuilds(s)
    <3>1. fetch[s].stage \in Building \cup Searching => Mine(s)'.chunks = Mine(s).chunks
      BY <1>8
    <3> QED
      BY <2>2, <3>1 DEF Rebuilds
  <2>4. Target(s)' = Target(s) /\ Target(s) \in {0} \cup EngineIds
    <3>1. cached' = cached /\ cached \in {0} \cup EngineIds /\ fetch[s].eng \in {0} \cup EngineIds
      BY <1>1 DEF RagTypes, FetchRecords
    <3> QED
      BY <2>2, <2>3, <3>1 DEF Target
  <2>5. ASSUME NEW q \in Fetchers, Target(s)' # 0, fetch'[q].eng = Target(s)',
               fetch'[q].stage \in Collected
        PROVE  /\ fetch'[q].vectors > fetch'[s].since
               /\ engines'[Target(s)'].ixChunks > fetch'[s].since
               /\ fetch'[q].stage = "adoptChunks" => fetch'[q].taken > fetch'[s].since
    <3>1. builds + 1 > fetch[s].since
      BY <1>1, <1>9
    <3>2. CASE q = r
      <4>1. Target(s) = e
        BY <1>6, <2>4, <2>5, <3>2
      <4> QED
        BY <1>4, <1>5, <1>6, <2>1, <2>4, <3>1, <3>2, <4>1
    <3>3. CASE q # r
      <4>1. /\ fetch'[q] = fetch[q] /\ fetch[q].vectors > fetch[s].since
            /\ engines[Target(s)].ixChunks > fetch[s].since
            /\ fetch[q].stage = "adoptChunks" => fetch[q].taken > fetch[s].since
        BY <1>6, <2>1, <2>4, <2>5, <3>3 DEF FreshFor
      <4>2. engines'[Target(s)].ixChunks > fetch[s].since
        <5>1. CASE Target(s) = e
          BY <1>4, <1>5, <3>1, <5>1
        <5>2. CASE Target(s) # e
          BY <1>5, <2>4, <2>5, <4>1, <5>2
        <5> QED
          BY <5>1, <5>2
      <4> QED
        BY <2>1, <2>4, <4>1, <4>2
    <3> QED
      BY <3>2, <3>3
  <2>6. CASE s = r
    BY <1>6, <2>5, <2>6, Stages DEF FreshFor
  <2>7. CASE s # r
    <3>1. fetch'[s] = fetch[s]
      BY <1>6, <2>7
    <3>2. fetch[s].stage \in Building \cup Searching =>
            /\ Mine(s)'.index = Mine(s).index /\ Mine(s)'.chunks = Mine(s).chunks
            /\ Mine(s)'.ixIndex = Mine(s).ixIndex
      BY <1>8
    <3> QED
      BY <2>1, <2>3, <2>5, <3>1, <3>2, Stages DEF FreshFor, Rebuilds
  <2> QED
    BY <2>6, <2>7
<1>15. Paired'
  <2> SUFFICES ASSUME ~mixed'
               PROVE  /\ Alone' /\ \A q \in Fetchers : Matched(q)' /\ Straight(q)'
                      /\ DiskPaired' /\ EnginesPaired'
    BY DEF Paired
  <2>1. /\ Alone /\ \A q \in Fetchers : Matched(q) /\ Straight(q)
        /\ DiskPaired /\ EnginesPaired
    BY <1>1 DEF RagInv, Paired
  <2>2. \A q \in Fetchers : q # r => fetch[q].stage \notin Building \cup Reading
    BY <1>1, <2>1, Stages DEF Alone, Builder
  <2>3. Alone'
    BY <1>6, <2>2 DEF Alone, Builder
  <2>4. ASSUME NEW q \in Fetchers
        PROVE  Matched(q)' /\ Straight(q)'
    <3>1. CASE q = r
      BY <1>4, <1>6, <1>7, <3>1, Stages DEF Matched, Straight
    <3>2. CASE q # r
      <4>1. fetch'[q] = fetch[q] /\ Straight(q) /\ fetch[q].stage \notin Building
        BY <1>6, <2>1, <2>2, <3>2
      <4>2. fetch[q].stage = "resolve" => Mine(q)'.chunks = Mine(q).chunks
        BY <1>8, Stages
      <4>3. Straight(q)'
        BY <1>1, <4>1, <4>2 DEF Straight
      <4> QED
        BY <4>1, <4>3, Stages DEF Matched
    <3> QED
      BY <3>1, <3>2
  <2>5. DiskPaired'
    BY <1>1, <1>6, <2>1, Stages DEF DiskPaired
  <2>6. EnginesPaired'
    BY <1>1, <1>2, <1>4, <1>5, <1>6, <2>1 DEF EnginesPaired
  <2> QED
    BY <2>3, <2>4, <2>5, <2>6
<1> QED
  BY <1>11, <1>12, <1>13, <1>14, <1>15 DEF RagInv

\* The builds of an engine are as new as they were when nobody collects chunks or joins.
LEMMA BuildsFresh ==
  ASSUME RagTypes, NEW s \in Fetchers, FreshFor(s), fetch'[s].since = fetch[s].since,
         Target(s)' = Target(s),
         \A d \in EngineIds : engines'[d].ixChunks = engines[d].ixChunks,
         \A q \in Fetchers : fetch'[q].stage \in Collected =>
           /\ fetch[q].stage \in Collected
           /\ fetch'[q].eng = fetch[q].eng /\ fetch'[q].vectors = fetch[q].vectors
           /\ fetch'[q].stage = "adoptChunks" =>
                \/ fetch'[q].taken = Mine(q).ixChunks
                \/ fetch[q].stage = "adoptChunks" /\ fetch'[q].taken = fetch[q].taken
  PROVE  \A q \in Fetchers :
           Target(s)' # 0 /\ fetch'[q].eng = Target(s)' /\ fetch'[q].stage \in Collected =>
             /\ fetch'[q].vectors > fetch'[s].since
             /\ engines'[Target(s)'].ixChunks > fetch'[s].since
             /\ fetch'[q].stage = "adoptChunks" => fetch'[q].taken > fetch'[s].since
<1> SUFFICES ASSUME NEW q \in Fetchers, Target(s) # 0, fetch'[q].eng = Target(s),
                    fetch'[q].stage \in Collected
             PROVE  /\ fetch'[q].vectors > fetch[s].since
                    /\ engines'[Target(s)].ixChunks > fetch[s].since
                    /\ fetch'[q].stage = "adoptChunks" => fetch'[q].taken > fetch[s].since
  OBVIOUS
<1>1. /\ fetch[q].stage \in Collected /\ fetch[q].eng = Target(s)
      /\ fetch'[q].vectors = fetch[q].vectors
      /\ fetch'[q].stage = "adoptChunks" =>
           \/ fetch'[q].taken = Mine(q).ixChunks
           \/ fetch[q].stage = "adoptChunks" /\ fetch'[q].taken = fetch[q].taken
  OBVIOUS
<1>2. /\ fetch[q].vectors > fetch[s].since /\ engines[Target(s)].ixChunks > fetch[s].since
      /\ fetch[q].stage = "adoptChunks" => fetch[q].taken > fetch[s].since
  BY <1>1 DEF FreshFor
<1>3. Target(s) \in EngineIds
  BY <1>1 DEF RagTypes, FetchRecords
<1>4. engines'[Target(s)].ixChunks = engines[Target(s)].ixChunks
      /\ Mine(q).ixChunks = engines[Target(s)].ixChunks
  BY <1>1, <1>3 DEF Mine
<1> QED
  BY <1>1, <1>2, <1>4

\* What is saved is what was collected, by whoever shares the engine.
LEMMA OpenIndexKeeps ==
  ASSUME RagInv, NEW r \in Fetchers, OpenIndex(r)
  PROVE  RagInv'
<1> DEFINE e == fetch[r].eng
           v == fetch[r].vectors
           new == [engines[e] EXCEPT !.ixIndex = v]
<1>1. /\ RagTypes /\ UNCHANGED <<cached, builds, mixed, crossed>> /\ fetch[r].stage = "saveIndex"
      /\ Move(r, "writeIndex") /\ "writeIndex" \in FetchStages
      /\ disk' = [disk EXCEPT !.torn = @ \cup {"index"}, !.index = v]
  BY Stages DEF RagInv, OpenIndex, At
<1>2. /\ e \in EngineIds /\ engines[e] \in EngineRecords /\ e = fetch[r].eng /\ v = fetch[r].vectors
      /\ v \in Nat /\ v # 0 /\ v <= builds
  <2>1. v \in Nat /\ v <= builds
    BY <1>1 DEF RagInv, RagTypes, Counted, FetchRecords
  <2>2. v # 0
    BY <1>1, Stages DEF RagInv, EngineUse, Uses
  <2> QED
    BY <1>1, <2>1, <2>2, EngineOf, Stages DEF RagTypes
<1>3. engines' = [engines EXCEPT ![e] = new]
  BY <1>1, <1>2 DEF OpenIndex, RagTypes
<1>4. /\ new \in EngineRecords /\ new.ixIndex = v /\ new.ixChunks = engines[e].ixChunks
      /\ new.index = engines[e].index /\ new.chunks = engines[e].chunks
  BY <1>1, <1>2 DEF EngineRecords
<1> HIDE DEF e, v, new
<1>5. /\ engines' \in [EngineIds -> EngineRecords] /\ engines'[e] = new
      /\ \A d \in EngineIds : d # e => engines'[d] = engines[d]
  BY <1>1, <1>2, <1>3, <1>4 DEF RagTypes
<1>6. /\ fetch' \in [Fetchers -> FetchRecords]
      /\ fetch'[r].stage = "writeIndex" /\ fetch'[r].eng = e /\ fetch'[r].vectors = v
      /\ fetch'[r].force = fetch[r].force /\ fetch'[r].since = fetch[r].since
      /\ fetch'[r].taken = fetch[r].taken
      /\ \A q \in Fetchers : q # r => fetch'[q] = fetch[q]
  BY <1>1, <1>2, StageMoved
<1>7. /\ disk' \in [index : Nat, chunks : Nat, torn : SUBSET {"index", "chunks"}] /\ disk'.index = v
      /\ disk'.chunks = disk.chunks /\ disk'.torn = disk.torn \cup {"index"}
  BY <1>1, <1>2 DEF RagTypes
<1>8. Mine(r)' = new /\ Mine(r) = engines[e]
  BY <1>2, <1>5, <1>6 DEF Mine
<1>9. ASSUME NEW q \in Fetchers, fetch[q].stage \in Reading \cup Building \cup Searching
      PROVE  /\ fetch'[q].eng = fetch[q].eng /\ Mine(q)'.index = Mine(q).index
             /\ Mine(q)'.chunks = Mine(q).chunks /\ Mine(q)'.ixChunks = Mine(q).ixChunks
             /\ Mine(q)'.ixIndex = IF fetch[q].eng = e THEN v ELSE Mine(q).ixIndex
  BY <1>2, <1>4, <1>5, <1>6, <1>9, EngineOf DEF Mine
<1>10. cached # 0 => engines'[cached].chunks = engines[cached].chunks
  BY <1>1, <1>2, <1>4, <1>5 DEF RagTypes
<1>11. RagTypes'
  BY <1>1, <1>5, <1>6, <1>7 DEF RagTypes
<1>12. Counted'
  <2>1. \A d \in EngineIds : engines'[d].ixChunks <= builds
    BY <1>2, <1>4, <1>5 DEF RagInv, Counted
  <2> QED
    BY <1>1, <1>2, <1>6, <1>7, <2>1 DEF RagInv, Counted
<1>13. EngineUse'
  <2>1. cached' # 0 => engines'[cached'].chunks # 0
    BY <1>1, <1>10 DEF RagInv, EngineUse
  <2>2. ASSUME NEW q \in Fetchers
        PROVE  Own(q)' /\ Uses(q)'
    <3>1. Own(q) /\ Uses(q)
      BY DEF RagInv, EngineUse
    <3>2. \A p \in Fetchers : fetch'[p].eng = fetch[p].eng
      BY <1>2, <1>6
    <3>3. CASE q = r
      <4>1. Own(r)'
        BY <1>1, <1>9, <3>1, <3>2, <3>3, Stages DEF Own
      <4>2. Uses(r)'
        <5>1. engines[e].ixChunks # 0
          BY <1>1, <1>8, <3>1, <3>3, Stages DEF Uses
        <5> QED
          BY <1>1, <1>2, <1>4, <1>6, <1>8, <5>1, EngineNumbers, Stages DEF Uses
      <4> QED
        BY <3>3, <4>1, <4>2
    <3>4. CASE q # r
      <4>1. fetch'[q] = fetch[q]
        BY <1>6, <3>4
      <4>2. Own(q)'
        BY <1>1, <1>9, <3>1, <3>2, <4>1 DEF Own
      <4>3. Uses(q)'
        BY <1>2, <1>7, <1>9, <3>1, <4>1, Stages DEF Uses
      <4> QED
        BY <4>2, <4>3
    <3> QED
      BY <3>3, <3>4
  <2> QED
    BY <2>1, <2>2 DEF EngineUse
<1>14. Fresh'
  <2> SUFFICES ASSUME NEW s \in Fetchers, fetch'[s].force
               PROVE  FreshFor(s)'
    BY DEF Fresh
  <2>1. /\ FreshFor(s) /\ fetch'[s].since = fetch[s].since /\ fetch'[s].eng = fetch[s].eng
        /\ fetch'[s].taken = fetch[s].taken
    BY <1>2, <1>6 DEF RagInv, Fresh
  <2>2. /\ fetch'[s].stage \in Building \cup Searching <=> fetch[s].stage \in Building \cup Searching
        /\ fetch'[s].stage \in Searching => fetch'[s] = fetch[s]
        /\ fetch'[s].stage \in {"adopt", "adoptChunks"} => fetch'[s] = fetch[s]
    BY <1>1, <1>6, Stages
  <2>3. Rebuilds(s)' <=> Rebuilds(s)
    <3>1. fetch[s].stage \in Building \cup Searching => Mine(s)'.chunks = Mine(s).chunks
      BY <1>9
    <3> QED
      BY <2>2, <3>1 DEF Rebuilds
  <2>4. Target(s)' = Target(s)
    <3>1. cached' = cached
      BY <1>1
    <3> QED
      BY <2>1, <2>3, <3>1 DEF Target
  <2>5. \A d \in EngineIds : engines'[d].ixChunks = engines[d].ixChunks
    BY <1>2, <1>4, <1>5
  <2>6. \A q \in Fetchers : fetch'[q].stage \in Collected =>
          /\ fetch[q].stage \in Collected
          /\ fetch'[q].eng = fetch[q].eng /\ fetch'[q].vectors = fetch[q].vectors
          /\ fetch'[q].stage = "adoptChunks" =>
               fetch[q].stage = "adoptChunks" /\ fetch'[q].taken = fetch[q].taken
    BY <1>1, <1>2, <1>6, Stages
  <2>7. \A q \in Fetchers :
          Target(s)' # 0 /\ fetch'[q].eng = Target(s)' /\ fetch'[q].stage \in Collected =>
            /\ fetch'[q].vectors > fetch'[s].since
            /\ engines'[Target(s)'].ixChunks > fetch'[s].since
            /\ fetch'[q].stage = "adoptChunks" => fetch'[q].taken > fetch'[s].since
    BY <1>1, <2>1, <2>4, <2>5, <2>6, BuildsFresh
  <2>8. Rebuilds(s) /\ fetch[s].eng = e => v > fetch[s].since
    BY <1>1, <1>2, <2>1, EngineNumbers, Stages DEF FreshFor, Target
  <2>9. CASE s = r
    BY <1>4, <1>6, <1>8, <2>1, <2>3, <2>7, <2>8, <2>9, Stages DEF FreshFor
  <2>10. CASE s # r
    <3>1. fetch'[s] = fetch[s]
      BY <1>6, <2>10
    <3>2. fetch[s].stage \in Building \cup Searching =>
            /\ Mine(s)'.index = Mine(s).index /\ Mine(s)'.chunks = Mine(s).chunks
            /\ Mine(s)'.ixIndex = IF fetch[s].eng = e THEN v ELSE Mine(s).ixIndex
      BY <1>9
    <3> QED
      BY <2>1, <2>3, <2>7, <2>8, <3>1, <3>2, Stages DEF FreshFor, Rebuilds
  <2> QED
    BY <2>9, <2>10
<1>15. Paired'
  <2> SUFFICES ASSUME ~mixed'
               PROVE  /\ Alone' /\ \A q \in Fetchers : Matched(q)' /\ Straight(q)'
                      /\ DiskPaired' /\ EnginesPaired'
    BY DEF Paired
  <2>1. /\ Alone /\ \A q \in Fetchers : Matched(q) /\ Straight(q)
        /\ DiskPaired /\ EnginesPaired
    BY <1>1 DEF RagInv, Paired
  <2>2. \A q \in Fetchers : q # r => fetch[q].stage \notin Building \cup Reading
    BY <1>1, <2>1, Stages DEF Alone, Builder
  <2>3. Alone'
    BY <1>6, <2>2 DEF Alone, Builder
  <2>4. disk.torn = {}
    BY <1>1, <2>1, <2>2, Stages DEF DiskPaired
  <2>5. ASSUME NEW q \in Fetchers
        PROVE  Matched(q)' /\ Straight(q)'
    <3>1. CASE q = r
      <4>1. engines[e].ixChunks = v
        BY <1>1, <1>2, <1>8, <2>1 DEF Matched
      <4> QED
        BY <1>4, <1>6, <1>7, <1>8, <2>4, <3>1, <4>1, Stages DEF Matched, Straight
    <3>2. CASE q # r
      <4>1. fetch'[q] = fetch[q] /\ Straight(q) /\ fetch[q].stage \notin Building
        BY <1>6, <2>1, <2>2, <3>2
      <4>2. fetch[q].stage = "resolve" => Mine(q)'.chunks = Mine(q).chunks
        BY <1>9, Stages
      <4>3. Straight(q)'
        BY <1>1, <4>1, <4>2 DEF Straight
      <4> QED
        BY <4>1, <4>3, Stages DEF Matched
    <3> QED
      BY <3>1, <3>2
  <2>6. DiskPaired'
    BY <1>6, Stages DEF DiskPaired
  <2>7. EnginesPaired'
    BY <1>1, <1>2, <1>4, <1>5, <1>6, <2>1 DEF EnginesPaired
  <2> QED
    BY <2>3, <2>5, <2>6, <2>7
<1> QED
  BY <1>11, <1>12, <1>13, <1>14, <1>15 DEF RagInv

\* The vectors of an engine are replaced first, and its chunks are on their way.
LEMMA AdoptIndexKeeps ==
  ASSUME RagInv, NEW r \in Fetchers, AdoptIndex(r)
  PROVE  RagInv'
<1> DEFINE e == fetch[r].eng
           new == [engines[e] EXCEPT !.index = engines[e].ixIndex]
<1>1. /\ RagTypes /\ UNCHANGED <<disk, cached, builds, mixed, crossed>> /\ fetch[r].stage = "adopt"
      /\ "adoptChunks" \in FetchStages
  BY Stages DEF RagInv, AdoptIndex, At
<1>2. e \in EngineIds /\ engines[e] \in EngineRecords /\ e = fetch[r].eng /\ engines[e] = Mine(r)
  BY <1>1, EngineOf, Stages DEF RagTypes
<1>3. engines' = [engines EXCEPT ![e] = new]
  BY <1>1, <1>2 DEF AdoptIndex, RagTypes
<1>4. /\ new \in EngineRecords /\ new.ixIndex = engines[e].ixIndex /\ new.ixChunks = engines[e].ixChunks
      /\ new.index = engines[e].ixIndex /\ new.chunks = engines[e].chunks
  BY <1>1, <1>2 DEF EngineRecords
<1>5. PICK taken \in Nat : taken = engines[e].ixChunks
  BY <1>2 DEF EngineRecords
<1>20. fetch' = [fetch EXCEPT ![r].stage = "adoptChunks", ![r].taken = taken]
  BY <1>2, <1>5 DEF AdoptIndex
<1> HIDE DEF e, new
<1>6. /\ engines' \in [EngineIds -> EngineRecords] /\ engines'[e] = new
      /\ \A d \in EngineIds : d # e => engines'[d] = engines[d]
  BY <1>1, <1>2, <1>3, <1>4 DEF RagTypes
<1>7. /\ fetch' \in [Fetchers -> FetchRecords]
      /\ fetch'[r].stage = "adoptChunks" /\ fetch'[r].taken = taken
      /\ fetch'[r].eng = fetch[r].eng /\ fetch[r].eng = e
      /\ fetch'[r].vectors = fetch[r].vectors
      /\ fetch'[r].force = fetch[r].force /\ fetch'[r].since = fetch[r].since
      /\ \A q \in Fetchers : q # r => fetch'[q] = fetch[q]
  <2>1. RagTypes /\ "adoptChunks" \in FetchStages /\ e = fetch[r].eng
    BY <1>1, <1>2
  <2>2. /\ fetch' \in [Fetchers -> FetchRecords]
        /\ fetch'[r].stage = "adoptChunks" /\ fetch'[r].taken = taken /\ fetch'[r].eng = fetch[r].eng
        /\ fetch'[r].vectors = fetch[r].vectors
        /\ fetch'[r].force = fetch[r].force /\ fetch'[r].since = fetch[r].since
        /\ \A q \in Fetchers : q # r => fetch'[q] = fetch[q]
    BY <2>1, <1>20, Took
  <2> QED
    BY <2>1, <2>2
<1>8. Mine(r)' = new /\ Mine(r) = engines[e]
  BY <1>2, <1>6, <1>7 DEF Mine
<1>9. /\ Own(r) /\ Uses(r) /\ taken # 0
      /\ fetch[r].vectors = 0 => /\ new.chunks = 0 /\ cached # e
                                 /\ \A q \in Fetchers : q # r => fetch[q].eng # e
  <2>1. Own(r) /\ Uses(r)
    BY DEF RagInv, EngineUse
  <2> QED
    BY <1>1, <1>2, <1>4, <1>5, <1>8, <2>1, Stages DEF Uses, Own
<1>10. ASSUME NEW q \in Fetchers, fetch[q].stage \in Reading \cup Building \cup Searching
       PROVE  /\ fetch'[q].eng = fetch[q].eng /\ Mine(q)'.ixIndex = Mine(q).ixIndex
              /\ Mine(q)'.ixChunks = Mine(q).ixChunks /\ Mine(q)'.chunks = Mine(q).chunks
              /\ Mine(q)'.index = IF fetch[q].eng = e THEN Mine(q).ixIndex ELSE Mine(q).index
  BY <1>2, <1>4, <1>6, <1>7, <1>10, EngineOf DEF Mine
<1>11. cached # 0 => engines'[cached].chunks = engines[cached].chunks
  BY <1>1, <1>2, <1>4, <1>6 DEF RagTypes
<1>12. RagTypes'
  BY <1>1, <1>6, <1>7 DEF RagTypes
<1>13. Counted'
  <2>1. \A d \in EngineIds : engines'[d].ixChunks <= builds
    BY <1>2, <1>4, <1>6 DEF RagInv, Counted
  <2> QED
    BY <1>1, <1>7, <2>1 DEF RagInv, Counted
<1>14. EngineUse'
  <2>1. cached' # 0 => engines'[cached'].chunks # 0
    BY <1>1, <1>11 DEF RagInv, EngineUse
  <2>2. ASSUME NEW q \in Fetchers
        PROVE  Own(q)' /\ Uses(q)'
    <3>1. Own(q) /\ Uses(q)
      BY DEF RagInv, EngineUse
    <3>2. \A p \in Fetchers : fetch'[p].eng = fetch[p].eng
      BY <1>2, <1>7
    <3>3. CASE q = r
      <4>1. Own(r)'
        BY <1>1, <1>10, <3>1, <3>2, <3>3, Stages DEF Own
      <4>2. Uses(r)'
        <5>1. engines[e].ixChunks # 0
          BY <1>5, <1>9
        <5> QED
          BY <1>1, <1>2, <1>4, <1>7, <1>8, <1>9, <5>1, EngineNumbers, Stages DEF Uses
      <4> QED
        BY <3>3, <4>1, <4>2
    <3>4. CASE q # r
      <4>1. fetch'[q] = fetch[q]
        BY <1>7, <3>4
      <4>2. Own(q)'
        BY <1>1, <1>10, <3>1, <3>2, <4>1 DEF Own
      <4>3. Uses(q)'
        BY <1>1, <1>10, <3>1, <4>1, Stages DEF Uses
      <4> QED
        BY <4>2, <4>3
    <3> QED
      BY <3>3, <3>4
  <2> QED
    BY <2>1, <2>2 DEF EngineUse
<1>15. Fresh'
  <2> SUFFICES ASSUME NEW s \in Fetchers, fetch'[s].force
               PROVE  FreshFor(s)'
    BY DEF Fresh
  <2>1. FreshFor(s) /\ fetch'[s].since = fetch[s].since /\ fetch'[s].eng = fetch[s].eng
    BY <1>2, <1>7 DEF RagInv, Fresh
  <2>2. fetch'[s].stage \in Building \cup Searching <=> fetch[s].stage \in Building \cup Searching
    BY <1>1, <1>7, Stages
  <2>3. Rebuilds(s)' <=> Rebuilds(s)
    <3>1. fetch[s].stage \in Building \cup Searching => Mine(s)'.chunks = Mine(s).chunks
      BY <1>10
    <3> QED
      BY <2>2, <3>1 DEF Rebuilds
  <2>4. Target(s)' = Target(s)
    <3>1. cached' = cached
      BY <1>1
    <3> QED
      BY <2>1, <2>3, <3>1 DEF Target
  <2>5. \A d \in EngineIds : engines'[d].ixChunks = engines[d].ixChunks
    BY <1>2, <1>4, <1>6
  <2>6. \A q \in Fetchers : fetch'[q].stage \in Collected =>
          /\ fetch[q].stage \in Collected
          /\ fetch'[q].eng = fetch[q].eng /\ fetch'[q].vectors = fetch[q].vectors
          /\ fetch'[q].stage = "adoptChunks" =>
               \/ fetch'[q].taken = Mine(q).ixChunks
               \/ fetch[q].stage = "adoptChunks" /\ fetch'[q].taken = fetch[q].taken
    BY <1>1, <1>2, <1>5, <1>7, <1>8, Stages
  <2>7. \A q \in Fetchers :
          Target(s)' # 0 /\ fetch'[q].eng = Target(s)' /\ fetch'[q].stage \in Collected =>
            /\ fetch'[q].vectors > fetch'[s].since
            /\ engines'[Target(s)'].ixChunks > fetch'[s].since
            /\ fetch'[q].stage = "adoptChunks" => fetch'[q].taken > fetch'[s].since
    BY <1>1, <2>1, <2>4, <2>5, <2>6, BuildsFresh
  <2>8. CASE s = r
    <3>1. Rebuilds(r) => engines[e].ixIndex > fetch[r].since
      BY <1>1, <1>8, <2>1, <2>8, Stages DEF FreshFor
    <3> QED
      BY <1>4, <1>7, <1>8, <2>1, <2>3, <2>7, <2>8, <3>1, Stages DEF FreshFor
  <2>9. CASE s # r
    <3>1. fetch'[s] = fetch[s]
      BY <1>7, <2>9
    <3>2. fetch[s].stage \in Building \cup Searching =>
            /\ Mine(s)'.ixIndex = Mine(s).ixIndex /\ Mine(s)'.chunks = Mine(s).chunks
            /\ Mine(s)'.index \in {Mine(s).index, Mine(s).ixIndex}
      BY <1>10
    <3> QED
      BY <2>1, <2>3, <2>7, <3>1, <3>2, Stages DEF FreshFor, Rebuilds
  <2> QED
    BY <2>8, <2>9
<1>16. Paired'
  <2> SUFFICES ASSUME ~mixed'
               PROVE  /\ Alone' /\ \A q \in Fetchers : Matched(q)' /\ Straight(q)'
                      /\ DiskPaired' /\ EnginesPaired'
    BY DEF Paired
  <2>1. /\ Alone /\ \A q \in Fetchers : Matched(q) /\ Straight(q)
        /\ DiskPaired /\ EnginesPaired
    BY <1>1 DEF RagInv, Paired
  <2>2. Alone'
    BY <1>1, <1>7, <2>1, Stages DEF Alone, Builder
  <2>3. ASSUME NEW q \in Fetchers
        PROVE  Matched(q)' /\ Straight(q)'
    <3>1. CASE q = r
      <4>1. engines[e].ixIndex = engines[e].ixChunks
        BY <1>1, <1>8, <2>1 DEF Matched
      <4> QED
        BY <1>4, <1>5, <1>7, <1>8, <3>1, <4>1, Stages DEF Matched, Straight
    <3>2. CASE q # r
      <4>1. Matched(q) /\ Straight(q) /\ fetch'[q] = fetch[q]
        BY <1>7, <2>1, <3>2
      <4>2. fetch[q].stage \in Building => fetch[q].eng # e
        <5>1. CASE fetch[r].vectors = 0
          BY <1>9, <3>2, <5>1
        <5>2. CASE fetch[r].vectors # 0
          BY <1>1, <2>1, <3>2, <5>2, Stages DEF Alone, Builder
        <5> QED
          BY <5>1, <5>2
      <4>3. fetch[q].stage \in Building \cup Searching =>
              /\ Mine(q)'.ixIndex = Mine(q).ixIndex /\ Mine(q)'.ixChunks = Mine(q).ixChunks
              /\ Mine(q)'.chunks = Mine(q).chunks
              /\ fetch[q].eng # e => Mine(q)'.index = Mine(q).index
        BY <1>10
      <4>4. Matched(q)'
        BY <1>1, <4>1, <4>2, <4>3, Stages DEF Matched
      <4>5. Straight(q)'
        BY <1>1, <4>1, <4>3, Stages DEF Straight
      <4> QED
        BY <4>4, <4>5
    <3> QED
      BY <3>1, <3>2
  <2>4. DiskPaired'
    BY <1>1, <1>7, <2>1, Stages DEF DiskPaired
  <2>5. EnginesPaired'
    <3> SUFFICES ASSUME NEW d \in EngineIds,
                        \A q \in Fetchers : ~(fetch'[q].stage = "adoptChunks" /\ fetch'[q].eng = d)
                 PROVE  engines'[d].index = engines'[d].chunks
      BY DEF EnginesPaired
    <3>1. d # e /\ engines'[d] = engines[d]
      BY <1>6, <1>7
    <3>2. \A q \in Fetchers : ~(fetch[q].stage = "adoptChunks" /\ fetch[q].eng = d)
      BY <1>1, <1>7
    <3> QED
      BY <2>1, <3>1, <3>2 DEF EnginesPaired
  <2> QED
    BY <2>2, <2>3, <2>4, <2>5
<1> QED
  BY <1>12, <1>13, <1>14, <1>15, <1>16 DEF RagInv

\* A search takes the vectors as they are, and knows when the chunks are still to come.
LEMMA SearchIndexKeeps ==
  ASSUME RagInv, NEW r \in Fetchers, SearchIndex(r)
  PROVE  RagInv'
<1>1. /\ RagTypes /\ UNCHANGED <<disk, engines, cached, builds, mixed>> /\ fetch[r].stage = "search"
      /\ "resolve" \in FetchStages
  BY Stages DEF RagInv, SearchIndex, At
<1>2. /\ crossed' \subseteq Fetchers /\ \A q \in Fetchers : q # r => (q \in crossed' <=> q \in crossed)
      /\ r \notin crossed' => \A q \in Fetchers : q # r =>
                                ~(fetch[q].stage = "adoptChunks" /\ fetch[q].eng = fetch[r].eng)
  <2>1. crossed \subseteq Fetchers
    BY <1>1 DEF RagTypes
  <2> QED
    BY <2>1 DEF SearchIndex, Beside, At
<1>3. fetch[r].eng \in EngineIds /\ Mine(r) \in EngineRecords /\ Mine(r) = engines[fetch[r].eng]
  BY <1>1, EngineOf, Stages
<1>4. PICK taken \in Nat : taken = Mine(r).index
  BY <1>3 DEF EngineRecords
<1>20. fetch' = [fetch EXCEPT ![r].stage = "resolve", ![r].taken = taken]
  BY <1>4 DEF SearchIndex
<1>5. /\ fetch' \in [Fetchers -> FetchRecords]
      /\ fetch'[r].stage = "resolve" /\ fetch'[r].taken = taken /\ fetch'[r].eng = fetch[r].eng
      /\ fetch'[r].vectors = fetch[r].vectors
      /\ fetch'[r].force = fetch[r].force /\ fetch'[r].since = fetch[r].since
      /\ \A q \in Fetchers : q # r => fetch'[q] = fetch[q]
  BY <1>1, <1>20, Took
<1>6. \A q \in Fetchers : Mine(q)' = Mine(q) /\ fetch'[q].eng = fetch[q].eng
  BY <1>1, <1>5 DEF Mine
<1>7. RagTypes'
  BY <1>1, <1>2, <1>5 DEF RagTypes
<1>8. Counted'
  BY <1>1, <1>5 DEF RagInv, Counted
<1>9. EngineUse'
  <2> SUFFICES ASSUME NEW q \in Fetchers
               PROVE  Own(q)' /\ Uses(q)'
    BY <1>1 DEF RagInv, EngineUse
  <2>1. Own(q) /\ Uses(q)
    BY DEF RagInv, EngineUse
  <2>2. CASE q = r
    BY <1>1, <1>5, <1>6, <2>1, <2>2, Stages DEF Own, Uses
  <2>3. CASE q # r
    <3>1. fetch'[q] = fetch[q]
      BY <1>5, <2>3
    <3>2. Own(q)'
      BY <1>1, <1>6, <2>1, <3>1 DEF Own
    <3>3. Uses(q)'
      BY <1>1, <1>6, <2>1, <3>1 DEF Uses
    <3> QED
      BY <3>2, <3>3
  <2> QED
    BY <2>2, <2>3
<1>10. Fresh'
  <2> SUFFICES ASSUME NEW s \in Fetchers, fetch'[s].force
               PROVE  FreshFor(s)'
    BY DEF Fresh
  <2>1. FreshFor(s) /\ Uses(s) /\ fetch'[s].since = fetch[s].since
    BY <1>5 DEF RagInv, Fresh, EngineUse
  <2>2. Rebuilds(s)' <=> Rebuilds(s)
    BY <1>1, <1>5, <1>6, Stages DEF Rebuilds
  <2>3. Target(s)' = Target(s)
    <3>1. cached' = cached
      BY <1>1
    <3> QED
      BY <1>6, <2>2, <3>1 DEF Target
  <2>4. \A q \in Fetchers : fetch'[q].stage \in Collected =>
          /\ fetch[q].stage \in Collected
          /\ fetch'[q].eng = fetch[q].eng /\ fetch'[q].vectors = fetch[q].vectors
          /\ fetch'[q].stage = "adoptChunks" =>
               fetch[q].stage = "adoptChunks" /\ fetch'[q].taken = fetch[q].taken
    BY <1>5, Stages
  <2>5. \A q \in Fetchers :
          Target(s)' # 0 /\ fetch'[q].eng = Target(s)' /\ fetch'[q].stage \in Collected =>
            /\ fetch'[q].vectors > fetch'[s].since
            /\ engines'[Target(s)'].ixChunks > fetch'[s].since
            /\ fetch'[q].stage = "adoptChunks" => fetch'[q].taken > fetch'[s].since
    BY <1>1, <2>1, <2>3, <2>4, BuildsFresh
  <2>6. CASE s = r
    <3>1. Rebuilds(r)
      BY <1>1, <2>1, <2>6, Stages DEF Rebuilds, Uses
    <3>2. /\ Mine(r).index > fetch[r].since /\ Mine(r).ixIndex > fetch[r].since
          /\ Mine(r).chunks > fetch[r].since
      BY <1>1, <2>1, <2>6, <3>1, Stages DEF FreshFor
    <3> QED
      BY <1>4, <1>5, <1>6, <2>1, <2>5, <2>6, <3>2, Stages DEF FreshFor
  <2>7. CASE s # r
    BY <1>5, <1>6, <2>1, <2>2, <2>5, <2>7 DEF FreshFor
  <2> QED
    BY <2>6, <2>7
<1>11. Paired'
  <2> SUFFICES ASSUME ~mixed'
               PROVE  /\ Alone' /\ \A q \in Fetchers : Matched(q)' /\ Straight(q)'
                      /\ DiskPaired' /\ EnginesPaired'
    BY DEF Paired
  <2>1. /\ Alone /\ \A q \in Fetchers : Matched(q) /\ Straight(q)
        /\ DiskPaired /\ EnginesPaired
    BY <1>1 DEF RagInv, Paired
  <2>2. Alone'
    BY <1>5, <2>1, Stages DEF Alone, Builder
  <2>3. ASSUME NEW q \in Fetchers
        PROVE  Matched(q)' /\ Straight(q)'
    <3>1. CASE q = r
      <4>1. r \notin crossed' => Mine(r).index = Mine(r).chunks
        BY <1>1, <1>2, <1>3, <2>1 DEF EnginesPaired
      <4> QED
        BY <1>4, <1>5, <1>6, <3>1, <4>1, Stages DEF Matched, Straight
    <3>2. CASE q # r
      <4>1. Matched(q) /\ Straight(q) /\ fetch'[q] = fetch[q]
        BY <1>5, <2>1, <3>2
      <4>2. Matched(q)'
        BY <1>1, <1>6, <4>1 DEF Matched
      <4>3. Straight(q)'
        BY <1>2, <1>6, <3>2, <4>1 DEF Straight
      <4> QED
        BY <4>2, <4>3
    <3> QED
      BY <3>1, <3>2
  <2>4. DiskPaired'
    BY <1>1, <1>5, <2>1, Stages DEF DiskPaired
  <2>5. EnginesPaired'
    BY <1>1, <1>5, <2>1 DEF EnginesPaired
  <2> QED
    BY <2>2, <2>3, <2>4, <2>5
<1> QED
  BY <1>7, <1>8, <1>9, <1>10, <1>11 DEF RagInv

\* An engine gets its first index alone and goes to the cache with it; a rebuilt one is
\* searched, and the searches that have its old chunks in view are known.
LEMMA AdoptChunksKeeps ==
  ASSUME RagInv, NEW r \in Fetchers, AdoptChunks(r)
  PROVE  RagInv'
<1> DEFINE e == fetch[r].eng
           new == [engines[e] EXCEPT !.chunks = fetch[r].taken]
           next == IF engines[e].chunks = 0 THEN "return" ELSE "search"
<1>1. /\ RagTypes /\ UNCHANGED <<disk, builds, mixed>> /\ fetch[r].stage = "adoptChunks"
      /\ fetch[r] \in FetchRecords
  BY DEF RagInv, AdoptChunks, At, RagTypes
<1>2. e \in EngineIds /\ engines[e] \in EngineRecords /\ e = fetch[r].eng /\ engines[e] = Mine(r)
  BY <1>1, EngineOf, Stages DEF RagTypes
<1>3. engines' = [engines EXCEPT ![e] = new]
  BY <1>1, <1>2 DEF AdoptChunks, RagTypes
<1>4. /\ new \in EngineRecords /\ new.ixIndex = engines[e].ixIndex /\ new.ixChunks = engines[e].ixChunks
      /\ new.index = engines[e].index /\ new.chunks = fetch[r].taken
  BY <1>1, <1>2 DEF EngineRecords, FetchRecords
<1>5. /\ Move(r, next) /\ cached' = (IF engines[e].chunks = 0 THEN e ELSE cached)
      /\ next \in FetchStages /\ next \in {"return", "search"}
      /\ next = "search" <=> engines[e].chunks # 0
  BY <1>2, Stages DEF AdoptChunks, AfterAdopt
<1>6. /\ crossed' \subseteq Fetchers
      /\ \A q \in Fetchers : q \notin crossed' /\ q # r /\ fetch[q].stage = "resolve" =>
           q \notin crossed /\ fetch[q].eng # e
  <2>1. crossed \subseteq Fetchers
    BY <1>1 DEF RagTypes
  <2> QED
    BY <1>2, <2>1 DEF AdoptChunks, Beside, At
<1> HIDE DEF e, new, next
<1>7. /\ engines' \in [EngineIds -> EngineRecords] /\ engines'[e] = new
      /\ \A d \in EngineIds : d # e => engines'[d] = engines[d]
  BY <1>1, <1>2, <1>3, <1>4 DEF RagTypes
<1>8. /\ fetch' \in [Fetchers -> FetchRecords]
      /\ fetch'[r].stage = next /\ fetch'[r].eng = e /\ fetch'[r].vectors = fetch[r].vectors
      /\ fetch'[r].force = fetch[r].force /\ fetch'[r].since = fetch[r].since
      /\ \A q \in Fetchers : q # r => fetch'[q] = fetch[q]
  BY <1>1, <1>2, <1>5, StageMoved
<1>9. Mine(r)' = new /\ Mine(r) = engines[e]
  BY <1>2, <1>7, <1>8 DEF Mine
<1>10. /\ Own(r) /\ Uses(r) /\ new.chunks # 0
       /\ engines[e].chunks = 0 => \A q \in Fetchers : q # r => fetch[q].eng # e
  <2>1. Own(r) /\ Uses(r)
    BY DEF RagInv, EngineUse
  <2> QED
    BY <1>1, <1>2, <1>4, <1>9, <2>1, Stages DEF Uses, Own
<1>11. ASSUME NEW q \in Fetchers, fetch[q].stage \in Reading \cup Building \cup Searching
       PROVE  /\ fetch'[q].eng = fetch[q].eng /\ Mine(q)'.ixIndex = Mine(q).ixIndex
              /\ Mine(q)'.ixChunks = Mine(q).ixChunks /\ Mine(q)'.index = Mine(q).index
              /\ fetch[q].eng # e => Mine(q)' = Mine(q)
              /\ fetch[q].eng = e => Mine(q)' = new /\ Mine(q) = engines[e]
  BY <1>2, <1>4, <1>7, <1>8, <1>11, EngineOf DEF Mine
<1>12. cached' \in {0} \cup EngineIds /\ (cached' # 0 => engines'[cached'].chunks # 0)
  BY <1>1, <1>2, <1>5, <1>7, <1>10 DEF RagInv, EngineUse, RagTypes
<1>13. RagTypes'
  BY <1>1, <1>6, <1>7, <1>8, <1>12 DEF RagTypes
<1>14. Counted'
  <2>1. \A d \in EngineIds : engines'[d].ixChunks <= builds
    BY <1>2, <1>4, <1>7 DEF RagInv, Counted
  <2> QED
    BY <1>1, <1>8, <2>1 DEF RagInv, Counted
<1>15. EngineUse'
  <2>1. ASSUME NEW q \in Fetchers
        PROVE  Own(q)' /\ Uses(q)'
    <3>1. Own(q) /\ Uses(q)
      BY DEF RagInv, EngineUse
    <3>2. \A p \in Fetchers : fetch'[p].eng = fetch[p].eng
      BY <1>2, <1>8
    <3>3. CASE q = r
      <4>1. e # 0
        BY <1>2, EngineNumbers
      <4>2. Own(r)'
        BY <1>5, <1>8, Stages DEF Own
      <4>3. Uses(r)'
        BY <1>5, <1>8, <1>9, <1>10, <4>1, Stages DEF Uses
      <4> QED
        BY <3>3, <4>2, <4>3
    <3>4. CASE q # r
      <4>1. fetch'[q] = fetch[q]
        BY <1>8, <3>4
      <4>2. CASE fetch[q].stage \in Reading \cup Building \cup Searching /\ fetch[q].eng = e
        <5>1. engines[e].chunks # 0 /\ Mine(q)' = new /\ Mine(q) = engines[e]
          BY <1>10, <1>11, <3>4, <4>2
        <5>2. Own(q)'
          BY <1>10, <4>1, <5>1 DEF Own
        <5>3. ~(fetch[q].stage = "load")
          BY <3>1, <5>1 DEF Uses
        <5>4. fetch[q].vectors = 0 => fetch[q].stage \notin {"adopt", "adoptChunks"}
          BY <3>1, <5>1 DEF Uses
        <5>5. Uses(q)'
          BY <1>1, <1>4, <1>10, <3>1, <4>1, <5>1, <5>3, <5>4, Stages DEF Uses
        <5> QED
          BY <5>2, <5>5
      <4>3. CASE fetch[q].stage \in Reading \cup Building \cup Searching /\ fetch[q].eng # e
        <5>1. Mine(q)' = Mine(q) /\ (cached' = cached \/ cached' = e)
          BY <1>5, <1>11, <4>3
        <5>2. Own(q)'
          BY <3>1, <3>2, <4>1, <4>3, <5>1 DEF Own
        <5>3. Uses(q)'
          BY <1>1, <3>1, <4>1, <5>1 DEF Uses
        <5> QED
          BY <5>2, <5>3
      <4>4. CASE fetch[q].stage \notin Reading \cup Building \cup Searching
        BY <3>1, <4>1, <4>4, Stages DEF Own, Uses
      <4> QED
        BY <4>2, <4>3, <4>4
    <3> QED
      BY <3>3, <3>4
  <2> QED
    BY <1>12, <2>1 DEF EngineUse
<1>16. Fresh'
  <2> SUFFICES ASSUME NEW s \in Fetchers, fetch'[s].force
               PROVE  FreshFor(s)'
    BY DEF Fresh
  <2>1. FreshFor(s) /\ Uses(s) /\ fetch'[s].since = fetch[s].since /\ fetch'[s].eng = fetch[s].eng
    BY <1>2, <1>8 DEF RagInv, Fresh, EngineUse
  <2>2. \A q \in Fetchers : fetch'[q].stage \in Collected =>
          q # r /\ fetch[q].stage \in Collected /\ fetch'[q] = fetch[q]
    BY <1>5, <1>8, Stages
  <2>3. CASE engines[e].chunks = 0
    <3>1. CASE s = r
      <4>1. fetch'[r].stage = "return"
        BY <1>5, <1>8, <2>3
      <4>2. ~Rebuilds(r)' /\ Target(r)' = e
        BY <1>5, <2>3, <4>1, Stages DEF Rebuilds, Target
      <4>3. \A q \in Fetchers : ~(fetch'[q].eng = e /\ fetch'[q].stage \in Collected)
        BY <1>10, <2>2, <2>3
      <4> QED
        BY <3>1, <4>1, <4>2, <4>3, Stages DEF FreshFor
    <3>2. CASE s # r
      <4>1. fetch'[s] = fetch[s] /\ fetch[s].eng # e
        BY <1>8, <1>10, <2>3, <3>2
      <4>2. fetch[s].stage \in Reading \cup Building \cup Searching => Mine(s)' = Mine(s)
        BY <1>11, <4>1
      <4>3. Rebuilds(s)' <=> Rebuilds(s)
        BY <4>1, <4>2 DEF Rebuilds
      <4>4. Target(s)' = IF Rebuilds(s) THEN Target(s) ELSE e
        BY <1>5, <2>3, <4>1, <4>3 DEF Target
      <4>5. ASSUME NEW q \in Fetchers, Target(s)' # 0, fetch'[q].eng = Target(s)',
                   fetch'[q].stage \in Collected
            PROVE  /\ fetch'[q].vectors > fetch'[s].since
                   /\ engines'[Target(s)'].ixChunks > fetch'[s].since
                   /\ fetch'[q].stage = "adoptChunks" => fetch'[q].taken > fetch'[s].since
        <5>1. /\ q # r /\ fetch[q].stage \in Collected /\ fetch'[q] = fetch[q]
              /\ Target(s)' = Target(s)
          BY <1>10, <2>2, <2>3, <4>4, <4>5
        <5>2. fetch[q].eng # e /\ fetch[q].eng \in EngineIds
          BY <1>10, <2>3, <5>1, EngineOf, Stages
        <5>3. engines'[Target(s)] = engines[Target(s)]
          BY <1>7, <4>5, <5>1, <5>2
        <5> QED
          BY <2>1, <4>1, <4>5, <5>1, <5>3 DEF FreshFor
      <4> QED
        BY <2>1, <4>1, <4>2, <4>3, <4>5, Stages DEF FreshFor, Rebuilds
    <3> QED
      BY <3>1, <3>2
  <2>4. CASE engines[e].chunks # 0
    <3>1. /\ cached' = cached /\ next = "search"
          /\ fetch'[s].stage \in Building \cup Searching <=> fetch[s].stage \in Building \cup Searching
      BY <1>1, <1>5, <1>8, <2>4, Stages
    <3>2. Rebuilds(s)' <=> Rebuilds(s)
      <4>1. fetch[s].stage \in Building \cup Searching => (Mine(s)'.chunks = 0 <=> Mine(s).chunks = 0)
        BY <1>10, <1>11, <2>4
      <4> QED
        BY <3>1, <4>1 DEF Rebuilds
    <3>3. Target(s)' = Target(s)
      BY <2>1, <3>1, <3>2 DEF Target
    <3>4. \A d \in EngineIds : engines'[d].ixChunks = engines[d].ixChunks
      BY <1>2, <1>4, <1>7
    <3>5. \A q \in Fetchers :
            Target(s)' # 0 /\ fetch'[q].eng = Target(s)' /\ fetch'[q].stage \in Collected =>
              /\ fetch'[q].vectors > fetch'[s].since
              /\ engines'[Target(s)'].ixChunks > fetch'[s].since
              /\ fetch'[q].stage = "adoptChunks" => fetch'[q].taken > fetch'[s].since
      BY <1>1, <2>1, <2>2, <3>3, <3>4, BuildsFresh
    <3>6. Target(s) = e => fetch[r].taken > fetch[s].since
      BY <1>1, <1>2, <2>1, EngineNumbers, Stages DEF FreshFor
    <3>7. CASE s = r
      <4>1. Rebuilds(r) /\ Target(r) = e
        BY <1>1, <1>2, <1>9, <2>4, Stages DEF Rebuilds, Target
      <4>2. engines[e].ixIndex > fetch[r].since /\ engines[e].index > fetch[r].since
        BY <1>1, <1>9, <2>1, <3>7, <4>1, Stages DEF FreshFor
      <4> QED
        BY <1>4, <1>8, <1>9, <2>1, <3>1, <3>5, <3>6, <3>7, <4>1, <4>2, Stages DEF FreshFor
    <3>8. CASE s # r
      <4>1. fetch'[s] = fetch[s]
        BY <1>8, <3>8
      <4>2. fetch[s].stage \in Building \cup Searching =>
              Mine(s)'.index = Mine(s).index /\ Mine(s)'.ixIndex = Mine(s).ixIndex
        BY <1>11
      <4>3. ASSUME fetch[s].stage \in Searching
            PROVE  Mine(s)'.chunks > fetch[s].since
        <5>1. CASE fetch[s].eng = e
          <6>1. Target(s) = e
            BY <2>1, <4>3, <5>1 DEF Uses, Rebuilds, Target
          <6> QED
            BY <1>4, <1>11, <3>6, <4>3, <5>1, <6>1
        <5>2. CASE fetch[s].eng # e
          BY <1>11, <2>1, <4>3, <5>2 DEF FreshFor
        <5> QED
          BY <5>1, <5>2
      <4> QED
        BY <2>1, <3>2, <3>5, <4>1, <4>2, <4>3, Stages DEF FreshFor, Rebuilds
    <3> QED
      BY <3>7, <3>8
  <2> QED
    BY <2>3, <2>4
<1>17. Paired'
  <2> SUFFICES ASSUME ~mixed'
               PROVE  /\ Alone' /\ \A q \in Fetchers : Matched(q)' /\ Straight(q)'
                      /\ DiskPaired' /\ EnginesPaired'
    BY DEF Paired
  <2>1. /\ Alone /\ \A q \in Fetchers : Matched(q) /\ Straight(q)
        /\ DiskPaired /\ EnginesPaired
    BY <1>1 DEF RagInv, Paired
  <2>2. Alone'
    BY <1>5, <1>8, <2>1, Stages DEF Alone, Builder
  <2>3. ASSUME NEW q \in Fetchers
        PROVE  Matched(q)' /\ Straight(q)'
    <3>1. CASE q = r
      BY <1>5, <1>8, <3>1, Stages DEF Matched, Straight
    <3>2. CASE q # r
      <4>1. Matched(q) /\ Straight(q) /\ fetch'[q] = fetch[q]
        BY <1>8, <2>1, <3>2
      <4>2. fetch[q].stage \in Building =>
              /\ Mine(q)'.ixIndex = Mine(q).ixIndex /\ Mine(q)'.ixChunks = Mine(q).ixChunks
              /\ Mine(q)'.index = Mine(q).index
        BY <1>11
      <4>3. Matched(q)'
        BY <1>1, <4>1, <4>2, Stages DEF Matched
      <4>4. fetch[q].stage = "resolve" /\ q \notin crossed' => q \notin crossed /\ Mine(q)' = Mine(q)
        BY <1>6, <1>11, <3>2, Stages
      <4>5. Straight(q)'
        BY <4>1, <4>4 DEF Straight
      <4> QED
        BY <4>3, <4>5
    <3> QED
      BY <3>1, <3>2
  <2>4. DiskPaired'
    BY <1>1, <1>5, <1>8, <2>1, Stages DEF DiskPaired
  <2>5. new.index = new.chunks
    BY <1>1, <1>4, <1>9, <2>1 DEF Matched
  <2>6. EnginesPaired'
    <3> SUFFICES ASSUME NEW d \in EngineIds,
                        \A q \in Fetchers : ~(fetch'[q].stage = "adoptChunks" /\ fetch'[q].eng = d)
                 PROVE  engines'[d].index = engines'[d].chunks
      BY DEF EnginesPaired
    <3>1. CASE d = e
      BY <1>7, <2>5, <3>1
    <3>2. CASE d # e
      <4>1. \A q \in Fetchers : ~(fetch[q].stage = "adoptChunks" /\ fetch[q].eng = d)
        BY <1>2, <1>8, <3>2
      <4> QED
        BY <1>7, <2>1, <3>2, <4>1 DEF EnginesPaired
    <3> QED
      BY <3>1, <3>2
  <2> QED
    BY <2>2, <2>3, <2>4, <2>6
<1> QED
  BY <1>13, <1>14, <1>15, <1>16, <1>17 DEF RagInv

\* Whatever the calls and the cache do, the index keeps its invariant.
LEMMA RagKept ==
  ASSUME RagInv, RagNext
  PROVE  RagInv'
<1>1. CASE UNCHANGED ragVars
  <2>1. UNCHANGED <<fetch, engines, disk, cached, builds, mixed, crossed>>
    BY <1>1 DEF ragVars
  <2>2. RagTypes' /\ Counted'
    BY <2>1 DEF RagInv, RagTypes, Counted
  <2>3. EngineUse'
    BY <2>1 DEF RagInv, EngineUse, Own, Uses, Mine
  <2>4. Fresh'
    BY <2>1 DEF RagInv, Fresh, FreshFor, Target, Rebuilds, Mine
  <2>5. Paired'
    BY <2>1 DEF RagInv, Paired, Alone, Builder, Matched, Straight, Mine, DiskPaired, EnginesPaired
  <2> QED
    BY <2>2, <2>3, <2>4, <2>5 DEF RagInv
<1>2. ASSUME NEW r \in Fetchers, NEW force \in BOOLEAN, StartsFetch(r, force)
      PROVE  RagInv'
  BY <1>2, StartsFetchKeeps
<1>3. ASSUME NEW r \in Fetchers, FetchStep(r)
      PROVE  RagInv'
  BY <1>3, UseCachedKeeps, ConstructKeeps, LoadKeeps, FinishesKeep, CollectKeeps, OpenIndexKeeps,
     WritesKeep, AdoptIndexKeeps, AdoptChunksKeeps, SearchIndexKeeps, ReturnKeeps DEF FetchStep
<1>4. ASSUME NEW r \in Fetchers, ForgetsFetch(r)
      PROVE  RagInv'
  BY <1>4, ForgetsFetchKeeps
<1> QED
  BY <1>1, <1>2, <1>3, <1>4, EvictKeeps, LoseKeeps DEF RagNext

-----------------------------------------------------------------------------
(* The theorems *)

\* A text is not the undecodable bytes.
LEMMA BaseIsRead == Base # Odd
BY DEF Base, Odd

\* At the start the files are the repository's, and nothing else is there.
LEMMA InitHolds == Init => IInv
<1> SUFFICES ASSUME Init
             PROVE  IInv
  OBVIOUS
<1>1. /\ FilesInit(setting.odd) /\ MemoryInit /\ RagInit /\ setting \in Settings
      /\ pc = [r \in Runs |-> "off"] /\ step = [r \in Runs |-> NoStep]
      /\ started = 0 /\ crashes = 0
  BY DEF Init
<1>2. RunTypes
  <2>1. NoStep \in StepRecords
    BY DEF NoStep, NewStep, StepRecords, ToolNames
  <2> QED
    BY <1>1, <2>1, WorkspaceAssumption DEF RunTypes, Control
<1>3. NoEdit \in EditRecords /\ NoEdit.stage = "idle"
  BY DEF NoEdit, EditRecords, EditStages, Marks
<1>4. /\ edit \in [Runs -> EditRecords] /\ \A r \in Runs : edit[r] = NoEdit
      /\ late = {} /\ unreported = {} /\ disturbed = FALSE
  BY <1>1, <1>3 DEF FilesInit
<1>5. /\ files["main.py"] = [exists |-> TRUE, text |-> {Base} \cup setting.odd]
      /\ files["output.txt"] = [exists |-> FALSE, text |-> {}]
      /\ files = [p \in Paths |-> files[p]]
      /\ expected = [p \in Paths |-> files[p].text]
  BY <1>1 DEF FilesInit, Paths
<1>6. \A p \in Paths : files[p] \in [exists : BOOLEAN, text : SUBSET Marks]
  <2>1. setting.odd \subseteq {Odd}
    BY <1>1, WorkspaceAssumption
  <2>2. /\ [exists |-> TRUE, text |-> {Base} \cup setting.odd] \in [exists : BOOLEAN, text : SUBSET Marks]
        /\ [exists |-> FALSE, text |-> {}] \in [exists : BOOLEAN, text : SUBSET Marks]
    BY <2>1 DEF Marks
  <2> QED
    BY <1>5, <2>2 DEF Paths
<1>7. EditTypes
  BY <1>4, <1>5, <1>6 DEF EditTypes
<1>8. FilesInv
  <2>1. \A p \in Paths : files[p].text = expected[p] /\ \A r \in Runs : ~Busy(r, p)
    BY <1>3, <1>4, <1>5 DEF Busy
  <2>2. EditsApart
    BY <2>1 DEF EditsApart, Apart, Holds, AsRead
  <2> QED
    BY <1>3, <1>4, <1>7, <2>2 DEF FilesInv, EditStaged
<1>9. NothingWritten
  <2>2. setting.odd \subseteq {Odd}
    BY <1>1, WorkspaceAssumption
  <2>1. AsRead({Base} \cup setting.odd) = {Base}
    BY <2>2, BaseIsRead DEF AsRead
  <2>3. files["main.py"].text = {Base} \cup setting.odd /\ files["output.txt"].text = {}
    BY <1>5
  <2>4. AsRead(files["main.py"].text) = {Base}
    BY <2>1, <2>3
  <2>5. \A r \in Runs : edit[r].stage = "idle"
    BY <1>3, <1>4
  <2> QED
    BY <1>4, <2>3, <2>4, <2>5 DEF NothingWritten
<1>10. MemoryInv
  <2>1. open = FALSE /\ lost = 0 /\ torn = 0
    BY <1>1 DEF MemoryInit
  <2>2. (IF open THEN 1 ELSE 0) = 0
    BY <2>1
  <2>3. lost \in Nat /\ torn \in Nat /\ lost + (IF open THEN 1 ELSE 0) <= torn
    BY <2>1, <2>2
  <2>4. open \in BOOLEAN
    BY <2>1
  <2> QED
    BY <2>3, <2>4 DEF MemoryInv
<1>11. /\ NoFetch \in FetchRecords /\ NoFetch.stage = "idle" /\ NoFetch.eng = 0
       /\ NoFetch.force = FALSE /\ NoFetch.since = 0 /\ NoFetch.vectors = 0
  BY DEF NoFetch, FetchRecords, FetchStages
<1>12. /\ NewEngine \in EngineRecords /\ NewEngine.ixChunks = 0 /\ NewEngine.index = NewEngine.chunks
  BY DEF NewEngine, EngineRecords
<1>13. /\ fetch \in [Fetchers -> FetchRecords] /\ \A q \in Fetchers : fetch[q] = NoFetch
       /\ engines \in [EngineIds -> EngineRecords] /\ \A e \in EngineIds : engines[e] = NewEngine
       /\ disk = [index |-> 0, chunks |-> 0, torn |-> {}] /\ cached = 0 /\ builds = 0
       /\ mixed = FALSE /\ crossed = {}
  BY <1>1, <1>11, <1>12 DEF RagInit
<1>14. Staged
  BY <1>1, <1>3, <1>4, <1>11, <1>13, WorkspaceAssumption DEF Staged
<1>15. disk \in [index : Nat, chunks : Nat, torn : SUBSET {"index", "chunks"}] /\ disk.index = 0 /\ disk.chunks = 0
       /\ disk.torn = {}
  BY <1>13
<1>16. RagTypes
  BY <1>13, <1>15 DEF RagTypes
<1>17. Counted
  BY <1>11, <1>12, <1>13, <1>15 DEF Counted
<1>18. EngineUse /\ Fresh
  BY <1>11, <1>13, Stages DEF EngineUse, Own, Uses, Fresh, Reading, Building
<1>19. Paired
  BY <1>11, <1>12, <1>13, <1>15 DEF Paired, Alone, Builder, Matched, DiskPaired, EnginesPaired,
     Straight, Building, Saving
<1> QED
  BY <1>2, <1>8, <1>9, <1>10, <1>14, <1>16, <1>17, <1>18, <1>19 DEF IInv, RagInv

\* Every step keeps the invariants of the parts, and of the control.
LEMMA NextHolds == IInv /\ [Next]_vars => IInv'
<1> SUFFICES ASSUME IInv, [Next]_vars
             PROVE  IInv'
  OBVIOUS
<1>1. /\ RunTypes /\ Staged /\ MemoryInv /\ NothingWritten /\ RagInv /\ RagTypes
      /\ EditTypes /\ EditStaged /\ EditsApart
  BY DEF IInv, FilesInv, RagInv
<1>2. FilesNext /\ RagNext /\ MemoryNext /\ setting' = setting
  BY <1>1, Parts
<1>3. RunTypes' /\ Staged'
  BY <1>1, NextControl
<1>4. EditTypes' /\ EditStaged' /\ EditsApart' /\ NothingWritten'
  BY <1>1, <1>2, FilesNextTypes, FilesNextStaged, FilesNextApart, FilesNextNothing
<1>5. MemoryInv' /\ RagInv'
  BY <1>1, <1>2, MemoryKept, RagKept
<1> QED
  BY <1>3, <1>4, <1>5 DEF IInv, FilesInv

\* The inductive invariant of the workspace: the control of the runs, the edits and the two
\* histories of the files, the memory, and the index with everyone who uses or builds it.
THEOREM WorkspaceInvariant == Spec => []IInv
BY InitHolds, NextHolds, PTL DEF Spec

\* Everything keeps its type, and a run waits for an edit or a retrieval just when there is one.
THEOREM WorkspaceTypes == Spec => []TypeOK
<1>1. IInv => TypeOK
  <2> SUFFICES ASSUME IInv
               PROVE  TypeOK
    OBVIOUS
  <2>1. /\ RunTypes /\ Staged /\ MemoryInv /\ RagTypes /\ Counted /\ EditTypes
    BY DEF IInv, FilesInv, RagInv
  <2>2. ASSUME NEW p \in Paths
        PROVE  /\ files[p].exists \in BOOLEAN
               /\ files[p].text \subseteq Marks
               /\ expected[p] \subseteq Marks
    BY <2>1 DEF EditTypes
  <2>3. ASSUME NEW r \in Runs
        PROVE  /\ edit[r].stage \in EditStages /\ edit[r].tool \in Editing \cup {"none"}
               /\ pc[r] = "edit" <=> edit[r].stage # "idle"
               /\ fetch[r].stage \in FetchStages
               /\ pc[r] = "fetch" <=> fetch[r].stage # "idle"
               /\ fetch[r].eng \in {0} \cup EngineIds
               /\ pc[r] \in Control
               /\ pc[r] = "try" => step[r].left # <<>>
               /\ pc[r] = "ask" => step[r].rounds < setting.rounds[r]
               /\ step[r].results \subseteq BOOLEAN
    <3>1. /\ edit[r] \in EditRecords /\ fetch[r] \in FetchRecords /\ step[r] \in StepRecords
          /\ pc[r] \in Control
      BY <2>1, WorkspaceAssumption DEF EditTypes, RagTypes, RunTypes
    <3>2. edit[r].stage \in EditStages /\ edit[r].tool \in Editing \cup {"none"}
      BY <3>1 DEF EditRecords
    <3>3. fetch[r].stage \in FetchStages /\ fetch[r].eng \in {0} \cup EngineIds
      BY <3>1 DEF FetchRecords
    <3>4. step[r].results \subseteq BOOLEAN
      BY <3>1 DEF StepRecords
    <3> QED
      BY <2>1, <3>1, <3>2, <3>3, <3>4 DEF Staged
  <2>4. /\ disk.index \in 0..builds /\ disk.chunks \in 0..builds /\ disk.torn \subseteq {"index", "chunks"}
        /\ cached \in {0} \cup EngineIds /\ mixed \in BOOLEAN /\ crossed \subseteq Runs
    BY <2>1, WorkspaceAssumption DEF RagTypes, Counted
  <2>5. /\ open \in BOOLEAN /\ lost \in Nat /\ torn \in Nat /\ disturbed \in BOOLEAN
        /\ started \in 0..MaxSteps /\ crashes \in 0..MaxCrashes
        /\ unreported \subseteq Marks /\ late \subseteq unreported
    BY <2>1 DEF MemoryInv, EditTypes, RunTypes
  <2> QED
    BY <2>2, <2>3, <2>4, <2>5 DEF TypeOK
<1> QED
  BY <1>1, WorkspaceInvariant, PTL

\* A file holds what the edits reported as done make of it, whatever the runs, crashes and late
\* patches do, as long as no two edits overlapped and none stopped halfway.
THEOREM EditsAccounted == Spec => []EditsExplained
<1>1. IInv => EditsExplained
  <2> SUFFICES ASSUME IInv
               PROVE  EditsExplained
    OBVIOUS
  <2>1. EditTypes /\ EditsApart /\ NothingWritten
    BY DEF IInv, FilesInv
  <2>2. ASSUME ~disturbed, \A r \in Runs : edit[r].stage # "truncated", NEW p \in Paths
        PROVE  /\ AsRead(expected[p]) \subseteq files[p].text
               /\ files[p].text \subseteq expected[p] \cup unreported \cup PatchesAt({"applied"})
    <3>1. Apart(p)
      BY <2>1, <2>2 DEF EditsApart
    <3>2. CASE Holds(files[p].text, p)
      BY <3>2 DEF Holds
    <3>3. ASSUME NEW r \in Runs, Busy(r, p), ~Holds(files[p].text, p)
          PROVE  /\ AsRead(expected[p]) \subseteq files[p].text
                 /\ files[p].text \subseteq expected[p] \cup unreported \cup PatchesAt({"applied"})
      <4>1. edit[r].stage = "applied" /\ OneWriter(r, p)
        BY <2>2, <3>1, <3>3 DEF Apart, OneWriter, Busy
      <4>2. edit[r].mark \in PatchesAt({"applied"})
        BY <4>1 DEF PatchesAt
      <4> QED
        BY <4>1, <4>2 DEF OneWriter
    <3> QED
      BY <3>1, <3>2, <3>3 DEF Apart
  <2> QED
    BY <2>1, <2>2 DEF EditsExplained, NothingWritten
<1> QED
  BY <1>1, WorkspaceInvariant, PTL

\* A torn line costs at most one insight.
THEOREM MemoryHolds == Spec => []MemoryLossBounded
<1>1. IInv => MemoryLossBounded
  <2> SUFFICES ASSUME MemoryInv
               PROVE  MemoryLossBounded
    BY DEF IInv
  <2>1. CASE open
    BY <2>1 DEF MemoryInv, MemoryLossBounded
  <2>2. CASE ~open
    BY <2>2 DEF MemoryInv, MemoryLossBounded
  <2> QED
    BY <2>1, <2>2
<1> QED
  BY <1>1, WorkspaceInvariant, PTL

\* Vectors and chunks come from one build, and a forced rebuild searches none from before it,
\* for any number of threads.
THEOREM IndexPaired == Spec => []IndexPairing
<1>1. IInv => IndexPairing
  <2> SUFFICES ASSUME IInv
               PROVE  IndexPairing
    OBVIOUS
  <2>1. RagTypes /\ EngineUse /\ Fresh /\ Paired
    BY DEF IInv, RagInv
  <2>2. ASSUME ~mixed, \A r \in Runs : fetch[r].stage \notin Saving
        PROVE  disk.index = disk.chunks /\ disk.torn = {}
    BY <2>1, <2>2, WorkspaceAssumption DEF Paired, DiskPaired
  <2>3. ASSUME NEW r \in Runs, fetch[r].stage = "resolve"
        PROVE  /\ mixed \/ r \in crossed \/ fetch[r].taken = Mine(r).chunks
               /\ fetch[r].force =>
                    fetch[r].taken > fetch[r].since /\ Mine(r).chunks > fetch[r].since
    <3>1. r \in Fetchers
      BY WorkspaceAssumption
    <3>2. mixed \/ r \in crossed \/ fetch[r].taken = Mine(r).chunks
      BY <2>1, <2>3, <3>1 DEF Paired, Straight
    <3> QED
      BY <2>1, <2>3, <3>1, <3>2 DEF Fresh, FreshFor, Searching
  <2> QED
    BY <2>2, <2>3 DEF IndexPairing
<1> QED
  BY <1>1, WorkspaceInvariant, PTL
==============================================================================
