------------------------------ MODULE ToolCalls ------------------------------
(***************************************************************************)
(* How the executor (core/executor.py) turns an answer of the model into a *)
(* tool call, which calls it makes when there is no model, and when one    *)
(* result ends the rounds of a step.  Nothing here has a state.            *)
(*                                                                         *)
(* Arguments are told apart only by what the tools make of them:           *)
(*   "good"       every required argument is there and fits the workspace  *)
(*   "overwrite"  the same, with overwrite = True (write_file)             *)
(*   "rebuild"    the same, with force_rebuild = True (retrieve_context)   *)
(*   "nomatch"    the text to replace, or the patch's context, is not in   *)
(*                the file                                                 *)
(*   "same"       the replacement is the text it replaces                  *)
(*   "empty"      the required argument is an empty string                 *)
(*   "output"     write_file on output.txt with empty content              *)
(*   "missing"    no argument at all                                       *)
(*   "null"       the required argument is given as null                   *)
(*   "notobject"  valid JSON, but no object                                *)
(*   "absent"     a path that names no text file                           *)
(*   "range"      a range of lines that ends before it begins              *)
(*   "badregex"   a regular expression that does not compile               *)
(*   "blocked"    a command that the list of dangerous patterns refuses    *)
(***************************************************************************)
EXTENDS Sequences, FiniteSets

Editing == {"write_file", "replace_in_file", "apply_patch"}

\* get_tool_map
Tools == Editing \cup
  {"list_files", "read_file", "search_code", "retrieve_context", "run_command",
   "run_tests", "identify_error", "git_diff"}

\* TOOL_SPECS: the tools with a required parameter.
HasRequired == Tools \ {"list_files", "run_tests", "git_diff"}

-----------------------------------------------------------------------------
(* The model's answer *)

\* LLMClient.chat with tools answers a dict that always has the key tool_calls; a client
\* of another kind may answer a plain string.
Responses ==
  [form : {"dict"}, says : {"text", "json", "tool_calls"}] \cup
  [form : {"string"}, says : {"text", "json"}]

\* _parse_response: JSON in the content of a dict is not looked at, although the prompt
\* asks for it; the content of a string is.
Heard(response) ==
  \/ response.form = "dict" /\ response.says = "tool_calls"
  \/ response.form = "string" /\ response.says = "json"

\* What the model may ask for.
Calls ==
  [tool : {"write_file"}, arg : {"good", "overwrite", "missing"}] \cup
  [tool : {"replace_in_file"}, arg : {"good", "nomatch", "same", "missing", "null"}] \cup
  [tool : {"apply_patch"}, arg : {"good", "nomatch", "missing"}] \cup
  [tool : {"retrieve_context"}, arg : {"good", "rebuild"}] \cup
  [tool : {"list_files"}, arg : {"good", "absent"}] \cup
  [tool : {"read_file"}, arg : {"good", "absent", "range", "null", "notobject"}] \cup
  [tool : {"search_code"}, arg : {"good", "badregex", "missing"}] \cup
  [tool : {"run_command"}, arg : {"good", "blocked"}] \cup
  [tool : {"run_tests", "git_diff"}, arg : {"good"}] \cup
  [tool : {"identify_error"}, arg : {"good", "missing"}] \cup
  [tool : {"unknown"}, arg : {"good"}]

\* _normalize_tool_arguments: what setdefault puts in place of a missing argument.
Defaulted(tool) ==
  CASE tool = "write_file" -> "output"
    [] tool \in {"replace_in_file", "apply_patch", "search_code", "identify_error"} -> "empty"
    [] OTHER -> "good"

Normalized(call) == IF call.arg = "missing" THEN Defaulted(call.tool) ELSE call.arg

\* dict(arguments) raises outside the try block of _execute_tool.
NormalizeRaises(call) == call.arg = "notobject"

\* _validate_tool_arg: after the defaults only an explicit null is left to be found.
SchemaError(call) == call.tool \in HasRequired /\ call.arg = "null"

\* The checks of _execute_tool ahead of the call itself.
Rejected(call) == call.tool \notin Tools \/ SchemaError(call)

-----------------------------------------------------------------------------
(* Without a model *)

\* The suggested tools of the planner's templates, step by step.
PlanAnalysis ==
  << <<"list_files">>, <<"search_code", "retrieve_context">>,
     <<"read_file", "retrieve_context">>, <<"retrieve_context", "read_file">> >>
PlanReview ==
  << <<"git_diff">>, <<"read_file", "search_code">>,
     <<"retrieve_context", "search_code">>, <<"retrieve_context">> >>
PlanTestWriting ==
  << <<"list_files", "search_code">>, <<"read_file", "retrieve_context">>,
     <<"write_file", "replace_in_file">>, <<"run_tests">> >>
PlanRefactor ==
  << <<"search_code", "retrieve_context">>, <<"read_file">>, <<"run_tests">>,
     <<"apply_patch", "replace_in_file">>, <<"run_tests">> >>
PlanFeatureAdd ==
  << <<"list_files", "retrieve_context">>, <<"search_code", "retrieve_context">>,
     <<"read_file">>, <<"write_file", "apply_patch", "replace_in_file">>, <<"run_tests">> >>
PlanDependencyUpgrade ==
  << <<"list_files", "search_code">>, <<"search_code", "retrieve_context">>,
     <<"replace_in_file">>, <<"run_tests", "run_command">> >>
PlanBugFix ==
  << <<"list_files">>, <<"search_code", "retrieve_context">>,
     <<"read_file", "retrieve_context">>, <<"apply_patch", "replace_in_file">>,
     <<"run_tests", "run_command">> >>
FallbackReplan ==
  << <<"identify_error", "search_code">>, <<"read_file", "retrieve_context">>,
     <<"apply_patch", "replace_in_file">>, <<"run_tests", "run_command">> >>

FallbackPlans ==
  {PlanAnalysis, PlanReview, PlanTestWriting, PlanRefactor, PlanFeatureAdd,
   PlanDependencyUpgrade, PlanBugFix, FallbackReplan}

SuggestedTools == UNION {{plan[i] : i \in DOMAIN plan} : plan \in FallbackPlans}

\* _build_fallback_arguments.  errors: state.errors_seen is not empty.  The file to read is
\* guessed from the wording of the step.
FallbackArguments(tool, errors) ==
  CASE tool \in {"apply_patch", "replace_in_file"} -> {"empty"}
    [] tool = "identify_error" -> {IF errors THEN "good" ELSE "empty"}
    [] tool \in {"write_file", "git_diff"} -> {"missing"}
    [] tool = "read_file" -> {"good", "absent"}
    [] OTHER -> {"good"}

FallbackCalls(tool, errors) == [tool : {tool}, arg : FallbackArguments(tool, errors)]

-----------------------------------------------------------------------------
(* The result of a tool that changes nothing: may it succeed, may it fail *)

ListFiles(arg) == {arg # "absent"}

ReadFile(arg) == {arg \notin {"absent", "range"}}

SearchCode(arg) == {arg \notin {"empty", "badregex"}}

\* The exit code decides, and a timeout counts as a failure.
RunCommand(arg) == IF arg = "blocked" THEN {FALSE} ELSE BOOLEAN

\* pytest or compileall, whichever command is chosen.
RunTests == RunCommand("good")

IdentifyError(arg) == {arg # "empty"}

GitDiff == RunCommand("good")

Outcomes(call) ==
  LET arg == Normalized(call)
  IN  CASE call.tool = "list_files" -> ListFiles(arg)
        [] call.tool = "read_file" -> ReadFile(arg)
        [] call.tool = "search_code" -> SearchCode(arg)
        [] call.tool = "run_command" -> RunCommand(arg)
        [] call.tool = "run_tests" -> RunTests
        [] call.tool = "identify_error" -> IdentifyError(arg)
        [] call.tool = "git_diff" -> GitDiff

-----------------------------------------------------------------------------
(* Is it enough? *)

\* The tools whose use lets a summary be written, whether or not they succeeded.
Grounding == {"retrieve_context", "read_file"}

\* _tool_result_is_enough.  grounded: one of Grounding was used in this attempt.
IsEnough(summary, tool, ok, grounded) ==
  /\ ok
  /\ summary => /\ grounded
                /\ tool \notin Grounding \cup {"search_code", "list_files", "run_command"}
  /\ tool \notin Editing
=============================================================================
