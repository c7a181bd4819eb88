--------------------------------- MODULE Cli ---------------------------------
(***************************************************************************)
(* cli.py: one invocation of the command line, over the components its     *)
(* commands call.  validate-events evaluates its stream by the steps of    *)
(* EventPolicy, which a program may also run directly, as                  *)
(* "evaluate_event_stream"; the rules of Policy and PatchValidator answer  *)
(* in one step.  Snapshots, manifests and transitions are modules of their *)
(* own; of their commands only what becomes of the answer is modelled.     *)
(*                                                                         *)
(* A command is a list of calls, each of which is "ok", ends the command   *)
(* with a status, or raises an exception; the first that is not ok decides.*)
(***************************************************************************)
EXTENDS Integers, EventPolicy, Policy, PatchValidator, Adapters

CONSTANTS
  Invocations,  \* the commands that may be given, with the contents of their files
  NoPolicy      \* no policy file is given

(* "wrong type": a list for a document, a policy or a snapshot, a number   *)
(* for a list of events (an empty string or object is an empty list).      *)
FileForm == {"missing", "not JSON", "not UTF-8", "wrong type", "right type"}
TaskCommand == {"validate-task", "validate-policy", "validate-events", "validate-patch"}
OtherCommand == {"snapshot-repo", "compare-repo", "verify-evidence",
                 "list-transitions", "check-transition"}
Status == {"PASS", "VALIDATION_FAILURE", "POLICY_VIOLATION",
           "INTEGRITY_FAILURE", "INTERNAL_ERROR"}
(* "other" is every exception that main has no clause for: ValueError with *)
(* UnicodeDecodeError, KeyError, TypeError, AttributeError.                *)
Exception == {"OSError", "JSONDecodeError", "TaskSpecValidationError", "other"}
(* A required key is absent; a list that the constructor's arguments sort  *)
(* is null, a number or mixed; base_commit is a value without a length.    *)
Defect == {"missing", "unsortable", "lengthless"}

(* validate-policy requires its policy, integers and limits are numbers,   *)
(* and no command returns the status of an internal error itself.          *)
ASSUME CliAssumption ==
  \A i \in Invocations :
    /\ i.command \in TaskCommand \cup OtherCommand \cup {"evaluate_event_stream"}
    /\ i.command = "validate-policy" => i.policy # NoPolicy
    /\ i.policy # NoPolicy => PolicyFile(i.policy)
    /\ LET attributes == i.document.terms.attributes
       IN  \A key \in DOMAIN attributes :
             IsInt(attributes[key]) => AsNumber(attributes[key]) \in Int
    /\ i.document.terms.commands \subseteq Seq(STRING)
    /\ i.document.form \in FileForm /\ i.document.defects \subseteq Defect
    /\ i.other \in FileForm
    /\ i.patch \in Seq(Change)
    /\ i.answer \in {"ok"} \cup (Status \ {"PASS", "INTERNAL_ERROR"}) \cup Exception

VARIABLES
  invocation,   \* the command and its files: the task document, one other file
  result,       \* how the command's function has ended
  exit          \* the exit status

cliVars == <<invocation, result, exit>>

CliTypeOK ==
  /\ TypeOK
  /\ invocation.command \in TaskCommand \cup OtherCommand \cup {"evaluate_event_stream"}
  /\ result \in {"running"} \cup Status \cup Exception
  /\ exit \in {"running"} \cup Status
  /\ result = "running" => exit = "running"
  /\ outcome # "evaluating" =>
       invocation.command \in {"validate-events", "evaluate_event_stream"}

CliInit ==
  /\ invocation \in Invocations
  /\ spec = ScopesOf(invocation.document.task)
  /\ Init
  /\ allowed_tools = {} <=> invocation.command # "evaluate_event_stream"
  /\ result = "running"
  /\ exit = "running"

-----------------------------------------------------------------------------
(* read_text, by which a patch is read, and _load_json, which parses the   *)
(* text as well.                                                           *)
ReadText(form) ==
  CASE form = "missing" -> "OSError" [] form = "not UTF-8" -> "other" [] OTHER -> "ok"

Load(form) == IF form = "not JSON" THEN "JSONDecodeError" ELSE ReadText(form)

(* What is no list, or no object, fails where it is first used as one.     *)
Use(form) == IF form = "wrong type" THEN "other" ELSE "ok"

Structure(document) ==
  IF document.form # "right type" THEN "other"
  ELSE IF validate_task_spec_structure(document.task) THEN "ok" ELSE "VALIDATION_FAILURE"

(* build_task_spec: the arguments of the constructor come before its       *)
(* checks, and of these the length of base_commit comes last.              *)
BuildTask(document) ==
  CASE document.form # "right type" -> "other"
    [] document.form = "right type" ->
       IF ~ validate_task_spec_structure(document.task) THEN "TaskSpecValidationError"
       ELSE IF document.defects \cap {"missing", "unsortable"} # {} THEN "other"
       ELSE IF ~ CanBuild(document.task) THEN "TaskSpecValidationError"
       ELSE IF "lengthless" \in document.defects THEN "other" ELSE "ok"

(* StaticPolicy.validate_task_spec: a dictionary that does not build, for  *)
(* whatever reason, is a violation; anything else is taken for a TaskSpec, *)
(* and only then is the policy looked at, of the given form.               *)
CheckPolicy(document, policy, form) ==
  IF document.form # "right type" THEN "other"
  ELSE IF BuildTask(document) # "ok" THEN "POLICY_VIOLATION"
  ELSE IF Use(form) # "ok" \/ PolicyRaises(policy, spec, document.terms) THEN "other"
  ELSE IF PolicyViolations(policy, spec, document.terms) = {} THEN "ok"
  ELSE "POLICY_VIOLATION"

(* The command line never requires the apply-check.                        *)
CheckPatch(i) ==
  LET files == parse_patch(PatchLines(i.patch))
  IN  IF PatchRaises(files, i.expected) THEN "other"
      ELSE IF PatchValid(files, spec, i.expected, i.apply, FALSE) THEN "ok"
      ELSE "VALIDATION_FAILURE"

FirstFailure(calls) ==
  LET failed == {n \in 1..Len(calls) : calls[n] # "ok"}
  IN  IF failed = {} THEN "PASS"
      ELSE calls[CHOOSE n \in failed : \A m \in failed : n <= m]

-----------------------------------------------------------------------------
Running(commands) == result = "running" /\ invocation.command \in commands

End(calls) ==
  /\ result' = FirstFailure(calls)
  /\ UNCHANGED <<vars, invocation, exit>>

(* With --policy but no --policy-config, the policy is an empty one.       *)
ValidateTask ==
  LET document == invocation.document
  IN  /\ Running({"validate-task"})
      /\ End(<<Load(document.form), Structure(document)>>
             \o (IF invocation.policy = NoPolicy THEN <<>>
                 ELSE <<Load(invocation.other),
                        CheckPolicy(document, invocation.policy, invocation.other)>>)
             \o <<BuildTask(document)>>)

ValidatePolicy ==
  LET document == invocation.document
  IN  /\ Running({"validate-policy"})
      /\ End(<<Load(document.form), Load(invocation.other),
               CheckPolicy(document, invocation.policy, invocation.other)>>)

(* What validate-events does before the first event.                       *)
EventCalls ==
  <<Load(invocation.document.form), Load(invocation.other), BuildTask(invocation.document),
    Use(invocation.other)>>

EvaluateEvents ==
  /\ Running({"validate-events", "evaluate_event_stream"})
  /\ FirstFailure(EventCalls) = "PASS"
  /\ Next
  /\ UNCHANGED cliVars

ValidateEvents ==
  /\ Running({"validate-events"})
  /\ \/ FirstFailure(EventCalls) # "PASS" /\ End(EventCalls)
     \/ outcome = "raised" /\ End(<<"other">>)
     \/ outcome = "returned" /\ End(<<IF violations = {} THEN "ok" ELSE "POLICY_VIOLATION">>)

ValidatePatch ==
  /\ Running({"validate-patch"})
  /\ End(<<Load(invocation.document.form), ReadText(invocation.other),
           BuildTask(invocation.document), CheckPatch(invocation)>>)

(* The other commands, by what they are answered: a snapshot that cannot   *)
(* be taken, snapshots that differ or lack a key, a manifest that does not *)
(* verify or is no object, a transition that is refused or names no state. *)
(* compare-repo alone reads a file before it calls its component.          *)
RunOther ==
  /\ Running(OtherCommand)
  /\ End((IF invocation.command = "compare-repo"
          THEN <<Load(invocation.other), Use(invocation.other)>> ELSE <<>>)
         \o <<invocation.answer>>)

(* Mutant: an exception is handed on.                                      *)
ExceptionAsCode(ended) == ended

ExitCode(ended) ==
  CASE ended \in Status -> ended
    [] ended \in {"OSError", "JSONDecodeError", "TaskSpecValidationError"} ->
         "VALIDATION_FAILURE"
    [] OTHER -> "INTERNAL_ERROR"

main ==
  /\ result # "running" /\ exit = "running"
  /\ exit' = ExitCode(result)
  /\ UNCHANGED <<vars, invocation, result>>

CliNext ==
  \/ ValidateTask \/ ValidatePolicy \/ EvaluateEvents \/ ValidateEvents
  \/ ValidatePatch \/ RunOther \/ main

CliSpec == CliInit /\ [][CliNext]_<<vars, cliVars>>

-----------------------------------------------------------------------------
GoodTask(document) ==
  document.form = "right type" /\ document.defects = {} /\ CanBuild(document.task)

(* Every scope of the spec can be used as the policy and the spec allow.   *)
ScopesUsable(policy) ==
  /\ \A path \in spec.read_paths : validate_path(policy, spec, path, "read") = "ok"
  /\ \A path \in spec.write_paths : validate_path(policy, spec, path, "write") = "ok"

(* The forbidden words are found nowhere in the command.                   *)
FreeOf(command, words) ==
  \A start \in 0..(Len(command) - Len(words)) :
    \E k \in 1..Len(words) : command[start + k] # words[k]

(* What a policy asks of a task: usable scopes, no integer over its limit, *)
(* every mode one of the named values, and no forbidden command.           *)
Compliant(policy, terms) ==
  /\ ScopesUsable(policy)
  /\ \A key \in DOMAIN policy.limits \cap DOMAIN terms.attributes :
       IsInt(terms.attributes[key]) =>
         AsNumber(terms.attributes[key]) <= AsNumber(policy.limits[key])
  /\ \A key \in DOMAIN policy.modes :
       \E v \in policy.modes[key].values : PyEqual(Attribute(terms, key), v)
  /\ \A command \in terms.commands, words \in policy.commands : FreeOf(command, words)

Writable(raw) == IsRepoPath(raw) /\ is_path_writable(spec, normalize_repo_path(raw))

TouchedBy(patch) == UNION {Touched(patch[n]) : n \in DOMAIN patch}

PatchAcceptable(i) ==
  /\ i.patch # <<>>
  /\ \A n \in DOMAIN i.patch : IsRepoPath(i.patch[n].old) /\ IsRepoPath(i.patch[n].new)
  /\ \A raw \in TouchedBy(i.patch) : Writable(raw)
  /\ i.expected # Unchecked =>
       {normalize_repo_path(raw) : raw \in TouchedBy(i.patch)} = NormalizedList(i.expected)
  /\ i.apply # "failed"

(* The changes of which the validator does not see every path.             *)
HalfSeen(patch) == \E n \in DOMAIN patch : patch[n].kind \in {"rename", "quoted"}

(* "0 - PASS (validation/check passed)": whichever command passes, the     *)
(* task it was given builds; what --policy or validate-policy lets pass    *)
(* keeps to the policy, in its scopes, limits, modes and commands; a       *)
(* stream that passes has no plain event that breaks a rule; and a patch   *)
(* that passes, of which the validator sees every path, is acceptable.     *)
PassIsEarned ==
  exit = "PASS" =>
    /\ invocation.command \in TaskCommand => GoodTask(invocation.document)
    /\ invocation.command \in {"validate-task", "validate-policy"}
         /\ invocation.policy # NoPolicy =>
           Compliant(invocation.policy, invocation.document.terms)
    /\ \A n \in DOMAIN stream : Plain(stream[n]) => Permitted(stream[n])
    /\ invocation.command = "validate-patch" /\ ~ HalfSeen(invocation.patch) =>
         PatchAcceptable(invocation)

(* The other half: a command given files of the right form and a task that *)
(* builds fails for a reason of its own - a task that does not keep to the *)
(* policy, an event that is irregular or breaks a rule, a patch that       *)
(* touches what it may not, a component that said no.  An apply-check that *)
(* timed out or found no git is none.                                      *)
RefusalHasCause ==
  /\ exit \notin {"running", "PASS", "INTERNAL_ERROR"}
  /\ invocation.command \in TaskCommand => GoodTask(invocation.document)
  /\ invocation.other = "right type"
  => CASE invocation.command = "validate-events" ->
            \E n \in DOMAIN stream : ~ (Plain(stream[n]) /\ Permitted(stream[n]))
       [] invocation.command = "validate-patch" ->
            HalfSeen(invocation.patch) \/ ~ PatchAcceptable(invocation)
       [] invocation.command \in {"validate-task", "validate-policy"} ->
            /\ invocation.policy # NoPolicy
            /\ ~ Compliant(invocation.policy, invocation.document.terms)
       [] OTHER -> invocation.answer # "ok"

(* A policy file as the documentation has it: lists of strings, numbers    *)
(* for limits, lists of values for modes.                                  *)
WellFormedPolicy(policy) ==
  /\ policy.malformed = {}
  /\ \A key \in DOMAIN policy.limits : policy.limits[key].type \in Numeric
  /\ \A key \in DOMAIN policy.modes : policy.modes[key].kind = "array"

(* No path of a task, a patch or an event spells the root by dots alone:   *)
(* what normalizes to nothing cannot be normalized twice.                  *)
RootNamed(raw) == ToSet(raw) \subseteq Noise

WellFormedInput(i) ==
  /\ {i.document.form, i.other} \cap {"not UTF-8", "wrong type"} = {}
  /\ i.document.defects = {} /\ ~ i.document.terms.wordless
  /\ i.policy # NoPolicy => WellFormedPolicy(i.policy)
  /\ i.answer # "other"
  /\ <<>> \notin spec.read_paths \cup spec.forbidden_paths
  /\ \A raw \in TouchedBy(i.patch) : ~ RootNamed(raw)
  /\ i.expected # Unchecked => \A n \in DOMAIN i.expected : IsRepoPath(i.expected[n])
  /\ \A n \in DOMAIN stream :
       /\ Readable(stream[n])
       /\ \A raw \in extract_paths_from_event(stream[n]) : ~ RootNamed(raw)

(* "4 - INTERNAL_ERROR (unexpected error)" is the answer to inputs of a    *)
(* form the commands do not expect, and to nothing else: no failed check   *)
(* of a well-formed input is reported as an error of the tool.             *)
InternalErrorExplained == exit = "INTERNAL_ERROR" => ~ WellFormedInput(invocation)

FailureHasCause == RefusalHasCause /\ InternalErrorExplained

(* parse_patch gives back the changes git printed, one entry for each and  *)
(* with that change's marks only, as long as git quotes no name.           *)
ParsesWhatGitPrints ==
  /\ invocation.command = "validate-patch"
  /\ \A n \in DOMAIN invocation.patch : invocation.patch[n].kind # "quoted"
  =>
    LET files == parse_patch(PatchLines(invocation.patch))
    IN  /\ Len(files) = Len(invocation.patch)
        /\ \A n \in DOMAIN files :
             LET change == invocation.patch[n]
             IN  files[n] = [old_path |-> change.old, new_path |-> change.new,
                             is_new |-> change.kind = "create",
                             is_deleted |-> change.kind = "delete",
                             is_rename |-> change.kind \in {"rename", "copy"},
                             is_binary |-> change.kind = "binary"]

(* The adapters and the event policy read the same call out of an object:  *)
(* the same tool, and no path the event policy does not check; when there  *)
(* is one call, all of its paths.                                          *)
AdapterAgrees ==
  \A n \in {m \in DOMAIN stream : Readable(stream[m])} :
    LET event == normalize_events(stream)[n]
    IN  /\ event.tool_name = ToolName(stream[n])
        /\ ToSet(event.paths) \subseteq extract_paths_from_event(stream[n])
        /\ Cardinality(ToolBlocks(stream[n])) <= 1 =>
             ToSet(event.paths) = extract_paths_from_event(stream[n])

-----------------------------------------------------------------------------
(* A statement of the sources that the code does not keep: "Patch outside  *)
(* write scope: Patch validator enforces scope on every changed file".     *)
ScopeEnforcedOnEveryChange ==
  invocation.command = "validate-patch" /\ exit = "PASS" =>
    \A raw \in TouchedBy(invocation.patch) : Writable(raw)
=============================================================================
