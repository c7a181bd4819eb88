---------------------------- MODULE EventPolicy ----------------------------
(***************************************************************************)
(* event_policy.py: evaluate_event_stream, the loop that judges an agent's *)
(* event stream against a TaskSpec.                                        *)
(*                                                                         *)
(* An event is the sequence of its message's content blocks (<<>> when the *)
(* message has none).  A block is a tool_use with the tool's name and the  *)
(* nonempty path strings of its input, or anything else, such as text.  An *)
(* entry of the stream that is no object at all is an "unreadable" block.  *)
(* Events arrive one at a time; the stream so far is kept to say what has  *)
(* been judged.                                                            *)
(***************************************************************************)
EXTENDS TaskSpec, FiniteSets

CONSTANTS
  Events,        \* the events an agent may emit
  Specs,         \* the TaskSpecs a stream may be judged against
  AllowLists,    \* the values of allowed_tools; {} when it is left out
  OutsideNames,  \* names that contain the word "outside"
  MaxEvents      \* bound on the length of a stream

Block ==
  [kind : {"tool_use", "other", "unreadable"}, name : STRING,
   paths : Seq(RawPath \ {<<"">>})]

ASSUME EventAssumption ==
  /\ \A e \in Events : /\ e \in Seq(Block)
                       /\ \A i \in 1..Len(e) : e[i].kind = "unreadable" => Len(e) = 1
  /\ \A s \in Specs : s \in SpecType
  /\ OutsideNames \subseteq LowerName
  /\ MaxEvents \in Nat

VARIABLES
  spec,          \* task_spec
  allowed_tools, \* the shell and network tools this evaluation lets pass
  stream,        \* the events the loop has taken so far
  counts,        \* events per counted class
  violations,    \* what the loop has recorded, as [event, code, path]
  outcome        \* "evaluating", "returned" or "raised"

vars == <<spec, allowed_tools, stream, counts, violations, outcome>>

-----------------------------------------------------------------------------
READ_TOOLS == {"Read", "Glob", "Grep"}
WRITE_TOOLS == {"Edit", "Write", "NotebookEdit"}
SHELL_TOOLS == {"Bash", "Shell", "PowerShell", "Cmd"}
NETWORK_TOOLS == {"WebSearch", "WebFetch", "Browser"}

CountedClass == {"FILESYSTEM_READ", "FILESYSTEM_WRITE", "SHELL", "NETWORK",
                 "STRUCTURED_RESULT_TRANSPORT", "UNKNOWN"}

classify_tool_name(name) ==
  CASE name \in READ_TOOLS -> "FILESYSTEM_READ"
    [] name \in WRITE_TOOLS -> "FILESYSTEM_WRITE"
    [] name \in SHELL_TOOLS -> "SHELL"
    [] name \in NETWORK_TOOLS -> "NETWORK"
    [] name = "StructuredOutput" -> "STRUCTURED_RESULT_TRANSPORT"
    [] OTHER -> "UNKNOWN"

ToolBlocks(event) == {i \in 1..Len(event) : event[i].kind = "tool_use"}

(* normalize_event takes the name of the first tool_use block ...          *)
ToolName(event) ==
  IF ToolBlocks(event) = {} THEN ""
  ELSE event[CHOOSE i \in ToolBlocks(event) : \A j \in ToolBlocks(event) : i <= j].name

(* ... and treats an event without one, or with an empty name, as text or  *)
(* protocol: MODEL_TEXT and PROTOCOL_EVENT are both passed over.           *)
ActionClass(event) ==
  IF ToolName(event) = "" THEN "NON_TOOL" ELSE classify_tool_name(ToolName(event))

(* Both ask the event for its fields, which only an object has.            *)
Readable(event) == \A i \in 1..Len(event) : event[i].kind # "unreadable"

(* extract_paths_from_event collects the paths of every tool_use block.    *)
extract_paths_from_event(event) ==
  UNION {ToSet(event[i].paths) : i \in ToolBlocks(event)}

(* The code of a refused path is picked by looking for the word "outside"  *)
(* in the reason, and the reason quotes the path.                          *)
RefusalCode(path, reason) ==
  IF \/ reason \in {"outside read_paths", "outside write_paths"}
     \/ ToSet(path) \cap OutsideNames # {}
  THEN "OUT_OF_SCOPE" ELSE "FORBIDDEN_PATH"

(* Mutant of PathViolations: the path is reported as the agent spelled it. *)
RawPathViolations(n, raw, action) ==
  IF IsRepoPath(raw) /\ validate_path_access(spec, normalize_repo_path(raw), action) = "ok"
  THEN {}
  ELSE {[event |-> n, code |-> IF IsRepoPath(raw) THEN "OUT_OF_SCOPE" ELSE "INVALID_PATH",
         path |-> raw]}

(* What one path of a filesystem event contributes: nothing, or one        *)
(* violation.                                                              *)
PathViolations(n, raw, action) ==
  IF ~ IsRepoPath(raw)
  THEN {[event |-> n, code |-> "INVALID_PATH", path |-> raw]}
  ELSE LET path == normalize_repo_path(raw)
           reason == validate_path_access(spec, path, action)
       IN  IF reason = "ok" THEN {}
           ELSE {[event |-> n, code |-> RefusalCode(path, reason), path |-> path]}

(* validate_path_access normalizes the normalized path again, and that     *)
(* raises for the empty one.                                               *)
Raises(raw) ==
  IsRepoPath(raw) /\ ~ IsRepoPath(Spelling(normalize_repo_path(raw)))

-----------------------------------------------------------------------------
TypeOK ==
  /\ spec \in Specs
  /\ allowed_tools \in AllowLists
  /\ stream \in Seq(Events) /\ Len(stream) <= MaxEvents
  /\ counts \in [CountedClass -> Nat]
  /\ \A v \in violations :
       /\ v.event \in 1..Len(stream)
       /\ v.code \in {"UNKNOWN_TOOL", "FORBIDDEN_TOOL_CLASS", "INVALID_PATH",
                      "PATHLESS_FILESYSTEM_ACTION", "OUT_OF_SCOPE", "FORBIDDEN_PATH"}
  /\ outcome \in {"evaluating", "returned", "raised"}

Init ==
  /\ spec \in Specs
  /\ allowed_tools \in AllowLists
  /\ stream = <<>>
  /\ counts = [c \in CountedClass |-> 0]
  /\ violations = {}
  /\ outcome = "evaluating"

(* The part every turn of the loop shares: the next event of a class in    *)
(* classes is taken, and counted unless it is no tool event.               *)
Take(event, classes) ==
  /\ outcome = "evaluating"
  /\ Len(stream) < MaxEvents
  /\ ActionClass(event) \in classes
  /\ stream' = Append(stream, event)
  /\ counts' = [c \in CountedClass |->
                  counts[c] + (IF c = ActionClass(event) THEN 1 ELSE 0)]
  /\ UNCHANGED <<spec, allowed_tools>>

Index == Len(stream) + 1
Record(code) == violations' = violations \cup {[event |-> Index, code |-> code, path |-> <<>>]}

NonToolEvent(event) ==
  /\ Take(event, {"NON_TOOL"}) /\ Readable(event)
  /\ UNCHANGED <<violations, outcome>>

StructuredResult(event) ==
  /\ Take(event, {"STRUCTURED_RESULT_TRANSPORT"})
  /\ UNCHANGED <<violations, outcome>>

UnknownTool(event) ==
  /\ Take(event, {"UNKNOWN"})
  /\ Record("UNKNOWN_TOOL")
  /\ UNCHANGED outcome

AllowedTool(event) ==
  /\ Take(event, {"SHELL", "NETWORK"})
  /\ ToolName(event) \in allowed_tools
  /\ UNCHANGED <<violations, outcome>>

ForbiddenTool(event) ==
  /\ Take(event, {"SHELL", "NETWORK"})
  /\ ToolName(event) \notin allowed_tools
  /\ Record("FORBIDDEN_TOOL_CLASS")
  /\ UNCHANGED outcome

FilesystemClass == {"FILESYSTEM_READ", "FILESYSTEM_WRITE"}

PathlessAction(event) ==
  /\ Take(event, FilesystemClass)
  /\ extract_paths_from_event(event) = {}
  /\ Record("PATHLESS_FILESYSTEM_ACTION")
  /\ UNCHANGED outcome

(* Mutant: every filesystem event is checked as a read.                    *)
AlwaysRead(event) == "read"

PathAction(event) == IF ActionClass(event) = "FILESYSTEM_READ" THEN "read" ELSE "write"

FilesystemAction(event) ==
  LET paths == extract_paths_from_event(event)
  IN  /\ Take(event, FilesystemClass)
      /\ paths # {}
      /\ \A raw \in paths : ~ Raises(raw)
      /\ violations' = violations \cup
           UNION {PathViolations(Index, raw, PathAction(event)) : raw \in paths}
      /\ UNCHANGED outcome

(* The ValueError is not caught: the whole evaluation is lost, with what   *)
(* it had recorded.                                                        *)
EvaluationRaises(event) ==
  /\ Take(event, FilesystemClass)
  /\ \E raw \in extract_paths_from_event(event) : Raises(raw)
  /\ outcome' = "raised"
  /\ UNCHANGED violations

(* Neither is the AttributeError of an entry that is no object.            *)
EntryRaises(event) ==
  /\ Take(event, {"NON_TOOL"}) /\ ~ Readable(event)
  /\ outcome' = "raised"
  /\ UNCHANGED violations

Return ==
  /\ outcome = "evaluating"
  /\ outcome' = "returned"
  /\ UNCHANGED <<spec, allowed_tools, stream, counts, violations>>

Next ==
  \/ \E event \in Events :
       \/ NonToolEvent(event) \/ StructuredResult(event) \/ UnknownTool(event)
       \/ AllowedTool(event) \/ ForbiddenTool(event)
       \/ PathlessAction(event) \/ FilesystemAction(event) \/ EvaluationRaises(event)
       \/ EntryRaises(event)
  \/ Return

Spec == Init /\ [][Next]_vars

-----------------------------------------------------------------------------
(* The promise of the docstring of evaluate_event_stream, tool call by     *)
(* tool call and in terms of the TaskSpec's own predicates.                *)
InScope(raw, name) ==
  /\ IsRepoPath(raw)
  /\ IF name \in WRITE_TOOLS THEN is_path_writable(spec, normalize_repo_path(raw))
     ELSE is_path_readable(spec, normalize_repo_path(raw))

CallPermitted(block) ==
  /\ block.name \in READ_TOOLS \cup WRITE_TOOLS \cup SHELL_TOOLS \cup NETWORK_TOOLS
                    \cup {"StructuredOutput"}
  /\ block.name \in SHELL_TOOLS \cup NETWORK_TOOLS => block.name \in allowed_tools
  /\ block.name \in READ_TOOLS \cup WRITE_TOOLS =>
       /\ block.paths # <<>>
       /\ \A i \in 1..Len(block.paths) : InScope(block.paths[i], block.name)

Permitted(event) == \A i \in ToolBlocks(event) : CallPermitted(event[i])

(* An event that carries at most one tool call, and a named one.           *)
Plain(event) ==
  \A i \in ToolBlocks(event) : ToolBlocks(event) = {i} /\ event[i].name # ""

(* For plain events the evaluation is exact: an event has a violation if   *)
(* and only if its call breaks one of the four fail-closed rules.  What    *)
(* came before it in the stream, and allowed_tools for any other class,    *)
(* make no difference.                                                     *)
VerdictExact ==
  outcome # "raised" =>
    \A i \in 1..Len(stream) :
      Plain(stream[i]) =>
        ((\E v \in violations : v.event = i) <=> ~ Permitted(stream[i]))

(* The result tells one story.  Every path violation is about a filesystem *)
(* event and a path of that very event that is malformed or that this      *)
(* event's action has no access to; and a result without violations counts *)
(* no unknown tools, nor shell or network tools when none is allowed.      *)
ReportConsistent ==
  /\ \A v \in violations :
       LET event == stream[v.event]
       IN  v.code \in {"INVALID_PATH", "OUT_OF_SCOPE", "FORBIDDEN_PATH"} =>
             \E raw \in extract_paths_from_event(event) :
               IF IsRepoPath(raw)
               THEN /\ v.path = normalize_repo_path(raw)
                    /\ validate_path_access(spec, v.path, PathAction(event)) # "ok"
               ELSE v.path = raw /\ v.code = "INVALID_PATH"
  /\ outcome = "returned" /\ violations = {} =>
       /\ counts["UNKNOWN"] = 0
       /\ allowed_tools = {} => counts["SHELL"] = 0 /\ counts["NETWORK"] = 0

-----------------------------------------------------------------------------
(* A statement of the sources that the code does not keep.                 *)

(* "Shell/network tools are violations unless explicitly allowed",         *)
(* "Unknown tools are violations" and the others, for every call: a stream *)
(* that is returned as valid made permitted calls only.                    *)
ValidStreamsArePermitted ==
  outcome = "returned" /\ violations = {} =>
    \A i \in 1..Len(stream) : Permitted(stream[i])
=============================================================================
