------------------------------ MODULE CliProofs ------------------------------
(***************************************************************************)
(* The evaluation of an event stream, first on its own (EventPolicy's      *)
(* Spec) and then as part of the command line (CliSpec).                   *)
(*                                                                         *)
(* The empty string is a name no obligation below looks into: what         *)
(* EventPolicy says with it is stated once, by NamedCall and NoCall, and   *)
(* ToolName, ActionClass and Plain are never expanded after that.          *)
(***************************************************************************)
EXTENDS Cli, ScopesProofs, FiniteSetTheorems

-----------------------------------------------------------------------------
(* What a content block is made of.                                        *)
LEMMA BlockFields ==
  ASSUME NEW K, NEW N, NEW P, NEW block \in [kind : K, name : N, paths : Seq(P)]
  PROVE  /\ block.paths \in Seq(P)
         /\ Len(block.paths) \in Nat /\ DOMAIN block.paths = 1..Len(block.paths)
  OBVIOUS

(* The paths of a tool block are a sequence.                               *)
LEMMA EventType ==
  ASSUME NEW event \in Events, NEW i \in ToolBlocks(event)
  PROVE  /\ Len(event[i].paths) \in Nat
         /\ DOMAIN event[i].paths = 1..Len(event[i].paths)
<1>1. event \in Seq(Block)
  BY EventAssumption
<1>2. event[i] \in Block
  <2> HIDE DEF Block
  <2> QED
    BY <1>1 DEF ToolBlocks
<1> DEFINE NamedPath == RawPath \ {<<"">>}
<1>3. event[i] \in [kind : {"tool_use", "other", "unreadable"}, name : STRING,
                    paths : Seq(NamedPath)]
  BY <1>2, Zenon DEF Block
<1> HIDE DEF NamedPath
<1> QED
  BY <1>3, BlockFields

(* What extract_paths_from_event finds are raw paths.                      *)
LEMMA EventPathType ==
  ASSUME NEW event \in Events, NEW raw \in extract_paths_from_event(event)
  PROVE  raw \in RawPath
<1> DEFINE NamedPath == RawPath \ {<<"">>}
<1>1. PICK i \in ToolBlocks(event) : raw \in ToSet(event[i].paths)
  BY Zenon DEF extract_paths_from_event
<1>2. event[i] \in Block
  <2>1. event \in Seq(Block)
    BY EventAssumption
  <2> HIDE DEF Block
  <2> QED
    BY <2>1 DEF ToolBlocks
<1>3. event[i] \in [kind : {"tool_use", "other", "unreadable"}, name : STRING,
                    paths : Seq(NamedPath)]
  BY <1>2, Zenon DEF Block
<1>4. NamedPath \subseteq RawPath
  BY Zenon
<1> HIDE DEF NamedPath
<1>5. event[i].paths \in Seq(NamedPath)
  BY <1>3, BlockFields
<1>6. raw \in NamedPath
  BY <1>1, <1>5 DEF ToSet
<1> QED
  BY <1>4, <1>6

(* A plain event makes no call, and is passed over, or makes one call, and *)
(* is judged by its name.                                                  *)
LEMMA NoCall ==
  ASSUME NEW event, ToolBlocks(event) = {}
  PROVE  ActionClass(event) = "NON_TOOL"
  BY Zenon DEF ActionClass, ToolName

(* A plain event has one call, which its name and its class are of.        *)
LEMMA NamedCall ==
  ASSUME NEW event, Plain(event), NEW i \in ToolBlocks(event)
  PROVE  /\ ToolBlocks(event) = {i}
         /\ ToolName(event) = event[i].name
         /\ ActionClass(event) = classify_tool_name(event[i].name)
<1>1. ToolBlocks(event) = {i} /\ event[i].name # ""
  BY Zenon DEF Plain
<1> DEFINE First(j) == j \in ToolBlocks(event) /\ \A k \in ToolBlocks(event) : j <= k
<1>2. i \in Nat
  BY DEF ToolBlocks
<1>3. i = CHOOSE j \in ToolBlocks(event) : \A k \in ToolBlocks(event) : j <= k
  <2>1. ToolBlocks(event) = {i}
    BY <1>1
  <2> HIDE DEF ToolBlocks
  <2> QED
    BY <1>2, <2>1
<1>4. ToolName(event) = event[i].name
  BY <1>1, <1>3, Zenon DEF ToolName
<1> QED
  BY <1>1, <1>4, Zenon DEF ActionClass

(* The access decision, in the words of the TaskSpec's predicates.         *)
LEMMA AccessDecision ==
  ASSUME NEW s, NEW path
  PROVE  /\ validate_path_access(s, path, "read") = "ok" <=> is_path_readable(s, path)
         /\ validate_path_access(s, path, "write") = "ok" <=> is_path_writable(s, path)
  BY DEF validate_path_access, is_path_readable, is_path_writable, ReadAction, WriteAction

(* A path is reported by a filesystem event if and only if it is out of    *)
(* the scope of the event's action.                                        *)
LEMMA PathVerdict ==
  ASSUME NEW n, NEW raw, NEW action \in {"read", "write"}
  PROVE  PathViolations(n, raw, action) = {} <=>
           /\ IsRepoPath(raw)
           /\ IF action = "write" THEN is_path_writable(spec, normalize_repo_path(raw))
              ELSE is_path_readable(spec, normalize_repo_path(raw))
<1> HIDE DEF IsRepoPath, normalize_repo_path, validate_path_access, is_path_writable,
             is_path_readable, RefusalCode
<1>1. PathViolations(n, raw, action) = {} <=>
        /\ IsRepoPath(raw)
        /\ validate_path_access(spec, normalize_repo_path(raw), action) = "ok"
  BY DEF PathViolations
<1> QED
  BY <1>1, AccessDecision

(* The classes partition the names.                                        *)
LEMMA ClassOfName ==
  ASSUME NEW name
  PROVE  /\ classify_tool_name(name) \in CountedClass
         /\ classify_tool_name(name) = "FILESYSTEM_READ" <=> name \in READ_TOOLS
         /\ classify_tool_name(name) = "FILESYSTEM_WRITE" <=> name \in WRITE_TOOLS
         /\ classify_tool_name(name) \in {"SHELL", "NETWORK"} <=>
              name \in SHELL_TOOLS \cup NETWORK_TOOLS
         /\ classify_tool_name(name) = "UNKNOWN" <=>
              name \notin READ_TOOLS \cup WRITE_TOOLS \cup SHELL_TOOLS \cup NETWORK_TOOLS
                            \cup {"StructuredOutput"}
         /\ (READ_TOOLS \cup WRITE_TOOLS) \cap (SHELL_TOOLS \cup NETWORK_TOOLS) = {}
         /\ READ_TOOLS \cap WRITE_TOOLS = {}
         /\ "StructuredOutput" \notin READ_TOOLS \cup WRITE_TOOLS \cup SHELL_TOOLS
                                        \cup NETWORK_TOOLS
  BY DEF classify_tool_name, CountedClass, READ_TOOLS, WRITE_TOOLS, SHELL_TOOLS, NETWORK_TOOLS

(* What the promise says of a plain event, class by class, in the terms    *)
(* the evaluation uses.                                                    *)
LEMMA PlainVerdict ==
  ASSUME NEW event \in Events, Plain(event), NEW n
  PROVE  /\ ActionClass(event) \in {"NON_TOOL", "STRUCTURED_RESULT_TRANSPORT"} =>
              Permitted(event)
         /\ ActionClass(event) = "UNKNOWN" => ~ Permitted(event)
         /\ ActionClass(event) \in {"SHELL", "NETWORK"} =>
              (Permitted(event) <=> ToolName(event) \in allowed_tools)
         /\ ActionClass(event) \in FilesystemClass =>
              (Permitted(event) <=>
                 /\ extract_paths_from_event(event) # {}
                 /\ \A raw \in extract_paths_from_event(event) :
                      PathViolations(n, raw, PathAction(event)) = {})
<1>1. CASE ToolBlocks(event) = {}
  <2>1. Permitted(event)
    BY <1>1 DEF Permitted
  <2>2. ActionClass(event) = "NON_TOOL"
    BY <1>1, NoCall
  <2> QED
    BY <2>1, <2>2 DEF FilesystemClass
<1>2. CASE ToolBlocks(event) # {}
  <2>1. PICK i : i \in ToolBlocks(event)
    BY <1>2
  <2> DEFINE call == event[i]
             paths == extract_paths_from_event(event)
  <2>2. /\ ToolBlocks(event) = {i}
        /\ ToolName(event) = call.name
        /\ ActionClass(event) = classify_tool_name(call.name)
    BY <2>1, NamedCall
  <2>3. Permitted(event) <=> CallPermitted(call)
    <3> HIDE DEF CallPermitted, ToolBlocks
    <3> QED
      BY <2>2 DEF Permitted
  <2>4. /\ Len(call.paths) \in Nat /\ DOMAIN call.paths = 1..Len(call.paths)
        /\ call.paths = <<>> <=> Len(call.paths) = 0
    <3>1. /\ Len(call.paths) \in Nat /\ DOMAIN call.paths = 1..Len(call.paths)
      BY <2>1, EventType
    <3> QED
      BY <3>1
  <2>5. paths = {call.paths[k] : k \in 1..Len(call.paths)}
    BY <2>2, <2>4 DEF extract_paths_from_event, ToSet
  <2>6. paths = {} <=> call.paths = <<>>
    <3>1. 1..Len(call.paths) = {} <=> Len(call.paths) = 0
      <4>1. \A k \in Nat : 1..k = {} <=> k = 0
        <5>1. \A k \in Nat : k # 0 => 1 \in 1..k
          OBVIOUS
        <5> QED
          BY <5>1
      <4> QED
        BY <2>4, <4>1
    <3>2. paths = {} <=> 1..Len(call.paths) = {}
      BY <2>5, Zenon
    <3> QED
      BY <2>4, <3>1, <3>2
  <2>7. ActionClass(event) \in FilesystemClass =>
          (CallPermitted(call) <=>
             /\ paths # {}
             /\ \A raw \in paths : PathViolations(n, raw, PathAction(event)) = {})
    <3>1. SUFFICES ASSUME ActionClass(event) \in FilesystemClass
                   PROVE  CallPermitted(call) <=>
                            /\ paths # {}
                            /\ \A raw \in paths :
                                 PathViolations(n, raw, PathAction(event)) = {}
      OBVIOUS
    <3>2. /\ call.name \in READ_TOOLS \cup WRITE_TOOLS
          /\ call.name \notin SHELL_TOOLS \cup NETWORK_TOOLS
          /\ PathAction(event) = IF call.name \in WRITE_TOOLS THEN "write" ELSE "read"
      <4> HIDE DEF classify_tool_name, READ_TOOLS, WRITE_TOOLS, SHELL_TOOLS, NETWORK_TOOLS
      <4> QED
        BY <2>2, <3>1, ClassOfName DEF PathAction, FilesystemClass
    <3>3. \A raw : PathViolations(n, raw, PathAction(event)) = {} <=> InScope(raw, call.name)
      <4> HIDE DEF PathViolations, IsRepoPath
      <4> QED
        BY <3>2, PathVerdict DEF InScope
    <3>4. CallPermitted(call) <=>
            /\ call.paths # <<>>
            /\ \A k \in 1..Len(call.paths) : InScope(call.paths[k], call.name)
      <4> HIDE DEF READ_TOOLS, WRITE_TOOLS, SHELL_TOOLS, NETWORK_TOOLS, InScope
      <4> QED
        BY <3>2 DEF CallPermitted
    <3> HIDE DEF InScope, PathViolations, CallPermitted
    <3> QED
      BY <2>5, <2>6, <3>3, <3>4
  <2>8. /\ ActionClass(event) = "STRUCTURED_RESULT_TRANSPORT" => CallPermitted(call)
        /\ ActionClass(event) = "UNKNOWN" => ~ CallPermitted(call)
        /\ ActionClass(event) \in {"SHELL", "NETWORK"} =>
             (CallPermitted(call) <=> ToolName(event) \in allowed_tools)
    <3> HIDE DEF READ_TOOLS, WRITE_TOOLS, SHELL_TOOLS, NETWORK_TOOLS, InScope
    <3>1. call.name = "StructuredOutput" => CallPermitted(call)
      BY ClassOfName DEF CallPermitted
    <3>2. ActionClass(event) = "STRUCTURED_RESULT_TRANSPORT" => call.name = "StructuredOutput"
      BY <2>2, ClassOfName DEF classify_tool_name
    <3>3. /\ ActionClass(event) = "UNKNOWN" => ~ CallPermitted(call)
          /\ ActionClass(event) \in {"SHELL", "NETWORK"} =>
               (CallPermitted(call) <=> ToolName(event) \in allowed_tools)
      BY <2>2, ClassOfName DEF CallPermitted
    <3> QED
      BY <3>1, <3>2, <3>3
  <2>9. ActionClass(event) # "NON_TOOL"
    BY <2>2, ClassOfName DEF CountedClass
  <2> QED
    BY <2>3, <2>7, <2>8, <2>9
<1> QED
  BY <1>1, <1>2

-----------------------------------------------------------------------------
(* The inductive invariant of the evaluation.  VerdictExact carries itself:*)
(* a violation names its event, and neither event nor verdict changes      *)
(* later.  What a result reports and what it counts have to be related     *)
(* before the evaluation returns.                                          *)
PathsTold ==
  \A v \in violations :
    v.code \in {"INVALID_PATH", "OUT_OF_SCOPE", "FORBIDDEN_PATH"} =>
      \E raw \in extract_paths_from_event(stream[v.event]) :
        IF IsRepoPath(raw)
        THEN /\ v.path = normalize_repo_path(raw)
             /\ validate_path_access(spec, v.path, PathAction(stream[v.event])) # "ok"
        ELSE v.path = raw /\ v.code = "INVALID_PATH"

CountsTold ==
  violations = {} =>
    /\ counts["UNKNOWN"] = 0
    /\ allowed_tools = {} => counts["SHELL"] = 0 /\ counts["NETWORK"] = 0

RaiseTold ==
  outcome = "raised" =>
    \E i \in 1..Len(stream) :
      ~ Readable(stream[i]) \/ \E raw \in extract_paths_from_event(stream[i]) : Raises(raw)

EventIInv == TypeOK /\ VerdictExact /\ PathsTold /\ CountsTold /\ RaiseTold

(* Nothing is evaluated yet.                                               *)
LEMMA InitEventIInv == Init => EventIInv
<1>1. SUFFICES ASSUME Init PROVE EventIInv
  OBVIOUS
<1>2. stream \in Seq(Events) /\ Len(stream) = 0 /\ MaxEvents \in Nat
  BY <1>1, EventAssumption DEF Init
<1>3. TypeOK
  BY <1>1, <1>2 DEF Init, TypeOK
<1>4. VerdictExact
  BY <1>2 DEF VerdictExact
<1>5. PathsTold /\ CountsTold /\ RaiseTold
  BY <1>1 DEF Init, PathsTold, CountsTold, CountedClass, RaiseTold
<1> QED
  BY <1>3, <1>4, <1>5 DEF EventIInv

(* What every turn of the loop does to the stream and the counts.          *)
LEMMA TakeFacts ==
  ASSUME TypeOK, NEW event \in Events, NEW classes, Take(event, classes)
  PROVE  /\ outcome = "evaluating"
         /\ spec' = spec /\ allowed_tools' = allowed_tools
         /\ ActionClass(event) \in classes
         /\ Len(stream) \in Nat /\ Index = Len(stream) + 1
         /\ stream' \in Seq(Events)
         /\ Len(stream') = Len(stream) + 1 /\ Len(stream') <= MaxEvents
         /\ \A i \in 1..Len(stream) : stream'[i] = stream[i]
         /\ stream'[Len(stream) + 1] = event
         /\ counts' \in [CountedClass -> Nat]
         /\ \A c \in CountedClass : c # ActionClass(event) => counts'[c] = counts[c]
<1>1. /\ stream \in Seq(Events) /\ stream' = Append(stream, event)
      /\ Len(stream) < MaxEvents /\ MaxEvents \in Nat
      /\ outcome = "evaluating" /\ ActionClass(event) \in classes
      /\ spec' = spec /\ allowed_tools' = allowed_tools
  BY EventAssumption DEF TypeOK, Take
<1>2. /\ counts \in [CountedClass -> Nat]
      /\ counts' = [c \in CountedClass |->
                      counts[c] + (IF c = ActionClass(event) THEN 1 ELSE 0)]
  BY DEF TypeOK, Take
<1>3. /\ counts' \in [CountedClass -> Nat]
      /\ \A c \in CountedClass : c # ActionClass(event) => counts'[c] = counts[c]
  <2> HIDE DEF CountedClass
  <2> QED
    BY <1>2
<1> QED
  BY <1>1, <1>3, AppendProperties DEF Index

(* Permission depends on nothing that changes.                             *)
LEMMA PermissionStays ==
  ASSUME spec' = spec, allowed_tools' = allowed_tools,
         NEW event, NEW i, stream'[i] = event
  PROVE  Permitted(stream[i])' <=> Permitted(event)
<1> HIDE DEF IsRepoPath, is_path_writable, is_path_readable, normalize_repo_path,
             READ_TOOLS, WRITE_TOOLS, SHELL_TOOLS, NETWORK_TOOLS, ToolBlocks
<1> QED
  BY Zenon DEF Permitted, CallPermitted, InScope

(* A turn that records new violations, all about the event it took, and    *)
(* some exactly if that event, when plain, is not permitted.               *)
LEMMA TurnVerdict ==
  ASSUME TypeOK, VerdictExact, NEW event \in Events, NEW classes, Take(event, classes),
         NEW new, violations' = violations \cup new,
         \A v \in new : v.event = Index,
         outcome' # "raised" /\ Plain(event) => (new = {} <=> Permitted(event))
  PROVE  VerdictExact'
<1>1. SUFFICES ASSUME outcome' # "raised", NEW i \in 1..Len(stream'), Plain(stream'[i])
               PROVE  (\E v \in violations' : v.event = i) <=> ~ Permitted(stream[i])'
  BY Zenon DEF VerdictExact
<1>2. \A v \in violations : v.event \in 1..Len(stream)
  BY DEF TypeOK
<1>3. CASE i \in 1..Len(stream)
  <2>1. stream'[i] = stream[i] /\ outcome # "raised" /\ i # Index
    BY <1>3, TakeFacts
  <2>2. (\E v \in violations : v.event = i) <=> ~ Permitted(stream[i])
    BY <1>1, <1>3, <2>1 DEF VerdictExact
  <2>3. (\E v \in violations' : v.event = i) <=> (\E v \in violations : v.event = i)
    BY <2>1
  <2> QED
    BY <2>1, <2>2, <2>3, PermissionStays, TakeFacts
<1>4. CASE i = Index
  <2>1. stream'[i] = event
    BY <1>4, TakeFacts
  <2>2. (\E v \in violations' : v.event = i) <=> new # {}
    <3>1. \A v \in violations : v.event # i
      BY <1>2, <1>4, TakeFacts
    <3> QED
      BY <1>4, <3>1
  <2> QED
    BY <1>1, <2>1, <2>2, PermissionStays, TakeFacts
<1> QED
  BY <1>3, <1>4, TakeFacts

(* One turn of the loop, whichever it is: what it adds to the violations   *)
(* decides whether the invariant is kept.                                  *)
Code == {"UNKNOWN_TOOL", "FORBIDDEN_TOOL_CLASS", "INVALID_PATH",
         "PATHLESS_FILESYSTEM_ACTION", "OUT_OF_SCOPE", "FORBIDDEN_PATH"}

PathCause(event, v) ==
  \E raw \in extract_paths_from_event(event) :
    IF IsRepoPath(raw)
    THEN /\ v.path = normalize_repo_path(raw)
         /\ validate_path_access(spec, v.path, PathAction(event)) # "ok"
    ELSE v.path = raw /\ v.code = "INVALID_PATH"

(* An event that is taken, with the violations it adds: what they must     *)
(* satisfy for the invariant to hold after it.                             *)
LEMMA TurnIInv ==
  ASSUME EventIInv, NEW event \in Events, NEW classes, Take(event, classes),
         NEW new, violations' = violations \cup new,
         outcome' \in {"evaluating", "raised"},
         \A v \in new : v.event = Index /\ v.code \in Code,
         \A v \in new : v.code \in {"INVALID_PATH", "OUT_OF_SCOPE", "FORBIDDEN_PATH"} =>
                          PathCause(event, v),
         outcome' # "raised" /\ Plain(event) => (new = {} <=> Permitted(event)),
         new = {} => /\ ActionClass(event) # "UNKNOWN"
                     /\ allowed_tools = {} => ActionClass(event) \notin {"SHELL", "NETWORK"},
         outcome' = "raised" =>
           ~ Readable(event) \/ \E raw \in extract_paths_from_event(event) : Raises(raw)
  PROVE  EventIInv'
<1>1. TypeOK /\ VerdictExact /\ PathsTold /\ CountsTold
  BY DEF EventIInv
<1>2. \A v \in violations : v.event \in 1..Len(stream) /\ v.code \in Code
  BY <1>1 DEF TypeOK, Code
<1>3. TypeOK'
  <2>1. \A v \in violations' : v.event \in 1..Len(stream') /\ v.code \in Code
    BY <1>1, <1>2, TakeFacts
  <2>2. spec' \in Specs /\ allowed_tools' \in AllowLists
    BY <1>1, TakeFacts DEF TypeOK
  <2>3. /\ stream' \in Seq(Events) /\ Len(stream') <= MaxEvents
        /\ counts' \in [CountedClass -> Nat]
    BY <1>1, TakeFacts
  <2> HIDE DEF CountedClass
  <2> QED
    BY <2>1, <2>2, <2>3, Zenon DEF TypeOK, Code
<1>4. VerdictExact'
  BY <1>1, TurnVerdict
<1>5. PathsTold'
  <2>1. SUFFICES ASSUME NEW v \in violations',
                        v.code \in {"INVALID_PATH", "OUT_OF_SCOPE", "FORBIDDEN_PATH"}
                 PROVE  \E raw \in extract_paths_from_event(stream'[v.event]) :
                          IF IsRepoPath(raw)
                          THEN /\ v.path = normalize_repo_path(raw)
                               /\ validate_path_access(spec', v.path,
                                     PathAction(stream'[v.event])) # "ok"
                          ELSE v.path = raw /\ v.code = "INVALID_PATH"
    BY Zenon DEF PathsTold
  <2>2. spec' = spec
    BY <1>1, TakeFacts
  <2> HIDE DEF IsRepoPath, validate_path_access, PathAction, extract_paths_from_event
  <2>3. CASE v \in violations
    <3>1. stream'[v.event] = stream[v.event]
      BY <1>1, <1>2, <2>3, TakeFacts
    <3> QED
      BY <1>1, <2>1, <2>2, <2>3, <3>1 DEF PathsTold
  <2>4. CASE v \in new
    <3>1. stream'[v.event] = event
      BY <1>1, <2>4, TakeFacts
    <3>2. PathCause(event, v)
      BY <2>1, <2>4
    <3> QED
      BY <2>2, <3>1, <3>2 DEF PathCause
  <2> QED
    BY <2>3, <2>4
<1>6. CountsTold'
  <2>1. SUFFICES ASSUME violations' = {}
                 PROVE  /\ counts'["UNKNOWN"] = 0
                        /\ allowed_tools' = {} => counts'["SHELL"] = 0 /\ counts'["NETWORK"] = 0
    BY DEF CountsTold
  <2>2. violations = {} /\ new = {}
    BY <2>1
  <2>3. "UNKNOWN" \in CountedClass /\ "SHELL" \in CountedClass /\ "NETWORK" \in CountedClass
    BY DEF CountedClass
  <2>4. counts'["UNKNOWN"] = counts["UNKNOWN"]
    BY <1>1, <2>2, <2>3, TakeFacts
  <2>5. allowed_tools = {} =>
          counts'["SHELL"] = counts["SHELL"] /\ counts'["NETWORK"] = counts["NETWORK"]
    BY <1>1, <2>2, <2>3, TakeFacts
  <2>6. allowed_tools' = allowed_tools
    BY <1>1, TakeFacts
  <2> QED
    BY <1>1, <2>2, <2>4, <2>5, <2>6 DEF CountsTold
<1>7. RaiseTold'
  <2> HIDE DEF Raises, extract_paths_from_event, Readable
  <2>1. SUFFICES ASSUME outcome' = "raised"
                 PROVE  \E i \in 1..Len(stream') :
                          \/ ~ Readable(stream'[i])
                          \/ \E raw \in extract_paths_from_event(stream'[i]) : Raises(raw)
    BY Zenon DEF RaiseTold
  <2>2. /\ Index \in 1..Len(stream') /\ stream'[Index] = event
    BY <1>1, TakeFacts
  <2> HIDE DEF Index
  <2> QED
    BY <2>1, <2>2
<1> QED
  BY <1>3, <1>4, <1>5, <1>6, <1>7, Zenon DEF EventIInv

(* The turns that record nothing.                                          *)
LEMMA QuietTurns ==
  ASSUME EventIInv, NEW event \in Events,
         NonToolEvent(event) \/ StructuredResult(event) \/ AllowedTool(event)
  PROVE  EventIInv'
<1>1. TypeOK
  BY DEF EventIInv
<1>2. PICK classes : /\ Take(event, classes)
                     /\ \/ classes \subseteq {"NON_TOOL", "STRUCTURED_RESULT_TRANSPORT"}
                        \/ /\ classes = {"SHELL", "NETWORK"}
                           /\ ToolName(event) \in allowed_tools
                     /\ violations' = violations /\ outcome' = outcome
  BY DEF NonToolEvent, StructuredResult, AllowedTool
<1>3. outcome = "evaluating" /\ ActionClass(event) \in classes
  BY <1>1, <1>2, TakeFacts
<1>4. Plain(event) => Permitted(event)
  BY <1>2, <1>3, PlainVerdict
<1>5. /\ ActionClass(event) # "UNKNOWN"
      /\ allowed_tools = {} => ActionClass(event) \notin {"SHELL", "NETWORK"}
  BY <1>2, <1>3
<1> DEFINE new == {}
<1>6. violations' = violations \cup new /\ new = {} /\ \A v \in new : FALSE
  BY <1>2
<1> HIDE DEF new
<1> QED
  BY <1>2, <1>3, <1>4, <1>5, <1>6, TurnIInv

(* The turns that record one violation, which names no path.               *)
LEMMA RefusingTurns ==
  ASSUME EventIInv, NEW event \in Events,
         UnknownTool(event) \/ ForbiddenTool(event) \/ PathlessAction(event)
  PROVE  EventIInv'
<1>1. TypeOK
  BY DEF EventIInv
<1>2. PICK classes, code :
        /\ Take(event, classes)
        /\ code \in {"UNKNOWN_TOOL", "FORBIDDEN_TOOL_CLASS", "PATHLESS_FILESYSTEM_ACTION"}
        /\ \/ classes = {"UNKNOWN"}
           \/ classes = {"SHELL", "NETWORK"} /\ ToolName(event) \notin allowed_tools
           \/ classes = FilesystemClass /\ extract_paths_from_event(event) = {}
        /\ Record(code) /\ outcome' = outcome
  BY DEF UnknownTool, ForbiddenTool, PathlessAction
<1>3. outcome = "evaluating" /\ ActionClass(event) \in classes
  BY <1>1, <1>2, TakeFacts
<1>4. Plain(event) => ~ Permitted(event)
  BY <1>2, <1>3, PlainVerdict
<1> DEFINE new == {[event |-> Index, code |-> code, path |-> <<>>]}
<1>5. violations' = violations \cup new
  BY <1>2 DEF Record
<1>6. \A v \in new : v.event = Index /\ v.code = code
  OBVIOUS
<1>7. new # {}
  OBVIOUS
<1> HIDE DEF new
<1>8. /\ \A v \in new : v.event = Index /\ v.code \in Code
      /\ \A v \in new : v.code \notin {"INVALID_PATH", "OUT_OF_SCOPE", "FORBIDDEN_PATH"}
  BY <1>2, <1>6 DEF Code
<1> QED
  BY <1>2, <1>3, <1>4, <1>5, <1>7, <1>8, TurnIInv

(* What one path adds.                                                     *)
LEMMA PathRecord ==
  ASSUME NEW n, NEW event, NEW raw \in extract_paths_from_event(event),
         NEW v \in PathViolations(n, raw, PathAction(event))
  PROVE  /\ v.event = n
         /\ v.code \in {"INVALID_PATH", "OUT_OF_SCOPE", "FORBIDDEN_PATH"}
         /\ PathCause(event, v)
<1> HIDE DEF IsRepoPath, normalize_repo_path, validate_path_access, PathAction,
             extract_paths_from_event
<1>1. CASE ~ IsRepoPath(raw)
  <2>1. v = [event |-> n, code |-> "INVALID_PATH", path |-> raw]
    BY <1>1 DEF PathViolations
  <2> QED
    BY <1>1, <2>1 DEF PathCause
<1>2. CASE IsRepoPath(raw)
  <2>1. PICK code \in {"OUT_OF_SCOPE", "FORBIDDEN_PATH"} :
          v = [event |-> n, code |-> code, path |-> normalize_repo_path(raw)]
    <3> HIDE DEF PathViolations
    <3>1. PathViolations(n, raw, PathAction(event)) \subseteq
            {[event |-> n,
              code |-> RefusalCode(normalize_repo_path(raw),
                         validate_path_access(spec, normalize_repo_path(raw),
                                              PathAction(event))),
              path |-> normalize_repo_path(raw)]}
      <4> HIDE DEF RefusalCode
      <4> QED
        BY <1>2 DEF PathViolations
    <3>2. \A path, reason : RefusalCode(path, reason) \in {"OUT_OF_SCOPE", "FORBIDDEN_PATH"}
      BY DEF RefusalCode
    <3> HIDE DEF RefusalCode
    <3> QED
      BY <3>1, <3>2
  <2>2. validate_path_access(spec, normalize_repo_path(raw), PathAction(event)) # "ok"
    BY <1>2 DEF PathViolations
  <2>3. /\ v.event = n /\ v.code = code /\ v.path = normalize_repo_path(raw)
    BY <2>1
  <2> QED
    BY <1>2, <2>1, <2>2, <2>3 DEF PathCause
<1> QED
  BY <1>1, <1>2

(* An event that reads or writes files is such a turn.                     *)
LEMMA FilesystemTurn ==
  ASSUME EventIInv, NEW event \in Events, FilesystemAction(event)
  PROVE  EventIInv'
<1> DEFINE paths == extract_paths_from_event(event)
           new == UNION {PathViolations(Index, raw, PathAction(event)) : raw \in paths}
<1>1. TypeOK
  BY DEF EventIInv
<1>2. /\ Take(event, FilesystemClass) /\ paths # {}
      /\ violations' = violations \cup new /\ outcome' = outcome
  BY Zenon DEF FilesystemAction
<1>3. outcome = "evaluating" /\ ActionClass(event) \in FilesystemClass
  BY <1>1, <1>2, TakeFacts
<1>4. \A v \in new : /\ v.event = Index
                     /\ v.code \in {"INVALID_PATH", "OUT_OF_SCOPE", "FORBIDDEN_PATH"}
                     /\ PathCause(event, v)
  <2>1. SUFFICES ASSUME NEW raw \in paths,
                        NEW v \in PathViolations(Index, raw, PathAction(event))
                 PROVE  /\ v.event = Index
                        /\ v.code \in {"INVALID_PATH", "OUT_OF_SCOPE", "FORBIDDEN_PATH"}
                        /\ PathCause(event, v)
    <3> HIDE DEF PathViolations, paths
    <3> QED
      OBVIOUS
  <2> QED
    BY PathRecord
<1>5. new = {} <=> \A raw \in paths : PathViolations(Index, raw, PathAction(event)) = {}
  <2> HIDE DEF PathViolations, paths
  <2> QED
    OBVIOUS
<1>6. Plain(event) => (new = {} <=> Permitted(event))
  BY <1>2, <1>3, <1>5, PlainVerdict, Zenon
<1>7. ActionClass(event) \notin {"UNKNOWN", "SHELL", "NETWORK"}
  BY <1>3 DEF FilesystemClass
<1> HIDE DEF new, paths
<1>8. \A v \in new : v.event = Index /\ v.code \in Code
  BY <1>4 DEF Code
<1> QED
  BY <1>2, <1>3, <1>4, <1>6, <1>7, <1>8, TurnIInv

(* So is one whose evaluation raises.                                      *)
LEMMA RaisingTurn ==
  ASSUME EventIInv, NEW event \in Events, EvaluationRaises(event) \/ EntryRaises(event)
  PROVE  EventIInv'
<1>1. TypeOK
  BY DEF EventIInv
<1>2. PICK classes \in {FilesystemClass, {"NON_TOOL"}} :
        /\ Take(event, classes)
        /\ violations' = violations /\ outcome' = "raised"
        /\ ~ Readable(event) \/ \E raw \in extract_paths_from_event(event) : Raises(raw)
  BY Zenon DEF EvaluationRaises, EntryRaises
<1>3. ActionClass(event) \notin {"UNKNOWN", "SHELL", "NETWORK"}
  BY <1>1, <1>2, TakeFacts DEF FilesystemClass
<1> DEFINE new == {}
<1>4. violations' = violations \cup new /\ \A v \in new : FALSE
  BY <1>2
<1> HIDE DEF new
<1> QED
  BY <1>2, <1>3, <1>4, TurnIInv

(* Nothing changes when the report is returned.                            *)
LEMMA StandingIInv ==
  ASSUME EventIInv, Return \/ UNCHANGED vars
  PROVE  EventIInv'
<1>1. /\ spec' = spec /\ allowed_tools' = allowed_tools /\ stream' = stream
      /\ counts' = counts /\ violations' = violations
      /\ \/ outcome' = outcome
         \/ outcome = "evaluating" /\ outcome' = "returned"
  BY DEF Return, vars
<1>2. TypeOK'
  BY <1>1 DEF EventIInv, TypeOK
<1>3. VerdictExact'
  <2>1. SUFFICES ASSUME outcome' # "raised", NEW i \in 1..Len(stream'), Plain(stream'[i])
                 PROVE  (\E v \in violations' : v.event = i) <=> ~ Permitted(stream[i])'
    BY Zenon DEF VerdictExact
  <2>2. (\E v \in violations : v.event = i) <=> ~ Permitted(stream[i])
    BY <1>1, <2>1 DEF EventIInv, VerdictExact
  <2>3. Permitted(stream[i])' <=> Permitted(stream[i])
    BY <1>1, PermissionStays
  <2> QED
    BY <1>1, <2>2, <2>3
<1>4. PathsTold' /\ CountsTold'
  <2> HIDE DEF IsRepoPath, validate_path_access, PathAction, extract_paths_from_event
  <2> QED
    BY <1>1 DEF EventIInv, PathsTold, CountsTold
<1>5. RaiseTold'
  <2> HIDE DEF Raises, extract_paths_from_event, Readable
  <2>1. outcome' = "raised" => outcome = "raised"
    BY <1>1
  <2> QED
    BY <1>1, <2>1, Zenon DEF EventIInv, RaiseTold
<1> QED
  BY <1>2, <1>3, <1>4, <1>5, Zenon DEF EventIInv

(* EventIInv is inductive.                                                 *)
LEMMA StepEventIInv == EventIInv /\ [Next]_vars => EventIInv'
<1>1. SUFFICES ASSUME EventIInv, [Next]_vars PROVE EventIInv'
  OBVIOUS
<1>2. CASE Return \/ UNCHANGED vars
  BY <1>1, <1>2, StandingIInv
<1>3. ASSUME NEW event \in Events,
             \/ NonToolEvent(event) \/ StructuredResult(event) \/ UnknownTool(event)
             \/ AllowedTool(event) \/ ForbiddenTool(event)
             \/ PathlessAction(event) \/ FilesystemAction(event) \/ EvaluationRaises(event)
             \/ EntryRaises(event)
      PROVE  EventIInv'
  BY <1>1, <1>3, QuietTurns, RefusingTurns, FilesystemTurn, RaisingTurn
<1> QED
  BY <1>1, <1>2, <1>3, Zenon DEF Next

(* Type correctness of the evaluation, its verdict and its report: what an *)
(* event stream is judged, event by event, and what the result tells of it.*)
THEOREM EventsInductive == Spec => []EventIInv
<1>1. Init => EventIInv
  BY InitEventIInv
<1>2. EventIInv /\ [Next]_vars => EventIInv'
  BY StepEventIInv
<1> QED
  BY <1>1, <1>2, PTL DEF Spec

-----------------------------------------------------------------------------
(* The command line: which call of a command decides.                      *)
Answer == {"ok"} \cup (Status \ {"PASS"}) \cup Exception

(* FirstFailure is the answer of the first call that fails, or PASS.       *)
LEMMA FirstFailureValue ==
  ASSUME NEW calls, Len(calls) \in Nat
  PROVE  \/ /\ FirstFailure(calls) = "PASS"
            /\ \A n \in 1..Len(calls) : calls[n] = "ok"
         \/ \E n \in 1..Len(calls) :
              /\ calls[n] # "ok" /\ FirstFailure(calls) = calls[n]
              /\ \A k \in 1..(n-1) : calls[k] = "ok"
<1> DEFINE failed == {n \in 1..Len(calls) : calls[n] # "ok"}
<1>1. CASE failed = {}
  BY <1>1 DEF FirstFailure
<1>2. CASE failed # {}
  <2>1. failed \subseteq Nat
    OBVIOUS
  <2>2. PICK m \in failed : \A k \in failed : m <= k
    BY <1>2, <2>1, LeastMember
  <2> DEFINE first == CHOOSE n \in failed : \A k \in failed : n <= k
  <2>3. first \in failed /\ \A k \in failed : first <= k
    <3> HIDE DEF failed
    <3> QED
      BY <2>2
  <2>4. FirstFailure(calls) = calls[first]
    BY <1>2, Zenon DEF FirstFailure
  <2> HIDE DEF first
  <2>5. \A k \in 1..(first-1) : calls[k] = "ok"
    BY <2>3
  <2> QED
    BY <2>3, <2>4, <2>5
<1> QED
  BY <1>1, <1>2

(* What End makes of a command's calls.                                    *)
LEMMA CallsDecide ==
  ASSUME NEW calls, Len(calls) \in Nat, \A n \in 1..Len(calls) : calls[n] \in Answer
  PROVE  /\ FirstFailure(calls) \in Status \cup Exception
         /\ FirstFailure(calls) = "PASS" => \A n \in 1..Len(calls) : calls[n] = "ok"
         /\ FirstFailure(calls) # "PASS" =>
              \E n \in 1..Len(calls) : /\ calls[n] # "ok" /\ FirstFailure(calls) = calls[n]
                                       /\ \A k \in 1..(n-1) : calls[k] = "ok"
<1>1. /\ "ok" \notin Status \cup Exception /\ "PASS" \in Status
      /\ Answer \subseteq {"ok"} \cup Status \cup Exception
      /\ "PASS" \notin Answer
  BY DEF Answer, Status, Exception
<1> HIDE DEF Answer, Status, Exception, FirstFailure
<1> QED
  BY <1>1, FirstFailureValue

(* Every call gives one of the answers.                                    *)
LEMMA AnswerType ==
  /\ \A form : Load(form) \in Answer /\ ReadText(form) \in Answer /\ Use(form) \in Answer
  /\ \A document : Structure(document) \in Answer /\ BuildTask(document) \in Answer
  /\ \A document, policy, form : CheckPolicy(document, policy, form) \in Answer
  /\ \A i : CheckPatch(i) \in Answer
<1>1. {"ok", "OSError", "JSONDecodeError", "other", "VALIDATION_FAILURE",
       "TaskSpecValidationError", "POLICY_VIOLATION"} \subseteq Answer
  BY DEF Answer, Status, Exception
<1> HIDE DEF Answer, validate_task_spec_structure, CanBuild, PolicyRaises, PolicyViolations,
             PatchRaises, PatchValid
<1>2. \A form : Load(form) \in Answer /\ ReadText(form) \in Answer /\ Use(form) \in Answer
  BY <1>1 DEF Load, ReadText, Use
<1>3. \A document : Structure(document) \in Answer /\ BuildTask(document) \in Answer
  BY <1>1 DEF Structure, BuildTask
<1>4. \A document, policy, form : CheckPolicy(document, policy, form) \in Answer
  BY <1>1, Zenon DEF CheckPolicy
<1>5. \A i : CheckPatch(i) \in Answer
  BY <1>1, Zenon DEF CheckPatch
<1> QED
  BY <1>2, <1>3, <1>4, <1>5

(* The inductive invariant of the program.  The exit status says nothing   *)
(* of how it was earned, so the invariant keeps for every passing result   *)
(* the calls that must have been ok, and for every other one the call that *)
(* was not; and an evaluation that has begun keeps what validate-events    *)
(* found before it.                                                        *)
EvaluatingCommand == {"validate-events", "evaluate_event_stream"}

Typed ==
  /\ invocation \in Invocations
  /\ spec = ScopesOf(invocation.document.task)
  /\ result \in {"running"} \cup Status \cup Exception
  /\ result # "running" => invocation.command # "evaluate_event_stream"
  /\ exit \in {"running", ExitCode(result)}
  /\ result = "running" => exit = "running"

Started ==
  outcome # "evaluating" \/ stream # <<>> =>
    /\ invocation.command \in EvaluatingCommand
    /\ FirstFailure(EventCalls) = "PASS"

Deserved ==
  /\ invocation.command \in TaskCommand => BuildTask(invocation.document) = "ok"
  /\ invocation.command \in {"validate-task", "validate-policy"}
       /\ invocation.policy # NoPolicy =>
         CheckPolicy(invocation.document, invocation.policy, invocation.other) = "ok"
  /\ invocation.command = "validate-events" => outcome = "returned" /\ violations = {}
  /\ invocation.command = "validate-patch" => CheckPatch(invocation) = "ok"

Earned == result = "PASS" => Deserved

(* The call of the command that was answered by what is not "ok".          *)
Blame(answer) ==
  LET document == invocation.document
      command == invocation.command
  IN  /\ answer # "ok"
      /\ \/ command \in TaskCommand /\ answer = Load(document.form)
         \/ command = "validate-task" /\ Load(document.form) = "ok" /\ answer = Structure(document)
         \/ answer = Load(invocation.other)
         \/ command = "validate-patch" /\ answer = ReadText(invocation.other)
         \/ command \in {"validate-events", "compare-repo"} /\ answer = Use(invocation.other)
         \/ command \in TaskCommand /\ Load(document.form) = "ok" /\ answer = BuildTask(document)
         \/ /\ command \in {"validate-task", "validate-policy"} /\ invocation.policy # NoPolicy
            /\ Load(document.form) = "ok"
            /\ answer = CheckPolicy(document, invocation.policy, invocation.other)
         \/ command = "validate-patch" /\ answer = CheckPatch(invocation)
         \/ command = "validate-events" /\ outcome = "raised" /\ answer = "other"
         \/ /\ command = "validate-events" /\ outcome = "returned" /\ violations # {}
            /\ answer = "POLICY_VIOLATION"
         \/ command \in OtherCommand /\ answer = invocation.answer

Excused == result \notin {"running", "PASS"} => Blame(result)

CliIInv == EventIInv /\ Typed /\ Started /\ Earned /\ Excused

(* Nothing has run.                                                        *)
LEMMA InitCliIInv == CliInit => CliIInv
<1>1. SUFFICES ASSUME CliInit PROVE CliIInv
  OBVIOUS
<1>2. EventIInv
  BY <1>1, InitEventIInv DEF CliInit
<1>3. /\ invocation \in Invocations /\ spec = ScopesOf(invocation.document.task)
      /\ result = "running" /\ exit = "running"
      /\ outcome = "evaluating" /\ stream = <<>>
  BY <1>1 DEF CliInit, Init
<1>4. "running" # "PASS" /\ "running" \in {"running", "PASS"}
  OBVIOUS
<1> QED
  BY <1>2, <1>3, <1>4, Zenon DEF CliIInv, Typed, Started, Earned, Excused

(* The invocation and its spec stay, and so does every answer about them.  *)
LEMMA AnswersStay ==
  ASSUME UNCHANGED <<spec, invocation>>
  PROVE  /\ EventCalls' = EventCalls
         /\ CheckPolicy(invocation.document, invocation.policy, invocation.other)' =
              CheckPolicy(invocation.document, invocation.policy, invocation.other)
         /\ CheckPatch(invocation)' = CheckPatch(invocation)
<1>1. spec' = spec /\ invocation' = invocation
  OBVIOUS
<1> QED
  BY <1>1, Zenon DEF EventCalls, CheckPolicy, CheckPatch

(* What is to blame for an answer does not change while the command runs   *)
(* on.                                                                     *)
LEMMA BlameStays ==
  ASSUME UNCHANGED <<spec, invocation, outcome, violations>>, NEW answer, Blame(answer)
  PROVE  Blame(answer)'
<1> HIDE DEF CheckPolicy, CheckPatch
<1> QED
  BY AnswersStay, Zenon DEF Blame

(* A command that ends: its result is its first call that is not ok, and   *)
(* all the calls were ok if it passes.                                     *)
LEMMA EndIInv ==
  ASSUME CliIInv, NEW calls, End(calls), result = "running",
         invocation.command # "evaluate_event_stream",
         Len(calls) \in Nat, \A n \in 1..Len(calls) : calls[n] \in Answer,
         (\A n \in 1..Len(calls) : calls[n] = "ok") => Deserved,
         \A n \in 1..Len(calls) :
           calls[n] # "ok" /\ (\A k \in 1..(n-1) : calls[k] = "ok") => Blame(calls[n])
  PROVE  CliIInv'
<1>1. /\ result' = FirstFailure(calls) /\ invocation' = invocation /\ exit' = exit
      /\ UNCHANGED vars /\ spec' = spec /\ outcome' = outcome /\ stream' = stream
      /\ violations' = violations
  BY DEF End, vars
<1>2. EventIInv'
  BY <1>1, StandingIInv DEF CliIInv
<1>3. result' \in Status \cup Exception /\ result' # "running"
  <2>1. result' \in Status \cup Exception
    BY <1>1, CallsDecide
  <2> QED
    BY <2>1 DEF Status, Exception
<1>4. Typed'
  <2>1. exit = "running"
    BY DEF CliIInv, Typed
  <2> QED
    BY <1>1, <1>3, <2>1, Zenon DEF CliIInv, Typed
<1>5. Started'
  BY <1>1, AnswersStay, Zenon DEF CliIInv, Started
<1>6. Earned'
  <2>1. SUFFICES ASSUME result' = "PASS"
                 PROVE  \A n \in 1..Len(calls) : calls[n] = "ok"
    BY <1>1, AnswersStay, Zenon DEF Earned, Deserved
  <2> QED
    BY <1>1, <2>1, CallsDecide
<1>7. Excused'
  <2>1. SUFFICES ASSUME result' # "PASS" PROVE Blame(result)'
    BY Zenon DEF Excused
  <2>2. Blame(result')
    <3> HIDE DEF Blame
    <3> QED
      BY <1>1, <2>1, CallsDecide
  <2> HIDE DEF Blame
  <2>3. \A answer : Blame(answer) => Blame(answer)'
    BY <1>1, BlameStays
  <2> QED
    BY <2>2, <2>3
<1> QED
  BY <1>2, <1>4, <1>5, <1>6, <1>7, Zenon DEF CliIInv

(* The answers of a command, with and without a policy.                    *)
LEMMA Joined ==
  ASSUME NEW a, NEW b, NEW c, NEW d, NEW e
  PROVE  /\ LET s == <<a, b>> \o <<>> \o <<e>>
            IN  Len(s) = 3 /\ s[1] = a /\ s[2] = b /\ s[3] = e
         /\ LET s == <<a, b>> \o <<c, d>> \o <<e>>
            IN  Len(s) = 5 /\ s[1] = a /\ s[2] = b /\ s[3] = c /\ s[4] = d /\ s[5] = e
<1> DEFINE S == {a, b, c, d, e}
<1>1. <<a, b>> \in Seq(S) /\ <<c, d>> \in Seq(S) /\ <<e>> \in Seq(S) /\ <<>> \in Seq(S)
  OBVIOUS
<1> QED
  BY <1>1

(* The command validate-task.                                              *)
LEMMA ValidateTaskIInv == CliIInv /\ ValidateTask => CliIInv'
<1>1. SUFFICES ASSUME CliIInv, ValidateTask PROVE CliIInv'
  OBVIOUS
<1> DEFINE document == invocation.document
           calls == <<Load(document.form), Structure(document)>>
                    \o (IF invocation.policy = NoPolicy THEN <<>>
                        ELSE <<Load(invocation.other),
                               CheckPolicy(document, invocation.policy, invocation.other)>>)
                    \o <<BuildTask(document)>>
<1>2. result = "running" /\ invocation.command = "validate-task" /\ End(calls)
  BY <1>1, Zenon DEF ValidateTask, Running
<1>3. CASE invocation.policy = NoPolicy
  <2>1. calls = <<Load(document.form), Structure(document)>> \o <<>> \o <<BuildTask(document)>>
    BY <1>3, Zenon
  <2>2. /\ Len(calls) = 3 /\ calls[1] = Load(document.form)
        /\ calls[2] = Structure(document) /\ calls[3] = BuildTask(document)
    BY <2>1, Joined
  <2> HIDE DEF calls
  <2>3. \A n \in 1..Len(calls) : calls[n] \in Answer
    BY <2>2, AnswerType
  <2>4. (\A n \in 1..Len(calls) : calls[n] = "ok") => Deserved
    BY <1>2, <1>3, <2>2 DEF Deserved
  <2>5. Len(calls) \in Nat /\ invocation.command # "evaluate_event_stream"
    BY <1>2, <2>2
  <2>6. \A n \in 1..Len(calls) :
          calls[n] # "ok" /\ (\A k \in 1..(n-1) : calls[k] = "ok") => Blame(calls[n])
    BY <1>2, <2>2 DEF Blame, TaskCommand
  <2> QED
    BY <1>1, <1>2, <2>3, <2>4, <2>5, <2>6, EndIInv
<1>4. CASE invocation.policy # NoPolicy
  <2>1. calls = <<Load(document.form), Structure(document)>>
                \o <<Load(invocation.other),
                     CheckPolicy(document, invocation.policy, invocation.other)>>
                \o <<BuildTask(document)>>
    BY <1>4, Zenon
  <2>2. /\ Len(calls) = 5 /\ calls[1] = Load(document.form)
        /\ calls[2] = Structure(document) /\ calls[3] = Load(invocation.other)
        /\ calls[4] = CheckPolicy(document, invocation.policy, invocation.other)
        /\ calls[5] = BuildTask(document)
    BY <2>1, Joined
  <2> HIDE DEF calls
  <2>3. \A n \in 1..Len(calls) : calls[n] \in Answer
    BY <2>2, AnswerType
  <2>4. (\A n \in 1..Len(calls) : calls[n] = "ok") => Deserved
    BY <1>2, <2>2 DEF Deserved
  <2>5. \A n \in 1..Len(calls) :
          calls[n] # "ok" /\ (\A k \in 1..(n-1) : calls[k] = "ok") => Blame(calls[n])
    BY <1>2, <1>4, <2>2 DEF Blame, TaskCommand
  <2>6. Len(calls) \in Nat /\ invocation.command # "evaluate_event_stream"
    BY <1>2, <2>2
  <2> QED
    BY <1>1, <1>2, <2>3, <2>4, <2>5, <2>6, EndIInv
<1> QED
  BY <1>3, <1>4

(* The command validate-policy.                                            *)
LEMMA ValidatePolicyIInv == CliIInv /\ ValidatePolicy => CliIInv'
<1>1. SUFFICES ASSUME CliIInv, ValidatePolicy PROVE CliIInv'
  OBVIOUS
<1> DEFINE document == invocation.document
           calls == <<Load(document.form), Load(invocation.other),
                      CheckPolicy(document, invocation.policy, invocation.other)>>
<1>2. result = "running" /\ invocation.command = "validate-policy" /\ End(calls)
  BY <1>1, Zenon DEF ValidatePolicy, Running
<1>3. /\ Len(calls) = 3 /\ calls[1] = Load(document.form) /\ calls[2] = Load(invocation.other)
      /\ calls[3] = CheckPolicy(document, invocation.policy, invocation.other)
  OBVIOUS
<1> HIDE DEF calls
<1>4. \A n \in 1..Len(calls) : calls[n] \in Answer
  BY <1>3, AnswerType
<1>5. CheckPolicy(document, invocation.policy, invocation.other) = "ok" =>
        BuildTask(document) = "ok"
  <2> HIDE DEF BuildTask, PolicyRaises, PolicyViolations
  <2> QED
    BY Zenon DEF CheckPolicy
<1>6. (\A n \in 1..Len(calls) : calls[n] = "ok") => Deserved
  BY <1>2, <1>3, <1>5 DEF Deserved
<1>7. Len(calls) \in Nat /\ invocation.command # "evaluate_event_stream"
  BY <1>2, <1>3
<1>8. invocation.policy # NoPolicy
  BY <1>1, <1>2, CliAssumption DEF CliIInv, Typed
<1>9. \A n \in 1..Len(calls) :
        calls[n] # "ok" /\ (\A k \in 1..(n-1) : calls[k] = "ok") => Blame(calls[n])
  BY <1>2, <1>3, <1>8 DEF Blame, TaskCommand
<1> QED
  BY <1>1, <1>2, <1>4, <1>6, <1>7, <1>9, EndIInv

(* The calls of validate-events before its loop: an answer each, with its  *)
(* cause.                                                                  *)
LEMMA EventCallsType ==
  /\ Len(EventCalls) = 4
  /\ \A n \in 1..Len(EventCalls) : EventCalls[n] \in Answer
  /\ FirstFailure(EventCalls) = "PASS" => BuildTask(invocation.document) = "ok"
  /\ invocation.command = "validate-events" =>
       \A n \in 1..Len(EventCalls) :
         EventCalls[n] # "ok" /\ (\A k \in 1..(n-1) : EventCalls[k] = "ok") => Blame(EventCalls[n])
<1>1. /\ Len(EventCalls) = 4 /\ EventCalls[1] = Load(invocation.document.form)
      /\ EventCalls[2] = Load(invocation.other)
      /\ EventCalls[3] = BuildTask(invocation.document)
      /\ EventCalls[4] = Use(invocation.other)
  BY DEF EventCalls
<1> HIDE DEF EventCalls
<1>2. \A n \in 1..Len(EventCalls) : EventCalls[n] \in Answer
  BY <1>1, AnswerType
<1>3. invocation.command = "validate-events" =>
        \A n \in 1..Len(EventCalls) :
          EventCalls[n] # "ok" /\ (\A k \in 1..(n-1) : EventCalls[k] = "ok") => Blame(EventCalls[n])
  BY <1>1 DEF Blame, TaskCommand
<1>4. Len(EventCalls) \in Nat
  BY <1>1
<1>5. FirstFailure(EventCalls) = "PASS" => EventCalls[3] = "ok"
  <2> HIDE DEF FirstFailure
  <2>1. 3 \in 1..Len(EventCalls)
    BY <1>1
  <2> QED
    BY <1>2, <1>4, <2>1, CallsDecide
<1> HIDE DEF Blame, FirstFailure, Answer
<1> QED
  BY <1>1, <1>2, <1>3, <1>5, Zenon

(* The loop over the events, one event at a time.                          *)
LEMMA EvaluateEventsIInv == CliIInv /\ EvaluateEvents => CliIInv'
<1>1. SUFFICES ASSUME CliIInv, EvaluateEvents PROVE CliIInv'
  OBVIOUS
<1>2. /\ result = "running" /\ invocation.command \in EvaluatingCommand
      /\ FirstFailure(EventCalls) = "PASS" /\ Next
      /\ invocation' = invocation /\ result' = result /\ exit' = exit
  BY <1>1 DEF EvaluateEvents, Running, EvaluatingCommand, cliVars
<1>3. EventIInv'
  BY <1>1, <1>2, StepEventIInv DEF CliIInv
<1>4. spec' = spec
  BY <1>2, Zenon DEF Next, NonToolEvent, StructuredResult, UnknownTool, AllowedTool,
     ForbiddenTool, PathlessAction, FilesystemAction, EvaluationRaises, EntryRaises,
     Return, Take
<1>5. Typed'
  BY <1>1, <1>2, <1>4, Zenon DEF CliIInv, Typed
<1>6. Started'
  BY <1>2, <1>4, AnswersStay, Zenon DEF Started
<1>7. Earned'
  <2>1. result' # "PASS"
    BY <1>2
  <2> QED
    BY <2>1, Zenon DEF Earned
<1>8. Excused'
  BY <1>2, Zenon DEF Excused
<1> QED
  BY <1>3, <1>5, <1>6, <1>7, <1>8, Zenon DEF CliIInv

(* The command validate-events.                                            *)
LEMMA ValidateEventsIInv == CliIInv /\ ValidateEvents => CliIInv'
<1>1. SUFFICES ASSUME CliIInv, ValidateEvents PROVE CliIInv'
  OBVIOUS
<1>2. /\ result = "running" /\ invocation.command = "validate-events"
      /\ invocation.command # "evaluate_event_stream"
  BY <1>1 DEF ValidateEvents, Running
<1>3. CASE FirstFailure(EventCalls) # "PASS" /\ End(EventCalls)
  <2>1. \E n \in 1..Len(EventCalls) : EventCalls[n] # "ok"
    BY <1>3, FirstFailureValue, EventCallsType
  <2>2. Len(EventCalls) \in Nat
    BY EventCallsType
  <2> HIDE DEF EventCalls
  <2> QED
    BY <1>1, <1>2, <1>3, <2>1, <2>2, EventCallsType, EndIInv
<1>4. CASE outcome = "raised" /\ End(<<"other">>)
  <2> DEFINE calls == <<"other">>
  <2>1. Len(calls) = 1 /\ calls[1] = "other"
    OBVIOUS
  <2>2. "other" \in Answer
    BY DEF Answer, Exception
  <2> HIDE DEF calls
  <2>3. /\ Len(calls) \in Nat /\ \A n \in 1..Len(calls) : calls[n] \in Answer
        /\ \E n \in 1..Len(calls) : calls[n] # "ok"
    BY <2>1, <2>2
  <2>4. End(calls)
    BY <1>4 DEF calls
  <2>5. \A n \in 1..Len(calls) :
          calls[n] # "ok" /\ (\A k \in 1..(n-1) : calls[k] = "ok") => Blame(calls[n])
    BY <1>2, <1>4, <2>1 DEF Blame
  <2> QED
    BY <1>1, <1>2, <2>3, <2>4, <2>5, EndIInv
<1>5. CASE /\ outcome = "returned"
           /\ End(<<IF violations = {} THEN "ok" ELSE "POLICY_VIOLATION">>)
  <2> DEFINE calls == <<IF violations = {} THEN "ok" ELSE "POLICY_VIOLATION">>
  <2>1. Len(calls) = 1 /\ calls[1] = IF violations = {} THEN "ok" ELSE "POLICY_VIOLATION"
    OBVIOUS
  <2>2. "ok" \in Answer /\ "POLICY_VIOLATION" \in Answer
    BY DEF Answer, Status
  <2>3. End(calls)
    BY <1>5
  <2> HIDE DEF calls
  <2>4. Len(calls) \in Nat /\ \A n \in 1..Len(calls) : calls[n] \in Answer
    BY <2>1, <2>2
  <2>5. (\A n \in 1..Len(calls) : calls[n] = "ok") => violations = {}
    BY <2>1
  <2>6. BuildTask(invocation.document) = "ok"
    <3>1. FirstFailure(EventCalls) = "PASS"
      <4>1. outcome # "evaluating"
        BY <1>5
      <4> QED
        BY <1>1, <4>1 DEF CliIInv, Started
    <3> QED
      BY <3>1, EventCallsType
  <2>7. (\A n \in 1..Len(calls) : calls[n] = "ok") => Deserved
    BY <1>2, <1>5, <2>5, <2>6 DEF Deserved
  <2>8. \A n \in 1..Len(calls) :
          calls[n] # "ok" /\ (\A k \in 1..(n-1) : calls[k] = "ok") => Blame(calls[n])
    BY <1>2, <1>5, <2>1 DEF Blame
  <2> QED
    BY <1>1, <1>2, <2>3, <2>4, <2>7, <2>8, EndIInv
<1> QED
  BY <1>1, <1>3, <1>4, <1>5 DEF ValidateEvents

(* The command validate-patch.                                             *)
LEMMA ValidatePatchIInv == CliIInv /\ ValidatePatch => CliIInv'
<1>1. SUFFICES ASSUME CliIInv, ValidatePatch PROVE CliIInv'
  OBVIOUS
<1> DEFINE calls == <<Load(invocation.document.form), ReadText(invocation.other),
                      BuildTask(invocation.document), CheckPatch(invocation)>>
<1>2. result = "running" /\ invocation.command = "validate-patch" /\ End(calls)
  BY <1>1, Zenon DEF ValidatePatch, Running
<1>3. /\ Len(calls) = 4 /\ calls[1] = Load(invocation.document.form)
      /\ calls[2] = ReadText(invocation.other) /\ calls[3] = BuildTask(invocation.document)
      /\ calls[4] = CheckPatch(invocation)
  OBVIOUS
<1> HIDE DEF calls
<1>4. \A n \in 1..Len(calls) : calls[n] \in Answer
  BY <1>3, AnswerType
<1>5. (\A n \in 1..Len(calls) : calls[n] = "ok") => Deserved
  BY <1>2, <1>3 DEF Deserved
<1>6. Len(calls) \in Nat /\ invocation.command # "evaluate_event_stream"
  BY <1>2, <1>3
<1>7. \A n \in 1..Len(calls) :
        calls[n] # "ok" /\ (\A k \in 1..(n-1) : calls[k] = "ok") => Blame(calls[n])
  BY <1>2, <1>3 DEF Blame, TaskCommand
<1> QED
  BY <1>1, <1>2, <1>4, <1>5, <1>6, <1>7, EndIInv

(* The answers of the other commands, with and without a file to load.     *)
LEMMA JoinedOther ==
  ASSUME NEW a, NEW b, NEW c
  PROVE  /\ Len(<<>> \o <<c>>) = 1 /\ (<<>> \o <<c>>)[1] = c
         /\ LET s == <<a, b>> \o <<c>>
            IN  Len(s) = 3 /\ s[1] = a /\ s[2] = b /\ s[3] = c
<1> DEFINE S == {a, b, c}
<1>1. <<a, b>> \in Seq(S) /\ <<c>> \in Seq(S) /\ <<>> \in Seq(S)
  OBVIOUS
<1> QED
  BY <1>1

(* The other commands.                                                     *)
LEMMA RunOtherIInv == CliIInv /\ RunOther => CliIInv'
<1>1. SUFFICES ASSUME CliIInv, RunOther PROVE CliIInv'
  OBVIOUS
<1> DEFINE calls == (IF invocation.command = "compare-repo"
                     THEN <<Load(invocation.other), Use(invocation.other)>> ELSE <<>>)
                    \o <<invocation.answer>>
<1>2. result = "running" /\ invocation.command \in OtherCommand /\ End(calls)
  BY <1>1, Zenon DEF RunOther, Running
<1>3. \/ Len(calls) = 1 /\ calls[1] = invocation.answer
      \/ /\ invocation.command = "compare-repo"
         /\ Len(calls) = 3 /\ calls[1] = Load(invocation.other)
         /\ calls[2] = Use(invocation.other) /\ calls[3] = invocation.answer
  <2>1. CASE invocation.command = "compare-repo"
    <3>1. calls = <<Load(invocation.other), Use(invocation.other)>> \o <<invocation.answer>>
      BY <2>1, Zenon
    <3> QED
      BY <2>1, <3>1, JoinedOther
  <2>2. CASE invocation.command # "compare-repo"
    <3>1. calls = <<>> \o <<invocation.answer>>
      BY <2>2, Zenon
    <3> QED
      BY <3>1, JoinedOther
  <2> QED
    BY <2>1, <2>2
<1> HIDE DEF calls
<1>4. invocation.answer \in Answer
  BY <1>1, CliAssumption DEF CliIInv, Typed, Answer
<1>5. Len(calls) \in Nat /\ \A n \in 1..Len(calls) : calls[n] \in Answer
  BY <1>3, <1>4, AnswerType
<1>6. Deserved /\ invocation.command # "evaluate_event_stream"
  BY <1>2 DEF Deserved, OtherCommand, TaskCommand
<1>7. \A n \in 1..Len(calls) :
        calls[n] # "ok" /\ (\A k \in 1..(n-1) : calls[k] = "ok") => Blame(calls[n])
  BY <1>2, <1>3 DEF Blame
<1> QED
  BY <1>1, <1>2, <1>5, <1>6, <1>7, EndIInv

(* main turns the result into an exit status.                              *)
LEMMA MainIInv ==
  ASSUME CliIInv, main \/ UNCHANGED <<vars, cliVars>>
  PROVE  CliIInv'
<1>1. /\ UNCHANGED vars /\ invocation' = invocation /\ result' = result
      /\ spec' = spec /\ stream' = stream /\ violations' = violations /\ outcome' = outcome
      /\ \/ exit' = exit
         \/ result # "running" /\ exit' = ExitCode(result)
  BY DEF main, vars, cliVars
<1>2. EventIInv'
  BY <1>1, StandingIInv DEF CliIInv
<1>3. Typed'
  BY <1>1, Zenon DEF CliIInv, Typed
<1>4. Started'
  BY <1>1, AnswersStay, Zenon DEF CliIInv, Started
<1>5. Earned'
  BY <1>1, AnswersStay, Zenon DEF CliIInv, Earned, Deserved
<1>6. Excused'
  <2> HIDE DEF Blame
  <2>1. result \notin {"running", "PASS"} => Blame(result)'
    <3>1. \A answer : Blame(answer) => Blame(answer)'
      BY <1>1, BlameStays
    <3> QED
      BY <1>1, <3>1 DEF CliIInv, Excused
  <2> QED
    BY <1>1, <2>1, Zenon DEF Excused
<1> QED
  BY <1>2, <1>3, <1>4, <1>5, <1>6, Zenon DEF CliIInv

(* CliIInv is inductive.                                                   *)
THEOREM Inductive == CliSpec => []CliIInv
<1>1. CliInit => CliIInv
  BY InitCliIInv
<1>2. CliIInv /\ [CliNext]_<<vars, cliVars>> => CliIInv'
  <2>1. SUFFICES ASSUME CliIInv, [CliNext]_<<vars, cliVars>> PROVE CliIInv'
    OBVIOUS
  <2> QED
    BY <2>1, ValidateTaskIInv, ValidatePolicyIInv, EvaluateEventsIInv, ValidateEventsIInv,
       ValidatePatchIInv, RunOtherIInv, MainIInv DEF CliNext
<1> QED
  BY <1>1, <1>2, PTL DEF CliSpec

(* What the command line holds has its type, and only the two evaluating   *)
(* commands end an evaluation.                                             *)
THEOREM TypeCorrect == CliSpec => []CliTypeOK
<1>1. CliIInv => CliTypeOK
  <2>1. SUFFICES ASSUME CliIInv PROVE CliTypeOK
    OBVIOUS
  <2>2. /\ TypeOK
        /\ invocation.command \in TaskCommand \cup OtherCommand \cup {"evaluate_event_stream"}
    BY <2>1, CliAssumption DEF CliIInv, EventIInv, Typed
  <2>3. exit \in {"running"} \cup Status
    <3>1. \A ended : ExitCode(ended) \in Status
      BY DEF ExitCode, Status
    <3> QED
      BY <2>1, <3>1 DEF CliIInv, Typed
  <2> QED
    BY <2>1, <2>2, <2>3, Zenon DEF CliIInv, Typed, Started, CliTypeOK, EvaluatingCommand
<1> QED
  BY <1>1, Inductive, PTL

(* Whatever commands are given, an event stream is evaluated by the steps  *)
(* of evaluate_event_stream and by no others.                              *)
THEOREM EvaluatesBySteps == CliSpec => Spec
<1>1. CliInit => Init
  BY DEF CliInit
<1>2. [CliNext]_<<vars, cliVars>> => [Next]_vars
  <2>1. SUFFICES ASSUME [CliNext]_<<vars, cliVars>> PROVE [Next]_vars
    OBVIOUS
  <2>2. \A calls : End(calls) => UNCHANGED vars
    BY Zenon DEF End
  <2>3. ValidateTask \/ ValidatePolicy \/ ValidateEvents \/ ValidatePatch \/ RunOther =>
          UNCHANGED vars
    BY <2>2, Zenon DEF ValidateTask, ValidatePolicy, ValidateEvents, ValidatePatch, RunOther
  <2>4. EvaluateEvents => Next
    BY Zenon DEF EvaluateEvents
  <2>5. main \/ UNCHANGED <<vars, cliVars>> => UNCHANGED vars
    BY Zenon DEF main
  <2> QED
    BY <2>1, <2>3, <2>4, <2>5, Zenon DEF CliNext
<1> QED
  BY <1>1, <1>2, PTL DEF CliSpec, Spec

(* A plain event of a stream that is evaluated, by validate-events or      *)
(* directly, has a violation if and only if it breaks a rule, whatever     *)
(* came before it.                                                         *)
THEOREM VerdictIsExact == CliSpec => []VerdictExact
<1>1. CliIInv => VerdictExact
  BY DEF CliIInv, EventIInv
<1> QED
  BY <1>1, Inductive, PTL

(* Every reported path is one of that event's and is refused for a reason  *)
(* the TaskSpec gives; a result without violations counts no unknown tool, *)
(* and no shell or network tool unless some are allowed.                   *)
THEOREM ReportIsConsistent == CliSpec => []ReportConsistent
<1>1. CliIInv => ReportConsistent
  <2> HIDE DEF IsRepoPath, normalize_repo_path, validate_path_access, PathAction,
               extract_paths_from_event
  <2> QED
    BY DEF CliIInv, EventIInv, PathsTold, CountsTold, ReportConsistent
<1> QED
  BY <1>1, Inductive, PTL

-----------------------------------------------------------------------------
(* The parser.  Printed and Entries satisfy their recursive equations, by  *)
(* the argument of KeptEquation: there would be a shortest initial         *)
(* interval on which no function does.                                     *)
LEMMA PrintedEquation ==
  ASSUME NEW changes, Len(changes) \in Nat
  PROVE  Printed(changes) =
           [n \in 0..Len(changes) |->
              IF n = 0 THEN <<Line("other")>>
              ELSE Printed(changes)[n-1] \o GitLines(changes[n])]
<1> DEFINE Step(g, n) == IF n = 0 THEN <<Line("other")>> ELSE g[n-1] \o GitLines(changes[n])
           Equation(g, m) == g = [n \in 0..m |-> Step(g, n)]
           Without == {m \in 0..Len(changes) : ~ \E g : Equation(g, m)}
<1>1. ASSUME NEW m \in 0..Len(changes), m \in Without, \A k \in Without : m <= k
      PROVE  FALSE
  <2>0. m \in Nat /\ m <= Len(changes)
    OBVIOUS
  <2>1. CASE m = 0
    <3>1. Equation([n \in 0..0 |-> <<Line("other")>>], 0)
      OBVIOUS
    <3> QED
      BY <1>1, <2>1, <3>1
  <2>2. CASE m # 0
    <3>1. m - 1 \in 0..Len(changes) /\ ~ (m <= m - 1)
      BY <2>0, <2>2
    <3>2. PICK g : Equation(g, m - 1)
      BY <1>1, <3>1
    <3> DEFINE h == [n \in 0..m |-> Step(g, n)]
    <3> HIDE DEF Step
    <3>3. \A n \in 0..(m-1) : n \in 0..m /\ g[n] = Step(g, n) /\ h[n] = Step(g, n)
      BY <2>0, <3>2
    <3>4. \A n \in 0..m : n # 0 => n - 1 \in 0..(m-1)
      BY <2>0
    <3>5. \A n \in 0..m : Step(h, n) = Step(g, n)
      BY <3>3, <3>4, Zenon DEF Step
    <3>6. Equation(h, m)
      BY <3>5
    <3> QED
      BY <1>1, <3>6
  <2> QED
    BY <2>1, <2>2
<1>2. \E g : Equation(g, Len(changes))
  <2> HIDE DEF Equation
  <2>1. Without \subseteq Nat
    OBVIOUS
  <2>2. Without = {}
    BY <1>1, <2>1, LeastMember
  <2>3. Len(changes) \in 0..Len(changes)
    OBVIOUS
  <2> QED
    BY <2>2, <2>3
<1>3. Printed(changes) = CHOOSE g : Equation(g, Len(changes))
  BY DEF Printed
<1>4. Equation(Printed(changes), Len(changes))
  BY <1>2, <1>3
<1> QED
  BY <1>4

(* Entries(lines) satisfies its recursive equation.                        *)
LEMMA EntriesEquation ==
  ASSUME NEW lines, Len(lines) \in Nat
  PROVE  Entries(lines) =
           [n \in 0..Len(lines) |->
              IF n = 0 THEN <<>> ELSE ReadLine(Entries(lines)[n-1], lines[n])]
<1> DEFINE Step(g, n) == IF n = 0 THEN <<>> ELSE ReadLine(g[n-1], lines[n])
           Equation(g, m) == g = [n \in 0..m |-> Step(g, n)]
           Without == {m \in 0..Len(lines) : ~ \E g : Equation(g, m)}
<1> HIDE DEF ReadLine
<1>1. ASSUME NEW m \in 0..Len(lines), m \in Without, \A k \in Without : m <= k
      PROVE  FALSE
  <2>0. m \in Nat /\ m <= Len(lines)
    OBVIOUS
  <2>1. CASE m = 0
    <3>1. Equation([n \in 0..0 |-> <<>>], 0)
      OBVIOUS
    <3> QED
      BY <1>1, <2>1, <3>1
  <2>2. CASE m # 0
    <3>1. m - 1 \in 0..Len(lines) /\ ~ (m <= m - 1)
      BY <2>0, <2>2
    <3>2. PICK g : Equation(g, m - 1)
      BY <1>1, <3>1
    <3> DEFINE h == [n \in 0..m |-> Step(g, n)]
    <3> HIDE DEF Step
    <3>3. \A n \in 0..(m-1) : n \in 0..m /\ g[n] = Step(g, n) /\ h[n] = Step(g, n)
      BY <2>0, <3>2
    <3>4. \A n \in 0..m : n # 0 => n - 1 \in 0..(m-1)
      BY <2>0
    <3>5. \A n \in 0..m : Step(h, n) = Step(g, n)
      BY <3>3, <3>4, Zenon DEF Step
    <3>6. Equation(h, m)
      BY <3>5
    <3> QED
      BY <1>1, <3>6
  <2> QED
    BY <2>1, <2>2
<1>2. \E g : Equation(g, Len(lines))
  <2> HIDE DEF Equation
  <2>1. Without \subseteq Nat
    OBVIOUS
  <2>2. Without = {}
    BY <1>1, <2>1, LeastMember
  <2>3. Len(lines) \in 0..Len(lines)
    OBVIOUS
  <2> QED
    BY <2>2, <2>3
<1>3. Entries(lines) = CHOOSE g : Equation(g, Len(lines))
  BY DEF Entries
<1>4. Equation(Entries(lines), Len(lines))
  BY <1>2, <1>3
<1> QED
  BY <1>4

(* What is read of some lines does not depend on the lines after them, so  *)
(* one more line is one more turn of the loop.                             *)
LEMMA ParseOneMore ==
  ASSUME NEW L, NEW lines \in Seq(L), NEW line \in L
  PROVE  /\ parse_patch(<<>>) = <<>>
         /\ parse_patch(Append(lines, line)) = ReadLine(parse_patch(lines), line)
<1> DEFINE more == Append(lines, line)
           Differ == {n \in 0..Len(lines) : Entries(more)[n] # Entries(lines)[n]}
<1> HIDE DEF ReadLine
<1>1. /\ Len(lines) \in Nat /\ Len(more) \in Nat /\ Len(more) = Len(lines) + 1
      /\ \A n \in 1..Len(lines) : more[n] = lines[n]
      /\ more[Len(lines) + 1] = line
  BY AppendProperties
<1> HIDE DEF more
<1>2. \A n \in 0..Len(lines) :
        Entries(lines)[n] = IF n = 0 THEN <<>> ELSE ReadLine(Entries(lines)[n-1], lines[n])
  BY <1>1, EntriesEquation
<1>3. \A n \in 0..Len(more) :
        Entries(more)[n] = IF n = 0 THEN <<>> ELSE ReadLine(Entries(more)[n-1], more[n])
  BY <1>1, EntriesEquation
<1>4. Differ = {}
  <2>1. SUFFICES ASSUME Differ # {} PROVE FALSE
    OBVIOUS
  <2>2. Differ \subseteq Nat
    BY <1>1
  <2>3. PICK n \in Differ : \A k \in Differ : n <= k
    BY <2>1, <2>2, LeastMember
  <2>4. n \in 0..Len(lines) /\ n \in 0..Len(more)
    BY <1>1
  <2>5. CASE n = 0
    <3>1. Entries(more)[n] = <<>> /\ Entries(lines)[n] = <<>>
      BY <1>2, <1>3, <2>4, <2>5
    <3> QED
      BY <2>3, <3>1
  <2>6. CASE n # 0
    <3>1. n - 1 \in 0..Len(lines) /\ ~ (n <= n - 1) /\ n \in 1..Len(lines)
      BY <1>1, <2>4, <2>6
    <3>2. Entries(more)[n-1] = Entries(lines)[n-1]
      BY <2>3, <3>1
    <3>3. more[n] = lines[n]
      BY <1>1, <3>1
    <3>4. Entries(more)[n] = Entries(lines)[n]
      BY <1>2, <1>3, <2>4, <2>6, <3>2, <3>3
    <3> QED
      BY <2>3, <3>4
  <2> QED
    BY <2>5, <2>6
<1>5. Entries(more)[Len(lines)] = Entries(lines)[Len(lines)]
  <2>1. Len(lines) \in 0..Len(lines)
    BY <1>1
  <2> QED
    BY <1>4, <2>1
<1>6. /\ Len(more) \in 0..Len(more) /\ Len(more) # 0 /\ Len(more) - 1 = Len(lines)
  BY <1>1
<1>7. Entries(more)[Len(more)] = ReadLine(Entries(more)[Len(lines)], line)
  <2>1. more[Len(more)] = line
    BY <1>1
  <2> QED
    BY <1>3, <1>6, <2>1
<1>8. parse_patch(<<>>) = <<>>
  <2> DEFINE none == <<>>
  <2>1. Len(none) = 0 /\ Len(none) \in Nat /\ 0 \in 0..Len(none)
    OBVIOUS
  <2> HIDE DEF none
  <2>2. Entries(none)[0] = <<>>
    BY <2>1, EntriesEquation
  <2>3. parse_patch(none) = <<>>
    BY <2>1, <2>2 DEF parse_patch
  <2> QED
    BY <2>3 DEF none
<1> QED
  BY <1>5, <1>7, <1>8 DEF parse_patch, more

(* A header begins an entry, and every other line after it marks that one. *)
LEMMA MarkLast ==
  ASSUME NEW F, NEW files \in Seq(F), NEW file \in F, NEW line, line.kind # "header",
         Mark(file, line.kind) \in F
  PROVE  ReadLine(Append(files, file), line) = Append(files, Mark(file, line.kind))
<1> DEFINE old == Append(files, file)
           new == Append(files, Mark(file, line.kind))
           marked == Mark(file, line.kind)
           read == [old EXCEPT ![Len(old)] = marked]
<1> HIDE DEF Mark
<1>1. /\ old \in Seq(F) /\ Len(files) \in Nat /\ Len(old) = Len(files) + 1
      /\ old[Len(files) + 1] = file
      /\ \A n \in 1..Len(files) : old[n] = files[n]
  BY AppendProperties
<1>2. /\ new \in Seq(F) /\ Len(new) = Len(files) + 1
      /\ new[Len(files) + 1] = marked
      /\ \A n \in 1..Len(files) : new[n] = files[n]
  BY AppendProperties
<1> HIDE DEF old, new
<1>3. Len(old) \in 1..Len(old) /\ old # <<>> /\ old[Len(old)] = file
  BY <1>1
<1>4. ReadLine(old, line) = read
  <2>1. ReadLine(old, line) = [old EXCEPT ![Len(old)] = Mark(old[Len(old)], line.kind)]
    BY <1>3, Zenon DEF ReadLine
  <2> QED
    BY <1>3, <2>1
<1> HIDE DEF marked
<1>5. /\ read \in Seq(F) /\ Len(read) = Len(old)
      /\ \A n \in 1..Len(old) : read[n] = IF n = Len(old) THEN marked ELSE old[n]
  <2>1. marked \in F
    BY DEF marked
  <2> QED
    BY <1>1, <1>3, <2>1, ExceptSeq
<1> HIDE DEF read
<1>6. \A n \in 1..Len(read) : read[n] = new[n]
  BY <1>1, <1>2, <1>5
<1>7. read = new
  BY <1>1, <1>2, <1>5, <1>6, SeqEqual
<1> QED
  BY <1>4, <1>7 DEF old, new

(* The entry a change should give.                                         *)
EntryOf(change) ==
  [old_path |-> change.old, new_path |-> change.new, is_new |-> change.kind = "create",
   is_deleted |-> change.kind = "delete", is_rename |-> change.kind \in {"rename", "copy"},
   is_binary |-> change.kind = "binary"]

Entry == [old_path : Seq(RawSegment), new_path : Seq(RawSegment), is_new : BOOLEAN,
          is_deleted : BOOLEAN, is_rename : BOOLEAN, is_binary : BOOLEAN]
LineKind == {"header", "other", "new_file_mode", "deleted_file_mode", "rename",
             "binary_files_differ"}
PatchLine == [kind : LineKind, old : Seq(RawSegment), new : Seq(RawSegment)]

(* Concatenation and append commute.                                       *)
LEMMA ConcatAppend ==
  ASSUME NEW L, NEW s \in Seq(L), NEW t \in Seq(L), NEW x \in L
  PROVE  s \o Append(t, x) = Append(s \o t, x)
<1>1. <<x>> \in Seq(L) /\ s \o t \in Seq(L)
  BY ConcatProperties
<1>2. Append(t, x) = t \o <<x>> /\ Append(s \o t, x) = (s \o t) \o <<x>>
  BY <1>1, AppendIsConcat
<1> QED
  BY <1>1, <1>2, ConcatAssociative

(* Lines that are joined to others are appended one by one.                *)
Chain(s, t) == s \o t
Added(s, x) == Append(s, x)
One(x) == <<x>>
Two(x, y) == <<x, y>>
Three(x, y, z) == <<x, y, z>>
Four(w, x, y, z) == <<w, x, y, z>>

(* The same, of the operators that hide them from the solvers.             *)
LEMMA ChainAdded ==
  ASSUME NEW L, NEW s \in Seq(L), NEW t \in Seq(L), NEW x \in L
  PROVE  Chain(s, Added(t, x)) = Added(Chain(s, t), x)
<1>1. s \o Append(t, x) = Append(s \o t, x)
  BY ConcatAppend
<1> QED
  BY <1>1, Zenon DEF Chain, Added

(* A sequence with one more element is one.                                *)
LEMMA AddedType ==
  ASSUME NEW L, NEW s \in Seq(L), NEW x \in L
  PROVE  Added(s, x) \in Seq(L)
  BY AppendProperties DEF Added

(* Parsing one more line reads it into what was parsed.                    *)
LEMMA ParseAdded ==
  ASSUME NEW lines \in Seq(PatchLine), NEW line \in PatchLine
  PROVE  parse_patch(Added(lines, line)) = ReadLine(parse_patch(lines), line)
<1> HIDE DEF PatchLine, ReadLine
<1>1. parse_patch(Append(lines, line)) = ReadLine(parse_patch(lines), line)
  BY ParseOneMore
<1> QED
  BY <1>1, Zenon DEF Added

(* A line that opens no entry marks the last one.                          *)
LEMMA MarkAdded ==
  ASSUME NEW F, NEW files \in Seq(F), NEW file \in F, NEW line, line.kind # "header",
         Mark(file, line.kind) \in F
  PROVE  ReadLine(Added(files, file), line) = Added(files, Mark(file, line.kind))
<1> HIDE DEF ReadLine, Mark
<1>1. ReadLine(Append(files, file), line) = Append(files, Mark(file, line.kind))
  BY MarkLast
<1> QED
  BY <1>1, Zenon DEF Added

(* One, two, three and four lines are sequences, and appended one by one.  *)
LEMMA OneLine ==
  ASSUME NEW L, NEW s \in Seq(L), NEW x \in L
  PROVE  /\ One(x) \in Seq(L)
         /\ Chain(s, One(x)) = Added(s, x)
<1> DEFINE one == One(x)
<1>1. one = <<x>> /\ one \in Seq(L)
  BY DEF One
<1> HIDE DEF one
<1>2. s \o one = Append(s, x)
  BY <1>1, AppendIsConcat, Zenon
<1>3. Chain(s, one) = Added(s, x)
  BY <1>2, Zenon DEF Chain, Added
<1> QED
  BY <1>1, <1>3 DEF one

LEMMA TwoLines ==
  ASSUME NEW L, NEW s \in Seq(L), NEW x \in L, NEW y \in L
  PROVE  /\ Two(x, y) \in Seq(L)
         /\ Chain(s, Two(x, y)) = Added(Added(s, x), y)
<1>1. One(x) \in Seq(L) /\ Chain(s, One(x)) = Added(s, x)
  BY OneLine
<1>2. Two(x, y) \in Seq(L) /\ Two(x, y) = Added(One(x), y)
  BY DEF One, Two, Added
<1> QED
  BY <1>1, <1>2, ChainAdded

LEMMA ThreeLines ==
  ASSUME NEW L, NEW s \in Seq(L), NEW x \in L, NEW y \in L, NEW z \in L
  PROVE  /\ Three(x, y, z) \in Seq(L)
         /\ Chain(s, Three(x, y, z)) = Added(Added(Added(s, x), y), z)
<1>1. Two(x, y) \in Seq(L) /\ Chain(s, Two(x, y)) = Added(Added(s, x), y)
  BY TwoLines
<1>2. Three(x, y, z) \in Seq(L) /\ Three(x, y, z) = Added(Two(x, y), z)
  BY DEF Two, Three, Added
<1> QED
  BY <1>1, <1>2, ChainAdded

LEMMA FourLines ==
  ASSUME NEW L, NEW s \in Seq(L), NEW w \in L, NEW x \in L, NEW y \in L, NEW z \in L
  PROVE  /\ Four(w, x, y, z) \in Seq(L)
         /\ Chain(s, Four(w, x, y, z)) = Added(Added(Added(Added(s, w), x), y), z)
<1>1. Three(w, x, y) \in Seq(L) /\ Chain(s, Three(w, x, y)) = Added(Added(Added(s, w), x), y)
  BY ThreeLines
<1>2. Four(w, x, y, z) \in Seq(L) /\ Four(w, x, y, z) = Added(Three(w, x, y), z)
  BY DEF Three, Four, Added
<1> QED
  BY <1>1, <1>2, ChainAdded

(* A line and those that follow it.                                        *)
LEMMA Spliced ==
  ASSUME NEW L, NEW w \in L, NEW x \in L, NEW y \in L, NEW z \in L
  PROVE  /\ Chain(One(x), One(y)) = Two(x, y)
         /\ Chain(One(x), Two(y, z)) = Three(x, y, z)
         /\ Chain(One(w), Three(x, y, z)) = Four(w, x, y, z)
<1>1. /\ One(x) \in Seq(L) /\ One(w) \in Seq(L)
      /\ Two(x, y) = Added(One(x), y) /\ Two(w, x) = Added(One(w), x)
      /\ Three(x, y, z) = Added(Two(x, y), z) /\ Three(w, x, y) = Added(Two(w, x), y)
      /\ Four(w, x, y, z) = Added(Three(w, x, y), z)
  <2>1. One(x) \in Seq(L) /\ One(w) \in Seq(L)
    BY DEF One
  <2>2. Two(x, y) = Added(One(x), y) /\ Two(w, x) = Added(One(w), x)
    BY DEF One, Two, Added
  <2>3. Three(x, y, z) = Added(Two(x, y), z) /\ Three(w, x, y) = Added(Two(w, x), y)
    BY DEF Two, Three, Added
  <2>4. Four(w, x, y, z) = Added(Three(w, x, y), z)
    BY DEF Three, Four, Added
  <2> QED
    BY <2>1, <2>2, <2>3, <2>4
<1>2. Chain(One(x), One(y)) = Two(x, y)
  BY <1>1, OneLine
<1>3. Chain(One(x), Two(y, z)) = Three(x, y, z)
  BY <1>1, TwoLines
<1>4. Chain(One(w), Three(x, y, z)) = Four(w, x, y, z)
  BY <1>1, ThreeLines
<1> QED
  BY <1>2, <1>3, <1>4

(* An entry is put together from its parts.                                *)
LEMMA EntryType ==
  ASSUME NEW old \in Seq(RawSegment), NEW new \in Seq(RawSegment),
         NEW p \in BOOLEAN, NEW q \in BOOLEAN, NEW r \in BOOLEAN, NEW s \in BOOLEAN
  PROVE  [old_path |-> old, new_path |-> new, is_new |-> p, is_deleted |-> q,
          is_rename |-> r, is_binary |-> s] \in Entry
  BY DEF Entry

(* Reading what git prints for one change appends that change's entry.     *)
LEMMA ReadChange ==
  ASSUME NEW change \in Change, change.kind # "quoted",
         NEW lines \in Seq(PatchLine), parse_patch(lines) \in Seq(Entry)
  PROVE  /\ Chain(lines, GitLines(change)) \in Seq(PatchLine)
         /\ parse_patch(Chain(lines, GitLines(change))) =
              Added(parse_patch(lines), EntryOf(change))
         /\ EntryOf(change) \in Entry
<1> DEFINE header == [kind |-> "header", old |-> change.old, new |-> change.new]
           begun == ParsedPatchFile(header)
<1> HIDE DEF RawSegment, DevNull
<1>1. /\ change.kind \in ChangeKind
      /\ change.old \in Seq(RawSegment) /\ change.new \in Seq(RawSegment)
      /\ change.old # change.new <=> change.kind \in {"rename", "copy"}
  BY DEF Change, RawPath
<1>2. header \in PatchLine /\ header.kind = "header"
  BY <1>1 DEF PatchLine, LineKind
<1>3. \A kind \in LineKind : Line(kind) \in PatchLine /\ Line(kind).kind = kind
  <2>1. <<>> \in Seq(RawSegment)
    OBVIOUS
  <2> QED
    BY <2>1 DEF Line, PatchLine
<1>4. begun = [old_path |-> change.old, new_path |-> change.new, is_new |-> FALSE,
               is_deleted |-> FALSE, is_rename |-> change.kind \in {"rename", "copy"},
               is_binary |-> FALSE]
  <2>1. (change.old # change.new) = (change.kind \in {"rename", "copy"})
    BY <1>1
  <2>2. header.old = change.old /\ header.new = change.new
    OBVIOUS
  <2> HIDE DEF header
  <2> QED
    BY <2>1, <2>2, Zenon DEF ParsedPatchFile
<1>5. begun \in Entry /\ EntryOf(change) \in Entry
  <2>1. /\ FALSE \in BOOLEAN /\ (change.kind = "create") \in BOOLEAN
        /\ (change.kind = "delete") \in BOOLEAN /\ (change.kind = "binary") \in BOOLEAN
        /\ (change.kind \in {"rename", "copy"}) \in BOOLEAN
    OBVIOUS
  <2>2. begun \in Entry
    BY <1>1, <1>4, <2>1, EntryType, Zenon
  <2>3. EntryOf(change) \in Entry
    BY <1>1, <2>1, EntryType, Zenon DEF EntryOf
  <2> QED
    BY <2>2, <2>3
<1>6. parse_patch(Added(lines, header)) = Added(parse_patch(lines), begun)
  <2>1. ReadLine(parse_patch(lines), header) = Added(parse_patch(lines), begun)
    BY <1>2, Zenon DEF ReadLine, Added
  <2> HIDE DEF header, begun, ReadLine
  <2> QED
    BY <1>2, <2>1, ParseAdded
<1> HIDE DEF header, begun
(* One more line that is no header.                                        *)
<1>7. ASSUME NEW read \in Seq(PatchLine), NEW file \in Entry, NEW kind \in LineKind,
             kind # "header", parse_patch(read) = Added(parse_patch(lines), file),
             Mark(file, kind) \in Entry
      PROVE  /\ Added(read, Line(kind)) \in Seq(PatchLine)
             /\ parse_patch(Added(read, Line(kind))) =
                  Added(parse_patch(lines), Mark(file, kind))
  <2>1. Line(kind) \in PatchLine /\ Line(kind).kind = kind
    BY <1>3
  <2>2. parse_patch(Added(read, Line(kind))) = ReadLine(Added(parse_patch(lines), file), Line(kind))
    BY <1>7, <2>1, ParseAdded
  <2>3. Added(read, Line(kind)) \in Seq(PatchLine)
    BY <2>1, AddedType
  <2> HIDE DEF Line, Mark, ReadLine
  <2> QED
    BY <1>7, <2>1, <2>2, <2>3, MarkAdded
<1>8. Added(lines, header) \in Seq(PatchLine)
  BY <1>2, AddedType
<1> DEFINE R(n, d, r, b) ==
             [old_path |-> change.old, new_path |-> change.new, is_new |-> n,
              is_deleted |-> d, is_rename |-> r, is_binary |-> b]
(* The marks, on an entry of this change.                                  *)
<1>9. ASSUME NEW n \in BOOLEAN, NEW d \in BOOLEAN, NEW r \in BOOLEAN, NEW b \in BOOLEAN
      PROVE  /\ R(n, d, r, b) \in Entry
             /\ Mark(R(n, d, r, b), "other") = R(n, d, r, b)
             /\ Mark(R(n, d, r, b), "new_file_mode") = R(TRUE, d, r, b)
             /\ Mark(R(n, d, r, b), "deleted_file_mode") = R(n, TRUE, r, b)
             /\ Mark(R(n, d, r, b), "rename") = R(n, d, TRUE, b)
             /\ Mark(R(n, d, r, b), "binary_files_differ") = R(n, d, r, TRUE)
  <2>1. R(n, d, r, b) \in Entry
    BY <1>1, EntryType
  <2> QED
    BY <2>1 DEF Mark
<1>10. begun = R(FALSE, FALSE, change.kind \in {"rename", "copy"}, FALSE)
  BY <1>4
<1>11. EntryOf(change) = R(change.kind = "create", change.kind = "delete",
                           change.kind \in {"rename", "copy"}, change.kind = "binary")
  BY Zenon DEF EntryOf
<1>12. /\ "other" \in LineKind /\ "new_file_mode" \in LineKind /\ "rename" \in LineKind
       /\ "deleted_file_mode" \in LineKind /\ "binary_files_differ" \in LineKind
  BY DEF LineKind
<1>13. \A kind \in LineKind : Line(kind) \in PatchLine
  BY <1>3
<1> DEFINE l == Added(lines, header)
           f == parse_patch(lines)
           moved == change.kind \in {"rename", "copy"}
<1>14. l \in Seq(PatchLine) /\ parse_patch(l) = Added(f, R(FALSE, FALSE, moved, FALSE))
  BY <1>6, <1>8, <1>10
<1>15. moved \in BOOLEAN
  OBVIOUS
<1> HIDE DEF R, l, f, moved, Line, Mark, EntryOf, Entry, PatchLine, LineKind
<1> DEFINE plain == R(FALSE, FALSE, moved, FALSE)
           new == R(TRUE, FALSE, moved, FALSE)
           deleted == R(FALSE, TRUE, moved, FALSE)
           binary == R(FALSE, FALSE, moved, TRUE)
           renamed == R(FALSE, FALSE, TRUE, FALSE)
<1>16. /\ plain \in Entry /\ new \in Entry /\ deleted \in Entry /\ binary \in Entry
       /\ renamed \in Entry
       /\ Mark(plain, "other") = plain /\ Mark(new, "other") = new
       /\ Mark(deleted, "other") = deleted
       /\ Mark(plain, "new_file_mode") = new /\ Mark(plain, "deleted_file_mode") = deleted
       /\ Mark(plain, "binary_files_differ") = binary
       /\ Mark(plain, "rename") = renamed /\ Mark(renamed, "rename") = renamed
  <2>1. TRUE \in BOOLEAN /\ FALSE \in BOOLEAN
    OBVIOUS
  <2> QED
    BY <1>9, <1>15, <2>1, Zenon
<1>17. parse_patch(l) = Added(f, plain)
  BY <1>14
<1> HIDE DEF plain, new, deleted, binary, renamed
<1>18. /\ Line("other") \in PatchLine /\ Line("new_file_mode") \in PatchLine
       /\ Line("rename") \in PatchLine /\ Line("deleted_file_mode") \in PatchLine
       /\ Line("binary_files_differ") \in PatchLine
  BY <1>12, <1>13
(* Two and three lines after the header.                                   *)
<1>19. ASSUME NEW a \in LineKind, NEW b \in LineKind, a # "header", b # "header",
              NEW one \in Entry, NEW two \in Entry, Mark(plain, a) = one, Mark(one, b) = two,
              GitLines(change) = Three(header, Line(a), Line(b))
       PROVE  /\ Chain(lines, GitLines(change)) \in Seq(PatchLine)
              /\ parse_patch(Chain(lines, GitLines(change))) = Added(f, two)
  <2> DEFINE l1 == Added(l, Line(a))
             l2 == Added(l1, Line(b))
  <2>1. Line(a) \in PatchLine /\ Line(b) \in PatchLine
    BY <1>13, <1>19
  <2>2. Chain(lines, Three(header, Line(a), Line(b))) = l2
    BY <1>2, <2>1, ThreeLines DEF l
  <2>3. l1 \in Seq(PatchLine) /\ parse_patch(l1) = Added(f, one)
    BY <1>7, <1>14, <1>16, <1>17, <1>19 DEF f
  <2> HIDE DEF l1
  <2>4. l2 \in Seq(PatchLine) /\ parse_patch(l2) = Added(f, two)
    BY <1>7, <1>19, <2>3 DEF f
  <2> QED
    BY <1>19, <2>2, <2>4
<1>20. ASSUME NEW a \in LineKind, NEW b \in LineKind, NEW c \in LineKind,
              a # "header", b # "header", c # "header",
              NEW one \in Entry, NEW two \in Entry, NEW three \in Entry,
              Mark(plain, a) = one, Mark(one, b) = two, Mark(two, c) = three,
              GitLines(change) = Four(header, Line(a), Line(b), Line(c))
       PROVE  /\ Chain(lines, GitLines(change)) \in Seq(PatchLine)
              /\ parse_patch(Chain(lines, GitLines(change))) = Added(f, three)
  <2> DEFINE l1 == Added(l, Line(a))
             l2 == Added(l1, Line(b))
             l3 == Added(l2, Line(c))
  <2>1. Line(a) \in PatchLine /\ Line(b) \in PatchLine /\ Line(c) \in PatchLine
    BY <1>13, <1>20
  <2>2. Chain(lines, Four(header, Line(a), Line(b), Line(c))) = l3
    BY <1>2, <2>1, FourLines DEF l
  <2>3. l1 \in Seq(PatchLine) /\ parse_patch(l1) = Added(f, one)
    BY <1>7, <1>14, <1>16, <1>17, <1>20 DEF f
  <2> HIDE DEF l1
  <2>4. l2 \in Seq(PatchLine) /\ parse_patch(l2) = Added(f, two)
    BY <1>7, <1>20, <2>3 DEF f
  <2> HIDE DEF l2
  <2>5. l3 \in Seq(PatchLine) /\ parse_patch(l3) = Added(f, three)
    BY <1>7, <1>20, <2>4 DEF f
  <2> QED
    BY <1>20, <2>2, <2>5
<1>21. /\ "new_file_mode" # "header" /\ "deleted_file_mode" # "header" /\ "rename" # "header"
       /\ "other" # "header" /\ "binary_files_differ" # "header"
  OBVIOUS
<1>22. CASE change.kind = "create"
  <2>1. GitLines(change) = Three(header, Line("new_file_mode"), Line("other"))
    <3>1. GitLines(change) = Chain(One(header), Two(Line("new_file_mode"), Line("other")))
      BY <1>22, Zenon DEF GitLines, header, Chain, One, Two
    <3> QED
      BY <1>2, <1>18, <3>1, Spliced
  <2>2. EntryOf(change) = new
    BY <1>11, <1>22 DEF moved, new
  <2>3. /\ Chain(lines, GitLines(change)) \in Seq(PatchLine)
        /\ parse_patch(Chain(lines, GitLines(change))) = Added(f, new)
    BY <1>12, <1>16, <1>19, <1>21, <2>1
  <2> QED
    BY <1>5, <2>2, <2>3 DEF f
<1>23. CASE change.kind = "delete"
  <2>1. GitLines(change) = Three(header, Line("deleted_file_mode"), Line("other"))
    <3>1. GitLines(change) = Chain(One(header), Two(Line("deleted_file_mode"), Line("other")))
      BY <1>23, Zenon DEF GitLines, header, Chain, One, Two
    <3> QED
      BY <1>2, <1>18, <3>1, Spliced
  <2>2. EntryOf(change) = deleted
    BY <1>11, <1>23 DEF moved, deleted
  <2>3. /\ Chain(lines, GitLines(change)) \in Seq(PatchLine)
        /\ parse_patch(Chain(lines, GitLines(change))) = Added(f, deleted)
    BY <1>12, <1>16, <1>19, <1>21, <2>1
  <2> QED
    BY <1>5, <2>2, <2>3 DEF f
<1>24. CASE change.kind = "binary"
  <2>1. GitLines(change) = Three(header, Line("other"), Line("binary_files_differ"))
    <3>1. GitLines(change) = Chain(One(header), Two(Line("other"), Line("binary_files_differ")))
      BY <1>24, Zenon DEF GitLines, header, Chain, One, Two
    <3> QED
      BY <1>2, <1>18, <3>1, Spliced
  <2>2. EntryOf(change) = binary
    BY <1>11, <1>24 DEF moved, binary
  <2>3. /\ Chain(lines, GitLines(change)) \in Seq(PatchLine)
        /\ parse_patch(Chain(lines, GitLines(change))) = Added(f, binary)
    BY <1>12, <1>16, <1>19, <1>21, <2>1
  <2> QED
    BY <1>5, <2>2, <2>3 DEF f
<1>25. CASE change.kind = "rename"
  <2>1. GitLines(change) = Four(header, Line("other"), Line("rename"), Line("rename"))
    <3>1. GitLines(change) =
            Chain(One(header), Three(Line("other"), Line("rename"), Line("rename")))
      BY <1>25, Zenon DEF GitLines, header, Chain, One, Three
    <3> QED
      BY <1>2, <1>18, <3>1, Spliced
  <2>2. EntryOf(change) = renamed
    BY <1>11, <1>25 DEF moved, renamed
  <2>3. /\ Chain(lines, GitLines(change)) \in Seq(PatchLine)
        /\ parse_patch(Chain(lines, GitLines(change))) = Added(f, renamed)
    BY <1>12, <1>16, <1>20, <1>21, <2>1
  <2> QED
    BY <1>5, <2>2, <2>3 DEF f
<1>26. CASE change.kind \in {"modify", "copy"}
  <2>1. GitLines(change) = Two(header, Line("other"))
    <3>1. GitLines(change) = Chain(One(header), One(Line("other")))
      BY <1>26, Zenon DEF GitLines, header, Chain, One
    <3> QED
      BY <1>2, <1>18, <3>1, Spliced
  <2>2. Chain(lines, Two(header, Line("other"))) = Added(l, Line("other"))
    BY <1>2, <1>18, TwoLines DEF l
  <2>3. EntryOf(change) = plain
    BY <1>11, <1>26 DEF moved, plain
  <2>4. /\ Added(l, Line("other")) \in Seq(PatchLine)
        /\ parse_patch(Added(l, Line("other"))) = Added(f, plain)
    BY <1>7, <1>12, <1>14, <1>16, <1>17, <1>21 DEF f
  <2> QED
    BY <1>5, <2>1, <2>2, <2>3, <2>4 DEF f
<1> QED
  BY <1>1, <1>22, <1>23, <1>24, <1>25, <1>26 DEF ChangeKind

(* A line of no mark leaves the entries as they are.                       *)
LEMMA OtherLine ==
  ASSUME NEW F, NEW files \in Seq(F), NEW line, line.kind = "other"
  PROVE  ReadLine(files, line) = files
<1>1. /\ line.kind # "header" /\ line.kind # "new_file_mode"
      /\ line.kind # "deleted_file_mode" /\ line.kind # "rename"
      /\ line.kind # "binary_files_differ"
  OBVIOUS
<1>2. \A file : Mark(file, line.kind) = file
  BY <1>1, Zenon DEF Mark
<1>3. CASE files = <<>>
  BY <1>1, <1>3, Zenon DEF ReadLine
<1>4. CASE files # <<>>
  <2> HIDE DEF Mark
  <2>1. ReadLine(files, line) = [files EXCEPT ![Len(files)] = Mark(files[Len(files)], line.kind)]
    BY <1>1, <1>4, Zenon DEF ReadLine
  <2>2. [files EXCEPT ![Len(files)] = files[Len(files)]] = files
    OBVIOUS
  <2> QED
    BY <1>2, <2>1, <2>2
<1> QED
  BY <1>3, <1>4

(* A change whose names are quoted is read as if it were not there.        *)
LEMMA SkipQuoted ==
  ASSUME NEW change, change.kind = "quoted",
         NEW lines \in Seq(PatchLine), parse_patch(lines) \in Seq(Entry)
  PROVE  /\ Chain(lines, GitLines(change)) \in Seq(PatchLine)
         /\ parse_patch(Chain(lines, GitLines(change))) = parse_patch(lines)
<1> DEFINE other == Line("other")
           once == Added(lines, other)
           twice == Added(once, other)
<1>1. other \in PatchLine /\ other.kind = "other"
  <2>1. <<>> \in Seq(RawSegment)
    OBVIOUS
  <2> QED
    BY <2>1 DEF Line, PatchLine, LineKind
<1> HIDE DEF PatchLine, Entry, ReadLine
<1>2. GitLines(change) = Chain(One(other), One(other))
  <2>1. /\ "quoted" # "create" /\ "quoted" # "delete" /\ "quoted" # "binary"
        /\ "quoted" # "rename"
    OBVIOUS
  <2> QED
    BY <2>1, Zenon DEF GitLines, Chain, One
<1> HIDE DEF other, once, twice
<1>3. Chain(lines, GitLines(change)) = twice
  BY <1>1, <1>2, Spliced, TwoLines DEF once, twice
<1>4. once \in Seq(PatchLine) /\ parse_patch(once) = parse_patch(lines)
  BY <1>1, AddedType, ParseAdded, OtherLine DEF once
<1>5. twice \in Seq(PatchLine) /\ parse_patch(twice) = parse_patch(lines)
  BY <1>1, <1>4, AddedType, ParseAdded, OtherLine DEF twice
<1> QED
  BY <1>3, <1>5

(* What is printed before the first change, and with each.                 *)
LEMMA PrintedLines ==
  ASSUME NEW changes \in Seq(Change)
  PROVE  /\ Printed(changes)[0] \in Seq(PatchLine)
         /\ parse_patch(Printed(changes)[0]) = <<>>
         /\ \A k \in 1..Len(changes) :
              Printed(changes)[k] = Chain(Printed(changes)[k-1], GitLines(changes[k]))
<1> DEFINE lines == Printed(changes)
<1>1. Len(changes) \in Nat
  OBVIOUS
<1> HIDE DEF Change, PatchLine, Entry, EntryOf
<1>2. /\ lines[0] = <<Line("other")>>
      /\ \A k \in 1..Len(changes) : lines[k] = Chain(lines[k-1], GitLines(changes[k]))
  <2>1. lines = [n \in 0..Len(changes) |->
                   IF n = 0 THEN <<Line("other")>> ELSE lines[n-1] \o GitLines(changes[n])]
    BY <1>1, PrintedEquation
  <2>2. 0 \in 0..Len(changes) /\ \A k \in 1..Len(changes) : k \in 0..Len(changes) /\ k # 0
    BY <1>1
  <2>3. \A k \in 0..Len(changes) :
          lines[k] = IF k = 0 THEN <<Line("other")>> ELSE lines[k-1] \o GitLines(changes[k])
    BY <2>1, Zenon
  <2>4. \A k \in 1..Len(changes) : lines[k] = lines[k-1] \o GitLines(changes[k])
    BY <2>2, <2>3, Zenon
  <2> QED
    BY <2>2, <2>3, <2>4, Zenon DEF Chain
<1> HIDE DEF lines
<1>3. lines[0] \in Seq(PatchLine) /\ parse_patch(lines[0]) = <<>>
  <2> DEFINE none == <<>>
             other == Line("other")
  <2>1. /\ other \in PatchLine /\ other.kind # "header"
        /\ none \in Seq(PatchLine) /\ none \in Seq(Entry) /\ Len(none) = 0
        /\ lines[0] = Added(none, other)
    <3>1. <<>> \in Seq(RawSegment)
      OBVIOUS
    <3>2. other \in PatchLine /\ other.kind # "header"
      BY <3>1 DEF Line, PatchLine, LineKind
    <3> HIDE DEF other
    <3>3. Append(<<>>, other) = <<other>>
      OBVIOUS
    <3> QED
      BY <1>2, <3>2, <3>3 DEF Added, other
  <2>2. parse_patch(none) = none
    BY ParseOneMore, <2>1
  <2>3. ReadLine(none, other) = none
    BY <2>1, Zenon DEF ReadLine
  <2> HIDE DEF none, other, ReadLine
  <2>4. parse_patch(lines[0]) = none
    BY <2>1, <2>2, <2>3, ParseAdded
  <2>5. lines[0] \in Seq(PatchLine)
    BY <2>1, AddedType
  <2> QED
    BY <2>4, <2>5 DEF none
<1> QED
  BY <1>2, <1>3 DEF lines

(* parse_patch gives back what git printed, change by change.              *)
LEMMA ReadBack ==
  ASSUME NEW changes \in Seq(Change), \A n \in 1..Len(changes) : changes[n].kind # "quoted"
  PROVE  /\ parse_patch(PatchLines(changes)) \in Seq(Entry)
         /\ Len(parse_patch(PatchLines(changes))) = Len(changes)
         /\ \A n \in 1..Len(changes) :
              parse_patch(PatchLines(changes))[n] = EntryOf(changes[n])
<1> DEFINE lines == Printed(changes)
           Read(k) == /\ lines[k] \in Seq(PatchLine)
                      /\ parse_patch(lines[k]) \in Seq(Entry)
                      /\ Len(parse_patch(lines[k])) = k
                      /\ \A n \in 1..k : parse_patch(lines[k])[n] = EntryOf(changes[n])
           Misread == {k \in 0..Len(changes) : ~ Read(k)}
<1>1. /\ Len(changes) \in Nat /\ \A n \in 1..Len(changes) : changes[n] \in Change
  BY ElementOfSeq
<1> HIDE DEF Change, PatchLine, Entry, EntryOf
<1>2. \A k \in 1..Len(changes) : lines[k] = Chain(lines[k-1], GitLines(changes[k]))
  BY PrintedLines
<1>3. Read(0)
  <2>1. lines[0] \in Seq(PatchLine) /\ parse_patch(lines[0]) = <<>>
    BY PrintedLines
  <2> HIDE DEF lines
  <2>2. <<>> \in Seq(Entry) /\ Len(<<>>) = 0
    OBVIOUS
  <2> QED
    BY <2>1, <2>2
<1> HIDE DEF lines
<1>4. ASSUME NEW k \in 1..Len(changes), Read(k - 1)
      PROVE  Read(k)
  <2> DEFINE old == parse_patch(lines[k-1])
             new == parse_patch(lines[k])
             entry == EntryOf(changes[k])
  <2>1. k \in Nat /\ k - 1 \in Nat /\ changes[k] \in Change /\ changes[k].kind # "quoted"
    BY <1>1
  <2>2. lines[k] \in Seq(PatchLine) /\ new = Added(old, entry) /\ entry \in Entry
    BY <1>2, <1>4, <2>1, ReadChange
  <2>3. old \in Seq(Entry) /\ Len(old) = k - 1
        /\ \A n \in 1..(k-1) : old[n] = EntryOf(changes[n])
    BY <1>4
  <2> HIDE DEF old, new, entry
  <2>4. /\ new \in Seq(Entry) /\ Len(new) = k /\ new[k] = entry
        /\ \A n \in 1..(k-1) : new[n] = old[n]
    BY <2>1, <2>2, <2>3, AppendProperties DEF Added
  <2>5. \A n \in 1..k : n = k \/ n \in 1..(k-1)
    BY <2>1
  <2>6. \A n \in 1..k : new[n] = EntryOf(changes[n])
    BY <2>3, <2>4, <2>5 DEF entry
  <2> QED
    BY <2>2, <2>4, <2>6 DEF new
<1>5. Misread = {}
  <2> HIDE DEF Read
  <2>1. ASSUME NEW k \in Misread, \A m \in Misread : k <= m
        PROVE  FALSE
    <3>1. k \in 0..Len(changes) /\ ~ Read(k)
      OBVIOUS
    <3>2. k # 0
      BY <1>3, <3>1
    <3>3. k \in 1..Len(changes) /\ k - 1 \in 0..Len(changes) /\ ~ (k <= k - 1)
      BY <1>1, <3>1, <3>2
    <3>4. Read(k - 1)
      BY <2>1, <3>3
    <3> QED
      BY <1>4, <3>1, <3>3, <3>4
  <2>2. Misread \subseteq Nat
    BY <1>1
  <2> HIDE DEF Misread
  <2> QED
    BY <2>1, <2>2, LeastMember
<1>6. Read(Len(changes))
  <2> HIDE DEF Read
  <2>1. Len(changes) \in 0..Len(changes)
    BY <1>1
  <2> QED
    BY <1>5, <2>1
<1> QED
  BY <1>6 DEF PatchLines, lines

(* Every entry is that of a change, whatever git quotes.                   *)
LEMMA EveryEntryIsChange ==
  ASSUME NEW changes \in Seq(Change), NEW files, files = parse_patch(PatchLines(changes))
  PROVE  /\ files \in Seq(Entry)
         /\ \A n \in DOMAIN files : \E m \in DOMAIN changes : files[n] = EntryOf(changes[m])
<1> DEFINE lines == Printed(changes)
           Read(k) == /\ lines[k] \in Seq(PatchLine)
                      /\ parse_patch(lines[k]) \in Seq(Entry)
                      /\ \A n \in 1..Len(parse_patch(lines[k])) : \E m \in 1..k :
                           parse_patch(lines[k])[n] = EntryOf(changes[m])
           Misread == {k \in 0..Len(changes) : ~ Read(k)}
<1>1. /\ Len(changes) \in Nat /\ \A n \in 1..Len(changes) : changes[n] \in Change
      /\ DOMAIN changes = 1..Len(changes)
  BY ElementOfSeq, LenProperties
<1> HIDE DEF Change, PatchLine, Entry, EntryOf
<1>2. \A k \in 1..Len(changes) : lines[k] = Chain(lines[k-1], GitLines(changes[k]))
  BY PrintedLines
<1>3. Read(0)
  <2>1. lines[0] \in Seq(PatchLine) /\ parse_patch(lines[0]) = <<>>
    BY PrintedLines
  <2> HIDE DEF lines
  <2>2. <<>> \in Seq(Entry) /\ Len(<<>>) = 0
    OBVIOUS
  <2> QED
    BY <2>1, <2>2
<1> HIDE DEF lines
<1>4. ASSUME NEW k \in 1..Len(changes), Read(k - 1)
      PROVE  Read(k)
  <2> DEFINE old == parse_patch(lines[k-1])
             new == parse_patch(lines[k])
             entry == EntryOf(changes[k])
  <2>1. k \in Nat /\ k \in 1..k /\ (\A m \in 1..(k-1) : m \in 1..k) /\ changes[k] \in Change
    BY <1>1
  <2>2. /\ old \in Seq(Entry)
        /\ \A n \in 1..Len(old) : \E m \in 1..k : old[n] = EntryOf(changes[m])
    BY <1>4, <2>1
  <2>3. CASE changes[k].kind = "quoted"
    <3>1. lines[k] \in Seq(PatchLine) /\ new = old
      BY <1>2, <1>4, <2>3, SkipQuoted
    <3> HIDE DEF old, new
    <3>2. Read(k) <=> /\ lines[k] \in Seq(PatchLine) /\ new \in Seq(Entry)
                      /\ \A n \in 1..Len(new) : \E m \in 1..k : new[n] = EntryOf(changes[m])
      BY DEF new
    <3> QED
      BY <2>2, <3>1, <3>2
  <2>4. CASE changes[k].kind # "quoted"
    <3>1. lines[k] \in Seq(PatchLine) /\ new = Added(old, entry) /\ entry \in Entry
      BY <1>2, <1>4, <2>1, <2>4, ReadChange
    <3>2. Read(k) <=> /\ lines[k] \in Seq(PatchLine) /\ new \in Seq(Entry)
                      /\ \A n \in 1..Len(new) : \E m \in 1..k : new[n] = EntryOf(changes[m])
      OBVIOUS
    <3> HIDE DEF old, new, entry
    <3>3. /\ new \in Seq(Entry) /\ Len(old) \in Nat /\ Len(new) = Len(old) + 1
          /\ new[Len(new)] = entry /\ \A n \in 1..Len(old) : new[n] = old[n]
      BY <2>2, <3>1, AppendProperties DEF Added
    <3>4. \A n \in 1..Len(new) : n = Len(new) \/ n \in 1..Len(old)
      BY <3>3
    <3>5. \A n \in 1..Len(new) : \E m \in 1..k : new[n] = EntryOf(changes[m])
      BY <2>1, <2>2, <3>3, <3>4 DEF entry
    <3> QED
      BY <3>1, <3>2, <3>3, <3>5
  <2> QED
    BY <2>3, <2>4
<1>5. Misread = {}
  <2> HIDE DEF Read
  <2>1. ASSUME NEW k \in Misread, \A m \in Misread : k <= m
        PROVE  FALSE
    <3>1. k \in 0..Len(changes) /\ ~ Read(k)
      OBVIOUS
    <3>2. k # 0
      BY <1>3, <3>1
    <3>3. k \in 1..Len(changes) /\ k - 1 \in 0..Len(changes) /\ ~ (k <= k - 1)
      BY <1>1, <3>1, <3>2
    <3>4. Read(k - 1)
      BY <2>1, <3>3
    <3> QED
      BY <1>4, <3>1, <3>3, <3>4
  <2>2. Misread \subseteq Nat
    BY <1>1
  <2> HIDE DEF Misread
  <2> QED
    BY <2>1, <2>2, LeastMember
<1>6. Read(Len(changes))
  <2> HIDE DEF Read
  <2>1. Len(changes) \in 0..Len(changes)
    BY <1>1
  <2> QED
    BY <1>5, <2>1
<1>7. files = parse_patch(lines[Len(changes)])
  BY DEF PatchLines, lines
<1>8. files \in Seq(Entry) /\ DOMAIN files = 1..Len(files)
  BY <1>6, <1>7, LenProperties
<1> QED
  BY <1>1, <1>6, <1>7, <1>8

(* What a command judges is what git printed, not what the parser made of  *)
(* it: for every patch in which git quotes no name.                        *)
THEOREM PatchIsReadBack == CliSpec => []ParsesWhatGitPrints
<1>1. CliIInv => ParsesWhatGitPrints
  <2> SUFFICES ASSUME CliIInv,
                      \A n \in DOMAIN invocation.patch : invocation.patch[n].kind # "quoted"
               PROVE  LET files == parse_patch(PatchLines(invocation.patch))
                      IN  /\ Len(files) = Len(invocation.patch)
                          /\ \A n \in DOMAIN files : files[n] = EntryOf(invocation.patch[n])
    BY Zenon DEF ParsesWhatGitPrints, EntryOf
  <2> DEFINE changes == invocation.patch
             files == parse_patch(PatchLines(changes))
  <2>1. changes \in Seq(Change)
    BY CliAssumption DEF CliIInv, Typed
  <2> HIDE DEF changes, Change, Entry
  <2>2. \A n \in 1..Len(changes) : changes[n].kind # "quoted"
    BY <2>1, LenProperties DEF changes
  <2>3. /\ files \in Seq(Entry) /\ Len(files) = Len(changes)
        /\ \A n \in 1..Len(changes) : files[n] = EntryOf(changes[n])
    BY <2>1, <2>2, ReadBack
  <2>4. DOMAIN files = 1..Len(files)
    BY <2>3, LenProperties
  <2> HIDE DEF files, EntryOf
  <2>5. Len(files) = Len(changes) /\ \A n \in DOMAIN files : files[n] = EntryOf(changes[n])
    BY <2>3, <2>4
  <2> QED
    BY <2>5, Zenon DEF files, changes
<1> QED
  BY <1>1, Inductive, PTL

-----------------------------------------------------------------------------
(* What ends in the answer of no exception and no violation, with what it  *)
(* takes to come so far.                                                   *)
LEMMA BuiltTask ==
  ASSUME NEW document, BuildTask(document) = "ok"
  PROVE  /\ document.form = "right type" /\ CanBuild(document.task)
         /\ document.defects \cap {"missing", "unsortable"} = {}
         /\ "lengthless" \notin document.defects
<1>1. "ok" # "other" /\ "ok" # "TaskSpecValidationError"
  OBVIOUS
<1>2. document.form = "right type"
  BY <1>1, Zenon DEF BuildTask
<1> QED
  BY <1>1, <1>2, Zenon DEF BuildTask

(* A forbidden pattern is not found in a command if and only if every      *)
(* place for it differs from it somewhere.                                 *)
LEMMA FreeCommand ==
  ASSUME NEW command \in Seq(STRING), NEW words \in Seq(STRING)
  PROVE  FreeOf(command, words) <=>
           \A i \in 1..(Len(command)+1), j \in 0..Len(command) : SubSeq(command, i, j) # words
<1>1. Len(command) \in Nat /\ Len(words) \in Nat
  BY LenProperties
<1>2. ASSUME NEW start \in 0..(Len(command) - Len(words)),
             \A k \in 1..Len(words) : command[start + k] = words[k]
      PROVE  \E i \in 1..(Len(command)+1), j \in 0..Len(command) : SubSeq(command, i, j) = words
  <2> DEFINE i == start + 1
             j == start + Len(words)
             part == SubSeq(command, i, j)
  <2>1. i \in 1..(Len(command)+1) /\ j \in 0..Len(command)
    BY <1>1
  <2>2. /\ part \in Seq(STRING) /\ Len(part) = Len(words)
        /\ \A k \in 1..Len(words) : part[k] = command[start + k]
    <3>1. /\ i \in Int /\ j \in Int /\ j - i + 1 = Len(words)
          /\ (IF i <= j THEN j - i + 1 ELSE 0) = Len(words)
          /\ \A k \in 1..Len(words) : i + k - 1 = start + k
          /\ \A k \in i..j : k \in 1..Len(command)
      BY <1>1
    <3> HIDE DEF i, j
    <3>2. \A k \in i..j : command[k] \in STRING
      BY <3>1, ElementOfSeq
    <3>3. /\ part \in Seq(STRING) /\ Len(part) = IF i <= j THEN j - i + 1 ELSE 0
          /\ \A k \in 1..(j - i + 1) : part[k] = command[i + k - 1]
      BY <3>1, <3>2, SubSeqProperties
    <3> QED
      BY <3>1, <3>3
  <2> HIDE DEF part
  <2>3. part = words
    BY <1>1, <1>2, <2>2, SeqEqual
  <2> QED
    BY <2>1, <2>3 DEF part
<1>3. ASSUME NEW i \in 1..(Len(command)+1), NEW j \in 0..Len(command),
             SubSeq(command, i, j) = words
      PROVE  \E start \in 0..(Len(command) - Len(words)) :
               \A k \in 1..Len(words) : command[start + k] = words[k]
  <2>1. CASE i <= j
    <3>1. /\ Len(words) = j - i + 1
          /\ \A k \in 1..(j - i + 1) : words[k] = command[i + k - 1]
      BY <1>1, <1>3, <2>1, SubSeqProperties
    <3>2. i - 1 \in 0..(Len(command) - Len(words))
      BY <1>1, <2>1, <3>1
    <3>3. \A k \in 1..Len(words) : command[(i - 1) + k] = words[k]
      <4>1. \A k \in 1..Len(words) : (i - 1) + k = i + k - 1
        BY <1>1
      <4> QED
        BY <3>1, <4>1
    <3> QED
      BY <3>2, <3>3
  <2>2. CASE ~ (i <= j)
    <3>1. Len(words) = 0
      BY <1>1, <1>3, <2>2
    <3> QED
      BY <1>1, <3>1
  <2> QED
    BY <2>1, <2>2
<1>4. FreeOf(command, words) <=>
        ~ \E start \in 0..(Len(command) - Len(words)) :
            \A k \in 1..Len(words) : command[start + k] = words[k]
  BY Zenon DEF FreeOf
<1> QED
  BY <1>2, <1>3, <1>4, Zenon

(* No scope matches a forbidden pattern and none is forbidden outright if  *)
(* and only if the policy and the task let every scope be used: the rules  *)
(* compare scopes, the refusals compare paths with scopes.                 *)
LEMMA ScopeRules ==
  ASSUME NEW policy, ImmutableDisjoint(spec), ForbiddenDisjoint(spec)
  PROVE  ForbiddenScopes(policy, spec) = {} /\ RuleConflicts(spec) = {} <=> ScopesUsable(policy)
<1> DEFINE scopes == spec.read_paths \cup spec.write_paths
<1> HIDE DEF MatchesForbidden
<1>1. ASSUME ForbiddenScopes(policy, spec) = {} PROVE ScopesUsable(policy)
  <2>1. \A path \in scopes : ~ MatchesForbidden(policy, path)
    BY <1>1 DEF ForbiddenScopes
  <2>2. \A path, within : path \in within => path_matches_any(path, within)
    BY DEF path_matches_any, scope_contains
  <2>3. \A path \in scopes : ~ path_matches_any(path, spec.forbidden_paths)
    <3> HIDE DEF scope_contains
    <3> QED
      BY Zenon DEF ForbiddenDisjoint, scopes_overlap, path_matches_any
  <2>4. \A path \in spec.write_paths : ~ path_matches_any(path, spec.immutable_read_paths)
    <3> HIDE DEF scope_contains
    <3> QED
      BY Zenon DEF ImmutableDisjoint, scopes_overlap, path_matches_any
  <2>5. "read" \in ReadAction /\ "write" \notin ReadAction /\ "write" \in WriteAction
    BY DEF ReadAction, WriteAction
  <2>6. ASSUME NEW path \in spec.read_paths
        PROVE  validate_path(policy, spec, path, "read") = "ok"
    <3>1. ~ MatchesForbidden(policy, path) /\ ~ path_matches_any(path, spec.forbidden_paths)
          /\ path_matches_any(path, spec.read_paths)
      BY <2>1, <2>2, <2>3
    <3> QED
      BY <2>5, <3>1, Zenon DEF validate_path, validate_path_access
  <2>7. ASSUME NEW path \in spec.write_paths
        PROVE  validate_path(policy, spec, path, "write") = "ok"
    <3>1. /\ ~ MatchesForbidden(policy, path) /\ ~ path_matches_any(path, spec.forbidden_paths)
          /\ ~ path_matches_any(path, spec.immutable_read_paths)
          /\ path_matches_any(path, spec.write_paths)
      BY <2>1, <2>2, <2>3, <2>4
    <3> QED
      BY <2>5, <3>1, Zenon DEF validate_path, validate_path_access
  <2> QED
    BY <2>6, <2>7, Zenon DEF ScopesUsable
<1>2. ASSUME ScopesUsable(policy)
      PROVE  ForbiddenScopes(policy, spec) = {} /\ RuleConflicts(spec) = {}
  <2> HIDE DEF validate_path_access
  <2>1. ASSUME NEW path \in scopes
        PROVE  /\ ~ MatchesForbidden(policy, path)
               /\ ~ path_matches_any(path, spec.forbidden_paths)
    <3>1. "ok" # "matches global forbidden pattern" /\ "ok" # "in forbidden_paths"
      BY Zenon
    <3>2. PICK action : validate_path(policy, spec, path, action) = "ok"
      BY <1>2, <2>1, Zenon DEF ScopesUsable
    <3>3. ~ MatchesForbidden(policy, path) /\ validate_path_access(spec, path, action) = "ok"
      BY <3>1, <3>2, Zenon DEF validate_path
    <3> QED
      BY <3>1, <3>3, Zenon DEF validate_path_access
  <2>2. ForbiddenScopes(policy, spec) = {}
    BY <2>1 DEF ForbiddenScopes
  <2>3. \A path \in scopes : path \notin spec.forbidden_paths
    BY <2>1, Zenon DEF path_matches_any, scope_contains
  <2> QED
    BY <2>2, <2>3 DEF RuleConflicts
<1> QED
  BY <1>1, <1>2

(* The five rules find nothing in a task that built, and in a policy whose *)
(* limits can be compared, if and only if the task keeps to the policy.    *)
LEMMA PolicyVerdict ==
  ASSUME NEW policy, NEW terms, ImmutableDisjoint(spec), ForbiddenDisjoint(spec),
         \A key \in DOMAIN policy.limits :
           policy.limits[key].type \in Numeric => AsNumber(policy.limits[key]) \in Int,
         \A key \in DOMAIN terms.attributes :
           IsInt(terms.attributes[key]) => AsNumber(terms.attributes[key]) \in Int,
         terms.commands \subseteq Seq(STRING), policy.commands \subseteq Seq(STRING),
         ~ LimitRaises(policy, terms)
  PROVE  PolicyViolations(policy, spec, terms) = {} <=> Compliant(policy, terms)
<1> HIDE DEF AsNumber, PyEqual, Numeric
<1>1. ExceededLimits(policy, terms) = {} <=>
        \A key \in DOMAIN policy.limits \cap DOMAIN terms.attributes :
          IsInt(terms.attributes[key]) =>
            AsNumber(terms.attributes[key]) <= AsNumber(policy.limits[key])
  <2> DEFINE Over(key) == /\ IsInt(Attribute(terms, key))
                          /\ AsNumber(Attribute(terms, key)) > AsNumber(policy.limits[key])
             Bounded(key) == IsInt(terms.attributes[key]) =>
                            AsNumber(terms.attributes[key]) <= AsNumber(policy.limits[key])
  <2>1. ASSUME NEW key \in DOMAIN policy.limits, key \notin DOMAIN terms.attributes
        PROVE  ~ Over(key)
    BY <2>1 DEF Attribute, Null, IsInt
  <2>2. ASSUME NEW key \in DOMAIN policy.limits, key \in DOMAIN terms.attributes
        PROVE  ~ Over(key) <=> Bounded(key)
    <3>1. Attribute(terms, key) = terms.attributes[key]
      BY <2>2 DEF Attribute
    <3>2. IsInt(terms.attributes[key]) =>
            AsNumber(terms.attributes[key]) \in Int /\ AsNumber(policy.limits[key]) \in Int
      <4> HIDE DEF IsInt
      <4> QED
        BY <2>2, <3>1 DEF LimitRaises
    <3> HIDE DEF IsInt
    <3> QED
      BY <3>1, <3>2
  <2>3. ExceededLimits(policy, terms) = {key \in DOMAIN policy.limits : Over(key)}
    BY Zenon DEF ExceededLimits
  <2> HIDE DEF Over, Bounded
  <2>4. ExceededLimits(policy, terms) = {} <=>
          \A key \in DOMAIN policy.limits \cap DOMAIN terms.attributes : Bounded(key)
    BY <2>1, <2>2, <2>3
  <2> QED
    BY <2>4, Zenon DEF Bounded
<1>2. RefusedModes(policy, terms) = {} <=>
        \A key \in DOMAIN policy.modes :
          \E v \in policy.modes[key].values : PyEqual(Attribute(terms, key), v)
  <2> HIDE DEF Attribute
  <2> QED
    BY DEF RefusedModes
<1>3. ForbiddenCommands(policy, terms) = {} <=>
        \A command \in terms.commands, words \in policy.commands : FreeOf(command, words)
  <2> DEFINE Found(command, words) ==
               \E i \in 1..(Len(command)+1), j \in 0..Len(command) : SubSeq(command, i, j) = words
  <2>1. \A command \in terms.commands, words \in policy.commands :
          FreeOf(command, words) <=> ~ Found(command, words)
    <3> SUFFICES ASSUME NEW command \in terms.commands, NEW words \in policy.commands
                 PROVE  FreeOf(command, words) <=> ~ Found(command, words)
      OBVIOUS
    <3>1. command \in Seq(STRING) /\ words \in Seq(STRING)
      OBVIOUS
    <3> QED
      BY <3>1, FreeCommand, Zenon
  <2>2. ForbiddenCommands(policy, terms) =
          {command \in terms.commands : \E words \in policy.commands : Found(command, words)}
    BY Zenon DEF ForbiddenCommands
  <2> HIDE DEF Found, FreeOf
  <2> QED
    BY <2>1, <2>2
<1>4. ForbiddenScopes(policy, spec) = {} /\ RuleConflicts(spec) = {} <=> ScopesUsable(policy)
  BY ScopeRules
<1> HIDE DEF ExceededLimits, RefusedModes, ForbiddenCommands, ForbiddenScopes, RuleConflicts,
             ScopesUsable, Attribute, FreeOf, IsInt
<1>5. PolicyViolations(policy, spec, terms) = {} <=>
        /\ ExceededLimits(policy, terms) = {} /\ RefusedModes(policy, terms) = {}
        /\ ForbiddenScopes(policy, spec) = {} /\ ForbiddenCommands(policy, terms) = {}
        /\ RuleConflicts(spec) = {}
  BY DEF PolicyViolations
<1> QED
  BY <1>1, <1>2, <1>3, <1>4, <1>5, Zenon DEF Compliant

(* A task that the policy check answers by a verdict keeps to the policy   *)
(* if the verdict is "ok", and only then.                                  *)
LEMMA PolicyAnswer ==
  ASSUME NEW i \in Invocations, i.policy # NoPolicy, spec = ScopesOf(i.document.task),
         BuildTask(i.document) = "ok"
  PROVE  /\ CheckPolicy(i.document, i.policy, i.other) \in {"ok", "other", "POLICY_VIOLATION"}
         /\ CheckPolicy(i.document, i.policy, i.other) = "ok" =>
              Compliant(i.policy, i.document.terms)
         /\ CheckPolicy(i.document, i.policy, i.other) = "POLICY_VIOLATION" =>
              ~ Compliant(i.policy, i.document.terms)
<1> DEFINE policy == i.policy
           terms == i.document.terms
           answer == CheckPolicy(i.document, policy, i.other)
<1>1. "ok" # "other" /\ "ok" # "POLICY_VIOLATION" /\ "other" # "POLICY_VIOLATION"
  OBVIOUS
<1>2. ImmutableDisjoint(spec) /\ ForbiddenDisjoint(spec)
  BY BuiltTask, Zenon DEF CanBuild, validate_task_spec_structure
<1>3. i.document.form = "right type"
  BY BuiltTask, Zenon
<1>4. /\ \A key \in DOMAIN policy.limits :
           policy.limits[key].type \in Numeric => AsNumber(policy.limits[key]) \in Int
      /\ \A key \in DOMAIN terms.attributes :
           IsInt(terms.attributes[key]) => AsNumber(terms.attributes[key]) \in Int
      /\ terms.commands \subseteq Seq(STRING) /\ policy.commands \subseteq Seq(STRING)
  BY CliAssumption, Zenon DEF PolicyFile
<1> HIDE DEF policy, terms, PolicyViolations, Compliant, BuildTask, IsInt, AsNumber, Numeric
<1>5. ~ PolicyRaises(policy, spec, terms) =>
        (PolicyViolations(policy, spec, terms) = {} <=> Compliant(policy, terms))
  <2> SUFFICES ASSUME ~ LimitRaises(policy, terms)
               PROVE  PolicyViolations(policy, spec, terms) = {} <=> Compliant(policy, terms)
    BY Zenon DEF PolicyRaises
  <2> HIDE DEF LimitRaises
  <2> QED
    BY <1>2, <1>4, PolicyVerdict
<1>6. \/ answer = "other"
      \/ /\ ~ PolicyRaises(policy, spec, terms)
         /\ answer = IF PolicyViolations(policy, spec, terms) = {} THEN "ok"
                     ELSE "POLICY_VIOLATION"
  <2> HIDE DEF PolicyRaises
  <2> QED
    BY <1>3, Zenon DEF CheckPolicy, terms
<1> HIDE DEF answer, PolicyRaises
<1> QED
  BY <1>1, <1>5, <1>6, Zenon DEF answer, policy, terms

(* What the validator checks of a patch without renames and quoted names   *)
(* are the paths at which applying it changes the work tree.               *)
LEMMA TouchedIsChanged ==
  ASSUME NEW changes \in Seq(Change), ~ HalfSeen(changes),
         NEW files, files = parse_patch(PatchLines(changes))
  PROVE  /\ Len(files) = Len(changes) /\ files \in Seq(Entry)
         /\ ChangedPaths(files) = TouchedBy(changes)
         /\ \A i \in DOMAIN files : ChangedPath(files[i]) \in {files[i].old_path, files[i].new_path}
         /\ DOMAIN files = DOMAIN changes
         /\ \A n \in DOMAIN changes : files[n] = EntryOf(changes[n])
<1>1. /\ DOMAIN changes = 1..Len(changes) /\ \A n \in DOMAIN changes : changes[n] \in Change
  BY LenProperties, ElementOfSeq
<1> HIDE DEF Change, DevNull
<1>2. \A n \in DOMAIN changes : changes[n].kind # "rename" /\ changes[n].kind # "quoted"
  BY DEF HalfSeen
<1>3. /\ files \in Seq(Entry) /\ Len(files) = Len(changes)
      /\ \A n \in 1..Len(changes) : files[n] = EntryOf(changes[n])
  BY <1>1, <1>2, ReadBack
<1>4. DOMAIN files = DOMAIN changes
  BY <1>1, <1>3, LenProperties
<1>5. ASSUME NEW n \in DOMAIN changes
      PROVE  /\ Touched(changes[n]) = {ChangedPath(files[n])}
             /\ ChangedPath(files[n]) # DevNull
             /\ ChangedPath(files[n]) \in {files[n].old_path, files[n].new_path}
  <2> DEFINE change == changes[n]
             file == files[n]
  <2>1. file = EntryOf(change)
    BY <1>1, <1>3
  <2>2. /\ file.old_path = change.old /\ file.new_path = change.new
        /\ file.is_deleted = (change.kind = "delete")
    BY <2>1 DEF EntryOf
  <2>3. change.old # DevNull /\ change.new # DevNull
    BY <1>1 DEF Change
  <2>4. change.kind # "rename"
    BY <1>2
  <2> HIDE DEF change, file
  <2>5. Touched(change) = {ChangedPath(file)}
    <3>1. CASE change.kind = "delete"
      BY <2>2, <3>1 DEF Touched, ChangedPath
    <3>2. CASE change.kind # "delete"
      BY <2>2, <2>4, <3>2 DEF Touched, ChangedPath
    <3> QED
      BY <3>1, <3>2
  <2>6. ChangedPath(file) \in {file.old_path, file.new_path} /\ ChangedPath(file) # DevNull
    BY <2>2, <2>3, Zenon DEF ChangedPath
  <2> QED
    BY <2>5, <2>6 DEF change, file
<1> HIDE DEF Touched, ChangedPath
<1>6. ChangedPaths(files) = TouchedBy(changes)
  BY <1>4, <1>5 DEF ChangedPaths, TouchedBy
<1>7. \A n \in DOMAIN changes : files[n] = EntryOf(changes[n])
  BY <1>1, <1>3
<1> HIDE DEF EntryOf
<1> QED
  BY <1>3, <1>4, <1>5, <1>6, <1>7

(* A patch the checks pass is acceptable.                                  *)
LEMMA PatchPassIsAcceptable ==
  ASSUME NEW i, i.patch \in Seq(Change), CheckPatch(i) = "ok", ~ HalfSeen(i.patch)
  PROVE  PatchAcceptable(i)
<1> DEFINE changes == i.patch
           files == parse_patch(PatchLines(changes))
<1> HIDE DEF normalize_repo_path, IsRepoPath, NormalizedList, validate_path_access,
             PatchRaises, Change, Entry, ChangedPath, DevNull
<1>1. PatchValid(files, spec, i.expected, i.apply, FALSE)
  <2>1. "ok" # "other" /\ "ok" # "VALIDATION_FAILURE"
    OBVIOUS
  <2> QED
    BY <2>1, Zenon DEF CheckPatch
<1>2. /\ Len(files) = Len(changes) /\ files \in Seq(Entry)
      /\ ChangedPaths(files) = TouchedBy(changes)
      /\ \A n \in DOMAIN files : ChangedPath(files[n]) \in {files[n].old_path, files[n].new_path}
      /\ DOMAIN files = DOMAIN changes
      /\ \A n \in DOMAIN changes : files[n] = EntryOf(changes[n])
  <2> HIDE DEF EntryOf
  <2> QED
    BY TouchedIsChanged
<1> HIDE DEF files
<1>3. /\ files # <<>> /\ RepoRelative(files) /\ ScopeValid(files, spec)
      /\ ScopeExact(files, i.expected) /\ i.apply # "failed"
  BY <1>1, Zenon DEF PatchValid, ApplyAccepted
<1>4. changes # <<>>
  BY <1>2, <1>3, EmptySeq
<1>5. \A raw \in TouchedBy(changes) : IsRepoPath(raw)
  <2> SUFFICES ASSUME NEW raw \in ChangedPaths(files) PROVE IsRepoPath(raw)
    BY <1>2
  <2>1. PICK n \in DOMAIN files : raw = ChangedPath(files[n]) /\ raw # DevNull
    BY DEF ChangedPaths
  <2>2. raw \in PatchPaths(files[n])
    BY <1>2, <2>1 DEF PatchPaths
  <2> QED
    BY <1>3, <2>2 DEF RepoRelative
<1>6. ChangedSet(files) = {normalize_repo_path(raw) : raw \in TouchedBy(changes)}
  <2>1. {p \in TouchedBy(changes) : IsRepoPath(p)} = TouchedBy(changes)
    BY <1>5
  <2> QED
    BY <1>2, <2>1, Zenon DEF ChangedSet
<1>7. \A raw \in TouchedBy(changes) : Writable(raw)
  <2> SUFFICES ASSUME NEW raw \in TouchedBy(changes) PROVE Writable(raw)
    OBVIOUS
  <2> DEFINE path == normalize_repo_path(raw)
  <2>1. validate_path_access(spec, path, "write") = "ok"
    BY <1>3, <1>6 DEF ScopeValid
  <2>2. "write" \notin ReadAction /\ "ok" # "in forbidden_paths" /\ "ok" # "unknown action type"
        /\ "ok" # "in immutable_read_paths" /\ "ok" # "outside write_paths"
    BY DEF ReadAction
  <2>3. is_path_writable(spec, path)
    BY <2>1, <2>2, Zenon DEF validate_path_access, is_path_writable
  <2> QED
    BY <1>5, <2>3 DEF Writable
<1>8. i.expected # Unchecked =>
        {normalize_repo_path(raw) : raw \in TouchedBy(changes)} = NormalizedList(i.expected)
  BY <1>3, <1>6, Zenon DEF ScopeExact
<1>9. \A n \in DOMAIN changes : IsRepoPath(changes[n].old) /\ IsRepoPath(changes[n].new)
  <2> SUFFICES ASSUME NEW n \in DOMAIN changes
               PROVE  IsRepoPath(changes[n].old) /\ IsRepoPath(changes[n].new)
    OBVIOUS
  <2> DEFINE change == changes[n]
  <2>1. n \in DOMAIN files /\ files[n] = EntryOf(change)
    BY <1>2
  <2>2. change.old # DevNull /\ change.new # DevNull
    <3>1. change \in Change
      BY LenProperties, ElementOfSeq
    <3> QED
      BY <3>1 DEF Change
  <2> HIDE DEF change
  <2>3. files[n].old_path = change.old /\ files[n].new_path = change.new
    BY <2>1 DEF EntryOf
  <2>4. change.old \in PatchPaths(files[n]) /\ change.new \in PatchPaths(files[n])
    BY <2>2, <2>3 DEF PatchPaths
  <2>5. IsRepoPath(change.old) /\ IsRepoPath(change.new)
    BY <1>3, <2>1, <2>4 DEF RepoRelative
  <2> QED
    BY <2>5 DEF change
<1> QED
  BY <1>3, <1>4, <1>7, <1>8, <1>9, Zenon DEF PatchAcceptable

(* Whichever command passes, the task it was given builds; a task that a   *)
(* policy check passes keeps to the policy in its scopes, limits, modes    *)
(* and commands; a stream that passes has no                               *)
(* plain event that breaks a rule; a patch that passes, of which the       *)
(* validator sees every path, touches what the task and the expected       *)
(* files say and nothing else.                                             *)
THEOREM PassMeansEarned == CliSpec => []PassIsEarned
<1>1. CliIInv => PassIsEarned
  <2> SUFFICES ASSUME CliIInv, exit = "PASS"
               PROVE  PassIsEarned
    BY DEF PassIsEarned
  <2>1. result = "PASS"
    <3>1. exit = ExitCode(result)
      BY DEF CliIInv, Typed
    <3> QED
      BY <3>1 DEF ExitCode, Status
  <2>2. Deserved /\ result # "running"
    BY <2>1 DEF CliIInv, Earned
  <2>3. /\ invocation.patch \in Seq(Change) /\ spec = ScopesOf(invocation.document.task)
        /\ invocation.command # "evaluate_event_stream"
    <3> HIDE DEF Change, ScopesOf
    <3> QED
      BY <2>2, CliAssumption DEF CliIInv, Typed
  <2>4. invocation.command \in TaskCommand => GoodTask(invocation.document)
    <3> SUFFICES ASSUME BuildTask(invocation.document) = "ok"
                 PROVE  GoodTask(invocation.document)
      BY <2>2 DEF Deserved
    <3>1. invocation.document.defects \subseteq Defect
      BY CliAssumption, Zenon DEF CliIInv, Typed
    <3>2. invocation.document.defects = {}
      BY <3>1, BuiltTask DEF Defect
    <3> QED
      BY <3>2, BuiltTask, Zenon DEF GoodTask
  <2>5. invocation.command \in {"validate-task", "validate-policy"}
          /\ invocation.policy # NoPolicy =>
            Compliant(invocation.policy, invocation.document.terms)
    <3> SUFFICES ASSUME invocation.command \in {"validate-task", "validate-policy"},
                        invocation.policy # NoPolicy
                 PROVE  Compliant(invocation.policy, invocation.document.terms)
      OBVIOUS
    <3>1. invocation \in Invocations /\ BuildTask(invocation.document) = "ok"
      BY <2>2 DEF CliIInv, Typed, Deserved, TaskCommand
    <3> HIDE DEF CheckPolicy, Compliant, BuildTask
    <3> QED
      BY <2>2, <2>3, <3>1, PolicyAnswer, Zenon DEF Deserved
  <2>6. ASSUME NEW n \in DOMAIN stream, Plain(stream[n])
        PROVE  Permitted(stream[n])
    <3>1. stream # <<>>
      OBVIOUS
    <3>2. invocation.command = "validate-events"
      BY <2>3, <3>1, Zenon DEF CliIInv, Started, EvaluatingCommand
    <3>3. violations = {} /\ outcome # "raised"
      BY <2>2, <3>2 DEF Deserved
    <3>4. VerdictExact /\ TypeOK
      BY DEF CliIInv, EventIInv
    <3> HIDE DEF Plain, Permitted
    <3>5. n \in 1..Len(stream)
      BY <3>4 DEF TypeOK
    <3>6. ~ \E v \in violations : v.event = n
      BY <3>3
    <3> QED
      BY <2>6, <3>3, <3>4, <3>5, <3>6, Zenon DEF VerdictExact
  <2>7. invocation.command = "validate-patch" /\ ~ HalfSeen(invocation.patch) =>
          PatchAcceptable(invocation)
    <3> HIDE DEF Change, CheckPatch, PatchAcceptable, HalfSeen
    <3> QED
      BY <2>2, <2>3, PatchPassIsAcceptable DEF Deserved
  <2> QED
    BY <2>4, <2>5, <2>6, <2>7, Zenon DEF PassIsEarned
<1> QED
  BY <1>1, Inductive, PTL

-----------------------------------------------------------------------------
(* Why a command fails.  First what each call may answer, and what it      *)
(* answers of a good task.                                                 *)
LEMMA FileAnswers ==
  ASSUME NEW form \in FileForm
  PROVE  /\ Load(form) \in {"ok", "OSError", "JSONDecodeError", "other"}
         /\ ReadText(form) \in {"ok", "OSError", "other"}
         /\ Use(form) \in {"ok", "other"}
         /\ Load(form) = "other" \/ ReadText(form) = "other" => form = "not UTF-8"
         /\ Load(form) = "ok" => form \in {"wrong type", "right type"}
         /\ Use(form) = "other" => form = "wrong type"
         /\ form = "right type" => Load(form) = "ok" /\ ReadText(form) = "ok" /\ Use(form) = "ok"
  BY DEF Load, ReadText, Use, FileForm

LEMMA AnswerCauses ==
  /\ \A document :
       /\ Structure(document) \in {"ok", "other", "VALIDATION_FAILURE"}
       /\ Structure(document) = "other" => document.form # "right type"
       /\ BuildTask(document) \in {"ok", "other", "TaskSpecValidationError"}
       /\ BuildTask(document) = "other" =>
            document.form # "right type" \/ document.defects # {}
       /\ GoodTask(document) =>
            document.form = "right type" /\ Structure(document) = "ok" /\ BuildTask(document) = "ok"
  /\ \A document, policy, form :
       /\ CheckPolicy(document, policy, form) \in {"ok", "other", "POLICY_VIOLATION"}
       /\ CheckPolicy(document, policy, form) = "other" =>
            \/ document.form # "right type"
            \/ /\ BuildTask(document) = "ok"
               /\ Use(form) # "ok" \/ PolicyRaises(policy, spec, document.terms)
  /\ \A i :
       LET files == parse_patch(PatchLines(i.patch))
       IN  /\ CheckPatch(i) \in {"ok", "other", "VALIDATION_FAILURE"}
           /\ CheckPatch(i) = "other" => PatchRaises(files, i.expected)
           /\ CheckPatch(i) = "VALIDATION_FAILURE" =>
                ~ PatchValid(files, spec, i.expected, i.apply, FALSE)
<1> HIDE DEF validate_task_spec_structure, PolicyRaises, PolicyViolations, PatchRaises, PatchValid
<1>1. /\ "ok" # "OSError" /\ "ok" # "JSONDecodeError" /\ "ok" # "other"
      /\ "ok" # "VALIDATION_FAILURE" /\ "ok" # "TaskSpecValidationError"
      /\ "ok" # "POLICY_VIOLATION" /\ "other" # "OSError" /\ "other" # "JSONDecodeError"
      /\ "other" # "VALIDATION_FAILURE" /\ "other" # "TaskSpecValidationError"
      /\ "other" # "POLICY_VIOLATION"
  OBVIOUS
<1>2. ASSUME NEW document
      PROVE  /\ Structure(document) \in {"ok", "other", "VALIDATION_FAILURE"}
             /\ Structure(document) = "other" => document.form # "right type"
             /\ BuildTask(document) \in {"ok", "other", "TaskSpecValidationError"}
             /\ BuildTask(document) = "other" =>
                  document.form # "right type" \/ document.defects # {}
             /\ GoodTask(document) => document.form = "right type" /\ Structure(document) = "ok"
                                      /\ BuildTask(document) = "ok"
  <2>1. /\ Structure(document) \in {"ok", "other", "VALIDATION_FAILURE"}
        /\ Structure(document) = "other" => document.form # "right type"
    BY <1>1, Zenon DEF Structure
  <2>2. BuildTask(document) \in {"ok", "other", "TaskSpecValidationError"}
    BY Zenon DEF BuildTask
  <2>3. BuildTask(document) = "other" => document.form # "right type" \/ document.defects # {}
    <3> SUFFICES ASSUME document.form = "right type", document.defects = {}
                 PROVE  BuildTask(document) # "other"
      OBVIOUS
    <3>1. /\ document.defects \cap {"missing", "unsortable"} = {}
          /\ "lengthless" \notin document.defects
      OBVIOUS
    <3> QED
      BY <1>1, <3>1, Zenon DEF BuildTask
  <2>4. GoodTask(document) =>
          document.form = "right type" /\ Structure(document) = "ok" /\ BuildTask(document) = "ok"
    <3> SUFFICES ASSUME GoodTask(document)
                 PROVE  /\ document.form = "right type"
                        /\ Structure(document) = "ok" /\ BuildTask(document) = "ok"
      OBVIOUS
    <3>1. /\ document.form = "right type" /\ CanBuild(document.task)
          /\ validate_task_spec_structure(document.task)
          /\ document.defects \cap {"missing", "unsortable"} = {}
          /\ "lengthless" \notin document.defects
      BY DEF GoodTask, CanBuild
    <3> QED
      BY <3>1, Zenon DEF Structure, BuildTask
  <2> QED
    BY <2>1, <2>2, <2>3, <2>4
<1> HIDE DEF Structure, BuildTask, Use
<1>3. ASSUME NEW document, NEW policy, NEW form
      PROVE  /\ CheckPolicy(document, policy, form) \in {"ok", "other", "POLICY_VIOLATION"}
             /\ CheckPolicy(document, policy, form) = "other" =>
                  \/ document.form # "right type"
                  \/ /\ BuildTask(document) = "ok"
                     /\ Use(form) # "ok" \/ PolicyRaises(policy, spec, document.terms)
  <2>1. CheckPolicy(document, policy, form) \in {"ok", "other", "POLICY_VIOLATION"}
    BY Zenon DEF CheckPolicy
  <2> SUFFICES ASSUME CheckPolicy(document, policy, form) = "other"
               PROVE  \/ document.form # "right type"
                      \/ /\ BuildTask(document) = "ok"
                         /\ Use(form) # "ok" \/ PolicyRaises(policy, spec, document.terms)
    BY <2>1
  <2> QED
    BY <1>1, Zenon DEF CheckPolicy
<1>4. ASSUME NEW i, NEW files, files = parse_patch(PatchLines(i.patch))
      PROVE  /\ CheckPatch(i) \in {"ok", "other", "VALIDATION_FAILURE"}
             /\ CheckPatch(i) = "other" => PatchRaises(files, i.expected)
             /\ CheckPatch(i) = "VALIDATION_FAILURE" =>
                  ~ PatchValid(files, spec, i.expected, i.apply, FALSE)
  BY <1>1, <1>4, Zenon DEF CheckPatch
<1> HIDE DEF CheckPolicy, CheckPatch, GoodTask
<1> QED
  BY <1>2, <1>3, <1>4, Zenon

(* An acceptable patch of which the validator sees every path is valid.    *)
LEMMA AcceptableIsValid ==
  ASSUME NEW i, i.patch \in Seq(Change), ~ HalfSeen(i.patch), PatchAcceptable(i),
         NEW files, files = parse_patch(PatchLines(i.patch))
  PROVE  PatchValid(files, spec, i.expected, i.apply, FALSE)
<1> DEFINE changes == i.patch
<1> HIDE DEF normalize_repo_path, IsRepoPath, NormalizedList, validate_path_access,
             Change, Entry, ChangedPath, DevNull
<1>1. /\ changes # <<>> /\ i.apply # "failed"
      /\ \A n \in DOMAIN changes : IsRepoPath(changes[n].old) /\ IsRepoPath(changes[n].new)
      /\ \A raw \in TouchedBy(changes) : Writable(raw)
      /\ i.expected # Unchecked =>
           {normalize_repo_path(raw) : raw \in TouchedBy(changes)} = NormalizedList(i.expected)
  BY Zenon DEF PatchAcceptable
<1>2. /\ Len(files) = Len(changes) /\ files \in Seq(Entry)
      /\ ChangedPaths(files) = TouchedBy(changes)
      /\ DOMAIN files = DOMAIN changes
      /\ \A n \in DOMAIN changes : files[n] = EntryOf(changes[n])
  <2> HIDE DEF EntryOf
  <2> QED
    BY TouchedIsChanged
<1>3. files # <<>>
  BY <1>1, <1>2, EmptySeq
<1>4. RepoRelative(files)
  <2> SUFFICES ASSUME NEW n \in DOMAIN files, NEW path \in PatchPaths(files[n])
               PROVE  IsRepoPath(path)
    BY DEF RepoRelative
  <2> DEFINE change == changes[n]
  <2>1. files[n] = EntryOf(change) /\ IsRepoPath(change.old) /\ IsRepoPath(change.new)
    BY <1>1, <1>2
  <2> HIDE DEF change
  <2>2. files[n].old_path = change.old /\ files[n].new_path = change.new
    BY <2>1 DEF EntryOf
  <2> QED
    BY <2>1, <2>2 DEF PatchPaths
<1>5. ChangedSet(files) = {normalize_repo_path(raw) : raw \in TouchedBy(changes)}
  <2>1. {p \in TouchedBy(changes) : IsRepoPath(p)} = TouchedBy(changes)
    BY <1>1 DEF Writable
  <2> QED
    BY <1>2, <2>1, Zenon DEF ChangedSet
<1>6. ScopeValid(files, spec)
  <2> SUFFICES ASSUME NEW path \in ChangedSet(files)
               PROVE  validate_path_access(spec, path, "write") = "ok"
    BY DEF ScopeValid
  <2>1. PICK raw \in TouchedBy(changes) : path = normalize_repo_path(raw)
    BY <1>5
  <2>2. is_path_writable(spec, path)
    BY <1>1, <2>1 DEF Writable
  <2> QED
    BY <2>2, AccessDecision
<1>7. ScopeExact(files, i.expected)
  BY <1>1, <1>5, Zenon DEF ScopeExact
<1>8. ApplyAccepted(i.apply, FALSE)
  BY <1>1, Zenon DEF ApplyAccepted
<1> QED
  BY <1>3, <1>4, <1>6, <1>7, <1>8, Zenon DEF PatchValid

(* A path that normalizes to nothing is the one kind of path that raises.  *)
LEMMA PatchRaiseTold ==
  ASSUME NEW changes \in Seq(Change), NEW expected,
         PatchRaises(parse_patch(PatchLines(changes)), expected)
  PROVE  \/ \E raw \in TouchedBy(changes) : ToSet(raw) \subseteq Noise
         \/ expected # Unchecked /\ \E n \in DOMAIN expected : ~ IsRepoPath(expected[n])
<1> DEFINE files == parse_patch(PatchLines(changes))
<1> HIDE DEF normalize_repo_path, IsRepoPath, DevNull, Noise
<1>1. \A n \in DOMAIN files : \E m \in DOMAIN changes : files[n] = EntryOf(changes[m])
  <2> HIDE DEF EntryOf, Entry, Change
  <2> QED
    BY EveryEntryIsChange
<1> HIDE DEF files
<1>2. CASE <<>> \in ChangedSet(files)
  <2>1. PICK raw \in ChangedPaths(files) : IsRepoPath(raw) /\ normalize_repo_path(raw) = <<>>
    BY <1>2 DEF ChangedSet
  <2>2. PICK n \in DOMAIN files : raw = ChangedPath(files[n])
    <3> HIDE DEF ChangedPath
    <3> QED
      BY DEF ChangedPaths
  <2>3. PICK m \in DOMAIN changes : files[n] = EntryOf(changes[m])
    BY <1>1
  <2> DEFINE change == changes[m]
             file == files[n]
  <2>4. change \in Change
    BY LenProperties, ElementOfSeq
  <2>5. change.old \in RawPath /\ change.new \in RawPath
    <3> HIDE DEF change, RawPath
    <3> QED
      BY <2>4 DEF Change
  <2>6. file = EntryOf(change) /\ raw = ChangedPath(file)
    BY <2>2, <2>3
  <2> HIDE DEF change, file
  <2>7. /\ file.old_path = change.old /\ file.new_path = change.new
        /\ file.is_deleted = (change.kind = "delete")
    BY <2>6 DEF EntryOf
  <2>8. raw \in Touched(change)
    <3>1. CASE change.kind = "delete"
      BY <2>6, <2>7, <3>1 DEF Touched, ChangedPath
    <3>2. CASE change.kind # "delete"
      BY <2>6, <2>7, <3>2 DEF Touched, ChangedPath
    <3> QED
      BY <3>1, <3>2
  <2>9. raw \in RawPath
    BY <2>5, <2>8 DEF Touched
  <2>10. raw \in TouchedBy(changes)
    <3> HIDE DEF Touched
    <3> QED
      BY <2>8 DEF TouchedBy, change
  <2> QED
    BY <2>1, <2>9, <2>10, NothingKept
<1>3. CASE <<>> \notin ChangedSet(files)
  BY <1>3, Zenon DEF PatchRaises, files
<1> QED
  BY <1>2, <1>3

(* An evaluation that raised met an entry that is no object or a path that *)
(* names the root.                                                         *)
LEMMA StreamRaiseTold ==
  ASSUME EventIInv, outcome = "raised"
  PROVE  \E n \in DOMAIN stream :
           \/ ~ Readable(stream[n])
           \/ \E raw \in extract_paths_from_event(stream[n]) : RootNamed(raw)
<1> HIDE DEF Raises, Readable, extract_paths_from_event, RawPath, Noise, IsRepoPath,
             normalize_repo_path
<1>1. PICK i \in 1..Len(stream) :
        ~ Readable(stream[i]) \/ \E raw \in extract_paths_from_event(stream[i]) : Raises(raw)
  BY Zenon DEF EventIInv, RaiseTold
<1> SUFFICES ASSUME NEW raw \in extract_paths_from_event(stream[i]), Raises(raw)
             PROVE  i \in DOMAIN stream /\ RootNamed(raw)
  <2>1. i \in DOMAIN stream
    BY LenProperties DEF EventIInv, TypeOK
  <2> QED
    BY <1>1, <2>1, Zenon
<1>3. stream \in Seq(Events) /\ i \in DOMAIN stream /\ stream[i] \in Events
  <2>1. stream \in Seq(Events)
    BY Zenon DEF EventIInv, TypeOK
  <2> QED
    BY <2>1, LenProperties, ElementOfSeq
<1>4. raw \in RawPath
  BY <1>3, EventPathType
<1>5. ToSet(raw) \subseteq Noise
  BY <1>4, SecondNormalization, Zenon DEF Raises
<1> QED
  BY <1>3, <1>5 DEF RootNamed

(* A task that builds with an empty write scope has an empty read scope.   *)
LEMMA EmptyScopeIsRead ==
  ASSUME NEW document, spec = ScopesOf(document.task), BuildTask(document) = "ok",
         spec \in SpecType, <<>> \in spec.write_paths
  PROVE  <<>> \in spec.read_paths
<1>1. validate_task_spec_structure(document.task)
  BY BuiltTask, Zenon DEF CanBuild
<1>2. SubsetOfRead(spec)
  BY <1>1, Zenon DEF validate_task_spec_structure
<1>3. path_matches_any(<<>>, spec.read_paths)
  <2> DEFINE empty == <<>>
  <2>1. empty \in spec.write_paths \cup spec.immutable_read_paths
    OBVIOUS
  <2> HIDE DEF empty
  <2>2. path_matches_any(empty, spec.read_paths)
    BY <1>2, <2>1, Zenon DEF SubsetOfRead
  <2> QED
    BY <2>2 DEF empty
<1>4. PICK scope \in spec.read_paths : scope_contains(scope, <<>>)
  <2> HIDE DEF scope_contains
  <2> QED
    BY <1>3 DEF path_matches_any
<1>5. scope \in Path /\ <<>> \in Path
  BY <1>4 DEF SpecType, Path
<1>6. scope = <<>>
  <2>1. \/ <<>> = scope
        \/ scope # <<>> /\ Len(scope) <= Len(<<>>)
    <3> DEFINE empty == <<>>
    <3>1. empty \in Path /\ scope_contains(scope, empty)
      BY <1>4, <1>5
    <3> HIDE DEF empty
    <3>2. empty = scope \/ (scope # <<>> /\ Len(scope) <= Len(empty))
      BY <1>5, <3>1, ContainsByIndex
    <3> QED
      BY <3>2 DEF empty
  <2> QED
    BY <1>5, <2>1 DEF Path
<1> QED
  BY <1>4, <1>6

(* A well-formed policy raises for no task that builds without an empty    *)
(* scope.                                                                  *)
LEMMA PolicyRaiseTold ==
  ASSUME NEW document, NEW policy, spec = ScopesOf(document.task), spec \in SpecType,
         BuildTask(document) = "ok", WellFormedPolicy(policy), ~ document.terms.wordless,
         <<>> \notin spec.read_paths \cup spec.forbidden_paths
  PROVE  ~ PolicyRaises(policy, spec, document.terms)
<1>1. policy.malformed = {}
  BY DEF WellFormedPolicy
<1>2. ~ LimitRaises(policy, document.terms)
  BY Zenon DEF LimitRaises, WellFormedPolicy
<1>3. ~ ModeRaises(policy, document.terms)
  <2>1. "array" # "none" /\ "array" # "text" /\ "array" # "object"
    OBVIOUS
  <2> QED
    BY <2>1, Zenon DEF ModeRaises, WellFormedPolicy
<1>4. ~ CommandRaises(policy, document.terms)
  BY <1>1 DEF CommandRaises
<1>5. <<>> \notin spec.read_paths \cup spec.write_paths \cup spec.forbidden_paths
  <2>1. <<>> \notin spec.write_paths
    BY EmptyScopeIsRead
  <2> QED
    BY <2>1
<1> HIDE DEF LimitRaises, ModeRaises, CommandRaises
<1> QED
  BY <1>1, <1>2, <1>3, <1>4, <1>5 DEF PolicyRaises

(* INTERNAL_ERROR has its cause in the input.                              *)
LEMMA InternalErrorTold == CliIInv => InternalErrorExplained
<1> DEFINE document == invocation.document
           policy == invocation.policy
           other == invocation.other
<1> SUFFICES ASSUME CliIInv, exit = "INTERNAL_ERROR", WellFormedInput(invocation)
             PROVE  FALSE
  BY Zenon DEF InternalErrorExplained
<1>1. /\ {document.form, other} \cap {"not UTF-8", "wrong type"} = {}
      /\ document.defects = {} /\ ~ document.terms.wordless
      /\ policy # NoPolicy => WellFormedPolicy(policy)
      /\ invocation.answer # "other"
      /\ <<>> \notin spec.read_paths \cup spec.forbidden_paths
      /\ \A raw \in TouchedBy(invocation.patch) : ~ RootNamed(raw)
      /\ invocation.expected # Unchecked =>
           \A n \in DOMAIN invocation.expected : IsRepoPath(invocation.expected[n])
      /\ \A n \in DOMAIN stream :
           /\ Readable(stream[n])
           /\ \A raw \in extract_paths_from_event(stream[n]) : ~ RootNamed(raw)
  BY Zenon DEF WellFormedInput
<1>2. /\ invocation \in Invocations /\ spec = ScopesOf(document.task)
      /\ exit = ExitCode(result) /\ result # "running"
      /\ result \in Status \cup Exception
  <2>1. "INTERNAL_ERROR" # "running"
    OBVIOUS
  <2>2. /\ invocation \in Invocations /\ spec = ScopesOf(document.task)
        /\ exit \in {"running", ExitCode(result)} /\ (result = "running" => exit = "running")
        /\ result \in {"running"} \cup Status \cup Exception
    BY Zenon DEF CliIInv, Typed
  <2> HIDE DEF document
  <2> QED
    BY <2>1, <2>2
<1>3. result \in {"INTERNAL_ERROR", "other"}
  BY <1>2 DEF ExitCode, Status, Exception
<1>4. Blame(result)
  <2>1. "PASS" \notin {"INTERNAL_ERROR", "other"}
    OBVIOUS
  <2> HIDE DEF Blame
  <2> QED
    BY <1>2, <1>3, <2>1 DEF CliIInv, Excused
<1>5. /\ document.form \in FileForm /\ other \in FileForm
      /\ invocation.patch \in Seq(Change)
      /\ invocation.answer \in {"ok"} \cup (Status \ {"PASS", "INTERNAL_ERROR"}) \cup Exception
  BY <1>2, CliAssumption, Zenon
<1>6. /\ document.form \notin {"not UTF-8", "wrong type"}
      /\ other \notin {"not UTF-8", "wrong type"}
  BY <1>1
<1> HIDE DEF document, policy, other
<1>7. result # Load(document.form)
  <2>1. Load(document.form) \in {"ok", "OSError", "JSONDecodeError", "other"} \ {"other"}
    <3> HIDE DEF Load
    <3> QED
      BY <1>5, <1>6, FileAnswers
  <2> HIDE DEF Load
  <2> QED
    BY <1>3, <2>1
<1>8. result # Load(other) /\ result # ReadText(other) /\ result # Use(other)
  <2>1. /\ Load(other) \in {"ok", "OSError", "JSONDecodeError", "other"}
        /\ ReadText(other) \in {"ok", "OSError", "other"} /\ Use(other) \in {"ok", "other"}
        /\ Load(other) # "other" /\ ReadText(other) # "other" /\ Use(other) # "other"
    BY <1>5, <1>6, FileAnswers, Zenon
  <2> HIDE DEF Load, ReadText, Use
  <2> QED
    BY <1>3, <2>1
<1>9. Load(document.form) = "ok" => document.form = "right type"
  <2>1. Load(document.form) = "ok" => document.form \in {"wrong type", "right type"}
    BY <1>5, FileAnswers, Zenon
  <2> HIDE DEF Load
  <2> QED
    BY <1>6, <2>1
<1>10. document.form = "right type" =>
         result # Structure(document) /\ result # BuildTask(document)
  <2> HIDE DEF Structure, BuildTask, CheckPolicy, CheckPatch, Load, GoodTask
  <2>1. /\ Structure(document) \in {"ok", "other", "VALIDATION_FAILURE"}
        /\ Structure(document) = "other" => document.form # "right type"
        /\ BuildTask(document) \in {"ok", "other", "TaskSpecValidationError"}
        /\ BuildTask(document) = "other" =>
             document.form # "right type" \/ document.defects # {}
    BY AnswerCauses, Zenon
  <2>2. document.defects = {}
    BY <1>1 DEF document
  <2> QED
    BY <1>3, <2>1, <2>2
<1>11. document.form = "right type" /\ policy # NoPolicy =>
         result # CheckPolicy(document, policy, other)
  <2> SUFFICES ASSUME document.form = "right type", policy # NoPolicy
               PROVE  CheckPolicy(document, policy, other) \notin {"INTERNAL_ERROR", "other"}
    BY <1>3
  <2> HIDE DEF Structure, BuildTask, CheckPolicy, CheckPatch, Load, Use, GoodTask, PolicyRaises
  <2>1. /\ CheckPolicy(document, policy, other) \in {"ok", "other", "POLICY_VIOLATION"}
        /\ CheckPolicy(document, policy, other) = "other" =>
             /\ BuildTask(document) = "ok"
             /\ Use(other) # "ok" \/ PolicyRaises(policy, spec, document.terms)
    BY AnswerCauses, Zenon
  <2>2. Use(other) = "ok"
    <3>1. Use(other) \in {"ok", "other"} /\ Use(other) # "other"
      BY <1>5, <1>6, FileAnswers, Zenon
    <3> QED
      BY <3>1
  <2>3. spec \in SpecType
    BY EventAssumption DEF CliIInv, EventIInv, TypeOK
  <2>4. BuildTask(document) = "ok" => ~ PolicyRaises(policy, spec, document.terms)
    <3>1. /\ spec = ScopesOf(document.task) /\ WellFormedPolicy(policy)
          /\ ~ document.terms.wordless
          /\ <<>> \notin spec.read_paths \cup spec.forbidden_paths
      BY <1>1, <1>2, Zenon DEF document, policy
    <3> HIDE DEF ScopesOf, WellFormedPolicy
    <3> QED
      BY <2>3, <3>1, PolicyRaiseTold
  <2> QED
    BY <2>1, <2>2, <2>4
<1>12. result # CheckPatch(invocation)
  <2> HIDE DEF Structure, BuildTask, CheckPolicy, CheckPatch, Load, GoodTask, PatchRaises
  <2>1. /\ CheckPatch(invocation) \in {"ok", "other", "VALIDATION_FAILURE"}
        /\ CheckPatch(invocation) = "other" =>
             PatchRaises(parse_patch(PatchLines(invocation.patch)), invocation.expected)
    BY AnswerCauses, Zenon
  <2>2. ~ PatchRaises(parse_patch(PatchLines(invocation.patch)), invocation.expected)
    BY <1>1, <1>5, PatchRaiseTold, Zenon DEF RootNamed
  <2> QED
    BY <1>3, <2>1, <2>2
<1>13. outcome # "raised"
  <2> HIDE DEF Readable, RootNamed, extract_paths_from_event
  <2> QED
    BY <1>1, StreamRaiseTold DEF CliIInv
<1>14. result # "POLICY_VIOLATION"
  BY <1>3
<1>15. result # invocation.answer
  BY <1>1, <1>3, <1>5 DEF Status, Exception
<1> HIDE DEF Load, ReadText, Use, Structure, BuildTask, CheckPolicy, CheckPatch
<1> QED
  BY <1>4, <1>7, <1>8, <1>9, <1>10, <1>11, <1>12, <1>13, <1>14, <1>15, Zenon
  DEF Blame, document, policy, other

(* So has every other refusal.                                             *)
LEMMA RefusalTold == CliIInv => RefusalHasCause
<1> DEFINE document == invocation.document
           policy == invocation.policy
           command == invocation.command
           BadEvent == \E n \in DOMAIN stream : ~ (Plain(stream[n]) /\ Permitted(stream[n]))
           BadPatch == HalfSeen(invocation.patch) \/ ~ PatchAcceptable(invocation)
           BadTask == policy # NoPolicy /\ ~ Compliant(policy, document.terms)
<1>1. SUFFICES ASSUME CliIInv, exit \notin {"running", "PASS", "INTERNAL_ERROR"},
                      command \in TaskCommand => GoodTask(document),
                      invocation.other = "right type"
               PROVE  CASE command = "validate-events" -> BadEvent
                        [] command = "validate-patch" -> BadPatch
                        [] command \in {"validate-task", "validate-policy"} -> BadTask
                        [] OTHER -> invocation.answer # "ok"
  BY Zenon DEF RefusalHasCause
<1>2. /\ invocation \in Invocations /\ spec = ScopesOf(document.task)
      /\ exit = ExitCode(result) /\ result \in {"running"} \cup Status \cup Exception
      /\ result # "running" /\ command # "evaluate_event_stream"
  <2>1. /\ invocation \in Invocations /\ spec = ScopesOf(document.task)
        /\ exit \in {"running", ExitCode(result)} /\ (result = "running" => exit = "running")
        /\ result \in {"running"} \cup Status \cup Exception
        /\ result # "running" => command # "evaluate_event_stream"
    BY <1>1, Zenon DEF CliIInv, Typed
  <2> HIDE DEF document, command
  <2> QED
    BY <1>1, <2>1
<1>3. result \notin
       {"running", "PASS", "INTERNAL_ERROR", "other"}
  BY <1>1, <1>2 DEF ExitCode, Status
<1>4. Blame(result)
  <2> HIDE DEF Blame
  <2> QED
    BY <1>1, <1>3 DEF CliIInv, Excused
<1>5. /\ document.form \in FileForm /\ invocation.other \in FileForm
      /\ invocation.patch \in Seq(Change)
      /\ command \in TaskCommand \cup OtherCommand \cup {"evaluate_event_stream"}
  BY <1>2, CliAssumption, Zenon
<1>6. /\ Load(invocation.other) = "ok" /\ ReadText(invocation.other) = "ok"
      /\ Use(invocation.other) = "ok"
  <2>1. invocation.other \in FileForm /\ invocation.other = "right type"
    BY <1>1, <1>5, Zenon
  <2> HIDE DEF Load, ReadText, Use, FileForm
  <2> QED
    BY <2>1, FileAnswers, Zenon
<1> HIDE DEF document, policy, command
<1>7. command \in TaskCommand =>
        Load(document.form) = "ok" /\ Structure(document) = "ok" /\ BuildTask(document) = "ok"
  <2> HIDE DEF Structure, BuildTask, CheckPolicy, CheckPatch, Load, GoodTask
  <2> QED
    BY <1>1, <1>5, FileAnswers, AnswerCauses, Zenon
<1>8. result = CheckPolicy(document, policy, invocation.other) /\ result # "ok"
      /\ policy # NoPolicy /\ command \in TaskCommand => BadTask
  <2> SUFFICES ASSUME result = CheckPolicy(document, policy, invocation.other), result # "ok",
                      policy # NoPolicy, command \in TaskCommand
               PROVE  BadTask
    OBVIOUS
  <2> HIDE DEF CheckPolicy, Compliant, BuildTask, TaskCommand, ScopesOf
  <2>1. /\ result \in {"ok", "other", "POLICY_VIOLATION"}
        /\ result = "POLICY_VIOLATION" => ~ Compliant(policy, document.terms)
    BY <1>2, <1>7, PolicyAnswer, Zenon DEF document, policy
  <2> QED
    BY <1>3, <2>1
<1>9. result = CheckPatch(invocation) /\ result # "ok" => BadPatch
  <2> DEFINE files == parse_patch(PatchLines(invocation.patch))
  <2>1. /\ CheckPatch(invocation) \in {"ok", "other", "VALIDATION_FAILURE"}
        /\ CheckPatch(invocation) = "VALIDATION_FAILURE" =>
             ~ PatchValid(files, spec, invocation.expected, invocation.apply, FALSE)
    <3> HIDE DEF Structure, BuildTask, CheckPolicy, CheckPatch, Load, GoodTask, PatchValid
    <3> QED
      BY AnswerCauses, Zenon
  <2>2. ~ BadPatch => PatchValid(files, spec, invocation.expected, invocation.apply, FALSE)
    <3> HIDE DEF PatchValid, HalfSeen, PatchAcceptable
    <3> QED
      BY <1>5, AcceptableIsValid
  <2> HIDE DEF CheckPatch, PatchValid, BadPatch, files
  <2> QED
    BY <1>3, <2>1, <2>2
<1>10. outcome = "returned" /\ violations # {} => BadEvent
  <2> SUFFICES ASSUME outcome = "returned", NEW v \in violations PROVE BadEvent
    OBVIOUS
  <2>1. /\ stream \in Seq(Events) /\ v.event \in 1..Len(stream)
    BY <1>1, Zenon DEF CliIInv, EventIInv, TypeOK
  <2>2. v.event \in DOMAIN stream
    BY <2>1, LenProperties
  <2>3. "returned" # "raised"
    OBVIOUS
  <2>4. Plain(stream[v.event]) => ~ Permitted(stream[v.event])
    BY <1>1, <2>1, <2>3, Zenon DEF CliIInv, EventIInv, VerdictExact
  <2> QED
    BY <2>2, <2>4, Zenon
<1> HIDE DEF BadEvent, BadPatch, BadTask
<1>11. /\ "validate-task" \in TaskCommand /\ "validate-policy" \in TaskCommand
       /\ "validate-patch" \in TaskCommand /\ "validate-events" \in TaskCommand
       /\ TaskCommand \cap OtherCommand = {}
       /\ "validate-events" # "validate-patch" /\ "validate-events" # "validate-task"
       /\ "validate-events" # "validate-policy" /\ "validate-patch" # "validate-task"
       /\ "validate-patch" # "validate-policy"
       /\ \A c \in TaskCommand : c \in {"validate-events", "validate-patch"}
                                       \cup {"validate-task", "validate-policy"}
  BY DEF TaskCommand, OtherCommand
<1>12. result # "ok" /\ result # "other"
  BY <1>3, <1>4, Zenon DEF Blame
<1>13. \/ command \in {"validate-task", "validate-policy"} /\ BadTask
       \/ command = "validate-patch" /\ BadPatch
       \/ command = "validate-events" /\ BadEvent
       \/ command \in OtherCommand /\ invocation.answer # "ok"
  <2>1. \/ command \in {"validate-task", "validate-policy"} /\ policy # NoPolicy
             /\ result = CheckPolicy(document, policy, invocation.other)
        \/ command = "validate-patch" /\ result = CheckPatch(invocation)
        \/ command = "validate-events" /\ outcome = "returned" /\ violations # {}
        \/ command \in OtherCommand /\ result = invocation.answer
    <3> HIDE DEF Load, ReadText, Use, Structure, BuildTask, CheckPolicy, CheckPatch,
                 TaskCommand, OtherCommand
    <3> QED
      BY <1>4, <1>6, <1>7, <1>11, <1>12, Zenon DEF Blame, document, policy, command
  <2> HIDE DEF CheckPolicy, CheckPatch, TaskCommand, OtherCommand
  <2> QED
    BY <1>8, <1>9, <1>10, <1>11, <1>12, <2>1
<1> HIDE DEF TaskCommand, OtherCommand
<1> QED
  BY <1>11, <1>13

(* A command that was given files of the right form and a task that builds *)
(* fails for a reason of its own, and INTERNAL_ERROR is the answer to an   *)
(* input of a form the command does not expect, never to a failed check:   *)
(* for every stream, patch, policy and task.                               *)
THEOREM FailureIsExplained == CliSpec => []FailureHasCause
<1>1. CliIInv => FailureHasCause
  BY InternalErrorTold, RefusalTold DEF FailureHasCause
<1> QED
  BY <1>1, Inductive, PTL

-----------------------------------------------------------------------------
(* The adapters' loop.  FirstCall(event) satisfies its recursive equation: *)
(* a function that does exists on every initial interval.                  *)
LEMMA FirstCallEquation ==
  ASSUME NEW event, Len(event) \in Nat
  PROVE  FirstCall(event) =
           [n \in 0..Len(event) |->
              IF n = 0 THEN 0
              ELSE IF FirstCall(event)[n-1] # 0 THEN FirstCall(event)[n-1]
              ELSE IF event[n].kind = "tool_use" THEN n ELSE 0]
<1> DEFINE Step(g, n) == IF n = 0 THEN 0
                         ELSE IF g[n-1] # 0 THEN g[n-1]
                         ELSE IF event[n].kind = "tool_use" THEN n ELSE 0
           Equation(g, m) == g = [n \in 0..m |-> Step(g, n)]
           Without == {m \in 0..Len(event) : ~ \E g : Equation(g, m)}
<1>1. ASSUME NEW m \in 0..Len(event), m \in Without, \A k \in Without : m <= k
      PROVE  FALSE
  <2>1. m \in Nat /\ m <= Len(event)
    OBVIOUS
  <2>2. CASE m = 0
    <3>1. Equation([n \in 0..0 |-> 0], 0)
      OBVIOUS
    <3> QED
      BY <1>1, <2>2, <3>1
  <2>3. CASE m # 0
    <3>1. m - 1 \in 0..Len(event) /\ ~ (m <= m - 1)
      BY <2>1, <2>3
    <3>2. PICK g : Equation(g, m - 1)
      BY <1>1, <3>1
    <3> DEFINE h == [n \in 0..m |-> Step(g, n)]
    <3> HIDE DEF Step
    <3>3. \A n \in 0..(m-1) : n \in 0..m /\ g[n] = Step(g, n) /\ h[n] = Step(g, n)
      BY <2>1, <3>2
    <3>4. \A n \in 0..m : n # 0 => n - 1 \in 0..(m-1)
      BY <2>1
    <3>5. \A n \in 0..m : Step(h, n) = Step(g, n)
      BY <3>3, <3>4 DEF Step
    <3>6. Equation(h, m)
      BY <3>5
    <3> QED
      BY <1>1, <3>6
  <2> QED
    BY <2>2, <2>3
<1>2. \E g : Equation(g, Len(event))
  <2>1. Without \subseteq Nat
    OBVIOUS
  <2>2. Without = {}
    BY <1>1, <2>1, LeastMember
  <2>3. Len(event) \in 0..Len(event)
    OBVIOUS
  <2> HIDE DEF Equation
  <2> QED
    BY <2>2, <2>3
<1>3. FirstCall(event) = CHOOSE g : Equation(g, Len(event))
  BY DEF FirstCall
<1>4. Equation(FirstCall(event), Len(event))
  BY <1>2, <1>3
<1> QED
  BY <1>4

(* The loop stops at the least of the tool blocks, if there is one.        *)
LEMMA FirstCallIsFirst ==
  ASSUME NEW event, Len(event) \in Nat, NEW call, call = FirstCall(event)[Len(event)]
  PROVE  /\ call = 0 <=> ToolBlocks(event) = {}
         /\ call # 0 => call \in ToolBlocks(event) /\ \A i \in ToolBlocks(event) : call <= i
<1> DEFINE first == FirstCall(event)
           Told(n) == /\ first[n] = 0 => \A i \in 1..n : event[i].kind # "tool_use"
                      /\ first[n] # 0 =>
                           /\ first[n] \in 1..n /\ event[first[n]].kind = "tool_use"
                           /\ \A i \in 1..n : event[i].kind = "tool_use" => first[n] <= i
           Untold == {n \in 0..Len(event) : ~ Told(n)}
<1>1. \A n \in 0..Len(event) :
        first[n] = IF n = 0 THEN 0 ELSE IF first[n-1] # 0 THEN first[n-1]
                   ELSE IF event[n].kind = "tool_use" THEN n ELSE 0
  BY FirstCallEquation
<1> HIDE DEF first
<1>2. ASSUME NEW n \in Untold, \A k \in Untold : n <= k PROVE FALSE
  <2>1. n \in Nat /\ n <= Len(event) /\ ~ Told(n)
    OBVIOUS
  <2>2. n # 0
    BY <1>1, <2>1
  <2>3. n \in 1..Len(event) /\ n - 1 \in 0..Len(event) /\ ~ (n <= n - 1)
    BY <2>1, <2>2
  <2>4. Told(n - 1)
    <3> HIDE DEF Told
    <3> QED
      BY <1>2, <2>3
  <2>5. \A i \in 1..n : i = n \/ i \in 1..(n-1)
    BY <2>1
  <2>6. first[n] = IF first[n-1] # 0 THEN first[n-1]
                   ELSE IF event[n].kind = "tool_use" THEN n ELSE 0
    BY <1>1, <2>1, <2>2
  <2> QED
    BY <2>1, <2>3, <2>4, <2>5, <2>6
<1>3. Untold = {}
  <2>1. Untold \subseteq Nat
    OBVIOUS
  <2> HIDE DEF Untold
  <2> QED
    BY <1>2, <2>1, LeastMember
<1>4. Told(Len(event))
  <2>1. Len(event) \in 0..Len(event)
    OBVIOUS
  <2> HIDE DEF Told
  <2> QED
    BY <1>3, <2>1
<1> QED
  BY <1>4 DEF ToolBlocks, first

(* The adapters and the event policy read one and the same call out of an  *)
(* event, in every stream: an adapter's event never names a path that the  *)
(* event policy does not check.                                            *)
THEOREM AdaptersAgree == CliSpec => []AdapterAgrees
<1>1. EventIInv => AdapterAgrees
  <2> SUFFICES ASSUME EventIInv, NEW n \in DOMAIN stream, Readable(stream[n])
               PROVE  LET event == normalize_events(stream)[n]
                      IN  /\ event.tool_name = ToolName(stream[n])
                          /\ ToSet(event.paths) \subseteq extract_paths_from_event(stream[n])
                          /\ Cardinality(ToolBlocks(stream[n])) <= 1 =>
                               ToSet(event.paths) = extract_paths_from_event(stream[n])
    BY Zenon DEF AdapterAgrees
  <2> DEFINE raw == stream[n]
             call == FirstCall(raw)[Len(raw)]
  <2>1. normalize_events(stream)[n] = normalize_one(raw)
    BY Zenon DEF normalize_events
  <2>2. Len(raw) \in Nat
    <3>1. stream \in Seq(Events)
      BY Zenon DEF EventIInv, TypeOK
    <3>2. raw \in Events
      BY <3>1, LenProperties, ElementOfSeq
    <3>3. raw \in Seq(Block)
      BY <3>2, EventAssumption
    <3> HIDE DEF raw, Block
    <3> QED
      BY <3>3
  <2> HIDE DEF raw
  <2>3. /\ call = 0 <=> ToolBlocks(raw) = {}
        /\ call # 0 => call \in ToolBlocks(raw) /\ \A i \in ToolBlocks(raw) : call <= i
    <3> HIDE DEF call
    <3> QED
      BY <2>2, FirstCallIsFirst DEF call
  <2>4. CASE ToolBlocks(raw) = {}
    <3>1. normalize_one(raw).tool_name = ToolName(raw) /\ normalize_one(raw).paths = <<>>
      BY <2>3, <2>4, Zenon DEF normalize_one, ToolName
    <3>2. ToSet(<<>>) = {}
      BY DEF ToSet
    <3>3. extract_paths_from_event(raw) = {}
      BY <2>4 DEF extract_paths_from_event
    <3> QED
      BY <2>1, <3>1, <3>2, <3>3, Zenon DEF raw
  <2>5. CASE ToolBlocks(raw) # {}
    <3>1. call \in ToolBlocks(raw) /\ \A i \in ToolBlocks(raw) : call <= i
      BY <2>3, <2>5
    <3>2. normalize_one(raw) = [tool_name |-> raw[call].name, paths |-> raw[call].paths]
      BY <2>3, <2>5, Zenon DEF normalize_one
    <3>3. call = CHOOSE i \in ToolBlocks(raw) : \A j \in ToolBlocks(raw) : i <= j
      <4>1. ToolBlocks(raw) \subseteq Nat
        BY DEF ToolBlocks
      <4> HIDE DEF ToolBlocks, call
      <4> QED
        BY <3>1, <4>1
    <3> HIDE DEF call
    <3>4. ToolName(raw) = raw[call].name
      BY <2>5, <3>3, Zenon DEF ToolName
    <3>5. normalize_one(raw).tool_name = raw[call].name
          /\ normalize_one(raw).paths = raw[call].paths
      BY <3>2
    <3>6. ToSet(raw[call].paths) \subseteq extract_paths_from_event(raw)
      <4> HIDE DEF ToSet, ToolBlocks
      <4> QED
        BY <3>1 DEF extract_paths_from_event
    <3>7. ASSUME Cardinality(ToolBlocks(raw)) <= 1
          PROVE  extract_paths_from_event(raw) = ToSet(raw[call].paths)
      <4>1. IsFiniteSet(ToolBlocks(raw))
        <5>1. IsFiniteSet(1..Len(raw)) /\ ToolBlocks(raw) \subseteq 1..Len(raw)
          BY <2>2, FS_Interval DEF ToolBlocks
        <5> QED
          BY <5>1, FS_Subset
      <4> HIDE DEF ToolBlocks, ToSet
      <4>2. \A i \in ToolBlocks(raw) : i = call
        <5> SUFFICES ASSUME NEW i \in ToolBlocks(raw), i # call PROVE FALSE
          OBVIOUS
        <5>1. /\ IsFiniteSet({call, i}) /\ Cardinality({call, i}) <= Cardinality(ToolBlocks(raw))
          BY <3>1, <4>1, FS_Subset
        <5>2. Cardinality({call, i}) = 2
          <6>1. IsFiniteSet({call}) /\ Cardinality({call}) = 1
            BY FS_Singleton
          <6>2. Cardinality({call} \cup {i}) = 2
            BY <6>1, FS_AddElement
          <6>3. {call} \cup {i} = {call, i}
            OBVIOUS
          <6> QED
            BY <6>2, <6>3
        <5>3. Cardinality(ToolBlocks(raw)) \in Nat
          BY <4>1, FS_CardinalityType
        <5> QED
          BY <3>7, <5>1, <5>2, <5>3
      <4>3. {ToSet(raw[i].paths) : i \in ToolBlocks(raw)} = {ToSet(raw[call].paths)}
        BY <3>1, <4>2
      <4> QED
        BY <4>3 DEF extract_paths_from_event
    <3> QED
      BY <2>1, <3>4, <3>5, <3>6, <3>7, Zenon DEF raw
  <2> QED
    BY <2>4, <2>5
<1>2. CliIInv => AdapterAgrees
  BY <1>1 DEF CliIInv
<1> QED
  BY <1>2, Inductive, PTL
=============================================================================
