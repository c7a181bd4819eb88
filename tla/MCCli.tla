-------------------------------- MODULE MCCli --------------------------------
(* Streams of up to three events, with one call, several or none, of every  *)
(* tool class, on readable, writable, immutable, forbidden and malformed    *)
(* paths, evaluated by validate-events and directly; every command on       *)
(* documents that build, that do not, and that are no documents; patches of *)
(* up to two changes.                                                       *)
EXTENDS Cli

MCName == {"src", "Src", "doc", "outside", "x"}
MCLower == [n \in MCName |-> IF n = "Src" THEN "src" ELSE n]
MCDrive == {"c:"}
MCOutsideNames == {"outside"}
MCAllowLists == {{}, {"Cmd", "Mystery"}}

-----------------------------------------------------------------------------
Task(read, write, immutable, forbidden) ==
  [flaws |-> {}, read |-> read, write |-> write, immutable |-> immutable,
   forbidden |-> forbidden]

PlainTask == Task(<<<<"src">>, <<"doc">>>>, <<<<"Src">>>>, <<<<"doc">>>>, <<<<"x">>>>)
NarrowTask == Task(<<<<"src">>>>, <<<<"src", "x">>>>, <<>>, <<<<"outside">>>>)
GoodTasks == {PlainTask, NarrowTask, Task(<<<<".">>>>, <<<<".">>>>, <<>>, <<<<"x">>>>)}
BadTasks ==
  {Task(<<<<"src">>, <<"x">>>>, <<<<"src">>>>, <<>>, <<<<"x">>>>),
   Task(<<<<"src">>>>, <<<<"doc">>>>, <<>>, <<>>),
   [PlainTask EXCEPT !.flaws = {"identity"}], [PlainTask EXCEPT !.flaws = {"legacy"}]}

Integer(n) == [type |-> "integer", value |-> n]
Boolean(truth) == [type |-> "boolean", value |-> truth]
Text(word) == [type |-> "string", value |-> word]
Array == [type |-> "array", value |-> <<>>]
Terms(turns, mode, commands) ==
  [commands |-> commands, wordless |-> FALSE,
   attributes |-> [k \in {"max_agent_turns", "execution_mode"} |->
                     IF k = "execution_mode" THEN mode ELSE turns]]
PlainTerms == Terms(Integer(2), Text("sequential"), {<<"make", "test">>})
MCTerms ==
  {PlainTerms, [PlainTerms EXCEPT !.wordless = TRUE]}
  \cup {Terms(t, Text("sequential"), {}) : t \in {Integer(3), Text("3"), Boolean(TRUE)}}
  \cup {Terms(Integer(1), m, {}) : m \in {Text("parallel"), Text("seq"), Integer(1), Array}}
  \cup {Terms(Integer(1), Text("sequential"), {<<"git", "reset", "hard">>})}

Document(form, task, defects, terms) ==
  [form |-> form, task |-> task, defects |-> defects, terms |-> terms]
Good(task) == Document("right type", task, {}, PlainTerms)
GoodDocuments == {Good(task) : task \in GoodTasks}
BadDocuments ==
  {Good(task) : task \in BadTasks}
  \cup {Document("right type", PlainTask, {defect}, PlainTerms) : defect \in Defect}
  \cup {Document("right type", task, {"lengthless"}, PlainTerms) : task \in BadTasks}
  \cup {Document(form, PlainTask, {}, PlainTerms) : form \in FileForm \ {"right type"}}
Documents ==
  GoodDocuments \cup BadDocuments
  \cup {Document("right type", PlainTask, {}, terms) : terms \in MCTerms}

MCSpecs == {ScopesOf(d.task) : d \in Documents}

EmptyPolicy ==
  [patterns |-> {}, commands |-> {}, limits |-> <<>>, modes |-> <<>>, malformed |-> {}]
Limited(limit) == [EmptyPolicy EXCEPT !.limits = [k \in {"max_agent_turns"} |-> limit]]
Mode(kind, values) == [kind |-> kind, values |-> values]
Moded(mode) == [EmptyPolicy EXCEPT !.modes = [k \in {"execution_mode"} |-> mode]]
StrictPolicies ==
  {[patterns |-> patterns, commands |-> {<<"reset", "hard">>}, malformed |-> {},
    limits |-> [k \in {"max_agent_turns", "max_hours"} |-> Integer(2)], modes |-> modes] :
     patterns \in (SUBSET {<<"**", "Src">>, <<".", "doc", "*">>, <<"*", "x">>}) \cup {{<<"*">>}},
     modes \in {<<>>, [k \in {"execution_mode"} |-> Mode("array", {Text("sequential")})]}}
LoosePolicies ==
  {Limited(limit) : limit \in {Integer(0), Boolean(TRUE), Text("2"), Null}}
  \cup {Moded(Mode(kind, {Text("sequential"), Text("seq")})) : kind \in {"text", "object"}}
  \cup {Moded(Mode("none", {})), Moded(Mode("array", {Null, Boolean(TRUE)})),
         [EmptyPolicy EXCEPT !.modes = [k \in {"max_hours"} |-> Mode("array", {Null})]]}
  \cup {[EmptyPolicy EXCEPT !.malformed = {part}] : part \in PolicyPart}
  \cup {[EmptyPolicy EXCEPT !.commands = {<<>>}]}
MCPolicies == {EmptyPolicy} \cup StrictPolicies \cup LoosePolicies

-----------------------------------------------------------------------------
Call(name, paths) == [kind |-> "tool_use", name |-> name, paths |-> paths]
Words == [kind |-> "other", name |-> "", paths |-> <<>>]

PathLists ==
  {<<>>, <<<<"Src", "x">>>>, <<<<"src">>, <<"doc", ".", "x">>>>, <<<<"x">>>>,
   <<<<"outside", "x">>>>, <<<<"..", "src">>>>}
AbsolutePaths == {<<<<"", "src">>>>, <<<<"c:", "x">>>>}

PlainEvents ==
  {<<Call(name, paths)>> : name \in {"Read", "Edit"}, paths \in PathLists}
  \cup {<<Call("Grep", paths)>> : paths \in AbsolutePaths}
  \cup {<<Words, Call(name, <<<<"src">>>>)>> :
          name \in {"Bash", "Cmd", "WebFetch", "StructuredOutput", "Mystery"}}
  \cup {<<>>, <<Words>>}
NamelessCall == <<Call("", <<<<"x">>>>)>>
DotCalls == {<<Call(name, <<<<".">>>>)>> : name \in {"Glob", "Write"}}
NoObject == <<[kind |-> "unreadable", name |-> "", paths |-> <<>>]>>
SeveralCalls ==
  {<<Call("Read", <<<<"src">>>>), Call("Bash", <<>>)>>,
   <<Call("Read", <<<<"src">>>>), Call("Write", <<<<"doc">>>>)>>,
   <<Call("Write", <<<<"src", "x">>>>), Words, Call("Read", <<<<"doc">>>>)>>,
   <<Call("StructuredOutput", <<>>), Call("Write", <<<<"x">>>>)>>}

MCEvents == PlainEvents \cup {NamelessCall, NoObject} \cup DotCalls \cup SeveralCalls

(* The events of the run that shows what becomes of several calls.         *)
MCSeveralCalls == PlainEvents \cup SeveralCalls

-----------------------------------------------------------------------------
Edit(kind, path) == [kind |-> kind, old |-> path, new |-> path]
Moved(kind, old, new) == [kind |-> kind, old |-> old, new |-> new]

Changes ==
  {Edit(kind, path) : kind \in {"modify", "create", "delete", "binary"},
                      path \in {<<"src", "x">>, <<"doc">>}}
  \cup {Edit("modify", path) :
           path \in {<<"Src", ".", "x">>, <<"..", "x">>, <<"", "src">>, <<".">>}}
  \cup {Moved("copy", old, <<"src", "doc">>) : old \in {<<"doc">>, <<"..", "x">>}}
Renames ==
  {Moved("rename", <<"doc">>, <<"src", "x">>), Moved("rename", <<"src", "x">>, <<"src", "doc">>)}
Quoted == {Edit("quoted", <<"doc">>)}

Patches(changes) ==
  {<<>>} \cup {<<c>> : c \in changes} \cup {<<c, d>> : c, d \in changes}

Invocation(command, document, other) ==
  [command |-> command, document |-> document, other |-> other, policy |-> NoPolicy,
   patch |-> <<>>, expected |-> Unchecked, apply |-> Unchecked, answer |-> "ok"]
Broken == FileForm \ {"right type"}

FileInvocations ==
  {Invocation(c, d, "right type") : c \in TaskCommand \ {"validate-policy"}, d \in BadDocuments}
  \cup {Invocation(c, Good(PlainTask), f) :
           c \in {"validate-events", "validate-patch"}, f \in Broken}
EventInvocations ==
  {Invocation("validate-events", Good(task), "right type") : task \in {PlainTask, NarrowTask}}
  \cup {Invocation("evaluate_event_stream", Good(PlainTask), "right type")}
PolicyInvocations ==
  {Invocation("validate-task", d, "right type") : d \in Documents}
  \cup {[Invocation(c, d, "right type") EXCEPT !.policy = p] :
     c \in {"validate-task", "validate-policy"}, d \in Documents,
     p \in MCPolicies}
  \cup {[Invocation(c, d, f) EXCEPT !.policy = EmptyPolicy] :
     c \in {"validate-task", "validate-policy"}, f \in Broken,
     d \in {Good(PlainTask)} \cup BadDocuments}
PatchInvocations(changes) ==
  {[Invocation("validate-patch", d, "right type") EXCEPT
      !.patch = p, !.expected = e, !.apply = a] :
     d \in GoodDocuments, p \in Patches(changes),
     e \in {Unchecked, <<<<"src", "x">>>>, <<<<"doc">>, <<"src", "x">>>>, <<<<"..">>>>},
     a \in {Unchecked, "passed", "failed", "unavailable"}}
OtherInvocations ==
  {[Invocation(c, Good(PlainTask), f) EXCEPT !.answer = a] :
     c \in {"compare-repo"}, f \in FileForm,
     a \in {"ok", "INTEGRITY_FAILURE", "other"}}
  \cup {[Invocation(c, Good(PlainTask), "right type") EXCEPT !.answer = a] :
     c \in {"snapshot-repo", "verify-evidence"},
     a \in {"ok", "INTEGRITY_FAILURE", "OSError", "other"}}
  \cup {[Invocation("check-transition", Good(PlainTask), "right type") EXCEPT !.answer = a] :
     a \in {"ok", "VALIDATION_FAILURE", "POLICY_VIOLATION"}}
  \cup {Invocation("list-transitions", Good(PlainTask), "right type")}

MCInvocations ==
  FileInvocations \cup EventInvocations \cup PolicyInvocations
  \cup PatchInvocations(Changes \cup Renames \cup Quoted) \cup OtherInvocations
MCEventInvocations == EventInvocations
MCRenameInvocations == PatchInvocations(Changes \cup Renames)
=============================================================================
