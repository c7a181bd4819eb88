----------------------------- MODULE MCTaskIntake -----------------------------
(* Access: two lower-case names, one spelled in two cases, paths of up to  *)
(* two segments; the scope lists cover nesting in both directions,         *)
(* duplicates, the empty list, the empty path "." and malformed entries.   *)
(*                                                                         *)
(* Admission: the contract schemas/task_spec_v2.schema.json, on a good     *)
(* document with any one of its fields left out or given any of sixteen    *)
(* values, and four small schemas on nested values, under six policies.    *)
EXTENDS TaskIntake

Letters == {"a", "A", "b"}
MCName == Letters \cup {"src", "doc"}
MCLower == [n \in MCName |-> IF n = "A" THEN "a" ELSE n]
MCDrive == {"c:"}

Paths == {<<"a">>, <<"A", "b">>, <<"b">>, <<".">>}
Odd == {<<"..", "a">>, <<"", "a">>, <<"">>, <<"c:", "a">>}
OnePath == {<<e>> : e \in Paths}
TwoPaths == {<<e, f>> : e, f \in Paths}

MCTasks ==
  [flaws : {{}}, read : OnePath \cup TwoPaths, write : OnePath \cup {<<<<"a">>, <<"b">>>>},
   immutable : OnePath \cup {<<>>}, forbidden : OnePath \cup {<<>>, <<<<"b", "a">>>>}]
  \cup
  [flaws : SUBSET Flaw, read : {<<>>, <<<<"a">>>>}, write : {<<>>, <<<<"a", "b">>>>},
   immutable : {<<>>}, forbidden : {<<>>} \cup {<<o>> : o \in Odd}]

MCRequests ==
  {<<s>> : s \in Letters \cup {".", "", ".."}}
  \cup {<<"a", "b">>, <<"A", ".", "b">>, <<"b", "a">>, <<"a", "a">>, <<"", "a">>, <<"c:", "b">>}

-----------------------------------------------------------------------------
Strings == {"", "id", "sha", "sha, newline", "src", "doc", "..", ".", "sequential", "parallel"}
MCLength == [s \in Strings |->
  CASE s = "" -> 0 [] s = "sha" -> 40 [] s = "sha, newline" -> 41 [] OTHER -> 3]
MCMatching == [pattern \in {"^[0-9a-f]{40}$"} |-> {"sha", "sha, newline"}]
MCPathOf == [s \in Strings |-> IF s \in {"", "src", "..", "."} THEN <<s>> ELSE <<"doc">>]
MCWordsOf == [s \in Strings |->
  CASE s = "" -> <<>> [] s = "sha, newline" -> <<"sha,", "newline">> [] OTHER -> <<s>>]

-----------------------------------------------------------------------------
Json(type, value) == [type |-> type, value |-> value]
Num(n) == Json("integer", n)
Str(s) == Json("string", s)
Arr(items) == Json("array", items)
Obj(pairs) == Json("object", pairs)
Pair(key, value) == [key |-> key, value |-> value]

Typed(type) == [type |-> <<type>>]

Fields == <<
  Pair("task_spec_version", Num(2)), Pair("task_id", Str("id")), Pair("task_type", Str("id")),
  Pair("base_commit", Str("sha")), Pair("read_paths", Arr(<<Str("src")>>)),
  Pair("write_paths", Arr(<<Str("src")>>)), Pair("immutable_read_paths", Arr(<<>>)),
  Pair("forbidden_paths", Arr(<<>>)), Pair("allowed_commands", Arr(<<>>)),
  Pair("max_agent_turns", Num(2)), Pair("max_rework_cycles", Num(0)),
  Pair("execution_mode", Str("sequential"))>>

Samples == <<
  Null, Json("boolean", TRUE), Json("number", 2), Num(0), Num(2), Num(60), Num(501),
  Str(""), Str("id"), Str("sha, newline"), Str("parallel"), Arr(<<>>), Arr(<<Str("doc")>>),
  Arr(<<Str("src"), Str(".")>>), Arr(<<Num(1)>>), Obj(<<>>)>>

Documents ==
  <<Obj(Fields)>>
  \o [i \in DOMAIN Fields |-> Obj(RemoveAt(Fields, i))]
  \o FlattenSeq([i \in DOMAIN Fields |->
       [j \in DOMAIN Samples |-> Obj([Fields EXCEPT ![i].value = Samples[j]])]])
  \o <<Obj(Append(Fields, Pair("allowed_paths", Arr(<<>>))))>>

-----------------------------------------------------------------------------
Inner == [type |-> <<"object">>, properties |-> [b |-> Within(0, 2)],
          additionalProperties |-> Nothing]
Small == <<
  [type |-> <<"object">>, required |-> <<"a">>, properties |-> [a |-> Inner],
   additionalProperties |-> Typed("string")],
  [type |-> <<"array">>, minItems |-> 1, maxItems |-> 2, uniqueItems |-> TRUE,
   items |-> [type |-> <<"string", "null">>, maxLength |-> 3]],
  [items |-> Inner, type |-> <<"array", "number">>, maximum |-> 60],
  [enum |-> <<Str("id"), Str("parallel")>>]>>

Nested == Samples \o <<
  Obj(<<Pair("a", Obj(<<Pair("b", Num(1))>>))>>),
  Obj(<<Pair("x", Str("id")), Pair("a", Obj(<<Pair("b", Num(2)), Pair("c", Num(2))>>))>>),
  Obj(<<Pair("x", Num(1)), Pair("a", Obj(<<>>))>>),
  Obj(<<Pair("a", Obj(<<Pair("b", Json("boolean", TRUE))>>)), Pair("x", Null)>>),
  Arr(<<Str("id"), Str("id")>>), Arr(<<Str("sha"), Null>>), Arr(<<Null, Str("id"), Null>>),
  Arr(<<Obj(<<Pair("b", Num(0))>>), Obj(<<Pair("b", Num(60))>>), Null>>)>>

MCCases ==
  [i \in DOMAIN Documents |-> [payload |-> Documents[i], schema |-> TaskContract]]
  \o FlattenSeq([s \in DOMAIN Small |->
       [i \in DOMAIN Nested |-> [payload |-> Nested[i], schema |-> Small[s]]]])

(* A value with its fields and items, a schema with theirs.                *)
Under(v) ==
  {v} \cup (CASE v.type = "object" -> {pair.value : pair \in ToSet(v.value)}
             [] v.type = "array" -> ToSet(v.value)
             [] OTHER -> {})
Below(s) ==
  {s} \cup (IF "items" \in DOMAIN s THEN {s.items} ELSE {})
      \cup (IF "properties" \in DOMAIN s THEN Range(s.properties) ELSE {})
      \cup (IF "additionalProperties" \in DOMAIN s THEN {s.additionalProperties} ELSE {})

MCValues ==
  LET levels[n \in 0..3] ==
        IF n = 0 THEN {case.payload : case \in ToSet(MCCases)}
        ELSE UNION {Under(v) : v \in levels[n-1]}
  IN  levels[3]
MCSchemas ==
  LET levels[n \in 0..3] ==
        IF n = 0 THEN {Anything} \cup {case.schema : case \in ToSet(MCCases)}
        ELSE UNION {Below(s) : s \in levels[n-1]}
  IN  levels[3]

(* No rule; rules of every kind that a document can break; modes named by  *)
(* text and by the keys of an object; a limit that is text; a mode on a    *)
(* tuple, which nothing satisfies; and a list of patterns that is none.    *)
Rules(limits, modes) ==
  [patterns |-> {}, commands |-> {}, limits |-> limits, modes |-> modes, malformed |-> {}]
OneOf(kind, texts) == [kind |-> kind, values |-> {Str(s) : s \in texts}]

MCPolicies == <<
  Rules(<<>>, <<>>),
  [Rules([max_agent_turns |-> Num(40)], [task_type |-> OneOf("array", {"id", "doc"})])
     EXCEPT !.patterns = {<<"doc">>}, !.commands = {<<"src">>, <<"newline">>}],
  Rules([max_agent_turns |-> Num(60), max_rework_cycles |-> Json("number", 2),
         max_execution_minutes |-> Num(60), execution_mode |-> Num(1)],
        [execution_mode |-> OneOf("text", {"", "sequential"}),
         base_commit |-> OneOf("object", {"sha"})]),
  Rules([max_rework_cycles |-> Str("id")], <<>>),
  Rules(<<>>, [read_paths |-> OneOf("array", {"src"})]),
  [Rules(<<>>, <<>>) EXCEPT !.malformed = {"patterns"}]>>
=============================================================================
