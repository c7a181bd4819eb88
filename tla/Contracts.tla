------------------------------ MODULE Contracts ------------------------------
(***************************************************************************)
(* contracts.py: validate_json_contract, a depth-first walk over a JSON    *)
(* value and its schema that raises at the first fault.                    *)
(*                                                                         *)
(* A schema is a record from keywords to their values.  The one type of    *)
(* "type" is a list of one; additionalProperties: false is the schema      *)
(* Nothing, true is Anything.  A path gives the position of a field or an  *)
(* item on each level; the wording of the error is left out.  Strings are  *)
(* opaque: Length and Matching say what the keywords ask of them.          *)
(***************************************************************************)
EXTENDS JsonValue

CONSTANTS
  Values,    \* the JSON values that occur, with their fields and items
  Schemas,   \* the schemas that occur, with those of fields and items
  Cases,     \* the pairs [payload, schema] to validate, as a sequence
  Length,    \* the length of each string
  Matching   \* the strings in which each pattern is found

VARIABLES
  payload,   \* the value to validate
  schema,    \* the contract
  calls,     \* the calls of _validate that are to come, the innermost first
  verdict,   \* "validating", "valid" or "invalid"
  errorPath  \* where the error was raised

contractVars == <<payload, schema, calls, verdict, errorPath>>

Anything == <<>>
Nothing == [type |-> <<>>]

(* What json.load makes of a file, and what a schema is built from.        *)
IsValue(v) ==
  /\ v.type \in JsonType
  /\ v.type = "object" => v.value \in Seq([key : STRING, value : Values])
  /\ v.type = "array" => v.value \in Seq(Values)
  /\ v.type = "string" => v.value \in DOMAIN Length
  /\ v.type \in {"integer", "number"} => v.value \in Int

IsSchema(s) ==
  /\ "properties" \in DOMAIN s => \A key \in DOMAIN s.properties : s.properties[key] \in Schemas
  /\ "additionalProperties" \in DOMAIN s => s.additionalProperties \in Schemas
  /\ "items" \in DOMAIN s => s.items \in Schemas

ASSUME ContractAssumption ==
  /\ \A v \in Values : IsValue(v)
  /\ Anything \in Schemas
  /\ \A s \in Schemas : IsSchema(s)
  /\ \A text \in DOMAIN Length : Length[text] \in Nat
  /\ \A i \in DOMAIN Cases : Cases[i].payload \in Values /\ Cases[i].schema \in Schemas

-----------------------------------------------------------------------------
(* Mutant: Python's booleans are instances of int.                         *)
BooleansAreIntegers(value, expected) ==
  \E i \in DOMAIN expected :
    \/ expected[i] = value.type
    \/ expected[i] \in {"integer", "number"} /\ IsInt(value)

(* An unsupported name raises when the names before it do not match.       *)
MatchesType(value, expected) ==
  \E i \in DOMAIN expected :
    /\ \A j \in 1..(i-1) : expected[j] \in JsonType
    /\ value.type \in {expected[i]} \cup (IF expected[i] = "number" THEN {"integer"} ELSE {})

(* json.dumps with sorted keys.                                            *)
SameText(v, w) ==
  v.type = w.type /\ IF v.type = "object" THEN ToSet(v.value) = ToSet(w.value)
                     ELSE v.value = w.value

(* What _validate, _validate_object, _validate_array, _validate_string and *)
(* _validate_number raise for.                                             *)
Fails(keyword, rule, value) ==
  \/ keyword = "type" /\ ~ MatchesType(value, rule)
  \/ keyword = "enum" /\ \A i \in DOMAIN rule : ~ PyEqual(value, rule[i])
  \/ /\ value.type = "object"
     /\ keyword = "required" /\ ~ ToSet(rule) \subseteq Keys(value)
  \/ /\ value.type = "array"
     /\ \/ keyword = "minItems" /\ Len(value.value) < rule
        \/ keyword = "maxItems" /\ Len(value.value) > rule
        \/ keyword = "uniqueItems" /\ rule /\
           \E i, j \in DOMAIN value.value : i # j /\ SameText(value.value[i], value.value[j])
  \/ /\ value.type = "string"
     /\ \/ keyword = "minLength" /\ Length[value.value] < rule
        \/ keyword = "maxLength" /\ Length[value.value] > rule
        \/ keyword = "pattern" /\ value.value \notin Matching[rule]
  \/ /\ value.type \in {"integer", "number"}
     /\ \/ keyword = "minimum" /\ value.value < rule
        \/ keyword = "maximum" /\ value.value > rule

Faulty(call) == \E k \in DOMAIN call.schema : Fails(k, call.schema[k], call.value)

(* Mutant: a field the schema does not name is passed over.                *)
NamedFieldsOnly(s, key) ==
  IF "properties" \in DOMAIN s /\ key \in DOMAIN s.properties THEN s.properties[key]
  ELSE Anything

FieldSchema(s, key) ==
  IF "properties" \in DOMAIN s /\ key \in DOMAIN s.properties THEN s.properties[key]
  ELSE IF "additionalProperties" \in DOMAIN s THEN s.additionalProperties
  ELSE Anything

(* Mutant: the items of an array are not looked at.                        *)
FieldsOnly(call) ==
  IF call.value.type # "object" THEN <<>>
  ELSE [i \in DOMAIN call.value.value |->
          [value |-> call.value.value[i].value, path |-> Append(call.path, i),
           schema |-> FieldSchema(call.schema, call.value.value[i].key)]]

(* The calls _validate_object and _validate_array make.                    *)
Children(call) ==
  CASE call.value.type = "object" ->
         [i \in DOMAIN call.value.value |->
            [value |-> call.value.value[i].value, path |-> Append(call.path, i),
             schema |-> FieldSchema(call.schema, call.value.value[i].key)]]
    [] call.value.type = "array" /\ "items" \in DOMAIN call.schema ->
         [i \in DOMAIN call.value.value |->
            [value |-> call.value.value[i], path |-> Append(call.path, i),
             schema |-> call.schema.items]]
    [] OTHER -> <<>>

-----------------------------------------------------------------------------
ContractInit ==
  /\ \E i \in DOMAIN Cases : payload = Cases[i].payload /\ schema = Cases[i].schema
  /\ calls = <<[value |-> payload, schema |-> schema, path |-> <<>>]>>
  /\ verdict = "validating"
  /\ errorPath = <<>>

Validate ==
  /\ verdict = "validating" /\ calls # <<>>
  /\ ~ Faulty(Head(calls))
  /\ calls' = Children(Head(calls)) \o Tail(calls)
  /\ UNCHANGED <<payload, schema, verdict, errorPath>>

Raise ==
  /\ verdict = "validating" /\ calls # <<>>
  /\ Faulty(Head(calls))
  /\ verdict' = "invalid" /\ errorPath' = Head(calls).path
  /\ calls' = <<>>
  /\ UNCHANGED <<payload, schema>>

ReturnNone ==
  /\ verdict = "validating" /\ calls = <<>>
  /\ verdict' = "valid"
  /\ UNCHANGED <<payload, schema, calls, errorPath>>

ContractNext == Validate \/ Raise \/ ReturnNone
=============================================================================
