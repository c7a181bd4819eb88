-------------------------- MODULE ContractReference --------------------------
(***************************************************************************)
(* What the supported keywords of JSON Schema mean, without an order of    *)
(* evaluation: the faults of a value, as the list of their paths.          *)
(***************************************************************************)
EXTENDS Admission

Asks(s, keyword) == keyword \in DOMAIN s

Satisfies(value, s) ==
  /\ Asks(s, "type") =>
       \/ value.type \in ToSet(s.type)
       \/ value.type = "integer" /\ "number" \in ToSet(s.type)
  /\ Asks(s, "enum") =>
       \E i \in DOMAIN s.enum : value.type = s.enum[i].type /\ value.value = s.enum[i].value
  /\ value.type = "object" /\ Asks(s, "required") =>
       \A i \in DOMAIN s.required : s.required[i] \in Keys(value)
  /\ value.type = "array" =>
       /\ Asks(s, "minItems") => s.minItems <= Len(value.value)
       /\ Asks(s, "maxItems") => s.maxItems >= Len(value.value)
       /\ Asks(s, "uniqueItems") /\ s.uniqueItems => IsInjective(value.value)
  /\ value.type = "string" =>
       /\ Asks(s, "minLength") => s.minLength <= Length[value.value]
       /\ Asks(s, "maxLength") => s.maxLength >= Length[value.value]
       /\ Asks(s, "pattern") => value.value \in Matching[s.pattern]
  /\ value.type \in {"integer", "number"} =>
       /\ Asks(s, "minimum") => s.minimum <= value.value
       /\ Asks(s, "maximum") => s.maximum >= value.value

SchemaOf(s, key) ==
  IF Asks(s, "properties") /\ key \in DOMAIN s.properties THEN s.properties[key]
  ELSE IF Asks(s, "additionalProperties") THEN s.additionalProperties
  ELSE Anything

RECURSIVE Faults(_, _)
Faults(value, s) ==
  LET Below(i, child, t) ==
        LET found == Faults(child, t) IN [n \in DOMAIN found |-> <<i>> \o found[n]]
  IN  (IF Satisfies(value, s) THEN <<>> ELSE << <<>> >>)
      \o CASE value.type = "object" ->
                FlattenSeq([i \in DOMAIN value.value |->
                  Below(i, value.value[i].value, SchemaOf(s, value.value[i].key))])
           [] value.type = "array" /\ Asks(s, "items") ->
                FlattenSeq([i \in DOMAIN value.value |-> Below(i, value.value[i], s.items)])
           [] OTHER -> <<>>

(* validate_json_contract accepts a value if and only if no part of it, at *)
(* any depth, breaks a keyword of its schema, and what it complains about  *)
(* is the first such part in the order of the document.                    *)
ContractExact ==
  /\ verdict = "valid" => Faults(payload, schema) = <<>>
  /\ verdict = "invalid" =>
       Faults(payload, schema) # <<>> /\ errorPath = Head(Faults(payload, schema))
=============================================================================
