------------------------------ MODULE JsonValue ------------------------------
(***************************************************************************)
(* JSON values as Python holds them: a type and a value.  An object is the *)
(* sequence of its [key, value] pairs, in the order of the file; a number  *)
(* is a float with an integral value.  A "tuple" is what a TaskSpec keeps  *)
(* of a list, and equals no JSON value.                                    *)
(***************************************************************************)
EXTENDS SequencesExt

JsonType == {"object", "array", "string", "integer", "number", "boolean", "null"}
Null == [type |-> "null", value |-> ""]

Keys(object) == {object.value[i].key : i \in DOMAIN object.value}
Get(object, key) ==
  (CHOOSE pair \in ToSet(object.value) : pair.key = key).value

(* Python compares booleans as the numbers 0 and 1, and integers with      *)
(* floats by their value.                                                  *)
Numeric == {"integer", "number", "boolean"}
AsNumber(v) == IF v.type = "boolean" THEN (IF v.value THEN 1 ELSE 0) ELSE v.value

PyEqual(v, w) ==
  IF v.type \in Numeric THEN w.type \in Numeric /\ AsNumber(v) = AsNumber(w)
  ELSE v.type = w.type /\ v.value = w.value

(* isinstance(v, int)                                                      *)
IsInt(v) == v.type \in {"integer", "boolean"}
=============================================================================
