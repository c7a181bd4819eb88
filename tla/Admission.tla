------------------------------ MODULE Admission ------------------------------
(***************************************************************************)
(* "Task Planning -> TaskSpec v2 (validated by contracts + policy)": a     *)
(* task document is validated against a contract and then, as it is, by    *)
(* StaticPolicy.validate_task_spec.  The code that would call one after    *)
(* the other is external; both halves are the package's.                   *)
(***************************************************************************)
EXTENDS Contracts, Policy

CONSTANTS
  Policies,   \* the policies in force, as a sequence
  PathOf,     \* the raw path each string spells
  WordsOf     \* the words of each string, in lower case

VARIABLES
  policy,     \* the policy in force
  outcome     \* "none", "admitted", "refused" or "raised"

admissionVars == <<contractVars, policy, outcome>>

ASSUME AdmissionAssumption ==
  /\ \A i \in DOMAIN Policies : PolicyFile(Policies[i])
  /\ \A text \in DOMAIN Length : PathOf[text] \in RawPath /\ WordsOf[text] \in Seq(STRING)

-----------------------------------------------------------------------------
(* The contract of a TaskSpec, as the schema file has it.                  *)
Two == [type |-> "integer", value |-> 2]
Within(low, high) == [type |-> <<"integer">>, minimum |-> low, maximum |-> high]
Nonempty == [type |-> <<"string">>, minLength |-> 1]
StringList == [type |-> <<"array">>, items |-> [type |-> <<"string">>]]
StringList1 == [type |-> <<"array">>, minItems |-> 1, items |-> [type |-> <<"string">>]]

TaskFields ==
  [task_spec_version |-> [type |-> <<"integer">>, enum |-> <<Two>>],
   task_id |-> Nonempty, task_type |-> Nonempty,
   base_commit |-> [type |-> <<"string">>, pattern |-> "^[0-9a-f]{40}$"],
   read_paths |-> StringList1, write_paths |-> StringList1,
   immutable_read_paths |-> StringList, forbidden_paths |-> StringList,
   allowed_commands |-> StringList, forbidden_commands |-> StringList,
   required_tests |-> StringList, expected_outputs |-> StringList,
   evidence_requirements |-> StringList,
   max_execution_minutes |-> Within(1, 480), max_agent_turns |-> Within(1, 500),
   max_rework_cycles |-> Within(0, 10),
   execution_mode |->
     [type |-> <<"string">>, enum |-> <<[type |-> "string", value |-> "sequential"]>>]]

TaskContract ==
  [type |-> <<"object">>,
   required |-> <<"task_spec_version", "task_id", "task_type", "base_commit",
                  "read_paths", "write_paths">>,
   additionalProperties |-> Nothing,
   properties |-> TaskFields]

-----------------------------------------------------------------------------
Field(key, default) == IF key \in Keys(payload) THEN Get(payload, key) ELSE default

EmptyArray == [type |-> "array", value |-> <<>>]
ScopeFields == {"read_paths", "write_paths", "immutable_read_paths", "forbidden_paths"}
Scope(key) ==
  LET list == Field(key, EmptyArray)
  IN  IF list.type # "array" THEN <<>>
      ELSE [i \in DOMAIN list.value |-> PathOf[list.value[i].value]]

Text(key) == LET field == Get(payload, key) IN field.value

(* What build_task_spec finds wrong with the document beside its scopes.   *)
FlawsOf ==
  {flaw \in Flaw :
     CASE flaw = "version" -> ~ PyEqual(Field("task_spec_version", EmptyArray), Two)
       [] flaw = "legacy" -> "allowed_paths" \in Keys(payload)
       [] flaw = "not_array" ->
            \E key \in ScopeFields : key \notin Keys(payload) \/ Get(payload, key).type # "array"
       [] flaw = "identity" ->
            \/ Length[Text("task_id")] = 0 \/ Length[Text("task_type")] = 0
            \/ Length[Text("base_commit")] # 40}

TaskOf ==
  [flaws |-> FlawsOf, read |-> Scope("read_paths"), write |-> Scope("write_paths"),
   immutable |-> Scope("immutable_read_paths"), forbidden |-> Scope("forbidden_paths")]

(* The fields of the built TaskSpec, the attributes a policy can ask       *)
(* about.  A tuple equals nothing a policy names, whatever it holds, so    *)
(* its items are left out; methods and the content hash are not modelled.  *)
Attributes ==
  LET integer(n) == [type |-> "integer", value |-> n]
      tuple == [type |-> "tuple", value |-> <<>>]
  IN  [task_id |-> Get(payload, "task_id"), task_type |-> Get(payload, "task_type"),
       base_commit |-> Get(payload, "base_commit"),
       read_paths |-> tuple, write_paths |-> tuple,
       immutable_read_paths |-> tuple, forbidden_paths |-> tuple,
       allowed_commands |-> tuple, forbidden_commands |-> tuple,
       required_tests |-> tuple, expected_outputs |-> tuple, evidence_requirements |-> tuple,
       max_execution_minutes |-> Field("max_execution_minutes", integer(30)),
       max_agent_turns |-> Field("max_agent_turns", integer(50)),
       max_rework_cycles |-> Field("max_rework_cycles", integer(3)),
       execution_mode |-> Field("execution_mode", [type |-> "string", value |-> "sequential"])]

(* A document that keeps to the contract has only strings in its lists.    *)
Terms ==
  [commands |-> {WordsOf[item.value] : item \in ToSet(Field("allowed_commands", EmptyArray).value)},
   wordless |-> FALSE, attributes |-> Attributes]

AdmissionInit ==
  /\ ContractInit
  /\ \E i \in DOMAIN Policies : policy = Policies[i]
  /\ outcome = "none"

ValidateContract == ContractNext /\ UNCHANGED <<policy, outcome>>

(* validate_task_spec on a dictionary: what does not build is a violation, *)
(* and one that keeps to the contract builds or has a flaw.                *)
ValidateTaskSpec ==
  /\ verdict = "valid" /\ schema = TaskContract /\ outcome = "none"
  /\ outcome' = IF ~ CanBuild(TaskOf) THEN "refused"
                 ELSE IF PolicyRaises(policy, ScopesOf(TaskOf), Terms) THEN "raised"
                 ELSE IF PolicyViolations(policy, ScopesOf(TaskOf), Terms) # {} THEN "refused"
                 ELSE "admitted"
  /\ UNCHANGED <<contractVars, policy>>

AdmissionNext == ValidateContract \/ ValidateTaskSpec

AdmissionSpec == AdmissionInit /\ [][AdmissionNext]_admissionVars

-----------------------------------------------------------------------------
(* The two halves close each other's gap: the policy passes over an        *)
(* attribute that is no integer, which the contract refuses, and the       *)
(* contract does not see the default of an absent one, which the policy    *)
(* does.  What is admitted is bounded by both.                             *)
AdmittedWithinBounds ==
  outcome = "admitted" =>
    \A key \in {"max_execution_minutes", "max_agent_turns", "max_rework_cycles"} :
      /\ Attributes[key].type = "integer"
      /\ TaskFields[key].minimum <= Attributes[key].value
      /\ Attributes[key].value <= TaskFields[key].maximum
      /\ key \in DOMAIN policy.limits => Attributes[key].value <= AsNumber(policy.limits[key])

(* What a document that keeps to the contract can still lack, beside       *)
(* usable scopes, is one of two things: a scope list that the contract     *)
(* calls optional, or a commit of another length than 40, since the "$" of *)
(* its pattern also matches before a final newline.                        *)
ContractGap ==
  verdict = "valid" /\ schema = TaskContract =>
    FlawsOf =
      (IF ScopeFields \subseteq Keys(payload) THEN {} ELSE {"not_array"})
      \cup (IF Length[Text("base_commit")] = 40 THEN {} ELSE {"identity"})
=============================================================================
