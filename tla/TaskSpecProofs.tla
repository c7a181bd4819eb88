--------------------------- MODULE TaskSpecProofs ---------------------------
(***************************************************************************)
(* A TaskSpec from its document to its last access decision.  For every    *)
(* set of names, tasks and requested paths: the decisions of a built       *)
(* TaskSpec respect its four categories.  For every document and schema:   *)
(* the walk of _validate ends with the right verdict, at the first fault.  *)
(* For every document and policy: what both halves let pass is bounded,    *)
(* and grants nothing that is protected.                                   *)
(***************************************************************************)
EXTENDS AccessControl, Admission, ScopesProofs

(* What validation leaves behind in a built spec, and where a decision     *)
(* comes from.  TypeOK alone says nothing of how the categories relate.    *)
Validated == phase = "built" => /\ SubsetOfRead(spec)
                                /\ ImmutableDisjoint(spec)
                                /\ ForbiddenDisjoint(spec)

Answered == decision # NoDecision =>
  decision.reason = validate_path_access(spec, decision.path, decision.action)

IInv == TypeOK /\ Validated /\ Answered

(* A scope list normalizes to paths.                                       *)
LEMMA NormalizedListType ==
  ASSUME NEW list \in Seq(RawPath)
  PROVE  NormalizedList(list) \in SUBSET Path
<1>1. \A i \in 1..Len(list) : list[i] \in RawPath
  OBVIOUS
<1> QED
  BY <1>1, NormalizeType DEF NormalizedList

(* What build_task_spec makes of a task is a spec.                         *)
LEMMA BuildType ==
  ASSUME NEW t \in TaskType
  PROVE  build_task_spec(t) \in SpecType
BY NormalizedListType DEF TaskType, build_task_spec, ScopesOf, SpecType

(* Whatever access is asked for, the answer is one of the six reasons.     *)
LEMMA ReasonType ==
  ASSUME NEW s, NEW p, NEW a
  PROVE  validate_path_access(s, p, a) \in Reason
BY DEF validate_path_access, Reason

-----------------------------------------------------------------------------
(* Nothing is built and nothing was asked.                                 *)
LEMMA InitIInv == Init => IInv
BY DEF Init, IInv, TypeOK, Validated, Answered

(* Building succeeds only for scopes that pass the three disjointness      *)
(* checks, and there is no decision yet.                                   *)
LEMMA BuildIInv == IInv /\ Build => IInv'
<1> SUFFICES ASSUME IInv, Build
             PROVE  IInv'
  OBVIOUS
<1>1. build_task_spec(task) \in SpecType
  BY BuildType, InputAssumption DEF IInv, TypeOK
<1>2. decision = NoDecision
  BY DEF IInv, TypeOK, Build
<1>3. TypeOK'
  BY <1>1, <1>2 DEF IInv, TypeOK, Build
<1>4. Validated'
  BY DEF Build, CanBuild, validate_task_spec_structure, build_task_spec, Validated
<1>5. Answered'
  BY <1>2 DEF Build, Answered
<1> QED
  BY <1>3, <1>4, <1>5 DEF IInv

(* A task that is rejected leaves no spec behind.                          *)
LEMMA RejectIInv == IInv /\ Reject => IInv'
<1> SUFFICES ASSUME IInv, Reject
             PROVE  IInv'
  OBVIOUS
<1>1. TypeOK'
  BY DEF IInv, TypeOK, Reject
<1>2. Validated' /\ Answered'
  BY DEF IInv, TypeOK, Reject, Validated, Answered
<1> QED
  BY <1>1, <1>2 DEF IInv

(* A request is answered by validate_path_access, about a normalized path, *)
(* and changes no spec.                                                    *)
LEMMA CheckAccessIInv ==
  ASSUME NEW raw \in Requests, NEW action \in Action,
         IInv, CheckAccess(raw, action)
  PROVE  IInv'
<1>1. IsRepoPath(raw) => normalize_repo_path(raw) \in Path
  BY NormalizeType, InputAssumption
<1>2. validate_path_access(spec, normalize_repo_path(raw), action) \in Reason
  BY ReasonType
<1>3. TypeOK'
  BY <1>1, <1>2 DEF IInv, TypeOK, CheckAccess
<1>4. Validated'
  BY DEF IInv, Validated, CheckAccess
<1>5. Answered'
  BY DEF Answered, CheckAccess
<1> QED
  BY <1>3, <1>4, <1>5 DEF IInv

(* The invariant is inductive: validation establishes it, and nothing      *)
(* changes a frozen spec.                                                  *)
THEOREM Inductive == Spec => []IInv
<1>1. IInv /\ [Next]_vars => IInv'
  <2>1. ASSUME IInv, UNCHANGED vars
        PROVE  IInv'
    BY <2>1 DEF IInv, TypeOK, Validated, Answered, vars
  <2> QED
    BY <2>1, BuildIInv, RejectIInv, CheckAccessIInv DEF Next
<1> QED
  BY <1>1, InitIInv, PTL DEF Spec

(* Type correctness: in particular a built spec holds normalized paths     *)
(* only, whatever raw spellings were submitted to build_task_spec.         *)
THEOREM TypeCorrect == Spec => []TypeOK
<1>1. IInv => TypeOK
  BY DEF IInv
<1> QED
  BY <1>1, Inductive, PTL

-----------------------------------------------------------------------------
(* A scope disjoint from a scope that contains p does not overlap p.       *)
LEMMA OverlapLifts ==
  ASSUME NEW s \in Path, NEW w \in Path, NEW p \in Path,
         scope_contains(w, p), scopes_overlap(s, p)
  PROVE  scopes_overlap(s, w)
<1>1. CASE scope_contains(s, p)
  BY <1>1, CommonPathOverlap
<1>2. CASE scope_contains(p, s)
  BY <1>2, ContainsTransitive DEF scopes_overlap
<1> QED
  BY <1>1, <1>2 DEF scopes_overlap

(* What the invariant says once a decision exists.                         *)
LEMMA GrantFacts ==
  ASSUME IInv, decision # NoDecision
  PROVE  /\ spec \in SpecType /\ decision.path \in Path
         /\ SubsetOfRead(spec) /\ ImmutableDisjoint(spec) /\ ForbiddenDisjoint(spec)
         /\ decision.reason = validate_path_access(spec, decision.path, decision.action)
BY DEF IInv, TypeOK, Validated, Answered

(* What the checks of build_task_spec and the prefix checks of             *)
(* validate_path_access give together, for any spec and path.              *)
LEMMA GrantIsClear ==
  ASSUME NEW s \in SpecType, SubsetOfRead(s), ImmutableDisjoint(s), ForbiddenDisjoint(s),
         NEW p \in Path, NEW a, validate_path_access(s, p, a) = "ok"
  PROVE  /\ a \in WriteAction =>
              /\ \A t \in s.immutable_read_paths \cup s.forbidden_paths : ~ scopes_overlap(t, p)
              /\ \A r \in ReadAction : validate_path_access(s, p, r) = "ok"
         /\ a \in ReadAction => \A t \in s.forbidden_paths : ~ scopes_overlap(t, p)
<1>1. ASSUME a \in WriteAction, NEW t \in s.immutable_read_paths \cup s.forbidden_paths
      PROVE  ~ scopes_overlap(t, p)
  <2>1. PICK w \in s.write_paths : scope_contains(w, p)
    BY <1>1 DEF validate_path_access, ReadAction, WriteAction, path_matches_any
  <2>2. ~ scopes_overlap(t, w)
    BY <1>1 DEF ImmutableDisjoint, ForbiddenDisjoint
  <2> QED
    BY <1>1, <2>1, <2>2, OverlapLifts DEF SpecType
<1>2. ASSUME a \in WriteAction, NEW r \in ReadAction
      PROVE  validate_path_access(s, p, r) = "ok"
  <2>1. PICK w \in s.write_paths : scope_contains(w, p)
    BY <1>2 DEF validate_path_access, ReadAction, WriteAction, path_matches_any
  <2>2. PICK t \in s.read_paths : scope_contains(t, w)
    BY <2>1 DEF SubsetOfRead, path_matches_any
  <2>3. scope_contains(t, p)
    BY <2>1, <2>2, ContainsTransitive DEF SpecType
  <2>4. ~ path_matches_any(p, s.forbidden_paths)
    BY DEF validate_path_access
  <2> QED
    BY <2>3, <2>4 DEF validate_path_access, path_matches_any
<1>3. ASSUME a \in ReadAction, NEW t \in s.forbidden_paths
      PROVE  ~ scopes_overlap(t, p)
  <2>1. PICK r \in s.read_paths : scope_contains(r, p)
    BY <1>3 DEF validate_path_access, path_matches_any
  <2>2. ~ scopes_overlap(t, r)
    BY DEF ForbiddenDisjoint
  <2> QED
    BY <1>3, <2>1, <2>2, OverlapLifts DEF SpecType
<1> QED
  BY <1>1, <1>2, <1>3

(* GrantsAvoidProtected for every task and request.                        *)
THEOREM GrantsAreClear == Spec => []GrantsAvoidProtected
<1>1. IInv => GrantsAvoidProtected
  BY GrantFacts, GrantIsClear DEF GrantsAvoidProtected, Granted
<1> QED
  BY <1>1, Inductive, PTL

(* WriteImpliesRead for every task and request: write_paths is covered by  *)
(* read_paths, and containment is transitive.                              *)
THEOREM WritableIsReadable == Spec => []WriteImpliesRead
<1>1. IInv => WriteImpliesRead
  BY GrantFacts, GrantIsClear DEF WriteImpliesRead, Granted
<1> QED
  BY <1>1, Inductive, PTL

(* The rules are written down three times: is_path_readable and            *)
(* is_path_writable agree with validate_path_access on every action.       *)
THEOREM PredicatesAgree ==
  ASSUME NEW s, NEW p
  PROVE  /\ \A a \in ReadAction : is_path_readable(s, p) <=> validate_path_access(s, p, a) = "ok"
         /\ \A a \in WriteAction : is_path_writable(s, p) <=> validate_path_access(s, p, a) = "ok"
BY DEF is_path_readable, is_path_writable, validate_path_access, ReadAction, WriteAction

(* CategoriesExclusive for every spec: scopes that match one path overlap, *)
(* and validation rejects overlapping scopes of two categories.            *)
THEOREM CategoriesAreExclusive == Spec => []CategoriesExclusive
<1>1. IInv => CategoriesExclusive
  <2> SUFFICES ASSUME IInv, decision # NoDecision
               PROVE  CategoriesExclusive
    BY DEF CategoriesExclusive
  <2> DEFINE p == decision.path
  <2>1. ASSUME decision.reason = "in forbidden_paths"
        PROVE  ~ path_matches_any(p, spec.read_paths \cup spec.write_paths)
    <3>1. PICK f \in spec.forbidden_paths : scope_contains(f, p)
      BY <2>1, GrantFacts DEF validate_path_access, path_matches_any
    <3>2. \A s \in spec.read_paths \cup spec.write_paths : ~ scope_contains(s, p)
      BY <3>1, GrantFacts, CommonPathOverlap DEF ForbiddenDisjoint, SpecType
    <3> QED
      BY <3>2 DEF path_matches_any
  <2>2. ASSUME decision.reason = "in immutable_read_paths"
        PROVE  ~ path_matches_any(p, spec.write_paths)
    <3>1. PICK i \in spec.immutable_read_paths : scope_contains(i, p)
      BY <2>2, GrantFacts DEF validate_path_access, path_matches_any
    <3>2. \A w \in spec.write_paths : ~ scope_contains(w, p)
      BY <3>1, GrantFacts, CommonPathOverlap DEF ImmutableDisjoint, SpecType
    <3> QED
      BY <3>2 DEF path_matches_any
  <2> QED
    BY <2>1, <2>2 DEF CategoriesExclusive
<1> QED
  BY <1>1, Inductive, PTL

-----------------------------------------------------------------------------
(* The recursion of _validate. A call of it has a value, a schema and the  *)
(* path to the value; the root is the call for the whole document.         *)
Call == [value : Values, schema : Schemas, path : Seq(Nat)]

Root == [value |-> payload, schema |-> schema, path |-> <<>>]

(* The calls a contract check is about are the root and, with a call, the  *)
(* calls for its fields and items: the least such set. It is defined       *)
(* without recursion, so that the provers can reason about it.             *)
Closed(S) == \A call \in S : ToSet(Children(call)) \subseteq S

Parts(root) ==
  {part \in Call : \A S \in SUBSET Call : root \in S /\ Closed(S) => part \in S}

(* The part at path p holds the part at q, or is that part.                *)
Holds(p, q) == Len(p) <= Len(q) /\ \A i \in 1..Len(p) : p[i] = q[i]

(* The part at p comes before the one at q in the document, and does not   *)
(* hold it.                                                                *)
Before(p, q) ==
  \E i \in 1..Len(p) : i <= Len(q) /\ p[i] < q[i] /\ \A j \in 1..(i-1) : p[j] = q[j]

(* There is a fault at this path, and no other fault is outside of it and  *)
(* earlier.                                                                *)
FirstFault(path) ==
  /\ \E part \in Parts(Root) : Faulty(part) /\ part.path = path
  /\ \A part \in Parts(Root) : Faulty(part) => Holds(path, part.path) \/ Before(path, part.path)

(* What validate_json_contract answers: it returns if and only if no part  *)
(* of the document, at any depth, is faulty, and otherwise raises for the  *)
(* first one that is.                                                      *)
WalkDecides ==
  /\ verdict = "valid" => \A part \in Parts(Root) : ~ Faulty(part)
  /\ verdict = "invalid" => FirstFault(errorPath)

(* The walk stays among the values and the schemas there are.              *)
WalkTypeOK ==
  /\ payload \in Values /\ schema \in Schemas
  /\ calls \in Seq(Call)
  /\ verdict \in {"validating", "valid", "invalid"}
  /\ errorPath \in Seq(Nat)

(* The calls to come are parts of the document, in its order.              *)
CallsAreParts == \A i \in 1..Len(calls) : calls[i] \in Parts(Root)

CallsInOrder ==
  \A i, j \in 1..Len(calls) : i < j => Before(calls[i].path, calls[j].path)

(* S is a set of parts that have been looked at: none was faulty, the      *)
(* fields and items of each are in S or to come, and so is the document    *)
(* itself.                                                                 *)
Passed(S) ==
  /\ \A part \in S : ~ Faulty(part)
  /\ Root \in S \cup ToSet(calls)
  /\ \A part \in S : ToSet(Children(part)) \subseteq S \cup ToSet(calls)

(* Until a fault is found, what is not to come has been looked at.         *)
PassedOrToCome == verdict # "invalid" => \E S \in SUBSET Call : Passed(S)

(* The inductive invariant of the walk.                                    *)
WalkIInv ==
  /\ WalkTypeOK /\ CallsAreParts /\ CallsInOrder /\ PassedOrToCome
  /\ verdict = "valid" => calls = <<>>
  /\ verdict = "invalid" => calls = <<>> /\ FirstFault(errorPath)

-----------------------------------------------------------------------------
(* The call for the document is a call.                                    *)
LEMMA RootType ==
  ASSUME payload \in Values, schema \in Schemas
  PROVE  Root \in Call
BY DEF Root, Call

(* Whatever a field is called, it has a schema.                            *)
LEMMA FieldSchemaType ==
  ASSUME NEW s \in Schemas, NEW key
  PROVE  FieldSchema(s, key) \in Schemas
<1>1. IsSchema(s) /\ Anything \in Schemas
  BY ContractAssumption
<1> QED
  BY <1>1 DEF IsSchema, FieldSchema

(* The fields of an object are keys with values.                           *)
LEMMA FieldsOfPairs ==
  ASSUME NEW K, NEW V, NEW pairs \in Seq([key : K, value : V]), NEW i \in 1..Len(pairs)
  PROVE  pairs[i].key \in K /\ pairs[i].value \in V
<1> DEFINE Record == [key : K, value : V]
<1>1. pairs \in Seq(Record)
  OBVIOUS
<1> HIDE DEF Record
<1>2. pairs[i] \in Record
  BY <1>1
<1> QED
  BY <1>2 DEF Record

(* What a call is made of.                                                 *)
LEMMA CallFields ==
  ASSUME NEW call \in Call
  PROVE  call.value \in Values /\ call.schema \in Schemas /\ call.path \in Seq(Nat)
BY DEF Call

(* The elements of a sequence.                                             *)
LEMMA ElementOf ==
  ASSUME NEW S, NEW s \in Seq(S)
  PROVE  /\ Len(s) \in Nat /\ DOMAIN s = 1..Len(s)
         /\ ToSet(s) = {s[i] : i \in 1..Len(s)}
         /\ \A i \in 1..Len(s) : s[i] \in S /\ s[i] \in ToSet(s)
BY DEF ToSet

(* The calls for the fields and items are calls, and their paths number    *)
(* them.                                                                   *)
LEMMA ChildrenType ==
  ASSUME NEW call \in Call
  PROVE  /\ Children(call) \in Seq(Call)
         /\ \A i \in 1..Len(Children(call)) : Children(call)[i].path = Append(call.path, i)
<1>1. call.value \in Values /\ call.schema \in Schemas /\ call.path \in Seq(Nat)
  BY DEF Call
<1>2. IsValue(call.value) /\ IsSchema(call.schema)
  BY <1>1, ContractAssumption
<1>3. \A i \in Nat : Append(call.path, i) \in Seq(Nat)
  BY <1>1
<1>4. CASE call.value.type = "object"
  <2> DEFINE pairs == call.value.value
  <2>1. pairs \in Seq([key : STRING, value : Values])
    BY <1>2, <1>4 DEF IsValue
  <2> HIDE DEF pairs
  <2> DEFINE child(i) == [value |-> pairs[i].value, path |-> Append(call.path, i),
                          schema |-> FieldSchema(call.schema, pairs[i].key)]
  <2>2. Len(pairs) \in Nat /\ DOMAIN pairs = 1..Len(pairs)
    BY <2>1
  <2>3. ASSUME NEW i \in 1..Len(pairs) PROVE child(i) \in Call
    <3>1. pairs[i].value \in Values
      BY <2>1, FieldsOfPairs
    <3> QED
      BY <3>1, <1>1, <1>3, <2>2, FieldSchemaType DEF Call
  <2>4. Children(call) = [i \in DOMAIN pairs |-> child(i)]
    BY <1>4 DEF Children, pairs
  <2>5. \A i \in 1..Len(pairs) : child(i).path = Append(call.path, i)
    OBVIOUS
  <2> HIDE DEF child
  <2> QED
    BY <2>2, <2>3, <2>4, <2>5
<1>5. CASE call.value.type = "array" /\ "items" \in DOMAIN call.schema
  <2> DEFINE items == call.value.value
  <2>1. items \in Seq(Values)
    BY <1>2, <1>5 DEF IsValue
  <2> HIDE DEF items
  <2> DEFINE child(i) == [value |-> items[i], path |-> Append(call.path, i),
                          schema |-> call.schema.items]
  <2>2. Len(items) \in Nat /\ DOMAIN items = 1..Len(items)
    BY <2>1
  <2>3. ASSUME NEW i \in 1..Len(items) PROVE child(i) \in Call
    <3>1. items[i] \in Values
      BY <2>1
    <3>2. call.schema.items \in Schemas
      BY <1>2, <1>5 DEF IsSchema
    <3> QED
      BY <3>1, <3>2, <1>3, <2>2 DEF Call
  <2>4. Children(call) = [i \in DOMAIN items |-> child(i)]
    BY <1>5 DEF Children, items
  <2>5. \A i \in 1..Len(items) : child(i).path = Append(call.path, i)
    OBVIOUS
  <2> HIDE DEF child
  <2> QED
    BY <2>2, <2>3, <2>4, <2>5
<1>6. CASE /\ call.value.type # "object"
           /\ ~ (call.value.type = "array" /\ "items" \in DOMAIN call.schema)
  <2>1. Children(call) = <<>>
    BY <1>6 DEF Children
  <2> QED
    BY <2>1
<1> QED
  BY <1>4, <1>5, <1>6

(* A call is a part of itself, and the parts are closed under Children.    *)
LEMMA PartsClosed ==
  ASSUME NEW root \in Call
  PROVE  root \in Parts(root) /\ Closed(Parts(root))
<1>1. root \in Parts(root)
  BY DEF Parts
<1>2. ASSUME NEW part \in Parts(root), NEW child \in ToSet(Children(part))
      PROVE  child \in Parts(root)
  <2>1. child \in Call
    BY <1>2, ChildrenType DEF Parts, ToSet
  <2>2. ASSUME NEW S \in SUBSET Call, root \in S, Closed(S)
        PROVE  child \in S
    BY <1>2, <2>2 DEF Parts, Closed
  <2> QED
    BY <2>1, <2>2 DEF Parts
<1> QED
  BY <1>1, <1>2 DEF Closed

(* What holds of a call and of the children of whatever it holds of, holds *)
(* of every part.                                                          *)
LEMMA PartsLeast ==
  ASSUME NEW root \in Call, NEW S \in SUBSET Call, root \in S, Closed(S)
  PROVE  Parts(root) \subseteq S
BY DEF Parts

-----------------------------------------------------------------------------
(* Whatever holds a part holds its fields and items.                       *)
LEMMA HoldsAppend ==
  ASSUME NEW p \in Seq(Nat), NEW q \in Seq(Nat), NEW i \in Nat, Holds(p, q)
  PROVE  Holds(p, Append(q, i))
BY DEF Holds

(* Parts of an earlier part are earlier, and so is a part before parts of  *)
(* a later one.                                                            *)
LEMMA BeforeExtends ==
  ASSUME NEW p \in Seq(Nat), NEW q \in Seq(Nat), NEW r \in Seq(Nat)
  PROVE  /\ Before(p, q) /\ Holds(q, r) => Before(p, r)
         /\ Before(p, q) /\ Holds(p, r) => Before(r, q)
<1>1. Len(p) \in Nat /\ Len(q) \in Nat /\ Len(r) \in Nat
  OBVIOUS
<1>2. ASSUME NEW i \in 1..Len(p), i <= Len(q), p[i] < q[i], \A j \in 1..(i-1) : p[j] = q[j],
             Holds(q, r)
      PROVE  Before(p, r)
  <2>1. i <= Len(r) /\ r[i] = q[i] /\ \A j \in 1..(i-1) : r[j] = q[j]
    BY <1>1, <1>2 DEF Holds
  <2> QED
    BY <1>2, <2>1 DEF Before
<1>3. ASSUME NEW i \in 1..Len(p), i <= Len(q), p[i] < q[i], \A j \in 1..(i-1) : p[j] = q[j],
             Holds(p, r)
      PROVE  Before(r, q)
  <2>1. i \in 1..Len(r) /\ r[i] = p[i] /\ \A j \in 1..(i-1) : r[j] = p[j]
    BY <1>1, <1>3 DEF Holds
  <2> QED
    BY <1>3, <2>1 DEF Before
<1> QED
  BY <1>2, <1>3 DEF Before

(* The fields of an object and the items of an array are in order.         *)
LEMMA SiblingsInOrder ==
  ASSUME NEW p \in Seq(Nat), NEW i \in Nat, NEW j \in Nat, i < j
  PROVE  Before(Append(p, i), Append(p, j)) /\ Holds(p, Append(p, i))
<1>1. Len(p) + 1 \in 1..Len(Append(p, i)) /\ Len(p) + 1 <= Len(Append(p, j))
  OBVIOUS
<1>2. Append(p, i)[Len(p) + 1] < Append(p, j)[Len(p) + 1]
  OBVIOUS
<1>3. \A k \in 1..Len(p) : Append(p, i)[k] = Append(p, j)[k]
  OBVIOUS
<1>4. Before(Append(p, i), Append(p, j))
  BY <1>1, <1>2, <1>3 DEF Before
<1>5. Holds(p, Append(p, i))
  BY DEF Holds
<1> QED
  BY <1>4, <1>5

-----------------------------------------------------------------------------
(* At first the call for the document is the only one to come.             *)
LEMMA InitWalk == ContractInit => WalkIInv
<1> SUFFICES ASSUME ContractInit
             PROVE  WalkIInv
  OBVIOUS
<1>1. payload \in Values /\ schema \in Schemas
  BY ContractAssumption DEF ContractInit
<1>2. calls = <<Root>> /\ Root \in Call
  BY <1>1, RootType DEF ContractInit, Root
<1>3. WalkTypeOK
  BY <1>1, <1>2 DEF WalkTypeOK, ContractInit
<1>4. CallsAreParts /\ CallsInOrder
  BY <1>2, PartsClosed DEF CallsAreParts, CallsInOrder
<1>5. PassedOrToCome
  <2>1. Passed({})
    BY <1>2 DEF Passed, ToSet
  <2> QED
    BY <2>1 DEF PassedOrToCome
<1> QED
  BY <1>3, <1>4, <1>5 DEF WalkIInv, ContractInit

(* The calls after one step: the children of the first, then the rest.     *)
LEMMA NextCalls ==
  ASSUME NEW s \in Seq(Call), s # <<>>
  PROVE  LET children == Children(Head(s))
             next == children \o Tail(s)
         IN  /\ Head(s) \in Call /\ Head(s) = s[1]
             /\ children \in Seq(Call) /\ Tail(s) \in Seq(Call)
             /\ next \in Seq(Call)
             /\ Len(next) = Len(children) + Len(s) - 1
             /\ \A i \in 1..Len(children) :
                  next[i] = children[i] /\ children[i].path = Append(Head(s).path, i)
             /\ \A i \in (Len(children)+1)..Len(next) :
                  next[i] = s[i - Len(children) + 1] /\ i - Len(children) + 1 \in 2..Len(s)
             /\ \A i \in 2..Len(s) :
                  i + Len(children) - 1 \in 1..Len(next) /\ next[i + Len(children) - 1] = s[i]
<1> DEFINE children == Children(Head(s))
           next == children \o Tail(s)
<1>1. Head(s) \in Call /\ Head(s) = s[1] /\ Tail(s) \in Seq(Call) /\ Len(s) \in Nat \ {0}
      /\ Len(Tail(s)) = Len(s) - 1
  OBVIOUS
<1>2. /\ children \in Seq(Call)
      /\ \A i \in 1..Len(children) : children[i].path = Append(Head(s).path, i)
  BY <1>1, ChildrenType
<1> HIDE DEF children
<1>3. next \in Seq(Call) /\ Len(next) = Len(children) + Len(s) - 1 /\ Len(children) \in Nat
  BY <1>1, <1>2
<1>4. \A i \in 1..Len(children) : next[i] = children[i]
  BY <1>1, <1>2
<1>5. \A i \in (Len(children)+1)..Len(next) :
        next[i] = s[i - Len(children) + 1] /\ i - Len(children) + 1 \in 2..Len(s)
  BY <1>1, <1>2, <1>3
<1>6. \A i \in 2..Len(s) :
        i + Len(children) - 1 \in 1..Len(next) /\ next[i + Len(children) - 1] = s[i]
  BY <1>1, <1>2, <1>3
<1> QED
  BY <1>1, <1>2, <1>3, <1>4, <1>5, <1>6 DEF children

(* The walk goes on past a call without a fault: its fields and items come *)
(* next, before all that was to come.                                      *)
LEMMA ValidateWalk == WalkIInv /\ Validate => WalkIInv'
<1> SUFFICES ASSUME WalkIInv, Validate
             PROVE  WalkIInv'
  OBVIOUS
<1> DEFINE head == Head(calls)
           children == Children(head)
           n == Len(children)
<1>1. calls \in Seq(Call) /\ calls # <<>> /\ ~ Faulty(head) /\ calls' = children \o Tail(calls)
  BY DEF WalkIInv, WalkTypeOK, Validate
<1>2. /\ head \in Call /\ head = calls[1] /\ children \in Seq(Call)
      /\ calls' \in Seq(Call) /\ n \in Nat /\ Len(calls) \in Nat \ {0}
      /\ Len(calls') = n + Len(calls) - 1
  BY <1>1, NextCalls
<1>3. \A i \in 1..n : calls'[i] = children[i] /\ children[i].path = Append(head.path, i)
  BY <1>1, NextCalls
<1>4. \A i \in (n+1)..Len(calls') : calls'[i] = calls[i - n + 1] /\ i - n + 1 \in 2..Len(calls)
  BY <1>1, NextCalls
<1>5. \A i \in 2..Len(calls) : i + n - 1 \in 1..Len(calls') /\ calls'[i + n - 1] = calls[i]
  BY <1>1, NextCalls
<1>6. UNCHANGED <<payload, schema, verdict, errorPath>> /\ verdict = "validating"
  BY DEF Validate
<1>7. Root' = Root /\ Root \in Call
  BY <1>6, RootType DEF Root, WalkIInv, WalkTypeOK
<1> HIDE DEF head, children, n
<1>8. WalkTypeOK'
  BY <1>2, <1>6 DEF WalkIInv, WalkTypeOK
<1>9. CallsAreParts'
  <2> SUFFICES ASSUME NEW i \in 1..Len(calls')
               PROVE  calls'[i] \in Parts(Root)
    BY <1>7 DEF CallsAreParts
  <2>1. CASE i \in 1..n
    <3>1. head \in Parts(Root)
      BY <1>2 DEF WalkIInv, CallsAreParts
    <3>2. children[i] \in ToSet(children)
      BY <1>2, <2>1 DEF ToSet, n
    <3>3. ToSet(children) \subseteq Parts(Root)
      BY <3>1, <1>7, PartsClosed DEF Closed, children
    <3> QED
      BY <3>2, <3>3, <2>1, <1>3
  <2>2. CASE i \in (n+1)..Len(calls')
    <3>1. calls'[i] = calls[i - n + 1] /\ i - n + 1 \in 1..Len(calls)
      BY <1>4, <2>2
    <3> QED
      BY <3>1 DEF WalkIInv, CallsAreParts
  <2> QED
    BY <2>1, <2>2, <1>2
<1>10. CallsInOrder'
  <2> SUFFICES ASSUME NEW i \in 1..Len(calls'), NEW j \in 1..Len(calls'), i < j
               PROVE  Before(calls'[i].path, calls'[j].path)
    BY DEF CallsInOrder
  <2>1. head.path \in Seq(Nat)
    BY <1>2 DEF Call
  <2>2. CASE i \in 1..n /\ j \in 1..n
    <3>1. calls'[i].path = Append(head.path, i) /\ calls'[j].path = Append(head.path, j)
      BY <2>2, <1>3
    <3> QED
      BY <2>1, <2>2, <3>1, <1>2, SiblingsInOrder
  <2>3. CASE i \in 1..n /\ j \in (n+1)..Len(calls')
    <3>1. calls'[j] = calls[j - n + 1] /\ j - n + 1 \in 2..Len(calls)
      BY <2>3, <1>4
    <3>2. Before(head.path, calls'[j].path)
      BY <3>1, <1>2 DEF WalkIInv, CallsInOrder
    <3>3. calls'[i].path = Append(head.path, i) /\ Append(head.path, i) \in Seq(Nat)
      BY <2>1, <2>3, <1>3
    <3>4. calls'[j].path \in Seq(Nat)
      BY <2>3, <1>2, CallFields
    <3>5. Holds(head.path, Append(head.path, i))
      BY <2>1 DEF Holds
    <3> QED
      BY <2>1, <3>2, <3>3, <3>4, <3>5, BeforeExtends
  <2>4. CASE i \in (n+1)..Len(calls') /\ j \in (n+1)..Len(calls')
    <3>1. /\ calls'[i] = calls[i - n + 1] /\ i - n + 1 \in 2..Len(calls)
          /\ calls'[j] = calls[j - n + 1] /\ j - n + 1 \in 2..Len(calls)
      BY <2>4, <1>4
    <3>2. i - n + 1 < j - n + 1
      BY <1>2
    <3> QED
      BY <3>1, <3>2 DEF WalkIInv, CallsInOrder
  <2> QED
    BY <2>2, <2>3, <2>4, <1>2
<1>11. PassedOrToCome'
  <2>1. PICK S \in SUBSET Call : Passed(S)
    BY <1>6 DEF WalkIInv, PassedOrToCome
  <2> DEFINE T == S \cup {head}
  <2>2. ToSet(calls) \subseteq {head} \cup ToSet(calls')
    <3> SUFFICES ASSUME NEW i \in 1..Len(calls)
                 PROVE  calls[i] \in {head} \cup ToSet(calls')
      BY <1>1, ElementOf
    <3>1. CASE i = 1
      BY <3>1, <1>2
    <3>2. CASE i \in 2..Len(calls)
      BY <3>2, <1>2, <1>5 DEF ToSet
    <3> QED
      BY <3>1, <3>2, <1>2
  <2>3. ToSet(children) \subseteq ToSet(calls')
    <3> SUFFICES ASSUME NEW i \in 1..n
                 PROVE  children[i] \in ToSet(calls')
      BY <1>2 DEF ToSet, n
    <3>1. i \in 1..Len(calls')
      BY <1>2
    <3> QED
      BY <3>1, <1>2, <1>3 DEF ToSet
  <2>4. \A part \in T : ~ Faulty(part)
    BY <2>1, <1>1 DEF Passed
  <2>5. Root \in T \cup ToSet(calls')
    BY <2>1, <2>2 DEF Passed
  <2>6. \A part \in T : ToSet(Children(part)) \subseteq T \cup ToSet(calls')
    BY <2>1, <2>2, <2>3 DEF Passed, children
  <2>7. T \in SUBSET Call
    BY <1>2
  <2> HIDE DEF T
  <2> QED
    BY <2>4, <2>5, <2>6, <2>7, <1>7 DEF PassedOrToCome, Passed
<1> QED
  BY <1>6, <1>8, <1>9, <1>10, <1>11 DEF WalkIInv

(* Every part is passed, or held by a call that is to come.                *)
LEMMA PartsAreCovered ==
  ASSUME WalkTypeOK, NEW S \in SUBSET Call, Passed(S), NEW part \in Parts(Root)
  PROVE  part \in S \/ \E i \in 1..Len(calls) : Holds(calls[i].path, part.path)
<1> DEFINE Held == {call \in Call : \E i \in 1..Len(calls) : Holds(calls[i].path, call.path)}
<1>1. Root \in Call /\ calls \in Seq(Call)
  BY RootType DEF WalkTypeOK
<1>2. ToSet(calls) \subseteq Held
  <2> SUFFICES ASSUME NEW i \in 1..Len(calls)
               PROVE  calls[i] \in Held
    BY <1>1, ElementOf
  <2>1. calls[i] \in Call /\ calls[i].path \in Seq(Nat)
    BY <1>1, ElementOf, CallFields
  <2>2. Holds(calls[i].path, calls[i].path)
    BY <2>1 DEF Holds
  <2> QED
    BY <2>1, <2>2
<1>3. ASSUME NEW call \in Held, NEW child \in ToSet(Children(call))
      PROVE  child \in Held
  <2>1. Children(call) \in Seq(Call)
    BY ChildrenType
  <2>2. PICK k \in 1..Len(Children(call)) : child = Children(call)[k]
    BY <1>3, <2>1 DEF ToSet
  <2>3. child \in Call /\ child.path = Append(call.path, k) /\ k \in Nat
    BY <2>1, <2>2, ChildrenType
  <2>4. PICK i \in 1..Len(calls) : Holds(calls[i].path, call.path)
    OBVIOUS
  <2>5. calls[i].path \in Seq(Nat) /\ call.path \in Seq(Nat)
    BY <1>1, ElementOf, CallFields
  <2>6. Holds(calls[i].path, child.path)
    BY <2>3, <2>4, <2>5, HoldsAppend
  <2> QED
    BY <2>3, <2>6
<1> HIDE DEF Held
<1>4. Closed(S \cup Held) /\ Root \in S \cup Held
  BY <1>2, <1>3 DEF Closed, Passed
<1>5. Held \subseteq Call
  BY DEF Held
<1>6. part \in S \cup Held
  BY <1>1, <1>4, <1>5, PartsLeast
<1> QED
  BY <1>6 DEF Held

(* The walk stops at a fault. Every other fault is held by a call that is  *)
(* to come, which is this one or a later one.                              *)
LEMMA RaiseWalk == WalkIInv /\ Raise => WalkIInv'
<1> SUFFICES ASSUME WalkIInv, Raise
             PROVE  WalkIInv'
  OBVIOUS
<1> DEFINE head == Head(calls)
<1>1. /\ calls \in Seq(Call) /\ calls # <<>> /\ Faulty(head) /\ calls' = <<>>
      /\ verdict = "validating" /\ verdict' = "invalid" /\ errorPath' = head.path
      /\ UNCHANGED <<payload, schema>>
  BY DEF WalkIInv, WalkTypeOK, Raise
<1>2. head \in Call /\ head = calls[1] /\ Len(calls) \in Nat \ {0} /\ head.path \in Seq(Nat)
  BY <1>1, NextCalls, CallFields
<1>3. Root' = Root
  BY <1>1 DEF Root
<1> HIDE DEF head
<1>4. WalkTypeOK'
  BY <1>1, <1>2 DEF WalkIInv, WalkTypeOK
<1>5. CallsAreParts' /\ CallsInOrder' /\ PassedOrToCome'
  BY <1>1 DEF CallsAreParts, CallsInOrder, PassedOrToCome
<1>6. FirstFault(head.path)
  <2>1. head \in Parts(Root)
    BY <1>2 DEF WalkIInv, CallsAreParts
  <2>2. PICK S \in SUBSET Call : Passed(S)
    BY <1>1 DEF WalkIInv, PassedOrToCome
  <2>3. ASSUME NEW part \in Parts(Root), Faulty(part)
        PROVE  Holds(head.path, part.path) \/ Before(head.path, part.path)
    <3>1. part \notin S
      BY <2>2, <2>3 DEF Passed
    <3>2. PICK i \in 1..Len(calls) : Holds(calls[i].path, part.path)
      BY <2>2, <3>1, PartsAreCovered DEF WalkIInv
    <3>3. CASE i = 1
      BY <3>2, <3>3, <1>2
    <3>4. CASE i # 1
      <4>1. Before(head.path, calls[i].path)
        BY <1>2, <3>4 DEF WalkIInv, CallsInOrder
      <4>2. calls[i].path \in Seq(Nat) /\ part.path \in Seq(Nat)
        BY <1>1, ElementOf, CallFields DEF Parts
      <4> QED
        BY <3>2, <4>1, <4>2, <1>2, BeforeExtends
    <3> QED
      BY <3>3, <3>4
  <2> QED
    BY <2>1, <2>3, <1>1 DEF FirstFault
<1>7. FirstFault(errorPath)'
  BY <1>1, <1>3, <1>6 DEF FirstFault
<1> QED
  BY <1>1, <1>4, <1>5, <1>7 DEF WalkIInv

(* The walk ends with nothing to come.                                     *)
LEMMA ReturnWalk == WalkIInv /\ ReturnNone => WalkIInv'
<1> SUFFICES ASSUME WalkIInv, ReturnNone
             PROVE  WalkIInv'
  OBVIOUS
<1>1. /\ calls = <<>> /\ verdict' = "valid" /\ verdict = "validating"
      /\ UNCHANGED <<payload, schema, calls, errorPath>>
  BY DEF ReturnNone
<1>2. Root' = Root
  BY <1>1 DEF Root
<1> QED
  BY <1>1, <1>2 DEF WalkIInv, WalkTypeOK, CallsAreParts, CallsInOrder, PassedOrToCome, Passed

(* The invariant of the walk is inductive, whatever the document and the   *)
(* schema are.                                                             *)
THEOREM WalkInductive == AdmissionSpec => []WalkIInv
<1>1. AdmissionInit => WalkIInv
  BY InitWalk DEF AdmissionInit
<1>2. WalkIInv /\ [AdmissionNext]_admissionVars => WalkIInv'
  <2>1. ASSUME WalkIInv, UNCHANGED contractVars
        PROVE  WalkIInv'
    <3>1. Root' = Root
      BY <2>1 DEF Root, contractVars
    <3> QED
      BY <2>1, <3>1 DEF WalkIInv, WalkTypeOK, CallsAreParts, CallsInOrder, PassedOrToCome,
                        Passed, FirstFault, contractVars
  <2>2. CASE ContractNext
    BY <2>2, ValidateWalk, RaiseWalk, ReturnWalk DEF ContractNext
  <2> QED
    BY <2>1, <2>2 DEF AdmissionNext, ValidateContract, ValidateTaskSpec, admissionVars
<1> QED
  BY <1>1, <1>2, PTL DEF AdmissionSpec

(* WalkDecides for every document and schema.                              *)
THEOREM ContractDecided == AdmissionSpec => []WalkDecides
<1>1. WalkIInv => WalkDecides
  <2>1. ASSUME WalkIInv, verdict = "valid", NEW part \in Parts(Root)
        PROVE  ~ Faulty(part)
    <3>1. calls = <<>> /\ WalkTypeOK
      BY <2>1 DEF WalkIInv
    <3>2. PICK S \in SUBSET Call : Passed(S)
      BY <2>1 DEF WalkIInv, PassedOrToCome
    <3>3. part \in S
      BY <3>1, <3>2, PartsAreCovered
    <3> QED
      BY <3>2, <3>3 DEF Passed
  <2> QED
    BY <2>1 DEF WalkIInv, WalkDecides
<1> QED
  BY <1>1, WalkInductive, PTL

-----------------------------------------------------------------------------
(* A document that keeps to the contract of a TaskSpec.                    *)
TaskDocument == verdict = "valid" /\ schema = TaskContract

(* What an admission says of the document, its scopes and the policy.      *)
AdmissionTold ==
  /\ policy \in {Policies[i] : i \in DOMAIN Policies}
  /\ outcome = "admitted" =>
       /\ TaskDocument
       /\ CanBuild(TaskOf)
       /\ ~ PolicyRaises(policy, ScopesOf(TaskOf), Terms)
       /\ PolicyViolations(policy, ScopesOf(TaskOf), Terms) = {}

(* It goes on saying so: nothing changes the document, and the outcome is  *)
(* decided once.                                                           *)
LEMMA AdmissionToldInv == AdmissionSpec => []AdmissionTold
<1>1. AdmissionInit => AdmissionTold
  BY DEF AdmissionInit, AdmissionTold
<1>2. AdmissionTold /\ [AdmissionNext]_admissionVars => AdmissionTold'
  <2> SUFFICES ASSUME AdmissionTold, [AdmissionNext]_admissionVars
               PROVE  AdmissionTold'
    OBVIOUS
  <2>1. policy' = policy
    BY DEF AdmissionNext, ValidateContract, ValidateTaskSpec, admissionVars
  <2>2. CASE ValidateContract
    <3>1. verdict = "validating" /\ outcome' = outcome
      BY <2>2 DEF ValidateContract, ContractNext, Validate, Raise, ReturnNone
    <3>2. outcome # "admitted"
      BY <3>1 DEF AdmissionTold, TaskDocument
    <3> QED
      BY <2>1, <3>1, <3>2 DEF AdmissionTold
  <2>3. CASE UNCHANGED contractVars /\ outcome' = outcome
    <3>1. (TaskDocument <=> TaskDocument') /\ TaskOf' = TaskOf /\ Terms' = Terms
      BY <2>3 DEF TaskDocument, contractVars, TaskOf, FlawsOf, Scope, Text, Field, Terms, Attributes
    <3> QED
      BY <2>1, <2>3, <3>1 DEF AdmissionTold
  <2>4. CASE ValidateTaskSpec
    <3>1. UNCHANGED contractVars /\ TaskDocument
      BY <2>4 DEF ValidateTaskSpec, TaskDocument
    <3>2. TaskDocument' /\ TaskOf' = TaskOf /\ Terms' = Terms
      BY <3>1 DEF TaskDocument, contractVars, TaskOf, FlawsOf, Scope, Text, Field, Terms, Attributes
    <3>3. outcome' = "admitted" => /\ CanBuild(TaskOf)
                                   /\ ~ PolicyRaises(policy, ScopesOf(TaskOf), Terms)
                                   /\ PolicyViolations(policy, ScopesOf(TaskOf), Terms) = {}
      BY <2>4 DEF ValidateTaskSpec
    <3> QED
      BY <2>1, <3>2, <3>3 DEF AdmissionTold
  <2> QED
    BY <2>2, <2>3, <2>4 DEF AdmissionNext, admissionVars
<1> QED
  BY <1>1, <1>2, PTL DEF AdmissionSpec

-----------------------------------------------------------------------------
(* What the walk found of the document itself and of each of its fields.   *)
LEMMA DocumentConforms ==
  ASSUME WalkIInv, WalkDecides, TaskDocument
  PROVE  /\ payload \in Values
         /\ \A k \in DOMAIN TaskContract : ~ Fails(k, TaskContract[k], payload)
<1>1. Root \in Call /\ Root \in Parts(Root) /\ payload \in Values
  BY RootType, PartsClosed DEF WalkIInv, WalkTypeOK
<1>2. ~ Faulty(Root)
  BY <1>1 DEF WalkDecides, TaskDocument
<1>3. Root.schema = TaskContract /\ Root.value = payload
  BY DEF Root, TaskDocument
<1> QED
  BY <1>1, <1>2, <1>3 DEF Faulty

(* A document that keeps to the contract is an object with the six         *)
(* required fields.                                                        *)
LEMMA DocumentIsObject ==
  ASSUME WalkIInv, WalkDecides, TaskDocument
  PROVE  /\ payload.type = "object"
         /\ payload.value \in Seq([key : STRING, value : Values])
         /\ {"task_spec_version", "task_id", "task_type", "base_commit",
             "read_paths", "write_paths"} \subseteq Keys(payload)
<1>1. /\ "type" \in DOMAIN TaskContract /\ TaskContract["type"] = <<"object">>
      /\ "required" \in DOMAIN TaskContract
      /\ TaskContract["required"] = <<"task_spec_version", "task_id", "task_type", "base_commit",
                                      "read_paths", "write_paths">>
  BY DEF TaskContract
<1>2. MatchesType(payload, <<"object">>)
  BY <1>1, DocumentConforms DEF Fails
<1>3. payload.type = "object"
  BY <1>2 DEF MatchesType
<1>4. payload.value \in Seq([key : STRING, value : Values])
  BY <1>3, DocumentConforms, ContractAssumption DEF IsValue
<1>5. ~ Fails("required", TaskContract["required"], payload)
  BY <1>1, DocumentConforms
<1>6. ToSet(TaskContract["required"]) \subseteq Keys(payload)
  BY <1>3, <1>5 DEF Fails
<1>7. ToSet(<<"task_spec_version", "task_id", "task_type", "base_commit",
              "read_paths", "write_paths">>)
        = {"task_spec_version", "task_id", "task_type", "base_commit",
           "read_paths", "write_paths"}
  BY DEF ToSet
<1> QED
  BY <1>1, <1>3, <1>4, <1>6, <1>7

(* The call for a field is a part of the call for the document.            *)
LEMMA FieldIsPart ==
  ASSUME WalkIInv, TaskDocument, payload.type = "object", NEW key \in Keys(payload)
  PROVE  \E part \in Parts(Root) : /\ part.value = Get(payload, key)
                                  /\ part.schema = FieldSchema(TaskContract, key)
<1> DEFINE pairs == payload.value
<1>1. pairs \in Seq([key : STRING, value : Values])
  BY ContractAssumption DEF WalkIInv, WalkTypeOK, IsValue
<1>2. /\ Keys(payload) = {pairs[i].key : i \in DOMAIN pairs}
      /\ Get(payload, key) = (CHOOSE pair \in ToSet(pairs) : pair.key = key).value
  BY DEF Keys, Get
<1>3. /\ Root.value = payload /\ Root.schema = TaskContract /\ Root \in Parts(Root)
      /\ Closed(Parts(Root))
  BY RootType, PartsClosed DEF Root, TaskDocument, WalkIInv, WalkTypeOK
<1>4. Children(Root) = [j \in DOMAIN pairs |->
          [value |-> pairs[j].value, path |-> Append(Root.path, j),
           schema |-> FieldSchema(Root.schema, pairs[j].key)]]
  BY <1>3 DEF Children, pairs
<1> HIDE DEF pairs
<1>5. DOMAIN pairs = 1..Len(pairs) /\ ToSet(pairs) = {pairs[i] : i \in 1..Len(pairs)}
  BY <1>1, ElementOf
<1>6. \E pair \in ToSet(pairs) : pair.key = key
  BY <1>2, <1>5
<1>7. PICK i \in 1..Len(pairs) : pairs[i].key = key /\ Get(payload, key) = pairs[i].value
  BY <1>2, <1>5, <1>6
<1> DEFINE child == [value |-> pairs[i].value, path |-> Append(Root.path, i),
                     schema |-> FieldSchema(Root.schema, pairs[i].key)]
<1>8. child \in ToSet(Children(Root))
  BY <1>4, <1>5 DEF ToSet
<1>9. child.value = Get(payload, key) /\ child.schema = FieldSchema(TaskContract, key)
  BY <1>3, <1>7
<1> HIDE DEF child
<1> QED
  BY <1>3, <1>8, <1>9 DEF Closed

(* So a field of an accepted document keeps to the schema of its key.      *)
LEMMA FieldConforms ==
  ASSUME WalkIInv, WalkDecides, TaskDocument, NEW key \in Keys(payload)
  PROVE  LET s == FieldSchema(TaskContract, key)
         IN  /\ Get(payload, key) \in Values
             /\ \A k \in DOMAIN s : ~ Fails(k, s[k], Get(payload, key))
<1>1. PICK part \in Parts(Root) : /\ part.value = Get(payload, key)
                                  /\ part.schema = FieldSchema(TaskContract, key)
  BY DocumentIsObject, FieldIsPart
<1>2. ~ Faulty(part)
  BY DEF WalkDecides, TaskDocument
<1>3. part.value \in Values
  BY CallFields DEF Parts
<1> QED
  BY <1>1, <1>2, <1>3 DEF Faulty

(* The schemas of the fields.                                              *)
LEMMA FieldSchemas ==
  ASSUME NEW key
  PROVE  FieldSchema(TaskContract, key) =
           IF key \in DOMAIN TaskFields THEN TaskFields[key] ELSE Nothing
BY DEF FieldSchema, TaskContract

(* The fields the later stages read, as the schema file has them.          *)
LEMMA FieldsOfContract ==
  /\ TaskFields["task_spec_version"] = [type |-> <<"integer">>, enum |-> <<Two>>]
  /\ TaskFields["task_id"] = Nonempty /\ TaskFields["task_type"] = Nonempty
  /\ TaskFields["read_paths"] = StringList1 /\ TaskFields["write_paths"] = StringList1
  /\ TaskFields["immutable_read_paths"] = StringList
  /\ TaskFields["forbidden_paths"] = StringList
  /\ TaskFields["max_execution_minutes"] = Within(1, 480)
  /\ TaskFields["max_agent_turns"] = Within(1, 500)
  /\ TaskFields["max_rework_cycles"] = Within(0, 10)
BY DEF TaskFields

(* What matches one type has it; an integer is a number too.               *)
LEMMA OneType ==
  ASSUME NEW value, NEW t, MatchesType(value, <<t>>)
  PROVE  value.type = t \/ (t = "number" /\ value.type = "integer")
BY DEF MatchesType

(* Nothing matches no type.                                                *)
LEMMA NoType ==
  ASSUME NEW value
  PROVE  ~ MatchesType(value, <<>>)
BY DEF MatchesType

(* Only the fields the contract names.                                     *)
LEMMA FieldsAreNamed ==
  ASSUME WalkIInv, WalkDecides, TaskDocument, NEW key \in Keys(payload)
  PROVE  key \in DOMAIN TaskFields
<1> SUFFICES ASSUME key \notin DOMAIN TaskFields
             PROVE  FALSE
  OBVIOUS
<1>1. /\ FieldSchema(TaskContract, key) = Nothing
      /\ "type" \in DOMAIN Nothing /\ Nothing["type"] = <<>>
  BY FieldSchemas DEF Nothing
<1>2. ~ Fails("type", <<>>, Get(payload, key))
  BY <1>1, FieldConforms
<1> QED
  BY <1>2, NoType DEF Fails

(* A field of an accepted document keeps to every keyword of its row.      *)
LEMMA FieldRule ==
  ASSUME WalkIInv, WalkDecides, TaskDocument, NEW key \in Keys(payload)
  PROVE  /\ Get(payload, key) \in Values
         /\ \A k \in DOMAIN TaskFields[key] : ~ Fails(k, TaskFields[key][k], Get(payload, key))
BY FieldConforms, FieldsAreNamed, FieldSchemas

(* Its scope fields are lists.                                             *)
LEMMA ListFields ==
  ASSUME WalkIInv, WalkDecides, TaskDocument, NEW key \in ScopeFields \cap Keys(payload)
  PROVE  Get(payload, key).type = "array"
<1>1. "type" \in DOMAIN TaskFields[key] /\ TaskFields[key]["type"] = <<"array">>
  BY FieldsOfContract DEF ScopeFields, StringList, StringList1
<1>2. MatchesType(Get(payload, key), <<"array">>)
  BY <1>1, FieldRule DEF Fails
<1> QED
  BY <1>2, OneType

(* Its names are not empty.                                                *)
LEMMA TextFields ==
  ASSUME WalkIInv, WalkDecides, TaskDocument, NEW key \in {"task_id", "task_type"}
  PROVE  Length[Text(key)] # 0
<1>1. /\ "type" \in DOMAIN TaskFields[key] /\ TaskFields[key]["type"] = <<"string">>
      /\ "minLength" \in DOMAIN TaskFields[key] /\ TaskFields[key]["minLength"] = 1
  BY FieldsOfContract DEF Nonempty
<1>2. key \in Keys(payload)
  BY DocumentIsObject
<1>3. MatchesType(Get(payload, key), <<"string">>)
  BY <1>1, <1>2, FieldRule DEF Fails
<1>4. Get(payload, key).type = "string"
  BY <1>3, OneType
<1>5. Get(payload, key) \in Values /\ ~ Fails("minLength", 1, Get(payload, key))
  BY <1>1, <1>2, FieldRule
<1>6. Text(key) \in DOMAIN Length
  BY <1>4, <1>5, ContractAssumption DEF IsValue, Text
<1>7. ~ (Length[Text(key)] < 1)
  BY <1>4, <1>5 DEF Fails, Text
<1> QED
  BY <1>6, <1>7, ContractAssumption

(* Its version is 2.                                                       *)
LEMMA VersionField ==
  ASSUME WalkIInv, WalkDecides, TaskDocument
  PROVE  PyEqual(Field("task_spec_version", EmptyArray), Two)
<1> DEFINE key == "task_spec_version"
<1>1. "enum" \in DOMAIN TaskFields[key] /\ TaskFields[key]["enum"] = <<Two>>
  BY DEF TaskFields
<1>2. key \in Keys(payload)
  BY DocumentIsObject
<1>3. ~ Fails("enum", <<Two>>, Get(payload, key))
  BY <1>1, <1>2, FieldRule
<1>4. \E i \in DOMAIN <<Two>> : PyEqual(Get(payload, key), <<Two>>[i])
  BY <1>3 DEF Fails
<1>5. PyEqual(Get(payload, key), Two)
  <2> HIDE DEF key
  <2> QED
    BY <1>4
<1> QED
  BY <1>2, <1>5 DEF Field

(* It has no field of version 1.                                           *)
LEMMA NoLegacyField ==
  ASSUME WalkIInv, WalkDecides, TaskDocument
  PROVE  "allowed_paths" \notin Keys(payload)
<1>1. "allowed_paths" \notin DOMAIN TaskFields
  BY DEF TaskFields
<1> QED
  BY <1>1, FieldsAreNamed

(* So only a missing scope list and the length of the commit are left to   *)
(* build_task_spec.                                                        *)
LEMMA GapClosed ==
  ASSUME WalkIInv, WalkDecides
  PROVE  ContractGap
<1> SUFFICES ASSUME TaskDocument
             PROVE  FlawsOf = (IF ScopeFields \subseteq Keys(payload) THEN {} ELSE {"not_array"})
                       \cup (IF Length[Text("base_commit")] = 40 THEN {} ELSE {"identity"})
  BY DEF ContractGap, TaskDocument
<1>1. "version" \notin FlawsOf
  BY VersionField DEF FlawsOf
<1>2. "legacy" \notin FlawsOf
  BY NoLegacyField DEF FlawsOf
<1>3. "not_array" \in FlawsOf <=> ~ ScopeFields \subseteq Keys(payload)
  <2>1. (\E key \in ScopeFields : key \notin Keys(payload) \/ Get(payload, key).type # "array")
          <=> ~ ScopeFields \subseteq Keys(payload)
    BY ListFields
  <2>2. "not_array" \in FlawsOf <=>
          \E key \in ScopeFields : key \notin Keys(payload) \/ Get(payload, key).type # "array"
    BY DEF FlawsOf, Flaw
  <2> QED
    BY <2>1, <2>2
<1>4. "identity" \in FlawsOf <=> Length[Text("base_commit")] # 40
  BY TextFields DEF FlawsOf, Flaw
<1>5. FlawsOf \subseteq {"version", "legacy", "not_array", "identity"}
  BY DEF FlawsOf, Flaw
<1> QED
  BY <1>1, <1>2, <1>3, <1>4, <1>5

(* ContractGap for every document.                                         *)
THEOREM GapIsClosed == AdmissionSpec => []ContractGap
BY GapClosed, WalkInductive, ContractDecided, PTL

-----------------------------------------------------------------------------
(* The numeric attributes of an accepted document, given or by default,    *)
(* are integers within the bounds of the contract.                         *)
LEMMA NumericFields ==
  ASSUME WalkIInv, WalkDecides, TaskDocument,
         NEW key \in {"max_execution_minutes", "max_agent_turns", "max_rework_cycles"}
  PROVE  /\ Attributes[key].type = "integer" /\ Attributes[key].value \in Int
         /\ TaskFields[key].minimum <= Attributes[key].value
         /\ Attributes[key].value <= TaskFields[key].maximum
         /\ key \in DOMAIN Attributes
<1> DEFINE default == CASE key = "max_execution_minutes" -> 30
                        [] key = "max_agent_turns" -> 50
                        [] key = "max_rework_cycles" -> 3
<1>1. /\ DOMAIN TaskFields[key] = {"type", "minimum", "maximum"}
      /\ TaskFields[key]["type"] = <<"integer">>
      /\ TaskFields[key].minimum = TaskFields[key]["minimum"]
      /\ TaskFields[key].maximum = TaskFields[key]["maximum"]
      /\ TaskFields[key].minimum \in Int /\ TaskFields[key].maximum \in Int
      /\ TaskFields[key].minimum <= default /\ default <= TaskFields[key].maximum
  BY FieldsOfContract DEF Within, default
<1>2. /\ key \in DOMAIN Attributes
      /\ Attributes[key] = Field(key, [type |-> "integer", value |-> default])
  BY DEF Attributes
<1> HIDE DEF default
<1>3. CASE key \notin Keys(payload)
  BY <1>1, <1>2, <1>3 DEF Field, default
<1>4. CASE key \in Keys(payload)
  <2>1. Attributes[key] = Get(payload, key) /\ Get(payload, key) \in Values
    BY <1>2, <1>4, FieldRule DEF Field
  <2>2. /\ ~ Fails("type", <<"integer">>, Get(payload, key))
        /\ ~ Fails("minimum", TaskFields[key].minimum, Get(payload, key))
        /\ ~ Fails("maximum", TaskFields[key].maximum, Get(payload, key))
    BY <1>1, <1>4, FieldRule
  <2>3. Get(payload, key).type = "integer"
    BY <2>2, OneType DEF Fails
  <2>4. Get(payload, key).value \in Int
    BY <2>1, <2>3, ContractAssumption DEF IsValue
  <2>5. /\ ~ (Get(payload, key).value < TaskFields[key].minimum)
        /\ ~ (Get(payload, key).value > TaskFields[key].maximum)
    BY <2>2, <2>3 DEF Fails
  <2> QED
    BY <1>1, <1>2, <2>1, <2>3, <2>4, <2>5
<1> QED
  BY <1>3, <1>4

(* An admitted document is accepted, and the policy found no limit         *)
(* exceeded: a limit on an integer is not passed over.                     *)
LEMMA BoundsHold ==
  ASSUME WalkIInv, WalkDecides, AdmissionTold
  PROVE  AdmittedWithinBounds
<1> SUFFICES ASSUME outcome = "admitted",
                    NEW key \in {"max_execution_minutes", "max_agent_turns", "max_rework_cycles"}
             PROVE  /\ Attributes[key].type = "integer"
                    /\ TaskFields[key].minimum <= Attributes[key].value
                    /\ Attributes[key].value <= TaskFields[key].maximum
                    /\ key \in DOMAIN policy.limits =>
                         Attributes[key].value <= AsNumber(policy.limits[key])
  BY DEF AdmittedWithinBounds
<1>1. /\ TaskDocument /\ PolicyViolations(policy, ScopesOf(TaskOf), Terms) = {}
      /\ ~ PolicyRaises(policy, ScopesOf(TaskOf), Terms)
  BY DEF AdmissionTold
<1>2. ExceededLimits(policy, Terms) = {}
  BY <1>1 DEF PolicyViolations
<1>3. ASSUME key \in DOMAIN policy.limits
      PROVE  Attributes[key].value <= AsNumber(policy.limits[key])
  <2>1. Attribute(Terms, key) = Attributes[key]
    BY <1>1, NumericFields DEF Attribute, Terms
  <2>2. IsInt(Attributes[key]) /\ AsNumber(Attributes[key]) = Attributes[key].value
    BY <1>1, NumericFields DEF IsInt, AsNumber
  <2>3. policy.limits[key].type \in Numeric
    BY <1>1, <1>3, <2>1, <2>2, Zenon DEF PolicyRaises, LimitRaises
  <2>4. AsNumber(policy.limits[key]) \in Int
    BY <1>3, <2>3, AdmissionAssumption, Zenon DEF AdmissionTold, PolicyFile
  <2>5. ~ (AsNumber(Attributes[key]) > AsNumber(policy.limits[key]))
    BY <1>2, <1>3, <2>1, <2>2 DEF ExceededLimits
  <2> QED
    BY <1>1, <2>2, <2>4, <2>5, NumericFields
<1> QED
  BY <1>1, <1>3, NumericFields

(* AdmittedWithinBounds for every document and policy.                     *)
THEOREM AdmittedIsBounded == AdmissionSpec => []AdmittedWithinBounds
BY BoundsHold, WalkInductive, ContractDecided, AdmissionToldInv, PTL

-----------------------------------------------------------------------------
(* The items of a scope list of an accepted document are strings.          *)
LEMMA ItemsAreText ==
  ASSUME WalkIInv, WalkDecides, TaskDocument, NEW key \in ScopeFields \cap Keys(payload)
  PROVE  LET list == Get(payload, key).value
         IN  list \in Seq(Values) /\ \A i \in 1..Len(list) : list[i].value \in DOMAIN Length
<1> DEFINE field == Get(payload, key)
           list == field.value
           text == [type |-> <<"string">>]
<1>1. field.type = "array" /\ field \in Values
  BY ListFields, FieldRule
<1>2. list \in Seq(Values)
  BY <1>1, ContractAssumption DEF IsValue
<1>3. PICK part \in Parts(Root) : part.value = field /\ part.schema = FieldSchema(TaskContract, key)
  BY DocumentIsObject, FieldIsPart
<1>4. "items" \in DOMAIN part.schema /\ part.schema.items = text
  BY <1>3, FieldSchemas, FieldsAreNamed, FieldsOfContract DEF ScopeFields, StringList, StringList1
<1> HIDE DEF text
<1>5. Children(part) = [i \in DOMAIN list |-> [value |-> list[i], path |-> Append(part.path, i),
                                               schema |-> text]]
  BY <1>1, <1>3, <1>4 DEF Children
<1> HIDE DEF field, list
<1>6. ASSUME NEW i \in 1..Len(list)
      PROVE  list[i].value \in DOMAIN Length
  <2> DEFINE child == [value |-> list[i], path |-> Append(part.path, i), schema |-> text]
  <2>1. child \in ToSet(Children(part))
    <3>1. DOMAIN Children(part) = DOMAIN list /\ i \in DOMAIN list
      BY <1>2, <1>5
    <3>2. Children(part)[i] = child
      BY <1>5, <3>1
    <3> QED
      BY <3>1, <3>2 DEF ToSet
  <2>2. child.value = list[i] /\ child.schema = text
    OBVIOUS
  <2> HIDE DEF child
  <2>3. child \in Parts(Root)
    BY <2>1, RootType, PartsClosed DEF Closed, WalkIInv, WalkTypeOK
  <2>4. ~ Faulty(child)
    BY <2>3 DEF WalkDecides, TaskDocument
  <2>5. MatchesType(list[i], <<"string">>)
    BY <2>2, <2>4 DEF Faulty, Fails, text
  <2>6. list[i].type = "string" /\ list[i] \in Values
    BY <1>2, <2>5, OneType, ElementOf
  <2> QED
    BY <2>6, ContractAssumption DEF IsValue
<1> QED
  BY <1>2, <1>6 DEF list, field

(* So its scopes are raw paths, and what is built from it is a spec.       *)
LEMMA TaskOfType ==
  ASSUME WalkIInv, WalkDecides, TaskDocument
  PROVE  ScopesOf(TaskOf) \in SpecType
<1>1. ASSUME NEW key \in ScopeFields
      PROVE  Scope(key) \in Seq(RawPath)
  <2>1. CASE key \notin Keys(payload)
    BY <2>1 DEF Scope, Field, EmptyArray
  <2>2. CASE key \in Keys(payload)
    <3> DEFINE list == Get(payload, key).value
    <3>1. list \in Seq(Values) /\ \A i \in 1..Len(list) : list[i].value \in DOMAIN Length
      BY <2>2, ItemsAreText
    <3>2. Scope(key) = [i \in DOMAIN list |-> PathOf[list[i].value]]
      BY <2>2, ListFields DEF Scope, Field
    <3> HIDE DEF list
    <3>3. DOMAIN list = 1..Len(list) /\ Len(list) \in Nat
      BY <3>1
    <3>4. \A i \in 1..Len(list) : PathOf[list[i].value] \in RawPath
      BY <3>1, AdmissionAssumption
    <3> QED
      BY <3>2, <3>3, <3>4
  <2> QED
    BY <2>1, <2>2
<1>2. /\ TaskOf.read \in Seq(RawPath) /\ TaskOf.write \in Seq(RawPath)
      /\ TaskOf.immutable \in Seq(RawPath) /\ TaskOf.forbidden \in Seq(RawPath)
  BY <1>1 DEF TaskOf, ScopeFields
<1> QED
  BY <1>2, NormalizedListType DEF ScopesOf, SpecType

(* What may be accessed under an admitted document: StaticPolicy's         *)
(* validate_path lets nothing be written that overlaps an immutable or     *)
(* forbidden scope, or that may not be read, and nothing be read that      *)
(* overlaps a forbidden one.                                               *)
GrantsUnderPolicy ==
  outcome = "admitted" =>
    \A path \in Path, a \in Action :
      LET s == ScopesOf(TaskOf)
      IN  validate_path(policy, s, path, a) = "ok" =>
            /\ a \in WriteAction =>
                 /\ \A t \in s.immutable_read_paths \cup s.forbidden_paths :
                      ~ scopes_overlap(t, path)
                 /\ \A r \in ReadAction : validate_path(policy, s, path, r) = "ok"
            /\ a \in ReadAction => \A t \in s.forbidden_paths : ~ scopes_overlap(t, path)

(* GrantsUnderPolicy for every document, policy and path: the contract     *)
(* makes the scopes lists of strings, build_task_spec relates them, and    *)
(* the policy only takes away.                                             *)
THEOREM AdmittedGrantsAreClear == AdmissionSpec => []GrantsUnderPolicy
<1>1. WalkIInv /\ WalkDecides /\ AdmissionTold => GrantsUnderPolicy
  <2> SUFFICES ASSUME WalkIInv, WalkDecides, AdmissionTold, outcome = "admitted",
                      NEW path \in Path, NEW a \in Action,
                      validate_path(policy, ScopesOf(TaskOf), path, a) = "ok"
               PROVE  LET s == ScopesOf(TaskOf)
                      IN  /\ a \in WriteAction =>
                               /\ \A t \in s.immutable_read_paths \cup s.forbidden_paths :
                                    ~ scopes_overlap(t, path)
                               /\ \A r \in ReadAction : validate_path(policy, s, path, r) = "ok"
                          /\ a \in ReadAction =>
                               \A t \in s.forbidden_paths : ~ scopes_overlap(t, path)
    BY DEF GrantsUnderPolicy
  <2> DEFINE s == ScopesOf(TaskOf)
  <2>1. TaskDocument /\ SubsetOfRead(s) /\ ImmutableDisjoint(s) /\ ForbiddenDisjoint(s)
    BY DEF AdmissionTold, CanBuild, validate_task_spec_structure
  <2>2. s \in SpecType
    BY <2>1, TaskOfType
  <2> HIDE DEF s
  <2>3. ~ MatchesForbidden(policy, path) /\ validate_path_access(s, path, a) = "ok"
    BY DEF validate_path, s
  <2> QED
    BY <2>1, <2>2, <2>3, GrantIsClear DEF validate_path, s
<1> QED
  BY <1>1, WalkInductive, ContractDecided, AdmissionToldInv, PTL
=============================================================================
