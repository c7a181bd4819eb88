------------------------------ MODULE TaskSpec ------------------------------
(***************************************************************************)
(* task_spec.py: the TaskSpec v2 scope categories, the validation every    *)
(* raw task goes through, and the access decision made for one path.       *)
(*                                                                         *)
(* A raw task is a record: its four scope lists as sequences of raw paths, *)
(* and "flaws", the set of defects of the rest of the dictionary.  A built *)
(* spec holds its scopes as sets of normalized paths (the source sorts     *)
(* them, and only membership is ever asked).                               *)
(***************************************************************************)
EXTENDS Scopes

Flaw == {"version",     \* task_spec_version is not the supported one
         "legacy",      \* an allowed_paths key is present
         "not_array",   \* one of the four scope fields is not a list
         "identity"}    \* task_id, task_type empty or base_commit not 40 long

TaskType ==
  [flaws : SUBSET Flaw, read : Seq(RawPath), write : Seq(RawPath),
   immutable : Seq(RawPath), forbidden : Seq(RawPath)]

SpecType ==
  [read_paths : SUBSET Path, write_paths : SUBSET Path,
   immutable_read_paths : SUBSET Path, forbidden_paths : SUBSET Path]

-----------------------------------------------------------------------------
(* normalize_scope_list returns the paths and whether it found no error.   *)
NormalizedList(list) ==
  {normalize_repo_path(list[i]) : i \in {j \in 1..Len(list) : IsRepoPath(list[j])}}

ScopeListOK(list) ==
  /\ \A i \in 1..Len(list) : IsRepoPath(list[i])
  /\ \A i, j \in 1..Len(list) :
       i # j => normalize_repo_path(list[i]) # normalize_repo_path(list[j])

ScopesOf(task) ==
  [read_paths           |-> NormalizedList(task.read),
   write_paths          |-> NormalizedList(task.write),
   immutable_read_paths |-> NormalizedList(task.immutable),
   forbidden_paths      |-> NormalizedList(task.forbidden)]

(* Mutants: the write scopes are not compared with the read scopes,        *)
(* overlaps are looked for in one direction only.                          *)
ImmutableSubsetOfRead(s) ==
  \A p \in s.immutable_read_paths : path_matches_any(p, s.read_paths)
ImmutableOutsideWrite(s) ==
  \A i \in s.immutable_read_paths, w \in s.write_paths : ~ scope_contains(w, i)
RestOutsideForbidden(s) ==
  \A f \in s.forbidden_paths, p \in s.read_paths \cup s.write_paths : ~ scope_contains(f, p)

(* write_paths and immutable_read_paths must be subsets of read_paths.     *)
SubsetOfRead(s) ==
  \A p \in s.write_paths \cup s.immutable_read_paths :
    path_matches_any(p, s.read_paths)

(* immutable_read_paths must be disjoint from write_paths.                 *)
ImmutableDisjoint(s) ==
  \A i \in s.immutable_read_paths, w \in s.write_paths : ~ scopes_overlap(i, w)

(* forbidden_paths must not overlap the read or the write scopes.          *)
ForbiddenDisjoint(s) ==
  \A f \in s.forbidden_paths, p \in s.read_paths \cup s.write_paths :
    ~ scopes_overlap(f, p)

validate_task_spec_structure(task) ==
  /\ task.flaws \subseteq {"identity"}
  /\ task.read # <<>> /\ task.write # <<>>
  /\ \A list \in {task.read, task.write, task.immutable, task.forbidden} :
       ScopeListOK(list)
  /\ SubsetOfRead(ScopesOf(task))
  /\ ImmutableDisjoint(ScopesOf(task))
  /\ ForbiddenDisjoint(ScopesOf(task))

(* build_task_spec succeeds: the structure is valid and the constructor's  *)
(* __post_init__ accepts the identity fields.                              *)
CanBuild(task) == validate_task_spec_structure(task) /\ "identity" \notin task.flaws

build_task_spec(task) == ScopesOf(task)

-----------------------------------------------------------------------------
ReadAction == {"read", "glob", "grep"}
WriteAction == {"write", "edit", "create", "delete"}

(* The reason validate_path_access returns for a path that normalizes to   *)
(* path: the categories are consulted in this order.                       *)
validate_path_access(spec, path, action) ==
  IF path_matches_any(path, spec.forbidden_paths) THEN "in forbidden_paths"
  ELSE IF action \in ReadAction THEN
    IF path_matches_any(path, spec.read_paths) THEN "ok" ELSE "outside read_paths"
  ELSE IF action \in WriteAction THEN
    IF path_matches_any(path, spec.immutable_read_paths) THEN "in immutable_read_paths"
    ELSE IF path_matches_any(path, spec.write_paths) THEN "ok"
    ELSE "outside write_paths"
  ELSE "unknown action type"

is_path_readable(spec, path) ==
  /\ ~ path_matches_any(path, spec.forbidden_paths)
  /\ path_matches_any(path, spec.read_paths)

is_path_writable(spec, path) ==
  /\ ~ path_matches_any(path, spec.forbidden_paths)
  /\ ~ path_matches_any(path, spec.immutable_read_paths)
  /\ path_matches_any(path, spec.write_paths)
=============================================================================
