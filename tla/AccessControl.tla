--------------------------- MODULE AccessControl ---------------------------
(***************************************************************************)
(* The life of one TaskSpec: a raw task is validated and built once, or    *)
(* rejected; from then on the frozen spec answers access requests.         *)
(***************************************************************************)
EXTENDS TaskSpec

CONSTANTS
  Tasks,       \* the raw tasks that may be submitted
  Requests,    \* the raw paths access may be asked for
  NoSpec,      \* no TaskSpec object exists
  NoDecision   \* no access decision has been returned

ASSUME InputAssumption ==
  /\ \A t \in Tasks : t \in TaskType
  /\ \A r \in Requests : r \in RawPath

VARIABLES
  task,        \* the dictionary that was submitted
  phase,       \* "raw", "rejected" (TaskSpecValidationError) or "built"
  spec,        \* the TaskSpec object
  decision     \* the last access decision: what was asked, what was answered

vars == <<task, phase, spec, decision>>

Action == ReadAction \cup WriteAction \cup {"chmod"}   \* "chmod": any other word

Reason == {"ok", "in forbidden_paths", "outside read_paths",
           "in immutable_read_paths", "outside write_paths", "unknown action type"}

TypeOK ==
  /\ task \in Tasks
  /\ phase \in {"raw", "rejected", "built"}
  /\ IF phase = "built" THEN spec \in SpecType ELSE spec = NoSpec
  /\ \/ decision = NoDecision
     \/ phase = "built" /\ decision \in [path : Path, action : Action, reason : Reason]

Init ==
  /\ task \in Tasks
  /\ phase = "raw"
  /\ spec = NoSpec
  /\ decision = NoDecision

Build ==
  /\ phase = "raw" /\ CanBuild(task)
  /\ phase' = "built"
  /\ spec' = build_task_spec(task)
  /\ UNCHANGED <<task, decision>>

Reject ==
  /\ phase = "raw" /\ ~ CanBuild(task)
  /\ phase' = "rejected"
  /\ UNCHANGED <<task, spec, decision>>

(* validate_path_access(raw, action); a path that does not normalize       *)
(* raises ValueError and no decision is returned.                          *)
CheckAccess(raw, action) ==
  /\ phase = "built"
  /\ decision' =
       IF IsRepoPath(raw)
       THEN LET path == normalize_repo_path(raw)
            IN  [path |-> path, action |-> action,
                 reason |-> validate_path_access(spec, path, action)]
       ELSE NoDecision
  /\ UNCHANGED <<task, phase, spec>>

Next ==
  \/ Build
  \/ Reject
  \/ \E raw \in Requests, action \in Action : CheckAccess(raw, action)

Spec == Init /\ [][Next]_vars

-----------------------------------------------------------------------------
Granted(actions) ==
  decision # NoDecision /\ decision.action \in actions /\ decision.reason = "ok"

(* A granted access stays clear of everything the task protects, in both   *)
(* directions: a written path neither lies in an immutable or forbidden    *)
(* scope nor is a directory with one inside it, and a read path is so      *)
(* separated from the forbidden scopes.  The access check only looks       *)
(* upwards from the path; the other half is owed to the validation.        *)
GrantsAvoidProtected ==
  /\ Granted(WriteAction) =>
       \A s \in spec.immutable_read_paths \cup spec.forbidden_paths :
         ~ scopes_overlap(s, decision.path)
  /\ Granted(ReadAction) =>
       \A s \in spec.forbidden_paths : ~ scopes_overlap(s, decision.path)

(* Whatever may be written may also be read: the write branch of           *)
(* validate_path_access never looks at read_paths.                         *)
WriteImpliesRead ==
  Granted(WriteAction) =>
    \A a \in ReadAction : validate_path_access(spec, decision.path, a) = "ok"

(* In a validated spec the categories exclude each other on every path, so *)
(* the order in which validate_path_access consults them never decides a   *)
(* request: a refusal for one category is no grant of another.             *)
CategoriesExclusive ==
  decision # NoDecision =>
    /\ decision.reason = "in forbidden_paths" =>
         ~ path_matches_any(decision.path, spec.read_paths \cup spec.write_paths)
    /\ decision.reason = "in immutable_read_paths" =>
         ~ path_matches_any(decision.path, spec.write_paths)
=============================================================================
