# agent-governance-kit in TLA+

Specifications, model checks and proofs for `agent_governance`, the library that governs autonomous
coding agents: it validates a task, judges the agent's events against it, runs gates, compares
repository snapshots and keeps evidence. Paths below are relative to `src/src/agent_governance/`
unless they say otherwise.

## The system

The library is a set of components a driver (an orchestrator) calls; the driver itself is not in the
repository. Data flows TaskSpec → policy → event stream → event policy → gates → patch validation →
repository guard → evidence (`src/README.md`), and the state machine says in which order the driver
may go through these.

| Component | State | Operations | What is hard | Correct when |
| --- | --- | --- | --- | --- |
| Paths and scopes (`runtime_utils.py`, `task_spec.py`) | none | normalize, contains, overlap | `.`, empty, absolute and upper-case spellings; prefix in both directions | overlap means that some path lies in both scopes |
| TaskSpec (`task_spec.py`) | one frozen spec | validate, build, three access predicates | access looks upwards from a path only, and relies on what validation excluded; rules are written down three times | no grant touches a protected scope from either side |
| Event policy (`event_policy.py`) | counters, violations | evaluate a stream | irregular events, early exits of the loop, double normalization | a violation for an event if and only if it breaks a rule |
| State machine (`state_machine.py`) | none; the driver keeps the state | ask for a transition | cycles through rework, review and human gate | accepted work was validated; loops cost budget; the run can always go on, and ends |
| Atomic writes (`runtime_utils.py`) | the evidence directory | write JSON or text | crashes, power loss, two writers | a published file is one whole value |
| Evidence bundle (`evidence.py`) | artifacts, manifest | write, append, build, verify | many reads that are not atomic; leftovers; tampering | verdicts and manifests are right about what was left alone |
| Gate runner (`gate_runner.py`) | gates, results | add, run | checks are callbacks that raise or register gates; repeated runs | the verdict is that of the required gates of this run |
| Repository guard (`repo_guard.py`) | two snapshots | capture, compare | captures are not atomic; volatile files; dirty files | what passes was left as it was, volatile files apart |
| Patch validator (`patch_validator.py`) | none | parse, validate | renames, apply-check that times out | every change is in the write scope |
| Policy engine (`policy.py`) | none | evaluate a task or path | precedence of rules, limits of the wrong type, policies of any form | stated rules are enforced |
| Contracts (`contracts.py`) | none | validate against a schema | recursion, the first error, booleans that are integers | agrees with the schema |
| Adapters (`agent_adapters/`) | none | normalize provider events | several blocks per message | adapter and event policy read the same call |
| Command line (`cli.py`) | none | commands with exit codes | which error becomes which code, which check comes first | an exit code of 0 means what it says, and any other has its cause |

Components interact by calls only: the event policy, the policy engine and the patch validator ask a
TaskSpec, the command line calls them all, the evidence bundle uses the atomic writes, gates wrap
any of them as callbacks. The shared state is in the file system (the evidence directory, the
repository), where other processes act too; that is where the interleavings are.

## Modules

| Module | Models | State and actions |
| --- | --- | --- |
| `Scopes` | `normalize_repo_path`, `scope_contains`, `scopes_overlap`, `_path_matches_any` | operators; a path is a sequence of segments, normalizing is a recursive function over it |
| `TaskSpec` | `task_spec.py` | operators named like the functions; error lists are reduced to whether they are empty |
| `AccessControl` | the life of one TaskSpec | `Build`, `Reject`, `CheckAccess` |
| `EventPolicy` | `evaluate_event_stream` and its helpers | one action per way through the loop body: `NonToolEvent`, `StructuredResult`, `UnknownTool`, `AllowedTool`, `ForbiddenTool`, `PathlessAction`, `FilesystemAction`, `EvaluationRaises`, `EntryRaises`; `Return` |
| `JsonValue` | JSON values as Python holds and compares them | operators |
| `Policy` | `policy.py` | operators, one per rule, and the ways in which the rules raise |
| `PatchValidator` | `patch_validator.py`, and git as far as a patch shows it | `ReadLine`, one turn of the parsing loop, and `Entries`, what the first n turns have read; one operator per check |
| `Adapters` | `ClaudeAdapter` and `CodexAdapter`, which do the same | operators on the events of `EventPolicy` |
| `Cli` | `cli.py`, composing `EventPolicy`, `Policy`, `PatchValidator` and `Adapters` | one action per command: `ValidateTask`, `ValidatePolicy`, `EvaluateEvents` and `ValidateEvents`, `ValidatePatch`, `RunOther`; then `main` turns its end into an exit code |
| `Contracts` | `contracts.py` | `Validate` makes one call of the recursion, with the calls to come on a stack; `Raise`, `ReturnNone` |
| `Admission` | a task document's way through a contract and `StaticPolicy`, composing `Contracts` and `Policy`; the contract itself (`TaskContract`, from `src/schemas/task_spec_v2.schema.json`) | `ValidateContract`, `ValidateTaskSpec` |
| `ContractReference` | what the schema keywords mean | recursive operators that list the faults of a document |
| `Lifecycle` | what the control states promise | abstract phases of a run: planning, working, submitted, checked, paused and the ends |
| `StateMachine` | the transition table and `assert_transition` | `Transition` and `Refuse`, for every actor and target |
| `ArtifactStore` | what an atomic write promises | `Ask`, `Commit`, `Abandon` |
| `AtomicWrite` | `write_json_atomic`, `write_text_atomic` | the calls on the file system, on names, inodes and open handles: `Open`, `WriteFirst`, `WriteRest`, `Fsync`, `Replace`, `ReplaceRaises`; `Crash`, `PowerLoss` |
| `Evidence` | `EvidenceBundle` | writes, appends, `BuildBegin` … `BuildReplace`, `VerifyBegin` … `VerifyDone`; `Crash`, `Tamper` |
| `EventStream` | `write_jsonl_event` and `read_jsonl_stream` | `write_jsonl_event`, `WriteDies`; reading is an operator on the pieces the appends left, which `Split` puts together to lines |
| `TaskIntake` | a task document on its way in and a TaskSpec in use | the steps of `Admission`, checked against `ContractReference`, or those of `AccessControl` |
| `EvidenceBundle` | a bundle: its artifacts and one of its streams | the steps of `Evidence` or those of `EventStream` |
| `GateRunner` | `GateRunner` | `add_gate`, `RunBegin`, `CheckReturns`, `CheckRaises`, `CheckEscapes`, `RunEnd` |
| `RepoGuard` | `capture_snapshot`, `compare_snapshots`, `_git` | the captures read by read, `CaptureBegin` … `CaptureIsFile`, `CaptureHash`, `CaptureEnd`; `CaptureRaises`, `Compare`; what happens to the repository: `Edit`, `Stage`, `Unstage`, `Commit`, `SoftReset`, `SwitchBranch` |

`TaskSpec` extends `Scopes`; `AccessControl`, `EventPolicy`, `Policy` and `PatchValidator` extend
`TaskSpec`, so all use the very predicates the proofs are about. `Cli` puts them together: an
invocation is a command with the contents of its files, a command is the list of its calls, and the
first call that does not come out well decides how it ends; only the evaluation of events takes
steps of its own, those of `EventPolicy`. A program that calls `evaluate_event_stream` directly,
with allowed tools, which no command can set, is one of the invocations. `StateMachine` implements
`Lifecycle` and `AtomicWrite` implements `ArtifactStore`, each by a refinement mapping. `Evidence`
builds on the second result: under names nobody else writes a file changes in one step, so there a
file simply has a content, and only temporary files are seen half-written.

The `MC*` modules give the constants of a model; the `*Proofs` modules hold theorems. In the other
modules, definitions introduced as "Mutant" are not part of any specification: each is a definition
with a plausible mistake in it, kept to show that a property notices when it takes the place of the
definition that follows.

### Abstractions

* Segments of paths, tool names, gate names, branches and contents are members of small sets.
  `Lower`, a function on segments, is `str.lower()`; `Drive` are the segments with a colon.
  Backslashes are taken to be replaced already.
* Error messages are reduced to the reason or code they carry. One wording matters and is kept:
  `RefusalCode` models that a refusal is called `OUT_OF_SCOPE` when the word "outside" occurs in a
  message that quotes the path.
* SHA-256 is injective; time stamps are left out.
* In `AtomicWrite` a file is written in two parts, which is enough to see it torn; renames are
  durable in their order; a crash also stands for an exception inside the write.
* In `Evidence` the check that a file exists and the reading of its size are one step: a file that
  vanishes between the two raises as one does that vanishes before its digest, which is kept. The
  order in which a directory is walked is left open; no property depends on it. To a manifest a stream is one more file, so an append changes that file in one step; in
  `EventStream`, where the lines matter, an append is one write at the end of the file, of which a
  death leaves nothing, a part, or all but the newline. Reading a stream while it is being appended
  to is left out, as are lines longer than the file object's buffer, which take several writes. The
  two have no state in common, so `EvidenceBundle` runs one or the other.
* In `Policy` a wildcard stands for a whole segment or more; wildcards inside a segment and
  character classes are left out. A command and a forbidden command are sequences of words, and a
  forbidden one occurs in a command where its words do; in the code it may also begin or end inside a
  word. A policy file may have any form: a rule's part is absent, of the wrong type (`malformed`), or
  holds limits and modes that are any JSON value. Of what a policy may name only the fields of a
  TaskSpec are attributes; its methods and its content hash are left out.
* In `PatchValidator` a line is its kind and, in a header, its two paths. A path with `" b/"` in it,
  on which the header pattern would split elsewhere, is left out; a quoted name, which the pattern
  does not match, is one kind of change. Content hashes, compared with nothing, are left out.
* In `Contracts` strings are opaque: `Length` and `Matching` are what keywords ask of them, and
  `PathOf` is the path a string spells. `Values` and `Schemas` are any sets closed under taking
  fields and items; a number that is no integer is one with a whole value (`2.0`). Two corners where the code differs from JSON Schema are
  outside the instance: an enumeration without a type takes `true` for `1`, and `uniqueItems`
  compares JSON text, so that `1` and `1.0` differ. The attributes and
  commands `Admission` hands to the policy are those of the document; `WordsOf` splits its strings.
* In `Cli` an input file is missing, no JSON, not UTF-8, JSON of the wrong type, or right; the
  scenario wrapper around a task is taken off already. A task document may lack a key, have a list
  that cannot be sorted or a commit without a length (`Defect`), an entry of an event file may be no
  object (`"unreadable"`). Exceptions `main` has no clause for are one, `"other"`. Texts can be
  printed and encoded, and the names and types in an event's blocks are what they should be. What the repository guard, the bundle and the state
  machine answer to their commands is an input, as they have modules of their own.
* In `RepoGuard` git is what the guard uses of it: commit, index and work tree of each file, and the
  lines `git status` prints. Rename detection (one line for two files) is left out. Snapshots are
  always retained (`snapshots_retained`, whose default is true), and the protected and volatile
  paths are the same for both captures.
* In `GateRunner` a check does not itself call `run`. A check that exits, or answers with what has no
  status, raises out of the run (`CheckEscapes`).
* Every row of the transition table names the orchestrator, so the table is a set of moves and the
  actor one condition of `can_transition`.
* The driver of the state machine is assumed to enter states through `assert_transition` only and to
  keep to `max_rework_cycles`; `MaxApprovals` bounds the human's patience. These are assumptions on
  code outside the repository (`Affordable`), as is the fairness below.

## Runs

| Run | Model | Shows |
| --- | --- | --- |
| `task_intake` | access: two names, one in two spellings, paths of up to two segments, every combination of one or two read scopes with write, immutable and forbidden scopes; malformed lists. Admission: the TaskSpec contract on a document with one field absent or of sixteen values, four small schemas on nested values, six policies | grants stay clear of protected scopes in both directions; writable implies readable; the categories exclude each other. The walk agrees with the reference, errors included; contract and policy together bound what they admit; what a document that keeps to the contract can still lack |
| `command_line` | every command; task documents that build, that do not, and that are none; 33 policies, malformed ones among them; streams of three events out of every class and irregularity; patches of two changes of every kind | 0 is earned and every other exit code has its cause, verdicts on plain events are exact, the report of an evaluation is consistent, patches parse as git printed them, adapters and event policy agree |
| `state_machine` | two rework cycles, one approval | acceptance after validation, executions paid for, a move open until the end, every move paid for, the run ends, refinement of `Lifecycle` |
| `atomic_write` | two processes and values, an exclusive and a shared name, three writes, one crash | under the exclusive name whole targets and refinement of `ArtifactStore`; under both, no two files share an inode and writes end, some with an exception |
| `evidence` | two processes, one artifact, two contents of one size, one write or append, changes from outside without a bound, two builds or verifications, one crash; a stream of four appends, any of which may die | tampering detected, no false alarm, faithful manifests, no exception when left alone, no acknowledged event lost silently; every build and every verification ends |
| `gate_runner` | two names, three gates, two runs | exact verdicts, failures named |
| `repo_guard` | four files, two contents, two branches, three steps by others | what a passing comparison guarantees, and no false alarm |

Why the bounds are enough: two segments suffice for nesting in both directions and for siblings; the
decision on an event depends on that event alone, which three events let TLC refute; two changes are
enough for marks of one patch entry to reach the next, and four appends for a torn line with whole
lines before and behind it; one wrong field is enough for each keyword to fail in each place, since
the walk ends at the first fault; two processes are the fewest that race, and a third write lets
each name be written twice; contents of other sizes and more writes of artifacts are left to the
proofs, which hold for all of them; one rework cycle more than the first shows what a second
validation must not inherit; three steps in the repository are one to change, one to hide and one to restore.

`CHECK_DEADLOCK FALSE` stands where a model comes to a rightful end: a command that has exited, a
decided document, a rejected task, spent bounds. The state machine always answers a request, and its
run checks for deadlock.

Fairness: in `AtomicWrite` and `Evidence` a process that is inside a call goes on (weak fairness of
its next call; the code is straight-line and the calls return), while starting calls and crashing
are never forced. What others add, change and delete (`Tamper`) is not counted in `Evidence`, so a
build that chased it would never end.
`GateRunner` assumes nothing and claims no end: the loop runs over the list its checks may append
to, so a check that registers another one at each call keeps it going, and the model only stops
that at `MaxGates`. In `StateMachine` the driver takes some open transition as long as there is one;
nothing is assumed on which, so the budgets have to end the loops.

### Where the code and its documentation disagree

Five runs end in a counterexample; each checks one sentence of the documentation or comments.

| Run | Sentence | What the code does |
| --- | --- | --- |
| `event_policy_several_calls` | "Shell/network tools are violations unless explicitly allowed" (`event_policy.py:202`) | only the first call of a message is classified (`:157`) |
| `patch_rename` | "Patch validator enforces scope on every changed file" (`src/SECURITY.md:14`) | a rename out of a path outside the write scope passes: only the new path is checked (`patch_validator.py:189`) |
| `gate_skip` | "only if ALL required gates pass" (`src/docs/ARCHITECTURE.md:45`) | a required gate that answers SKIP does not block acceptance (`gate_runner.py:113`) |
| `evidence_leftover` | "Verify all artifacts match the manifest" (`evidence.py:95`) | a rebuild after a crash lists the manifest's own temporary file (`evidence.py:76`) |
| `repo_guard_dirty` | "A tracked file disappeared — always an integrity failure" (`repo_guard.py:202`) | a file dirty before and deleted after has the same line in both snapshots (`:201`) |

Seen on the way, without a run of their own:

* Events: a call without a name is passed over as no tool event (`event_policy.py:161`, against
  "Unknown tools are violations", `:199`); a call on the path `.` raises ValueError out of the
  evaluation, and what it had recorded is lost (`:295`; the command exits with 4).
* Patches: a file whose name git quotes is not seen (`patch_validator.py:67`); if the repository
  root does not exist, that counts as a missing git, and the patch stays valid (`:253`).
* Command line: a task that does not build exits with 1 from `validate-task` and with 2 from
  `validate-policy`; a file that is not UTF-8 exits with 4; `verify-evidence` creates the directory
  it is asked to verify (`cli.py:222`).
* Policy: a policy file is not validated: a limit that is no number, a mode that allows `null`, a
  policy that is no object raise (`policy.py:179`), and the command exits with 4. The immutable scopes are not matched against the forbidden patterns (`policy.py:108`); the
  rule that allowed and forbidden paths are disjoint (`:207`) can find nothing, as no spec with an
  overlap is ever built.
* Contracts: the schema calls `immutable_read_paths` and `forbidden_paths` optional
  (`src/schemas/task_spec_v2.schema.json:4`), the structural check wants both; the pattern of a
  commit also matches with a final newline. `ContractGap` says that this is all.
* Evidence: a manifest that is not UTF-8, or no object, raises instead of failing verification
  (`evidence.py:102`); two writers of one name share its temporary file and can publish a torn one
  (`runtime_utils.py:48`, against "atomically", `evidence.py:40`).
* Gates and states: a check that registers a gate at each call keeps a run going
  (`gate_runner.py:96`); one that answers with what has no status raises out of it (`:113`, outside
  the `try`); `src/CHANGELOG.md:11` counts 17 states and 30 transitions where the code has 18 and 32;
  `VALIDATION_FAILED` is an end no transition leaves, but not a terminal state.
* A protected file that vanishes while it is hashed raises FileNotFoundError out of the capture
  (`repo_guard.py:114`), where a failing git command raises RepositoryGuardError.
* `git status` runs without `--ignored`, so a captured snapshot never has ignored files.

## Proofs

TLAPS proves, for every value of the constants that satisfies the named assumptions:

* `ScopesProofs`: normalizing gives a sequence of lower-case names (`NormalizeType`), by following
  the recursion to the least index where it could fail; containment is transitive, and two scopes
  that contain one path overlap (`CommonPathOverlap`), so that comparing scopes with each other finds
  exactly those that share a path (`OverlapExact`).
* `TaskSpecProofs`, a TaskSpec from its document to its last access decision, in three parts.

  Access: type correctness, `GrantsAvoidProtected`, `WriteImpliesRead` and `CategoriesExclusive`.
  None is inductive: the invariant adds that a built spec satisfies what validation checked
  (`Validated`) and that a decision is the answer of `validate_path_access` on a normalized path
  (`Answered`). The properties then follow from the lemmas on scopes. The three places that state
  the access rules agree on every spec (`PredicatesAgree`).

  Contract: `validate_json_contract` is right about documents and schemas of any depth
  (`WalkDecides`): it returns only if no part of the document is faulty, and raises for the first
  part that is. The parts are not defined by recursion but as the least set that has the document
  and, with a part, its fields and items (`Parts`, `Closed`). The invariant `WalkIInv` says that the
  calls to come are parts (`CallsAreParts`) in the order of the document (`CallsInOrder`), and that
  there is a set of parts already looked at, none of them faulty, whose fields and items are in it or
  to come (`Passed`). From this, what is not looked at lies under a call to come
  (`PartsAreCovered`); at the end nothing is to come, and at a fault every other one lies under that
  call or a later one.

  Admission: what the walk says of each field, for the fields of the schema file, gives
  `ContractGap`; with the policy's check of the limits, `AdmittedWithinBounds`. `GrantsUnderPolicy`
  joins the parts: an admitted document has scopes that are lists of strings, it builds, so its
  grants are clear of protected scopes, and the policy's path check only takes grants away.
* `StateMachineProofs`: type correctness, `AcceptedWasValidated`, `ExecutionsAccounted`,
  `NeverStuck`, `EveryMoveCosts`, that terminal states are final, and the refinement of `Lifecycle`.
  The
  invariant says in which states the newest execution is validated, and that a prepared workspace
  has been paid for and not yet used (`PaidInAdvance`). Why a run ends is proved up to the step that
  uses fairness: `MovesLeft` is a natural number that every transition lowers (`EveryMoveCosts`), and
  before the end a transition within the budgets is open (`NeverStuck`).
* `AtomicWriteProofs`: for any number of processes, names, writes and crashes: type correctness and
  `LinksDistinct`; and for the names in `Exclusive`, which no two processes write at a time,
  `TargetsWhole` and the refinement of `ArtifactStore`, whatever is written under the other names.
  The invariant follows the inode: nothing under one name shares an inode with a write under another
  (`HandlesApart`), the handle of an exclusive write is the temporary file's inode (`HandleIsTmp`),
  and what it holds matches the progress of the write (`TmpIsFilled`). Without `Exclusive` neither
  would hold: see the shared temporary file above.
* `CliProofs`, about the command line and all it calls, for every set of invocations, specs, streams
  and patches. `VerdictExact` and `ReportConsistent` of the event policy rest on `EventIInv`, which
  adds that every path violation on record has its cause in its event (`PathsTold`), that a stream
  without violations has counted nothing it should not (`CountsTold`), and that a raise came from an
  entry that is no object or a path that normalizes to nothing (`RaiseTold`). `CliSpec => Spec` (`EvaluatesBySteps`): the commands
  drive the event policy by its own steps. `CliIInv` carries this through the commands: nothing is
  evaluated unless the calls before it came out well (`Started`), a PASS has every call of its
  command answered by "ok" (`Earned`), and any other end names the call that gave it (`Excused`).
  `PassIsEarned` and `FailureHasCause` then hold by what the policy engine (`PolicyAnswer`) and the
  patch validator answer: what the rules let pass is what the policy asks for, read independently of
  them (`Compliant`), and well-formed inputs make nothing raise (`PolicyRaiseTold`). That the policy's rule on disjoint paths finds nothing in a spec that builds is a step of
  the first. `ParsesWhatGitPrints` is an induction over the changes of a patch of any length, and
  `AdapterAgrees` one over the blocks of a message.
* `EvidenceProofs`: type correctness, `TamperDetected`, `NoFalseAlarm`, `ManifestFaithful` and
  `RaisesOnlyWhenDisturbed` for any number of processes, artifacts, crashes and changes from
  outside. The invariant says of each build and verification what it knows about the files nobody
  touched since it began: which it has still to list, that the entries it made match, that the size
  it read is still the size (`BuildTold`, `SaveTold`, `VerifyTold`). Each step of another process
  touches what it changes, so one lemma (`Bystander`) covers them all. `BundleHoldsArtifacts` takes
  the results over to the bundle with its stream. `StreamFaithful` holds of streams of any length:
  pieces stand in the order of the appends (`PiecesOrdered`), every acknowledged event is among them
  (`AcknowledgedKept`), the events not acknowledged are as many as the deaths (`LostCounted`), and
  without a death there are whole lines only; `LinesOfOnePiece`, an induction over the file, says
  that a file of which every line parses gives back its pieces.
* `GateRunnerProofs`: type correctness and `VerdictExact` for any number of gates and runs. The
  invariant adds that a blocking result is never without a record (`FailuresRecorded`), that a
  required gate that raised under fail-closed has failed (`RaisedBlocks`), and what the summary is
  drawn from (`SummaryTold`).
* `RepoGuardProofs`: type correctness, `ProtectedContentKept`, `OnlyVolatileDrift` and
  `UnchangedMatches` for any files, branches and number of steps by others. A snapshot tells the
  truth about what was not touched during its capture (`SnapTold` while it is taken, `BeforeTold`
  and `AfterTold` later); and commits are added, never changed (`Grown`), so that an unchanged head
  means an unchanged tree.

Every invariant was model-checked on the bounds of its run before it was proved; `WalkIInv` only on
a part of the documents, as it speaks of sets of parts.

Assumptions: `SegmentAssumption` (segments are disjoint from `.`, `..` and the empty one;
lower-casing is idempotent), `InputAssumption`, `BudgetAssumption`, `WriteAssumption`,
`EventAssumption` (events are sequences of blocks), `CliAssumption` (argparse requires the policy of
validate-policy; a limit or an attribute that is a number is an integral one; commands, answers and
the forms of files are those the model names), `ContractAssumption` (documents are JSON values, whose fields and items
are among the values, and likewise schemas), `AdmissionAssumption` (limits that are numbers are
integral; a string spells a path and is a sequence of words), `EvidenceAssumption` (sizes are natural
numbers; no artifact is called like the manifest), `StreamAssumption`, `GateAssumption`, `GuardAssumption`. TLC evaluates them in
the runs.

Attempts at a proof that failed for a reason and changed the model: a copy from a name outside the
repository is refused, so an acceptable patch has only names inside it (`PatchAcceptable`); Python's
booleans are integers, so `True` exceeds a limit of 0 (`Compliant`); and the paths a failing patch is
excused by are those of the patch or of the events, where the first form, by the precedence of
`UNION`, had read otherwise (`InternalErrorExplained`); the cases of a schema keyword overlapped, as
`type` applies to every value and `required` to objects, and overlapping cases of a CASE leave open
which is meant (`Fails`, now a disjunction); and a policy may limit an attribute that is no number,
such as `execution_mode`, which the code passes over, so that `AdmittedWithinBounds` speaks of the
numeric attributes, and of their lower bounds too. What the loops of the parser, the adapters
and the stream reader compute is stated as recursive functions, whose equations the proofs derive
(`EntriesEquation`, `FirstCallEquation`, `SplitEquation`).

Every invariant and action property the runs check is proved, but for one. `ContractExact` compares
the walk with a recursive reading of the schema keywords; as an induction over documents and schemas
it is beyond the prover. `WalkDecides` proves the same of the walk without the recursion; that the
keywords themselves mean what JSON Schema says (`Fails` against `Satisfies`) is left to TLC. Left to
TLC is all liveness, too (`RunEnds`, `WritesEnd`, `RunsEnd`): it rests on fairness and ENABLED.

## Not modelled

The modules with recursive operators (`ContractReference`, and `TaskIntake` that extends it) hold no
theorems. Wildcards inside a path segment, ignored files in a captured snapshot and reading a stream
that is being appended to are the parts of modelled components that are left out, see above.

Left out for good:

* The orchestrator that would run a task through all components is not in the repository; what the
  models assume of it is named above.
* Hashing, time stamps and serialization: pure conversions no property is about. `verify_artifact`
  is one comparison of digests.
* Argument parsing and printing; the prompts and command lines the adapters build, which are
  constant text; `load_schema`, which reads a file.
