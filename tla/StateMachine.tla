---------------------------- MODULE StateMachine ----------------------------
(***************************************************************************)
(* state_machine.py: the transition table of a governed run and the check  *)
(* every requested transition goes through.  Any actor may ask for any     *)
(* target state, at any time; a refused request raises and changes nothing.*)
(*                                                                         *)
(* The program that issues the requests is not part of the repository.  Of *)
(* it the model assumes that it enters the states through this check only, *)
(* that it spends a finite number of rework cycles and human approvals,    *)
(* and, for liveness, that it goes on as long as a transition is open.     *)
(***************************************************************************)
EXTENDS Naturals, FiniteSets

CONSTANTS
  MaxRework,      \* max_rework_cycles of the TaskSpec
  MaxApprovals    \* bound on the approvals a human gives

ASSUME BudgetAssumption == MaxRework \in Nat /\ MaxApprovals \in Nat

VARIABLES
  state,          \* the AgentControlState of the run
  last,           \* the last request: who asked, and what was answered
  validated,      \* the newest execution passed deterministic validation
  plans,          \* times a plan was let through to execution
  approvals,      \* times a human approval was recorded
  reworks,        \* rework cycles started
  executions      \* times AGENT_RUNNING was entered

history == <<validated, plans, approvals, reworks, executions>>
vars == <<state, last, validated, plans, approvals, reworks, executions>>

TERMINAL_STATES ==
  {"ACCEPTED", "BLOCKED", "TIMEOUT", "BUDGET_EXCEEDED", "POLICY_VIOLATION"}

AgentControlState == TERMINAL_STATES \cup
  {"NEW", "PLANNING", "PLAN_VALIDATION", "HUMAN_GATE_REQUIRED",
   "EXECUTION_WORKSPACE_PREPARING", "AGENT_RUNNING", "AGENT_FAILED",
   "AGENT_COMPLETED", "DETERMINISTIC_VALIDATION", "VALIDATION_FAILED",
   "REVIEWING", "REVIEW_REJECTED", "REWORK_REQUIRED"}

TransitionActor == {"ORCHESTRATOR", "PLANNER", "EXECUTOR", "REVIEWER", "HUMAN"}

-----------------------------------------------------------------------------
(* Mutants of the table: an approval leads straight into the review, a     *)
(* completed execution may skip the validation, a rejected one is prepared *)
(* again outside the rework cycle, and a spent budget leads nowhere.       *)
ApprovedIntoReview == UNION {
  {"NEW"} \X {"PLANNING"},
  {"PLANNING"} \X {"PLAN_VALIDATION"},
  {"PLAN_VALIDATION"} \X {"EXECUTION_WORKSPACE_PREPARING", "HUMAN_GATE_REQUIRED"},
  {"HUMAN_GATE_REQUIRED"} \X {"REVIEWING", "BLOCKED"}}
ValidationSkipped == UNION {
  {"EXECUTION_WORKSPACE_PREPARING"} \X {"AGENT_RUNNING"},
  {"AGENT_RUNNING"} \X {"AGENT_COMPLETED", "AGENT_FAILED"},
  {"AGENT_FAILED"} \X {"REWORK_REQUIRED"},
  {"AGENT_COMPLETED"} \X {"DETERMINISTIC_VALIDATION", "REVIEWING"},
  {"DETERMINISTIC_VALIDATION"} \X {"REVIEWING", "VALIDATION_FAILED"}}
RejectedRunsAgain == UNION {
  {"REVIEWING"} \X {"ACCEPTED", "REWORK_REQUIRED", "REVIEW_REJECTED"},
  {"REVIEW_REJECTED"} \X {"REWORK_REQUIRED", "EXECUTION_WORKSPACE_PREPARING"},
  {"REWORK_REQUIRED"} \X {"EXECUTION_WORKSPACE_PREPARING", "BUDGET_EXCEEDED"}}
NoBudgetExceeded == UNION {
  {"REVIEWING"} \X {"ACCEPTED", "REWORK_REQUIRED", "REVIEW_REJECTED"},
  {"REVIEW_REJECTED"} \X {"REWORK_REQUIRED", "BLOCKED"},
  {"REWORK_REQUIRED"} \X {"EXECUTION_WORKSPACE_PREPARING"}}

(* The table, in the source's order: planning, execution and review.       *)
PlanningMoves == UNION {
  {"NEW"} \X {"PLANNING"},
  {"PLANNING"} \X {"PLAN_VALIDATION", "BLOCKED", "TIMEOUT"},
  {"PLAN_VALIDATION"} \X {"EXECUTION_WORKSPACE_PREPARING", "HUMAN_GATE_REQUIRED",
                          "VALIDATION_FAILED", "POLICY_VIOLATION"},
  {"HUMAN_GATE_REQUIRED"} \X {"EXECUTION_WORKSPACE_PREPARING", "BLOCKED"}}

ExecutionMoves == UNION {
  {"EXECUTION_WORKSPACE_PREPARING"} \X {"AGENT_RUNNING", "POLICY_VIOLATION", "BLOCKED"},
  {"AGENT_RUNNING"} \X {"AGENT_COMPLETED", "AGENT_FAILED", "TIMEOUT", "POLICY_VIOLATION"},
  {"AGENT_FAILED"} \X {"REWORK_REQUIRED", "BLOCKED"},
  {"AGENT_COMPLETED"} \X {"DETERMINISTIC_VALIDATION"},
  {"DETERMINISTIC_VALIDATION"} \X {"REVIEWING", "VALIDATION_FAILED", "POLICY_VIOLATION"}}

ReviewMoves == UNION {
  {"REVIEWING"} \X {"ACCEPTED", "REWORK_REQUIRED", "REVIEW_REJECTED", "BLOCKED",
                    "HUMAN_GATE_REQUIRED"},
  {"REVIEW_REJECTED"} \X {"REWORK_REQUIRED", "BLOCKED"},
  {"REWORK_REQUIRED"} \X {"EXECUTION_WORKSPACE_PREPARING", "BUDGET_EXCEEDED"}}

(* Every row belongs to the orchestrator.                                  *)
Moves == PlanningMoves \cup ExecutionMoves \cup ReviewMoves

can_transition(from, to, actor) == <<from, to>> \in Moves /\ actor = "ORCHESTRATOR"

(* assert_transition: "ok", or which of its two ValueErrors it raises.     *)
assert_transition(from, to, actor) ==
  IF from \in TERMINAL_STATES THEN "is terminal"
  ELSE IF can_transition(from, to, actor) THEN "ok"
  ELSE "cannot transition"

-----------------------------------------------------------------------------
TypeOK ==
  /\ state \in AgentControlState
  /\ last \in [actor : TransitionActor,
               answer : {"none", "ok", "is terminal", "cannot transition"}]
  /\ validated \in BOOLEAN
  /\ plans \in 0..1
  /\ approvals \in 0..MaxApprovals
  /\ reworks \in 0..MaxRework
  /\ executions \in Nat

Init ==
  /\ state = "NEW"
  /\ last = [actor |-> "ORCHESTRATOR", answer |-> "none"]
  /\ validated = FALSE
  /\ plans = 0 /\ approvals = 0 /\ reworks = 0 /\ executions = 0

(* Mutant: one rework cycle too many.                                      *)
OneMore(to) ==
  to = "EXECUTION_WORKSPACE_PREPARING" =>
    /\ state = "REWORK_REQUIRED" => reworks <= MaxRework
    /\ state = "HUMAN_GATE_REQUIRED" => approvals < MaxApprovals

(* Within the budgets of the run.                                          *)
Affordable(to) ==
  to = "EXECUTION_WORKSPACE_PREPARING" =>
    /\ state = "REWORK_REQUIRED" => reworks < MaxRework
    /\ state = "HUMAN_GATE_REQUIRED" => approvals < MaxApprovals

(* The history variables follow the transitions that are taken.            *)
Remember(to) ==
  LET one(c) == IF c THEN 1 ELSE 0
      prepares(from) == one(state = from /\ to = "EXECUTION_WORKSPACE_PREPARING")
  IN  /\ validated' = CASE to = "AGENT_RUNNING" -> FALSE
                        [] state = "DETERMINISTIC_VALIDATION" -> to = "REVIEWING"
                        [] OTHER -> validated
      /\ plans' = plans + prepares("PLAN_VALIDATION")
      /\ approvals' = approvals + prepares("HUMAN_GATE_REQUIRED")
      /\ reworks' = reworks + prepares("REWORK_REQUIRED")
      /\ executions' = executions + one(to = "AGENT_RUNNING")

Transition(to, actor) ==
  /\ assert_transition(state, to, actor) = "ok"
  /\ Affordable(to)
  /\ state' = to
  /\ last' = [actor |-> actor, answer |-> "ok"]
  /\ Remember(to)

Refuse(to, actor) ==
  /\ assert_transition(state, to, actor) # "ok"
  /\ last' = [actor |-> actor, answer |-> assert_transition(state, to, actor)]
  /\ UNCHANGED <<state, history>>

Next == \E to \in AgentControlState, actor \in TransitionActor :
          Transition(to, actor) \/ Refuse(to, actor)

Advance == \E to \in AgentControlState : Transition(to, "ORCHESTRATOR")

Spec == Init /\ [][Next]_vars
FairSpec == Spec /\ WF_vars(Advance)

-----------------------------------------------------------------------------
(* "Acceptance: only if all required gates pass": what is accepted is what *)
(* the newest execution left behind, after deterministic validation let it *)
(* through, however many executions, reviews and approvals came before.    *)
AcceptedWasValidated == state = "ACCEPTED" => validated /\ executions > 0

(* Every execution is paid for by a plan that passed validation, a rework  *)
(* cycle or a human approval: no loop through the table starts an agent    *)
(* again for free.                                                         *)
ExecutionsAccounted == executions <= plans + reworks + approvals

(* With finite budgets a run that is driven on comes to an end and stays   *)
(* there.  VALIDATION_FAILED is an end too: no transition leaves it, though*)
(* TERMINAL_STATES does not list it.                                       *)
Ended == state \in TERMINAL_STATES \cup {"VALIDATION_FAILED"}
RunEnds == <>[]Ended

(* Why it does: before its end a run has a next transition, and within its *)
(* budgets, wherever it has spent them.                                    *)
NeverStuck == ~ Ended => \E to \in AgentControlState : <<state, to>> \in Moves /\ Affordable(to)

(* How many transitions can be to come.  A lap through execution,          *)
(* validation and review takes seven; what starts another one, a plan, a   *)
(* rework cycle or an approval, is spent.                                  *)
StageOf(s) ==
  CASE s = "NEW" -> 4
    [] s = "PLANNING" -> 3
    [] s \in {"PLAN_VALIDATION", "REVIEW_REJECTED"} -> 2
    [] s = "EXECUTION_WORKSPACE_PREPARING" -> 7
    [] s = "AGENT_RUNNING" -> 6
    [] s \in {"AGENT_COMPLETED", "AGENT_FAILED"} -> 5
    [] s = "DETERMINISTIC_VALIDATION" -> 4
    [] s = "REVIEWING" -> 3
    [] s \in {"HUMAN_GATE_REQUIRED", "REWORK_REQUIRED"} -> 1
    [] OTHER -> 0

MovesLeft ==
  StageOf(state)
  + 7 * ((1 - plans) + (MaxRework - reworks) + (MaxApprovals - approvals))

(* And every transition brings the run nearer to its end, through all      *)
(* cycles of the table: one that led back without being paid for would not.*)
EveryMoveCosts == [][state' # state => MovesLeft' < MovesLeft /\ MovesLeft' >= 0]_vars

(* The run implements the abstract life cycle: the detailed table has no   *)
(* path around the validation, the review or the pause.                    *)
PhaseOf(s) ==
  CASE s \in {"NEW", "PLANNING", "PLAN_VALIDATION"} -> "planning"
    [] s = "HUMAN_GATE_REQUIRED" -> "paused"
    [] s \in {"EXECUTION_WORKSPACE_PREPARING", "AGENT_RUNNING", "AGENT_FAILED",
              "AGENT_COMPLETED", "REWORK_REQUIRED"} -> "working"
    [] s = "DETERMINISTIC_VALIDATION" -> "submitted"
    [] s \in {"REVIEWING", "REVIEW_REJECTED"} -> "checked"
    [] s = "ACCEPTED" -> "accepted"
    [] OTHER -> "stopped"

L == INSTANCE Lifecycle WITH phase <- PhaseOf(state)
ImplementsLifecycle == L!Spec
=============================================================================
