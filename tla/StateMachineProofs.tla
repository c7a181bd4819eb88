------------------------- MODULE StateMachineProofs -------------------------
(***************************************************************************)
(* The promises of the control states, for every budget of rework cycles   *)
(* and approvals.  Nothing here depends on fairness.                       *)
(***************************************************************************)
EXTENDS StateMachine, TLAPS

(* Where the history variables stand in each state.  AcceptedWasValidated  *)
(* speaks of ACCEPTED only, but must be known a transition earlier, and    *)
(* ExecutionsAccounted is tight while an execution is being prepared.      *)
Planning == {"NEW", "PLANNING", "PLAN_VALIDATION"}
Executed == {"AGENT_RUNNING", "AGENT_FAILED", "AGENT_COMPLETED", "DETERMINISTIC_VALIDATION",
             "REVIEWING", "REVIEW_REJECTED", "REWORK_REQUIRED", "ACCEPTED"}

NoPlanYet == state \in Planning => plans = 0
HasExecuted == state \in Executed => executions > 0
ReviewedIsValidated == state \in {"REVIEWING", "ACCEPTED"} => validated
PaidInAdvance ==
  /\ ExecutionsAccounted
  /\ state = "EXECUTION_WORKSPACE_PREPARING" => executions < plans + reworks + approvals

IInv == TypeOK /\ NoPlanYet /\ HasExecuted /\ ReviewedIsValidated /\ PaidInAdvance

(* A machine starts in an initial state, with nothing counted.             *)
LEMMA InitIInv == Init => IInv
<1> SUFFICES ASSUME Init
             PROVE  IInv
  OBVIOUS
<1>1. TypeOK
  <2>1. plans \in 0..1 /\ approvals \in 0..MaxApprovals /\ reworks \in 0..MaxRework
    BY BudgetAssumption DEF Init
  <2>2. state \in AgentControlState
    BY DEF Init, AgentControlState
  <2>3. last \in [actor : TransitionActor,
                  answer : {"none", "ok", "is terminal", "cannot transition"}]
    BY DEF Init, TransitionActor
  <2> QED
    BY <2>1, <2>2, <2>3 DEF Init, TypeOK
<1>2. NoPlanYet /\ HasExecuted /\ ReviewedIsValidated
  BY DEF Init, NoPlanYet, HasExecuted, ReviewedIsValidated, Executed
<1>3. PaidInAdvance
  BY DEF Init, PaidInAdvance, ExecutionsAccounted
<1> QED
  BY <1>1, <1>2, <1>3 DEF IInv

(* A transition that is refused changes nothing the invariant is about.    *)
LEMMA RefuseIInv ==
  ASSUME NEW to \in AgentControlState, NEW actor \in TransitionActor, IInv, Refuse(to, actor)
  PROVE  IInv'
<1>1. TypeOK'
  BY DEF IInv, TypeOK, Refuse, assert_transition, history
<1>2. (NoPlanYet /\ HasExecuted /\ ReviewedIsValidated /\ PaidInAdvance)'
  BY DEF IInv, Refuse, history, NoPlanYet, HasExecuted, ReviewedIsValidated,
         PaidInAdvance, ExecutionsAccounted
<1> QED
  BY <1>1, <1>2 DEF IInv

(* A transition that is taken is a row of the table, asked for by the      *)
(* orchestrator, and does not start in a terminal state.                   *)
LEMMA TakenIsInTable ==
  ASSUME NEW to, NEW actor, Transition(to, actor)
  PROVE  <<state, to>> \in Moves /\ actor = "ORCHESTRATOR" /\ state \notin TERMINAL_STATES
BY DEF Transition, assert_transition, can_transition

(* What the table says of the moves the history depends on.                *)
LEMMA MoveFacts ==
  ASSUME NEW from, NEW to, <<from, to>> \in Moves
  PROVE  /\ to \in Planning => from \in Planning /\ from # "PLAN_VALIDATION"
         /\ to = "REVIEWING" => from = "DETERMINISTIC_VALIDATION"
         /\ to = "ACCEPTED" => from = "REVIEWING"
         /\ to = "AGENT_RUNNING" => from = "EXECUTION_WORKSPACE_PREPARING"
         /\ to \in Executed \ {"AGENT_RUNNING"} => from \in Executed
         /\ to = "EXECUTION_WORKSPACE_PREPARING" =>
              from \in {"PLAN_VALIDATION", "HUMAN_GATE_REQUIRED", "REWORK_REQUIRED"}
BY DEF Moves, PlanningMoves, ExecutionMoves, ReviewMoves, Planning, Executed

(* A transition that is taken counts what it should.                       *)
LEMMA TransitionIInv ==
  ASSUME NEW to \in AgentControlState, NEW actor \in TransitionActor, IInv, Transition(to, actor)
  PROVE  IInv'
<1> DEFINE P == "EXECUTION_WORKSPACE_PREPARING"
<1>0. /\ to \in Planning => state \in Planning /\ state # "PLAN_VALIDATION"
      /\ to = "REVIEWING" => state = "DETERMINISTIC_VALIDATION"
      /\ to = "ACCEPTED" => state = "REVIEWING"
      /\ to = "AGENT_RUNNING" => state = P
      /\ to \in Executed \ {"AGENT_RUNNING"} => state \in Executed
      /\ to = P => state \in {"PLAN_VALIDATION", "HUMAN_GATE_REQUIRED", "REWORK_REQUIRED"}
  BY TakenIsInTable, MoveFacts
<1>1. /\ state \in AgentControlState /\ validated \in BOOLEAN
      /\ plans \in 0..1 /\ approvals \in 0..MaxApprovals /\ reworks \in 0..MaxRework
      /\ executions \in Nat
  BY DEF IInv, TypeOK
<1>2. /\ state' = to
      /\ plans' = plans + (IF state = "PLAN_VALIDATION" /\ to = P THEN 1 ELSE 0)
      /\ approvals' = approvals + (IF state = "HUMAN_GATE_REQUIRED" /\ to = P THEN 1 ELSE 0)
      /\ reworks' = reworks + (IF state = "REWORK_REQUIRED" /\ to = P THEN 1 ELSE 0)
      /\ executions' = executions + (IF to = "AGENT_RUNNING" THEN 1 ELSE 0)
  BY DEF Transition, Remember
<1>3. TypeOK'
  <2>1. validated' \in BOOLEAN
    BY <1>1 DEF Transition, Remember
  <2>2. plans' \in 0..1
    BY <1>1, <1>2 DEF IInv, NoPlanYet, Planning
  <2>3. /\ state = "REWORK_REQUIRED" /\ to = P => reworks < MaxRework
        /\ state = "HUMAN_GATE_REQUIRED" /\ to = P => approvals < MaxApprovals
    BY DEF Transition, Affordable
  <2>4. approvals' \in 0..MaxApprovals /\ reworks' \in 0..MaxRework
    BY <1>1, <1>2, <2>3, BudgetAssumption
  <2>5. executions' \in Nat
    BY <1>1, <1>2
  <2>6. last' \in [actor : TransitionActor,
                   answer : {"none", "ok", "is terminal", "cannot transition"}]
    BY DEF Transition
  <2> QED
    BY <1>2, <2>1, <2>2, <2>4, <2>5, <2>6 DEF TypeOK
<1>4. NoPlanYet'
  <2>1. plans' = plans \/ (state = "PLAN_VALIDATION" /\ to = P)
    BY <1>1, <1>2
  <2> QED
    BY <1>0, <1>2, <2>1 DEF IInv, NoPlanYet, Planning
<1>5. HasExecuted'
  <2>1. to = "AGENT_RUNNING" => executions' > 0
    BY <1>1, <1>2
  <2>2. to \in Executed \ {"AGENT_RUNNING"} => executions' > 0
    BY <1>0, <1>1, <1>2 DEF IInv, HasExecuted
  <2> QED
    BY <1>2, <2>1, <2>2 DEF HasExecuted
<1>6. ReviewedIsValidated'
  BY <1>0, <1>2 DEF IInv, ReviewedIsValidated, Transition, Remember
<1>7. PaidInAdvance'
  BY <1>0, <1>1, <1>2, BudgetAssumption DEF IInv, PaidInAdvance, ExecutionsAccounted
<1> QED
  BY <1>3, <1>4, <1>5, <1>6, <1>7 DEF IInv

(* The invariant is inductive, for every budget.                           *)
THEOREM Inductive == Spec => []IInv
<1>1. IInv /\ [Next]_vars => IInv'
  <2>1. ASSUME IInv, UNCHANGED vars
        PROVE  IInv'
    BY <2>1 DEF IInv, TypeOK, NoPlanYet, HasExecuted, ReviewedIsValidated,
                PaidInAdvance, ExecutionsAccounted, vars
  <2> QED
    BY <2>1, TransitionIInv, RefuseIInv DEF Next
<1> QED
  BY <1>1, InitIInv, PTL DEF Spec

(* Type correctness; with it, the budgets are never overrun.               *)
THEOREM TypeCorrect == Spec => []TypeOK
<1>1. IInv => TypeOK
  BY DEF IInv
<1> QED
  BY <1>1, Inductive, PTL

(* AcceptedWasValidated for every budget: an accepted run's newest         *)
(* execution went through deterministic validation.                        *)
THEOREM AcceptanceIsValidated == Spec => []AcceptedWasValidated
<1>1. IInv => AcceptedWasValidated
  BY DEF IInv, HasExecuted, ReviewedIsValidated, AcceptedWasValidated, Executed
<1> QED
  BY <1>1, Inductive, PTL

(* ExecutionsAccounted for every budget; with TypeCorrect, an agent is     *)
(* started at most 1 + MaxRework + MaxApprovals times.                     *)
THEOREM ExecutionsArePaidFor == Spec => []ExecutionsAccounted
<1>1. IInv => ExecutionsAccounted
  BY DEF IInv, PaidInAdvance
<1> QED
  BY <1>1, Inductive, PTL

-----------------------------------------------------------------------------
(* "Terminal states are immutable": no step leaves one, whoever asks.      *)
THEOREM TerminalIsFinal == Spec => [][(state \in TERMINAL_STATES) => (state' = state)]_vars
<1>1. [Next]_vars => [(state \in TERMINAL_STATES) => (state' = state)]_vars
  BY TakenIsInTable DEF Next, Refuse, vars
<1> QED
  BY <1>1, PTL DEF Spec

-----------------------------------------------------------------------------
(* Along a row of the table the stage sinks, unless a plan, an approval or *)
(* a rework cycle starts a new lap.                                        *)
LEMMA MoveSinks ==
  ASSUME NEW from, NEW to, <<from, to>> \in Moves
  PROVE  IF to = "EXECUTION_WORKSPACE_PREPARING"
         THEN from \in {"PLAN_VALIDATION", "HUMAN_GATE_REQUIRED", "REWORK_REQUIRED"}
         ELSE StageOf(to) < StageOf(from)
BY DEF Moves, PlanningMoves, ExecutionMoves, ReviewMoves, TERMINAL_STATES, StageOf

(* Stages are small numbers.                                               *)
LEMMA StageType ==
  ASSUME NEW s
  PROVE  StageOf(s) \in 0..7
BY DEF StageOf

(* EveryMoveCosts for every budget: at most                                *)
(* 4 + 7 * (1 + MaxRework + MaxApprovals) transitions make a run.          *)
THEOREM RunsAreBounded == Spec => EveryMoveCosts
<1>1. IInv /\ [Next]_vars => [state' # state => MovesLeft' < MovesLeft /\ MovesLeft' >= 0]_vars
  <2>1. ASSUME IInv, NEW to \in AgentControlState, NEW actor \in TransitionActor,
               Transition(to, actor)
        PROVE  MovesLeft' < MovesLeft /\ MovesLeft' >= 0
    <3> DEFINE P == "EXECUTION_WORKSPACE_PREPARING"
               Laps == (1 - plans) + (MaxRework - reworks) + (MaxApprovals - approvals)
    <3>0. IInv'
      BY <2>1, TransitionIInv
    <3>1. /\ plans \in 0..1 /\ approvals \in 0..MaxApprovals /\ reworks \in 0..MaxRework
          /\ plans' \in 0..1 /\ approvals' \in 0..MaxApprovals /\ reworks' \in 0..MaxRework
          /\ MaxRework \in Nat /\ MaxApprovals \in Nat
      BY <2>1, <3>0, BudgetAssumption DEF IInv, TypeOK
    <3>2. StageOf(state) \in 0..7 /\ StageOf(to) \in 0..7 /\ state' = to
      BY <2>1, StageType DEF Transition
    <3>3. /\ plans' = plans + (IF state = "PLAN_VALIDATION" /\ to = P THEN 1 ELSE 0)
          /\ approvals' = approvals + (IF state = "HUMAN_GATE_REQUIRED" /\ to = P THEN 1 ELSE 0)
          /\ reworks' = reworks + (IF state = "REWORK_REQUIRED" /\ to = P THEN 1 ELSE 0)
      BY <2>1 DEF Transition, Remember
    <3>4. CASE to = P
      <4>1. state \in {"PLAN_VALIDATION", "HUMAN_GATE_REQUIRED", "REWORK_REQUIRED"}
        BY <2>1, <3>4, TakenIsInTable, MoveSinks
      <4>2. Laps' = Laps - 1 /\ Laps' \in Nat
        BY <3>1, <3>4, <3>3, <4>1
      <4>3. StageOf(to) = 7 /\ StageOf(state) > 0
        BY <3>4, <4>1 DEF StageOf
      <4>4. MovesLeft = StageOf(state) + 7 * Laps /\ MovesLeft' = StageOf(to) + 7 * Laps'
        BY <3>2 DEF MovesLeft
      <4>5. Laps \in Nat
        BY <3>1
      <4> HIDE DEF Laps
      <4> QED
        BY <3>2, <4>2, <4>3, <4>4, <4>5
    <3>5. CASE to # P
      <4>1. StageOf(to) < StageOf(state)
        BY <2>1, <3>5, TakenIsInTable, MoveSinks
      <4>2. UNCHANGED <<plans, approvals, reworks>>
        BY <3>1, <3>5, <3>3
      <4> QED
        BY <3>1, <3>2, <4>1, <4>2 DEF MovesLeft
    <3> QED
      BY <3>4, <3>5
  <2>2. ASSUME NEW to \in AgentControlState, NEW actor \in TransitionActor,
               Refuse(to, actor)
        PROVE  state' = state
    BY <2>2 DEF Refuse
  <2> QED
    BY <2>1, <2>2 DEF Next, vars
<1> QED
  BY <1>1, Inductive, PTL DEF Spec, EveryMoveCosts

(* NeverStuck for every budget: each state the run can still leave has a   *)
(* row that starts no execution, so that no budget is asked for.           *)
THEOREM AMoveIsOpen == Spec => []NeverStuck
<1>1. ASSUME NEW from \in AgentControlState \ (TERMINAL_STATES \cup {"VALIDATION_FAILED"})
      PROVE  \E to \in AgentControlState \ {"EXECUTION_WORKSPACE_PREPARING"} :
               <<from, to>> \in Moves
  <2>1. from \in {"NEW", "PLANNING", "PLAN_VALIDATION", "HUMAN_GATE_REQUIRED",
                  "EXECUTION_WORKSPACE_PREPARING", "AGENT_RUNNING", "AGENT_FAILED",
                  "AGENT_COMPLETED", "DETERMINISTIC_VALIDATION",
                  "REVIEWING", "REVIEW_REJECTED", "REWORK_REQUIRED"}
    BY DEF AgentControlState
  <2>2. CASE from \in {"NEW", "PLANNING", "PLAN_VALIDATION", "HUMAN_GATE_REQUIRED"}
    BY <2>2 DEF Moves, PlanningMoves, AgentControlState, TERMINAL_STATES
  <2>3. CASE from \in {"EXECUTION_WORKSPACE_PREPARING", "AGENT_RUNNING", "AGENT_FAILED",
                       "AGENT_COMPLETED", "DETERMINISTIC_VALIDATION"}
    BY <2>3 DEF Moves, ExecutionMoves, AgentControlState, TERMINAL_STATES
  <2>4. CASE from \in {"REVIEWING", "REVIEW_REJECTED", "REWORK_REQUIRED"}
    BY <2>4 DEF Moves, ReviewMoves, AgentControlState, TERMINAL_STATES
  <2> QED
    BY <2>1, <2>2, <2>3, <2>4
<1>2. IInv => NeverStuck
  BY <1>1 DEF IInv, TypeOK, NeverStuck, Ended, Affordable
<1> QED
  BY <1>2, Inductive, PTL

-----------------------------------------------------------------------------
(* The table implements the abstract life cycle: every transition of the   *)
(* run maps to a step of Lifecycle or leaves the phase as it is.           *)
THEOREM Refinement == Spec => ImplementsLifecycle
<1>1. Init => L!Init
  BY DEF Init, L!Init, PhaseOf
<1>2. [Next]_vars => [L!Next]_(PhaseOf(state))
  <2>1. ASSUME NEW to \in AgentControlState, NEW actor \in TransitionActor,
               Transition(to, actor)
        PROVE  L!Next \/ UNCHANGED PhaseOf(state)
    <3>1. state' = to /\ <<state, to>> \in Moves
      BY <2>1, TakenIsInTable DEF Transition
    <3> QED
      BY <3>1 DEF Moves, PlanningMoves, ExecutionMoves, ReviewMoves, PhaseOf, TERMINAL_STATES,
                  L!Next, L!Move, L!Clear, L!Pause, L!Submit, L!Check, L!Redo,
                  L!Accept, L!Stop
  <2>2. ASSUME UNCHANGED state
        PROVE  UNCHANGED PhaseOf(state)
    BY <2>2
  <2> QED
    BY <2>1, <2>2 DEF Next, Refuse, vars
<1> QED
  BY <1>1, <1>2, PTL DEF Spec, ImplementsLifecycle, L!Spec
=============================================================================
