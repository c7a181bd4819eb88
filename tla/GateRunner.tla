----------------------------- MODULE GateRunner -----------------------------
(***************************************************************************)
(* gate_runner.py: named gates are registered, run in order, and summed up *)
(* in one verdict.  A check is a callback: it returns a status, raises, or *)
(* registers further gates before it does either.  The loop iterates over  *)
(* the live list, so a gate registered by a check is run too, and checks   *)
(* that go on registering keep it from its end: only MaxGates ends them.   *)
(***************************************************************************)
EXTENDS Naturals, Sequences, FiniteSetsExt

CONSTANTS
  Name,        \* gate names; one name may be registered more than once
  MaxGates,    \* bound on the gates registered; the code has none
  MaxRuns      \* bound on the runs

ASSUME GateAssumption == MaxGates \in Nat /\ MaxRuns \in Nat

VARIABLES
  fail_closed,      \* the constructor's argument
  gates,            \* what add_gate registered, in order
  results,          \* per gate of this run: its status, and whether it raised
  failed_required,  \* the names recorded by this run, in order
  summary,          \* the GateRunnerResult run returned, NoSummary or Escaped
  runs              \* runs started so far

vars == <<fail_closed, gates, results, failed_required, summary, runs>>

GateStatus == {"PASS", "FAIL", "SKIP"}
NoSummary == [verdict |-> "none"]
Escaped == [verdict |-> "raised"]   \* the run has raised instead
Running == runs > 0 /\ summary = NoSummary
Returned == summary \notin {NoSummary, Escaped}

TypeOK ==
  /\ fail_closed \in BOOLEAN
  /\ gates \in Seq([name : Name, required : BOOLEAN]) /\ Len(gates) <= MaxGates
  /\ results \in Seq([status : GateStatus, raised : BOOLEAN]) /\ Len(results) <= Len(gates)
  /\ failed_required \in Seq(Name)
  /\ \/ summary \in {NoSummary, Escaped}
     \/ summary \in [verdict : {"ACCEPT", "REJECT"}, total : Nat,
                     passed : Nat, failed : Nat, skipped : Nat]
  /\ runs \in 0..MaxRuns

Init ==
  /\ fail_closed \in BOOLEAN
  /\ gates = <<>> /\ results = <<>> /\ failed_required = <<>>
  /\ summary = NoSummary
  /\ runs = 0

-----------------------------------------------------------------------------
add_gate(name, required) ==
  /\ Len(gates) < MaxGates
  /\ gates' = Append(gates, [name |-> name, required |-> required])
  /\ UNCHANGED <<fail_closed, results, failed_required, summary, runs>>

(* Mutant: the failures of the last run are kept.                          *)
FailuresKept ==
  /\ ~ Running
  /\ runs < MaxRuns
  /\ runs' = runs + 1
  /\ results' = <<>>
  /\ summary' = NoSummary
  /\ UNCHANGED <<fail_closed, gates, failed_required>>

RunBegin ==
  /\ ~ Running
  /\ runs < MaxRuns
  /\ runs' = runs + 1
  /\ results' = <<>> /\ failed_required' = <<>>
  /\ summary' = NoSummary
  /\ UNCHANGED <<fail_closed, gates>>

(* A required gate that raises fails, if the runner is fail-closed; any    *)
(* other that raises is skipped.                                           *)
StatusOfRaise(required) == IF fail_closed /\ required THEN "FAIL" ELSE "SKIP"

Blocks(status, required) == status = "FAIL" /\ required

(* Mutant: the whole registration is recorded, not its name.               *)
FinishWithGate(status, raised) ==
  LET gate == gates[Len(results) + 1]
  IN  /\ results' = Append(results, [status |-> status, raised |-> raised])
      /\ failed_required' = IF Blocks(status, gate.required)
                            THEN Append(failed_required, gate) ELSE failed_required
      /\ UNCHANGED <<fail_closed, gates, summary, runs>>

Finish(status, raised) ==
  LET gate == gates[Len(results) + 1]
  IN  /\ results' = Append(results, [status |-> status, raised |-> raised])
      /\ failed_required' = IF Blocks(status, gate.required)
                            THEN Append(failed_required, gate.name) ELSE failed_required
      /\ UNCHANGED <<fail_closed, gates, summary, runs>>

CheckReturns(status) ==
  /\ Running /\ Len(results) < Len(gates)
  /\ Finish(status, FALSE)

CheckRaises ==
  /\ Running /\ Len(results) < Len(gates)
  /\ Finish(StatusOfRaise(gates[Len(results) + 1].required), TRUE)

(* What the loop catches is an Exception of the check itself.  A check that*)
(* exits, or answers with what has no status, raises out of the run.       *)
CheckEscapes ==
  /\ Running /\ Len(results) < Len(gates)
  /\ summary' = Escaped
  /\ UNCHANGED <<fail_closed, gates, results, failed_required, runs>>

CountOf(status) == Quantify(1..Len(results), LAMBDA i : results[i].status = status)

RunEnd ==
  /\ Running /\ Len(results) = Len(gates)
  /\ summary' = [verdict |-> IF failed_required = <<>> THEN "ACCEPT" ELSE "REJECT",
                 total |-> Len(results), passed |-> CountOf("PASS"),
                 failed |-> CountOf("FAIL"), skipped |-> CountOf("SKIP")]
  /\ UNCHANGED <<fail_closed, gates, results, failed_required, runs>>

RunLoop ==
  CheckRaises \/ CheckEscapes \/ RunEnd \/ \E status \in GateStatus : CheckReturns(status)

Next ==
  \/ \E name \in Name, required \in BOOLEAN : add_gate(name, required)
  \/ RunBegin
  \/ RunLoop

Spec == Init /\ [][Next]_vars

-----------------------------------------------------------------------------
(* The names a rejected run reports are those of required gates of this    *)
(* very run: none is left over from an earlier run, none is optional.      *)
FailuresNamed ==
  \A j \in 1..Len(failed_required) :
    \E i \in 1..Len(results) :
      gates[i] = [name |-> failed_required[j], required |-> TRUE] /\ results[i].status = "FAIL"

(* "A single gate failure blocks acceptance", and only that: whatever ran  *)
(* before, in this run or an earlier one, a run accepts if and only if     *)
(* none of its required gates failed, or raised under fail-closed; one     *)
(* that answered SKIP does not count against it, which is less than the    *)
(* documentation asks (AcceptedGatesPassed).  And the failures it reports  *)
(* are its own.                                                            *)
VerdictExact ==
  /\ FailuresNamed
  /\ Returned =>
       (summary.verdict = "ACCEPT" <=>
          \A i \in 1..summary.total :
            gates[i].required => /\ results[i].status # "FAIL"
                                 /\ ~ (fail_closed /\ results[i].raised))

-----------------------------------------------------------------------------
(* A statement of the sources that the code does not keep: "Acceptance     *)
(* [...] (only if ALL required gates pass)".                               *)
AcceptedGatesPassed ==
  Returned /\ summary.verdict = "ACCEPT" =>
    \A i \in 1..summary.total : gates[i].required => results[i].status = "PASS"
=============================================================================
