-------------------------- MODULE GateRunnerProofs --------------------------
(***************************************************************************)
(* The promises of the gate runner, for any number of gates and of runs,   *)
(* whatever the checks return, raise or register.                          *)
(***************************************************************************)
EXTENDS GateRunner, FiniteSetTheorems, SequenceTheorems, TLAPS

(* VerdictExact speaks of runs that returned; between the gates it rests   *)
(* on what the loop has recorded so far: a blocking failure is never       *)
(* without a record, and a required gate that raised under fail-closed     *)
(* has failed.  The summary then tells the record of the run it ends.      *)
FailuresRecorded ==
  \A i \in 1..Len(results) :
    Blocks(results[i].status, gates[i].required) => failed_required # <<>>
RaisedBlocks ==
  \A i \in 1..Len(results) :
    fail_closed /\ gates[i].required /\ results[i].raised => results[i].status = "FAIL"
SummaryTold ==
  Returned => /\ summary.total = Len(results)
              /\ summary.verdict = "ACCEPT" <=> failed_required = <<>>

IInv == TypeOK /\ FailuresNamed /\ FailuresRecorded /\ RaisedBlocks /\ SummaryTold

(* No gate has run.                                                        *)
LEMMA InitIInv == Init => IInv
<1> SUFFICES ASSUME Init
             PROVE  IInv
  OBVIOUS
<1>1. TypeOK
  BY GateAssumption DEF Init, TypeOK
<1>2. FailuresNamed /\ FailuresRecorded /\ RaisedBlocks /\ SummaryTold
  BY DEF Init, FailuresNamed, FailuresRecorded, RaisedBlocks, SummaryTold, Returned
<1> QED
  BY <1>1, <1>2 DEF IInv

(* A gate is appended: the gates of the results so far stay what they are. *)
LEMMA AddGateIInv ==
  ASSUME NEW name \in Name, NEW required \in BOOLEAN, IInv, add_gate(name, required)
  PROVE  IInv'
<1> DEFINE gate == [name |-> name, required |-> required]
<1>1. /\ gates \in Seq([name : Name, required : BOOLEAN]) /\ Len(gates) < MaxGates
      /\ results \in Seq([status : GateStatus, raised : BOOLEAN]) /\ Len(results) <= Len(gates)
  BY DEF IInv, TypeOK, add_gate
<1>2. gate \in [name : Name, required : BOOLEAN]
  OBVIOUS
<1>3. gates' = Append(gates, gate)
  BY DEF add_gate
<1> HIDE DEF gate
<1>4. /\ gates' \in Seq([name : Name, required : BOOLEAN]) /\ Len(gates') = Len(gates) + 1
      /\ \A i \in 1..Len(results) : gates'[i] = gates[i]
  BY <1>1, <1>2, <1>3
<1>5. TypeOK'
  BY <1>1, <1>4, GateAssumption DEF IInv, TypeOK, add_gate
<1>6. FailuresNamed'
  BY <1>4 DEF IInv, FailuresNamed, add_gate
<1>7. (FailuresRecorded /\ RaisedBlocks /\ SummaryTold)'
  BY <1>4 DEF IInv, FailuresRecorded, RaisedBlocks, SummaryTold, Returned, add_gate
<1> QED
  BY <1>5, <1>6, <1>7 DEF IInv

(* A run starts from an empty record.                                      *)
LEMMA RunBeginIInv ==
  ASSUME IInv, RunBegin
  PROVE  IInv'
<1>1. TypeOK'
  BY GateAssumption DEF IInv, TypeOK, RunBegin
<1>2. (FailuresNamed /\ FailuresRecorded /\ RaisedBlocks /\ SummaryTold)'
  BY DEF RunBegin, FailuresNamed, FailuresRecorded, RaisedBlocks, SummaryTold, Returned
<1> QED
  BY <1>1, <1>2 DEF IInv

(* One more result, of a check that returned or raised: it is recorded     *)
(* under its gate's name exactly when it blocks.                           *)
LEMMA FinishIInv ==
  ASSUME IInv, Running, Len(results) < Len(gates),
         NEW status \in GateStatus, NEW raised \in BOOLEAN,
         raised => status = StatusOfRaise(gates[Len(results) + 1].required),
         Finish(status, raised)
  PROVE  IInv'
<1> DEFINE n == Len(results) + 1
           gate == gates[n]
           result == [status |-> status, raised |-> raised]
<1>1. /\ gates \in Seq([name : Name, required : BOOLEAN]) /\ Len(gates) <= MaxGates
      /\ results \in Seq([status : GateStatus, raised : BOOLEAN]) /\ Len(results) < Len(gates)
      /\ failed_required \in Seq(Name)
  BY DEF IInv, TypeOK
<1>2. n \in 1..Len(gates) /\ gate \in [name : Name, required : BOOLEAN]
  <2>1. n \in 1..Len(gates)
    BY <1>1
  <2> HIDE DEF n
  <2> QED
    BY <1>1, <2>1, ElementOfSeq
<1>3. result \in [status : GateStatus, raised : BOOLEAN]
  OBVIOUS
<1>4. /\ gates' = gates /\ fail_closed' = fail_closed /\ summary' = summary /\ runs' = runs
      /\ results' = Append(results, result)
      /\ failed_required' = IF Blocks(status, gate.required)
                            THEN Append(failed_required, gate.name) ELSE failed_required
  BY DEF Finish
<1>5. result.status = status /\ result.raised = raised
  OBVIOUS
<1> HIDE DEF result
<1>6. /\ results' \in Seq([status : GateStatus, raised : BOOLEAN]) /\ Len(results') = n
      /\ \A i \in 1..Len(results) : results'[i] = results[i]
      /\ results'[n] = result
  BY <1>1, <1>3, <1>4
<1>7. 1..Len(results') = 1..Len(results) \cup {n} /\ n \in 1..Len(results')
  BY <1>1, <1>6
<1> HIDE DEF n, gate
<1>8. failed_required' \in Seq(Name)
  BY <1>1, <1>2, <1>4
<1>9. TypeOK'
  BY <1>1, <1>2, <1>4, <1>6, <1>8 DEF IInv, TypeOK, n
<1>10. FailuresNamed'
  <2>1. \A j \in 1..Len(failed_required) :
          /\ failed_required'[j] = failed_required[j]
          /\ \E i \in 1..Len(results') :
               /\ gates'[i] = [name |-> failed_required[j], required |-> TRUE]
               /\ results'[i].status = "FAIL"
    BY <1>1, <1>2, <1>4, <1>6, <1>7 DEF IInv, FailuresNamed
  <2>2. CASE Blocks(status, gate.required)
    <3>1. /\ Len(failed_required') = Len(failed_required) + 1
          /\ failed_required'[Len(failed_required) + 1] = gate.name
      BY <1>1, <1>2, <1>4, <2>2
    <3>2. gates'[n] = [name |-> gate.name, required |-> TRUE] /\ results'[n].status = "FAIL"
      BY <1>2, <1>4, <1>5, <1>6, <2>2 DEF Blocks, gate
    <3>3. \A j \in 1..Len(failed_required') :
            j \in 1..Len(failed_required) \/ j = Len(failed_required) + 1
      BY <1>1, <3>1
    <3> QED
      BY <1>7, <2>1, <3>1, <3>2, <3>3 DEF FailuresNamed
  <2>3. CASE ~ Blocks(status, gate.required)
    BY <1>4, <2>1, <2>3 DEF FailuresNamed
  <2> QED
    BY <2>2, <2>3
<1>11. FailuresRecorded'
  <2>1. failed_required # <<>> => failed_required' # <<>>
    BY <1>1, <1>2, <1>4
  <2>2. Blocks(status, gate.required) => failed_required' # <<>>
    BY <1>1, <1>2, <1>4
  <2> QED
    BY <1>4, <1>5, <1>6, <1>7, <2>1, <2>2 DEF IInv, FailuresRecorded, gate
<1>12. RaisedBlocks'
  <2>1. raised => status = StatusOfRaise(gate.required)
    BY DEF gate, n
  <2> QED
    BY <1>4, <1>5, <1>6, <1>7, <2>1 DEF IInv, RaisedBlocks, StatusOfRaise, gate
<1>13. SummaryTold'
  BY <1>4 DEF Running, SummaryTold, Returned
<1> QED
  BY <1>9, <1>10, <1>11, <1>12, <1>13 DEF IInv

(* A check that returns is counted by its status.                          *)
LEMMA CheckReturnsIInv ==
  ASSUME IInv, NEW status \in GateStatus, CheckReturns(status)
  PROVE  IInv'
BY FinishIInv DEF CheckReturns

(* A check that raises has failed or was skipped.                          *)
LEMMA CheckRaisesIInv ==
  ASSUME IInv, CheckRaises
  PROVE  IInv'
<1> DEFINE required == gates[Len(results) + 1].required
<1>1. StatusOfRaise(required) \in GateStatus
  BY DEF StatusOfRaise, GateStatus
<1>2. Running /\ Len(results) < Len(gates) /\ Finish(StatusOfRaise(required), TRUE)
  BY DEF CheckRaises
<1> QED
  BY <1>1, <1>2, FinishIInv

(* A run that raises returns no summary.                                   *)
LEMMA CheckEscapesIInv ==
  ASSUME IInv, CheckEscapes
  PROVE  IInv'
<1>1. TypeOK'
  BY DEF IInv, TypeOK, CheckEscapes
<1>2. (FailuresNamed /\ FailuresRecorded /\ RaisedBlocks /\ SummaryTold)'
  BY DEF IInv, FailuresNamed, FailuresRecorded, RaisedBlocks, SummaryTold, Returned, CheckEscapes
<1> QED
  BY <1>1, <1>2 DEF IInv

(* The counters of a summary are numbers, for results of any length.       *)
LEMMA CountType ==
  ASSUME results \in Seq([status : GateStatus, raised : BOOLEAN])
  PROVE  \A status : CountOf(status) \in Nat
<1> DEFINE All == 1..Len(results)
           With(status) == {i \in All : results[i].status = status}
<1>1. IsFiniteSet(All)
  <2>1. Len(results) \in Nat
    OBVIOUS
  <2> QED
    BY <2>1, FS_Interval
<1>2. ASSUME NEW status
      PROVE  CountOf(status) \in Nat
  <2>1. With(status) \in SUBSET All /\ CountOf(status) = Cardinality(With(status))
    BY DEF CountOf, Quantify
  <2> HIDE DEF With
  <2> QED
    BY <1>1, <2>1, FS_Subset, FS_CardinalityType
<1> QED
  BY <1>2

(* The summary is drawn up from what was recorded.                         *)
LEMMA RunEndIInv ==
  ASSUME IInv, RunEnd
  PROVE  IInv'
<1>1. /\ \A status \in GateStatus : CountOf(status) \in Nat
      /\ Len(results) \in Nat
  BY CountType DEF IInv, TypeOK
<1>2. CountOf("PASS") \in Nat /\ CountOf("FAIL") \in Nat /\ CountOf("SKIP") \in Nat
  BY <1>1 DEF GateStatus
<1>3. TypeOK'
  BY <1>1, <1>2 DEF IInv, TypeOK, RunEnd
<1>4. (FailuresNamed /\ FailuresRecorded /\ RaisedBlocks)'
  BY DEF IInv, FailuresNamed, FailuresRecorded, RaisedBlocks, RunEnd
<1>5. SummaryTold'
  BY DEF SummaryTold, RunEnd
<1> QED
  BY <1>3, <1>4, <1>5 DEF IInv

(* Every step keeps the invariant.                                         *)
LEMMA NextIInv ==
  ASSUME IInv, [Next]_vars
  PROVE  IInv'
<1>1. CASE \E name \in Name, required \in BOOLEAN : add_gate(name, required)
  BY <1>1, AddGateIInv
<1>2. CASE RunBegin
  BY <1>2, RunBeginIInv
<1>3. CASE RunLoop
  BY <1>3, CheckRaisesIInv, CheckReturnsIInv, CheckEscapesIInv, RunEndIInv DEF RunLoop
<1>4. CASE UNCHANGED vars
  BY <1>4 DEF vars, IInv, TypeOK, FailuresNamed, FailuresRecorded, RaisedBlocks, SummaryTold,
              Returned
<1> QED
  BY <1>1, <1>2, <1>3, <1>4 DEF Next

(* The invariant is inductive, for any number of gates and runs.           *)
THEOREM Inductive == Spec => []IInv
<1> QED
  BY InitIInv, NextIInv, PTL DEF Spec

(* However many gates are registered and runs started, the lists the       *)
(* runner keeps are as long as they may be and its summary is a summary.   *)
THEOREM TypeCorrect == Spec => []TypeOK
<1>1. IInv => TypeOK
  BY DEF IInv
<1> QED
  BY <1>1, Inductive, PTL

(* A run accepts if and only if none of its required gates failed, or      *)
(* raised under fail-closed, and names only failures of its own: for every *)
(* number of gates, also those the checks register, and of earlier runs.   *)
THEOREM VerdictIsExact == Spec => []VerdictExact
<1>1. IInv => VerdictExact
  <2> SUFFICES ASSUME IInv, Returned
               PROVE  summary.verdict = "ACCEPT" <=>
                        \A i \in 1..summary.total :
                          gates[i].required => /\ results[i].status # "FAIL"
                                               /\ ~ (fail_closed /\ results[i].raised)
    BY DEF VerdictExact, IInv
  <2>1. summary.total = Len(results) /\ (summary.verdict = "ACCEPT" <=> failed_required = <<>>)
    BY DEF IInv, SummaryTold
  <2>2. CASE failed_required = <<>>
    <3>1. \A i \in 1..Len(results) : ~ (results[i].status = "FAIL" /\ gates[i].required)
      BY <2>2 DEF IInv, FailuresRecorded, Blocks
    <3> QED
      BY <2>1, <2>2, <3>1 DEF IInv, RaisedBlocks
  <2>3. CASE failed_required # <<>>
    <3>1. 1 \in 1..Len(failed_required)
      BY <2>3 DEF IInv, TypeOK
    <3>2. PICK i \in 1..Len(results) :
            /\ gates[i] = [name |-> failed_required[1], required |-> TRUE]
            /\ results[i].status = "FAIL"
      BY <3>1 DEF IInv, FailuresNamed
    <3>3. gates[i].required
      BY <3>2
    <3> QED
      BY <2>1, <2>3, <3>2, <3>3
  <2> QED
    BY <2>2, <2>3
<1> QED
  BY <1>1, Inductive, PTL

=============================================================================
