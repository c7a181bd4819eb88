----------------------------- MODULE TaskIntake -----------------------------
(***************************************************************************)
(* A task document on its way in, beside a TaskSpec in use.  The package   *)
(* connects the two by nothing but the functions they share, so that what  *)
(* holds of either does not depend on the steps of the other, and each is  *)
(* run by itself, while the other stays where it began.                    *)
(***************************************************************************)
EXTENDS AccessControl, ContractReference

VARIABLE atWork   \* "access" or "admission"

FirstCase == payload = Cases[1].payload /\ schema = Cases[1].schema /\ policy = Policies[1]

IntakeInit ==
  \/ atWork = "access" /\ FirstCase /\ AdmissionInit /\ Init
  \/ atWork = "admission" /\ task = (CHOOSE t \in Tasks : TRUE) /\ Init /\ AdmissionInit

IntakeNext ==
  \/ atWork = "access" /\ Next /\ UNCHANGED <<admissionVars, atWork>>
  \/ atWork = "admission" /\ AdmissionNext /\ UNCHANGED <<vars, atWork>>

IntakeSpec == IntakeInit /\ [][IntakeNext]_<<vars, admissionVars, atWork>>
=============================================================================
