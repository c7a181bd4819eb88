----------------------------- MODULE Lifecycle -----------------------------
(***************************************************************************)
(* What the control states promise of one governed run, without their      *)
(* detail: agents work only after the plan was cleared, work is accepted   *)
(* only after it was submitted and checked, a pause for a human ends in    *)
(* new work or in the end of the run, and an ended run stays as it is.     *)
(***************************************************************************)
VARIABLE phase

Init == phase = "planning"

Move(from, to) == phase \in from /\ phase' \in to

Clear  == Move({"planning", "paused"}, {"working"})
Pause  == Move({"planning", "checked"}, {"paused"})
Submit == Move({"working"}, {"submitted"})
Check  == Move({"submitted"}, {"checked"})
Redo   == Move({"checked"}, {"working"})
Accept == Move({"checked"}, {"accepted"})
Stop   == Move({"planning", "working", "submitted", "checked", "paused"}, {"stopped"})

Next == Clear \/ Pause \/ Submit \/ Check \/ Redo \/ Accept \/ Stop

Spec == Init /\ [][Next]_phase
=============================================================================
