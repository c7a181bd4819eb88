--------------------------- MODULE EvidenceBundle ---------------------------
(***************************************************************************)
(* The artifacts and the manifest of a bundle beside one of its streams.   *)
(* They have no state in common - to a manifest a stream is one more file, *)
(* which AppendEvent stands for - so that what holds of either does not    *)
(* depend on the steps of the other, and each is run by itself.            *)
(***************************************************************************)
EXTENDS Evidence, EventStream

VARIABLE atWork   \* "artifacts" or "stream"

BundleInit == Init /\ StreamInit /\ atWork \in {"artifacts", "stream"}

BundleNext ==
  \/ atWork = "artifacts" /\ Next /\ UNCHANGED <<streamVars, atWork>>
  \/ atWork = "stream" /\ StreamNext /\ UNCHANGED <<vars, atWork>>

BundleSpec ==
  /\ BundleInit /\ [][BundleNext]_<<vars, streamVars, atWork>>
  /\ \A p \in Proc : WF_vars(Proceed(p))
=============================================================================
