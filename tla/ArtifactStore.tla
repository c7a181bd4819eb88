--------------------------- MODULE ArtifactStore ---------------------------
(***************************************************************************)
(* What writing an artifact atomically promises: a write that was asked    *)
(* for either takes effect as a whole, at one moment, or is abandoned and  *)
(* leaves the store as it was.                                             *)
(***************************************************************************)
CONSTANTS Proc, Name, Value, Absent, NoRequest

VARIABLES
  store,      \* the value each name holds
  request     \* the write each process has under way

Init ==
  /\ store = [n \in Name |-> Absent]
  /\ request = [p \in Proc |-> NoRequest]

Ask(p, n, v) ==
  /\ request[p] = NoRequest
  /\ request' = [request EXCEPT ![p] = [name |-> n, value |-> v]]
  /\ UNCHANGED store

Commit(p) ==
  /\ request[p] # NoRequest
  /\ store' = [store EXCEPT ![request[p].name] = request[p].value]
  /\ request' = [request EXCEPT ![p] = NoRequest]

(* Processes that die take their requests with them.                       *)
Abandon(dead) ==
  /\ request' = [p \in Proc |-> IF p \in dead THEN NoRequest ELSE request[p]]
  /\ UNCHANGED store

Next ==
  \/ \E p \in Proc : Commit(p) \/ \E n \in Name, v \in Value : Ask(p, n, v)
  \/ \E dead \in SUBSET Proc : Abandon(dead)

Spec == Init /\ [][Next]_<<store, request>>
=============================================================================
