------------------------------ MODULE Adapters ------------------------------
(***************************************************************************)
(* agent_adapters: ClaudeAdapter and CodexAdapter turn a provider's events *)
(* into GovernanceEvents.  Both do the same and differ in labels only.     *)
(* Events are those of EventPolicy: sequences of content blocks.           *)
(***************************************************************************)
EXTENDS Naturals, SequencesExt

(* Mutant: the call is expected in the first content block.                *)
FirstBlockOnly(event) ==
  IF event # <<>> /\ event[1].kind = "tool_use"
  THEN [tool_name |-> event[1].name, paths |-> event[1].paths]
  ELSE [tool_name |-> "", paths |-> <<>>]

(* _normalize_one leaves its loop over the blocks at the first tool_use:   *)
(* FirstCall(event)[n] is its index, 0 if the first n blocks have none.    *)
FirstCall(event) ==
  LET first[n \in 0..Len(event)] ==
        IF n = 0 THEN 0
        ELSE IF first[n-1] # 0 THEN first[n-1]
        ELSE IF event[n].kind = "tool_use" THEN n ELSE 0
  IN  first

normalize_one(event) ==
  LET call == FirstCall(event)[Len(event)]
  IN  IF call = 0 THEN [tool_name |-> "", paths |-> <<>>]
      ELSE [tool_name |-> event[call].name, paths |-> event[call].paths]

normalize_events(raw_events) == [i \in DOMAIN raw_events |-> normalize_one(raw_events[i])]
=============================================================================
