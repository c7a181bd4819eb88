----------------------------- MODULE MCEvidence -----------------------------
(* Two contents of one size, so that a change need not show in the size;   *)
(* a file written in part is shorter.                                      *)
EXTENDS EvidenceBundle

MCValue == {"x", "y"}
MCSize == [c \in Content |-> IF c = "partial" THEN 0 ELSE 1]
=============================================================================
