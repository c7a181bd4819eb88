---------------------------- MODULE MCRepoGuard ----------------------------
(* A protected tracked file, a tracked file that is also volatile, a       *)
(* volatile and another file that may appear untracked; in one of the      *)
(* starting work trees the tracked volatile file is dirty and the volatile *)
(* one is there.                                                           *)
EXTENDS RepoGuard

MCFile == {"main", "lock", "temp", "new"}
MCValue == {"x", "y"}
MCTree == [f \in MCFile |-> IF f \in {"temp", "new"} THEN Absent ELSE "x"]
MCWork == {MCTree, [MCTree EXCEPT !["lock"] = "y", !["temp"] = "x"]}
=============================================================================
