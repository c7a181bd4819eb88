------------------------------- MODULE Scopes -------------------------------
(***************************************************************************)
(* Repository-relative paths and path scopes: runtime_utils.py's           *)
(* normalize_repo_path and the scope comparisons of task_spec.py.          *)
(*                                                                         *)
(* A raw path is what str.split("/") gives: a nonempty sequence of raw     *)
(* segments.  The empty string is <<"">>, an absolute path is a longer     *)
(* sequence that starts with "".  A normalized path is a sequence of       *)
(* lower-case names, and <<>> is the empty string "" that normalizing      *)
(* "." or "./" returns.                                                    *)
(***************************************************************************)
EXTENDS Naturals, Sequences, SequencesExt

CONSTANTS
  Name,     \* ordinary segments, in any case
  Lower,    \* str.lower() on one segment
  Drive     \* segments with a ":" in them

ASSUME SegmentAssumption ==
  /\ (Name \cup Drive) \cap {"", ".", ".."} = {}
  /\ Name \cap Drive = {}
  /\ Lower \in [Name -> Name]
  /\ \A n \in Name : Lower[Lower[n]] = Lower[n]

Noise == {"", "."}
RawSegment == Name \cup Drive \cup Noise \cup {".."}
LowerName == {Lower[n] : n \in Name}
RawPath == Seq(RawSegment) \ {<<>>}
Path == Seq(LowerName)

(* The three tests normalize_repo_path raises ValueError on.               *)
IsRepoPath(raw) ==
  /\ raw # <<"">>
  /\ ~ (Len(raw) > 1 /\ raw[1] = "")
  /\ \A i \in 1..Len(raw) : raw[i] \notin Drive \cup {".."}

(* Mutant of Kept: the case of a segment is kept.                          *)
KeptInCase(raw) ==
  LET kept[n \in 0..Len(raw)] ==
        IF n = 0 THEN <<>>
        ELSE IF raw[n] \in Noise THEN kept[n-1] ELSE Append(kept[n-1], raw[n])
  IN  kept

(* Kept(raw)[n]: the segments the comprehension keeps of the first n.      *)
Kept(raw) ==
  LET kept[n \in 0..Len(raw)] ==
        IF n = 0 THEN <<>>
        ELSE IF raw[n] \in Noise THEN kept[n-1]
        ELSE Append(kept[n-1], Lower[raw[n]])
  IN  kept

normalize_repo_path(raw) == Kept(raw)[Len(raw)]

(* A normalized path handed on as a string: what a second normalization    *)
(* is given.                                                               *)
Spelling(path) == IF path = <<>> THEN <<"">> ELSE path

(* path == scope or path.startswith(scope + "/").  A normalized path never *)
(* starts with "/", so the empty scope contains only the empty path.       *)
scope_contains(scope, path) ==
  \/ path = scope
  \/ scope # <<>> /\ IsStrictPrefix(scope, path)

scopes_overlap(left, right) ==
  scope_contains(left, right) \/ scope_contains(right, left)

path_matches_any(path, scopes) == \E scope \in scopes : scope_contains(scope, path)
=============================================================================
