---------------------------- MODULE ScopesProofs ----------------------------
(***************************************************************************)
(* What the operators of Scopes return, for every set of names: the type   *)
(* of a normalized path and the algebra of scope containment.              *)
(***************************************************************************)
EXTENDS Scopes, SequenceTheorems, WellFoundedInduction, TLAPS

(* Containment, index by index, which is the form the solvers work with.   *)
LEMMA ContainsByIndex ==
  ASSUME NEW s \in Path, NEW p \in Path
  PROVE  scope_contains(s, p) <=>
           \/ p = s
           \/ /\ s # <<>>
              /\ s # p
              /\ Len(s) <= Len(p)
              /\ \A i \in 1..Len(s) : s[i] = p[i]
<1>1. /\ Len(s) \in Nat /\ Len(p) \in Nat
      /\ \A i \in 1..Len(s) : s[i] \in LowerName
      /\ \A i \in 1..Len(p) : p[i] \in LowerName
  BY DEF Path
<1>2. ASSUME Len(s) <= Len(p)
      PROVE  SubSeq(s, 1, Len(s)) = SubSeq(p, 1, Len(s)) <=>
               \A i \in 1..Len(s) : s[i] = p[i]
  <2>1. \A i \in 1..Len(s) : SubSeq(s, 1, Len(s))[i] = s[i]
    BY <1>1, SubSeqProperties DEF Path
  <2>2. \A i \in 1..Len(s) : SubSeq(p, 1, Len(s))[i] = p[i]
    BY <1>1, <1>2 DEF Path
  <2>3. SubSeq(s, 1, Len(s)) \in Path /\ Len(SubSeq(s, 1, Len(s))) = Len(s)
    BY <1>1 DEF Path
  <2>4. SubSeq(p, 1, Len(s)) \in Path /\ Len(SubSeq(p, 1, Len(s))) = Len(s)
    BY <1>1, <1>2 DEF Path
  <2> QED
    BY <2>1, <2>2, <2>3, <2>4, SeqEqual DEF Path
<1> QED
  BY <1>1, <1>2 DEF scope_contains, IsStrictPrefix, IsPrefix

(* A scope inside a scope contains no path the outer one does not.         *)
LEMMA ContainsTransitive ==
  ASSUME NEW a \in Path, NEW b \in Path, NEW c \in Path,
         scope_contains(a, b), scope_contains(b, c)
  PROVE  scope_contains(a, c)
<1>1. CASE a = b \/ b = c
  BY <1>1
<1>2. CASE a # b /\ b # c
  <2>1. /\ Len(a) \in Nat /\ Len(b) \in Nat /\ Len(c) \in Nat
        /\ a # <<>> /\ Len(a) <= Len(b) /\ Len(b) <= Len(c)
        /\ \A i \in 1..Len(a) : a[i] = b[i]
        /\ \A i \in 1..Len(b) : b[i] = c[i]
    BY <1>2, ContainsByIndex DEF Path
  <2>2. \A i \in 1..Len(a) : a[i] = c[i]
    BY <2>1
  <2> QED
    BY <2>1, <2>2, ContainsByIndex
<1> QED
  BY <1>1, <1>2

(* Two scopes that contain one path lie one inside the other.              *)
LEMMA CommonPathOverlap ==
  ASSUME NEW a \in Path, NEW b \in Path, NEW p \in Path,
         scope_contains(a, p), scope_contains(b, p)
  PROVE  scopes_overlap(a, b)
<1>1. CASE a = p \/ b = p
  BY <1>1 DEF scopes_overlap
<1>2. CASE a # p /\ b # p
  <2>1. /\ Len(a) \in Nat /\ Len(b) \in Nat /\ Len(p) \in Nat
        /\ a # <<>> /\ Len(a) <= Len(p)
        /\ b # <<>> /\ Len(b) <= Len(p)
        /\ \A i \in 1..Len(a) : a[i] = p[i]
        /\ \A i \in 1..Len(b) : b[i] = p[i]
    BY <1>2, ContainsByIndex DEF Path
  <2>2. CASE Len(a) <= Len(b)
    <3>1. \A i \in 1..Len(a) : a[i] = b[i]
      BY <2>1, <2>2
    <3>2. scope_contains(a, b)
      BY <2>1, <2>2, <3>1, ContainsByIndex
    <3> QED
      BY <3>2 DEF scopes_overlap
  <2>3. CASE Len(b) <= Len(a)
    <3>1. \A i \in 1..Len(b) : b[i] = a[i]
      BY <2>1, <2>3
    <3>2. scope_contains(b, a)
      BY <2>1, <2>3, <3>1, ContainsByIndex
    <3> QED
      BY <3>2 DEF scopes_overlap
  <2> QED
    BY <2>1, <2>2, <2>3
<1> QED
  BY <1>1, <1>2
(* scopes_overlap compares the two scopes with each other and never looks  *)
(* for a path: exactly the scopes that share a path overlap.  The conflict *)
(* checks of task_spec.py refuse a task only when a path is in dispute, and*)
(* always then.                                                            *)
THEOREM OverlapExact ==
  ASSUME NEW a \in Path, NEW b \in Path
  PROVE  scopes_overlap(a, b) <=> \E p \in Path : scope_contains(a, p) /\ scope_contains(b, p)
<1>1. scope_contains(a, a) /\ scope_contains(b, b)
  BY DEF scope_contains
<1>2. scopes_overlap(a, b) =>
        \E p \in Path : scope_contains(a, p) /\ scope_contains(b, p)
  BY <1>1 DEF scopes_overlap
<1> QED
  BY <1>2, CommonPathOverlap

-----------------------------------------------------------------------------
(* The least-number principle for a set of naturals.                       *)
LEMMA LeastMember ==
  ASSUME NEW T, T \subseteq Nat, T # {}
  PROVE  \E m \in T : \A k \in T : m <= k
<1>1. IsWellFoundedOn(OpToRel(<, Nat), Nat)
  BY NatLessThanWellFounded
<1>2. PICK m \in T : \A k \in T : <<k, m>> \notin OpToRel(<, Nat)
  BY <1>1, WFMin
<1>3. \A k \in T : ~ (k < m)
  BY <1>2 DEF OpToRel
<1> QED
  BY <1>3

(* Kept(raw) satisfies its recursive equation: a function that does exists *)
(* on every initial interval, or there would be a shortest one without.    *)
LEMMA KeptEquation ==
  ASSUME NEW raw \in Seq(RawSegment)
  PROVE  Kept(raw) =
           [n \in 0..Len(raw) |->
              IF n = 0 THEN <<>>
              ELSE IF raw[n] \in Noise THEN Kept(raw)[n-1]
              ELSE Append(Kept(raw)[n-1], Lower[raw[n]])]
<1> DEFINE Step(g, n) == IF n = 0 THEN <<>>
                         ELSE IF raw[n] \in Noise THEN g[n-1]
                         ELSE Append(g[n-1], Lower[raw[n]])
           Equation(g, m) == g = [n \in 0..m |-> Step(g, n)]
           Without == {m \in 0..Len(raw) : ~ \E g : Equation(g, m)}
<1>0. Len(raw) \in Nat
  OBVIOUS
<1>1. ASSUME NEW m \in 0..Len(raw), m \in Without, \A k \in Without : m <= k
      PROVE  FALSE
  <2>0. m \in Nat /\ m <= Len(raw)
    BY <1>0
  <2>1. CASE m = 0
    <3>1. Equation([n \in 0..0 |-> <<>>], 0)
      OBVIOUS
    <3> QED
      BY <1>1, <2>1, <3>1
  <2>2. CASE m # 0
    <3>1. m - 1 \in 0..Len(raw) /\ ~ (m <= m - 1)
      BY <1>0, <2>0, <2>2
    <3>2. PICK g : Equation(g, m - 1)
      BY <1>1, <3>1
    <3> DEFINE h == [n \in 0..m |-> Step(g, n)]
    <3> HIDE DEF Step
    <3>3. \A n \in 0..(m-1) : n \in 0..m /\ g[n] = Step(g, n) /\ h[n] = Step(g, n)
      BY <2>0, <3>2
    <3>4. \A n \in 0..m : n # 0 => n - 1 \in 0..(m-1)
      BY <2>0
    <3>5. \A n \in 0..m : Step(h, n) = Step(g, n)
      BY <3>3, <3>4 DEF Step
    <3>6. Equation(h, m)
      BY <3>5
    <3> QED
      BY <1>1, <3>6
  <2> QED
    BY <2>1, <2>2
<1>2. \E g : Equation(g, Len(raw))
  <2>1. Without \subseteq Nat
    BY <1>0
  <2>2. Without = {}
    BY <1>1, <2>1, LeastMember
  <2>3. Len(raw) \in 0..Len(raw)
    BY <1>0
  <2> HIDE DEF Equation
  <2> QED
    BY <2>2, <2>3
<1>3. Kept(raw) = CHOOSE g : Equation(g, Len(raw))
  BY DEF Kept
<1>4. Equation(Kept(raw), Len(raw))
  BY <1>2, <1>3
<1> QED
  BY <1>4

(* What is kept of a path that does not raise, segment by segment.         *)
LEMMA KeptType ==
  ASSUME NEW raw \in RawPath, IsRepoPath(raw)
  PROVE  /\ \A n \in 0..Len(raw) : Kept(raw)[n] \in Path
         /\ Kept(raw)[0] = <<>>
         /\ \A n \in 1..Len(raw) :
              IF raw[n] \in Noise THEN Kept(raw)[n] = Kept(raw)[n-1]
              ELSE /\ Lower[raw[n]] \in LowerName
                   /\ Kept(raw)[n] = Append(Kept(raw)[n-1], Lower[raw[n]])
<1> DEFINE Wrong == {n \in 0..Len(raw) : Kept(raw)[n] \notin Path}
<1>0. raw \in Seq(RawSegment) /\ Len(raw) \in Nat
  BY DEF RawPath
<1>1. \A i \in 1..Len(raw) : raw[i] \in Noise \/ Lower[raw[i]] \in LowerName
  <2>1. SUFFICES ASSUME NEW i \in 1..Len(raw), raw[i] \notin Noise
                 PROVE  Lower[raw[i]] \in LowerName
    OBVIOUS
  <2>2. raw[i] \in RawSegment /\ raw[i] \notin Drive \cup {".."}
    <3>1. raw[i] \in RawSegment
      BY <1>0, ElementOfSeq
    <3> QED
      BY <3>1 DEF IsRepoPath
  <2>3. raw[i] \in Name
    BY <2>1, <2>2 DEF RawSegment
  <2> QED
    BY <2>3 DEF LowerName
<1>2. \A n \in 0..Len(raw) :
        Kept(raw)[n] = IF n = 0 THEN <<>>
                       ELSE IF raw[n] \in Noise THEN Kept(raw)[n-1]
                       ELSE Append(Kept(raw)[n-1], Lower[raw[n]])
  BY <1>0, KeptEquation
<1>3. Wrong = {}
  <2>1. SUFFICES ASSUME Wrong # {}
                 PROVE  FALSE
    OBVIOUS
  <2>2. PICK n \in Wrong : \A k \in Wrong : n <= k
    <3>1. Wrong \subseteq Nat
      BY <1>0
    <3> QED
      BY <2>1, <3>1, LeastMember
  <2>3. CASE n = 0
    <3>1. Kept(raw)[n] = <<>>
      BY <1>0, <1>2, <2>3
    <3> QED
      BY <2>2, <3>1, EmptySeq DEF Path
  <2>4. CASE n # 0
    <3>1. n - 1 \in 0..Len(raw) /\ Kept(raw)[n-1] \in Path /\ n \in 1..Len(raw)
      BY <1>0, <2>2, <2>4
    <3>2. CASE raw[n] \in Noise
      <4>1. Kept(raw)[n] = Kept(raw)[n-1]
        BY <1>2, <2>2, <2>4, <3>2
      <4> QED
        BY <2>2, <3>1, <4>1
    <3>3. CASE raw[n] \notin Noise
      <4>1. Kept(raw)[n] = Append(Kept(raw)[n-1], Lower[raw[n]])
        BY <1>2, <2>2, <2>4, <3>3
      <4>2. Lower[raw[n]] \in LowerName
        BY <1>1, <3>1, <3>3
      <4>3. Kept(raw)[n] \in Path
        BY <3>1, <4>1, <4>2, AppendProperties DEF Path
      <4> QED
        BY <2>2, <4>3
    <3> QED
      BY <3>2, <3>3
  <2> QED
    BY <2>3, <2>4
<1>4. Kept(raw)[0] = <<>>
  BY <1>0, <1>2
<1>5. \A n \in 1..Len(raw) : n \in 0..Len(raw) /\ n # 0
  BY <1>0
<1> HIDE DEF Noise, LowerName
<1> QED
  BY <1>1, <1>2, <1>3, <1>4, <1>5

(* normalize_repo_path, where it does not raise, returns a sequence of     *)
(* lower-case names: no ".", "..", empty or drive segment survives it.     *)
THEOREM NormalizeType ==
  ASSUME NEW raw \in RawPath, IsRepoPath(raw)
  PROVE  normalize_repo_path(raw) \in Path
<1>1. Len(raw) \in Nat
  BY DEF RawPath
<1> QED
  BY <1>1, KeptType DEF normalize_repo_path

(* What normalizes to nothing is made of "." and empty segments only.      *)
LEMMA NothingKept ==
  ASSUME NEW raw \in RawPath, IsRepoPath(raw), normalize_repo_path(raw) = <<>>
  PROVE  ToSet(raw) \subseteq Noise
<1> DEFINE Wrong == {n \in 0..Len(raw) :
                       Kept(raw)[n] = <<>> /\ \E i \in 1..n : raw[i] \notin Noise}
<1>1. Len(raw) \in Nat /\ DOMAIN raw = 1..Len(raw)
  BY LenProperties DEF RawPath
<1>2. ASSUME NEW n \in Wrong, \A k \in Wrong : n <= k PROVE FALSE
  <2>1. /\ n \in 0..Len(raw) /\ Kept(raw)[n] = <<>>
        /\ \E i \in 1..n : raw[i] \notin Noise
    OBVIOUS
  <2>2. PICK i \in 1..n : raw[i] \notin Noise
    BY <2>1
  <2>3. n \in 1..Len(raw) /\ n - 1 \in 0..Len(raw) /\ ~ (n <= n - 1)
    BY <1>1, <2>1, <2>2
  <2>4. CASE raw[n] \in Noise
    <3>1. Kept(raw)[n-1] = <<>> /\ i \in 1..(n-1)
      BY <2>1, <2>2, <2>3, <2>4, KeptType
    <3>2. n - 1 \in Wrong
      BY <2>2, <2>3, <3>1
    <3> QED
      BY <1>2, <2>3, <3>2
  <2>5. CASE raw[n] \notin Noise
    <3>1. /\ Kept(raw)[n-1] \in Path /\ Lower[raw[n]] \in LowerName
          /\ Kept(raw)[n] = Append(Kept(raw)[n-1], Lower[raw[n]])
      BY <2>3, <2>5, KeptType
    <3>2. Kept(raw)[n] # <<>>
      BY <3>1, AppendProperties DEF Path
    <3> QED
      BY <2>1, <3>2
  <2> QED
    BY <2>4, <2>5
<1>3. Wrong = {}
  <2>1. Wrong \subseteq Nat
    BY <1>1
  <2> HIDE DEF Wrong
  <2> QED
    BY <1>2, <2>1, LeastMember
<1>4. \A i \in 1..Len(raw) : raw[i] \in Noise
  BY <1>1, <1>3 DEF normalize_repo_path
<1> QED
  BY <1>1, <1>4 DEF ToSet

(* A normalized path that is not empty normalizes again, so what the       *)
(* second normalization raises on was nothing to begin with.               *)
LEMMA SecondNormalization ==
  ASSUME NEW raw \in RawPath, IsRepoPath(raw),
         ~ IsRepoPath(Spelling(normalize_repo_path(raw)))
  PROVE  ToSet(raw) \subseteq Noise
<1> DEFINE path == normalize_repo_path(raw)
           empty == ""
           up == ".."
<1>1. path \in Path
  BY NormalizeType
<1>2. empty \notin Name /\ up \notin Name /\ Name \cap Drive = {}
  BY SegmentAssumption, Zenon
<1>3. LowerName \subseteq Name
  BY SegmentAssumption, Zenon DEF LowerName
<1>4. path # <<>> => Spelling(path) = path
  BY Zenon DEF Spelling
<1>5. /\ path # <<empty>>
      /\ ~ (Len(path) > 1 /\ path[1] = empty)
      /\ \A i \in 1..Len(path) : path[i] \notin Drive \cup {up}
      => IsRepoPath(path)
  BY Zenon DEF IsRepoPath
<1> HIDE DEF path, empty, up
<1>6. Len(path) \in Nat /\ \A i \in 1..Len(path) : path[i] \in Name
  BY <1>1, <1>3, ElementOfSeq DEF Path
<1>7. IsRepoPath(path)
  <2>1. path # <<empty>>
    <3>1. ASSUME path = <<empty>> PROVE FALSE
      <4>1. Len(path) = 1 /\ path[1] = empty
        BY <3>1
      <4> QED
        BY <1>2, <1>6, <4>1
    <3> QED
      BY <3>1
  <2>2. ~ (Len(path) > 1 /\ path[1] = empty)
    BY <1>2, <1>6
  <2>3. \A i \in 1..Len(path) : path[i] \notin Drive \cup {up}
    BY <1>2, <1>6
  <2> QED
    BY <1>5, <2>1, <2>2, <2>3, Zenon
<1>8. path = <<>>
  BY <1>4, <1>7 DEF path
<1> QED
  BY <1>8, NothingKept DEF path
=============================================================================
