-------------------------- MODULE RepoGuardProofs --------------------------
(***************************************************************************)
(* What a comparison of two snapshots proves of the repository, for any    *)
(* files, contents, branches and sets of paths, however many things are    *)
(* done to the repository, before, between and during the two captures.    *)
(***************************************************************************)
EXTENDS RepoGuard, SequenceTheorems, TLAPS

Repository ==
  {r \in [branch : Branch, commits : Seq(Tree), head : Nat, index : Tree, work : Tree] :
     r.head \in 1..Len(r.commits)}
Snapshot ==
  [branch : Branch, head : Nat, tracked : SUBSET File, untracked : SUBSET File,
   ignored : {{}}, hashes : [Protected -> Value \cup {Absent}]]

TrackedIn(r) ==
  {f \in File : /\ TreeOf(r)[f] # Absent \/ r.index[f] # Absent
                /\ TreeOf(r)[f] # r.index[f] \/ r.work[f] # r.index[f]}
UntrackedIn(r) ==
  {f \in File : r.index[f] = Absent /\ r.work[f] # Absent /\ f \notin Ignored}

(* What snapshot s tells of repository r: the truth about everything that  *)
(* was not touched while it was captured.  A line about a tracked file     *)
(* needs the commit as well to be left alone.  The files of rest are not   *)
(* hashed yet.                                                             *)
RefsTold(s, r) == REFS \notin touched => s.branch = r.branch /\ s.head = r.head
LinesTold(s, r) ==
  \A f \in File \ touched :
    /\ REFS \notin touched => (f \in s.tracked <=> f \in TrackedIn(r))
    /\ f \in s.untracked <=> f \in UntrackedIn(r)
HashesTold(s, r, rest) ==
  \A f \in Protected \ (rest \cup touched) : s.hashes[f] = r.work[f]
Told(s, r) == RefsTold(s, r) /\ LinesTold(s, r) /\ HashesTold(s, r, {})

(* Commits are added, never changed: an earlier head names the same tree   *)
(* in every later repository.                                              *)
Grown(r, s) ==
  /\ Len(r.commits) <= Len(s.commits)
  /\ \A c \in 1..Len(r.commits) : s.commits[c] = r.commits[c]

Doing(step) == pc \in {<<"before", step>>, <<"after", step>>}
HasBefore == pc \in {<<"ran", "idle">>, <<"after", "head">>, <<"after", "status">>,
                     <<"after", "hash">>, <<"compare", "idle">>, <<"done", "idle">>}
HasAfter == pc \in {<<"compare", "idle">>, <<"done", "idle">>}

Typed ==
  /\ TypeOK
  /\ repo \in Repository
  /\ {before, after} \subseteq Snapshot \cup {NoSnap}
SnapTold ==
  /\ Doing("head") => /\ snap.branch \in Branch
                      /\ REFS \notin touched => snap.branch = repo.branch
  /\ Doing("status") => snap.branch \in Branch /\ snap.head \in Nat /\ RefsTold(snap, repo)
  /\ Doing("hash") => /\ snap \in Snapshot
                      /\ RefsTold(snap, repo) /\ LinesTold(snap, repo)
                      /\ HashesTold(snap, repo, todo)
BeforeTold ==
  HasBefore => /\ before \in Snapshot /\ base \in Repository
               /\ Told(before, base) /\ Grown(base, repo)
AfterTold ==
  HasAfter => /\ after \in Snapshot /\ final \in Repository
              /\ Told(after, final) /\ Grown(base, final)
ResultTold ==
  result # "none" => pc = <<"done", "idle">> /\ result = compare_snapshots(before, after)

IInv == Typed /\ SnapTold /\ BeforeTold /\ AfterTold /\ ResultTold


-----------------------------------------------------------------------------
(* A capture is at one of its three commands, and the second is not made   *)
(* before the first.                                                       *)
LEMMA CapturingIsDoing ==
  /\ Capturing <=> Doing("head") \/ Doing("status") \/ Doing("hash")
  /\ Capturing => ~ HasAfter
<1> DEFINE Steps == {"head", "status", "hash"}
<1>1. ASSUME NEW kind
      PROVE  At(kind, Steps) <=>
               pc = <<kind, "head">> \/ pc = <<kind, "status">> \/ pc = <<kind, "hash">>
  <2>1. At(kind, Steps) <=> \E step \in Steps : pc = <<kind, step>>
    BY Zenon DEF At
  <2> QED
    BY Zenon, <2>1
<1>2. Capturing <=> At("before", Steps) \/ At("after", Steps)
  BY DEF Capturing
<1>3. \A step : Doing(step) <=> pc = <<"before", step>> \/ pc = <<"after", step>>
  BY DEF Doing
<1>4. Capturing <=> Doing("head") \/ Doing("status") \/ Doing("hash")
  BY <1>1, <1>2, <1>3, Zenon
<1>5. ASSUME NEW step, Doing(step)
      PROVE  ~ HasAfter
  <2>1. pc[1] \in {"before", "after"}
    BY <1>5 DEF Doing
  <2>2. HasAfter => pc[1] \in {"compare", "done"}
    BY DEF HasAfter
  <2> QED
    BY <2>1, <2>2
<1> QED
  BY <1>4, <1>5

(* Growth is transitive: a history is only added to.                       *)
LEMMA GrownTransitive ==
  ASSUME NEW r \in Repository, NEW s \in Repository, NEW t \in Repository,
         Grown(r, s), Grown(s, t)
  PROVE  Grown(r, t)
<1>1. Len(r.commits) \in Nat /\ Len(s.commits) \in Nat /\ Len(t.commits) \in Nat
  BY DEF Repository
<1> QED
  BY <1>1 DEF Grown

(* A repository has grown from itself.                                     *)
LEMMA GrownReflexive == \A r \in Repository : Grown(r, r)
<1>1. \A r \in Repository : Len(r.commits) \in Nat
  BY DEF Repository
<1> QED
  BY <1>1 DEF Grown

(* Of two repositories, one grown from the other, with one head the        *)
(* committed tree is one.                                                  *)
LEMMA SameTree ==
  ASSUME NEW r \in Repository, NEW s \in Repository, Grown(r, s), r.head = s.head
  PROVE  TreeOf(r) = TreeOf(s)
BY DEF Repository, Grown, TreeOf

(* The tree of the head is a tree.                                         *)
LEMMA TreeType == \A r \in Repository : TreeOf(r) \in Tree
<1>1. ASSUME NEW r \in Repository
      PROVE  TreeOf(r) \in Tree
  <2>1. r.commits \in Seq(Tree) /\ r.head \in 1..Len(r.commits)
    BY DEF Repository
  <2> QED
    BY <2>1, ElementOfSeq DEF TreeOf
<1> QED
  BY <1>1

(* Nothing was captured.                                                   *)
LEMMA InitIInv == Init => IInv
<1> SUFFICES ASSUME Init
             PROVE  IInv
  OBVIOUS
<1>1. PICK w \in StartWork, b \in Branch :
        repo = [branch |-> b, commits |-> <<StartTree>>, head |-> 1,
                index |-> StartTree, work |-> w]
  BY DEF Init
<1>2. StartTree \in Tree /\ w \in Tree
  BY GuardAssumption
<1>3. <<StartTree>> \in Seq(Tree) /\ Len(<<StartTree>>) = 1
  BY <1>2
<1>4. repo \in Repository
  BY <1>1, <1>2, <1>3 DEF Repository
<1>5. ~ Capturing /\ ~ HasBefore /\ ~ HasAfter
  BY DEF Init, Capturing, At, HasBefore, HasAfter
<1>6. Typed
  <2>1. /\ repo.branch \in Branch /\ repo.head \in 1..Len(repo.commits)
        /\ repo.commits \in Seq(Tree) /\ repo.index \in Tree /\ repo.work \in Tree
    BY <1>4 DEF Repository
  <2>2. pc \in {<<r, "idle">> : r \in Resting}
    <3>1. "start" \in Resting /\ pc = <<"start", "idle">>
      BY DEF Init, Resting
    <3> QED
      BY Zenon, <3>1
  <2>3. steps \in 0..MaxSteps
    BY GuardAssumption DEF Init
  <2>4. /\ todo = {} /\ found = Absent /\ touched = {} /\ before = NoSnap /\ after = NoSnap
        /\ result = "none"
    BY DEF Init
  <2> QED
    <3>1. \A s \in {before, after} : s = NoSnap
      BY <2>4
    <3>2. todo \subseteq Protected /\ found \in todo \cup {Absent}
          /\ touched \subseteq File \cup {REFS}
      BY <2>4
    <3>3. TypeOK
      BY <2>1, <2>2, <2>3, <2>4, <3>1, <3>2, Zenon DEF TypeOK
    <3> QED
      BY <1>4, <3>1, <3>3 DEF Typed
<1> QED
  BY <1>5, <1>6, CapturingIsDoing DEF Init, IInv, SnapTold, BeforeTold, AfterTold, ResultTold

-----------------------------------------------------------------------------
(* Whatever is done to the repository leaves a true account of what it did *)
(* not touch, and of what was read or captured before.                     *)
LEMMA TouchIInv ==
  ASSUME IInv,
         NEW what \in SUBSET (File \cup {REFS}), NEW r \in Repository,
         Touch(what, r), Grown(repo, r),
         REFS \notin what => r.branch = repo.branch /\ r.head = repo.head,
         \A f \in File \ what : r.index[f] = repo.index[f] /\ r.work[f] = repo.work[f]
  PROVE  IInv'
<1>1. /\ repo' = r /\ pc # <<"done", "idle">> /\ steps' = steps + 1 /\ steps < MaxSteps
      /\ pc' = pc /\ todo' = todo /\ found' = found /\ snap' = snap
      /\ before' = before /\ after' = after
      /\ base' = base /\ final' = final /\ result' = result
      /\ touched' = IF Capturing THEN touched \cup what ELSE touched
  BY DEF Touch, guard
<1>2. Typed /\ repo \in Repository
  BY DEF IInv, Typed
<1>3. touched \subseteq touched' /\ touched' \subseteq File \cup {REFS}
  BY <1>1, <1>2 DEF Typed, TypeOK
<1>4. Capturing' = Capturing /\ HasBefore' = HasBefore /\ HasAfter' = HasAfter
      /\ \A s : Doing(s)' = Doing(s)
  BY <1>1 DEF Capturing, At, HasBefore, HasAfter, Doing
<1>5. Typed'
  <2>1. /\ r.branch \in Branch /\ r.head \in 1..Len(r.commits)
        /\ r.commits \in Seq(Tree) /\ r.index \in Tree /\ r.work \in Tree
    BY DEF Repository
  <2>2. steps' \in 0..MaxSteps
    <3>1. steps \in 0..MaxSteps /\ MaxSteps \in Nat
      BY <1>2, GuardAssumption DEF Typed, TypeOK
    <3>2. steps' = steps + 1 /\ steps < MaxSteps
      BY <1>1
    <3> QED
      BY <3>1, <3>2
  <2> QED
    BY <1>1, <1>2, <1>3, <1>4, <2>1, <2>2 DEF Typed, TypeOK
<1>6. /\ REFS \notin what => TreeOf(r) = TreeOf(repo)
      /\ \A f \in File \ what : f \in UntrackedIn(r) <=> f \in UntrackedIn(repo)
      /\ REFS \notin what =>
           \A f \in File \ what : f \in TrackedIn(r) <=> f \in TrackedIn(repo)
  <2>1. REFS \notin what => TreeOf(r) = TreeOf(repo)
    BY <1>2, SameTree
  <2> QED
    BY <2>1 DEF UntrackedIn, TrackedIn
<1>7. SnapTold'
  <2>1. CASE Capturing
    <3>1. touched' = touched \cup what
      BY <1>1, <2>1
    <3>2. ASSUME Doing("head")
          PROVE  snap.branch \in Branch /\ (REFS \notin touched' => snap.branch = r.branch)
      BY <3>1, <3>2 DEF IInv, SnapTold
    <3>3. ASSUME Doing("status") \/ Doing("hash")
          PROVE  RefsTold(snap, repo)'
      BY <1>1, <3>1, <3>3 DEF IInv, SnapTold, RefsTold
    <3>4. ASSUME Doing("hash")
          PROVE  LinesTold(snap, repo)'
      <4>1. LinesTold(snap, repo)
        BY <3>4 DEF IInv, SnapTold
      <4>2. TrackedIn(repo)' = TrackedIn(r) /\ UntrackedIn(repo)' = UntrackedIn(r)
        BY <1>1 DEF TrackedIn, UntrackedIn, TreeOf
      <4> QED
        BY <1>1, <1>6, <3>1, <4>1, <4>2 DEF LinesTold
    <3>5. ASSUME Doing("hash")
          PROVE  HashesTold(snap, repo, todo)'
      <4>1. HashesTold(snap, repo, todo)
        BY <3>5 DEF IInv, SnapTold
      <4> QED
        BY <1>1, <3>1, <4>1, GuardAssumption DEF HashesTold
    <3> QED
      BY <1>1, <1>4, <3>2, <3>3, <3>4, <3>5 DEF IInv, SnapTold
  <2>2. CASE ~ Capturing
    BY <1>4, <2>2, CapturingIsDoing DEF SnapTold
  <2> QED
    BY <2>1, <2>2
<1>8. ASSUME NEW s, NEW q, Told(s, q)
      PROVE  /\ REFS \notin touched' => s.branch = q.branch /\ s.head = q.head
             /\ \A f \in File \ touched' :
                  /\ REFS \notin touched' => (f \in s.tracked <=> f \in TrackedIn(q))
                  /\ f \in s.untracked <=> f \in UntrackedIn(q)
             /\ \A f \in Protected \ touched' : s.hashes[f] = q.work[f]
  BY <1>3, <1>8 DEF Told, RefsTold, LinesTold, HashesTold
<1>9. BeforeTold'
  <2> SUFFICES ASSUME HasBefore
               PROVE  (/\ before \in Snapshot /\ base \in Repository
                       /\ Told(before, base) /\ Grown(base, repo))'
    BY <1>4 DEF BeforeTold
  <2>1. /\ before \in Snapshot /\ base \in Repository
        /\ Told(before, base) /\ Grown(base, repo)
    BY DEF IInv, BeforeTold
  <2>2. Grown(base, r)
    BY <1>2, <2>1, GrownTransitive
  <2>3. Told(before, base)'
    BY <1>1, <1>8, <2>1 DEF Told, RefsTold, LinesTold, HashesTold, TrackedIn, UntrackedIn, TreeOf
  <2> QED
    BY <1>1, <2>1, <2>2, <2>3 DEF Grown, Snapshot, Repository
<1>10. AfterTold'
  <2> SUFFICES ASSUME HasAfter
               PROVE  (/\ after \in Snapshot /\ final \in Repository
                       /\ Told(after, final) /\ Grown(base, final))'
    BY <1>4 DEF AfterTold
  <2>1. /\ after \in Snapshot /\ final \in Repository
        /\ Told(after, final) /\ Grown(base, final)
    BY DEF IInv, AfterTold
  <2>2. Told(after, final)'
    BY <1>1, <1>8, <2>1 DEF Told, RefsTold, LinesTold, HashesTold, TrackedIn, UntrackedIn, TreeOf
  <2> QED
    BY <1>1, <2>1, <2>2 DEF Grown, Snapshot, Repository
<1>11. ResultTold'
  BY <1>1 DEF IInv, ResultTold
<1> QED
  BY <1>5, <1>7, <1>9, <1>10, <1>11 DEF IInv

(* What each thing done in the repository changes of it.                   *)
LEMMA RepositoryFields ==
  ASSUME NEW r \in Repository
  PROVE  /\ r.branch \in Branch /\ r.commits \in Seq(Tree) /\ r.head \in 1..Len(r.commits)
         /\ r.index \in Tree /\ r.work \in Tree
         /\ r = [branch |-> r.branch, commits |-> r.commits, head |-> r.head,
                 index |-> r.index, work |-> r.work]
BY DEF Repository

(* A repository is put together from its parts.                            *)
LEMMA ARepository ==
  ASSUME NEW b \in Branch, NEW cs \in Seq(Tree), NEW h \in 1..Len(cs),
         NEW i \in Tree, NEW w \in Tree
  PROVE  [branch |-> b, commits |-> cs, head |-> h, index |-> i, work |-> w] \in Repository
<1>1. h \in Nat
  OBVIOUS
<1> QED
  BY <1>1 DEF Repository

(* An edit of the working tree touches the file.                           *)
LEMMA EditIInv ==
  ASSUME IInv, NEW f \in File, NEW v \in Value \cup {Absent}, Edit(f, v)
  PROVE  IInv'
<1> DEFINE r == [repo EXCEPT !.work[f] = v]
<1>1. repo \in Repository
  BY DEF IInv, Typed
<1>2. r = [branch |-> repo.branch, commits |-> repo.commits, head |-> repo.head,
           index |-> repo.index, work |-> [repo.work EXCEPT ![f] = v]]
  BY <1>1 DEF Repository
<1>3. [repo.work EXCEPT ![f] = v] \in Tree
  BY <1>1, RepositoryFields DEF Tree
<1>4. r \in Repository
  BY <1>1, <1>2, <1>3, RepositoryFields, ARepository
<1>5. Touch({f}, r)
  BY DEF Edit
<1> HIDE DEF r
<1>6. Grown(repo, r)
  BY <1>1, <1>2, GrownReflexive DEF Grown
<1>7. \A g \in File \ {f} : r.index[g] = repo.index[g] /\ r.work[g] = repo.work[g]
  BY <1>1, <1>2, RepositoryFields DEF Tree
<1> QED
  BY <1>2, <1>4, <1>5, <1>6, <1>7, TouchIInv

(* A file is staged or unstaged: its entry in the index changes.           *)
LEMMA IndexIInv ==
  ASSUME IInv, NEW f \in File, NEW v \in Value \cup {Absent},
         Touch({f}, [repo EXCEPT !.index[f] = v])
  PROVE  IInv'
<1> DEFINE r == [repo EXCEPT !.index[f] = v]
<1>1. repo \in Repository
  BY DEF IInv, Typed
<1>2. r = [branch |-> repo.branch, commits |-> repo.commits, head |-> repo.head,
           index |-> [repo.index EXCEPT ![f] = v], work |-> repo.work]
  BY <1>1 DEF Repository
<1>3. [repo.index EXCEPT ![f] = v] \in Tree
  BY <1>1, RepositoryFields DEF Tree
<1>4. r \in Repository
  BY <1>1, <1>2, <1>3, RepositoryFields, ARepository
<1>5. Touch({f}, r)
  OBVIOUS
<1> HIDE DEF r
<1>6. Grown(repo, r)
  BY <1>1, <1>2, GrownReflexive DEF Grown
<1>7. \A g \in File \ {f} : r.index[g] = repo.index[g] /\ r.work[g] = repo.work[g]
  BY <1>1, <1>2, RepositoryFields DEF Tree
<1> QED
  BY <1>2, <1>4, <1>5, <1>6, <1>7, TouchIInv

(* So does staging it.                                                     *)
LEMMA StageIInv ==
  ASSUME IInv, NEW f \in File, Stage(f) \/ Unstage(f)
  PROVE  IInv'
<1>1. repo.work[f] \in Value \cup {Absent} /\ HeadTree[f] \in Value \cup {Absent}
  <2>1. repo \in Repository /\ HeadTree = TreeOf(repo)
    BY DEF IInv, Typed, HeadTree, TreeOf
  <2>2. repo.work \in Tree /\ HeadTree \in Tree
    BY <2>1, RepositoryFields, TreeType
  <2> QED
    BY <2>2 DEF Tree
<1>2. PICK v \in Value \cup {Absent} : Touch({f}, [repo EXCEPT !.index[f] = v])
  BY <1>1 DEF Stage, Unstage
<1> QED
  BY <1>2, IndexIInv

(* The head moves, to a commit that is added or to an earlier one, or the  *)
(* branch changes: index and work tree stay.                               *)
LEMMA RefsIInv ==
  ASSUME IInv, Commit \/ SoftReset \/ SwitchBranch
  PROVE  IInv'
<1>1. repo \in Repository
  BY DEF IInv, Typed
<1>a. /\ repo.branch \in Branch /\ repo.commits \in Seq(Tree)
      /\ repo.head \in 1..Len(repo.commits) /\ Len(repo.commits) \in Nat
      /\ repo.index \in Tree /\ repo.work \in Tree
  BY <1>1, RepositoryFields
<1>b. repo \in [branch : Branch, commits : Seq(Tree), head : Nat, index : Tree, work : Tree]
  BY <1>1 DEF Repository
<1>2. ASSUME NEW r \in Repository, Touch({REFS}, r), Grown(repo, r),
             r.index = repo.index, r.work = repo.work
      PROVE  IInv'
  <2>1. \A f \in File \ {REFS} : r.index[f] = repo.index[f] /\ r.work[f] = repo.work[f]
    BY <1>2
  <2> QED
    BY <1>2, <2>1, TouchIInv
<1>3. CASE Commit
  <2> DEFINE n == Len(repo.commits) + 1
             cs == Append(repo.commits, repo.index)
             r == [repo EXCEPT !.commits = Append(@, repo.index), !.head = Len(repo.commits) + 1]
  <2>1. r = [branch |-> repo.branch, commits |-> cs, head |-> n,
             index |-> repo.index, work |-> repo.work]
    <3>1. r = [repo EXCEPT !.commits = cs, !.head = n]
      OBVIOUS
    <3> HIDE DEF n, cs, r
    <3> QED
      BY <1>b, <3>1
  <2>2. /\ cs \in Seq(Tree) /\ Len(cs) = n /\ n \in 1..n /\ Len(repo.commits) <= n
        /\ \A c \in 1..Len(repo.commits) : cs[c] = repo.commits[c]
    <3>1. n \in 1..n /\ Len(repo.commits) <= n
      BY <1>a
    <3>2. /\ cs \in Seq(Tree) /\ Len(cs) = n
          /\ \A c \in 1..Len(repo.commits) : cs[c] = repo.commits[c]
      BY <1>a, AppendProperties
    <3> HIDE DEF n, cs
    <3> QED
      BY <3>1, <3>2
  <2>3. Touch({REFS}, r)
    BY <1>3 DEF Commit
  <2> HIDE DEF n, cs, r
  <2>4. r \in Repository
    BY <1>a, <2>1, <2>2, ARepository
  <2>5. Grown(repo, r)
    BY <2>1, <2>2 DEF Grown
  <2> QED
    BY <1>2, <2>1, <2>4, <2>5, <2>3
<1>4. CASE SoftReset
  <2>1. PICK c \in 1..Len(repo.commits) : Touch({REFS}, [repo EXCEPT !.head = c])
    BY <1>4 DEF SoftReset
  <2> DEFINE r == [repo EXCEPT !.head = c]
  <2>2. r = [branch |-> repo.branch, commits |-> repo.commits, head |-> c,
             index |-> repo.index, work |-> repo.work]
    BY <1>b
  <2>3. r \in Repository
    BY <1>a, <2>2, ARepository
  <2>4. Grown(repo, r)
    BY <1>a, <2>2 DEF Grown
  <2> QED
    BY <1>2, <2>1, <2>2, <2>3, <2>4
<1>5. CASE SwitchBranch
  <2>1. PICK b \in Branch : Touch({REFS}, [repo EXCEPT !.branch = b])
    BY <1>5 DEF SwitchBranch
  <2> DEFINE r == [repo EXCEPT !.branch = b]
  <2>2. r = [branch |-> b, commits |-> repo.commits, head |-> repo.head,
             index |-> repo.index, work |-> repo.work]
    BY <1>b
  <2>3. r \in Repository
    BY <1>a, <2>2, ARepository
  <2>4. Grown(repo, r)
    BY <1>a, <2>2 DEF Grown
  <2> QED
    BY <1>2, <2>1, <2>2, <2>3, <2>4
<1> QED
  BY <1>3, <1>4, <1>5

-----------------------------------------------------------------------------
(* A read of the capture under way disturbs nothing but its own snapshot.  *)
LEMMA CaptureStep ==
  ASSUME IInv, UNCHANGED <<repo, before, after, base, final, touched, result, steps>>,
         pc # <<"done", "idle">>,
         (Doing("head") \/ Doing("status") \/ Doing("hash"))',
         todo' \subseteq Protected, found' \in todo' \cup {Absent},
         HasBefore' => HasBefore, SnapTold'
  PROVE  IInv'
<1>1. Capturing' /\ ~ HasAfter'
  BY CapturingIsDoing, PTL
<1>2. Typed'
  BY <1>1 DEF IInv, Typed, TypeOK, Repository, Snapshot
<1>3. BeforeTold'
  BY DEF IInv, BeforeTold, Told, RefsTold, LinesTold, HashesTold, Grown, TrackedIn, UntrackedIn,
         TreeOf, Repository, Snapshot
<1>4. AfterTold' /\ ResultTold'
  BY <1>1 DEF IInv, AfterTold, ResultTold
<1> QED
  BY <1>2, <1>3, <1>4 DEF IInv

(* A capture begins.                                                       *)
LEMMA CaptureBeginIInv ==
  ASSUME IInv, NEW kind \in {"before", "after"}, CaptureBegin(kind)
  PROVE  IInv'
<1>1. /\ UNCHANGED <<repo, todo, found, before, after, base, final, touched, result, steps>>
      /\ pc = (IF kind = "before" THEN <<"start", "idle">> ELSE <<"ran", "idle">>)
      /\ pc' = <<kind, "head">> /\ snap' = [branch |-> repo.branch]
  BY DEF CaptureBegin
<1>2. /\ pc # <<"done", "idle">> /\ Doing("head")' /\ ~ Doing("status")' /\ ~ Doing("hash")'
      /\ HasBefore' => HasBefore
  BY <1>1 DEF Doing, HasBefore
<1>3. snap'.branch = repo.branch /\ repo.branch \in Branch
  BY <1>1 DEF IInv, Typed, TypeOK
<1>4. SnapTold'
  BY <1>1, <1>2, <1>3 DEF SnapTold
<1> QED
  BY <1>1, <1>2, <1>4, CaptureStep DEF IInv, Typed, TypeOK

(* It reads the branch and the head,                                       *)
LEMMA CaptureHeadIInv ==
  ASSUME IInv, NEW kind \in {"before", "after"}, CaptureHead(kind)
  PROVE  IInv'
<1>1. /\ UNCHANGED <<repo, todo, found, before, after, base, final, touched, result, steps>>
      /\ pc = <<kind, "head">> /\ pc' = <<kind, "status">>
      /\ snap' = [branch |-> snap.branch, head |-> repo.head]
  BY DEF CaptureHead
<1>2. /\ pc # <<"done", "idle">> /\ Doing("head")
      /\ ~ Doing("head")' /\ Doing("status")' /\ ~ Doing("hash")'
      /\ HasBefore' => HasBefore
  BY <1>1 DEF Doing, HasBefore
<1>3. snap.branch \in Branch /\ (REFS \notin touched => snap.branch = repo.branch)
  BY <1>2 DEF IInv, SnapTold
<1>4. repo.head \in Nat
  BY DEF IInv, Typed, Repository
<1>5. SnapTold'
  BY <1>1, <1>2, <1>3, <1>4 DEF SnapTold, RefsTold
<1> QED
  BY <1>1, <1>2, <1>5, CaptureStep DEF IInv, Typed, TypeOK

(* then the status,                                                        *)
LEMMA CaptureStatusIInv ==
  ASSUME IInv, NEW kind \in {"before", "after"}, CaptureStatus(kind)
  PROVE  IInv'
<1>1. /\ UNCHANGED <<repo, found, before, after, base, final, touched, result, steps>>
      /\ pc = <<kind, "status">> /\ pc' = <<kind, "hash">> /\ todo' = Protected
      /\ snap' = [branch |-> snap.branch, head |-> snap.head,
                  tracked |-> TrackedLines, untracked |-> UntrackedLines, ignored |-> {},
                  hashes |-> [f \in Protected |-> Absent]]
  BY DEF CaptureStatus
<1>2. /\ pc # <<"done", "idle">> /\ Doing("status")
      /\ ~ Doing("head")' /\ ~ Doing("status")' /\ Doing("hash")'
      /\ HasBefore' => HasBefore
  BY <1>1 DEF Doing, HasBefore
<1>3. snap.branch \in Branch /\ snap.head \in Nat /\ RefsTold(snap, repo)
  BY <1>2 DEF IInv, SnapTold
<1>4. TrackedLines = TrackedIn(repo) /\ UntrackedLines = UntrackedIn(repo)
  BY DEF TrackedLines, TrackedIn, UntrackedLines, UntrackedIn, HeadTree, TreeOf
<1>5. TrackedIn(repo) \subseteq File /\ UntrackedIn(repo) \subseteq File
  BY DEF TrackedIn, UntrackedIn
<1>6. snap' \in Snapshot
  BY <1>1, <1>3, <1>4, <1>5 DEF Snapshot
<1>7. RefsTold(snap, repo)'
  BY <1>1, <1>3 DEF RefsTold
<1>8. LinesTold(snap, repo)'
  BY <1>1, <1>4 DEF LinesTold, TrackedIn, UntrackedIn, TreeOf
<1>9. HashesTold(snap, repo, todo)'
  BY <1>1 DEF HashesTold
<1>10. SnapTold'
  BY <1>2, <1>6, <1>7, <1>8, <1>9 DEF SnapTold, Snapshot
<1> QED
  BY <1>1, <1>2, <1>10, CaptureStep DEF IInv, Typed, TypeOK

(* then the contents of the protected paths: one more of them is told.     *)
LEMMA HashedIInv ==
  ASSUME IInv, NEW kind \in {"before", "after"}, NEW f \in todo, pc = <<kind, "hash">>,
         Hashed(f, repo.work[f]),
         UNCHANGED <<repo, pc, before, after, base, final, touched, result, steps>>
  PROVE  IInv'
<1>1. /\ UNCHANGED <<repo, pc, before, after, base, final, touched, result, steps>>
      /\ pc = <<kind, "hash">> /\ todo' = todo \ {f} /\ found' = Absent
      /\ snap' = [snap EXCEPT !.hashes[f] = repo.work[f]]
  BY DEF Hashed
<1>2. /\ pc # <<"done", "idle">> /\ Doing("hash")
      /\ ~ Doing("head")' /\ ~ Doing("status")' /\ Doing("hash")'
      /\ HasBefore' => HasBefore
  BY <1>1 DEF Doing, HasBefore
<1>3. snap \in Snapshot /\ RefsTold(snap, repo) /\ LinesTold(snap, repo)
      /\ HashesTold(snap, repo, todo)
  BY <1>2 DEF IInv, SnapTold
<1>4. repo.work \in Tree /\ f \in Protected /\ f \in File
  BY GuardAssumption DEF IInv, Typed, TypeOK
<1>5. /\ snap' \in Snapshot
      /\ snap'.branch = snap.branch /\ snap'.head = snap.head
      /\ snap'.tracked = snap.tracked /\ snap'.untracked = snap.untracked
      /\ snap'.hashes = [snap.hashes EXCEPT ![f] = repo.work[f]]
  BY <1>1, <1>3, <1>4 DEF Snapshot, Tree
<1>6. \A g \in Protected : snap'.hashes[g] = IF g = f THEN repo.work[f] ELSE snap.hashes[g]
  BY <1>3, <1>5 DEF Snapshot
<1>7. RefsTold(snap, repo)'
  BY <1>1, <1>3, <1>5 DEF RefsTold
<1>8. LinesTold(snap, repo)'
  BY <1>1, <1>3, <1>5 DEF LinesTold, TrackedIn, UntrackedIn, TreeOf
<1>9. HashesTold(snap, repo, todo)'
  BY <1>1, <1>3, <1>6 DEF HashesTold
<1>10. SnapTold'
  BY <1>2, <1>5, <1>7, <1>8, <1>9 DEF SnapTold, Snapshot
<1>11. todo' \subseteq Protected
  BY <1>1 DEF IInv, Typed, TypeOK
<1> QED
  BY <1>1, <1>2, <1>10, <1>11, CaptureStep

(* A capture that raises leaves no snapshot behind.                        *)
LEMMA RaisesIInv ==
  ASSUME IInv, pc # <<"done", "idle">>, pc' = <<"raised", "idle">>,
         todo' \in {todo, {}}, found' \in {found, Absent}, todo' = {} => found' = Absent,
         UNCHANGED <<repo, before, after, base, final, touched, result, steps>>
  PROVE  IInv'
<1>1. /\ ~ Doing("head")' /\ ~ Doing("status")' /\ ~ Doing("hash")'
      /\ ~ HasBefore' /\ ~ HasAfter' /\ pc' \in {<<r, "idle">> : r \in Resting}
  BY DEF Doing, HasBefore, HasAfter, Resting
<1>2. Typed'
  BY <1>1 DEF IInv, Typed, TypeOK, Repository, Snapshot
<1>3. (SnapTold /\ BeforeTold /\ AfterTold)'
  BY <1>1 DEF SnapTold, BeforeTold, AfterTold
<1>4. ResultTold'
  BY DEF IInv, ResultTold
<1> QED
  BY <1>2, <1>3, <1>4 DEF IInv

(* A file that is not there is told without being opened.                  *)
LEMMA CaptureIsFileIInv ==
  ASSUME IInv, NEW kind \in {"before", "after"}, NEW f \in Protected, CaptureIsFile(kind, f)
  PROVE  IInv'
<1>1. /\ UNCHANGED <<repo, pc, before, after, base, final, touched, result, steps>>
      /\ pc = <<kind, "hash">> /\ f \in todo
  BY DEF CaptureIsFile
<1>2. CASE repo.work[f] = Absent
  <2>1. Hashed(f, repo.work[f])
    BY <1>2 DEF CaptureIsFile
  <2> QED
    BY <1>1, <2>1, HashedIInv
<1>3. CASE repo.work[f] # Absent
  <2>1. found' = f /\ UNCHANGED <<todo, snap>>
    BY <1>3 DEF CaptureIsFile
  <2>2. /\ pc # <<"done", "idle">> /\ Doing("hash")
        /\ ~ Doing("head")' /\ ~ Doing("status")' /\ Doing("hash")'
        /\ HasBefore' => HasBefore
    BY <1>1 DEF Doing, HasBefore
  <2>3. SnapTold'
    BY <1>1, <2>1, <2>2 DEF IInv, SnapTold, RefsTold, LinesTold, HashesTold, TrackedIn,
       UntrackedIn, TreeOf, Snapshot
  <2> QED
    BY <1>1, <2>1, <2>2, <2>3, CaptureStep DEF IInv, Typed, TypeOK
<1> QED
  BY <1>2, <1>3

(* A file that was there is hashed, or is gone and makes the capture raise.*)
LEMMA CaptureHashIInv ==
  ASSUME IInv, NEW kind \in {"before", "after"}, CaptureHash(kind)
  PROVE  IInv'
<1>1. /\ UNCHANGED <<repo, before, after, base, final, touched, result, steps>>
      /\ pc = <<kind, "hash">> /\ found # Absent /\ found \in todo
  BY DEF CaptureHash, IInv, Typed, TypeOK
<1>2. CASE repo.work[found] = Absent
  BY <1>1, <1>2, RaisesIInv DEF CaptureHash
<1>3. CASE repo.work[found] # Absent
  <2>1. Hashed(found, repo.work[found]) /\ UNCHANGED pc
    BY <1>3 DEF CaptureHash
  <2> QED
    BY <1>1, <2>1, HashedIInv
<1> QED
  BY <1>2, <1>3

(* A capture that ends has told of the repository as it is at that moment. *)
LEMMA CaptureEndIInv ==
  ASSUME IInv, NEW kind \in {"before", "after"}, CaptureEnd(kind)
  PROVE  IInv'
<1>1. /\ UNCHANGED <<repo, todo, found, touched, result, steps>>
      /\ pc = <<kind, "hash">> /\ todo = {} /\ snap' = NoSnap
  BY DEF CaptureEnd
<1>2. Doing("hash") /\ pc # <<"done", "idle">>
  BY <1>1 DEF Doing
<1>3. snap \in Snapshot /\ Told(snap, repo)
  BY <1>1, <1>2 DEF IInv, SnapTold, Told, HashesTold
<1>4. repo \in Repository
  BY DEF IInv, Typed
<1>5. result = "none"
  BY <1>2 DEF IInv, ResultTold
<1>6. ResultTold'
  BY <1>1, <1>5 DEF ResultTold
<1>7. CASE kind = "before"
  <2>1. pc' = <<"ran", "idle">> /\ before' = snap /\ base' = repo /\ UNCHANGED <<after, final>>
    BY <1>7 DEF CaptureEnd
  <2>2. /\ ~ Doing("head")' /\ ~ Doing("status")' /\ ~ Doing("hash")' /\ ~ HasAfter'
        /\ pc' \in {<<r, "idle">> : r \in Resting}
    BY <2>1 DEF Doing, HasAfter, Resting
  <2>3. Typed'
    BY <1>1, <1>3, <2>1, <2>2 DEF IInv, Typed, TypeOK, Repository, Snapshot
  <2>4. SnapTold' /\ AfterTold'
    BY <2>2 DEF SnapTold, AfterTold
  <2>5. Grown(repo, repo)
    BY <1>4, GrownReflexive
  <2>6. BeforeTold'
    BY <1>1, <1>3, <1>4, <2>1, <2>5 DEF BeforeTold, Told, RefsTold, LinesTold, HashesTold,
       Grown, TrackedIn, UntrackedIn, TreeOf, Repository, Snapshot
  <2> QED
    BY <1>6, <2>3, <2>4, <2>6 DEF IInv
<1>8. CASE kind = "after"
  <2>1. /\ pc' = <<"compare", "idle">> /\ after' = snap /\ final' = repo
        /\ UNCHANGED <<before, base>>
    BY <1>8 DEF CaptureEnd
  <2>2. /\ ~ Doing("head")' /\ ~ Doing("status")' /\ ~ Doing("hash")' /\ HasBefore
        /\ pc' \in {<<r, "idle">> : r \in Resting}
    BY <1>1, <1>8, <2>1 DEF Doing, HasBefore, Resting
  <2>3. Typed'
    BY <1>1, <1>3, <2>1, <2>2 DEF IInv, Typed, TypeOK, Repository, Snapshot
  <2>4. SnapTold'
    BY <2>2 DEF SnapTold
  <2>5. /\ before \in Snapshot /\ base \in Repository
        /\ Told(before, base) /\ Grown(base, repo)
    BY <2>2 DEF IInv, BeforeTold
  <2>6. BeforeTold'
    BY <1>1, <2>1, <2>5 DEF BeforeTold, Told, RefsTold, LinesTold, HashesTold,
       Grown, TrackedIn, UntrackedIn, TreeOf, Repository, Snapshot
  <2>7. AfterTold'
    BY <1>1, <1>3, <1>4, <2>1, <2>5 DEF AfterTold, Told, RefsTold, LinesTold, HashesTold,
       Grown, TrackedIn, UntrackedIn, TreeOf, Repository, Snapshot
  <2> QED
    BY <1>6, <2>3, <2>4, <2>6, <2>7 DEF IInv
<1> QED
  BY <1>7, <1>8

(* A command that fails ends the capture.                                  *)
LEMMA CaptureRaisesIInv ==
  ASSUME IInv, CaptureRaises
  PROVE  IInv'
<1>1. /\ UNCHANGED <<repo, todo, found, before, after, base, final, touched, result, steps>>
      /\ pc # <<"done", "idle">> /\ pc' = <<"raised", "idle">>
  BY DEF CaptureRaises, At
<1>2. todo = {} => found = Absent
  BY DEF IInv, Typed, TypeOK
<1> QED
  BY <1>1, <1>2, RaisesIInv

(* The comparison sees what the two snapshots hold.                        *)
LEMMA CompareIInv ==
  ASSUME IInv, Compare
  PROVE  IInv'
<1>1. /\ UNCHANGED <<repo, todo, found, snap, before, after, base, final, touched, steps>>
      /\ pc = <<"compare", "idle">> /\ pc' = <<"done", "idle">>
      /\ result' = compare_snapshots(before, after)
  BY DEF Compare
<1>2. /\ ~ Doing("head")' /\ ~ Doing("status")' /\ ~ Doing("hash")'
      /\ HasBefore /\ HasAfter /\ pc' \in {<<r, "idle">> : r \in Resting}
  BY <1>1 DEF Doing, HasBefore, HasAfter, Resting
<1>3. result' \in {"EXACT_MATCH", "VOLATILE_ONLY", "INTEGRITY_FAILURE"}
  BY <1>1 DEF compare_snapshots
<1>4. Typed'
  BY <1>1, <1>2, <1>3 DEF IInv, Typed, TypeOK, Repository, Snapshot
<1>5. SnapTold'
  BY <1>2 DEF SnapTold
<1>6. BeforeTold' /\ AfterTold'
  BY <1>1, <1>2 DEF IInv, BeforeTold, AfterTold, Told, RefsTold, LinesTold, HashesTold,
     Grown, TrackedIn, UntrackedIn, TreeOf, Repository, Snapshot
<1>7. ResultTold'
  BY <1>1 DEF ResultTold, compare_snapshots, InvariantsUnchanged, UnexpectedDifference,
     VolatileDifference, SymDiff
<1> QED
  BY <1>4, <1>5, <1>6, <1>7 DEF IInv

(* Every step keeps the invariant.                                         *)
LEMMA NextIInv ==
  ASSUME IInv, [Next]_vars
  PROVE  IInv'
<1>1. CASE Work
  BY <1>1, EditIInv, StageIInv, RefsIInv DEF Work
<1>2. ASSUME NEW kind \in {"before", "after"},
             \/ CaptureBegin(kind) \/ CaptureHead(kind) \/ CaptureStatus(kind)
             \/ CaptureHash(kind) \/ CaptureEnd(kind)
             \/ \E f \in Protected : CaptureIsFile(kind, f)
      PROVE  IInv'
  BY <1>2, CaptureBeginIInv, CaptureHeadIInv, CaptureStatusIInv, CaptureIsFileIInv,
     CaptureHashIInv, CaptureEndIInv
<1>3. CASE CaptureRaises
  BY <1>3, CaptureRaisesIInv
<1>4. CASE Compare
  BY <1>4, CompareIInv
<1>5. CASE UNCHANGED vars
  <2>1. UNCHANGED <<repo, pc, todo, found, snap, before, after, base, final, touched, result,
                    steps>>
    BY <1>5 DEF vars, guard
  <2>2. Typed'
    BY <2>1 DEF IInv, Typed, TypeOK, Capturing, At, Repository, Snapshot
  <2>3. SnapTold'
    BY <2>1 DEF IInv, SnapTold, Doing, RefsTold, LinesTold, HashesTold, TrackedIn, UntrackedIn,
       TreeOf, Snapshot
  <2>4. BeforeTold' /\ AfterTold'
    BY <2>1 DEF IInv, BeforeTold, AfterTold, HasBefore, HasAfter, Told, RefsTold, LinesTold,
       HashesTold, Grown, TrackedIn, UntrackedIn, TreeOf, Repository, Snapshot
  <2>5. ResultTold'
    BY <2>1 DEF IInv, ResultTold, compare_snapshots, InvariantsUnchanged, UnexpectedDifference,
       VolatileDifference, SymDiff
  <2> QED
    BY <2>2, <2>3, <2>4, <2>5 DEF IInv
<1> QED
  BY <1>1, <1>2, <1>3, <1>4, <1>5 DEF Next

(* The invariant is inductive, whatever is edited, staged and committed    *)
(* under the captures.                                                     *)
THEOREM Inductive == Spec => []IInv
<1> QED
  BY InitIInv, NextIInv, PTL DEF Spec

-----------------------------------------------------------------------------
(* Whatever is done to the repository and whenever, the guard's state is   *)
(* what it should be: full snapshots, over the protected paths alone.      *)
THEOREM TypeCorrect == Spec => []TypeOK
<1>1. IInv => TypeOK
  BY DEF IInv, Typed
<1> QED
  BY <1>1, Inductive, PTL

(* What a comparison that passes knows: two snapshots, true of the         *)
(* repository where they were taken, that agree.                           *)
LEMMA PassedFacts ==
  ASSUME IInv, Passed
  PROVE  /\ before \in Snapshot /\ after \in Snapshot
         /\ base \in Repository /\ final \in Repository /\ Grown(base, final)
         /\ Told(before, base) /\ Told(after, final)
         /\ before.branch = after.branch /\ before.head = after.head
         /\ before.hashes = after.hashes /\ before.tracked = after.tracked
         /\ \A f \in File \ Volatile : f \in before.untracked <=> f \in after.untracked
<1>1. /\ pc = <<"done", "idle">>
      /\ compare_snapshots(before, after) \in {"EXACT_MATCH", "VOLATILE_ONLY"}
  BY DEF IInv, ResultTold, Passed
<1>2. HasBefore /\ HasAfter
  BY <1>1 DEF HasBefore, HasAfter
<1>3. InvariantsUnchanged(before, after) /\ ~ UnexpectedDifference(before, after)
  BY <1>1 DEF compare_snapshots
<1>4. \A f \in File \ Volatile : f \in before.untracked <=> f \in after.untracked
  BY <1>3 DEF UnexpectedDifference, SymDiff
<1> QED
  BY <1>2, <1>3, <1>4 DEF IInv, BeforeTold, AfterTold, InvariantsUnchanged

(* A run that passes has kept the content of every protected file that was *)
(* not changed during a capture: dirty or clean, tracked or not.           *)
THEOREM ProtectedIsKept == Spec => []ProtectedContentKept
<1>1. IInv => ProtectedContentKept
  BY PassedFacts DEF ProtectedContentKept, Told, HashesTold
<1> QED
  BY <1>1, Inductive, PTL

(* A run that passes has left every clean tracked file clean and the same, *)
(* on the same commit of the same branch, whatever was committed and reset *)
(* in between; only volatile untracked files have come or gone.            *)
THEOREM OnlyVolatileDrifts == Spec => []OnlyVolatileDrift
<1>1. ASSUME IInv, Passed
      PROVE  OnlyVolatileDrift
  <2>1. /\ base \in Repository /\ final \in Repository /\ Grown(base, final)
        /\ Told(before, base) /\ Told(after, final)
        /\ before.branch = after.branch /\ before.head = after.head
        /\ before.tracked = after.tracked
        /\ \A f \in File \ Volatile : f \in before.untracked <=> f \in after.untracked
    BY <1>1, PassedFacts
  <2>2. ASSUME REFS \notin touched
        PROVE  /\ final.branch = base.branch /\ final.head = base.head
               /\ \A f \in File \ touched : CleanIn(base, f) => CleanIn(final, f)
    <3>1. final.branch = base.branch /\ final.head = base.head
      BY <2>1, <2>2 DEF Told, RefsTold
    <3>2. TreeOf(base) = TreeOf(final)
      BY <2>1, <3>1, SameTree
    <3>3. \A f \in File \ touched : f \in TrackedIn(base) <=> f \in TrackedIn(final)
      BY <2>1, <2>2 DEF Told, LinesTold
    <3> QED
      BY <3>1, <3>2, <3>3 DEF CleanIn, TrackedIn
  <2>3. \A f \in File \ (Volatile \cup touched) :
          f \in UntrackedIn(base) <=> f \in UntrackedIn(final)
    BY <2>1 DEF Told, LinesTold
  <2> QED
    BY <2>2, <2>3 DEF OnlyVolatileDrift, UntrackedIn
<1>2. IInv => OnlyVolatileDrift
  BY <1>1 DEF OnlyVolatileDrift
<1> QED
  BY <1>2, Inductive, PTL

(* A run that leaves the repository as it was is never reported, if nobody *)
(* acts while the snapshots are captured.                                  *)
THEOREM UnchangedIsMatched == Spec => []UnchangedMatches
<1>1. ASSUME IInv, result # "none", touched = {}, final = base
      PROVE  result = "EXACT_MATCH"
  <2>1. pc = <<"done", "idle">> /\ result = compare_snapshots(before, after)
    BY <1>1 DEF IInv, ResultTold
  <2>2. HasBefore /\ HasAfter
    BY <2>1 DEF HasBefore, HasAfter
  <2>3. before \in Snapshot /\ after \in Snapshot /\ Told(before, base) /\ Told(after, base)
    BY <1>1, <2>2 DEF IInv, BeforeTold, AfterTold
  <2>4. before.branch = after.branch /\ before.head = after.head
    BY <1>1, <2>3 DEF Told, RefsTold
  <2>5. before.tracked = after.tracked /\ before.untracked = after.untracked
    BY <1>1, <2>3 DEF Told, LinesTold, Snapshot
  <2>6. before.hashes = after.hashes
    BY <1>1, <2>3 DEF Told, HashesTold, Snapshot
  <2>7. before.ignored = {} /\ after.ignored = {}
    BY <2>3 DEF Snapshot
  <2> QED
    BY <2>1, <2>4, <2>5, <2>6, <2>7 DEF compare_snapshots, InvariantsUnchanged,
       UnexpectedDifference, VolatileDifference, SymDiff
<1>2. IInv => UnchangedMatches
  BY <1>1 DEF UnchangedMatches
<1> QED
  BY <1>2, Inductive, PTL

=============================================================================
