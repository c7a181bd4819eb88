----------------------------- MODULE RepoGuard -----------------------------
(***************************************************************************)
(* repo_guard.py: a snapshot of a git repository is captured before and    *)
(* after an agent ran, and the two are compared.  A snapshot takes several *)
(* reads, one git command or one hashed file each, and whoever works in    *)
(* the repository may act between any two of them.                         *)
(*                                                                         *)
(* Git itself is modelled as the guard uses it: per file the content in    *)
(* the commit, the index and the work tree, and the lines git status       *)
(* prints for it.  Rename detection, quoting and submodules are left out.  *)
(***************************************************************************)
EXTENDS Naturals, Sequences

CONSTANTS
  File, Value, Absent,
  Branch,        \* branch names
  Ignored,       \* files .gitignore names
  Protected,     \* protected_paths, the same for both snapshots
  Volatile,      \* volatile_paths
  StartTree, StartWork,   \* the commit and the work trees at the start
  MaxSteps       \* bound on what is done to the repository

Tree == [File -> Value \cup {Absent}]

ASSUME GuardAssumption ==
  /\ Absent \notin Value \cup File
  /\ Ignored \cup Protected \cup Volatile \subseteq File
  /\ StartTree \in Tree /\ StartWork \subseteq Tree
  /\ MaxSteps \in Nat

VARIABLES
  repo,          \* the repository: branch, commits, head, index, work
  pc,            \* where the guard is
  todo,          \* protected files not yet hashed by the capture under way
  found,         \* the protected file is_file has found and that is hashed next
  snap,          \* what that capture has read so far
  before, after, \* the snapshots that were captured
  base, final,   \* history: the repository when each capture ended
  touched,       \* history: what was changed while a capture was under way
  result,        \* the classification compare_snapshots returned
  steps

guard == <<pc, todo, found, snap, before, after, base, final, result>>
vars == <<repo, guard, touched, steps>>

NoSnap == [head |-> 0]
NoRepo == [head |-> 0]
REFS == "refs"                           \* the branch and the commit
Resting == {"start", "ran", "compare", "done", "raised"}
At(kind, pcs) == pc \in {<<kind, s>> : s \in pcs}
Capturing == At("before", {"head", "status", "hash"}) \/ At("after", {"head", "status", "hash"})

TypeOK ==
  /\ repo.branch \in Branch /\ repo.head \in 1..Len(repo.commits)
  /\ repo.commits \in Seq(Tree) /\ repo.index \in Tree /\ repo.work \in Tree
  /\ Capturing \/ pc \in {<<r, "idle">> : r \in Resting}
  /\ todo \subseteq Protected /\ found \in todo \cup {Absent}
  /\ \A s \in {before, after} :
       s = NoSnap \/ /\ s.tracked \subseteq File /\ s.untracked \subseteq File
                     /\ s.hashes \in [Protected -> Value \cup {Absent}]
  /\ touched \subseteq File \cup {REFS}
  /\ result \in {"none", "EXACT_MATCH", "VOLATILE_ONLY", "INTEGRITY_FAILURE"}
  /\ steps \in 0..MaxSteps

Init ==
  /\ \E w \in StartWork, b \in Branch :
       repo = [branch |-> b, commits |-> <<StartTree>>, head |-> 1,
               index |-> StartTree, work |-> w]
  /\ pc = <<"start", "idle">>
  /\ todo = {} /\ found = Absent /\ touched = {}
  /\ snap = NoSnap /\ before = NoSnap /\ after = NoSnap
  /\ base = NoRepo /\ final = NoRepo
  /\ result = "none"
  /\ steps = 0

-----------------------------------------------------------------------------
(* Git: what status --porcelain=v1 --untracked-files=all prints.  Without  *)
(* --ignored it never prints an ignored file.                              *)
HeadTree == repo.commits[repo.head]

(* Mutant: the lines of volatile paths are dropped, tracked or not.        *)
TrackedNotVolatile ==
  {f \in File \ Volatile : /\ HeadTree[f] # Absent \/ repo.index[f] # Absent
                           /\ HeadTree[f] # repo.index[f] \/ repo.work[f] # repo.index[f]}

TrackedLines ==
  {f \in File : /\ HeadTree[f] # Absent \/ repo.index[f] # Absent
                /\ HeadTree[f] # repo.index[f] \/ repo.work[f] # repo.index[f]}

UntrackedLines ==
  {f \in File : repo.index[f] = Absent /\ repo.work[f] # Absent /\ f \notin Ignored}

-----------------------------------------------------------------------------
(* What the agent, or anybody, does in the repository.                     *)
Touch(what, r) ==
  /\ pc # <<"done", "idle">> /\ steps < MaxSteps
  /\ steps' = steps + 1
  /\ r # repo /\ repo' = r
  /\ touched' = IF Capturing THEN touched \cup what ELSE touched
  /\ UNCHANGED guard

Edit(f, v) == Touch({f}, [repo EXCEPT !.work[f] = v])
Stage(f) == Touch({f}, [repo EXCEPT !.index[f] = repo.work[f]])
Unstage(f) == \E v \in {HeadTree[f], Absent} : Touch({f}, [repo EXCEPT !.index[f] = v])
Commit == Touch({REFS}, [repo EXCEPT !.commits = Append(@, repo.index),
                                     !.head = Len(repo.commits) + 1])
SoftReset == \E c \in 1..Len(repo.commits) : Touch({REFS}, [repo EXCEPT !.head = c])
SwitchBranch == \E b \in Branch : Touch({REFS}, [repo EXCEPT !.branch = b])

Work ==
  \/ \E f \in File : Stage(f) \/ Unstage(f) \/ \E v \in Value \cup {Absent} : Edit(f, v)
  \/ Commit \/ SoftReset \/ SwitchBranch

-----------------------------------------------------------------------------
(* capture_snapshot, read by read: the branch, ...                         *)
CaptureBegin(kind) ==
  /\ pc = IF kind = "before" THEN <<"start", "idle">> ELSE <<"ran", "idle">>
  /\ pc' = <<kind, "head">>
  /\ snap' = [branch |-> repo.branch]
  /\ UNCHANGED <<repo, todo, found, before, after, base, final, touched, result, steps>>

(* ... the commit, ...                                                     *)
CaptureHead(kind) ==
  /\ pc = <<kind, "head">>
  /\ pc' = <<kind, "status">>
  /\ snap' = [branch |-> snap.branch, head |-> repo.head]
  /\ UNCHANGED <<repo, todo, found, before, after, base, final, touched, result, steps>>

(* ... the status lines (no line of an ignored file is ever among them),   *)
CaptureStatus(kind) ==
  /\ pc = <<kind, "status">>
  /\ pc' = <<kind, "hash">>
  /\ snap' = [branch |-> snap.branch, head |-> snap.head,
              tracked |-> TrackedLines, untracked |-> UntrackedLines, ignored |-> {},
              hashes |-> [f \in Protected |-> Absent]]
  /\ todo' = Protected
  /\ UNCHANGED <<repo, found, before, after, base, final, touched, result, steps>>

(* ... and of the protected files, one by one, those that exist.           *)
Hashed(f, digest) ==
  /\ snap' = [snap EXCEPT !.hashes[f] = digest]
  /\ todo' = todo \ {f}
  /\ found' = Absent

CaptureIsFile(kind, f) ==
  /\ pc = <<kind, "hash">> /\ found = Absent /\ f \in todo
  /\ IF repo.work[f] = Absent THEN Hashed(f, Absent)
     ELSE found' = f /\ UNCHANGED <<todo, snap>>
  /\ UNCHANGED <<repo, pc, before, after, base, final, touched, result, steps>>

(* Mutant: the branch name is stored where the digest belongs.             *)
HashMisplaced(kind) ==
  /\ pc = <<kind, "hash">> /\ found # Absent
  /\ todo' = todo \ {found} /\ found' = Absent
  /\ snap' = [snap EXCEPT !.hashes = [g \in {found} |-> snap.branch]]
  /\ UNCHANGED <<repo, pc, before, after, base, final, touched, result, steps>>

(* The FileNotFoundError of a file gone since is_file is not caught.       *)
CaptureHash(kind) ==
  /\ pc = <<kind, "hash">> /\ found # Absent
  /\ IF repo.work[found] = Absent
     THEN pc' = <<"raised", "idle">> /\ snap' = NoSnap /\ todo' = {} /\ found' = Absent
     ELSE Hashed(found, repo.work[found]) /\ UNCHANGED pc
  /\ UNCHANGED <<repo, before, after, base, final, touched, result, steps>>

CaptureEnd(kind) ==
  /\ pc = <<kind, "hash">> /\ todo = {}
  /\ snap' = NoSnap
  /\ IF kind = "before"
     THEN pc' = <<"ran", "idle">> /\ before' = snap /\ base' = repo /\ UNCHANGED <<after, final>>
     ELSE pc' = <<"compare", "idle">> /\ after' = snap /\ final' = repo
          /\ UNCHANGED <<before, base>>
  /\ UNCHANGED <<repo, todo, found, touched, result, steps>>

(* A git command fails or times out: RepositoryGuardError, no snapshot.    *)
CaptureRaises ==
  /\ \/ pc \in {<<"start", "idle">>, <<"ran", "idle">>}
     \/ At("before", {"head", "status"}) \/ At("after", {"head", "status"})
  /\ pc' = <<"raised", "idle">>
  /\ snap' = NoSnap
  /\ UNCHANGED <<repo, todo, found, before, after, base, final, touched, result, steps>>

-----------------------------------------------------------------------------
(* compare_snapshots.                                                      *)
(* Mutants: the digests are not compared; any volatile file that is there  *)
(* counts as a difference.                                                 *)
DigestsUncompared(b, a) ==
  b.branch = a.branch /\ b.head = a.head /\ b.tracked = a.tracked
VolatilePresent(b, a) == a.untracked \cap Volatile # {}

SymDiff(S, T) == (S \ T) \cup (T \ S)

InvariantsUnchanged(b, a) ==
  /\ b.branch = a.branch /\ b.head = a.head
  /\ b.hashes = a.hashes
  /\ b.tracked = a.tracked

UnexpectedDifference(b, a) ==
  \/ SymDiff(b.untracked, a.untracked) \ Volatile # {}
  \/ b.tracked # a.tracked
  \/ b.ignored # a.ignored

VolatileDifference(b, a) == SymDiff(b.untracked, a.untracked) \cap Volatile # {}

compare_snapshots(b, a) ==
  IF ~ InvariantsUnchanged(b, a) \/ UnexpectedDifference(b, a) THEN "INTEGRITY_FAILURE"
  ELSE IF VolatileDifference(b, a) THEN "VOLATILE_ONLY"
  ELSE "EXACT_MATCH"

Compare ==
  /\ pc = <<"compare", "idle">>
  /\ pc' = <<"done", "idle">>
  /\ result' = compare_snapshots(before, after)
  /\ UNCHANGED <<repo, todo, found, snap, before, after, base, final, touched, steps>>

Next ==
  \/ Work
  \/ \E kind \in {"before", "after"} :
       \/ CaptureBegin(kind) \/ CaptureHead(kind) \/ CaptureStatus(kind)
       \/ CaptureHash(kind) \/ CaptureEnd(kind)
       \/ \E f \in Protected : CaptureIsFile(kind, f)
  \/ CaptureRaises
  \/ Compare

Spec == Init /\ [][Next]_vars

-----------------------------------------------------------------------------
Passed == result \in {"EXACT_MATCH", "VOLATILE_ONLY"}
TreeOf(r) == r.commits[r.head]
CleanIn(r, f) == TreeOf(r)[f] # Absent /\ r.index[f] = TreeOf(r)[f] /\ r.work[f] = TreeOf(r)[f]

(* A protected file keeps its content through a run that passes, dirty or  *)
(* clean, tracked or not, volatile or not, unless it was changed while a   *)
(* snapshot was being captured.                                            *)
ProtectedContentKept ==
  Passed => \A f \in Protected \ touched : final.work[f] = base.work[f]

(* "A volatile-path exemption never authorizes changes to tracked files":  *)
(* a tracked file that was clean before a run that passes is clean and the *)
(* same after it, on the same commit of the same branch, whatever was      *)
(* staged, committed, reset and restored in between; and of the untracked  *)
(* files that are not ignored only volatile ones come and go.              *)
OnlyVolatileDrift ==
  LET Untracked(r) == {f \in File \ Ignored : r.index[f] = Absent /\ r.work[f] # Absent}
  IN  Passed =>
        /\ REFS \notin touched =>
             /\ final.branch = base.branch /\ final.head = base.head
             /\ \A f \in File \ touched : CleanIn(base, f) => CleanIn(final, f)
        /\ \A f \in File \ (Volatile \cup touched) :
             f \in Untracked(base) <=> f \in Untracked(final)

(* No false alarm: if the run leaves the repository as it was, and nobody  *)
(* acts during the captures, the comparison finds an exact match.          *)
UnchangedMatches ==
  result # "none" /\ touched = {} /\ final = base => result = "EXACT_MATCH"

-----------------------------------------------------------------------------
(* "A tracked file disappeared - always an integrity failure".             *)
TrackedDisappearanceFails ==
  Passed /\ touched = {} =>
    \A f \in File : base.index[f] # Absent /\ base.work[f] # Absent => final.work[f] # Absent
=============================================================================
