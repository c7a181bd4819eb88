---------------------------- MODULE AtomicWrite ----------------------------
(***************************************************************************)
(* runtime_utils.py: write_json_atomic and write_text_atomic, as processes *)
(* run them on one evidence directory, down to the file-system calls: the  *)
(* temporary file is opened and truncated, filled in more than one write,  *)
(* fsynced, and renamed over the target.                                   *)
(*                                                                         *)
(* The directory links file names to inodes, and an open handle holds an   *)
(* inode: truncating or renaming a file another process has open acts on   *)
(* that process's inode too.  A crash takes a process out of its write     *)
(* between two calls (it dies, or json.dump raises); a power loss kills    *)
(* all of them and may empty every file not yet fsynced.  Renames are      *)
(* taken to be durable in order.                                           *)
(***************************************************************************)
EXTENDS Naturals, FiniteSets

CONSTANTS
  Proc,        \* processes, or threads, that write evidence
  Name,        \* artifact names
  Value,       \* the contents an artifact may be given
  Inode,       \* at least one per file and per process
  None,        \* no inode, no name, no value
  Exclusive,   \* the names callers never write from two processes at a time
  MaxWrites,   \* bound on the writes started
  MaxCrashes   \* bound on crashes and power losses

ASSUME WriteAssumption ==
  /\ None \notin Name \cup Value \cup Inode \cup [name : Name, value : Value]
  /\ Exclusive \subseteq Name
  /\ MaxWrites \in Nat /\ MaxCrashes \in Nat

Target(n) == <<n, "target">>
Tmp(n) == <<n, "tmp">>                  \* target.with_name(target.name + ".tmp")
File == Name \X {"target", "tmp"}

VARIABLES
  link,        \* the directory: the inode of each file, or None
  data,        \* what each inode holds: of which value, how much, fsynced or not
  op,          \* per process: where its write is, and its arguments and handle
  writes,      \* writes started so far
  crashes      \* crashes and power losses so far

vars == <<link, data, op, writes, crashes>>

Extent == {"empty", "partial", "complete", "garbled"}
Idle == [pc |-> "idle", name |-> None, value |-> None, inode |-> None]

TypeOK ==
  /\ link \in [File -> Inode \cup {None}]
  /\ data \in [Inode -> [value : Value \cup {None}, extent : Extent, synced : BOOLEAN]]
  /\ op \in [Proc -> [pc : {"opened", "begun", "written", "synced"},
                      name : Name, value : Value, inode : Inode] \cup {Idle}]
  /\ writes \in 0..MaxWrites
  /\ crashes \in 0..MaxCrashes

Init ==
  /\ link = [f \in File |-> None]
  /\ data = [i \in Inode |-> [value |-> None, extent |-> "empty", synced |-> FALSE]]
  /\ op = [p \in Proc |-> Idle]
  /\ writes = 0 /\ crashes = 0

-----------------------------------------------------------------------------
Free == {i \in Inode : (\A f \in File : link[f] # i) /\ (\A p \in Proc : op[p].inode # i)}

Step(p, pc) == op' = [op EXCEPT ![p].pc = pc]

(* temporary.open("w"): an existing temporary file is truncated in place,  *)
(* whoever left it or has it open.                                         *)
Open(p, n, v) ==
  /\ op[p] = Idle
  /\ writes < MaxWrites
  /\ n \in Exclusive => \A q \in Proc : op[q].name # n
  /\ \E i \in Inode :
       /\ IF link[Tmp(n)] = None THEN i \in Free /\ i = CHOOSE j \in Free : TRUE
          ELSE i = link[Tmp(n)]
       /\ link' = [link EXCEPT ![Tmp(n)] = i]
       /\ data' = [data EXCEPT ![i] = [value |-> v, extent |-> "empty", synced |-> FALSE]]
       /\ op' = [op EXCEPT ![p] = [pc |-> "opened", name |-> n, value |-> v, inode |-> i]]
  /\ writes' = writes + 1
  /\ UNCHANGED crashes

(* A write at the handle's own offset extends what the process wrote       *)
(* before; over anything else it garbles the file.                         *)
Put(p, before, after) ==
  LET i == op[p].inode
      mine == data[i].value = op[p].value /\ data[i].extent = before
  IN  data' = [data EXCEPT ![i] = [value |-> op[p].value, synced |-> FALSE,
                                   extent |-> IF mine THEN after ELSE "garbled"]]

WriteFirst(p) ==
  /\ op[p].pc = "opened"
  /\ Put(p, "empty", "partial")
  /\ Step(p, "begun")
  /\ UNCHANGED <<link, writes, crashes>>

WriteRest(p) ==
  /\ op[p].pc = "begun"
  /\ Put(p, "partial", "complete")
  /\ Step(p, "written")
  /\ UNCHANGED <<link, writes, crashes>>

(* Mutant: the file is flushed to the system but not to the disk.          *)
FsyncSkipped(p) ==
  /\ op[p].pc = "written"
  /\ Step(p, "synced")
  /\ UNCHANGED <<link, data, writes, crashes>>

Fsync(p) ==
  /\ op[p].pc = "written"
  /\ data' = [data EXCEPT ![op[p].inode].synced = TRUE]
  /\ Step(p, "synced")
  /\ UNCHANGED <<link, writes, crashes>>

(* Mutants: the file is renamed before the rest is written; it is linked   *)
(* in place of renamed.                                                    *)
ReplaceEarly(p) ==
  LET n == op[p].name
  IN  /\ op[p].pc \in {"begun", "synced"}
      /\ link[Tmp(n)] # None
      /\ link' = [link EXCEPT ![Target(n)] = link[Tmp(n)], ![Tmp(n)] = None]
      /\ op' = [op EXCEPT ![p] = Idle]
      /\ UNCHANGED <<data, writes, crashes>>
LinkOnly(p) ==
  LET n == op[p].name
  IN  /\ op[p].pc = "synced"
      /\ link[Tmp(n)] # None
      /\ link' = [link EXCEPT ![Target(n)] = link[Tmp(n)]]
      /\ op' = [op EXCEPT ![p] = Idle]
      /\ UNCHANGED <<data, writes, crashes>>

(* os.replace(temporary, target): the name is renamed, not the handle.     *)
Replace(p) ==
  LET n == op[p].name
  IN  /\ op[p].pc = "synced"
      /\ link[Tmp(n)] # None
      /\ link' = [link EXCEPT ![Target(n)] = link[Tmp(n)], ![Tmp(n)] = None]
      /\ op' = [op EXCEPT ![p] = Idle]
      /\ UNCHANGED <<data, writes, crashes>>

(* Mutant: the rename is tried again until it succeeds.                    *)
ReplaceRetries(p) ==
  /\ op[p].pc = "synced"
  /\ link[Tmp(op[p].name)] = None
  /\ UNCHANGED vars

(* FileNotFoundError: somebody else has renamed the temporary file.        *)
ReplaceRaises(p) ==
  /\ op[p].pc = "synced"
  /\ link[Tmp(op[p].name)] = None
  /\ op' = [op EXCEPT ![p] = Idle]
  /\ UNCHANGED <<link, data, writes, crashes>>

(* Mutant: the arguments of the dead write are kept.                       *)
CrashHalfReset(p) ==
  /\ op[p] # Idle
  /\ crashes < MaxCrashes
  /\ crashes' = crashes + 1
  /\ Step(p, "idle")
  /\ UNCHANGED <<link, data, writes>>

Crash(p) ==
  /\ op[p] # Idle
  /\ crashes < MaxCrashes
  /\ crashes' = crashes + 1
  /\ op' = [op EXCEPT ![p] = Idle]
  /\ UNCHANGED <<link, data, writes>>

PowerLoss ==
  /\ crashes < MaxCrashes
  /\ crashes' = crashes + 1
  /\ op' = [p \in Proc |-> Idle]
  /\ \E lost \in SUBSET {i \in Inode : ~ data[i].synced} :
       data' = [i \in Inode |-> IF i \in lost THEN [data[i] EXCEPT !.extent = "empty"]
                                ELSE data[i]]
  /\ UNCHANGED <<link, writes>>

WriteStep(p) == WriteFirst(p) \/ WriteRest(p) \/ Fsync(p) \/ Replace(p) \/ ReplaceRaises(p)

Next ==
  \/ \E p \in Proc :
       \/ \E n \in Name, v \in Value : Open(p, n, v)
       \/ WriteStep(p)
       \/ Crash(p)
  \/ PowerLoss

Spec == Init /\ [][Next]_vars
FairSpec == Spec /\ \A p \in Proc : WF_vars(WriteStep(p))

-----------------------------------------------------------------------------
(* "Atomic writes": whatever an exclusive target holds is one whole value,  *)
(* safe on disk, whichever calls, crashes and power losses came before, and *)
(* whatever becomes of the names written beside it.                        *)
Whole(n) ==
  link[Target(n)] # None =>
    LET d == data[link[Target(n)]] IN d.extent = "complete" /\ d.synced

TargetsWhole == \A n \in Exclusive : Whole(n)

(* No two files share an inode: renaming a temporary file never leaves the *)
(* published file open to a later truncation.                              *)
LinksDistinct ==
  \A f, g \in File : link[f] # None /\ link[f] = link[g] => f = g

(* A write that is under way and does not crash is done with eventually, if *)
(* need be with an exception: neither the leftover temporary file of a     *)
(* crashed write nor another writer's rename can block it.                 *)
WritesEnd == \A p \in Proc : op[p] # Idle ~> op[p] = Idle

(* On the exclusive names the write path implements the abstract store: a   *)
(* value appears under its name in one step, at the rename, and an         *)
(* interrupted write shows nothing.                                        *)
StoreOf == [n \in Exclusive |->
  IF link[Target(n)] = None THEN None
  ELSE IF data[link[Target(n)]].extent = "complete" THEN data[link[Target(n)]].value
  ELSE data[link[Target(n)]].extent]
RequestOf == [p \in Proc |->
  IF op[p].name \in Exclusive THEN [name |-> op[p].name, value |-> op[p].value] ELSE None]

S == INSTANCE ArtifactStore
       WITH store <- StoreOf, request <- RequestOf, Name <- Exclusive,
            Absent <- None, NoRequest <- None
ImplementsStore == S!Spec
=============================================================================
