------------------------- MODULE AtomicWriteProofs -------------------------
(***************************************************************************)
(* For any number of processes, names, values, writes, crashes and power   *)
(* losses: under the names that callers never write from two processes at  *)
(* a time, published artifacts are whole and the write path implements the *)
(* abstract store, whatever happens under the other names.                 *)
(***************************************************************************)
EXTENDS AtomicWrite, TLAPS

(* Nothing under one name shares an inode with a write under another.      *)
HandlesApart ==
  \A p \in Proc : op[p] # Idle =>
    /\ \A m \in Name : m # op[p].name =>
         link[Target(m)] # op[p].inode /\ link[Tmp(m)] # op[p].inode
    /\ \A q \in Proc : op[q] # Idle /\ op[q].name # op[p].name => op[q].inode # op[p].inode

(* The handle of an exclusive write is the temporary file's inode, so what *)
(* the process puts into it is what the rename will publish.               *)
HandleIsTmp ==
  \A p \in Proc : op[p].name \in Exclusive => link[Tmp(op[p].name)] = op[p].inode

OneWriterPerName ==
  \A p, q \in Proc : op[p].name \in Exclusive /\ op[q].name = op[p].name => p = q

(* What the temporary file holds at each point of an exclusive write.      *)
Filled(p) ==
  LET d == data[op[p].inode]
  IN  /\ d.value = op[p].value
      /\ op[p].pc = "opened" => d.extent = "empty"
      /\ op[p].pc = "begun" => d.extent = "partial"
      /\ op[p].pc \in {"written", "synced"} => d.extent = "complete"
      /\ op[p].pc = "synced" => d.synced

TmpIsFilled == \A p \in Proc : op[p].name \in Exclusive => Filled(p)

IInv ==
  /\ TypeOK /\ LinksDistinct /\ HandlesApart
  /\ HandleIsTmp /\ OneWriterPerName /\ TmpIsFilled /\ TargetsWhole

(* Targets and temporary files have different names.                       *)
LEMMA FileNames ==
  /\ \A n \in Name : Target(n) \in File /\ Tmp(n) \in File
  /\ \A m, n \in Name : Target(m) # Tmp(n)
  /\ \A m, n \in Name : Tmp(m) = Tmp(n) => m = n
  /\ \A m, n \in Name : Target(m) = Target(n) => m = n
BY DEF Target, Tmp, File

(* A process that is writing knows what, where and in which file.          *)
LEMMA BusyType ==
  ASSUME TypeOK, NEW p \in Proc, op[p] # Idle
  PROVE  /\ op[p].pc \in {"opened", "begun", "written", "synced"}
         /\ op[p].name \in Name /\ op[p].value \in Value /\ op[p].inode \in Inode
BY DEF TypeOK

(* An exclusive name is being written by a busy process only.              *)
LEMMA ExclusiveIsBusy ==
  /\ \A p \in Proc : op[p].name \in Exclusive => op[p] # Idle
  /\ Exclusive \subseteq Name /\ None \notin Exclusive
BY WriteAssumption DEF Idle

(* At first no file exists and no process writes.                          *)
LEMMA InitIInv == Init => IInv
<1> SUFFICES ASSUME Init
             PROVE  IInv
  OBVIOUS
<1>1. TypeOK
  BY WriteAssumption DEF Init, TypeOK, Extent
<1>2. LinksDistinct /\ HandlesApart
  BY DEF Init, LinksDistinct, HandlesApart
<1>3. HandleIsTmp /\ OneWriterPerName /\ TmpIsFilled
  BY ExclusiveIsBusy DEF Init, HandleIsTmp, OneWriterPerName, TmpIsFilled, Idle
<1>4. TargetsWhole
  BY FileNames, ExclusiveIsBusy DEF Init, TargetsWhole, Whole
<1> QED
  BY <1>1, <1>2, <1>3, <1>4 DEF IInv
-----------------------------------------------------------------------------
(* Opening a temporary file touches no other name: its inode is fresh, or  *)
(* the one already linked there.  Under an exclusive name nobody has it.   *)
LEMMA OpenIInv ==
  ASSUME IInv, NEW p \in Proc, NEW n \in Name, NEW v \in Value, Open(p, n, v)
  PROVE  IInv'
<1>1. PICK i \in Inode :
        /\ IF link[Tmp(n)] = None THEN i \in Free ELSE i = link[Tmp(n)]
        /\ link' = [link EXCEPT ![Tmp(n)] = i]
        /\ data' = [data EXCEPT ![i] = [value |-> v, extent |-> "empty", synced |-> FALSE]]
        /\ op' = [op EXCEPT ![p] = [pc |-> "opened", name |-> n, value |-> v, inode |-> i]]
  BY DEF Open
<1>2. TypeOK
  BY DEF IInv
<1>3. op[p] = Idle /\ (n \in Exclusive => \A q \in Proc : op[q].name # n)
  BY DEF Open
<1>4. \A f \in File : f # Tmp(n) => link[f] # i
  BY <1>1, <1>2, FileNames, WriteAssumption DEF IInv, LinksDistinct, Free, TypeOK
<1>5. \A q \in Proc : op[q] # Idle /\ op[q].name # n => op[q].inode # i
  <2>1. SUFFICES ASSUME NEW q \in Proc, op[q] # Idle, op[q].name # n
                 PROVE  op[q].inode # i
    OBVIOUS
  <2>2. link[Tmp(n)] # op[q].inode
    BY <2>1 DEF IInv, HandlesApart
  <2> QED
    BY <1>1, <2>2 DEF Free
<1>6. /\ link'[Tmp(n)] = i
      /\ \A f \in File : f # Tmp(n) => link'[f] = link[f]
      /\ op'[p].name = n /\ op'[p].inode = i /\ op'[p].value = v /\ op'[p].pc = "opened"
      /\ \A q \in Proc : q # p => op'[q] = op[q]
      /\ data'[i] = [value |-> v, extent |-> "empty", synced |-> FALSE]
      /\ \A j \in Inode : j # i => data'[j] = data[j]
  BY <1>1, <1>2, FileNames DEF TypeOK
<1>7. TypeOK'
  <2>1. link' \in [File -> Inode \cup {None}]
    BY <1>1, <1>2 DEF TypeOK
  <2>2. data' \in [Inode -> [value : Value \cup {None}, extent : Extent, synced : BOOLEAN]]
    BY <1>1, <1>2 DEF TypeOK, Extent
  <2>3. op' \in [Proc -> [pc : {"opened", "begun", "written", "synced"},
                          name : Name, value : Value, inode : Inode] \cup {Idle}]
    BY <1>1, <1>2 DEF TypeOK
  <2>4. writes' \in 0..MaxWrites /\ crashes' \in 0..MaxCrashes
    BY <1>2, WriteAssumption DEF TypeOK, Open
  <2> QED
    BY <2>1, <2>2, <2>3, <2>4 DEF TypeOK
<1>8. LinksDistinct'
  BY <1>1, <1>2, <1>4, FileNames DEF IInv, LinksDistinct, TypeOK
<1>9. HandlesApart'
  <2>1. SUFFICES ASSUME NEW q \in Proc, op'[q] # Idle
                 PROVE  /\ \A m \in Name : m # op'[q].name =>
                             link'[Target(m)] # op'[q].inode /\ link'[Tmp(m)] # op'[q].inode
                        /\ \A t \in Proc : op'[t] # Idle /\ op'[t].name # op'[q].name =>
                             op'[t].inode # op'[q].inode
    BY DEF HandlesApart, Target, Tmp
  <2>2. CASE q = p
    BY <1>4, <1>5, <1>6, <2>2, FileNames
  <2>3. CASE q # p
    <3>1. op'[q] = op[q] /\ op[q] # Idle
      BY <1>6, <2>1, <2>3
    <3>2. \A m \in Name : m # op[q].name =>
            link[Target(m)] # op[q].inode /\ link[Tmp(m)] # op[q].inode
      BY <3>1 DEF IInv, HandlesApart
    <3>3. \A t \in Proc : op[t] # Idle /\ op[t].name # op[q].name => op[t].inode # op[q].inode
      BY <3>1 DEF IInv, HandlesApart
    <3>4. \A m \in Name : m # op[q].name =>
            link'[Target(m)] # op[q].inode /\ link'[Tmp(m)] # op[q].inode
      BY <1>5, <1>6, <3>1, <3>2, FileNames
    <3> QED
      BY <1>5, <1>6, <3>1, <3>3, <3>4
  <2> QED
    BY <2>2, <2>3
<1>10. ASSUME NEW q \in Proc, q # p, op'[q].name \in Exclusive
       PROVE  /\ op'[q] = op[q] /\ op[q].name \in Exclusive /\ op[q].name \in Name
              /\ op[q].name # n /\ op[q].inode # i /\ op[q].inode \in Inode
  BY <1>2, <1>3, <1>5, <1>6, <1>10, ExclusiveIsBusy, BusyType
<1>11. HandleIsTmp'
  <2>1. SUFFICES ASSUME NEW q \in Proc, op'[q].name \in Exclusive
                 PROVE  link'[Tmp(op'[q].name)] = op'[q].inode
    BY DEF HandleIsTmp, Tmp
  <2>2. CASE q = p
    BY <1>6, <2>2
  <2>3. CASE q # p
    BY <1>6, <1>10, <2>1, <2>3, FileNames DEF IInv, HandleIsTmp
  <2> QED
    BY <2>2, <2>3
<1>12. OneWriterPerName'
  BY <1>3, <1>6 DEF IInv, OneWriterPerName
<1>13. TmpIsFilled'
  <2>1. SUFFICES ASSUME NEW q \in Proc, op'[q].name \in Exclusive
                 PROVE  Filled(q)'
    BY DEF TmpIsFilled
  <2>2. CASE q = p
    BY <1>6, <2>2 DEF Filled
  <2>3. CASE q # p
    <3>1. data'[op[q].inode] = data[op[q].inode]
      BY <1>6, <1>10, <2>1, <2>3
    <3> QED
      BY <1>10, <2>1, <2>3, <3>1 DEF IInv, TmpIsFilled, Filled
  <2> QED
    BY <2>2, <2>3
<1>14. TargetsWhole'
  <2>1. SUFFICES ASSUME NEW m \in Exclusive, link'[Target(m)] # None
                 PROVE  /\ data'[link'[Target(m)]].extent = "complete"
                        /\ data'[link'[Target(m)]].synced
    BY DEF TargetsWhole, Whole, Target
  <2>2. link'[Target(m)] = link[Target(m)] /\ link[Target(m)] \in Inode /\ link[Target(m)] # i
    BY <1>2, <1>4, <1>6, <2>1, FileNames, ExclusiveIsBusy DEF TypeOK
  <2> QED
    BY <1>6, <2>1, <2>2 DEF IInv, TargetsWhole, Whole
<1> QED
  BY <1>7, <1>8, <1>9, <1>11, <1>12, <1>13, <1>14 DEF IInv
-----------------------------------------------------------------------------
(* The inode of a write under way is no exclusive file's, and no exclusive *)
(* write's beside it.                                                      *)
LEMMA OwnInode ==
  ASSUME IInv, NEW p \in Proc, op[p] # Idle
  PROVE  /\ \A m \in Exclusive : link[Target(m)] # op[p].inode
         /\ \A q \in Proc : q # p /\ op[q].name \in Exclusive => op[q].inode # op[p].inode
<1>1. TypeOK /\ op[p].name \in Name /\ op[p].inode \in Inode /\ op[p].inode # None
  BY BusyType, WriteAssumption DEF IInv
<1>2. ASSUME NEW m \in Exclusive
      PROVE  link[Target(m)] # op[p].inode
  <2>1. CASE m = op[p].name
    <3>1. link[Tmp(m)] = op[p].inode
      BY <1>2, <2>1 DEF IInv, HandleIsTmp
    <3> QED
      BY <1>1, <2>1, <3>1, FileNames DEF IInv, LinksDistinct
  <2>2. CASE m # op[p].name
    BY <2>2, ExclusiveIsBusy DEF IInv, HandlesApart
  <2> QED
    BY <2>1, <2>2
<1>3. ASSUME NEW q \in Proc, q # p, op[q].name \in Exclusive
      PROVE  op[q].inode # op[p].inode
  <2>1. op[q] # Idle
    BY <1>3, ExclusiveIsBusy
  <2>2. op[q].name # op[p].name
    BY <1>3 DEF IInv, OneWriterPerName
  <2> QED
    BY <2>1, <2>2 DEF IInv, HandlesApart
<1> QED
  BY <1>2, <1>3

(* A process that only changes its own inode and its own pc.               *)
LEMMA FillIInv ==
  ASSUME IInv, NEW p \in Proc, op[p] # Idle,
         NEW pc \in {"begun", "written", "synced"}, Step(p, pc),
         NEW d \in [value : Value \cup {None}, extent : Extent, synced : BOOLEAN],
         data' = [data EXCEPT ![op[p].inode] = d],
         UNCHANGED <<link, writes, crashes>>,
         op[p].name \in Exclusive =>
           /\ d.value = op[p].value
           /\ d.extent = IF pc = "begun" THEN "partial" ELSE "complete"
           /\ pc = "synced" => d.synced
  PROVE  IInv'
<1>1. /\ TypeOK /\ op[p].name \in Name /\ op[p].value \in Value /\ op[p].inode \in Inode
      /\ op[p].pc \in {"opened", "begun", "written", "synced"}
  BY BusyType DEF IInv
<1>2. op[p] \in [pc : {"opened", "begun", "written", "synced"},
                 name : Name, value : Value, inode : Inode]
  BY <1>1 DEF TypeOK
<1>3. op' = [op EXCEPT ![p] = [op[p] EXCEPT !.pc = pc]]
  BY <1>1 DEF Step, TypeOK
<1>4. \A q \in Proc : q # p => op'[q] = op[q]
  BY <1>1, <1>3 DEF TypeOK
<1>5. /\ op'[p].pc = pc /\ op'[p].name = op[p].name
      /\ op'[p].value = op[p].value /\ op'[p].inode = op[p].inode
  BY <1>1, <1>2, <1>3 DEF TypeOK
<1>6. TypeOK'
  <2>1. op'[p] \in [pc : {"opened", "begun", "written", "synced"},
                    name : Name, value : Value, inode : Inode]
    BY <1>1, <1>2, <1>3 DEF TypeOK
  <2>2. op' \in [Proc -> [pc : {"opened", "begun", "written", "synced"},
                          name : Name, value : Value, inode : Inode] \cup {Idle}]
    BY <1>1, <1>3, <1>4, <2>1 DEF TypeOK
  <2>3. data' \in [Inode -> [value : Value \cup {None}, extent : Extent, synced : BOOLEAN]]
    BY <1>1 DEF TypeOK
  <2> QED
    BY <1>1, <2>2, <2>3 DEF TypeOK
<1>7. LinksDistinct'
  BY DEF IInv, LinksDistinct
<1>8. \A q \in Proc : op'[q].name = op[q].name /\ op'[q].inode = op[q].inode
  BY <1>4, <1>5
<1>9. HandlesApart'
  <2>1. \A q \in Proc : op'[q] # Idle => op[q] # Idle
    BY <1>4
  <2> QED
    BY <1>8, <2>1 DEF IInv, HandlesApart, Target, Tmp
<1>10. HandleIsTmp'
  BY <1>8 DEF IInv, HandleIsTmp, Tmp
<1>11. OneWriterPerName'
  BY <1>8 DEF IInv, OneWriterPerName
<1>12. TmpIsFilled'
  <2>1. SUFFICES ASSUME NEW q \in Proc, op'[q].name \in Exclusive
                 PROVE  Filled(q)'
    BY DEF TmpIsFilled
  <2>2. CASE q = p
    BY <1>1, <1>5, <2>1, <2>2 DEF TypeOK, Filled
  <2>3. CASE q # p
    <3>1. op'[q] = op[q] /\ op[q].name \in Exclusive /\ op[q].inode # op[p].inode
      BY <1>4, <2>1, <2>3, OwnInode
    <3>2. op[q].inode \in Inode
      BY <1>1, <3>1, ExclusiveIsBusy, BusyType
    <3>3. data'[op[q].inode] = data[op[q].inode]
      BY <1>1, <3>1, <3>2 DEF TypeOK
    <3> QED
      BY <3>1, <3>3 DEF IInv, TmpIsFilled, Filled
  <2> QED
    BY <2>2, <2>3
<1>13. TargetsWhole'
  <2>1. SUFFICES ASSUME NEW m \in Exclusive, link[Target(m)] # None
                 PROVE  /\ data'[link[Target(m)]].extent = "complete"
                        /\ data'[link[Target(m)]].synced
    BY DEF TargetsWhole, Whole, Target
  <2>2. link[Target(m)] \in Inode /\ link[Target(m)] # op[p].inode
    BY <1>1, <2>1, FileNames, ExclusiveIsBusy, OwnInode DEF TypeOK
  <2> QED
    BY <1>1, <2>1, <2>2 DEF IInv, TargetsWhole, Whole, TypeOK
<1> QED
  BY <1>6, <1>7, <1>9, <1>10, <1>11, <1>12, <1>13 DEF IInv

(* The steps that fill the temporary file.                                 *)
LEMMA FillStepIInv ==
  ASSUME IInv, NEW p \in Proc, WriteFirst(p) \/ WriteRest(p) \/ Fsync(p)
  PROVE  IInv'
<1>1. op[p] # Idle
  BY DEF WriteFirst, WriteRest, Fsync, Idle
<1>2. /\ TypeOK /\ op[p].inode \in Inode /\ op[p].value \in Value
      /\ data[op[p].inode] \in [value : Value \cup {None}, extent : Extent, synced : BOOLEAN]
  BY <1>1, BusyType DEF IInv, TypeOK
<1>3. op[p].name \in Exclusive => Filled(p)
  BY DEF IInv, TmpIsFilled
<1>4. ASSUME NEW before \in Extent, NEW after \in Extent, Put(p, before, after)
      PROVE  \E d \in [value : Value \cup {None}, extent : Extent, synced : BOOLEAN] :
               /\ data' = [data EXCEPT ![op[p].inode] = d]
               /\ d.value = op[p].value
               /\ data[op[p].inode].value = op[p].value /\ data[op[p].inode].extent = before
                    => d.extent = after
  <2> DEFINE mine == data[op[p].inode].value = op[p].value
                     /\ data[op[p].inode].extent = before
             d == [value |-> op[p].value, synced |-> FALSE,
                   extent |-> IF mine THEN after ELSE "garbled"]
  <2>1. d \in [value : Value \cup {None}, extent : Extent, synced : BOOLEAN]
    BY <1>2, <1>4 DEF Extent
  <2>2. data' = [data EXCEPT ![op[p].inode] = d]
    BY <1>4 DEF Put
  <2> QED
    BY <2>1, <2>2
<1>5. CASE WriteFirst(p)
  <2>1. PICK d \in [value : Value \cup {None}, extent : Extent, synced : BOOLEAN] :
          /\ data' = [data EXCEPT ![op[p].inode] = d]
          /\ d.value = op[p].value
          /\ data[op[p].inode].value = op[p].value /\ data[op[p].inode].extent = "empty"
               => d.extent = "partial"
    BY <1>4, <1>5 DEF WriteFirst, Extent
  <2>2. op[p].name \in Exclusive => d.extent = "partial"
    BY <1>3, <1>5, <2>1 DEF WriteFirst, Filled
  <2> QED
    BY <1>1, <1>5, <2>1, <2>2, FillIInv DEF WriteFirst
<1>6. CASE WriteRest(p)
  <2>1. PICK d \in [value : Value \cup {None}, extent : Extent, synced : BOOLEAN] :
          /\ data' = [data EXCEPT ![op[p].inode] = d]
          /\ d.value = op[p].value
          /\ data[op[p].inode].value = op[p].value /\ data[op[p].inode].extent = "partial"
               => d.extent = "complete"
    BY <1>4, <1>6 DEF WriteRest, Extent
  <2>2. op[p].name \in Exclusive => d.extent = "complete"
    BY <1>3, <1>6, <2>1 DEF WriteRest, Filled
  <2> QED
    BY <1>1, <1>6, <2>1, <2>2, FillIInv DEF WriteRest
<1>7. CASE Fsync(p)
  <2> DEFINE d == [data[op[p].inode] EXCEPT !.synced = TRUE]
  <2>1. data' = [data EXCEPT ![op[p].inode] = d]
    BY <1>7 DEF Fsync
  <2>2. d \in [value : Value \cup {None}, extent : Extent, synced : BOOLEAN]
    BY <1>2
  <2>3. d.synced /\ (op[p].name \in Exclusive => d.value = op[p].value /\ d.extent = "complete")
    BY <1>2, <1>3, <1>7 DEF Fsync, Filled
  <2> QED
    BY <1>1, <1>7, <2>1, <2>2, <2>3, FillIInv DEF Fsync
<1> QED
  BY <1>5, <1>6, <1>7
-----------------------------------------------------------------------------
(* The rename moves what is linked under the temporary name; under an      *)
(* exclusive name that is a complete, fsynced inode.                       *)
LEMMA ReplaceIInv ==
  ASSUME IInv, NEW p \in Proc, Replace(p)
  PROVE  IInv'
<1> DEFINE n == op[p].name
           i == link[Tmp(n)]
<1>1. op[p] # Idle
  BY DEF Replace, Idle
<1>2. TypeOK /\ n \in Name /\ i \in Inode /\ i # None
  BY <1>1, BusyType, FileNames, WriteAssumption DEF IInv, TypeOK, Replace
<1>3. n \in Exclusive => data[i].extent = "complete" /\ data[i].synced
  BY <1>1 DEF IInv, HandleIsTmp, TmpIsFilled, Filled, Replace
<1>4. /\ link'[Target(n)] = i /\ link'[Tmp(n)] = None
      /\ \A f \in File : f \notin {Target(n), Tmp(n)} => link'[f] = link[f]
      /\ link' \in [File -> Inode \cup {None}]
      /\ data' = data
  BY <1>2, FileNames DEF Replace, TypeOK
<1>5. /\ op'[p] = Idle
      /\ \A q \in Proc : q # p => op'[q] = op[q]
      /\ TypeOK'
  BY <1>2, <1>4 DEF Replace, TypeOK
<1>6. LinksDistinct'
  <2>1. SUFFICES ASSUME NEW f \in File, NEW g \in File, link'[f] # None, link'[f] = link'[g]
                 PROVE  f = g
    BY DEF LinksDistinct
  <2>2. f # Tmp(n) /\ g # Tmp(n)
    BY <1>4, <2>1
  <2>3. link[f] # i \/ f = Tmp(n)
    BY <1>2, FileNames DEF IInv, LinksDistinct
  <2>4. link[g] # i \/ g = Tmp(n)
    BY <1>2, FileNames DEF IInv, LinksDistinct
  <2> QED
    BY <1>4, <2>1, <2>2, <2>3, <2>4 DEF IInv, LinksDistinct
<1>7. ASSUME NEW q \in Proc, op'[q] # Idle
      PROVE  /\ q # p /\ op'[q] = op[q] /\ op[q] # Idle
             /\ op[q].name \in Name /\ op[q].inode \in Inode /\ op[q].inode # None
  BY <1>2, <1>5, <1>7, BusyType, WriteAssumption
<1>8. HandlesApart'
  <2>1. SUFFICES ASSUME NEW q \in Proc, op'[q] # Idle
                 PROVE  /\ \A m \in Name : m # op'[q].name =>
                             link'[Target(m)] # op'[q].inode /\ link'[Tmp(m)] # op'[q].inode
                        /\ \A t \in Proc : op'[t] # Idle /\ op'[t].name # op'[q].name =>
                             op'[t].inode # op'[q].inode
    BY DEF HandlesApart, Target, Tmp
  <2>2. \A m \in Name : m # op[q].name =>
          link[Target(m)] # op[q].inode /\ link[Tmp(m)] # op[q].inode
    BY <1>7, <2>1 DEF IInv, HandlesApart
  <2>3. \A t \in Proc : op[t] # Idle /\ op[t].name # op[q].name => op[t].inode # op[q].inode
    BY <1>7, <2>1 DEF IInv, HandlesApart
  <2>4. \A m \in Name : m # op[q].name =>
          link'[Target(m)] # op[q].inode /\ link'[Tmp(m)] # op[q].inode
    BY <1>2, <1>4, <1>7, <2>1, <2>2, FileNames
  <2> QED
    BY <1>7, <2>1, <2>3, <2>4
<1>9. ASSUME NEW q \in Proc, op'[q].name \in Exclusive
      PROVE  /\ op'[q] = op[q] /\ op[q].name \in Exclusive /\ op[q].name # n
             /\ op[q].name \in Name
  <2>1. op'[q] # Idle
    BY <1>9, WriteAssumption DEF Idle
  <2> QED
    BY <1>7, <1>9, <2>1 DEF IInv, OneWriterPerName
<1>10. HandleIsTmp'
  <2>1. SUFFICES ASSUME NEW q \in Proc, op'[q].name \in Exclusive
                 PROVE  link'[Tmp(op'[q].name)] = op'[q].inode
    BY DEF HandleIsTmp, Tmp
  <2> QED
    BY <1>2, <1>4, <1>9, <2>1, FileNames DEF IInv, HandleIsTmp
<1>11. OneWriterPerName'
  BY <1>5, WriteAssumption DEF IInv, OneWriterPerName, Idle
<1>12. TmpIsFilled'
  BY <1>4, <1>9 DEF IInv, TmpIsFilled, Filled
<1>13. TargetsWhole'
  <2>1. SUFFICES ASSUME NEW m \in Exclusive, link'[Target(m)] # None
                 PROVE  /\ data[link'[Target(m)]].extent = "complete"
                        /\ data[link'[Target(m)]].synced
    BY <1>4 DEF TargetsWhole, Whole, Target
  <2>2. CASE m = n
    BY <1>3, <1>4, <2>2
  <2>3. CASE m # n
    BY <1>2, <1>4, <2>1, <2>3, FileNames, ExclusiveIsBusy DEF IInv, TargetsWhole, Whole
  <2> QED
    BY <2>2, <2>3
<1> QED
  BY <1>5, <1>6, <1>8, <1>10, <1>11, <1>12, <1>13 DEF IInv

(* The processes that end a write, or die in it, leave what is linked and  *)
(* what is on disk alone.                                                  *)
LEMMA EndIInv ==
  ASSUME IInv, (\E p \in Proc : ReplaceRaises(p) \/ Crash(p)) \/ PowerLoss
  PROVE  IInv'
<1>1. TypeOK
  BY DEF IInv
<1>2. \A p \in Proc : op'[p] \in {op[p], Idle}
  BY <1>1 DEF ReplaceRaises, Crash, PowerLoss, TypeOK
<1>3. UNCHANGED link
  BY DEF ReplaceRaises, Crash, PowerLoss
<1>4. /\ \A i \in Inode : data'[i] = data[i] \/ (~ data[i].synced /\ op' = [q \in Proc |-> Idle])
      /\ data' \in [Inode -> [value : Value \cup {None}, extent : Extent, synced : BOOLEAN]]
  BY <1>1 DEF ReplaceRaises, Crash, PowerLoss, TypeOK, Extent
<1>5. TypeOK'
  <2>1. op' \in [Proc -> [pc : {"opened", "begun", "written", "synced"},
                          name : Name, value : Value, inode : Inode] \cup {Idle}]
    BY <1>1 DEF ReplaceRaises, Crash, PowerLoss, TypeOK
  <2>2. writes' \in 0..MaxWrites /\ crashes' \in 0..MaxCrashes
    BY <1>1, WriteAssumption DEF ReplaceRaises, Crash, PowerLoss, TypeOK
  <2> QED
    BY <1>1, <1>3, <1>4, <2>1, <2>2 DEF TypeOK
<1>6. LinksDistinct'
  BY <1>3 DEF IInv, LinksDistinct
<1>7. HandlesApart'
  BY <1>2, <1>3 DEF IInv, HandlesApart, Target, Tmp
<1>8. \A q \in Proc : op'[q].name \in Exclusive => op'[q] = op[q] /\ op'[q] # Idle
  BY <1>2, WriteAssumption DEF Idle
<1>9. HandleIsTmp' /\ OneWriterPerName'
  BY <1>2, <1>3, <1>8 DEF IInv, HandleIsTmp, OneWriterPerName, Tmp
<1>10. TmpIsFilled'
  <2>1. SUFFICES ASSUME NEW q \in Proc, op'[q].name \in Exclusive
                 PROVE  Filled(q)'
    BY DEF TmpIsFilled
  <2>2. op'[q] = op[q] /\ op'[q] # Idle /\ op[q].inode \in Inode
    BY <1>1, <1>8, <2>1, BusyType
  <2>3. data'[op[q].inode] = data[op[q].inode]
    BY <1>4, <2>2
  <2> QED
    BY <2>1, <2>2, <2>3 DEF IInv, TmpIsFilled, Filled
<1>11. TargetsWhole'
  <2>1. SUFFICES ASSUME NEW m \in Exclusive, link[Target(m)] # None
                 PROVE  /\ data'[link[Target(m)]].extent = "complete"
                        /\ data'[link[Target(m)]].synced
    BY <1>3 DEF TargetsWhole, Whole, Target
  <2>2. link[Target(m)] \in Inode
    BY <1>1, <2>1, FileNames, ExclusiveIsBusy DEF TypeOK
  <2> QED
    BY <1>4, <2>1, <2>2 DEF IInv, TargetsWhole, Whole
<1> QED
  BY <1>5, <1>6, <1>7, <1>9, <1>10, <1>11 DEF IInv

(* Every step keeps the invariant.                                         *)
LEMMA NextIInv == IInv /\ [Next]_vars => IInv'
<1>1. ASSUME IInv, UNCHANGED vars
      PROVE  IInv'
  BY <1>1 DEF IInv, TypeOK, LinksDistinct, HandlesApart, HandleIsTmp, OneWriterPerName,
              TmpIsFilled, Filled, TargetsWhole, Whole, Target, Tmp, vars
<1> QED
  BY <1>1, OpenIInv, FillStepIInv, ReplaceIInv, EndIInv DEF Next, WriteStep

(* The invariant is inductive, crashes and exclusive creation included.    *)
THEOREM Inductive == Spec => []IInv
BY InitIInv, NextIInv, PTL DEF Spec

(* Type correctness, however the names are shared.                         *)
THEOREM TypeCorrect == Spec => []TypeOK
<1>1. IInv => TypeOK
  BY DEF IInv
<1> QED
  BY <1>1, Inductive, PTL

(* LinksDistinct: no two files ever share an inode.                        *)
THEOREM FilesAreDistinct == Spec => []LinksDistinct
<1>1. IInv => LinksDistinct
  BY DEF IInv
<1> QED
  BY <1>1, Inductive, PTL

(* TargetsWhole: an artifact published under an exclusive name is one      *)
(* whole value on disk, for any number of writers, crashes and power       *)
(* losses, and whatever is written beside it.                              *)
THEOREM PublishedIsWhole == Spec => []TargetsWhole
<1>1. IInv => TargetsWhole
  BY DEF IInv
<1> QED
  BY <1>1, Inductive, PTL
-----------------------------------------------------------------------------
(* The mapped store and requests: only the rename under an exclusive name  *)
(* changes the first, only the beginning and the end of a write there the  *)
(* second.                                                                 *)
LEMMA StoreKept ==
  ASSUME \A n \in Exclusive : link'[Target(n)] = link[Target(n)],
         \A n \in Exclusive : link[Target(n)] # None =>
                               data'[link[Target(n)]] = data[link[Target(n)]]
  PROVE  StoreOf' = StoreOf
BY DEF StoreOf, Target

(* What is in the published files does not change when a process fills its *)
(* own temporary file.                                                     *)
LEMMA FillStutters ==
  ASSUME IInv, NEW p \in Proc, WriteFirst(p) \/ WriteRest(p) \/ Fsync(p)
  PROVE  UNCHANGED <<StoreOf, RequestOf>>
<1>1. op[p] # Idle
  BY DEF WriteFirst, WriteRest, Fsync, Idle
<1>2. TypeOK /\ op[p].inode \in Inode /\ op[p] \in [pc : {"opened", "begun", "written", "synced"},
                 name : Name, value : Value, inode : Inode]
  BY <1>1, BusyType DEF IInv, TypeOK
<1>3. StoreOf' = StoreOf
  <2>1. UNCHANGED link /\ \A i \in Inode : i # op[p].inode => data'[i] = data[i]
    BY <1>2 DEF WriteFirst, WriteRest, Fsync, Put, TypeOK
  <2>2. \A n \in Exclusive : link[Target(n)] # None =>
                        link[Target(n)] \in Inode /\ link[Target(n)] # op[p].inode
    BY <1>1, <1>2, OwnInode, FileNames, ExclusiveIsBusy DEF TypeOK
  <2>3. \A n \in Exclusive : link'[Target(n)] = link[Target(n)]
    BY <2>1 DEF Target
  <2> QED
    BY <2>1, <2>2, <2>3, StoreKept
<1>4. RequestOf' = RequestOf
  <2>1. PICK pc \in {"begun", "written", "synced"} : op' = [op EXCEPT ![p].pc = pc]
    BY DEF WriteFirst, WriteRest, Fsync, Step
  <2>2. \A q \in Proc : q # p => op'[q] = op[q]
    BY <1>2, <2>1 DEF TypeOK
  <2>3. op'[p] = [op[p] EXCEPT !.pc = pc]
    BY <1>2, <2>1 DEF TypeOK
  <2>4. op'[p].name = op[p].name /\ op'[p].value = op[p].value
    BY <1>2, <2>3
  <2> QED
    BY <2>2, <2>4 DEF RequestOf
<1> QED
  BY <1>3, <1>4

(* The begin of a write asks, if its name is exclusive, and is not seen    *)
(* otherwise.                                                              *)
LEMMA OpenAsks ==
  ASSUME IInv, NEW p \in Proc, NEW n \in Name, NEW v \in Value, Open(p, n, v)
  PROVE  IF n \in Exclusive THEN S!Ask(p, n, v) ELSE UNCHANGED <<StoreOf, RequestOf>>
<1>1. PICK i \in Inode :
        /\ IF link[Tmp(n)] = None THEN i \in Free ELSE i = link[Tmp(n)]
        /\ link' = [link EXCEPT ![Tmp(n)] = i]
        /\ data' = [data EXCEPT ![i] = [value |-> v, extent |-> "empty", synced |-> FALSE]]
        /\ op' = [op EXCEPT ![p] = [pc |-> "opened", name |-> n, value |-> v, inode |-> i]]
  BY DEF Open
<1>2. TypeOK /\ op[p] = Idle
  BY DEF IInv, Open
<1>3. StoreOf' = StoreOf
  <2>1. \A m \in Exclusive : link'[Target(m)] = link[Target(m)]
    BY <1>1, <1>2, FileNames, ExclusiveIsBusy DEF TypeOK
  <2>2. \A m \in Exclusive : link[Target(m)] # None =>
                        link[Target(m)] \in Inode /\ link[Target(m)] # i
    BY <1>1, <1>2, FileNames, ExclusiveIsBusy, WriteAssumption DEF IInv, LinksDistinct, Free, TypeOK
  <2>3. \A m \in Exclusive : link[Target(m)] # None =>
                             data'[link[Target(m)]] = data[link[Target(m)]]
    BY <1>1, <1>2, <2>2 DEF TypeOK
  <2> QED
    BY <2>1, <2>3, StoreKept
<1>4. /\ op'[p].name = n /\ op'[p].value = v
      /\ \A q \in Proc : q # p => op'[q] = op[q]
  BY <1>1, <1>2 DEF TypeOK
<1>5. op[p].name \notin Exclusive
  BY <1>2, ExclusiveIsBusy
<1>6. CASE n \in Exclusive
  <2>1. RequestOf' = [RequestOf EXCEPT ![p] = [name |-> n, value |-> v]]
    BY <1>4, <1>6 DEF RequestOf
  <2>2. RequestOf[p] = None
    BY <1>5 DEF RequestOf
  <2> QED
    BY <1>3, <1>6, <2>1, <2>2 DEF S!Ask
<1>7. CASE n \notin Exclusive
  <2>1. RequestOf' = RequestOf
    BY <1>4, <1>5, <1>7 DEF RequestOf
  <2> QED
    BY <1>3, <1>7, <2>1
<1> QED
  BY <1>6, <1>7

(* The rename commits, if the name is exclusive, and is not seen otherwise.*)
LEMMA ReplaceCommits ==
  ASSUME IInv, NEW p \in Proc, Replace(p)
  PROVE  IF op[p].name \in Exclusive THEN S!Commit(p) ELSE UNCHANGED <<StoreOf, RequestOf>>
<1>1. op[p] # Idle /\ TypeOK
  BY DEF Replace, Idle, IInv
<1>2. op[p].name \in Name /\ op[p].value \in Value
  BY <1>1, BusyType
<1>3. /\ op'[p] = Idle /\ Idle.name \notin Exclusive
      /\ \A q \in Proc : q # p => op'[q] = op[q]
  BY <1>1, WriteAssumption DEF Replace, TypeOK, Idle
<1>4. /\ link'[Target(op[p].name)] = link[Tmp(op[p].name)] /\ data' = data
      /\ \A m \in Name : m # op[p].name => link'[Target(m)] = link[Target(m)]
  BY <1>1, <1>2, FileNames DEF Replace, TypeOK
<1>5. CASE op[p].name \in Exclusive
  <2>1. /\ link[Tmp(op[p].name)] # None
        /\ data[link[Tmp(op[p].name)]].extent = "complete"
        /\ data[link[Tmp(op[p].name)]].value = op[p].value
    BY <1>5 DEF IInv, HandleIsTmp, TmpIsFilled, Filled, Replace
  <2>2. RequestOf[p] = [name |-> op[p].name, value |-> op[p].value]
    BY <1>5 DEF RequestOf
  <2>3. RequestOf[p] # None
    BY <1>2, <2>2, WriteAssumption
  <2>4. RequestOf' = [RequestOf EXCEPT ![p] = None]
    BY <1>3 DEF RequestOf
  <2>5. StoreOf' = [StoreOf EXCEPT ![op[p].name] = op[p].value]
    BY <1>2, <1>4, <1>5, <2>1, ExclusiveIsBusy DEF StoreOf, Target
  <2>6. RequestOf[p].name = op[p].name /\ RequestOf[p].value = op[p].value
    BY <2>2
  <2> QED
    BY <1>5, <2>3, <2>4, <2>5, <2>6 DEF S!Commit
<1>6. CASE op[p].name \notin Exclusive
  <2>1. StoreOf' = StoreOf
    BY <1>4, <1>6, ExclusiveIsBusy, StoreKept
  <2>2. RequestOf' = RequestOf
    BY <1>3, <1>6 DEF RequestOf
  <2> QED
    BY <1>6, <2>1, <2>2
<1> QED
  BY <1>5, <1>6

(* A write that ends in an exception or with its process is abandoned, and *)
(* a power loss abandons all of them.                                      *)
LEMMA EndAbandons ==
  ASSUME IInv
  PROVE  /\ \A p \in Proc : ReplaceRaises(p) \/ Crash(p) => S!Abandon({p})
         /\ PowerLoss => S!Abandon(Proc)
<1>1. TypeOK /\ Idle.name \notin Exclusive
  BY WriteAssumption DEF IInv, Idle
<1>2. ASSUME NEW p \in Proc, ReplaceRaises(p) \/ Crash(p)
      PROVE  S!Abandon({p})
  <2>1. link' = link /\ data' = data
    BY <1>2 DEF ReplaceRaises, Crash
  <2>2. StoreOf' = StoreOf
    BY <2>1, StoreKept DEF Target
  <2>3. op'[p] = Idle /\ \A q \in Proc : q # p => op'[q] = op[q]
    BY <1>1, <1>2 DEF ReplaceRaises, Crash, TypeOK
  <2> QED
    BY <1>1, <2>2, <2>3 DEF S!Abandon, RequestOf
<1>3. ASSUME PowerLoss
      PROVE  S!Abandon(Proc)
  <2>1. \A n \in Exclusive : link[Target(n)] # None =>
                         link[Target(n)] \in Inode /\ data[link[Target(n)]].synced
    BY <1>1, FileNames, ExclusiveIsBusy DEF IInv, TargetsWhole, Whole, TypeOK
  <2>2. \A i \in Inode : data[i].synced => data'[i] = data[i]
    BY <1>3 DEF PowerLoss
  <2>3. \A n \in Exclusive : link'[Target(n)] = link[Target(n)]
    BY <1>3 DEF PowerLoss, Target
  <2>4. StoreOf' = StoreOf
    BY <2>1, <2>2, <2>3, StoreKept
  <2> QED
    BY <1>1, <1>3, <2>4 DEF S!Abandon, RequestOf, PowerLoss
<1> QED
  BY <1>2, <1>3

(* Every step is a step of the abstract store, or changes nothing it sees. *)
LEMMA NextRefines == IInv /\ [Next]_vars => [S!Next]_<<StoreOf, RequestOf>>
<1> SUFFICES ASSUME IInv, [Next]_vars
             PROVE  S!Next \/ UNCHANGED <<StoreOf, RequestOf>>
  OBVIOUS
<1>1. ASSUME NEW p \in Proc, NEW n \in Name, NEW v \in Value, Open(p, n, v)
      PROVE  S!Next \/ UNCHANGED <<StoreOf, RequestOf>>
  BY <1>1, OpenAsks DEF S!Next
<1>2. ASSUME NEW p \in Proc, Replace(p)
      PROVE  S!Next \/ UNCHANGED <<StoreOf, RequestOf>>
  BY <1>2, ReplaceCommits DEF S!Next
<1>3. ASSUME NEW p \in Proc, WriteFirst(p) \/ WriteRest(p) \/ Fsync(p)
      PROVE  UNCHANGED <<StoreOf, RequestOf>>
  BY <1>3, FillStutters
<1>4. ASSUME (\E p \in Proc : ReplaceRaises(p) \/ Crash(p)) \/ PowerLoss
      PROVE  S!Next
  BY <1>4, EndAbandons DEF S!Next
<1>5. ASSUME UNCHANGED vars
      PROVE  UNCHANGED <<StoreOf, RequestOf>>
  BY <1>5 DEF vars, StoreOf, RequestOf, Target
<1> QED
  BY <1>1, <1>2, <1>3, <1>4, <1>5 DEF Next, WriteStep

(* ImplementsStore: under the exclusive names, writing an artifact is one  *)
(* atomic commit of the abstract store, whatever crashes, power losses and *)
(* writes under other names come between.                                  *)
THEOREM Refinement == Spec => ImplementsStore
<1>1. Init => S!Init
  BY FileNames, ExclusiveIsBusy DEF Init, S!Init, StoreOf, RequestOf, Idle
<1>2. IInv /\ [Next]_vars => [S!Next]_<<StoreOf, RequestOf>>
  BY NextRefines
<1> QED
  BY <1>1, <1>2, Inductive, PTL DEF Spec, ImplementsStore, S!Spec
=============================================================================
