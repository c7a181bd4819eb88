--------------------------- MODULE EvidenceProofs ---------------------------
(***************************************************************************)
(* What a manifest and its verification promise, for any processes, names  *)
(* and contents, however the writers, builders, verifiers, crashes and     *)
(* outside changes interleave.  Nothing here depends on fairness.          *)
(***************************************************************************)
EXTENDS EvidenceBundle, FiniteSetTheorems, SequenceTheorems, WellFoundedInduction, TLAPS

(* A manifest in memory: of some files of the directory, and perhaps of a  *)
(* name that leads out of it.                                              *)
Entries == UNION {[S -> Entry] : S \in SUBSET (Listed \cup {Foreign})}
Task ==
  [pc : {"idle", "writing", "written"} \cup Watching,
   name : Name \cup {Absent}, value : Value \cup {Absent},
   todo : SUBSET (Listed \cup {Foreign}), file : Listed \cup {Foreign, Absent},
   size : Nat, entries : Entries, errors : BOOLEAN]

Typed ==
  /\ dir \in [Listed -> Content \cup {Absent}]
  /\ manifest \in Forged \cup {Absent} \/ (manifest \in Entries /\ DOMAIN manifest \subseteq Listed)
  /\ task \in [Proc -> Task]
  /\ touched \in [Proc -> SUBSET File]
  /\ \A p \in Proc :
       /\ task[p].file \in task[p].todo \cup {Absent}
       /\ task[p].pc \in {"writing", "written"} => task[p].name \in Name /\ task[p].value \in Value
       /\ touched[p] # {} => task[p].pc \in Watching
  /\ changes \in 0..MaxChanges /\ runs \in 0..MaxRuns /\ crashes \in 0..MaxCrashes

(* A build under way, about every file nobody touched: one that exists is  *)
(* still to be listed or is listed as it is, and one that does not is      *)
(* neither; and the file at hand has the size that was read.               *)
BuildTold(p) ==
  LET t == task[p]
  IN  t.pc = "building" =>
        /\ t.todo \subseteq Listed /\ DOMAIN t.entries \subseteq Listed
        /\ \A f \in Listed \ touched[p] :
             /\ dir[f] = Absent => f \notin t.todo \cup DOMAIN t.entries
             /\ dir[f] # Absent => f \in t.todo \/ f \in DOMAIN t.entries
             /\ f \in DOMAIN t.entries \ t.todo => Matches(f, t.entries)
             /\ t.file = f => t.size = Size[dir[f]]

(* A manifest that is being saved or was: the same, but for the temporary  *)
(* file it is written to.                                                  *)
SaveTold(p) ==
  LET t == task[p]
  IN  t.pc \in {"saving", "built"} =>
        /\ DOMAIN t.entries \subseteq Listed
        /\ \A f \in Listed \ (touched[p] \cup {Tmp(MANIFEST)}) :
             /\ f \in DOMAIN t.entries <=> dir[f] # Absent
             /\ f \in DOMAIN t.entries => Matches(f, t.entries)

(* A verification: every untouched file that was looked at matches, unless *)
(* there was an error; an error has a cause, unless something was touched; *)
(* and the file at hand was there and has the right size.                  *)
VerifyTold(p) ==
  LET t == task[p]
  IN  t.pc \in {"verifying", "verified"} =>
        /\ t.todo \subseteq DOMAIN t.entries
        /\ t.pc = "verified" => t.todo = {}
        /\ ~ t.errors => \A f \in DOMAIN t.entries \ (touched[p] \cup t.todo) :
                           Matches(f, t.entries)
        /\ t.errors /\ touched[p] \cap (DOMAIN t.entries \cup {Target(MANIFEST)}) = {} =>
             \/ ~ Readable(manifest)
             \/ \E f \in DOMAIN t.entries : ~ Matches(f, t.entries)
        /\ t.file # Absent =>
             /\ t.file \in Listed
             /\ t.file \notin touched[p] =>
                  dir[t.file] # Absent /\ Size[dir[t.file]] = t.entries[t.file].size

RaiseTold(p) == task[p].pc = "raised" => touched[p] # {} \/ manifest = Malformed

Told(p) == BuildTold(p) /\ SaveTold(p) /\ VerifyTold(p) /\ RaiseTold(p)
IInv == Typed /\ \A p \in Proc : Told(p)

-----------------------------------------------------------------------------
(* The files of the directory are told apart by their names.               *)
LEMMA FileFacts ==
  /\ Absent \notin Listed \cup {Foreign} /\ Absent \notin Content
  /\ Foreign \notin File /\ Listed \subseteq File
  /\ Target(MANIFEST) \in File \ Listed /\ Tmp(MANIFEST) \in Listed
  /\ \A n \in Name : /\ Target(n) \in Listed /\ Tmp(n) \in Listed
                     /\ Tmp(n) # Target(n) /\ Target(n) # Tmp(MANIFEST)
<1>1. ".." \notin Name /\ MANIFEST \notin Name /\ ".." # MANIFEST
  BY EvidenceAssumption DEF MANIFEST
<1>2. Listed \subseteq File
  BY DEF Listed
<1>3. Foreign \notin File
  BY <1>1 DEF Foreign, File
<1>4. Target(MANIFEST) \in File \ Listed /\ Tmp(MANIFEST) \in Listed
  BY DEF Target, Tmp, File, Listed
<1>5. ASSUME NEW n \in Name
      PROVE  /\ Target(n) \in Listed /\ Tmp(n) \in Listed
             /\ Tmp(n) # Target(n) /\ Target(n) # Tmp(MANIFEST)
  BY <1>1 DEF Target, Tmp, File, Listed
<1> QED
  BY <1>2, <1>3, <1>4, <1>5, EvidenceAssumption

(* A manifest is a function from some of the names to entries.             *)
LEMMA EntriesType ==
  ASSUME NEW e
  PROVE  e \in Entries <=> DOMAIN e \subseteq Listed \cup {Foreign} /\ e \in [DOMAIN e -> Entry]
BY DEF Entries

(* What the entry of a file says of it.                                    *)
LEMMA MatchFacts ==
  ASSUME NEW e \in Entries, NEW f \in DOMAIN e, dir \in [Listed -> Content \cup {Absent}]
  PROVE  /\ e[f] \in Entry
         /\ Matches(f, e) <=> /\ f # Foreign /\ dir[f] # Absent
                              /\ e[f].size = Size[dir[f]] /\ e[f].digest = dir[f]
<1>1. e[f] \in [size : Nat, digest : Content]
  BY EntriesType DEF Entry
<1> QED
  BY <1>1 DEF Matches, Fingerprint, Entry

(* The empty manifest is one.                                              *)
LEMMA NoEntries == <<>> \in Entries /\ DOMAIN <<>> = {}
<1>1. DOMAIN <<>> = {}
  OBVIOUS
<1>2. <<>> \in [{} -> Entry]
  OBVIOUS
<1> QED
  BY <1>1, <1>2, EntriesType

(* A process with nothing to do is a process.                              *)
LEMMA IdleType == Idle \in Task
BY NoEntries DEF Idle, Task

(* A manifest that can be read and is an object is one of entries.         *)
LEMMA ReadableIsEntries ==
  ASSUME Typed, Readable(manifest), manifest # Malformed
  PROVE  manifest \in Entries
<1>1. CASE manifest \in Forged
  <2> DEFINE out == [f \in {Foreign} |-> [size |-> 0, digest |-> "partial"]]
  <2>1. manifest = out
    BY <1>1 DEF Forged, Readable
  <2>2. out \in [{Foreign} -> Entry]
    BY DEF Entry, Content
  <2> QED
    BY <2>1, <2>2 DEF Entries
<1> QED
  BY <1>1 DEF Typed, Readable

(* The types of the proof are those of the specification, and more.        *)
LEMMA TypedTypeOK == Typed => TypeOK
<1> SUFFICES ASSUME Typed
             PROVE  TypeOK
  OBVIOUS
<1>1. manifest \in Forged \cup {Absent} \/ IsManifest(manifest)
  BY EntriesType DEF Typed, IsManifest
<1>2. ASSUME NEW p \in Proc
      PROVE  /\ task[p].pc \in {"idle", "writing", "written"} \cup Watching
             /\ task[p].name \in Name \cup {Absent} /\ task[p].value \in Value \cup {Absent}
             /\ task[p].todo \subseteq Listed \cup {Foreign}
             /\ task[p].file \in task[p].todo \cup {Absent}
             /\ task[p].size \in Nat /\ task[p].errors \in BOOLEAN
             /\ touched[p] \subseteq File
             /\ touched[p] # {} => task[p].pc \in Watching
  <2>1. task[p] \in Task
    BY DEF Typed
  <2> QED
    BY <2>1 DEF Typed, Task
<1> QED
  BY <1>1, <1>2 DEF Typed, TypeOK

(* The directory is empty and no process works.                            *)
LEMMA InitIInv == Init => IInv
<1> SUFFICES ASSUME Init
             PROVE  IInv
  OBVIOUS
<1>1. \A p \in Proc : /\ task[p] = Idle /\ task[p].pc = "idle" /\ task[p].file = Absent
                      /\ touched[p] = {}
  BY DEF Init, Idle
<1>2. Typed
  <2>1. changes \in 0..MaxChanges /\ runs \in 0..MaxRuns /\ crashes \in 0..MaxCrashes
    BY EvidenceAssumption DEF Init
  <2>2. task \in [Proc -> Task] /\ touched \in [Proc -> SUBSET File]
    BY IdleType DEF Init
  <2>3. dir \in [Listed -> Content \cup {Absent}] /\ manifest \in Forged \cup {Absent}
    BY DEF Init
  <2> QED
    BY <1>1, <2>1, <2>2, <2>3 DEF Typed
<1> QED
  BY <1>1, <1>2 DEF IInv, Told, BuildTold, SaveTold, VerifyTold, RaiseTold

-----------------------------------------------------------------------------
(* What a change does to the history: the files are touched for every      *)
(* other process that is watching.                                         *)
LEMMA TouchFacts ==
  ASSUME Typed, NEW who, NEW files \in SUBSET File, Touch(who, files)
  PROVE  /\ touched' \in [Proc -> SUBSET File]
         /\ \A q \in Proc :
              /\ touched[q] \subseteq touched'[q]
              /\ q \in who \/ task[q].pc \notin Watching => touched'[q] = touched[q]
              /\ q \notin who /\ task[q].pc \in Watching => files \subseteq touched'[q]
BY DEF Typed, Touch

(* What a process was told stays true when others act: what they change,   *)
(* they touch.                                                             *)
LEMMA Bystander ==
  ASSUME Typed, Typed', NEW p \in Proc, Told(p), task'[p] = task[p],
         task[p].pc \in Watching =>
           /\ touched[p] \subseteq touched'[p]
           /\ \A f \in Listed \ touched'[p] : dir'[f] = dir[f]
           /\ manifest' = manifest \/ Target(MANIFEST) \in touched'[p]
  PROVE  Told(p)'
<1> DEFINE t == task[p]
<1>1. CASE t.pc \notin Watching
  BY <1>1 DEF Told, BuildTold, SaveTold, VerifyTold, RaiseTold, Watching
<1>2. CASE t.pc \in Watching
  <2>1. /\ touched[p] \subseteq touched'[p]
        /\ \A f \in Listed \ touched'[p] : dir'[f] = dir[f]
        /\ manifest' = manifest \/ Target(MANIFEST) \in touched'[p]
    BY <1>2
  <2>2. /\ t.entries \in Entries /\ DOMAIN t.entries \subseteq Listed \cup {Foreign}
        /\ t \in Task
    BY EntriesType DEF Typed, Task
  <2>3. \A f \in (Listed \cup {Foreign}) \ touched'[p] :
          Matches(f, t.entries)' <=> Matches(f, t.entries)
    BY <2>1 DEF Matches
  <2>4. BuildTold(p)'
    BY <2>1, <2>3 DEF Told, BuildTold
  <2>5. SaveTold(p)'
    BY <2>1, <2>3 DEF Told, SaveTold
  <2>6. VerifyTold(p)'
    BY <2>1, <2>2, <2>3 DEF Told, VerifyTold, Readable
  <2>7. RaiseTold(p)'
    BY <2>1 DEF Told, RaiseTold
  <2> QED
    BY <2>4, <2>5, <2>6, <2>7 DEF Told
<1> QED
  BY <1>1, <1>2

(* A step that leaves q its work and touches for it whatever it changes.   *)
Unharmed(q) ==
  /\ task[q].pc \notin Watching => touched'[q] = touched[q]
  /\ task[q].pc \in Watching =>
       /\ touched[q] \subseteq touched'[q]
       /\ \A f \in Listed \ touched'[q] : dir'[f] = dir[f]
       /\ manifest' = manifest \/ Target(MANIFEST) \in touched'[q]

TypedRest ==
  /\ dir \in [Listed -> Content \cup {Absent}]
  /\ manifest \in Forged \cup {Absent} \/ (manifest \in Entries /\ DOMAIN manifest \subseteq Listed)
  /\ touched \in [Proc -> SUBSET File]
  /\ changes \in 0..MaxChanges /\ runs \in 0..MaxRuns /\ crashes \in 0..MaxCrashes

(* A step of one process: the invariant follows from what it does itself.  *)
LEMMA ProcessStep ==
  ASSUME IInv, NEW p \in Proc, NEW u \in Task, Goto(p, u), TypedRest',
         u.file \in u.todo \cup {Absent},
         u.pc \in {"writing", "written"} => u.name \in Name /\ u.value \in Value,
         touched'[p] # {} => u.pc \in Watching,
         \A q \in Proc \ {p} : Unharmed(q),
         u.pc \in Watching => (task'[p] = u => Told(p)')
  PROVE  IInv'
<1>1. /\ task' \in [Proc -> Task] /\ task'[p] = u
      /\ \A q \in Proc \ {p} : task'[q] = task[q]
  BY DEF IInv, Typed, Goto
<1>2. Typed'
  <2>1. ASSUME NEW q \in Proc \ {p}
        PROVE  (/\ task[q].file \in task[q].todo \cup {Absent}
                /\ task[q].pc \in {"writing", "written"} =>
                     task[q].name \in Name /\ task[q].value \in Value
                /\ touched[q] # {} => task[q].pc \in Watching)'
    BY <1>1 DEF IInv, Typed, Unharmed, Watching
  <2> QED
    BY <1>1, <2>1 DEF Typed, TypedRest, Forged, Entries, Entry
<1>3. \A q \in Proc \ {p} : Told(q)'
  BY <1>1, <1>2, Bystander DEF IInv, Unharmed
<1>4. Told(p)'
  BY <1>1 DEF Told, BuildTold, SaveTold, VerifyTold, RaiseTold, Watching
<1> QED
  BY <1>2, <1>3, <1>4 DEF IInv

(* A step that changes nothing but the process itself.                     *)
LEMMA QuietStep ==
  ASSUME IInv, NEW p \in Proc, NEW u \in Task, Goto(p, u),
         u.file \in u.todo \cup {Absent}, u.pc \notin {"writing", "written"},
         UNCHANGED <<dir, manifest>>,
         TypedRest',
         \/ touched' = touched /\ u.pc \in Watching
         \/ touched' = [touched EXCEPT ![p] = {}],
         u.pc \in Watching => (task'[p] = u => Told(p)')
  PROVE  IInv'
<1>1. \A q \in Proc \ {p} : Unharmed(q)
  BY DEF IInv, Typed, Unharmed
<1>2. touched'[p] # {} => u.pc \in Watching
  BY DEF IInv, Typed
<1> QED
  BY <1>1, <1>2, ProcessStep

(* What a step must keep of the types, when it changes nothing but the     *)
(* process,                                                                *)
LEMMA RestUnchanged ==
  ASSUME Typed, UNCHANGED <<dir, manifest, counters>>, touched' \in [Proc -> SUBSET File]
  PROVE  TypedRest'
BY DEF Typed, TypedRest, counters, Forged, Entries, Entry

(* when it begins a run,                                                   *)
LEMMA RunCounted ==
  ASSUME Typed, UNCHANGED <<dir, manifest>>, touched' \in [Proc -> SUBSET File], Run
  PROVE  TypedRest'
<1>1. runs' \in 0..MaxRuns
  BY EvidenceAssumption DEF Typed, Run
<1> QED
  BY <1>1 DEF Typed, TypedRest, Run, Forged, Entries, Entry

(* and when something changes a file from outside.                         *)
LEMMA ChangeCounted ==
  ASSUME Typed, dir' \in [Listed -> Content \cup {Absent}],
         manifest' = manifest \/ manifest' \in Forged \cup {Absent},
         touched' \in [Proc -> SUBSET File], Change \/ UNCHANGED counters
  PROVE  TypedRest'
<1>1. changes' \in 0..MaxChanges /\ runs' = runs /\ crashes' = crashes
  BY EvidenceAssumption DEF Typed, Change, counters
<1> QED
  BY <1>1 DEF Typed, TypedRest, Forged, Entries, Entry

-----------------------------------------------------------------------------
(* An artifact write begins with its temporary file,                       *)
LEMMA WriteBeginIInv ==
  ASSUME IInv, NEW p \in Proc, NEW n \in Name, NEW v \in Value, WriteBegin(p, n, v)
  PROVE  IInv'
<1> DEFINE u == [Idle EXCEPT !.pc = "writing", !.name = n, !.value = v]
<1>1. /\ u \in Task /\ u.pc = "writing" /\ u.name = n /\ u.value = v
      /\ u.file = Absent
  BY NoEntries DEF Idle, Task
<1>2. /\ task[p] = Idle /\ Goto(p, u) /\ dir' = [dir EXCEPT ![Tmp(n)] = "partial"]
      /\ Touch({p}, {Tmp(n)}) /\ Change /\ manifest' = manifest
  BY DEF WriteBegin, Begin
<1>3. Typed /\ task[p].pc \notin Watching
  BY <1>2 DEF IInv, Idle, Watching
<1>4. /\ touched' \in [Proc -> SUBSET File] /\ touched'[p] = touched[p] /\ touched[p] = {}
      /\ \A q \in Proc \ {p} : Unharmed(q)
  <2>1. {Tmp(n)} \subseteq File
    BY FileFacts
  <2> QED
    BY <1>2, <1>3, <2>1, TouchFacts DEF Typed, Unharmed
<1>5. dir' \in [Listed -> Content \cup {Absent}]
  BY <1>2, <1>3 DEF Typed, Content
<1>6. TypedRest'
  BY <1>2, <1>3, <1>4, <1>5, ChangeCounted
<1> HIDE DEF u
<1> QED
  BY <1>1, <1>2, <1>4, <1>6, ProcessStep DEF Watching

(* fills it,                                                               *)
LEMMA WriteFillIInv ==
  ASSUME IInv, NEW p \in Proc, WriteFill(p)
  PROVE  IInv'
<1> DEFINE n == task[p].name
           u == [task[p] EXCEPT !.pc = "written"]
<1>1. Typed /\ task[p] \in Task /\ task[p].pc = "writing" /\ n \in Name /\ task[p].value \in Value
  BY DEF IInv, Typed, WriteFill
<1>2. /\ u \in Task /\ u.pc = "written" /\ u.name = n /\ u.value = task[p].value
      /\ u.file = task[p].file /\ u.todo = task[p].todo
  BY <1>1 DEF Task
<1>3. /\ Goto(p, u) /\ dir' = [dir EXCEPT ![Tmp(n)] = task[p].value]
      /\ Touch({p}, {Tmp(n)}) /\ UNCHANGED counters /\ manifest' = manifest
  BY DEF WriteFill
<1>4. /\ touched' \in [Proc -> SUBSET File] /\ touched'[p] = touched[p] /\ touched[p] = {}
      /\ \A q \in Proc \ {p} : Unharmed(q)
  <2>1. {Tmp(n)} \subseteq File /\ task[p].pc \notin Watching
    BY <1>1, FileFacts DEF Watching
  <2> QED
    BY <1>1, <1>3, <2>1, TouchFacts DEF Typed, Unharmed
<1>5. dir' \in [Listed -> Content \cup {Absent}]
  BY <1>1, <1>3 DEF Typed, Content
<1>6. TypedRest'
  BY <1>1, <1>3, <1>4, <1>5, ChangeCounted
<1>7. u.file \in u.todo \cup {Absent}
  BY <1>1, <1>2 DEF Typed
<1> HIDE DEF u
<1> QED
  BY <1>1, <1>2, <1>3, <1>4, <1>6, <1>7, ProcessStep DEF Watching

(* and renames it.                                                         *)
LEMMA WriteReplaceIInv ==
  ASSUME IInv, NEW p \in Proc, WriteReplace(p)
  PROVE  IInv'
<1> DEFINE n == task[p].name
<1>1. Typed /\ task[p].pc = "written" /\ n \in Name
  BY DEF IInv, Typed, WriteReplace
<1>2. /\ Goto(p, Idle)
      /\ dir' = [dir EXCEPT ![Target(n)] = dir[Tmp(n)], ![Tmp(n)] = Absent]
      /\ Touch({p}, {Target(n), Tmp(n)}) /\ UNCHANGED counters /\ manifest' = manifest
  BY DEF WriteReplace
<1>3. /\ touched' \in [Proc -> SUBSET File] /\ touched'[p] = touched[p] /\ touched[p] = {}
      /\ \A q \in Proc \ {p} : Unharmed(q)
  <2>1. {Target(n), Tmp(n)} \subseteq File /\ task[p].pc \notin Watching
    BY <1>1, FileFacts DEF Watching
  <2> QED
    BY <1>1, <1>2, <2>1, TouchFacts DEF Typed, Unharmed
<1>4. dir' \in [Listed -> Content \cup {Absent}]
  BY <1>1, <1>2, FileFacts DEF Typed
<1>5. TypedRest'
  BY <1>1, <1>2, <1>3, <1>4, ChangeCounted
<1>6. Idle.pc = "idle" /\ Idle.file = Absent
  BY DEF Idle
<1> QED
  BY <1>2, <1>3, <1>5, <1>6, IdleType, ProcessStep DEF Watching

(* An append to a stream changes one file in place.                        *)
LEMMA AppendEventIInv ==
  ASSUME IInv, NEW p \in Proc, NEW n \in Name, NEW v \in Value, AppendEvent(p, n, v)
  PROVE  IInv'
<1>1. /\ task[p] = Idle /\ dir' = [dir EXCEPT ![Target(n)] = v]
      /\ Touch({p}, {Target(n)}) /\ Change /\ manifest' = manifest /\ task' = task
  BY DEF AppendEvent
<1>2. Typed /\ Idle.pc = "idle" /\ Idle.file = Absent
  BY DEF IInv, Idle
<1>3. Goto(p, Idle)
  BY <1>1, <1>2 DEF Typed, Goto
<1>4. /\ touched' \in [Proc -> SUBSET File] /\ touched'[p] = touched[p] /\ touched[p] = {}
      /\ \A q \in Proc \ {p} : Unharmed(q)
  <2>1. {Target(n)} \subseteq File /\ task[p].pc \notin Watching
    BY <1>1, <1>2, FileFacts DEF Watching
  <2> QED
    BY <1>1, <1>2, <2>1, TouchFacts DEF Typed, Unharmed
<1>5. dir' \in [Listed -> Content \cup {Absent}]
  BY <1>1, <1>2 DEF Typed, Content
<1>6. TypedRest'
  BY <1>1, <1>2, <1>4, <1>5, ChangeCounted
<1> QED
  BY <1>2, <1>3, <1>4, <1>6, IdleType, ProcessStep DEF Watching

-----------------------------------------------------------------------------
(* build_manifest, step by step.                                           *)
LEMMA BuildBeginIInv ==
  ASSUME IInv, NEW p \in Proc, BuildBegin(p)
  PROVE  IInv'
<1> DEFINE all == {f \in Listed : dir[f] # Absent}
           u == [Idle EXCEPT !.pc = "building", !.todo = all]
<1>1. /\ u \in Task /\ u.pc = "building" /\ u.todo = all
      /\ u.file = Absent /\ u.entries = <<>>
  BY NoEntries DEF Idle, Task, Watching
<1>2. /\ Goto(p, u) /\ touched' = [touched EXCEPT ![p] = {}] /\ Run
      /\ dir' = dir /\ manifest' = manifest
  BY DEF BuildBegin, Begin
<1>3. Typed /\ TypedRest'
  BY <1>2, RunCounted DEF IInv, Typed
<1>4. ASSUME task'[p] = u
      PROVE  Told(p)'
  BY <1>1, <1>2, <1>4, NoEntries, FileFacts DEF Told, BuildTold, SaveTold, VerifyTold, RaiseTold
<1> HIDE DEF u
<1> QED
  BY <1>1, <1>2, <1>3, <1>4, QuietStep DEF Watching

(* A build reads the size of a file that exists, or raises.                *)
LEMMA BuildStatIInv ==
  ASSUME IInv, NEW p \in Proc, NEW f \in Listed \cup {Foreign}, BuildStat(p, f)
  PROVE  IInv'
<1> DEFINE t == task[p]
           gone == [t EXCEPT !.todo = @ \ {f}]
           found == [t EXCEPT !.file = f, !.size = Size[dir[f]]]
           u == IF dir[f] = Absent THEN gone ELSE found
<1>1. Typed /\ t \in Task /\ t.pc = "building" /\ t.file = Absent /\ f \in t.todo /\ BuildTold(p)
  BY DEF IInv, Typed, Told, BuildStat
<1>2. t.todo \subseteq Listed /\ f \in Listed
  BY <1>1 DEF BuildTold
<1>3. dir[f] # Absent => Size[dir[f]] \in Nat
  BY <1>1, <1>2, EvidenceAssumption DEF Typed
<1>4. /\ u \in Task /\ u.pc = "building" /\ u.entries = t.entries
      /\ u.file \in u.todo \cup {Absent}
      /\ dir[f] = Absent => u.todo = t.todo \ {f} /\ u.file = Absent
      /\ dir[f] # Absent => u.todo = t.todo /\ u.file = f /\ u.size = Size[dir[f]]
  BY <1>1, <1>2, <1>3 DEF Task
<1>5. /\ Goto(p, u) /\ touched' = touched /\ UNCHANGED counters
      /\ dir' = dir /\ manifest' = manifest
  BY DEF BuildStat
<1> HIDE DEF u, gone, found
<1>6. TypedRest'
  BY <1>1, <1>5, RestUnchanged DEF Typed
<1>7. ASSUME task'[p] = u
      PROVE  Told(p)'
  <2>1. \A e, g : Matches(g, e)' <=> Matches(g, e)
    BY <1>5 DEF Matches
  <2>2. BuildTold(p)'
    BY <1>1, <1>4, <1>5, <1>7, <2>1, FileFacts DEF BuildTold
  <2> QED
    BY <1>4, <1>7, <2>2 DEF Told, SaveTold, VerifyTold, RaiseTold
<1> QED
  BY <1>4, <1>5, <1>6, <1>7, QuietStep DEF Watching

(* The entry that is added matches, if the file was not touched since its  *)
(* size was read; without a file to hash, somebody has touched it.         *)
LEMMA BuildHashIInv ==
  ASSUME IInv, NEW p \in Proc, BuildHash(p)
  PROVE  IInv'
<1> DEFINE t == task[p]
           f == t.file
           e == [size |-> t.size, digest |-> dir[f]]
           D == DOMAIN t.entries \cup {f}
           es == [g \in D |-> IF g = f THEN e ELSE t.entries[g]]
<1>1. Typed /\ t \in Task /\ t.pc = "building" /\ f # Absent /\ f \in t.todo /\ BuildTold(p)
  BY DEF IInv, Typed, Told, BuildHash
<1>2. t.todo \subseteq Listed /\ f \in Listed /\ DOMAIN t.entries \subseteq Listed
  BY <1>1 DEF BuildTold
<1>3. touched' = touched /\ UNCHANGED counters /\ dir' = dir /\ manifest' = manifest
  BY DEF BuildHash
<1>4. TypedRest'
  BY <1>1, <1>3, RestUnchanged DEF Typed
<1>5. CASE dir[f] = Absent
  <2> DEFINE u == [Idle EXCEPT !.pc = "raised"]
  <2>1. u \in Task /\ u.pc = "raised" /\ u.file = Absent
    BY NoEntries DEF Idle, Task, Watching
  <2>2. Goto(p, u)
    BY <1>5 DEF BuildHash
  <2>3. f \in touched[p]
    BY <1>1, <1>2, <1>5 DEF BuildTold
  <2>4. ASSUME task'[p] = u
        PROVE  Told(p)'
    BY <1>3, <2>1, <2>3, <2>4 DEF Told, BuildTold, SaveTold, VerifyTold, RaiseTold
  <2> HIDE DEF u
  <2> QED
    BY <1>3, <1>4, <2>1, <2>2, <2>4, QuietStep DEF Watching
<1>6. CASE dir[f] # Absent
  <2> DEFINE u == [t EXCEPT !.file = Absent, !.size = 0, !.todo = @ \ {f}, !.entries = es]
  <2>1. Goto(p, u)
    BY <1>6 DEF BuildHash
  <2>2. e \in Entry /\ e.size = t.size /\ e.digest = dir[f]
    BY <1>1, <1>2, <1>6 DEF Typed, Task, Entry
  <2>3. t.entries \in Entries /\ \A g \in DOMAIN t.entries : t.entries[g] \in Entry
    BY <1>1, EntriesType DEF Task
  <2> HIDE DEF e
  <2>4. /\ DOMAIN es = D /\ D \subseteq Listed /\ es[f] = e
        /\ \A g \in D \ {f} : g \in DOMAIN t.entries /\ es[g] = t.entries[g]
    BY <1>2
  <2>5. es \in Entries
    <3>1. es \in [D -> Entry]
      BY <2>2, <2>3
    <3> QED
      BY <2>4, <3>1, EntriesType
  <2> HIDE DEF es, D
  <2>6. /\ u \in Task /\ u.pc = "building" /\ u.todo = t.todo \ {f} /\ u.file = Absent
        /\ u.entries = es
    BY <1>1, <2>5 DEF Task
  <2> HIDE DEF u
  <2>7. ASSUME task'[p] = u
        PROVE  Told(p)'
    <3>1. ASSUME NEW g \in Listed \ touched[p]
          PROVE  /\ dir[g] = Absent => g \notin u.todo \cup DOMAIN es
                 /\ dir[g] # Absent => g \in u.todo \/ g \in DOMAIN es
                 /\ g \in DOMAIN es \ u.todo => Matches(g, es)
      <4>1. CASE g = f
        <5>1. t.size = Size[dir[f]]
          BY <1>1, <3>1, <4>1 DEF BuildTold
        <5>2. f \in DOMAIN es /\ Matches(f, es)
          BY <1>1, <1>6, <2>2, <2>4, <2>5, <4>1, <5>1, FileFacts, MatchFacts DEF Typed, D
        <5> QED
          BY <1>6, <4>1, <5>2
      <4>2. CASE g # f
        <5>1. g \in DOMAIN es <=> g \in DOMAIN t.entries
          BY <2>4, <4>2 DEF D
        <5>2. g \in DOMAIN es => (Matches(g, es) <=> Matches(g, t.entries))
          BY <2>4, <4>2 DEF Matches
        <5> QED
          BY <1>1, <2>6, <3>1, <4>2, <5>1, <5>2 DEF BuildTold
      <4> QED
        BY <4>1, <4>2
    <3>2. \A x, g : Matches(g, x)' <=> Matches(g, x)
      BY <1>3 DEF Matches
    <3>3. u.todo \subseteq Listed
      BY <1>2, <2>6
    <3>4. BuildTold(p)'
      BY <1>3, <2>4, <2>6, <2>7, <3>1, <3>2, <3>3, FileFacts DEF BuildTold
    <3> QED
      BY <2>6, <2>7, <3>4 DEF Told, SaveTold, VerifyTold, RaiseTold
  <2> QED
    BY <1>3, <1>4, <2>1, <2>6, <2>7, QuietStep DEF Watching
<1> QED
  BY <1>5, <1>6

(* It then creates the temporary file of the manifest,                     *)
LEMMA BuildSaveIInv ==
  ASSUME IInv, NEW p \in Proc, BuildSave(p)
  PROVE  IInv'
<1> DEFINE t == task[p]
           u == [t EXCEPT !.pc = "saving"]
<1>1. Typed /\ t \in Task /\ t.pc = "building" /\ t.todo = {} /\ BuildTold(p)
  BY DEF IInv, Typed, Told, BuildSave
<1>2. /\ u \in Task /\ u.pc = "saving" /\ u.todo = {} /\ u.file = t.file
      /\ u.entries = t.entries
  BY <1>1 DEF Task, Watching
<1>3. /\ Goto(p, u) /\ dir' = [dir EXCEPT ![Tmp(MANIFEST)] = "partial"]
      /\ Touch({p}, {Tmp(MANIFEST)}) /\ UNCHANGED counters /\ manifest' = manifest
  BY DEF BuildSave
<1>4. /\ touched' \in [Proc -> SUBSET File] /\ touched'[p] = touched[p]
      /\ \A q \in Proc \ {p} : Unharmed(q)
  <2>1. {Tmp(MANIFEST)} \subseteq File
    BY FileFacts
  <2> QED
    BY <1>1, <1>3, <2>1, TouchFacts DEF Typed, Unharmed
<1>5. dir' \in [Listed -> Content \cup {Absent}]
  BY <1>1, <1>3 DEF Typed, Content
<1>6. TypedRest'
  BY <1>1, <1>3, <1>4, <1>5, ChangeCounted
<1>7. u.file \in u.todo \cup {Absent}
  BY <1>1, <1>2 DEF Typed
<1> HIDE DEF u
<1>8. ASSUME task'[p] = u
      PROVE  Told(p)'
  <2>1. \A f \in Listed \ {Tmp(MANIFEST)} : dir'[f] = dir[f]
    BY <1>1, <1>3 DEF Typed
  <2>2. \A e : \A f \in Listed \ {Tmp(MANIFEST)} : Matches(f, e)' <=> Matches(f, e)
    BY <2>1 DEF Matches
  <2>3. SaveTold(p)'
    BY <1>1, <1>2, <1>4, <1>8, <2>1, <2>2 DEF BuildTold, SaveTold
  <2> QED
    BY <1>2, <1>8, <2>3 DEF Told, BuildTold, VerifyTold, RaiseTold
<1> QED
  BY <1>2, <1>3, <1>4, <1>6, <1>7, <1>8, ProcessStep DEF Watching

(* and renames it.                                                         *)
LEMMA BuildReplaceIInv ==
  ASSUME IInv, NEW p \in Proc, BuildReplace(p)
  PROVE  IInv'
<1> DEFINE t == task[p]
           u == [t EXCEPT !.pc = "built"]
<1>1. Typed /\ t \in Task /\ t.pc = "saving" /\ SaveTold(p)
  BY DEF IInv, Typed, Told, BuildReplace
<1>2. /\ u \in Task /\ u.pc = "built" /\ u.todo = t.todo /\ u.file = t.file
      /\ u.entries = t.entries
  BY <1>1 DEF Task, Watching
<1>3. /\ Goto(p, u) /\ dir' = [dir EXCEPT ![Tmp(MANIFEST)] = Absent]
      /\ Touch({p}, {Tmp(MANIFEST), Target(MANIFEST)}) /\ UNCHANGED counters
      /\ manifest' = t.entries
  BY DEF BuildReplace
<1>4. /\ touched' \in [Proc -> SUBSET File] /\ touched'[p] = touched[p]
      /\ \A q \in Proc \ {p} : Unharmed(q)
  <2>1. {Tmp(MANIFEST), Target(MANIFEST)} \subseteq File
    BY FileFacts
  <2> QED
    BY <1>1, <1>3, <2>1, TouchFacts DEF Typed, Unharmed
<1>5. dir' \in [Listed -> Content \cup {Absent}]
  BY <1>1, <1>3 DEF Typed
<1>6. manifest' \in Entries /\ DOMAIN manifest' \subseteq Listed
  BY <1>1, <1>3 DEF Task, SaveTold
<1>7. TypedRest'
  BY <1>1, <1>3, <1>4, <1>5, <1>6
  DEF Typed, TypedRest, counters, Forged, Entries, Entry
<1>8. u.file \in u.todo \cup {Absent}
  BY <1>1, <1>2 DEF Typed
<1> HIDE DEF u
<1>9. ASSUME task'[p] = u
      PROVE  Told(p)'
  <2>1. \A f \in Listed \ {Tmp(MANIFEST)} : dir'[f] = dir[f]
    BY <1>1, <1>3 DEF Typed
  <2>2. \A e : \A f \in Listed \ {Tmp(MANIFEST)} : Matches(f, e)' <=> Matches(f, e)
    BY <2>1 DEF Matches
  <2>3. SaveTold(p)'
    BY <1>1, <1>2, <1>4, <1>9, <2>1, <2>2 DEF SaveTold
  <2> QED
    BY <1>2, <1>9, <2>3 DEF Told, BuildTold, VerifyTold, RaiseTold
<1> QED
  BY <1>2, <1>3, <1>4, <1>7, <1>8, <1>9, ProcessStep DEF Watching

-----------------------------------------------------------------------------
(* verify_manifest, step by step.                                          *)
LEMMA VerifyBeginIInv ==
  ASSUME IInv, NEW p \in Proc, VerifyBegin(p)
  PROVE  IInv'
<1> DEFINE raised == [Idle EXCEPT !.pc = "raised"]
           reading == [Idle EXCEPT !.pc = "verifying", !.entries = manifest,
                                   !.todo = DOMAIN manifest]
           refused == [Idle EXCEPT !.pc = "verified", !.errors = TRUE]
           u == IF manifest = Malformed THEN raised
                ELSE IF Readable(manifest) THEN reading ELSE refused
<1>1. /\ Goto(p, u) /\ touched' = [touched EXCEPT ![p] = {}] /\ Run
      /\ dir' = dir /\ manifest' = manifest
  BY DEF VerifyBegin, Begin
<1>2. Typed /\ TypedRest' /\ touched'[p] = {}
  BY <1>1, RunCounted DEF IInv, Typed
<1>3. \A e, g : Matches(g, e)' <=> Matches(g, e)
  BY <1>1 DEF Matches
<1>4. CASE manifest = Malformed
  <2>1. /\ raised \in Task /\ raised.pc = "raised" /\ raised.file = Absent
        /\ Goto(p, raised)
    BY <1>1, <1>4, NoEntries DEF Idle, Task, Watching
  <2> HIDE DEF raised
  <2>2. ASSUME task'[p] = raised
        PROVE  Told(p)'
    BY <1>1, <1>4, <2>1, <2>2 DEF Told, BuildTold, SaveTold, VerifyTold, RaiseTold
  <2> QED
    BY <1>1, <1>2, <2>1, <2>2, QuietStep DEF Watching
<1>5. CASE manifest # Malformed /\ Readable(manifest)
  <2>1. manifest \in Entries /\ DOMAIN manifest \subseteq Listed \cup {Foreign}
    BY <1>2, <1>5, ReadableIsEntries, EntriesType
  <2>2. /\ reading \in Task /\ reading.pc = "verifying" /\ reading.entries = manifest
        /\ reading.todo = DOMAIN manifest /\ reading.file = Absent /\ ~ reading.errors
        /\ Goto(p, reading)
    BY <1>1, <1>5, <2>1 DEF Idle, Task, Watching
  <2> HIDE DEF reading
  <2>3. ASSUME task'[p] = reading
        PROVE  Told(p)'
    BY <1>1, <2>2, <2>3 DEF Told, BuildTold, SaveTold, VerifyTold, RaiseTold
  <2> QED
    BY <1>1, <1>2, <2>2, <2>3, QuietStep DEF Watching
<1>6. CASE manifest # Malformed /\ ~ Readable(manifest)
  <2>1. /\ refused \in Task /\ refused.pc = "verified" /\ refused.entries = <<>>
        /\ refused.todo = {} /\ refused.file = Absent /\ refused.errors
        /\ Goto(p, refused)
    BY <1>1, <1>6, NoEntries DEF Idle, Task, Watching
  <2> HIDE DEF refused
  <2>2. ASSUME task'[p] = refused
        PROVE  Told(p)'
    <3>1. ~ Readable(manifest)'
      BY <1>1, <1>6 DEF Readable
    <3> QED
      BY <2>1, <2>2, <3>1, NoEntries DEF Told, BuildTold, SaveTold, VerifyTold, RaiseTold
  <2> QED
    BY <1>1, <1>2, <2>1, <2>2, QuietStep DEF Watching
<1> QED
  BY <1>4, <1>5, <1>6

(* An error at the first look has its cause in the directory.              *)
LEMMA VerifyStatIInv ==
  ASSUME IInv, NEW p \in Proc, NEW f \in Listed \cup {Foreign}, VerifyStat(p, f)
  PROVE  IInv'
<1> DEFINE t == task[p]
           bad == \/ f = Foreign
                  \/ dir[f] = Absent
                  \/ Size[dir[f]] # t.entries[f].size
           skipped == [t EXCEPT !.todo = @ \ {f}, !.errors = TRUE]
           found == [t EXCEPT !.file = f]
           u == IF bad THEN skipped ELSE found
<1>1. Typed /\ t \in Task /\ t.pc = "verifying" /\ t.file = Absent /\ f \in t.todo /\ VerifyTold(p)
  BY DEF IInv, Typed, Told, VerifyStat
<1>2. /\ Goto(p, u) /\ touched' = touched /\ UNCHANGED counters
      /\ dir' = dir /\ manifest' = manifest
  BY DEF VerifyStat
<1>3. TypedRest'
  BY <1>1, <1>2, RestUnchanged DEF Typed
<1>4. /\ \A e, g : Matches(g, e)' <=> Matches(g, e)
      /\ Readable(manifest)' <=> Readable(manifest)
  BY <1>2 DEF Matches, Readable
<1>5. t.todo \subseteq DOMAIN t.entries /\ t.entries \in Entries
  BY <1>1 DEF VerifyTold, Task
<1>6. bad => ~ Matches(f, t.entries)
  BY <1>1, <1>5, MatchFacts DEF Typed
<1>7. CASE bad
  <2>1. /\ skipped \in Task /\ skipped.pc = "verifying" /\ skipped.entries = t.entries
        /\ skipped.todo = t.todo \ {f} /\ skipped.file = Absent /\ skipped.errors
    BY <1>1 DEF Task
  <2>2. Goto(p, skipped)
    BY <1>2, <1>7
  <2> HIDE DEF skipped, bad
  <2>3. ASSUME task'[p] = skipped
        PROVE  Told(p)'
    BY <1>1, <1>4, <1>5, <1>6, <1>7, <2>1, <2>3
    DEF Told, BuildTold, SaveTold, VerifyTold, RaiseTold
  <2> QED
    BY <1>2, <1>3, <2>1, <2>2, <2>3, QuietStep DEF Watching
<1>8. CASE ~ bad
  <2>1. /\ found \in Task /\ found.pc = "verifying" /\ found.entries = t.entries
        /\ found.todo = t.todo /\ found.file = f /\ found.errors = t.errors
    BY <1>1 DEF Task
  <2>2. Goto(p, found)
    BY <1>2, <1>8
  <2>3. f \in Listed /\ dir[f] # Absent /\ Size[dir[f]] = t.entries[f].size
    BY <1>8
  <2> HIDE DEF found, bad
  <2>4. ASSUME task'[p] = found
        PROVE  Told(p)'
    BY <1>1, <1>2, <1>4, <1>5, <2>1, <2>3, <2>4
    DEF Told, BuildTold, SaveTold, VerifyTold, RaiseTold
  <2> QED
    BY <1>1, <1>2, <1>3, <2>1, <2>2, <2>4, QuietStep DEF Watching
<1> QED
  BY <1>7, <1>8

(* The digest decides: the entry of an untouched file matches or is an     *)
(* error; without a file to hash, somebody has touched it.                 *)
LEMMA VerifyHashIInv ==
  ASSUME IInv, NEW p \in Proc, VerifyHash(p)
  PROVE  IInv'
<1> DEFINE t == task[p]
           f == t.file
           bad == dir[f] # t.entries[f].digest
<1>1. Typed /\ t \in Task /\ t.pc = "verifying" /\ f # Absent /\ f \in t.todo /\ VerifyTold(p)
  BY DEF IInv, Typed, Told, VerifyHash
<1>2. touched' = touched /\ UNCHANGED counters /\ dir' = dir /\ manifest' = manifest
  BY DEF VerifyHash
<1>3. TypedRest'
  BY <1>1, <1>2, RestUnchanged DEF Typed
<1>4. /\ f \in Listed
      /\ f \notin touched[p] => dir[f] # Absent /\ Size[dir[f]] = t.entries[f].size
  BY <1>1 DEF VerifyTold
<1>5. CASE dir[f] = Absent
  <2> DEFINE u == [Idle EXCEPT !.pc = "raised"]
  <2>1. u \in Task /\ u.pc = "raised" /\ u.file = Absent
    BY NoEntries DEF Idle, Task, Watching
  <2>2. Goto(p, u)
    BY <1>5 DEF VerifyHash
  <2>3. ASSUME task'[p] = u
        PROVE  Told(p)'
    BY <1>2, <1>4, <1>5, <2>1, <2>3 DEF Told, BuildTold, SaveTold, VerifyTold, RaiseTold
  <2> HIDE DEF u
  <2> QED
    BY <1>2, <1>3, <2>1, <2>2, <2>3, QuietStep DEF Watching
<1>6. CASE dir[f] # Absent
  <2> DEFINE u == [t EXCEPT !.file = Absent, !.todo = @ \ {f}, !.errors = @ \/ bad]
  <2>1. Goto(p, u)
    BY <1>6 DEF VerifyHash
  <2>2. /\ u \in Task /\ u.pc = "verifying" /\ u.entries = t.entries
        /\ u.todo = t.todo \ {f} /\ u.file = Absent /\ (u.errors <=> t.errors \/ bad)
    BY <1>1 DEF Task
  <2>3. t.todo \subseteq DOMAIN t.entries /\ t.entries \in Entries
    BY <1>1 DEF VerifyTold, Task
  <2>4. /\ bad => ~ Matches(f, t.entries)
        /\ ~ bad /\ f \notin touched[p] => Matches(f, t.entries)
    BY <1>1, <1>4, <1>6, <2>3, FileFacts, MatchFacts DEF Typed
  <2>5. /\ \A e, g : Matches(g, e)' <=> Matches(g, e)
        /\ Readable(manifest)' <=> Readable(manifest)
    BY <1>2 DEF Matches, Readable
  <2> HIDE DEF u, bad
  <2>6. ASSUME task'[p] = u
        PROVE  Told(p)'
    BY <1>1, <1>2, <2>2, <2>3, <2>4, <2>5, <2>6
    DEF Told, BuildTold, SaveTold, VerifyTold, RaiseTold
  <2> QED
    BY <1>2, <1>3, <2>1, <2>2, <2>6, QuietStep DEF Watching
<1> QED
  BY <1>5, <1>6

(* A verification ends when every file was looked at.                      *)
LEMMA VerifyDoneIInv ==
  ASSUME IInv, NEW p \in Proc, VerifyDone(p)
  PROVE  IInv'
<1> DEFINE t == task[p]
           u == [t EXCEPT !.pc = "verified"]
<1>1. Typed /\ t \in Task /\ t.pc = "verifying" /\ t.todo = {} /\ VerifyTold(p)
  BY DEF IInv, Typed, Told, VerifyDone
<1>2. /\ u \in Task /\ u.pc = "verified" /\ u.todo = {} /\ u.file = t.file
      /\ u.entries = t.entries /\ u.errors = t.errors
  BY <1>1 DEF Task, Watching
<1>3. /\ Goto(p, u) /\ touched' = touched /\ UNCHANGED counters
      /\ dir' = dir /\ manifest' = manifest
  BY DEF VerifyDone
<1>4. TypedRest' /\ u.file \in u.todo \cup {Absent}
  BY <1>1, <1>2, <1>3, RestUnchanged DEF Typed
<1>5. /\ \A e, g : Matches(g, e)' <=> Matches(g, e)
      /\ Readable(manifest)' <=> Readable(manifest)
  BY <1>3 DEF Matches, Readable
<1> HIDE DEF u
<1>6. ASSUME task'[p] = u
      PROVE  Told(p)'
  BY <1>1, <1>2, <1>3, <1>5, <1>6 DEF Told, BuildTold, SaveTold, VerifyTold, RaiseTold
<1> QED
  BY <1>2, <1>3, <1>4, <1>6, QuietStep DEF Watching

-----------------------------------------------------------------------------
(* A process that returns has nothing to do any more.                      *)
LEMMA ReturnIInv ==
  ASSUME IInv, NEW p \in Proc, Return(p)
  PROVE  IInv'
<1>1. /\ Goto(p, Idle) /\ touched' = [touched EXCEPT ![p] = {}] /\ UNCHANGED counters
      /\ dir' = dir /\ manifest' = manifest
  BY DEF Return
<1>2. TypedRest'
  BY <1>1, RestUnchanged DEF IInv, Typed
<1>3. Idle.pc = "idle" /\ Idle.file = Absent
  BY DEF Idle
<1> QED
  BY <1>1, <1>2, <1>3, IdleType, QuietStep DEF Watching

(* Nor has one that crashes.                                               *)
LEMMA CrashIInv ==
  ASSUME IInv, NEW p \in Proc, Crash(p)
  PROVE  IInv'
<1>1. /\ Goto(p, Idle) /\ touched' = [touched EXCEPT ![p] = {}]
      /\ crashes < MaxCrashes /\ crashes' = crashes + 1
      /\ UNCHANGED <<dir, manifest, changes, runs>>
  BY DEF Crash
<1>2. crashes' \in 0..MaxCrashes
  BY <1>1, EvidenceAssumption DEF IInv, Typed
<1>3. TypedRest'
  BY <1>1, <1>2 DEF IInv, Typed, TypedRest, Forged, Entries, Entry
<1>4. Idle.pc = "idle" /\ Idle.file = Absent
  BY DEF Idle
<1> QED
  BY <1>1, <1>3, <1>4, IdleType, QuietStep DEF Watching

(* Whatever is changed from outside is touched for all who are watching.   *)
LEMMA TamperIInv ==
  ASSUME IInv, Tamper
  PROVE  IInv'
<1>1. Typed /\ task' = task /\ UNCHANGED counters
  BY DEF IInv, Tamper
<1>2. ASSUME TypedRest', \A q \in Proc : Unharmed(q)
      PROVE  IInv'
  <2>1. Typed'
    BY <1>1, <1>2 DEF Typed, TypedRest, Unharmed, Forged, Entries, Entry
  <2>2. \A q \in Proc : Told(q)'
    BY <1>1, <1>2, <2>1, Bystander DEF IInv, Unharmed
  <2> QED
    BY <2>1, <2>2 DEF IInv
<1>3. ASSUME NEW n \in Name, NEW c \in Value \cup {Absent},
             dir' = [dir EXCEPT ![Target(n)] = c], Touch({}, {Target(n)}), manifest' = manifest
      PROVE  IInv'
  <2>1. {Target(n)} \subseteq File
    BY FileFacts
  <2>2. touched' \in [Proc -> SUBSET File] /\ \A q \in Proc : Unharmed(q)
    BY <1>1, <1>3, <2>1, TouchFacts DEF Typed, Unharmed
  <2>3. dir' \in [Listed -> Content \cup {Absent}]
    BY <1>1, <1>3 DEF Typed, Content
  <2>4. TypedRest'
    BY <1>1, <1>3, <2>2, <2>3, ChangeCounted
  <2> QED
    BY <1>2, <2>2, <2>4
<1>4. ASSUME NEW m \in Forged \cup {Absent},
             manifest' = m, Touch({}, {Target(MANIFEST)}), dir' = dir
      PROVE  IInv'
  <2>1. {Target(MANIFEST)} \subseteq File
    BY FileFacts
  <2>2. touched' \in [Proc -> SUBSET File] /\ \A q \in Proc : Unharmed(q)
    BY <1>1, <1>4, <2>1, TouchFacts DEF Typed, Unharmed
  <2>3. TypedRest'
    BY <1>1, <1>4, <2>2, ChangeCounted DEF Typed
  <2> QED
    BY <1>2, <2>2, <2>3
<1> QED
  BY <1>3, <1>4 DEF Tamper

(* Every step of a run keeps the invariant.                                *)
LEMMA ProceedIInv ==
  ASSUME IInv, NEW p \in Proc, Proceed(p)
  PROVE  IInv'
<1>1. CASE WriteFill(p) \/ WriteReplace(p)
  BY <1>1, WriteFillIInv, WriteReplaceIInv
<1>2. CASE BuildHash(p) \/ BuildSave(p) \/ BuildReplace(p)
  BY <1>2, BuildHashIInv, BuildSaveIInv, BuildReplaceIInv
<1>3. CASE VerifyHash(p) \/ VerifyDone(p)
  BY <1>3, VerifyHashIInv, VerifyDoneIInv
<1>4. CASE \E f \in Listed \cup {Foreign} : BuildStat(p, f) \/ VerifyStat(p, f)
  BY <1>4, BuildStatIInv, VerifyStatIInv
<1> QED
  BY <1>1, <1>2, <1>3, <1>4 DEF Proceed

(* So does every step of the bundle.                                       *)
LEMMA NextIInv ==
  ASSUME IInv, [Next]_vars
  PROVE  IInv'
<1>1. ASSUME NEW p \in Proc,
             \E n \in Name, v \in Value : WriteBegin(p, n, v) \/ AppendEvent(p, n, v)
      PROVE  IInv'
  BY <1>1, WriteBeginIInv, AppendEventIInv
<1>2. ASSUME NEW p \in Proc,
             BuildBegin(p) \/ VerifyBegin(p) \/ Proceed(p) \/ Return(p) \/ Crash(p)
      PROVE  IInv'
  BY <1>2, BuildBeginIInv, VerifyBeginIInv, ProceedIInv, ReturnIInv, CrashIInv
<1>3. CASE Tamper
  BY <1>3, TamperIInv
<1>4. CASE UNCHANGED vars
  <2>1. UNCHANGED <<dir, manifest, task, touched, changes, runs, crashes>>
    BY <1>4 DEF vars, counters
  <2>2. Typed'
    BY <2>1 DEF IInv, Typed, Forged, Entries, Entry
  <2>3. \A q \in Proc : Told(q)'
    BY <2>1, <2>2, Bystander DEF IInv
  <2> QED
    BY <2>2, <2>3 DEF IInv
<1> QED
  BY <1>1, <1>2, <1>3, <1>4 DEF Next

(* The invariant is inductive.                                             *)
THEOREM Inductive == Spec => []IInv
<1> QED
  BY InitIInv, NextIInv, PTL DEF Spec

-----------------------------------------------------------------------------
(* Whatever is written, built, verified, lost and forged, in any order,    *)
(* the directory, the manifest and the processes' notes are what they      *)
(* should be: a published manifest is one, or was put there from outside.  *)
THEOREM TypeCorrect == Spec => []TypeOK
<1>1. IInv => TypeOK
  BY TypedTypeOK DEF IInv
<1> QED
  BY <1>1, Inductive, PTL

(* A valid verdict is right about every listed file that nobody touched    *)
(* while the verification ran, whatever went on before and beside it.      *)
THEOREM TamperIsDetected == Spec => []TamperDetected
<1>1. IInv => TamperDetected
  BY DEF IInv, Told, VerifyTold, TamperDetected
<1> QED
  BY <1>1, Inductive, PTL

(* An invalid verdict has its cause in the directory, unless the manifest  *)
(* or a listed file was touched while the verification ran.                *)
THEOREM AlarmHasCause == Spec => []NoFalseAlarm
<1>1. IInv => NoFalseAlarm
  BY DEF IInv, Told, VerifyTold, NoFalseAlarm
<1> QED
  BY <1>1, Inductive, PTL

(* A manifest that was built lists every artifact nobody touched meanwhile *)
(* as it is, and no artifact that does not exist.                          *)
THEOREM ManifestIsFaithful == Spec => []ManifestFaithful
<1>1. ASSUME IInv, NEW p \in Proc, NEW n \in Name,
             task[p].pc = "built", Target(n) \notin touched[p]
      PROVE  IF dir[Target(n)] = Absent THEN Target(n) \notin DOMAIN task[p].entries
             ELSE /\ Target(n) \in DOMAIN task[p].entries
                  /\ Matches(Target(n), task[p].entries)
  <2>1. Target(n) \in Listed \ (touched[p] \cup {Tmp(MANIFEST)})
    BY <1>1, FileFacts
  <2> QED
    BY <1>1, <2>1 DEF IInv, Told, SaveTold
<1>2. IInv => ManifestFaithful
  BY <1>1 DEF ManifestFaithful
<1> QED
  BY <1>2, Inductive, PTL

(* Only a file that vanishes under it, or a malformed manifest, makes a    *)
(* build or a verification raise.                                          *)
THEOREM RaiseHasCause == Spec => []RaisesOnlyWhenDisturbed
<1>1. IInv => RaisesOnlyWhenDisturbed
  BY DEF IInv, Told, RaiseTold, RaisesOnlyWhenDisturbed
<1> QED
  BY <1>1, Inductive, PTL

(* The bundle as it is run, streams beside artifacts, is a run of the      *)
(* artifacts: all of the above holds of it.                                *)
THEOREM BundleHoldsArtifacts == BundleSpec => Spec
<1>1. BundleInit => Init
  BY DEF BundleInit
<1>2. [BundleNext]_<<vars, streamVars, atWork>> => [Next]_vars
  BY DEF BundleNext
<1> QED
  BY <1>1, <1>2, PTL DEF BundleSpec, Spec

-----------------------------------------------------------------------------
(* A stream: its pieces carry the events in the order of the appends, the  *)
(* acknowledged events are among them, the events that were appended and   *)
(* not acknowledged are as many as the deaths, and without a death every   *)
(* piece is a whole line.                                                  *)
Piece == [event : Nat, text : {"line", "half", "body"}]
Lost == (1..(Len(acknowledged) + deaths)) \ ToSet(acknowledged)

StreamTyped == pieces \in Seq(Piece) /\ acknowledged \in Seq(Nat) /\ deaths \in Nat

PiecesOrdered ==
  /\ \A i, j \in DOMAIN pieces : i < j => pieces[i].event < pieces[j].event
  /\ \A i \in DOMAIN pieces : pieces[i].event \in 1..(Len(acknowledged) + deaths)

AcknowledgedKept ==
  \A a \in DOMAIN acknowledged :
    \E i \in DOMAIN pieces : pieces[i].event = acknowledged[a]

LostCounted == IsFiniteSet(Lost) /\ Cardinality(Lost) = deaths
WholeUntilDeath == deaths = 0 => \A i \in DOMAIN pieces : pieces[i].text = "line"

StreamIInv ==
  /\ StreamTyped /\ PiecesOrdered /\ AcknowledgedKept
  /\ LostCounted /\ WholeUntilDeath

(* The least-number principle for a set of naturals.                       *)
LEMMA LeastNatural ==
  ASSUME NEW T, T \subseteq Nat, T # {}
  PROVE  \E m \in T : \A k \in T : m <= k
<1>1. IsWellFoundedOn(OpToRel(<, Nat), Nat)
  BY NatLessThanWellFounded
<1>2. PICK m \in T : \A k \in T : <<k, m>> \notin OpToRel(<, Nat)
  BY <1>1, WFMin
<1>3. \A k \in T : ~ (k < m)
  BY <1>2 DEF OpToRel
<1> QED
  BY <1>3

(* Split satisfies its recursive equation.                                 *)
LEMMA SplitEquation ==
  ASSUME Len(pieces) \in Nat
  PROVE  Split =
           [n \in 0..Len(pieces) |->
              IF n = 0 THEN <<>>
              ELSE IF n = 1 \/ pieces[n-1].text = "line"
                   THEN Append(Split[n-1], <<pieces[n]>>)
              ELSE [Split[n-1] EXCEPT ![Len(Split[n-1])] = Append(@, pieces[n])]]
<1> DEFINE Further(lines, n) == IF n = 1 \/ pieces[n-1].text = "line"
                                THEN Append(lines, <<pieces[n]>>)
                                ELSE [lines EXCEPT ![Len(lines)] = Append(@, pieces[n])]
           Step(g, n) == IF n = 0 THEN <<>> ELSE Further(g[n-1], n)
           Equation(g, m) == g = [n \in 0..m |-> Step(g, n)]
           Without == {m \in 0..Len(pieces) : ~ \E g : Equation(g, m)}
<1>1. ASSUME NEW m \in 0..Len(pieces), m \in Without, \A k \in Without : m <= k
      PROVE  FALSE
  <2>1. m \in Nat /\ m <= Len(pieces)
    OBVIOUS
  <2>2. CASE m = 0
    <3>1. Equation([n \in 0..0 |-> <<>>], 0)
      OBVIOUS
    <3> QED
      BY <1>1, <2>2, <3>1
  <2>3. CASE m # 0
    <3>1. m - 1 \in 0..Len(pieces) /\ ~ (m <= m - 1)
      BY <2>1, <2>3
    <3>2. PICK g : Equation(g, m - 1)
      BY <1>1, <3>1
    <3> DEFINE h == [n \in 0..m |-> Step(g, n)]
    <3> HIDE DEF Step, Further
    <3>3. \A n \in 0..(m-1) : n \in 0..m /\ g[n] = Step(g, n) /\ h[n] = Step(g, n)
      BY <2>1, <3>2
    <3>4. \A n \in 0..m : n # 0 => n - 1 \in 0..(m-1)
      BY <2>1
    <3>5. \A n \in 0..m : Step(h, n) = Step(g, n)
      BY <3>3, <3>4 DEF Step
    <3>6. Equation(h, m)
      BY <3>5
    <3> QED
      BY <1>1, <3>6
  <2> QED
    BY <2>2, <2>3
<1>2. \E g : Equation(g, Len(pieces))
  <2>1. Without \subseteq Nat
    OBVIOUS
  <2>2. Without = {}
    BY <1>1, <2>1, LeastNatural
  <2>3. Len(pieces) \in 0..Len(pieces)
    OBVIOUS
  <2> HIDE DEF Equation
  <2> QED
    BY <2>2, <2>3
<1>3. Split = CHOOSE g : Equation(g, Len(pieces))
  BY DEF Split
<1>4. Equation(Split, Len(pieces))
  BY <1>2, <1>3
<1> QED
  BY <1>4

(* A piece that opens a line, and one that goes on with the last.          *)
LEMMA LineOpened ==
  ASSUME NEW S, NEW s \in Seq(Seq(S)), NEW x \in S, NEW t, t = Append(s, <<x>>)
  PROVE  /\ t \in Seq(Seq(S)) /\ Len(t) = Len(s) + 1
         /\ \A i \in 1..Len(s) : t[i] = s[i]
         /\ Len(t[Len(s) + 1]) = 1 /\ t[Len(s) + 1][1] = x
<1>1. <<x>> \in Seq(S) /\ Len(<<x>>) = 1 /\ <<x>>[1] = x
  OBVIOUS
<1> DEFINE y == <<x>>
<1>2. y \in Seq(S) /\ Len(y) = 1 /\ y[1] = x /\ t = Append(s, y)
  BY <1>1
<1> HIDE DEF y
<1> DEFINE L == Seq(S)
<1>3. s \in Seq(L) /\ y \in L
  BY <1>2
<1> HIDE DEF L
<1>4. /\ t \in Seq(L) /\ Len(t) = Len(s) + 1
      /\ \A i \in 1..Len(s) : t[i] = s[i]
      /\ t[Len(s) + 1] = y
  BY <1>2, <1>3, AppendProperties
<1> QED
  BY <1>2, <1>4 DEF L

(* A piece behind one that lacks its newline makes the last line longer.   *)
LEMMA LineContinued ==
  ASSUME NEW S, NEW s \in Seq(Seq(S)), NEW x \in S, Len(s) >= 1,
         NEW t, t = [s EXCEPT ![Len(s)] = Append(@, x)]
  PROVE  /\ t \in Seq(Seq(S)) /\ Len(t) = Len(s)
         /\ \A i \in 1..Len(s) : i # Len(s) => t[i] = s[i]
         /\ Len(t[Len(s)]) = Len(s[Len(s)]) + 1
<1> DEFINE L == Seq(S)
           k == Len(s)
<1>1. s \in Seq(L) /\ k \in 1..Len(s)
  BY LenProperties
<1>2. s[k] \in L
  BY <1>1, ElementOfSeq
<1> DEFINE y == Append(s[k], x)
<1>3. y \in L /\ Len(y) = Len(s[k]) + 1
  BY <1>2, AppendProperties
<1>4. t = [s EXCEPT ![k] = y]
  OBVIOUS
<1> HIDE DEF y, L
<1> HIDE DEF k
<1>5. /\ t \in Seq(L) /\ Len(t) = Len(s)
      /\ \A i \in 1..Len(s) : t[i] = IF i = k THEN y ELSE s[i]
  <2>1. [s EXCEPT ![k] = y] \in Seq(L) /\ Len([s EXCEPT ![k] = y]) = Len(s)
    BY <1>1, <1>3, ExceptSeq
  <2>2. \A i \in 1..Len(s) : [s EXCEPT ![k] = y][i] = IF i = k THEN y ELSE s[i]
    BY <1>1, <1>3, ExceptSeq
  <2> QED
    BY <1>4, <2>1, <2>2
<1> QED
  BY <1>1, <1>3, <1>5 DEF k, L

(* Lines of one piece each are the pieces, in their order; and whole lines *)
(* do not run together.                                                    *)
LEMMA LinesOfOnePiece ==
  ASSUME pieces \in Seq(Piece)
  PROVE  /\ Len(Lines) \in Nat /\ DOMAIN Lines = 1..Len(Lines)
         /\ (\A i \in 1..Len(Lines) : Len(Lines[i]) = 1) =>
              /\ Len(Lines) = Len(pieces)
              /\ \A i \in 1..Len(pieces) : Lines[i][1] = pieces[i]
         /\ (\A i \in 1..Len(pieces) : pieces[i].text = "line") =>
              \A i \in 1..Len(Lines) : Len(Lines[i]) = 1
<1> DEFINE Single(s) == \A i \in 1..Len(s) : Len(s[i]) = 1
           Told1(s, n) == /\ s \in Seq(Seq(Piece))
                          /\ n > 0 => Len(s) >= 1
                          /\ \A i \in 1..Len(s) : Len(s[i]) >= 1
           Told2(s, n) == Single(s) => /\ Len(s) = n
                                       /\ \A i \in 1..n : s[i][1] = pieces[i]
           Told3(s, n) == (\A i \in 1..(n-1) : pieces[i].text = "line") => Single(s)
           Good(n) == Told1(Split[n], n) /\ Told2(Split[n], n) /\ Told3(Split[n], n)
           Untold == {n \in 0..Len(pieces) : ~ Good(n)}
<1>0. Len(pieces) \in Nat
  BY LenProperties
<1>1. Good(0)
  <2>1. Split[0] = <<>>
    BY <1>0, SplitEquation
  <2> HIDE DEF Piece
  <2>2. <<>> \in Seq(Seq(Piece)) /\ Len(<<>>) = 0
    OBVIOUS
  <2> QED
    BY <2>1, <2>2
<1>2. ASSUME NEW n \in Untold, \A k \in Untold : n <= k PROVE FALSE
  <2>1. n \in Nat /\ n <= Len(pieces) /\ ~ Good(n)
    BY <1>0
  <2>2. n # 0
    <3> HIDE DEF Good
    <3> QED
      BY <1>1, <2>1
  <2>3. n \in 1..Len(pieces) /\ n - 1 \in 0..Len(pieces) /\ ~ (n <= n - 1)
    BY <1>0, <2>1, <2>2
  <2> DEFINE s == Split[n-1]
             t == Split[n]
             m == Len(s)
  <2>4. Good(n - 1)
    <3> HIDE DEF Good
    <3> QED
      BY <1>2, <2>3
  <2>5. pieces[n] \in Piece
    BY <2>3, ElementOfSeq
  <2>6. Told1(s, n-1) /\ Told2(s, n-1) /\ Told3(s, n-1) /\ m \in Nat
    BY <2>4, LenProperties
  <2>7. \A i \in 1..n : i = n \/ i \in 1..(n-1)
    BY <2>1
  <2>8. \A i \in 1..m : Len(s[i]) >= 1
    BY <2>6
  <2>9. CASE n = 1 \/ pieces[n-1].text = "line"
    <3>1. t = Append(s, <<pieces[n]>>)
      BY <1>0, <2>1, <2>2, <2>3, <2>9, SplitEquation
    <3>2. /\ t \in Seq(Seq(Piece)) /\ Len(t) = m + 1
          /\ \A i \in 1..m : t[i] = s[i]
          /\ Len(t[m + 1]) = 1 /\ t[m + 1][1] = pieces[n]
      BY <2>5, <2>6, <3>1, LineOpened
    <3> HIDE DEF s, t, m, Piece
    <3>3. \A i \in 1..(m + 1) : i = m + 1 \/ i \in 1..m
      BY <2>6
    <3>4. Told1(t, n)
      <4>1. \A i \in 1..(m + 1) : Len(t[i]) >= 1
        <5> TAKE i \in 1..(m + 1)
        <5>1. CASE i = m + 1
          BY <3>2, <5>1
        <5>2. CASE i \in 1..m
          BY <2>8, <3>2, <5>2
        <5> QED
          BY <3>3, <5>1, <5>2
      <4> QED
        BY <2>6, <3>2, <4>1
    <3>5. Single(t) <=> Single(s)
      <4>1. Len(s) = m /\ m + 1 \in 1..(m + 1) /\ \A i \in 1..m : i \in 1..(m + 1)
        BY <2>6 DEF m
      <4>2. ASSUME Single(t) PROVE Single(s)
        BY <3>2, <4>1, <4>2
      <4>3. ASSUME Single(s) PROVE Single(t)
        BY <3>2, <3>3, <4>1, <4>3
      <4> QED
        BY <4>2, <4>3
    <3>6. Told2(t, n)
      <4> SUFFICES ASSUME Single(t) PROVE Len(t) = n /\ \A i \in 1..n : t[i][1] = pieces[i]
        OBVIOUS
      <4>1. m = n - 1 /\ \A i \in 1..(n-1) : s[i][1] = pieces[i]
        BY <2>6, <3>5 DEF m
      <4> QED
        BY <2>1, <2>7, <3>2, <4>1
    <3>7. Told3(t, n)
      BY <2>1, <2>6, <3>5
    <3> QED
      BY <2>1, <3>4, <3>6, <3>7 DEF t
  <2>10. CASE ~ (n = 1 \/ pieces[n-1].text = "line")
    <3>1. t = [s EXCEPT ![m] = Append(@, pieces[n])]
      BY <1>0, <2>1, <2>2, <2>3, <2>10, SplitEquation
    <3>2. m >= 1
      BY <2>1, <2>2, <2>6, <2>10
    <3>3. /\ t \in Seq(Seq(Piece)) /\ Len(t) = m
          /\ \A i \in 1..m : i # m => t[i] = s[i]
          /\ Len(t[m]) = Len(s[m]) + 1
      BY <2>5, <2>6, <3>1, <3>2, LineContinued
    <3>4. s[m] \in Seq(Piece) /\ Len(s[m]) \in Nat
      BY <2>6, <3>2, ElementOfSeq, LenProperties
    <3> HIDE DEF s, t, m, Piece
    <3>5. Len(s[m]) >= 1 /\ Len(t[m]) >= 2 /\ m \in 1..Len(t)
      BY <2>6, <3>2, <3>3, <3>4 DEF m
    <3>6. Told1(t, n)
      <4>1. \A i \in 1..m : Len(t[i]) >= 1
        <5> TAKE i \in 1..m
        <5>1. CASE i = m
          BY <3>5, <5>1
        <5>2. CASE i # m
          BY <2>8, <3>3, <5>2
        <5> QED
          BY <5>1, <5>2
      <4> QED
        BY <3>2, <3>3, <4>1
    <3>7. ~ Single(t)
      <4>1. Len(t[m]) # 1
        BY <3>3, <3>4, <3>5
      <4> QED
        BY <3>5, <4>1
    <3>8. n - 1 \in 1..(n-1) /\ pieces[n-1].text # "line"
      BY <2>1, <2>2, <2>10
    <3>9. Told3(t, n)
      BY <3>8
    <3> QED
      BY <2>1, <3>6, <3>7, <3>9 DEF t
  <2> QED
    BY <2>9, <2>10
<1>3. Untold = {}
  <2>1. Untold \subseteq Nat
    BY <1>0
  <2> HIDE DEF Untold
  <2> QED
    BY <1>2, <2>1, LeastNatural
<1>4. Good(Len(pieces))
  <2>1. Len(pieces) \in 0..Len(pieces)
    BY <1>0
  <2> HIDE DEF Good
  <2> QED
    BY <1>3, <2>1
<1>5. /\ Told1(Lines, Len(pieces)) /\ Told2(Lines, Len(pieces))
      /\ Told3(Lines, Len(pieces))
  BY <1>4 DEF Lines
<1>6. Len(Lines) \in Nat /\ DOMAIN Lines = 1..Len(Lines)
  BY <1>5, LenProperties
<1>7. \A i \in 1..(Len(pieces) - 1) : i \in 1..Len(pieces)
  BY <1>0
<1> QED
  BY <1>5, <1>6, <1>7

(* A stream starts empty.                                                  *)
LEMMA StreamInitIInv == StreamInit => StreamIInv
<1> SUFFICES ASSUME StreamInit PROVE StreamIInv
  OBVIOUS
<1>1. StreamTyped
  BY DEF StreamInit, StreamTyped
<1>2. PiecesOrdered /\ AcknowledgedKept /\ WholeUntilDeath
  BY DEF StreamInit, PiecesOrdered, AcknowledgedKept, WholeUntilDeath
<1>3. LostCounted
  <2>1. Lost = {}
    BY DEF StreamInit, Lost
  <2> QED
    BY <2>1, FS_EmptySet DEF StreamInit, LostCounted
<1> QED
  BY <1>1, <1>2, <1>3 DEF StreamIInv

(* What a new piece, which carries the next event, leaves of the order.    *)
LEMMA LeaveOrdered ==
  ASSUME StreamTyped, PiecesOrdered, NEW text \in {"line", "half", "body"}, Leave(text),
         Len(acknowledged') + deaths' = Event
  PROVE  /\ pieces' \in Seq(Piece) /\ Len(pieces') = Len(pieces) + 1
         /\ pieces'[Len(pieces) + 1].event = Event
         /\ pieces'[Len(pieces) + 1].text = text
         /\ \A i \in DOMAIN pieces : pieces'[i] = pieces[i]
         /\ PiecesOrdered'
<1> DEFINE piece == [event |-> Event, text |-> text]
           N == Len(acknowledged) + deaths
<1>1. /\ pieces \in Seq(Piece) /\ Len(pieces) \in Nat /\ N \in Nat
      /\ DOMAIN pieces = 1..Len(pieces) /\ Event = N + 1
  BY LenProperties DEF StreamTyped, Event
<1>2. piece \in Piece /\ piece.event = Event /\ piece.text = text
  BY <1>1 DEF Piece
<1>3. pieces' = Append(pieces, piece)
  BY DEF Leave
<1> HIDE DEF piece, N
<1>4. /\ pieces' \in Seq(Piece) /\ Len(pieces') = Len(pieces) + 1
      /\ \A i \in 1..Len(pieces) : pieces'[i] = pieces[i]
      /\ pieces'[Len(pieces) + 1] = piece
  BY <1>1, <1>2, <1>3, AppendProperties
<1>5. DOMAIN pieces' = 1..(Len(pieces) + 1)
  BY <1>4, LenProperties
<1>6. \A i \in 1..(Len(pieces) + 1) : i = Len(pieces) + 1 \/ i \in 1..Len(pieces)
  BY <1>1
<1>7. \A i \in 1..Len(pieces) : pieces[i].event \in 1..N
  BY <1>1 DEF PiecesOrdered, N
<1>8. \A i \in DOMAIN pieces' : pieces'[i].event \in 1..(N + 1)
  <2> TAKE i \in DOMAIN pieces'
  <2>1. CASE i = Len(pieces) + 1
    BY <1>1, <1>2, <1>4, <2>1
  <2>2. CASE i \in 1..Len(pieces)
    <3>1. pieces'[i] = pieces[i] /\ pieces[i].event \in 1..N
      BY <1>4, <1>7, <2>2
    <3> QED
      BY <1>1, <3>1
  <2> QED
    BY <1>5, <1>6, <2>1, <2>2
<1>9. \A i, j \in DOMAIN pieces' : i < j => pieces'[i].event < pieces'[j].event
  <2> SUFFICES ASSUME NEW i \in DOMAIN pieces', NEW j \in DOMAIN pieces', i < j
               PROVE  pieces'[i].event < pieces'[j].event
    OBVIOUS
  <2>1. i \in 1..Len(pieces)
    BY <1>1, <1>5
  <2>2. pieces'[i] = pieces[i] /\ pieces[i].event \in 1..N
    BY <1>4, <1>7, <2>1
  <2>3. CASE j = Len(pieces) + 1
    BY <1>1, <1>2, <1>4, <2>2, <2>3
  <2>4. CASE j \in 1..Len(pieces)
    <3>1. pieces'[j] = pieces[j] /\ pieces[i].event < pieces[j].event
      BY <1>1, <1>4, <2>1, <2>4 DEF PiecesOrdered
    <3> QED
      BY <2>2, <3>1
  <2> QED
    BY <1>5, <1>6, <2>3, <2>4
<1>10. Len(acknowledged') + deaths' = N + 1
  BY <1>1
<1> QED
  BY <1>1, <1>2, <1>4, <1>8, <1>9, <1>10 DEF PiecesOrdered

(* An append that returns leaves a whole line and acknowledges its event.  *)
LEMMA AppendEventStream ==
  ASSUME StreamIInv, write_jsonl_event
  PROVE  StreamIInv'
<1> DEFINE N == Len(acknowledged) + deaths
           old == acknowledged
           new == acknowledged'
<1>1. /\ old \in Seq(Nat) /\ Len(old) \in Nat /\ DOMAIN old = 1..Len(old)
      /\ deaths \in Nat /\ deaths' = deaths /\ N \in Nat /\ Event = N + 1
      /\ StreamTyped /\ PiecesOrdered
  BY LenProperties DEF StreamIInv, StreamTyped, write_jsonl_event, Event
<1>2. new = Append(old, Event) /\ Leave("line")
  BY DEF write_jsonl_event
<1> HIDE DEF old, new, N
<1>3. /\ new \in Seq(Nat) /\ Len(new) = Len(old) + 1
      /\ \A a \in 1..Len(old) : new[a] = old[a]
      /\ new[Len(old) + 1] = Event
  BY <1>1, <1>2, AppendProperties
<1>4. DOMAIN new = 1..(Len(old) + 1)
  BY <1>3, LenProperties
<1>5. \A a \in 1..(Len(old) + 1) : a = Len(old) + 1 \/ a \in 1..Len(old)
  BY <1>1
<1>6. Len(new) + deaths' = Event
  BY <1>1, <1>3 DEF N, old
<1>7. /\ pieces' \in Seq(Piece) /\ Len(pieces') = Len(pieces) + 1
      /\ pieces'[Len(pieces) + 1].event = Event
      /\ pieces'[Len(pieces) + 1].text = "line"
      /\ \A i \in DOMAIN pieces : pieces'[i] = pieces[i]
      /\ PiecesOrdered'
  BY <1>1, <1>2, <1>6, LeaveOrdered DEF new
<1>8. /\ DOMAIN pieces = 1..Len(pieces) /\ Len(pieces) \in Nat
      /\ DOMAIN pieces' = 1..(Len(pieces) + 1)
  BY <1>1, <1>7, LenProperties DEF StreamTyped
<1>9. StreamTyped'
  BY <1>1, <1>3, <1>7 DEF StreamTyped, new
<1>10. AcknowledgedKept'
  <2> SUFFICES ASSUME NEW a \in DOMAIN new
               PROVE  \E i \in DOMAIN pieces' : pieces'[i].event = new[a]
    BY DEF AcknowledgedKept, new
  <2>1. CASE a = Len(old) + 1
    <3>1. Len(pieces) + 1 \in DOMAIN pieces'
      BY <1>8
    <3> QED
      BY <1>3, <1>7, <2>1, <3>1
  <2>2. CASE a \in 1..Len(old)
    <3>1. PICK i \in DOMAIN pieces : pieces[i].event = old[a]
      BY <1>1, <2>2 DEF StreamIInv, AcknowledgedKept, old
    <3>2. i \in DOMAIN pieces' /\ pieces'[i] = pieces[i]
      BY <1>7, <1>8, <3>1
    <3> QED
      BY <1>3, <2>2, <3>1, <3>2
  <2> QED
    BY <1>4, <1>5, <2>1, <2>2
<1>11. LostCounted'
  <2>1. ToSet(new) = ToSet(old) \cup {Event}
    <3>1. \A e : e \in ToSet(new) <=> \E a \in DOMAIN new : new[a] = e
      BY DEF ToSet
    <3>2. \A e : e \in ToSet(old) <=> \E a \in DOMAIN old : old[a] = e
      BY DEF ToSet
    <3>3. Len(old) + 1 \in DOMAIN new /\ \A a \in DOMAIN old : a \in DOMAIN new
      BY <1>1, <1>4
    <3> QED
      BY <1>1, <1>3, <1>4, <1>5, <3>1, <3>2, <3>3
  <2>2. (1..(N + 1)) \ (ToSet(old) \cup {N + 1}) = (1..N) \ ToSet(old)
    BY <1>1
  <2>3. Len(new) + deaths' = N + 1
    BY <1>1, <1>6
  <2>4. Lost' = Lost
    BY <1>1, <2>1, <2>2, <2>3 DEF Lost, N, old, new
  <2> QED
    BY <1>1, <2>4 DEF StreamIInv, LostCounted
<1>12. WholeUntilDeath'
  <2>1. \A i \in 1..(Len(pieces) + 1) : i = Len(pieces) + 1 \/ i \in 1..Len(pieces)
    BY <1>8
  <2> QED
    BY <1>1, <1>7, <1>8, <2>1 DEF StreamIInv, WholeUntilDeath
<1> QED
  BY <1>7, <1>9, <1>10, <1>11, <1>12, Zenon DEF StreamIInv

(* An append that dies leaves less, and its event is lost or late.         *)
LEMMA WriteDiesStream ==
  ASSUME StreamIInv, WriteDies
  PROVE  StreamIInv'
<1> DEFINE N == Len(acknowledged) + deaths
<1>1. /\ acknowledged \in Seq(Nat) /\ Len(acknowledged) \in Nat
      /\ DOMAIN acknowledged = 1..Len(acknowledged)
      /\ acknowledged' = acknowledged
      /\ deaths \in Nat /\ deaths' = deaths + 1 /\ N \in Nat /\ Event = N + 1
      /\ StreamTyped /\ PiecesOrdered /\ AcknowledgedKept /\ LostCounted
  BY LenProperties DEF StreamIInv, StreamTyped, WriteDies, Event
<1>2. Len(acknowledged') + deaths' = Event
  BY <1>1
<1> HIDE DEF N
<1>3. /\ pieces \in Seq(Piece) /\ Len(pieces) \in Nat /\ DOMAIN pieces = 1..Len(pieces)
  BY <1>1, LenProperties DEF StreamTyped
<1>4. LostCounted'
  <2>1. N + 1 \notin ToSet(acknowledged)
    <3>1. SUFFICES ASSUME NEW a \in DOMAIN acknowledged, acknowledged[a] = N + 1
                   PROVE  FALSE
      BY DEF ToSet
    <3>2. PICK i \in DOMAIN pieces : pieces[i].event = N + 1
      BY <1>1, <3>1 DEF AcknowledgedKept
    <3>3. pieces[i].event \in 1..N
      BY <1>1 DEF PiecesOrdered, N
    <3> QED
      BY <1>1, <3>2, <3>3
  <2>2. Len(acknowledged') + deaths' = N + 1
    BY <1>1, <1>2
  <2>3. Lost' = Lost \cup {N + 1}
    <3>1. (1..(N + 1)) \ ToSet(acknowledged) = ((1..N) \ ToSet(acknowledged)) \cup {N + 1}
      BY <1>1, <2>1
    <3> QED
      BY <1>1, <2>2, <3>1 DEF Lost, N
  <2>4. N + 1 \notin Lost
    BY <1>1 DEF Lost, N
  <2> QED
    BY <1>1, <2>3, <2>4, FS_AddElement DEF LostCounted
<1>5. WholeUntilDeath'
  BY <1>1 DEF WholeUntilDeath
<1>6. CASE UNCHANGED pieces
  <2>1. StreamTyped'
    BY <1>1, <1>6 DEF StreamTyped
  <2>2. PiecesOrdered'
    <3>1. \A i \in DOMAIN pieces : pieces[i].event \in 1..(N + 1)
      BY <1>1 DEF PiecesOrdered, N
    <3> QED
      BY <1>1, <1>2, <1>6, <3>1 DEF PiecesOrdered
  <2>3. AcknowledgedKept'
    BY <1>1, <1>6 DEF AcknowledgedKept
  <2> QED
    BY <1>4, <1>5, <2>1, <2>2, <2>3, Zenon DEF StreamIInv
<1>7. ASSUME NEW text \in {"half", "body"}, Leave(text) PROVE StreamIInv'
  <2>1. /\ pieces' \in Seq(Piece) /\ Len(pieces') = Len(pieces) + 1
        /\ \A i \in DOMAIN pieces : pieces'[i] = pieces[i]
        /\ PiecesOrdered'
    BY <1>1, <1>2, <1>7, LeaveOrdered
  <2>2. StreamTyped'
    BY <1>1, <2>1 DEF StreamTyped
  <2>3. \A i \in DOMAIN pieces : i \in DOMAIN pieces'
    BY <1>3, <2>1, LenProperties
  <2>4. AcknowledgedKept'
    BY <1>1, <2>1, <2>3 DEF AcknowledgedKept
  <2> QED
    BY <1>4, <1>5, <2>1, <2>2, <2>4, Zenon DEF StreamIInv
<1> QED
  BY <1>6, <1>7 DEF WriteDies

(* The stream's invariant is inductive, beside whatever the artifacts do.  *)
THEOREM StreamInductive == BundleSpec => []StreamIInv
<1>1. BundleInit => StreamIInv
  BY StreamInitIInv DEF BundleInit
<1>2. ASSUME StreamIInv, [BundleNext]_<<vars, streamVars, atWork>>
      PROVE  StreamIInv'
  <2>1. CASE UNCHANGED streamVars
    BY <1>2, <2>1
       DEF streamVars, StreamIInv, StreamTyped, PiecesOrdered, AcknowledgedKept,
           LostCounted, Lost, WholeUntilDeath
  <2>2. CASE StreamNext
    BY <1>2, <2>2, AppendEventStream, WriteDiesStream DEF StreamNext
  <2> QED
    BY <1>2, <2>1, <2>2 DEF BundleNext
<1> QED
  BY <1>1, <1>2, PTL DEF BundleSpec

(* Lines of one piece each give the events of the pieces.                  *)
LEMMA EventsOfPieces ==
  ASSUME pieces \in Seq(Piece), \A i \in DOMAIN Lines : Len(Lines[i]) = 1
  PROVE  /\ [i \in DOMAIN Lines |-> Lines[i][1].event] =
              [i \in 1..Len(pieces) |-> pieces[i].event]
         /\ \A i \in DOMAIN Lines : i \in 1..Len(pieces) /\ Lines[i][1] = pieces[i]
<1>1. DOMAIN Lines = 1..Len(pieces)
  BY LinesOfOnePiece
<1>2. \A i \in 1..Len(pieces) : Lines[i][1] = pieces[i]
  BY LinesOfOnePiece
<1> QED
  BY <1>1, <1>2

(* A read of a stream loses no acknowledged event and keeps the order; it  *)
(* adds only events whose append died, and raises only if one did.         *)
THEOREM StreamIsFaithful == BundleSpec => []StreamFaithful
<1> DEFINE events == read_jsonl_stream
<1>1. ASSUME StreamIInv, events = Raised PROVE deaths > 0
  <2>1. pieces \in Seq(Piece) /\ deaths \in Nat
    BY <1>1 DEF StreamIInv, StreamTyped
  <2>2. SUFFICES ASSUME deaths = 0 PROVE FALSE
    BY <2>1
  <2>3. \A i \in 1..Len(pieces) : pieces[i].text = "line"
    BY <1>1, <2>1, <2>2, LenProperties DEF StreamIInv, WholeUntilDeath
  <2>4. \A i \in DOMAIN Lines : Len(Lines[i]) = 1
    BY <2>1, <2>3, LinesOfOnePiece
  <2>5. \A i \in DOMAIN Lines : Parses(Lines[i])
    BY <2>1, <2>3, <2>4, EventsOfPieces DEF Parses
  <2>6. events = [i \in 1..Len(pieces) |-> pieces[i].event]
    BY <2>1, <2>4, <2>5, EventsOfPieces DEF read_jsonl_stream
  <2>7. \A i \in 1..Len(pieces) : pieces[i].event \in Nat
    <3>1. \A i \in 1..Len(pieces) : pieces[i] \in Piece
      BY <2>1, ElementOfSeq
    <3> QED
      BY <3>1 DEF Piece
  <2>8. events \in Seq(Nat)
    <3>1. Len(pieces) \in Nat
      BY <2>1, LenProperties
    <3> HIDE DEF events
    <3> QED
      BY <2>6, <2>7, <3>1, IsASeq
  <2> QED
    BY <1>1, <2>8, StreamAssumption
<1>2. ASSUME StreamIInv, events # Raised
      PROVE  /\ ToSet(acknowledged) \subseteq ToSet(events)
             /\ \A i, j \in DOMAIN events : i < j => events[i] < events[j]
             /\ Cardinality(ToSet(events) \ ToSet(acknowledged)) <= deaths
  <2>1. events = [i \in 1..Len(pieces) |-> pieces[i].event]
    <3>1. /\ \A i \in DOMAIN Lines : Parses(Lines[i])
          /\ events = [i \in DOMAIN Lines |-> Lines[i][1].event]
      BY <1>2 DEF read_jsonl_stream
    <3> HIDE DEF events
    <3> QED
      BY <1>2, <3>1, EventsOfPieces DEF StreamIInv, StreamTyped, Parses
  <2>2. DOMAIN pieces = 1..Len(pieces)
    BY <1>2, LenProperties DEF StreamIInv, StreamTyped
  <2> HIDE DEF events
  <2>3. DOMAIN events = DOMAIN pieces /\ \A i \in DOMAIN pieces : events[i] = pieces[i].event
    BY <2>1, <2>2
  <2>4. ToSet(acknowledged) \subseteq ToSet(events)
    BY <1>2, <2>3 DEF StreamIInv, AcknowledgedKept, ToSet
  <2>5. \A i, j \in DOMAIN events : i < j => events[i] < events[j]
    BY <1>2, <2>3 DEF StreamIInv, PiecesOrdered
  <2>6. ToSet(events) \ ToSet(acknowledged) \subseteq Lost
    BY <1>2, <2>3 DEF StreamIInv, PiecesOrdered, ToSet, Lost
  <2>7. IsFiniteSet(Lost) /\ Cardinality(Lost) = deaths
    BY <1>2 DEF StreamIInv, LostCounted
  <2> QED
    BY <2>4, <2>5, <2>6, <2>7, FS_Subset
<1>3. StreamIInv => StreamFaithful
  BY <1>1, <1>2 DEF StreamFaithful
<1> QED
  BY <1>3, StreamInductive, PTL

=============================================================================
