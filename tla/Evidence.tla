------------------------------ MODULE Evidence ------------------------------
(***************************************************************************)
(* evidence.py: processes that write artifacts into one evidence directory,*)
(* build its manifest and verify it, interleaved at every access to the    *)
(* directory, with crashes and with changes made behind the bundle's back. *)
(*                                                                         *)
(* The writes are those of AtomicWrite with one writer per name, where a   *)
(* published file is always whole: here a file simply has a content, and   *)
(* only the temporary files of unfinished writes hold a "partial" one.     *)
(* SHA-256 is taken to be injective, so a digest is the content itself.    *)
(***************************************************************************)
EXTENDS Naturals, FiniteSets

CONSTANTS
  Proc,        \* processes that use the bundle
  Name,        \* artifact names
  Value,       \* contents of artifacts
  Size,        \* the size of each content, in bytes
  Absent,      \* no such file
  Unreadable,  \* a manifest that is not JSON
  Malformed,   \* a manifest that is not UTF-8, or JSON but not an object
  MaxChanges,  \* bound on artifact writes and appends
  MaxRuns,     \* bound on manifests built and verified
  MaxCrashes   \* bound on crashes

Content == Value \cup {"partial"}
MANIFEST == "evidence_manifest.json"
Target(n) == <<n, "target">>
Tmp(n) == <<n, "tmp">>
File == (Name \cup {MANIFEST}) \X {"target", "tmp"}
Listed == File \ {Target(MANIFEST)}      \* what build_manifest does not skip
Foreign == <<"..", "target">>            \* a name that leads out of the directory

ASSUME EvidenceAssumption ==
  /\ Absent \notin Content \cup File \cup {Foreign}
  /\ {MANIFEST, ".."} \cap Name = {}     \* neither is an artifact's
  /\ Size \in [Content -> Nat]
  /\ MaxChanges \in Nat /\ MaxRuns \in Nat /\ MaxCrashes \in Nat

(* A manifest maps the files it lists to their sizes and digests.          *)
Entry == [size : Nat, digest : Content]
Fingerprint(content) == [size |-> Size[content], digest |-> content]
IsManifest(m) == DOMAIN m \subseteq Listed /\ m \in [DOMAIN m -> Entry]
Forged == {Unreadable, Malformed, [f \in {Foreign} |-> [size |-> 0, digest |-> "partial"]]}

VARIABLES
  dir,         \* the content of every file but the manifest
  manifest,    \* the content of the manifest
  task,        \* what each process is doing
  touched,     \* per process that builds or verifies: the files others changed since
  changes, runs, crashes

counters == <<changes, runs, crashes>>
vars == <<dir, manifest, task, touched, counters>>

Idle == [pc |-> "idle", name |-> Absent, value |-> Absent,
         todo |-> {}, file |-> Absent, size |-> 0, entries |-> <<>>, errors |-> FALSE]
Watching == {"building", "saving", "built", "verifying", "verified", "raised"}

TypeOK ==
  /\ dir \in [Listed -> Content \cup {Absent}]
  /\ manifest \in Forged \cup {Absent} \/ IsManifest(manifest)
  /\ \A p \in Proc :
       /\ task[p].pc \in {"idle", "writing", "written"} \cup Watching
       /\ task[p].name \in Name \cup {Absent} /\ task[p].value \in Value \cup {Absent}
       /\ task[p].todo \subseteq Listed \cup {Foreign}
       /\ task[p].file \in task[p].todo \cup {Absent}
       /\ task[p].size \in Nat /\ task[p].errors \in BOOLEAN
       /\ touched[p] \subseteq File
       /\ touched[p] # {} => task[p].pc \in Watching
  /\ changes \in 0..MaxChanges /\ runs \in 0..MaxRuns /\ crashes \in 0..MaxCrashes

Init ==
  /\ dir = [f \in Listed |-> Absent]
  /\ manifest = Absent
  /\ task = [p \in Proc |-> Idle]
  /\ touched = [p \in Proc |-> {}]
  /\ changes = 0 /\ runs = 0 /\ crashes = 0

-----------------------------------------------------------------------------
(* History: files, changed by the processes in who, are touched for every  *)
(* other process that is watching the directory.                           *)
Touch(who, files) ==
  touched' = [q \in Proc |-> IF q \in who \/ task[q].pc \notin Watching THEN touched[q]
                             ELSE touched[q] \cup files]

Goto(p, t) == task' = [task EXCEPT ![p] = t]

Begin(p, t) ==
  /\ task[p] = Idle
  /\ Goto(p, t)

(* Callers write one name, and so the manifest, from one process at a time.*)
Building(p) == task[p].pc \in {"building", "saving"}
Mine(n) == \A q \in Proc : task[q].name # n

Change ==
  /\ changes < MaxChanges
  /\ changes' = changes + 1
  /\ UNCHANGED <<runs, crashes>>
Run == runs < MaxRuns /\ runs' = runs + 1 /\ UNCHANGED <<changes, crashes>>

-----------------------------------------------------------------------------
(* write_json and write_text.                                              *)
WriteBegin(p, n, v) ==
  /\ Begin(p, [Idle EXCEPT !.pc = "writing", !.name = n, !.value = v])
  /\ Mine(n)
  /\ dir' = [dir EXCEPT ![Tmp(n)] = "partial"]
  /\ Touch({p}, {Tmp(n)})
  /\ Change
  /\ UNCHANGED manifest

WriteFill(p) ==
  /\ task[p].pc = "writing"
  /\ dir' = [dir EXCEPT ![Tmp(task[p].name)] = task[p].value]
  /\ Goto(p, [task[p] EXCEPT !.pc = "written"])
  /\ Touch({p}, {Tmp(task[p].name)})
  /\ UNCHANGED <<manifest, counters>>

WriteReplace(p) ==
  LET n == task[p].name
  IN  /\ task[p].pc = "written"
      /\ dir' = [dir EXCEPT ![Target(n)] = dir[Tmp(n)], ![Tmp(n)] = Absent]
      /\ Goto(p, Idle)
      /\ Touch({p}, {Target(n), Tmp(n)})
      /\ UNCHANGED <<manifest, counters>>

(* write_jsonl_event: a line is appended in place.                         *)
AppendEvent(p, n, v) ==
  /\ task[p] = Idle /\ Mine(n)
  /\ dir[Target(n)] # Absent => Size[dir[Target(n)]] < Size[v]
  /\ dir' = [dir EXCEPT ![Target(n)] = v]
  /\ Touch({p}, {Target(n)})
  /\ Change
  /\ UNCHANGED <<manifest, task>>

-----------------------------------------------------------------------------
(* Mutants: a rebuild looks at the files of the old manifest only; a       *)
(* hashed file stays the current one.                                      *)
RebuildListed(p) ==
  /\ Begin(p, [Idle EXCEPT !.pc = "building",
                 !.todo = IF manifest \in Forged \cup {Absent}
                          THEN {f \in Listed : dir[f] # Absent} ELSE DOMAIN manifest])
  /\ \A q \in Proc : ~ Building(q)
  /\ touched' = [touched EXCEPT ![p] = {}]
  /\ Run
  /\ UNCHANGED <<dir, manifest>>
HashedStaysCurrent(p) ==
  /\ task[p].pc = "building" /\ task[p].file # Absent
  /\ Goto(p, [task[p] EXCEPT !.todo = @ \ {task[p].file}])
  /\ UNCHANGED <<dir, manifest, touched, counters>>

(* build_manifest: the directory is listed once; then file by file, in an  *)
(* order no property depends on, is_file and stat, and the digest.         *)
BuildBegin(p) ==
  /\ Begin(p, [Idle EXCEPT !.pc = "building", !.todo = {f \in Listed : dir[f] # Absent}])
  /\ \A q \in Proc : ~ Building(q)
  /\ touched' = [touched EXCEPT ![p] = {}]
  /\ Run
  /\ UNCHANGED <<dir, manifest>>

(* A file gone by its turn fails is_file and is passed over.               *)
BuildStat(p, f) ==
  /\ task[p].pc = "building" /\ task[p].file = Absent
  /\ f \in task[p].todo
  /\ Goto(p, IF dir[f] = Absent THEN [task[p] EXCEPT !.todo = @ \ {f}]
             ELSE [task[p] EXCEPT !.file = f, !.size = Size[dir[f]]])
  /\ UNCHANGED <<dir, manifest, touched, counters>>

(* sha256_file; the FileNotFoundError of a file gone meanwhile is not      *)
(* caught.                                                                 *)
BuildHash(p) ==
  LET f == task[p].file
      e == [size |-> task[p].size, digest |-> dir[f]]
  IN  /\ task[p].pc = "building" /\ f # Absent
      /\ Goto(p, IF dir[f] = Absent THEN [Idle EXCEPT !.pc = "raised"]
                 ELSE [task[p] EXCEPT !.file = Absent, !.size = 0, !.todo = @ \ {f},
                         !.entries = [g \in DOMAIN @ \cup {f} |-> IF g = f THEN e ELSE @[g]]])
      /\ UNCHANGED <<dir, manifest, touched, counters>>

(* Mutant: the directory is listed again until nobody changed it meanwhile.*)
ListsUntilStable(p) ==
  /\ task[p].pc = "building" /\ task[p].todo = {}
  /\ IF touched[p] = {}
     THEN /\ dir' = [dir EXCEPT ![Tmp(MANIFEST)] = "partial"]
          /\ Goto(p, [task[p] EXCEPT !.pc = "saving"])
          /\ Touch({p}, {Tmp(MANIFEST)})
     ELSE /\ Goto(p, [task[p] EXCEPT !.todo = {f \in Listed : dir[f] # Absent}])
          /\ touched' = [touched EXCEPT ![p] = {}]
          /\ UNCHANGED dir
  /\ UNCHANGED <<manifest, counters>>

BuildSave(p) ==
  /\ task[p].pc = "building" /\ task[p].todo = {}
  /\ dir' = [dir EXCEPT ![Tmp(MANIFEST)] = "partial"]
  /\ Goto(p, [task[p] EXCEPT !.pc = "saving"])
  /\ Touch({p}, {Tmp(MANIFEST)})
  /\ UNCHANGED <<manifest, counters>>

BuildReplace(p) ==
  /\ task[p].pc = "saving"
  /\ dir' = [dir EXCEPT ![Tmp(MANIFEST)] = Absent]
  /\ manifest' = task[p].entries
  /\ Goto(p, [task[p] EXCEPT !.pc = "built"])
  /\ Touch({p}, {Tmp(MANIFEST), Target(MANIFEST)})
  /\ UNCHANGED counters

-----------------------------------------------------------------------------
(* verify_manifest: without a manifest that can be read the answer is no,  *)
(* but only a JSONDecodeError or an OSError of the reading is caught.      *)
Readable(m) == m \notin {Absent, Unreadable}

VerifyBegin(p) ==
  /\ Begin(p, IF manifest = Malformed THEN [Idle EXCEPT !.pc = "raised"]
              ELSE IF Readable(manifest)
              THEN [Idle EXCEPT !.pc = "verifying", !.entries = manifest,
                                !.todo = DOMAIN manifest]
              ELSE [Idle EXCEPT !.pc = "verified", !.errors = TRUE])
  /\ touched' = [touched EXCEPT ![p] = {}]
  /\ Run
  /\ UNCHANGED <<dir, manifest>>

(* Mutants: the size is all that is compared; a file of the right size is  *)
(* an error; a missing file is not looked for.                             *)
SizeIsEnough(p, f) ==
  LET bad == f = Foreign \/ dir[f] = Absent \/ Size[dir[f]] # task[p].entries[f].size
  IN  /\ task[p].pc = "verifying" /\ f \in task[p].todo
      /\ Goto(p, [task[p] EXCEPT !.todo = @ \ {f}, !.errors = @ \/ bad])
      /\ UNCHANGED <<dir, manifest, touched, counters>>
SizeNotLess(p, f) ==
  LET bad == f = Foreign \/ dir[f] = Absent \/ Size[dir[f]] >= task[p].entries[f].size
  IN  /\ task[p].pc = "verifying" /\ f \in task[p].todo
      /\ Goto(p, [task[p] EXCEPT !.todo = @ \ {f}, !.errors = @ \/ bad])
      /\ UNCHANGED <<dir, manifest, touched, counters>>
MissingRaises(p, f) ==
  /\ task[p].pc = "verifying" /\ task[p].file = Absent
  /\ f \in task[p].todo
  /\ Goto(p, IF f = Foreign \/ dir[f] = Absent THEN [Idle EXCEPT !.pc = "raised"]
             ELSE [task[p] EXCEPT !.file = f])
  /\ UNCHANGED <<dir, manifest, touched, counters>>

(* The next entry: a name that leads out of the directory, a missing file  *)
(* and another size are errors that end the entry.                         *)
VerifyStat(p, f) ==
  LET bad == \/ f = Foreign
             \/ dir[f] = Absent
             \/ Size[dir[f]] # task[p].entries[f].size
  IN  /\ task[p].pc = "verifying" /\ task[p].file = Absent
      /\ f \in task[p].todo
      /\ Goto(p, IF bad THEN [task[p] EXCEPT !.todo = @ \ {f}, !.errors = TRUE]
                 ELSE [task[p] EXCEPT !.file = f])
      /\ UNCHANGED <<dir, manifest, touched, counters>>

VerifyHash(p) ==
  LET f == task[p].file
      bad == dir[f] # task[p].entries[f].digest
  IN  /\ task[p].pc = "verifying" /\ f # Absent
      /\ Goto(p, IF dir[f] = Absent THEN [Idle EXCEPT !.pc = "raised"]
                 ELSE [task[p] EXCEPT !.file = Absent, !.todo = @ \ {f},
                                      !.errors = @ \/ bad])
      /\ UNCHANGED <<dir, manifest, touched, counters>>

VerifyDone(p) ==
  /\ task[p].pc = "verifying" /\ task[p].todo = {}
  /\ Goto(p, [task[p] EXCEPT !.pc = "verified"])
  /\ UNCHANGED <<dir, manifest, touched, counters>>

(* The caller has seen what build_manifest or verify_manifest returned.    *)
Return(p) ==
  /\ task[p].pc \in {"built", "verified", "raised"}
  /\ Goto(p, Idle)
  /\ touched' = [touched EXCEPT ![p] = {}]
  /\ UNCHANGED <<dir, manifest, counters>>

-----------------------------------------------------------------------------
(* The process dies, or json.dump raises: temporary files stay behind.     *)
Crash(p) ==
  /\ task[p].pc \in {"writing", "written", "building", "saving", "verifying"}
  /\ crashes < MaxCrashes
  /\ crashes' = crashes + 1
  /\ Goto(p, Idle)
  /\ touched' = [touched EXCEPT ![p] = {}]
  /\ UNCHANGED <<dir, manifest, changes, runs>>

(* Somebody else adds, changes or deletes an artifact, or changes or       *)
(* deletes the manifest; nothing bounds how often.                         *)
Tamper ==
  \/ \E n \in Name, c \in Value \cup {Absent} :
       /\ c # dir[Target(n)]
       /\ dir' = [dir EXCEPT ![Target(n)] = c]
       /\ Touch({}, {Target(n)})
       /\ UNCHANGED <<manifest, task, counters>>
  \/ \E m \in Forged \cup {Absent} :
       /\ manifest \notin {Absent, m}
       /\ manifest' = m
       /\ Touch({}, {Target(MANIFEST)})
       /\ UNCHANGED <<dir, task, counters>>

Proceed(p) ==
  \/ WriteFill(p) \/ WriteReplace(p)
  \/ BuildHash(p) \/ BuildSave(p) \/ BuildReplace(p)
  \/ VerifyHash(p) \/ VerifyDone(p)
  \/ \E f \in Listed \cup {Foreign} : BuildStat(p, f) \/ VerifyStat(p, f)

Next ==
  \/ \E p \in Proc :
       \/ \E n \in Name, v \in Value : WriteBegin(p, n, v) \/ AppendEvent(p, n, v)
       \/ BuildBegin(p) \/ VerifyBegin(p)
       \/ Proceed(p) \/ Return(p) \/ Crash(p)
  \/ Tamper

Spec == Init /\ [][Next]_vars

-----------------------------------------------------------------------------
Matches(f, entries) == f # Foreign /\ dir[f] # Absent /\ Fingerprint(dir[f]) = entries[f]

(* "Tamper detection": a valid verdict is right about every listed file    *)
(* nobody touched while the verification ran, whatever happened to that    *)
(* file before, and whatever the others did to the other files.            *)
TamperDetected ==
  \A p \in Proc :
    task[p].pc = "verified" /\ ~ task[p].errors =>
      \A f \in DOMAIN task[p].entries \ touched[p] : Matches(f, task[p].entries)

(* No false alarm: if nobody touched the manifest or a listed file while   *)
(* the verification ran, an invalid verdict has its cause in the directory.*)
NoFalseAlarm ==
  \A p \in Proc :
    LET entries == task[p].entries
    IN  /\ task[p].pc = "verified" /\ task[p].errors
        /\ touched[p] \cap (DOMAIN entries \cup {Target(MANIFEST)}) = {}
        => \/ ~ Readable(manifest)
           \/ \E f \in DOMAIN entries : ~ Matches(f, entries)

(* "SHA-256 hashes for all artifacts": when build_manifest returns, every  *)
(* artifact nobody touched during the build is listed with its present     *)
(* size and digest, and none that does not exist.                          *)
ManifestFaithful ==
  \A p \in Proc, n \in Name :
    task[p].pc = "built" /\ Target(n) \notin touched[p] =>
      IF dir[Target(n)] = Absent THEN Target(n) \notin DOMAIN task[p].entries
      ELSE /\ Target(n) \in DOMAIN task[p].entries
           /\ Matches(Target(n), task[p].entries)

(* Only a file that vanishes under a build or a verification, or a         *)
(* malformed manifest, makes it raise: else both always return a result.   *)
RaisesOnlyWhenDisturbed ==
  \A p \in Proc : task[p].pc = "raised" => touched[p] # {} \/ manifest = Malformed

(* A build or verification that does not crash returns or raises, even if  *)
(* others add, change and delete files for ever: the list it walks is      *)
(* fixed at the start, so they cannot keep it busy.                        *)
RunsEnd ==
  \A p \in Proc : task[p].pc \in {"building", "saving", "verifying"} ~>
                  task[p].pc \in {"built", "verified", "raised", "idle"}

-----------------------------------------------------------------------------
(* "Verify all artifacts match the manifest", just built and with nobody   *)
(* else at work: a fresh manifest describes the directory it lies in.      *)
FreshManifestVerifies ==
  \A p \in Proc :
    task[p].pc = "built" /\ touched[p] = {} =>
      \A f \in DOMAIN task[p].entries : Matches(f, task[p].entries)
=============================================================================
