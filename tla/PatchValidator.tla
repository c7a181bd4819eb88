--------------------------- MODULE PatchValidator ---------------------------
(***************************************************************************)
(* patch_validator.py: parsing a git patch and judging it against a        *)
(* TaskSpec.                                                               *)
(*                                                                         *)
(* A patch is a sequence of lines, of which only the kind matters, and the *)
(* two paths of a header, the line "diff --git".  Git is external: Change  *)
(* is what it can do to a file, GitLines the lines it prints for that, and *)
(* Touched the paths at which applying them changes the work tree.         *)
(***************************************************************************)
EXTENDS TaskSpec

CONSTANT Unchecked   \* no list of expected files, or no repository to check against

DevNull == <<"", "dev", "null">>

(* "quoted" is a change of a file whose name git prints in quotes.  Only a *)
(* file that is moved or copied has two names, and no name is "/dev/null". *)
ChangeKind == {"modify", "create", "delete", "binary", "rename", "copy", "quoted"}
Change ==
  {c \in [kind : ChangeKind, old : RawPath \ {DevNull}, new : RawPath \ {DevNull}] :
     c.old # c.new <=> c.kind \in {"rename", "copy"}}

Line(kind) == [kind |-> kind, old |-> <<>>, new |-> <<>>]

GitLines(change) ==
  <<IF change.kind = "quoted" THEN Line("other")
    ELSE [kind |-> "header", old |-> change.old, new |-> change.new]>> \o
  CASE change.kind = "create" -> <<Line("new_file_mode"), Line("other")>>
    [] change.kind = "delete" -> <<Line("deleted_file_mode"), Line("other")>>
    [] change.kind = "binary" -> <<Line("other"), Line("binary_files_differ")>>
    [] change.kind = "rename" -> <<Line("other"), Line("rename"), Line("rename")>>
    [] OTHER -> <<Line("other")>>

(* Printed(changes)[n]: a commit message, then the first n changes.        *)
Printed(changes) ==
  LET printed[n \in 0..Len(changes)] ==
        IF n = 0 THEN <<Line("other")>> ELSE printed[n-1] \o GitLines(changes[n])
  IN  printed

PatchLines(changes) == Printed(changes)[Len(changes)]

Touched(change) ==
  CASE change.kind = "rename" -> {change.old, change.new}
    [] change.kind = "delete" -> {change.old}
    [] OTHER -> {change.new}

-----------------------------------------------------------------------------
ParsedPatchFile(line) ==
  [old_path |-> line.old, new_path |-> line.new, is_new |-> FALSE,
   is_deleted |-> FALSE, is_rename |-> line.old # line.new, is_binary |-> FALSE]

Mark(file, kind) ==
  CASE kind = "new_file_mode" -> [file EXCEPT !.is_new = TRUE]
    [] kind = "deleted_file_mode" -> [file EXCEPT !.is_deleted = TRUE]
    [] kind = "rename" -> [file EXCEPT !.is_rename = TRUE]
    [] kind = "binary_files_differ" -> [file EXCEPT !.is_binary = TRUE]
    [] OTHER -> file

(* Mutant: a new entry is begun with the marks of the one before.          *)
ReadLineKeepingMarks(files, line) ==
  IF line.kind = "header"
  THEN Append(files, IF files = <<>> THEN ParsedPatchFile(line)
                     ELSE [Last(files) EXCEPT !.old_path = line.old, !.new_path = line.new])
  ELSE IF files = <<>> THEN files
  ELSE [files EXCEPT ![Len(files)] = Mark(@, line.kind)]

(* One turn of the loop.  The last entry is the current one; lines before  *)
(* the first header belong to none.                                        *)
ReadLine(files, line) ==
  IF line.kind = "header" THEN Append(files, ParsedPatchFile(line))
  ELSE IF files = <<>> THEN files
  ELSE [files EXCEPT ![Len(files)] = Mark(@, line.kind)]

(* Entries(lines)[n]: the entries begun within the first n lines.          *)
Entries(lines) ==
  LET files[n \in 0..Len(lines)] ==
        IF n = 0 THEN <<>> ELSE ReadLine(files[n-1], lines[n])
  IN  files

parse_patch(lines) == Entries(lines)[Len(lines)]

-----------------------------------------------------------------------------
PatchPaths(file) == {file.old_path, file.new_path} \ {DevNull}

ChangedPath(file) == IF file.is_deleted THEN file.old_path ELSE file.new_path
ChangedPaths(files) == {ChangedPath(files[i]) : i \in DOMAIN files} \ {DevNull}

(* What is compared with the write scope and the expected files: a path    *)
(* that is not repository-relative is an error already.                    *)
ChangedSet(files) ==
  {normalize_repo_path(path) : path \in {p \in ChangedPaths(files) : IsRepoPath(p)}}

RepoRelative(files) ==
  \A i \in DOMAIN files : \A path \in PatchPaths(files[i]) : IsRepoPath(path)

ScopeValid(files, spec) ==
  \A path \in ChangedSet(files) : validate_path_access(spec, path, "write") = "ok"

ScopeExact(files, expected) ==
  expected = Unchecked \/ ChangedSet(files) = NormalizedList(expected)

(* git apply --check "passed", "failed", or was "unavailable": no git, or  *)
(* no answer in time.                                                      *)
ApplyAccepted(apply, required) ==
  apply # "failed" /\ (apply = "unavailable" => ~ required)

(* An expected file that does not normalize, and a changed one that        *)
(* normalizes to nothing, raise ValueError.                                *)
PatchRaises(files, expected) ==
  /\ files # <<>>
  /\ \/ <<>> \in ChangedSet(files)
     \/ expected # Unchecked /\ \E i \in DOMAIN expected : ~ IsRepoPath(expected[i])

PatchValid(files, spec, expected, apply, required) ==
  /\ files # <<>>
  /\ RepoRelative(files)
  /\ ScopeValid(files, spec)
  /\ ScopeExact(files, expected)
  /\ ApplyAccepted(apply, required)
=============================================================================
