--------------------------- MODULE SourceSnapshot ---------------------------
(***************************************************************************)
(* The source identity of a checkout with uncommitted changes, and the     *)
(* transfer of these changes to a clean checkout elsewhere                 *)
(* (nxr-task/src/execution_spec.rs).  git status names the changed paths,  *)
(* the files are read one by one while the user goes on working, and the   *)
(* receiver stages, activates and verifies them.                           *)
(*                                                                         *)
(* A path holds nothing, a file with contents and a mode, or a symbolic    *)
(* link, whose target exists ("here") or does not ("none").  Equal digests *)
(* stand for equal contents.  Submodules and paths in directories that     *)
(* turn into files are left out.                                           *)
(***************************************************************************)
EXTENDS Integers, FiniteSets, SequencesExt

CONSTANTS
    SnapPaths,  \* the paths of the checkout
    SnapHeads,  \* the trees that HEAD may be, functions from paths to values
    SnapTexts,  \* contents of files
    MaxSnapEdits    \* how many steps the user takes

VARIABLES
    sn_head,    \* the tree of HEAD
    sn_index,   \* the index of git
    sn_work,    \* the files in the checkout
    sn_edits,   \* steps the user has taken
    sn_quiet,   \* ghost: no interference of the user and no failure of git so far
    sn_pc,      \* where the command is
    sn_records, \* records of git status that are still to be parsed
    sn_entries, \* the entries parsed by this pass
    sn_expected,\* the entries behind dirty_snapshot_id
    sn_files,   \* the DirtyFiles with their bytes
    sn_stage,   \* .nixplane-stage at the destination
    sn_staged,  \* how many files have been staged
    sn_left,    \* paths still to be removed or moved
    sn_dest     \* the checkout at the destination

sn_tree == <<sn_head, sn_index, sn_work, sn_edits>>
sn_receiver == <<sn_stage, sn_staged, sn_left, sn_dest>>
sn_vars == <<sn_tree, sn_quiet, sn_pc, sn_records, sn_entries, sn_expected, sn_files, sn_receiver>>

Gone == [kind |-> "deleted", mode |-> "000000", payload |-> ""]
RegularFile(text, mode) == [kind |-> "file", mode |-> mode, payload |-> text]
SymbolicLink(target) == [kind |-> "symlink", mode |-> "120000", payload |-> target]
SnapValues == {Gone} \cup {RegularFile(t, m) : t \in SnapTexts, m \in {"100644", "100755"}}
                     \cup {SymbolicLink(t) : t \in {"here", "none"}}

ASSUME SnapAssumption ==
    /\ IsFiniteSet(SnapPaths) /\ SnapHeads \subseteq [SnapPaths -> SnapValues]
    /\ MaxSnapEdits \in Nat

(* Path::exists follows links, and so does fs::read.                       *)
Exists(value) == value.kind = "file" \/ value = SymbolicLink("here")
ReadThrough(value) == IF value.kind = "file" THEN value.payload ELSE "target"

-----------------------------------------------------------------------------
(* git status --porcelain=v1 --untracked-files=all -z.  A file that is     *)
(* gone from the index and may be there under another name is a rename;    *)
(* git chooses the pairs.                                                  *)
MaybeRenamed == {pair \in SnapPaths \X SnapPaths :
    /\ sn_head[pair[1]] # Gone /\ sn_index[pair[1]] = Gone
    /\ sn_head[pair[2]] = Gone /\ sn_index[pair[2]] # Gone
    /\ sn_head[pair[1]].kind = sn_index[pair[2]].kind
    /\ sn_head[pair[1]].payload = sn_index[pair[2]].payload}

RenamePairings == {pairs \in SUBSET MaybeRenamed :
    /\ \A x, y \in pairs : x # y => x[1] # y[1] /\ x[2] # y[2]
    /\ \A c \in MaybeRenamed : \E x \in pairs : x[1] = c[1] \/ x[2] = c[2]}

(* With -z the record of a rename names the new path first.                *)
RenameRecords(pairs) == {[code |-> "R", fields |-> <<pair[2], pair[1]>>] : pair \in pairs}

DroppedPath(p) == \/ sn_head[p] # Gone /\ sn_index[p] = Gone
                  \/ sn_index[p] # Gone /\ sn_work[p] = Gone

TrackedRecords(pairs) ==
    {[code |-> IF DroppedPath(p) THEN "D" ELSE "M", fields |-> <<p>>] :
        p \in {q \in SnapPaths : /\ \A pair \in pairs : q # pair[1] /\ q # pair[2]
                                 /\ \/ sn_head[q] # sn_index[q]
                                    \/ sn_index[q] # Gone /\ sn_index[q] # sn_work[q]}}

UntrackedRecords == {[code |-> "??", fields |-> <<p>>] :
                        p \in {q \in SnapPaths : sn_index[q] = Gone /\ sn_work[q] # Gone}}

StatusRecords(pairs) ==
    SetToSeq(RenameRecords(pairs) \cup TrackedRecords(pairs)) \o SetToSeq(UntrackedRecords)

-----------------------------------------------------------------------------
tombstone(path) == [path |-> path, value |-> Gone]
entry_for_worktree(path) == [path |-> path, value |-> sn_work[path]]

(* The entries that one record of the status adds to the inventory.        *)
EntriesOf(record) ==
    LET path == record.fields[1]
    IN  IF record.code = "R" THEN <<tombstone(path), entry_for_worktree(record.fields[2])>>
        ELSE IF record.code = "D" /\ ~Exists(sn_work[path]) THEN <<tombstone(path)>>
        ELSE <<entry_for_worktree(path)>>

(* The entries are sorted by path, with a stable sort, and hashed: each    *)
(* counts with its rank among those of its path.                           *)
digest_source_entries(entries) ==
    {<<Cardinality({j \in 1..i : entries[j].path = entries[i].path}), entries[i]>> :
        i \in DOMAIN entries}

(* The payload of a file is the hash of the bytes that were read with it.  *)
WithBytes(file) ==
    [path  |-> file.path,
     value |-> IF file.value.kind = "file" THEN RegularFile(file.bytes, file.value.mode) ELSE file.value]

dirty_files_digest(files) ==
    digest_source_entries([i \in DOMAIN files |-> WithBytes(files[i])])

-----------------------------------------------------------------------------
SnapInit ==
    /\ sn_head \in SnapHeads /\ sn_index = sn_head /\ sn_work = sn_head /\ sn_edits = 0
    /\ sn_quiet = TRUE /\ sn_pc = "idle"
    /\ sn_records = <<>> /\ sn_entries = <<>> /\ sn_expected = <<>> /\ sn_files = <<>>
    /\ sn_stage = [p \in SnapPaths |-> Gone] /\ sn_staged = 0 /\ sn_left = {} /\ sn_dest = sn_head

(* The user writes, deletes, stages or renames a file.                     *)
UserEdit ==
    /\ sn_edits < MaxSnapEdits /\ sn_pc \in {"idle", "identify", "status", "capture"}
    /\ sn_edits' = sn_edits + 1 /\ sn_quiet' = (sn_quiet /\ sn_pc = "idle")
    /\ \/ \E p \in SnapPaths, v \in SnapValues :
            v # sn_work[p] /\ sn_work' = [sn_work EXCEPT ![p] = v] /\ UNCHANGED sn_index
       \/ \E p \in SnapPaths :
            /\ sn_index[p] # sn_work[p]
            /\ sn_index' = [sn_index EXCEPT ![p] = sn_work[p]] /\ UNCHANGED sn_work
       \/ \E p, q \in SnapPaths :
            /\ sn_index[p] # Gone /\ sn_work[p] # Gone /\ sn_index[q] = Gone /\ sn_work[q] = Gone
            /\ sn_work' = [sn_work EXCEPT ![p] = Gone, ![q] = sn_work[p]]
            /\ sn_index' = [sn_index EXCEPT ![p] = Gone, ![q] = sn_index[p]]
    /\ UNCHANGED <<sn_head, sn_pc, sn_records, sn_entries, sn_expected, sn_files, sn_receiver>>

(* dirty_entries asks git for the status, once for the identity and once   *)
(* for the bytes.  A git that fails has nothing to tell (unwrap_or_default)*)
(* and the checkout is taken for clean.                                    *)
dirty_entries ==
    /\ sn_pc \in {"idle", "status"}
    /\ \/ \E pairs \in RenamePairings : sn_records' = StatusRecords(pairs) /\ UNCHANGED sn_quiet
       \/ sn_records' = <<>> /\ sn_quiet' = FALSE
    /\ sn_entries' = <<>>
    /\ sn_pc' = IF sn_pc = "idle" THEN "identify" ELSE "capture"
    /\ UNCHANGED <<sn_tree, sn_expected, sn_files, sn_receiver>>

parse_porcelain ==
    /\ sn_pc \in {"identify", "capture"} /\ sn_records # <<>>
    /\ sn_entries' = sn_entries \o EntriesOf(Head(sn_records))
    /\ sn_records' = Tail(sn_records)
    /\ UNCHANGED <<sn_tree, sn_quiet, sn_pc, sn_expected, sn_files, sn_receiver>>

(* Nothing is dirty: the identity is the commit.                           *)
dirty_snapshot_id ==
    /\ sn_pc = "identify" /\ sn_records = <<>>
    /\ sn_expected' = sn_entries
    /\ sn_pc' = IF sn_entries = <<>> THEN "clean" ELSE "status"
    /\ UNCHANGED <<sn_tree, sn_quiet, sn_records, sn_entries, sn_files, sn_receiver>>

(* The bytes of each file are read again; a file that has gone is an error.*)
capture_dirty_files ==
    /\ sn_pc = "capture" /\ sn_records = <<>>
    /\ IF Len(sn_files) = Len(sn_entries)
       THEN sn_pc' = "stage" /\ UNCHANGED sn_files
       ELSE LET entry == sn_entries[Len(sn_files) + 1]
                found == sn_work[entry.path]
            IN  IF entry.value.kind = "file" /\ ~Exists(found)
                THEN sn_pc' = "failed" /\ UNCHANGED sn_files
                ELSE /\ sn_files' = Append(sn_files,
                            [path |-> entry.path, value |-> entry.value,
                             bytes |-> IF entry.value.kind = "file" THEN ReadThrough(found) ELSE ""])
                     /\ UNCHANGED sn_pc
    /\ UNCHANGED <<sn_tree, sn_quiet, sn_records, sn_entries, sn_expected, sn_receiver>>

(* One file written to the staging directory.  A write to a path that is   *)
(* staged as a link goes through the link, and keeps the mode of a file.   *)
StageOne(stage, file) ==
    LET old == stage[file.path]
        mode == IF file.value.mode # "100755" /\ old.kind = "file" THEN old.mode ELSE file.value.mode
    IN  CASE file.value.kind = "deleted" -> stage
          [] file.value.kind = "symlink" -> [stage EXCEPT ![file.path] = file.value]
          [] file.value.kind = "file" /\ old.kind = "symlink" -> stage
          [] file.value.kind = "file" /\ old.kind # "symlink" ->
                [stage EXCEPT ![file.path] = RegularFile(file.bytes, mode)]

(* Staging ends with an error if a path is a link at the destination or a  *)
(* link is staged over something; the destination is not touched before.   *)
materialize_stage ==
    /\ sn_pc = "stage" /\ sn_staged < Len(sn_files)
    /\ LET file == sn_files[sn_staged + 1]
       IN  IF \/ sn_dest[file.path].kind = "symlink"
              \/ file.value.kind = "symlink" /\ sn_stage[file.path] # Gone
           THEN sn_pc' = "failed" /\ UNCHANGED <<sn_stage, sn_staged>>
           ELSE /\ sn_stage' = StageOne(sn_stage, file)
                /\ sn_staged' = sn_staged + 1 /\ UNCHANGED sn_pc
    /\ UNCHANGED <<sn_tree, sn_quiet, sn_records, sn_entries, sn_expected, sn_files, sn_left, sn_dest>>

materialize_staged ==
    /\ sn_pc = "stage" /\ sn_staged = Len(sn_files)
    /\ sn_pc' = "remove"
    /\ sn_left' = {file.path : file \in {f \in ToSet(sn_files) : f.value.kind = "deleted"}}
    /\ UNCHANGED <<sn_tree, sn_quiet, sn_records, sn_entries, sn_expected, sn_files, sn_stage,
                   sn_staged, sn_dest>>

(* Deletions first, then the staged paths are moved one by one.            *)
materialize_remove ==
    /\ sn_pc = "remove"
    /\ IF sn_left = {}
       THEN /\ sn_pc' = "activate" /\ sn_left' = {p \in SnapPaths : sn_stage[p] # Gone}
            /\ UNCHANGED sn_dest
       ELSE \E p \in sn_left :
            /\ sn_left' = sn_left \ {p}
            /\ sn_dest' = IF Exists(sn_dest[p]) THEN [sn_dest EXCEPT ![p] = Gone] ELSE sn_dest
            /\ UNCHANGED sn_pc
    /\ UNCHANGED <<sn_tree, sn_quiet, sn_records, sn_entries, sn_expected, sn_files, sn_stage,
                   sn_staged>>

move_tree ==
    /\ sn_pc = "activate"
    /\ IF sn_left = {} THEN sn_pc' = "verify" /\ UNCHANGED <<sn_left, sn_dest, sn_stage>>
       ELSE \E p \in sn_left :
            /\ sn_left' = sn_left \ {p} /\ sn_dest' = [sn_dest EXCEPT ![p] = sn_stage[p]]
            /\ sn_stage' = [sn_stage EXCEPT ![p] = Gone] /\ UNCHANGED sn_pc
    /\ UNCHANGED <<sn_tree, sn_quiet, sn_records, sn_entries, sn_expected, sn_files, sn_staged>>

(* A write, a removal or a rename fails, or the process dies.              *)
MaterializeFails ==
    /\ sn_pc \in {"stage", "remove", "activate"} /\ sn_pc' = "failed"
    /\ UNCHANGED <<sn_tree, sn_quiet, sn_records, sn_entries, sn_expected, sn_files, sn_receiver>>

(* What was written through a link is found again, or not: the target of a *)
(* link is not modelled.                                                   *)
LeadsElsewhere(file) == file.value.kind = "file" /\ sn_dest[file.path].kind = "symlink"

FileVerifies(file) ==
    LET found == sn_dest[file.path]
    IN  CASE file.value.kind = "deleted" -> ~Exists(found)
          [] file.value.kind = "symlink" -> found = file.value
          [] file.value.kind = "file" -> /\ file.bytes = file.value.payload
                                         /\ found.kind = "file" => found.payload = file.bytes
                                         /\ found # Gone

AllVerify == \A i \in DOMAIN sn_files : FileVerifies(sn_files[i])

(* Fault: the receiver trusts the capture and does not compare it with the *)
(* identity that was asked for.                                            *)
Verify_unidentified ==
    /\ sn_pc = "verify"
    /\ sn_pc' = IF AllVerify THEN "verified" ELSE "failed"
    /\ UNCHANGED <<sn_tree, sn_quiet, sn_records, sn_entries, sn_expected, sn_files, sn_receiver>>

verify_materialized_dirty_files ==
    /\ sn_pc = "verify"
    /\ \/ /\ dirty_files_digest(sn_files) = digest_source_entries(sn_expected) /\ AllVerify
          /\ sn_pc' = "verified"
       \/ /\ \/ dirty_files_digest(sn_files) # digest_source_entries(sn_expected)
             \/ ~AllVerify \/ \E i \in DOMAIN sn_files : LeadsElsewhere(sn_files[i])
          /\ sn_pc' = "failed"
    /\ UNCHANGED <<sn_tree, sn_quiet, sn_records, sn_entries, sn_expected, sn_files, sn_receiver>>

SnapDone == sn_pc \in {"clean", "verified", "failed"} /\ UNCHANGED sn_vars

SnapNext ==
    \/ UserEdit \/ dirty_entries \/ parse_porcelain \/ dirty_snapshot_id \/ capture_dirty_files
    \/ materialize_stage \/ materialize_staged \/ materialize_remove \/ move_tree
    \/ MaterializeFails \/ verify_materialized_dirty_files \/ SnapDone

SnapSpec == SnapInit /\ [][SnapNext]_sn_vars

-----------------------------------------------------------------------------
(* What the receiver has verified is what the identity names, whatever the *)
(* user did while it was computed and the files were read: each path of    *)
(* the identity holds what an entry of it says (two, if the path was       *)
(* dropped from the index and is untracked).  And it is the whole checkout *)
(* if the user did nothing and no file is renamed.                         *)
SnapshotFaithful ==
    sn_pc = "verified" =>
        /\ \A path \in {sn_expected[i].path : i \in DOMAIN sn_expected} :
              \E i \in DOMAIN sn_expected :
                 /\ sn_expected[i].path = path
                 /\ IF sn_expected[i].value = Gone THEN ~Exists(sn_dest[path])
                    ELSE sn_dest[path] = sn_expected[i].value
        /\ sn_quiet /\ MaybeRenamed = {} => sn_dest = sn_work

(* "Dirty identity is a sorted inventory of path, mode, and content hash   *)
(* or symlink target": with an undisturbed checkout, each path that        *)
(* differs from HEAD is in the inventory with what it holds.               *)
InventoryComplete ==
    sn_pc \in {"clean", "status"} /\ sn_quiet =>
        \A p \in SnapPaths : sn_work[p] # sn_head[p] =>
            \E i \in DOMAIN sn_expected : sn_expected[i] = entry_for_worktree(p)

=============================================================================
