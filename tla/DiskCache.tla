----------------------------- MODULE DiskCache ------------------------------
(***************************************************************************)
(* How one entry of the caches on disk is written, read and removed by     *)
(* processes that know nothing of each other: plan_cache.rs,               *)
(* store_exe_cache.rs, dev_env_cache.rs and disk_cache_status.rs in        *)
(* crates/nxr-core/src, and cache.rs in crates/nxr-completion/src.         *)
(*                                                                         *)
(* Plans and store executables share one temporary name per entry; the     *)
(* environments and discovery take a name of their own for each store.     *)
(* The file is opened (and truncated) before it is locked.                 *)
(*                                                                         *)
(* A file's content is the sequence of the processes whose bytes it holds; *)
(* 0 is a hole.  A payload parses when it is one process's, and complete.  *)
(***************************************************************************)
EXTENDS Naturals, Sequences, FiniteSets

CONSTANTS
    DiskWriters,   \* the storing processes, positive numbers
    MaxLen         \* length of the longest payload

ASSUME DiskAssumption ==
    /\ DiskWriters \subseteq Nat \ {0} /\ DiskWriters # {}
    /\ MaxLen \in Nat \ {0}

CacheNames == {"plans", "store_exe", "dev_env", "discovery"}
Fixed == {"plans", "store_exe"}

VARIABLES
    cache,     \* which of the caches this is
    len,       \* writer -> length of its payload
    names,     \* file name -> inode, 0 when there is no such file
    content,   \* inode -> bytes
    flock,     \* inode -> writer that holds its lock, or 0
    outer,     \* holder of discovery's lock file, or 0
    writer,    \* writer -> [pc, inode, pos]
    judged,    \* gc has read this inode at the entry's name and will remove it
    faults     \* a process died, or gc or clear removed something

disk_vars == <<cache, len, names, content, flock, outer, writer, judged, faults>>

NoFile == 0
Inodes == DiskWriters

Entry == <<"json", 0>>
SharedTemp == <<"tmp", 0>>
FileNames == {Entry, SharedTemp} \cup ({"tmp"} \X DiskWriters)

(* path.with_extension("tmp"), or unique_cache_temp_path                   *)
TempName(w) == IF cache \in Fixed THEN SharedTemp ELSE <<"tmp", w>>

DiskInit ==
    /\ cache \in CacheNames
    /\ len \in [DiskWriters -> 1..MaxLen]
    /\ names = [n \in FileNames |-> NoFile]
    /\ content = [i \in Inodes |-> <<>>]
    /\ flock = [i \in Inodes |-> 0]
    /\ outer = 0
    /\ writer = [w \in DiskWriters |-> [pc |-> "idle", inode |-> 0, pos |-> 0]]
    /\ judged = NoFile
    /\ faults = FALSE

At(w, pc) == writer[w].pc = pc
Goto(w, pc) == writer' = [writer EXCEPT ![w].pc = pc]

Whole(i) == \E w \in DiskWriters : content[i] = [p \in 1..len[w] |-> w]

(* write_atomically takes the lock file before it starts.                  *)
LockFile(w) ==
    /\ cache = "discovery" /\ At(w, "idle")
    /\ outer = 0
    /\ outer' = w
    /\ Goto(w, "open")
    /\ UNCHANGED <<cache, len, names, content, flock, judged, faults>>

(* OpenOptions create, write, truncate: an inode that has the name is      *)
(* emptied, whoever is writing to it.                                      *)
OpenTemp(w) ==
    /\ IF cache = "discovery" THEN At(w, "open") ELSE At(w, "idle")
    /\ LET old == names[TempName(w)]
           i == IF old = NoFile THEN w ELSE old
       IN  /\ names' = [names EXCEPT ![TempName(w)] = i]
           /\ content' = [content EXCEPT ![i] = <<>>]
           /\ writer' = [writer EXCEPT ![w] = [pc |-> "lock", inode |-> i, pos |-> 0]]
    /\ UNCHANGED <<cache, len, flock, outer, judged, faults>>

(* Fault: the file is not locked.                                          *)
MayLock_always(i) == TRUE

MayLock(i) == flock[i] = 0

(* write_atomically does not lock the temporary file itself; its own name  *)
(* makes no difference of it.                                              *)
lock_exclusive(w) ==
    /\ At(w, "lock")
    /\ MayLock(writer[w].inode)
    /\ flock' = [flock EXCEPT ![writer[w].inode] = w]
    /\ Goto(w, "write")
    /\ UNCHANGED <<cache, len, names, content, outer, judged, faults>>

(* The next byte goes to the writer's own position, which may be past the  *)
(* end of a file that was truncated meanwhile.                             *)
WriteAt(s, pos, w) ==
    [p \in 1..(IF pos > Len(s) THEN pos ELSE Len(s)) |->
        IF p = pos THEN w ELSE IF p <= Len(s) THEN s[p] ELSE 0]

write_all(w) ==
    /\ At(w, "write")
    /\ writer[w].pos < len[w]
    /\ content' = [content EXCEPT ![writer[w].inode] = WriteAt(@, writer[w].pos + 1, w)]
    /\ writer' = [writer EXCEPT ![w].pos = @ + 1]
    /\ UNCHANGED <<cache, len, names, flock, outer, judged, faults>>

CloseTemp(w) ==
    /\ At(w, "write")
    /\ writer[w].pos = len[w]
    /\ flock' = [i \in Inodes |-> IF flock[i] = w THEN 0 ELSE flock[i]]
    /\ Goto(w, "rename")
    /\ UNCHANGED <<cache, len, names, content, outer, judged, faults>>

(* Whatever has the temporary name now becomes the entry; when nothing has *)
(* it the store fails, which its callers ignore.                           *)
Rename(w) ==
    /\ At(w, "rename")
    /\ names' = IF names[TempName(w)] = NoFile THEN names
                ELSE [names EXCEPT ![Entry] = names[TempName(w)], ![TempName(w)] = NoFile]
    /\ outer' = IF outer = w THEN 0 ELSE outer
    /\ Goto(w, "done")
    /\ UNCHANGED <<cache, len, content, flock, judged, faults>>

StoreStep(w) == OpenTemp(w) \/ lock_exclusive(w) \/ write_all(w) \/ CloseTemp(w) \/ Rename(w)

store_prepared_plan(w) == cache = "plans" /\ StoreStep(w)
store_store_exe(w) == cache = "store_exe" /\ StoreStep(w)
store_dev_environment_snapshot(w) == cache = "dev_env" /\ StoreStep(w)
write_atomically(w) == cache = "discovery" /\ (LockFile(w) \/ StoreStep(w))

(* A storing process dies; the kernel drops its locks.                     *)
StoreCrash(w) ==
    /\ writer[w].pc \notin {"idle", "done"}
    /\ flock' = [i \in Inodes |-> IF flock[i] = w THEN 0 ELSE flock[i]]
    /\ outer' = IF outer = w THEN 0 ELSE outer
    /\ Goto(w, "done")
    /\ faults' = TRUE
    /\ UNCHANGED <<cache, len, names, content, judged>>

(* prune_timed_json_cache: every "tmp" goes at once; an entry that does    *)
(* not parse, or is too old, is removed after it was read.                 *)
prune_tmp ==
    /\ names[SharedTemp] # NoFile
    /\ names' = [names EXCEPT ![SharedTemp] = NoFile]
    /\ faults' = TRUE
    /\ UNCHANGED <<cache, len, content, flock, outer, writer, judged>>

prune_read ==
    /\ names[Entry] # NoFile /\ judged = NoFile
    /\ judged' = names[Entry]
    /\ UNCHANGED <<cache, len, names, content, flock, outer, writer, faults>>

prune_remove ==
    /\ judged # NoFile
    /\ names' = [names EXCEPT ![Entry] = NoFile]
    /\ judged' = NoFile
    /\ faults' = TRUE
    /\ UNCHANGED <<cache, len, content, flock, outer, writer>>

(* invalidate_plan_cache and its like: the entry and its ".tmp" are gone.  *)
remove_timed_json_entry ==
    /\ names[Entry] # NoFile \/ names[SharedTemp] # NoFile
    /\ names' = [names EXCEPT ![Entry] = NoFile, ![SharedTemp] = NoFile]
    /\ faults' = TRUE
    /\ UNCHANGED <<cache, len, content, flock, outer, writer, judged>>

DiskNext ==
    \/ \E w \in DiskWriters :
          \/ store_prepared_plan(w) \/ store_store_exe(w)
          \/ store_dev_environment_snapshot(w) \/ write_atomically(w)
          \/ StoreCrash(w)
    \/ prune_tmp \/ prune_read \/ prune_remove \/ remove_timed_json_entry

DiskSpec == DiskInit /\ [][DiskNext]_disk_vars

-----------------------------------------------------------------------------

(* With one temporary name for all a reader may meet an empty or a torn    *)
(* entry while stores run (and treats it as a miss).  When the stores are  *)
(* over, none of them died and nothing was removed, the entry is there and *)
(* it parses, provided the payloads are of one length (they differ in      *)
(* their timestamps only).                                                 *)
QuietEntryWhole ==
    /\ \A w \in DiskWriters : At(w, "done")
    /\ \A v, w \in DiskWriters : len[v] = len[w]
    /\ ~ faults
    => names[Entry] # NoFile /\ Whole(names[Entry])

=============================================================================
