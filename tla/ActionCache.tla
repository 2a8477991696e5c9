---------------------------- MODULE ActionCache ----------------------------
(***************************************************************************)
(* The action keys of a task run: when the run loop of                     *)
(* crates/nxr-cli/src/commands/task.rs prepares a node, the key it builds  *)
(* from the digests of the node's inputs (nxr-task/src/action_key.rs), and *)
(* where a digest comes from (nxr-core/src/digest_cache.rs,                *)
(* incremental_digest.rs and merkle_index.rs): the memo of the run, the    *)
(* blob of a clean file in the Git index, the durable index of an earlier  *)
(* run, or the bytes.  Meanwhile the nodes of the run write files and the  *)
(* user edits and commits.                                                 *)
(*                                                                         *)
(* The nodes are a chain 1, 2, ... in which each depends on the one before *)
(* it; a node writes to AcOutput[n] what it read in AcSource[n].  The      *)
(* store is the whole of WorkspaceCas: a key and what was saved under it.  *)
(***************************************************************************)
EXTENDS Naturals, Sequences, FiniteSets

CONSTANTS
    AcFiles,      \* files of the checkout
    AcTracked,    \* those that Git tracks
    AcContents,   \* what a file may hold
    AcNodes,      \* 1..k
    AcItems,      \* item of inputs.paths -> the files it stands for
    AcInputs,     \* node -> its items
    AcSource,     \* node -> the file whose content decides the output
    AcOutput,     \* node -> the file it writes
    AcBound,      \* nodes that bind the node before them in inputs.bindings
    AcUncachedSets, \* choices of the nodes without a cache plan: secrets, no outputs
    NoValue,      \* "none", for every Option
    MaxAcRuns,
    MaxAcEdits    \* of the user

ASSUME AcAssumption ==
    /\ AcTracked \subseteq AcFiles /\ AcContents # {}
    /\ IsFiniteSet(AcNodes) /\ AcNodes # {} /\ AcNodes = 1..Cardinality(AcNodes)
    /\ \A i \in DOMAIN AcItems : AcItems[i] \subseteq AcFiles
    /\ \A n \in AcNodes : /\ AcInputs[n] \subseteq DOMAIN AcItems
                           /\ AcSource[n] \in UNION {AcItems[i] : i \in AcInputs[n]}
                           /\ AcOutput[n] \in AcFiles
    /\ AcBound \subseteq AcNodes \ {1}

VARIABLES
    ac_uncached,  \* never changes: the nodes without a cache plan
    ac_tree,      \* file -> its content and a stat that every write changes
    ac_head,      \* tracked file -> content of its blob
    ac_disk,      \* file -> entry of the durable index, or NoValue
    ac_cas,       \* <<node, key>> -> the saved output
    ac_pc, ac_todo, ac_at,      \* the run: what it does, nodes to prepare, its node
    ac_keep_going,
    ac_listed, ac_dirty,        \* git ls-files and git status, once read
    ac_session,   \* the run's copy of the durable index
    ac_memo,      \* item -> digests of its files (path_digests, computed)
    ac_item,      \* the item being digested and the digests so far
    ac_stat,      \* file and stat of the file being hashed
    ac_keys,      \* node -> its key
    ac_runs, ac_edits,
    ac_touched,   \* ghost: files written or committed since the run began
    ac_quiet      \* ghost: the user never wrote during a run

ac_store == <<ac_uncached, ac_tree, ac_head, ac_disk, ac_cas>>
ac_local == <<ac_listed, ac_dirty, ac_session, ac_memo, ac_item, ac_stat, ac_keys>>
ac_ghost == <<ac_touched, ac_quiet>>
ac_vars == <<ac_store, ac_pc, ac_todo, ac_at, ac_keep_going, ac_local, ac_runs,
             ac_edits, ac_ghost>>

AcNobody == [f \in AcFiles |-> NoValue]
AcUnkeyed == [n \in AcNodes |-> NoValue]
AcNoMemo == [i \in DOMAIN AcItems |-> NoValue]
AcFirst == CHOOSE c \in AcContents : TRUE

(* A map with one more entry, or a new value for it.                       *)
With(map, x, v) == [y \in DOMAIN map \cup {x} |-> IF y = x THEN v ELSE map[y]]

AcInit ==
    /\ ac_uncached \in AcUncachedSets
    /\ ac_tree = [f \in AcFiles |-> [data |-> AcFirst, stat |-> 0]]
    /\ ac_head = [f \in AcTracked |-> AcFirst]
    /\ ac_disk = AcNobody
    /\ ac_cas = <<>>
    /\ ac_pc = "idle" /\ ac_todo = <<>> /\ ac_at = 1 /\ ac_keep_going = FALSE
    /\ ac_listed = NoValue /\ ac_dirty = NoValue /\ ac_session = NoValue
    /\ ac_memo = AcNoMemo /\ ac_item = NoValue /\ ac_stat = NoValue
    /\ ac_keys = AcUnkeyed
    /\ ac_runs = 0 /\ ac_edits = 0
    /\ ac_touched = {} /\ ac_quiet = TRUE

-----------------------------------------------------------------------------
(* A file is written: its size, times or inode change with it.             *)
Rewritten(f, c) == [ac_tree EXCEPT ![f] = [data |-> c, stat |-> @.stat + 1]]

(* The nodes to prepare when node n is about to start: n itself and, under *)
(* keep-going, its successor, unless they are prepared already.            *)
ToPrepare(n, kg) ==
    LET Missing(x) == IF ac_keys[x] = NoValue THEN <<x>> ELSE <<>>
    IN  Missing(n) \o (IF kg /\ n + 1 \in AcNodes THEN Missing(n + 1) ELSE <<>>)

(* A run of `nxr task` with a new RunDigestCache and preparer.             *)
ac_start(kg) ==
    /\ ac_pc = "idle" /\ ac_runs < MaxAcRuns
    /\ ac_runs' = ac_runs + 1
    /\ ac_pc' = "prepare" /\ ac_at' = 1 /\ ac_keep_going' = kg
    /\ ac_todo' = IF kg /\ 2 \in AcNodes THEN <<1, 2>> ELSE <<1>>
    /\ ac_listed' = NoValue /\ ac_dirty' = NoValue /\ ac_session' = NoValue
    /\ ac_memo' = AcNoMemo /\ ac_item' = NoValue /\ ac_stat' = NoValue
    /\ ac_keys' = AcUnkeyed
    /\ ac_touched' = {}
    /\ UNCHANGED <<ac_store, ac_edits, ac_quiet>>

-----------------------------------------------------------------------------
(* Digests.  Equal contents have equal digests of a kind; the two kinds    *)
(* never agree.                                                            *)
digest_file(c) == [kind |-> "bytes", of |-> c]

digest_from_git_blob(c) == [kind |-> "blob", of |-> c]

(* The run's copy of the index, loaded at its first use.                   *)
ensure_index_session == IF ac_session = NoValue THEN ac_disk ELSE ac_session

upsert_entry(f, e) == ac_session' = [ensure_index_session EXCEPT ![f] = e]

(* The items of the node that is prepared next whose digest is not known.  *)
Undigested == {i \in AcInputs[Head(ac_todo)] : ac_memo[i] = NoValue}

Preparing == ac_pc = "prepare" /\ ac_todo # <<>> /\ ac_stat = NoValue

(* digest_repo_path: an item that is not in the memo is digested.          *)
digest_repo_path(i) ==
    /\ Preparing /\ ac_item = NoValue
    /\ Head(ac_todo) \notin ac_uncached
    /\ i \in Undigested
    /\ ac_item' = [item |-> i, got |-> <<>>]
    /\ UNCHANGED <<ac_store, ac_pc, ac_todo, ac_at, ac_keep_going, ac_listed, ac_dirty,
                   ac_session, ac_memo, ac_stat, ac_keys, ac_runs, ac_edits, ac_ghost>>

Left == AcItems[ac_item.item] \ DOMAIN ac_item.got

(* The two commands of load_git_snapshot, before the first file.           *)
load_git_snapshot_list ==
    /\ Preparing /\ ac_item # NoValue /\ ac_listed = NoValue
    /\ ac_listed' = ac_head
    /\ UNCHANGED <<ac_store, ac_pc, ac_todo, ac_at, ac_keep_going, ac_dirty, ac_session,
                   ac_memo, ac_item, ac_stat, ac_keys, ac_runs, ac_edits, ac_ghost>>

load_git_snapshot_status ==
    /\ Preparing /\ ac_item # NoValue /\ ac_listed # NoValue /\ ac_dirty = NoValue
    /\ ac_dirty' = {f \in AcFiles : f \in AcTracked => ac_head[f] # ac_tree[f].data}
    /\ UNCHANGED <<ac_store, ac_pc, ac_todo, ac_at, ac_keep_going, ac_listed, ac_session,
                   ac_memo, ac_item, ac_stat, ac_keys, ac_runs, ac_edits, ac_ghost>>

Got(f, d) == ac_item' = [ac_item EXCEPT !.got = With(@, f, d)]

Leaf(f) == Preparing /\ ac_item # NoValue /\ ac_dirty # NoValue /\ f \in Left

(* A file that was clean has the digest of its blob.  The entry is stored  *)
(* beside the stat of the file as it is now.                               *)
digest_file_incremental_blob(f) ==
    /\ Leaf(f) /\ f \notin ac_dirty
    /\ Got(f, digest_from_git_blob(ac_listed[f]))
    /\ upsert_entry(f, [stat |-> ac_tree[f].stat, hash |-> digest_from_git_blob(ac_listed[f])])
    /\ UNCHANGED <<ac_store, ac_pc, ac_todo, ac_at, ac_keep_going, ac_listed, ac_dirty,
                   ac_memo, ac_stat, ac_keys, ac_runs, ac_edits, ac_ghost>>

(* The entry that the index has is about the bytes, and the file still has *)
(* its stat.                                                               *)
Reusable(e, stat) == e # NoValue /\ e.hash.kind = "bytes" /\ e.stat = stat

digest_file_incremental_reuse(f) ==
    /\ Leaf(f) /\ f \in ac_dirty
    /\ Reusable(ensure_index_session[f], ac_tree[f].stat)
    /\ Got(f, ensure_index_session[f].hash)
    /\ ac_session' = ensure_index_session
    /\ UNCHANGED <<ac_store, ac_pc, ac_todo, ac_at, ac_keep_going, ac_listed, ac_dirty,
                   ac_memo, ac_stat, ac_keys, ac_runs, ac_edits, ac_ghost>>

(* Else the stat, which was read first, and then the bytes.                *)
digest_file_incremental_stat(f) ==
    /\ Leaf(f) /\ f \in ac_dirty
    /\ ~ Reusable(ensure_index_session[f], ac_tree[f].stat)
    /\ ac_stat' = [file |-> f, stat |-> ac_tree[f].stat]
    /\ ac_session' = ensure_index_session
    /\ UNCHANGED <<ac_store, ac_pc, ac_todo, ac_at, ac_keep_going, ac_listed, ac_dirty,
                   ac_memo, ac_item, ac_keys, ac_runs, ac_edits, ac_ghost>>

digest_file_incremental_bytes ==
    /\ ac_pc = "prepare" /\ ac_stat # NoValue
    /\ LET f == ac_stat.file
           d == digest_file(ac_tree[f].data) IN
       /\ Got(f, d)
       /\ upsert_entry(f, [stat |-> ac_stat.stat, hash |-> d])
    /\ ac_stat' = NoValue
    /\ UNCHANGED <<ac_store, ac_pc, ac_todo, ac_at, ac_keep_going, ac_listed, ac_dirty,
                   ac_memo, ac_keys, ac_runs, ac_edits, ac_ghost>>

(* compute_dir has all its children, or the file its digest: into the memo.*)
compute_dir ==
    /\ Preparing /\ ac_item # NoValue /\ Left = {}
    /\ ac_memo' = [ac_memo EXCEPT ![ac_item.item] = ac_item.got]
    /\ ac_item' = NoValue
    /\ UNCHANGED <<ac_store, ac_pc, ac_todo, ac_at, ac_keep_going, ac_listed, ac_dirty,
                   ac_session, ac_stat, ac_keys, ac_runs, ac_edits, ac_ghost>>

-----------------------------------------------------------------------------
Disabled == [disabled |-> TRUE]

(* Fault: the key of the node before is left out.                          *)
KeyOf_unbound(n) ==
    IF n \in ac_uncached THEN Disabled
    ELSE [disabled |-> FALSE, paths |-> [i \in AcInputs[n] |-> ac_memo[i]], binding |-> NoValue]

(* build_workspace_cache_plan: no key without the key of a bound node.     *)
KeyOf(n) ==
    IF n \in ac_uncached \/ (n \in AcBound /\ ac_keys[n - 1] = Disabled) THEN Disabled
    ELSE [disabled |-> FALSE,
          paths    |-> [i \in AcInputs[n] |-> ac_memo[i]],
          binding  |-> IF n \in AcBound THEN ac_keys[n - 1] ELSE NoValue]

prepare_cas_inputs ==
    /\ Preparing /\ ac_item = NoValue
    /\ Head(ac_todo) \in ac_uncached \/ Undigested = {}
    /\ ac_keys' = [ac_keys EXCEPT ![Head(ac_todo)] = KeyOf(Head(ac_todo))]
    /\ ac_todo' = Tail(ac_todo)
    /\ UNCHANGED <<ac_store, ac_pc, ac_at, ac_keep_going, ac_listed, ac_dirty, ac_session,
                   ac_memo, ac_item, ac_stat, ac_runs, ac_edits, ac_ghost>>

(* The node's outcome is known: the next one is prepared, or the run ends. *)
Complete(ok) ==
    IF ok /\ ac_at + 1 \in AcNodes
    THEN /\ ac_pc' = "prepare" /\ ac_at' = ac_at + 1
         /\ ac_todo' = ToPrepare(ac_at + 1, ac_keep_going)
    ELSE ac_pc' = "flush" /\ UNCHANGED <<ac_at, ac_todo>>

Hit(n) == ~ ac_keys[n].disabled /\ <<n, ac_keys[n]>> \in DOMAIN ac_cas

(* try_workspace_cache_restore: a hit writes the outputs and completes the *)
(* node; else it is spawned.                                               *)
ac_lookup ==
    /\ ac_pc = "prepare" /\ ac_todo = <<>>
    /\ IF Hit(ac_at)
       THEN /\ ac_tree' = Rewritten(AcOutput[ac_at], ac_cas[<<ac_at, ac_keys[ac_at]>>])
            /\ ac_touched' = ac_touched \cup {AcOutput[ac_at]}
            /\ Complete(TRUE)
       ELSE ac_pc' = "running" /\ UNCHANGED <<ac_tree, ac_touched, ac_at, ac_todo>>
    /\ UNCHANGED <<ac_uncached, ac_head, ac_disk, ac_cas, ac_keep_going, ac_local, ac_runs, ac_edits,
                   ac_quiet>>

(* The child reads its inputs, writes its output and exits; or it fails.   *)
ac_child(ok) ==
    /\ ac_pc = "running"
    /\ IF ok
       THEN /\ ac_tree' = Rewritten(AcOutput[ac_at], ac_tree[AcSource[ac_at]].data)
            /\ ac_touched' = ac_touched \cup {AcOutput[ac_at]}
            /\ ac_pc' = "save" /\ UNCHANGED <<ac_at, ac_todo>>
       ELSE Complete(FALSE) /\ UNCHANGED <<ac_tree, ac_touched>>
    /\ UNCHANGED <<ac_uncached, ac_head, ac_disk, ac_cas, ac_keep_going, ac_local, ac_runs, ac_edits,
                   ac_quiet>>

save_workspace_cache ==
    /\ ac_pc = "save"
    /\ ac_cas' = IF ac_keys[ac_at].disabled THEN ac_cas
                 ELSE With(ac_cas, <<ac_at, ac_keys[ac_at]>>, ac_tree[AcOutput[ac_at]].data)
    /\ Complete(TRUE)
    /\ UNCHANGED <<ac_uncached, ac_tree, ac_head, ac_disk, ac_keep_going, ac_local, ac_runs, ac_edits,
                   ac_ghost>>

(* The index is written when the digest cache is dropped, unless the run   *)
(* was killed.                                                             *)
ac_flush(killed) ==
    /\ ac_pc = "flush" \/ (killed /\ ac_pc # "idle")
    /\ ac_disk' = IF killed \/ ac_session = NoValue THEN ac_disk ELSE ac_session
    /\ ac_pc' = "idle"
    /\ UNCHANGED <<ac_uncached, ac_tree, ac_head, ac_cas, ac_todo, ac_at, ac_keep_going, ac_local,
                   ac_runs, ac_edits, ac_ghost>>

-----------------------------------------------------------------------------
(* The user.                                                               *)
ac_edit(f, c) ==
    /\ ac_edits < MaxAcEdits
    /\ c # ac_tree[f].data
    /\ ac_edits' = ac_edits + 1
    /\ ac_tree' = Rewritten(f, c)
    /\ ac_touched' = ac_touched \cup {f}
    /\ ac_quiet' = (ac_quiet /\ ac_pc = "idle")
    /\ UNCHANGED <<ac_uncached, ac_head, ac_disk, ac_cas, ac_pc, ac_todo, ac_at, ac_keep_going,
                   ac_local, ac_runs>>

ac_commit ==
    /\ ac_edits < MaxAcEdits
    /\ \E f \in AcTracked : ac_head[f] # ac_tree[f].data
    /\ ac_edits' = ac_edits + 1
    /\ ac_head' = [f \in AcTracked |-> ac_tree[f].data]
    /\ ac_touched' = ac_touched \cup {f \in AcTracked : ac_head[f] # ac_tree[f].data}
    /\ ac_quiet' = (ac_quiet /\ ac_pc = "idle")
    /\ UNCHANGED <<ac_uncached, ac_tree, ac_disk, ac_cas, ac_pc, ac_todo, ac_at, ac_keep_going,
                   ac_local, ac_runs>>

AcNext ==
    \/ \E kg \in BOOLEAN : ac_start(kg)
    \/ \E i \in DOMAIN AcItems : digest_repo_path(i)
    \/ load_git_snapshot_list \/ load_git_snapshot_status
    \/ \E f \in AcFiles : \/ digest_file_incremental_blob(f)
                          \/ digest_file_incremental_reuse(f)
                          \/ digest_file_incremental_stat(f)
    \/ digest_file_incremental_bytes \/ compute_dir \/ prepare_cas_inputs
    \/ ac_lookup \/ save_workspace_cache
    \/ \E ok \in BOOLEAN : ac_child(ok)
    \/ \E killed \in BOOLEAN : ac_flush(killed)
    \/ \E f \in AcFiles, c \in AcContents : ac_edit(f, c)
    \/ ac_commit

AcSpec == AcInit /\ [][AcNext]_ac_vars

-----------------------------------------------------------------------------
(* A key is about the files as they are: of a file that was neither        *)
(* written nor committed since the run began, the key of a prepared node   *)
(* has the digest of its present content, whatever earlier runs, killed or *)
(* overtaken by edits, left in the durable index.                          *)
KeyCurrent ==
    ac_pc # "idle" =>
        \A n \in AcNodes : ac_keys[n] # NoValue /\ ~ ac_keys[n].disabled =>
            \A i \in AcInputs[n] : \A f \in AcItems[i] \ ac_touched :
                ac_keys[n].paths[i][f].of = ac_tree[f].data

(* An entry of the index, on disk or in the run, that is about the bytes   *)
(* and has the stat of the file has the hash of what the file holds, also  *)
(* when the file was written between the stat and the read.                *)
IndexHonest ==
    \A index \in {ac_disk, ensure_index_session} : \A f \in AcFiles :
        index[f] # NoValue /\ index[f].hash.kind = "bytes" /\ index[f].stat = ac_tree[f].stat
            => index[f].hash.of = ac_tree[f].data

RestoresRun(n) == ac_cas[<<n, ac_keys[n]>>] = ac_tree[AcSource[n]].data

LookingUp(n) == ac_pc = "prepare" /\ ac_todo = <<>> /\ ac_at = n /\ Hit(n)

(* A node that binds, itself or through the nodes between, every earlier   *)
(* node whose output it reads.                                             *)
BindsProducers(n) ==
    \A m \in AcNodes :
        m < n /\ AcOutput[m] \in UNION {AcItems[i] : i \in AcInputs[n]} =>
            (m + 1)..n \subseteq AcBound

(* As long as the user leaves the files alone during runs, a hit restores  *)
(* what the node would have written, for every node that binds the nodes   *)
(* whose output it reads, also if they were prepared before those ran; a   *)
(* key is about the files as they are, and the index is honest.            *)
BoundHitIsPure ==
    /\ IndexHonest /\ KeyCurrent
    /\ ac_quiet => \A n \in AcNodes :
        LookingUp(n) /\ BindsProducers(n) => RestoresRun(n)

(* ADR-0154: the digests are "a pure optimization".  A hit restores what   *)
(* the node would have written, also if it reads the output of a node it   *)
(* depends on.                                                             *)
HitIsPure == ac_quiet => \A n \in AcNodes : LookingUp(n) => RestoresRun(n)

=============================================================================
