------------------------------ MODULE MCStores ------------------------------
(***************************************************************************)
(* What commands share on disk and in the daemon's maps: the artifact      *)
(* catalog, the content store of workspace outputs, the answers of the     *)
(* warm paths, one file of an on-disk cache, the durable run record, the   *)
(* socket of the daemon, the files of a remote leaf, the snapshot of a     *)
(* dirty checkout, the eval worker, the worker registry and the records of *)
(* nxr up.  They have no variable in common, so a behaviour of all of them *)
(* is an interleaving of one behaviour of each, and it is enough to run    *)
(* one at a time: `store` says which.                                      *)
(***************************************************************************)
EXTENDS ArtifactCatalog, WorkspaceCas, WarmCaches, DiskCache, DurableRun,
        DaemonLifecycle, RemoteLeaf, MCSourceSnapshot, EvalWorker,
        WorkerRegistry, ProcessStack

VARIABLE store

store_vars == <<store, art_vars, cas_vars, warm_vars, disk_vars, vars, dd_vars, rl_vars,
                sn_vars, eval_vars, worker_vars, stack_vars>>

(* Commands, names and digests are interchangeable: it is enough to look   *)
(* at behaviours in which "p" is the first command and begins with "m" and *)
(* "d".  One fault is allowed in each behaviour: damage or a crash.        *)
ArtFirst ==
    /\ art["q"].pc # "idle" => art["p"].pc # "idle"
    /\ art["p"].pc # "idle" => art["p"].name = "m" /\ art["p"].digest = "d"
    /\ rot + Cardinality({p \in ArtProcs : art[p].pc = "crashed"}) <= MaxRot

(* The snapshot at rest: an empty checkout.                                *)
SnapIdle ==
    /\ sn_head = [p \in SnapPaths |-> Gone] /\ sn_index = sn_head /\ sn_work = sn_head
    /\ sn_edits = 0 /\ sn_quiet = TRUE /\ sn_pc = "idle"
    /\ sn_records = <<>> /\ sn_entries = <<>> /\ sn_expected = <<>> /\ sn_files = <<>>
    /\ sn_stage = sn_head /\ sn_staged = 0 /\ sn_left = {} /\ sn_dest = sn_head

(* A file is merged as it is replaced: the mode matters for directories.   *)
FilesReplaced == \A o \in CasOutputs \ CasTrees : cas_mode[o] # "Merge"

(* Two graphs of dependencies and a cycle.                                 *)
MCStackGraphs == {<<{}, {1}>>, <<{2}, {}>>, <<{2}, {1}>>}
FirstGraph == <<{}, {1}>>

-----------------------------------------------------------------------------
StoreInit ==
    /\ store \in {"artifacts", "outputs", "answers", "files", "run", "socket", "leaves",
                  "snapshot", "eval", "worker", "stack"}
    /\ ArtInit /\ pins = {"e"}
    /\ CasInit /\ FilesReplaced
    /\ (store # "outputs" => cas_mode = [o \in CasOutputs |-> "Replace"])
    /\ WarmInit /\ (store # "answers" => kind = "plan")
    /\ DiskInit /\ (store # "files" => cache = "plans" /\ len = [w \in DiskWriters |-> 1])
    /\ Init
    /\ DaemonInit
    /\ RemoteInit
    /\ IF store = "snapshot" THEN SnapInit ELSE SnapIdle
    /\ EvalInit /\ WorkerInit
    /\ StackInit /\ (store # "stack" => st_deps = FirstGraph)

(* What the others leave alone.                                            *)
OthersUnchanged ==
    /\ IF store = "artifacts" THEN TRUE ELSE UNCHANGED art_vars
    /\ IF store = "outputs" THEN TRUE ELSE UNCHANGED cas_vars
    /\ IF store = "answers" THEN TRUE ELSE UNCHANGED warm_vars
    /\ IF store = "files" THEN TRUE ELSE UNCHANGED disk_vars
    /\ IF store = "run" THEN TRUE ELSE UNCHANGED vars
    /\ IF store = "socket" THEN TRUE ELSE UNCHANGED dd_vars
    /\ IF store = "leaves" THEN TRUE ELSE UNCHANGED rl_vars
    /\ IF store = "snapshot" THEN TRUE ELSE UNCHANGED sn_vars
    /\ IF store = "eval" THEN TRUE ELSE UNCHANGED eval_vars
    /\ IF store = "worker" THEN TRUE ELSE UNCHANGED worker_vars
    /\ IF store = "stack" THEN TRUE ELSE UNCHANGED stack_vars

StoreNext ==
    /\ UNCHANGED store
    /\ \/ store = "artifacts" /\ ArtNext /\ ArtFirst'
       \/ store = "outputs" /\ CasNext
       \/ store = "answers" /\ WarmNext
       \/ store = "files" /\ DiskNext
       \/ store = "run" /\ Next
       \/ store = "socket" /\ DaemonNext
       \/ store = "leaves" /\ RemoteNext
       \/ store = "snapshot" /\ SnapNext
       \/ store = "eval" /\ EvalNext
       \/ store = "worker" /\ WorkerNext
       \/ store = "stack" /\ StackNext
    /\ OthersUnchanged

StoreSpec == StoreInit /\ [][StoreNext]_store_vars

=============================================================================
