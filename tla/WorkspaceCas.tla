---------------------------- MODULE WorkspaceCas ----------------------------
(***************************************************************************)
(* One entry of the local content store: crates/nxr-core/src/cas.rs, used  *)
(* by a task run before it starts a node (try_workspace_cache_restore) and *)
(* after the node succeeded (save_workspace_cache).  Runs in different     *)
(* checkouts share the store and save under the same action key; `nxr      *)
(* cache clear` removes entries.                                           *)
(*                                                                         *)
(* An entry directory is named by the run that staged it.  What is at an   *)
(* output's path in a workspace is a set of layers, each named by the      *)
(* entry it was copied from: a directory that is merged keeps what it had. *)
(***************************************************************************)
EXTENDS Naturals, FiniteSets

CONSTANTS
    CasRuns,
    CasOutputs,
    OptionalOutputs,   \* those that a run may do without
    CasTrees,          \* those that are directories
    CasModes,          \* the restore modes that tasks use
    NoEntry,           \* nothing under the action key
    Stale,             \* what the workspace holds before
    MaxCasFaults       \* damaged outputs, and clears

ASSUME CasAssumption ==
    /\ OptionalOutputs \subseteq CasOutputs /\ CasTrees \subseteq CasOutputs
    /\ CasModes \subseteq {"Replace", "Merge", "VerifyOnly", "Report"}
    /\ MaxCasFaults \in Nat

VARIABLES
    entry,      \* the directory under the action key, or NoEntry
    data,       \* directory -> outputs it holds undamaged
    manifest,   \* directory -> outputs its manifest has a digest of
    damaged,    \* directory -> outputs whose content is not what was saved
    cas_lock,
    run,        \* what each run is doing
    workspace,  \* run -> output -> layers
    cas_mode,   \* output -> restore mode; part of the action key
    cas_faults

cas_vars == <<entry, data, manifest, damaged, cas_lock, run, workspace, cas_mode, cas_faults>>

CasIdle == [pc |-> "idle"]

CasInit ==
    /\ entry = NoEntry
    /\ data = [r \in CasRuns |-> {}]
    /\ manifest = [r \in CasRuns |-> {}]
    /\ damaged = [r \in CasRuns |-> {}]
    /\ cas_lock = NoEntry
    /\ run = [r \in CasRuns |-> CasIdle]
    /\ workspace = [r \in CasRuns |-> [o \in CasOutputs |-> {Stale}]]
    /\ cas_mode \in [CasOutputs -> CasModes]
    /\ cas_faults = 0

CasGoto(r, pc) == run' = [run EXCEPT ![r].pc = pc]

(* Ghost: the entry changes under the runs that are restoring from it.     *)
Disturb(f) == [r \in CasRuns |->
    IF f[r].pc \in {"manifest", "restore"} THEN [f[r] EXCEPT !.disturbed = TRUE] ELSE f[r]]

-----------------------------------------------------------------------------
(* Fault: it is enough that the outputs exist.                             *)
lookup_outputs_exist(e, outputs) ==
    /\ e # NoEntry
    /\ \A o \in outputs : IF o \in manifest[e] THEN o \in data[e] ELSE o \in OptionalOutputs

(* Every output that is not optional was there when the entry was saved;   *)
(* what was there is there and is what the manifest says.                  *)
lookup_outputs(e, outputs) ==
    /\ e # NoEntry
    /\ \A o \in outputs :
          IF o \in manifest[e] THEN o \in data[e] /\ o \notin damaged[e]
          ELSE o \in OptionalOutputs

ToWrite == {o \in CasOutputs : cas_mode[o] \notin {"VerifyOnly", "Report"}}

(* A file is overwritten whole, a tree only if it is replaced.             *)
Overlays(o) == cas_mode[o] = "Merge" /\ o \in CasTrees

(* try_workspace_cache_restore: the copies follow a hit, if any are due.   *)
restore_outputs(r) ==
    /\ run[r].pc = "idle"
    /\ run' = [run EXCEPT ![r] =
          IF lookup_outputs(entry, CasOutputs)
          THEN [pc |-> IF ToWrite = {} THEN "hit" ELSE "manifest", todo |-> ToWrite,
                listed |-> {}, disturbed |-> FALSE, seen |-> entry]
          ELSE [pc |-> "execute"]]
    /\ UNCHANGED <<entry, data, manifest, damaged, cas_lock, workspace, cas_faults>>

(* The manifest is read a second time, and may have disappeared.           *)
read_manifest(r) ==
    /\ run[r].pc = "manifest"
    /\ run' = [run EXCEPT ![r] =
          IF entry = NoEntry THEN [pc |-> "restore_failed"]
          ELSE [@ EXCEPT !.pc = "restore", !.listed = manifest[entry]]]
    /\ UNCHANGED <<entry, data, manifest, damaged, cas_lock, workspace, cas_faults>>

(* The next output is copied from whatever entry is there now; one that is *)
(* not listed as saved, or is not there any more, is passed over.          *)
restore_output(r, o) ==
    /\ run[r].pc = "restore"
    /\ o \in run[r].todo
    /\ run' = [run EXCEPT ![r].todo = @ \ {o}]
    /\ workspace' = IF o \in run[r].listed /\ entry # NoEntry /\ o \in data[entry]
                    THEN [workspace EXCEPT ![r][o] = (IF Overlays(o) THEN @ ELSE {})
                             \cup {<<entry, o \in damaged[entry]>>}]
                    ELSE workspace
    /\ UNCHANGED <<entry, data, manifest, damaged, cas_lock, cas_faults>>

restore_hit(r) ==
    /\ run[r].pc = "restore" /\ run[r].todo = {}
    /\ CasGoto(r, "hit")
    /\ UNCHANGED <<entry, data, manifest, damaged, cas_lock, workspace, cas_faults>>

(* The node ran and succeeded; `made` is what is at the outputs' paths     *)
(* then, and may lack some whether they are optional or not.               *)
CasExecute(r, made) ==
    /\ run[r].pc = "execute"
    /\ run' = [run EXCEPT ![r] = [pc |-> "stage", made |-> made]]
    /\ workspace' = [workspace EXCEPT ![r] = [o \in CasOutputs |->
                        IF o \in made THEN {<<r, FALSE>>} ELSE {}]]
    /\ UNCHANGED <<entry, data, manifest, damaged, cas_lock, cas_faults>>

(* save_outputs stages a directory of its own.  A required output that is  *)
(* not there gets the digest for a missing path in the manifest, which no  *)
(* lookup accepts ...                                                      *)
save_outputs(r) ==
    /\ run[r].pc = "stage"
    /\ data' = [data EXCEPT ![r] = run[r].made]
    /\ manifest' = [manifest EXCEPT ![r] = run[r].made]
    /\ CasGoto(r, "lock")
    /\ UNCHANGED <<entry, damaged, cas_lock, workspace, cas_faults>>

MayPublish == cas_lock = NoEntry

(* ... and publish_entry swaps it in under the key's lock: the old entry   *)
(* is moved away, the staged one renamed, the old one removed.             *)
publish_entry_lock(r) ==
    /\ run[r].pc = "lock"
    /\ MayPublish
    /\ cas_lock' = r
    /\ CasGoto(r, "trash")
    /\ UNCHANGED <<entry, data, manifest, damaged, workspace, cas_faults>>

publish_entry_trash(r) ==
    /\ run[r].pc = "trash"
    /\ run' = [Disturb(run) EXCEPT ![r].pc = "rename"]
    /\ entry' = NoEntry
    /\ UNCHANGED <<data, manifest, damaged, cas_lock, workspace, cas_faults>>

(* A directory that is not empty is not replaced by rename.                *)
publish_entry_rename(r) ==
    /\ run[r].pc = "rename"
    /\ IF entry = NoEntry
       THEN entry' = r /\ run' = [Disturb(run) EXCEPT ![r].pc = "saved"]
       ELSE UNCHANGED entry /\ CasGoto(r, "save_failed")
    /\ cas_lock' = IF cas_lock = r THEN NoEntry ELSE cas_lock
    /\ UNCHANGED <<data, manifest, damaged, workspace, cas_faults>>

(* A run dies; its lock goes with it, what it staged stays.                *)
CasCrash(r) ==
    /\ run[r].pc \in {"manifest", "restore", "execute", "stage", "lock", "trash", "rename"}
    /\ run' = [run EXCEPT ![r] = [pc |-> "crashed"]]
    /\ cas_lock' = IF cas_lock = r THEN NoEntry ELSE cas_lock
    /\ UNCHANGED <<entry, data, manifest, damaged, workspace, cas_faults>>

(* remove_dir_all works file by file, the manifest at any moment.          *)
clear_workspace_cas(gone) ==
    /\ cas_faults < MaxCasFaults
    /\ entry # NoEntry
    /\ cas_faults' = cas_faults + 1
    /\ run' = Disturb(run)
    /\ IF gone = CasOutputs
       THEN entry' = NoEntry /\ UNCHANGED data
       ELSE data' = [data EXCEPT ![entry] = @ \ gone] /\ UNCHANGED entry
    /\ UNCHANGED <<manifest, damaged, cas_lock, workspace>>

(* An output's bytes change on disk before anyone looks at them.           *)
CasDamage(o) ==
    /\ cas_faults < MaxCasFaults
    /\ entry # NoEntry /\ o \in data[entry]
    /\ cas_faults' = cas_faults + 1
    /\ damaged' = [damaged EXCEPT ![entry] = @ \cup {o}]
    /\ run' = Disturb(run)
    /\ UNCHANGED <<entry, data, manifest, cas_lock, workspace>>

CasNext ==
    /\ UNCHANGED cas_mode
    /\ \/ \E r \in CasRuns :
             \/ restore_outputs(r) \/ read_manifest(r) \/ restore_hit(r)
             \/ \E o \in CasOutputs : restore_output(r, o)
             \/ \E made \in SUBSET CasOutputs : CasExecute(r, made)
             \/ save_outputs(r) \/ publish_entry_lock(r) \/ publish_entry_trash(r)
             \/ publish_entry_rename(r) \/ CasCrash(r)
       \/ \E gone \in SUBSET CasOutputs \ {{}} : clear_workspace_cas(gone)
       \/ \E o \in CasOutputs : CasDamage(o)

CasSpec == CasInit /\ [][CasNext]_cas_vars

-----------------------------------------------------------------------------

(* What a restoration from entry e leaves at an output's path.             *)
AfterRestore(e, o) ==
    IF o \notin ToWrite \/ o \notin manifest[e] THEN {Stale}
    ELSE IF Overlays(o) THEN {Stale, <<e, FALSE>>} ELSE {<<e, FALSE>>}

(* A node is skipped because of a hit only if one run had saved all its    *)
(* required outputs, and then the workspace has those that were saved,     *)
(* undamaged and from that run and no other: instead of what was there, or *)
(* for a directory that is merged laid over it.  Outputs to be verified or *)
(* reported only are left as they are, stale or not, and so are optional   *)
(* ones that were not saved.  All this unless the entry was replaced,      *)
(* cleared or damaged while it was copied.                                 *)
UndisturbedHit ==
    \A r \in CasRuns : run[r].pc = "hit" /\ ~ run[r].disturbed =>
        /\ CasOutputs \ OptionalOutputs \subseteq manifest[run[r].seen]
        /\ \A o \in CasOutputs : workspace[r][o] = AfterRestore(run[r].seen, o)

=============================================================================
