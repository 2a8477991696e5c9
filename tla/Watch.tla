-------------------------------- MODULE Watch --------------------------------
(***************************************************************************)
(* nxr watch: crates/nxr-cli/src/commands/watch.rs and crates/nxr-watch.   *)
(* One process runs generations of an app or a task.  Filesystem events    *)
(* reach it through a channel; they restart the generation after a quiet   *)
(* window, are coalesced and classified, and decide how much of the        *)
(* prepared state (workspace snapshot, plan, prepared nodes, digest memo)  *)
(* the next generation keeps.                                              *)
(*                                                                         *)
(* Edits are numbered; a file's version is the number of its last edit,    *)
(* and prepared state is represented by the number of edits it has seen.   *)
(***************************************************************************)
EXTENDS Integers, FiniteSets

CONSTANTS
    WatchFiles, WatchDirs,
    TopDir,             \* the watch root
    DirOf,              \* file -> directory
    FlakeLock,
    MetadataFiles,      \* flake.nix, flake.lock, *.nix, discoveryInputs
    OwnedFiles,         \* the task's declared outputs
    TempFiles,          \* editor temporaries
    FixtureFiles,
    PlanNodes,
    NodeRoots,          \* node -> files under its declared roots
    GlobNodes,          \* nodes whose roots are open globs ("**/*.rs")
    NodeInput,          \* node -> the file or directory its action key digests
    FORMATTER_BURST_THRESHOLD,
    WatchEdits          \* bound on edits

Significant == WatchFiles \ (OwnedFiles \cup TempFiles \cup FixtureFiles)
Under(x) == IF x \in WatchDirs THEN {f \in WatchFiles : DirOf[f] = x} ELSE {x}

ASSUME WatchAssumption ==
    /\ WatchFiles \cap WatchDirs = {}
    /\ DirOf \in [WatchFiles -> WatchDirs]
    /\ FlakeLock \in MetadataFiles /\ MetadataFiles \subseteq WatchFiles
    /\ NodeRoots \in [PlanNodes -> SUBSET WatchFiles]
    /\ NodeInput \in [PlanNodes -> WatchFiles \cup WatchDirs]
    /\ OwnedFiles \subseteq WatchFiles
    /\ {FORMATTER_BURST_THRESHOLD, WatchEdits} \subseteq Nat

VARIABLES
    w_target,     \* "app" or "task"
    w_pc,         \* top, prepare, running, idle, suppressed, stopped, failed
    w_first,      \* no generation has begun yet
    w_chan,       \* events sent by the watcher
    w_pending,    \* pending_paths
    w_dirty,      \* the debouncer: no, fresh, ready
    w_edits, w_version,
    w_snapshot,   \* the workspace snapshot, or None
    w_plan,       \* app_plan or task_plan, or None
    w_prepared,   \* node -> prepared node of the plan, or None
    w_memo,       \* path_digests of the retained RunDigestCache, or None
    w_owned,      \* the owned outputs are known to the coalescer
    w_wrote,      \* outputs that this generation has written
    w_children,   \* generations whose processes run
    w_burst       \* ghost: a batch was collapsed to a directory

watch_vars == <<w_target, w_pc, w_first, w_chan, w_pending, w_dirty, w_edits,
                w_version, w_snapshot, w_plan, w_prepared, w_memo, w_owned,
                w_wrote, w_children, w_burst>>

None == -1
Inputs == {NodeInput[n] : n \in PlanNodes}

WatchFresh ==
    /\ w_first = TRUE
    /\ w_chan = {} /\ w_pending = {} /\ w_dirty = "no"
    /\ w_edits = 0 /\ w_version = [f \in WatchFiles |-> 0]
    /\ w_snapshot = None /\ w_plan = None
    /\ w_prepared = [n \in PlanNodes |-> None]
    /\ w_memo = [x \in Inputs |-> None]
    /\ w_owned = FALSE /\ w_wrote = {}
    /\ w_children = 0 /\ w_burst = FALSE

WatchInit == w_target \in {"app", "task"} /\ w_pc = "top" /\ WatchFresh

(* The command is not run at all.                                          *)
WatchOff == w_target = "app" /\ w_pc = "stopped" /\ WatchFresh

-----------------------------------------------------------------------------
(* WatchSemanticCoalescer::coalesce_paths.  Temporaries go before their    *)
(* create-and-rename pairs are looked for, so that rule finds nothing.     *)

collapse_lockfile_batch(paths) == IF FlakeLock \in paths THEN {FlakeLock} ELSE paths

(* The batch keeps every event and one save may send several, so any       *)
(* parent directory may reach the threshold, and many siblings always do.  *)
Bursts(paths) ==
    LET parents == {DirOf[f] : f \in paths} \ {TopDir}
        many == {d \in parents : Cardinality(paths \cap Under(d)) >= FORMATTER_BURST_THRESHOLD}
    IN  {many \cup some : some \in SUBSET parents}

collapse_formatter_bursts(paths, bursts) ==
    {IF DirOf[f] \in bursts THEN DirOf[f] ELSE f : f \in paths}

drop_owned_outputs(paths) == IF w_owned THEN paths \ OwnedFiles ELSE paths

is_fixture_only_batch(paths) == paths # {} /\ paths \subseteq FixtureFiles

Relevant(paths) ==
    IF is_fixture_only_batch(paths) THEN {}
    ELSE collapse_lockfile_batch(drop_owned_outputs(paths) \ TempFiles)

(* What coalesce_paths may return.                                         *)
coalesce_paths(paths) ==
    {collapse_formatter_bursts(Relevant(paths), bursts) : bursts \in Bursts(Relevant(paths))}

(* Fault: an ordinary source file among the changes decides.               *)
classify_pending_changes_source(paths) ==
    IF paths = {} THEN "none" ELSE IF paths \subseteq MetadataFiles THEN "metadata" ELSE "source"

(* classify_pending_changes with merge_change_classes: metadata wins.      *)
classify_pending_changes(paths) ==
    IF paths = {} THEN "none" ELSE IF paths \cap MetadataFiles # {} THEN "metadata" ELSE "source"

(* path_matches_roots for a changed file, or for a directory that stands   *)
(* for its files: an open glob does not match the directory itself.        *)
path_matches_roots(x, n) ==
    IF x \in WatchDirs THEN n \notin GlobNodes /\ Under(x) \cap NodeRoots[n] # {}
    ELSE x \in NodeRoots[n]

affected_plan_node_ids(paths) ==
    {n \in PlanNodes : \E x \in paths : path_matches_roots(x, n)}

DroppedNodes(paths) == IF w_plan = None THEN {} ELSE affected_plan_node_ids(paths)

-----------------------------------------------------------------------------
(* The main loop of run.                                                   *)

(* apply_restart_classification with apply_source_changes: the digest memo *)
(* loses exactly the changed paths.                                        *)
apply_restart_classification(kept) ==
    LET class == classify_pending_changes(kept)
    IN  /\ w_snapshot' = IF class = "metadata" THEN None ELSE w_snapshot
        /\ w_plan' = IF class = "metadata" THEN None ELSE w_plan
        /\ w_owned' = (w_owned /\ class # "metadata")
        /\ w_memo' = [x \in Inputs |->
              IF class = "metadata" \/ (class = "source" /\ x \in kept) THEN None ELSE w_memo[x]]
        /\ w_prepared' = [n \in PlanNodes |->
              IF class = "metadata" \/ (class = "source" /\ n \in DroppedNodes(kept))
              THEN None ELSE w_prepared[n]]

watch_top ==
    /\ w_pc = "top"
    /\ \E kept \in coalesce_paths(w_pending) :
          /\ \/ /\ ~ w_first /\ kept = {}
                /\ w_pc' = "suppressed"
                /\ UNCHANGED <<w_snapshot, w_plan, w_owned, w_memo, w_prepared>>
             \/ /\ w_first \/ kept # {}
                /\ w_pc' = "prepare"
                /\ apply_restart_classification(kept)
          /\ w_burst' = (w_burst \/ kept \cap WatchDirs # {})
    /\ w_pending' = {}
    /\ w_first' = FALSE
    /\ UNCHANGED <<w_target, w_chan, w_dirty, w_edits, w_version, w_wrote, w_children>>

(* reprepare_missing_task_nodes: a node that was dropped is prepared again *)
(* with the memo; a plan that is made anew has a memo of its own.          *)
Digest(x) == IF w_memo[x] = None THEN w_edits ELSE w_memo[x]

run_generation ==
    /\ w_pc = "prepare"
    /\ w_pc' = "running"
    /\ w_snapshot' = IF w_snapshot = None THEN w_edits ELSE w_snapshot
    /\ w_plan' = IF w_plan = None THEN w_snapshot' ELSE w_plan
    /\ w_owned' = (w_owned \/ (w_target = "task" /\ w_plan # None))
    /\ LET missing == {n \in PlanNodes : w_prepared[n] = None}
           again == w_plan # None
       IN  /\ w_prepared' = [n \in PlanNodes |->
                 IF n \notin missing THEN w_prepared[n]
                 ELSE IF again THEN Digest(NodeInput[n]) ELSE w_edits]
           /\ w_memo' = [x \in Inputs |->
                 IF again /\ \E n \in missing : NodeInput[n] = x THEN Digest(x) ELSE w_memo[x]]
    /\ w_wrote' = {}
    /\ w_children' = w_children + 1
    /\ UNCHANGED <<w_target, w_first, w_chan, w_pending, w_dirty, w_edits, w_version, w_burst>>

(* The evaluation or the preparation fails: the error ends the command.    *)
prepare_fails ==
    /\ w_pc = "prepare"
    /\ w_pc' = "failed"
    /\ UNCHANGED <<w_target, w_first, w_chan, w_pending, w_dirty, w_edits, w_version,
                   w_snapshot, w_plan, w_prepared, w_memo, w_owned, w_wrote, w_children,
                   w_burst>>

Polling == w_pc \in {"running", "idle", "suppressed"}

(* seed_owned_outputs, when a task generation is over.                     *)
OwnedAfter == w_owned \/ (w_pc = "running" /\ w_target = "task")

WatchKeeps == UNCHANGED <<w_target, w_first, w_edits, w_version, w_snapshot, w_plan,
                          w_prepared, w_memo, w_wrote, w_burst>>

(* Fault: events count only while a generation runs.                       *)
drain_events_running ==
    /\ Polling /\ w_chan # {}
    /\ w_pending' = w_pending \cup w_chan
    /\ w_chan' = {}
    /\ w_dirty' = IF w_pc = "running" THEN "fresh" ELSE w_dirty
    /\ UNCHANGED <<w_pc, w_owned, w_children>> /\ WatchKeeps

drain_events ==
    /\ Polling /\ w_chan # {}
    /\ w_pending' = w_pending \cup w_chan
    /\ w_chan' = {}
    /\ w_dirty' = "fresh"
    /\ UNCHANGED <<w_pc, w_owned, w_children>> /\ WatchKeeps

(* The quiet window passes without a new mark.                             *)
QuietWindow ==
    /\ w_dirty = "fresh"
    /\ w_dirty' = "ready"
    /\ UNCHANGED <<w_pc, w_chan, w_pending, w_owned, w_children>> /\ WatchKeeps

ShutDown == w_children' = 0

(* poll_restart returns Restart; a running generation is shut down.        *)
poll_restart ==
    /\ Polling /\ w_dirty = "ready"
    /\ w_dirty' = "no"
    /\ w_pc' = "top"
    /\ w_owned' = OwnedAfter
    /\ ShutDown
    /\ UNCHANGED <<w_chan, w_pending>> /\ WatchKeeps

GenerationExits ==
    /\ w_pc = "running"
    /\ w_pc' = "idle"
    /\ w_owned' = OwnedAfter
    /\ w_children' = w_children - 1
    /\ UNCHANGED <<w_chan, w_pending, w_dirty>> /\ WatchKeeps

WatchInterrupted ==
    /\ Polling
    /\ w_pc' = "stopped"
    /\ w_owned' = OwnedAfter
    /\ w_children' = 0
    /\ UNCHANGED <<w_chan, w_pending, w_dirty>> /\ WatchKeeps

-----------------------------------------------------------------------------
(* The world.  The watcher's callback has filtered ignored paths.          *)

WatchEdit(f) ==
    /\ w_edits < WatchEdits
    /\ w_pc \notin {"stopped", "failed"}
    /\ w_edits' = w_edits + 1
    /\ w_version' = [w_version EXCEPT ![f] = w_edits + 1]
    /\ w_chan' = w_chan \cup {f}
    /\ UNCHANGED <<w_target, w_pc, w_first, w_pending, w_dirty, w_snapshot, w_plan, w_prepared,
                   w_memo, w_owned, w_wrote, w_children, w_burst>>

(* The generation writes one of its outputs, once.                         *)
GenerationWrites(f) ==
    /\ w_pc = "running" /\ f \notin w_wrote
    /\ w_wrote' = w_wrote \cup {f}
    /\ w_chan' = w_chan \cup {f}
    /\ UNCHANGED <<w_target, w_pc, w_first, w_pending, w_dirty, w_edits, w_version, w_snapshot,
                   w_plan, w_prepared, w_memo, w_owned, w_children, w_burst>>

WatchLoop == watch_top \/ run_generation \/ prepare_fails \/ drain_events \/ poll_restart

WatchNext ==
    \/ WatchLoop \/ QuietWindow \/ GenerationExits \/ WatchInterrupted
    \/ \E f \in WatchFiles \ OwnedFiles : WatchEdit(f)
    \/ \E f \in OwnedFiles : GenerationWrites(f)

(* The loop polls on and on, and time passes.                              *)
WatchFairness == WF_watch_vars(WatchLoop) /\ WF_watch_vars(QuietWindow)

WatchSpec == WatchInit /\ [][WatchNext]_watch_vars /\ WatchFairness

-----------------------------------------------------------------------------

(* An edit of f that is still under way to the loop.                       *)
Unseen(f) == f \in w_chan \cup w_pending

(* Metadata among the temporaries, the fixtures and the owned outputs is   *)
(* ignored on purpose.                                                     *)
PlanSeesMetadata ==
    \A f \in MetadataFiles \cap Significant : Unseen(f) \/ w_version[f] <= w_plan

(* A generation runs the plan of the metadata as last edited, as far as    *)
(* the loop has seen the edits, however edits, restarts and suppressed     *)
(* batches follow each other; except after events were collapsed to their  *)
(* directory, which has no metadata name.                                  *)
PlanCurrent == w_pc = "running" /\ ~ w_burst => PlanSeesMetadata

KeyCurrent(n) ==
    \A f \in Under(NodeInput[n]) : Unseen(f) \/ w_version[f] <= w_prepared[n]

(* A prepared node that is kept for the next generation has the action key *)
(* of its input as last edited: the digest memo, the affected analysis and *)
(* the dropped nodes agree, for an input that is a file under the node's   *)
(* roots and counts, and as long as no burst was collapsed.                *)
FileKeyCurrent ==
    w_pc = "running" /\ w_target = "task" /\ ~ w_burst =>
        \A n \in PlanNodes :
            NodeInput[n] \in NodeRoots[n] \cap Significant => KeyCurrent(n)

(* A generation runs what was edited, not what a warm plan remembers.      *)
GenerationCurrent == PlanCurrent /\ FileKeyCurrent

(* Every edit of a file that counts is followed by a generation that       *)
(* started after the loop saw it, or the command ends: no batch swallows   *)
(* it, whatever temporaries, fixtures or outputs are in the batch.         *)
EditServed ==
    \A f \in Significant :
        Unseen(f) ~> (w_pc = "running" /\ ~ Unseen(f)) \/ w_pc \in {"stopped", "failed"}

=============================================================================
