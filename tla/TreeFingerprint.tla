--------------------------- MODULE TreeFingerprint ---------------------------
(***************************************************************************)
(* The fingerprints that invalidate the discovery cache                    *)
(* (nxr-completion/src/fingerprint.rs): one of the .nix files that a flake *)
(* is made of, one of the declared discovery inputs.  Each has an index on *)
(* disk with the metadata and the hash of every file, so that an unchanged *)
(* file is not read again.  Commands compute them side by side while the   *)
(* user works.                                                             *)
(*                                                                         *)
(* A file has contents and two times: an edit may restore the modification *)
(* time, the change time always moves.  What a flake.nix refers to is part *)
(* of its contents.  Equal hashes stand for equal contents.  Paths are     *)
(* enumerated in one step.                                                 *)
(***************************************************************************)
EXTENDS Naturals, FiniteSets

CONSTANTS
    TfFiles,     \* paths; FlakeNix and FlakeLock are two of them
    FlakeNix, FlakeLock,
    TfTrees,     \* the checkouts to begin with: path -> contents and times, or NoTfFile
    TfArea,      \* path -> "plain", "ignored" (a built-in name), "worktree" (below wt-*)
    TfGitignored,\* the paths that git ignores while they are untracked
    TfLinks,     \* the paths that are symbolic links, whatever they hold
    TfInputs,    \* the declared discovery inputs
    FlakeTexts,  \* contents of flake.nix
    TfReferences,\* contents of flake.nix -> the paths its literals name
    TfComputed,  \* contents of flake.nix with an import that is computed
    TfTexts,     \* contents of other files
    TfModes,     \* what is computed: "Auto", "Walk", "FullWalk" scans, or "Inputs"
    NoTfFile,      \* a path that holds nothing, and the hash of a missing input
    NoIndex,     \* no index on disk
    TfCommands,  \* commands
    MaxTfRuns,   \* computations begun
    MaxTfEdits   \* steps of the user

ASSUME TfAssumption ==
    /\ FlakeNix \in TfFiles /\ FlakeLock \in TfFiles /\ TfInputs \subseteq TfFiles
    /\ NoTfFile \notin FlakeTexts \cup TfTexts
    /\ \A tree \in TfTrees :
        /\ tree = [p \in TfFiles |-> tree[p]]
        /\ \A p \in TfFiles : tree[p] # NoTfFile =>
              tree[p] \in [text : IF p = FlakeNix THEN FlakeTexts ELSE TfTexts, mtime : {0}, ctime : {0}]
    /\ \A t \in FlakeTexts : TfReferences[t] \subseteq TfFiles
    /\ TfComputed \subseteq FlakeTexts /\ FlakeTexts \cap TfTexts = {}

VARIABLES
    tf_work,     \* what each path holds: contents and times, or NoTfFile
    tf_tracked,  \* the paths in the index of git
    tf_git,      \* whether git answers
    tf_edits, tf_runs,
    tf_index,    \* the index of each kind of fingerprint
    tf           \* the commands

tf_world == <<tf_work, tf_tracked, tf_git, tf_edits>>
tf_vars == <<tf_world, tf_runs, tf_index, tf>>

NoEntries == [p \in {} |-> NoTfFile]
NoTimes == [mtime |-> 0, ctime |-> 0]

TfIdle == [pc |-> "idle", mode |-> "Auto", calm |-> TRUE, loaded |-> NoIndex, prior |-> NoEntries,
           left |-> {}, path |-> FlakeNix, meta |-> NoTimes, entries |-> NoEntries]

-----------------------------------------------------------------------------
(* What the analysis of flake.nix finds; after an expression that it       *)
(* cannot resolve it looks no further.                                     *)
analyze_flake_source ==
    IF tf_work[FlakeNix] = NoTfFile THEN [references |-> {}, fallback |-> FALSE]
    ELSE [references |-> TfReferences[tf_work[FlakeNix].text],
          fallback |-> tf_work[FlakeNix].text \in TfComputed]

(* The paths.  Those below wt-* are left out unless flake.nix names them.  *)
is_independent_worktree(path) == TfArea[path] = "worktree" /\ path \notin analyze_flake_source.references

should_ignore(path, mode) ==
    TfArea[path] = "ignored" \/ (mode # "FullWalk" /\ is_independent_worktree(path))

RegularNix == {p \in TfFiles \ (TfLinks \cup {FlakeLock}) : tf_work[p] # NoTfFile}

walk_nix_files(mode) == {p \in RegularNix : ~should_ignore(p, mode)}

append_stage_nix(mode) == {p \in RegularNix \cap tf_tracked : ~should_ignore(p, mode)}
append_worktree_nix(mode) ==
    {p \in RegularNix \ (tf_tracked \cup TfGitignored) : ~should_ignore(p, mode)}
include_explicit_references(mode) ==
    {p \in RegularNix \cap analyze_flake_source.references : ~should_ignore(p, mode)}

git_visible_paths(mode) ==
    append_stage_nix(mode) \cup append_worktree_nix(mode) \cup include_explicit_references(mode)

(* A source that cannot be resolved, or a git that fails, means a walk.    *)
resolve_nix_paths(mode) ==
    IF mode = "Auto" /\ ~analyze_flake_source.fallback /\ tf_git
    THEN git_visible_paths(mode) ELSE walk_nix_files(mode)

-----------------------------------------------------------------------------
TfInit ==
    /\ tf_work \in TfTrees /\ tf_tracked = {FlakeNix} /\ tf_git = TRUE /\ tf_edits = 0 /\ tf_runs = 0
    /\ tf_index = [k \in {"tree", "inputs"} |-> NoIndex] /\ tf = [c \in TfCommands |-> TfIdle]

TfStep(c, next) == tf' = [tf EXCEPT ![c] = next]

(* The policy is part of the index: another one starts from nothing.  After*)
(* NXR_FINGERPRINT_FORCE_REHASH_SECS every file is read again.             *)
index_is_compatible(index, mode) == index # NoIndex /\ index.full = (mode = "FullWalk")

KindOf(mode) == IF mode = "Inputs" THEN "inputs" ELSE "tree"

nix_tree_fingerprint(c) ==
    /\ tf[c].pc = "idle" /\ tf_runs < MaxTfRuns /\ tf_runs' = tf_runs + 1
    /\ \E mode \in TfModes, force_rehash \in BOOLEAN :
        LET index == tf_index[KindOf(mode)]
        IN  TfStep(c, [tf[c] EXCEPT !.pc = "paths", !.mode = mode, !.loaded = index, !.calm = TRUE,
                                    !.prior = IF index_is_compatible(index, mode) /\ ~force_rehash
                                              THEN index.entries ELSE NoEntries])
    /\ UNCHANGED <<tf_world, tf_index>>

collect_nix_paths(c) ==
    /\ tf[c].pc = "paths"
    /\ TfStep(c, [tf[c] EXCEPT !.pc = "next",
                               !.left = IF tf[c].mode = "Inputs" THEN TfInputs
                                        ELSE resolve_nix_paths(tf[c].mode) \cup {FlakeLock}])
    /\ UNCHANGED <<tf_world, tf_runs, tf_index>>

(* Fault: the change time is not looked at.                                *)
matches_metadata_mtime(entry, found) == entry.mtime = found.mtime

matches_metadata(entry, found) == entry.mtime = found.mtime /\ entry.ctime = found.ctime

MissingInput == [hash |-> NoTfFile, mtime |-> 0, ctime |-> 0]

Noted(entries, path, entry) ==
    [p \in DOMAIN entries \cup {path} |-> IF p = path THEN entry ELSE entries[p]]

(* The metadata of the next path.  A missing input or lock is noted, any   *)
(* other path that has gone is an error; an entry that matches is kept.    *)
fingerprint_entry_for_file(c) ==
    /\ tf[c].pc = "next" /\ tf[c].left # {}
    /\ LET path == CHOOSE p \in tf[c].left : TRUE
           found == tf_work[path]
           prior == tf[c].prior
           next == [tf[c] EXCEPT !.left = @ \ {path}]
       IN  IF found = NoTfFile
           THEN IF tf[c].mode = "Inputs"
                THEN TfStep(c, [next EXCEPT !.entries = Noted(@, path, MissingInput)])
                ELSE IF path = FlakeLock THEN TfStep(c, next)
                ELSE TfStep(c, TfIdle)
           ELSE IF path \in DOMAIN prior /\ prior[path] # MissingInput /\ matches_metadata(prior[path], found)
           THEN TfStep(c, [next EXCEPT !.entries = Noted(@, path, prior[path])])
           ELSE TfStep(c, [next EXCEPT !.pc = "read", !.path = path,
                                       !.meta = [mtime |-> found.mtime, ctime |-> found.ctime]])
    /\ UNCHANGED <<tf_world, tf_runs, tf_index>>

(* The bytes are read after the metadata.                                  *)
read_file_bytes(c) ==
    /\ tf[c].pc = "read"
    /\ LET found == tf_work[tf[c].path]
           entry == [hash |-> found.text, mtime |-> tf[c].meta.mtime, ctime |-> tf[c].meta.ctime]
       IN  IF found = NoTfFile THEN TfStep(c, TfIdle)
           ELSE TfStep(c, [tf[c] EXCEPT !.pc = "next", !.meta = NoTimes,
                                        !.entries = Noted(@, tf[c].path, entry)])
    /\ UNCHANGED <<tf_world, tf_runs, tf_index>>

(* The index is replaced by one rename, if it has changed.                 *)
store_fingerprint_index(c) ==
    /\ tf[c].pc = "next" /\ tf[c].left = {}
    /\ LET index == [entries |-> tf[c].entries, full |-> tf[c].mode = "FullWalk"]
       IN  tf_index' = IF index = tf[c].loaded THEN tf_index ELSE [tf_index EXCEPT ![KindOf(tf[c].mode)] = index]
    /\ TfStep(c, [TfIdle EXCEPT !.pc = "done", !.mode = tf[c].mode, !.calm = tf[c].calm,
                                !.entries = tf[c].entries])
    /\ UNCHANGED <<tf_world, tf_runs>>

(* A command that ends, or dies where it is.                               *)
TfEnd(c) == tf[c].pc # "idle" /\ TfStep(c, TfIdle) /\ UNCHANGED <<tf_world, tf_runs, tf_index>>

(* An edit, a deletion, `git add` or `git rm --cached`, or git going away. *)
TfEdit ==
    /\ tf_edits < MaxTfEdits /\ tf_edits' = tf_edits + 1
    /\ tf' = [c \in TfCommands |-> [tf[c] EXCEPT !.calm = (tf[c].pc = "idle")]]
    /\ \/ \E p \in TfFiles, text \in TfTexts \cup FlakeTexts, restored \in BOOLEAN :
            /\ (p = FlakeNix) = (text \in FlakeTexts) /\ (restored => tf_work[p] # NoTfFile)
            /\ (tf_work[p] # NoTfFile => text # tf_work[p].text)
            /\ tf_work' = [tf_work EXCEPT ![p] =
                [text |-> text, mtime |-> IF restored THEN @.mtime ELSE tf_edits + 1, ctime |-> tf_edits + 1]]
            /\ UNCHANGED <<tf_tracked, tf_git>>
       \/ \E p \in TfFiles : /\ tf_work[p] # NoTfFile /\ tf_work' = [tf_work EXCEPT ![p] = NoTfFile]
                             /\ UNCHANGED <<tf_tracked, tf_git>>
       \/ \E p \in TfFiles : /\ tf_tracked' = IF p \in tf_tracked THEN tf_tracked \ {p} ELSE tf_tracked \cup {p}
                             /\ UNCHANGED <<tf_work, tf_git>>
       \/ tf_git /\ tf_git' = FALSE /\ UNCHANGED <<tf_work, tf_tracked>>
    /\ UNCHANGED <<tf_runs, tf_index>>

TfNext ==
    \/ \E c \in TfCommands :
        \/ nix_tree_fingerprint(c) \/ collect_nix_paths(c) \/ fingerprint_entry_for_file(c)
        \/ read_file_bytes(c) \/ store_fingerprint_index(c) \/ TfEnd(c)
    \/ TfEdit

TfSpec == TfInit /\ [][TfNext]_tf_vars

-----------------------------------------------------------------------------
(* The .nix files that Nix copies for a flake in git, and those that a     *)
(* literal of flake.nix names, but for the names that are always ignored   *)
(* and the worktrees beside the checkout.                                  *)
FlakeSource ==
    {p \in TfFiles \ (TfLinks \cup {FlakeLock}) :
        /\ tf_work[p] # NoTfFile /\ TfArea[p] # "ignored"
        /\ p \in tf_tracked \/ p \notin TfGitignored \/ p \in analyze_flake_source.references
        /\ TfArea[p] = "worktree" => p \in analyze_flake_source.references}

(* A fingerprint that nobody disturbs covers the files of the flake, its   *)
(* lock and the declared inputs, and says what they contain now, whatever  *)
(* commands that were disturbed have left in the index.  So two such       *)
(* fingerprints are equal only if the files are.                           *)
FingerprintHonest ==
    \A c \in TfCommands : tf[c].pc = "done" /\ tf[c].calm =>
        LET entries == tf[c].entries
            present == {p \in DOMAIN entries : entries[p] # MissingInput}
        IN  /\ \A p \in present : tf_work[p] # NoTfFile /\ entries[p].hash = tf_work[p].text
            /\ \A p \in DOMAIN entries \ present : tf_work[p] = NoTfFile
            /\ IF tf[c].mode = "Inputs" THEN DOMAIN entries = TfInputs
               ELSE /\ FlakeSource \subseteq DOMAIN entries
                    /\ tf_work[FlakeLock] # NoTfFile => FlakeLock \in DOMAIN entries

=============================================================================
