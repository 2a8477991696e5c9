----------------------------- MODULE WarmCaches -----------------------------
(***************************************************************************)
(* The three warm paths of the command line: prepared plans, development   *)
(* environments and workspace discovery.  Each asks nxrd's map first, then *)
(* the cache on disk, and otherwise computes the result and stores it in   *)
(* both.  Code: crates/nxr-cli/src/commands/common.rs and dev_env.rs, the  *)
(* cache methods of crates/nxr-core/src/daemon.rs, crates/nxr-completion/  *)
(* src/cache.rs.                                                           *)
(*                                                                         *)
(* Commands of several clients interleave with edits of the flake's        *)
(* sources.  A result is represented by the source tree it was computed    *)
(* from, a fingerprint by the tree that was fingerprinted.  How one file   *)
(* is written is the subject of DiskCache.                                 *)
(***************************************************************************)
EXTENDS Naturals, FiniteSets

CONSTANTS
    Trees,                \* states of the flake's sources
    FirstTree,
    WarmClients,
    MAX_ENTRIES_PER_MAP,
    MaxEdits,
    MaxCommands           \* commands that are started

ASSUME WarmAssumption ==
    /\ FirstTree \in Trees
    /\ MAX_ENTRIES_PER_MAP \in Nat \ {0}
    /\ {MaxEdits, MaxCommands} \subseteq Nat

Kinds == {"plan", "dev_env", "discovery"}

VARIABLES
    kind,         \* of the commands; the kinds share neither map nor directory
    tree,         \* the sources as they are now
    edits,
    started,
    daemon_up,
    dmap,         \* the entries of nxrd's map
    disk,         \* the entries of the cache directory
    cmd,          \* what each client's command is doing
    mislabelled   \* a result was stored under another tree's fingerprint

warm_vars == <<kind, tree, edits, started, daemon_up, dmap, disk, cmd, mislabelled>>

WarmIdle == [pc |-> "idle"]

WarmInit ==
    /\ kind \in Kinds
    /\ tree = FirstTree
    /\ edits = 0
    /\ started = 0
    /\ daemon_up = TRUE
    /\ dmap = {}
    /\ disk = {}
    /\ cmd = [c \in WarmClients |-> WarmIdle]
    /\ mislabelled = FALSE

Busy(c, k, pc) == kind = k /\ cmd[c].pc = pc

(* Fault: the value is kept as it is.                                      *)
Retainable_any(value) == TRUE

(* plan_contains_secret_values, snapshot_contains_secret_values            *)
Retainable(value) == ~ value.secret

-----------------------------------------------------------------------------
(* nxrd's maps                                                             *)

(* At the cap an entry of another key goes; the code takes the first key.  *)
insert_capped(map, e) ==
    LET others == {x \in map : x.key # e.key}
    IN  IF others = map /\ Cardinality(map) >= MAX_ENTRIES_PER_MAP
        THEN {(map \ {x}) \cup {e} : x \in map}
        ELSE {others \cup {e}}

(* <kind>.put: refused when it holds a secret; lost when nxrd is not there.*)
DaemonPut(e) ==
    dmap' \in IF daemon_up /\ Retainable(e.value) THEN insert_capped(dmap, e) ELSE {dmap}

(* <kind>.get by a client, who takes the entry only when it may.           *)
DaemonGet(c, MayUse(_)) ==
    LET hits == IF daemon_up THEN {e \in dmap : e.key = cmd[c].key /\ MayUse(e)} ELSE {}
    IN  /\ cmd' = [cmd EXCEPT ![c] =
                IF hits = {} THEN [@ EXCEPT !.pc = "disk"]
                ELSE [@ EXCEPT !.pc = "done", !.from = "daemon",
                               !.value = (CHOOSE e \in hits : TRUE).value]]
        /\ UNCHANGED <<kind, tree, edits, started, daemon_up, dmap, disk, mislabelled>>

(* discovery.invalidate, plan.invalidate, dev_env.invalidate: one or all.  *)
DaemonInvalidate(k) ==
    /\ daemon_up
    /\ kind = k
    /\ \E gone \in {dmap} \cup {{e} : e \in dmap} : gone # {} /\ dmap' = dmap \ gone
    /\ UNCHANGED <<kind, tree, edits, started, daemon_up, disk, cmd, mislabelled>>

discovery_invalidate == DaemonInvalidate("discovery")
plan_invalidate == DaemonInvalidate("plan")
dev_env_invalidate == DaemonInvalidate("dev_env")

(* nxrd ends, or starts with empty maps.                                   *)
DaemonUpDown ==
    /\ daemon_up' = ~ daemon_up
    /\ dmap' = {}
    /\ UNCHANGED <<kind, tree, edits, started, disk, cmd, mislabelled>>

-----------------------------------------------------------------------------
(* The disk, as far as freshness goes                                      *)

DiskGet(c, MayUse(_)) ==
    LET hits == {e \in disk : MayUse(e)}
    IN  /\ cmd' = [cmd EXCEPT ![c] =
              IF hits = {} THEN [@ EXCEPT !.pc = "compute"]
              ELSE [@ EXCEPT !.pc = "put", !.from = "disk",
                             !.value = (CHOOSE e \in hits : TRUE).value]]
        /\ UNCHANGED <<kind, tree, edits, started, daemon_up, dmap, disk, mislabelled>>

(* An entry under its key, and what it says of itself.                     *)
DiskPut(c, key, fp) ==
    LET v == cmd[c].value
    IN  /\ disk' = IF Retainable(v)
                   THEN {e \in disk : e.key # key} \cup {[key |-> key, fp |-> fp, value |-> v]}
                   ELSE disk
        /\ mislabelled' = (mislabelled \/ fp # v.tree)
        /\ cmd' = [cmd EXCEPT ![c].pc = "put", ![c].key = key, ![c].fp = fp]
        /\ UNCHANGED <<kind, tree, edits, started, daemon_up, dmap>>

(* Entries expire, or are cleared or collected.                            *)
DiskDrop ==
    /\ \E e \in disk : disk' = disk \ {e}
    /\ UNCHANGED <<kind, tree, edits, started, daemon_up, dmap, cmd, mislabelled>>

-----------------------------------------------------------------------------
(* A command of each kind.  `seen` collects the trees there were meanwhile.*)

WarmBegin(c, k, tasks, pc) ==
    /\ kind = k
    /\ cmd[c].pc = "idle"
    /\ started < MaxCommands
    /\ started' = started + 1
    /\ cmd' = [cmd EXCEPT ![c] =
          [pc |-> pc, tasks |-> tasks, fp |-> FirstTree, key |-> <<tasks>>,
           value |-> [tree |-> tree, tasks |-> tasks, secret |-> FALSE],
           from |-> "none", seen |-> {tree}]]
    /\ UNCHANGED <<kind, tree, edits, daemon_up, dmap, disk, mislabelled>>

(* prepare_app and try_process_spawn fingerprint the tree first; discovery *)
(* starts at nxrd's map, or with --refresh at the evaluation.              *)
plan_command(c, name) == WarmBegin(c, "plan", name, "fingerprint")
dev_env_command(c, name) == WarmBegin(c, "dev_env", name, "fingerprint")
WorkspaceSnapshot_build(c, load_tasks, refresh) ==
    WarmBegin(c, "discovery", load_tasks, IF refresh THEN "compute" ELSE "daemon")

(* shared_fingerprints; with them the key is complete.                     *)
shared_fingerprints(c) ==
    /\ cmd[c].pc = "fingerprint"
    /\ cmd' = [cmd EXCEPT ![c].pc = "daemon", ![c].fp = tree, ![c].key = <<cmd[c].tasks, tree>>]
    /\ UNCHANGED <<kind, tree, edits, started, daemon_up, dmap, disk, mislabelled>>

try_daemon_plan_lookup(c) ==
    Busy(c, "plan", "daemon") /\ DaemonGet(c, LAMBDA e : e.fp = cmd[c].fp)

try_daemon_dev_env_lookup(c) ==
    Busy(c, "dev_env", "daemon") /\ DaemonGet(c, LAMBDA e : e.fp = cmd[c].fp)

(* The key of discovery.get has no fingerprint, and the entry has none.    *)
try_daemon_discovery_get(c) ==
    Busy(c, "discovery", "daemon")
        /\ DaemonGet(c, LAMBDA e : cmd[c].tasks => e.value.tasks)

try_prepared_plan_cache(c) ==
    Busy(c, "plan", "disk")
        /\ DiskGet(c, LAMBDA e : e.key = cmd[c].key /\ e.fp = cmd[c].fp)

lookup_dev_env_snapshot(c) ==
    Busy(c, "dev_env", "disk")
        /\ DiskGet(c, LAMBDA e : e.key = cmd[c].key /\ e.fp = cmd[c].fp)

(* Fault: the fingerprint is not compared.                                 *)
DiscoveryEntryValid_any(e, tasks) == tasks => e.value.tasks

(* One file per flake; its fingerprint is compared with the tree now.      *)
DiscoveryEntryValid(e, tasks) == e.fp = tree /\ (tasks => e.value.tasks)

load_cached_workspace(c) ==
    Busy(c, "discovery", "disk")
        /\ DiskGet(c, LAMBDA e : DiscoveryEntryValid(e, cmd[c].tasks))

(* Nix evaluates the tree as it is; a result may hold a secret.            *)
WarmCompute(c, secret) ==
    /\ cmd[c].pc = "compute"
    /\ kind = "discovery" => ~ secret
    /\ cmd' = [cmd EXCEPT ![c].pc = "store", ![c].from = "nix",
                          ![c].value = [tree |-> tree, tasks |-> cmd[c].tasks, secret |-> secret]]
    /\ UNCHANGED <<kind, tree, edits, started, daemon_up, dmap, disk, mislabelled>>

(* The plan is stored under the fingerprints of the tree after it was      *)
(* prepared, the environment under those from before.                      *)
store_prepared_plan_cache_with_version(c) ==
    Busy(c, "plan", "store") /\ DiskPut(c, <<cmd[c].tasks, tree>>, tree)

persist_dev_env_snapshot(c) ==
    Busy(c, "dev_env", "store") /\ DiskPut(c, cmd[c].key, cmd[c].fp)

store_cached_workspace(c) ==
    Busy(c, "discovery", "store") /\ DiskPut(c, <<>>, tree)

WarmPut(c, key) ==
    /\ cmd[c].pc = "put"
    /\ DaemonPut([key |-> key, fp |-> cmd[c].fp, value |-> cmd[c].value])
    /\ cmd' = [cmd EXCEPT ![c].pc = "done"]
    /\ UNCHANGED <<kind, tree, edits, started, daemon_up, disk, mislabelled>>

try_daemon_plan_store(c) == Busy(c, "plan", "put") /\ WarmPut(c, cmd[c].key)
try_daemon_dev_env_store(c) == Busy(c, "dev_env", "put") /\ WarmPut(c, cmd[c].key)
try_daemon_discovery_put(c) == Busy(c, "discovery", "put") /\ WarmPut(c, <<cmd[c].value.tasks>>)

WarmReturn(c) ==
    /\ cmd[c].pc = "done"
    /\ cmd' = [cmd EXCEPT ![c] = WarmIdle]
    /\ UNCHANGED <<kind, tree, edits, started, daemon_up, dmap, disk, mislabelled>>

EditTree(t) ==
    /\ edits < MaxEdits
    /\ t # tree
    /\ tree' = t
    /\ edits' = edits + 1
    /\ cmd' = [c \in WarmClients |->
                 IF cmd[c].pc \in {"idle", "done"} THEN cmd[c]
                 ELSE [cmd[c] EXCEPT !.seen = @ \cup {t}]]
    /\ UNCHANGED <<kind, started, daemon_up, dmap, disk, mislabelled>>

WarmClient(c) ==
    \/ \E name \in BOOLEAN :
          \/ plan_command(c, name) \/ dev_env_command(c, name)
          \/ \E refresh \in BOOLEAN : WorkspaceSnapshot_build(c, name, refresh)
    \/ shared_fingerprints(c)
    \/ try_daemon_plan_lookup(c) \/ try_daemon_dev_env_lookup(c) \/ try_daemon_discovery_get(c)
    \/ try_prepared_plan_cache(c) \/ lookup_dev_env_snapshot(c) \/ load_cached_workspace(c)
    \/ \E secret \in BOOLEAN : WarmCompute(c, secret)
    \/ store_prepared_plan_cache_with_version(c) \/ persist_dev_env_snapshot(c)
    \/ store_cached_workspace(c)
    \/ try_daemon_plan_store(c) \/ try_daemon_dev_env_store(c) \/ try_daemon_discovery_put(c)
    \/ WarmReturn(c)

WarmNext ==
    \/ \E c \in WarmClients : WarmClient(c)
    \/ \E t \in Trees : EditTree(t)
    \/ discovery_invalidate \/ plan_invalidate \/ dev_env_invalidate
    \/ DaemonUpDown
    \/ DiskDrop

WarmSpec == WarmInit /\ [][WarmNext]_warm_vars

-----------------------------------------------------------------------------

Answers == {c \in WarmClients : cmd[c].pc = "done"}

(* A warm answer is the one the sources gave at some moment of the command,*)
(* whatever other clients stored before and between; excepted are          *)
(* discovery answers from nxrd's map, and answers after some result was    *)
(* stored under the fingerprint of another tree because an edit fell       *)
(* between its evaluation and its fingerprint.                             *)
AnswerAgrees ==
    \A c \in Answers :
        \/ cmd[c].value.tree \in cmd[c].seen
        \/ mislabelled
        \/ kind = "discovery" /\ cmd[c].from = "daemon"

(* A result with a secret in it is in no map of nxrd and in no cache file, *)
(* on none of the paths that lead there.                                   *)
NoSecretRetained ==
    \A e \in dmap \cup disk : ~ e.value.secret

=============================================================================
