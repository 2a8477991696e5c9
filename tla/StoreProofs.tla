---------------------------- MODULE StoreProofs -----------------------------
(***************************************************************************)
(* Theorems about what commands store for one another: the answers of the  *)
(* warm paths, the content store of workspace outputs, the files of the    *)
(* on-disk caches, the cache of what the installed Nix can do and the      *)
(* fingerprints of a flake.                                                *)
(***************************************************************************)
EXTENDS WarmCaches, WorkspaceCas, DiskCache, Capabilities, TreeFingerprint, SequenceTheorems,
        FiniteSetTheorems, TLAPS

-----------------------------------------------------------------------------
(* The warm paths                                                          *)

WarmKeys == Seq(BOOLEAN \cup Trees)

WarmValues == [tree : Trees, tasks : BOOLEAN, secret : BOOLEAN]

WarmEntries == [key : WarmKeys, fp : Trees, value : WarmValues]

WarmPlaces == {"fingerprint", "daemon", "disk", "compute", "store", "put", "done"}

WarmCommands ==
    [pc : WarmPlaces, tasks : BOOLEAN, fp : Trees, key : WarmKeys, value : WarmValues,
     from : {"none", "daemon", "disk", "nix"}, seen : SUBSET Trees]

WarmTypeOK ==
    /\ kind \in Kinds /\ tree \in Trees /\ mislabelled \in BOOLEAN
    /\ dmap \subseteq WarmEntries /\ disk \subseteq WarmEntries
    /\ cmd \in [WarmClients -> WarmCommands \cup {WarmIdle}]

(* What a fingerprint stands for.                                          *)
Labelled(e) == mislabelled \/ e.fp = e.value.tree

Agrees(x) ==
    \/ x.value.tree \in x.seen
    \/ mislabelled
    \/ kind = "discovery" /\ x.from = "daemon"

(* A running command has seen the tree there is, a fingerprint it took is  *)
(* of a tree it has seen, and a result it has agrees already.              *)
CommandAgrees(x) ==
    /\ x.pc # "done" => tree \in x.seen
    /\ kind # "discovery" /\ x.pc # "fingerprint" => x.fp \in x.seen
    /\ x.pc \in {"store", "put", "done"} => Agrees(x)
    /\ kind # "discovery" /\ x.pc = "put" => Labelled(x)

WarmAgreement ==
    /\ \A e \in disk : Labelled(e)
    /\ kind # "discovery" => \A e \in dmap : Labelled(e)
    /\ \A c \in WarmClients : cmd[c] # WarmIdle => CommandAgrees(cmd[c])

WarmInv == WarmTypeOK /\ WarmAgreement

(* A client at rest is none of the records of a command.                   *)
LEMMA IdleIsNoCommand == WarmIdle \notin WarmCommands
  BY DEF WarmIdle, WarmCommands, WarmPlaces

(* A command that is somewhere.                                            *)
LEMMA CommandThere ==
    ASSUME WarmInv, NEW c \in WarmClients, cmd[c].pc # "idle"
    PROVE  cmd[c] \in WarmCommands /\ CommandAgrees(cmd[c])
  <1>1. cmd[c] # WarmIdle
    BY DEF WarmIdle
  <1> QED
    BY <1>1 DEF WarmInv, WarmTypeOK, WarmAgreement

(* A step of one command: the others are as they were.                     *)
LEMMA CommandAlone ==
    ASSUME WarmInv, NEW c \in WarmClients, NEW x \in WarmCommands,
           cmd' = [cmd EXCEPT ![c] = x], kind' = kind, tree' = tree,
           mislabelled' \in BOOLEAN, mislabelled => mislabelled',
           dmap' \subseteq WarmEntries, disk' \subseteq WarmEntries,
           \A e \in disk' : Labelled(e)',
           kind # "discovery" => \A e \in dmap' : Labelled(e)',
           CommandAgrees(x)'
    PROVE  WarmInv'
  <1>1. WarmTypeOK'
    BY DEF WarmInv, WarmTypeOK
  <1>2. ASSUME NEW d \in WarmClients, cmd'[d] # WarmIdle
        PROVE  CommandAgrees(cmd[d])'
    <2>1. CASE d = c
      BY <2>1 DEF WarmInv, WarmTypeOK
    <2>2. CASE d # c
      <3>1. cmd'[d] = cmd[d] /\ CommandAgrees(cmd[d])
        BY <1>2, <2>2 DEF WarmInv, WarmTypeOK, WarmAgreement
      <3> QED
        BY <3>1 DEF CommandAgrees, Agrees, Labelled
    <2> QED
      BY <2>1, <2>2
  <1> QED
    BY <1>1, <1>2 DEF WarmInv, WarmAgreement

(* The same when nothing is stored.                                        *)
LEMMA CommandMoves ==
    ASSUME WarmInv, NEW c \in WarmClients, NEW x \in WarmCommands,
           cmd' = [cmd EXCEPT ![c] = x], UNCHANGED <<kind, tree, dmap, disk, mislabelled>>,
           CommandAgrees(x)
    PROVE  WarmInv'
  <1>1. CommandAgrees(x)'
    BY DEF CommandAgrees, Agrees, Labelled
  <1>2. /\ mislabelled' \in BOOLEAN /\ dmap' \subseteq WarmEntries /\ disk' \subseteq WarmEntries
        /\ \A e \in disk' : Labelled(e)'
        /\ kind # "discovery" => \A e \in dmap' : Labelled(e)'
    BY DEF WarmInv, WarmTypeOK, WarmAgreement, Labelled
  <1> QED
    BY <1>1, <1>2, CommandAlone

(* What a full map makes room for.                                         *)
LEMMA CappedBound ==
    ASSUME NEW map, NEW e, NEW m \in insert_capped(map, e)
    PROVE  m \subseteq map \cup {e}
  BY DEF insert_capped

(* Nothing is stored at first.                                             *)
LEMMA WarmStart == WarmInit => WarmInv
  BY WarmAssumption DEF WarmInit, WarmInv, WarmTypeOK, WarmAgreement

(* A command begins with the tree that it finds.                           *)
LEMMA BeginAgrees ==
    ASSUME WarmInv, NEW c \in WarmClients, NEW k, NEW tasks \in BOOLEAN,
           NEW pc \in {"fingerprint", "daemon", "compute"}, pc # "fingerprint" => k = "discovery",
           WarmBegin(c, k, tasks, pc)
    PROVE  WarmInv'
  <1>1. PICK x : x = [pc |-> pc, tasks |-> tasks, fp |-> FirstTree, key |-> <<tasks>>,
                      value |-> [tree |-> tree, tasks |-> tasks, secret |-> FALSE],
                      from |-> "none", seen |-> {tree}]
    OBVIOUS
  <1>2. x \in WarmCommands
    <2>1. <<tasks>> \in WarmKeys /\ tree \in Trees
      BY DEF WarmKeys, WarmInv, WarmTypeOK
    <2>2. [tree |-> tree, tasks |-> tasks, secret |-> FALSE] \in WarmValues
      BY <2>1 DEF WarmValues
    <2> QED
      BY <1>1, <2>1, <2>2, WarmAssumption DEF WarmCommands, WarmPlaces
  <1>3. CommandAgrees(x)
    BY <1>1 DEF CommandAgrees, WarmBegin
  <1> QED
    BY <1>1, <1>2, <1>3, CommandMoves DEF WarmBegin

(* The tree is fingerprinted, all of it or the part the kind of answer     *)
(* depends on.                                                             *)
LEMMA FingerprintAgrees ==
    ASSUME WarmInv, NEW c \in WarmClients, shared_fingerprints(c)
    PROVE  WarmInv'
  <1>1. PICK m \in WarmCommands : m = cmd[c] /\ CommandAgrees(m) /\ m.pc = "fingerprint"
    BY CommandThere DEF shared_fingerprints
  <1>2. PICK key : key = <<m.tasks, tree>>
    OBVIOUS
  <1>3. PICK x : x = [m EXCEPT !.pc = "daemon", !.fp = tree, !.key = key]
    OBVIOUS
  <1>4. key \in WarmKeys
    BY <1>2 DEF WarmKeys, WarmCommands, WarmInv, WarmTypeOK
  <1>5. /\ x \in WarmCommands /\ x.pc = "daemon" /\ x.fp = tree /\ x.seen = m.seen
    BY <1>3, <1>4 DEF WarmCommands, WarmPlaces, WarmInv, WarmTypeOK
  <1>6. CommandAgrees(x)
    BY <1>1, <1>5 DEF CommandAgrees
  <1>7. cmd' = [cmd EXCEPT ![c] = x] /\ UNCHANGED <<kind, tree, dmap, disk, mislabelled>>
    BY <1>1, <1>2, <1>3 DEF shared_fingerprints, WarmInv, WarmTypeOK
  <1> QED
    BY <1>5, <1>6, <1>7, CommandMoves

(* An answer of nxrd's map, or none.                                       *)
LEMMA DaemonAnswer ==
    ASSUME WarmInv, NEW c \in WarmClients, cmd[c].pc = "daemon",
           NEW hits \in SUBSET dmap, kind # "discovery" => \A e \in hits : e.fp = cmd[c].fp,
           cmd' = [cmd EXCEPT ![c] =
                      IF hits = {} THEN [cmd[c] EXCEPT !.pc = "disk"]
                      ELSE [cmd[c] EXCEPT !.pc = "done", !.from = "daemon",
                                          !.value = (CHOOSE e \in hits : TRUE).value]],
           UNCHANGED <<kind, tree, dmap, disk, mislabelled>>
    PROVE  WarmInv'
  <1>1. PICK m \in WarmCommands : m = cmd[c] /\ CommandAgrees(m) /\ m.pc = "daemon"
    BY CommandThere
  <1>2. CASE hits = {}
    <2>1. PICK x : x = [m EXCEPT !.pc = "disk"]
      OBVIOUS
    <2>2. /\ x \in WarmCommands /\ x.pc = "disk" /\ x.fp = m.fp /\ x.seen = m.seen
      BY <2>1 DEF WarmCommands, WarmPlaces
    <2>3. CommandAgrees(x)
      BY <1>1, <2>2 DEF CommandAgrees
    <2>4. cmd' = [cmd EXCEPT ![c] = x]
      BY <1>1, <1>2, <2>1
    <2> QED
      BY <2>2, <2>3, <2>4, CommandMoves
  <1>3. CASE hits # {}
    <2>1. PICK e \in hits : e = CHOOSE y \in hits : TRUE
      BY <1>3
    <2>2. e \in WarmEntries /\ e.value \in WarmValues /\ e \in dmap
      BY DEF WarmInv, WarmTypeOK, WarmEntries
    <2>3. PICK x : x = [m EXCEPT !.pc = "done", !.from = "daemon", !.value = e.value]
      OBVIOUS
    <2>4. /\ x \in WarmCommands /\ x.pc = "done" /\ x.fp = m.fp /\ x.seen = m.seen
          /\ x.from = "daemon" /\ x.value = e.value
      BY <2>2, <2>3 DEF WarmCommands, WarmPlaces
    <2>5. Agrees(x)
      <3>1. CASE kind = "discovery"
        BY <2>4, <3>1 DEF Agrees
      <3>2. CASE kind # "discovery"
        <4>1. Labelled(e) /\ e.fp = m.fp /\ m.fp \in m.seen
          BY <1>1, <2>2, <3>2 DEF WarmInv, WarmAgreement, CommandAgrees
        <4> QED
          BY <2>4, <4>1 DEF Labelled, Agrees
      <3> QED
        BY <3>1, <3>2
    <2>6. CommandAgrees(x)
      BY <1>1, <2>4, <2>5 DEF CommandAgrees
    <2>7. cmd' = [cmd EXCEPT ![c] = x]
      BY <1>1, <1>3, <2>1, <2>3
    <2> QED
      BY <2>4, <2>6, <2>7, CommandMoves
  <1> QED
    BY <1>2, <1>3

(* An answer of the disk, or none.                                         *)
LEMMA DiskAnswer ==
    ASSUME WarmInv, NEW c \in WarmClients, cmd[c].pc = "disk",
           NEW hits \in SUBSET disk,
           \A e \in hits : e.fp = IF kind = "discovery" THEN tree ELSE cmd[c].fp,
           cmd' = [cmd EXCEPT ![c] =
                      IF hits = {} THEN [cmd[c] EXCEPT !.pc = "compute"]
                      ELSE [cmd[c] EXCEPT !.pc = "put", !.from = "disk",
                                          !.value = (CHOOSE e \in hits : TRUE).value]],
           UNCHANGED <<kind, tree, dmap, disk, mislabelled>>
    PROVE  WarmInv'
  <1>1. PICK m \in WarmCommands : m = cmd[c] /\ CommandAgrees(m) /\ m.pc = "disk"
    BY CommandThere
  <1>2. CASE hits = {}
    <2>1. PICK x : x = [m EXCEPT !.pc = "compute"]
      OBVIOUS
    <2>2. /\ x \in WarmCommands /\ x.pc = "compute" /\ x.fp = m.fp /\ x.seen = m.seen
      BY <2>1 DEF WarmCommands, WarmPlaces
    <2>3. CommandAgrees(x)
      BY <1>1, <2>2 DEF CommandAgrees
    <2>4. cmd' = [cmd EXCEPT ![c] = x]
      BY <1>1, <1>2, <2>1
    <2> QED
      BY <2>2, <2>3, <2>4, CommandMoves
  <1>3. CASE hits # {}
    <2>1. PICK e \in hits : e = CHOOSE y \in hits : TRUE
      BY <1>3
    <2>2. e \in WarmEntries /\ e.value \in WarmValues /\ e \in disk /\ Labelled(e)
      BY DEF WarmInv, WarmTypeOK, WarmAgreement, WarmEntries
    <2>3. PICK x : x = [m EXCEPT !.pc = "put", !.from = "disk", !.value = e.value]
      OBVIOUS
    <2>4. /\ x \in WarmCommands /\ x.pc = "put" /\ x.fp = m.fp /\ x.seen = m.seen
          /\ x.value = e.value
      BY <2>2, <2>3 DEF WarmCommands, WarmPlaces
    <2>5. /\ e.fp \in m.seen
          /\ kind # "discovery" => e.fp = m.fp
      BY <1>1 DEF CommandAgrees
    <2>6. Agrees(x) /\ (kind # "discovery" => Labelled(x))
      BY <2>2, <2>4, <2>5 DEF Labelled, Agrees
    <2>7. CommandAgrees(x)
      BY <1>1, <2>4, <2>6 DEF CommandAgrees
    <2>8. cmd' = [cmd EXCEPT ![c] = x]
      BY <1>1, <1>3, <2>1, <2>3
    <2> QED
      BY <2>4, <2>7, <2>8, CommandMoves
  <1> QED
    BY <1>2, <1>3

(* The answer is computed from the tree as it is now.                      *)
LEMMA ComputeAgrees ==
    ASSUME WarmInv, NEW c \in WarmClients, NEW secret \in BOOLEAN, WarmCompute(c, secret)
    PROVE  WarmInv'
  <1>1. PICK m \in WarmCommands : m = cmd[c] /\ CommandAgrees(m) /\ m.pc = "compute"
    BY CommandThere DEF WarmCompute
  <1>2. PICK v : v = [tree |-> tree, tasks |-> m.tasks, secret |-> secret]
    OBVIOUS
  <1>3. v \in WarmValues /\ v.tree = tree
    BY <1>2 DEF WarmValues, WarmCommands, WarmInv, WarmTypeOK
  <1>4. PICK x : x = [m EXCEPT !.pc = "store", !.from = "nix", !.value = v]
    OBVIOUS
  <1>5. /\ x \in WarmCommands /\ x.pc = "store" /\ x.fp = m.fp /\ x.seen = m.seen
        /\ x.value.tree = tree
    BY <1>3, <1>4 DEF WarmCommands, WarmPlaces
  <1>6. CommandAgrees(x)
    BY <1>1, <1>5 DEF CommandAgrees, Agrees
  <1>7. cmd' = [cmd EXCEPT ![c] = x] /\ UNCHANGED <<kind, tree, dmap, disk, mislabelled>>
    BY <1>1, <1>2, <1>4 DEF WarmCompute, WarmInv, WarmTypeOK
  <1> QED
    BY <1>5, <1>6, <1>7, CommandMoves

(* A result is stored under a fingerprint: it is that of the result's tree *)
(* or it is noted that it is not.                                          *)
LEMMA DiskPutAgrees ==
    ASSUME WarmInv, NEW c \in WarmClients, cmd[c].pc = "store",
           NEW key \in WarmKeys, NEW fp \in Trees,
           kind # "discovery" => fp \in cmd[c].seen, DiskPut(c, key, fp)
    PROVE  WarmInv'
  <1>1. PICK m \in WarmCommands : m = cmd[c] /\ CommandAgrees(m) /\ m.pc = "store"
    BY CommandThere
  <1>2. PICK v \in WarmValues : v = m.value
    BY DEF WarmCommands
  <1>3. PICK x : x = [m EXCEPT !.pc = "put", !.key = key, !.fp = fp]
    OBVIOUS
  <1>4. /\ x \in WarmCommands /\ x.pc = "put" /\ x.fp = fp /\ x.seen = m.seen
        /\ x.value = v /\ x.from = m.from
    BY <1>2, <1>3 DEF WarmCommands, WarmPlaces
  <1>5. /\ cmd' = [cmd EXCEPT ![c] = x] /\ UNCHANGED <<kind, tree, dmap>>
        /\ mislabelled' = (mislabelled \/ fp # v.tree)
        /\ disk' \subseteq disk \cup {[key |-> key, fp |-> fp, value |-> v]}
    BY <1>1, <1>2, <1>3 DEF DiskPut, WarmInv, WarmTypeOK
  <1>6. PICK e : e = [key |-> key, fp |-> fp, value |-> v]
    OBVIOUS
  <1>7. e \in WarmEntries /\ e.fp = fp /\ e.value = v
    BY <1>6 DEF WarmEntries
  <1>8. /\ mislabelled' \in BOOLEAN /\ (mislabelled => mislabelled')
        /\ disk' \subseteq WarmEntries /\ dmap' \subseteq WarmEntries
    BY <1>5, <1>6, <1>7 DEF WarmInv, WarmTypeOK
  <1>9. /\ \A y \in disk' : Labelled(y)'
        /\ kind # "discovery" => \A y \in dmap' : Labelled(y)'
    BY <1>5, <1>6, <1>7 DEF WarmInv, WarmAgreement, Labelled
  <1>10. CommandAgrees(x)'
    <2>1. tree' \in x.seen /\ (kind # "discovery" => x.fp \in x.seen)
      BY <1>1, <1>4, <1>5 DEF CommandAgrees
    <2>2. Agrees(x)' /\ Labelled(x)'
      BY <1>1, <1>2, <1>4, <1>5 DEF CommandAgrees, Agrees, Labelled
    <2> QED
      BY <1>4, <1>5, <2>1, <2>2 DEF CommandAgrees
  <1> QED
    BY <1>4, <1>5, <1>8, <1>9, <1>10, CommandAlone

(* The answer is stored under the key it was asked with.                   *)
LEMMA WarmPutAgrees ==
    ASSUME WarmInv, NEW c \in WarmClients, NEW key \in WarmKeys, WarmPut(c, key)
    PROVE  WarmInv'
  <1>1. PICK m \in WarmCommands : m = cmd[c] /\ CommandAgrees(m) /\ m.pc = "put"
    BY CommandThere DEF WarmPut
  <1>2. PICK x : x = [m EXCEPT !.pc = "done"]
    OBVIOUS
  <1>3. /\ x \in WarmCommands /\ x.pc = "done" /\ x.fp = m.fp /\ x.seen = m.seen
        /\ x.value = m.value /\ x.from = m.from
    BY <1>2 DEF WarmCommands, WarmPlaces
  <1>4. PICK e : e = [key |-> key, fp |-> m.fp, value |-> m.value]
    OBVIOUS
  <1>5. e \in WarmEntries /\ e.fp = m.fp /\ e.value = m.value
    BY <1>4 DEF WarmEntries, WarmCommands
  <1>6. dmap' \subseteq dmap \cup {e}
    BY <1>1, <1>4, CappedBound DEF WarmPut, DaemonPut
  <1>7. /\ cmd' = [cmd EXCEPT ![c] = x] /\ UNCHANGED <<kind, tree, disk, mislabelled>>
    BY <1>1, <1>2 DEF WarmPut, WarmInv, WarmTypeOK
  <1>8. /\ mislabelled' \in BOOLEAN /\ dmap' \subseteq WarmEntries /\ disk' \subseteq WarmEntries
    BY <1>5, <1>6, <1>7 DEF WarmInv, WarmTypeOK
  <1>9. kind # "discovery" => Labelled(e)
    BY <1>1, <1>5 DEF CommandAgrees, Labelled
  <1>10. /\ \A y \in disk' : Labelled(y)'
         /\ kind # "discovery" => \A y \in dmap' : Labelled(y)'
    BY <1>6, <1>7, <1>9 DEF WarmInv, WarmAgreement, Labelled
  <1>11. CommandAgrees(x)'
    BY <1>1, <1>3, <1>7 DEF CommandAgrees, Agrees, Labelled
  <1> QED
    BY <1>3, <1>7, <1>8, <1>10, <1>11, CommandAlone

(* A command ends.                                                         *)
LEMMA ReturnAgrees ==
    ASSUME WarmInv, NEW c \in WarmClients, WarmReturn(c)
    PROVE  WarmInv'
  <1>1. /\ cmd' = [cmd EXCEPT ![c] = WarmIdle]
        /\ UNCHANGED <<kind, tree, dmap, disk, mislabelled>>
    BY DEF WarmReturn
  <1>2. WarmTypeOK'
    BY <1>1 DEF WarmInv, WarmTypeOK
  <1>3. ASSUME NEW d \in WarmClients, cmd'[d] # WarmIdle
        PROVE  CommandAgrees(cmd[d])'
    <2>1. cmd'[d] = cmd[d] /\ CommandAgrees(cmd[d])
      BY <1>1, <1>3 DEF WarmInv, WarmTypeOK, WarmAgreement
    <2> QED
      BY <1>1, <2>1 DEF CommandAgrees, Agrees, Labelled
  <1> QED
    BY <1>1, <1>2, <1>3 DEF WarmInv, WarmAgreement, Labelled

(* The tree is edited between any two steps of a command.                  *)
LEMMA EditAgrees ==
    ASSUME WarmInv, NEW t \in Trees, EditTree(t)
    PROVE  WarmInv'
  <1>1. /\ UNCHANGED <<kind, dmap, disk, mislabelled>> /\ tree' = t
        /\ cmd' = [c \in WarmClients |->
                      IF cmd[c].pc \in {"idle", "done"} THEN cmd[c]
                      ELSE [cmd[c] EXCEPT !.seen = @ \cup {t}]]
    BY DEF EditTree
  <1>2. ASSUME NEW c \in WarmClients
        PROVE  /\ cmd'[c] \in WarmCommands \cup {WarmIdle}
               /\ cmd'[c] # WarmIdle => CommandAgrees(cmd[c])'
    <2>1. CASE cmd[c].pc \in {"idle", "done"}
      <3>1. cmd'[c] = cmd[c]
        BY <1>1, <2>1
      <3>2. cmd[c] # WarmIdle => cmd[c].pc = "done" /\ CommandAgrees(cmd[c])
        BY <2>1 DEF WarmInv, WarmTypeOK, WarmAgreement, WarmCommands, WarmPlaces
      <3> QED
        BY <1>1, <3>1, <3>2 DEF WarmInv, WarmTypeOK, CommandAgrees, Agrees, Labelled
    <2>2. CASE cmd[c].pc \notin {"idle", "done"}
      <3>1. PICK m \in WarmCommands : m = cmd[c] /\ CommandAgrees(m) /\ m.pc # "done"
        BY <2>2, CommandThere
      <3>2. PICK x : x = [m EXCEPT !.seen = @ \cup {t}]
        OBVIOUS
      <3>3. /\ x \in WarmCommands /\ x.pc = m.pc /\ x.fp = m.fp /\ x.seen = m.seen \cup {t}
            /\ x.value = m.value /\ x.from = m.from
        BY <3>2 DEF WarmCommands
      <3>4. cmd'[c] = x
        BY <1>1, <2>2, <3>1, <3>2
      <3> QED
        BY <1>1, <3>1, <3>3, <3>4 DEF CommandAgrees, Agrees, Labelled
    <2> QED
      BY <2>1, <2>2
  <1>3. WarmTypeOK'
    BY <1>1, <1>2 DEF WarmInv, WarmTypeOK
  <1> QED
    BY <1>1, <1>2, <1>3 DEF WarmInv, WarmAgreement, Labelled

(* Entries go.                                                             *)
LEMMA LossAgrees ==
    ASSUME WarmInv, UNCHANGED <<kind, tree, cmd, mislabelled>>,
           dmap' \subseteq dmap, disk' \subseteq disk
    PROVE  WarmInv'
  <1>1. WarmTypeOK'
    BY DEF WarmInv, WarmTypeOK
  <1>2. \A c \in WarmClients : cmd[c] # WarmIdle => CommandAgrees(cmd[c])'
    BY DEF WarmInv, WarmAgreement, CommandAgrees, Agrees, Labelled
  <1> QED
    BY <1>1, <1>2 DEF WarmInv, WarmAgreement, Labelled

(* Every step of a command; the lookups differ in the entries they take.   *)
LEMMA ClientAgrees ==
    ASSUME WarmInv, NEW c \in WarmClients, WarmClient(c)
    PROVE  WarmInv'
  <1>1. ASSUME NEW name \in BOOLEAN, plan_command(c, name) \/ dev_env_command(c, name)
        PROVE  WarmInv'
    BY <1>1, BeginAgrees DEF plan_command, dev_env_command
  <1>2. ASSUME NEW name \in BOOLEAN, NEW refresh \in BOOLEAN,
               WorkspaceSnapshot_build(c, name, refresh)
        PROVE  WarmInv'
    BY <1>2, BeginAgrees DEF WorkspaceSnapshot_build
  <1>3. ASSUME shared_fingerprints(c) PROVE WarmInv'
    BY <1>3, FingerprintAgrees
  <1>4. ASSUME try_daemon_plan_lookup(c) \/ try_daemon_dev_env_lookup(c) \/ try_daemon_discovery_get(c)
        PROVE  WarmInv'
    <2> DEFINE fresh == IF daemon_up THEN {e \in dmap : e.key = cmd[c].key /\ e.fp = cmd[c].fp} ELSE {}
               found == IF daemon_up
                        THEN {e \in dmap : e.key = cmd[c].key /\ (cmd[c].tasks => e.value.tasks)}
                        ELSE {}
    <2>1. CASE try_daemon_plan_lookup(c) \/ try_daemon_dev_env_lookup(c)
      <3>1. /\ cmd[c].pc = "daemon" /\ UNCHANGED <<kind, tree, dmap, disk, mislabelled>>
            /\ cmd' = [cmd EXCEPT ![c] =
                 IF fresh = {} THEN [cmd[c] EXCEPT !.pc = "disk"]
                 ELSE [cmd[c] EXCEPT !.pc = "done", !.from = "daemon",
                                     !.value = (CHOOSE e \in fresh : TRUE).value]]
        BY <2>1 DEF try_daemon_plan_lookup, try_daemon_dev_env_lookup, Busy, DaemonGet,
                    WarmInv, WarmTypeOK
      <3>2. fresh \in SUBSET dmap /\ \A e \in fresh : e.fp = cmd[c].fp
        BY SMTT(60)
      <3> HIDE DEF fresh
      <3> QED
        BY <3>1, <3>2, DaemonAnswer
    <2>2. CASE try_daemon_discovery_get(c)
      <3>1. /\ kind = "discovery"
            /\ cmd[c].pc = "daemon" /\ UNCHANGED <<kind, tree, dmap, disk, mislabelled>>
            /\ cmd' = [cmd EXCEPT ![c] =
                 IF found = {} THEN [cmd[c] EXCEPT !.pc = "disk"]
                 ELSE [cmd[c] EXCEPT !.pc = "done", !.from = "daemon",
                                     !.value = (CHOOSE e \in found : TRUE).value]]
        BY <2>2 DEF try_daemon_discovery_get, Busy, DaemonGet, WarmInv, WarmTypeOK
      <3>2. found \in SUBSET dmap
        BY SMTT(60)
      <3> HIDE DEF found
      <3> QED
        BY <3>1, <3>2, DaemonAnswer
    <2> QED
      BY SMTT(60), <1>4, <2>1, <2>2
  <1>5. ASSUME try_prepared_plan_cache(c) \/ lookup_dev_env_snapshot(c) \/ load_cached_workspace(c)
        PROVE  WarmInv'
    <2> DEFINE fresh == {e \in disk : e.key = cmd[c].key /\ e.fp = cmd[c].fp}
               valid == {e \in disk : DiscoveryEntryValid(e, cmd[c].tasks)}
    <2>1. CASE try_prepared_plan_cache(c) \/ lookup_dev_env_snapshot(c)
      <3>1. /\ cmd[c].pc = "disk" /\ UNCHANGED <<kind, tree, dmap, disk, mislabelled>>
            /\ kind # "discovery"
            /\ cmd' = [cmd EXCEPT ![c] =
                 IF fresh = {} THEN [cmd[c] EXCEPT !.pc = "compute"]
                 ELSE [cmd[c] EXCEPT !.pc = "put", !.from = "disk",
                                     !.value = (CHOOSE e \in fresh : TRUE).value]]
        BY <2>1 DEF try_prepared_plan_cache, lookup_dev_env_snapshot, Busy, DiskGet,
                    WarmInv, WarmTypeOK
      <3>2. fresh \in SUBSET disk /\ \A e \in fresh : e.fp = cmd[c].fp
        BY SMTT(60)
      <3> HIDE DEF fresh
      <3> QED
        BY <3>1, <3>2, DiskAnswer
    <2>2. CASE load_cached_workspace(c)
      <3>1. /\ kind = "discovery"
            /\ cmd[c].pc = "disk" /\ UNCHANGED <<kind, tree, dmap, disk, mislabelled>>
            /\ cmd' = [cmd EXCEPT ![c] =
                 IF valid = {} THEN [cmd[c] EXCEPT !.pc = "compute"]
                 ELSE [cmd[c] EXCEPT !.pc = "put", !.from = "disk",
                                     !.value = (CHOOSE e \in valid : TRUE).value]]
        BY <2>2 DEF load_cached_workspace, Busy, DiskGet, WarmInv, WarmTypeOK
      <3>2. valid \in SUBSET disk /\ \A e \in valid : e.fp = tree
        BY DEF DiscoveryEntryValid
      <3> HIDE DEF valid
      <3> QED
        BY <3>1, <3>2, DiskAnswer
    <2> QED
      BY <1>5, <2>1, <2>2
  <1>6. ASSUME NEW secret \in BOOLEAN, WarmCompute(c, secret) PROVE WarmInv'
    BY <1>6, ComputeAgrees
  <1>7. ASSUME cmd[c].pc \in {"store", "put"}
        PROVE  /\ cmd[c] \in WarmCommands /\ CommandAgrees(cmd[c])
               /\ cmd[c].key \in WarmKeys /\ cmd[c].fp \in Trees /\ tree \in Trees
               /\ tree \in cmd[c].seen
               /\ <<cmd[c].tasks, tree>> \in WarmKeys /\ <<>> \in WarmKeys
               /\ <<cmd[c].value.tasks>> \in WarmKeys
    <2>1. cmd[c] \in WarmCommands /\ CommandAgrees(cmd[c]) /\ tree \in Trees
      BY <1>7, CommandThere DEF WarmInv, WarmTypeOK
    <2>2. /\ cmd[c].key \in WarmKeys /\ cmd[c].fp \in Trees /\ cmd[c].tasks \in BOOLEAN
          /\ cmd[c].value \in WarmValues
      BY <2>1 DEF WarmCommands
    <2>3. cmd[c].value.tasks \in BOOLEAN
      BY <2>2 DEF WarmValues
    <2>4. tree \in cmd[c].seen
      BY <1>7, <2>1 DEF CommandAgrees
    <2> QED
      BY <2>1, <2>2, <2>3, <2>4 DEF WarmKeys
  <1>8. ASSUME store_prepared_plan_cache_with_version(c) PROVE WarmInv'
    BY <1>7, <1>8, DiskPutAgrees DEF store_prepared_plan_cache_with_version, Busy
  <1>9. ASSUME persist_dev_env_snapshot(c) PROVE WarmInv'
    <2>1. cmd[c].pc = "store" /\ DiskPut(c, cmd[c].key, cmd[c].fp)
      BY <1>9 DEF persist_dev_env_snapshot, Busy
    <2>2. kind # "discovery" => cmd[c].fp \in cmd[c].seen
      BY <1>7, <2>1 DEF CommandAgrees
    <2> QED
      BY <1>7, <2>1, <2>2, DiskPutAgrees
  <1>10. ASSUME store_cached_workspace(c) PROVE WarmInv'
    BY <1>7, <1>10, DiskPutAgrees DEF store_cached_workspace, Busy
  <1>11. ASSUME \/ try_daemon_plan_store(c) \/ try_daemon_dev_env_store(c)
                \/ try_daemon_discovery_put(c)
         PROVE  WarmInv'
    BY <1>7, <1>11, WarmPutAgrees DEF try_daemon_plan_store, try_daemon_dev_env_store,
       try_daemon_discovery_put, Busy
  <1>12. ASSUME WarmReturn(c) PROVE WarmInv'
    BY <1>12, ReturnAgrees
  <1> QED
    BY <1>1, <1>2, <1>3, <1>4, <1>5, <1>6, <1>8, <1>9, <1>10, <1>11, <1>12 DEF WarmClient

(* Every step keeps the stored answers in agreement with their keys.       *)
LEMMA WarmStep ==
    WarmInv /\ [WarmNext]_warm_vars => WarmInv'
  <1> SUFFICES ASSUME WarmInv, [WarmNext]_warm_vars PROVE WarmInv'
    OBVIOUS
  <1>1. CASE UNCHANGED warm_vars
    BY <1>1, LossAgrees DEF warm_vars
  <1>2. ASSUME NEW c \in WarmClients, WarmClient(c) PROVE WarmInv'
    BY <1>2, ClientAgrees
  <1>3. ASSUME NEW t \in Trees, EditTree(t) PROVE WarmInv'
    BY <1>3, EditAgrees
  <1>4. CASE discovery_invalidate \/ plan_invalidate \/ dev_env_invalidate
    BY <1>4, LossAgrees DEF discovery_invalidate, plan_invalidate, dev_env_invalidate,
       DaemonInvalidate
  <1>5. CASE DaemonUpDown
    BY <1>5, LossAgrees DEF DaemonUpDown
  <1>6. CASE DiskDrop
    BY <1>6, LossAgrees DEF DiskDrop
  <1> QED
    BY <1>1, <1>2, <1>3, <1>4, <1>5, <1>6 DEF WarmNext

(* common.rs, dev_env.rs: an answer of the warm paths is one the sources   *)
(* gave while the command ran, for any number of trees, commands, edits    *)
(* and entries and whatever nxrd and the disk forget.                      *)
THEOREM AnswersAgree == WarmSpec => []AnswerAgrees
  <1>1. WarmInv => AnswerAgrees
    <2> SUFFICES ASSUME WarmInv, NEW c \in Answers
                 PROVE  \/ cmd[c].value.tree \in cmd[c].seen
                        \/ mislabelled
                        \/ kind = "discovery" /\ cmd[c].from = "daemon"
      BY DEF AnswerAgrees
    <2>1. c \in WarmClients /\ cmd[c].pc = "done"
      BY DEF Answers
    <2>2. CommandAgrees(cmd[c])
      BY <2>1, CommandThere
    <2> QED
      BY <2>1, <2>2 DEF CommandAgrees, Agrees
  <1> QED
    BY <1>1, WarmStart, WarmStep, PTL DEF WarmSpec

-----------------------------------------------------------------------------
(* Nothing that holds a secret is added to a map or to the disk.           *)
LEMMA SecretStep ==
    NoSecretRetained /\ [WarmNext]_warm_vars => NoSecretRetained'
  <1> SUFFICES ASSUME NoSecretRetained, [WarmNext]_warm_vars PROVE NoSecretRetained'
    OBVIOUS
  <1>1. ASSUME dmap' \subseteq dmap, disk' \subseteq disk PROVE NoSecretRetained'
    BY <1>1 DEF NoSecretRetained
  <1>2. ASSUME NEW c, NEW key, NEW fp, DiskPut(c, key, fp) PROVE NoSecretRetained'
    <2>1. PICK e : e = [key |-> key, fp |-> fp, value |-> cmd[c].value]
      OBVIOUS
    <2>2. /\ dmap' = dmap
          /\ disk' \subseteq disk \/ (disk' \subseteq disk \cup {e} /\ ~ e.value.secret)
      BY <1>2, <2>1 DEF DiskPut, Retainable
    <2> QED
      BY <2>2 DEF NoSecretRetained
  <1>3. ASSUME NEW c, NEW key, WarmPut(c, key) PROVE NoSecretRetained'
    <2>1. PICK e : e = [key |-> key, fp |-> cmd[c].fp, value |-> cmd[c].value]
      OBVIOUS
    <2>2. /\ disk' = disk
          /\ dmap' \subseteq dmap \/ (dmap' \subseteq dmap \cup {e} /\ ~ e.value.secret)
      BY <1>3, <2>1, CappedBound DEF WarmPut, DaemonPut, Retainable
    <2> QED
      BY <2>2 DEF NoSecretRetained
  <1>4. CASE UNCHANGED warm_vars
    BY <1>1, <1>4 DEF warm_vars
  <1>5. ASSUME NEW c \in WarmClients, WarmClient(c) PROVE NoSecretRetained'
    <2>1. CASE \E name \in BOOLEAN :
                  \/ plan_command(c, name) \/ dev_env_command(c, name)
                  \/ \E refresh \in BOOLEAN : WorkspaceSnapshot_build(c, name, refresh)
      BY <1>1, <2>1 DEF plan_command, dev_env_command, WorkspaceSnapshot_build, WarmBegin
    <2>2. CASE shared_fingerprints(c) \/ WarmReturn(c) \/ \E secret \in BOOLEAN : WarmCompute(c, secret)
      BY <1>1, <2>2 DEF shared_fingerprints, WarmReturn, WarmCompute
    <2>3. CASE try_daemon_plan_lookup(c) \/ try_daemon_dev_env_lookup(c) \/ try_daemon_discovery_get(c)
      BY <1>1, <2>3 DEF try_daemon_plan_lookup, try_daemon_dev_env_lookup,
         try_daemon_discovery_get, DaemonGet
    <2>4. CASE try_prepared_plan_cache(c) \/ lookup_dev_env_snapshot(c) \/ load_cached_workspace(c)
      BY <1>1, <2>4 DEF try_prepared_plan_cache, lookup_dev_env_snapshot, load_cached_workspace,
         DiskGet
    <2>5. CASE \/ store_prepared_plan_cache_with_version(c) \/ persist_dev_env_snapshot(c)
               \/ store_cached_workspace(c)
      BY <1>2, <2>5 DEF store_prepared_plan_cache_with_version, persist_dev_env_snapshot,
         store_cached_workspace
    <2>6. CASE \/ try_daemon_plan_store(c) \/ try_daemon_dev_env_store(c)
               \/ try_daemon_discovery_put(c)
      BY <1>3, <2>6 DEF try_daemon_plan_store, try_daemon_dev_env_store, try_daemon_discovery_put
    <2> QED
      BY <1>5, <2>1, <2>2, <2>3, <2>4, <2>5, <2>6 DEF WarmClient
  <1>6. ASSUME NEW t \in Trees, EditTree(t) PROVE NoSecretRetained'
    BY <1>1, <1>6 DEF EditTree
  <1>7. CASE discovery_invalidate \/ plan_invalidate \/ dev_env_invalidate \/ DaemonUpDown \/ DiskDrop
    BY <1>1, <1>7 DEF discovery_invalidate, plan_invalidate, dev_env_invalidate,
       DaemonInvalidate, DaemonUpDown, DiskDrop
  <1> QED
    BY <1>4, <1>5, <1>6, <1>7 DEF WarmNext

(* plan_contains_secret_values, snapshot_contains_secret_values: on every  *)
(* path to nxrd's maps and to the cache directory.                         *)
THEOREM SecretsNotRetained == WarmSpec => []NoSecretRetained
  <1>1. WarmInit => NoSecretRetained
    BY DEF WarmInit, NoSecretRetained
  <1> QED
    BY <1>1, SecretStep, PTL DEF WarmSpec

-----------------------------------------------------------------------------
(* Workspace outputs                                                       *)

CasSimple == [pc : {"idle", "execute", "crashed", "restore_failed"}]

CasRestoring ==
    [pc : {"manifest", "restore", "hit"}, todo : SUBSET CasOutputs, listed : SUBSET CasOutputs,
     disturbed : BOOLEAN, seen : CasRuns]

CasSaving ==
    [pc : {"stage", "lock", "trash", "rename", "saved", "save_failed"}, made : SUBSET CasOutputs]

CasLayers == {Stale} \cup (CasRuns \X BOOLEAN)

CasTypeOK ==
    /\ entry \in CasRuns \cup {NoEntry}
    /\ data \in [CasRuns -> SUBSET CasOutputs]
    /\ manifest \in [CasRuns -> SUBSET CasOutputs]
    /\ damaged \in [CasRuns -> SUBSET CasOutputs]
    /\ run \in [CasRuns -> CasSimple \cup CasRestoring \cup CasSaving]
    /\ workspace \in [CasRuns -> [CasOutputs -> SUBSET CasLayers]]

(* Everything the manifest of an entry lists is there and undamaged.       *)
EntryWhole(e) ==
    e # NoEntry /\ \A o \in manifest[e] : o \in data[e] /\ o \notin damaged[e]

(* How far a restoration x has come in a workspace w: what is to be copied *)
(* is still as it was, and the rest is as it has to be in the end.         *)
Progress(x, w) ==
    /\ x.pc = "restore" => x.listed = manifest[x.seen]
    /\ x.pc = "hit" => x.todo = {}
    /\ x.todo \subseteq ToWrite
    /\ CasOutputs \ OptionalOutputs \subseteq manifest[x.seen]
    /\ \A o \in CasOutputs :
          w[o] = IF o \in x.todo THEN {Stale} ELSE AfterRestore(x.seen, o)

(* A restoration copies from an entry whose run has saved it, so that its  *)
(* manifest is settled; while nobody disturbs it the entry is the one that *)
(* was looked up.                                                          *)
RestoreSound(r) ==
    run[r].pc \in {"manifest", "restore", "hit"} =>
        /\ run[run[r].seen].pc = "saved"
        /\ ~ run[r].disturbed =>
              /\ run[r].pc # "hit" => entry = run[r].seen /\ EntryWhole(run[r].seen)
              /\ Progress(run[r], workspace[r])

CasSound ==
    /\ entry # NoEntry => run[entry].pc = "saved"
    /\ \A r \in CasRuns : run[r].pc = "idle" => \A o \in CasOutputs : workspace[r][o] = {Stale}
    /\ \A r \in CasRuns : RestoreSound(r)

CasInv == CasTypeOK /\ CasSound

(* What every step keeps of a run that has saved its outputs.              *)
SavedKept ==
    \A e \in CasRuns : run[e].pc = "saved" => run'[e].pc = "saved" /\ manifest'[e] = manifest[e]

(* What makes a restoration sound after a step.                            *)
LEMMA SoundAfter ==
    ASSUME cas_mode' = cas_mode, NEW r \in CasRuns, NEW x, NEW w,
           run'[r] = x, workspace'[r] = w, manifest'[x.seen] = manifest[x.seen],
           run'[x.seen].pc = "saved",
           ~ x.disturbed => Progress(x, w),
           ~ x.disturbed /\ x.pc # "hit" =>
              /\ entry' = x.seen /\ x.seen # NoEntry
              /\ \A o \in manifest[x.seen] : o \in data'[x.seen] /\ o \notin damaged'[x.seen]
    PROVE  RestoreSound(r)'
  <1>1. ToWrite' = ToWrite
    BY DEF ToWrite
  <1>2. ASSUME NEW o
        PROVE  (IF o \notin ToWrite' \/ o \notin manifest'[x.seen] THEN {Stale}
                ELSE IF cas_mode'[o] = "Merge" /\ o \in CasTrees THEN {Stale, <<x.seen, FALSE>>}
                ELSE {<<x.seen, FALSE>>}) = AfterRestore(x.seen, o)
    BY <1>1 DEF AfterRestore, Overlays
  <1>3. ~ x.disturbed => Progress(x, w)'
    BY <1>1, <1>2 DEF Progress, AfterRestore, Overlays
  <1> QED
    BY <1>3 DEF RestoreSound, EntryWhole, Progress

(* A run and the entry it restores from are left alone ...                 *)
LEMMA RestoreKept ==
    ASSUME CasInv, SavedKept, cas_mode' = cas_mode, NEW r \in CasRuns,
           run'[r] = run[r], workspace'[r] = workspace[r],
           run[r].pc \in {"manifest", "restore"} =>
              /\ entry' = entry /\ data'[run[r].seen] = data[run[r].seen]
              /\ damaged'[run[r].seen] = damaged[run[r].seen]
    PROVE  RestoreSound(r)'
  <1> SUFFICES ASSUME run[r].pc \in {"manifest", "restore", "hit"} PROVE RestoreSound(r)'
    BY DEF RestoreSound
  <1>1. PICK x \in CasRestoring : x = run[r]
    BY DEF CasInv, CasTypeOK, CasSimple, CasSaving
  <1>2. x.seen \in CasRuns /\ RestoreSound(r) /\ x.pc \in {"manifest", "restore", "hit"}
    BY DEF CasRestoring, CasInv, CasSound
  <1>3. run[x.seen].pc = "saved"
    BY <1>1, <1>2 DEF RestoreSound
  <1>4. run'[x.seen].pc = "saved" /\ manifest'[x.seen] = manifest[x.seen]
    BY <1>2, <1>3 DEF SavedKept
  <1>5. ~ x.disturbed => Progress(x, workspace[r])
    BY <1>1, <1>2 DEF RestoreSound
  <1>6. ~ x.disturbed /\ x.pc # "hit" => entry = x.seen /\ EntryWhole(x.seen)
    BY <1>1, <1>2 DEF RestoreSound
  <1>7. ~ x.disturbed /\ x.pc # "hit" =>
           /\ entry' = x.seen /\ x.seen # NoEntry
           /\ \A o \in manifest[x.seen] : o \in data'[x.seen] /\ o \notin damaged'[x.seen]
    BY <1>1, <1>2, <1>6 DEF EntryWhole
  <1> QED
    BY <1>1, <1>4, <1>5, <1>7, SoundAfter

(* ... or the run learns that its entry has changed.                       *)
LEMMA RestoreDisturbed ==
    ASSUME CasInv, SavedKept, cas_mode' = cas_mode, NEW r \in CasRuns,
           run'[r] = Disturb(run)[r], workspace'[r] = workspace[r]
    PROVE  RestoreSound(r)'
  <1>1. CASE run[r].pc \notin {"manifest", "restore"}
    <2>1. run'[r] = run[r]
      BY <1>1 DEF Disturb
    <2> QED
      BY <1>1, <2>1, RestoreKept
  <1>2. CASE run[r].pc \in {"manifest", "restore"}
    <2>1. PICK x \in CasRestoring : x = run[r]
      BY <1>2 DEF CasInv, CasTypeOK, CasSimple, CasSaving
    <2>2. PICK y : y = [x EXCEPT !.disturbed = TRUE]
      OBVIOUS
    <2>3. run'[r] = y /\ y.disturbed = TRUE /\ y.seen = x.seen /\ x.seen \in CasRuns
      BY <1>2, <2>1, <2>2 DEF Disturb, CasRestoring
    <2>4. run[x.seen].pc = "saved"
      BY <1>2, <2>1 DEF CasInv, CasSound, RestoreSound
    <2>5. run'[x.seen].pc = "saved"
      BY <2>3, <2>4 DEF SavedKept
    <2> QED
      BY <2>3, <2>5 DEF RestoreSound
  <1> QED
    BY <1>1, <1>2

(* What Disturb leaves of a function of runs.                              *)
LEMMA DisturbedRuns ==
    ASSUME CasTypeOK
    PROVE  /\ Disturb(run) \in [CasRuns -> CasSimple \cup CasRestoring \cup CasSaving]
           /\ \A r \in CasRuns : Disturb(run)[r].pc = run[r].pc
           /\ \A r \in CasRuns : run[r].pc \notin {"manifest", "restore"} => Disturb(run)[r] = run[r]
  <1>1. ASSUME NEW r \in CasRuns
        PROVE  /\ Disturb(run)[r] \in CasSimple \cup CasRestoring \cup CasSaving
               /\ Disturb(run)[r].pc = run[r].pc
               /\ run[r].pc \notin {"manifest", "restore"} => Disturb(run)[r] = run[r]
    <2>1. CASE run[r].pc \notin {"manifest", "restore"}
      BY <2>1 DEF Disturb, CasTypeOK
    <2>2. CASE run[r].pc \in {"manifest", "restore"}
      <3>1. PICK x \in CasRestoring : x = run[r]
        BY <2>2 DEF CasTypeOK, CasSimple, CasSaving
      <3>2. PICK y : y = [x EXCEPT !.disturbed = TRUE]
        OBVIOUS
      <3>3. y \in CasRestoring /\ y.pc = x.pc
        BY <3>2 DEF CasRestoring
      <3>4. Disturb(run)[r] = y
        BY <2>2, <3>1, <3>2 DEF Disturb
      <3> QED
        BY <2>2, <3>1, <3>3, <3>4
    <2> QED
      BY <2>1, <2>2
  <1>2. Disturb(run) = [r \in CasRuns |-> Disturb(run)[r]]
    BY DEF Disturb
  <1> QED
    BY <1>1, <1>2, Zenon

(* No run has saved anything at first.                                     *)
LEMMA CasStart == CasInit => CasInv
  <1> SUFFICES ASSUME CasInit PROVE CasInv
    OBVIOUS
  <1>1. CasTypeOK
    BY DEF CasInit, CasTypeOK, CasIdle, CasSimple, CasLayers
  <1>2. CasSound
    BY DEF CasInit, CasSound, RestoreSound, CasIdle
  <1> QED
    BY <1>1, <1>2 DEF CasInv

(* A run looks its entry up, and either restores it or executes.           *)
LEMMA LookupSound ==
    ASSUME CasInv, cas_mode' = cas_mode, NEW r \in CasRuns, restore_outputs(r)
    PROVE  CasInv'
  <1> USE DEF CasInv
  <1>1. /\ run[r].pc = "idle" /\ UNCHANGED <<entry, data, manifest, damaged, workspace>>
    BY DEF restore_outputs
  <1>2. PICK x : /\ run' = [run EXCEPT ![r] = x]
                 /\ x = IF lookup_outputs(entry, CasOutputs)
                        THEN [pc |-> IF ToWrite = {} THEN "hit" ELSE "manifest",
                              todo |-> ToWrite, listed |-> {}, disturbed |-> FALSE, seen |-> entry]
                        ELSE [pc |-> "execute"]
    BY DEF restore_outputs
  <1>3. CASE lookup_outputs(entry, CasOutputs)
    <2>1. /\ entry \in CasRuns /\ run[entry].pc = "saved" /\ entry # r /\ entry # NoEntry
          /\ EntryWhole(entry) /\ CasOutputs \ OptionalOutputs \subseteq manifest[entry]
      BY <1>1, <1>3 DEF lookup_outputs, CasTypeOK, CasSound, EntryWhole
    <2>2. ToWrite \subseteq CasOutputs
      BY DEF ToWrite
    <2>3. /\ x \in CasRestoring /\ x.pc \in {"manifest", "hit"} /\ x.todo = ToWrite
          /\ x.seen = entry /\ (x.pc = "hit" => x.todo = {})
      BY <1>2, <1>3, <2>1, <2>2 DEF CasRestoring
    <2>4. CasTypeOK' /\ run'[r] = x /\ \A k \in CasRuns \ {r} : run'[k] = run[k]
      BY <1>1, <1>2, <2>3 DEF CasTypeOK
    <2>5. SavedKept
      BY <1>1, <2>4 DEF SavedKept
    <2>6. RestoreSound(r)'
      <3>1. \A o \in CasOutputs : workspace[r][o] = {Stale}
        BY <1>1 DEF CasSound
      <3>2. Progress(x, workspace[r])
        BY <2>1, <2>3, <3>1 DEF Progress, AfterRestore
      <3>3. run'[x.seen].pc = "saved" /\ manifest'[x.seen] = manifest[x.seen]
        BY <1>1, <2>1, <2>3, <2>5 DEF SavedKept
      <3>4. /\ entry' = x.seen /\ x.seen # NoEntry
            /\ \A o \in manifest[x.seen] : o \in data'[x.seen] /\ o \notin damaged'[x.seen]
        BY <1>1, <2>1, <2>3 DEF EntryWhole
      <3> QED
        BY <1>1, <2>4, <3>2, <3>3, <3>4, SoundAfter
    <2>7. ASSUME NEW k \in CasRuns, k # r PROVE RestoreSound(k)'
      BY <1>1, <2>4, <2>5, <2>7, RestoreKept
    <2> QED
      BY <1>1, <2>3, <2>4, <2>1, <2>6, <2>7 DEF CasSound
  <1>4. CASE ~ lookup_outputs(entry, CasOutputs)
    <2>1. x \in CasSimple /\ x.pc = "execute"
      BY <1>2, <1>4 DEF CasSimple
    <2>2. CasTypeOK' /\ run'[r] = x /\ \A k \in CasRuns \ {r} : run'[k] = run[k]
      BY <1>1, <1>2, <2>1 DEF CasTypeOK
    <2>3. SavedKept
      BY <1>1, <2>2 DEF SavedKept
    <2>4. RestoreSound(r)'
      BY <2>1, <2>2 DEF RestoreSound
    <2>5. ASSUME NEW k \in CasRuns, k # r PROVE RestoreSound(k)'
      BY <1>1, <2>2, <2>3, <2>5, RestoreKept
    <2> QED
      BY <1>1, <2>1, <2>2, <2>3, <2>4, <2>5 DEF CasSound, CasTypeOK, SavedKept
  <1> QED
    BY <1>3, <1>4

(* A restoring run goes to a state of it that is sound.                    *)
LEMMA RestoringMoves ==
    ASSUME CasInv, cas_mode' = cas_mode, NEW r \in CasRuns,
           run[r].pc \in {"manifest", "restore"}, NEW x, x.pc # "idle",
           run' = [run EXCEPT ![r] = x], x \in CasSimple \cup CasRestoring,
           UNCHANGED <<entry, data, manifest, damaged>>,
           workspace' \in [CasRuns -> [CasOutputs -> SUBSET CasLayers]],
           \A k \in CasRuns \ {r} : workspace'[k] = workspace[k],
           x \in CasRestoring =>
              /\ x.seen = run[r].seen /\ (x.disturbed = run[r].disturbed)
              /\ (~ x.disturbed => Progress(x, workspace'[r]))
    PROVE  CasInv'
  <1> USE DEF CasInv
  <1>1. /\ run'[r] = x /\ \A k \in CasRuns \ {r} : run'[k] = run[k]
        /\ run' \in [CasRuns -> CasSimple \cup CasRestoring \cup CasSaving]
    BY DEF CasTypeOK
  <1>2. CasTypeOK'
    BY <1>1 DEF CasTypeOK
  <1>3. SavedKept
    BY <1>1 DEF SavedKept
  <1>4. RestoreSound(r)'
    <2>1. CASE x \in CasSimple
      BY <1>1, <2>1 DEF RestoreSound, CasSimple
    <2>2. CASE x \in CasRestoring
      <3>1. x.seen \in CasRuns /\ x.seen = run[r].seen /\ RestoreSound(r)
        BY <2>2 DEF CasRestoring, CasSound
      <3>2. run[x.seen].pc = "saved"
        BY <3>1 DEF RestoreSound
      <3>3. run'[x.seen].pc = "saved" /\ manifest'[x.seen] = manifest[x.seen]
        BY <1>3, <3>1, <3>2 DEF SavedKept
      <3>4. ~ x.disturbed => entry = x.seen /\ EntryWhole(x.seen)
        BY <2>2, <3>1 DEF RestoreSound
      <3>5. ~ x.disturbed /\ x.pc # "hit" =>
               /\ entry' = x.seen /\ x.seen # NoEntry
               /\ \A o \in manifest[x.seen] : o \in data'[x.seen] /\ o \notin damaged'[x.seen]
        BY <3>4 DEF EntryWhole
      <3> QED
        BY <1>1, <2>2, <3>3, <3>5, SoundAfter
    <2> QED
      BY <2>1, <2>2
  <1>5. ASSUME NEW k \in CasRuns, k # r PROVE RestoreSound(k)'
    BY <1>1, <1>3, <1>5, RestoreKept
  <1> QED
    BY <1>1, <1>2, <1>3, <1>4, <1>5 DEF CasSound, CasTypeOK, SavedKept

(* The manifest is read again, and it is the entry's that was looked up.   *)
LEMMA ManifestSound ==
    ASSUME CasInv, cas_mode' = cas_mode, NEW r \in CasRuns, read_manifest(r)
    PROVE  CasInv'
  <1> USE DEF CasInv
  <1>1. /\ run[r].pc = "manifest" /\ UNCHANGED <<entry, data, manifest, damaged, workspace>>
        /\ workspace' \in [CasRuns -> [CasOutputs -> SUBSET CasLayers]]
        /\ \A k \in CasRuns \ {r} : workspace'[k] = workspace[k]
    BY DEF read_manifest, CasTypeOK
  <1>2. PICK m \in CasRestoring : m = run[r]
    BY <1>1 DEF CasTypeOK, CasSimple, CasSaving
  <1>3. CASE entry = NoEntry
    <2>1. PICK x : x = [pc |-> "restore_failed"]
      OBVIOUS
    <2>2. x \in CasSimple /\ x.pc # "idle" /\ x \notin CasRestoring
      BY <2>1 DEF CasSimple, CasRestoring
    <2>3. run' = [run EXCEPT ![r] = x]
      BY <1>3, <2>1 DEF read_manifest
    <2> QED
      BY <1>1, <2>2, <2>3, RestoringMoves
  <1>4. CASE entry # NoEntry
    <2>1. PICK x : x = [m EXCEPT !.pc = "restore", !.listed = manifest[entry]]
      OBVIOUS
    <2>2. entry \in CasRuns /\ manifest[entry] \in SUBSET CasOutputs
      BY <1>4 DEF CasTypeOK
    <2>3. /\ x \in CasRestoring /\ x.pc = "restore" /\ x.listed = manifest[entry]
          /\ x.todo = m.todo /\ x.disturbed = m.disturbed /\ x.seen = m.seen
      BY <2>1, <2>2 DEF CasRestoring
    <2>4. run' = [run EXCEPT ![r] = x]
      BY <1>2, <1>4, <2>1 DEF read_manifest, CasTypeOK
    <2>5. ~ x.disturbed => Progress(x, workspace'[r])
      <3>1. ~ m.disturbed => entry = m.seen /\ Progress(m, workspace[r])
        BY <1>1, <1>2 DEF CasSound, RestoreSound
      <3> QED
        BY <1>1, <2>3, <3>1 DEF Progress
    <2> QED
      BY <1>1, <1>2, <2>3, <2>4, <2>5, RestoringMoves
  <1> QED
    BY <1>3, <1>4

(* One output is copied out of the entry.                                  *)
LEMMA CopySound ==
    ASSUME CasInv, cas_mode' = cas_mode, NEW r \in CasRuns, NEW o \in CasOutputs,
           restore_output(r, o)
    PROVE  CasInv'
  <1> USE DEF CasInv
  <1> DEFINE copied == o \in run[r].listed /\ entry # NoEntry /\ o \in data[entry]
             layers == (IF Overlays(o) THEN workspace[r][o] ELSE {})
                          \cup {<<entry, o \in damaged[entry]>>}
  <1>1. /\ run[r].pc = "restore" /\ o \in run[r].todo
        /\ UNCHANGED <<entry, data, manifest, damaged>>
        /\ workspace' = IF copied THEN [workspace EXCEPT ![r][o] = layers] ELSE workspace
    BY DEF restore_output, CasTypeOK
  <1>2. PICK m \in CasRestoring : m = run[r]
    BY <1>1 DEF CasTypeOK, CasSimple, CasSaving
  <1>3. PICK x : x = [m EXCEPT !.todo = @ \ {o}]
    OBVIOUS
  <1>4. /\ x \in CasRestoring /\ x.pc = m.pc /\ x.disturbed = m.disturbed /\ x.seen = m.seen
        /\ x.todo = m.todo \ {o} /\ x.listed = m.listed /\ m.seen \in CasRuns
    BY <1>3 DEF CasRestoring
  <1>5. run' = [run EXCEPT ![r] = x]
    BY <1>2, <1>3 DEF restore_output, CasTypeOK
  <1>6. copied => layers \in SUBSET CasLayers
    <2> SUFFICES ASSUME copied PROVE <<entry, o \in damaged[entry]>> \in CasRuns \X BOOLEAN
      BY DEF CasTypeOK, CasLayers
    <2>1. entry \in CasRuns
      BY DEF CasTypeOK
    <2>2. (o \in damaged[entry]) = TRUE \/ (o \in damaged[entry]) = FALSE
      OBVIOUS
    <2> QED
      BY <2>1, <2>2
  <1>7. /\ workspace' \in [CasRuns -> [CasOutputs -> SUBSET CasLayers]]
        /\ \A k \in CasRuns \ {r} : workspace'[k] = workspace[k]
        /\ \A p \in CasOutputs \ {o} : workspace'[r][p] = workspace[r][p]
        /\ workspace'[r][o] = IF copied THEN layers ELSE workspace[r][o]
    <2> HIDE DEF copied, layers
    <2> QED
      BY <1>1, <1>6 DEF CasTypeOK
  <1>8. ~ x.disturbed => Progress(x, workspace'[r])
    <2> SUFFICES ASSUME ~ x.disturbed PROVE Progress(x, workspace'[r])
      OBVIOUS
    <2>1. entry = m.seen /\ EntryWhole(m.seen) /\ Progress(m, workspace[r]) /\ m.pc = "restore"
      BY <1>1, <1>2, <1>4 DEF CasSound, RestoreSound
    <2>2. /\ m.listed = manifest[m.seen] /\ o \in ToWrite /\ workspace[r][o] = {Stale}
      BY <1>1, <1>2, <2>1 DEF Progress
    <2>3. workspace'[r][o] = AfterRestore(m.seen, o)
      <3>1. CASE o \in manifest[m.seen]
        <4>1. copied /\ (o \in damaged[entry]) = FALSE
          BY <1>2, <2>1, <2>2, <3>1 DEF EntryWhole
        <4> QED
          BY <1>7, <2>1, <2>2, <3>1, <4>1 DEF AfterRestore
      <3>2. CASE o \notin manifest[m.seen]
        BY <1>2, <1>7, <2>2, <3>2 DEF AfterRestore
      <3> QED
        BY <3>1, <3>2
    <2>4. ASSUME NEW p \in CasOutputs
          PROVE  workspace'[r][p] = IF p \in x.todo THEN {Stale} ELSE AfterRestore(x.seen, p)
      BY <1>4, <1>7, <2>1, <2>3 DEF Progress
    <2> QED
      BY <1>4, <2>1, <2>4 DEF Progress
  <1> QED
    BY <1>1, <1>2, <1>4, <1>5, <1>7, <1>8, RestoringMoves

(* A run goes on that is not restoring and has not saved: nothing that     *)
(* others rely on changes.                                                 *)
LEMMA QuietStep ==
    ASSUME CasInv, NEW r \in CasRuns, run[r].pc \notin {"saved", "restore", "hit"},
           cas_mode' = cas_mode,
           NEW x \in CasSimple \cup CasSaving, x.pc # "idle", run' = [run EXCEPT ![r] = x],
           entry' = entry, damaged' = damaged,
           data' \in [CasRuns -> SUBSET CasOutputs],
           manifest' \in [CasRuns -> SUBSET CasOutputs],
           workspace' \in [CasRuns -> [CasOutputs -> SUBSET CasLayers]],
           \A k \in CasRuns \ {r} : /\ data'[k] = data[k] /\ manifest'[k] = manifest[k]
                                    /\ workspace'[k] = workspace[k]
    PROVE  CasInv'
  <1> USE DEF CasInv
  <1>1. run'[r] = x /\ \A k \in CasRuns \ {r} : run'[k] = run[k]
    BY DEF CasTypeOK
  <1>2. CasTypeOK'
    BY DEF CasTypeOK
  <1>3. SavedKept
    BY <1>1 DEF SavedKept
  <1>4. RestoreSound(r)'
    BY <1>1 DEF RestoreSound, CasSimple, CasSaving
  <1>5. ASSUME NEW k \in CasRuns, k # r PROVE RestoreSound(k)'
    <2>1. run[k].pc \in {"manifest", "restore"} => run[k].seen \in CasRuns /\ run[k].seen # r
      <3> SUFFICES ASSUME run[k].pc \in {"manifest", "restore"} PROVE run[k].seen \in CasRuns /\ run[k].seen # r
        OBVIOUS
      <3>1. run[k] \in CasRestoring
        BY DEF CasTypeOK, CasSimple, CasSaving
      <3>2. run[k].seen \in CasRuns
        BY <3>1 DEF CasRestoring
      <3> QED
        BY <3>2 DEF CasSound, RestoreSound
    <2> QED
      BY <1>1, <1>3, <1>5, <2>1, RestoreKept
  <1> QED
    BY <1>2, <1>3, <1>4, <1>5 DEF CasSound, CasTypeOK, SavedKept

(* A run that found nothing executes.                                      *)
LEMMA ExecuteSound ==
    ASSUME CasInv, cas_mode' = cas_mode, NEW r \in CasRuns, NEW made \in SUBSET CasOutputs,
           CasExecute(r, made)
    PROVE  CasInv'
  <1> PICK x : x = [pc |-> "stage", made |-> made]
    OBVIOUS
  <1>1. x \in CasSaving /\ x.pc # "idle"
    BY DEF CasSaving
  <1>2. PICK w : w = [o \in CasOutputs |-> IF o \in made THEN {<<r, FALSE>>} ELSE {}]
    OBVIOUS
  <1>3. w \in [CasOutputs -> SUBSET CasLayers]
    <2>1. <<r, FALSE>> \in CasLayers
      BY DEF CasLayers
    <2> QED
      BY <1>2, <2>1
  <1>4. /\ run' = [run EXCEPT ![r] = x] /\ workspace' = [workspace EXCEPT ![r] = w]
        /\ run[r].pc = "execute" /\ UNCHANGED <<entry, data, manifest, damaged>>
    BY <1>2 DEF CasExecute
  <1>5. /\ workspace' \in [CasRuns -> [CasOutputs -> SUBSET CasLayers]]
        /\ \A k \in CasRuns \ {r} : workspace'[k] = workspace[k]
    BY <1>3, <1>4 DEF CasInv, CasTypeOK
  <1> QED
    BY <1>1, <1>4, <1>5, QuietStep DEF CasInv, CasTypeOK

(* A saving run goes to another of its places.                             *)
LEMMA SavingMoves ==
    ASSUME CasInv, NEW r \in CasRuns, run[r].pc \in {"stage", "lock", "trash", "rename"},
           NEW pc \in {"lock", "trash", "rename", "saved", "save_failed"},
           NEW x, x = [run[r] EXCEPT !.pc = pc]
    PROVE  x \in CasSaving /\ x.pc = pc /\ x.made = run[r].made /\ run[r].made \in SUBSET CasOutputs
  <1>1. run[r] \in CasSaving
    BY DEF CasInv, CasTypeOK, CasSimple, CasRestoring
  <1> QED
    BY <1>1 DEF CasSaving

(* The outputs are staged in a directory of the run's own.                 *)
LEMMA StageOutputsSound ==
    ASSUME CasInv, cas_mode' = cas_mode, NEW r \in CasRuns, save_outputs(r)
    PROVE  CasInv'
  <1>1. PICK x : x = [run[r] EXCEPT !.pc = "lock"]
    OBVIOUS
  <1>2. x \in CasSaving /\ x.pc # "idle" /\ run[r].made \in SUBSET CasOutputs /\ run[r].pc = "stage"
    BY <1>1, SavingMoves DEF save_outputs
  <1>3. PICK made \in SUBSET CasOutputs : made = run[r].made
    BY <1>2
  <1>4. /\ run' = [run EXCEPT ![r] = x] /\ UNCHANGED <<entry, damaged, workspace>>
        /\ data' = [data EXCEPT ![r] = made] /\ manifest' = [manifest EXCEPT ![r] = made]
    BY <1>1, <1>3 DEF save_outputs, CasGoto, CasInv, CasTypeOK
  <1>5. /\ data' \in [CasRuns -> SUBSET CasOutputs] /\ manifest' \in [CasRuns -> SUBSET CasOutputs]
        /\ \A k \in CasRuns \ {r} : data'[k] = data[k] /\ manifest'[k] = manifest[k]
    BY <1>4 DEF CasInv, CasTypeOK
  <1> QED
    BY <1>2, <1>4, <1>5, QuietStep DEF CasInv, CasTypeOK

(* The lock of the entry is taken.                                         *)
LEMMA LockSound ==
    ASSUME CasInv, cas_mode' = cas_mode, NEW r \in CasRuns, publish_entry_lock(r)
    PROVE  CasInv'
  <1>1. PICK x : x = [run[r] EXCEPT !.pc = "trash"]
    OBVIOUS
  <1>2. x \in CasSaving /\ x.pc # "idle" /\ run[r].pc = "lock"
    BY <1>1, SavingMoves DEF publish_entry_lock
  <1>3. run' = [run EXCEPT ![r] = x] /\ UNCHANGED <<entry, data, manifest, damaged, workspace>>
    BY <1>1 DEF publish_entry_lock, CasGoto, CasInv, CasTypeOK
  <1> QED
    BY <1>2, <1>3, QuietStep DEF CasInv, CasTypeOK

(* A run dies.                                                             *)
LEMMA CasCrashSound ==
    ASSUME CasInv, cas_mode' = cas_mode, NEW r \in CasRuns, CasCrash(r)
    PROVE  CasInv'
  <1> USE DEF CasInv
  <1>1. PICK x : x = [pc |-> "crashed"]
    OBVIOUS
  <1>2. /\ x \in CasSimple /\ x.pc # "idle" /\ run' = [run EXCEPT ![r] = x]
        /\ UNCHANGED <<entry, data, manifest, damaged, workspace>>
        /\ run[r].pc \notin {"saved", "hit"}
    BY <1>1 DEF CasCrash, CasSimple
  <1>3. run'[r] = x /\ \A k \in CasRuns \ {r} : run'[k] = run[k]
    BY <1>2 DEF CasTypeOK
  <1>4. CasTypeOK'
    BY <1>2 DEF CasTypeOK
  <1>5. SavedKept
    BY <1>2, <1>3 DEF SavedKept
  <1>6. RestoreSound(r)'
    BY <1>2, <1>3 DEF RestoreSound, CasSimple
  <1>7. ASSUME NEW k \in CasRuns, k # r PROVE RestoreSound(k)'
    BY <1>2, <1>3, <1>5, <1>7, RestoreKept
  <1> QED
    BY <1>2, <1>4, <1>5, <1>6, <1>7 DEF CasSound, CasTypeOK, SavedKept

(* The last output has been copied.                                        *)
LEMMA HitSound ==
    ASSUME CasInv, cas_mode' = cas_mode, NEW r \in CasRuns, restore_hit(r)
    PROVE  CasInv'
  <1> USE DEF CasInv
  <1>1. PICK m \in CasRestoring : m = run[r] /\ m.pc = "restore" /\ m.todo = {}
    BY DEF restore_hit, CasTypeOK, CasSimple, CasSaving
  <1>2. PICK x : x = [m EXCEPT !.pc = "hit"]
    OBVIOUS
  <1>3. /\ x \in CasRestoring /\ x.pc = "hit" /\ x.todo = {} /\ x.disturbed = m.disturbed
        /\ x.seen = m.seen
    BY <1>1, <1>2 DEF CasRestoring
  <1>4. /\ run' = [run EXCEPT ![r] = x] /\ UNCHANGED <<entry, data, manifest, damaged, workspace>>
        /\ workspace' \in [CasRuns -> [CasOutputs -> SUBSET CasLayers]]
        /\ \A k \in CasRuns \ {r} : workspace'[k] = workspace[k]
    BY <1>1, <1>2 DEF restore_hit, CasGoto, CasTypeOK
  <1>5. ~ x.disturbed => Progress(x, workspace'[r])
    <2>1. ~ m.disturbed => Progress(m, workspace[r])
      BY <1>1 DEF CasSound, RestoreSound
    <2> QED
      BY <1>1, <1>3, <1>4, <2>1 DEF Progress
  <1> QED
    BY <1>1, <1>3, <1>4, <1>5, RestoringMoves

(* The entry, or what is in it, changes: whoever restores from it is       *)
(* disturbed.                                                              *)
LEMMA DisturbingStep ==
    ASSUME CasInv, cas_mode' = cas_mode, manifest' = manifest, workspace' = workspace,
           entry' \in CasRuns \cup {NoEntry},
           data' \in [CasRuns -> SUBSET CasOutputs], damaged' \in [CasRuns -> SUBSET CasOutputs],
           run' \in [CasRuns -> CasSimple \cup CasRestoring \cup CasSaving],
           \A k \in CasRuns : \/ run'[k] = Disturb(run)[k]
                              \/ /\ run[k].pc \in {"trash", "rename"}
                                 /\ run'[k].pc \in {"rename", "saved"},
           entry' # NoEntry => run'[entry'].pc = "saved"
    PROVE  CasInv'
  <1>1. CasTypeOK'
    BY DEF CasInv, CasTypeOK
  <1>2. SavedKept
    <2> SUFFICES ASSUME NEW k \in CasRuns, run[k].pc = "saved" PROVE run'[k].pc = "saved"
      BY DEF SavedKept
    <2> QED
      BY DisturbedRuns DEF CasInv
  <1>3. ASSUME NEW k \in CasRuns PROVE RestoreSound(k)'
    <2>1. CASE run'[k] = Disturb(run)[k]
      BY <1>2, <2>1, RestoreDisturbed
    <2>2. CASE run'[k].pc \in {"rename", "saved"}
      BY <2>2 DEF RestoreSound
    <2> QED
      BY <2>1, <2>2
  <1>4. ASSUME NEW k \in CasRuns, run'[k].pc = "idle", NEW o \in CasOutputs
        PROVE  workspace'[k][o] = {Stale}
    <2>1. run[k].pc = "idle"
      BY <1>4, DisturbedRuns DEF CasInv
    <2> QED
      BY <2>1 DEF CasInv, CasSound
  <1> QED
    BY <1>1, <1>3, <1>4 DEF CasInv, CasSound

(* The old entry steps aside for a new one.                                *)
LEMMA TrashSound ==
    ASSUME CasInv, cas_mode' = cas_mode, NEW r \in CasRuns, publish_entry_trash(r)
    PROVE  CasInv'
  <1>1. PICK x : x = [run[r] EXCEPT !.pc = "rename"]
    OBVIOUS
  <1>2. x \in CasSaving /\ x.pc = "rename" /\ run[r].pc = "trash"
    BY <1>1, SavingMoves DEF publish_entry_trash
  <1>3. /\ Disturb(run) \in [CasRuns -> CasSimple \cup CasRestoring \cup CasSaving]
        /\ Disturb(run)[r] = run[r]
    BY <1>2, DisturbedRuns DEF CasInv
  <1>4. PICK f : f = Disturb(run)
    OBVIOUS
  <1>5. run' = [f EXCEPT ![r] = x]
    BY <1>1, <1>3, <1>4 DEF publish_entry_trash
  <1>6. /\ run' \in [CasRuns -> CasSimple \cup CasRestoring \cup CasSaving]
        /\ run'[r] = x /\ \A k \in CasRuns \ {r} : run'[k] = Disturb(run)[k]
    BY <1>2, <1>3, <1>4, <1>5
  <1>7. entry' = NoEntry /\ UNCHANGED <<data, manifest, damaged, workspace>>
    BY DEF publish_entry_trash
  <1> QED
    BY <1>2, <1>6, <1>7, DisturbingStep DEF CasInv, CasTypeOK

(* The staged entry takes the name.                                        *)
LEMMA PublishSound ==
    ASSUME CasInv, cas_mode' = cas_mode, NEW r \in CasRuns, publish_entry_rename(r)
    PROVE  CasInv'
  <1>1. CASE entry = NoEntry
    <2>1. PICK x : x = [run[r] EXCEPT !.pc = "saved"]
      OBVIOUS
    <2>2. x \in CasSaving /\ x.pc = "saved" /\ run[r].pc = "rename"
      BY <2>1, SavingMoves DEF publish_entry_rename
    <2>3. /\ Disturb(run) \in [CasRuns -> CasSimple \cup CasRestoring \cup CasSaving]
          /\ Disturb(run)[r] = run[r]
      BY <2>2, DisturbedRuns DEF CasInv
    <2>4. PICK f : f = Disturb(run)
      OBVIOUS
    <2>5. run' = [f EXCEPT ![r] = x]
      BY <1>1, <2>1, <2>3, <2>4 DEF publish_entry_rename
    <2>6. /\ run' \in [CasRuns -> CasSimple \cup CasRestoring \cup CasSaving]
          /\ run'[r] = x /\ \A k \in CasRuns \ {r} : run'[k] = Disturb(run)[k]
      BY <2>2, <2>3, <2>4, <2>5
    <2>7. entry' = r /\ UNCHANGED <<data, manifest, damaged, workspace>>
      BY <1>1 DEF publish_entry_rename
    <2> QED
      BY <2>2, <2>6, <2>7, DisturbingStep DEF CasInv, CasTypeOK
  <1>2. CASE entry # NoEntry
    <2>1. PICK x : x = [run[r] EXCEPT !.pc = "save_failed"]
      OBVIOUS
    <2>2. x \in CasSaving /\ x.pc # "idle" /\ run[r].pc = "rename"
      BY <2>1, SavingMoves DEF publish_entry_rename
    <2>3. run' = [run EXCEPT ![r] = x] /\ UNCHANGED <<entry, data, manifest, damaged, workspace>>
      BY <1>2, <2>1 DEF publish_entry_rename, CasGoto, CasInv, CasTypeOK
    <2> QED
      BY <2>2, <2>3, QuietStep DEF CasInv, CasTypeOK
  <1> QED
    BY <1>1, <1>2

(* The store is cleared.                                                   *)
LEMMA ClearCasSound ==
    ASSUME CasInv, cas_mode' = cas_mode, NEW gone \in SUBSET CasOutputs, clear_workspace_cas(gone)
    PROVE  CasInv'
  <1>1. /\ entry # NoEntry /\ entry \in CasRuns /\ run' = Disturb(run)
        /\ UNCHANGED <<manifest, damaged, workspace>>
        /\ data' \in [CasRuns -> SUBSET CasOutputs]
        /\ entry' \in {NoEntry, entry}
    BY DEF clear_workspace_cas, CasInv, CasTypeOK
  <1>2. run[entry].pc = "saved"
    BY <1>1 DEF CasInv, CasSound
  <1>3. /\ run' \in [CasRuns -> CasSimple \cup CasRestoring \cup CasSaving]
        /\ \A k \in CasRuns : run'[k] = Disturb(run)[k]
        /\ run'[entry].pc = "saved"
    BY <1>1, <1>2, DisturbedRuns DEF CasInv
  <1> QED
    BY <1>1, <1>3, DisturbingStep DEF CasInv, CasTypeOK

(* An output of an entry is damaged.                                       *)
LEMMA DamageSound ==
    ASSUME CasInv, cas_mode' = cas_mode, NEW o \in CasOutputs, CasDamage(o)
    PROVE  CasInv'
  <1>1. /\ entry # NoEntry /\ entry \in CasRuns /\ run' = Disturb(run)
        /\ UNCHANGED <<entry, data, manifest, workspace>>
        /\ damaged' \in [CasRuns -> SUBSET CasOutputs]
    BY DEF CasDamage, CasInv, CasTypeOK
  <1>2. run[entry].pc = "saved"
    BY <1>1 DEF CasInv, CasSound
  <1>3. /\ run' \in [CasRuns -> CasSimple \cup CasRestoring \cup CasSaving]
        /\ \A k \in CasRuns : run'[k] = Disturb(run)[k]
        /\ run'[entry].pc = "saved"
    BY <1>1, <1>2, DisturbedRuns DEF CasInv
  <1> QED
    BY <1>1, <1>3, DisturbingStep DEF CasInv, CasTypeOK

(* Every step keeps the invariant of the store.                            *)
LEMMA CasStep ==
    CasInv /\ [CasNext]_cas_vars => CasInv'
  <1> SUFFICES ASSUME CasInv, [CasNext]_cas_vars PROVE CasInv'
    OBVIOUS
  <1>1. CASE UNCHANGED cas_vars
    <2>1. SavedKept
      BY <1>1 DEF SavedKept, cas_vars
    <2>2. \A r \in CasRuns : RestoreSound(r)'
      BY <1>1, <2>1, RestoreKept DEF cas_vars
    <2> QED
      BY <1>1, <2>2 DEF cas_vars, CasInv, CasTypeOK, CasSound
  <1>2. CASE CasNext
    BY <1>2, LookupSound, ManifestSound, HitSound, CopySound, ExecuteSound, StageOutputsSound, LockSound,
       TrashSound, PublishSound, CasCrashSound, ClearCasSound, DamageSound DEF CasNext
  <1> QED
    BY <1>1, <1>2

(* cas.rs: a node is skipped only if one run had saved every required      *)
(* output; the outputs whose mode writes are then that run's and no        *)
(* other's, merged directories apart, and the rest is left alone, unless   *)
(* the entry changed while it was copied: for any number of runs, outputs, *)
(* modes, clears and damaged files, crashes included.                      *)
THEOREM HitsUndisturbed == CasSpec => []UndisturbedHit
  <1>1. CasInv => UndisturbedHit
    <2> SUFFICES ASSUME CasInv, NEW r \in CasRuns, run[r].pc = "hit", ~ run[r].disturbed
                 PROVE  /\ CasOutputs \ OptionalOutputs \subseteq manifest[run[r].seen]
                        /\ \A o \in CasOutputs : workspace[r][o] = AfterRestore(run[r].seen, o)
      BY DEF UndisturbedHit
    <2>1. Progress(run[r], workspace[r])
      BY DEF CasInv, CasSound, RestoreSound
    <2> QED
      BY <2>1 DEF Progress
  <1> QED
    BY <1>1, CasStart, CasStep, PTL DEF CasSpec

-----------------------------------------------------------------------------
(* One entry on disk                                                       *)

StoringPlaces == {"idle", "open", "lock", "write", "rename", "done"}

StoringWriters == [pc : StoringPlaces, inode : DiskWriters \cup {0}, pos : Nat]

DiskTypeOK ==
    /\ cache \in CacheNames
    /\ len \in [DiskWriters -> Nat]
    /\ names \in [FileNames -> DiskWriters \cup {0}]
    /\ content \in [DiskWriters -> Seq(Nat)]
    /\ flock \in [DiskWriters -> DiskWriters \cup {0}]
    /\ writer \in [DiskWriters -> StoringWriters]
    /\ judged \in DiskWriters \cup {0}
    /\ faults \in BOOLEAN

Opened(w) == writer[w].pc \in {"lock", "write", "rename", "done"}

(* A writer that has opened the file and not yet written it.               *)
Pending(i) == \E w \in DiskWriters : writer[w].pc = "lock" /\ writer[w].inode = i
Writing(i) == \E w \in DiskWriters : writer[w].pc = "write" /\ writer[w].inode = i

SameLength == \A v, w \in DiskWriters : len[v] = len[w]

(* The place of each writer: its file, its lock, and a name for what it    *)
(* writes, which stays until it is the entry's.                            *)
WriterSound(w) ==
    /\ Opened(w) => writer[w].inode \in DiskWriters
    /\ writer[w].pc = "lock" => writer[w].pos = 0
    /\ writer[w].pos <= len[w]
    /\ writer[w].pc = "write" => flock[writer[w].inode] = w
    /\ writer[w].pc \in {"lock", "write", "rename"} =>
          names[TempName(w)] # NoFile \/ names[Entry] # NoFile
    /\ writer[w].pc = "done" => names[Entry] # NoFile

(* The bytes that a writer has written are its own, unless another has     *)
(* truncated the file since then; that one is still to write.              *)
BytesSound(w) ==
    writer[w].pc = "write" /\ ~ Pending(writer[w].inode) =>
        \A q \in 1..writer[w].pos :
            q <= Len(content[writer[w].inode]) /\ content[writer[w].inode][q] = w

InodeSound(i) ==
    /\ \A w \in DiskWriters : Len(content[i]) <= len[w]
    /\ ~ Pending(i) /\ ~ Writing(i) /\ (\E w \in DiskWriters : Opened(w) /\ writer[w].inode = i)
         => Whole(i)

NameSound(n) ==
    names[n] # NoFile => \E w \in DiskWriters : Opened(w) /\ writer[w].inode = names[n]

DiskSound ==
    /\ \A w \in DiskWriters : WriterSound(w) /\ BytesSound(w)
    /\ \A i \in DiskWriters : InodeSound(i)
    /\ \A n \in FileNames : NameSound(n)

DiskInv == DiskTypeOK /\ (~ faults /\ SameLength => DiskSound)

(* A writer's temporary file is one of the names and not the entry's.      *)
LEMMA TempIsAName ==
    \A w \in DiskWriters : TempName(w) \in FileNames /\ TempName(w) # Entry
  BY DEF TempName, FileNames, Entry, SharedTemp, Fixed

(* The entry and the shared temporary file are among the names.            *)
LEMMA EntryIsAName == Entry \in FileNames /\ SharedTemp \in FileNames
  BY DEF FileNames

(* No writer is the hole 0.                                                *)
LEMMA WritersPositive == DiskWriters \subseteq Nat /\ 0 \notin DiskWriters
  BY DiskAssumption

(* A write changes one byte and fills what was missing before it.          *)
LEMMA WriteAtOne ==
    ASSUME NEW s \in Seq(Nat), NEW pos \in Nat \ {0}, NEW w \in Nat
    PROVE  /\ WriteAt(s, pos, w) \in Seq(Nat)
           /\ Len(WriteAt(s, pos, w)) = IF pos > Len(s) THEN pos ELSE Len(s)
           /\ WriteAt(s, pos, w)[pos] = w
           /\ \A q \in 1..Len(s) : q # pos => WriteAt(s, pos, w)[q] = s[q]
<1>1. PICK n \in Nat : n = IF pos > Len(s) THEN pos ELSE Len(s)
  BY LenProperties
<1>2. n >= pos /\ n >= Len(s) /\ Len(s) \in Nat
  BY <1>1, LenProperties
<1>3. WriteAt(s, pos, w) = [p \in 1..n |-> IF p = pos THEN w ELSE IF p <= Len(s) THEN s[p] ELSE 0]
  BY <1>1 DEF WriteAt
<1>4. \A p \in 1..n : (IF p = pos THEN w ELSE IF p <= Len(s) THEN s[p] ELSE 0) \in Nat
  BY <1>2
<1>5. WriteAt(s, pos, w) \in [1..n -> Nat]
  BY <1>3, <1>4
<1>6. WriteAt(s, pos, w) \in Seq(Nat) /\ Len(WriteAt(s, pos, w)) = n
  BY <1>5
<1> QED
  BY <1>1, <1>2, <1>3, <1>6

(* The types are kept by every step, whoever dies and whatever is removed. *)
LEMMA DiskTypes ==
    ASSUME DiskTypeOK, [DiskNext]_disk_vars PROVE DiskTypeOK'
<1> USE DEF Inodes, NoFile
<1>1. ASSUME NEW w \in DiskWriters, LockFile(w) PROVE DiskTypeOK'
  BY <1>1 DEF LockFile, Goto, DiskTypeOK, StoringWriters, StoringPlaces
<1>2. ASSUME NEW w \in DiskWriters, OpenTemp(w) PROVE DiskTypeOK'
  <2>1. names[TempName(w)] \in DiskWriters \cup {0}
    BY TempIsAName DEF DiskTypeOK
  <2>2. PICK i \in DiskWriters : i = IF names[TempName(w)] = NoFile THEN w ELSE names[TempName(w)]
    BY <2>1
  <2>3. /\ names' = [names EXCEPT ![TempName(w)] = i]
        /\ content' = [content EXCEPT ![i] = <<>>]
        /\ writer' = [writer EXCEPT ![w] = [pc |-> "lock", inode |-> i, pos |-> 0]]
        /\ UNCHANGED <<cache, len, flock, outer, judged, faults>>
    BY <1>2, <2>2 DEF OpenTemp
  <2>4. <<>> \in Seq(Nat)
    OBVIOUS
  <2>5. [pc |-> "lock", inode |-> i, pos |-> 0] \in StoringWriters
    BY DEF StoringWriters, StoringPlaces
  <2> QED
    BY <2>3, <2>4, <2>5 DEF DiskTypeOK
<1>3. ASSUME NEW w \in DiskWriters, lock_exclusive(w) PROVE DiskTypeOK'
  BY <1>3 DEF lock_exclusive, Goto, DiskTypeOK, StoringWriters, StoringPlaces
<1>4. ASSUME NEW w \in DiskWriters, write_all(w) PROVE DiskTypeOK'
  <2>1. PICK i \in DiskWriters \cup {0} : i = writer[w].inode
    BY DEF DiskTypeOK, StoringWriters
  <2>2. PICK k \in Nat : k = writer[w].pos
    BY DEF DiskTypeOK, StoringWriters
  <2>3. i \in DiskWriters => WriteAt(content[i], k + 1, w) \in Seq(Nat)
    <3> SUFFICES ASSUME i \in DiskWriters PROVE WriteAt(content[i], k + 1, w) \in Seq(Nat)
      OBVIOUS
    <3>1. content[i] \in Seq(Nat) /\ k + 1 \in Nat \ {0} /\ w \in Nat
      BY WritersPositive DEF DiskTypeOK
    <3> QED
      BY <3>1, WriteAtOne
  <2>4. content' = [content EXCEPT ![i] = WriteAt(content[i], k + 1, w)]
    BY <1>4, <2>1, <2>2 DEF write_all
  <2>5. content' \in [DiskWriters -> Seq(Nat)]
    BY <2>3, <2>4 DEF DiskTypeOK
  <2>6. writer' = [writer EXCEPT ![w] = [writer[w] EXCEPT !.pos = k + 1]]
    BY <1>4, <2>2 DEF write_all, DiskTypeOK
  <2>7. [writer[w] EXCEPT !.pos = k + 1] \in StoringWriters
    <3>1. writer[w] \in StoringWriters /\ k + 1 \in Nat
      BY DEF DiskTypeOK
    <3> QED
      BY <3>1 DEF StoringWriters
  <2>8. writer' \in [DiskWriters -> StoringWriters]
    BY <2>6, <2>7 DEF DiskTypeOK
  <2> QED
    BY <1>4, <2>5, <2>8 DEF write_all, DiskTypeOK
<1>5. ASSUME NEW w \in DiskWriters, CloseTemp(w) PROVE DiskTypeOK'
  BY <1>5 DEF CloseTemp, Goto, DiskTypeOK, StoringWriters, StoringPlaces
<1>6. ASSUME NEW w \in DiskWriters, Rename(w) PROVE DiskTypeOK'
  <2>1. names' \in [FileNames -> DiskWriters \cup {0}]
    BY <1>6, TempIsAName, EntryIsAName DEF Rename, DiskTypeOK
  <2>2. writer' \in [DiskWriters -> StoringWriters]
    BY <1>6 DEF Rename, Goto, DiskTypeOK, StoringWriters, StoringPlaces
  <2> QED
    BY <1>6, <2>1, <2>2 DEF Rename, DiskTypeOK
<1>7. ASSUME NEW w \in DiskWriters, StoreCrash(w) PROVE DiskTypeOK'
  BY <1>7 DEF StoreCrash, Goto, DiskTypeOK, StoringWriters, StoringPlaces
<1>8. CASE prune_tmp
  BY <1>8 DEF prune_tmp, DiskTypeOK
<1>9. CASE prune_read
  BY <1>9, EntryIsAName DEF prune_read, DiskTypeOK
<1>10. CASE prune_remove
  BY <1>10 DEF prune_remove, DiskTypeOK
<1>11. CASE remove_timed_json_entry
  BY <1>11 DEF remove_timed_json_entry, DiskTypeOK
<1>12. CASE UNCHANGED disk_vars
  BY <1>12 DEF disk_vars, DiskTypeOK
<1> QED
  BY <1>1, <1>2, <1>3, <1>4, <1>5, <1>6, <1>7, <1>8, <1>9, <1>10, <1>11, <1>12
  DEF DiskNext, store_prepared_plan, store_store_exe, store_dev_environment_snapshot,
      write_atomically, StoreStep

(* Taking the lock file of discovery changes nothing that is written.      *)
LEMMA LockFileSound ==
    ASSUME DiskTypeOK, DiskSound, NEW w \in DiskWriters, LockFile(w) PROVE DiskSound'
<1>1. writer' = [writer EXCEPT ![w].pc = "open"] /\ writer[w].pc = "idle"
      /\ UNCHANGED <<cache, len, names, content, flock>>
  BY DEF LockFile, Goto, At
<1>2. \A v \in DiskWriters :
         /\ v # w => writer'[v] = writer[v]
         /\ writer'[w].pc = "open" /\ writer'[w].inode = writer[w].inode /\ writer'[w].pos = writer[w].pos
  BY <1>1 DEF DiskTypeOK, StoringWriters
<1>3. \A v \in DiskWriters : Opened(v)' <=> Opened(v)
  BY <1>1, <1>2 DEF Opened
<1>4. \A i \in DiskWriters : (Pending(i)' <=> Pending(i)) /\ (Writing(i)' <=> Writing(i))
  BY <1>1, <1>2 DEF Pending, Writing
<1>5. \A v \in DiskWriters : TempName(v)' = TempName(v)
  BY <1>1 DEF TempName
<1>6. \A v \in DiskWriters : WriterSound(v)'
  BY <1>1, <1>2, <1>3, <1>5 DEF DiskSound, WriterSound
<1>7. \A v \in DiskWriters : BytesSound(v)'
  BY <1>1, <1>2, <1>4 DEF DiskSound, BytesSound, WriterSound, Opened
<1>8. \A i \in DiskWriters : InodeSound(i)'
  BY <1>1, <1>2, <1>3, <1>4 DEF DiskSound, InodeSound, Whole, Opened
<1>9. \A n \in FileNames : NameSound(n)'
  BY <1>1, <1>2, <1>3 DEF DiskSound, NameSound, Opened
<1> QED
  BY <1>6, <1>7, <1>8, <1>9 DEF DiskSound

(* Opening truncates: whoever wrote to that file now waits for a writer.   *)
LEMMA OpenTempSound ==
    ASSUME DiskTypeOK, DiskSound, NEW w \in DiskWriters, OpenTemp(w) PROVE DiskSound'
<1>1. PICK i \in DiskWriters : i = IF names[TempName(w)] = NoFile THEN w ELSE names[TempName(w)]
  BY TempIsAName DEF DiskTypeOK, NoFile
<1>2. /\ names' = [names EXCEPT ![TempName(w)] = i]
      /\ content' = [content EXCEPT ![i] = <<>>]
      /\ writer' = [writer EXCEPT ![w] = [pc |-> "lock", inode |-> i, pos |-> 0]]
      /\ UNCHANGED <<cache, len, flock, outer, judged, faults>>
      /\ ~ Opened(w)
  BY <1>1 DEF OpenTemp, At, Opened
<1>3. /\ \A v \in DiskWriters \ {w} : writer'[v] = writer[v]
      /\ writer'[w].pc = "lock" /\ writer'[w].inode = i /\ writer'[w].pos = 0
  BY <1>2 DEF DiskTypeOK
<1>4. \A v \in DiskWriters : TempName(v)' = TempName(v)
  BY <1>2 DEF TempName
<1>5. /\ \A j \in DiskWriters \ {i} : content'[j] = content[j]
      /\ content'[i] = <<>>
  BY <1>2 DEF DiskTypeOK
<1>6. \A n \in FileNames : names'[n] = IF n = TempName(w) THEN i ELSE names[n]
  BY <1>2 DEF DiskTypeOK
<1>7. \A j \in DiskWriters \ {i} : (Pending(j)' <=> Pending(j)) /\ (Writing(j)' <=> Writing(j))
  BY <1>2, <1>3 DEF Pending, Writing, Opened
<1>8. Pending(i)'
  BY <1>3 DEF Pending
<1>9. \A v \in DiskWriters : WriterSound(v)'
  <2> SUFFICES ASSUME NEW v \in DiskWriters PROVE WriterSound(v)'
    OBVIOUS
  <2>1. \A n \in FileNames : names[n] # NoFile => names'[n] # NoFile
    BY <1>6, WritersPositive DEF NoFile
  <2>2. CASE v = w
    <3>1. names'[TempName(w)] # NoFile
      BY <1>6, TempIsAName, WritersPositive DEF NoFile
    <3>2. 0 <= len[w]
      BY DEF DiskTypeOK
    <3> QED
      BY <2>2, <1>2, <1>3, <1>4, <3>1, <3>2 DEF WriterSound, Opened
  <2>3. CASE v # w
    <3>1. WriterSound(v) /\ writer'[v] = writer[v] /\ len' = len /\ flock' = flock /\ TempName(v)' = TempName(v)
      BY <2>3, <1>2, <1>3, <1>4 DEF DiskSound
    <3>2. TempName(v) \in FileNames /\ Entry \in FileNames
      BY TempIsAName, EntryIsAName
    <3> QED
      BY <3>1, <3>2, <2>1 DEF WriterSound, Opened
  <2> QED
    BY <2>2, <2>3
<1>10. \A v \in DiskWriters : BytesSound(v)'
  <2> SUFFICES ASSUME NEW v \in DiskWriters, writer'[v].pc = "write", writer'[v].inode # i
               PROVE  BytesSound(v)'
    BY <1>8 DEF BytesSound
  <2>1. v # w /\ writer'[v] = writer[v]
    BY <1>3
  <2>2. BytesSound(v) /\ WriterSound(v)
    BY DEF DiskSound
  <2>3. writer[v].inode \in DiskWriters \ {i}
    BY <2>1, <2>2 DEF WriterSound, Opened
  <2> QED
    BY <2>1, <2>2, <2>3, <1>5, <1>7 DEF BytesSound
<1>11. \A j \in DiskWriters : InodeSound(j)'
  <2> SUFFICES ASSUME NEW j \in DiskWriters PROVE InodeSound(j)'
    OBVIOUS
  <2>1. CASE j = i
    <3>1. Len(content'[j]) = 0 /\ \A v \in DiskWriters : len'[v] \in Nat
      BY <2>1, <1>5, <1>2 DEF DiskTypeOK
    <3> QED
      BY <2>1, <3>1, <1>8 DEF InodeSound
  <2>2. CASE j # i
    <3>1. InodeSound(j) /\ content'[j] = content[j] /\ len' = len
      BY <2>2, <1>5, <1>2 DEF DiskSound
    <3>2. Whole(j)' <=> Whole(j)
      BY <3>1 DEF Whole
    <3>3. (\E v \in DiskWriters : Opened(v)' /\ writer'[v].inode = j)
             => \E v \in DiskWriters : Opened(v) /\ writer[v].inode = j
      BY <2>2, <1>3 DEF Opened
    <3> QED
      BY <3>1, <3>2, <3>3, <2>2, <1>7 DEF InodeSound
  <2> QED
    BY <2>1, <2>2
<1>12. \A n \in FileNames : NameSound(n)'
  <2> SUFFICES ASSUME NEW n \in FileNames PROVE NameSound(n)'
    OBVIOUS
  <2>1. CASE n = TempName(w)
    BY <2>1, <1>3, <1>6 DEF NameSound, Opened
  <2>2. CASE n # TempName(w)
    <3>1. NameSound(n) /\ names'[n] = names[n]
      BY <2>2, <1>6 DEF DiskSound
    <3> QED
      BY <3>1, <1>2, <1>3 DEF NameSound, Opened
  <2> QED
    BY <2>1, <2>2
<1> QED
  BY <1>9, <1>10, <1>11, <1>12 DEF DiskSound

(* The lock keeps a second writer of one file out until the first has      *)
(* closed it.                                                              *)
LEMMA LockExclusiveSound ==
    ASSUME DiskTypeOK, DiskSound, NEW w \in DiskWriters, lock_exclusive(w) PROVE DiskSound'
<1>1. WriterSound(w) /\ writer[w].pc = "lock" /\ writer[w] \in StoringWriters
  BY DEF lock_exclusive, At, DiskSound, DiskTypeOK
<1>2. PICK i \in DiskWriters : i = writer[w].inode
  BY <1>1 DEF WriterSound, Opened
<1>3. /\ flock[i] = 0 /\ flock' = [flock EXCEPT ![i] = w]
      /\ writer' = [writer EXCEPT ![w].pc = "write"]
      /\ UNCHANGED <<cache, len, names, content>>
  BY <1>2 DEF lock_exclusive, Goto, MayLock
<1>4. /\ \A v \in DiskWriters \ {w} : writer'[v] = writer[v]
      /\ writer'[w].pc = "write" /\ writer'[w].inode = i /\ writer'[w].pos = 0
  BY <1>1, <1>2, <1>3 DEF WriterSound, StoringWriters, DiskTypeOK
<1>5. \A v \in DiskWriters : TempName(v)' = TempName(v)
  BY <1>3 DEF TempName
<1>6. \A v \in DiskWriters : writer[v].pc = "write" => writer[v].inode \in DiskWriters \ {i}
  BY <1>3, WritersPositive DEF DiskSound, WriterSound, Opened
<1>7. \A v \in DiskWriters : (Opened(v)' <=> Opened(v)) /\ writer'[v].inode = writer[v].inode
  BY <1>1, <1>2, <1>4 DEF Opened
<1>8. \A j \in DiskWriters \ {i} : (Pending(j)' <=> Pending(j)) /\ (Writing(j)' <=> Writing(j))
  BY <1>1, <1>2, <1>4 DEF Pending, Writing
<1>9. Writing(i)'
  BY <1>4 DEF Writing
<1>10. flock'[i] = w /\ \A j \in DiskWriters \ {i} : flock'[j] = flock[j]
  BY <1>3 DEF DiskTypeOK
<1>11. \A v \in DiskWriters : WriterSound(v)'
  <2> SUFFICES ASSUME NEW v \in DiskWriters PROVE WriterSound(v)'
    OBVIOUS
  <2>1. WriterSound(v) /\ len'[v] = len[v] /\ len[v] \in Nat /\ TempName(v)' = TempName(v) /\ names' = names
    BY <1>3, <1>5 DEF DiskSound, DiskTypeOK
  <2>2. CASE v = w
    BY <2>1, <2>2, <1>1, <1>4, <1>10 DEF WriterSound, Opened
  <2>3. CASE v # w
    BY <2>1, <2>3, <1>4, <1>6, <1>10 DEF WriterSound, Opened
  <2> QED
    BY <2>2, <2>3
<1>12. \A v \in DiskWriters : BytesSound(v)'
  <2> SUFFICES ASSUME NEW v \in DiskWriters PROVE BytesSound(v)'
    OBVIOUS
  <2>1. CASE v = w
    BY <2>1, <1>4 DEF BytesSound
  <2>2. CASE v # w
    <3>1. BytesSound(v) /\ writer'[v] = writer[v] /\ content' = content
      BY <2>2, <1>3, <1>4 DEF DiskSound
    <3> QED
      BY <3>1, <1>6, <1>8 DEF BytesSound
  <2> QED
    BY <2>1, <2>2
<1>13. \A j \in DiskWriters : InodeSound(j)'
  <2> SUFFICES ASSUME NEW j \in DiskWriters PROVE InodeSound(j)'
    OBVIOUS
  <2>1. InodeSound(j) /\ content' = content /\ len' = len /\ (Whole(j)' <=> Whole(j))
    BY <1>3 DEF DiskSound, Whole
  <2> QED
    BY <2>1, <1>7, <1>8, <1>9 DEF InodeSound
<1>14. \A n \in FileNames : NameSound(n)'
  BY <1>3, <1>7 DEF DiskSound, NameSound
<1> QED
  BY <1>11, <1>12, <1>13, <1>14 DEF DiskSound

(* A byte is written at the writer's own place, and nobody else writes.    *)
LEMMA WriteAllSound ==
    ASSUME DiskTypeOK, SameLength, DiskSound, NEW w \in DiskWriters, write_all(w)
    PROVE  DiskSound'
<1>1. WriterSound(w) /\ writer[w].pc = "write" /\ writer[w] \in StoringWriters
  BY DEF write_all, At, DiskSound, DiskTypeOK
<1>2. PICK i \in DiskWriters : i = writer[w].inode
  BY <1>1 DEF WriterSound, Opened
<1>3. PICK k \in Nat : k = writer[w].pos
  BY <1>1 DEF StoringWriters
<1>4. /\ content' = [content EXCEPT ![i] = WriteAt(content[i], k + 1, w)]
      /\ writer' = [writer EXCEPT ![w] = [writer[w] EXCEPT !.pos = k + 1]]
      /\ UNCHANGED <<cache, len, names, flock>>
      /\ k < len[w]
  BY <1>2, <1>3 DEF write_all, DiskTypeOK
<1>5. /\ \A v \in DiskWriters \ {w} : writer'[v] = writer[v]
      /\ writer'[w].pc = "write" /\ writer'[w].inode = i /\ writer'[w].pos = k + 1
  BY <1>1, <1>2, <1>4 DEF StoringWriters, DiskTypeOK
<1>6. PICK s \in Seq(Nat) : s = content[i]
  BY DEF DiskTypeOK
<1>7. PICK t : t = WriteAt(s, k + 1, w)
  OBVIOUS
<1>8. /\ Len(t) = IF k + 1 > Len(s) THEN k + 1 ELSE Len(s)
      /\ t[k + 1] = w
      /\ \A q \in 1..Len(s) : q # k + 1 => t[q] = s[q]
      /\ Len(s) \in Nat
  <2>1. k + 1 \in Nat \ {0} /\ w \in Nat
    BY WritersPositive
  <2> QED
    BY SMTT(60), <2>1, <1>7, WriteAtOne
<1>9. content'[i] = t /\ \A j \in DiskWriters \ {i} : content'[j] = content[j]
  BY <1>4, <1>6, <1>7 DEF DiskTypeOK
<1>10. \A v \in DiskWriters : TempName(v)' = TempName(v)
  BY <1>4 DEF TempName
<1>11. flock[i] = w
  BY <1>1, <1>2 DEF WriterSound
<1>12. \A v \in DiskWriters \ {w} : writer[v].pc = "write" => writer[v].inode \in DiskWriters \ {i}
  BY <1>11 DEF DiskSound, WriterSound, Opened
<1>13. \A v \in DiskWriters : (Opened(v)' <=> Opened(v)) /\ writer'[v].inode = writer[v].inode
  BY <1>1, <1>2, <1>5 DEF Opened
<1>14. \A j \in DiskWriters : (Pending(j)' <=> Pending(j)) /\ (Writing(j)' <=> Writing(j))
  BY <1>1, <1>2, <1>5 DEF Pending, Writing
<1>15. Writing(i)'
  BY <1>5 DEF Writing
<1>16. \A v \in DiskWriters : len[v] \in Nat /\ len[v] = len[w] /\ len'[v] = len[v]
  BY <1>4 DEF DiskTypeOK, SameLength
<1>17. \A v \in DiskWriters : WriterSound(v)'
  <2> SUFFICES ASSUME NEW v \in DiskWriters PROVE WriterSound(v)'
    OBVIOUS
  <2>1. WriterSound(v) /\ len'[v] = len[v] /\ len[v] \in Nat /\ TempName(v)' = TempName(v)
        /\ names' = names /\ flock' = flock
    BY <1>4, <1>10, <1>16 DEF DiskSound
  <2>2. CASE v = w
    <3>1. k + 1 <= len[w]
      BY <1>4, <1>16
    <3> QED
      BY <2>1, <2>2, <3>1, <1>1, <1>5, <1>11 DEF WriterSound, Opened
  <2>3. CASE v # w
    BY <2>1, <2>3, <1>5 DEF WriterSound, Opened
  <2> QED
    BY <2>2, <2>3
<1>18. \A v \in DiskWriters : BytesSound(v)'
  <2> SUFFICES ASSUME NEW v \in DiskWriters PROVE BytesSound(v)'
    OBVIOUS
  <2>1. BytesSound(v)
    BY DEF DiskSound
  <2>2. CASE v = w
    <3> SUFFICES ASSUME ~ Pending(i) PROVE \A q \in 1..(k + 1) : q <= Len(t) /\ t[q] = w
      BY <2>2, <1>5, <1>9, <1>14 DEF BytesSound
    <3>1. \A q \in 1..k : q <= Len(s) /\ s[q] = w
      BY <2>1, <2>2, <1>1, <1>2, <1>3, <1>6 DEF BytesSound
    <3> TAKE q \in 1..(k + 1)
    <3>2. CASE q = k + 1
      BY <3>2, <1>8
    <3>3. CASE q # k + 1
      <4>1. q \in 1..k
        BY <3>3
      <4>2. q <= Len(s) /\ s[q] = w /\ q \in 1..Len(s)
        BY <4>1, <3>1, <1>8
      <4> QED
        BY <4>1, <4>2, <3>3, <1>8
    <3> QED
      BY <3>2, <3>3
  <2>3. CASE v # w
    BY SMTT(60), <2>1, <2>3, <1>5, <1>9, <1>12, <1>14 DEF BytesSound
  <2> QED
    BY <2>2, <2>3
<1>19. \A j \in DiskWriters : InodeSound(j)'
  <2> SUFFICES ASSUME NEW j \in DiskWriters PROVE InodeSound(j)'
    OBVIOUS
  <2>1. InodeSound(j)
    BY DEF DiskSound
  <2>2. CASE j = i
    <3>1. \A v \in DiskWriters : Len(s) <= len[v]
      BY <2>1, <2>2, <1>6 DEF InodeSound
    <3>2. \A v \in DiskWriters : Len(t) <= len'[v]
      BY <3>1, <1>4, <1>8, <1>16
    <3> QED
      BY <2>2, <3>2, <1>9, <1>15 DEF InodeSound
  <2>3. CASE j # i
    <3>1. content'[j] = content[j] /\ len' = len
      BY <2>3, <1>4, <1>9
    <3>2. Whole(j)' <=> Whole(j)
      BY <3>1 DEF Whole
    <3> QED
      BY <2>1, <3>1, <3>2, <1>13, <1>14 DEF InodeSound
  <2> QED
    BY <2>2, <2>3
<1>20. \A n \in FileNames : NameSound(n)'
  BY <1>4, <1>13 DEF DiskSound, NameSound
<1> QED
  BY <1>17, <1>18, <1>19, <1>20 DEF DiskSound

(* The file a writer closes is its own from end to end, or has been        *)
(* truncated by one that is still to write it.                             *)
LEMMA CloseTempSound ==
    ASSUME DiskTypeOK, SameLength, DiskSound, NEW w \in DiskWriters, CloseTemp(w)
    PROVE  DiskSound'
<1>1. WriterSound(w) /\ BytesSound(w) /\ writer[w].pc = "write" /\ writer[w] \in StoringWriters
  BY DEF CloseTemp, At, DiskSound, DiskTypeOK
<1>2. PICK i \in DiskWriters : i = writer[w].inode
  BY <1>1 DEF WriterSound, Opened
<1>3. /\ writer[w].pos = len[w]
      /\ flock' = [j \in DiskWriters |-> IF flock[j] = w THEN 0 ELSE flock[j]]
      /\ writer' = [writer EXCEPT ![w].pc = "rename"]
      /\ UNCHANGED <<cache, len, names, content>>
  BY DEF CloseTemp, Goto, Inodes
<1>4. /\ \A v \in DiskWriters \ {w} : writer'[v] = writer[v]
      /\ writer'[w].pc = "rename" /\ writer'[w].inode = i /\ writer'[w].pos = len[w]
  BY <1>1, <1>2, <1>3 DEF StoringWriters, DiskTypeOK
<1>5. \A v \in DiskWriters : TempName(v)' = TempName(v)
  BY <1>3 DEF TempName
<1>6. flock[i] = w
  BY <1>1, <1>2 DEF WriterSound
<1>7. \A v \in DiskWriters : (Opened(v)' <=> Opened(v)) /\ writer'[v].inode = writer[v].inode
  BY <1>1, <1>2, <1>4 DEF Opened
<1>8. /\ \A j \in DiskWriters : Pending(j)' <=> Pending(j)
      /\ \A j \in DiskWriters \ {i} : Writing(j)' <=> Writing(j)
  BY <1>1, <1>2, <1>4 DEF Pending, Writing
<1>9. \A v \in DiskWriters : WriterSound(v)'
  <2> SUFFICES ASSUME NEW v \in DiskWriters PROVE WriterSound(v)'
    OBVIOUS
  <2>1. WriterSound(v) /\ len'[v] = len[v] /\ len[v] \in Nat /\ TempName(v)' = TempName(v) /\ names' = names
    BY <1>3, <1>5 DEF DiskSound, DiskTypeOK
  <2>2. CASE v = w
    BY <2>1, <2>2, <1>1, <1>2, <1>4 DEF WriterSound, Opened
  <2>3. CASE v # w
    <3>1. writer[v].pc = "write" => flock'[writer[v].inode] = v
      BY <2>1, <2>3, <1>3 DEF WriterSound, Opened
    <3> QED
      BY <2>1, <2>3, <3>1, <1>4 DEF WriterSound, Opened
  <2> QED
    BY <2>2, <2>3
<1>10. \A v \in DiskWriters : BytesSound(v)'
  <2> SUFFICES ASSUME NEW v \in DiskWriters, writer'[v].pc = "write" PROVE BytesSound(v)'
    BY DEF BytesSound
  <2>1. v # w /\ writer'[v] = writer[v] /\ content' = content
    BY <1>3, <1>4
  <2>2. BytesSound(v) /\ writer[v].inode \in DiskWriters
    BY <2>1 DEF DiskSound, WriterSound, Opened
  <2> QED
    BY <2>1, <2>2, <1>8 DEF BytesSound
<1>11. ~ Pending(i) => Whole(i)
  <2> SUFFICES ASSUME ~ Pending(i) PROVE Whole(i)
    OBVIOUS
  <2>1. PICK s \in Seq(Nat) : s = content[i]
    BY DEF DiskTypeOK
  <2>2. PICK n \in Nat : n = len[w]
    BY DEF DiskTypeOK
  <2>3. \A q \in 1..n : q <= Len(s) /\ s[q] = w
    BY <1>1, <1>2, <1>3, <2>1, <2>2 DEF BytesSound
  <2>4. Len(s) <= n
    BY <2>1, <2>2 DEF DiskSound, InodeSound
  <2>5. Len(s) \in Nat /\ DOMAIN s = 1..Len(s)
    BY LenProperties
  <2>6. Len(s) = n
    <3>1. CASE n = 0
      BY SMTT(60), <3>1, <2>4, <2>5
    <3>2. CASE n # 0
      <4>1. n \in 1..n
        BY <3>2
      <4>2. n <= Len(s)
        BY <4>1, <2>3
      <4>3. \A a, b \in Nat : a <= b /\ b <= a => a = b
        OBVIOUS
      <4> QED
        BY <4>2, <4>3, <2>4, <2>5
    <3> QED
      BY <3>1, <3>2
  <2>7. s = [q \in 1..n |-> w]
    <3>1. s = [q \in 1..Len(s) |-> s[q]]
      BY <2>5
    <3> QED
      BY <3>1, <2>6, <2>3
  <2> QED
    BY <2>1, <2>2, <2>7 DEF Whole
<1>12. \A j \in DiskWriters : InodeSound(j)'
  <2> SUFFICES ASSUME NEW j \in DiskWriters PROVE InodeSound(j)'
    OBVIOUS
  <2>1. InodeSound(j) /\ content' = content /\ len' = len /\ (Whole(j)' <=> Whole(j))
    BY <1>3 DEF DiskSound, Whole
  <2>2. CASE j = i
    BY <2>1, <2>2, <1>8, <1>11 DEF InodeSound
  <2>3. CASE j # i
    BY <2>1, <2>3, <1>7, <1>8 DEF InodeSound
  <2> QED
    BY <2>2, <2>3
<1>13. \A n \in FileNames : NameSound(n)'
  BY <1>3, <1>7 DEF DiskSound, NameSound
<1> QED
  BY <1>9, <1>10, <1>12, <1>13 DEF DiskSound

(* Renaming moves a file that was opened by someone under the entry's name *)
LEMMA RenameSound ==
    ASSUME DiskTypeOK, DiskSound, NEW w \in DiskWriters, Rename(w) PROVE DiskSound'
<1>1. WriterSound(w) /\ writer[w].pc = "rename" /\ writer[w] \in StoringWriters
  BY DEF Rename, At, DiskSound, DiskTypeOK
<1>2. /\ writer' = [writer EXCEPT ![w].pc = "done"]
      /\ UNCHANGED <<cache, len, content, flock>>
  BY DEF Rename, Goto
<1>3. /\ \A v \in DiskWriters \ {w} : writer'[v] = writer[v]
      /\ writer'[w].pc = "done" /\ writer'[w].inode = writer[w].inode /\ writer'[w].pos = writer[w].pos
  BY <1>1, <1>2 DEF StoringWriters, DiskTypeOK
<1>4. \A v \in DiskWriters : TempName(v)' = TempName(v)
  BY <1>2 DEF TempName
<1>5. \A v \in DiskWriters : (Opened(v)' <=> Opened(v)) /\ writer'[v].inode = writer[v].inode
  BY <1>1, <1>3 DEF Opened
<1>6. \A j \in DiskWriters : (Pending(j)' <=> Pending(j)) /\ (Writing(j)' <=> Writing(j))
  BY <1>1, <1>3 DEF Pending, Writing
<1>7. TempName(w) \in FileNames /\ TempName(w) # Entry /\ Entry \in FileNames
  BY TempIsAName, EntryIsAName
<1>8. /\ names'[Entry] # NoFile
      /\ \A n \in FileNames :
            names'[n] # NoFile => \E m \in FileNames : names'[n] = names[m]
  <2>1. CASE names[TempName(w)] = NoFile
    <3>1. names' = names
      BY <2>1 DEF Rename
    <3>2. names[Entry] # NoFile
      BY <2>1, <1>1 DEF WriterSound
    <3> QED
      BY <3>1, <3>2
  <2>2. CASE names[TempName(w)] # NoFile
    <3>1. names' = [names EXCEPT ![Entry] = names[TempName(w)], ![TempName(w)] = NoFile]
      BY <2>2 DEF Rename
    <3>2. \A n \in FileNames : names'[n] = IF n = TempName(w) THEN NoFile
                                           ELSE IF n = Entry THEN names[TempName(w)] ELSE names[n]
      BY <3>1, <1>7 DEF DiskTypeOK
    <3> QED
      BY <3>2, <2>2, <1>7
  <2> QED
    BY <2>1, <2>2
<1>9. \A v \in DiskWriters : WriterSound(v)'
  <2> SUFFICES ASSUME NEW v \in DiskWriters PROVE WriterSound(v)'
    OBVIOUS
  <2>1. WriterSound(v) /\ len' = len /\ flock' = flock
    BY <1>2 DEF DiskSound
  <2> QED
    BY <2>1, <1>1, <1>3, <1>5, <1>8 DEF WriterSound, Opened
<1>10. \A v \in DiskWriters : BytesSound(v)'
  <2> SUFFICES ASSUME NEW v \in DiskWriters, writer'[v].pc = "write" PROVE BytesSound(v)'
    BY DEF BytesSound
  <2>1. v # w /\ writer'[v] = writer[v] /\ content' = content
    BY <1>2, <1>3
  <2>2. BytesSound(v) /\ writer[v].inode \in DiskWriters
    BY <2>1 DEF DiskSound, WriterSound, Opened
  <2> QED
    BY <2>1, <2>2, <1>6 DEF BytesSound
<1>11. \A j \in DiskWriters : InodeSound(j)'
  <2> SUFFICES ASSUME NEW j \in DiskWriters PROVE InodeSound(j)'
    OBVIOUS
  <2>1. InodeSound(j) /\ content' = content /\ len' = len /\ (Whole(j)' <=> Whole(j))
    BY <1>2 DEF DiskSound, Whole
  <2> QED
    BY <2>1, <1>5, <1>6 DEF InodeSound
<1>12. \A n \in FileNames : NameSound(n)'
  <2> SUFFICES ASSUME NEW n \in FileNames, names'[n] # NoFile PROVE NameSound(n)'
    BY DEF NameSound, NoFile
  <2>1. PICK m \in FileNames : names'[n] = names[m]
    BY <1>8
  <2>2. NameSound(m)
    BY DEF DiskSound
  <2> QED
    BY <2>1, <2>2, <1>5 DEF NameSound
<1> QED
  BY <1>9, <1>10, <1>11, <1>12 DEF DiskSound

(* A step that leaves faults FALSE keeps the bytes sound.                  *)
LEMMA DiskStep ==
    ASSUME DiskInv, [DiskNext]_disk_vars PROVE DiskInv'
<1>1. DiskTypeOK'
  BY DiskTypes DEF DiskInv
<1> SUFFICES ASSUME ~ faults', SameLength' PROVE DiskSound'
  BY SMTT(60), <1>1 DEF DiskInv
<1>2. len' = len /\ (faults => faults')
  BY DEF DiskNext, disk_vars, store_prepared_plan, store_store_exe, store_dev_environment_snapshot,
         write_atomically, StoreStep, LockFile, OpenTemp, lock_exclusive, write_all, CloseTemp, Rename,
         StoreCrash, prune_tmp, prune_read, prune_remove, remove_timed_json_entry
<1>3. DiskTypeOK /\ SameLength /\ DiskSound
  BY <1>2 DEF DiskInv, SameLength
<1>4. CASE \E w \in DiskWriters :
              LockFile(w) \/ OpenTemp(w) \/ lock_exclusive(w) \/ write_all(w) \/ CloseTemp(w) \/ Rename(w)
  BY <1>3, <1>4, LockFileSound, OpenTempSound, LockExclusiveSound, WriteAllSound, CloseTempSound, RenameSound
<1>5. CASE prune_read \/ UNCHANGED disk_vars
  <2>1. UNCHANGED <<cache, len, names, content, flock, writer>>
    BY <1>5 DEF prune_read, disk_vars
  <2> QED
    BY <1>3, <2>1 DEF DiskSound, WriterSound, BytesSound, InodeSound, NameSound, Opened, Pending,
                      Writing, Whole, TempName
<1>6. CASE (\E w \in DiskWriters : StoreCrash(w)) \/ prune_tmp \/ prune_remove \/ remove_timed_json_entry
  BY <1>6 DEF StoreCrash, prune_tmp, prune_remove, remove_timed_json_entry
<1> QED
  BY <1>4, <1>5, <1>6 DEF DiskNext, store_prepared_plan, store_store_exe,
     store_dev_environment_snapshot, write_atomically, StoreStep

(* There is no file at first.                                              *)
LEMMA DiskStart == ASSUME DiskInit PROVE DiskInv
<1>1. DiskTypeOK
  <2>1. len \in [DiskWriters -> Nat]
    BY DiskAssumption DEF DiskInit
  <2>2. [pc |-> "idle", inode |-> 0, pos |-> 0] \in StoringWriters /\ <<>> \in Seq(Nat)
    BY DEF StoringWriters, StoringPlaces
  <2> QED
    BY <2>1, <2>2 DEF DiskInit, DiskTypeOK, Inodes, NoFile
<1>2. \A w \in DiskWriters : writer[w].pc = "idle" /\ writer[w].pos = 0 /\ len[w] \in Nat
  BY <1>1 DEF DiskInit, DiskTypeOK
<1>3. \A i \in DiskWriters : Len(content[i]) = 0
  BY DEF DiskInit, Inodes
<1>4. \A n \in FileNames : names[n] = NoFile
  BY DEF DiskInit
<1> QED
  BY <1>1, <1>2, <1>3, <1>4 DEF DiskInv, DiskSound, WriterSound, BytesSound, InodeSound, NameSound, Opened

(* When every writer is done the invariant says that the entry is whole.   *)
LEMMA DiskWhole == ASSUME DiskInv PROVE QuietEntryWhole
<1> SUFFICES ASSUME \A w \in DiskWriters : writer[w].pc = "done", SameLength, ~ faults
             PROVE  names[Entry] # NoFile /\ Whole(names[Entry])
  BY DEF QuietEntryWhole, SameLength, At
<1>1. DiskTypeOK /\ DiskSound
  BY DEF DiskInv
<1>2. PICK w \in DiskWriters : TRUE
  BY DiskAssumption
<1>3. names[Entry] # NoFile
  BY <1>1, <1>2 DEF DiskSound, WriterSound
<1>4. PICK i \in DiskWriters : i = names[Entry]
  BY <1>1, <1>3, EntryIsAName DEF DiskTypeOK, NoFile
<1>5. \E v \in DiskWriters : Opened(v) /\ writer[v].inode = i
  BY <1>1, <1>3, <1>4, EntryIsAName DEF DiskSound, NameSound
<1>6. ~ Pending(i) /\ ~ Writing(i)
  BY DEF Pending, Writing
<1> QED
  BY <1>1, <1>3, <1>4, <1>5, <1>6 DEF DiskSound, InodeSound

(* When the processes that store one entry are over, none of them died and *)
(* nothing was removed, the entry is there and it is one writer's whole    *)
(* payload, for every number of them.                                      *)
THEOREM EntriesWhole == DiskSpec => []QuietEntryWhole
<1>1. DiskInit => DiskInv
  BY DiskStart
<1>2. DiskInv /\ [DiskNext]_disk_vars => DiskInv'
  BY DiskStep
<1>3. DiskInv => QuietEntryWhole
  BY DiskWhole
<1> QED
  BY <1>1, <1>2, <1>3, PTL DEF DiskSpec

-----------------------------------------------------------------------------
(* The capabilities of the installed Nix                                   *)

CapDigests == [env : CapEnvs, conf : SUBSET {"flakes"}, stamp : Nat]

CapNames ==
    {"flakes", "offline", "json-log", "no-write-lock-file", "accept-flake-config", "print-dev-env"}

CapConfigs == [shown : BOOLEAN, settings : SUBSET ({"flakes"} \cup UNION CapEnvs)]

CapEntries ==
    [banner : CapBinaries, digest : CapDigests, caps : SUBSET CapNames, sound : BOOLEAN,
     under : Nat, expired : BOOLEAN]

CapCommand ==
    [pc : {"idle", "load", "version", "config", "help", "reprobe", "store", "answered", "spawned"},
     identity : CapBinaries \cup {NoCapEntry}, env : CapEnvs \cup {{}},
     digest : CapDigests \cup {NoCapEntry}, banner : CapBinaries \cup {NoCapEntry},
     config : CapConfigs, caps : SUBSET CapNames, calm : BOOLEAN, sound : BOOLEAN,
     under : Nat]

CapTypeOK ==
    /\ cp_nix \in CapBinaries
    /\ cp_files \in Seq(SUBSET {"flakes"}) /\ cp_at \in 1..Len(cp_files)
    /\ cp_cache \in [CapBinaries -> CapEntries \cup {NoCapEntry}]
    /\ cp \in [CapClients -> CapCommand]

(* What probing the Nix b tells while nix.conf has the settings.           *)
ConfigOf(b, settings, env) ==
    IF CapBanner[b].config THEN [shown |-> TRUE, settings |-> settings \cup env] ELSE NoConfig

CapsOf(b, settings, env) ==
    LET config == ConfigOf(b, settings, env)
    IN  negotiate_capabilities(b, config, probe_help_text(b, config))

Version(i) == i \in 1..Len(cp_files)

(* A digest that names the file in place comes with what was probed under  *)
(* that file, or the file is one that was put back.                        *)
Named(digest, under) == digest.stamp = cp_at => under = cp_at \/ cp_at \in cp_back

EntryHonest(e, b) ==
    /\ Version(e.digest.stamp) /\ Version(e.under) /\ Named(e.digest, e.under)
    /\ e.sound => e.banner = b /\ e.caps = CapsOf(b, cp_files[e.under], e.digest.env)

Probing == {"load", "version", "config", "help", "reprobe", "store"}

(* A command that probes, whether or not it will keep what it learns, and  *)
(* one that was told.                                                      *)
CommandHonest(k) ==
    /\ k.pc \in Probing =>
          /\ k.identity \in CapBinaries /\ k.digest \in CapDigests
          /\ k.digest.env = k.env /\ Version(k.digest.stamp)
          /\ k.sound => k.identity = cp_nix
          /\ k.calm => k.identity = cp_nix /\ k.digest.stamp = cp_at
    /\ k.pc \in {"config", "help", "reprobe", "store"} =>
          k.banner \in CapBinaries /\ (k.sound => k.banner = k.identity)
    /\ k.pc \in {"help", "store"} => Version(k.under) /\ Named(k.digest, k.under)
    /\ k.pc = "help" /\ k.sound => k.config = ConfigOf(k.identity, cp_files[k.under], k.env)
    /\ k.pc = "store" /\ k.sound => k.caps = CapsOf(k.identity, cp_files[k.under], k.env)
    /\ k.pc \in {"answered", "spawned"} /\ k.calm => k.under = cp_at \/ cp_at \in cp_back
    /\ k.pc = "answered" /\ k.calm /\ k.sound => k.caps = CapsOf(cp_nix, cp_files[k.under], k.env)
    /\ k.pc = "spawned" /\ k.calm /\ k.sound => k.caps \subseteq CapsOf(cp_nix, cp_files[k.under], k.env)

CapInv ==
    /\ CapTypeOK
    /\ \A b \in CapBinaries : cp_cache[b] # NoCapEntry => EntryHonest(cp_cache[b], b)
    /\ \A c \in CapClients : CommandHonest(cp[c])

(* Negotiation yields known capabilities, whatever help text it is shown.  *)
LEMMA CapsNamed ==
    \A b, config, help : negotiate_capabilities(b, config, help) \in SUBSET CapNames
  BY DEF negotiate_capabilities, CapNames

(* A client between two commands says nothing about any Nix.               *)
LEMMA IdleHonest ==
    /\ CapIdle \in CapCommand /\ CapIdle.pc = "idle" /\ CommandHonest(CapIdle)
<1>1. CapIdle \in CapCommand
  BY DEF CapIdle, CapCommand, CapConfigs, NoConfig
<1> QED
  BY <1>1 DEF CapIdle, CommandHonest, Probing

(* The step of one command to what is honest of it.                        *)
LEMMA CommandSteps ==
    ASSUME CapInv, NEW c \in CapClients, NEW next \in CapCommand, CommandHonest(next),
           cp' = [cp EXCEPT ![c] = next],
           UNCHANGED <<cp_nix, conf_vars, cp_cache>>
    PROVE  CapInv'
<1>1. \A d \in CapClients : cp'[d] = cp[d] \/ cp'[d] = next
  BY DEF CapInv, CapTypeOK
<1>2. CapTypeOK'
  BY DEF CapInv, CapTypeOK, conf_vars
<1>3. \A k : CommandHonest(k) => CommandHonest(k)'
  BY DEF CommandHonest, Version, Named, conf_vars
<1> QED
  BY <1>1, <1>2, <1>3 DEF CapInv, EntryHonest, Version, Named, conf_vars

(* A command identifies its Nix and digests its environment.               *)
LEMMA CapDetects ==
    ASSUME CapInv, NEW c \in CapClients, detect_nix_environment(c) PROVE CapInv'
<1>1. PICK env \in CapEnvs, refresh \in BOOLEAN :
        Advance(c, [cp[c] EXCEPT !.pc = IF refresh THEN "version" ELSE "load", !.identity = cp_nix,
                                 !.env = env, !.digest = env_config_digest(env)])
  BY DEF detect_nix_environment
<1> DEFINE next == [cp[c] EXCEPT !.pc = IF refresh THEN "version" ELSE "load", !.identity = cp_nix,
                                 !.env = env, !.digest = env_config_digest(env)]
<1>2. cp[c] \in CapCommand /\ cp_nix \in CapBinaries
  BY DEF CapInv, CapTypeOK
<1>3. env_config_digest(env) \in CapDigests
  BY DEF env_config_digest, CapDigests, CapInv, CapTypeOK
<1>4. next \in CapCommand
  BY <1>2, <1>3 DEF CapCommand
<1>5. CommandHonest(next)
  <2>1. next.pc \in {"load", "version"} /\ next.identity = cp_nix /\ next.env = env
        /\ next.digest = env_config_digest(env)
    BY <1>2 DEF CapCommand
  <2>2. env_config_digest(env).env = env /\ env_config_digest(env).stamp = cp_at /\ Version(cp_at)
    BY DEF env_config_digest, CapInv, CapTypeOK, Version
  <2> HIDE DEF next
  <2> QED
    BY <1>2, <1>3, <2>1, <2>2 DEF CommandHonest, Probing
<1>6. cp' = [cp EXCEPT ![c] = next] /\ UNCHANGED <<cp_nix, conf_vars, cp_cache>>
  BY <1>1 DEF Advance, detect_nix_environment
<1> HIDE DEF next
<1> QED
  BY <1>4, <1>5, <1>6, CommandSteps

(* An entry found is answered, reprobed or passed over, and the command    *)
(* inherits what the entry's own probes saw.                               *)
LEMMA CapLoads ==
    ASSUME CapInv, NEW c \in CapClients, load_cached_entry(c) PROVE CapInv'
<1> DEFINE k == cp[c]
           found == cp_cache[k.identity]
<1>1. /\ k \in CapCommand /\ k.pc = "load" /\ CommandHonest(k)
      /\ k.identity \in CapBinaries /\ k.digest \in CapDigests
      /\ k.digest.env = k.env /\ Version(k.digest.stamp)
      /\ k.sound => k.identity = cp_nix
      /\ k.calm => k.identity = cp_nix /\ k.digest.stamp = cp_at
      /\ UNCHANGED <<cp_nix, conf_vars, cp_cache>>
  BY DEF load_cached_entry, CapInv, CapTypeOK, CommandHonest, Probing, CapStore
<1>2. found = NoCapEntry \/ (found \in CapEntries /\ EntryHonest(found, k.identity))
  BY <1>1 DEF CapInv, CapTypeOK
<1>3. CASE Advance(c, [k EXCEPT !.pc = "version"])
  <2> DEFINE next == [k EXCEPT !.pc = "version"]
  <2>1. next \in CapCommand
    BY <1>1 DEF CapCommand
  <2>2. /\ next.pc = "version" /\ next.identity = k.identity /\ next.digest = k.digest
        /\ next.env = k.env /\ next.sound = k.sound /\ next.calm = k.calm
    BY <1>1 DEF CapCommand
  <2> HIDE DEF next
  <2>3. CommandHonest(next)
    BY <1>1, <2>2 DEF CommandHonest, Probing
  <2>4. cp' = [cp EXCEPT ![c] = next]
    BY <1>3 DEF Advance, next
  <2> QED
    BY <1>1, <2>1, <2>3, <2>4, CommandSteps
<1>4. CASE found # NoCapEntry /\ found.digest = k.digest /\ Answer(c, found.caps, k.sound /\ found.sound, found.under)
  <2> DEFINE next == [CapIdle EXCEPT !.pc = "answered", !.env = k.env, !.caps = found.caps,
                                     !.calm = k.calm, !.sound = k.sound /\ found.sound,
                                     !.under = found.under]
  <2>1. /\ found \in CapEntries /\ EntryHonest(found, k.identity) /\ found.digest = k.digest
        /\ (k.sound /\ found.sound) \in BOOLEAN
    BY <1>2, <1>4
  <2>2. next \in CapCommand
    BY ZenonT(60), <1>1, <2>1, IdleHonest DEF CapCommand, CapEntries
  <2>3. /\ next.pc = "answered" /\ next.env = k.env /\ next.caps = found.caps
        /\ next.calm = k.calm /\ (next.sound => k.sound /\ found.sound) /\ next.under = found.under
    BY IdleHonest DEF CapCommand
  <2> HIDE DEF next, k, found
  <2>4. /\ next.calm /\ next.sound => next.caps = CapsOf(cp_nix, cp_files[next.under], next.env)
        /\ next.calm => next.under = cp_at \/ cp_at \in cp_back
    BY <1>1, <2>1, <2>3 DEF EntryHonest, Named
  <2>5. CommandHonest(next)
    BY <2>3, <2>4 DEF CommandHonest, Probing
  <2>6. cp' = [cp EXCEPT ![c] = next]
    BY <1>4 DEF Answer, next, k
  <2> QED
    BY <1>1, <2>2, <2>5, <2>6, CommandSteps
<1>5. CASE /\ found # NoCapEntry
           /\ Advance(c, [k EXCEPT !.pc = "reprobe", !.banner = found.banner, !.sound = @ /\ found.sound])
  <2> DEFINE next == [k EXCEPT !.pc = "reprobe", !.banner = found.banner, !.sound = @ /\ found.sound]
  <2>1. found \in CapEntries /\ EntryHonest(found, k.identity)
    BY <1>2, <1>5
  <2>2. (k.sound /\ found.sound) \in BOOLEAN /\ found.banner \in CapBinaries
    BY <2>1 DEF CapEntries
  <2>3. next \in CapCommand
    BY <1>1, <2>2 DEF CapCommand
  <2>4. /\ next.pc = "reprobe" /\ next.identity = k.identity /\ next.digest = k.digest
        /\ next.env = k.env /\ (next.sound => k.sound /\ found.sound) /\ next.calm = k.calm
        /\ next.banner = found.banner
    BY <1>1 DEF CapCommand
  <2> HIDE DEF next, k, found
  <2>5. CommandHonest(next)
    BY <1>1, <2>1, <2>2, <2>4 DEF CommandHonest, Probing, EntryHonest
  <2>6. cp' = [cp EXCEPT ![c] = next]
    BY <1>5 DEF Advance, next, k
  <2> QED
    BY <1>1, <2>3, <2>5, <2>6, CommandSteps
<1> QED
  BY <1>3, <1>4, <1>5 DEF load_cached_entry

(* The probes: each is a process of its own, and a failed one ends the     *)
(* command.                                                                *)
LEMMA CapProbes ==
    ASSUME CapInv, NEW c \in CapClients,
           probe_version_banner(c) \/ CapConfig(c) \/ detect_capabilities_with_preprobed_config(c)
             \/ reprobe_config_layer(c)
    PROVE  CapInv'
<1> DEFINE k == cp[c]
<1>1. /\ k \in CapCommand /\ CommandHonest(k) /\ k.pc \in {"version", "config", "help", "reprobe"}
      /\ cp_nix \in CapBinaries
      /\ UNCHANGED <<cp_nix, conf_vars, cp_cache>>
  BY DEF probe_version_banner, CapConfig, detect_capabilities_with_preprobed_config,
         reprobe_config_layer, CapInv, CapTypeOK, CapStore
<1>2. /\ k.identity \in CapBinaries /\ k.digest \in CapDigests
      /\ k.digest.env = k.env /\ Version(k.digest.stamp)
      /\ k.sound => k.identity = cp_nix
      /\ k.calm => k.identity = cp_nix /\ k.digest.stamp = cp_at
      /\ k.env \in CapEnvs
  <2>1. k.identity \in CapBinaries /\ k.digest \in CapDigests /\ k.digest.env = k.env
        /\ Version(k.digest.stamp)
        /\ (k.sound => k.identity = cp_nix)
        /\ (k.calm => k.identity = cp_nix /\ k.digest.stamp = cp_at)
    BY <1>1 DEF CommandHonest, Probing
  <2>2. k.digest.env \in CapEnvs
    BY <2>1 DEF CapDigests
  <2> QED
    BY <2>1, <2>2
<1>3. \A b \in CapBinaries : \A env \in CapEnvs :
        /\ probe_config_json(b, env) \in CapConfigs
        /\ probe_config_json(b, env) = ConfigOf(b, cp_files[cp_at], env)
  <2>1. cp_files[cp_at] \in SUBSET {"flakes"}
    BY DEF CapInv, CapTypeOK
  <2> QED
    BY <2>1 DEF probe_config_json, ConfigOf, CapConfigs, NoConfig
<1>9. Version(cp_at) /\ cp_at \in Nat /\ Named(k.digest, cp_at)
  BY DEF CapInv, CapTypeOK, Version, Named
<1>4. CASE cp' = [cp EXCEPT ![c] = CapIdle]
  BY <1>1, <1>4, IdleHonest, CommandSteps
<1>5. CASE k.pc = "version" /\ Advance(c, [k EXCEPT !.pc = "config", !.banner = cp_nix])
  <2> DEFINE next == [k EXCEPT !.pc = "config", !.banner = cp_nix]
  <2>1. next \in CapCommand
    BY <1>1 DEF CapCommand
  <2>2. /\ next.pc = "config" /\ next.identity = k.identity /\ next.digest = k.digest
        /\ next.env = k.env /\ next.sound = k.sound /\ next.calm = k.calm /\ next.banner = cp_nix
    BY <1>1 DEF CapCommand
  <2>3. cp' = [cp EXCEPT ![c] = next]
    BY <1>5 DEF Advance
  <2> HIDE DEF next, k
  <2>4. CommandHonest(next)
    BY <1>1, <1>2, <2>2 DEF CommandHonest, Probing
  <2> QED
    BY <1>1, <2>1, <2>3, <2>4, CommandSteps
<1>6. CASE /\ k.pc = "config"
           /\ Advance(c, [k EXCEPT !.pc = "help", !.config = probe_config_json(cp_nix, k.env),
                                   !.under = cp_at])
  <2> DEFINE next == [k EXCEPT !.pc = "help", !.config = probe_config_json(cp_nix, k.env),
                               !.under = cp_at]
  <2>1. probe_config_json(cp_nix, k.env) \in CapConfigs
    BY <1>1, <1>2, <1>3
  <2>2. next \in CapCommand
    BY <1>1, <1>9, <2>1 DEF CapCommand
  <2>3. /\ next.pc = "help" /\ next.identity = k.identity /\ next.digest = k.digest
        /\ next.env = k.env /\ next.sound = k.sound /\ next.calm = k.calm /\ next.banner = k.banner
        /\ next.config = ConfigOf(cp_nix, cp_files[cp_at], k.env) /\ next.under = cp_at
    BY <1>1, <1>2, <1>3 DEF CapCommand
  <2>4. cp' = [cp EXCEPT ![c] = next]
    BY <1>6 DEF Advance
  <2> HIDE DEF next, k
  <2>5. k.banner \in CapBinaries /\ (k.sound => k.banner = k.identity)
    BY <1>1, <1>6 DEF CommandHonest
  <2>6. CommandHonest(next)
    BY <1>1, <1>2, <1>9, <2>3, <2>5 DEF CommandHonest, Probing
  <2> QED
    BY <1>1, <2>2, <2>4, <2>6, CommandSteps
<1>7. CASE k.pc = "help" /\ detect_capabilities_with_preprobed_config(c)
  <2> DEFINE help == IF should_skip_help_probes(k.banner, k.config) THEN {} ELSE CapBanner[cp_nix].help
             next == [k EXCEPT !.pc = "store", !.caps = negotiate_capabilities(k.banner, k.config, help)]
  <2>1. cp' = [cp EXCEPT ![c] = next]
    BY <1>7 DEF detect_capabilities_with_preprobed_config, Advance
  <2> HIDE DEF help
  <2>2. next \in CapCommand
    BY <1>1, CapsNamed DEF CapCommand
  <2>3. /\ next.pc = "store" /\ next.identity = k.identity /\ next.digest = k.digest
        /\ next.env = k.env /\ next.sound = k.sound /\ next.calm = k.calm /\ next.banner = k.banner
        /\ next.caps = negotiate_capabilities(k.banner, k.config, help) /\ next.under = k.under
    BY <1>1 DEF CapCommand
  <2> HIDE DEF next, k
  <2>4. k.banner \in CapBinaries /\ (k.sound => k.banner = k.identity)
        /\ (k.sound => k.config = ConfigOf(k.identity, cp_files[k.under], k.env))
        /\ Version(k.under) /\ Named(k.digest, k.under)
    BY <1>1, <1>7 DEF CommandHonest
  <2>5. k.sound => next.caps = CapsOf(k.identity, cp_files[k.under], k.env)
    BY <1>2, <2>3, <2>4 DEF CapsOf, probe_help_text, help
  <2>6. CommandHonest(next)
    BY <1>1, <1>2, <2>3, <2>4, <2>5 DEF CommandHonest, Probing
  <2> QED
    BY <1>1, <2>1, <2>2, <2>6, CommandSteps
<1>8. CASE k.pc = "reprobe" /\ reprobe_config_layer(c)
  <2> DEFINE config == probe_config_json(cp_nix, k.env)
             caps == negotiate_capabilities(k.banner, config, {})
             skip == should_skip_help_probes(cp_nix, config)
             next == [k EXCEPT !.pc = "store", !.under = cp_at, !.sound = @ /\ skip, !.caps = caps]
  <2>1. cp' = [cp EXCEPT ![c] = next]
    BY <1>8 DEF reprobe_config_layer, Advance
  <2>2. config = ConfigOf(cp_nix, cp_files[cp_at], k.env) /\ caps \in SUBSET CapNames
    BY <1>1, <1>2, <1>3, CapsNamed
  <2> HIDE DEF caps, config, skip
  <2>3. (k.sound /\ skip) \in BOOLEAN
    OBVIOUS
  <2>4. next \in CapCommand
    BY <1>1, <1>9, <2>2, <2>3 DEF CapCommand
  <2>5. /\ next.pc = "store" /\ next.identity = k.identity /\ next.digest = k.digest
        /\ next.env = k.env /\ (next.sound => k.sound /\ skip) /\ next.calm = k.calm
        /\ next.banner = k.banner /\ next.caps = caps /\ next.under = cp_at
    BY <1>1 DEF CapCommand
  <2> HIDE DEF next, k
  <2>6. k.banner \in CapBinaries /\ (k.sound => k.banner = k.identity)
    BY <1>1, <1>8 DEF CommandHonest
  <2>7. k.sound /\ skip => caps = CapsOf(k.identity, cp_files[cp_at], k.env)
    BY <1>2, <2>2, <2>6 DEF CapsOf, probe_help_text, caps, skip
  <2>8. CommandHonest(next)
    BY <1>1, <1>2, <1>9, <2>5, <2>6, <2>7 DEF CommandHonest, Probing
  <2> QED
    BY <1>1, <2>1, <2>4, <2>8, CommandSteps
<1> QED
  BY <1>4, <1>5, <1>6, <1>7, <1>8
     DEF probe_version_banner, CapConfig, detect_capabilities_with_preprobed_config, reprobe_config_layer

(* Whether or not the entry can be written, the command answers what it    *)
(* probed.                                                                 *)
LEMMA CapStores ==
    ASSUME CapInv, NEW c \in CapClients, store_cached_entry(c) PROVE CapInv'
<1> DEFINE k == cp[c]
           next == [CapIdle EXCEPT !.pc = "answered", !.env = k.env, !.caps = k.caps,
                                   !.calm = k.calm, !.sound = k.sound, !.under = k.under]
           found == [banner |-> k.banner, digest |-> k.digest, caps |-> k.caps, sound |-> k.sound,
                     under |-> k.under, expired |-> FALSE]
<1>1. /\ k \in CapCommand /\ k.pc = "store" /\ CommandHonest(k)
      /\ cp' = [cp EXCEPT ![c] = next]
      /\ UNCHANGED <<cp_nix, conf_vars>>
      /\ \/ cp_cache' = [cp_cache EXCEPT ![k.identity] = found]
         \/ UNCHANGED cp_cache
  BY DEF store_cached_entry, Answer, CapInv, CapTypeOK
<1>2. /\ k.identity \in CapBinaries /\ k.digest \in CapDigests
      /\ k.digest.env = k.env /\ Version(k.digest.stamp)
      /\ k.sound => k.identity = cp_nix
      /\ k.calm => k.identity = cp_nix /\ k.digest.stamp = cp_at
      /\ k.banner \in CapBinaries /\ (k.sound => k.banner = k.identity)
      /\ k.sound => k.caps = CapsOf(k.identity, cp_files[k.under], k.env)
      /\ Version(k.under) /\ Named(k.digest, k.under)
  BY <1>1 DEF CommandHonest, Probing
<1>3. next \in CapCommand
  BY <1>1, IdleHonest DEF CapCommand
<1>4. /\ next.pc = "answered" /\ next.env = k.env /\ next.caps = k.caps
      /\ next.calm = k.calm /\ next.sound = k.sound /\ next.under = k.under
  BY IdleHonest DEF CapCommand
<1>5. found \in CapEntries
  BY <1>1, <1>2 DEF CapEntries, CapCommand
<1>6. found.banner = k.banner /\ found.digest = k.digest /\ found.caps = k.caps /\ found.sound = k.sound
      /\ found.under = k.under
  OBVIOUS
<1> HIDE DEF next, k, found
<1>7. CommandHonest(next)
  BY <1>2, <1>4 DEF CommandHonest, Probing, Named
<1>8. EntryHonest(found, k.identity)
  BY <1>2, <1>6 DEF EntryHonest
<1>9. \A b \in CapBinaries :
         \/ cp_cache'[b] = cp_cache[b]
         \/ b = k.identity /\ cp_cache'[b] = found
  BY <1>1 DEF CapInv, CapTypeOK
<1>10. CapTypeOK'
  BY <1>1, <1>2, <1>3, <1>5 DEF CapInv, CapTypeOK, conf_vars
<1>11. \A d \in CapClients : cp'[d] = cp[d] \/ cp'[d] = next
  BY <1>1 DEF CapInv, CapTypeOK
<1>12. \A d \in CapClients : CommandHonest(cp[d])'
  BY <1>1, <1>7, <1>11 DEF CapInv, CommandHonest, Version, Named, conf_vars
<1>13. \A b \in CapBinaries : cp_cache'[b] # NoCapEntry => EntryHonest(cp_cache[b], b)'
  BY <1>1, <1>8, <1>9 DEF CapInv, EntryHonest, Version, Named, conf_vars
<1> QED
  BY <1>10, <1>12, <1>13 DEF CapInv

(* A spawn adds only flags that were negotiated.                           *)
LEMMA CapEnds ==
    ASSUME CapInv, NEW c \in CapClients, apply_optional_flags(c) \/ CapAgain(c) PROVE CapInv'
<1> DEFINE k == cp[c]
<1>1. k \in CapCommand /\ CommandHonest(k) /\ UNCHANGED <<cp_nix, conf_vars, cp_cache>>
  BY DEF apply_optional_flags, CapAgain, CapInv, CapTypeOK, CapStore
<1>2. CASE cp' = [cp EXCEPT ![c] = CapIdle]
  BY <1>1, <1>2, IdleHonest, CommandSteps
<1>3. ASSUME k.pc = "answered", NEW asked, Advance(c, [k EXCEPT !.pc = "spawned", !.caps = asked \cap @])
      PROVE  CapInv'
  <2> DEFINE next == [k EXCEPT !.pc = "spawned", !.caps = asked \cap @]
  <2>1. next \in CapCommand
    BY <1>1 DEF CapCommand
  <2>2. /\ next.pc = "spawned" /\ next.env = k.env /\ next.caps = asked \cap k.caps
        /\ next.calm = k.calm /\ next.sound = k.sound /\ next.under = k.under
    BY <1>1 DEF CapCommand
  <2>3. cp' = [cp EXCEPT ![c] = next]
    BY <1>3 DEF Advance
  <2> HIDE DEF next, k
  <2>4. CommandHonest(next)
    BY <1>1, <1>3, <2>2 DEF CommandHonest, Probing
  <2> QED
    BY <1>1, <2>1, <2>3, <2>4, CommandSteps
<1> QED
  BY <1>2, <1>3 DEF apply_optional_flags, CapAgain

(* A change of nix.conf keeps the versions there were, and puts in place a *)
(* new one or one that counts as put back.                                 *)
LEMMA FilesKept ==
    ASSUME CapTypeOK, EditConf \/ PutBackConf
    PROVE  /\ cp_files' \in Seq(SUBSET {"flakes"}) /\ cp_at' \in 1..Len(cp_files')
           /\ \A i \in 1..Len(cp_files) : i \in 1..Len(cp_files') /\ cp_files'[i] = cp_files[i]
           /\ \A i \in 1..Len(cp_files) : i = cp_at' => cp_at' \in cp_back'
<1> USE DEF CapTypeOK
<1>1. CASE EditConf
  <2>1. PICK s \in SUBSET {"flakes"} : cp_files' = Append(cp_files, s)
    BY <1>1 DEF EditConf
  <2>2. cp_at' = Len(cp_files) + 1
    BY <1>1 DEF EditConf
  <2> QED
    BY <2>1, <2>2
<1>2. CASE PutBackConf
  BY <1>2 DEF PutBackConf
<1> QED
  BY <1>1, <1>2

(* The user's changes disturb every command under way.                     *)
LEMMA CapDisturbed ==
    ASSUME CapInv, EditConf \/ PutBackConf \/ SwitchNix PROVE CapInv'
<1> DEFINE Changes == EditConf \/ PutBackConf
<1>1. /\ cp_nix' \in CapBinaries /\ UNCHANGED cp_cache
      /\ cp_files' \in Seq(SUBSET {"flakes"}) /\ cp_at' \in 1..Len(cp_files')
      /\ \A i : Version(i) => Version(i)' /\ cp_files'[i] = cp_files[i]
      /\ \/ UNCHANGED conf_vars
         \/ cp_nix' = cp_nix /\ \A i : Version(i) /\ i = cp_at' => cp_at' \in cp_back'
  <2>1. CapTypeOK
    BY DEF CapInv
  <2>2. CASE Changes
    BY <2>1, <2>2, FilesKept DEF EditConf, PutBackConf, ConfChange, CapTypeOK, Version
  <2>3. CASE SwitchNix
    BY <2>1, <2>3 DEF SwitchNix, CapTypeOK, Version, conf_vars
  <2> QED
    BY <2>2, <2>3
<1>2. \A d, u : Version(d.stamp) /\ Version(u) /\ Named(d, u) => Named(d, u)'
  BY <1>1 DEF Named, conf_vars
<1>3. \A k : k.pc = "idle" => CommandHonest(k)'
  BY DEF CommandHonest, Probing
<1>4. ASSUME NEW k, CommandHonest(k), NEW h,
             /\ h.pc = k.pc /\ h.identity = k.identity /\ h.env = k.env /\ h.digest = k.digest
             /\ h.banner = k.banner /\ h.under = k.under /\ ~ h.calm
             /\ h.sound => /\ k.sound /\ cp_nix' = cp_nix
                           /\ h.config = k.config /\ h.caps = k.caps
      PROVE  CommandHonest(h)'
  <2>1. h.pc \in Probing =>
           /\ h.identity \in CapBinaries /\ h.digest \in CapDigests
           /\ h.digest.env = h.env /\ Version(h.digest.stamp)'
           /\ h.sound => h.identity = cp_nix'
    BY <1>1, <1>4 DEF CommandHonest
  <2>2. h.pc \in {"help", "store"} =>
           /\ Version(h.under)' /\ Named(h.digest, h.under)'
           /\ cp_files'[h.under] = cp_files[h.under]
    BY <1>1, <1>2, <1>4 DEF CommandHonest, Probing
  <2>3. h.pc = "help" /\ h.sound => h.config = ConfigOf(h.identity, cp_files[h.under], h.env)
    BY <1>4 DEF CommandHonest
  <2>4. h.pc = "store" /\ h.sound => h.caps = CapsOf(h.identity, cp_files[h.under], h.env)
    BY <1>4 DEF CommandHonest
  <2>5. h.pc \in {"config", "help", "reprobe", "store"} =>
           h.banner \in CapBinaries /\ (h.sound => h.banner = h.identity)
    BY <1>4 DEF CommandHonest
  <2> QED
    BY <1>4, <2>1, <2>2, <2>3, <2>4, <2>5 DEF CommandHonest
<1>5. ASSUME NEW c \in CapClients
      PROVE  cp'[c] \in CapCommand /\ CommandHonest(cp[c])'
  <2>1. PICK k : k = cp[c] /\ k \in CapCommand /\ CommandHonest(k)
    BY DEF CapInv, CapTypeOK
  <2>2. PICK h : h = cp'[c]
    OBVIOUS
  <2>3. \/ k.pc = "idle" /\ h = k
        \/ Changes /\ h = [k EXCEPT !.calm = FALSE]
        \/ SwitchNix /\ h = [k EXCEPT !.calm = FALSE, !.sound = FALSE]
    BY <2>1, <2>2 DEF EditConf, PutBackConf, ConfChange, Disturbed, SwitchNix
  <2>4. Changes => cp_nix' = cp_nix
    BY DEF EditConf, PutBackConf, ConfChange
  <2>5. h \in CapCommand
    BY <2>1, <2>3 DEF CapCommand
  <2>6. CommandHonest(h)'
    <3>1. CASE k.pc = "idle" /\ h = k
      BY <1>3, <3>1
    <3>2. CASE Changes /\ h = [k EXCEPT !.calm = FALSE]
      <4>1. /\ h.pc = k.pc /\ h.identity = k.identity /\ h.env = k.env /\ h.digest = k.digest
            /\ h.banner = k.banner /\ h.under = k.under /\ ~ h.calm
            /\ h.sound = k.sound /\ h.config = k.config /\ h.caps = k.caps
        BY <2>1, <3>2 DEF CapCommand
      <4> QED
        BY <1>4, <2>1, <2>4, <3>2, <4>1
    <3>3. CASE SwitchNix /\ h = [k EXCEPT !.calm = FALSE, !.sound = FALSE]
      <4>1. /\ h.pc = k.pc /\ h.identity = k.identity /\ h.env = k.env /\ h.digest = k.digest
            /\ h.banner = k.banner /\ h.under = k.under /\ ~ h.calm /\ ~ h.sound
        BY <2>1, <3>3 DEF CapCommand
      <4> QED
        BY <1>4, <2>1, <4>1
    <3> QED
      BY <2>3, <3>1, <3>2, <3>3
  <2> QED
    BY <2>2, <2>5, <2>6 DEF CommandHonest
<1>6. CapTypeOK'
  <2>1. cp' = [c \in CapClients |-> cp'[c]]
    BY DEF EditConf, PutBackConf, ConfChange, Disturbed, SwitchNix
  <2> QED
    BY <1>1, <1>5, <2>1 DEF CapInv, CapTypeOK
<1>7. ASSUME NEW b \in CapBinaries, cp_cache[b] # NoCapEntry PROVE EntryHonest(cp_cache[b], b)'
  <2>1. PICK e : e = cp_cache[b] /\ EntryHonest(e, b)
    BY <1>7 DEF CapInv
  <2>2. cp_cache'[b] = e
    BY <1>1, <2>1
  <2>3. /\ Version(e.digest.stamp)' /\ Version(e.under)' /\ Named(e.digest, e.under)'
        /\ cp_files'[e.under] = cp_files[e.under]
    BY <1>1, <1>2, <2>1 DEF EntryHonest
  <2> QED
    BY <2>1, <2>2, <2>3 DEF EntryHonest
<1> QED
  BY <1>1, <1>5, <1>6, <1>7 DEF CapInv

(* Clearing or losing entries leaves the honest ones.                      *)
LEMMA CapForgets ==
    ASSUME CapInv, CapExpire \/ clear_capability_cache PROVE CapInv'
<1>1. UNCHANGED <<cp_nix, conf_vars, cp>>
  BY DEF CapExpire, clear_capability_cache
<1>2. ASSUME NEW b \in CapBinaries
      PROVE  /\ cp_cache'[b] \in CapEntries \cup {NoCapEntry}
             /\ cp_cache'[b] # NoCapEntry => EntryHonest(cp_cache'[b], b)
  <2> DEFINE e == cp_cache[b]
             aged == [e EXCEPT !.expired = TRUE]
  <2>1. e \in CapEntries \cup {NoCapEntry} /\ (e # NoCapEntry => EntryHonest(e, b))
    BY DEF CapInv, CapTypeOK
  <2>2. cp_cache'[b] = e \/ cp_cache'[b] = NoCapEntry \/ (e # NoCapEntry /\ cp_cache'[b] = aged)
    BY DEF CapExpire, clear_capability_cache, CapInv, CapTypeOK
  <2>3. e \in CapEntries => aged \in CapEntries /\ aged.banner = e.banner /\ aged.digest = e.digest
                            /\ aged.caps = e.caps /\ aged.sound = e.sound
                            /\ aged.under = e.under
    BY DEF CapEntries
  <2> HIDE DEF e, aged
  <2> QED
    BY <2>1, <2>2, <2>3 DEF EntryHonest
<1>3. cp_cache' = [b \in CapBinaries |-> cp_cache'[b]]
  BY DEF CapExpire, clear_capability_cache, CapInv, CapTypeOK
<1>4. CapTypeOK'
  BY <1>1, <1>2, <1>3 DEF CapInv, CapTypeOK, conf_vars
<1> QED
  BY <1>1, <1>2, <1>4 DEF CapInv, CommandHonest, EntryHonest, Version, Named, conf_vars

(* A command that is not disturbed learns what Nix would tell it now: a    *)
(* digest that names the file in place comes with what was probed under    *)
(* it, unless that file was put back with its times.  For every set of     *)
(* executables and environments and any number of edits.                   *)
THEOREM CapabilitiesAgreed == CapSpec => []CapabilitiesAgree
<1>1. CapInit => CapInv
  <2> SUFFICES ASSUME CapInit PROVE CapInv
    OBVIOUS
  <2>1. cp_files \in Seq(SUBSET {"flakes"}) /\ Len(cp_files) = 1
    <3>1. PICK s \in SUBSET {"flakes"} : cp_files = <<s>>
      BY DEF CapInit
    <3> QED
      BY <3>1
  <2>2. CapTypeOK
    BY <2>1, IdleHonest DEF CapInit, CapTypeOK
  <2> QED
    BY <2>2, IdleHonest DEF CapInit, CapInv
<1>2. CapInv /\ [CapNext]_cp_vars => CapInv'
  <2> SUFFICES ASSUME CapInv, [CapNext]_cp_vars PROVE CapInv'
    OBVIOUS
  <2>1. CASE UNCHANGED cp_vars
    <3>1. UNCHANGED <<cp_nix, conf_vars, cp_cache, cp>>
      BY <2>1 DEF cp_vars
    <3>2. CapTypeOK'
      BY <3>1 DEF CapInv, CapTypeOK, conf_vars
    <3>3. \A k : CommandHonest(k) => CommandHonest(k)'
      BY <3>1 DEF CommandHonest, Version, Named, conf_vars
    <3>4. \A e, b : EntryHonest(e, b) => EntryHonest(e, b)'
      BY <3>1 DEF EntryHonest, Version, Named, conf_vars
    <3> QED
      BY <3>1, <3>2, <3>3, <3>4 DEF CapInv
  <2>2. CASE CapNext
    BY <2>2, CapDetects, CapLoads, CapProbes, CapStores, CapEnds, CapDisturbed, CapForgets
       DEF CapNext
  <2> QED
    BY <2>1, <2>2
<1>3. CapInv => CapabilitiesAgree
  <2> SUFFICES ASSUME CapInv, NEW c \in CapClients, cp[c].calm, cp[c].sound,
                      cp[c].under = cp_at \/ cp_at \notin cp_back
               PROVE  ToldFresh(c)
    BY DEF CapabilitiesAgree
  <2>1. FreshCapabilities(c) = CapsOf(cp_nix, cp_files[cp_at], cp[c].env)
    BY DEF FreshCapabilities, CapsOf, ConfigOf, probe_config_json
  <2>2. CommandHonest(cp[c])
    BY DEF CapInv
  <2>3. cp[c].pc \in {"answered", "spawned"} => cp[c].under = cp_at
    BY <2>2 DEF CommandHonest
  <2> QED
    BY <2>1, <2>2, <2>3 DEF CommandHonest, ToldFresh
<1> QED
  BY <1>1, <1>2, <1>3, PTL DEF CapSpec

-----------------------------------------------------------------------------
(* The fingerprints of a flake                                             *)

TfAllTexts == FlakeTexts \cup TfTexts

TfFileAt(p) == [text : IF p = FlakeNix THEN FlakeTexts ELSE TfTexts, mtime : Nat, ctime : Nat]

TfEntryValues == [hash : TfAllTexts \cup {NoTfFile}, mtime : Nat, ctime : Nat]

TfEntries == UNION {[S -> TfEntryValues] : S \in SUBSET TfFiles}

TfIndexes == [entries : TfEntries, full : BOOLEAN] \cup {NoIndex}

TfComputations ==
    [pc : {"idle", "paths", "next", "read", "done"}, mode : TfModes \cup {"Auto"}, calm : BOOLEAN,
     loaded : TfIndexes, prior : TfEntries, left : SUBSET TfFiles, path : TfFiles,
     meta : [mtime : Nat, ctime : Nat], entries : TfEntries]

TfTypeOK ==
    /\ tf_work = [p \in TfFiles |-> tf_work[p]]
    /\ \A p \in TfFiles : tf_work[p] = NoTfFile \/ tf_work[p] \in TfFileAt(p)
    /\ tf_edits \in Nat
    /\ tf_index \in [{"tree", "inputs"} -> TfIndexes]
    /\ tf \in [TfCommands -> TfComputations]

(* An entry says what the file held when its change time was the entry's.  *)
TfHonest(p, e) ==
    e = MissingInput \/ /\ e.hash # NoTfFile /\ e.ctime <= tf_edits
                        /\ tf_work[p] # NoTfFile /\ tf_work[p].ctime = e.ctime => e.hash = tf_work[p].text

TfAllHonest(entries) == \A p \in DOMAIN entries : TfHonest(p, entries[p])

TfAccurate(p, e) ==
    IF e = MissingInput THEN tf_work[p] = NoTfFile
    ELSE tf_work[p] # NoTfFile /\ e.hash = tf_work[p].text

(* The files a computation has noted or will still look at.                *)
TfSeen(x) == DOMAIN x.entries \cup x.left \cup (IF x.pc = "read" THEN {x.path} ELSE {})

TfCovers(x) ==
    IF x.mode = "Inputs" THEN TfSeen(x) = TfInputs
    ELSE FlakeSource \subseteq TfSeen(x) /\ (tf_work[FlakeLock] # NoTfFile => FlakeLock \in TfSeen(x))

TfCommandOK(x) ==
    /\ TfAllHonest(x.prior) /\ TfAllHonest(x.entries)
    /\ x.pc \in {"idle", "paths"} => DOMAIN x.entries = {}
    /\ x.pc = "read" => x.meta.ctime <= tf_edits
    /\ x.pc = "done" => x.left = {}
    /\ x.calm /\ x.pc \in {"next", "read", "done"} =>
          /\ TfCovers(x)
          /\ \A p \in DOMAIN x.entries : TfAccurate(p, x.entries[p])

TfInv ==
    /\ TfTypeOK
    /\ \A p \in TfFiles : tf_work[p] # NoTfFile => tf_work[p].ctime <= tf_edits
    /\ \A k \in {"tree", "inputs"} : tf_index[k] # NoIndex => TfAllHonest(tf_index[k].entries)
    /\ \A c \in TfCommands : TfCommandOK(tf[c])

(* What entries are, and how one is added.                                 *)
LEMMA TfEntriesTyped ==
    ASSUME NEW f \in TfEntries
    PROVE  DOMAIN f \in SUBSET TfFiles /\ \A p \in DOMAIN f : f[p] \in TfEntryValues
  BY DEF TfEntries

(* A computation without an index has no entries.                          *)
LEMMA TfNoEntries == NoEntries \in TfEntries /\ DOMAIN NoEntries = {}
<1>1. NoEntries \in [{} -> TfEntryValues] /\ DOMAIN NoEntries = {}
  BY DEF NoEntries
<1> QED
  BY <1>1 DEF TfEntries

(* Noting a file adds its entry.                                           *)
LEMMA TfNoted ==
    \A f \in TfEntries, p \in TfFiles, e \in TfEntryValues : Noted(f, p, e) \in TfEntries
<1> TAKE f \in TfEntries, p \in TfFiles, e \in TfEntryValues
<1> DEFINE S == DOMAIN f \cup {p}
<1>1. S \in SUBSET TfFiles
  BY TfEntriesTyped
<1>2. \A q \in S : (IF q = p THEN e ELSE f[q]) \in TfEntryValues
  BY TfEntriesTyped
<1>3. Noted(f, p, e) \in [S -> TfEntryValues]
  BY <1>2 DEF Noted
<1> HIDE DEF S
<1> QED
  BY <1>1, <1>3 DEF TfEntries

(* A command that has given up claims nothing.                             *)
LEMMA TfIdleOK ==
    ASSUME TfInv PROVE TfIdle \in TfComputations /\ TfCommandOK(TfIdle)
<1>1. TfIdle \in TfComputations
  BY TfNoEntries, TfAssumption DEF TfIdle, TfComputations, TfIndexes, NoTimes
<1> QED
  BY <1>1, TfNoEntries DEF TfIdle, TfCommandOK, TfAllHonest

(* The files of the flake are among the paths, in whatever way they are    *)
(* enumerated.                                                             *)
LEMMA TfPathsCover == \A mode : FlakeSource \subseteq resolve_nix_paths(mode)
  BY DEF FlakeSource, resolve_nix_paths, git_visible_paths, walk_nix_files, append_stage_nix,
         append_worktree_nix, include_explicit_references, RegularNix, should_ignore,
         is_independent_worktree

(* The paths are files of the checkout.                                    *)
LEMMA TfPathsTyped == \A mode : resolve_nix_paths(mode) \subseteq TfFiles
  BY DEF resolve_nix_paths, git_visible_paths, walk_nix_files, append_stage_nix,
         append_worktree_nix, include_explicit_references, RegularNix

(* The step of one command while the user does nothing.                    *)
LEMMA TfCommandSteps ==
    ASSUME TfInv, NEW c \in TfCommands, NEW next \in TfComputations, TfCommandOK(next),
           TfStep(c, next), UNCHANGED <<tf_world, tf_index>>
    PROVE  TfInv'
<1>1. \A d \in TfCommands : tf'[d] = tf[d] \/ tf'[d] = next
  BY DEF TfInv, TfTypeOK, TfStep
<1>2. TfTypeOK'
  BY DEF TfInv, TfTypeOK, TfStep, tf_world
<1>3. UNCHANGED <<tf_work, tf_tracked, tf_git, tf_edits, tf_index>>
  BY DEF tf_world
<1>4. \A x : TfCommandOK(x) => TfCommandOK(x)'
  <2>1. FlakeSource' = FlakeSource
    BY <1>3 DEF FlakeSource, analyze_flake_source
  <2> QED
    BY <1>3, <2>1 DEF TfCommandOK, TfAllHonest, TfHonest, TfCovers, TfSeen, TfAccurate
<1>5. \A d \in TfCommands : TfCommandOK(tf[d])'
  BY <1>1, <1>4 DEF TfInv
<1>6. \A f : TfAllHonest(f) => TfAllHonest(f)'
  BY <1>3 DEF TfAllHonest, TfHonest
<1> QED
  BY <1>2, <1>3, <1>5, <1>6 DEF TfInv

(* A computation begins with the index there is, or with none.             *)
LEMMA TfBegins ==
    ASSUME TfInv, NEW c \in TfCommands, nix_tree_fingerprint(c) PROVE TfInv'
<1>1. PICK mode \in TfModes, force_rehash \in BOOLEAN :
        LET index == tf_index[KindOf(mode)]
        IN  TfStep(c, [tf[c] EXCEPT !.pc = "paths", !.mode = mode, !.loaded = index, !.calm = TRUE,
                                    !.prior = IF index_is_compatible(index, mode) /\ ~force_rehash
                                              THEN index.entries ELSE NoEntries])
  BY DEF nix_tree_fingerprint
<1> DEFINE index == tf_index[KindOf(mode)]
           prior == IF index_is_compatible(index, mode) /\ ~force_rehash THEN index.entries ELSE NoEntries
           next == [tf[c] EXCEPT !.pc = "paths", !.mode = mode, !.loaded = index, !.calm = TRUE,
                                 !.prior = prior]
<1>2. index \in TfIndexes /\ (index # NoIndex => TfAllHonest(index.entries))
  BY DEF TfInv, TfTypeOK, KindOf
<1>3. prior \in TfEntries /\ TfAllHonest(prior)
  <2>1. index # NoIndex => index.entries \in TfEntries
    BY <1>2 DEF TfIndexes
  <2> QED
    BY <1>2, <2>1, TfNoEntries DEF index_is_compatible, TfAllHonest
<1>4. tf[c] \in TfComputations /\ TfCommandOK(tf[c]) /\ UNCHANGED <<tf_world, tf_index>>
  BY DEF TfInv, TfTypeOK, nix_tree_fingerprint
<1>5. TfStep(c, next)
  BY <1>1
<1> HIDE DEF index, prior
<1>6. next \in TfComputations
  BY <1>2, <1>3, <1>4 DEF TfComputations
<1>7. next.pc = "paths" /\ next.prior = prior /\ next.entries = tf[c].entries /\ tf[c].pc = "idle"
  BY <1>4 DEF TfComputations, nix_tree_fingerprint
<1> HIDE DEF next
<1>8. TfCommandOK(next)
  BY <1>3, <1>4, <1>7 DEF TfCommandOK
<1> QED
  BY <1>4, <1>5, <1>6, <1>8, TfCommandSteps

(* The paths that are enumerated cover the files of the flake.             *)
LEMMA TfEnumerates ==
    ASSUME TfInv, NEW c \in TfCommands, collect_nix_paths(c) PROVE TfInv'
<1> DEFINE x == tf[c]
           left == IF x.mode = "Inputs" THEN TfInputs ELSE resolve_nix_paths(x.mode) \cup {FlakeLock}
           next == [x EXCEPT !.pc = "next", !.left = left]
<1>1. /\ x \in TfComputations /\ TfCommandOK(x) /\ x.pc = "paths" /\ TfStep(c, next)
      /\ UNCHANGED <<tf_world, tf_index>>
  BY DEF TfInv, TfTypeOK, collect_nix_paths
<1>2. left \in SUBSET TfFiles
  BY TfPathsTyped, TfAssumption
<1>3. IF x.mode = "Inputs" THEN left = TfInputs ELSE FlakeSource \subseteq left /\ FlakeLock \in left
  BY TfPathsCover
<1> HIDE DEF left
<1>4. next \in TfComputations
  BY <1>1, <1>2 DEF TfComputations
<1>5. /\ next.pc = "next" /\ next.left = left /\ next.prior = x.prior /\ next.entries = x.entries
      /\ next.mode = x.mode
  BY <1>1 DEF TfComputations
<1> HIDE DEF next, x
<1>6. TfCommandOK(next)
  BY <1>1, <1>3, <1>5 DEF TfCommandOK, TfCovers, TfSeen
<1> QED
  BY <1>1, <1>4, <1>6, TfCommandSteps

(* An entry is kept if its times are those of the file.                    *)
LEMMA TfLooks ==
    ASSUME TfInv, NEW c \in TfCommands, fingerprint_entry_for_file(c) PROVE TfInv'
<1> DEFINE x == tf[c]
           path == CHOOSE p \in x.left : TRUE
           found == tf_work[path]
           rest == [x EXCEPT !.left = @ \ {path}]
<1>1. /\ x \in TfComputations /\ TfCommandOK(x) /\ x.pc = "next" /\ x.left # {}
      /\ UNCHANGED <<tf_world, tf_index>>
  BY DEF TfInv, TfTypeOK, fingerprint_entry_for_file
<1>2. path \in x.left /\ path \in TfFiles
  BY <1>1 DEF TfComputations
<1>3. found = NoTfFile \/ (found \in TfFileAt(path) /\ found.ctime <= tf_edits)
  BY <1>2 DEF TfInv, TfTypeOK
<1>4. \/ found = NoTfFile /\ TfStep(c, TfIdle)
      \/ found = NoTfFile /\ x.mode # "Inputs" /\ path = FlakeLock /\ TfStep(c, rest)
      \/ /\ found = NoTfFile /\ x.mode = "Inputs"
         /\ TfStep(c, [rest EXCEPT !.entries = Noted(@, path, MissingInput)])
      \/ /\ found # NoTfFile /\ path \in DOMAIN x.prior /\ x.prior[path] # MissingInput
         /\ matches_metadata(x.prior[path], found)
         /\ TfStep(c, [rest EXCEPT !.entries = Noted(@, path, x.prior[path])])
      \/ /\ found # NoTfFile
         /\ TfStep(c, [rest EXCEPT !.pc = "read", !.path = path,
                                   !.meta = [mtime |-> found.mtime, ctime |-> found.ctime]])
  BY DEF fingerprint_entry_for_file
<1>5. rest \in TfComputations
  BY <1>1 DEF TfComputations
<1>6. /\ rest.pc = "next" /\ rest.mode = x.mode /\ rest.calm = x.calm /\ rest.prior = x.prior
      /\ rest.left = x.left \ {path} /\ rest.entries = x.entries
  BY <1>1 DEF TfComputations
<1>7. x.prior \in TfEntries /\ x.entries \in TfEntries
  BY <1>1 DEF TfComputations
<1> HIDE DEF path, found, rest, x
<1>8. ASSUME NEW e \in TfEntryValues, TfHonest(path, e), TfAccurate(path, e),
             TfStep(c, [rest EXCEPT !.entries = Noted(@, path, e)])
      PROVE  TfInv'
  <2> DEFINE next == [rest EXCEPT !.entries = Noted(@, path, e)]
             noted == Noted(x.entries, path, e)
  <2>1. /\ noted \in TfEntries /\ DOMAIN noted = DOMAIN x.entries \cup {path}
        /\ \A q \in DOMAIN x.entries \cup {path} : noted[q] = IF q = path THEN e ELSE x.entries[q]
    <3>1. x.entries \in TfEntries /\ path \in TfFiles /\ e \in TfEntryValues
      BY <1>2, <1>7
    <3>2. noted \in TfEntries
      BY <3>1, TfNoted
    <3>3. DOMAIN noted = DOMAIN x.entries \cup {path}
      BY DEF Noted
    <3>4. \A q \in DOMAIN x.entries \cup {path} : noted[q] = IF q = path THEN e ELSE x.entries[q]
      BY DEF Noted
    <3> QED
      BY <3>2, <3>3, <3>4
  <2> HIDE DEF noted
  <2>2. next = [rest EXCEPT !.entries = noted]
    BY <1>5, <1>6 DEF noted, TfComputations
  <2>3. TfStep(c, next)
    BY <1>8
  <2> HIDE DEF next
  <2>4. next \in TfComputations
    BY <1>5, <2>1, <2>2 DEF TfComputations
  <2>5. /\ next.pc = "next" /\ next.mode = x.mode /\ next.calm = x.calm /\ next.prior = x.prior
        /\ next.left = x.left \ {path} /\ next.entries = noted
    BY <1>5, <1>6, <2>2 DEF TfComputations
  <2>6. TfSeen(next) = TfSeen(x)
    BY <1>1, <1>2, <2>1, <2>5 DEF TfSeen
  <2>7. TfCommandOK(next)
    BY <1>1, <1>8, <2>1, <2>5, <2>6 DEF TfCommandOK, TfAllHonest, TfCovers
  <2> QED
    BY <1>1, <2>3, <2>4, <2>7, TfCommandSteps
<1>9. CASE found = NoTfFile /\ x.mode # "Inputs" /\ path = FlakeLock /\ TfStep(c, rest)
  <2>1. path \notin FlakeSource /\ tf_work[FlakeLock] = NoTfFile
    BY <1>9 DEF FlakeSource, found
  <2>2. TfCovers(x) => TfCovers(rest)
    BY <1>1, <1>2, <1>6, <1>9, <2>1 DEF TfCovers, TfSeen
  <2>3. TfCommandOK(rest)
    BY <1>1, <1>6, <2>2 DEF TfCommandOK
  <2> QED
    BY <1>1, <1>5, <1>9, <2>3, TfCommandSteps
<1>10. CASE /\ found # NoTfFile
            /\ TfStep(c, [rest EXCEPT !.pc = "read", !.path = path,
                                      !.meta = [mtime |-> found.mtime, ctime |-> found.ctime]])
  <2> DEFINE times == [mtime |-> found.mtime, ctime |-> found.ctime]
             next == [rest EXCEPT !.pc = "read", !.path = path, !.meta = times]
  <2>1. times \in [mtime : Nat, ctime : Nat] /\ times.ctime <= tf_edits
    BY <1>3, <1>10 DEF TfFileAt
  <2>2. TfStep(c, next)
    BY <1>10
  <2> HIDE DEF times
  <2>3. next \in TfComputations
    BY <1>2, <1>5, <2>1 DEF TfComputations
  <2>4. /\ next.pc = "read" /\ next.mode = x.mode /\ next.calm = x.calm /\ next.prior = x.prior
        /\ next.left = x.left \ {path} /\ next.entries = x.entries /\ next.path = path
        /\ next.meta = times
    BY <1>5, <1>6 DEF TfComputations
  <2> HIDE DEF next
  <2>5. TfSeen(next) = TfSeen(x)
    BY <1>1, <1>2, <2>4 DEF TfSeen
  <2>6. TfCommandOK(next)
    BY <1>1, <2>1, <2>4, <2>5 DEF TfCommandOK, TfCovers
  <2> QED
    BY <1>1, <2>2, <2>3, <2>6, TfCommandSteps
<1>11. CASE found = NoTfFile /\ TfStep(c, TfIdle)
  BY <1>1, <1>11, TfIdleOK, TfCommandSteps
<1>12. CASE found = NoTfFile /\ TfStep(c, [rest EXCEPT !.entries = Noted(@, path, MissingInput)])
  <2>1. MissingInput \in TfEntryValues /\ TfHonest(path, MissingInput) /\ TfAccurate(path, MissingInput)
    BY <1>12 DEF MissingInput, TfEntryValues, TfHonest, TfAccurate, found
  <2> QED
    BY <1>8, <1>12, <2>1
<1>13. CASE /\ found # NoTfFile /\ path \in DOMAIN x.prior /\ x.prior[path] # MissingInput
            /\ matches_metadata(x.prior[path], found)
            /\ TfStep(c, [rest EXCEPT !.entries = Noted(@, path, x.prior[path])])
  <2>1. x.prior[path] \in TfEntryValues /\ TfHonest(path, x.prior[path])
    BY <1>1, <1>7, <1>13, TfEntriesTyped DEF TfCommandOK, TfAllHonest
  <2>2. TfAccurate(path, x.prior[path])
    BY <1>13, <2>1 DEF TfHonest, TfAccurate, matches_metadata, found
  <2> QED
    BY <1>8, <1>13, <2>1, <2>2
<1> QED
  BY <1>4, <1>9, <1>10, <1>11, <1>12, <1>13

(* The bytes that are hashed are at least as new as the times beside them. *)
LEMMA TfReads ==
    ASSUME TfInv, NEW c \in TfCommands, read_file_bytes(c) PROVE TfInv'
<1> DEFINE x == tf[c]
           found == tf_work[x.path]
           read == [hash |-> found.text, mtime |-> x.meta.mtime, ctime |-> x.meta.ctime]
           noted == Noted(x.entries, x.path, read)
           next == [x EXCEPT !.pc = "next", !.meta = NoTimes, !.entries = noted]
<1>1. /\ x \in TfComputations /\ TfCommandOK(x) /\ x.pc = "read"
      /\ UNCHANGED <<tf_world, tf_index>>
      /\ x.path \in TfFiles /\ x.entries \in TfEntries /\ x.meta \in [mtime : Nat, ctime : Nat]
  BY DEF TfInv, TfTypeOK, read_file_bytes, TfComputations
<1>2. CASE found = NoTfFile
  <2>1. TfStep(c, TfIdle)
    BY <1>2 DEF read_file_bytes
  <2> QED
    BY <1>1, <2>1, TfIdleOK, TfCommandSteps
<1>3. CASE found # NoTfFile
  <2>1. TfStep(c, next)
    BY <1>1, <1>3 DEF read_file_bytes, TfComputations
  <2>2. found \in TfFileAt(x.path) /\ found.text \in TfAllTexts /\ found.text # NoTfFile
    <3>1. found \in TfFileAt(x.path)
      BY <1>1, <1>3 DEF TfInv, TfTypeOK
    <3> QED
      BY <3>1, TfAssumption DEF TfFileAt, TfAllTexts
  <2>3. /\ read \in TfEntryValues /\ read # MissingInput /\ read.hash = found.text
        /\ read.ctime = x.meta.ctime
    BY <1>1, <2>2 DEF TfEntryValues, MissingInput
  <2>4. TfHonest(x.path, read) /\ TfAccurate(x.path, read)
    BY <1>1, <1>3, <2>2, <2>3 DEF TfHonest, TfAccurate, TfCommandOK
  <2> HIDE DEF read
  <2>5. /\ noted \in TfEntries /\ DOMAIN noted = DOMAIN x.entries \cup {x.path}
        /\ \A q \in DOMAIN x.entries \cup {x.path} :
              noted[q] = IF q = x.path THEN read ELSE x.entries[q]
    <3>1. x.entries \in TfEntries /\ x.path \in TfFiles /\ read \in TfEntryValues
      BY <1>1, <2>3
    <3>2. noted \in TfEntries
      BY <3>1, TfNoted
    <3>3. DOMAIN noted = DOMAIN x.entries \cup {x.path}
      BY DEF Noted
    <3>4. \A q \in DOMAIN x.entries \cup {x.path} : noted[q] = IF q = x.path THEN read ELSE x.entries[q]
      BY DEF Noted
    <3> QED
      BY <3>2, <3>3, <3>4
  <2> HIDE DEF noted
  <2>6. NoTimes \in [mtime : Nat, ctime : Nat]
    BY DEF NoTimes
  <2>7. next \in TfComputations
    BY <1>1, <2>5, <2>6 DEF TfComputations
  <2>8. /\ next.pc = "next" /\ next.mode = x.mode /\ next.calm = x.calm /\ next.prior = x.prior
        /\ next.left = x.left /\ next.entries = noted
    BY <1>1 DEF TfComputations
  <2> HIDE DEF next, x, found
  <2>9. TfSeen(next) = TfSeen(x)
    BY <1>1, <2>5, <2>8 DEF TfSeen
  <2>10. TfCommandOK(next)
    BY <1>1, <2>4, <2>5, <2>8, <2>9 DEF TfCommandOK, TfAllHonest, TfCovers
  <2> QED
    BY <1>1, <2>1, <2>7, <2>10, TfCommandSteps
<1> QED
  BY <1>2, <1>3

(* The whole computation becomes the index of the next one.                *)
LEMMA TfStores ==
    ASSUME TfInv, NEW c \in TfCommands, store_fingerprint_index(c) PROVE TfInv'
<1> DEFINE x == tf[c]
           next == [TfIdle EXCEPT !.pc = "done", !.mode = x.mode, !.calm = x.calm, !.entries = x.entries]
           index == [entries |-> x.entries, full |-> x.mode = "FullWalk"]
<1>1. /\ x \in TfComputations /\ TfCommandOK(x) /\ x.pc = "next" /\ x.left = {}
      /\ TfStep(c, next) /\ UNCHANGED tf_world
      /\ x.entries \in TfEntries /\ KindOf(x.mode) \in {"tree", "inputs"}
  BY DEF TfInv, TfTypeOK, store_fingerprint_index, TfComputations, KindOf
<1>2. tf_index' = tf_index \/ tf_index' = [tf_index EXCEPT ![KindOf(x.mode)] = index]
  BY DEF store_fingerprint_index
<1>3. index \in TfIndexes /\ index.entries = x.entries /\ TfAllHonest(x.entries)
  <2>1. (x.mode = "FullWalk") \in BOOLEAN
    OBVIOUS
  <2> QED
    BY <1>1, <2>1 DEF TfIndexes, TfCommandOK
<1>4. TfIdle \in TfComputations /\ TfIdle.prior = NoEntries /\ TfIdle.left = {}
  BY TfIdleOK DEF TfIdle
<1>5. next \in TfComputations
  BY <1>1, <1>4 DEF TfComputations
<1>6. /\ next.pc = "done" /\ next.mode = x.mode /\ next.calm = x.calm /\ next.entries = x.entries
      /\ next.left = {} /\ next.prior = NoEntries
  BY <1>4 DEF TfComputations
<1> HIDE DEF next, x, index
<1>7. TfCommandOK(next)
  BY <1>1, <1>6, TfNoEntries DEF TfCommandOK, TfAllHonest, TfCovers, TfSeen
<1>8. UNCHANGED <<tf_work, tf_tracked, tf_git, tf_edits>>
  BY <1>1 DEF tf_world
<1>9. FlakeSource' = FlakeSource
  BY <1>8 DEF FlakeSource, analyze_flake_source
<1>10. \A y : TfCommandOK(y) => TfCommandOK(y)'
  BY <1>8, <1>9 DEF TfCommandOK, TfAllHonest, TfHonest, TfCovers, TfSeen, TfAccurate
<1>11. \A f : TfAllHonest(f) => TfAllHonest(f)'
  BY <1>8 DEF TfAllHonest, TfHonest
<1>12. \A d \in TfCommands : tf'[d] = tf[d] \/ tf'[d] = next
  BY <1>1 DEF TfInv, TfTypeOK, TfStep
<1>13. \A d \in TfCommands : TfCommandOK(tf[d])'
  BY <1>7, <1>10, <1>12 DEF TfInv
<1>14. TfTypeOK'
  BY <1>1, <1>2, <1>3, <1>5, <1>8 DEF TfInv, TfTypeOK, TfStep
<1>15. \A k \in {"tree", "inputs"} :
          tf_index'[k] = tf_index[k] \/ (tf_index'[k] = index /\ index.entries = x.entries)
  BY <1>1, <1>2, <1>3 DEF TfInv, TfTypeOK
<1>16. \A k \in {"tree", "inputs"} : tf_index'[k] # NoIndex => TfAllHonest(tf_index[k].entries)'
  BY <1>3, <1>11, <1>15 DEF TfInv
<1> QED
  BY <1>8, <1>13, <1>14, <1>16 DEF TfInv

(* A step of the user moves a change time beyond all that were noted, and  *)
(* disturbs every computation.                                             *)
LEMMA TfDisturbs == ASSUME TfInv, TfEdit PROVE TfInv'
<1>1. /\ tf_edits \in Nat /\ tf_edits' = tf_edits + 1
      /\ tf' = [c \in TfCommands |-> [tf[c] EXCEPT !.calm = (tf[c].pc = "idle")]]
      /\ UNCHANGED <<tf_runs, tf_index>>
  BY DEF TfInv, TfTypeOK, TfEdit
<1>2. /\ tf_work' = [p \in TfFiles |-> tf_work'[p]]
      /\ \A p \in TfFiles :
            \/ tf_work'[p] = tf_work[p]
            \/ tf_work'[p] = NoTfFile
            \/ tf_work'[p] \in TfFileAt(p) /\ tf_work'[p].ctime = tf_edits + 1
  <2>1. CASE \E p \in TfFiles, text \in TfTexts \cup FlakeTexts, restored \in BOOLEAN :
               /\ (p = FlakeNix) = (text \in FlakeTexts) /\ (restored => tf_work[p] # NoTfFile)
               /\ tf_work' = [tf_work EXCEPT ![p] =
                   [text |-> text, mtime |-> IF restored THEN @.mtime ELSE tf_edits + 1,
                    ctime |-> tf_edits + 1]]
    <3>1. PICK p \in TfFiles, text \in TfTexts \cup FlakeTexts, restored \in BOOLEAN :
               /\ (p = FlakeNix) = (text \in FlakeTexts) /\ (restored => tf_work[p] # NoTfFile)
               /\ tf_work' = [tf_work EXCEPT ![p] =
                   [text |-> text, mtime |-> IF restored THEN tf_work[p].mtime ELSE tf_edits + 1,
                    ctime |-> tf_edits + 1]]
      BY <2>1
    <3> DEFINE mtime == IF restored THEN tf_work[p].mtime ELSE tf_edits + 1
               file == [text |-> text, mtime |-> mtime, ctime |-> tf_edits + 1]
    <3>2. mtime \in Nat
      BY <1>1, <3>1 DEF TfInv, TfTypeOK, TfFileAt
    <3>3. text \in IF p = FlakeNix THEN FlakeTexts ELSE TfTexts
      BY <3>1
    <3>4. tf_work' = [tf_work EXCEPT ![p] = file]
      BY <3>1
    <3> HIDE DEF mtime
    <3>5. file \in TfFileAt(p) /\ file.ctime = tf_edits + 1
      BY <1>1, <3>2, <3>3 DEF TfFileAt
    <3> HIDE DEF file
    <3>6. DOMAIN tf_work = TfFiles
      BY DEF TfInv, TfTypeOK
    <3>7. \A q \in TfFiles : tf_work'[q] = IF q = p THEN file ELSE tf_work[q]
      BY <3>4, <3>6
    <3>8. tf_work' = [q \in TfFiles |-> tf_work'[q]]
      BY <3>4, <3>6
    <3> QED
      BY <3>5, <3>7, <3>8
  <2>2. CASE \E p \in TfFiles : tf_work' = [tf_work EXCEPT ![p] = NoTfFile]
    <3>1. DOMAIN tf_work = TfFiles
      BY DEF TfInv, TfTypeOK
    <3> QED
      BY <2>2, <3>1
  <2>3. CASE UNCHANGED tf_work
    BY <2>3 DEF TfInv, TfTypeOK
  <2> QED
    BY <2>1, <2>2, <2>3 DEF TfEdit
<1>3. \A p \in TfFiles : tf_work[p] # NoTfFile => tf_work[p].ctime <= tf_edits /\ tf_work[p].ctime \in Nat
  BY DEF TfInv, TfTypeOK, TfFileAt
<1>4. \A p \in TfFiles, e \in TfEntryValues : TfHonest(p, e) => TfHonest(p, e)'
  <2> TAKE p \in TfFiles, e \in TfEntryValues
  <2>1. e.ctime \in Nat
    BY DEF TfEntryValues
  <2> QED
    BY <1>1, <1>2, <1>3, <2>1 DEF TfHonest
<1>5. \A f \in TfEntries : TfAllHonest(f) => TfAllHonest(f)'
  BY <1>4, TfEntriesTyped DEF TfAllHonest
<1>6. TfTypeOK'
  <2>1. \A c \in TfCommands : [tf[c] EXCEPT !.calm = (tf[c].pc = "idle")] \in TfComputations
    <3> TAKE c \in TfCommands
    <3>1. tf[c] \in TfComputations /\ (tf[c].pc = "idle") \in BOOLEAN
      BY DEF TfInv, TfTypeOK
    <3> QED
      BY <3>1 DEF TfComputations
  <2>2. tf' \in [TfCommands -> TfComputations]
    BY <1>1, <2>1
  <2> QED
    BY <1>1, <1>2, <2>2 DEF TfInv, TfTypeOK
<1>7. \A p \in TfFiles : tf_work'[p] # NoTfFile => tf_work'[p].ctime <= tf_edits'
  BY <1>1, <1>2, <1>3
<1>8. \A k \in {"tree", "inputs"} : tf_index'[k] # NoIndex => TfAllHonest(tf_index[k].entries)'
  <2> TAKE k \in {"tree", "inputs"}
  <2>1. tf_index[k] # NoIndex => tf_index[k].entries \in TfEntries /\ TfAllHonest(tf_index[k].entries)
    BY DEF TfInv, TfTypeOK, TfIndexes
  <2> QED
    BY <1>1, <1>5, <2>1
<1>9. ASSUME NEW c \in TfCommands PROVE TfCommandOK(tf[c])'
  <2> DEFINE x == tf[c]
             next == [x EXCEPT !.calm = (x.pc = "idle")]
  <2>1. x \in TfComputations /\ TfCommandOK(x) /\ x.prior \in TfEntries /\ x.entries \in TfEntries
        /\ x.meta.ctime \in Nat
    BY DEF TfInv, TfTypeOK, TfComputations
  <2>2. tf'[c] = next
    BY <1>1
  <2>3. /\ next.pc = x.pc /\ next.prior = x.prior /\ next.entries = x.entries /\ next.meta = x.meta
        /\ next.left = x.left /\ next.calm = (x.pc = "idle")
    BY <2>1 DEF TfComputations
  <2> HIDE DEF next, x
  <2>4. TfAllHonest(x.prior) /\ TfAllHonest(x.entries)
    BY <2>1 DEF TfCommandOK
  <2>5. \A y : y = x.prior \/ y = x.entries => TfAllHonest(y)'
    BY <1>5, <2>1, <2>4
  <2>6. \A y : y = next => TfCommandOK(y)'
    <3>1. \A y : y = next => TfAllHonest(y.prior)' /\ TfAllHonest(y.entries)'
      BY <2>3, <2>5
    <3>2. x.meta.ctime <= tf_edits => x.meta.ctime <= tf_edits + 1
      BY <1>1, <2>1
    <3> QED
      BY <1>1, <2>1, <2>3, <3>1, <3>2 DEF TfCommandOK
  <2> QED
    BY <2>2, <2>6
<1> QED
  BY <1>6, <1>7, <1>8, <1>9 DEF TfInv

(* A fingerprint that nobody disturbed tells what the files contain: an    *)
(* entry is kept only beside the change time it was noted with, and every  *)
(* write since has moved that time.                                        *)
THEOREM FingerprintsHonest == TfSpec => []FingerprintHonest
<1>1. TfInit => TfInv
  <2> SUFFICES ASSUME TfInit PROVE TfInv
    OBVIOUS
  <2>1. /\ tf_work = [p \in TfFiles |-> tf_work[p]]
        /\ \A p \in TfFiles : tf_work[p] # NoTfFile =>
              tf_work[p] \in TfFileAt(p) /\ tf_work[p].ctime = 0
    <3>1. /\ tf_work = [p \in TfFiles |-> tf_work[p]]
          /\ \A p \in TfFiles : tf_work[p] # NoTfFile =>
              tf_work[p] \in [text : IF p = FlakeNix THEN FlakeTexts ELSE TfTexts, mtime : {0}, ctime : {0}]
      BY TfAssumption DEF TfInit
    <3> QED
      BY <3>1, TfAssumption DEF TfFileAt, TfInit
  <2>2. TfIdle \in TfComputations
    BY TfNoEntries, TfAssumption DEF TfIdle, TfComputations, TfIndexes, NoTimes
  <2>3. TfTypeOK
    BY <2>1, <2>2 DEF TfInit, TfTypeOK, TfIndexes
  <2>4. TfCommandOK(TfIdle)
    BY TfNoEntries DEF TfIdle, TfCommandOK, TfAllHonest
  <2> QED
    BY <2>1, <2>3, <2>4 DEF TfInit, TfInv
<1>2. TfInv /\ [TfNext]_tf_vars => TfInv'
  <2> SUFFICES ASSUME TfInv, [TfNext]_tf_vars PROVE TfInv'
    OBVIOUS
  <2>1. CASE UNCHANGED tf_vars
    <3>1. UNCHANGED <<tf_work, tf_tracked, tf_git, tf_edits, tf_index, tf>>
      BY <2>1 DEF tf_vars, tf_world
    <3>2. FlakeSource' = FlakeSource
      BY <3>1 DEF FlakeSource, analyze_flake_source
    <3>3. \A f : TfAllHonest(f) => TfAllHonest(f)'
      BY <3>1 DEF TfAllHonest, TfHonest
    <3>4. \A x : TfCommandOK(x) => TfCommandOK(x)'
      BY <3>1, <3>2 DEF TfCommandOK, TfAllHonest, TfHonest, TfCovers, TfSeen, TfAccurate
    <3>5. TfTypeOK'
      BY <3>1 DEF TfInv, TfTypeOK
    <3> QED
      BY <3>1, <3>3, <3>4, <3>5 DEF TfInv
  <2>2. ASSUME NEW c \in TfCommands, TfEnd(c) PROVE TfInv'
    BY <2>2, TfIdleOK, TfCommandSteps DEF TfEnd
  <2> QED
    BY <2>1, <2>2, TfBegins, TfEnumerates, TfLooks, TfReads, TfStores, TfDisturbs DEF TfNext
<1>3. TfInv => FingerprintHonest
  <2> SUFFICES ASSUME TfInv, NEW c \in TfCommands, tf[c].pc = "done", tf[c].calm
               PROVE  LET entries == tf[c].entries
                          present == {p \in DOMAIN entries : entries[p] # MissingInput}
                      IN  /\ \A p \in present : tf_work[p] # NoTfFile /\ entries[p].hash = tf_work[p].text
                          /\ \A p \in DOMAIN entries \ present : tf_work[p] = NoTfFile
                          /\ IF tf[c].mode = "Inputs" THEN DOMAIN entries = TfInputs
                             ELSE /\ FlakeSource \subseteq DOMAIN entries
                                  /\ tf_work[FlakeLock] # NoTfFile => FlakeLock \in DOMAIN entries
    BY DEF FingerprintHonest
  <2>1. /\ TfCovers(tf[c]) /\ \A p \in DOMAIN tf[c].entries : TfAccurate(p, tf[c].entries[p])
        /\ TfSeen(tf[c]) = DOMAIN tf[c].entries
    BY DEF TfInv, TfCommandOK, TfSeen
  <2> QED
    BY <2>1 DEF TfCovers, TfAccurate
<1> QED
  BY <1>1, <1>2, <1>3, PTL DEF TfSpec

=============================================================================
