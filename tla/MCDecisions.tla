---------------------------- MODULE MCDecisions ----------------------------
(***************************************************************************)
(* What a command works out before it runs anything: the action keys, the  *)
(* affected set, the plan, the environment of a child, what Nix can do and *)
(* the fingerprint of the flake.  They have no variable in common, so it   *)
(* is enough to run one at a time: `decision` says which.                  *)
(***************************************************************************)
EXTENDS MCActionCache, Affected, Planner, SpawnEnv, MCCapabilities, TreeFingerprint

VARIABLE decision

decide_vars == <<decision, ac_vars, aff_vars, pl_vars, se_vars, cp_vars, tf_vars>>

(* Every acyclic graph of the tasks, of which the first runs the app or    *)
(* does not.                                                               *)
MCAffAcyclic(deps) ==
    \A S \in SUBSET AffTasks : S # {} => \E t \in S : deps[t] \cap S = {}
MCAffEdges ==
    {[t \in AffTasks |-> deps[t] \cup (IF t = 2 THEN apps ELSE {})] :
        deps \in {d \in [AffTasks -> SUBSET AffTasks] : MCAffAcyclic(d)},
        apps \in SUBSET AffApps}
AffIdle ==
    /\ aff_needs = [t \in AffTasks |-> {}] /\ aff_roots = [n \in AffNodes |-> "miss"]
    /\ aff_global = FALSE /\ aff_status = [n \in AffNodes |-> NoStatus]
    /\ aff_queue = <<>> /\ aff_seen = {} /\ aff_pc = "first"

(* Every graph of three tasks, cyclic or not, one of which may need a task *)
(* that is missing, with matrices and two choices of roots.                *)
MCPlanDeclarations ==
    [dependsOn : {d \in [PlanTasks -> SUBSET {1, 2, 3, 4}] : 4 \notin d[1] \cup d[3]},
     include   : {<<0, 0, 0>>, <<2, 0, 1>>, <<0, 2, 2>>},
     roots     : {{3}, {1, 2}}]
PlanIdle ==
    /\ pl_decl = [dependsOn |-> <<{}, {}, {}>>, include |-> <<0, 0, 0>>, roots |-> {3}]
    /\ pl_reached = {} /\ pl_stack = {30} /\ pl_indegree = <<>> /\ pl_ready = {} /\ pl_order = <<>>
    /\ pl_frames = <<>> /\ pl_starts = {} /\ pl_path = <<>> /\ pl_pc = "graph"

(* Two variables, one of them in the allowlist.  Every pair of policies    *)
(* with at most two fields each, and every list of slots with every trust. *)
MCFields(label) ==
    {f \in [keep : SUBSET EnvVars, unset : SUBSET EnvVars,
            set : {[v \in EnvVars |-> IF v \in S THEN label ELSE "none"] : S \in SUBSET EnvVars}] :
        Cardinality(f.keep) + Cardinality(f.unset)
            + Cardinality({v \in EnvVars : f.set[v] # "none"}) <= 2}
MCClean(label) == {CleanPolicy(f.keep, f.set, f.unset) : f \in MCFields(label)}
MCInherit(label) == {inherit_with(f.keep, f.set, f.unset) : f \in MCFields(label)}
MCOnly(v, label) == [NoAssignment EXCEPT ![v] = label]
MCSlot(name, provider, delivery) == [name |-> name, provider |-> provider, delivery |-> delivery]
MCSlots == {<<>>, <<MCSlot("X", "env", "env")>>,
            <<MCSlot("X", "sops", "file"), MCSlot("HOME", "env", "env")>>,
            <<MCSlot("X", "file", "stdin"), MCSlot("HOME", "file", "stdin")>>,
            <<MCSlot("X", "env", "file"), MCSlot("HOME", "env", "stdin")>>}
MCCaller == [v \in EnvVars |-> "caller"]
MCEnvRequests ==
    [caller : {MCCaller}, cli : {PlainInherit} \cup MCClean("cli"),
     context : MCInherit("context") \cup MCClean("context"),
     secrets : {<<>>, <<MCSlot("X", "env", "env")>>}, param : {NoAssignment, MCOnly("X", "param")},
     matrix : {NoAssignment, MCOnly("HOME", "matrix")}, confirm : {FALSE}, trust : {"off"},
     piped : {TRUE}]
    \cup [caller : {MCCaller}, cli : {PlainInherit}, context : {PlainInherit}, secrets : MCSlots,
          param : {NoAssignment}, matrix : {NoAssignment}, confirm : BOOLEAN,
          trust : {"off", "missing", "granted"}, piped : BOOLEAN]
FirstRequest ==
    [caller |-> MCCaller, cli |-> PlainInherit, context |-> PlainInherit, secrets |-> <<>>,
     param |-> NoAssignment, matrix |-> NoAssignment, confirm |-> FALSE, trust |-> "off",
     piped |-> TRUE]
EnvIdle ==
    /\ se_req = FirstRequest /\ se_pc = "confirm" /\ se_next = 1 /\ se_over = NoAssignment
    /\ se_stdin = FALSE /\ se_files = {} /\ se_env = NoAssignment

(* A flake that refers to a file below wt-*, or computes what it imports.  *)
MCTfArea == [p \in TfFiles |-> IF p = "wt" THEN "worktree" ELSE "plain"]
MCTfReferences == [t \in FlakeTexts |-> IF t = "refers" THEN {"wt"} ELSE {}]
MCTfTree(wt) == [p \in TfFiles |-> CASE p = FlakeNix -> [text |-> "refers", mtime |-> 0, ctime |-> 0]
                                     [] p = FlakeLock -> [text |-> "x", mtime |-> 0, ctime |-> 0]
                                     [] OTHER -> wt]
MCTfTrees == {MCTfTree(wt) : wt \in {NoTfFile, [text |-> "x", mtime |-> 0, ctime |-> 0]}}

-----------------------------------------------------------------------------
Decisions == {"keys", "affected", "plan", "environment", "nix", "fingerprint"}

DecideInit ==
    /\ decision \in Decisions \cup {"none"}
    /\ AcInit /\ (decision # "keys" => ac_uncached = {})
    /\ IF decision # "affected" THEN AffIdle
       ELSE AffInit /\ (aff_global => \A n \in AffNodes : aff_roots[n] = "miss")
    /\ IF decision = "plan" THEN PlanInit ELSE PlanIdle
    /\ IF decision = "environment" THEN SpawnEnvInit ELSE EnvIdle
    /\ CapInit /\ (decision # "nix" => cp_nix = "old" /\ cp_files = <<{}>>)
    /\ TfInit /\ (decision # "fingerprint" => tf_work = MCTfTree(NoTfFile))

DecideNext ==
    /\ UNCHANGED decision
    /\ \/ decision = "keys" /\ AcNext
       \/ decision = "affected" /\ AffNext
       \/ decision = "plan" /\ PlanNext
       \/ decision = "environment" /\ SpawnEnvNext
       \/ decision = "nix" /\ CapNext
       \/ decision = "fingerprint" /\ TfNext
    /\ IF decision = "keys" THEN TRUE ELSE UNCHANGED ac_vars
    /\ IF decision = "affected" THEN TRUE ELSE UNCHANGED aff_vars
    /\ IF decision = "plan" THEN TRUE ELSE UNCHANGED pl_vars
    /\ IF decision = "environment" THEN TRUE ELSE UNCHANGED se_vars
    /\ IF decision = "nix" THEN TRUE ELSE UNCHANGED cp_vars
    /\ IF decision = "fingerprint" THEN TRUE ELSE UNCHANGED tf_vars

=============================================================================
