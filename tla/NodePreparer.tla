---------------------------- MODULE NodePreparer ----------------------------
(***************************************************************************)
(* From a planned node to what is spawned for it: TaskNodePreparer of      *)
(* crates/nxr-cli/src/commands/common.rs, as the run loop (task.rs) and    *)
(* nxr watch (watch.rs) use it.  Nodes are prepared all at once or when    *)
(* they are about to start, in two stages of which the second may run on   *)
(* a thread of its own beside the cache lookup; nodes that share a dev     *)
(* shell may have it materialized once; and a watch session prepares again *)
(* what an edit has dropped, with hints from the previous generation.      *)
(*                                                                         *)
(* An environment is [policy, shell]: whose policy it is, and the shell    *)
(* that was materialized into it.  Nodes are numbers in the serial order.  *)
(***************************************************************************)
EXTENDS Naturals, FiniteSets

CONSTANTS
    PrepNodes,
    PrepDependsOn,    \* node -> its dependencies
    Contexts,         \* context -> [policy, shell, secrets, confirm]
    NoContext, NoShell, BasePolicy,
    DevShells,        \* the shells that the flake has
    Definitions,      \* what a plan may declare: node -> [context, shell, outputs, binds, parameters]
    PrepRequests,     \* [lazy, pipeline, keepGoing, watch, prewarm, trusted, set,
                      \*  shell, mode, active]
    PrepJobs, MaxGenerations

ASSUME PreparerAssumption ==
    /\ PrepNodes \subseteq Nat /\ IsFiniteSet(PrepNodes)
    /\ PrepDependsOn \in [PrepNodes -> SUBSET PrepNodes]
    /\ \A n \in PrepNodes : \A d \in PrepDependsOn[n] : d < n
    /\ \A def \in Definitions, n \in PrepNodes :
          def[n].binds \subseteq PrepDependsOn[n] /\ def[n].context \in DOMAIN Contexts \cup {NoContext}
    /\ \A r \in PrepRequests : r.mode \in {"smart", "always", "never"} /\ (r.watch => ~ r.lazy)
    /\ {PrepJobs, MaxGenerations} \subseteq Nat

VARIABLES
    np_defs, np_req,
    np_live,       \* PrepMode: "live", "partial" (live, seeded) or "sealed"
    np_prepared,   \* node -> PreparedTaskNode, or Absent
    np_upstream,   \* nodes whose action key is known
    np_shared,     \* one_shell_shared, or NoShared
    np_hints,      \* node -> PrewarmContext of the session, or Absent
    np_tickets,    \* node -> the worker of its SpawnPlanTicket: none, runs, parts, refused
    np_cancel,     \* nodes whose ticket is cancelled
    np_pc,
    np_ready,      \* what is left of the queue that the step goes through
    np_spawns,     \* spawn_queue
    np_budget,     \* successors that may still be prepared ahead in this iteration
    np_started, np_done, np_failed,
    np_spawned,    \* ghost: node -> what was spawned in this generation, or Absent
    np_again,      \* ghost: nodes prepared again by the session
    np_generation

np_vars == <<np_defs, np_req, np_live, np_prepared, np_upstream, np_shared, np_hints, np_tickets,
             np_cancel, np_pc, np_ready, np_spawns, np_budget, np_started, np_done, np_failed,
             np_spawned, np_again, np_generation>>

Absent == [stage |-> "absent"]
NoShared == [shell |-> NoShell, policy |-> BasePolicy]

Lowest(S) == CHOOSE n \in S : \A m \in S : n <= m

-----------------------------------------------------------------------------
(* What the definitions say of a node.                                     *)

apply_task_context(n) ==
    IF np_defs[n].context = NoContext
    THEN [policy |-> BasePolicy, shell |-> NoShell, secrets |-> FALSE, confirm |-> FALSE]
    ELSE Contexts[np_defs[n].context]

(* The command line's shell, the context's, the task's.                    *)
resolve_effective_shell(n) ==
    CASE np_req.shell # NoShell -> np_req.shell
      [] np_req.shell = NoShell /\ apply_task_context(n).shell # NoShell -> apply_task_context(n).shell
      [] OTHER -> np_defs[n].shell

effective_shell_wrap(shell) ==
    /\ shell # NoShell /\ np_req.mode # "never"
    /\ np_req.mode = "smart" => np_req.active # shell

(* build_workspace_cache_plan, as far as it depends on preparation.        *)
cache_enabled(n, secrets, upstream) ==
    np_defs[n].outputs /\ ~ secrets /\ np_defs[n].binds \subseteq upstream

Parameter(n, set) ==
    IF ~ np_defs[n].parameters THEN "none" ELSE IF set THEN "set" ELSE "default"

-----------------------------------------------------------------------------
(* The two stages.                                                         *)

(* A hint replaces the context by what the session kept of it, which is    *)
(* not the applied context with its secrets.                               *)
ContextOf(n) ==
    LET context == apply_task_context(n)
    IN  IF np_live = "partial" /\ np_hints[n] # Absent
        THEN [shell |-> np_hints[n].shell, env |-> np_hints[n].env, secrets |-> FALSE,
              confirm |-> np_hints[n].confirm]
        ELSE [shell |-> resolve_effective_shell(n), env |-> [policy |-> context.policy, shell |-> NoShell],
              secrets |-> context.secrets, confirm |-> context.confirm]

(* UnknownDevShell.                                                        *)
Preparable(n) == effective_shell_wrap(ContextOf(n).shell) => ContextOf(n).shell \in DevShells

(* A preparer for part of a plan has no resolved parameters.               *)
prepare_cas_inputs(n) ==
    LET context == ContextOf(n)
    IN  [stage |-> "CasInputs", shell |-> context.shell, wrapped |-> effective_shell_wrap(context.shell),
         env |-> context.env, secrets |-> context.secrets, confirm |-> context.confirm,
         parameter |-> Parameter(n, np_req.set /\ np_live # "partial"),
         cached |-> cache_enabled(n, context.secrets, np_upstream)]

(* compute_spawn_plan_parts: it reads the definition, not the hint.        *)
compute_spawn_plan_parts(n) ==
    LET shell == resolve_effective_shell(n)
    IN  [shell |-> shell, wrapped |-> effective_shell_wrap(shell),
         secrets |-> apply_task_context(n).secrets]

apply_one_shell_strip_to_node(node, shared) ==
    IF node.shell = shared.shell /\ node.wrapped
    THEN [node EXCEPT !.wrapped = FALSE, !.env = [policy |-> shared.policy, shell |-> shared.shell]]
    ELSE node

apply_spawn_plan_parts(node, parts) ==
    LET planned == [node EXCEPT !.stage = "SpawnPlan", !.shell = parts.shell,
                                !.wrapped = parts.wrapped, !.secrets = parts.secrets]
    IN  IF node.stage = "SpawnPlan" THEN node
        ELSE IF np_shared = NoShared THEN planned
        ELSE apply_one_shell_strip_to_node(planned, np_shared)

pipeline_enabled == np_live = "live" /\ np_req.lazy /\ np_req.pipeline

(* ensure_stage with advance_to_stage, which stops at the first stage only *)
(* if the second may run on its own.                                       *)
StopsAt(stage) == stage = "CasInputs" /\ pipeline_enabled

Below(stage) ==
    {n \in PrepNodes : np_prepared[n] = Absent
                        \/ (np_prepared[n].stage = "CasInputs" /\ ~ StopsAt(stage))}

ensure_stage(n, stage) ==
    LET begun == IF np_prepared[n] = Absent THEN prepare_cas_inputs(n) ELSE np_prepared[n]
    IN  IF np_prepared[n] = Absent /\ ~ Preparable(n)
        THEN np_pc' = "error" /\ UNCHANGED <<np_prepared, np_upstream>>
        ELSE /\ np_prepared' = [np_prepared EXCEPT ![n] =
                    IF StopsAt(stage) THEN begun
                    ELSE apply_spawn_plan_parts(begun, compute_spawn_plan_parts(n))]
             /\ np_upstream' = IF begun.cached THEN np_upstream \cup {n} ELSE np_upstream
             /\ UNCHANGED np_pc

(* A loop over nodes in their order; an error ends it, and the run.        *)
ensure_many(S, stage) ==
    S \cap Below(stage) # {} /\ ensure_stage(Lowest(S \cap Below(stage)), stage)

-----------------------------------------------------------------------------
(* One shell for the whole plan.                                           *)

(* Fault: the environments of the wrapped nodes are not compared.          *)
Alike_shell(wrapped, runsIn) ==
    Cardinality(wrapped) >= 2 /\ \A a, b \in wrapped : runsIn[a].shell = runsIn[b].shell

(* runsIn is node -> [shell, policy].                                      *)
Alike(wrapped, runsIn) ==
    Cardinality(wrapped) >= 2 /\ \A a, b \in wrapped : runsIn[a] = runsIn[b]

metadata_workspace_cache_likely_enabled(n) == np_defs[n].outputs /\ ~ apply_task_context(n).secrets

(* preflight_one_shell_metadata_eligibility: from the definitions alone.   *)
preflight_one_shell ==
    LET runsIn == [n \in PrepNodes |-> [shell  |-> resolve_effective_shell(n),
                                        policy |-> apply_task_context(n).policy]]
        wrapped == {n \in PrepNodes : effective_shell_wrap(runsIn[n].shell)}
    IN  IF /\ \A n \in PrepNodes : ~ apply_task_context(n).confirm /\ ~ apply_task_context(n).secrets
           /\ \A n \in wrapped : ~ metadata_workspace_cache_likely_enabled(n)
           /\ Alike(wrapped, runsIn)
        THEN runsIn[Lowest(wrapped)] ELSE NoShared

(* analyze_one_shell_dag_eligibility: from prepared nodes.  A node without *)
(* a shell rules the optimization out.                                     *)
analyze_one_shell(prepared) ==
    LET runsIn == [n \in PrepNodes |-> [shell |-> prepared[n].shell, policy |-> prepared[n].env.policy]]
        wrapped == {n \in PrepNodes : prepared[n].wrapped}
    IN  IF /\ \A n \in PrepNodes : prepared[n].shell # NoShell
           /\ \A n \in wrapped : ~ (prepared[n].confirm \/ prepared[n].secrets \/ prepared[n].cached)
           /\ Alike(wrapped, runsIn)
        THEN runsIn[Lowest(wrapped)] ELSE NoShared

-----------------------------------------------------------------------------
NoneOf == [n \in PrepNodes |-> Absent]

PrepInit ==
    /\ np_defs \in Definitions /\ np_req \in PrepRequests
    /\ np_live = "live" /\ np_prepared = NoneOf /\ np_upstream = {}
    /\ np_shared = NoShared /\ np_hints = NoneOf
    /\ np_tickets = [n \in PrepNodes |-> "none"] /\ np_cancel = {}
    /\ np_pc = "new" /\ np_ready = {} /\ np_spawns = {} /\ np_budget = PrepJobs
    /\ np_started = {} /\ np_done = {} /\ np_failed = {}
    /\ np_spawned = NoneOf /\ np_again = {} /\ np_generation = 1

(* No run is prepared; for compositions.                                   *)
PrepOff ==
    /\ np_defs = <<>> /\ np_req = <<>>
    /\ np_live = "sealed" /\ np_prepared = NoneOf /\ np_upstream = {}
    /\ np_shared = NoShared /\ np_hints = NoneOf
    /\ np_tickets = [n \in PrepNodes |-> "none"] /\ np_cancel = {}
    /\ np_pc = "off" /\ np_ready = {} /\ np_spawns = {} /\ np_budget = 0
    /\ np_started = {} /\ np_done = {} /\ np_failed = {}
    /\ np_spawned = NoneOf /\ np_again = {} /\ np_generation = 0

Prepares == UNCHANGED <<np_defs, np_req, np_hints, np_tickets, np_cancel, np_spawns, np_budget,
                        np_started, np_done, np_failed, np_spawned, np_generation>>

(* plan_requires_project_trust and requires_project_trust.                 *)
requires_project_trust ==
    \E n \in PrepNodes : apply_task_context(n).confirm \/ apply_task_context(n).secrets

Unscheduled(done, failed) ==
    {n \in PrepNodes \ np_started : PrepDependsOn[n] \subseteq done /\ (failed = {} \/ np_req.keepGoing)}

(* execute_with_control for a plan that is made anew: prepare_task_nodes,  *)
(* or TaskNodePreparer::new.  Watch caches are prepared eagerly.           *)
prepare_task_nodes ==
    /\ np_pc = "new" /\ ~ np_req.lazy
    /\ \/ ensure_many(PrepNodes, "SpawnPlan")
       \/ /\ Below("SpawnPlan") = {}
          /\ np_pc' = "shell" /\ UNCHANGED <<np_prepared, np_upstream>>
    /\ UNCHANGED <<np_live, np_shared, np_ready, np_again>> /\ Prepares

new_lazy ==
    /\ np_pc = "new" /\ np_req.lazy
    /\ np_pc' = "shell"
    /\ UNCHANGED <<np_live, np_prepared, np_upstream, np_shared, np_ready, np_again>> /\ Prepares

(* apply_one_shell_dag_optimization on the prepared nodes, or              *)
(* try_apply_one_shell, which keeps the shell for the nodes to come; nix   *)
(* may fail to print the environment.  Then the trust of the project.      *)
materialize_one_shell_shared ==
    /\ np_pc = "shell"
    /\ LET shared == IF np_req.lazy THEN preflight_one_shell ELSE analyze_one_shell(np_prepared)
       IN  \/ /\ shared # NoShared
              /\ np_pc' = "error" /\ UNCHANGED <<np_prepared, np_shared, np_live, np_ready>>
           \/ /\ IF requires_project_trust => np_req.trusted
                 THEN np_pc' = "prepare" /\ np_ready' = Unscheduled({}, {})
                 ELSE np_pc' = "error" /\ UNCHANGED np_ready
              /\ IF np_req.lazy
                 THEN np_shared' = shared /\ UNCHANGED <<np_prepared, np_live>>
                 ELSE /\ np_prepared' = [n \in PrepNodes |->
                             IF shared = NoShared THEN np_prepared[n]
                             ELSE apply_one_shell_strip_to_node(np_prepared[n], shared)]
                      /\ np_live' = "sealed" /\ UNCHANGED np_shared
    /\ UNCHANGED <<np_upstream, np_again>> /\ Prepares

-----------------------------------------------------------------------------
(* One iteration of the run loop, as far as it prepares and starts nodes.  *)

(* Phase 3: the nodes that are about to start.                             *)
ensure_cas_inputs_many ==
    /\ np_pc = "prepare"
    /\ ensure_many(np_ready, "CasInputs")
    /\ UNCHANGED <<np_live, np_shared, np_ready, np_again>> /\ Prepares

(* Dependents of those that nobody has prepared, up to the budget.         *)
Dependents(n) == {c \in PrepNodes : n \in PrepDependsOn[c] /\ np_prepared[c] = Absent}

Successors ==
    IF np_req.keepGoing /\ np_live # "sealed" /\ np_budget > 0
    THEN {n \in np_ready : Dependents(n) # {}} ELSE {}

speculate_successors ==
    /\ np_pc = "prepare" /\ np_ready \cap Below("CasInputs") = {}
    /\ Successors # {}
    /\ ensure_stage(Lowest(Dependents(Lowest(Successors))), "CasInputs")
    /\ np_budget' = np_budget - 1
    /\ UNCHANGED <<np_defs, np_req, np_live, np_shared, np_hints, np_tickets, np_cancel, np_ready,
                   np_spawns, np_started, np_done, np_failed, np_spawned, np_again, np_generation>>

(* Phase 4 begins.                                                         *)
AllEnsured ==
    /\ np_pc = "prepare" /\ np_ready \cap Below("CasInputs") = {} /\ Successors = {}
    /\ np_pc' = "lookup" /\ np_budget' = PrepJobs
    /\ UNCHANGED <<np_defs, np_req, np_live, np_prepared, np_upstream, np_shared, np_hints, np_tickets,
                   np_cancel, np_ready, np_spawns, np_started, np_done, np_failed, np_spawned, np_again,
                   np_generation>>

Next1 == Lowest(np_ready)

(* A ticket for a node whose spawn plan is there already has no worker.  A *)
(* cancelled worker is joined before the next lookup.                      *)
CancelsJoined == \A n \in np_cancel : np_tickets[n] # "runs"

start_spawn_plan ==
    /\ np_pc = "lookup" /\ np_ready # {} /\ CancelsJoined
    /\ np_tickets[Next1] = "none" /\ pipeline_enabled
    /\ np_prepared[Next1].stage # "SpawnPlan"
    /\ np_tickets' = [np_tickets EXCEPT ![Next1] = "runs"]
    /\ UNCHANGED <<np_defs, np_req, np_live, np_prepared, np_upstream, np_shared, np_hints, np_cancel,
                   np_pc, np_ready, np_spawns, np_budget, np_started, np_done, np_failed, np_spawned, np_again,
                   np_generation>>

(* The worker looks at the flag before it computes.                        *)
SpawnPlanWorker(n) ==
    /\ np_tickets[n] = "runs"
    /\ np_tickets' = [np_tickets EXCEPT ![n] = IF n \in np_cancel THEN "refused" ELSE "parts"]
    /\ UNCHANGED <<np_defs, np_req, np_live, np_prepared, np_upstream, np_shared, np_hints, np_cancel,
                   np_pc, np_ready, np_spawns, np_budget, np_started, np_done, np_failed, np_spawned, np_again,
                   np_generation>>

Ticketed(n) ==
    CancelsJoined /\ (~ pipeline_enabled \/ np_prepared[n].stage = "SpawnPlan" \/ np_tickets[n] # "none")

(* try_workspace_cache_restore hits: the ticket is cancelled and joined,   *)
(* and the node is complete.                                               *)
LookupHits ==
    /\ np_pc = "lookup" /\ np_ready # {} /\ Ticketed(Next1)
    /\ np_prepared[Next1].cached
    /\ np_cancel' = IF np_tickets[Next1] = "none" THEN np_cancel ELSE np_cancel \cup {Next1}
    /\ np_ready' = np_ready \ {Next1}
    /\ np_started' = np_started \cup {Next1} /\ np_done' = np_done \cup {Next1}
    /\ UNCHANGED <<np_defs, np_req, np_live, np_prepared, np_upstream, np_shared, np_hints, np_tickets,
                   np_pc, np_spawns, np_budget, np_failed, np_spawned, np_again, np_generation>>

(* A miss: the node waits for its ticket, or has its spawn plan.           *)
LookupMisses ==
    /\ np_pc = "lookup" /\ np_ready # {} /\ Ticketed(Next1)
    /\ np_spawns' = np_spawns \cup {Next1} /\ np_started' = np_started \cup {Next1}
    /\ np_ready' = np_ready \ {Next1}
    /\ UNCHANGED <<np_defs, np_req, np_live, np_prepared, np_upstream, np_shared, np_hints, np_tickets,
                   np_cancel, np_pc, np_budget, np_done, np_failed, np_spawned, np_again, np_generation>>

(* join_spawn_plan of the misses; cancelled tickets were joined before.    *)
join_spawn_plan ==
    /\ np_pc = "lookup" /\ np_ready = {}
    /\ \A n \in PrepNodes : np_tickets[n] # "runs"
    /\ \/ ensure_many(np_spawns, "SpawnPlan") /\ UNCHANGED <<np_tickets, np_cancel>>
       \/ /\ np_spawns \cap Below("SpawnPlan") = {}
          /\ np_tickets' = [n \in PrepNodes |-> "none"] /\ np_cancel' = {} /\ np_pc' = "spawn"
          /\ UNCHANGED <<np_prepared, np_upstream>>
    /\ UNCHANGED <<np_defs, np_req, np_live, np_shared, np_hints, np_ready, np_spawns, np_budget,
                   np_started, np_done, np_failed, np_spawned, np_again, np_generation>>

(* spawn_node for each of them.                                            *)
SpawnMisses ==
    /\ np_pc = "spawn"
    /\ np_spawned' = [n \in PrepNodes |-> IF n \in np_spawns THEN np_prepared[n] ELSE np_spawned[n]]
    /\ np_spawns' = {} /\ np_pc' = "wait"
    /\ UNCHANGED <<np_defs, np_req, np_live, np_prepared, np_upstream, np_shared, np_hints, np_tickets,
                   np_cancel, np_ready, np_budget, np_started, np_done, np_failed, np_again, np_generation>>

UnderWay == {n \in PrepNodes : np_spawned[n] # Absent} \ (np_done \cup np_failed)

NodeExits(n, ok) ==
    /\ np_pc = "wait" /\ n \in UnderWay
    /\ np_done' = IF ok THEN np_done \cup {n} ELSE np_done
    /\ np_failed' = IF ok THEN np_failed ELSE np_failed \cup {n}
    /\ np_ready' = Unscheduled(np_done', np_failed') /\ np_pc' = "prepare"
    /\ UNCHANGED <<np_defs, np_req, np_live, np_prepared, np_upstream, np_shared, np_hints, np_tickets,
                   np_cancel, np_spawns, np_budget, np_started, np_spawned, np_again, np_generation>>

(* Hits alone have unlocked the next nodes.  That an exit in the same      *)
(* iteration may lose them is TaskRun's matter.                            *)
HitsUnlock ==
    /\ np_pc = "wait" /\ Unscheduled(np_done, np_failed) # {}
    /\ np_ready' = Unscheduled(np_done, np_failed) /\ np_pc' = "prepare"
    /\ UNCHANGED <<np_live, np_prepared, np_upstream, np_shared, np_again>> /\ Prepares

(* sync_prewarm_nodes: what a session keeps of each node's context.        *)
Kept == [n \in PrepNodes |-> [stage |-> "hint", shell |-> np_prepared[n].shell,
                              env |-> np_prepared[n].env, confirm |-> np_prepared[n].confirm]]

GenerationOver ==
    /\ np_pc = "wait" /\ UnderWay = {} /\ Unscheduled(np_done, np_failed) = {}
    /\ np_pc' = IF np_req.watch THEN "idle" ELSE "done"
    /\ np_hints' = IF np_req.watch /\ np_req.prewarm THEN Kept ELSE np_hints
    /\ UNCHANGED <<np_defs, np_req, np_live, np_prepared, np_upstream, np_shared, np_tickets, np_cancel,
                   np_ready, np_spawns, np_budget, np_started, np_done, np_failed, np_spawned, np_again,
                   np_generation>>

-----------------------------------------------------------------------------
(* The next generation of a watch session.                                 *)

Restarts ==
    /\ np_pc = "idle" /\ np_generation < MaxGenerations
    /\ np_generation' = np_generation + 1
    /\ np_started' = {} /\ np_done' = {} /\ np_failed' = {} /\ np_spawned' = NoneOf
    /\ UNCHANGED <<np_defs, np_req, np_tickets, np_cancel, np_spawns, np_budget>>

(* reprepare_missing_task_nodes: a source edit has dropped some nodes; the *)
(* rest of the plan is kept.                                               *)
reprepare_missing_task_nodes ==
    \E dropped \in SUBSET PrepNodes :
        LET kept == [n \in PrepNodes |-> IF n \in dropped THEN Absent ELSE np_prepared[n]]
        IN  /\ Restarts
            /\ np_pc' = "reprepare" /\ np_ready' = dropped
            /\ np_prepared' = kept /\ np_upstream' = {}
            /\ np_live' = "partial" /\ np_again' = np_again \cup dropped
            /\ UNCHANGED <<np_shared, np_hints>>

(* prepare_all of from_partial_prepared, then a sealed preparer.           *)
prepare_all ==
    /\ np_pc = "reprepare"
    /\ \/ ensure_many(np_ready, "SpawnPlan") /\ UNCHANGED <<np_live, np_ready, np_hints>>
       \/ /\ np_ready \cap Below("SpawnPlan") = {}
          /\ np_pc' = "prepare" /\ np_live' = "sealed" /\ np_ready' = Unscheduled({}, {})
          /\ np_hints' = IF np_req.prewarm THEN Kept ELSE np_hints
          /\ UNCHANGED <<np_prepared, np_upstream>>
    /\ UNCHANGED <<np_defs, np_req, np_shared, np_tickets, np_cancel, np_spawns, np_budget, np_started,
                   np_done, np_failed, np_spawned, np_again, np_generation>>

(* An edit of the metadata drops the plan and resets the session's hints.  *)
MetadataEdit ==
    /\ Restarts
    /\ np_pc' = "new" /\ np_live' = "live" /\ np_prepared' = NoneOf /\ np_upstream' = {}
    /\ np_hints' = NoneOf /\ np_again' = {} /\ np_ready' = {}
    /\ UNCHANGED np_shared

PrepNext ==
    \/ prepare_task_nodes \/ new_lazy \/ materialize_one_shell_shared
    \/ ensure_cas_inputs_many \/ speculate_successors \/ AllEnsured \/ start_spawn_plan
    \/ \E n \in PrepNodes : SpawnPlanWorker(n)
    \/ LookupHits \/ LookupMisses \/ join_spawn_plan \/ SpawnMisses
    \/ \E n \in PrepNodes, ok \in BOOLEAN : NodeExits(n, ok)
    \/ HitsUnlock \/ GenerationOver
    \/ reprepare_missing_task_nodes \/ prepare_all \/ MetadataEdit

PrepSpec == PrepInit /\ [][PrepNext]_np_vars

-----------------------------------------------------------------------------
OwnContext(n) ==
    LET context == apply_task_context(n)
    IN  /\ np_spawned[n].env.policy = context.policy
        /\ np_spawned[n].secrets = context.secrets /\ np_spawned[n].confirm = context.confirm
        /\ context.secrets \/ context.confirm => np_req.trusted

(* Inside its shell: `nix develop` around the command, or the environment  *)
(* of the shell materialized.                                              *)
Wraps(n) == {w \in {"wrapped", "materialized"} :
                IF w = "wrapped" THEN np_spawned[n].wrapped ELSE np_spawned[n].env.shell # NoShell}

InShell(n) ==
    LET shell == resolve_effective_shell(n)
    IN  /\ (Wraps(n) # {}) = effective_shell_wrap(shell)
        /\ np_spawned[n].shell = shell /\ np_spawned[n].env.shell \in {NoShell, shell}

(* Whatever was prepared lazily, ahead, beside the lookup, for one shared  *)
(* shell or for an earlier generation: a node is spawned from a complete   *)
(* plan, with its own context, inside its own shell and once only, with    *)
(* the parameters of the command line, and is cached only under the        *)
(* command that is spawned and without secrets.  A node that the session   *)
(* has prepared again keeps the first half of this.                        *)
SpawnedAsDeclared ==
    \A n \in PrepNodes : np_spawned[n] # Absent =>
        /\ np_spawned[n].stage = "SpawnPlan" /\ OwnContext(n) /\ InShell(n)
        /\ n \notin np_again =>
              /\ Cardinality(Wraps(n)) <= 1
              /\ np_spawned[n].parameter = Parameter(n, np_req.set)
              /\ np_spawned[n].cached => ~ np_spawned[n].secrets /\ np_spawned[n].env.shell = NoShell

(* Under fail-fast nothing is prepared that is not about to run.           *)
NeverRunUnprepared ==
    np_pc # "off" /\ np_req.lazy /\ ~ np_req.keepGoing =>
        \A n \in PrepNodes : np_prepared[n] # Absent => n \in np_started \cup np_ready

PreparationSound == SpawnedAsDeclared /\ NeverRunUnprepared

(* ADR-0147: secret-bearing tasks disable the workspace cache by default.  *)
SecretsUncached ==
    \A n \in PrepNodes : np_spawned[n] # Absent /\ apply_task_context(n).secrets => ~ np_spawned[n].cached

=============================================================================
