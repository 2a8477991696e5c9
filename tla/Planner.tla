------------------------------ MODULE Planner ------------------------------
(***************************************************************************)
(* From task definitions to a plan: the expansion of matrix tasks          *)
(* (crates/nxr-task/src/matrix.rs), the subgraph of the roots (graph.rs),  *)
(* Kahn's algorithm and the search for a cycle to report (planner.rs), as  *)
(* build_execution_plan_roots of plan_exec.rs calls them.                  *)
(*                                                                         *)
(* Node ids are numbers in the order of the id strings: task t is 10t and  *)
(* its instance t@k is 10t + 1 + k.                                        *)
(***************************************************************************)
EXTENDS Naturals, Sequences, FiniteSets, FiniteSetsExt

CONSTANTS
    PlanTasks,        \* the declared tasks, 1..n
    PlanDeclarations, \* what may be declared: [dependsOn, include, roots]
    MissingTask       \* a task nobody declares

ASSUME PlannerAssumption ==
    /\ PlanTasks \subseteq Nat /\ IsFiniteSet(PlanTasks) /\ MissingTask \in Nat \ PlanTasks
    /\ \A p \in PlanDeclarations :
          /\ p.dependsOn \in [PlanTasks -> SUBSET (PlanTasks \cup {MissingTask})]
          /\ p.include \in [PlanTasks -> 0..8]
          /\ p.roots \subseteq PlanTasks /\ p.roots # {}

VARIABLES
    pl_decl,      \* the declarations
    pl_reached,   \* subgraph_union: `reachable`
    pl_stack,     \* its stack, as the set of the ids that are not reached yet
    pl_indegree,  \* node -> its dependencies that are not in pl_order
    pl_ready, pl_order,
    pl_frames,    \* dfs_cycle: its stack, each node with the dependencies left
    pl_starts,    \* find_cycle_path: the nodes not yet tried
    pl_path,      \* the cycle it reports
    pl_pc

pl_graph == <<pl_decl, pl_reached, pl_stack>>
pl_vars == <<pl_graph, pl_indegree, pl_ready, pl_order, pl_frames, pl_starts, pl_path, pl_pc>>

-----------------------------------------------------------------------------
(* expand_matrix_tasks: the nodes of a task.                               *)
instance_ids(t) ==
    IF t \in PlanTasks /\ pl_decl.include[t] > 0 THEN {10 * t + k : k \in 1..pl_decl.include[t]}
    ELSE {10 * t}

task_of(id) == id \div 10

(* Fault: a dependent waits for the first instance only.                   *)
expand_depends_on_first(deps) == {Min(instance_ids(t)) : t \in deps}

expand_depends_on(deps) == UNION {instance_ids(t) : t \in deps}

expanded == UNION {instance_ids(t) : t \in PlanTasks}

depends_on(id) == expand_depends_on(pl_decl.dependsOn[task_of(id)])

expand_matrix_roots == UNION {instance_ids(t) : t \in pl_decl.roots}

plan_dependents(id) == {c \in DOMAIN pl_indegree : id \in depends_on(c)}

PlanInit ==
    /\ pl_decl \in PlanDeclarations
    /\ pl_reached = {} /\ pl_stack = expand_matrix_roots
    /\ pl_indegree = <<>> /\ pl_ready = {} /\ pl_order = <<>>
    /\ pl_frames = <<>> /\ pl_starts = {} /\ pl_path = <<>>
    /\ pl_pc = "graph"

(* One id is taken from the stack, and what it depends on put there; an id *)
(* that is not declared is an error.                                       *)
subgraph_union ==
    /\ pl_pc = "graph" /\ pl_stack # {}
    /\ LET id == Min(pl_stack)
       IN IF depends_on(id) \subseteq expanded
          THEN /\ pl_reached' = pl_reached \cup {id}
               /\ pl_stack' = (pl_stack \cup depends_on(id)) \ (pl_reached \cup {id})
               /\ UNCHANGED pl_pc
          ELSE pl_pc' = "MissingDependency" /\ UNCHANGED <<pl_reached, pl_stack>>
    /\ UNCHANGED <<pl_decl, pl_indegree, pl_ready, pl_order, pl_frames, pl_starts, pl_path>>

(* topo_serial starts with the nodes that wait for none.                   *)
topo_serial_start ==
    /\ pl_pc = "graph" /\ pl_stack = {}
    /\ pl_indegree' = [id \in pl_reached |-> Cardinality(depends_on(id))]
    /\ pl_ready' = {id \in pl_reached : depends_on(id) = {}}
    /\ pl_pc' = "sort"
    /\ UNCHANGED <<pl_graph, pl_order, pl_frames, pl_starts, pl_path>>

-----------------------------------------------------------------------------
(* One turn of topo_serial: the smallest ready node.                       *)
topo_serial ==
    /\ pl_pc = "sort" /\ pl_ready # {}
    /\ LET id == Min(pl_ready)
           left(c) == IF c \in plan_dependents(id) THEN pl_indegree[c] - 1 ELSE pl_indegree[c]
       IN /\ pl_order' = Append(pl_order, id)
          /\ pl_indegree' = [c \in DOMAIN pl_indegree |-> left(c)]
          /\ pl_ready' = (pl_ready \ {id}) \cup {c \in plan_dependents(id) : left(c) = 0}
    /\ UNCHANGED <<pl_graph, pl_frames, pl_starts, pl_path, pl_pc>>

remaining == {id \in DOMAIN pl_indegree : pl_indegree[id] > 0}

topo_serial_end ==
    /\ pl_pc = "sort" /\ pl_ready = {}
    /\ IF Len(pl_order) = Cardinality(DOMAIN pl_indegree)
       THEN pl_pc' = "Ok" /\ UNCHANGED pl_starts
       ELSE pl_pc' = "search" /\ pl_starts' = remaining
    /\ UNCHANGED <<pl_graph, pl_indegree, pl_ready, pl_order, pl_frames, pl_path>>

Frame(id) == [node |-> id, left |-> depends_on(id) \cap remaining]

(* dfs_cycle from the next node, or the fallback when there is none.       *)
find_cycle_path ==
    /\ pl_pc = "search" /\ pl_frames = <<>>
    /\ IF pl_starts = {} THEN pl_pc' = "fallback" /\ UNCHANGED <<pl_frames, pl_starts>>
       ELSE /\ pl_frames' = <<Frame(Min(pl_starts))>>
            /\ pl_starts' = pl_starts \ {Min(pl_starts)}
            /\ UNCHANGED pl_pc
    /\ UNCHANGED <<pl_graph, pl_indegree, pl_ready, pl_order, pl_path>>

(* The part of the stack that the cycle is.                                *)
CycleFrom(at) == Min(at)

(* A dependency that is on the stack closes a cycle; else it is entered; a *)
(* node without dependencies left is given up.                             *)
dfs_cycle ==
    /\ pl_pc = "search" /\ pl_frames # <<>>
    /\ LET top == pl_frames[Len(pl_frames)]
           dep == Min(top.left)
           at == {i \in DOMAIN pl_frames : pl_frames[i].node = dep}
           rest == [pl_frames EXCEPT ![Len(pl_frames)].left = @ \ {dep}]
       IN IF top.left = {}
          THEN /\ pl_frames' = SubSeq(pl_frames, 1, Len(pl_frames) - 1)
               /\ UNCHANGED <<pl_path, pl_pc>>
          ELSE IF at # {}
          THEN /\ pl_path' = [i \in 1..(Len(pl_frames) - CycleFrom(at) + 1) |->
                                 pl_frames[CycleFrom(at) + i - 1].node] \o <<dep>>
               /\ pl_pc' = "Cycle" /\ UNCHANGED pl_frames
          ELSE pl_frames' = Append(rest, Frame(dep)) /\ UNCHANGED <<pl_path, pl_pc>>
    /\ UNCHANGED <<pl_graph, pl_indegree, pl_ready, pl_order, pl_starts>>

PlanNext ==
    \/ subgraph_union
    \/ topo_serial_start \/ topo_serial \/ topo_serial_end
    \/ find_cycle_path \/ dfs_cycle

PlanSpec == PlanInit /\ [][PlanNext]_pl_vars

-----------------------------------------------------------------------------
(* The reference is the graph of the declared tasks, before the matrices   *)
(* are expanded: what the roots need, directly or not.                     *)
Needed == {t \in PlanTasks \cup {MissingTask} :
              \A S \in SUBSET (PlanTasks \cup {MissingTask}) :
                 /\ pl_decl.roots \subseteq S
                 /\ \A u \in S \cap PlanTasks : pl_decl.dependsOn[u] \subseteq S
                 => t \in S}

Sound == /\ MissingTask \notin Needed
         /\ \A S \in SUBSET Needed : S # {} => \E t \in S : pl_decl.dependsOn[t] \cap S = {}

(* A plan that is accepted has every instance of every task that the roots *)
(* need, once, and after all instances of the tasks it depends on; so its  *)
(* graph is acyclic, which is what the Scheduler assumes of a plan.        *)
PlanIsSerial ==
    pl_pc = "Ok" =>
        /\ Sound
        /\ {pl_order[i] : i \in DOMAIN pl_order} = UNION {instance_ids(t) : t \in Needed}
        /\ \A i, j \in DOMAIN pl_order :
              task_of(pl_order[j]) \in pl_decl.dependsOn[task_of(pl_order[i])] => j < i

(* A plan is refused only if the tasks that the roots need have a cycle or *)
(* one of them is missing.  The cycle that is reported is one, and the     *)
(* fallback of find_cycle_path is, as its comment says, unreachable.       *)
RefusalIsTrue ==
    /\ pl_pc = "MissingDependency" => MissingTask \in Needed
    /\ pl_pc # "fallback"
    /\ pl_pc = "Cycle" =>
          /\ Len(pl_path) > 1 /\ pl_path[1] = pl_path[Len(pl_path)]
          /\ \A i \in 1..(Len(pl_path) - 1) :
                task_of(pl_path[i + 1]) \in pl_decl.dependsOn[task_of(pl_path[i])]

(* For every declaration of tasks there is a serial order or a reason why  *)
(* there is none.                                                          *)
PlanOrReason == PlanIsSerial /\ RefusalIsTrue

=============================================================================
