----------------------------- MODULE Scheduler -----------------------------
(***************************************************************************)
(* The ready-queue scheduler of crates/nxr-task/src/scheduler.rs.          *)
(*                                                                         *)
(* The program's Scheduler is a passive struct that one thread drives: it  *)
(* calls schedule_ready to learn which nodes to start, reports every exit  *)
(* with on_exit, and calls schedule_ready again.  Variables keep the names *)
(* of the struct's fields.  Node identifiers are numbers whose order       *)
(* stands for the lexicographic order of the task ids, the order in which  *)
(* BTreeSet iteration visits them.                                         *)
(*                                                                         *)
(* The loop of schedule_ready is taken one iteration per step; pc keeps    *)
(* every other operation out until the loop has ended:                     *)
(*   "call"  a call of schedule_ready is due (new, or after an on_exit)    *)
(*   "loop"  inside its while loop                                         *)
(*   "wait"  it has returned                                               *)
(***************************************************************************)
EXTENDS Integers, FiniteSets, FiniteSetsExt

CONSTANTS
    Nodes,       \* the plan's node ids, ordered as their strings are
    Locks,       \* names used in resources.exclusive
    NoNode,      \* "no holder" in held_locks
    Plans,       \* the execution plans considered
    Jobs,        \* the job limit
    MemoryPool,  \* NXR_MEMORY_POOL in bytes, 0 for unlimited
    MaxU32,      \* u32::MAX
    MaxU64       \* u64::MAX

States == {"Pending", "Ready", "Running", "Succeeded", "Failed", "Cancelled",
           "Skipped"}

Policies == {"FailFast", "KeepGoing"}

(* The parts of an ExecutionPlan that the scheduler reads.                 *)
PlanShape ==
    [dependsOn      : [Nodes -> SUBSET Nodes],
     interactive    : [Nodes -> BOOLEAN],
     cpu            : [Nodes -> 0..MaxU32],
     memory         : [Nodes -> 0..MaxU64],
     exclusive      : [Nodes -> SUBSET Locks],
     failure_policy : Policies]

(* Every nonempty set of nodes has a member with no dependency in the set: *)
(* the graph a plan is built from has passed planner.rs's cycle check.     *)
Acyclic(deps) ==
    \A S \in SUBSET Nodes : S # {} => \E n \in S : deps[n] \cap S = {}

ASSUME NodesAssumption == Nodes \subseteq Nat /\ IsFiniteSet(Nodes)
ASSUME NoNodeAssumption == NoNode \notin Nodes
ASSUME JobsAssumption == Jobs \in Nat \ {0}
ASSUME WidthAssumption == MaxU32 \in Nat \ {0} /\ MaxU64 \in Nat
ASSUME MemoryPoolAssumption == MemoryPool \in 0..MaxU64
ASSUME PlansAssumption ==
    /\ Plans \subseteq PlanShape
    /\ \A p \in Plans : Acyclic(p.dependsOn)

VARIABLES
    plan,              \* never changes: the ExecutionPlan given to new
    states,
    remaining_deps,
    ready,
    running,
    held_locks,
    cpu_in_use,
    memory_in_use,
    fail_fast_tripped,
    started,           \* the ids the current call has started so far
    pc

vars == <<plan, states, remaining_deps, ready, running, held_locks,
          cpu_in_use, memory_in_use, fail_fast_tripped, started, pc>>

resources == <<held_locks, cpu_in_use, memory_in_use>>

-----------------------------------------------------------------------------
(* Saturating arithmetic of an unsigned integer with maximum max.          *)

SatAdd(a, b, max) == IF a + b > max THEN max ELSE a + b

SatSub(a, b) == IF b > a THEN 0 ELSE a - b

(* ResourceLimits::from_jobs                                               *)
CpuPool == IF Jobs > MaxU32 THEN MaxU32 ELSE Jobs

cpu_tokens(n) == IF plan.cpu[n] = 0 THEN 1 ELSE plan.cpu[n]

dependents(n) == {m \in Nodes : n \in plan.dependsOn[m]}

is_interactive(n) == plan.interactive[n]

is_terminal(st) == st \in {"Succeeded", "Failed", "Cancelled", "Skipped"}

NotStarted == {n \in Nodes : states[n] \in {"Pending", "Ready"}}

has_interactive_in_flight == \E n \in running : is_interactive(n)

is_finished == running = {} /\ ready = {}

(* The constructor refuses a plan in which some node could never start.    *)
validate_schedulability(p) ==
    \A n \in Nodes :
        /\ (IF p.cpu[n] = 0 THEN 1 ELSE p.cpu[n]) <= CpuPool
        /\ ~ (p.memory[n] > 0 /\ MemoryPool > 0 /\ p.memory[n] > MemoryPool)

-----------------------------------------------------------------------------

Init ==
    /\ plan \in {p \in Plans : validate_schedulability(p)}
    /\ remaining_deps = [n \in Nodes |-> Cardinality(plan.dependsOn[n])]
    /\ ready = {n \in Nodes : remaining_deps[n] = 0}
    /\ states = [n \in Nodes |-> IF n \in ready THEN "Ready" ELSE "Pending"]
    /\ running = {}
    /\ held_locks = [l \in Locks |-> NoNode]
    /\ cpu_in_use = 0
    /\ memory_in_use = 0
    /\ fail_fast_tripped = FALSE
    /\ started = {}
    /\ pc = "call"

can_acquire_resources(n) ==
    /\ SatAdd(cpu_in_use, cpu_tokens(n), MaxU32) <= CpuPool
    /\ ~ /\ plan.memory[n] > 0
         /\ MemoryPool > 0
         /\ SatAdd(memory_in_use, plan.memory[n], MaxU64) > MemoryPool
    /\ \A l \in plan.exclusive[n] : held_locks[l] \in {NoNode, n}

acquire_resources(n) ==
    /\ cpu_in_use' = SatAdd(cpu_in_use, cpu_tokens(n), MaxU32)
    /\ memory_in_use' = SatAdd(memory_in_use, plan.memory[n], MaxU64)
    /\ held_locks' = [l \in Locks |->
                        IF l \in plan.exclusive[n] THEN n ELSE held_locks[l]]

(* Fault: an exit frees every lock, not only the node's own.               *)
release_resources_all_locks(n) ==
    /\ cpu_in_use' = SatSub(cpu_in_use, cpu_tokens(n))
    /\ memory_in_use' = SatSub(memory_in_use, plan.memory[n])
    /\ held_locks' = [l \in Locks |-> NoNode]

(* Fault: an exit does not give the memory back.                           *)
release_resources_leak(n) ==
    /\ cpu_in_use' = SatSub(cpu_in_use, cpu_tokens(n))
    /\ held_locks' = [l \in Locks |->
                        IF held_locks[l] = n THEN NoNode ELSE held_locks[l]]
    /\ UNCHANGED memory_in_use

release_resources(n) ==
    /\ cpu_in_use' = SatSub(cpu_in_use, cpu_tokens(n))
    /\ memory_in_use' = SatSub(memory_in_use, plan.memory[n])
    /\ held_locks' = [l \in Locks |->
                        IF held_locks[l] = n THEN NoNode ELSE held_locks[l]]

cancel_all_not_started ==
    /\ states' = [n \in Nodes |->
                    IF n \in NotStarted THEN "Cancelled" ELSE states[n]]
    /\ ready' = ready \ NotStarted

(* schedule_ready up to its loop: the two early returns, or into the loop. *)
schedule_ready ==
    /\ pc = "call"
    /\ started' = {}
    /\ \/ /\ fail_fast_tripped
          /\ cancel_all_not_started
          /\ pc' = "wait"
       \/ /\ ~ fail_fast_tripped
          /\ pc' = IF has_interactive_in_flight THEN "wait" ELSE "loop"
          /\ UNCHANGED <<states, ready>>
    /\ UNCHANGED <<plan, remaining_deps, running, resources, fail_fast_tripped>>

(* The first ready id, in order, whose resources are free.                 *)
Candidates == {n \in ready : can_acquire_resources(n)}

IsCandidate(n) == n \in Candidates /\ \A m \in Candidates : n <= m

(* An interactive candidate is only started alone.                         *)
MayStart(n) == ~ is_interactive(n) \/ (running = {} /\ started = {})

(* One iteration of the loop that starts a node; the loop goes on unless   *)
(* the node is interactive.                                                *)
StartNode(n) ==
    /\ pc = "loop"
    /\ Cardinality(running) < Jobs
    /\ IsCandidate(n)
    /\ MayStart(n)
    /\ ready' = ready \ {n}
    /\ acquire_resources(n)
    /\ states' = [states EXCEPT ![n] = "Running"]
    /\ running' = running \cup {n}
    /\ started' = started \cup {n}
    /\ pc' = IF is_interactive(n) THEN "wait" ELSE "loop"
    /\ UNCHANGED <<plan, remaining_deps, fail_fast_tripped>>

(* The loop ends: no slot, no candidate, or an interactive candidate that  *)
(* has to wait until nothing else runs.                                    *)
EndLoop ==
    /\ pc = "loop"
    /\ \/ Cardinality(running) >= Jobs
       \/ Candidates = {}
       \/ \E n \in Candidates : IsCandidate(n) /\ ~ MayStart(n)
    /\ pc' = "wait"
    /\ UNCHANGED <<plan, states, remaining_deps, ready, running, resources,
                   fail_fast_tripped, started>>

(* The pending dependents whose last unsatisfied dependency n was.         *)
Unlocked(n) == {m \in dependents(n) : states[m] = "Pending"
                                        /\ remaining_deps[m] <= 1}

unlock_dependents(n) ==
    /\ remaining_deps' = [m \in Nodes |->
            IF m \in dependents(n) /\ states[m] = "Pending"
            THEN SatSub(remaining_deps[m], 1) ELSE remaining_deps[m]]
    /\ ready' = ready \cup Unlocked(n)
    /\ states' = [m \in Nodes |-> IF m = n THEN "Succeeded"
                                  ELSE IF m \in Unlocked(n) THEN "Ready"
                                  ELSE states[m]]

(* Fault: unrelated work is taken down too.                                *)
WalkFrom_everything(n) == NotStarted

(* What the depth-first walk of cancel_transitive_dependents reaches: it   *)
(* goes on from a node only when that node had not started.                *)
WalkFrom(n) ==
    LET closed(S) == \A m \in S \cup {n} : dependents(m) \cap NotStarted \subseteq S
    IN  {m \in NotStarted : \A S \in SUBSET NotStarted : closed(S) => m \in S}

cancel_transitive_dependents(n) ==
    /\ states' = [m \in Nodes |-> IF m = n THEN "Failed"
                                  ELSE IF m \in WalkFrom(n) THEN "Skipped"
                                  ELSE states[m]]
    /\ ready' = ready \ WalkFrom(n)

(* Fault: fail-fast treats the failure as keep-going does.                 *)
trip_fail_fast_walk(n) == cancel_transitive_dependents(n) /\ UNCHANGED fail_fast_tripped

(* Fault: only the ready queue is cancelled, pending nodes stay.           *)
trip_fail_fast_queue(n) ==
    /\ states' = [m \in Nodes |-> IF m = n THEN "Failed"
                                  ELSE IF m \in ready THEN "Cancelled"
                                  ELSE states[m]]
    /\ ready' = {}
    /\ fail_fast_tripped' = TRUE

trip_fail_fast(n) ==
    /\ states' = [m \in Nodes |-> IF m = n THEN "Failed"
                                  ELSE IF m \in NotStarted THEN "Cancelled"
                                  ELSE states[m]]
    /\ ready' = ready \ NotStarted
    /\ fail_fast_tripped' = TRUE

(* on_exit; for a node that is not running it returns an error and changes *)
(* nothing.                                                                *)
on_exit(n, code) ==
    /\ pc \in {"call", "wait"}
    /\ n \in running
    /\ running' = running \ {n}
    /\ release_resources(n)
    /\ \/ /\ code = 0
          /\ unlock_dependents(n)
          /\ UNCHANGED fail_fast_tripped
       \/ /\ code # 0
          /\ plan.failure_policy = "FailFast"
          /\ trip_fail_fast(n)
          /\ UNCHANGED remaining_deps
       \/ /\ code # 0
          /\ plan.failure_policy = "KeepGoing"
          /\ cancel_transitive_dependents(n)
          /\ UNCHANGED <<remaining_deps, fail_fast_tripped>>
    /\ pc' = "call"
    /\ UNCHANGED <<plan, started>>

(* The driver stops once the scheduler is finished.                        *)
Finished ==
    /\ pc = "wait"
    /\ is_finished
    /\ UNCHANGED vars

Scheduling == schedule_ready \/ EndLoop \/ \E n \in Nodes : StartNode(n)

Exits(n) == \E code \in {0, 1} : on_exit(n, code)

Next == Scheduling \/ (\E n \in Nodes : Exits(n)) \/ Finished

Spec == Init /\ [][Next]_vars

-----------------------------------------------------------------------------

(* Every field of the Scheduler struct keeps its type.                     *)
TypeOK ==
    /\ plan \in Plans
    /\ states \in [Nodes -> States]
    /\ remaining_deps \in [Nodes -> Nat]
    /\ ready \subseteq Nodes
    /\ running \subseteq Nodes
    /\ held_locks \in [Locks -> Nodes \cup {NoNode}]
    /\ cpu_in_use \in 0..MaxU32
    /\ memory_in_use \in 0..MaxU64
    /\ fail_fast_tripped \in BOOLEAN
    /\ started \subseteq Nodes
    /\ pc \in {"call", "loop", "wait"}

(* A node that is running or has run (schedule_ready started it) has only  *)
(* dependencies that exited with 0: counting remaining_deps down never     *)
(* releases a node early.                                                  *)
DependenciesFirst ==
    \A n \in Nodes : states[n] \in {"Running", "Succeeded", "Failed"} =>
        \A d \in plan.dependsOn[n] : states[d] = "Succeeded"

(* Two nodes in flight never name the same exclusive lock, whatever the    *)
(* order of exits and starts that held_locks went through.                 *)
ExclusiveLocks ==
    \A m, n \in running :
        m # n => plan.exclusive[m] \cap plan.exclusive[n] = {}

(* An interactive node holds the terminal: nothing else is in flight while *)
(* it runs.                                                                *)
InteractiveAlone ==
    \A n \in running : is_interactive(n) => running = {n}

(* When the driver sees is_finished, no node is left behind: each one has  *)
(* succeeded, failed, been cancelled or been skipped.                      *)
FinishedIsComplete ==
    is_finished => \A n \in Nodes : is_terminal(states[n])

(* With nothing in flight, a ready node can always be started: neither a   *)
(* lock nor a token that was not given back blocks the run for good.       *)
NoResourceStall ==
    running = {} /\ ready # {} => Candidates # {}

(* Under keep-going a node is skipped exactly when one of its dependencies *)
(* failed or was itself skipped: the walk over dependents misses no one    *)
(* and takes no one else down.                                             *)
SkippedExactly ==
    plan.failure_policy = "KeepGoing" =>
        \A n \in Nodes : states[n] = "Skipped" <=>
            \E d \in plan.dependsOn[n] : states[d] \in {"Failed", "Skipped"}

(* Under fail-fast no node is started after the first failure, whether it  *)
(* was waiting in the queue or is unlocked by a node still in flight.      *)
NoStartAfterFailure ==
    [][plan.failure_policy = "FailFast" /\ (\E n \in Nodes : states[n] = "Failed")
         => running' \subseteq running]_vars

(* A terminal state is final: no later exit, cancellation or walk over the *)
(* dependents rewrites the outcome of a node.                              *)
TerminalIsFinal ==
    [][\A n \in Nodes : is_terminal(states[n]) => states'[n] = states[n]]_vars

(* The contract the scheduler implements: what a caller sees of a node.    *)
StatusOf(st) == CASE st \in {"Pending", "Ready"}     -> "waiting"
                  [] st = "Running"                  -> "running"
                  [] st = "Succeeded"                -> "succeeded"
                  [] st = "Failed"                   -> "failed"
                  [] st \in {"Cancelled", "Skipped"} -> "dropped"

Dag == INSTANCE TaskDag WITH status <- [n \in Nodes |-> StatusOf(states[n])]

(* The ready queue, the dependency counters and the walk over dependents   *)
(* implement the contract of TaskDag: a start needs all dependencies, and  *)
(* a failure drops the descendants of the failed node, or everything.      *)
ImplementsTaskDag == Dag!Spec

-----------------------------------------------------------------------------
(* The inductive invariant of SchedulerProofs.                             *)

(* The two sets are the nodes in the two states.                           *)
SetsMatchStates ==
    /\ ready = {n \in Nodes : states[n] = "Ready"}
    /\ running = {n \in Nodes : states[n] = "Running"}

Unmet(n) == {d \in plan.dependsOn[n] : states[d] # "Succeeded"}

(* remaining_deps counts what a pending node still needs, and it needs     *)
(* something; a node that left Pending for the queue needs nothing more.   *)
CountersExact ==
    \A n \in Nodes :
        /\ states[n] = "Pending" => /\ remaining_deps[n] = Cardinality(Unmet(n))
                                   /\ remaining_deps[n] > 0
        /\ states[n] \in {"Ready", "Running", "Succeeded", "Failed"} => Unmet(n) = {}

(* A lock has a holder exactly while a node that names it is in flight.    *)
LocksMatchRunning ==
    /\ \A n \in running : \A l \in plan.exclusive[n] : held_locks[l] = n
    /\ \A l \in Locks : held_locks[l] # NoNode =>
          held_locks[l] \in running /\ l \in plan.exclusive[held_locks[l]]

(* The loop runs only before fail-fast trips and with the terminal free.   *)
LoopGuard == pc = "loop" => ~ fail_fast_tripped /\ ~ has_interactive_in_flight

(* Fail-fast trips on the first failure and leaves nothing waiting; only   *)
(* fail-fast cancels and only keep-going skips.                            *)
PolicyRespected ==
    /\ fail_fast_tripped <=> /\ plan.failure_policy = "FailFast"
                             /\ \E n \in Nodes : states[n] = "Failed"
    /\ fail_fast_tripped => NotStarted = {}
    /\ \A n \in Nodes : states[n] = "Cancelled" => fail_fast_tripped
    /\ \A n \in Nodes : states[n] = "Skipped" => plan.failure_policy = "KeepGoing"

IInv ==
    /\ TypeOK
    /\ SetsMatchStates
    /\ CountersExact
    /\ LocksMatchRunning
    /\ LoopGuard
    /\ InteractiveAlone
    /\ PolicyRespected
    /\ SkippedExactly

=============================================================================
