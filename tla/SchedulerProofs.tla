-------------------------- MODULE SchedulerProofs --------------------------
(***************************************************************************)
(* Theorems about Scheduler, for every plan, node set, job limit and pool. *)
(***************************************************************************)
EXTENDS Scheduler, Totals

-----------------------------------------------------------------------------
(* Facts about the operators.                                              *)

(* Saturating addition stays in range and never shrinks its first argument. *)
LEMMA SatAddBounds ==
    ASSUME NEW max \in Nat, NEW a \in 0..max, NEW b \in 0..max
    PROVE  SatAdd(a, b, max) \in 0..max
  BY DEF SatAdd

(* Saturating subtraction stays in range and never grows.                  *)
LEMMA SatSubBounds ==
    ASSUME NEW max \in Nat, NEW a \in 0..max, NEW b \in Nat
    PROVE  SatSub(a, b) \in 0..a
  BY DEF SatSub

(* What the constants guarantee about the plan in force.                   *)
LEMMA PlanTyped ==
    ASSUME plan \in Plans
    PROVE  /\ plan.dependsOn \in [Nodes -> SUBSET Nodes]
           /\ plan.interactive \in [Nodes -> BOOLEAN]
           /\ plan.cpu \in [Nodes -> 0..MaxU32]
           /\ plan.memory \in [Nodes -> 0..MaxU64]
           /\ plan.exclusive \in [Nodes -> SUBSET Locks]
           /\ plan.failure_policy \in Policies
           /\ Acyclic(plan.dependsOn)
  BY PlansAssumption DEF PlanShape

(* A token demand is a u32.                                                *)
LEMMA CpuTokensTyped ==
    ASSUME plan \in Plans, NEW n \in Nodes
    PROVE  cpu_tokens(n) \in 1..MaxU32
  BY PlanTyped, WidthAssumption DEF cpu_tokens

(* What the two halves of the resource bookkeeping leave behind is typed.  *)
LEMMA AcquireTyped ==
    ASSUME TypeOK, NEW n \in Nodes, acquire_resources(n)
    PROVE  /\ held_locks' \in [Locks -> Nodes \cup {NoNode}]
           /\ cpu_in_use' \in 0..MaxU32
           /\ memory_in_use' \in 0..MaxU64
  <1>1. cpu_tokens(n) \in 0..MaxU32 /\ plan.memory[n] \in 0..MaxU64
    BY CpuTokensTyped, PlanTyped, WidthAssumption DEF TypeOK
  <1> QED
    BY <1>1, SatAddBounds, WidthAssumption DEF TypeOK, acquire_resources

(* Releasing a node's resources keeps the amounts in range and the locks   *)
(* typed.                                                                  *)
LEMMA ReleaseTyped ==
    ASSUME TypeOK, NEW n \in Nodes, release_resources(n)
    PROVE  /\ held_locks' \in [Locks -> Nodes \cup {NoNode}]
           /\ cpu_in_use' \in 0..cpu_in_use
           /\ memory_in_use' \in 0..memory_in_use
  <1>1. cpu_tokens(n) \in Nat /\ plan.memory[n] \in Nat
    BY CpuTokensTyped, PlanTyped, WidthAssumption DEF TypeOK
  <1> QED
    BY <1>1, SatSubBounds, WidthAssumption DEF TypeOK, release_resources

-----------------------------------------------------------------------------
(* Type correctness.                                                       *)

(* The first state has the types.                                          *)
LEMMA InitTypeOK == Init => TypeOK
  <1> SUFFICES ASSUME Init PROVE TypeOK
    OBVIOUS
  <1>1. plan \in Plans
    BY DEF Init
  <1>2. \A n \in Nodes : Cardinality(plan.dependsOn[n]) \in Nat
    <2> TAKE n \in Nodes
    <2>1. plan.dependsOn[n] \subseteq Nodes
      BY <1>1, PlanTyped
    <2> QED
      BY <2>1, NodesAssumption, FS_Subset, FS_CardinalityType
  <1>3. remaining_deps \in [Nodes -> Nat]
    BY <1>2 DEF Init
  <1>4. states \in [Nodes -> States] /\ ready \subseteq Nodes
    BY DEF Init, States
  <1>5. cpu_in_use \in 0..MaxU32 /\ memory_in_use \in 0..MaxU64
    BY WidthAssumption DEF Init
  <1> QED
    BY <1>1, <1>3, <1>4, <1>5 DEF Init, TypeOK

(* Every step keeps the types.                                             *)
LEMMA NextTypeOK == TypeOK /\ [Next]_vars => TypeOK'
  <1> SUFFICES ASSUME TypeOK, [Next]_vars PROVE TypeOK'
    OBVIOUS
  <1>1. CASE schedule_ready
    BY <1>1 DEF TypeOK, schedule_ready, cancel_all_not_started, States, resources
  <1>2. ASSUME NEW n \in Nodes, StartNode(n) PROVE TypeOK'
    <2>1. acquire_resources(n)
      BY <1>2 DEF StartNode
    <2> QED
      BY <1>2, <2>1, AcquireTyped DEF TypeOK, StartNode, States
  <1>3. CASE EndLoop
    BY <1>3 DEF TypeOK, EndLoop, resources
  <1>4. ASSUME NEW n \in Nodes, NEW code \in {0, 1}, on_exit(n, code)
        PROVE  TypeOK'
    <2>1. release_resources(n)
      BY <1>4 DEF on_exit
    <2>2. /\ held_locks' \in [Locks -> Nodes \cup {NoNode}]
          /\ cpu_in_use' \in 0..MaxU32
          /\ memory_in_use' \in 0..MaxU64
      BY <2>1, ReleaseTyped, WidthAssumption DEF TypeOK
    <2>3. /\ plan' \in Plans
          /\ running' \subseteq Nodes
          /\ started' \subseteq Nodes
          /\ pc' \in {"call", "loop", "wait"}
      BY <1>4 DEF TypeOK, on_exit
    <2>4. CASE code = 0 /\ unlock_dependents(n) /\ UNCHANGED fail_fast_tripped
      <3>1. remaining_deps' \in [Nodes -> Nat]
        BY <2>4, SatSubBounds DEF TypeOK, unlock_dependents, SatSub
      <3>2. states' \in [Nodes -> States] /\ ready' \subseteq Nodes
        BY <2>4 DEF TypeOK, unlock_dependents, Unlocked, dependents, States
      <3> QED
        BY <2>2, <2>3, <2>4, <3>1, <3>2 DEF TypeOK
    <2>5. CASE trip_fail_fast(n) /\ UNCHANGED remaining_deps
      BY <2>2, <2>3, <2>5 DEF TypeOK, trip_fail_fast, States
    <2>6. CASE /\ cancel_transitive_dependents(n)
               /\ UNCHANGED <<remaining_deps, fail_fast_tripped>>
      BY <2>2, <2>3, <2>6 DEF TypeOK, cancel_transitive_dependents, States
    <2> QED
      BY <1>4, <2>4, <2>5, <2>6 DEF on_exit
  <1>5. CASE UNCHANGED vars
    BY <1>5 DEF TypeOK, vars
  <1> QED
    BY <1>1, <1>2, <1>3, <1>4, <1>5 DEF Next, Scheduling, Exits, Finished

(* The fields of the Scheduler keep their types, whatever the order of     *)
(* schedule_ready and on_exit calls: the unsigned counters never leave     *)
(* their width, and only plan nodes and declared locks are ever recorded.  *)
THEOREM TypeCorrect == Spec => []TypeOK
  BY InitTypeOK, NextTypeOK, PTL DEF Spec

-----------------------------------------------------------------------------
(* The walk of cancel_transitive_dependents.                               *)

(* The walk goes on from everything it has reached.                        *)
LEMMA WalkClosed ==
    ASSUME NEW n \in Nodes, NEW d \in WalkFrom(n) \cup {n},
           NEW m \in dependents(d) \cap NotStarted
    PROVE  m \in WalkFrom(n)
  <1> SUFFICES ASSUME NEW S \in SUBSET NotStarted,
                      \A k \in S \cup {n} : dependents(k) \cap NotStarted \subseteq S
               PROVE  m \in S
    BY DEF WalkFrom
  <1>1. d \in S \cup {n}
    BY DEF WalkFrom
  <1> QED
    BY <1>1

(* It reaches a node only along an edge from where it has been.            *)
LEMMA WalkReached ==
    ASSUME NEW n \in Nodes, NEW m \in WalkFrom(n)
    PROVE  \E d \in WalkFrom(n) \cup {n} : m \in dependents(d)
  <1> DEFINE S == WalkFrom(n) \ {m}
  <1> SUFFICES ASSUME \A d \in WalkFrom(n) \cup {n} : m \notin dependents(d)
               PROVE  FALSE
    OBVIOUS
  <1>1. S \in SUBSET NotStarted
    BY DEF WalkFrom
  <1>2. \A k \in S \cup {n} : dependents(k) \cap NotStarted \subseteq S
    BY WalkClosed
  <1>3. m \in S
    BY <1>1, <1>2 DEF WalkFrom
  <1> QED
    BY <1>3

-----------------------------------------------------------------------------
(* The inductive invariant.                                                *)

(* Sets of unmet dependencies are finite, so they can be counted.          *)
LEMMA UnmetFinite ==
    ASSUME TypeOK, NEW n \in Nodes
    PROVE  IsFiniteSet(Unmet(n)) /\ Unmet(n) \subseteq Nodes
  <1>1. Unmet(n) \subseteq Nodes
    BY PlanTyped DEF TypeOK, Unmet
  <1> QED
    BY <1>1, NodesAssumption, FS_Subset

(* The first state satisfies the invariant.                                *)
LEMMA InitIInv == Init => IInv
  <1> SUFFICES ASSUME Init PROVE IInv
    OBVIOUS
  <1>1. TypeOK
    BY InitTypeOK
  <1>2. \A n \in Nodes : states[n] = IF remaining_deps[n] = 0 THEN "Ready" ELSE "Pending"
    BY DEF Init
  <1>3. SetsMatchStates
    BY <1>2 DEF Init, SetsMatchStates
  <1>4. CountersExact
    <2> SUFFICES ASSUME NEW n \in Nodes
                 PROVE  /\ states[n] = "Pending" =>
                              /\ remaining_deps[n] = Cardinality(Unmet(n))
                              /\ remaining_deps[n] > 0
                        /\ states[n] # "Pending" => Unmet(n) = {}
      BY <1>2 DEF CountersExact
    <2>1. Unmet(n) = plan.dependsOn[n]
      BY <1>1, <1>2, PlanTyped DEF TypeOK, Unmet
    <2>2. remaining_deps[n] = Cardinality(Unmet(n)) /\ remaining_deps[n] \in Nat
      BY <1>1, <2>1 DEF Init, TypeOK
    <2>3. remaining_deps[n] = 0 => Unmet(n) = {}
      BY <1>1, <2>2, UnmetFinite, FS_EmptySet
    <2> QED
      BY <1>2, <2>2, <2>3
  <1>5. LocksMatchRunning /\ LoopGuard /\ InteractiveAlone
    BY DEF Init, LocksMatchRunning, LoopGuard, InteractiveAlone
  <1>6. PolicyRespected /\ SkippedExactly
    <2>1. \A n \in Nodes : states[n] \in {"Ready", "Pending"}
      BY <1>2
    <2>2. \A n \in Nodes : plan.dependsOn[n] \subseteq Nodes
      BY <1>1, PlanTyped DEF TypeOK
    <2> QED
      BY <2>1, <2>2 DEF Init, PolicyRespected, SkippedExactly
  <1> QED
    BY <1>1, <1>3, <1>4, <1>5, <1>6 DEF IInv

(* schedule_ready returning early, or entering its loop, disturbs nothing: *)
(* once fail-fast has tripped there is nothing left to cancel.             *)
LEMMA ScheduleReadyIInv ==
    ASSUME IInv, schedule_ready
    PROVE  IInv'
  <1>1. TypeOK'
    BY NextTypeOK DEF IInv, Next, Scheduling
  <1>2. UNCHANGED <<plan, remaining_deps, running, held_locks, fail_fast_tripped>>
    BY DEF schedule_ready, resources
  <1>3. \A n \in Nodes : states'[n] = states[n]
    BY DEF schedule_ready, cancel_all_not_started, IInv, PolicyRespected
  <1>4. ready' = ready
    BY DEF schedule_ready, cancel_all_not_started, IInv, PolicyRespected
  <1>5. states' = states
    BY <1>1, <1>3 DEF IInv, TypeOK
  <1>6. LoopGuard'
    BY <1>2 DEF schedule_ready, LoopGuard, has_interactive_in_flight, is_interactive
  <1> QED
    BY <1>1, <1>2, <1>4, <1>5, <1>6
    DEF IInv, SetsMatchStates, CountersExact, Unmet, LocksMatchRunning,
        InteractiveAlone, is_interactive, PolicyRespected, NotStarted, SkippedExactly

(* Starting a node keeps the invariant.                                    *)
LEMMA StartNodeIInv ==
    ASSUME IInv, NEW n \in Nodes, StartNode(n)
    PROVE  IInv'
  <1>1. TypeOK'
    BY NextTypeOK DEF IInv, Next, Scheduling
  <1>2. /\ UNCHANGED <<plan, remaining_deps, fail_fast_tripped>>
        /\ states[n] = "Ready"
        /\ states' = [states EXCEPT ![n] = "Running"]
        /\ running' = running \cup {n}
        /\ ready' = ready \ {n}
    BY DEF StartNode, IsCandidate, Candidates, IInv, SetsMatchStates
  <1>3. \A m \in Nodes : Unmet(m)' = Unmet(m)
    BY <1>2, PlanTyped DEF Unmet, IInv, TypeOK
  <1>4. SetsMatchStates'
    BY <1>2 DEF IInv, TypeOK, SetsMatchStates
  <1>5. CountersExact'
    BY <1>2, <1>3 DEF IInv, TypeOK, CountersExact
  <1>6. LocksMatchRunning'
    <2>1. \A l \in plan.exclusive[n] : held_locks[l] \in {NoNode, n}
      BY DEF StartNode, IsCandidate, Candidates, can_acquire_resources
    <2>2. n \notin running
      BY <1>2 DEF IInv, SetsMatchStates
    <2>3. \A l \in Locks : held_locks'[l] = IF l \in plan.exclusive[n] THEN n
                                            ELSE held_locks[l]
      BY DEF StartNode, acquire_resources
    <2>4. \A m \in running : plan.exclusive[m] \cap plan.exclusive[n] = {}
      BY <2>1, <2>2, NoNodeAssumption DEF IInv, LocksMatchRunning, TypeOK
    <2>5. \A m \in Nodes : plan.exclusive[m] \subseteq Locks
      BY PlanTyped DEF IInv, TypeOK
    <2>6. \A m \in running' : \A l \in plan.exclusive[m] : held_locks'[l] = m
      BY <1>2, <2>3, <2>4, <2>5 DEF IInv, LocksMatchRunning, TypeOK
    <2>7. \A l \in Locks : held_locks'[l] # NoNode =>
             held_locks'[l] \in running' /\ l \in plan.exclusive[held_locks'[l]]
      BY <1>2, <2>3 DEF IInv, LocksMatchRunning
    <2> QED
      BY <1>2, <2>6, <2>7 DEF LocksMatchRunning
  <1>7. LoopGuard' /\ InteractiveAlone'
    <2>1. pc = "loop" /\ ~ has_interactive_in_flight /\ ~ fail_fast_tripped
      BY DEF StartNode, IInv, LoopGuard
    <2>2. is_interactive(n) => running' = {n} /\ pc' = "wait"
      BY <1>2 DEF StartNode, MayStart
    <2>3. \A m \in Nodes : is_interactive(m)' = is_interactive(m)
      BY <1>2 DEF is_interactive
    <2>4. running \subseteq Nodes
      BY DEF IInv, TypeOK
    <2>5. CASE is_interactive(n)
      BY <1>2, <2>1, <2>2, <2>3, <2>5 DEF LoopGuard, InteractiveAlone
    <2>6. CASE ~ is_interactive(n)
      BY <1>2, <2>1, <2>3, <2>4, <2>6
      DEF LoopGuard, InteractiveAlone, has_interactive_in_flight
    <2> QED
      BY <2>5, <2>6
  <1>8. PolicyRespected'
    BY <1>2 DEF IInv, TypeOK, PolicyRespected, NotStarted
  <1>9. SkippedExactly'
    BY <1>2, PlanTyped DEF IInv, TypeOK, SkippedExactly
  <1> QED
    BY <1>1, <1>4, <1>5, <1>6, <1>7, <1>8, <1>9 DEF IInv

(* Leaving the loop keeps the invariant.                                   *)
LEMMA EndLoopIInv ==
    ASSUME IInv, EndLoop
    PROVE  IInv'
  <1>1. TypeOK'
    BY NextTypeOK DEF IInv, Next, Scheduling
  <1> QED
    BY <1>1
    DEF EndLoop, resources, IInv, SetsMatchStates, CountersExact, Unmet,
        LocksMatchRunning, LoopGuard, InteractiveAlone, is_interactive,
        PolicyRespected, NotStarted, SkippedExactly

-----------------------------------------------------------------------------
(* An exit.  Releasing the node's resources and slot is common to the      *)
(* three outcomes; the outcomes differ in what happens to other nodes.     *)

(* An exit gives back the node's resources and locks, and the loop's       *)
(* guards follow.                                                          *)
LEMMA ExitReleases ==
    ASSUME IInv, NEW n \in Nodes, NEW code \in {0, 1}, on_exit(n, code)
    PROVE  LocksMatchRunning' /\ LoopGuard' /\ InteractiveAlone'
  <1>1. plan' = plan /\ running' = running \ {n} /\ pc' = "call"
    BY DEF on_exit
  <1>2. \A l \in Locks : held_locks'[l] = IF held_locks[l] = n THEN NoNode
                                          ELSE held_locks[l]
    BY DEF on_exit, release_resources
  <1>3. \A m \in Nodes : plan.exclusive[m] \subseteq Locks
    BY PlanTyped DEF IInv, TypeOK
  <1>4. LocksMatchRunning'
    BY <1>1, <1>2, <1>3 DEF IInv, TypeOK, LocksMatchRunning
  <1>5. InteractiveAlone'
    BY <1>1 DEF IInv, InteractiveAlone, is_interactive
  <1> QED
    BY <1>1, <1>4, <1>5 DEF LoopGuard

(* Success: dependents lose one unmet dependency, and those that lose      *)
(* their last one become ready.                                            *)
LEMMA SuccessIInv ==
    ASSUME IInv, NEW n \in Nodes, on_exit(n, 0), unlock_dependents(n),
           UNCHANGED fail_fast_tripped
    PROVE  IInv'
  <1>1. TypeOK'
    BY NextTypeOK DEF IInv, Next, Exits
  <1>2. /\ plan' = plan
        /\ running' = running \ {n}
        /\ states[n] = "Running"
    BY DEF on_exit, IInv, SetsMatchStates
  <1>3. \A m \in Nodes : states'[m] = IF m = n THEN "Succeeded"
                                      ELSE IF m \in Unlocked(n) THEN "Ready"
                                      ELSE states[m]
    BY DEF unlock_dependents
  <1>4. \A m \in Unlocked(n) : m \in Nodes /\ states[m] = "Pending"
    BY DEF Unlocked, dependents
  <1>5. \A m \in Nodes : Unmet(m)' = Unmet(m) \ {n}
    <2> TAKE m \in Nodes
    <2>1. plan.dependsOn[m] \subseteq Nodes
      BY PlanTyped DEF IInv, TypeOK
    <2> QED
      BY <1>2, <1>3, <1>4, <2>1 DEF Unmet
  <1>6. SetsMatchStates'
    <2>1. ready' = ready \cup Unlocked(n)
      BY DEF unlock_dependents
    <2> QED
      BY <1>2, <1>3, <1>4, <2>1 DEF IInv, SetsMatchStates
  <1>7. CountersExact'
    <2> SUFFICES ASSUME NEW m \in Nodes
                 PROVE  /\ states'[m] = "Pending" =>
                              /\ remaining_deps'[m] = Cardinality(Unmet(m)')
                              /\ remaining_deps'[m] > 0
                        /\ states'[m] \in {"Ready", "Running", "Succeeded", "Failed"} =>
                              Unmet(m)' = {}
      BY DEF CountersExact
    <2>1. remaining_deps[m] \in Nat
      BY DEF IInv, TypeOK
    <2>2. remaining_deps'[m] = IF m \in dependents(n) /\ states[m] = "Pending"
                               THEN SatSub(remaining_deps[m], 1) ELSE remaining_deps[m]
      BY DEF unlock_dependents
    <2>3. n \in Unmet(m) <=> m \in dependents(n)
      BY <1>2 DEF Unmet, dependents
    <2>4. IsFiniteSet(Unmet(m))
      BY UnmetFinite DEF IInv
    <2>5. states[m] = "Pending" => /\ remaining_deps[m] = Cardinality(Unmet(m))
                                   /\ remaining_deps[m] > 0
      BY DEF IInv, CountersExact
    <2>6. CASE states[m] = "Pending" /\ m \in dependents(n)
      <3>1. Cardinality(Unmet(m)') = remaining_deps[m] - 1
        BY <1>5, <2>3, <2>4, <2>5, <2>6, FS_RemoveElement
      <3>2. remaining_deps'[m] = remaining_deps[m] - 1
        BY <2>1, <2>2, <2>5, <2>6 DEF SatSub
      <3>3. m \in Unlocked(n) <=> remaining_deps[m] = 1
        BY <2>1, <2>5, <2>6 DEF Unlocked
      <3>4. remaining_deps[m] = 1 => Unmet(m)' = {}
        <4>1. IsFiniteSet(Unmet(m)')
          BY <1>5, <2>4, FS_Subset
        <4> QED
          BY <3>1, <4>1, FS_EmptySet
      <3> QED
        BY <1>2, <1>3, <2>1, <2>5, <2>6, <3>1, <3>2, <3>3, <3>4
    <2>7. CASE states[m] = "Pending" /\ m \notin dependents(n)
      <3>1. Unmet(m)' = Unmet(m) /\ remaining_deps'[m] = remaining_deps[m]
        BY <1>5, <2>2, <2>3, <2>7
      <3>2. states'[m] = "Pending"
        BY <1>2, <1>3, <2>7 DEF Unlocked
      <3> QED
        BY <2>5, <2>7, <3>1, <3>2
    <2>8. CASE states[m] # "Pending"
      <3>1. states[m] \in {"Ready", "Running", "Succeeded", "Failed"} => Unmet(m) = {}
        BY DEF IInv, CountersExact
      <3> QED
        BY <1>2, <1>3, <1>4, <1>5, <2>8, <3>1
    <2> QED
      BY <2>6, <2>7, <2>8
  <1>8. PolicyRespected'
    BY <1>2, <1>3, <1>4 DEF IInv, PolicyRespected, NotStarted
  <1>9. SkippedExactly'
    <2>1. \A m \in Nodes : plan.dependsOn[m] \subseteq Nodes
      BY PlanTyped DEF IInv, TypeOK
    <2>2. \A m \in Nodes : states'[m] \in {"Failed", "Skipped"} <=>
                              states[m] \in {"Failed", "Skipped"}
      BY <1>2, <1>3, <1>4
    <2>3. \A m \in Nodes : states'[m] = "Skipped" <=> states[m] = "Skipped"
      BY <1>2, <1>3, <1>4
    <2> QED
      BY <1>2, <2>1, <2>2, <2>3 DEF IInv, SkippedExactly
  <1> QED
    BY <1>1, <1>6, <1>7, <1>8, <1>9, ExitReleases DEF IInv

(* A failure never makes a dependency satisfied, and no node that has not  *)
(* started, other than by being dropped, changes.                          *)
LEMMA FailureKeepsCounters ==
    ASSUME IInv, NEW n \in Nodes, states[n] = "Running", plan' = plan,
           remaining_deps' = remaining_deps, NEW D \in SUBSET NotStarted,
           NEW st \in {"Cancelled", "Skipped"},
           \A m \in Nodes : states'[m] = IF m = n THEN "Failed"
                                         ELSE IF m \in D THEN st ELSE states[m]
    PROVE  CountersExact'
  <1>1. \A m \in Nodes : Unmet(m)' = Unmet(m)
    <2> TAKE m \in Nodes
    <2>1. plan.dependsOn[m] \subseteq Nodes
      BY PlanTyped DEF IInv, TypeOK
    <2> QED
      BY <2>1 DEF Unmet, NotStarted
  <1> QED
    BY <1>1 DEF IInv, CountersExact

(* Fail-fast failure: everything that has not started is cancelled.        *)
LEMMA FailFastIInv ==
    ASSUME IInv, NEW n \in Nodes, on_exit(n, 1), trip_fail_fast(n),
           plan.failure_policy = "FailFast", UNCHANGED remaining_deps
    PROVE  IInv'
  <1>1. TypeOK'
    BY NextTypeOK DEF IInv, Next, Exits
  <1>2. /\ plan' = plan
        /\ running' = running \ {n}
        /\ states[n] = "Running"
    BY DEF on_exit, IInv, SetsMatchStates
  <1>3. \A m \in Nodes : states'[m] = IF m = n THEN "Failed"
                                      ELSE IF m \in NotStarted THEN "Cancelled"
                                      ELSE states[m]
    BY DEF trip_fail_fast
  <1>4. CountersExact'
    BY <1>2, <1>3, FailureKeepsCounters
  <1>5. SetsMatchStates'
    BY <1>2, <1>3 DEF IInv, TypeOK, SetsMatchStates, trip_fail_fast, NotStarted
  <1>6. PolicyRespected'
    BY <1>2, <1>3 DEF IInv, PolicyRespected, trip_fail_fast, NotStarted
  <1>7. SkippedExactly'
    BY <1>2 DEF SkippedExactly
  <1> QED
    BY <1>1, <1>4, <1>5, <1>6, <1>7, ExitReleases DEF IInv

(* Keep-going failure: the walk reaches every dependent of the failed node *)
(* and of each node it skips, because none of them can have started.       *)
LEMMA KeepGoingIInv ==
    ASSUME IInv, NEW n \in Nodes, on_exit(n, 1), cancel_transitive_dependents(n),
           plan.failure_policy = "KeepGoing",
           UNCHANGED <<remaining_deps, fail_fast_tripped>>
    PROVE  IInv'
  <1>1. TypeOK'
    BY NextTypeOK DEF IInv, Next, Exits
  <1>2. /\ plan' = plan
        /\ running' = running \ {n}
        /\ states[n] = "Running"
    BY DEF on_exit, IInv, SetsMatchStates
  <1>3. \A m \in Nodes : states'[m] = IF m = n THEN "Failed"
                                      ELSE IF m \in WalkFrom(n) THEN "Skipped"
                                      ELSE states[m]
    BY DEF cancel_transitive_dependents
  <1>4. WalkFrom(n) \in SUBSET NotStarted
    BY DEF WalkFrom
  <1>5. CountersExact'
    BY <1>2, <1>3, <1>4, FailureKeepsCounters
  <1>6. SetsMatchStates'
    BY <1>2, <1>3, <1>4
    DEF IInv, TypeOK, SetsMatchStates, cancel_transitive_dependents, NotStarted
  <1>7. PolicyRespected'
    BY <1>2, <1>3, <1>4 DEF IInv, PolicyRespected, NotStarted
  <1>8. SkippedExactly'
    <2>1. \A m \in Nodes : plan.dependsOn[m] \subseteq Nodes
      BY PlanTyped DEF IInv, TypeOK
    <2>2. \A m \in Nodes : states[m] # "Cancelled"
      BY DEF IInv, PolicyRespected
    <2>3. \A m \in Nodes : \A d \in plan.dependsOn[m] :
             states[d] # "Succeeded" => m \in NotStarted \/ states[m] = "Skipped"
      <3> SUFFICES ASSUME NEW m \in Nodes, NEW d \in plan.dependsOn[m],
                          states[d] # "Succeeded"
                   PROVE  m \in NotStarted \/ states[m] = "Skipped"
        OBVIOUS
      <3>1. d \in Unmet(m)
        BY DEF Unmet
      <3>2. states[m] \in States
        BY DEF IInv, TypeOK
      <3> QED
        BY <2>2, <3>1, <3>2 DEF IInv, CountersExact, States, NotStarted
    <2> SUFFICES ASSUME NEW m \in Nodes
                 PROVE  states'[m] = "Skipped" <=>
                        \E d \in plan.dependsOn[m] : states'[d] \in {"Failed", "Skipped"}
      BY <1>2 DEF SkippedExactly
    <2>4. ASSUME states'[m] = "Skipped"
          PROVE  \E d \in plan.dependsOn[m] : states'[d] \in {"Failed", "Skipped"}
      <3>1. CASE m \in WalkFrom(n)
        <4>1. PICK d \in WalkFrom(n) \cup {n} : m \in dependents(d)
          BY <3>1, WalkReached
        <4> QED
          BY <1>3, <1>4, <4>1 DEF dependents, NotStarted
      <3>2. CASE states[m] = "Skipped"
        <4>1. PICK d \in plan.dependsOn[m] : states[d] \in {"Failed", "Skipped"}
          BY <3>2 DEF IInv, SkippedExactly
        <4> QED
          BY <1>3, <1>4, <2>1, <4>1 DEF NotStarted
      <3> QED
        BY <1>2, <1>3, <2>4, <3>1, <3>2
    <2>5. ASSUME NEW d \in plan.dependsOn[m], states'[d] \in {"Failed", "Skipped"}
          PROVE  states'[m] = "Skipped"
      <3>1. m \in dependents(d) /\ d \in Nodes
        BY <2>1 DEF dependents
      <3>2. CASE d \in WalkFrom(n) \cup {n}
        <4>1. states[d] # "Succeeded"
          BY <1>2, <1>4, <3>2 DEF NotStarted
        <4>2. m \in WalkFrom(n) \/ states[m] = "Skipped"
          BY <2>3, <3>1, <3>2, <4>1, WalkClosed
        <4> QED
          BY <1>2, <1>3, <1>4, <4>2 DEF NotStarted
      <3>3. CASE d \notin WalkFrom(n) \cup {n}
        <4>1. states[d] \in {"Failed", "Skipped"}
          BY <1>3, <2>5, <3>1, <3>3
        <4>2. states[m] = "Skipped"
          BY <4>1 DEF IInv, SkippedExactly
        <4> QED
          BY <1>2, <1>3, <4>2
      <3> QED
        BY <3>2, <3>3
    <2> QED
      BY <2>4, <2>5
  <1> QED
    BY <1>1, <1>5, <1>6, <1>7, <1>8, ExitReleases DEF IInv

(* Every step keeps the invariant.                                         *)
LEMMA NextIInv == IInv /\ [Next]_vars => IInv'
  <1> SUFFICES ASSUME IInv, [Next]_vars PROVE IInv'
    OBVIOUS
  <1>1. ASSUME NEW n \in Nodes, NEW code \in {0, 1}, on_exit(n, code) PROVE IInv'
    BY <1>1, SuccessIInv, FailFastIInv, KeepGoingIInv DEF on_exit
  <1>2. CASE UNCHANGED vars
    BY <1>2 DEF vars, IInv, TypeOK, SetsMatchStates, CountersExact, Unmet,
        LocksMatchRunning, LoopGuard, has_interactive_in_flight, InteractiveAlone,
        is_interactive, PolicyRespected, NotStarted, SkippedExactly
  <1> QED
    BY <1>1, <1>2, ScheduleReadyIInv, StartNodeIInv, EndLoopIInv
    DEF Next, Scheduling, Exits, Finished

(* The invariant holds in every behaviour.                                 *)
LEMMA Invariance == Spec => []IInv
  BY InitIInv, NextIInv, PTL DEF Spec

-----------------------------------------------------------------------------
(* The safety properties.                                                  *)

(* The invariant implies that dependencies come first.                     *)
LEMMA IInvDependencies == IInv => DependenciesFirst
  <1> SUFFICES ASSUME IInv, NEW n \in Nodes,
                      states[n] \in {"Running", "Succeeded", "Failed"},
                      NEW d \in plan.dependsOn[n]
               PROVE  states[d] = "Succeeded"
    BY DEF DependenciesFirst
  <1>1. Unmet(n) = {}
    BY DEF IInv, CountersExact
  <1> QED
    BY <1>1 DEF Unmet

(* The invariant implies that a lock has one holder.                       *)
LEMMA IInvExclusive == IInv => ExclusiveLocks
  BY DEF IInv, LocksMatchRunning, ExclusiveLocks

(* If nothing is ready or running, the pending nodes would each have a     *)
(* pending dependency, which an acyclic graph excludes.                    *)
LEMMA IInvFinished == IInv => FinishedIsComplete
  <1> SUFFICES ASSUME IInv, is_finished
               PROVE  \A n \in Nodes : is_terminal(states[n])
    BY DEF FinishedIsComplete
  <1> DEFINE P == {n \in Nodes : states[n] = "Pending"}
  <1>1. \A n \in Nodes : states[n] \notin {"Ready", "Running"}
    BY DEF IInv, SetsMatchStates, is_finished
  <1>2. \A n \in P : plan.dependsOn[n] \cap P # {}
    <2> SUFFICES ASSUME NEW n \in P PROVE plan.dependsOn[n] \cap P # {}
      OBVIOUS
    <2>1. ~ fail_fast_tripped
      BY DEF IInv, PolicyRespected, NotStarted
    <2>2. Unmet(n) # {}
      BY FS_EmptySet DEF IInv, CountersExact
    <2>3. PICK d \in plan.dependsOn[n] : states[d] # "Succeeded"
      BY <2>2 DEF Unmet
    <2>4. d \in Nodes
      BY PlanTyped DEF IInv, TypeOK
    <2>5. states[d] \notin {"Failed", "Skipped", "Cancelled"}
      <3>1. plan.failure_policy \in {"FailFast", "KeepGoing"}
        BY PlanTyped DEF IInv, TypeOK, Policies
      <3> QED
        BY <2>1, <2>4, <3>1 DEF IInv, PolicyRespected, SkippedExactly
    <2>6. states[d] = "Pending"
      BY <1>1, <2>3, <2>4, <2>5 DEF IInv, TypeOK, States
    <2> QED
      BY <2>4, <2>6
  <1>3. P = {}
    BY <1>2, PlanTyped DEF IInv, TypeOK, Acyclic
  <1>4. \A n \in Nodes : states[n] \in States
    BY DEF IInv, TypeOK
  <1> QED
    BY <1>1, <1>3, <1>4 DEF is_terminal, States

(* No node is started before everything it depends on has exited with 0,   *)
(* for every plan and job limit.                                           *)
THEOREM DependenciesFirstHolds == Spec => []DependenciesFirst
  BY Invariance, IInvDependencies, PTL

(* Exclusive locks are mutual exclusion between nodes in flight, for every *)
(* plan: two nodes that name the same lock never run together.             *)
THEOREM ExclusiveLocksHold == Spec => []ExclusiveLocks
  BY Invariance, IInvExclusive, PTL

(* An interactive node runs alone, for every plan.                         *)
THEOREM InteractiveAloneHolds == Spec => []InteractiveAlone
  <1>1. IInv => InteractiveAlone
    BY DEF IInv
  <1> QED
    BY <1>1, Invariance, PTL

(* When is_finished holds every node has an outcome, for every acyclic     *)
(* plan: none is forgotten in Pending.                                     *)
THEOREM FinishedIsCompleteHolds == Spec => []FinishedIsComplete
  BY Invariance, IInvFinished, PTL

(* Keep-going skips exactly what a failure makes impossible.               *)
THEOREM SkippedExactlyHolds == Spec => []SkippedExactly
  <1>1. IInv => SkippedExactly
    BY DEF IInv
  <1> QED
    BY <1>1, Invariance, PTL

-----------------------------------------------------------------------------
(* The resource pools.                                                     *)

(* What is counted as in use is covered by what the nodes in flight asked  *)
(* for; the two are not equal, for the arithmetic saturates.               *)
PoolsCovered ==
    /\ cpu_in_use <= Total([n \in Nodes |-> cpu_tokens(n)], running)
    /\ memory_in_use <= Total(plan.memory, running)
    /\ validate_schedulability(plan)

(* The demands of the nodes in flight, and what one of them adds.          *)
LEMMA DemandsTyped ==
    ASSUME TypeOK, NEW S \in SUBSET Nodes
    PROVE  LET cpu == [n \in Nodes |-> cpu_tokens(n)]
           IN  /\ Total(cpu, S) \in Nat /\ Total(plan.memory, S) \in Nat
               /\ \A n \in S : /\ Total(cpu, S) = Total(cpu, S \ {n}) + cpu_tokens(n)
                               /\ Total(plan.memory, S)
                                     = Total(plan.memory, S \ {n}) + plan.memory[n]
  <1> DEFINE cpu == [n \in Nodes |-> cpu_tokens(n)]
  <1>1. \A n \in S : cpu[n] = cpu_tokens(n) /\ cpu[n] \in Nat /\ plan.memory[n] \in Nat
    BY CpuTokensTyped, PlanTyped, WidthAssumption DEF TypeOK
  <1>2. IsFiniteSet(S)
    BY NodesAssumption, FS_Subset
  <1> HIDE DEF cpu
  <1>3. /\ Total(cpu, S) \in Nat
        /\ \A n \in S : Total(cpu, S) = Total(cpu, S \ {n}) + cpu[n]
    BY <1>1, <1>2, TotalAdds
  <1>4. /\ Total(plan.memory, S) \in Nat
        /\ \A n \in S : Total(plan.memory, S) = Total(plan.memory, S \ {n}) + plan.memory[n]
    BY <1>1, <1>2, TotalAdds
  <1>5. \A n \in S : Total(cpu, S) = Total(cpu, S \ {n}) + cpu_tokens(n)
    BY <1>1, <1>3
  <1> QED
    BY <1>3, <1>4, <1>5 DEF cpu

(* Nothing is in use at the start.                                         *)
LEMMA InitPoolsCovered == Init => PoolsCovered
  <1> SUFFICES ASSUME Init PROVE PoolsCovered
    OBVIOUS
  <1> DEFINE cpu == [n \in Nodes |-> cpu_tokens(n)]
  <1> HIDE DEF cpu
  <1>1. Total(cpu, {}) = 0 /\ Total(plan.memory, {}) = 0
    BY TotalEmpty
  <1> QED
    BY <1>1 DEF Init, PoolsCovered, cpu

(* A start adds at most what the node asked for, and an exit takes at      *)
(* least that away.                                                        *)
LEMMA NextPoolsCovered == IInv /\ PoolsCovered /\ [Next]_vars => PoolsCovered'
  <1> SUFFICES ASSUME IInv, PoolsCovered, [Next]_vars PROVE PoolsCovered'
    OBVIOUS
  <1> DEFINE cpu == [n \in Nodes |-> cpu_tokens(n)]
             c(S) == Total(cpu, S)
             m(S) == Total(plan.memory, S)
  <1>1. plan' = plan
    BY DEF Next, Scheduling, Exits, Finished, schedule_ready, StartNode, EndLoop, on_exit, vars
  <1>2. cpu' = cpu
    BY <1>1 DEF cpu_tokens
  <1>3. /\ cpu_in_use \in 0..MaxU32 /\ memory_in_use \in 0..MaxU64
        /\ running \in SUBSET Nodes
        /\ \A n \in Nodes : cpu_tokens(n) \in Nat /\ plan.memory[n] \in Nat
    BY CpuTokensTyped, PlanTyped, WidthAssumption DEF IInv, TypeOK
  <1>4. \A S \in SUBSET Nodes :
           /\ c(S) \in Nat /\ m(S) \in Nat
           /\ \A n \in S : c(S) = c(S \ {n}) + cpu_tokens(n) /\ m(S) = m(S \ {n}) + plan.memory[n]
    BY DemandsTyped DEF IInv
  <1>5. cpu_in_use <= c(running) /\ memory_in_use <= m(running) /\ validate_schedulability(plan)
    BY DEF PoolsCovered
  <1>6. SUFFICES cpu_in_use' <= c(running') /\ memory_in_use' <= m(running')
    BY <1>1, <1>2, <1>5 DEF PoolsCovered, validate_schedulability
  <1> HIDE DEF cpu, c, m
  <1>7. ASSUME NEW n \in Nodes, StartNode(n)
        PROVE  cpu_in_use' <= c(running') /\ memory_in_use' <= m(running')
    <2>1. /\ running' = running \cup {n} /\ n \notin running
          /\ cpu_in_use' = SatAdd(cpu_in_use, cpu_tokens(n), MaxU32)
          /\ memory_in_use' = SatAdd(memory_in_use, plan.memory[n], MaxU64)
      BY <1>7 DEF StartNode, acquire_resources, IsCandidate, Candidates, IInv, SetsMatchStates
    <2>2. running' \in SUBSET Nodes /\ n \in running' /\ running' \ {n} = running
      BY <1>3, <2>1
    <2>3. /\ c(running') = c(running) + cpu_tokens(n)
          /\ m(running') = m(running) + plan.memory[n]
      BY <1>4, <2>2
    <2>4. c(running) \in Nat /\ m(running) \in Nat
      BY <1>3, <1>4
    <2>5. cpu_in_use' <= cpu_in_use + cpu_tokens(n)
      BY <1>3, <2>1, WidthAssumption DEF SatAdd
    <2>6. memory_in_use' <= memory_in_use + plan.memory[n]
      BY <1>3, <2>1, WidthAssumption DEF SatAdd
    <2>7. cpu_in_use' \in Nat /\ memory_in_use' \in Nat
      BY <1>3, <2>1, WidthAssumption DEF SatAdd
    <2> QED
      BY <1>3, <1>5, <2>3, <2>4, <2>5, <2>6, <2>7
  <1>8. ASSUME NEW n \in Nodes, NEW code \in {0, 1}, on_exit(n, code)
        PROVE  cpu_in_use' <= c(running') /\ memory_in_use' <= m(running')
    <2>1. /\ running' = running \ {n} /\ n \in running
          /\ cpu_in_use' = SatSub(cpu_in_use, cpu_tokens(n))
          /\ memory_in_use' = SatSub(memory_in_use, plan.memory[n])
      BY <1>8 DEF on_exit, release_resources
    <2>2. /\ c(running) = c(running') + cpu_tokens(n)
          /\ m(running) = m(running') + plan.memory[n]
      BY <1>3, <1>4, <2>1
    <2>3. c(running') \in Nat /\ m(running') \in Nat
      BY <1>3, <1>4, <2>1
    <2> QED
      BY <1>3, <1>5, <2>1, <2>2, <2>3 DEF SatSub
  <1>9. CASE schedule_ready \/ EndLoop \/ Finished \/ UNCHANGED vars
    <2>1. UNCHANGED <<running, cpu_in_use, memory_in_use>>
      BY <1>9 DEF schedule_ready, EndLoop, Finished, vars, resources
    <2> QED
      BY <1>5, <2>1
  <1> QED
    BY <1>7, <1>8, <1>9 DEF Next, Scheduling, Exits

(* With nothing in flight nothing is in use, no lock is held, and a node   *)
(* whose demands fit the empty pools can be started.                       *)
LEMMA NothingHeld ==
    ASSUME IInv, PoolsCovered, running = {}
    PROVE  Candidates = ready
  <1>1. cpu_in_use = 0 /\ memory_in_use = 0
    <2> DEFINE cpu == [n \in Nodes |-> cpu_tokens(n)]
    <2>1. cpu_in_use <= Total(cpu, {}) /\ memory_in_use <= Total(plan.memory, {})
      BY DEF PoolsCovered
    <2>2. cpu_in_use \in Nat /\ memory_in_use \in Nat
      BY WidthAssumption DEF IInv, TypeOK
    <2> HIDE DEF cpu
    <2>3. Total(cpu, {}) = 0 /\ Total(plan.memory, {}) = 0
      BY TotalEmpty
    <2> QED
      BY <2>1, <2>2, <2>3
  <1>2. \A l \in Locks : held_locks[l] = NoNode
    BY DEF IInv, LocksMatchRunning
  <1>3. ASSUME NEW n \in ready PROVE can_acquire_resources(n)
    <2>1. n \in Nodes
      BY DEF IInv, TypeOK
    <2>2. cpu_tokens(n) \in 1..MaxU32 /\ plan.memory[n] \in 0..MaxU64
      BY <2>1, CpuTokensTyped, PlanTyped DEF IInv, TypeOK
    <2>3. SatAdd(0, cpu_tokens(n), MaxU32) = cpu_tokens(n)
      BY <2>2, WidthAssumption DEF SatAdd
    <2>4. SatAdd(0, plan.memory[n], MaxU64) = plan.memory[n]
      BY <2>2, WidthAssumption DEF SatAdd
    <2>5. /\ cpu_tokens(n) <= CpuPool
          /\ ~ (plan.memory[n] > 0 /\ MemoryPool > 0 /\ plan.memory[n] > MemoryPool)
      BY <2>1 DEF PoolsCovered, validate_schedulability, cpu_tokens
    <2>6. \A l \in plan.exclusive[n] : l \in Locks
      BY <2>1, PlanTyped DEF IInv, TypeOK
    <2> QED
      BY <1>1, <1>2, <2>3, <2>4, <2>5, <2>6 DEF can_acquire_resources
  <1> QED
    BY <1>3 DEF Candidates

(* A run never stalls on its own resources, for every plan, every pool and *)
(* every width of the counters: once nothing is in flight whatever is      *)
(* ready can start, because an exit gives back at least what its start     *)
(* took and validate_schedulability refused the demands no pool can meet.  *)
THEOREM NoResourceStallHolds == Spec => []NoResourceStall
  <1>1. IInv /\ PoolsCovered => NoResourceStall
    BY NothingHeld DEF NoResourceStall
  <1> QED
    BY <1>1, InitIInv, NextIInv, InitPoolsCovered, NextPoolsCovered, PTL DEF Spec

-----------------------------------------------------------------------------
(* Action properties.                                                      *)

(* Under fail-fast no call of schedule_ready starts a node after a failure. *)
THEOREM NoStartAfterFailureHolds == Spec => NoStartAfterFailure
  <1> DEFINE A == plan.failure_policy = "FailFast" /\ (\E n \in Nodes : states[n] = "Failed")
                    => running' \subseteq running
  <1>1. IInv /\ [Next]_vars => [A]_vars
    <2> SUFFICES ASSUME IInv, Next, plan.failure_policy = "FailFast",
                        \E n \in Nodes : states[n] = "Failed"
                 PROVE  running' \subseteq running
      OBVIOUS
    <2>1. \A n \in Nodes : ~ StartNode(n)
      BY DEF StartNode, IInv, LoopGuard, PolicyRespected
    <2> QED
      BY <2>1 DEF Next, Scheduling, Exits, Finished, schedule_ready, EndLoop,
                  on_exit, vars
  <1> QED
    BY <1>1, Invariance, PTL DEF Spec, NoStartAfterFailure

(* The outcome of a node is never rewritten.                               *)
THEOREM TerminalIsFinalHolds == Spec => TerminalIsFinal
  <1> DEFINE A == \A n \in Nodes : is_terminal(states[n]) => states'[n] = states[n]
  <1>1. IInv /\ [Next]_vars => [A]_vars
    <2> SUFFICES ASSUME IInv, Next, NEW m \in Nodes, is_terminal(states[m])
                 PROVE  states'[m] = states[m]
      OBVIOUS
    <2>1. m \notin NotStarted /\ states[m] # "Running"
      BY DEF is_terminal, NotStarted
    <2>2. CASE schedule_ready
      BY <2>1, <2>2 DEF schedule_ready, cancel_all_not_started
    <2>3. ASSUME NEW n \in Nodes, StartNode(n) PROVE states'[m] = states[m]
      <3>1. states[n] = "Ready"
        BY <2>3 DEF StartNode, IsCandidate, Candidates, IInv, SetsMatchStates
      <3> QED
        BY <2>1, <2>3, <3>1 DEF StartNode, IInv, TypeOK, NotStarted
    <2>4. ASSUME NEW n \in Nodes, NEW code \in {0, 1}, on_exit(n, code)
          PROVE  states'[m] = states[m]
      <3>1. m # n
        BY <2>1, <2>4 DEF on_exit, IInv, SetsMatchStates
      <3>2. m \notin Unlocked(n) /\ m \notin WalkFrom(n)
        BY <2>1 DEF Unlocked, WalkFrom, NotStarted
      <3> QED
        BY <2>1, <2>4, <3>1, <3>2
        DEF on_exit, unlock_dependents, trip_fail_fast, cancel_transitive_dependents
    <2>5. CASE EndLoop \/ Finished
      BY <2>5 DEF EndLoop, Finished, vars
    <2> QED
      BY <2>2, <2>3, <2>4, <2>5 DEF Next, Scheduling, Exits
  <1> QED
    BY <1>1, Invariance, PTL DEF Spec, TerminalIsFinal

-----------------------------------------------------------------------------
(* Refinement.                                                             *)

(* Under keep-going, what the walk reaches from a running node is what has *)
(* not started among all the descendants of that node: a node where the    *)
(* walk stops was skipped before, with everything behind it.               *)
LEMMA WalkIsDescendants ==
    ASSUME IInv, plan.failure_policy = "KeepGoing",
           NEW n \in Nodes, states[n] = "Running"
    PROVE  WalkFrom(n) = NotStarted \cap Dag!Descendants(n)
  <1> DEFINE D == Dag!Descendants(n)
             closed(S) == \A d \in S \cup {n} :
                             \A m \in Nodes : d \in plan.dependsOn[m] => m \in S
  <1>1. D = {m \in Nodes : \A S \in SUBSET Nodes : closed(S) => m \in S}
    BY DEF Dag!Descendants
  <1>2. NotStarted \subseteq Nodes
    BY DEF NotStarted
  <1>3. WalkFrom(n) \subseteq D
    <2> DEFINE T == NotStarted \cap D
    <2>1. closed(D)
      <3> SUFFICES ASSUME NEW d \in D \cup {n}, NEW m \in Nodes,
                          d \in plan.dependsOn[m],
                          NEW S \in SUBSET Nodes, closed(S)
                   PROVE  m \in S
        BY <1>1
      <3>1. d \in S \cup {n}
        BY <1>1
      <3> QED
        BY <3>1
    <2>2. \A k \in T \cup {n} : dependents(k) \cap NotStarted \subseteq T
      BY <1>2, <2>1 DEF dependents
    <2>3. T \in SUBSET NotStarted
      OBVIOUS
    <2>4. WalkFrom(n) \subseteq T
      BY <2>2, <2>3 DEF WalkFrom
    <2> QED
      BY <2>4
  <1>4. NotStarted \cap D \subseteq WalkFrom(n)
    <2> DEFINE T == WalkFrom(n) \cup {m \in Nodes : states[m] = "Skipped"}
    <2>1. T \in SUBSET Nodes
      BY <1>2 DEF WalkFrom
    <2>2. closed(T)
      <3> SUFFICES ASSUME NEW d \in T \cup {n}, NEW m \in Nodes,
                          d \in plan.dependsOn[m]
                   PROVE  m \in T
        OBVIOUS
      <3>1. d \in Nodes /\ states[d] # "Succeeded"
        BY <2>1 DEF WalkFrom, NotStarted
      <3>2. m \in NotStarted \/ states[m] = "Skipped"
        <4>1. d \in Unmet(m)
          BY <3>1 DEF Unmet
        <4>2. states[m] \in States /\ states[m] # "Cancelled"
          BY DEF IInv, TypeOK, PolicyRespected
        <4> QED
          BY <4>1, <4>2 DEF IInv, CountersExact, States, NotStarted
      <3>3. CASE d \in WalkFrom(n) \cup {n}
        BY <3>2, <3>3, WalkClosed DEF dependents
      <3>4. CASE states[d] = "Skipped"
        BY <3>4 DEF IInv, SkippedExactly
      <3> QED
        BY <3>3, <3>4
    <2>3. D \subseteq T
      BY <1>1, <2>1, <2>2
    <2> QED
      BY <2>3 DEF NotStarted
  <1> QED
    BY <1>3, <1>4 DEF WalkFrom

(* The mapped status of a node, state by state.                            *)
LEMMA StatusCases ==
    ASSUME NEW st \in States
    PROVE  /\ StatusOf(st) = "waiting" <=> st \in {"Pending", "Ready"}
           /\ StatusOf(st) = "running" <=> st = "Running"
           /\ StatusOf(st) = "succeeded" <=> st = "Succeeded"
           /\ StatusOf(st) = "failed" <=> st = "Failed"
           /\ StatusOf(st) = "dropped" <=> st \in {"Cancelled", "Skipped"}
  BY DEF StatusOf, States

(* How each state of a node is seen by the abstract specification.         *)
LEMMA StatusValues ==
    /\ StatusOf("Pending") = "waiting"
    /\ StatusOf("Ready") = "waiting"
    /\ StatusOf("Running") = "running"
    /\ StatusOf("Succeeded") = "succeeded"
    /\ StatusOf("Failed") = "failed"
    /\ StatusOf("Cancelled") = "dropped"
    /\ StatusOf("Skipped") = "dropped"
  BY DEF StatusOf

(* A start is a start of the abstract specification.                       *)
LEMMA StartRefines ==
    ASSUME IInv, NEW n \in Nodes, StartNode(n)
    PROVE  Dag!Start(n)
  <1>1. /\ plan' = plan
        /\ states[n] = "Ready"
        /\ states' = [states EXCEPT ![n] = "Running"]
        /\ ~ fail_fast_tripped
    BY DEF StartNode, IsCandidate, Candidates, IInv, SetsMatchStates, LoopGuard
  <1>2. \A m \in Nodes : states[m] \in States
    BY DEF IInv, TypeOK
  <1>3. \A d \in plan.dependsOn[n] : d \in Nodes /\ states[d] = "Succeeded"
    BY <1>1, PlanTyped DEF IInv, TypeOK, CountersExact, Unmet
  <1>4. plan.failure_policy = "FailFast" => \A m \in Nodes : states[m] # "Failed"
    BY <1>1 DEF IInv, PolicyRespected
  <1>5. \A m \in Nodes : StatusOf(states'[m]) = IF m = n THEN "running"
                                                ELSE StatusOf(states[m])
    <2>1. \A m \in Nodes : states'[m] = IF m = n THEN "Running" ELSE states[m]
      BY <1>1 DEF IInv, TypeOK
    <2> QED
      BY <2>1, StatusValues
  <1>6. StatusOf(states[n]) = "waiting"
    BY <1>1, StatusValues
  <1>7. \A d \in plan.dependsOn[n] : d \in Nodes /\ StatusOf(states[d]) = "succeeded"
    BY <1>3, StatusValues
  <1>8. plan.failure_policy = "FailFast" =>
           \A m \in Nodes : StatusOf(states[m]) # "failed"
    BY <1>2, <1>4, StatusCases
  <1> QED
    BY <1>1, <1>5, <1>6, <1>7, <1>8 DEF Dag!Start

(* An exit with code 0 is a success of the abstract specification.         *)
LEMMA SuccessRefines ==
    ASSUME IInv, NEW n \in Nodes, on_exit(n, 0), unlock_dependents(n)
    PROVE  Dag!Succeed(n)
  <1>1. plan' = plan /\ states[n] = "Running"
    BY DEF on_exit, IInv, SetsMatchStates
  <1>2. \A m \in Unlocked(n) : states[m] = "Pending"
    BY DEF Unlocked
  <1>3. \A m \in Nodes : StatusOf(states'[m]) = IF m = n THEN "succeeded"
                                                ELSE StatusOf(states[m])
    <2>1. \A m \in Nodes : states'[m] = IF m = n THEN "Succeeded"
                                        ELSE IF m \in Unlocked(n) THEN "Ready"
                                        ELSE states[m]
      BY DEF unlock_dependents
    <2> QED
      BY <1>2, <2>1, StatusValues
  <1>4. StatusOf(states[n]) = "running"
    BY <1>1 DEF StatusOf
  <1> QED
    BY <1>1, <1>3, <1>4 DEF Dag!Succeed

(* A failure drops what TaskDag says is lost.                              *)
LEMMA FailureRefines ==
    ASSUME IInv, NEW n \in Nodes, states[n] = "Running", plan' = plan,
           NEW st \in {"Cancelled", "Skipped"},
           \A m \in Nodes : states'[m] = IF m = n THEN "Failed"
                                         ELSE IF m \in Dag!Lost(n) THEN st
                                         ELSE states[m]
    PROVE  Dag!Fail(n)
  <1>1. StatusOf(states[n]) = "running"
    BY DEF StatusOf
  <1>2. StatusOf("Failed") = "failed" /\ StatusOf(st) = "dropped"
    BY DEF StatusOf
  <1>3. \A m \in Nodes : StatusOf(states'[m]) = IF m = n THEN "failed"
                                                ELSE IF m \in Dag!Lost(n) THEN "dropped"
                                                ELSE StatusOf(states[m])
    BY <1>2
  <1> QED
    BY <1>1, <1>3 DEF Dag!Fail

(* What the abstract specification drops after a failure, for each policy. *)
LEMMA LostIs ==
    ASSUME IInv, NEW n \in Nodes
    PROVE  /\ plan.failure_policy = "FailFast" => Dag!Lost(n) = NotStarted
           /\ plan.failure_policy = "KeepGoing" =>
                 Dag!Lost(n) = NotStarted \cap Dag!Descendants(n)
  <1>1. \A m \in Nodes : StatusOf(states[m]) = "waiting" <=> m \in NotStarted
    BY StatusCases DEF IInv, TypeOK, NotStarted
  <1> QED
    BY <1>1 DEF Dag!Lost, NotStarted

(* The scheduler implements TaskDag: hidden behind the ready queue, the    *)
(* counters, the locks and the pools, every step is a start the contract   *)
(* allows, a success, a failure that drops exactly the nodes the policy    *)
(* names, or a step the contract does not see.                             *)
THEOREM Refinement == Spec => ImplementsTaskDag
  <1>1. Init => Dag!Init
    <2> SUFFICES ASSUME Init PROVE Dag!Init
      OBVIOUS
    <2>1. \A n \in Nodes : StatusOf(states[n]) = "waiting"
      BY DEF Init, StatusOf
    <2> QED
      BY <2>1 DEF Init, Dag!Init
  <1>2. IInv /\ [Next]_vars => [Dag!Next]_(Dag!dagVars)
    <2> SUFFICES ASSUME IInv, [Next]_vars
                 PROVE  Dag!Next \/ UNCHANGED <<plan, [n \in Nodes |-> StatusOf(states[n])]>>
      BY DEF Dag!dagVars
    <2>1. CASE schedule_ready
      <3>1. \A n \in Nodes : states'[n] = states[n]
        BY <2>1 DEF schedule_ready, cancel_all_not_started, IInv, PolicyRespected
      <3> QED
        BY <2>1, <3>1 DEF schedule_ready
    <2>2. ASSUME NEW n \in Nodes, StartNode(n) PROVE Dag!Next
      BY <2>2, StartRefines DEF Dag!Next
    <2>3. ASSUME NEW n \in Nodes, NEW code \in {0, 1}, on_exit(n, code)
          PROVE  Dag!Next
      <3>1. plan' = plan /\ states[n] = "Running"
        BY <2>3 DEF on_exit, IInv, SetsMatchStates
      <3>2. CASE code = 0 /\ unlock_dependents(n)
        BY <2>3, <3>2, SuccessRefines DEF Dag!Next
      <3>3. CASE plan.failure_policy = "FailFast" /\ trip_fail_fast(n)
        <4>1. Dag!Fail(n)
          BY <3>1, <3>3, LostIs, FailureRefines DEF trip_fail_fast
        <4> QED
          BY <4>1 DEF Dag!Next
      <3>4. CASE plan.failure_policy = "KeepGoing" /\ cancel_transitive_dependents(n)
        <4>1. Dag!Fail(n)
          BY <3>1, <3>4, LostIs, WalkIsDescendants, FailureRefines
          DEF cancel_transitive_dependents
        <4> QED
          BY <4>1 DEF Dag!Next
      <3> QED
        BY <2>3, <3>2, <3>3, <3>4 DEF on_exit
    <2>4. CASE EndLoop \/ UNCHANGED vars
      BY <2>4 DEF EndLoop, vars
    <2> QED
      BY <2>1, <2>2, <2>3, <2>4 DEF Next, Scheduling, Exits, Finished
  <1> QED
    BY <1>1, <1>2, Invariance, PTL DEF Spec, ImplementsTaskDag, Dag!Spec

=============================================================================
