--------------------------- MODULE DecisionProofs ---------------------------
(***************************************************************************)
(* What a command works out before it runs a node, for every value of the  *)
(* constants: the affected set is what a change can reach and no more, an  *)
(* accepted plan is a serial order of what is needed, and a key stands for *)
(* the inputs of its node, so that a hit restores what a run would write.  *)
(***************************************************************************)
EXTENDS ActionCache, Affected, Planner, SequenceTheorems, Totals

-----------------------------------------------------------------------------
(* The affected analysis                                                   *)

(* The position of each member of a finite set of numbers is one of its    *)
(* own, so the set in the order of its keys has every member and no other. *)
LEMMA KeyOrder ==
    ASSUME NEW S \in SUBSET Nat, IsFiniteSet(S)
    PROVE  /\ InKeyOrder(S) \in Seq(S)
           /\ Len(InKeyOrder(S)) = Cardinality(S)
           /\ \A n \in S : \E i \in 1..Cardinality(S) : InKeyOrder(S)[i] = n
  <1> DEFINE before(n) == {m \in S : m < n}
             k == Cardinality(S)
             rank == [n \in S |-> Cardinality(before(n)) + 1]
  <1>1. k \in Nat
    BY FS_CardinalityType
  <1>2. ASSUME NEW n \in S
        PROVE  rank[n] \in 1..k
    <2>1. before(n) \subseteq S \ {n}
      OBVIOUS
    <2>2. IsFiniteSet(S \ {n}) /\ Cardinality(S \ {n}) = k - 1
      BY FS_RemoveElement
    <2>3. IsFiniteSet(before(n)) /\ Cardinality(before(n)) <= k - 1
      BY <2>1, <2>2, FS_Subset
    <2>4. Cardinality(before(n)) \in Nat
      BY <2>3, FS_CardinalityType
    <2> QED
      BY <1>1, <2>3, <2>4
  <1>3. ASSUME NEW m \in S, NEW n \in S, m < n
        PROVE  rank[m] # rank[n]
    <2>1. before(m) \cup {m} \subseteq before(n) /\ m \notin before(m)
      <3>1. S \subseteq Nat /\ m \in Nat /\ n \in Nat
        OBVIOUS
      <3>2. \A j \in Nat : j < m => j < n
        BY <1>3, <3>1
      <3>3. ~ (m < m)
        BY <3>1
      <3>4. \A j \in before(m) : j \in before(n)
        BY <3>1, <3>2
      <3> QED
        BY <1>3, <3>3, <3>4
    <2>2. IsFiniteSet(before(m)) /\ IsFiniteSet(before(n))
      BY FS_Subset, before(m) \subseteq S, before(n) \subseteq S
    <2>3. /\ IsFiniteSet(before(m) \cup {m})
          /\ Cardinality(before(m) \cup {m}) = Cardinality(before(m)) + 1
      BY <2>1, <2>2, FS_AddElement
    <2>4. Cardinality(before(m) \cup {m}) <= Cardinality(before(n))
      BY <2>1, <2>2, FS_Subset
    <2>5. Cardinality(before(m)) \in Nat /\ Cardinality(before(n)) \in Nat
      BY <2>2, FS_CardinalityType
    <2> QED
      BY <2>3, <2>4, <2>5
  <1>4. \A m, n \in S : rank[m] = rank[n] => m = n
    <2>1. \A m, n \in S : m < n \/ n < m \/ m = n
      OBVIOUS
    <2> QED
      BY <1>3, <2>1
  <1>5. rank \in [S -> 1..k]
    BY <1>2
  <1>6. rank \in Injection(S, 1..k)
    BY <1>4, <1>5 DEF Injection, IsInjective
  <1>7. IsFiniteSet(1..k) /\ Cardinality(1..k) = k
    BY <1>1, FS_Interval
  <1>8. rank \in Surjection(S, 1..k)
    BY <1>6, <1>7, FS_Injection
  <1>9. \A i \in 1..k : \E n \in S : rank[n] = i
    BY <1>8 DEF Surjection
  <1>10. \A n \in S : Cardinality(before(n)) = rank[n] - 1
    <2>1. \A n \in S : Cardinality(before(n)) \in Nat
      BY FS_Subset, FS_CardinalityType, \A n \in S : before(n) \subseteq S
    <2> QED
      BY <2>1
  <1>11. ASSUME NEW i \in 1..k
         PROVE  InKeyOrder(S)[i] \in S /\ rank[InKeyOrder(S)[i]] = i
    <2>1. InKeyOrder(S)[i] = CHOOSE n \in S : Cardinality(before(n)) = i - 1
      BY DEF InKeyOrder
    <2>2. \E n \in S : Cardinality(before(n)) = i - 1
      BY <1>9, <1>10
    <2>3. InKeyOrder(S)[i] \in S /\ Cardinality(before(InKeyOrder(S)[i])) = i - 1
      BY <2>1, <2>2
    <2> DEFINE n == InKeyOrder(S)[i]
    <2> HIDE DEF rank, n
    <2>4. n \in S /\ Cardinality(before(n)) = i - 1
      BY <2>3 DEF n
    <2>5. Cardinality(before(n)) = rank[n] - 1
      BY <1>10, <2>4
    <2>6. rank[n] \in 1..k
      BY <1>5, <2>4
    <2>7. rank[n] = i
      BY <1>1, <2>4, <2>5, <2>6
    <2> QED
      BY <2>4, <2>7 DEF n
  <1>12. InKeyOrder(S) \in [1..k -> S]
    <2> DEFINE f == [i \in 1..k |-> CHOOSE n \in S : Cardinality(before(n)) = i - 1]
    <2>1. InKeyOrder(S) = f
      BY DEF InKeyOrder
    <2>2. \A i \in 1..k : f[i] \in S
      BY <1>11, <2>1
    <2> QED
      BY <2>1, <2>2
  <1>13. InKeyOrder(S) \in Seq(S) /\ Len(InKeyOrder(S)) = k
    BY <1>1, <1>12
  <1>14. \A n \in S : \E i \in 1..k : InKeyOrder(S)[i] = n
    <2>1. \A n \in S : rank[n] \in 1..k
      BY <1>2
    <2>2. \A n \in S : InKeyOrder(S)[rank[n]] = n
      <3> HIDE DEF rank
      <3> QED
        BY <1>4, <1>11, <2>1
    <2> QED
      BY <2>1, <2>2
  <1> QED
    BY <1>13, <1>14

(* What a set reaches: its own nodes, what depends on what it reaches, and *)
(* nothing outside a set that holds it and is closed.                      *)
LEMMA ClosureFacts ==
    ASSUME NEW S \in SUBSET AffNodes, aff_needs \in [AffTasks -> SUBSET AffNodes]
    PROVE  /\ S \subseteq Closure(S) /\ Closure(S) \subseteq AffNodes
           /\ ClosedUp(Closure(S))
           /\ \A T \in SUBSET AffNodes : S \subseteq T /\ ClosedUp(T) => Closure(S) \subseteq T
  BY DEF Closure, ClosedUp, reverse_dependencies, AffNodes

Statuses == {"Affected", "Unaffected", "Unknown", NoStatus}
AffTypeOK ==
    /\ aff_needs \in [AffTasks -> SUBSET AffNodes]
    /\ aff_roots \in [AffNodes -> RootKinds]
    /\ aff_global \in BOOLEAN
    /\ aff_status \in [AffNodes -> Statuses]
    /\ aff_queue \in Seq(AffNodes)
    /\ aff_seen \in SUBSET AffNodes
    /\ aff_pc \in {"first", "pass1", "finalize", "second", "pass2", "done"}

(* The tasks whose own paths are not known.                                *)
Unclear == {t \in AffTasks : aff_roots[t] \in {"invalid", "empty"}}

(* No status comes from nowhere.                                           *)
Justified ==
    /\ \A n \in AffNodes : aff_status[n] = "Affected" => n \in Closure(HitNodes)
    /\ \A t \in AffTasks : aff_status[t] = "Unknown" => t \in Closure(Unclear)
    /\ \A a \in AffApps : aff_status[a] = "Unknown" => aff_roots[a] # "miss"
    /\ \A n \in AffNodes : aff_status[n] = NoStatus => aff_roots[n] = "empty"

(* A status is not lost: what owns a changed path stays affected, and what *)
(* is not known never becomes unaffected.                                  *)
Kept ==
    /\ \A n \in HitNodes : aff_status[n] = "Affected"
    /\ \A n \in AffNodes : aff_roots[n] # "miss" => aff_status[n] # "Unaffected"
    /\ aff_global => \A n \in AffNodes : aff_status[n] = "Affected"
    /\ aff_pc \in {"second", "pass2", "done"} => \A n \in AffNodes : aff_status[n] # NoStatus

(* The nodes that raise their dependents: an app only if it is affected.   *)
Raising == {n \in AffNodes : aff_status[n] = "Affected" \/ (aff_status[n] = "Unknown" /\ n \in AffTasks)}
Queued(n) == \E i \in 1..Len(aff_queue) : aff_queue[i] = n

(* A node that left the queue has marked all that depends on it.           *)
Spread ==
    /\ aff_pc \in {"pass1", "pass2"} =>
           /\ aff_seen = Marked
           /\ \A n \in Raising : Queued(n) \/ reverse_dependencies(n) \subseteq Marked
    /\ aff_pc \in {"finalize", "done"} =>
           \A n \in Raising : reverse_dependencies(n) \subseteq Marked

(* When every glob compiles nothing is unknown before the first pass ends, *)
(* and what that pass leaves affected is closed.                           *)
AffectedNodes == {n \in AffNodes : aff_status[n] = "Affected"}
Forced ==
    (\A n \in AffNodes : aff_roots[n] # "invalid") =>
        /\ aff_pc \in {"first", "pass1", "finalize"} =>
               \A n \in AffNodes : aff_status[n] # "Unknown"
        /\ aff_pc \in {"finalize", "second", "pass2", "done"} => ClosedUp(AffectedNodes)

AffInv == AffTypeOK /\ Justified /\ Kept /\ Spread /\ Forced


(* The graph and the paths are given, so what a set reaches stays.         *)
LEMMA ReachStays ==
    ASSUME aff_input' = aff_input
    PROVE  /\ aff_needs' = aff_needs /\ aff_roots' = aff_roots /\ aff_global' = aff_global
           /\ HitNodes' = HitNodes /\ Unclear' = Unclear
           /\ Closure(HitNodes)' = Closure(HitNodes) /\ Closure(Unclear)' = Closure(Unclear)
           /\ \A n : reverse_dependencies(n)' = reverse_dependencies(n)
  BY DEF aff_input, HitNodes, Unclear, Closure, ClosedUp, reverse_dependencies

(* The analysis begins with nothing judged.                                *)
LEMMA AffBegins == AffInit => AffInv
  <1> SUFFICES ASSUME AffInit PROVE AffInv
    OBVIOUS
  <1> USE DEF AffInit
  <1>1. aff_needs \in [AffTasks -> SUBSET AffNodes]
    BY AffAssumption DEF AffNodes, AffAssumption
  <1>2. \A n \in AffNodes : aff_status[n] =
            IF aff_global THEN "Affected"
            ELSE CASE aff_roots[n] = "hit" -> "Affected"
                   [] aff_roots[n] = "miss" -> "Unaffected"
                   [] aff_roots[n] = "invalid" -> "Unknown"
                   [] OTHER -> NoStatus
    BY DEF Classified
  <1>3. aff_status \in [AffNodes -> Statuses]
    BY DEF Classified, Statuses
  <1>4. AffTypeOK
    BY <1>1, <1>3 DEF AffTypeOK
  <1>5. \A n \in AffNodes : aff_roots[n] \in RootKinds
    OBVIOUS
  <1>6. NoStatus \notin {"Affected", "Unaffected", "Unknown"}
    BY AffAssumption DEF AffAssumption
  <1>7. \A n \in AffNodes : aff_status[n] = "Affected" <=> n \in HitNodes
    BY <1>2, <1>5, <1>6 DEF HitNodes, RootKinds
  <1>8. \A n \in AffNodes : aff_status[n] = "Unknown" => aff_roots[n] = "invalid"
    BY <1>2, <1>5, <1>6 DEF RootKinds
  <1>9. HitNodes \in SUBSET AffNodes /\ Unclear \in SUBSET AffNodes
    BY DEF HitNodes, Unclear, AffNodes
  <1>10. HitNodes \subseteq Closure(HitNodes) /\ Unclear \subseteq Closure(Unclear)
    BY <1>1, <1>9, ClosureFacts
  <1>11. Justified
    <2>1. \A n \in AffNodes : aff_status[n] = "Affected" => n \in Closure(HitNodes)
      BY <1>7, <1>10
    <2>2. \A t \in AffTasks : aff_status[t] = "Unknown" => t \in Closure(Unclear)
      BY <1>8, <1>10 DEF Unclear, AffNodes
    <2>3. \A a \in AffApps : aff_status[a] = "Unknown" => aff_roots[a] # "miss"
      BY <1>8 DEF AffNodes
    <2> QED
      BY <1>2, <1>5, <1>6, <2>1, <2>2, <2>3 DEF Justified, RootKinds
  <1>12. Kept
    <2>1. \A n \in AffNodes : aff_roots[n] # "miss" => aff_status[n] # "Unaffected"
      BY <1>2, <1>5, <1>6 DEF RootKinds
    <2> QED
      BY <1>2, <1>7, <2>1 DEF Kept, HitNodes
  <1> QED
    BY <1>4, <1>8, <1>11, <1>12 DEF AffInv, Spread, Forced

(* The queue starts with what is marked.                                   *)
LEMMA AffPropagates ==
    ASSUME AffInv, NEW from \in {"first", "second"}, NEW to \in {"pass1", "pass2"},
           (from = "first" /\ to = "pass1") \/ (from = "second" /\ to = "pass2"),
           propagate(from, to)
    PROVE  AffInv'
  <1> USE DEF AffInv, propagate
  <1>1. Marked \in SUBSET Nat /\ IsFiniteSet(Marked) /\ Marked \subseteq AffNodes
    <2>1. Marked \subseteq AffNodes /\ IsFiniteSet(AffNodes) /\ AffNodes \subseteq Nat
      BY AffAssumption DEF Marked, AffNodes, AffAssumption
    <2> QED
      BY <2>1, FS_Subset
  <1>2. /\ aff_queue' \in Seq(Marked) /\ Len(aff_queue') = Cardinality(Marked)
        /\ \A n \in Marked : \E i \in 1..Len(aff_queue') : aff_queue'[i] = n
    BY <1>1, KeyOrder
  <1>3. aff_queue' \in Seq(AffNodes)
    BY <1>1, <1>2, WiderSeq
  <1>4. aff_input' = aff_input /\ aff_status' = aff_status /\ aff_pc = from /\ aff_pc' = to
    BY DEF aff_input
  <1>5. AffTypeOK'
    BY <1>1, <1>3, <1>4, ReachStays DEF AffTypeOK
  <1>6. Justified'
    BY <1>4, ReachStays DEF Justified
  <1>7. Kept'
    BY <1>4, ReachStays DEF Kept
  <1>8. Marked' = Marked /\ Raising' = Raising /\ AffectedNodes' = AffectedNodes
    BY <1>4 DEF Marked, Raising, AffectedNodes
  <1>9. Spread'
    <2>1. Raising \subseteq Marked
      BY DEF Raising, Marked
    <2>2. \A n \in Raising' : Queued(n)'
      BY <1>2, <1>8, <2>1 DEF Queued
    <2> QED
      BY <1>4, <1>8, <2>2 DEF Spread
  <1>10. Forced'
    <2>1. ClosedUp(AffectedNodes)' <=> ClosedUp(AffectedNodes)
      BY <1>4, <1>8, ReachStays DEF ClosedUp
    <2> QED
      BY <1>4, <2>1, ReachStays DEF Forced
  <1> QED
    BY <1>5, <1>6, <1>7, <1>9, <1>10

(* What empty roots leave undecided is unknown from then on.               *)
LEMMA AffFinalizes == AffInv /\ finalize_empty_roots => AffInv'
  <1> SUFFICES ASSUME AffInv, finalize_empty_roots PROVE AffInv'
    OBVIOUS
  <1> USE DEF AffInv
  <1>1. /\ aff_input' = aff_input /\ aff_pc = "finalize" /\ aff_queue' = aff_queue
        /\ aff_seen' = aff_seen
    BY DEF aff_input, finalize_empty_roots
  <1>2. NoStatus \notin {"Affected", "Unaffected", "Unknown"} /\ AffTasks \subseteq AffNodes
        /\ AffApps \subseteq AffNodes
    BY AffAssumption DEF AffAssumption, AffNodes
  <1>3. CASE aff_global
    <2>1. aff_pc' = "done" /\ aff_status' = aff_status
      BY <1>3 DEF finalize_empty_roots
    <2>2. AffTypeOK'
      BY <1>1, <2>1, ReachStays DEF AffTypeOK
    <2>3. Justified' /\ Kept'
      BY <1>1, <1>2, <1>3, <2>1, ReachStays DEF Justified, Kept
    <2>4. Marked' = Marked /\ Raising' = Raising /\ AffectedNodes' = AffectedNodes
      BY <2>1 DEF Marked, Raising, AffectedNodes
    <2>5. Spread'
      BY <1>1, <2>1, <2>4, ReachStays DEF Spread
    <2>6. Forced'
      BY <1>1, <2>1, <2>4, ReachStays DEF Forced, ClosedUp
    <2> QED
      BY <2>2, <2>3, <2>5, <2>6
  <1>4. CASE ~ aff_global
    <2>1. aff_pc' = "second" /\ aff_status' \in [AffNodes -> Statuses]
      BY <1>4 DEF finalize_empty_roots, AffTypeOK, Statuses
    <2>2. \A n \in AffNodes :
              aff_status'[n] = IF aff_status[n] = NoStatus THEN "Unknown" ELSE aff_status[n]
      BY <1>4 DEF finalize_empty_roots
    <2>3. AffTypeOK'
      BY <1>1, <2>1, ReachStays DEF AffTypeOK
    <2>4. Unclear \subseteq Closure(Unclear)
      BY <1>2, ClosureFacts DEF AffTypeOK, Unclear
    <2>5. Justified'
      <3>1. \A t \in AffTasks : aff_status[t] = NoStatus => t \in Unclear
        BY <1>2 DEF Justified, Unclear
      <3> QED
        BY <1>1, <1>2, <2>2, <2>4, <3>1, ReachStays DEF Justified
    <2>6. Kept'
      <3>1. \A n \in HitNodes : aff_status'[n] = "Affected"
        BY <1>2, <2>2 DEF Kept, HitNodes
      <3>2. \A n \in AffNodes : aff_roots[n] # "miss" => aff_status'[n] # "Unaffected"
        BY <2>2 DEF Kept
      <3>3. \A n \in AffNodes : aff_status'[n] # NoStatus
        BY <1>2, <2>2
      <3> QED
        BY <1>1, <1>4, <3>1, <3>2, <3>3, ReachStays DEF Kept
    <2>7. AffectedNodes' = AffectedNodes
      BY <1>2, <2>2 DEF AffectedNodes
    <2>8. Forced'
      BY <1>1, <2>1, <2>7, ReachStays DEF Forced, ClosedUp
    <2> QED
      BY <2>1, <2>3, <2>5, <2>6, <2>8 DEF Spread
  <1> QED
    BY <1>3, <1>4

(* The pass ends when the queue is empty.                                  *)
LEMMA AffPassEnds ==
    ASSUME AffInv, NEW pass \in {"pass1", "pass2"}, NEW after \in {"finalize", "done"},
           (pass = "pass1" /\ after = "finalize") \/ (pass = "pass2" /\ after = "done"),
           pop_front(pass, after), aff_queue = <<>>
    PROVE  AffInv'
  <1> USE DEF AffInv
  <1>1. /\ aff_input' = aff_input /\ aff_pc = pass /\ aff_pc' = after /\ aff_queue' = aff_queue
        /\ aff_status' = aff_status /\ aff_seen' = aff_seen
    BY DEF pop_front
  <1>2. Marked' = Marked /\ Raising' = Raising /\ AffectedNodes' = AffectedNodes
    BY <1>1 DEF Marked, Raising, AffectedNodes
  <1>3. \A n \in Raising : reverse_dependencies(n) \subseteq Marked
    BY <1>1 DEF Spread, Queued
  <1>4. AffTypeOK'
    BY <1>1, ReachStays DEF AffTypeOK
  <1>5. Justified' /\ Kept'
    BY <1>1, ReachStays DEF Justified, Kept
  <1>6. Spread'
    BY <1>1, <1>2, <1>3, ReachStays DEF Spread
  <1>7. Forced'
    <2>1. (\A n \in AffNodes : aff_status[n] # "Unknown") => ClosedUp(AffectedNodes)
      <3>1. (\A n \in AffNodes : aff_status[n] # "Unknown") => Marked = AffectedNodes
        BY DEF Marked, AffectedNodes
      <3>2. AffectedNodes \subseteq Raising
        BY DEF AffectedNodes, Raising
      <3> QED
        BY <1>3, <3>1, <3>2 DEF ClosedUp
    <2>2. ClosedUp(AffectedNodes)' <=> ClosedUp(AffectedNodes)
      BY <1>1, <1>2, ReachStays DEF ClosedUp
    <2> QED
      BY <1>1, <2>1, <2>2, ReachStays DEF Forced
  <1> QED
    BY <1>4, <1>5, <1>6, <1>7

(* A node leaves the queue and raises what depends on it.                  *)
LEMMA AffPops ==
    ASSUME AffInv, NEW pass \in {"pass1", "pass2"}, NEW after \in {"finalize", "done"},
           (pass = "pass1" /\ after = "finalize") \/ (pass = "pass2" /\ after = "done"),
           pop_front(pass, after), aff_queue # <<>>
    PROVE  AffInv'
  <1> DEFINE n == Head(aff_queue)
             changed == {c \in reverse_dependencies(n) : Raised(n, aff_status[c]) # aff_status[c]}
             new == InKeyOrder(changed \ aff_seen)
  <1> USE DEF AffInv
  <1>1. /\ aff_input' = aff_input /\ aff_pc = pass /\ aff_pc' = pass
        /\ aff_queue' = Tail(aff_queue) \o new /\ aff_seen' = aff_seen \cup changed
        /\ aff_status' = [c \in AffNodes |->
               IF c \in changed THEN Raised(n, aff_status[c]) ELSE aff_status[c]]
    BY DEF pop_front
  <1>2. /\ NoStatus \notin {"Affected", "Unaffected", "Unknown"}
        /\ AffTasks \subseteq AffNodes /\ AffApps \subseteq AffNodes
        /\ AffTasks \cap AffApps = {} /\ AffNodes \subseteq Nat /\ IsFiniteSet(AffNodes)
    <2>1. \A x \in AffNodes : x \in Nat
      BY AffAssumption DEF AffAssumption, AffNodes
    <2>2. AffTasks \cap AffApps = {}
      <3>1. \A x \in Nat : ~ (x < x)
        OBVIOUS
      <3> QED
        BY <2>1, <3>1, AffAssumption DEF AffAssumption, AffNodes
    <2> QED
      BY <2>1, <2>2, AffAssumption DEF AffAssumption, AffNodes
  <1>3. /\ n \in AffNodes /\ Tail(aff_queue) \in Seq(AffNodes) /\ Len(aff_queue) \in Nat \ {0}
        /\ n = aff_queue[1] /\ Len(Tail(aff_queue)) = Len(aff_queue) - 1
        /\ \A i \in 1..Len(Tail(aff_queue)) : Tail(aff_queue)[i] = aff_queue[i + 1]
    BY DEF AffTypeOK
  <1>4. reverse_dependencies(n) \subseteq AffTasks /\ changed \subseteq AffTasks
    BY DEF reverse_dependencies
  <1> HIDE DEF n
  <1>5. \A c \in AffNodes : aff_status'[c] =
            IF c \in reverse_dependencies(n) THEN Raised(n, aff_status[c]) ELSE aff_status[c]
    BY <1>1
  <1>6. aff_status' \in [AffNodes -> Statuses]
    BY <1>1 DEF Raised, AffTypeOK, Statuses
  <1>7. /\ new \in Seq(changed \ aff_seen)
        /\ \A c \in changed \ aff_seen : \E i \in 1..Len(new) : new[i] = c
    <2>1. changed \ aff_seen \in SUBSET Nat /\ IsFiniteSet(changed \ aff_seen)
      <3>1. changed \ aff_seen \subseteq AffNodes
        BY <1>2, <1>4
      <3> QED
        BY <1>2, <3>1, FS_Subset
    <2> HIDE DEF changed
    <2> QED
      BY <2>1, KeyOrder
  <1>8. new \in Seq(AffNodes) /\ aff_queue' \in Seq(AffNodes)
    <2>1. changed \ aff_seen \subseteq AffNodes
      BY <1>2, <1>4
    <2> HIDE DEF new, changed
    <2>2. new \in Seq(AffNodes)
      BY <1>7, <2>1, WiderSeq
    <2> QED
      BY <1>1, <1>3, <2>2
  <1>9. AffTypeOK'
    <2>1. aff_seen' \in SUBSET AffNodes
      BY <1>1, <1>2, <1>4 DEF AffTypeOK
    <2> QED
      BY <1>1, <1>6, <1>8, <2>1, ReachStays DEF AffTypeOK
  <1>10. ASSUME NEW c \in AffNodes
         PROVE  /\ aff_status[c] = "Affected" => aff_status'[c] = "Affected"
                /\ aff_status[c] = "Unknown" => aff_status'[c] \in {"Affected", "Unknown"}
                /\ aff_status'[c] = "Unaffected" => aff_status[c] = "Unaffected"
                /\ aff_status'[c] = NoStatus => aff_status[c] = NoStatus
    BY <1>2, <1>5 DEF Raised
  <1>11. ASSUME NEW c \in AffNodes, aff_status'[c] = "Affected", aff_status[c] # "Affected"
         PROVE  c \in reverse_dependencies(n) /\ aff_status[n] = "Affected"
    BY <1>2, <1>5, <1>11 DEF Raised
  <1>12. ASSUME NEW c \in AffNodes, aff_status'[c] = "Unknown", aff_status[c] # "Unknown"
         PROVE  c \in reverse_dependencies(n) /\ aff_status[n] = "Unknown" /\ n \in AffTasks
    BY <1>2, <1>5, <1>12 DEF Raised
  <1>13. /\ HitNodes \in SUBSET AffNodes /\ Unclear \in SUBSET AffNodes
         /\ ClosedUp(Closure(HitNodes)) /\ ClosedUp(Closure(Unclear))
    <2>1. HitNodes \in SUBSET AffNodes /\ Unclear \in SUBSET AffNodes
      BY <1>2 DEF HitNodes, Unclear
    <2> QED
      BY <2>1, ClosureFacts DEF AffTypeOK
  <1>14. Justified'
    <2>1. \A c \in AffNodes : aff_status'[c] = "Affected" => c \in Closure(HitNodes)
      BY <1>3, <1>11, <1>13 DEF Justified, ClosedUp
    <2>2. \A c \in AffTasks : aff_status'[c] = "Unknown" => c \in Closure(Unclear)
      BY <1>2, <1>12, <1>13 DEF Justified, ClosedUp
    <2>3. \A a \in AffApps : aff_status'[a] = "Unknown" => aff_roots[a] # "miss"
      BY <1>2, <1>4, <1>12 DEF Justified
    <2>4. \A c \in AffNodes : aff_status'[c] = NoStatus => aff_roots[c] = "empty"
      BY <1>10 DEF Justified
    <2> QED
      BY <1>1, <2>1, <2>2, <2>3, <2>4, ReachStays DEF Justified
  <1>15. Kept'
    <2>1. \A c \in HitNodes : aff_status'[c] = "Affected"
      BY <1>10, <1>13 DEF Kept
    <2>2. \A c \in AffNodes : aff_roots[c] # "miss" => aff_status'[c] # "Unaffected"
      BY <1>10 DEF Kept
    <2>3. aff_global => \A c \in AffNodes : aff_status'[c] = "Affected"
      BY <1>10 DEF Kept
    <2>4. aff_pc = "pass2" => \A c \in AffNodes : aff_status'[c] # NoStatus
      BY <1>10 DEF Kept
    <2> QED
      BY <1>1, <2>1, <2>2, <2>3, <2>4, ReachStays DEF Kept
  <1>16. aff_seen = Marked /\ \A m \in Raising : Queued(m) \/ reverse_dependencies(m) \subseteq Marked
    BY <1>1 DEF Spread
  <1>17. \A c \in changed : aff_status'[c] \in {"Affected", "Unknown"}
    BY <1>2, <1>4, <1>5 DEF Raised
  <1>18. Marked' = Marked \cup changed
    <2>1. Marked \subseteq Marked'
      BY <1>10 DEF Marked
    <2>2. changed \subseteq Marked'
      BY <1>2, <1>4, <1>17 DEF Marked
    <2>3. \A c \in AffNodes : c \notin changed => aff_status'[c] = aff_status[c]
      BY <1>1
    <2>4. Marked' \subseteq Marked \cup changed
      BY <2>3 DEF Marked
    <2> QED
      BY <2>1, <2>2, <2>4
  <1>19. \A m \in AffNodes : Queued(m) => m = n \/ Queued(m)'
    <2> SUFFICES ASSUME NEW m \in AffNodes, NEW i \in 1..Len(aff_queue), aff_queue[i] = m, m # n
                 PROVE  Queued(m)'
      BY DEF Queued
    <2>1. i - 1 \in 1..Len(Tail(aff_queue)) /\ Tail(aff_queue)[i - 1] = m
      BY <1>3
    <2> HIDE DEF new
    <2>2. i - 1 \in 1..Len(aff_queue') /\ aff_queue'[i - 1] = m
      BY <1>1, <1>3, <1>8, <2>1
    <2> QED
      BY <2>2 DEF Queued
  <1>20. \A m \in changed \ aff_seen : Queued(m)'
    <2> SUFFICES ASSUME NEW m \in changed \ aff_seen PROVE Queued(m)'
      OBVIOUS
    <2> HIDE DEF changed
    <2>1. PICK i \in 1..Len(new) : new[i] = m
      BY <1>7
    <2> HIDE DEF new
    <2>2. /\ Len(Tail(aff_queue)) + i \in 1..Len(aff_queue')
          /\ aff_queue'[Len(Tail(aff_queue)) + i] = m
      BY <1>1, <1>3, <1>8, <2>1
    <2> QED
      BY <2>2 DEF Queued
  <1>21. n \in Raising => reverse_dependencies(n) \subseteq Marked'
    <2>1. \A c \in reverse_dependencies(n) : c \in AffNodes
      BY <1>2, <1>4
    <2>2. n \in Raising => \A c \in reverse_dependencies(n) : aff_status'[c] \in {"Affected", "Unknown"}
      BY <1>2, <1>5, <2>1 DEF Raising, Raised
    <2> QED
      BY <2>1, <2>2 DEF Marked
  <1>22. \A m \in Raising' : m \in changed \ aff_seen \/ m \in Raising
    <2>1. \A c \in AffNodes : c \notin changed => aff_status'[c] = aff_status[c]
      BY <1>1
    <2>2. changed \cap Marked \subseteq Raising
      BY <1>4 DEF Marked, Raising
    <2> HIDE DEF changed
    <2>3. ASSUME NEW m \in Raising', m \notin changed
          PROVE  m \in Raising
      BY <2>1, <2>3 DEF Raising
    <2> QED
      BY <1>16, <2>2, <2>3
  <1>23. Spread'
    <2>1. ASSUME NEW m \in Raising'
          PROVE  Queued(m)' \/ reverse_dependencies(m) \subseteq Marked'
      <3>1. m \in AffNodes
        BY DEF Raising
      <3> HIDE DEF changed
      <3>2. CASE m \in changed \ aff_seen
        BY <1>20, <3>2
      <3>3. CASE m \in Raising /\ m = n
        BY <1>21, <3>3
      <3>4. CASE m \in Raising /\ m # n
        BY <1>16, <1>18, <1>19, <3>1, <3>4
      <3> QED
        BY <1>22, <3>2, <3>3, <3>4
    <2> HIDE DEF changed
    <2> QED
      BY <1>1, <1>16, <1>18, <2>1, ReachStays DEF Spread
  <1>24. Forced'
    <2> SUFFICES ASSUME \A c \in AffNodes : aff_roots[c] # "invalid"
                 PROVE  /\ aff_pc = "pass1" => \A c \in AffNodes : aff_status'[c] # "Unknown"
                        /\ aff_pc = "pass2" => ClosedUp(AffectedNodes)'
      BY <1>1, ReachStays DEF Forced
    <2>1. aff_pc = "pass1" => \A c \in AffNodes : aff_status'[c] # "Unknown"
      BY <1>3, <1>12 DEF Forced
    <2>2. ASSUME aff_pc = "pass2"
          PROVE  ClosedUp(AffectedNodes)'
      <3>1. ClosedUp(AffectedNodes)
        BY <2>2 DEF Forced
      <3>2. \A c \in AffNodes : aff_status'[c] = "Affected" <=> aff_status[c] = "Affected"
        BY <1>3, <1>10, <1>11, <3>1 DEF ClosedUp, AffectedNodes
      <3>3. AffectedNodes' = AffectedNodes
        BY <3>2 DEF AffectedNodes
      <3> QED
        BY <1>1, <3>1, <3>3, ReachStays DEF ClosedUp
    <2> QED
      BY <2>1, <2>2
  <1> QED
    BY <1>9, <1>14, <1>15, <1>23, <1>24

(* Every step keeps the invariant.                                         *)
LEMMA AffStep == AffInv /\ [AffNext]_aff_vars => AffInv'
  <1> SUFFICES ASSUME AffInv, [AffNext]_aff_vars PROVE AffInv'
    OBVIOUS
  <1>1. CASE propagate("first", "pass1") \/ propagate("second", "pass2")
    BY <1>1, AffPropagates
  <1>2. ASSUME NEW pass \in {"pass1", "pass2"}, NEW after \in {"finalize", "done"},
               (pass = "pass1" /\ after = "finalize") \/ (pass = "pass2" /\ after = "done"),
               pop_front(pass, after)
        PROVE  AffInv'
    BY <1>2, AffPassEnds, AffPops
  <1>3. CASE finalize_empty_roots
    BY <1>3, AffFinalizes
  <1>4. CASE UNCHANGED aff_vars
    <2>1. /\ aff_input' = aff_input /\ aff_pc' = aff_pc /\ aff_queue' = aff_queue
          /\ aff_status' = aff_status /\ aff_seen' = aff_seen
      BY <1>4 DEF aff_vars
    <2>2. Marked' = Marked /\ Raising' = Raising /\ AffectedNodes' = AffectedNodes
      BY <2>1 DEF Marked, Raising, AffectedNodes
    <2>3. AffTypeOK' /\ Justified' /\ Kept'
      BY <2>1, ReachStays DEF AffInv, AffTypeOK, Justified, Kept
    <2>4. Spread'
      BY <2>1, <2>2, ReachStays DEF AffInv, Spread, Queued
    <2>5. Forced'
      BY <2>1, <2>2, ReachStays DEF AffInv, Forced, ClosedUp
    <2> QED
      BY <2>3, <2>4, <2>5 DEF AffInv
  <1> QED
    BY <1>1, <1>2, <1>3, <1>4 DEF AffNext

(* nxr affected lists what a change can reach and no more: with --strict   *)
(* everything that could be, without it only what certainly is, and when   *)
(* every glob compiles all of that.                                        *)
THEOREM AffectedSetExact == AffSpec => []AffectedExact
  <1>1. AffInv => AffectedExact
    <2> SUFFICES ASSUME AffInv, aff_pc = "done" PROVE AffectedExact
      BY DEF AffectedExact, StrictIsSound, NothingExtra, DependencyForcesAffected
    <2> USE DEF AffInv
    <2>1. /\ AffTasks \subseteq AffNodes /\ AffTypeOK
          /\ HitNodes \in SUBSET AffNodes /\ Unclear \in SUBSET AffNodes
      BY DEF HitNodes, Unclear, AffNodes
    <2>2. Raising \in SUBSET AffNodes /\ Raising \subseteq Marked /\ ClosedUp(Raising)
      <3>1. \A n \in AffNodes : reverse_dependencies(n) \subseteq AffTasks
        BY DEF reverse_dependencies
      <3>2. Marked \cap AffTasks \subseteq Raising
        BY DEF Marked, Raising
      <3> QED
        BY <3>1, <3>2 DEF Spread, ClosedUp, Raising, Marked
    <2>3. include_in_lists(TRUE) = Marked /\ include_in_lists(FALSE) = AffectedNodes
      BY DEF include_in_lists, Marked, AffectedNodes
    <2>4. StrictIsSound
      <3>1. HitNodes \subseteq Raising
        BY <2>1 DEF Kept, Raising
      <3>2. Unclear \subseteq Raising
        BY <2>1 DEF Kept, AffTypeOK, Statuses, Unclear, Raising
      <3>3. Closure(HitNodes) \subseteq Raising /\ Closure(Unclear) \subseteq Raising
        BY <2>1, <2>2, <3>1, <3>2, ClosureFacts DEF AffTypeOK
      <3> QED
        BY <2>2, <2>3, <3>3 DEF StrictIsSound, Unclear
    <2>5. NothingExtra
      <3>1. AffectedNodes \subseteq Closure(HitNodes)
        BY DEF Justified, AffectedNodes
      <3>2. Marked \subseteq Closure(HitNodes) \cup {a \in AffApps : aff_roots[a] # "miss"}
                                \cup Closure(Unclear)
        BY DEF Justified, Marked, AffNodes
      <3> QED
        BY <2>3, <3>1, <3>2 DEF NothingExtra, Unclear
    <2>6. DependencyForcesAffected
      <3>1. HitNodes \subseteq AffectedNodes /\ AffectedNodes \in SUBSET AffNodes
        BY <2>1 DEF Kept, AffectedNodes
      <3>2. (\A n \in AffNodes : aff_roots[n] # "invalid") => ClosedUp(AffectedNodes)
        BY DEF Forced
      <3> QED
        BY <2>1, <2>3, <3>1, <3>2, ClosureFacts DEF DependencyForcesAffected, AffTypeOK
    <2> QED
      BY <2>4, <2>5, <2>6 DEF AffectedExact
  <1> QED
    BY <1>1, AffBegins, AffStep, PTL DEF AffSpec


-----------------------------------------------------------------------------
(* The plan                                                                *)

(* The least of some numbers is one of them.                               *)
LEMMA MinOf ==
    ASSUME NEW S \in SUBSET Nat, S # {}
    PROVE  Min(S) \in S
  BY LeastNumber DEF Min

(* A function from a finite set has finitely many values.                  *)
LEMMA FiniteValues ==
    ASSUME NEW f, IsFiniteSet(DOMAIN f)
    PROVE  IsFiniteSet({f[x] : x \in DOMAIN f})
  <1> DEFINE T == {f[x] : x \in DOMAIN f}
             g == [x \in DOMAIN f |-> f[x]]
  <1>1. g \in Surjection(DOMAIN f, T)
    BY DEF Surjection
  <1> HIDE DEF g, T
  <1>2. IsFiniteSet(T)
    BY <1>1, FS_Surjection
  <1> QED
    BY <1>2 DEF T

PlanAll == PlanTasks \cup {MissingTask}

(* The ids of a task say which task it is, and no task is without one.     *)
LEMMA InstanceIds ==
    ASSUME pl_decl \in PlanDeclarations, NEW t \in PlanAll
    PROVE  /\ instance_ids(t) # {} /\ instance_ids(t) \subseteq Nat /\ IsFiniteSet(instance_ids(t))
           /\ \A id \in instance_ids(t) : task_of(id) = t
  <1>1. t \in Nat
    BY PlannerAssumption DEF PlannerAssumption, PlanAll
  <1>2. t \in PlanTasks => pl_decl.include[t] \in 0..8
    BY PlannerAssumption DEF PlannerAssumption
  <1>3. \A k \in 0..8 : 10 * t + k \in Nat /\ (10 * t + k) \div 10 = t
    BY <1>1
  <1>4. CASE t \in PlanTasks /\ pl_decl.include[t] > 0
    <2> DEFINE K == 1..pl_decl.include[t]
    <2>1. instance_ids(t) = {10 * t + k : k \in K} /\ K \subseteq 0..8 /\ 1 \in K
      BY <1>2, <1>4 DEF instance_ids
    <2>2. IsFiniteSet(K)
      <3>1. pl_decl.include[t] \in Int
        BY <1>2, <1>4
      <3> QED
        BY <3>1, FS_Interval
    <2>3. IsFiniteSet({10 * t + k : k \in K})
      <3> HIDE DEF K
      <3> DEFINE f == [k \in K |-> 10 * t + k]
      <3>1. IsFiniteSet({f[k] : k \in DOMAIN f})
        <4>1. IsFiniteSet(DOMAIN f)
          BY <2>2
        <4> HIDE DEF f
        <4> QED
          BY <4>1, FiniteValues
      <3> QED
        BY <3>1
    <2>4. \A id \in instance_ids(t) : id \in Nat /\ task_of(id) = t
      BY <1>3, <2>1 DEF task_of
    <2> QED
      BY <2>1, <2>3, <2>4
  <1>5. CASE ~ (t \in PlanTasks /\ pl_decl.include[t] > 0)
    <2>1. instance_ids(t) = {10 * t}
      BY <1>5 DEF instance_ids
    <2>2. 10 * t \in Nat /\ (10 * t) \div 10 = t
      BY <1>1
    <2> QED
      BY <2>1, <2>2, FS_Singleton DEF task_of
  <1> QED
    BY <1>4, <1>5

NeededIds == UNION {instance_ids(t) : t \in Needed}

(* What the roots need is closed, and in every set that is.                *)
LEMMA NeededFacts ==
    ASSUME pl_decl \in PlanDeclarations
    PROVE  /\ Needed \subseteq PlanAll /\ pl_decl.roots \subseteq Needed
           /\ \A t \in Needed \cap PlanTasks : pl_decl.dependsOn[t] \subseteq Needed
           /\ \A S \in SUBSET PlanAll :
                 pl_decl.roots \subseteq S /\ (\A t \in S \cap PlanTasks : pl_decl.dependsOn[t] \subseteq S)
                     => Needed \subseteq S
  <1>1. /\ pl_decl.dependsOn \in [PlanTasks -> SUBSET PlanAll] /\ pl_decl.roots \subseteq PlanTasks
    BY PlannerAssumption DEF PlannerAssumption, PlanAll
  <1> QED
    BY <1>1 DEF Needed, PlanAll

(* A node is an instance of its task, and depends on the instances of what *)
(* that task depends on.                                                   *)
LEMMA NodeFacts ==
    ASSUME pl_decl \in PlanDeclarations, NEW id \in expanded
    PROVE  /\ task_of(id) \in PlanTasks /\ id \in instance_ids(task_of(id))
           /\ depends_on(id) \subseteq Nat /\ IsFiniteSet(depends_on(id))
           /\ \A d \in depends_on(id) : /\ task_of(d) \in pl_decl.dependsOn[task_of(id)]
                                        /\ d \in instance_ids(task_of(d))
           /\ \A t \in pl_decl.dependsOn[task_of(id)] :
                 t \in PlanAll /\ instance_ids(t) \subseteq depends_on(id)
  <1>1. PICK u \in PlanTasks : id \in instance_ids(u)
    BY DEF expanded
  <1>2. task_of(id) = u
    BY <1>1, InstanceIds DEF PlanAll
  <1> DEFINE deps == pl_decl.dependsOn[u]
  <1>3. deps \subseteq PlanAll /\ IsFiniteSet(PlanAll)
    <2>1. IsFiniteSet(PlanTasks \cup {MissingTask})
      BY PlannerAssumption, FS_AddElement DEF PlannerAssumption
    <2> QED
      BY <2>1, PlannerAssumption DEF PlannerAssumption, PlanAll
  <1>4. depends_on(id) = UNION {instance_ids(t) : t \in deps}
    BY <1>2 DEF depends_on, expand_depends_on
  <1>5. \A t \in deps : /\ instance_ids(t) \subseteq Nat /\ IsFiniteSet(instance_ids(t))
                        /\ \A d \in instance_ids(t) : task_of(d) = t
    BY <1>3, InstanceIds
  <1>6. IsFiniteSet(depends_on(id))
    <2>1. IsFiniteSet(deps)
      BY <1>3, FS_Subset
    <2> HIDE DEF deps
    <2> DEFINE f == [t \in deps |-> instance_ids(t)]
    <2>2. IsFiniteSet({f[t] : t \in DOMAIN f})
      <3>1. IsFiniteSet(DOMAIN f)
        BY <2>1
      <3> HIDE DEF f
      <3> QED
        BY <3>1, FiniteValues
    <2>3. IsFiniteSet({instance_ids(t) : t \in deps})
      BY <2>2
    <2> QED
      BY <1>4, <1>5, <2>3, FS_UNION
  <1> QED
    BY <1>1, <1>2, <1>3, <1>4, <1>5, <1>6

(* The ids of the graph.                                                   *)
LEMMA ExpandedFinite ==
    ASSUME pl_decl \in PlanDeclarations
    PROVE  IsFiniteSet(expanded) /\ expanded \subseteq Nat
  <1>1. \A t \in PlanTasks : IsFiniteSet(instance_ids(t)) /\ instance_ids(t) \subseteq Nat
    BY InstanceIds DEF PlanAll
  <1>2. IsFiniteSet({instance_ids(t) : t \in PlanTasks})
    <2>1. IsFiniteSet(PlanTasks)
      BY PlannerAssumption DEF PlannerAssumption
    <2> DEFINE f == [t \in PlanTasks |-> instance_ids(t)]
    <2>2. IsFiniteSet({f[t] : t \in DOMAIN f})
      <3>1. IsFiniteSet(DOMAIN f)
        BY <2>1
      <3> HIDE DEF f
      <3> QED
        BY <3>1, FiniteValues
    <2> QED
      BY <2>2
  <1> QED
    BY <1>1, <1>2, FS_UNION DEF expanded


Planned == {"sort", "Ok", "search", "fallback", "Cycle"}

(* The traversal reaches what the roots need and nothing else.             *)
GraphInv ==
    /\ pl_decl \in PlanDeclarations
    /\ pl_pc \in {"graph", "MissingDependency"} \cup Planned
    /\ pl_reached \subseteq NeededIds /\ pl_reached \subseteq expanded
    /\ pl_stack \subseteq NeededIds /\ pl_stack \subseteq expanded
    /\ expand_matrix_roots \subseteq pl_reached \cup pl_stack
    /\ \A id \in pl_reached : /\ depends_on(id) \subseteq expanded
                               /\ depends_on(id) \subseteq pl_reached \cup pl_stack
    /\ pl_pc = "graph" => pl_order = <<>>
    /\ pl_pc \in {"graph", "sort"} => pl_frames = <<>>
    /\ pl_pc = "MissingDependency" => MissingTask \in Needed
    /\ pl_pc \in Planned => pl_stack = {}

Ordered == {pl_order[i] : i \in DOMAIN pl_order}

(* The order so far, and who waits for what.                               *)
SortInv ==
    pl_pc \in Planned =>
        /\ pl_order \in Seq(pl_reached)
        /\ \A i, j \in DOMAIN pl_order : pl_order[i] = pl_order[j] => i = j
        /\ \A i \in DOMAIN pl_order : \A d \in depends_on(pl_order[i]) :
               \E j \in 1..(i - 1) : pl_order[j] = d
        /\ pl_indegree = [id \in pl_reached |-> Cardinality(depends_on(id) \ Ordered)]
        /\ pl_ready = {id \in pl_reached \ Ordered : depends_on(id) \subseteq Ordered}

(* Each node that is left waits for one that is left, so the search never  *)
(* gives up a node.                                                        *)
Frames == [node : remaining, left : SUBSET remaining]
SearchInv ==
    /\ pl_pc = "Ok" => Ordered = pl_reached
    /\ pl_pc = "search" =>
           /\ \A id \in remaining : depends_on(id) \cap remaining # {}
           /\ pl_starts \subseteq remaining /\ pl_frames \in Seq(Frames)
           /\ pl_frames = <<>> => pl_starts # {}
           /\ \A i \in 1..(Len(pl_frames) - 1) :
                  pl_frames[i + 1].node \in depends_on(pl_frames[i].node)
           /\ pl_frames # <<>> => pl_frames[Len(pl_frames)] = Frame(pl_frames[Len(pl_frames)].node)
    /\ pl_pc # "fallback"
    /\ pl_pc = "Cycle" =>
           /\ Len(pl_path) > 1 /\ pl_path[1] = pl_path[Len(pl_path)]
           /\ \A i \in 1..(Len(pl_path) - 1) :
                  pl_path[i] \in expanded /\ pl_path[i + 1] \in depends_on(pl_path[i])

PlanInv == GraphInv /\ SortInv /\ SearchInv

(* What the operators say depends on the declarations only.                *)
LEMMA DeclStays ==
    ASSUME pl_decl' = pl_decl
    PROVE  /\ expanded' = expanded /\ expand_matrix_roots' = expand_matrix_roots
           /\ Needed' = Needed /\ NeededIds' = NeededIds
           /\ \A id : depends_on(id)' = depends_on(id)
  BY DEF expanded, expand_matrix_roots, Needed, NeededIds, depends_on, expand_depends_on,
         instance_ids

(* A plan begins with nothing found, and whatever the roots are.           *)
LEMMA PlanBegins == PlanInit => PlanInv
  <1> SUFFICES ASSUME PlanInit PROVE PlanInv
    OBVIOUS
  <1>1. pl_decl.roots \subseteq PlanTasks /\ pl_decl.roots \subseteq Needed
    BY NeededFacts, PlannerAssumption DEF PlannerAssumption, PlanInit
  <1>2. expand_matrix_roots \subseteq NeededIds /\ expand_matrix_roots \subseteq expanded
    BY <1>1 DEF expand_matrix_roots, NeededIds, expanded
  <1> QED
    BY <1>2 DEF PlanInit, PlanInv, GraphInv, SortInv, SearchInv, Planned

(* An id that is needed has dependencies that are needed.                  *)
LEMMA NeededSpreads ==
    ASSUME pl_decl \in PlanDeclarations, NEW id \in NeededIds \cap expanded
    PROVE  /\ depends_on(id) \subseteq NeededIds
           /\ ~ (depends_on(id) \subseteq expanded) => MissingTask \in Needed
  <1>1. PICK t \in Needed : id \in instance_ids(t)
    BY DEF NeededIds
  <1>2. t \in PlanAll /\ task_of(id) = t
    BY <1>1, NeededFacts, InstanceIds
  <1>3. /\ t \in PlanTasks
        /\ \A d \in depends_on(id) : task_of(d) \in pl_decl.dependsOn[t] /\ d \in instance_ids(task_of(d))
    BY <1>2, NodeFacts
  <1>4. \A d \in depends_on(id) : task_of(d) \in Needed
    BY <1>1, <1>3, NeededFacts
  <1>5. depends_on(id) \subseteq NeededIds
    BY <1>3, <1>4 DEF NeededIds
  <1>6. \A d \in depends_on(id) : task_of(d) \in PlanTasks => d \in expanded
    BY <1>3 DEF expanded
  <1>7. \A d \in depends_on(id) : task_of(d) \in PlanTasks \/ task_of(d) = MissingTask
    BY <1>4, NeededFacts DEF PlanAll
  <1> QED
    BY <1>4, <1>5, <1>6, <1>7

(* When the stack is empty, all that the roots need is reached and is      *)
(* declared.                                                               *)
LEMMA GraphWhole ==
    ASSUME GraphInv, pl_stack = {}
    PROVE  pl_reached = NeededIds /\ MissingTask \notin Needed /\ Needed \subseteq PlanTasks
  <1> USE DEF GraphInv
  <1> DEFINE T == {t \in PlanTasks : instance_ids(t) \subseteq pl_reached}
  <1>1. pl_decl.roots \subseteq T
    <2>1. pl_decl.roots \subseteq PlanTasks
      BY PlannerAssumption DEF PlannerAssumption
    <2> QED
      BY <2>1 DEF expand_matrix_roots
  <1>2. ASSUME NEW u \in T
        PROVE  pl_decl.dependsOn[u] \subseteq T
    <2>1. PICK id \in instance_ids(u) : TRUE
      BY InstanceIds DEF PlanAll
    <2>2. id \in pl_reached /\ id \in expanded /\ task_of(id) = u
      BY <2>1, InstanceIds DEF PlanAll
    <2>3. depends_on(id) \subseteq expanded /\ depends_on(id) \subseteq pl_reached
      BY <2>2
    <2> SUFFICES ASSUME NEW t \in pl_decl.dependsOn[u] PROVE t \in T
      OBVIOUS
    <2>4. t \in PlanAll /\ instance_ids(t) \subseteq depends_on(id)
      BY <2>2, NodeFacts
    <2>5. PICK d \in instance_ids(t) : TRUE
      BY <2>4, InstanceIds
    <2>6. task_of(d) = t /\ d \in expanded
      BY <2>3, <2>4, <2>5, InstanceIds
    <2>7. t \in PlanTasks
      BY <2>6, NodeFacts
    <2> QED
      BY <2>3, <2>4, <2>7
  <1>3. Needed \subseteq T
    <2>1. T \in SUBSET PlanAll
      BY DEF PlanAll
    <2> HIDE DEF T
    <2> QED
      BY <1>1, <1>2, <2>1, NeededFacts
  <1>4. NeededIds \subseteq pl_reached
    BY <1>3 DEF NeededIds
  <1>5. MissingTask \notin PlanTasks
    BY PlannerAssumption DEF PlannerAssumption
  <1> QED
    BY <1>3, <1>4, <1>5

(* The traversal and the start of the sort.                                *)
LEMMA PlanReaches == PlanInv /\ (subgraph_union \/ topo_serial_start) => PlanInv'
  <1> SUFFICES ASSUME PlanInv, subgraph_union \/ topo_serial_start PROVE PlanInv'
    OBVIOUS
  <1> USE DEF PlanInv
  <1>1. CASE subgraph_union
    <2> DEFINE id == Min(pl_stack)
    <2>1. /\ pl_decl' = pl_decl /\ pl_order' = pl_order /\ pl_frames' = pl_frames
          /\ pl_pc = "graph"
      BY <1>1 DEF subgraph_union
    <2>2. id \in pl_stack /\ id \in NeededIds \cap expanded
      <3>1. pl_stack \in SUBSET Nat /\ pl_stack # {}
        BY <1>1, ExpandedFinite DEF subgraph_union, GraphInv
      <3> QED
        BY <3>1, MinOf DEF GraphInv
    <2> HIDE DEF id
    <2>3. CASE depends_on(id) \subseteq expanded
      <3>1. /\ pl_reached' = pl_reached \cup {id} /\ pl_pc' = pl_pc
            /\ pl_stack' = (pl_stack \cup depends_on(id)) \ (pl_reached \cup {id})
        BY <1>1, <2>3 DEF subgraph_union, id
      <3>2. depends_on(id) \subseteq NeededIds
        BY <2>2, NeededSpreads DEF GraphInv
      <3>3. GraphInv'
        BY <2>1, <2>2, <2>3, <3>1, <3>2, DeclStays DEF GraphInv, Planned
      <3> QED
        BY <2>1, <3>1, <3>3 DEF SortInv, SearchInv, Planned
    <2>4. CASE ~ (depends_on(id) \subseteq expanded)
      <3>1. pl_reached' = pl_reached /\ pl_pc' = "MissingDependency" /\ pl_stack' = pl_stack
        BY <1>1, <2>4 DEF subgraph_union, id
      <3>2. MissingTask \in Needed
        BY <2>2, <2>4, NeededSpreads DEF GraphInv
      <3> QED
        BY <2>1, <3>1, <3>2, DeclStays DEF GraphInv, SortInv, SearchInv, Planned
    <2> QED
      BY <2>3, <2>4
  <1>2. CASE topo_serial_start
    <2>1. /\ pl_decl' = pl_decl /\ pl_reached' = pl_reached /\ pl_stack' = pl_stack
          /\ pl_order' = pl_order /\ pl_order = <<>> /\ pl_pc' = "sort" /\ pl_stack = {}
          /\ pl_frames' = pl_frames /\ pl_frames = <<>>
          /\ pl_indegree' = [id \in pl_reached |-> Cardinality(depends_on(id))]
          /\ pl_ready' = {id \in pl_reached : depends_on(id) = {}}
      BY <1>2 DEF topo_serial_start, pl_graph, GraphInv
    <2>2. GraphInv'
      BY <2>1, DeclStays DEF GraphInv, Planned
    <2>3. Ordered' = {} /\ pl_order' \in Seq(pl_reached')
      BY <2>1 DEF Ordered
    <2>4. pl_indegree' = [id \in pl_reached |-> Cardinality(depends_on(id) \ {})]
      <3>1. \A id : depends_on(id) \ {} = depends_on(id)
        OBVIOUS
      <3> QED
        BY <2>1, <3>1
    <2>5. pl_ready' = {id \in pl_reached \ {} : depends_on(id) \subseteq {}}
      BY <2>1
    <2>6. SortInv'
      BY <2>1, <2>3, <2>4, <2>5, DeclStays DEF SortInv
    <2> QED
      BY <2>1, <2>2, <2>6 DEF SearchInv
  <1> QED
    BY <1>1, <1>2


(* What SortInv says of the counts and the nodes that are left.            *)
LEMMA Counts ==
    ASSUME PlanInv, pl_pc \in Planned
    PROVE  /\ DOMAIN pl_indegree = pl_reached /\ pl_reached \subseteq expanded
           /\ IsFiniteSet(pl_reached) /\ pl_reached \subseteq Nat
           /\ \A id \in pl_reached :
                 /\ pl_indegree[id] = Cardinality(depends_on(id) \ Ordered)
                 /\ pl_indegree[id] \in Nat /\ IsFiniteSet(depends_on(id))
                 /\ pl_indegree[id] = 0 <=> depends_on(id) \subseteq Ordered
                 /\ depends_on(id) \subseteq pl_reached
           /\ remaining = {id \in pl_reached : ~ (depends_on(id) \subseteq Ordered)}
           /\ Ordered \subseteq pl_reached
           /\ \A id \in Ordered : depends_on(id) \subseteq Ordered
  <1> USE DEF PlanInv, GraphInv
  <1>1. DOMAIN pl_indegree = pl_reached /\ pl_reached \subseteq expanded
    BY DEF SortInv
  <1>2. IsFiniteSet(pl_reached) /\ pl_reached \subseteq Nat
    <2>1. IsFiniteSet(expanded) /\ expanded \subseteq Nat
      BY ExpandedFinite
    <2> QED
      BY <1>1, <2>1, FS_Subset
  <1>3. ASSUME NEW id \in pl_reached
        PROVE  /\ pl_indegree[id] = Cardinality(depends_on(id) \ Ordered)
               /\ pl_indegree[id] \in Nat /\ IsFiniteSet(depends_on(id))
               /\ pl_indegree[id] = 0 <=> depends_on(id) \subseteq Ordered
               /\ depends_on(id) \subseteq pl_reached
    <2>1. IsFiniteSet(depends_on(id))
      BY <1>1, NodeFacts
    <2>2. IsFiniteSet(depends_on(id) \ Ordered)
      BY <2>1, FS_Difference
    <2>3. pl_indegree[id] = Cardinality(depends_on(id) \ Ordered)
      BY DEF SortInv
    <2>4. pl_indegree[id] \in Nat /\ (pl_indegree[id] = 0 <=> depends_on(id) \ Ordered = {})
      BY <2>2, <2>3, FS_CardinalityType, FS_EmptySet
    <2> QED
      BY <2>1, <2>3, <2>4
  <1>4. remaining = {id \in pl_reached : ~ (depends_on(id) \subseteq Ordered)}
    <2>1. ASSUME NEW id \in pl_reached
          PROVE  pl_indegree[id] > 0 <=> ~ (depends_on(id) \subseteq Ordered)
      <3>1. pl_indegree[id] \in Nat /\ (pl_indegree[id] = 0 <=> depends_on(id) \subseteq Ordered)
        BY <1>3
      <3>2. \A k \in Nat : k > 0 <=> ~ (k = 0)
        OBVIOUS
      <3> QED
        BY <3>1, <3>2
    <2> QED
      BY <1>1, <2>1 DEF remaining
  <1>5. pl_order \in Seq(pl_reached)
    BY DEF SortInv
  <1>6. \A i \in DOMAIN pl_order : pl_order[i] \in pl_reached
    BY <1>5
  <1>7. Ordered \subseteq pl_reached
    BY <1>6 DEF Ordered
  <1>8. ASSUME NEW id \in Ordered
        PROVE  depends_on(id) \subseteq Ordered
    <2>1. PICK i \in DOMAIN pl_order : pl_order[i] = id
      BY DEF Ordered
    <2>2. DOMAIN pl_order = 1..Len(pl_order) /\ Len(pl_order) \in Nat
      BY <1>5
    <2>3. \A j \in 1..(i - 1) : j \in DOMAIN pl_order
      BY <2>2
    <2> QED
      BY <2>1, <2>3 DEF Ordered, SortInv
  <1> QED
    BY <1>1, <1>2, <1>3, <1>4, <1>7, <1>8

(* A turn of the sort: the node that comes next waits for none, and those  *)
(* that waited for it wait for one less.                                   *)
LEMMA PlanSorts == PlanInv /\ topo_serial => PlanInv'
  <1> SUFFICES ASSUME PlanInv, topo_serial PROVE PlanInv'
    OBVIOUS
  <1> USE DEF PlanInv
  <1> DEFINE id == Min(pl_ready)
             left(c) == IF c \in plan_dependents(id) THEN pl_indegree[c] - 1 ELSE pl_indegree[c]
             old == Ordered
  <1>1. /\ pl_pc = "sort" /\ pl_pc' = "sort" /\ pl_decl' = pl_decl /\ pl_reached' = pl_reached
        /\ pl_stack' = pl_stack /\ pl_frames' = pl_frames
        /\ pl_order' = Append(pl_order, id)
        /\ pl_indegree' = [c \in DOMAIN pl_indegree |-> left(c)]
        /\ pl_ready' = (pl_ready \ {id}) \cup {c \in plan_dependents(id) : left(c) = 0}
    BY DEF topo_serial, pl_graph
  <1>2. pl_pc \in Planned
    BY <1>1 DEF Planned
  <1>3. /\ pl_order \in Seq(pl_reached)
        /\ \A i, j \in DOMAIN pl_order : pl_order[i] = pl_order[j] => i = j
        /\ \A i \in DOMAIN pl_order : \A d \in depends_on(pl_order[i]) :
               \E j \in 1..(i - 1) : pl_order[j] = d
        /\ pl_ready = {c \in pl_reached \ Ordered : depends_on(c) \subseteq Ordered}
    BY <1>2 DEF SortInv
  <1>4. id \in pl_reached /\ id \notin old /\ depends_on(id) \subseteq old
    <2>1. pl_ready \in SUBSET Nat /\ pl_ready # {}
      BY <1>2, <1>3, Counts DEF topo_serial
    <2> QED
      BY <1>3, <2>1, MinOf
  <1> HIDE DEF id
  <1>5. Len(pl_order) \in Nat /\ DOMAIN pl_order = 1..Len(pl_order)
    BY <1>3
  <1>6. /\ pl_order' \in Seq(pl_reached) /\ Len(pl_order') = Len(pl_order) + 1
        /\ pl_order'[Len(pl_order) + 1] = id
        /\ \A i \in 1..Len(pl_order) : pl_order'[i] = pl_order[i]
        /\ DOMAIN pl_order' = 1..(Len(pl_order) + 1)
    BY <1>1, <1>3, <1>4
  <1>7. Ordered' = old \cup {id}
    <2>1. \A i \in DOMAIN pl_order' : pl_order'[i] \in old \cup {id}
      BY <1>5, <1>6 DEF Ordered
    <2>2. \A i \in DOMAIN pl_order : i \in DOMAIN pl_order' /\ pl_order'[i] = pl_order[i]
      BY <1>5, <1>6
    <2>3. Len(pl_order) + 1 \in DOMAIN pl_order'
      BY <1>5, <1>6
    <2> QED
      BY <1>6, <2>1, <2>2, <2>3 DEF Ordered
  <1>8. \A i, j \in DOMAIN pl_order' : pl_order'[i] = pl_order'[j] => i = j
    <2>1. \A i \in 1..Len(pl_order) : pl_order[i] # id
      BY <1>4, <1>5 DEF Ordered
    <2> QED
      BY <1>3, <1>5, <1>6, <2>1
  <1>9. ASSUME NEW i \in DOMAIN pl_order', NEW d \in depends_on(pl_order'[i])
        PROVE  \E j \in 1..(i - 1) : pl_order'[j] = d
    <2>1. CASE i = Len(pl_order) + 1
      <3>1. PICK j \in DOMAIN pl_order : pl_order[j] = d
        BY <1>4, <1>6, <2>1 DEF Ordered
      <3> QED
        BY <1>5, <1>6, <2>1, <3>1
    <2>2. CASE i \in 1..Len(pl_order)
      <3>1. PICK j \in 1..(i - 1) : pl_order[j] = d
        BY <1>3, <1>5, <1>6, <2>2
      <3> QED
        BY <1>5, <1>6, <2>2, <3>1
    <2> QED
      BY <1>5, <1>6, <2>1, <2>2
  <1>10. \A c \in pl_reached : c \in plan_dependents(id) <=> id \in depends_on(c)
    BY <1>2, Counts DEF plan_dependents
  <1>11. ASSUME NEW c \in pl_reached
         PROVE  left(c) = Cardinality(depends_on(c) \ (old \cup {id}))
    <2>1. /\ pl_indegree[c] = Cardinality(depends_on(c) \ old) /\ IsFiniteSet(depends_on(c) \ old)
      BY <1>2, Counts, FS_Difference
    <2>2. depends_on(c) \ (old \cup {id}) = (depends_on(c) \ old) \ {id}
      OBVIOUS
    <2>3. Cardinality((depends_on(c) \ old) \ {id}) =
             IF id \in depends_on(c) \ old THEN pl_indegree[c] - 1 ELSE pl_indegree[c]
      BY <2>1, FS_RemoveElement
    <2> QED
      BY <1>4, <1>10, <2>2, <2>3
  <1>12. pl_indegree' = [c \in pl_reached |-> Cardinality(depends_on(c) \ (old \cup {id}))]
    <2>1. DOMAIN pl_indegree = pl_reached
      BY <1>2, Counts
    <2> HIDE DEF left, old
    <2> QED
      BY <1>1, <1>11, <2>1
  <1>13. \A c \in pl_reached : left(c) = 0 <=> depends_on(c) \subseteq old \cup {id}
    <2> SUFFICES ASSUME NEW c \in pl_reached
                 PROVE  left(c) = 0 <=> depends_on(c) \subseteq old \cup {id}
      OBVIOUS
    <2>1. IsFiniteSet(depends_on(c) \ (old \cup {id}))
      BY <1>2, Counts, FS_Difference
    <2>2. Cardinality(depends_on(c) \ (old \cup {id})) = 0 <=> depends_on(c) \ (old \cup {id}) = {}
      BY <2>1, FS_EmptySet
    <2>3. left(c) = Cardinality(depends_on(c) \ (old \cup {id}))
      BY <1>11
    <2> HIDE DEF left, old
    <2> QED
      BY <2>2, <2>3
  <1>14. pl_ready' = {c \in pl_reached \ (old \cup {id}) : depends_on(c) \subseteq old \cup {id}}
    <2>1. plan_dependents(id) \subseteq pl_reached
      BY <1>2, Counts DEF plan_dependents
    <2>2. ASSUME NEW c \in plan_dependents(id)
          PROVE  c \notin old /\ c # id
      BY <1>2, <1>4, <1>10, <2>1, <2>2, Counts
    <2>3. ASSUME NEW c \in pl_reached, c \notin plan_dependents(id), c \notin old, c # id,
                 depends_on(c) \subseteq old \cup {id}
          PROVE  c \in pl_ready
      BY <1>3, <1>10, <2>3
    <2> HIDE DEF left
    <2>4. \A c \in pl_ready : c \in pl_reached /\ c \notin old /\ depends_on(c) \subseteq old
      BY <1>3
    <2> HIDE DEF old
    <2>5. \A c \in pl_ready' : c \in pl_reached /\ c \notin old /\ c # id /\ depends_on(c) \subseteq old \cup {id}
      BY <1>1, <1>13, <2>1, <2>2, <2>4
    <2>6. ASSUME NEW c \in pl_reached, c \notin old, c # id, depends_on(c) \subseteq old \cup {id}
          PROVE  c \in pl_ready'
      <3>1. CASE c \in plan_dependents(id)
        BY <1>1, <1>13, <2>6, <3>1
      <3>2. CASE c \notin plan_dependents(id)
        BY <1>1, <2>3, <2>6, <3>2
      <3> QED
        BY <3>1, <3>2
    <2> QED
      BY <2>5, <2>6
  <1>15. GraphInv'
    BY <1>1, <1>2, DeclStays DEF GraphInv, Planned
  <1>16. SortInv'
    <2> HIDE DEF old, left
    <2>1. (\A i \in DOMAIN pl_order : \A d \in depends_on(pl_order[i]) :
               \E j \in 1..(i - 1) : pl_order[j] = d)'
      <3>1. pl_decl' = pl_decl
        BY <1>1
      <3>2. \A i : depends_on(pl_order[i])' = depends_on(pl_order'[i])
        BY <3>1 DEF depends_on, expand_depends_on, instance_ids, task_of
      <3> QED
        BY <1>9, <3>2
    <2>2. (pl_indegree = [c \in pl_reached |-> Cardinality(depends_on(c) \ Ordered)])'
      <3>1. \A c : depends_on(c)' = depends_on(c)
        BY <1>1, DeclStays
      <3> QED
        BY <1>1, <1>7, <1>12, <3>1
    <2>3. (pl_ready = {c \in pl_reached \ Ordered : depends_on(c) \subseteq Ordered})'
      BY <1>1, <1>7, <1>14 DEF depends_on, expand_depends_on, instance_ids
    <2> QED
      BY <1>1, <1>6, <1>8, <2>1, <2>2, <2>3 DEF SortInv
  <1> QED
    BY <1>1, <1>15, <1>16 DEF SearchInv


(* Steps that leave the graph and the order alone keep what is said of     *)
(* them.                                                                   *)
LEMMA OrderStays ==
    ASSUME PlanInv, pl_pc \in Planned, pl_pc' \in Planned,
           UNCHANGED <<pl_graph, pl_indegree, pl_ready, pl_order>>,
           pl_pc' = "sort" => pl_frames' = <<>>
    PROVE  /\ GraphInv' /\ SortInv' /\ Ordered' = Ordered /\ remaining' = remaining
           /\ pl_reached' = pl_reached /\ expanded' = expanded
           /\ \A id : depends_on(id)' = depends_on(id)
  <1>1. /\ pl_decl' = pl_decl /\ pl_reached' = pl_reached /\ pl_stack' = pl_stack
        /\ pl_indegree' = pl_indegree /\ pl_ready' = pl_ready /\ pl_order' = pl_order
    BY DEF pl_graph
  <1>2. Ordered' = Ordered /\ remaining' = remaining
    BY <1>1 DEF Ordered, remaining
  <1>3. GraphInv'
    BY <1>1, DeclStays DEF PlanInv, GraphInv, Planned
  <1>4. SortInv'
    <2>1. \A c : depends_on(c)' = depends_on(c)
      BY <1>1, DeclStays
    <2>2. \A i : depends_on(pl_order[i])' = depends_on(pl_order[i])
      BY <1>1 DEF depends_on, expand_depends_on, instance_ids, task_of
    <2> QED
      BY <1>1, <1>2, <2>1, <2>2 DEF PlanInv, SortInv
  <1> QED
    BY <1>1, <1>2, <1>3, <1>4, DeclStays

(* The order is whole, or the nodes that are left wait for each other.     *)
LEMMA PlanEnds == PlanInv /\ topo_serial_end => PlanInv'
  <1> SUFFICES ASSUME PlanInv, topo_serial_end PROVE PlanInv'
    OBVIOUS
  <1> USE DEF PlanInv
  <1>1. /\ pl_pc = "sort" /\ pl_ready = {} /\ pl_pc \in Planned
        /\ UNCHANGED <<pl_graph, pl_indegree, pl_ready, pl_order>> /\ pl_frames' = pl_frames
    BY DEF topo_serial_end, Planned
  <1>2. /\ pl_order \in Seq(pl_reached)
        /\ \A i, j \in DOMAIN pl_order : pl_order[i] = pl_order[j] => i = j
        /\ {c \in pl_reached \ Ordered : depends_on(c) \subseteq Ordered} = {}
    BY <1>1 DEF SortInv
  <1>3. Len(pl_order) \in Nat /\ DOMAIN pl_order = 1..Len(pl_order)
    BY <1>2
  <1>4. Cardinality(Ordered) = Len(pl_order)
    <2>1. pl_order \in Surjection(1..Len(pl_order), Ordered)
      BY <1>2, <1>3 DEF Surjection, Ordered
    <2>2. pl_order \in Injection(1..Len(pl_order), Ordered)
      BY <1>2, <1>3, <2>1 DEF Injection, Surjection, IsInjective
    <2>3. IsFiniteSet(1..Len(pl_order)) /\ Cardinality(1..Len(pl_order)) = Len(pl_order)
      <3>1. \A n \in Nat : IsFiniteSet(1..n) /\ Cardinality(1..n) = n
        <4> TAKE n \in Nat
        <4>1. 1 \in Int /\ n \in Int /\ (1 > n => n = 0) /\ n - 1 + 1 = n
          OBVIOUS
        <4> QED
          BY <4>1, FS_Interval
      <3> QED
        BY <1>3, <3>1
    <2> QED
      BY <2>1, <2>2, <2>3, FS_Surjection
  <1>5. /\ Ordered \subseteq pl_reached /\ IsFiniteSet(pl_reached)
        /\ remaining = {id \in pl_reached : ~ (depends_on(id) \subseteq Ordered)}
        /\ DOMAIN pl_indegree = pl_reached
        /\ \A id \in Ordered : depends_on(id) \subseteq Ordered
        /\ \A id \in pl_reached : depends_on(id) \subseteq pl_reached
    BY <1>1, Counts
  <1>6. CASE Len(pl_order) = Cardinality(DOMAIN pl_indegree)
    <2>1. pl_pc' = "Ok"
      BY <1>6 DEF topo_serial_end
    <2>2. Ordered = pl_reached
      BY <1>4, <1>5, <1>6, FS_Subset
    <2>3. "Ok" \in Planned
      BY DEF Planned
    <2> QED
      BY <1>1, <2>1, <2>2, <2>3, OrderStays DEF SearchInv
  <1>7. CASE Len(pl_order) # Cardinality(DOMAIN pl_indegree)
    <2>1. pl_pc' = "search" /\ pl_starts' = remaining
      BY <1>7 DEF topo_serial_end
    <2>2. Ordered # pl_reached
      BY <1>4, <1>5, <1>7
    <2>3. remaining = pl_reached \ Ordered
      BY <1>2, <1>5
    <2>4. \A id \in remaining : depends_on(id) \cap remaining # {}
      BY <1>5, <2>3
    <2>5. pl_frames = <<>>
      BY <1>1 DEF GraphInv
    <2>6. "search" \in Planned
      BY DEF Planned
    <2>7. /\ GraphInv' /\ SortInv' /\ remaining' = remaining
          /\ \A id : depends_on(id)' = depends_on(id)
      BY <1>1, <2>1, <2>6, OrderStays
    <2>8. pl_starts' # {} /\ pl_starts' \subseteq remaining'
      BY <1>5, <2>1, <2>2, <2>3, <2>7
    <2>9. pl_frames' = <<>> /\ Len(pl_frames') = 0 /\ pl_frames' \in Seq(Frames')
          /\ \A i \in 1..(Len(pl_frames') - 1) : FALSE
      BY <1>1, <2>5
    <2>10. \A id \in remaining' : depends_on(id)' \cap remaining' # {}
      BY <2>4, <2>7
    <2>11. SearchInv'
      BY <2>1, <2>8, <2>9, <2>10 DEF SearchInv
    <2> QED
      BY <2>7, <2>11
  <1> QED
    BY <1>6, <1>7

(* The search starts at a node that waits.                                 *)
LEMMA SearchStarts == PlanInv /\ find_cycle_path => PlanInv'
  <1> SUFFICES ASSUME PlanInv, find_cycle_path PROVE PlanInv'
    OBVIOUS
  <1> USE DEF PlanInv
  <1> DEFINE id == Min(pl_starts)
  <1>1. /\ pl_pc = "search" /\ pl_frames = <<>> /\ pl_pc \in Planned
        /\ UNCHANGED <<pl_graph, pl_indegree, pl_ready, pl_order>>
    BY DEF find_cycle_path, Planned
  <1>2. pl_starts # {} /\ pl_starts \subseteq remaining
        /\ \A r \in remaining : depends_on(r) \cap remaining # {}
    BY <1>1 DEF SearchInv
  <1>3. /\ pl_frames' = <<Frame(id)>> /\ pl_starts' = pl_starts \ {id} /\ pl_pc' = "search"
    BY <1>1, <1>2 DEF find_cycle_path
  <1>4. remaining \subseteq Nat
    BY <1>1, Counts
  <1>5. id \in remaining
    BY <1>2, <1>4, MinOf
  <1> HIDE DEF id
  <1>6. /\ GraphInv' /\ SortInv' /\ remaining' = remaining
        /\ \A i : depends_on(i)' = depends_on(i)
    BY <1>1, <1>3, OrderStays
  <1>7. Frame(id) \in Frames /\ Frame(id).node = id
    BY <1>5 DEF Frame, Frames
  <1>8. pl_frames' \in Seq(Frames) /\ Len(pl_frames') = 1 /\ pl_frames'[1] = Frame(id)
    BY <1>3, <1>7
  <1>9. Frames' = Frames /\ \A i : Frame(i)' = Frame(i)
    BY <1>6 DEF Frames, Frame
  <1>10. (pl_frames # <<>> => pl_frames[Len(pl_frames)] = Frame(pl_frames[Len(pl_frames)].node))'
    <2>1. \A i : (Frame(pl_frames[i].node))' = Frame(pl_frames'[i].node)
      BY <1>6 DEF Frame
    <2> QED
      BY <1>7, <1>8, <2>1
  <1>11. pl_frames' # <<>>
    BY <1>3
  <1>12. \A i \in 1..(Len(pl_frames') - 1) : FALSE
    BY <1>8
  <1>13. pl_starts' \subseteq remaining
    BY <1>2, <1>3
  <1>14. SearchInv'
    BY <1>2, <1>3, <1>6, <1>8, <1>9, <1>10, <1>11, <1>12, <1>13 DEF SearchInv
  <1> QED
    BY <1>6, <1>14


(* A dependency on the stack closes a cycle, any other one is entered; the *)
(* top of the stack always has one left.                                   *)
LEMMA SearchGoesOn == PlanInv /\ dfs_cycle => PlanInv'
  <1> SUFFICES ASSUME PlanInv, dfs_cycle PROVE PlanInv'
    OBVIOUS
  <1> USE DEF PlanInv
  <1> DEFINE n == Len(pl_frames)
             top == pl_frames[n]
             dep == Min(top.left)
             at == {i \in DOMAIN pl_frames : pl_frames[i].node = dep}
             rest == [pl_frames EXCEPT ![n].left = @ \ {dep}]
  <1>1. /\ pl_pc = "search" /\ pl_frames # <<>> /\ pl_pc \in Planned
        /\ UNCHANGED <<pl_graph, pl_indegree, pl_ready, pl_order>> /\ pl_starts' = pl_starts
    BY DEF dfs_cycle, Planned
  <1>2. /\ \A id \in remaining : depends_on(id) \cap remaining # {}
        /\ pl_starts \subseteq remaining /\ pl_frames \in Seq(Frames)
        /\ \A i \in 1..(n - 1) : pl_frames[i + 1].node \in depends_on(pl_frames[i].node)
        /\ top = Frame(top.node)
    BY <1>1 DEF SearchInv
  <1>3. n \in Nat \ {0} /\ DOMAIN pl_frames = 1..n /\ \A i \in 1..n : pl_frames[i] \in Frames
    BY <1>1, <1>2
  <1>4. remaining \subseteq Nat /\ remaining \subseteq expanded
    BY <1>1, Counts
  <1>5. top.node \in remaining /\ top.left = depends_on(top.node) \cap remaining
    BY <1>2, <1>3 DEF Frame, Frames
  <1>6. dep \in depends_on(top.node) /\ dep \in remaining /\ top.left # {}
    <2>1. top.left \in SUBSET Nat /\ top.left # {}
      BY <1>2, <1>4, <1>5
    <2> QED
      BY <1>5, <2>1, MinOf
  <1>7. \A i \in 1..n : pl_frames[i].node \in remaining
    BY <1>3 DEF Frames
  <1> HIDE DEF dep, n
  <1>8. CASE at # {}
    <2> DEFINE c == CycleFrom(at)
               part == [i \in 1..(n - c + 1) |-> pl_frames[c + i - 1].node]
    <2>1. pl_path' = part \o <<dep>> /\ pl_pc' = "Cycle" /\ pl_frames' = pl_frames
      BY <1>6, <1>8 DEF dfs_cycle, dep, n
    <2>2. c \in 1..n /\ pl_frames[c].node = dep
      <3>1. at \in SUBSET Nat
        BY <1>3
      <3>2. c \in at
        BY <1>8, <3>1, MinOf DEF CycleFrom
      <3> QED
        BY <1>3, <3>2
    <2> HIDE DEF c
    <2> DEFINE m == n - c + 1
    <2>3. m \in Nat \ {0} /\ \A i \in 1..m : c + i - 1 \in 1..n
      BY <1>3, <2>2
    <2>4. part \in Seq(remaining) /\ Len(part) = m /\ \A i \in 1..m : part[i] = pl_frames[c + i - 1].node
      BY <1>7, <2>3
    <2> HIDE DEF m, part
    <2>5. /\ Len(pl_path') = m + 1 /\ pl_path'[m + 1] = dep
          /\ \A i \in 1..m : pl_path'[i] = pl_frames[c + i - 1].node
      BY <1>6, <2>1, <2>3, <2>4
    <2>6. pl_path'[1] = dep
      BY <2>2, <2>3, <2>5
    <2>7. ASSUME NEW i \in 1..m
          PROVE  pl_path'[i] \in expanded /\ pl_path'[i + 1] \in depends_on(pl_path'[i])
      <3>1. pl_path'[i] = pl_frames[c + i - 1].node /\ c + i - 1 \in 1..n
        BY <2>3, <2>5
      <3>2. CASE i = m
        <4>1. c + i - 1 = n
          BY <1>3, <2>2, <3>2 DEF m
        <4> QED
          BY <1>4, <1>6, <1>7, <2>5, <3>1, <3>2, <4>1
      <3>3. CASE i # m
        <4>1. i + 1 \in 1..m /\ c + i - 1 \in 1..(n - 1) /\ c + (i + 1) - 1 = (c + i - 1) + 1
          BY <1>3, <2>2, <2>3, <3>1, <3>3 DEF m
        <4>2. pl_path'[i + 1] = pl_frames[(c + i - 1) + 1].node
          BY <2>5, <4>1
        <4> QED
          BY <1>2, <1>4, <1>7, <3>1, <4>1, <4>2 DEF n
      <3> QED
        BY <3>2, <3>3
    <2>8. "Cycle" \in Planned
      BY DEF Planned
    <2>9. /\ GraphInv' /\ SortInv' /\ expanded' = expanded /\ pl_decl' = pl_decl
      BY <1>1, <2>1, <2>8, OrderStays DEF pl_graph
    <2>10. \A i : depends_on(pl_path[i])' = depends_on(pl_path'[i])
      BY <2>9 DEF depends_on, expand_depends_on, instance_ids, task_of
    <2>11. Len(pl_path') > 1 /\ Len(pl_path') - 1 = m
      BY <2>3, <2>5
    <2>12. SearchInv'
      BY ZenonT(60), <2>1, <2>5, <2>6, <2>7, <2>9, <2>10, <2>11 DEF SearchInv
    <2> QED
      BY <2>9, <2>12
  <1>9. CASE at = {}
    <2>1. /\ pl_frames' = Append(rest, Frame(dep)) /\ pl_path' = pl_path /\ pl_pc' = "search"
      BY <1>1, <1>6, <1>9 DEF dfs_cycle, dep, n
    <2>2. /\ GraphInv' /\ SortInv' /\ remaining' = remaining /\ pl_decl' = pl_decl
          /\ \A i : depends_on(i)' = depends_on(i)
      BY <1>1, <2>1, OrderStays DEF pl_graph
    <2>3. Frame(dep) \in Frames /\ Frame(dep).node = dep
      BY <1>6 DEF Frame, Frames
    <2>4. /\ rest \in Seq(Frames) /\ Len(rest) = n
          /\ \A i \in 1..n : rest[i].node = pl_frames[i].node
      <3> DEFINE low == [top EXCEPT !.left = @ \ {dep}]
      <3>1. low \in Frames /\ low.node = top.node
        BY <1>3 DEF Frames
      <3>2. rest = [pl_frames EXCEPT ![n] = low]
        BY <1>2, <1>3
      <3> HIDE DEF low
      <3>3. \A i \in 1..n : rest[i] = IF i = n THEN low ELSE pl_frames[i]
        BY <1>2, <1>3, <3>2
      <3>4. rest \in [1..n -> Frames]
        BY <1>2, <1>3, <3>1, <3>2 DEF n
      <3> HIDE DEF rest
      <3> QED
        BY <1>3, <3>1, <3>3, <3>4
    <2> HIDE DEF rest
    <2>5. /\ pl_frames' \in Seq(Frames) /\ Len(pl_frames') = n + 1
          /\ pl_frames'[n + 1] = Frame(dep)
          /\ \A i \in 1..n : pl_frames'[i].node = pl_frames[i].node
      BY <1>3, <2>1, <2>3, <2>4
    <2>6. ASSUME NEW i \in 1..n
          PROVE  pl_frames'[i + 1].node \in depends_on(pl_frames'[i].node)
      <3>1. CASE i = n
        BY <1>6, <2>3, <2>5, <3>1
      <3>2. CASE i # n
        <4>1. i \in 1..(n - 1) /\ i + 1 \in 1..n
          BY <1>3, <3>2
        <4> QED
          BY <1>2, <2>5, <4>1 DEF n
      <3> QED
        BY <3>1, <3>2
    <2>7. Frames' = Frames /\ pl_frames' # <<>> /\ Len(pl_frames') - 1 = n
      <3>1. Len(pl_frames') # 0 /\ Len(pl_frames') - 1 = n
        BY <1>3, <2>5
      <3> QED
        BY <2>2, <3>1 DEF Frames
    <2>8. (\A i \in 1..(Len(pl_frames) - 1) :
              pl_frames[i + 1].node \in depends_on(pl_frames[i].node))'
      <3>1. \A i : depends_on(pl_frames[i].node)' = depends_on(pl_frames'[i].node)
        BY <2>2 DEF depends_on, expand_depends_on, instance_ids, task_of
      <3> QED
        BY <2>6, <2>7, <3>1
    <2>9. (pl_frames[Len(pl_frames)] = Frame(pl_frames[Len(pl_frames)].node))'
      <3>1. \A i : (Frame(pl_frames[i].node))' = Frame(pl_frames'[i].node)
        BY <2>2 DEF Frame, depends_on, expand_depends_on, instance_ids, task_of
      <3> QED
        BY <2>3, <2>5, <3>1
    <2>10. (\A id \in remaining : depends_on(id) \cap remaining # {})'
      BY <1>2, <2>2
    <2>11. SearchInv'
      BY <1>1, <1>2, <2>1, <2>2, <2>5, <2>7, <2>8, <2>9, <2>10 DEF SearchInv
    <2> QED
      BY <2>2, <2>11
  <1> QED
    BY <1>8, <1>9

(* Every step of the planner keeps the invariant.                          *)
LEMMA PlanStep == PlanInv /\ [PlanNext]_pl_vars => PlanInv'
  <1> SUFFICES ASSUME PlanInv, [PlanNext]_pl_vars PROVE PlanInv'
    OBVIOUS
  <1>1. CASE PlanNext
    BY <1>1, PlanReaches, PlanSorts, PlanEnds, SearchStarts, SearchGoesOn DEF PlanNext
  <1>2. CASE UNCHANGED pl_vars
    <2>1. /\ pl_decl' = pl_decl /\ pl_reached' = pl_reached /\ pl_stack' = pl_stack
          /\ pl_indegree' = pl_indegree /\ pl_ready' = pl_ready /\ pl_order' = pl_order
          /\ pl_frames' = pl_frames /\ pl_starts' = pl_starts /\ pl_path' = pl_path
          /\ pl_pc' = pl_pc
      BY <1>2 DEF pl_vars, pl_graph
    <2>2. /\ Ordered' = Ordered /\ remaining' = remaining
          /\ \A c : depends_on(c)' = depends_on(c)
          /\ expanded' = expanded
      BY <2>1, DeclStays DEF Ordered, remaining
    <2>3. GraphInv'
      BY <2>1, DeclStays DEF PlanInv, GraphInv, Planned
    <2>4. SortInv'
      <3>1. \A i : depends_on(pl_order[i])' = depends_on(pl_order[i])
        BY <2>1 DEF depends_on, expand_depends_on, instance_ids, task_of
      <3> QED
        BY <2>1, <2>2, <3>1 DEF PlanInv, SortInv, Planned
    <2>5. SearchInv'
      <3>1. /\ \A i : depends_on(pl_path[i])' = depends_on(pl_path[i])
            /\ \A i : depends_on(pl_frames[i].node)' = depends_on(pl_frames[i].node)
            /\ \A i : Frame(pl_frames[i].node)' = Frame(pl_frames[i].node)
        BY <2>1 DEF Frame, remaining, depends_on, expand_depends_on, instance_ids, task_of
      <3>2. Frames' = Frames
        BY <2>2 DEF Frames
      <3> QED
        BY <2>1, <2>2, <3>1, <3>2 DEF PlanInv, SearchInv
    <2> QED
      BY <2>3, <2>4, <2>5 DEF PlanInv
  <1> QED
    BY <1>1, <1>2

(* A plan that is accepted runs every instance of what the roots need once *)
(* and after what it depends on; one that is refused names a task that     *)
(* nobody declares or a cycle that is one, and the fallback of             *)
(* find_cycle_path is never reached.                                       *)
THEOREM PlansAreSerial == PlanSpec => []PlanOrReason
  <1>1. PlanInv => PlanOrReason
    <2> SUFFICES ASSUME PlanInv PROVE PlanOrReason
      OBVIOUS
    <2> USE DEF PlanInv
    <2>1. pl_decl \in PlanDeclarations
      BY DEF GraphInv
    <2>2. ASSUME pl_pc = "Ok"
          PROVE  PlanIsSerial
      <3>1. pl_pc \in Planned
        BY <2>2 DEF Planned
      <3>2. /\ pl_reached = NeededIds /\ MissingTask \notin Needed /\ Needed \subseteq PlanTasks
        BY <3>1, GraphWhole DEF GraphInv
      <3>3. /\ pl_order \in Seq(pl_reached)
            /\ \A i, j \in DOMAIN pl_order : pl_order[i] = pl_order[j] => i = j
            /\ \A i \in DOMAIN pl_order : \A d \in depends_on(pl_order[i]) :
                   \E j \in 1..(i - 1) : pl_order[j] = d
        BY <3>1 DEF SortInv
      <3>4. /\ DOMAIN pl_order = 1..Len(pl_order) /\ Len(pl_order) \in Nat
            /\ \A i \in DOMAIN pl_order : pl_order[i] \in expanded
        BY <3>1, <3>3, Counts
      <3>5. Ordered = NeededIds
        BY <2>2, <3>2 DEF SearchInv
      <3>6. ASSUME NEW S \in SUBSET Needed, S # {}
            PROVE  \E t \in S : pl_decl.dependsOn[t] \cap S = {}
        <4> DEFINE K == {i \in DOMAIN pl_order : task_of(pl_order[i]) \in S}
        <4>1. ASSUME NEW t \in S, NEW id \in instance_ids(t)
              PROVE  \E i \in K : pl_order[i] = id
          <5>1. id \in NeededIds /\ task_of(id) = t
            BY <2>1, <3>2, InstanceIds DEF NeededIds, PlanAll
          <5>2. PICK i \in DOMAIN pl_order : pl_order[i] = id
            BY <3>5, <5>1 DEF Ordered
          <5> QED
            BY <5>1, <5>2
        <4>2. PICK t \in S : TRUE
          BY <3>6
        <4>3. PICK id \in instance_ids(t) : TRUE
          BY <2>1, <3>2, InstanceIds DEF PlanAll
        <4>4. K \in SUBSET Nat /\ K # {}
          BY <3>4, <4>1, <4>3
        <4>5. PICK i \in K : \A j \in K : i <= j
          <5> HIDE DEF K
          <5> QED
            BY <4>4, LeastNumber
        <4> DEFINE u == task_of(pl_order[i])
        <4>6. u \in S /\ pl_order[i] \in expanded
          BY <3>4, <4>5
        <4>7. ASSUME NEW d \in pl_decl.dependsOn[u] \cap S
              PROVE  FALSE
          <5>1. d \in PlanAll /\ instance_ids(d) \subseteq depends_on(pl_order[i])
            BY <2>1, <4>6, NodeFacts
          <5>2. PICK x \in instance_ids(d) : TRUE
            BY <2>1, <5>1, InstanceIds
          <5>3. PICK j \in 1..(i - 1) : pl_order[j] = x
            BY <3>3, <4>5, <5>1, <5>2
          <5>4. task_of(x) = d
            BY <2>1, <5>1, <5>2, InstanceIds
          <5>5. j \in K
            BY <3>4, <4>5, <5>3, <5>4
          <5> HIDE DEF K
          <5> QED
            BY <3>4, <4>4, <4>5, <5>3, <5>5
        <4> QED
          BY <4>6, <4>7
      <3>7. ASSUME NEW i \in DOMAIN pl_order, NEW j \in DOMAIN pl_order,
                   task_of(pl_order[j]) \in pl_decl.dependsOn[task_of(pl_order[i])]
            PROVE  j < i
        <4>1. pl_order[j] \in depends_on(pl_order[i])
          BY <2>1, <3>4, <3>7, NodeFacts
        <4>2. PICK k \in 1..(i - 1) : pl_order[k] = pl_order[j]
          BY <3>3, <4>1
        <4>3. k = j
          BY <3>3, <3>4, <4>2
        <4> QED
          BY <3>4, <4>2, <4>3
      <3> QED
        BY <3>2, <3>5, <3>6, <3>7 DEF PlanIsSerial, Sound, Ordered, NeededIds
    <2>3. RefusalIsTrue
      <3>1. pl_pc = "MissingDependency" => MissingTask \in Needed
        BY DEF GraphInv
      <3>2. ASSUME pl_pc = "Cycle"
            PROVE  /\ Len(pl_path) > 1 /\ pl_path[1] = pl_path[Len(pl_path)]
                   /\ \A i \in 1..(Len(pl_path) - 1) :
                          task_of(pl_path[i + 1]) \in pl_decl.dependsOn[task_of(pl_path[i])]
        <4>1. \A i \in 1..(Len(pl_path) - 1) :
                 pl_path[i] \in expanded /\ pl_path[i + 1] \in depends_on(pl_path[i])
          BY <3>2 DEF SearchInv
        <4>2. \A id \in expanded : \A d \in depends_on(id) : task_of(d) \in pl_decl.dependsOn[task_of(id)]
          BY <2>1, NodeFacts
        <4> QED
          BY <3>2, <4>1, <4>2 DEF SearchInv
      <3> QED
        BY <3>1, <3>2 DEF RefusalIsTrue, SearchInv
    <2> QED
      BY <2>2, <2>3 DEF PlanOrReason, PlanIsSerial
  <1> QED
    BY <1>1, PlanBegins, PlanStep, PTL DEF PlanSpec

-----------------------------------------------------------------------------
(* Action keys                                                             *)
(*                                                                         *)
(* AcInv: an entry of the index never has a later stat than the file; what *)
(* the run has read of a file that nobody has written or committed since   *)
(* it began is still so; the keys are those that the memo gives; and each  *)
(* entry of the store is explained, by the digests in its key or by the    *)
(* entry of the node that wrote the file, under the key to which the       *)
(* bindings lead.                                                          *)

AcRows == [data : AcContents, stat : Nat]
Reads(n) == UNION {AcItems[i] : i \in AcInputs[n]}
EarlierOutput(f, n) == \E m \in AcNodes : m < n /\ AcOutput[m] = f
LastWriter(w, n, f) ==
    /\ w \in AcNodes /\ w < n /\ AcOutput[w] = f
    /\ \A m \in AcNodes : w < m /\ m < n => AcOutput[m] # f

AcTypeOK ==
    /\ ac_tree \in [AcFiles -> AcRows]
    /\ ac_pc \in {"idle", "prepare", "running", "save", "flush"}
    /\ ac_at \in AcNodes
    /\ \/ ac_todo \in {<<>>, <<ac_at>>}
       \/ ac_at + 1 \in AcNodes /\ ac_todo \in {<<ac_at + 1>>, <<ac_at, ac_at + 1>>}
    /\ ac_pc \in {"running", "save"} => ac_todo = <<>>
    /\ ac_memo = [i \in DOMAIN AcItems |-> ac_memo[i]]
    /\ ac_keys = [n \in AcNodes |-> ac_keys[n]]
    /\ \A p \in DOMAIN ac_cas : /\ p = <<p[1], p[2]>> /\ p[1] \in AcNodes
                                /\ ac_cas[p] \in AcContents

(* Index entries                                                           *)
EntryOK(e, row) ==
    e # NoValue => /\ e.stat \in Nat /\ e.stat <= row.stat
                   /\ e.hash.kind = "bytes" /\ e.stat = row.stat => e.hash.of = row.data
IndexSound(index, tree) ==
    index = [f \in AcFiles |-> index[f]] /\ \A f \in AcFiles : EntryOK(index[f], tree[f])
IndexesOK == IndexSound(ac_disk, ac_tree) /\ IndexSound(ensure_index_session, ac_tree)

(* What was read                                                           *)
Tells(digests, fs) == \A f \in fs \ ac_touched : digests[f].of = ac_tree[f].data

ReadsOK ==
    /\ ac_listed # NoValue => \A f \in AcTracked \ ac_touched : ac_listed[f] = ac_head[f]
    /\ ac_dirty # NoValue =>
          /\ ac_listed # NoValue
          /\ \A f \in AcFiles \ (ac_dirty \cup ac_touched) :
                f \in AcTracked /\ ac_head[f] = ac_tree[f].data
    /\ ac_item # NoValue => /\ ac_item = [item |-> ac_item.item, got |-> ac_item.got]
                            /\ ac_item.item \in DOMAIN AcItems
                            /\ ac_memo[ac_item.item] = NoValue
                            /\ DOMAIN ac_item.got \subseteq AcFiles
                            /\ Tells(ac_item.got, DOMAIN ac_item.got)
    /\ \A i \in DOMAIN AcItems : ac_memo[i] # NoValue => Tells(ac_memo[i], AcItems[i])
    /\ ac_stat # NoValue => /\ ac_item # NoValue /\ ac_stat.file \in AcFiles
                            /\ ac_stat.stat \in Nat
                            /\ ac_stat.stat <= ac_tree[ac_stat.file].stat

(* Keys                                                                    *)
Passed(m) ==
    /\ ac_pc # "idle"
    /\ m < ac_at \/ (m = ac_at /\ (ac_todo = <<>> \/ Head(ac_todo) # ac_at))
Known(m) == m \notin ac_uncached => \A i \in AcInputs[m] : ac_memo[i] # NoValue

KeysOK ==
    /\ \A m \in AcNodes : ac_keys[m] # NoValue \/ Passed(m) => ac_keys[m] = KeyOf(m) /\ Known(m)
    /\ \A m \in AcNodes : m > ac_at + 1 => ac_keys[m] = NoValue
    /\ ac_todo # <<>> => \A m \in AcNodes : m > Head(ac_todo) => ac_keys[m] = NoValue

(* The store                                                               *)
Lineage(n, ks) ==
    \A j \in AcNodes : j <= n /\ j..n \subseteq AcBound => ks[j - 1] = ks[j].binding

Explains(n, ks, cas, v) ==
    /\ ~ EarlierOutput(AcSource[n], n) =>
          \A i \in AcInputs[n] : AcSource[n] \in AcItems[i] => ks[n].paths[i][AcSource[n]].of = v
    /\ BindsProducers(n) =>
          \A w \in AcNodes : LastWriter(w, n, AcSource[n]) =>
              <<w, ks[w]>> \in DOMAIN cas /\ v = cas[<<w, ks[w]>>]

Explained(n, key, cas, v) == \E ks : Lineage(n, ks) /\ ks[n] = key /\ Explains(n, ks, cas, v)

StoreOK == ac_quiet => \A p \in DOMAIN ac_cas : Explained(p[1], p[2], ac_cas, ac_cas[p])

Written == IF ac_pc = "save" THEN ac_at + 1 ELSE ac_at

RunOK ==
    /\ ac_pc \in {"running", "save"} => ~ Hit(ac_at)
    /\ ac_quiet /\ ac_pc \in {"prepare", "running", "save"} =>
        /\ \A f \in ac_touched : EarlierOutput(f, Written)
        /\ \A m \in AcNodes : m < ac_at /\ ~ ac_keys[m].disabled =>
              /\ <<m, ac_keys[m]>> \in DOMAIN ac_cas
              /\ LastWriter(m, Written, AcOutput[m]) =>
                    ac_tree[AcOutput[m]].data = ac_cas[<<m, ac_keys[m]>>]
        /\ ac_pc = "save" /\ ~ ac_keys[ac_at].disabled =>
              Explains(ac_at, ac_keys, ac_cas, ac_tree[AcOutput[ac_at]].data)

AcInv == AcTypeOK /\ IndexesOK /\ ReadsOK /\ KeysOK /\ StoreOK /\ RunOK

-----------------------------------------------------------------------------
(* The nodes are numbered from one, without gaps.                          *)
LEMMA AcNumbers ==
    /\ AcNodes \subseteq Nat \ {0} /\ 1 \in AcNodes
    /\ \A n \in AcNodes : 1..n \subseteq AcNodes
  <1>1. Cardinality(AcNodes) \in Nat
    BY AcAssumption, FS_CardinalityType
  <1>2. Cardinality(AcNodes) # 0
    BY AcAssumption, FS_EmptySet
  <1> DEFINE k == Cardinality(AcNodes)
  <1>3. AcNodes = 1..k
    BY AcAssumption
  <1>4. k \in Nat \ {0}
    BY <1>1, <1>2
  <1> HIDE DEF k
  <1> QED
    BY <1>3, <1>4

(* A map with one more entry.                                              *)
LEMMA WithFacts ==
    ASSUME NEW map, NEW x, NEW v
    PROVE  /\ DOMAIN With(map, x, v) = DOMAIN map \cup {x}
           /\ With(map, x, v)[x] = v
           /\ \A y \in DOMAIN map : y # x => With(map, x, v)[y] = map[y]
  BY DEF With

(* Nothing has been read, keyed or saved at first.                         *)
LEMMA AcInitial == AcInit => AcInv
  <1> SUFFICES ASSUME AcInit PROVE AcInv
    OBVIOUS
  <1>1. AcFirst \in AcContents
    BY AcAssumption DEF AcFirst
  <1>2. ac_cas = <<>> /\ DOMAIN ac_cas = {}
    <2>1. DOMAIN <<>> = {}
      OBVIOUS
    <2> QED
      BY <2>1 DEF AcInit
  <1>3. AcTypeOK
    <2>1. ac_tree \in [AcFiles -> AcRows]
      BY <1>1 DEF AcInit, AcRows
    <2> QED
      BY <1>2, <2>1, AcNumbers DEF AcInit, AcTypeOK, AcUnkeyed, AcNoMemo
  <1>4. IndexesOK
    BY DEF AcInit, IndexesOK, IndexSound, EntryOK, ensure_index_session, AcNobody
  <1>5. ReadsOK
    BY DEF AcInit, ReadsOK, AcNoMemo
  <1>6. KeysOK
    BY DEF AcInit, KeysOK, Passed, AcUnkeyed
  <1>7. StoreOK
    BY <1>2 DEF StoreOK
  <1>8. RunOK
    BY DEF AcInit, RunOK
  <1> QED
    BY <1>3, <1>4, <1>5, <1>6, <1>7, <1>8 DEF AcInv

(* What the run and its store were about stays, as long as no step of the  *)
(* run, and no file, changes.                                              *)
LEMMA RunFrame ==
    ASSUME RunOK, StoreOK,
           UNCHANGED <<ac_tree, ac_cas, ac_pc, ac_at, ac_keys, ac_touched, ac_quiet>>
    PROVE  RunOK' /\ StoreOK'
  <1>1. Written' = Written /\ Hit(ac_at)' = Hit(ac_at)
    BY DEF Written, Hit
  <1>2. RunOK'
    BY <1>1 DEF RunOK
  <1>3. StoreOK'
    BY DEF StoreOK
  <1> QED
    BY <1>2, <1>3

(* Keys stay those that the memo gives when neither changes.               *)
LEMMA KeysFrame ==
    ASSUME KeysOK, UNCHANGED <<ac_uncached, ac_pc, ac_todo, ac_at, ac_keys, ac_memo>>
    PROVE  KeysOK'
  <1>1. \A m : KeyOf(m)' = KeyOf(m) /\ (Known(m)' <=> Known(m)) /\ (Passed(m)' <=> Passed(m))
    BY DEF KeyOf, Known, Passed
  <1> QED
    BY <1>1 DEF KeysOK

(* The steps that read files                                               *)
LEMMA AcReads ==
    ASSUME AcInv,
           \/ \E i \in DOMAIN AcItems : digest_repo_path(i)
           \/ load_git_snapshot_list
           \/ load_git_snapshot_status
    PROVE  AcInv'
  <1>1. UNCHANGED <<ac_uncached, ac_tree, ac_head, ac_disk, ac_cas, ac_pc, ac_todo, ac_at, ac_keys, ac_memo,
                    ac_session, ac_stat, ac_touched, ac_quiet>>
    BY DEF digest_repo_path, load_git_snapshot_list, load_git_snapshot_status, ac_store, ac_ghost
  <1>2. AcTypeOK'
    BY <1>1 DEF AcInv, AcTypeOK
  <1>3. IndexesOK'
    BY <1>1 DEF AcInv, IndexesOK, ensure_index_session
  <1>4. KeysOK'
    BY <1>1, KeysFrame DEF AcInv
  <1>5. RunOK' /\ StoreOK'
    BY <1>1, RunFrame DEF AcInv
  <1>6. \A ds, fs : Tells(ds, fs)' <=> Tells(ds, fs)
    BY <1>1 DEF Tells
  <1>7. ReadsOK'
    <2>1. CASE \E i \in DOMAIN AcItems : digest_repo_path(i)
      <3>1. PICK i \in DOMAIN AcItems : digest_repo_path(i)
        BY <2>1
      <3>2. ac_item' = [item |-> i, got |-> <<>>] /\ ac_memo[i] = NoValue
        BY <3>1 DEF digest_repo_path, Undigested
      <3>3. DOMAIN <<>> = {}
        OBVIOUS
      <3>4. ac_listed' = ac_listed /\ ac_dirty' = ac_dirty
        BY <3>1 DEF digest_repo_path
      <3>5. Tells(<<>>, {})
        BY DEF Tells
      <3>6. ac_stat = NoValue
        BY <3>1 DEF digest_repo_path, Preparing
      <3> QED
        BY <1>1, <1>6, <3>2, <3>3, <3>4, <3>5, <3>6 DEF AcInv, ReadsOK
    <2>2. CASE load_git_snapshot_list
      BY <1>1, <1>6, <2>2 DEF AcInv, ReadsOK, load_git_snapshot_list
    <2>3. CASE load_git_snapshot_status
      <3>1. ac_dirty' = {f \in AcFiles : f \in AcTracked => ac_head[f] # ac_tree[f].data}
        BY <2>3 DEF load_git_snapshot_status
      <3>2. \A f \in AcFiles \ ac_dirty' : f \in AcTracked /\ ac_head[f] = ac_tree[f].data
        BY <3>1
      <3> QED
        BY <1>1, <1>6, <2>3, <3>2 DEF AcInv, ReadsOK, load_git_snapshot_status
    <2> QED
      BY <2>1, <2>2, <2>3
  <1> QED
    BY <1>2, <1>3, <1>4, <1>5, <1>7 DEF AcInv


(* An index stays sound with an entry that is.                             *)
LEMMA EntryIn ==
    ASSUME NEW index, NEW tree, IndexSound(index, tree),
           NEW f \in AcFiles, NEW e, EntryOK(e, tree[f])
    PROVE  IndexSound([index EXCEPT ![f] = e], tree)
  BY DEF IndexSound

(* One more digest of the item at hand.                                    *)
LEMMA GotOne ==
    ASSUME ReadsOK, ac_item # NoValue, NEW f \in AcFiles, NEW d, Got(f, d),
           f \in ac_touched \/ d.of = ac_tree[f].data,
           UNCHANGED <<ac_tree, ac_touched>>
    PROVE  /\ ac_item'.item = ac_item.item
           /\ ac_item' = [item |-> ac_item'.item, got |-> ac_item'.got]
           /\ DOMAIN ac_item'.got \subseteq AcFiles
           /\ Tells(ac_item.got, DOMAIN ac_item.got)'
  <1>1. ac_item' = [item |-> ac_item.item, got |-> With(ac_item.got, f, d)]
    BY DEF ReadsOK, Got
  <1>2. ac_item'.item = ac_item.item /\ ac_item'.got = With(ac_item.got, f, d)
    BY <1>1
  <1>3. DOMAIN With(ac_item.got, f, d) = DOMAIN ac_item.got \cup {f}
    BY WithFacts
  <1>4. Tells(With(ac_item.got, f, d), DOMAIN ac_item.got \cup {f})
    <2> SUFFICES ASSUME NEW g \in (DOMAIN ac_item.got \cup {f}) \ ac_touched
                 PROVE  With(ac_item.got, f, d)[g].of = ac_tree[g].data
      BY DEF Tells
    <2>1. CASE g = f
      <3>1. With(ac_item.got, f, d)[g] = d
        BY <2>1 DEF With
      <3>2. d.of = ac_tree[g].data
        BY <2>1
      <3> QED
        BY <3>1, <3>2
    <2>2. CASE g # f
      <3>1. With(ac_item.got, f, d)[g] = ac_item.got[g]
        BY <2>2 DEF With
      <3> QED
        BY <2>2, <3>1 DEF ReadsOK, Tells
    <2> QED
      BY <2>1, <2>2
  <1>5. DOMAIN ac_item.got \subseteq AcFiles
    BY DEF ReadsOK
  <1>6. Tells(ac_item.got, DOMAIN ac_item.got)'
    BY <1>2, <1>3, <1>4 DEF Tells
  <1> QED
    BY <1>1, <1>2, <1>3, <1>5, <1>6

(* A file has its digest, from its blob, from the index or from its bytes. *)
LEMMA AcDigests ==
    ASSUME AcInv, NEW f \in AcFiles, NEW d, NEW e, ac_item # NoValue,
           Got(f, d), f \in ac_touched \/ d.of = ac_tree[f].data,
           ac_session' = [ensure_index_session EXCEPT ![f] = e]
             \/ ac_session' = ensure_index_session,
           EntryOK(e, ac_tree[f]),
           ac_stat' = NoValue,
           UNCHANGED <<ac_store, ac_pc, ac_todo, ac_at, ac_keep_going, ac_listed, ac_dirty,
                       ac_memo, ac_keys, ac_runs, ac_edits, ac_ghost>>
    PROVE  AcInv'
  <1>1. UNCHANGED <<ac_uncached, ac_tree, ac_head, ac_disk, ac_cas, ac_pc, ac_todo, ac_at, ac_keys, ac_memo,
                    ac_listed, ac_dirty, ac_touched, ac_quiet>>
    BY DEF ac_store, ac_ghost
  <1>2. AcTypeOK'
    BY <1>1 DEF AcInv, AcTypeOK
  <1>3. IndexesOK'
    <2>1. IndexSound(ac_session', ac_tree)
      BY EntryIn DEF AcInv, IndexesOK
    <2> QED
      BY <1>1, <2>1 DEF AcInv, IndexesOK, ensure_index_session
  <1>4. KeysOK'
    BY <1>1, KeysFrame DEF AcInv
  <1>5. RunOK' /\ StoreOK'
    BY <1>1, RunFrame DEF AcInv
  <1>6. \A ds, fs : Tells(ds, fs)' <=> Tells(ds, fs)
    BY <1>1 DEF Tells
  <1>7. ReadsOK'
    <2>1. /\ ac_item'.item = ac_item.item
          /\ ac_item' = [item |-> ac_item'.item, got |-> ac_item'.got]
          /\ DOMAIN ac_item'.got \subseteq AcFiles
          /\ Tells(ac_item.got, DOMAIN ac_item.got)'
      BY <1>1, GotOne DEF AcInv
    <2> QED
      BY <1>1, <1>6, <2>1 DEF AcInv, ReadsOK
  <1> QED
    BY <1>2, <1>3, <1>4, <1>5, <1>7 DEF AcInv


(* The digest of a clean file comes from its blob, that of a file whose    *)
(* stat did not change from the index.                                     *)
LEMMA AcLeaves ==
    ASSUME AcInv, NEW f \in AcFiles,
           digest_file_incremental_blob(f) \/ digest_file_incremental_reuse(f)
    PROVE  AcInv'
  <1>1. ac_stat = NoValue /\ ac_item # NoValue /\ ac_dirty # NoValue
    BY DEF digest_file_incremental_blob, digest_file_incremental_reuse, Leaf, Preparing
  <1>2. UNCHANGED <<ac_store, ac_pc, ac_todo, ac_at, ac_keep_going, ac_listed, ac_dirty,
                    ac_memo, ac_stat, ac_keys, ac_runs, ac_edits, ac_ghost>>
    BY DEF digest_file_incremental_blob, digest_file_incremental_reuse
  <1>3. ac_tree[f] \in AcRows
    BY DEF AcInv, AcTypeOK
  <1>4. CASE digest_file_incremental_blob(f)
    <2> DEFINE d == digest_from_git_blob(ac_listed[f])
               e == [stat |-> ac_tree[f].stat, hash |-> d]
    <2>1. d.kind = "blob" /\ d.of = ac_listed[f]
      BY DEF digest_from_git_blob
    <2>2. e.stat = ac_tree[f].stat /\ e.hash = d
      OBVIOUS
    <2>3. Got(f, d) /\ ac_session' = [ensure_index_session EXCEPT ![f] = e] /\ f \notin ac_dirty
      BY <1>4 DEF digest_file_incremental_blob, upsert_entry
    <2>4. f \in ac_touched \/ d.of = ac_tree[f].data
      BY <1>1, <2>1, <2>3 DEF AcInv, ReadsOK
    <2> HIDE DEF d, e
    <2>5. EntryOK(e, ac_tree[f])
      BY <1>3, <2>1, <2>2 DEF EntryOK, AcRows
    <2> QED
      BY <1>1, <1>2, <2>3, <2>4, <2>5, AcDigests
  <1>5. CASE digest_file_incremental_reuse(f)
    <2> DEFINE e == ensure_index_session[f]
    <2>1. Got(f, e.hash) /\ ac_session' = ensure_index_session /\ Reusable(e, ac_tree[f].stat)
      BY <1>5 DEF digest_file_incremental_reuse
    <2>2. EntryOK(e, ac_tree[f])
      BY DEF AcInv, IndexesOK, IndexSound
    <2>3. e.hash.of = ac_tree[f].data
      BY <2>1, <2>2 DEF Reusable, EntryOK
    <2> HIDE DEF e
    <2> QED
      BY <1>1, <1>2, <2>1, <2>2, <2>3, AcDigests
  <1> QED
    BY <1>4, <1>5

(* The stat of a file is read before its bytes.                            *)
LEMMA AcStats ==
    ASSUME AcInv, NEW f \in AcFiles, digest_file_incremental_stat(f)
    PROVE  AcInv'
  <1>1. UNCHANGED <<ac_uncached, ac_tree, ac_head, ac_disk, ac_cas, ac_pc, ac_todo, ac_at, ac_keys, ac_memo,
                    ac_listed, ac_dirty, ac_item, ac_touched, ac_quiet>>
    BY DEF digest_file_incremental_stat, ac_store, ac_ghost
  <1>2. AcTypeOK'
    BY <1>1 DEF AcInv, AcTypeOK
  <1>3. IndexesOK'
    <2>1. ac_session' = ensure_index_session
      BY DEF digest_file_incremental_stat
    <2> QED
      BY <1>1, <2>1 DEF AcInv, IndexesOK, ensure_index_session
  <1>4. KeysOK'
    BY <1>1, KeysFrame DEF AcInv
  <1>5. RunOK' /\ StoreOK'
    BY <1>1, RunFrame DEF AcInv
  <1>6. \A ds, fs : Tells(ds, fs)' <=> Tells(ds, fs)
    BY <1>1 DEF Tells
  <1>7. ReadsOK'
    <2>1. ac_stat' = [file |-> f, stat |-> ac_tree[f].stat] /\ ac_item # NoValue
      BY DEF digest_file_incremental_stat, Leaf
    <2>2. ac_stat'.file = f /\ ac_stat'.stat = ac_tree[f].stat
      BY <2>1
    <2>3. ac_tree[f].stat \in Nat
      BY DEF AcInv, AcTypeOK, AcRows
    <2>4. ac_stat'.stat \in Nat /\ ac_stat'.stat <= ac_tree[f].stat
      BY <2>2, <2>3
    <2> HIDE DEF Tells
    <2> QED
      BY <1>1, <1>6, <2>1, <2>2, <2>4 DEF AcInv, ReadsOK
  <1> QED
    BY <1>2, <1>3, <1>4, <1>5, <1>7 DEF AcInv

(* The bytes are read, perhaps later than a write after the stat.          *)
LEMMA AcBytes ==
    ASSUME AcInv, digest_file_incremental_bytes
    PROVE  AcInv'
  <1> DEFINE f == ac_stat.file
             d == digest_file(ac_tree[f].data)
             e == [stat |-> ac_stat.stat, hash |-> d]
  <1>1. /\ f \in AcFiles /\ ac_item # NoValue
        /\ ac_stat.stat \in Nat /\ ac_stat.stat <= ac_tree[f].stat
    BY DEF AcInv, ReadsOK, digest_file_incremental_bytes
  <1>2. Got(f, d) /\ ac_session' = [ensure_index_session EXCEPT ![f] = e] /\ ac_stat' = NoValue
    BY DEF digest_file_incremental_bytes, upsert_entry
  <1>3. d.of = ac_tree[f].data /\ e.stat = ac_stat.stat /\ e.hash = d
    BY DEF digest_file
  <1>4. EntryOK(e, ac_tree[f])
    BY <1>1, <1>3 DEF EntryOK
  <1>5. UNCHANGED <<ac_store, ac_pc, ac_todo, ac_at, ac_keep_going, ac_listed, ac_dirty,
                    ac_memo, ac_keys, ac_runs, ac_edits, ac_ghost>>
    BY DEF digest_file_incremental_bytes
  <1> HIDE DEF f, d, e
  <1> QED
    BY <1>1, <1>2, <1>3, <1>4, <1>5, AcDigests

(* A node keeps its key when an item that it does not have is digested.    *)
LEMMA AcComputes ==
    ASSUME AcInv, compute_dir
    PROVE  AcInv'
  <1> DEFINE i == ac_item.item
             got == ac_item.got
  <1>1. /\ i \in DOMAIN AcItems /\ ac_memo[i] = NoValue
        /\ Tells(got, DOMAIN got)
    BY DEF AcInv, ReadsOK, compute_dir
  <1>2. ac_memo' = [ac_memo EXCEPT ![i] = got] /\ AcItems[i] \subseteq DOMAIN got
    BY DEF compute_dir, Left
  <1>3. UNCHANGED <<ac_uncached, ac_tree, ac_head, ac_disk, ac_cas, ac_pc, ac_todo, ac_at, ac_keys,
                    ac_session, ac_stat, ac_listed, ac_dirty, ac_touched, ac_quiet>>
    BY DEF compute_dir, ac_store, ac_ghost
  <1>4. ac_item' = NoValue /\ ac_stat = NoValue
    BY DEF compute_dir, Preparing
  <1>5. ac_memo'[i] = got /\ \A j \in DOMAIN AcItems : j # i => ac_memo'[j] = ac_memo[j]
    BY <1>1, <1>2 DEF AcInv, AcTypeOK
  <1>6. Tells(got, AcItems[i])
    BY <1>1, <1>2 DEF Tells
  <1> HIDE DEF i, got
  <1>7. AcTypeOK'
    <2>1. ac_memo' = [j \in DOMAIN AcItems |-> ac_memo'[j]]
      BY <1>2 DEF AcInv, AcTypeOK
    <2> QED
      BY <1>3, <2>1 DEF AcInv, AcTypeOK
  <1>8. IndexesOK'
    BY <1>3 DEF AcInv, IndexesOK, ensure_index_session
  <1>9. RunOK' /\ StoreOK'
    BY <1>3, RunFrame DEF AcInv
  <1>10. \A ds, fs : Tells(ds, fs)' <=> Tells(ds, fs)
    BY <1>3 DEF Tells
  <1>11. ReadsOK'
    <2>1. ASSUME NEW j \in DOMAIN AcItems, ac_memo'[j] # NoValue
          PROVE  Tells(ac_memo[j], AcItems[j])'
      BY <1>5, <1>6, <1>10, <2>1 DEF AcInv, ReadsOK
    <2> QED
      BY <1>3, <1>4, <2>1 DEF AcInv, ReadsOK
  <1>12. KeysOK'
    <2>1. ASSUME NEW m \in AcNodes, Known(m)
          PROVE  Known(m)' /\ KeyOf(m)' = KeyOf(m)
      <3>1. m \notin ac_uncached => \A j \in AcInputs[m] : ac_memo[j] # NoValue /\ j \in DOMAIN AcItems
        BY <2>1, AcAssumption DEF Known
      <3>2. m \notin ac_uncached => \A j \in AcInputs[m] : ac_memo'[j] = ac_memo[j]
        BY <1>1, <1>5, <3>1
      <3>3. Known(m)'
        BY <1>3, <3>1, <3>2 DEF Known
      <3>4. m \notin ac_uncached => [j \in AcInputs[m] |-> ac_memo'[j]] = [j \in AcInputs[m] |-> ac_memo[j]]
        BY <3>2
      <3>5. KeyOf(m)' = KeyOf(m)
        BY <1>3, <3>4 DEF KeyOf
      <3> QED
        BY <3>3, <3>5
    <2>2. \A m : Passed(m)' <=> Passed(m)
      BY <1>3 DEF Passed
    <2> QED
      BY <1>3, <2>1, <2>2 DEF AcInv, KeysOK
  <1> QED
    BY <1>7, <1>8, <1>9, <1>11, <1>12 DEF AcInv


(* The nodes that are left to prepare are the one at hand and the next.    *)
LEMMA TodoFacts ==
    ASSUME AcTypeOK, ac_todo # <<>>
    PROVE  /\ Head(ac_todo) \in AcNodes
           /\ Head(ac_todo) = ac_at \/ Head(ac_todo) = ac_at + 1
           /\ Tail(ac_todo) = <<>> \/ (/\ Tail(ac_todo) = <<ac_at + 1>> /\ ac_at + 1 \in AcNodes
                                       /\ Head(ac_todo) = ac_at)
  <1>1. \A a, b : /\ Head(<<a>>) = a /\ Tail(<<a>>) = <<>>
                  /\ Head(<<a, b>>) = a /\ Tail(<<a, b>>) = <<b>>
    OBVIOUS
  <1>2. CASE ac_todo = <<ac_at>>
    BY <1>1, <1>2 DEF AcTypeOK
  <1>3. CASE ac_at + 1 \in AcNodes /\ ac_todo = <<ac_at + 1>>
    BY <1>1, <1>3
  <1>4. CASE ac_at + 1 \in AcNodes /\ ac_todo = <<ac_at, ac_at + 1>>
    BY <1>1, <1>4 DEF AcTypeOK
  <1> QED
    BY <1>2, <1>3, <1>4 DEF AcTypeOK

(* A node gets its key when all its items are digested.                    *)
LEMMA AcPrepares ==
    ASSUME AcInv, prepare_cas_inputs
    PROVE  AcInv'
  <1> DEFINE h == Head(ac_todo)
  <1>1. ac_todo # <<>> /\ ac_pc = "prepare" /\ ac_item = NoValue
    BY DEF prepare_cas_inputs, Preparing
  <1>2. /\ h \in AcNodes /\ (h = ac_at \/ h = ac_at + 1)
        /\ \/ Tail(ac_todo) = <<>>
           \/ Tail(ac_todo) = <<ac_at + 1>> /\ ac_at + 1 \in AcNodes /\ h = ac_at
    BY <1>1, TodoFacts DEF AcInv
  <1>3. ac_keys' = [ac_keys EXCEPT ![h] = KeyOf(h)] /\ ac_todo' = Tail(ac_todo)
    BY DEF prepare_cas_inputs
  <1>4. UNCHANGED <<ac_uncached, ac_tree, ac_head, ac_disk, ac_cas, ac_pc, ac_at, ac_memo, ac_item,
                    ac_session, ac_stat, ac_listed, ac_dirty, ac_touched, ac_quiet>>
    BY DEF prepare_cas_inputs, ac_store, ac_ghost
  <1>5. Known(h)
    BY DEF prepare_cas_inputs, Known, Undigested
  <1>6. /\ ac_keys'[h] = KeyOf(h)
        /\ \A m \in AcNodes : m # h => ac_keys'[m] = ac_keys[m]
        /\ ac_keys' = [m \in AcNodes |-> ac_keys'[m]]
    BY <1>2, <1>3 DEF AcInv, AcTypeOK
  <1>7. \A s : Head(<<s>>) = s /\ <<s>> # <<>>
    OBVIOUS
  <1>8. \A m \in AcNodes : m \in Nat
    BY AcNumbers
  <1>9. ac_at \in AcNodes /\ ac_at \in Nat
    BY <1>8 DEF AcInv, AcTypeOK
  <1>10. ac_todo # <<>> => \A m \in AcNodes : m > h => ac_keys[m] = NoValue
    BY DEF AcInv, KeysOK
  <1> HIDE DEF h
  <1>11. AcTypeOK'
    BY <1>1, <1>2, <1>3, <1>4, <1>6 DEF AcInv, AcTypeOK
  <1>12. IndexesOK'
    BY <1>4 DEF AcInv, IndexesOK, ensure_index_session
  <1>13. ReadsOK'
    <2>1. \A ds, fs : Tells(ds, fs)' <=> Tells(ds, fs)
      BY <1>4 DEF Tells
    <2> QED
      BY <1>4, <2>1 DEF AcInv, ReadsOK
  <1>14. StoreOK'
    BY <1>4 DEF AcInv, StoreOK
  <1>15. RunOK'
    <2>1. \A m \in AcNodes : m < ac_at => ac_keys'[m] = ac_keys[m]
      BY <1>2, <1>6, <1>8, <1>9
    <2>2. Written' = Written
      BY <1>4 DEF Written
    <2> QED
      BY <1>1, <1>4, <2>1, <2>2 DEF AcInv, RunOK
  <1>16. KeysOK'
    <2>1. ASSUME NEW m \in AcNodes, m <= h
          PROVE  KeyOf(m)' = KeyOf(m)
      <3>1. CASE m \in AcBound
        <4>1. m - 1 \in AcNodes /\ m - 1 # h
          BY <1>2, <1>8, <2>1, <3>1, AcNumbers, AcAssumption
        <4> QED
          BY <1>4, <1>6, <4>1 DEF KeyOf
      <3>2. CASE m \notin AcBound
        BY <1>4, <3>2 DEF KeyOf
      <3> QED
        BY <3>1, <3>2
    <2>2. \A m : Known(m)' <=> Known(m)
      BY <1>4 DEF Known
    <2>3. ASSUME NEW m \in AcNodes, ac_keys'[m] # NoValue \/ Passed(m)'
          PROVE  ac_keys'[m] = KeyOf(m)' /\ Known(m)'
      <3>1. CASE m = h
        BY <1>2, <1>5, <1>6, <2>1, <2>2, <3>1, <1>8
      <3>2. CASE m > h
        <4>1. ac_keys'[m] = NoValue
          BY <1>1, <1>2, <1>6, <1>8, <1>10, <3>2
        <4>2. ~ Passed(m)'
          BY <1>2, <1>4, <1>8, <1>9, <3>2 DEF Passed
        <4> QED
          BY <2>3, <4>1, <4>2
      <3>3. CASE m < h
        <4>1. ac_keys'[m] = ac_keys[m]
          BY <1>2, <1>6, <1>8, <3>3
        <4>2. Passed(m)' => Passed(m)
          BY <1>1, <1>2, <1>4, <1>8, <1>9, <3>3 DEF Passed, h
        <4>3. ac_keys[m] = KeyOf(m) /\ Known(m)
          BY <2>3, <4>1, <4>2 DEF AcInv, KeysOK
        <4>4. KeyOf(m)' = KeyOf(m)
          BY <1>2, <1>8, <2>1, <3>3
        <4> QED
          BY <2>2, <4>1, <4>3, <4>4
      <3> QED
        BY <1>2, <1>8, <3>1, <3>2, <3>3
    <2>4. ASSUME NEW m \in AcNodes, m > ac_at' + 1
          PROVE  ac_keys'[m] = NoValue
      <3>1. m # h /\ m > ac_at + 1
        BY <1>2, <1>4, <1>8, <1>9, <2>4
      <3> QED
        BY <1>6, <3>1 DEF AcInv, KeysOK
    <2>5. ASSUME ac_todo' # <<>>, NEW m \in AcNodes, m > Head(ac_todo')
          PROVE  ac_keys'[m] = NoValue
      <3>1. ac_todo' = <<ac_at + 1>> /\ Head(ac_todo') = ac_at + 1
        BY <1>2, <1>3, <1>7, <2>5
      <3> QED
        BY <1>4, <2>4, <2>5, <3>1
    <2> QED
      BY <2>3, <2>4, <2>5 DEF KeysOK
  <1> QED
    BY <1>11, <1>12, <1>13, <1>14, <1>15, <1>16 DEF AcInv

(* A run starts with nothing read, and no keys.                            *)
LEMMA AcStarts ==
    ASSUME AcInv, NEW kg \in BOOLEAN, ac_start(kg)
    PROVE  AcInv'
  <1>1. /\ ac_pc' = "prepare" /\ ac_at' = 1
        /\ ac_todo' = IF kg /\ 2 \in AcNodes THEN <<1, 2>> ELSE <<1>>
        /\ ac_listed' = NoValue /\ ac_dirty' = NoValue /\ ac_session' = NoValue
        /\ ac_memo' = AcNoMemo /\ ac_item' = NoValue /\ ac_stat' = NoValue
        /\ ac_keys' = AcUnkeyed
        /\ ac_touched' = {}
        /\ UNCHANGED <<ac_uncached, ac_tree, ac_head, ac_disk, ac_cas, ac_quiet>>
    BY DEF ac_start, ac_store
  <1>2. \A m \in AcNodes : m \in Nat /\ m > 0
    BY AcNumbers
  <1>3. Head(<<1>>) = 1 /\ Head(<<1, 2>>) = 1
    OBVIOUS
  <1>4. AcTypeOK'
    BY <1>1, AcNumbers DEF AcInv, AcTypeOK, AcUnkeyed, AcNoMemo
  <1>5. IndexesOK'
    BY <1>1 DEF AcInv, IndexesOK, ensure_index_session
  <1>6. ReadsOK'
    BY <1>1 DEF ReadsOK, AcNoMemo
  <1>7. KeysOK'
    <2>1. \A m \in AcNodes : ~ Passed(m)'
      BY <1>1, <1>2, <1>3 DEF Passed
    <2> QED
      BY <1>1, <2>1 DEF KeysOK, AcUnkeyed
  <1>8. StoreOK'
    BY <1>1 DEF AcInv, StoreOK
  <1>9. RunOK'
    <2>1. \A m \in AcNodes : ~ (m < 1)
      BY <1>2
    <2> QED
      BY <1>1, <2>1 DEF RunOK
  <1> QED
    BY <1>4, <1>5, <1>6, <1>7, <1>8, <1>9 DEF AcInv


-----------------------------------------------------------------------------
(* What a key says of the nodes before                                     *)

(* What a key is made of, if there is one.                                 *)
LEMMA KeyFacts ==
    ASSUME NEW n \in AcNodes
    PROVE  /\ Disabled.disabled /\ KeyOf(n).disabled \in BOOLEAN
           /\ KeyOf(n).disabled <=> KeyOf(n) = Disabled
           /\ ~ KeyOf(n).disabled =>
                /\ n \notin ac_uncached
                /\ KeyOf(n).paths = [i \in AcInputs[n] |-> ac_memo[i]]
                /\ n \in AcBound => KeyOf(n).binding = ac_keys[n - 1] /\ ac_keys[n - 1] # Disabled
  <1>1. Disabled.disabled = TRUE
    BY DEF Disabled
  <1>2. CASE n \in ac_uncached \/ (n \in AcBound /\ ac_keys[n - 1] = Disabled)
    <2>1. KeyOf(n) = Disabled
      BY <1>2 DEF KeyOf
    <2> QED
      BY <1>1, <2>1
  <1>3. CASE ~ (n \in ac_uncached \/ (n \in AcBound /\ ac_keys[n - 1] = Disabled))
    <2> DEFINE p == [i \in AcInputs[n] |-> ac_memo[i]]
               b == IF n \in AcBound THEN ac_keys[n - 1] ELSE NoValue
    <2>1. KeyOf(n) = [disabled |-> FALSE, paths |-> p, binding |-> b]
      BY <1>3 DEF KeyOf
    <2>2. n \in AcBound => b = ac_keys[n - 1]
      OBVIOUS
    <2> HIDE DEF p, b
    <2>3. KeyOf(n).disabled = FALSE /\ KeyOf(n).paths = p /\ KeyOf(n).binding = b
      BY <2>1
    <2> QED
      BY <1>1, <1>3, <2>2, <2>3 DEF p
  <1> QED
    BY <1>2, <1>3

(* The nodes to which the bindings of a node with a key lead have a key.   *)
LEMMA BoundHaveKeys ==
    ASSUME AcInv, ac_pc # "idle", ac_todo = <<>>, ~ ac_keys[ac_at].disabled
    PROVE  /\ Lineage(ac_at, ac_keys)
           /\ \A w \in AcNodes : w < ac_at /\ (w + 1)..ac_at \subseteq AcBound =>
                 ~ ac_keys[w].disabled
  <1> DEFINE n == ac_at
             K == {d \in Nat : n - d \in AcNodes /\ (n - d + 1)..n \subseteq AcBound
                               /\ ac_keys[n - d].disabled}
  <1>1. n \in AcNodes /\ \A m \in AcNodes : m \in Nat /\ m > 0
    BY AcNumbers DEF AcInv, AcTypeOK
  <1>2. \A m \in AcNodes : m <= n => ac_keys[m] = KeyOf(m)
    BY <1>1 DEF AcInv, KeysOK, Passed
  <1>3. ~ ac_keys[n].disabled
    OBVIOUS
  <1>4. AcBound \subseteq AcNodes \ {1}
    BY AcAssumption
  <1> HIDE DEF n
  <1>5. ASSUME NEW j \in AcNodes, j <= n, j \in AcBound, ~ ac_keys[j].disabled
        PROVE  /\ j - 1 \in AcNodes
               /\ ac_keys[j - 1] = ac_keys[j].binding /\ ~ ac_keys[j - 1].disabled
    <2>1. j - 1 \in AcNodes /\ j - 1 <= n
      BY <1>1, <1>4, <1>5, AcNumbers
    <2>2. ac_keys[j] = KeyOf(j) /\ ac_keys[j - 1] = KeyOf(j - 1)
      BY <1>2, <1>5, <2>1
    <2>3. ~ KeyOf(j).disabled
      BY <1>5, <2>2
    <2>4. KeyOf(j).binding = ac_keys[j - 1] /\ ac_keys[j - 1] # Disabled
      BY <1>5, <2>3, KeyFacts
    <2>5. KeyOf(j - 1).disabled <=> KeyOf(j - 1) = Disabled
      BY <2>1, KeyFacts
    <2> QED
      BY <2>1, <2>2, <2>4, <2>5
  <1>6. K = {}
    <2> SUFFICES ASSUME K # {} PROVE FALSE
      OBVIOUS
    <2>1. PICK d \in K : \A x \in K : d <= x
      BY LeastNumber
    <2>2. d \in Nat /\ n - d \in AcNodes /\ (n - d + 1)..n \subseteq AcBound /\ ac_keys[n - d].disabled
      OBVIOUS
    <2>3. d # 0
      BY <1>1, <1>3, <2>2
    <2> DEFINE j == n - d + 1
    <2>4. /\ d - 1 \in Nat /\ n - (d - 1) = j /\ j - 1 = n - d
          /\ j \in 1..n /\ j \in (n - d + 1)..n /\ j <= n
      BY <1>1, <2>2, <2>3
    <2>5. j \in AcNodes
      BY <1>1, <2>4, AcNumbers
    <2>6. (j + 1)..n \subseteq AcBound
      BY <1>1, <2>2, <2>4
    <2> HIDE DEF j
    <2>7. d - 1 \notin K
      BY <2>1, <2>2, <2>3
    <2>8. ~ ac_keys[j].disabled
      BY <2>4, <2>5, <2>6, <2>7
    <2>9. ~ ac_keys[j - 1].disabled
      BY <1>5, <2>2, <2>4, <2>5, <2>8
    <2> QED
      BY <2>2, <2>4, <2>9
  <1>7. ASSUME NEW w \in AcNodes, w <= n, (w + 1)..n \subseteq AcBound
        PROVE  ~ ac_keys[w].disabled
    <2>1. n - w \in Nat /\ n - (n - w) = w
      BY <1>1, <1>7
    <2>2. n - w \notin K
      BY <1>6
    <2> HIDE DEF K
    <2> QED
      BY <1>7, <2>1, <2>2 DEF K
  <1>8. Lineage(n, ac_keys)
    <2> SUFFICES ASSUME NEW j \in AcNodes, j <= n, j..n \subseteq AcBound
                 PROVE  ac_keys[j - 1] = ac_keys[j].binding
      BY DEF Lineage
    <2>1. (j + 1)..n \subseteq AcBound /\ j \in AcBound
      BY <1>1
    <2> QED
      BY <1>5, <1>7, <2>1
  <1> QED
    BY <1>1, <1>7, <1>8 DEF n

(* Bindings lead from a key to one key of each node before.                *)
LEMMA SameLineage ==
    ASSUME NEW n \in AcNodes, NEW ks, NEW ls, Lineage(n, ks), Lineage(n, ls), ks[n] = ls[n],
           NEW w \in AcNodes, w < n, (w + 1)..n \subseteq AcBound
    PROVE  ks[w] = ls[w]
  <1> DEFINE K == {d \in Nat : n - d \in w..n /\ ks[n - d] # ls[n - d]}
  <1>1. \A m \in AcNodes : m \in Nat /\ m > 0
    BY AcNumbers
  <1>2. K = {}
    <2> SUFFICES ASSUME K # {} PROVE FALSE
      OBVIOUS
    <2>1. PICK d \in K : \A x \in K : d <= x
      BY LeastNumber
    <2>2. d \in Nat /\ n - d \in w..n /\ ks[n - d] # ls[n - d]
      OBVIOUS
    <2>3. d # 0
      BY <1>1, <2>2
    <2> DEFINE j == n - d + 1
    <2>4. /\ d - 1 \in Nat /\ n - (d - 1) = j /\ j - 1 = n - d
          /\ j \in 1..n /\ j \in w..n /\ j <= n
      BY <1>1, <2>2, <2>3
    <2>5. j \in AcNodes
      BY <1>1, <2>4, AcNumbers
    <2>6. j..n \subseteq AcBound
      BY <1>1, <2>2, <2>3, <2>4
    <2> HIDE DEF j
    <2>7. d - 1 \notin K
      BY <2>1, <2>2, <2>3
    <2>8. ks[j] = ls[j]
      BY <2>4, <2>7
    <2>9. ks[j - 1] = ks[j].binding /\ ls[j - 1] = ls[j].binding
      BY <2>4, <2>5, <2>6 DEF Lineage
    <2> QED
      BY <2>2, <2>4, <2>8, <2>9
  <1>3. n - w \in Nat /\ n - (n - w) = w /\ w \in w..n
    BY <1>1
  <1>4. n - w \notin K
    BY <1>2
  <1> HIDE DEF K
  <1> QED
    BY <1>3, <1>4 DEF K

(* What has been written has been written by one node last.                *)
LEMMA SomeLastWriter ==
    ASSUME NEW n \in Nat, NEW f, EarlierOutput(f, n)
    PROVE  \E w \in AcNodes : LastWriter(w, n, f)
  <1> DEFINE K == {d \in Nat : \E m \in AcNodes : m < n /\ AcOutput[m] = f /\ d = n - m}
  <1>1. \A m \in AcNodes : m \in Nat /\ m > 0
    BY AcNumbers
  <1>2. PICK m \in AcNodes : m < n /\ AcOutput[m] = f
    BY DEF EarlierOutput
  <1>3. n - m \in K
    BY <1>1, <1>2
  <1>4. PICK d \in K : \A x \in K : d <= x
    BY <1>3, LeastNumber
  <1>5. PICK w \in AcNodes : w < n /\ AcOutput[w] = f /\ d = n - w
    OBVIOUS
  <1>6. ASSUME NEW x \in AcNodes, w < x, x < n, AcOutput[x] = f
        PROVE  FALSE
    <2>1. n - x \in K
      BY <1>1, <1>6
    <2>2. d <= n - x
      BY <1>4, <2>1
    <2> HIDE DEF K
    <2> QED
      BY <1>1, <1>5, <1>6, <2>2
  <1> QED
    BY <1>5, <1>6 DEF LastWriter


(* What the node at hand is about to read is explained by its key.         *)
LEMMA SourceExplained ==
    ASSUME AcInv, ac_quiet, ac_pc \in {"prepare", "running"}, ac_todo = <<>>,
           ~ ac_keys[ac_at].disabled
    PROVE  Explains(ac_at, ac_keys, ac_cas, ac_tree[AcSource[ac_at]].data)
  <1> DEFINE n == ac_at
             src == AcSource[n]
             v == ac_tree[src].data
  <1>1. n \in AcNodes /\ Written = n
    BY DEF AcInv, AcTypeOK, Written
  <1>2. ac_keys[n] = KeyOf(n) /\ Known(n)
    BY <1>1 DEF AcInv, KeysOK, Passed
  <1>3. n \notin ac_uncached /\ KeyOf(n).paths = [i \in AcInputs[n] |-> ac_memo[i]]
    BY <1>1, <1>2, KeyFacts
  <1>4. ASSUME ~ EarlierOutput(src, n), NEW i \in AcInputs[n], src \in AcItems[i]
        PROVE  ac_keys[n].paths[i][src].of = v
    <2>1. src \notin ac_touched
      BY <1>1, <1>4 DEF AcInv, RunOK
    <2>2. ac_memo[i] # NoValue /\ i \in DOMAIN AcItems
      BY <1>1, <1>2, <1>3, AcAssumption DEF Known
    <2>3. ac_memo[i][src].of = v
      BY <1>4, <2>1, <2>2 DEF AcInv, ReadsOK, Tells
    <2> QED
      BY <1>2, <1>3, <2>3
  <1>5. ASSUME BindsProducers(n), NEW w \in AcNodes, LastWriter(w, n, src)
        PROVE  <<w, ac_keys[w]>> \in DOMAIN ac_cas /\ v = ac_cas[<<w, ac_keys[w]>>]
    <2>1. w < n /\ AcOutput[w] = src
      BY <1>5 DEF LastWriter
    <2>2. src \in UNION {AcItems[i] : i \in AcInputs[n]}
      BY <1>1, AcAssumption
    <2>3. (w + 1)..n \subseteq AcBound
      BY <1>5, <2>1, <2>2 DEF BindsProducers
    <2>4. ~ ac_keys[w].disabled
      BY <2>1, <2>3, BoundHaveKeys
    <2> QED
      BY <1>1, <1>5, <2>1, <2>4 DEF AcInv, RunOK
  <1> QED
    BY <1>4, <1>5 DEF Explains

(* A hit's entry and the files of the run have the same explanation.       *)
LEMMA HitsArePure ==
    ASSUME AcInv, ac_quiet, NEW n \in AcNodes, LookingUp(n), BindsProducers(n)
    PROVE  RestoresRun(n)
  <1> DEFINE src == AcSource[n]
             v == ac_tree[src].data
             p == <<n, ac_keys[n]>>
  <1>1. ac_at = n /\ ac_pc = "prepare" /\ ac_todo = <<>> /\ ~ ac_keys[n].disabled /\ p \in DOMAIN ac_cas
    BY DEF LookingUp, Hit
  <1>2. Explains(n, ac_keys, ac_cas, v) /\ Lineage(n, ac_keys)
    BY <1>1, SourceExplained, BoundHaveKeys
  <1>3. p[1] = n /\ p[2] = ac_keys[n]
    OBVIOUS
  <1> HIDE DEF p
  <1>4. Explained(n, ac_keys[n], ac_cas, ac_cas[p])
    BY <1>1, <1>3 DEF AcInv, StoreOK
  <1>5. PICK ks : Lineage(n, ks) /\ ks[n] = ac_keys[n] /\ Explains(n, ks, ac_cas, ac_cas[p])
    BY <1>4 DEF Explained
  <1>6. src \in UNION {AcItems[i] : i \in AcInputs[n]} /\ n \in Nat
    BY AcAssumption, AcNumbers
  <1>7. CASE ~ EarlierOutput(src, n)
    <2>1. PICK i \in AcInputs[n] : src \in AcItems[i]
      BY <1>6
    <2>2. ks[n].paths[i][src].of = ac_cas[p] /\ ac_keys[n].paths[i][src].of = v
      BY <1>2, <1>5, <1>7, <2>1 DEF Explains
    <2> QED
      BY <1>5, <2>2 DEF RestoresRun, p
  <1>8. CASE EarlierOutput(src, n)
    <2>1. PICK w \in AcNodes : LastWriter(w, n, src)
      BY <1>6, <1>8, SomeLastWriter
    <2>2. ac_cas[p] = ac_cas[<<w, ks[w]>>] /\ v = ac_cas[<<w, ac_keys[w]>>]
      BY <1>2, <1>5, <2>1 DEF Explains
    <2>3. w < n /\ (w + 1)..n \subseteq AcBound
      BY <1>6, <2>1 DEF LastWriter, BindsProducers
    <2>4. ks[w] = ac_keys[w]
      BY <1>2, <1>5, <2>3, SameLineage
    <2> QED
      BY <2>2, <2>4 DEF RestoresRun, p
  <1> QED
    BY <1>7, <1>8

(* A file is written.                                                      *)
LEMMA FileWritten ==
    ASSUME AcInv, NEW f \in AcFiles, NEW c \in AcContents, ac_tree' = Rewritten(f, c),
           f \in ac_touched', ac_touched \subseteq ac_touched',
           UNCHANGED <<ac_head, ac_disk, ac_session, ac_listed, ac_dirty, ac_item, ac_memo, ac_stat>>
    PROVE  /\ IndexesOK' /\ ReadsOK' /\ ac_tree' \in [AcFiles -> AcRows]
           /\ ac_tree'[f].data = c /\ \A g \in AcFiles : g # f => ac_tree'[g] = ac_tree[g]
  <1>1. /\ ac_tree'[f] = [data |-> c, stat |-> ac_tree[f].stat + 1]
        /\ \A g \in AcFiles : g # f => ac_tree'[g] = ac_tree[g]
    BY DEF AcInv, AcTypeOK, Rewritten
  <1>2. \A g \in AcFiles : ac_tree[g].stat \in Nat
    BY DEF AcInv, AcTypeOK, AcRows
  <1>3. ac_tree'[f].data = c /\ ac_tree'[f].stat = ac_tree[f].stat + 1
    BY <1>1
  <1>4. ac_tree' \in [AcFiles -> AcRows]
    <2>1. [data |-> c, stat |-> ac_tree[f].stat + 1] \in AcRows
      BY <1>2 DEF AcRows
    <2>2. ac_tree' = [ac_tree EXCEPT ![f] = [data |-> c, stat |-> ac_tree[f].stat + 1]]
      BY DEF Rewritten
    <2> QED
      BY <2>1, <2>2 DEF AcInv, AcTypeOK
  <1>5. ASSUME NEW e, NEW g \in AcFiles, EntryOK(e, ac_tree[g])
        PROVE  EntryOK(e, ac_tree'[g])
    <2>1. CASE g # f
      BY <1>1, <1>5, <2>1
    <2>2. CASE g = f /\ e # NoValue
      <3>1. e.stat \in Nat /\ e.stat <= ac_tree[f].stat
        BY <1>5, <2>2 DEF EntryOK
      <3>2. e.stat <= ac_tree'[f].stat /\ e.stat # ac_tree'[f].stat
        BY <1>2, <1>3, <3>1
      <3> QED
        BY <2>2, <3>1, <3>2 DEF EntryOK
    <2>3. CASE e = NoValue
      BY <2>3 DEF EntryOK
    <2> QED
      BY <2>1, <2>2, <2>3
  <1>6. IndexesOK'
    <2>1. ASSUME NEW index, IndexSound(index, ac_tree)
          PROVE  IndexSound(index, ac_tree')
      BY <1>5, <2>1 DEF IndexSound
    <2>2. ensure_index_session' = ensure_index_session
      BY DEF ensure_index_session
    <2> QED
      BY <2>1, <2>2 DEF AcInv, IndexesOK
  <1>7. ReadsOK'
    <2>1. ASSUME NEW ds, NEW fs, fs \subseteq AcFiles, Tells(ds, fs)
          PROVE  Tells(ds, fs)'
      BY <1>1, <2>1 DEF Tells
    <2>2. \A i \in DOMAIN AcItems : AcItems[i] \subseteq AcFiles
      BY AcAssumption
    <2>3. ac_dirty # NoValue => \A g \in AcFiles \ (ac_dirty \cup ac_touched') :
                                    g \in AcTracked /\ ac_head[g] = ac_tree'[g].data
      BY <1>1 DEF AcInv, ReadsOK
    <2>4. ac_stat # NoValue => ac_stat.stat <= ac_tree'[ac_stat.file].stat
      <3> SUFFICES ASSUME ac_stat # NoValue PROVE ac_stat.stat <= ac_tree'[ac_stat.file].stat
        OBVIOUS
      <3>1. /\ ac_stat.file \in AcFiles /\ ac_stat.stat \in Nat
            /\ ac_stat.stat <= ac_tree[ac_stat.file].stat
        BY DEF AcInv, ReadsOK
      <3> QED
        BY <1>1, <1>2, <1>3, <3>1
    <2>5. ac_listed # NoValue => \A g \in AcTracked \ ac_touched' : ac_listed[g] = ac_head[g]
      BY DEF AcInv, ReadsOK
    <2>6. \A i \in DOMAIN AcItems : ac_memo[i] # NoValue => Tells(ac_memo[i], AcItems[i])'
      BY <2>1, <2>2 DEF AcInv, ReadsOK
    <2>7. ac_item # NoValue => Tells(ac_item.got, DOMAIN ac_item.got)'
      BY <2>1 DEF AcInv, ReadsOK
    <2> QED
      BY <2>3, <2>4, <2>5, <2>6, <2>7 DEF AcInv, ReadsOK
  <1> QED
    BY <1>1, <1>3, <1>4, <1>6, <1>7


(* The run goes on to the next node, or ends.                              *)
LEMMA Completes ==
    ASSUME AcInv, NEW ok \in BOOLEAN, Complete(ok), ac_todo = <<>>, ac_pc # "idle",
           UNCHANGED <<ac_uncached, ac_keys, ac_memo>>
    PROVE  /\ KeysOK'
           /\ ac_at' \in AcNodes
           /\ \/ ac_todo' \in {<<>>, <<ac_at'>>}
              \/ ac_at' + 1 \in AcNodes /\ ac_todo' \in {<<ac_at' + 1>>, <<ac_at', ac_at' + 1>>}
           /\ ac_pc' = "flush" \/ (ac_pc' = "prepare" /\ ac_at' = ac_at + 1)
  <1>1. \A m \in AcNodes : m \in Nat /\ m > 0
    BY AcNumbers
  <1>2. ac_at \in AcNodes
    BY DEF AcInv, AcTypeOK
  <1>3. \A m : KeyOf(m)' = KeyOf(m) /\ (Known(m)' <=> Known(m))
    BY DEF KeyOf, Known
  <1>4. CASE ac_pc' = "flush" /\ UNCHANGED <<ac_at, ac_todo>>
    <2>1. \A m : Passed(m)' => Passed(m)
      BY <1>4 DEF Passed
    <2> QED
      BY <1>2, <1>3, <1>4, <2>1 DEF AcInv, KeysOK
  <1>5. CASE /\ ac_at + 1 \in AcNodes
             /\ ac_pc' = "prepare" /\ ac_at' = ac_at + 1
             /\ ac_todo' = ToPrepare(ac_at + 1, ac_keep_going)
    <2> DEFINE n == ac_at + 1
               two == IF ac_keep_going /\ n + 1 \in AcNodes
                      THEN IF ac_keys[n + 1] = NoValue THEN <<n + 1>> ELSE <<>> ELSE <<>>
    <2>1. ac_todo' = (IF ac_keys[n] = NoValue THEN <<n>> ELSE <<>>) \o two
      BY <1>5 DEF ToPrepare
    <2>2. two = <<>> \/ (two = <<n + 1>> /\ n + 1 \in AcNodes)
      OBVIOUS
    <2> HIDE DEF two
    <2>3. \A a, b : /\ <<a>> \o <<b>> = <<a, b>> /\ <<a>> \o <<>> = <<a>>
                    /\ <<>> \o <<b>> = <<b>> /\ <<>> \o <<>> = <<>>
      <3>1. ASSUME NEW a, NEW b PROVE <<a>> \o <<b>> = <<a, b>>
        <4> DEFINE s == <<a>> \o <<b>>
        <4>1. <<a>> \in Seq({a, b}) /\ <<b>> \in Seq({a, b})
          OBVIOUS
        <4>2. s \in Seq({a, b}) /\ Len(s) = 2 /\ s[1] = a /\ s[2] = b
          BY <4>1
        <4> HIDE DEF s
        <4>3. s = <<s[1], s[2]>>
          BY <4>2
        <4> QED
          BY <4>2, <4>3 DEF s
      <3>2. \A a : <<a>> \o <<>> = <<a>>
        OBVIOUS
      <3>3. \A b : <<>> \o <<b>> = <<b>>
        OBVIOUS
      <3>4. <<>> \o <<>> = <<>>
        OBVIOUS
      <3> QED
        BY <3>1, <3>2, <3>3, <3>4
    <2>4. \/ ac_todo' = <<>> /\ ac_keys[n] # NoValue
          \/ ac_todo' = <<n>>
          \/ ac_todo' = <<n, n + 1>> /\ n + 1 \in AcNodes
          \/ ac_todo' = <<n + 1>> /\ n + 1 \in AcNodes /\ ac_keys[n] # NoValue
      BY <2>1, <2>2, <2>3
    <2>5. \A a, b : Head(<<a>>) = a /\ Head(<<a, b>>) = a /\ <<a>> # <<>> /\ <<a, b>> # <<>>
      OBVIOUS
    <2>6. ac_todo' # <<>> => Head(ac_todo') = n \/ Head(ac_todo') = n + 1
      BY <2>4, <2>5
    <2>7. n \in Nat /\ ac_at \in Nat /\ n \in AcNodes
      BY <1>1, <1>2, <1>5
    <2>8. \A m \in AcNodes : m > n => ac_keys[m] = NoValue
      BY DEF AcInv, KeysOK
    <2>9. ASSUME NEW m \in AcNodes, Passed(m)'
          PROVE  Passed(m) \/ ac_keys[m] # NoValue
      <3>1. CASE m < n
        <4>1. m < ac_at \/ m = ac_at
          BY <1>1, <2>7, <3>1
        <4> QED
          BY <4>1 DEF Passed
      <3>2. CASE m = n
        <4>1. ac_todo' = <<>> \/ Head(ac_todo') # n
          BY <1>1, <1>5, <2>7, <2>9, <3>2 DEF Passed
        <4>2. ac_keys[n] # NoValue
          BY <2>4, <2>5, <4>1
        <4> QED
          BY <3>2, <4>2
      <3>3. m < n \/ m = n
        BY <1>5, <2>9 DEF Passed
      <3> QED
        BY <3>1, <3>2, <3>3
    <2>10. KeysOK'
      <3>1. \A m \in AcNodes : m > n + 1 => ac_keys[m] = NoValue
        BY <1>1, <2>7, <2>8
      <3>2. ac_todo' # <<>> => \A m \in AcNodes : m > Head(ac_todo') => ac_keys[m] = NoValue
        BY <1>1, <2>6, <2>7, <2>8, <3>1
      <3> HIDE DEF n
      <3> QED
        BY <1>3, <1>5, <2>9, <3>1, <3>2 DEF AcInv, KeysOK, n
    <2> QED
      BY <1>5, <2>4, <2>7, <2>10
  <1> QED
    BY <1>4, <1>5 DEF Complete

(* The output of the node at hand is written: those of the others stand,   *)
(* unless it is the same file.                                             *)
LEMMA OutputWritten ==
    ASSUME AcInv, ac_quiet, ac_pc \in {"prepare", "running"}, NEW tree,
           \A g \in AcFiles : g # AcOutput[ac_at] => tree[g] = ac_tree[g]
    PROVE  /\ \A f \in ac_touched \cup {AcOutput[ac_at]} : EarlierOutput(f, ac_at + 1)
           /\ \A m \in AcNodes : m < ac_at /\ ~ ac_keys[m].disabled =>
                /\ <<m, ac_keys[m]>> \in DOMAIN ac_cas
                /\ LastWriter(m, ac_at + 1, AcOutput[m]) =>
                      tree[AcOutput[m]].data = ac_cas[<<m, ac_keys[m]>>]
  <1>1. ac_at \in AcNodes /\ Written = ac_at /\ ac_at \in Nat
    BY AcNumbers DEF AcInv, AcTypeOK, Written
  <1>2. \A m \in AcNodes : m \in Nat /\ AcOutput[m] \in AcFiles
    BY AcNumbers, AcAssumption
  <1>3. ASSUME NEW f, EarlierOutput(f, ac_at)
        PROVE  EarlierOutput(f, ac_at + 1)
    <2>1. \A a, b \in Nat : a < b => a < b + 1
      OBVIOUS
    <2>2. PICK m \in AcNodes : m < ac_at /\ AcOutput[m] = f
      BY <1>3 DEF EarlierOutput
    <2>3. m < ac_at + 1
      BY <1>1, <1>2, <2>1, <2>2
    <2> QED
      BY <2>2, <2>3 DEF EarlierOutput
  <1>4. EarlierOutput(AcOutput[ac_at], ac_at + 1)
    BY <1>1 DEF EarlierOutput
  <1>5. \A f \in ac_touched : EarlierOutput(f, ac_at)
    BY <1>1 DEF AcInv, RunOK
  <1>6. ASSUME NEW m \in AcNodes, m < ac_at, ~ ac_keys[m].disabled
        PROVE  /\ <<m, ac_keys[m]>> \in DOMAIN ac_cas
               /\ LastWriter(m, ac_at, AcOutput[m]) =>
                     ac_tree[AcOutput[m]].data = ac_cas[<<m, ac_keys[m]>>]
    BY <1>1, <1>6 DEF AcInv, RunOK
  <1>7. ASSUME NEW m \in AcNodes, m < ac_at, LastWriter(m, ac_at + 1, AcOutput[m])
        PROVE  LastWriter(m, ac_at, AcOutput[m]) /\ AcOutput[ac_at] # AcOutput[m]
    <2>1. \A x \in AcNodes : m < x /\ x < ac_at + 1 => AcOutput[x] # AcOutput[m]
      BY <1>7 DEF LastWriter
    <2>2. ac_at < ac_at + 1 /\ \A x \in AcNodes : x < ac_at => x < ac_at + 1
      BY <1>1, <1>2
    <2> QED
      BY <1>1, <1>7, <2>1, <2>2 DEF LastWriter
  <1> QED
    BY <1>2, <1>3, <1>4, <1>5, <1>6, <1>7


(* A hit writes the output and completes the node; else it is spawned.     *)
LEMMA AcLookups ==
    ASSUME AcInv, ac_lookup
    PROVE  AcInv'
  <1> DEFINE n == ac_at
             p == <<n, ac_keys[n]>>
             out == AcOutput[n]
  <1>1. ac_pc = "prepare" /\ ac_todo = <<>>
    BY DEF ac_lookup
  <1>2. UNCHANGED <<ac_uncached, ac_head, ac_disk, ac_cas, ac_keys, ac_memo, ac_item, ac_listed,
                    ac_dirty, ac_session, ac_stat, ac_quiet>>
    BY DEF ac_lookup, ac_local
  <1>3. n \in AcNodes /\ n \in Nat /\ out \in AcFiles
    BY AcNumbers, AcAssumption DEF AcInv, AcTypeOK
  <1>4. StoreOK'
    BY <1>2 DEF AcInv, StoreOK
  <1>5. CASE ~ Hit(n)
    <2>1. ac_pc' = "running" /\ UNCHANGED <<ac_tree, ac_touched, ac_at, ac_todo>>
      BY <1>5 DEF ac_lookup
    <2>2. AcTypeOK'
      BY <1>1, <1>2, <2>1 DEF AcInv, AcTypeOK
    <2>3. IndexesOK'
      BY <1>2, <2>1 DEF AcInv, IndexesOK, ensure_index_session
    <2>4. ReadsOK'
      <3>1. \A ds, fs : Tells(ds, fs)' <=> Tells(ds, fs)
        BY <2>1 DEF Tells
      <3> QED
        BY <1>2, <2>1, <3>1 DEF AcInv, ReadsOK
    <2>5. KeysOK'
      <3>1. \A m : KeyOf(m)' = KeyOf(m) /\ (Known(m)' <=> Known(m)) /\ (Passed(m)' <=> Passed(m))
        BY <1>1, <1>2, <2>1 DEF KeyOf, Known, Passed
      <3> QED
        BY <1>2, <2>1, <3>1 DEF AcInv, KeysOK
    <2>6. RunOK'
      <3>1. Hit(ac_at)' = Hit(n)
        BY <1>2, <2>1 DEF Hit
      <3>2. Written' = Written
        BY <1>1, <2>1 DEF Written
      <3> QED
        BY <1>1, <1>2, <1>5, <2>1, <3>1, <3>2 DEF AcInv, RunOK
    <2> QED
      BY <1>4, <2>2, <2>3, <2>4, <2>5, <2>6 DEF AcInv
  <1>6. CASE Hit(n)
    <2>1. /\ ac_tree' = Rewritten(out, ac_cas[p])
          /\ ac_touched' = ac_touched \cup {out}
          /\ Complete(TRUE)
      BY <1>6 DEF ac_lookup
    <2>2. p \in DOMAIN ac_cas /\ ac_cas[p] \in AcContents
      BY <1>6 DEF Hit, AcInv, AcTypeOK
    <2>3. /\ IndexesOK' /\ ReadsOK' /\ ac_tree' \in [AcFiles -> AcRows]
          /\ ac_tree'[out].data = ac_cas[p]
          /\ \A g \in AcFiles : g # out => ac_tree'[g] = ac_tree[g]
      BY <1>2, <1>3, <2>1, <2>2, FileWritten
    <2>4. /\ KeysOK'
          /\ ac_at' \in AcNodes
          /\ \/ ac_todo' \in {<<>>, <<ac_at'>>}
             \/ ac_at' + 1 \in AcNodes /\ ac_todo' \in {<<ac_at' + 1>>, <<ac_at', ac_at' + 1>>}
          /\ ac_pc' = "flush" \/ (ac_pc' = "prepare" /\ ac_at' = n + 1)
      BY <1>1, <1>2, <2>1, Completes
    <2>5. AcTypeOK'
      BY <1>2, <2>3, <2>4 DEF AcInv, AcTypeOK
    <2>6. RunOK'
      <3> SUFFICES ASSUME ac_quiet, ac_pc' = "prepare", ac_at' = n + 1
                   PROVE  /\ \A f \in ac_touched' : EarlierOutput(f, n + 1)
                          /\ \A m \in AcNodes : m < n + 1 /\ ~ ac_keys[m].disabled =>
                                /\ <<m, ac_keys[m]>> \in DOMAIN ac_cas
                                /\ LastWriter(m, n + 1, AcOutput[m]) =>
                                    ac_tree'[AcOutput[m]].data = ac_cas[<<m, ac_keys[m]>>]
        BY <1>2, <2>4 DEF RunOK, Written
      <3>1. /\ \A f \in ac_touched \cup {out} : EarlierOutput(f, n + 1)
            /\ \A m \in AcNodes : m < n /\ ~ ac_keys[m].disabled =>
                  /\ <<m, ac_keys[m]>> \in DOMAIN ac_cas
                  /\ LastWriter(m, n + 1, AcOutput[m]) =>
                        ac_tree'[AcOutput[m]].data = ac_cas[<<m, ac_keys[m]>>]
        BY <1>1, <2>3, OutputWritten
      <3>2. \A m \in AcNodes : m < n + 1 => m < n \/ m = n
        BY <1>3, AcNumbers
      <3> QED
        BY <2>1, <2>2, <2>3, <3>1, <3>2
    <2> QED
      BY <1>4, <2>3, <2>4, <2>5, <2>6 DEF AcInv
  <1> QED
    BY <1>5, <1>6

(* A child writes its output, or fails and ends the run.                   *)
LEMMA AcChildren ==
    ASSUME AcInv, NEW ok \in BOOLEAN, ac_child(ok)
    PROVE  AcInv'
  <1> DEFINE n == ac_at
             out == AcOutput[n]
             v == ac_tree[AcSource[n]].data
  <1>1. ac_pc = "running" /\ ac_todo = <<>>
    BY DEF ac_child, AcInv, AcTypeOK
  <1>2. UNCHANGED <<ac_uncached, ac_head, ac_disk, ac_cas, ac_keys, ac_memo, ac_item, ac_listed,
                    ac_dirty, ac_session, ac_stat, ac_quiet>>
    BY DEF ac_child, ac_local
  <1>3. n \in AcNodes /\ n \in Nat /\ out \in AcFiles /\ AcSource[n] \in AcFiles
    <2>1. n \in AcNodes /\ n \in Nat
      BY AcNumbers DEF AcInv, AcTypeOK
    <2>2. out \in AcFiles /\ AcSource[n] \in UNION {AcItems[i] : i \in AcInputs[n]}
      BY <2>1, AcAssumption
    <2>3. \A i \in AcInputs[n] : AcItems[i] \subseteq AcFiles
      BY <2>1, AcAssumption
    <2> QED
      BY <2>1, <2>2, <2>3
  <1>4. StoreOK'
    BY <1>2 DEF AcInv, StoreOK
  <1>5. CASE ~ ok
    <2>1. Complete(FALSE) /\ UNCHANGED <<ac_tree, ac_touched>>
      BY <1>5 DEF ac_child
    <2>2. ac_pc' = "flush" /\ UNCHANGED <<ac_at, ac_todo>>
      BY <2>1 DEF Complete
    <2>3. KeysOK'
      BY <1>1, <1>2, <2>1, Completes
    <2>4. AcTypeOK'
      BY <1>1, <1>2, <2>1, <2>2 DEF AcInv, AcTypeOK
    <2>5. IndexesOK'
      BY <1>2, <2>1 DEF AcInv, IndexesOK, ensure_index_session
    <2>6. ReadsOK'
      <3>1. \A ds, fs : Tells(ds, fs)' <=> Tells(ds, fs)
        BY <2>1 DEF Tells
      <3> QED
        BY <1>2, <2>1, <3>1 DEF AcInv, ReadsOK
    <2>7. RunOK'
      BY <2>2 DEF RunOK
    <2> QED
      BY <1>4, <2>3, <2>4, <2>5, <2>6, <2>7 DEF AcInv
  <1>6. CASE ok
    <2>1. /\ ac_tree' = Rewritten(out, v) /\ ac_touched' = ac_touched \cup {out}
          /\ ac_pc' = "save" /\ UNCHANGED <<ac_at, ac_todo>>
      BY <1>6 DEF ac_child
    <2>2. v \in AcContents
      BY <1>3 DEF AcInv, AcTypeOK, AcRows
    <2>3. /\ IndexesOK' /\ ReadsOK' /\ ac_tree' \in [AcFiles -> AcRows]
          /\ ac_tree'[out].data = v
          /\ \A g \in AcFiles : g # out => ac_tree'[g] = ac_tree[g]
      BY <1>2, <1>3, <2>1, <2>2, FileWritten
    <2>4. AcTypeOK'
      BY <1>1, <1>2, <2>1, <2>3 DEF AcInv, AcTypeOK
    <2>5. KeysOK'
      <3>1. \A m : KeyOf(m)' = KeyOf(m) /\ (Known(m)' <=> Known(m)) /\ (Passed(m)' <=> Passed(m))
        BY <1>1, <1>2, <2>1 DEF KeyOf, Known, Passed
      <3> QED
        BY <1>2, <2>1, <3>1 DEF AcInv, KeysOK
    <2>6. RunOK'
      <3>1. ~ Hit(ac_at)'
        BY <1>1, <1>2, <2>1 DEF AcInv, RunOK, Hit
      <3>2. ASSUME ac_quiet
            PROVE  /\ \A f \in ac_touched' : EarlierOutput(f, n + 1)
                   /\ \A m \in AcNodes : m < n /\ ~ ac_keys[m].disabled =>
                         /\ <<m, ac_keys[m]>> \in DOMAIN ac_cas
                         /\ LastWriter(m, n + 1, AcOutput[m]) =>
                              ac_tree'[AcOutput[m]].data = ac_cas[<<m, ac_keys[m]>>]
        BY <1>1, <2>1, <2>3, <3>2, OutputWritten
      <3>3. ASSUME ac_quiet, ~ ac_keys[n].disabled
            PROVE  Explains(n, ac_keys, ac_cas, v)
        BY <1>1, <3>3, SourceExplained
      <3>4. Written' = n + 1
        BY <2>1 DEF Written
      <3> HIDE DEF v, out
      <3> QED
        BY <1>2, <2>1, <2>3, <3>1, <3>2, <3>3, <3>4 DEF RunOK, out
    <2> QED
      BY <1>4, <2>3, <2>4, <2>5, <2>6 DEF AcInv
  <1> QED
    BY <1>5, <1>6


(* An output is saved under a key that the store does not have.            *)
LEMMA AcSaves ==
    ASSUME AcInv, save_workspace_cache
    PROVE  AcInv'
  <1> DEFINE n == ac_at
             p == <<n, ac_keys[n]>>
             v == ac_tree[AcOutput[n]].data
  <1>1. ac_pc = "save" /\ ac_todo = <<>> /\ Complete(TRUE)
    BY DEF save_workspace_cache, AcInv, AcTypeOK
  <1>2. UNCHANGED <<ac_uncached, ac_tree, ac_head, ac_disk, ac_keys, ac_memo, ac_item, ac_listed,
                    ac_dirty, ac_session, ac_stat, ac_touched, ac_quiet>>
    BY DEF save_workspace_cache, ac_local, ac_ghost
  <1>3. n \in AcNodes /\ n \in Nat /\ AcOutput[n] \in AcFiles
    BY AcNumbers, AcAssumption DEF AcInv, AcTypeOK
  <1>4. v \in AcContents
    BY <1>3 DEF AcInv, AcTypeOK, AcRows
  <1>5. ~ Hit(n) /\ Written = n + 1
    BY <1>1 DEF AcInv, RunOK, Written
  <1>6. ac_cas' = IF ac_keys[n].disabled THEN ac_cas ELSE With(ac_cas, p, v)
    BY DEF save_workspace_cache
  <1>7. ~ ac_keys[n].disabled => p \notin DOMAIN ac_cas
    BY <1>5 DEF Hit
  <1> HIDE DEF v
  <1>8. /\ \A q \in DOMAIN ac_cas : q \in DOMAIN ac_cas' /\ ac_cas'[q] = ac_cas[q]
        /\ \A q \in DOMAIN ac_cas' : q \in DOMAIN ac_cas \/ (q = p /\ ~ ac_keys[n].disabled)
        /\ ~ ac_keys[n].disabled => p \in DOMAIN ac_cas' /\ ac_cas'[p] = v
    BY <1>6, <1>7 DEF With
  <1>9. p = <<p[1], p[2]>> /\ p[1] = n /\ p[2] = ac_keys[n]
    OBVIOUS
  <1>10. \A m : m # n => <<m, ac_keys[m]>> # p
    OBVIOUS
  <1> HIDE DEF p
  <1>11. /\ KeysOK'
         /\ ac_at' \in AcNodes
         /\ \/ ac_todo' \in {<<>>, <<ac_at'>>}
            \/ ac_at' + 1 \in AcNodes /\ ac_todo' \in {<<ac_at' + 1>>, <<ac_at', ac_at' + 1>>}
         /\ ac_pc' = "flush" \/ (ac_pc' = "prepare" /\ ac_at' = n + 1)
    BY <1>1, <1>2, Completes
  <1>12. AcTypeOK'
    <2>1. ASSUME NEW q \in DOMAIN ac_cas'
          PROVE  q = <<q[1], q[2]>> /\ q[1] \in AcNodes /\ ac_cas'[q] \in AcContents
      <3>1. CASE q \in DOMAIN ac_cas
        BY <1>8, <3>1 DEF AcInv, AcTypeOK
      <3>2. CASE q = p /\ ~ ac_keys[n].disabled
        BY <1>3, <1>4, <1>8, <1>9, <3>2
      <3> QED
        BY <1>8, <3>1, <3>2
    <2> QED
      BY <1>2, <1>11, <2>1 DEF AcInv, AcTypeOK
  <1>13. IndexesOK'
    BY <1>2 DEF AcInv, IndexesOK, ensure_index_session
  <1>14. ReadsOK'
    <2>1. \A ds, fs : Tells(ds, fs)' <=> Tells(ds, fs)
      BY <1>2 DEF Tells
    <2> QED
      BY <1>2, <2>1 DEF AcInv, ReadsOK
  <1>15. ASSUME NEW m, NEW ks, NEW w, Explains(m, ks, ac_cas, w)
         PROVE  Explains(m, ks, ac_cas', w)
    BY <1>8, <1>15 DEF Explains
  <1>16. StoreOK'
    <2> SUFFICES ASSUME ac_quiet, NEW q \in DOMAIN ac_cas'
                 PROVE  Explained(q[1], q[2], ac_cas', ac_cas'[q])
      BY <1>2 DEF StoreOK
    <2>1. CASE q \in DOMAIN ac_cas
      <3>1. Explained(q[1], q[2], ac_cas, ac_cas[q])
        BY <2>1 DEF AcInv, StoreOK
      <3> QED
        BY <1>8, <1>15, <2>1, <3>1 DEF Explained
    <2>2. CASE q = p /\ ~ ac_keys[n].disabled
      <3>1. Explains(n, ac_keys, ac_cas, v)
        BY <1>1, <2>2 DEF AcInv, RunOK, v
      <3>2. Lineage(n, ac_keys)
        BY <1>1, <2>2, BoundHaveKeys
      <3>3. Explained(n, ac_keys[n], ac_cas', v)
        BY <1>15, <3>1, <3>2 DEF Explained
      <3> QED
        BY <1>8, <1>9, <2>2, <3>3
    <2> QED
      BY <1>8, <2>1, <2>2
  <1>17. RunOK'
    <2> SUFFICES ASSUME ac_quiet, ac_pc' = "prepare", ac_at' = n + 1
                 PROVE  /\ \A f \in ac_touched : EarlierOutput(f, n + 1)
                        /\ \A m \in AcNodes : m < n + 1 /\ ~ ac_keys[m].disabled =>
                              /\ <<m, ac_keys[m]>> \in DOMAIN ac_cas'
                              /\ LastWriter(m, n + 1, AcOutput[m]) =>
                                  ac_tree[AcOutput[m]].data = ac_cas'[<<m, ac_keys[m]>>]
      BY <1>2, <1>11 DEF RunOK, Written
    <2>1. /\ \A f \in ac_touched : EarlierOutput(f, n + 1)
          /\ \A m \in AcNodes : m < n /\ ~ ac_keys[m].disabled =>
                /\ <<m, ac_keys[m]>> \in DOMAIN ac_cas
                /\ LastWriter(m, n + 1, AcOutput[m]) =>
                      ac_tree[AcOutput[m]].data = ac_cas[<<m, ac_keys[m]>>]
      BY <1>1, <1>5 DEF AcInv, RunOK
    <2>2. \A m \in AcNodes : m < n + 1 => m < n \/ m = n
      BY <1>3, AcNumbers
    <2> QED
      BY <1>8, <2>1, <2>2 DEF p, v
  <1> QED
    BY <1>11, <1>12, <1>13, <1>14, <1>16, <1>17 DEF AcInv

(* The index is written, or the run is killed.                             *)
LEMMA AcFlushes ==
    ASSUME AcInv, NEW killed \in BOOLEAN, ac_flush(killed)
    PROVE  AcInv'
  <1>1. UNCHANGED <<ac_uncached, ac_tree, ac_head, ac_cas, ac_todo, ac_at, ac_keys, ac_memo, ac_item,
                    ac_listed, ac_dirty, ac_session, ac_stat, ac_touched, ac_quiet>>
    BY DEF ac_flush, ac_local, ac_ghost
  <1>2. ac_pc' = "idle" /\ (ac_disk' = ac_disk \/ ac_disk' = ensure_index_session)
    BY DEF ac_flush, ensure_index_session
  <1>3. AcTypeOK'
    BY <1>1, <1>2 DEF AcInv, AcTypeOK
  <1>4. IndexesOK'
    BY <1>1, <1>2 DEF AcInv, IndexesOK, ensure_index_session
  <1>5. ReadsOK'
    <2>1. \A ds, fs : Tells(ds, fs)' <=> Tells(ds, fs)
      BY <1>1 DEF Tells
    <2> QED
      BY <1>1, <2>1 DEF AcInv, ReadsOK
  <1>6. KeysOK'
    <2>1. \A m : KeyOf(m)' = KeyOf(m) /\ (Known(m)' <=> Known(m)) /\ ~ Passed(m)'
      BY <1>1, <1>2 DEF KeyOf, Known, Passed
    <2> QED
      BY <1>1, <2>1 DEF AcInv, KeysOK
  <1>7. StoreOK' /\ RunOK'
    BY <1>1, <1>2 DEF AcInv, StoreOK, RunOK
  <1> QED
    BY <1>3, <1>4, <1>5, <1>6, <1>7 DEF AcInv

(* The user edits or commits between two runs, or during one: then only    *)
(* what does not depend on a quiet user is left.                           *)
LEMMA AcUser ==
    ASSUME AcInv, (\E f \in AcFiles, c \in AcContents : ac_edit(f, c)) \/ ac_commit
    PROVE  AcInv'
  <1>1. UNCHANGED <<ac_uncached, ac_disk, ac_cas, ac_pc, ac_todo, ac_at, ac_keys, ac_memo, ac_item,
                    ac_listed, ac_dirty, ac_session, ac_stat>>
    BY DEF ac_edit, ac_commit, ac_local
  <1>2. ac_quiet' = (ac_quiet /\ ac_pc = "idle")
    BY DEF ac_edit, ac_commit
  <1>3. IndexesOK' /\ ReadsOK' /\ ac_tree' \in [AcFiles -> AcRows]
    <2>1. CASE \E f \in AcFiles, c \in AcContents : ac_edit(f, c)
      <3>1. PICK f \in AcFiles, c \in AcContents : ac_edit(f, c)
        BY <2>1
      <3>2. ac_tree' = Rewritten(f, c) /\ ac_touched' = ac_touched \cup {f} /\ ac_head' = ac_head
        BY <3>1 DEF ac_edit
      <3> QED
        BY <1>1, <3>2, FileWritten
    <2>2. CASE ac_commit
      <3>1. /\ ac_head' = [f \in AcTracked |-> ac_tree[f].data] /\ ac_tree' = ac_tree
            /\ ac_touched' = ac_touched \cup {f \in AcTracked : ac_head[f] # ac_tree[f].data}
        BY <2>2 DEF ac_commit
      <3>2. ASSUME NEW f \in AcTracked, f \notin ac_touched'
            PROVE  f \notin ac_touched /\ ac_head'[f] = ac_head[f]
        BY <3>1, <3>2
      <3>3. \A ds, fs : Tells(ds, fs) => Tells(ds, fs)'
        BY <3>1 DEF Tells
      <3>4. IndexesOK' /\ ac_tree' \in [AcFiles -> AcRows]
        BY <1>1, <3>1 DEF AcInv, AcTypeOK, IndexesOK, ensure_index_session
      <3>5. ac_listed # NoValue => \A f \in AcTracked \ ac_touched' : ac_listed[f] = ac_head'[f]
        BY <3>2 DEF AcInv, ReadsOK
      <3>6. ac_dirty # NoValue => \A f \in AcFiles \ (ac_dirty \cup ac_touched') :
                                      f \in AcTracked /\ ac_head'[f] = ac_tree[f].data
        BY <3>1, <3>2 DEF AcInv, ReadsOK
      <3> QED
        BY <1>1, <3>1, <3>3, <3>4, <3>5, <3>6 DEF AcInv, ReadsOK
    <2> QED
      BY <2>1, <2>2
  <1>4. AcTypeOK'
    BY <1>1, <1>3 DEF AcInv, AcTypeOK
  <1>5. KeysOK'
    BY <1>1, KeysFrame DEF AcInv
  <1>6. StoreOK'
    BY <1>1, <1>2 DEF AcInv, StoreOK
  <1>7. RunOK'
    <2>1. ac_quiet' => ac_pc' = "idle"
      BY <1>1, <1>2
    <2>2. Hit(ac_at)' <=> Hit(ac_at)
      BY <1>1 DEF Hit
    <2> QED
      BY <1>1, <2>1, <2>2 DEF AcInv, RunOK
  <1> QED
    BY <1>3, <1>4, <1>5, <1>6, <1>7 DEF AcInv

(* AcInv holds at every time.                                              *)
LEMMA AcInvariant == AcSpec => []AcInv
  <1>1. AcInit => AcInv
    BY AcInitial
  <1>2. ASSUME AcInv, [AcNext]_ac_vars
        PROVE  AcInv'
    <2>1. CASE \E kg \in BOOLEAN : ac_start(kg)
      BY <1>2, <2>1, AcStarts
    <2>2. CASE \/ \E i \in DOMAIN AcItems : digest_repo_path(i)
               \/ load_git_snapshot_list
               \/ load_git_snapshot_status
      BY <1>2, <2>2, AcReads
    <2>3. CASE \E f \in AcFiles : \/ digest_file_incremental_blob(f)
                                  \/ digest_file_incremental_reuse(f)
                                  \/ digest_file_incremental_stat(f)
      BY <1>2, <2>3, AcLeaves, AcStats
    <2>4. CASE digest_file_incremental_bytes \/ compute_dir \/ prepare_cas_inputs
      BY <1>2, <2>4, AcBytes, AcComputes, AcPrepares
    <2>5. CASE ac_lookup \/ save_workspace_cache \/ \E ok \in BOOLEAN : ac_child(ok)
      BY <1>2, <2>5, AcLookups, AcSaves, AcChildren
    <2>6. CASE \E killed \in BOOLEAN : ac_flush(killed)
      BY <1>2, <2>6, AcFlushes
    <2>7. CASE (\E f \in AcFiles, c \in AcContents : ac_edit(f, c)) \/ ac_commit
      BY <1>2, <2>7, AcUser
    <2>8. CASE UNCHANGED ac_vars
      <3>1. UNCHANGED <<ac_uncached, ac_tree, ac_head, ac_disk, ac_cas, ac_pc, ac_todo, ac_at, ac_keys,
                        ac_memo, ac_item, ac_listed, ac_dirty, ac_session, ac_stat, ac_touched, ac_quiet>>
        BY <2>8 DEF ac_vars, ac_store, ac_local, ac_ghost
      <3>2. AcTypeOK'
        BY <1>2, <3>1 DEF AcInv, AcTypeOK
      <3>3. IndexesOK'
        BY <1>2, <3>1 DEF AcInv, IndexesOK, ensure_index_session
      <3>4. ReadsOK'
        BY <1>2, <3>1 DEF AcInv, ReadsOK, Tells
      <3>5. KeysOK' /\ RunOK' /\ StoreOK'
        BY <1>2, <3>1, KeysFrame, RunFrame DEF AcInv
      <3> QED
        BY <3>2, <3>3, <3>4, <3>5 DEF AcInv
    <2> QED
      BY <1>2, <2>1, <2>2, <2>3, <2>4, <2>5, <2>6, <2>7, <2>8 DEF AcNext
  <1> QED
    BY <1>1, <1>2, PTL DEF AcSpec

(* However the durable index, the memo of the run, the status that was     *)
(* read once and the prefetch of successors interact with writes of the    *)
(* nodes and of the user, keys are about the files as they are, and what a *)
(* hit restores is what the node would have written.                       *)
THEOREM HitsPure == AcSpec => []BoundHitIsPure
  <1>1. ASSUME AcInv PROVE BoundHitIsPure
    <2>1. IndexHonest
      BY <1>1 DEF AcInv, IndexesOK, IndexSound, EntryOK, IndexHonest
    <2>2. KeyCurrent
      <3> SUFFICES ASSUME NEW n \in AcNodes, ac_keys[n] # NoValue, ~ ac_keys[n].disabled,
                          NEW i \in AcInputs[n], NEW f \in AcItems[i] \ ac_touched
                   PROVE  ac_keys[n].paths[i][f].of = ac_tree[f].data
        BY DEF KeyCurrent
      <3>1. ac_keys[n] = KeyOf(n) /\ Known(n)
        BY <1>1 DEF AcInv, KeysOK
      <3>2. n \notin ac_uncached /\ ac_keys[n].paths[i] = ac_memo[i]
        <4>1. ~ KeyOf(n).disabled
          BY <3>1
        <4>2. n \notin ac_uncached /\ KeyOf(n).paths = [j \in AcInputs[n] |-> ac_memo[j]]
          BY <4>1, KeyFacts
        <4> QED
          BY <3>1, <4>2
      <3>3. ac_memo[i] # NoValue /\ i \in DOMAIN AcItems
        BY <3>1, <3>2, AcAssumption DEF Known
      <3> QED
        BY <1>1, <3>2, <3>3 DEF AcInv, ReadsOK, Tells
    <2>3. ac_quiet => \A n \in AcNodes : LookingUp(n) /\ BindsProducers(n) => RestoresRun(n)
      BY <1>1, HitsArePure
    <2> QED
      BY <2>1, <2>2, <2>3 DEF BoundHitIsPure
  <1> QED
    BY <1>1, AcInvariant, PTL

=============================================================================
