------------------------------ MODULE Affected ------------------------------
(***************************************************************************)
(* `nxr affected`: crates/nxr-affected/src/analyze.rs over the graph of    *)
(* graph.rs.  The apps and tasks that changed paths belong to are found by *)
(* their declared roots, and what depends on them is found by two passes   *)
(* of a queue; a node is popped in the order of its key.                   *)
(*                                                                         *)
(* The roots of a node are abstracted to how they meet the changed paths:  *)
(* "hit", "miss", "invalid" (a glob that does not compile) or "empty".     *)
(***************************************************************************)
EXTENDS Naturals, Sequences, FiniteSets

CONSTANTS
    AffApps,    \* their keys app:... precede those of the tasks
    AffTasks,
    AffEdges,   \* the graphs: task -> the apps it runs and tasks it depends on
    NoStatus    \* not classified

ASSUME AffAssumption ==
    /\ AffApps \cup AffTasks \subseteq Nat /\ IsFiniteSet(AffApps \cup AffTasks)
    /\ \A a \in AffApps, t \in AffTasks : a < t
    /\ AffEdges \subseteq [AffTasks -> SUBSET (AffApps \cup AffTasks)]
    /\ NoStatus \notin {"Affected", "Unaffected", "Unknown"}

AffNodes == AffApps \cup AffTasks
RootKinds == {"hit", "miss", "invalid", "empty"}

VARIABLES
    aff_needs,    \* the graph
    aff_roots,    \* node -> how its roots meet the changed paths
    aff_global,   \* a changed path is flake.nix, flake.lock or *.nix
    aff_status,   \* node -> its status
    aff_queue,    \* of propagate_dependencies
    aff_seen,     \* `enqueued`
    aff_pc

aff_input == <<aff_needs, aff_roots, aff_global>>
aff_vars == <<aff_input, aff_status, aff_queue, aff_seen, aff_pc>>

(* reverse_dependencies                                                    *)
reverse_dependencies(n) == {t \in AffTasks : n \in aff_needs[t]}

(* mark_global_affected or classify_path_hits: empty roots wait.           *)
Classified ==
    IF aff_global THEN [n \in AffNodes |-> "Affected"]
    ELSE [n \in AffNodes |-> CASE aff_roots[n] = "hit" -> "Affected"
                               [] aff_roots[n] = "miss" -> "Unaffected"
                               [] aff_roots[n] = "invalid" -> "Unknown"
                               [] OTHER -> NoStatus]

(* A graph without changed paths is left out: all of it is Unaffected.     *)
AffInit ==
    /\ aff_needs \in AffEdges
    /\ aff_roots \in [AffNodes -> RootKinds]
    /\ aff_global \in BOOLEAN
    /\ aff_status = Classified
    /\ aff_queue = <<>> /\ aff_seen = {}
    /\ aff_pc = "first"

(* propagate_dependencies starts with what is Affected or Unknown, in the  *)
(* order of the keys.                                                      *)
Marked == {n \in AffNodes : aff_status[n] \in {"Affected", "Unknown"}}

(* S in that order: the i-th has i - 1 before it.                          *)
InKeyOrder(S) ==
    [i \in 1..Cardinality(S) |-> CHOOSE n \in S : Cardinality({m \in S : m < n}) = i - 1]

propagate(from, to) ==
    /\ aff_pc = from
    /\ aff_queue' = InKeyOrder(Marked) /\ aff_seen' = Marked
    /\ aff_pc' = to
    /\ UNCHANGED <<aff_input, aff_status>>

(* Fault: an app that is not known makes the tasks that run it so.         *)
Raised_any_kind(n, old) ==
    CASE aff_status[n] = "Affected" -> "Affected"
      [] aff_status[n] = "Unknown" /\ old # "Affected" -> "Unknown"
      [] OTHER -> old

(* Fault: a task that is not affected itself stays as it is.               *)
Raised_undecided_only(n, old) ==
    IF old = "Unaffected" THEN old ELSE Raised_any_kind(n, old)

(* The status that a dependent with status `old` gets from node n.         *)
Raised(n, old) ==
    CASE aff_status[n] = "Affected" -> "Affected"
      [] aff_status[n] = "Unknown" /\ n \in AffTasks /\ old # "Affected" -> "Unknown"
      [] OTHER -> old

(* One node is popped; a dependent that changes is queued if it never was. *)
pop_front(pass, after) ==
    /\ aff_pc = pass
    /\ IF aff_queue = <<>>
       THEN aff_pc' = after /\ UNCHANGED <<aff_status, aff_queue, aff_seen>>
       ELSE LET n == Head(aff_queue)
                changed == {c \in reverse_dependencies(n) : Raised(n, aff_status[c]) # aff_status[c]}
            IN /\ aff_status' = [c \in AffNodes |->
                      IF c \in changed THEN Raised(n, aff_status[c]) ELSE aff_status[c]]
               /\ aff_queue' = Tail(aff_queue) \o InKeyOrder(changed \ aff_seen)
               /\ aff_seen' = aff_seen \cup changed
               /\ UNCHANGED aff_pc
    /\ UNCHANGED aff_input

(* Empty roots that no dependency decided are unknown, and that propagates.*)
finalize_empty_roots ==
    /\ aff_pc = "finalize"
    /\ IF aff_global THEN aff_pc' = "done" /\ UNCHANGED aff_status
       ELSE /\ aff_status' = [n \in AffNodes |->
                  IF aff_status[n] = NoStatus THEN "Unknown" ELSE aff_status[n]]
            /\ aff_pc' = "second"
    /\ UNCHANGED <<aff_input, aff_queue, aff_seen>>

AffNext ==
    \/ propagate("first", "pass1") \/ pop_front("pass1", "finalize")
    \/ finalize_empty_roots
    \/ propagate("second", "pass2") \/ pop_front("pass2", "done")

AffSpec == AffInit /\ [][AffNext]_aff_vars

(* collect_results: what a run with or without --strict is told to do.     *)
include_in_lists(strict) ==
    {n \in AffNodes : aff_status[n] = "Affected" \/ (strict /\ aff_status[n] = "Unknown")}

-----------------------------------------------------------------------------
(* The reference: the nodes that depend on S, directly or not, are the     *)
(* least set that has S and whatever depends on one of its nodes.          *)
ClosedUp(T) == \A n \in T : reverse_dependencies(n) \subseteq T
Closure(S) == {n \in AffNodes : \A T \in SUBSET AffNodes : S \subseteq T /\ ClosedUp(T) => n \in T}

HitNodes == {n \in AffNodes : aff_global \/ aff_roots[n] = "hit"}

(* With --strict nothing that a change can reach is left out: neither what *)
(* depends on a node that owns a changed path, through however many nodes  *)
(* and whatever the order of the queue, nor what depends on a task whose   *)
(* own paths are not known.                                                *)
StrictIsSound ==
    aff_pc = "done" =>
        /\ Closure(HitNodes) \subseteq include_in_lists(TRUE)
        /\ Closure({t \in AffTasks : aff_roots[t] \in {"invalid", "empty"}})
              \subseteq include_in_lists(TRUE)

(* Without --strict nothing is run that the change cannot reach, and an    *)
(* app without paths does not make the tasks that run it unknown.          *)
NothingExtra ==
    aff_pc = "done" /\ ~ aff_global =>
        /\ include_in_lists(FALSE) \subseteq Closure(HitNodes)
        /\ include_in_lists(TRUE) \subseteq
              Closure(HitNodes) \cup {a \in AffApps : aff_roots[a] # "miss"}
                 \cup Closure({t \in AffTasks : aff_roots[t] \in {"invalid", "empty"}})

(* docs/TASKS.md: "unknown classification unless a dependency forces       *)
(* affected".  As long as every glob compiles, what depends on a node that *)
(* owns a changed path is run without --strict too, empty roots or not.    *)
DependencyForcesAffected ==
    aff_pc = "done" /\ (\A n \in AffNodes : aff_roots[n] # "invalid")
        => Closure(HitNodes) \subseteq include_in_lists(FALSE)

(* The lists hold what a change can reach and no more, in whatever order   *)
(* the queue takes the nodes.                                              *)
AffectedExact == StrictIsSound /\ NothingExtra /\ DependencyForcesAffected

=============================================================================
