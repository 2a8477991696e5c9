---------------------------- MODULE MCScheduler ----------------------------
(***************************************************************************)
(* Instances of Scheduler for TLC.                                         *)
(***************************************************************************)
EXTENDS Scheduler

MCAcyclic(ns, deps) ==
    \A S \in SUBSET ns : S # {} => \E n \in S : deps[n] \cap S = {}

Dags(ns) == {deps \in [ns -> SUBSET ns] : MCAcyclic(ns, deps)}

(* Every acyclic graph on four nodes, under both failure policies: the ids *)
(* are in every order relative to the edges.                               *)
GraphNodes == 1..4

GraphPlans ==
    [dependsOn      : Dags(GraphNodes),
     interactive    : {[n \in GraphNodes |-> FALSE]},
     cpu            : {[n \in GraphNodes |-> 0]},
     memory         : {[n \in GraphNodes |-> 0]},
     exclusive      : {[n \in GraphNodes |-> {}]},
     failure_policy : Policies]

(* Four nodes in two chains that compete for tokens, memory and two locks. *)
ResourceNodes == 1..4

Chains == [n \in ResourceNodes |-> IF n = 4 THEN {1} ELSE {}]

ResourcePlans ==
    [dependsOn      : {Chains},
     interactive    : {[n \in ResourceNodes |-> n \in S] : S \in {{}, {2}, {3}, {1, 4}}},
     cpu            : {[n \in ResourceNodes |-> IF n = i THEN c ELSE 0] :
                          i \in ResourceNodes, c \in {1, 2, 3}},
     memory         : {<<1, 2, 0, 1>>, <<0, 2, 2, 2>>, <<3, 0, 0, 0>>},
     exclusive      : {<<{"x"}, {"x", "y"}, {"y"}, {}>>,
                       <<{"x"}, {}, {"x"}, {"y"}>>,
                       <<{}, {}, {}, {}>>},
     failure_policy : Policies]

MCPlans == GraphPlans \cup ResourcePlans

=============================================================================
