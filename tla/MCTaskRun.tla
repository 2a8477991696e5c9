----------------------------- MODULE MCTaskRun -----------------------------
(***************************************************************************)
(* Instances of TaskRun for TLC.                                           *)
(***************************************************************************)
EXTENDS TaskRun

RunNodes == 1..3

RunGraphs == {<<{}, {1}, {}>>, <<{}, {}, {1, 2}>>}

(* Three nodes, two of them in a chain or all in a join; and three without *)
(* dependencies, of which 1 and 3 share a lock or 3 is interactive.        *)
RunPlans ==
    [dependsOn      : RunGraphs,
     interactive    : {<<FALSE, FALSE, FALSE>>},
     cpu            : {<<0, 0, 0>>},
     memory         : {<<0, 0, 0>>},
     exclusive      : {<<{}, {}, {}>>},
     failure_policy : Policies]
    \cup
    {[dependsOn      |-> <<{}, {}, {}>>,
      interactive    |-> <<FALSE, FALSE, i>>,
      cpu            |-> <<0, 0, 0>>,
      memory         |-> <<0, 0, 0>>,
      exclusive      |-> IF i THEN <<{}, {}, {}>> ELSE <<{"x"}, {}, {"x"}>>,
      failure_policy |-> "FailFast"] : i \in BOOLEAN}

(* A chain beside an independent node, and a join, with no locks.          *)
PlainPlans ==
    [dependsOn      : RunGraphs,
     interactive    : {<<FALSE, FALSE, FALSE>>},
     cpu            : {<<0, 0, 0>>},
     memory         : {<<0, 0, 0>>},
     exclusive      : {<<{}, {}, {}>>},
     failure_policy : Policies]

TimeoutPlans ==
    {p \in PlainPlans : p.failure_policy = IF p.dependsOn[2] = {} THEN "KeepGoing" ELSE "FailFast"}

UnderConditions(early, timed, cacheable, requests) ==
    [piped |-> RunNodes, earlyClose |-> early, timed |-> timed, cacheable |-> cacheable,
     requests |-> requests, lasting |-> timed # {}]

(* Runs that the user and the watch session disturb, and runs of nodes     *)
(* with a time limit that may never exit by themselves.  No other node     *)
(* waits for 3, so that its cache hit unlocks none.                        *)
Disturbed == UnderConditions({1}, {}, {}, {"Interrupt", "Restart", "Stop"})
TimeLimited == UnderConditions({}, RunNodes, {3}, {})
MCConditions == {Disturbed, TimeLimited}
MCRunPlans == RunPlans \cup TimeoutPlans

CachedConditions == {UnderConditions({}, {}, RunNodes, {})}

MCRunInit ==
    /\ RunInit
    /\ plan \in IF conditions = Disturbed THEN RunPlans ELSE TimeoutPlans

MCRunSpec == MCRunInit /\ [][RunNext]_<<runVars, conditions>> /\ RunFairness

=============================================================================
