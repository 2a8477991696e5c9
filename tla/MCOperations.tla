---------------------------- MODULE MCOperations ----------------------------
(***************************************************************************)
(* The plans of MCScheduler under two drivers: one that reports exits in   *)
(* any order, and, for the plans with resources, the executor of           *)
(* workflows, which runs one node of a batch after the other.  The other   *)
(* choices leave the scheduler at rest: one of the decisions that come     *)
(* before it is taken, or two children write to their pipes.               *)
(***************************************************************************)
EXTENDS MCScheduler, OperationRun, MCDecisions, PipeMultiplexer

VARIABLE driver

driver_vars == <<driver, vars, op_vars, decide_vars, mx_vars>>

(* The first child has a pipe that it closes early and one that it writes  *)
(* to; the second leaves a pipe to a grandchild.                           *)
MCStreams == <<"Stdout", "Stderr">>
MCKeepers == {<<2, "Stderr">>}
MCEarlyClosers == {<<1, "Stderr">>}
MCWriters == {<<1, "Stdout">>}

(* Children are interchangeable, events are read in the order of their     *)
(* tokens, and nothing is looked at after the end of the loop.             *)
MuxFirst ==
    /\ mx_pc \notin {"error", "returned"}
    /\ mx_child[2] = "none" \/ mx_child[1] # "none"
    /\ \A i, j \in DOMAIN mx_events' : i < j => mx_events'[i] < mx_events'[j]

(* The plan of a scheduler at rest.                                        *)
RestingPlan == CHOOSE p \in ResourcePlans : TRUE

DriverInit ==
    /\ driver \in {"exits", "operations", "decisions", "pipes"}
    /\ IF driver = "exits" THEN plan \in MCPlans
       ELSE IF driver = "operations" THEN plan \in ResourcePlans
       ELSE plan = RestingPlan
    /\ IF driver = "operations" THEN op_other \in OtherHosts ELSE op_other = {}
    /\ IF driver = "decisions" THEN decision \in Decisions ELSE decision = "none"
    /\ Init /\ OperationInit /\ DecideInit /\ MuxInit

DriverNext ==
    /\ UNCHANGED driver
    /\ \/ driver = "exits" /\ Next /\ UNCHANGED <<op_vars, decide_vars, mx_vars>>
       \/ driver = "operations" /\ OperationNext /\ UNCHANGED <<decide_vars, mx_vars>>
       \/ driver = "decisions" /\ DecideNext /\ UNCHANGED <<vars, op_vars, mx_vars>>
       \/ driver = "pipes" /\ MuxNext /\ MuxFirst /\ UNCHANGED <<vars, op_vars, decide_vars>>
       \/ driver \in {"decisions", "pipes"} /\ UNCHANGED <<vars, op_vars, decide_vars, mx_vars>>

DriverSpec == DriverInit /\ [][DriverNext]_driver_vars

=============================================================================
