------------------------------ MODULE TaskDag ------------------------------
(***************************************************************************)
(* What running a task graph promises, without a ready queue, counters,    *)
(* slots, locks or pools: the contract that crates/nxr-task/src/           *)
(* plan_exec.rs and scheduler.rs document for an ExecutionPlan.            *)
(***************************************************************************)
EXTENDS FiniteSets

CONSTANTS Nodes, Plans

VARIABLES plan, status

dagVars == <<plan, status>>

Statuses == {"waiting", "running", "succeeded", "failed", "dropped"}

(* The nodes that need n, directly or through others.                      *)
Descendants(n) ==
    LET closed(S) == \A d \in S \cup {n} :
                        \A m \in Nodes : d \in plan.dependsOn[m] => m \in S
    IN  {m \in Nodes : \A S \in SUBSET Nodes : closed(S) => m \in S}

(* A failure takes down everything that has not started (fail-fast), or    *)
(* everything that needs the failed node and nothing else (keep-going).    *)
Lost(n) ==
    {m \in Nodes : /\ status[m] = "waiting"
                   /\ plan.failure_policy = "KeepGoing" => m \in Descendants(n)}

Init ==
    /\ plan \in Plans
    /\ status = [n \in Nodes |-> "waiting"]

Start(n) ==
    /\ status[n] = "waiting"
    /\ \A d \in plan.dependsOn[n] : status[d] = "succeeded"
    /\ plan.failure_policy = "FailFast" => \A m \in Nodes : status[m] # "failed"
    /\ status' = [status EXCEPT ![n] = "running"]
    /\ UNCHANGED plan

Succeed(n) ==
    /\ status[n] = "running"
    /\ status' = [status EXCEPT ![n] = "succeeded"]
    /\ UNCHANGED plan

Fail(n) ==
    /\ status[n] = "running"
    /\ status' = [m \in Nodes |-> IF m = n THEN "failed"
                                  ELSE IF m \in Lost(n) THEN "dropped"
                                  ELSE status[m]]
    /\ UNCHANGED plan

Next == \E n \in Nodes : Start(n) \/ Succeed(n) \/ Fail(n)

Spec == Init /\ [][Next]_dagVars

=============================================================================
