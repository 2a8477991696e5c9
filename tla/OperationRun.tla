---------------------------- MODULE OperationRun ----------------------------
(***************************************************************************)
(* The executor of workflow tasks: run_operation_plan_callbacks in         *)
(* crates/nxr-task/src/execute.rs.  It asks the Scheduler for every node   *)
(* that may start and then runs them one after the other, so a node is     *)
(* "running" for the scheduler before its turn comes, and other nodes of   *)
(* the batch may fail before it.                                           *)
(*                                                                         *)
(*   loop      is_finished, schedule_ready                                 *)
(*   batch     the for loop over the started ids, in their order           *)
(*   returned  Ok, after the run_completed event                           *)
(*   error     Err                                                         *)
(***************************************************************************)
EXTENDS Scheduler, Sequences

CONSTANTS
    OtherHosts,  \* sets of nodes that may be for another platform
    Unrunnable   \* nodes without an operation, an input or an executor

VARIABLES
    op_other,      \* the nodes of the plan that are for another platform
    op_at, op_batch,
    op_order,      \* the ids that ran, as OperationRun::order
    op_failure,    \* first_failure
    op_finished,   \* node -> outcomes of its node_finished events
    op_success     \* what run_completed said

op_vars == <<op_other, op_at, op_batch, op_order, op_failure, op_finished, op_success>>

NoFailure == -1

OperationInit ==
    /\ op_other \in OtherHosts
    /\ op_at = "loop" /\ op_batch = {}
    /\ op_order = <<>> /\ op_failure = NoFailure
    /\ op_finished = [n \in Nodes |-> <<>>] /\ op_success = "none"

(* Top of the loop: schedule_ready unless the scheduler is finished.       *)
OperationSchedule ==
    /\ op_at = "loop" /\ ~ (pc = "call" /\ is_finished)
    /\ Scheduling
    /\ op_at' = IF pc' = "wait" THEN "batch" ELSE "loop"
    /\ op_batch' = started'
    /\ UNCHANGED <<op_order, op_failure, op_finished, op_success, op_other>>

(* Nothing was started, or nothing is left: the loop ends.                 *)
OperationEnd ==
    /\ \/ op_at = "loop" /\ pc = "call" /\ is_finished
       \/ op_at = "batch" /\ started = {}
    /\ op_success' = ((\A n \in Nodes : states[n] = "Succeeded") /\ op_failure = NoFailure)
    /\ op_at' = "returned"
    /\ UNCHANGED <<vars, op_batch, op_order, op_failure, op_finished, op_other>>

BatchEnds ==
    /\ op_at = "batch" /\ op_batch = {} /\ started # {}
    /\ op_at' = "loop"
    /\ UNCHANGED <<vars, op_batch, op_order, op_failure, op_finished, op_success, op_other>>

(* The next id of the batch; ids are started in their order.               *)
Turn(n) == op_at = "batch" /\ n \in op_batch /\ \A m \in op_batch : n <= m

Report(n, outcome) == op_finished' = [op_finished EXCEPT ![n] = Append(@, outcome)]

(* Fault: the node is reported and the scheduler is not told.              *)
HostSkip_untold(n) ==
    /\ Turn(n) /\ n \in op_other
    /\ Report(n, "skipped")
    /\ op_batch' = op_batch \ {n}
    /\ pc' = "call"
    /\ UNCHANGED <<plan, states, remaining_deps, ready, running, resources,
                   fail_fast_tripped, started, op_at, op_order, op_failure, op_success, op_other>>

(* host_skip_reason: the node counts as a success for its dependents.      *)
HostSkip(n) ==
    /\ Turn(n) /\ n \in op_other
    /\ on_exit(n, 0)
    /\ Report(n, "skipped")
    /\ op_batch' = op_batch \ {n}
    /\ UNCHANGED <<op_at, op_order, op_failure, op_success, op_other>>

(* The node has no operation, or an input that cannot be materialized: Err *)
(* before the node_started event, and no other.                            *)
PrepareFails(n) ==
    /\ Turn(n) /\ n \in Unrunnable \ op_other
    /\ op_at' = "error"
    /\ UNCHANGED <<vars, op_batch, op_order, op_failure, op_finished, op_success, op_other>>

(* The executor is not available or cannot spawn the program: the node is  *)
(* reported as failed, and the run ends with Err.                          *)
ExecutorFails(n) ==
    /\ Turn(n) /\ n \in Unrunnable \ op_other
    /\ Report(n, "failed")
    /\ op_at' = "error"
    /\ UNCHANGED <<vars, op_batch, op_order, op_failure, op_success, op_other>>

(* What the child's status becomes; a child killed by a signal has none.   *)
spawn_argv == {0, 1}

(* An artifact that is missing or cannot be published makes a success      *)
(* CHILD_FAILED.                                                           *)
record_artifacts(code) == IF code = 0 THEN {0, 1} ELSE {code}

FirstFailure(code) == IF code # 0 /\ op_failure = NoFailure THEN code ELSE op_failure

(* The operation exits and its artifacts are recorded.                     *)
Dispatch(n) ==
    /\ Turn(n) /\ n \notin op_other
    /\ \E status \in spawn_argv : \E code \in record_artifacts(status) :
          /\ op_failure' = FirstFailure(code)
          /\ on_exit(n, code)
          /\ Report(n, IF code = 0 THEN "succeeded" ELSE "failed")
    /\ op_order' = Append(op_order, n)
    /\ op_batch' = op_batch \ {n}
    /\ UNCHANGED <<op_at, op_success, op_other>>

OperationOver == op_at \in {"returned", "error"} /\ UNCHANGED <<vars, op_vars>>

OperationNext ==
    \/ OperationSchedule \/ OperationEnd \/ BatchEnds \/ OperationOver
    \/ \E n \in Nodes : HostSkip(n) \/ PrepareFails(n) \/ ExecutorFails(n) \/ Dispatch(n)

OperationSpec == Init /\ OperationInit /\ [][OperationNext]_<<vars, op_vars>>

-----------------------------------------------------------------------------

OperationExit == IF op_failure = NoFailure THEN 0 ELSE op_failure

(* A run that returns Ok has left no node behind, in flight or waiting,    *)
(* although the loop also ends when a call starts nothing; its exit code   *)
(* is 0 and run_completed says so exactly if every node succeeded or was   *)
(* skipped for the host; and each node that the scheduler started has been *)
(* reported once, with the outcome the scheduler has for it.               *)
OperationsSettled ==
    op_at = "returned" =>
        /\ \A n \in Nodes : is_terminal(states[n])
        /\ (OperationExit = 0) = (\A n \in Nodes : states[n] = "Succeeded")
        /\ op_success = (OperationExit = 0)
        /\ \A n \in Nodes :
              op_finished[n] =
                 CASE states[n] \in {"Cancelled", "Skipped"} -> <<>>
                   [] states[n] = "Failed"                   -> <<"failed">>
                   [] OTHER -> IF n \in op_other THEN <<"skipped">> ELSE <<"succeeded">>

=============================================================================
