---------------------------- MODULE SessionOwner ----------------------------
(***************************************************************************)
(* The session supervisor: crates/nxr-core/src/execution_owner.rs, called  *)
(* by the request threads of nxrd (daemon.rs).                             *)
(*                                                                         *)
(* Every request has a thread of its own and every run a thread that waits *)
(* for its child; they share the run records on disk and one file lock,    *)
(* admission.lock.  A body run by with_lock is split where the process may *)
(* die or a file may not be written, and other bodies wait for its end.    *)
(* The durable record is taken at the grain of its calls: journaled is the *)
(* status of its last journal line, durable that of its snapshot (module   *)
(* DurableRun has the inside of these calls).                              *)
(*                                                                         *)
(*   starter[r]    none reconcile admit | spawned stored | done            *)
(*   waiter[r]     none waiting reaped | stored | done, dead               *)
(*   canceller[r]  idle reconcile checked | signalled stored |             *)
(*                                                                         *)
(* Between the bars the thread holds admission.lock.  A memory budget      *)
(* works like the CPU budget and is left out; logs and events are not      *)
(* modelled.                                                               *)
(***************************************************************************)
EXTENDS Naturals, FiniteSets, FiniteSetsExt

CONSTANTS
    Runs,        \* run ids, each of one session start
    Cpu,         \* the cpu each start asks for
    Budget,      \* the cpu_budget the requests carry
    Remote,      \* runs with an attempt_id, cancelled remotely first
    MaxCrashes,  \* bound: how often the daemon dies
    Recycling,   \* may pids be given to other processes?
    Faults       \* what may fail: "spawn", "store", "durable"

ASSUME OwnerConstants ==
    /\ IsFiniteSet(Runs) /\ Cpu \in [Runs -> Nat] /\ Budget \in Nat
    /\ Remote \subseteq Runs /\ MaxCrashes \in Nat /\ Recycling \in BOOLEAN
    /\ Faults \subseteq {"spawn", "store", "durable"}

VARIABLES
    records,              \* the {id}.json files
    journaled, durable,   \* the durable record of a run
    proc,                 \* none, alive, zombie, reaped
    code,                 \* the exit code of a process that has exited
    recycled,             \* runs whose pid now is another process's
    up, crashes,          \* the daemon
    starter, waiter, canceller

threads == <<starter, waiter, canceller>>
kernel == <<proc, code, recycled>>
store == <<journaled, durable>>
daemon == <<up, crashes>>
vars == <<records, store, kernel, daemon, threads>>

Status == {"none", "refused", "running", "exited", "cancelled", "lost"}
Final == {"refused", "exited", "cancelled", "lost"}
NoCode == 9
NoRecord == [status |-> "none", exit_code |-> NoCode]

Init ==
    /\ records = [r \in Runs |-> NoRecord]
    /\ journaled = [r \in Runs |-> "none"] /\ durable = [r \in Runs |-> "none"]
    /\ proc = [r \in Runs |-> "none"] /\ code = [r \in Runs |-> NoCode]
    /\ recycled = {}
    /\ up = TRUE /\ crashes = 0
    /\ starter = [r \in Runs |-> "none"]
    /\ waiter = [r \in Runs |-> "none"]
    /\ canceller = [r \in Runs |-> "idle"]

-----------------------------------------------------------------------------
(* What the bodies are built from.                                         *)

InStart(r) == starter[r] \in {"spawned", "stored"}
InWait(r) == waiter[r] = "stored"
InCancel(r) == canceller[r] \in {"signalled", "stored"}
Locked == \E r \in Runs : InStart(r) \/ InWait(r) \/ InCancel(r)

(* Fault: the lock file is opened but not locked.                          *)
with_lock_unlocked == up

(* with_lock: a body begins when the daemon runs and no other body does.   *)
with_lock == up /\ ~ Locked

(* reserved: the cpu of the running records.                               *)
reserved ==
    MapThenSumSet(LAMBDA r : Cpu[r], {r \in Runs : records[r].status = "running"})

(* pid_alive, and capture_start_time gives the recorded start time.        *)
Still(r) == proc[r] \in {"alive", "zombie"}

(* The running records a reconcile pass marks as lost.                     *)
Gone == {r \in Runs : records[r].status = "running" /\ ~ Still(r)}

(* reconcile_once.                                                         *)
reconcile_once ==
    records' = [r \in Runs |-> IF r \in Gone
                               THEN [status |-> "lost", exit_code |-> NoCode]
                               ELSE records[r]]

Ended(status) == status \in {"Succeeded", "Failed", "Cancelled"}

(* Fault: the journal line of an earlier report is replaced.               *)
sync_terminal_replaces(r, status) ==
    /\ journaled' = [journaled EXCEPT ![r] = status]
    /\ durable' = [durable EXCEPT ![r] = status]

(* sync_supervisor_terminal_with_reconcile; its error is ignored.          *)
sync_terminal(r, status) ==
    LET lines == [journaled EXCEPT ![r] = IF Ended(@) THEN @ ELSE status]
    IN  \/ journaled' = lines /\ durable' = [durable EXCEPT ![r] = status]
        \/ "durable" \in Faults /\ journaled' \in {journaled, lines} /\ UNCHANGED durable

-----------------------------------------------------------------------------
(* start.                                                                  *)

StartRequest(r) ==
    /\ up /\ starter[r] = "none"
    /\ starter' = [starter EXCEPT ![r] = "reconcile"]
    /\ UNCHANGED <<records, store, kernel, daemon, waiter, canceller>>

(* reconcile_with_limit: passes, until one changes nothing.                *)
StartReconcile(r) ==
    /\ starter[r] = "reconcile" /\ with_lock
    /\ reconcile_once
    /\ starter' = [starter EXCEPT ![r] = IF Gone = {} THEN "admit" ELSE "reconcile"]
    /\ UNCHANGED <<store, kernel, daemon, waiter, canceller>>

(* Over budget: a refused record, and an error.                            *)
Refuse(r) ==
    /\ starter[r] = "admit" /\ with_lock
    /\ reserved + Cpu[r] > Budget
    /\ records' = [records EXCEPT ![r].status = "refused"]
    /\ starter' = [starter EXCEPT ![r] = "done"]
    /\ UNCHANGED <<store, kernel, daemon, waiter, canceller>>

(* Within budget: the child is spawned in a process group of its own.      *)
Spawn(r) ==
    /\ starter[r] = "admit" /\ with_lock
    /\ reserved + Cpu[r] <= Budget
    /\ proc' = [proc EXCEPT ![r] = "alive"]
    /\ starter' = [starter EXCEPT ![r] = "spawned"]
    /\ UNCHANGED <<records, store, code, recycled, daemon, waiter, canceller>>

(* The child cannot be spawned, or the log or the refusal not be written.  *)
AdmitFails(r) ==
    /\ "spawn" \in Faults
    /\ starter[r] = "admit" /\ with_lock
    /\ starter' = [starter EXCEPT ![r] = "done"]
    /\ UNCHANGED <<records, store, kernel, daemon, waiter, canceller>>

(* store of the running record.                                            *)
StoreRunning(r) ==
    /\ starter[r] = "spawned"
    /\ records' = [records EXCEPT ![r].status = "running"]
    /\ starter' = [starter EXCEPT ![r] = "stored"]
    /\ UNCHANGED <<store, kernel, daemon, waiter, canceller>>

(* The record cannot be written: start returns, the child goes on.         *)
StoreFails(r) ==
    /\ "store" \in Faults
    /\ starter[r] = "spawned"
    /\ starter' = [starter EXCEPT ![r] = "done"]
    /\ UNCHANGED <<records, store, kernel, daemon, waiter, canceller>>

(* sync_supervisor_started; then the wait thread is spawned.               *)
SyncStarted(r) ==
    /\ starter[r] = "stored"
    /\ journaled' = [journaled EXCEPT ![r] = "Running"]
    /\ durable' = [durable EXCEPT ![r] = "Running"]
    /\ starter' = [starter EXCEPT ![r] = "done"]
    /\ waiter' = [waiter EXCEPT ![r] = "waiting"]
    /\ UNCHANGED <<records, kernel, daemon, canceller>>

(* It fails: the group gets SIGTERM and the files are removed.             *)
SyncStartedFails(r) ==
    /\ "durable" \in Faults
    /\ starter[r] = "stored"
    /\ records' = [records EXCEPT ![r] = NoRecord]
    /\ starter' = [starter EXCEPT ![r] = "done"]
    /\ UNCHANGED <<store, kernel, daemon, waiter, canceller>>

-----------------------------------------------------------------------------
(* The wait thread of a run.                                               *)

(* wait returns, and the pid is free.                                      *)
Reap(r) ==
    /\ waiter[r] = "waiting" /\ proc[r] = "zombie"
    /\ proc' = [proc EXCEPT ![r] = "reaped"]
    /\ waiter' = [waiter EXCEPT ![r] = "reaped"]
    /\ UNCHANGED <<records, store, code, recycled, daemon, starter, canceller>>

(* Fault: the exit overrides what was recorded before.                     *)
Exited_always(rec, c) == [status |-> "exited", exit_code |-> c]

(* Fault: a failing child keeps its record running.                        *)
Exited_success(rec, c) ==
    [status |-> IF rec.status = "running" /\ c = 0 THEN "exited" ELSE rec.status,
     exit_code |-> c]

(* What the wait thread makes of the record.                               *)
Exited(rec, c) ==
    [status |-> IF rec.status = "running" THEN "exited" ELSE rec.status,
     exit_code |-> c]

RecordExit(r) ==
    /\ waiter[r] = "reaped" /\ with_lock
    /\ records' = [records EXCEPT ![r] = Exited(@, code[r])]
    /\ waiter' = [waiter EXCEPT ![r] = "stored"]
    /\ UNCHANGED <<store, kernel, daemon, starter, canceller>>

(* The record cannot be written: the wait thread gives up.                 *)
RecordExitFails(r) ==
    /\ "store" \in Faults
    /\ waiter[r] = "reaped" /\ with_lock
    /\ waiter' = [waiter EXCEPT ![r] = "done"]
    /\ UNCHANGED <<records, store, kernel, daemon, starter, canceller>>

(* The durable outcome is written whatever the record's status is.         *)
SyncExit(r) ==
    /\ waiter[r] = "stored"
    /\ sync_terminal(r, IF code[r] = 0 THEN "Succeeded" ELSE "Failed")
    /\ waiter' = [waiter EXCEPT ![r] = "done"]
    /\ UNCHANGED <<records, kernel, daemon, starter, canceller>>

-----------------------------------------------------------------------------
(* cancel and list.                                                        *)

CancelRequest(r) ==
    /\ up /\ canceller[r] = "idle" /\ records[r].status # "none"
    /\ canceller' = [canceller EXCEPT ![r] = "reconcile"]
    /\ UNCHANGED <<records, store, kernel, daemon, starter, waiter>>

CancelReconcile(r) ==
    /\ canceller[r] = "reconcile" /\ with_lock
    /\ reconcile_once
    /\ canceller' = [canceller EXCEPT ![r] = IF Gone = {} THEN "checked" ELSE "reconcile"]
    /\ UNCHANGED <<store, kernel, daemon, starter, waiter>>

(* stop_group signals whatever group has the recorded pid.                 *)
Signal(r) ==
    /\ canceller[r] = "checked" /\ with_lock
    /\ records[r].status = "running"
    /\ Still(r) \/ r \in recycled
    /\ canceller' = [canceller EXCEPT ![r] = "signalled"]
    /\ UNCHANGED <<records, store, kernel, daemon, starter, waiter>>

(* The remote cancel is not confirmed, the run is not running, or there is *)
(* no such group: nothing changes.                                         *)
CancelReturns(r) ==
    /\ canceller[r] = "checked" /\ with_lock
    /\ \/ r \in Remote
       \/ records[r].status # "running"
       \/ ~ Still(r) /\ r \notin recycled
    /\ canceller' = [canceller EXCEPT ![r] = "idle"]
    /\ UNCHANGED <<records, store, kernel, daemon, starter, waiter>>

RecordCancel(r) ==
    /\ canceller[r] = "signalled"
    /\ records' = [records EXCEPT ![r].status = "cancelled"]
    /\ canceller' = [canceller EXCEPT ![r] = "stored"]
    /\ UNCHANGED <<store, kernel, daemon, starter, waiter>>

(* The record cannot be written, although the group has been signalled.    *)
RecordCancelFails(r) ==
    /\ "store" \in Faults
    /\ canceller[r] = "signalled"
    /\ canceller' = [canceller EXCEPT ![r] = "idle"]
    /\ UNCHANGED <<records, store, kernel, daemon, starter, waiter>>

SyncCancel(r) ==
    /\ canceller[r] = "stored"
    /\ sync_terminal(r, "Cancelled")
    /\ canceller' = [canceller EXCEPT ![r] = "idle"]
    /\ UNCHANGED <<records, kernel, daemon, starter, waiter>>

(* list: one reconcile pass.                                               *)
List ==
    /\ with_lock
    /\ reconcile_once
    /\ UNCHANGED <<store, kernel, daemon, threads>>

-----------------------------------------------------------------------------
(* Processes and the daemon.                                               *)

Exit(r) ==
    /\ proc[r] = "alive"
    /\ proc' = [proc EXCEPT ![r] = "zombie"]
    /\ \E c \in {0, 1} : code' = [code EXCEPT ![r] = c]
    /\ UNCHANGED <<records, store, recycled, daemon, threads>>

(* Children of a dead daemon are reaped by init.                           *)
InitReaps(r) ==
    /\ proc[r] = "zombie" /\ waiter[r] = "dead"
    /\ proc' = [proc EXCEPT ![r] = "reaped"]
    /\ UNCHANGED <<records, store, code, recycled, daemon, threads>>

Recycle(r) ==
    /\ Recycling /\ proc[r] = "reaped" /\ r \notin recycled
    /\ recycled' = recycled \cup {r}
    /\ UNCHANGED <<records, store, proc, code, daemon, threads>>

(* The daemon dies or is stopped: its threads are gone, the children stay. *)
Crash ==
    /\ up /\ crashes < MaxCrashes
    /\ up' = FALSE /\ crashes' = crashes + 1
    /\ starter' = [r \in Runs |-> IF starter[r] = "none" THEN "none" ELSE "done"]
    /\ waiter' = [r \in Runs |-> IF proc[r] = "none" THEN "none" ELSE "dead"]
    /\ canceller' = [r \in Runs |-> "idle"]
    /\ UNCHANGED <<records, store, kernel>>

(* serve reconciles before it accepts the first request.                   *)
Restart ==
    /\ ~ up
    /\ up' = TRUE
    /\ reconcile_once
    /\ UNCHANGED <<store, kernel, crashes, threads>>

(* The steps of a request's thread once it has begun.                      *)
Start(r) ==
    StartReconcile(r) \/ Refuse(r) \/ Spawn(r) \/ AdmitFails(r) \/ StoreRunning(r)
        \/ StoreFails(r) \/ SyncStarted(r) \/ SyncStartedFails(r)

Wait(r) == Reap(r) \/ RecordExit(r) \/ RecordExitFails(r) \/ SyncExit(r)

Cancel(r) ==
    CancelReconcile(r) \/ Signal(r) \/ CancelReturns(r) \/ RecordCancel(r)
        \/ RecordCancelFails(r) \/ SyncCancel(r)

Next ==
    \/ \E r \in Runs : StartRequest(r) \/ CancelRequest(r)
                        \/ Start(r) \/ Wait(r) \/ Cancel(r)
                        \/ Exit(r) \/ InitReaps(r) \/ Recycle(r)
    \/ List \/ Crash \/ Restart

Spec == Init /\ [][Next]_vars

(* The daemon's threads go on; nobody has to send a request.               *)
OwnerFairness ==
    \A r \in Runs : WF_vars(Start(r)) /\ WF_vars(Wait(r)) /\ WF_vars(Cancel(r))

FairSpec == Spec /\ OwnerFairness

-----------------------------------------------------------------------------

OneHolder ==
    \A q, r \in Runs :
        /\ InStart(q) /\ InStart(r) => q = r
        /\ InWait(q) /\ InWait(r) => q = r
        /\ InCancel(q) /\ InCancel(r) => q = r
        /\ ~ (InStart(q) /\ InWait(r))
        /\ ~ (InStart(q) /\ InCancel(r))
        /\ ~ (InWait(q) /\ InCancel(r))

DurableStatus == {"none", "Running", "Succeeded", "Failed", "Cancelled"}

(* The supervisor's variables keep their types, and no two threads are in  *)
(* bodies of with_lock.                                                    *)
OwnerTypeOK ==
    /\ records \in [Runs -> [status : Status, exit_code : {0, 1, NoCode}]]
    /\ journaled \in [Runs -> DurableStatus] /\ durable \in [Runs -> DurableStatus]
    /\ proc \in [Runs -> {"none", "alive", "zombie", "reaped"}]
    /\ code \in [Runs -> {0, 1, NoCode}]
    /\ recycled \subseteq Runs
    /\ up \in BOOLEAN /\ crashes \in 0..MaxCrashes
    /\ starter \in [Runs -> {"none", "reconcile", "admit", "spawned", "stored", "done"}]
    /\ waiter \in [Runs -> {"none", "waiting", "reaped", "stored", "done", "dead"}]
    /\ canceller \in [Runs -> {"idle", "reconcile", "checked", "signalled", "stored"}]
    /\ OneHolder

(* Two starts cannot both pass the budget check: the running records never *)
(* reserve more than the budget.                                           *)
AdmissionBudget == reserved <= Budget

(* The status of a run that has been refused, has exited, was cancelled or *)
(* was lost is never rewritten, by a late wait thread, a concurrent cancel *)
(* or a restarted daemon.                                                  *)
StatusFinal ==
    [][\A r \in Runs : records[r].status \in Final => records'[r].status = records[r].status]_vars

(* While the daemon lives and its writes succeed, the durable journal says *)
(* the same as the run record whenever no body is in progress.             *)
JournalMatchesRecord ==
    ~ Locked => \A r \in Runs :
        /\ records[r].status = "running" => journaled[r] = "Running"
        /\ records[r].status = "cancelled" => journaled[r] = "Cancelled"
        /\ records[r].status = "exited" =>
              journaled[r] = IF records[r].exit_code = 0 THEN "Succeeded" ELSE "Failed"

(* The budget of a child that has exited is released, by its wait thread.  *)
BudgetReleased ==
    \A r \in Runs : proc[r] = "zombie" /\ waiter[r] = "waiting" ~> records[r].status # "running"

-----------------------------------------------------------------------------
(* The inductive invariant: what a thread that has got so far can rely on. *)

(* A run has no record before its start stores one, and a thread in the    *)
(* lock still finds the running record it saw.  A dead daemon has no       *)
(* threads.                                                                *)
HeldRecords ==
    \A r \in Runs :
        /\ starter[r] \in {"none", "reconcile", "admit", "spawned"} => records[r] = NoRecord
        /\ starter[r] = "stored" \/ canceller[r] = "signalled" => records[r].status = "running"
        /\ waiter[r] \in {"waiting", "reaped", "stored", "done"} => starter[r] = "done"
        /\ ~ up => starter[r] \in {"none", "done"} /\ canceller[r] = "idle"

OwnerInv == OwnerTypeOK /\ HeldRecords

(* Without crashes and faults: how the journal follows the record of each  *)
(* run through the bodies that change both.                                *)
JournalFollows ==
    /\ up
    /\ \A r \in Runs :
        /\ waiter[r] # "dead"
        /\ waiter[r] \in {"reaped", "stored", "done"} => proc[r] = "reaped"
        /\ waiter[r] = "stored" => records[r].status # "running"
        /\ canceller[r] = "stored" => records[r].status = "cancelled"
        /\ records[r].status = "running" /\ starter[r] # "stored" => journaled[r] = "Running"
        /\ records[r].status = "cancelled" =>
              journaled[r] = IF canceller[r] = "stored" THEN "Running" ELSE "Cancelled"
        /\ records[r].status = "exited" =>
              /\ waiter[r] \in {"stored", "done"} /\ records[r].exit_code = code[r]
              /\ journaled[r] = IF waiter[r] = "stored" THEN "Running"
                                ELSE IF code[r] = 0 THEN "Succeeded" ELSE "Failed"

=============================================================================
