------------------------------ MODULE TaskRun ------------------------------
(***************************************************************************)
(* The task run loop: run_plan in crates/nxr-cli/src/commands/task.rs,     *)
(* which drives the Scheduler and the Supervisor (crates/nxr-process/src/  *)
(* supervisor.rs) and watches pipes, deadlines and interrupts.             *)
(*                                                                         *)
(* The loop is sequential; "at" is its program counter.  Processes, pipes, *)
(* time and the user are the environment: their steps interleave with the  *)
(* loop anywhere, and the loop learns of them only where it polls.         *)
(*                                                                         *)
(*   interrupt  handle_interrupt          control    the watch callback    *)
(*   expire     the timed-out nodes       peers      fail-fast after one   *)
(*   stage      cache lookup per node     spawn      the spawn queue       *)
(*   drain      poll pipes, clean up      reap       try_wait_any          *)
(*   failed     fail-fast after a reap    check      is the run over?      *)
(*   shut       reporting stopped nodes   finish     the final events      *)
(*   returned   Ok(exit code)             error      Err                   *)
(*                                                                         *)
(* A call of Scheduler::complete is on_exit followed by the steps of       *)
(* schedule_ready; "owed" says how its result will join to_start.          *)
(***************************************************************************)
EXTENDS Scheduler, Sequences

CONSTANT
    Conditions   \* under which the plans run: [piped, earlyClose, timed, cacheable, requests, lasting]

ASSUME RunConstants ==
    \A c \in Conditions :
        /\ c.piped \subseteq Nodes /\ c.earlyClose \subseteq c.piped
        /\ c.timed \subseteq Nodes /\ c.cacheable \subseteq Nodes
        /\ c.requests \subseteq {"Interrupt", "Restart", "Stop"} /\ c.lasting \in BOOLEAN

VARIABLE conditions

Piped == conditions.piped             \* nodes spawned with piped stdout and stderr
EarlyClose == conditions.earlyClose   \* those of them that close their output before they exit
Timed == conditions.timed             \* nodes with a timeout
Cacheable == conditions.cacheable     \* nodes whose outputs may be restored from the cache
Requests == conditions.requests       \* what may end the run early: Interrupt, Restart, Stop
Lasting == conditions.lasting         \* children need not exit by themselves

VARIABLES
    at, after, owed,
    to_start, batch, spawn_queue, timed_out,
    supervisor,        \* ids of the children it tracks
    shut,              \* stopped children not yet reported: node -> code
    started_at, node_compact_ids, deadlines,
    first_failure, interrupted, restarted, exit_code,
    terminal,          \* NodeExited statuses emitted, per node
    proc,              \* the process of a node: none, alive, ok, err, gone
    pipes, eof,        \* registered pipes; those whose writers are gone
    elapsed,           \* nodes whose time limit has passed
    pending, request   \* interrupt flag; answer of the control callback

loop == <<at, after, owed>>
queues == <<to_start, batch, spawn_queue, timed_out>>
books == <<started_at, node_compact_ids, deadlines>>
result == <<first_failure, interrupted, restarted, exit_code>>
world == <<proc, pipes, eof, elapsed, pending, request>>
runVars == <<vars, loop, queues, supervisor, shut, books, result, terminal, world>>

NoCode == -1
SUCCESS == 0
INTERRUPTED == 130

Statuses == {"succeeded", "failed", "timed_out", "cancelled", "skipped"}

RunInit ==
    /\ Init /\ conditions \in Conditions
    /\ at = "interrupt" /\ after = "interrupt" /\ owed = "extend"
    /\ to_start = {} /\ batch = {} /\ spawn_queue = {} /\ timed_out = {}
    /\ supervisor = {} /\ shut = <<>>
    /\ started_at = {} /\ node_compact_ids = {} /\ deadlines = {}
    /\ first_failure = NoCode /\ exit_code = NoCode
    /\ interrupted = FALSE /\ restarted = FALSE
    /\ terminal = [n \in Nodes |-> <<>>]
    /\ proc = [n \in Nodes |-> "none"]
    /\ pipes = {} /\ eof = {} /\ elapsed = {}
    /\ pending = FALSE /\ request = "Continue"

-----------------------------------------------------------------------------
(* The environment.                                                        *)

(* A child exits by itself.                                                *)
ChildExits(n) ==
    /\ proc[n] = "alive"
    /\ \E st \in {"ok", "err"} : proc' = [proc EXCEPT ![n] = st]
    /\ UNCHANGED <<vars, loop, queues, supervisor, shut, books, result, terminal,
                   pipes, eof, elapsed, pending, request>>

(* The last writer of a node's pipes is gone.                              *)
PipeCloses(n) ==
    /\ n \in pipes \ eof
    /\ proc[n] # "alive" \/ n \in EarlyClose
    /\ eof' = eof \cup {n}
    /\ UNCHANGED <<vars, loop, queues, supervisor, shut, books, result, terminal,
                   proc, pipes, elapsed, pending, request>>

(* The wall clock passes a node's time limit.                              *)
TimePasses(n) ==
    /\ n \in (started_at \cap Timed) \ elapsed
    /\ elapsed' = elapsed \cup {n}
    /\ UNCHANGED <<vars, loop, queues, supervisor, shut, books, result, terminal,
                   proc, pipes, eof, pending, request>>

(* Ctrl-C or SIGTERM.                                                      *)
Interrupt ==
    /\ "Interrupt" \in Requests
    /\ ~ pending /\ ~ interrupted
    /\ pending' = TRUE
    /\ UNCHANGED <<vars, loop, queues, supervisor, shut, books, result, terminal,
                   proc, pipes, eof, elapsed, request>>

(* A watched file changes, or the watch session is told to stop.           *)
Request ==
    /\ request = "Continue"
    /\ request' \in Requests \ {"Interrupt"}
    /\ UNCHANGED <<vars, loop, queues, supervisor, shut, books, result, terminal,
                   proc, pipes, eof, elapsed, pending>>

-----------------------------------------------------------------------------
(* The supervisor.                                                         *)

(* The exit codes SIGTERM, then SIGKILL, may leave a child with: one that  *)
(* had exited keeps its code, another may exit cleanly or be killed.       *)
StopCodes(n) == CASE proc[n] = "ok" -> {0}
                  [] proc[n] = "err" -> {1}
                  [] OTHER -> {0, 143}

(* Fault: SIGTERM without the escalation to SIGKILL.                       *)
shutdown_all_no_kill ==
    /\ shut' = [n \in supervisor |-> 143]
    /\ supervisor' = {}
    /\ proc' = [n \in Nodes |->
                  IF n \in supervisor /\ proc[n] # "alive" THEN "gone" ELSE proc[n]]

(* shutdown_all: every tracked child is stopped and reaped.                *)
shutdown_all ==
    /\ \E codes \in [supervisor -> {0, 1, 143}] :
          /\ \A n \in supervisor : codes[n] \in StopCodes(n)
          /\ shut' = codes
    /\ supervisor' = {}
    /\ proc' = [n \in Nodes |-> IF n \in supervisor THEN "gone" ELSE proc[n]]

(* Fault: the latest exit decides, not the first failure.                  *)
record_failure_latest(code) == first_failure' = IF code # SUCCESS THEN code ELSE NoCode

(* A reaped failure is remembered if it is the first.                      *)
record_failure(code) ==
    first_failure' = IF code # SUCCESS /\ first_failure = NoCode THEN code ELSE first_failure

(* sink.emit of a NodeExited event.                                        *)
emit(n, status) == terminal' = [terminal EXCEPT ![n] = Append(@, status)]

-----------------------------------------------------------------------------
(* Scheduler::complete.                                                    *)

(* The steps of schedule_ready, while a complete is in progress.           *)
RunScheduling ==
    /\ owed # "no"
    /\ Scheduling
    /\ UNCHANGED <<loop, queues, supervisor, shut, books, result, terminal, world>>

(* complete returns: its nodes are appended to to_start after a timeout or *)
(* a cache hit, but replace it after a reaped exit.                        *)
Collect ==
    /\ owed # "no" /\ pc = "wait"
    /\ to_start' = IF owed = "assign" THEN started ELSE to_start \cup started
    /\ owed' = "no"
    /\ UNCHANGED <<vars, at, after, batch, spawn_queue, timed_out, supervisor, shut,
                   books, result, terminal, world>>

At(l) == at = l /\ owed = "no"

Goto(l) == at' = l /\ UNCHANGED <<after, owed>>

-----------------------------------------------------------------------------
(* The loop.                                                               *)

(* handle_interrupt                                                        *)
HandleInterrupt ==
    /\ At("interrupt")
    /\ \/ /\ pending
          /\ pending' = FALSE
          /\ shutdown_all
          /\ interrupted' = TRUE
          /\ at' = "shut" /\ after' = "finish" /\ UNCHANGED owed
          /\ UNCHANGED restarted
       \/ /\ ~ pending
          /\ Goto("control")
          /\ UNCHANGED <<pending, supervisor, shut, proc, interrupted, restarted>>
    /\ UNCHANGED <<vars, queues, books, first_failure, exit_code, terminal,
                   pipes, eof, elapsed, request>>

(* control(): Restart and Stop end this generation.                        *)
HandleControl ==
    /\ At("control")
    /\ \/ /\ request # "Continue"
          /\ shutdown_all
          /\ restarted' = (request = "Restart")
          /\ interrupted' = (request = "Stop")
          /\ at' = "shut" /\ after' = "finish" /\ UNCHANGED <<owed, timed_out, deadlines>>
       \/ /\ request = "Continue"
          /\ timed_out' = deadlines \cap elapsed
          /\ deadlines' = deadlines \ elapsed
          /\ Goto("expire")
          /\ UNCHANGED <<supervisor, shut, proc, interrupted, restarted>>
    /\ UNCHANGED <<vars, to_start, batch, spawn_queue, started_at, node_compact_ids,
                   first_failure, exit_code, terminal, pipes, eof, elapsed, pending,
                   request>>

(* A timed-out node is stopped and completed with the code it exited with. *)
Expire(n) ==
    /\ At("expire")
    /\ n \in timed_out \cap supervisor
    /\ \E code \in StopCodes(n) :
          /\ first_failure' = IF first_failure = NoCode THEN code ELSE first_failure
          /\ on_exit(n, code)
    /\ timed_out' = timed_out \ {n}
    /\ supervisor' = supervisor \ {n}
    /\ proc' = [proc EXCEPT ![n] = "gone"]
    /\ started_at' = started_at \ {n}
    /\ emit(n, "timed_out")
    /\ owed' = "extend" /\ at' = "peers" /\ UNCHANGED after
    /\ UNCHANGED <<to_start, batch, spawn_queue, shut, node_compact_ids, deadlines,
                   interrupted, restarted, exit_code, pipes, eof, elapsed, pending,
                   request>>

(* Under fail-fast the peers of a timed-out node are stopped, and the rest *)
(* of the timed-out list is dropped with them.                             *)
ExpirePeers ==
    /\ At("peers")
    /\ \/ /\ plan.failure_policy = "FailFast" /\ supervisor # {}
          /\ shutdown_all
          /\ timed_out' = {}
          /\ at' = "shut" /\ after' = "expire" /\ UNCHANGED owed
       \/ /\ ~ (plan.failure_policy = "FailFast" /\ supervisor # {})
          /\ Goto("expire")
          /\ UNCHANGED <<supervisor, shut, proc, timed_out>>
    /\ UNCHANGED <<vars, to_start, batch, spawn_queue, books, result, terminal,
                   pipes, eof, elapsed, pending, request>>

(* A child stopped by shutdown_all is reported; after an interrupt or a    *)
(* control request its pipes and deadline go too.                          *)
ReportShut(n) ==
    /\ At("shut")
    /\ n \in DOMAIN shut
    /\ emit(n, "cancelled")
    /\ started_at' = started_at \ {n}
    /\ IF after = "finish"
       THEN /\ node_compact_ids' = node_compact_ids \ {n}
            /\ deadlines' = IF n \in node_compact_ids THEN deadlines \ {n} ELSE deadlines
            /\ pipes' = pipes \ {n}
       ELSE UNCHANGED <<node_compact_ids, deadlines, pipes>>
    /\ on_exit(n, shut[n])
    /\ shut' = [m \in DOMAIN shut \ {n} |-> shut[m]]
    /\ UNCHANGED <<loop, queues, supervisor, result, proc, eof, elapsed, pending, request>>

ShutDone ==
    /\ At("shut")
    /\ DOMAIN shut = {}
    /\ Goto(after)
    /\ UNCHANGED <<vars, queues, supervisor, shut, books, result, terminal, world>>

(* The nodes to start are taken out of to_start.                           *)
TakeBatch ==
    /\ At("expire")
    /\ timed_out \cap supervisor = {}
    /\ timed_out' = {}
    /\ batch' = to_start
    /\ to_start' = {}
    /\ Goto("stage")
    /\ UNCHANGED <<vars, spawn_queue, supervisor, shut, books, result, terminal, world>>

(* A cache hit completes the node without a process.                       *)
CacheHit(n) ==
    /\ At("stage")
    /\ n \in batch \cap Cacheable
    /\ batch' = batch \ {n}
    /\ emit(n, "succeeded")
    /\ on_exit(n, SUCCESS)
    /\ owed' = "extend" /\ UNCHANGED <<at, after>>
    /\ UNCHANGED <<to_start, spawn_queue, timed_out, supervisor, shut, books, result, world>>

CacheMiss(n) ==
    /\ At("stage")
    /\ n \in batch
    /\ batch' = batch \ {n}
    /\ spawn_queue' = spawn_queue \cup {n}
    /\ UNCHANGED <<vars, loop, to_start, timed_out, supervisor, shut, books, result,
                   terminal, world>>

StageDone ==
    /\ At("stage")
    /\ batch = {}
    /\ Goto("spawn")
    /\ UNCHANGED <<vars, queues, supervisor, shut, books, result, terminal, world>>

spawn_node(n) ==
    /\ At("spawn")
    /\ n \in spawn_queue
    /\ spawn_queue' = spawn_queue \ {n}
    /\ supervisor' = supervisor \cup {n}
    /\ proc' = [proc EXCEPT ![n] = "alive"]
    /\ pipes' = pipes \cup ({n} \cap Piped)
    /\ started_at' = started_at \cup {n}
    /\ node_compact_ids' = node_compact_ids \cup {n}
    /\ deadlines' = deadlines \cup ({n} \cap Timed)
    /\ UNCHANGED <<vars, loop, to_start, batch, timed_out, shut, result, terminal,
                   eof, elapsed, pending, request>>

RunOver == is_finished /\ supervisor = {} /\ node_compact_ids = {}

(* Preparing or spawning a node, polling the pipes or waiting for a child  *)
(* fails: run_plan returns Err at once.                                    *)
Fail ==
    /\ \/ At("stage") /\ batch # {}
       \/ At("spawn") /\ spawn_queue # {}
       \/ At("drain") \/ At("reap")
       \/ At("check") /\ ~ RunOver
    /\ Goto("error")
    /\ UNCHANGED <<vars, queues, supervisor, shut, books, result, terminal, world>>

SpawnDone ==
    /\ At("spawn")
    /\ spawn_queue = {}
    /\ Goto("drain")
    /\ UNCHANGED <<vars, queues, supervisor, shut, books, result, terminal, world>>

(* Fault: finished nodes lose their deadline but are not forgotten.        *)
cleanup_closed_pipes_keep(open) ==
    /\ UNCHANGED node_compact_ids
    /\ deadlines' = deadlines \ (node_compact_ids \ open)

(* Fault: the deadline of every node is dropped.                           *)
cleanup_closed_pipes_all(open) ==
    /\ node_compact_ids' = node_compact_ids \cap open
    /\ deadlines' = deadlines \ node_compact_ids

(* cleanup_closed_pipes: a node without open pipes, and a node that never  *)
(* had any, is forgotten together with its deadline.                       *)
cleanup_closed_pipes(open) ==
    /\ node_compact_ids' = node_compact_ids \cap open
    /\ deadlines' = deadlines \ (node_compact_ids \ open)

(* drain_pipe_chunks reads to the end of every pipe whose writers are gone. *)
drain_pipe_chunks ==
    /\ pipes' = pipes \ eof
    /\ cleanup_closed_pipes(pipes \ eof)
    /\ UNCHANGED <<vars, queues, supervisor, shut, started_at, result, terminal,
                   proc, eof, elapsed, pending, request>>

Drain == At("drain") /\ drain_pipe_chunks /\ Goto("reap")

(* try_wait_any finds a child that has exited.                             *)
Reap(n) ==
    /\ At("reap")
    /\ n \in supervisor
    /\ proc[n] \in {"ok", "err"}
    /\ supervisor' = supervisor \ {n}
    /\ proc' = [proc EXCEPT ![n] = "gone"]
    /\ started_at' = started_at \ {n}
    /\ deadlines' = IF n \in node_compact_ids THEN deadlines \ {n} ELSE deadlines
    /\ emit(n, IF proc[n] = "ok" THEN "succeeded" ELSE "failed")
    /\ record_failure(IF proc[n] = "ok" THEN SUCCESS ELSE 1)
    /\ on_exit(n, IF proc[n] = "ok" THEN SUCCESS ELSE 1)
    /\ owed' = "assign"
    /\ at' = IF proc[n] = "err" THEN "failed" ELSE "interrupt"
    /\ UNCHANGED <<after, queues, shut, node_compact_ids, interrupted, restarted,
                   exit_code, pipes, eof, elapsed, pending, request>>

(* save_workspace_cache fails for a child that exited with 0: run_plan     *)
(* returns Err before it tells the scheduler.                              *)
SaveFails(n) ==
    /\ At("reap")
    /\ n \in supervisor \cap Cacheable
    /\ proc[n] = "ok"
    /\ supervisor' = supervisor \ {n}
    /\ proc' = [proc EXCEPT ![n] = "gone"]
    /\ started_at' = started_at \ {n}
    /\ deadlines' = IF n \in node_compact_ids THEN deadlines \ {n} ELSE deadlines
    /\ emit(n, "succeeded")
    /\ Goto("error")
    /\ UNCHANGED <<vars, queues, shut, node_compact_ids, result, pipes, eof, elapsed,
                   pending, request>>

(* Under fail-fast the peers of a failed node are stopped.                 *)
FailedPeers ==
    /\ At("failed")
    /\ \/ /\ plan.failure_policy = "FailFast" /\ supervisor # {}
          /\ shutdown_all
          /\ at' = "shut" /\ after' = "interrupt" /\ UNCHANGED owed
       \/ /\ ~ (plan.failure_policy = "FailFast" /\ supervisor # {})
          /\ Goto("interrupt")
          /\ UNCHANGED <<supervisor, shut, proc>>
    /\ UNCHANGED <<vars, queues, books, result, terminal, pipes, eof, elapsed, pending,
                   request>>

NoneExited ==
    /\ At("reap")
    /\ \A n \in supervisor : proc[n] = "alive"
    /\ Goto("check")
    /\ UNCHANGED <<vars, queues, supervisor, shut, books, result, terminal, world>>

CheckOver ==
    /\ At("check")
    /\ RunOver
    /\ Goto("finish")
    /\ UNCHANGED <<vars, queues, supervisor, shut, books, result, terminal, world>>

Idle == At("check") /\ ~ RunOver /\ drain_pipe_chunks /\ Goto("interrupt")

(* The nodes that never started get their event, and the code is chosen.   *)
Finish ==
    /\ At("finish")
    /\ terminal' = [n \in Nodes |->
            CASE states[n] = "Skipped"   -> Append(terminal[n], "skipped")
              [] states[n] = "Cancelled" -> Append(terminal[n], "cancelled")
              [] OTHER                   -> terminal[n]]
    /\ exit_code' = IF interrupted THEN INTERRUPTED
                    ELSE IF restarted \/ first_failure = NoCode THEN SUCCESS
                    ELSE first_failure
    /\ Goto("returned")
    /\ UNCHANGED <<vars, queues, supervisor, shut, books, first_failure, interrupted,
                   restarted, world>>

Returned ==
    /\ at \in {"returned", "error"}
    /\ UNCHANGED runVars

RunStep ==
    \/ RunScheduling \/ Collect
    \/ HandleInterrupt \/ HandleControl
    \/ (\E n \in Nodes : Expire(n) \/ ReportShut(n)) \/ ExpirePeers \/ ShutDone
    \/ TakeBatch \/ (\E n \in Nodes : CacheHit(n) \/ CacheMiss(n)) \/ StageDone
    \/ (\E n \in Nodes : spawn_node(n)) \/ Fail \/ SpawnDone
    \/ Drain \/ (\E n \in Nodes : Reap(n) \/ SaveFails(n)) \/ FailedPeers \/ NoneExited
    \/ CheckOver \/ Idle \/ Finish

Environment ==
    \/ \E n \in Nodes : ChildExits(n) \/ PipeCloses(n) \/ TimePasses(n)
    \/ Interrupt \/ Request

RunNext == (RunStep \/ Environment \/ Returned) /\ UNCHANGED conditions

RunSpec == RunInit /\ [][RunNext]_<<runVars, conditions>>

(* The loop never blocks for good.  Children exit and their pipes close,   *)
(* unless the conditions let children run for ever.                        *)
RunFairness ==
    /\ WF_runVars(RunStep)
    /\ \A n \in Nodes :
          WF_runVars(~ Lasting /\ ChildExits(n)) /\ WF_runVars(~ Lasting /\ PipeCloses(n))

RunFairSpec == RunSpec /\ RunFairness

-----------------------------------------------------------------------------

(* While the loop runs, every node the scheduler counts as running has a   *)
(* child, is about to get one, or is being reported: no slot, token or     *)
(* lock is held by nobody.                                                 *)
RunningAccounted ==
    at # "error" =>
        running \subseteq supervisor \cup to_start \cup batch \cup spawn_queue
                            \cup DOMAIN shut \cup (IF owed # "no" THEN started ELSE {})

(* Every node gets exactly one NodeExited event by the time an undisturbed *)
(* run returns, and never more than one; the run returns 0 if and only if  *)
(* every node was run or restored with success, unless a time limit has    *)
(* passed: a child that is stopped for it may exit with 0.                 *)
OutcomeReported ==
    /\ \A n \in Nodes : Len(terminal[n]) <= 1
    /\ at = "returned" /\ ~ interrupted /\ ~ restarted =>
        /\ \A n \in Nodes : Len(terminal[n]) = 1
        /\ elapsed = {} => (exit_code = SUCCESS <=> \A n \in Nodes : terminal[n] = <<"succeeded">>)

(* While the loop runs no node is without an owner, and run_plan leaves no *)
(* child process behind when it returns a code.                            *)
NoOrphans ==
    /\ RunningAccounted
    /\ at = "returned" => \A n \in Nodes : proc[n] \in {"none", "gone"}

(* The run ends, if children exit and their pipes close.                   *)
RunEnds == ~ Lasting => <>(at \in {"returned", "error"})

(* A child that has outlived its time limit is stopped, even if it would   *)
(* never exit by itself.                                                   *)
TimeoutEnforced ==
    \A n \in Nodes :
        n \in supervisor /\ n \in elapsed ~> n \notin supervisor \/ at = "error"

=============================================================================
