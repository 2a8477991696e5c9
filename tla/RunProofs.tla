----------------------------- MODULE RunProofs -----------------------------
(***************************************************************************)
(* Theorems about TaskRun, for every plan, node set, job limit and pool,   *)
(* and for every set of conditions under which the loop runs; and about    *)
(* OperationRun, the other driver of the scheduler; and about Watch, for   *)
(* every set of files, nodes and roots; and about SpawnEnv, for all        *)
(* policies, slots and variables; and about PipeMultiplexer, for every set *)
(* of nodes, streams and pipes, every pipe size below the budget and any   *)
(* number of writes; and about NodePreparer, for every plan, context,      *)
(* shell and watch session.                                                *)
(***************************************************************************)
EXTENDS NodePreparer, SequenceTheorems, PipeMultiplexer, TaskRun, OperationRun, Watch, SpawnEnv, SchedulerProofs

Labels == {"interrupt", "control", "expire", "peers", "stage", "spawn", "drain", "reap",
           "failed", "check", "shut", "finish", "returned", "error"}

Codes == {0, 1, 143}

(* What may have been reported of a node: nothing, or one status.          *)
Reports == {<<>>} \cup {<<s>> : s \in Statuses}

RunTypeOK ==
    /\ conditions \in Conditions
    /\ at \in Labels
    /\ after \in {"interrupt", "expire", "finish"}
    /\ owed \in {"no", "extend", "assign"}
    /\ to_start \subseteq Nodes
    /\ batch \subseteq Nodes
    /\ spawn_queue \subseteq Nodes
    /\ supervisor \subseteq Nodes
    /\ DOMAIN shut \subseteq Nodes
    /\ \A n \in DOMAIN shut : shut[n] \in Codes
    /\ first_failure \in {NoCode} \cup Codes
    /\ interrupted \in BOOLEAN
    /\ restarted \in BOOLEAN
    /\ request \in {"Continue", "Restart", "Stop"}
    /\ terminal \in [Nodes -> Reports]
    /\ proc \in [Nodes -> {"none", "alive", "ok", "err", "gone"}]

(* A process that is not reaped has an entry in the supervisor.            *)
ChildrenTracked == \A n \in Nodes : proc[n] \in {"alive", "ok", "err"} => n \in supervisor

(* Where each queue can hold something.                                    *)
QueuesPlaced ==
    /\ at # "shut" => DOMAIN shut = {}
    /\ at \notin {"stage", "error"} => batch = {}
    /\ at \in {"shut", "finish", "returned"} => supervisor = {}
    /\ at \in {"finish", "returned"} => owed = "no"
    /\ Cacheable = {} =>
          /\ owed # "no" => at \in {"interrupt", "peers", "failed"}
          /\ owed = "assign" => to_start = {}
          /\ at \in {"stage", "spawn", "drain", "reap", "check"} => to_start = {}

(* Why the loop is where it is.                                            *)
Causes ==
    /\ timed_out \subseteq elapsed
    /\ at = "peers" => elapsed # {}
    /\ at = "failed" => first_failure # NoCode
    /\ at = "shut" => /\ after = "finish" => interrupted \/ restarted
                      /\ after = "expire" => elapsed # {}
                      /\ after = "interrupt" => first_failure # NoCode
    /\ at \in {"finish", "returned"} => interrupted \/ restarted \/ is_finished

(* RunningAccounted, where a call of complete that has not scheduled yet   *)
(* owes nothing.                                                           *)
Accounted ==
    Cacheable = {} /\ at # "error" =>
        running \subseteq supervisor \cup to_start \cup batch \cup spawn_queue
                            \cup DOMAIN shut
                            \cup (IF owed # "no" /\ pc # "call" THEN started ELSE {})

InFlight == supervisor \cup to_start \cup batch \cup spawn_queue \cup DOMAIN shut

(* The other way round: what the loop holds is running in the scheduler,   *)
(* and is in one place, so that no exit it reports is refused.             *)
Owned ==
    /\ InFlight \subseteq running
    /\ supervisor \cap (to_start \cup batch \cup spawn_queue \cup DOMAIN shut) = {}
    /\ to_start \cap (batch \cup spawn_queue \cup DOMAIN shut) = {}
    /\ batch \cap (spawn_queue \cup DOMAIN shut) = {}
    /\ spawn_queue \cap DOMAIN shut = {}
    /\ owed # "no" /\ pc # "call" => started \subseteq running \ InFlight

Exited == {"Succeeded", "Failed"}

(* A node has been reported when its process has left it, and only then.   *)
Reported ==
    /\ at \notin {"returned", "error"} =>
          \A n \in Nodes : terminal[n] = <<>> <=> states[n] \notin Exited
    /\ at = "returned" =>
          \A n \in Nodes : is_terminal(states[n]) => terminal[n] # <<>>

(* The first failure is what the reports say.                              *)
FailureReported ==
    elapsed = {} =>
        /\ first_failure # NoCode => /\ first_failure = 1
                                     /\ \E n \in Nodes : terminal[n] = <<"failed">>
        /\ first_failure = NoCode /\ ~ interrupted /\ ~ restarted =>
              \A n \in Nodes : /\ states[n] # "Failed"
                               /\ terminal[n] \in {<<>>, <<"succeeded">>}

CodeChosen ==
    at = "returned" =>
        exit_code = IF interrupted THEN INTERRUPTED
                    ELSE IF restarted \/ first_failure = NoCode THEN SUCCESS
                    ELSE first_failure

RunInv ==
    /\ IInv
    /\ RunTypeOK
    /\ ChildrenTracked
    /\ QueuesPlaced
    /\ Causes
    /\ Accounted
    /\ Owned
    /\ Reported
    /\ FailureReported
    /\ CodeChosen

-----------------------------------------------------------------------------
(* The steps of the scheduler, as the loop sees them.                      *)

(* The scheduler's invariant does not depend on anything else.             *)
LEMMA IInvStutter == IInv /\ UNCHANGED vars => IInv'
  BY NextIInv

(* schedule_ready moves only nodes that have not run.                      *)
LEMMA SchedulerStep ==
    ASSUME IInv, Scheduling
    PROVE  /\ IInv'
           /\ \A n \in Nodes : /\ states'[n] \in Exited <=> states[n] \in Exited
                               /\ states'[n] = "Failed" <=> states[n] = "Failed"
  <1>1. IInv'
    BY NextIInv DEF Next
  <1>2. CASE schedule_ready
    BY <1>1, <1>2 DEF schedule_ready, cancel_all_not_started, NotStarted, Exited
  <1>3. CASE EndLoop
    BY <1>1, <1>3 DEF EndLoop
  <1>4. ASSUME NEW n \in Nodes, StartNode(n)
        PROVE  \A m \in Nodes : /\ states'[m] \in Exited <=> states[m] \in Exited
                                /\ states'[m] = "Failed" <=> states[m] = "Failed"
    <2>1. states[n] = "Ready"
      BY <1>4 DEF StartNode, IsCandidate, Candidates, IInv, SetsMatchStates
    <2>2. states' = [states EXCEPT ![n] = "Running"]
      BY <1>4 DEF StartNode
    <2> QED
      BY <2>1, <2>2 DEF IInv, TypeOK, Exited
  <1> QED
    BY <1>1, <1>2, <1>3, <1>4 DEF Scheduling

(* The scheduler tells exit codes apart only by whether they are 0.        *)
LEMMA AnyExit ==
    ASSUME NEW n \in Nodes, NEW code, on_exit(n, code) PROVE Exits(n)
  <1>1. CASE code = 0
    BY <1>1 DEF Exits
  <1>2. CASE code # 0
    <2>1. on_exit(n, 1)
      BY <1>2 DEF on_exit
    <2> QED
      BY <2>1 DEF Exits
  <1> QED
    BY <1>1, <1>2

(* An exit gives a running node the outcome its code says, and no other    *)
(* node one.                                                               *)
LEMMA ExitStep ==
    ASSUME IInv, NEW n \in Nodes, NEW code \in Codes, on_exit(n, code)
    PROVE  /\ IInv'
           /\ running' = running \ {n}
           /\ pc' = "call"
           /\ states[n] = "Running"
           /\ states'[n] = IF code = 0 THEN "Succeeded" ELSE "Failed"
           /\ \A m \in Nodes \ {n} : /\ states'[m] \in Exited <=> states[m] \in Exited
                                     /\ states'[m] = "Failed" <=> states[m] = "Failed"
  <1>2. IInv'
    BY AnyExit, NextIInv DEF Next
  <1>3. states[n] = "Running"
    BY DEF on_exit, IInv, SetsMatchStates
  <1>4. running' = running \ {n} /\ pc' = "call"
    BY DEF on_exit
  <1>5. /\ states'[n] = IF code = 0 THEN "Succeeded" ELSE "Failed"
        /\ \A m \in Nodes \ {n} : /\ states'[m] \in Exited <=> states[m] \in Exited
                                  /\ states'[m] = "Failed" <=> states[m] = "Failed"
    <2>1. CASE code = 0 /\ unlock_dependents(n)
      <3>1. \A m \in Unlocked(n) : states[m] = "Pending"
        BY DEF Unlocked
      <3> QED
        BY <2>1, <3>1 DEF unlock_dependents, Exited
    <2>2. CASE code # 0 /\ trip_fail_fast(n)
      BY <2>2 DEF trip_fail_fast, NotStarted, Exited
    <2>3. CASE code # 0 /\ cancel_transitive_dependents(n)
      <3>1. \A m \in WalkFrom(n) : states[m] \in {"Pending", "Ready"}
        BY DEF WalkFrom, NotStarted
      <3> QED
        BY <2>3, <3>1 DEF cancel_transitive_dependents, Exited
    <2> QED
      BY <2>1, <2>2, <2>3 DEF on_exit
  <1> QED
    BY <1>2, <1>3, <1>4, <1>5

(* The codes a stopped child may leave.                                    *)
LEMMA StopCodesTyped == \A n : StopCodes(n) \subseteq Codes
  BY DEF StopCodes, Codes

(* The reports of a node that had none.                                    *)
LEMMA ReportTyped ==
    ASSUME NEW s \in Statuses
    PROVE  Append(<<>>, s) = <<s>> /\ <<s>> \in Reports /\ <<s>> # <<>>
  <1>1. Append(<<>>, s) = <<s>>
    OBVIOUS
  <1>2. <<s>> # <<>>
    OBVIOUS
  <1> QED
    BY <1>1, <1>2 DEF Reports

(* A node whose process is in the scheduler's running set gets its one     *)
(* report.                                                                 *)
LEMMA EmitStep ==
    ASSUME RunTypeOK, Reported, at \notin {"returned", "error"},
           NEW n \in Nodes, states[n] = "Running", NEW s \in Statuses, emit(n, s)
    PROVE  /\ terminal[n] = <<>>
           /\ terminal' = [terminal EXCEPT ![n] = <<s>>]
           /\ terminal' \in [Nodes -> Reports]
  <1>1. terminal[n] = <<>>
    BY DEF Reported, Exited
  <1>2. terminal' = [terminal EXCEPT ![n] = <<s>>]
    BY SMTT(60), <1>1, ReportTyped DEF emit
  <1> QED
    BY <1>1, <1>2, ReportTyped DEF RunTypeOK

-----------------------------------------------------------------------------
(* Every action keeps the invariant.                                       *)

(* The environment disturbs only what the loop polls.                      *)
LEMMA EnvironmentInv ==
    ASSUME RunInv, Environment, UNCHANGED conditions PROVE RunInv'
  <1> USE DEF RunInv, RunTypeOK, ChildrenTracked, QueuesPlaced, Causes, Accounted, Owned,
             InFlight, Reported, FailureReported, CodeChosen, Cacheable, is_finished,
             vars, loop, queues, books, result, world, At, Goto, Labels
  <1>1. IInv' /\ UNCHANGED vars
    BY IInvStutter DEF RunInv, Environment, ChildExits, PipeCloses, TimePasses, Interrupt, Request
  <1>2. ASSUME NEW n \in Nodes, ChildExits(n) PROVE RunInv'
    BY <1>1, <1>2 DEF ChildExits
  <1>3. ASSUME NEW n \in Nodes, PipeCloses(n) PROVE RunInv'
    BY <1>1, <1>3 DEF PipeCloses
  <1>4. ASSUME NEW n \in Nodes, TimePasses(n) PROVE RunInv'
    BY <1>1, <1>4 DEF TimePasses
  <1>5. CASE Interrupt
    BY <1>1, <1>5 DEF Interrupt
  <1>6. CASE Request
    <2>1. request' \in {"Continue", "Restart", "Stop"}
      BY <1>6, RunConstants DEF Request, Requests, RunInv, RunTypeOK
    <2> QED
      BY <1>1, <1>6, <2>1 DEF Request
  <1> QED
    BY <1>2, <1>3, <1>4, <1>5, <1>6 DEF Environment

(* The steps of schedule_ready during a complete.                          *)
LEMMA RunSchedulingInv ==
    ASSUME RunInv, RunScheduling, UNCHANGED conditions PROVE RunInv'
  <1>1. /\ IInv'
        /\ \A n \in Nodes : /\ states'[n] \in Exited <=> states[n] \in Exited
                            /\ states'[n] = "Failed" <=> states[n] = "Failed"
    BY SchedulerStep DEF RunScheduling, RunInv
  <1>2. UNCHANGED <<loop, queues, supervisor, shut, books, result, terminal, world>> /\ owed # "no"
    BY DEF RunScheduling
  <1>3. at \notin {"finish", "returned"}
    BY <1>2 DEF RunInv, QueuesPlaced
  <1>4. Accounted'
    <2>1. CASE schedule_ready
      BY <1>2, <2>1 DEF schedule_ready, RunInv, Accounted, Cacheable, loop, queues
    <2>2. CASE EndLoop
      BY <1>2, <2>2 DEF EndLoop, RunInv, Accounted, Cacheable, loop, queues
    <2>3. ASSUME NEW n \in Nodes, StartNode(n) PROVE Accounted'
      BY <1>2, <2>3 DEF StartNode, RunInv, Accounted, Cacheable, loop, queues
    <2> QED
      BY <2>1, <2>2, <2>3 DEF RunScheduling, Scheduling
  <1>5. RunTypeOK' /\ ChildrenTracked' /\ QueuesPlaced' /\ Causes' /\ CodeChosen'
    BY <1>2, <1>3 DEF RunInv, RunTypeOK, ChildrenTracked, QueuesPlaced, Causes, CodeChosen,
       Cacheable, loop, queues, result, world
  <1>6. /\ at' = at /\ terminal' = terminal /\ first_failure' = first_failure
        /\ elapsed' = elapsed /\ interrupted' = interrupted /\ restarted' = restarted
    BY <1>2 DEF loop, result, world
  <1>7. Reported'
    BY <1>1, <1>3, <1>6 DEF RunInv, Reported
  <1>8. FailureReported'
    BY <1>1, <1>6 DEF RunInv, FailureReported
  <1>9. Owned'
    <2>1. CASE schedule_ready
      BY <1>2, <2>1 DEF schedule_ready, RunInv, Owned, InFlight, loop, queues
    <2>2. CASE EndLoop
      BY <1>2, <2>2 DEF EndLoop, RunInv, Owned, InFlight, loop, queues
    <2>3. ASSUME NEW n \in Nodes, StartNode(n) PROVE Owned'
      <3>1. n \notin running
        BY <2>3 DEF StartNode, IsCandidate, Candidates, RunInv, IInv, SetsMatchStates
      <3>2. /\ running' = running \cup {n} /\ started' = started \cup {n} /\ pc = "loop"
        BY <2>3 DEF StartNode
      <3> QED
        BY <1>2, <3>1, <3>2 DEF RunInv, Owned, InFlight, loop, queues
    <2> QED
      BY <2>1, <2>2, <2>3 DEF RunScheduling, Scheduling
  <1> QED
    BY <1>1, <1>4, <1>5, <1>7, <1>8, <1>9 DEF RunInv

(* The nodes a complete has started reach to_start.                        *)
LEMMA CollectInv ==
    ASSUME RunInv, Collect, UNCHANGED conditions PROVE RunInv'
  <1> USE DEF RunInv, RunTypeOK, ChildrenTracked, QueuesPlaced, Causes, Accounted, Owned,
             InFlight, Reported, FailureReported, CodeChosen, Cacheable, is_finished,
             vars, loop, queues, books, result, world, At, Goto, Labels
  <1>1. IInv' /\ UNCHANGED vars
    BY IInvStutter DEF RunInv, Collect
  <1>2. started \subseteq Nodes
    BY DEF RunInv, IInv, TypeOK
  <1> QED
    BY <1>1, <1>2 DEF Collect

(* Stopping every child empties the supervisor and leaves each child's     *)
(* code to be reported.                                                    *)
LEMMA ShutdownStep ==
    ASSUME RunTypeOK, shutdown_all
    PROVE  /\ supervisor' = {}
           /\ DOMAIN shut' = supervisor
           /\ \A n \in DOMAIN shut' : shut'[n] \in Codes
           /\ proc' \in [Nodes -> {"none", "alive", "ok", "err", "gone"}]
           /\ \A n \in Nodes : n \notin supervisor => proc'[n] = proc[n]
           /\ \A n \in supervisor : proc'[n] = "gone"
  <1>1. PICK codes \in [supervisor -> {0, 1, 143}] : shut' = codes
    BY DEF shutdown_all
  <1>2. DOMAIN shut' = supervisor /\ \A n \in DOMAIN shut' : shut'[n] \in Codes
    BY <1>1 DEF Codes
  <1>3. supervisor' = {} /\ proc' = [n \in Nodes |-> IF n \in supervisor THEN "gone" ELSE proc[n]]
    BY SMTT(60) DEF shutdown_all
  <1> QED
    BY <1>2, <1>3 DEF RunTypeOK

(* The steps of the loop that leave the scheduler alone and stop or reap   *)
(* no child.                                                               *)
LEMMA QuietInv ==
    ASSUME RunInv, UNCHANGED conditions,
           \/ ShutDone \/ TakeBatch \/ StageDone \/ Fail \/ SpawnDone
           \/ Drain \/ NoneExited \/ CheckOver \/ Idle
           \/ \E n \in Nodes : CacheMiss(n) \/ spawn_node(n)
    PROVE  RunInv'
  <1> USE DEF RunInv, RunTypeOK, ChildrenTracked, QueuesPlaced, Causes, Accounted, Owned,
             InFlight, Reported, FailureReported, CodeChosen, Cacheable, is_finished,
             vars, loop, queues, books, result, world, At, Goto, Labels
  <1>1. IInv' /\ UNCHANGED vars
    BY IInvStutter DEF RunInv, ShutDone, TakeBatch, StageDone, Fail, SpawnDone, Drain,
       NoneExited, CheckOver, Idle, CacheMiss, spawn_node, drain_pipe_chunks
  <1>2. CASE ShutDone
    BY <1>1, <1>2 DEF ShutDone
  <1>3. CASE TakeBatch
    BY <1>1, <1>3 DEF TakeBatch
  <1>4. CASE StageDone
    BY <1>1, <1>4 DEF StageDone
  <1>5. CASE Fail
    BY <1>1, <1>5 DEF Fail
  <1>6. CASE SpawnDone
    BY <1>1, <1>6 DEF SpawnDone
  <1>7. CASE Drain
    BY <1>1, <1>7 DEF Drain, drain_pipe_chunks
  <1>8. CASE NoneExited
    BY <1>1, <1>8 DEF NoneExited
  <1>9. CASE CheckOver
    BY <1>1, <1>9 DEF CheckOver, RunOver
  <1>10. CASE Idle
    BY <1>1, <1>10 DEF Idle, drain_pipe_chunks
  <1>11. ASSUME NEW n \in Nodes, CacheMiss(n) PROVE RunInv'
    BY <1>1, <1>11 DEF CacheMiss
  <1>12. ASSUME NEW n \in Nodes, spawn_node(n) PROVE RunInv'
    BY <1>1, <1>12 DEF spawn_node
  <1> QED
    BY <1>2, <1>3, <1>4, <1>5, <1>6, <1>7, <1>8, <1>9, <1>10, <1>11, <1>12

(* An interrupt or a request of the watch session stops every child.       *)
LEMMA HandleInterruptInv ==
    ASSUME RunInv, HandleInterrupt, UNCHANGED conditions PROVE RunInv'
  <1> USE DEF RunInv, RunTypeOK, ChildrenTracked, QueuesPlaced, Causes, Accounted, Owned,
             InFlight, Reported, FailureReported, CodeChosen, Cacheable, is_finished,
             vars, loop, queues, books, result, world, At, Goto, Labels
  <1>1. IInv' /\ UNCHANGED vars
    BY IInvStutter DEF RunInv, HandleInterrupt
  <1>2. CASE shutdown_all /\ interrupted' = TRUE
    BY ZenonT(60), <1>1, <1>2, ShutdownStep DEF HandleInterrupt
  <1>3. CASE Goto("control") /\ UNCHANGED <<supervisor, shut, proc, interrupted>>
    BY <1>1, <1>3 DEF HandleInterrupt
  <1> QED
    BY <1>2, <1>3 DEF HandleInterrupt

(* A request of the watch session stops every child; without one the       *)
(* expired deadlines are collected.                                        *)
LEMMA HandleControlInv ==
    ASSUME RunInv, HandleControl, UNCHANGED conditions PROVE RunInv'
  <1> USE DEF RunInv, RunTypeOK, ChildrenTracked, QueuesPlaced, Causes, Accounted, Owned,
             InFlight, Reported, FailureReported, CodeChosen, Cacheable, is_finished,
             vars, loop, queues, books, result, world, At, Goto, Labels
  <1>1. IInv' /\ UNCHANGED vars
    BY IInvStutter DEF RunInv, HandleControl
  <1>2. CASE request # "Continue"
    <2>1. interrupted' \in BOOLEAN /\ restarted' \in BOOLEAN /\ (interrupted' \/ restarted')
      BY <1>2 DEF HandleControl, RunInv, RunTypeOK
    <2>2. shutdown_all
      BY <1>2 DEF HandleControl
    <2> QED
      BY <1>1, <1>2, <2>1, <2>2, ShutdownStep DEF HandleControl
  <1>3. CASE request = "Continue"
    BY <1>1, <1>3 DEF HandleControl
  <1> QED
    BY <1>2, <1>3

(* Fail-fast stops the peers of a node that timed out or failed.           *)
LEMMA PeersInv ==
    ASSUME RunInv, ExpirePeers \/ FailedPeers, UNCHANGED conditions PROVE RunInv'
  <1> USE DEF RunInv, RunTypeOK, ChildrenTracked, QueuesPlaced, Causes, Accounted, Owned,
             InFlight, Reported, FailureReported, CodeChosen, Cacheable, is_finished,
             vars, loop, queues, books, result, world, At, Goto, Labels
  <1>1. IInv' /\ UNCHANGED vars
    BY IInvStutter DEF RunInv, ExpirePeers, FailedPeers
  <1>2. CASE ExpirePeers /\ shutdown_all
    BY <1>1, <1>2, ShutdownStep DEF ExpirePeers
  <1>3. CASE ExpirePeers /\ ~ shutdown_all
    BY <1>1, <1>3 DEF ExpirePeers
  <1>4. CASE FailedPeers /\ shutdown_all
    BY <1>1, <1>4, ShutdownStep DEF FailedPeers
  <1>5. CASE FailedPeers /\ ~ shutdown_all
    BY <1>1, <1>5 DEF FailedPeers
  <1> QED
    BY <1>2, <1>3, <1>4, <1>5

(* A timed-out node is stopped, reported and completed.                    *)
LEMMA ExpireInv ==
    ASSUME RunInv, NEW n \in Nodes, Expire(n), UNCHANGED conditions PROVE RunInv'
  <1>1. PICK code \in Codes : /\ first_failure' = IF first_failure = NoCode THEN code ELSE first_failure
                              /\ on_exit(n, code)
    BY StopCodesTyped DEF Expire
  <1>2. /\ IInv'
        /\ running' = running \ {n}
        /\ pc' = "call"
        /\ states[n] = "Running"
        /\ states'[n] \in Exited
        /\ \A m \in Nodes \ {n} : states'[m] \in Exited <=> states[m] \in Exited
    BY <1>1, ExitStep DEF RunInv, Exited
  <1>3. /\ terminal' = [terminal EXCEPT ![n] = <<"timed_out">>]
        /\ terminal' \in [Nodes -> Reports]
    BY <1>2, EmitStep DEF Expire, At, RunInv, Statuses
  <1>4. elapsed' # {}
    BY DEF Expire, RunInv, Causes
  <1>5. terminal'[n] # <<>> /\ \A m \in Nodes \ {n} : terminal'[m] = terminal[m]
    BY <1>3 DEF RunInv, RunTypeOK
  <1>6. RunTypeOK' /\ ChildrenTracked' /\ QueuesPlaced' /\ Causes' /\ CodeChosen' /\ FailureReported'
    BY <1>1, <1>3, <1>4 DEF Expire, Labels, RunInv, RunTypeOK, ChildrenTracked, QueuesPlaced, Causes,
       CodeChosen, FailureReported, Cacheable, At
  <1>7. Accounted'
    BY <1>2 DEF Expire, RunInv, Accounted, Cacheable, At
  <1>8. Reported'
    BY <1>2, <1>5 DEF Expire, RunInv, Reported, At
  <1>9. Owned'
    BY <1>2 DEF Expire, RunInv, Owned, InFlight, At
  <1> QED
    BY <1>2, <1>6, <1>7, <1>8, <1>9 DEF RunInv

(* A child stopped by shutdown_all is reported and completed.              *)
LEMMA ReportShutInv ==
    ASSUME RunInv, NEW n \in Nodes, ReportShut(n), UNCHANGED conditions PROVE RunInv'
  <1>1. shut[n] \in Codes /\ on_exit(n, shut[n]) /\ n \in DOMAIN shut
    BY DEF ReportShut, RunInv, RunTypeOK
  <1>2. /\ IInv'
        /\ running' = running \ {n}
        /\ pc' = "call"
        /\ states[n] = "Running"
        /\ states'[n] \in Exited
        /\ \A m \in Nodes \ {n} : states'[m] \in Exited <=> states[m] \in Exited
    BY <1>1, ExitStep DEF RunInv, Exited
  <1>3. at = "shut" /\ owed = "no" /\ at' = at /\ owed' = owed /\ after' = after
    BY DEF ReportShut, At, loop
  <1>4. /\ terminal' = [terminal EXCEPT ![n] = <<"cancelled">>]
        /\ terminal' \in [Nodes -> Reports]
        /\ terminal[n] = <<>>
    BY <1>2, <1>3, EmitStep DEF ReportShut, RunInv, Statuses
  <1>5. terminal'[n] # <<>> /\ \A m \in Nodes \ {n} : terminal'[m] = terminal[m]
    BY <1>4 DEF RunInv, RunTypeOK
  <1>6. /\ DOMAIN shut' = DOMAIN shut \ {n}
        /\ \A m \in DOMAIN shut' : shut'[m] = shut[m]
    BY DEF ReportShut
  <1>7. UNCHANGED <<queues, supervisor, result, proc, elapsed, request>>
    BY DEF ReportShut
  <1>8. RunTypeOK' /\ ChildrenTracked' /\ QueuesPlaced' /\ Causes' /\ CodeChosen'
    BY <1>3, <1>4, <1>6, <1>7 DEF RunInv, RunTypeOK, ChildrenTracked, QueuesPlaced, Causes,
       CodeChosen, Cacheable, queues, result
  <1>9. Accounted'
    BY <1>2, <1>3, <1>6, <1>7 DEF RunInv, Accounted, Cacheable, queues
  <1>10. Reported'
    BY <1>2, <1>3, <1>5 DEF RunInv, Reported
  <1>11. FailureReported'
    <2>1. interrupted \/ restarted \/ elapsed # {} \/ first_failure # NoCode
      BY <1>3 DEF RunInv, RunTypeOK, Causes
    <2>2. \A m \in Nodes : terminal[m] = <<"failed">> => terminal'[m] = <<"failed">>
      BY <1>4, <1>5
    <2> QED
      BY <1>7, <2>1, <2>2 DEF RunInv, FailureReported, result
  <1>12. Owned'
    BY <1>1, <1>2, <1>3, <1>6, <1>7 DEF RunInv, Owned, InFlight, queues
  <1> QED
    BY <1>2, <1>8, <1>9, <1>10, <1>11, <1>12 DEF RunInv

(* A cache hit completes a node without a process.                         *)
LEMMA CacheHitInv ==
    ASSUME RunInv, NEW n \in Nodes, CacheHit(n), UNCHANGED conditions PROVE RunInv'
  <1>1. /\ IInv'
        /\ states[n] = "Running"
        /\ states'[n] = "Succeeded"
        /\ \A m \in Nodes \ {n} : /\ states'[m] \in Exited <=> states[m] \in Exited
                                  /\ states'[m] = "Failed" <=> states[m] = "Failed"
    BY ExitStep DEF CacheHit, RunInv, Codes, SUCCESS
  <1>2. at = "stage" /\ owed = "no" /\ at' = at /\ owed' = "extend" /\ Cacheable # {}
    BY DEF CacheHit, At
  <1>3. /\ terminal' = [terminal EXCEPT ![n] = <<"succeeded">>]
        /\ terminal' \in [Nodes -> Reports]
        /\ terminal[n] = <<>>
    BY <1>1, <1>2, EmitStep DEF CacheHit, RunInv, Statuses
  <1>4. /\ terminal'[n] = <<"succeeded">> /\ terminal'[n] # <<>>
        /\ \A m \in Nodes \ {n} : terminal'[m] = terminal[m]
    BY <1>3, ReportTyped DEF RunInv, RunTypeOK, Statuses
  <1>5. batch' = batch \ {n}
    BY DEF CacheHit
  <1>6. UNCHANGED <<after, to_start, spawn_queue, timed_out, supervisor, shut, books, result, world>>
    BY DEF CacheHit
  <1>7. RunTypeOK' /\ ChildrenTracked' /\ QueuesPlaced' /\ Causes' /\ CodeChosen' /\ Accounted'
    BY <1>2, <1>3, <1>5, <1>6 DEF RunInv, RunTypeOK, ChildrenTracked, QueuesPlaced, Causes,
       CodeChosen, Accounted, Cacheable, result, world
  <1>8. Reported'
    BY <1>1, <1>2, <1>4 DEF RunInv, Reported, Exited
  <1>9. FailureReported'
    <2>1. \A m \in Nodes : terminal[m] = <<"failed">> => terminal'[m] = <<"failed">>
      BY <1>3, <1>4
    <2> QED
      BY <1>1, <1>4, <1>6, <2>1 DEF RunInv, FailureReported, result, world
  <1>10. Owned'
    BY <1>2, <1>5, <1>6 DEF CacheHit, on_exit, RunInv, Owned, InFlight
  <1> QED
    BY <1>1, <1>7, <1>8, <1>9, <1>10 DEF RunInv

(* A child that has exited is reaped, reported and completed.              *)
LEMMA ReapInv ==
    ASSUME RunInv, NEW n \in Nodes, Reap(n), UNCHANGED conditions PROVE RunInv'
  <1> DEFINE code == IF proc[n] = "ok" THEN 0 ELSE 1
             status == IF proc[n] = "ok" THEN "succeeded" ELSE "failed"
  <1>1. /\ IInv'
        /\ running' = running \ {n}
        /\ pc' = "call"
        /\ states[n] = "Running"
        /\ states'[n] = IF proc[n] = "ok" THEN "Succeeded" ELSE "Failed"
        /\ \A m \in Nodes \ {n} : /\ states'[m] \in Exited <=> states[m] \in Exited
                                  /\ states'[m] = "Failed" <=> states[m] = "Failed"
    <2>1. on_exit(n, code) /\ code \in Codes
      BY DEF Reap, Codes, SUCCESS
    <2> QED
      BY <2>1, ExitStep DEF RunInv
  <1>2. /\ at = "reap" /\ owed = "no" /\ owed' = "assign"
        /\ at' = IF proc[n] = "err" THEN "failed" ELSE "interrupt"
        /\ proc[n] \in {"ok", "err"}
    BY DEF Reap, At
  <1>3. /\ terminal' = [terminal EXCEPT ![n] = <<status>>]
        /\ terminal' \in [Nodes -> Reports]
        /\ terminal[n] = <<>>
    <2>1. emit(n, status) /\ status \in Statuses
      BY DEF Reap, Statuses
    <2> QED
      BY <1>1, <1>2, <2>1, EmitStep DEF RunInv
  <1>4. terminal'[n] = <<status>> /\ \A m \in Nodes \ {n} : terminal'[m] = terminal[m]
    BY <1>3 DEF RunInv, RunTypeOK
  <1>5. first_failure' = IF proc[n] = "err" /\ first_failure = NoCode THEN 1 ELSE first_failure
    BY <1>2 DEF Reap, record_failure, SUCCESS
  <1>6. /\ supervisor' = supervisor \ {n}
        /\ proc' = [proc EXCEPT ![n] = "gone"]
        /\ UNCHANGED <<after, queues, shut, interrupted, restarted, exit_code, elapsed, request>>
    BY DEF Reap
  <1>7. RunTypeOK' /\ ChildrenTracked' /\ QueuesPlaced' /\ Causes' /\ CodeChosen'
    BY <1>2, <1>3, <1>5, <1>6 DEF RunInv, RunTypeOK, ChildrenTracked, QueuesPlaced, Causes,
       CodeChosen, Cacheable, queues, Labels, Codes, NoCode
  <1>8. Accounted'
    BY <1>1, <1>2, <1>6 DEF RunInv, Accounted, Cacheable, queues
  <1>9. Reported'
    BY <1>1, <1>2, <1>4 DEF RunInv, Reported, Exited
  <1>10. FailureReported'
    <2>1. \A m \in Nodes : terminal[m] = <<"failed">> => terminal'[m] = <<"failed">>
      BY <1>3, <1>4
    <2>2. CASE proc[n] = "ok"
      BY <1>1, <1>2, <1>4, <1>5, <1>6, <2>1, <2>2 DEF RunInv, FailureReported
    <2>3. CASE proc[n] = "err"
      <3>1. terminal'[n] = <<"failed">> /\ first_failure' # NoCode
        BY <1>4, <1>5, <2>3 DEF NoCode
      <3> QED
        BY <1>5, <1>6, <2>1, <2>3, <3>1 DEF RunInv, FailureReported
    <2> QED
      BY <1>2, <2>2, <2>3
  <1>11. Owned'
    BY <1>1, <1>2, <1>6 DEF Reap, RunInv, Owned, InFlight, queues
  <1> QED
    BY <1>1, <1>7, <1>8, <1>9, <1>10, <1>11 DEF RunInv

(* A child whose outputs cannot be saved is reported, and the run ends in  *)
(* an error before the scheduler hears of it.                              *)
LEMMA SaveFailsInv ==
    ASSUME RunInv, NEW n \in Nodes, SaveFails(n), UNCHANGED conditions PROVE RunInv'
  <1>1. IInv' /\ UNCHANGED vars
    BY IInvStutter DEF RunInv, SaveFails
  <1>2. at = "reap" /\ owed = "no" /\ at' = "error" /\ owed' = owed /\ Cacheable # {}
    BY DEF SaveFails, At, Goto
  <1>3. n \in supervisor /\ n \in running /\ states[n] = "Running"
    BY DEF SaveFails, RunInv, Owned, InFlight, IInv, SetsMatchStates
  <1>4. /\ terminal' = [terminal EXCEPT ![n] = <<"succeeded">>]
        /\ terminal' \in [Nodes -> Reports]
        /\ terminal[n] = <<>>
    BY <1>2, <1>3, EmitStep DEF SaveFails, RunInv, Statuses
  <1>5. /\ supervisor' = supervisor \ {n}
        /\ proc' = [proc EXCEPT ![n] = "gone"]
        /\ UNCHANGED <<after, queues, shut, result, elapsed, request>>
    BY DEF SaveFails, Goto
  <1>6. /\ RunTypeOK' /\ ChildrenTracked' /\ QueuesPlaced' /\ Causes' /\ Accounted'
        /\ Reported' /\ CodeChosen'
    BY <1>1, <1>2, <1>4, <1>5 DEF RunInv, RunTypeOK, ChildrenTracked, QueuesPlaced, Causes,
       Accounted, Reported, CodeChosen, Cacheable, queues, result, Labels
  <1>7. FailureReported'
    <2>1. \A m \in Nodes : terminal'[m] \in {terminal[m], <<"succeeded">>}
      BY <1>4 DEF RunInv, RunTypeOK
    <2>2. \A m \in Nodes : terminal[m] = <<"failed">> => terminal'[m] = <<"failed">>
      BY <1>4 DEF RunInv, RunTypeOK
    <2> QED
      BY <1>1, <1>5, <2>1, <2>2 DEF RunInv, FailureReported, vars, result
  <1>8. Owned'
    BY <1>1, <1>2, <1>5 DEF RunInv, Owned, InFlight, vars, queues
  <1> QED
    BY <1>1, <1>6, <1>7, <1>8 DEF RunInv

(* With no failure nothing is cancelled and nothing is skipped: a skipped  *)
(* node needs a failed one behind it, since the graph is acyclic.          *)
LEMMA NothingDropped ==
    ASSUME IInv, \A n \in Nodes : states[n] # "Failed"
    PROVE  \A n \in Nodes : states[n] \notin {"Cancelled", "Skipped"}
  <1>1. ~ fail_fast_tripped
    BY DEF IInv, PolicyRespected
  <1>2. \A n \in Nodes : states[n] # "Cancelled"
    BY <1>1 DEF IInv, PolicyRespected
  <1> DEFINE S == {n \in Nodes : states[n] = "Skipped"}
  <1>3. \A n \in S : plan.dependsOn[n] \cap S # {}
    <2> SUFFICES ASSUME NEW n \in S PROVE plan.dependsOn[n] \cap S # {}
      OBVIOUS
    <2>1. plan.failure_policy = "KeepGoing"
      BY DEF IInv, PolicyRespected
    <2>2. PICK d \in plan.dependsOn[n] : states[d] \in {"Failed", "Skipped"}
      BY <2>1 DEF IInv, SkippedExactly
    <2>3. d \in Nodes
      BY PlanTyped DEF IInv, TypeOK
    <2> QED
      BY <2>2, <2>3
  <1>4. S = {}
    BY <1>3, PlanTyped DEF IInv, TypeOK, Acyclic
  <1> QED
    BY <1>2, <1>4

(* The last events are for the nodes that never started.                   *)
LEMMA FinishInv ==
    ASSUME RunInv, Finish, UNCHANGED conditions PROVE RunInv'
  <1>1. IInv' /\ UNCHANGED vars
    BY IInvStutter DEF RunInv, Finish
  <1>2. at = "finish" /\ at' = "returned" /\ owed = "no" /\ owed' = owed /\ after' = after
    BY DEF Finish, At, Goto
  <1>3. \A n \in Nodes : terminal[n] = <<>> <=> states[n] \notin Exited
    BY <1>2 DEF RunInv, Reported
  <1>4. \A n \in Nodes : terminal'[n] = CASE states[n] = "Skipped"   -> <<"skipped">>
                                           [] states[n] = "Cancelled" -> <<"cancelled">>
                                           [] OTHER                   -> terminal[n]
    BY <1>3, ReportTyped DEF Finish, Exited, Statuses
  <1>5. terminal' \in [Nodes -> Reports]
    <2>1. \A n \in Nodes : terminal'[n] \in Reports
      BY <1>4, ReportTyped DEF RunInv, RunTypeOK, Statuses
    <2> QED
      BY <2>1 DEF Finish
  <1>6. UNCHANGED <<queues, supervisor, shut, first_failure, interrupted, restarted, world>>
    BY DEF Finish
  <1>7. RunTypeOK' /\ ChildrenTracked' /\ QueuesPlaced' /\ Causes' /\ Accounted'
    BY <1>1, <1>2, <1>5, <1>6 DEF RunInv, RunTypeOK, ChildrenTracked, QueuesPlaced, Causes,
       Accounted, Cacheable, is_finished, vars, queues, world, Labels
  <1>8. CodeChosen'
    BY DEF Finish, CodeChosen
  <1>9. \A n \in Nodes : is_terminal(states[n]) => terminal'[n] # <<>>
    BY <1>3, <1>4, ReportTyped DEF is_terminal, Exited, Statuses
  <1>10. Reported'
    BY <1>1, <1>2, <1>9 DEF Reported, vars
  <1>11. FailureReported'
    <2>1. \A n \in Nodes : terminal[n] = <<"failed">> => terminal'[n] = <<"failed">>
      BY <1>3, <1>4, ReportTyped DEF Exited, Statuses
    <2>2. ASSUME elapsed = {}, first_failure = NoCode, ~ interrupted, ~ restarted, NEW n \in Nodes
          PROVE  terminal'[n] = terminal[n]
      <3>1. states[n] \notin {"Cancelled", "Skipped"}
        BY <2>2, NothingDropped DEF RunInv, FailureReported
      <3> QED
        BY <1>4, <3>1
    <2> QED
      BY <1>1, <1>6, <2>1, <2>2 DEF RunInv, FailureReported, vars, world
  <1>12. Owned'
    BY <1>1, <1>2, <1>6 DEF RunInv, Owned, InFlight, vars, queues
  <1> QED
    BY <1>1, <1>7, <1>8, <1>10, <1>11, <1>12 DEF RunInv

-----------------------------------------------------------------------------
(* The theorems.                                                           *)

(* A run starts with every node unreported and nothing in flight.          *)
LEMMA RunInitInv == RunInit => RunInv
  <1> SUFFICES ASSUME RunInit PROVE RunInv
    OBVIOUS
  <1>1. IInv
    BY InitIInv DEF RunInit
  <1>2. DOMAIN shut = {}
    BY DEF RunInit
  <1>3. running = {} /\ pc = "call" /\ \A n \in Nodes : states[n] \in {"Ready", "Pending"}
    BY DEF RunInit, Init
  <1>4. RunTypeOK
    BY <1>2 DEF RunInit, RunTypeOK, Labels, Reports
  <1>5. ChildrenTracked /\ QueuesPlaced /\ Causes /\ Accounted /\ Owned /\ CodeChosen
    BY <1>2, <1>3 DEF RunInit, ChildrenTracked, QueuesPlaced, Causes, Accounted, Owned, InFlight,
       CodeChosen
  <1>6. Reported /\ FailureReported
    BY <1>3 DEF RunInit, Reported, FailureReported, Exited
  <1> QED
    BY <1>1, <1>4, <1>5, <1>6 DEF RunInv

(* A step in which nothing changes.                                        *)
LEMMA RunStutter == RunInv /\ UNCHANGED <<runVars, conditions>> => RunInv'
  <1> SUFFICES ASSUME RunInv, UNCHANGED <<runVars, conditions>> PROVE RunInv'
    OBVIOUS
  <1>1. IInv'
    BY IInvStutter DEF RunInv, runVars
  <1> QED
    BY <1>1 DEF RunInv, RunTypeOK, ChildrenTracked, QueuesPlaced, Causes, Accounted, Owned,
       InFlight, Reported, FailureReported, CodeChosen, Cacheable, is_finished,
       runVars, vars, loop, queues, books, result, world

(* Every step of the loop and of its environment keeps the invariant.      *)
LEMMA RunNextInv == RunInv /\ [RunNext]_<<runVars, conditions>> => RunInv'
  <1> SUFFICES ASSUME RunInv, RunNext PROVE RunInv'
    BY RunStutter
  <1>1. UNCHANGED conditions
    BY DEF RunNext
  <1>2. CASE RunStep
    BY <1>1, <1>2, RunSchedulingInv, CollectInv, HandleInterruptInv, HandleControlInv, ExpireInv,
       ReportShutInv, PeersInv, QuietInv, CacheHitInv, ReapInv, SaveFailsInv, FinishInv DEF RunStep
  <1>3. CASE Environment
    BY <1>1, <1>3, EnvironmentInv
  <1>4. CASE Returned
    BY <1>1, <1>4, RunStutter DEF Returned
  <1> QED
    BY <1>2, <1>3, <1>4 DEF RunNext

(* The invariant of a run.                                                 *)
LEMMA RunInvariance == RunSpec => []RunInv
  BY RunInitInv, RunNextInv, PTL DEF RunSpec

(* Under any conditions every node gets at most one NodeExited event, and  *)
(* exactly one by the time an undisturbed run returns; the exit code tells *)
(* whether every node succeeded, unless a time limit has passed.           *)
THEOREM OutcomesReported == RunSpec => []OutcomeReported
  <1>1. RunInv => OutcomeReported
    <2> SUFFICES ASSUME RunInv PROVE OutcomeReported
      OBVIOUS
    <2>1. \A n \in Nodes : terminal[n] = <<>> \/ \E s \in Statuses : terminal[n] = <<s>>
      BY DEF RunInv, RunTypeOK, Reports
    <2>2. Len(<<>>) = 0 /\ \A s \in Statuses : Len(<<s>>) = 1
      OBVIOUS
    <2>3. \A n \in Nodes : Len(terminal[n]) <= 1 /\ (terminal[n] # <<>> => Len(terminal[n]) = 1)
      <3> TAKE n \in Nodes
      <3>1. CASE terminal[n] = <<>>
        BY <2>2, <3>1
      <3>2. CASE \E s \in Statuses : terminal[n] = <<s>>
        BY <2>2, <3>2
      <3> QED
        BY <2>1, <3>1, <3>2
    <2>4. ASSUME at = "returned", ~ interrupted, ~ restarted
          PROVE  \A n \in Nodes : terminal[n] # <<>>
      BY <2>4, IInvFinished DEF RunInv, Causes, Reported, FinishedIsComplete
    <2>5. ASSUME at = "returned", ~ interrupted, ~ restarted, elapsed = {}
          PROVE  exit_code = SUCCESS <=> \A n \in Nodes : terminal[n] = <<"succeeded">>
      <3>1. CASE first_failure = NoCode
        BY <2>4, <2>5, <3>1 DEF RunInv, FailureReported, CodeChosen
      <3>2. CASE first_failure # NoCode
        <4>1. exit_code = 1
          BY <2>5, <3>2 DEF RunInv, FailureReported, CodeChosen
        <4>2. \E n \in Nodes : terminal[n] = <<"failed">>
          BY <2>5, <3>2 DEF RunInv, FailureReported
        <4> QED
          BY <4>1, <4>2 DEF SUCCESS
      <3> QED
        BY <3>1, <3>2
    <2> QED
      BY <2>3, <2>4, <2>5 DEF OutcomeReported
  <1> QED
    BY <1>1, RunInvariance, PTL

(* Where no node can be restored from the store, every node the scheduler  *)
(* counts as running has an owner in the loop; and no run returns a code   *)
(* with a child left behind.                                               *)
THEOREM NodesOwned == RunSpec => [](Cacheable = {} => NoOrphans)
  <1>1. RunInv => (Cacheable = {} => NoOrphans)
    <2> SUFFICES ASSUME RunInv, Cacheable = {} PROVE NoOrphans
      OBVIOUS
    <2>1. RunningAccounted
      BY DEF RunInv, Accounted, RunningAccounted
    <2>2. at = "returned" => \A n \in Nodes : proc[n] \in {"none", "gone"}
      BY DEF RunInv, RunTypeOK, ChildrenTracked, QueuesPlaced
    <2> QED
      BY <2>1, <2>2 DEF NoOrphans
  <1> QED
    BY <1>1, RunInvariance, PTL

(* Whatever is restored, run_plan leaves no child behind when it returns a *)
(* code, and never tracks a child whose node the scheduler has let go: an  *)
(* exit it reports is never refused.                                       *)
THEOREM ChildrenOwned ==
    RunSpec => [](/\ at = "returned" => \A n \in Nodes : proc[n] \in {"none", "gone"}
                  /\ supervisor \cup DOMAIN shut \subseteq running)
  <1>1. RunInv => /\ at = "returned" => \A n \in Nodes : proc[n] \in {"none", "gone"}
                  /\ supervisor \cup DOMAIN shut \subseteq running
    <2> SUFFICES ASSUME RunInv
                 PROVE  /\ at = "returned" => \A n \in Nodes : proc[n] \in {"none", "gone"}
                        /\ supervisor \cup DOMAIN shut \subseteq running
      OBVIOUS
    <2>1. supervisor \cup DOMAIN shut \subseteq running
      BY DEF RunInv, Owned, InFlight
    <2> QED
      BY <2>1 DEF RunInv, RunTypeOK, ChildrenTracked, QueuesPlaced
  <1> QED
    BY <1>1, RunInvariance, PTL

(* The loop drives the scheduler as Scheduler says it is driven: whatever  *)
(* the polling, the time limits, the cache hits, the interrupts and the    *)
(* stopped children do, what they do to the scheduler is a step of it.     *)
(* So all that is proved of Scheduler holds in every run.                  *)
THEOREM RunImplementsScheduler == RunSpec => Spec
  <1>1. RunInit => Init
    BY DEF RunInit
  <1>2. [RunNext]_<<runVars, conditions>> => [Next]_vars
    <2> SUFFICES ASSUME RunNext PROVE [Next]_vars
      BY DEF runVars
    <2>1. CASE Environment \/ Returned
      BY <2>1 DEF Environment, Returned, ChildExits, PipeCloses, TimePasses, Interrupt, Request, runVars
    <2>2. CASE RunScheduling
      BY <2>2 DEF RunScheduling, Next
    <2>3. ASSUME NEW n \in Nodes, Expire(n) \/ ReportShut(n) \/ CacheHit(n) \/ Reap(n)
          PROVE  Next
      <3>1. \E code : on_exit(n, code)
        BY <2>3 DEF Expire, ReportShut, CacheHit, Reap
      <3> QED
        BY <3>1, AnyExit DEF Next
    <2>4. CASE \/ Collect \/ HandleInterrupt \/ HandleControl \/ ExpirePeers \/ FailedPeers
               \/ ShutDone \/ TakeBatch \/ StageDone \/ Fail \/ SpawnDone
               \/ Drain \/ NoneExited \/ CheckOver \/ Idle \/ Finish
               \/ \E n \in Nodes : CacheMiss(n) \/ spawn_node(n) \/ SaveFails(n)
      BY <2>4 DEF Collect, HandleInterrupt, HandleControl, ExpirePeers, FailedPeers, ShutDone,
         TakeBatch, StageDone, Fail, SpawnDone, Drain, NoneExited, CheckOver, Idle, Finish,
         CacheMiss, spawn_node, SaveFails, drain_pipe_chunks
    <2> QED
      BY <2>1, <2>2, <2>3, <2>4 DEF RunNext, RunStep
  <1> QED
    BY <1>1, <1>2, PTL DEF RunSpec, Spec

(* A run implements the contract of TaskDag: it starts no node before its  *)
(* dependencies have succeeded and drops after a failure what the policy   *)
(* says, whoever reports the exits.                                        *)
THEOREM RunImplementsTaskDag == RunSpec => ImplementsTaskDag
  BY RunImplementsScheduler, Refinement, PTL

-----------------------------------------------------------------------------
(* The executor of workflow tasks                                          *)

OperationTypeOK ==
    /\ op_at \in {"loop", "batch", "returned", "error"}
    /\ op_failure \in {NoFailure, 1}
    /\ DOMAIN op_finished = Nodes

(* A batch is what the last call of schedule_ready started, and nothing    *)
(* else is in flight; the nodes of it that had their turn have exited.     *)
BatchInFlight ==
    /\ op_at = "loop" => /\ pc \in {"call", "loop"}
                         /\ pc = "call" => running = {}
                         /\ pc = "loop" => running = started
    /\ op_at = "batch" => /\ running = op_batch /\ op_batch \subseteq started
                          /\ pc = "wait" => op_batch = started
                          /\ pc \in {"wait", "call"}

(* A call that starts nothing, with nothing in flight, has found nothing   *)
(* ready.                                                                  *)
NothingStarted == op_at = "batch" /\ started = {} => ready = {}

(* What has been reported of a node that has run.                          *)
ReportOf(n) ==
    IF states[n] = "Failed" THEN <<"failed">>
    ELSE IF n \in op_other THEN <<"skipped">> ELSE <<"succeeded">>

OperationReported ==
    op_at # "error" =>
        /\ \A n \in Nodes :
              op_finished[n] = IF states[n] \in Exited THEN ReportOf(n) ELSE <<>>
        /\ op_failure # NoFailure <=> \E n \in Nodes : states[n] = "Failed"

OperationReturned ==
    op_at = "returned" =>
        /\ is_finished
        /\ op_success = ((\A n \in Nodes : states[n] = "Succeeded") /\ op_failure = NoFailure)

OperationInv ==
    /\ IInv /\ PoolsCovered
    /\ OperationTypeOK
    /\ BatchInFlight
    /\ NothingStarted
    /\ OperationReported
    /\ OperationReturned

(* The executor never starts with anything done.                           *)
LEMMA OperationInitInv == Init /\ OperationInit => OperationInv
  <1> SUFFICES ASSUME Init, OperationInit PROVE OperationInv
    OBVIOUS
  <1>1. IInv /\ PoolsCovered
    BY InitIInv, InitPoolsCovered
  <1>2. \A n \in Nodes : states[n] \notin Exited
    BY DEF Init, Exited
  <1> QED
    BY <1>1, <1>2
    DEF Init, OperationInit, OperationInv, OperationTypeOK, BatchInFlight, NothingStarted,
        OperationReported, OperationReturned, Exited, NoFailure

(* What a call of schedule_ready may do when nothing was in flight.        *)
LEMMA OperationScheduleInv == ASSUME OperationInv, OperationSchedule PROVE OperationInv'
  <1>1. /\ op_at = "loop" /\ Scheduling
        /\ op_at' = IF pc' = "wait" THEN "batch" ELSE "loop"
        /\ op_batch' = started'
        /\ UNCHANGED <<op_order, op_failure, op_finished, op_success, op_other>>
    BY DEF OperationSchedule
  <1>2. /\ IInv'
        /\ \A n \in Nodes : /\ states'[n] \in Exited <=> states[n] \in Exited
                            /\ states'[n] = "Failed" <=> states[n] = "Failed"
    BY <1>1, SchedulerStep DEF OperationInv
  <1>3. PoolsCovered'
    BY <1>1, NextPoolsCovered DEF OperationInv, Next
  <1>4. OperationTypeOK'
    BY <1>1 DEF OperationInv, OperationTypeOK
  <1>5. OperationReported' /\ OperationReturned'
    BY <1>1, <1>2 DEF OperationInv, OperationReported, OperationReturned, ReportOf
  <1>6. BatchInFlight' /\ NothingStarted'
    <2>1. CASE schedule_ready
      <3>1. pc = "call" /\ running = {} /\ running' = {} /\ started' = {}
        BY <1>1, <2>1 DEF schedule_ready, OperationInv, BatchInFlight
      <3>2. CASE fail_fast_tripped /\ cancel_all_not_started /\ pc' = "wait"
        <4>1. ready' = {}
          BY <3>2 DEF cancel_all_not_started, OperationInv, IInv, SetsMatchStates, NotStarted
        <4> QED
          BY <1>1, <3>1, <3>2, <4>1 DEF BatchInFlight, NothingStarted
      <3>3. CASE pc' = IF has_interactive_in_flight THEN "wait" ELSE "loop"
        <4>1. pc' = "loop"
          BY <3>1, <3>3 DEF has_interactive_in_flight
        <4> QED
          BY <1>1, <3>1, <4>1 DEF BatchInFlight, NothingStarted
      <3> QED
        BY <2>1, <3>2, <3>3 DEF schedule_ready
    <2>2. ASSUME NEW n \in Nodes, StartNode(n) PROVE BatchInFlight' /\ NothingStarted'
      <3>1. /\ pc = "loop" /\ running = started
            /\ running' = running \cup {n} /\ started' = started \cup {n}
            /\ pc' \in {"wait", "loop"}
        BY <1>1, <2>2 DEF StartNode, OperationInv, BatchInFlight
      <3> QED
        BY <1>1, <3>1 DEF BatchInFlight, NothingStarted
    <2>3. CASE EndLoop
      <3>1. /\ pc = "loop" /\ pc' = "wait" /\ running = started
            /\ UNCHANGED <<running, started, ready>>
        BY <1>1, <2>3 DEF EndLoop, OperationInv, BatchInFlight
      <3>2. started = {} => ready = {}
        <4> SUFFICES ASSUME started = {} PROVE ready = {}
          OBVIOUS
        <4>1. running = {} /\ Cardinality(running) = 0
          BY <3>1, FS_EmptySet
        <4>2. ~ (Cardinality(running) >= Jobs)
          BY <4>1, JobsAssumption
        <4>3. \A n \in Nodes : MayStart(n)
          BY <4>1 DEF MayStart
        <4>4. Candidates = ready
          BY <4>1, NothingHeld DEF OperationInv
        <4>5. ready \subseteq Nodes
          BY DEF OperationInv, IInv, TypeOK
        <4> QED
          BY <2>3, <4>2, <4>3, <4>4, <4>5 DEF EndLoop
      <3> QED
        BY <1>1, <3>1, <3>2 DEF BatchInFlight, NothingStarted
    <2> QED
      BY <1>1, <2>1, <2>2, <2>3 DEF Scheduling
  <1> QED
    BY <1>2, <1>3, <1>4, <1>5, <1>6 DEF OperationInv

(* A node whose turn it is exits and is reported as the exit says.         *)
LEMMA OperationExitInv ==
    ASSUME OperationInv, NEW n \in Nodes, NEW code \in {0, 1}, Turn(n), on_exit(n, code),
           n \in op_other => code = 0,
           op_failure' = FirstFailure(code),
           Report(n, IF code # 0 THEN "failed"
                     ELSE IF n \in op_other THEN "skipped" ELSE "succeeded"),
           op_batch' = op_batch \ {n},
           UNCHANGED <<op_at, op_success, op_other>>
    PROVE  OperationInv'
  <1>1. op_at = "batch" /\ op_at' = "batch" /\ n \in op_batch
    BY DEF Turn
  <1>2. /\ IInv'
        /\ running' = running \ {n} /\ pc' = "call" /\ started' = started
        /\ states[n] = "Running"
        /\ states'[n] = IF code = 0 THEN "Succeeded" ELSE "Failed"
        /\ \A m \in Nodes \ {n} : /\ states'[m] \in Exited <=> states[m] \in Exited
                                  /\ states'[m] = "Failed" <=> states[m] = "Failed"
    <2>1. code \in Codes
      BY DEF Codes
    <2>2. started' = started
      BY DEF on_exit
    <2> QED
      BY <2>1, <2>2, ExitStep DEF OperationInv
  <1>3. PoolsCovered'
    BY AnyExit, NextPoolsCovered DEF OperationInv, Next
  <1>4. OperationTypeOK'
    BY <1>1 DEF OperationInv, OperationTypeOK, FirstFailure, Report
  <1>5. BatchInFlight' /\ NothingStarted'
    BY <1>1, <1>2 DEF OperationInv, BatchInFlight, NothingStarted
  <1>6. OperationReported'
    <2>1. op_finished[n] = <<>>
      BY <1>1, <1>2 DEF OperationInv, OperationReported, Exited
    <2> DEFINE outcome == IF code # 0 THEN "failed"
                          ELSE IF n \in op_other THEN "skipped" ELSE "succeeded"
    <2>2. op_finished' = [op_finished EXCEPT ![n] = <<outcome>>]
      BY <2>1 DEF Report
    <2>3. op_finished'[n] = ReportOf(n)' /\ states'[n] \in Exited
      BY <1>2, <2>2 DEF OperationInv, OperationTypeOK, ReportOf, Exited
    <2>4. ASSUME NEW m \in Nodes \ {n}
          PROVE  op_finished'[m] = IF states'[m] \in Exited THEN ReportOf(m)' ELSE <<>>
      <3>1. op_finished'[m] = op_finished[m]
        BY <2>2 DEF OperationInv, OperationTypeOK
      <3> QED
        BY <1>1, <1>2, <3>1 DEF OperationInv, OperationReported, ReportOf
    <2>5. op_failure' # NoFailure <=> \E m \in Nodes : states'[m] = "Failed"
      BY <1>1, <1>2 DEF OperationInv, OperationReported, FirstFailure, NoFailure
    <2> QED
      BY <2>3, <2>4, <2>5 DEF OperationReported
  <1>7. OperationReturned'
    BY <1>1 DEF OperationReturned
  <1> QED
    BY <1>2, <1>3, <1>4, <1>5, <1>6, <1>7 DEF OperationInv

(* Every step of the executor keeps the invariant.                         *)
LEMMA OperationNextInv ==
    OperationInv /\ [OperationNext]_<<vars, op_vars>> => OperationInv'
  <1> SUFFICES ASSUME OperationInv, [OperationNext]_<<vars, op_vars>> PROVE OperationInv'
    OBVIOUS
  <1>1. ASSUME UNCHANGED vars PROVE IInv' /\ PoolsCovered'
    BY <1>1, IInvStutter, NextPoolsCovered DEF OperationInv
  <1> USE DEF OperationTypeOK, BatchInFlight, NothingStarted, OperationReported, ReportOf,
              OperationReturned, Exited
  <1>2. CASE OperationEnd
    <2>1. is_finished
      BY <1>2 DEF OperationEnd, OperationInv, is_finished
    <2> QED
      BY <1>1, <1>2, <2>1 DEF OperationEnd, OperationInv, is_finished, vars
  <1>3. CASE BatchEnds
    BY <1>1, <1>3 DEF BatchEnds, OperationInv, is_finished, vars
  <1>4. CASE OperationOver \/ UNCHANGED <<vars, op_vars>>
    BY <1>1, <1>4 DEF OperationOver, OperationInv, is_finished, vars, op_vars
  <1>5. ASSUME NEW n \in Nodes, HostSkip(n) PROVE OperationInv'
    <2>1. op_failure' = FirstFailure(0)
      BY <1>5 DEF HostSkip, FirstFailure
    <2> QED
      BY <1>5, <2>1, OperationExitInv DEF HostSkip
  <1>6. ASSUME NEW n \in Nodes, PrepareFails(n) PROVE OperationInv'
    BY <1>1, <1>6 DEF PrepareFails, OperationInv, is_finished, vars
  <1>7. ASSUME NEW n \in Nodes, ExecutorFails(n) PROVE OperationInv'
    BY <1>1, <1>7 DEF ExecutorFails, OperationInv, is_finished, vars, Report
  <1>8. ASSUME NEW n \in Nodes, Dispatch(n) PROVE OperationInv'
    <2>1. PICK code \in {0, 1} :
             /\ op_failure' = FirstFailure(code)
             /\ on_exit(n, code)
             /\ Report(n, IF code = 0 THEN "succeeded" ELSE "failed")
      BY <1>8 DEF Dispatch, spawn_argv, record_artifacts
    <2> QED
      BY <1>8, <2>1, OperationExitInv DEF Dispatch
  <1> QED
    BY <1>2, <1>3, <1>4, <1>5, <1>6, <1>7, <1>8, OperationScheduleInv DEF OperationNext

(* The invariant holds in every run.                                       *)
LEMMA OperationInvariance == OperationSpec => []OperationInv
  BY OperationInitInv, OperationNextInv, PTL DEF OperationSpec

(* A run of workflow tasks that returns Ok has settled every node, whatever *)
(* the plan, the pools and the operations' outcomes: that a call of        *)
(* schedule_ready starts nothing ends the loop only when nothing is left,  *)
(* and the exit code, run_completed and the reports all say the same.      *)
THEOREM OperationsAreSettled == OperationSpec => []OperationsSettled
  <1>1. OperationInv => OperationsSettled
    <2> SUFFICES ASSUME OperationInv, op_at = "returned" PROVE OperationsSettled
      BY DEF OperationsSettled
    <2>1. \A n \in Nodes : is_terminal(states[n])
      BY IInvFinished DEF OperationInv, OperationReturned, FinishedIsComplete
    <2>2. op_failure # NoFailure <=> \E n \in Nodes : states[n] = "Failed"
      BY DEF OperationInv, OperationReported
    <2>3. OperationExit = 0 <=> op_failure = NoFailure
      BY DEF OperationExit, OperationInv, OperationTypeOK, NoFailure
    <2>4. op_failure = NoFailure <=> \A n \in Nodes : states[n] = "Succeeded"
      <3>1. op_failure = NoFailure => \A n \in Nodes : states[n] \notin {"Cancelled", "Skipped"}
        BY <2>2, NothingDropped DEF OperationInv
      <3> QED
        BY <2>1, <2>2, <3>1 DEF is_terminal
    <2>5. op_success = (OperationExit = 0)
      BY <2>3, <2>4 DEF OperationInv, OperationReturned
    <2>6. ASSUME NEW n \in Nodes
          PROVE  op_finished[n] =
                    CASE states[n] \in {"Cancelled", "Skipped"} -> <<>>
                      [] states[n] = "Failed"                   -> <<"failed">>
                      [] OTHER -> IF n \in op_other THEN <<"skipped">> ELSE <<"succeeded">>
      BY <2>1 DEF OperationInv, OperationReported, ReportOf, is_terminal, Exited
    <2> QED
      BY <2>1, <2>3, <2>4, <2>5, <2>6 DEF OperationsSettled
  <1> QED
    BY <1>1, OperationInvariance, PTL

(* This executor, too, does nothing to the scheduler that is not a step of *)
(* it, so a node of a workflow never starts before its dependencies.       *)
THEOREM OperationsImplementScheduler == OperationSpec => Spec
  <1>1. [OperationNext]_<<vars, op_vars>> => [Next]_vars
    <2> SUFFICES ASSUME OperationNext PROVE [Next]_vars
      OBVIOUS
    <2>1. ASSUME NEW n \in Nodes, HostSkip(n) \/ Dispatch(n) PROVE Next
      <3>1. \E code : on_exit(n, code)
        BY <2>1 DEF HostSkip, Dispatch
      <3> QED
        BY <3>1, AnyExit DEF Next
    <2>2. ASSUME NEW n \in Nodes, PrepareFails(n) \/ ExecutorFails(n) PROVE UNCHANGED vars
      BY <2>2 DEF PrepareFails, ExecutorFails
    <2>3. CASE OperationEnd \/ BatchEnds \/ OperationOver
      BY <2>3 DEF OperationEnd, BatchEnds, OperationOver
    <2>4. CASE OperationSchedule
      BY <2>4 DEF OperationSchedule, Next
    <2> QED
      BY <2>1, <2>2, <2>3, <2>4 DEF OperationNext
  <1> QED
    BY <1>1, PTL DEF OperationSpec, Spec

-----------------------------------------------------------------------------
(* Watch.                                                                  *)

(* How much prepared state has seen: a number of edits, or nothing yet.    *)
Seen == {None} \cup Nat

WatchTypeOK ==
    /\ w_chan \subseteq WatchFiles /\ w_pending \subseteq WatchFiles
    /\ w_edits \in Nat
    /\ w_version \in [WatchFiles -> Nat]
    /\ \A f \in WatchFiles : w_version[f] <= w_edits
    /\ w_snapshot \in Seen /\ w_plan \in Seen
    /\ w_prepared \in [PlanNodes -> Seen]
    /\ w_memo \in [Inputs -> Seen]
    /\ w_burst \in BOOLEAN

(* A generation runs a plan, and nodes are prepared for a plan.            *)
PreparedForPlan ==
    /\ w_pc = "running" => w_plan # None /\ \A n \in PlanNodes : w_prepared[n] # None
    /\ w_plan = None => \A n \in PlanNodes : w_prepared[n] = None

(* x, if there is any, was made from f as last edited, or the edit is      *)
(* still to be looked at.                                                  *)
UpToDate(f, x) == Unseen(f) \/ x = None \/ w_version[f] <= x

(* What is kept between generations, and not only what a generation runs,  *)
(* has seen every edit: a suppressed batch leaves the loop idle with it.   *)
MetadataSeen ==
    \A f \in MetadataFiles \cap Significant : UpToDate(f, w_snapshot) /\ UpToDate(f, w_plan)

(* The memo too, from which the next prepared node takes its digest.       *)
FileNodes == {n \in PlanNodes : NodeInput[n] \in NodeRoots[n] \cap Significant}

InputsSeen ==
    \A n \in FileNodes :
        /\ UpToDate(NodeInput[n], w_prepared[n])
        /\ UpToDate(NodeInput[n], w_memo[NodeInput[n]])

WatchInv == WatchTypeOK /\ PreparedForPlan /\ (~ w_burst => MetadataSeen /\ InputsSeen)

(* A batch in which no directory is left says of each file that counts     *)
(* that it changed, or that the lockfile did.                              *)
LEMMA KeptSays ==
    ASSUME NEW kept \in coalesce_paths(w_pending), kept \cap WatchDirs = {},
           w_pending \subseteq WatchFiles,
           NEW f \in Significant \cap w_pending
    PROVE  f \in kept \/ kept = {FlakeLock}
<1> DEFINE relevant == Relevant(w_pending)
<1>1. f \in relevant \/ relevant = {FlakeLock}
  BY DEF Relevant, is_fixture_only_batch, collapse_lockfile_batch, drop_owned_outputs, Significant
<1>2. relevant \subseteq WatchFiles
  BY DEF Relevant, collapse_lockfile_batch, drop_owned_outputs
<1>3. PICK bursts \in Bursts(relevant) : kept = collapse_formatter_bursts(relevant, bursts)
  BY DEF coalesce_paths
<1>4. \A g \in relevant : DirOf[g] \in WatchDirs
  BY <1>2, WatchAssumption
<1> HIDE DEF relevant
<1>5. kept = {IF DirOf[g] \in bursts THEN DirOf[g] ELSE g : g \in relevant}
  BY <1>3 DEF collapse_formatter_bursts
<1>6. \A g \in relevant : DirOf[g] \notin bursts
  BY <1>4, <1>5
<1>7. kept = relevant
  BY <1>5, <1>6
<1> QED
  BY <1>1, <1>7

(* The files that the invariant is about count.                            *)
LEMMA FileInputs ==
    ASSUME NEW n \in FileNodes
    PROVE  /\ n \in PlanNodes
           /\ NodeInput[n] \in Significant
           /\ NodeInput[n] \in WatchFiles
           /\ NodeInput[n] \notin WatchDirs
           /\ NodeInput[n] \in Inputs
           /\ Under(NodeInput[n]) = {NodeInput[n]}
<1>1. n \in PlanNodes /\ NodeInput[n] \in NodeRoots[n] \cap Significant
  BY DEF FileNodes
<1>2. NodeInput[n] \in WatchFiles /\ NodeInput[n] \notin WatchDirs
  BY <1>1, WatchAssumption
<1>3. Under(NodeInput[n]) = {NodeInput[n]}
  BY <1>2 DEF Under
<1> QED
  BY <1>1, <1>2, <1>3 DEF Inputs

(* watch_top: the batch decides what is forgotten.                         *)
LEMMA WatchTop ==
    ASSUME WatchInv, watch_top PROVE WatchInv'
<1> USE DEF WatchInv, Seen
<1>1. PICK kept \in coalesce_paths(w_pending) :
        /\ \/ /\ ~ w_first /\ kept = {}
              /\ w_pc' = "suppressed"
              /\ UNCHANGED <<w_snapshot, w_plan, w_owned, w_memo, w_prepared>>
           \/ /\ w_first \/ kept # {}
              /\ w_pc' = "prepare"
              /\ apply_restart_classification(kept)
        /\ w_burst' = (w_burst \/ kept \cap WatchDirs # {})
  BY DEF watch_top
<1>2. /\ w_pending' = {}
      /\ UNCHANGED <<w_chan, w_edits, w_version>>
  BY DEF watch_top
<1> DEFINE metadata == kept \cap MetadataFiles # {}
           source == kept # {} /\ ~ metadata
<1>3. /\ w_snapshot' = IF metadata THEN None ELSE w_snapshot
      /\ w_plan' = IF metadata THEN None ELSE w_plan
      /\ w_memo' = [x \in Inputs |-> IF metadata \/ (source /\ x \in kept) THEN None ELSE w_memo[x]]
      /\ w_prepared' = [n \in PlanNodes |-> IF metadata \/ (source /\ n \in DroppedNodes(kept))
                                            THEN None ELSE w_prepared[n]]
  <2>1. CASE kept = {} /\ UNCHANGED <<w_snapshot, w_plan, w_memo, w_prepared>>
    BY <2>1 DEF WatchTypeOK
  <2>2. CASE apply_restart_classification(kept)
    <3> DEFINE class == classify_pending_changes(kept)
    <3>1. /\ (class = "metadata") = metadata
          /\ (class = "source") = source
      BY DEF classify_pending_changes
    <3>2. /\ w_snapshot' = IF class = "metadata" THEN None ELSE w_snapshot
          /\ w_plan' = IF class = "metadata" THEN None ELSE w_plan
          /\ w_memo' = [x \in Inputs |->
                IF class = "metadata" \/ (class = "source" /\ x \in kept) THEN None ELSE w_memo[x]]
          /\ w_prepared' = [n \in PlanNodes |->
                IF class = "metadata" \/ (class = "source" /\ n \in DroppedNodes(kept))
                THEN None ELSE w_prepared[n]]
      BY <2>2 DEF apply_restart_classification
    <3> HIDE DEF class, metadata, source
    <3> QED
      BY <3>1, <3>2
  <2> QED
    BY <1>1, <2>1, <2>2
<1>4. w_pc' # "running"
  BY <1>1
<1> HIDE DEF metadata, source
<1>5. WatchTypeOK'
  BY <1>1, <1>2, <1>3 DEF WatchTypeOK
<1>6. PreparedForPlan'
  BY <1>3, <1>4 DEF PreparedForPlan
<1>7. ASSUME ~ w_burst' PROVE MetadataSeen' /\ InputsSeen'
  <2>1. ~ w_burst /\ kept \cap WatchDirs = {}
    BY <1>1, <1>7 DEF WatchTypeOK
  <2>2. \A f \in Significant \cap w_pending : f \in kept \/ kept = {FlakeLock}
    BY <2>1, KeptSays DEF WatchTypeOK
  <2>3. \A f \in Significant \cap w_pending : metadata \/ (source /\ f \in kept)
    BY <2>2, WatchAssumption DEF metadata, source
  <2>4. \A f \in MetadataFiles \cap Significant \cap w_pending : metadata
    BY <2>3 DEF metadata, source
  <2>5. MetadataSeen'
    BY <1>2, <1>3, <2>1, <2>4 DEF MetadataSeen, UpToDate, Unseen
  <2>6. ASSUME NEW n \in FileNodes
        PROVE  /\ UpToDate(NodeInput[n], w_prepared[n])'
               /\ UpToDate(NodeInput[n], w_memo[NodeInput[n]])'
    <3> DEFINE f == NodeInput[n]
    <3>1. /\ UpToDate(f, w_prepared[n]) /\ UpToDate(f, w_memo[f])
          /\ n \in PlanNodes /\ f \in Inputs /\ f \in Significant /\ f \notin WatchDirs
          /\ f \in NodeRoots[n]
      BY <2>1, FileInputs DEF InputsSeen, FileNodes
    <3>2. f \in kept => w_plan = None \/ n \in DroppedNodes(kept)
      BY <3>1 DEF DroppedNodes, affected_plan_node_ids, path_matches_roots
    <3>3. w_plan = None => w_prepared[n] = None
      BY <3>1 DEF PreparedForPlan
    <3>4. f \in w_pending => metadata \/ (source /\ f \in kept)
      BY <2>3, <3>1
    <3>5. /\ w_memo'[f] = IF metadata \/ (source /\ f \in kept) THEN None ELSE w_memo[f]
          /\ w_prepared'[n] = IF metadata \/ (source /\ n \in DroppedNodes(kept))
                              THEN None ELSE w_prepared[n]
      BY <1>3, <3>1
    <3> HIDE DEF f
    <3>6. UpToDate(f, w_prepared[n])'
      BY <1>2, <3>1, <3>2, <3>3, <3>4, <3>5 DEF UpToDate, Unseen, f
    <3>7. UpToDate(f, w_memo[f])'
      BY <1>2, <3>1, <3>4, <3>5 DEF UpToDate, Unseen, f
    <3> QED
      BY <3>6, <3>7 DEF f
  <2>7. InputsSeen'
    BY <2>6 DEF InputsSeen
  <2> QED
    BY <2>5, <2>7
<1> QED
  BY <1>5, <1>6, <1>7

(* run_generation: what was forgotten is made again, from the files of now *)
(* or from the memo, which has seen every edit too.                        *)
LEMMA WatchRun ==
    ASSUME WatchInv, run_generation PROVE WatchInv'
<1> USE DEF WatchInv, Seen
<1>1. /\ w_snapshot' = IF w_snapshot = None THEN w_edits ELSE w_snapshot
      /\ w_plan' = IF w_plan = None THEN w_snapshot' ELSE w_plan
      /\ w_prepared' = [n \in PlanNodes |->
             IF w_prepared[n] # None THEN w_prepared[n]
             ELSE IF w_plan # None THEN Digest(NodeInput[n]) ELSE w_edits]
      /\ UNCHANGED <<w_chan, w_pending, w_edits, w_version, w_burst>>
  BY DEF run_generation
<1>2. w_memo' \in [Inputs -> Seen]
      /\ \A x \in Inputs : w_memo'[x] \in {w_memo[x], Digest(x)}
  <2>1. \A x \in Inputs : Digest(x) \in Nat
    BY DEF Digest, WatchTypeOK, None
  <2> QED
    BY <2>1 DEF run_generation, WatchTypeOK
<1>3. \A x \in Inputs : Digest(x) \in Nat
  BY DEF Digest, WatchTypeOK, None
<1>4. w_snapshot' \in Nat /\ w_plan' \in Nat
  BY <1>1 DEF WatchTypeOK, None
<1>5. \A n \in PlanNodes : w_prepared'[n] \in Nat
  BY <1>1, <1>3 DEF WatchTypeOK, None, Inputs
<1>6. WatchTypeOK'
  BY <1>1, <1>2, <1>4, <1>5 DEF WatchTypeOK
<1>7. PreparedForPlan'
  BY <1>4, <1>5 DEF PreparedForPlan, None
<1>8. ASSUME ~ w_burst PROVE MetadataSeen' /\ InputsSeen'
  <2>1. MetadataSeen'
    <3> SUFFICES ASSUME NEW f \in MetadataFiles \cap Significant, ~ Unseen(f)
                 PROVE  w_version[f] <= w_snapshot' /\ w_version[f] <= w_plan'
      BY <1>1 DEF MetadataSeen, UpToDate, Unseen
    <3>1. w_version[f] <= w_edits /\ f \in WatchFiles
      BY DEF WatchTypeOK, Significant
    <3>2. /\ w_snapshot = None \/ w_version[f] <= w_snapshot
          /\ w_plan = None \/ w_version[f] <= w_plan
      BY <1>8 DEF MetadataSeen, UpToDate
    <3> QED
      BY <1>1, <3>1, <3>2
  <2>2. ASSUME NEW n \in FileNodes, ~ Unseen(NodeInput[n])
        PROVE  /\ w_version[NodeInput[n]] <= w_prepared'[n]
               /\ w_memo'[NodeInput[n]] = None \/ w_version[NodeInput[n]] <= w_memo'[NodeInput[n]]
    <3> DEFINE f == NodeInput[n]
    <3>1. n \in PlanNodes /\ f \in Inputs /\ f \in WatchFiles
      BY FileInputs
    <3>2. /\ w_version[f] <= w_edits
          /\ w_prepared[n] = None \/ w_version[f] <= w_prepared[n]
          /\ w_memo[f] = None \/ w_version[f] <= w_memo[f]
      BY <1>8, <2>2, <3>1 DEF InputsSeen, UpToDate, WatchTypeOK
    <3>3. w_version[f] <= Digest(f)
      BY <3>2 DEF Digest
    <3>4. w_memo'[f] \in {w_memo[f], Digest(f)}
      BY <1>2, <3>1
    <3> HIDE DEF f
    <3>5. w_version[f] <= w_prepared'[n]
      BY <1>1, <3>1, <3>2, <3>3 DEF f
    <3>6. w_memo'[f] = None \/ w_version[f] <= w_memo'[f]
      BY <3>2, <3>3, <3>4
    <3> QED
      BY <3>5, <3>6 DEF f
  <2>3. InputsSeen'
    BY <1>1, <2>2 DEF InputsSeen, UpToDate, Unseen
  <2> QED
    BY <2>1, <2>3
<1> QED
  BY <1>1, <1>6, <1>7, <1>8

(* The steps of the loop that neither look at a batch nor prepare.         *)
LEMMA WatchRest ==
    ASSUME WatchInv,
           w_pc' = "running" => w_pc = "running",
           UNCHANGED <<w_edits, w_version, w_snapshot, w_plan, w_prepared, w_memo, w_burst>>,
           w_chan \cup w_pending \subseteq (w_chan \cup w_pending)',
           (w_chan \cup w_pending)' \subseteq WatchFiles
    PROVE  WatchInv'
<1>1. WatchTypeOK'
  BY DEF WatchInv, WatchTypeOK
<1>2. PreparedForPlan'
  BY DEF WatchInv, PreparedForPlan
<1>3. \A f : Unseen(f) => Unseen(f)'
  BY DEF Unseen
<1>4. ~ w_burst => MetadataSeen' /\ InputsSeen'
  BY <1>3 DEF WatchInv, MetadataSeen, InputsSeen, UpToDate
<1> QED
  BY <1>1, <1>2, <1>4 DEF WatchInv

(* An edit is unseen at first.                                             *)
LEMMA WatchEdited ==
    ASSUME WatchInv, NEW f \in WatchFiles, WatchEdit(f) PROVE WatchInv'
<1> USE DEF WatchInv
<1>1. WatchTypeOK'
  BY DEF WatchEdit, WatchTypeOK
<1>2. PreparedForPlan'
  BY DEF WatchEdit, PreparedForPlan
<1>3. \A g \in WatchFiles : Unseen(g)' \/ (~ Unseen(g) /\ w_version'[g] = w_version[g])
  BY DEF WatchEdit, WatchTypeOK, Unseen
<1>4. UNCHANGED <<w_snapshot, w_plan, w_prepared, w_memo, w_burst>>
  BY DEF WatchEdit
<1>5. ~ w_burst => MetadataSeen'
  BY <1>3, <1>4 DEF MetadataSeen, UpToDate, Significant
<1>6. ~ w_burst => InputsSeen'
  BY <1>3, <1>4, FileInputs DEF InputsSeen, UpToDate
<1> QED
  BY <1>1, <1>2, <1>4, <1>5, <1>6

(* Every step of the loop and of the world keeps the invariant.            *)
LEMMA WatchInvInductive == WatchInv /\ [WatchNext]_watch_vars => WatchInv'
<1> SUFFICES ASSUME WatchInv, [WatchNext]_watch_vars PROVE WatchInv'
  OBVIOUS
<1>2. w_chan \subseteq WatchFiles /\ w_pending \subseteq WatchFiles
  BY DEF WatchInv, WatchTypeOK
<1>3. CASE watch_top
  BY <1>3, WatchTop
<1>4. CASE run_generation
  BY <1>4, WatchRun
<1>5. CASE prepare_fails \/ QuietWindow \/ GenerationExits \/ WatchInterrupted \/ poll_restart
  BY <1>5, <1>2, WatchRest
     DEF prepare_fails, QuietWindow, GenerationExits, WatchInterrupted, poll_restart, WatchKeeps
<1>6. CASE drain_events
  BY <1>6, <1>2, WatchRest DEF drain_events, WatchKeeps
<1>7. ASSUME NEW f \in WatchFiles \ OwnedFiles, WatchEdit(f) PROVE WatchInv'
  BY <1>7, WatchEdited
<1>8. ASSUME NEW f \in OwnedFiles, GenerationWrites(f) PROVE WatchInv'
  <2>1. f \in WatchFiles
    BY WatchAssumption
  <2> QED
    BY <1>8, <1>2, <2>1, WatchRest DEF GenerationWrites
<1>9. CASE UNCHANGED watch_vars
  BY <1>9, <1>2, WatchRest DEF watch_vars
<1> QED
  BY <1>3, <1>4, <1>5, <1>6, <1>7, <1>8, <1>9 DEF WatchNext, WatchLoop

(* However edits, quiet windows, suppressed batches, failures and restarts *)
(* follow each other, a generation runs the plan of the metadata, and      *)
(* prepared nodes of the inputs, as they were last edited, as far as the   *)
(* loop has seen the edits.                                                *)
THEOREM GenerationsCurrent == WatchSpec => []GenerationCurrent
<1>1. WatchInit => WatchInv
  <2> SUFFICES ASSUME WatchInit PROVE WatchInv
    OBVIOUS
  <2>1. WatchTypeOK
    <3>1. w_burst \in BOOLEAN
      BY DEF WatchInit, WatchFresh
    <3>2. \A f \in WatchFiles : w_version[f] = 0
      BY DEF WatchInit, WatchFresh
    <3>3. /\ w_version \in [WatchFiles -> Nat]
          /\ w_prepared \in [PlanNodes -> Seen]
          /\ w_memo \in [Inputs -> Seen]
      BY DEF WatchInit, WatchFresh, Seen
    <3> QED
      BY <3>1, <3>2, <3>3 DEF WatchInit, WatchFresh, WatchTypeOK, Seen
  <2>2. PreparedForPlan
    BY DEF WatchInit, WatchFresh, PreparedForPlan
  <2>3. MetadataSeen
    BY DEF WatchInit, WatchFresh, MetadataSeen, UpToDate
  <2>4. InputsSeen
    BY FileInputs DEF WatchInit, WatchFresh, InputsSeen, UpToDate
  <2> QED
    BY <2>1, <2>2, <2>3, <2>4 DEF WatchInv
<1>2. WatchInv => GenerationCurrent
  <2> SUFFICES ASSUME WatchInv, w_pc = "running", ~ w_burst
               PROVE  PlanSeesMetadata /\ \A n \in FileNodes : KeyCurrent(n)
    BY DEF GenerationCurrent, PlanCurrent, FileKeyCurrent, FileNodes
  <2>1. w_plan # None /\ \A n \in PlanNodes : w_prepared[n] # None
    BY DEF WatchInv, PreparedForPlan
  <2>2. PlanSeesMetadata
    BY <2>1 DEF WatchInv, MetadataSeen, UpToDate, PlanSeesMetadata
  <2>3. \A n \in FileNodes : KeyCurrent(n)
    BY <2>1, FileInputs DEF WatchInv, InputsSeen, UpToDate, KeyCurrent
  <2> QED
    BY <2>2, <2>3
<1> QED
  BY <1>1, <1>2, WatchInvInductive, PTL DEF WatchSpec

-----------------------------------------------------------------------------
(* What a node is spawned with                                             *)

SpawnPlaces == {"confirm", "authorize", "resolve", "running", "exited", "refused"}

EnvValues == {"none", "caller", "cli", "context", "param", "matrix", "secret", "path", "temp"}

(* The slots before k that set the variable v.                             *)
SlotsBefore(k, v) ==
    {i \in DOMAIN se_req.secrets : /\ i < k /\ se_req.secrets[i].name = v
                                   /\ se_req.secrets[i].delivery # "stdin"}

SpawnEnvInv ==
    /\ se_req \in EnvRequests /\ se_pc \in SpawnPlaces /\ se_next \in Nat \ {0}
    /\ se_over \in [EnvVars -> EnvValues]
    /\ se_pc \in {"confirm", "authorize"} => se_next = 1
    /\ se_pc = "resolve" =>
          /\ NeedsTrust => se_req.trust # "missing"
          /\ \A v \in EnvVars :
                /\ SlotsBefore(se_next, v) # {} => se_over[v] \in {"secret", "path", "temp"}
                /\ SlotsBefore(se_next, v) = {} => se_over[v] = EffectivePolicy.set[v]
                /\ se_over[v] = "temp" => se_files # {}
    /\ SpawnGoverned

Sides(cli, context) ==
    {s \in {cli, context} : s.mode = IF "clean" \in {cli.mode, context.mode} THEN "clean" ELSE "inherit"}

(* What merging two policies makes of one variable.                        *)
LEMMA MergedPolicy ==
    ASSUME NEW cli \in EnvPolicies("cli"), NEW context \in EnvPolicies("context"), NEW v \in EnvVars
    PROVE  LET p == merge_environment_policies(cli, context)
               sides == Sides(cli, context)
           IN  /\ v \in p.unset <=> \E s \in sides : v \in s.unset
               /\ p.set[v] = IF context \in sides /\ context.set[v] # "none" THEN "context"
                             ELSE IF cli \in sides /\ cli.set[v] # "none" THEN "cli" ELSE "none"
               /\ (p.mode # "clean" \/ v \in Allowlisted \cup p.keep)
                     <=> (sides = {} \/ \E s \in sides : s.mode = "inherit" \/ v \in s.keep \cup Allowlisted)
<1> DEFINE p == merge_environment_policies(cli, context)
           sides == Sides(cli, context)
<1>1. /\ cli.keep \subseteq EnvVars /\ cli.unset \subseteq EnvVars /\ cli.set \in Assignments("cli")
      /\ cli.mode \in {"plain", "inherit", "clean"}
      /\ cli.mode = "plain" => cli.keep = {} /\ cli.unset = {} /\ cli.set = NoAssignment
  BY DEF EnvPolicies, PlainInherit, Assignments, NoAssignment
<1>2. /\ context.keep \subseteq EnvVars /\ context.unset \subseteq EnvVars
      /\ context.set \in Assignments("context")
      /\ context.mode \in {"plain", "inherit", "clean"}
      /\ context.mode = "plain" => context.keep = {} /\ context.unset = {} /\ context.set = NoAssignment
  BY DEF EnvPolicies, PlainInherit, Assignments, NoAssignment
<1>3. /\ cli.set[v] \in {"none", "cli"} /\ context.set[v] \in {"none", "context"}
      /\ merge_spawn_env_overrides(cli.set, context.set)[v]
            = IF context.set[v] # "none" THEN context.set[v] ELSE cli.set[v]
      /\ NoAssignment[v] = "none"
  BY <1>1, <1>2 DEF Assignments, merge_spawn_env_overrides, NoAssignment
<1>4. CASE context.mode = "plain"
  <2>1. p = cli
    BY <1>4 DEF merge_environment_policies
  <2>2. sides = IF cli.mode = "plain" THEN {} ELSE {cli}
    BY <1>1, <1>4 DEF Sides
  <2>3. cli.mode # "plain" => cli # context
    BY <1>4
  <2> QED
    BY <1>1, <1>2, <1>3, <1>4, <2>1, <2>2, <2>3
<1>5. CASE context.mode # "plain" /\ cli.mode = "plain"
  <2>1. p = context
    BY <1>5 DEF merge_environment_policies
  <2>2. sides = {context} /\ cli # context
    BY <1>2, <1>5 DEF Sides
  <2> QED
    BY <1>1, <1>2, <1>3, <1>5, <2>1, <2>2
<1>6. CASE context.mode # "plain" /\ cli.mode = context.mode
  <2> DEFINE keep == cli.keep \cup context.keep
             set == merge_spawn_env_overrides(cli.set, context.set)
             unset == cli.unset \cup context.unset
  <2>1. sides = {cli, context}
    BY <1>1, <1>2, <1>6 DEF Sides
  <2>2. /\ p.unset = unset /\ p.set = set
        /\ (p.mode = "clean") <=> (cli.mode = "clean")
        /\ cli.mode = "clean" => p.keep = keep
    <3>1. p = merge_policy_fields(cli, context)
      BY <1>6 DEF merge_environment_policies
    <3>2. CASE cli.mode = "clean"
      BY <3>1, <3>2 DEF merge_policy_fields, CleanPolicy
    <3>3. CASE cli.mode # "clean"
      <4>1. p = inherit_with(keep, set, unset)
        BY <3>1, <3>3 DEF merge_policy_fields
      <4> HIDE DEF keep, set, unset, p
      <4> QED
        BY <3>3, <4>1 DEF inherit_with, PlainInherit
    <3> QED
      BY <3>2, <3>3
  <2> HIDE DEF p, sides, set
  <2>3. set[v] = IF context.set[v] # "none" THEN context.set[v] ELSE cli.set[v]
    BY <1>3 DEF set
  <2> QED
    BY <1>1, <1>2, <1>3, <1>6, <2>1, <2>2, <2>3 DEF p, sides
<1>7. CASE context.mode # "plain" /\ cli.mode # "plain" /\ cli.mode # context.mode
  <2>1. cli # context
    BY <1>7
  <2>2. CASE cli.mode = "clean"
    <3>1. p = cli /\ sides = {cli}
      BY <1>2, <1>7, <2>2 DEF merge_environment_policies, Sides
    <3> QED
      BY <1>1, <1>3, <2>1, <2>2, <3>1
  <2>3. CASE cli.mode # "clean"
    <3>1. p = context /\ sides = {context}
      BY <1>1, <1>2, <1>7, <2>3 DEF merge_environment_policies, Sides
    <3>2. context.mode = "clean"
      BY <1>1, <1>2, <1>7, <2>3
    <3> QED
      BY <1>2, <1>3, <2>1, <3>1, <3>2
  <2> QED
    BY <2>2, <2>3
<1> QED
  BY <1>4, <1>5, <1>6, <1>7

(* The request has the types the documents give it.                        *)
LEMMA RequestTyped ==
    ASSUME se_req \in EnvRequests
    PROVE  /\ se_req \in EnvRequestShape
           /\ se_req.secrets \in Seq(SecretSlots)
           /\ EffectivePolicy.set \in [EnvVars -> EnvValues]
<1>1. se_req \in EnvRequestShape /\ se_req.secrets \in Seq(SecretSlots)
      /\ se_req.cli \in EnvPolicies("cli") /\ se_req.context \in EnvPolicies("context")
  BY EnvAssumption DEF EnvRequestShape
<1>2. /\ se_req.cli.set \in [EnvVars -> EnvValues] /\ se_req.context.set \in [EnvVars -> EnvValues]
      /\ NoAssignment \in [EnvVars -> EnvValues]
  <2>1. NoAssignment \in [EnvVars -> EnvValues]
    BY DEF NoAssignment, EnvValues
  <2>2. /\ se_req.cli.set \in Assignments("cli") \cup {NoAssignment}
        /\ se_req.context.set \in Assignments("context") \cup {NoAssignment}
    BY <1>1 DEF EnvPolicies, PlainInherit
  <2> QED
    BY <2>1, <2>2 DEF Assignments, EnvValues
<1>3. \A a, b \in [EnvVars -> EnvValues] : merge_spawn_env_overrides(a, b) \in [EnvVars -> EnvValues]
  BY DEF merge_spawn_env_overrides
<1>4. merge_spawn_env_overrides(se_req.cli.set, se_req.context.set) \in [EnvVars -> EnvValues]
  BY <1>2, <1>3
<1>5. EffectivePolicy.set \in {se_req.cli.set, se_req.context.set, NoAssignment,
                               merge_spawn_env_overrides(se_req.cli.set, se_req.context.set)}
  BY DEF EffectivePolicy, merge_environment_policies, merge_policy_fields, CleanPolicy, inherit_with,
         PlainInherit
<1> QED
  BY <1>1, <1>2, <1>4, <1>5

(* An error leaves no file of a secret behind.                             *)
LEMMA Refused == ASSUME SpawnEnvInv, Refuse PROVE SpawnEnvInv'
  BY DEF SpawnEnvInv, Refuse, SpawnPlaces, SpawnGoverned, NeedsTrust

(* A slot resolved adds itself to those that set its variable.             *)
LEMMA SlotResolves == ASSUME SpawnEnvInv, resolve_context_secrets PROVE SpawnEnvInv'
<1> DEFINE slot == se_req.secrets[se_next]
<1>1. /\ se_req \in EnvRequests /\ se_next \in Nat \ {0} /\ se_over \in [EnvVars -> EnvValues]
      /\ se_pc = "resolve" /\ se_next <= Len(se_req.secrets)
      /\ NeedsTrust => se_req.trust # "missing"
      /\ se_req.secrets \in Seq(SecretSlots) /\ se_next \in DOMAIN se_req.secrets
  BY RequestTyped DEF SpawnEnvInv, resolve_context_secrets
<1>2. slot.name \in EnvVars
  <2>1. slot \in SecretSlots
    BY <1>1
  <2> QED
    BY <2>1 DEF SecretSlots
<1>3. CASE Refuse
  BY <1>3, Refused
<1>4. ASSUME NEW value \in {"secret", "path", "temp"},
             se_over' = [se_over EXCEPT ![slot.name] = value], slot.delivery # "stdin",
             value = "temp" => se_files' # {}, se_files \subseteq se_files',
             se_next' = se_next + 1, UNCHANGED <<se_req, se_pc, se_env>>
      PROVE  SpawnEnvInv'
  <2>1. se_over' \in [EnvVars -> EnvValues] /\ se_next' \in Nat \ {0}
    <3>1. value \in EnvValues /\ se_next + 1 \in Nat \ {0}
      BY <1>1, <1>4 DEF EnvValues
    <3> HIDE DEF slot
    <3> QED
      BY <1>1, <1>2, <1>4, <3>1
  <2>2. ASSUME NEW v \in EnvVars
        PROVE  /\ SlotsBefore(se_next, v)' # {} => se_over'[v] \in {"secret", "path", "temp"}
               /\ SlotsBefore(se_next, v)' = {} => se_over'[v] = EffectivePolicy.set[v]
               /\ se_over'[v] = "temp" => se_files' # {}
    <3>1. CASE v = slot.name
      <4>1. se_next \in SlotsBefore(se_next, v)'
        BY <1>1, <1>4, <3>1 DEF SlotsBefore
      <4> QED
        BY <1>1, <1>2, <1>4, <3>1, <4>1
    <3>2. CASE v # slot.name
      <4>1. SlotsBefore(se_next, v)' = SlotsBefore(se_next, v)
        <5>1. \A i \in DOMAIN se_req.secrets :
                 (i < se_next + 1 /\ se_req.secrets[i].name = v)
                    <=> (i < se_next /\ se_req.secrets[i].name = v)
          BY <1>1, <3>2
        <5> QED
          BY <1>4, <5>1 DEF SlotsBefore
      <4>2. se_over'[v] = se_over[v]
        BY <1>1, <1>4, <3>2
      <4> QED
        BY <1>1, <1>4, <4>1, <4>2 DEF SpawnEnvInv
    <3> QED
      BY <3>1, <3>2
  <2> QED
    BY <1>1, <1>4, <2>1, <2>2 DEF SpawnEnvInv, SpawnPlaces, SpawnGoverned, NeedsTrust, EffectivePolicy
<1>5. CASE slot.delivery = "stdin" /\ se_next' = se_next + 1 /\ UNCHANGED <<se_req, se_pc, se_env, se_over, se_files>>
  <2>1. ASSUME NEW v \in EnvVars PROVE SlotsBefore(se_next, v)' = SlotsBefore(se_next, v)
    <3>1. \A i \in DOMAIN se_req.secrets :
             (i < se_next + 1 /\ se_req.secrets[i].delivery # "stdin")
                <=> (i < se_next /\ se_req.secrets[i].delivery # "stdin")
      BY <1>1, <1>5
    <3> QED
      BY <1>5, <3>1 DEF SlotsBefore
  <2>2. se_next' \in Nat \ {0}
    BY <1>1, <1>5
  <2> QED
    BY <1>1, <1>5, <2>1, <2>2 DEF SpawnEnvInv, SpawnPlaces, SpawnGoverned, NeedsTrust, EffectivePolicy
<1> QED
  BY <1>3, <1>4, <1>5 DEF resolve_context_secrets

(* The child's environment, variable by variable.                          *)
LEMMA NodeSpawns == ASSUME SpawnEnvInv, SpawnNode PROVE SpawnEnvInv'
<1> DEFINE over == merge_spawn_env_overrides(
                       merge_spawn_env_overrides(se_over, se_req.param), se_req.matrix)
           p == EffectivePolicy
           sides == Sides(se_req.cli, se_req.context)
<1>1. /\ se_req \in EnvRequests /\ se_req \in EnvRequestShape /\ se_next \in Nat \ {0}
      /\ se_over \in [EnvVars -> EnvValues] /\ p.set \in [EnvVars -> EnvValues]
      /\ se_pc = "resolve" /\ se_next > Len(se_req.secrets)
      /\ NeedsTrust => se_req.trust # "missing"
      /\ se_req.secrets \in Seq(SecretSlots)
  BY RequestTyped DEF SpawnEnvInv, SpawnNode
<1>2. CASE Refuse
  BY <1>2, Refused
<1>3. CASE /\ se_env' = apply_with_overrides(p, se_req.caller, over)
           /\ se_over' = over /\ se_pc' = "running"
           /\ UNCHANGED <<se_req, se_next, se_stdin, se_files>>
  <2>1. /\ se_req.cli \in EnvPolicies("cli") /\ se_req.context \in EnvPolicies("context")
        /\ se_req.caller \in Assignments("caller") /\ se_req.param \in Assignments("param")
        /\ se_req.matrix \in Assignments("matrix")
    BY <1>1 DEF EnvRequestShape
  <2>2. ASSUME NEW v \in EnvVars
        PROVE  over[v] = IF se_req.matrix[v] # "none" THEN "matrix"
                         ELSE IF se_req.param[v] # "none" THEN "param" ELSE se_over[v]
    BY <2>1 DEF merge_spawn_env_overrides, Assignments
  <2>3. over \in [EnvVars -> EnvValues]
    <3>1. \A v \in EnvVars : over[v] \in EnvValues
      BY <1>1, <2>2 DEF EnvValues
    <3> QED
      BY <3>1 DEF merge_spawn_env_overrides
  <2>4. ASSUME NEW v \in EnvVars
        PROVE  se_env'[v] = IF v \in p.unset THEN "none" ELSE IF over[v] # "none" THEN over[v]
                            ELSE IF p.set[v] # "none" THEN p.set[v]
                            ELSE IF p.mode # "clean" \/ v \in Allowlisted \cup p.keep
                                 THEN se_req.caller[v] ELSE "none"
    <3> HIDE DEF over, p
    <3> QED
      BY <1>3 DEF apply_with_overrides, merge_spawn_env_overrides
  <2>5. ASSUME NEW v \in EnvVars
        PROVE  /\ se_env'[v] \in DocumentedValue(v)
               /\ se_env'[v] = "temp" => se_files # {}
    <3> DEFINE slots == {i \in DOMAIN se_req.secrets : se_req.secrets[i].name = v
                                                       /\ se_req.secrets[i].delivery # "stdin"}
    <3>1. SlotsBefore(se_next, v) = slots
      BY <1>1 DEF SlotsBefore
    <3>2. /\ slots # {} => se_over[v] \in {"secret", "path", "temp"}
          /\ slots = {} => se_over[v] = p.set[v]
          /\ se_over[v] = "temp" => se_files # {}
      BY <1>1, <3>1 DEF SpawnEnvInv
    <3>3. /\ v \in p.unset <=> \E s \in sides : v \in s.unset
          /\ p.set[v] = IF se_req.context \in sides /\ se_req.context.set[v] # "none" THEN "context"
                        ELSE IF se_req.cli \in sides /\ se_req.cli.set[v] # "none" THEN "cli" ELSE "none"
          /\ (p.mode # "clean" \/ v \in Allowlisted \cup p.keep)
                <=> (sides = {} \/ \E s \in sides : s.mode = "inherit" \/ v \in s.keep \cup Allowlisted)
      BY <2>1, MergedPolicy DEF EffectivePolicy
    <3>4. se_req.caller[v] \in {"none", "caller"}
      BY <2>1 DEF Assignments
    <3>5. DocumentedValue(v) =
             IF \E s \in sides : v \in s.unset THEN {"none"}
             ELSE IF se_req.matrix[v] # "none" THEN {"matrix"}
             ELSE IF se_req.param[v] # "none" THEN {"param"}
             ELSE IF slots # {} THEN {"secret", "path", "temp"}
             ELSE IF se_req.context \in sides /\ se_req.context.set[v] # "none" THEN {"context"}
             ELSE IF se_req.cli \in sides /\ se_req.cli.set[v] # "none" THEN {"cli"}
             ELSE IF sides = {} \/ \E s \in sides : s.mode = "inherit" \/ v \in s.keep \cup Allowlisted
                  THEN {se_req.caller[v]} ELSE {"none"}
      BY DEF DocumentedValue, Sides
    <3>6. over[v] = IF se_req.matrix[v] # "none" THEN "matrix"
                    ELSE IF se_req.param[v] # "none" THEN "param" ELSE se_over[v]
      BY <2>2
    <3>7. se_env'[v] = IF v \in p.unset THEN "none" ELSE IF over[v] # "none" THEN over[v]
                       ELSE IF p.set[v] # "none" THEN p.set[v]
                       ELSE IF p.mode # "clean" \/ v \in Allowlisted \cup p.keep
                            THEN se_req.caller[v] ELSE "none"
      BY <2>4
    <3> HIDE DEF over, p, sides, slots
    <3>8. se_env'[v] = "temp" => se_over[v] = "temp"
      BY <3>3, <3>4, <3>6, <3>7
    <3> QED
      BY <3>2, <3>3, <3>5, <3>6, <3>7, <3>8
  <2>6. SpawnGoverned'
    <3>1. \A v \in EnvVars : DocumentedValue(v)' = DocumentedValue(v)
      BY <1>3 DEF DocumentedValue
    <3>2. NeedsTrust' <=> NeedsTrust
      BY <1>3 DEF NeedsTrust
    <3> QED
      BY <1>1, <1>3, <2>5, <3>1, <3>2 DEF SpawnGoverned
  <2> QED
    BY <1>1, <1>3, <2>3, <2>6 DEF SpawnEnvInv, SpawnPlaces
<1> QED
  BY <1>2, <1>3 DEF SpawnNode

(* What the context and the command line ask for is what the child gets,   *)
(* and no file of a secret outlives it: while the slots are resolved, the  *)
(* overrides are the merged policy under the slots before the next.        *)
THEOREM SpawnsGoverned == SpawnEnvSpec => []SpawnGoverned
<1>1. SpawnEnvInit => SpawnEnvInv
  BY DEF SpawnEnvInit, SpawnEnvInv, SpawnPlaces, NoAssignment, EnvValues, SpawnGoverned
<1>2. SpawnEnvInv /\ [SpawnEnvNext]_se_vars => SpawnEnvInv'
  <2> SUFFICES ASSUME SpawnEnvInv, [SpawnEnvNext]_se_vars PROVE SpawnEnvInv'
    OBVIOUS
  <2>1. CASE UNCHANGED se_vars
    <3>1. UNCHANGED <<se_req, se_pc, se_next, se_over, se_stdin, se_files, se_env>>
      BY <2>1 DEF se_vars
    <3>2. (NeedsTrust' <=> NeedsTrust) /\ EffectivePolicy' = EffectivePolicy
      BY <3>1 DEF NeedsTrust, EffectivePolicy
    <3>3. \A v \in EnvVars : /\ SlotsBefore(se_next, v)' = SlotsBefore(se_next, v)
                             /\ DocumentedValue(v)' = DocumentedValue(v)
      BY <3>1 DEF SlotsBefore, DocumentedValue
    <3> QED
      BY <3>1, <3>2, <3>3 DEF SpawnEnvInv, SpawnGoverned
  <2>2. CASE enforce_context_confirm
    <3>1. CASE Refuse
      BY <3>1, Refused
    <3>2. CASE se_pc = "confirm" /\ se_pc' = "authorize"
               /\ UNCHANGED <<se_req, se_next, se_over, se_stdin, se_files, se_env>>
      BY <3>2 DEF SpawnEnvInv, SpawnPlaces, SpawnGoverned
    <3> QED
      BY <2>2, <3>1, <3>2 DEF enforce_context_confirm
  <2>3. CASE authorize_secret_refs
    <3>1. CASE NeedsTrust /\ se_req.trust = "missing"
      BY <2>3, <3>1, Refused DEF authorize_secret_refs
    <3>2. CASE ~(NeedsTrust /\ se_req.trust = "missing")
      <4>1. /\ se_pc = "authorize" /\ se_pc' = "resolve" /\ se_over' = EffectivePolicy.set
            /\ UNCHANGED <<se_req, se_next, se_stdin, se_files, se_env>> /\ se_next = 1
            /\ se_req \in EnvRequests
        BY <2>3, <3>2 DEF authorize_secret_refs, SpawnEnvInv
      <4>2. se_req.secrets \in Seq(SecretSlots) /\ EffectivePolicy.set \in [EnvVars -> EnvValues]
        BY <4>1, RequestTyped
      <4>3. \A v \in EnvVars : SlotsBefore(se_next, v)' = {}
        BY <4>1, <4>2 DEF SlotsBefore
      <4>4. EffectivePolicy' = EffectivePolicy /\ (NeedsTrust' <=> NeedsTrust)
        BY <4>1 DEF EffectivePolicy, NeedsTrust
      <4>5. \A v \in EnvVars : EffectivePolicy.set[v] # "temp"
        <5> TAKE v \in EnvVars
        <5>1. se_req.cli \in EnvPolicies("cli") /\ se_req.context \in EnvPolicies("context")
          BY <4>1, EnvAssumption DEF EnvRequestShape
        <5> QED
          BY <5>1, MergedPolicy DEF EffectivePolicy
      <4> QED
        BY <3>2, <4>1, <4>2, <4>3, <4>4, <4>5 DEF SpawnEnvInv, SpawnPlaces, SpawnGoverned
    <3> QED
      BY <3>1, <3>2
  <2>4. CASE ReapNode
    BY <2>4 DEF ReapNode, SpawnEnvInv, SpawnPlaces, SpawnGoverned
  <2> QED
    BY <2>1, <2>2, <2>3, <2>4, SlotResolves, NodeSpawns DEF SpawnEnvNext
<1>3. SpawnEnvInv => SpawnGoverned
  BY DEF SpawnEnvInv
<1> QED
  BY <1>1, <1>2, <1>3, PTL DEF SpawnEnvSpec

-----------------------------------------------------------------------------
(* The output of children                                                  *)
(*                                                                         *)
(* No invariant of PipeMultiplexer says on its own that an event which a   *)
(* poll has taken is enough.  MuxInv relates what is in a pipe to what is  *)
(* left of the budget (BudgetOK), what is read to what is written          *)
(* (Accounts), tokens to pipes (TableOK), and the one drain that follows   *)
(* an interrupt to what was due at it (ForcedDrain).                       *)

(* What has been read of a pipe.                                           *)
Drawn(p) == mx_emitted[p] + mx_held[p] + mx_read[p]
Tokens == DOMAIN sources
Draining == {"poll", "read", "ingest"}

MuxTypeOK ==
    /\ mx_child \in [MuxNodes -> {"none", "alive", "exited", "reaped"}]
    /\ mx_written \in [Pipes -> Nat] /\ mx_inside \in [Pipes -> 0..PipeUnits]
    /\ mx_due \in [Pipes -> Nat] /\ mx_hung \in SUBSET Pipes
    /\ mx_read \in [Pipes -> Nat] /\ mx_held \in [Pipes -> Nat] /\ mx_emitted \in [Pipes -> Nat]
    /\ sources \in Seq(Pipes \cup {NoPipe}) /\ free_tokens \in Seq(Tokens)
    /\ mx_events \in Seq(Tokens) /\ mx_budget \in 0..READ_FAIRNESS_BUDGET
    /\ compact_ids \in SUBSET MuxNodes
    /\ \/ mx_pc \in {"top", "spawn", "reap"} \cup Draining /\ mx_drain \in {"normal", "idle"}
       \/ mx_pc \in {"shut"} \cup Draining /\ mx_drain = "forced"
       \/ mx_pc \in {"flush", "returned"} \cup Draining /\ mx_drain = "final"
       \/ mx_pc = "error" /\ mx_drain \in {"normal", "idle", "forced", "final"}

(* Each pipe has at most one token and each token at most one pipe; a      *)
(* token that is free has none and is free once.                           *)
TableOK ==
    /\ \A t, u \in Tokens : sources[t] = sources[u] /\ sources[t] # NoPipe => t = u
    /\ \A i \in DOMAIN free_tokens : sources[free_tokens[i]] = NoPipe
    /\ \A i, j \in DOMAIN free_tokens : free_tokens[i] = free_tokens[j] => i = j
    /\ node_tokens = [n \in MuxNodes |-> {t \in Tokens : sources[t] # NoPipe /\ sources[t][1] = n}]
    /\ mx_armed \subseteq Registered
    /\ \A p \in Pipes : mx_child[p[1]] = "none" =>
            p \notin Registered \cup mx_hung /\ mx_inside[p] = 0 /\ mx_due[p] = 0
    /\ \A n \in MuxNodes : has_pipes(n) => n \in compact_ids

(* What was written has been read or is in the pipe; what is no longer     *)
(* registered was read to its end, or as far as its child's exit.          *)
Accounts ==
    \A p \in Pipes :
        /\ Drawn(p) + mx_inside[p] = mx_written[p] /\ mx_due[p] <= mx_written[p]
        /\ mx_pc # "error" /\ p \notin Registered =>
              mx_inside[p] = 0 \/ (mx_child[p[1]] = "reaped" /\ mx_due[p] <= Drawn(p))

(* Data that a poll has announced exceeds no pipe: an event whose budget   *)
(* is used up has seen a write, which has armed another.                   *)
BudgetOK ==
    /\ mx_pc \notin {"read", "error"} => mx_events = <<>>
    /\ mx_pc = "read" /\ mx_events # <<>> =>
        LET p == sources[Head(mx_events)]
        IN p # NoPipe /\ p \notin mx_armed =>
             mx_inside[p] + READ_FAIRNESS_BUDGET <= PipeUnits + mx_budget

(* After an interrupt one drain reads all that was due.                    *)
ForcedDrain ==
    /\ mx_pc # "error" /\ mx_drain \in {"forced", "final"} =>
          \A n \in MuxNodes : mx_child[n] \in {"none", "reaped"}
    /\ mx_pc = "read" /\ mx_drain = "forced" =>
        /\ \A p \in Pipes : Drawn(p) < mx_due[p] =>
              \E i \in DOMAIN mx_events : sources[mx_events[i]] = p
        /\ mx_events # <<>> =>
            LET p == sources[Head(mx_events)]
            IN p # NoPipe => \/ mx_due[p] <= Drawn(p)
                             \/ mx_due[p] + READ_FAIRNESS_BUDGET <= Drawn(p) + PipeUnits + mx_budget
    /\ \/ mx_pc \in {"ingest", "shut"} /\ mx_drain = "forced"
       \/ mx_pc # "error" /\ mx_drain = "final"
       => \A p \in Pipes : mx_due[p] <= Drawn(p)
    /\ mx_pc \in {"flush", "returned"} => mx_read = Zero
    /\ mx_pc = "returned" => mx_held = Zero

MuxInv == MuxTypeOK /\ TableOK /\ Accounts /\ BudgetOK /\ NothingStranded /\ ForcedDrain

(* What MuxAssumption says of pipes, streams and the budget.               *)
LEMMA PipeFacts ==
    /\ \A p \in Pipes : p # NoPipe /\ p[1] \in MuxNodes
    /\ \A n \in MuxNodes, s \in ToSet(Streams) : <<n, s>> \in Pipes /\ <<n, s>>[1] = n
    /\ DOMAIN Streams = 1..Len(Streams) /\ Len(Streams) \in Nat
    /\ \A i \in 1..Len(Streams) : Streams[i] \in ToSet(Streams)
    /\ \A i, j \in 1..Len(Streams) : Streams[i] = Streams[j] => i = j
    /\ READ_FAIRNESS_BUDGET \in Nat /\ PipeUnits \in Nat /\ PipeUnits < READ_FAIRNESS_BUDGET
    /\ Zero \in [Pipes -> Nat] /\ \A p \in Pipes : Zero[p] = 0
  <1>1. ASSUME NEW p \in Pipes PROVE p # NoPipe /\ p[1] \in MuxNodes
    <2>1. PICK n \in MuxNodes, s \in ToSet(Streams) : p = <<n, s>>
      BY DEF Pipes
    <2>2. Len(<<n, s>>) = 2 /\ Len(NoPipe) = 0
      BY DEF NoPipe
    <2>3. p # NoPipe
      BY <2>1, <2>2
    <2> QED
      BY <2>1, <2>3
  <1>2. \A n \in MuxNodes, s \in ToSet(Streams) : <<n, s>> \in Pipes /\ <<n, s>>[1] = n
    BY DEF Pipes
  <1>3. DOMAIN Streams = 1..Len(Streams) /\ Len(Streams) \in Nat
    BY MuxAssumption
  <1>4. \A i \in 1..Len(Streams) : Streams[i] \in ToSet(Streams)
    BY <1>3 DEF ToSet
  <1>5. \A i, j \in 1..Len(Streams) : Streams[i] = Streams[j] => i = j
    BY <1>3, MuxAssumption DEF IsInjective
  <1>6. READ_FAIRNESS_BUDGET \in Nat /\ PipeUnits \in Nat /\ PipeUnits < READ_FAIRNESS_BUDGET
    BY MuxAssumption
  <1>7. Zero \in [Pipes -> Nat] /\ \A p \in Pipes : Zero[p] = 0
    BY DEF Zero
  <1> QED
    BY <1>1, <1>2, <1>3, <1>4, <1>5, <1>6, <1>7

(* The registered pipes are those of some token.                           *)
LEMMA RegisteredFacts ==
    ASSUME MuxTypeOK
    PROVE  /\ Tokens = 1..Len(sources) /\ Len(sources) \in Nat
           /\ Registered \subseteq Pipes
           /\ \A p \in Pipes : p \in Registered <=> \E t \in Tokens : sources[t] = p
           /\ \A t \in Tokens : sources[t] # NoPipe => sources[t] \in Registered
  <1>1. Tokens = 1..Len(sources) /\ Len(sources) \in Nat
    BY DEF Tokens, MuxTypeOK
  <1>2. \A t \in Tokens : sources[t] \in Pipes \cup {NoPipe}
    BY <1>1 DEF MuxTypeOK
  <1> QED
    BY <1>1, <1>2, PipeFacts DEF Registered, Tokens

(* The tokens of a new child's pipes are free ones and new ones, each once.*)
LEMMA NewTokens ==
    ASSUME MuxTypeOK, TableOK, NEW tokens, tokens = {register(i) : i \in DOMAIN Streams}
    PROVE  /\ \A i, j \in DOMAIN Streams : register(i) = register(j) => i = j
           /\ \A t \in tokens : t \in Tokens => sources[t] = NoPipe
           /\ \E m \in Nat : Tokens \cup tokens = 1..m
           /\ \A i \in 1..(Len(free_tokens) - Len(Streams)) :
                 i \in DOMAIN free_tokens /\ free_tokens[i] \in Tokens \ tokens
  <1> DEFINE k == Len(Streams)
             f == Len(free_tokens)
             n == Len(sources)
             m == IF k > f THEN n + k - f ELSE n
  <1>1. k \in Nat /\ f \in Nat /\ n \in Nat /\ DOMAIN Streams = 1..k /\ Tokens = 1..n
    BY PipeFacts, RegisteredFacts DEF MuxTypeOK
  <1>2. DOMAIN free_tokens = 1..f /\ \A i \in 1..f : free_tokens[i] \in 1..n /\ sources[free_tokens[i]] = NoPipe
    BY <1>1 DEF TableOK, MuxTypeOK
  <1>3. \A i, j \in 1..f : free_tokens[i] = free_tokens[j] => i = j
    BY <1>2 DEF TableOK
  <1>4. \A i \in 1..k : register(i) = IF i <= f THEN free_tokens[f + 1 - i] ELSE n + i - f
    BY DEF register
  <1> HIDE DEF k, f, n
  <1>5. \A i \in 1..k : i <= f => f + 1 - i \in 1..f /\ register(i) \in 1..n
    <2>1. \A i \in 1..k : i <= f => f + 1 - i \in 1..f
      BY <1>1
    <2> QED
      BY <1>2, <1>4, <2>1
  <1>6. \A i \in 1..k : ~(i <= f) => register(i) = n + i - f /\ register(i) > n /\ register(i) <= n + k - f
    <2> SUFFICES ASSUME NEW i \in 1..k, ~(i <= f)
                 PROVE  register(i) = n + i - f /\ register(i) > n /\ register(i) <= n + k - f
      OBVIOUS
    <2>1. register(i) = n + i - f
      BY <1>4
    <2>2. n + i - f > n /\ n + i - f <= n + k - f
      BY <1>1
    <2> QED
      BY <2>1, <2>2
  <1>7. ASSUME NEW i \in 1..k, NEW j \in 1..k, register(i) = register(j)
        PROVE  i = j
    <2>1. CASE i <= f /\ j <= f
      <3>1. f + 1 - i = f + 1 - j
        BY <1>3, <1>4, <1>5, <1>7, <2>1
      <3> QED
        BY <1>1, <3>1
    <2>2. CASE i <= f /\ ~(j <= f)
      <3>1. register(i) \in 1..n /\ register(j) > n
        BY <1>5, <1>6, <2>2
      <3> QED
        BY <1>1, <1>7, <3>1
    <2>3. CASE ~(i <= f) /\ j <= f
      <3>1. register(j) \in 1..n /\ register(i) > n
        BY <1>5, <1>6, <2>3
      <3> QED
        BY <1>1, <1>7, <3>1
    <2>4. CASE ~(i <= f) /\ ~(j <= f)
      <3>1. n + i - f = n + j - f
        BY <1>6, <1>7, <2>4
      <3> QED
        BY <1>1, <3>1
    <2> QED
      BY <2>1, <2>2, <2>3, <2>4
  <1>8. ASSUME NEW t \in tokens, t \in Tokens
        PROVE  sources[t] = NoPipe
    <2>1. PICK i \in 1..k : t = register(i)
      BY <1>1
    <2>2. i <= f
      <3>1. ~(i <= f) => t > n
        BY <1>6, <2>1
      <3> QED
        BY <1>1, <1>8, <3>1
    <2> QED
      BY <1>2, <1>4, <1>5, <2>1, <2>2
  <1>9. Tokens \cup tokens = 1..m /\ m \in Nat
    <2>1. m \in Nat /\ n <= m
      BY <1>1
    <2>2. \A i \in 1..k : register(i) \in 1..m
      <3> SUFFICES ASSUME NEW i \in 1..k PROVE register(i) \in 1..m
        OBVIOUS
      <3>1. CASE i <= f
        <4>1. register(i) \in 1..n
          BY <1>5, <3>1
        <4> QED
          BY <1>1, <2>1, <4>1
      <3>2. CASE ~(i <= f)
        <4>1. register(i) = n + i - f /\ register(i) > n /\ register(i) <= n + k - f
          BY <1>6, <3>2
        <4>2. k > f
          BY <1>1, <3>2
        <4> QED
          BY <1>1, <4>1, <4>2
      <3> QED
        BY <3>1, <3>2
    <2>3. ASSUME NEW t \in 1..m, t \notin 1..n
          PROVE  t \in tokens
      <3>1. k > f /\ t > n /\ t <= n + k - f
        BY <1>1, <2>3
      <3>2. t - n + f \in 1..k /\ ~(t - n + f <= f) /\ n + (t - n + f) - f = t
        BY <1>1, <3>1
      <3>3. register(t - n + f) = t
        BY <1>6, <3>2
      <3> QED
        BY <1>1, <3>2, <3>3
    <2> HIDE DEF m
    <2>4. \A t \in 1..n : t \in 1..m
      BY <1>1, <2>1
    <2> QED
      BY <1>1, <2>1, <2>2, <2>3, <2>4
  <1>10. ASSUME NEW i \in 1..(f - k)
         PROVE  i \in DOMAIN free_tokens /\ free_tokens[i] \in Tokens \ tokens
    <2>1. i \in 1..f
      BY <1>1
    <2>2. ASSUME NEW j \in 1..k, free_tokens[i] = register(j)
          PROVE  FALSE
      <3>1. j <= f
        BY <1>1
      <3>2. f + 1 - j \in 1..f /\ f + 1 - j # i
        BY <1>1, <3>1
      <3>3. free_tokens[i] = free_tokens[f + 1 - j]
        BY <1>4, <2>2, <3>1
      <3> QED
        BY <1>3, <2>1, <3>2, <3>3
    <2> QED
      BY <1>1, <1>2, <2>1, <2>2
  <1> HIDE DEF m
  <1> QED
    BY <1>1, <1>7, <1>8, <1>9, <1>10 DEF k, f

(* The table after a child's pipes have got their tokens.                  *)
LEMMA SpawnTable ==
    ASSUME MuxTypeOK, TableOK, NEW n \in MuxNodes, spawn_pipes(n)
    PROVE  /\ sources' \in Seq(Pipes \cup {NoPipe}) /\ Tokens \subseteq Tokens'
           /\ free_tokens' \in Seq(Tokens')
           /\ TableOK'
           /\ \A t \in Tokens : sources[t] # NoPipe => sources'[t] = sources[t]
           /\ Registered' = Registered \cup {<<n, s>> : s \in ToSet(Streams)}
  <1> DEFINE tokens == {register(i) : i \in DOMAIN Streams}
             stream(t) == Streams[CHOOSE i \in DOMAIN Streams : register(i) = t]
             k == Len(free_tokens) - Len(Streams)
  <1>1. /\ \A i, j \in DOMAIN Streams : register(i) = register(j) => i = j
        /\ \A t \in tokens : t \in Tokens => sources[t] = NoPipe
        /\ \E m \in Nat : Tokens \cup tokens = 1..m
        /\ \A i \in 1..k : i \in DOMAIN free_tokens /\ free_tokens[i] \in Tokens \ tokens
    BY NewTokens
  <1>2. PICK m \in Nat : Tokens \cup tokens = 1..m
    BY <1>1
  <1>3. /\ sources' = [t \in Tokens \cup tokens |-> IF t \in tokens THEN <<n, stream(t)>> ELSE sources[t]]
        /\ free_tokens' = SubSeq(free_tokens, 1, k)
        /\ node_tokens' = [node_tokens EXCEPT ![n] = @ \cup tokens]
        /\ mx_child[n] = "none" /\ mx_child' = [mx_child EXCEPT ![n] = "alive"]
        /\ compact_ids' = compact_ids \cup {n}
        /\ UNCHANGED <<mx_armed, mx_hung, mx_inside, mx_due>>
    BY DEF spawn_pipes, Tokens
  <1>4. \A t \in tokens : \E i \in DOMAIN Streams : register(i) = t /\ stream(t) = Streams[i]
    BY <1>1
  <1>5. \A i \in DOMAIN Streams : register(i) \in tokens /\ stream(register(i)) = Streams[i]
    BY <1>1
  <1> HIDE DEF tokens, stream, k
  <1>6. Tokens' = Tokens \cup tokens /\ Tokens' = 1..m
    BY <1>2, <1>3 DEF Tokens
  <1>7. /\ \A t \in tokens : sources'[t] = <<n, stream(t)>> /\ stream(t) \in ToSet(Streams)
        /\ \A t \in tokens : sources'[t] \in Pipes /\ sources'[t] # NoPipe /\ sources'[t][1] = n
        /\ \A t \in Tokens \ tokens : sources'[t] = sources[t]
    <2>1. \A t \in tokens : sources'[t] = <<n, stream(t)>> /\ stream(t) \in ToSet(Streams)
      BY <1>3, <1>4, PipeFacts
    <2>2. \A t \in Tokens \ tokens : sources'[t] = sources[t]
      BY <1>3
    <2>3. ASSUME NEW t \in tokens
          PROVE  sources'[t] \in Pipes /\ sources'[t] # NoPipe /\ sources'[t][1] = n
      <3>1. sources'[t] = <<n, stream(t)>> /\ stream(t) \in ToSet(Streams)
        BY <2>1
      <3>2. <<n, stream(t)>> \in Pipes /\ <<n, stream(t)>>[1] = n
        BY <3>1, PipeFacts
      <3> QED
        BY <3>1, <3>2, PipeFacts
    <2> QED
      BY <2>1, <2>2, <2>3
  <1>8. \A t \in Tokens : sources[t] \in Pipes \cup {NoPipe}
    BY RegisteredFacts
  <1>9. sources' \in Seq(Pipes \cup {NoPipe})
    <2>1. sources' = [t \in 1..m |-> sources'[t]]
      BY <1>2, <1>3
    <2>2. \A t \in 1..m : sources'[t] \in Pipes \cup {NoPipe}
      BY <1>2, <1>7, <1>8
    <2> QED
      BY <2>1, <2>2
  <1>10. \A t \in Tokens : sources[t] # NoPipe => sources'[t] = sources[t] /\ t \notin tokens
    BY <1>1, <1>7
  <1>11. /\ free_tokens' \in Seq(Tokens')
         /\ DOMAIN free_tokens' \subseteq 1..k
         /\ \A i \in DOMAIN free_tokens' : free_tokens'[i] = free_tokens[i]
    <2>1. k \in Int /\ free_tokens \in Seq(Tokens) /\ DOMAIN free_tokens = 1..Len(free_tokens)
      BY PipeFacts DEF k, MuxTypeOK
    <2>2. \A i \in 1..k : free_tokens[i] \in Tokens'
      BY <1>1, <1>6
    <2>3. CASE k <= 0
      <3>1. SubSeq(free_tokens, 1, k) = <<>>
        BY <2>1, <2>3
      <3>2. <<>> \in Seq(Tokens') /\ DOMAIN <<>> = {}
        OBVIOUS
      <3>3. free_tokens' = <<>>
        BY <1>3, <3>1
      <3> QED
        BY <3>2, <3>3
    <2>4. CASE k > 0
      <3>1. k <= Len(free_tokens)
        BY <1>1, <2>1, <2>4
      <3>2. /\ SubSeq(free_tokens, 1, k) \in Seq(Tokens) /\ Len(SubSeq(free_tokens, 1, k)) = k
            /\ \A i \in 1..k : SubSeq(free_tokens, 1, k)[i] = free_tokens[i]
        BY <2>1, <2>4, <3>1
      <3>3. DOMAIN free_tokens' = 1..k
        BY <1>3, <3>2
      <3>4. free_tokens' \in Seq(Tokens')
        BY <1>3, <1>6, <3>2, WiderSeq
      <3>5. \A i \in DOMAIN free_tokens' : free_tokens'[i] = free_tokens[i]
        BY <1>3, <3>2, <3>3
      <3> QED
        BY <3>3, <3>4, <3>5
    <2> QED
      BY <2>1, <2>3, <2>4
  <1>12. Registered' = Registered \cup {<<n, s>> : s \in ToSet(Streams)}
    <2>1. Registered' = {sources'[t] : t \in Tokens'} \ {NoPipe}
      BY DEF Registered, Tokens
    <2>2. Registered = {sources[t] : t \in Tokens} \ {NoPipe}
      BY DEF Registered, Tokens
    <2>3. \A s \in ToSet(Streams) : \E t \in tokens : sources'[t] = <<n, s>>
      <3> SUFFICES ASSUME NEW s \in ToSet(Streams) PROVE \E t \in tokens : sources'[t] = <<n, s>>
        OBVIOUS
      <3>1. PICK i \in DOMAIN Streams : s = Streams[i]
        BY DEF ToSet
      <3> QED
        BY <1>5, <1>7, <3>1
    <2>4. \A s \in ToSet(Streams) : <<n, s>> # NoPipe
      BY PipeFacts
    <2>5. \A t \in tokens : \E s \in ToSet(Streams) : sources'[t] = <<n, s>>
      BY <1>7
    <2>6. \A t \in Tokens' : t \in tokens \/ (t \in Tokens /\ sources'[t] = sources[t])
      BY <1>6, <1>7
    <2>7. Registered' \subseteq Registered \cup {<<n, s>> : s \in ToSet(Streams)}
      BY <2>1, <2>2, <2>5, <2>6
    <2>8. Registered \subseteq Registered'
      BY <1>6, <1>10, <2>1, <2>2
    <2>9. \A s \in ToSet(Streams) : <<n, s>> \in Registered'
      BY <1>6, <2>1, <2>3, <2>4
    <2> QED
      BY <2>7, <2>8, <2>9
  <1>13. \A s \in ToSet(Streams) : <<n, s>> \notin Registered
    BY <1>3, PipeFacts DEF TableOK
  <1>14. ASSUME NEW t \in Tokens', NEW u \in Tokens', sources'[t] = sources'[u], sources'[t] # NoPipe
         PROVE  t = u
    <2>1. CASE t \in tokens /\ u \in tokens
      <3>1. PICK i \in DOMAIN Streams : register(i) = t /\ stream(t) = Streams[i]
        BY <1>4, <2>1
      <3>2. PICK j \in DOMAIN Streams : register(j) = u /\ stream(u) = Streams[j]
        BY <1>4, <2>1
      <3>3. stream(t) = stream(u)
        BY <1>7, <1>14, <2>1
      <3> QED
        BY <3>1, <3>2, <3>3, PipeFacts
    <2>2. CASE t \notin tokens /\ u \notin tokens
      BY <1>6, <1>7, <1>14, <2>2 DEF TableOK
    <2>3. CASE t \in tokens /\ u \notin tokens
      BY ZenonT(60), <1>6, <1>7, <1>13, <1>14, <2>3, RegisteredFacts
    <2>4. CASE t \notin tokens /\ u \in tokens
      BY ZenonT(60), <1>6, <1>7, <1>13, <1>14, <2>4, RegisteredFacts
    <2> QED
      BY <2>1, <2>2, <2>3, <2>4
  <1>15. \A i \in DOMAIN free_tokens' : sources'[free_tokens'[i]] = NoPipe
    <2> SUFFICES ASSUME NEW i \in DOMAIN free_tokens' PROVE sources'[free_tokens'[i]] = NoPipe
      OBVIOUS
    <2>1. free_tokens'[i] = free_tokens[i] /\ i \in 1..k
      BY <1>11
    <2>2. i \in DOMAIN free_tokens /\ free_tokens[i] \in Tokens \ tokens
      BY <1>1, <2>1
    <2> QED
      BY <1>7, <2>1, <2>2 DEF TableOK
  <1>16. \A i, j \in DOMAIN free_tokens' : free_tokens'[i] = free_tokens'[j] => i = j
    BY <1>1, <1>11 DEF TableOK
  <1>17. ASSUME NEW x \in MuxNodes
         PROVE  node_tokens'[x] = {t \in Tokens' : sources'[t] # NoPipe /\ sources'[t][1] = x}
    <2>1. node_tokens = [y \in MuxNodes |-> {t \in Tokens : sources[t] # NoPipe /\ sources[t][1] = y}]
      BY DEF TableOK
    <2>2. node_tokens'[x] = IF x = n THEN node_tokens[x] \cup tokens ELSE node_tokens[x]
      BY <1>3, <2>1
    <2>3. node_tokens[x] = {t \in Tokens : sources[t] # NoPipe /\ sources[t][1] = x}
      BY <2>1
    <2>4. \A t \in Tokens' : t \in tokens \/ t \in Tokens \ tokens
      BY <1>6
    <2>5. \A t \in node_tokens[x] : t \in Tokens \ tokens
      BY <1>1, <2>3
    <2> QED
      BY <1>6, <1>7, <2>2, <2>3, <2>4, <2>5
  <1>18. node_tokens' = [x \in MuxNodes |-> {t \in Tokens' : sources'[t] # NoPipe /\ sources'[t][1] = x}]
    <2>1. DOMAIN node_tokens' = MuxNodes /\ node_tokens' = [x \in MuxNodes |-> node_tokens'[x]]
      BY <1>3 DEF TableOK
    <2> QED
      BY <1>17, <2>1
  <1>19. mx_armed' \subseteq Registered'
    BY <1>3, <1>12 DEF TableOK
  <1>20. ASSUME NEW p \in Pipes, mx_child'[p[1]] = "none"
         PROVE  p \notin Registered' \cup mx_hung' /\ mx_inside'[p] = 0 /\ mx_due'[p] = 0
    <2>1. p[1] # n /\ mx_child[p[1]] = "none"
      BY <1>3, <1>20, PipeFacts DEF MuxTypeOK
    <2>2. p \notin Registered'
      BY <1>12, <2>1, PipeFacts DEF TableOK
    <2> QED
      BY <1>3, <2>1, <2>2 DEF TableOK
  <1>21. ASSUME NEW x \in MuxNodes, node_tokens'[x] # {}
         PROVE  x \in compact_ids'
    <2>1. x # n => node_tokens'[x] = node_tokens[x]
      BY <1>3 DEF TableOK
    <2> QED
      BY <1>3, <1>21, <2>1 DEF TableOK, has_pipes
  <1> QED
    BY <1>6, <1>9, <1>10, <1>11, <1>12, <1>14, <1>15, <1>16, <1>18, <1>19, <1>20, <1>21
    DEF TableOK, has_pipes

(* The token of a closed pipe is free, and its pipe has none.              *)
LEMMA CloseTable ==
    ASSUME MuxTypeOK, TableOK, NEW t \in Tokens, sources[t] # NoPipe, close_source(t),
           UNCHANGED <<mx_child, mx_hung, mx_due, compact_ids>>,
           \A p \in Pipes : mx_child[p[1]] = "none" => mx_inside'[p] = mx_inside[p]
    PROVE  /\ sources' \in Seq(Pipes \cup {NoPipe}) /\ Tokens' = Tokens
           /\ free_tokens' \in Seq(Tokens')
           /\ TableOK'
           /\ sources'[t] = NoPipe /\ \A u \in Tokens \ {t} : sources'[u] = sources[u]
           /\ Registered' = Registered \ {sources[t]}
  <1>1. /\ sources' = [sources EXCEPT ![t] = NoPipe]
        /\ free_tokens' = Append(free_tokens, t)
        /\ node_tokens' = [n \in MuxNodes |-> node_tokens[n] \ {t}]
        /\ mx_armed' = mx_armed \ {sources[t]}
    BY DEF close_source
  <1>2. Tokens' = Tokens /\ Tokens = 1..Len(sources) /\ Len(sources) \in Nat
    BY <1>1, RegisteredFacts DEF Tokens
  <1>3. sources'[t] = NoPipe /\ \A u \in Tokens \ {t} : sources'[u] = sources[u]
    BY <1>1, <1>2 DEF Tokens
  <1>4. sources' \in Seq(Pipes \cup {NoPipe})
    <2>1. sources \in Seq(Pipes \cup {NoPipe})
      BY DEF MuxTypeOK
    <2> QED
      BY <1>1, <1>2, <2>1
  <1>5. /\ free_tokens' \in Seq(Tokens) /\ DOMAIN free_tokens = 1..Len(free_tokens) /\ Len(free_tokens) \in Nat
        /\ DOMAIN free_tokens' = 1..(Len(free_tokens) + 1)
        /\ \A i \in 1..Len(free_tokens) : free_tokens'[i] = free_tokens[i]
        /\ free_tokens'[Len(free_tokens) + 1] = t
    <2>1. free_tokens \in Seq(Tokens)
      BY DEF MuxTypeOK
    <2> QED
      BY <1>1, <2>1, AppendProperties
  <1>6. \A p \in Pipes : p # NoPipe
    BY PipeFacts
  <1>7. Registered' = Registered \ {sources[t]}
    <2>1. Registered' = {sources'[u] : u \in Tokens} \ {NoPipe}
      BY <1>2 DEF Registered, Tokens
    <2>2. Registered = {sources[u] : u \in Tokens} \ {NoPipe}
      BY DEF Registered, Tokens
    <2>3. \A u \in Tokens \ {t} : sources[u] # sources[t]
      BY DEF TableOK
    <2> QED
      BY <1>3, <2>1, <2>2, <2>3
  <1>8. \A u, v \in Tokens : sources'[u] = sources'[v] /\ sources'[u] # NoPipe => u = v
    BY <1>3 DEF TableOK
  <1>9. \A i \in 1..(Len(free_tokens) + 1) : i \in 1..Len(free_tokens) \/ i = Len(free_tokens) + 1
    BY <1>5
  <1>10. \A i \in 1..Len(free_tokens) : sources[free_tokens[i]] = NoPipe /\ free_tokens[i] # t /\ free_tokens[i] \in Tokens
    <2>1. \A i \in 1..Len(free_tokens) : sources[free_tokens[i]] = NoPipe
      BY <1>5 DEF TableOK
    <2>2. \A i \in 1..Len(free_tokens) : free_tokens[i] \in Tokens
      BY DEF MuxTypeOK
    <2> QED
      BY <2>1, <2>2
  <1>11. \A i \in 1..(Len(free_tokens) + 1) : sources'[free_tokens'[i]] = NoPipe
    BY <1>3, <1>5, <1>9, <1>10
  <1>12. \A i, j \in 1..(Len(free_tokens) + 1) : free_tokens'[i] = free_tokens'[j] => i = j
    <2>1. \A i, j \in 1..Len(free_tokens) : free_tokens[i] = free_tokens[j] => i = j
      BY <1>5 DEF TableOK
    <2> QED
      BY <1>5, <1>9, <1>10, <2>1
  <1>13. ASSUME NEW n \in MuxNodes
         PROVE  node_tokens'[n] = {u \in Tokens : sources'[u] # NoPipe /\ sources'[u][1] = n}
    <2>1. node_tokens[n] = {u \in Tokens : sources[u] # NoPipe /\ sources[u][1] = n}
      BY DEF TableOK
    <2>2. node_tokens'[n] = node_tokens[n] \ {t}
      BY <1>1
    <2> QED
      BY <1>3, <2>1, <2>2
  <1>14. node_tokens' = [n \in MuxNodes |-> {u \in Tokens : sources'[u] # NoPipe /\ sources'[u][1] = n}]
    BY <1>1, <1>13
  <1>15. mx_armed' \subseteq Registered'
    BY <1>1, <1>7 DEF TableOK
  <1>16. \A n \in MuxNodes : node_tokens'[n] # {} => n \in compact_ids'
    <2>1. \A n \in MuxNodes : node_tokens'[n] = node_tokens[n] \ {t}
      BY <1>1
    <2> QED
      BY <2>1 DEF TableOK, has_pipes
  <1>17. \A p \in Pipes : mx_child'[p[1]] = "none" =>
             p \notin Registered' \cup mx_hung' /\ mx_inside'[p] = 0 /\ mx_due'[p] = 0
    BY <1>7 DEF TableOK
  <1>18. TableOK'
    BY <1>2, <1>5, <1>8, <1>11, <1>12, <1>14, <1>15, <1>16, <1>17 DEF TableOK, has_pipes
  <1> QED
    BY <1>2, <1>3, <1>4, <1>5, <1>7, <1>18

(* A step that leaves the table alone.                                     *)
LEMMA TableStays ==
    ASSUME TableOK, UNCHANGED mx_table, mx_armed' \subseteq Registered,
           \A n \in MuxNodes : has_pipes(n) => n \in compact_ids',
           \A p \in Pipes : mx_child'[p[1]] = "none" =>
               /\ mx_child[p[1]] = "none"
               /\ p \notin Registered => p \notin mx_hung' \ mx_hung
               /\ p \notin Registered => mx_inside'[p] = mx_inside[p] /\ mx_due'[p] = mx_due[p]
    PROVE  TableOK' /\ Tokens' = Tokens /\ Registered' = Registered
  <1>1. sources' = sources /\ free_tokens' = free_tokens /\ node_tokens' = node_tokens
    BY DEF mx_table
  <1>2. Tokens' = Tokens /\ Registered' = Registered
    BY <1>1 DEF Tokens, Registered
  <1>3. \A p \in Pipes : mx_child'[p[1]] = "none" =>
             p \notin Registered \cup mx_hung' /\ mx_inside'[p] = 0 /\ mx_due'[p] = 0
    BY DEF TableOK
  <1>4. \A n \in MuxNodes : has_pipes(n)' => n \in compact_ids'
    BY <1>1 DEF has_pipes
  <1> QED
    BY <1>1, <1>2, <1>3, <1>4 DEF TableOK

(* The counters of a pipe, as numbers.                                     *)
LEMMA Measures ==
    ASSUME MuxTypeOK, NEW p \in Pipes
    PROVE  /\ Drawn(p) \in Nat /\ mx_written[p] \in Nat /\ mx_due[p] \in Nat
           /\ mx_inside[p] \in Nat /\ mx_inside[p] <= PipeUnits
           /\ mx_emitted[p] \in Nat /\ mx_held[p] \in Nat /\ mx_read[p] \in Nat
           /\ mx_budget \in Nat /\ mx_budget <= READ_FAIRNESS_BUDGET
  <1>1. mx_emitted[p] \in Nat /\ mx_held[p] \in Nat /\ mx_read[p] \in Nat /\ mx_written[p] \in Nat /\ mx_due[p] \in Nat
    BY DEF MuxTypeOK
  <1>2. mx_inside[p] \in 0..PipeUnits /\ mx_budget \in 0..READ_FAIRNESS_BUDGET
    BY DEF MuxTypeOK
  <1>3. Drawn(p) \in Nat
    BY <1>1 DEF Drawn
  <1>4. mx_inside[p] \in Nat /\ mx_inside[p] <= PipeUnits
    BY <1>2, PipeFacts
  <1>5. mx_budget \in Nat /\ mx_budget <= READ_FAIRNESS_BUDGET
    BY <1>2, PipeFacts
  <1> QED
    BY <1>1, <1>3, <1>4, <1>5

(* Steps of the loop that move no data and close no pipe.                  *)
LEMMA MuxMoves ==
    ASSUME MuxInv, PollFails \/ ReadsDone \/ ToSpawn \/ SpawnsDone \/ NobodyExited \/ ForgetShut
                     \/ UNCHANGED mx_vars
    PROVE  MuxInv'
  <1> USE DEF MuxInv
  <1>1. /\ UNCHANGED <<mx_child, mx_written, mx_inside, mx_hung, mx_due, mx_armed, mx_table,
                       mx_read, mx_held, mx_emitted, mx_events, mx_budget>>
        /\ mx_pc' # "error" => mx_pc # "error"
    BY DEF PollFails, ReadsDone, ToSpawn, SpawnsDone, NobodyExited, ForgetShut, Poll, mx_vars,
       mx_world, mx_output
  <1>2. \A p \in Pipes : Drawn(p)' = Drawn(p)
    BY <1>1 DEF Drawn
  <1>3. compact_ids' \subseteq compact_ids /\ \A n \in MuxNodes : has_pipes(n) => n \in compact_ids'
    <2>1. CASE ForgetShut
      BY <2>1 DEF ForgetShut, TableOK
    <2>2. CASE ~ForgetShut
      BY <2>2 DEF PollFails, ReadsDone, ToSpawn, SpawnsDone, NobodyExited, mx_vars, TableOK
    <2> QED
      BY <2>1, <2>2
  <1>4. TableOK' /\ Tokens' = Tokens /\ Registered' = Registered
    <2>1. mx_armed' \subseteq Registered
      BY <1>1 DEF TableOK
    <2> QED
      BY <1>1, <1>3, <2>1, TableStays
  <1>5. \/ mx_pc' \in {"top", "spawn", "reap"} \cup Draining /\ mx_drain' \in {"normal", "idle"}
        \/ mx_pc' \in {"shut"} \cup Draining /\ mx_drain' = "forced"
        \/ mx_pc' \in {"flush", "returned"} \cup Draining /\ mx_drain' = "final"
        \/ mx_pc' = "error" /\ mx_drain' \in {"normal", "idle", "forced", "final"}
    BY DEF PollFails, ReadsDone, ToSpawn, SpawnsDone, NobodyExited, ForgetShut, Poll, mx_vars,
       MuxTypeOK, Draining
  <1>6. MuxTypeOK'
    BY <1>1, <1>3, <1>4, <1>5 DEF MuxTypeOK, mx_table
  <1>7. Accounts'
    BY <1>1, <1>2, <1>4 DEF Accounts
  <1>8. mx_events' = mx_events /\ (mx_pc' \notin {"read", "error"} => mx_events = <<>>)
        /\ (mx_pc' = "read" => UNCHANGED mx_vars)
    BY <1>1 DEF PollFails, ReadsDone, ToSpawn, SpawnsDone, NobodyExited, ForgetShut, Poll, mx_vars, BudgetOK
  <1>9. BudgetOK'
    BY <1>8 DEF BudgetOK, mx_vars, mx_table, mx_world
  <1>10. NothingStranded'
    BY <1>1 DEF NothingStranded, mx_table
  <1>11. ForcedDrain'
    <2>1. mx_pc' # "error" /\ mx_drain' \in {"forced", "final"} =>
              \A n \in MuxNodes : mx_child'[n] \in {"none", "reaped"}
      BY <1>1 DEF PollFails, ReadsDone, ToSpawn, SpawnsDone, NobodyExited, ForgetShut, Poll, mx_vars,
         ForcedDrain, MuxTypeOK, Draining
    <2>2. (mx_pc = "read" /\ mx_drain = "forced" =>
        /\ \A p \in Pipes : Drawn(p) < mx_due[p] =>
              \E i \in DOMAIN mx_events : sources[mx_events[i]] = p
        /\ mx_events # <<>> =>
            LET p == sources[Head(mx_events)]
            IN p # NoPipe => \/ mx_due[p] <= Drawn(p)
                             \/ mx_due[p] + READ_FAIRNESS_BUDGET <= Drawn(p) + PipeUnits + mx_budget)'
      <3> HAVE (mx_pc = "read" /\ mx_drain = "forced")'
      <3>1. UNCHANGED mx_vars
        BY <1>8
      <3> QED
        BY <1>1, <3>1 DEF ForcedDrain, Drawn, mx_vars, mx_table
    <2>3. ASSUME \/ mx_pc' \in {"ingest", "shut"} /\ mx_drain' = "forced"
                 \/ mx_pc' # "error" /\ mx_drain' = "final",
                 NEW p \in Pipes
          PROVE  mx_due[p] <= Drawn(p)
      <3>1. CASE ReadsDone
        <4>1. mx_pc = "read" /\ mx_events = <<>> /\ DOMAIN mx_events = {} /\ mx_drain' = mx_drain
          BY <3>1 DEF ReadsDone
        <4>2. CASE mx_drain = "forced"
          <5>1. ~(Drawn(p) < mx_due[p])
            BY <4>1, <4>2 DEF ForcedDrain
          <5> QED
            BY <5>1, Measures
        <4>3. CASE mx_drain # "forced"
          BY <2>3, <4>1, <4>3 DEF ForcedDrain
        <4> QED
          BY <4>2, <4>3
      <3>2. CASE NobodyExited
        <4>1. /\ \A n \in MuxNodes : mx_child[n] = "reaped"
              /\ compact_ids = {} /\ mx_pc = "reap"
          BY <2>3, <3>2 DEF NobodyExited, Poll
        <4>2. p \notin Registered
          <5>1. ASSUME NEW t \in Tokens, sources[t] = p PROVE FALSE
            <6>1. t \in node_tokens[p[1]] /\ p[1] \in MuxNodes
              BY <5>1, PipeFacts DEF TableOK
            <6> QED
              BY <4>1, <6>1 DEF TableOK, has_pipes
          <5> QED
            BY <5>1, RegisteredFacts
        <4>3. mx_inside[p] = 0 \/ mx_due[p] <= Drawn(p)
          BY <4>1, <4>2 DEF Accounts
        <4>4. Drawn(p) + mx_inside[p] = mx_written[p] /\ mx_due[p] <= mx_written[p]
          BY DEF Accounts
        <4> QED
          BY <4>3, <4>4, Measures
      <3>3. CASE ForgetShut
        BY <3>3 DEF ForgetShut, ForcedDrain, MuxTypeOK, Draining
      <3>4. CASE UNCHANGED mx_vars
        BY <2>3, <3>4 DEF mx_vars, ForcedDrain
      <3>5. CASE PollFails \/ ToSpawn \/ SpawnsDone
        BY <2>3, <3>5 DEF PollFails, ToSpawn, SpawnsDone, Poll, MuxTypeOK, Draining
      <3> QED
        BY <3>1, <3>2, <3>3, <3>4, <3>5
    <2>4. /\ mx_pc' \in {"flush", "returned"} => mx_read' = Zero
          /\ mx_pc' = "returned" => mx_held' = Zero
      BY <1>1 DEF PollFails, ReadsDone, ToSpawn, SpawnsDone, NobodyExited, ForgetShut, Poll, mx_vars, ForcedDrain
    <2> QED
      BY <1>1, <1>2, <2>1, <2>2, <2>3, <2>4 DEF ForcedDrain
  <1> QED
    BY <1>4, <1>6, <1>7, <1>9, <1>10, <1>11

(* A write arms an event for its pipe.                                     *)
LEMMA MuxWrites ==
    ASSUME MuxInv, NEW q \in Pipes, Writes(q)
    PROVE  MuxInv'
  <1> USE DEF MuxInv
  <1>1. /\ q \in Registered /\ mx_inside[q] < PipeUnits
        /\ mx_written' = [mx_written EXCEPT ![q] = @ + 1]
        /\ mx_inside' = [mx_inside EXCEPT ![q] = @ + 1]
        /\ mx_armed' = mx_armed \cup {q}
        /\ UNCHANGED <<mx_child, mx_hung, mx_due, mx_read, mx_held, mx_emitted, mx_pc, mx_drain,
                       mx_events, mx_budget, compact_ids, sources, free_tokens, node_tokens>>
    BY DEF Writes, mx_table, mx_output
  <1>2. \A p \in Pipes : Drawn(p)' = Drawn(p)
    BY <1>1 DEF Drawn
  <1>3. /\ mx_written'[q] = mx_written[q] + 1 /\ mx_inside'[q] = mx_inside[q] + 1
        /\ \A p \in Pipes \ {q} : mx_written'[p] = mx_written[p] /\ mx_inside'[p] = mx_inside[p]
    BY <1>1 DEF MuxTypeOK
  <1>4. TableOK' /\ Tokens' = Tokens /\ Registered' = Registered
    <2>1. mx_armed' \subseteq Registered
      BY <1>1 DEF TableOK
    <2>2. UNCHANGED mx_table /\ \A n \in MuxNodes : has_pipes(n) => n \in compact_ids'
      BY <1>1 DEF mx_table, TableOK
    <2>3. \A p \in Pipes : p \notin Registered => mx_inside'[p] = mx_inside[p]
      BY <1>1, <1>3
    <2> QED
      BY <1>1, <2>1, <2>2, <2>3, TableStays
  <1>5. MuxTypeOK'
    <2>1. mx_written' \in [Pipes -> Nat]
      BY SMTT(60), <1>1 DEF MuxTypeOK
    <2>2. mx_inside[q] + 1 \in 0..PipeUnits
      BY <1>1, Measures, PipeFacts
    <2>3. mx_inside' \in [Pipes -> 0..PipeUnits]
      BY <1>1, <2>2 DEF MuxTypeOK
    <2> QED
      BY <1>1, <1>4, <2>1, <2>3 DEF MuxTypeOK
  <1>6. Accounts'
    <2> SUFFICES ASSUME NEW p \in Pipes
                 PROVE  /\ Drawn(p) + mx_inside'[p] = mx_written'[p] /\ mx_due[p] <= mx_written'[p]
                        /\ mx_pc # "error" /\ p \notin Registered =>
                              mx_inside'[p] = 0 \/ (mx_child[p[1]] = "reaped" /\ mx_due[p] <= Drawn(p))
      BY <1>1, <1>2, <1>4 DEF Accounts
    <2>1. /\ Drawn(p) + mx_inside[p] = mx_written[p] /\ mx_due[p] <= mx_written[p]
          /\ Drawn(p) \in Nat /\ mx_inside[p] \in Nat /\ mx_written[p] \in Nat /\ mx_due[p] \in Nat
      BY Measures DEF Accounts
    <2>2. CASE p = q
      <3>1. Drawn(p) + (mx_inside[p] + 1) = mx_written[p] + 1 /\ mx_due[p] <= mx_written[p] + 1
        BY <2>1
      <3> QED
        BY <1>1, <1>3, <2>2, <3>1
    <2>3. CASE p # q
      BY <1>3, <2>1, <2>3 DEF Accounts
    <2> QED
      BY <2>2, <2>3
  <1>7. BudgetOK'
    <2>1. mx_pc \notin {"read", "error"} => mx_events = <<>>
      BY DEF BudgetOK
    <2>2. ASSUME mx_pc = "read", mx_events # <<>>, NEW p, p = sources[Head(mx_events)],
                 p # NoPipe, p \notin mx_armed'
          PROVE  mx_inside'[p] + READ_FAIRNESS_BUDGET <= PipeUnits + mx_budget
      <3>1. Head(mx_events) \in Tokens
        BY <2>2 DEF MuxTypeOK
      <3>2. p \in Pipes \ {q} /\ p \notin mx_armed
        BY <1>1, <2>2, <3>1, RegisteredFacts
      <3> QED
        BY <1>3, <2>2, <3>2 DEF BudgetOK
    <2> QED
      BY <1>1, <2>1, <2>2 DEF BudgetOK
  <1>8. NothingStranded'
    <2> SUFFICES ASSUME mx_pc # "error", NEW t \in Tokens, sources[t] # NoPipe,
                        mx_inside'[sources[t]] > 0 \/ sources[t] \in mx_hung
                 PROVE  sources[t] \in mx_armed' \/ \E i \in DOMAIN mx_events : mx_events[i] = t
      BY <1>1 DEF NothingStranded, Tokens
    <2>1. sources[t] \in Pipes
      BY RegisteredFacts
    <2>2. CASE sources[t] = q
      BY <1>1, <2>2
    <2>3. CASE sources[t] # q
      <3>1. mx_inside'[sources[t]] = mx_inside[sources[t]]
        BY <1>3, <2>1, <2>3
      <3> QED
        BY <1>1, <3>1 DEF NothingStranded, Tokens
    <2> QED
      BY <2>2, <2>3
  <1>9. ForcedDrain'
    BY <1>1, <1>2 DEF ForcedDrain, Drawn
  <1> QED
    BY <1>4, <1>5, <1>6, <1>7, <1>8, <1>9

(* A hang-up, and the exits that come with it.                             *)
LEMMA MuxLeaves ==
    ASSUME MuxInv, NEW S \in SUBSET MuxNodes, NEW left \in SUBSET Registered,
           \A n \in S : mx_child[n] = "alive",
           mx_hung' = mx_hung \cup left, mx_armed' = mx_armed \cup left,
           mx_due' = [p \in Pipes |-> IF p[1] \in S THEN mx_written[p] ELSE mx_due[p]],
           mx_child' \in [MuxNodes -> {"none", "alive", "exited", "reaped"}],
           \A n \in MuxNodes : mx_child'[n] = "none" => mx_child[n] = "none",
           \A n \in MuxNodes : mx_child[n] = "reaped" => mx_child'[n] = "reaped",
           UNCHANGED <<mx_written, mx_inside, mx_table, mx_output, mx_events, mx_budget, compact_ids>>,
           \/ UNCHANGED <<mx_pc, mx_drain>> /\ (mx_drain \in {"forced", "final"} /\ mx_pc # "error" => S = {} /\ mx_child' = mx_child)
           \/ mx_pc \in {"top", "reap"} /\ mx_pc' = "top" /\ mx_drain' = mx_drain
           \/ /\ mx_pc = "top" /\ mx_pc' = "poll" /\ mx_drain' = "forced"
              /\ \A n \in MuxNodes : mx_child'[n] \in {"none", "reaped"}
    PROVE  MuxInv'
  <1> USE DEF MuxInv, mx_table, mx_output
  <1>1. UNCHANGED <<mx_read, mx_held, mx_emitted, sources, free_tokens, node_tokens>>
        /\ \A p \in Pipes : Drawn(p)' = Drawn(p)
    BY DEF Drawn
  <1>2. \A p \in Pipes : mx_child[p[1]] = "none" => p[1] \notin S
    OBVIOUS
  <1>3. \A p \in Pipes : mx_due'[p] = IF p[1] \in S THEN mx_written[p] ELSE mx_due[p]
    OBVIOUS
  <1>4. TableOK' /\ Tokens' = Tokens /\ Registered' = Registered
    <2>1. mx_armed' \subseteq Registered
      BY DEF TableOK
    <2>2. UNCHANGED mx_table /\ \A n \in MuxNodes : has_pipes(n) => n \in compact_ids'
      BY DEF TableOK
    <2>3. ASSUME NEW p \in Pipes, mx_child'[p[1]] = "none"
          PROVE  /\ mx_child[p[1]] = "none"
                 /\ p \notin Registered => p \notin mx_hung' \ mx_hung
                 /\ p \notin Registered => mx_inside'[p] = mx_inside[p] /\ mx_due'[p] = mx_due[p]
      <3>1. mx_child[p[1]] = "none" /\ p[1] \notin S
        BY <1>2, <2>3, PipeFacts
      <3> QED
        BY <1>3, <3>1
    <2> QED
      BY <2>1, <2>2, <2>3, TableStays
  <1>5. MuxTypeOK'
    <2>1. left \subseteq Pipes
      BY RegisteredFacts
    <2>2. mx_due' \in [Pipes -> Nat]
      BY DEF MuxTypeOK
    <2>3. \/ mx_pc' \in {"top", "spawn", "reap"} \cup Draining /\ mx_drain' \in {"normal", "idle"}
          \/ mx_pc' \in {"shut"} \cup Draining /\ mx_drain' = "forced"
          \/ mx_pc' \in {"flush", "returned"} \cup Draining /\ mx_drain' = "final"
          \/ mx_pc' = "error" /\ mx_drain' \in {"normal", "idle", "forced", "final"}
      BY DEF MuxTypeOK, Draining
    <2>4. mx_hung' \in SUBSET Pipes
      BY <2>1 DEF MuxTypeOK
    <2> QED
      BY <1>1, <1>4, <2>2, <2>3, <2>4 DEF MuxTypeOK
  <1>6. mx_pc' # "error" => mx_pc # "error"
    OBVIOUS
  <1>7. Accounts'
    <2> SUFFICES ASSUME NEW p \in Pipes
                 PROVE  /\ Drawn(p) + mx_inside[p] = mx_written[p] /\ mx_due'[p] <= mx_written[p]
                        /\ mx_pc' # "error" /\ p \notin Registered =>
                              mx_inside[p] = 0 \/ (mx_child'[p[1]] = "reaped" /\ mx_due'[p] <= Drawn(p))
      BY <1>1, <1>4 DEF Accounts
    <2>1. Drawn(p) + mx_inside[p] = mx_written[p] /\ mx_due[p] <= mx_written[p]
      BY DEF Accounts
    <2>2. mx_due'[p] <= mx_written[p]
      BY <1>3, <2>1, Measures
    <2>3. ASSUME mx_pc' # "error", p \notin Registered, mx_inside[p] # 0
          PROVE  mx_child'[p[1]] = "reaped" /\ mx_due'[p] <= Drawn(p)
      <3>1. mx_child[p[1]] = "reaped" /\ mx_due[p] <= Drawn(p)
        BY <1>6, <2>3 DEF Accounts
      <3>2. p[1] \notin S
        BY <3>1
      <3> QED
        BY <1>3, <3>1, <3>2, PipeFacts
    <2> QED
      BY <2>1, <2>2, <2>3
  <1>8. mx_pc \in {"top", "reap"} => mx_events = <<>>
    BY DEF BudgetOK
  <1>9. BudgetOK'
    <2>1. mx_pc' \notin {"read", "error"} => mx_events = <<>>
      BY <1>8 DEF BudgetOK
    <2>2. mx_pc' = "read" => mx_pc = "read"
      OBVIOUS
    <2> QED
      BY <1>1, <2>1, <2>2 DEF BudgetOK
  <1>10. NothingStranded'
    <2> SUFFICES ASSUME mx_pc' # "error", NEW t \in Tokens, sources[t] # NoPipe,
                        mx_inside[sources[t]] > 0 \/ sources[t] \in mx_hung'
                 PROVE  sources[t] \in mx_armed' \/ \E i \in DOMAIN mx_events : mx_events[i] = t
      BY <1>1 DEF NothingStranded, Tokens
    <2> QED
      BY <1>6 DEF NothingStranded, Tokens
  <1>11. ForcedDrain'
    <2>1. CASE UNCHANGED <<mx_pc, mx_drain>> /\ (mx_drain \in {"forced", "final"} /\ mx_pc # "error" => S = {} /\ mx_child' = mx_child)
      <3>1. ASSUME mx_drain \in {"forced", "final"}, mx_pc # "error"
            PROVE  /\ \A p \in Pipes : mx_due'[p] = mx_due[p]
                   /\ \A n \in MuxNodes : mx_child'[n] \in {"none", "reaped"}
        <4>1. \A p \in Pipes : mx_due'[p] = mx_due[p]
          BY <1>3, <2>1, <3>1
        <4>2. \A n \in MuxNodes : mx_child[n] \in {"none", "reaped"}
          BY <3>1 DEF ForcedDrain
        <4> QED
          BY <2>1, <3>1, <4>1, <4>2
      <3>2. /\ mx_pc \in {"flush", "returned"} => mx_read = Zero
            /\ mx_pc = "returned" => mx_held = Zero
        BY DEF ForcedDrain
      <3>3. ASSUME mx_pc = "read", mx_drain = "forced"
            PROVE  /\ \A p \in Pipes : Drawn(p) < mx_due'[p] =>
                        \E i \in DOMAIN mx_events : sources[mx_events[i]] = p
                   /\ mx_events # <<>> =>
                        LET p == sources[Head(mx_events)]
                        IN p # NoPipe =>
                             \/ mx_due'[p] <= Drawn(p)
                             \/ mx_due'[p] + READ_FAIRNESS_BUDGET <= Drawn(p) + PipeUnits + mx_budget
        <4>1. \A p \in Pipes : mx_due'[p] = mx_due[p]
          BY <3>1, <3>3
        <4>2. \A p \in Pipes : Drawn(p) < mx_due'[p] =>
                        \E i \in DOMAIN mx_events : sources[mx_events[i]] = p
          BY <3>3, <4>1 DEF ForcedDrain
        <4>3. mx_events # <<>> => Head(mx_events) \in Tokens
          BY DEF MuxTypeOK
        <4>4. mx_events # <<>> /\ sources[Head(mx_events)] # NoPipe => sources[Head(mx_events)] \in Pipes
          BY <4>3, RegisteredFacts
        <4> QED
          BY <3>3, <4>1, <4>2, <4>4 DEF ForcedDrain
      <3>4. ASSUME \/ mx_pc \in {"ingest", "shut"} /\ mx_drain = "forced"
                   \/ mx_pc # "error" /\ mx_drain = "final",
                   NEW p \in Pipes
            PROVE  mx_due'[p] <= Drawn(p)
        BY <3>1, <3>4 DEF ForcedDrain
      <3>5. \A p : sources[Head(mx_events)] = p /\ mx_events # <<>> /\ p # NoPipe => p \in Pipes
        <4>1. mx_events # <<>> => Head(mx_events) \in Tokens
          BY DEF MuxTypeOK
        <4> QED
          BY <4>1, RegisteredFacts
      <3> QED
        BY <1>1, <2>1, <3>1, <3>2, <3>3, <3>4, <3>5 DEF ForcedDrain
    <2>2. CASE mx_pc \in {"top", "reap"} /\ mx_pc' = "top" /\ mx_drain' = mx_drain
      BY <2>2 DEF MuxTypeOK, Draining, ForcedDrain
    <2>3. CASE /\ mx_pc = "top" /\ mx_pc' = "poll" /\ mx_drain' = "forced"
               /\ \A n \in MuxNodes : mx_child'[n] \in {"none", "reaped"}
      BY <2>3 DEF ForcedDrain
    <2> QED
      BY <2>1, <2>2, <2>3
  <1> QED
    BY <1>4, <1>5, <1>7, <1>9, <1>10, <1>11

(* Hang-ups, exits, and the steps that stop or reap children.              *)
LEMMA MuxChildren ==
    ASSUME MuxInv, \/ \E q \in Pipes : Closes(q)
                   \/ \E n \in MuxNodes : MuxChildExits(n) \/ StopChild(n) \/ ReapChild(n)
                   \/ ShutAll
    PROVE  MuxInv'
  <1> USE DEF MuxInv, mx_table, mx_output
  <1>1. ASSUME NEW q \in Pipes, Closes(q) PROVE MuxInv'
    <2>1. mx_due' = [p \in Pipes |-> IF p[1] \in {} THEN mx_written[p] ELSE mx_due[p]]
      BY <1>1 DEF Closes, MuxTypeOK
    <2>2. {q} \in SUBSET Registered /\ {} \in SUBSET MuxNodes
      BY <1>1 DEF Closes
    <2>3. mx_child' \in [MuxNodes -> {"none", "alive", "exited", "reaped"}] /\ mx_child' = mx_child
      BY <1>1 DEF Closes, MuxTypeOK
    <2> QED
      BY ZenonT(60), <1>1, <2>1, <2>2, <2>3, MuxLeaves DEF Closes
  <1>2. ASSUME NEW S \in SUBSET MuxNodes, Leave(S)
        PROVE  /\ \E left \in SUBSET Registered : mx_hung' = mx_hung \cup left /\ mx_armed' = mx_armed \cup left
               /\ mx_due' = [p \in Pipes |-> IF p[1] \in S THEN mx_written[p] ELSE mx_due[p]]
               /\ UNCHANGED <<mx_written, mx_inside>>
    <2> DEFINE left == {p \in Registered : p[1] \in S /\ p \notin Keepers \cup mx_hung}
    <2>1. left \in SUBSET Registered /\ mx_hung' = mx_hung \cup left /\ mx_armed' = mx_armed \cup left
      BY <1>2 DEF Leave
    <2> HIDE DEF left
    <2> QED
      BY <1>2, <2>1 DEF Leave
  <1>3. ASSUME NEW n \in MuxNodes, MuxChildExits(n) PROVE MuxInv'
    <2>1. mx_child[n] = "alive" /\ mx_child' = [mx_child EXCEPT ![n] = "exited"] /\ Leave({n}) /\ {n} \in SUBSET MuxNodes
          /\ UNCHANGED <<mx_table, mx_output, mx_pc, mx_drain, mx_events, mx_budget, compact_ids>>
      BY <1>3 DEF MuxChildExits
    <2>2. mx_child' \in [MuxNodes -> {"none", "alive", "exited", "reaped"}]
          /\ \A x \in MuxNodes : mx_child'[x] = IF x = n THEN "exited" ELSE mx_child[x]
      BY <2>1 DEF MuxTypeOK
    <2>3. ~(mx_drain \in {"forced", "final"} /\ mx_pc # "error")
      BY <2>1 DEF ForcedDrain
    <2>4. PICK left \in SUBSET Registered : mx_hung' = mx_hung \cup left /\ mx_armed' = mx_armed \cup left
      BY <1>2, <2>1
    <2>5. /\ mx_due' = [p \in Pipes |-> IF p[1] \in {n} THEN mx_written[p] ELSE mx_due[p]]
          /\ UNCHANGED <<mx_written, mx_inside>>
      BY <1>2, <2>1
    <2> QED
      BY <2>1, <2>2, <2>3, <2>4, <2>5, MuxLeaves
  <1>4. ASSUME NEW n \in MuxNodes, StopChild(n) PROVE MuxInv'
    <2>1. mx_child[n] = "alive" /\ mx_child' = [mx_child EXCEPT ![n] = "reaped"] /\ Leave({n}) /\ {n} \in SUBSET MuxNodes
          /\ UNCHANGED <<mx_table, mx_output, mx_pc, mx_drain, mx_events, mx_budget, compact_ids>>
          /\ mx_pc = "top"
      BY <1>4 DEF StopChild
    <2>2. mx_child' \in [MuxNodes -> {"none", "alive", "exited", "reaped"}]
          /\ \A x \in MuxNodes : mx_child'[x] = IF x = n THEN "reaped" ELSE mx_child[x]
      BY <2>1 DEF MuxTypeOK
    <2>3. PICK left \in SUBSET Registered : mx_hung' = mx_hung \cup left /\ mx_armed' = mx_armed \cup left
      BY <1>2, <2>1
    <2>4. /\ mx_due' = [p \in Pipes |-> IF p[1] \in {n} THEN mx_written[p] ELSE mx_due[p]]
          /\ UNCHANGED <<mx_written, mx_inside>>
      BY <1>2, <2>1
    <2> QED
      BY ZenonT(60), <2>1, <2>2, <2>3, <2>4, MuxLeaves
  <1>5. ASSUME NEW n \in MuxNodes, ReapChild(n) PROVE MuxInv'
    <2>1. mx_child[n] = "exited" /\ mx_child' = [mx_child EXCEPT ![n] = "reaped"]
          /\ UNCHANGED <<mx_table, mx_output, mx_drain, mx_events, mx_budget, compact_ids>>
          /\ UNCHANGED <<mx_written, mx_inside, mx_hung, mx_armed>>
          /\ mx_pc = "reap" /\ mx_pc' = "top"
      BY <1>5 DEF ReapChild
    <2>2. mx_child' \in [MuxNodes -> {"none", "alive", "exited", "reaped"}]
          /\ \A x \in MuxNodes : mx_child'[x] = IF x = n THEN "reaped" ELSE mx_child[x]
      BY <2>1 DEF MuxTypeOK
    <2>3. mx_due' = [p \in Pipes |-> IF p[1] \in {} THEN mx_written[p] ELSE mx_due[p]]
      BY <1>5 DEF ReapChild, MuxTypeOK
    <2>4. {} \in SUBSET Registered /\ {} \in SUBSET MuxNodes /\ mx_hung' = mx_hung \cup {} /\ mx_armed' = mx_armed \cup {}
      BY <2>1
    <2> QED
      BY <2>1, <2>2, <2>3, <2>4, MuxLeaves
  <1>6. CASE ShutAll
    <2> DEFINE S == {n \in MuxNodes : mx_child[n] = "alive"}
    <2>1. mx_child' = [n \in MuxNodes |-> IF n \in Unreaped THEN "reaped" ELSE mx_child[n]] /\ Leave(S)
          /\ UNCHANGED <<mx_table, mx_output, mx_events, mx_budget, compact_ids>>
          /\ mx_pc = "top" /\ mx_pc' = "poll" /\ mx_drain' = "forced" /\ S \in SUBSET MuxNodes
          /\ \A n \in S : mx_child[n] = "alive"
      BY <1>6 DEF ShutAll, Poll
    <2>2. mx_child' \in [MuxNodes -> {"none", "alive", "exited", "reaped"}]
          /\ \A x \in MuxNodes : mx_child'[x] = IF mx_child[x] \in {"alive", "exited"} THEN "reaped" ELSE mx_child[x]
      BY <2>1 DEF MuxTypeOK, Unreaped
    <2> HIDE DEF S
    <2>3. PICK left \in SUBSET Registered : mx_hung' = mx_hung \cup left /\ mx_armed' = mx_armed \cup left
      BY <1>2, <2>1
    <2>4. /\ mx_due' = [p \in Pipes |-> IF p[1] \in S THEN mx_written[p] ELSE mx_due[p]]
          /\ UNCHANGED <<mx_written, mx_inside>>
      BY <1>2, <2>1
    <2>5. \A n \in MuxNodes : mx_child'[n] \in {"none", "reaped"}
      BY <2>2 DEF MuxTypeOK
    <2>6. \A n \in MuxNodes : mx_child'[n] = "none" => mx_child[n] = "none"
      BY <2>2
    <2>7. \A n \in MuxNodes : mx_child[n] = "reaped" => mx_child'[n] = "reaped"
      BY <2>2
    <2> QED
      BY <2>1, <2>2, <2>3, <2>4, <2>5, <2>6, <2>7, MuxLeaves
  <1> QED
    BY <1>1, <1>3, <1>4, <1>5, <1>6

(* A new child starts with empty pipes that are open.                      *)
LEMMA MuxSpawns ==
    ASSUME MuxInv, NEW n \in MuxNodes, spawn_pipes(n)
    PROVE  MuxInv'
  <1> USE DEF MuxInv
  <1>1. /\ mx_pc = "spawn" /\ mx_child[n] = "none" /\ mx_child' = [mx_child EXCEPT ![n] = "alive"]
        /\ compact_ids' = compact_ids \cup {n} /\ mx_events = <<>>
        /\ UNCHANGED <<mx_written, mx_inside, mx_hung, mx_due, mx_armed, mx_read, mx_held, mx_emitted,
                       mx_pc, mx_drain, mx_events, mx_budget>>
    BY DEF spawn_pipes, mx_output, BudgetOK
  <1>2. \A p \in Pipes : Drawn(p)' = Drawn(p)
    BY <1>1 DEF Drawn
  <1>3. /\ sources' \in Seq(Pipes \cup {NoPipe}) /\ Tokens \subseteq Tokens'
        /\ free_tokens' \in Seq(Tokens')
        /\ TableOK'
        /\ \A t \in Tokens : sources[t] # NoPipe => sources'[t] = sources[t]
        /\ Registered' = Registered \cup {<<n, s>> : s \in ToSet(Streams)}
    BY SpawnTable
  <1>4. MuxTypeOK'
    <2>1. mx_events' \in Seq(Tokens')
      BY <1>1
    <2>2. mx_child' \in [MuxNodes -> {"none", "alive", "exited", "reaped"}]
      BY <1>1 DEF MuxTypeOK
    <2> QED
      BY <1>1, <1>3, <2>1, <2>2 DEF MuxTypeOK
  <1>5. \A x \in MuxNodes : x # n => mx_child'[x] = mx_child[x]
    BY <1>1 DEF MuxTypeOK
  <1>6. Accounts'
    <2> SUFFICES ASSUME NEW p \in Pipes
                 PROVE  /\ Drawn(p) + mx_inside[p] = mx_written[p] /\ mx_due[p] <= mx_written[p]
                        /\ p \notin Registered' =>
                              mx_inside[p] = 0 \/ (mx_child'[p[1]] = "reaped" /\ mx_due[p] <= Drawn(p))
      BY <1>1, <1>2 DEF Accounts
    <2>1. p[1] = n => mx_inside[p] = 0
      BY <1>1 DEF TableOK
    <2> QED
      BY <1>1, <1>3, <1>5, <2>1, PipeFacts DEF Accounts
  <1>7. BudgetOK'
    BY <1>1 DEF BudgetOK
  <1>8. NothingStranded'
    <2> SUFFICES ASSUME NEW t \in Tokens', sources'[t] # NoPipe,
                        mx_inside[sources'[t]] > 0 \/ sources'[t] \in mx_hung
                 PROVE  sources'[t] \in mx_armed
      BY <1>1 DEF NothingStranded, Tokens
    <2>1. sources'[t] \in Registered'
      BY <1>4, RegisteredFacts DEF Registered, Tokens
    <2>2. CASE sources'[t] \in Registered
      <3>1. PICK u \in Tokens : sources[u] = sources'[t]
        BY <2>2 DEF Registered, Tokens
      <3>2. sources[u] \in mx_armed \/ \E i \in DOMAIN mx_events : mx_events[i] = u
        BY <1>1, <3>1 DEF NothingStranded, Tokens
      <3>3. DOMAIN mx_events = {}
        BY <1>1
      <3> QED
        BY <3>1, <3>2, <3>3
    <2>3. CASE sources'[t] \notin Registered
      <3>1. PICK s \in ToSet(Streams) : sources'[t] = <<n, s>>
        BY <1>3, <2>1, <2>3
      <3>2. sources'[t] \in Pipes /\ sources'[t][1] = n
        BY <3>1, PipeFacts
      <3>3. mx_inside[sources'[t]] = 0 /\ sources'[t] \notin mx_hung
        BY <1>1, <3>2 DEF TableOK
      <3> QED
        BY <3>3
    <2> QED
      BY <2>2, <2>3
  <1>9. ForcedDrain'
    BY <1>1 DEF ForcedDrain, MuxTypeOK, Draining
  <1> QED
    BY <1>3, <1>4, <1>6, <1>7, <1>8, <1>9

(* There are finitely many pipes.                                          *)
LEMMA PipesFinite == IsFiniteSet(Pipes) /\ Cardinality(Pipes) \in Nat
  <1>1. IsFiniteSet(1..Len(Streams))
    <2>1. 1 \in Int /\ Len(Streams) \in Int
      BY PipeFacts
    <2> QED
      BY <2>1, FS_Interval
  <1>2. Streams \in Surjection(1..Len(Streams), ToSet(Streams))
    <2>1. Streams \in [1..Len(Streams) -> ToSet(Streams)]
      BY MuxAssumption
    <2>2. \A s \in ToSet(Streams) : \E i \in 1..Len(Streams) : Streams[i] = s
      BY PipeFacts DEF ToSet
    <2> QED
      BY <2>1, <2>2 DEF Surjection
  <1>3. IsFiniteSet(ToSet(Streams))
    BY <1>1, <1>2, FS_Surjection
  <1>4. IsFiniteSet(MuxNodes)
    BY MuxAssumption
  <1>5. IsFiniteSet(MuxNodes \X ToSet(Streams))
    BY <1>3, <1>4, FS_Product
  <1> QED
    BY <1>5, FS_CardinalityType DEF Pipes

(* An order of a finite set's members has every one of them.               *)
LEMMA AnyOrder ==
    ASSUME NEW S, IsFiniteSet(S), NEW q \in SetToSeqs(S)
    PROVE  q \in Seq(S) /\ \A x \in S : \E i \in DOMAIN q : q[i] = x
  <1> DEFINE D == 1..Cardinality(S)
  <1>1. Cardinality(S) \in Nat
    BY FS_CardinalityType
  <1>2. q \in [D -> S] /\ \A i, j \in D : i # j => q[i] # q[j]
    BY DEF SetToSeqs
  <1>3. q \in Injection(D, S)
    BY <1>2 DEF Injection, IsInjective
  <1>4. IsFiniteSet(D) /\ Cardinality(D) = Cardinality(S)
    <2>1. 1 \in Int /\ Cardinality(S) \in Int
      BY <1>1
    <2>2. Cardinality(D) = IF 1 > Cardinality(S) THEN 0 ELSE Cardinality(S) - 1 + 1
      BY <2>1, FS_Interval
    <2>3. IsFiniteSet(D)
      BY <2>1, FS_Interval
    <2> QED
      BY <1>1, <2>2, <2>3
  <1>5. q \in Surjection(D, S)
    BY <1>3, <1>4, FS_Injection
  <1>6. \A x \in S : \E i \in D : q[i] = x
    BY <1>5 DEF Surjection
  <1>7. DOMAIN q = D /\ q \in Seq(S)
    BY <1>1, <1>2
  <1> QED
    BY <1>6, <1>7

(* A poll takes every event there is.                                      *)
LEMMA MuxPolls ==
    ASSUME MuxInv, PollReturns
    PROVE  MuxInv'
  <1> USE DEF MuxInv
  <1>1. PICK S \in SUBSET mx_armed :
          /\ Cardinality(S) <= EventCapacity
          /\ S # mx_armed => Cardinality(S) = EventCapacity
          /\ mx_armed' = mx_armed \ S
          /\ mx_events' \in SetToSeqs({TokenOf(p) : p \in S})
    BY DEF PollReturns
  <1>2. /\ mx_pc = "poll" /\ mx_pc' = "read" /\ mx_budget' = READ_FAIRNESS_BUDGET /\ mx_events = <<>>
        /\ UNCHANGED <<mx_child, mx_written, mx_inside, mx_hung, mx_due, mx_table,
                       sources, mx_read, mx_held, mx_emitted, mx_drain, compact_ids>>
    BY DEF PollReturns, mx_output, mx_table, BudgetOK
  <1>3. mx_armed \subseteq Registered /\ Registered \subseteq Pipes
    BY RegisteredFacts DEF TableOK
  <1>4. IsFiniteSet(mx_armed) /\ Cardinality(mx_armed) <= Cardinality(Pipes)
    BY <1>3, PipesFinite, FS_Subset
  <1>5. S = mx_armed
    <2>1. IsFiniteSet(S) /\ Cardinality(S) \in Nat /\ Cardinality(mx_armed) \in Nat
      BY <1>4, FS_Subset, FS_CardinalityType
    <2>2. EventCapacity \in Nat /\ EventCapacity >= Cardinality(Pipes) /\ Cardinality(Pipes) \in Nat
      BY PipesFinite, MuxAssumption
    <2>3. S # mx_armed => Cardinality(S) = Cardinality(mx_armed)
      <3>1. Cardinality(S) <= Cardinality(mx_armed)
        BY <1>4, FS_Subset
      <3> QED
        BY <1>1, <1>4, <2>1, <2>2, <3>1
    <2>4. S # mx_armed => Cardinality(S) < Cardinality(mx_armed)
      BY <1>4, <2>1, FS_Subset
    <2> QED
      BY <2>1, <2>3, <2>4
  <1>6. \A p \in Registered : TokenOf(p) \in Tokens /\ sources[TokenOf(p)] = p
    BY RegisteredFacts, <1>3 DEF TokenOf, Tokens
  <1>7. \A t \in Tokens : sources[t] # NoPipe => TokenOf(sources[t]) = t
    <2> SUFFICES ASSUME NEW t \in Tokens, sources[t] # NoPipe PROVE TokenOf(sources[t]) = t
      OBVIOUS
    <2>1. sources[t] \in Registered
      BY RegisteredFacts
    <2> QED
      BY <1>6, <2>1 DEF TableOK
  <1>8. /\ mx_events' \in Seq({TokenOf(p) : p \in S})
        /\ \A p \in S : \E i \in DOMAIN mx_events' : mx_events'[i] = TokenOf(p)
    <2> DEFINE T == {TokenOf(p) : p \in S}
    <2>1. IsFiniteSet(T)
      <3> DEFINE f == [p \in S |-> TokenOf(p)]
      <3>1. f \in Surjection(S, T)
        BY DEF Surjection
      <3> HIDE DEF f, T
      <3> QED
        BY <1>4, <1>5, <3>1, FS_Surjection
    <2> HIDE DEF T
    <2>2. mx_events' \in Seq(T) /\ \A x \in T : \E i \in DOMAIN mx_events' : mx_events'[i] = x
      BY ZenonT(60), <1>1, <2>1, AnyOrder DEF T
    <2> QED
      BY <2>2 DEF T
  <1>9. mx_events' \in Seq(Tokens)
    <2>1. {TokenOf(p) : p \in S} \subseteq Tokens
      BY <1>3, <1>5, <1>6
    <2> QED
      BY <1>8, <2>1, WiderSeq
  <1>10. \A p \in Pipes : Drawn(p)' = Drawn(p)
    BY <1>2 DEF Drawn
  <1>11. TableOK' /\ Tokens' = Tokens /\ Registered' = Registered
    <2>1. mx_armed' \subseteq Registered
      BY <1>1, <1>3
    <2>2. \A n \in MuxNodes : has_pipes(n) => n \in compact_ids'
      BY <1>2 DEF TableOK
    <2> QED
      BY <1>2, <2>1, <2>2, TableStays
  <1>12. MuxTypeOK'
    <2>1. mx_budget' \in 0..READ_FAIRNESS_BUDGET
      BY <1>2, PipeFacts
    <2>2. \/ mx_drain \in {"normal", "idle"} \/ mx_drain = "forced" \/ mx_drain = "final"
      BY <1>2 DEF MuxTypeOK
    <2> QED
      BY <1>2, <1>9, <1>11, <2>1, <2>2 DEF MuxTypeOK, Draining, mx_table
  <1>13. Accounts'
    BY <1>2, <1>10, <1>11 DEF Accounts
  <1>14. \A p \in Pipes : mx_inside[p] + READ_FAIRNESS_BUDGET <= PipeUnits + READ_FAIRNESS_BUDGET
    <2> SUFFICES ASSUME NEW p \in Pipes
                 PROVE  mx_inside[p] + READ_FAIRNESS_BUDGET <= PipeUnits + READ_FAIRNESS_BUDGET
      OBVIOUS
    <2> QED
      BY PipeFacts, Measures
  <1>15. mx_events' # <<>> => Head(mx_events') \in Tokens
    BY <1>9
  <1>16. BudgetOK'
    <2> SUFFICES ASSUME mx_events' # <<>>, NEW p, p = sources[Head(mx_events')], p # NoPipe
                 PROVE  mx_inside[p] + READ_FAIRNESS_BUDGET <= PipeUnits + READ_FAIRNESS_BUDGET
      BY <1>2 DEF BudgetOK
    <2>1. p \in Pipes
      BY <1>15, RegisteredFacts
    <2> QED
      BY <1>14, <2>1
  <1>17. DOMAIN mx_events = {}
    BY <1>2
  <1>18. \A t \in Tokens : sources[t] # NoPipe /\ (mx_inside[sources[t]] > 0 \/ sources[t] \in mx_hung)
            => \E i \in DOMAIN mx_events' : mx_events'[i] = t
    <2> SUFFICES ASSUME NEW t \in Tokens, sources[t] # NoPipe, mx_inside[sources[t]] > 0 \/ sources[t] \in mx_hung
                 PROVE  \E i \in DOMAIN mx_events' : mx_events'[i] = t
      OBVIOUS
    <2>1. sources[t] \in S
      BY <1>2, <1>5, <1>17 DEF NothingStranded, Tokens
    <2> QED
      BY <1>7, <1>8, <2>1
  <1>19. NothingStranded'
    BY <1>2, <1>18 DEF NothingStranded, Tokens
  <1>20. ForcedDrain'
    <2>1. mx_drain \in {"forced", "final"} => \A n \in MuxNodes : mx_child'[n] \in {"none", "reaped"}
      BY <1>2 DEF ForcedDrain
    <2>2. ASSUME mx_drain = "forced", NEW p \in Pipes, Drawn(p) < mx_due[p]
          PROVE  \E i \in DOMAIN mx_events' : sources[mx_events'[i]] = p
      <3>1. mx_inside[p] > 0
        BY Measures, <2>2 DEF Accounts
      <3>2. ~(mx_due[p] <= Drawn(p)) /\ mx_inside[p] # 0
        BY Measures, <2>2, <3>1
      <3>3. p \in Registered
        BY <1>2, <3>2 DEF Accounts
      <3>4. PICK t \in Tokens : sources[t] = p
        BY <3>3, RegisteredFacts
      <3> QED
        BY <1>18, <3>1, <3>4, PipeFacts
    <2>3. \A p \in Pipes : mx_due[p] + READ_FAIRNESS_BUDGET <= Drawn(p) + PipeUnits + READ_FAIRNESS_BUDGET
      <3> SUFFICES ASSUME NEW p \in Pipes
                   PROVE  mx_due[p] + READ_FAIRNESS_BUDGET <= Drawn(p) + PipeUnits + READ_FAIRNESS_BUDGET
        OBVIOUS
      <3>1. Drawn(p) + mx_inside[p] = mx_written[p] /\ mx_due[p] <= mx_written[p]
        BY DEF Accounts
      <3> QED
        BY SMTT(60), <3>1, Measures, PipeFacts
    <2>4. mx_events' # <<>> /\ sources[Head(mx_events')] # NoPipe => sources[Head(mx_events')] \in Pipes
      BY <1>15, RegisteredFacts
    <2>5. mx_drain = "final" => \A p \in Pipes : mx_due[p] <= Drawn(p)
      BY <1>2 DEF ForcedDrain
    <2>6. (mx_pc = "read" /\ mx_drain = "forced" =>
            /\ \A p \in Pipes : Drawn(p) < mx_due[p] =>
                  \E i \in DOMAIN mx_events : sources[mx_events[i]] = p
            /\ mx_events # <<>> =>
                LET p == sources[Head(mx_events)]
                IN p # NoPipe => \/ mx_due[p] <= Drawn(p)
                                 \/ mx_due[p] + READ_FAIRNESS_BUDGET <= Drawn(p) + PipeUnits + mx_budget)'
      <3>1. \A p \in Pipes : mx_drain = "forced" /\ Drawn(p) < mx_due[p] =>
               \E i \in DOMAIN mx_events' : sources[mx_events'[i]] = p
        BY <2>2
      <3>2. mx_drain = "forced" /\ mx_events' # <<>> =>
                LET p == sources[Head(mx_events')]
                IN p # NoPipe => mx_due[p] + READ_FAIRNESS_BUDGET <= Drawn(p) + PipeUnits + READ_FAIRNESS_BUDGET
        BY <2>3, <2>4
      <3> QED
        BY <1>2, <1>10, <3>1, <3>2 DEF Drawn
    <2> QED
      BY <1>2, <1>10, <2>1, <2>5, <2>6 DEF ForcedDrain
  <1> QED
    BY <1>11, <1>12, <1>13, <1>16, <1>19, <1>20

(* The events after the first.                                             *)
LEMMA LaterEvents ==
    ASSUME MuxTypeOK, mx_events # <<>>
    PROVE  /\ Head(mx_events) \in Tokens /\ Tail(mx_events) \in Seq(Tokens)
           /\ Tail(mx_events) # <<>> => Head(Tail(mx_events)) \in Tokens
           /\ \A i \in DOMAIN mx_events : mx_events[i] # Head(mx_events) =>
                 \E j \in DOMAIN Tail(mx_events) : Tail(mx_events)[j] = mx_events[i]
  <1>1. mx_events \in Seq(Tokens)
    BY DEF MuxTypeOK
  <1>2. Head(mx_events) \in Tokens /\ Tail(mx_events) \in Seq(Tokens) /\ Head(mx_events) = mx_events[1]
    BY <1>1
  <1>3. ASSUME NEW i \in DOMAIN mx_events, mx_events[i] # Head(mx_events)
        PROVE  \E j \in DOMAIN Tail(mx_events) : Tail(mx_events)[j] = mx_events[i]
    <2>1. i \in 1..Len(mx_events) /\ i # 1 /\ Len(mx_events) \in Nat
      BY <1>1, <1>2, <1>3
    <2>2. i - 1 \in 1..(Len(mx_events) - 1) /\ (i - 1) + 1 = i
      BY <2>1
    <2>3. DOMAIN Tail(mx_events) = 1..(Len(mx_events) - 1)
          /\ \A j \in 1..(Len(mx_events) - 1) : Tail(mx_events)[j] = mx_events[j + 1]
      BY <1>1
    <2> QED
      BY <2>2, <2>3
  <1>4. Tail(mx_events) # <<>> => Head(Tail(mx_events)) \in Tokens
    BY <1>2
  <1> QED
    BY <1>2, <1>3, <1>4

(* What BudgetOK and ForcedDrain say of a pipe whose event has its whole   *)
(* budget left.                                                            *)
LEMMA FreshBudget ==
    ASSUME MuxTypeOK, Accounts, NEW p \in Pipes
    PROVE  /\ mx_inside[p] + READ_FAIRNESS_BUDGET <= PipeUnits + READ_FAIRNESS_BUDGET
           /\ mx_due[p] + READ_FAIRNESS_BUDGET <= Drawn(p) + PipeUnits + READ_FAIRNESS_BUDGET
           /\ mx_inside[p] = 0 => mx_due[p] <= Drawn(p)
  <1> DEFINE i == mx_inside[p]
             d == mx_due[p]
             n == Drawn(p)
             w == mx_written[p]
  <1>1. n + i = w /\ d <= w
    BY DEF Accounts
  <1>2. i \in Nat /\ d \in Nat /\ n \in Nat /\ w \in Nat /\ i <= PipeUnits
    BY Measures
  <1>3. PipeUnits \in Nat /\ READ_FAIRNESS_BUDGET \in Nat
    BY PipeFacts
  <1> HIDE DEF i, d, n, w
  <1>4. /\ i + READ_FAIRNESS_BUDGET <= PipeUnits + READ_FAIRNESS_BUDGET
        /\ d + READ_FAIRNESS_BUDGET <= n + PipeUnits + READ_FAIRNESS_BUDGET
        /\ i = 0 => d <= n
    BY <1>1, <1>2, <1>3
  <1> QED
    BY <1>4 DEF i, d, n, w

(* The event at hand is done with: its pipe has been closed, or has        *)
(* nothing left, or has another event.                                     *)
LEMMA MuxPassesOn ==
    ASSUME MuxInv, mx_pc = "read", mx_events # <<>>, NEW h, h = Head(mx_events), NextEvent,
           UNCHANGED <<mx_child, mx_written, mx_inside, mx_hung, mx_due, mx_read, mx_held,
                       mx_emitted, mx_pc, mx_drain, compact_ids>>,
           TableOK', Tokens' = Tokens,
           sources' \in Seq(Pipes \cup {NoPipe}), free_tokens' \in Seq(Tokens),
           \A u \in Tokens \ {h} : sources'[u] = sources[u],
           mx_armed \ {sources[h]} \subseteq mx_armed', Registered \ {sources[h]} \subseteq Registered',
           sources'[h] # NoPipe =>
               /\ sources'[h] = sources[h]
               /\ sources[h] \in mx_armed' \/ (mx_inside[sources[h]] = 0 /\ sources[h] \notin mx_hung),
           sources[h] \in Registered \ Registered' => mx_inside[sources[h]] = 0,
           sources[h] # NoPipe /\ mx_drain = "forced" => mx_due[sources[h]] <= Drawn(sources[h])
    PROVE  MuxInv'
  <1> USE DEF MuxInv
  <1>1. mx_events' = Tail(mx_events) /\ mx_budget' = READ_FAIRNESS_BUDGET
    BY DEF NextEvent
  <1>2. /\ h \in Tokens /\ Tail(mx_events) \in Seq(Tokens)
        /\ Tail(mx_events) # <<>> => Head(Tail(mx_events)) \in Tokens
        /\ \A i \in DOMAIN mx_events : mx_events[i] # h =>
                 \E j \in DOMAIN Tail(mx_events) : Tail(mx_events)[j] = mx_events[i]
    BY LaterEvents
  <1>3. \A q \in Pipes : Drawn(q)' = Drawn(q)
    BY DEF Drawn
  <1>4. \A u \in Tokens : sources'[u] # NoPipe => sources'[u] = sources[u] /\ sources[u] \in Pipes
    BY RegisteredFacts
  <1>5. MuxTypeOK'
    <2>1. mx_budget' \in 0..READ_FAIRNESS_BUDGET
      BY <1>1, PipeFacts
    <2> QED
      BY <1>1, <1>2, <2>1 DEF MuxTypeOK
  <1>6. Accounts'
    <2> SUFFICES ASSUME NEW q \in Pipes, q \notin Registered'
                 PROVE  mx_inside[q] = 0 \/ (mx_child[q[1]] = "reaped" /\ mx_due[q] <= Drawn(q))
      BY <1>3 DEF Accounts
    <2>1. q \in Registered => q = sources[h]
      OBVIOUS
    <2> QED
      BY <2>1 DEF Accounts
  <1>7. BudgetOK'
    <2> SUFFICES ASSUME Tail(mx_events) # <<>>, sources'[Head(Tail(mx_events))] # NoPipe
                 PROVE  mx_inside[sources'[Head(Tail(mx_events))]] + READ_FAIRNESS_BUDGET
                            <= PipeUnits + READ_FAIRNESS_BUDGET
      BY <1>1 DEF BudgetOK
    <2> QED
      BY <1>2, <1>4, FreshBudget
  <1>8. NothingStranded'
    <2> SUFFICES ASSUME NEW u \in Tokens, sources'[u] # NoPipe,
                        mx_inside[sources'[u]] > 0 \/ sources'[u] \in mx_hung
                 PROVE  sources'[u] \in mx_armed' \/ \E i \in DOMAIN mx_events' : mx_events'[i] = u
      BY DEF NothingStranded, Tokens
    <2>1. CASE u = h
      <3>1. sources[h] \in mx_armed' \/ (mx_inside[sources[h]] = 0 /\ sources[h] \notin mx_hung)
        BY <2>1
      <3> QED
        BY <1>4, <2>1, <3>1
    <2>2. CASE u # h
      <3>1. sources'[u] = sources[u] /\ sources[u] # sources[h]
        BY <1>2, <1>4, <2>2 DEF TableOK
      <3>2. sources[u] \in mx_armed \/ \E i \in DOMAIN mx_events : mx_events[i] = u
        BY <3>1 DEF NothingStranded, Tokens
      <3> QED
        BY <1>1, <1>2, <2>2, <3>1, <3>2
    <2> QED
      BY <2>1, <2>2
  <1>9. ForcedDrain'
    <2>1. mx_drain = "forced" => \A q \in Pipes : Drawn(q) < mx_due[q] =>
              \E i \in DOMAIN mx_events' : sources'[mx_events'[i]] = q
      <3> SUFFICES ASSUME mx_drain = "forced", NEW q \in Pipes, Drawn(q) < mx_due[q]
                   PROVE  \E i \in DOMAIN mx_events' : sources'[mx_events'[i]] = q
        OBVIOUS
      <3>1. PICK i \in DOMAIN mx_events : sources[mx_events[i]] = q
        BY DEF ForcedDrain
      <3>2. q # sources[h]
        BY Measures, PipeFacts
      <3>3. mx_events[i] \in Tokens \ {h}
        BY SMTT(60), <3>1, <3>2 DEF MuxTypeOK
      <3>4. PICK j \in DOMAIN mx_events' : mx_events'[j] = mx_events[i]
        BY <1>1, <1>2, <3>3
      <3> QED
        BY <3>1, <3>3, <3>4
    <2>2. mx_events' # <<>> => LET q == sources'[Head(mx_events')]
            IN q # NoPipe => mx_due[q] + READ_FAIRNESS_BUDGET <= Drawn(q) + PipeUnits + mx_budget'
      BY <1>1, <1>2, <1>4, FreshBudget
    <2>3. mx_events' # <<>> /\ sources'[Head(mx_events')] # NoPipe => sources'[Head(mx_events')] \in Pipes
      BY <1>1, <1>2, <1>4
    <2>4. (mx_pc = "read" /\ mx_drain = "forced" =>
            /\ \A q \in Pipes : Drawn(q) < mx_due[q] =>
                  \E i \in DOMAIN mx_events : sources[mx_events[i]] = q
            /\ mx_events # <<>> =>
                LET q == sources[Head(mx_events)]
                IN q # NoPipe => \/ mx_due[q] <= Drawn(q)
                                 \/ mx_due[q] + READ_FAIRNESS_BUDGET <= Drawn(q) + PipeUnits + mx_budget)'
      BY <1>3, <2>1, <2>2, <2>3
    <2> QED
      BY <1>3, <2>4 DEF ForcedDrain
  <1> QED
    BY <1>5, <1>6, <1>7, <1>8, <1>9

(* One unit is read of the pipe at hand.                                   *)
LEMMA MuxReadsOn ==
    ASSUME MuxInv, mx_pc = "read", mx_events # <<>>, NEW q \in Pipes, q = sources[Head(mx_events)],
           mx_budget > 0, mx_inside[q] > 0,
           mx_inside' = [mx_inside EXCEPT ![q] = @ - 1],
           mx_read' = [mx_read EXCEPT ![q] = @ + 1],
           ReadOn, UNCHANGED <<mx_armed, mx_table>>,
           UNCHANGED <<mx_child, mx_written, mx_hung, mx_due, mx_held, mx_emitted, mx_pc,
                       mx_drain, compact_ids>>
    PROVE  MuxInv'
  <1> USE DEF MuxInv
  <1>1. mx_budget' = mx_budget - 1 /\ mx_events' = mx_events /\ sources' = sources /\ free_tokens' = free_tokens
    BY DEF ReadOn, mx_table
  <1>2. /\ mx_inside'[q] = mx_inside[q] - 1 /\ mx_read'[q] = mx_read[q] + 1
        /\ \A p \in Pipes \ {q} : mx_inside'[p] = mx_inside[p] /\ mx_read'[p] = mx_read[p]
    BY DEF MuxTypeOK
  <1>3. /\ Drawn(q)' = Drawn(q) + 1
        /\ \A p \in Pipes \ {q} : Drawn(p)' = Drawn(p)
    <2>1. Drawn(q)' = mx_emitted[q] + mx_held[q] + (mx_read[q] + 1)
      BY <1>2 DEF Drawn
    <2>2. mx_emitted[q] + mx_held[q] + (mx_read[q] + 1) = mx_emitted[q] + mx_held[q] + mx_read[q] + 1
      BY SMTT(60), Measures
    <2>3. \A p \in Pipes \ {q} : Drawn(p)' = Drawn(p)
      BY <1>2 DEF Drawn
    <2> QED
      BY <2>1, <2>2, <2>3 DEF Drawn
  <1>4. q \in Registered /\ Head(mx_events) \in Tokens
    BY LaterEvents, RegisteredFacts
  <1>5. TableOK' /\ Tokens' = Tokens /\ Registered' = Registered
    <2>1. mx_armed' \subseteq Registered /\ \A n \in MuxNodes : has_pipes(n) => n \in compact_ids'
      BY DEF TableOK
    <2>2. \A p \in Pipes : p \notin Registered => mx_inside'[p] = mx_inside[p]
      BY <1>2, <1>4
    <2> QED
      BY <2>1, <2>2, TableStays
  <1>6. /\ mx_inside[q] - 1 \in 0..PipeUnits /\ mx_read[q] + 1 \in Nat
        /\ mx_budget - 1 \in 0..READ_FAIRNESS_BUDGET
    BY SMTT(60), Measures, PipeFacts
  <1>7. MuxTypeOK'
    <2>1. mx_inside' \in [Pipes -> 0..PipeUnits] /\ mx_read' \in [Pipes -> Nat]
      BY <1>6 DEF MuxTypeOK
    <2> QED
      BY <1>1, <1>5, <1>6, <2>1 DEF MuxTypeOK
  <1>8. \A p \in Pipes : Drawn(p) <= Drawn(p)'
    BY <1>3, Measures
  <1>9. Accounts'
    <2> SUFFICES ASSUME NEW p \in Pipes
                 PROVE  /\ Drawn(p)' + mx_inside'[p] = mx_written[p] /\ mx_due[p] <= mx_written[p]
                        /\ mx_pc # "error" /\ p \notin Registered =>
                              mx_inside'[p] = 0 \/ (mx_child[p[1]] = "reaped" /\ mx_due[p] <= Drawn(p)')
      BY <1>5 DEF Accounts
    <2>1. /\ Drawn(p) + mx_inside[p] = mx_written[p] /\ mx_due[p] <= mx_written[p]
          /\ Drawn(p) \in Nat /\ mx_inside[p] \in Nat
      BY Measures DEF Accounts
    <2>2. CASE p = q
      <3>1. (Drawn(p) + 1) + (mx_inside[p] - 1) = mx_written[p]
        BY <2>1
      <3> QED
        BY <1>2, <1>3, <1>4, <2>1, <2>2, <3>1
    <2>3. CASE p # q
      BY <1>2, <1>3, <2>1, <2>3 DEF Accounts
    <2> QED
      BY <2>2, <2>3
  <1>10. BudgetOK'
    <2> SUFFICES ASSUME q \notin mx_armed
                 PROVE  mx_inside'[q] + READ_FAIRNESS_BUDGET <= PipeUnits + mx_budget'
      BY <1>1 DEF BudgetOK
    <2>1. mx_inside[q] + READ_FAIRNESS_BUDGET <= PipeUnits + mx_budget
      BY PipeFacts DEF BudgetOK
    <2>2. (mx_inside[q] - 1) + READ_FAIRNESS_BUDGET <= PipeUnits + (mx_budget - 1)
      BY SMTT(60), <2>1, Measures, PipeFacts
    <2> QED
      BY <1>1, <1>2, <2>2
  <1>11. NothingStranded'
    <2> SUFFICES ASSUME NEW u \in Tokens, sources[u] # NoPipe,
                        mx_inside'[sources[u]] > 0 \/ sources[u] \in mx_hung
                 PROVE  sources[u] \in mx_armed \/ \E i \in DOMAIN mx_events : mx_events[i] = u
      BY <1>1, <1>5 DEF NothingStranded, Tokens
    <2>1. mx_inside[sources[u]] > 0 \/ sources[u] \in mx_hung
      <3>1. sources[u] \in Pipes
        BY RegisteredFacts
      <3>2. CASE sources[u] = q
        BY <3>2
      <3>3. CASE sources[u] # q
        BY <1>2, <3>1, <3>3
      <3> QED
        BY <3>2, <3>3
    <2> QED
      BY <2>1 DEF NothingStranded, Tokens
  <1>12. ForcedDrain'
    <2>1. mx_drain = "forced" => \A p \in Pipes : Drawn(p)' < mx_due[p] =>
              \E i \in DOMAIN mx_events : sources[mx_events[i]] = p
      <3> SUFFICES ASSUME mx_drain = "forced", NEW p \in Pipes, Drawn(p)' < mx_due[p]
                   PROVE  \E i \in DOMAIN mx_events : sources[mx_events[i]] = p
        OBVIOUS
      <3>1. Drawn(p) < mx_due[p]
        BY <1>3, Measures
      <3> QED
        BY <3>1 DEF ForcedDrain
    <2>2. mx_drain = "forced" =>
              \/ mx_due[q] <= Drawn(q)'
              \/ mx_due[q] + READ_FAIRNESS_BUDGET <= Drawn(q)' + PipeUnits + mx_budget'
      <3>1. mx_drain = "forced" => \/ mx_due[q] <= Drawn(q)
                                   \/ mx_due[q] + READ_FAIRNESS_BUDGET <= Drawn(q) + PipeUnits + mx_budget
        BY PipeFacts DEF ForcedDrain
      <3>2. mx_due[q] <= Drawn(q) => mx_due[q] <= Drawn(q) + 1
        BY Measures
      <3>3. mx_due[q] + READ_FAIRNESS_BUDGET <= Drawn(q) + PipeUnits + mx_budget
              => mx_due[q] + READ_FAIRNESS_BUDGET <= (Drawn(q) + 1) + PipeUnits + (mx_budget - 1)
        BY Measures, PipeFacts
      <3> QED
        BY <1>1, <1>3, <3>1, <3>2, <3>3
    <2>3. mx_drain = "final" => \A p \in Pipes : mx_due[p] <= Drawn(p)'
      <3> SUFFICES ASSUME mx_drain = "final", NEW p \in Pipes PROVE mx_due[p] <= Drawn(p)'
        OBVIOUS
      <3>1. mx_due[p] <= Drawn(p)
        BY DEF ForcedDrain
      <3> QED
        BY <1>3, <3>1, Measures
    <2>4. (mx_pc = "read" /\ mx_drain = "forced" =>
            /\ \A p \in Pipes : Drawn(p) < mx_due[p] =>
                  \E i \in DOMAIN mx_events : sources[mx_events[i]] = p
            /\ mx_events # <<>> =>
                LET p == sources[Head(mx_events)]
                IN p # NoPipe => \/ mx_due[p] <= Drawn(p)
                                 \/ mx_due[p] + READ_FAIRNESS_BUDGET <= Drawn(p) + PipeUnits + mx_budget)'
      BY <1>1, <2>1, <2>2
    <2> QED
      BY <2>3, <2>4 DEF ForcedDrain
  <1> QED
    BY <1>5, <1>7, <1>9, <1>10, <1>11, <1>12

(* One turn of read_ready's loop.                                          *)
LEMMA MuxReads ==
    ASSUME MuxInv, read_ready
    PROVE  MuxInv'
  <1> USE DEF MuxInv
  <1> DEFINE h == Head(mx_events)
             p == sources[h]
  <1>1. /\ mx_pc = "read" /\ mx_events # <<>>
        /\ UNCHANGED <<mx_child, mx_written, mx_hung, mx_due, mx_held, mx_emitted, mx_pc,
                       mx_drain, compact_ids>>
    BY DEF read_ready
  <1>2. h \in Tokens /\ (p # NoPipe => p \in Pipes /\ p \in Registered)
    BY <1>1, LaterEvents, RegisteredFacts
  <1>3. CASE /\ p = NoPipe \/ mx_budget = 0 \/ (mx_inside[p] = 0 /\ p \notin mx_hung)
             /\ NextEvent /\ UNCHANGED <<mx_inside, mx_read, mx_armed, mx_table>>
    <2>1. mx_due' = mx_due /\ mx_inside' = mx_inside /\ mx_armed' = mx_armed
          /\ sources' = sources /\ free_tokens' = free_tokens
      BY <1>1, <1>3 DEF mx_table
    <2>2. TableOK' /\ Tokens' = Tokens /\ Registered' = Registered
      <3>1. mx_armed' \subseteq Registered /\ \A n \in MuxNodes : has_pipes(n) => n \in compact_ids'
        BY <1>1, <1>3 DEF TableOK
      <3> QED
        BY <1>1, <1>3, <3>1, TableStays
    <2>3. p # NoPipe /\ mx_budget = 0 => p \in mx_armed
      <3>1. p # NoPipe /\ p \notin mx_armed => mx_inside[p] + READ_FAIRNESS_BUDGET <= PipeUnits + mx_budget
        BY <1>1 DEF BudgetOK
      <3> HIDE DEF p
      <3> QED
        BY <1>2, <3>1, Measures, PipeFacts
    <2>4. p # NoPipe /\ mx_drain = "forced" => mx_due[p] <= Drawn(p)
      <3>1. p # NoPipe /\ mx_drain = "forced" => \/ mx_due[p] <= Drawn(p)
               \/ mx_due[p] + READ_FAIRNESS_BUDGET <= Drawn(p) + PipeUnits + mx_budget
        BY <1>1 DEF ForcedDrain
      <3>2. \A a, b, u, v \in Nat : a + v <= b + u + 0 /\ u < v => a <= b
        OBVIOUS
      <3> HIDE DEF p
      <3>3. mx_budget = 0 /\ p # NoPipe /\ mx_drain = "forced" => mx_due[p] <= Drawn(p)
        BY <1>2, <3>1, <3>2, Measures, PipeFacts
      <3>4. mx_inside[p] = 0 /\ p # NoPipe => mx_due[p] <= Drawn(p)
        BY <1>2, FreshBudget
      <3> QED
        BY <1>3, <3>3, <3>4
    <2>5. /\ sources' \in Seq(Pipes \cup {NoPipe}) /\ free_tokens' \in Seq(Tokens)
      BY <2>1 DEF MuxTypeOK
    <2>6. p # NoPipe => p \in mx_armed \/ (mx_inside[p] = 0 /\ p \notin mx_hung)
      BY <1>3, <2>3
    <2> QED
      BY <1>1, <1>3, <2>1, <2>2, <2>4, <2>5, <2>6, MuxPassesOn
  <1>4. CASE /\ p # NoPipe /\ mx_budget > 0 /\ mx_inside[p] > 0
             /\ mx_inside' = [mx_inside EXCEPT ![p] = @ - 1]
             /\ mx_read' = [mx_read EXCEPT ![p] = @ + 1]
             /\ ReadOn /\ UNCHANGED <<mx_armed, mx_table>>
    BY <1>1, <1>2, <1>4, MuxReadsOn
  <1>5. CASE /\ p # NoPipe /\ mx_budget > 0 /\ mx_inside[p] = 0 /\ p \in mx_hung
             /\ close_source(h)
             /\ NextEvent /\ UNCHANGED <<mx_inside, mx_read>>
    <2>1. /\ sources' \in Seq(Pipes \cup {NoPipe}) /\ Tokens' = Tokens
          /\ free_tokens' \in Seq(Tokens')
          /\ TableOK'
          /\ sources'[h] = NoPipe /\ \A u \in Tokens \ {h} : sources'[u] = sources[u]
          /\ Registered' = Registered \ {p}
      BY <1>1, <1>2, <1>5, CloseTable
    <2>2. mx_armed' = mx_armed \ {p}
      BY <1>5 DEF close_source
    <2>3. mx_due[p] <= Drawn(p)
      BY <1>2, <1>5, FreshBudget
    <2> QED
      BY <1>1, <1>5, <2>1, <2>2, <2>3, MuxPassesOn
  <1> QED
    BY <1>3, <1>4, <1>5 DEF read_ready

(* A read fails, or the pipes of a child that was shut down are closed.    *)
LEMMA MuxCloses ==
    ASSUME MuxInv, ReadFails \/ \E n \in MuxNodes : remove_node(n)
    PROVE  MuxInv'
  <1> USE DEF MuxInv
  <1>1. PICK t \in Tokens : sources[t] # NoPipe /\ close_source(t)
    <2>1. CASE ReadFails
      BY <2>1, LaterEvents DEF ReadFails
    <2>2. ASSUME NEW n \in MuxNodes, remove_node(n)
          PROVE  \E t \in Tokens : sources[t] # NoPipe /\ close_source(t)
      <3>1. PICK t \in node_tokens[n] : close_source(t)
        BY <2>2 DEF remove_node
      <3>2. t \in Tokens /\ sources[t] # NoPipe
        BY <3>1 DEF TableOK
      <3> QED
        BY <3>1, <3>2
    <2> QED
      BY <2>1, <2>2
  <1>2. /\ UNCHANGED <<mx_child, mx_written, mx_inside, mx_hung, mx_due, mx_read, mx_held,
                       mx_emitted, mx_drain, mx_events, mx_budget, compact_ids>>
        /\ mx_pc' = "error" \/ (mx_pc = "shut" /\ mx_pc' = mx_pc)
    BY DEF ReadFails, remove_node, mx_output
  <1>3. /\ sources' \in Seq(Pipes \cup {NoPipe}) /\ Tokens' = Tokens
        /\ free_tokens' \in Seq(Tokens')
        /\ TableOK'
        /\ sources'[t] = NoPipe /\ \A u \in Tokens \ {t} : sources'[u] = sources[u]
        /\ Registered' = Registered \ {sources[t]}
    BY <1>1, <1>2, CloseTable
  <1>4. mx_armed' = mx_armed \ {sources[t]}
    BY <1>1 DEF close_source
  <1>5. \A p \in Pipes : Drawn(p)' = Drawn(p)
    BY <1>2 DEF Drawn
  <1>6. MuxTypeOK'
    BY <1>2, <1>3 DEF MuxTypeOK, Draining
  <1>7. mx_pc' # "error" => mx_drain = "forced" /\ mx_events = <<>> /\ mx_pc' = "shut" /\ mx_pc = "shut"
    BY <1>2 DEF MuxTypeOK, Draining, BudgetOK
  <1>8. Accounts'
    <2> SUFFICES ASSUME NEW p \in Pipes, mx_pc' # "error", p \notin Registered'
                 PROVE  mx_inside[p] = 0 \/ (mx_child[p[1]] = "reaped" /\ mx_due[p] <= Drawn(p))
      BY <1>2, <1>5 DEF Accounts
    <2>1. CASE p \notin Registered
      BY <1>7, <2>1 DEF Accounts
    <2>2. CASE p \in Registered
      <3>1. mx_due[p] <= Drawn(p)
        BY <1>7 DEF ForcedDrain
      <3>2. mx_child[p[1]] \in {"none", "reaped"} /\ (mx_child[p[1]] = "none" => mx_inside[p] = 0)
        BY <1>7, PipeFacts DEF ForcedDrain, TableOK
      <3> QED
        BY <3>1, <3>2
    <2> QED
      BY <2>1, <2>2
  <1>9. BudgetOK'
    BY <1>2, <1>7 DEF BudgetOK
  <1>10. NothingStranded'
    <2> SUFFICES ASSUME mx_pc' # "error", NEW u \in Tokens, sources'[u] # NoPipe,
                        mx_inside[sources'[u]] > 0 \/ sources'[u] \in mx_hung
                 PROVE  sources'[u] \in mx_armed' \/ \E i \in DOMAIN mx_events : mx_events[i] = u
      BY <1>2, <1>3 DEF NothingStranded, Tokens
    <2>1. u # t /\ sources'[u] = sources[u] /\ sources[u] # sources[t]
      BY <1>1, <1>3 DEF TableOK
    <2>2. sources[u] \in mx_armed \/ \E i \in DOMAIN mx_events : mx_events[i] = u
      BY <1>7, <2>1 DEF NothingStranded, Tokens
    <2> QED
      BY <1>4, <2>1, <2>2
  <1>11. ForcedDrain'
    BY <1>2, <1>5, <1>7 DEF ForcedDrain
  <1> QED
    BY <1>3, <1>6, <1>8, <1>9, <1>10, <1>11

(* What a poll has read goes to the coalescer and in part to the sink.     *)
LEMMA MuxIngests ==
    ASSUME MuxInv, ingest_pipe_chunks
    PROVE  MuxInv'
  <1> USE DEF MuxInv
  <1>1. PICK e \in [Pipes -> 0 .. MaxPipeWrites] :
          /\ \A p \in Pipes : e[p] \in Emittable(p)
          /\ mx_emitted' = [p \in Pipes |-> mx_emitted[p] + e[p]]
          /\ mx_held' = [p \in Pipes |-> mx_held[p] + mx_read[p] - e[p]]
    BY DEF ingest_pipe_chunks
  <1>2. /\ mx_pc = "ingest" /\ mx_read' = Zero /\ mx_drain' = mx_drain
        /\ UNCHANGED <<mx_child, mx_written, mx_inside, mx_hung, mx_due, mx_armed, mx_table,
                       sources, free_tokens, mx_events, mx_budget>>
        /\ compact_ids' = IF mx_drain = "forced" THEN compact_ids ELSE {n \in compact_ids : has_pipes(n)}
        /\ mx_pc' = CASE mx_drain = "normal" -> "reap"
                      [] mx_drain = "idle" -> "top"
                      [] mx_drain = "forced" -> "shut"
                      [] mx_drain = "final" -> "flush"
    BY DEF ingest_pipe_chunks, mx_world, mx_table
  <1>3. \A p \in Pipes : e[p] \in Nat /\ e[p] <= mx_held[p] + mx_read[p]
    <2> SUFFICES ASSUME NEW p \in Pipes PROVE e[p] \in Nat /\ e[p] <= mx_held[p] + mx_read[p]
      OBVIOUS
    <2>1. e[p] \in Emittable(p)
      BY <1>1
    <2> QED
      BY <2>1, Measures DEF Emittable
  <1>4. \A p \in Pipes : /\ mx_emitted'[p] = mx_emitted[p] + e[p] /\ mx_read'[p] = 0
                         /\ mx_held'[p] = mx_held[p] + mx_read[p] - e[p]
                         /\ mx_emitted'[p] \in Nat /\ mx_held'[p] \in Nat
    BY SMTT(60), <1>1, <1>2, <1>3, Measures, PipeFacts
  <1>5. \A p \in Pipes : Drawn(p)' = Drawn(p)
    <2> SUFFICES ASSUME NEW p \in Pipes PROVE Drawn(p)' = Drawn(p)
      OBVIOUS
    <2>1. Drawn(p)' = (mx_emitted[p] + e[p]) + (mx_held[p] + mx_read[p] - e[p]) + 0
      BY <1>4 DEF Drawn
    <2>2. (mx_emitted[p] + e[p]) + (mx_held[p] + mx_read[p] - e[p]) + 0 = mx_emitted[p] + mx_held[p] + mx_read[p]
      BY <1>3, Measures
    <2> QED
      BY <2>1, <2>2 DEF Drawn
  <1>6. compact_ids' \subseteq compact_ids /\ \A n \in MuxNodes : has_pipes(n) => n \in compact_ids'
    BY <1>2 DEF TableOK
  <1>7. TableOK' /\ Tokens' = Tokens /\ Registered' = Registered
    <2>1. mx_armed' \subseteq Registered
      BY <1>2 DEF TableOK
    <2> QED
      BY <1>2, <1>6, <2>1, TableStays
  <1>8. \/ mx_drain \in {"normal", "idle"} /\ mx_pc' \in {"reap", "top"}
        \/ mx_drain = "forced" /\ mx_pc' = "shut"
        \/ mx_drain = "final" /\ mx_pc' = "flush"
    BY <1>2 DEF MuxTypeOK
  <1>9. MuxTypeOK'
    <2>1. mx_emitted' \in [Pipes -> Nat] /\ mx_held' \in [Pipes -> Nat] /\ mx_read' \in [Pipes -> Nat]
      BY <1>1, <1>2, <1>4, PipeFacts
    <2> QED
      BY <1>2, <1>6, <1>7, <1>8, <2>1 DEF MuxTypeOK
  <1>10. Accounts'
    BY <1>2, <1>5, <1>7 DEF Accounts
  <1>11. BudgetOK'
    BY <1>2, <1>8 DEF BudgetOK
  <1>12. NothingStranded'
    BY <1>2 DEF NothingStranded
  <1>13. ForcedDrain'
    <2>1. mx_drain \in {"forced", "final"} => \A p \in Pipes : mx_due[p] <= Drawn(p)
      BY <1>2 DEF ForcedDrain
    <2>2. mx_drain \in {"forced", "final"} => \A n \in MuxNodes : mx_child[n] \in {"none", "reaped"}
      BY <1>2 DEF ForcedDrain
    <2> QED
      BY <1>2, <1>5, <1>8, <2>1, <2>2 DEF ForcedDrain
  <1> QED
    BY <1>7, <1>9, <1>10, <1>11, <1>12, <1>13

(* The last flush.                                                         *)
LEMMA MuxFlushes ==
    ASSUME MuxInv, flush_coalesced_chunks
    PROVE  MuxInv'
  <1> USE DEF MuxInv
  <1>1. /\ mx_pc = "flush" /\ mx_pc' = "returned" /\ mx_held' = Zero
        /\ mx_emitted' = [p \in Pipes |-> mx_emitted[p] + mx_held[p]]
        /\ UNCHANGED <<mx_child, mx_written, mx_inside, mx_hung, mx_due, mx_armed, mx_table, mx_read,
                       sources, free_tokens, mx_drain, mx_events, mx_budget, compact_ids>>
    BY DEF flush_coalesced_chunks, mx_world, mx_table
  <1>2. mx_drain = "final" /\ mx_read = Zero
    BY <1>1 DEF MuxTypeOK, Draining, ForcedDrain
  <1>3. \A p \in Pipes : mx_emitted'[p] = mx_emitted[p] + mx_held[p] /\ mx_held'[p] = 0 /\ mx_read'[p] = mx_read[p]
    BY <1>1, PipeFacts
  <1>4. \A p \in Pipes : Drawn(p)' = Drawn(p)
    BY <1>3, Measures DEF Drawn
  <1>5. TableOK' /\ Tokens' = Tokens /\ Registered' = Registered
    <2>1. mx_armed' \subseteq Registered /\ \A n \in MuxNodes : has_pipes(n) => n \in compact_ids'
      BY <1>1 DEF TableOK
    <2> QED
      BY <1>1, <2>1, TableStays
  <1>6. MuxTypeOK'
    <2>1. \A p \in Pipes : mx_emitted[p] + mx_held[p] \in Nat
      BY Measures
    <2>2. mx_emitted' \in [Pipes -> Nat] /\ mx_held' \in [Pipes -> Nat]
      BY <1>1, <2>1, PipeFacts
    <2> QED
      BY <1>1, <1>2, <1>5, <2>2 DEF MuxTypeOK
  <1>7. Accounts'
    BY <1>1, <1>4, <1>5 DEF Accounts
  <1>8. BudgetOK'
    BY <1>1 DEF BudgetOK
  <1>9. NothingStranded'
    BY <1>1 DEF NothingStranded
  <1>10. ForcedDrain'
    <2>1. \A p \in Pipes : mx_due[p] <= Drawn(p)
      BY <1>1, <1>2 DEF ForcedDrain
    <2>2. \A n \in MuxNodes : mx_child[n] \in {"none", "reaped"}
      BY <1>1, <1>2 DEF ForcedDrain
    <2> QED
      BY <1>1, <1>2, <1>4, <2>1, <2>2 DEF ForcedDrain
  <1> QED
    BY <1>5, <1>6, <1>7, <1>8, <1>9, <1>10

(* No pipe is there at first.                                              *)
LEMMA MuxBegins ==
    ASSUME MuxInit
    PROVE  MuxInv
  <1> USE DEF MuxInit
  <1>1. DOMAIN sources = {} /\ DOMAIN free_tokens = {} /\ DOMAIN mx_events = {} /\ Registered = {}
    BY DEF Registered
  <1>2. \A p \in Pipes : Drawn(p) = 0
    BY PipeFacts DEF Drawn
  <1>3. MuxTypeOK
    BY <1>1, PipeFacts DEF MuxTypeOK, Tokens
  <1>4. TableOK
    BY <1>1, PipeFacts DEF TableOK, Tokens, has_pipes
  <1>5. Accounts
    BY <1>2, PipeFacts DEF Accounts
  <1>6. BudgetOK /\ NothingStranded /\ ForcedDrain
    BY <1>1 DEF BudgetOK, NothingStranded, ForcedDrain
  <1> QED
    BY <1>3, <1>4, <1>5, <1>6 DEF MuxInv

(* Every step of the loop, the children and their pipes keeps MuxInv.      *)
LEMMA MuxInvKept ==
    ASSUME MuxInv, [MuxNext]_mx_vars
    PROVE  MuxInv'
  <1>1. ASSUME NEW p \in Pipes, Writes(p) \/ Closes(p) PROVE MuxInv'
    BY <1>1, MuxWrites, MuxChildren
  <1>2. ASSUME NEW n \in MuxNodes,
               MuxChildExits(n) \/ spawn_pipes(n) \/ StopChild(n) \/ ReapChild(n) \/ remove_node(n)
        PROVE  MuxInv'
    BY <1>2, MuxChildren, MuxSpawns, MuxCloses
  <1>3. CASE PollReturns \/ PollFails \/ read_ready \/ ReadFails \/ ReadsDone \/ ingest_pipe_chunks
    BY <1>3, MuxPolls, MuxMoves, MuxReads, MuxCloses, MuxIngests
  <1>4. CASE ShutAll \/ ForgetShut \/ ToSpawn \/ SpawnsDone \/ NobodyExited \/ flush_coalesced_chunks
    BY <1>4, MuxChildren, MuxMoves, MuxFlushes
  <1>5. CASE UNCHANGED mx_vars
    BY <1>5, MuxMoves
  <1> QED
    BY <1>1, <1>2, <1>3, <1>4, <1>5 DEF MuxNext

(* An edge-triggered event is never lost, whatever the budget of a read    *)
(* leaves in a pipe, whichever tokens are reused, and however a run ends,  *)
(* the sink has had what a child had written when it exited.               *)
THEOREM OutputsDelivered == MuxSpec => []OutputDelivered
  <1>1. MuxInv => OutputDelivered
    <2> SUFFICES ASSUME MuxInv, mx_pc = "returned", NEW p \in Pipes PROVE mx_emitted[p] >= mx_due[p]
      BY DEF OutputDelivered, TailDelivered, MuxInv
    <2>1. mx_drain = "final" /\ mx_read[p] = 0 /\ mx_held[p] = 0
      BY PipeFacts DEF MuxInv, MuxTypeOK, Draining, ForcedDrain
    <2>2. mx_due[p] <= Drawn(p)
      BY <2>1 DEF MuxInv, ForcedDrain
    <2> QED
      BY <2>1, <2>2, Measures DEF Drawn, MuxInv
  <1> QED
    BY <1>1, MuxBegins, MuxInvKept, PTL DEF MuxSpec

-----------------------------------------------------------------------------
(* Node preparation                                                        *)
(*                                                                         *)
(* PrepInv: whatever has been prepared of a node, and what a session keeps *)
(* of it, is about the node's own shell and context; the shared shell is   *)
(* that of every node that needs one, and none of these is cached; and     *)
(* what the run loop relies on at each of its phases has been prepared.    *)

Own(n) == apply_task_context(n)
OwnWrap(n) == effective_shell_wrap(resolve_effective_shell(n))
OwnEnv(env, n) ==
    /\ env = [policy |-> Own(n).policy, shell |-> env.shell]
    /\ env.shell # NoShell => env.shell = resolve_effective_shell(n) /\ OwnWrap(n)

IsNode(p) ==
    p = [stage |-> p.stage, shell |-> p.shell, wrapped |-> p.wrapped, env |-> p.env,
         secrets |-> p.secrets, confirm |-> p.confirm, parameter |-> p.parameter, cached |-> p.cached]

NodeOK(n, p) ==
    p # Absent =>
        /\ IsNode(p) /\ p.stage \in {"CasInputs", "SpawnPlan"} /\ p.wrapped \in BOOLEAN
        /\ p.shell = resolve_effective_shell(n) /\ p.confirm = Own(n).confirm
        /\ OwnEnv(p.env, n)
        /\ p.wrapped \/ p.env.shell # NoShell <=> OwnWrap(n)
        /\ p.stage = "CasInputs" => p.wrapped = OwnWrap(n)
        /\ p.stage = "SpawnPlan" => p.secrets = Own(n).secrets
        /\ n \notin np_again =>
              /\ ~ (p.wrapped /\ p.env.shell # NoShell)
              /\ p.stage = "CasInputs" => p.env.shell = NoShell
              /\ p.parameter = Parameter(n, np_req.set)
              /\ p.secrets = Own(n).secrets
              /\ p.cached => np_defs[n].outputs /\ ~ Own(n).secrets /\ p.env.shell = NoShell

HintOK(n, h) ==
    h # Absent => /\ h.shell = resolve_effective_shell(n) /\ h.confirm = Own(n).confirm
                  /\ OwnEnv(h.env, n)

Trusted == requires_project_trust => np_req.trusted
Planned(n) == np_prepared[n] # Absent /\ np_prepared[n].stage = "SpawnPlan"

NodesOK == \A n \in PrepNodes : NodeOK(n, np_prepared[n])
HintsOK == \A n \in PrepNodes : HintOK(n, np_hints[n])
SpawnedOK ==
    \A n \in PrepNodes : np_spawned[n] # Absent =>
        NodeOK(n, np_spawned[n]) /\ np_spawned[n].stage = "SpawnPlan" /\ Trusted

SharedOK ==
    np_shared # NoShared =>
        /\ np_req.lazy
        /\ \A n \in PrepNodes : OwnWrap(n) =>
              /\ np_shared.shell = resolve_effective_shell(n) /\ np_shared.policy = Own(n).policy
              /\ ~ (np_defs[n].outputs /\ ~ Own(n).secrets)

PrepTypeOK ==
    /\ np_defs \in Definitions /\ np_req \in PrepRequests
    /\ np_live \in {"live", "partial", "sealed"}
    /\ np_pc \in {"new", "shell", "prepare", "lookup", "spawn", "wait", "idle", "reprepare",
                  "done", "error"}
    /\ np_prepared = [n \in PrepNodes |-> np_prepared[n]]
    /\ np_ready \subseteq PrepNodes /\ np_spawns \subseteq np_started /\ np_started \subseteq PrepNodes

PhaseOK ==
    /\ np_pc \in {"idle", "reprepare"} => np_req.watch
    /\ np_req.lazy => np_again = {} /\ np_live = "live"
    /\ ~ np_req.lazy /\ np_pc \in {"prepare", "lookup", "spawn", "wait", "idle", "done"} =>
          np_live = "sealed"
    /\ np_pc \in {"new", "shell"} => np_live = "live" /\ np_again = {}
    /\ np_pc = "reprepare" => np_live = "partial" /\ np_ready \subseteq np_again
    /\ np_pc \in {"spawn", "wait"} => np_ready = {}
    /\ np_pc \in {"new", "shell", "prepare", "wait", "idle", "reprepare"} => np_spawns = {}
    /\ np_pc \in {"prepare", "lookup", "spawn", "wait", "idle", "reprepare", "done"} => Trusted

PlannedOK ==
    /\ np_req.lazy /\ np_pc \in {"new", "shell"} => np_prepared = NoneOf
    /\ np_live = "sealed" \/ (np_pc = "shell" /\ ~ np_req.lazy) => \A n \in PrepNodes : Planned(n)
    /\ np_pc = "reprepare" => \A n \in PrepNodes \ np_ready : Planned(n)
    /\ np_pc = "spawn" => \A n \in np_spawns : Planned(n)
    /\ np_req.lazy /\ ~ np_req.keepGoing =>
          \A n \in PrepNodes : np_prepared[n] # Absent => n \in np_started \cup np_ready

PrepInv ==
    PrepTypeOK /\ NodesOK /\ HintsOK /\ SpawnedOK /\ SharedOK /\ PhaseOK /\ PlannedOK

-----------------------------------------------------------------------------
(* The node that a loop takes is one of those it goes through.             *)
LEMMA LowestIn ==
    ASSUME NEW S, S \subseteq PrepNodes, S # {}
    PROVE  Lowest(S) \in S
  <1>1. S \in SUBSET Nat
    BY PreparerAssumption
  <1>2. \E n \in S : \A m \in S : n <= m
    BY <1>1, LeastNumber
  <1> QED
    BY <1>2 DEF Lowest

(* What a plan declares stays, and so does what is said of a node.         *)
LEMMA SameOwn ==
    ASSUME UNCHANGED <<np_defs, np_req>>
    PROVE  /\ \A n : /\ Own(n)' = Own(n)
                     /\ resolve_effective_shell(n)' = resolve_effective_shell(n)
                     /\ OwnWrap(n)' = OwnWrap(n)
           /\ Trusted' = Trusted
  <1>1. \A n : apply_task_context(n)' = apply_task_context(n)
    BY DEF apply_task_context
  <1>2. \A n : resolve_effective_shell(n)' = resolve_effective_shell(n)
    BY <1>1 DEF resolve_effective_shell
  <1>3. \A n : OwnWrap(n)' = OwnWrap(n)
    BY <1>2 DEF OwnWrap, effective_shell_wrap
  <1>4. Trusted' = Trusted
    BY <1>1 DEF Trusted, requires_project_trust
  <1> QED
    BY <1>1, <1>2, <1>3, <1>4 DEF Own

(* What is true of a prepared node does not depend on the run's progress.  *)
LEMMA NodeStays ==
    ASSUME UNCHANGED <<np_defs, np_req>>, np_again \subseteq np_again', NEW n, NEW p, NodeOK(n, p)
    PROVE  NodeOK(n, p)'
  <1>1. Own(n)' = Own(n) /\ resolve_effective_shell(n)' = resolve_effective_shell(n)
        /\ OwnWrap(n)' = OwnWrap(n)
    BY SameOwn
  <1>2. OwnEnv(p.env, n)' = OwnEnv(p.env, n)
    BY <1>1 DEF OwnEnv
  <1>3. Parameter(n, np_req.set)' = Parameter(n, np_req.set)
    BY DEF Parameter
  <1> QED
    BY <1>1, <1>2, <1>3 DEF NodeOK

(* Nor does what is true of a hint.                                        *)
LEMMA HintStays ==
    ASSUME UNCHANGED <<np_defs, np_req>>, NEW n, NEW h, HintOK(n, h)
    PROVE  HintOK(n, h)'
  <1>1. Own(n)' = Own(n) /\ resolve_effective_shell(n)' = resolve_effective_shell(n)
        /\ OwnWrap(n)' = OwnWrap(n)
    BY SameOwn
  <1> QED
    BY <1>1 DEF HintOK, OwnEnv

(* A prepared node has a stage of its own.                                 *)
LEMMA StagesDiffer == \A p : IsNode(p) /\ p.stage \in {"CasInputs", "SpawnPlan"} => p # Absent
  BY DEF Absent

(* The first stage is about the node's own context, also from a hint.      *)
LEMMA CasInputsOK ==
    ASSUME HintsOK, NEW n \in PrepNodes, np_live = "partial" => n \in np_again
    PROVE  /\ NodeOK(n, prepare_cas_inputs(n))
           /\ prepare_cas_inputs(n) # Absent /\ prepare_cas_inputs(n).stage = "CasInputs"
  <1> DEFINE c == ContextOf(n)
             p == prepare_cas_inputs(n)
             set == np_req.set /\ np_live # "partial"
             cached == cache_enabled(n, c.secrets, np_upstream)
             w == effective_shell_wrap(c.shell)
             par == Parameter(n, set)
  <1>1. p = [stage |-> "CasInputs", shell |-> c.shell, wrapped |-> w, env |-> c.env,
             secrets |-> c.secrets, confirm |-> c.confirm, parameter |-> par, cached |-> cached]
    BY DEF prepare_cas_inputs
  <1>2. CASE np_live = "partial" /\ np_hints[n] # Absent
    <2> DEFINE h == np_hints[n]
    <2>1. c = [shell |-> h.shell, env |-> h.env, secrets |-> FALSE, confirm |-> h.confirm]
      BY <1>2 DEF ContextOf
    <2>2. HintOK(n, h) /\ h # Absent
      BY <1>2 DEF HintsOK
    <2> HIDE DEF h
    <2>3. c.shell = h.shell /\ c.env = h.env /\ c.confirm = h.confirm
      BY <2>1
    <2> HIDE DEF c
    <2>4. c.shell = resolve_effective_shell(n) /\ c.confirm = Own(n).confirm /\ OwnEnv(c.env, n)
      BY <2>2, <2>3 DEF HintOK
    <2>5. w = OwnWrap(n) /\ w \in BOOLEAN
      BY <2>4 DEF OwnWrap, effective_shell_wrap
    <2> HIDE DEF w, cached, par, p
    <2>6. /\ p.stage = "CasInputs" /\ p.shell = c.shell /\ p.wrapped = w /\ p.env = c.env
          /\ p.confirm = c.confirm /\ IsNode(p)
      BY <1>1 DEF IsNode
    <2>7. p # Absent
      BY <2>6, StagesDiffer
    <2>8. p.wrapped \/ p.env.shell # NoShell <=> OwnWrap(n)
      BY <2>4, <2>5, <2>6 DEF OwnEnv
    <2>9. NodeOK(n, p)
      BY <1>2, <2>4, <2>5, <2>6, <2>7, <2>8 DEF NodeOK
    <2> QED
      BY <2>6, <2>7, <2>9 DEF p
  <1>3. CASE ~ (np_live = "partial" /\ np_hints[n] # Absent)
    <2> DEFINE e == [policy |-> Own(n).policy, shell |-> NoShell]
    <2>1. c = [shell |-> resolve_effective_shell(n), env |-> e, secrets |-> Own(n).secrets,
               confirm |-> Own(n).confirm]
      BY <1>3 DEF ContextOf, Own
    <2>2. e.shell = NoShell /\ e = [policy |-> Own(n).policy, shell |-> e.shell]
      OBVIOUS
    <2> HIDE DEF e
    <2>3. /\ c.shell = resolve_effective_shell(n) /\ c.env = e
          /\ c.secrets = Own(n).secrets /\ c.confirm = Own(n).confirm
      BY <2>1
    <2> HIDE DEF c
    <2>4. w = OwnWrap(n) /\ w \in BOOLEAN
      BY <2>3 DEF OwnWrap, effective_shell_wrap
    <2>5. cached => np_defs[n].outputs /\ ~ Own(n).secrets
      BY <2>3 DEF cache_enabled
    <2>6. np_live # "partial" => par = Parameter(n, np_req.set)
      BY DEF Parameter
    <2> HIDE DEF w, cached, par, p
    <2>7. /\ p.stage = "CasInputs" /\ p.shell = c.shell /\ p.wrapped = w /\ p.env = e
          /\ p.confirm = c.confirm /\ p.secrets = c.secrets /\ p.parameter = par
          /\ p.cached = cached /\ IsNode(p)
      BY <1>1, <2>3 DEF IsNode
    <2>8. p # Absent
      BY <2>7, StagesDiffer
    <2>9. OwnEnv(p.env, n) /\ p.env.shell = NoShell
      BY <2>2, <2>7 DEF OwnEnv
    <2>10. NodeOK(n, p)
      BY <2>3, <2>4, <2>5, <2>6, <2>7, <2>8, <2>9 DEF NodeOK
    <2> QED
      BY <2>7, <2>8, <2>10 DEF p
  <1> QED
    BY <1>2, <1>3


(* A node that runs in a materialized shell is not wrapped any more.       *)
LEMMA StripOK ==
    ASSUME NEW n \in PrepNodes, NEW p, p # Absent, NodeOK(n, p), p.stage = "SpawnPlan",
           NEW shared,
           p.wrapped => /\ shared.policy = Own(n).policy
                        /\ n \notin np_again => ~ p.cached
    PROVE  /\ NodeOK(n, apply_one_shell_strip_to_node(p, shared))
           /\ apply_one_shell_strip_to_node(p, shared) # Absent
           /\ apply_one_shell_strip_to_node(p, shared).stage = "SpawnPlan"
  <1> USE DEF NodeOK
  <1>1. CASE ~ (p.shell = shared.shell /\ p.wrapped)
    BY <1>1 DEF apply_one_shell_strip_to_node
  <1>2. CASE p.shell = shared.shell /\ p.wrapped
    <2> DEFINE e == [policy |-> shared.policy, shell |-> shared.shell]
               q == [stage |-> "SpawnPlan", shell |-> p.shell, wrapped |-> FALSE, env |-> e,
                     secrets |-> p.secrets, confirm |-> p.confirm, parameter |-> p.parameter,
                     cached |-> p.cached]
    <2>1. apply_one_shell_strip_to_node(p, shared) = q
      <3>1. apply_one_shell_strip_to_node(p, shared) = [p EXCEPT !.wrapped = FALSE, !.env = e]
        BY <1>2 DEF apply_one_shell_strip_to_node
      <3>2. IsNode(p)
        OBVIOUS
      <3> HIDE DEF e, NodeOK
      <3> QED
        BY <1>2, <3>1, <3>2 DEF IsNode
    <2>2. e.policy = shared.policy /\ e.shell = shared.shell
      OBVIOUS
    <2> HIDE DEF e
    <2>3. /\ q.stage = "SpawnPlan" /\ q.shell = p.shell /\ q.wrapped = FALSE /\ q.env = e
          /\ q.secrets = p.secrets /\ q.confirm = p.confirm /\ q.parameter = p.parameter
          /\ q.cached = p.cached /\ IsNode(q)
      BY DEF IsNode
    <2> HIDE DEF q
    <2>4. OwnWrap(n) /\ resolve_effective_shell(n) # NoShell
      BY <1>2 DEF OwnWrap, effective_shell_wrap
    <2>5. OwnEnv(e, n) /\ e.shell # NoShell
      <3>1. e = [policy |-> Own(n).policy, shell |-> e.shell]
        BY <1>2, <2>2 DEF e
      <3> QED
        BY <1>2, <2>2, <2>4, <3>1 DEF OwnEnv
    <2>6. q # Absent
      BY <2>3, StagesDiffer
    <2>7. NodeOK(n, q)
      BY <1>2, <2>3, <2>4, <2>5
    <2> QED
      BY <1>2, <2>1, <2>3, <2>6, <2>7
  <1> QED
    BY <1>1, <1>2

(* The second stage reads the definition, then the shared shell.           *)
LEMMA SpawnPartsOK ==
    ASSUME SharedOK, NEW n \in PrepNodes, NEW p, p # Absent, NodeOK(n, p)
    PROVE  /\ NodeOK(n, apply_spawn_plan_parts(p, compute_spawn_plan_parts(n)))
           /\ apply_spawn_plan_parts(p, compute_spawn_plan_parts(n)) # Absent
           /\ apply_spawn_plan_parts(p, compute_spawn_plan_parts(n)).stage = "SpawnPlan"
  <1> DEFINE parts == compute_spawn_plan_parts(n)
             q == [stage |-> "SpawnPlan", shell |-> parts.shell, wrapped |-> parts.wrapped,
                   env |-> p.env, secrets |-> parts.secrets, confirm |-> p.confirm,
                   parameter |-> p.parameter, cached |-> p.cached]
  <1>1. /\ parts.shell = resolve_effective_shell(n) /\ parts.wrapped = OwnWrap(n)
        /\ parts.secrets = Own(n).secrets
    BY DEF compute_spawn_plan_parts, OwnWrap, Own
  <1> HIDE DEF parts
  <1>2. IsNode(p) /\ p.stage \in {"CasInputs", "SpawnPlan"} /\ OwnEnv(p.env, n)
    BY DEF NodeOK
  <1>3. [p EXCEPT !.stage = "SpawnPlan", !.shell = parts.shell, !.wrapped = parts.wrapped,
                  !.secrets = parts.secrets] = q
    <2> DEFINE s == "SpawnPlan"
               h == parts.shell
               w == parts.wrapped
               x == parts.secrets
               p1 == [p EXCEPT !.stage = s]
               p2 == [p1 EXCEPT !.shell = h]
               p3 == [p2 EXCEPT !.wrapped = w]
    <2> HIDE DEF s, h, w, x
    <2>1. [p EXCEPT !.stage = s, !.shell = h, !.wrapped = w, !.secrets = x]
          = [p3 EXCEPT !.secrets = x]
      OBVIOUS
    <2>2. p1 = [stage |-> s, shell |-> p.shell, wrapped |-> p.wrapped, env |-> p.env,
                secrets |-> p.secrets, confirm |-> p.confirm, parameter |-> p.parameter,
                cached |-> p.cached]
      BY <1>2 DEF IsNode
    <2> HIDE DEF p1
    <2>3. p2 = [stage |-> s, shell |-> h, wrapped |-> p.wrapped, env |-> p.env,
                secrets |-> p.secrets, confirm |-> p.confirm, parameter |-> p.parameter,
                cached |-> p.cached]
      BY <2>2
    <2> HIDE DEF p2
    <2>4. p3 = [stage |-> s, shell |-> h, wrapped |-> w, env |-> p.env,
                secrets |-> p.secrets, confirm |-> p.confirm, parameter |-> p.parameter,
                cached |-> p.cached]
      BY <2>3
    <2> HIDE DEF p3
    <2>5. [p3 EXCEPT !.secrets = x]
          = [stage |-> s, shell |-> h, wrapped |-> w, env |-> p.env, secrets |-> x,
             confirm |-> p.confirm, parameter |-> p.parameter, cached |-> p.cached]
      BY <2>4
    <2> QED
      BY <2>1, <2>5 DEF s, h, w, x
  <1>4. /\ q.stage = "SpawnPlan" /\ q.shell = parts.shell /\ q.wrapped = parts.wrapped
        /\ q.env = p.env /\ q.secrets = parts.secrets /\ q.confirm = p.confirm
        /\ q.parameter = p.parameter /\ q.cached = p.cached /\ IsNode(q)
    BY DEF IsNode
  <1> HIDE DEF q
  <1>5. CASE p.stage = "SpawnPlan"
    BY <1>5 DEF apply_spawn_plan_parts
  <1>6. CASE p.stage = "CasInputs"
    <2>1. OwnWrap(n) \in BOOLEAN
      BY DEF OwnWrap, effective_shell_wrap
    <2>2. q # Absent
      BY <1>4, StagesDiffer
    <2>3. NodeOK(n, q)
      BY <1>1, <1>4, <1>6, <2>1 DEF NodeOK
    <2>4. CASE np_shared = NoShared
      BY <1>3, <1>4, <1>6, <2>2, <2>3, <2>4 DEF apply_spawn_plan_parts, parts
    <2>5. CASE np_shared # NoShared
      <3>1. apply_spawn_plan_parts(p, parts) = apply_one_shell_strip_to_node(q, np_shared)
        BY <1>3, <1>6, <2>5 DEF apply_spawn_plan_parts
      <3>2. q.wrapped => np_shared.policy = Own(n).policy
        BY <1>1, <1>4, <2>5 DEF SharedOK
      <3>3. q.wrapped /\ n \notin np_again => ~ q.cached
        BY <1>1, <1>4, <2>2, <2>3, <2>5 DEF SharedOK, NodeOK
      <3> QED
        BY <1>4, <2>2, <2>3, <3>1, <3>2, <3>3, StripOK DEF parts
    <2> QED
      BY <2>4, <2>5
  <1> QED
    BY <1>2, <1>5, <1>6

(* A stage of one node: the others stay, and nobody's plan is lost.        *)
LEMMA EnsureStageOK ==
    ASSUME NodesOK, HintsOK, SharedOK, NEW n \in PrepNodes, NEW stage,
           np_live = "partial" => n \in np_again,
           np_prepared = [m \in PrepNodes |-> np_prepared[m]],
           ensure_stage(n, stage), UNCHANGED <<np_defs, np_req, np_again>>
    PROVE  /\ NodesOK' /\ np_prepared' = [m \in PrepNodes |-> np_prepared'[m]]
           /\ \A m \in PrepNodes : m # n => np_prepared'[m] = np_prepared[m]
           /\ \A m \in PrepNodes : Planned(m) => Planned(m)'
           /\ np_pc' \in {np_pc, "error"}
  <1> DEFINE begun == IF np_prepared[n] = Absent THEN prepare_cas_inputs(n) ELSE np_prepared[n]
             planned == apply_spawn_plan_parts(begun, compute_spawn_plan_parts(n))
             q == IF StopsAt(stage) THEN begun ELSE planned
  <1>1. NodeOK(n, begun) /\ begun # Absent
    <2>1. CASE np_prepared[n] = Absent
      BY <2>1, CasInputsOK
    <2>2. CASE np_prepared[n] # Absent
      BY <2>2 DEF NodesOK
    <2> QED
      BY <2>1, <2>2
  <1>2. NodeOK(n, q) /\ q # Absent /\ (begun.stage = "SpawnPlan" => q.stage = "SpawnPlan")
    <2> HIDE DEF begun
    <2>1. NodeOK(n, planned) /\ planned # Absent /\ planned.stage = "SpawnPlan"
      BY <1>1, SpawnPartsOK
    <2> HIDE DEF planned
    <2> QED
      BY <1>1, <2>1
  <1>3. \/ np_prepared' = np_prepared /\ np_pc' = "error"
        \/ np_prepared' = [np_prepared EXCEPT ![n] = q] /\ np_pc' = np_pc
    BY DEF ensure_stage
  <1>4. Planned(n) => begun.stage = "SpawnPlan"
    BY DEF Planned
  <1> HIDE DEF q, begun
  <1>5. np_prepared' = [m \in PrepNodes |-> np_prepared'[m]]
    BY <1>3
  <1>6. /\ \A m \in PrepNodes : m # n => np_prepared'[m] = np_prepared[m]
        /\ np_prepared'[n] \in {np_prepared[n], q}
    BY <1>3
  <1>7. \A m \in PrepNodes : Planned(m) => Planned(m)'
    BY <1>2, <1>4, <1>6 DEF Planned
  <1>8. \A m \in PrepNodes : NodeOK(m, np_prepared'[m])
    BY <1>2, <1>6 DEF NodesOK
  <1>9. NodesOK'
    <2>1. \A m, p : NodeOK(m, p) => NodeOK(m, p)'
      BY NodeStays
    <2> QED
      BY <1>8, <2>1 DEF NodesOK
  <1> QED
    BY <1>3, <1>5, <1>6, <1>7, <1>9

-----------------------------------------------------------------------------
(* Where nothing is below the second stage, all have a spawn plan.         *)
LEMMA AllPlanned ==
    ASSUME NodesOK, NEW S, S \subseteq PrepNodes, S \cap Below("SpawnPlan") = {}
    PROVE  \A n \in S : Planned(n)
  <1>1. \A n \in S : np_prepared[n] # Absent /\ np_prepared[n].stage # "CasInputs"
    BY DEF Below, StopsAt
  <1> QED
    BY <1>1 DEF NodesOK, NodeOK, Planned

(* A step that leaves a part of the state alone leaves what is true of it. *)
LEMMA Stays ==
    ASSUME UNCHANGED <<np_defs, np_req>>, np_again \subseteq np_again'
    PROVE  /\ Trusted' = Trusted
           /\ NodesOK /\ UNCHANGED np_prepared => NodesOK'
           /\ HintsOK /\ UNCHANGED np_hints => HintsOK'
           /\ SpawnedOK /\ UNCHANGED np_spawned => SpawnedOK'
           /\ SharedOK /\ UNCHANGED np_shared => SharedOK'
  <1>1. Trusted' = Trusted /\ \A n : /\ Own(n)' = Own(n) /\ OwnWrap(n)' = OwnWrap(n)
                                     /\ resolve_effective_shell(n)' = resolve_effective_shell(n)
    BY SameOwn
  <1>2. \A n, p : NodeOK(n, p) => NodeOK(n, p)'
    BY NodeStays
  <1>3. \A n, p : HintOK(n, p) => HintOK(n, p)'
    BY HintStays
  <1>4. ASSUME NodesOK, UNCHANGED np_prepared PROVE NodesOK'
    BY <1>2, <1>4 DEF NodesOK
  <1>5. ASSUME HintsOK, UNCHANGED np_hints PROVE HintsOK'
    BY <1>3, <1>5 DEF HintsOK
  <1>6. ASSUME SpawnedOK, UNCHANGED np_spawned PROVE SpawnedOK'
    BY <1>1, <1>2, <1>6 DEF SpawnedOK
  <1>7. ASSUME SharedOK, UNCHANGED np_shared PROVE SharedOK'
    BY <1>1, <1>7 DEF SharedOK, NoShared
  <1> QED
    BY <1>1, <1>4, <1>5, <1>6, <1>7

(* A loop that prepares some of the nodes, as long as it has not ended.    *)
LEMMA EnsureManyOK ==
    ASSUME PrepInv, NEW S, S \subseteq PrepNodes, NEW stage, ensure_many(S, stage),
           np_live = "partial" => S \subseteq np_again,
           UNCHANGED <<np_defs, np_req, np_again>>
    PROVE  /\ NodesOK' /\ np_prepared' = [m \in PrepNodes |-> np_prepared'[m]]
           /\ \A m \in PrepNodes \ S : np_prepared'[m] = np_prepared[m]
           /\ \A m \in PrepNodes : Planned(m) => Planned(m)'
           /\ np_pc' \in {np_pc, "error"}
  <1> DEFINE n == Lowest(S \cap Below(stage))
  <1>1. n \in S
    <2>1. S \cap Below(stage) # {} /\ S \cap Below(stage) \subseteq PrepNodes
      BY DEF ensure_many
    <2> QED
      BY <2>1, LowestIn
  <1>2. ensure_stage(n, stage)
    BY DEF ensure_many
  <1> HIDE DEF n
  <1>3. np_prepared = [m \in PrepNodes |-> np_prepared[m]]
    BY DEF PrepInv, PrepTypeOK
  <1> QED
    BY <1>1, <1>2, <1>3, EnsureStageOK DEF PrepInv

-----------------------------------------------------------------------------
(* Nothing is prepared at first.                                           *)
LEMMA InitPrep == PrepInit => PrepInv
  <1> SUFFICES ASSUME PrepInit PROVE PrepInv
    OBVIOUS
  <1> USE DEF PrepInit, NoneOf
  <1>1. PrepTypeOK /\ PhaseOK
    BY DEF PrepTypeOK, PhaseOK
  <1>2. NodesOK /\ HintsOK /\ SpawnedOK /\ SharedOK
    BY DEF NodesOK, HintsOK, SpawnedOK, SharedOK, NodeOK, HintOK
  <1>3. PlannedOK
    BY DEF PlannedOK
  <1> QED
    BY <1>1, <1>2, <1>3 DEF PrepInv

(* prepare_task_nodes: the next node, or all of them have their plan.      *)
LEMMA PrepareNodesStep == PrepInv /\ prepare_task_nodes => PrepInv'
  <1> SUFFICES ASSUME PrepInv, prepare_task_nodes PROVE PrepInv'
    OBVIOUS
  <1>0. /\ np_pc = "new" /\ ~ np_req.lazy /\ np_live = "live" /\ np_again = {}
        /\ UNCHANGED <<np_defs, np_req, np_again, np_live, np_shared, np_ready, np_hints, np_spawns,
                       np_started, np_spawned>>
    BY DEF prepare_task_nodes, Prepares, PrepInv, PhaseOK
  <1>1. /\ NodesOK' /\ np_prepared' = [m \in PrepNodes |-> np_prepared'[m]]
        /\ np_pc' \in {"new", "error"} \/ (np_pc' = "shell" /\ \A n \in PrepNodes : Planned(n)')
    <2>1. CASE ensure_many(PrepNodes, "SpawnPlan")
      BY <1>0, <2>1, EnsureManyOK
    <2>2. CASE Below("SpawnPlan") = {} /\ np_pc' = "shell" /\ UNCHANGED <<np_prepared, np_upstream>>
      <3>1. \A n \in PrepNodes : Planned(n)
        BY <2>2, AllPlanned DEF PrepInv
      <3>2. NodesOK'
        BY <1>0, <2>2, Stays DEF PrepInv
      <3> QED
        BY <2>2, <3>1, <3>2 DEF PrepInv, PrepTypeOK, Planned
    <2> QED
      BY <2>1, <2>2 DEF prepare_task_nodes
  <1>2. HintsOK' /\ SpawnedOK' /\ SharedOK' /\ Trusted' = Trusted
    BY <1>0, Stays DEF PrepInv
  <1>3. PrepTypeOK'
    BY <1>0, <1>1 DEF PrepInv, PrepTypeOK
  <1>4. PhaseOK'
    BY <1>0, <1>1, <1>2 DEF PrepInv, PhaseOK
  <1>5. PlannedOK'
    BY <1>0, <1>1 DEF PlannedOK
  <1> QED
    BY <1>1, <1>2, <1>3, <1>4, <1>5 DEF PrepInv

(* TaskNodePreparer::new prepares nothing.                                 *)
LEMMA NewLazyStep == PrepInv /\ new_lazy => PrepInv'
  <1> SUFFICES ASSUME PrepInv, new_lazy PROVE PrepInv'
    OBVIOUS
  <1>0. /\ np_pc = "new" /\ np_pc' = "shell" /\ np_req.lazy /\ np_live = "live" /\ np_again = {}
        /\ UNCHANGED <<np_defs, np_req, np_again, np_live, np_shared, np_ready, np_hints, np_spawns,
                       np_prepared, np_started, np_spawned>>
    BY DEF new_lazy, Prepares, PrepInv, PhaseOK
  <1>1. NodesOK' /\ HintsOK' /\ SpawnedOK' /\ SharedOK' /\ Trusted' = Trusted
    BY <1>0, Stays DEF PrepInv
  <1>2. PrepTypeOK' /\ PhaseOK'
    BY <1>0, <1>1 DEF PrepInv, PrepTypeOK, PhaseOK
  <1>3. PlannedOK'
    BY <1>0 DEF PrepInv, PlannedOK
  <1> QED
    BY <1>1, <1>2, <1>3 DEF PrepInv

(* The preflight agrees with what each node that needs a shell declares.   *)
LEMMA PreflightOK ==
    ASSUME np_req.lazy, UNCHANGED <<np_defs, np_req>>, np_shared' = preflight_one_shell
    PROVE  SharedOK'
  <1> DEFINE runsIn == [n \in PrepNodes |-> [shell  |-> resolve_effective_shell(n),
                                             policy |-> apply_task_context(n).policy]]
             wrapped == {n \in PrepNodes : effective_shell_wrap(runsIn[n].shell)}
  <1>1. \A n \in PrepNodes : /\ runsIn[n].shell = resolve_effective_shell(n)
                             /\ runsIn[n].policy = Own(n).policy
    BY DEF Own
  <1>2. ASSUME np_shared' # NoShared, NEW n \in PrepNodes, OwnWrap(n)
        PROVE  /\ np_shared'.shell = resolve_effective_shell(n) /\ np_shared'.policy = Own(n).policy
               /\ ~ (np_defs[n].outputs /\ ~ Own(n).secrets)
    <2>1. /\ \A m \in wrapped : ~ metadata_workspace_cache_likely_enabled(m)
          /\ Alike(wrapped, runsIn) /\ np_shared' = runsIn[Lowest(wrapped)]
      BY <1>2, Zenon DEF preflight_one_shell
    <2>2. n \in wrapped
      BY <1>1, <1>2 DEF OwnWrap
    <2>3. wrapped \subseteq PrepNodes
      OBVIOUS
    <2> HIDE DEF runsIn, wrapped
    <2>4. Lowest(wrapped) \in wrapped
      BY <2>2, <2>3, LowestIn
    <2>5. np_shared' = runsIn[n]
      BY <2>1, <2>2, <2>4 DEF Alike
    <2> QED
      BY <1>1, <2>1, <2>2, <2>5 DEF metadata_workspace_cache_likely_enabled, Own
  <1> HIDE DEF runsIn, wrapped
  <1>3. \A n : /\ Own(n)' = Own(n) /\ OwnWrap(n)' = OwnWrap(n)
               /\ resolve_effective_shell(n)' = resolve_effective_shell(n)
    BY SameOwn
  <1> QED
    BY <1>2, <1>3 DEF SharedOK, NoShared

(* So does the analysis of prepared nodes.                                 *)
LEMMA AnalyzeOK ==
    ASSUME NodesOK, \A n \in PrepNodes : Planned(n), analyze_one_shell(np_prepared) # NoShared,
           NEW n \in PrepNodes, np_prepared[n].wrapped
    PROVE  /\ analyze_one_shell(np_prepared).policy = Own(n).policy
           /\ ~ np_prepared[n].cached
  <1> DEFINE shared == analyze_one_shell(np_prepared)
             runsIn == [m \in PrepNodes |-> [shell  |-> np_prepared[m].shell,
                                             policy |-> np_prepared[m].env.policy]]
             wrapped == {m \in PrepNodes : np_prepared[m].wrapped}
  <1>1. /\ \A m \in wrapped : ~ (np_prepared[m].confirm \/ np_prepared[m].secrets \/ np_prepared[m].cached)
        /\ Alike(wrapped, runsIn) /\ shared = runsIn[Lowest(wrapped)]
    BY Zenon DEF analyze_one_shell
  <1>2. runsIn[n].policy = np_prepared[n].env.policy
    OBVIOUS
  <1>3. n \in wrapped /\ wrapped \subseteq PrepNodes
    OBVIOUS
  <1> HIDE DEF runsIn, wrapped, shared
  <1>4. Lowest(wrapped) \in wrapped
    BY <1>3, LowestIn
  <1>5. shared = runsIn[n]
    BY <1>1, <1>3, <1>4 DEF Alike
  <1>6. OwnEnv(np_prepared[n].env, n)
    BY DEF NodesOK, NodeOK, Planned
  <1>7. np_prepared[n].env.policy = Own(n).policy
    BY <1>6 DEF OwnEnv
  <1> QED
    BY <1>1, <1>2, <1>3, <1>5, <1>7 DEF shared

(* One shell for the plan: kept for later, or put into every prepared node.*)
LEMMA OneShellStep == PrepInv /\ materialize_one_shell_shared => PrepInv'
  <1> SUFFICES ASSUME PrepInv, materialize_one_shell_shared PROVE PrepInv'
    OBVIOUS
  <1> DEFINE shared == IF np_req.lazy THEN preflight_one_shell ELSE analyze_one_shell(np_prepared)
             strip(n) == apply_one_shell_strip_to_node(np_prepared[n], shared)
  <1>0. /\ np_pc = "shell" /\ np_live = "live" /\ np_again = {}
        /\ UNCHANGED <<np_defs, np_req, np_again, np_hints, np_spawns, np_started, np_spawned>>
        /\ np_ready \subseteq PrepNodes /\ np_started \subseteq PrepNodes /\ np_spawns = {}
        /\ np_prepared = [m \in PrepNodes |-> np_prepared[m]]
    BY DEF materialize_one_shell_shared, Prepares, PrepInv, PhaseOK, PrepTypeOK
  <1>1. HintsOK' /\ SpawnedOK' /\ Trusted' = Trusted
        /\ (UNCHANGED np_prepared => NodesOK') /\ (UNCHANGED np_shared => SharedOK')
    BY <1>0, Stays DEF PrepInv
  <1>2. \/ np_pc' = "error" /\ UNCHANGED <<np_prepared, np_shared, np_live, np_ready>>
        \/ /\ \/ np_pc' = "prepare" /\ Trusted /\ np_ready' \subseteq PrepNodes
              \/ np_pc' = "error" /\ UNCHANGED np_ready
           /\ \/ np_req.lazy /\ np_shared' = shared /\ UNCHANGED <<np_prepared, np_live>>
              \/ /\ ~ np_req.lazy /\ np_live' = "sealed" /\ UNCHANGED np_shared
                 /\ np_prepared' = [n \in PrepNodes |->
                                       IF shared = NoShared THEN np_prepared[n] ELSE strip(n)]
    <2> HIDE DEF shared
    <2>1. Unscheduled({}, {}) \subseteq PrepNodes
      BY DEF Unscheduled
    <2> QED
      BY <2>1 DEF materialize_one_shell_shared, shared, Trusted
  <1>3. CASE np_pc' = "error" /\ UNCHANGED <<np_prepared, np_shared, np_live, np_ready>>
    <2>1. PrepTypeOK' /\ PhaseOK' /\ PlannedOK'
      BY <1>0, <1>3 DEF PrepInv, PrepTypeOK, PhaseOK, PlannedOK, Planned
    <2> QED
      BY <1>1, <1>3, <2>1 DEF PrepInv
  <1>4. CASE /\ \/ np_pc' = "prepare" /\ Trusted /\ np_ready' \subseteq PrepNodes
                \/ np_pc' = "error" /\ UNCHANGED np_ready
             /\ np_req.lazy /\ np_shared' = shared /\ UNCHANGED <<np_prepared, np_live>>
    <2>1. SharedOK'
      BY <1>0, <1>4, PreflightOK
    <2>2. PrepTypeOK' /\ PhaseOK'
      BY <1>0, <1>1, <1>4 DEF PrepInv, PrepTypeOK, PhaseOK
    <2>3. np_prepared = NoneOf
      BY <1>0, <1>4 DEF PrepInv, PlannedOK
    <2>4. PlannedOK'
      BY <1>0, <1>4, <2>3 DEF PlannedOK, NoneOf
    <2> QED
      BY <1>1, <1>4, <2>1, <2>2, <2>4 DEF PrepInv
  <1>5. CASE /\ \/ np_pc' = "prepare" /\ Trusted /\ np_ready' \subseteq PrepNodes
                \/ np_pc' = "error" /\ UNCHANGED np_ready
             /\ ~ np_req.lazy /\ np_live' = "sealed" /\ UNCHANGED np_shared
             /\ np_prepared' = [n \in PrepNodes |->
                                   IF shared = NoShared THEN np_prepared[n] ELSE strip(n)]
    <2>1. \A n \in PrepNodes : Planned(n) /\ NodeOK(n, np_prepared[n])
      BY <1>0, <1>5 DEF PrepInv, PlannedOK, NodesOK
    <2>2. ASSUME NEW n \in PrepNodes, shared # NoShared
          PROVE  NodeOK(n, strip(n)) /\ strip(n) # Absent /\ strip(n).stage = "SpawnPlan"
      <3>1. np_prepared[n].wrapped => shared.policy = Own(n).policy /\ ~ np_prepared[n].cached
        BY <1>5, <2>1, <2>2, AnalyzeOK DEF PrepInv
      <3> HIDE DEF shared
      <3> QED
        BY <2>1, <3>1, StripOK DEF Planned
    <2> HIDE DEF shared, strip
    <2>3. \A n \in PrepNodes : /\ NodeOK(n, np_prepared'[n]) /\ np_prepared'[n] # Absent
                               /\ np_prepared'[n].stage = "SpawnPlan"
      BY <1>5, <2>1, <2>2 DEF Planned
    <2>4. NodesOK'
      <3>1. \A n, p : NodeOK(n, p) => NodeOK(n, p)'
        BY <1>0, NodeStays
      <3> QED
        BY <2>3, <3>1 DEF NodesOK
    <2>5. np_prepared' = [n \in PrepNodes |-> np_prepared'[n]]
      BY <1>5
    <2>6. PrepTypeOK' /\ PhaseOK'
      BY <1>0, <1>1, <1>5, <2>5 DEF PrepInv, PrepTypeOK, PhaseOK
    <2>7. PlannedOK'
      BY <1>0, <1>5, <2>3 DEF PlannedOK, Planned
    <2> QED
      BY <1>1, <1>5, <2>4, <2>6, <2>7 DEF PrepInv
  <1> QED
    BY <1>2, <1>3, <1>4, <1>5

-----------------------------------------------------------------------------
(* The run loop.                                                           *)

(* The nodes that are about to start get their first stage at least.       *)
LEMMA EnsureReadyStep == PrepInv /\ ensure_cas_inputs_many => PrepInv'
  <1> SUFFICES ASSUME PrepInv, ensure_cas_inputs_many PROVE PrepInv'
    OBVIOUS
  <1>0. /\ np_pc = "prepare" /\ np_live # "partial"
        /\ UNCHANGED <<np_defs, np_req, np_again, np_live, np_shared, np_ready, np_hints, np_spawns,
                       np_started, np_spawned>>
        /\ np_ready \subseteq PrepNodes
    BY DEF ensure_cas_inputs_many, Prepares, PrepInv, PhaseOK, PrepTypeOK
  <1>1. /\ NodesOK' /\ np_prepared' = [m \in PrepNodes |-> np_prepared'[m]]
        /\ \A m \in PrepNodes \ np_ready : np_prepared'[m] = np_prepared[m]
        /\ \A m \in PrepNodes : Planned(m) => Planned(m)'
        /\ np_pc' \in {"prepare", "error"}
    BY <1>0, EnsureManyOK DEF ensure_cas_inputs_many
  <1>2. HintsOK' /\ SpawnedOK' /\ SharedOK' /\ Trusted' = Trusted
    BY <1>0, Stays DEF PrepInv
  <1>3. PrepTypeOK' /\ PhaseOK'
    BY <1>0, <1>1, <1>2 DEF PrepInv, PrepTypeOK, PhaseOK
  <1>4. PlannedOK'
    BY <1>0, <1>1 DEF PrepInv, PlannedOK
  <1> QED
    BY <1>1, <1>2, <1>3, <1>4 DEF PrepInv

(* A successor is prepared ahead, which only keep-going does.              *)
LEMMA SpeculateStep == PrepInv /\ speculate_successors => PrepInv'
  <1> SUFFICES ASSUME PrepInv, speculate_successors PROVE PrepInv'
    OBVIOUS
  <1> DEFINE n == Lowest(Dependents(Lowest(Successors)))
  <1>0. /\ np_pc = "prepare" /\ np_live # "partial"
        /\ UNCHANGED <<np_defs, np_req, np_again, np_live, np_shared, np_ready, np_hints, np_spawns,
                       np_started, np_spawned>>
        /\ np_ready \subseteq PrepNodes /\ np_prepared = [m \in PrepNodes |-> np_prepared[m]]
        /\ Successors # {} /\ ensure_stage(n, "CasInputs")
    BY DEF speculate_successors, PrepInv, PhaseOK, PrepTypeOK
  <1>1. np_req.keepGoing /\ n \in PrepNodes
    <2>1. Successors \subseteq PrepNodes /\ np_req.keepGoing
      BY <1>0 DEF Successors
    <2>2. \A m \in Successors : Dependents(m) # {}
      BY DEF Successors
    <2>3. Lowest(Successors) \in Successors
      BY <1>0, <2>1, LowestIn
    <2>4. Dependents(Lowest(Successors)) # {} /\ Dependents(Lowest(Successors)) \subseteq PrepNodes
      BY <2>2, <2>3 DEF Dependents
    <2> QED
      BY <2>1, <2>4, LowestIn
  <1> HIDE DEF n
  <1>2. /\ NodesOK' /\ np_prepared' = [m \in PrepNodes |-> np_prepared'[m]]
        /\ \A m \in PrepNodes : Planned(m) => Planned(m)'
        /\ np_pc' \in {"prepare", "error"}
    BY <1>0, <1>1, EnsureStageOK DEF PrepInv
  <1>3. HintsOK' /\ SpawnedOK' /\ SharedOK' /\ Trusted' = Trusted
    BY <1>0, Stays DEF PrepInv
  <1>4. PrepTypeOK' /\ PhaseOK'
    BY <1>0, <1>2, <1>3 DEF PrepInv, PrepTypeOK, PhaseOK
  <1>5. PlannedOK'
    BY <1>0, <1>1, <1>2 DEF PrepInv, PlannedOK
  <1> QED
    BY <1>2, <1>3, <1>4, <1>5 DEF PrepInv

(* The steps that only move nodes from one queue to another.               *)
LEMMA QueueStep ==
    ASSUME PrepInv,
           UNCHANGED <<np_defs, np_req, np_again, np_live, np_shared, np_hints, np_prepared,
                       np_spawned>>,
           \/ AllEnsured \/ start_spawn_plan \/ (\E n \in PrepNodes : SpawnPlanWorker(n))
           \/ LookupHits \/ LookupMisses \/ (\E n \in PrepNodes, ok \in BOOLEAN : NodeExits(n, ok))
           \/ HitsUnlock
    PROVE  PrepInv'
  <1>1. NodesOK' /\ HintsOK' /\ SpawnedOK' /\ SharedOK' /\ Trusted' = Trusted
    BY Stays DEF PrepInv
  <1>2. \A done, failed : Unscheduled(done, failed) \subseteq PrepNodes
    BY DEF Unscheduled
  <1>3. \A n : Planned(n)' = Planned(n)
    BY DEF Planned
  <1>4. np_ready # {} /\ np_ready \subseteq PrepNodes => Next1 \in np_ready
    BY LowestIn DEF Next1
  <1>5. \/ UNCHANGED <<np_pc, np_ready, np_spawns, np_started>>
        \/ /\ np_pc = "prepare" /\ np_pc' = "lookup" /\ UNCHANGED <<np_ready, np_spawns, np_started>>
        \/ /\ np_pc = "lookup" /\ np_pc' = "lookup" /\ np_ready # {}
           /\ np_ready' = np_ready \ {Next1} /\ np_started' = np_started \cup {Next1}
           /\ np_spawns' \in {np_spawns, np_spawns \cup {Next1}}
        \/ /\ np_pc = "wait" /\ np_pc' = "prepare" /\ np_ready' \subseteq PrepNodes
           /\ UNCHANGED <<np_spawns, np_started>>
    <2>1. CASE AllEnsured
      BY <2>1 DEF AllEnsured
    <2>2. CASE start_spawn_plan
      BY <2>2 DEF start_spawn_plan
    <2>3. CASE \E n \in PrepNodes : SpawnPlanWorker(n)
      BY <2>3 DEF SpawnPlanWorker
    <2>4. CASE LookupHits
      BY <2>4 DEF LookupHits
    <2>5. CASE LookupMisses
      BY <2>5 DEF LookupMisses
    <2>6. CASE \E n \in PrepNodes, ok \in BOOLEAN : NodeExits(n, ok)
      BY <1>2, <2>6 DEF NodeExits
    <2>7. CASE HitsUnlock
      BY <1>2, <2>7 DEF HitsUnlock, Prepares
    <2> QED
      BY <2>1, <2>2, <2>3, <2>4, <2>5, <2>6, <2>7
  <1> HIDE DEF Next1
  <1>6. PrepTypeOK'
    BY <1>4, <1>5 DEF PrepInv, PrepTypeOK
  <1>7. PhaseOK'
    BY <1>1, <1>5 DEF PrepInv, PhaseOK
  <1>8. PlannedOK'
    <2>1. np_ready \subseteq PrepNodes /\ np_started \subseteq PrepNodes
      BY DEF PrepInv, PrepTypeOK
    <2>2. np_pc = "wait" => np_ready = {}
      BY DEF PrepInv, PhaseOK
    <2>3. np_started \cup np_ready \subseteq np_started' \cup np_ready'
      BY <1>4, <1>5, <2>1, <2>2
    <2> QED
      BY <1>3, <1>5, <2>3 DEF PrepInv, PlannedOK
  <1> QED
    BY <1>1, <1>6, <1>7, <1>8 DEF PrepInv

(* The misses of a batch get their spawn plans before the batch is spawned.*)
LEMMA JoinStep == PrepInv /\ join_spawn_plan => PrepInv'
  <1> SUFFICES ASSUME PrepInv, join_spawn_plan PROVE PrepInv'
    OBVIOUS
  <1>0. /\ np_pc = "lookup" /\ np_live # "partial" /\ np_ready = {}
        /\ UNCHANGED <<np_defs, np_req, np_again, np_live, np_shared, np_ready, np_hints, np_spawns,
                       np_started, np_spawned>>
        /\ np_spawns \subseteq np_started /\ np_spawns \subseteq PrepNodes
    BY DEF join_spawn_plan, PrepInv, PhaseOK, PrepTypeOK
  <1>1. /\ NodesOK' /\ np_prepared' = [m \in PrepNodes |-> np_prepared'[m]]
        /\ \A m \in PrepNodes \ np_spawns : np_prepared'[m] = np_prepared[m]
        /\ \A m \in PrepNodes : Planned(m) => Planned(m)'
        /\ np_pc' \in {"lookup", "error"} \/ (np_pc' = "spawn" /\ \A n \in np_spawns : Planned(n)')
    <2>1. CASE ensure_many(np_spawns, "SpawnPlan")
      BY <1>0, <2>1, EnsureManyOK
    <2>2. CASE /\ np_spawns \cap Below("SpawnPlan") = {} /\ np_pc' = "spawn"
               /\ UNCHANGED <<np_prepared, np_upstream>>
      <3>1. \A n \in np_spawns : Planned(n)
        BY <1>0, <2>2, AllPlanned DEF PrepInv
      <3>2. NodesOK'
        BY <1>0, <2>2, Stays DEF PrepInv
      <3> QED
        BY <2>2, <3>1, <3>2 DEF PrepInv, PrepTypeOK, Planned
    <2> QED
      BY <2>1, <2>2 DEF join_spawn_plan
  <1>2. HintsOK' /\ SpawnedOK' /\ SharedOK' /\ Trusted' = Trusted
    BY <1>0, Stays DEF PrepInv
  <1>3. PrepTypeOK' /\ PhaseOK'
    BY <1>0, <1>1, <1>2 DEF PrepInv, PrepTypeOK, PhaseOK
  <1>4. PlannedOK'
    BY <1>0, <1>1 DEF PrepInv, PlannedOK
  <1> QED
    BY <1>1, <1>2, <1>3, <1>4 DEF PrepInv

(* What is spawned is what was prepared.                                   *)
LEMMA SpawnStep == PrepInv /\ SpawnMisses => PrepInv'
  <1> SUFFICES ASSUME PrepInv, SpawnMisses PROVE PrepInv'
    OBVIOUS
  <1>0. /\ np_pc = "spawn" /\ np_pc' = "wait" /\ np_spawns' = {}
        /\ UNCHANGED <<np_defs, np_req, np_again, np_live, np_shared, np_ready, np_hints, np_prepared,
                       np_started>>
        /\ np_spawned' = [n \in PrepNodes |-> IF n \in np_spawns THEN np_prepared[n] ELSE np_spawned[n]]
    BY DEF SpawnMisses
  <1>1. NodesOK' /\ HintsOK' /\ SharedOK' /\ Trusted' = Trusted
    BY <1>0, Stays DEF PrepInv
  <1>2. SpawnedOK'
    <2>1. Trusted /\ \A n \in np_spawns : Planned(n)
      BY <1>0 DEF PrepInv, PhaseOK, PlannedOK
    <2>2. ASSUME NEW n \in PrepNodes, np_spawned'[n] # Absent
          PROVE  NodeOK(n, np_spawned'[n]) /\ np_spawned'[n].stage = "SpawnPlan"
      <3>1. CASE n \in np_spawns
        BY <1>0, <2>1, <3>1 DEF PrepInv, NodesOK, Planned
      <3>2. CASE n \notin np_spawns
        BY <1>0, <2>2, <3>2 DEF PrepInv, SpawnedOK
      <3> QED
        BY <3>1, <3>2
    <2>3. \A n, p : NodeOK(n, p) => NodeOK(n, p)'
      BY <1>0, NodeStays
    <2> QED
      BY <1>1, <2>1, <2>2, <2>3 DEF SpawnedOK, Absent
  <1>3. PrepTypeOK' /\ PhaseOK'
    BY <1>0, <1>1 DEF PrepInv, PrepTypeOK, PhaseOK
  <1>4. PlannedOK'
    BY <1>0 DEF PrepInv, PlannedOK, Planned
  <1> QED
    BY <1>1, <1>2, <1>3, <1>4 DEF PrepInv

-----------------------------------------------------------------------------
(* The watch session.                                                      *)

(* What a session keeps of planned nodes is about their own contexts.      *)
LEMMA KeptOK ==
    ASSUME NodesOK, \A n \in PrepNodes : Planned(n), UNCHANGED <<np_defs, np_req>>,
           np_hints' \in {np_hints, Kept}, HintsOK
    PROVE  HintsOK'
  <1>1. \A n, p : HintOK(n, p) => HintOK(n, p)'
    BY HintStays
  <1>2. CASE np_hints' = np_hints
    BY <1>1, <1>2 DEF HintsOK
  <1>3. CASE np_hints' = Kept
    <2>1. ASSUME NEW n \in PrepNodes PROVE HintOK(n, Kept[n])
      <3>1. /\ Kept[n].shell = np_prepared[n].shell /\ Kept[n].env = np_prepared[n].env
            /\ Kept[n].confirm = np_prepared[n].confirm
        BY DEF Kept
      <3> QED
        BY <2>1, <3>1 DEF HintOK, NodesOK, NodeOK, Planned
    <2> QED
      BY <1>1, <1>3, <2>1 DEF HintsOK
  <1> QED
    BY <1>2, <1>3

(* At the end of a generation the session keeps the contexts.              *)
LEMMA GenerationOverStep == PrepInv /\ GenerationOver => PrepInv'
  <1> SUFFICES ASSUME PrepInv, GenerationOver PROVE PrepInv'
    OBVIOUS
  <1>0. /\ np_pc = "wait" /\ np_pc' = IF np_req.watch THEN "idle" ELSE "done"
        /\ UNCHANGED <<np_defs, np_req, np_again, np_live, np_shared, np_ready, np_prepared, np_spawns,
                       np_started, np_spawned>>
        /\ np_hints' = IF np_req.watch /\ np_req.prewarm THEN Kept ELSE np_hints
    BY DEF GenerationOver
  <1>1. NodesOK' /\ SpawnedOK' /\ SharedOK' /\ Trusted' = Trusted
    BY <1>0, Stays DEF PrepInv
  <1>2. np_req.watch => ~ np_req.lazy
    BY PreparerAssumption DEF PrepInv, PrepTypeOK
  <1>3. HintsOK'
    <2>1. CASE np_req.watch
      <3>1. \A n \in PrepNodes : Planned(n)
        BY <1>0, <1>2, <2>1 DEF PrepInv, PhaseOK, PlannedOK
      <3> QED
        BY <1>0, <3>1, KeptOK DEF PrepInv
    <2>2. CASE ~ np_req.watch
      BY <1>0, <2>2, Stays DEF PrepInv
    <2> QED
      BY <2>1, <2>2
  <1>4. PrepTypeOK' /\ PhaseOK'
    BY <1>0, <1>1 DEF PrepInv, PrepTypeOK, PhaseOK
  <1>5. PlannedOK'
    BY <1>0 DEF PrepInv, PlannedOK, Planned
  <1> QED
    BY <1>1, <1>3, <1>4, <1>5 DEF PrepInv

(* An edit drops nodes, which the session then owes.                       *)
LEMMA ReprepareStep == PrepInv /\ reprepare_missing_task_nodes => PrepInv'
  <1> SUFFICES ASSUME PrepInv, reprepare_missing_task_nodes PROVE PrepInv'
    OBVIOUS
  <1>0. PICK dropped \in SUBSET PrepNodes :
            /\ np_pc' = "reprepare" /\ np_ready' = dropped
            /\ np_prepared' = [n \in PrepNodes |-> IF n \in dropped THEN Absent ELSE np_prepared[n]]
            /\ np_live' = "partial" /\ np_again' = np_again \cup dropped
            /\ UNCHANGED <<np_shared, np_hints>> /\ Restarts
    BY DEF reprepare_missing_task_nodes
  <1>1. /\ np_pc = "idle" /\ np_started' = {} /\ np_spawned' = NoneOf /\ np_spawns = {}
        /\ UNCHANGED <<np_defs, np_req, np_spawns>>
        /\ np_req.watch /\ ~ np_req.lazy /\ np_live = "sealed" /\ Trusted
        /\ np_req \in PrepRequests /\ np_defs \in Definitions
    BY <1>0, PreparerAssumption DEF Restarts, PrepInv, PhaseOK, PrepTypeOK
  <1>2. HintsOK' /\ SharedOK' /\ Trusted' = Trusted
    BY <1>0, <1>1, Stays DEF PrepInv
  <1>3. \A n, p : NodeOK(n, p) => NodeOK(n, p)'
    BY <1>0, <1>1, NodeStays
  <1>4. NodesOK'
    <2>1. \A n \in PrepNodes : NodeOK(n, np_prepared'[n])
      BY <1>0 DEF PrepInv, NodesOK, NodeOK
    <2> QED
      BY <1>3, <2>1 DEF NodesOK
  <1>5. SpawnedOK'
    BY <1>1 DEF SpawnedOK, NoneOf
  <1>6. PrepTypeOK' /\ PhaseOK'
    BY <1>0, <1>1, <1>2 DEF PrepTypeOK, PhaseOK
  <1>7. PlannedOK'
    BY <1>0, <1>1 DEF PrepInv, PlannedOK, Planned
  <1> QED
    BY <1>2, <1>4, <1>5, <1>6, <1>7 DEF PrepInv

(* The dropped nodes are prepared again, before the plan is sealed.        *)
LEMMA PrepareAllStep == PrepInv /\ prepare_all => PrepInv'
  <1> SUFFICES ASSUME PrepInv, prepare_all PROVE PrepInv'
    OBVIOUS
  <1>0. /\ np_pc = "reprepare" /\ np_live = "partial" /\ np_ready \subseteq np_again
        /\ np_req.watch /\ ~ np_req.lazy /\ np_ready \subseteq PrepNodes
        /\ UNCHANGED <<np_defs, np_req, np_again, np_shared, np_spawns, np_started, np_spawned>>
    BY PreparerAssumption DEF prepare_all, PrepInv, PhaseOK, PrepTypeOK
  <1>1. SpawnedOK' /\ SharedOK' /\ Trusted' = Trusted
    BY <1>0, Stays DEF PrepInv
  <1>2. CASE ensure_many(np_ready, "SpawnPlan") /\ UNCHANGED <<np_live, np_ready, np_hints>>
    <2>1. /\ NodesOK' /\ np_prepared' = [m \in PrepNodes |-> np_prepared'[m]]
          /\ \A m \in PrepNodes : Planned(m) => Planned(m)'
          /\ np_pc' \in {"reprepare", "error"}
      BY <1>0, <1>2, EnsureManyOK
    <2>2. HintsOK'
      BY <1>0, <1>2, Stays DEF PrepInv
    <2>3. PrepTypeOK' /\ PhaseOK'
      BY <1>0, <1>1, <1>2, <2>1 DEF PrepInv, PrepTypeOK, PhaseOK
    <2>4. PlannedOK'
      BY <1>0, <1>2, <2>1 DEF PrepInv, PlannedOK
    <2> QED
      BY <1>1, <2>1, <2>2, <2>3, <2>4 DEF PrepInv
  <1>3. CASE /\ np_ready \cap Below("SpawnPlan") = {}
             /\ np_pc' = "prepare" /\ np_live' = "sealed" /\ np_ready' = Unscheduled({}, {})
             /\ np_hints' = IF np_req.prewarm THEN Kept ELSE np_hints
             /\ UNCHANGED <<np_prepared, np_upstream>>
    <2>1. \A n \in np_ready : Planned(n)
      BY <1>0, <1>3, AllPlanned DEF PrepInv
    <2>2. \A n \in PrepNodes : Planned(n)
      BY <1>0, <2>1 DEF PrepInv, PlannedOK
    <2>3. NodesOK'
      BY <1>0, <1>3, Stays DEF PrepInv
    <2>4. HintsOK'
      BY <1>0, <1>3, <2>2, KeptOK DEF PrepInv
    <2>5. np_ready' \subseteq PrepNodes
      BY <1>3 DEF Unscheduled
    <2>6. PrepTypeOK' /\ PhaseOK'
      BY <1>0, <1>1, <1>3, <2>5 DEF PrepInv, PrepTypeOK, PhaseOK
    <2>7. PlannedOK'
      BY <1>0, <1>3, <2>2 DEF PlannedOK, Planned
    <2> QED
      BY <1>1, <2>3, <2>4, <2>6, <2>7 DEF PrepInv
  <1> QED
    BY <1>2, <1>3 DEF prepare_all

(* An edit of the metadata starts from nothing.                            *)
LEMMA MetadataStep == PrepInv /\ MetadataEdit => PrepInv'
  <1> SUFFICES ASSUME PrepInv, MetadataEdit PROVE PrepInv'
    OBVIOUS
  <1>1. /\ np_pc = "idle" /\ np_pc' = "new" /\ np_live' = "live" /\ np_prepared' = NoneOf
        /\ np_hints' = NoneOf /\ np_again' = {} /\ np_ready' = {} /\ UNCHANGED np_shared
        /\ np_started' = {} /\ np_spawned' = NoneOf /\ np_spawns = {}
        /\ UNCHANGED <<np_defs, np_req, np_spawns>> /\ np_req.watch /\ ~ np_req.lazy
        /\ np_req \in PrepRequests /\ np_defs \in Definitions
    BY PreparerAssumption DEF MetadataEdit, Restarts, PrepInv, PhaseOK, PrepTypeOK
  <1>2. NodesOK' /\ HintsOK' /\ SpawnedOK'
    BY <1>1 DEF NodesOK, HintsOK, SpawnedOK, NodeOK, HintOK, NoneOf
  <1>3. SharedOK'
    BY <1>1 DEF PrepInv, SharedOK, NoShared
  <1>4. PrepTypeOK' /\ PhaseOK' /\ PlannedOK'
    BY <1>1 DEF PrepTypeOK, PhaseOK, PlannedOK, NoneOf
  <1> QED
    BY <1>2, <1>3, <1>4 DEF PrepInv

-----------------------------------------------------------------------------
(* Every step keeps PrepInv.                                               *)
LEMMA PrepInvStep == PrepInv /\ [PrepNext]_np_vars => PrepInv'
  <1> SUFFICES ASSUME PrepInv, [PrepNext]_np_vars PROVE PrepInv'
    OBVIOUS
  <1>1. CASE prepare_task_nodes
    BY <1>1, PrepareNodesStep
  <1>2. CASE new_lazy
    BY <1>2, NewLazyStep
  <1>3. CASE materialize_one_shell_shared
    BY <1>3, OneShellStep
  <1>4. CASE ensure_cas_inputs_many
    BY <1>4, EnsureReadyStep
  <1>5. CASE speculate_successors
    BY <1>5, SpeculateStep
  <1>6. CASE AllEnsured
    BY <1>6, QueueStep DEF AllEnsured
  <1>7. CASE start_spawn_plan
    BY <1>7, QueueStep DEF start_spawn_plan
  <1>8. CASE \E n \in PrepNodes : SpawnPlanWorker(n)
    BY <1>8, QueueStep DEF SpawnPlanWorker
  <1>9. CASE LookupHits
    BY <1>9, QueueStep DEF LookupHits
  <1>10. CASE LookupMisses
    BY <1>10, QueueStep DEF LookupMisses
  <1>11. CASE join_spawn_plan
    BY <1>11, JoinStep
  <1>12. CASE SpawnMisses
    BY <1>12, SpawnStep
  <1>13. CASE \E n \in PrepNodes, ok \in BOOLEAN : NodeExits(n, ok)
    BY <1>13, QueueStep DEF NodeExits
  <1>14. CASE HitsUnlock
    BY <1>14, QueueStep DEF HitsUnlock, Prepares
  <1>15. CASE GenerationOver
    BY <1>15, GenerationOverStep
  <1>16. CASE reprepare_missing_task_nodes
    BY <1>16, ReprepareStep
  <1>17. CASE prepare_all
    BY <1>17, PrepareAllStep
  <1>18. CASE MetadataEdit
    BY <1>18, MetadataStep
  <1>19. CASE UNCHANGED np_vars
    <2>1. NodesOK' /\ HintsOK' /\ SpawnedOK' /\ SharedOK' /\ Trusted' = Trusted
      BY <1>19, Stays DEF PrepInv, np_vars
    <2>2. PrepTypeOK' /\ PhaseOK' /\ PlannedOK'
      BY <1>19, <2>1 DEF PrepInv, PrepTypeOK, PhaseOK, PlannedOK, Planned, NoneOf, np_vars
    <2> QED
      BY <2>1, <2>2 DEF PrepInv
  <1> QED
    BY <1>1, <1>2, <1>3, <1>4, <1>5, <1>6, <1>7, <1>8, <1>9, <1>10, <1>11, <1>12, <1>13, <1>14,
       <1>15, <1>16, <1>17, <1>18, <1>19 DEF PrepNext

(* PrepInv is enough.                                                      *)
LEMMA PrepInvSound == PrepInv => PreparationSound
  <1> SUFFICES ASSUME PrepInv PROVE PreparationSound
    OBVIOUS
  <1>1. ASSUME NEW n \in PrepNodes, np_spawned[n] # Absent
        PROVE  /\ np_spawned[n].stage = "SpawnPlan" /\ OwnContext(n) /\ InShell(n)
               /\ n \notin np_again =>
                     /\ Cardinality(Wraps(n)) <= 1
                     /\ np_spawned[n].parameter = Parameter(n, np_req.set)
                     /\ np_spawned[n].cached => ~ np_spawned[n].secrets /\ np_spawned[n].env.shell = NoShell
    <2> DEFINE p == np_spawned[n]
    <2>1. NodeOK(n, p) /\ p.stage = "SpawnPlan" /\ Trusted
      BY <1>1 DEF PrepInv, SpawnedOK
    <2>2. /\ p.shell = resolve_effective_shell(n) /\ p.confirm = Own(n).confirm
          /\ p.secrets = Own(n).secrets /\ OwnEnv(p.env, n) /\ p.wrapped \in BOOLEAN
          /\ p.wrapped \/ p.env.shell # NoShell <=> OwnWrap(n)
      BY <1>1, <2>1 DEF NodeOK
    <2>3. p.env.policy = Own(n).policy
      BY <2>2 DEF OwnEnv
    <2>4. OwnContext(n)
      BY <2>1, <2>2, <2>3 DEF OwnContext, Own, Trusted, requires_project_trust
    <2>5. /\ "wrapped" \in Wraps(n) <=> p.wrapped
          /\ "materialized" \in Wraps(n) <=> p.env.shell # NoShell
          /\ Wraps(n) \subseteq {"wrapped", "materialized"}
      BY DEF Wraps
    <2>6. InShell(n)
      <3>1. OwnWrap(n) \in BOOLEAN
        BY DEF OwnWrap, effective_shell_wrap
      <3>2. (Wraps(n) # {}) = OwnWrap(n)
        BY <2>2, <2>5, <3>1
      <3> QED
        BY <2>2, <3>2 DEF InShell, OwnWrap, OwnEnv
    <2>7. ASSUME n \notin np_again
          PROVE  /\ Cardinality(Wraps(n)) <= 1 /\ p.parameter = Parameter(n, np_req.set)
                 /\ p.cached => ~ p.secrets /\ p.env.shell = NoShell
      <3>1. /\ ~ (p.wrapped /\ p.env.shell # NoShell) /\ p.parameter = Parameter(n, np_req.set)
            /\ p.cached => ~ p.secrets /\ p.env.shell = NoShell
        BY <1>1, <2>1, <2>7 DEF NodeOK
      <3>2. Wraps(n) = {} \/ \E w : Wraps(n) = {w}
        BY <2>5, <3>1
      <3>3. Cardinality(Wraps(n)) \in {0, 1}
        <4>1. CASE Wraps(n) = {}
          BY <4>1, FS_EmptySet
        <4>2. CASE \E w : Wraps(n) = {w}
          BY <4>2, FS_Singleton
        <4> QED
          BY <3>2, <4>1, <4>2
      <3> QED
        BY <3>1, <3>3
    <2> QED
      BY <2>1, <2>4, <2>6, <2>7
  <1>2. SpawnedAsDeclared
    BY <1>1 DEF SpawnedAsDeclared
  <1>3. NeverRunUnprepared
    BY DEF PrepInv, PlannedOK, NeverRunUnprepared
  <1> QED
    BY <1>2, <1>3 DEF PreparationSound

(* Nodes are prepared soundly: however TaskNodePreparer gets to the plan   *)
(* of a node (all at once, lazily, ahead of its turn, on a thread beside   *)
(* the cache lookup, for one shared shell or again after an edit), the run *)
(* loop spawns the node with its own context, in its own shell and once,   *)
(* with the command line's parameters; caches it only without secrets; and *)
(* under fail-fast prepares none that is not about to run.                 *)
THEOREM SpawnedAsPlanned == PrepSpec => []PreparationSound
  <1>1. PrepSpec => []PrepInv
    BY InitPrep, PrepInvStep, PTL DEF PrepSpec
  <1> QED
    BY <1>1, PrepInvSound, PTL

=============================================================================
