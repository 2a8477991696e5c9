-------------------------- MODULE PipeMultiplexer --------------------------
(***************************************************************************)
(* The output of children: PipeMultiplexer and ChunkCoalescer of           *)
(* crates/nxr-process, as run_plan in crates/nxr-cli/src/commands/task.rs  *)
(* drives them.  Readiness is edge-triggered (mio): a write or a hang-up   *)
(* arms an event, a poll takes it, and nothing arms it again but another   *)
(* write or hang-up.  The unit of data is what one read takes.             *)
(*                                                                         *)
(*   top      interrupts and control       spawn   spawn_node              *)
(*   poll     Poll::poll                   read    read_ready              *)
(*   ingest   ingest_pipe_chunks           reap    try_wait_any            *)
(*   check    is the run over              shut    after an interrupt      *)
(*                                                                         *)
(* `drain` says which call of drain_pipe_chunks polls.                     *)
(***************************************************************************)
EXTENDS Integers, FiniteSets, Sequences, SequencesExt

CONSTANTS
    MuxNodes,              \* nodes, each with a pipe for every stream
    Streams,               \* in the order in which they are registered
    Writers,               \* pipes that are written to
    Keepers,               \* pipes that a grandchild keeps open
    EarlyClosers,          \* pipes that a child may close before it exits
    PipeUnits,             \* what a pipe holds
    READ_FAIRNESS_BUDGET,  \* what read_ready takes of one pipe
    EventCapacity,         \* events of one poll
    MaxPipeWrites          \* bound on the writes of a behaviour

Pipes == MuxNodes \X ToSet(Streams)

ASSUME MuxAssumption ==
    /\ IsFiniteSet(MuxNodes) /\ Streams \in Seq(ToSet(Streams)) /\ IsInjective(Streams)
    /\ Keepers \subseteq Pipes /\ EarlyClosers \subseteq Pipes /\ Writers \subseteq Pipes
    /\ PipeUnits \in Nat \ {0} /\ READ_FAIRNESS_BUDGET \in Nat /\ MaxPipeWrites \in Nat
    /\ PipeUnits < READ_FAIRNESS_BUDGET  \* the end of a full pipe is read too
    /\ EventCapacity \in Nat /\ EventCapacity >= Cardinality(Pipes)

VARIABLES
    mx_child,     \* node -> "none", "alive", "exited" or "reaped"
    mx_shut,      \* children that an interrupt has stopped
    mx_written, mx_inside,   \* pipe -> units written, and still in the pipe
    mx_hung,      \* pipes without a writer
    mx_due,       \* pipe -> what had been written when its child exited
    mx_armed,     \* pipes with an event that no poll has taken
    sources,      \* token -> the registered pipe
    free_tokens,  \* tokens of no pipe, the last of them is reused first
    node_tokens,  \* node -> the tokens of its pipes
    mx_pc, mx_drain,
    mx_events,    \* tokens of the poll that are to be read
    mx_budget,    \* what is left of the budget of the first of them
    mx_read,      \* pipe -> units read in this poll
    mx_held,      \* pipe -> units in the coalescer
    mx_emitted,   \* pipe -> units given to the sink
    compact_ids   \* node_compact_ids

mx_world == <<mx_child, mx_shut, mx_written, mx_inside, mx_hung, mx_due, mx_armed>>
mx_table == <<sources, free_tokens, node_tokens>>
mx_output == <<mx_read, mx_held, mx_emitted>>
mx_vars == <<mx_world, mx_table, mx_output, mx_pc, mx_drain, mx_events, mx_budget, compact_ids>>

NoPipe == <<>>
Zero == [p \in Pipes |-> 0]

MuxInit ==
    /\ mx_child = [n \in MuxNodes |-> "none"] /\ mx_shut = {}
    /\ mx_written = Zero /\ mx_inside = Zero /\ mx_hung = {} /\ mx_due = Zero
    /\ mx_armed = {}
    /\ sources = <<>> /\ free_tokens = <<>> /\ node_tokens = [n \in MuxNodes |-> {}]
    /\ mx_pc = "top" /\ mx_drain = "normal" /\ mx_events = <<>> /\ mx_budget = 0
    /\ mx_read = Zero /\ mx_held = Zero /\ mx_emitted = Zero
    /\ compact_ids = {}

Registered == {sources[t] : t \in DOMAIN sources} \ {NoPipe}
TokenOf(p) == CHOOSE t \in DOMAIN sources : sources[t] = p
has_pipes(n) == node_tokens[n] # {}

-----------------------------------------------------------------------------
(* Children and their pipes.                                               *)

(* A pipe is read by nobody after it was closed here; a writer of it gets  *)
(* an error, which is none of nxr's state.                                 *)
Writes(p) ==
    /\ mx_child[p[1]] = "alive" \/ (p \in Keepers /\ mx_child[p[1]] # "none")
    /\ p \in (Writers \cap Registered) \ mx_hung
    /\ mx_inside[p] < PipeUnits
    /\ SumFunction(mx_written) < MaxPipeWrites
    /\ mx_written' = [mx_written EXCEPT ![p] = @ + 1]
    /\ mx_inside' = [mx_inside EXCEPT ![p] = @ + 1]
    /\ mx_armed' = mx_armed \cup {p}
    /\ UNCHANGED <<mx_child, mx_shut, mx_hung, mx_due, mx_table, mx_output, mx_pc, mx_drain,
                   mx_events, mx_budget, compact_ids>>

(* The last writer of a pipe closes it: the child, or the grandchild.      *)
Closes(p) ==
    /\ \/ mx_child[p[1]] = "alive" /\ p \in EarlyClosers \ Keepers
       \/ mx_child[p[1]] \in {"exited", "reaped"} /\ p \in Keepers
    /\ p \in Registered \ mx_hung
    /\ mx_hung' = mx_hung \cup {p}
    /\ mx_armed' = mx_armed \cup {p}
    /\ UNCHANGED <<mx_child, mx_shut, mx_written, mx_inside, mx_due, mx_table, mx_output, mx_pc,
                   mx_drain, mx_events, mx_budget, compact_ids>>

(* Children exit, by themselves or stopped.                                *)
Leave(S) ==
    LET left == {p \in Registered : p[1] \in S /\ p \notin Keepers \cup mx_hung}
    IN /\ mx_hung' = mx_hung \cup left
       /\ mx_armed' = mx_armed \cup left
       /\ mx_due' = [p \in Pipes |-> IF p[1] \in S THEN mx_written[p] ELSE mx_due[p]]
       /\ UNCHANGED <<mx_written, mx_inside>>

MuxChildExits(n) ==
    /\ mx_child[n] = "alive"
    /\ mx_child' = [mx_child EXCEPT ![n] = "exited"] /\ Leave({n})
    /\ UNCHANGED <<mx_shut, mx_table, mx_output, mx_pc, mx_drain, mx_events, mx_budget,
                   compact_ids>>

-----------------------------------------------------------------------------
(* The table of pipes.                                                     *)

(* register takes a free token, or a new one: the token of the i-th stream *)
(* of a new child.                                                         *)
register(i) ==
    IF i <= Len(free_tokens) THEN free_tokens[Len(free_tokens) + 1 - i]
    ELSE Len(sources) + i - Len(free_tokens)

spawn_pipes(n) ==
    /\ mx_pc = "spawn" /\ mx_child[n] = "none"
    /\ mx_child' = [mx_child EXCEPT ![n] = "alive"]
    /\ LET tokens == {register(i) : i \in DOMAIN Streams}
       IN  /\ sources' = [t \in DOMAIN sources \cup tokens |->
                            IF t \in tokens THEN <<n, Streams[CHOOSE i \in DOMAIN Streams : register(i) = t]>>
                            ELSE sources[t]]
           /\ free_tokens' = SubSeq(free_tokens, 1, Len(free_tokens) - Len(Streams))
           /\ node_tokens' = [node_tokens EXCEPT ![n] = @ \cup tokens]
    /\ compact_ids' = compact_ids \cup {n}
    /\ UNCHANGED <<mx_shut, mx_written, mx_inside, mx_hung, mx_due, mx_armed, mx_output, mx_pc,
                   mx_drain, mx_events, mx_budget>>

(* A pipe that is closed is deregistered: its event goes.                  *)
close_source(t) ==
    /\ sources' = [sources EXCEPT ![t] = NoPipe]
    /\ free_tokens' = Append(free_tokens, t)
    /\ node_tokens' = [n \in MuxNodes |-> node_tokens[n] \ {t}]
    /\ mx_armed' = mx_armed \ {sources[t]}

-----------------------------------------------------------------------------
(* drain_pipe_chunks.                                                      *)

Poll(which) == mx_pc' = "poll" /\ mx_drain' = which

(* The events that are there, or none after the timeout.                   *)
PollReturns ==
    /\ mx_pc = "poll"
    /\ \E S \in SUBSET mx_armed :
          /\ Cardinality(S) <= EventCapacity
          /\ S # mx_armed => Cardinality(S) = EventCapacity
          /\ mx_armed' = mx_armed \ S
          /\ mx_events' \in SetToSeqs({TokenOf(p) : p \in S})
    /\ mx_pc' = "read" /\ mx_budget' = READ_FAIRNESS_BUDGET
    /\ UNCHANGED <<mx_child, mx_shut, mx_written, mx_inside, mx_hung, mx_due, mx_table,
                   mx_output, mx_drain, compact_ids>>

(* The wait fails; a signal that interrupts it counts, since its kind is   *)
(* replaced by Other before drain_pipe_chunks looks at it.                 *)
PollFails ==
    /\ mx_pc = "poll"
    /\ mx_pc' = "error"
    /\ UNCHANGED <<mx_world, mx_table, mx_output, mx_drain, mx_events, mx_budget, compact_ids>>

(* One turn of read_ready's loop: data, the end of the pipe, or nothing    *)
(* more for now.                                                           *)
NextEvent == mx_events' = Tail(mx_events) /\ mx_budget' = READ_FAIRNESS_BUDGET

(* Fault: one read for each event.                                         *)
ReadOn_once == NextEvent

ReadOn == mx_budget' = mx_budget - 1 /\ UNCHANGED mx_events

read_ready ==
    /\ mx_pc = "read" /\ mx_events # <<>>
    /\ LET t == Head(mx_events)
           p == sources[t]
       IN \/ /\ p = NoPipe \/ mx_budget = 0 \/ (mx_inside[p] = 0 /\ p \notin mx_hung)
             /\ NextEvent /\ UNCHANGED <<mx_inside, mx_read, mx_armed, mx_table>>
          \/ /\ p # NoPipe /\ mx_budget > 0 /\ mx_inside[p] > 0
             /\ mx_inside' = [mx_inside EXCEPT ![p] = @ - 1]
             /\ mx_read' = [mx_read EXCEPT ![p] = @ + 1]
             /\ ReadOn /\ UNCHANGED <<mx_armed, mx_table>>
          \/ /\ p # NoPipe /\ mx_budget > 0 /\ mx_inside[p] = 0 /\ p \in mx_hung
             /\ close_source(t)
             /\ NextEvent /\ UNCHANGED <<mx_inside, mx_read>>
    /\ UNCHANGED <<mx_child, mx_shut, mx_written, mx_hung, mx_due, mx_held, mx_emitted, mx_pc,
                   mx_drain, compact_ids>>

(* A read fails: the pipe is closed, and what the poll has read is lost    *)
(* with the error.                                                         *)
ReadFails ==
    /\ mx_pc = "read" /\ mx_events # <<>>
    /\ sources[Head(mx_events)] # NoPipe
    /\ close_source(Head(mx_events))
    /\ mx_pc' = "error"
    /\ UNCHANGED <<mx_child, mx_shut, mx_written, mx_inside, mx_hung, mx_due, mx_output,
                   mx_drain, mx_events, mx_budget, compact_ids>>

ReadsDone ==
    /\ mx_pc = "read" /\ mx_events = <<>>
    /\ mx_pc' = "ingest"
    /\ UNCHANGED <<mx_world, mx_table, mx_output, mx_drain, mx_events, mx_budget, compact_ids>>

(* What one ingest may emit of a pipe: nothing yet, all up to a chunk that *)
(* filled the buffer, or all because the buffer is old.                    *)
Emittable(p) ==
    {0, mx_held[p] + mx_read[p]} \cup (mx_held[p] + 1 .. mx_held[p] + mx_read[p])

(* push and flush_expired, then cleanup_closed_pipes where the loop calls  *)
(* it, and what follows the call.                                          *)
ingest_pipe_chunks ==
    /\ mx_pc = "ingest"
    /\ \E e \in [Pipes -> 0 .. MaxPipeWrites] :
          /\ \A p \in Pipes : e[p] \in Emittable(p)
          /\ mx_emitted' = [p \in Pipes |-> mx_emitted[p] + e[p]]
          /\ mx_held' = [p \in Pipes |-> mx_held[p] + mx_read[p] - e[p]]
    /\ mx_read' = Zero
    /\ compact_ids' = IF mx_drain = "forced" THEN compact_ids
                      ELSE {n \in compact_ids : has_pipes(n)}
    /\ mx_pc' = CASE mx_drain = "normal" -> "reap"
                  [] mx_drain = "idle" -> "top"
                  [] mx_drain = "forced" -> "shut"
                  [] mx_drain = "final" -> "flush"
    /\ UNCHANGED <<mx_world, mx_table, mx_drain, mx_events, mx_budget>>

-----------------------------------------------------------------------------
(* run_plan.                                                               *)

Unreaped == {n \in MuxNodes : mx_child[n] \in {"alive", "exited"}}

(* An interrupt or a control request: shutdown_all reaps every child, and  *)
(* one drain follows.                                                      *)
ShutAll ==
    /\ mx_pc = "top"
    /\ Leave({n \in MuxNodes : mx_child[n] = "alive"})
    /\ mx_shut' = Unreaped
    /\ mx_child' = [n \in MuxNodes |-> IF n \in Unreaped THEN "reaped" ELSE mx_child[n]]
    /\ Poll("forced")
    /\ UNCHANGED <<mx_table, mx_output, mx_events, mx_budget, compact_ids>>

(* The children that were shut down lose their pipes one after the other,  *)
(* and the loop ends.                                                      *)
remove_node(n) ==
    /\ mx_pc = "shut" /\ n \in mx_shut \cap compact_ids
    /\ \E t \in node_tokens[n] : close_source(t)
    /\ UNCHANGED <<mx_child, mx_shut, mx_written, mx_inside, mx_hung, mx_due, mx_output, mx_pc,
                   mx_drain, mx_events, mx_budget, compact_ids>>

ForgetShut ==
    /\ mx_pc = "shut" /\ \A n \in mx_shut \cap compact_ids : ~has_pipes(n)
    /\ compact_ids' = compact_ids \ mx_shut
    /\ Poll("final")
    /\ UNCHANGED <<mx_world, mx_table, mx_output, mx_events, mx_budget>>

(* A timeout, or fail-fast: the child is reaped, its pipes stay.           *)
StopChild(n) ==
    /\ mx_pc = "top" /\ mx_child[n] = "alive"
    /\ mx_child' = [mx_child EXCEPT ![n] = "reaped"] /\ Leave({n})
    /\ UNCHANGED <<mx_shut, mx_table, mx_output, mx_pc, mx_drain, mx_events, mx_budget,
                   compact_ids>>

ToSpawn ==
    /\ mx_pc = "top" /\ mx_pc' = "spawn"
    /\ UNCHANGED <<mx_world, mx_table, mx_output, mx_drain, mx_events, mx_budget, compact_ids>>

SpawnsDone ==
    /\ mx_pc = "spawn" /\ Poll("normal")
    /\ UNCHANGED <<mx_world, mx_table, mx_output, mx_events, mx_budget, compact_ids>>

ReapChild(n) ==
    /\ mx_pc = "reap" /\ mx_child[n] = "exited"
    /\ mx_child' = [mx_child EXCEPT ![n] = "reaped"]
    /\ mx_pc' = "top"
    /\ UNCHANGED <<mx_shut, mx_written, mx_inside, mx_hung, mx_due, mx_armed, mx_table,
                   mx_output, mx_drain, mx_events, mx_budget, compact_ids>>

(* Nobody has exited.  The loop ends when every node is done and every     *)
(* pipe has been read to its end.                                          *)
NobodyExited ==
    /\ mx_pc = "reap" /\ \A n \in MuxNodes : mx_child[n] # "exited"
    /\ Poll(IF (\A n \in MuxNodes : mx_child[n] = "reaped") /\ compact_ids = {}
            THEN "final" ELSE "idle")
    /\ UNCHANGED <<mx_world, mx_table, mx_output, mx_events, mx_budget, compact_ids>>

flush_coalesced_chunks ==
    /\ mx_pc = "flush"
    /\ mx_emitted' = [p \in Pipes |-> mx_emitted[p] + mx_held[p]]
    /\ mx_held' = Zero
    /\ mx_pc' = "returned"
    /\ UNCHANGED <<mx_world, mx_table, mx_read, mx_drain, mx_events, mx_budget, compact_ids>>

MuxNext ==
    \/ \E p \in Pipes : Writes(p) \/ Closes(p)
    \/ \E n \in MuxNodes : MuxChildExits(n) \/ spawn_pipes(n) \/ StopChild(n) \/ ReapChild(n)
          \/ remove_node(n)
    \/ PollReturns \/ PollFails \/ read_ready \/ ReadFails \/ ReadsDone \/ ingest_pipe_chunks
    \/ ShutAll \/ ForgetShut \/ ToSpawn \/ SpawnsDone \/ NobodyExited \/ flush_coalesced_chunks

MuxSpec == MuxInit /\ [][MuxNext]_mx_vars

-----------------------------------------------------------------------------
(* A registered pipe with data in it, or without a writer, is going to be  *)
(* read: an event is armed, or the loop over the events has yet to reach   *)
(* it.  The fairness budget may leave data in a pipe, but only data that   *)
(* came after the poll, and that has armed an event of its own.            *)
NothingStranded ==
    mx_pc # "error" =>
        \A t \in DOMAIN sources :
            LET p == sources[t]
            IN p # NoPipe /\ (mx_inside[p] > 0 \/ p \in mx_hung) =>
                  p \in mx_armed \/ \E i \in DOMAIN mx_events : mx_events[i] = t

(* When run_plan returns, whatever ended it, the sink has had all that a   *)
(* child had written when it exited: an exit does not drop unread output,  *)
(* and neither does an interrupt.                                          *)
TailDelivered ==
    mx_pc = "returned" =>
        \A p \in Pipes : mx_child[p[1]] = "reaped" => mx_emitted[p] >= mx_due[p]

(* No output of a child is stranded in its pipe or lost at its end.        *)
OutputDelivered == NothingStranded /\ TailDelivered

=============================================================================
