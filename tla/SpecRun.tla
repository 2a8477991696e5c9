------------------------------ MODULE SpecRun -------------------------------
(***************************************************************************)
(* execute_spec_locally of nxr-task/src/execution_spec.rs: a native leaf   *)
(* run with both of its streams piped, a reader thread for each of them, a *)
(* bounded channel and the journal of nxr-task/src/run_journal.rs, whose   *)
(* log chunks are files named by their content.  Attempts follow each      *)
(* other over one journal directory; any of them may fail or die.          *)
(***************************************************************************)
EXTENDS Naturals, FiniteSets, SequencesExt

CONSTANTS
    SpecOutput,   \* the contents of the chunks a leaf writes, in order
    PipeRoom,     \* chunks a pipe holds before its writer waits
    ChannelRoom,  \* the bound of the channel, 8 in the code
    MaxSpecRuns,  \* attempts over one journal
    MaxSpecFaults \* how many of them fail or die

SpecTexts == {SpecOutput[i] : i \in DOMAIN SpecOutput}

ASSUME SpecRunAssumption ==
    /\ SpecOutput \in Seq(SpecTexts)
    /\ PipeRoom \in Nat \ {0} /\ ChannelRoom \in Nat \ {0}

VARIABLES
    sr_events,    \* the committed rows of events
    sr_chunks,    \* the files of logs/ by content: "none", "partial", "whole"
    sr_indexed,   \* the committed rows of log_chunks
    sr_runs,      \* attempts begun
    sr_faults,    \* failures and deaths so far
    sr_pc,        \* where the attempt is
    sr_sequence,  \* its local variable `sequence`
    sr_chunk,     \* the chunk it has received
    sr_child,     \* "none", "running", the stream it waits to write to, "exited", "signal"
    sr_wrote,     \* what the child has written to each stream
    sr_pipe,      \* the contents of each pipe
    sr_held,      \* what each reader has read and not sent; <<>> for nothing
    sr_open,      \* the readers that have not seen the end of their pipe
    sr_channel    \* the channel from the readers to the attempt

sr_journal == <<sr_events, sr_chunks, sr_indexed>>
sr_count == <<sr_runs, sr_faults>>
sr_flow == <<sr_wrote, sr_pipe, sr_held, sr_open, sr_channel>>
sr_vars == <<sr_journal, sr_count, sr_pc, sr_sequence, sr_chunk, sr_child, sr_flow>>

SpecStreams == {"stdout", "stderr"}
NoOutput == [s \in SpecStreams |-> <<>>]
NoSpecChunk == [source |-> "stdout", text |-> <<>>]
SpecIdle == sr_pc \in {"idle", "returned", "error", "dead"}

SpecRunInit ==
    /\ sr_events = <<>> /\ sr_chunks = [t \in SpecTexts |-> "none"] /\ sr_indexed = {}
    /\ sr_runs = 0 /\ sr_faults = 0 /\ sr_pc = "idle" /\ sr_sequence = 0 /\ sr_chunk = NoSpecChunk
    /\ sr_child = "none" /\ sr_wrote = NoOutput /\ sr_pipe = NoOutput /\ sr_held = NoOutput
    /\ sr_open = {} /\ sr_channel = <<>>

ChildGone == sr_child \in {"none", "exited", "signal"}

NoFlow ==
    /\ sr_wrote' = NoOutput /\ sr_pipe' = NoOutput /\ sr_held' = NoOutput
    /\ sr_open' = {} /\ sr_channel' = <<>> /\ sr_child' = "none" /\ sr_chunk' = NoSpecChunk

-----------------------------------------------------------------------------
(* append commits the row if its sequence follows the last one.            *)
AppendEvent(kind, source, text, next) ==
    IF sr_sequence = Len(sr_events) + 1
    THEN /\ sr_events' = Append(sr_events, [sequence |-> sr_sequence, run |-> sr_runs,
                                            kind |-> kind, source |-> source, text |-> text])
         /\ sr_pc' = next
    ELSE sr_pc' = "error" /\ UNCHANGED sr_events

(* The journal is opened: its lock is free once the writer before has      *)
(* failed or died.  The local sequence continues the committed one.        *)
OpenJournal ==
    /\ sr_pc \in {"idle", "error", "dead"} /\ sr_runs < MaxSpecRuns
    /\ sr_runs' = sr_runs + 1 /\ sr_sequence' = Len(sr_events) + 1 /\ sr_pc' = "open"
    /\ NoFlow /\ UNCHANGED <<sr_journal, sr_faults>>

AppendStarted ==
    /\ sr_pc = "open"
    /\ AppendEvent("started", "local", <<>>, "spawn")
    /\ UNCHANGED <<sr_chunks, sr_indexed, sr_count, sr_sequence, sr_chunk, sr_child, sr_flow>>

SpawnLeaf ==
    /\ sr_pc = "spawn"
    /\ sr_pc' = "receive" /\ sr_child' = "running" /\ sr_open' = SpecStreams
    /\ UNCHANGED <<sr_journal, sr_count, sr_sequence, sr_chunk, sr_wrote, sr_pipe, sr_held, sr_channel>>

(* The child: a write to one of its streams waits while the pipe is full.  *)
(* What it does after the attempt has returned is seen by nobody: the      *)
(* readers end at their next send, and then its writes fail.               *)
ChildWrites ==
    /\ sr_child \in {"running"} \cup SpecStreams /\ ~SpecIdle
    /\ \E s \in IF sr_child = "running" THEN SpecStreams ELSE {sr_child} :
        LET count == Len(sr_wrote["stdout"]) + Len(sr_wrote["stderr"])
        IN  /\ count < Len(SpecOutput)
            /\ IF Len(sr_pipe[s]) < PipeRoom
               THEN /\ sr_wrote' = [sr_wrote EXCEPT ![s] = Append(@, SpecOutput[count + 1])]
                    /\ sr_pipe' = [sr_pipe EXCEPT ![s] = Append(@, SpecOutput[count + 1])]
                    /\ sr_child' = "running"
               ELSE sr_child' = s /\ UNCHANGED <<sr_wrote, sr_pipe>>
    /\ UNCHANGED <<sr_journal, sr_count, sr_pc, sr_sequence, sr_chunk, sr_held, sr_open, sr_channel>>

(* A child that waits in a write does not exit, but it may be killed.      *)
ChildExits ==
    /\ sr_child = "running" /\ ~SpecIdle /\ sr_child' = "exited"
    /\ UNCHANGED <<sr_journal, sr_count, sr_pc, sr_sequence, sr_chunk, sr_flow>>

ChildKilled ==
    /\ ~ChildGone /\ ~SpecIdle /\ sr_child' = "signal"
    /\ UNCHANGED <<sr_journal, sr_count, sr_pc, sr_sequence, sr_chunk, sr_flow>>

(* Fault: stderr is read when stdout has ended.                            *)
ReaderReads_in_turn(s) ==
    /\ s \in sr_open /\ (s = "stderr" => "stdout" \notin sr_open) /\ ~SpecIdle /\ sr_held[s] = <<>> /\ sr_pipe[s] # <<>>
    /\ sr_held' = [sr_held EXCEPT ![s] = <<Head(sr_pipe[s])>>]
    /\ sr_pipe' = [sr_pipe EXCEPT ![s] = Tail(@)]
    /\ UNCHANGED <<sr_journal, sr_count, sr_pc, sr_sequence, sr_chunk, sr_child, sr_wrote, sr_open, sr_channel>>

(* A reader takes what is in its pipe, and ends when the pipe is empty and *)
(* its writer has gone.                                                    *)
ReaderReads(s) ==
    /\ s \in sr_open /\ ~SpecIdle /\ sr_held[s] = <<>> /\ sr_pipe[s] # <<>>
    /\ sr_held' = [sr_held EXCEPT ![s] = <<Head(sr_pipe[s])>>]
    /\ sr_pipe' = [sr_pipe EXCEPT ![s] = Tail(@)]
    /\ UNCHANGED <<sr_journal, sr_count, sr_pc, sr_sequence, sr_chunk, sr_child, sr_wrote, sr_open, sr_channel>>

ReaderEnds(s) ==
    /\ s \in sr_open /\ ~SpecIdle /\ sr_held[s] = <<>> /\ sr_pipe[s] = <<>> /\ ChildGone
    /\ sr_open' = sr_open \ {s}
    /\ UNCHANGED <<sr_journal, sr_count, sr_pc, sr_sequence, sr_chunk, sr_child, sr_wrote, sr_pipe,
                   sr_held, sr_channel>>

(* A send waits while the channel is full.                                 *)
ReaderSends(s) ==
    /\ s \in sr_open /\ sr_held[s] # <<>> /\ ~SpecIdle /\ Len(sr_channel) < ChannelRoom
    /\ sr_channel' = Append(sr_channel, [source |-> s, text |-> sr_held[s]])
    /\ sr_held' = [sr_held EXCEPT ![s] = <<>>]
    /\ UNCHANGED <<sr_journal, sr_count, sr_pc, sr_sequence, sr_chunk, sr_child, sr_wrote, sr_pipe, sr_open>>

-----------------------------------------------------------------------------
(* recv: a chunk, or the end once both senders are gone.                   *)
Receive ==
    /\ sr_pc = "receive"
    /\ \/ /\ sr_channel # <<>>
          /\ sr_chunk' = Head(sr_channel) /\ sr_channel' = Tail(sr_channel)
          /\ sr_sequence' = sr_sequence + 1 /\ sr_pc' = "write"
       \/ /\ sr_channel = <<>> /\ sr_open = {}
          /\ sr_pc' = "wait" /\ UNCHANGED <<sr_chunk, sr_channel, sr_sequence>>
    /\ UNCHANGED <<sr_journal, sr_count, sr_child, sr_wrote, sr_pipe, sr_held, sr_open>>

(* Fault: a file that exists is taken for the chunk without a look at it.  *)
WriteLog_unread ==
    /\ sr_pc = "write"
    /\ LET text == sr_chunk.text[1]
       IN  IF text \in sr_indexed THEN sr_pc' = "append" /\ UNCHANGED sr_chunks
           ELSE CASE sr_chunks[text] # "none" -> sr_pc' = "index" /\ UNCHANGED sr_chunks
                  [] OTHER -> /\ sr_chunks' = [sr_chunks EXCEPT ![text] = "partial"]
                              /\ sr_pc' = "fill"
    /\ UNCHANGED <<sr_events, sr_indexed, sr_count, sr_sequence, sr_chunk, sr_child, sr_flow>>

(* write_log: a chunk that is indexed is there already; a file that exists *)
(* must hold the same bytes; a new file is created, written, then indexed. *)
WriteLog ==
    /\ sr_pc = "write"
    /\ LET text == sr_chunk.text[1]
       IN  IF text \in sr_indexed THEN sr_pc' = "append" /\ UNCHANGED sr_chunks
           ELSE CASE sr_chunks[text] = "whole" -> sr_pc' = "index" /\ UNCHANGED sr_chunks
                  [] sr_chunks[text] = "partial" -> sr_pc' = "error" /\ UNCHANGED sr_chunks
                  [] OTHER -> /\ sr_chunks' = [sr_chunks EXCEPT ![text] = "partial"]
                              /\ sr_pc' = "fill"
    /\ UNCHANGED <<sr_events, sr_indexed, sr_count, sr_sequence, sr_chunk, sr_child, sr_flow>>

FillLog ==
    /\ sr_pc = "fill"
    /\ sr_chunks' = [sr_chunks EXCEPT ![sr_chunk.text[1]] = "whole"] /\ sr_pc' = "index"
    /\ UNCHANGED <<sr_events, sr_indexed, sr_count, sr_sequence, sr_chunk, sr_child, sr_flow>>

IndexLog ==
    /\ sr_pc = "index"
    /\ sr_indexed' = sr_indexed \cup {sr_chunk.text[1]} /\ sr_pc' = "append"
    /\ UNCHANGED <<sr_events, sr_chunks, sr_count, sr_sequence, sr_chunk, sr_child, sr_flow>>

record_chunk ==
    /\ sr_pc = "append"
    /\ AppendEvent("log", sr_chunk.source, sr_chunk.text, "receive")
    /\ UNCHANGED <<sr_chunks, sr_indexed, sr_count, sr_sequence, sr_chunk, sr_child, sr_flow>>

(* The exit: a code, or "cancelled" for a signal.                          *)
WaitLeaf ==
    /\ sr_pc = "wait" /\ ChildGone
    /\ sr_sequence' = sr_sequence + 1 /\ sr_pc' = "end"
    /\ UNCHANGED <<sr_journal, sr_count, sr_chunk, sr_child, sr_flow>>

AppendExited ==
    /\ sr_pc = "end"
    /\ AppendEvent(IF sr_child = "signal" THEN "cancelled" ELSE "exited", "local", <<>>, "returned")
    /\ UNCHANGED <<sr_chunks, sr_indexed, sr_count, sr_sequence, sr_chunk, sr_child, sr_flow>>

(* Any write may fail, and the process may die at any point.  What is left *)
(* in the pipes and threads then is lost.                                  *)
SpecFault(end) ==
    /\ sr_faults < MaxSpecFaults /\ sr_faults' = sr_faults + 1
    /\ sr_pc' = end /\ NoFlow
    /\ UNCHANGED <<sr_journal, sr_runs, sr_sequence>>

(* The leaf cannot be spawned, or an output that it declares is missing    *)
(* after a success; no final event is written.                             *)
LeafFails ==
    /\ sr_pc = "spawn" \/ (sr_pc = "wait" /\ sr_child = "exited")
    /\ SpecFault("error")

JournalFails ==
    /\ sr_pc \in {"open", "write", "fill", "index", "append", "end"}
    /\ SpecFault("error")

SpecDies == ~SpecIdle /\ SpecFault("dead")

SpecRunNext ==
    \/ OpenJournal \/ AppendStarted \/ SpawnLeaf \/ ChildWrites \/ ChildExits \/ ChildKilled
    \/ \E s \in SpecStreams : ReaderReads(s) \/ ReaderEnds(s) \/ ReaderSends(s)
    \/ Receive \/ WriteLog \/ FillLog \/ IndexLog \/ record_chunk \/ WaitLeaf \/ AppendExited
    \/ LeafFails \/ JournalFails \/ SpecDies

(* The threads go on, and so does a leaf that is not made to wait.         *)
SpecRunFairness ==
    /\ WF_sr_vars(AppendStarted \/ SpawnLeaf \/ Receive \/ WriteLog \/ FillLog \/ IndexLog
                    \/ record_chunk \/ WaitLeaf \/ AppendExited)
    /\ WF_sr_vars(ChildWrites) /\ WF_sr_vars(ChildExits)
    /\ \A s \in SpecStreams : WF_sr_vars(ReaderReads(s) \/ ReaderEnds(s) \/ ReaderSends(s))

SpecRunSpec == SpecRunInit /\ [][SpecRunNext]_sr_vars /\ SpecRunFairness

-----------------------------------------------------------------------------
(* The rows in which the attempt at hand logged a chunk of stream s.       *)
RunLogs(s) ==
    {i \in DOMAIN sr_events :
        sr_events[i].run = sr_runs /\ sr_events[i].kind = "log" /\ sr_events[i].source = s}

(* The journal of a run, read at any time, crashes and retries included:   *)
(* its numbers have no gap, each log it names can be read back, and an     *)
(* exit is preceded by all that the leaf wrote, each stream in its order:  *)
(* the i-th of its rows has the i-th chunk.                                *)
JournalTellsOutput ==
    /\ \A i \in DOMAIN sr_events :
        /\ sr_events[i].sequence = i
        /\ sr_events[i].kind = "log" =>
            sr_events[i].text[1] \in sr_indexed /\ sr_chunks[sr_events[i].text[1]] = "whole"
    /\ sr_pc = "returned" =>
        \A s \in SpecStreams :
            /\ Cardinality(RunLogs(s)) = Len(sr_wrote[s])
            /\ \A i \in RunLogs(s) :
                sr_events[i].text[1] = sr_wrote[s][Cardinality({j \in RunLogs(s) : j <= i})]

(* A run is over some day: no full pipe or channel makes the leaf, the     *)
(* readers and the journal wait for each other.                            *)
SpecRunEnds == (sr_pc # "idle") ~> SpecIdle

=============================================================================
