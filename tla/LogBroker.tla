----------------------------- MODULE LogBroker -----------------------------
(***************************************************************************)
(* The log broker of nxrd: crates/nxr-core/src/log_broker.rs and the       *)
(* log.* methods of daemon.rs.                                             *)
(*                                                                         *)
(* Requests run on threads of their own and take the daemon's one lock for *)
(* as long as they handle the request; an append keeps it while it hands   *)
(* the chunk to every subscriber's bounded channel, and a full channel     *)
(* makes it wait there.  A subscriber's thread takes the lock only to      *)
(* subscribe; then it moves events from its channel, or bytes from the log *)
(* file, to its client's socket.  A client may stop reading; the socket's  *)
(* write timeout then ends the thread.                                     *)
(*                                                                         *)
(* The n-th chunk appended to a stream, and the n-th block written to its  *)
(* file, is the number n.                                                  *)
(***************************************************************************)
EXTENDS Integers, Sequences, FiniteSets, SequencesExt

CONSTANTS
    LogStreams,              \* stream ids, numbers in the order of their names
    FileStreams,             \* those whose process writes a log file
    Subscribers,
    MAX_STREAMS,
    MaxTail,                 \* MAX_TAIL_BYTES, in chunks
    SUBSCRIBER_CHANNEL_CAP,
    MaxChunks,               \* chunks appended to a stream
    MaxBlocks                \* blocks written to a file

ASSUME LogAssumption ==
    /\ LogStreams \subseteq Nat /\ FileStreams \subseteq LogStreams
    /\ {MAX_STREAMS, MaxTail, SUBSCRIBER_CHANNEL_CAP, MaxChunks, MaxBlocks} \subseteq Nat \ {0}

VARIABLES
    streams,     \* the broker's map: the ids that are open
    log_path,    \* the streams whose entry records a path
    tail,        \* stream -> recent chunks
    log_subs,    \* stream -> senders, in subscription order
    channel,     \* subscriber -> events not yet received
    sub,         \* subscriber -> its thread
    reading,     \* the clients that read their sockets
    appended,    \* stream -> chunks appended so far
    written,     \* stream -> blocks the process wrote to its log file
    sending      \* the fan-out that holds the lock: <<stream, senders to go, event>>

log_vars == <<streams, log_path, tail, log_subs, channel, sub, reading, appended,
              written, sending>>

NoSub == [pc |-> "idle"]

LogInit ==
    /\ streams = {}
    /\ log_path = {}
    /\ tail = [s \in LogStreams |-> <<>>]
    /\ log_subs = [s \in LogStreams |-> <<>>]
    /\ channel = [c \in Subscribers |-> <<>>]
    /\ sub = [c \in Subscribers |-> NoSub]
    /\ reading = Subscribers
    /\ appended = [s \in LogStreams |-> 0]
    /\ written = [s \in LogStreams |-> 0]
    /\ sending = <<>>

LockFree == sending = <<>>

(* The receiver of a subscriber's channel exists while its thread runs.    *)
Follows(c) == sub[c].pc = "follow"

(* LogBroker::open: the streams that may have to go to make room for s.    *)
Victims(s) ==
    IF s \in streams \/ Cardinality(streams) < MAX_STREAMS THEN {{}}
    ELSE {{v} : v \in {v \in streams : /\ log_subs[v] = <<>>
                                       /\ \A w \in streams : w < v => log_subs[w] # <<>>}}

(* The map after open(s, path); an open stream keeps its tail and senders. *)
Opened(s, path, gone) ==
    /\ gone \in Victims(s)
    /\ streams' = (streams \ gone) \cup {s}
    /\ log_path' = IF path THEN (log_path \ gone) \cup {s} ELSE log_path \ gone

Fresh(s, gone, f) == [x \in LogStreams |-> IF x \in gone THEN <<>> ELSE f[x]]

log_open(s, path) ==
    /\ LockFree
    /\ \E gone \in SUBSET streams :
          /\ Opened(s, path, gone)
          /\ tail' = Fresh(s, gone, tail)
          /\ log_subs' = Fresh(s, gone, log_subs)
    /\ UNCHANGED <<channel, sub, reading, appended, written, sending>>

push_tail(t, n) == IF Len(t) < MaxTail THEN Append(t, n)
                   ELSE Append(Tail(t), n)

(* log.append, up to the fan-out: the lock is kept.                        *)
log_append(s) ==
    /\ LockFree
    /\ appended[s] < MaxChunks
    /\ \E gone \in SUBSET streams :
          /\ Opened(s, FALSE, gone)
          /\ tail' = [Fresh(s, gone, tail) EXCEPT ![s] = push_tail(@, appended[s] + 1)]
          /\ log_subs' = Fresh(s, gone, log_subs)
    /\ appended' = [appended EXCEPT ![s] = @ + 1]
    /\ sending' = <<s, log_subs[s], appended[s] + 1>>
    /\ UNCHANGED <<channel, sub, reading, written>>

(* fanout to the next sender: it waits for room in the channel; a sender   *)
(* whose receiver is gone is dropped from the list.                        *)
fanout ==
    /\ ~ LockFree
    /\ sending[2] # <<>>
    /\ LET s == sending[1]
           c == Head(sending[2])
       IN  /\ \/ /\ Follows(c)
                 /\ Len(channel[c]) < SUBSCRIBER_CHANNEL_CAP
                 /\ channel' = [channel EXCEPT ![c] = Append(@, sending[3])]
                 /\ UNCHANGED log_subs
              \/ /\ ~ Follows(c)
                 /\ log_subs' = [log_subs EXCEPT ![s] = RemoveFirst(@, c)]
                 /\ UNCHANGED channel
           /\ sending' = <<s, Tail(sending[2]), sending[3]>>
    /\ UNCHANGED <<streams, log_path, tail, sub, reading, appended, written>>

fanout_done ==
    /\ ~ LockFree
    /\ sending[2] = <<>>
    /\ sending' = <<>>
    /\ UNCHANGED <<streams, log_path, tail, log_subs, channel, sub, reading,
                   appended, written>>

(* Fault: the tail is read before the sender is in the list.               *)
TailFor_late(s) == IF Len(tail[s]) = 0 THEN <<>> ELSE SubSeq(tail[s], 1, Len(tail[s]) - 1)

TailFor(s) == tail[s]

(* handle_log_subscribe under the lock: open, snapshot of the tail, sender *)
(* added.  With a path the file is the source, if it is there; otherwise   *)
(* the tail comes first, but only for a stream without a path.             *)
handle_log_subscribe(c, s, path) ==
    /\ LockFree
    /\ sub[c].pc = "idle"
    /\ \E gone \in SUBSET streams :
          /\ Opened(s, path, gone)
          /\ LET subs == Fresh(s, gone, log_subs)
                 keep == Fresh(s, gone, tail)
                 file == s \in log_path'
             IN  /\ tail' = keep
                 /\ log_subs' = [subs EXCEPT ![s] = Append(@, c)]
                 /\ sub' = [sub EXCEPT ![c] =
                       [pc |-> "follow", stream |-> s,
                        file |-> file /\ written[s] > 0,
                        pending |-> IF file THEN <<>> ELSE TailFor(s),
                        next |-> IF file THEN appended[s] + 1
                                 ELSE appended[s] + 1 - Len(keep[s]),
                        got |-> <<>>]]
    /\ UNCHANGED <<channel, reading, appended, written, sending>>

(* One chunk goes to a client that reads: first the tail, then the         *)
(* channel, or the next block of the file.                                 *)
write_chunk_event(c) ==
    /\ Follows(c)
    /\ c \in reading
    /\ LET r == sub[c]
       IN  \/ /\ r.pending # <<>>
              /\ sub' = [sub EXCEPT ![c].pending = Tail(@), ![c].got = Append(@, Head(r.pending))]
              /\ UNCHANGED channel
           \/ /\ r.pending = <<>> /\ ~ r.file
              /\ channel[c] # <<>> /\ Head(channel[c]) > 0
              /\ sub' = [sub EXCEPT ![c].got = Append(@, Head(channel[c]))]
              /\ channel' = [channel EXCEPT ![c] = Tail(@)]
           \/ /\ r.file /\ Len(r.got) < written[r.stream]
              /\ sub' = [sub EXCEPT ![c].got = Append(@, Len(@) + 1)]
              /\ UNCHANGED channel
    /\ UNCHANGED <<streams, log_path, tail, log_subs, reading, appended, written, sending>>

(* With a file the events are taken from the channel and thrown away, one  *)
(* at a time, when the file has nothing new.                               *)
DiscardEvent(c) ==
    /\ Follows(c)
    /\ sub[c].file /\ Len(sub[c].got) = written[sub[c].stream]
    /\ channel[c] # <<>> /\ Head(channel[c]) > 0
    /\ channel' = [channel EXCEPT ![c] = Tail(@)]
    /\ UNCHANGED <<streams, log_path, tail, log_subs, sub, reading, appended,
                   written, sending>>

HasWork(c) == \/ sub[c].pending # <<>>
              \/ channel[c] # <<>>
              \/ sub[c].file /\ Len(sub[c].got) < written[sub[c].stream]

EndThread(c) ==
    /\ channel' = [channel EXCEPT ![c] = <<>>]
    /\ UNCHANGED <<streams, log_path, tail, log_subs, reading, appended, written, sending>>

(* Closed (0 in the channel) ends the stream: eof goes to the client.      *)
LogEof(c) ==
    /\ Follows(c)
    /\ c \in reading
    /\ sub[c].pending = <<>>
    /\ channel[c] # <<>> /\ Head(channel[c]) = 0
    /\ sub' = [sub EXCEPT ![c].pc = "eof"]
    /\ EndThread(c)

(* The sender is gone (the stream was evicted) and the channel is empty.   *)
LogDisconnected(c) ==
    /\ Follows(c)
    /\ sub[c].pending = <<>>
    /\ channel[c] = <<>>
    /\ c \notin Range(log_subs[sub[c].stream])
    /\ LockFree \/ c \notin Range(sending[2])
    /\ sub' = [sub EXCEPT ![c].pc = "gone"]
    /\ EndThread(c)

(* Fault: no write timeout is set on the connection.                       *)
WriteTimeout_none(c) == FALSE /\ UNCHANGED log_vars

(* The client does not read and there is something to write: the write     *)
(* times out and the thread ends.                                          *)
WriteTimeout(c) ==
    /\ Follows(c)
    /\ c \notin reading
    /\ HasWork(c)
    /\ sub' = [sub EXCEPT ![c].pc = "gone"]
    /\ EndThread(c)

(* log.close: the entry goes, then Closed (0) is fanned out like a chunk.  *)
log_close(s) ==
    /\ LockFree
    /\ s \in streams
    /\ streams' = streams \ {s}
    /\ log_path' = log_path \ {s}
    /\ tail' = [tail EXCEPT ![s] = <<>>]
    /\ log_subs' = [log_subs EXCEPT ![s] = <<>>]
    /\ sending' = <<s, log_subs[s], 0>>
    /\ UNCHANGED <<channel, sub, reading, appended, written>>

ClientStalls(c) ==
    /\ Follows(c) /\ c \in reading
    /\ reading' = reading \ {c}
    /\ UNCHANGED <<streams, log_path, tail, log_subs, channel, sub, appended, written, sending>>

ProcessWrites(s) ==
    /\ s \in FileStreams /\ written[s] < MaxBlocks
    /\ written' = [written EXCEPT ![s] = @ + 1]
    /\ UNCHANGED <<streams, log_path, tail, log_subs, channel, sub, reading, appended, sending>>

LogThread(c) == \/ write_chunk_event(c) \/ DiscardEvent(c) \/ LogEof(c)
                \/ LogDisconnected(c) \/ WriteTimeout(c)

LogAppending == fanout \/ fanout_done

LogNext ==
    \/ \E s \in LogStreams :
          \/ log_append(s) \/ log_close(s) \/ ProcessWrites(s)
          \/ \E path \in {FALSE, (s \in FileStreams)} :
                \/ log_open(s, path)
                \/ \E c \in Subscribers : handle_log_subscribe(c, s, path)
    \/ LogAppending
    \/ \E c \in Subscribers : LogThread(c) \/ ClientStalls(c)

LogSpec == LogInit /\ [][LogNext]_log_vars

(* Threads run, and a write to a client that does not read times out.      *)
LogFairness ==
    /\ WF_log_vars(LogAppending)
    /\ \A c \in Subscribers : WF_log_vars(LogThread(c))

-----------------------------------------------------------------------------

(* A follower without a file gets the retained tail and then every chunk   *)
(* appended after it subscribed, each once and in order: the snapshot of   *)
(* the tail and the registration of the sender leave no gap.               *)
FollowIsContiguous ==
    \A c \in Subscribers : sub[c].pc # "idle" /\ ~ sub[c].file =>
        \A i \in 1..Len(sub[c].got) : sub[c].got[i] = sub[c].next + i - 1

(* An append that holds the daemon's lock always comes to an end, also     *)
(* when a follower's client has stopped reading: the write timeout ends    *)
(* the follower's thread and the channel no longer holds the append up.    *)
AppendReleasesLock == ~ LockFree ~> LockFree

=============================================================================
