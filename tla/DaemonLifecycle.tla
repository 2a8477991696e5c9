-------------------------- MODULE DaemonLifecycle --------------------------
(***************************************************************************)
(* One socket path and the daemons that are started, stopped and crash at  *)
(* it: `nxr daemon start` and `stop` (crates/nxr-cli/src/commands/         *)
(* daemon.rs) and the beginning and end of serve (nxr-core/src/daemon.rs). *)
(* Nothing but the socket file itself keeps a second daemon away.          *)
(***************************************************************************)
EXTENDS Naturals, FiniteSets

CONSTANTS
    Daemons,        \* the processes that may be started, each once
    DaemonClients,  \* commands that may run at the same time
    NoDaemon,
    MaxDaemonCommands,
    MaxDaemonCrashes

VARIABLES
    dd,        \* daemon -> where it is
    dd_path,   \* the daemon whose socket is at the path
    dd_pid,    \* what the pid file holds
    dd_cmd,    \* client -> what it does, and the child it spawned
    dd_count, dd_crashes,
    dd_quiet   \* ghost: commands came one at a time and nothing was slow

dd_vars == <<dd, dd_path, dd_pid, dd_cmd, dd_count, dd_crashes, dd_quiet>>

Idle == [pc |-> "idle", child |-> NoDaemon]
Coming == {"starting", "clean", "bound", "reconcile"}
Alive == {d \in Daemons : dd[d] \notin {"none", "dead"}}
Active == {c \in DaemonClients : dd_cmd[c].pc \notin {"idle", "NotReady"}}

DaemonInit ==
    /\ dd = [d \in Daemons |-> "none"]
    /\ dd_path = NoDaemon /\ dd_pid = NoDaemon
    /\ dd_cmd = [c \in DaemonClients |-> Idle]
    /\ dd_count = 0 /\ dd_crashes = 0 /\ dd_quiet = TRUE

-----------------------------------------------------------------------------
(* try_connect and the hello on it.  A daemon that serves answers, and one *)
(* that is coming or going, or whose state is locked, may be too slow.     *)
Responds == dd_path \in Alive /\ dd[dd_path] = "serving"
MayTimeOut == dd_path \in Alive
Refused == dd_path \notin Alive

Goes(c, pc, child) == dd_cmd' = [dd_cmd EXCEPT ![c] = [pc |-> pc, child |-> child]]

(* A command begins.                                                       *)
dd_begin(c, pc) ==
    /\ dd_cmd[c].pc \in {"idle", "NotReady"} /\ dd_count < MaxDaemonCommands
    /\ Goes(c, pc, NoDaemon)
    /\ dd_count' = dd_count + 1
    /\ dd_quiet' = (dd_quiet /\ Active = {}
                      /\ \A d \in Daemons : dd[d] \notin Coming \cup {"stopping"})
    /\ UNCHANGED <<dd, dd_path, dd_pid, dd_crashes>>

(* start: a daemon that answers is enough.                                 *)
start_running(c) ==
    /\ dd_cmd[c].pc = "start" /\ Responds
    /\ Goes(c, "idle", NoDaemon)
    /\ UNCHANGED <<dd, dd_path, dd_pid, dd_count, dd_crashes, dd_quiet>>

start_slow(c) ==
    /\ dd_cmd[c].pc = "start" /\ MayTimeOut
    /\ Goes(c, "spawn", NoDaemon)
    /\ dd_quiet' = FALSE
    /\ UNCHANGED <<dd, dd_path, dd_pid, dd_count, dd_crashes>>

(* Fault: no look at what is there.                                        *)
MaySpawn_always(c) == dd_cmd[c].pc \in {"start", "spawn"}

(* No answer, for whatever reason.                                         *)
MaySpawn(c) == dd_cmd[c].pc = "spawn" \/ (dd_cmd[c].pc = "start" /\ Refused)

start_spawn(c, d) ==
    /\ MaySpawn(c)
    /\ dd[d] = "none"
    /\ dd' = [dd EXCEPT ![d] = "starting"]
    /\ Goes(c, "wait", d)
    /\ UNCHANGED <<dd_path, dd_pid, dd_count, dd_crashes, dd_quiet>>

(* The loop that waits for an answer: whoever gives it.                    *)
start_ready(c) ==
    /\ dd_cmd[c].pc = "wait" /\ Responds
    /\ Goes(c, "idle", NoDaemon)
    /\ UNCHANGED <<dd, dd_path, dd_pid, dd_count, dd_crashes, dd_quiet>>

(* The deadline: the child is killed.                                      *)
start_not_ready(c) ==
    /\ dd_cmd[c].pc = "wait"
    /\ dd' = [dd EXCEPT ![dd_cmd[c].child] = "dead"]
    /\ Goes(c, "NotReady", NoDaemon)
    /\ dd_quiet' = (dd_quiet /\ dd_cmd[c].child \notin Alive)
    /\ UNCHANGED <<dd_path, dd_pid, dd_count, dd_crashes>>

(* stop: the request, or the pid file and a signal.  SIGTERM ends a daemon *)
(* without its cleanup.                                                    *)
stop_request(c) ==
    /\ dd_cmd[c].pc = "stop" /\ Responds
    /\ dd' = [dd EXCEPT ![dd_path] = "stopping"]
    /\ Goes(c, "idle", NoDaemon)
    /\ UNCHANGED <<dd_path, dd_pid, dd_count, dd_crashes, dd_quiet>>

stop_absent(c) ==
    /\ dd_cmd[c].pc = "stop" /\ Refused
    /\ IF dd_pid = NoDaemon THEN UNCHANGED <<dd, dd_path, dd_pid>>
       ELSE /\ dd' = [dd EXCEPT ![dd_pid] = "dead"]
            /\ dd_path' = NoDaemon /\ dd_pid' = NoDaemon
    /\ Goes(c, "idle", NoDaemon)
    /\ UNCHANGED <<dd_count, dd_crashes, dd_quiet>>

stop_error(c) ==
    /\ dd_cmd[c].pc = "stop" /\ MayTimeOut
    /\ Goes(c, "idle", NoDaemon)
    /\ dd_quiet' = FALSE
    /\ UNCHANGED <<dd, dd_path, dd_pid, dd_count, dd_crashes>>

-----------------------------------------------------------------------------
cleanup_socket_files == dd_path' = NoDaemon /\ dd_pid' = NoDaemon

serve_cleanup(d) ==
    /\ dd[d] = "starting"
    /\ dd' = [dd EXCEPT ![d] = "clean"]
    /\ cleanup_socket_files
    /\ UNCHANGED <<dd_cmd, dd_count, dd_crashes, dd_quiet>>

(* bind fails if there is a file.                                          *)
serve_bind(d) ==
    /\ dd[d] = "clean"
    /\ IF dd_path = NoDaemon
       THEN dd_path' = d /\ dd' = [dd EXCEPT ![d] = "bound"]
       ELSE dd' = [dd EXCEPT ![d] = "dead"] /\ UNCHANGED dd_path
    /\ UNCHANGED <<dd_pid, dd_cmd, dd_count, dd_crashes, dd_quiet>>

write_pid_file(d) ==
    /\ dd[d] = "bound"
    /\ dd' = [dd EXCEPT ![d] = "reconcile"]
    /\ dd_pid' = d
    /\ UNCHANGED <<dd_path, dd_cmd, dd_count, dd_crashes, dd_quiet>>

(* The loop begins.                                                        *)
serve_accept(d) ==
    /\ dd[d] = "reconcile"
    /\ dd' = [dd EXCEPT ![d] = "serving"]
    /\ UNCHANGED <<dd_path, dd_pid, dd_cmd, dd_count, dd_crashes, dd_quiet>>

(* A request set stop: whatever is at the path by now is removed.          *)
serve_end(d) ==
    /\ dd[d] = "stopping"
    /\ dd' = [dd EXCEPT ![d] = "dead"]
    /\ cleanup_socket_files
    /\ UNCHANGED <<dd_cmd, dd_count, dd_crashes, dd_quiet>>

(* A crash, or an error of reconcile: the files stay.                      *)
serve_dies(d) ==
    /\ d \in Alive /\ dd_crashes < MaxDaemonCrashes
    /\ dd' = [dd EXCEPT ![d] = "dead"]
    /\ dd_crashes' = dd_crashes + 1
    /\ dd_quiet' = (dd_quiet /\ Active = {})
    /\ UNCHANGED <<dd_path, dd_pid, dd_cmd, dd_count>>

DaemonNext ==
    \/ \E c \in DaemonClients :
          \/ \E pc \in {"start", "stop"} : dd_begin(c, pc)
          \/ start_running(c) \/ start_slow(c) \/ start_ready(c) \/ start_not_ready(c)
          \/ \E d \in Daemons : start_spawn(c, d)
          \/ stop_request(c) \/ stop_absent(c) \/ stop_error(c)
    \/ \E d \in Daemons :
          \/ serve_cleanup(d) \/ serve_bind(d) \/ write_pid_file(d) \/ serve_accept(d)
          \/ serve_end(d) \/ serve_dies(d)

DaemonSpec == DaemonInit /\ [][DaemonNext]_dd_vars

-----------------------------------------------------------------------------
(* As long as a command begins after the one before it and the daemon that *)
(* it started or stopped have settled, and every daemon answers in time,   *)
(* crashes between commands included: there is one daemon, and the socket  *)
(* and the pid file are those of a daemon that serves.                     *)
DaemonReachable ==
    dd_quiet =>
        /\ Cardinality(Alive) <= 1
        /\ \A d \in Alive : dd[d] = "serving" => dd_path = d /\ dd_pid = d

=============================================================================
