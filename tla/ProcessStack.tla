---------------------------- MODULE ProcessStack ----------------------------
(***************************************************************************)
(* nxr up and nxr down: crates/nxr-cli/src/commands/process_cmd.rs.        *)
(* A command reads the project's state file, works on its copy and writes  *)
(* the copy back; the lock of write_state_atomically covers the write      *)
(* alone.  Processes run on in groups of their own when a command ends.    *)
(*                                                                         *)
(* Process names are numbers, in the order of the names.  An instance is   *)
(* the n-th process ever spawned; pid and start time identify it.  A       *)
(* record is only made for a process that is ready, so the @ of a          *)
(* dependency makes no difference.                                         *)
(***************************************************************************)
EXTENDS Naturals, Sequences, FiniteSets, FiniteSetsExt

CONSTANTS
    StackProcs,
    StackGraphs,        \* dependency graphs: process -> set of processes
    Probed,             \* processes with a readiness probe
    StackCommands,      \* command lines that run at the same time
    MaxSpawns, MaxStackCommands

ASSUME StackAssumption ==
    /\ StackProcs \subseteq Nat \ {0}
    /\ StackGraphs \subseteq [StackProcs -> SUBSET StackProcs]
    /\ {MaxSpawns, MaxStackCommands} \subseteq Nat

VARIABLES
    st_deps,            \* the processes of the task document
    st_file,            \* process -> recorded instance, 0 for none
    st_spawned,         \* the names of all instances
    st_live,            \* instances that run
    st_cmd,             \* the commands
    st_issued,
    st_orderly          \* ghost: no commands overlapped, none was cut short

stack_vars == <<st_deps, st_file, st_spawned, st_live, st_cmd, st_issued, st_orderly>>

NoRecords == [p \in StackProcs |-> 0]
IdleCommand == [pc |-> "idle", named |-> FALSE, todo |-> {}, state |-> NoRecords, current |-> 0]

StackInit ==
    /\ st_deps \in StackGraphs
    /\ st_file = NoRecords
    /\ st_spawned = <<>> /\ st_live = {}
    /\ st_cmd = [c \in StackCommands |-> IdleCommand]
    /\ st_issued = 0 /\ st_orderly = TRUE

-----------------------------------------------------------------------------

(* load_state: the records whose process still runs.                       *)
load_state == [p \in StackProcs |-> IF st_file[p] \in st_live THEN st_file[p] ELSE 0]

(* resolve_targets: the names with all they depend on, if there is no      *)
(* cycle; the order is that of Kahn's algorithm, first name first.         *)
WithDependencies(names) ==
    CHOOSE S \in SUBSET StackProcs :
        /\ names \subseteq S
        /\ \A p \in S : st_deps[p] \subseteq S
        /\ \A T \in SUBSET S : names \subseteq T /\ (\A p \in T : st_deps[p] \subseteq T) => T = S

Cyclic(S) == \E C \in SUBSET S : C # {} /\ \A p \in C : st_deps[p] \cap C # {}

NextTarget(todo) == Min({p \in todo : st_deps[p] \cap todo = {}})

Begin(c, pc, named, todo) ==
    /\ st_cmd[c].pc = "idle" /\ st_issued < MaxStackCommands
    /\ st_cmd' = [st_cmd EXCEPT ![c] = [pc |-> pc, named |-> named, todo |-> todo,
                                        state |-> load_state, current |-> 0]]
    /\ st_issued' = st_issued + 1
    /\ st_orderly' = (st_orderly /\ \A d \in StackCommands : st_cmd[d].pc = "idle")
    /\ UNCHANGED <<st_deps, st_file, st_spawned, st_live>>

up_begin(c, names) ==
    /\ ~ Cyclic(WithDependencies(names))
    /\ Begin(c, "up", TRUE, WithDependencies(names))

down_begin(c, names) ==
    Begin(c, "down", names # {},
          IF names = {} THEN {p \in StackProcs : load_state[p] # 0} ELSE names)

End(c) == st_cmd' = [st_cmd EXCEPT ![c] = IdleCommand]

-----------------------------------------------------------------------------
(* One turn of the loop of up.                                             *)

Target(c) == NextTarget(st_cmd[c].todo)

NotRunning(c) == st_cmd[c].state[Target(c)] \notin st_live

up_already_running(c) ==
    /\ st_cmd[c].pc = "up" /\ st_cmd[c].todo # {} /\ ~ NotRunning(c)
    /\ End(c)
    /\ UNCHANGED <<st_deps, st_file, st_spawned, st_live, st_issued, st_orderly>>

(* spawn_process, up to the spawn.                                         *)
up_spawn(c) ==
    /\ st_cmd[c].pc = "up" /\ st_cmd[c].todo # {} /\ NotRunning(c)
    /\ Len(st_spawned) < MaxSpawns
    /\ st_spawned' = Append(st_spawned, Target(c))
    /\ st_live' = st_live \cup {Len(st_spawned')}
    /\ st_cmd' = [st_cmd EXCEPT ![c].pc = "probe", ![c].current = Len(st_spawned')]
    /\ UNCHANGED <<st_deps, st_file, st_issued, st_orderly>>

(* Its context, its plan or the spawn fails.                               *)
up_cannot_spawn(c) ==
    /\ st_cmd[c].pc = "up" /\ st_cmd[c].todo # {} /\ NotRunning(c)
    /\ End(c)
    /\ UNCHANGED <<st_deps, st_file, st_spawned, st_live, st_issued, st_orderly>>

(* Fault: the state is written when all targets are started.               *)
Saved_at_the_end(c, state) ==
    st_file' = IF st_cmd[c].todo = {Target(c)} THEN state ELSE st_file

Saved(c, state) == st_file' = state

(* wait_for_readiness succeeds, at once without a probe; save_state.       *)
up_ready(c) ==
    /\ st_cmd[c].pc = "probe"
    /\ Target(c) \in Probed => st_cmd[c].current \in st_live
    /\ LET state == [st_cmd[c].state EXCEPT ![Target(c)] = st_cmd[c].current]
       IN  /\ st_cmd' = [st_cmd EXCEPT ![c].pc = "up", ![c].state = state,
                                       ![c].todo = @ \ {Target(c)}]
           /\ Saved(c, state)
    /\ UNCHANGED <<st_deps, st_spawned, st_live, st_issued, st_orderly>>

(* The probe times out or the process has exited: terminate_pid.           *)
up_not_ready(c) ==
    /\ st_cmd[c].pc = "probe" /\ Target(c) \in Probed
    /\ st_live' = st_live \ {st_cmd[c].current}
    /\ End(c)
    /\ UNCHANGED <<st_deps, st_file, st_spawned, st_issued, st_orderly>>

up_done(c) ==
    /\ st_cmd[c].pc = "up" /\ st_cmd[c].todo = {}
    /\ End(c)
    /\ UNCHANGED <<st_deps, st_file, st_spawned, st_live, st_issued, st_orderly>>

-----------------------------------------------------------------------------
(* The loop of down.                                                       *)

terminate_supervised_process(i) == st_live' = st_live \ {i}

down_one(c, p) ==
    /\ st_cmd[c].pc = "down" /\ p \in st_cmd[c].todo
    /\ st_cmd[c].state[p] # 0
    /\ st_cmd' = [st_cmd EXCEPT ![c].todo = @ \ {p}, ![c].state[p] = 0]
    /\ terminate_supervised_process(st_cmd[c].state[p])
    /\ UNCHANGED <<st_deps, st_file, st_spawned, st_issued, st_orderly>>

(* A name without a record ends the command before the state is saved.     *)
down_not_running(c, p) ==
    /\ st_cmd[c].pc = "down" /\ p \in st_cmd[c].todo
    /\ st_cmd[c].named /\ st_cmd[c].state[p] = 0
    /\ End(c)
    /\ UNCHANGED <<st_deps, st_file, st_spawned, st_live, st_issued, st_orderly>>

down_save(c) ==
    /\ st_cmd[c].pc = "down" /\ st_cmd[c].todo = {}
    /\ st_file' = st_cmd[c].state
    /\ End(c)
    /\ UNCHANGED <<st_deps, st_spawned, st_live, st_issued, st_orderly>>

-----------------------------------------------------------------------------

ProcessExits(i) ==
    /\ i \in st_live
    /\ st_live' = st_live \ {i}
    /\ UNCHANGED <<st_deps, st_file, st_spawned, st_cmd, st_issued, st_orderly>>

(* The command is killed, or fails to write the state.                     *)
CommandDies(c) ==
    /\ st_cmd[c].pc # "idle"
    /\ End(c)
    /\ st_orderly' = FALSE
    /\ UNCHANGED <<st_deps, st_file, st_spawned, st_live, st_issued>>

StackNext ==
    \/ \E c \in StackCommands :
          \/ \E names \in SUBSET StackProcs \ {{}} : up_begin(c, names)
          \/ \E names \in SUBSET StackProcs : down_begin(c, names)
          \/ up_already_running(c) \/ up_spawn(c) \/ up_cannot_spawn(c)
          \/ up_ready(c) \/ up_not_ready(c) \/ up_done(c)
          \/ \E p \in StackProcs : down_one(c, p) \/ down_not_running(c, p)
          \/ down_save(c) \/ CommandDies(c)
    \/ \E i \in st_live : ProcessExits(i)

StackSpec == StackInit /\ [][StackNext]_stack_vars

-----------------------------------------------------------------------------

Quiet == \A c \in StackCommands : st_cmd[c].pc = "idle"

(* Commands that run one after the other never lose a process: between     *)
(* them every process that runs is in the state file, whichever target     *)
(* failed to start and whichever name had no record, so that a later down  *)
(* can stop it.                                                            *)
NoneForgotten ==
    st_orderly /\ Quiet => \A i \in st_live : st_file[st_spawned[i]] = i

=============================================================================
