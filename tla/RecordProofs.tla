---------------------------- MODULE RecordProofs ----------------------------
(***************************************************************************)
(* Theorems about what nxr writes down of what happened: the state file of *)
(* process stacks, the receipts of remote leaves, the journal and the      *)
(* snapshot of a durable run, the journal of a specification's run.        *)
(***************************************************************************)
EXTENDS ProcessStack, RemoteLeaf, DurableRun, SpecRun, SequenceTheorems, Totals

-----------------------------------------------------------------------------
(* A set of numbers has a least one.                                       *)
LEMMA MinNat ==
    ASSUME NEW T \in SUBSET Nat, T # {}
    PROVE  Min(T) \in T /\ \A y \in T : Min(T) <= y
  <1>1. PICK x \in T : \A y \in T : x <= y
    BY LeastNumber
  <1> QED
    BY <1>1 DEF Min

-----------------------------------------------------------------------------
(* Process stacks                                                          *)

StackStates == [StackProcs -> Nat]

StackCommand ==
    [pc : {"idle", "up", "probe", "down"}, named : BOOLEAN, todo : SUBSET StackProcs,
     state : StackStates, current : Nat]

StackTypeOK ==
    /\ st_deps \in [StackProcs -> SUBSET StackProcs]
    /\ st_file \in StackStates
    /\ st_spawned \in Seq(StackProcs)
    /\ st_live \subseteq 1..Len(st_spawned)
    /\ st_cmd \in [StackCommands -> StackCommand]
    /\ st_orderly \in BOOLEAN

(* What an up has yet to start has no cycle.                               *)
TargetsOrdered ==
    \A c \in StackCommands :
        st_cmd[c].pc \in {"up", "probe"} =>
            ~ Cyclic(st_cmd[c].todo) /\ (st_cmd[c].pc = "probe" => st_cmd[c].todo # {})

(* All instances of S that run are in the state.                           *)
AllRecorded(state, S) == \A i \in S : state[st_spawned[i]] = i

(* An orderly command knows, as the file does, all that run but the one    *)
(* that it is starting, and nothing else of that name runs.                *)
CommandKnows(c) ==
    /\ st_cmd[c].pc \in {"up", "down"} =>
          AllRecorded(st_file, st_live) /\ AllRecorded(st_cmd[c].state, st_live)
    /\ st_cmd[c].pc = "probe" =>
          LET others == st_live \ {st_cmd[c].current}
          IN  /\ AllRecorded(st_file, others) /\ AllRecorded(st_cmd[c].state, others)
              /\ \A i \in others : st_spawned[i] # Target(c)
              /\ st_cmd[c].current \in 1..Len(st_spawned)
              /\ st_spawned[st_cmd[c].current] = Target(c)

OneStackCommand ==
    \A b, c \in StackCommands : st_cmd[b].pc # "idle" /\ st_cmd[c].pc # "idle" => b = c

StackInv ==
    /\ StackTypeOK /\ TargetsOrdered
    /\ st_orderly => /\ OneStackCommand
                     /\ \A c \in StackCommands : CommandKnows(c)
                     /\ Quiet => AllRecorded(st_file, st_live)

(* resolve_targets gives a set of processes.                               *)
LEMMA TargetsTyped ==
    ASSUME StackTypeOK, NEW names \in SUBSET StackProcs
    PROVE  WithDependencies(names) \in SUBSET StackProcs
  <1> DEFINE Closed(S) == names \subseteq S /\ \A p \in S : st_deps[p] \subseteq S
             least == {p \in StackProcs : \A T \in SUBSET StackProcs : Closed(T) => p \in T}
  <1>1. Closed(least)
    BY DEF StackTypeOK
  <1>2. \A T \in SUBSET least : Closed(T) => T = least
    <2> SUFFICES ASSUME NEW T \in SUBSET least, Closed(T) PROVE T = least
      OBVIOUS
    <2>1. T \in SUBSET StackProcs
      OBVIOUS
    <2> QED
      BY <2>1
  <1>3. \E S \in SUBSET StackProcs :
           /\ names \subseteq S
           /\ \A p \in S : st_deps[p] \subseteq S
           /\ \A T \in SUBSET S : names \subseteq T /\ (\A p \in T : st_deps[p] \subseteq T) => T = S
    <2> HIDE DEF least
    <2> QED
      <3>1. least \in SUBSET StackProcs
        BY DEF least
      <3> WITNESS least \in SUBSET StackProcs
      <3> QED
        BY <1>1, <1>2
  <1> QED
    BY <1>3 DEF WithDependencies

(* A set without a cycle has a next target, and stays without one.         *)
LEMMA TargetExists ==
    ASSUME StackTypeOK, NEW todo \in SUBSET StackProcs, ~ Cyclic(todo), todo # {}
    PROVE  NextTarget(todo) \in todo
  <1> DEFINE ready == {p \in todo : st_deps[p] \cap todo = {}}
  <1>1. ready # {}
    BY DEF Cyclic
  <1>2. ready \in SUBSET Nat
    BY StackAssumption
  <1>3. Min(ready) \in ready
    BY <1>1, <1>2, MinNat
  <1> QED
    BY <1>3 DEF NextTarget

(* A set of processes that can be started in order stays one when some are *)
(* left out.                                                               *)
LEMMA FewerNotCyclic ==
    ASSUME NEW S, NEW T \in SUBSET S, ~ Cyclic(S)
    PROVE  ~ Cyclic(T)
  BY DEF Cyclic

(* What the fields of a command are.                                       *)
LEMMA CommandTyped ==
    ASSUME StackTypeOK, NEW c \in StackCommands
    PROVE  /\ st_cmd[c] \in StackCommand
           /\ st_cmd[c].todo \in SUBSET StackProcs /\ st_cmd[c].state \in StackStates
           /\ st_cmd[c].current \in Nat
  BY DEF StackTypeOK, StackCommand

(* A command at rest is one of the commands' records.                      *)
LEMMA IdleTyped == IdleCommand \in StackCommand /\ IdleCommand.pc = "idle"
  BY DEF IdleCommand, StackCommand, NoRecords, StackStates

(* A step of the one command that acts, which takes it to r.               *)
LEMMA CommandStep ==
    ASSUME StackInv, NEW c \in StackCommands, NEW r \in StackCommand,
           st_cmd' = [st_cmd EXCEPT ![c] = r],
           st_deps' = st_deps, st_file' \in StackStates, st_spawned' \in Seq(StackProcs),
           st_live' \subseteq 1..Len(st_spawned'), st_orderly' \in BOOLEAN,
           r.pc \in {"up", "probe"} => ~ Cyclic(r.todo) /\ (r.pc = "probe" => r.todo # {}),
           st_orderly' => /\ st_orderly
                          /\ st_cmd[c].pc = "idle" => Quiet
                          /\ CommandKnows(c)'
                          /\ r.pc = "idle" => AllRecorded(st_file, st_live)'
    PROVE  StackInv'
  <1>1. StackTypeOK'
    BY DEF StackInv, StackTypeOK
  <1>2. st_cmd'[c] = r /\ \A b \in StackCommands \ {c} : st_cmd'[b] = st_cmd[b]
    BY DEF StackInv, StackTypeOK
  <1>3. \A S : Cyclic(S)' <=> Cyclic(S)
    BY DEF Cyclic
  <1>4. TargetsOrdered'
    <2>1. ASSUME NEW b \in StackCommands, st_cmd'[b].pc \in {"up", "probe"}
          PROVE  ~ Cyclic(st_cmd'[b].todo) /\ (st_cmd'[b].pc = "probe" => st_cmd'[b].todo # {})
      BY <1>2, <2>1 DEF StackInv, TargetsOrdered
    <2> QED
      BY <2>1 DEF TargetsOrdered, Cyclic
  <1>5. ASSUME st_orderly'
        PROVE  /\ OneStackCommand' /\ \A b \in StackCommands : CommandKnows(b)'
               /\ Quiet' => AllRecorded(st_file, st_live)'
    <2>1. \A b \in StackCommands \ {c} : st_cmd'[b].pc = "idle"
      BY <1>2, <1>5 DEF StackInv, OneStackCommand, Quiet
    <2>2. OneStackCommand'
      BY <2>1 DEF OneStackCommand
    <2>3. \A b \in StackCommands \ {c} : CommandKnows(b)'
      BY <2>1 DEF CommandKnows
    <2>4. Quiet' => r.pc = "idle"
      BY <1>2 DEF Quiet
    <2> QED
      BY <1>5, <2>2, <2>3, <2>4 DEF AllRecorded
  <1> QED
    BY <1>1, <1>4, <1>5 DEF StackInv

(* A command begins with what the file has of what runs.                   *)
LEMMA BeginInv ==
    ASSUME StackInv, NEW c \in StackCommands, NEW at \in {"up", "down"}, NEW named \in BOOLEAN,
           NEW todo \in SUBSET StackProcs, at = "up" => ~ Cyclic(todo), Begin(c, at, named, todo)
    PROVE  StackInv'
  <1> DEFINE r == [pc |-> at, named |-> named, todo |-> todo, state |-> load_state, current |-> 0]
  <1>1. load_state \in StackStates
    BY DEF load_state, StackStates, StackInv, StackTypeOK
  <1>2. /\ r \in StackCommand /\ r.pc = at /\ r.todo = todo /\ r.state = load_state
    BY <1>1 DEF StackCommand
  <1>3. /\ st_cmd' = [st_cmd EXCEPT ![c] = r]
        /\ UNCHANGED <<st_deps, st_file, st_spawned, st_live>>
        /\ st_orderly' = (st_orderly /\ Quiet)
    BY DEF Begin, Quiet
  <1> HIDE DEF r
  <1>4. st_cmd'[c] = r
    BY <1>3 DEF StackInv, StackTypeOK
  <1>5. st_orderly' \in BOOLEAN
    BY <1>3 DEF Quiet
  <1>6. ASSUME st_orderly' PROVE st_orderly /\ Quiet /\ CommandKnows(c)'
    <2>1. st_orderly /\ Quiet /\ AllRecorded(st_file, st_live)
      BY <1>3, <1>6 DEF StackInv
    <2>2. ASSUME NEW i \in st_live PROVE load_state[st_spawned[i]] = i
      <3>1. st_spawned[i] \in StackProcs
        BY DEF StackInv, StackTypeOK
      <3> QED
        BY <2>1, <3>1 DEF load_state, AllRecorded
    <2>3. AllRecorded(load_state, st_live)
      BY <2>2 DEF AllRecorded
    <2> QED
      BY <1>2, <1>3, <1>4, <2>1, <2>3 DEF CommandKnows, AllRecorded
  <1>7. r.pc \in {"up", "probe"} => ~ Cyclic(r.todo) /\ (r.pc = "probe" => r.todo # {})
    BY <1>2
  <1>8. r.pc # "idle"
    BY <1>2
  <1>9. /\ st_file' \in StackStates /\ st_spawned' \in Seq(StackProcs)
        /\ st_live' \subseteq 1..Len(st_spawned')
    BY <1>3 DEF StackInv, StackTypeOK
  <1> QED
    BY <1>2, <1>3, <1>5, <1>6, <1>7, <1>8, <1>9, CommandStep

(* A command ends.                                                         *)
LEMMA EndStep ==
    ASSUME StackInv, NEW c \in StackCommands, End(c), st_cmd[c].pc # "idle",
           UNCHANGED <<st_deps, st_spawned, st_orderly>>,
           st_file' \in StackStates, st_live' \subseteq st_live,
           st_orderly => AllRecorded(st_file, st_live)'
    PROVE  StackInv'
  <1>1. st_cmd' = [st_cmd EXCEPT ![c] = IdleCommand] /\ st_cmd'[c] = IdleCommand
    BY DEF End, StackInv, StackTypeOK
  <1>2. CommandKnows(c)'
    BY <1>1, IdleTyped DEF CommandKnows
  <1>3. /\ st_spawned' \in Seq(StackProcs) /\ st_live' \subseteq 1..Len(st_spawned')
        /\ st_orderly' \in BOOLEAN
    BY DEF StackInv, StackTypeOK
  <1> QED
    BY <1>1, <1>2, <1>3, IdleTyped, CommandStep

(* up starts the next process; the state is not written yet.               *)
LEMMA UpSpawnInv ==
    ASSUME StackInv, NEW c \in StackCommands, up_spawn(c)
    PROVE  StackInv'
  <1> DEFINE n == Len(st_spawned) + 1
             r == [st_cmd[c] EXCEPT !.pc = "probe", !.current = n]
             p == Target(c)
  <1>1. /\ st_cmd[c].pc = "up" /\ st_cmd[c].todo # {} /\ NotRunning(c)
        /\ st_cmd[c] \in StackCommand /\ st_cmd[c].todo \in SUBSET StackProcs
        /\ ~ Cyclic(st_cmd[c].todo)
        /\ st_spawned \in Seq(StackProcs) /\ st_live \subseteq 1..Len(st_spawned)
    BY CommandTyped DEF up_spawn, StackInv, StackTypeOK, TargetsOrdered
  <1>2. p \in StackProcs
    BY <1>1, TargetExists DEF StackInv, Target
  <1>3. /\ st_spawned' = Append(st_spawned, p) /\ Len(st_spawned') = n
        /\ st_spawned' \in Seq(StackProcs) /\ n \in Nat /\ st_spawned'[n] = p
        /\ \A i \in 1..Len(st_spawned) : st_spawned'[i] = st_spawned[i]
    BY <1>1, <1>2 DEF up_spawn
  <1>4. /\ st_live' = st_live \cup {n} /\ st_live' \subseteq 1..Len(st_spawned')
        /\ \A i \in st_live : i # n /\ st_spawned'[i] = st_spawned[i]
    BY <1>1, <1>3 DEF up_spawn
  <1>5. /\ r \in StackCommand /\ r.pc = "probe" /\ r.current = n
        /\ r.todo = st_cmd[c].todo /\ r.state = st_cmd[c].state
    BY <1>1, <1>3 DEF StackCommand
  <1>6. /\ st_cmd' = [st_cmd EXCEPT ![c] = r] /\ st_cmd'[c] = r
        /\ UNCHANGED <<st_deps, st_file, st_orderly>>
    BY <1>3 DEF up_spawn, StackInv, StackTypeOK
  <1>7. NextTarget(r.todo)' = NextTarget(st_cmd[c].todo)
    BY <1>5, <1>6 DEF NextTarget
  <1>8. Target(c)' = p
    BY <1>5, <1>6 DEF Target, NextTarget
  <1> HIDE DEF r, n, p
  <1>9. ASSUME st_orderly PROVE CommandKnows(c)'
    <2>1. AllRecorded(st_file, st_live) /\ AllRecorded(st_cmd[c].state, st_live)
      BY <1>1, <1>9 DEF StackInv, CommandKnows
    <2>2. \A i \in st_live : st_spawned[i] # p
      BY <1>1, <2>1 DEF NotRunning, AllRecorded, p
    <2>3. st_live' \ {n} = st_live
      BY <1>4
    <2>4. AllRecorded(st_file', st_live) /\ AllRecorded(r.state, st_live)
      BY <1>5, <1>6, <2>1
    <2>5. /\ \A i \in st_live : st_file'[st_spawned'[i]] = i /\ r.state[st_spawned'[i]] = i
          /\ \A i \in st_live : st_spawned'[i] # p
      BY <1>4, <1>5, <1>6, <2>1, <2>2 DEF AllRecorded
    <2>6. n \in 1..Len(st_spawned')
      BY <1>3 DEF n
    <2> QED
      BY <1>3, <1>5, <1>6, <1>8, <2>3, <2>5, <2>6 DEF CommandKnows, AllRecorded
  <1>10. st_orderly' \in BOOLEAN /\ st_file' \in StackStates /\ r.todo # {} /\ ~ Cyclic(r.todo)
    BY <1>1, <1>5, <1>6 DEF StackInv, StackTypeOK
  <1>11. r.pc # "idle" /\ st_cmd[c].pc # "idle"
    BY <1>1, <1>5
  <1> QED
    BY <1>3, <1>4, <1>5, <1>6, <1>9, <1>10, <1>11, CommandStep

(* up finds the process ready and writes the state.                        *)
LEMMA UpReadyInv ==
    ASSUME StackInv, NEW c \in StackCommands, up_ready(c)
    PROVE  StackInv'
  <1> DEFINE p == Target(c)
             state == [st_cmd[c].state EXCEPT ![p] = st_cmd[c].current]
             r == [st_cmd[c] EXCEPT !.pc = "up", !.state = state, !.todo = @ \ {p}]
  <1>1. /\ st_cmd[c].pc = "probe" /\ st_cmd[c].todo # {}
        /\ st_cmd[c] \in StackCommand /\ st_cmd[c].todo \in SUBSET StackProcs
        /\ st_cmd[c].state \in StackStates /\ st_cmd[c].current \in Nat
        /\ ~ Cyclic(st_cmd[c].todo)
    BY CommandTyped DEF up_ready, StackInv, TargetsOrdered
  <1>2. p \in StackProcs
    BY <1>1, TargetExists DEF StackInv, Target
  <1>3. state \in StackStates /\ state[p] = st_cmd[c].current
        /\ \A q \in StackProcs \ {p} : state[q] = st_cmd[c].state[q]
    BY <1>1, <1>2 DEF StackStates
  <1>4. /\ r \in StackCommand /\ r.pc = "up" /\ r.state = state
        /\ r.todo = st_cmd[c].todo \ {p}
    BY <1>1, <1>3 DEF StackCommand
  <1>5. /\ st_cmd' = [st_cmd EXCEPT ![c] = r] /\ st_cmd'[c] = r /\ st_file' = state
        /\ UNCHANGED <<st_deps, st_spawned, st_live, st_orderly>>
    BY DEF up_ready, Saved, StackInv, StackTypeOK
  <1>6. ~ Cyclic(r.todo)
    BY <1>1, <1>4, FewerNotCyclic
  <1> HIDE DEF r, state
  <1>7. ASSUME st_orderly PROVE CommandKnows(c)'
    <2>1. ASSUME NEW i \in st_live PROVE state[st_spawned[i]] = i
      <3>1. CASE i = st_cmd[c].current
        BY <1>1, <1>3, <1>7, <3>1 DEF StackInv, CommandKnows
      <3>2. CASE i # st_cmd[c].current
        <4>1. st_spawned[i] \in StackProcs
          BY DEF StackInv, StackTypeOK
        <4>2. st_spawned[i] # p /\ st_cmd[c].state[st_spawned[i]] = i
          BY <1>1, <1>7, <3>2 DEF StackInv, CommandKnows, AllRecorded
        <4> QED
          BY <1>3, <4>1, <4>2
      <3> QED
        BY <3>1, <3>2
    <2> QED
      BY <1>4, <1>5, <2>1 DEF CommandKnows, AllRecorded
  <1>8. /\ st_spawned' \in Seq(StackProcs) /\ st_live' \subseteq 1..Len(st_spawned')
        /\ st_orderly' \in BOOLEAN
    BY <1>5 DEF StackInv, StackTypeOK
  <1>9. r.pc # "idle" /\ r.pc # "probe" /\ st_cmd[c].pc # "idle"
    BY <1>1, <1>4
  <1> QED
    BY <1>3, <1>4, <1>5, <1>6, <1>7, <1>8, <1>9, CommandStep

(* down stops one process and strikes it from the state.                   *)
LEMMA DownOneInv ==
    ASSUME StackInv, NEW c \in StackCommands, NEW p \in StackProcs, down_one(c, p)
    PROVE  StackInv'
  <1> DEFINE state == [st_cmd[c].state EXCEPT ![p] = 0]
             r == [st_cmd[c] EXCEPT !.todo = @ \ {p}, !.state = state]
  <1>1. /\ st_cmd[c].pc = "down"
        /\ st_cmd[c] \in StackCommand /\ st_cmd[c].state \in StackStates
    BY CommandTyped DEF down_one, StackInv
  <1>2. /\ state \in StackStates
        /\ \A q \in StackProcs \ {p} : state[q] = st_cmd[c].state[q]
    BY <1>1 DEF StackStates
  <1>3. r \in StackCommand /\ r.pc = "down" /\ r.state = state
    BY <1>1, <1>2 DEF StackCommand
  <1>4. /\ st_cmd' = [st_cmd EXCEPT ![c] = r] /\ st_cmd'[c] = r
        /\ st_live' = st_live \ {st_cmd[c].state[p]}
        /\ UNCHANGED <<st_deps, st_file, st_spawned, st_orderly>>
    BY <1>1 DEF down_one, terminate_supervised_process, StackInv, StackTypeOK
  <1> HIDE DEF r, state
  <1>5. ASSUME st_orderly PROVE CommandKnows(c)'
    <2>1. AllRecorded(st_file, st_live) /\ AllRecorded(st_cmd[c].state, st_live)
      BY <1>1, <1>5 DEF StackInv, CommandKnows
    <2>2. ASSUME NEW i \in st_live' PROVE state[st_spawned[i]] = i
      <3>1. st_spawned[i] \in StackProcs /\ st_cmd[c].state[st_spawned[i]] = i
        BY <1>4, <2>1 DEF StackInv, StackTypeOK, AllRecorded
      <3>2. st_spawned[i] # p
        BY <1>4, <3>1
      <3> QED
        BY <1>2, <3>1, <3>2
    <2> QED
      BY <1>3, <1>4, <2>1, <2>2 DEF CommandKnows, AllRecorded
  <1>6. /\ st_file' \in StackStates /\ st_spawned' \in Seq(StackProcs)
        /\ st_live' \subseteq 1..Len(st_spawned') /\ st_orderly' \in BOOLEAN
    BY <1>4 DEF StackInv, StackTypeOK
  <1>7. r.pc \notin {"idle", "up", "probe"} /\ st_cmd[c].pc # "idle"
    BY <1>1, <1>3
  <1> QED
    BY <1>3, <1>4, <1>5, <1>6, <1>7, CommandStep

(* Processes that exit leave the records of the others right.              *)
LEMMA ExitInv ==
    ASSUME StackInv, st_live' \subseteq st_live,
           UNCHANGED <<st_deps, st_file, st_spawned, st_cmd, st_orderly>>
    PROVE  StackInv'
  <1>1. StackTypeOK' /\ TargetsOrdered'
    BY DEF StackInv, StackTypeOK, TargetsOrdered, Cyclic
  <1>2. ASSUME st_orderly'
        PROVE  /\ OneStackCommand' /\ \A b \in StackCommands : CommandKnows(b)'
               /\ Quiet' => AllRecorded(st_file, st_live)'
    <2>1. OneStackCommand' /\ (Quiet' => AllRecorded(st_file, st_live)')
      BY <1>2 DEF StackInv, OneStackCommand, Quiet, AllRecorded
    <2>2. \A c \in StackCommands : Target(c)' = Target(c)
      BY DEF Target, NextTarget
    <2>3. ASSUME NEW b \in StackCommands PROVE CommandKnows(b)'
      BY <1>2, <2>2 DEF StackInv, CommandKnows, AllRecorded
    <2> QED
      BY <2>1, <2>3
  <1> QED
    BY <1>1, <1>2 DEF StackInv

(* A command is killed, or fails to write the state.                       *)
LEMMA DiesInv ==
    ASSUME StackInv, NEW c \in StackCommands, CommandDies(c)
    PROVE  StackInv'
  <1>1. /\ st_cmd' = [st_cmd EXCEPT ![c] = IdleCommand]
        /\ st_orderly' = FALSE /\ UNCHANGED <<st_deps, st_file, st_spawned, st_live>>
    BY DEF CommandDies, End
  <1>2. /\ st_file' \in StackStates /\ st_spawned' \in Seq(StackProcs)
        /\ st_live' \subseteq 1..Len(st_spawned') /\ st_orderly' \in BOOLEAN /\ ~ st_orderly'
    BY <1>1 DEF StackInv, StackTypeOK
  <1> QED
    BY <1>1, <1>2, IdleTyped, CommandStep

(* Every step keeps the invariant of the stacks.                           *)
LEMMA StackStep == StackInv /\ [StackNext]_stack_vars => StackInv'
  <1> SUFFICES ASSUME StackInv, [StackNext]_stack_vars PROVE StackInv'
    OBVIOUS
  <1>1. ASSUME NEW c \in StackCommands, NEW names \in SUBSET StackProcs, up_begin(c, names)
        PROVE  StackInv'
    <2>1. WithDependencies(names) \in SUBSET StackProcs
      BY TargetsTyped DEF StackInv
    <2> QED
      BY <1>1, <2>1, BeginInv DEF up_begin
  <1>2. ASSUME NEW c \in StackCommands, NEW names \in SUBSET StackProcs, down_begin(c, names)
        PROVE  StackInv'
    <2> DEFINE todo == IF names = {} THEN {p \in StackProcs : load_state[p] # 0} ELSE names
    <2>1. todo \in SUBSET StackProcs /\ (names # {}) \in BOOLEAN
      OBVIOUS
    <2>2. Begin(c, "down", names # {}, todo)
      BY <1>2 DEF down_begin
    <2> HIDE DEF todo
    <2> QED
      BY <2>1, <2>2, BeginInv
  <1>3. ASSUME NEW c \in StackCommands,
               up_already_running(c) \/ up_cannot_spawn(c) \/ up_done(c)
                  \/ \E p \in StackProcs : down_not_running(c, p)
        PROVE  StackInv'
    <2>1. /\ st_cmd[c].pc \in {"up", "down"} /\ End(c)
          /\ UNCHANGED <<st_deps, st_file, st_spawned, st_live, st_orderly>>
      BY <1>3 DEF up_already_running, up_cannot_spawn, up_done, down_not_running
    <2>2. st_orderly => AllRecorded(st_file, st_live)'
      BY <2>1 DEF StackInv, CommandKnows, AllRecorded
    <2> QED
      BY <2>1, <2>2, EndStep DEF StackInv, StackTypeOK
  <1>4. ASSUME NEW c \in StackCommands, up_not_ready(c) PROVE StackInv'
    <2>1. /\ st_cmd[c].pc = "probe" /\ End(c) /\ st_live' = st_live \ {st_cmd[c].current}
          /\ UNCHANGED <<st_deps, st_file, st_spawned, st_orderly>>
      BY <1>4 DEF up_not_ready
    <2>2. st_orderly => AllRecorded(st_file, st_live)'
      BY <2>1 DEF StackInv, CommandKnows, AllRecorded
    <2> QED
      BY <2>1, <2>2, EndStep DEF StackInv, StackTypeOK
  <1>5. ASSUME NEW c \in StackCommands, down_save(c) PROVE StackInv'
    <2>1. /\ st_cmd[c].pc = "down" /\ End(c) /\ st_file' = st_cmd[c].state
          /\ UNCHANGED <<st_deps, st_spawned, st_live, st_orderly>>
      BY <1>5 DEF down_save
    <2>2. st_orderly => AllRecorded(st_file, st_live)'
      BY <2>1 DEF StackInv, CommandKnows, AllRecorded
    <2>3. st_file' \in StackStates
      BY <2>1, CommandTyped DEF StackInv
    <2> QED
      BY <2>1, <2>2, <2>3, EndStep
  <1>6. ASSUME NEW i \in st_live, ProcessExits(i) PROVE StackInv'
    BY <1>6, ExitInv DEF ProcessExits
  <1>7. CASE UNCHANGED stack_vars
    BY <1>7, ExitInv DEF stack_vars
  <1> QED
    BY <1>1, <1>2, <1>3, <1>4, <1>5, <1>6, <1>7, UpSpawnInv, UpReadyInv, DownOneInv, DiesInv
    DEF StackNext

(* For every set of processes, every dependency graph and any number of    *)
(* commands: commands that run one after the other never lose a process.   *)
THEOREM NothingForgotten == StackSpec => []NoneForgotten
  <1>1. StackInit => StackInv
    <2> SUFFICES ASSUME StackInit PROVE StackInv
      OBVIOUS
    <2>1. NoRecords \in StackStates /\ <<>> \in Seq(StackProcs)
      BY DEF NoRecords, StackStates
    <2>2. StackTypeOK
      BY <2>1, IdleTyped, StackAssumption DEF StackInit, StackTypeOK
    <2> QED
      BY <2>2, IdleTyped
      DEF StackInit, StackInv, TargetsOrdered, OneStackCommand, CommandKnows, AllRecorded
  <1>2. StackInv => NoneForgotten
    BY DEF StackInv, NoneForgotten, AllRecorded
  <1> QED
    BY <1>1, <1>2, StackStep, PTL DEF StackSpec

-----------------------------------------------------------------------------
(* Remote leaves                                                           *)

LeafPlaces == {"idle", "create", "decide", "submit", "remember", "poll", "finish", "fetch",
               "write", "lock", "stage", "clear"}

LeafTypeOK ==
    /\ rl_pc \in [Leaves -> LeafPlaces]
    /\ rl_mem \in [Leaves -> LeafReceipts]
    /\ rl_then \in [Leaves -> LeafSequels \cup {Unset}]
    /\ rl_file \in [Leaves -> LeafReceipts \cup {Unset, Torn}]
    /\ rl_worker \in [Leaves -> LeafAttempts \cup {Unset}]
    /\ rl_result \in [Leaves -> LeafCodes]
    /\ rl_passed \in [Leaves -> BOOLEAN]

(* The journal of an attempt ends with the terminal event once there is a  *)
(* code, with that code, and has no terminal event before.                 *)
AttemptSound(w) ==
    IF w.code = Unset THEN \A i \in 1..Len(w.journal) : ~ Terminal(w.journal[i])
    ELSE /\ w.journal # <<>>
         /\ Terminal(w.journal[Len(w.journal)])
         /\ w.journal[Len(w.journal)].code = w.code
         /\ w.journal[Len(w.journal)].kind = "cancelled" => w.code = 1

(* What a receipt says agrees with the attempt and with what was verified. *)
ReceiptSound(r, w, passed) ==
    /\ r.attempt => w # Unset
    /\ r.terminal = Unset /\ w # Unset =>
          /\ r.cursor <= Len(w.journal)
          /\ w.code # Unset => r.cursor < Len(w.journal)
    /\ r.terminal # Unset =>
          /\ w # Unset
          /\ r.code = w.code /\ w.code # Unset
          /\ r.terminal = "cancelled" => w.code = 1
    /\ r.hash_ok = TRUE => r.terminal # Unset /\ passed

(* Where the process of a leaf is, and what it has in memory there.        *)
PlaceSound(at, mem, then, file, w, passed, result) ==
    /\ at \in {"idle", "create", "decide", "submit"} => mem = seed_receipt
    /\ at \in {"remember", "poll", "finish", "fetch"} => mem.attempt
    /\ at \in {"remember", "poll"} => mem.terminal = Unset
    /\ at = "remember" => mem.cursor = 0
    /\ at \in {"finish", "fetch"} => mem.terminal # Unset /\ mem.hash_ok # TRUE
    /\ at = "fetch" => file = mem /\ then # Unset /\ then.result = Unset
    /\ at \in {"write", "lock", "stage", "clear"} => then # Unset
    /\ at \in {"write", "lock", "stage"} /\ then.pc = "fetch" =>
          mem.attempt /\ mem.terminal # Unset /\ mem.hash_ok # TRUE /\ then.result = Unset
    /\ at \in {"lock", "stage"} /\ then.pc = "fetch" => file = mem
    /\ then # Unset /\ then.result = 0 => w # Unset /\ w.code = 0 /\ passed
    /\ at # "idle" => result = Unset
    /\ result = 0 => w # Unset /\ w.code = 0 /\ passed

LeafSound(l) ==
    /\ rl_worker[l] # Unset => AttemptSound(rl_worker[l])
    /\ ReceiptSound(rl_mem[l], rl_worker[l], rl_passed[l])
    /\ rl_file[l] \notin {Unset, Torn} =>
          ReceiptSound(rl_file[l], rl_worker[l], rl_passed[l]) /\ rl_file[l].attempt
    /\ PlaceSound(rl_pc[l], rl_mem[l], rl_then[l], rl_file[l], rl_worker[l], rl_passed[l],
                  rl_result[l])

LeafInv == LeafTypeOK /\ \A l \in Leaves : LeafSound(l)


LeafFrame(l) ==
    \A k \in Leaves \ {l} :
        /\ rl_pc'[k] = rl_pc[k] /\ rl_mem'[k] = rl_mem[k] /\ rl_then'[k] = rl_then[k]
        /\ rl_file'[k] = rl_file[k] /\ rl_worker'[k] = rl_worker[k]
        /\ rl_result'[k] = rl_result[k] /\ rl_passed'[k] = rl_passed[k]

(* A step of one leaf is a step of that leaf only.                         *)
LEMMA LeafAlone ==
    ASSUME LeafInv, NEW l \in Leaves, LeafTypeOK', LeafSound(l)', LeafFrame(l)
    PROVE  LeafInv'
  <1> SUFFICES ASSUME NEW k \in Leaves, k # l PROVE LeafSound(k)'
    BY DEF LeafInv
  <1> QED
    BY DEF LeafInv, LeafSound, LeafFrame

(* The empty receipt says nothing.                                         *)
LEMMA SeedSound ==
    /\ seed_receipt \in LeafReceipts
    /\ \A passed : ReceiptSound(seed_receipt, Unset, passed)
    /\ \A w \in LeafAttempts : \A passed :
          AttemptSound(w) => ReceiptSound(seed_receipt, w, passed)
  <1>1. Unset # TRUE
    BY RemoteAssumption
  <1>2. seed_receipt \in LeafReceipts
    BY DEF seed_receipt, LeafReceipts, LeafCodes
  <1>3. ASSUME NEW passed PROVE ReceiptSound(seed_receipt, Unset, passed)
    BY <1>1 DEF ReceiptSound, seed_receipt
  <1>4. ASSUME NEW w \in LeafAttempts, NEW passed, AttemptSound(w)
        PROVE  ReceiptSound(seed_receipt, w, passed)
    <2>1. Len(w.journal) \in Nat /\ (w.code # Unset => 0 < Len(w.journal))
      BY <1>4 DEF AttemptSound, LeafAttempts
    <2>2. PICK n \in Nat : n = Len(w.journal)
      BY <2>1
    <2>3. seed_receipt.cursor <= n /\ (w.code # Unset => seed_receipt.cursor < n)
      BY <2>1, <2>2 DEF seed_receipt
    <2>4. /\ seed_receipt.attempt = FALSE /\ seed_receipt.terminal = Unset
          /\ ~ (seed_receipt.hash_ok = TRUE)
      BY <1>1 DEF seed_receipt
    <2> QED
      BY <2>2, <2>3, <2>4, Zenon DEF ReceiptSound
  <1> QED
    BY <1>2, <1>3, <1>4

(* A leaf that was never submitted satisfies the invariant.                *)
LEMMA RemoteStart == RemoteInit => LeafInv
  <1> SUFFICES ASSUME RemoteInit PROVE LeafInv
    OBVIOUS
  <1>1. LeafTypeOK
    BY SeedSound DEF RemoteInit, LeafTypeOK, ForAll, LeafPlaces, LeafCodes
  <1>2. ASSUME NEW l \in Leaves PROVE LeafSound(l)
    <2> Unset # 0
      BY RemoteAssumption
    <2> QED
      BY SeedSound DEF RemoteInit, LeafSound, ForAll, PlaceSound
  <1> QED
    BY <1>1, <1>2 DEF LeafInv

(* A run begins with an empty receipt.                                     *)
LEMMA BeginSound ==
    ASSUME LeafInv, NEW l \in Leaves, NEW b \in BOOLEAN, rl_begin(l, b)
    PROVE  LeafInv'
  <1> USE DEF LeafInv
  <1>1. LeafTypeOK' /\ LeafFrame(l)
    BY SeedSound DEF rl_begin, LeafTypeOK, LeafGoes, Receipt, LeafFrame, LeafPlaces, LeafCodes, rl_disk
  <1>2. LeafSound(l)'
    <2> Unset # 0
      BY RemoteAssumption
    <2> QED
      BY SeedSound DEF rl_begin, LeafTypeOK, LeafAt, LeafGoes, Receipt, LeafSound, PlaceSound, rl_disk
  <1> QED
    BY <1>1, <1>2, LeafAlone

(* An empty run.json is written unless one was seen.                       *)
LEMMA PointersSound ==
    ASSUME LeafInv, NEW l \in Leaves, attempt_pointers(l)
    PROVE  LeafInv'
  <1> USE DEF LeafInv
  <1>1. LeafTypeOK' /\ LeafFrame(l)
    BY DEF attempt_pointers, LeafTypeOK, LeafGoes, LeafFrame, LeafPlaces
  <1>2. LeafSound(l)'
    BY DEF attempt_pointers, LeafTypeOK, LeafAt, LeafGoes, LeafSound, PlaceSound
  <1> QED
    BY <1>1, <1>2, LeafAlone

(* The end of a process, with a result or without.                         *)
LEMMA EndSound ==
    ASSUME LeafInv, NEW l \in Leaves, Ends(l),
           UNCHANGED <<rl_file, rl_worker, rl_passed>>,
           NEW result \in LeafCodes, rl_result' = [rl_result EXCEPT ![l] = result],
           result = 0 => rl_worker[l] # Unset /\ rl_worker[l].code = 0 /\ rl_passed[l]
    PROVE  LeafInv'
  <1> USE DEF LeafInv
  <1>1. LeafTypeOK' /\ LeafFrame(l)
    BY SeedSound DEF LeafTypeOK, Ends, LeafGoes, LeafFrame, LeafPlaces
  <1>2. LeafSound(l)'
    BY ZenonT(60), SeedSound DEF LeafTypeOK, Ends, LeafGoes, LeafSound, PlaceSound
  <1> QED
    BY <1>1, <1>2, LeafAlone

(* What is saved decides: nothing to do, the attempt to follow, its        *)
(* outputs to fetch, or the task to submit.                                *)
LEMMA DecideSound ==
    ASSUME LeafInv, NEW l \in Leaves, rl_decide(l)
    PROVE  LeafInv'
  <1> USE DEF LeafInv
  <1> DEFINE saved == IF rl_reattach[l] THEN saved_receipt(l) ELSE Unset
             action == reattach_action(saved)
  <1>1. saved # Unset => saved = rl_file[l] /\ saved \notin {Unset, Torn}
    BY DEF saved_receipt
  <1>2. saved # Unset =>
          /\ saved \in LeafReceipts
          /\ ReceiptSound(saved, rl_worker[l], rl_passed[l])
          /\ saved.attempt
    BY <1>1 DEF LeafSound, LeafTypeOK
  <1>3. /\ action = "verify" => saved # Unset /\ saved.terminal # Unset
        /\ action = "follow" => saved # Unset /\ saved.terminal = Unset
    BY DEF reattach_action
  <1> HIDE DEF saved, action
  <1>4. rl_decide(l) =>
          /\ LeafAt(l, "decide")
          /\ UNCHANGED <<rl_file, rl_worker, rl_passed>>
          /\ \/ /\ action = "verify" /\ saved.hash_ok = TRUE
                /\ rl_result' = [rl_result EXCEPT ![l] = saved.code]
                /\ Ends(l)
             \/ /\ action \in {"verify", "follow"} /\ saved.hash_ok # TRUE
                /\ Receipt(l, saved)
                /\ LeafGoes(l, IF action = "verify" THEN "finish" ELSE "poll")
                /\ UNCHANGED <<rl_then, rl_result>>
             \/ /\ action = "submit" /\ LeafGoes(l, "submit")
                /\ UNCHANGED <<rl_mem, rl_then, rl_result>>
    BY DEF rl_decide, saved, action
  <1>5. CASE /\ action = "verify" /\ saved.hash_ok = TRUE
             /\ rl_result' = [rl_result EXCEPT ![l] = saved.code]
             /\ Ends(l)
    <2>1. saved.code \in LeafCodes /\ saved.code = rl_worker[l].code /\ rl_worker[l] # Unset /\ rl_passed[l]
      BY <1>2, <1>3, <1>5 DEF ReceiptSound, LeafReceipts
    <2> QED
      BY <1>4, <1>5, <2>1, EndSound
  <1>6. CASE /\ action \in {"verify", "follow"} /\ saved.hash_ok # TRUE
             /\ Receipt(l, saved)
             /\ LeafGoes(l, IF action = "verify" THEN "finish" ELSE "poll")
             /\ UNCHANGED <<rl_then, rl_result>>
    <2>1. LeafTypeOK' /\ LeafFrame(l)
      BY <1>2, <1>3, <1>4, <1>6 DEF LeafTypeOK, LeafGoes, LeafFrame, LeafPlaces, Receipt
    <2>2. LeafSound(l)'
      <3>1. /\ rl_mem'[l] = saved /\ rl_pc'[l] = IF action = "verify" THEN "finish" ELSE "poll"
            /\ rl_pc[l] = "decide"
            /\ UNCHANGED <<rl_then, rl_result, rl_file, rl_worker, rl_passed>>
        BY <1>4, <1>6 DEF LeafTypeOK, LeafGoes, Receipt, LeafAt
      <3> QED
        BY <3>1, <1>2, <1>3, <1>6 DEF LeafSound, PlaceSound
    <2> QED
      BY <2>1, <2>2, LeafAlone
  <1>7. CASE /\ action = "submit" /\ LeafGoes(l, "submit")
             /\ UNCHANGED <<rl_mem, rl_then, rl_result>>
    <2>1. LeafTypeOK' /\ LeafFrame(l)
      BY <1>4, <1>7 DEF LeafTypeOK, LeafGoes, LeafFrame, LeafPlaces
    <2>2. LeafSound(l)'
      BY <1>4, <1>7 DEF LeafTypeOK, LeafGoes, LeafSound, PlaceSound, LeafAt
    <2> QED
      BY <2>1, <2>2, LeafAlone
  <1> QED
    BY <1>4, <1>5, <1>6, <1>7

(* A receipt is about to be written; what follows is known.                *)
LEMMA WriteSound ==
    ASSUME LeafInv, NEW l \in Leaves, NEW r \in LeafReceipts, NEW next, NEW result \in LeafCodes,
           next \in {"idle", "fetch", "clear"}, Write(l, r, next, result),
           UNCHANGED <<rl_file, rl_result>>, rl_pc[l] # "idle",
           rl_worker' \in [Leaves -> LeafAttempts \cup {Unset}],
           rl_passed' \in [Leaves -> BOOLEAN],
           \A k \in Leaves \ {l} : rl_worker'[k] = rl_worker[k] /\ rl_passed'[k] = rl_passed[k],
           rl_worker'[l] # Unset => AttemptSound(rl_worker'[l]),
           ReceiptSound(r, rl_worker'[l], rl_passed'[l]),
           rl_file[l] \notin {Unset, Torn} => ReceiptSound(rl_file[l], rl_worker'[l], rl_passed'[l]),
           next = "fetch" => r.attempt /\ r.terminal # Unset /\ r.hash_ok # TRUE /\ result = Unset,
           result = 0 => rl_worker'[l] # Unset /\ rl_worker'[l].code = 0 /\ rl_passed'[l]
    PROVE  LeafInv'
  <1> USE DEF LeafInv
  <1> DEFINE then == [pc |-> next, result |-> result]
  <1>1. then \in LeafSequels /\ then # Unset /\ then.pc = next /\ then.result = result
    BY RemoteAssumption DEF LeafSequels
  <1>2. /\ rl_pc' = [rl_pc EXCEPT ![l] = "write"] /\ rl_mem' = [rl_mem EXCEPT ![l] = r]
        /\ rl_then' = [rl_then EXCEPT ![l] = then]
    BY DEF Write, LeafGoes, Receipt
  <1> HIDE DEF then
  <1>3. LeafTypeOK' /\ LeafFrame(l)
    BY <1>1, <1>2 DEF LeafTypeOK, LeafFrame, LeafPlaces
  <1>4. /\ rl_pc'[l] = "write" /\ rl_mem'[l] = r /\ rl_then'[l] = then
        /\ rl_result[l] = Unset /\ Unset # 0
    <2>1. rl_result[l] = Unset
      BY Zenon DEF LeafSound, PlaceSound
    <2> QED
      BY <1>2, <2>1, RemoteAssumption DEF LeafTypeOK
  <1>5. PlaceSound("write", r, then, rl_file[l], rl_worker'[l], rl_passed'[l], Unset)
    BY <1>1, <1>4 DEF PlaceSound
  <1>6. LeafSound(l)'
    BY <1>4, <1>5 DEF LeafSound
  <1> QED
    BY <1>3, <1>6, LeafAlone

(* An event that is appended leaves the receipts true.                     *)
LEMMA JournalGrows ==
    ASSUME NEW w \in LeafAttempts, AttemptSound(w), w.code = Unset,
           NEW e \in LeafEvents, NEW c \in LeafCodes,
           IF c = Unset THEN ~ Terminal(e)
           ELSE Terminal(e) /\ e.code = c /\ (e.kind = "cancelled" => c = 1),
           NEW v \in LeafAttempts, v.journal = Append(w.journal, e), v.code = c
    PROVE  /\ AttemptSound(v) /\ v # Unset
           /\ \A r \in LeafReceipts : \A passed :
                 ReceiptSound(r, w, passed) => ReceiptSound(r, v, passed)
  <1>1. w # Unset /\ v # Unset
    BY RemoteAssumption
  <1>2. /\ w.journal \in Seq(LeafEvents) /\ v.journal \in Seq(LeafEvents)
        /\ Len(w.journal) \in Nat /\ Len(v.journal) = Len(w.journal) + 1
        /\ v.journal[Len(w.journal) + 1] = e
        /\ \A i \in 1..Len(w.journal) : v.journal[i] = w.journal[i]
    BY DEF LeafAttempts
  <1>3. AttemptSound(v)
    <2>1. CASE c = Unset
      <3> SUFFICES ASSUME NEW i \in 1..Len(v.journal) PROVE ~ Terminal(v.journal[i])
        BY <2>1 DEF AttemptSound
      <3> QED
        BY <1>2, <2>1 DEF AttemptSound
    <2>2. CASE c # Unset
      <3>1. v.journal # <<>> /\ v.journal[Len(v.journal)] = e
        BY <1>2
      <3> QED
        BY <2>2, <3>1 DEF AttemptSound
    <2> QED
      BY <2>1, <2>2
  <1>4. ASSUME NEW r \in LeafReceipts, NEW passed, ReceiptSound(r, w, passed)
        PROVE  ReceiptSound(r, v, passed)
    <2>1. r.cursor \in Nat
      BY DEF LeafReceipts
    <2>2. r.terminal = Unset
      BY <1>4, Zenon DEF ReceiptSound
    <2>3. r.cursor <= Len(w.journal)
      BY <1>1, <1>4, <2>2, Zenon DEF ReceiptSound
    <2>4. r.cursor < Len(v.journal) /\ r.cursor <= Len(v.journal)
      BY <1>2, <2>1, <2>3
    <2> QED
      BY <1>1, <1>4, <2>2, <2>4, Zenon DEF ReceiptSound
  <1> QED
    BY <1>1, <1>3, <1>4

(* The worker checks the source out, or the task exits.                    *)
LEMMA WorkerSound ==
    ASSUME LeafInv, NEW l \in Leaves, worker_event(l)
    PROVE  LeafInv'
  <1> USE DEF LeafInv
  <1>1. /\ rl_worker[l] # Unset /\ rl_worker[l] \in LeafAttempts /\ rl_worker[l].code = Unset
        /\ AttemptSound(rl_worker[l])
        /\ rl_worker[l].journal \in Seq(LeafEvents)
        /\ UNCHANGED <<rl_pc, rl_mem, rl_then, rl_file, rl_result, rl_passed>>
    BY DEF worker_event, LeafTypeOK, LeafSound, LeafAttempts, rl_disk
  <1>2. PICK e \in LeafEvents, c \in LeafCodes :
          /\ IF c = Unset THEN ~ Terminal(e)
             ELSE Terminal(e) /\ e.code = c /\ (e.kind = "cancelled" => c = 1)
          /\ rl_worker' = [rl_worker EXCEPT ![l] =
                              [journal |-> Append(rl_worker[l].journal, e), code |-> c]]
    <2>1. CASE /\ rl_worker[l].journal = <<>>
               /\ rl_worker' = [rl_worker EXCEPT ![l].journal =
                                   <<[kind |-> "source", code |-> Unset]>>]
      <3> DEFINE e == [kind |-> "source", code |-> Unset]
      <3>1. e \in LeafEvents /\ ~ Terminal(e) /\ Unset \in LeafCodes
        BY DEF LeafEvents, LeafCodes, Terminal
      <3>2. Append(rl_worker[l].journal, e) = <<e>>
        BY <2>1
      <3>3. [rl_worker[l] EXCEPT !.journal = <<e>>] = [journal |-> <<e>>, code |-> Unset]
        BY <1>1 DEF LeafAttempts
      <3>4. rl_worker' = [rl_worker EXCEPT ![l] = [journal |-> <<e>>, code |-> Unset]]
        BY <2>1, <3>3
      <3> QED
        BY <3>1, <3>2, <3>4
    <2>2. ASSUME NEW c \in ExitCodes,
                 rl_worker' = [rl_worker EXCEPT ![l].code = c, ![l].journal =
                                  Append(@, [kind |-> "exited", code |-> c])]
          PROVE  \E e \in LeafEvents, d \in LeafCodes :
                    /\ IF d = Unset THEN ~ Terminal(e)
                       ELSE Terminal(e) /\ e.code = d /\ (e.kind = "cancelled" => d = 1)
                    /\ rl_worker' = [rl_worker EXCEPT ![l] =
                                        [journal |-> Append(rl_worker[l].journal, e), code |-> d]]
      <3> DEFINE e == [kind |-> "exited", code |-> c]
      <3>1. e \in LeafEvents /\ Terminal(e) /\ e.code = c /\ e.kind # "cancelled"
            /\ c \in LeafCodes /\ c # Unset
        BY RemoteAssumption DEF LeafEvents, LeafCodes, Terminal
      <3>2. rl_worker' = [rl_worker EXCEPT ![l] =
                             [journal |-> Append(rl_worker[l].journal, e), code |-> c]]
        BY <1>1, <2>2 DEF LeafAttempts, LeafTypeOK
      <3> QED
        BY <3>1, <3>2
    <2> QED
      BY <2>1, <2>2 DEF worker_event
  <1> DEFINE v == [journal |-> Append(rl_worker[l].journal, e), code |-> c]
  <1>3. v \in LeafAttempts /\ v.journal = Append(rl_worker[l].journal, e) /\ v.code = c
    BY <1>1 DEF LeafAttempts
  <1> HIDE DEF v
  <1>4. /\ AttemptSound(v) /\ v # Unset
        /\ \A r \in LeafReceipts : \A passed :
              ReceiptSound(r, rl_worker[l], passed) => ReceiptSound(r, v, passed)
    BY <1>1, <1>2, <1>3, JournalGrows
  <1>5. rl_worker' = [rl_worker EXCEPT ![l] = v]
    BY <1>2 DEF v
  <1>6. LeafTypeOK' /\ LeafFrame(l)
    BY <1>1, <1>3, <1>5 DEF LeafTypeOK, LeafFrame
  <1>7. rl_worker'[l] = v
    BY <1>5 DEF LeafTypeOK
  <1>8. LeafSound(l)'
    <2>1. /\ ReceiptSound(rl_mem[l], v, rl_passed[l])
          /\ rl_file[l] \notin {Unset, Torn} => ReceiptSound(rl_file[l], v, rl_passed[l])
      BY <1>4 DEF LeafTypeOK, LeafSound
    <2>2. PlaceSound(rl_pc[l], rl_mem[l], rl_then[l], rl_file[l], v, rl_passed[l], rl_result[l])
      <3>1. PlaceSound(rl_pc[l], rl_mem[l], rl_then[l], rl_file[l], rl_worker[l],
                       rl_passed[l], rl_result[l])
        BY DEF LeafSound
      <3>2. Unset # 0
        BY RemoteAssumption
      <3> QED
        BY <1>1, <3>1, <3>2, Zenon DEF PlaceSound
    <2> QED
      BY <1>1, <1>4, <1>7, <2>1, <2>2 DEF LeafSound
  <1> QED
    BY <1>6, <1>8, LeafAlone

(* Submitting, whether the answer arrives or is lost.                      *)
LEMMA SubmitSound ==
    ASSUME LeafInv, NEW l \in Leaves, NEW answer \in {"attempt", "lost", "empty"},
           rl_submit(l, answer)
    PROVE  LeafInv'
  <1> USE DEF LeafInv
  <1> DEFINE fresh == [journal |-> <<>>, code |-> Unset]
             w == IF rl_worker[l] = Unset /\ answer # "empty" THEN fresh ELSE rl_worker[l]
  <1>1. /\ fresh \in LeafAttempts /\ fresh # Unset /\ AttemptSound(fresh)
    <2>1. fresh \in LeafAttempts
      BY DEF LeafAttempts, LeafCodes
    <2> QED
      BY <2>1, RemoteAssumption DEF AttemptSound
  <1>2. /\ rl_worker' = [rl_worker EXCEPT ![l] = w] /\ rl_pc[l] = "submit"
        /\ UNCHANGED <<rl_file, rl_passed>>
    BY DEF rl_submit, LeafAt, rl_disk
  <1>3. /\ w \in LeafAttempts \cup {Unset} /\ (w # Unset => AttemptSound(w))
        /\ answer # "empty" => w # Unset
        /\ rl_worker[l] # Unset => w = rl_worker[l]
    BY <1>1 DEF LeafTypeOK, LeafSound
  <1> HIDE DEF fresh, w
  <1>4. /\ rl_worker' \in [Leaves -> LeafAttempts \cup {Unset}] /\ rl_worker'[l] = w
        /\ \A k \in Leaves \ {l} : rl_worker'[k] = rl_worker[k] /\ rl_passed'[k] = rl_passed[k]
        /\ rl_passed' \in [Leaves -> BOOLEAN]
    BY <1>2, <1>3 DEF LeafTypeOK
  <1>5. rl_mem[l] = seed_receipt /\ rl_result[l] = Unset
    BY <1>2 DEF LeafSound, PlaceSound
  <1>6. ReceiptSound(seed_receipt, w, rl_passed[l])
    BY <1>3, SeedSound
  <1>7. rl_file[l] \notin {Unset, Torn} =>
           ReceiptSound(rl_file[l], w, rl_passed[l]) /\ rl_file[l].attempt
    <2>1. rl_file[l] \notin {Unset, Torn} =>
             /\ ReceiptSound(rl_file[l], rl_worker[l], rl_passed[l]) /\ rl_file[l].attempt
             /\ rl_worker[l] # Unset
      BY DEF LeafSound, ReceiptSound
    <2> QED
      BY <1>3, <2>1
  <1>8. Unset # 0 /\ Unset \in LeafCodes
    BY RemoteAssumption DEF LeafCodes
  <1>9. CASE /\ answer = "attempt"
             /\ Receipt(l, [rl_mem[l] EXCEPT !.attempt = TRUE]) /\ LeafGoes(l, "remember")
             /\ UNCHANGED <<rl_then, rl_result, rl_faults>>
    <2> DEFINE r == [rl_mem[l] EXCEPT !.attempt = TRUE]
    <2>1. /\ r \in LeafReceipts /\ r.attempt /\ r.terminal = Unset /\ r.cursor = 0
          /\ r.hash_ok = Unset
      <3>1. r = [attempt |-> TRUE, cursor |-> 0, terminal |-> Unset, code |-> Unset,
                 hash_ok |-> Unset, cancelled |-> FALSE]
        <4>1. r = [seed_receipt EXCEPT !.attempt = TRUE]
          BY <1>5
        <4> HIDE DEF r
        <4> QED
          BY <4>1 DEF seed_receipt
      <3> HIDE DEF r
      <3> QED
        BY <3>1 DEF LeafReceipts, LeafCodes
    <2> HIDE DEF r
    <2>2. ReceiptSound(r, w, rl_passed[l])
      <3>1. w # Unset /\ AttemptSound(w) /\ w \in LeafAttempts
        BY <1>3, <1>9
      <3>2. Len(w.journal) \in Nat /\ (w.code # Unset => 0 < Len(w.journal))
        BY <3>1 DEF AttemptSound, LeafAttempts
      <3>3. r.cursor <= Len(w.journal) /\ (w.code # Unset => r.cursor < Len(w.journal))
        BY <2>1, <3>2
      <3>4. ~ (r.hash_ok = TRUE)
        BY <2>1, RemoteAssumption
      <3> QED
        BY <2>1, <3>1, <3>3, <3>4, Zenon DEF ReceiptSound
    <2>3. /\ rl_mem' = [rl_mem EXCEPT ![l] = r] /\ rl_pc' = [rl_pc EXCEPT ![l] = "remember"]
          /\ UNCHANGED <<rl_then, rl_result>>
      BY <1>9 DEF Receipt, LeafGoes, r
    <2>4. LeafTypeOK' /\ LeafFrame(l)
      BY <1>2, <1>4, <2>1, <2>3 DEF LeafTypeOK, LeafFrame, LeafPlaces
    <2>5. LeafSound(l)'
      <3>1. /\ rl_mem'[l] = r /\ rl_pc'[l] = "remember" /\ rl_then'[l] = rl_then[l]
            /\ rl_result'[l] = Unset /\ rl_file'[l] = rl_file[l] /\ rl_passed'[l] = rl_passed[l]
        BY <1>2, <1>5, <2>3 DEF LeafTypeOK
      <3>2. rl_then[l] # Unset /\ rl_then[l].result = 0 =>
              rl_worker[l] # Unset /\ rl_worker[l].code = 0 /\ rl_passed[l]
        BY DEF LeafSound, PlaceSound
      <3>3. PlaceSound("remember", r, rl_then[l], rl_file[l], w, rl_passed[l], Unset)
        BY <1>3, <1>8, <2>1, <3>2 DEF PlaceSound
      <3> QED
        BY <1>3, <1>4, <1>7, <2>2, <3>1, <3>3 DEF LeafSound
    <2> QED
      BY <2>4, <2>5, LeafAlone
  <1>10. CASE /\ answer = "lost" /\ Ends(l)
              /\ rl_result' = [rl_result EXCEPT ![l] = PROCESS_SUPERVISION]
    <2>1. /\ rl_mem' = [rl_mem EXCEPT ![l] = seed_receipt] /\ rl_pc' = [rl_pc EXCEPT ![l] = "idle"]
          /\ rl_then' = [rl_then EXCEPT ![l] = Unset]
          /\ rl_result' = [rl_result EXCEPT ![l] = 9]
      BY <1>10 DEF Ends, LeafGoes, PROCESS_SUPERVISION
    <2>2. LeafTypeOK' /\ LeafFrame(l)
      BY <1>2, <1>4, <2>1, SeedSound DEF LeafTypeOK, LeafFrame, LeafPlaces, LeafCodes
    <2>3. /\ rl_mem'[l] = seed_receipt /\ rl_pc'[l] = "idle" /\ rl_then'[l] = Unset
          /\ rl_result'[l] = 9 /\ rl_file'[l] = rl_file[l] /\ rl_passed'[l] = rl_passed[l]
      BY <1>2, <2>1 DEF LeafTypeOK
    <2>4. PlaceSound("idle", seed_receipt, Unset, rl_file[l], w, rl_passed[l], 9)
      BY <1>8 DEF PlaceSound
    <2>5. LeafSound(l)'
      BY <1>3, <1>4, <1>6, <1>7, <2>3, <2>4 DEF LeafSound
    <2> QED
      BY <2>2, <2>5, LeafAlone
  <1>11. CASE answer = "empty" /\ Write(l, rl_mem[l], "idle", PROCESS_SUPERVISION) /\ UNCHANGED rl_result
    <2>1. PROCESS_SUPERVISION \in LeafCodes /\ PROCESS_SUPERVISION # 0
      BY DEF PROCESS_SUPERVISION, LeafCodes
    <2> QED
      BY <1>2, <1>3, <1>4, <1>5, <1>6, <1>7, <1>11, <2>1, WriteSound, SeedSound
  <1> QED
    BY <1>9, <1>10, <1>11 DEF rl_submit

(* The pointer to the attempt is renamed into place.                       *)
LEMMA RememberSound ==
    ASSUME LeafInv, NEW l \in Leaves, NEW stop \in BOOLEAN, remember_attempts(l, stop)
    PROVE  LeafInv'
  <1> USE DEF LeafInv
  <1>1. /\ rl_pc[l] = "remember" /\ UNCHANGED <<rl_file, rl_worker, rl_result, rl_passed>>
        /\ rl_mem[l].attempt /\ rl_mem[l].terminal = Unset
        /\ ReceiptSound(rl_mem[l], rl_worker[l], rl_passed[l])
        /\ rl_mem[l] \in LeafReceipts
    BY DEF remember_attempts, LeafAt, LeafTypeOK, LeafSound, PlaceSound
  <1>2. CASE stop
    <2>1. Write(l, rl_mem[l], "idle", ADMITTED) /\ ADMITTED \in LeafCodes /\ ADMITTED # 0
      BY <1>2 DEF remember_attempts, ADMITTED, LeafCodes
    <2> QED
      BY <1>1, <2>1, WriteSound DEF LeafTypeOK, LeafSound
  <1>3. CASE ~ stop
    <2>1. rl_pc' = [rl_pc EXCEPT ![l] = "poll"] /\ UNCHANGED <<rl_mem, rl_then>>
      BY <1>3 DEF remember_attempts, LeafGoes
    <2>2. LeafTypeOK' /\ LeafFrame(l)
      BY <1>1, <2>1 DEF LeafTypeOK, LeafFrame, LeafPlaces
    <2>3. rl_pc'[l] = "poll"
      BY <2>1 DEF LeafTypeOK
    <2>4. LeafSound(l)'
      BY <1>1, <2>1, <2>3 DEF LeafSound, PlaceSound
    <2> QED
      BY <2>2, <2>4, LeafAlone
  <1> QED
    BY <1>2, <1>3

(* The elements of a sequence from a position to its end.                  *)
LEMMA Remainder ==
    ASSUME NEW S, NEW s \in Seq(S), NEW c \in Nat, c <= Len(s)
    PROVE  /\ Len(SubSeq(s, c + 1, Len(s))) = Len(s) - c
           /\ c < Len(s) => /\ SubSeq(s, c + 1, Len(s)) # <<>>
                            /\ SubSeq(s, c + 1, Len(s))[Len(s) - c] = s[Len(s)]
                            /\ s[Len(s)] \in S
           /\ c = Len(s) => SubSeq(s, c + 1, Len(s)) = <<>>
  <1>1. PICK n \in Nat : n = Len(s)
    OBVIOUS
  <1>2. PICK p : p = SubSeq(s, c + 1, n)
    OBVIOUS
  <1>3. p \in Seq(S) /\ Len(p) = n - c /\ \A i \in 1..(n - c) : p[i] = s[c + i]
    <2>1. PICK m \in Int : m = c + 1
      OBVIOUS
    <2>2. n \in Int /\ \A i \in m..n : s[i] \in S
      BY <1>1, <2>1
    <2>3. p = SubSeq(s, m, n)
      BY <1>2, <2>1, Zenon
    <2>4. /\ p \in Seq(S)
          /\ Len(p) = IF m <= n THEN n - m + 1 ELSE 0
          /\ \A i \in 1..(n - m + 1) : p[i] = s[m + i - 1]
      BY <2>2, <2>3, SubSeqProperties
    <2>5. c <= n
      BY <1>1
    <2>6. Len(p) = n - c
      BY <2>1, <2>4, <2>5
    <2>7. ASSUME NEW i \in 1..(n - c) PROVE p[i] = s[c + i]
      <3>1. i \in 1..(n - m + 1) /\ m + i - 1 = c + i
        BY <2>1
      <3> QED
        BY <2>4, <3>1
    <2> QED
      BY <2>4, <2>6, <2>7
  <1>4. ASSUME c < n PROVE p # <<>> /\ p[n - c] = s[n] /\ s[n] \in S
    <2>1. PICK m \in 1..n : m = n - c
      BY <1>4
    <2>2. c + m = n /\ m \in 1..(n - c) /\ n \in 1..n /\ m # 0
      BY <2>1
    <2>3. p[m] = s[c + m]
      BY <1>3, <2>2
    <2>4. s[n] \in S
      BY <1>1, <2>2
    <2>5. p # <<>>
      BY <1>3, <2>1
    <2> QED
      BY <2>1, <2>2, <2>3, <2>4, <2>5
  <1>5. c = n => p = <<>>
    BY <1>3
  <1> QED
    BY <1>1, <1>2, <1>3, <1>4, <1>5

(* What a page of the journal says: the terminal event, if the attempt has *)
(* ended, and otherwise nothing of it.                                     *)
LEMMA JournalPage ==
    ASSUME NEW w \in LeafAttempts, AttemptSound(w), NEW c \in Nat, c <= Len(w.journal),
           w.code # Unset => c < Len(w.journal)
    PROVE  \A page, last :
             /\ page = SubSeq(w.journal, c + 1, Len(w.journal))
             /\ last = IF page = <<>> THEN Unset ELSE page[Len(page)]
             => /\ journal_cursor(c, page) = Len(w.journal)
                /\ IF w.code = Unset THEN ~ (last # Unset /\ Terminal(last))
                   ELSE /\ last # Unset /\ Terminal(last) /\ last.code = w.code
                        /\ last.kind = "cancelled" => w.code = 1
  <1> SUFFICES ASSUME NEW page, page = SubSeq(w.journal, c + 1, Len(w.journal)),
                      NEW last, last = IF page = <<>> THEN Unset ELSE page[Len(page)]
               PROVE  /\ journal_cursor(c, page) = Len(w.journal)
                      /\ IF w.code = Unset THEN ~ (last # Unset /\ Terminal(last))
                         ELSE /\ last # Unset /\ Terminal(last) /\ last.code = w.code
                              /\ last.kind = "cancelled" => w.code = 1
    BY Zenon
  <1>1. PICK s \in Seq(LeafEvents) : s = w.journal
    BY DEF LeafAttempts
  <1>2. PICK n \in Nat : n = Len(s)
    OBVIOUS
  <1>3. c <= n /\ (w.code # Unset => c < n)
    BY <1>1, <1>2
  <1>5. PICK q : q = SubSeq(s, c + 1, Len(s))
    OBVIOUS
  <1>4. /\ Len(q) = n - c
        /\ c < n => q # <<>> /\ q[n - c] = s[n] /\ s[n] \in LeafEvents
        /\ c = n => q = <<>>
    BY <1>1, <1>2, <1>3, <1>5, Remainder
  <1>6. page = q
    BY <1>1, <1>5, Zenon
  <1>9. journal_cursor(c, page) = n
    BY SMTT(60), <1>3, <1>4, <1>6 DEF journal_cursor
  <1>7. CASE c = n
    <2>1. page = <<>>
      BY <1>4, <1>6, <1>7, Zenon
    <2>2. ~ (last # Unset)
      BY <2>1, Zenon
    <2>3. w.code = Unset
      BY <1>3, <1>7
    <2> QED
      BY <1>1, <1>2, <1>9, <2>2, <2>3, Zenon
  <1>8. CASE c < n
    <2>1. page # <<>> /\ page[Len(page)] = s[n] /\ s[n] \in LeafEvents
      BY <1>4, <1>6, <1>8, Zenon
    <2>2. n \in 1..n /\ n # 0
      BY <1>8
    <2>5. last = s[n] /\ s[n] \in LeafEvents
      BY <2>1, Zenon
    <2>6. CASE w.code = Unset
      <3>1. ~ Terminal(last)
        BY <1>1, <1>2, <2>2, <2>5, <2>6 DEF AttemptSound
      <3> QED
        BY <1>1, <1>2, <1>9, <2>6, <3>1, Zenon
    <2>7. CASE w.code # Unset
      <3>1. Terminal(last) /\ last.code = w.code /\ (last.kind = "cancelled" => w.code = 1)
        BY <1>1, <1>2, <2>5, <2>7 DEF AttemptSound
      <3>2. last # Unset
        BY <2>5, RemoteAssumption
      <3> QED
        BY <1>1, <1>2, <1>9, <2>7, <3>1, <3>2, Zenon
    <2> QED
      BY <2>6, <2>7
  <1>10. c = n \/ c < n
    BY <1>3
  <1> QED
    BY <1>7, <1>8, <1>10, Zenon

(* A page of the attempt's events, the terminal one among them or not.     *)
LEMMA CollectSound ==
    ASSUME LeafInv, NEW l \in Leaves, collect_journal(l)
    PROVE  LeafInv'
  <1> USE DEF LeafInv
  <1>1. rl_pc[l] = "poll" /\ UNCHANGED <<rl_then, rl_file, rl_worker, rl_result, rl_passed>>
    BY DEF collect_journal, LeafAt, rl_disk
  <1>2. /\ rl_mem[l].attempt /\ rl_mem[l].terminal = Unset
        /\ ReceiptSound(rl_mem[l], rl_worker[l], rl_passed[l]) /\ rl_result[l] = Unset
    BY <1>1 DEF LeafSound, PlaceSound
  <1>3. rl_worker[l] # Unset /\ AttemptSound(rl_worker[l])
    BY <1>2 DEF LeafSound, ReceiptSound
  <1>4. PICK r \in LeafReceipts : r = rl_mem[l]
    BY DEF LeafTypeOK
  <1>5. PICK w \in LeafAttempts : w = rl_worker[l]
    BY <1>3 DEF LeafTypeOK
  <1>6. /\ r.cursor \in Nat /\ r.cursor <= Len(w.journal)
        /\ w.code # Unset => r.cursor < Len(w.journal)
        /\ ~ (r.hash_ok = TRUE)
    <2>1. r.cursor \in Nat
      BY DEF LeafReceipts
    <2> QED
      BY <2>1, <1>2, <1>3, <1>4, <1>5, Zenon DEF ReceiptSound
  <1>7. PICK page : page = SubSeq(w.journal, r.cursor + 1, Len(w.journal))
    OBVIOUS
  <1>8. PICK last : last = IF page = <<>> THEN Unset ELSE page[Len(page)]
    OBVIOUS
  <1>9. /\ journal_cursor(r.cursor, page) = Len(w.journal)
        /\ IF w.code = Unset THEN ~ (last # Unset /\ Terminal(last))
           ELSE /\ last # Unset /\ Terminal(last) /\ last.code = w.code
                /\ last.kind = "cancelled" => w.code = 1
    <2>1. AttemptSound(w)
      BY <1>3, <1>5
    <2> QED
      <3>1. PICK c \in Nat : c = r.cursor
        BY <1>6
      <3>2. c <= Len(w.journal) /\ (w.code # Unset => c < Len(w.journal))
        BY <1>6, <3>1
      <3>3. /\ page = SubSeq(w.journal, c + 1, Len(w.journal))
            /\ last = IF page = <<>> THEN Unset ELSE page[Len(page)]
        BY <1>7, <1>8, <3>1, Zenon
      <3>4. \A p, q :
             /\ p = SubSeq(w.journal, c + 1, Len(w.journal))
             /\ q = IF p = <<>> THEN Unset ELSE p[Len(p)]
             => /\ journal_cursor(c, p) = Len(w.journal)
                /\ IF w.code = Unset THEN ~ (q # Unset /\ Terminal(q))
                   ELSE /\ q # Unset /\ Terminal(q) /\ q.code = w.code
                        /\ q.kind = "cancelled" => w.code = 1
        BY <2>1, <3>2, JournalPage, Zenon
      <3> QED
        BY <3>1, <3>3, <3>4, Zenon
  <1> DEFINE ended == [r EXCEPT !.cursor = Len(w.journal), !.terminal = last.kind,
                                !.code = last.code]
             moved == [r EXCEPT !.cursor = Len(w.journal)]
  <1>10. IF last # Unset /\ Terminal(last)
         THEN Receipt(l, ended) /\ LeafGoes(l, "finish")
         ELSE Receipt(l, moved) /\ UNCHANGED rl_pc
    BY <1>4, <1>5, <1>7, <1>8, <1>9, Zenon DEF collect_journal
  <1>11. rl_then[l] # Unset /\ rl_then[l].result = 0 => w # Unset /\ w.code = 0 /\ rl_passed[l]
    BY <1>5 DEF LeafSound, PlaceSound
  <1>12. Unset # 0 /\ Unset \notin {"exited", "cancelled"}
    BY RemoteAssumption
  <1>13. Len(w.journal) \in Nat /\ w.code \in LeafCodes /\ w # Unset
    BY <1>3, <1>5 DEF LeafAttempts
  <1>14. CASE w.code # Unset
    <2>1. last.kind \in {"exited", "cancelled"}
      BY <1>9, <1>14 DEF Terminal
    <2>2. /\ ended.attempt = r.attempt /\ ended.terminal = last.kind /\ ended.code = w.code
          /\ ended.hash_ok = r.hash_ok /\ ended \in LeafReceipts
      BY <1>9, <1>13, <1>14, <2>1 DEF LeafReceipts
    <2> HIDE DEF ended
    <2>3. ReceiptSound(ended, w, rl_passed[l])
      BY <1>6, <1>9, <1>12, <1>13, <1>14, <2>1, <2>2, Zenon DEF ReceiptSound
    <2>4. rl_mem' = [rl_mem EXCEPT ![l] = ended] /\ rl_pc' = [rl_pc EXCEPT ![l] = "finish"]
      BY <1>9, <1>10, <1>14 DEF Receipt, LeafGoes
    <2>5. LeafTypeOK' /\ LeafFrame(l)
      BY <1>1, <2>2, <2>4 DEF LeafTypeOK, LeafFrame, LeafPlaces
    <2>6. rl_mem'[l] = ended /\ rl_pc'[l] = "finish"
      BY <2>4 DEF LeafTypeOK
    <2>7. ended.terminal # Unset /\ ended.attempt
      BY <1>2, <1>4, <1>12, <2>1, <2>2
    <2>8. PlaceSound("finish", ended, rl_then[l], rl_file[l], w, rl_passed[l], Unset)
      BY <1>6, <1>11, <1>12, <2>2, <2>7, Zenon DEF PlaceSound
    <2>9. LeafSound(l)'
      BY <1>1, <1>2, <1>3, <1>5, <2>3, <2>6, <2>8 DEF LeafSound
    <2> QED
      BY <2>5, <2>9, LeafAlone
  <1>15. CASE w.code = Unset
    <2>1. /\ moved.attempt = r.attempt /\ moved.terminal = r.terminal
          /\ moved.cursor = Len(w.journal)
          /\ moved.hash_ok = r.hash_ok /\ moved \in LeafReceipts
      BY <1>13 DEF LeafReceipts
    <2> HIDE DEF moved
    <2>2. ReceiptSound(moved, w, rl_passed[l])
      <3>1. moved.cursor <= Len(w.journal) /\ moved.terminal = Unset
        BY <1>2, <1>4, <1>13, <2>1
      <3> QED
        BY <1>6, <1>13, <1>15, <2>1, <3>1, Zenon DEF ReceiptSound
    <2>3. rl_mem' = [rl_mem EXCEPT ![l] = moved] /\ rl_pc' = rl_pc
      BY <1>9, <1>10, <1>15 DEF Receipt
    <2>4. LeafTypeOK' /\ LeafFrame(l)
      BY <1>1, <2>1, <2>3 DEF LeafTypeOK, LeafFrame
    <2>5. rl_mem'[l] = moved /\ rl_pc'[l] = "poll"
      BY <1>1, <2>3 DEF LeafTypeOK
    <2>6. moved.terminal = Unset /\ moved.attempt
      BY <1>2, <1>4, <2>1
    <2>7. PlaceSound("poll", moved, rl_then[l], rl_file[l], w, rl_passed[l], Unset)
      BY <1>11, <1>12, <2>6, Zenon DEF PlaceSound
    <2>8. LeafSound(l)'
      BY <1>1, <1>2, <1>3, <1>5, <2>2, <2>5, <2>7 DEF LeafSound
    <2> QED
      BY <2>4, <2>8, LeafAlone
  <1> QED
    BY SMTT(60), <1>14, <1>15

(* The process has an error, a deadline or a result to write down.         *)
LEMMA ErrorSound ==
    ASSUME LeafInv, NEW l \in Leaves, collect_journal_error(l)
    PROVE  LeafInv'
  <1>1. /\ rl_pc[l] = "poll" /\ UNCHANGED <<rl_file, rl_worker, rl_result, rl_passed>>
        /\ Write(l, rl_mem[l], "idle", PROCESS_SUPERVISION)
    BY DEF collect_journal_error, LeafAt, rl_disk
  <1>2. PROCESS_SUPERVISION \in LeafCodes /\ PROCESS_SUPERVISION # 0
    BY DEF PROCESS_SUPERVISION, LeafCodes
  <1> QED
    BY <1>1, <1>2, WriteSound DEF LeafInv, LeafTypeOK, LeafSound

(* The deadline: the attempt is cancelled if the request arrives.          *)
LEMMA DeadlineSound ==
    ASSUME LeafInv, NEW l \in Leaves, NEW arrives \in BOOLEAN, rl_deadline(l, arrives)
    PROVE  LeafInv'
  <1> USE DEF LeafInv
  <1>1. /\ rl_pc[l] = "poll" /\ UNCHANGED <<rl_file, rl_result, rl_passed>>
        /\ Write(l, [rl_mem[l] EXCEPT !.cancelled = TRUE], "clear", TIMED_OUT)
    BY DEF rl_deadline, LeafAt, rl_disk
  <1>2. /\ rl_mem[l].attempt /\ ReceiptSound(rl_mem[l], rl_worker[l], rl_passed[l])
    BY <1>1 DEF LeafSound, PlaceSound
  <1>3. rl_worker[l] # Unset /\ AttemptSound(rl_worker[l])
    BY <1>2 DEF LeafSound, ReceiptSound
  <1>4. PICK w \in LeafAttempts : w = rl_worker[l]
    BY <1>3 DEF LeafTypeOK
  <1>5. PICK v \in LeafAttempts :
          /\ rl_worker' = [rl_worker EXCEPT ![l] = v]
          /\ AttemptSound(v) /\ v # Unset
          /\ \A r \in LeafReceipts : \A passed :
                ReceiptSound(r, w, passed) => ReceiptSound(r, v, passed)
    <2>1. CASE arrives /\ rl_worker[l].code = Unset
      <3> DEFINE e == [kind |-> "cancelled", code |-> 1]
                 v == [journal |-> Append(w.journal, e), code |-> 1]
      <3>1. e \in LeafEvents /\ Terminal(e) /\ e.code = 1 /\ 1 \in LeafCodes /\ 1 # Unset
        BY RemoteAssumption DEF LeafEvents, LeafCodes, Terminal
      <3>2. v \in LeafAttempts /\ v.journal = Append(w.journal, e) /\ v.code = 1
        BY <3>1 DEF LeafAttempts
      <3>3. rl_worker' = [rl_worker EXCEPT ![l] = v]
        BY <2>1, <1>4 DEF rl_deadline, LeafAttempts, LeafTypeOK
      <3> HIDE DEF e, v
      <3>4. AttemptSound(w) /\ w.code = Unset
        BY <1>3, <1>4, <2>1
      <3> QED
        BY <3>1, <3>2, <3>3, <3>4, JournalGrows
    <2>2. CASE ~ (arrives /\ rl_worker[l].code = Unset)
      <3>1. rl_worker' = [rl_worker EXCEPT ![l] = w]
        BY <1>4, <2>2 DEF rl_deadline, LeafTypeOK
      <3> QED
        BY <1>3, <1>4, <3>1
    <2> QED
      BY <2>1, <2>2
  <1>6. PICK m \in LeafReceipts : m = rl_mem[l]
    BY DEF LeafTypeOK
  <1>7. PICK r \in LeafReceipts : r = [m EXCEPT !.cancelled = TRUE]
    BY DEF LeafReceipts
  <1>8. /\ r.attempt = m.attempt /\ r.cursor = m.cursor /\ r.terminal = m.terminal
        /\ r.code = m.code /\ r.hash_ok = m.hash_ok
    BY <1>7 DEF LeafReceipts
  <1>9. ReceiptSound(r, v, rl_passed[l])
    <2>1. ReceiptSound(m, v, rl_passed[l])
      BY <1>2, <1>4, <1>5, <1>6
    <2> QED
      BY <1>8, <2>1, Zenon DEF ReceiptSound
  <1>10. Write(l, r, "clear", TIMED_OUT) /\ TIMED_OUT \in LeafCodes /\ TIMED_OUT # 0
    BY <1>1, <1>6, <1>7 DEF TIMED_OUT, LeafCodes
  <1>11. /\ rl_worker' \in [Leaves -> LeafAttempts \cup {Unset}] /\ rl_worker'[l] = v
         /\ \A k \in Leaves \ {l} : rl_worker'[k] = rl_worker[k] /\ rl_passed'[k] = rl_passed[k]
         /\ rl_passed' \in [Leaves -> BOOLEAN] /\ rl_passed'[l] = rl_passed[l]
    BY <1>1, <1>5 DEF LeafTypeOK
  <1>12. rl_file[l] \notin {Unset, Torn} => ReceiptSound(rl_file[l], v, rl_passed[l])
    BY <1>4, <1>5 DEF LeafTypeOK, LeafSound
  <1> QED
    BY <1>1, <1>5, <1>9, <1>10, <1>11, <1>12, WriteSound

(* The receipt of an attempt that has ended is terminal.                   *)
LEMMA FinishSound ==
    ASSUME LeafInv, NEW l \in Leaves, rl_finish(l)
    PROVE  LeafInv'
  <1> USE DEF LeafInv
  <1>1. /\ rl_pc[l] = "finish" /\ UNCHANGED <<rl_file, rl_worker, rl_result, rl_passed>>
        /\ rl_mem[l].attempt /\ rl_mem[l].terminal # Unset /\ rl_mem[l].hash_ok # TRUE
        /\ ReceiptSound(rl_mem[l], rl_worker[l], rl_passed[l])
        /\ rl_mem[l] \in LeafReceipts
    BY DEF rl_finish, LeafAt, rl_disk, LeafTypeOK, LeafSound, PlaceSound
  <1>2. CASE rl_mem[l].terminal = "cancelled"
    <2>1. rl_mem[l].code = 1
      BY <1>1, <1>2 DEF ReceiptSound
    <2>2. Write(l, rl_mem[l], "clear", 1) /\ 1 \in LeafCodes
      BY <1>2, <2>1 DEF rl_finish, LeafCodes
    <2>3. PICK result \in LeafCodes : result = 1 /\ result # 0
      BY <2>2
    <2>4. /\ rl_worker \in [Leaves -> LeafAttempts \cup {Unset}] /\ rl_passed \in [Leaves -> BOOLEAN]
          /\ rl_worker[l] # Unset => AttemptSound(rl_worker[l])
          /\ rl_file[l] \notin {Unset, Torn} =>
                ReceiptSound(rl_file[l], rl_worker[l], rl_passed[l])
      BY DEF LeafTypeOK, LeafSound
    <2> QED
      BY <1>1, <2>2, <2>3, <2>4, WriteSound
  <1>3. CASE rl_mem[l].terminal # "cancelled"
    <2>1. Write(l, rl_mem[l], "fetch", Unset) /\ Unset \in LeafCodes /\ Unset # 0
      BY <1>3, RemoteAssumption DEF rl_finish, LeafCodes
    <2>2. PICK result \in LeafCodes : result = Unset
      BY <2>1
    <2>3. /\ rl_worker \in [Leaves -> LeafAttempts \cup {Unset}] /\ rl_passed \in [Leaves -> BOOLEAN]
          /\ rl_worker[l] # Unset => AttemptSound(rl_worker[l])
          /\ rl_file[l] \notin {Unset, Torn} =>
                ReceiptSound(rl_file[l], rl_worker[l], rl_passed[l])
      BY DEF LeafTypeOK, LeafSound
    <2> QED
      BY <1>1, <2>1, <2>2, <2>3, WriteSound
  <1> QED
    BY <1>2, <1>3

(* The outputs are fetched, and verify or not.                             *)
LEMMA FetchSound ==
    ASSUME LeafInv, NEW l \in Leaves, NEW hash_ok \in BOOLEAN, rl_fetch(l, hash_ok)
    PROVE  LeafInv'
  <1> USE DEF LeafInv
  <1> PICK m \in LeafReceipts : m = rl_mem[l]
    BY DEF LeafTypeOK
  <1>1. /\ rl_pc[l] = "fetch" /\ UNCHANGED <<rl_file, rl_worker, rl_result>>
        /\ m.attempt /\ m.terminal # Unset /\ m.hash_ok # TRUE
        /\ ReceiptSound(m, rl_worker[l], rl_passed[l])
        /\ rl_file[l] = m
        /\ rl_passed' = [rl_passed EXCEPT ![l] = hash_ok]
        /\ Write(l, [m EXCEPT !.hash_ok = hash_ok], "clear", ResultOf(m.code, hash_ok))
    BY DEF rl_fetch, LeafAt, rl_disk, LeafSound, PlaceSound
  <1>2. PICK r \in LeafReceipts : r = [m EXCEPT !.hash_ok = hash_ok]
    BY DEF LeafReceipts
  <1>3. /\ r.attempt = m.attempt /\ r.cursor = m.cursor /\ r.terminal = m.terminal
        /\ r.code = m.code /\ r.hash_ok = hash_ok
    BY <1>2 DEF LeafReceipts
  <1>4. /\ rl_worker[l] # Unset /\ m.code = rl_worker[l].code /\ AttemptSound(rl_worker[l])
    BY <1>1 DEF ReceiptSound, LeafSound
  <1>5. /\ ReceiptSound(r, rl_worker[l], hash_ok)
        /\ ReceiptSound(m, rl_worker[l], hash_ok)
    BY <1>1, <1>3, Zenon DEF ReceiptSound
  <1>6. PICK result \in LeafCodes : result = ResultOf(m.code, hash_ok)
    BY DEF ResultOf, LeafReceipts, LeafCodes
  <1>7. result = 0 => rl_worker[l].code = 0 /\ hash_ok
    BY <1>4, <1>6 DEF ResultOf
  <1>8. /\ rl_passed' \in [Leaves -> BOOLEAN] /\ rl_passed'[l] = hash_ok
        /\ rl_worker' \in [Leaves -> LeafAttempts \cup {Unset}] /\ rl_worker'[l] = rl_worker[l]
        /\ \A k \in Leaves \ {l} : rl_worker'[k] = rl_worker[k] /\ rl_passed'[k] = rl_passed[k]
    BY <1>1 DEF LeafTypeOK
  <1>9. Write(l, r, "clear", result)
    BY <1>1, <1>2, <1>6
  <1> QED
    BY <1>1, <1>4, <1>5, <1>7, <1>8, <1>9, WriteSound

(* The receipt's file is written, under the attempt's name.                *)
LEMMA WrittenSound ==
    ASSUME LeafInv, NEW l \in Leaves, write_receipt(l)
    PROVE  LeafInv'
  <1> USE DEF LeafInv
  <1>1. /\ rl_pc[l] = "write" /\ rl_pc' = [rl_pc EXCEPT ![l] = "lock"]
        /\ UNCHANGED <<rl_mem, rl_then, rl_worker, rl_result, rl_passed>>
        /\ rl_file' = IF rl_mem[l].attempt THEN [rl_file EXCEPT ![l] = rl_mem[l]] ELSE rl_file
    BY DEF write_receipt, LeafAt, LeafGoes
  <1>2. LeafTypeOK' /\ LeafFrame(l)
    BY <1>1 DEF LeafTypeOK, LeafFrame, LeafPlaces
  <1>3. rl_pc'[l] = "lock" /\ rl_file'[l] = IF rl_mem[l].attempt THEN rl_mem[l] ELSE rl_file[l]
    BY <1>1 DEF LeafTypeOK
  <1>4. LeafSound(l)'
    <2>1. PlaceSound("lock", rl_mem[l], rl_then[l], rl_file'[l], rl_worker[l], rl_passed[l],
                     rl_result[l])
      <3>1. PlaceSound("write", rl_mem[l], rl_then[l], rl_file[l], rl_worker[l], rl_passed[l],
                       rl_result[l])
        BY <1>1 DEF LeafSound
      <3> QED
        BY <1>3, <3>1 DEF PlaceSound
    <2> QED
      BY <1>1, <1>3, <2>1 DEF LeafSound
  <1> QED
    BY <1>2, <1>4, LeafAlone

(* run.json is copied under its lock.                                      *)
LEMMA UpdateSound ==
    ASSUME LeafInv, NEW l \in Leaves, update_run_record(l)
    PROVE  LeafInv'
  <1> USE DEF LeafInv
  <1>1. /\ rl_pc[l] = "lock" /\ rl_pc' = [rl_pc EXCEPT ![l] = "stage"]
        /\ UNCHANGED <<rl_mem, rl_then, rl_file, rl_worker, rl_result, rl_passed>>
    BY DEF update_run_record, LeafAt, LeafGoes, rl_disk
  <1>2. LeafTypeOK' /\ LeafFrame(l) /\ rl_pc'[l] = "stage"
    BY <1>1 DEF LeafTypeOK, LeafFrame, LeafPlaces
  <1>3. LeafSound(l)'
    BY <1>1, <1>2 DEF LeafSound, PlaceSound
  <1> QED
    BY <1>2, <1>3, LeafAlone

(* The copy of run.json with this leaf's entry is renamed over it.         *)
LEMMA StageSound ==
    ASSUME LeafInv, NEW l \in Leaves, stage_run_record(l)
    PROVE  LeafInv'
  <1> USE DEF LeafInv
  <1>1. /\ rl_pc[l] = "stage" /\ UNCHANGED <<rl_file, rl_worker, rl_passed>>
        /\ rl_then[l] # Unset /\ rl_then[l] \in LeafSequels
    BY DEF stage_run_record, LeafAt, LeafSound, PlaceSound, LeafTypeOK
  <1>2. PICK then \in LeafSequels : then = rl_then[l]
    BY <1>1
  <1>3. /\ then.pc \in {"idle", "fetch", "clear"} /\ then.result \in LeafCodes
        /\ then.result = 0 => rl_worker[l] # Unset /\ rl_worker[l].code = 0 /\ rl_passed[l]
    <2>1. then.pc \in {"idle", "fetch", "clear"} /\ then.result \in LeafCodes
      BY DEF LeafSequels
    <2> QED
      BY <1>1, <1>2, <2>1 DEF LeafSound, PlaceSound
  <1>4. CASE then.pc = "idle"
    <2>1. Ends(l) /\ rl_result' = [rl_result EXCEPT ![l] = then.result]
      BY <1>2, <1>4 DEF stage_run_record
    <2> QED
      BY <1>1, <1>3, <2>1, EndSound
  <1>5. CASE then.pc # "idle"
    <2>1. rl_pc' = [rl_pc EXCEPT ![l] = then.pc] /\ UNCHANGED <<rl_mem, rl_then, rl_result>>
      BY <1>2, <1>5 DEF stage_run_record, LeafGoes
    <2>2. LeafTypeOK' /\ LeafFrame(l) /\ rl_pc'[l] = then.pc
      BY <1>1, <1>3, <2>1 DEF LeafTypeOK, LeafFrame, LeafPlaces
    <2>3. LeafSound(l)'
      <3>1. PlaceSound("stage", rl_mem[l], then, rl_file[l], rl_worker[l], rl_passed[l],
                       rl_result[l])
        BY <1>1, <1>2 DEF LeafSound
      <3>2. PlaceSound(then.pc, rl_mem[l], then, rl_file[l], rl_worker[l], rl_passed[l],
                       rl_result[l])
        BY <1>1, <1>2, <1>3, <1>5, <3>1 DEF PlaceSound
      <3> QED
        BY <1>1, <1>2, <2>1, <2>2, <3>2 DEF LeafSound
    <2> QED
      BY <2>2, <2>3, LeafAlone
  <1> QED
    BY <1>4, <1>5

(* The pointer of a leaf that is over is removed.                          *)
LEMMA ClearSound ==
    ASSUME LeafInv, NEW l \in Leaves, clear_attempts(l)
    PROVE  LeafInv'
  <1> USE DEF LeafInv
  <1>1. /\ rl_pc[l] = "clear" /\ UNCHANGED <<rl_file, rl_worker, rl_passed>>
        /\ rl_then[l] # Unset /\ rl_then[l] \in LeafSequels /\ Ends(l)
        /\ rl_result' = [rl_result EXCEPT ![l] = rl_then[l].result]
    BY DEF clear_attempts, LeafAt, LeafSound, PlaceSound, LeafTypeOK
  <1>2. /\ rl_then[l].result \in LeafCodes
        /\ rl_then[l].result = 0 => rl_worker[l] # Unset /\ rl_worker[l].code = 0 /\ rl_passed[l]
    BY <1>1 DEF LeafSound, PlaceSound, LeafSequels
  <1> QED
    BY <1>1, <1>2, EndSound

(* The command dies; what it wrote remains.                                *)
LEMMA KilledSound ==
    ASSUME LeafInv, NEW l \in Leaves, rl_killed(l)
    PROVE  LeafInv'
  <1> USE DEF LeafInv
  <1>1. /\ UNCHANGED <<rl_worker, rl_result, rl_passed>> /\ Ends(l) /\ rl_pc[l] # "idle"
        /\ rl_file' = rl_file \/ rl_file' = [rl_file EXCEPT ![l] = Torn]
    BY DEF rl_killed, LeafAt
  <1>2. LeafTypeOK' /\ LeafFrame(l)
    BY <1>1, SeedSound DEF LeafTypeOK, Ends, LeafGoes, LeafFrame, LeafPlaces
  <1>3. LeafSound(l)'
    <2>1. /\ rl_mem'[l] = seed_receipt /\ rl_pc'[l] = "idle" /\ rl_then'[l] = Unset
          /\ rl_result'[l] = Unset /\ rl_file'[l] \in {rl_file[l], Torn}
      BY <1>1 DEF LeafTypeOK, Ends, LeafGoes, LeafSound, PlaceSound
    <2>2. PlaceSound("idle", seed_receipt, Unset, rl_file'[l], rl_worker[l], rl_passed[l], Unset)
      BY RemoteAssumption DEF PlaceSound
    <2>3. ReceiptSound(seed_receipt, rl_worker[l], rl_passed[l])
      BY SeedSound DEF LeafTypeOK, LeafSound
    <2> QED
      BY <1>1, <2>1, <2>2, <2>3 DEF LeafSound
  <1> QED
    BY <1>2, <1>3, LeafAlone

(* Every step keeps the invariant of the leaves.                           *)
LEMMA RemoteStep ==
    LeafInv /\ [RemoteNext]_rl_vars => LeafInv'
  <1> SUFFICES ASSUME LeafInv, [RemoteNext]_rl_vars PROVE LeafInv'
    OBVIOUS
  <1>1. CASE UNCHANGED rl_vars
    BY <1>1 DEF rl_vars, rl_disk, LeafInv, LeafTypeOK, LeafSound
  <1>2. CASE RemoteNext
    BY <1>2, BeginSound, RememberSound, DeadlineSound, FetchSound, SubmitSound, PointersSound,
       DecideSound, CollectSound, ErrorSound, FinishSound, WrittenSound, UpdateSound, StageSound,
       ClearSound, KilledSound, WorkerSound
       DEF RemoteNext
  <1> QED
    BY <1>1, <1>2

(* remote.rs, execute: a leaf of a workflow returns success only if its    *)
(* task did and its outputs were verified, over any number of processes    *)
(* that are killed and take over from each other; and a receipt whose      *)
(* cursor is at the end of the journal of an ended attempt has the end.    *)
THEOREM LeavesTruthful == RemoteSpec => []LeafTruthful
  <1>1. LeafInv => LeafTruthful
    <2> SUFFICES ASSUME LeafInv, NEW l \in Leaves
                 PROVE  /\ rl_result[l] = 0 => rl_worker[l].code = 0 /\ rl_passed[l]
                        /\ WholeReceipt(l) /\ rl_file[l].terminal = Unset
                           /\ rl_worker[l].code # Unset
                              => rl_file[l].cursor < Len(rl_worker[l].journal)
      BY DEF LeafTruthful
    <2>1. rl_result[l] = 0 => rl_worker[l].code = 0 /\ rl_passed[l]
      BY DEF LeafInv, LeafSound, PlaceSound
    <2>2. WholeReceipt(l) => ReceiptSound(rl_file[l], rl_worker[l], rl_passed[l])
                             /\ rl_file[l].attempt
      BY DEF LeafInv, LeafSound, WholeReceipt
    <2> QED
      BY <2>1, <2>2 DEF ReceiptSound
  <1> QED
    BY <1>1, RemoteStart, RemoteStep, PTL DEF RemoteSpec

-----------------------------------------------------------------------------
(* The durable run record                                                  *)

JournalLine ==
    [sequence : Nat, kind : {"supervisor_started", "supervisor_terminal", "fragment", "garbled"},
     status : {"Pending", "Running", "Succeeded", "Failed", "Cancelled"}, transition_id : Nat]

EndsAttempt(l) == l.kind = "supervisor_terminal"

(* Lines that can be read back: numbered in order, one end per attempt.    *)
Whole(s) ==
    /\ s \in Seq(JournalLine)
    /\ \A i \in 1..Len(s) : Parses(s[i]) /\ s[i].sequence = i
    /\ \A i, j \in 1..Len(s) :
          EndsAttempt(s[i]) /\ EndsAttempt(s[j]) /\ s[i].transition_id = s[j].transition_id => i = j

(* l is a line that the writer may put after them.                         *)
Extends(s, l) ==
    /\ l \in JournalLine /\ Parses(l) /\ l.sequence = Len(s) + 1
    /\ EndsAttempt(l) => \A i \in 1..Len(s) : EndsAttempt(s[i]) => s[i].transition_id # l.transition_id

(* Corrupt, TornTail and Lines of a file with these physical lines.        *)
Readable(j, n) == ~ \E i \in DOMAIN j : ~ Parses(j[i]) /\ (n \/ i < Len(j))
TornEnd(j, n) == Readable(j, n) /\ ~ n /\ j # <<>> /\ ~ Parses(Last(j))
LinesOf(j, n) == IF TornEnd(j, n) THEN Front(j) ELSE j

(* A sequence is all but its last element, and the last.                   *)
LEMMA FrontIs ==
    ASSUME NEW s \in Seq(JournalLine), s # <<>>
    PROVE  /\ Len(s) \in Nat \ {0}
           /\ Front(s) \in Seq(JournalLine)
           /\ Len(Front(s)) = Len(s) - 1
           /\ \A i \in 1..(Len(s) - 1) : Front(s)[i] = s[i]
           /\ Last(s) = s[Len(s)] /\ Last(s) \in JournalLine
           /\ s = Append(Front(s), Last(s))
<1>1. Len(s) \in Nat \ {0}
  BY EmptySeq, LenProperties
<1>2. Last(s) = s[Len(s)] /\ Last(s) \in JournalLine
  BY <1>1, ElementOfSeq DEF Last
<1>3. /\ Front(s) \in Seq(JournalLine)
      /\ Len(Front(s)) = Len(s) - 1
      /\ \A i \in 1..(Len(s) - 1) : Front(s)[i] = s[i]
  <2>1. \A i \in 1..(Len(s) - 1) : s[i] \in JournalLine
    BY <1>1, ElementOfSeq
  <2>2. 1 \in Int /\ Len(s) - 1 \in Int
    BY <1>1
  <2> DEFINE m == Len(s) - 1
  <2> HIDE DEF m
  <2>3. /\ SubSeq(s, 1, m) \in Seq(JournalLine)
        /\ Len(SubSeq(s, 1, m)) = IF 1 <= m THEN m - 1 + 1 ELSE 0
        /\ \A i \in 1..(m - 1 + 1) : SubSeq(s, 1, m)[i] = s[1 + i - 1]
    BY <2>1, <2>2, SubSeqProperties DEF m
  <2>4. Front(s) = SubSeq(s, 1, m)
    BY DEF Front, m
  <2>5. ASSUME NEW i \in 1..m PROVE Front(s)[i] = s[i]
    <3>1. i \in 1..(m - 1 + 1) /\ 1 + i - 1 = i
      BY <2>2 DEF m
    <3> QED
      BY <2>3, <2>4, <3>1
  <2>6. Len(Front(s)) = m
    <3>1. m \in Nat
      BY <1>1 DEF m
    <3>2. (IF 1 <= m THEN m - 1 + 1 ELSE 0) = m
      BY <3>1
    <3> QED
      BY <2>3, <2>4, <3>2
  <2> QED
    BY <2>3, <2>4, <2>5, <2>6 DEF m
<1>4. s = Append(Front(s), Last(s))
  BY <1>1, <1>2, <1>3
<1> QED
  BY <1>1, <1>2, <1>3, <1>4

(* The operators of the model on the file as it is.                        *)
LEMMA FileIs ==
    /\ Corrupt = ~ Readable(journal, newline)
    /\ TornTail = TornEnd(journal, newline)
    /\ Lines = LinesOf(journal, newline)
<1>1. Corrupt = ~ Readable(journal, newline)
  BY Zenon DEF Corrupt, Readable
<1>2. TornTail = TornEnd(journal, newline)
  BY <1>1, Zenon DEF TornTail, TornEnd
<1> QED
  BY <1>1, <1>2 DEF Lines, LinesOf

(* What a write of the body, or of a part of it, leaves to be read.        *)
LEMMA LineAdded ==
    ASSUME NEW s, Whole(s), NEW l, Extends(s, l), NEW n \in BOOLEAN
    PROVE  /\ Readable(Append(s, l), n) /\ ~ TornEnd(Append(s, l), n)
           /\ LinesOf(Append(s, l), n) = Append(s, l)
           /\ Whole(Append(s, l)) /\ Last(Append(s, l)) = l /\ Append(s, l) # <<>>
           /\ Append(s, l) \in Seq(JournalLine) /\ Len(Append(s, l)) = Len(s) + 1
           /\ \A i \in 1..Len(s) : Append(s, l)[i] = s[i]
           /\ Append(s, l)[Len(s) + 1] = l
<1>1. s \in Seq(JournalLine) /\ l \in JournalLine /\ Len(s) \in Nat
  BY DEF Whole, Extends
<1>2. /\ Append(s, l) \in Seq(JournalLine)
      /\ Len(Append(s, l)) = Len(s) + 1
      /\ \A i \in 1..Len(s) : Append(s, l)[i] = s[i]
      /\ Append(s, l)[Len(s) + 1] = l
      /\ Append(s, l) # <<>>
  BY <1>1, AppendProperties
<1>3. Last(Append(s, l)) = l
  BY <1>2 DEF Last
<1> DEFINE t == Append(s, l)
<1> HIDE DEF t
<1>4. Whole(t)
  BY <1>1, <1>2 DEF Whole, Extends, t
<1>5. Readable(t, n) /\ ~ TornEnd(t, n)
  BY <1>2, <1>3, <1>4 DEF Whole, Readable, TornEnd, Extends, t
<1> QED
  BY <1>2, <1>3, <1>4, <1>5 DEF LinesOf, t

(* A part of a line, or two lines run together, is a torn end.             *)
LEMMA PartAdded ==
    ASSUME NEW s, Whole(s), NEW l \in JournalLine, ~ Parses(l)
    PROVE  /\ Readable(Append(s, l), FALSE) /\ TornEnd(Append(s, l), FALSE)
           /\ ~ Readable(Append(s, l), TRUE)
           /\ Front(Append(s, l)) = s /\ Last(Append(s, l)) = l
           /\ LinesOf(Append(s, l), FALSE) = s /\ Append(s, l) # <<>>
           /\ Append(s, l) \in Seq(JournalLine) /\ Len(Append(s, l)) = Len(s) + 1
<1>1. s \in Seq(JournalLine) /\ Len(s) \in Nat
  BY DEF Whole
<1>2. /\ Append(s, l) \in Seq(JournalLine)
      /\ Len(Append(s, l)) = Len(s) + 1
      /\ \A i \in 1..Len(s) : Append(s, l)[i] = s[i]
      /\ Append(s, l)[Len(s) + 1] = l
      /\ Append(s, l) # <<>>
  BY <1>1, AppendProperties
<1> DEFINE t == Append(s, l)
<1> HIDE DEF t
<1>3. Last(t) = l
  BY <1>2 DEF Last, t
<1>4. Front(t) = s
  <2>1. Front(t) \in Seq(JournalLine) /\ Len(Front(t)) = Len(s)
        /\ \A i \in 1..Len(s) : Front(t)[i] = s[i]
    <3>1. t \in Seq(JournalLine) /\ t # <<>> /\ Len(t) = Len(s) + 1
      BY <1>2 DEF t
    <3>2. \A i \in 1..Len(s) : t[i] = s[i]
      BY <1>2 DEF t
    <3>3. Len(t) - 1 = Len(s)
      BY <1>1, <3>1
    <3>4. /\ Front(t) \in Seq(JournalLine)
          /\ Len(Front(t)) = Len(t) - 1
          /\ \A i \in 1..(Len(t) - 1) : Front(t)[i] = t[i]
      BY <3>1, FrontIs
    <3> QED
      BY <3>2, <3>3, <3>4
  <2> QED
    BY <1>1, <2>1, SeqEqual
<1>5. Readable(t, FALSE) /\ ~ Readable(t, TRUE)
  BY <1>1, <1>2 DEF Whole, Readable, t
<1>6. TornEnd(t, FALSE)
  BY <1>2, <1>3, <1>5 DEF TornEnd, t
<1> QED
  BY <1>2, <1>3, <1>4, <1>5, <1>6 DEF LinesOf, t

(* Without its last line a journal is whole still.                         *)
LEMMA FrontWhole ==
    ASSUME NEW s, Whole(s), s # <<>> PROVE Whole(Front(s))
<1>1. /\ Len(s) \in Nat \ {0}
      /\ Front(s) \in Seq(JournalLine)
      /\ Len(Front(s)) = Len(s) - 1
      /\ \A i \in 1..(Len(s) - 1) : Front(s)[i] = s[i]
  BY FrontIs DEF Whole
<1> QED
  BY <1>1 DEF Whole

(* A whole journal is read as it is.                                       *)
LEMMA WholeRead ==
    ASSUME NEW s, Whole(s), NEW n \in BOOLEAN
    PROVE  Readable(s, n) /\ ~ TornEnd(s, n) /\ LinesOf(s, n) = s
<1>1. Readable(s, n)
  BY DEF Whole, Readable
<1>2. ASSUME TornEnd(s, n) PROVE FALSE
  <2>1. s # <<>> /\ ~ Parses(Last(s))
    BY <1>2 DEF TornEnd
  <2>2. Last(s) = s[Len(s)] /\ Len(s) \in Nat \ {0}
    BY <2>1, FrontIs DEF Whole
  <2> QED
    BY <2>1, <2>2 DEF Whole
<1> QED
  BY <1>1, <1>2 DEF LinesOf

-----------------------------------------------------------------------------
(* What the lock protects: where the writer is, and what it adds.          *)
WriterOK(p, j, n, l) ==
    /\ p = "append" => Whole(j) /\ Extends(j, l)
    /\ p = "rest" => /\ ~ n /\ j # <<>> /\ Whole(Front(j)) /\ Last(j) \in {Fragment, Garbled}
                     /\ Last(j) = Fragment => Extends(Front(j), l)
    /\ p = "newline" => /\ ~ n /\ j # <<>>
                        /\ \/ Whole(j) /\ Last(j) = l
                           \/ Whole(Front(j)) /\ Last(j) = Garbled

FileOK(j, n) ==
    /\ j \in Seq(JournalLine) /\ n \in BOOLEAN
    /\ ~ n => j # <<>>
    /\ Readable(j, n) => Whole(LinesOf(j, n))

JournalInv ==
    /\ attempts \in Nat
    /\ record.transition_id \in Nat /\ snapshot.transition_id \in Nat
    /\ FileOK(journal, newline)
    /\ WriterOK(pc, journal, newline, line)
    /\ \A r \in Readers : parsed[r] = NoLines \/ Whole(parsed[r])

(* The line that a first attempt begins with.                              *)
StartLine ==
    [sequence |-> 1, kind |-> "supervisor_started", status |-> "Running", transition_id |-> 1]

(* What a journal s of a first attempt may say when c is the last call.    *)
Told(s, c) ==
    /\ Len(s) \in 0..2
    /\ Len(s) # 0 => s[1] = StartLine
    /\ Len(s) = 2 => /\ EndsAttempt(s[2]) /\ s[2].transition_id = 1
                     /\ s[2].status \in Outcomes /\ s[2].status \in {c, "Cancelled"}

ProperRecord(r) ==
    /\ r.transition_id = 1
    /\ \/ r.event_sequence = 1 /\ r.status = "Running"
       \/ r.event_sequence = 2 /\ r.status \in Outcomes

(* A record tells of an event of the journal, and of a terminal event what *)
(* the journal says, or the exit after a cancellation.                     *)
Agrees(r, s) ==
    /\ r.event_sequence <= Len(s)
    /\ r.event_sequence = 2 => s[2].status \in {r.status, "Cancelled"}

Appending == {"append", "rest", "newline"}

FirstInv ==
    /\ attempts = 0 => /\ journal = <<>> /\ newline = TRUE /\ snapshot = NoRecord /\ pc = "idle"
                       /\ call = "none" /\ start_failed = FALSE /\ acked = FALSE
    /\ call \in {"none", "started"} \cup Outcomes
    /\ pc = "retry" => call \in Outcomes
    /\ pc # "idle" => call # "none"
    /\ start_failed => call = "started" /\ pc = "idle"
    /\ acked => call \in Outcomes /\ snapshot # NoRecord /\ snapshot.event_sequence = 2
    /\ Readable(journal, newline) => Told(LinesOf(journal, newline), call)
    /\ snapshot # NoRecord =>
          /\ ProperRecord(snapshot)
          /\ Readable(journal, newline) => Agrees(snapshot, LinesOf(journal, newline))
    /\ newline = FALSE /\ Len(journal) \in 0..1 => snapshot = NoRecord
    /\ pc \in Appending =>
          /\ record.transition_id = 1 /\ line.transition_id = 1
          /\ record.event_sequence = line.sequence /\ record.status = line.status
          /\ call = "started" => line = StartLine /\ snapshot = NoRecord
          /\ call # "started" => line.sequence = 2 /\ EndsAttempt(line) /\ line.status = call
    /\ pc = "store" =>
          /\ ProperRecord(record)
          /\ record.event_sequence = 1 <=> call = "started"
          /\ newline = TRUE \/ Len(journal) = 2
          /\ Readable(journal, newline) => Agrees(record, LinesOf(journal, newline))

DurableInv == JournalInv /\ (FirstAttempt => FirstInv)

(* Names that are not the same.                                            *)
LEMMA OutcomesNamed ==
    /\ "none" \notin Outcomes /\ "started" \notin Outcomes /\ "Running" \notin Outcomes
    /\ "missing" \notin Outcomes
    /\ Outcomes \subseteq {"Pending", "Running", "Succeeded", "Failed", "Cancelled"}
    /\ Fragment \in JournalLine /\ Garbled \in JournalLine
    /\ ~ Parses(Fragment) /\ ~ Parses(Garbled) /\ Fragment # Garbled
  BY DurableConstants DEF Fragment, Garbled, NotJson, JournalLine, Parses

(* What can be read of the file is whole, wherever the writer is.          *)
LEMMA WriterReads ==
    ASSUME NEW j, NEW n \in BOOLEAN, NEW l, NEW p \in Appending,
           FileOK(j, n), WriterOK(p, j, n, l)
    PROVE  /\ Readable(j, n) /\ Whole(LinesOf(j, n))
           /\ p = "append" => LinesOf(j, n) = j
           /\ p = "rest" => LinesOf(j, n) = Front(j)
           /\ p = "newline" => LinesOf(j, n) = IF Last(j) = Garbled THEN Front(j) ELSE j
<1>1. CASE p = "append"
  BY <1>1, WholeRead DEF WriterOK
<1>2. ASSUME n = FALSE, j # <<>>, Whole(Front(j)), Last(j) \in {Fragment, Garbled}
      PROVE  Readable(j, n) /\ LinesOf(j, n) = Front(j)
  <2>1. j = Append(Front(j), Last(j))
    BY <1>2, FrontIs DEF FileOK
  <2>2. Last(j) \in JournalLine /\ ~ Parses(Last(j))
    BY <1>2, OutcomesNamed
  <2>3. /\ Readable(Append(Front(j), Last(j)), FALSE)
        /\ LinesOf(Append(Front(j), Last(j)), FALSE) = Front(j)
    BY <1>2, <2>2, PartAdded
  <2> QED
    BY <1>2, <2>1, <2>3
<1>3. CASE p = "rest"
  BY <1>2, <1>3 DEF WriterOK
<1>4. CASE p = "newline"
  <2>1. ASSUME Whole(j), j # <<>> PROVE Last(j) # Garbled
    BY <2>1, FrontIs, OutcomesNamed DEF Whole
  <2>2. CASE Whole(j) /\ j # <<>>
    BY <1>4, <2>1, <2>2, WholeRead
  <2>3. CASE Whole(Front(j)) /\ Last(j) = Garbled
    BY <1>2, <1>4, <2>3 DEF WriterOK
  <2> QED
    BY <1>4, <2>2, <2>3 DEF WriterOK
<1> QED
  BY <1>1, <1>3, <1>4 DEF Appending

(* A journal that the first or second line extends.                        *)
LEMMA Shorter ==
    \A n \in Nat : \A m \in {1, 2} :
        m = n + 1 => n \in 0..1 /\ (m = 1 => n = 0) /\ (m = 2 => n = 1)
  OBVIOUS

(* What a first attempt is about to add.                                   *)
LEMMA FirstWriter ==
    ASSUME FirstInv, pc \in Appending
    PROVE  /\ attempts # 0 /\ start_failed # TRUE
           /\ line.sequence \in {1, 2}
           /\ record.transition_id = 1 /\ line.transition_id = 1
           /\ record.event_sequence = line.sequence /\ record.status = line.status
           /\ \/ call = "started" /\ line = StartLine /\ line.sequence = 1 /\ snapshot = NoRecord
              \/ /\ call # "started" /\ call \in Outcomes
                 /\ line.sequence = 2 /\ EndsAttempt(line) /\ line.status = call
<1>1. pc # "idle"
  BY DEF Appending
<1>2. attempts # 0 /\ start_failed # TRUE /\ call # "none" /\ call \in {"none", "started"} \cup Outcomes
  BY <1>1 DEF FirstInv
<1>3. /\ record.transition_id = 1 /\ line.transition_id = 1
      /\ record.event_sequence = line.sequence /\ record.status = line.status
      /\ call = "started" => line = StartLine /\ snapshot = NoRecord
      /\ call # "started" => line.sequence = 2 /\ EndsAttempt(line) /\ line.status = call
  BY DEF FirstInv
<1>4. StartLine.sequence = 1
  BY DEF StartLine
<1> QED
  BY <1>2, <1>3, <1>4

(* AppendBody.                                                             *)
LEMMA BodyAppended ==
    ASSUME DurableInv, AppendBody PROVE DurableInv'
<1> USE DEF DurableInv
<1>1. /\ pc = "append" /\ pc' = "newline" /\ newline' = FALSE
      /\ journal' = IF newline THEN Append(journal, line) ELSE Append(Front(journal), Garbled)
      /\ UNCHANGED <<snapshot, call, tries, record, line, start_failed, acked, attempts, parsed, repaired>>
  BY DEF AppendBody, Written
<1>2. /\ Whole(journal) /\ Extends(journal, line) /\ LinesOf(journal, newline) = journal
      /\ Readable(journal, newline) /\ newline \in BOOLEAN /\ Len(journal) \in Nat
      /\ ~ newline => journal # <<>>
  BY <1>1, WholeRead DEF JournalInv, WriterOK, FileOK, Whole
<1>3. CASE newline = TRUE
  <2>1. journal' = Append(journal, line)
    BY <1>1, <1>3
  <2>2. /\ Readable(journal', FALSE) /\ LinesOf(journal', FALSE) = journal'
        /\ Whole(journal') /\ Last(journal') = line /\ journal' # <<>>
        /\ journal' \in Seq(JournalLine) /\ Len(journal') = Len(journal) + 1
        /\ \A i \in 1..Len(journal) : journal'[i] = journal[i]
        /\ journal'[Len(journal) + 1] = line
    BY <1>2, <2>1, LineAdded
  <2>3. JournalInv'
    BY <1>1, <2>2 DEF JournalInv, FileOK, WriterOK
  <2>4. ASSUME FirstAttempt' PROVE FirstInv'
    <3>1. FirstInv
      BY <1>1, <2>4 DEF FirstAttempt
    <3>2. line.sequence = Len(journal) + 1
      BY <1>2 DEF Extends
    <3>3. Told(journal, call) /\ (snapshot # NoRecord => ProperRecord(snapshot) /\ Agrees(snapshot, journal))
      BY <1>2, <3>1 DEF FirstInv
    <3>4. CASE call = "started"
      <4>1. line = StartLine /\ snapshot = NoRecord /\ Len(journal) = 0
        BY <1>1, <1>2, <3>1, <3>2, <3>4, FirstWriter, Shorter DEF Appending
      <4>2. Told(journal', call)
        BY <2>2, <4>1 DEF Told
      <4> QED
        BY <1>1, <2>2, <3>1, <4>1, <4>2 DEF FirstInv, Appending
    <3>5. CASE call # "started"
      <4>1. line.sequence = 2 /\ EndsAttempt(line) /\ line.status = call /\ Len(journal) = 1
            /\ line.transition_id = 1 /\ call \in Outcomes
        BY <1>1, <1>2, <3>1, <3>2, <3>5, FirstWriter, Shorter DEF Appending
      <4>2. Told(journal', call)
        BY <2>2, <3>3, <4>1 DEF Told
      <4>3. snapshot # NoRecord => Agrees(snapshot, journal')
        BY <2>2, <3>3, <4>1 DEF Agrees, ProperRecord
      <4>4. Len(journal') \notin 0..1
        BY <2>2, <4>1
      <4> QED
        BY <1>1, <2>2, <3>1, <4>1, <4>2, <4>3, <4>4 DEF FirstInv, Appending
    <3> QED
      BY <3>4, <3>5
  <2> QED
    BY <2>3, <2>4
<1>4. CASE newline = FALSE
  <2>1. journal' = Append(Front(journal), Garbled)
    BY <1>1, <1>4
  <2>2. Whole(Front(journal)) /\ Len(Front(journal)) = Len(journal) - 1
    BY <1>2, <1>4, FrontWhole, FrontIs DEF Whole
  <2>3. /\ Readable(journal', FALSE) /\ LinesOf(journal', FALSE) = Front(journal)
        /\ Front(journal') = Front(journal) /\ Last(journal') = Garbled /\ journal' # <<>>
        /\ journal' \in Seq(JournalLine) /\ Len(journal') = Len(Front(journal)) + 1
    BY <2>1, <2>2, OutcomesNamed, PartAdded
  <2>4. JournalInv'
    BY <1>1, <2>2, <2>3 DEF JournalInv, FileOK, WriterOK
  <2>5. ASSUME FirstAttempt' PROVE FirstInv'
    <3>1. FirstInv
      BY <1>1, <2>5 DEF FirstAttempt
    <3>2. line.sequence = Len(journal) + 1
      BY <1>2 DEF Extends
    <3>3. Len(journal) # 0
      BY <1>2, <1>4, EmptySeq DEF Whole
    <3>4. Len(journal) = 1 /\ snapshot = NoRecord
      <4>1. Len(journal) = 1
        BY <1>1, <1>2, <3>1, <3>2, <3>3, FirstWriter, Shorter DEF Appending
      <4> QED
        BY <1>4, <3>1, <4>1 DEF FirstInv
    <3>5. Told(Front(journal), call)
      BY <2>2, <3>4 DEF Told
    <3> QED
      BY <1>1, <2>2, <2>3, <3>1, <3>4, <3>5 DEF FirstInv, Appending
  <2> QED
    BY <2>4, <2>5
<1> QED
  BY <1>2, <1>3, <1>4

(* AppendPart.                                                             *)
LEMMA PartAppended ==
    ASSUME DurableInv, AppendPart PROVE DurableInv'
<1> USE DEF DurableInv
<1>1. /\ pc = "append" /\ pc' = "rest" /\ newline' = FALSE
      /\ journal' = IF newline THEN Append(journal, Fragment) ELSE Append(Front(journal), Garbled)
      /\ UNCHANGED <<snapshot, call, tries, record, line, start_failed, acked, attempts, parsed, repaired>>
  BY DEF AppendPart, Written
<1>2. /\ Whole(journal) /\ Extends(journal, line) /\ LinesOf(journal, newline) = journal
      /\ Readable(journal, newline) /\ newline \in BOOLEAN /\ Len(journal) \in Nat
      /\ ~ newline => journal # <<>>
  BY <1>1, WholeRead DEF JournalInv, WriterOK, FileOK, Whole
<1> DEFINE kept == IF newline THEN journal ELSE Front(journal)
           part == IF newline THEN Fragment ELSE Garbled
<1>3. /\ Whole(kept) /\ journal' = Append(kept, part) /\ part \in {Fragment, Garbled}
      /\ part = Fragment => newline = TRUE /\ kept = journal
      /\ newline => kept = journal
      /\ ~ newline => Len(kept) = Len(journal) - 1
  BY <1>1, <1>2, FrontWhole, FrontIs, OutcomesNamed DEF Whole
<1> HIDE DEF kept, part
<1>4. /\ Readable(journal', FALSE) /\ LinesOf(journal', FALSE) = kept
      /\ Front(journal') = kept /\ Last(journal') = part /\ journal' # <<>>
      /\ journal' \in Seq(JournalLine) /\ Len(journal') = Len(kept) + 1
  <2>1. part \in JournalLine /\ ~ Parses(part)
    BY <1>3, OutcomesNamed
  <2> QED
    BY <1>3, <2>1, PartAdded
<1>5. JournalInv'
  BY <1>1, <1>2, <1>3, <1>4 DEF JournalInv, FileOK, WriterOK
<1>6. ASSUME FirstAttempt' PROVE FirstInv'
  <2>1. FirstInv
    BY <1>1, <1>6 DEF FirstAttempt
  <2>2. line.sequence = Len(journal) + 1
    BY <1>2 DEF Extends
  <2>3. newline = FALSE => Len(journal) # 0
    BY <1>2, EmptySeq DEF Whole
  <2>4. Told(journal, call) /\ (snapshot # NoRecord => ProperRecord(snapshot) /\ Agrees(snapshot, journal))
    BY <1>2, <2>1 DEF FirstInv
  <2>5. newline = FALSE => Len(journal) = 1 /\ snapshot = NoRecord
    <3>1. newline = FALSE => Len(journal) = 1
      BY <1>1, <1>2, <2>1, <2>2, <2>3, FirstWriter, Shorter DEF Appending
    <3> QED
      BY <2>1, <3>1 DEF FirstInv
  <2>6. Len(journal) = 0 => snapshot = NoRecord
    BY <1>1, <1>2, <2>1, <2>2, FirstWriter, Shorter DEF Appending
  <2>7. Told(kept, call) /\ (snapshot # NoRecord => Agrees(snapshot, kept))
    <3>1. CASE newline = TRUE
      BY <1>3, <2>4, <3>1
    <3>2. CASE newline = FALSE
      <4>1. Len(kept) = 0 /\ snapshot = NoRecord
        BY <1>3, <2>5, <3>2
      <4> QED
        BY <4>1 DEF Told
    <3> QED
      BY <1>2, <3>1, <3>2
  <2>8. Len(journal') \in 0..1 => snapshot = NoRecord
    BY <1>2, <1>3, <1>4, <2>5, <2>6
  <2> QED
    BY <1>1, <1>4, <2>1, <2>7, <2>8 DEF FirstInv, Appending
<1> QED
  BY <1>5, <1>6

(* AppendRest.                                                             *)
LEMMA RestAppended ==
    ASSUME DurableInv, AppendRest PROVE DurableInv'
<1> USE DEF DurableInv
<1>1. /\ pc = "rest" /\ pc' = "newline"
      /\ journal' = IF Last(journal) = Fragment THEN Append(Front(journal), line) ELSE journal
      /\ UNCHANGED <<newline, snapshot, call, tries, record, line, start_failed, acked, attempts, parsed, repaired>>
  BY DEF AppendRest
<1> DEFINE kept == Front(journal)
<1>2. /\ newline = FALSE /\ journal # <<>> /\ Whole(kept)
      /\ Last(journal) \in {Fragment, Garbled}
      /\ Last(journal) = Fragment => Extends(kept, line)
      /\ Readable(journal, newline) /\ LinesOf(journal, newline) = kept
      /\ journal \in Seq(JournalLine) /\ Len(journal) = Len(kept) + 1 /\ Len(kept) \in Nat
  <2>1. /\ newline = FALSE /\ journal # <<>> /\ Whole(kept)
        /\ Last(journal) \in {Fragment, Garbled}
        /\ Last(journal) = Fragment => Extends(kept, line)
        /\ journal \in Seq(JournalLine)
    BY <1>1 DEF JournalInv, WriterOK, FileOK
  <2>2. Readable(journal, newline) /\ LinesOf(journal, newline) = kept
    BY <1>1, WriterReads DEF JournalInv, FileOK, Appending
  <2>3. Len(journal) \in Nat \ {0} /\ Len(kept) = Len(journal) - 1
    BY <2>1, FrontIs
  <2> QED
    BY <2>1, <2>2, <2>3
<1>3. CASE Last(journal) = Garbled
  <2>1. journal' = journal
    BY <1>1, <1>3, OutcomesNamed
  <2>2. JournalInv'
    BY <1>1, <1>2, <1>3, <2>1 DEF JournalInv, FileOK, WriterOK
  <2>3. FirstAttempt' => FirstInv'
    BY <1>1, <2>1 DEF FirstAttempt, FirstInv, Appending
  <2> QED
    BY <2>2, <2>3
<1>4. CASE Last(journal) = Fragment
  <2>1. journal' = Append(kept, line) /\ Extends(kept, line)
    BY <1>1, <1>2, <1>4
  <2> HIDE DEF kept
  <2>2. /\ Readable(journal', FALSE) /\ LinesOf(journal', FALSE) = journal'
        /\ Whole(journal') /\ Last(journal') = line /\ journal' # <<>>
        /\ journal' \in Seq(JournalLine) /\ Len(journal') = Len(kept) + 1
        /\ \A i \in 1..Len(kept) : journal'[i] = kept[i]
        /\ journal'[Len(kept) + 1] = line
    <3>1. Whole(kept) /\ Extends(kept, line) /\ FALSE \in BOOLEAN
      BY <1>2, <2>1
    <3> QED
      BY <2>1, <3>1, LineAdded
  <2>3. JournalInv'
    BY <1>1, <1>2, <2>2 DEF JournalInv, FileOK, WriterOK
  <2>4. ASSUME FirstAttempt' PROVE FirstInv'
    <3>1. FirstInv
      BY <1>1, <2>4 DEF FirstAttempt
    <3>2. line.sequence = Len(kept) + 1
      BY <2>1 DEF Extends
    <3>3. Told(kept, call) /\ (snapshot # NoRecord => ProperRecord(snapshot) /\ Agrees(snapshot, kept))
      BY <1>2, <3>1 DEF FirstInv
    <3>4. Told(journal', call)
      <4>1. CASE call = "started"
        <5>1. line = StartLine /\ Len(kept) = 0
          BY <1>1, <1>2, <3>1, <3>2, <4>1, FirstWriter, Shorter DEF Appending
        <5> QED
          BY <2>2, <5>1 DEF Told
      <4>2. CASE call # "started"
        <5>1. EndsAttempt(line) /\ line.status = call /\ Len(kept) = 1
              /\ line.transition_id = 1 /\ call \in Outcomes
          BY <1>1, <1>2, <3>1, <3>2, <4>2, FirstWriter, Shorter DEF Appending
        <5> QED
          BY <2>2, <3>3, <5>1 DEF Told
      <4> QED
        BY <4>1, <4>2
    <3>5. Len(kept) \in 0..1
      BY <1>1, <1>2, <3>1, <3>2, FirstWriter, Shorter DEF Appending
    <3>6. snapshot # NoRecord => Agrees(snapshot, journal')
      BY <1>2, <2>2, <3>3, <3>5 DEF Agrees, ProperRecord
    <3>7. Len(journal') = Len(journal)
      BY <1>2, <2>2
    <3> QED
      BY <1>1, <1>2, <2>2, <3>1, <3>4, <3>6, <3>7 DEF FirstInv, Appending
  <2> QED
    BY <2>3, <2>4
<1> QED
  BY <1>2, <1>3, <1>4

(* AppendNewline: the line counts, or the journal is corrupt.              *)
LEMMA NewlineAppended ==
    ASSUME DurableInv, AppendNewline PROVE DurableInv'
<1> USE DEF DurableInv
<1>1. /\ pc = "newline" /\ pc' = "store" /\ newline' = TRUE
      /\ UNCHANGED <<journal, snapshot, call, tries, record, line, start_failed, acked, attempts, parsed, repaired>>
  BY DEF AppendNewline
<1>2. newline = FALSE /\ journal # <<>> /\ journal \in Seq(JournalLine)
  BY <1>1 DEF JournalInv, FileOK, WriterOK
<1>3. CASE Last(journal) = Garbled
  <2>1. ~ Readable(journal, TRUE)
    <3>1. Len(journal) \in Nat \ {0} /\ Last(journal) = journal[Len(journal)]
          /\ DOMAIN journal = 1..Len(journal)
      BY <1>2, FrontIs, LenProperties
    <3> QED
      BY <1>3, <3>1, OutcomesNamed DEF Readable
  <2>2. JournalInv'
    BY <1>1, <1>2, <2>1 DEF JournalInv, FileOK, WriterOK
  <2>3. ASSUME FirstAttempt' PROVE FirstInv'
    <3>1. FirstInv
      BY <1>1, <2>3 DEF FirstAttempt
    <3>2. ProperRecord(record) /\ (record.event_sequence = 1 <=> call = "started")
      BY <1>1, <3>1 DEF FirstInv, Appending, ProperRecord, StartLine
    <3> QED
      BY <1>1, <2>1, <3>1, <3>2 DEF FirstInv, Appending
  <2> QED
    BY <2>2, <2>3
<1>4. CASE Last(journal) # Garbled
  <2>1. Whole(journal) /\ Last(journal) = line
    BY <1>1, <1>4 DEF JournalInv, WriterOK
  <2>2. /\ Readable(journal, TRUE) /\ LinesOf(journal, TRUE) = journal
        /\ Readable(journal, FALSE) /\ LinesOf(journal, FALSE) = journal
    BY <2>1, WholeRead
  <2>3. JournalInv'
    BY <1>1, <1>2, <2>1, <2>2 DEF JournalInv, FileOK, WriterOK
  <2>4. ASSUME FirstAttempt' PROVE FirstInv'
    <3>1. FirstInv
      BY <1>1, <2>4 DEF FirstAttempt
    <3>2. ProperRecord(record) /\ (record.event_sequence = 1 <=> call = "started")
      BY <1>1, <3>1 DEF FirstInv, Appending, ProperRecord, StartLine
    <3>3. Len(journal) \in Nat \ {0} /\ line = journal[Len(journal)]
      BY <1>2, <2>1, FrontIs
    <3>4. record.event_sequence = Len(journal) /\ record.status = line.status
      BY <1>1, <2>1, <3>1, <3>3 DEF FirstInv, Appending, Whole
    <3>5. Agrees(record, journal)
      BY <3>3, <3>4 DEF Agrees
    <3> QED
      BY <1>1, <1>2, <2>2, <3>1, <3>2, <3>5 DEF FirstInv, Appending
  <2> QED
    BY <2>3, <2>4
<1> QED
  BY <1>3, <1>4

(* StoreSnapshot: the record is of a line in the journal.                  *)
LEMMA SnapshotStored ==
    ASSUME DurableInv, StoreSnapshot PROVE DurableInv'
<1> USE DEF DurableInv
<1>1. /\ pc = "store" /\ snapshot' = record /\ pc' = "idle" /\ acked' = (call # "started")
      /\ UNCHANGED <<journal, newline, call, tries, record, line, start_failed, attempts, parsed, repaired>>
  BY DEF StoreSnapshot
<1>2. JournalInv'
  BY <1>1 DEF JournalInv, WriterOK
<1>3. ASSUME FirstAttempt' PROVE FirstInv'
  <2>1. FirstInv
    BY <1>1, <1>3 DEF FirstAttempt
  <2>2. /\ ProperRecord(record) /\ (record.event_sequence = 1 <=> call = "started")
        /\ newline = TRUE \/ Len(journal) = 2
        /\ Readable(journal, newline) => Agrees(record, LinesOf(journal, newline))
        /\ attempts # 0 /\ call \in {"started"} \cup Outcomes
    BY <1>1, <2>1 DEF FirstInv
  <2>3. record # NoRecord
    BY <2>2 DEF ProperRecord, NoRecord
  <2>4. acked' => call \in Outcomes /\ record.event_sequence = 2
    BY <1>1, <2>2 DEF ProperRecord
  <2> QED
    BY <1>1, <2>1, <2>2, <2>3, <2>4 DEF FirstInv, Appending
<1> QED
  BY <1>2, <1>3


(* A writer first drops the torn line; the next line has the next number.  *)
LEMMA FileRepaired ==
    ASSUME JournalInv, ~ Corrupt, RepairJournal
    PROVE  /\ Whole(Lines) /\ Lines = LinesOf(journal, newline) /\ journal' = Lines
           /\ FileOK(journal', newline')
           /\ Readable(journal', newline') /\ LinesOf(journal', newline') = Lines
           /\ newline' = FALSE => newline = FALSE /\ journal' = journal
           /\ Readable(journal, newline)
           /\ next_journal_sequence = Len(Lines) + 1
           /\ DOMAIN Lines = 1..Len(Lines) /\ Len(Lines) \in Nat
<1>1. /\ Readable(journal, newline) /\ Lines = LinesOf(journal, newline)
      /\ TornTail = TornEnd(journal, newline)
  BY FileIs
<1>2. Whole(Lines) /\ newline \in BOOLEAN /\ (newline = FALSE => journal # <<>>)
  BY <1>1 DEF JournalInv, FileOK
<1>3. journal' = Lines /\ newline' = (newline \/ TornTail)
  BY DEF RepairJournal
<1>4. newline' \in BOOLEAN
  BY <1>3
<1>5. newline' = FALSE => newline = FALSE /\ journal' = journal
  BY <1>1, <1>2, <1>3 DEF LinesOf
<1>6. Readable(journal', newline') /\ LinesOf(journal', newline') = Lines
  BY <1>2, <1>3, <1>4, WholeRead
<1>7. FileOK(journal', newline')
  BY <1>2, <1>3, <1>4, <1>5, <1>6 DEF FileOK, Whole
<1>8. DOMAIN Lines = 1..Len(Lines) /\ Len(Lines) \in Nat
  BY <1>2, LenProperties DEF Whole
<1>9. next_journal_sequence = Len(Lines) + 1
  <2>1. CASE Lines = <<>>
    BY <2>1, EmptySeq DEF next_journal_sequence
  <2>2. CASE Lines # <<>>
    <3>1. Len(Lines) \in Nat \ {0} /\ Last(Lines) = Lines[Len(Lines)]
      BY <1>2, <2>2, FrontIs DEF Whole
    <3>2. Len(Lines) \in 1..Len(Lines)
      BY <3>1
    <3>3. Last(Lines).sequence = Len(Lines)
      BY <1>2, <3>1, <3>2 DEF Whole
    <3> QED
      BY <2>2, <3>3 DEF next_journal_sequence
  <2> QED
    BY <2>1, <2>2
<1> QED
  BY <1>1, <1>2, <1>3, <1>5, <1>6, <1>7, <1>8, <1>9

(* A set of positions has a last one.                                      *)
LEMMA LastPosition ==
    ASSUME NEW n \in Nat, NEW T \in SUBSET (1..n), T # {}
    PROVE  Max(T) \in T
<1> DEFINE gaps == {n - i : i \in T}
<1>1. gaps \in SUBSET Nat /\ gaps # {}
  <2>1. \A i \in T : n - i \in Nat
    OBVIOUS
  <2> QED
    BY <2>1
<1>2. PICK g \in gaps : \A h \in gaps : g <= h
  BY <1>1, LeastNumber
<1>3. PICK x \in T : g = n - x
  BY <1>2
<1>4. \A y \in T : x >= y
  <2> SUFFICES ASSUME NEW y \in T PROVE x >= y
    OBVIOUS
  <2>1. n - x <= n - y
    BY <1>2, <1>3
  <2> QED
    BY <2>1
<1> QED
  BY <1>4 DEF Max

(* The attempt that a load finds.                                          *)
LEMMA LoadedTyped ==
    ASSUME JournalInv, ~ Corrupt, ~ Missing
    PROVE  loaded.transition_id \in Nat
<1>1. Whole(Lines)
  BY FileIs DEF JournalInv, FileOK
<1>2. DOMAIN Lines = 1..Len(Lines) /\ Len(Lines) \in Nat /\ Lines \in Seq(JournalLine)
  BY <1>1, LenProperties DEF Whole
<1> DEFINE starts == {i \in DOMAIN Lines : Lines[i].kind = "supervisor_started"}
<1>3. starts \in SUBSET (1..Len(Lines))
  BY <1>2
<1>4. starts # {} => Max(starts) \in starts
  BY <1>2, <1>3, LastPosition
<1>5. starts # {} => Lines[Max(starts)].transition_id \in Nat
  <2> DEFINE m == Max(starts)
  <2> HIDE DEF m
  <2>1. ASSUME m \in starts PROVE Lines[m] \in JournalLine
    BY <1>2, <1>3, <2>1, ElementOfSeq
  <2>2. m \in starts => Lines[m].transition_id \in Nat
    BY <2>1 DEF JournalLine
  <2> QED
    BY <1>4, <2>2 DEF m
<1>6. attempt_from_journal \in Nat
  BY <1>5 DEF attempt_from_journal
<1> QED
  BY <1>6 DEF loaded, JournalInv

(* sync_supervisor_started, up to the append.                              *)
LEMMA StartedAttempt ==
    ASSUME DurableInv, sync_supervisor_started PROVE DurableInv'
<1> USE DEF DurableInv
<1>1. /\ pc = "idle" /\ attempts' = attempts + 1 /\ call' = "started"
      /\ UNCHANGED <<snapshot, parsed, repaired>>
      /\ attempts \in Nat
  BY DEF sync_supervisor_started, run_files, JournalInv
<1>2. ASSUME FirstAttempt'
      PROVE  /\ attempts = 0 /\ FirstInv /\ journal = <<>> /\ newline = TRUE /\ snapshot = NoRecord
             /\ start_failed = FALSE /\ acked = FALSE
             /\ ~ Corrupt /\ Lines = <<>>
  <2>1. attempts = 0 /\ FirstInv
    BY <1>1, <1>2 DEF FirstAttempt
  <2>2. /\ journal = <<>> /\ newline = TRUE /\ snapshot = NoRecord
        /\ start_failed = FALSE /\ acked = FALSE
    BY <2>1 DEF FirstInv
  <2>3. Whole(<<>>)
    BY EmptySeq DEF Whole
  <2>4. Readable(journal, newline) /\ LinesOf(journal, newline) = <<>>
    BY <2>2, <2>3, WholeRead
  <2> QED
    BY <2>1, <2>2, <2>4, FileIs
<1>3. CASE Corrupt
  <2>1. /\ pc' \in {"idle", "retry"} /\ UNCHANGED <<journal, newline, record, line>>
    BY <1>3 DEF sync_supervisor_started, Fails, run_files
  <2>2. JournalInv'
    BY <1>1, <2>1 DEF JournalInv, WriterOK
  <2>3. ~ FirstAttempt'
    BY <1>2, <1>3
  <2> QED
    BY <2>2, <2>3
<1>4. CASE ~ Corrupt
  <2>1. /\ RepairJournal
        /\ line' = [sequence |-> next_journal_sequence, kind |-> "supervisor_started",
                    status |-> "Running", transition_id |-> next_journal_sequence]
        /\ record' = [status |-> "Running", event_sequence |-> next_journal_sequence,
                      transition_id |-> next_journal_sequence]
        /\ pc' = "append" /\ start_failed' = FALSE /\ acked' = FALSE
    BY <1>4 DEF sync_supervisor_started
  <2>2. /\ Whole(Lines) /\ journal' = Lines
        /\ FileOK(journal', newline')
        /\ Readable(journal', newline') /\ LinesOf(journal', newline') = Lines
        /\ newline' = FALSE => newline = FALSE /\ journal' = journal
        /\ next_journal_sequence = Len(Lines) + 1 /\ Len(Lines) \in Nat
    BY <1>4, <2>1, FileRepaired
  <2>3. Extends(Lines, line')
    BY <2>1, <2>2 DEF Extends, JournalLine, Parses, EndsAttempt
  <2>4. JournalInv'
    BY <1>1, <2>1, <2>2, <2>3 DEF JournalInv, WriterOK
  <2>5. ASSUME FirstAttempt' PROVE FirstInv'
    <3>1. Lines = <<>> /\ attempts' = 1 /\ newline = TRUE /\ journal = <<>> /\ snapshot' = NoRecord
      BY <1>1, <1>2, <2>5
    <3>2. newline' = TRUE \/ newline' = FALSE
      BY <2>2 DEF FileOK
    <3>3. newline' = TRUE
      BY <2>2, <3>1, <3>2
    <3>4. next_journal_sequence = 1
      BY <3>1 DEF next_journal_sequence
    <3>5. line' = StartLine /\ record'.transition_id = 1 /\ line'.transition_id = 1
          /\ record'.event_sequence = line'.sequence /\ record'.status = line'.status
      BY <2>1, <3>4 DEF StartLine
    <3>6. Told(Lines, call')
      BY <3>1, EmptySeq DEF Told
    <3> QED
      BY <1>1, <2>1, <2>2, <3>1, <3>3, <3>5, <3>6 DEF FirstInv, Appending
  <2> QED
    BY <2>4, <2>5
<1> QED
  BY <1>3, <1>4


(* sync_supervisor_terminal, up to the append.                             *)
LEMMA TerminalReported ==
    ASSUME DurableInv, NEW status \in Outcomes, sync_supervisor_terminal(status) PROVE DurableInv'
<1> USE DEF DurableInv
<1>1. /\ (pc = "idle" /\ MayReport(status)) \/ (pc = "retry" /\ call = status)
      /\ call' = status /\ call' # "started" /\ call' # "none"
      /\ UNCHANGED <<attempts, parsed, repaired>>
      /\ attempts \in Nat
  BY OutcomesNamed DEF sync_supervisor_terminal, JournalInv
<1>2. ASSUME FirstInv
      PROVE  /\ \A s : Told(s, call) => Told(s, call')
             /\ attempts # 0 /\ call' \in Outcomes
             /\ acked => snapshot # NoRecord /\ snapshot.event_sequence = 2
  <2>1. status \in {call} \/ call \in {"started", "Cancelled"}
    BY <1>1 DEF MayReport
  <2>2. \A s : Told(s, call) => Told(s, call')
    BY <1>1, <2>1, OutcomesNamed DEF Told
  <2>3. call # "none"
    BY <1>1, <2>1, OutcomesNamed
  <2> QED
    BY <1>1, <1>2, <2>2, <2>3 DEF FirstInv
<1>3. CASE Corrupt
  <2>1. /\ pc' \in {"idle", "retry"} /\ start_failed' = FALSE
        /\ UNCHANGED <<journal, newline, snapshot, record, line, acked>>
    BY <1>1, <1>3 DEF sync_supervisor_terminal, Fails, run_files
  <2>2. JournalInv'
    BY <1>1, <2>1 DEF JournalInv, WriterOK
  <2>3. ASSUME FirstAttempt' PROVE FirstInv'
    <3>1. FirstInv /\ ~ Readable(journal, newline)
      BY <1>1, <1>3, <2>3, FileIs DEF FirstAttempt
    <3> QED
      BY <1>1, <1>2, <2>1, <3>1 DEF FirstInv, Appending
  <2> QED
    BY <2>2, <2>3
<1>4. CASE ~ Corrupt
  <2>1. RepairJournal
    BY <1>4 DEF sync_supervisor_terminal
  <2>2. /\ Whole(Lines) /\ Lines = LinesOf(journal, newline) /\ journal' = Lines
        /\ FileOK(journal', newline')
        /\ Readable(journal', newline') /\ LinesOf(journal', newline') = Lines
        /\ newline' = FALSE => newline = FALSE /\ journal' = journal
        /\ Readable(journal, newline)
        /\ next_journal_sequence = Len(Lines) + 1
        /\ DOMAIN Lines = 1..Len(Lines) /\ Len(Lines) \in Nat
    BY <1>4, <2>1, FileRepaired
  <2>3. ASSUME FirstAttempt'
        PROVE  /\ FirstInv /\ Told(Lines, call')
               /\ snapshot # NoRecord => ProperRecord(snapshot) /\ Agrees(snapshot, Lines)
               /\ newline' = FALSE /\ Len(journal') \in 0..1 => snapshot = NoRecord
               /\ attempts' # 0 /\ call' \in Outcomes
               /\ acked => snapshot # NoRecord /\ snapshot.event_sequence = 2
    <3>1. FirstInv
      BY <1>1, <2>3 DEF FirstAttempt
    <3>2. Told(Lines, call')
      BY <1>2, <2>2, <3>1 DEF FirstInv
    <3>3. snapshot # NoRecord => ProperRecord(snapshot) /\ Agrees(snapshot, Lines)
      BY <2>2, <3>1 DEF FirstInv
    <3>4. newline' = FALSE /\ Len(journal') \in 0..1 => snapshot = NoRecord
      BY <2>2, <3>1 DEF FirstInv
    <3> QED
      BY <1>1, <1>2, <3>1, <3>2, <3>3, <3>4
  <2>4. CASE Missing \/ loaded.transition_id = 0
    <3>1. /\ pc' \in {"idle", "retry"} /\ start_failed' = FALSE
          /\ UNCHANGED <<snapshot, record, line, acked>>
      BY <1>1, <1>4, <2>4 DEF sync_supervisor_terminal, Fails
    <3>2. JournalInv'
      BY <1>1, <2>2, <3>1 DEF JournalInv, WriterOK
    <3>3. ASSUME FirstAttempt' PROVE FirstInv'
      BY <1>1, <2>2, <2>3, <3>1, <3>3 DEF FirstInv, Appending
    <3> QED
      BY <3>2, <3>3
  <2>5. CASE ~ (Missing \/ loaded.transition_id = 0)
    <3> DEFINE id == loaded.transition_id
               sequence == IF existing(id) # {} THEN Lines[Min(existing(id))].sequence
                                                ELSE next_journal_sequence
    <3>1. /\ record' = [status |-> status, event_sequence |-> sequence, transition_id |-> id]
          /\ line' = [sequence |-> sequence, kind |-> "supervisor_terminal",
                      status |-> status, transition_id |-> id]
          /\ pc' = IF existing(id) # {} THEN "store" ELSE "append"
          /\ start_failed' = FALSE /\ UNCHANGED <<snapshot, acked>>
      BY <1>4, <2>5 DEF sync_supervisor_terminal, PrepareTerminal
    <3>2. id \in Nat
      BY <1>4, <2>5, LoadedTyped
    <3>3. existing(id) = {i \in 1..Len(Lines) : EndsAttempt(Lines[i]) /\ Lines[i].transition_id = id}
      BY <2>2 DEF existing, Terminals, EndsAttempt
    <3>4. ASSUME FirstAttempt' PROVE id = 1 /\ Len(Lines) \in {1, 2}
      <4>1. Len(Lines) # 0
        <5>1. ASSUME Len(Lines) = 0 PROVE FALSE
          <6>1. Lines = <<>>
            BY <2>2, <5>1, EmptySeq DEF Whole
          <6>2. snapshot # NoRecord
            BY <2>5, <6>1 DEF Missing
          <6>3. ProperRecord(snapshot) /\ Agrees(snapshot, Lines)
            BY <2>3, <3>4, <6>2
          <6> QED
            BY <5>1, <6>3 DEF ProperRecord, Agrees
        <5> QED
          BY <5>1
      <4>2. Told(Lines, call')
        BY <2>3, <3>4
      <4>3. Len(Lines) \in {1, 2} /\ Lines[1] = StartLine
        BY <4>1, <4>2 DEF Told
      <4>4. attempt_from_journal = 1
        <5>1. {i \in DOMAIN Lines : Lines[i].kind = "supervisor_started"} = {1}
          BY <2>2, <4>2, <4>3 DEF Told, EndsAttempt, StartLine
        <5>2. Max({1}) = 1
          BY DEF Max
        <5> QED
          BY <4>3, <5>1, <5>2 DEF attempt_from_journal, StartLine
      <4>5. snapshot # NoRecord => snapshot.transition_id = 1
        BY <2>3, <3>4 DEF ProperRecord
      <4>6. id = 1
        BY <4>4, <4>5 DEF loaded
      <4> QED
        BY <4>3, <4>6
    <3> HIDE DEF id
    <3>5. CASE existing(id) = {}
      <4>1. sequence = Len(Lines) + 1
        BY <2>2, <3>5
      <4> HIDE DEF sequence
      <4>2. Extends(Lines, line')
        <5>1. \A i \in 1..Len(Lines) : EndsAttempt(Lines[i]) => Lines[i].transition_id # id
          BY <3>3, <3>5
        <5> QED
          BY <2>2, <3>1, <3>2, <4>1, <5>1, OutcomesNamed DEF Extends, JournalLine, Parses, EndsAttempt
      <4>3. record'.transition_id = id /\ pc' = "append"
        BY <3>1, <3>5
      <4>4. JournalInv'
        BY <1>1, <2>2, <3>1, <3>2, <4>2, <4>3 DEF JournalInv, WriterOK
      <4>5. ASSUME FirstAttempt' PROVE FirstInv'
        <5>1. Told(Lines, call') /\ id = 1 /\ Len(Lines) \in {1, 2}
          BY <2>3, <3>4, <4>5
        <5>2. Len(Lines) # 2
          <6>1. ASSUME Len(Lines) = 2 PROVE FALSE
            BY <3>3, <3>5, <5>1, <6>1 DEF Told
          <6> QED
            BY <6>1
        <5>3. Len(Lines) = 1 /\ sequence = 2
          <6>1. Len(Lines) = 1
            BY <5>1, <5>2
          <6>2. sequence = 1 + 1
            BY <4>1, <6>1
          <6> QED
            BY <6>1, <6>2
        <5>4. /\ record'.transition_id = 1 /\ line'.transition_id = 1
              /\ record'.event_sequence = line'.sequence /\ record'.status = line'.status
              /\ line'.sequence = 2 /\ EndsAttempt(line') /\ line'.status = call'
          BY <1>1, <3>1, <5>1, <5>3 DEF EndsAttempt
        <5> QED
          BY <1>1, <2>2, <2>3, <3>1, <4>3, <4>5, <5>1, <5>4 DEF FirstInv, Appending
      <4> QED
        BY <4>4, <4>5
    <3>6. CASE existing(id) # {}
      <4>1. record'.transition_id = id /\ pc' = "store"
        BY <3>1, <3>6
      <4>2. JournalInv'
        BY <1>1, <2>2, <3>1, <3>2, <4>1 DEF JournalInv, WriterOK
      <4>3. ASSUME FirstAttempt' PROVE FirstInv'
        <5>1. Told(Lines, call') /\ id = 1 /\ Len(Lines) \in {1, 2}
          BY <2>3, <3>4, <4>3
        <5>2. existing(id) = {2} /\ Len(Lines) = 2
          BY <3>3, <3>6, <5>1 DEF Told, StartLine, EndsAttempt
        <5>3. Min({2}) = 2
          BY DEF Min
        <5>4. Lines[2].sequence = 2
          BY <2>2, <5>2 DEF Whole
        <5>5. sequence = 2
          BY <5>2, <5>3, <5>4
        <5> HIDE DEF sequence
        <5>6. record'.event_sequence = 2 /\ record'.status = status /\ record'.transition_id = 1
          BY <3>1, <5>1, <5>5
        <5>7. ProperRecord(record') /\ Agrees(record', Lines)
          BY <1>1, <5>1, <5>2, <5>6 DEF ProperRecord, Agrees, Told
        <5>8. Len(journal') = 2 /\ ~ (record'.event_sequence = 1)
          BY <2>2, <5>2, <5>6
        <5> QED
          BY <1>1, <2>2, <2>3, <3>1, <4>1, <4>3, <5>1, <5>7, <5>8 DEF FirstInv, Appending
      <4> QED
        BY <4>2, <4>3
    <3> QED
      BY <3>5, <3>6
  <2> QED
    BY <2>4, <2>5
<1> QED
  BY <1>3, <1>4

(* An error and a crash leave the files as they are, and no writer.        *)
LEMMA WriterStops ==
    ASSUME DurableInv, IoError \/ Crash PROVE DurableInv'
<1> USE DEF DurableInv
<1>1. /\ pc # "idle" /\ pc' \in {"idle", "retry"}
      /\ pc' = "retry" => call # "started"
      /\ start_failed' => start_failed \/ (call = "started" /\ pc' = "idle")
      /\ UNCHANGED <<journal, newline, snapshot, call, record, line, acked, attempts, parsed, repaired>>
  <2>1. CASE Crash
    BY <2>1 DEF Crash, run_files
  <2>2. CASE IoError
    <3>1. /\ pc' = IF call' # "started" /\ tries' > 0 THEN "retry" ELSE "idle"
          /\ start_failed' = (call' = "started")
          /\ UNCHANGED <<journal, newline, snapshot, call, record, line, acked, attempts, parsed, repaired>>
      BY <2>2 DEF IoError, Fails, run_files
    <3>2. pc \in {"append", "rest", "newline", "store"}
      BY <2>2 DEF IoError
    <3>3. start_failed' => call = "started" /\ pc' = "idle"
      BY <3>1
    <3> QED
      BY <3>1, <3>2, <3>3
  <2> QED
    BY <2>1, <2>2
<1>2. JournalInv'
  BY <1>1 DEF JournalInv, WriterOK
<1>3. ASSUME FirstAttempt' PROVE FirstInv'
  <2>1. FirstInv
    BY <1>1, <1>3 DEF FirstAttempt
  <2>2. attempts # 0 /\ call # "none" /\ ~ start_failed
    BY <1>1, <2>1 DEF FirstInv
  <2>3. pc' \notin Appending /\ pc' # "store"
    BY <1>1 DEF Appending
  <2>4. pc' = "retry" => call \in Outcomes
    BY <1>1, <2>1, <2>2 DEF FirstInv
  <2> QED
    BY <1>1, <2>1, <2>2, <2>3, <2>4 DEF FirstInv
<1> QED
  BY <1>2, <1>3

(* remove_durable_run_artifacts, after a start that failed.                *)
LEMMA ArtifactsRemoved ==
    ASSUME DurableInv, remove_durable_run_artifacts PROVE DurableInv'
<1> USE DEF DurableInv
<1>1. /\ pc = "idle" /\ start_failed
      /\ journal' = <<>> /\ newline' = TRUE /\ snapshot' = NoRecord /\ start_failed' = FALSE
      /\ UNCHANGED <<pc, call, tries, record, line, acked, attempts, parsed, repaired>>
  BY DEF remove_durable_run_artifacts
<1>2. Whole(<<>>) /\ <<>> \in Seq(JournalLine) /\ Len(<<>>) = 0
  BY EmptySeq DEF Whole
<1>3. Readable(<<>>, TRUE) /\ LinesOf(<<>>, TRUE) = <<>>
  BY <1>2, WholeRead
<1>4. JournalInv'
  BY <1>1, <1>2, <1>3 DEF JournalInv, FileOK, WriterOK, NoRecord
<1>5. ASSUME FirstAttempt' PROVE FirstInv'
  <2>1. FirstInv
    BY <1>1, <1>5 DEF FirstAttempt
  <2>2. ~ acked /\ attempts # 0
    BY <1>1, <2>1, OutcomesNamed DEF FirstInv
  <2>3. Told(<<>>, call)
    BY <1>2 DEF Told
  <2> QED
    BY <1>1, <1>2, <1>3, <2>1, <2>2, <2>3 DEF FirstInv, Appending
<1> QED
  BY <1>4, <1>5

(* A reader writes back what was once in the file.                         *)
LEMMA ReaderActs ==
    ASSUME DurableInv, NEW r \in Readers, ReadTorn(r) \/ ReaderRepairs(r) PROVE DurableInv'
<1> USE DEF DurableInv
<1>1. CASE ReadTorn(r)
  <2>1. /\ parsed' = [parsed EXCEPT ![r] = Lines] /\ TornTail
        /\ UNCHANGED <<journal, newline, snapshot, pc, call, record, line, start_failed, acked,
                       attempts, repaired>>
    BY <1>1 DEF ReadTorn, run_files, run_writer
  <2>2. Whole(Lines)
    BY <2>1, FileIs DEF JournalInv, FileOK, TornEnd
  <2>3. \A q \in Readers : parsed'[q] = parsed[q] \/ parsed'[q] = Lines
    BY <2>1 DEF JournalInv
  <2>4. JournalInv'
    BY <2>1, <2>2, <2>3 DEF JournalInv
  <2>5. FirstAttempt' => FirstInv'
    BY <2>1 DEF FirstAttempt, FirstInv
  <2> QED
    BY <2>4, <2>5
<1>2. CASE ReaderRepairs(r)
  <2>1. /\ parsed[r] # NoLines /\ pc \in {"idle", "retry"}
        /\ journal' = parsed[r] /\ newline' = TRUE /\ repaired' = TRUE
        /\ parsed' = [parsed EXCEPT ![r] = NoLines]
        /\ UNCHANGED <<snapshot, pc, record, attempts>>
    BY <1>2 DEF ReaderRepairs, run_writer
  <2>2. Whole(parsed[r])
    BY <2>1 DEF JournalInv
  <2>3. \A q \in Readers : parsed'[q] = parsed[q] \/ parsed'[q] = NoLines
    BY <2>1 DEF JournalInv
  <2>4. FileOK(journal', newline')
    <3>1. LinesOf(parsed[r], TRUE) = parsed[r]
      BY <2>2, WholeRead
    <3>2. FileOK(parsed[r], TRUE)
      BY <2>2, <3>1 DEF FileOK, Whole
    <3> QED
      BY <2>1, <3>2
  <2>5. JournalInv'
    BY <2>1, <2>3, <2>4 DEF JournalInv, WriterOK
  <2>6. ~ FirstAttempt'
    BY <2>1 DEF FirstAttempt
  <2> QED
    BY <2>5, <2>6
<1> QED
  BY <1>1, <1>2

(* Every step of the writer and of the readers keeps the invariant.        *)
LEMMA DurableInvInductive == DurableInv /\ [Next]_vars => DurableInv'
<1> SUFFICES ASSUME DurableInv, [Next]_vars PROVE DurableInv'
  OBVIOUS
<1>1. CASE UNCHANGED vars
  BY <1>1 DEF vars, run_files, run_writer, DurableInv, JournalInv, FirstAttempt, FirstInv
<1>2. CASE Next
  BY <1>2, StartedAttempt, TerminalReported, BodyAppended, PartAppended, RestAppended,
     NewlineAppended, SnapshotStored, WriterStops, ArtifactsRemoved, ReaderActs DEF Next
<1> QED
  BY <1>1, <1>2

(* What the invariant says of what is read.                                *)
LEMMA JournalTells == DurableInv => JournalSound
<1> SUFFICES ASSUME DurableInv PROVE JournalSound
  OBVIOUS
<1>1. CASE Corrupt
  BY <1>1 DEF JournalSound, SequencesIncrease, OneCompletion, JournalFirst, ProjectionAgrees,
             CompletionSticks, load_durable_run
<1>2. CASE ~ Corrupt
  <2>1. Whole(Lines) /\ Readable(journal, newline) /\ Lines = LinesOf(journal, newline)
    BY <1>2, FileIs DEF DurableInv, JournalInv, FileOK
  <2>2. DOMAIN Lines = 1..Len(Lines) /\ Len(Lines) \in Nat
    BY <2>1, LenProperties DEF Whole
  <2>3. \A i \in DOMAIN Lines : Lines[i].sequence = i
    BY <2>1, <2>2 DEF Whole
  <2>4. SequencesIncrease
    <3> SUFFICES ASSUME NEW i \in DOMAIN Lines, NEW j \in DOMAIN Lines, i < j
                 PROVE  Lines[i].sequence < Lines[j].sequence
      BY DEF SequencesIncrease
    <3>1. Lines[i].sequence = i /\ Lines[j].sequence = j
      BY <2>3
    <3> QED
      BY <3>1
  <2>5. OneCompletion
    BY <2>1, <2>2 DEF OneCompletion, Terminals, Whole, EndsAttempt
  <2>6. ASSUME FirstAttempt
        PROVE  /\ Told(Lines, call)
               /\ snapshot # NoRecord => ProperRecord(snapshot) /\ Agrees(snapshot, Lines)
               /\ acked => call \in Outcomes /\ snapshot # NoRecord /\ snapshot.event_sequence = 2
    BY <2>1, <2>6 DEF DurableInv, FirstInv
  <2>7. JournalFirst
    <3> SUFFICES ASSUME FirstAttempt, snapshot # NoRecord
                 PROVE  \E i \in DOMAIN Lines : Lines[i].sequence = snapshot.event_sequence
      BY DEF JournalFirst
    <3>1. snapshot.event_sequence \in {1, 2} /\ snapshot.event_sequence <= Len(Lines)
      BY <2>6 DEF ProperRecord, Agrees
    <3>2. snapshot.event_sequence \in DOMAIN Lines
      BY <2>2, <3>1
    <3> QED
      BY <2>3, <3>2
  <2>8. ASSUME Lines # <<>>
        PROVE  Len(Lines) # 0 /\ Last(Lines) = Lines[Len(Lines)] /\ Last(Lines).sequence = Len(Lines)
    <3>1. Len(Lines) \in Nat \ {0} /\ Last(Lines) = Lines[Len(Lines)]
      BY <2>1, <2>8, FrontIs DEF Whole
    <3> QED
      BY <2>2, <2>3, <3>1
  <2>9. ASSUME FirstAttempt, Lines # <<>>, snapshot # NoRecord, snapshot.event_sequence = Len(Lines)
        PROVE  /\ load_durable_run = snapshot.status
               /\ Last(Lines).status \in {"Cancelled", snapshot.status}
    <3>1. ProperRecord(snapshot) /\ Agrees(snapshot, Lines) /\ Told(Lines, call)
      BY <2>6, <2>9
    <3>2. Last(Lines).sequence <= snapshot.event_sequence
      BY <2>2, <2>8, <2>9
    <3>3. load_durable_run = snapshot.status
      BY <1>2, <2>9, <3>2 DEF load_durable_run, Missing, loaded
    <3>4. Last(Lines) = Lines[Len(Lines)]
      BY <2>8, <2>9
    <3>5. CASE snapshot.event_sequence = 1
      BY <2>9, <3>1, <3>3, <3>4, <3>5 DEF ProperRecord, Told, StartLine
    <3>6. CASE snapshot.event_sequence = 2
      BY <2>9, <3>1, <3>3, <3>4, <3>6 DEF Agrees
    <3> QED
      BY <3>1, <3>5, <3>6, <3>3 DEF ProperRecord
  <2>10. ProjectionAgrees
    <3> SUFFICES ASSUME FirstAttempt, Lines # <<>>
                 PROVE  Last(Lines).status \in {"Cancelled", load_durable_run}
      BY DEF ProjectionAgrees
    <3>1. CASE snapshot # NoRecord /\ snapshot.event_sequence = Len(Lines)
      BY <2>9, <3>1
    <3>2. CASE snapshot # NoRecord /\ snapshot.event_sequence # Len(Lines)
      <4>1. snapshot.event_sequence \in {1, 2} /\ snapshot.event_sequence <= Len(Lines)
            /\ Last(Lines).sequence = Len(Lines)
        BY <2>6, <2>8, <3>2 DEF ProperRecord, Agrees
      <4>2. ~ (Last(Lines).sequence <= snapshot.event_sequence)
        BY <2>2, <3>2, <4>1
      <4> QED
        BY <1>2, <4>2, <3>2 DEF load_durable_run, Missing, loaded
    <3>3. CASE snapshot = NoRecord
      BY <1>2, <3>3 DEF load_durable_run, Missing, loaded
    <3> QED
      BY <3>1, <3>2, <3>3
  <2>11. CompletionSticks
    <3> SUFFICES ASSUME FirstAttempt, acked PROVE load_durable_run \notin {"Running", "missing"}
      BY DEF CompletionSticks
    <3>1. /\ snapshot # NoRecord /\ snapshot.event_sequence = 2
          /\ ProperRecord(snapshot) /\ Agrees(snapshot, Lines) /\ Told(Lines, call)
      BY <2>6
    <3>2. Len(Lines) = 2
      BY <3>1 DEF Agrees, Told
    <3>3. Lines # <<>>
      BY <3>2, EmptySeq
    <3>4. load_durable_run = snapshot.status
      BY <2>9, <3>1, <3>2, <3>3
    <3>5. snapshot.status \in Outcomes
      BY <3>1 DEF ProperRecord
    <3> QED
      BY <3>4, <3>5, OutcomesNamed
  <2> QED
    BY <2>4, <2>5, <2>7, <2>10, <2>11 DEF JournalSound
<1> QED
  BY <1>1, <1>2

(* What the journal says is never said twice and stays in order, and what  *)
(* the snapshot says of a first attempt the journal says too, whatever     *)
(* writes, renames and processes fail in between.                          *)
THEOREM JournalsSound == Spec => []JournalSound
<1>1. Init => DurableInv
  <2> SUFFICES ASSUME Init PROVE DurableInv
    OBVIOUS
  <2>1. Whole(<<>>) /\ <<>> \in Seq(JournalLine) /\ Len(<<>>) = 0
    BY EmptySeq DEF Whole
  <2>2. Readable(<<>>, TRUE) /\ LinesOf(<<>>, TRUE) = <<>>
    BY <2>1, WholeRead
  <2>3. JournalInv
    BY <2>1, <2>2 DEF Init, JournalInv, FileOK, WriterOK, NoRecord
  <2>4. Told(<<>>, "none")
    BY <2>1 DEF Told
  <2>5. FirstInv
    BY <2>1, <2>2, <2>4 DEF Init, FirstInv, Appending
  <2> QED
    BY <2>3, <2>5 DEF DurableInv
<1> QED
  BY <1>1, DurableInvInductive, JournalTells, PTL DEF Spec

-----------------------------------------------------------------------------
(* The journal of a specification's run                                    *)

(* How many of the numbers in A are not above i.                           *)
Upto(A, i) == Cardinality({j \in A : j <= i})

(* One more position after all others: it is the last, and the others keep *)
(* their numbers.                                                          *)
LEMMA UptoGrows ==
    ASSUME NEW n \in Nat, NEW A \in SUBSET (1..n)
    PROVE  /\ IsFiniteSet(A) /\ Cardinality(A) \in Nat
           /\ \A i \in A : Upto(A, i) \in 1..Cardinality(A)
           /\ Cardinality(A \cup {n + 1}) = Cardinality(A) + 1
           /\ Upto(A \cup {n + 1}, n + 1) = Cardinality(A) + 1
           /\ \A i \in A : Upto(A \cup {n + 1}, i) = Upto(A, i)
  <1>1. IsFiniteSet(A) /\ Cardinality(A) \in Nat
    <2>1. IsFiniteSet(1..n)
      <3>1. 1 \in Int /\ n \in Int
        OBVIOUS
      <3> QED
        BY <3>1, FS_Interval
    <2> QED
      BY <2>1, FS_Subset, FS_CardinalityType
  <1>2. ASSUME NEW i \in A
        PROVE  Upto(A, i) \in 1..Cardinality(A)
    <2> DEFINE B == {j \in A : j <= i}
    <2>1. IsFiniteSet(B) /\ Cardinality(B) <= Cardinality(A)
      BY <1>1, FS_Subset
    <2>2. i \in B
      OBVIOUS
    <2>3. Cardinality(B) \in Nat /\ Cardinality(B) # 0
      BY <2>1, <2>2, FS_CardinalityType, FS_EmptySet
    <2> QED
      BY <1>1, <2>1, <2>3 DEF Upto
  <1>3. n + 1 \notin A
    OBVIOUS
  <1>4. Cardinality(A \cup {n + 1}) = Cardinality(A) + 1
    BY <1>1, <1>3, FS_AddElement
  <1>5. {j \in A \cup {n + 1} : j <= n + 1} = A \cup {n + 1}
    <2>1. \A j \in A \cup {n + 1} : j <= n + 1
      <3>1. \A j \in 1..n : j <= n + 1
        OBVIOUS
      <3> QED
        BY <3>1
    <2> QED
      BY <2>1
  <1>6. \A i \in A : {j \in A \cup {n + 1} : j <= i} = {j \in A : j <= i}
    OBVIOUS
  <1> QED
    BY <1>1, <1>2, <1>4, <1>5, <1>6 DEF Upto

(* As many numbers when each is one less.                                  *)
LEMMA ShiftCount ==
    ASSUME NEW X \in SUBSET (Nat \ {0}), IsFiniteSet(X)
    PROVE  Cardinality({k \in Nat : k + 1 \in X}) = Cardinality(X)
  <1> DEFINE Y == {k \in Nat : k + 1 \in X}
             f == [x \in X |-> x - 1]
  <1>1. \A x \in X : x - 1 \in Y
    OBVIOUS
  <1>2. f \in [X -> Y]
    BY <1>1
  <1>3. \A k \in Y : k + 1 \in X /\ f[k + 1] = k
    OBVIOUS
  <1>4. \A x, y \in X : f[x] = f[y] => x = y
    OBVIOUS
  <1>5. f \in Bijection(X, Y)
    <2> HIDE DEF f, Y
    <2>1. f \in Injection(X, Y)
      BY <1>2, <1>4 DEF Injection, IsInjective
    <2>2. f \in Surjection(X, Y)
      BY <1>2, <1>3 DEF Surjection
    <2> QED
      BY <2>1, <2>2 DEF Bijection
  <1> HIDE DEF f, Y
  <1>6. Cardinality(Y) = Cardinality(X)
    BY <1>5, FS_Bijection DEF ExistsBijection
  <1> QED
    BY <1>6 DEF Y

(* The first position goes: the others are one less.                       *)
LEMMA UptoShifts ==
    ASSUME NEW n \in Nat, NEW A \in SUBSET (1..n)
    PROVE  LET D == {k \in Nat : k + 1 \in A \ {1}}
           IN  /\ 1 \in A => /\ Cardinality(A) = Cardinality(D) + 1
                             /\ Upto(A, 1) = 1
                             /\ \A k \in D : Upto(A, k + 1) = Upto(D, k) + 1
               /\ 1 \notin A => /\ Cardinality(A) = Cardinality(D)
                                /\ \A k \in D : Upto(A, k + 1) = Upto(D, k)
  <1> DEFINE D == {k \in Nat : k + 1 \in A \ {1}}
  <1>1. IsFiniteSet(A) /\ A \subseteq Nat \ {0}
    <2>1. \A j \in 1..n : j \in Nat \ {0}
      OBVIOUS
    <2> QED
      BY <2>1, UptoGrows
  <1>2. ASSUME NEW B \in SUBSET A
        PROVE  /\ Cardinality({k \in Nat : k + 1 \in B \ {1}}) = Cardinality(B \ {1})
               /\ Cardinality(B \ {1}) \in Nat
               /\ Cardinality(B) = IF 1 \in B THEN Cardinality(B \ {1}) + 1 ELSE Cardinality(B \ {1})
    <2>1. IsFiniteSet(B) /\ IsFiniteSet(B \ {1}) /\ B \ {1} \in SUBSET (Nat \ {0})
      BY <1>1, FS_Subset
    <2>2. Cardinality(B) \in Nat
      BY <2>1, FS_CardinalityType
    <2> QED
      BY <2>1, <2>2, ShiftCount, FS_RemoveElement, FS_CardinalityType
  <1>3. Cardinality(A) = IF 1 \in A THEN Cardinality(D) + 1 ELSE Cardinality(D)
    BY <1>2
  <1>4. 1 \in A => Upto(A, 1) = 1
    <2>1. \A j \in A : j <= 1 <=> j = 1
      BY <1>1
    <2>2. 1 \in A => {j \in A : j <= 1} = {1}
      BY <2>1
    <2> QED
      BY <2>2, FS_Singleton DEF Upto
  <1>5. ASSUME NEW k \in D
        PROVE  Upto(A, k + 1) = IF 1 \in A THEN Upto(D, k) + 1 ELSE Upto(D, k)
    <2> DEFINE B == {j \in A : j <= k + 1}
    <2>1. {i \in Nat : i + 1 \in B \ {1}} = {i \in D : i <= k}
      OBVIOUS
    <2>2. 1 \in A <=> 1 \in B
      OBVIOUS
    <2>3. B \in SUBSET A
      OBVIOUS
    <2> HIDE DEF B, D
    <2> QED
      BY <1>2, <2>1, <2>2, <2>3 DEF Upto, B
  <1> QED
    BY <1>3, <1>4, <1>5

-----------------------------------------------------------------------------
Texts == {<<t>> : t \in SpecTexts}
SpecChunks == [source : SpecStreams, text : Texts]
Rows == [sequence : Nat, run : Nat, kind : {"started", "log", "exited", "cancelled"},
         source : {"local"} \cup SpecStreams, text : {<<>>} \cup Texts]
Writing == {"write", "fill", "index", "append"}
Closing == {"wait", "end", "returned"}
Active == sr_pc \notin {"idle", "error", "dead"}

SpecTypeOK ==
    /\ sr_events \in Seq(Rows)
    /\ sr_chunks \in [SpecTexts -> {"none", "partial", "whole"}]
    /\ sr_indexed \in SUBSET SpecTexts
    /\ sr_runs \in Nat /\ sr_sequence \in Nat
    /\ sr_pc \in {"idle", "open", "spawn", "receive", "error", "dead"} \cup Writing \cup Closing
    /\ sr_chunk \in SpecChunks \cup {NoSpecChunk}
    /\ sr_wrote \in [SpecStreams -> Seq(SpecTexts)]
    /\ sr_pipe \in [SpecStreams -> Seq(SpecTexts)]
    /\ sr_held \in [SpecStreams -> {<<>>} \cup Texts]
    /\ sr_open \in SUBSET SpecStreams
    /\ sr_channel \in Seq(SpecChunks)

(* The rows are numbered, belong to attempts that were begun, and name     *)
(* chunks that are indexed, which are whole.                               *)
RowsRead ==
    \A i \in DOMAIN sr_events :
        /\ sr_events[i].sequence = i /\ sr_events[i].run <= sr_runs
        /\ sr_events[i].kind = "log" => sr_events[i].text \in Texts /\ sr_events[i].text[1] \in sr_indexed
JournalReads ==
    /\ RowsRead
    /\ \A t \in sr_indexed : sr_chunks[t] = "whole"
    /\ sr_pc \in Writing => sr_chunk \in SpecChunks
    /\ sr_pc = "index" => sr_chunks[sr_chunk.text[1]] = "whole"
    /\ sr_pc = "append" => sr_chunk.text[1] \in sr_indexed

(* Where the chunks of a stream are: in the journal, in hand, in the       *)
(* channel, with the reader and in the pipe, in this order.                *)
InHand(s) == IF sr_pc \in Writing /\ sr_chunk.source = s THEN 1 ELSE 0
Taken(s) == Cardinality(RunLogs(s)) + InHand(s)
InChannel(s) == {k \in DOMAIN sr_channel : sr_channel[k].source = s}
Through(s) == Taken(s) + Cardinality(InChannel(s))
FlowOf(s) ==
    /\ Len(sr_wrote[s]) = Through(s) + Len(sr_held[s]) + Len(sr_pipe[s])
    /\ \A i \in RunLogs(s) : sr_events[i].text[1] = sr_wrote[s][Upto(RunLogs(s), i)]
    /\ InHand(s) = 1 => sr_chunk.text[1] = sr_wrote[s][Taken(s)]
    /\ \A k \in InChannel(s) :
           sr_channel[k].text[1] = sr_wrote[s][Taken(s) + Upto(InChannel(s), k)]
    /\ sr_held[s] # <<>> => sr_held[s][1] = sr_wrote[s][Through(s) + 1]
    /\ \A i \in 1..Len(sr_pipe[s]) :
           sr_pipe[s][i] = sr_wrote[s][Through(s) + Len(sr_held[s]) + i]

(* A reader that has ended left nothing behind, and nothing comes after.   *)
EndsClean ==
    /\ Active /\ sr_pc \notin {"open", "spawn"} =>
           \A s \in SpecStreams \ sr_open : sr_held[s] = <<>> /\ sr_pipe[s] = <<>> /\ ChildGone
    /\ sr_pc \in Closing => sr_open = {} /\ sr_channel = <<>>

SpecInv ==
    /\ SpecTypeOK /\ JournalReads /\ EndsClean
    /\ Active => \A s \in SpecStreams : FlowOf(s)


(* No output is output of the right type.                                  *)
LEMMA NoOutputTyped ==
    /\ NoOutput \in [SpecStreams -> Seq(SpecTexts)]
    /\ NoOutput \in [SpecStreams -> {<<>>} \cup Texts]
    /\ \A s \in SpecStreams : NoOutput[s] = <<>>
    /\ <<>> \in Seq(SpecChunks)
  BY DEF NoOutput

(* Nothing under way is of the right type.                                 *)
LEMMA NoFlowTyped ==
    ASSUME NoFlow
    PROVE  /\ (sr_chunk \in SpecChunks \cup {NoSpecChunk})'
           /\ (sr_wrote \in [SpecStreams -> Seq(SpecTexts)])'
           /\ (sr_pipe \in [SpecStreams -> Seq(SpecTexts)])'
           /\ (sr_held \in [SpecStreams -> {<<>>} \cup Texts])'
           /\ (sr_open \in SUBSET SpecStreams)'
           /\ (sr_channel \in Seq(SpecChunks))'
  BY NoOutputTyped DEF NoFlow, NoSpecChunk

(* A row is appended, or the attempt ends in an error.                     *)
LEMMA AppendTyped ==
    ASSUME SpecTypeOK, NEW kind \in {"started", "log", "exited", "cancelled"},
           NEW source \in {"local"} \cup SpecStreams, NEW text \in {<<>>} \cup Texts,
           NEW next, AppendEvent(kind, source, text, next)
    PROVE  /\ (sr_events \in Seq(Rows))'
           /\ sr_pc' \in {next, "error"}
           /\ \/ sr_events' = sr_events /\ sr_pc' = "error"
              \/ /\ sr_pc' = next
                 /\ Len(sr_events') = Len(sr_events) + 1
                 /\ \A i \in 1..Len(sr_events) : sr_events'[i] = sr_events[i]
                 /\ sr_events'[Len(sr_events) + 1]
                      = [sequence |-> Len(sr_events) + 1, run |-> sr_runs, kind |-> kind,
                         source |-> source, text |-> text]
  <1> DEFINE r == [sequence |-> sr_sequence, run |-> sr_runs, kind |-> kind,
                   source |-> source, text |-> text]
  <1>1. r \in Rows
    BY DEF Rows, SpecTypeOK
  <1>2. sr_events \in Seq(Rows)
    BY DEF SpecTypeOK
  <1>3. CASE sr_sequence = Len(sr_events) + 1
    <2>1. sr_events' = Append(sr_events, r) /\ sr_pc' = next
      BY <1>3 DEF AppendEvent
    <2>2. r = [sequence |-> Len(sr_events) + 1, run |-> sr_runs, kind |-> kind,
               source |-> source, text |-> text]
      BY <1>3
    <2> HIDE DEF r
    <2>3. /\ Append(sr_events, r) \in Seq(Rows)
          /\ Len(Append(sr_events, r)) = Len(sr_events) + 1
          /\ \A i \in 1..Len(sr_events) : Append(sr_events, r)[i] = sr_events[i]
          /\ Append(sr_events, r)[Len(sr_events) + 1] = r
      BY <1>1, <1>2, AppendProperties
    <2> QED
      BY <2>1, <2>2, <2>3
  <1>4. CASE sr_sequence # Len(sr_events) + 1
    BY <1>2, <1>4 DEF AppendEvent
  <1> QED
    BY <1>3, <1>4

(* What the leaf writes is among the texts.                                *)
LEMMA SpecOutputTyped ==
    ASSUME NEW i \in 1..Len(SpecOutput) PROVE SpecOutput[i] \in SpecTexts
  BY SpecRunAssumption DEF SpecTexts

(* Every step keeps the types.                                             *)
LEMMA SpecTyped ==
    ASSUME SpecTypeOK, JournalReads, [SpecRunNext]_sr_vars
    PROVE  SpecTypeOK'
  <1> USE DEF SpecTypeOK, sr_journal, sr_count, sr_flow, Writing, Closing
  <1>1. CASE OpenJournal
    BY <1>1, NoFlowTyped DEF OpenJournal
  <1>2. CASE AppendStarted
    <2>1. (sr_events \in Seq(Rows))' /\ sr_pc' \in {"spawn", "error"}
      BY <1>2, AppendTyped DEF AppendStarted
    <2> QED
      BY <1>2, <2>1 DEF AppendStarted
  <1>3. CASE SpawnLeaf
    BY <1>3 DEF SpawnLeaf
  <1>4. CASE ChildWrites
    <2>1. PICK s \in SpecStreams :
            LET count == Len(sr_wrote["stdout"]) + Len(sr_wrote["stderr"])
            IN  /\ count < Len(SpecOutput)
                /\ \/ /\ sr_wrote' = [sr_wrote EXCEPT ![s] = Append(@, SpecOutput[count + 1])]
                      /\ sr_pipe' = [sr_pipe EXCEPT ![s] = Append(@, SpecOutput[count + 1])]
                   \/ UNCHANGED <<sr_wrote, sr_pipe>>
      BY <1>4 DEF ChildWrites, SpecStreams
    <2> DEFINE k == Len(sr_wrote["stdout"]) + Len(sr_wrote["stderr"])
    <2>2. k + 1 \in 1..Len(SpecOutput)
      BY <2>1, SpecRunAssumption DEF SpecStreams
    <2>3. SpecOutput[k + 1] \in SpecTexts
      BY <2>2, SpecOutputTyped
    <2> HIDE DEF k
    <2>4. /\ Append(sr_wrote[s], SpecOutput[k + 1]) \in Seq(SpecTexts)
          /\ Append(sr_pipe[s], SpecOutput[k + 1]) \in Seq(SpecTexts)
      BY <2>3
    <2>5. /\ (sr_wrote \in [SpecStreams -> Seq(SpecTexts)])'
          /\ (sr_pipe \in [SpecStreams -> Seq(SpecTexts)])'
      BY ZenonT(60), <2>1, <2>4 DEF k
    <2> QED
      BY <1>4, <2>5 DEF ChildWrites
  <1>5. CASE ChildExits \/ ChildKilled
    BY <1>5 DEF ChildExits, ChildKilled
  <1>6. ASSUME NEW s \in SpecStreams, ReaderReads(s)
        PROVE  SpecTypeOK'
    <2>1. Head(sr_pipe[s]) \in SpecTexts /\ Tail(sr_pipe[s]) \in Seq(SpecTexts)
      BY <1>6 DEF ReaderReads
    <2>2. /\ (sr_held \in [SpecStreams -> {<<>>} \cup Texts])'
          /\ (sr_pipe \in [SpecStreams -> Seq(SpecTexts)])'
      BY <1>6, <2>1 DEF ReaderReads, Texts
    <2> QED
      BY <1>6, <2>2 DEF ReaderReads
  <1>7. ASSUME NEW s \in SpecStreams, ReaderEnds(s)
        PROVE  SpecTypeOK'
    BY <1>7 DEF ReaderEnds
  <1>8. ASSUME NEW s \in SpecStreams, ReaderSends(s)
        PROVE  SpecTypeOK'
    <2>1. [source |-> s, text |-> sr_held[s]] \in SpecChunks
      BY <1>8 DEF ReaderSends, SpecChunks
    <2>2. (sr_channel \in Seq(SpecChunks))'
      BY <1>8, <2>1 DEF ReaderSends
    <2>3. (sr_held \in [SpecStreams -> {<<>>} \cup Texts])'
      BY <1>8 DEF ReaderSends
    <2> QED
      BY <1>8, <2>2, <2>3 DEF ReaderSends
  <1>9. CASE Receive
    <2>1. sr_channel # <<>> => Head(sr_channel) \in SpecChunks /\ Tail(sr_channel) \in Seq(SpecChunks)
      OBVIOUS
    <2>2. /\ (sr_chunk \in SpecChunks \cup {NoSpecChunk})'
          /\ (sr_channel \in Seq(SpecChunks))'
      BY <1>9, <2>1 DEF Receive
    <2>3. sr_sequence' \in Nat /\ sr_pc' \in {"write", "wait"}
      BY <1>9 DEF Receive
    <2> QED
      BY <1>9, <2>2, <2>3 DEF Receive
  <1>10. CASE WriteLog
    <2>1. (sr_chunks \in [SpecTexts -> {"none", "partial", "whole"}])'
      BY <1>10 DEF WriteLog
    <2>2. sr_pc' \in {"append", "index", "error", "fill"}
      BY <1>10 DEF WriteLog
    <2> QED
      BY <1>10, <2>1, <2>2 DEF WriteLog
  <1>11. CASE FillLog
    BY <1>11 DEF FillLog
  <1>12. CASE IndexLog
    <2>1. sr_chunk \in SpecChunks
      BY <1>12 DEF IndexLog, JournalReads
    <2>2. sr_chunk.text[1] \in SpecTexts
      BY <2>1 DEF SpecChunks, Texts
    <2> QED
      BY <1>12, <2>2 DEF IndexLog
  <1>13. CASE record_chunk
    <2>1. sr_chunk \in SpecChunks
      BY <1>13 DEF record_chunk, JournalReads
    <2>2. sr_chunk.source \in {"local"} \cup SpecStreams /\ sr_chunk.text \in {<<>>} \cup Texts
      BY <2>1 DEF SpecChunks
    <2>3. (sr_events \in Seq(Rows))' /\ sr_pc' \in {"receive", "error"}
      BY <1>13, <2>2, AppendTyped DEF record_chunk
    <2> QED
      BY <1>13, <2>3 DEF record_chunk
  <1>14. CASE WaitLeaf
    BY <1>14 DEF WaitLeaf
  <1>15. CASE AppendExited
    <2> DEFINE kind == IF sr_child = "signal" THEN "cancelled" ELSE "exited"
    <2>1. kind \in {"started", "log", "exited", "cancelled"}
      OBVIOUS
    <2>2. AppendEvent(kind, "local", <<>>, "returned")
      BY <1>15 DEF AppendExited
    <2> HIDE DEF kind
    <2>3. (sr_events \in Seq(Rows))' /\ sr_pc' \in {"returned", "error"}
      BY <2>1, <2>2, AppendTyped
    <2> QED
      BY <1>15, <2>3 DEF AppendExited
  <1>16. CASE LeafFails \/ JournalFails \/ SpecDies
    <2>1. NoFlow /\ UNCHANGED <<sr_journal, sr_runs, sr_sequence>> /\ sr_pc' \in {"error", "dead"}
      BY <1>16 DEF LeafFails, JournalFails, SpecDies, SpecFault
    <2> QED
      BY <2>1, NoFlowTyped
  <1>17. CASE UNCHANGED sr_vars
    BY <1>17 DEF sr_vars
  <1> QED
    BY <1>1, <1>2, <1>3, <1>4, <1>5, <1>6, <1>7, <1>8, <1>9, <1>10, <1>11, <1>12, <1>13,
       <1>14, <1>15, <1>16, <1>17 DEF SpecRunNext

(* An appended row is numbered and names a chunk that is there.            *)
LEMMA AppendReads ==
    ASSUME SpecTypeOK, RowsRead, NEW kind \in {"started", "log", "exited", "cancelled"},
           NEW source \in {"local"} \cup SpecStreams, NEW text \in {<<>>} \cup Texts,
           NEW next, AppendEvent(kind, source, text, next),
           kind = "log" => text \in Texts /\ text[1] \in sr_indexed,
           sr_runs' = sr_runs, sr_indexed' = sr_indexed
    PROVE  RowsRead'
  <1> DEFINE n == Len(sr_events)
  <1>1. /\ (sr_events \in Seq(Rows))'
        /\ \/ sr_events' = sr_events
           \/ /\ Len(sr_events') = n + 1
              /\ \A i \in 1..n : sr_events'[i] = sr_events[i]
              /\ sr_events'[n + 1] = [sequence |-> n + 1, run |-> sr_runs, kind |-> kind,
                                      source |-> source, text |-> text]
    BY AppendTyped
  <1>2. DOMAIN sr_events = 1..n /\ n \in Nat /\ sr_runs \in Nat
    BY DEF SpecTypeOK
  <1>3. CASE sr_events' = sr_events
    BY <1>3 DEF RowsRead
  <1>4. CASE /\ Len(sr_events') = n + 1
             /\ \A i \in 1..n : sr_events'[i] = sr_events[i]
             /\ sr_events'[n + 1] = [sequence |-> n + 1, run |-> sr_runs, kind |-> kind,
                                     source |-> source, text |-> text]
    <2>1. DOMAIN sr_events' = 1..(n + 1)
      BY <1>1, <1>4
    <2> HIDE DEF n
    <2>2. \A i \in 1..(n + 1) : i \in 1..n \/ i = n + 1
      BY <1>2
    <2>3. ASSUME NEW i \in 1..n
          PROVE  (/\ sr_events[i].sequence = i /\ sr_events[i].run <= sr_runs
                  /\ sr_events[i].kind = "log"
                       => sr_events[i].text \in Texts /\ sr_events[i].text[1] \in sr_indexed)'
      BY <1>2, <1>4 DEF RowsRead
    <2>4. LET r == sr_events'[n + 1]
          IN  /\ r.sequence = n + 1 /\ r.run <= sr_runs'
              /\ r.kind = "log" => r.text \in Texts /\ r.text[1] \in sr_indexed'
      BY <1>2, <1>4
    <2> QED
      BY <2>1, <2>2, <2>3, <2>4 DEF RowsRead
  <1> QED
    BY <1>1, <1>3, <1>4

(* Only a chunk that is not indexed is written.                            *)
LEMMA JournalKept ==
    ASSUME SpecTypeOK, JournalReads, [SpecRunNext]_sr_vars
    PROVE  JournalReads'
  <1> USE DEF sr_journal, sr_count, sr_flow, Writing
  <1>1. CASE OpenJournal
    <2>1. \A i \in DOMAIN sr_events : sr_events[i].run \in Nat
      <3>1. \A i \in DOMAIN sr_events : sr_events[i] \in Rows
        BY DEF SpecTypeOK
      <3>2. \A r \in Rows : r.run \in Nat
        BY DEF Rows
      <3> QED
        BY <3>1, <3>2
    <2>2. sr_runs \in Nat /\ sr_runs' = sr_runs + 1 /\ sr_events' = sr_events /\ sr_indexed' = sr_indexed
      BY <1>1 DEF OpenJournal, SpecTypeOK
    <2>3. \A i \in DOMAIN sr_events : sr_events[i].run <= sr_runs'
      BY <2>1, <2>2 DEF JournalReads, RowsRead
    <2>4. RowsRead'
      BY <2>2, <2>3 DEF RowsRead, JournalReads
    <2> QED
      BY <1>1, <2>4 DEF OpenJournal, JournalReads
  <1>2. CASE AppendStarted
    <2>1. RowsRead' /\ sr_pc' \in {"spawn", "error"}
      BY <1>2, AppendReads, AppendTyped DEF AppendStarted, JournalReads
    <2> QED
      BY <1>2, <2>1 DEF AppendStarted, JournalReads
  <1>3. CASE SpawnLeaf \/ WaitLeaf
    BY <1>3 DEF SpawnLeaf, WaitLeaf, JournalReads, RowsRead
  <1>4. CASE ChildWrites \/ ChildExits \/ ChildKilled
    BY <1>4 DEF ChildWrites, ChildExits, ChildKilled, JournalReads, RowsRead
  <1>5. ASSUME NEW s \in SpecStreams, ReaderReads(s) \/ ReaderEnds(s) \/ ReaderSends(s)
        PROVE  JournalReads'
    BY <1>5 DEF ReaderReads, ReaderEnds, ReaderSends, JournalReads, RowsRead
  <1>6. CASE Receive
    <2>1. sr_channel # <<>> => Head(sr_channel) \in SpecChunks
      BY DEF SpecTypeOK
    <2>2. RowsRead'
      BY <1>6 DEF Receive, JournalReads, RowsRead
    <2> QED
      BY <1>6, <2>1, <2>2 DEF Receive, JournalReads
  <1>7. CASE WriteLog
    <2>1. RowsRead'
      BY <1>7 DEF WriteLog, JournalReads, RowsRead
    <2>2. sr_chunk \in SpecChunks
      BY <1>7 DEF WriteLog, JournalReads
    <2>3. \A t \in sr_indexed : sr_chunks'[t] = "whole"
      BY <1>7 DEF WriteLog, JournalReads, SpecTypeOK
    <2>4. /\ sr_pc' = "index" => sr_chunks'[sr_chunk.text[1]] = "whole"
          /\ sr_pc' = "append" => sr_chunk.text[1] \in sr_indexed
      BY <1>7 DEF WriteLog
    <2> QED
      BY <1>7, <2>1, <2>2, <2>3, <2>4 DEF WriteLog, JournalReads
  <1>8. CASE FillLog
    <2>1. RowsRead'
      BY <1>8 DEF FillLog, JournalReads, RowsRead
    <2>2. sr_chunk \in SpecChunks
      BY <1>8 DEF FillLog, JournalReads
    <2>3. sr_chunk.text[1] \in SpecTexts
      BY <2>2 DEF SpecChunks, Texts
    <2> QED
      BY <1>8, <2>1, <2>2, <2>3 DEF FillLog, JournalReads, SpecTypeOK
  <1>9. CASE IndexLog
    <2>1. RowsRead'
      BY <1>9 DEF IndexLog, JournalReads, RowsRead
    <2> QED
      BY <1>9, <2>1 DEF IndexLog, JournalReads
  <1>10. CASE record_chunk
    <2>1. sr_chunk \in SpecChunks /\ sr_chunk.text[1] \in sr_indexed
      BY <1>10 DEF record_chunk, JournalReads
    <2>2. sr_chunk.source \in {"local"} \cup SpecStreams /\ sr_chunk.text \in Texts
      BY <2>1 DEF SpecChunks
    <2>3. RowsRead' /\ sr_pc' \in {"receive", "error"}
      BY <1>10, <2>1, <2>2, AppendReads, AppendTyped DEF record_chunk, JournalReads
    <2> QED
      BY <1>10, <2>3 DEF record_chunk, JournalReads
  <1>11. CASE AppendExited
    <2> DEFINE kind == IF sr_child = "signal" THEN "cancelled" ELSE "exited"
    <2>1. kind \in {"started", "log", "exited", "cancelled"} /\ kind # "log"
      OBVIOUS
    <2>2. AppendEvent(kind, "local", <<>>, "returned")
      BY <1>11 DEF AppendExited
    <2> HIDE DEF kind
    <2>3. RowsRead' /\ sr_pc' \in {"returned", "error"}
      BY <1>11, <2>1, <2>2, AppendReads, AppendTyped DEF AppendExited, JournalReads
    <2> QED
      BY <1>11, <2>3 DEF AppendExited, JournalReads
  <1>12. CASE LeafFails \/ JournalFails \/ SpecDies
    <2>1. UNCHANGED <<sr_journal, sr_runs>> /\ sr_pc' \in {"error", "dead"}
      BY <1>12 DEF LeafFails, JournalFails, SpecDies, SpecFault
    <2> QED
      BY <2>1 DEF JournalReads, RowsRead
  <1>13. CASE UNCHANGED sr_vars
    BY <1>13 DEF sr_vars, JournalReads, RowsRead
  <1> QED
    BY <1>1, <1>2, <1>3, <1>4, <1>5, <1>6, <1>7, <1>8, <1>9, <1>10, <1>11, <1>12, <1>13
    DEF SpecRunNext

(* A reader ends when its pipe is empty and its writer has gone; the       *)
(* attempt waits for its leaf when both readers have.                      *)
LEMMA EndsKept ==
    ASSUME SpecTypeOK, EndsClean, [SpecRunNext]_sr_vars
    PROVE  EndsClean'
  <1> USE DEF sr_journal, sr_count, sr_flow, Closing, Active, SpecIdle, ChildGone
  <1>1. CASE OpenJournal \/ LeafFails \/ JournalFails \/ SpecDies
    <2>1. sr_pc' \in {"open", "error", "dead"}
      BY <1>1 DEF OpenJournal, LeafFails, JournalFails, SpecDies, SpecFault
    <2> QED
      BY <2>1 DEF EndsClean
  <1>2. CASE AppendStarted
    <2>1. sr_pc' \in {"spawn", "error"}
      BY <1>2 DEF AppendStarted, AppendEvent
    <2> QED
      BY <2>1 DEF EndsClean
  <1>3. CASE SpawnLeaf
    BY <1>3 DEF SpawnLeaf, EndsClean
  <1>4. CASE ChildWrites
    <2>1. /\ ~ChildGone
          /\ UNCHANGED <<sr_pc, sr_held, sr_open, sr_channel>>
      BY <1>4 DEF ChildWrites, SpecStreams
    <2> QED
      BY <2>1 DEF EndsClean, SpecStreams
  <1>5. CASE ChildExits \/ ChildKilled
    BY <1>5 DEF ChildExits, ChildKilled, EndsClean
  <1>6. ASSUME NEW s \in SpecStreams, ReaderReads(s)
        PROVE  EndsClean'
    BY <1>6 DEF ReaderReads, EndsClean, SpecTypeOK
  <1>7. ASSUME NEW s \in SpecStreams, ReaderEnds(s)
        PROVE  EndsClean'
    BY <1>7 DEF ReaderEnds, EndsClean
  <1>8. ASSUME NEW s \in SpecStreams, ReaderSends(s)
        PROVE  EndsClean'
    BY <1>8 DEF ReaderSends, EndsClean, SpecTypeOK
  <1>9. CASE Receive
    BY <1>9 DEF Receive, EndsClean
  <1>10. CASE WriteLog \/ FillLog \/ IndexLog
    <2>1. /\ sr_pc' \in {"append", "index", "fill", "error"} /\ sr_pc \in {"write", "fill", "index"}
          /\ UNCHANGED <<sr_child, sr_open, sr_held, sr_pipe, sr_channel>>
      BY <1>10 DEF WriteLog, FillLog, IndexLog
    <2> QED
      BY <2>1 DEF EndsClean
  <1>11. CASE record_chunk
    <2>1. sr_pc' \in {"receive", "error"} /\ UNCHANGED <<sr_child, sr_open, sr_held, sr_pipe, sr_channel>>
      BY <1>11 DEF record_chunk, AppendEvent
    <2> QED
      BY <1>11, <2>1 DEF EndsClean, record_chunk
  <1>12. CASE WaitLeaf
    BY <1>12 DEF WaitLeaf, EndsClean
  <1>13. CASE AppendExited
    <2>1. sr_pc' \in {"returned", "error"} /\ UNCHANGED <<sr_child, sr_open, sr_held, sr_pipe, sr_channel>>
      BY <1>13 DEF AppendExited, AppendEvent
    <2> QED
      BY <1>13, <2>1 DEF EndsClean, AppendExited
  <1>14. CASE UNCHANGED sr_vars
    BY <1>14 DEF sr_vars, EndsClean
  <1> QED
    BY <1>1, <1>2, <1>3, <1>4, <1>5, <1>6, <1>7, <1>8, <1>9, <1>10, <1>11, <1>12, <1>13, <1>14
    DEF SpecRunNext

(* The counts of rows and of chunks under way are numbers.                 *)
LEMMA SetsOfFlow ==
    ASSUME SpecTypeOK, NEW s \in SpecStreams
    PROVE  /\ RunLogs(s) \in SUBSET (1..Len(sr_events)) /\ Len(sr_events) \in Nat
           /\ InChannel(s) \in SUBSET (1..Len(sr_channel)) /\ Len(sr_channel) \in Nat
           /\ InHand(s) \in {0, 1}
           /\ Cardinality(RunLogs(s)) \in Nat /\ Cardinality(InChannel(s)) \in Nat
           /\ Taken(s) \in Nat /\ Through(s) \in Nat
           /\ \A i \in RunLogs(s) : Upto(RunLogs(s), i) \in 1..Cardinality(RunLogs(s))
           /\ \A k \in InChannel(s) : Upto(InChannel(s), k) \in 1..Cardinality(InChannel(s))
           /\ Len(sr_wrote[s]) \in Nat /\ Len(sr_pipe[s]) \in Nat /\ Len(sr_held[s]) \in {0, 1}
  <1>1. RunLogs(s) \in SUBSET (1..Len(sr_events)) /\ Len(sr_events) \in Nat
    BY DEF RunLogs, SpecTypeOK
  <1>2. InChannel(s) \in SUBSET (1..Len(sr_channel)) /\ Len(sr_channel) \in Nat
    BY DEF InChannel, SpecTypeOK
  <1>3. InHand(s) \in {0, 1}
    BY DEF InHand
  <1>4. /\ Cardinality(RunLogs(s)) \in Nat /\ Cardinality(InChannel(s)) \in Nat
        /\ \A i \in RunLogs(s) : Upto(RunLogs(s), i) \in 1..Cardinality(RunLogs(s))
        /\ \A k \in InChannel(s) : Upto(InChannel(s), k) \in 1..Cardinality(InChannel(s))
    BY <1>1, <1>2, UptoGrows
  <1>5. Taken(s) \in Nat /\ Through(s) \in Nat
    BY <1>3, <1>4 DEF Taken, Through
  <1>6. Len(sr_wrote[s]) \in Nat /\ Len(sr_pipe[s]) \in Nat /\ Len(sr_held[s]) \in {0, 1}
    BY DEF SpecTypeOK, Texts
  <1> QED
    BY <1>1, <1>2, <1>3, <1>4, <1>5, <1>6

(* A step that moves nothing of a stream.                                  *)
LEMMA FlowStays ==
    ASSUME NEW s \in SpecStreams, FlowOf(s),
           RunLogs(s)' = RunLogs(s), InHand(s)' = InHand(s), InChannel(s)' = InChannel(s),
           \A i \in RunLogs(s) : sr_events'[i] = sr_events[i],
           \A k \in InChannel(s) : sr_channel'[k] = sr_channel[k],
           sr_chunk' = sr_chunk, sr_wrote'[s] = sr_wrote[s], sr_held'[s] = sr_held[s],
           sr_pipe'[s] = sr_pipe[s]
    PROVE  FlowOf(s)'
  <1>1. Taken(s)' = Taken(s) /\ Through(s)' = Through(s)
    BY DEF Taken, Through
  <1> QED
    BY <1>1 DEF FlowOf

(* An appended row is a log of the stream it names, and of no other.       *)
LEMMA LogsAppended ==
    ASSUME SpecTypeOK, NEW kind \in {"started", "log", "exited", "cancelled"},
           NEW source \in {"local"} \cup SpecStreams, NEW text \in {<<>>} \cup Texts,
           NEW next, AppendEvent(kind, source, text, next), sr_pc' # "error",
           sr_runs' = sr_runs, NEW s \in SpecStreams
    PROVE  /\ RunLogs(s)' = IF kind = "log" /\ source = s
                            THEN RunLogs(s) \cup {Len(sr_events) + 1} ELSE RunLogs(s)
           /\ \A i \in RunLogs(s) : sr_events'[i] = sr_events[i]
           /\ sr_events'[Len(sr_events) + 1].text = text
  <1> DEFINE n == Len(sr_events)
  <1>1. /\ (sr_events \in Seq(Rows))'
        /\ Len(sr_events') = n + 1
        /\ \A i \in 1..n : sr_events'[i] = sr_events[i]
        /\ sr_events'[n + 1] = [sequence |-> n + 1, run |-> sr_runs, kind |-> kind,
                                source |-> source, text |-> text]
    BY AppendTyped
  <1>2. DOMAIN sr_events = 1..n /\ n \in Nat /\ DOMAIN sr_events' = 1..(n + 1)
    BY <1>1 DEF SpecTypeOK
  <1> HIDE DEF n
  <1>3. 1..(n + 1) = (1..n) \cup {n + 1}
    BY <1>2
  <1>4. RunLogs(s)' = {i \in 1..(n + 1) :
                         sr_events'[i].run = sr_runs /\ sr_events'[i].kind = "log" /\ sr_events'[i].source = s}
    BY <1>2 DEF RunLogs
  <1>5. RunLogs(s) = {i \in 1..n :
                         sr_events[i].run = sr_runs /\ sr_events[i].kind = "log" /\ sr_events[i].source = s}
    BY <1>2 DEF RunLogs
  <1>6. RunLogs(s)' = IF kind = "log" /\ source = s THEN RunLogs(s) \cup {n + 1} ELSE RunLogs(s)
    BY <1>1, <1>3, <1>4, <1>5
  <1>7. \A i \in RunLogs(s) : sr_events'[i] = sr_events[i]
    BY <1>1, <1>5
  <1> QED
    BY <1>1, <1>6, <1>7 DEF n

(* A start or an exit is no log.                                           *)
LEMMA FlowAppended ==
    ASSUME SpecTypeOK, NEW kind \in {"started", "exited", "cancelled"}, NEW next,
           sr_pc \notin Writing, next \notin Writing,
           AppendEvent(kind, "local", <<>>, next), sr_pc' # "error",
           UNCHANGED <<sr_runs, sr_chunk, sr_flow>>, NEW s \in SpecStreams, FlowOf(s)
    PROVE  FlowOf(s)'
  <1>1. RunLogs(s)' = RunLogs(s) /\ \A i \in RunLogs(s) : sr_events'[i] = sr_events[i]
    BY LogsAppended
  <1>2. sr_pc' \notin Writing
    BY DEF AppendEvent
  <1>3. InHand(s)' = InHand(s)
    BY <1>2 DEF InHand
  <1>4. InChannel(s)' = InChannel(s)
    BY DEF InChannel, sr_flow
  <1> QED
    BY <1>1, <1>3, <1>4, FlowStays DEF sr_flow

(* The chunk in hand becomes the last log of its stream.                   *)
LEMMA FlowRecorded ==
    ASSUME SpecTypeOK, JournalReads, record_chunk, sr_pc' # "error", NEW s \in SpecStreams, FlowOf(s)
    PROVE  FlowOf(s)'
  <1> DEFINE n == Len(sr_events)
  <1>1. /\ sr_chunk \in SpecChunks /\ sr_pc = "append" /\ sr_runs' = sr_runs
        /\ UNCHANGED <<sr_chunk, sr_channel, sr_held, sr_pipe, sr_wrote>>
    BY DEF JournalReads, record_chunk, Writing, sr_count, sr_flow
  <1>2. sr_chunk.source \in {"local"} \cup SpecStreams /\ sr_chunk.text \in {<<>>} \cup Texts
    BY <1>1 DEF SpecChunks
  <1>3. /\ RunLogs(s)' = IF sr_chunk.source = s THEN RunLogs(s) \cup {n + 1} ELSE RunLogs(s)
        /\ \A i \in RunLogs(s) : sr_events'[i] = sr_events[i]
        /\ sr_events'[n + 1].text = sr_chunk.text
    <2> DEFINE c == sr_chunk.source
               x == sr_chunk.text
    <2>1. AppendEvent("log", c, x, "receive") /\ c \in {"local"} \cup SpecStreams /\ x \in {<<>>} \cup Texts
      BY <1>2 DEF record_chunk
    <2>2. "log" \in {"started", "log", "exited", "cancelled"}
      OBVIOUS
    <2> HIDE DEF c, x
    <2>3. /\ RunLogs(s)' = IF "log" = "log" /\ c = s THEN RunLogs(s) \cup {n + 1} ELSE RunLogs(s)
          /\ \A i \in RunLogs(s) : sr_events'[i] = sr_events[i]
          /\ sr_events'[n + 1].text = x
      BY <1>1, <2>1, <2>2, LogsAppended
    <2> QED
      BY <2>3 DEF c, x
  <1>4. InHand(s) = (IF sr_chunk.source = s THEN 1 ELSE 0) /\ InHand(s)' = 0
    BY <1>1 DEF InHand, Writing, record_chunk, AppendEvent
  <1>5. InChannel(s)' = InChannel(s)
    BY <1>1 DEF InChannel
  <1>6. CASE sr_chunk.source # s
    BY <1>1, <1>3, <1>4, <1>5, <1>6, FlowStays
  <1>7. CASE sr_chunk.source = s
    <2> DEFINE A == RunLogs(s)
    <2>1. A \in SUBSET (1..n) /\ n \in Nat /\ Cardinality(A) \in Nat
      BY SetsOfFlow
    <2>2. RunLogs(s)' = A \cup {n + 1}
      BY <1>3, <1>7
    <2> HIDE DEF A, n
    <2>3. /\ Cardinality(A \cup {n + 1}) = Cardinality(A) + 1
          /\ Upto(A \cup {n + 1}, n + 1) = Cardinality(A) + 1
          /\ \A i \in A : Upto(A \cup {n + 1}, i) = Upto(A, i)
      BY <2>1, UptoGrows
    <2>4. Taken(s) = Cardinality(A) + 1 /\ Taken(s)' = Cardinality(A) + 1 + 0
      BY <1>4, <1>7, <2>2, <2>3 DEF Taken, A
    <2>5. Taken(s)' = Taken(s) /\ Through(s)' = Through(s)
      BY <2>1, <2>4, <1>5 DEF Through
    <2>6. \A i \in A \cup {n + 1} :
             sr_events'[i].text[1] = sr_wrote[s][Upto(A \cup {n + 1}, i)]
      <3>1. \A i \in A : sr_events'[i].text[1] = sr_wrote[s][Upto(A \cup {n + 1}, i)]
        BY <1>3, <2>3 DEF FlowOf, A
      <3>2. sr_events'[n + 1].text[1] = sr_wrote[s][Upto(A \cup {n + 1}, n + 1)]
        BY <1>3, <1>4, <1>7, <2>3, <2>4 DEF FlowOf
      <3> QED
        BY <3>1, <3>2
    <2> QED
      BY <1>1, <1>4, <1>5, <2>2, <2>5, <2>6 DEF FlowOf
  <1> QED
    BY <1>6, <1>7

(* A new attempt has no logs and no output.                                *)
LEMMA FlowOpened ==
    ASSUME SpecTypeOK, JournalReads, OpenJournal, NEW s \in SpecStreams
    PROVE  FlowOf(s)'
  <1>1. \A i \in DOMAIN sr_events : sr_events[i].run \in Nat /\ sr_events[i].run <= sr_runs
    <2>1. \A i \in DOMAIN sr_events : sr_events[i] \in Rows
      BY DEF SpecTypeOK
    <2>2. \A r \in Rows : r.run \in Nat
      BY DEF Rows
    <2> QED
      BY <2>1, <2>2 DEF JournalReads, RowsRead
  <1>2. sr_runs \in Nat /\ sr_runs' = sr_runs + 1 /\ sr_events' = sr_events /\ sr_pc' = "open" /\ NoFlow
    BY DEF OpenJournal, SpecTypeOK, sr_journal
  <1>3. \A i \in DOMAIN sr_events : sr_events[i].run # sr_runs'
    BY <1>1, <1>2
  <1>4. RunLogs(s)' = {}
    BY <1>2, <1>3 DEF RunLogs
  <1>5. InHand(s)' = 0
    BY <1>2 DEF InHand, Writing
  <1>6. InChannel(s)' = {}
    BY <1>2 DEF InChannel, NoFlow
  <1>7. Taken(s)' = 0 /\ Through(s)' = 0
    BY <1>4, <1>5, <1>6, FS_EmptySet DEF Taken, Through
  <1>8. sr_wrote'[s] = <<>> /\ sr_held'[s] = <<>> /\ sr_pipe'[s] = <<>>
    BY <1>2, NoOutputTyped DEF NoFlow
  <1> QED
    BY <1>4, <1>5, <1>6, <1>7, <1>8 DEF FlowOf

(* A chunk is written and enters the pipe.                                 *)
LEMMA FlowWritten ==
    ASSUME SpecTypeOK, ChildWrites, NEW s \in SpecStreams, FlowOf(s)
    PROVE  FlowOf(s)'
  <1>1. UNCHANGED <<sr_events, sr_runs, sr_pc, sr_chunk, sr_held, sr_channel>>
    BY DEF ChildWrites, sr_journal, sr_count
  <1>2. /\ RunLogs(s)' = RunLogs(s) /\ InHand(s)' = InHand(s) /\ InChannel(s)' = InChannel(s)
        /\ Taken(s)' = Taken(s) /\ Through(s)' = Through(s)
    BY <1>1 DEF RunLogs, InHand, InChannel, Taken, Through
  <1>3. PICK r \in SpecStreams :
          \/ \E t \in SpecTexts : /\ sr_wrote' = [sr_wrote EXCEPT ![r] = Append(@, t)]
                                  /\ sr_pipe' = [sr_pipe EXCEPT ![r] = Append(@, t)]
          \/ UNCHANGED <<sr_wrote, sr_pipe>>
    <2>1. PICK r \in SpecStreams :
            LET count == Len(sr_wrote["stdout"]) + Len(sr_wrote["stderr"])
            IN  /\ count < Len(SpecOutput)
                /\ \/ /\ sr_wrote' = [sr_wrote EXCEPT ![r] = Append(@, SpecOutput[count + 1])]
                      /\ sr_pipe' = [sr_pipe EXCEPT ![r] = Append(@, SpecOutput[count + 1])]
                   \/ UNCHANGED <<sr_wrote, sr_pipe>>
      BY DEF ChildWrites, SpecStreams
    <2> DEFINE k == Len(sr_wrote["stdout"]) + Len(sr_wrote["stderr"])
    <2>2. k + 1 \in 1..Len(SpecOutput)
      BY <2>1, SpecRunAssumption DEF SpecStreams, SpecTypeOK
    <2>3. SpecOutput[k + 1] \in SpecTexts
      BY <2>2, SpecOutputTyped
    <2> QED
      BY <2>1, <2>3
  <1>4. CASE r # s \/ UNCHANGED <<sr_wrote, sr_pipe>>
    <2>1. sr_wrote'[s] = sr_wrote[s] /\ sr_pipe'[s] = sr_pipe[s]
      BY <1>3, <1>4 DEF SpecTypeOK
    <2> QED
      BY <1>1, <1>2, <2>1, FlowStays
  <1>5. ASSUME r = s, NEW t \in SpecTexts, sr_wrote' = [sr_wrote EXCEPT ![r] = Append(@, t)],
               sr_pipe' = [sr_pipe EXCEPT ![r] = Append(@, t)]
        PROVE  FlowOf(s)'
    <2> DEFINE w == sr_wrote[s]
               p == sr_pipe[s]
    <2>1. w \in Seq(SpecTexts) /\ p \in Seq(SpecTexts) /\ sr_wrote'[s] = Append(w, t) /\ sr_pipe'[s] = Append(p, t)
      BY <1>5 DEF SpecTypeOK
    <2> HIDE DEF w, p
    <2>2. /\ Len(Append(w, t)) = Len(w) + 1 /\ Append(w, t)[Len(w) + 1] = t
          /\ \A i \in 1..Len(w) : Append(w, t)[i] = w[i]
          /\ Len(Append(p, t)) = Len(p) + 1 /\ Append(p, t)[Len(p) + 1] = t
          /\ \A i \in 1..Len(p) : Append(p, t)[i] = p[i]
          /\ Len(w) \in Nat /\ Len(p) \in Nat
      BY <2>1, AppendProperties
    <2> DEFINE th == Through(s)
               h == Len(sr_held[s])
               ta == Taken(s)
               lw == Len(w)
               lp == Len(p)
               a == Cardinality(RunLogs(s))
               c == Cardinality(InChannel(s))
               ih == InHand(s)
    <2>3. /\ th \in Nat /\ h \in {0, 1} /\ ta \in Nat /\ Len(w) = th + h + Len(p)
          /\ Cardinality(RunLogs(s)) \in Nat /\ Cardinality(InChannel(s)) \in Nat /\ InHand(s) \in {0, 1}
          /\ ta = Cardinality(RunLogs(s)) + InHand(s) /\ th = ta + Cardinality(InChannel(s))
      BY SetsOfFlow DEF FlowOf, w, p, Through, Taken
    <2> HIDE DEF th, h, ta
    <2>10. /\ th \in Nat /\ h \in Nat /\ h <= 1 /\ ta \in Nat /\ lw \in Nat /\ lp \in Nat
           /\ lw = th + h + lp /\ a \in Nat /\ c \in Nat /\ ih \in Nat /\ ih <= 1
           /\ ta = a + ih /\ th = ta + c
      <3>1. \A x \in {0, 1} : x \in Nat /\ x <= 1
        OBVIOUS
      <3>2. h \in Nat /\ h <= 1 /\ ih \in Nat /\ ih <= 1
        BY <2>3, <3>1
      <3>3. lw \in Nat /\ lp \in Nat /\ lw = th + h + lp
        BY <2>2, <2>3
      <3>4. a \in Nat /\ c \in Nat /\ ta = a + ih /\ th = ta + c
        BY <2>3
      <3> QED
        BY <2>3, <3>2, <3>3, <3>4
    <2> HIDE DEF lw, lp, a, c, ih
    <2>11. /\ ih = 1 => ta \in 1..lw
           /\ h = 1 => th + 1 \in 1..lw
           /\ \A i \in 1..a : i \in 1..lw
           /\ \A i \in 1..c : ta + i \in 1..lw
           /\ \A i \in 1..lp : th + h + i \in 1..lw
           /\ lw + 1 = th + h + (lp + 1)
           /\ \A i \in 1..(lp + 1) : i \in 1..lp \/ i = lp + 1
      BY <2>10
    <2>4. \A i \in RunLogs(s) : sr_events[i].text[1] = Append(w, t)[Upto(RunLogs(s), i)]
      <3> SUFFICES ASSUME NEW i \in RunLogs(s)
                   PROVE  sr_events[i].text[1] = Append(w, t)[Upto(RunLogs(s), i)]
        OBVIOUS
      <3>1. Upto(RunLogs(s), i) \in 1..Cardinality(RunLogs(s))
        BY SetsOfFlow
      <3>2. Upto(RunLogs(s), i) \in 1..Len(w)
        BY <2>11, <3>1 DEF a, lw
      <3> QED
        BY <2>2, <3>2 DEF FlowOf, w
    <2>5. InHand(s) = 1 => sr_chunk.text[1] = Append(w, t)[ta]
      <3>1. InHand(s) = 1 => ta \in 1..Len(w)
        BY <2>11 DEF ih, lw
      <3> QED
        BY <2>2, <3>1 DEF FlowOf, w, ta
    <2>6. \A k \in InChannel(s) : sr_channel[k].text[1] = Append(w, t)[ta + Upto(InChannel(s), k)]
      <3> SUFFICES ASSUME NEW k \in InChannel(s)
                   PROVE  sr_channel[k].text[1] = Append(w, t)[ta + Upto(InChannel(s), k)]
        OBVIOUS
      <3>1. Upto(InChannel(s), k) \in 1..Cardinality(InChannel(s))
        BY SetsOfFlow
      <3>2. ta + Upto(InChannel(s), k) \in 1..Len(w)
        BY <2>11, <3>1 DEF c, lw
      <3> QED
        BY <2>2, <3>2 DEF FlowOf, w, ta
    <2>7. sr_held[s] # <<>> => sr_held[s][1] = Append(w, t)[th + 1]
      <3>1. sr_held[s] # <<>> => h = 1
        BY DEF SpecTypeOK, Texts, h
      <3>2. sr_held[s] # <<>> => th + 1 \in 1..Len(w)
        BY <2>11, <3>1 DEF lw
      <3> QED
        BY <2>2, <3>2 DEF FlowOf, w, th
    <2>8. \A i \in 1..(Len(p) + 1) : Append(p, t)[i] = Append(w, t)[th + h + i]
      <3>1. \A i \in 1..Len(p) : Append(p, t)[i] = Append(w, t)[th + h + i]
        <4> SUFFICES ASSUME NEW i \in 1..Len(p)
                     PROVE  Append(p, t)[i] = Append(w, t)[th + h + i]
          OBVIOUS
        <4>1. th + h + i \in 1..Len(w)
          BY <2>11 DEF lp, lw
        <4>2. p[i] = w[th + h + i]
          BY DEF FlowOf, w, p, th, h
        <4> QED
          BY <2>2, <4>1, <4>2
      <3>2. th + h + (Len(p) + 1) = Len(w) + 1 /\ \A i \in 1..(Len(p) + 1) : i \in 1..Len(p) \/ i = Len(p) + 1
        BY <2>11 DEF lw, lp
      <3>3. Append(p, t)[Len(p) + 1] = Append(w, t)[th + h + (Len(p) + 1)]
        BY <2>2, <3>2
      <3> QED
        BY <3>1, <3>2, <3>3
    <2>9. Len(w) + 1 = th + h + (Len(p) + 1)
      BY <2>11 DEF lw, lp
    <2> QED
      BY <1>1, <1>2, <2>1, <2>2, <2>4, <2>5, <2>6, <2>7, <2>8, <2>9 DEF FlowOf, th, h, ta
  <1> QED
    BY <1>3, <1>4, <1>5

(* The first chunk of the pipe goes to the reader.                         *)
LEMMA FlowRead ==
    ASSUME SpecTypeOK, NEW r \in SpecStreams, ReaderReads(r), NEW s \in SpecStreams, FlowOf(s)
    PROVE  FlowOf(s)'
  <1>1. UNCHANGED <<sr_events, sr_runs, sr_pc, sr_chunk, sr_wrote, sr_channel>>
    BY DEF ReaderReads, sr_journal, sr_count
  <1>2. /\ RunLogs(s)' = RunLogs(s) /\ InHand(s)' = InHand(s) /\ InChannel(s)' = InChannel(s)
        /\ Taken(s)' = Taken(s) /\ Through(s)' = Through(s)
    BY <1>1 DEF RunLogs, InHand, InChannel, Taken, Through
  <1>3. CASE r # s
    <2>1. sr_held'[s] = sr_held[s] /\ sr_pipe'[s] = sr_pipe[s]
      BY <1>3 DEF ReaderReads, SpecTypeOK
    <2> QED
      BY <1>1, <1>2, <2>1, FlowStays
  <1>4. CASE r = s
    <2> DEFINE p == sr_pipe[s]
               th == Through(s)
    <2>1. /\ p \in Seq(SpecTexts) /\ p # <<>> /\ sr_held[s] = <<>>
          /\ sr_held'[s] = <<Head(p)>> /\ sr_pipe'[s] = Tail(p)
      BY <1>4 DEF ReaderReads, SpecTypeOK
    <2>2. /\ Len(sr_wrote[s]) = th + 0 + Len(p) /\ th \in Nat
          /\ \A i \in 1..Len(p) : p[i] = sr_wrote[s][th + 0 + i]
      BY <2>1, SetsOfFlow DEF FlowOf
    <2> HIDE DEF p, th
    <2>3. /\ Len(p) \in Nat /\ Len(p) > 0 /\ Head(p) = p[1]
          /\ Len(Tail(p)) = Len(p) - 1 /\ \A i \in 1..Len(Tail(p)) : Tail(p)[i] = p[i + 1]
      BY <2>1
    <2>4. Len(sr_wrote[s]) = th + 1 + Len(Tail(p))
      <3>1. \A a, b \in Nat : b > 0 => a + 0 + b = a + 1 + (b - 1)
        OBVIOUS
      <3> QED
        BY <2>2, <2>3, <3>1
    <2>5. Head(p) = sr_wrote[s][th + 1]
      BY <2>2, <2>3
    <2>6. ASSUME NEW i \in 1..Len(Tail(p))
          PROVE  Tail(p)[i] = sr_wrote[s][th + 1 + i]
      <3>1. i + 1 \in 1..Len(p) /\ th + 0 + (i + 1) = th + 1 + i
        BY <2>2, <2>3
      <3> QED
        BY <2>2, <2>3, <3>1
    <2>7. Len(<<Head(p)>>) = 1 /\ <<Head(p)>>[1] = Head(p)
      OBVIOUS
    <2> QED
      BY <1>1, <1>2, <2>1, <2>4, <2>5, <2>6, <2>7 DEF FlowOf, th
  <1> QED
    BY <1>3, <1>4

(* The chunk a reader holds goes to the end of the channel.                *)
LEMMA FlowSent ==
    ASSUME SpecTypeOK, NEW r \in SpecStreams, ReaderSends(r), NEW s \in SpecStreams, FlowOf(s)
    PROVE  FlowOf(s)'
  <1> DEFINE n == Len(sr_channel)
             C == InChannel(s)
             x == [source |-> r, text |-> sr_held[r]]
  <1>1. UNCHANGED <<sr_events, sr_runs, sr_pc, sr_chunk, sr_wrote, sr_pipe>>
    BY DEF ReaderSends, sr_journal, sr_count
  <1>2. /\ RunLogs(s)' = RunLogs(s) /\ InHand(s)' = InHand(s) /\ Taken(s)' = Taken(s)
    BY <1>1 DEF RunLogs, InHand, Taken
  <1>3. /\ sr_channel' = Append(sr_channel, x) /\ x \in SpecChunks /\ sr_channel \in Seq(SpecChunks)
        /\ x.source = r /\ x.text = sr_held[r]
    BY DEF ReaderSends, SpecTypeOK, SpecChunks
  <1> HIDE DEF x
  <1>4. /\ Len(sr_channel') = n + 1 /\ n \in Nat /\ DOMAIN sr_channel' = 1..(n + 1)
        /\ \A i \in 1..n : sr_channel'[i] = sr_channel[i]
        /\ sr_channel'[n + 1] = x
    BY <1>3, AppendProperties
  <1>5. C \in SUBSET (1..n) /\ DOMAIN sr_channel = 1..n
    BY <1>3, SetsOfFlow
  <1>6. InChannel(s)' = IF r = s THEN C \cup {n + 1} ELSE C
    <2>1. InChannel(s)' = {k \in 1..(n + 1) : sr_channel'[k].source = s}
      BY <1>4 DEF InChannel
    <2>2. C = {k \in 1..n : sr_channel[k].source = s}
      BY <1>5 DEF InChannel
    <2> HIDE DEF n, C
    <2>3. 1..(n + 1) = (1..n) \cup {n + 1}
      BY <1>4
    <2> QED
      BY <1>3, <1>4, <2>1, <2>2, <2>3
  <1>7. \A k \in C : sr_channel'[k] = sr_channel[k]
    BY <1>4, <1>5
  <1> HIDE DEF n, C
  <1>8. CASE r # s
    <2>1. sr_held'[s] = sr_held[s]
      BY <1>8 DEF ReaderSends, SpecTypeOK
    <2> QED
      BY <1>1, <1>2, <1>6, <1>7, <1>8, <2>1, FlowStays DEF C
  <1>9. CASE r = s
    <2>1. /\ Cardinality(C \cup {n + 1}) = Cardinality(C) + 1 /\ Cardinality(C) \in Nat
          /\ Upto(C \cup {n + 1}, n + 1) = Cardinality(C) + 1
          /\ \A i \in C : Upto(C \cup {n + 1}, i) = Upto(C, i)
      BY <1>4, <1>5, UptoGrows
    <2>2. sr_held[s] \in Texts /\ sr_held[s] # <<>> /\ Len(sr_held[s]) = 1 /\ sr_held'[s] = <<>>
      BY <1>9 DEF ReaderSends, SpecTypeOK, Texts
    <2>3. /\ Taken(s) \in Nat /\ Through(s) = Taken(s) + Cardinality(C)
          /\ Through(s)' = Taken(s) + (Cardinality(C) + 1)
      BY <1>2, <1>6, <1>9, <2>1, SetsOfFlow DEF Through, C
    <2>4. Through(s)' = Through(s) + 1 /\ Through(s) \in Nat
      BY <2>1, <2>3
    <2>5. Len(sr_held'[s]) = 0
      BY <2>2
    <2>6. Len(sr_pipe[s]) \in Nat
      BY SetsOfFlow
    <2>7. Len(sr_wrote[s]) = Through(s)' + Len(sr_held'[s]) + Len(sr_pipe[s])
      BY <2>2, <2>4, <2>5, <2>6 DEF FlowOf
    <2>8. \A k \in C \cup {n + 1} :
            sr_channel'[k].text[1] = sr_wrote[s][Taken(s) + Upto(C \cup {n + 1}, k)]
      <3>1. \A k \in C : sr_channel'[k].text[1] = sr_wrote[s][Taken(s) + Upto(C \cup {n + 1}, k)]
        BY <1>7, <2>1 DEF FlowOf, C
      <3>2. Taken(s) + (Cardinality(C) + 1) = Through(s) + 1
        BY <2>1, <2>3
      <3>3. sr_channel'[n + 1].text[1] = sr_wrote[s][Taken(s) + Upto(C \cup {n + 1}, n + 1)]
        BY <1>3, <1>4, <1>9, <2>1, <2>2, <3>2 DEF FlowOf
      <3> QED
        BY <3>1, <3>3
    <2>9. \A i \in 1..Len(sr_pipe[s]) : sr_pipe[s][i] = sr_wrote[s][Through(s)' + Len(sr_held'[s]) + i]
      <3> SUFFICES ASSUME NEW i \in 1..Len(sr_pipe[s])
                   PROVE  sr_pipe[s][i] = sr_wrote[s][Through(s)' + Len(sr_held'[s]) + i]
        OBVIOUS
      <3>1. Through(s)' + Len(sr_held'[s]) + i = Through(s) + Len(sr_held[s]) + i
        BY <2>2, <2>4, <2>5
      <3> QED
        BY <3>1 DEF FlowOf
    <2> QED
      BY <1>1, <1>2, <1>6, <1>9, <2>2, <2>7, <2>8, <2>9 DEF FlowOf
  <1> QED
    BY <1>8, <1>9

(* The attempt takes the first chunk of the channel.                       *)
LEMMA FlowReceived ==
    ASSUME SpecTypeOK, Receive, NEW s \in SpecStreams, FlowOf(s)
    PROVE  FlowOf(s)'
  <1>1. UNCHANGED <<sr_events, sr_runs, sr_wrote, sr_pipe, sr_held>> /\ sr_pc = "receive"
    BY DEF Receive, sr_journal, sr_count
  <1>2. RunLogs(s)' = RunLogs(s) /\ InHand(s) = 0
    BY <1>1 DEF RunLogs, InHand, Writing
  <1>3. CASE sr_channel = <<>>
    <2>1. sr_pc' = "wait" /\ UNCHANGED <<sr_chunk, sr_channel>>
      BY <1>3 DEF Receive
    <2>2. InHand(s)' = 0 /\ InChannel(s)' = InChannel(s)
      BY <2>1 DEF InHand, Writing, InChannel
    <2> QED
      BY <1>1, <1>2, <2>1, <2>2, FlowStays
  <1>4. CASE sr_channel # <<>>
    <2> DEFINE n == Len(sr_channel)
               C == InChannel(s)
               D == {k \in Nat : k + 1 \in C \ {1}}
               ta == Taken(s)
    <2>1. /\ sr_chunk' = sr_channel[1] /\ sr_channel' = Tail(sr_channel) /\ sr_pc' = "write"
          /\ sr_channel \in Seq(SpecChunks)
      BY <1>4 DEF Receive, SpecTypeOK
    <2>2. /\ n \in Nat /\ n > 0 /\ DOMAIN sr_channel' = 1..(n - 1) /\ DOMAIN sr_channel = 1..n
          /\ \A k \in 1..(n - 1) : sr_channel'[k] = sr_channel[k + 1]
      BY <1>4, <2>1
    <2>3. C = {k \in 1..n : sr_channel[k].source = s} /\ C \in SUBSET (1..n)
      BY <2>2 DEF InChannel
    <2> HIDE DEF n
    <2>4. InChannel(s)' = D
      <3>1. InChannel(s)' = {k \in 1..(n - 1) : sr_channel'[k].source = s}
        BY <2>2 DEF InChannel
      <3>2. \A k \in 1..(n - 1) : k \in Nat /\ k + 1 \in (1..n) \ {1}
        BY <2>2
      <3>3. \A k \in Nat : k + 1 \in (1..n) \ {1} => k \in 1..(n - 1)
        BY <2>2
      <3> QED
        BY <2>2, <2>3, <3>1, <3>2, <3>3
    <2>5. \A k \in D : k \in 1..(n - 1) /\ sr_channel'[k] = sr_channel[k + 1] /\ k + 1 \in C
      <3>1. \A k \in Nat : k + 1 \in (1..n) \ {1} => k \in 1..(n - 1)
        BY <2>2
      <3> QED
        BY <2>2, <2>3, <3>1
    <2> HIDE DEF C
    <2>6. /\ 1 \in C => /\ Cardinality(C) = Cardinality(D) + 1
                        /\ Upto(C, 1) = 1
                        /\ \A k \in D : Upto(C, k + 1) = Upto(D, k) + 1
          /\ 1 \notin C => /\ Cardinality(C) = Cardinality(D)
                           /\ \A k \in D : Upto(C, k + 1) = Upto(D, k)
      BY <2>2, <2>3, UptoShifts
    <2> HIDE DEF D
    <2>7. D \in SUBSET (1..(n - 1)) /\ n - 1 \in Nat
      BY <2>2, <2>5
    <2>8. Cardinality(D) \in Nat /\ \A k \in D : Upto(D, k) \in Nat
      <3>1. Cardinality(D) \in Nat /\ \A k \in D : Upto(D, k) \in 1..Cardinality(D)
        BY <2>7, UptoGrows
      <3> QED
        BY <3>1
    <2>9. /\ ta \in Nat /\ ta = Cardinality(RunLogs(s)) + 0 /\ Through(s) = ta + Cardinality(C)
          /\ Cardinality(RunLogs(s)) \in Nat
      BY <1>2, SetsOfFlow DEF Taken, Through, C
    <2>10. \A k \in D : sr_channel'[k].text[1] = sr_wrote[s][ta + Upto(C, k + 1)]
      BY <2>5 DEF FlowOf, C
    <2>11. 1 \in C <=> sr_channel[1].source = s
      BY <2>2, <2>3
    <2>12. InHand(s)' = IF sr_channel[1].source = s THEN 1 ELSE 0
      BY <2>1 DEF InHand, Writing
    <2> HIDE DEF ta
    <2>13. CASE 1 \in C
      <3>1. Taken(s)' = ta + 1
        BY <1>2, <2>9, <2>11, <2>12, <2>13 DEF Taken
      <3>2. Through(s)' = ta + 1 + Cardinality(D)
        BY <2>4, <3>1 DEF Through
      <3>3. Through(s)' = Through(s)
        BY <2>6, <2>8, <2>9, <2>13, <3>2
      <3>4. sr_chunk'.text[1] = sr_wrote[s][ta + 1]
        BY <2>1, <2>6, <2>13 DEF FlowOf, C, ta
      <3>5. \A k \in D : sr_channel'[k].text[1] = sr_wrote[s][ta + 1 + Upto(D, k)]
        <4> SUFFICES ASSUME NEW k \in D
                     PROVE  sr_channel'[k].text[1] = sr_wrote[s][ta + 1 + Upto(D, k)]
          OBVIOUS
        <4>1. ta + Upto(C, k + 1) = ta + 1 + Upto(D, k)
          BY <2>6, <2>8, <2>9, <2>13
        <4> QED
          BY <2>10, <4>1
      <3> QED
        BY <1>1, <1>2, <2>4, <3>1, <3>3, <3>4, <3>5 DEF FlowOf
    <2>14. CASE 1 \notin C
      <3>1. Taken(s)' = ta /\ InHand(s)' = 0
        BY <1>2, <2>9, <2>11, <2>12, <2>14 DEF Taken
      <3>2. Through(s)' = Through(s)
        BY <2>4, <2>6, <2>9, <2>14, <3>1 DEF Through
      <3>3. \A k \in D : sr_channel'[k].text[1] = sr_wrote[s][ta + Upto(D, k)]
        BY <2>6, <2>10, <2>14
      <3> QED
        BY <1>1, <1>2, <2>4, <3>1, <3>2, <3>3 DEF FlowOf
    <2> QED
      BY <2>13, <2>14
  <1> QED
    BY <1>3, <1>4

(* Every step of an active attempt keeps where the chunks are.             *)
LEMMA FlowKept ==
    ASSUME SpecInv, [SpecRunNext]_sr_vars, Active', NEW s \in SpecStreams
    PROVE  FlowOf(s)'
  <1> USE DEF SpecInv, sr_journal, sr_count, sr_flow, Active
  <1>1. CASE OpenJournal
    BY <1>1, FlowOpened
  <1>2. ASSUME ~OpenJournal PROVE FlowOf(s)
    <2>1. ~(LeafFails \/ JournalFails \/ SpecDies)
      BY DEF LeafFails, JournalFails, SpecDies, SpecFault
    <2>2. Active
      BY <1>2, <2>1 DEF SpecRunNext, AppendStarted, SpawnLeaf, ChildWrites, ChildExits, ChildKilled,
         ReaderReads, ReaderEnds, ReaderSends, Receive, WriteLog, FillLog, IndexLog, record_chunk,
         WaitLeaf, AppendExited, SpecIdle, sr_vars
    <2> QED
      BY <2>2
  <1>3. CASE AppendStarted
    <2>1. FlowOf(s)
      BY <1>2, <1>3 DEF AppendStarted, OpenJournal
    <2> QED
      BY <1>3, <2>1, FlowAppended DEF AppendStarted, Writing
  <1>4. CASE ChildWrites
    <2>1. FlowOf(s)
      BY <1>4 DEF ChildWrites, SpecIdle
    <2> QED
      BY <1>4, <2>1, FlowWritten
  <1>5. ASSUME NEW r \in SpecStreams, ReaderReads(r) \/ ReaderEnds(r) \/ ReaderSends(r)
        PROVE  FlowOf(s)'
    <2>1. FlowOf(s)
      BY <1>5 DEF ReaderReads, ReaderEnds, ReaderSends, SpecIdle
    <2>2. CASE ReaderEnds(r)
      <3>1. UNCHANGED <<sr_events, sr_runs, sr_pc, sr_chunk, sr_channel, sr_wrote, sr_held, sr_pipe>>
        BY <2>2 DEF ReaderEnds
      <3> QED
        BY <2>1, <3>1, FlowStays DEF RunLogs, InHand, InChannel
    <2> QED
      BY <1>5, <2>1, <2>2, FlowRead, FlowSent
  <1>6. CASE Receive
    <2>1. FlowOf(s)
      BY <1>6 DEF Receive
    <2> QED
      BY <1>6, <2>1, FlowReceived
  <1>7. CASE record_chunk
    <2>1. FlowOf(s) /\ sr_pc' # "error"
      BY <1>7 DEF record_chunk
    <2> QED
      BY <1>7, <2>1, FlowRecorded
  <1>8. CASE AppendExited
    <2> DEFINE kind == IF sr_child = "signal" THEN "cancelled" ELSE "exited"
    <2>1. FlowOf(s) /\ sr_pc' # "error" /\ sr_pc \notin Writing /\ "returned" \notin Writing
      BY <1>8 DEF AppendExited, Writing
    <2>2. AppendEvent(kind, "local", <<>>, "returned") /\ kind \in {"started", "exited", "cancelled"}
      BY <1>8 DEF AppendExited
    <2>3. UNCHANGED <<sr_runs, sr_chunk, sr_flow>>
      BY <1>8 DEF AppendExited
    <2> HIDE DEF kind
    <2> QED
      BY <2>1, <2>2, <2>3, FlowAppended
  <1>9. CASE \/ SpawnLeaf \/ ChildExits \/ ChildKilled \/ WriteLog \/ FillLog \/ IndexLog \/ WaitLeaf
             \/ UNCHANGED sr_vars
    <2>1. FlowOf(s)
      BY <1>9 DEF SpawnLeaf, ChildExits, ChildKilled, WriteLog, FillLog, IndexLog, WaitLeaf, sr_vars, SpecIdle
    <2>2. UNCHANGED <<sr_events, sr_runs, sr_chunk, sr_channel, sr_wrote, sr_held, sr_pipe>>
      BY <1>9 DEF SpawnLeaf, ChildExits, ChildKilled, WriteLog, FillLog, IndexLog, WaitLeaf, sr_vars
    <2>3. sr_pc' \in Writing <=> sr_pc \in Writing
      BY <1>9 DEF SpawnLeaf, ChildExits, ChildKilled, WriteLog, FillLog, IndexLog, WaitLeaf, sr_vars, Writing
    <2> QED
      BY <2>1, <2>2, <2>3, FlowStays DEF RunLogs, InHand, InChannel
  <1>10. CASE LeafFails \/ JournalFails \/ SpecDies
    BY <1>10 DEF LeafFails, JournalFails, SpecDies, SpecFault
  <1> QED
    BY <1>1, <1>3, <1>4, <1>5, <1>6, <1>7, <1>8, <1>9, <1>10 DEF SpecRunNext

(* The invariant holds at first.                                           *)
LEMMA SpecInvInit == SpecRunInit => SpecInv
  <1> SUFFICES ASSUME SpecRunInit PROVE SpecInv
    OBVIOUS
  <1>1. SpecTypeOK
    BY NoOutputTyped DEF SpecRunInit, SpecTypeOK
  <1>2. JournalReads
    BY DEF SpecRunInit, JournalReads, RowsRead, Writing
  <1>3. EndsClean /\ ~Active
    BY DEF SpecRunInit, EndsClean, Active, Closing
  <1> QED
    BY <1>1, <1>2, <1>3 DEF SpecInv

(* The invariant is inductive.                                             *)
LEMMA SpecInvKept == SpecInv /\ [SpecRunNext]_sr_vars => SpecInv'
  BY SpecTyped, JournalKept, EndsKept, FlowKept DEF SpecInv

(* Once the attempt has returned nothing is left under way.                *)
LEMMA ReturnedTells == SpecInv => JournalTellsOutput
  <1> SUFFICES ASSUME SpecInv PROVE JournalTellsOutput
    OBVIOUS
  <1>1. \A i \in DOMAIN sr_events :
          /\ sr_events[i].sequence = i
          /\ sr_events[i].kind = "log" =>
              sr_events[i].text[1] \in sr_indexed /\ sr_chunks[sr_events[i].text[1]] = "whole"
    BY DEF SpecInv, JournalReads, RowsRead
  <1>2. ASSUME sr_pc = "returned", NEW s \in SpecStreams
        PROVE  /\ Cardinality(RunLogs(s)) = Len(sr_wrote[s])
               /\ \A i \in RunLogs(s) : sr_events[i].text[1] = sr_wrote[s][Upto(RunLogs(s), i)]
    <2>1. FlowOf(s)
      BY <1>2 DEF SpecInv, Active
    <2>2. /\ sr_channel = <<>> /\ sr_open = {} /\ sr_held[s] = <<>> /\ sr_pipe[s] = <<>>
      BY <1>2 DEF SpecInv, EndsClean, Closing, Active
    <2>3. InHand(s) = 0 /\ InChannel(s) = {}
      BY <1>2, <2>2 DEF InHand, InChannel, Writing
    <2>4. Through(s) = Cardinality(RunLogs(s)) + 0 + 0 /\ Cardinality(RunLogs(s)) \in Nat
      BY <2>3, FS_EmptySet, SetsOfFlow DEF Through, Taken, SpecInv
    <2> QED
      BY <2>1, <2>2, <2>4 DEF FlowOf
  <1> QED
    BY <1>1, <1>2 DEF JournalTellsOutput, Upto

(* For any output and any bounds of pipe and channel: the journal of a run *)
(* that has returned tells, for each stream, the chunks the leaf wrote in  *)
(* their order, and at any time its numbers have no gap and its logs can   *)
(* be read back, whatever failed or died before.                           *)
THEOREM SpecJournalTells == SpecRunSpec => []JournalTellsOutput
  <1>1. SpecRunInit => SpecInv
    BY SpecInvInit
  <1>2. SpecInv /\ [SpecRunNext]_sr_vars => SpecInv'
    BY SpecInvKept
  <1>3. SpecInv => JournalTellsOutput
    BY ReturnedTells
  <1> QED
    BY <1>1, <1>2, <1>3, PTL DEF SpecRunSpec

=============================================================================
