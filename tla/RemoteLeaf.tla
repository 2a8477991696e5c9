----------------------------- MODULE RemoteLeaf -----------------------------
(***************************************************************************)
(* `nxr workflow run --execution remote` (crates/nxr-cli/src/commands/     *)
(* remote.rs): the leaves of one run, each a process that submits a task   *)
(* to a NixPlane worker, follows the attempt's journal, fetches the        *)
(* outputs and leaves a pointer, a receipt and an entry of run.json.  It   *)
(* may be killed anywhere and run again, with NIXPLANE_REATTACH or not.    *)
(*                                                                         *)
(* The worker is external.  A submission has an idempotency key, so the    *)
(* same task has one attempt; its journal is a source event and then the   *)
(* terminal one.                                                           *)
(***************************************************************************)
EXTENDS Naturals, Sequences, FiniteSets

CONSTANTS
    Leaves,
    Unset,         \* "none", for every Option and a file that is not there
    Torn,          \* a file that does not parse
    ExitCodes,     \* of the task, 0 among them
    MaxTries,      \* processes of all leaves together
    MaxLeafFaults  \* kills, errors of nixplane and mismatches together

VARIABLES
    rl_pc,        \* leaf -> what its process does
    rl_reattach,  \* leaf -> NIXPLANE_REATTACH
    rl_mem,       \* leaf -> the receipt in memory
    rl_then,      \* leaf -> what follows the write of the receipt, and its result
    rl_seen,      \* leaf -> run.json existed when attempt_pointers looked
    rl_ptr,       \* leaf -> attempt.json is there
    rl_file,      \* leaf -> its receipt file, Torn or Unset
    rl_run,       \* run.json: leaf -> status, or Unset
    rl_lock, rl_copy,   \* .run.json.lock; leaf -> run.json as it read it
    rl_worker,    \* leaf -> its attempt: [journal, code], or Unset
    rl_result,    \* leaf -> what its last process returned
    rl_tries, rl_faults,
    rl_passed     \* ghost: leaf -> its outputs were fetched and verified

(* The values of a receipt, of what follows its write, and of an attempt.  *)
LeafCodes == Nat \cup {Unset}
LeafReceipts ==
    [attempt : BOOLEAN, cursor : Nat, terminal : {Unset, "exited", "cancelled"},
     code : LeafCodes, hash_ok : {Unset, TRUE, FALSE}, cancelled : BOOLEAN]
LeafSequels == [pc : {"idle", "fetch", "clear"}, result : LeafCodes]
LeafEvents == [kind : {"source", "exited", "cancelled"}, code : LeafCodes]
LeafAttempts == [journal : Seq(LeafEvents), code : LeafCodes]

ASSUME RemoteAssumption ==
    /\ ExitCodes \subseteq Nat
    /\ Unset # Torn
    /\ \A v \in {Unset, Torn} :
          /\ v \notin Nat \cup BOOLEAN \cup {"exited", "cancelled"}
          /\ v \notin LeafReceipts /\ v \notin LeafSequels
          /\ v \notin LeafEvents /\ v \notin LeafAttempts

rl_disk == <<rl_ptr, rl_file, rl_run>>
rl_vars == <<rl_pc, rl_reattach, rl_mem, rl_then, rl_seen, rl_disk, rl_lock, rl_copy,
             rl_worker, rl_result, rl_tries, rl_faults, rl_passed>>

seed_receipt == [attempt |-> FALSE, cursor |-> 0, terminal |-> Unset, code |-> Unset,
                 hash_ok |-> Unset, cancelled |-> FALSE]

PROCESS_SUPERVISION == 9
TIMED_OUT == 124

(* The 0 of a leaf that was asked to stop after admission, kept apart from *)
(* the 0 of a task.                                                        *)
ADMITTED == 100

ForAll(v) == [l \in Leaves |-> v]

RemoteInit ==
    /\ rl_pc = ForAll("idle") /\ rl_reattach = ForAll(FALSE)
    /\ rl_mem = ForAll(seed_receipt) /\ rl_then = ForAll(Unset) /\ rl_seen = ForAll(FALSE)
    /\ rl_ptr = ForAll(FALSE) /\ rl_file = ForAll(Unset) /\ rl_run = Unset
    /\ rl_lock = Unset /\ rl_copy = ForAll(Unset)
    /\ rl_worker = ForAll(Unset) /\ rl_result = ForAll(Unset)
    /\ rl_tries = 0 /\ rl_faults = 0
    /\ rl_passed = ForAll(FALSE)

LeafAt(l, pc) == rl_pc[l] = pc
LeafGoes(l, pc) == rl_pc' = [rl_pc EXCEPT ![l] = pc]

(* The process ends and its memory is gone.                                *)
Ends(l) == /\ LeafGoes(l, "idle")
           /\ rl_mem' = [rl_mem EXCEPT ![l] = seed_receipt]
           /\ rl_then' = [rl_then EXCEPT ![l] = Unset]
Receipt(l, r) == rl_mem' = [rl_mem EXCEPT ![l] = r]
Write(l, r, pc, result) ==
    /\ Receipt(l, r) /\ LeafGoes(l, "write")
    /\ rl_then' = [rl_then EXCEPT ![l] = [pc |-> pc, result |-> result]]
Fault == rl_faults < MaxLeafFaults /\ rl_faults' = rl_faults + 1

-----------------------------------------------------------------------------
(* attempt_pointers: a look at run.json, and the write of an empty one.    *)
rl_begin(l, reattach) ==
    /\ LeafAt(l, "idle") /\ rl_tries < MaxTries
    /\ rl_tries' = rl_tries + 1
    /\ rl_reattach' = [rl_reattach EXCEPT ![l] = reattach]
    /\ Receipt(l, seed_receipt)
    /\ rl_seen' = [rl_seen EXCEPT ![l] = rl_run # Unset]
    /\ rl_result' = [rl_result EXCEPT ![l] = Unset]
    /\ LeafGoes(l, "create")
    /\ UNCHANGED <<rl_then, rl_disk, rl_lock, rl_copy, rl_worker, rl_faults, rl_passed>>

attempt_pointers(l) ==
    /\ LeafAt(l, "create")
    /\ rl_run' = IF rl_seen[l] THEN rl_run ELSE <<>>
    /\ rl_seen' = [rl_seen EXCEPT ![l] = FALSE]
    /\ LeafGoes(l, "decide")
    /\ UNCHANGED <<rl_reattach, rl_mem, rl_then, rl_ptr, rl_file, rl_lock, rl_copy,
                   rl_worker, rl_result, rl_tries, rl_faults, rl_passed>>

(* saved_receipt: there is one if the pointer is there and the file whole. *)
saved_receipt(l) == IF rl_ptr[l] /\ rl_file[l] # Torn THEN rl_file[l] ELSE Unset

reattach_action(saved) ==
    IF saved = Unset THEN "submit"
    ELSE IF saved.terminal # Unset THEN "verify" ELSE "follow"

(* What is saved decides: nothing is left to do, the attempt is followed,  *)
(* or the task is submitted.  A terminal attempt that was not verified     *)
(* goes straight to its outputs.                                           *)
rl_decide(l) ==
    /\ LeafAt(l, "decide")
    /\ LET saved == IF rl_reattach[l] THEN saved_receipt(l) ELSE Unset
           action == reattach_action(saved)
       IN \/ /\ action = "verify" /\ saved.hash_ok = TRUE
             /\ rl_result' = [rl_result EXCEPT ![l] = saved.code]
             /\ Ends(l) /\ UNCHANGED rl_ptr
          \/ /\ action \in {"verify", "follow"} /\ saved.hash_ok # TRUE
             /\ Receipt(l, saved) /\ rl_ptr' = [rl_ptr EXCEPT ![l] = TRUE]
             /\ LeafGoes(l, IF action = "verify" THEN "finish" ELSE "poll")
             /\ UNCHANGED <<rl_then, rl_result>>
          \/ /\ action = "submit" /\ LeafGoes(l, "submit")
             /\ UNCHANGED <<rl_mem, rl_then, rl_ptr, rl_result>>
    /\ UNCHANGED <<rl_reattach, rl_seen, rl_file, rl_run, rl_lock, rl_copy,
                   rl_worker, rl_tries, rl_faults, rl_passed>>

(* nixplane execution submit.  Its answer has the attempt, or gets lost,   *)
(* or names none, which is recorded.                                       *)
rl_submit(l, answer) ==
    /\ LeafAt(l, "submit")
    /\ rl_worker' = [rl_worker EXCEPT ![l] =
           IF @ = Unset /\ answer # "empty" THEN [journal |-> <<>>, code |-> Unset] ELSE @]
    /\ \/ /\ answer = "attempt"
          /\ Receipt(l, [rl_mem[l] EXCEPT !.attempt = TRUE]) /\ LeafGoes(l, "remember")
          /\ UNCHANGED <<rl_then, rl_result, rl_faults>>
       \/ /\ answer = "lost" /\ Fault
          /\ Ends(l)
          /\ rl_result' = [rl_result EXCEPT ![l] = PROCESS_SUPERVISION]
       \/ /\ answer = "empty" /\ Fault
          /\ Write(l, rl_mem[l], "idle", PROCESS_SUPERVISION) /\ UNCHANGED rl_result
    /\ UNCHANGED <<rl_reattach, rl_seen, rl_disk, rl_lock, rl_copy, rl_tries, rl_passed>>

(* The pointer is renamed into place; NIXPLANE_STOP_AFTER_ADMIT ends here. *)
remember_attempts(l, stop) ==
    /\ LeafAt(l, "remember")
    /\ rl_ptr' = [rl_ptr EXCEPT ![l] = TRUE]
    /\ IF stop THEN Write(l, rl_mem[l], "idle", ADMITTED)
       ELSE LeafGoes(l, "poll") /\ UNCHANGED <<rl_mem, rl_then>>
    /\ UNCHANGED <<rl_reattach, rl_seen, rl_file, rl_run, rl_lock, rl_copy, rl_worker,
                   rl_result, rl_tries, rl_faults, rl_passed>>

-----------------------------------------------------------------------------
Terminal(e) == e.kind \in {"exited", "cancelled"}

journal_cursor(after, page) == after + Len(page)

(* collect_journal: the events after the cursor, the terminal one among    *)
(* them or not.                                                            *)
collect_journal(l) ==
    /\ LeafAt(l, "poll")
    /\ LET r == rl_mem[l]
           journal == rl_worker[l].journal
           page == SubSeq(journal, r.cursor + 1, Len(journal))
           last == IF page = <<>> THEN Unset ELSE page[Len(page)]
           at == journal_cursor(r.cursor, page)
       IN IF last # Unset /\ Terminal(last)
          THEN /\ Receipt(l, [r EXCEPT !.cursor = at, !.terminal = last.kind, !.code = last.code])
               /\ LeafGoes(l, "finish")
          ELSE Receipt(l, [r EXCEPT !.cursor = at]) /\ UNCHANGED rl_pc
    /\ UNCHANGED <<rl_reattach, rl_then, rl_seen, rl_disk, rl_lock, rl_copy, rl_worker,
                   rl_result, rl_tries, rl_faults, rl_passed>>

collect_journal_error(l) ==
    /\ LeafAt(l, "poll") /\ Fault
    /\ Write(l, rl_mem[l], "idle", PROCESS_SUPERVISION)
    /\ UNCHANGED <<rl_reattach, rl_seen, rl_disk, rl_lock, rl_copy, rl_worker, rl_result,
                   rl_tries, rl_passed>>

(* The deadline: the attempt is cancelled, if the request arrives and it   *)
(* has not ended.                                                          *)
rl_deadline(l, arrives) ==
    /\ LeafAt(l, "poll") /\ Fault
    /\ rl_worker' = IF arrives /\ rl_worker[l].code = Unset
                    THEN [rl_worker EXCEPT ![l].code = 1, ![l].journal =
                             Append(@, [kind |-> "cancelled", code |-> 1])]
                    ELSE rl_worker
    /\ Write(l, [rl_mem[l] EXCEPT !.cancelled = TRUE], "clear", TIMED_OUT)
    /\ UNCHANGED <<rl_reattach, rl_seen, rl_disk, rl_lock, rl_copy, rl_result, rl_tries,
                   rl_passed>>

(* The terminal receipt; an attempt that was cancelled has no outputs.     *)
rl_finish(l) ==
    /\ LeafAt(l, "finish")
    /\ IF rl_mem[l].terminal = "cancelled" THEN Write(l, rl_mem[l], "clear", rl_mem[l].code)
       ELSE Write(l, rl_mem[l], "fetch", Unset)
    /\ UNCHANGED <<rl_reattach, rl_seen, rl_disk, rl_lock, rl_copy, rl_worker, rl_result,
                   rl_tries, rl_faults, rl_passed>>

(* Fault: what was fetched does not matter.                                *)
ResultOf_code(code, hash_ok) == code

ResultOf(code, hash_ok) == IF hash_ok THEN code ELSE 1

rl_fetch(l, hash_ok) ==
    /\ LeafAt(l, "fetch")
    /\ IF hash_ok THEN UNCHANGED rl_faults ELSE Fault
    /\ rl_passed' = [rl_passed EXCEPT ![l] = hash_ok]
    /\ Write(l, [rl_mem[l] EXCEPT !.hash_ok = hash_ok], "clear",
             ResultOf(rl_mem[l].code, hash_ok))
    /\ UNCHANGED <<rl_reattach, rl_seen, rl_disk, rl_lock, rl_copy, rl_worker, rl_result,
                   rl_tries>>

-----------------------------------------------------------------------------
(* write_receipt: the file, named after the attempt, and then, under its    *)
(* lock, run.json.                                                         *)
write_receipt(l) ==
    /\ LeafAt(l, "write")
    /\ rl_file' = IF rl_mem[l].attempt THEN [rl_file EXCEPT ![l] = rl_mem[l]] ELSE rl_file
    /\ LeafGoes(l, "lock")
    /\ UNCHANGED <<rl_reattach, rl_mem, rl_then, rl_seen, rl_ptr, rl_run, rl_lock, rl_copy,
                   rl_worker, rl_result, rl_tries, rl_faults, rl_passed>>

MayUpdate(l) == rl_lock = Unset

update_run_record(l) ==
    /\ LeafAt(l, "lock") /\ MayUpdate(l)
    /\ rl_lock' = l
    /\ rl_copy' = [rl_copy EXCEPT ![l] = IF rl_run = Unset THEN <<>> ELSE rl_run]
    /\ LeafGoes(l, "stage")
    /\ UNCHANGED <<rl_reattach, rl_mem, rl_then, rl_seen, rl_disk, rl_worker, rl_result,
                   rl_tries, rl_faults, rl_passed>>

LeafStatus(r) == IF r.terminal # Unset THEN r.terminal
                 ELSE IF r.attempt THEN "admitted" ELSE "pending"

(* stage_run_record: the copy with this leaf's entry is renamed over it.   *)
stage_run_record(l) ==
    /\ LeafAt(l, "stage")
    /\ rl_run' = [k \in DOMAIN rl_copy[l] \cup {l} |->
                     IF k = l THEN LeafStatus(rl_mem[l]) ELSE rl_copy[l][k]]
    /\ rl_lock' = Unset /\ rl_copy' = [rl_copy EXCEPT ![l] = Unset]
    /\ IF rl_then[l].pc = "idle"
       THEN Ends(l) /\ rl_result' = [rl_result EXCEPT ![l] = rl_then[l].result]
       ELSE LeafGoes(l, rl_then[l].pc) /\ UNCHANGED <<rl_mem, rl_then, rl_result>>
    /\ UNCHANGED <<rl_reattach, rl_seen, rl_ptr, rl_file, rl_worker, rl_tries,
                   rl_faults, rl_passed>>

clear_attempts(l) ==
    /\ LeafAt(l, "clear")
    /\ rl_ptr' = [rl_ptr EXCEPT ![l] = FALSE]
    /\ rl_result' = [rl_result EXCEPT ![l] = rl_then[l].result]
    /\ Ends(l)
    /\ UNCHANGED <<rl_reattach, rl_seen, rl_file, rl_run, rl_lock, rl_copy,
                   rl_worker, rl_tries, rl_faults, rl_passed>>

(* The process is killed; a receipt that is being written may be torn.     *)
rl_killed(l) ==
    /\ ~ LeafAt(l, "idle") /\ Fault
    /\ Ends(l)
    /\ \/ UNCHANGED rl_file
       \/ LeafAt(l, "write") /\ rl_mem[l].attempt /\ rl_file' = [rl_file EXCEPT ![l] = Torn]
    /\ rl_lock' = IF rl_lock = l THEN Unset ELSE rl_lock
    /\ rl_copy' = [rl_copy EXCEPT ![l] = Unset]
    /\ UNCHANGED <<rl_reattach, rl_seen, rl_ptr, rl_run, rl_worker, rl_result,
                   rl_tries, rl_passed>>

(* The worker: the source is checked out, the task exits.                  *)
worker_event(l) ==
    /\ rl_worker[l] # Unset /\ rl_worker[l].code = Unset
    /\ \/ /\ rl_worker[l].journal = <<>>
          /\ rl_worker' = [rl_worker EXCEPT ![l].journal =
                              <<[kind |-> "source", code |-> Unset]>>]
       \/ \E c \in ExitCodes :
             rl_worker' = [rl_worker EXCEPT ![l].code = c, ![l].journal =
                              Append(@, [kind |-> "exited", code |-> c])]
    /\ UNCHANGED <<rl_pc, rl_reattach, rl_mem, rl_then, rl_seen, rl_disk, rl_lock, rl_copy,
                   rl_result, rl_tries, rl_faults, rl_passed>>

RemoteNext == \E l \in Leaves :
    \/ \E b \in BOOLEAN : \/ rl_begin(l, b) \/ remember_attempts(l, b)
                          \/ rl_deadline(l, b) \/ rl_fetch(l, b)
    \/ \E answer \in {"attempt", "lost", "empty"} : rl_submit(l, answer)
    \/ attempt_pointers(l) \/ rl_decide(l)
    \/ collect_journal(l) \/ collect_journal_error(l) \/ rl_finish(l)
    \/ write_receipt(l) \/ update_run_record(l) \/ stage_run_record(l) \/ clear_attempts(l)
    \/ rl_killed(l) \/ worker_event(l)

RemoteSpec == RemoteInit /\ [][RemoteNext]_rl_vars

-----------------------------------------------------------------------------
WholeReceipt(l) == rl_file[l] \notin {Unset, Torn}

(* A leaf is successful only if its task exited with 0 and its outputs     *)
(* were fetched and verified by this process or by the one it took over.   *)
(* A cursor on disk is past the terminal event only in a receipt that has  *)
(* it: whoever takes the attempt over does not wait for an event that it   *)
(* will never see.                                                         *)
LeafTruthful ==
    \A l \in Leaves :
        /\ rl_result[l] = 0 => rl_worker[l].code = 0 /\ rl_passed[l]
        /\ WholeReceipt(l) /\ rl_file[l].terminal = Unset /\ rl_worker[l].code # Unset
              => rl_file[l].cursor < Len(rl_worker[l].journal)

(* docs/CLI_CONTRACT.md on NIXPLANE_REATTACH: "A finished attempt is       *)
(* fetched or verified again.  It is not submitted a second time."         *)
FinishedNotResubmitted ==
    \A l \in Leaves : LeafAt(l, "submit") /\ rl_reattach[l] =>
        ~ (WholeReceipt(l) /\ rl_file[l].terminal # Unset)

=============================================================================
