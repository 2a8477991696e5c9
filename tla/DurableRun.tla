----------------------------- MODULE DurableRun -----------------------------
(***************************************************************************)
(* The durable record of one run: crates/nxr-core/src/durable_run.rs.      *)
(*                                                                         *)
(* {run_id}.events.jsonl is a journal of lines, {run_id}.json a snapshot   *)
(* of the state they lead to.  A writer takes the per-run lock, reads the  *)
(* journal (dropping a torn last line), appends one line, body and newline *)
(* in two writes, and replaces the snapshot by a rename.  Any step may     *)
(* fail or be the last before a crash.  A reader takes the lock only to    *)
(* repair the journal it has already read.                                 *)
(*                                                                         *)
(* A line that is not JSON is a Fragment, the first part of a body, or is  *)
(* Garbled, two bodies run together.  The transition id of an attempt is   *)
(* built from the sequence of its start and is represented by it.          *)
(* Timestamps, commands and exit codes (functions of the outcome) are left *)
(* out.                                                                    *)
(*                                                                         *)
(*   pc: idle; append, rest, newline, store (the lock is held); retry      *)
(***************************************************************************)
EXTENDS Naturals, Sequences, SequencesExt

CONSTANTS
    MaxAttempts,  \* bound: calls of sync_supervisor_started for the run id
    Outcomes,     \* statuses that terminal calls report
    Faults,       \* what may go wrong: "crash", "write", "snapshot"
    Readers       \* processes that call load_durable_run

ASSUME DurableConstants ==
    /\ MaxAttempts \in Nat \ {0}
    /\ Outcomes \subseteq {"Succeeded", "Failed", "Cancelled"}
    /\ Faults \subseteq {"crash", "write", "snapshot"}

VARIABLES
    journal, newline,     \* physical lines; does the file end in a newline?
    snapshot,             \* {run_id}.json
    pc, call, tries,      \* the writer: where, in which call, tries left
    record, line,         \* its locals
    attempts, start_failed,
    acked,                \* the last terminal call returned Ok
    parsed,               \* lines a reader is about to write back
    repaired              \* ghost: a reader has written lines back

run_files == <<journal, newline, snapshot>>
run_writer == <<pc, call, tries, record, line, start_failed, acked>>
vars == <<run_files, run_writer, attempts, parsed, repaired>>

NoRecord == [status |-> "Pending", event_sequence |-> 0, transition_id |-> 0]
NotJson(kind) ==
    [sequence |-> 0, kind |-> kind, status |-> "Pending", transition_id |-> 0]
Fragment == NotJson("fragment")
Garbled == NotJson("garbled")
NoLines == <<Garbled>>
Parses(l) == l.kind \in {"supervisor_started", "supervisor_terminal"}

-----------------------------------------------------------------------------
(* Reading.                                                                *)

(* A line that is complete, or not the last, and does not parse.           *)
Corrupt == \E i \in DOMAIN journal : /\ ~ Parses(journal[i])
                                     /\ newline \/ i < Len(journal)

(* The last line has no newline and does not parse.                        *)
TornTail == /\ ~ Corrupt /\ ~ newline
            /\ journal # <<>> /\ ~ Parses(Last(journal))

(* parse_journal_text, of a journal that is not corrupt.                   *)
Lines == IF TornTail THEN Front(journal) ELSE journal

(* rewrite_journal_file_locked, if the parse had to drop a torn line.      *)
RepairJournal ==
    /\ journal' = Lines
    /\ newline' = (newline \/ TornTail)

(* Fault: the snapshot's counter is taken for the journal's.               *)
next_journal_sequence_snapshot == snapshot.event_sequence + 1

(* next_journal_sequence_under_run_lock: sequences grow along the journal. *)
next_journal_sequence == IF Lines = <<>> THEN 1 ELSE Last(Lines).sequence + 1

(* supervisor_attempt_transition_id_from_journal, 0 for None.              *)
attempt_from_journal ==
    LET starts == {i \in DOMAIN Lines : Lines[i].kind = "supervisor_started"}
    IN  IF starts = {} THEN 0 ELSE Lines[Max(starts)].transition_id

(* The snapshot with apply_journal_tail_to_record, or without a snapshot   *)
(* the record that materialize_record_from_journal_lines builds.           *)
loaded ==
    IF snapshot # NoRecord /\ (Lines = <<>> \/ Last(Lines).sequence <= snapshot.event_sequence)
    THEN snapshot
    ELSE [status         |-> Last(Lines).status,
          event_sequence |-> Last(Lines).sequence,
          transition_id  |-> IF snapshot # NoRecord THEN snapshot.transition_id
                                                    ELSE attempt_from_journal]

Missing == snapshot = NoRecord /\ Lines = <<>>

(* load_durable_run: the status it returns, or why it fails.               *)
load_durable_run == CASE Corrupt -> "corrupt"
                      [] ~ Corrupt /\ Missing -> "missing"
                      [] OTHER -> loaded.status

-----------------------------------------------------------------------------
(* Writing.                                                                *)

Init ==
    /\ journal = <<>> /\ newline = TRUE /\ snapshot = NoRecord
    /\ pc = "idle" /\ call = "none" /\ tries = 0
    /\ record = NoRecord /\ line = Fragment
    /\ attempts = 0 /\ start_failed = FALSE /\ acked = FALSE
    /\ parsed = [r \in Readers |-> NoLines] /\ repaired = FALSE

(* A call returns Err: sync_supervisor_terminal_with_reconcile tries a     *)
(* terminal call once more.                                                *)
Fails ==
    /\ pc' = IF call' # "started" /\ tries' > 0 THEN "retry" ELSE "idle"
    /\ start_failed' = (call' = "started")
    /\ UNCHANGED acked

(* sync_supervisor_started, up to the append.                              *)
sync_supervisor_started ==
    /\ pc = "idle" /\ attempts < MaxAttempts
    /\ attempts' = attempts + 1
    /\ call' = "started" /\ tries' = 0
    /\ IF Corrupt
       THEN Fails /\ UNCHANGED <<run_files, record, line>>
       ELSE /\ RepairJournal
            /\ LET sequence == next_journal_sequence IN
               /\ line' = [sequence |-> sequence, kind |-> "supervisor_started",
                           status |-> "Running", transition_id |-> sequence]
               /\ record' = [status |-> "Running", event_sequence |-> sequence,
                             transition_id |-> sequence]
            /\ pc' = "append" /\ start_failed' = FALSE /\ acked' = FALSE
            /\ UNCHANGED snapshot
    /\ UNCHANGED <<parsed, repaired>>

(* Where the journal has a terminal line of the attempt.                   *)
Terminals(id) ==
    {i \in DOMAIN Lines : Lines[i].kind = "supervisor_terminal" /\ Lines[i].transition_id = id}

existing(id) == Terminals(id)

(* A line already there is not repeated; only the snapshot is stored.      *)
PrepareTerminal(status, id) ==
    LET sequence == IF existing(id) # {} THEN Lines[Min(existing(id))].sequence
                                         ELSE next_journal_sequence
    IN  /\ record' = [status |-> status, event_sequence |-> sequence, transition_id |-> id]
        /\ line' = [sequence |-> sequence, kind |-> "supervisor_terminal",
                    status |-> status, transition_id |-> id]
        /\ pc' = IF existing(id) # {} THEN "store" ELSE "append"
        /\ UNCHANGED snapshot

(* The owner reports a cancellation before any exit, then the exit; either *)
(* report may be repeated.                                                 *)
MayReport(status) == call \in {"started", status} \/ call = "Cancelled"

(* sync_supervisor_terminal, up to the append: the first try, or a retry.  *)
sync_supervisor_terminal(status) ==
    /\ \/ pc = "idle" /\ MayReport(status) /\ tries' = 1
       \/ pc = "retry" /\ call = status /\ tries' = 0
    /\ call' = status
    /\ \/ /\ Corrupt
          /\ Fails /\ UNCHANGED <<run_files, record, line>>
       \/ /\ ~ Corrupt
          /\ RepairJournal
          /\ IF Missing \/ loaded.transition_id = 0
             THEN Fails /\ UNCHANGED <<snapshot, record, line>>
             ELSE /\ PrepareTerminal(status, loaded.transition_id)
                  /\ start_failed' = FALSE /\ UNCHANGED acked
    /\ UNCHANGED <<attempts, parsed, repaired>>

(* Text written after an unterminated line becomes part of it.             *)
Written(l) ==
    journal' = IF newline THEN Append(journal, l)
                          ELSE Append(Front(journal), Garbled)

(* append_journal_line: write_all of the body.                             *)
AppendBody ==
    /\ pc = "append"
    /\ Written(line) /\ newline' = FALSE
    /\ pc' = "newline"
    /\ UNCHANGED <<snapshot, call, tries, record, line, start_failed, acked, attempts, parsed, repaired>>

(* A short write leaves the first part of the body ...                     *)
AppendPart ==
    /\ pc = "append" /\ Faults \cap {"crash", "write"} # {}
    /\ Written(Fragment) /\ newline' = FALSE
    /\ pc' = "rest"
    /\ UNCHANGED <<snapshot, call, tries, record, line, start_failed, acked, attempts, parsed, repaired>>

(* ... and write_all goes on with the rest.                                *)
AppendRest ==
    /\ pc = "rest"
    /\ journal' = IF Last(journal) = Fragment THEN Append(Front(journal), line) ELSE journal
    /\ pc' = "newline"
    /\ UNCHANGED <<newline, snapshot, call, tries, record, line, start_failed, acked,
                   attempts, parsed, repaired>>

(* write_all of the newline, and sync_data.                                *)
AppendNewline ==
    /\ pc = "newline"
    /\ newline' = TRUE
    /\ pc' = "store"
    /\ UNCHANGED <<journal, snapshot, call, tries, record, line, start_failed, acked,
                   attempts, parsed, repaired>>

(* store_durable_run: write_atomic_json replaces the snapshot; Ok.         *)
StoreSnapshot ==
    /\ pc = "store"
    /\ snapshot' = record
    /\ pc' = "idle"
    /\ acked' = (call # "started")
    /\ UNCHANGED <<journal, newline, call, tries, record, line, start_failed, attempts, parsed, repaired>>

(* A write or the rename fails with an error.                              *)
IoError ==
    /\ \/ "write" \in Faults /\ pc \in {"append", "rest", "newline"}
       \/ "snapshot" \in Faults /\ pc = "store"
    /\ UNCHANGED <<call, tries>>
    /\ Fails
    /\ UNCHANGED <<run_files, record, line, attempts, parsed, repaired>>

(* The owner of the failed start calls remove_durable_run_artifacts.       *)
remove_durable_run_artifacts ==
    /\ pc = "idle" /\ start_failed
    /\ journal' = <<>> /\ newline' = TRUE /\ snapshot' = NoRecord
    /\ start_failed' = FALSE
    /\ UNCHANGED <<pc, call, tries, record, line, acked, attempts, parsed, repaired>>

(* The writing process dies; the lock goes with it.                        *)
Crash ==
    /\ "crash" \in Faults
    /\ pc # "idle"
    /\ pc' = "idle"
    /\ UNCHANGED <<run_files, call, tries, record, line, start_failed, acked, attempts, parsed, repaired>>

-----------------------------------------------------------------------------
(* load_durable_run by another process.                                    *)

(* It reads the journal without the lock and finds a torn last line ...    *)
ReadTorn(r) ==
    /\ parsed[r] = NoLines /\ TornTail
    /\ parsed' = [parsed EXCEPT ![r] = Lines]
    /\ UNCHANGED <<run_files, run_writer, attempts, repaired>>

(* ... which it removes under the lock, by writing back what it has read.  *)
ReaderRepairs(r) ==
    /\ parsed[r] # NoLines /\ pc \in {"idle", "retry"}
    /\ journal' = parsed[r] /\ newline' = TRUE
    /\ parsed' = [parsed EXCEPT ![r] = NoLines]
    /\ repaired' = TRUE
    /\ UNCHANGED <<snapshot, run_writer, attempts>>

Next ==
    \/ sync_supervisor_started
    \/ \E status \in Outcomes : sync_supervisor_terminal(status)
    \/ AppendBody \/ AppendPart \/ AppendRest \/ AppendNewline \/ StoreSnapshot
    \/ IoError \/ Crash \/ remove_durable_run_artifacts
    \/ \E r \in Readers : ReadTorn(r) \/ ReaderRepairs(r)

Spec == Init /\ [][Next]_vars

-----------------------------------------------------------------------------

(* Sequence numbers grow along the journal, whatever fails between the     *)
(* journal and the snapshot.                                               *)
SequencesIncrease ==
    ~ Corrupt => \A i, j \in DOMAIN Lines : i < j => Lines[i].sequence < Lines[j].sequence

(* An attempt has at most one terminal line, however often its outcome is  *)
(* reported and retried.                                                   *)
OneCompletion ==
    ~ Corrupt => \A i, j \in DOMAIN Lines :
        {i, j} \subseteq Terminals(Lines[i].transition_id) => i = j

(* The first attempt of a run id, as long as no reader has repaired the    *)
(* journal behind the writer.                                              *)
FirstAttempt == attempts <= 1 /\ ~ repaired

(* Journal first: the snapshot never tells of an event the journal lacks.  *)
(* A second start may leave a snapshot whose journal was removed.          *)
JournalFirst ==
    FirstAttempt /\ ~ Corrupt /\ snapshot # NoRecord =>
        \E i \in DOMAIN Lines : Lines[i].sequence = snapshot.event_sequence

(* The record is a projection of the journal: load_durable_run reports the *)
(* status of the last journal line, unless that is a cancellation, which   *)
(* the later exit overwrites in the snapshot only.                         *)
ProjectionAgrees ==
    FirstAttempt /\ ~ Corrupt /\ Lines # <<>> =>
        Last(Lines).status \in {"Cancelled", load_durable_run}

(* Once a terminal call has returned Ok no later load reports the run as   *)
(* running or unknown, whatever fails or crashes afterwards.               *)
CompletionSticks ==
    FirstAttempt /\ acked => load_durable_run \notin {"Running", "missing"}

(* What the journal and the snapshot say, and say of each other, whatever  *)
(* fails between an append and a rename and however a reader repairs.      *)
JournalSound ==
    SequencesIncrease /\ OneCompletion /\ JournalFirst /\ ProjectionAgrees /\ CompletionSticks

(* The journal can always be read: a crash never makes a load fail with    *)
(* corruption.                                                             *)
JournalReadable == ~ Corrupt

=============================================================================
