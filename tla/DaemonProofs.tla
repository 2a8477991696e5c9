---------------------------- MODULE DaemonProofs ----------------------------
(***************************************************************************)
(* Theorems about what clients, runs and attempts share: the session       *)
(* supervisor, for every set of runs, budget and fault, its log broker,    *)
(* for every set of streams and subscribers and every capacity, the worker *)
(* registry, the eval worker and the daemon's socket itself.               *)
(***************************************************************************)
EXTENDS SessionOwner, LogBroker, WorkerRegistry, EvalWorker, DaemonLifecycle, Totals,
        SequenceTheorems

-----------------------------------------------------------------------------
(* The session supervisor                                                  *)

(* Changing the status of a record leaves a record.                        *)
LEMMA StatusUpdate ==
    ASSUME OwnerTypeOK, NEW r \in Runs, NEW s \in Status
    PROVE  [records EXCEPT ![r].status = s]
             \in [Runs -> [status : Status, exit_code : {0, 1, NoCode}]]
  <1>1. [records[r] EXCEPT !.status = s] \in [status : Status, exit_code : {0, 1, NoCode}]
    BY DEF OwnerTypeOK
  <1> QED
    BY <1>1 DEF OwnerTypeOK

(* A terminal report leaves durable statuses.                              *)
LEMMA SyncTyped ==
    ASSUME OwnerTypeOK, NEW r \in Runs, NEW s \in DurableStatus, sync_terminal(r, s)
    PROVE  journaled' \in [Runs -> DurableStatus] /\ durable' \in [Runs -> DurableStatus]
  <1> DEFINE lines == [journaled EXCEPT ![r] = IF Ended(@) THEN @ ELSE s]
  <1>1. lines \in [Runs -> DurableStatus]
    BY DEF OwnerTypeOK
  <1>2. [durable EXCEPT ![r] = s] \in [Runs -> DurableStatus]
    BY DEF OwnerTypeOK
  <1>3. /\ journaled' = lines \/ journaled' = journaled
        /\ durable' = [durable EXCEPT ![r] = s] \/ durable' = durable
    BY DEF sync_terminal
  <1>4. journaled \in [Runs -> DurableStatus] /\ durable \in [Runs -> DurableStatus]
    BY DEF OwnerTypeOK
  <1> HIDE DEF lines
  <1> QED
    BY <1>1, <1>2, <1>3, <1>4

(* The initial state has no threads and no records.                        *)
LEMMA InitOwnerInv == Init => OwnerInv
  BY SMTT(60), OwnerConstants
  DEF Init, OwnerInv, OwnerTypeOK, OneHolder, InStart, InWait, InCancel, HeldRecords,
      NoRecord, NoCode, Status, DurableStatus

(* A request thread or a wait thread, or a process, takes a step.          *)
LEMMA RunStepOwnerInv ==
    ASSUME OwnerInv, NEW r \in Runs,
           \/ StartRequest(r) \/ CancelRequest(r) \/ Start(r) \/ Wait(r) \/ Cancel(r)
           \/ Exit(r) \/ InitReaps(r) \/ Recycle(r)
    PROVE  OwnerInv'
  <1> USE DEF OwnerInv, OwnerTypeOK, OneHolder, InStart, InWait, InCancel, HeldRecords,
              NoRecord, NoCode, Status, DurableStatus, threads, kernel, store, daemon
  <1>1. CASE StartRequest(r)
    BY <1>1 DEF StartRequest
  <1>2. CASE StartReconcile(r)
    BY <1>2 DEF StartReconcile, reconcile_once, Gone, Still, with_lock, Locked
  <1>3. CASE Refuse(r)
    BY SMTT(60), <1>3 DEF Refuse, with_lock, Locked
  <1>4. CASE Spawn(r)
    BY <1>4 DEF Spawn, with_lock, Locked
  <1>5. CASE AdmitFails(r)
    BY <1>5 DEF AdmitFails, with_lock, Locked
  <1>6. CASE StoreRunning(r)
    <2>1. records' \in [Runs -> [status : Status, exit_code : {0, 1, NoCode}]]
      BY <1>6, StatusUpdate DEF StoreRunning
    <2>2. OneHolder'
      BY <1>6 DEF StoreRunning
    <2>3. HeldRecords'
      BY <1>6 DEF StoreRunning
    <2> QED
      BY <1>6, <2>1, <2>2, <2>3 DEF StoreRunning
  <1>7. CASE StoreFails(r)
    BY <1>7 DEF StoreFails
  <1>8. CASE SyncStarted(r)
    BY <1>8 DEF SyncStarted
  <1>9. CASE SyncStartedFails(r)
    BY <1>9 DEF SyncStartedFails
  <1>10. CASE Reap(r)
    BY <1>10 DEF Reap
  <1>11. CASE RecordExit(r)
    <2>1. records' \in [Runs -> [status : Status, exit_code : {0, 1, NoCode}]]
      BY <1>11 DEF RecordExit, Exited, with_lock, Locked
    <2>2. OneHolder'
      BY <1>11 DEF RecordExit, Exited, with_lock, Locked
    <2>3. HeldRecords'
      BY <1>11 DEF RecordExit, Exited, with_lock, Locked
    <2> QED
      BY <1>11, <2>1, <2>2, <2>3 DEF RecordExit
  <1>12. CASE RecordExitFails(r)
    BY <1>12 DEF RecordExitFails, with_lock, Locked
  <1>13. CASE SyncExit(r)
    <2>1. journaled' \in [Runs -> DurableStatus] /\ durable' \in [Runs -> DurableStatus]
      BY <1>13, SyncTyped DEF SyncExit
    <2>2. OneHolder'
      BY <1>13 DEF SyncExit
    <2>3. HeldRecords'
      BY <1>13 DEF SyncExit
    <2> QED
      BY <1>13, <2>1, <2>2, <2>3 DEF SyncExit
  <1>14. CASE CancelRequest(r)
    BY <1>14 DEF CancelRequest
  <1>15. CASE CancelReconcile(r)
    BY <1>15 DEF CancelReconcile, reconcile_once, Gone, Still, with_lock, Locked
  <1>16. CASE Signal(r)
    BY <1>16 DEF Signal, with_lock, Locked
  <1>17. CASE CancelReturns(r)
    BY <1>17 DEF CancelReturns, with_lock, Locked
  <1>18. CASE RecordCancel(r)
    <2>1. records' \in [Runs -> [status : Status, exit_code : {0, 1, NoCode}]]
      BY <1>18, StatusUpdate DEF RecordCancel
    <2>2. OneHolder'
      BY <1>18 DEF RecordCancel
    <2>3. HeldRecords'
      BY <1>18 DEF RecordCancel
    <2> QED
      BY <1>18, <2>1, <2>2, <2>3 DEF RecordCancel
  <1>19. CASE RecordCancelFails(r)
    BY <1>19 DEF RecordCancelFails
  <1>20. CASE SyncCancel(r)
    <2>1. journaled' \in [Runs -> DurableStatus] /\ durable' \in [Runs -> DurableStatus]
      BY <1>20, SyncTyped DEF SyncCancel
    <2>2. OneHolder'
      BY <1>20 DEF SyncCancel
    <2>3. HeldRecords'
      BY <1>20 DEF SyncCancel
    <2> QED
      BY <1>20, <2>1, <2>2, <2>3 DEF SyncCancel
  <1>21. CASE Exit(r)
    BY <1>21 DEF Exit
  <1>22. CASE InitReaps(r)
    BY <1>22 DEF InitReaps
  <1>23. CASE Recycle(r)
    BY <1>23 DEF Recycle
  <1> QED
    BY <1>1, <1>2, <1>3, <1>4, <1>5, <1>6, <1>7, <1>8, <1>9, <1>10, <1>11, <1>12, <1>13, <1>14, <1>15, <1>16, <1>17, <1>18, <1>19, <1>20, <1>21, <1>22, <1>23
    DEF Start, Wait, Cancel

(* list, a crash and a restart touch every run at once.                    *)
LEMMA DaemonStepOwnerInv ==
    ASSUME OwnerInv, List \/ Crash \/ Restart
    PROVE  OwnerInv'
  <1> USE DEF OwnerInv, OwnerTypeOK, OneHolder, InStart, InWait, InCancel, HeldRecords,
              NoRecord, NoCode, Status, DurableStatus, threads, kernel, store, daemon
  <1>1. CASE List
    BY <1>1 DEF List, reconcile_once, Gone, Still, with_lock, Locked
  <1>2. CASE Crash
    <2>1. crashes' \in 0..MaxCrashes
      BY <1>2, OwnerConstants DEF Crash
    <2>2. waiter' \in [Runs -> {"none", "waiting", "reaped", "stored", "done", "dead"}]
      BY <1>2 DEF Crash
    <2>3. \A r \in Runs : ~ InStart(r)' /\ ~ InWait(r)' /\ ~ InCancel(r)'
      BY <1>2 DEF Crash
    <2> QED
      BY <1>2, <2>1, <2>2, <2>3 DEF Crash
  <1>3. CASE Restart
    BY <1>3 DEF Restart, reconcile_once, Gone, Still
  <1> QED
    BY <1>1, <1>2, <1>3

(* Every step keeps the invariant.                                         *)
LEMMA NextOwnerInv == OwnerInv /\ [Next]_vars => OwnerInv'
  <1> SUFFICES ASSUME OwnerInv, [Next]_vars PROVE OwnerInv'
    OBVIOUS
  <1>1. CASE UNCHANGED vars
    BY <1>1
    DEF vars, OwnerInv, OwnerTypeOK, OneHolder, InStart, InWait, InCancel, HeldRecords,
        threads, kernel, store, daemon
  <1> QED
    BY <1>1, RunStepOwnerInv, DaemonStepOwnerInv DEF Next

(* The invariant holds in every behaviour.                                 *)
LEMMA OwnerInvariance == Spec => []OwnerInv
  BY InitOwnerInv, NextOwnerInv, PTL DEF Spec

(* The supervisor's state is typed and no two threads are ever inside the  *)
(* admission lock, for every number of runs, crashes and failed writes.    *)
THEOREM OwnerTypeCorrect == Spec => []OwnerTypeOK
  BY OwnerInvariance, PTL DEF OwnerInv

-----------------------------------------------------------------------------
(* Outcomes are final.                                                     *)

(* A recorded outcome is never rewritten, for every number of runs and     *)
(* threads, crashes and failed writes: the threads that change a record    *)
(* have seen it running, or absent, and hold the lock since.               *)
THEOREM StatusFinalHolds == Spec => StatusFinal
  <1> DEFINE Kept == \A r \in Runs : records[r].status \in Final
                                       => records'[r].status = records[r].status
  <1>1. OwnerInv /\ [Next]_vars => Kept
    <2> SUFFICES ASSUME OwnerInv, [Next]_vars,
                        NEW q \in Runs, records[q].status \in Final
                 PROVE  records'[q].status = records[q].status
      OBVIOUS
    <2> USE DEF Final
    <2>0. /\ records \in [Runs -> [status : Status, exit_code : {0, 1, NoCode}]]
          /\ HeldRecords
      BY DEF OwnerInv, OwnerTypeOK
    <2>1. CASE UNCHANGED records
      BY <2>1
    <2>2. CASE reconcile_once
      BY <2>0, <2>2 DEF reconcile_once, Gone
    <2>3. CASE \E r \in Runs : Refuse(r) \/ StoreRunning(r) \/ SyncStartedFails(r)
      BY <2>0, <2>3 DEF HeldRecords, NoRecord, Refuse, StoreRunning, SyncStartedFails
    <2>4. CASE \E r \in Runs : RecordExit(r) \/ RecordCancel(r)
      BY <2>0, <2>4 DEF HeldRecords, RecordExit, Exited, RecordCancel
    <2> QED
      BY <2>1, <2>2, <2>3, <2>4
      DEF Next, vars, Start, Wait, Cancel, StartRequest, StartReconcile, Spawn, AdmitFails,
          StoreFails, SyncStarted, Reap, RecordExitFails, SyncExit, CancelRequest,
          CancelReconcile, Signal, CancelReturns, RecordCancelFails, SyncCancel,
          Exit, InitReaps, Recycle, List, Crash, Restart
  <1> QED
    BY <1>1, OwnerInvariance, PTL DEF Spec, StatusFinal

-----------------------------------------------------------------------------
(* The budget.                                                             *)

(* The runs whose cpu is taken: the record says so, or the child has been  *)
(* spawned and the record is about to be stored.                           *)
Taken == {r \in Runs : records[r].status = "running" \/ starter[r] = "spawned"}

TakenWithin == Total(Cpu, Taken) <= Budget

(* What the budget check adds up.                                          *)
LEMMA ReservedIs == reserved = Total(Cpu, {r \in Runs : records[r].status = "running"})
  BY DEF reserved, Total

(* A set of runs that loses members takes no more.                         *)
LEMMA TakenShrinks ==
    ASSUME TakenWithin, Taken' \subseteq Taken
    PROVE  TakenWithin'
  <1>1. Taken \in SUBSET Runs /\ Taken' \in SUBSET Taken
    BY DEF Taken
  <1>2. IsFiniteSet(Taken) /\ IsFiniteSet(Taken') /\ \A r \in Runs : Cpu[r] \in Nat
    BY <1>1, OwnerConstants, FS_Subset
  <1>3. Total(Cpu, Taken') <= Total(Cpu, Taken)
    BY <1>1, <1>2, TotalMonotone
  <1>4. Total(Cpu, Taken') \in Nat /\ Total(Cpu, Taken) \in Nat /\ Budget \in Nat
    BY <1>1, <1>2, TotalAdds, OwnerConstants
  <1> QED
    BY <1>3, <1>4 DEF TakenWithin

(* Only a spawn takes more, and it has just seen that the budget allows it *)
(* while no other start was between its check and its record.              *)
LEMMA NextTakenWithin == OwnerInv /\ TakenWithin /\ [Next]_vars => TakenWithin'
  <1> SUFFICES ASSUME OwnerInv, TakenWithin, [Next]_vars PROVE TakenWithin'
    OBVIOUS
  <1> USE DEF OwnerInv, OwnerTypeOK, threads, kernel, store, daemon
  <1>1. ASSUME NEW r \in Runs, Spawn(r) PROVE TakenWithin'
    <2>1. /\ records' = records /\ starter' = [starter EXCEPT ![r] = "spawned"]
          /\ \A q \in Runs : starter[q] # "spawned"
          /\ reserved + Cpu[r] <= Budget
          /\ records[r].status # "running"
      BY <1>1 DEF Spawn, with_lock, Locked, InStart, HeldRecords, NoRecord
    <2> DEFINE R == {q \in Runs : records[q].status = "running"}
    <2>2. Taken' = R \cup {r} /\ Taken' \in SUBSET Runs /\ r \in Taken' /\ Taken' \ {r} = R
      BY <2>1 DEF Taken
    <2>3. IsFiniteSet(Taken') /\ \A q \in Runs : Cpu[q] \in Nat
      BY <2>2, OwnerConstants, FS_Subset
    <2>4. \A q \in Taken' : Total(Cpu, Taken') = Total(Cpu, Taken' \ {q}) + Cpu[q]
      <3>1. \A q \in Taken' : Cpu[q] \in Nat
        BY <2>2, <2>3
      <3> HIDE DEF R
      <3> QED
        BY <2>3, <3>1, TotalAdds
    <2>5. reserved = Total(Cpu, R)
      BY ReservedIs
    <2> HIDE DEF R
    <2>6. Total(Cpu, Taken') = Total(Cpu, R) + Cpu[r]
      BY <2>2, <2>4
    <2> QED
      BY <2>1, <2>5, <2>6 DEF TakenWithin
  <1>2. ASSUME NEW r \in Runs, NEW s \in Status, records' = [records EXCEPT ![r].status = s],
               s = "running" => r \in Taken,
               \A q \in Runs : starter'[q] = "spawned" => starter[q] = "spawned"
        PROVE  TakenWithin'
    <2>1. \A q \in Runs : records'[q].status = IF q = r THEN s ELSE records[q].status
      BY <1>2
    <2> QED
      BY <1>2, <2>1, TakenShrinks DEF Taken
  <1>3. ASSUME \A q \in Runs : records'[q].status = "running" => records[q].status = "running",
               \A q \in Runs : starter'[q] = "spawned" => starter[q] = "spawned"
        PROVE  TakenWithin'
    BY <1>3, TakenShrinks DEF Taken
  <1>4. ASSUME reconcile_once
        PROVE  \A q \in Runs : records'[q].status = "running" => records[q].status = "running"
    BY <1>4 DEF reconcile_once
  <1>5. ASSUME NEW r \in Runs, Start(r) PROVE TakenWithin'
    <2>1. CASE StartReconcile(r)
      BY <2>1, <1>3, <1>4 DEF StartReconcile
    <2>2. CASE Refuse(r)
      BY <2>2, <1>2 DEF Refuse, Status
    <2>3. CASE StoreRunning(r)
      BY <2>3, <1>2 DEF StoreRunning, Status, Taken
    <2>4. CASE SyncStartedFails(r)
      BY <2>4, <1>3 DEF SyncStartedFails, NoRecord
    <2>5. CASE AdmitFails(r) \/ StoreFails(r) \/ SyncStarted(r)
      BY <2>5, <1>3 DEF AdmitFails, StoreFails, SyncStarted
    <2> QED
      BY <1>1, <1>5, <2>1, <2>2, <2>3, <2>4, <2>5 DEF Start
  <1>6. ASSUME NEW r \in Runs, Wait(r) PROVE TakenWithin'
    <2>1. CASE RecordExit(r)
      BY <2>1, <1>3 DEF RecordExit, Exited
    <2>2. CASE Reap(r) \/ RecordExitFails(r) \/ SyncExit(r)
      BY <2>2, <1>3 DEF Reap, RecordExitFails, SyncExit
    <2> QED
      BY <1>6, <2>1, <2>2 DEF Wait
  <1>7. ASSUME NEW r \in Runs, Cancel(r) PROVE TakenWithin'
    <2>1. CASE CancelReconcile(r)
      BY <2>1, <1>3, <1>4 DEF CancelReconcile
    <2>2. CASE RecordCancel(r)
      BY <2>2, <1>2 DEF RecordCancel, Status
    <2>3. CASE Signal(r) \/ CancelReturns(r) \/ RecordCancelFails(r) \/ SyncCancel(r)
      BY <2>3, <1>3 DEF Signal, CancelReturns, RecordCancelFails, SyncCancel
    <2> QED
      BY <1>7, <2>1, <2>2, <2>3 DEF Cancel
  <1>8. ASSUME NEW r \in Runs, \/ StartRequest(r) \/ CancelRequest(r)
                               \/ Exit(r) \/ InitReaps(r) \/ Recycle(r)
        PROVE  TakenWithin'
    BY <1>8, <1>3 DEF StartRequest, CancelRequest, Exit, InitReaps, Recycle
  <1>9. CASE List \/ Restart
    BY <1>9, <1>3, <1>4 DEF List, Restart
  <1>10. CASE Crash
    BY <1>10, <1>3 DEF Crash
  <1>11. CASE UNCHANGED vars
    BY <1>11, <1>3 DEF vars
  <1> QED
    BY <1>5, <1>6, <1>7, <1>8, <1>9, <1>10, <1>11 DEF Next

(* The running records never reserve more than the budget, for any number  *)
(* of concurrent starts, cancels, exits and daemon crashes: between the    *)
(* budget check and the record that makes it count, admission.lock keeps   *)
(* every other start out.                                                  *)
THEOREM AdmissionBudgetHolds == Spec => []AdmissionBudget
  <1>1. Init => TakenWithin
    <2> SUFFICES ASSUME Init PROVE TakenWithin
      OBVIOUS
    <2>1. Taken = {}
      BY DEF Init, Taken, NoRecord
    <2> QED
      BY <2>1, TotalEmpty, OwnerConstants DEF TakenWithin
  <1>2. TakenWithin => AdmissionBudget
    <2> SUFFICES ASSUME TakenWithin PROVE AdmissionBudget
      OBVIOUS
    <2> DEFINE R == {r \in Runs : records[r].status = "running"}
    <2>1. Taken \in SUBSET Runs /\ R \in SUBSET Taken
      BY DEF Taken
    <2>2. IsFiniteSet(Taken) /\ IsFiniteSet(R) /\ \A r \in Runs : Cpu[r] \in Nat
      BY <2>1, OwnerConstants, FS_Subset
    <2>3. Total(Cpu, R) <= Total(Cpu, Taken)
      BY <2>1, <2>2, TotalMonotone
    <2>4. Total(Cpu, R) \in Nat /\ Total(Cpu, Taken) \in Nat /\ Budget \in Nat
      BY <2>1, <2>2, TotalAdds, OwnerConstants
    <2> HIDE DEF R
    <2>5. reserved = Total(Cpu, R)
      BY SMTT(60), ReservedIs DEF R
    <2> QED
      BY <2>3, <2>4, <2>5 DEF TakenWithin, AdmissionBudget
  <1> QED
    BY <1>1, <1>2, InitOwnerInv, NextOwnerInv, NextTakenWithin, PTL DEF Spec

-----------------------------------------------------------------------------
(* The durable journal follows the records.                                *)

(* A step of one run keeps the journal behind its record.                  *)
LEMMA RunStepJournal ==
    ASSUME MaxCrashes = 0, Faults = {}, OwnerInv, JournalFollows, NEW r \in Runs,
           \/ StartRequest(r) \/ CancelRequest(r) \/ Start(r) \/ Wait(r) \/ Cancel(r)
           \/ Exit(r) \/ InitReaps(r) \/ Recycle(r)
    PROVE  JournalFollows'
  <1> USE DEF OwnerInv, OwnerTypeOK, OneHolder, InStart, InWait, InCancel, HeldRecords,
              JournalFollows, NoRecord, NoCode, threads, kernel, store, daemon
  <1>1. CASE StartRequest(r)
    BY <1>1 DEF StartRequest
  <1>2. CASE StartReconcile(r)
    BY <1>2 DEF StartReconcile, reconcile_once, Gone, with_lock, Locked
  <1>3. CASE Refuse(r)
    BY <1>3 DEF Refuse, with_lock, Locked
  <1>4. CASE Spawn(r)
    BY <1>4 DEF Spawn, with_lock, Locked
  <1>5. CASE StoreRunning(r)
    BY <1>5 DEF StoreRunning
  <1>6. CASE SyncStarted(r)
    BY <1>6 DEF SyncStarted
  <1>7. CASE Reap(r)
    BY <1>7 DEF Reap
  <1>8. CASE RecordExit(r)
    BY <1>8 DEF RecordExit, Exited, with_lock, Locked
  <1>9. CASE SyncExit(r)
    BY <1>9 DEF SyncExit, sync_terminal, Ended
  <1>10. CASE CancelRequest(r)
    BY <1>10 DEF CancelRequest
  <1>11. CASE CancelReconcile(r)
    BY <1>11 DEF CancelReconcile, reconcile_once, Gone, with_lock, Locked
  <1>12. CASE Signal(r)
    BY <1>12 DEF Signal, with_lock, Locked
  <1>13. CASE CancelReturns(r)
    BY <1>13 DEF CancelReturns, with_lock, Locked
  <1>14. CASE RecordCancel(r)
    BY <1>14 DEF RecordCancel
  <1>15. CASE SyncCancel(r)
    BY <1>15 DEF SyncCancel, sync_terminal, Ended
  <1>16. CASE Exit(r)
    BY <1>16 DEF Exit
  <1>17. CASE InitReaps(r)
    BY <1>17 DEF InitReaps
  <1>18. CASE Recycle(r)
    BY <1>18 DEF Recycle
  <1> QED
    BY <1>1, <1>2, <1>3, <1>4, <1>5, <1>6, <1>7, <1>8, <1>9, <1>10, <1>11, <1>12, <1>13, <1>14, <1>15, <1>16, <1>17, <1>18
    DEF Start, Wait, Cancel, AdmitFails, StoreFails, SyncStartedFails, RecordExitFails,
        RecordCancelFails

(* The journal follows the records in every behaviour without crashes or   *)
(* failed writes.                                                          *)
LEMMA JournalInvariance ==
    ASSUME MaxCrashes = 0, Faults = {}
    PROVE  Spec => []JournalFollows
  <1>1. Init => JournalFollows
    BY DEF Init, JournalFollows, NoRecord
  <1>2. OwnerInv /\ JournalFollows /\ [Next]_vars => JournalFollows'
    <2> SUFFICES ASSUME OwnerInv, JournalFollows, [Next]_vars PROVE JournalFollows'
      OBVIOUS
    <2>1. CASE UNCHANGED vars
      BY <2>1 DEF vars, JournalFollows, threads, kernel, store, daemon
    <2>2. CASE List
      BY <2>2 DEF List, reconcile_once, Gone, with_lock, Locked, OwnerInv, OwnerTypeOK,
                  InStart, InWait, InCancel, JournalFollows, threads, kernel, store, daemon
    <2>3. ~ Crash
      BY DEF Crash, OwnerInv, OwnerTypeOK
    <2>4. ~ Restart
      BY DEF Restart, JournalFollows
    <2> QED
      BY <2>1, <2>2, <2>3, <2>4, RunStepJournal DEF Next
  <1> QED
    BY <1>1, <1>2, OwnerInvariance, PTL DEF Spec

(* While the daemon lives and its writes succeed, the durable journal      *)
(* agrees with the run records whenever the lock is free, for every number *)
(* of runs and every order of exits, cancels and reconciliations.          *)
THEOREM JournalMatchesRecordHolds ==
    ASSUME MaxCrashes = 0, Faults = {}
    PROVE  Spec => []JournalMatchesRecord
  <1>1. OwnerInv /\ JournalFollows => JournalMatchesRecord
    BY DEF OwnerInv, OwnerTypeOK, JournalFollows, JournalMatchesRecord, Locked, InStart,
           InWait, InCancel
  <1> QED
    BY <1>1, OwnerInvariance, JournalInvariance, PTL

-----------------------------------------------------------------------------
(* Sequences                                                               *)

(* No element occurs twice.                                                *)
Distinct(q) == \A i, j \in 1..Len(q) : q[i] = q[j] => i = j

(* The elements of a tail are the elements but the first.                  *)
LEMMA TailElements ==
    ASSUME NEW S, NEW q \in Seq(S), q # <<>>
    PROVE  /\ Head(q) = q[1] /\ Head(q) \in S /\ Tail(q) \in Seq(S)
           /\ Len(q) \in Nat \ {0} /\ Len(Tail(q)) = Len(q) - 1
           /\ \A i \in 1..(Len(q) - 1) : Tail(q)[i] = q[i + 1]
  BY HeadTailProperties, EmptySeq

(* What is in a sequence is at one of its places.                          *)
LEMMA RangeElements ==
    ASSUME NEW S, NEW q \in Seq(S)
    PROVE  /\ Range(q) = {q[i] : i \in 1..Len(q)}
           /\ Len(q) \in Nat
  BY LenProperties DEF Range

(* What is in a sequence has the sequence's element type.                  *)
LEMMA RangeTyped ==
    ASSUME NEW S, NEW q \in Seq(S) PROVE Range(q) \subseteq S
  <1>1. \A i \in 1..Len(q) : q[i] \in S
    OBVIOUS
  <1> QED
    BY <1>1, RangeElements

(* The rest of a sequence without repetitions.                             *)
LEMMA DistinctTail ==
    ASSUME NEW S, NEW q \in Seq(S), q # <<>>, Distinct(q)
    PROVE  /\ Distinct(Tail(q)) /\ Head(q) \notin Range(Tail(q))
           /\ Range(q) = {Head(q)} \cup Range(Tail(q))
  <1>1. /\ Head(q) = q[1] /\ Tail(q) \in Seq(S) /\ Len(q) \in Nat \ {0}
        /\ Len(Tail(q)) = Len(q) - 1 /\ \A i \in 1..(Len(q) - 1) : Tail(q)[i] = q[i + 1]
    BY TailElements
  <1>2. Distinct(Tail(q))
    BY <1>1 DEF Distinct
  <1>3. /\ Range(q) = {q[i] : i \in 1..Len(q)}
        /\ Range(Tail(q)) = {Tail(q)[i] : i \in 1..(Len(q) - 1)}
    BY ZenonT(60), <1>1, RangeElements
  <1>4. Head(q) \notin Range(Tail(q))
    BY <1>1, <1>3 DEF Distinct
  <1>5. ASSUME NEW x \in Range(q) PROVE x = Head(q) \/ x \in Range(Tail(q))
    <2>1. PICK i \in 1..Len(q) : x = q[i]
      BY <1>3
    <2>2. CASE i = 1
      BY <1>1, <2>1, <2>2
    <2>3. CASE i # 1
      <3>1. i - 1 \in 1..(Len(q) - 1) /\ x = Tail(q)[i - 1]
        BY <1>1, <2>1, <2>3
      <3> QED
        BY <1>3, <3>1
    <2> QED
      BY <2>2, <2>3
  <1>6. Head(q) \in Range(q) /\ Range(Tail(q)) \subseteq Range(q)
    BY <1>1, <1>3
  <1> QED
    BY <1>2, <1>4, <1>5, <1>6

(* Appending a new element keeps a sequence without repetition.            *)
LEMMA DistinctAppend ==
    ASSUME NEW S, NEW q \in Seq(S), NEW x \in S, Distinct(q), x \notin Range(q)
    PROVE  /\ Append(q, x) \in Seq(S) /\ Distinct(Append(q, x))
           /\ Range(Append(q, x)) = Range(q) \cup {x}
  <1>1. /\ Len(q) \in Nat /\ Append(q, x) \in Seq(S) /\ Len(Append(q, x)) = Len(q) + 1
        /\ \A i \in 1..Len(q) : Append(q, x)[i] = q[i]
        /\ Append(q, x)[Len(q) + 1] = x
    OBVIOUS
  <1>2. /\ Range(q) = {q[i] : i \in 1..Len(q)}
        /\ Range(Append(q, x)) = {Append(q, x)[i] : i \in 1..(Len(q) + 1)}
    BY <1>1, RangeElements
  <1>3. Distinct(Append(q, x))
    BY <1>1, <1>2 DEF Distinct
  <1>4. Range(Append(q, x)) = Range(q) \cup {x}
    BY <1>1, <1>2
  <1> QED
    BY <1>1, <1>3, <1>4

(* Dropping the element at one place.                                      *)
LEMMA DistinctRemoveAt ==
    ASSUME NEW S, NEW q \in Seq(S), Distinct(q), NEW k \in 1..Len(q)
    PROVE  /\ RemoveAt(q, k) \in Seq(S) /\ Distinct(RemoveAt(q, k))
           /\ Range(RemoveAt(q, k)) \subseteq Range(q)
  <1> DEFINE a == SubSeq(q, 1, k - 1)
             b == SubSeq(q, k + 1, Len(q))
  <1>1. Len(q) \in Nat /\ \A i \in 1..Len(q) : q[i] \in S
    OBVIOUS
  <1>2. /\ a \in Seq(S) /\ Len(a) = k - 1
        /\ \A i \in 1..(k - 1) : a[i] = q[i]
    <2>1. k - 1 \in Int /\ \A i \in 1..(k - 1) : q[i] \in S
      BY <1>1
    <2> QED
      BY <2>1, SubSeqProperties
  <1>3. /\ b \in Seq(S) /\ Len(b) = Len(q) - k
        /\ \A i \in 1..(Len(q) - k) : b[i] = q[k + i]
    <2>1. k + 1 \in Int /\ Len(q) \in Int /\ \A i \in (k + 1)..Len(q) : q[i] \in S
      BY <1>1
    <2>2. /\ b \in Seq(S)
          /\ Len(b) = IF k + 1 <= Len(q) THEN Len(q) - (k + 1) + 1 ELSE 0
          /\ \A i \in 1..(Len(q) - (k + 1) + 1) : b[i] = q[(k + 1) + i - 1]
      BY <2>1, SubSeqProperties
    <2> QED
      BY <1>1, <2>2
  <1> HIDE DEF a, b
  <1>4. /\ a \o b \in Seq(S) /\ Len(a \o b) = Len(q) - 1
        /\ \A i \in 1..(Len(q) - 1) : (a \o b)[i] = IF i < k THEN q[i] ELSE q[i + 1]
    <2>1. /\ a \o b \in Seq(S) /\ Len(a \o b) = Len(a) + Len(b)
          /\ \A i \in 1..(Len(a) + Len(b)) : (a \o b)[i] =
                IF i <= Len(a) THEN a[i] ELSE b[i - Len(a)]
      BY <1>2, <1>3, ConcatProperties
    <2>2. ASSUME NEW i \in 1..(Len(q) - 1) PROVE (a \o b)[i] = IF i < k THEN q[i] ELSE q[i + 1]
      <3>1. CASE i < k
        BY <1>1, <1>2, <1>3, <2>1, <3>1
      <3>2. CASE ~ (i < k)
        <4>1. i - (k - 1) \in 1..(Len(q) - k) /\ k + (i - (k - 1)) = i + 1
          BY <1>1, <3>2
        <4>2. b[i - (k - 1)] = q[i + 1]
          BY <1>3, <4>1
        <4> QED
          BY SMTT(60), <1>1, <1>2, <1>3, <2>1, <3>2, <4>2
      <3> QED
        BY <3>1, <3>2
    <2> QED
      BY <1>1, <1>2, <1>3, <2>1, <2>2
  <1>5. RemoveAt(q, k) = a \o b
    BY DEF RemoveAt, a, b
  <1>6. Distinct(a \o b)
    <2> DEFINE old(i) == IF i < k THEN i ELSE i + 1
    <2>1. ASSUME NEW i \in 1..(Len(q) - 1), NEW j \in 1..(Len(q) - 1), (a \o b)[i] = (a \o b)[j]
          PROVE  i = j
      <3>1. old(i) \in 1..Len(q) /\ old(j) \in 1..Len(q)
        BY <1>1
      <3>2. q[old(i)] = q[old(j)]
        BY <1>4, <2>1
      <3>3. old(i) = old(j)
        BY <3>1, <3>2 DEF Distinct
      <3> QED
        BY <1>1, <3>3
    <2> QED
      BY <1>4, <2>1 DEF Distinct
  <1>7. /\ Range(q) = {q[i] : i \in 1..Len(q)}
        /\ Range(a \o b) = {(a \o b)[i] : i \in 1..(Len(q) - 1)}
    BY <1>4, RangeElements
  <1>8. Range(a \o b) \subseteq Range(q)
    <2>1. ASSUME NEW i \in 1..(Len(q) - 1) PROVE (a \o b)[i] \in Range(q)
      <3>1. i \in 1..Len(q) /\ i + 1 \in 1..Len(q)
        BY <1>1
      <3>2. (a \o b)[i] = q[i] \/ (a \o b)[i] = q[i + 1]
        BY <1>4
      <3> QED
        BY <1>7, <3>1, <3>2
    <2> QED
      BY <1>7, <2>1
  <1> QED
    BY <1>4, <1>5, <1>6, <1>8

(* Removing an element keeps a sequence without repetition.                *)
LEMMA DistinctRemove ==
    ASSUME NEW S, NEW q \in Seq(S), Distinct(q), NEW x
    PROVE  /\ RemoveFirst(q, x) \in Seq(S) /\ Distinct(RemoveFirst(q, x))
           /\ Range(RemoveFirst(q, x)) \subseteq Range(q)
  <1>1. CASE \E i \in 1..Len(q) : q[i] = x
    <2>1. PICK k \in 1..Len(q) : q[k] = x
      BY <1>1
    <2> DEFINE I == {i \in 1..Len(q) : q[i] = x}
    <2>2. I = {k}
      BY <2>1 DEF Distinct
    <2>3. Len(q) \in Nat /\ k \in Int
      OBVIOUS
    <2>4. Min(I) = k
      BY <2>2, <2>3 DEF Min
    <2>5. RemoveFirst(q, x) = RemoveAt(q, k)
      BY <1>1, <2>2, <2>4 DEF RemoveFirst, SelectInSeq
    <2> QED
      BY <2>5, DistinctRemoveAt
  <1>2. CASE ~ \E i \in 1..Len(q) : q[i] = x
    BY <1>2 DEF RemoveFirst
  <1> QED
    BY <1>1, <1>2

-----------------------------------------------------------------------------
(* The broker                                                              *)

Follower == [pc : {"follow", "eof", "gone"}, stream : LogStreams, file : BOOLEAN,
             pending : Seq(Nat), next : Int, got : Seq(Nat)]

LogTypeOK ==
    /\ streams \subseteq LogStreams
    /\ tail \in [LogStreams -> Seq(Nat)]
    /\ log_subs \in [LogStreams -> Seq(Subscribers)]
    /\ channel \in [Subscribers -> Seq(Nat)]
    /\ sub \in [Subscribers -> {NoSub} \cup Follower]
    /\ appended \in [LogStreams -> Nat]
    /\ written \in [LogStreams -> Nat]

(* The last chunks of the first n.                                         *)
LastOf(t, n) == Len(t) <= n /\ \A i \in 1..Len(t) : t[i] = n - Len(t) + i

(* The tail of a stream holds the last chunks that were appended.          *)
TailCurrent == \A s \in LogStreams : LastOf(tail[s], appended[s])

(* A subscriber has one sender, in the list of the stream it follows.      *)
OneSender ==
    \A s \in LogStreams :
        /\ Distinct(log_subs[s])
        /\ \A c \in Range(log_subs[s]) : sub[c].pc # "idle" /\ sub[c].stream = s

(* The append that holds the lock sends the last chunk of its stream, or   *)
(* the close that does has emptied the list.                               *)
SendingCurrent ==
    sending # <<>> =>
        /\ sending \in LogStreams \X Seq(Subscribers) \X Nat
        /\ Distinct(sending[2])
        /\ \A c \in Range(sending[2]) : sub[c].pc # "idle" /\ sub[c].stream = sending[1]
        /\ sending[3] = 0 => log_subs[sending[1]] = <<>>
        /\ sending[3] # 0 => sending[3] = appended[sending[1]]

(* The number of the next chunk that is not on its way to c.               *)
Expected(c) == sub[c].next + Len(sub[c].got) + Len(sub[c].pending) + Len(channel[c])

ToGo(c) == sending # <<>> /\ c \in Range(sending[2])

(* What is on its way to c continues what c got, up to the chunk that the  *)
(* fan-out brings it or, without one, to the last chunk of the stream.     *)
InFlight(c) ==
  /\ sub[c].pc = "idle" => channel[c] = <<>>
  /\ sub[c].pc = "follow" /\ ~ sub[c].file =>
        /\ \A i \in 1..Len(sub[c].pending) :
              sub[c].pending[i] = sub[c].next + Len(sub[c].got) + i - 1
        /\ \A i \in 1..Len(channel[c]) :
              channel[c][i] \in {0, sub[c].next + Len(sub[c].got) + Len(sub[c].pending) + i - 1}
        /\ ToGo(c) /\ sending[3] # 0 => Expected(c) = sending[3]
        /\ ~ ToGo(c) /\ c \in Range(log_subs[sub[c].stream]) =>
              Expected(c) = appended[sub[c].stream] + 1

LogInv ==
    /\ LogTypeOK /\ TailCurrent /\ OneSender /\ SendingCurrent
    /\ \A c \in Subscribers : InFlight(c)
    /\ FollowIsContiguous

(* A subscriber that follows is one of the followers' records.             *)
LEMMA FollowerOf ==
    ASSUME LogTypeOK, NEW c \in Subscribers, sub[c].pc # "idle"
    PROVE  sub[c] \in Follower
  BY DEF LogTypeOK, NoSub

(* What the fields of a follower's record are.                             *)
LEMMA NotIdle ==
    ASSUME NEW r \in Follower
    PROVE  /\ r.pc # "idle" /\ r.stream \in LogStreams /\ r.file \in BOOLEAN
           /\ r.pending \in Seq(Nat) /\ r.next \in Int /\ r.got \in Seq(Nat)
  BY DEF Follower

(* A stream that an open evicts has no subscriber, and is not the one that *)
(* is opened.                                                              *)
LEMMA EvictionHarmless ==
    ASSUME LogTypeOK, TailCurrent, NEW s \in LogStreams, NEW gone \in Victims(s)
    PROVE  /\ s \notin gone
           /\ Fresh(s, gone, log_subs) = log_subs
           /\ Fresh(s, gone, tail) \in [LogStreams -> Seq(Nat)]
           /\ Fresh(s, gone, tail)[s] = tail[s]
           /\ \A x \in LogStreams : Fresh(s, gone, tail)[x] \in {tail[x], <<>>}
  <1>1. s \notin gone /\ \A v \in gone : log_subs[v] = <<>>
    BY DEF Victims
  <1>2. Fresh(s, gone, log_subs) = log_subs
    BY <1>1 DEF Fresh, LogTypeOK
  <1> QED
    BY <1>1, <1>2 DEF Fresh, LogTypeOK

(* The tail that a follower starts with holds each chunk once.             *)
LEMMA TailFresh ==
    ASSUME LogTypeOK, TailCurrent, NEW s \in LogStreams, NEW gone \in Victims(s),
           NEW x \in LogStreams
    PROVE  LastOf(Fresh(s, gone, tail)[x], appended[x])
  <1>1. Fresh(s, gone, tail)[x] \in {tail[x], <<>>}
    BY EvictionHarmless
  <1>2. appended[x] \in Nat
    BY DEF LogTypeOK
  <1>3. CASE Fresh(s, gone, tail)[x] = tail[x]
    BY <1>3 DEF TailCurrent
  <1>4. CASE Fresh(s, gone, tail)[x] = <<>>
    BY <1>2, <1>4 DEF LastOf
  <1> QED
    BY <1>1, <1>3, <1>4

(* push_tail of the next chunk.                                            *)
LEMMA PushTail ==
    ASSUME NEW t \in Seq(Nat), NEW n \in Nat, LastOf(t, n)
    PROVE  push_tail(t, n + 1) \in Seq(Nat) /\ LastOf(push_tail(t, n + 1), n + 1)
  <1>1. MaxTail \in Nat \ {0} /\ Len(t) \in Nat
    BY LogAssumption
  <1>2. CASE Len(t) < MaxTail
    BY <1>1, <1>2 DEF push_tail, LastOf
  <1>3. CASE ~ (Len(t) < MaxTail)
    <2>1. t # <<>>
      BY <1>1, <1>3
    <2>2. /\ Tail(t) \in Seq(Nat) /\ Len(Tail(t)) = Len(t) - 1
          /\ \A i \in 1..(Len(t) - 1) : Tail(t)[i] = t[i + 1]
      BY <2>1, TailElements
    <2> DEFINE u == Append(Tail(t), n + 1)
    <2>3. /\ u \in Seq(Nat) /\ Len(u) = Len(t)
          /\ \A i \in 1..(Len(t) - 1) : u[i] = t[i + 1]
          /\ u[Len(t)] = n + 1
      BY <1>1, <2>2
    <2>4. push_tail(t, n + 1) = u
      BY <1>3 DEF push_tail
    <2> HIDE DEF u
    <2>5. ASSUME NEW i \in 1..Len(t) PROVE u[i] = n + 1 - Len(t) + i
      <3>1. CASE i = Len(t)
        BY <1>1, <2>3, <3>1
      <3>2. CASE i # Len(t)
        <4>1. i + 1 \in 1..Len(t) /\ i \in 1..(Len(t) - 1)
          BY <1>1, <3>2
        <4>2. t[i + 1] = n - Len(t) + (i + 1)
          BY <4>1 DEF LastOf
        <4> QED
          BY <1>1, <2>3, <4>1, <4>2
      <3> QED
        BY <3>1, <3>2
    <2> QED
      <3>1. Len(t) <= n
        BY DEF LastOf
      <3>2. Len(u) <= n + 1 /\ \A i \in 1..Len(u) : u[i] = n + 1 - Len(u) + i
        BY <1>1, <2>3, <2>5, <3>1
      <3>3. LastOf(u, n + 1)
        BY <3>2 DEF LastOf
      <3> QED
        BY <2>3, <2>4, <3>3
  <1> QED
    BY <1>2, <1>3

(* Opening a stream, which may push the oldest one without a subscriber    *)
(* out.                                                                    *)
LEMMA OpenInv ==
    ASSUME LogInv, NEW s \in LogStreams, NEW path, log_open(s, path)
    PROVE  LogInv'
  <1>1. PICK gone \in SUBSET streams :
           /\ gone \in Victims(s) /\ streams' = (streams \ gone) \cup {s}
           /\ tail' = Fresh(s, gone, tail) /\ log_subs' = Fresh(s, gone, log_subs)
    BY DEF log_open, Opened
  <1>2. UNCHANGED <<log_subs, channel, sub, reading, appended, written, sending>>
    BY <1>1, EvictionHarmless DEF log_open, LogInv
  <1>3. LogTypeOK' /\ TailCurrent'
    BY SMTT(60), <1>1, <1>2, EvictionHarmless, TailFresh DEF LogInv, LogTypeOK, TailCurrent
  <1> QED
    BY <1>2, <1>3
    DEF LogInv, OneSender, SendingCurrent, InFlight, Expected, ToGo, FollowIsContiguous

(* Appending a chunk to a stream's log.                                    *)
LEMMA AppendInv ==
    ASSUME LogInv, NEW s \in LogStreams, log_append(s)
    PROVE  LogInv'
  <1>1. PICK gone \in SUBSET streams :
           /\ gone \in Victims(s) /\ streams' = (streams \ gone) \cup {s}
           /\ tail' = [Fresh(s, gone, tail) EXCEPT ![s] = push_tail(@, appended[s] + 1)]
           /\ log_subs' = Fresh(s, gone, log_subs)
    BY DEF log_append, Opened
  <1>2. /\ UNCHANGED <<log_subs, channel, sub, reading, written>>
        /\ sending = <<>>
        /\ appended' = [appended EXCEPT ![s] = @ + 1]
        /\ sending' = <<s, log_subs[s], appended[s] + 1>>
    BY <1>1, EvictionHarmless DEF log_append, LogInv, LockFree
  <1>3. LogTypeOK' /\ TailCurrent'
    <2> DEFINE old == Fresh(s, gone, tail)
               new == push_tail(old[s], appended[s] + 1)
    <2>1. old \in [LogStreams -> Seq(Nat)] /\ appended[s] \in Nat
      BY <1>1, EvictionHarmless DEF LogInv, LogTypeOK
    <2>2. \A x \in LogStreams : LastOf(old[x], appended[x])
      BY <1>1, TailFresh DEF LogInv
    <2>3. tail' = [old EXCEPT ![s] = new]
      BY <1>1
    <2> HIDE DEF old
    <2>4. new \in Seq(Nat) /\ LastOf(new, appended[s] + 1)
      BY <2>1, <2>2, PushTail
    <2> HIDE DEF new
    <2> QED
      <3>1. tail' \in [LogStreams -> Seq(Nat)] /\ appended' \in [LogStreams -> Nat]
        BY <1>2, <2>1, <2>3, <2>4 DEF LogInv, LogTypeOK
      <3>2. LogTypeOK'
        BY <1>1, <1>2, <3>1 DEF LogInv, LogTypeOK
      <3>3. ASSUME NEW x \in LogStreams PROVE LastOf(tail'[x], appended'[x])
        <4>1. CASE x = s
          <5>1. tail'[x] = new /\ appended'[x] = appended[s] + 1
            BY <1>2, <2>1, <2>3, <4>1 DEF LogInv, LogTypeOK
          <5> QED
            BY <2>4, <5>1
        <4>2. CASE x # s
          <5>1. tail'[x] = old[x] /\ appended'[x] = appended[x]
            BY <1>2, <2>1, <2>3, <4>2 DEF LogInv, LogTypeOK
          <5> QED
            BY <2>2, <5>1
        <4> QED
          BY <4>1, <4>2
      <3>4. TailCurrent'
        BY <3>3 DEF TailCurrent, LastOf
      <3> QED
        BY <3>2, <3>4
  <1>4. OneSender'
    BY <1>2 DEF LogInv, OneSender
  <1>5. /\ sending' # <<>> /\ sending'[1] = s /\ sending'[2] = log_subs[s]
        /\ sending'[3] = appended[s] + 1 /\ appended[s] + 1 \in Nat \ {0}
    BY <1>2 DEF LogInv, LogTypeOK
  <1>6. SendingCurrent'
    BY <1>2, <1>5 DEF LogInv, LogTypeOK, OneSender, SendingCurrent
  <1>7. ASSUME NEW c \in Subscribers PROVE InFlight(c)'
    <2>1. ~ ToGo(c) /\ (ToGo(c)' <=> c \in Range(log_subs[s]))
      BY <1>2, <1>5 DEF ToGo
    <2>2. CASE sub[c].pc = "idle"
      BY <1>2, <2>2 DEF LogInv, InFlight
    <2>3. CASE sub[c].pc # "idle"
      <3>1. sub[c].stream \in LogStreams
        BY <2>3, FollowerOf, NotIdle DEF LogInv
      <3>2. Expected(c)' = Expected(c)
        BY <1>2 DEF Expected
      <3>3. c \in Range(log_subs[s]) => sub[c].stream = s
        BY DEF LogInv, OneSender
      <3>4. sub[c].stream # s => appended'[sub[c].stream] = appended[sub[c].stream]
        BY <1>2, <3>1 DEF LogInv, LogTypeOK
      <3> QED
        BY <1>2, <1>5, <2>1, <2>3, <3>1, <3>2, <3>3, <3>4 DEF LogInv, InFlight
    <2> QED
      BY <2>2, <2>3
  <1>8. FollowIsContiguous'
    BY <1>2 DEF LogInv, FollowIsContiguous
  <1> QED
    BY <1>3, <1>4, <1>6, <1>7, <1>8 DEF LogInv

(* Closing a stream.                                                       *)
LEMMA CloseInv ==
    ASSUME LogInv, NEW s \in LogStreams, log_close(s)
    PROVE  LogInv'
  <1>1. /\ UNCHANGED <<channel, sub, reading, appended, written>>
        /\ sending = <<>>
        /\ streams' = streams \ {s}
        /\ tail' = [tail EXCEPT ![s] = <<>>]
        /\ log_subs' = [log_subs EXCEPT ![s] = <<>>]
        /\ sending' = <<s, log_subs[s], 0>>
    BY DEF log_close, LockFree
  <1>2. LogTypeOK' /\ TailCurrent'
    BY <1>1 DEF LogInv, LogTypeOK, TailCurrent, LastOf
  <1>3. Range(<<>>) = {} /\ Distinct(<<>>)
    BY DEF Range, Distinct
  <1>4. OneSender'
    BY <1>1, <1>3 DEF LogInv, LogTypeOK, OneSender
  <1>5. sending' # <<>> /\ sending'[1] = s /\ sending'[2] = log_subs[s] /\ sending'[3] = 0
    BY <1>1
  <1>6. SendingCurrent'
    BY <1>1, <1>5 DEF LogInv, LogTypeOK, OneSender, SendingCurrent
  <1>7. ASSUME NEW c \in Subscribers PROVE InFlight(c)'
    <2>1. ~ ToGo(c) /\ Expected(c)' = Expected(c)
      BY <1>1 DEF ToGo, Expected
    <2>2. CASE sub[c].pc = "idle"
      BY <1>1, <2>2 DEF LogInv, InFlight
    <2>3. CASE sub[c].pc # "idle"
      <3>1. sub[c].stream \in LogStreams
        BY <2>3, FollowerOf, NotIdle DEF LogInv
      <3>2. c \in Range(log_subs'[sub[c].stream]) => c \in Range(log_subs[sub[c].stream])
        BY <1>1, <1>3, <3>1 DEF LogInv, LogTypeOK
      <3> QED
        BY <1>1, <1>5, <2>1, <2>3, <3>2 DEF LogInv, InFlight
    <2> QED
      BY <2>2, <2>3
  <1>8. FollowIsContiguous'
    BY <1>1 DEF LogInv, FollowIsContiguous
  <1> QED
    BY <1>2, <1>4, <1>6, <1>7, <1>8 DEF LogInv

(* A follower subscribes: it takes the retained tail and a place in the    *)
(* channel.                                                                *)
LEMMA SubscribeInv ==
    ASSUME LogInv, NEW c \in Subscribers, NEW s \in LogStreams, NEW path,
           handle_log_subscribe(c, s, path)
    PROVE  LogInv'
  <1> DEFINE file == s \in log_path'
             fresh == [pc |-> "follow", stream |-> s, file |-> file /\ written[s] > 0,
                       pending |-> IF file THEN <<>> ELSE tail[s],
                       next |-> IF file THEN appended[s] + 1 ELSE appended[s] + 1 - Len(tail[s]),
                       got |-> <<>>]
  <1>1. PICK gone \in SUBSET streams :
           /\ gone \in Victims(s) /\ streams' = (streams \ gone) \cup {s}
           /\ tail' = Fresh(s, gone, tail)
           /\ log_subs' = [Fresh(s, gone, log_subs) EXCEPT ![s] = Append(@, c)]
           /\ sub' = [sub EXCEPT ![c] =
                 [pc |-> "follow", stream |-> s, file |-> file /\ written[s] > 0,
                  pending |-> IF file THEN <<>> ELSE TailFor(s),
                  next |-> IF file THEN appended[s] + 1
                           ELSE appended[s] + 1 - Len(Fresh(s, gone, tail)[s]),
                  got |-> <<>>]]
    BY DEF handle_log_subscribe, Opened
  <1>2. /\ UNCHANGED <<channel, reading, appended, written, sending>>
        /\ sending = <<>> /\ sub[c].pc = "idle"
        /\ log_subs' = [log_subs EXCEPT ![s] = Append(@, c)]
        /\ sub' = [sub EXCEPT ![c] = fresh]
    <2>1. Fresh(s, gone, log_subs) = log_subs /\ Fresh(s, gone, tail)[s] = tail[s]
      BY <1>1, EvictionHarmless DEF LogInv
    <2>2. sub' = [sub EXCEPT ![c] = fresh]
      BY <1>1, <2>1 DEF TailFor
    <2> QED
      BY <1>1, <2>1, <2>2 DEF handle_log_subscribe, LockFree
  <1>3. /\ fresh \in Follower /\ fresh.pc = "follow" /\ fresh.stream = s /\ fresh.got = <<>>
        /\ fresh.pending = IF file THEN <<>> ELSE tail[s]
        /\ fresh.next = IF file THEN appended[s] + 1 ELSE appended[s] + 1 - Len(tail[s])
    BY DEF LogInv, LogTypeOK, Follower
  <1> HIDE DEF fresh
  <1>4. /\ c \notin Range(log_subs[s])
        /\ log_subs[s] \in Seq(Subscribers) /\ Distinct(log_subs[s])
    BY <1>2 DEF LogInv, LogTypeOK, OneSender
  <1>5. /\ Append(log_subs[s], c) \in Seq(Subscribers) /\ Distinct(Append(log_subs[s], c))
        /\ Range(Append(log_subs[s], c)) = Range(log_subs[s]) \cup {c}
    BY <1>4, DistinctAppend
  <1>6. LogTypeOK'
    <2>1. tail' \in [LogStreams -> Seq(Nat)]
      BY <1>1, EvictionHarmless DEF LogInv
    <2>2. log_subs' \in [LogStreams -> Seq(Subscribers)]
      BY <1>2, <1>5 DEF LogInv, LogTypeOK
    <2>3. sub' \in [Subscribers -> {NoSub} \cup Follower]
      BY <1>2, <1>3 DEF LogInv, LogTypeOK
    <2> QED
      BY <1>1, <1>2, <2>1, <2>2, <2>3 DEF LogInv, LogTypeOK
  <1>7. TailCurrent'
    BY <1>1, <1>2, TailFresh DEF LogInv, TailCurrent
  <1>8. OneSender'
    <2>1. \A x \in LogStreams : \A d \in Range(log_subs[x]) : d # c
      BY <1>2 DEF LogInv, OneSender
    <2>2. ASSUME NEW x \in LogStreams
          PROVE  /\ Distinct(log_subs'[x])
                 /\ \A d \in Range(log_subs'[x]) : sub'[d].pc # "idle" /\ sub'[d].stream = x
      <3>1. \A d \in Range(log_subs[x]) : d \in Subscribers
        <4>1. log_subs[x] \in Seq(Subscribers)
          BY DEF LogInv, LogTypeOK
        <4> QED
          BY <4>1, RangeTyped
      <3>2. \A d \in Range(log_subs[x]) : sub'[d] = sub[d]
        BY <1>2, <2>1, <3>1 DEF LogInv, LogTypeOK
      <3>3. sub'[c] = fresh
        BY <1>2 DEF LogInv, LogTypeOK
      <3>4. CASE x = s
        <4>1. log_subs'[x] = Append(log_subs[s], c)
          BY <1>2, <3>4 DEF LogInv, LogTypeOK
        <4> QED
          BY <1>3, <1>5, <3>2, <3>3, <3>4, <4>1 DEF LogInv, OneSender
      <3>5. CASE x # s
        <4>1. log_subs'[x] = log_subs[x]
          BY <1>2, <3>5 DEF LogInv, LogTypeOK
        <4> QED
          BY <3>2, <4>1 DEF LogInv, OneSender
      <3> QED
        BY <3>4, <3>5
    <2> QED
      BY <2>2 DEF OneSender, Distinct
  <1>9. SendingCurrent'
    BY <1>2 DEF SendingCurrent
  <1>10. ASSUME NEW d \in Subscribers PROVE InFlight(d)'
    <2>1. ~ ToGo(d) /\ ~ ToGo(d)'
      BY <1>2 DEF ToGo
    <2>2. CASE d = c
      <3>1. sub'[d] = fresh /\ channel'[d] = <<>>
        BY <1>2, <2>2 DEF LogInv, LogTypeOK, InFlight
      <3>2. appended[s] \in Nat /\ appended' = appended /\ tail[s] \in Seq(Nat)
            /\ LastOf(tail[s], appended[s])
        BY <1>2 DEF LogInv, LogTypeOK, TailCurrent
      <3>3. CASE file
        <4>1. Expected(d)' = appended[s] + 1
          BY <1>3, <3>1, <3>2, <3>3 DEF Expected
        <4> QED
          BY <1>3, <2>1, <3>1, <3>2, <3>3, <4>1 DEF InFlight
      <3>4. CASE ~ file
        <4>1. Expected(d)' = appended[s] + 1
          BY <1>3, <3>1, <3>2, <3>4 DEF Expected
        <4>2. \A i \in 1..Len(tail[s]) : tail[s][i] = fresh.next + Len(fresh.got) + i - 1
          BY <1>3, <3>2, <3>4 DEF LastOf
        <4> QED
          BY <1>3, <2>1, <3>1, <3>2, <3>4, <4>1, <4>2 DEF InFlight
      <3> QED
        BY <3>3, <3>4
    <2>3. CASE d # c
      <3>1. sub'[d] = sub[d] /\ channel'[d] = channel[d]
        BY <1>2, <2>3 DEF LogInv, LogTypeOK
      <3>2. CASE sub[d].pc = "idle"
        BY <3>1, <3>2 DEF LogInv, InFlight
      <3>3. CASE sub[d].pc # "idle"
        <4>1. sub[d].stream \in LogStreams
          BY <3>3, FollowerOf, NotIdle DEF LogInv
        <4>2. d \in Range(log_subs'[sub[d].stream]) => d \in Range(log_subs[sub[d].stream])
          BY <1>2, <1>5, <2>3, <4>1 DEF LogInv, LogTypeOK
        <4>3. Expected(d)' = Expected(d)
          BY <3>1 DEF Expected
        <4> QED
          BY <1>2, <2>1, <3>1, <3>3, <4>2, <4>3 DEF LogInv, InFlight
      <3> QED
        BY <3>2, <3>3
    <2> QED
      BY <2>2, <2>3
  <1>11. FollowIsContiguous'
    <2>1. ASSUME NEW d \in Subscribers, sub'[d].pc # "idle", ~ sub'[d].file,
                 NEW i \in 1..Len(sub'[d].got)
          PROVE  sub'[d].got[i] = sub'[d].next + i - 1
      <3>1. CASE d = c
        <4>1. sub'[d] = fresh
          BY <1>2, <3>1 DEF LogInv, LogTypeOK
        <4>2. Len(sub'[d].got) = 0
          BY <1>3, <4>1, EmptySeq
        <4> QED
          BY <2>1, <4>2
      <3>2. CASE d # c
        <4>1. sub'[d] = sub[d]
          BY <1>2, <3>2 DEF LogInv, LogTypeOK
        <4> QED
          BY <2>1, <4>1 DEF LogInv, FollowIsContiguous
      <3> QED
        BY <3>1, <3>2
    <2> QED
      BY <2>1 DEF FollowIsContiguous
  <1> QED
    BY <1>6, <1>7, <1>8, <1>9, <1>10, <1>11 DEF LogInv

(* A step of the thread of c that leaves the other subscribers alone.      *)
LEMMA ThreadFrame ==
    ASSUME LogInv, NEW c \in Subscribers, NEW r \in Follower, NEW q \in Seq(Nat),
           sub[c].pc = "follow", r.stream = sub[c].stream,
           r.file = sub[c].file, r.next = sub[c].next,
           sub' = [sub EXCEPT ![c] = r], channel' = [channel EXCEPT ![c] = q],
           UNCHANGED <<streams, log_path, tail, log_subs, appended, written, sending>>,
           InFlight(c)',
           ~ r.file => \A i \in 1..Len(r.got) : r.got[i] = r.next + i - 1
    PROVE  LogInv'
  <1>1. sub[c] \in Follower /\ sub'[c] = r /\ channel'[c] = q /\ r.pc # "idle"
    BY FollowerOf, NotIdle DEF LogInv, LogTypeOK
  <1>2. \A d \in Subscribers \ {c} : sub'[d] = sub[d] /\ channel'[d] = channel[d]
    BY DEF LogInv, LogTypeOK
  <1>3. LogTypeOK' /\ TailCurrent'
    BY DEF LogInv, LogTypeOK, TailCurrent
  <1>4. \A d \in Subscribers : sub[d].pc # "idle" =>
            sub'[d].pc # "idle" /\ sub'[d].stream = sub[d].stream
    BY <1>1, <1>2
  <1>5. OneSender'
    <2>1. \A s \in LogStreams : Range(log_subs[s]) \subseteq Subscribers
      <3>1. \A s \in LogStreams : log_subs[s] \in Seq(Subscribers)
        BY DEF LogInv, LogTypeOK
      <3> QED
        BY <3>1, RangeTyped
    <2> QED
      BY <1>4, <2>1 DEF LogInv, OneSender
  <1>6. SendingCurrent'
    <2>1. CASE sending = <<>>
      BY <2>1 DEF SendingCurrent
    <2>2. CASE sending # <<>>
      <3>1. sending[2] \in Seq(Subscribers)
        BY <2>2 DEF LogInv, SendingCurrent
      <3>2. Range(sending[2]) \subseteq Subscribers
        BY <3>1, RangeTyped
      <3> QED
        BY <1>4, <2>2, <3>2 DEF LogInv, SendingCurrent
    <2> QED
      BY <2>1, <2>2
  <1>7. ASSUME NEW d \in Subscribers \ {c} PROVE InFlight(d)'
    <2>1. sub'[d] = sub[d] /\ channel'[d] = channel[d]
      BY <1>2
    <2>2. Expected(d)' = Expected(d) /\ ToGo(d)' = ToGo(d)
      BY <2>1 DEF Expected, ToGo
    <2>3. InFlight(d)
      BY DEF LogInv
    <2> QED
      BY <2>1, <2>2, <2>3 DEF InFlight
  <1>8. FollowIsContiguous'
    <2>1. ASSUME NEW d \in Subscribers, sub'[d].pc # "idle", ~ sub'[d].file,
                 NEW i \in 1..Len(sub'[d].got)
          PROVE  sub'[d].got[i] = sub'[d].next + i - 1
      BY <1>1, <1>2, <2>1 DEF LogInv, FollowIsContiguous
    <2> QED
      BY <2>1 DEF FollowIsContiguous
  <1> QED
    BY <1>3, <1>5, <1>6, <1>7, <1>8 DEF LogInv

(* The thread ends.                                                        *)
LEMMA EndInv ==
    ASSUME LogInv, NEW c \in Subscribers, NEW pc \in {"eof", "gone"}, Follows(c),
           sub' = [sub EXCEPT ![c].pc = pc], EndThread(c)
    PROVE  LogInv'
  <1> DEFINE r == [sub[c] EXCEPT !.pc = pc]
  <1>1. sub[c] \in Follower /\ sub[c].pc = "follow"
    BY FollowerOf DEF LogInv, Follows
  <1>2. /\ r \in Follower /\ r.pc = pc /\ r.stream = sub[c].stream /\ r.file = sub[c].file
        /\ r.next = sub[c].next /\ r.got = sub[c].got
    BY <1>1 DEF Follower
  <1>3. sub' = [sub EXCEPT ![c] = r] /\ channel' = [channel EXCEPT ![c] = <<>>]
    BY DEF EndThread
  <1>4. sub'[c] = r
    BY <1>3 DEF LogInv, LogTypeOK
  <1> HIDE DEF r
  <1>5. InFlight(c)'
    BY <1>2, <1>4 DEF InFlight
  <1>6. ~ r.file => \A i \in 1..Len(r.got) : r.got[i] = r.next + i - 1
    BY <1>1, <1>2 DEF LogInv, FollowIsContiguous
  <1>7. <<>> \in Seq(Nat)
    OBVIOUS
  <1> QED
    BY <1>1, <1>2, <1>3, <1>5, <1>6, <1>7, ThreadFrame DEF EndThread

(* A follower that gets the next chunk stays contiguous.                   *)
LEMMA GotOneMore ==
    ASSUME NEW got \in Seq(Nat), NEW next \in Int, NEW n \in Nat,
           \A i \in 1..Len(got) : got[i] = next + i - 1, n = next + Len(got)
    PROVE  /\ Append(got, n) \in Seq(Nat) /\ Len(Append(got, n)) = Len(got) + 1
           /\ \A i \in 1..Len(Append(got, n)) : Append(got, n)[i] = next + i - 1
  OBVIOUS

(* One chunk goes to a client that reads: of the tail, of the channel or   *)
(* of the file.                                                            *)
LEMMA WriteInv ==
    ASSUME LogInv, NEW c \in Subscribers, write_chunk_event(c)
    PROVE  LogInv'
  <1>1. sub[c] \in Follower /\ sub[c].pc = "follow" /\ channel[c] \in Seq(Nat)
    BY FollowerOf DEF LogInv, LogTypeOK, write_chunk_event, Follows
  <1>2. /\ sub[c].stream \in LogStreams /\ sub[c].file \in BOOLEAN
        /\ sub[c].pending \in Seq(Nat) /\ sub[c].next \in Int /\ sub[c].got \in Seq(Nat)
    BY <1>1, NotIdle
  <1>lens. /\ Len(sub[c].got) \in Nat /\ Len(sub[c].pending) \in Nat
           /\ Len(channel[c]) \in Nat /\ sub[c].next \in Int
    BY <1>1, <1>2
  <1>nums. PICK x \in Int, g \in Nat, p \in Nat, k \in Nat :
              /\ x = sub[c].next /\ g = Len(sub[c].got) /\ p = Len(sub[c].pending)
              /\ k = Len(channel[c])
    BY <1>lens
  <1>3. /\ InFlight(c)
        /\ ~ sub[c].file => \A i \in 1..Len(sub[c].got) : sub[c].got[i] = sub[c].next + i - 1
    BY <1>1 DEF LogInv, FollowIsContiguous
  <1>4. UNCHANGED <<streams, log_path, tail, log_subs, appended, written, sending>>
    BY DEF write_chunk_event
  <1>5. (ToGo(c)' <=> ToGo(c))
    BY <1>4 DEF ToGo
  <1>6. CASE /\ sub[c].pending # <<>>
             /\ sub' = [sub EXCEPT ![c].pending = Tail(@),
                                   ![c].got = Append(@, Head(sub[c].pending))]
             /\ UNCHANGED channel
    <2> DEFINE r == [sub[c] EXCEPT !.pending = Tail(sub[c].pending),
                                   !.got = Append(sub[c].got, Head(sub[c].pending))]
    <2>1. /\ Tail(sub[c].pending) \in Seq(Nat) /\ Head(sub[c].pending) \in Nat
          /\ Head(sub[c].pending) = sub[c].pending[1]
          /\ Len(sub[c].pending) \in Nat \ {0}
          /\ Len(Tail(sub[c].pending)) = Len(sub[c].pending) - 1
          /\ \A i \in 1..(Len(sub[c].pending) - 1) : Tail(sub[c].pending)[i] = sub[c].pending[i + 1]
      BY <1>2, <1>6, TailElements
    <2>2. Append(sub[c].got, Head(sub[c].pending)) \in Seq(Nat)
      BY <1>2, <2>1
    <2>3. /\ r \in Follower /\ r.pc = "follow" /\ r.stream = sub[c].stream
          /\ r.file = sub[c].file /\ r.next = sub[c].next
          /\ r.pending = Tail(sub[c].pending)
          /\ r.got = Append(sub[c].got, Head(sub[c].pending))
      BY <1>1, <2>1, <2>2 DEF Follower
    <2>4. /\ sub' = [sub EXCEPT ![c] = r] /\ channel' = [channel EXCEPT ![c] = channel[c]]
          /\ sub'[c] = r /\ channel'[c] = channel[c]
      BY <1>6 DEF LogInv, LogTypeOK
    <2> HIDE DEF r
    <2>5. ~ sub[c].file => Head(sub[c].pending) = sub[c].next + Len(sub[c].got)
      <3>1. ~ sub[c].file => sub[c].pending[1] = sub[c].next + Len(sub[c].got) + 1 - 1
        <4>1. 1 \in 1..Len(sub[c].pending)
          BY <2>1
        <4> QED
          BY <1>1, <1>3, <4>1 DEF InFlight
      <3> QED
        BY <1>lens, <2>1, <3>1
    <2>6. ~ r.file => \A i \in 1..Len(r.got) : r.got[i] = r.next + i - 1
      <3> SUFFICES ASSUME ~ sub[c].file
                   PROVE  \A i \in 1..Len(r.got) : r.got[i] = r.next + i - 1
        BY <2>3
      <3> QED
        <4>1. /\ \A i \in 1..Len(sub[c].got) : sub[c].got[i] = sub[c].next + i - 1
              /\ Head(sub[c].pending) \in Nat
              /\ Head(sub[c].pending) = sub[c].next + Len(sub[c].got)
          BY <1>3, <2>1, <2>5
        <4>2. \A i \in 1..Len(Append(sub[c].got, Head(sub[c].pending))) :
                 Append(sub[c].got, Head(sub[c].pending))[i] = sub[c].next + i - 1
          BY <1>2, <4>1, GotOneMore
        <4> QED
          BY <2>3, <4>2
    <2>7. r.next = x /\ Len(r.got) = g + 1 /\ Len(r.pending) = p - 1
      BY <1>2, <1>nums, <2>1, <2>3
    <2>sum. r.next + Len(r.got) + Len(r.pending) = x + g + p
      BY <2>7
    <2>8. Expected(c)' = Expected(c)
      BY <1>nums, <2>4, <2>sum DEF Expected
    <2>9. InFlight(c)'
      <3> SUFFICES ASSUME ~ sub[c].file PROVE InFlight(c)'
        BY <2>3, <2>4 DEF InFlight
      <3>1. \A i \in 1..Len(r.pending) : r.pending[i] = r.next + Len(r.got) + i - 1
        <4>1. ASSUME NEW i \in 1..Len(r.pending)
              PROVE  r.pending[i] = r.next + Len(r.got) + i - 1
          <5>1. i \in 1..(p - 1) /\ i + 1 \in 1..p
            BY <2>7
          <5>2. sub[c].pending[i + 1] = x + g + (i + 1) - 1
            BY <1>1, <1>3, <1>nums, <5>1 DEF InFlight
          <5>3. r.pending[i] = sub[c].pending[i + 1]
            BY <1>nums, <2>1, <2>3, <5>1
          <5>4. r.pending[i] = x + g + (i + 1) - 1
            BY <5>2, <5>3
          <5> QED
            BY <2>7, <5>1, <5>4
        <4> QED
          BY <4>1
      <3>3. \A i \in 1..Len(channel[c]) :
               channel[c][i] \in {0, r.next + Len(r.got) + Len(r.pending) + i - 1}
        BY <1>1, <1>3, <1>nums, <2>sum DEF InFlight
      <3> QED
        BY ZenonT(60), <1>1, <1>3, <1>4, <1>5, <2>3, <2>4, <2>8, <3>1, <3>3 DEF InFlight
    <2> QED
      BY <1>1, <1>4, <2>3, <2>4, <2>6, <2>9, ThreadFrame
  <1>7. CASE /\ sub[c].pending = <<>> /\ ~ sub[c].file
             /\ channel[c] # <<>> /\ Head(channel[c]) > 0
             /\ sub' = [sub EXCEPT ![c].got = Append(@, Head(channel[c]))]
             /\ channel' = [channel EXCEPT ![c] = Tail(@)]
    <2> DEFINE r == [sub[c] EXCEPT !.got = Append(sub[c].got, Head(channel[c]))]
               q == Tail(channel[c])
    <2>1. /\ q \in Seq(Nat) /\ Head(channel[c]) \in Nat /\ Head(channel[c]) = channel[c][1]
          /\ Len(channel[c]) \in Nat \ {0} /\ Len(q) = Len(channel[c]) - 1
          /\ \A i \in 1..(Len(channel[c]) - 1) : q[i] = channel[c][i + 1]
      BY <1>1, <1>7, TailElements
    <2>2. Append(sub[c].got, Head(channel[c])) \in Seq(Nat)
      BY <1>2, <2>1
    <2>3. /\ r \in Follower /\ r.pc = "follow" /\ r.stream = sub[c].stream
          /\ r.file = sub[c].file /\ r.next = sub[c].next /\ r.pending = <<>>
          /\ r.got = Append(sub[c].got, Head(channel[c]))
      BY <1>1, <1>7, <2>2 DEF Follower
    <2>4. /\ sub' = [sub EXCEPT ![c] = r] /\ channel' = [channel EXCEPT ![c] = q]
          /\ sub'[c] = r /\ channel'[c] = q
      BY <1>7 DEF LogInv, LogTypeOK
    <2> HIDE DEF r, q
    <2>5. Len(sub[c].pending) = 0 /\ Len(r.pending) = 0
      BY <1>7, <2>3
    <2>6. Head(channel[c]) = sub[c].next + Len(sub[c].got)
      <3>1. channel[c][1] \in {0, sub[c].next + Len(sub[c].got) + Len(sub[c].pending) + 1 - 1}
        <4>1. 1 \in 1..Len(channel[c])
          BY <2>1
        <4> QED
          BY <1>1, <1>3, <1>7, <4>1 DEF InFlight
      <3> QED
        <4>1. Head(channel[c]) \in {0, x + g + p + 1 - 1} /\ p = 0
          BY <1>nums, <2>1, <2>5, <3>1
        <4>2. Head(channel[c]) = x + g
          BY <1>7, <4>1
        <4> QED
          BY <1>nums, <4>2
    <2>7. \A i \in 1..Len(r.got) : r.got[i] = r.next + i - 1
      <3>1. /\ \A i \in 1..Len(sub[c].got) : sub[c].got[i] = sub[c].next + i - 1
            /\ Head(channel[c]) \in Nat
        BY <1>3, <1>7, <2>1
      <3>2. \A i \in 1..Len(Append(sub[c].got, Head(channel[c]))) :
               Append(sub[c].got, Head(channel[c]))[i] = sub[c].next + i - 1
        BY <1>2, <2>6, <3>1, GotOneMore
      <3> QED
        BY <2>3, <3>2
    <2>8. r.next = x /\ Len(r.got) = g + 1 /\ Len(r.pending) = 0 /\ p = 0 /\ Len(q) = k - 1
      BY <1>2, <1>nums, <2>1, <2>3, <2>5
    <2>sum. r.next + Len(r.got) + Len(r.pending) + Len(q) = x + g + p + k
      BY <2>8
    <2>9. Expected(c)' = Expected(c)
      BY <1>nums, <2>4, <2>sum DEF Expected
    <2>10. InFlight(c)'
      <3>1. ASSUME NEW i \in 1..Len(q)
            PROVE  q[i] \in {0, r.next + Len(r.got) + Len(r.pending) + i - 1}
        <4>1. i \in 1..(k - 1) /\ i + 1 \in 1..k
          BY <2>8
        <4>2. channel[c][i + 1] \in {0, x + g + p + (i + 1) - 1}
          BY <1>1, <1>3, <1>7, <1>nums, <4>1 DEF InFlight
        <4>3. r.next + Len(r.got) + Len(r.pending) + i - 1 = x + g + p + (i + 1) - 1
          BY <2>8, <4>1
        <4>4. q[i] = channel[c][i + 1]
          BY <1>nums, <2>1, <4>1
        <4> QED
          BY <4>2, <4>3, <4>4
      <3>2. \A i \in 1..Len(<<>>) : <<>>[i] = r.next + Len(r.got) + i - 1
        OBVIOUS
      <3>3. /\ ToGo(c) /\ sending[3] # 0 => Expected(c) = sending[3]
            /\ ~ ToGo(c) /\ c \in Range(log_subs[sub[c].stream]) =>
                  Expected(c) = appended[sub[c].stream] + 1
        BY <1>1, <1>3, <1>7 DEF InFlight
      <3> QED
        BY <1>4, <1>5, <2>3, <2>4, <2>9, <3>1, <3>2, <3>3 DEF InFlight
    <2> QED
      BY <1>1, <1>4, <2>1, <2>3, <2>4, <2>7, <2>10, ThreadFrame
  <1>8. CASE /\ sub[c].file /\ Len(sub[c].got) < written[sub[c].stream]
             /\ sub' = [sub EXCEPT ![c].got = Append(@, Len(@) + 1)]
             /\ UNCHANGED channel
    <2> DEFINE r == [sub[c] EXCEPT !.got = Append(sub[c].got, Len(sub[c].got) + 1)]
    <2>1. Append(sub[c].got, Len(sub[c].got) + 1) \in Seq(Nat)
      BY <1>2
    <2>2. /\ r \in Follower /\ r.pc = "follow" /\ r.stream = sub[c].stream
          /\ r.file = sub[c].file /\ r.next = sub[c].next
      BY <1>1, <2>1 DEF Follower
    <2>3. /\ sub' = [sub EXCEPT ![c] = r] /\ channel' = [channel EXCEPT ![c] = channel[c]]
          /\ sub'[c] = r
      BY <1>8 DEF LogInv, LogTypeOK
    <2> HIDE DEF r
    <2>4. InFlight(c)'
      BY <1>8, <2>2, <2>3 DEF InFlight
    <2> QED
      BY <1>1, <1>4, <1>8, <2>2, <2>3, <2>4, ThreadFrame
  <1> QED
    BY <1>6, <1>7, <1>8 DEF write_chunk_event

(* A file follower throws an event away.                                   *)
LEMMA DiscardInv ==
    ASSUME LogInv, NEW c \in Subscribers, DiscardEvent(c)
    PROVE  LogInv'
  <1>1. sub[c] \in Follower /\ sub[c].pc = "follow" /\ channel[c] \in Seq(Nat)
    BY FollowerOf DEF LogInv, LogTypeOK, DiscardEvent, Follows
  <1>2. /\ sub' = [sub EXCEPT ![c] = sub[c]] /\ channel' = [channel EXCEPT ![c] = Tail(channel[c])]
        /\ sub[c].file /\ sub'[c] = sub[c]
        /\ UNCHANGED <<streams, log_path, tail, log_subs, appended, written, sending>>
    BY DEF DiscardEvent, LogInv, LogTypeOK
  <1>3. Tail(channel[c]) \in Seq(Nat)
    BY <1>1, TailElements DEF DiscardEvent
  <1>4. InFlight(c)'
    BY <1>1, <1>2 DEF InFlight
  <1> QED
    BY <1>1, <1>2, <1>3, <1>4, ThreadFrame

(* The chunk goes to the next sender, or drops it when its receiver is     *)
(* gone.                                                                   *)
LEMMA FanoutInv ==
    ASSUME LogInv, fanout
    PROVE  LogInv'
  <1>pick. PICK s, c, rest : s = sending[1] /\ c = Head(sending[2]) /\ rest = Tail(sending[2])
    OBVIOUS
  <1>1. /\ sending # <<>> /\ sending[2] # <<>>
        /\ s \in LogStreams /\ sending[2] \in Seq(Subscribers) /\ sending[3] \in Nat
        /\ Distinct(sending[2])
        /\ \A d \in Range(sending[2]) : sub[d].pc # "idle" /\ sub[d].stream = s
        /\ sending[3] = 0 => log_subs[s] = <<>>
        /\ sending[3] # 0 => sending[3] = appended[s]
    BY <1>pick DEF fanout, LockFree, LogInv, SendingCurrent
  <1>2. /\ rest \in Seq(Subscribers) /\ c \in Subscribers
        /\ Distinct(rest) /\ c \notin Range(rest) /\ Range(sending[2]) = {c} \cup Range(rest)
    BY <1>1, <1>pick, TailElements, DistinctTail
  <1>3. /\ sending' = <<s, rest, sending[3]>>
        /\ UNCHANGED <<streams, log_path, tail, sub, reading, appended, written>>
        /\ \/ /\ Follows(c)
              /\ channel' = [channel EXCEPT ![c] = Append(@, sending[3])]
              /\ UNCHANGED log_subs
           \/ /\ ~ Follows(c)
              /\ log_subs' = [log_subs EXCEPT ![s] = RemoveFirst(@, c)]
              /\ UNCHANGED channel
    BY <1>pick DEF fanout
  <1>4. sending' # <<>> /\ sending'[1] = s /\ sending'[2] = rest /\ sending'[3] = sending[3]
    BY <1>3
  <1>5. sub[c].pc # "idle" /\ sub[c].stream = s
    BY <1>1, <1>2
  <1>6. /\ log_subs' \in [LogStreams -> Seq(Subscribers)]
        /\ \A x \in LogStreams : Distinct(log_subs'[x]) /\ Range(log_subs'[x]) \subseteq Range(log_subs[x])
    <2> DEFINE left == RemoveFirst(log_subs[s], c)
    <2>1. log_subs[s] \in Seq(Subscribers) /\ \A x \in LogStreams : Distinct(log_subs[x])
      BY <1>1 DEF LogInv, LogTypeOK, OneSender
    <2>2. /\ left \in Seq(Subscribers) /\ Distinct(left)
          /\ Range(left) \subseteq Range(log_subs[s])
      BY <1>1, <2>1, DistinctRemove
    <2>3. log_subs' = log_subs \/ log_subs' = [log_subs EXCEPT ![s] = left]
      BY <1>3
    <2> HIDE DEF left
    <2> QED
      BY <2>1, <2>2, <2>3 DEF LogInv, LogTypeOK
  <1>7. /\ channel' \in [Subscribers -> Seq(Nat)]
        /\ \A d \in Subscribers \ {c} : channel'[d] = channel[d]
    <2>1. channel[c] \in Seq(Nat)
      BY <1>2 DEF LogInv, LogTypeOK
    <2>2. Append(channel[c], sending[3]) \in Seq(Nat)
      BY <1>1, <2>1
    <2> QED
      BY <1>3, <2>2 DEF LogInv, LogTypeOK
  <1>8. LogTypeOK' /\ TailCurrent'
    BY <1>3, <1>6, <1>7 DEF LogInv, LogTypeOK, TailCurrent
  <1>9. OneSender'
    BY <1>3, <1>6 DEF LogInv, OneSender
  <1>10. SendingCurrent'
    <2>1. sending' \in LogStreams \X Seq(Subscribers) \X Nat
      BY <1>1, <1>2, <1>3
    <2>2. log_subs[s] = <<>> => log_subs'[s] = <<>>
      BY <1>1, <1>3 DEF LogInv, LogTypeOK, RemoveFirst
    <2> QED
      BY <1>1, <1>2, <1>3, <1>4, <2>1, <2>2 DEF SendingCurrent
  <1>11. ASSUME NEW d \in Subscribers \ {c} PROVE InFlight(d)'
    <2>1. /\ sub'[d] = sub[d] /\ channel'[d] = channel[d] /\ (ToGo(d)' <=> ToGo(d))
          /\ Expected(d)' = Expected(d)
      BY <1>1, <1>2, <1>3, <1>4, <1>7 DEF ToGo, Expected
    <2>2. CASE sub[d].pc = "idle"
      BY <2>1, <2>2 DEF LogInv, InFlight
    <2>3. CASE sub[d].pc # "idle"
      <3>1. sub[d].stream \in LogStreams
        BY <2>3, FollowerOf, NotIdle DEF LogInv
      <3>2. d \in Range(log_subs'[sub[d].stream]) => d \in Range(log_subs[sub[d].stream])
        BY <1>6, <3>1
      <3> QED
        BY <1>3, <1>4, <2>1, <2>3, <3>2 DEF LogInv, InFlight
    <2> QED
      BY <2>2, <2>3
  <1>12. InFlight(c)'
    <2>1. CASE ~ Follows(c)
      BY <1>3, <1>5, <2>1 DEF InFlight, Follows
    <2>2. CASE Follows(c) /\ sub[c].file
      BY <1>3, <1>5, <2>2 DEF InFlight
    <2>3. CASE Follows(c) /\ ~ sub[c].file
      <3>1. sub[c] \in Follower /\ sub[c].pc = "follow" /\ channel[c] \in Seq(Nat)
        BY <1>2, <2>3, FollowerOf DEF LogInv, LogTypeOK, Follows
      <3>2. PICK x \in Int, g \in Nat, p \in Nat, k \in Nat :
               /\ x = sub[c].next /\ g = Len(sub[c].got) /\ p = Len(sub[c].pending)
               /\ k = Len(channel[c])
        <4>1. /\ sub[c].pending \in Seq(Nat) /\ sub[c].next \in Int /\ sub[c].got \in Seq(Nat)
          BY <3>1, NotIdle
        <4>2. Len(sub[c].pending) \in Nat /\ Len(sub[c].got) \in Nat /\ Len(channel[c]) \in Nat
          BY <3>1, <4>1
        <4> QED
          BY <4>1, <4>2
      <3>3. ToGo(c) /\ ~ ToGo(c)'
        BY <1>1, <1>2, <1>4 DEF ToGo
      <3>4. /\ \A i \in 1..p : sub[c].pending[i] = x + g + i - 1
            /\ \A i \in 1..k : channel[c][i] \in {0, x + g + p + i - 1}
            /\ sending[3] # 0 => x + g + p + k = sending[3]
        BY <1>2, <2>3, <3>1, <3>2, <3>3 DEF LogInv, InFlight, Expected
      <3>5. sub'[c] = sub[c] /\ channel'[c] = Append(channel[c], sending[3]) /\ log_subs' = log_subs
        BY <1>2, <1>3, <2>3 DEF LogInv, LogTypeOK
      <3>6. /\ Len(channel'[c]) = k + 1
            /\ \A i \in 1..k : channel'[c][i] = channel[c][i]
            /\ channel'[c][k + 1] = sending[3]
        BY <1>1, <3>1, <3>2, <3>5
      <3>7. ASSUME NEW i \in 1..(k + 1) PROVE channel'[c][i] \in {0, x + g + p + i - 1}
        <4>1. CASE i = k + 1
          <5>1. x + g + p + (k + 1) - 1 = x + g + p + k
            OBVIOUS
          <5> QED
            BY <3>4, <3>6, <4>1, <5>1
        <4>2. CASE i # k + 1
          <5>1. i \in 1..k
            BY <4>2
          <5> QED
            BY <3>4, <3>6, <5>1
        <4> QED
          BY <4>1, <4>2
      <3>8. c \in Range(log_subs[s]) => Expected(c)' = appended[s] + 1
        <4> SUFFICES ASSUME c \in Range(log_subs[s]) PROVE Expected(c)' = appended[s] + 1
          OBVIOUS
        <4>1. sending[3] # 0
          BY <1>1 DEF Range
        <4>2. Expected(c)' = x + g + p + (k + 1)
          BY <3>2, <3>5, <3>6 DEF Expected
        <4> QED
          BY <1>1, <3>4, <4>1, <4>2
      <3> QED
        BY <1>3, <1>5, <3>1, <3>2, <3>3, <3>4, <3>5, <3>6, <3>7, <3>8 DEF InFlight
    <2> QED
      BY <2>1, <2>2, <2>3
  <1>13. FollowIsContiguous'
    BY <1>3 DEF LogInv, FollowIsContiguous
  <1> QED
    BY <1>8, <1>9, <1>10, <1>11, <1>12, <1>13 DEF LogInv

(* Every step of the broker keeps the invariant.                           *)
LEMMA LogStep == LogInv /\ [LogNext]_log_vars => LogInv'
  <1> SUFFICES ASSUME LogInv, [LogNext]_log_vars PROVE LogInv'
    OBVIOUS
  <1>2. CASE \E s \in LogStreams :
                \/ log_append(s) \/ log_close(s)
                \/ \E path \in {FALSE, (s \in FileStreams)} :
                      \/ log_open(s, path)
                      \/ \E c \in Subscribers : handle_log_subscribe(c, s, path)
    BY <1>2, AppendInv, CloseInv, OpenInv, SubscribeInv
  <1>3. ASSUME NEW s \in LogStreams, ProcessWrites(s) PROVE LogInv'
    <2>1. /\ written' \in [LogStreams -> Nat]
          /\ UNCHANGED <<streams, log_path, tail, log_subs, channel, sub, reading, appended, sending>>
      BY <1>3 DEF ProcessWrites, LogInv, LogTypeOK
    <2> QED
      BY ZenonT(60), <2>1 DEF LogInv, LogTypeOK, TailCurrent, OneSender, SendingCurrent, InFlight, Expected,
                  ToGo, FollowIsContiguous
  <1>4. CASE fanout_done
    <2>1. /\ sending' = <<>> /\ sending[2] = <<>>
          /\ UNCHANGED <<streams, log_path, tail, log_subs, channel, sub, reading, appended, written>>
      BY <1>4 DEF fanout_done
    <2>2. \A c \in Subscribers : ~ ToGo(c) /\ ~ ToGo(c)'
      BY <2>1 DEF ToGo, Range
    <2>3. ASSUME NEW c \in Subscribers PROVE InFlight(c)'
      BY <2>1, <2>2 DEF LogInv, InFlight, Expected
    <2> QED
      BY ZenonT(60), <2>1, <2>3 DEF LogInv, LogTypeOK, TailCurrent, OneSender, SendingCurrent,
                                    FollowIsContiguous
  <1>5. ASSUME NEW c \in Subscribers, LogThread(c) PROVE LogInv'
    BY <1>5, WriteInv, DiscardInv, EndInv
    DEF LogThread, LogEof, LogDisconnected, WriteTimeout
  <1>6. CASE (\E c \in Subscribers : ClientStalls(c)) \/ UNCHANGED log_vars
    <2>1. UNCHANGED <<streams, log_path, tail, log_subs, channel, sub, appended, written, sending>>
      BY <1>6 DEF ClientStalls, log_vars
    <2> QED
      BY <2>1 DEF LogInv, LogTypeOK, TailCurrent, OneSender, SendingCurrent, InFlight, Expected,
                  ToGo, FollowIsContiguous
  <1> QED
    BY <1>2, <1>3, <1>4, <1>5, <1>6, FanoutInv DEF LogNext, LogAppending

(* For every set of streams and subscribers, however long the tail and the *)
(* channels: a follower without a file gets the retained tail and then     *)
(* every chunk appended after it subscribed, each once and in order.       *)
THEOREM FollowContiguous == LogSpec => []FollowIsContiguous
  <1>1. LogInit => LogInv
    <2>1. <<>> \in Seq(Nat) /\ <<>> \in Seq(Subscribers) /\ Range(<<>>) = {} /\ Len(<<>>) = 0
      BY DEF Range
    <2> QED
      BY <2>1
      DEF LogInit, LogInv, LogTypeOK, TailCurrent, LastOf, OneSender, Distinct, SendingCurrent,
          InFlight, FollowIsContiguous, NoSub
  <1>2. LogInv => FollowIsContiguous
    BY DEF LogInv
  <1> QED
    BY <1>1, <1>2, LogStep, PTL DEF LogSpec


-----------------------------------------------------------------------------
(* The worker registry                                                     *)

(* What an attempt knows.                                                  *)
AttemptStates ==
    {NoAttempt} \cup [pc : {"selected"}, id : WorkerIds]
                \cup [pc : {"holding"}, id : WorkerIds, until : Nat, robbed : BOOLEAN]

WorkerRecords == [id : WorkerIds, capacity : Capacities]

RegistryTypeOK ==
    /\ workers \in Seq(WorkerRecords)
    /\ reservations \subseteq WorkerIds \X Nat
    /\ clock \in Nat
    /\ attempt \in [Attempts -> AttemptStates]

(* A lease in force that no late release has robbed has its reservation in *)
(* the map.                                                                *)
LeaseReserved ==
    \A a \in Attempts :
        InLease(a) /\ ~ attempt[a].robbed => <<attempt[a].id, attempt[a].until>> \in reservations

RegistryInv == RegistryTypeOK /\ LeaseReserved /\ WorkerExclusive

(* An expiry is a time.                                                    *)
LEMMA ExpiryNat == ASSUME NEW t \in Nat, NEW ttl \in TTLs PROVE Expiry(t, ttl) \in Nat
  BY WorkerAssumption DEF Expiry

(* A registration's worker is one of the workers.                          *)
LEMMA WorkerIdOK ==
    ASSUME RegistryTypeOK, NEW i \in 1..Len(workers) PROVE workers[i].id \in WorkerIds
  <1>1. workers[i] \in WorkerRecords
    BY DEF RegistryTypeOK
  <1> QED
    BY <1>1 DEF WorkerRecords

(* Taking a worker of which no reservation is active.                      *)
LEMMA TakeWorker ==
    ASSUME RegistryInv, NEW a \in Attempts, NEW ttl \in TTLs, NEW id \in WorkerIds,
           ~ reservation_active(prune_expired(reservations, clock), id, clock),
           reservations' = Held(reservations, id, ttl),
           attempt' = [attempt EXCEPT ![a] = Holding(id, Expiry(clock, ttl))],
           UNCHANGED <<workers, clock>>
    PROVE  RegistryInv'
  <1> USE DEF RegistryInv, RegistryTypeOK
  <1>1. Expiry(clock, ttl) \in Nat
    BY ExpiryNat
  <1>2. Holding(id, Expiry(clock, ttl)) \in AttemptStates
    BY <1>1 DEF AttemptStates, Holding
  <1>3. RegistryTypeOK'
    BY <1>1, <1>2 DEF Held, prune_expired
  <1>4. LeaseReserved'
    BY <1>1, <1>2 DEF LeaseReserved, InLease, Held, Holding, prune_expired
  <1>5. ASSUME NEW b \in Attempts, InLease(b), ~ attempt[b].robbed PROVE attempt[b].id # id
    <2> DEFINE r == <<attempt[b].id, attempt[b].until>>
    <2>1. r \in reservations /\ attempt[b].until > clock
      BY <1>5 DEF LeaseReserved, InLease
    <2>2. r[1] = attempt[b].id /\ r[2] = attempt[b].until
      OBVIOUS
    <2>3. r \in prune_expired(reservations, clock)
      BY <2>1, <2>2 DEF prune_expired
    <2> QED
      BY <2>1, <2>2, <2>3 DEF reservation_active
  <1>6. WorkerExclusive'
    BY <1>5 DEF WorkerExclusive, InLease, Holding
  <1> QED
    BY <1>3, <1>4, <1>6

(* Every step of the registry keeps its invariant.                         *)
LEMMA RegistryStep == RegistryInv /\ [WorkerNext]_worker_vars => RegistryInv'
  <1> SUFFICES ASSUME RegistryInv, [WorkerNext]_worker_vars PROVE RegistryInv'
    OBVIOUS
  <1> USE DEF RegistryInv, RegistryTypeOK
  <1>1. ASSUME NEW id \in WorkerIds, NEW capacity \in Capacities, register_worker(id, capacity)
        PROVE  RegistryInv'
    <2> DEFINE w == [id |-> id, capacity |-> capacity]
               replaced == [i \in 1..Len(workers) |-> IF workers[i].id = id THEN w ELSE workers[i]]
    <2>1. w \in WorkerRecords
      BY DEF WorkerRecords
    <2>2. replaced \in Seq(WorkerRecords)
      <3>1. Len(workers) \in Nat /\ workers \in [1..Len(workers) -> WorkerRecords]
        OBVIOUS
      <3> HIDE DEF w
      <3>2. replaced \in [1..Len(workers) -> WorkerRecords]
        BY <2>1, <3>1
      <3> QED
        BY <3>1, <3>2, SeqDef
    <2>3. Append(workers, w) \in Seq(WorkerRecords)
      BY <2>1
    <2>4. workers' \in Seq(WorkerRecords)
      BY <1>1, <2>2, <2>3 DEF register_worker
    <2> QED
      BY <1>1, <2>4 DEF register_worker, LeaseReserved, WorkerExclusive, InLease
  <1>2. ASSUME NEW a \in Attempts, NEW need \in Capacities, select_worker(a, need)
        PROVE  RegistryInv'
    <2>1. PICK i \in 1..Len(workers) :
             attempt' = [attempt EXCEPT ![a] = [pc |-> "selected", id |-> workers[i].id]]
      BY <1>2 DEF select_worker
    <2>2. [pc |-> "selected", id |-> workers[i].id] \in AttemptStates
      BY WorkerIdOK DEF AttemptStates
    <2> QED
      BY <1>2, <2>1, <2>2 DEF select_worker, LeaseReserved, WorkerExclusive, InLease
  <1>3. ASSUME NEW a \in Attempts, NEW ttl \in TTLs, reserve_worker(a, ttl)
        PROVE  RegistryInv'
    <2>1. attempt[a].pc = "selected" /\ attempt[a].id \in WorkerIds
      BY <1>3 DEF reserve_worker, AttemptStates, NoAttempt
    <2>2. CASE MayReserve(attempt[a].id)
      BY <1>3, <2>1, <2>2, TakeWorker DEF reserve_worker, MayReserve
    <2>3. CASE ~ MayReserve(attempt[a].id)
      BY SMTT(60), <1>3, <2>3
      DEF reserve_worker, AttemptStates, LeaseReserved, WorkerExclusive, InLease, prune_expired,
          NoAttempt
    <2> QED
      BY <2>2, <2>3
  <1>4. ASSUME NEW a \in Attempts, NEW need \in Capacities, NEW ttl \in TTLs,
               select_and_reserve(a, need, ttl)
        PROVE  RegistryInv'
    <2>1. PICK i \in 1..Len(workers) :
             /\ Eligible(prune_expired(reservations, clock), need, i)
             /\ reservations' = Held(reservations, workers[i].id, ttl)
             /\ attempt' = [attempt EXCEPT ![a] = Holding(workers[i].id, Expiry(clock, ttl))]
      BY <1>4 DEF select_and_reserve
    <2> QED
      BY <1>4, <2>1, WorkerIdOK, TakeWorker DEF select_and_reserve, Eligible, Free
  <1>5. ASSUME NEW a \in Attempts, release_worker(a)
        PROVE  RegistryInv'
    <2> DEFINE Same(b) == InLease(b) /\ attempt[b].id = attempt[a].id
               Robs(b) == Same(b) /\ (InLease(a) => attempt[a].robbed)
    <2>1. /\ reservations' = {r \in reservations : r[1] # attempt[a].id}
          /\ attempt' = [b \in Attempts |->
                IF b = a THEN NoAttempt
                ELSE IF Robs(b) THEN [attempt[b] EXCEPT !.robbed = TRUE]
                ELSE attempt[b]]
          /\ UNCHANGED <<workers, clock>>
      BY <1>5 DEF release_worker
    <2>2. \A b \in Attempts : InLease(b) => attempt[b] \in
             [pc : {"holding"}, id : WorkerIds, until : Nat, robbed : BOOLEAN]
      BY DEF InLease, AttemptStates, NoAttempt
    <2>3. RegistryTypeOK'
      BY <2>1, <2>2 DEF AttemptStates
    (* Another attempt is in its lease only as it was before, and keeps its *)
    (* worker; it is robbed if it was, or if this release robs it.          *)
    <2>4. ASSUME NEW b \in Attempts, InLease(b)'
          PROVE  /\ b # a /\ InLease(b)
                 /\ attempt'[b].id = attempt[b].id /\ attempt'[b].until = attempt[b].until
                 /\ attempt'[b].robbed = (attempt[b].robbed \/ Robs(b))
      <3>1. b # a
        BY <2>1, <2>4 DEF InLease, NoAttempt
      <3>2. CASE Robs(b)
        <4>1. attempt'[b] = [attempt[b] EXCEPT !.robbed = TRUE]
          BY <2>1, <3>1, <3>2
        <4> QED
          BY <2>2, <3>1, <3>2, <4>1 DEF InLease
      <3>3. CASE ~ Robs(b)
        <4>1. attempt'[b] = attempt[b] /\ clock' = clock
          BY <2>1, <3>1, <3>3
        <4>2. InLease(b)
          BY <2>4, <4>1 DEF InLease
        <4> QED
          BY <2>2, <3>1, <3>3, <4>1, <4>2
      <3>4. Robs(b) => InLease(b)
        OBVIOUS
      <3> QED
        BY <3>1, <3>2, <3>3
    <2>5. LeaseReserved'
      <3> SUFFICES ASSUME NEW b \in Attempts, InLease(b)', ~ attempt'[b].robbed
                   PROVE  <<attempt'[b].id, attempt'[b].until>> \in reservations'
        BY DEF LeaseReserved
      <3>1. b # a /\ InLease(b) /\ ~ attempt[b].robbed /\ ~ Robs(b)
        BY <2>4
      <3>2. attempt[b].id # attempt[a].id
        BY <3>1 DEF WorkerExclusive
      <3>3. <<attempt[b].id, attempt[b].until>> \in reservations
        BY <3>1 DEF LeaseReserved
      <3>4. <<attempt'[b].id, attempt'[b].until>> = <<attempt[b].id, attempt[b].until>>
        BY <2>4
      <3>5. \A x, y : <<x, y>>[1] = x
        OBVIOUS
      <3>6. <<attempt[b].id, attempt[b].until>> \in reservations'
        BY ONLY <2>1, <3>2, <3>3, <3>5
      <3> QED
        BY ONLY <3>4, <3>6
    <2>6. WorkerExclusive'
      BY <2>4 DEF WorkerExclusive
    <2> QED
      BY <2>3, <2>5, <2>6
  <1>6. ASSUME NEW a \in Attempts, LeaseOver(a)
        PROVE  RegistryInv'
    BY <1>6 DEF LeaseOver, AttemptStates, LeaseReserved, WorkerExclusive, InLease, NoAttempt
  <1>7. CASE WorkerTick
    <2>1. \A a \in Attempts : InLease(a)' => InLease(a)
      BY <1>7 DEF WorkerTick, InLease, AttemptStates, NoAttempt
    <2> QED
      BY <1>7, <2>1 DEF WorkerTick, LeaseReserved, WorkerExclusive
  <1>8. CASE UNCHANGED worker_vars
    BY <1>8 DEF worker_vars, LeaseReserved, WorkerExclusive, InLease
  <1> QED
    BY <1>1, <1>2, <1>3, <1>4, <1>5, <1>6, <1>7, <1>8 DEF WorkerNext

(* For every set of workers and attempts, every length of lease and clock: *)
(* two attempts within their leases hold the same worker only if a release *)
(* after another lease, or one by an attempt robbed itself, has robbed one *)
(* of them of it.                                                          *)
THEOREM WorkersExclusive == WorkerSpec => []WorkerExclusive
  <1>1. WorkerInit => RegistryInv
    BY DEF WorkerInit, RegistryInv, RegistryTypeOK, AttemptStates, LeaseReserved,
           WorkerExclusive, InLease, NoAttempt
  <1>2. RegistryInv => WorkerExclusive
    BY DEF RegistryInv
  <1> QED
    BY <1>1, <1>2, RegistryStep, PTL DEF WorkerSpec

-----------------------------------------------------------------------------
(* The eval worker                                                         *)

EvalResults == [session : EvalSessions, kind : EvalKinds, attr : EvalAttrs]

EvalRequests == [pc : {"prepare", "get", "eval", "put", "done"}, session : EvalSessions,
                 kind : EvalKinds, attr : EvalAttrs, answer : SUBSET EvalResults]

(* The entry that a result is kept under.                                  *)
EntryOf(j) == <<eval_cache_key(j),
                [kind |-> j.kind, flake_root |-> j.session.flake_root, json |-> j]>>

(* Every entry is one that some client put for its own result, under the   *)
(* Nix and the configuration that the worker is bound to now.              *)
EntriesBound ==
    \A e \in eval_entries : \E j \in EvalResults :
        /\ e = EntryOf(j)
        /\ j.session.nix_identity = eval_nix
        /\ j.session.config_fingerprint = eval_config

EvalInv ==
    /\ eval_client \in [EvalClients -> {EvalIdle} \cup EvalRequests]
    /\ EntriesBound
    /\ EvalAnswerMatches

(* An entry that a get may return was evaluated for what is asked.         *)
LEMMA HitMatches ==
    ASSUME EntriesBound, NEW s \in EvalRequests,
           NEW e \in get_eval(s.session, s.kind, eval_cache_key(s))
    PROVE  /\ e[2].json \in EvalResults
           /\ e[2].json.session = s.session /\ e[2].json.kind = s.kind
           /\ e[2].json.attr = s.attr
  <1>1. PICK j \in EvalResults : /\ e = EntryOf(j)
                                 /\ j.session.nix_identity = eval_nix
                                 /\ j.session.config_fingerprint = eval_config
    BY DEF EntriesBound, get_eval
  <1>2. e[1] = eval_cache_key(j) /\ e[2].json = j /\ e[2].flake_root = j.session.flake_root
    BY <1>1 DEF EntryOf
  <1>3. e[1] = eval_cache_key(s) /\ e[2].flake_root = s.session.flake_root
        /\ session_matches(s.session)
    BY DEF get_eval
  <1>4. /\ j.kind = s.kind /\ j.attr = s.attr
        /\ j.session.flake_fingerprint = s.session.flake_fingerprint
    BY <1>2, <1>3 DEF eval_cache_key
  <1>5. /\ j.session.nix_identity = s.session.nix_identity
        /\ j.session.config_fingerprint = s.session.config_fingerprint
        /\ j.session.flake_root = s.session.flake_root
    BY <1>1, <1>2, <1>3 DEF session_matches
  <1>6. j.session \in EvalSessions /\ s.session \in EvalSessions
    BY DEF EvalResults, EvalRequests
  <1>7. j.session = s.session
    BY <1>4, <1>5, <1>6 DEF EvalSessions
  <1> QED
    BY <1>2, <1>4, <1>7

(* Binding the worker to a session keeps only entries of its Nix and       *)
(* configuration.                                                          *)
LEMMA PrepareBinds ==
    ASSUME EntriesBound, NEW p \in EvalSessions, prepare(p)
    PROVE  EntriesBound'
  BY DEF EntriesBound, prepare, KeptEntries, EntryOf, eval_cache_key

(* Every step of the eval worker keeps its invariant.                      *)
LEMMA EvalStep == EvalInv /\ [EvalNext]_eval_vars => EvalInv'
  <1> SUFFICES ASSUME EvalInv, [EvalNext]_eval_vars PROVE EvalInv'
    OBVIOUS
  <1>0. CASE UNCHANGED eval_vars
    BY <1>0 DEF EvalInv, EntriesBound, EvalAnswerMatches, EntryOf, eval_cache_key, eval_vars
  <1>1. SUFFICES ASSUME NEW c \in EvalClients,
            \/ \E p \in EvalSessions, kind \in EvalKinds, attr \in EvalAttrs :
                  eval_worker_context_for(c, p, kind, attr)
            \/ try_worker_prepare(c)
            \/ try_worker_get(c)
            \/ try_worker_put_prepare(c)
            \/ try_worker_put(c)
            \/ try_once_fails(c)
            \/ EvalReturn(c)
        PROVE EvalInv'
    BY <1>0 DEF EvalNext
  <1>2. ASSUME NEW r \in {EvalIdle} \cup EvalRequests,
               eval_client' = [eval_client EXCEPT ![c] = r],
               r.pc = "done" => \A j \in r.answer :
                   j.session = r.session /\ j.kind = r.kind /\ j.attr = r.attr
        PROVE  /\ eval_client' \in [EvalClients -> {EvalIdle} \cup EvalRequests]
               /\ EvalAnswerMatches'
    BY <1>2 DEF EvalInv, EvalAnswerMatches
  <1>3. eval_client[c] # EvalIdle => eval_client[c] \in EvalRequests
    BY DEF EvalInv
  <1>4. ASSUME UNCHANGED <<eval_nix, eval_config, eval_entries>> PROVE EntriesBound'
    BY <1>4 DEF EvalInv, EntriesBound, EntryOf, eval_cache_key
  <1>5. EvalIdle.pc # "done" /\ EvalIdle.pc = "idle"
    BY DEF EvalIdle
  <1>6. ASSUME NEW p \in EvalSessions, NEW kind \in EvalKinds, NEW attr \in EvalAttrs,
               eval_worker_context_for(c, p, kind, attr)
        PROVE  EvalInv'
    <2> DEFINE r == [pc |-> "prepare", session |-> p, kind |-> kind, attr |-> attr, answer |-> {}]
    <2>1. r \in EvalRequests /\ r.pc = "prepare"
      BY DEF EvalRequests
    <2>2. eval_client' = [eval_client EXCEPT ![c] = r]
      BY <1>6 DEF eval_worker_context_for
    <2> HIDE DEF r
    <2> QED
      BY <1>2, <1>4, <1>6, <2>1, <2>2 DEF EvalInv, eval_worker_context_for
  <1>7. ASSUME NEW pc \in {"get", "put", "eval"}, eval_client[c].pc # "idle", EvalGoto(c, pc)
        PROVE  /\ eval_client' \in [EvalClients -> {EvalIdle} \cup EvalRequests]
               /\ EvalAnswerMatches'
    <2> DEFINE r == [eval_client[c] EXCEPT !.pc = pc]
    <2>1. eval_client[c] \in EvalRequests
      BY <1>3, <1>5, <1>7
    <2>2. r \in EvalRequests /\ r.pc = pc
      BY <2>1 DEF EvalRequests
    <2>3. eval_client' = [eval_client EXCEPT ![c] = r]
      BY <1>7 DEF EvalGoto
    <2> HIDE DEF r
    <2> QED
      BY <1>2, <2>2, <2>3
  <1>8. ASSUME try_worker_prepare(c) \/ try_worker_put_prepare(c)
        PROVE  EvalInv'
    <2>1. eval_client[c] \in EvalRequests
      BY <1>3, <1>5, <1>8 DEF try_worker_prepare, try_worker_put_prepare
    <2>2. EntriesBound'
      BY SMTT(60), <1>8, <2>1, PrepareBinds
      DEF EvalInv, EvalRequests, try_worker_prepare, try_worker_put_prepare
    <2> QED
      BY <1>7, <1>8, <2>2 DEF EvalInv, try_worker_prepare, try_worker_put_prepare
  <1>9. ASSUME try_worker_get(c)
        PROVE  EvalInv'
    <2> DEFINE s == eval_client[c]
               hits == get_eval(s.session, s.kind, eval_cache_key(s))
               answer == {e[2].json : e \in hits}
               r == [s EXCEPT !.pc = IF hits = {} THEN "eval" ELSE "done", !.answer = answer]
    <2>1. s \in EvalRequests
      BY <1>3, <1>5, <1>9 DEF try_worker_get
    <2>2. \A j \in answer : /\ j \in EvalResults /\ j.session = s.session
                            /\ j.kind = s.kind /\ j.attr = s.attr
      BY <2>1, HitMatches DEF EvalInv
    <2>3. eval_client' = [eval_client EXCEPT ![c] = r]
      BY <1>9 DEF try_worker_get
    <2> HIDE DEF answer
    <2>4. /\ r \in EvalRequests /\ r.answer = answer
          /\ r.session = s.session /\ r.kind = s.kind /\ r.attr = s.attr
      BY <2>1, <2>2 DEF EvalRequests
    <2> HIDE DEF r
    <2> QED
      BY <1>2, <1>4, <1>9, <2>2, <2>3, <2>4 DEF EvalInv, try_worker_get
  <1>10. ASSUME try_worker_put(c)
         PROVE  EvalInv'
    <2> DEFINE s == eval_client[c]
               j == [session |-> s.session, kind |-> s.kind, attr |-> s.attr]
    <2>1. s \in EvalRequests
      BY <1>3, <1>5, <1>10 DEF try_worker_put
    <2>2. /\ j \in EvalResults
          /\ EntryOf(j) = <<eval_cache_key(s), [kind |-> s.kind, flake_root |-> s.session.flake_root, json |-> j]>>
      BY <2>1 DEF EvalRequests, EvalResults, EntryOf, eval_cache_key
    <2>3. /\ eval_entries' \subseteq eval_entries \cup {EntryOf(j)}
          /\ session_matches(s.session)
          /\ UNCHANGED <<eval_nix, eval_config>>
      BY <1>10, <2>2 DEF try_worker_put, put_eval
    <2>4. j.session.nix_identity = eval_nix' /\ j.session.config_fingerprint = eval_config'
      BY <2>3 DEF session_matches
    <2> HIDE DEF j
    <2>5. EntriesBound'
      BY <2>2, <2>3, <2>4 DEF EvalInv, EntriesBound, EntryOf, eval_cache_key
    <2> QED
      BY <1>2, <1>5, <1>10, <2>5 DEF EvalInv, try_worker_put
  <1>11. ASSUME try_once_fails(c)
         PROVE  EvalInv'
    <2>1. EvalGoto(c, "eval") \/ eval_client' = [eval_client EXCEPT ![c] = EvalIdle]
      BY <1>11 DEF try_once_fails, EvalGoto
    <2> QED
      BY <1>2, <1>4, <1>5, <1>7, <1>11, <2>1 DEF EvalInv, try_once_fails
  <1>12. ASSUME EvalReturn(c)
         PROVE  EvalInv'
    BY <1>2, <1>4, <1>5, <1>12 DEF EvalInv, EvalReturn
  <1> QED
    BY <1>1, <1>6, <1>8, <1>9, <1>10, <1>11, <1>12

(* For every set of clients, sessions and attributes and every capacity:   *)
(* an answer that eval.get gives was evaluated for exactly the session,    *)
(* kind and attribute that were asked for.                                 *)
THEOREM EvalAnswersMatch == EvalSpec => []EvalAnswerMatches
  <1>1. EvalInit => EvalInv
    BY DEF EvalInit, EvalInv, EntriesBound, EvalAnswerMatches, EvalIdle
  <1>2. EvalInv => EvalAnswerMatches
    BY DEF EvalInv
  <1> QED
    BY <1>1, <1>2, EvalStep, PTL DEF EvalSpec

-----------------------------------------------------------------------------
(* The daemon's socket                                                     *)

DaemonStates == {"none", "starting", "clean", "bound", "reconcile", "serving", "stopping", "dead"}

DaemonTypeOK ==
    /\ dd \in [Daemons -> DaemonStates]
    /\ dd_cmd \in [DaemonClients -> [pc : {"idle", "NotReady", "start", "spawn", "wait", "stop"},
                                     child : Daemons \cup {NoDaemon}]]
    /\ dd_quiet \in BOOLEAN

(* As long as it is quiet: one daemon at most, and how far it is decides   *)
(* what is in the files; one command at most, and before it has acted no   *)
(* daemon is on its way.                                                   *)
OneDaemon == \A d, e \in Alive : d = e

OneCommand == \A b, c \in Active : b = c

FilesFollow ==
    \A d \in Daemons :
        /\ dd[d] = "clean" => dd_path = NoDaemon
        /\ dd[d] \in {"bound", "reconcile", "serving"} => dd_path = d
        /\ dd[d] \in {"reconcile", "serving"} => dd_pid = d

CommandFirst ==
    \A c \in Active :
        /\ dd_cmd[c].pc # "spawn"
        /\ dd_cmd[c].pc \in {"start", "stop"} => \A d \in Alive : dd[d] = "serving"

QuietInv == OneDaemon /\ OneCommand /\ FilesFollow /\ CommandFirst

DaemonInv == DaemonTypeOK /\ (dd_quiet => QuietInv)

(* Every step of the daemons keeps the types.                              *)
LEMMA DaemonTypes == DaemonTypeOK /\ [DaemonNext]_dd_vars => DaemonTypeOK'
  <1> SUFFICES ASSUME DaemonTypeOK, [DaemonNext]_dd_vars PROVE DaemonTypeOK'
    OBVIOUS
  <1>1. dd_quiet' \in BOOLEAN
    BY DEF DaemonTypeOK, DaemonNext, dd_vars, dd_begin, start_running, start_slow, start_ready,
           start_not_ready, start_spawn, stop_request, stop_absent, stop_error, serve_cleanup,
           serve_bind, write_pid_file, serve_accept, serve_end, serve_dies
  <1>2. dd' \in [Daemons -> DaemonStates]
    BY DEF DaemonTypeOK, DaemonStates, DaemonNext, dd_vars, dd_begin, start_running, start_slow,
           start_ready, start_not_ready, start_spawn, stop_request, stop_absent, stop_error,
           serve_cleanup, serve_bind, write_pid_file, serve_accept, serve_end, serve_dies
  <1>3. \/ UNCHANGED dd_cmd
        \/ \E c \in DaemonClients : \E pc \in {"idle", "NotReady", "start", "spawn", "wait", "stop"} :
              \E d \in Daemons \cup {NoDaemon} : Goes(c, pc, d)
    BY DEF DaemonNext, dd_vars, dd_begin, start_running, start_slow,
           start_ready, start_not_ready, start_spawn, stop_request, stop_absent, stop_error,
           serve_cleanup, serve_bind, write_pid_file, serve_accept, serve_end, serve_dies
  <1>4. dd_cmd' \in [DaemonClients -> [pc : {"idle", "NotReady", "start", "spawn", "wait", "stop"},
                                       child : Daemons \cup {NoDaemon}]]
    BY <1>3 DEF DaemonTypeOK, Goes
  <1> QED
    BY <1>1, <1>2, <1>4 DEF DaemonTypeOK

(* What Goes does to the commands that act.                                *)
LEMMA GoesActive ==
    ASSUME DaemonTypeOK, NEW c \in DaemonClients, NEW pc, NEW d, Goes(c, pc, d)
    PROVE  /\ dd_cmd'[c].pc = pc
           /\ \A b \in DaemonClients \ {c} : dd_cmd'[b] = dd_cmd[b]
           /\ pc \in {"idle", "NotReady"} => Active' = Active \ {c}
           /\ pc \notin {"idle", "NotReady"} => Active' = Active \cup {c}
  <1>1. /\ dd_cmd'[c] = [pc |-> pc, child |-> d]
        /\ \A b \in DaemonClients \ {c} : dd_cmd'[b] = dd_cmd[b]
    BY DEF DaemonTypeOK, Goes
  <1>2. dd_cmd'[c].pc = pc
    BY <1>1
  <1> QED
    BY <1>1, <1>2 DEF Active

(* A command takes a step.                                                 *)
LEMMA CommandQuiet ==
    ASSUME DaemonInv, dd_quiet', NEW c \in DaemonClients,
           \/ \E pc \in {"start", "stop"} : dd_begin(c, pc)
           \/ start_running(c) \/ start_slow(c) \/ start_ready(c) \/ start_not_ready(c)
           \/ \E d \in Daemons : start_spawn(c, d)
           \/ stop_request(c) \/ stop_absent(c) \/ stop_error(c)
    PROVE  QuietInv'
  <1>0. /\ DaemonTypeOK /\ dd_quiet /\ QuietInv
        /\ dd \in [Daemons -> DaemonStates]
    BY DEF DaemonInv, DaemonTypeOK, dd_begin, start_running, start_slow, start_ready,
           start_not_ready, start_spawn, stop_request, stop_absent, stop_error
  <1>1. ASSUME NEW pc \in {"start", "stop"}, dd_begin(c, pc) PROVE QuietInv'
    <2>1. /\ Active = {} /\ Active' = {c} /\ dd_cmd'[c].pc = pc
          /\ \A d \in Daemons : dd[d] \notin Coming \cup {"stopping"}
          /\ UNCHANGED <<dd, dd_path, dd_pid>>
      BY <1>0, <1>1, GoesActive DEF dd_begin
    <2>2. \A d \in Alive : dd[d] = "serving"
      BY <1>0, <2>1 DEF Alive, Coming, DaemonStates
    <2> QED
      BY <1>0, <2>1, <2>2 DEF QuietInv, OneDaemon, OneCommand, FilesFollow, CommandFirst, Alive
  <1>2. CASE start_running(c) \/ start_ready(c)
    <2>1. Active' = Active \ {c} /\ UNCHANGED <<dd, dd_path, dd_pid>>
          /\ \A b \in Active' : dd_cmd'[b] = dd_cmd[b]
      BY <1>0, <1>2, GoesActive DEF start_running, start_ready, Active
    <2> QED
      BY <1>0, <2>1 DEF QuietInv, OneDaemon, OneCommand, FilesFollow, CommandFirst, Alive
  <1>3. CASE start_slow(c) \/ stop_error(c)
    BY <1>3 DEF start_slow, stop_error
  <1>4. CASE start_not_ready(c)
    <2>1. /\ Active' = Active \ {c} /\ UNCHANGED <<dd_path, dd_pid>>
          /\ \A b \in Active' : dd_cmd'[b] = dd_cmd[b]
          /\ dd' = [dd EXCEPT ![dd_cmd[c].child] = "dead"]
          /\ dd_cmd[c].child \notin Alive
      BY <1>0, <1>4, GoesActive DEF start_not_ready, Active
    <2>2. Alive' = Alive
      BY <1>0, <2>1 DEF Alive
    <2>3. \A d \in Daemons : dd'[d] = dd[d] \/ dd'[d] = "dead"
      BY <1>0, <2>1
    <2>4. \A d \in Alive : dd'[d] = dd[d]
      BY <1>0, <2>1 DEF Alive
    <2> QED
      BY <1>0, <2>1, <2>2, <2>3, <2>4 DEF QuietInv, OneDaemon, OneCommand, FilesFollow, CommandFirst
  <1>5. ASSUME NEW d \in Daemons, start_spawn(c, d) PROVE QuietInv'
    <2>1. c \in Active /\ dd_cmd[c].pc = "start" /\ dd_path \notin Alive
      BY <1>0, <1>5 DEF start_spawn, MaySpawn, Refused, Active, QuietInv, CommandFirst
    <2>2. Alive = {}
      BY <1>0, <2>1 DEF QuietInv, CommandFirst, FilesFollow, Alive
    <2>3. /\ Active' = {c} /\ dd_cmd'[c].pc = "wait"
          /\ dd' = [dd EXCEPT ![d] = "starting"] /\ UNCHANGED <<dd_path, dd_pid>>
      BY <1>0, <1>5, <2>1, GoesActive DEF start_spawn, QuietInv, OneCommand
    <2>4. \A e \in Daemons : IF e = d THEN dd'[e] = "starting" ELSE dd'[e] \in {"none", "dead"}
      BY <1>0, <2>2, <2>3 DEF Alive
    <2>5. Alive' = {d}
      BY <2>4 DEF Alive
    <2> QED
      BY <2>3, <2>4, <2>5 DEF QuietInv, OneDaemon, OneCommand, FilesFollow, CommandFirst
  <1>6. CASE stop_request(c)
    <2>1. /\ c \in Active /\ Active' = Active \ {c} /\ UNCHANGED <<dd_path, dd_pid>>
          /\ dd' = [dd EXCEPT ![dd_path] = "stopping"]
          /\ dd_path \in Alive
      BY <1>0, <1>6, GoesActive DEF stop_request, Responds, Active
    <2>2. Active' = {}
      BY <1>0, <2>1 DEF QuietInv, OneCommand
    <2>3. \A d \in Daemons : dd'[d] = IF d = dd_path THEN "stopping" ELSE dd[d]
      BY <1>0, <2>1
    <2>4. Alive' = Alive
      BY <2>1, <2>3 DEF Alive
    <2> QED
      BY <1>0, <2>1, <2>2, <2>3, <2>4 DEF QuietInv, OneDaemon, OneCommand, FilesFollow, CommandFirst
  <1>7. CASE stop_absent(c)
    <2>1. c \in Active /\ dd_cmd[c].pc = "stop" /\ dd_path \notin Alive
      BY <1>7 DEF stop_absent, Refused, Active
    <2>2. Alive = {}
      BY <1>0, <2>1 DEF QuietInv, CommandFirst, FilesFollow, Alive
    <2>3. Active' = {}
      BY <1>0, <1>7, <2>1, GoesActive DEF stop_absent, QuietInv, OneCommand
    <2>4. \A d \in Daemons : dd'[d] \in {"none", "dead"}
      BY <1>0, <1>7, <2>2 DEF stop_absent, Alive
    <2>5. Alive' = {}
      BY <2>4 DEF Alive
    <2> QED
      BY <2>3, <2>4, <2>5 DEF QuietInv, OneDaemon, OneCommand, FilesFollow, CommandFirst
  <1> QED
    BY <1>1, <1>2, <1>3, <1>4, <1>5, <1>6, <1>7

(* A daemon takes a step.                                                  *)
LEMMA ServeQuiet ==
    ASSUME DaemonInv, dd_quiet', NEW d \in Daemons,
           \/ serve_cleanup(d) \/ serve_bind(d) \/ write_pid_file(d) \/ serve_accept(d)
           \/ serve_end(d) \/ serve_dies(d)
    PROVE  QuietInv'
  <1>1. /\ dd_quiet /\ QuietInv /\ dd \in [Daemons -> DaemonStates]
        /\ UNCHANGED dd_cmd
    BY DEF DaemonInv, DaemonTypeOK, serve_cleanup, serve_bind, write_pid_file, serve_accept,
           serve_end, serve_dies
  <1>2. d \in Alive
    BY <1>1 DEF Alive, serve_cleanup, serve_bind, write_pid_file, serve_accept, serve_end, serve_dies
  <1>3. /\ Active' = Active /\ \A e \in Daemons \ {d} : dd[e] \in {"none", "dead"}
    BY <1>1, <1>2 DEF Active, Alive, QuietInv, OneDaemon
  <1>4. OneCommand'
    BY <1>1, <1>3 DEF QuietInv, OneCommand
  <1>5. ASSUME NEW to \in {"clean", "bound", "reconcile", "serving", "dead"},
               dd' = [dd EXCEPT ![d] = to],
               /\ to = "clean" => dd_path' = NoDaemon
               /\ to \in {"bound", "reconcile", "serving"} => dd_path' = d
               /\ to \in {"reconcile", "serving"} => dd_pid' = d,
               \A c \in Active : dd_cmd[c].pc \notin {"start", "stop"}
        PROVE  QuietInv'
    <2>1. \A e \in Daemons : IF e = d THEN dd'[e] = to ELSE dd'[e] \in {"none", "dead"}
      BY <1>1, <1>3, <1>5
    <2>2. OneDaemon' /\ FilesFollow'
      BY <1>5, <2>1 DEF OneDaemon, FilesFollow, Alive
    <2>3. CommandFirst'
      BY <1>1, <1>3, <1>5 DEF QuietInv, CommandFirst
    <2> QED
      BY <1>4, <2>2, <2>3 DEF QuietInv
  <1>6. dd[d] # "serving" => \A c \in Active : dd_cmd[c].pc \notin {"start", "stop"}
    BY <1>1, <1>2 DEF QuietInv, CommandFirst
  <1>7. CASE serve_cleanup(d)
    BY <1>5, <1>6, <1>7 DEF serve_cleanup, cleanup_socket_files
  <1>8. CASE serve_bind(d)
    <2>1. dd_path = NoDaemon
      BY <1>1, <1>8 DEF serve_bind, QuietInv, FilesFollow
    <2> QED
      BY <1>5, <1>6, <1>8, <2>1 DEF serve_bind
  <1>9. CASE write_pid_file(d)
    BY <1>1, <1>5, <1>6, <1>9 DEF write_pid_file, QuietInv, FilesFollow
  <1>10. CASE serve_accept(d)
    BY <1>1, <1>5, <1>6, <1>10 DEF serve_accept, QuietInv, FilesFollow
  <1>11. CASE serve_end(d)
    BY <1>5, <1>6, <1>11 DEF serve_end
  <1>12. CASE serve_dies(d)
    <2>1. Active = {}
      BY <1>12 DEF serve_dies
    <2> QED
      BY <1>5, <1>12, <2>1 DEF serve_dies
  <1> QED
    BY <1>7, <1>8, <1>9, <1>10, <1>11, <1>12

(* For every set of daemons and commands, however many commands and        *)
(* crashes: while commands come one at a time and every daemon answers in  *)
(* time, there is one daemon at most and the files are those of the one    *)
(* that serves.                                                            *)
THEOREM DaemonsReachable == DaemonSpec => []DaemonReachable
  <1>1. DaemonInit => DaemonInv
    BY DEF DaemonInit, DaemonInv, DaemonTypeOK, DaemonStates, QuietInv, OneDaemon, OneCommand,
           FilesFollow, CommandFirst, Alive, Active, Idle
  <1>2. DaemonInv /\ [DaemonNext]_dd_vars => DaemonInv'
    <2> SUFFICES ASSUME DaemonInv, [DaemonNext]_dd_vars PROVE DaemonInv'
      OBVIOUS
    <2>1. DaemonTypeOK'
      BY DaemonTypes DEF DaemonInv
    <2>2. ASSUME dd_quiet' PROVE QuietInv'
      <3>1. CASE UNCHANGED dd_vars
        BY <2>2, <3>1 DEF DaemonInv, dd_vars, QuietInv, OneDaemon, OneCommand, FilesFollow,
                          CommandFirst, Alive, Active
      <3> QED
        BY <2>2, <3>1, CommandQuiet, ServeQuiet DEF DaemonNext
    <2> QED
      BY <2>1, <2>2 DEF DaemonInv
  <1>3. DaemonInv => DaemonReachable
    <2> SUFFICES ASSUME DaemonInv, dd_quiet PROVE DaemonReachable
      BY DEF DaemonReachable
    <2>1. \A d, e \in Alive : d = e
      BY DEF DaemonInv, QuietInv, OneDaemon
    <2>2. Cardinality(Alive) <= 1
      <3>1. CASE Alive = {}
        BY <3>1, FS_EmptySet
      <3>2. CASE Alive # {}
        <4>1. PICK d : Alive = {d}
          BY <2>1, <3>2
        <4> QED
          BY <4>1, FS_Singleton
      <3> QED
        BY <3>1, <3>2
    <2>3. \A d \in Alive : dd[d] = "serving" => dd_path = d /\ dd_pid = d
      BY DEF DaemonInv, QuietInv, FilesFollow, Alive
    <2> QED
      BY <2>2, <2>3 DEF DaemonReachable
  <1> QED
    BY <1>1, <1>2, <1>3, PTL DEF DaemonSpec
=============================================================================
