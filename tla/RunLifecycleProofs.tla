-------------------------- MODULE RunLifecycleProofs --------------------------
(***************************************************************************)
(* Proofs about RunLifecycle for any set of runs, any faults and any       *)
(* number of restarts.                                                     *)
(***************************************************************************)
EXTENDS RunLifecycle, FiniteSetTheorems, TLAPS

\* The initial state has the declared types.
LEMMA InitTypes == Init => TypeOK
  BY ConstantsAssumption DEF Init, InitMemory, TypeOK, Actions, Strategies

\* What Interrupt leaves in the record of every run.
LEMMA InterruptTypes ==
  ASSUME TypeOK, NEW V, NEW a \in Actions, Interrupt(V, a)
  PROVE  /\ status' \in [Runs -> {"absent"} \cup Live \cup Terminal]
         /\ abort' \in [Runs -> {"no"} \cup Actions]
         /\ finalizing' \in [Runs -> BOOLEAN]
         /\ cancelReq' \in [Runs -> BOOLEAN]
<1>1. status' \in [Runs -> {"absent"} \cup Live \cup Terminal]
  BY DEF TypeOK, Interrupt, Terminal
<1>2. abort' \in [Runs -> {"no"} \cup Actions]
  BY DEF TypeOK, Interrupt
<1>3. \A q \in Runs : TaskActive(q) \in BOOLEAN
  BY DEF TaskActive
<1>4. finalizing' \in [Runs -> BOOLEAN]
  <2>1. \A q \in Runs : (IF q \in V THEN TaskActive(q) ELSE finalizing[q]) \in BOOLEAN
    BY <1>3, Zenon DEF TypeOK
  <2> QED BY <2>1, Zenon DEF Interrupt
<1>5. cancelReq' \in [Runs -> BOOLEAN]
  BY Zenon DEF Interrupt
<1> QED BY <1>1, <1>2, <1>4, <1>5

\* Every step of a start_run request keeps the types.
LEMMA RequestTypes ==
  ASSUME TypeOK, NEW r \in Runs, Request(r)
  PROVE  TypeOK'
<1> USE ConstantsAssumption DEF TypeOK, Live, Terminal, Actions, Strategies, Callers
<1>1. ASSUME NEW s \in Strategies, Admit(r, s) PROVE TypeOK'
  BY <1>1 DEF Admit, Recorded, Inflight
<1>2. CASE Refuse(r)
  BY <1>2 DEF Refuse
<1>3. CASE Persisted(r)
  <2> DEFINE V == ToInterrupt(r)
             A == IF strategy[r] = "reject" THEN "interrupt" ELSE strategy[r]
  <2>1. A \in Actions
    OBVIOUS
  <2>2. Interrupt(V, A)
    BY <1>3 DEF Persisted
  <2>3. /\ status' \in [Runs -> {"absent"} \cup Live \cup Terminal]
        /\ abort' \in [Runs -> {"no"} \cup Actions]
        /\ finalizing' \in [Runs -> BOOLEAN]
        /\ cancelReq' \in [Runs -> BOOLEAN]
    <3> HIDE DEF A, V
    <3> QED BY <2>1, <2>2, InterruptTypes
  <2>4. owed' \in [Runs -> SUBSET Callers]
    BY <1>3 DEF Persisted
  <2> QED BY <1>3, <2>3, <2>4 DEF Persisted
<1>4. CASE PersistFails(r)
  BY <1>4 DEF PersistFails, Fails
<1>5. CASE UpsertThread(r)
  BY <1>5 DEF UpsertThread, Fails
<1>6. CASE StartFails(r)
  BY <1>6 DEF StartFails, Fails
<1>7. CASE Launch(r)
  BY <1>7 DEF Launch, Goto, Places, Waiting
<1> QED BY <1>1, <1>2, <1>3, <1>4, <1>5, <1>6, <1>7 DEF Request

\* Every step of a worker keeps the types.
LEMMA WorkerTypes ==
  ASSUME TypeOK, NEW r \in Runs, Worker(r)
  PROVE  TypeOK'
<1> USE ConstantsAssumption DEF TypeOK, Live, Terminal, Actions, Goto, Places, Waiting
<1>1. CASE NeverStarts(r)
  BY <1>1 DEF NeverStarts
<1>2. CASE Start(r)
  BY <1>2 DEF Start
<1>3. CASE MarkRunning(r)
  BY <1>3 DEF MarkRunning
<1>4. CASE SaveRunning(r)
  BY <1>4 DEF SaveRunning, SaveRow, Fails
<1>5. CASE Snapshot(r)
  <2>1. snap' \in [Runs -> SUBSET Runs] /\ snapFailed' \in [Runs -> BOOLEAN] /\ faults' \in 0..MaxFaults
    <3>1. CASE snap' = [snap EXCEPT ![r] = head] /\ UNCHANGED <<snapFailed, faults>>
      BY <3>1
    <3>2. CASE /\ Fails("checkpoint")
               /\ snapFailed' = [snapFailed EXCEPT ![r] = TRUE]
               /\ UNCHANGED snap
      BY <3>2 DEF Fails
    <3> QED BY <1>5, <3>1, <3>2 DEF Snapshot
  <2> QED BY <1>5, <2>1 DEF Snapshot
<1>6. CASE StreamStep(r)
  BY <1>6 DEF StreamStep
<1>7. ASSUME NEW o \in {"success", "fallback", "exception", "abort"}, StreamEnds(r, o)
      PROVE  TypeOK'
  BY <1>7 DEF StreamEnds
<1>8. CASE Settle(r)
  BY <1>8 DEF Settle, AbortStatus
<1>9. CASE Cancelled(r)
  BY <1>9 DEF Cancelled, AbortStatus
<1>10. CASE CancelledInHandler(r)
  BY <1>10 DEF CancelledInHandler
<1>11. CASE SaveOutcome(r)
  BY <1>11 DEF SaveOutcome, SaveRow, Fails
<1>12. CASE Rollback(r)
  BY <1>12 DEF Rollback, RolledBackHead, Fails
<1>13. CASE Complete(r)
  BY <1>13 DEF Complete, SaveRow, Fails
<1>14. CASE AwaitTitle(r)
  BY <1>14 DEF AwaitTitle
<1>15. CASE WriteTitle(r)
  BY <1>15 DEF WriteTitle
<1>16. CASE SyncThread(r)
  BY <1>16 DEF SyncThread, SyncedStatus, Fails
<1>17. CASE Release(r)
  BY <1>17 DEF Release, FinalizingAfter
<1> QED
  BY <1>1, <1>2, <1>3, <1>4, <1>5, <1>6, <1>7, <1>8, <1>9, <1>10, <1>11, <1>12, <1>13, <1>14,
     <1>15, <1>16, <1>17 DEF Worker

\* Every other step, of a canceller or of the process, keeps the types.
LEMMA OtherTypes ==
  ASSUME TypeOK,
         \/ \E r \in Runs, a \in Actions : Cancel(r, a)
         \/ \E r \in Runs, by \in Callers : SaveInterrupted(by, r)
         \/ Shutdown \/ DrainEnds \/ Die \/ Restart
  PROVE  TypeOK'
<1> USE ConstantsAssumption DEF TypeOK, Live, Terminal, Actions, Strategies, Callers
<1>1. ASSUME NEW r \in Runs, NEW a \in Actions, Cancel(r, a) PROVE TypeOK'
  <2>1. Interrupt({r}, a)
    BY <1>1 DEF Cancel
  <2>2. /\ status' \in [Runs -> {"absent"} \cup Live \cup Terminal]
        /\ abort' \in [Runs -> {"no"} \cup Actions]
        /\ finalizing' \in [Runs -> BOOLEAN]
        /\ cancelReq' \in [Runs -> BOOLEAN]
    BY <2>1, InterruptTypes
  <2> QED BY <1>1, <2>2 DEF Cancel
<1>2. ASSUME NEW r \in Runs, NEW by \in Callers, SaveInterrupted(by, r) PROVE TypeOK'
  BY <1>2 DEF SaveInterrupted, SaveRow, Fails
<1>3. CASE Shutdown
  <2>1. cancelReq' \in [Runs -> BOOLEAN]
    BY <1>3, Zenon DEF Shutdown
  <2> QED BY <1>3, <2>1 DEF Shutdown
<1>4. CASE DrainEnds
  BY <1>4 DEF DrainEnds
<1>5. CASE Die
  BY <1>5 DEF Die
<1>6. CASE Restart
  <2>1. PICK skipped \in SUBSET Orphans :
          /\ Cardinality(skipped) <= (IF "store" \in FaultKinds THEN MaxFaults - faults ELSE 0)
          /\ faults' = faults + Cardinality(skipped)
          /\ row' = [r \in Runs |-> IF r \in Orphans \ skipped THEN "error" ELSE row[r]]
          /\ threadStatus' = IF threadStatus # "absent" /\ \E r \in Orphans \ skipped : Newest(r)
                             THEN "error" ELSE threadStatus
    BY <1>6 DEF Restart
  <2>2. Cardinality(skipped) \in Nat
    BY FS_Subset, FS_CardinalityType DEF Orphans
  <2>3. faults' \in 0..MaxFaults
    BY <2>1, <2>2
  <2> QED BY <1>6, <2>1, <2>3 DEF Restart, memory
<1> QED BY <1>1, <1>2, <1>3, <1>4, <1>5, <1>6

\* Type correctness: whatever happens, every variable keeps its type.
THEOREM TypeCorrect == Spec => []TypeOK
<1>1. TypeOK /\ [Next]_vars => TypeOK'
  <2> SUFFICES ASSUME TypeOK, [Next]_vars PROVE TypeOK'
    OBVIOUS
  <2>1. CASE Next
    BY <2>1, RequestTypes, WorkerTypes, OtherTypes DEF Next
  <2>2. CASE UNCHANGED vars
    BY <2>2 DEF vars, memory, TypeOK
  <2> QED BY <2>1, <2>2
<1> QED BY InitTypes, <1>1, PTL DEF Spec

-----------------------------------------------------------------------------
\* The conjuncts of AdmissionInv besides the types.
AdmissionParts ==
  /\ IdleIsFresh /\ TaskLaunched /\ LockHolder /\ OneHolder
  /\ LiveNotFinalizing /\ UncancelledIsLive
  /\ VictimsLaunched /\ DrainedCancelled /\ DrainedLaunched
  /\ LiveButVictims

\* The steps of a worker keep the admission invariant.
LEMMA WorkerAdmission ==
  ASSUME AdmissionInv, TypeOK', NEW r \in Runs, Worker(r)
  PROVE  AdmissionParts'
<1> USE DEF AdmissionInv, AdmissionParts, TypeOK, IdleIsFresh, TaskLaunched, LockHolder, OneHolder,
            LiveNotFinalizing, UncancelledIsLive, VictimsLaunched, DrainedCancelled,
            DrainedLaunched, LiveButVictims, Live, Terminal, Unlaunched, Goto
<1>1. CASE NeverStarts(r)
  BY <1>1 DEF NeverStarts
<1>2. CASE Start(r)
  BY <1>2 DEF Start
<1>3. CASE MarkRunning(r)
  BY <1>3 DEF MarkRunning, Free
<1>4. CASE SaveRunning(r)
  BY <1>4 DEF SaveRunning, SaveRow
<1>5. CASE Snapshot(r)
  BY <1>5 DEF Snapshot
<1>6. CASE StreamStep(r)
  BY <1>6 DEF StreamStep
<1>7. ASSUME NEW o \in {"success", "fallback", "exception", "abort"}, StreamEnds(r, o)
      PROVE  AdmissionParts'
  BY <1>7 DEF StreamEnds
<1>8. CASE Settle(r)
  BY <1>8 DEF Settle, AbortStatus
<1>9. CASE Cancelled(r)
  BY <1>9 DEF Cancelled, AbortStatus
<1>10. CASE CancelledInHandler(r)
  BY <1>10 DEF CancelledInHandler
<1>11. CASE SaveOutcome(r)
  BY <1>11 DEF SaveOutcome, SaveRow
<1>12. CASE Rollback(r)
  BY <1>12 DEF Rollback
<1>13. CASE Complete(r)
  BY <1>13 DEF Complete, SaveRow
<1>14. CASE AwaitTitle(r)
  BY <1>14 DEF AwaitTitle
<1>15. CASE WriteTitle(r)
  BY <1>15 DEF WriteTitle
<1>16. CASE SyncThread(r)
  BY <1>16 DEF SyncThread
<1>17. CASE Release(r)
  BY <1>17 DEF Release, FinalizingAfter
<1> HIDE DEF AdmissionParts
<1> QED
  BY <1>1, <1>2, <1>3, <1>4, <1>5, <1>6, <1>7, <1>8, <1>9, <1>10, <1>11, <1>12, <1>13, <1>14,
     <1>15, <1>16, <1>17 DEF Worker

\* The steps of a request keep it, if no admission cancels a run that has no task yet.
LEMMA RequestAdmission ==
  ASSUME "noTask" \notin Windows, AdmissionInv, TypeOK', NEW r \in Runs, Request(r)
  PROVE  AdmissionParts'
<1> USE DEF AdmissionInv, AdmissionParts, TypeOK, IdleIsFresh, TaskLaunched, LockHolder, OneHolder,
            LiveNotFinalizing, UncancelledIsLive, VictimsLaunched, DrainedCancelled,
            DrainedLaunched, LiveButVictims, Live, Terminal, Unlaunched, Goto
<1>1. ASSUME NEW s \in Strategies, Admit(r, s) PROVE AdmissionParts'
  <2>1. \A v \in Inflight : req[v] \notin Unlaunched \cup {"idle"}
    BY <1>1 DEF Admit, Inflight, Strikable, Window
  <2>2. IdleIsFresh' /\ TaskLaunched' /\ LockHolder' /\ OneHolder' /\ LiveNotFinalizing' /\ UncancelledIsLive'
    BY <1>1 DEF Admit, Free
  <2>3. VictimsLaunched' /\ DrainedCancelled' /\ DrainedLaunched'
    BY <1>1, <2>1 DEF Admit, Free, Inflight
  <2>4. LiveButVictims'
    BY <1>1 DEF Admit, Free, Inflight
  <2> QED BY <2>2, <2>3, <2>4
<1>2. CASE Refuse(r)
  BY <1>2 DEF Refuse
<1>3. CASE Persisted(r)
  <2>1. lock = {r} /\ r \notin victims[r]
    BY <1>3 DEF Persisted
  <2>2. \A q \in Runs : /\ q \notin ToInterrupt(r) => status'[q] = status[q] /\ finalizing'[q] = finalizing[q]
                                                      /\ cancelReq'[q] = cancelReq[q]
                        /\ q \in ToInterrupt(r) => /\ status'[q] = "interrupted"
                                                   /\ cancelReq'[q] = (cancelReq[q] \/ TaskActive(q))
                                                   /\ req[q] \notin Unlaunched \cup {"idle"}
    BY <1>3, <2>1 DEF Persisted, Interrupt, ToInterrupt
  <2>3. IdleIsFresh' /\ TaskLaunched' /\ LockHolder' /\ OneHolder' /\ LiveNotFinalizing'
    BY <1>3, <2>1, <2>2 DEF Persisted
  <2>4. UncancelledIsLive'
    BY <1>3, <2>1, <2>2 DEF Persisted, TaskActive, Places, Waiting
  <2>5. VictimsLaunched' /\ DrainedCancelled' /\ DrainedLaunched'
    BY <1>3, <2>1, <2>2 DEF Persisted
  <2>6. LiveButVictims'
    BY <1>3, <2>1, <2>2 DEF Persisted, ToInterrupt
  <2> QED BY <2>3, <2>4, <2>5, <2>6
<1>4. CASE PersistFails(r)
  <2>1. lock = {r} /\ r \notin victims[r]
    BY <1>4 DEF PersistFails
  <2> QED BY <1>4, <2>1 DEF PersistFails
<1>5. CASE UpsertThread(r)
  BY <1>5 DEF UpsertThread
<1>6. CASE StartFails(r)
  BY <1>6 DEF StartFails
<1>7. CASE Launch(r)
  BY <1>7 DEF Launch
<1> QED BY <1>1, <1>2, <1>3, <1>4, <1>5, <1>6, <1>7 DEF Request

\* Cancellers and the process keep it, under the same condition.
LEMMA OtherAdmission ==
  ASSUME "noTask" \notin Windows, AdmissionInv, TypeOK',
         \/ \E r \in Runs, a \in Actions : Cancel(r, a)
         \/ \E r \in Runs, by \in Callers : SaveInterrupted(by, r)
         \/ Shutdown \/ DrainEnds \/ Die \/ Restart
  PROVE  AdmissionParts'
<1> USE DEF AdmissionInv, AdmissionParts, TypeOK, IdleIsFresh, TaskLaunched, LockHolder, OneHolder,
            LiveNotFinalizing, UncancelledIsLive, VictimsLaunched, DrainedCancelled,
            DrainedLaunched, LiveButVictims, Live, Terminal, Unlaunched, Goto
<1>1. ASSUME NEW r \in Runs, NEW a \in Actions, Cancel(r, a) PROVE AdmissionParts'
  <2>1. req[r] \notin Unlaunched \cup {"idle"}
    BY <1>1 DEF Cancel, Strikable, Window
  <2>2. \A q \in Runs : /\ q # r => status'[q] = status[q] /\ finalizing'[q] = finalizing[q]
                                    /\ cancelReq'[q] = cancelReq[q]
                        /\ status'[r] = "interrupted" /\ cancelReq'[r] = (cancelReq[r] \/ TaskActive(r))
    BY <1>1 DEF Cancel, Interrupt
  <2>3. UncancelledIsLive'
    BY <1>1, <2>1, <2>2 DEF Cancel, TaskActive, Places, Waiting
  <2>4. IdleIsFresh' /\ TaskLaunched' /\ LockHolder' /\ OneHolder' /\ VictimsLaunched'
    BY <1>1, <2>1, <2>2 DEF Cancel
  <2>5. LiveNotFinalizing'
    BY <1>1, <2>2 DEF Cancel
  <2>6. DrainedCancelled' /\ DrainedLaunched'
    BY <1>1, <2>2 DEF Cancel
  <2>7. LiveButVictims'
    BY <1>1, <2>2 DEF Cancel, Free
  <2> QED BY <2>3, <2>4, <2>5, <2>6, <2>7
<1>2. ASSUME NEW r \in Runs, NEW by \in Callers, SaveInterrupted(by, r) PROVE AdmissionParts'
  BY <1>2 DEF SaveInterrupted, SaveRow
<1>3. CASE Shutdown
  BY <1>3 DEF Shutdown, TaskActive, Places, Waiting
<1>4. CASE DrainEnds
  BY <1>4 DEF DrainEnds, Unsettled
<1>5. CASE Die
  BY <1>5 DEF Die
<1>6. CASE Restart
  BY <1>6 DEF Restart, memory
<1> QED BY <1>1, <1>2, <1>3, <1>4, <1>5, <1>6

\* The initial state satisfies the admission invariant.
LEMMA AdmissionInit == Init => AdmissionInv
<1> SUFFICES ASSUME Init PROVE AdmissionInv
  OBVIOUS
<1>1. TypeOK
  BY InitTypes
<1> QED
  BY <1>1 DEF Init, InitMemory, AdmissionInv, IdleIsFresh, TaskLaunched, LockHolder, OneHolder,
     LiveNotFinalizing, UncancelledIsLive, VictimsLaunched, DrainedCancelled, DrainedLaunched,
     LiveButVictims, Live, Unlaunched

\* Every step keeps the admission invariant.
LEMMA AdmissionStep ==
  ASSUME "noTask" \notin Windows, AdmissionInv, [Next]_vars
  PROVE  AdmissionInv'
<1> TypeOK
  BY DEF AdmissionInv
<1>1. CASE Next
  <2>1. TypeOK'
    BY <1>1, RequestTypes, WorkerTypes, OtherTypes DEF Next
  <2>2. AdmissionParts'
    BY <1>1, <2>1, RequestAdmission, WorkerAdmission, OtherAdmission DEF Next
  <2> QED BY <2>1, <2>2 DEF AdmissionInv, AdmissionParts
<1>2. CASE UNCHANGED vars
  BY <1>2 DEF vars, memory, AdmissionInv, TypeOK, IdleIsFresh, TaskLaunched, LockHolder, OneHolder,
     LiveNotFinalizing, UncancelledIsLive, VictimsLaunched, DrainedCancelled, DrainedLaunched,
     LiveButVictims
<1> QED BY <1>1, <1>2

\* Admission is exclusive: in every reachable state with the lock free at most one run of the
\* thread is pending or running, provided no cancellation strikes a run that has no task yet.
THEOREM AdmissionIsExclusive ==
  ASSUME "noTask" \notin Windows
  PROVE  Spec => []AtMostOneLive
<1>1. AdmissionInv => AtMostOneLive
  BY DEF AdmissionInv, LiveButVictims, AtMostOneLive, Free
<1> QED BY AdmissionInit, AdmissionStep, <1>1, PTL DEF Spec

-----------------------------------------------------------------------------
(* What a record says of its worker, and the order of the runs of a thread   *)

\* The worker has not yet learnt how its run ended.
Early == {"scheduled", "waitPrior", "saveRunning", "snapshot", "stream", "finish"}

\* A request that has not begun has left no trace outside the manager either.
BegunTraces ==
  \A r \in Runs : req[r] = "idle" => /\ earlier[r] = {} /\ row[r] = "absent"
                                     /\ abort[r] = "no" /\ owed[r] = {}

\* A run with a task, or that will get one, is recorded; only a task can be cancelled.
TaskIsHeld ==
  \A r \in Runs : task[r] # "absent" \/ req[r] \in Unlaunched => status[r] # "absent"
TasklessUncancelled == \A r \in Runs : task[r] = "absent" => ~cancelReq[r]
LockPending == \A r \in lock : status[r] = "pending"

\* Until its worker knows the end a run is live, unless a canceller interrupted it and the
\* cancellation is on its way; a drain cancels it and leaves the status for later.
EarlyStatus ==
  \A r \in Runs : task[r] \in Early => /\ status[r] \in Live \cup {"interrupted"}
                                       /\ ~cancelReq[r] => status[r] \in Live
EarlyCancelled ==
  \A r \in Runs : task[r] \in Early /\ cancelReq[r] => status[r] = "interrupted" \/ r \in drained
EarlyOutcome ==
  \A r \in Runs : task[r] \in Early \cup {"absent"} => outcome[r] # "earlyAbort"

\* A drain begins with the lock free and ends with the process.
DrainedIsDraining == drained # {} => life \in {"draining", "drained"}
DrainedEarly == \A r \in drained : task[r] \in Early => cancelReq[r]

\* After that it is live only if a drain struck it inside its except Exception clause.
LateSettled ==
  \A r \in Runs : TaskActive(r) /\ task[r] \notin Early /\ status[r] \in Live
                  => r \in drained /\ outcome[r] = "exception"

RecordParts ==
  /\ BegunTraces /\ TaskIsHeld /\ TasklessUncancelled /\ LockPending
  /\ EarlyStatus /\ EarlyCancelled /\ EarlyOutcome /\ LateSettled
  /\ DrainedIsDraining /\ DrainedEarly

\* The worker will not touch the checkpoint any more.
Finished(r) ==
  \/ task[r] \in {"syncThread", "release", "done", "cancelled"}
  \/ task[r] = "absent" /\ req[r] \notin Unlaunched \cup {"idle"}
  \/ /\ task[r] \in {"saveOutcome", "complete"}
     /\ status[r] \in {"success", "error"} /\ outcome[r] \notin {"abort", "earlyAbort"}

\* Two recorded runs were admitted one after the other; the older one is live only until
\* the admission of the younger one lets go of the lock.
EarlierBegun == \A r \in Runs : \A q \in earlier[r] : q # r /\ req[q] # "idle"
Ordered == \A q, r \in Recorded : q # r => q \in earlier[r] \/ r \in earlier[q]
EarlierNotLive ==
  \A r \in Recorded : \A q \in earlier[r] : status[q] \in Live => r \in lock /\ q \in victims[r]
VictimsInflight == \A r \in lock : \A v \in victims[r] : status[v] \in Live \/ finalizing[v]

\* A drain waits for the newest run, the only one that is live.
DrainedLast ==
  \A q \in drained : /\ \A r \in Recorded : q \notin earlier[r]
                     /\ \A r \in Runs : status[r] \in Live => r = q

\* A worker that may still write is live, cleans up under its flag, or is being drained.
UnfinishedIsInflight ==
  \A r \in Runs : TaskActive(r) => status[r] \in Live \/ finalizing[r] \/ r \in drained \/ Finished(r)

SequenceParts ==
  /\ EarlierBegun /\ Ordered /\ EarlierNotLive /\ VictimsInflight
  /\ DrainedLast /\ UnfinishedIsInflight

OrderInv == AdmissionInv /\ RecordParts /\ SequenceParts

\* The steps of a worker keep what a record says of its worker.
LEMMA WorkerRecord ==
  ASSUME "noTask" \notin Windows, OrderInv, AdmissionInv', NEW r \in Runs, Worker(r)
  PROVE  RecordParts'
<1> USE DEF OrderInv, AdmissionInv, TypeOK, IdleIsFresh, TaskLaunched, LockHolder, OneHolder, LiveNotFinalizing,
            UncancelledIsLive, VictimsLaunched, DrainedCancelled, DrainedLaunched, LiveButVictims,
            RecordParts, BegunTraces, TaskIsHeld, TasklessUncancelled, LockPending,
            EarlyStatus, EarlyCancelled, EarlyOutcome, LateSettled,
            DrainedIsDraining, DrainedEarly, Early,
            Live, Terminal, Unlaunched, Goto, TaskActive, Places, Waiting
<1>1. CASE NeverStarts(r)
  BY <1>1 DEF NeverStarts
<1>2. CASE Start(r)
  BY <1>2 DEF Start
<1>3. CASE MarkRunning(r)
  BY <1>3 DEF MarkRunning, Free, PriorSettled
<1>4. CASE SaveRunning(r)
  BY <1>4 DEF SaveRunning, SaveRow
<1>5. CASE Snapshot(r)
  BY <1>5 DEF Snapshot
<1>6. CASE StreamStep(r)
  BY <1>6 DEF StreamStep
<1>7. ASSUME NEW o \in {"success", "fallback", "exception", "abort"}, StreamEnds(r, o)
      PROVE  RecordParts'
  BY <1>7 DEF StreamEnds
<1>8. CASE Settle(r)
  BY <1>8 DEF Settle, AbortStatus, Free
<1>9. CASE Cancelled(r)
  BY <1>9 DEF Cancelled, AbortStatus, Free
<1>10. CASE CancelledInHandler(r)
  BY <1>10 DEF CancelledInHandler
<1>11. CASE SaveOutcome(r)
  BY <1>11 DEF SaveOutcome, SaveRow, RollsBack
<1>12. CASE Rollback(r)
  BY <1>12 DEF Rollback
<1>13. CASE Complete(r)
  BY <1>13 DEF Complete, SaveRow
<1>14. CASE AwaitTitle(r)
  BY <1>14 DEF AwaitTitle, Free, PriorSettled
<1>15. CASE WriteTitle(r)
  BY <1>15 DEF WriteTitle
<1>16. CASE SyncThread(r)
  BY <1>16 DEF SyncThread
<1>17. CASE Release(r)
  BY <1>17 DEF Release, FinalizingAfter, Free
<1> HIDE DEF RecordParts
<1> QED
  BY <1>1, <1>2, <1>3, <1>4, <1>5, <1>6, <1>7, <1>8, <1>9, <1>10, <1>11, <1>12, <1>13, <1>14,
     <1>15, <1>16, <1>17 DEF Worker

\* The steps of a request keep what a record says of its worker.
LEMMA RequestRecord ==
  ASSUME "noTask" \notin Windows, OrderInv, AdmissionInv', NEW r \in Runs, Request(r)
  PROVE  RecordParts'
<1> USE DEF OrderInv, AdmissionInv, TypeOK, IdleIsFresh, TaskLaunched, LockHolder, OneHolder, LiveNotFinalizing,
            UncancelledIsLive, VictimsLaunched, DrainedCancelled, DrainedLaunched, LiveButVictims,
            RecordParts, BegunTraces, TaskIsHeld, TasklessUncancelled, LockPending,
            EarlyStatus, EarlyCancelled, EarlyOutcome, LateSettled,
            DrainedIsDraining, DrainedEarly, Early,
            Live, Terminal, Unlaunched, Goto, TaskActive, Places, Waiting
<1>1. ASSUME NEW s \in Strategies, Admit(r, s) PROVE RecordParts'
  BY <1>1 DEF Admit, Free, Inflight, Strikable, Window
<1>2. CASE Refuse(r)
  BY <1>2 DEF Refuse
<1>3. CASE Persisted(r)
  BY <1>3 DEF Persisted, Interrupt, ToInterrupt
<1>4. CASE PersistFails(r)
  BY <1>4 DEF PersistFails
<1>5. CASE UpsertThread(r)
  BY <1>5 DEF UpsertThread
<1>6. CASE StartFails(r)
  BY <1>6 DEF StartFails
<1>7. CASE Launch(r)
  BY <1>7 DEF Launch
<1> QED BY <1>1, <1>2, <1>3, <1>4, <1>5, <1>6, <1>7 DEF Request

\* Cancellers and the process keep what a record says of its worker.
LEMMA OtherRecord ==
  ASSUME "noTask" \notin Windows, OrderInv, AdmissionInv',
         \/ \E r \in Runs, a \in Actions : Cancel(r, a)
         \/ \E r \in Runs, by \in Callers : SaveInterrupted(by, r)
         \/ Shutdown \/ DrainEnds \/ Die \/ Restart
  PROVE  RecordParts'
<1> USE DEF OrderInv, AdmissionInv, TypeOK, IdleIsFresh, TaskLaunched, LockHolder, OneHolder, LiveNotFinalizing,
            UncancelledIsLive, VictimsLaunched, DrainedCancelled, DrainedLaunched, LiveButVictims,
            RecordParts, BegunTraces, TaskIsHeld, TasklessUncancelled, LockPending,
            EarlyStatus, EarlyCancelled, EarlyOutcome, LateSettled,
            DrainedIsDraining, DrainedEarly, Early,
            Live, Terminal, Unlaunched, Goto, TaskActive, Places, Waiting
<1>1. ASSUME NEW r \in Runs, NEW a \in Actions, Cancel(r, a) PROVE RecordParts'
  BY <1>1 DEF Cancel, Interrupt, Free, Strikable, Window
<1>2. ASSUME NEW r \in Runs, NEW by \in Callers, SaveInterrupted(by, r) PROVE RecordParts'
  BY <1>2 DEF SaveInterrupted, SaveRow
<1>3. CASE Shutdown
  <2>1. drained = {} /\ drained' = {r \in Runs : status[r] \in Live /\ TaskActive(r)}
    BY <1>3 DEF Shutdown
  <2>2. \A r \in Runs : cancelReq'[r] = (cancelReq[r] \/ r \in drained')
    BY <1>3, Zenon DEF Shutdown
  <2>3. BegunTraces' /\ TaskIsHeld' /\ TasklessUncancelled' /\ LockPending'
    BY <1>3, <2>1, <2>2 DEF Shutdown
  <2>4. EarlyStatus' /\ EarlyCancelled' /\ EarlyOutcome'
    BY <1>3, <2>1, <2>2 DEF Shutdown
  <2>5. LateSettled' /\ DrainedIsDraining' /\ DrainedEarly'
    BY <1>3, <2>1, <2>2 DEF Shutdown
  <2> QED BY <2>3, <2>4, <2>5
<1>4. CASE DrainEnds
  BY <1>4 DEF DrainEnds, Unsettled, Free
<1>5. CASE Die
  BY <1>5 DEF Die
<1>6. CASE Restart
  BY <1>6 DEF Restart, memory, Orphans
<1> QED BY <1>1, <1>2, <1>3, <1>4, <1>5, <1>6

\* What Settle leaves in the flag of its run.
LEMMA SettleFlag ==
  ASSUME TypeOK, NEW r \in Runs, Settle(r)
  PROVE  finalizing'[r] <=> finalizing[r] \/ outcome[r] = "abort"
<1>1. finalizing \in [Runs -> BOOLEAN]
  BY DEF TypeOK
<1>2. finalizing' = [finalizing EXCEPT ![r] = finalizing[r] \/ outcome[r] = "abort"]
  BY DEF Settle
<1> QED BY <1>1, <1>2, Zenon

\* The steps of a worker keep the order of the runs.
LEMMA WorkerSequence ==
  ASSUME "noTask" \notin Windows, OrderInv, AdmissionInv', RecordParts', NEW r \in Runs, Worker(r)
  PROVE  SequenceParts'
<1> USE DEF OrderInv, AdmissionInv, TypeOK, IdleIsFresh, TaskLaunched, LockHolder, OneHolder, LiveNotFinalizing,
            UncancelledIsLive, VictimsLaunched, DrainedCancelled, DrainedLaunched, LiveButVictims,
            RecordParts, BegunTraces, TaskIsHeld, TasklessUncancelled, LockPending,
            EarlyStatus, EarlyCancelled, EarlyOutcome, LateSettled,
            DrainedIsDraining, DrainedEarly, Early,
            SequenceParts, EarlierBegun, Ordered, EarlierNotLive, VictimsInflight,
            DrainedLast, UnfinishedIsInflight, Finished, Recorded,
            Live, Terminal, Unlaunched, Goto, TaskActive, Places, Waiting
<1>1. CASE NeverStarts(r)
  BY <1>1 DEF NeverStarts
<1>2. CASE Start(r)
  BY <1>2 DEF Start
<1>3. CASE MarkRunning(r)
  BY <1>3 DEF MarkRunning, Free, PriorSettled
<1>4. CASE SaveRunning(r)
  BY <1>4 DEF SaveRunning, SaveRow
<1>5. CASE Snapshot(r)
  BY <1>5 DEF Snapshot
<1>6. CASE StreamStep(r)
  BY <1>6 DEF StreamStep
<1>7. ASSUME NEW o \in {"success", "fallback", "exception", "abort"}, StreamEnds(r, o)
      PROVE  SequenceParts'
  BY <1>7 DEF StreamEnds
<1>8. CASE Settle(r)
  <2>1. /\ task[r] = "finish" /\ ~cancelReq[r] /\ lock = {} /\ task'[r] = "saveOutcome"
        /\ \A q \in Runs \ {r} : /\ status'[q] = status[q] /\ task'[q] = task[q]
                                 /\ finalizing'[q] = finalizing[q]
        /\ UNCHANGED <<earlier, req, victims, lock, outcome, drained>>
    BY <1>8 DEF Settle, Free
  <2>2. status[r] \in Live /\ status'[r] \in {"success", "error", "interrupted"}
    BY <1>8, <2>1 DEF Settle, AbortStatus
  <2>3. outcome[r] = "abort" => finalizing'[r]
    BY <1>8, SettleFlag
  <2>4. outcome[r] # "abort" => outcome[r] # "earlyAbort" /\ status'[r] \in {"success", "error"}
    BY <1>8, <2>1 DEF Settle
  <2>5. EarlierBegun' /\ Ordered' /\ EarlierNotLive' /\ VictimsInflight' /\ DrainedLast'
    BY <2>1, <2>2, SMTT(20)
  <2>6. UnfinishedIsInflight'
    BY <2>1, <2>2, <2>3, <2>4, SMTT(20)
  <2> QED BY <2>5, <2>6
<1>9. CASE Cancelled(r)
  BY <1>9 DEF Cancelled, AbortStatus, Free
<1>10. CASE CancelledInHandler(r)
  BY <1>10 DEF CancelledInHandler
<1>11. CASE SaveOutcome(r)
  BY <1>11 DEF SaveOutcome, SaveRow, RollsBack
<1>12. CASE Rollback(r)
  BY <1>12 DEF Rollback
<1>13. CASE Complete(r)
  BY <1>13 DEF Complete, SaveRow
<1>14. CASE AwaitTitle(r)
  BY <1>14 DEF AwaitTitle, Free, PriorSettled
<1>15. CASE WriteTitle(r)
  BY <1>15 DEF WriteTitle
<1>16. CASE SyncThread(r)
  BY <1>16 DEF SyncThread
<1>17. CASE Release(r)
  BY <1>17 DEF Release, FinalizingAfter, Free
<1> HIDE DEF SequenceParts
<1> QED
  BY <1>1, <1>2, <1>3, <1>4, <1>5, <1>6, <1>7, <1>8, <1>9, <1>10, <1>11, <1>12, <1>13, <1>14,
     <1>15, <1>16, <1>17 DEF Worker

\* The steps of a request keep the order of the runs.
LEMMA RequestSequence ==
  ASSUME "noTask" \notin Windows, OrderInv, AdmissionInv', RecordParts', NEW r \in Runs, Request(r)
  PROVE  SequenceParts'
<1> USE DEF OrderInv, AdmissionInv, TypeOK, IdleIsFresh, TaskLaunched, LockHolder, OneHolder, LiveNotFinalizing,
            UncancelledIsLive, VictimsLaunched, DrainedCancelled, DrainedLaunched, LiveButVictims,
            RecordParts, BegunTraces, TaskIsHeld, TasklessUncancelled, LockPending,
            EarlyStatus, EarlyCancelled, EarlyOutcome, LateSettled,
            DrainedIsDraining, DrainedEarly, Early,
            SequenceParts, EarlierBegun, Ordered, EarlierNotLive, VictimsInflight,
            DrainedLast, UnfinishedIsInflight, Finished, Recorded,
            Live, Terminal, Unlaunched, Goto, TaskActive, Places, Waiting
<1>1. ASSUME NEW s \in Strategies, Admit(r, s) PROVE SequenceParts'
  BY <1>1 DEF Admit, Free, Inflight, Strikable, Window
<1>2. CASE Refuse(r)
  BY <1>2 DEF Refuse
<1>3. CASE Persisted(r)
  BY <1>3 DEF Persisted, Interrupt, ToInterrupt
<1>4. CASE PersistFails(r)
  BY <1>4 DEF PersistFails
<1>5. CASE UpsertThread(r)
  BY <1>5 DEF UpsertThread
<1>6. CASE StartFails(r)
  BY <1>6 DEF StartFails
<1>7. CASE Launch(r)
  BY <1>7 DEF Launch
<1> QED BY <1>1, <1>2, <1>3, <1>4, <1>5, <1>6, <1>7 DEF Request

\* Cancellers and the process keep the order of the runs.
LEMMA OtherSequence ==
  ASSUME "noTask" \notin Windows, OrderInv, AdmissionInv', RecordParts',
         \/ \E r \in Runs, a \in Actions : Cancel(r, a)
         \/ \E r \in Runs, by \in Callers : SaveInterrupted(by, r)
         \/ Shutdown \/ DrainEnds \/ Die \/ Restart
  PROVE  SequenceParts'
<1> USE DEF OrderInv, AdmissionInv, TypeOK, IdleIsFresh, TaskLaunched, LockHolder, OneHolder, LiveNotFinalizing,
            UncancelledIsLive, VictimsLaunched, DrainedCancelled, DrainedLaunched, LiveButVictims,
            RecordParts, BegunTraces, TaskIsHeld, TasklessUncancelled, LockPending,
            EarlyStatus, EarlyCancelled, EarlyOutcome, LateSettled,
            DrainedIsDraining, DrainedEarly, Early,
            SequenceParts, EarlierBegun, Ordered, EarlierNotLive, VictimsInflight,
            DrainedLast, UnfinishedIsInflight, Finished, Recorded,
            Live, Terminal, Unlaunched, Goto, TaskActive, Places, Waiting
<1>1. ASSUME NEW r \in Runs, NEW a \in Actions, Cancel(r, a) PROVE SequenceParts'
  BY <1>1 DEF Cancel, Interrupt, Free, Strikable, Window
<1>2. ASSUME NEW r \in Runs, NEW by \in Callers, SaveInterrupted(by, r) PROVE SequenceParts'
  BY <1>2 DEF SaveInterrupted, SaveRow
<1>3. CASE Shutdown
  BY <1>3 DEF Shutdown, Free
<1>4. CASE DrainEnds
  BY <1>4 DEF DrainEnds, Unsettled, Free
<1>5. CASE Die
  BY <1>5 DEF Die
<1>6. CASE Restart
  BY <1>6 DEF Restart, memory, Orphans
<1> QED BY <1>1, <1>2, <1>3, <1>4, <1>5, <1>6

\* The initial state satisfies the invariant of the order.
LEMMA OrderInit == Init => OrderInv
<1> SUFFICES ASSUME Init PROVE OrderInv
  OBVIOUS
<1>1. AdmissionInv
  BY AdmissionInit
<1>2. RecordParts
  BY DEF Init, InitMemory, RecordParts, BegunTraces, TaskIsHeld, TasklessUncancelled, LockPending,
     EarlyStatus, EarlyCancelled, EarlyOutcome, LateSettled, DrainedIsDraining, DrainedEarly,
     Early, Unlaunched, TaskActive, Places, Waiting
<1>3. SequenceParts
  BY DEF Init, InitMemory, SequenceParts, EarlierBegun, Ordered, EarlierNotLive, VictimsInflight,
     DrainedLast, UnfinishedIsInflight, Recorded, TaskActive, Places, Waiting
<1> QED BY <1>1, <1>2, <1>3 DEF OrderInv

\* Every step keeps the invariant of the order.
LEMMA OrderStep ==
  ASSUME "noTask" \notin Windows, OrderInv, [Next]_vars
  PROVE  OrderInv'
<1>1. AdmissionInv'
  BY AdmissionStep DEF OrderInv
<1>2. CASE Next
  <2>1. RecordParts'
    BY <1>1, <1>2, RequestRecord, WorkerRecord, OtherRecord DEF Next
  <2>2. SequenceParts'
    BY <1>1, <1>2, <2>1, RequestSequence, WorkerSequence, OtherSequence DEF Next
  <2> QED BY <1>1, <2>1, <2>2 DEF OrderInv
<1>3. CASE UNCHANGED vars
  <2>1. RecordParts'
    BY <1>3 DEF OrderInv, vars, memory, RecordParts, BegunTraces, TaskIsHeld, TasklessUncancelled,
       LockPending, EarlyStatus, EarlyCancelled, EarlyOutcome, LateSettled, DrainedIsDraining,
       DrainedEarly, TaskActive
  <2>2. SequenceParts'
    BY <1>3 DEF OrderInv, vars, memory, SequenceParts, EarlierBegun, Ordered, EarlierNotLive,
       VictimsInflight, DrainedLast, UnfinishedIsInflight, Recorded, TaskActive, Finished
  <2> QED BY <1>1, <2>1, <2>2 DEF OrderInv
<1> QED BY <1>2, <1>3

-----------------------------------------------------------------------------
(* Outcomes are final                                                         *)

\* What a step may do to the status of a run that has ended.
OutcomeKept(q) ==
  status[q] \in Terminal /\ status'[q] # status[q]
  => \/ life' = "down"
     \/ status[q] = "interrupted" /\ status'[q] = "error" /\ abort[q] = "rollback"

\* Interrupt only touches runs that were inflight and not cleaning up, hence live ones.
LEMMA InterruptsLive ==
  ASSUME OrderInv, NEW r \in Runs, Persisted(r), NEW q \in Runs, status[q] \notin Live
  PROVE  /\ status'[q] = status[q] /\ finalizing'[q] = finalizing[q]
         /\ abort'[q] = abort[q] /\ owed'[q] = owed[q]
<1>1. r \in lock
  BY DEF Persisted, OrderInv, AdmissionInv, LockHolder
<1>2. q \notin ToInterrupt(r)
  BY <1>1 DEF OrderInv, SequenceParts, VictimsInflight, ToInterrupt
<1> QED BY <1>2 DEF Persisted, Interrupt

\* Outcomes are final: success and error stay, interrupted may only become the error of the
\* rollback that interrupted it.
THEOREM OutcomesAreFinal ==
  ASSUME "noTask" \notin Windows
  PROVE  Spec => OutcomeIsFinal
<1>1. ASSUME OrderInv, [Next]_vars, NEW q \in Runs
      PROVE  OutcomeKept(q)
  <2> USE DEF Terminal
  <2>1. ASSUME NEW r \in Runs, Worker(r) PROVE OutcomeKept(q)
    <3> USE <1>1 DEF OutcomeKept, OrderInv, AdmissionInv, TypeOK, RecordParts, EarlyStatus, Early, Live, Goto
    <3>1. CASE MarkRunning(r)
      BY <3>1 DEF MarkRunning
    <3>2. CASE Settle(r)
      BY <3>2 DEF Settle, AbortStatus
    <3>3. CASE Cancelled(r)
      BY <3>3 DEF Cancelled, AbortStatus
    <3>4. CASE UNCHANGED status
      BY <3>4
    <3>5. \/ MarkRunning(r) \/ Settle(r) \/ Cancelled(r) \/ UNCHANGED status
      BY <2>1 DEF Worker, NeverStarts, Start, SaveRunning, Snapshot, StreamStep, StreamEnds,
         CancelledInHandler, SaveOutcome, Rollback, Complete, AwaitTitle, WriteTitle, SyncThread, Release
    <3> QED BY <3>1, <3>2, <3>3, <3>4, <3>5
  <2>2. ASSUME NEW r \in Runs, Request(r) PROVE OutcomeKept(q)
    <3> USE <1>1 DEF OutcomeKept, OrderInv, AdmissionInv, TypeOK
    <3>1. ASSUME NEW s \in Strategies, Admit(r, s) PROVE OutcomeKept(q)
      BY <3>1 DEF Admit, IdleIsFresh
    <3>2. CASE Persisted(r)
      BY <3>2, InterruptsLive DEF Live
    <3>3. CASE PersistFails(r)
      BY <3>3 DEF PersistFails, RecordParts, LockPending, LockHolder
    <3>4. CASE UNCHANGED status
      BY <3>4
    <3> QED BY <2>2, <3>1, <3>2, <3>3, <3>4 DEF Request, Refuse, UpsertThread, StartFails, Launch
  <2>3. ASSUME NEW r \in Runs, NEW a \in Actions, Cancel(r, a) PROVE OutcomeKept(q)
    BY <1>1, <2>3 DEF OutcomeKept, Cancel, Interrupt, Live
  <2>4. CASE DrainEnds
    BY <1>1, <2>4 DEF OutcomeKept, DrainEnds, Live
  <2>5. CASE Die
    BY <2>5 DEF OutcomeKept, Die
  <2>6. CASE UNCHANGED status
    BY <2>6 DEF OutcomeKept
  <2> QED
    BY <1>1, <2>1, <2>2, <2>3, <2>4, <2>5, <2>6 DEF Next, SaveInterrupted, Shutdown, Restart, vars, memory
<1>2. OrderInv /\ [Next]_vars
      => [\A r \in Runs :
            status[r] \in Terminal /\ status'[r] # status[r]
            => \/ life' = "down"
               \/ status[r] = "interrupted" /\ status'[r] = "error" /\ abort[r] = "rollback"]_vars
  BY <1>1 DEF OutcomeKept
<1> QED BY OrderInit, OrderStep, <1>2, PTL DEF Spec, OutcomeIsFinal
-----------------------------------------------------------------------------
(* The flag finalizing, its workers, and the thread's status                  *)

\* finalizing never reaches a task that might not start, and the runs an admission is about
\* to interrupt have started.
FinalizingStarted == \A r \in Runs : finalizing[r] => TaskActive(r) /\ task[r] # "scheduled"
VictimsStarted == \A r \in lock : \A v \in victims[r] : task[v] # "scheduled"

StartedParts == FinalizingStarted /\ VictimsStarted
StartedInv == OrderInv /\ StartedParts

\* The steps of a worker keep the flag with a started worker.
LEMMA WorkerStarted ==
  ASSUME "noTask" \notin Windows, "unstarted" \notin Windows, StartedInv, AdmissionInv', NEW r \in Runs, Worker(r)
  PROVE  StartedParts'
<1> USE DEF StartedInv, StartedParts, FinalizingStarted, VictimsStarted, OrderInv,
            AdmissionInv, TypeOK, IdleIsFresh, TaskLaunched, LockHolder, OneHolder, LiveNotFinalizing,
            UncancelledIsLive, VictimsLaunched, DrainedCancelled, DrainedLaunched, LiveButVictims,
            RecordParts, BegunTraces, TaskIsHeld, TasklessUncancelled, LockPending,
            EarlyStatus, EarlyCancelled, EarlyOutcome, LateSettled,
            DrainedIsDraining, DrainedEarly, Early,
            Live, Terminal, Unlaunched, Goto, TaskActive, Places, Waiting
<1>1. CASE NeverStarts(r)
  BY <1>1 DEF NeverStarts
<1>2. CASE Start(r)
  BY <1>2 DEF Start
<1>3. CASE MarkRunning(r)
  BY <1>3 DEF MarkRunning, Free, PriorSettled
<1>4. CASE SaveRunning(r)
  BY <1>4 DEF SaveRunning, SaveRow
<1>5. CASE Snapshot(r)
  BY <1>5 DEF Snapshot
<1>6. CASE StreamStep(r)
  BY <1>6 DEF StreamStep
<1>7. ASSUME NEW o \in {"success", "fallback", "exception", "abort"}, StreamEnds(r, o)
      PROVE  StartedParts'
  BY <1>7 DEF StreamEnds
<1>8. CASE Settle(r)
  BY <1>8 DEF Settle, AbortStatus, Free
<1>9. CASE Cancelled(r)
  BY <1>9 DEF Cancelled, AbortStatus, Free
<1>10. CASE CancelledInHandler(r)
  BY <1>10 DEF CancelledInHandler
<1>11. CASE SaveOutcome(r)
  BY <1>11 DEF SaveOutcome, SaveRow, RollsBack
<1>12. CASE Rollback(r)
  BY <1>12 DEF Rollback
<1>13. CASE Complete(r)
  BY <1>13 DEF Complete, SaveRow
<1>14. CASE AwaitTitle(r)
  BY <1>14 DEF AwaitTitle, Free, PriorSettled
<1>15. CASE WriteTitle(r)
  BY <1>15 DEF WriteTitle
<1>16. CASE SyncThread(r)
  BY <1>16 DEF SyncThread
<1>17. CASE Release(r)
  BY <1>17 DEF Release, FinalizingAfter, Free
<1> QED
  BY <1>1, <1>2, <1>3, <1>4, <1>5, <1>6, <1>7, <1>8, <1>9, <1>10, <1>11, <1>12, <1>13, <1>14,
     <1>15, <1>16, <1>17 DEF Worker

\* The steps of a request keep the flag with a started worker.
LEMMA RequestStarted ==
  ASSUME "noTask" \notin Windows, "unstarted" \notin Windows, StartedInv, AdmissionInv', NEW r \in Runs, Request(r)
  PROVE  StartedParts'
<1> USE DEF StartedInv, StartedParts, FinalizingStarted, VictimsStarted, OrderInv,
            AdmissionInv, TypeOK, IdleIsFresh, TaskLaunched, LockHolder, OneHolder, LiveNotFinalizing,
            UncancelledIsLive, VictimsLaunched, DrainedCancelled, DrainedLaunched, LiveButVictims,
            RecordParts, BegunTraces, TaskIsHeld, TasklessUncancelled, LockPending,
            EarlyStatus, EarlyCancelled, EarlyOutcome, LateSettled,
            DrainedIsDraining, DrainedEarly, Early,
            Live, Terminal, Unlaunched, Goto, TaskActive, Places, Waiting
<1>1. ASSUME NEW s \in Strategies, Admit(r, s) PROVE StartedParts'
  BY <1>1 DEF Admit, Free, Inflight, Strikable, Window
<1>2. CASE Refuse(r)
  BY <1>2 DEF Refuse
<1>3. CASE Persisted(r)
  BY <1>3 DEF Persisted, Interrupt, ToInterrupt
<1>4. CASE PersistFails(r)
  BY <1>4 DEF PersistFails
<1>5. CASE UpsertThread(r)
  BY <1>5 DEF UpsertThread
<1>6. CASE StartFails(r)
  BY <1>6 DEF StartFails
<1>7. CASE Launch(r)
  BY <1>7 DEF Launch
<1> QED BY <1>1, <1>2, <1>3, <1>4, <1>5, <1>6, <1>7 DEF Request

\* Cancellers and the process keep the flag with a started worker.
LEMMA OtherStarted ==
  ASSUME "noTask" \notin Windows, "unstarted" \notin Windows, StartedInv, AdmissionInv',
         \/ \E r \in Runs, a \in Actions : Cancel(r, a)
         \/ \E r \in Runs, by \in Callers : SaveInterrupted(by, r)
         \/ Shutdown \/ DrainEnds \/ Die \/ Restart
  PROVE  StartedParts'
<1> USE DEF StartedInv, StartedParts, FinalizingStarted, VictimsStarted, OrderInv,
            AdmissionInv, TypeOK, IdleIsFresh, TaskLaunched, LockHolder, OneHolder, LiveNotFinalizing,
            UncancelledIsLive, VictimsLaunched, DrainedCancelled, DrainedLaunched, LiveButVictims,
            RecordParts, BegunTraces, TaskIsHeld, TasklessUncancelled, LockPending,
            EarlyStatus, EarlyCancelled, EarlyOutcome, LateSettled,
            DrainedIsDraining, DrainedEarly, Early,
            Live, Terminal, Unlaunched, Goto, TaskActive, Places, Waiting
<1>1. ASSUME NEW r \in Runs, NEW a \in Actions, Cancel(r, a) PROVE StartedParts'
  BY <1>1 DEF Cancel, Interrupt, Free, Strikable, Window
<1>2. ASSUME NEW r \in Runs, NEW by \in Callers, SaveInterrupted(by, r) PROVE StartedParts'
  BY <1>2 DEF SaveInterrupted, SaveRow
<1>3. CASE Shutdown
  BY <1>3 DEF Shutdown, Free
<1>4. CASE DrainEnds
  BY <1>4 DEF DrainEnds, Unsettled, Free
<1>5. CASE Die
  BY <1>5 DEF Die
<1>6. CASE Restart
  BY <1>6 DEF Restart, memory, Orphans
<1> QED BY <1>1, <1>2, <1>3, <1>4, <1>5, <1>6

\* The initial state has no flag set.
LEMMA StartedInit == Init => StartedInv
  BY OrderInit DEF Init, InitMemory, StartedInv, StartedParts, FinalizingStarted, VictimsStarted

\* Every step keeps the flag with a started worker.
LEMMA StartedStep ==
  ASSUME "noTask" \notin Windows, "unstarted" \notin Windows, StartedInv, [Next]_vars
  PROVE  StartedInv'
<1>1. OrderInv' /\ AdmissionInv'
  BY OrderStep DEF StartedInv, OrderInv
<1>2. CASE Next
  <2>1. StartedParts'
    BY <1>1, <1>2, RequestStarted, WorkerStarted, OtherStarted DEF Next
  <2> QED BY <1>1, <2>1 DEF StartedInv
<1>3. CASE UNCHANGED vars
  BY <1>1, <1>3 DEF StartedInv, StartedParts, FinalizingStarted, VictimsStarted, vars, memory, TaskActive
<1> QED BY <1>2, <1>3

\* A record that says it is finalizing has a worker that will say when it has finished,
\* provided no cancellation strikes a run without a task or a task before its first step.
THEOREM FinalizingRunsHaveWorkers ==
  ASSUME "noTask" \notin Windows, "unstarted" \notin Windows
  PROVE  Spec => []FinalizingHasWorker
<1>1. StartedInv => FinalizingHasWorker
  BY DEF StartedInv, StartedParts, FinalizingStarted, FinalizingHasWorker
<1> QED BY StartedInit, StartedStep, <1>1, PTL DEF Spec
\* A thread that says "running" has a request about to launch its task, or a worker that has
\* yet to write the status it ends with.
ThreadServed ==
  Undisturbed /\ life = "up" /\ threadStatus = "running"
  => \E r \in Runs : req[r] = "build" \/ (TaskActive(r) /\ task[r] # "release")

\* A process that is down has died, and one that died is not undisturbed.
DownIsDisturbed == life = "down" => restarts > 0

ThreadParts == ThreadServed /\ DownIsDisturbed

\* The steps of a worker keep the thread's status served.
LEMMA WorkerThread ==
  ASSUME "noTask" \notin Windows, "unstarted" \notin Windows, StartedInv, StartedInv', ThreadParts, NEW r \in Runs, Worker(r)
  PROVE  ThreadParts'
<1> USE DEF ThreadParts, ThreadServed, DownIsDisturbed, Undisturbed, StartedInv, StartedParts, FinalizingStarted,
            OrderInv,
            AdmissionInv, TypeOK, IdleIsFresh, TaskLaunched, LockHolder, OneHolder, LiveNotFinalizing,
            UncancelledIsLive, VictimsLaunched, DrainedCancelled, DrainedLaunched, LiveButVictims,
            RecordParts, BegunTraces, TaskIsHeld, TasklessUncancelled, LockPending,
            EarlyStatus, EarlyCancelled, EarlyOutcome, LateSettled,
            DrainedIsDraining, DrainedEarly, Early,
            Live, Terminal, Unlaunched, Goto, TaskActive, Places, Waiting
<1>1. CASE NeverStarts(r)
  <2>1. status[r] \notin Live /\ ~finalizing[r] /\ ~Finished(r) => r \in drained
    BY <1>1 DEF NeverStarts, SequenceParts, UnfinishedIsInflight
  <2>2. life # "up"
    BY <1>1, <2>1 DEF NeverStarts, Finished
  <2> QED BY <1>1, <2>2 DEF NeverStarts
<1>2. CASE Start(r)
  BY <1>2 DEF Start
<1>3. CASE MarkRunning(r)
  BY <1>3 DEF MarkRunning, Free, PriorSettled
<1>4. CASE SaveRunning(r)
  BY <1>4 DEF SaveRunning, SaveRow, Fails
<1>5. CASE Snapshot(r)
  BY <1>5 DEF Snapshot, Fails
<1>6. CASE StreamStep(r)
  BY <1>6 DEF StreamStep
<1>7. ASSUME NEW o \in {"success", "fallback", "exception", "abort"}, StreamEnds(r, o)
      PROVE  ThreadParts'
  BY <1>7 DEF StreamEnds
<1>8. CASE Settle(r)
  BY <1>8 DEF Settle, AbortStatus, Free
<1>9. CASE Cancelled(r)
  BY <1>9 DEF Cancelled, AbortStatus, Free
<1>10. CASE CancelledInHandler(r)
  BY <1>10 DEF CancelledInHandler
<1>11. CASE SaveOutcome(r)
  BY <1>11 DEF SaveOutcome, SaveRow, RollsBack, Fails
<1>12. CASE Rollback(r)
  BY <1>12 DEF Rollback, Fails
<1>13. CASE Complete(r)
  BY <1>13 DEF Complete, SaveRow, Fails
<1>14. CASE AwaitTitle(r)
  BY <1>14 DEF AwaitTitle, Free, PriorSettled
<1>15. CASE WriteTitle(r)
  BY <1>15 DEF WriteTitle
<1>16. CASE SyncThread(r)
  BY <1>16 DEF SyncThread, Fails, SyncedStatus
<1>17. CASE Release(r)
  BY <1>17 DEF Release, FinalizingAfter, Free
<1> QED
  BY <1>1, <1>2, <1>3, <1>4, <1>5, <1>6, <1>7, <1>8, <1>9, <1>10, <1>11, <1>12, <1>13, <1>14,
     <1>15, <1>16, <1>17 DEF Worker

\* The steps of a request keep the thread's status served.
LEMMA RequestThread ==
  ASSUME "noTask" \notin Windows, "unstarted" \notin Windows, StartedInv, StartedInv', ThreadParts, NEW r \in Runs, Request(r)
  PROVE  ThreadParts'
<1> USE DEF ThreadParts, ThreadServed, DownIsDisturbed, Undisturbed, StartedInv, StartedParts, FinalizingStarted,
            OrderInv,
            AdmissionInv, TypeOK, IdleIsFresh, TaskLaunched, LockHolder, OneHolder, LiveNotFinalizing,
            UncancelledIsLive, VictimsLaunched, DrainedCancelled, DrainedLaunched, LiveButVictims,
            RecordParts, BegunTraces, TaskIsHeld, TasklessUncancelled, LockPending,
            EarlyStatus, EarlyCancelled, EarlyOutcome, LateSettled,
            DrainedIsDraining, DrainedEarly, Early,
            Live, Terminal, Unlaunched, Goto, TaskActive, Places, Waiting
<1>1. ASSUME NEW s \in Strategies, Admit(r, s) PROVE ThreadParts'
  BY <1>1 DEF Admit, Free, Inflight, Strikable, Window
<1>2. CASE Refuse(r)
  BY <1>2 DEF Refuse
<1>3. CASE Persisted(r)
  BY <1>3 DEF Persisted, Interrupt, ToInterrupt
<1>4. CASE PersistFails(r)
  BY <1>4 DEF PersistFails, Fails
<1>5. CASE UpsertThread(r)
  BY <1>5 DEF UpsertThread, Fails
<1>6. CASE StartFails(r)
  BY <1>6 DEF StartFails, Fails
<1>7. CASE Launch(r)
  BY <1>7 DEF Launch
<1> QED BY <1>1, <1>2, <1>3, <1>4, <1>5, <1>6, <1>7 DEF Request

\* Cancellers and the process keep the thread's status served.
LEMMA OtherThread ==
  ASSUME "noTask" \notin Windows, "unstarted" \notin Windows, StartedInv, StartedInv', ThreadParts,
         \/ \E r \in Runs, a \in Actions : Cancel(r, a)
         \/ \E r \in Runs, by \in Callers : SaveInterrupted(by, r)
         \/ Shutdown \/ DrainEnds \/ Die \/ Restart
  PROVE  ThreadParts'
<1> USE DEF ThreadParts, ThreadServed, DownIsDisturbed, Undisturbed, StartedInv, StartedParts, FinalizingStarted,
            OrderInv,
            AdmissionInv, TypeOK, IdleIsFresh, TaskLaunched, LockHolder, OneHolder, LiveNotFinalizing,
            UncancelledIsLive, VictimsLaunched, DrainedCancelled, DrainedLaunched, LiveButVictims,
            RecordParts, BegunTraces, TaskIsHeld, TasklessUncancelled, LockPending,
            EarlyStatus, EarlyCancelled, EarlyOutcome, LateSettled,
            DrainedIsDraining, DrainedEarly, Early,
            Live, Terminal, Unlaunched, Goto, TaskActive, Places, Waiting
<1>1. ASSUME NEW r \in Runs, NEW a \in Actions, Cancel(r, a) PROVE ThreadParts'
  BY <1>1, SMTT(20) DEF Cancel, Interrupt, Free, Strikable, Window
<1>2. ASSUME NEW r \in Runs, NEW by \in Callers, SaveInterrupted(by, r) PROVE ThreadParts'
  BY <1>2 DEF SaveInterrupted, SaveRow, Fails
<1>3. CASE Shutdown
  BY <1>3 DEF Shutdown, Free
<1>4. CASE DrainEnds
  BY <1>4 DEF DrainEnds, Unsettled, Free
<1>5. CASE Die
  BY <1>5 DEF Die
<1>6. CASE Restart
  BY <1>6 DEF Restart, memory, Orphans
<1> QED BY <1>1, <1>2, <1>3, <1>4, <1>5, <1>6

\* A thread shown as running has a request or a worker that will change it: with nothing lost,
\* and provided no cancellation strikes a run without a task or a task before its first step.
THEOREM RunningThreadsAreServed ==
  ASSUME "noTask" \notin Windows, "unstarted" \notin Windows
  PROVE  Spec => []RunningThreadHasRun
<1>1. Init => ThreadParts
  BY DEF Init, ThreadParts, ThreadServed, DownIsDisturbed
<1>2. ASSUME StartedInv, ThreadParts, [Next]_vars PROVE ThreadParts'
  <2>1. StartedInv'
    BY <1>2, StartedStep
  <2>2. CASE Next
    BY <1>2, <2>1, <2>2, RequestThread, WorkerThread, OtherThread DEF Next
  <2>3. CASE UNCHANGED vars
    BY <1>2, <2>3 DEF ThreadParts, ThreadServed, DownIsDisturbed, Undisturbed, vars, memory, TaskActive
  <2> QED BY <1>2, <2>2, <2>3
<1>3. ThreadParts => RunningThreadHasRun
  BY DEF ThreadParts, ThreadServed, RunningThreadHasRun
<1> QED BY StartedInit, StartedStep, <1>1, <1>2, <1>3, PTL DEF Spec

\* The one way to a record that says it is finalizing without a worker, whatever is cancelled
\* and when: its task was cancelled before its first step.
THEOREM OnlyUnstartedTasksStick == Spec => [](FinalizingHasWorker \/ Stuck)
<1> DEFINE Sticks == \A r \in Runs : finalizing[r] => TaskActive(r) \/ task[r] = "cancelled"
<1>1. Init => Sticks
  BY DEF Init, InitMemory
<1>2. ASSUME TypeOK, Sticks, [Next]_vars PROVE Sticks'
  <2> USE <1>2 DEF TypeOK, TaskActive, Places, Waiting, Goto
  <2>1. ASSUME NEW r \in Runs, Request(r) PROVE Sticks'
    <3>1. CASE Persisted(r)
      BY <3>1 DEF Persisted, Interrupt
    <3>2. CASE UNCHANGED <<finalizing, task>>
      BY <3>2
    <3>3. CASE Launch(r)
      BY <3>3 DEF Launch
    <3> QED BY <2>1, <3>1, <3>2, <3>3 DEF Request, Admit, Refuse, PersistFails, UpsertThread, StartFails
  <2>2. ASSUME NEW r \in Runs, Worker(r) PROVE Sticks'
    <3>1. CASE Release(r)
      BY <3>1 DEF Release, FinalizingAfter
    <3>2. CASE Settle(r)
      BY <3>2 DEF Settle
    <3>3. CASE Cancelled(r)
      BY <3>3 DEF Cancelled
    <3>4. \/ Release(r) \/ Settle(r) \/ Cancelled(r)
          \/ /\ UNCHANGED finalizing
             /\ \A q \in Runs \ {r} : task'[q] = task[q]
             /\ task'[r] \in Places \cup {"cancelled"}
      BY <2>2 DEF Worker, NeverStarts, Start, MarkRunning, SaveRunning, Snapshot, StreamStep,
         StreamEnds, CancelledInHandler, SaveOutcome, Rollback, Complete, AwaitTitle, WriteTitle, SyncThread
    <3> QED BY <3>1, <3>2, <3>3, <3>4
  <2>3. ASSUME NEW r \in Runs, NEW a \in Actions, Cancel(r, a) PROVE Sticks'
    BY <2>3 DEF Cancel, Interrupt
  <2>4. CASE Die
    BY <2>4 DEF Die
  <2>5. CASE UNCHANGED <<finalizing, task>>
    BY <2>5
  <2> QED
    BY <1>2, <2>1, <2>2, <2>3, <2>4, <2>5
    DEF Next, SaveInterrupted, Shutdown, DrainEnds, Restart, vars, memory
<1>3. Sticks => FinalizingHasWorker \/ Stuck
  BY DEF FinalizingHasWorker, Stuck
<1>4. TypeOK /\ Sticks /\ [Next]_vars => Sticks'
  BY <1>2
<1> HIDE DEF Sticks
<1> QED BY <1>1, <1>3, <1>4, TypeCorrect, PTL DEF Spec
-----------------------------------------------------------------------------
(* Rows and records                                                           *)

\* An active row that no failed write left behind belongs to a run that is held.
HeldInv == TypeOK /\ TaskLaunched /\ TaskIsHeld /\ ActiveRowIsHeld

\* The steps of a worker keep active rows held.
LEMMA WorkerHeld ==
  ASSUME HeldInv, TypeOK', NEW r \in Runs, Worker(r)
  PROVE  HeldInv'
<1> USE DEF HeldInv, TypeOK, TaskLaunched, TaskIsHeld, ActiveRowIsHeld,
            Live, Terminal, Unlaunched, Goto, TaskActive, Places, Waiting
<1>1. CASE NeverStarts(r)
  BY <1>1 DEF NeverStarts
<1>2. CASE Start(r)
  BY <1>2 DEF Start
<1>3. CASE MarkRunning(r)
  BY <1>3 DEF MarkRunning, Free, PriorSettled
<1>4. CASE SaveRunning(r)
  BY <1>4 DEF SaveRunning, SaveRow, Fails
<1>5. CASE Snapshot(r)
  BY <1>5 DEF Snapshot, Fails
<1>6. CASE StreamStep(r)
  BY <1>6 DEF StreamStep
<1>7. ASSUME NEW o \in {"success", "fallback", "exception", "abort"}, StreamEnds(r, o)
      PROVE  HeldInv'
  BY <1>7 DEF StreamEnds
<1>8. CASE Settle(r)
  BY <1>8 DEF Settle, AbortStatus, Free
<1>9. CASE Cancelled(r)
  BY <1>9 DEF Cancelled, AbortStatus, Free
<1>10. CASE CancelledInHandler(r)
  BY <1>10 DEF CancelledInHandler
<1>11. CASE SaveOutcome(r)
  BY <1>11 DEF SaveOutcome, SaveRow, RollsBack, Fails
<1>12. CASE Rollback(r)
  BY <1>12 DEF Rollback, Fails
<1>13. CASE Complete(r)
  BY <1>13 DEF Complete, SaveRow, Fails
<1>14. CASE AwaitTitle(r)
  BY <1>14 DEF AwaitTitle, Free, PriorSettled
<1>15. CASE WriteTitle(r)
  BY <1>15 DEF WriteTitle
<1>16. CASE SyncThread(r)
  BY <1>16 DEF SyncThread, Fails
<1>17. CASE Release(r)
  BY <1>17 DEF Release, FinalizingAfter, Free
<1> QED
  BY <1>1, <1>2, <1>3, <1>4, <1>5, <1>6, <1>7, <1>8, <1>9, <1>10, <1>11, <1>12, <1>13, <1>14,
     <1>15, <1>16, <1>17 DEF Worker

\* The steps of a request keep active rows held.
LEMMA RequestHeld ==
  ASSUME HeldInv, TypeOK', NEW r \in Runs, Request(r)
  PROVE  HeldInv'
<1> USE DEF HeldInv, TypeOK, TaskLaunched, TaskIsHeld, ActiveRowIsHeld,
            Live, Terminal, Unlaunched, Goto, TaskActive, Places, Waiting
<1>1. ASSUME NEW s \in Strategies, Admit(r, s) PROVE HeldInv'
  BY <1>1 DEF Admit, Free, Inflight, Strikable, Window
<1>2. CASE Refuse(r)
  BY <1>2 DEF Refuse
<1>3. CASE Persisted(r)
  BY <1>3 DEF Persisted, Interrupt, ToInterrupt
<1>4. CASE PersistFails(r)
  BY <1>4 DEF PersistFails, Fails
<1>5. CASE UpsertThread(r)
  BY <1>5 DEF UpsertThread, Fails
<1>6. CASE StartFails(r)
  BY <1>6 DEF StartFails, Fails
<1>7. CASE Launch(r)
  BY <1>7 DEF Launch
<1> QED BY <1>1, <1>2, <1>3, <1>4, <1>5, <1>6, <1>7 DEF Request

\* Cancellers and the process keep active rows held.
LEMMA OtherHeld ==
  ASSUME HeldInv, TypeOK',
         \/ \E r \in Runs, a \in Actions : Cancel(r, a)
         \/ \E r \in Runs, by \in Callers : SaveInterrupted(by, r)
         \/ Shutdown \/ DrainEnds \/ Die \/ Restart
  PROVE  HeldInv'
<1> USE DEF HeldInv, TypeOK, TaskLaunched, TaskIsHeld, ActiveRowIsHeld,
            Live, Terminal, Unlaunched, Goto, TaskActive, Places, Waiting
<1>1. ASSUME NEW r \in Runs, NEW a \in Actions, Cancel(r, a) PROVE HeldInv'
  BY <1>1 DEF Cancel, Interrupt, Free, Strikable, Window
<1>2. ASSUME NEW r \in Runs, NEW by \in Callers, SaveInterrupted(by, r) PROVE HeldInv'
  BY <1>2 DEF SaveInterrupted, SaveRow, Fails
<1>3. CASE Shutdown
  BY <1>3 DEF Shutdown, Free
<1>4. CASE DrainEnds
  BY <1>4 DEF DrainEnds, Unsettled, Free
<1>5. CASE Die
  BY <1>5 DEF Die
<1>6. CASE Restart
  <2>1. PICK skipped \in SUBSET Orphans :
          /\ faults' = faults + Cardinality(skipped)
          /\ row' = [r \in Runs |-> IF r \in Orphans \ skipped THEN "error" ELSE row[r]]
    BY <1>6 DEF Restart
  <2>2. IsFiniteSet(skipped) /\ Cardinality(skipped) \in Nat
    BY ConstantsAssumption, FS_Subset, FS_CardinalityType DEF Orphans
  <2>3. faults' = 0 => skipped = {}
    BY <2>1, <2>2, FS_EmptySet
  <2>4. faults' = 0 => \A r \in Runs : row'[r] \notin Live
    BY <2>1, <2>3 DEF Orphans
  <2> QED BY <1>6, <2>4 DEF Restart, memory
<1> QED BY <1>1, <1>2, <1>3, <1>4, <1>5, <1>6

\* Whatever is cancelled and wherever the process dies, a row that says pending or running
\* belongs, while the process is up and no write has failed, to a run the process holds.
THEOREM ActiveRowsAreHeld == Spec => []ActiveRowIsHeld
<1>1. Init => HeldInv
  BY InitTypes DEF Init, InitMemory, HeldInv, TaskLaunched, TaskIsHeld, ActiveRowIsHeld, Live, Unlaunched
<1>2. HeldInv /\ TypeOK' /\ [Next]_vars => HeldInv'
  <2> SUFFICES ASSUME HeldInv, TypeOK', [Next]_vars PROVE HeldInv'
    OBVIOUS
  <2>1. CASE Next
    BY <2>1, RequestHeld, WorkerHeld, OtherHeld DEF Next
  <2>2. CASE UNCHANGED vars
    BY <2>2 DEF HeldInv, TaskLaunched, TaskIsHeld, ActiveRowIsHeld, vars, memory
  <2> QED BY <2>1, <2>2
<1>3. HeldInv => ActiveRowIsHeld
  BY DEF HeldInv
<1> QED BY TypeCorrect, <1>1, <1>2, <1>3, PTL DEF Spec

\* While nothing has failed and nothing shuts down: a write of "interrupted" is owed only to
\* a run that was interrupted; from the saving of its outcome on, the row of a run agrees with
\* its record, or will be overwritten by a write that is still owed, or was overwritten by the
\* late write of the cancel whose rollback has turned the status into an error.
OwedInterrupted(r) ==
  owed[r] # {} => status[r] = "interrupted" \/ (status[r] = "error" /\ abort[r] = "rollback")
EarlyRow(r) ==
  status[r] = "interrupted" /\ task[r] \in Early => owed[r] # {} \/ row[r] = "interrupted"
LateRow(r) ==
  task[r] \in {"rollback", "complete", "awaitTitle", "titling", "syncThread", "release", "done"}
  => \/ owed[r] # {}
     \/ row[r] = status[r]
     \/ row[r] = "interrupted" /\ status[r] = "error" /\ abort[r] = "rollback"
RowsInStep ==
  Undisturbed /\ life = "up" => \A r \in Runs : OwedInterrupted(r) /\ EarlyRow(r) /\ LateRow(r)
RowParts == RowsInStep /\ DownIsDisturbed

\* The steps of a worker keep the rows in step.
LEMMA WorkerRow ==
  ASSUME "noTask" \notin Windows, OrderInv, OrderInv', RowParts, NEW r \in Runs, Worker(r)
  PROVE  RowParts'
<1> USE DEF RowParts, RowsInStep, OwedInterrupted, EarlyRow, LateRow, DownIsDisturbed, Undisturbed, OrderInv,
            AdmissionInv, TypeOK, IdleIsFresh, TaskLaunched, LockHolder, OneHolder, LiveNotFinalizing,
            UncancelledIsLive, VictimsLaunched, DrainedCancelled, DrainedLaunched, LiveButVictims,
            RecordParts, BegunTraces, TaskIsHeld, TasklessUncancelled, LockPending,
            EarlyStatus, EarlyCancelled, EarlyOutcome, LateSettled,
            DrainedIsDraining, DrainedEarly, Early,
            Live, Terminal, Unlaunched, Goto, TaskActive, Places, Waiting
<1>1. CASE NeverStarts(r)
  BY <1>1 DEF NeverStarts
<1>2. CASE Start(r)
  BY <1>2 DEF Start
<1>3. CASE MarkRunning(r)
  BY <1>3 DEF MarkRunning, Free, PriorSettled
<1>4. CASE SaveRunning(r)
  BY <1>4 DEF SaveRunning, SaveRow, Fails
<1>5. CASE Snapshot(r)
  BY <1>5 DEF Snapshot, Fails
<1>6. CASE StreamStep(r)
  BY <1>6 DEF StreamStep
<1>7. ASSUME NEW o \in {"success", "fallback", "exception", "abort"}, StreamEnds(r, o)
      PROVE  RowParts'
  BY <1>7 DEF StreamEnds
<1>8. CASE Settle(r)
  BY <1>8 DEF Settle, AbortStatus, Free
<1>9. CASE Cancelled(r)
  BY <1>9 DEF Cancelled, AbortStatus, Free
<1>10. CASE CancelledInHandler(r)
  BY <1>10 DEF CancelledInHandler
<1>11. CASE SaveOutcome(r)
  BY <1>11 DEF SaveOutcome, SaveRow, RollsBack, Fails
<1>12. CASE Rollback(r)
  BY <1>12 DEF Rollback, Fails
<1>13. CASE Complete(r)
  BY <1>13 DEF Complete, SaveRow, Fails
<1>14. CASE AwaitTitle(r)
  BY <1>14 DEF AwaitTitle, Free, PriorSettled
<1>15. CASE WriteTitle(r)
  BY <1>15 DEF WriteTitle
<1>16. CASE SyncThread(r)
  BY <1>16 DEF SyncThread, Fails
<1>17. CASE Release(r)
  BY <1>17 DEF Release, FinalizingAfter, Free
<1> QED
  BY <1>1, <1>2, <1>3, <1>4, <1>5, <1>6, <1>7, <1>8, <1>9, <1>10, <1>11, <1>12, <1>13, <1>14,
     <1>15, <1>16, <1>17 DEF Worker

\* The steps of a request keep the rows in step.
LEMMA RequestRow ==
  ASSUME "noTask" \notin Windows, OrderInv, OrderInv', RowParts, NEW r \in Runs, Request(r)
  PROVE  RowParts'
<1> USE DEF RowParts, RowsInStep, OwedInterrupted, EarlyRow, LateRow, DownIsDisturbed, Undisturbed, OrderInv,
            AdmissionInv, TypeOK, IdleIsFresh, TaskLaunched, LockHolder, OneHolder, LiveNotFinalizing,
            UncancelledIsLive, VictimsLaunched, DrainedCancelled, DrainedLaunched, LiveButVictims,
            RecordParts, BegunTraces, TaskIsHeld, TasklessUncancelled, LockPending,
            EarlyStatus, EarlyCancelled, EarlyOutcome, LateSettled,
            DrainedIsDraining, DrainedEarly, Early,
            Live, Terminal, Unlaunched, Goto, TaskActive, Places, Waiting
<1>1. ASSUME NEW s \in Strategies, Admit(r, s) PROVE RowParts'
  BY <1>1 DEF Admit, Free, Inflight, Strikable, Window
<1>2. CASE Refuse(r)
  BY <1>2 DEF Refuse
<1>3. CASE Persisted(r)
  BY <1>3, SMTT(20) DEF Persisted, Interrupt, ToInterrupt
<1>4. CASE PersistFails(r)
  BY <1>4 DEF PersistFails, Fails
<1>5. CASE UpsertThread(r)
  BY <1>5 DEF UpsertThread, Fails
<1>6. CASE StartFails(r)
  BY <1>6 DEF StartFails, Fails
<1>7. CASE Launch(r)
  BY <1>7 DEF Launch
<1> QED BY <1>1, <1>2, <1>3, <1>4, <1>5, <1>6, <1>7 DEF Request

\* A cancelled run owes its row, and no other run is touched.
LEMMA CancelRow ==
  ASSUME OrderInv, RowParts, NEW r \in Runs, NEW a \in Actions, Cancel(r, a)
  PROVE  RowParts'
<1>1. /\ owed'[r] # {} /\ status'[r] = "interrupted" /\ UNCHANGED <<task, row, life, faults, restarts>>
      /\ \A q \in Runs \ {r} : owed'[q] = owed[q] /\ status'[q] = status[q] /\ abort'[q] = abort[q]
  BY DEF Cancel, Interrupt, OrderInv, AdmissionInv, TypeOK
<1>2. ASSUME NEW q \in Runs, OwedInterrupted(q) /\ EarlyRow(q) /\ LateRow(q)
      PROVE  (OwedInterrupted(q) /\ EarlyRow(q) /\ LateRow(q))'
  <2>1. CASE q = r
    BY <1>1, <2>1 DEF OwedInterrupted, EarlyRow, LateRow
  <2>2. CASE q # r
    BY <1>1, <1>2, <2>2 DEF OwedInterrupted, EarlyRow, LateRow
  <2>. QED
    BY <2>1, <2>2
<1>. QED
  BY <1>1, <1>2 DEF RowParts, RowsInStep, DownIsDisturbed, Undisturbed

\* Cancellers and the process keep the rows in step.
LEMMA OtherRow ==
  ASSUME "noTask" \notin Windows, OrderInv, OrderInv', RowParts,
         \/ \E r \in Runs, a \in Actions : Cancel(r, a)
         \/ \E r \in Runs, by \in Callers : SaveInterrupted(by, r)
         \/ Shutdown \/ DrainEnds \/ Die \/ Restart
  PROVE  RowParts'
<1> USE DEF RowParts, RowsInStep, OwedInterrupted, EarlyRow, LateRow, DownIsDisturbed, Undisturbed, OrderInv,
            AdmissionInv, TypeOK, IdleIsFresh, TaskLaunched, LockHolder, OneHolder, LiveNotFinalizing,
            UncancelledIsLive, VictimsLaunched, DrainedCancelled, DrainedLaunched, LiveButVictims,
            RecordParts, BegunTraces, TaskIsHeld, TasklessUncancelled, LockPending,
            EarlyStatus, EarlyCancelled, EarlyOutcome, LateSettled,
            DrainedIsDraining, DrainedEarly, Early,
            Live, Terminal, Unlaunched, Goto, TaskActive, Places, Waiting
<1>1. ASSUME NEW r \in Runs, NEW a \in Actions, Cancel(r, a) PROVE RowParts'
  BY <1>1, CancelRow
<1>2. ASSUME NEW r \in Runs, NEW by \in Callers, SaveInterrupted(by, r) PROVE RowParts'
  BY <1>2 DEF SaveInterrupted, SaveRow, Fails
<1>3. CASE Shutdown
  BY <1>3 DEF Shutdown, Free
<1>4. CASE DrainEnds
  BY <1>4 DEF DrainEnds, Unsettled, Free
<1>5. CASE Die
  BY <1>5 DEF Die
<1>6. CASE Restart
  BY <1>6 DEF Restart, memory, Orphans
<1> QED BY <1>1, <1>2, <1>3, <1>4, <1>5, <1>6

\* The row of a run whose worker and whose cancellers are done agrees with the record, as long
\* as the process is not shutting down: no write failed, and no cancellation struck a run
\* without a task.  (The last write of a shutdown may cover the outcome of a run that settles late.)
THEOREM RowsAgree ==
  ASSUME "noTask" \notin Windows
  PROVE  Spec => [](life = "up" => RowAgrees)
<1>1. Init => RowParts
  BY DEF Init, InitMemory, RowParts, RowsInStep, OwedInterrupted, EarlyRow, LateRow, DownIsDisturbed
<1>2. ASSUME OrderInv, RowParts, [Next]_vars PROVE RowParts'
  <2>1. OrderInv'
    BY <1>2, OrderStep
  <2>2. CASE Next
    BY <1>2, <2>1, <2>2, RequestRow, WorkerRow, OtherRow DEF Next
  <2>3. CASE UNCHANGED vars
    BY <1>2, <2>3 DEF RowParts, RowsInStep, OwedInterrupted, EarlyRow, LateRow, DownIsDisturbed,
       Undisturbed, vars, memory
  <2> QED BY <1>2, <2>2, <2>3
<1>3. RowParts => (life = "up" => RowAgrees)
  BY DEF RowParts, RowsInStep, LateRow, RowAgrees
<1> QED BY OrderInit, OrderStep, <1>1, <1>2, <1>3, PTL DEF Spec
-----------------------------------------------------------------------------
(* One writer at a time                                                       *)

\* A rollback reaches a worker that has taken its snapshot, so the abort of a run that never
\* got past its wait is no rollback.
RollbackLate ==
  \A r \in Runs : abort[r] = "rollback" => /\ req[r] \notin Unlaunched \cup {"idle"}
                                           /\ task[r] \notin Waiting /\ outcome[r] # "earlyAbort"
VictimsLate ==
  \A r \in lock : strategy[r] = "rollback" => \A v \in victims[r] : task[v] \notin Waiting
EarlyAbortEnded == \A r \in Runs : outcome[r] = "earlyAbort" => finalizing[r] /\ status[r] \notin Live

LateParts == RollbackLate /\ VictimsLate /\ EarlyAbortEnded
LateInv == StartedInv /\ LateParts

\* The steps of a worker keep rollbacks late.
LEMMA WorkerLate ==
  ASSUME Windows = {}, LateInv, StartedInv', NEW r \in Runs, Worker(r)
  PROVE  LateParts'
<1> USE DEF LateInv, LateParts, RollbackLate, VictimsLate, EarlyAbortEnded, StartedInv, StartedParts,
            FinalizingStarted, VictimsStarted, OrderInv,
            AdmissionInv, TypeOK, IdleIsFresh, TaskLaunched, LockHolder, OneHolder, LiveNotFinalizing,
            UncancelledIsLive, VictimsLaunched, DrainedCancelled, DrainedLaunched, LiveButVictims,
            RecordParts, BegunTraces, TaskIsHeld, TasklessUncancelled, LockPending,
            EarlyStatus, EarlyCancelled, EarlyOutcome, LateSettled,
            DrainedIsDraining, DrainedEarly, Early,
            Live, Terminal, Unlaunched, Goto, TaskActive, Places, Waiting
<1>1. CASE NeverStarts(r)
  BY <1>1 DEF NeverStarts
<1>2. CASE Start(r)
  BY <1>2 DEF Start
<1>3. CASE MarkRunning(r)
  BY <1>3 DEF MarkRunning, Free, PriorSettled
<1>4. CASE SaveRunning(r)
  BY <1>4 DEF SaveRunning, SaveRow
<1>5. CASE Snapshot(r)
  BY <1>5 DEF Snapshot
<1>6. CASE StreamStep(r)
  BY <1>6 DEF StreamStep
<1>7. ASSUME NEW o \in {"success", "fallback", "exception", "abort"}, StreamEnds(r, o)
      PROVE  LateParts'
  BY <1>7 DEF StreamEnds
<1>8. CASE Settle(r)
  BY <1>8 DEF Settle, AbortStatus, Free
<1>9. CASE Cancelled(r)
  BY <1>9 DEF Cancelled, AbortStatus, Free
<1>10. CASE CancelledInHandler(r)
  BY <1>10 DEF CancelledInHandler
<1>11. CASE SaveOutcome(r)
  BY <1>11 DEF SaveOutcome, SaveRow, RollsBack
<1>12. CASE Rollback(r)
  BY <1>12 DEF Rollback
<1>13. CASE Complete(r)
  BY <1>13 DEF Complete, SaveRow
<1>14. CASE AwaitTitle(r)
  BY <1>14 DEF AwaitTitle, Free, PriorSettled
<1>15. CASE WriteTitle(r)
  BY <1>15 DEF WriteTitle
<1>16. CASE SyncThread(r)
  BY <1>16 DEF SyncThread
<1>17. CASE Release(r)
  BY <1>17 DEF Release, FinalizingAfter, Free
<1> QED
  BY <1>1, <1>2, <1>3, <1>4, <1>5, <1>6, <1>7, <1>8, <1>9, <1>10, <1>11, <1>12, <1>13, <1>14,
     <1>15, <1>16, <1>17 DEF Worker

\* The steps of a request keep rollbacks late.
LEMMA RequestLate ==
  ASSUME Windows = {}, LateInv, StartedInv', NEW r \in Runs, Request(r)
  PROVE  LateParts'
<1> USE DEF LateInv, LateParts, RollbackLate, VictimsLate, EarlyAbortEnded, StartedInv, StartedParts,
            FinalizingStarted, VictimsStarted, OrderInv,
            AdmissionInv, TypeOK, IdleIsFresh, TaskLaunched, LockHolder, OneHolder, LiveNotFinalizing,
            UncancelledIsLive, VictimsLaunched, DrainedCancelled, DrainedLaunched, LiveButVictims,
            RecordParts, BegunTraces, TaskIsHeld, TasklessUncancelled, LockPending,
            EarlyStatus, EarlyCancelled, EarlyOutcome, LateSettled,
            DrainedIsDraining, DrainedEarly, Early,
            Live, Terminal, Unlaunched, Goto, TaskActive, Places, Waiting
<1>1. ASSUME NEW s \in Strategies, Admit(r, s) PROVE LateParts'
  BY <1>1 DEF Admit, Free, Inflight, Strikable, Window
<1>2. CASE Refuse(r)
  BY <1>2 DEF Refuse
<1>3. CASE Persisted(r)
  BY <1>3 DEF Persisted, Interrupt, ToInterrupt
<1>4. CASE PersistFails(r)
  BY <1>4 DEF PersistFails
<1>5. CASE UpsertThread(r)
  BY <1>5 DEF UpsertThread
<1>6. CASE StartFails(r)
  BY <1>6 DEF StartFails
<1>7. CASE Launch(r)
  BY <1>7 DEF Launch
<1> QED BY <1>1, <1>2, <1>3, <1>4, <1>5, <1>6, <1>7 DEF Request

\* Cancellers and the process keep rollbacks late.
LEMMA OtherLate ==
  ASSUME Windows = {}, LateInv, StartedInv',
         \/ \E r \in Runs, a \in Actions : Cancel(r, a)
         \/ \E r \in Runs, by \in Callers : SaveInterrupted(by, r)
         \/ Shutdown \/ DrainEnds \/ Die \/ Restart
  PROVE  LateParts'
<1> USE DEF LateInv, LateParts, RollbackLate, VictimsLate, EarlyAbortEnded, StartedInv, StartedParts,
            FinalizingStarted, VictimsStarted, OrderInv,
            AdmissionInv, TypeOK, IdleIsFresh, TaskLaunched, LockHolder, OneHolder, LiveNotFinalizing,
            UncancelledIsLive, VictimsLaunched, DrainedCancelled, DrainedLaunched, LiveButVictims,
            RecordParts, BegunTraces, TaskIsHeld, TasklessUncancelled, LockPending,
            EarlyStatus, EarlyCancelled, EarlyOutcome, LateSettled,
            DrainedIsDraining, DrainedEarly, Early,
            Live, Terminal, Unlaunched, Goto, TaskActive, Places, Waiting
<1>1. ASSUME NEW r \in Runs, NEW a \in Actions, Cancel(r, a) PROVE LateParts'
  BY <1>1 DEF Cancel, Interrupt, Free, Strikable, Window
<1>2. ASSUME NEW r \in Runs, NEW by \in Callers, SaveInterrupted(by, r) PROVE LateParts'
  BY <1>2 DEF SaveInterrupted, SaveRow
<1>3. CASE Shutdown
  BY <1>3 DEF Shutdown, Free
<1>4. CASE DrainEnds
  BY <1>4 DEF DrainEnds, Unsettled, Free
<1>5. CASE Die
  BY <1>5 DEF Die
<1>6. CASE Restart
  BY <1>6 DEF Restart, memory, Orphans
<1> QED BY <1>1, <1>2, <1>3, <1>4, <1>5, <1>6

\* Whoever has begun to write has found all the older runs finished.
PriorFinished ==
  \A r \in Runs : task[r] = "saveRunning" \/ Writes(r) => \A q \in earlier[r] : Finished(q)

\* The steps of a worker keep older runs finished.
LEMMA WorkerPrior ==
  ASSUME Windows = {}, LateInv, LateInv', PriorFinished, NEW r \in Runs, Worker(r)
  PROVE  PriorFinished'
<1> USE DEF LateInv, LateParts, RollbackLate, VictimsLate, EarlyAbortEnded, StartedInv, StartedParts,
            FinalizingStarted, VictimsStarted, OrderInv, PriorFinished, Writes, RollsBack,
            AdmissionInv, TypeOK, IdleIsFresh, TaskLaunched, LockHolder, OneHolder, LiveNotFinalizing,
            UncancelledIsLive, VictimsLaunched, DrainedCancelled, DrainedLaunched, LiveButVictims,
            RecordParts, BegunTraces, TaskIsHeld, TasklessUncancelled, LockPending,
            EarlyStatus, EarlyCancelled, EarlyOutcome, LateSettled,
            DrainedIsDraining, DrainedEarly, Early,
            SequenceParts, EarlierBegun, Ordered, EarlierNotLive, VictimsInflight,
            DrainedLast, UnfinishedIsInflight, Finished, Recorded,
            Live, Terminal, Unlaunched, Goto, TaskActive, Places, Waiting
<1>1. CASE NeverStarts(r)
  BY <1>1 DEF NeverStarts
<1>2. CASE Start(r)
  BY <1>2 DEF Start
<1>3. CASE MarkRunning(r)
  BY <1>3 DEF MarkRunning, Free, PriorSettled
<1>4. CASE SaveRunning(r)
  BY <1>4 DEF SaveRunning, SaveRow
<1>5. CASE Snapshot(r)
  BY <1>5 DEF Snapshot
<1>6. CASE StreamStep(r)
  BY <1>6 DEF StreamStep
<1>7. ASSUME NEW o \in {"success", "fallback", "exception", "abort"}, StreamEnds(r, o)
      PROVE  PriorFinished'
  BY <1>7 DEF StreamEnds
<1>8. CASE Settle(r)
  BY <1>8 DEF Settle, AbortStatus, Free
<1>9. CASE Cancelled(r)
  BY <1>9 DEF Cancelled, AbortStatus, Free
<1>10. CASE CancelledInHandler(r)
  BY <1>10 DEF CancelledInHandler
<1>11. CASE SaveOutcome(r)
  BY <1>11 DEF SaveOutcome, SaveRow, RollsBack
<1>12. CASE Rollback(r)
  BY <1>12 DEF Rollback
<1>13. CASE Complete(r)
  BY <1>13 DEF Complete, SaveRow
<1>14. CASE AwaitTitle(r)
  BY <1>14 DEF AwaitTitle, Free, PriorSettled
<1>15. CASE WriteTitle(r)
  BY <1>15 DEF WriteTitle
<1>16. CASE SyncThread(r)
  BY <1>16 DEF SyncThread
<1>17. CASE Release(r)
  BY <1>17 DEF Release, FinalizingAfter, Free
<1> HIDE DEF PriorFinished
<1> QED
  BY <1>1, <1>2, <1>3, <1>4, <1>5, <1>6, <1>7, <1>8, <1>9, <1>10, <1>11, <1>12, <1>13, <1>14,
     <1>15, <1>16, <1>17 DEF Worker

\* The steps of a request keep older runs finished.
LEMMA RequestPrior ==
  ASSUME Windows = {}, LateInv, LateInv', PriorFinished, NEW r \in Runs, Request(r)
  PROVE  PriorFinished'
<1> USE DEF LateInv, LateParts, RollbackLate, VictimsLate, EarlyAbortEnded, StartedInv, StartedParts,
            FinalizingStarted, VictimsStarted, OrderInv, PriorFinished, Writes, RollsBack,
            AdmissionInv, TypeOK, IdleIsFresh, TaskLaunched, LockHolder, OneHolder, LiveNotFinalizing,
            UncancelledIsLive, VictimsLaunched, DrainedCancelled, DrainedLaunched, LiveButVictims,
            RecordParts, BegunTraces, TaskIsHeld, TasklessUncancelled, LockPending,
            EarlyStatus, EarlyCancelled, EarlyOutcome, LateSettled,
            DrainedIsDraining, DrainedEarly, Early,
            SequenceParts, EarlierBegun, Ordered, EarlierNotLive, VictimsInflight,
            DrainedLast, UnfinishedIsInflight, Finished, Recorded,
            Live, Terminal, Unlaunched, Goto, TaskActive, Places, Waiting
<1>1. ASSUME NEW s \in Strategies, Admit(r, s) PROVE PriorFinished'
  BY <1>1 DEF Admit, Free, Inflight, Strikable, Window
<1>2. CASE Refuse(r)
  BY <1>2 DEF Refuse
<1>3. CASE Persisted(r)
  <2>1. \A q \in Runs : status[q] \notin Live => status'[q] = status[q] /\ abort'[q] = abort[q]
    BY <1>3, InterruptsLive DEF LateInv, StartedInv
  <2>2. /\ UNCHANGED <<earlier, task, outcome>>
        /\ req[r] = "persist" /\ req'[r] = "upsert" /\ \A q \in Runs \ {r} : req'[q] = req[q]
    BY <1>3 DEF Persisted
  <2>3. \A q \in Runs : Finished(q) => Finished(q)'
    BY <2>1, <2>2
  <2>4. \A q \in Runs : Writes(q)' => Writes(q)
    BY <2>1, <2>2
  <2> QED BY <2>2, <2>3, <2>4
<1>4. CASE PersistFails(r)
  BY <1>4 DEF PersistFails
<1>5. CASE UpsertThread(r)
  BY <1>5 DEF UpsertThread
<1>6. CASE StartFails(r)
  BY <1>6 DEF StartFails
<1>7. CASE Launch(r)
  BY <1>7 DEF Launch
<1> QED BY <1>1, <1>2, <1>3, <1>4, <1>5, <1>6, <1>7 DEF Request

\* A late run that is still live has met an exception.
LEMMA LateLive ==
  ASSUME OrderInv, NEW r \in Runs, task[r] \in {"saveOutcome", "rollback"}, status[r] \in Live
  PROVE  outcome[r] = "exception"
<1>1. TaskActive(r) /\ task[r] \notin Early
  BY DEF TaskActive, Early, Places
<1> QED BY <1>1 DEF OrderInv, RecordParts, LateSettled

\* A step that only strikes live runs makes no writer and unfinishes nobody.
LEMMA StrikesLive ==
  ASSUME OrderInv, PriorFinished, UNCHANGED <<task, outcome, earlier, req>>,
         \A r \in Runs : status[r] \notin Live => status'[r] = status[r] /\ abort'[r] = abort[r]
  PROVE  PriorFinished'
<1>1. ASSUME NEW r \in Runs, Writes(r)' PROVE Writes(r)
  <2>1. CASE task[r] \in {"saveOutcome", "rollback"} /\ status[r] \in Live
    BY <1>1, <2>1, LateLive DEF Writes, RollsBack
  <2>2. CASE ~(task[r] \in {"saveOutcome", "rollback"} /\ status[r] \in Live)
    BY <1>1, <2>2 DEF Writes, RollsBack
  <2> QED BY <2>1, <2>2
<1>2. ASSUME NEW r \in Runs, Finished(r) PROVE Finished(r)'
  BY <1>2 DEF Finished, Live
<1> QED BY <1>1, <1>2 DEF PriorFinished, OrderInv, AdmissionInv, TypeOK

\* Cancellers and the process keep older runs finished.
LEMMA OtherPrior ==
  ASSUME Windows = {}, LateInv, LateInv', PriorFinished,
         \/ \E r \in Runs, a \in Actions : Cancel(r, a)
         \/ \E r \in Runs, by \in Callers : SaveInterrupted(by, r)
         \/ Shutdown \/ DrainEnds \/ Die \/ Restart
  PROVE  PriorFinished'
<1> USE DEF LateInv, LateParts, RollbackLate, VictimsLate, EarlyAbortEnded, StartedInv, StartedParts,
            FinalizingStarted, VictimsStarted, OrderInv, PriorFinished, Writes, RollsBack,
            AdmissionInv, TypeOK, IdleIsFresh, TaskLaunched, LockHolder, OneHolder, LiveNotFinalizing,
            UncancelledIsLive, VictimsLaunched, DrainedCancelled, DrainedLaunched, LiveButVictims,
            RecordParts, BegunTraces, TaskIsHeld, TasklessUncancelled, LockPending,
            EarlyStatus, EarlyCancelled, EarlyOutcome, LateSettled,
            DrainedIsDraining, DrainedEarly, Early,
            SequenceParts, EarlierBegun, Ordered, EarlierNotLive, VictimsInflight,
            DrainedLast, UnfinishedIsInflight, Finished, Recorded,
            Live, Terminal, Unlaunched, Goto, TaskActive, Places, Waiting
<1>1. ASSUME NEW r \in Runs, NEW a \in Actions, Cancel(r, a) PROVE PriorFinished'
  <2>1. /\ UNCHANGED <<task, outcome, earlier, req>>
        /\ \A q \in Runs : status[q] \notin Live => status'[q] = status[q] /\ abort'[q] = abort[q]
    BY <1>1 DEF Cancel, Interrupt
  <2> QED BY <2>1, StrikesLive
<1>2. ASSUME NEW r \in Runs, NEW by \in Callers, SaveInterrupted(by, r) PROVE PriorFinished'
  BY <1>2 DEF SaveInterrupted, SaveRow
<1>3. CASE Shutdown
  BY <1>3 DEF Shutdown, Free
<1>4. CASE DrainEnds
  <2>1. /\ UNCHANGED <<task, outcome, earlier, req>>
        /\ \A q \in Runs : status[q] \notin Live => status'[q] = status[q] /\ abort'[q] = abort[q]
    BY <1>4 DEF DrainEnds
  <2> QED BY <2>1, StrikesLive
<1>5. CASE Die
  BY <1>5 DEF Die
<1>6. CASE Restart
  BY <1>6 DEF Restart, memory, Orphans
<1> QED BY <1>1, <1>2, <1>3, <1>4, <1>5, <1>6

\* The initial state satisfies both.
LEMMA WriterInit == Init => LateInv /\ PriorFinished
<1> SUFFICES ASSUME Init PROVE LateInv /\ PriorFinished
  OBVIOUS
<1>1. LateParts
  BY DEF Init, InitMemory, LateParts, RollbackLate, VictimsLate, EarlyAbortEnded
<1>2. PriorFinished
  BY DEF Init, InitMemory, PriorFinished, Writes
<1> QED BY <1>1, <1>2, StartedInit DEF LateInv

\* Every step keeps both.
LEMMA WriterStep ==
  ASSUME Windows = {}, LateInv, PriorFinished, [Next]_vars
  PROVE  LateInv' /\ PriorFinished'
<1>1. StartedInv'
  BY StartedStep DEF LateInv
<1>2. CASE Next
  <2>1. LateParts'
    BY <1>1, <1>2, RequestLate, WorkerLate, OtherLate DEF Next
  <2>2. LateInv'
    BY <1>1, <2>1 DEF LateInv
  <2>3. PriorFinished'
    BY <1>2, <2>2, RequestPrior, WorkerPrior, OtherPrior DEF Next
  <2> QED BY <2>2, <2>3
<1>3. CASE UNCHANGED vars
  <2>1. LateParts'
    BY <1>3 DEF LateInv, LateParts, RollbackLate, VictimsLate, EarlyAbortEnded, vars, memory
  <2>2. PriorFinished'
    BY <1>3 DEF PriorFinished, Writes, RollsBack, Finished, vars, memory
  <2> QED BY <1>1, <2>1, <2>2 DEF LateInv
<1> QED BY <1>2, <1>3

\* Two runs that may write are the same run.
LEMMA WritersAgree ==
  ASSUME LateInv, PriorFinished
  PROVE  SingleWriter
<1> SUFFICES ASSUME NEW q \in Runs, NEW r \in Runs, Writes(q), Writes(r), q # r PROVE FALSE
  BY DEF SingleWriter
<1>1. q \in Recorded /\ r \in Recorded
  BY DEF Recorded, LateInv, StartedInv, OrderInv, RecordParts, TaskIsHeld, Writes
<1>2. q \in earlier[r] \/ r \in earlier[q]
  BY <1>1 DEF LateInv, StartedInv, OrderInv, SequenceParts, Ordered
<1>3. Finished(q) \/ Finished(r)
  BY <1>2 DEF PriorFinished
<1> QED BY <1>3 DEF Finished, Writes, RollsBack

\* Two runs of a thread never work on its checkpoint at the same time, the cleanup of a
\* cancelled run included, provided no cancellation strikes one of the early windows.
THEOREM WritersAreSingle ==
  ASSUME Windows = {}
  PROVE  Spec => []SingleWriter
  BY WriterInit, WriterStep, WritersAgree, PTL DEF Spec

-----------------------------------------------------------------------------
(* A rollback undoes its own run and no other                                 *)

\* The checkpoint holds nothing of a run that has not begun to stream.
UnstreamedAbsent ==
  \A r \in Runs : req[r] \in Unlaunched \cup {"idle"} \/ task[r] \in Waiting
                  => r \notin head /\ \A q \in Runs : r \notin snap[q]

\* Between its snapshot and the end of its rollback nobody but the run itself adds to it.
SnapshotKept ==
  \A r \in Runs : task[r] \in {"stream", "finish"} \/ (task[r] \in {"saveOutcome", "rollback"} /\ RollsBack(r))
                  => snapFailed[r] \/ head \ {r} \subseteq snap[r]
SnapshotOfOthers == \A r \in Runs : r \notin snap[r]
SnapshotFault == \A r \in Runs : snapFailed[r] => faults > 0
RollbackRollsBack == \A r \in Runs : task[r] = "rollback" => RollsBack(r)

SnapParts == UnstreamedAbsent /\ SnapshotKept /\ SnapshotOfOthers /\ SnapshotFault /\ RollbackRollsBack
\* The steps of a worker keep the snapshots.
LEMMA WorkerSnap ==
  ASSUME Windows = {}, LateInv, SingleWriter, SnapParts, TypeOK', NEW r \in Runs, Worker(r)
  PROVE  SnapParts'
<1> USE DEF LateInv, LateParts, RollbackLate, VictimsLate, EarlyAbortEnded, StartedInv, StartedParts,
            OrderInv, SingleWriter, Writes, RollsBack,
            SnapParts, UnstreamedAbsent, SnapshotKept, SnapshotOfOthers, SnapshotFault, RollbackRollsBack,
            AdmissionInv, TypeOK, IdleIsFresh, TaskLaunched, LockHolder, OneHolder, LiveNotFinalizing,
            UncancelledIsLive, VictimsLaunched, DrainedCancelled, DrainedLaunched, LiveButVictims,
            RecordParts, BegunTraces, TaskIsHeld, TasklessUncancelled, LockPending,
            EarlyStatus, EarlyCancelled, EarlyOutcome, LateSettled,
            DrainedIsDraining, DrainedEarly, Early,
            Live, Terminal, Unlaunched, Goto, TaskActive, Places, Waiting
<1>1. CASE NeverStarts(r)
  BY <1>1 DEF NeverStarts
<1>2. CASE Start(r)
  BY <1>2 DEF Start
<1>3. CASE MarkRunning(r)
  BY <1>3 DEF MarkRunning, Free, PriorSettled
<1>4. CASE SaveRunning(r)
  BY <1>4 DEF SaveRunning, SaveRow, Fails, RolledBackHead
<1>5. CASE Snapshot(r)
  <2>1. /\ task[r] = "snapshot" /\ task'[r] = "stream" /\ faults \in Nat
        /\ \A q \in Runs \ {r} : task'[q] = task[q]
        /\ UNCHANGED <<req, outcome, abort, head>>
    BY <1>5 DEF Snapshot
  <2>2. CASE snap' = [snap EXCEPT ![r] = head] /\ UNCHANGED <<snapFailed, faults>>
    BY <2>1, <2>2
  <2>3. CASE Fails("checkpoint") /\ snapFailed' = [snapFailed EXCEPT ![r] = TRUE] /\ UNCHANGED snap
    BY <2>1, <2>3 DEF Fails
  <2> QED BY <1>5, <2>2, <2>3 DEF Snapshot
<1>6. CASE StreamStep(r)
  BY <1>6 DEF StreamStep
<1>7. ASSUME NEW o \in {"success", "fallback", "exception", "abort"}, StreamEnds(r, o)
      PROVE  SnapParts'
  BY <1>7 DEF StreamEnds
<1>8. CASE Settle(r)
  BY <1>8 DEF Settle, AbortStatus, Free
<1>9. CASE Cancelled(r)
  BY <1>9 DEF Cancelled, AbortStatus, Free
<1>10. CASE CancelledInHandler(r)
  BY <1>10 DEF CancelledInHandler
<1>11. CASE SaveOutcome(r)
  BY <1>11 DEF SaveOutcome, SaveRow, RollsBack, Fails, RolledBackHead
<1>12. CASE Rollback(r)
  BY <1>12 DEF Rollback, Fails, RolledBackHead
<1>13. CASE Complete(r)
  BY <1>13 DEF Complete, SaveRow, Fails, RolledBackHead
<1>14. CASE AwaitTitle(r)
  BY <1>14 DEF AwaitTitle, Free, PriorSettled
<1>15. CASE WriteTitle(r)
  BY <1>15 DEF WriteTitle
<1>16. CASE SyncThread(r)
  BY <1>16 DEF SyncThread, Fails, RolledBackHead
<1>17. CASE Release(r)
  BY <1>17 DEF Release, FinalizingAfter, Free
<1> HIDE DEF SnapParts
<1> QED
  BY <1>1, <1>2, <1>3, <1>4, <1>5, <1>6, <1>7, <1>8, <1>9, <1>10, <1>11, <1>12, <1>13, <1>14,
     <1>15, <1>16, <1>17 DEF Worker

\* The steps of a request keep the snapshots.
LEMMA RequestSnap ==
  ASSUME Windows = {}, LateInv, SingleWriter, SnapParts, TypeOK', NEW r \in Runs, Request(r)
  PROVE  SnapParts'
<1> USE DEF LateInv, LateParts, RollbackLate, VictimsLate, EarlyAbortEnded, StartedInv, StartedParts,
            OrderInv, SingleWriter, Writes, RollsBack,
            SnapParts, UnstreamedAbsent, SnapshotKept, SnapshotOfOthers, SnapshotFault, RollbackRollsBack,
            AdmissionInv, TypeOK, IdleIsFresh, TaskLaunched, LockHolder, OneHolder, LiveNotFinalizing,
            UncancelledIsLive, VictimsLaunched, DrainedCancelled, DrainedLaunched, LiveButVictims,
            RecordParts, BegunTraces, TaskIsHeld, TasklessUncancelled, LockPending,
            EarlyStatus, EarlyCancelled, EarlyOutcome, LateSettled,
            DrainedIsDraining, DrainedEarly, Early,
            Live, Terminal, Unlaunched, Goto, TaskActive, Places, Waiting
<1>1. ASSUME NEW s \in Strategies, Admit(r, s) PROVE SnapParts'
  BY <1>1 DEF Admit, Free, Inflight, Strikable, Window
<1>2. CASE Refuse(r)
  BY <1>2 DEF Refuse
<1>3. CASE Persisted(r)
  <2>1. \A q \in Runs : status[q] \notin Live => abort'[q] = abort[q]
    BY <1>3, InterruptsLive DEF LateInv, StartedInv
  <2>2. /\ UNCHANGED <<task, outcome, head, snap, snapFailed, faults>>
        /\ req[r] = "persist" /\ req'[r] = "upsert" /\ \A q \in Runs \ {r} : req'[q] = req[q]
    BY <1>3 DEF Persisted
  <2>3. \A q \in Runs : task[q] \in {"saveOutcome", "rollback"} => (RollsBack(q)' <=> RollsBack(q))
    BY <2>1, <2>2, SMTT(20)
  <2> QED BY <2>2, <2>3, SMTT(20)
<1>4. CASE PersistFails(r)
  BY <1>4 DEF PersistFails, Fails
<1>5. CASE UpsertThread(r)
  BY <1>5 DEF UpsertThread, Fails
<1>6. CASE StartFails(r)
  BY <1>6 DEF StartFails, Fails
<1>7. CASE Launch(r)
  BY <1>7 DEF Launch
<1> QED BY <1>1, <1>2, <1>3, <1>4, <1>5, <1>6, <1>7 DEF Request

\* Cancellers and the process keep the snapshots.
LEMMA OtherSnap ==
  ASSUME Windows = {}, LateInv, SingleWriter, SnapParts, TypeOK',
         \/ \E r \in Runs, a \in Actions : Cancel(r, a)
         \/ \E r \in Runs, by \in Callers : SaveInterrupted(by, r)
         \/ Shutdown \/ DrainEnds \/ Die \/ Restart
  PROVE  SnapParts'
<1> USE DEF LateInv, LateParts, RollbackLate, VictimsLate, EarlyAbortEnded, StartedInv, StartedParts,
            OrderInv, SingleWriter, Writes, RollsBack,
            SnapParts, UnstreamedAbsent, SnapshotKept, SnapshotOfOthers, SnapshotFault, RollbackRollsBack,
            AdmissionInv, TypeOK, IdleIsFresh, TaskLaunched, LockHolder, OneHolder, LiveNotFinalizing,
            UncancelledIsLive, VictimsLaunched, DrainedCancelled, DrainedLaunched, LiveButVictims,
            RecordParts, BegunTraces, TaskIsHeld, TasklessUncancelled, LockPending,
            EarlyStatus, EarlyCancelled, EarlyOutcome, LateSettled,
            DrainedIsDraining, DrainedEarly, Early,
            Live, Terminal, Unlaunched, Goto, TaskActive, Places, Waiting
<1>1. ASSUME NEW r \in Runs, NEW a \in Actions, Cancel(r, a) PROVE SnapParts'
  BY <1>1 DEF Cancel, Interrupt, Free, Strikable, Window
<1>2. ASSUME NEW r \in Runs, NEW by \in Callers, SaveInterrupted(by, r) PROVE SnapParts'
  BY <1>2 DEF SaveInterrupted, SaveRow, Fails
<1>3. CASE Shutdown
  BY <1>3 DEF Shutdown, Free
<1>4. CASE DrainEnds
  BY <1>4 DEF DrainEnds, Unsettled, Free
<1>5. CASE Die
  BY <1>5 DEF Die
<1>6. CASE Restart
  <2>1. PICK skipped \in SUBSET Orphans : faults' = faults + Cardinality(skipped)
    BY <1>6 DEF Restart
  <2>2. Cardinality(skipped) \in Nat
    BY ConstantsAssumption, FS_Subset, FS_CardinalityType DEF Orphans
  <2> QED BY <1>6, <2>1, <2>2 DEF Restart, memory
<1> QED BY <1>1, <1>2, <1>3, <1>4, <1>5, <1>6

\* A run's work leaves the checkpoint only if that very run was asked to roll back, and a rollback
\* that succeeds leaves none of it, provided no cancellation strikes one of the early windows.
THEOREM RollbacksUndoTheirOwn ==
  ASSUME Windows = {}
  PROVE  Spec => OnlyOwnWorkUndone
<1> DEFINE Undone(r) ==
      /\ r \in head \ head' => abort[r] = "rollback"
      /\ task[r] = "rollback" /\ task'[r] = "complete" /\ faults' = 0 => r \notin head'
<1>1. Init => SnapParts
  BY DEF Init, InitMemory, SnapParts, UnstreamedAbsent, SnapshotKept, SnapshotOfOthers,
     SnapshotFault, RollbackRollsBack
<1>2. ASSUME LateInv, PriorFinished, SnapParts, [Next]_vars PROVE SnapParts'
  <2>1. SingleWriter /\ TypeOK'
    BY <1>2, WritersAgree, WriterStep DEF LateInv, StartedInv, OrderInv, AdmissionInv
  <2>2. CASE Next
    BY <1>2, <2>1, <2>2, RequestSnap, WorkerSnap, OtherSnap DEF Next
  <2>3. CASE UNCHANGED vars
    BY <1>2, <2>3 DEF SnapParts, UnstreamedAbsent, SnapshotKept, SnapshotOfOthers, SnapshotFault,
       RollbackRollsBack, RollsBack, vars, memory
  <2> QED BY <1>2, <2>2, <2>3
<1>3. ASSUME LateInv, SnapParts, [Next]_vars, NEW q \in Runs PROVE Undone(q)
  <2> USE <1>3
  <2>1. TypeOK
    BY DEF LateInv, StartedInv, OrderInv, AdmissionInv
  <2>2. ASSUME NEW r \in Runs, Rollback(r) PROVE Undone(q)
    <3>1. task[r] = "rollback" /\ task'[r] = "complete" /\ \A x \in Runs \ {r} : task'[x] = task[x]
      BY <2>1, <2>2 DEF Rollback, Goto, TypeOK
    <3>2. RollsBack(r) /\ (snapFailed[r] \/ head \ {r} \subseteq snap[r])
      BY <3>1 DEF SnapParts, SnapshotKept, RollbackRollsBack
    <3>3. r \notin snap[r] /\ (snapFailed[r] => faults > 0)
      BY DEF SnapParts, SnapshotOfOthers, SnapshotFault
    <3>4. CASE head' = RolledBackHead(r) /\ faults' = faults
      BY <2>1, <3>1, <3>2, <3>3, <3>4 DEF RolledBackHead, RollsBack, TypeOK
    <3>5. CASE head' = head /\ Fails("checkpoint")
      BY <2>1, <3>1, <3>5 DEF Fails, TypeOK
    <3> QED BY <2>2, <3>4, <3>5 DEF Rollback
  <2>3. CASE head \subseteq head' /\ (task[q] = "rollback" => task'[q] # "complete")
    BY <2>3
  <2>4. ASSUME NEW r \in Runs, Worker(r), ~Rollback(r)
        PROVE  head \subseteq head' /\ (task[q] = "rollback" => task'[q] # "complete")
    BY <2>1, <2>4 DEF TypeOK, Goto, Worker, NeverStarts, Start, MarkRunning, SaveRunning, Snapshot,
       StreamStep, StreamEnds, Settle, Cancelled, CancelledInHandler, SaveOutcome, Complete,
       AwaitTitle, WriteTitle, SyncThread, Release
  <2>5. ASSUME NEW r \in Runs, Request(r)
        PROVE  head \subseteq head' /\ (task[q] = "rollback" => task'[q] # "complete")
    BY <2>1, <2>5 DEF TypeOK, Goto, Request, Admit, Refuse, Persisted, PersistFails, UpsertThread,
       StartFails, Launch
  <2>6. ASSUME \/ \E r \in Runs, a \in Actions : Cancel(r, a)
               \/ \E r \in Runs, by \in Callers : SaveInterrupted(by, r)
               \/ Shutdown \/ DrainEnds \/ Die \/ Restart \/ UNCHANGED vars
        PROVE  head \subseteq head' /\ (task[q] = "rollback" => task'[q] # "complete")
    BY <2>6 DEF Cancel, SaveInterrupted, Shutdown, DrainEnds, Die, Restart, vars, memory
  <2> QED BY <2>2, <2>3, <2>4, <2>5, <2>6 DEF Next
<1>4. LateInv /\ PriorFinished /\ SnapParts /\ [Next]_vars => SnapParts'
  BY <1>2
<1>5. LateInv /\ SnapParts /\ [Next]_vars
      => [\A r \in Runs :
            /\ r \in head \ head' => abort[r] = "rollback"
            /\ task[r] = "rollback" /\ task'[r] = "complete" /\ faults' = 0 => r \notin head']_vars
  BY <1>3
<1> QED BY WriterInit, WriterStep, <1>1, <1>4, <1>5, PTL DEF Spec, OnlyOwnWorkUndone
=============================================================================
