-------------------------- MODULE SchedulerProofs --------------------------
(* The tables of the scheduler, for any number of tasks and dispatches, any   *)
(* limit and any number of failures, deaths and edits.                        *)
EXTENDS Scheduler, FiniteSetTheorems, TLAPS

Places == {"unused", "over"} \cup InProgress

\* A run that has ended has an outcome, and one that never was has none.
Hooked ==
  \A r \in Rows : /\ agent[r] \in {"ended", "rowSaved"} => outcome[r] \in Outcomes
                  /\ agent[r] = "none" => outcome[r] = "none"

-----------------------------------------------------------------------------
(* Types *)

\* Where a dispatch goes on keeps the types of its locals.
LEMMA GotoTypes ==
    ASSUME TypeOK, NEW r \in Rows, NEW place \in Places, Goto(r, place)
    PROVE  /\ step' \in [Rows -> Places] /\ seen' \in [Rows -> TaskStatus] /\ ahead' \in SUBSET Rows
           /\ step' = [step EXCEPT ![r] = place]
<1>1. "enabled" \in TaskStatus
  BY DEF TaskStatus
<1>. QED
  BY <1>1 DEF TypeOK, Goto, Places

\* update_after_launch keeps the types of the task.
LEMMA TaskTypes ==
    ASSUME TypeOK, NEW t \in Tasks, NEW r \in Rows, NEW s \in TaskStatus, UpdateTask(t, r, s)
    PROVE  /\ status' \in [Tasks -> TaskStatus]
           /\ lease' \in [Tasks -> {"none", "held", "expired"}]
           /\ nextAt' \in [Tasks -> {"none", "future", "due"}]
BY DEF TypeOK, UpdateTask, NextAt

\* The statuses that a dispatch writes.
LEMMA Written ==
    ASSUME TypeOK, NEW t \in Tasks, NEW r \in Rows
    PROVE  /\ BookedTask(t, r) \in TaskStatus /\ FailedTask(t, r) \in TaskStatus
           /\ SkippedTask(t) \in TaskStatus
           /\ BookedRow(r) \in {"running"} \cup TerminalRow
BY DEF TypeOK, BookedTask, FailedTask, SkippedTask, BookedRow, TaskStatus, TerminalTask

\* Every step keeps the types.
LEMMA TypesStep ==
    ASSUME TypeOK, Hooked, [Next]_vars
    PROVE  TypeOK'
<1>. USE DEF tasks, dispatch, run, poll, bounds
<1>1. ASSUME CountActive PROVE TypeOK'
  <2>1. budget' \in 0 .. Limit
    <3>1. Limit \in Nat /\ Cardinality(ActiveRows) \in Nat
      BY SchedulerAssumption, FS_Subset, FS_CardinalityType DEF ActiveRows
    <3>. QED
      BY <1>1, <3>1 DEF CountActive, RemainingBudget
  <2>. QED
    BY <1>1, <2>1 DEF CountActive, TypeOK
<1>2. ASSUME Claim PROVE TypeOK'
  <2>1. budget' \in 0 .. Limit
    BY <1>2, SchedulerAssumption DEF Claim
  <2>2. claimed' \in SUBSET Tasks
    BY <1>2 DEF Claim, Claimable
  <2>3. status' \in [Tasks -> TaskStatus] /\ lease' \in [Tasks -> {"none", "held", "expired"}]
    BY <1>2 DEF Claim, TypeOK, TaskStatus
  <2>. QED
    BY <1>2, <2>1, <2>2, <2>3 DEF Claim, TypeOK
<1>3. ASSUME PollEnds PROVE TypeOK'
  BY <1>3 DEF PollEnds, TypeOK
<1>4. ASSUME NEW t \in Tasks, NEW r \in Rows, DispatchNext(t, r) PROVE TypeOK'
  <2>1. step' \in [Rows -> Places] /\ rows' \in [Tasks -> SUBSET Rows]
    BY <1>4 DEF DispatchNext, Begin, TypeOK, Places, InProgress
  <2>. QED
    BY <1>4, <2>1 DEF DispatchNext, TypeOK, Places
<1>5. ASSUME NEW t \in Tasks, Tick(t) PROVE TypeOK'
  BY <1>5 DEF Tick, TypeOK
<1>6. ASSUME NEW t \in Tasks, Expire(t) PROVE TypeOK'
  BY <1>6 DEF Expire, TypeOK
<1>7. ASSUME NEW e \in Edits, NEW t \in Tasks, EditReads(e, t) PROVE TypeOK'
  <2>1. editor' \in [edit : Edits, task : Edited, status : TaskStatus]
    <3>1. t \in Edited /\ status[t] \in TaskStatus
      BY <1>7 DEF EditReads, TypeOK
    <3>. QED
      BY <1>7, <3>1 DEF EditReads
  <2>. QED
    BY <1>7, <2>1 DEF EditReads, TypeOK
<1>8. ASSUME NEW t \in Tasks, NEW r \in Rows, Trigger(t, r) PROVE TypeOK'
  <2>1. step' \in [Rows -> Places] /\ rows' \in [Tasks -> SUBSET Rows]
    BY <1>8 DEF Trigger, Begin, TypeOK, Places, InProgress
  <2>2. seen' \in [Rows -> TaskStatus] /\ ahead' \in SUBSET Rows
    BY <1>8 DEF Trigger, TypeOK
  <2>. QED
    BY <1>8, <2>1, <2>2 DEF Trigger, TypeOK, Places
<1>9. ASSUME NEW t \in Tasks, NEW r \in Rows, Check(t, r) PROVE TypeOK'
  <2>1. \E place \in Places : Goto(r, place)
    BY <1>9 DEF Check, Places, InProgress, Booking, Failing, Skipping
  <2>2. step' \in [Rows -> Places] /\ seen' \in [Rows -> TaskStatus] /\ ahead' \in SUBSET Rows
    BY <2>1, GotoTypes
  <2>. QED
    BY <1>9, <2>2 DEF Check, Places, TypeOK
<1>10. ASSUME NEW t \in Tasks, NEW r \in Rows, Create(t, r) PROVE TypeOK'
  <2>1. \E place \in Places : Goto(r, place)
    BY <1>10 DEF Create, Places, InProgress, Booking, Failing, Skipping
  <2>2. step' \in [Rows -> Places] /\ seen' \in [Rows -> TaskStatus] /\ ahead' \in SUBSET Rows
    BY <2>1, GotoTypes
  <2>3. row' \in [Rows -> {"absent"} \cup Active \cup TerminalRow]
    BY <1>10, Written DEF Create, TypeOK, Active, TerminalRow
  <2>. QED
    BY <1>10, <2>2, <2>3 DEF Create, Places, TypeOK
<1>11. ASSUME NEW t \in Tasks, NEW r \in Rows, Launch(t, r) PROVE TypeOK'
  <2>1. \E place \in Places : Goto(r, place)
    BY <1>11 DEF Launch, Places, InProgress, Booking, Failing, Skipping
  <2>2. step' \in [Rows -> Places] /\ seen' \in [Rows -> TaskStatus] /\ ahead' \in SUBSET Rows
    BY <2>1, GotoTypes
  <2>. QED
    BY <1>11, <2>2 DEF Launch, Places, TypeOK
<1>12. ASSUME NEW t \in Tasks, NEW r \in Rows, LaunchConflicts(t, r) PROVE TypeOK'
  <2>1. \E place \in Places : Goto(r, place)
    BY <1>12 DEF LaunchConflicts, Places, InProgress, Booking, Failing, Skipping
  <2>2. step' \in [Rows -> Places] /\ seen' \in [Rows -> TaskStatus] /\ ahead' \in SUBSET Rows
    BY <2>1, GotoTypes
  <2>. QED
    BY <1>12, <2>2 DEF LaunchConflicts, Places, TypeOK
<1>13. ASSUME NEW t \in Tasks, NEW r \in Rows, BookRow(t, r) PROVE TypeOK'
  <2>1. \E place \in Places : Goto(r, place)
    BY <1>13 DEF BookRow, Places, InProgress, Booking, Failing, Skipping
  <2>2. step' \in [Rows -> Places] /\ seen' \in [Rows -> TaskStatus] /\ ahead' \in SUBSET Rows
    BY <2>1, GotoTypes
  <2>3. row' \in [Rows -> {"absent"} \cup Active \cup TerminalRow]
    BY <1>13, Written DEF BookRow, TypeOK, Active, TerminalRow
  <2>. QED
    BY <1>13, <2>2, <2>3 DEF BookRow, Places, TypeOK
<1>14. ASSUME NEW t \in Tasks, NEW r \in Rows, BookTask(t, r) PROVE TypeOK'
  <2>1. \E place \in Places : Goto(r, place)
    BY <1>14 DEF BookTask, Places, InProgress, Booking, Failing, Skipping
  <2>2. step' \in [Rows -> Places] /\ seen' \in [Rows -> TaskStatus] /\ ahead' \in SUBSET Rows
    BY <2>1, GotoTypes
  <2>3. /\ status' \in [Tasks -> TaskStatus]
        /\ lease' \in [Tasks -> {"none", "held", "expired"}]
        /\ nextAt' \in [Tasks -> {"none", "future", "due"}]
    BY <1>14, Written, TaskTypes DEF BookTask
  <2>. QED
    BY <1>14, <2>2, <2>3 DEF BookTask, Places, TypeOK
<1>15. ASSUME NEW t \in Tasks, NEW r \in Rows, SaveFailed(t, r) PROVE TypeOK'
  <2>1. \E place \in Places : Goto(r, place)
    BY <1>15 DEF SaveFailed, Places, InProgress, Booking, Failing, Skipping
  <2>2. step' \in [Rows -> Places] /\ seen' \in [Rows -> TaskStatus] /\ ahead' \in SUBSET Rows
    BY <2>1, GotoTypes
  <2>3. row' \in [Rows -> {"absent"} \cup Active \cup TerminalRow]
    BY <1>15, Written DEF SaveFailed, TypeOK, Active, TerminalRow
  <2>. QED
    BY <1>15, <2>2, <2>3 DEF SaveFailed, Places, TypeOK
<1>16. ASSUME NEW t \in Tasks, NEW r \in Rows, FailTask(t, r) PROVE TypeOK'
  <2>1. \E place \in Places : Goto(r, place)
    BY <1>16 DEF FailTask, Places, InProgress, Booking, Failing, Skipping
  <2>2. step' \in [Rows -> Places] /\ seen' \in [Rows -> TaskStatus] /\ ahead' \in SUBSET Rows
    BY <2>1, GotoTypes
  <2>3. /\ status' \in [Tasks -> TaskStatus]
        /\ lease' \in [Tasks -> {"none", "held", "expired"}]
        /\ nextAt' \in [Tasks -> {"none", "future", "due"}]
    BY <1>16, Written, TaskTypes DEF FailTask
  <2>. QED
    BY <1>16, <2>2, <2>3 DEF FailTask, Places, TypeOK
<1>17. ASSUME NEW t \in Tasks, NEW r \in Rows, SaveSkipped(t, r) PROVE TypeOK'
  <2>1. \E place \in Places : Goto(r, place)
    BY <1>17 DEF SaveSkipped, Places, InProgress, Booking, Failing, Skipping
  <2>2. step' \in [Rows -> Places] /\ seen' \in [Rows -> TaskStatus] /\ ahead' \in SUBSET Rows
    BY <2>1, GotoTypes
  <2>3. row' \in [Rows -> {"absent"} \cup Active \cup TerminalRow]
    BY <1>17, Written DEF SaveSkipped, TypeOK, Active, TerminalRow
  <2>. QED
    BY <1>17, <2>2, <2>3 DEF SaveSkipped, Places, TypeOK
<1>18. ASSUME NEW t \in Tasks, NEW r \in Rows, SkipTask(t, r) PROVE TypeOK'
  <2>1. \E place \in Places : Goto(r, place)
    BY <1>18 DEF SkipTask, Places, InProgress, Booking, Failing, Skipping
  <2>2. step' \in [Rows -> Places] /\ seen' \in [Rows -> TaskStatus] /\ ahead' \in SUBSET Rows
    BY <2>1, GotoTypes
  <2>3. /\ status' \in [Tasks -> TaskStatus]
        /\ lease' \in [Tasks -> {"none", "held", "expired"}]
        /\ nextAt' \in [Tasks -> {"none", "future", "due"}]
    BY <1>18, Written, TaskTypes DEF SkipTask
  <2>. QED
    BY <1>18, <2>2, <2>3 DEF SkipTask, Places, TypeOK
<1>19. ASSUME NEW r \in Rows, NEW o \in Outcomes, RunEnds(r, o) PROVE TypeOK'
  BY <1>19 DEF RunEnds, TypeOK
<1>20. ASSUME NEW r \in Rows, HookRow(r) PROVE TypeOK'
  <2>1. outcome[r] \in TerminalRow
    <3>1. agent[r] = "ended"
      BY <1>20 DEF HookRow
    <3>2. outcome[r] \in Outcomes
      BY <1>20, <3>1 DEF Hooked
    <3>. QED
      BY <3>2 DEF Outcomes, TerminalRow
  <2>. QED
    BY <1>20, <2>1 DEF HookRow, TypeOK
<1>21. ASSUME NEW t \in Tasks, NEW r \in Rows, HookTask(t, r) PROVE TypeOK'
  <2>1. status' \in [Tasks -> TaskStatus]
    <3>1. {"completed", "cancelled", "failed"} \subseteq TaskStatus
      BY DEF TaskStatus, TerminalTask
    <3>. DEFINE s == CASE outcome[r] = "success" -> "completed"
                       [] outcome[r] = "interrupted" -> "cancelled"
                       [] OTHER -> "failed"
    <3>2. s \in TaskStatus
      BY <3>1
    <3>3. status' = IF t \notin Once THEN status ELSE [status EXCEPT ![t] = s]
      BY <1>21 DEF HookTask
    <3>. HIDE DEF s
    <3>. QED
      BY <3>2, <3>3 DEF TypeOK
  <2>. QED
    BY <1>21, <2>1 DEF HookTask, TypeOK
<1>22. ASSUME NEW r \in Rows, LaunchFails(r) PROVE TypeOK'
  <2>1. \E place \in Places : Goto(r, place)
    BY <1>22 DEF LaunchFails, Places, InProgress, Booking, Failing, Skipping
  <2>2. step' \in [Rows -> Places] /\ seen' \in [Rows -> TaskStatus] /\ ahead' \in SUBSET Rows
    BY <2>1, GotoTypes
  <2>. QED
    BY <1>22, <2>2 DEF LaunchFails, Fails, Places, TypeOK
<1>23. ASSUME NEW r \in Rows, Raise(r) PROVE TypeOK'
  <2>1. \E place \in Places : Goto(r, place)
    BY <1>23 DEF Raise, Places, InProgress, Booking, Failing, Skipping
  <2>2. step' \in [Rows -> Places] /\ seen' \in [Rows -> TaskStatus] /\ ahead' \in SUBSET Rows
    BY <2>1, GotoTypes
  <2>3. claimed' \in SUBSET Tasks
    BY <1>23 DEF Raise, TypeOK
  <2>. QED
    BY <1>23, <2>2, <2>3 DEF Raise, Fails, Places, TypeOK
<1>24. ASSUME NEW r \in Rows, HookFails(r) PROVE TypeOK'
  BY <1>24 DEF HookFails, Fails, TypeOK
<1>25. ASSUME EditWrites PROVE TypeOK'
  <2>1. editor \in [edit : Edits, task : Edited, status : TaskStatus]
    BY <1>25 DEF EditWrites, TypeOK
  <2>2. editor.task \in Tasks
    BY <2>1, SchedulerAssumption
  <2>. DEFINE t == editor.task
              s == CASE editor.edit = "pause" -> "paused"
                     [] editor.edit = "resume" -> "enabled"
                     [] OTHER -> IF editor.status \in TerminalTask THEN "enabled" ELSE status[t]
  <2>3. s \in TaskStatus
    BY <2>2 DEF TaskStatus, TypeOK
  <2>4. status' = [status EXCEPT ![t] = s]
    BY <1>25 DEF EditWrites
  <2>5. nextAt' \in [Tasks -> {"none", "future", "due"}]
    BY <1>25, <2>2 DEF EditWrites, TypeOK
  <2>. HIDE DEF s, t
  <2>6. status' \in [Tasks -> TaskStatus]
    BY <2>3, <2>4 DEF TypeOK
  <2>. QED
    BY <1>25, <2>5, <2>6 DEF EditWrites, TypeOK
<1>26. ASSUME Die PROVE TypeOK'
  <2>1. step' \in [Rows -> Places] /\ seen' \in [Rows -> TaskStatus]
    BY <1>26 DEF Die, TypeOK, Places, TaskStatus
  <2>2. agent' \in [Rows -> {"none", "live", "ended", "rowSaved", "done"}]
    BY <1>26 DEF Die, TypeOK
  <2>3. budget' \in 0 .. Limit /\ restarts' \in Nat
    BY <1>26, SchedulerAssumption DEF Die, TypeOK
  <2>. QED
    BY <1>26, <2>1, <2>2, <2>3 DEF Die, TypeOK, Places
<1>27. ASSUME Restart PROVE TypeOK'
  <2>1. PICK sweeps \in SUBSET {"rows", "tasks"} : faults' \in {faults, faults + 2 - Cardinality(sweeps)}
    BY <1>27 DEF Restart
  <2>2. Cardinality(sweeps) \in Nat /\ Cardinality(sweeps) <= 2
    <3>1. IsFiniteSet({"rows"} \cup {"tasks"}) /\ Cardinality({"rows"} \cup {"tasks"}) = 1 + 1
      <4>1. IsFiniteSet({"rows"}) /\ Cardinality({"rows"}) = 1 /\ "tasks" \notin {"rows"}
        BY FS_Singleton
      <4>. QED
        BY <4>1, FS_AddElement, Zenon
    <3>2. sweeps \in SUBSET ({"rows"} \cup {"tasks"})
      OBVIOUS
    <3>3. IsFiniteSet(sweeps) /\ Cardinality(sweeps) <= Cardinality({"rows"} \cup {"tasks"})
      BY <3>1, <3>2, FS_Subset
    <3>4. Cardinality(sweeps) \in Nat
      BY <3>3, FS_CardinalityType
    <3>. QED
      BY <3>1, <3>3, <3>4
  <2>3. faults' \in Nat
    BY <2>1, <2>2 DEF TypeOK
  <2>4. row' \in [Rows -> {"absent"} \cup Active \cup TerminalRow]
    BY <1>27 DEF Restart, TypeOK, TerminalRow
  <2>5. status' \in [Tasks -> TaskStatus]
    BY <1>27 DEF Restart, TypeOK, TaskStatus, TerminalTask
  <2>. QED
    BY <1>27, <2>3, <2>4, <2>5 DEF Restart, TypeOK
<1>28. ASSUME UNCHANGED vars PROVE TypeOK'
  BY <1>28 DEF vars, TypeOK
<1>. QED
  BY <1>1, <1>2, <1>3, <1>4, <1>5, <1>6, <1>7, <1>8, <1>9, <1>10, <1>11, <1>12, <1>13,
     <1>14, <1>15, <1>16, <1>17, <1>18, <1>19, <1>20, <1>21, <1>22, <1>23, <1>24, <1>25,
     <1>26, <1>27, <1>28
  DEF Next, Poller, Dispatch, Completion

\* Every step keeps the outcomes.
LEMMA HookedStep ==
    ASSUME TypeOK, Hooked, [Next]_vars
    PROVE  Hooked'
<1>. USE DEF tasks, dispatch, run, poll, bounds
<1>1. ASSUME CountActive PROVE Hooked'
  BY <1>1 DEF CountActive, Hooked, TypeOK
<1>2. ASSUME Claim PROVE Hooked'
  BY <1>2 DEF Claim, Hooked, TypeOK
<1>3. ASSUME PollEnds PROVE Hooked'
  BY <1>3 DEF PollEnds, Hooked, TypeOK
<1>4. ASSUME NEW t \in Tasks, NEW r \in Rows, DispatchNext(t, r) PROVE Hooked'
  BY <1>4 DEF DispatchNext, Begin, Hooked, TypeOK
<1>5. ASSUME NEW t \in Tasks, Tick(t) PROVE Hooked'
  BY <1>5 DEF Tick, Hooked, TypeOK
<1>6. ASSUME NEW t \in Tasks, Expire(t) PROVE Hooked'
  BY <1>6 DEF Expire, Hooked, TypeOK
<1>7. ASSUME NEW e \in Edits, NEW t \in Tasks, EditReads(e, t) PROVE Hooked'
  BY <1>7 DEF EditReads, Hooked, TypeOK
<1>8. ASSUME NEW t \in Tasks, NEW r \in Rows, Trigger(t, r) PROVE Hooked'
  BY <1>8 DEF Trigger, Begin, Hooked, TypeOK
<1>9. ASSUME NEW t \in Tasks, NEW r \in Rows, Check(t, r) PROVE Hooked'
  BY <1>9 DEF Check, Hooked, TypeOK
<1>10. ASSUME NEW t \in Tasks, NEW r \in Rows, Create(t, r) PROVE Hooked'
  BY <1>10 DEF Create, Hooked, TypeOK
<1>11. ASSUME NEW t \in Tasks, NEW r \in Rows, Launch(t, r) PROVE Hooked'
  BY <1>11 DEF Launch, Hooked, TypeOK
<1>12. ASSUME NEW t \in Tasks, NEW r \in Rows, LaunchConflicts(t, r) PROVE Hooked'
  BY <1>12 DEF LaunchConflicts, Hooked, TypeOK
<1>13. ASSUME NEW t \in Tasks, NEW r \in Rows, BookRow(t, r) PROVE Hooked'
  BY <1>13 DEF BookRow, Hooked, TypeOK
<1>14. ASSUME NEW t \in Tasks, NEW r \in Rows, BookTask(t, r) PROVE Hooked'
  BY <1>14 DEF BookTask, Hooked, TypeOK
<1>15. ASSUME NEW t \in Tasks, NEW r \in Rows, SaveFailed(t, r) PROVE Hooked'
  BY <1>15 DEF SaveFailed, Hooked, TypeOK
<1>16. ASSUME NEW t \in Tasks, NEW r \in Rows, FailTask(t, r) PROVE Hooked'
  BY <1>16 DEF FailTask, Hooked, TypeOK
<1>17. ASSUME NEW t \in Tasks, NEW r \in Rows, SaveSkipped(t, r) PROVE Hooked'
  BY <1>17 DEF SaveSkipped, Hooked, TypeOK
<1>18. ASSUME NEW t \in Tasks, NEW r \in Rows, SkipTask(t, r) PROVE Hooked'
  BY <1>18 DEF SkipTask, Hooked, TypeOK
<1>19. ASSUME NEW r \in Rows, NEW o \in Outcomes, RunEnds(r, o) PROVE Hooked'
  BY <1>19 DEF RunEnds, Hooked, TypeOK
<1>20. ASSUME NEW r \in Rows, HookRow(r) PROVE Hooked'
  BY <1>20 DEF HookRow, Hooked, TypeOK
<1>21. ASSUME NEW t \in Tasks, NEW r \in Rows, HookTask(t, r) PROVE Hooked'
  BY <1>21 DEF HookTask, Hooked, TypeOK
<1>22. ASSUME NEW r \in Rows, LaunchFails(r) PROVE Hooked'
  BY <1>22 DEF LaunchFails, Fails, Hooked, TypeOK
<1>23. ASSUME NEW r \in Rows, Raise(r) PROVE Hooked'
  BY <1>23 DEF Raise, Fails, Hooked, TypeOK
<1>24. ASSUME NEW r \in Rows, HookFails(r) PROVE Hooked'
  BY <1>24 DEF HookFails, Fails, Hooked, TypeOK
<1>25. ASSUME EditWrites PROVE Hooked'
  BY <1>25 DEF EditWrites, Hooked, TypeOK
<1>26. ASSUME Die PROVE Hooked'
  BY <1>26 DEF Die, Hooked, TypeOK
<1>27. ASSUME Restart PROVE Hooked'
  BY <1>27 DEF Restart, Hooked, TypeOK
<1>28. ASSUME UNCHANGED vars PROVE Hooked'
  BY <1>28 DEF vars, Hooked, TypeOK
<1>. QED
  BY <1>1, <1>2, <1>3, <1>4, <1>5, <1>6, <1>7, <1>8, <1>9, <1>10, <1>11, <1>12, <1>13,
     <1>14, <1>15, <1>16, <1>17, <1>18, <1>19, <1>20, <1>21, <1>22, <1>23, <1>24, <1>25,
     <1>26, <1>27, <1>28
  DEF Next, Poller, Dispatch, Completion
-----------------------------------------------------------------------------
(* Rows and steps *)

Early == {"unused", "check", "create", "createSkip"}

\* A dispatch has no row before create, and no run before its launch.
Begun ==
  \A r \in Rows : /\ step[r] \in Early => row[r] = "absent"
                  /\ step[r] \in Early \cup {"launch"} => agent[r] = "none"
                  /\ step[r] \in InProgress \ Early => row[r] # "absent"
                  /\ r \in scheduled => step[r] # "unused"

\* Every step keeps that order.
LEMMA BegunStep ==
    ASSUME TypeOK, Hooked, Begun, [Next]_vars
    PROVE  Begun'
<1>. USE DEF tasks, dispatch, run, poll, bounds, Early, InProgress, Booking, Failing, Skipping
<1>1. ASSUME CountActive PROVE Begun'
  BY <1>1 DEF CountActive, Begun, TypeOK
<1>2. ASSUME Claim PROVE Begun'
  BY <1>2 DEF Claim, Begun, TypeOK
<1>3. ASSUME PollEnds PROVE Begun'
  BY <1>3 DEF PollEnds, Begun, TypeOK
<1>4. ASSUME NEW t \in Tasks, NEW r \in Rows, DispatchNext(t, r) PROVE Begun'
  BY <1>4 DEF DispatchNext, Begin, Begun, TypeOK
<1>5. ASSUME NEW t \in Tasks, Tick(t) PROVE Begun'
  BY <1>5 DEF Tick, Begun, TypeOK
<1>6. ASSUME NEW t \in Tasks, Expire(t) PROVE Begun'
  BY <1>6 DEF Expire, Begun, TypeOK
<1>7. ASSUME NEW e \in Edits, NEW t \in Tasks, EditReads(e, t) PROVE Begun'
  BY <1>7 DEF EditReads, Begun, TypeOK
<1>8. ASSUME NEW t \in Tasks, NEW r \in Rows, Trigger(t, r) PROVE Begun'
  BY <1>8 DEF Trigger, Begin, Begun, TypeOK
<1>9. ASSUME NEW t \in Tasks, NEW r \in Rows, Check(t, r) PROVE Begun'
  BY <1>9 DEF Check, Goto, Begun, TypeOK
<1>10. ASSUME NEW t \in Tasks, NEW r \in Rows, Create(t, r) PROVE Begun'
  BY <1>10 DEF Create, Goto, Begun, TypeOK
<1>11. ASSUME NEW t \in Tasks, NEW r \in Rows, Launch(t, r) PROVE Begun'
  BY <1>11 DEF Launch, Goto, Begun, TypeOK
<1>12. ASSUME NEW t \in Tasks, NEW r \in Rows, LaunchConflicts(t, r) PROVE Begun'
  BY <1>12 DEF LaunchConflicts, Goto, Begun, TypeOK
<1>13. ASSUME NEW t \in Tasks, NEW r \in Rows, BookRow(t, r) PROVE Begun'
  BY <1>13 DEF BookRow, Goto, BookedRow, TerminalRow, Begun, TypeOK
<1>14. ASSUME NEW t \in Tasks, NEW r \in Rows, BookTask(t, r) PROVE Begun'
  BY <1>14 DEF BookTask, Goto, Begun, TypeOK
<1>15. ASSUME NEW t \in Tasks, NEW r \in Rows, SaveFailed(t, r) PROVE Begun'
  BY <1>15 DEF SaveFailed, Goto, Begun, TypeOK
<1>16. ASSUME NEW t \in Tasks, NEW r \in Rows, FailTask(t, r) PROVE Begun'
  BY <1>16 DEF FailTask, Goto, Begun, TypeOK
<1>17. ASSUME NEW t \in Tasks, NEW r \in Rows, SaveSkipped(t, r) PROVE Begun'
  BY <1>17 DEF SaveSkipped, Goto, Begun, TypeOK
<1>18. ASSUME NEW t \in Tasks, NEW r \in Rows, SkipTask(t, r) PROVE Begun'
  BY <1>18 DEF SkipTask, Goto, Begun, TypeOK
<1>19. ASSUME NEW r \in Rows, NEW o \in Outcomes, RunEnds(r, o) PROVE Begun'
  BY <1>19 DEF RunEnds, Begun, TypeOK
<1>20. ASSUME NEW r \in Rows, HookRow(r) PROVE Begun'
  BY <1>20 DEF HookRow, Hooked, Outcomes, Begun, TypeOK
<1>21. ASSUME NEW t \in Tasks, NEW r \in Rows, HookTask(t, r) PROVE Begun'
  BY <1>21 DEF HookTask, Begun, TypeOK
<1>22. ASSUME NEW r \in Rows, LaunchFails(r) PROVE Begun'
  BY <1>22 DEF LaunchFails, Fails, Goto, Begun, TypeOK
<1>23. ASSUME NEW r \in Rows, Raise(r) PROVE Begun'
  BY <1>23 DEF Raise, Fails, Goto, Begun, TypeOK
<1>24. ASSUME NEW r \in Rows, HookFails(r) PROVE Begun'
  BY <1>24 DEF HookFails, Fails, Begun, TypeOK
<1>25. ASSUME EditWrites PROVE Begun'
  BY <1>25 DEF EditWrites, Begun, TypeOK
<1>26. ASSUME Die PROVE Begun'
  BY <1>26 DEF Die, Begun, TypeOK
<1>27. ASSUME Restart PROVE Begun'
  BY <1>27 DEF Restart, Stale, ActiveRows, Active, Begun, TypeOK
<1>28. ASSUME UNCHANGED vars PROVE Begun'
  BY <1>28 DEF vars, Begun, TypeOK
<1>. QED
  BY <1>1, <1>2, <1>3, <1>4, <1>5, <1>6, <1>7, <1>8, <1>9, <1>10, <1>11, <1>12, <1>13,
     <1>14, <1>15, <1>16, <1>17, <1>18, <1>19, <1>20, <1>21, <1>22, <1>23, <1>24, <1>25,
     <1>26, <1>27, <1>28
  DEF Next, Poller, Dispatch, Completion

-----------------------------------------------------------------------------
(* The cap of the poller *)

\* The rows that count against the cap, and the dispatches of the poller that have none yet.
Waits(r) == r \in scheduled /\ (row[r] \in Active \/ step[r] \in {"check", "create", "createSkip"})
Pending == {r \in Rows : Waits(r)}

\* What the poller may still launch in this round.
Room == CASE poller = "claim" -> budget
          [] poller = "dispatch" -> Cardinality(claimed)
          [] OTHER -> 0

Capped ==
  /\ poller # "dispatch" => ~Dispatching
  /\ Cardinality(Pending) + Room <= Limit

\* Nobody but DispatchNext adds to the pending dispatches.
LEMMA NothingPending ==
    ASSUME TypeOK, Hooked, Begun, [Next]_vars,
           \A t \in Tasks, r \in Rows : ~DispatchNext(t, r),
           NEW q \in Rows, Waits(q)'
    PROVE  Waits(q)
<1>. USE DEF tasks, dispatch, run, poll, bounds, Waits
<1>1. ASSUME CountActive PROVE Waits(q)
  BY <1>1 DEF CountActive, TypeOK
<1>2. ASSUME Claim PROVE Waits(q)
  BY <1>2 DEF Claim, TypeOK
<1>3. ASSUME PollEnds PROVE Waits(q)
  BY <1>3 DEF PollEnds, TypeOK
<1>4. ASSUME NEW t \in Tasks, NEW r \in Rows, DispatchNext(t, r) PROVE Waits(q)
  BY <1>4
<1>5. ASSUME NEW t \in Tasks, Tick(t) PROVE Waits(q)
  BY <1>5 DEF Tick, TypeOK
<1>6. ASSUME NEW t \in Tasks, Expire(t) PROVE Waits(q)
  BY <1>6 DEF Expire, TypeOK
<1>7. ASSUME NEW e \in Edits, NEW t \in Tasks, EditReads(e, t) PROVE Waits(q)
  BY <1>7 DEF EditReads, TypeOK
<1>8. ASSUME NEW t \in Tasks, NEW r \in Rows, Trigger(t, r) PROVE Waits(q)
  BY <1>8 DEF Trigger, Begin, Begun, TypeOK
<1>9. ASSUME NEW t \in Tasks, NEW r \in Rows, Check(t, r) PROVE Waits(q)
  BY <1>9 DEF Check, Goto, TypeOK
<1>10. ASSUME NEW t \in Tasks, NEW r \in Rows, Create(t, r) PROVE Waits(q)
  BY <1>10 DEF Create, Goto, TypeOK
<1>11. ASSUME NEW t \in Tasks, NEW r \in Rows, Launch(t, r) PROVE Waits(q)
  BY <1>11 DEF Launch, Goto, TypeOK
<1>12. ASSUME NEW t \in Tasks, NEW r \in Rows, LaunchConflicts(t, r) PROVE Waits(q)
  BY <1>12 DEF LaunchConflicts, Goto, TypeOK
<1>13. ASSUME NEW t \in Tasks, NEW r \in Rows, BookRow(t, r) PROVE Waits(q)
  BY <1>13 DEF BookRow, Goto, BookedRow, Begun, Active, InProgress, Booking, Early, TerminalRow, TypeOK
<1>14. ASSUME NEW t \in Tasks, NEW r \in Rows, BookTask(t, r) PROVE Waits(q)
  BY <1>14 DEF BookTask, Goto, TypeOK
<1>15. ASSUME NEW t \in Tasks, NEW r \in Rows, SaveFailed(t, r) PROVE Waits(q)
  BY <1>15 DEF SaveFailed, Goto, Active, TypeOK
<1>16. ASSUME NEW t \in Tasks, NEW r \in Rows, FailTask(t, r) PROVE Waits(q)
  BY <1>16 DEF FailTask, Goto, TypeOK
<1>17. ASSUME NEW t \in Tasks, NEW r \in Rows, SaveSkipped(t, r) PROVE Waits(q)
  BY <1>17 DEF SaveSkipped, Goto, Active, TypeOK
<1>18. ASSUME NEW t \in Tasks, NEW r \in Rows, SkipTask(t, r) PROVE Waits(q)
  BY <1>18 DEF SkipTask, Goto, TypeOK
<1>19. ASSUME NEW r \in Rows, NEW o \in Outcomes, RunEnds(r, o) PROVE Waits(q)
  BY <1>19 DEF RunEnds, TypeOK
<1>20. ASSUME NEW r \in Rows, HookRow(r) PROVE Waits(q)
  BY <1>20 DEF HookRow, Hooked, Outcomes, Active, TypeOK
<1>21. ASSUME NEW t \in Tasks, NEW r \in Rows, HookTask(t, r) PROVE Waits(q)
  BY <1>21 DEF HookTask, TypeOK
<1>22. ASSUME NEW r \in Rows, LaunchFails(r) PROVE Waits(q)
  BY <1>22 DEF LaunchFails, Fails, Goto, TypeOK
<1>23. ASSUME NEW r \in Rows, Raise(r) PROVE Waits(q)
  BY <1>23 DEF Raise, Fails, Goto, TypeOK
<1>24. ASSUME NEW r \in Rows, HookFails(r) PROVE Waits(q)
  BY <1>24 DEF HookFails, Fails, TypeOK
<1>25. ASSUME EditWrites PROVE Waits(q)
  BY <1>25 DEF EditWrites, TypeOK
<1>26. ASSUME Die PROVE Waits(q)
  BY <1>26 DEF Die, InProgress, TypeOK
<1>27. ASSUME Restart PROVE Waits(q)
  <2>1. row'[q] # row[q] => row'[q] = "interrupted"
    BY <1>27 DEF Restart
  <2>. QED
    BY <1>27, <2>1 DEF Restart, Active
<1>28. ASSUME UNCHANGED vars PROVE Waits(q)
  BY <1>28 DEF vars, TypeOK
<1>. QED
  BY <1>1, <1>2, <1>3, <1>4, <1>5, <1>6, <1>7, <1>8, <1>9, <1>10, <1>11, <1>12, <1>13,
     <1>14, <1>15, <1>16, <1>17, <1>18, <1>19, <1>20, <1>21, <1>22, <1>23, <1>24, <1>25,
     <1>26, <1>27, <1>28
  DEF Next, Poller, Dispatch, Completion

\* The poller dispatches one task at a time, and ends a round with none.
LEMMA OneDispatch ==
    ASSUME TypeOK, Begun, [Next]_vars, poller # "dispatch" => ~Dispatching, poller' # "dispatch"
    PROVE  ~Dispatching'
<1>. USE DEF tasks, dispatch, run, poll, bounds, Dispatching
<1>1. ASSUME CountActive PROVE ~Dispatching'
  BY <1>1 DEF CountActive, TypeOK
<1>2. ASSUME Claim PROVE ~Dispatching'
  BY <1>2 DEF Claim, TypeOK
<1>3. ASSUME PollEnds PROVE ~Dispatching'
  BY <1>3 DEF PollEnds, TypeOK
<1>4. ASSUME NEW t \in Tasks, NEW r \in Rows, DispatchNext(t, r) PROVE ~Dispatching'
  BY <1>4 DEF DispatchNext, Begin, TypeOK
<1>5. ASSUME NEW t \in Tasks, Tick(t) PROVE ~Dispatching'
  BY <1>5 DEF Tick, TypeOK
<1>6. ASSUME NEW t \in Tasks, Expire(t) PROVE ~Dispatching'
  BY <1>6 DEF Expire, TypeOK
<1>7. ASSUME NEW e \in Edits, NEW t \in Tasks, EditReads(e, t) PROVE ~Dispatching'
  BY <1>7 DEF EditReads, TypeOK
<1>8. ASSUME NEW t \in Tasks, NEW r \in Rows, Trigger(t, r) PROVE ~Dispatching'
  BY <1>8 DEF Trigger, Begin, Begun, TypeOK
<1>9. ASSUME NEW t \in Tasks, NEW r \in Rows, Check(t, r) PROVE ~Dispatching'
  BY <1>9 DEF Check, Goto, InProgress, Booking, Failing, Skipping, TypeOK
<1>10. ASSUME NEW t \in Tasks, NEW r \in Rows, Create(t, r) PROVE ~Dispatching'
  BY <1>10 DEF Create, Goto, InProgress, Booking, Failing, Skipping, TypeOK
<1>11. ASSUME NEW t \in Tasks, NEW r \in Rows, Launch(t, r) PROVE ~Dispatching'
  BY <1>11 DEF Launch, Goto, InProgress, Booking, Failing, Skipping, TypeOK
<1>12. ASSUME NEW t \in Tasks, NEW r \in Rows, LaunchConflicts(t, r) PROVE ~Dispatching'
  BY <1>12 DEF LaunchConflicts, Goto, InProgress, Booking, Failing, Skipping, TypeOK
<1>13. ASSUME NEW t \in Tasks, NEW r \in Rows, BookRow(t, r) PROVE ~Dispatching'
  BY <1>13 DEF BookRow, Goto, InProgress, Booking, Failing, Skipping, TypeOK
<1>14. ASSUME NEW t \in Tasks, NEW r \in Rows, BookTask(t, r) PROVE ~Dispatching'
  BY <1>14 DEF BookTask, Goto, InProgress, Booking, Failing, Skipping, TypeOK
<1>15. ASSUME NEW t \in Tasks, NEW r \in Rows, SaveFailed(t, r) PROVE ~Dispatching'
  BY <1>15 DEF SaveFailed, Goto, InProgress, Booking, Failing, Skipping, TypeOK
<1>16. ASSUME NEW t \in Tasks, NEW r \in Rows, FailTask(t, r) PROVE ~Dispatching'
  BY <1>16 DEF FailTask, Goto, InProgress, Booking, Failing, Skipping, TypeOK
<1>17. ASSUME NEW t \in Tasks, NEW r \in Rows, SaveSkipped(t, r) PROVE ~Dispatching'
  BY <1>17 DEF SaveSkipped, Goto, InProgress, Booking, Failing, Skipping, TypeOK
<1>18. ASSUME NEW t \in Tasks, NEW r \in Rows, SkipTask(t, r) PROVE ~Dispatching'
  BY <1>18 DEF SkipTask, Goto, InProgress, Booking, Failing, Skipping, TypeOK
<1>19. ASSUME NEW r \in Rows, NEW o \in Outcomes, RunEnds(r, o) PROVE ~Dispatching'
  BY <1>19 DEF RunEnds, TypeOK
<1>20. ASSUME NEW r \in Rows, HookRow(r) PROVE ~Dispatching'
  BY <1>20 DEF HookRow, TypeOK
<1>21. ASSUME NEW t \in Tasks, NEW r \in Rows, HookTask(t, r) PROVE ~Dispatching'
  BY <1>21 DEF HookTask, TypeOK
<1>22. ASSUME NEW r \in Rows, LaunchFails(r) PROVE ~Dispatching'
  BY <1>22 DEF LaunchFails, Fails, Goto, InProgress, Booking, Failing, Skipping, TypeOK
<1>23. ASSUME NEW r \in Rows, Raise(r) PROVE ~Dispatching'
  BY <1>23 DEF Raise, Fails, Goto, InProgress, Booking, Failing, Skipping, TypeOK
<1>24. ASSUME NEW r \in Rows, HookFails(r) PROVE ~Dispatching'
  BY <1>24 DEF HookFails, Fails, TypeOK
<1>25. ASSUME EditWrites PROVE ~Dispatching'
  BY <1>25 DEF EditWrites, TypeOK
<1>26. ASSUME Die PROVE ~Dispatching'
  BY <1>26 DEF Die, InProgress, Booking, Failing, Skipping, TypeOK
<1>27. ASSUME Restart PROVE ~Dispatching'
  BY <1>27 DEF Restart, TypeOK
<1>28. ASSUME UNCHANGED vars PROVE ~Dispatching'
  BY <1>28 DEF vars, TypeOK
<1>. QED
  BY <1>1, <1>2, <1>3, <1>4, <1>5, <1>6, <1>7, <1>8, <1>9, <1>10, <1>11, <1>12, <1>13,
     <1>14, <1>15, <1>16, <1>17, <1>18, <1>19, <1>20, <1>21, <1>22, <1>23, <1>24, <1>25,
     <1>26, <1>27, <1>28
  DEF Next, Poller, Dispatch, Completion

\* The sets that are counted are finite.
LEMMA Counts ==
    ASSUME TypeOK
    PROVE  /\ IsFiniteSet(Pending) /\ Cardinality(Pending) \in Nat
           /\ IsFiniteSet(ActiveRows) /\ Cardinality(ActiveRows) \in Nat
           /\ IsFiniteSet(claimed) /\ Cardinality(claimed) \in Nat
           /\ budget \in Nat /\ Limit \in Nat /\ Room \in Nat
<1>1. IsFiniteSet(Rows) /\ IsFiniteSet(Tasks)
  BY SchedulerAssumption
<1>2. Pending \in SUBSET Rows /\ ActiveRows \in SUBSET Rows /\ claimed \in SUBSET Tasks
  BY DEF TypeOK, Pending, ActiveRows
<1>3. IsFiniteSet(Pending) /\ IsFiniteSet(ActiveRows) /\ IsFiniteSet(claimed)
  BY <1>1, <1>2, FS_Subset
<1>4. /\ Cardinality(Pending) \in Nat /\ Cardinality(ActiveRows) \in Nat
      /\ Cardinality(claimed) \in Nat
  BY <1>3, FS_CardinalityType
<1>5. budget \in Nat /\ Limit \in Nat
  BY SchedulerAssumption DEF TypeOK
<1>. QED
  BY <1>3, <1>4, <1>5 DEF Room

\* No step but CountActive gives the poller more room.
LEMMA LessRoom ==
    ASSUME TypeOK, TypeOK', [Next]_vars, ~CountActive,
           \A t \in Tasks, r \in Rows : ~DispatchNext(t, r)
    PROVE  Room' <= Room
<1>. USE Counts DEF tasks, dispatch, run, poll, bounds, Room
<1>1. ASSUME CountActive PROVE Room' <= Room
  BY <1>1
<1>2. ASSUME Claim PROVE Room' <= Room
  <2>1. PICK C \in SUBSET Claimable : /\ Cardinality(C) <= budget /\ claimed' = C
                                      /\ poller' = IF C = {} THEN "idle" ELSE "dispatch"
    BY <1>2 DEF Claim
  <2>2. Room = budget /\ budget \in Nat
    BY <1>2 DEF Claim
  <2>. QED
    BY <2>1, <2>2
<1>3. ASSUME PollEnds PROVE Room' <= Room
  BY <1>3 DEF PollEnds
<1>4. ASSUME NEW t \in Tasks, NEW r \in Rows, DispatchNext(t, r) PROVE Room' <= Room
  BY <1>4
<1>5. ASSUME NEW t \in Tasks, Tick(t) PROVE Room' <= Room
  BY <1>5 DEF Tick
<1>6. ASSUME NEW t \in Tasks, Expire(t) PROVE Room' <= Room
  BY <1>6 DEF Expire
<1>7. ASSUME NEW e \in Edits, NEW t \in Tasks, EditReads(e, t) PROVE Room' <= Room
  BY <1>7 DEF EditReads
<1>8. ASSUME NEW t \in Tasks, NEW r \in Rows, Trigger(t, r) PROVE Room' <= Room
  BY <1>8 DEF Trigger, Begin
<1>9. ASSUME NEW t \in Tasks, NEW r \in Rows, Check(t, r) PROVE Room' <= Room
  BY <1>9 DEF Check
<1>10. ASSUME NEW t \in Tasks, NEW r \in Rows, Create(t, r) PROVE Room' <= Room
  BY <1>10 DEF Create
<1>11. ASSUME NEW t \in Tasks, NEW r \in Rows, Launch(t, r) PROVE Room' <= Room
  BY <1>11 DEF Launch
<1>12. ASSUME NEW t \in Tasks, NEW r \in Rows, LaunchConflicts(t, r) PROVE Room' <= Room
  BY <1>12 DEF LaunchConflicts
<1>13. ASSUME NEW t \in Tasks, NEW r \in Rows, BookRow(t, r) PROVE Room' <= Room
  BY <1>13 DEF BookRow
<1>14. ASSUME NEW t \in Tasks, NEW r \in Rows, BookTask(t, r) PROVE Room' <= Room
  BY <1>14 DEF BookTask
<1>15. ASSUME NEW t \in Tasks, NEW r \in Rows, SaveFailed(t, r) PROVE Room' <= Room
  BY <1>15 DEF SaveFailed
<1>16. ASSUME NEW t \in Tasks, NEW r \in Rows, FailTask(t, r) PROVE Room' <= Room
  BY <1>16 DEF FailTask
<1>17. ASSUME NEW t \in Tasks, NEW r \in Rows, SaveSkipped(t, r) PROVE Room' <= Room
  BY <1>17 DEF SaveSkipped
<1>18. ASSUME NEW t \in Tasks, NEW r \in Rows, SkipTask(t, r) PROVE Room' <= Room
  BY <1>18 DEF SkipTask
<1>19. ASSUME NEW r \in Rows, NEW o \in Outcomes, RunEnds(r, o) PROVE Room' <= Room
  BY <1>19 DEF RunEnds
<1>20. ASSUME NEW r \in Rows, HookRow(r) PROVE Room' <= Room
  BY <1>20 DEF HookRow
<1>21. ASSUME NEW t \in Tasks, NEW r \in Rows, HookTask(t, r) PROVE Room' <= Room
  BY <1>21 DEF HookTask
<1>22. ASSUME NEW r \in Rows, LaunchFails(r) PROVE Room' <= Room
  BY <1>22 DEF LaunchFails, Fails
<1>23. ASSUME NEW r \in Rows, Raise(r) PROVE Room' <= Room
  <2>1. CASE r \in scheduled
    <3>1. claimed' = {} /\ poller' = poller /\ budget' = budget
      BY <1>23, <2>1 DEF Raise
    <3>2. Cardinality({}) = 0
      BY FS_EmptySet
    <3>. QED
      BY <3>1, <3>2
  <2>2. CASE r \notin scheduled
    BY <1>23, <2>2 DEF Raise
  <2>. QED
    BY <2>1, <2>2
<1>24. ASSUME NEW r \in Rows, HookFails(r) PROVE Room' <= Room
  BY <1>24 DEF HookFails, Fails
<1>25. ASSUME EditWrites PROVE Room' <= Room
  BY <1>25 DEF EditWrites
<1>26. ASSUME Die PROVE Room' <= Room
  BY <1>26 DEF Die
<1>27. ASSUME Restart PROVE Room' <= Room
  BY <1>27 DEF Restart
<1>28. ASSUME UNCHANGED vars PROVE Room' <= Room
  BY <1>28 DEF vars
<1>. QED
  BY <1>1, <1>2, <1>3, <1>4, <1>5, <1>6, <1>7, <1>8, <1>9, <1>10, <1>11, <1>12, <1>13,
     <1>14, <1>15, <1>16, <1>17, <1>18, <1>19, <1>20, <1>21, <1>22, <1>23, <1>24, <1>25,
     <1>26, <1>27, <1>28
  DEF Next, Poller, Dispatch, Completion

\* Every step keeps the pending dispatches and the room within the limit.
LEMMA CappedStep ==
    ASSUME TypeOK, TypeOK', Hooked, Begun, Capped, [Next]_vars
    PROVE  Capped'
<1>1. poller' # "dispatch" => ~Dispatching'
  BY OneDispatch DEF Capped
<1>2. IsFiniteSet(Pending) /\ Cardinality(Pending) \in Nat /\ Room \in Nat /\ Limit \in Nat
  BY Counts
<1>3. Cardinality(Pending') \in Nat /\ Room' \in Nat
  <2>1. IsFiniteSet(Rows) /\ Pending' \in SUBSET Rows
    BY SchedulerAssumption DEF Pending
  <2>2. IsFiniteSet(claimed')
    BY SchedulerAssumption, FS_Subset DEF TypeOK
  <2>3. Cardinality(claimed') \in Nat
    BY <2>2, FS_CardinalityType
  <2>4. budget' \in Nat
    BY SchedulerAssumption DEF TypeOK
  <2>. QED
    BY <2>1, <2>3, <2>4, FS_Subset, FS_CardinalityType DEF Room
<1>4. CASE \A t \in Tasks, r \in Rows : ~DispatchNext(t, r)
  <2>1. Pending' \in SUBSET Pending
    BY <1>4, NothingPending DEF Pending
  <2>2. Cardinality(Pending') <= Cardinality(Pending)
    BY <1>2, <2>1, FS_Subset
  <2>3. CASE ~CountActive
    <3>1. Room' <= Room
      BY <1>4, <2>3, LessRoom
    <3>. QED
      BY <1>1, <1>2, <1>3, <2>2, <3>1 DEF Capped
  <2>4. CASE CountActive
    <3>1. ~Dispatching
      BY <2>4 DEF CountActive, Capped
    <3>2. Pending \in SUBSET ActiveRows
      BY <3>1 DEF Pending, Waits, Dispatching, ActiveRows, InProgress
    <3>3. Cardinality(Pending) <= Cardinality(ActiveRows) /\ Cardinality(ActiveRows) \in Nat
      BY <3>2, Counts, FS_Subset
    <3>4. Room' = RemainingBudget /\ RemainingBudget > 0
      BY <2>4 DEF CountActive, Room
    <3>5. Room' + Cardinality(ActiveRows) <= Limit
      BY <1>2, <3>3, <3>4 DEF RemainingBudget
    <3>. QED
      BY <1>1, <1>2, <1>3, <2>2, <3>3, <3>5 DEF Capped
  <2>. QED
    BY <2>3, <2>4
<1>5. ASSUME NEW t \in Tasks, NEW r \in Rows, DispatchNext(t, r) PROVE Capped'
  <2>1. Pending' \in SUBSET (Pending \cup {r})
    BY <1>5 DEF DispatchNext, Begin, dispatch, tasks, run, Pending, Waits, TypeOK
  <2>2. /\ IsFiniteSet(Pending \cup {r})
        /\ Cardinality(Pending \cup {r}) <= Cardinality(Pending) + 1
    <3>1. /\ IsFiniteSet(Pending \cup {r})
          /\ \/ Cardinality(Pending \cup {r}) = Cardinality(Pending)
             \/ Cardinality(Pending \cup {r}) = Cardinality(Pending) + 1
      BY <1>2, FS_AddElement, Zenon
    <3>. QED
      BY <1>2, <3>1
  <2>3. Cardinality(Pending') <= Cardinality(Pending) + 1
    <3>1. /\ Cardinality(Pending') <= Cardinality(Pending \cup {r})
          /\ Cardinality(Pending \cup {r}) \in Nat
      BY <2>1, <2>2, FS_Subset, FS_CardinalityType
    <3>. QED
      BY <1>2, <1>3, <2>2, <3>1
  <2>4. Cardinality(claimed') = Cardinality(claimed) - 1
    <3>1. t \in claimed /\ claimed' = claimed \ {t}
      BY <1>5 DEF DispatchNext
    <3>. QED
      BY <3>1, Counts, FS_RemoveElement
  <2>5. poller = "dispatch" /\ poller' = "dispatch"
    BY <1>5 DEF DispatchNext
  <2>. QED
    BY <1>1, <1>2, <1>3, <2>3, <2>4, <2>5, Counts DEF Capped, Room
<1>. QED
  BY <1>4, <1>5

-----------------------------------------------------------------------------
(* Active rows *)

\* An active row is on its way to a run or has one that has not told its end yet.
Served ==
  /\ \A r \in Rows : step[r] \in Booking => agent[r] # "none"
  /\ up /\ faults = 0 =>
       \A r \in Rows : row[r] \in Active =>
         /\ step[r] \in InProgress \/ agent[r] \in {"live", "ended"}
         /\ step[r] \notin {"failTask", "skipTask"} /\ agent[r] \notin {"rowSaved", "done"}

\* If both tables are swept when the process starts, every step keeps that.
LEMMA ServedStep ==
    ASSUME Polling, TypeOK, Hooked, Begun, Served, [Next]_vars
    PROVE  Served'
<1>. USE DEF tasks, dispatch, run, poll, bounds
<1>1. ASSUME CountActive PROVE Served'
  BY <1>1 DEF CountActive, Served, TypeOK
<1>2. ASSUME Claim PROVE Served'
  BY <1>2 DEF Claim, Served, TypeOK
<1>3. ASSUME PollEnds PROVE Served'
  BY <1>3 DEF PollEnds, Served, TypeOK
<1>4. ASSUME NEW t \in Tasks, NEW r \in Rows, DispatchNext(t, r) PROVE Served'
  BY <1>4 DEF DispatchNext, Begin, Booking, Failing, Skipping, InProgress, Active, Begun, Early, Served, TypeOK
<1>5. ASSUME NEW t \in Tasks, Tick(t) PROVE Served'
  BY <1>5 DEF Tick, Served, TypeOK
<1>6. ASSUME NEW t \in Tasks, Expire(t) PROVE Served'
  BY <1>6 DEF Expire, Served, TypeOK
<1>7. ASSUME NEW e \in Edits, NEW t \in Tasks, EditReads(e, t) PROVE Served'
  BY <1>7 DEF EditReads, Served, TypeOK
<1>8. ASSUME NEW t \in Tasks, NEW r \in Rows, Trigger(t, r) PROVE Served'
  BY <1>8 DEF Trigger, Begin, Booking, Failing, Skipping, InProgress, Active, Begun, Early, Served, TypeOK
<1>9. ASSUME NEW t \in Tasks, NEW r \in Rows, Check(t, r) PROVE Served'
  BY <1>9 DEF Check, Goto, Booking, Failing, Skipping, InProgress, Active, Begun, Early, Served, TypeOK
<1>10. ASSUME NEW t \in Tasks, NEW r \in Rows, Create(t, r) PROVE Served'
  BY <1>10 DEF Create, Goto, Booking, Failing, Skipping, InProgress, Active, Begun, Early, Served, TypeOK
<1>11. ASSUME NEW t \in Tasks, NEW r \in Rows, Launch(t, r) PROVE Served'
  BY <1>11 DEF Launch, Goto, Booking, Failing, Skipping, InProgress, Active, Served, TypeOK
<1>12. ASSUME NEW t \in Tasks, NEW r \in Rows, LaunchConflicts(t, r) PROVE Served'
  BY <1>12 DEF LaunchConflicts, Goto, Booking, Failing, Skipping, InProgress, Active, Served, TypeOK
<1>13. ASSUME NEW t \in Tasks, NEW r \in Rows, BookRow(t, r) PROVE Served'
  BY <1>13 DEF BookRow, Goto, Booking, Failing, Skipping, InProgress, Active, BookedRow, TerminalRow, Begun, Early, Served, TypeOK
<1>14. ASSUME NEW t \in Tasks, NEW r \in Rows, BookTask(t, r) PROVE Served'
  BY <1>14 DEF BookTask, Goto, Booking, Failing, Skipping, InProgress, Active, Served, TypeOK
<1>15. ASSUME NEW t \in Tasks, NEW r \in Rows, SaveFailed(t, r) PROVE Served'
  BY <1>15 DEF SaveFailed, Goto, Booking, Failing, Skipping, InProgress, Active, Served, TypeOK
<1>16. ASSUME NEW t \in Tasks, NEW r \in Rows, FailTask(t, r) PROVE Served'
  BY <1>16 DEF FailTask, Goto, Booking, Failing, Skipping, InProgress, Active, Served, TypeOK
<1>17. ASSUME NEW t \in Tasks, NEW r \in Rows, SaveSkipped(t, r) PROVE Served'
  BY <1>17 DEF SaveSkipped, Goto, Booking, Failing, Skipping, InProgress, Active, Served, TypeOK
<1>18. ASSUME NEW t \in Tasks, NEW r \in Rows, SkipTask(t, r) PROVE Served'
  BY <1>18 DEF SkipTask, Goto, Booking, Failing, Skipping, InProgress, Active, Served, TypeOK
<1>19. ASSUME NEW r \in Rows, NEW o \in Outcomes, RunEnds(r, o) PROVE Served'
  BY <1>19 DEF RunEnds, Booking, Failing, Skipping, InProgress, Active, Served, TypeOK
<1>20. ASSUME NEW r \in Rows, HookRow(r) PROVE Served'
  BY <1>20 DEF HookRow, Booking, Failing, Skipping, InProgress, Active, Hooked, Outcomes, Served, TypeOK
<1>21. ASSUME NEW t \in Tasks, NEW r \in Rows, HookTask(t, r) PROVE Served'
  BY <1>21 DEF HookTask, Booking, Failing, Skipping, InProgress, Active, Served, TypeOK
<1>22. ASSUME NEW r \in Rows, LaunchFails(r) PROVE Served'
  BY <1>22 DEF LaunchFails, Fails, Goto, Booking, Failing, Skipping, InProgress, Active, Served, TypeOK
<1>23. ASSUME NEW r \in Rows, Raise(r) PROVE Served'
  BY <1>23 DEF Raise, Fails, Goto, Booking, Failing, Skipping, InProgress, Active, Served, TypeOK
<1>24. ASSUME NEW r \in Rows, HookFails(r) PROVE Served'
  BY <1>24 DEF HookFails, Fails, Booking, Failing, Skipping, InProgress, Active, Served, TypeOK
<1>25. ASSUME EditWrites PROVE Served'
  BY <1>25 DEF EditWrites, Served, TypeOK
<1>26. ASSUME Die PROVE Served'
  <2>1. ~up' /\ \A r \in Rows : step'[r] \notin Booking
    BY <1>26 DEF Die, TypeOK, InProgress, Booking
  <2>. QED
    BY <2>1 DEF Served
<1>27. ASSUME Restart PROVE Served'
  <2>1. PICK sweeps \in SUBSET {"rows", "tasks"} :
           /\ faults' = faults + 2 - Cardinality(sweeps)
           /\ row' = [r \in Rows |-> IF "rows" \in sweeps /\ r \in Stale THEN "interrupted" ELSE row[r]]
    BY <1>27 DEF Restart
  <2>2. ASSUME "rows" \notin sweeps PROVE faults' # 0
    <3>1. IsFiniteSet({"tasks"}) /\ Cardinality({"tasks"}) = 1
      BY FS_Singleton
    <3>2. sweeps \in SUBSET {"tasks"}
      BY <2>1, <2>2
    <3>3. IsFiniteSet(sweeps) /\ Cardinality(sweeps) <= 1
      BY <3>1, <3>2, FS_Subset
    <3>4. Cardinality(sweeps) \in Nat /\ faults \in Nat
      BY <3>3, FS_CardinalityType DEF TypeOK
    <3>. QED
      BY <2>1, <3>3, <3>4
  <2>3. "rows" \in sweeps => \A r \in Rows : row'[r] \notin Active
    BY <2>1 DEF Stale, ActiveRows, Active
  <2>4. UNCHANGED <<step, agent>>
    BY <1>27 DEF Restart
  <2>. QED
    BY <2>2, <2>3, <2>4 DEF Served
<1>28. ASSUME UNCHANGED vars PROVE Served'
  BY <1>28 DEF vars, Served, TypeOK
<1>. QED
  BY <1>1, <1>2, <1>3, <1>4, <1>5, <1>6, <1>7, <1>8, <1>9, <1>10, <1>11, <1>12, <1>13,
     <1>14, <1>15, <1>16, <1>17, <1>18, <1>19, <1>20, <1>21, <1>22, <1>23, <1>24, <1>25,
     <1>26, <1>27, <1>28
  DEF Next, Poller, Dispatch, Completion

-----------------------------------------------------------------------------
(* Completed tasks *)

\* A run of the task was a success.
Ran(t) == \E r \in rows[t] : outcome[r] = "success"

\* A dispatch belongs to one task, and a run has no outcome while it lives.
Owned ==
  /\ \A r \in Rows : /\ step[r] = "unused" => seen[r] = "enabled"
                     /\ agent[r] = "live" => outcome[r] = "none"
  /\ \A t, u \in Tasks, r \in Rows : r \in rows[t] /\ r \in rows[u] => t = u
  /\ \A t \in Tasks, r \in Rows : r \in rows[t] => step[r] # "unused"

\* What is completed, or was when somebody read it, has run.
Honest ==
  /\ \A t \in Once : status[t] = "completed" => Ran(t)
  /\ \A t \in Once, r \in Rows : r \in rows[t] /\ seen[r] = "completed" => Ran(t)

\* Every step keeps the dispatches apart.
LEMMA OwnedStep ==
    ASSUME TypeOK, Hooked, Begun, Owned, [Next]_vars
    PROVE  Owned'
<1>. USE DEF tasks, dispatch, run, poll, bounds
<1>1. ASSUME CountActive PROVE Owned'
  BY <1>1 DEF CountActive, Owned, TypeOK
<1>2. ASSUME Claim PROVE Owned'
  BY <1>2 DEF Claim, Owned, TypeOK
<1>3. ASSUME PollEnds PROVE Owned'
  BY <1>3 DEF PollEnds, Owned, TypeOK
<1>4. ASSUME NEW t \in Tasks, NEW r \in Rows, DispatchNext(t, r) PROVE Owned'
  BY <1>4 DEF DispatchNext, Begin, Owned, TypeOK
<1>5. ASSUME NEW t \in Tasks, Tick(t) PROVE Owned'
  BY <1>5 DEF Tick, Owned, TypeOK
<1>6. ASSUME NEW t \in Tasks, Expire(t) PROVE Owned'
  BY <1>6 DEF Expire, Owned, TypeOK
<1>7. ASSUME NEW e \in Edits, NEW t \in Tasks, EditReads(e, t) PROVE Owned'
  BY <1>7 DEF EditReads, Owned, TypeOK
<1>8. ASSUME NEW t \in Tasks, NEW r \in Rows, Trigger(t, r) PROVE Owned'
  BY <1>8 DEF Trigger, Begin, Owned, TypeOK
<1>9. ASSUME NEW t \in Tasks, NEW r \in Rows, Check(t, r) PROVE Owned'
  BY <1>9, SMTT(20) DEF Check, Goto, InProgress, Booking, Failing, Skipping, Owned, TypeOK
<1>10. ASSUME NEW t \in Tasks, NEW r \in Rows, Create(t, r) PROVE Owned'
  BY <1>10 DEF Create, Goto, InProgress, Booking, Failing, Skipping, Owned, TypeOK
<1>11. ASSUME NEW t \in Tasks, NEW r \in Rows, Launch(t, r) PROVE Owned'
  BY <1>11 DEF Launch, Goto, Hooked, Begun, Early, InProgress, Booking, Failing, Skipping, Owned, TypeOK
<1>12. ASSUME NEW t \in Tasks, NEW r \in Rows, LaunchConflicts(t, r) PROVE Owned'
  BY <1>12 DEF LaunchConflicts, Goto, InProgress, Booking, Failing, Skipping, Owned, TypeOK
<1>13. ASSUME NEW t \in Tasks, NEW r \in Rows, BookRow(t, r) PROVE Owned'
  BY <1>13 DEF BookRow, Goto, InProgress, Booking, Failing, Skipping, Owned, TypeOK
<1>14. ASSUME NEW t \in Tasks, NEW r \in Rows, BookTask(t, r) PROVE Owned'
  BY <1>14 DEF BookTask, Goto, InProgress, Booking, Failing, Skipping, Owned, TypeOK
<1>15. ASSUME NEW t \in Tasks, NEW r \in Rows, SaveFailed(t, r) PROVE Owned'
  BY <1>15 DEF SaveFailed, Goto, InProgress, Booking, Failing, Skipping, Owned, TypeOK
<1>16. ASSUME NEW t \in Tasks, NEW r \in Rows, FailTask(t, r) PROVE Owned'
  BY <1>16 DEF FailTask, Goto, InProgress, Booking, Failing, Skipping, Owned, TypeOK
<1>17. ASSUME NEW t \in Tasks, NEW r \in Rows, SaveSkipped(t, r) PROVE Owned'
  BY <1>17 DEF SaveSkipped, Goto, InProgress, Booking, Failing, Skipping, Owned, TypeOK
<1>18. ASSUME NEW t \in Tasks, NEW r \in Rows, SkipTask(t, r) PROVE Owned'
  BY <1>18 DEF SkipTask, Goto, InProgress, Booking, Failing, Skipping, Owned, TypeOK
<1>19. ASSUME NEW r \in Rows, NEW o \in Outcomes, RunEnds(r, o) PROVE Owned'
  BY <1>19 DEF RunEnds, Owned, TypeOK
<1>20. ASSUME NEW r \in Rows, HookRow(r) PROVE Owned'
  BY <1>20 DEF HookRow, Owned, TypeOK
<1>21. ASSUME NEW t \in Tasks, NEW r \in Rows, HookTask(t, r) PROVE Owned'
  BY <1>21 DEF HookTask, Owned, TypeOK
<1>22. ASSUME NEW r \in Rows, LaunchFails(r) PROVE Owned'
  BY <1>22 DEF LaunchFails, Fails, Goto, InProgress, Booking, Failing, Skipping, Owned, TypeOK
<1>23. ASSUME NEW r \in Rows, Raise(r) PROVE Owned'
  BY <1>23 DEF Raise, Fails, Goto, InProgress, Booking, Failing, Skipping, Owned, TypeOK
<1>24. ASSUME NEW r \in Rows, HookFails(r) PROVE Owned'
  BY <1>24 DEF HookFails, Fails, Owned, TypeOK
<1>25. ASSUME EditWrites PROVE Owned'
  BY <1>25 DEF EditWrites, Owned, TypeOK
<1>26. ASSUME Die PROVE Owned'
  BY <1>26 DEF Die, InProgress, Booking, Failing, Skipping, Owned, TypeOK
<1>27. ASSUME Restart PROVE Owned'
  BY <1>27 DEF Restart, Owned, TypeOK
<1>28. ASSUME UNCHANGED vars PROVE Owned'
  BY <1>28 DEF vars, Owned, TypeOK
<1>. QED
  BY <1>1, <1>2, <1>3, <1>4, <1>5, <1>6, <1>7, <1>8, <1>9, <1>10, <1>11, <1>12, <1>13,
     <1>14, <1>15, <1>16, <1>17, <1>18, <1>19, <1>20, <1>21, <1>22, <1>23, <1>24, <1>25,
     <1>26, <1>27, <1>28
  DEF Next, Poller, Dispatch, Completion

\* A success is not taken back: neither the run nor its dispatch goes away.
LEMMA RanStays ==
    ASSUME TypeOK, Hooked, Begun, Owned, [Next]_vars, NEW k \in Tasks, Ran(k)
    PROVE  Ran(k)'
<1>. USE DEF tasks, dispatch, run, poll, bounds, Ran
<1>1. ASSUME CountActive PROVE Ran(k)'
  BY <1>1 DEF CountActive, TypeOK
<1>2. ASSUME Claim PROVE Ran(k)'
  BY <1>2 DEF Claim, TypeOK
<1>3. ASSUME PollEnds PROVE Ran(k)'
  BY <1>3 DEF PollEnds, TypeOK
<1>4. ASSUME NEW t \in Tasks, NEW r \in Rows, DispatchNext(t, r) PROVE Ran(k)'
  BY <1>4 DEF DispatchNext, Begin, TypeOK
<1>5. ASSUME NEW t \in Tasks, Tick(t) PROVE Ran(k)'
  BY <1>5 DEF Tick, TypeOK
<1>6. ASSUME NEW t \in Tasks, Expire(t) PROVE Ran(k)'
  BY <1>6 DEF Expire, TypeOK
<1>7. ASSUME NEW e \in Edits, NEW t \in Tasks, EditReads(e, t) PROVE Ran(k)'
  BY <1>7 DEF EditReads, TypeOK
<1>8. ASSUME NEW t \in Tasks, NEW r \in Rows, Trigger(t, r) PROVE Ran(k)'
  BY <1>8 DEF Trigger, Begin, TypeOK
<1>9. ASSUME NEW t \in Tasks, NEW r \in Rows, Check(t, r) PROVE Ran(k)'
  BY <1>9 DEF Check, Hooked, Begun, Early, TypeOK
<1>10. ASSUME NEW t \in Tasks, NEW r \in Rows, Create(t, r) PROVE Ran(k)'
  BY <1>10 DEF Create, TypeOK
<1>11. ASSUME NEW t \in Tasks, NEW r \in Rows, Launch(t, r) PROVE Ran(k)'
  BY <1>11 DEF Launch, TypeOK
<1>12. ASSUME NEW t \in Tasks, NEW r \in Rows, LaunchConflicts(t, r) PROVE Ran(k)'
  BY <1>12 DEF LaunchConflicts, TypeOK
<1>13. ASSUME NEW t \in Tasks, NEW r \in Rows, BookRow(t, r) PROVE Ran(k)'
  BY <1>13 DEF BookRow, TypeOK
<1>14. ASSUME NEW t \in Tasks, NEW r \in Rows, BookTask(t, r) PROVE Ran(k)'
  BY <1>14 DEF BookTask, TypeOK
<1>15. ASSUME NEW t \in Tasks, NEW r \in Rows, SaveFailed(t, r) PROVE Ran(k)'
  BY <1>15 DEF SaveFailed, TypeOK
<1>16. ASSUME NEW t \in Tasks, NEW r \in Rows, FailTask(t, r) PROVE Ran(k)'
  BY <1>16 DEF FailTask, TypeOK
<1>17. ASSUME NEW t \in Tasks, NEW r \in Rows, SaveSkipped(t, r) PROVE Ran(k)'
  BY <1>17 DEF SaveSkipped, TypeOK
<1>18. ASSUME NEW t \in Tasks, NEW r \in Rows, SkipTask(t, r) PROVE Ran(k)'
  BY <1>18 DEF SkipTask, TypeOK
<1>19. ASSUME NEW r \in Rows, NEW o \in Outcomes, RunEnds(r, o) PROVE Ran(k)'
  BY <1>19 DEF RunEnds, Owned, TypeOK
<1>20. ASSUME NEW r \in Rows, HookRow(r) PROVE Ran(k)'
  BY <1>20 DEF HookRow, TypeOK
<1>21. ASSUME NEW t \in Tasks, NEW r \in Rows, HookTask(t, r) PROVE Ran(k)'
  BY <1>21 DEF HookTask, TypeOK
<1>22. ASSUME NEW r \in Rows, LaunchFails(r) PROVE Ran(k)'
  BY <1>22 DEF LaunchFails, Fails, TypeOK
<1>23. ASSUME NEW r \in Rows, Raise(r) PROVE Ran(k)'
  BY <1>23 DEF Raise, Fails, TypeOK
<1>24. ASSUME NEW r \in Rows, HookFails(r) PROVE Ran(k)'
  BY <1>24 DEF HookFails, Fails, TypeOK
<1>25. ASSUME EditWrites PROVE Ran(k)'
  BY <1>25 DEF EditWrites, TypeOK
<1>26. ASSUME Die PROVE Ran(k)'
  BY <1>26 DEF Die, TypeOK
<1>27. ASSUME Restart PROVE Ran(k)'
  BY <1>27 DEF Restart, TypeOK
<1>28. ASSUME UNCHANGED vars PROVE Ran(k)'
  BY <1>28 DEF vars, TypeOK
<1>. QED
  BY <1>1, <1>2, <1>3, <1>4, <1>5, <1>6, <1>7, <1>8, <1>9, <1>10, <1>11, <1>12, <1>13,
     <1>14, <1>15, <1>16, <1>17, <1>18, <1>19, <1>20, <1>21, <1>22, <1>23, <1>24, <1>25,
     <1>26, <1>27, <1>28
  DEF Next, Poller, Dispatch, Completion

\* Every step keeps the completed tasks honest.
LEMMA HonestStep ==
    ASSUME TypeOK, Hooked, Begun, Owned, Honest, [Next]_vars
    PROVE  Honest'
<1>. USE SchedulerAssumption DEF tasks, dispatch, run, poll, bounds
<1>a. \A k \in Once : Ran(k) => Ran(k)'
  BY RanStays
<1>. USE <1>a
<1>1. ASSUME CountActive PROVE Honest'
  BY <1>1 DEF CountActive, Honest, TypeOK
<1>2. ASSUME Claim PROVE Honest'
  BY <1>2 DEF Claim, Honest, TypeOK
<1>3. ASSUME PollEnds PROVE Honest'
  BY <1>3 DEF PollEnds, Honest, TypeOK
<1>4. ASSUME NEW t \in Tasks, NEW r \in Rows, DispatchNext(t, r) PROVE Honest'
  BY <1>4 DEF DispatchNext, Begin, Owned, Honest, TypeOK
<1>5. ASSUME NEW t \in Tasks, Tick(t) PROVE Honest'
  BY <1>5 DEF Tick, Honest, TypeOK
<1>6. ASSUME NEW t \in Tasks, Expire(t) PROVE Honest'
  BY <1>6 DEF Expire, Honest, TypeOK
<1>7. ASSUME NEW e \in Edits, NEW t \in Tasks, EditReads(e, t) PROVE Honest'
  BY <1>7 DEF EditReads, Honest, TypeOK
<1>8. ASSUME NEW t \in Tasks, NEW r \in Rows, Trigger(t, r) PROVE Honest'
  <2>1. /\ status' = status
        /\ \A q \in Rows : q # r => seen'[q] = seen[q]
        /\ seen'[r] = status[t]
        /\ \A k \in Tasks, q \in Rows : q \in rows'[k] => q \in rows[k] \/ (k = t /\ q = r)
    BY <1>8 DEF Trigger, Begin, TypeOK
  <2>2. \A k \in Tasks : r \notin rows[k]
    BY <1>8 DEF Trigger, Begin, Owned
  <2>3. \A k \in Once : status'[k] = "completed" => Ran(k)'
    BY <2>1 DEF Honest
  <2>4. ASSUME NEW k \in Once, NEW q \in Rows, q \in rows'[k], seen'[q] = "completed" PROVE Ran(k)'
    BY <2>1, <2>2, <2>4 DEF Honest
  <2>. QED
    BY <2>3, <2>4 DEF Honest
<1>9. ASSUME NEW t \in Tasks, NEW r \in Rows, Check(t, r) PROVE Honest'
  BY <1>9 DEF Check, Goto, InProgress, Booking, Failing, Skipping, Honest, TypeOK
<1>10. ASSUME NEW t \in Tasks, NEW r \in Rows, Create(t, r) PROVE Honest'
  BY <1>10 DEF Create, Goto, InProgress, Booking, Failing, Skipping, Honest, TypeOK
<1>11. ASSUME NEW t \in Tasks, NEW r \in Rows, Launch(t, r) PROVE Honest'
  BY <1>11 DEF Launch, Goto, InProgress, Booking, Failing, Skipping, Honest, TypeOK
<1>12. ASSUME NEW t \in Tasks, NEW r \in Rows, LaunchConflicts(t, r) PROVE Honest'
  BY <1>12 DEF LaunchConflicts, Goto, InProgress, Booking, Failing, Skipping, Honest, TypeOK
<1>13. ASSUME NEW t \in Tasks, NEW r \in Rows, BookRow(t, r) PROVE Honest'
  BY <1>13 DEF BookRow, Goto, InProgress, Booking, Failing, Skipping, Honest, TypeOK
<1>14. ASSUME NEW t \in Tasks, NEW r \in Rows, BookTask(t, r) PROVE Honest'
  BY <1>14 DEF BookTask, Goto, UpdateTask, BookedTask, InProgress, Booking, Failing, Skipping, Honest, TypeOK
<1>15. ASSUME NEW t \in Tasks, NEW r \in Rows, SaveFailed(t, r) PROVE Honest'
  BY <1>15 DEF SaveFailed, Goto, InProgress, Booking, Failing, Skipping, Honest, TypeOK
<1>16. ASSUME NEW t \in Tasks, NEW r \in Rows, FailTask(t, r) PROVE Honest'
  BY <1>16 DEF FailTask, Goto, UpdateTask, FailedTask, InProgress, Booking, Failing, Skipping, Honest, TypeOK
<1>17. ASSUME NEW t \in Tasks, NEW r \in Rows, SaveSkipped(t, r) PROVE Honest'
  BY <1>17 DEF SaveSkipped, Goto, InProgress, Booking, Failing, Skipping, Honest, TypeOK
<1>18. ASSUME NEW t \in Tasks, NEW r \in Rows, SkipTask(t, r) PROVE Honest'
  BY <1>18 DEF SkipTask, Goto, UpdateTask, SkippedTask, InProgress, Booking, Failing, Skipping, Honest, TypeOK
<1>19. ASSUME NEW r \in Rows, NEW o \in Outcomes, RunEnds(r, o) PROVE Honest'
  BY <1>19 DEF RunEnds, Honest, TypeOK
<1>20. ASSUME NEW r \in Rows, HookRow(r) PROVE Honest'
  BY <1>20 DEF HookRow, Honest, TypeOK
<1>21. ASSUME NEW t \in Tasks, NEW r \in Rows, HookTask(t, r) PROVE Honest'
  <2>1. \A k \in Once : status'[k] = "completed" => status[k] = "completed" \/ Ran(k)
    BY <1>21 DEF HookTask, Ran, TypeOK
  <2>2. UNCHANGED <<rows, seen>>
    BY <1>21 DEF HookTask
  <2>. QED
    BY <2>1, <2>2 DEF Honest
<1>22. ASSUME NEW r \in Rows, LaunchFails(r) PROVE Honest'
  BY <1>22 DEF LaunchFails, Fails, Goto, InProgress, Booking, Failing, Skipping, Honest, TypeOK
<1>23. ASSUME NEW r \in Rows, Raise(r) PROVE Honest'
  BY <1>23 DEF Raise, Fails, Goto, InProgress, Booking, Failing, Skipping, Honest, TypeOK
<1>24. ASSUME NEW r \in Rows, HookFails(r) PROVE Honest'
  BY <1>24 DEF HookFails, Fails, Honest, TypeOK
<1>25. ASSUME EditWrites PROVE Honest'
  <2>1. \A t \in Tasks : status'[t] = "completed" => status[t] = "completed"
    BY <1>25 DEF EditWrites, TypeOK
  <2>2. UNCHANGED <<rows, seen>>
    BY <1>25 DEF EditWrites
  <2>. QED
    BY <2>1, <2>2 DEF Honest
<1>26. ASSUME Die PROVE Honest'
  BY <1>26 DEF Die, Honest, TypeOK
<1>27. ASSUME Restart PROVE Honest'
  <2>1. \A t \in Tasks : status'[t] = "completed" => status[t] = "completed"
    BY <1>27 DEF Restart
  <2>2. UNCHANGED <<rows, seen>>
    BY <1>27 DEF Restart
  <2>. QED
    BY <2>1, <2>2 DEF Honest
<1>28. ASSUME UNCHANGED vars PROVE Honest'
  BY <1>28 DEF vars, Honest, TypeOK
<1>. QED
  BY <1>1, <1>2, <1>3, <1>4, <1>5, <1>6, <1>7, <1>8, <1>9, <1>10, <1>11, <1>12, <1>13,
     <1>14, <1>15, <1>16, <1>17, <1>18, <1>19, <1>20, <1>21, <1>22, <1>23, <1>24, <1>25,
     <1>26, <1>27, <1>28
  DEF Next, Poller, Dispatch, Completion

-----------------------------------------------------------------------------
(* One dispatch of the poller at a time *)

\* The poller has one dispatch in progress, of a task it has not still to do; the run_at that a manual trigger may still be ahead
\* of is no concern of a dispatch of the poller, and what is being booked has been launched.
Alone ==
  /\ \A q, r \in scheduled : step[q] \in InProgress /\ step[r] \in InProgress => q = r
  /\ \A t \in claimed : \A r \in rows[t] \cap scheduled : step[r] \notin InProgress
  /\ \A r \in ahead : r \notin scheduled /\ step[r] \in InProgress
  /\ \A r \in Rows : step[r] \in Booking => agent[r] # "none"

\* Every step keeps the poller to one dispatch.
LEMMA AloneStep ==
    ASSUME TypeOK, Begun, Owned, poller # "dispatch" => ~Dispatching, Alone, [Next]_vars
    PROVE  Alone'
<1>. USE DEF tasks, dispatch, run, poll, bounds, Alone, TypeOK, InProgress, Booking, Failing, Skipping, Begun, Early, Owned, Dispatching
<1>1. ASSUME CountActive PROVE Alone'
  BY <1>1 DEF CountActive
<1>2. ASSUME Claim PROVE Alone'
  BY <1>2 DEF Claim
<1>3. ASSUME PollEnds PROVE Alone'
  BY <1>3 DEF PollEnds
<1>4. ASSUME NEW t \in Tasks, NEW r \in Rows, DispatchNext(t, r) PROVE Alone'
  BY <1>4 DEF DispatchNext, Begin
<1>5. ASSUME NEW t \in Tasks, Tick(t) PROVE Alone'
  BY <1>5 DEF Tick
<1>6. ASSUME NEW t \in Tasks, Expire(t) PROVE Alone'
  BY <1>6 DEF Expire
<1>7. ASSUME NEW e \in Edits, NEW t \in Tasks, EditReads(e, t) PROVE Alone'
  BY <1>7 DEF EditReads
<1>8. ASSUME NEW t \in Tasks, NEW r \in Rows, Trigger(t, r) PROVE Alone'
  BY <1>8 DEF Trigger, Begin
<1>9. ASSUME NEW t \in Tasks, NEW r \in Rows, Check(t, r) PROVE Alone'
  BY <1>9 DEF Check, Goto
<1>10. ASSUME NEW t \in Tasks, NEW r \in Rows, Create(t, r) PROVE Alone'
  BY <1>10 DEF Create, Goto
<1>11. ASSUME NEW t \in Tasks, NEW r \in Rows, Launch(t, r) PROVE Alone'
  BY <1>11 DEF Launch, Goto
<1>12. ASSUME NEW t \in Tasks, NEW r \in Rows, LaunchConflicts(t, r) PROVE Alone'
  BY <1>12 DEF LaunchConflicts, Goto
<1>13. ASSUME NEW t \in Tasks, NEW r \in Rows, BookRow(t, r) PROVE Alone'
  BY <1>13 DEF BookRow, Goto
<1>14. ASSUME NEW t \in Tasks, NEW r \in Rows, BookTask(t, r) PROVE Alone'
  BY <1>14 DEF BookTask, Goto, UpdateTask, NextAt, BookedTask
<1>15. ASSUME NEW t \in Tasks, NEW r \in Rows, SaveFailed(t, r) PROVE Alone'
  BY <1>15 DEF SaveFailed, Goto
<1>16. ASSUME NEW t \in Tasks, NEW r \in Rows, FailTask(t, r) PROVE Alone'
  BY <1>16 DEF FailTask, Goto, UpdateTask, NextAt, FailedTask
<1>17. ASSUME NEW t \in Tasks, NEW r \in Rows, SaveSkipped(t, r) PROVE Alone'
  BY <1>17 DEF SaveSkipped, Goto
<1>18. ASSUME NEW t \in Tasks, NEW r \in Rows, SkipTask(t, r) PROVE Alone'
  BY <1>18 DEF SkipTask, Goto, UpdateTask, NextAt, SkippedTask
<1>19. ASSUME NEW r \in Rows, NEW o \in Outcomes, RunEnds(r, o) PROVE Alone'
  BY <1>19 DEF RunEnds
<1>20. ASSUME NEW r \in Rows, HookRow(r) PROVE Alone'
  BY <1>20 DEF HookRow
<1>21. ASSUME NEW t \in Tasks, NEW r \in Rows, HookTask(t, r) PROVE Alone'
  BY <1>21 DEF HookTask
<1>22. ASSUME NEW r \in Rows, LaunchFails(r) PROVE Alone'
  BY <1>22 DEF LaunchFails, Fails, Goto
<1>23. ASSUME NEW r \in Rows, Raise(r) PROVE Alone'
  BY <1>23 DEF Raise, Fails, Goto
<1>24. ASSUME NEW r \in Rows, HookFails(r) PROVE Alone'
  BY <1>24 DEF HookFails, Fails
<1>25. ASSUME EditWrites PROVE Alone'
  BY <1>25 DEF EditWrites
<1>26. ASSUME Die PROVE Alone'
  BY <1>26 DEF Die
<1>27. ASSUME Restart PROVE Alone'
  BY <1>27 DEF Restart
<1>28. ASSUME UNCHANGED vars PROVE Alone'
  BY <1>28 DEF vars
<1>. QED
  BY <1>1, <1>2, <1>3, <1>4, <1>5, <1>6, <1>7, <1>8, <1>9, <1>10, <1>11, <1>12, <1>13,
     <1>14, <1>15, <1>16, <1>17, <1>18, <1>19, <1>20, <1>21, <1>22, <1>23, <1>24, <1>25,
     <1>26, <1>27, <1>28
  DEF Next, Poller, Dispatch, Completion

-----------------------------------------------------------------------------
(* The occurrence of a once task is launched once *)

\* Failures are counted, restarts too.
Counted == faults' \in Nat /\ faults' >= faults /\ restarts' \in Nat /\ restarts' >= restarts

\* No step takes a failure back.
LEMMA CountedStep ==
    ASSUME TypeOK, [Next]_vars
    PROVE  Counted
<1>. USE DEF TypeOK, Counted, tasks, dispatch, run, poll, bounds
<1>1. CASE Restart
  <2>1. PICK sweeps \in SUBSET {"rows", "tasks"} :
           IF Polling THEN faults' = faults + 2 - Cardinality(sweeps) ELSE UNCHANGED faults
    BY <1>1 DEF Restart
  <2>2. IsFiniteSet({"rows", "tasks"}) /\ Cardinality({"rows", "tasks"}) = 2
    <3>1. IsFiniteSet({"rows"}) /\ Cardinality({"rows"}) = 1
      BY FS_Singleton
    <3>2. {"rows", "tasks"} = {"rows"} \cup {"tasks"} /\ "tasks" \notin {"rows"}
      OBVIOUS
    <3>3. /\ IsFiniteSet({"rows"} \cup {"tasks"})
          /\ Cardinality({"rows"} \cup {"tasks"})
               = IF "tasks" \in {"rows"} THEN Cardinality({"rows"}) ELSE Cardinality({"rows"}) + 1
      BY <3>1, FS_AddElement, Zenon
    <3>. QED
      BY <3>1, <3>2, <3>3
  <2>3. /\ IsFiniteSet(sweeps) /\ Cardinality(sweeps) <= Cardinality({"rows", "tasks"})
        /\ Cardinality(sweeps) \in Nat
    <3>1. IsFiniteSet({"rows", "tasks"})
      BY <2>2
    <3>. QED
      BY <3>1, FS_Subset, FS_CardinalityType
  <2>4. Cardinality({"rows", "tasks"}) = 2
    BY <2>2
  <2>. QED
    BY <1>1, <2>1, <2>3, <2>4 DEF Restart
<1>2. CASE UNCHANGED <<faults, restarts>>
  BY <1>2
<1>3. CASE Fails /\ UNCHANGED restarts
  BY <1>3 DEF Fails
<1>4. CASE Die
  BY <1>4 DEF Die
<1>5. ASSUME Poller PROVE UNCHANGED <<faults, restarts>>
  BY <1>5 DEF Poller, CountActive, Claim, PollEnds, DispatchNext
<1>6. ASSUME NEW k \in Tasks, NEW r \in Rows, Trigger(k, r) \/ Dispatch(k, r) \/ Completion(k, r)
      PROVE  UNCHANGED <<faults, restarts>>
  BY <1>6 DEF Trigger, Dispatch, Check, Create, Launch, LaunchConflicts, BookRow, BookTask, SaveFailed,
     FailTask, SaveSkipped, SkipTask, Completion, RunEnds, HookRow, HookTask
<1>7. ASSUME NEW k \in Tasks, Tick(k) \/ Expire(k) \/ \E e \in Edits : EditReads(e, k)
      PROVE  UNCHANGED <<faults, restarts>>
  BY <1>7 DEF Tick, Expire, EditReads
<1>8. ASSUME NEW r \in Rows, LaunchFails(r) \/ Raise(r) \/ HookFails(r)
      PROVE  Fails /\ UNCHANGED restarts
  BY <1>8 DEF LaunchFails, Raise, HookFails
<1>9. ASSUME EditWrites \/ UNCHANGED vars PROVE UNCHANGED <<faults, restarts>>
  BY <1>9 DEF EditWrites, vars
<1>. QED
  BY <1>1, <1>2, <1>3, <1>4, <1>5, <1>6, <1>7, <1>8, <1>9 DEF Next

\* With at most one failure and no death, a once task whose occurrence the poller has launched
\* is not due again: it has no next run, or the dispatch that will take it away is still at work.
\* No other dispatch of the poller is or will be under way for it.
Spent(t, r) ==
  /\ nextAt[t] = "none" \/ step[r] \in Booking \/ (step[r] \in Failing /\ faults = 1)
  /\ t \notin claimed
  /\ \A q \in rows[t] \cap scheduled : q # r => agent[q] = "none" /\ step[q] \notin InProgress
LaunchedOnce ==
  restarts = 0 /\ faults <= 1 =>
    \A t \in Once \ Edited : \A r \in rows[t] \cap scheduled : agent[r] # "none" => Spent(t, r)

\* Every step keeps a launched occurrence spent.
LEMMA LaunchedStep ==
    ASSUME TypeOK, Hooked, Begun, Owned, Alone, poller # "dispatch" => ~Dispatching, LaunchedOnce, [Next]_vars
    PROVE  LaunchedOnce'
<1>. USE SchedulerAssumption, CountedStep DEF tasks, dispatch, run, poll, bounds, LaunchedOnce, Spent, Counted, Alone, TypeOK, InProgress, Booking, Failing, Skipping, Begun, Early, Owned, Dispatching, Claimable
<1>1. ASSUME CountActive PROVE LaunchedOnce'
  BY <1>1 DEF CountActive
<1>2. ASSUME Claim PROVE LaunchedOnce'
  BY <1>2 DEF Claim
<1>3. ASSUME PollEnds PROVE LaunchedOnce'
  BY <1>3 DEF PollEnds
<1>4. ASSUME NEW t \in Tasks, NEW r \in Rows, DispatchNext(t, r) PROVE LaunchedOnce'
  BY <1>4 DEF DispatchNext, Begin
<1>5. ASSUME NEW t \in Tasks, Tick(t) PROVE LaunchedOnce'
  BY <1>5 DEF Tick
<1>6. ASSUME NEW t \in Tasks, Expire(t) PROVE LaunchedOnce'
  BY <1>6 DEF Expire
<1>7. ASSUME NEW e \in Edits, NEW t \in Tasks, EditReads(e, t) PROVE LaunchedOnce'
  BY <1>7 DEF EditReads
<1>8. ASSUME NEW t \in Tasks, NEW r \in Rows, Trigger(t, r) PROVE LaunchedOnce'
  BY <1>8 DEF Trigger, Begin
<1>9. ASSUME NEW t \in Tasks, NEW r \in Rows, Check(t, r) PROVE LaunchedOnce'
  BY <1>9 DEF Check, Goto
<1>10. ASSUME NEW t \in Tasks, NEW r \in Rows, Create(t, r) PROVE LaunchedOnce'
  BY <1>10 DEF Create, Goto
<1>11. ASSUME NEW t \in Tasks, NEW r \in Rows, Launch(t, r) PROVE LaunchedOnce'
  BY <1>11 DEF Launch, Goto
<1>12. ASSUME NEW t \in Tasks, NEW r \in Rows, LaunchConflicts(t, r) PROVE LaunchedOnce'
  BY <1>12 DEF LaunchConflicts, Goto
<1>13. ASSUME NEW t \in Tasks, NEW r \in Rows, BookRow(t, r) PROVE LaunchedOnce'
  BY <1>13 DEF BookRow, Goto
<1>14. ASSUME NEW t \in Tasks, NEW r \in Rows, BookTask(t, r) PROVE LaunchedOnce'
  BY <1>14 DEF BookTask, Goto, UpdateTask, NextAt, BookedTask
<1>15. ASSUME NEW t \in Tasks, NEW r \in Rows, SaveFailed(t, r) PROVE LaunchedOnce'
  BY <1>15 DEF SaveFailed, Goto
<1>16. ASSUME NEW t \in Tasks, NEW r \in Rows, FailTask(t, r) PROVE LaunchedOnce'
  BY <1>16 DEF FailTask, Goto, UpdateTask, NextAt, FailedTask
<1>17. ASSUME NEW t \in Tasks, NEW r \in Rows, SaveSkipped(t, r) PROVE LaunchedOnce'
  BY <1>17 DEF SaveSkipped, Goto
<1>18. ASSUME NEW t \in Tasks, NEW r \in Rows, SkipTask(t, r) PROVE LaunchedOnce'
  BY <1>18 DEF SkipTask, Goto, UpdateTask, NextAt, SkippedTask
<1>19. ASSUME NEW r \in Rows, NEW o \in Outcomes, RunEnds(r, o) PROVE LaunchedOnce'
  BY <1>19 DEF RunEnds
<1>20. ASSUME NEW r \in Rows, HookRow(r) PROVE LaunchedOnce'
  BY <1>20 DEF HookRow
<1>21. ASSUME NEW t \in Tasks, NEW r \in Rows, HookTask(t, r) PROVE LaunchedOnce'
  BY <1>21 DEF HookTask
<1>22. ASSUME NEW r \in Rows, LaunchFails(r) PROVE LaunchedOnce'
  BY <1>22 DEF LaunchFails, Fails, Goto
<1>23. ASSUME NEW r \in Rows, Raise(r) PROVE LaunchedOnce'
  BY <1>23 DEF Raise, Fails, Goto
<1>24. ASSUME NEW r \in Rows, HookFails(r) PROVE LaunchedOnce'
  BY <1>24 DEF HookFails, Fails
<1>25. ASSUME EditWrites PROVE LaunchedOnce'
  BY <1>25 DEF EditWrites
<1>26. ASSUME Die PROVE LaunchedOnce'
  BY <1>26 DEF Die
<1>27. ASSUME Restart PROVE LaunchedOnce'
  BY <1>27 DEF Restart
<1>28. ASSUME UNCHANGED vars PROVE LaunchedOnce'
  BY <1>28 DEF vars
<1>. HIDE DEF LaunchedOnce
<1>. QED
  BY <1>1, <1>2, <1>3, <1>4, <1>5, <1>6, <1>7, <1>8, <1>9, <1>10, <1>11, <1>12, <1>13,
     <1>14, <1>15, <1>16, <1>17, <1>18, <1>19, <1>20, <1>21, <1>22, <1>23, <1>24, <1>25,
     <1>26, <1>27, <1>28
  DEF Next, Poller, Dispatch, Completion

-----------------------------------------------------------------------------
(* A parked once task has a run *)

\* Tasks that no user edits and whose thread is nobody else's: their launches do not conflict.
Settles(t) == t \in Once \ (Reuse \cup Edited)

\* Without failures such a task is never put back by a dispatch that failed, a run whose hook is
\* done has settled it, and while it is parked (running, without a lease) it has a run that is
\* not done.
Parked ==
  faults = 0 => \A t \in Tasks : Settles(t) =>
    /\ \A r \in rows[t] : /\ step[r] \notin Failing
                          /\ step[r] \in InProgress /\ agent[r] = "done" => status[t] \in TerminalTask
    /\ up /\ status[t] = "running" /\ lease[t] = "none"
       => \E r \in rows[t] : agent[r] \in {"live", "ended", "rowSaved"}

\* A poll claims tasks that are not terminal.
LEMMA ClaimedTasks ==
    ASSUME Claim
    PROVE  \E C \in SUBSET Claimable :
             /\ status' = [k \in Tasks |-> IF k \in C THEN "running" ELSE status[k]]
             /\ lease' = [k \in Tasks |-> IF k \in C THEN "held" ELSE lease[k]]
BY DEF Claim

\* The sweeps of a restart, if both succeed, cancel what is parked.
LEMMA SweptRestart ==
    ASSUME Polling, TypeOK, Parked, Counted, Restart
    PROVE  Parked'
<1>1. PICK sweeps \in SUBSET {"rows", "tasks"} :
         /\ faults' = faults + 2 - Cardinality(sweeps)
         /\ status' = [k \in Tasks |-> IF "tasks" \in sweeps /\ k \in Stuck THEN "cancelled" ELSE status[k]]
  BY DEF Restart
<1>2. "tasks" \notin sweeps => faults' # 0
  <2>1. SUFFICES ASSUME "tasks" \notin sweeps PROVE faults' # 0
    OBVIOUS
  <2>2. IsFiniteSet({"rows"}) /\ Cardinality({"rows"}) = 1
    BY FS_Singleton
  <2>3. sweeps \in SUBSET {"rows"}
    BY <1>1, <2>1
  <2>4. IsFiniteSet(sweeps) /\ Cardinality(sweeps) <= Cardinality({"rows"})
    BY <2>2, <2>3, FS_Subset
  <2>5. Cardinality(sweeps) \in Nat /\ faults \in Nat
    BY <2>4, FS_CardinalityType DEF TypeOK
  <2>. QED
    BY <1>1, <2>2, <2>4, <2>5
<1>3. rows' = rows /\ step' = step /\ agent' = agent /\ lease' = lease
  BY DEF Restart, dispatch, run
<1>4. \A k \in Tasks : /\ status[k] \in TerminalTask => status'[k] \in TerminalTask
                       /\ "tasks" \in sweeps /\ k \in Once /\ lease[k] = "none" => status'[k] # "running"
  BY <1>1 DEF Stuck, TypeOK, TerminalTask
<1>5. ASSUME faults' = 0, NEW k \in Tasks, Settles(k)
      PROVE  /\ \A r \in rows[k] : /\ step[r] \notin Failing
                                   /\ step[r] \in InProgress /\ agent[r] = "done" => status'[k] \in TerminalTask
             /\ ~(status'[k] = "running" /\ lease[k] = "none")
  <2>1. faults = 0
    BY <1>5 DEF Counted, TypeOK
  <2>2. \A r \in rows[k] : /\ step[r] \notin Failing
                           /\ step[r] \in InProgress /\ agent[r] = "done" => status[k] \in TerminalTask
    BY <1>5, <2>1 DEF Parked
  <2>3. k \in Once /\ "tasks" \in sweeps
    BY <1>2, <1>5 DEF Settles
  <2>4. status[k] \in TerminalTask => status'[k] \in TerminalTask
    BY <1>4, <1>5
  <2>5. lease[k] = "none" => status'[k] # "running"
    BY <1>4, <1>5, <2>3
  <2>. QED
    BY <2>2, <2>4, <2>5
<1>. QED
  BY <1>3, <1>5 DEF Parked, Settles, InProgress, Booking, Failing, Skipping, TerminalTask

\* If both tables are swept when the process starts, every step keeps that.
LEMMA ParkedStep ==
    ASSUME Polling, TypeOK, Hooked, Begun, Owned, Alone, Parked, [Next]_vars
    PROVE  Parked'
<1>. USE SchedulerAssumption, CountedStep DEF tasks, dispatch, run, poll, bounds, Parked, Settles, Counted, Alone, TypeOK, InProgress, Booking, Failing, Skipping, Begun, Early, Owned, TerminalTask
<1>1. ASSUME CountActive PROVE Parked'
  BY <1>1 DEF CountActive
<1>2. ASSUME Claim PROVE Parked'
  <2>1. PICK C \in SUBSET Claimable :
           /\ status' = [k \in Tasks |-> IF k \in C THEN "running" ELSE status[k]]
           /\ lease' = [k \in Tasks |-> IF k \in C THEN "held" ELSE lease[k]]
    BY <1>2, ClaimedTasks
  <2>2. \A k \in C : status[k] \notin TerminalTask
    BY <2>1 DEF Claimable
  <2>3. UNCHANGED <<rows, step, agent, up, faults>>
    BY <1>2 DEF Claim
  <2>. QED
    BY <2>1, <2>2, <2>3
<1>3. ASSUME PollEnds PROVE Parked'
  BY <1>3 DEF PollEnds
<1>4. ASSUME NEW t \in Tasks, NEW r \in Rows, DispatchNext(t, r) PROVE Parked'
  BY <1>4 DEF DispatchNext, Begin
<1>5. ASSUME NEW t \in Tasks, Tick(t) PROVE Parked'
  BY <1>5 DEF Tick
<1>6. ASSUME NEW t \in Tasks, Expire(t) PROVE Parked'
  BY <1>6 DEF Expire
<1>7. ASSUME NEW e \in Edits, NEW t \in Tasks, EditReads(e, t) PROVE Parked'
  BY <1>7 DEF EditReads
<1>8. ASSUME NEW t \in Tasks, NEW r \in Rows, Trigger(t, r) PROVE Parked'
  BY <1>8 DEF Trigger, Begin
<1>9. ASSUME NEW t \in Tasks, NEW r \in Rows, Check(t, r) PROVE Parked'
  BY <1>9 DEF Check, Goto
<1>10. ASSUME NEW t \in Tasks, NEW r \in Rows, Create(t, r) PROVE Parked'
  BY <1>10 DEF Create, Goto
<1>11. ASSUME NEW t \in Tasks, NEW r \in Rows, Launch(t, r) PROVE Parked'
  BY <1>11 DEF Launch, Goto
<1>12. ASSUME NEW t \in Tasks, NEW r \in Rows, LaunchConflicts(t, r) PROVE Parked'
  BY <1>12 DEF LaunchConflicts, Goto
<1>13. ASSUME NEW t \in Tasks, NEW r \in Rows, BookRow(t, r) PROVE Parked'
  BY <1>13 DEF BookRow, Goto
<1>14. ASSUME NEW t \in Tasks, NEW r \in Rows, BookTask(t, r) PROVE Parked'
  BY <1>14 DEF BookTask, Goto, UpdateTask, NextAt, BookedTask
<1>15. ASSUME NEW t \in Tasks, NEW r \in Rows, SaveFailed(t, r) PROVE Parked'
  BY <1>15 DEF SaveFailed, Goto
<1>16. ASSUME NEW t \in Tasks, NEW r \in Rows, FailTask(t, r) PROVE Parked'
  BY <1>16 DEF FailTask, Goto, UpdateTask, NextAt, FailedTask
<1>17. ASSUME NEW t \in Tasks, NEW r \in Rows, SaveSkipped(t, r) PROVE Parked'
  BY <1>17 DEF SaveSkipped, Goto
<1>18. ASSUME NEW t \in Tasks, NEW r \in Rows, SkipTask(t, r) PROVE Parked'
  BY <1>18 DEF SkipTask, Goto, UpdateTask, NextAt, SkippedTask
<1>19. ASSUME NEW r \in Rows, NEW o \in Outcomes, RunEnds(r, o) PROVE Parked'
  BY <1>19 DEF RunEnds
<1>20. ASSUME NEW r \in Rows, HookRow(r) PROVE Parked'
  BY <1>20 DEF HookRow
<1>21. ASSUME NEW t \in Tasks, NEW r \in Rows, HookTask(t, r) PROVE Parked'
  BY <1>21 DEF HookTask
<1>22. ASSUME NEW r \in Rows, LaunchFails(r) PROVE Parked'
  BY <1>22 DEF LaunchFails, Fails, Goto
<1>23. ASSUME NEW r \in Rows, Raise(r) PROVE Parked'
  BY <1>23 DEF Raise, Fails, Goto
<1>24. ASSUME NEW r \in Rows, HookFails(r) PROVE Parked'
  BY <1>24 DEF HookFails, Fails
<1>25. ASSUME EditWrites PROVE Parked'
  BY <1>25 DEF EditWrites
<1>26. ASSUME Die PROVE Parked'
  BY <1>26 DEF Die
<1>27. ASSUME Restart PROVE Parked'
  BY <1>27, SweptRestart
<1>28. ASSUME UNCHANGED vars PROVE Parked'
  BY <1>28 DEF vars
<1>. QED
  BY <1>1, <1>2, <1>3, <1>4, <1>5, <1>6, <1>7, <1>8, <1>9, <1>10, <1>11, <1>12, <1>13,
     <1>14, <1>15, <1>16, <1>17, <1>18, <1>19, <1>20, <1>21, <1>22, <1>23, <1>24, <1>25,
     <1>26, <1>27, <1>28
  DEF Next, Poller, Dispatch, Completion

-----------------------------------------------------------------------------
(* The theorems *)

IInv == TypeOK /\ Hooked /\ Begun /\ Capped /\ Owned /\ Honest

\* The first state satisfies the invariant ...
LEMMA InitInvariant == Init => IInv
<1>. SUFFICES ASSUME Init PROVE IInv
  OBVIOUS
<1>1. TypeOK
  BY SchedulerAssumption DEF Init, TypeOK, TaskStatus
<1>2. Hooked /\ Begun /\ Owned /\ Honest
  BY SchedulerAssumption DEF Init, Hooked, Begun, Owned, Honest, Early, InProgress, Booking, Failing, Skipping
<1>3. Pending = {} /\ ~Dispatching /\ Room = 0
  BY DEF Init, Pending, Waits, Dispatching, Room
<1>4. Capped
  BY <1>3, FS_EmptySet, SchedulerAssumption DEF Capped
<1>. QED
  BY <1>1, <1>2, <1>4 DEF IInv

\* ... and so does every reachable one.
LEMMA Invariant == Spec => []IInv
<1>1. IInv /\ [Next]_vars => IInv'
  BY TypesStep, HookedStep, BegunStep, CappedStep, OwnedStep, HonestStep DEF IInv
<1>. QED
  BY <1>1, InitInvariant, PTL DEF Spec

\* max_concurrent_runs caps what the poller launches, whatever fails, dies or is triggered by
\* hand between the counting of the active rows and the last launch of the round.
THEOREM PollerIsCapped == Spec => []PollerWithinCap
<1>1. IInv => PollerWithinCap
  <2>. SUFFICES ASSUME IInv PROVE PollerWithinCap
    OBVIOUS
  <2>1. ActiveRows \cap scheduled \in SUBSET Pending
    BY DEF ActiveRows, Pending, Waits
  <2>2. Cardinality(ActiveRows \cap scheduled) <= Cardinality(Pending)
    BY <2>1, Counts, FS_Subset DEF IInv
  <2>3. Cardinality(ActiveRows \cap scheduled) \in Nat
    BY <2>1, Counts, FS_Subset, FS_CardinalityType DEF IInv
  <2>. QED
    BY <2>2, <2>3, Counts DEF IInv, Capped, PollerWithinCap
<1>. QED
  BY <1>1, Invariant, PTL

\* A row that blocks its task has somebody who will change it, provided that the process sweeps
\* the tables when it starts (scheduler.enabled).
THEOREM ActiveRowsAreServed == ASSUME Polling PROVE Spec => []ActiveRowHasRun
<1>1. Init => Served
  BY DEF Init, Served, Active, Booking
<1>2. IInv /\ Served /\ [Next]_vars => Served'
  BY ServedStep DEF IInv
<1>3. Served => ActiveRowHasRun
  BY DEF Served, ActiveRowHasRun, ActiveRows
<1>. QED
  BY <1>1, <1>2, <1>3, Invariant, PTL DEF Spec

\* "completed" is only ever written for an occurrence that has run with success, also by a
\* dispatch or an edit that puts back what it had read.
THEOREM CompletedMeansRan == Spec => []CompletedRan
<1>1. IInv => CompletedRan
  BY DEF IInv, Honest, Ran, CompletedRan
<1>. QED
  BY <1>1, Invariant, PTL

\* In the first state no dispatch is under way.
LEMMA AloneInit ==
    ASSUME Init
    PROVE  Alone /\ LaunchedOnce /\ Parked
BY DEF Init, Alone, LaunchedOnce, Spent, Parked, Settles, InProgress, Booking, Failing, Skipping, TerminalTask

\* Nothing else of the poller is under way while it dispatches.
LEMMA AloneAlways == Spec => []Alone
<1>1. IInv /\ Alone /\ [Next]_vars => Alone'
  BY AloneStep DEF IInv, Capped
<1>. QED
  BY <1>1, AloneInit, Invariant, PTL DEF Spec

\* Re-arming a task that was launched risks duplicate side effects: as long as the process lives
\* and at most one write or launch fails, and whatever is triggered by hand, the poller launches
\* the occurrence of a once task once.
THEOREM OccurrencesRunOnce == Spec => []RunsOnce
<1>1. IInv /\ Alone /\ LaunchedOnce /\ [Next]_vars => LaunchedOnce'
  BY LaunchedStep DEF IInv, Capped
<1>2. IInv /\ LaunchedOnce => RunsOnce
  BY SchedulerAssumption DEF IInv, TypeOK, LaunchedOnce, Spent, RunsOnce
<1>. QED
  BY <1>1, <1>2, AloneInit, AloneAlways, Invariant, PTL DEF Spec

\* A once task that is parked in "running" without a lease has a run whose hook will settle it,
\* provided that both tables are swept at a start and that no once task reuses a thread or is
\* edited: a manual trigger that loses such a thread writes back the "running" it has read, also
\* when the hook has settled the task in between.
THEOREM ParkedTasksHaveRuns ==
  ASSUME Polling, Once \cap (Reuse \cup Edited) = {} PROVE Spec => []ParkedHasRun
<1>1. IInv /\ Alone /\ Parked /\ [Next]_vars => Parked'
  BY ParkedStep DEF IInv
<1>2. IInv /\ Parked => ParkedHasRun
  BY SchedulerAssumption DEF Parked, Settles, ParkedHasRun
<1>. QED
  BY <1>1, <1>2, AloneInit, AloneAlways, Invariant, PTL DEF Spec

============================================================================
