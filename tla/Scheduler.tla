----------------------------- MODULE Scheduler -----------------------------
(***************************************************************************)
(* ScheduledTaskService with its two tables: the poller claims due tasks   *)
(* and dispatches them one after the other, clients trigger and edit tasks *)
(* through the router, the worker of a launched run calls the completion   *)
(* hook, and the process may die and be started again.                     *)
(*                                                                         *)
(* The service awaits the database or start_run between any two steps, so  *)
(* a step is one statement of a repository (a transaction) or a launch.    *)
(* All overlap policies are "skip", the only one that can be created.      *)
(***************************************************************************)
EXTENDS Naturals, FiniteSets

CONSTANTS
  Tasks,        \* scheduled tasks
  Once,         \* those with schedule_type "once", the others are "cron"
  Reuse,        \* those with context_mode "reuse_thread"
  Rows,         \* bound: the dispatches, each with a scheduled_task_runs row
  Limit,        \* max_concurrent_runs
  Polling,      \* scheduler.enabled
  Triggers,     \* bound: the manual triggers that get a row
  Edited,       \* the tasks that users pause, resume and edit
  MaxTicks,     \* bound: how often a task becomes due
  MaxTrouble    \* bound: failures of the database or a launch, deaths of the process, edits

ASSUME SchedulerAssumption ==
  /\ Once \subseteq Tasks /\ Reuse \subseteq Tasks /\ Edited \subseteq Tasks
  /\ IsFiniteSet(Tasks) /\ IsFiniteSet(Rows)
  /\ Limit \in Nat \ {0}
  /\ Polling \in BOOLEAN
  /\ {Triggers, MaxTicks, MaxTrouble} \subseteq Nat

VARIABLES
  status,    \* scheduled_tasks.status
  lease,     \* lease_expires_at: "none", "held", "expired"
  nextAt,    \* next_run_at: "none", "future", "due"
  rows,      \* the dispatches of each task
  row,       \* scheduled_task_runs.status, "absent" before create
  scheduled, \* the dispatches whose trigger is "scheduled", the others are "manual"
  step,      \* where dispatch_task is
  seen,      \* the task's status in the dict that dispatch_task was given
  ahead,     \* dispatches whose now is before the run_at of their once task
  agent,     \* the run: "none", "live", "ended", "rowSaved", "done"
  outcome,   \* how it ended, as the hook maps it
  poller,    \* run_once: "idle", "claim", "dispatch"
  budget,    \* its budget
  claimed,   \* the claimed tasks it has not dispatched yet
  editor,    \* a pause, resume or edit request between its read and its write
  up, ticks, faults, restarts, edits

tasks == <<status, lease, nextAt>>
dispatch == <<rows, scheduled, step, seen, ahead>>
run == <<agent, outcome>>
poll == <<poller, budget, claimed>>
bounds == <<ticks, faults, restarts, edits>>
vars == <<tasks, dispatch, row, run, poll, editor, up, bounds>>

Active == {"queued", "running"}
TerminalRow == {"success", "failed", "skipped", "interrupted"}
TerminalTask == {"completed", "failed", "cancelled"}
\* What handle_run_completion makes of the status of the run.
Outcomes == {"success", "failed", "interrupted"}
TaskStatus == TerminalTask \cup {"enabled", "paused", "running"}
Booking == {"bookRow", "bookTask"}
Failing == {"failRow", "failTask"}
Skipping == {"skipRow", "skipTask"}
InProgress == {"check", "create", "createSkip", "launch"} \cup Booking \cup Failing \cup Skipping
Edits == {"pause", "resume", "edit"}
NoEdit == [edit |-> "none"]

TypeOK ==
  /\ status \in [Tasks -> TaskStatus]
  /\ lease \in [Tasks -> {"none", "held", "expired"}]
  /\ nextAt \in [Tasks -> {"none", "future", "due"}]
  /\ rows \in [Tasks -> SUBSET Rows]
  /\ row \in [Rows -> {"absent"} \cup Active \cup TerminalRow]
  /\ scheduled \in SUBSET Rows
  /\ step \in [Rows -> {"unused", "over"} \cup InProgress]
  /\ seen \in [Rows -> TaskStatus]
  /\ ahead \in SUBSET Rows
  /\ agent \in [Rows -> {"none", "live", "ended", "rowSaved", "done"}]
  /\ outcome \in [Rows -> {"none"} \cup Outcomes]
  /\ poller \in {"idle", "claim", "dispatch"}
  /\ budget \in 0..Limit
  /\ claimed \in SUBSET Tasks
  /\ editor \in {NoEdit} \cup [edit : Edits, task : Edited, status : TaskStatus]
  /\ up \in BOOLEAN
  /\ {ticks, faults, restarts, edits} \subseteq Nat

Init ==
  /\ status = [t \in Tasks |-> "enabled"]
  /\ lease = [t \in Tasks |-> "none"]
  /\ nextAt = [t \in Tasks |-> "future"]
  /\ rows = [t \in Tasks |-> {}]
  /\ row = [r \in Rows |-> "absent"]
  /\ scheduled = {}
  /\ step = [r \in Rows |-> "unused"]
  /\ seen = [r \in Rows |-> "enabled"]
  /\ ahead = {}
  /\ agent = [r \in Rows |-> "none"]
  /\ outcome = [r \in Rows |-> "none"]
  /\ poller = "idle" /\ budget = 0 /\ claimed = {}
  /\ editor = NoEdit
  /\ up = TRUE
  /\ ticks = 0 /\ faults = 0 /\ restarts = 0 /\ edits = 0

-----------------------------------------------------------------------------
(* Helpers *)

ActiveRows == {r \in Rows : row[r] \in Active}

\* has_active_runs
HasActiveRuns(t) == \E r \in rows[t] : row[r] \in Active

Trouble == faults + restarts + edits

Fails == Trouble < MaxTrouble /\ faults' = faults + 1

\* Where dispatch_task goes on; its locals are gone when it returns.
Goto(r, place) ==
  /\ step' = [step EXCEPT ![r] = place]
  /\ seen' = IF place \in InProgress THEN seen ELSE [seen EXCEPT ![r] = "enabled"]
  /\ ahead' = IF place \in InProgress THEN ahead ELSE ahead \ {r}

\* next_run_at: a cron task has always a next occurrence, a once task only its run_at.
NextAt(t, r) ==
  IF t \notin Once THEN "future" ELSE IF r \in ahead THEN nextAt[t] ELSE "none"

\* Mutant: lease and schedule are left as they are.
UpdateStatus(t, r, s) ==
  /\ status' = [status EXCEPT ![t] = s]
  /\ UNCHANGED <<nextAt, lease>>

\* update_after_launch: the schedule goes on and the lease is given back.
UpdateTask(t, r, s) ==
  /\ status' = [status EXCEPT ![t] = s]
  /\ nextAt' = [nextAt EXCEPT ![t] = NextAt(t, r)]
  /\ lease' = [lease EXCEPT ![t] = "none"]

\* Time passes: an occurrence comes, a lease runs out.
Tick(t) ==
  /\ nextAt[t] = "future"
  /\ ticks < MaxTicks /\ ticks' = ticks + 1
  /\ nextAt' = [nextAt EXCEPT ![t] = "due"]
  /\ UNCHANGED <<status, lease, dispatch, row, run, poll, editor, up, faults, restarts, edits>>

Expire(t) ==
  /\ lease[t] = "held"
  /\ lease' = [lease EXCEPT ![t] = "expired"]
  /\ UNCHANGED <<status, nextAt, dispatch, row, run, poll, editor, up, bounds>>

-----------------------------------------------------------------------------
(* run_once *)

\* Mutant: every poll has the whole budget.
FullBudget == Limit

RemainingBudget == IF Cardinality(ActiveRows) < Limit THEN Limit - Cardinality(ActiveRows) ELSE 0

CountActive ==
  /\ up /\ Polling
  /\ poller = "idle"
  /\ RemainingBudget > 0
  /\ budget' = RemainingBudget
  /\ poller' = "claim"
  /\ UNCHANGED <<tasks, dispatch, row, run, claimed, editor, up, bounds>>

Claimable ==
  {t \in Tasks : /\ nextAt[t] = "due"
                 /\ \/ status[t] = "enabled" /\ lease[t] \in {"none", "expired"}
                    \/ status[t] = "running" /\ lease[t] = "expired"}

\* claim_due_tasks, as many as the budget allows.
Claim ==
  /\ up /\ poller = "claim"
  /\ \E C \in SUBSET Claimable :
       /\ Cardinality(C) <= budget
       /\ Cardinality(C) = budget \/ C = Claimable
       /\ claimed' = C
       /\ status' = [t \in Tasks |-> IF t \in C THEN "running" ELSE status[t]]
       /\ lease' = [t \in Tasks |-> IF t \in C THEN "held" ELSE lease[t]]
       /\ poller' = IF C = {} THEN "idle" ELSE "dispatch"
  /\ budget' = 0
  /\ UNCHANGED <<nextAt, dispatch, row, run, editor, up, bounds>>

\* The poller awaits the dispatch of a task.
Dispatching == \E r \in scheduled : step[r] \in InProgress

Begin(t, r) ==
  /\ step[r] = "unused"
  /\ rows' = [rows EXCEPT ![t] = @ \cup {r}]
  /\ step' = [step EXCEPT ![r] = "check"]

DispatchNext(t, r) ==
  /\ up /\ poller = "dispatch" /\ ~Dispatching
  /\ t \in claimed
  /\ claimed' = claimed \ {t}
  /\ scheduled' = scheduled \cup {r}
  /\ Begin(t, r)
  /\ UNCHANGED <<tasks, seen, ahead, row, run, poller, budget, editor, up, bounds>>

PollEnds ==
  /\ up /\ poller = "dispatch" /\ ~Dispatching
  /\ claimed = {}
  /\ poller' = "idle"
  /\ UNCHANGED <<tasks, dispatch, row, run, budget, claimed, editor, up, bounds>>

\* trigger_scheduled_task: the task is read and dispatched whatever its status.
Trigger(t, r) ==
  /\ up
  /\ Cardinality({q \in Rows \ scheduled : step[q] # "unused"}) < Triggers
  /\ Begin(t, r)
  /\ seen' = [seen EXCEPT ![r] = status[t]]
  /\ ahead' = IF nextAt[t] = "future" THEN ahead \cup {r} ELSE ahead
  /\ UNCHANGED <<tasks, scheduled, row, run, poll, editor, up, bounds>>

-----------------------------------------------------------------------------
(* dispatch_task *)

\* has_active_runs: a manual trigger against an active run is a conflict, without a row.
Check(t, r) ==
  /\ r \in rows[t] /\ step[r] = "check"
  /\ \/ HasActiveRuns(t) /\ r \in scheduled /\ Goto(r, "createSkip") /\ UNCHANGED rows
     \/ ~HasActiveRuns(t) /\ Goto(r, "create") /\ UNCHANGED rows
     \/ /\ HasActiveRuns(t) /\ r \notin scheduled
        /\ Goto(r, "unused")
        /\ rows' = [rows EXCEPT ![t] = @ \ {r}]
  /\ UNCHANGED <<tasks, scheduled, row, run, poll, editor, up, bounds>>

Create(t, r) ==
  /\ r \in rows[t] /\ step[r] \in {"create", "createSkip"}
  /\ row' = [row EXCEPT ![r] = "queued"]
  /\ Goto(r, IF step[r] = "create" THEN "launch" ELSE "skipRow")
  /\ UNCHANGED <<tasks, rows, scheduled, run, poll, editor, up, bounds>>

\* start_run admits the run; on a reused thread it rejects when a run is inflight.
Launch(t, r) ==
  /\ r \in rows[t] /\ step[r] = "launch"
  /\ t \in Reuse => \A q \in rows[t] : agent[q] # "live"
  /\ agent' = [agent EXCEPT ![r] = "live"]
  /\ Goto(r, "bookRow")
  /\ UNCHANGED <<tasks, rows, scheduled, row, outcome, poll, editor, up, bounds>>

\* ConflictError: a user or an earlier run is busy on the thread.
LaunchConflicts(t, r) ==
  /\ r \in rows[t] /\ step[r] = "launch"
  /\ t \in Reuse
  /\ Goto(r, IF r \in scheduled THEN "skipRow" ELSE "failRow")
  /\ UNCHANGED <<tasks, rows, scheduled, row, run, poll, editor, up, bounds>>

\* The launch, or the bookkeeping after it, raises.
LaunchFails(r) ==
  /\ step[r] \in {"launch"} \cup Booking
  /\ Fails
  /\ Goto(r, "failRow")
  /\ UNCHANGED <<tasks, rows, scheduled, row, run, poll, editor, up, ticks, restarts, edits>>

\* update_status(running, protect_terminal)
BookedRow(r) == IF row[r] \in TerminalRow THEN row[r] ELSE "running"

BookRow(t, r) ==
  /\ r \in rows[t] /\ step[r] = "bookRow"
  /\ row' = [row EXCEPT ![r] = BookedRow(r)]
  /\ Goto(r, "bookTask")
  /\ UNCHANGED <<tasks, rows, scheduled, run, poll, editor, up, bounds>>

\* Mutant: a once task goes back to running although its run is over.
BookedUnprotected(t, r) ==
  IF t \in Once THEN "running"
  ELSE IF r \notin scheduled /\ seen[r] = "paused" THEN "paused" ELSE "enabled"

\* update_after_launch(protect_terminal)
BookedTask(t, r) ==
  IF status[t] \in TerminalTask THEN status[t]
  ELSE IF t \in Once THEN "running"
  ELSE IF r \notin scheduled /\ seen[r] = "paused" THEN "paused" ELSE "enabled"

BookTask(t, r) ==
  /\ r \in rows[t] /\ step[r] = "bookTask"
  /\ UpdateTask(t, r, BookedTask(t, r))
  /\ Goto(r, "over")
  /\ UNCHANGED <<rows, scheduled, row, run, poll, editor, up, bounds>>

\* The except path writes both rows, and so does _finalize_skip.
SaveFailed(t, r) ==
  /\ r \in rows[t] /\ step[r] = "failRow"
  /\ row' = [row EXCEPT ![r] = "failed"]
  /\ Goto(r, "failTask")
  /\ UNCHANGED <<tasks, rows, scheduled, run, poll, editor, up, bounds>>

\* _task_status_for_failure
FailedTask(t, r) ==
  IF r \notin scheduled THEN seen[r] ELSE IF t \in Once THEN "failed" ELSE "enabled"

FailTask(t, r) ==
  /\ r \in rows[t] /\ step[r] = "failTask"
  /\ UpdateTask(t, r, FailedTask(t, r))
  /\ Goto(r, "over")
  /\ UNCHANGED <<rows, scheduled, row, run, poll, editor, up, bounds>>

SaveSkipped(t, r) ==
  /\ r \in rows[t] /\ step[r] = "skipRow"
  /\ row' = [row EXCEPT ![r] = "skipped"]
  /\ Goto(r, "skipTask")
  /\ UNCHANGED <<tasks, rows, scheduled, run, poll, editor, up, bounds>>

\* Mutant: an occurrence that was skipped counts as done.
SkippedIsCompleted(t) == IF t \in Once THEN "completed" ELSE "enabled"

\* _task_status_for_skip
SkippedTask(t) == IF t \in Once THEN "failed" ELSE "enabled"

SkipTask(t, r) ==
  /\ r \in rows[t] /\ step[r] = "skipTask"
  /\ UpdateTask(t, r, SkippedTask(t))
  /\ Goto(r, "over")
  /\ UNCHANGED <<rows, scheduled, row, run, poll, editor, up, bounds>>

\* The database fails where dispatch_task catches nothing: run_once ends as well.
Raise(r) ==
  /\ step[r] \in {"check", "create", "createSkip"} \cup Failing \cup Skipping
  /\ Fails
  /\ Goto(r, "over")
  /\ claimed' = IF r \in scheduled THEN {} ELSE claimed
  /\ UNCHANGED <<tasks, rows, scheduled, row, run, poller, budget, editor, up,
                 ticks, restarts, edits>>

-----------------------------------------------------------------------------
(* The run and handle_run_completion *)

RunEnds(r, o) ==
  /\ agent[r] = "live"
  /\ agent' = [agent EXCEPT ![r] = "ended"]
  /\ outcome' = [outcome EXCEPT ![r] = o]
  /\ UNCHANGED <<tasks, dispatch, row, poll, editor, up, bounds>>

HookRow(r) ==
  /\ agent[r] = "ended"
  /\ row' = [row EXCEPT ![r] = outcome[r]]
  /\ agent' = [agent EXCEPT ![r] = "rowSaved"]
  /\ UNCHANGED <<tasks, dispatch, outcome, poll, editor, up, bounds>>

\* A once task has had its occurrence.
HookTask(t, r) ==
  /\ r \in rows[t] /\ agent[r] = "rowSaved"
  /\ status' = IF t \notin Once THEN status
               ELSE [status EXCEPT ![t] = CASE outcome[r] = "success" -> "completed"
                                            [] outcome[r] = "interrupted" -> "cancelled"
                                            [] OTHER -> "failed"]
  /\ agent' = [agent EXCEPT ![r] = "done"]
  /\ UNCHANGED <<lease, nextAt, dispatch, row, outcome, poll, editor, up, bounds>>

\* The worker logs an exception of the hook and goes on.
HookFails(r) ==
  /\ agent[r] \in {"ended", "rowSaved"}
  /\ Fails
  /\ agent' = [agent EXCEPT ![r] = "done"]
  /\ UNCHANGED <<tasks, dispatch, row, outcome, poll, editor, up, ticks, restarts, edits>>

-----------------------------------------------------------------------------
(* The router's edits, and the process *)

\* The request reads the task; _ensure_task_mutable.
EditReads(e, t) ==
  /\ up /\ editor = NoEdit
  /\ t \in Edited
  /\ status[t] # "running"
  /\ editor' = [edit |-> e, task |-> t, status |-> status[t]]
  /\ Trouble < MaxTrouble /\ edits' = edits + 1
  /\ UNCHANGED <<tasks, dispatch, row, run, poll, up, ticks, faults, restarts>>

\* ... and writes it.  A new schedule re-arms a task that was terminal.
EditWrites ==
  /\ up /\ editor # NoEdit
  /\ LET t == editor.task
     IN /\ status' = [status EXCEPT ![t] =
              CASE editor.edit = "pause" -> "paused"
                [] editor.edit = "resume" -> "enabled"
                [] OTHER -> IF editor.status \in TerminalTask THEN "enabled" ELSE @]
        /\ nextAt' = IF editor.edit = "edit" THEN [nextAt EXCEPT ![t] = "future"] ELSE nextAt
  /\ editor' = NoEdit
  /\ UNCHANGED <<lease, dispatch, row, run, poll, up, bounds>>

Die ==
  /\ up /\ Trouble < MaxTrouble
  /\ restarts' = restarts + 1
  /\ up' = FALSE
  /\ step' = [r \in Rows |-> IF step[r] \in InProgress THEN "over" ELSE step[r]]
  /\ seen' = [r \in Rows |-> "enabled"] /\ ahead' = {}
  /\ agent' = [r \in Rows |-> IF agent[r] # "none" THEN "done" ELSE "none"]
  /\ poller' = "idle" /\ budget' = 0 /\ claimed' = {}
  /\ editor' = NoEdit
  /\ UNCHANGED <<tasks, rows, scheduled, row, outcome, ticks, faults, edits>>

\* cancel_stuck_once_tasks
Stuck == {t \in Once : status[t] = "running" /\ lease[t] = "none"}

\* Mutant: only queued rows are swept.
StaleQueued == {r \in Rows : row[r] = "queued"}

\* mark_stale_active_runs
Stale == ActiveRows

\* The process starts; the service sweeps both tables if polling is enabled.
Restart ==
  /\ ~up /\ up' = TRUE
  /\ \E sweeps \in SUBSET {"rows", "tasks"} :
       /\ ~Polling => sweeps = {}
       /\ IF Polling THEN /\ faults' = faults + 2 - Cardinality(sweeps)
                          /\ Trouble + 2 - Cardinality(sweeps) <= MaxTrouble
                     ELSE UNCHANGED faults
       /\ row' = [r \in Rows |-> IF "rows" \in sweeps /\ r \in Stale THEN "interrupted" ELSE row[r]]
       /\ status' = [t \in Tasks |-> IF "tasks" \in sweeps /\ t \in Stuck THEN "cancelled"
                                     ELSE status[t]]
  /\ UNCHANGED <<lease, nextAt, dispatch, run, poll, editor, ticks, restarts, edits>>

-----------------------------------------------------------------------------
\* What goes on by itself once it has begun.
Poller ==
  \/ CountActive \/ Claim \/ PollEnds
  \/ \E t \in Tasks, r \in Rows : DispatchNext(t, r)

Dispatch(t, r) ==
  \/ Check(t, r) \/ Create(t, r)
  \/ Launch(t, r) \/ LaunchConflicts(t, r)
  \/ BookRow(t, r) \/ BookTask(t, r)
  \/ SaveFailed(t, r) \/ FailTask(t, r)
  \/ SaveSkipped(t, r) \/ SkipTask(t, r)

Completion(t, r) ==
  \/ \E o \in Outcomes : RunEnds(r, o)
  \/ HookRow(r) \/ HookTask(t, r)

Next ==
  \/ Poller
  \/ \E t \in Tasks : Tick(t) \/ Expire(t) \/ \E e \in Edits : EditReads(e, t)
  \/ \E t \in Tasks, r \in Rows : Trigger(t, r) \/ Dispatch(t, r) \/ Completion(t, r)
  \/ \E r \in Rows : LaunchFails(r) \/ Raise(r) \/ HookFails(r)
  \/ EditWrites \/ Die \/ Restart

Spec == Init /\ [][Next]_vars

-----------------------------------------------------------------------------
(* Properties *)

\* max_concurrent_runs caps what the poller has launched: long runs that accumulate across
\* polls, failures and restarts do not make it exceed the cap.  (A manual trigger does not
\* look at the cap.)
PollerWithinCap == Cardinality(ActiveRows \cap scheduled) <= Limit

\* Re-arming a once task that was launched risks duplicate side effects: while the process
\* lives and nobody re-schedules it, the poller launches its occurrence once, even when one
\* launch or bookkeeping write fails.
RunsOnce ==
  restarts = 0 /\ faults <= 1 =>
    \A t \in Once \ Edited : \A q, r \in rows[t] \cap scheduled :
      agent[q] # "none" /\ agent[r] # "none" => q = r

\* A row that says queued or running has a dispatch or a run that will change it; one that
\* has not blocks its task (409, skipped) and uses up the budget.
ActiveRowHasRun ==
  up /\ faults = 0 => \A r \in ActiveRows : step[r] \in InProgress \/ agent[r] \in {"live", "ended"}

\* A once task parked in "running" without a lease is invisible to the poller and to edits:
\* there is a run whose hook, or a dispatch that, will move it on.
ParkedHasRun ==
  up /\ faults = 0 =>
    \A t \in Once : status[t] = "running" /\ lease[t] = "none"
      => \E r \in rows[t] : step[r] \in InProgress \/ agent[r] \in {"live", "ended", "rowSaved"}

\* "completed" never claims an execution that did not happen.
CompletedRan ==
  \A t \in Once : status[t] = "completed" => \E r \in rows[t] : outcome[r] = "success"

=============================================================================
