---------------------------- MODULE RunLifecycle ----------------------------
(***************************************************************************)
(* The runs of one thread of the gateway: RunManager (admission, cancel,   *)
(* shutdown, recovery), the worker task run_agent, the start_run request   *)
(* that creates it, the row of each run in the RunStore, the head of the   *)
(* thread's checkpoint and the status shown in threads_meta.               *)
(*                                                                         *)
(* An action is the code between two points where a coroutine can be       *)
(* suspended.  Suspension points are the awaits on the store, on the       *)
(* checkpointer, on the agent's stream and on RunManager._lock while       *)
(* another coroutine holds it; an await that cannot suspend is no point.   *)
(***************************************************************************)
EXTENDS Naturals, FiniteSets

CONSTANTS
  Runs,         \* run ids, all of one thread
  EventStore,   \* a run event store is configured (workers keep a journal)
  Windows,      \* the early windows in which a cancellation may strike
  FaultKinds,   \* which external failures happen: "store", "checkpoint", "start"
  MaxFaults,    \* bound: how many of them
  MaxRestarts   \* bound: how many times the process dies and comes back

ASSUME ConstantsAssumption ==
  /\ IsFiniteSet(Runs)
  /\ EventStore \in BOOLEAN
  /\ Windows \subseteq {"noTask", "unstarted", "unsnapshotted"}
  /\ FaultKinds \subseteq {"store", "checkpoint", "start"}
  /\ MaxFaults \in Nat /\ MaxRestarts \in Nat

VARIABLES
  status,         \* RunRecord.status, "absent" when the manager holds no record
  abort,          \* abort_event and abort_action: "no", "interrupt", "rollback"
  finalizing,     \* RunRecord.finalizing
  earlier,        \* the runs recorded before this one (order of _runs)
  req,            \* where the start_run request of the run is
  victims,        \* local inflight of create_or_reject, to be interrupted
  strategy,       \* multitask_strategy while create_or_reject runs
  lock,           \* runs whose create_or_reject holds RunManager._lock (at most one)
  task,           \* where the worker task is, "absent" while record.task is None
  outcome,        \* what ended the worker's stream
  cancelReq,      \* task.cancel() was called and is not delivered yet
  snap,           \* pre_run_snapshot: the work in the checkpoint, {} for None
  snapFailed,     \* snapshot_capture_failed
  owed,           \* owed[r]: coroutines about to write "interrupted" to r's row
  row,            \* status column of the run's row in the RunStore
  head,           \* the runs whose work is in the thread's latest checkpoint
  threadStatus,   \* threads_meta status of the thread
  drained,        \* the runs RunManager.shutdown waits for
  life,           \* "up", "draining", "drained", "down"
  faults, restarts

memory == <<status, abort, finalizing, req, victims, strategy, lock, task, outcome,
            cancelReq, snap, snapFailed, owed, drained>>
vars == <<memory, earlier, row, head, threadStatus, life, faults, restarts>>

Live == {"pending", "running"}
Terminal == {"success", "error", "interrupted"}
Actions == {"interrupt", "rollback"}
Strategies == Actions \cup {"reject"}

\* Callers of _persist_status(interrupted): an admission, the cancel endpoint, shutdown.
Callers == Runs \cup {"api", "shutdown"}

Waiting == {"scheduled", "waitPrior", "saveRunning", "snapshot"}
Places == Waiting \cup {"stream", "finish", "saveOutcome", "rollback", "complete",
                        "awaitTitle", "titling", "syncThread", "release"}

TypeOK ==
  /\ status \in [Runs -> {"absent"} \cup Live \cup Terminal]
  /\ abort \in [Runs -> {"no"} \cup Actions]
  /\ finalizing \in [Runs -> BOOLEAN]
  /\ earlier \in [Runs -> SUBSET Runs]
  /\ req \in [Runs -> {"idle", "persist", "upsert", "build", "launched", "refused", "failed", "lost"}]
  /\ victims \in [Runs -> SUBSET Runs]
  /\ strategy \in [Runs -> Strategies]
  /\ lock \in SUBSET Runs
  /\ task \in [Runs -> {"absent", "done", "cancelled"} \cup Places]
  /\ outcome \in [Runs -> {"none", "success", "fallback", "exception", "abort", "earlyAbort"}]
  /\ cancelReq \in [Runs -> BOOLEAN]
  /\ snap \in [Runs -> SUBSET Runs]
  /\ snapFailed \in [Runs -> BOOLEAN]
  /\ owed \in [Runs -> SUBSET Callers]
  /\ row \in [Runs -> {"absent"} \cup Live \cup Terminal]
  /\ head \in SUBSET Runs
  /\ threadStatus \in {"absent", "idle"} \cup Live \cup Terminal
  /\ drained \in SUBSET Runs
  /\ life \in {"up", "draining", "drained", "down"}
  /\ faults \in 0..MaxFaults
  /\ restarts \in 0..MaxRestarts

InitMemory ==
  /\ status = [r \in Runs |-> "absent"]
  /\ abort = [r \in Runs |-> "no"]
  /\ finalizing = [r \in Runs |-> FALSE]
  /\ req = [r \in Runs |-> "idle"]
  /\ victims = [r \in Runs |-> {}]
  /\ strategy = [r \in Runs |-> "reject"]
  /\ lock = {}
  /\ task = [r \in Runs |-> "absent"]
  /\ outcome = [r \in Runs |-> "none"]
  /\ cancelReq = [r \in Runs |-> FALSE]
  /\ snap = [r \in Runs |-> {}]
  /\ snapFailed = [r \in Runs |-> FALSE]
  /\ owed = [r \in Runs |-> {}]
  /\ drained = {}

Init ==
  /\ InitMemory
  /\ earlier = [r \in Runs |-> {}]
  /\ row = [r \in Runs |-> "absent"]
  /\ head = {}
  /\ threadStatus = "absent"
  /\ life = "up"
  /\ faults = 0
  /\ restarts = 0

-----------------------------------------------------------------------------
(* Helpers *)

Free == lock = {}

\* record.task is not None and not record.task.done()
TaskActive(r) == task[r] \in Places

Recorded == {r \in Runs : status[r] # "absent"}

\* Mutant: admission overlooks the runs that are still pending.
InflightStarted == {r \in Runs : status[r] = "running" \/ finalizing[r]}

\* The runs create_or_reject and has_inflight count as inflight.
Inflight == {r \in Runs : status[r] \in Live \/ finalizing[r]}

\* Mutants: nobody waits for the cleanup of older runs, or a run waits for its own.
PriorIgnored(r) == r \in Runs
PriorAndSelf(r) == \A q \in Recorded : ~finalizing[q]

\* wait_for_prior_finalizing has nothing to wait for.
PriorSettled(r) == \A q \in earlier[r] \cap Recorded : ~finalizing[q]

\* has_later_started_run
LaterStarted(r) ==
  \E q \in Recorded : r \in earlier[q] /\ (status[q] # "pending" \/ finalizing[q])

\* An external call fails: an exhausted store retry, a checkpointer error, a bad request.
Fails(kind) ==
  /\ kind \in FaultKinds
  /\ faults < MaxFaults
  /\ faults' = faults + 1

\* Mutant: status writes never reach the store.
SaveNothing(r, s) == UNCHANGED <<row, faults>>

\* _persist_status / update_run_completion: best effort, a failed write is only logged.
SaveRow(r, s) ==
  \/ row' = [row EXCEPT ![r] = s] /\ UNCHANGED faults
  \/ UNCHANGED row /\ Fails("store")

\* The early window, if any, in which cancelling r would strike.
Window(r, action) ==
  IF req[r] \in {"persist", "upsert", "build"} THEN "noTask"
  ELSE IF task[r] = "scheduled" THEN "unstarted"
  ELSE IF task[r] \in Waiting /\ action = "rollback" THEN "unsnapshotted"
  ELSE "none"

Strikable(r, action) == Window(r, action) \in Windows \cup {"none"}

\* What cancel and create_or_reject do, under the lock, to every run of V.
Interrupt(V, action) ==
  /\ abort' = [r \in Runs |-> IF r \in V THEN action ELSE abort[r]]
  /\ finalizing' = [r \in Runs |-> IF r \in V THEN TaskActive(r) ELSE finalizing[r]]
  /\ cancelReq' = [r \in Runs |-> cancelReq[r] \/ (r \in V /\ TaskActive(r))]
  /\ status' = [r \in Runs |-> IF r \in V THEN "interrupted" ELSE status[r]]

Goto(r, place) == task' = [task EXCEPT ![r] = place]

-----------------------------------------------------------------------------
(* start_run: admission, thread metadata, launch *)

\* create_or_reject up to the await on the store, which it makes with the lock held.
Admit(r, s) ==
  /\ life = "up" /\ Free
  /\ req[r] = "idle"
  /\ s = "reject" => Inflight = {}
  /\ s # "reject" => \A v \in Inflight : Strikable(v, s)
  /\ req' = [req EXCEPT ![r] = "persist"]
  /\ lock' = {r}
  /\ status' = [status EXCEPT ![r] = "pending"]
  /\ strategy' = [strategy EXCEPT ![r] = s]
  /\ earlier' = [earlier EXCEPT ![r] = {q \in Runs : row[q] # "absent"} \cup Recorded]
  /\ victims' = [victims EXCEPT ![r] = Inflight]
  /\ UNCHANGED <<abort, finalizing, task, outcome, cancelReq, snap, snapFailed, owed,
                 drained, row, head, threadStatus, life, faults, restarts>>

\* ConflictError: the reject strategy finds an inflight run.
Refuse(r) ==
  /\ life = "up" /\ Free
  /\ req[r] = "idle"
  /\ Inflight # {}
  /\ req' = [req EXCEPT ![r] = "refused"]
  /\ UNCHANGED <<status, abort, finalizing, earlier, victims, strategy, lock, task, outcome,
                 cancelReq, snap, snapFailed, owed, row, head, threadStatus, drained, life,
                 faults, restarts>>

\* The inflight runs that create_or_reject goes on to interrupt.
ToInterrupt(r) == {v \in victims[r] : ~finalizing[v]}

\* The row is stored: interrupt the victims, release the lock.
Persisted(r) ==
  /\ req[r] = "persist"
  /\ row' = [row EXCEPT ![r] = "pending"]
  /\ Interrupt(ToInterrupt(r), IF strategy[r] = "reject" THEN "interrupt" ELSE strategy[r])
  /\ owed' = [v \in Runs |-> IF v \in ToInterrupt(r) THEN owed[v] \cup {r} ELSE owed[v]]
  /\ lock' = {}
  /\ req' = [req EXCEPT ![r] = "upsert"]
  /\ victims' = [victims EXCEPT ![r] = {}]
  /\ strategy' = [strategy EXCEPT ![r] = "reject"]
  /\ UNCHANGED <<earlier, task, outcome, snap, snapFailed, head,
                 threadStatus, drained, life, faults, restarts>>

\* The put fails: the record is rolled back (the row may have been committed or not).
PersistFails(r) ==
  /\ req[r] = "persist"
  /\ Fails("store")
  /\ \E s \in {"absent", "pending"} : row' = [row EXCEPT ![r] = s]
  /\ status' = [status EXCEPT ![r] = "absent"]
  /\ lock' = {}
  /\ req' = [req EXCEPT ![r] = "failed"]
  /\ victims' = [victims EXCEPT ![r] = {}]
  /\ strategy' = [strategy EXCEPT ![r] = "reject"]
  /\ UNCHANGED <<abort, finalizing, earlier, task, outcome, cancelReq,
                 snap, snapFailed, owed, head, threadStatus, drained, life, restarts>>

\* The late write of "interrupted" by cancel, create_or_reject or shutdown.
SaveInterrupted(by, r) ==
  /\ by \in owed[r]
  /\ owed' = [owed EXCEPT ![r] = @ \ {by}]
  /\ SaveRow(r, "interrupted")
  /\ UNCHANGED <<status, abort, finalizing, earlier, req, victims, strategy, lock, task, outcome,
                 cancelReq, snap, snapFailed, head, threadStatus, drained, life, restarts>>

\* start_run writes threads_meta: a new thread is "idle", a known one "running".
UpsertThread(r) ==
  /\ req[r] = "upsert"
  /\ \A v \in Runs : r \notin owed[v]
  /\ req' = [req EXCEPT ![r] = "build"]
  /\ \/ /\ threadStatus' = IF threadStatus = "absent" THEN "idle" ELSE "running"
        /\ UNCHANGED faults
     \/ UNCHANGED threadStatus /\ Fails("store")
  /\ UNCHANGED <<status, abort, finalizing, earlier, victims, strategy, lock, task, outcome,
                 cancelReq, snap, snapFailed, owed, row, head, drained, life, restarts>>

\* apply_checkpoint_to_run_config raises: the request ends, its pending record stays.
StartFails(r) ==
  /\ req[r] = "build"
  /\ Fails("start")
  /\ req' = [req EXCEPT ![r] = "failed"]
  /\ UNCHANGED <<status, abort, finalizing, earlier, victims, strategy, lock, task, outcome,
                 cancelReq, snap, snapFailed, owed, row, head, threadStatus, drained, life,
                 restarts>>

\* asyncio.create_task(run_agent(...)); record.task = task
Launch(r) ==
  /\ req[r] = "build"
  /\ req' = [req EXCEPT ![r] = "launched"]
  /\ Goto(r, "scheduled")
  /\ UNCHANGED <<status, abort, finalizing, earlier, victims, strategy, lock, outcome, cancelReq,
                 snap, snapFailed, owed, row, head, threadStatus, drained, life, faults, restarts>>

\* RunManager.cancel, by the cancel endpoint or by a client that disconnects.
Cancel(r, action) ==
  /\ life = "up" /\ Free
  /\ status[r] \in Live
  /\ Strikable(r, action)
  /\ Interrupt({r}, action)
  /\ owed' = [owed EXCEPT ![r] = @ \cup {"api"}]
  /\ UNCHANGED <<earlier, req, victims, strategy, lock, task, outcome, snap, snapFailed, row,
                 head, threadStatus, drained, life, faults, restarts>>

-----------------------------------------------------------------------------
(* run_agent, the worker task *)

\* Cancelled before its first step: the coroutine is closed without entering its try,
\* so neither an except clause nor the finally runs.
NeverStarts(r) ==
  /\ task[r] = "scheduled" /\ cancelReq[r]
  /\ Goto(r, "cancelled")
  /\ cancelReq' = [cancelReq EXCEPT ![r] = FALSE]
  /\ UNCHANGED <<status, abort, finalizing, earlier, req, victims, strategy, lock, outcome, snap,
                 snapFailed, owed, row, head, threadStatus, drained, life, faults, restarts>>

\* The first step runs as far as wait_for_prior_finalizing.
Start(r) ==
  /\ task[r] = "scheduled" /\ ~cancelReq[r]
  /\ Goto(r, "waitPrior")
  /\ UNCHANGED <<status, abort, finalizing, earlier, req, victims, strategy, lock, outcome,
                 cancelReq, snap, snapFailed, owed, row, head, threadStatus, drained, life,
                 faults, restarts>>

\* The wait is over: set_status(running), up to its await on the store.
MarkRunning(r) ==
  /\ task[r] = "waitPrior" /\ ~cancelReq[r]
  /\ Free /\ PriorSettled(r)
  /\ status' = [status EXCEPT ![r] = "running"]
  /\ Goto(r, "saveRunning")
  /\ UNCHANGED <<abort, finalizing, earlier, req, victims, strategy, lock, outcome, cancelReq,
                 snap, snapFailed, owed, row, head, threadStatus, drained, life, faults, restarts>>

SaveRunning(r) ==
  /\ task[r] = "saveRunning" /\ ~cancelReq[r]
  /\ SaveRow(r, "running")
  /\ Goto(r, "snapshot")
  /\ UNCHANGED <<status, abort, finalizing, earlier, req, victims, strategy, lock, outcome,
                 cancelReq, snap, snapFailed, owed, head, threadStatus, drained, life, restarts>>

\* The pre-run checkpoint is read, or the read fails and rollback is disabled.
Snapshot(r) ==
  /\ task[r] = "snapshot" /\ ~cancelReq[r]
  /\ \/ snap' = [snap EXCEPT ![r] = head] /\ UNCHANGED <<snapFailed, faults>>
     \/ /\ Fails("checkpoint")
        /\ snapFailed' = [snapFailed EXCEPT ![r] = TRUE]
        /\ UNCHANGED snap
  /\ Goto(r, "stream")
  /\ UNCHANGED <<status, abort, finalizing, earlier, req, victims, strategy, lock, outcome,
                 cancelReq, owed, row, head, threadStatus, drained, life, restarts>>

\* The agent checkpoints its work (the input first, then every step).
StreamStep(r) ==
  /\ task[r] = "stream" /\ ~cancelReq[r]
  /\ r \notin head
  /\ head' = head \cup {r}
  /\ UNCHANGED <<status, abort, finalizing, earlier, req, victims, strategy, lock, task, outcome,
                 cancelReq, snap, snapFailed, owed, row, threadStatus, drained, life, faults,
                 restarts>>

\* How a stream may end: an abort is seen at a chunk or after the last one, an exception
\* may come at any time, the other ends need the agent to have run.
StreamEnds(r, o) ==
  /\ task[r] = "stream" /\ ~cancelReq[r]
  /\ \/ o = "exception"
     \/ o = "abort" /\ abort[r] # "no"
     \/ o \in {"success", "fallback"} /\ abort[r] = "no" /\ r \in head
  /\ outcome' = [outcome EXCEPT ![r] = o]
  /\ Goto(r, "finish")
  /\ UNCHANGED <<status, abort, finalizing, earlier, req, victims, strategy, lock, cancelReq, snap,
                 snapFailed, owed, row, head, threadStatus, drained, life, faults, restarts>>

\* Mutant: the abort action is not looked at.
AbortIsError(r) == "error"
\* The status an aborted run ends with.
AbortStatus(r) == IF abort[r] = "rollback" THEN "error" ELSE "interrupted"

\* Section 8 and the except Exception clause: set_finalizing and set_status.
Settle(r) ==
  /\ task[r] = "finish" /\ ~cancelReq[r]
  /\ Free
  /\ status' = [status EXCEPT ![r] = CASE outcome[r] = "success" -> "success"
                                       [] outcome[r] = "abort" -> AbortStatus(r)
                                       [] OTHER -> "error"]
  /\ finalizing' = [finalizing EXCEPT ![r] = @ \/ outcome[r] = "abort"]
  /\ Goto(r, "saveOutcome")
  /\ UNCHANGED <<abort, earlier, req, victims, strategy, lock, outcome, cancelReq, snap, snapFailed,
                 owed, row, head, threadStatus, drained, life, faults, restarts>>

\* except CancelledError.  A store write that was under way may or may not have landed.
Cancelled(r) ==
  /\ task[r] \in {"waitPrior", "saveRunning", "snapshot", "stream", "finish"}
  /\ cancelReq[r]
  /\ ~(task[r] = "finish" /\ outcome[r] = "exception")
  /\ Free
  /\ cancelReq' = [cancelReq EXCEPT ![r] = FALSE]
  /\ outcome' = [outcome EXCEPT ![r] = IF task[r] = "waitPrior" THEN "earlyAbort" ELSE "abort"]
  /\ finalizing' = [finalizing EXCEPT ![r] = TRUE]
  /\ status' = [status EXCEPT ![r] = AbortStatus(r)]
  /\ \/ UNCHANGED row
     \/ task[r] = "saveRunning" /\ row' = [row EXCEPT ![r] = "running"]
  /\ Goto(r, "saveOutcome")
  /\ UNCHANGED <<abort, earlier, req, victims, strategy, lock, snap, snapFailed, owed, head,
                 threadStatus, drained, life, faults, restarts>>

\* CancelledError inside the except Exception clause: straight to the finally.
CancelledInHandler(r) ==
  /\ task[r] = "finish" /\ cancelReq[r]
  /\ outcome[r] = "exception"
  /\ cancelReq' = [cancelReq EXCEPT ![r] = FALSE]
  /\ Goto(r, "complete")
  /\ UNCHANGED <<status, abort, finalizing, earlier, req, victims, strategy, lock, outcome, snap,
                 snapFailed, owed, row, head, threadStatus, drained, life, faults, restarts>>

RollsBack(r) == outcome[r] \in {"abort", "earlyAbort"} /\ abort[r] = "rollback"

SaveOutcome(r) ==
  /\ task[r] = "saveOutcome"
  /\ SaveRow(r, status[r])
  /\ Goto(r, IF RollsBack(r) THEN "rollback" ELSE "complete")
  /\ UNCHANGED <<status, abort, finalizing, earlier, req, victims, strategy, lock, outcome,
                 cancelReq, snap, snapFailed, owed, head, threadStatus, drained, life, restarts>>

\* Mutants: a rollback always deletes the thread, or never restores anything.
DeletedHead(r) == IF snapFailed[r] THEN head ELSE {}
\* _rollback_to_pre_run_checkpoint: without a snapshot the thread is deleted.
RolledBackHead(r) == IF snapFailed[r] THEN head ELSE snap[r]

Rollback(r) ==
  /\ task[r] = "rollback"
  /\ \/ head' = RolledBackHead(r) /\ UNCHANGED faults
     \/ UNCHANGED head /\ Fails("checkpoint")
  /\ Goto(r, "complete")
  /\ UNCHANGED <<status, abort, finalizing, earlier, req, victims, strategy, lock, outcome,
                 cancelReq, snap, snapFailed, owed, row, threadStatus, drained, life, restarts>>

\* The finally clause, as far as update_run_completion; only a worker that got past
\* wait_for_prior_finalizing has a journal.
Complete(r) ==
  /\ task[r] = "complete"
  /\ IF EventStore /\ outcome[r] # "earlyAbort"
     THEN SaveRow(r, status[r])
     ELSE UNCHANGED <<row, faults>>
  /\ Goto(r, IF status[r] = "interrupted" THEN "awaitTitle" ELSE "syncThread")
  /\ UNCHANGED <<status, abort, finalizing, earlier, req, victims, strategy, lock, outcome,
                 cancelReq, snap, snapFailed, owed, head, threadStatus, drained, life, restarts>>

\* An interrupted run writes a fallback title unless a later run may have moved on.
AwaitTitle(r) ==
  /\ task[r] = "awaitTitle"
  /\ Free /\ PriorSettled(r)
  /\ Goto(r, IF LaterStarted(r) THEN "syncThread" ELSE "titling")
  /\ UNCHANGED <<status, abort, finalizing, earlier, req, victims, strategy, lock, outcome,
                 cancelReq, snap, snapFailed, owed, row, head, threadStatus, drained, life,
                 faults, restarts>>

\* _ensure_interrupted_title: a checkpoint with a title, on top of the latest one.
WriteTitle(r) ==
  /\ task[r] = "titling"
  /\ Goto(r, "syncThread")
  /\ UNCHANGED <<status, abort, finalizing, earlier, req, victims, strategy, lock, outcome,
                 cancelReq, snap, snapFailed, owed, row, head, threadStatus, drained, life,
                 faults, restarts>>

\* Mutant: the thread status is only synchronised after a success.
SyncedSuccess(r) == IF status[r] = "success" THEN "idle" ELSE threadStatus

SyncedStatus(r) == IF status[r] = "success" THEN "idle" ELSE status[r]

\* thread_store.update_status: a missing thread row stays missing.
SyncThread(r) ==
  /\ task[r] = "syncThread"
  /\ \/ /\ threadStatus' = IF threadStatus = "absent" THEN "absent" ELSE SyncedStatus(r)
        /\ UNCHANGED faults
     \/ UNCHANGED threadStatus /\ Fails("store")
  /\ Goto(r, "release")
  /\ UNCHANGED <<status, abort, finalizing, earlier, req, victims, strategy, lock, outcome,
                 cancelReq, snap, snapFailed, owed, row, head, drained, life, restarts>>

\* What Release leaves in finalizing, and its mutant that leaves the flag as it was.
KeepFinalizing(r) == finalizing[r]
FinalizingAfter(r) == FALSE


\* set_finalizing(False), publish_end: the task is done, its locals are gone.
Release(r) ==
  /\ task[r] = "release"
  /\ Free
  /\ finalizing' = [finalizing EXCEPT ![r] = FinalizingAfter(r)]
  /\ Goto(r, "done")
  /\ outcome' = [outcome EXCEPT ![r] = "none"]
  /\ snap' = [snap EXCEPT ![r] = {}]
  /\ snapFailed' = [snapFailed EXCEPT ![r] = FALSE]
  /\ UNCHANGED <<status, abort, earlier, req, victims, strategy, lock, cancelReq, owed, row, head, threadStatus, drained, life, faults, restarts>>

-----------------------------------------------------------------------------
(* Shutdown, death and recovery of the process *)

\* RunManager.shutdown cancels the active tasks; their status is decided after the drain.
Shutdown ==
  /\ life = "up" /\ Free
  /\ restarts < MaxRestarts
  /\ life' = "draining"
  /\ drained' = {r \in Runs : status[r] \in Live /\ TaskActive(r)}
  /\ abort' = [r \in Runs |-> IF r \in drained' THEN "interrupt" ELSE abort[r]]
  /\ cancelReq' = [r \in Runs |-> cancelReq[r] \/ r \in drained']
  /\ UNCHANGED <<status, finalizing, earlier, req, victims, strategy, lock, task, outcome, snap,
                 snapFailed, owed, row, head, threadStatus, faults, restarts>>

\* Drained runs that did not complete on their own: still pending, or ended cancelled.
Unsettled ==
  {r \in drained : TaskActive(r) \/ task[r] = "cancelled" \/ status[r] \in Live}

\* The drain ends, by itself or at its timeout.
DrainEnds ==
  /\ life = "draining" /\ Free
  /\ life' = "drained"
  /\ status' = [r \in Runs |-> IF r \in Unsettled /\ status[r] \in Live THEN "interrupted"
                                                                         ELSE status[r]]
  /\ owed' = [r \in Runs |-> IF r \in Unsettled THEN owed[r] \cup {"shutdown"} ELSE owed[r]]
  /\ UNCHANGED <<abort, finalizing, earlier, req, victims, strategy, lock, task, outcome, cancelReq,
                 snap, snapFailed, row, head, threadStatus, drained, faults, restarts>>

\* The process ends, cleanly or not: what was in memory is gone.
Die ==
  /\ life # "down"
  /\ restarts < MaxRestarts
  /\ restarts' = restarts + 1
  /\ life' = "down"
  /\ status' = [r \in Runs |-> "absent"]
  /\ abort' = [r \in Runs |-> "no"]
  /\ finalizing' = [r \in Runs |-> FALSE]
  /\ req' = [r \in Runs |-> IF req[r] = "idle" THEN "idle" ELSE "lost"]
  /\ victims' = [r \in Runs |-> {}]
  /\ strategy' = [r \in Runs |-> "reject"]
  /\ lock' = {}
  /\ task' = [r \in Runs |-> "absent"]
  /\ outcome' = [r \in Runs |-> "none"]
  /\ cancelReq' = [r \in Runs |-> FALSE]
  /\ snap' = [r \in Runs |-> {}]
  /\ snapFailed' = [r \in Runs |-> FALSE]
  /\ owed' = [r \in Runs |-> {}]
  /\ drained' = {}
  /\ UNCHANGED <<earlier, row, head, threadStatus, faults>>

\* The newest run of the thread that has a row.
Newest(r) == row[r] # "absent" /\ \A q \in Runs : r \in earlier[q] => row[q] = "absent"

\* Mutant: recovery overlooks the runs that never started.
StartedOrphans == {r \in Runs : row[r] = "running"}

Orphans == {r \in Runs : row[r] \in Live}

\* reconcile_orphaned_inflight_runs and _mark_latest_recovered_threads_error, at startup
\* and before any request.  A row whose write fails is skipped.
Restart ==
  /\ life = "down"
  /\ \E skipped \in SUBSET Orphans :
       /\ Cardinality(skipped) <= (IF "store" \in FaultKinds THEN MaxFaults - faults ELSE 0)
       /\ faults' = faults + Cardinality(skipped)
       /\ row' = [r \in Runs |-> IF r \in Orphans \ skipped THEN "error" ELSE row[r]]
       /\ threadStatus' = IF threadStatus # "absent" /\ \E r \in Orphans \ skipped : Newest(r)
                          THEN "error" ELSE threadStatus
  /\ life' = "up"
  /\ UNCHANGED <<memory, earlier, head, restarts>>

-----------------------------------------------------------------------------
Request(r) ==
  \/ \E s \in Strategies : Admit(r, s)
  \/ Refuse(r) \/ Persisted(r) \/ PersistFails(r) \/ UpsertThread(r) \/ StartFails(r) \/ Launch(r)

Worker(r) ==
  \/ NeverStarts(r) \/ Start(r) \/ MarkRunning(r) \/ SaveRunning(r) \/ Snapshot(r)
  \/ StreamStep(r) \/ (\E o \in {"success", "fallback", "exception", "abort"} : StreamEnds(r, o))
  \/ Settle(r) \/ Cancelled(r) \/ CancelledInHandler(r) \/ SaveOutcome(r) \/ Rollback(r)
  \/ Complete(r) \/ AwaitTitle(r) \/ WriteTitle(r) \/ SyncThread(r) \/ Release(r)

Next ==
  \/ \E r \in Runs : \/ Request(r) \/ Worker(r)
                     \/ \E a \in Actions : Cancel(r, a)
                     \/ \E by \in Callers : SaveInterrupted(by, r)
  \/ Shutdown \/ DrainEnds \/ Die \/ Restart

\* The event loop runs every coroutine that can run; a stream ends because the graph's
\* recursion limit bounds it.  Nothing forces a client to start or to cancel a run.
Fairness ==
  /\ \A r \in Runs :
       /\ WF_vars(Persisted(r) \/ PersistFails(r))
       /\ WF_vars(UpsertThread(r))
       /\ WF_vars(StartFails(r) \/ Launch(r))
       /\ WF_vars(Worker(r))
       /\ \A by \in Callers : WF_vars(SaveInterrupted(by, r))
  /\ WF_vars(Restart)

Spec == Init /\ [][Next]_vars
FairSpec == Spec /\ Fairness
-----------------------------------------------------------------------------
(* Properties *)

\* No fault has happened and the process has not died: what the code promises then.
Undisturbed == faults = 0 /\ restarts = 0

\* The worker may change the thread's checkpoint.
Writes(r) ==
  \/ task[r] \in {"snapshot", "stream", "finish", "titling"}
  \/ task[r] \in {"saveOutcome", "rollback"} /\ RollsBack(r)

\* wait_for_prior_finalizing, create_or_reject and finalizing together: two runs of a
\* thread never work on its checkpoint at the same time, cleanup after a cancel included.
SingleWriter == \A q, r \in Runs : Writes(q) /\ Writes(r) => q = r

\* Admission is atomic: whenever RunManager._lock is free at most one run of the thread is
\* pending or running, whatever strategies and cancellations raced.
AtMostOneLive == Free => \A q, r \in Runs : status[q] \in Live /\ status[r] \in Live => q = r

\* finalizing says that a worker is still cleaning up; a record that keeps the flag without
\* a worker blocks the thread (409 for reject, an endless wait for the others).
FinalizingHasWorker == \A r \in Runs : finalizing[r] => TaskActive(r)

\* The row of a run whose worker and whose cancellers are done agrees with the record.
\* A rollback is the exception: the late "interrupted" of cancel may land after "error".
RowAgrees ==
  \A r \in Runs : Undisturbed /\ task[r] = "done" /\ owed[r] = {}
                  => \/ row[r] = status[r]
                     \/ row[r] = "interrupted" /\ status[r] = "error" /\ abort[r] = "rollback"

\* Once the process is up again (or never died) a row that says pending or running belongs
\* to a run it holds: nobody shows an indefinitely active run.
ActiveRowIsHeld ==
  \A r \in Runs : life # "down" /\ faults = 0 /\ row[r] \in Live => status[r] # "absent"

\* The thread shows "running" only while a request or a worker is there to change it.
RunningThreadHasRun ==
  Undisturbed /\ life = "up" /\ threadStatus = "running"
  => \E r \in Runs : req[r] = "build" \/ TaskActive(r)

\* A run's work leaves the checkpoint only if that very run was asked to roll back, and a
\* rollback that succeeds leaves none of it: it undoes its own run and no other.
OnlyOwnWorkUndone ==
  [][\A r \in Runs :
       /\ r \in head \ head' => abort[r] = "rollback"
       /\ task[r] = "rollback" /\ task'[r] = "complete" /\ faults' = 0 => r \notin head']_vars

\* Outcomes are final: success and error stay, interrupted may only become the error of
\* the rollback that interrupted it (until the process dies).
OutcomeIsFinal ==
  [][\A r \in Runs : status[r] \in Terminal /\ status'[r] # status[r]
       => \/ life' = "down"
          \/ status[r] = "interrupted" /\ status'[r] = "error" /\ abort[r] = "rollback"]_vars

\* A task that was cancelled before its first step has left its flag behind, and the runs
\* after it wait without end: the one way in which the code lets a thread hang.
Stuck == \E r \in Runs : finalizing[r] /\ task[r] = "cancelled"

\* Nobody waits forever: a launched run ends, its stream gets its end marker and the run no
\* longer blocks the next one, unless a task was cancelled before its first step.
LaunchedRunEnds ==
  \A r \in Runs :
    req[r] = "launched" ~> (task[r] = "done" /\ ~finalizing[r]) \/ req[r] = "lost" \/ Stuck

\* Every admitted run stops being inflight, with the same exception.
AdmittedRunLeaves == \A r \in Runs : r \in Inflight ~> r \notin Inflight \/ Stuck

-----------------------------------------------------------------------------
(* The inductive invariants behind AtMostOneLive and FinalizingHasWorker *)

Unlaunched == {"persist", "upsert", "build"}

\* A request that has not begun has left no trace in the manager.
IdleIsFresh ==
  \A r \in Runs : req[r] = "idle" => status[r] = "absent" /\ ~finalizing[r] /\ ~cancelReq[r]

\* Only a launched request has a task.
TaskLaunched ==
  \A r \in Runs : task[r] # "absent" => req[r] \notin Unlaunched \cup {"idle"}

\* The lock is held by the one create_or_reject that awaits the store.
LockHolder == \A r \in Runs : r \in lock <=> req[r] = "persist"
OneHolder == \A q, r \in lock : q = r

\* A live run is not cleaning up.
LiveNotFinalizing == \A r \in Runs : status[r] \in Live => ~finalizing[r]

\* A run that was not cancelled is live until its worker has marked it running.
UncancelledIsLive ==
  \A r \in Runs : (req[r] \in Unlaunched \/ task[r] \in {"scheduled", "waitPrior"}) /\ ~cancelReq[r]
                  => status[r] \in Live

\* The runs an admission will interrupt have been launched.
VictimsLaunched ==
  \A r \in Runs : req[r] = "persist" => \A v \in victims[r] : req[v] \notin Unlaunched \cup {"idle"}

\* The runs of a drain are cancelled until their worker has noticed.
DrainedCancelled ==
  \A r \in drained : task[r] \in {"scheduled", "waitPrior"} => cancelReq[r]
DrainedLaunched == \A r \in drained : req[r] \notin Unlaunched \cup {"idle"}

\* At most one run is live, but for the one that is about to replace it.
LiveButVictims ==
  \A q, r \in Runs : status[q] \in Live /\ status[r] \in Live /\ q # r
    => \E h \in lock : \/ q = h /\ r \in victims[h]
                       \/ r = h /\ q \in victims[h]

\* All of it: why admission is exclusive when no cancellation strikes a run without a task.
AdmissionInv ==
  /\ TypeOK
  /\ IdleIsFresh /\ TaskLaunched /\ LockHolder /\ OneHolder
  /\ LiveNotFinalizing /\ UncancelledIsLive
  /\ VictimsLaunched /\ DrainedCancelled /\ DrainedLaunched
  /\ LiveButVictims
=============================================================================
