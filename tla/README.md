# StackPlanner 2.0 in TLA+

StackPlanner 2.0 is an agent gateway: a FastAPI process that admits *runs* of a
conversation *thread*, executes each of them in an asyncio task, streams its
events to clients, remembers facts about the user, starts runs from a schedule
and from chat platforms, and gives its agents a planner, subagents and sandboxes.
These modules model the parts of it where the order of steps decides whether it is
correct. TLC checks them on small instances; TLAPS proves every safety property of the
passing runs for every value of the constants that the modules assume. Liveness is
model-checked only.

All paths below are relative to `src/backend`; `harness` stands for
`packages/harness/deerflow`.

## 1. The system

### Components, their state and how they interact

| component | code | state | operations | modelled in |
|---|---|---|---|---|
| Run manager | `harness/runtime/runs/manager.py` | run records, their index by thread, one asyncio lock | admit, cancel, set status, wait for cleanup, shut down, recover | `RunLifecycle` |
| Run worker | `harness/runtime/runs/worker.py` | locals of one task per run: snapshot, outcome | stream, finish, roll back, title, synchronize, release | `RunLifecycle` |
| Run request | `app/gateway/services.py` | a coroutine per HTTP request | start a run, relay its events | `RunLifecycle`, `StreamBridge` |
| Run rows | `harness/persistence/run/sql.py` | one row per run | put, update status, list inflight | `RunLifecycle` |
| Stream bridge | `harness/runtime/stream_bridge/` | per run: retained events, offset, ended | publish, end, subscribe from an id, cleanup | `StreamBridge`, `EventLog` |
| Memory queue | `harness/agents/memory/queue.py` | queued contexts, timer, processing flag | add, flush, process | `MemoryQueue` |
| Scheduler | `app/scheduler/service.py` | none beyond its poll loop | poll, dispatch, complete, sweep | `Scheduler` |
| Scheduled task tables and router | `harness/persistence/scheduled_tasks/`, `scheduled_task_runs/`, `app/gateway/routers/scheduled_tasks.py` | tasks with leases, one row per dispatch | claim, book, sweep; trigger, pause, resume, update | `Scheduler` |
| Goal continuation | `harness/runtime/goal.py`, `runs/worker.py`, `app/gateway/routers/threads.py` | the goal in the checkpoint, a lock per thread | set, clear, compact, evaluate, persist, continue, stand down | `GoalContinuation` |
| Planner: action router and budget | `harness/sp/actions/router.py`, `sp/agent_tools.py`, `agents/thread_state.py` | iteration, idempotency ledger, last result, pending question | admit, route, record, join | `CentralActions` |
| Planner: task memory | `harness/sp/memory/stack.py`, `sp/actions/handlers/`, `agents/thread_state.py` | a bounded stack of entries | append, condense, revise, backtrack, prune, join | `TaskMemory` |
| Subagents | `harness/subagents/executor.py`, `tools/builtins/task_tool.py` | a result holder per task, a table of background tasks, a pool, an isolated loop | submit, poll, settle, cancel, clean up | `SubagentTasks` |
| Sandboxes | `harness/community/aio_sandbox/`, `community/warm_pool_lifecycle.py` | maps of active sandboxes, a warm pool | acquire, release, get, evict, reap, shut down, reconcile | `SandboxPool` |
| Message channels | `app/channels/manager.py`, `store.py`, `message_bus.py` | recent messages, locks, stored threads | receive, make the thread, run, answer, fail | `ChannelManager` |
| Memory updater, journal, Redis bridge, tool budget, MCP sessions, middlewares, other adapters, frontend, deployment | | | | not modelled (section 6) |

A client's request admits a run (`create_or_reject`, under the manager's lock),
writes its row and the thread's row, and creates the worker task. The worker waits
for the cleanup of older runs of its thread, takes a snapshot of the checkpoint,
streams the agent, and publishes each event to the bridge, from which any number
of clients read. Cancelling (or admitting with strategy `interrupt` or `rollback`)
sets an event, marks the record *finalizing* and cancels the task, whose cleanup
may restore the snapshot. When a turn has ended and the thread has a goal, the
worker asks an evaluator and may start another, hidden turn. The end of a run calls
the completion hook of the scheduler if the scheduler launched it. The agent's
memory middleware and the summarization hook put the conversation in the memory
queue, which threads empty after a debounce. The central agent of the planner emits
control actions, several of them in one turn: each is routed and handled on the
snapshot of the thread state that all of them share, and the reducers of the thread
state join what they return. DELEGATE, and the task tool of the lead agent, hand
work to a subagent on an isolated event loop. Tools acquire the sandbox of the
thread. Chat platforms deliver messages, which become runs of the thread of their
conversation.

### What is hard

* Everything a coroutine reads before an `await` can be stale after it: admission
  awaits the store with the lock held, cancellation writes the row after it has
  released it, completion races with bookkeeping, a pause with a dispatch, an
  evaluation with the goal it judges.
* A cancellation can strike at any suspension point, in an exception handler, or
  before the task has taken its first step.
* Writes to the run store are best effort; the process can die between any two.
* Clients of a stream are cut off and come back with the last id they saw, while
  the buffer is trimmed under them.
* The memory queue is shared by timer threads, flushes and middlewares; a subagent's
  result by a pool thread, a coroutine and whoever cancels; the maps of sandboxes
  by tool threads, an idle checker and a shutdown, with slow calls of the container
  runtime between two critical sections.
* The actions of one planner turn all start from the same state and are joined by
  reducers that have no memory of who wrote what.
* Platforms deliver messages again, during the work and after a failure.

What must hold for each: one writer of the checkpoint per thread, final outcomes,
rollbacks that undo only their own run, no run that waits for ever (run lifecycle);
in-order delivery without repetition, loss only of trimmed events, an end that
arrives (bridge); nothing stranded, one updater, no lost correction (queue); no
double launch, no stuck row or task, "completed" is true (scheduler); a goal that
was cleared stays cleared and causes a bounded number of turns (goals); the budget
of a planner run is used up by what it does, a success is not forgotten, what was
condensed does not come back, human feedback and the results of siblings survive
(planner); the first end of a subagent is the one its caller sees, and nothing of
it stays behind; no container is lost, stopped under its user, or both active and
parked; a message is handled once and its conversation has one thread.

`PROJECT.json` lists every component with its status, and the hazards that matter
most at their lines with the properties that watch them.

## 2. The modules

A step of a model is the code between two points where another actor can get in:
the awaits of a coroutine, the ends of a critical section of a thread, one
repository call of the scheduler, one call of the container runtime. Everything the
code does in between belongs to the same action. Definitions carry the names of
the code where they can. History variables, which the code does not have, are named
as such where they are declared.

### RunLifecycle

The runs of *one* thread; runs of different threads share only the lock, which is
held for long by `create_or_reject` alone (the actions that need it have the guard
`Free`).

* `status`, `abort`, `finalizing` are fields of `RunRecord`; `earlier` is the order
  of insertion in `_runs`; `req`, `victims`, `strategy` are the program counter and
  the locals of `create_or_reject` and `start_run`; `task`, `outcome`, `cancelReq`,
  `snap`, `snapFailed` those of `run_agent`, with `cancelReq` for a cancellation
  asyncio has not delivered yet. `owed` holds who still has to write "interrupted"
  to a row. `row`, `head` (the runs whose work is in the latest checkpoint) and
  `threadStatus` are persistent: `Die` keeps them and `Restart` starts from them.
* Request: `Admit` or `Refuse`, `Persisted` or `PersistFails`, `UpsertThread`,
  `StartFails` or `Launch`. Worker: `Start`, `MarkRunning`, `SaveRunning`,
  `Snapshot`, `StreamStep`, `StreamEnds`, `Settle` or `Cancelled`, `SaveOutcome`,
  `Rollback`, `Complete`, `AwaitTitle`, `WriteTitle`, `SyncThread`, `Release`.
  `NeverStarts` is a task cancelled before its first step; `CancelledInHandler` a
  cancellation inside `except Exception`. `Shutdown` and `DrainEnds` are the
  graceful end, `Die` the other one.
* `Windows` names the early moments at which a cancellation may strike: before
  the task exists (`"noTask"`), before its first step (`"unstarted"`), before its
  snapshot (`"unsnapshotted"`). At each the code departs from what one would like it
  to promise (section 4). `lifecycle_restart` admits none of them,
  `lifecycle_live` the last two.
* The agent is one step that puts the run's work in the checkpoint; the goal loop
  of the worker is in `GoalContinuation`.

### StreamBridge and EventLog

`EventLog` is what a client relies on: a log that is closed once, of which a
client reads events in order, skipping some only when at least `Retained` newer ones
exist, and is told of the end last. `StreamBridge` is
`MemoryStreamBridge` with the SSE consumer: `start`, `len`, `counter` and `ended`
of a stream object, `next` of each generator, and what the client has `seen`.
Events are numbered, so an event id is its sequence number and
`_resolve_start_offset` is arithmetic on it (`Resolve`). A generator keeps a
reference to its stream object, so there are two: the one the worker writes and
the one `_get_or_create_stream` makes after `cleanup`. `Disconnect` may happen at
any time; the client then subscribes again with its last id. `Log` is the
refinement mapping.

### MemoryQueue

`MemoryUpdateQueue` with its timers: `current` is `_timer`, `timer[t]` the life of
a thread (idle, armed, fired, updating), `pending` and `flagged` the queued
contexts and their correction flags, `batch` and `batchFlags` what a thread has
taken. `untold` is history: corrections detected but not yet told. The lock makes
each critical section a step; `TakeAll`, one `Update` per context and `Finish` are
separate steps. A set of turns stands for a list of messages.

### Scheduler

Both tables, the poller, `dispatch_task` step by step, the completion hook, the
router's read-then-write edits, the clock and the leases, database and launch
failures, death and restart with the two sweeps. `Launch` summarizes
`launch_scheduled_thread_run`: it succeeds, conflicts with a live run of a reused
thread, or fails. One gateway process runs the scheduler.

### TaskMemory

The stack as the functions of `stack.py` compute it, over a sequence of entries with
an id, an action, a status, a priority, a run and parents: `Push` appends and
`MaintainSize` prunes and ages, `Condense`, `MarkBacktracked` and `Revise` are the
three operations that withdraw entries, `Prune` the pruning around a run. A run as
the middlewares drive it: `NewRun` restores, on a fresh turn keeps what is `Carried`,
records the request or the reply and prunes; `Answer` records a free-form answer;
`EndRun` may summarize, and prunes. A turn: `Emit` gives each sibling the same
snapshot, `Execute` applies one handler (`Results`) to it in a branch of its own,
`Reserve` and `ExecuteSummarize` are a SUMMARIZE with its reservation (`reserved`, of
`sp/agent_tools.py`), and `Join` merges the branches (`Merge`, of
`merge_sp_task_memory`) in the order of the calls. Text budgets, quality checks and
model replies are choices; an abandoned turn leaves no trace.

### CentralActions

The router's decision on a call (`Route`, the checks of `ActionRouter.execute` in
their order: malformed, collision, repetition, delegation policy, correction,
recovery, handler), the budget (`Admits`, `Count` for `sp_action_count`), the ledger
with its merge and its bound, and the run around them. A call is its place in
`minted`, which is also its idempotency key; a forced REFLECT has a key derived from
it. `turns` and `succeeded` are history. The stack of entries is left out: what a
policy reads there is a choice.

### SubagentTasks

`SubagentResult` as `holder`, with `try_set_terminal` in two steps (`Claim` writes
the payload, `Publish` the status) because readers look at the status without the
lock. Three actors per delegation: the tool call (which polls, or blocks as the
synchronous DELEGATE does), a thread of the pool, and the coroutine on the isolated
loop. Deadlines pass whenever they like; `Abort` is the end of the parent run;
`table` is `_background_tasks`, of which every way out of the tool must remove its
entry.

### SandboxPool

`AioSandboxProvider` with local containers: `active`, `warm` (oldest first) and
`idle` are its maps, `container` the truth of the container runtime. An acquire is
a process under the lock of its thread: it looks in the maps, asks the runtime
whether the container lives, promotes, discovers, evicts, starts and waits until it
is ready, and may be cancelled. The idle checker and a shutdown are the two
`Keepers`. A created `SandboxInfo` knows the id of its container, a discovered one
only the name, which decides what a late stop hits. A stop or a listing may fail,
and the process may die and reconcile when it is back.

### ChannelManager

One handler per accepted delivery: `Receive` (deduplication, with keys that lapse by
age or number), `Admit` (semaphore), `Lock`, `Create`, `Store` (the thread of a
conversation, made behind a lock that is taken out of the registry when it was
released), `Start`, `Answer`, and the failures. A streaming chat hides an error in a
final message and keeps its key; any other failure forgets the key.

### GoalContinuation

The goal of one thread: everyone who changes a checkpoint replaces the latest one
by a changed copy of what he read. `holder` is `goal_thread_lock`; `head` and `copy`
are checkpoints, `carried` is what a turn has loaded, `draft` what an update of the
state has read without the lock. The evaluation is a process of a dozen steps
(`ReadGoal` to `PersistPuts`) with its re-reads, the comparison of checkpoint ids and
of goal instances, and the two caps. A goal is its number, a conversation one of a
few names that is reused once nobody remembers it, and `count`, `stalls` and `key`
are the counters stored with the goal. `buried`, `late`, `edited`, `tainted` and
`pushed` are history.

### How the modules meet

The modules describe parts that share little state. `StreamBridge` relies on the
worker of `RunLifecycle` only for "publishes, then ends once" (`Release` is where the
end is published). `GoalContinuation` relies on `RunLifecycle` for one run of the
thread at a time (`SingleWriter`) and says itself when a compaction refuses to run
(`has_inflight`). `Scheduler` and `ChannelManager` see a run as something that is
accepted, refused or failed, and ends. `TaskMemory` and `CentralActions` are the
two halves of one planner turn: the same snapshot, siblings and reducers, one with
the entries and the other with the counters. `EventLog` is the one abstract
specification, refined by `StreamBridge`.

### What the bounds are and why they suffice

| run | instance | why it is enough |
|---|---|---|
| `lifecycle_restart` | 3 runs, event store, 1 failed start, 1 death | three runs give an admission that interrupts a run while an older one still cleans up; every guard relates at most two runs and the holder of the lock |
| `lifecycle_live` | 2 runs, no event store, 1 failing store or checkpointer call, cancellations from the creation of the task on | liveness without symmetry; a run and the one that waits for it |
| `stream_log` | 2 clients, 2 retained of 4 events | trimming happens twice, a client can lag behind the whole buffer and be cut off before, in and after it |
| `queue_safety` | 2 conversations, 1 turn, 3 threads | one thread updating, one fired and finding it busy, one armed; two conversations share the timer |
| `scheduler_tables` | a once and an edited cron task that reuses its thread, 2 dispatches, cap 1, 1 manual trigger, 2 ticks, 1 failure or death | the second task is due while the first fills the cap, a trigger meets the poller, trouble at any point |
| `memory_turns` | 2 siblings, 6 entries, 2 runs, stack of 3, history of 4 | each bound of the stack is reached and passed, siblings meet in every pair |
| `central_turns` | budget 3, ledger 3, 2 siblings, 3 calls, REVISE and ASK_HUMAN also repeated under their keys, 2 runs | the ledger overflows, keys of an older run meet those of a new one, a failed REVISE is retried beside a sibling, the last action is the reserved one |
| `subagents` | 2 tasks, 1 thread of the pool | one task waits in the queue of the pool while the other runs, hangs or ends |
| `sandbox_containers` | 2 threads, room for 1, 2 infos, 1 fault, 1 restart | an acquire must evict the other thread's container; a promoted, a discovered and a fresh info of one name meet |
| `sandbox_evicted` | the same with 3 infos | the counterexample needs a discovery |
| `channel_messages` | 2 messages, a plain and a streaming chat, 2 slots, 1 remembered key and 1 more, 3 deliveries, 1 failure | the same message twice and another one, in one conversation or two; a key is pushed out |
| `goals` | 2 goals, 1 continuation, 1 stall, 1 update | a goal is replaced while it is judged; both caps are reached |

The counters behind these bounds (`faults`, `restarts`, `ticks`, `edits`, `made`,
`received`, `minted` and so on) exist only in the models. Deadlock is checked in no
run: every system here may stop for good when nobody asks anything of it any
more, or when its bounded inputs are used up; liveness properties take its place.
Symmetry is used for runs, rows, clients and threads that are only compared, and
only in runs without liveness properties.

## 3. What the runs show

| run | result | question |
|---|---|---|
| `lifecycle_restart` | holds | A failing start, a graceful drain, a death at any point and the recovery: one writer of the checkpoint at a time (`SingleWriter`), a finalizing flag always has a worker (`FinalizingHasWorker`), a thread shown as running has a run (`RunningThreadHasRun`), no active row without a record (`ActiveRowIsHeld`), rollbacks undo their own run and no other (`OnlyOwnWorkUndone`). |
| `lifecycle_live` | holds | Admission is exclusive (`AtMostOneLive`), rows agree with records once their writers are done (`RowAgrees`), outcomes are final (`OutcomeIsFinal`); under fairness every launched run ends and stops blocking its thread (`LaunchedRunEnds`, `AdmittedRunLeaves`), except behind a task that was cancelled before its first step. |
| `stream_log` | holds | `MemoryStreamBridge` implements the log (`LogSpec`); the end reaches whoever subscribed before the cleanup (`EndReachesSubscriber`). |
| `queue_safety` | holds | No context is stranded (`NotStranded`), one thread updates (`OneUpdater`), a correction is not lost to a replacement (`CorrectionNotLost`), and a queue left alone is emptied (`ProcessedWhenQuiet`). |
| `scheduler_tables` | holds | The poller keeps its cap (`PollerWithinCap`), launches an occurrence once (`RunsOnce`), active rows and parked tasks have a run that will settle them (`ActiveRowHasRun`, `ParkedHasRun`), "completed" means it ran (`CompletedRan`). |
| `memory_turns` | holds | What a summary replaced does not come back beside it (`CondensedStaysOut`), human feedback stays (`FeedbackKept`), the results of siblings survive the join (`ResultsSurvive`), one summary per turn commits (`OneSummaryPerTurn`). |
| `central_turns` | holds | Turns that recorded an action use up the budget (`TurnsCounted`), and the ledger keeps every success that it does not push out and no sibling overwrites (`SuccessRemembered`), with siblings, repeats, retries, malformed and failing calls. |
| `subagents` | holds | The caller is told the first end (`AnswerIsTrue`), entries are removed on every way out (`EntryLeaves`), coroutines of settled tasks end (`CoroutineEnds`). |
| `sandbox_containers` | holds | No container runs on forgotten (`NoneLost`), none is active and parked (`NeverBoth`). |
| `sandbox_evicted` | violated | see section 4 (`ActiveNotStopped`) |
| `channel_messages` | holds | A message is handled once while its key is remembered (`HandledOnce`), a failure is not a black hole (`NoBlackHole`), a conversation gets one thread (`OneThread`), every delivery ends (`EveryoneAnswered`). |
| `goals` | holds | A cleared goal does not come back (`EndedStaysEnded`), causes a bounded number of turns (`ContinuationsBounded`), a compaction misses nothing that was written while it summarized (`CompactionMissesNothing`), a run with a goal ends (`RunEnds`). |

Each property has a mutant of the code in its module (the definitions marked
*Mutant*) under which it fails: a forgotten guard, a flag that is kept, a write that
is dropped, a reducer that replaces, an offset that is off by one.

Each module states its types (`TypeOK`; for `SandboxPool`, `PoolTypes`; for
`SubagentTasks`, `Types` in the proofs). No run is spent on them: they are conjuncts
of the inductive invariants of section 5, or follow from them (`StackTypeOK` for
`TaskMemory`, `TypeOK` for `CentralActions`).

Some properties are deliberately conditional, as the code is. `RowAgrees` and
`RunningThreadHasRun` speak of a system without faults: writes are best effort. A
rolled back run may end with row "interrupted" and record "error", since the late
write of `cancel` is not ordered with the worker's. `ActiveRowHasRun` and
`ParkedHasRun` hold until a write fails; `RunsOnce` speaks of one life of the
process and at most one failure; `PollerWithinCap` counts what the poller started,
as manual triggers do not look at the cap. `NoneLost` exempts what the three
faults the code swallows have lost. `EndedStaysEnded` and `ContinuationsBounded`
exempt goals that a turn or an unlocked update had read before. `HandledOnce` ends
with the memory of the key. `SuccessRemembered` exempts the retry that a sibling
overwrites (`Overwritten`, section 4).

### Fairness

* `RunLifecycle`: weak fairness of each coroutine that can run, because the event
  loop is a FIFO of ready callbacks; of the worker as a whole, which has one
  program counter. A stream ends because the graph has a recursion limit. Of
  `Restart`, so that a dead process comes back. Requests and cancellations are
  not fair: nobody has to make one. `Stuck` exempts the one way in which the code
  lets a thread hang (section 4).
* `StreamBridge`: weak fairness of each client's loop, which wakes at every event
  and every heartbeat. Not of the worker: the property begins after it ended.
* `MemoryQueue`: weak fairness of timers going off and of fired threads; the
  operating system schedules both. Not of conversations.
* `SubagentTasks`: weak fairness of polls, pool threads, the isolated loop and the
  second half of a settlement, for each task. Not of the model: a coroutine may hang
  in a call for ever, and only a deadline or a cancellation then ends it.
* `ChannelManager`: weak fairness of each handler, which asyncio runs when it is
  ready; the Gateway answers or the client times out. Not of deliveries.
* `GoalContinuation`: weak fairness of loading, of a turn's end, of the evaluation
  and of an endpoint that holds the lock; strong fairness of `PersistReads`, since
  `asyncio.Lock` wakes its waiters in order. Not of the endpoints' requests.

## 4. Where the code departs from its word

`sandbox_evicted` shows one disagreement (`community/warm_pool_lifecycle.py:64`). The
eviction pops an entry under the lock and stops its container after releasing it;
meanwhile the thread of that entry discovers the running container and makes it
active, and the stop hits a sandbox in use, against "Active sandboxes are in use by
live threads and must not be forcibly stopped" (`aio_sandbox_provider.py:878`). The
idle reaper has the same window.

Known limits that came up while modelling. They are outside the properties, or
exempted by their conditions; no run is devoted to them.

* Run lifecycle: a run cancelled between the end of its admission and the creation
  of its task is not marked finalizing, yet its worker starts (`manager.py:594`). A
  task cancelled before its first step never enters the `try` of `run_agent`; its
  record stays finalizing and later runs are refused or wait (`manager.py:595`,
  `Stuck`). A rollback before the pre-run snapshot finds `None` and deletes the
  thread (`worker.py:1006`).
* Streams: a client that subscribes to an ended run after its cleanup is attached to
  a new stream that nobody will end (`memory.py:115`).
* Memory queue: a context queued by the summarization hook is replaced by the next
  one of the conversation, although its messages have left the state
  (`queue.py:154`). The updater puts back a fact that was deleted while it asked
  its model (`updater.py:567`).
* Scheduler: two overlapping manual triggers both find the task free
  (`service.py:98`); a pause between claim and bookkeeping is overwritten
  (`service.py:143`); a once task can be launched again after a crash; a manual
  trigger that read a once task as running and is refused, since the task reuses a
  busy thread, writes "running" back without a guard (`service.py:68`,
  `service.py:191`), and when the completion hook came in between the task stays
  parked with no run (found by the proof of `ParkedHasRun`, hence its condition);
  an edit between the hook and the bookkeeping of the launch does the same; with the
  scheduler disabled nothing sweeps the rows a crash left active (hence `Polling` in
  the theorem about them).
* Planner: an entry one sibling withdrew returns when another sibling still holds
  it (`thread_state.py:145`, against `stack.py:233-236`). A failed action that is
  retried with success beside a sibling may be recorded as failed: every branch returns
  the whole ledger of its snapshot (`router.py:1132-1135`), in which the old failure
  still stands, and the reducer lets the branch that is joined last win
  (`thread_state.py:297`). The action would then run once more if the model repeats it.
  The preparation of the proof of `SuccessRemembered` found this; `Overwritten` names it
  and the property exempts it. When two siblings of one turn
  carry the same key, which the model excludes, the record of the later one stays, so
  that a failure may replace a success (`thread_state.py:288-298`, against
  `router.py:590-591`). Malformed calls never count against the budget: only the
  recursion limit of the graph bounds them. Two forced REFLECTs for one failure share
  a key and count once.
  Two siblings admitted at two below the limit use up the slot that is reserved for
  FINISH and ASK_HUMAN (`agent_tools.py:1376`). With two FINISH siblings one may
  report the end while the loop goes on.
* Channels: the lock of a conversation is taken out of the registry while others
  wait for it (`manager.py:1394`). The second look at the store makes that harmless,
  unless the creation failed: then a newcomer makes another lock, and both may create
  a thread, against the docstring above it. An error of a streaming chat keeps its
  dedupe key, so that a repeated delivery is dropped.
* Goals: an edit made during a turn is lost to the checkpoint the turn writes, and
  `update_thread_state`, which does not take the lock, overwrites edits and
  compactions made between its read and its write.

## 5. What is proved

The proofs are in the modules `*Proofs`; they hold for every value of the constants
that the named assumptions of the modules allow. In each the theorem about a
property is the end of an inductive invariant: it holds at first, every action of
`Next` keeps it, and it implies the property.

* `RunLifecycleProofs`, the largest. `TypeCorrect`: `Spec => []TypeOK`.
  `AdmissionIsExclusive`: `AtMostOneLive`, which speaks only of moments when
  the lock is free and is not inductive. `AdmissionInv` adds who holds the lock and
  that the only pair of live runs is the holder with its victims (`LiveButVictims`);
  that victims have been launched, so the interruption loop does reach them; that a
  live run is not finalizing; and that a run which has not reached `MarkRunning` is
  live unless its task was cancelled (`UncancelledIsLive`, `DrainedCancelled`),
  without which a worker could turn an interrupted run into a running one.
  `OrderInv` extends it with what a record, its task and its cancellers may look like
  at each point of the worker, from which `OutcomesAreFinal` follows; `StartedInv`,
  with a worker for each finalizing record, gives `FinalizingRunsHaveWorkers` and,
  with a run for a thread that is shown as running, `RunningThreadsAreServed`.
  `OnlyUnstartedTasksStick` holds with every window open: where `FinalizingHasWorker`
  fails, `Stuck` says why. `ActiveRowsAreHeld` needs no condition either. `RowsAgree`
  follows a cancelled run's row until nobody owes it a write; it speaks of a process
  that is up, since the last write of a shutdown may cover the success of a run that
  settled during the drain. `WritersAreSingle` and `RollbacksUndoTheirOwn`: the runs
  that reach the checkpoint are ordered by their admission, a run writes only after
  those before it have been released, and its snapshot holds their work and nothing
  else, so a restore undoes its own work only.

  The theorems assume of `Windows` what they need and no more. With `"noTask"`, a
  cancellation before the task exists, `AtMostOneLive`, `OutcomeIsFinal` and
  `RowAgrees` fail; with it or `"unstarted"` also `FinalizingHasWorker` and
  `RunningThreadHasRun`; with any of the three `SingleWriter` and
  `OnlyOwnWorkUndone`. TLC shows each failure when the window is added to
  `RunLifecycle_restart.cfg`; they are the ways in which the code lets a run escape
  that section 4 lists.
* `RunResourcesProofs`, on what a run holds while it works. The stream:
  `OffsetsAreSeqs`, `ResumesAfterLastEvent` and `ImplementsLog`: `SeqIsOffset`,
  `NothingTwice` and the refinement `Spec => LogSpec`, from `BridgeInv`: only a full buffer has been trimmed
  (`TrimmedIsFull`), the worker writes the first object (`OneWriter`), and each
  client's generator stands where what it has seen ends, or further on by events
  that are gone (`ClientInv`). With it each step of the bridge is a step of the log
  or leaves it unchanged.

  The sandbox: `SandboxesAreTyped`, `SandboxesAreInOnePlace` and
  `ContainersAreTracked`, that is `PoolTypes`, `NeverBoth` and `NoneLost`. Neither of
  the last two is inductive; four layers lead to them, each an invariant on top of the
  one before. `TypeInv`: the pool has one entry for each thread (`Unique`), a sandbox is
  under its own thread (`Owned`), and what a keeper has in its hands fits what it is
  doing (`Hands`). `Placed`, from which `NeverBoth` follows: an acquire that has left
  the active map behind (`at` is "warm") knows that the map stays empty until it is done
  itself, since nobody else adds a sandbox of its thread; of an info that was asked about
  before the lock was released, either it is still there or nothing is. `Known`: every
  info for a thread stops the container that now runs under its name; an info that was
  taken out of a map earlier need not, which is the finding of section 4. `Held`, from
  which `NoneLost` follows, is stronger than it: whoever is said to stop a container has
  an info that does. `StopDead`, `StopKilled` and the other stops may fail (`Destroyed`
  says what they leave), and a restart adopts what it finds (`Adopted`, `Restarted`).
  What the pool keeps when an entry is parked, taken or expires (`Parked`, `Oldest`,
  `EntriesOf`) are inductions over its positions.
* `MemoryProofs`, the update queue. `ContextHasThread`, `UpdaterIsAlone`,
  `CorrectionsReachUpdater`: `NotStranded`, `OneUpdater` and `CorrectionNotLost`,
  from `QueueInv`, which adds that `_processing` is set exactly while a thread
  updates and that flags belong to contexts that are there.
* `MemoryProofs`, the task memory. `CondensedIsGone`, `FeedbackIsKept`,
  `SiblingsSurvive`, `OneSummaryATurn` and `StackIsTyped`, for any calls, number of
  siblings, sizes and limits. The argument has three layers.
  *Stacks*: what `Keep` and the join compute is an induction on their recursive
  functions; it is made first-order by `Least` (a set of numbers has a least
  element, from the well-foundedness of the natural numbers) and `Recursion` (there
  is a function that follows a given step).
  *Handlers*: every operation leaves a stack that is `Grown` from the one it had: each
  entry is the same but for its status, or has one of the operation's new identifiers;
  nothing else becomes pinned and nothing pinned goes. One lemma for each operation
  says so (`Maintained`, `Pushed`, `Condensed`, `Marked`, `Withdrawn`), one for each
  handler what it leaves (`ReflectingLeaves`, `SummarizingLeaves` and so on), among it
  that the entry appended last is in view unless pinned entries fill the stack
  (`Newest`; `NewestStays` counts why the oldest active entries give way first).
  *Turns*: `MemoryInv` says that the memory is `Sound` (no entry is both in view and
  condensed, all identifiers are below the next one), that a branch `Fits` (it is grown
  from the memory by two identifiers no other sibling has), and that whoever `Holds`
  the summary is alone and has it reserved. The join of the first k branches is
  `JoinedTo` k: sound, from the memory and those branches only, with every pinned entry
  and every new entry of theirs; one more branch keeps that (`JoinsOne`), whichever
  sibling condensed what. TLC checks `MemoryInv` on the instance of `memory_turns`.
* `SchedulerProofs`. `PollerIsCapped`: the rows the poller made and
  those it still may make stay within the cap together (`Capped`); `Hooked` and `Begun`
  say in which order a dispatch gets its row, its run and its outcome, so that no
  ended row becomes active again.
  `ActiveRowsAreServed`, provided the scheduler polls (otherwise a restart sweeps
  nothing): `Served`. `CompletedMeansRan`: `Honest` extends the property to statuses
  somebody has read and may write back, and `Owned` says that a dispatch belongs to
  one task and that a run has no outcome while it lives, so a success that was seen
  is not taken back. `OccurrencesRunOnce`: the poller has one
  dispatch in progress, of a task it has not still to do (`Alone`), and a once task
  whose occurrence it launched has no next run, or that very dispatch will still take
  it away, through its bookkeeping or, after the one failure, through its failure path
  (`Spent`). `ParkedTasksHaveRuns`, provided the scheduler polls and
  no once task reuses a thread or is edited: no dispatch of such a task fails, one
  whose run is over finds it settled, and a parked task has a run whose hook is still
  to come (`Parked`). The second
  condition came out of the proof: section 4 says what happens without it. The
  instance of `scheduler_tables` satisfies it.
* `CentralActionsProofs`. `TurnsAreCounted`: `BudgetInv` says that during a run the
  turns never exceed the iteration, which never exceeds `Count`.
  `SuccessesAreRemembered`: the ledger is a dictionary whose records fit their keys
  (`Fits`: the type of a key's record is the type of its call, so a repeated call never
  collides) and holds every success (`LedgerInv`); whatever the router returns for a
  call of the turn records no failure under a key that succeeded (`Routed`, lemma
  `RoutedResult`, one case per check of the router). That the reducers keep this for
  turns and ledgers of any length (`Merged`, `ReducedLedger`) is an induction on
  their recursive functions. It is made first-order by the lemma `Least`, from
  the well-foundedness of the natural numbers: a claim that fails somewhere fails at a
  least place. `PoppedKey`, `PutRecord` and `NewestPart` say what a dictionary keeps
  when it loses a key, takes a record and is cut. `StateIsTyped`: `StateInv`, with the
  invariants of the ledger; a turn begins only while the count is below the budget and
  the count stays what it was until the join, so the iteration is bounded by the budget.
* `SubagentTasksProofs`. `AnswersAreTrue`: a status and its payload belong together
  before and after the status is written (`Paired`); an answer is taken from a holder
  nobody writes any more (`Final`); nothing has begun before the call (`Fresh`);
  whoever leaves has settled the holder or is about to (`Waited`). Every step
  touches one task and keeps the invariant of that task. `FirstTerminalWins`, an action
  property of the same invariant: no step changes a settled holder.
* `ChannelManagerProofs`. `ConversationHasOneThread`: while no thread of
  a conversation is stored, all its makers share the registered lock and at most one
  is between creating and storing; once one is stored nobody makes another, whatever
  lock he waits for (`Single`, for each conversation). `MessagesAreHandledOnce` and
  `FailuresAreForgotten`: no key is in `recent` twice, a key that was not forgotten is
  there if and only if a handler of its message has not failed, and there is at most
  one such handler (`Keys`); the lemmas say what remembering, releasing and trimming do
  to the keys of the dictionary (`SuffixKeys`, `AppendedKey`, `OldestKey`,
  `ReleasedKey`).
* `GoalContinuationProofs`. `CompactionIsAtomic`, `ClearingWins` and
  `ContinuationsAreBounded`: who holds what (`Held`), nobody knows a goal that was
  not set yet (`Numbered`), nobody who may put it back has a buried goal in memory
  (`Unburied`), a continuation is planned below the bound only (`Planned`), and every
  copy of a goal that may be put back counts all its turns (`Counted`).

Only model-checked: all liveness (`LaunchedRunEnds`, `AdmittedRunLeaves`,
`EndReachesSubscriber`, `ProcessedWhenQuiet`, `EntryLeaves`, `CoroutineEnds`,
`EveryoneAnswered`, `RunEnds`), which is out of the prover's reach, as is `ENABLED`.

## 6. What is not modelled

Within the modelled parts:

* several conversation threads at once in `RunLifecycle` (they share nothing but
  the lock), the `enqueue` strategy (rejected by the code), deletion of threads and of
  scheduled tasks, several gateway processes, the contents of events, messages,
  titles and errors, the pause between two memory updates, and `clear()` of the
  queue, which only tests call. A failed store write is a write that never happened;
  one that happened although the client saw an error is not considered. The status
  of a thread after a restart is left to the recovery as modelled.
* Planner: the text of entries, evidence rules, summary scoring, prompts, the older
  graph `sp/graph.py` around the same router. The end of every planner run was not
  checked as a temporal property: the instance does not fit the time.
* Subagents: the tool budget, the usage cache and its reports, exceptions of the
  event writer, and the poll limit of the deferred cleanup. A deadline may be
  settled as "cancelled", as in the code.
* Sandboxes: anonymous and remote sandboxes, ports, the file lock between processes,
  and the other providers.
* Channels: preferred thread ids, commands other than chats and plain replies,
  metadata backfill, files, and the adapters of the platforms.
* Goals: several runs of a thread at once (excluded by `SingleWriter`), rollbacks,
  and the update of a thread that has no checkpoint yet.

Components without a module: the Redis bridge (a weaker log in which expiry and
retry windows of real time decide); the memory updater and its storage (a
read-modify-write without a lock the router shares, about which the code promises
nothing); the run journal and event stores; the tool budget (one counter in one
critical section, nothing can come between); the MCP session pool; the resilience of
the central model call; middlewares (some thirty-five sequential transformations of
the message list that depend on text); the sandbox tools and MCP adapters, models,
skills, uploads, authentication, configuration, migrations and the frontend, which
are input and output, parsing or wiring. They are most of the lines of the
repository; `PROJECT.json` gives the reason for each.

## 7. Plan

1. **Journal.** The buffer of `runtime/journal.py`, its flush tasks and failed
   batches, over an abstract append-only log of a thread's events.
2. **MCP session pool.** Sessions owned by tasks of several event loops, in-flight
   creations and eviction.
3. **Scheduler.** Liveness of due tasks under fairness; an instance with two slots.
4. **Redis.** `RedisStreamBridge` as an implementation of a log whose events may
   expire.
