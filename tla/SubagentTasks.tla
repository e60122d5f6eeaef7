---------------------------- MODULE SubagentTasks ----------------------------
(* Delegated work of one parent run: the background tasks of the task tool    *)
(* (a pool thread, a coroutine of the isolated loop and the tool that polls)  *)
(* and the synchronous calls of StackPlanner's DELEGATE, which block their    *)
(* thread on the same coroutine.  All of them share a result holder that is   *)
(* settled once.  Clocks are choices: a deadline may pass at any time.        *)
EXTENDS Integers, FiniteSets

CONSTANTS
    Tasks,      \* delegations
    Workers     \* threads of _scheduler_pool

ASSUME SubagentAssumption == Workers \in Nat \ {0}

VARIABLES
    holder,     \* SubagentResult: status and the payload fields it carries
    writer,     \* who is inside try_set_terminal, and the status it will set
    signal,     \* holder.cancel_event
    table,      \* keys of _background_tasks
    calls,      \* tasks made by a synchronous call
    thread,     \* the thread that supervises the task
    coroutine,  \* _aexecute on the isolated loop
    recalled,   \* the future of the coroutine is cancelled
    tool,       \* the call that made the delegation
    answer,     \* what the call returned: status and payload
    aborted     \* the abort event of the parent run

vars == <<holder, writer, signal, table, calls, thread, coroutine, recalled, tool, answer, aborted>>
supervision == <<table, calls, thread, recalled>>

-----------------------------------------------------------------------------
(* The result holder *)

Terminal == {"completed", "failed", "cancelled", "timed_out"}
Payload(status) == IF status = "completed" THEN "result" ELSE "error"
Idle == [by |-> "nobody", status |-> "pending"]
NoAnswer == [status |-> "none", shows |-> "nothing"]

Settled(t) == holder[t].status \in Terminal

\* completed_at, which is written a moment before the status, is enough for a cleanup.
Over(t) == Settled(t) \/ writer[t] # Idle

Stopping(t) == signal[t] \/ aborted

\* Mutant: a late end overwrites an earlier one.
ClaimAlways(t, who, status) ==
    /\ writer[t] = Idle
    /\ writer' = [writer EXCEPT ![t] = [by |-> who, status |-> status]]
    /\ holder' = [holder EXCEPT ![t].shows = Payload(status)]

\* try_set_terminal, first half: the lock is taken and the payload written, unless the holder is
\* settled already.
Claim(t, who, status) ==
    /\ writer[t] = Idle
    /\ IF Settled(t) THEN UNCHANGED <<holder, writer>>
       ELSE /\ writer' = [writer EXCEPT ![t] = [by |-> who, status |-> status]]
            /\ holder' = [holder EXCEPT ![t].shows = Payload(status)]

\* Second half: the status, which readers look at without the lock, is written last.
Publish(t) ==
    /\ writer[t] # Idle
    /\ holder' = [holder EXCEPT ![t].status = writer[t].status]
    /\ writer' = [writer EXCEPT ![t] = Idle]
    /\ UNCHANGED <<signal, supervision, coroutine, tool, answer, aborted>>

\* The step of an actor comes after the try_set_terminal it made.
Free(t, who) == writer[t].by # who

-----------------------------------------------------------------------------
(* The call *)

Init ==
    /\ holder = [t \in Tasks |-> [status |-> "pending", shows |-> "nothing"]]
    /\ writer = [t \in Tasks |-> Idle]
    /\ signal = [t \in Tasks |-> FALSE]
    /\ table = {} /\ calls = {}
    /\ thread = [t \in Tasks |-> "none"]
    /\ coroutine = [t \in Tasks |-> "none"]
    /\ recalled = [t \in Tasks |-> FALSE]
    /\ tool = [t \in Tasks |-> "none"]
    /\ answer = [t \in Tasks |-> NoAnswer]
    /\ aborted = FALSE

\* execute_async: the holder is registered and run_task queued; the tool starts to poll.
Delegate(t) ==
    /\ tool[t] = "none"
    /\ table' = table \cup {t}
    /\ thread' = [thread EXCEPT ![t] = "queued"]
    /\ tool' = [tool EXCEPT ![t] = "polling"]
    /\ UNCHANGED <<holder, writer, signal, calls, coroutine, recalled, answer, aborted>>

\* _execute_in_isolated_loop: the calling thread posts the coroutine itself and waits.
Call(t) ==
    /\ tool[t] = "none"
    /\ calls' = calls \cup {t}
    /\ holder' = [holder EXCEPT ![t].status = "running"]
    /\ coroutine' = [coroutine EXCEPT ![t] = "posted"]
    /\ thread' = [thread EXCEPT ![t] = "waiting"]
    /\ tool' = [tool EXCEPT ![t] = "calling"]
    /\ UNCHANGED <<writer, signal, table, recalled, answer, aborted>>

\* The parent run is cancelled: its abort event is set.
Abort ==
    /\ ~aborted
    /\ aborted' = TRUE
    /\ UNCHANGED <<holder, writer, signal, supervision, coroutine, tool, answer>>

\* cleanup_background_task.
CleanUp(t) == table' = IF Over(t) THEN table \ {t} ELSE table

\* One round of the poll loop that finds a terminal status.
Poll(t) ==
    /\ tool[t] = "polling" /\ Settled(t)
    /\ answer' = [answer EXCEPT ![t] = holder[t]]
    /\ CleanUp(t)
    /\ tool' = [tool EXCEPT ![t] = "done"]
    /\ UNCHANGED <<holder, writer, signal, calls, thread, coroutine, recalled, aborted>>

\* request_cancel_background_task: a task still pending is settled by the caller, a moment after
\* it was seen pending.
RequestCancel(t, next) ==
    /\ signal' = [signal EXCEPT ![t] = TRUE]
    /\ tool' = [tool EXCEPT ![t] = IF holder[t].status = "pending" THEN "withdrawing" ELSE next]

\* The poll limit: the answer is that polling timed out, the entry is left to a deferred cleanup.
GiveUp(t) ==
    /\ tool[t] = "polling" /\ ~Settled(t)
    /\ RequestCancel(t, "deferred")
    /\ answer' = [answer EXCEPT ![t] = [status |-> "polling_timed_out", shows |-> "error"]]
    /\ UNCHANGED <<holder, writer, supervision, coroutine, aborted>>

\* The tool is cancelled with its run: it asks the task to stop and waits until it has.
Interrupt(t) ==
    /\ tool[t] = "polling" /\ aborted
    /\ RequestCancel(t, "draining")
    /\ answer' = [answer EXCEPT ![t] = [status |-> "raised", shows |-> "error"]]
    /\ UNCHANGED <<holder, writer, supervision, coroutine, aborted>>

Withdraw(t) ==
    /\ tool[t] = "withdrawing"
    /\ tool' = [tool EXCEPT ![t] = IF answer[t].status = "raised" THEN "draining" ELSE "deferred"]
    /\ Claim(t, "tool", "cancelled")
    /\ UNCHANGED <<signal, supervision, coroutine, answer, aborted>>

\* Mutant: nothing is scheduled for what is left.
InterruptOnly(t) ==
    /\ tool[t] = "draining"
    /\ tool' = [tool EXCEPT ![t] = "done"]
    /\ UNCHANGED <<holder, writer, signal, supervision, coroutine, answer, aborted>>

\* A second cancellation while it waits: what is left goes to the deferred cleanup.
InterruptAgain(t) ==
    /\ tool[t] = "draining"
    /\ tool' = [tool EXCEPT ![t] = "deferred"]
    /\ UNCHANGED <<holder, writer, signal, supervision, coroutine, answer, aborted>>

\* The polls of _await_subagent_terminal and of _deferred_cleanup_subagent_task.  Their limits
\* are longer than the task's own timeout and are left out.
Remove(t) ==
    /\ tool[t] \in {"draining", "deferred"} /\ Free(t, "tool") /\ Over(t)
    /\ CleanUp(t)
    /\ tool' = [tool EXCEPT ![t] = "done"]
    /\ UNCHANGED <<holder, writer, signal, calls, thread, coroutine, recalled, answer, aborted>>

-----------------------------------------------------------------------------
(* The supervising thread: run_task in the pool, or the thread of the call *)

Busy == {t \in Tasks \ calls : thread[t] \notin {"none", "queued", "gone"}}

Move(t, pc) == thread' = [thread EXCEPT ![t] = pc]

\* A free pool thread takes the task; one that was settled while it waited is dropped.
Take(t) ==
    /\ thread[t] = "queued" /\ Cardinality(Busy) < Workers /\ writer[t] = Idle
    /\ IF Settled(t) THEN Move(t, "gone") /\ UNCHANGED holder
       ELSE /\ holder' = [holder EXCEPT ![t].status = "running"]
            /\ Move(t, "started")
    /\ UNCHANGED <<writer, signal, table, calls, coroutine, recalled, tool, answer, aborted>>

\* The coroutine is posted to the isolated loop, unless the task is to stop or the loop is gone.
Post(t) ==
    /\ thread[t] = "started"
    /\ \/ /\ ~Stopping(t)
          /\ coroutine' = [coroutine EXCEPT ![t] = "posted"]
          /\ Move(t, "waiting")
          /\ UNCHANGED <<holder, writer>>
       \/ /\ Claim(t, "thread", IF Stopping(t) THEN "cancelled" ELSE "failed")
          /\ Move(t, "leaving")
          /\ UNCHANGED coroutine
    /\ UNCHANGED <<signal, table, calls, recalled, tool, answer, aborted>>

\* The thread ends the wait with a status of its own: a pool thread settles the holder and then
\* cancels the future, the thread of a call cancels first.
EndWait(t, status) ==
    /\ thread[t] = "waiting"
    /\ signal' = [signal EXCEPT ![t] = TRUE]
    /\ IF t \in calls
       THEN /\ recalled' = [recalled EXCEPT ![t] = TRUE]
            /\ Move(t, status)
            /\ UNCHANGED <<holder, writer>>
       ELSE /\ Claim(t, "thread", status)
            /\ Move(t, "recalling")
            /\ UNCHANGED recalled
    /\ UNCHANGED <<table, calls, coroutine, tool, answer, aborted>>

\* A pool thread stops for the task's signal or the parent's, the thread of a call for the
\* parent's.
StopWait(t) ==
    /\ IF t \in calls THEN aborted ELSE Stopping(t)
    /\ EndWait(t, "cancelled")

TimeOut(t) == EndWait(t, "timed_out")

SettleCall(t) ==
    /\ thread[t] \in {"cancelled", "timed_out"}
    /\ Claim(t, "thread", thread[t])
    /\ Move(t, "leaving")
    /\ UNCHANGED <<signal, table, calls, coroutine, recalled, tool, answer, aborted>>

\* Mutant: the timeout does not cancel the future.
RecallNot(t) ==
    /\ thread[t] = "recalling" /\ Free(t, "thread")
    /\ Move(t, "gone")
    /\ UNCHANGED <<holder, writer, signal, table, calls, coroutine, recalled, tool, answer, aborted>>

Recall(t) ==
    /\ thread[t] = "recalling" /\ Free(t, "thread")
    /\ recalled' = [recalled EXCEPT ![t] = TRUE]
    /\ Move(t, "gone")
    /\ UNCHANGED <<holder, writer, signal, table, calls, coroutine, tool, answer, aborted>>

\* future.result returns or raises.
Joined(t) ==
    /\ thread[t] = "waiting" /\ coroutine[t] = "ended" /\ Free(t, "coroutine")
    /\ Move(t, "leaving")
    /\ UNCHANGED <<holder, writer, signal, table, calls, coroutine, recalled, tool, answer, aborted>>

\* run_task returns; execute returns the holder.
Leave(t) ==
    /\ thread[t] = "leaving" /\ Free(t, "thread")
    /\ Move(t, "gone")
    /\ IF t \in calls
       THEN /\ answer' = [answer EXCEPT ![t] = holder[t]]
            /\ tool' = [tool EXCEPT ![t] = "done"]
       ELSE UNCHANGED <<answer, tool>>
    /\ UNCHANGED <<holder, writer, signal, table, calls, coroutine, recalled, aborted>>

-----------------------------------------------------------------------------
(* The coroutine: _aexecute *)

End(t) == coroutine' = [coroutine EXCEPT ![t] = "ended"]

\* The first step: a future cancelled before it throws the coroutine away; a task that is to stop
\* is settled, before the agent is built or after.
Begin(t) ==
    /\ coroutine[t] = "posted"
    /\ IF recalled[t] THEN End(t) /\ UNCHANGED <<holder, writer>>
       ELSE IF Stopping(t) THEN Claim(t, "coroutine", "cancelled") /\ End(t)
       ELSE /\ coroutine' = [coroutine EXCEPT ![t] = "streaming"]
            /\ UNCHANGED <<holder, writer>>
    /\ UNCHANGED <<signal, supervision, tool, answer, aborted>>

\* The check at the next chunk of the stream.
Notice(t) ==
    /\ coroutine[t] = "streaming" /\ Stopping(t)
    /\ Claim(t, "coroutine", "cancelled")
    /\ End(t)
    /\ UNCHANGED <<signal, supervision, tool, answer, aborted>>

\* The stream ends, is capped with something usable or without, or raises.
Finish(t) ==
    /\ coroutine[t] = "streaming"
    /\ \E status \in {"completed", "failed"} : Claim(t, "coroutine", status)
    /\ End(t)
    /\ UNCHANGED <<signal, supervision, tool, answer, aborted>>

\* CancelledError is raised at an await.
Cancelled(t) ==
    /\ coroutine[t] = "streaming" /\ recalled[t]
    /\ signal' = [signal EXCEPT ![t] = TRUE]
    /\ Claim(t, "coroutine", "cancelled")
    /\ End(t)
    /\ UNCHANGED <<supervision, tool, answer, aborted>>

-----------------------------------------------------------------------------

Tool(t) == Poll(t) \/ Withdraw(t) \/ Remove(t)
Thread(t) ==
    \/ Take(t) \/ Post(t) \/ StopWait(t) \/ TimeOut(t) \/ SettleCall(t)
    \/ Recall(t) \/ Joined(t) \/ Leave(t)
Loop(t) == Begin(t) \/ Cancelled(t)

Next ==
    \/ \E t \in Tasks :
          \/ Delegate(t) \/ Call(t) \/ GiveUp(t) \/ Interrupt(t) \/ InterruptAgain(t)
          \/ Tool(t) \/ Thread(t) \/ Loop(t) \/ Notice(t) \/ Finish(t) \/ Publish(t)
    \/ Abort

Spec == Init /\ [][Next]_vars

\* Polls, threads and the loop are scheduled, deadlines pass.  Nothing says that a model answers:
\* Finish and Notice, which wait for the stream, are not fair.
Fairness ==
    \A t \in Tasks :
        /\ WF_vars(Tool(t)) /\ WF_vars(Thread(t)) /\ WF_vars(Loop(t)) /\ WF_vars(Publish(t))

FairSpec == Spec /\ Fairness

-----------------------------------------------------------------------------
(* Properties *)

\* What the call returned stays what the holder says: a terminal status with the payload of that
\* status, however the pool thread, the coroutine and the canceller race (try_set_terminal: "The
\* first terminal transition wins; late terminal writes must not change status or payload").
AnswerIsTrue ==
    \A t \in Tasks :
        answer[t].status \notin {"none", "polling_timed_out", "raised"} =>
            /\ answer[t].status \in Terminal
            /\ answer[t].shows = Payload(answer[t].status)
            /\ answer[t] = holder[t]

\* Every entry of _background_tasks is removed again: none stays behind when the tool was
\* cancelled, gave up or the task never left the queue (cleanup_background_task).
EntryLeaves == \A t \in Tasks : t \in table ~> t \notin table

\* A coroutine whose task is settled ends, also when it hangs in a call of the model
\* (request_cancel_background_task: "The scheduler cancels the async future even while the model
\* is stalled").
CoroutineEnds == \A t \in Tasks : Settled(t) ~> coroutine[t] \in {"none", "ended"}

=============================================================================
