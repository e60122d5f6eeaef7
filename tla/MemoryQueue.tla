---------------------------- MODULE MemoryQueue ----------------------------
(***************************************************************************)
(* MemoryUpdateQueue: conversations wait in one queue, keyed by thread,    *)
(* user and agent, behind one debounce timer; a timer thread hands them to *)
(* the memory updater.  The queue is used by request threads and by timer  *)
(* threads; what a thread does under _lock is one action.                  *)
(*                                                                         *)
(* A conversation is the set of its turns.  The memory middleware queues   *)
(* all turns of the agent's state after each run; the summarization hook   *)
(* queues the turns that are about to leave the state.                     *)
(***************************************************************************)
EXTENDS Naturals

CONSTANTS
  Keys,        \* _queue_key: the memories that conversations update
  Turns,       \* bound: the turns of one conversation
  Threads,     \* bound: the threading.Timer objects alive at a time
  Summarizes,  \* the summarization middleware is configured
  Flushes      \* flush and flush_nowait are used (the gateway calls neither)

ASSUME QueueAssumption == Summarizes \in BOOLEAN /\ Flushes \in BOOLEAN

VARIABLES
  state,       \* turns in the agent's state of each conversation
  gone,        \* turns that were summarized away
  pending,     \* messages of the key's context in _queue, {} for no context
  flagged,     \* keys whose context in _queue has correction_detected
  timer,       \* what a Timer thread does: "idle", "armed", "fired", "updating"
  current,     \* _timer: {} for None, else the one Timer it refers to
  processing,  \* _processing
  batch,       \* contexts_to_process of an updating thread that are still ahead
  batchFlags,  \* those with correction_detected
  learned,     \* turns handed to the updater
  untold       \* history: keys with a correction that no update was told of

conversation == <<state, gone>>
queue == <<pending, flagged>>
handed == <<batch, batchFlags, learned>>
vars == <<conversation, queue, timer, current, processing, handed, untold>>

TypeOK ==
  /\ state \in [Keys -> SUBSET Turns]
  /\ gone \in [Keys -> SUBSET Turns]
  /\ pending \in [Keys -> SUBSET Turns]
  /\ flagged \in SUBSET Keys
  /\ timer \in [Threads -> {"idle", "armed", "fired", "updating"}]
  /\ current \in {{}} \cup {{t} : t \in Threads}
  /\ processing \in BOOLEAN
  /\ batch \in [Threads -> [Keys -> SUBSET Turns]]
  /\ batchFlags \in [Threads -> SUBSET Keys]
  /\ learned \in [Keys -> SUBSET Turns]
  /\ untold \in SUBSET Keys

Nothing == [k \in Keys |-> {}]

Init ==
  /\ state = Nothing /\ gone = Nothing
  /\ pending = Nothing
  /\ flagged = {}
  /\ timer = [t \in Threads |-> "idle"]
  /\ current = {}
  /\ processing = FALSE
  /\ batch = [t \in Threads |-> Nothing]
  /\ batchFlags = [t \in Threads |-> {}]
  /\ learned = Nothing
  /\ untold = {}

-----------------------------------------------------------------------------
(* The timer *)

\* The Timer that cancel() stops before it fires; one that has fired goes on.
Stopped == {t \in current : timer[t] = "armed"}

\* _schedule_timer: cancel the current timer, start t.
Schedule(t) ==
  /\ timer' = [u \in Threads |-> IF u = t THEN "armed"
                                 ELSE IF u \in Stopped THEN "idle" ELSE timer[u]]
  /\ current' = {t}

Unused(t) == timer[t] = "idle" \/ t \in Stopped

\* Mutant: a new context forgets the correction its predecessor was queued with.
CorrectionOfLast(k, correction) == correction

\* merged_correction_detected
Correction(k, correction) == correction \/ k \in flagged

\* _enqueue_locked: the context of the key is replaced.
Enqueue(k, messages, correction) ==
  /\ pending' = [pending EXCEPT ![k] = messages]
  /\ flagged' = {j \in Keys : IF j = k THEN Correction(k, correction) ELSE j \in flagged}
  /\ untold' = IF correction THEN untold \cup {k} ELSE untold

\* after_agent of the memory middleware: add.  A run has added a turn, or none.
Add(k, new, correction, t) ==
  /\ new \in SUBSET (Turns \ (state[k] \cup gone[k]))
  /\ state' = [state EXCEPT ![k] = @ \cup new]
  /\ state'[k] # {}
  /\ Unused(t)
  /\ Enqueue(k, state'[k], correction)
  /\ Schedule(t)
  /\ UNCHANGED <<gone, processing, handed>>

\* memory_flush_hook: add_nowait of the turns to summarize, which then leave the state
\* unless the summarization fails.
Summarize(k, old, correction, t) ==
  /\ Summarizes
  /\ old # {} /\ old \in SUBSET state[k]
  /\ Unused(t)
  /\ Enqueue(k, old, correction)
  /\ Schedule(t)
  /\ \/ /\ state' = [state EXCEPT ![k] = @ \ old]
        /\ gone' = [gone EXCEPT ![k] = @ \cup old]
     \/ UNCHANGED conversation
  /\ UNCHANGED <<processing, handed>>

\* flush_nowait
FlushNowait(t) ==
  /\ Flushes
  /\ Unused(t)
  /\ Schedule(t)
  /\ UNCHANGED <<conversation, queue, processing, handed, untold>>

\* flush: its caller's thread processes the queue, without a timer.
Flush(t) ==
  /\ Flushes
  /\ Unused(t)
  /\ timer' = [u \in Threads |-> IF u = t THEN "fired"
                                 ELSE IF u \in Stopped THEN "idle" ELSE timer[u]]
  /\ current' = {}
  /\ UNCHANGED <<conversation, queue, processing, handed, untold>>

\* The delay is over: the thread is on its way to _process_queue.
Fire(t) ==
  /\ timer[t] = "armed"
  /\ timer' = [timer EXCEPT ![t] = "fired"]
  /\ UNCHANGED <<conversation, queue, current, processing, handed, untold>>

-----------------------------------------------------------------------------
(* _process_queue *)

QueueEmpty == pending = Nothing

\* Mutant: a thread that finds another one processing gives up.
GiveUp(t) ==
  /\ timer[t] = "fired"
  /\ processing
  /\ timer' = [timer EXCEPT ![t] = "idle"]
  /\ UNCHANGED <<conversation, queue, current, processing, handed, untold>>

\* Another thread is processing: try again with a timer of its own.
Retry(t) ==
  /\ timer[t] = "fired"
  /\ processing
  /\ Schedule(t)
  /\ UNCHANGED <<conversation, queue, processing, handed, untold>>

\* Mutant: the thread does not look whether another one is processing.
NotChecked == processing \in BOOLEAN

NobodyProcesses == ~processing

FindsNothing(t) ==
  /\ timer[t] = "fired"
  /\ NobodyProcesses /\ QueueEmpty
  /\ timer' = [timer EXCEPT ![t] = "idle"]
  /\ UNCHANGED <<conversation, queue, current, processing, handed, untold>>

\* All contexts are taken; _timer is dropped without being cancelled.
TakeAll(t) ==
  /\ timer[t] = "fired"
  /\ NobodyProcesses /\ ~QueueEmpty
  /\ timer' = [timer EXCEPT ![t] = "updating"]
  /\ processing' = TRUE
  /\ batch' = [batch EXCEPT ![t] = pending]
  /\ batchFlags' = [batchFlags EXCEPT ![t] = flagged]
  /\ pending' = Nothing
  /\ flagged' = {}
  /\ current' = {}
  /\ UNCHANGED <<conversation, learned, untold>>

\* updater.update_memory of one context; a failure is logged and the context dropped.
Update(t, k) ==
  /\ timer[t] = "updating"
  /\ batch[t][k] # {}
  /\ learned' = [learned EXCEPT ![k] = @ \cup batch[t][k]]
  /\ untold' = IF k \in batchFlags[t] \ flagged THEN untold \ {k} ELSE untold
  /\ batch' = [batch EXCEPT ![t][k] = {}]
  /\ batchFlags' = [batchFlags EXCEPT ![t] = @ \ {k}]
  /\ UNCHANGED <<conversation, queue, timer, current, processing>>

\* Mutant: a thread that ends leaves _processing set.
StillProcessing == processing

ProcessingAfter == FALSE

\* The finally clause.
Finish(t) ==
  /\ timer[t] = "updating"
  /\ batch[t] = Nothing
  /\ timer' = [timer EXCEPT ![t] = "idle"]
  /\ processing' = ProcessingAfter
  /\ UNCHANGED <<conversation, queue, current, handed, untold>>

-----------------------------------------------------------------------------
Process(t) ==
  \/ Retry(t) \/ FindsNothing(t) \/ TakeAll(t)
  \/ \E k \in Keys : Update(t, k)
  \/ Finish(t)

\* Conversations go on: a context is queued.
Converse ==
  \E k \in Keys, turns \in SUBSET Turns, correction \in BOOLEAN, t \in Threads :
    Add(k, turns, correction, t) \/ Summarize(k, turns, correction, t)

Next ==
  \/ Converse
  \/ \E t \in Threads : FlushNowait(t) \/ Flush(t) \/ Fire(t) \/ Process(t)

Spec == Init /\ [][Next]_vars

\* Timers go off and threads run.
FairSpec == Spec /\ \A t \in Threads : WF_vars(Fire(t)) /\ WF_vars(Process(t))

-----------------------------------------------------------------------------
(* Properties *)

\* A queued context never waits without a thread that will look at the queue: dropping
\* _timer, cancelling it and finding the queue busy leave none behind.
NotStranded == ~QueueEmpty => \E t \in Threads : timer[t] \in {"armed", "fired"}

\* _processing keeps the updater single-threaded: updates read, extend and save the whole
\* memory, and two at a time would lose facts.
OneUpdater ==
  \A t, u \in Threads : timer[t] = "updating" /\ timer[u] = "updating" => t = u

\* A correction that was detected reaches the updater with its conversation, however often
\* the context is replaced before: it is still queued or in the hands of a thread.
CorrectionNotLost ==
  \A k \in untold : k \in flagged \/ \E t \in Threads : k \in batchFlags[t]

\* Whoever resets the one timer.
Disturb == Converse \/ \E t \in Threads : FlushNowait(t) \/ Flush(t)

\* "Collects conversation contexts and processes them after a debounce period": what is
\* queued is processed once no new context, of any key, and no flush resets the one timer.
ProcessedWhenQuiet ==
  <>[][~Disturb]_vars => \A k \in Keys : pending[k] # {} ~> pending[k] = {}

-----------------------------------------------------------------------------
(* The inductive invariant behind NotStranded and OneUpdater *)

\* _processing is set exactly while a thread updates.
ProcessingIsUpdating == processing <=> \E t \in Threads : timer[t] = "updating"

\* A thread that is not updating holds no context; flags are those of held contexts.
HeldByUpdater == \A t \in Threads : timer[t] # "updating" => batchFlags[t] = {}

FlagsHaveContext ==
  /\ \A k \in flagged : pending[k] # {}
  /\ \A t \in Threads : \A k \in batchFlags[t] : batch[t][k] # {}

QueueInv ==
  /\ TypeOK
  /\ ProcessingIsUpdating /\ OneUpdater
  /\ NotStranded
  /\ HeldByUpdater /\ FlagsHaveContext
  /\ CorrectionNotLost
=============================================================================
