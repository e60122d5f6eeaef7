--------------------------- MODULE ChannelManager ---------------------------
(* Messages of the chat platforms on their way to runs: the dispatch loop and  *)
(* its memory of recent messages, one task per accepted delivery under a       *)
(* semaphore, the thread of a conversation that is made once under a lock      *)
(* kept only while somebody makes it, and a run on the Gateway that is refused *)
(* while another one runs.  A platform may deliver a message again at any      *)
(* time; every await of the handler ends a step.                               *)
EXTENDS Integers, Sequences, SequencesExt, FiniteSets

CONSTANTS
    Messages,       \* what the platforms deliver, by its dedupe key
    Chats,          \* conversations: (channel, chat, topic)
    Streaming,      \* the chats of channels that support streaming
    Silent,         \* the chats of channels whose runs are fire and forget
    Slots,          \* max_concurrency
    MaxEntries,     \* INBOUND_DEDUPE_MAX_ENTRIES
    MaxTasks,       \* bound: deliveries that are accepted
    MaxFaults       \* bound: calls of the Gateway that fail

ASSUME ChannelAssumption ==
    /\ "none" \notin Messages
    /\ Streaming \subseteq Chats /\ Silent \subseteq Chats \ Streaming
    /\ Slots \in Nat \ {0} /\ MaxEntries \in Nat \ {0}
    /\ MaxTasks \in Nat \ {0} /\ MaxFaults \in Nat

VARIABLES
    chat,       \* the conversation of a message
    commands,   \* the messages that are the command /new
    recent,     \* _recent_inbound_events, oldest first
    lapsed,     \* messages whose key was forgotten by age or number
    task,       \* the handler of each accepted delivery
    received,   \* deliveries accepted
    locks,      \* _thread_create_locks: the delivery that made the lock, 0 for none
    store,      \* the stored thread of a chat, 0 for none
    threads,    \* threads the Gateway has made for a chat
    busy,       \* threads with an active run
    failed,     \* chats for which a creation failed
    faults

vars == <<chat, commands, recent, lapsed, task, received, locks, store, threads, busy, failed, faults>>
input == <<chat, commands>>
memory == <<recent, lapsed, received>>
gateway == <<threads, busy, failed, faults>>

Tasks == 1..MaxTasks
NoTask == [msg |-> "none", pc |-> "none", lock |-> 0, thread |-> 0]
Ends == {"answered", "told", "handed", "failed"}

Of(d) == chat[task[d].msg]
At(d, pc) == task[d].pc = pc
Working(d) == task[d].pc \notin Ends \cup {"none", "queued"}
Thread(d) == <<Of(d), task[d].thread>>
Go(d, pc) == task' = [task EXCEPT ![d].pc = pc]
Fault == faults < MaxFaults /\ faults' = faults + 1

Init ==
    /\ chat \in [Messages -> Chats]
    /\ commands \in SUBSET Messages
    /\ recent = <<>> /\ lapsed = {}
    /\ task = [d \in Tasks |-> NoTask] /\ received = 0
    /\ locks = [c \in Chats |-> 0]
    /\ store = [c \in Chats |-> 0]
    /\ threads = [c \in Chats |-> 0]
    /\ busy = {} /\ failed = {} /\ faults = 0

-----------------------------------------------------------------------------
(* The dispatch loop *)

\* The oldest entries go before the message is looked up, one more than the maximum is kept.
Kept == SubSeq(recent, IF Len(recent) > MaxEntries THEN Len(recent) - MaxEntries + 1 ELSE 1, Len(recent))

\* _is_duplicate_inbound and the task of a message that is none.
Receive(m) ==
    /\ lapsed' = lapsed \cup (ToSet(recent) \ ToSet(Kept))
    /\ IF m \in ToSet(Kept)
       THEN /\ recent' = Kept
            /\ UNCHANGED <<task, received>>
       ELSE /\ received < MaxTasks /\ received' = received + 1
            /\ recent' = Append(Kept, m)
            /\ task' = [task EXCEPT ![received + 1] = [NoTask EXCEPT !.msg = m, !.pc = "queued"]]
    /\ UNCHANGED <<input, locks, store, gateway>>

\* The oldest key passes INBOUND_DEDUPE_TTL_SECONDS.
Lapse ==
    /\ recent # <<>>
    /\ recent' = Tail(recent)
    /\ lapsed' = lapsed \cup {Head(recent)}
    /\ UNCHANGED <<input, task, received, locks, store, gateway>>

-----------------------------------------------------------------------------
(* The thread of a conversation *)

\* Mutant: the key of a failed message stays.
FailQuietly(d) ==
    /\ Go(d, "failed")
    /\ UNCHANGED memory

\* The end of a handler that raised: the key is released, whoever recorded it last.
Fail(d) ==
    /\ Go(d, "failed")
    /\ recent' = RemoveFirst(recent, task[d].msg)
    /\ UNCHANGED <<lapsed, received>>

\* The identity of the sender is not bound: a message says so, before a slot is taken.
Reject(d) ==
    /\ At(d, "queued")
    /\ Go(d, "told")
    /\ UNCHANGED <<input, memory, locks, store, gateway>>

SlotFree == Cardinality({e \in Tasks : Working(e)}) < Slots

\* The first look at the store, and the lock the registry has or gets; a /new goes to
\* _create_thread directly.
Admit(d) ==
    /\ At(d, "queued")
    /\ SlotFree
    /\ IF task[d].msg \in commands THEN Go(d, "creating") /\ UNCHANGED locks
       ELSE IF store[Of(d)] # 0
       THEN /\ task' = [task EXCEPT ![d].pc = "run", ![d].thread = store[Of(d)]]
            /\ UNCHANGED locks
       ELSE LET lock == IF locks[Of(d)] = 0 THEN d ELSE locks[Of(d)]
            IN /\ locks' = [locks EXCEPT ![Of(d)] = lock]
               /\ task' = [task EXCEPT ![d].pc = "waiting", ![d].lock = lock]
    /\ UNCHANGED <<input, memory, store, gateway>>

Held(lock) == \E e \in Tasks : task[e].lock = lock /\ task[e].pc \in {"creating", "storing"}

\* The finally clause of _get_or_create_thread: the registry forgets the lock, waiters or not.
Unregister(d) == locks' = IF task[d].lock = 0 THEN locks ELSE [locks EXCEPT ![Of(d)] = 0]

\* Mutant: the store is not looked at again inside the lock.
LockBlindly(d) ==
    /\ At(d, "waiting") /\ ~Held(task[d].lock)
    /\ Go(d, "creating")
    /\ UNCHANGED <<input, memory, locks, store, gateway>>

\* Mutant: a waiter stays with a lock the registry has replaced.
LockRegistered(d) ==
    /\ At(d, "waiting") /\ ~Held(task[d].lock)
    /\ locks[Of(d)] = task[d].lock
    /\ IF store[Of(d)] = 0 THEN Go(d, "creating") /\ UNCHANGED locks
       ELSE /\ task' = [task EXCEPT ![d].pc = "run", ![d].thread = store[Of(d)]]
            /\ Unregister(d)
    /\ UNCHANGED <<input, memory, store, gateway>>

\* The lock is taken and the store looked at again.
Lock(d) ==
    /\ At(d, "waiting") /\ ~Held(task[d].lock)
    /\ IF store[Of(d)] = 0 THEN Go(d, "creating") /\ UNCHANGED locks
       ELSE /\ task' = [task EXCEPT ![d].pc = "run", ![d].thread = store[Of(d)]]
            /\ Unregister(d)
    /\ UNCHANGED <<input, memory, store, gateway>>

\* threads.create.
Create(d) ==
    /\ At(d, "creating")
    /\ threads' = [threads EXCEPT ![Of(d)] = @ + 1]
    /\ task' = [task EXCEPT ![d].pc = "storing", ![d].thread = threads[Of(d)] + 1]
    /\ UNCHANGED <<input, memory, locks, store, busy, failed, faults>>

\* It fails, or its answer is lost.
CreateFails(d) ==
    /\ At(d, "creating") /\ Fault
    /\ threads' \in {threads, [threads EXCEPT ![Of(d)] = @ + 1]}
    /\ failed' = failed \cup {Of(d)}
    /\ Unregister(d)
    /\ Fail(d)
    /\ UNCHANGED <<input, store, busy>>

\* _store_thread_id; a /new answers, a chat goes on.
Store(d) ==
    /\ At(d, "storing")
    /\ store' = [store EXCEPT ![Of(d)] = task[d].thread]
    /\ Go(d, IF task[d].msg \in commands THEN "answered" ELSE "run")
    /\ Unregister(d)
    /\ UNCHANGED <<input, memory, gateway>>

-----------------------------------------------------------------------------
(* The run *)

\* Mutant: the key of a message that found the thread busy is released.
StartForgets(d) ==
    /\ At(d, "run")
    /\ IF Thread(d) \in busy
       THEN Go(d, "told") /\ recent' = RemoveFirst(recent, task[d].msg) /\ UNCHANGED busy
       ELSE /\ busy' = busy \cup {Thread(d)}
            /\ Go(d, IF Of(d) \in Silent THEN "handed" ELSE "running")
            /\ UNCHANGED recent
    /\ UNCHANGED <<input, lapsed, received, locks, store, threads, failed, faults>>

\* runs.create, runs.wait or runs.stream with the strategy "reject": a busy thread is an answer.
Start(d) ==
    /\ At(d, "run")
    /\ IF Thread(d) \in busy THEN Go(d, "told") /\ UNCHANGED busy
       ELSE /\ busy' = busy \cup {Thread(d)}
            /\ Go(d, IF Of(d) \in Silent THEN "handed" ELSE "running")
    /\ UNCHANGED <<input, memory, locks, store, threads, failed, faults>>

\* The run ends and its result is published.
Answer(d) ==
    /\ At(d, "running")
    /\ busy' = busy \ {Thread(d)}
    /\ Go(d, "answered")
    /\ UNCHANGED <<input, memory, locks, store, threads, failed, faults>>

\* The call fails, although its run may go on: a stream ends in a final message that says so,
\* everything else is an unexpected failure.
Break(d) ==
    /\ task[d].pc \in {"run", "running"} /\ Fault
    /\ busy' \in {busy, busy \cup {Thread(d)}}
    /\ IF Of(d) \in Streaming THEN Go(d, "told") /\ UNCHANGED memory ELSE Fail(d)
    /\ UNCHANGED <<input, locks, store, threads, failed>>

\* A run nobody waits for ends.
RunEnds(c, n) ==
    /\ <<c, n>> \in busy
    /\ \A d \in Tasks : At(d, "running") => Thread(d) # <<c, n>>
    /\ busy' = busy \ {<<c, n>>}
    /\ UNCHANGED <<input, memory, task, locks, store, threads, failed, faults>>

-----------------------------------------------------------------------------

Progress(d) == Admit(d) \/ Lock(d) \/ Create(d) \/ Store(d) \/ Start(d) \/ Answer(d)

Next ==
    \/ \E m \in Messages : Receive(m)
    \/ Lapse
    \/ \E d \in Tasks : Progress(d) \/ Reject(d) \/ CreateFails(d) \/ Break(d)
    \/ \E c \in Chats, n \in Tasks : RunEnds(c, n)

Spec == Init /\ [][Next]_vars

\* asyncio runs every ready task, the Gateway answers or the client times out, a run ends.
FairSpec == Spec /\ \A d \in Tasks : WF_vars(Progress(d))

-----------------------------------------------------------------------------
(* Properties *)

TypeOK ==
    /\ recent \in Seq(Messages) /\ lapsed \subseteq Messages
    /\ received \in 0..MaxTasks /\ faults \in 0..MaxFaults
    /\ locks \in [Chats -> 0..MaxTasks]
    /\ store \in [Chats -> 0..MaxTasks] /\ threads \in [Chats -> 0..MaxTasks]
    /\ busy \subseteq Chats \X Tasks /\ failed \subseteq Chats

\* However often a platform delivers a message, it is handled once, while its key is remembered:
\* neither a delivery during the work nor one after an answer starts it again, only one after an
\* unexpected failure does.
HandledOnce ==
    \A m \in Messages \ lapsed : Cardinality({d \in Tasks : task[d].msg = m /\ task[d].pc # "failed"}) <= 1

\* "if handling fails we must not turn a recoverable error into a TTL-long black hole for the same
\* message_id" (manager.py:1136): a remembered key belongs to a message somebody works on or has
\* answered, so that a delivery after a failure is handled.
NoBlackHole ==
    \A m \in ToSet(recent) : \E d \in Tasks : task[d].msg = m /\ task[d].pc # "failed"

\* A conversation without commands gets one thread, however many of its first messages arrive
\* together, unless a creation failed.
Chatting(c) == \A m \in commands : chat[m] # c
OneThread == \A c \in Chats : Chatting(c) /\ c \notin failed => threads[c] <= 1

\* Every accepted delivery ends: no task waits for ever for a slot, for a lock whose maker failed
\* or for the thread another message makes.
EveryoneAnswered == \A d \in Tasks : (task[d].pc # "none") ~> (task[d].pc \in Ends)
=============================================================================
