---------------------------- MODULE StreamBridge ----------------------------
(***************************************************************************)
(* MemoryStreamBridge and the SSE consumers of one run.  The worker        *)
(* publishes events, then the end, and a delayed cleanup forgets the       *)
(* stream.  A client subscribes, receives what the generator yields, may   *)
(* be cut off at any moment and comes back with its Last-Event-ID.         *)
(*                                                                         *)
(* asyncio.Condition is free whenever a coroutine asks for it: the only    *)
(* await under it is its own wait(), which releases it.  So publish,       *)
(* publish_end and one turn of the subscriber's loop are atomic.           *)
(***************************************************************************)
EXTENDS Integers

CONSTANTS
  Clients,     \* those who follow the run
  MaxSize,     \* queue_maxsize
  MaxEvents    \* bound: how many events the run publishes

ASSUME BridgeAssumption ==
  /\ MaxSize \in Nat \ {0}
  /\ MaxEvents \in Nat

\* The _RunStream objects: the worker's, and one created after its cleanup.
Objects == 1..2

VARIABLES
  worker,      \* "publishing", "ended", "cleaned"
  current,     \* the object _streams holds for the run, 0 for none
  created,     \* how many objects there have been
  counter,     \* per object, the seq of the next event (_counters)
  start,       \* start_offset
  len,         \* len(events)
  ended,
  conn,        \* what a client is doing: "away", "open", "ended"
  on,          \* the object it subscribed to
  next,        \* next_offset of its generator
  hand,        \* what the generator has yielded and the client has not yet got
  held,        \* the seq of the event in hand
  seen         \* the client's Last-Event-ID as seq + 1, 0 for none

objects == <<current, created, counter, start, len, ended>>
clients == <<conn, on, next, hand, held, seen>>
vars == <<worker, objects, clients>>

TypeOK ==
  /\ worker \in {"publishing", "ended", "cleaned"}
  /\ current \in {0} \cup Objects
  /\ created \in {0} \cup Objects
  /\ counter \in [Objects -> Nat]
  /\ start \in [Objects -> Nat]
  /\ len \in [Objects -> 0..MaxSize]
  /\ ended \in [Objects -> BOOLEAN]
  /\ conn \in [Clients -> {"away", "open", "ended"}]
  /\ on \in [Clients -> Objects]
  /\ next \in [Clients -> Nat]
  /\ hand \in [Clients -> {"nothing", "event", "end"}]
  /\ held \in [Clients -> Nat]
  /\ seen \in [Clients -> Nat]

Init ==
  /\ worker = "publishing"
  /\ current = 0 /\ created = 0
  /\ counter = [o \in Objects |-> 0]
  /\ start = [o \in Objects |-> 0]
  /\ len = [o \in Objects |-> 0]
  /\ ended = [o \in Objects |-> FALSE]
  /\ conn = [c \in Clients |-> "away"]
  /\ on = [c \in Clients |-> 1]
  /\ next = [c \in Clients |-> 0]
  /\ hand = [c \in Clients |-> "nothing"]
  /\ held = [c \in Clients |-> 0]
  /\ seen = [c \in Clients |-> 0]

-----------------------------------------------------------------------------
(* The worker's side *)

\* _get_or_create_stream, the object it returns and what it leaves registered.
Stream == IF current # 0 THEN current ELSE created + 1
Register == current' = Stream /\ created' = Stream

TrimmedStart(o, overflow) == start[o] + overflow

Publish ==
  /\ worker = "publishing"
  /\ counter[1] < MaxEvents
  /\ Register
  /\ LET o == Stream
         overflow == IF len[o] + 1 > MaxSize THEN len[o] + 1 - MaxSize ELSE 0
     IN /\ counter' = [counter EXCEPT ![o] = @ + 1]
        /\ len' = [len EXCEPT ![o] = @ + 1 - overflow]
        /\ start' = [start EXCEPT ![o] = TrimmedStart(o, overflow)]
  /\ UNCHANGED <<worker, ended, clients>>

PublishEnd ==
  /\ worker = "publishing"
  /\ worker' = "ended"
  /\ Register
  /\ ended' = [ended EXCEPT ![Stream] = TRUE]
  /\ UNCHANGED <<counter, start, len, clients>>

\* cleanup: the stream is forgotten, whoever iterates over it keeps the object.
Cleanup ==
  /\ worker = "ended"
  /\ worker' = "cleaned"
  /\ current' = 0
  /\ UNCHANGED <<created, counter, start, len, ended, clients>>

-----------------------------------------------------------------------------
(* The client's side *)

\* seq of the event at an index of the buffer: seqs are consecutive.
SeqAt(o, i) == counter[o] - len[o] + i

\* _resolve_start_offset: behind the client's last event if that is still retained,
\* else at the earliest retained event.
Resolve(o, c) ==
  LET seq == seen[c] - 1
  IN IF seen[c] > 0 /\ seq >= start[o] /\ seq < start[o] + len[o] /\ SeqAt(o, seq - start[o]) = seq
     THEN seq + 1 ELSE start[o]

Subscribe(c) ==
  /\ conn[c] = "away"
  /\ Register
  /\ conn' = [conn EXCEPT ![c] = "open"]
  /\ on' = [on EXCEPT ![c] = Stream]
  /\ next' = [next EXCEPT ![c] = Resolve(Stream, c)]
  /\ UNCHANGED <<worker, counter, start, len, ended, hand, held, seen>>

\* Where the loop reads: a subscriber that fell behind jumps to the earliest event.
Reading(c) == IF next[c] < start[on[c]] THEN start[on[c]] ELSE next[c]

Idle(c) == conn[c] = "open" /\ hand[c] = "nothing"

Take(c) ==
  /\ Idle(c)
  /\ Reading(c) < start[on[c]] + len[on[c]]
  /\ hand' = [hand EXCEPT ![c] = "event"]
  /\ held' = [held EXCEPT ![c] = SeqAt(on[c], Reading(c) - start[on[c]])]
  /\ next' = [next EXCEPT ![c] = Reading(c) + 1]
  /\ UNCHANGED <<worker, objects, conn, on, seen>>

\* Mutants: the end needs an empty buffer, or does not wait for the buffer.
EndsEmpty(c) == ended[on[c]] /\ len[on[c]] = 0
EndsEarly(c) == ended[on[c]]

\* Nothing is left to read and the run has ended.
AtEnd(c) == Reading(c) >= start[on[c]] + len[on[c]] /\ ended[on[c]]

TakeEnd(c) ==
  /\ Idle(c)
  /\ AtEnd(c)
  /\ hand' = [hand EXCEPT ![c] = "end"]
  /\ UNCHANGED <<worker, objects, conn, on, next, held, seen>>

\* The frame reaches the client, which remembers its id.
ReceiveEvent(c) ==
  /\ hand[c] = "event"
  /\ seen' = [seen EXCEPT ![c] = held[c] + 1]
  /\ hand' = [hand EXCEPT ![c] = "nothing"]
  /\ UNCHANGED <<worker, objects, conn, on, next, held>>

ReceiveEnd(c) ==
  /\ hand[c] = "end"
  /\ conn' = [conn EXCEPT ![c] = "ended"]
  /\ hand' = [hand EXCEPT ![c] = "nothing"]
  /\ UNCHANGED <<worker, objects, on, next, held, seen>>

\* The connection breaks; a frame in hand is lost with it.
Disconnect(c) ==
  /\ conn[c] = "open"
  /\ conn' = [conn EXCEPT ![c] = "away"]
  /\ hand' = [hand EXCEPT ![c] = "nothing"]
  /\ UNCHANGED <<worker, objects, on, next, held, seen>>

-----------------------------------------------------------------------------
Client(c) == Take(c) \/ TakeEnd(c) \/ ReceiveEvent(c) \/ ReceiveEnd(c)

Next ==
  \/ Publish \/ PublishEnd \/ Cleanup
  \/ \E c \in Clients : Subscribe(c) \/ Client(c) \/ Disconnect(c)

Spec == Init /\ [][Next]_vars

\* The loop of subscribe wakes up at every event and heartbeat; frames are sent.
FairSpec == Spec /\ \A c \in Clients : WF_vars(Client(c))

-----------------------------------------------------------------------------
(* Properties *)

\* "seq equals the event's absolute offset within the run": what lets _resolve_start_offset
\* compute an index from an id.  It holds for the registered object and the detached ones.
SeqIsOffset == \A o \in Objects : counter[o] = start[o] + len[o]

\* Last-Event-ID resumption: what the generator hands over is new to the client, also
\* after a reconnection that raced with trimming.
NothingTwice == \A c \in Clients : hand[c] = "event" => held[c] >= seen[c]

\* The bridge implements the log a client relies on: in order across reconnections,
\* nothing missed that was retained, the end last.
Log == INSTANCE EventLog WITH
  Retained  <- MaxSize,
  published <- counter[1],
  closed    <- ended[1],
  read      <- seen,
  informed  <- {c \in Clients : conn[c] = "ended"}

LogSpec == Log!LogSpec

\* A client that subscribed to the worker's stream and stays connected is told the end,
\* also when the cleanup overtakes it.
EndReachesSubscriber ==
  \A c \in Clients : conn[c] = "open" /\ on[c] = 1 /\ worker # "publishing" ~> conn[c] # "open"

-----------------------------------------------------------------------------
(* The inductive invariant behind NothingTwice and LogSpec *)

\* The worker writes object 1; object 2 appears after the cleanup and stays empty.
OneWriter ==
  /\ worker = "publishing" => current = created /\ created \in {0, 1}
  /\ worker = "ended" => current = 1 /\ created = 1
  /\ worker = "cleaned" => \/ current = 0 /\ created = 1
                           \/ current = 2 /\ created = 2
  /\ ended[1] <=> worker # "publishing"
  /\ counter[2] = 0 /\ start[2] = 0 /\ len[2] = 0 /\ ~ended[2]

\* Only a full buffer has been trimmed.
TrimmedIsFull == \A o \in Objects : start[o] > 0 => len[o] = MaxSize

\* A client at position p is not behind what it has seen, and what lies between is gone.
Caught(c, p) == seen[c] <= p /\ (seen[c] < p => p + MaxSize <= counter[1])

\* What a client has seen was published; its generator is where Caught wants it, what it
\* holds is the event before next_offset, and the end is held by one that has everything.
ClientInv(c) ==
  /\ seen[c] <= counter[1]
  /\ hand[c] # "nothing" => conn[c] = "open" /\ on[c] = 1
  /\ conn[c] = "open" /\ on[c] = 2 => next[c] = 0
  /\ Idle(c) /\ on[c] = 1 => Caught(c, next[c]) /\ next[c] <= counter[1]
  /\ hand[c] = "event" => /\ held[c] + 1 = next[c] /\ held[c] < counter[1]
                          /\ Caught(c, held[c])
  /\ hand[c] = "end" => ended[1] /\ seen[c] = counter[1]

BridgeInv ==
  /\ TypeOK
  /\ SeqIsOffset
  /\ OneWriter
  /\ TrimmedIsFull
  /\ \A c \in Clients : ClientInv(c)
=============================================================================
