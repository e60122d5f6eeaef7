------------------------ MODULE ChannelManagerProofs ------------------------
(* A conversation gets one thread, for any number of messages, deliveries and  *)
(* slots: the lock of the registry and the second look at the store exclude    *)
(* each other's gaps.                                                          *)
EXTENDS ChannelManager, SequenceTheorems, FiniteSetTheorems, TLAPS

Places == {"none", "queued", "waiting", "creating", "storing", "run", "running"} \cup Ends
Handler == [msg : Messages \cup {"none"}, pc : Places, lock : Nat, thread : Nat]

HandlerTypes ==
    /\ task \in [Tasks -> Handler]
    /\ \A d \in Tasks : task[d].pc # "none" <=> task[d].msg \in Messages
    /\ \A d \in Tasks : At(d, "storing") => task[d].thread # 0
    /\ received \in Nat /\ \A d \in Tasks : d > received => At(d, "none")

Types ==
    /\ HandlerTypes
    /\ chat \in [Messages -> Chats]
    /\ locks \in [Chats -> Nat] /\ store \in [Chats -> Nat] /\ threads \in [Chats -> Nat]

\* The delivery belongs to the conversation and makes its thread, or waits to.
Inside(d, c) == task[d].pc \in {"creating", "storing"} /\ Of(d) = c
Makes(d, c) == task[d].pc \in {"waiting", "creating", "storing"} /\ Of(d) = c

\* While no thread is stored all makers share the registered lock, and only its holder may have
\* made a thread; once one is stored nobody makes another.
Single(c) ==
    /\ store[c] = 0 =>
        /\ \A d \in Tasks : Makes(d, c) => locks[c] # 0 /\ task[d].lock = locks[c]
        /\ \A d, e \in Tasks : Inside(d, c) /\ Inside(e, c) => d = e
        /\ \/ threads[c] = 0 /\ \A d \in Tasks : Inside(d, c) => At(d, "creating")
           \/ threads[c] = 1 /\ \E d \in Tasks : Inside(d, c) /\ At(d, "storing")
    /\ store[c] # 0 => threads[c] <= 1 /\ \A d \in Tasks : ~Inside(d, c)

Singles == \A c \in Chats : Chatting(c) /\ c \notin failed => Single(c)

-----------------------------------------------------------------------------
(* The helpers *)

Set(d, p, l, n) ==
    task' = [task EXCEPT ![d] = [msg |-> task[d].msg, pc |-> p, lock |-> l, thread |-> n]]

\* A handler moves, with another lock or thread or without: the rest of its record stays.
LEMMA Forms ==
    ASSUME Types, NEW d \in Tasks, NEW p, NEW l, NEW n
    PROVE  /\ Go(d, p) => Set(d, p, task[d].lock, task[d].thread)
           /\ task' = [task EXCEPT ![d].pc = p, ![d].thread = n] => Set(d, p, task[d].lock, n)
           /\ task' = [task EXCEPT ![d].pc = p, ![d].lock = l] => Set(d, p, l, task[d].thread)
<1>1. task[d] \in Handler /\ task \in [Tasks -> Handler]
  BY DEF Types, HandlerTypes
<1>. DEFINE h == [msg |-> task[d].msg, pc |-> p, lock |-> task[d].lock, thread |-> task[d].thread]
<1>2. [task[d] EXCEPT !.pc = p] = h
  BY <1>1 DEF Handler
<1>6. /\ [h EXCEPT !.thread = n] = [msg |-> task[d].msg, pc |-> p, lock |-> task[d].lock, thread |-> n]
      /\ [h EXCEPT !.lock = l] = [msg |-> task[d].msg, pc |-> p, lock |-> l, thread |-> task[d].thread]
  OBVIOUS
<1>. HIDE DEF h
<1>3. Go(d, p) => Set(d, p, task[d].lock, task[d].thread)
  BY <1>1, <1>2 DEF Go, Set, h
<1>4. ASSUME task' = [task EXCEPT ![d].pc = p, ![d].thread = n]
      PROVE  Set(d, p, task[d].lock, n)
  BY <1>1, <1>2, <1>4, <1>6 DEF Set
<1>5. ASSUME task' = [task EXCEPT ![d].pc = p, ![d].lock = l]
      PROVE  Set(d, p, l, task[d].thread)
  BY <1>1, <1>2, <1>5, <1>6 DEF Set
<1>. QED
  BY <1>3, <1>4, <1>5

\* A handler that was begun and moves keeps the types, and the others are where they were.
LEMMA SetTypes ==
    ASSUME Types, NEW d \in Tasks, NEW p \in Places, NEW l \in Nat, NEW n \in Nat,
           task[d].pc # "none", p # "none", p = "storing" => n # 0, Set(d, p, l, n), received' = received
    PROVE  HandlerTypes'
<1>1. [msg |-> task[d].msg, pc |-> p, lock |-> l, thread |-> n] \in Handler
  BY DEF Types, HandlerTypes, Handler
<1>. QED
  BY <1>1 DEF Types, HandlerTypes, Set, At

\* The numbers and the conversation of a handler.
LEMMA Known ==
    ASSUME Types, NEW d \in Tasks, task[d].pc # "none"
    PROVE  /\ task[d].lock \in Nat /\ task[d].thread \in Nat /\ d \in Nat /\ d # 0
           /\ Of(d) \in Chats
           /\ store[Of(d)] \in Nat /\ threads[Of(d)] \in Nat /\ locks[Of(d)] \in Nat
BY ChannelAssumption DEF Types, HandlerTypes, Handler, Of, Tasks

\* Every step keeps the types.
LEMMA TypesStep ==
    ASSUME Types, [Next]_vars
    PROVE  Types'
<1>. USE DEF input, memory, gateway
<1>1. ASSUME NEW m \in Messages, Receive(m) PROVE Types'
  <2>1. CASE UNCHANGED <<task, received>>
    BY <1>1, <2>1 DEF Receive, Types, HandlerTypes, At
  <2>2. CASE /\ received < MaxTasks /\ received' = received + 1
             /\ task' = [task EXCEPT ![received + 1] = [NoTask EXCEPT !.msg = m, !.pc = "queued"]]
    <3>1. received + 1 \in Tasks
      BY <2>2, ChannelAssumption DEF Types, HandlerTypes, Tasks
    <3>2. [NoTask EXCEPT !.msg = m, !.pc = "queued"]
          = [msg |-> m, pc |-> "queued", lock |-> 0, thread |-> 0]
      <4>. DEFINE h == [msg |-> m, pc |-> "none", lock |-> 0, thread |-> 0]
      <4>1. [NoTask EXCEPT !.msg = m] = h
        BY DEF NoTask
      <4>2. [h EXCEPT !.pc = "queued"] = [msg |-> m, pc |-> "queued", lock |-> 0, thread |-> 0]
        OBVIOUS
      <4>. HIDE DEF h
      <4>. QED
        BY <4>1, <4>2
    <3>3. [msg |-> m, pc |-> "queued", lock |-> 0, thread |-> 0] \in Handler
      BY DEF Handler, Places
    <3>4. HandlerTypes'
      BY <2>2, <3>1, <3>2, <3>3 DEF Types, HandlerTypes, At, Tasks
    <3>. QED
      BY <1>1, <3>4 DEF Receive, Types
  <2>. QED
    BY <1>1, <2>1, <2>2 DEF Receive
<1>2. ASSUME NEW d \in Tasks, Reject(d) PROVE Types'
  <2>1. task[d].pc # "none" /\ received' = received
    BY <1>2 DEF Reject, At
  <2>2. Set(d, "told", task[d].lock, task[d].thread)
    BY <1>2, <2>1, Forms, Known DEF Reject, At
  <2>3. HandlerTypes'
    BY <2>1, <2>2, SetTypes, Known DEF Places, Ends
  <2>. QED
    BY <1>2, <2>1, <2>3, Known DEF Reject, Types
<1>3. ASSUME NEW d \in Tasks, Create(d) PROVE Types'
  <2>1. task[d].pc # "none" /\ received' = received
    BY <1>3 DEF Create, At
  <2>2. Set(d, "storing", task[d].lock, threads[Of(d)] + 1)
    BY <1>3, <2>1, Forms, Known DEF Create, At
  <2>3. HandlerTypes'
    BY <2>1, <2>2, SetTypes, Known DEF Places, Ends
  <2>. QED
    BY <1>3, <2>1, <2>3, Known DEF Create, Types
<1>4. ASSUME NEW d \in Tasks, CreateFails(d) PROVE Types'
  <2>1. task[d].pc # "none" /\ received' = received
    BY <1>4 DEF CreateFails, Fail, At
  <2>2. Set(d, "failed", task[d].lock, task[d].thread)
    BY <1>4, <2>1, Forms, Known DEF CreateFails, Fail, At
  <2>3. HandlerTypes'
    BY <2>1, <2>2, SetTypes, Known DEF Places, Ends
  <2>. QED
    BY <1>4, <2>1, <2>3, Known DEF CreateFails, Unregister, Types
<1>5. ASSUME NEW d \in Tasks, Start(d) PROVE Types'
  <2>1. task[d].pc # "none" /\ received' = received
    BY <1>5 DEF Start, At
  <2>2. \E p \in {"told", "handed", "running"} : Set(d, p, task[d].lock, task[d].thread)
    BY <1>5, <2>1, Forms, Known DEF Start, At
  <2>3. HandlerTypes'
    BY <2>1, <2>2, SetTypes, Known DEF Places, Ends
  <2>. QED
    BY <1>5, <2>1, <2>3, Known DEF Start, Types
<1>6. ASSUME NEW d \in Tasks, Answer(d) PROVE Types'
  <2>1. task[d].pc # "none" /\ received' = received
    BY <1>6 DEF Answer, At
  <2>2. Set(d, "answered", task[d].lock, task[d].thread)
    BY <1>6, <2>1, Forms, Known DEF Answer, At
  <2>3. HandlerTypes'
    BY <2>1, <2>2, SetTypes, Known DEF Places, Ends
  <2>. QED
    BY <1>6, <2>1, <2>3, Known DEF Answer, Types
<1>7. ASSUME NEW d \in Tasks, Break(d) PROVE Types'
  <2>1. task[d].pc # "none" /\ received' = received
    BY <1>7 DEF Break, Fail
  <2>2. \E p \in {"told", "failed"} : Set(d, p, task[d].lock, task[d].thread)
    BY <1>7, <2>1, Forms, Known DEF Break, Fail
  <2>3. HandlerTypes'
    BY <2>1, <2>2, SetTypes, Known DEF Places, Ends
  <2>. QED
    BY <1>7, <2>1, <2>3, Known DEF Break, Fail, Types
<1>8. ASSUME NEW d \in Tasks, Store(d) PROVE Types'
  <2>1. task[d].pc # "none" /\ received' = received
    BY <1>8 DEF Store, At
  <2>2. \E p \in {"answered", "run"} : Set(d, p, task[d].lock, task[d].thread)
    BY <1>8, <2>1, Forms, Known DEF Store, At
  <2>3. HandlerTypes'
    BY <2>1, <2>2, SetTypes, Known DEF Places, Ends
  <2>. QED
    BY <1>8, <2>1, <2>3, Known DEF Store, Unregister, Types
<1>9. ASSUME NEW d \in Tasks, Lock(d) PROVE Types'
  <2>1. task[d].pc # "none" /\ received' = received
    BY <1>9 DEF Lock, At
  <2>2. \/ Set(d, "creating", task[d].lock, task[d].thread)
        \/ Set(d, "run", task[d].lock, store[Of(d)])
    BY <1>9, <2>1, Forms, Known DEF Lock, At
  <2>3. HandlerTypes'
    BY <2>1, <2>2, SetTypes, Known DEF Places, Ends
  <2>. QED
    BY <1>9, <2>1, <2>3, Known DEF Lock, Unregister, Types
<1>10. ASSUME NEW d \in Tasks, Admit(d) PROVE Types'
  <2>1. task[d].pc # "none" /\ received' = received
    BY <1>10 DEF Admit, At
  <2>2. \/ Set(d, "creating", task[d].lock, task[d].thread)
        \/ Set(d, "run", task[d].lock, store[Of(d)])
        \/ \E l \in Nat : Set(d, "waiting", l, task[d].thread)
    BY <1>10, <2>1, Forms, Known DEF Admit, At
  <2>3. HandlerTypes'
    BY <2>1, <2>2, SetTypes, Known DEF Places, Ends
  <2>. QED
    BY <1>10, <2>1, <2>3, Known DEF Admit, Types
<1>11. CASE Lapse
  BY <1>11 DEF Lapse, Types, HandlerTypes, At
<1>12. ASSUME NEW c \in Chats, NEW n \in Tasks, RunEnds(c, n) PROVE Types'
  BY <1>12 DEF RunEnds, Types, HandlerTypes, At
<1>13. CASE UNCHANGED vars
  BY <1>13 DEF vars, Types, HandlerTypes, At
<1>. QED
  BY <1>1, <1>2, <1>3, <1>4, <1>5, <1>6, <1>7, <1>8, <1>9, <1>10, <1>11, <1>12, <1>13
  DEF Next, Progress

-----------------------------------------------------------------------------
(* One thread *)

\* The handlers of a conversation whose records did not change still make its thread.
LEMMA Away ==
    ASSUME Types, NEW d \in Tasks, NEW p, NEW l, NEW n, Set(d, p, l, n), chat' = chat
    PROVE  /\ task'[d].pc = p /\ task'[d].lock = l /\ task'[d].msg = task[d].msg
           /\ \A c \in Chats : Of(d)' = Of(d)
           /\ \A e \in Tasks \ {d} : task'[e] = task[e] /\ Of(e)' = Of(e)
BY DEF Set, Types, HandlerTypes, Of

\* A handler of another conversation, or one that stays away from the making of threads, does
\* not matter.
LEMMA OthersMove ==
    ASSUME Types, NEW c \in Chats, Single(c), NEW d \in Tasks, NEW p, NEW l, NEW n,
           Set(d, p, l, n), chat' = chat,
           Of(d) # c \/ (/\ task[d].pc \notin {"waiting", "creating", "storing"}
                         /\ p \notin {"waiting", "creating", "storing"}),
           store'[c] = store[c], threads'[c] = threads[c], locks'[c] = locks[c]
    PROVE  Single(c)'
<1>1. \A e \in Tasks : /\ Makes(e, c)' <=> Makes(e, c)
                       /\ Inside(e, c)' <=> Inside(e, c)
                       /\ Makes(e, c) => task'[e] = task[e]
  BY Away DEF Makes, Inside
<1>2. \A e \in Tasks : Inside(e, c) => Makes(e, c)
  BY DEF Inside, Makes
<1>. QED
  BY <1>1, <1>2 DEF Single, At

\* Nothing that matters changed.
LEMMA NobodyMoves ==
    ASSUME NEW c \in Chats, Single(c), chat' = chat,
           \A e \in Tasks : \/ task'[e] = task[e]
                            \/ {task[e].pc, task'[e].pc} \subseteq {"none", "queued"},
           store'[c] = store[c], threads'[c] = threads[c], locks'[c] = locks[c]
    PROVE  Single(c)'
<1>1. \A e \in Tasks : /\ Makes(e, c)' <=> Makes(e, c)
                       /\ Inside(e, c)' <=> Inside(e, c)
                       /\ Makes(e, c) => task'[e] = task[e]
  BY DEF Makes, Inside, Of
<1>2. \A e \in Tasks : Inside(e, c) => Makes(e, c)
  BY DEF Inside, Makes
<1>. QED
  BY <1>1, <1>2 DEF Single, At

\* Every step of a handler keeps the conversation single.
LEMMA HandlerStep ==
    ASSUME Types, NEW c \in Chats, Chatting(c), c \notin failed', Single(c), NEW d \in Tasks,
           Progress(d) \/ Reject(d) \/ CreateFails(d) \/ Break(d)
    PROVE  Single(c)'
<1>. USE DEF input, memory, gateway
<1>0. chat' = chat /\ task[d].pc # "none"
  BY DEF Progress, Admit, Lock, Create, Store, Start, Answer, Reject, CreateFails, Break, At
<1>k. /\ Of(d) \in Chats /\ store[Of(d)] \in Nat /\ threads[Of(d)] \in Nat /\ d # 0
      /\ locks \in [Chats -> Nat] /\ store \in [Chats -> Nat] /\ threads \in [Chats -> Nat]
      /\ task[d].msg \in Messages
  BY <1>0, Known DEF Types, HandlerTypes
<1>1. CASE Reject(d) \/ Start(d) \/ Answer(d) \/ Break(d)
  <2>1. \E p \in {"told", "handed", "running", "answered", "failed"} :
           Set(d, p, task[d].lock, task[d].thread)
    BY <1>1, Forms DEF Reject, Start, Answer, Break, Fail
  <2>2. /\ task[d].pc \in {"queued", "run", "running"}
        /\ UNCHANGED <<store, threads, locks>>
    BY <1>1 DEF Reject, Start, Answer, Break, Fail, At
  <2>. QED
    BY <1>0, <2>1, <2>2, OthersMove
<1>2. CASE CreateFails(d)
  <2>1. Set(d, "failed", task[d].lock, task[d].thread)
    BY <1>2, Forms DEF CreateFails, Fail
  <2>2. Of(d) # c
    BY <1>2 DEF CreateFails
  <2>3. store'[c] = store[c] /\ threads'[c] = threads[c] /\ locks'[c] = locks[c]
    BY <1>2, <1>k, <2>2 DEF CreateFails, Unregister
  <2>. QED
    BY <1>0, <2>1, <2>2, <2>3, OthersMove
<1>3. CASE Create(d)
  <2>1. Set(d, "storing", task[d].lock, threads[Of(d)] + 1)
    BY <1>3, Forms DEF Create
  <2>2. CASE Of(d) # c
    BY <1>0, <1>3, <1>k, <2>1, <2>2, OthersMove DEF Create
  <2>3. CASE Of(d) = c
    <3>1. Inside(d, c) /\ At(d, "creating")
      BY <1>3, <2>3 DEF Create, Inside, At
    <3>2. store[c] = 0 /\ threads[c] = 0
      BY <1>k, <2>3, <3>1 DEF Single, At
    <3>3. threads'[c] = 1 /\ store' = store /\ locks' = locks
      BY <1>3, <1>k, <2>3, <3>2 DEF Create
    <3>4. /\ \A e \in Tasks : (Makes(e, c)' <=> Makes(e, c)) /\ task'[e].lock = task[e].lock
          /\ \A e \in Tasks : Inside(e, c)' <=> Inside(e, c)
          /\ Inside(d, c)' /\ At(d, "storing")'
      BY <1>0, <2>1, <2>3, <3>1, Away DEF Makes, Inside, At
    <3>. QED
      BY <3>1, <3>2, <3>3, <3>4 DEF Single
  <2>. QED
    BY <2>2, <2>3
<1>4. CASE Store(d)
  <2>1. PICK p \in {"answered", "run"} : Set(d, p, task[d].lock, task[d].thread)
    BY <1>4, Forms DEF Store
  <2>2. CASE Of(d) # c
    <3>1. store'[c] = store[c] /\ threads'[c] = threads[c] /\ locks'[c] = locks[c]
      BY <1>4, <1>k, <2>2 DEF Store, Unregister
    <3>. QED
      BY <1>0, <2>1, <2>2, <3>1, OthersMove
  <2>3. CASE Of(d) = c
    <3>1. Inside(d, c)
      BY <1>4, <2>3 DEF Store, Inside, At
    <3>2. store[c] = 0 /\ threads[c] <= 1 /\ \A e \in Tasks : Inside(e, c) => e = d
      BY <1>k, <2>3, <3>1 DEF Single
    <3>3. threads' = threads /\ store'[c] = task[d].thread /\ task[d].thread # 0
      BY <1>4, <1>k, <2>3 DEF Store, Types, HandlerTypes
    <3>4. \A e \in Tasks : ~Inside(e, c)'
      BY <1>0, <2>1, <3>2, Away DEF Inside
    <3>. QED
      BY <3>2, <3>3, <3>4 DEF Single
  <2>. QED
    BY <2>2, <2>3
<1>5. CASE Lock(d)
  <2>0. /\ store' = store /\ threads' = threads
        /\ task[d].pc = "waiting" /\ ~Held(task[d].lock)
    BY <1>5 DEF Lock, At
  <2>1. CASE Of(d) # c
    <3>1. locks'[c] = locks[c]
      BY <1>5, <1>k, <2>1 DEF Lock, Unregister
    <3>2. \E p \in {"creating", "run"}, n \in Nat : Set(d, p, task[d].lock, n)
      BY <1>0, <1>5, <1>k, Forms, Known DEF Lock
    <3>. QED
      BY <1>0, <2>0, <2>1, <3>1, <3>2, OthersMove
  <2>2. CASE Of(d) = c /\ store[c] # 0
    <3>1. Set(d, "run", task[d].lock, store[c])
      BY <1>5, <2>2, Forms DEF Lock
    <3>2. \A e \in Tasks : ~Inside(e, c)'
      BY <1>0, <2>2, <3>1, Away DEF Inside, Single
    <3>. QED
      BY <2>0, <2>2, <3>2 DEF Single
  <2>3. CASE Of(d) = c /\ store[c] = 0
    <3>1. Set(d, "creating", task[d].lock, task[d].thread) /\ locks' = locks
      BY <1>5, <2>3, Forms DEF Lock
    <3>2. Makes(d, c) /\ task[d].lock = locks[c]
      BY <2>0, <2>3 DEF Makes, Single
    <3>3. \A e \in Tasks : ~Inside(e, c)
      BY <2>0, <2>3, <3>2 DEF Inside, Makes, Single, Held
    <3>4. threads[c] = 0
      BY <2>3, <3>3 DEF Single
    <3>5. \A e \in Tasks : /\ Makes(e, c)' <=> Makes(e, c)
                           /\ task'[e].lock = task[e].lock
                           /\ Inside(e, c)' <=> e = d
      BY <1>0, <2>3, <3>1, <3>2, <3>3, Away DEF Makes, Inside
    <3>6. At(d, "creating")'
      BY <1>0, <3>1, Away DEF At
    <3>. QED
      BY <2>0, <2>3, <3>1, <3>4, <3>5, <3>6 DEF Single
  <2>. QED
    BY <2>1, <2>2, <2>3
<1>6. CASE Admit(d)
  <2>0. store' = store /\ threads' = threads /\ task[d].pc = "queued"
    BY <1>6 DEF Admit, At
  <2>1. CASE Of(d) # c
    <3>1. locks'[c] = locks[c]
      BY <1>6, <1>k, <2>1 DEF Admit
    <3>2. \E p \in {"creating", "run", "waiting"}, l, n \in Nat : Set(d, p, l, n)
      BY <1>0, <1>6, <1>k, Forms, Known DEF Admit
    <3>. QED
      BY <1>0, <2>0, <2>1, <3>1, <3>2, OthersMove
  <2>2. CASE Of(d) = c
    <3>1. task[d].msg \notin commands
      BY <1>k, <2>2 DEF Chatting, Of
    <3>2. CASE store[c] # 0
      <4>1. Set(d, "run", task[d].lock, store[c]) /\ locks' = locks
        BY <1>6, <2>2, <3>1, <3>2, Forms DEF Admit
      <4>. QED
        BY <1>0, <2>0, <4>1, OthersMove
    <3>3. CASE store[c] = 0
      <4>. DEFINE lock == IF locks[c] = 0 THEN d ELSE locks[c]
      <4>1. locks' = [locks EXCEPT ![c] = lock]
            /\ task' = [task EXCEPT ![d].pc = "waiting", ![d].lock = lock]
        BY <1>6, <2>2, <3>1, <3>3 DEF Admit
      <4>2. lock # 0 /\ (locks[c] # 0 => lock = locks[c])
        BY <1>k
      <4>. HIDE DEF lock
      <4>3. Set(d, "waiting", lock, task[d].thread) /\ locks'[c] = lock
        BY <1>k, <4>1, Forms
      <4>4. /\ task'[d].lock = lock /\ ~Inside(d, c) /\ ~Inside(d, c)'
            /\ \A e \in Tasks \ {d} : /\ Makes(e, c)' <=> Makes(e, c)
                                      /\ Inside(e, c)' <=> Inside(e, c)
                                      /\ task'[e] = task[e]
        BY <1>0, <2>0, <4>3, Away DEF Makes, Inside
      <4>5. ASSUME NEW e \in Tasks, Makes(e, c)'
            PROVE  locks'[c] # 0 /\ (task[e].lock)' = locks'[c]
        <5>1. CASE e = d
          BY <4>2, <4>3, <4>4, <5>1
        <5>2. CASE e # d
          <6>1. task'[e] = task[e] /\ Makes(e, c)
            <7>1. task'[e] = task[e] /\ Of(e)' = Of(e)
              BY <1>0, <4>3, <5>2, Away
            <7>. QED
              BY <4>5, <7>1 DEF Makes
          <6>2. locks[c] # 0 /\ task[e].lock = locks[c]
            BY <3>3, <6>1 DEF Single
          <6>. QED
            BY <4>2, <4>3, <6>1, <6>2
        <5>. QED
          BY <5>1, <5>2
      <4>6. \A e \in Tasks : /\ Inside(e, c)' <=> Inside(e, c)
                             /\ Inside(e, c) => task'[e] = task[e]
        BY <1>0, <2>0, <4>3, Away DEF Inside
      <4>. QED
        BY <2>0, <3>3, <4>5, <4>6 DEF Single, At
    <3>. QED
      BY <3>2, <3>3
  <2>. QED
    BY <2>1, <2>2
<1>. QED
  BY <1>1, <1>2, <1>3, <1>4, <1>5, <1>6 DEF Progress

\* Every step keeps every conversation single.
LEMMA SinglesStep ==
    ASSUME Types, Singles, [Next]_vars
    PROVE  Singles'
<1>. SUFFICES ASSUME NEW c \in Chats, Chatting(c)', c \notin failed'
              PROVE  Single(c)'
  BY DEF Singles
<1>. USE DEF input, memory, gateway
<1>0. /\ chat' = chat /\ commands' = commands /\ failed \subseteq failed'
  BY DEF Next, Progress, Admit, Lock, Create, Store, Start, Answer, Reject, CreateFails, Break,
         Receive, Lapse, RunEnds, vars
<1>1. Chatting(c) /\ Single(c)
  BY <1>0 DEF Chatting, Singles
<1>2. ASSUME NEW d \in Tasks, Progress(d) \/ Reject(d) \/ CreateFails(d) \/ Break(d)
      PROVE  Single(c)'
  BY <1>1, <1>2, HandlerStep
<1>3. ASSUME UNCHANGED <<task, store, threads, locks>> PROVE Single(c)'
  BY <1>0, <1>1, <1>3, NobodyMoves
<1>4. ASSUME NEW m \in Messages, Receive(m) PROVE Single(c)'
  <2>1. CASE UNCHANGED task
    BY <1>3, <1>4, <2>1 DEF Receive
  <2>2. CASE /\ received < MaxTasks
             /\ task' = [task EXCEPT ![received + 1] = [NoTask EXCEPT !.msg = m, !.pc = "queued"]]
    <3>. DEFINE d == received + 1
    <3>1. d \in Tasks /\ task[d].pc = "none"
      BY <2>2, ChannelAssumption DEF Types, HandlerTypes, Tasks, At
    <3>2. [NoTask EXCEPT !.msg = m, !.pc = "queued"].pc = "queued"
      BY DEF NoTask
    <3>. HIDE DEF d
    <3>3. task'[d].pc = "queued" /\ \A e \in Tasks \ {d} : task'[e] = task[e]
      BY <2>2, <3>1, <3>2 DEF Types, HandlerTypes, d
    <3>4. \A e \in Tasks : \/ task'[e] = task[e]
                           \/ {task[e].pc, task'[e].pc} \subseteq {"none", "queued"}
      BY <3>1, <3>3
    <3>5. UNCHANGED <<store, threads, locks>>
      BY <1>4 DEF Receive
    <3>. QED
      BY <1>0, <1>1, <3>4, <3>5, NobodyMoves
  <2>. QED
    BY <1>4, <2>1, <2>2 DEF Receive
<1>5. CASE Lapse \/ (\E k \in Chats, n \in Tasks : RunEnds(k, n)) \/ UNCHANGED vars
  BY <1>3, <1>5 DEF Lapse, RunEnds, vars
<1>. QED
  BY <1>2, <1>4, <1>5 DEF Next

-----------------------------------------------------------------------------
(* The memory of recent messages *)

\* Fewer keys, the oldest gone: they stay apart.
LEMMA SuffixKeys ==
    ASSUME NEW s \in Seq(Messages), IsInjective(s), NEW i \in 1..(Len(s) + 1)
    PROVE  LET u == SubSeq(s, i, Len(s))
           IN u \in Seq(Messages) /\ IsInjective(u) /\ ToSet(u) \subseteq ToSet(s)
BY DEF IsInjective, ToSet

\* A new key at the end.
LEMMA AppendedKey ==
    ASSUME NEW s \in Seq(Messages), IsInjective(s), NEW m \in Messages, m \notin ToSet(s)
    PROVE  LET u == Append(s, m)
           IN u \in Seq(Messages) /\ IsInjective(u) /\ ToSet(u) = ToSet(s) \cup {m}
BY DEF IsInjective, ToSet

\* The oldest key goes.
LEMMA OldestKey ==
    ASSUME NEW s \in Seq(Messages), IsInjective(s), s # <<>>
    PROVE  /\ Tail(s) \in Seq(Messages) /\ IsInjective(Tail(s))
           /\ ToSet(Tail(s)) = ToSet(s) \ {Head(s)}
<1>1. /\ Tail(s) \in Seq(Messages) /\ Len(Tail(s)) = Len(s) - 1 /\ Len(s) \in Nat \ {0}
      /\ \A i \in 1..(Len(s) - 1) : Tail(s)[i] = s[i + 1]
      /\ Head(s) = s[1]
  BY HeadTailProperties
<1>2. DOMAIN s = 1..Len(s) /\ DOMAIN Tail(s) = 1..(Len(s) - 1)
  BY <1>1
<1>3. IsInjective(Tail(s))
  BY <1>1, <1>2 DEF IsInjective
<1>4. ASSUME NEW x \in ToSet(s) \ {Head(s)} PROVE x \in ToSet(Tail(s))
  <2>1. PICK i \in 2..Len(s) : s[i] = x
    BY <1>1, <1>2 DEF ToSet
  <2>2. i - 1 \in DOMAIN Tail(s) /\ Tail(s)[i - 1] = x
    BY <1>1, <1>2, <2>1
  <2>. QED
    BY <2>2 DEF ToSet
<1>5. ASSUME NEW i \in DOMAIN Tail(s) PROVE Tail(s)[i] \in ToSet(s) \ {Head(s)}
  BY <1>1, <1>2 DEF ToSet, IsInjective
<1>6. ToSet(Tail(s)) \subseteq ToSet(s) \ {Head(s)}
  BY <1>5 DEF ToSet
<1>. QED
  BY <1>1, <1>3, <1>4, <1>6

\* A key that is released is not there any more, and all others are.
LEMMA ReleasedKey ==
    ASSUME NEW s \in Seq(Messages), IsInjective(s), NEW m
    PROVE  LET u == RemoveFirst(s, m)
           IN u \in Seq(Messages) /\ IsInjective(u) /\ ToSet(u) = ToSet(s) \ {m}
<1>1. CASE \E i \in 1..Len(s) : s[i] = m
  <2>1. PICK i \in 1..Len(s) : s[i] = m
    BY <1>1
  <2>2. {j \in 1..Len(s) : s[j] = m} = {i}
    BY <2>1 DEF IsInjective
  <2>3. Min({i}) = i
    BY <2>1 DEF Min
  <2>4. RemoveFirst(s, m) = RemoveAt(s, i)
    BY <2>1, <2>2, <2>3 DEF RemoveFirst, SelectInSeq
  <2>. DEFINE u == RemoveAt(s, i)
              n == Len(s) - 1
  <2>5. /\ u \in Seq(Messages) /\ Len(u) = n /\ n \in Nat
        /\ \A j \in 1..n : u[j] = IF j < i THEN s[j] ELSE s[j + 1]
    <3>. DEFINE a == SubSeq(s, 1, i - 1)
                b == SubSeq(s, i + 1, Len(s))
    <3>1. /\ a \in Seq(Messages) /\ Len(a) = i - 1
          /\ \A j \in 1..(i - 1) : a[j] = s[j]
      BY <2>1
    <3>2. /\ b \in Seq(Messages) /\ Len(b) = Len(s) - i
          /\ \A j \in 1..(Len(s) - i) : b[j] = s[j + i]
      BY <2>1
    <3>3. u = a \o b /\ i \in Nat /\ Len(s) \in Nat /\ 1 <= i /\ i <= Len(s)
      BY <2>1 DEF RemoveAt
    <3>. HIDE DEF a, b, u
    <3>4. /\ u \in Seq(Messages) /\ Len(u) = n
          /\ \A j \in 1..n : u[j] = IF j <= Len(a) THEN a[j] ELSE b[j - Len(a)]
      <4>1. /\ a \o b \in Seq(Messages) /\ Len(a \o b) = Len(a) + Len(b)
            /\ \A j \in 1..(Len(a) + Len(b)) :
                 (a \o b)[j] = IF j <= Len(a) THEN a[j] ELSE b[j - Len(a)]
        BY <3>1, <3>2, ConcatProperties
      <4>2. Len(a) + Len(b) = n
        BY <3>1, <3>2, <3>3
      <4>. QED
        BY <3>3, <4>1, <4>2
    <3>. QED
      BY <3>1, <3>2, <3>3, <3>4
  <2>. HIDE DEF u
  <2>6. DOMAIN u = 1..n /\ DOMAIN s = 1..Len(s) /\ Len(s) = n + 1
    BY <2>5
  <2>7. IsInjective(u)
    <3>. SUFFICES ASSUME NEW j \in 1..n, NEW k \in 1..n, u[j] = u[k] PROVE j = k
      BY <2>6 DEF IsInjective
    <3>. DEFINE at(l) == IF l < i THEN l ELSE l + 1
    <3>1. at(j) \in 1..Len(s) /\ u[j] = s[at(j)] /\ at(k) \in 1..Len(s) /\ u[k] = s[at(k)]
      BY <2>1, <2>5, <2>6
    <3>2. at(j) = at(k)
      BY <2>6, <3>1 DEF IsInjective
    <3>. QED
      BY <2>1, <2>5, <3>2
  <2>8. ASSUME NEW x \in ToSet(s) \ {m} PROVE x \in ToSet(u)
    <3>1. PICK j \in 1..Len(s) : s[j] = x
      BY <2>6 DEF ToSet
    <3>2. j # i
      BY <2>1, <3>1
    <3>3. CASE j < i
      BY <2>1, <2>5, <2>6, <3>1, <3>3 DEF ToSet
    <3>4. CASE j > i
      <4>1. j - 1 \in 1..n /\ u[j - 1] = x
        BY <2>1, <2>5, <2>6, <3>1, <3>4
      <4>. QED
        BY <2>6, <4>1 DEF ToSet
    <3>. QED
      BY <2>1, <3>1, <3>2, <3>3, <3>4
  <2>9. ASSUME NEW j \in DOMAIN u PROVE u[j] \in ToSet(s) \ {m}
    <3>1. PICK k \in 1..Len(s) : k # i /\ u[j] = s[k]
      BY <2>1, <2>5, <2>6
    <3>. QED
      BY <2>1, <2>6, <3>1 DEF ToSet, IsInjective
  <2>10. ToSet(u) \subseteq ToSet(s) \ {m}
    BY <2>9 DEF ToSet
  <2>. QED
    BY <2>4, <2>5, <2>7, <2>8, <2>10 DEF u
<1>2. CASE ~\E i \in 1..Len(s) : s[i] = m
  BY <1>2 DEF RemoveFirst, ToSet
<1>. QED
  BY <1>1, <1>2

Handles(d, m) == task[d].msg = m /\ task[d].pc # "failed"

\* A remembered key has a handler that has not failed, and as long as it was not forgotten by age
\* or number a handler that has not failed is the only one and has its key remembered.
Keys ==
    /\ recent \in Seq(Messages) /\ IsInjective(recent)
    /\ \A m \in ToSet(recent) : \E d \in Tasks : Handles(d, m)
    /\ \A m \in Messages \ lapsed, d \in Tasks : Handles(d, m) =>
         m \in ToSet(recent) /\ \A e \in Tasks : Handles(e, m) => e = d

\* A handler that moves on, or a step that is none of a handler.
LEMMA KeysKept ==
    ASSUME Keys, UNCHANGED <<recent, lapsed>>,
           \A d \in Tasks, m \in Messages : Handles(d, m)' <=> Handles(d, m)
    PROVE  Keys'
<1>1. ToSet(recent) \subseteq Messages
  BY DEF Keys, ToSet
<1>2. ToSet(recent)' = ToSet(recent)
  OBVIOUS
<1>. QED
  BY <1>1, <1>2 DEF Keys

\* A handler fails: its key is released, and nobody else has it.
LEMMA KeysReleased ==
    ASSUME Types, Keys, NEW d \in Tasks, task[d].pc \notin {"none", "failed"}, Fail(d)
    PROVE  Keys'
<1>. DEFINE k == task[d].msg
<1>1. k \in Messages /\ Handles(d, k) /\ lapsed' = lapsed
  BY DEF Types, HandlerTypes, Handles, Fail, memory
<1>2. recent' \in Seq(Messages) /\ IsInjective(recent') /\ ToSet(recent') = ToSet(recent) \ {k}
  BY ReleasedKey DEF Keys, Fail
<1>3. Set(d, "failed", task[d].lock, task[d].thread)
  BY Forms DEF Fail
<1>4. /\ \A m : ~Handles(d, m)'
      /\ \A e \in Tasks \ {d}, m \in Messages : Handles(e, m)' <=> Handles(e, m)
  BY <1>3 DEF Set, Types, HandlerTypes, Handles
<1>5. ASSUME NEW m \in ToSet(recent')
      PROVE  \E e \in Tasks : Handles(e, m)'
  <2>0. ToSet(recent) \subseteq Messages
    BY DEF Keys, ToSet
  <2>1. m \in ToSet(recent) /\ m # k /\ m \in Messages
    BY <1>2, <1>5, <2>0
  <2>2. PICK e \in Tasks : Handles(e, m)
    BY <2>1 DEF Keys
  <2>3. e # d
    BY <2>1, <2>2 DEF Handles
  <2>. QED
    BY <1>4, <2>1, <2>2, <2>3
<1>6. ASSUME NEW m \in Messages \ lapsed, NEW e \in Tasks, Handles(e, m)'
      PROVE  m \in ToSet(recent') /\ \A f \in Tasks : Handles(f, m)' => f = e
  <2>1. e # d /\ Handles(e, m)
    BY <1>4, <1>6
  <2>2. m \in ToSet(recent) /\ \A f \in Tasks : Handles(f, m) => f = e
    BY <2>1 DEF Keys
  <2>3. m # k
    BY <1>1, <2>1, <2>2
  <2>. QED
    BY <1>2, <1>4, <2>2, <2>3
<1>. HIDE DEF k
<1>7. ToSet(recent)' = ToSet(recent')
  OBVIOUS
<1>. QED
  BY <1>1, <1>2, <1>5, <1>6, <1>7 DEF Keys

\* A delivery: the keys that go are forgotten, and a message without a key gets a handler.
LEMMA KeysReceived ==
    ASSUME Types, Keys, NEW m \in Messages, Receive(m)
    PROVE  Keys'
<1>1. Kept \in Seq(Messages) /\ IsInjective(Kept) /\ ToSet(Kept) \subseteq ToSet(recent)
  <2>. DEFINE i == IF Len(recent) > MaxEntries THEN Len(recent) - MaxEntries + 1 ELSE 1
  <2>1. recent \in Seq(Messages) /\ IsInjective(recent) /\ i \in 1..(Len(recent) + 1)
    BY ChannelAssumption DEF Keys
  <2>2. Kept = SubSeq(recent, i, Len(recent))
    BY DEF Kept
  <2>. HIDE DEF i
  <2>. QED
    BY <2>1, <2>2, SuffixKeys
<1>2. lapsed' = lapsed \cup (ToSet(recent) \ ToSet(Kept))
  BY DEF Receive
<1>3. CASE m \in ToSet(Kept)
  <2>1. recent' = Kept /\ task' = task
    BY <1>3 DEF Receive
  <2>2. \A d \in Tasks, n \in Messages : Handles(d, n)' <=> Handles(d, n)
    BY <2>1 DEF Handles
  <2>3. ToSet(recent)' = ToSet(Kept) /\ ToSet(Kept) \subseteq Messages
    BY <1>1, <2>1 DEF ToSet
  <2>. QED
    BY <1>1, <1>2, <2>1, <2>2, <2>3 DEF Keys
<1>4. CASE m \notin ToSet(Kept)
  <2>1. /\ recent' = Append(Kept, m) /\ received < MaxTasks
        /\ task' = [task EXCEPT ![received + 1] = [NoTask EXCEPT !.msg = m, !.pc = "queued"]]
    BY <1>4 DEF Receive
  <2>2. recent' \in Seq(Messages) /\ IsInjective(recent') /\ ToSet(recent') = ToSet(Kept) \cup {m}
    BY <1>1, <1>4, <2>1, AppendedKey
  <2>0. received + 1 \in Tasks /\ task[received + 1].pc = "none"
    BY <2>1, ChannelAssumption DEF Types, HandlerTypes, Tasks, At
  <2>3. PICK d \in Tasks : d = received + 1 /\ task[d].pc = "none"
    BY <2>0
  <2>4. /\ [NoTask EXCEPT !.msg = m, !.pc = "queued"].pc = "queued"
        /\ [NoTask EXCEPT !.msg = m, !.pc = "queued"].msg = m
    BY DEF NoTask
  <2>5. /\ task'[d].pc = "queued" /\ task'[d].msg = m
        /\ \A e \in Tasks \ {d} : task'[e] = task[e]
    BY <2>1, <2>3, <2>4 DEF Types, HandlerTypes
  <2>6. /\ \A n \in Messages : Handles(d, n)' <=> n = m
        /\ \A e \in Tasks \ {d}, n \in Messages : Handles(e, n)' <=> Handles(e, n)
    BY <2>5 DEF Handles
  <2>7. \A n \in Messages : ~Handles(d, n)
    BY <2>3 DEF Handles, Types, HandlerTypes
  <2>8. ASSUME NEW n \in ToSet(recent') PROVE \E e \in Tasks : Handles(e, n)'
    <3>1. CASE n = m
      BY <2>3, <2>6, <3>1
    <3>2. CASE n # m
      <4>0. ToSet(recent) \subseteq Messages
        BY DEF Keys, ToSet
      <4>1. n \in ToSet(recent) /\ n \in Messages
        BY <1>1, <2>2, <2>8, <3>2, <4>0
      <4>2. PICK e \in Tasks : Handles(e, n)
        BY <4>1 DEF Keys
      <4>. QED
        BY <2>6, <2>7, <4>1, <4>2
    <3>. QED
      BY <3>1, <3>2
  <2>9. ASSUME NEW n \in Messages \ lapsed', NEW e \in Tasks, Handles(e, n)'
        PROVE  n \in ToSet(recent') /\ \A f \in Tasks : Handles(f, n)' => f = e
    <3>1. n \notin lapsed /\ (n \in ToSet(recent) => n \in ToSet(Kept))
      BY <1>2, <2>9
    <3>2. \A f \in Tasks : Handles(f, n) => n \in ToSet(Kept)
      BY <2>9, <3>1 DEF Keys
    <3>3. CASE n = m
      <4>1. \A f \in Tasks : ~Handles(f, n)
        BY <1>4, <3>2, <3>3
      <4>. QED
        BY <2>2, <2>6, <2>9, <3>3, <4>1
    <3>4. CASE n # m
      <4>1. e # d /\ Handles(e, n)
        BY <2>6, <2>9, <3>4
      <4>2. \A f \in Tasks : Handles(f, n) => f = e
        BY <2>9, <3>1, <4>1 DEF Keys
      <4>. QED
        BY <2>2, <2>6, <3>2, <3>4, <4>1, <4>2
    <3>. QED
      BY <3>3, <3>4
  <2>10. ToSet(recent)' = ToSet(recent')
    OBVIOUS
  <2>. QED
    BY <2>2, <2>8, <2>9, <2>10 DEF Keys
<1>. QED
  BY <1>3, <1>4

\* Every step keeps the keys.
LEMMA KeysStep ==
    ASSUME Types, Keys, [Next]_vars
    PROVE  Keys'
<1>. USE DEF input, memory, gateway
<1>1. ASSUME NEW d \in Tasks, NEW p, NEW l, NEW n, task[d].pc # "failed", p # "failed",
             Set(d, p, l, n), UNCHANGED memory
      PROVE  Keys'
  <2>1. \A e \in Tasks, m \in Messages : Handles(e, m)' <=> Handles(e, m)
    BY <1>1 DEF Set, Types, HandlerTypes, Handles
  <2>. QED
    BY <1>1, <2>1, KeysKept
<1>2. ASSUME NEW d \in Tasks, Admit(d) PROVE Keys'
  <2>1. \/ Set(d, "creating", task[d].lock, task[d].thread)
        \/ Set(d, "run", task[d].lock, store[Of(d)])
        \/ \E l \in Nat : Set(d, "waiting", l, task[d].thread)
    <3>1. task[d].pc # "none"
      BY <1>2 DEF Admit, At
    <3>. QED
      BY <1>2, <3>1, Forms, Known DEF Admit
  <2>2. task[d].pc # "failed" /\ UNCHANGED memory
    BY <1>2 DEF Admit, At
  <2>. QED
    BY <1>1, <2>1, <2>2
<1>3. ASSUME NEW d \in Tasks, Lock(d) PROVE Keys'
  <2>1. PICK p \in {"creating", "run"}, l \in Nat, n \in Nat : Set(d, p, l, n)
    BY <1>3, Forms, Known DEF Lock, At
  <2>2. task[d].pc # "failed" /\ UNCHANGED memory
    BY <1>3 DEF Lock, At
  <2>. QED
    BY <1>1, <2>1, <2>2
<1>4. ASSUME NEW d \in Tasks, Create(d) PROVE Keys'
  <2>1. Set(d, "storing", task[d].lock, threads[Of(d)] + 1)
    BY <1>4, Forms DEF Create
  <2>2. task[d].pc # "failed" /\ UNCHANGED memory
    BY <1>4 DEF Create, At
  <2>. QED
    BY <1>1, <2>1, <2>2
<1>5. ASSUME NEW d \in Tasks, Store(d) PROVE Keys'
  <2>1. PICK p \in {"answered", "run"}, l \in Nat, n \in Nat : Set(d, p, l, n)
    BY <1>5, Forms, Known DEF Store, At
  <2>2. task[d].pc # "failed" /\ UNCHANGED memory
    BY <1>5 DEF Store, At
  <2>. QED
    BY <1>1, <2>1, <2>2
<1>6. ASSUME NEW d \in Tasks, Start(d) PROVE Keys'
  <2>1. PICK p \in {"told", "running", "handed"}, l \in Nat, n \in Nat : Set(d, p, l, n)
    BY <1>6, Forms, Known DEF Start, At
  <2>2. task[d].pc # "failed" /\ UNCHANGED memory
    BY <1>6 DEF Start, At
  <2>. QED
    BY <1>1, <2>1, <2>2
<1>7. ASSUME NEW d \in Tasks, Answer(d) PROVE Keys'
  <2>1. PICK p \in {"answered"}, l \in Nat, n \in Nat : Set(d, p, l, n)
    BY <1>7, Forms, Known DEF Answer, At
  <2>2. task[d].pc # "failed" /\ UNCHANGED memory
    BY <1>7 DEF Answer, At
  <2>. QED
    BY <1>1, <2>1, <2>2
<1>8. ASSUME NEW d \in Tasks, Reject(d) PROVE Keys'
  <2>1. PICK p \in {"told"}, l \in Nat, n \in Nat : Set(d, p, l, n)
    BY <1>8, Forms, Known DEF Reject, At
  <2>2. task[d].pc # "failed" /\ UNCHANGED memory
    BY <1>8 DEF Reject, At
  <2>. QED
    BY <1>1, <2>1, <2>2
<1>9. ASSUME NEW d \in Tasks, CreateFails(d) PROVE Keys'
  BY <1>9, KeysReleased DEF CreateFails, At
<1>10. ASSUME NEW d \in Tasks, Break(d) PROVE Keys'
  <2>1. CASE Go(d, "told") /\ UNCHANGED memory
    <3>1. Set(d, "told", task[d].lock, task[d].thread)
      BY <2>1, Forms
    <3>. QED
      BY <1>1, <1>10, <2>1, <3>1 DEF Break
  <2>2. CASE Fail(d)
    BY <1>10, <2>2, KeysReleased DEF Break
  <2>. QED
    BY <1>10, <2>1, <2>2 DEF Break
<1>11. ASSUME NEW m \in Messages, Receive(m) PROVE Keys'
  BY <1>11, KeysReceived
<1>12. CASE Lapse
  <2>1. /\ recent # <<>> /\ recent' = Tail(recent) /\ lapsed' = lapsed \cup {Head(recent)}
        /\ task' = task
    BY <1>12 DEF Lapse
  <2>2. /\ recent' \in Seq(Messages) /\ IsInjective(recent')
        /\ ToSet(recent') = ToSet(recent) \ {Head(recent)}
    BY <2>1, OldestKey DEF Keys
  <2>3. \A e \in Tasks, m \in Messages : Handles(e, m)' <=> Handles(e, m)
    BY <2>1 DEF Handles
  <2>5. ToSet(recent) \subseteq Messages
    BY DEF Keys, ToSet
  <2>4. ToSet(recent)' = ToSet(recent')
    OBVIOUS
  <2>. QED
    BY <2>1, <2>2, <2>3, <2>4, <2>5 DEF Keys
<1>13. CASE (\E c \in Chats, n \in Tasks : RunEnds(c, n)) \/ UNCHANGED vars
  <2>1. task' = task /\ UNCHANGED memory
    BY <1>13 DEF RunEnds, vars
  <2>. QED
    BY <2>1, KeysKept DEF Handles
<1>. QED
  BY <1>2, <1>3, <1>4, <1>5, <1>6, <1>7, <1>8, <1>9, <1>10, <1>11, <1>12, <1>13 DEF Next, Progress

-----------------------------------------------------------------------------
(* The theorems *)

\* The first state is well typed, and no conversation has a thread.
LEMMA InitSingle == Init => Types /\ Singles
<1>. SUFFICES ASSUME Init PROVE Types /\ Singles
  OBVIOUS
<1>1. NoTask \in Handler /\ NoTask.pc = "none"
  BY DEF NoTask, Handler, Places
<1>2. Types
  BY <1>1, ChannelAssumption DEF Init, Types, HandlerTypes, At, NoTask
<1>3. ASSUME NEW c \in Chats PROVE Single(c)
  BY <1>1 DEF Init, Single, Makes, Inside
<1>. QED
  BY <1>2, <1>3 DEF Singles

\* _get_or_create_thread: a conversation in which no creation failed and nobody asks for a new
\* thread has one thread, however many of its messages arrive together, although the registry
\* forgets a lock that others still wait for.
THEOREM ConversationHasOneThread == Spec => []OneThread
<1>1. Types /\ Singles /\ [Next]_vars => (Types /\ Singles)'
  BY TypesStep, SinglesStep
<1>2. Types /\ Singles => OneThread
  <2>. SUFFICES ASSUME Types, NEW c \in Chats, Single(c) PROVE threads[c] <= 1
    BY DEF OneThread, Singles
  <2>1. store[c] \in Nat
    BY DEF Types
  <2>. QED
    BY <2>1 DEF Single
<1>. QED
  BY <1>1, <1>2, InitSingle, PTL DEF Spec

\* In the first state nothing is remembered and nobody handles anything.
LEMMA InitKeys == Init => Keys
<1>. SUFFICES ASSUME Init PROVE Keys
  OBVIOUS
<1>1. \A d \in Tasks, m \in Messages : ~Handles(d, m)
  BY ChannelAssumption DEF Init, Handles, NoTask
<1>2. recent \in Seq(Messages) /\ IsInjective(recent) /\ ToSet(recent) = {}
  BY DEF Init, IsInjective, ToSet
<1>. QED
  BY <1>1, <1>2 DEF Keys

\* Every reachable state is well typed and its keys are in order.
LEMMA KeysAlways == Spec => [](Types /\ Keys)
<1>1. Types /\ Keys /\ [Next]_vars => (Types /\ Keys)'
  BY TypesStep, KeysStep
<1>. QED
  BY <1>1, InitSingle, InitKeys, PTL DEF Spec

\* _is_duplicate_inbound and _release_inbound_dedupe_key: however often a message is delivered,
\* while it is worked on and afterwards, one handler at most has worked or works on it without an
\* unexpected failure, unless its key was forgotten by age or number.
THEOREM MessagesAreHandledOnce == Spec => []HandledOnce
<1>1. Keys => HandledOnce
  <2>. SUFFICES ASSUME Keys, NEW m \in Messages \ lapsed
                PROVE  Cardinality({d \in Tasks : Handles(d, m)}) <= 1
    BY DEF HandledOnce, Handles
  <2>1. CASE {d \in Tasks : Handles(d, m)} = {}
    BY <2>1, FS_EmptySet
  <2>2. ASSUME NEW d \in Tasks, Handles(d, m) PROVE {e \in Tasks : Handles(e, m)} = {d}
    BY <2>2 DEF Keys
  <2>3. \A d \in Tasks : Cardinality({d}) = 1
    BY FS_Singleton
  <2>. QED
    BY <2>1, <2>2, <2>3
<1>. QED
  BY <1>1, KeysAlways, PTL

\* "if handling fails we must not turn a recoverable error into a TTL-long black hole for the same
\* message_id": no key outlives the failure of its handler, whatever is delivered again, forgotten
\* or fails in between.
THEOREM FailuresAreForgotten == Spec => []NoBlackHole
<1>1. Keys => NoBlackHole
  BY DEF Keys, NoBlackHole, Handles
<1>. QED
  BY <1>1, KeysAlways, PTL

===============================================================================
