----------------------------- MODULE MemoryProofs ----------------------------
(* MemoryQueue strands no context and has one updater, for any keys and      *)
(* threads.  TaskMemory keeps what must stay in the memory, lets nothing     *)
(* that was condensed come back, and joins the siblings of a turn without    *)
(* losing what they added, for any calls, bounds and sizes.                  *)
EXTENDS MemoryQueue, TaskMemory, FiniteSetTheorems, WellFoundedInduction, SequenceTheorems, TLAPS

-----------------------------------------------------------------------------
(* The update queue *)

\* Starting a timer leaves the updating threads alone and stops no thread that has fired.
LEMMA ScheduleEffect ==
  ASSUME TypeOK, NEW t \in Threads, timer[t] # "updating", Schedule(t)
  PROVE  /\ timer' \in [Threads -> {"idle", "armed", "fired", "updating"}]
         /\ current' \in {{}} \cup {{u} : u \in Threads}
         /\ timer'[t] = "armed"
         /\ \A u \in Threads : timer'[u] = "updating" <=> timer[u] = "updating"
BY DEF TypeOK, Schedule, Stopped

\* An unused Timer is not the thread that updates.
LEMMA UnusedIsNotUpdating ==
  ASSUME NEW t \in Threads, Unused(t)
  PROVE  timer[t] # "updating"
BY DEF Unused, Stopped

\* Replacing a context keeps its correction, and the queue is not empty any more.
LEMMA EnqueueEffect ==
  ASSUME QueueInv, NEW k \in Keys, NEW messages \in SUBSET Turns, messages # {},
         NEW correction \in BOOLEAN, Enqueue(k, messages, correction), UNCHANGED <<batch, batchFlags>>
  PROVE  /\ pending' \in [Keys -> SUBSET Turns] /\ flagged' \in SUBSET Keys
         /\ untold' \in SUBSET Keys
         /\ \A j \in flagged' : pending'[j] # {}
         /\ CorrectionNotLost'
<1>1. flagged \subseteq flagged' /\ untold' \subseteq untold \cup flagged'
  BY DEF QueueInv, TypeOK, Enqueue, Correction
<1>2. CorrectionNotLost'
  BY <1>1 DEF QueueInv, CorrectionNotLost
<1>3. /\ pending' \in [Keys -> SUBSET Turns] /\ flagged' \in SUBSET Keys
      /\ untold' \in SUBSET Keys
      /\ \A j \in flagged' : pending'[j] # {}
  BY DEF QueueInv, TypeOK, FlagsHaveContext, Enqueue, Correction
<1> QED BY <1>2, <1>3

\* A step that queues a context and starts a timer keeps the invariant.
LEMMA ConverseKeeps ==
  ASSUME QueueInv, NEW k \in Keys, NEW turns \in SUBSET Turns, NEW correction \in BOOLEAN,
         NEW t \in Threads, Add(k, turns, correction, t) \/ Summarize(k, turns, correction, t)
  PROVE  QueueInv'
<1>1. PICK messages \in SUBSET Turns :
        messages # {} /\ Enqueue(k, messages, correction)
  <2>1. CASE Add(k, turns, correction, t)
    <3>1. state'[k] \in SUBSET Turns
      BY <2>1 DEF Add, QueueInv, TypeOK
    <3> QED BY <2>1, <3>1 DEF Add
  <2>2. CASE Summarize(k, turns, correction, t)
    BY <2>2 DEF Summarize, QueueInv, TypeOK
  <2> QED BY <2>1, <2>2
<1>2. Unused(t) /\ Schedule(t) /\ UNCHANGED <<processing, batch, batchFlags, learned>>
  BY DEF Add, Summarize, handed
<1>3. state' \in [Keys -> SUBSET Turns] /\ gone' \in [Keys -> SUBSET Turns]
  BY DEF Add, Summarize, conversation, QueueInv, TypeOK
<1>4. /\ timer' \in [Threads -> {"idle", "armed", "fired", "updating"}]
      /\ current' \in {{}} \cup {{u} : u \in Threads}
      /\ timer'[t] = "armed"
      /\ \A u \in Threads : timer'[u] = "updating" <=> timer[u] = "updating"
  BY <1>2, ScheduleEffect, UnusedIsNotUpdating DEF QueueInv
<1>5. /\ pending' \in [Keys -> SUBSET Turns] /\ flagged' \in SUBSET Keys
      /\ untold' \in SUBSET Keys
      /\ \A j \in flagged' : pending'[j] # {}
      /\ CorrectionNotLost'
  BY <1>1, <1>2, EnqueueEffect
<1>6. TypeOK'
  BY <1>2, <1>3, <1>4, <1>5 DEF QueueInv, TypeOK
<1>7. ProcessingIsUpdating' /\ OneUpdater' /\ HeldByUpdater' /\ FlagsHaveContext'
  BY <1>2, <1>4, <1>5 DEF QueueInv, ProcessingIsUpdating, OneUpdater, HeldByUpdater, FlagsHaveContext
<1>8. NotStranded'
  BY <1>4 DEF NotStranded
<1> QED BY <1>5, <1>6, <1>7, <1>8 DEF QueueInv

\* A step of the timers that leaves queue and contexts alone keeps the invariant.
LEMMA TimerStep ==
  ASSUME QueueInv, UNCHANGED <<conversation, queue, processing, handed, untold>>,
         timer' \in [Threads -> {"idle", "armed", "fired", "updating"}],
         current' \in {{}} \cup {{u} : u \in Threads},
         \A u \in Threads : timer'[u] = "updating" <=> timer[u] = "updating",
         QueueEmpty \/ \E u \in Threads : timer'[u] \in {"armed", "fired"}
  PROVE  QueueInv'
<1> USE DEF QueueInv, conversation, queue, handed
<1>1. TypeOK' /\ ProcessingIsUpdating' /\ OneUpdater' /\ HeldByUpdater'
  BY DEF TypeOK, ProcessingIsUpdating, OneUpdater, HeldByUpdater
<1>2. NotStranded' /\ FlagsHaveContext' /\ CorrectionNotLost'
  BY DEF NotStranded, QueueEmpty, FlagsHaveContext, CorrectionNotLost
<1> QED BY <1>1, <1>2

\* Taking the whole queue makes this thread the one updater.
LEMMA TakeAllKeeps ==
  ASSUME QueueInv, NEW t \in Threads, TakeAll(t)
  PROVE  QueueInv'
<1> USE DEF QueueInv, TakeAll, NobodyProcesses
<1>1. TypeOK'
  BY DEF TypeOK, Nothing, conversation
<1>2. \A u \in Threads : timer[u] # "updating"
  BY DEF ProcessingIsUpdating
<1>3. /\ timer'[t] = "updating" /\ batch'[t] = pending /\ batchFlags'[t] = flagged
      /\ \A u \in Threads \ {t} : timer'[u] = timer[u] /\ batch'[u] = batch[u]
                                  /\ batchFlags'[u] = batchFlags[u]
  BY DEF TypeOK
<1>4. ProcessingIsUpdating' /\ OneUpdater' /\ HeldByUpdater'
  BY <1>2, <1>3 DEF ProcessingIsUpdating, OneUpdater, HeldByUpdater
<1>5. NotStranded' /\ FlagsHaveContext'
  BY <1>3 DEF NotStranded, QueueEmpty, FlagsHaveContext, Nothing
<1>6. CorrectionNotLost'
  BY <1>2, <1>3 DEF CorrectionNotLost, HeldByUpdater
<1> QED BY <1>1, <1>4, <1>5, <1>6

\* Handing over one context keeps the invariant: a newer correction is still owed.
LEMMA UpdateKeeps ==
  ASSUME QueueInv, NEW t \in Threads, NEW k \in Keys, Update(t, k)
  PROVE  QueueInv'
<1> USE DEF QueueInv, Update, conversation, queue
<1>1. TypeOK'
  BY DEF TypeOK
<1>2. ProcessingIsUpdating' /\ OneUpdater' /\ NotStranded'
  BY DEF ProcessingIsUpdating, OneUpdater, NotStranded, QueueEmpty
<1>3. /\ batchFlags'[t] = batchFlags[t] \ {k}
      /\ \A j \in Keys \ {k} : batch'[t][j] = batch[t][j]
      /\ \A u \in Threads \ {t} : batch'[u] = batch[u] /\ batchFlags'[u] = batchFlags[u]
  BY DEF TypeOK
<1>4. HeldByUpdater'
  BY <1>3 DEF HeldByUpdater
<1>5. FlagsHaveContext'
  BY <1>3 DEF FlagsHaveContext, TypeOK
<1>6. CorrectionNotLost'
  <2> SUFFICES ASSUME NEW j \in untold', j \notin flagged
               PROVE  \E u \in Threads : j \in batchFlags'[u]
    BY DEF CorrectionNotLost
  <2>1. PICK u \in Threads : j \in batchFlags[u]
    BY DEF CorrectionNotLost
  <2>2. timer[u] = "updating" /\ u = t
    BY <2>1 DEF HeldByUpdater, OneUpdater
  <2>3. j # k
    BY <2>1, <2>2
  <2> QED BY <1>3, <2>1, <2>2, <2>3
<1> QED BY <1>1, <1>2, <1>4, <1>5, <1>6

\* A thread that ends has handed over what it held.
LEMMA FinishKeeps ==
  ASSUME QueueInv, NEW t \in Threads, Finish(t)
  PROVE  QueueInv'
<1> USE DEF QueueInv, Finish, ProcessingAfter, conversation, queue, handed
<1>1. TypeOK'
  BY DEF TypeOK
<1>2. timer'[t] = "idle" /\ \A u \in Threads \ {t} : timer'[u] = timer[u]
  BY DEF TypeOK
<1>3. ProcessingIsUpdating' /\ OneUpdater'
  BY <1>2 DEF ProcessingIsUpdating, OneUpdater
<1>4. NotStranded'
  BY <1>2 DEF NotStranded, QueueEmpty
<1>5. batchFlags[t] = {}
  BY DEF FlagsHaveContext, TypeOK, Nothing
<1>6. HeldByUpdater' /\ FlagsHaveContext' /\ CorrectionNotLost'
  BY <1>2, <1>5 DEF HeldByUpdater, FlagsHaveContext, CorrectionNotLost
<1> QED BY <1>1, <1>3, <1>4, <1>6

\* The invariant holds in every reachable state.
THEOREM QueueInvariant == Spec => []QueueInv
<1>1. Init => QueueInv
  BY DEF Init, Nothing, QueueInv, TypeOK, ProcessingIsUpdating, OneUpdater, NotStranded, QueueEmpty,
         HeldByUpdater, FlagsHaveContext, CorrectionNotLost
<1>2. QueueInv /\ [Next]_vars => QueueInv'
  <2> SUFFICES ASSUME QueueInv, [Next]_vars PROVE QueueInv'
    OBVIOUS
  <2>1. CASE UNCHANGED vars
    BY <2>1 DEF QueueInv, TypeOK, ProcessingIsUpdating, OneUpdater, NotStranded, QueueEmpty,
                HeldByUpdater, FlagsHaveContext, CorrectionNotLost, vars, conversation, queue, handed
  <2>2. CASE Converse
    BY <2>2, ConverseKeeps DEF Converse
  <2>3. ASSUME NEW t \in Threads, FlushNowait(t) PROVE QueueInv'
    BY <2>3, ScheduleEffect, UnusedIsNotUpdating, TimerStep DEF FlushNowait, QueueInv
  <2>4. ASSUME NEW t \in Threads, Flush(t) PROVE QueueInv'
    <3>1. /\ timer' \in [Threads -> {"idle", "armed", "fired", "updating"}]
          /\ \A u \in Threads : timer'[u] = "updating" <=> timer[u] = "updating"
          /\ timer'[t] = "fired" /\ current' = {}
      BY <2>4 DEF Flush, Unused, Stopped, QueueInv, TypeOK
    <3> QED BY <2>4, <3>1, TimerStep DEF Flush
  <2>5. ASSUME NEW t \in Threads, Fire(t) PROVE QueueInv'
    <3>1. /\ timer' \in [Threads -> {"idle", "armed", "fired", "updating"}]
          /\ \A u \in Threads : timer'[u] = "updating" <=> timer[u] = "updating"
          /\ timer'[t] = "fired" /\ UNCHANGED current
      BY <2>5 DEF Fire, QueueInv, TypeOK
    <3> QED BY <2>5, <3>1, TimerStep DEF Fire, QueueInv, TypeOK
  <2>6. ASSUME NEW t \in Threads, Retry(t) PROVE QueueInv'
    BY <2>6, ScheduleEffect, TimerStep DEF Retry, QueueInv
  <2>7. ASSUME NEW t \in Threads, FindsNothing(t) PROVE QueueInv'
    <3>1. /\ timer' \in [Threads -> {"idle", "armed", "fired", "updating"}]
          /\ \A u \in Threads : timer'[u] = "updating" <=> timer[u] = "updating"
          /\ QueueEmpty /\ UNCHANGED current
      BY <2>7 DEF FindsNothing, QueueInv, TypeOK
    <3> QED BY <2>7, <3>1, TimerStep DEF FindsNothing, QueueInv, TypeOK
  <2> QED BY <2>1, <2>2, <2>3, <2>4, <2>5, <2>6, <2>7, TakeAllKeeps, UpdateKeeps, FinishKeeps
          DEF Next, Process
<1> QED BY <1>1, <1>2, PTL DEF Spec

\* A queued context always has a thread that will look at the queue.
THEOREM ContextHasThread == Spec => []NotStranded
<1>1. QueueInv => NotStranded
  BY DEF QueueInv
<1> QED BY <1>1, QueueInvariant, PTL

\* The memory is updated by one thread at a time.
THEOREM UpdaterIsAlone == Spec => []OneUpdater
<1>1. QueueInv => OneUpdater
  BY DEF QueueInv
<1> QED BY <1>1, QueueInvariant, PTL

\* A detected correction is never dropped before the updater is told.
THEOREM CorrectionsReachUpdater == Spec => []CorrectionNotLost
<1>1. QueueInv => CorrectionNotLost
  BY DEF QueueInv
<1> QED BY <1>1, QueueInvariant, PTL

-----------------------------------------------------------------------------
(* Induction *)

Less == {pair \in Nat \X Nat : pair[1] < pair[2]}

\* A set of numbers that is not empty has a least one: induction, for a first-order prover.
LEMMA Least ==
    ASSUME NEW T, T \subseteq Nat, T # {}
    PROVE  \E m \in T : \A n \in T : m =< n
<1>1. IsWellFoundedOn(Less, Nat)
  BY NatLessThanWellFounded DEF OpToRel, Less
<1>2. PICK m \in T : \A n \in T : <<n, m>> \notin Less
  BY <1>1, WFMin
<1>3. \A n \in T : n \in Nat /\ <<n, m>> \in Nat \X Nat
  OBVIOUS
<1>4. \A n \in T : ~(n < m)
  BY <1>2, <1>3 DEF Less
<1>. QED
  BY <1>4

\* A set that contains 0 and, with a number, the next one contains every number up to n.
LEMMA UpTo ==
    ASSUME NEW n \in Nat, NEW T, 0 \in T, \A k \in 1..n : k - 1 \in T => k \in T
    PROVE  \A k \in 0..n : k \in T
<1>. DEFINE Out == {k \in 0..n : k \notin T}
<1>1. SUFFICES ASSUME Out # {} PROVE FALSE
  BY <1>1
<1>2. PICK m \in Out : \A k \in Out : m =< k
  <2>1. Out \subseteq Nat
    OBVIOUS
  <2>. HIDE DEF Out
  <2>. QED
    BY <1>1, <2>1, Least
<1>3. m # 0
  OBVIOUS
<1>4. m \in 1..n /\ m - 1 \in 0..n /\ ~(m =< m - 1)
  BY <1>3
<1>5. m - 1 \in T
  BY <1>2, <1>4
<1>. QED
  BY <1>4, <1>5

\* A set of numbers with a bound has a greatest one.
LEMMA Greatest ==
    ASSUME NEW T, T \subseteq Nat, T # {}, NEW b \in Nat, \A k \in T : k =< b
    PROVE  Max(T) \in T /\ \A k \in T : k =< Max(T)
<1>. DEFINE Over == {m \in Nat : \A k \in T : k =< m}
<1>1. Over \subseteq Nat /\ Over # {}
  OBVIOUS
<1>2. PICK m \in Over : \A k \in Over : m =< k
  <2>. HIDE DEF Over
  <2>. QED
    BY <1>1, Least
<1>3. m \in T
  <2>1. SUFFICES ASSUME m \notin T PROVE FALSE
    OBVIOUS
  <2>2. \A k \in T : k \in Nat /\ k =< m /\ k # m
    BY <2>1
  <2>3. PICK k \in T : TRUE
    OBVIOUS
  <2>4. m - 1 \in Nat
    BY <2>2, <2>3
  <2>5. \A j \in T : j =< m - 1
    BY <2>2
  <2>6. m - 1 \in Over
    BY <2>4, <2>5
  <2>. QED
    BY <1>2, <2>4, <2>6
<1>4. \A k \in T : m >= k
  OBVIOUS
<1>5. Max(T) \in T /\ \A k \in T : Max(T) >= k
  BY <1>3, <1>4 DEF Max
<1>. QED
  BY <1>5

Steps(n, X) == [(1..n) \X X -> X]

\* f starts with x and goes on with the steps of G.
Follows(f, n, X, x, G) ==
    f \in [0..n -> X] /\ f[0] = x /\ \A k \in 1..n : f[k] = G[<<k, f[k - 1]>>]

\* A function defined by recursion on the numbers up to n exists.
LEMMA Recursion ==
    ASSUME NEW n \in Nat, NEW X, NEW x \in X, NEW G \in Steps(n, X)
    PROVE  \E f : Follows(f, n, X, x, G)
<1>. DEFINE Good(f, i) == f[0] = x /\ \A k \in 1..i : f[k] = G[<<k, f[k - 1]>>]
            T == {i \in 0..n : \E f \in [0..i -> X] : Good(f, i)}
<1>1. 0 \in T
  <2>. DEFINE f == [k \in 0..0 |-> x]
  <2>1. f \in [0..0 -> X] /\ Good(f, 0)
    OBVIOUS
  <2>. HIDE DEF f
  <2>. QED
    BY <2>1
<1>2. ASSUME NEW m \in 1..n, m - 1 \in T PROVE m \in T
  <2>1. PICK f \in [0..(m - 1) -> X] : Good(f, m - 1)
    BY <1>2
  <2>2. <<m, f[m - 1]>> \in (1..n) \X X
    OBVIOUS
  <2>. DEFINE g == [k \in 0..m |-> IF k = m THEN G[<<m, f[m - 1]>>] ELSE f[k]]
  <2>3. \A k \in 0..m : g[k] = IF k = m THEN G[<<m, f[m - 1]>>] ELSE f[k]
    OBVIOUS
  <2>4. g \in [0..m -> X]
    <3>1. \A k \in 0..m : k = m \/ k \in 0..(m - 1)
      OBVIOUS
    <3>. QED
      BY <2>2, <3>1 DEF Steps
  <2>. HIDE DEF g
  <2>5. g[0] = x
    BY <2>1, <2>3
  <2>6. ASSUME NEW k \in 1..m PROVE g[k] = G[<<k, g[k - 1]>>]
    <3>1. k - 1 \in 0..m /\ k - 1 # m /\ k \in 0..m
      OBVIOUS
    <3>2. g[k - 1] = f[k - 1]
      BY <2>3, <3>1
    <3>3. CASE k = m
      BY <2>3, <3>1, <3>2, <3>3
    <3>4. CASE k # m
      <4>1. k \in 1..(m - 1)
        BY <3>4
      <4>2. f[k] = G[<<k, f[k - 1]>>]
        BY <2>1, <4>1
      <4>. QED
        BY <2>3, <3>1, <3>2, <3>4, <4>2
    <3>. QED
      BY <3>3, <3>4
  <2>7. m \in 0..n /\ Good(g, m)
    BY <2>5, <2>6
  <2>. HIDE DEF Good
  <2>. QED
    BY <2>4, <2>7
<1>3. \A k \in 0..n : k \in T
  <2>. HIDE DEF T
  <2>. QED
    BY <1>1, <1>2, UpTo
<1>4. n \in T
  BY <1>3
<1>. QED
  BY <1>4 DEF Follows

-----------------------------------------------------------------------------
(* Stacks *)

\* The entries of a stack have identifiers of their own.
Stack(s) == s \in Seq(Entry) /\ \A i, j \in DOMAIN s : s[i].id = s[j].id => i = j

\* The domain of a stack.
LEMMA StackDomain ==
    ASSUME NEW s, Stack(s)
    PROVE  /\ Len(s) \in Nat /\ DOMAIN s = 1..Len(s) /\ Entries(s) \subseteq Entry
           /\ \A d, e \in Entries(s) : d.id = e.id => d = e
BY DEF Stack, Entries

\* An entry with an identifier of its own goes to the end.
LEMMA Appended ==
    ASSUME NEW s, Stack(s), NEW e \in Entry, \A d \in Entries(s) : d.id # e.id
    PROVE  /\ Stack(Append(s, e)) /\ Entries(Append(s, e)) = Entries(s) \cup {e}
           /\ Append(s, e) # <<>> /\ Last(Append(s, e)) = e
<1>1. PICK n \in Nat : n = Len(s) /\ DOMAIN s = 1..n
  BY StackDomain
<1>2. PICK u : u = Append(s, e)
  OBVIOUS
<1>3. /\ u \in Seq(Entry) /\ Len(u) = n + 1 /\ u[n + 1] = e
      /\ \A j \in 1..n : u[j] = s[j]
  BY <1>1, <1>2, AppendProperties DEF Stack
<1>4. DOMAIN u = 1..(n + 1) /\ \A j \in 1..(n + 1) : j \in 1..n \/ j = n + 1
  BY <1>3
<1>5. \A j \in 1..n : s[j] \in Entries(s)
  BY <1>1 DEF Entries
<1>6. Stack(u)
  <2>1. \A j, l \in 1..n : s[j].id = s[l].id => j = l
    BY <1>1 DEF Stack
  <2>. QED
    BY <1>3, <1>4, <1>5, <2>1 DEF Stack
<1>7. Entries(u) = Entries(s) \cup {e}
  <2>1. ASSUME NEW d \in Entries(u) PROVE d \in Entries(s) \cup {e}
    BY <1>3, <1>4, <1>5 DEF Entries
  <2>2. ASSUME NEW d \in Entries(s) PROVE d \in Entries(u)
    BY <1>1, <1>3, <1>4 DEF Entries
  <2>3. e \in Entries(u)
    BY <1>3, <1>4 DEF Entries
  <2>. QED
    BY <2>1, <2>2, <2>3
<1>8. u # <<>> /\ Last(u) = e
  BY <1>1, <1>3 DEF Last
<1>. QED
  BY <1>2, <1>6, <1>7, <1>8

\* What Keep leaves of a stack: those of its entries that are in the set, and the newest one of
\* them last.
LEMMA Kept ==
    ASSUME NEW s, Stack(s), NEW S
    PROVE  /\ Stack(Keep(s, S)) /\ Entries(Keep(s, S)) = Entries(s) \cap S
           /\ s # <<>> /\ Last(s) \in S => Keep(s, S) # <<>> /\ Last(Keep(s, S)) = Last(s)
<1>1. PICK n \in Nat : n = Len(s) /\ DOMAIN s = 1..n
  BY StackDomain
<1>2. \A j \in 1..n : s[j] \in Entry
  BY <1>1 DEF Stack
<1>. DEFINE upTo == CHOOSE f : f = [k \in 0..n |->
                        IF k = 0 THEN <<>>
                        ELSE IF s[k] \in S THEN Append(f[k - 1], s[k])
                        ELSE f[k - 1]]
<1>3. upTo = [k \in 0..n |-> IF k = 0 THEN <<>>
                             ELSE IF s[k] \in S THEN Append(upTo[k - 1], s[k])
                             ELSE upTo[k - 1]]
  <2>. DEFINE G == [p \in (1..n) \X Seq(Entry) |->
                        IF s[p[1]] \in S THEN Append(p[2], s[p[1]]) ELSE p[2]]
  <2>1. \A k \in 1..n, x \in Seq(Entry) :
            G[<<k, x>>] = IF s[k] \in S THEN Append(x, s[k]) ELSE x
    OBVIOUS
  <2>2. <<>> \in Seq(Entry) /\ G \in Steps(n, Seq(Entry))
    BY <1>2 DEF Steps
  <2>. HIDE DEF G
  <2>3. PICK f \in [0..n -> Seq(Entry)] :
            f[0] = <<>> /\ \A k \in 1..n : f[k] = G[<<k, f[k - 1]>>]
    <3>1. \E f : Follows(f, n, Seq(Entry), <<>>, G)
      BY <1>1, <2>2, Recursion
    <3>. QED
      BY <3>1 DEF Follows
  <2>4. ASSUME NEW k \in 0..n
        PROVE  f[k] = IF k = 0 THEN <<>>
                      ELSE IF s[k] \in S THEN Append(f[k - 1], s[k]) ELSE f[k - 1]
    <3>1. CASE k = 0
      BY <2>3, <3>1
    <3>2. CASE k # 0
      <4>1. k \in 1..n /\ k - 1 \in 0..n
        BY <1>1, <3>2
      <4>2. f[k - 1] \in Seq(Entry)
        BY <4>1
      <4>. QED
        BY <2>1, <2>3, <3>2, <4>1, <4>2
    <3>. QED
      BY <3>1, <3>2
  <2>5. f = [k \in 0..n |-> IF k = 0 THEN <<>>
                            ELSE IF s[k] \in S THEN Append(f[k - 1], s[k]) ELSE f[k - 1]]
    <3>1. f = [k \in 0..n |-> f[k]]
      OBVIOUS
    <3>. QED
      BY <2>4, <3>1
  <2>. QED
    BY <2>5
<1>4. Keep(s, S) = upTo[n]
  BY <1>1 DEF Keep
<1>. HIDE DEF upTo
<1>5. /\ upTo[0] = <<>>
      /\ \A k \in 1..n : upTo[k] = IF s[k] \in S THEN Append(upTo[k - 1], s[k])
                                   ELSE upTo[k - 1]
  <2>1. upTo[0] = <<>>
    BY <1>3
  <2>2. ASSUME NEW k \in 1..n
        PROVE  upTo[k] = IF s[k] \in S THEN Append(upTo[k - 1], s[k]) ELSE upTo[k - 1]
    <3>1. k \in 0..n /\ k # 0
      OBVIOUS
    <3>. QED
      BY <1>3, <3>1
  <2>. QED
    BY <2>1, <2>2
<1>. DEFINE Taken(k) == {s[j] : j \in {l \in 1..k : s[l] \in S}}
            T == {k \in 0..n : Stack(upTo[k]) /\ Entries(upTo[k]) = Taken(k)}
<1>6. 0 \in T
  <2>1. Stack(<<>>) /\ Entries(<<>>) = {}
    BY DEF Stack, Entries
  <2>2. Taken(0) = {}
    OBVIOUS
  <2>. QED
    BY <1>1, <1>5, <2>1, <2>2
<1>7. ASSUME NEW k \in 1..n, k - 1 \in T PROVE k \in T
  <2>1. \A j \in 1..k : j \in 1..(k - 1) \/ j = k
    OBVIOUS
  <2>2. 1..(k - 1) \subseteq 1..k /\ k \in 1..k
    OBVIOUS
  <2>3. Stack(upTo[k - 1]) /\ Entries(upTo[k - 1]) = Taken(k - 1)
    BY <1>7
  <2>4. CASE s[k] \notin S
    <3>1. upTo[k] = upTo[k - 1]
      BY <1>5, <2>4
    <3>2. Taken(k) = Taken(k - 1)
      BY <2>1, <2>2, <2>4
    <3>. QED
      BY <2>3, <3>1, <3>2
  <2>5. CASE s[k] \in S
    <3>1. upTo[k] = Append(upTo[k - 1], s[k])
      BY <1>5, <2>5
    <3>2. ASSUME NEW e \in Taken(k - 1) PROVE e.id # s[k].id
      <4>1. PICK j \in 1..(k - 1) : e = s[j]
        OBVIOUS
      <4>2. j \in 1..n /\ j # k
        OBVIOUS
      <4>. QED
        BY <1>1, <4>1, <4>2 DEF Stack
    <3>3. Taken(k) = Taken(k - 1) \cup {s[k]}
      BY <2>1, <2>2, <2>5
    <3>4. s[k] \in Entry
      BY <1>2
    <3>5. Stack(upTo[k]) /\ Entries(upTo[k]) = Taken(k)
      <4>. HIDE DEF Taken
      <4>. QED
        BY <2>3, <3>1, <3>2, <3>3, <3>4, Appended
    <3>. QED
      BY <3>5
  <2>. QED
    BY <2>4, <2>5
<1>8. \A k \in 0..n : k \in T
  <2>. HIDE DEF T
  <2>. QED
    BY <1>6, <1>7, UpTo
<1>9. n \in T
  BY <1>8
<1>10. Taken(n) = Entries(s) \cap S
  BY <1>1 DEF Entries
<1>11. ASSUME s # <<>>, Last(s) \in S PROVE Keep(s, S) # <<>> /\ Last(Keep(s, S)) = Last(s)
  <2>1. n \in 1..n /\ Last(s) = s[n]
    BY <1>1, <1>11 DEF Stack, Last
  <2>2. upTo[n] = Append(upTo[n - 1], s[n]) /\ n - 1 \in T /\ s[n] \in Entry
    <3>1. upTo[n] = Append(upTo[n - 1], s[n])
      BY <1>5, <1>11, <2>1
    <3>2. n - 1 \in 0..n
      BY <2>1
    <3>. QED
      BY <1>2, <1>8, <2>1, <3>1, <3>2
  <2>3. upTo[n - 1] \in Seq(Entry)
    BY <2>2 DEF Stack
  <2>. QED
    BY <1>4, <2>1, <2>2, <2>3 DEF Last
<1>. QED
  BY <1>4, <1>9, <1>10, <1>11

-----------------------------------------------------------------------------
(* What an operation keeps of a stack *)

Pinned(s) == {e \in Entries(s) : e.status = "pinned"}

\* e is d, which a pin protects, or d with another status.
Kin(e, d) ==
    \/ e = d
    \/ /\ e.status # "pinned" /\ d.status # "pinned"
       /\ e.id = d.id /\ e.action = d.action /\ e.critical = d.critical /\ e.parents = d.parents

\* r has entries of s and others with identifiers in F, and every pinned entry of s.
Grown(s, r, F) ==
    /\ Stack(r)
    /\ \A e \in Entries(r) : e.id \in F \/ \E d \in Entries(s) : Kin(e, d)
    /\ Pinned(s) = Pinned(r)

\* What is after something that is after s is after s.
LEMMA GrownOn ==
    ASSUME NEW s, NEW r, NEW t, NEW F, NEW G, Grown(s, r, F), Grown(r, t, G)
    PROVE  Grown(s, t, F \cup G)
<1>1. ASSUME NEW e \in Entries(t) PROVE e.id \in F \cup G \/ \E d \in Entries(s) : Kin(e, d)
  <2>1. SUFFICES ASSUME NEW d \in Entries(r), Kin(e, d)
                 PROVE  e.id \in F \cup G \/ \E c \in Entries(s) : Kin(e, c)
    BY DEF Grown
  <2>2. CASE d.id \in F
    BY <2>1, <2>2 DEF Kin
  <2>3. ASSUME NEW c \in Entries(s), Kin(d, c) PROVE Kin(e, c)
    BY <2>1, <2>3 DEF Kin
  <2>. QED
    BY <2>2, <2>3 DEF Grown
<1>. QED
  BY <1>1 DEF Grown

\* A stack is after itself.
LEMMA GrownSelf ==
    ASSUME NEW s, Stack(s), NEW F
    PROVE  Grown(s, s, F)
BY DEF Grown, Kin

\* Entries that are not pinned may leave.
LEMMA Filtered ==
    ASSUME NEW s, Stack(s), NEW S, Pinned(s) \subseteq S
    PROVE  Grown(s, Keep(s, S), {})
<1>1. Stack(Keep(s, S)) /\ Entries(Keep(s, S)) = Entries(s) \cap S
  BY Kept
<1>. QED
  BY <1>1 DEF Grown, Kin, Pinned

\* Entries that are not pinned may change their status.
LEMMA Marked ==
    ASSUME NEW s, Stack(s), NEW r, r = [i \in DOMAIN s |-> r[i]],
           \A i \in DOMAIN s : r[i] \in Entry /\ Kin(r[i], s[i])
    PROVE  Grown(s, r, {}) /\ Len(r) = Len(s)
<1>1. PICK n \in Nat : n = Len(s) /\ DOMAIN s = 1..n
  BY StackDomain
<1>2. r \in Seq(Entry) /\ Len(r) = n /\ DOMAIN r = 1..n
  BY <1>1
<1>3. \A i \in 1..n : r[i].id = s[i].id
  BY <1>1 DEF Kin
<1>4. Stack(r)
  BY <1>1, <1>2, <1>3 DEF Stack
<1>5. \A e \in Entries(r) : \E d \in Entries(s) : Kin(e, d)
  BY <1>1, <1>2 DEF Entries
<1>6. Pinned(s) = Pinned(r)
  BY <1>1, <1>2 DEF Pinned, Entries, Kin
<1>. QED
  BY <1>1, <1>2, <1>4, <1>5, <1>6 DEF Grown

\* Only entries that are no longer live age.
LEMMA AgedAreDead ==
    ASSUME NEW s, Stack(s), NEW x \in Aged(s)
    PROVE  \E e \in Entries(s) : e.id = x /\ ~Live(e)
<1>. DEFINE S == {e \in Entries(s) : ~Live(e) /\ ~e.critical}
<1>1. PICK old : old = Keep(s, S)
  OBVIOUS
<1>2. Stack(old) /\ Entries(old) = Entries(s) \cap S
  BY <1>1, Kept
<1>3. PICK i \in DOMAIN old : x = old[i].id
  BY <1>1 DEF Aged
<1>4. old[i] \in Entries(old)
  BY DEF Entries
<1>. QED
  BY <1>2, <1>3, <1>4

\* Pruning the oldest active entries changes statuses.
LEMMA PrunedOldest ==
    ASSUME NEW s, Stack(s), NEW n
    PROVE  Grown(s, PruneOldest(s, n), {}) /\ Len(PruneOldest(s, n)) = Len(s)
<1>1. PICK r : r = PruneOldest(s, n)
  OBVIOUS
<1>2. r = [i \in DOMAIN s |-> r[i]]
  BY <1>1 DEF PruneOldest
<1>3. ASSUME NEW i \in DOMAIN s PROVE r[i] \in Entry /\ Kin(r[i], s[i])
  <2>1. r[i] = s[i] \/ (s[i].status = "active" /\ r[i] = Pruned(s[i]))
    BY <1>1 DEF PruneOldest
  <2>2. s[i] \in Entry
    BY DEF Stack
  <2>. QED
    BY <2>1, <2>2 DEF Pruned, Kin, Entry, Statuses
<1>. QED
  BY <1>1, <1>2, <1>3, Marked

\* Keeping the size prunes and forgets, but nothing pinned.
LEMMA Maintained ==
    ASSUME NEW s, Stack(s)
    PROVE  Grown(s, MaintainSize(s), {})
<1>1. PICK kept : kept = PruneOldest(s, Count(s, {"active", "pinned"}) - MaxSize)
  OBVIOUS
<1>2. Grown(s, kept, {}) /\ Stack(kept)
  BY <1>1, PrunedOldest DEF Grown
<1>3. PICK S : S = {e \in Entries(kept) : e.id \notin Aged(kept)}
  OBVIOUS
<1>4. MaintainSize(s) = Keep(kept, S)
  BY <1>1, <1>3 DEF MaintainSize
<1>5. Pinned(kept) \subseteq S
  <2>1. SUFFICES ASSUME NEW e \in Entries(kept), e.status = "pinned", e.id \in Aged(kept)
                 PROVE  FALSE
    BY <1>3 DEF Pinned
  <2>2. PICK d \in Entries(kept) : d.id = e.id /\ ~Live(d)
    BY <1>2, <2>1, AgedAreDead
  <2>3. d = e
    BY <1>2, <2>2, StackDomain
  <2>. QED
    BY <2>1, <2>2, <2>3 DEF Live
<1>6. Grown(kept, Keep(kept, S), {})
  BY <1>2, <1>5, Filtered
<1>7. {} \cup {} = {}
  OBVIOUS
<1>. QED
  BY <1>2, <1>4, <1>6, <1>7, GrownOn

\* An entry that is pushed is entered after the others.
LEMMA Pushed ==
    ASSUME NEW s, Stack(s), NEW e \in Entry, \A d \in Entries(s) : d.id # e.id
    PROVE  /\ Stack(Append(s, e)) /\ Entries(Append(s, e)) = Entries(s) \cup {e}
           /\ Grown(Append(s, e), Push(s, e), {}) /\ Stack(Push(s, e))
           /\ e.status # "pinned" => Grown(s, Push(s, e), {e.id})
<1>1. PICK t : t = Append(s, e)
  OBVIOUS
<1>2. Stack(t) /\ Entries(t) = Entries(s) \cup {e}
  BY <1>1, Appended
<1>3. Push(s, e) = MaintainSize(t)
  BY <1>1 DEF Push
<1>4. Grown(t, MaintainSize(t), {}) /\ Stack(MaintainSize(t))
  BY <1>2, Maintained DEF Grown
<1>5. ASSUME e.status # "pinned" PROVE Grown(s, MaintainSize(t), {e.id})
  <2>1. Grown(s, t, {e.id})
    BY <1>2, <1>5 DEF Grown, Kin, Pinned
  <2>2. {e.id} \cup {} = {e.id}
    OBVIOUS
  <2>. QED
    BY <1>4, <2>1, <2>2, GrownOn
<1>. QED
  BY <1>1, <1>2, <1>3, <1>4, <1>5

-----------------------------------------------------------------------------
(* The newest entry *)

\* The pinned entries of a stack are counted at their places.
LEMMA PinnedCount ==
    ASSUME NEW s, Stack(s)
    PROVE  /\ IsFiniteSet(Pinned(s)) /\ Count(s, {"pinned"}) = Cardinality(Pinned(s))
           /\ Cardinality(Pinned(s)) \in Nat
<1>1. PICK n \in Nat : n = Len(s) /\ DOMAIN s = 1..n
  BY StackDomain
<1>. DEFINE P == {i \in 1..n : s[i].status = "pinned"}
            f == [i \in P |-> s[i]]
<1>2. IsFiniteSet(P)
  <2>1. IsFiniteSet(1..n) /\ P \in SUBSET (1..n)
    BY <1>1, FS_Interval
  <2>. QED
    BY <2>1, FS_Subset
<1>3. f \in Bijection(P, Pinned(s))
  <2>1. f \in [P -> Pinned(s)]
    BY <1>1 DEF Pinned, Entries
  <2>2. \A i, j \in P : f[i] = f[j] => i = j
    BY <1>1 DEF Stack
  <2>3. \A e \in Pinned(s) : \E i \in P : f[i] = e
    BY <1>1 DEF Pinned, Entries
  <2>. HIDE DEF f, P
  <2>4. IsInjective(f)
    BY <2>1, <2>2 DEF IsInjective
  <2>. QED
    BY <2>1, <2>3, <2>4 DEF Bijection, Injection, Surjection
<1>4. Count(s, {"pinned"}) = Cardinality(P)
  <2>1. {i \in DOMAIN s : s[i].status \in {"pinned"}} = P
    BY <1>1
  <2>. QED
    BY <2>1 DEF Count
<1>5. ExistsBijection(P, Pinned(s))
  BY <1>3 DEF ExistsBijection
<1>. HIDE DEF P
<1>6. IsFiniteSet(Pinned(s)) /\ Cardinality(Pinned(s)) = Cardinality(P)
  BY <1>2, <1>5, FS_Bijection
<1>. QED
  BY <1>4, <1>6, FS_CardinalityType

\* An active entry that is pushed stays, the last one, if the pinned entries leave room.
LEMMA NewestStays ==
    ASSUME NEW s, Stack(s), NEW e \in Entry, \A d \in Entries(s) : d.id # e.id,
           e.status = "active", Cardinality(Pinned(s)) < MaxSize
    PROVE  Push(s, e) # <<>> /\ Last(Push(s, e)) = e
<1>1. PICK t : t = Append(s, e)
  OBVIOUS
<1>2. /\ Stack(t) /\ Entries(t) = Entries(s) \cup {e}
      /\ t # <<>> /\ Last(t) = e
  BY <1>1, Appended
<1>3. PICK n \in Nat : n = Len(t) /\ DOMAIN t = 1..n
  BY <1>2, StackDomain
<1>4. n \in 1..n /\ t[n] = e
  BY <1>2, <1>3 DEF Last, Stack
<1>. DEFINE A == {j \in 1..n : t[j].status = "active"}
            P == {j \in 1..n : t[j].status = "pinned"}
            over == Count(t, {"active", "pinned"}) - MaxSize
<1>5. /\ IsFiniteSet(A) /\ Cardinality(A) \in Nat
      /\ IsFiniteSet(P) /\ Cardinality(P) \in Nat
  <2>1. IsFiniteSet(1..n)
    BY FS_Interval
  <2>2. IsFiniteSet(A) /\ IsFiniteSet(P)
    BY <2>1, FS_Subset
  <2>. QED
    BY <2>2, FS_CardinalityType
<1>6. Cardinality(P) < MaxSize
  <2>1. {j \in DOMAIN t : t[j].status \in {"pinned"}} = P
    BY <1>3
  <2>2. Cardinality(P) = Cardinality(Pinned(t))
    BY <1>2, <2>1, PinnedCount DEF Count
  <2>3. Pinned(t) = Pinned(s)
    BY <1>2 DEF Pinned
  <2>. QED
    BY <2>2, <2>3
<1>7. over = Cardinality(A) + Cardinality(P) - MaxSize
  <2>1. {j \in DOMAIN t : t[j].status \in {"active", "pinned"}} = A \cup P
    BY <1>3
  <2>2. A \cap P = {}
    OBVIOUS
  <2>3. Cardinality(A \cup P) = Cardinality(A) + Cardinality(P) - Cardinality(A \cap P)
    <3>. HIDE DEF A, P
    <3>. QED
      BY <1>5, FS_Union
  <2>4. Cardinality(A \cap P) = 0
    BY <2>2, FS_EmptySet
  <2>5. Count(t, {"active", "pinned"}) = Cardinality(A \cup P)
    BY <2>1 DEF Count
  <2>. HIDE DEF A, P
  <2>6. MaxSize \in Nat
    BY TaskMemoryAssumption
  <2>. QED
    BY <1>5, <2>3, <2>4, <2>5, <2>6
<1>8. ~(Cardinality(A) =< over)
  <2>. HIDE DEF A, P
  <2>1. MaxSize \in Nat
    BY TaskMemoryAssumption
  <2>. QED
    BY <1>5, <1>6, <1>7, <2>1
<1>9. PICK kept : kept = PruneOldest(t, over)
  OBVIOUS
<1>10. Stack(kept) /\ Len(kept) = n
  BY <1>2, <1>3, <1>9, PrunedOldest DEF Grown
<1>11. kept[n] = e
  <2>1. Cardinality({j \in 1..n : t[j].status = "active"}) = Cardinality(A)
    OBVIOUS
  <2>2. kept[n] = IF t[n].status = "active"
                     /\ Cardinality({j \in 1..n : t[j].status = "active"}) =< over
                  THEN Pruned(t[n]) ELSE t[n]
    <3>. HIDE DEF over
    <3>. QED
      BY <1>3, <1>4, <1>9 DEF PruneOldest
  <2>. HIDE DEF A, over
  <2>. QED
    BY <1>4, <1>8, <2>1, <2>2
<1>12. kept # <<>> /\ Last(kept) = e /\ e \in Entries(kept)
  BY <1>4, <1>10, <1>11 DEF Last, Stack, Entries
<1>13. e.id \notin Aged(kept)
  <2>1. SUFFICES ASSUME NEW d \in Entries(kept), d.id = e.id, ~Live(d) PROVE FALSE
    BY <1>10, AgedAreDead
  <2>2. d = e
    BY <1>10, <1>12, <2>1, StackDomain
  <2>. QED
    BY <2>1, <2>2 DEF Live
<1>14. PICK S : S = {d \in Entries(kept) : d.id \notin Aged(kept)}
  OBVIOUS
<1>15. Push(s, e) = Keep(kept, S)
  BY <1>1, <1>9, <1>14 DEF Push, MaintainSize
<1>16. Last(kept) \in S
  BY <1>12, <1>13, <1>14
<1>. HIDE DEF A, P, over
<1>. QED
  BY <1>10, <1>12, <1>15, <1>16, Kept

-----------------------------------------------------------------------------
(* What a summary condensed *)

\* No entry is one that a summary of the stack has condensed, but for protected ones.
Clean(s) == \A e \in Entries(s) : e.id \in Lineage(s) => Protected(e)

\* The lineage, summary by summary.
LEMMA InLineage ==
    ASSUME NEW s, NEW x
    PROVE  x \in Lineage(s) <=> \E e \in Entries(s) : e.action = "summarize" /\ x \in e.parents
BY DEF Lineage

\* Statuses that change and entries that leave add nothing to the lineage and leave a clean
\* stack clean.
LEMMA GrownLineage ==
    ASSUME NEW s, NEW r, Grown(s, r, {})
    PROVE  Lineage(r) \subseteq Lineage(s) /\ (Clean(s) => Clean(r))
<1>1. \A e \in Entries(r) : \E d \in Entries(s) : Kin(e, d)
  BY DEF Grown
<1>2. ASSUME NEW x \in Lineage(r) PROVE x \in Lineage(s)
  <2>1. PICK e \in Entries(r) : e.action = "summarize" /\ x \in e.parents
    BY InLineage
  <2>2. PICK d \in Entries(s) : Kin(e, d)
    BY <1>1
  <2>. QED
    BY <2>1, <2>2, InLineage DEF Kin
<1>3. ASSUME Clean(s), NEW e \in Entries(r), e.id \in Lineage(r) PROVE Protected(e)
  <2>1. PICK d \in Entries(s) : Kin(e, d)
    BY <1>1
  <2>2. d.id = e.id
    BY <2>1 DEF Kin
  <2>3. Protected(d)
    BY <1>2, <1>3, <2>2 DEF Clean
  <2>. QED
    BY <2>1, <2>3 DEF Kin, Protected
<1>. QED
  BY <1>2, <1>3 DEF Clean

\* What New makes is an entry.
LEMMA NewEntry ==
    ASSUME run \in 1..MaxRuns, NEW id \in 1..MaxId, NEW action \in Actions,
           NEW critical \in BOOLEAN, NEW parents \in SUBSET (1..MaxId)
    PROVE  /\ New(id, action) \in Entry
           /\ [New(id, action) EXCEPT !.critical = critical] \in Entry
           /\ [New(id, action) EXCEPT !.parents = parents] \in Entry
BY DEF New, Entry, Statuses

\* An operation leaves an active entry in view, if the pinned ones leave room.
Newest(s, r) == Cardinality(Pinned(s)) < MaxSize => r # <<>> /\ Last(r).status = "active"

\* A summary takes the place of its sources; the stack stays clean.
LEMMA Condensed ==
    ASSUME NEW s, Stack(s), run \in 1..MaxRuns, NEW id \in 1..MaxId, NEW n \in Nat, n =< id,
           \A e \in Entries(s) : e.id < id, \A x \in Lineage(s) : x < n,
           NEW ids \in SUBSET (1..MaxId), \A x \in ids : x < n
    PROVE  /\ Grown(s, Condense(s, ids, id), {id}) /\ Newest(s, Condense(s, ids, id))
           /\ \A x \in Lineage(Condense(s, ids, id)) : x < n
           /\ Clean(s) => Clean(Condense(s, ids, id))
<1>. DEFINE stays == {e \in Entries(s) : e.id \notin ids \/ Protected(e)}
            sources == {e \in Named(s, ids) : e.action = "summarize"}
            old == UNION {e.parents : e \in sources}
<1>1. old \subseteq Lineage(s) /\ old \subseteq 1..MaxId
  <2>1. SUFFICES ASSUME NEW e \in sources, NEW x \in e.parents
                 PROVE  x \in Lineage(s) /\ x \in 1..MaxId
    OBVIOUS
  <2>2. e \in Entries(s) /\ e.action = "summarize" /\ e \in Entry
    BY StackDomain DEF Named
  <2>. QED
    BY <2>1, <2>2, InLineage DEF Entry
<1>2. PICK e : e = [New(id, "summarize") EXCEPT !.parents = ids \cup old]
  OBVIOUS
<1>3. /\ e \in Entry /\ e.id = id /\ e.status = "active"
      /\ e.parents = ids \cup old
  <2>1. ids \cup old \in SUBSET (1..MaxId)
    BY <1>1
  <2>. HIDE DEF old
  <2>2. e \in Entry
    BY <1>2, <2>1, NewEntry DEF Actions
  <2>. QED
    BY <1>2, <2>2 DEF New
<1>4. PICK kept : kept = Keep(s, stays)
  OBVIOUS
<1>5. Stack(kept) /\ Entries(kept) = Entries(s) \cap stays /\ Grown(s, kept, {})
  <2>1. Pinned(s) \subseteq stays
    BY DEF Pinned, Protected
  <2>. HIDE DEF stays
  <2>. QED
    BY <1>4, <2>1, Kept, Filtered
<1>6. Condense(s, ids, id) = Push(kept, e)
  BY <1>2, <1>4 DEF Condense
<1>7. \A d \in Entries(kept) : d.id # e.id
  <2>1. \A d \in Entries(s) : d.id < id /\ d \in Entry
    BY StackDomain
  <2>. QED
    BY <1>3, <1>5, <2>1 DEF Entry
<1>8. PICK t : t = Append(kept, e)
  OBVIOUS
<1>9. /\ Stack(t) /\ Entries(t) = Entries(kept) \cup {e}
      /\ Grown(t, Push(kept, e), {}) /\ Grown(kept, Push(kept, e), {id})
  BY <1>3, <1>5, <1>7, <1>8, Pushed
<1>10. Grown(s, Push(kept, e), {id})
  <2>1. {} \cup {id} = {id}
    OBVIOUS
  <2>. QED
    BY <1>5, <1>9, <2>1, GrownOn
<1>11. Newest(s, Push(kept, e))
  <2>1. Pinned(kept) = Pinned(s)
    BY <1>5 DEF Grown
  <2>. QED
    BY <1>3, <1>5, <1>7, <2>1, NewestStays DEF Newest
<1>12. \A x \in Lineage(t) : x \in Lineage(s) \/ x \in ids
  <2>1. SUFFICES ASSUME NEW x \in Lineage(t) PROVE x \in Lineage(s) \/ x \in ids
    OBVIOUS
  <2>2. PICK d \in Entries(t) : d.action = "summarize" /\ x \in d.parents
    BY InLineage
  <2>3. d = e \/ d \in Entries(s)
    BY <1>5, <1>9
  <2>. HIDE DEF old
  <2>. QED
    BY <1>1, <1>3, <2>2, <2>3, InLineage
<1>13. Lineage(Push(kept, e)) \subseteq Lineage(t) /\ (Clean(t) => Clean(Push(kept, e)))
  BY <1>9, GrownLineage
<1>14. ASSUME Clean(s) PROVE Clean(t)
  <2>1. SUFFICES ASSUME NEW d \in Entries(t), d.id \in Lineage(t) PROVE Protected(d)
    BY DEF Clean
  <2>2. d.id < n
    BY <1>12, <2>1
  <2>3. d # e
    BY <1>3, <2>2
  <2>4. d \in Entries(s) /\ (d.id \notin ids \/ Protected(d))
    BY <1>5, <1>9, <2>1, <2>3
  <2>. QED
    BY <1>12, <1>14, <2>1, <2>4 DEF Clean
<1>. QED
  BY <1>6, <1>10, <1>11, <1>12, <1>13, <1>14

-----------------------------------------------------------------------------
(* What the handlers leave *)

\* r is after s and has no new summary.
Acts(s, r, F) ==
    Grown(s, r, F) /\ \A e \in Entries(r) : e.id \in F => e.action # "summarize"

\* A call works on the snapshot s with two identifiers of its own.
Called(s, a, b) ==
    /\ Stack(s) /\ run \in 1..MaxRuns
    /\ a \in 1..MaxId /\ b \in 1..MaxId /\ a # b
    /\ \A e \in Entries(s) : e.id < a /\ e.id < b

\* It leaves the snapshot, or one with new entries.
Leaves(s, r, F) == r = s \/ (Acts(s, r, F) /\ Newest(s, r))

\* The snapshot has no entry of the call.
LEMMA CallBegins ==
    ASSUME NEW s, NEW a, NEW b, Called(s, a, b)
    PROVE  /\ Stack(s) /\ Acts(s, s, {a, b}) /\ \A e \in Entries(s) : e.id # a /\ e.id # b
<1>1. Stack(s) /\ \A e \in Entries(s) : e.id \in Nat /\ e.id # a /\ e.id # b
  <2>1. \A e \in Entries(s) : e \in Entry
    BY StackDomain DEF Called
  <2>. QED
    BY <2>1 DEF Called, Entry
<1>2. Grown(s, s, {a, b})
  BY <1>1, GrownSelf
<1>. QED
  BY <1>1, <1>2 DEF Acts

\* An identifier that is not in use is still not.
LEMMA NoNewId ==
    ASSUME NEW r, NEW t, Grown(r, t, {}), NEW x, \A e \in Entries(r) : e.id # x
    PROVE  \A e \in Entries(t) : e.id # x
BY DEF Grown, Kin

\* Changes of status make no summary.
LEMMA ActsMarked ==
    ASSUME NEW s, NEW r, NEW t, NEW F, Acts(s, r, F), Grown(r, t, {})
    PROVE  Acts(s, t, F)
<1>1. F \cup {} = F
  OBVIOUS
<1>2. Grown(s, t, F)
  BY <1>1, GrownOn DEF Acts
<1>3. \A e \in Entries(t) : \E d \in Entries(r) : Kin(e, d)
  BY DEF Grown
<1>. QED
  BY <1>2, <1>3 DEF Acts, Kin, Grown

\* A pushed entry is new and, if there is room, in view.
LEMMA ActsPushed ==
    ASSUME NEW s, NEW r, NEW F, Acts(s, r, F), NEW e \in Entry, e.id \in F,
           \A d \in Entries(r) : d.id # e.id, e.status = "active", e.action # "summarize"
    PROVE  /\ Acts(s, Push(r, e), F) /\ Newest(s, Push(r, e))
           /\ \A d \in Entries(Push(r, e)) : d.id = e.id \/ \E c \in Entries(r) : d.id = c.id
<1>1. PICK t : t = Push(r, e)
  OBVIOUS
<1>2. Stack(r) /\ Pinned(r) = Pinned(s) /\ Grown(s, r, F)
  BY DEF Acts, Grown
<1>3. PICK u : u = Append(r, e)
  OBVIOUS
<1>4. Entries(u) = Entries(r) \cup {e} /\ Grown(u, t, {}) /\ Grown(r, t, {e.id})
  BY <1>1, <1>2, <1>3, Pushed
<1>5. F \cup {e.id} = F
  OBVIOUS
<1>6. Grown(s, t, F)
  BY <1>2, <1>4, <1>5, GrownOn
<1>7. \A d \in Entries(t) : \E c \in Entries(u) : Kin(d, c)
  BY <1>4 DEF Grown
<1>8. \A d \in Entries(t) : d.id = e.id \/ \E c \in Entries(r) : d.id = c.id
  BY <1>4, <1>7 DEF Kin
<1>9. \A d \in Entries(t) : d.id \in F => d.action # "summarize"
  BY <1>4, <1>7 DEF Kin, Acts
<1>10. Newest(s, t)
  BY <1>1, <1>2, NewestStays DEF Newest
<1>. QED
  BY <1>1, <1>6, <1>8, <1>9, <1>10 DEF Acts

\* New, with other fields: an active entry with the identifier and the action given.
LEMMA NewFields ==
    ASSUME NEW a, NEW action, NEW c, NEW ps
    PROVE  /\ New(a, action).id = a /\ New(a, action).action = action
           /\ New(a, action).status = "active" /\ ~New(a, action).critical
           /\ LET e == [New(a, action) EXCEPT !.critical = c]
              IN  e.id = a /\ e.action = action /\ e.status = "active"
           /\ LET e == [New(a, action) EXCEPT !.parents = ps]
              IN  e.id = a /\ e.action = action /\ e.status = "active"
BY DEF New

\* Statuses changed to "pruned" or "superseded" where nothing is pinned.
LEMMA Withdrawn ==
    ASSUME NEW s, Stack(s), NEW P, NEW status \in Statuses, status # "pinned",
           \A i \in P : s[i].status # "pinned"
    PROVE  LET r == [i \in DOMAIN s |-> IF i \in P THEN [s[i] EXCEPT !.status = status]
                                        ELSE s[i]]
           IN  Grown(s, r, {})
<1>1. PICK r : r = [i \in DOMAIN s |-> IF i \in P THEN [s[i] EXCEPT !.status = status]
                                       ELSE s[i]]
  OBVIOUS
<1>2. r = [i \in DOMAIN s |-> r[i]]
  BY <1>1
<1>3. ASSUME NEW i \in DOMAIN s PROVE r[i] \in Entry /\ Kin(r[i], s[i])
  <2>1. s[i] \in Entry
    BY DEF Stack
  <2>2. r[i] = s[i] \/ (i \in P /\ r[i] = [s[i] EXCEPT !.status = status])
    BY <1>1
  <2>. QED
    BY <2>1, <2>2 DEF Kin, Entry
<1>4. Grown(s, r, {})
  BY <1>2, <1>3, Marked
<1>. QED
  BY <1>1, <1>4

\* A backtrack withdraws entries and is the newest one itself.
LEMMA BacktrackActs ==
    ASSUME NEW s, NEW r, NEW F, Acts(s, r, F), run \in 1..MaxRuns,
           NEW ids \in SUBSET (1..MaxId),
           NEW id \in 1..MaxId, id \in F, \A d \in Entries(r) : d.id # id
    PROVE  /\ Acts(s, MarkBacktracked(r, ids, id), F)
           /\ Newest(s, MarkBacktracked(r, ids, id))
<1>. DEFINE P == {i \in DOMAIN r : r[i].id \in ids /\ r[i].status # "pinned"}
<1>1. PICK t : t = [i \in DOMAIN r |-> IF i \in P THEN [r[i] EXCEPT !.status = "pruned"]
                                       ELSE r[i]]
  OBVIOUS
<1>2. PICK e : e = [New(id, "backtrack") EXCEPT !.parents = ids]
  OBVIOUS
<1>3. MarkBacktracked(r, ids, id) = Push(t, e)
  <2>1. t = [i \in DOMAIN r |-> IF r[i].id \in ids /\ r[i].status # "pinned"
                                THEN Pruned(r[i]) ELSE r[i]]
    BY <1>1 DEF Pruned
  <2>. QED
    BY <1>2, <2>1 DEF MarkBacktracked
<1>4. Grown(r, t, {})
  <2>1. Stack(r) /\ \A i \in P : r[i].status # "pinned"
    BY DEF Acts, Grown
  <2>2. "pruned" \in Statuses /\ "pruned" # "pinned"
    BY DEF Statuses
  <2>. HIDE DEF P
  <2>. QED
    BY <1>1, <2>1, <2>2, Withdrawn
<1>5. Acts(s, t, F)
  BY <1>4, ActsMarked
<1>6. e \in Entry /\ e.id = id /\ e.status = "active" /\ e.action = "backtrack"
  <2>1. e \in Entry
    BY <1>2, NewEntry DEF Actions
  <2>. QED
    BY <1>2, <2>1, NewFields
<1>7. \A d \in Entries(t) : d.id # e.id
  BY <1>4, <1>6, NoNewId
<1>. QED
  BY <1>3, <1>5, <1>6, <1>7, ActsPushed

\* The first entry of a call.
LEMMA FirstEntry ==
    ASSUME NEW s, NEW a, NEW b, Called(s, a, b), NEW e \in Entry, e.id \in {a, b},
           e.status = "active", e.action # "summarize"
    PROVE  /\ Acts(s, Push(s, e), {a, b}) /\ Newest(s, Push(s, e)) /\ Stack(Push(s, e))
           /\ \A d \in Entries(Push(s, e)) : d.id = e.id \/ (d.id # a /\ d.id # b)
<1>1. Acts(s, s, {a, b}) /\ \A d \in Entries(s) : d.id # a /\ d.id # b
  BY CallBegins
<1>2. /\ Acts(s, Push(s, e), {a, b}) /\ Newest(s, Push(s, e))
      /\ \A d \in Entries(Push(s, e)) : d.id = e.id \/ \E c \in Entries(s) : d.id = c.id
  BY <1>1, ActsPushed
<1>. QED
  BY <1>1, <1>2 DEF Acts, Grown

\* Its second entry.
LEMMA SecondEntry ==
    ASSUME NEW s, NEW a, NEW b, Called(s, a, b), NEW d \in Entry, NEW e \in Entry,
           d.id = a, d.status = "active", d.action # "summarize",
           e.id = b, e.status = "active", e.action # "summarize"
    PROVE  Leaves(s, Push(Push(s, d), e), {a, b})
<1>1. PICK r : r = Push(s, d)
  OBVIOUS
<1>2. Acts(s, r, {a, b}) /\ \A c \in Entries(r) : c.id = d.id \/ (c.id # a /\ c.id # b)
  BY <1>1, FirstEntry
<1>3. a # b
  BY DEF Called
<1>4. Acts(s, Push(r, e), {a, b}) /\ Newest(s, Push(r, e))
  BY <1>2, <1>3, ActsPushed
<1>. QED
  BY <1>1, <1>4 DEF Leaves

\* The handlers that append what happened.
LEMMA NotingLeaves ==
    ASSUME NEW s, NEW a, NEW b, Called(s, a, b)
    PROVE  /\ \A action \in Actions \ {"summarize"} :
                  \A r \in Noted(s, a, action) : Leaves(s, r, {a, b})
           /\ \A r \in Thought(s, a) : Leaves(s, r, {a, b})
           /\ \A r \in Delegated(s, a, b) : Leaves(s, r, {a, b})
           /\ \A r \in Recalled(s, a, b) : Leaves(s, r, {a, b})
<1>1. a \in 1..MaxId /\ b \in 1..MaxId /\ run \in 1..MaxRuns
  BY DEF Called
<1>2. ASSUME NEW action \in Actions \ {"summarize"} PROVE Leaves(s, Push(s, New(a, action)), {a, b})
  <2>1. New(a, action) \in Entry
    BY <1>1, NewEntry
  <2>. QED
    BY <2>1, FirstEntry, NewFields DEF Leaves
<1>3. ASSUME NEW c \in BOOLEAN
      PROVE  Leaves(s, Push(s, [New(a, "think") EXCEPT !.critical = c]), {a, b})
  <2>1. PICK e : e = [New(a, "think") EXCEPT !.critical = c]
    OBVIOUS
  <2>2. e \in Entry
    BY <1>1, <2>1, NewEntry DEF Actions
  <2>3. e.id = a /\ e.status = "active" /\ e.action = "think"
    BY <2>1, NewFields
  <2>. QED
    BY <2>1, <2>2, <2>3, FirstEntry DEF Leaves
<1>4. ASSUME NEW action \in {"observe", "error"}
      PROVE  Leaves(s, Push(Push(s, New(a, "delegate")), New(b, action)), {a, b})
  <2>1. New(a, "delegate") \in Entry /\ New(b, action) \in Entry
    BY <1>1, NewEntry DEF Actions
  <2>. QED
    BY <2>1, SecondEntry, NewFields
<1>5. ASSUME NEW action \in {"recall_memory", "error"}
      PROVE  Leaves(s, Push(Push(s, New(a, "recall_memory")),
                            [New(b, action) EXCEPT !.parents = {a}]), {a, b})
  <2>1. PICK e : e = [New(b, action) EXCEPT !.parents = {a}]
    OBVIOUS
  <2>2. New(a, "recall_memory") \in Entry /\ e \in Entry
    BY <1>1, <2>1, NewEntry DEF Actions
  <2>3. PICK d : d = New(a, "recall_memory")
    OBVIOUS
  <2>4. d \in Entry /\ d.id = a /\ d.status = "active" /\ d.action # "summarize"
    BY <2>2, <2>3, NewFields
  <2>5. e.id = b /\ e.status = "active" /\ e.action # "summarize"
    BY <2>1, NewFields
  <2>6. Leaves(s, Push(Push(s, d), e), {a, b})
    BY <2>2, <2>4, <2>5, SecondEntry
  <2>. QED
    BY <2>1, <2>3, <2>6
<1>. QED
  BY <1>2, <1>3, <1>4, <1>5 DEF Noted, Thought, Delegated, Recalled

\* The identifiers of a stack.
LEMMA StackIds ==
    ASSUME NEW s, Stack(s)
    PROVE  Ids(s) \in SUBSET (1..MaxId) /\ \A i \in DOMAIN s : s[i].id \in 1..MaxId
BY StackDomain DEF Ids, Entries, Entry

\* REFLECT withdraws the entries it names, if they are active.
LEMMA ReflectingLeaves ==
    ASSUME NEW s, NEW a, NEW b, Called(s, a, b), NEW r \in Reflected(s, a, b)
    PROVE  Leaves(s, r, {a, b})
<1>1. a \in 1..MaxId /\ b \in 1..MaxId /\ a # b /\ run \in 1..MaxRuns /\ Stack(s)
  BY DEF Called
<1>2. PICK ids : r = ReflectOn(s, ids, a, b)
  BY DEF Reflected
<1>. DEFINE active == {e.id : e \in {f \in Named(s, ids) : f.status = "active"}}
<1>3. PICK u : u = Push(s, New(a, "reflect"))
  OBVIOUS
<1>4. /\ Acts(s, u, {a, b}) /\ Newest(s, u)
      /\ \A d \in Entries(u) : d.id # b
  <2>1. New(a, "reflect") \in Entry
    BY <1>1, NewEntry DEF Actions
  <2>. QED
    BY <1>1, <1>3, <2>1, FirstEntry, NewFields
<1>5. active \in SUBSET (1..MaxId)
  <2>1. \A e \in Entries(s) : e.id \in 1..MaxId
    BY <1>1, StackDomain DEF Entry
  <2>. QED
    BY <2>1 DEF Named
<1>6. Acts(s, MarkBacktracked(u, active, b), {a, b}) /\ Newest(s, MarkBacktracked(u, active, b))
  <2>. HIDE DEF active
  <2>. QED
    BY <1>1, <1>4, <1>5, BacktrackActs
<1>7. r = s \/ r = u \/ r = MarkBacktracked(u, active, b)
  BY <1>2, <1>3 DEF ReflectOn
<1>. QED
  BY <1>4, <1>6, <1>7 DEF Leaves

\* REVISE supersedes the entries it names, which are active.
LEMMA RevisingLeaves ==
    ASSUME NEW s, NEW a, NEW b, Called(s, a, b), NEW r \in Revised(s, a)
    PROVE  Leaves(s, r, {a, b})
<1>1. a \in 1..MaxId /\ run \in 1..MaxRuns /\ Stack(s)
  BY DEF Called
<1>2. PICK ids \in SUBSET Ids(s) : r = Revise(s, ids, a)
  BY DEF Revised, Targets
<1>3. ids \in SUBSET (1..MaxId)
  BY <1>1, StackIds
<1>4. CASE ~(Mutable(s, ids) /\ \A e \in Named(s, ids) : e.status = "active")
  BY <1>2, <1>4 DEF Revise, Leaves
<1>5. CASE Mutable(s, ids) /\ \A e \in Named(s, ids) : e.status = "active"
  <2>. DEFINE P == {i \in DOMAIN s : s[i].id \in ids}
  <2>1. PICK t : t = [i \in DOMAIN s |-> IF i \in P THEN [s[i] EXCEPT !.status = "superseded"]
                                         ELSE s[i]]
    OBVIOUS
  <2>2. PICK e : e = [New(a, "revise") EXCEPT !.parents = ids]
    OBVIOUS
  <2>3. r = Push(t, e)
    <3>1. t = [i \in DOMAIN s |-> IF s[i].id \in ids THEN [s[i] EXCEPT !.status = "superseded"]
                                  ELSE s[i]]
      BY <2>1
    <3>. QED
      BY <1>2, <1>5, <2>2, <3>1 DEF Revise
  <2>4. Grown(s, t, {})
    <3>1. \A i \in P : s[i].status # "pinned"
      BY <1>5 DEF Named, Entries
    <3>2. "superseded" \in Statuses /\ "superseded" # "pinned"
      BY DEF Statuses
    <3>. HIDE DEF P
    <3>. QED
      BY <1>1, <2>1, <3>1, <3>2, Withdrawn
  <2>5. Acts(s, t, {a, b}) /\ \A d \in Entries(t) : d.id # a
    <3>1. Acts(s, s, {a, b}) /\ \A d \in Entries(s) : d.id # a
      BY CallBegins
    <3>2. Acts(s, t, {a, b})
      BY <2>4, <3>1, ActsMarked
    <3>. QED
      BY <2>4, <3>1, <3>2, NoNewId
  <2>6. e \in Entry /\ e.id = a /\ e.status = "active" /\ e.action = "revise"
    <3>1. e \in Entry
      BY <1>1, <1>3, <2>2, NewEntry DEF Actions
    <3>. QED
      BY <2>2, <3>1, NewFields
  <2>7. Acts(s, r, {a, b}) /\ Newest(s, r)
    BY <2>3, <2>5, <2>6, ActsPushed
  <2>. QED
    BY <2>7 DEF Leaves
<1>. QED
  BY <1>4, <1>5

\* BACKTRACK withdraws the entries it names or those after its target.
LEMMA BacktrackingLeaves ==
    ASSUME NEW s, NEW a, NEW b, Called(s, a, b), NEW r \in Backtracked(s, a)
    PROVE  Leaves(s, r, {a, b})
<1>1. a \in 1..MaxId /\ run \in 1..MaxRuns /\ Stack(s)
  BY DEF Called
<1>2. PICK ids : ids \in SUBSET (1..MaxId) /\ r = MarkBacktracked(s, ids, a)
  BY <1>1, StackIds DEF Backtracked, Targets
<1>3. Acts(s, r, {a, b}) /\ Newest(s, r)
  <2>1. Acts(s, s, {a, b}) /\ a \in {a, b} /\ \A d \in Entries(s) : d.id # a
    BY CallBegins
  <2>. QED
    BY <1>1, <1>2, <2>1, BacktrackActs
<1>. QED
  BY <1>3 DEF Leaves

\* Every action but SUMMARIZE leaves the snapshot or puts active entries on it, no summary.
LEMMA ResultsLeave ==
    ASSUME NEW type \in Calls \ {"SUMMARIZE"}, NEW s, NEW a, NEW b, Called(s, a, b),
           NEW r \in Results(type, s, a, b)
    PROVE  Leaves(s, r, {a, b})
<1>1. type \in CallTypes
  BY TaskMemoryAssumption
<1>2. CASE type \in {"REPLAN", "ASK_HUMAN", "FINISH"}
  <2>1. PICK action \in Actions \ {"summarize"} : r \in Noted(s, a, action)
    BY <1>2 DEF Results, Actions
  <2>. QED
    BY <2>1, NotingLeaves
<1>3. CASE type \in {"THINK", "DELEGATE", "RECALL_MEMORY"}
  BY <1>3, NotingLeaves DEF Results
<1>4. CASE type = "REFLECT"
  BY <1>4, ReflectingLeaves DEF Results
<1>5. CASE type = "REVISE"
  BY <1>5, RevisingLeaves DEF Results
<1>6. CASE type = "BACKTRACK"
  BY <1>6, BacktrackingLeaves DEF Results
<1>. QED
  BY <1>1, <1>2, <1>3, <1>4, <1>5, <1>6 DEF CallTypes

\* The sources found for a summary are entries of the stack.
LEMMA SourcesAreIds ==
    ASSUME NEW s, Stack(s)
    PROVE  AutoSources(s) \subseteq Ids(s) /\ DefaultSources(s) \subseteq Ids(s)
<1>. DEFINE S == {e \in Entries(s) : Compactable(e)}
<1>1. PICK cand : cand = Keep(s, S)
  OBVIOUS
<1>2. \A i \in DOMAIN cand : cand[i] \in Entries(cand)
  BY DEF Entries
<1>3. Entries(cand) = Entries(s) \cap S
  BY <1>1, Kept
<1>4. \A i \in DOMAIN cand : cand[i].id \in Ids(s)
  <2>1. \A e \in Entries(s) : e.id \in Ids(s)
    BY DEF Entries, Ids
  <2>. QED
    BY <1>2, <1>3, <2>1
<1>5. AutoSources(s) \subseteq {cand[i].id : i \in DOMAIN cand}
  BY <1>1 DEF AutoSources
<1>6. DefaultSources(s) \subseteq {cand[i].id : i \in DOMAIN cand}
  BY <1>1 DEF DefaultSources
<1>. QED
  BY <1>4, <1>5, <1>6

\* SUMMARIZE leaves the snapshot or adds one summary, of entries of the snapshot.
LEMMA SummarizingLeaves ==
    ASSUME NEW s, NEW a, NEW b, Called(s, a, b), NEW n \in Nat, n =< a,
           \A e \in Entries(s) : e.id < n, \A x \in Lineage(s) : x < n,
           NEW r \in Summarized(s, a)
    PROVE  \/ r = s
           \/ Grown(s, r, {a}) /\ Newest(s, r) /\ \A x \in Lineage(r) : x < n
<1>1. a \in 1..MaxId /\ run \in 1..MaxRuns /\ Stack(s) /\ \A e \in Entries(s) : e.id < a
  BY DEF Called
<1>2. SUFFICES ASSUME NEW ids \in SUBSET Ids(s), r = Summary(s, ids, a)
               PROVE  \/ r = s
                      \/ Grown(s, r, {a}) /\ Newest(s, r) /\ \A x \in Lineage(r) : x < n
  BY <1>1, SourcesAreIds DEF Summarized, Targets
<1>3. CASE ids = {}
  <2>1. PICK e : e = New(a, "summarize")
    OBVIOUS
  <2>2. /\ e \in Entry /\ e.id = a /\ e.status = "active" /\ e.parents = {}
    <3>1. e \in Entry
      BY <1>1, <2>1, NewEntry DEF Actions
    <3>. QED
      BY <2>1, <3>1 DEF New
  <2>3. \A d \in Entries(s) : d.id # e.id
    BY <2>2, CallBegins
  <2>4. PICK t : t = Append(s, e)
    OBVIOUS
  <2>5. /\ Entries(t) = Entries(s) \cup {e} /\ Grown(t, Push(s, e), {})
        /\ Grown(s, Push(s, e), {a})
    BY <1>1, <2>2, <2>3, <2>4, Pushed
  <2>6. Lineage(t) \subseteq Lineage(s)
    <3>1. SUFFICES ASSUME NEW x \in Lineage(t) PROVE x \in Lineage(s)
      OBVIOUS
    <3>. QED
      BY <2>2, <2>5, InLineage
  <2>7. \A x \in Lineage(Push(s, e)) : x < n
    BY <2>5, <2>6, GrownLineage
  <2>8. Newest(s, Push(s, e))
    BY <1>1, <2>2, <2>3, NewestStays DEF Newest
  <2>9. r = Push(s, e)
    BY <1>2, <1>3, <2>1 DEF Summary
  <2>. QED
    BY <2>5, <2>7, <2>8, <2>9
<1>4. CASE ids # {}
  <2>1. r = s \/ r = Condense(s, ids, a)
    BY <1>2, <1>4 DEF Summary
  <2>2. ids \in SUBSET (1..MaxId)
    BY <1>1, StackIds
  <2>3. \A x \in ids : x < n
    BY DEF Ids, Entries
  <2>4. /\ Grown(s, Condense(s, ids, a), {a}) /\ Newest(s, Condense(s, ids, a))
        /\ \A x \in Lineage(Condense(s, ids, a)) : x < n
    BY <1>1, <2>2, <2>3, Condensed
  <2>. QED
    BY <2>1, <2>4
<1>. QED
  BY <1>3, <1>4

-----------------------------------------------------------------------------
(* The join *)

\* Stacks without a common identifier, one after the other.
LEMMA Joining ==
    ASSUME NEW s, Stack(s), NEW t, Stack(t),
           \A d \in Entries(s), e \in Entries(t) : d.id # e.id
    PROVE  Stack(s \o t) /\ Entries(s \o t) = Entries(s) \cup Entries(t)
<1>1. PICK n \in Nat, m \in Nat : n = Len(s) /\ DOMAIN s = 1..n /\ m = Len(t) /\ DOMAIN t = 1..m
  BY StackDomain
<1>2. PICK u : u = s \o t
  OBVIOUS
<1>3. /\ u \in Seq(Entry) /\ Len(u) = n + m
      /\ \A i \in 1..(n + m) : u[i] = IF i =< n THEN s[i] ELSE t[i - n]
  BY <1>1, <1>2, ConcatProperties DEF Stack
<1>4. \A i \in 1..n : i \in 1..(n + m) /\ u[i] = s[i]
  BY <1>3
<1>5. \A i \in 1..m : i + n \in 1..(n + m) /\ u[i + n] = t[i]
  <2>1. ASSUME NEW i \in 1..m PROVE i + n \in 1..(n + m) /\ ~(i + n =< n) /\ (i + n) - n = i
    OBVIOUS
  <2>. QED
    BY <1>3, <2>1
<1>6. \A i \in 1..(n + m) : i \in 1..n \/ \E j \in 1..m : i = j + n
  <2>1. ASSUME NEW i \in 1..(n + m), i \notin 1..n PROVE i - n \in 1..m /\ i = (i - n) + n
    BY <2>1
  <2>. QED
    BY <2>1
<1>7. Entries(u) = Entries(s) \cup Entries(t)
  <2>1. DOMAIN u = 1..(n + m)
    BY <1>3
  <2>2. ASSUME NEW e \in Entries(u) PROVE e \in Entries(s) \cup Entries(t)
    <3>1. PICK i \in 1..(n + m) : e = u[i]
      BY <2>1 DEF Entries
    <3>2. CASE i \in 1..n
      BY <1>1, <1>4, <3>1, <3>2 DEF Entries
    <3>3. CASE i \notin 1..n
      <4>1. PICK j \in 1..m : i = j + n
        BY <1>6, <3>3
      <4>. QED
        BY <1>1, <1>5, <3>1, <4>1 DEF Entries
    <3>. QED
      BY <3>2, <3>3
  <2>3. ASSUME NEW e \in Entries(s) PROVE e \in Entries(u)
    BY <1>1, <1>4, <2>1 DEF Entries
  <2>4. ASSUME NEW e \in Entries(t) PROVE e \in Entries(u)
    BY <1>1, <1>5, <2>1 DEF Entries
  <2>. QED
    BY <2>2, <2>3, <2>4
<1>8. Stack(u)
  <2>1. SUFFICES ASSUME NEW i \in 1..(n + m), NEW j \in 1..(n + m), u[i].id = u[j].id
                 PROVE  i = j
    BY <1>3 DEF Stack
  <2>2. \A k \in 1..n : s[k] \in Entries(s)
    BY <1>1 DEF Entries
  <2>3. \A k \in 1..m : t[k] \in Entries(t)
    BY <1>1 DEF Entries
  <2>4. CASE i \in 1..n /\ j \in 1..n
    BY <1>1, <1>4, <2>1, <2>4 DEF Stack
  <2>5. CASE i \in 1..n /\ j \notin 1..n
    BY <1>4, <1>5, <1>6, <2>1, <2>2, <2>3, <2>5
  <2>6. CASE i \notin 1..n /\ j \in 1..n
    BY <1>4, <1>5, <1>6, <2>1, <2>2, <2>3, <2>6
  <2>7. CASE i \notin 1..n /\ j \notin 1..n
    <3>1. PICK k \in 1..m, l \in 1..m : i = k + n /\ j = l + n
      BY <1>6, <2>7
    <3>2. t[k].id = t[l].id
      BY <1>5, <2>1, <3>1
    <3>3. k = l
      BY <1>1, <3>2 DEF Stack
    <3>. QED
      BY <3>1, <3>3
  <2>. QED
    BY <2>4, <2>5, <2>6, <2>7
<1>. QED
  BY <1>2, <1>7, <1>8

\* The reducer takes the newer copy of an entry, adds what is new, and drops what a summary of
\* either side condensed.
LEMMA Merging ==
    ASSUME NEW s, Stack(s), NEW t, Stack(t)
    PROVE  LET m == Merge(s, t)
               out == Lineage(s) \cup Lineage(t)
           IN  /\ Stack(m) /\ Clean(m) /\ Lineage(m) \subseteq out
               /\ Entries(m) \subseteq Entries(s) \cup Entries(t)
               /\ \A e \in Entries(t) : e.id \notin out \/ Protected(e) => e \in Entries(m)
               /\ \A e \in Entries(s) : /\ e.id \notin Ids(t)
                                        /\ e.id \notin out \/ Protected(e)
                                        => e \in Entries(m)
<1>. DEFINE out == Lineage(s) \cup Lineage(t)
<1>1. PICK n \in Nat : n = Len(s) /\ DOMAIN s = 1..n
  BY StackDomain
<1>2. PICK S : S = {e \in Entries(t) : e.id \notin Ids(s)}
  OBVIOUS
<1>3. PICK added : added = Keep(t, S)
  OBVIOUS
<1>4. Stack(added) /\ Entries(added) = S
  BY <1>2, <1>3, Kept
<1>5. PICK latest : latest = [i \in DOMAIN s |-> IF s[i].id \in Ids(t)
                                THEN CHOOSE e \in Entries(t) : e.id = s[i].id
                                ELSE s[i]]
  OBVIOUS
<1>6. ASSUME NEW i \in 1..n
      PROVE  /\ latest[i].id = s[i].id
             /\ \/ s[i].id \in Ids(t) /\ latest[i] \in Entries(t)
                \/ s[i].id \notin Ids(t) /\ latest[i] = s[i]
  <2>1. CASE s[i].id \notin Ids(t)
    BY <1>1, <1>5, <2>1
  <2>2. CASE s[i].id \in Ids(t)
    <3>1. \E e \in Entries(t) : e.id = s[i].id
      BY <2>2 DEF Ids, Entries
    <3>2. latest[i] = CHOOSE e \in Entries(t) : e.id = s[i].id
      BY <1>1, <1>5, <2>2
    <3>. QED
      BY <2>2, <3>1, <3>2
  <2>. QED
    BY <2>1, <2>2
<1>7. \A i \in 1..n : s[i] \in Entries(s)
  BY <1>1 DEF Entries
<1>8. DOMAIN latest = 1..n /\ Stack(latest)
  <2>1. DOMAIN latest = 1..n
    BY <1>1, <1>5
  <2>2. \A i \in 1..n : latest[i] \in Entry
    BY <1>6, <1>7, StackDomain
  <2>3. latest = [i \in 1..n |-> latest[i]]
    BY <1>1, <1>5
  <2>4. latest \in Seq(Entry)
    BY <2>2, <2>3
  <2>5. \A i, j \in 1..n : latest[i].id = latest[j].id => i = j
    BY <1>1, <1>6 DEF Stack
  <2>. QED
    BY <2>1, <2>4, <2>5 DEF Stack
<1>9. \A e \in Entries(latest) : \E i \in 1..n : e = latest[i]
  BY <1>8 DEF Entries
<1>10. PICK all : all = latest \o added
  OBVIOUS
<1>11. Stack(all) /\ Entries(all) = Entries(latest) \cup S
  <2>1. ASSUME NEW d \in Entries(latest), NEW e \in Entries(added) PROVE d.id # e.id
    <3>1. PICK i \in 1..n : d = latest[i]
      BY <1>9
    <3>2. d.id \in Ids(s)
      BY <1>1, <1>6, <3>1 DEF Ids
    <3>. QED
      BY <1>2, <1>4, <3>2
  <2>. QED
    BY <1>4, <1>8, <1>10, <2>1, Joining
<1>12. Entries(all) \subseteq Entries(s) \cup Entries(t)
  BY <1>2, <1>6, <1>7, <1>9, <1>11
<1>13. Lineage(all) \subseteq out
  <2>1. SUFFICES ASSUME NEW x \in Lineage(all) PROVE x \in out
    OBVIOUS
  <2>2. PICK e \in Entries(all) : e.action = "summarize" /\ x \in e.parents
    BY InLineage
  <2>. QED
    BY <1>12, <2>2, InLineage
<1>14. ASSUME NEW e \in Entries(t) PROVE e \in Entries(all)
  <2>1. CASE e.id \notin Ids(s)
    BY <1>2, <1>11, <2>1
  <2>2. CASE e.id \in Ids(s)
    <3>1. PICK i \in 1..n : s[i].id = e.id
      BY <1>1, <2>2 DEF Ids
    <3>2. e.id \in Ids(t)
      BY DEF Ids, Entries
    <3>3. latest[i] \in Entries(t) /\ latest[i].id = e.id
      BY <1>6, <3>1, <3>2
    <3>4. latest[i] = e
      BY <3>3, StackDomain
    <3>5. latest[i] \in Entries(latest)
      BY <1>8 DEF Entries
    <3>. QED
      BY <1>11, <3>4, <3>5
  <2>. QED
    BY <2>1, <2>2
<1>15. ASSUME NEW e \in Entries(s), e.id \notin Ids(t) PROVE e \in Entries(all)
  <2>1. PICK i \in 1..n : s[i] = e
    BY <1>1 DEF Entries
  <2>2. latest[i] = e
    BY <1>6, <1>15, <2>1
  <2>3. latest[i] \in Entries(latest)
    BY <1>8 DEF Entries
  <2>. QED
    BY <1>11, <2>2, <2>3
<1>16. PICK T : T = {e \in Entries(all) : e.id \notin Lineage(all) \/ Protected(e)}
  OBVIOUS
<1>17. PICK m : m = Merge(s, t)
  OBVIOUS
<1>18. m = Keep(all, T)
  BY <1>2, <1>3, <1>5, <1>10, <1>16, <1>17 DEF Merge
<1>19. Stack(m) /\ Entries(m) = T
  <2>1. Entries(all) \cap T = T
    BY <1>16
  <2>. QED
    BY <1>11, <1>18, <2>1, Kept
<1>20. Lineage(m) \subseteq Lineage(all)
  <2>1. SUFFICES ASSUME NEW x \in Lineage(m) PROVE x \in Lineage(all)
    OBVIOUS
  <2>. QED
    BY <1>16, <1>19, InLineage
<1>21. Clean(m)
  BY <1>16, <1>19, <1>20 DEF Clean
<1>22. \A e \in Entries(all) : e.id \notin out \/ Protected(e) => e \in Entries(m)
  BY <1>13, <1>16, <1>19
<1>23. Entries(m) \subseteq Entries(s) \cup Entries(t)
  BY <1>12, <1>16, <1>19
<1>. HIDE DEF out
<1>24. Lineage(m) \subseteq out
  BY <1>13, <1>20
<1>25. /\ \A e \in Entries(t) : e.id \notin out \/ Protected(e) => e \in Entries(m)
       /\ \A e \in Entries(s) : /\ e.id \notin Ids(t)
                                /\ e.id \notin out \/ Protected(e)
                                => e \in Entries(m)
  BY <1>14, <1>15, <1>22
<1>. QED
  BY <1>17, <1>19, <1>21, <1>23, <1>24, <1>25 DEF out

-----------------------------------------------------------------------------
(* The invariant *)

\* A stack whose summaries are clean, with identifiers below n only.
Sound(s, n) ==
    /\ Stack(s) /\ Clean(s)
    /\ \A e \in Entries(s) : e.id < n
    /\ \A x \in Lineage(s) : x < n

Branch == [state : BranchStates, asks : BOOLEAN, memory : Seq(Entry)]

\* What the i-th call of the turn leaves: a stack after the snapshot with entries of its own.
Fits(b, i) ==
    /\ First(i) + 1 \in 1..MaxId
    /\ b.state # "done" => b.memory = <<>>
    /\ b.state = "done" =>
          /\ Grown(memory, b.memory, {First(i), First(i) + 1})
          /\ \A x \in Lineage(b.memory) : x < nextId
          /\ \A e \in Entries(b.memory) :
                e.id >= nextId => /\ e.action = "summarize" => e.id = First(i)
                                  /\ Newest(memory, b.memory)

\* The branch has summarized or is about to.
Holds(b) ==
    \/ b.state = "reserved"
    \/ \E e \in Entries(b.memory) : e.id >= nextId /\ e.action = "summarize"

MemoryInv ==
    /\ StackTypeOK /\ branches \in Seq(Branch)
    /\ nextId > 0 /\ Sound(memory, nextId)
    /\ \A i \in DOMAIN branches : Fits(branches[i], i)
    /\ \A i \in DOMAIN branches : Holds(branches[i]) => reserved
    /\ \A i, j \in DOMAIN branches : Holds(branches[i]) /\ Holds(branches[j]) => i = j

\* Identifiers are numbers.
LEMMA EntryIds ==
    ASSUME NEW s, Stack(s)
    PROVE  \A e \in Entries(s) : e.id \in Nat
BY StackDomain DEF Entry

\* What is condensed has an identifier.
LEMMA LineageIds ==
    ASSUME NEW s, Stack(s)
    PROVE  \A x \in Lineage(s) : x \in Nat
<1>1. SUFFICES ASSUME NEW x \in Lineage(s) PROVE x \in Nat
  OBVIOUS
<1>2. PICK e \in Entries(s) : x \in e.parents
  BY InLineage
<1>. QED
  BY <1>2, StackDomain DEF Entry

\* A sound stack that loses entries or changes their status stays sound and keeps its pins.
LEMMA SoundShrinks ==
    ASSUME NEW n, NEW s, Sound(s, n), NEW r, Grown(s, r, {})
    PROVE  Sound(r, n) /\ Pinned(r) = Pinned(s)
<1>1. Stack(r) /\ Clean(r) /\ Lineage(r) \subseteq Lineage(s)
  BY GrownLineage DEF Sound, Grown
<1>2. \A e \in Entries(r) : e.id < n
  BY DEF Sound, Grown, Kin
<1>. QED
  BY <1>1, <1>2 DEF Sound, Grown

\* An entry pushed with the next identifier, no summary, keeps the stack sound.
LEMMA SoundPush ==
    ASSUME NEW n \in 1..MaxId, NEW s, Sound(s, n),
           NEW e \in Entry, e.id = n, e.action # "summarize"
    PROVE  Sound(Push(s, e), n + 1) /\ Pinned(s) \subseteq Pinned(Push(s, e))
<1>1. PICK t : t = Append(s, e)
  OBVIOUS
<1>2. n \in Nat /\ Stack(s)
  BY DEF Sound
<1>3. \A d \in Entries(s) : d.id # e.id
  BY <1>2, EntryIds DEF Sound
<1>4. Stack(t) /\ Entries(t) = Entries(s) \cup {e} /\ Grown(t, Push(s, e), {})
  BY <1>1, <1>2, <1>3, Pushed
<1>5. Lineage(t) \subseteq Lineage(s)
  <2>1. SUFFICES ASSUME NEW x \in Lineage(t) PROVE x \in Lineage(s)
    OBVIOUS
  <2>. QED
    BY <1>4, InLineage
<1>6. \A x \in Lineage(s) : x \in Nat /\ x < n
  BY <1>2, LineageIds DEF Sound
<1>7. \A d \in Entries(t) : d.id < n + 1
  BY <1>2, <1>4, EntryIds DEF Sound
<1>8. Clean(t)
  <2>1. SUFFICES ASSUME NEW d \in Entries(t), d.id \in Lineage(t) PROVE Protected(d)
    BY DEF Clean
  <2>2. d # e
    BY <1>2, <1>5, <1>6, <2>1
  <2>. QED
    BY <1>4, <1>5, <2>1, <2>2 DEF Sound, Clean
<1>9. \A x \in Lineage(t) : x < n + 1
  BY <1>2, <1>5, <1>6
<1>10. Sound(t, n + 1)
  BY <1>4, <1>7, <1>8, <1>9 DEF Sound
<1>11. Sound(Push(s, e), n + 1) /\ Pinned(Push(s, e)) = Pinned(t)
  BY <1>4, <1>10, SoundShrinks
<1>. QED
  BY <1>4, <1>11 DEF Pinned

\* Pruning changes statuses.
LEMMA PrunedSound ==
    ASSUME NEW s, Stack(s), NEW r \in Prunings(s)
    PROVE  Grown(s, r, {})
<1>1. PICK n : r = Prune(s, n)
  BY DEF Prunings
<1>. DEFINE P == {i \in DOMAIN s : /\ s[i].status # "pinned"
                                   /\ Cardinality({j \in 1..(i - 1) : s[j].status = "active"}) < n}
<1>2. r = [i \in DOMAIN s |-> IF i \in P THEN [s[i] EXCEPT !.status = "pruned"] ELSE s[i]]
  BY <1>1 DEF Prune, Pruned
<1>3. \A i \in P : s[i].status # "pinned"
  OBVIOUS
<1>4. "pruned" \in Statuses /\ "pruned" # "pinned"
  BY DEF Statuses
<1>. HIDE DEF P
<1>. QED
  BY <1>2, <1>3, <1>4, Withdrawn

\* What the invariant says of the memory.
LEMMA MemoryIsSound ==
    ASSUME MemoryInv
    PROVE  /\ Stack(memory) /\ Sound(memory, nextId) /\ nextId \in Nat /\ nextId > 0
           /\ run \in 1..MaxRuns /\ MaxId \in Nat
           /\ Sound(MaintainSize(memory), nextId) /\ Grown(memory, MaintainSize(memory), {})
<1>1. Stack(memory) /\ Sound(memory, nextId)
  BY DEF MemoryInv, Sound
<1>2. Grown(memory, MaintainSize(memory), {})
  BY <1>1, Maintained
<1>3. MaxId \in Nat
  BY TaskMemoryAssumption
<1>. QED
  BY <1>1, <1>2, <1>3, SoundShrinks DEF MemoryInv, StackTypeOK

\* The memory a step leaves is sound and has every pinned entry.
Moves ==
    /\ Sound(memory', nextId') /\ nextId' \in Nat /\ nextId' > 0
    /\ Pinned(memory) \subseteq Pinned(memory')

\* A new run restores, records what it was asked or answered, and prunes.
LEMMA NewRunMoves ==
    ASSUME MemoryInv, NEW fresh \in BOOLEAN, NEW answered \in BOOLEAN, NewRun(fresh, answered)
    PROVE  Moves
<1>. DEFINE restored == MaintainSize(memory)
            base == IF fresh THEN Keep(restored, {e \in Entries(restored) : Carried(e)})
                    ELSE restored
            continuing == question /\ ~fresh
            asked == IF continuing THEN base ELSE Push(base, New(nextId, "user_request"))
<1>1. Sound(base, nextId) /\ Pinned(base) = Pinned(memory)
  <2>1. Sound(restored, nextId) /\ Pinned(restored) = Pinned(memory)
    BY MemoryIsSound, SoundShrinks DEF Grown
  <2>2. Grown(restored, Keep(restored, {e \in Entries(restored) : Carried(e)}), {})
    <3>1. Pinned(restored) \subseteq {e \in Entries(restored) : Carried(e)}
      BY DEF Pinned, Carried, Protected
    <3>2. Stack(restored)
      BY <2>1 DEF Sound
    <3>. HIDE DEF restored
    <3>. QED
      BY <3>1, <3>2, Filtered
  <2>. HIDE DEF restored
  <2>3. CASE fresh
    BY <2>1, <2>2, <2>3, SoundShrinks
  <2>4. CASE ~fresh
    BY <2>1, <2>4
  <2>. QED
    BY <2>3, <2>4
<1>2. /\ nextId \in 1..MaxId /\ run \in 1..MaxRuns
      /\ answered => continuing
      /\ nextId' = IF continuing /\ ~answered THEN nextId ELSE nextId + 1
  BY MemoryIsSound DEF NewRun
<1>3. PICK s \in Prunings(asked) : memory' = IF answered THEN Push(s, Feedback(nextId)) ELSE s
  BY DEF NewRun
<1>. HIDE DEF base
<1>4. CASE continuing
  <2>1. Sound(s, nextId) /\ Pinned(s) = Pinned(memory)
    <3>1. Grown(base, s, {})
      BY <1>1, <1>3, <1>4, PrunedSound DEF Sound
    <3>. QED
      BY <1>1, <3>1, SoundShrinks
  <2>2. CASE ~answered
    <3>1. nextId' = nextId /\ memory' = s
      BY <1>2, <1>3, <1>4, <2>2
    <3>. QED
      BY <1>2, <2>1, <3>1, MemoryIsSound DEF Moves
  <2>3. CASE answered
    <3>1. nextId' = nextId + 1 /\ memory' = Push(s, Feedback(nextId))
      BY <1>2, <1>3, <2>3
    <3>2. /\ Feedback(nextId) \in Entry /\ Feedback(nextId).id = nextId
          /\ Feedback(nextId).action # "summarize"
      BY <1>2 DEF Feedback, New, Entry, Actions, Statuses
    <3>3. Sound(memory', nextId + 1) /\ Pinned(s) \subseteq Pinned(memory')
      BY <1>2, <2>1, <3>1, <3>2, SoundPush
    <3>. QED
      BY <1>2, <2>1, <3>1, <3>3 DEF Moves
  <2>. QED
    BY <2>2, <2>3
<1>5. CASE ~continuing
  <2>1. PICK u : u = Push(base, New(nextId, "user_request"))
    OBVIOUS
  <2>2. Sound(u, nextId + 1) /\ Pinned(memory) \subseteq Pinned(u)
    <3>1. New(nextId, "user_request") \in Entry
      BY <1>2, NewEntry DEF Actions
    <3>. QED
      BY <1>1, <1>2, <2>1, <3>1, NewFields, SoundPush
  <2>3. Grown(u, s, {})
    BY <1>3, <1>5, <2>1, <2>2, PrunedSound DEF Sound
  <2>4. Sound(s, nextId + 1) /\ Pinned(s) = Pinned(u)
    BY <2>2, <2>3, SoundShrinks
  <2>5. memory' = s /\ nextId' = nextId + 1
    BY <1>2, <1>3, <1>5
  <2>. QED
    BY <1>2, <2>2, <2>4, <2>5 DEF Moves
<1>. QED
  BY <1>4, <1>5

\* A free-form answer is pushed.
LEMMA AnswerMoves ==
    ASSUME MemoryInv, Answer
    PROVE  Moves
<1>1. nextId \in 1..MaxId /\ run \in 1..MaxRuns /\ nextId' = nextId + 1
  BY MemoryIsSound DEF Answer
<1>2. PICK s : s = MaintainSize(memory)
  OBVIOUS
<1>3. Sound(s, nextId) /\ Pinned(s) = Pinned(memory)
  BY <1>2, MemoryIsSound DEF Grown
<1>4. New(nextId, "think") \in Entry
  BY <1>1, NewEntry DEF Actions
<1>5. memory' = Push(s, New(nextId, "think"))
  BY <1>2 DEF Answer
<1>6. Sound(memory', nextId + 1) /\ Pinned(s) \subseteq Pinned(memory')
  BY <1>1, <1>3, <1>4, <1>5, NewFields, SoundPush
<1>. QED
  BY <1>1, <1>3, <1>6 DEF Moves

\* The end of a run may summarize, and prunes.
LEMMA EndRunMoves ==
    ASSUME MemoryInv, EndRun
    PROVE  Moves
<1>1. PICK s : s = MaintainSize(memory)
  OBVIOUS
<1>. DEFINE sources == AutoSources(s)
            auto == sources # {} /\ CanSummarize(s)
<1>2. /\ nextId \in 1..MaxId /\ run \in 1..MaxRuns
      /\ nextId' = IF auto THEN nextId + 1 ELSE nextId
      /\ \E r \in Prunings(IF auto THEN Condense(s, sources, nextId) ELSE s) : memory' = r
  BY <1>1, MemoryIsSound DEF EndRun
<1>3. Sound(s, nextId) /\ Pinned(s) = Pinned(memory)
  BY <1>1, MemoryIsSound DEF Grown
<1>4. PICK u : u = IF auto THEN Condense(s, sources, nextId) ELSE s
  OBVIOUS
<1>5. Sound(u, nextId') /\ Pinned(u) = Pinned(memory)
  <2>1. CASE ~auto
    BY <1>2, <1>3, <1>4, <2>1
  <2>2. CASE auto
    <3>1. Stack(s) /\ sources \in SUBSET (1..MaxId) /\ \A x \in sources : x < nextId
      <4>1. Stack(s) /\ sources \subseteq Ids(s)
        BY <1>3, SourcesAreIds DEF Sound
      <4>2. \A x \in Ids(s) : x < nextId
        BY <1>3 DEF Sound, Ids, Entries
      <4>. QED
        BY <4>1, <4>2, StackIds
    <3>. HIDE DEF sources
    <3>2. u = Condense(s, sources, nextId) /\ nextId' = nextId + 1
      BY <1>2, <1>4, <2>2
    <3>3. /\ Grown(s, u, {nextId}) /\ \A x \in Lineage(u) : x < nextId
          /\ Clean(s) => Clean(u)
      <4>1. /\ nextId \in Nat /\ nextId =< nextId
            /\ \A e \in Entries(s) : e.id < nextId
            /\ \A x \in Lineage(s) : x < nextId
        BY <1>2, <1>3 DEF Sound
      <4>2. PICK v : v = Condense(s, sources, nextId)
        OBVIOUS
      <4>3. /\ Grown(s, v, {nextId}) /\ \A x \in Lineage(v) : x < nextId
            /\ Clean(s) => Clean(v)
        BY <1>2, <3>1, <4>1, <4>2, Condensed
      <4>. QED
        BY <3>2, <4>2, <4>3
    <3>4. Stack(u) /\ Pinned(u) = Pinned(s)
      BY <3>3 DEF Grown
    <3>5. \A e \in Entries(u) : e.id < nextId + 1
      <4>1. SUFFICES ASSUME NEW e \in Entries(u) PROVE e.id < nextId + 1
        OBVIOUS
      <4>2. e.id = nextId \/ \E d \in Entries(s) : e.id = d.id
        BY <3>3 DEF Grown, Kin
      <4>3. e.id = nextId \/ e.id < nextId
        BY <1>3, <4>2 DEF Sound
      <4>4. e.id \in Nat
        BY <3>4, EntryIds
      <4>. QED
        BY <1>2, <4>3, <4>4
    <3>6. \A x \in Lineage(u) : x < nextId + 1
      BY <1>2, <3>3, <3>4, LineageIds
    <3>. QED
      BY <1>3, <3>2, <3>3, <3>4, <3>5, <3>6 DEF Sound
  <2>. QED
    BY <2>1, <2>2
<1>6. Grown(u, memory', {})
  BY <1>2, <1>4, <1>5, PrunedSound DEF Sound
<1>7. Sound(memory', nextId') /\ Pinned(memory') = Pinned(u)
  BY <1>5, <1>6, SoundShrinks
<1>8. nextId' \in Nat /\ nextId' > 0
  BY <1>2
<1>. QED
  BY <1>5, <1>7, <1>8 DEF Moves

-----------------------------------------------------------------------------
(* The branches of a turn *)

\* The identifiers of a call are new, and no other call's.
LEMMA OwnIds ==
    ASSUME nextId \in Nat, NEW i \in Nat, NEW j \in Nat, i > 0, i < j
    PROVE  /\ First(i) \in Nat /\ First(i) >= nextId /\ First(i) + 1 < First(j)
           /\ First(j) >= nextId
<1>1. /\ 2 * (i - 1) \in Nat /\ 2 * (j - 1) \in Nat /\ 2 * (i - 1) + 1 < 2 * (j - 1)
  OBVIOUS
<1>. QED
  BY <1>1 DEF First

\* What is known of a branch.
LEMMA BranchFits ==
    ASSUME MemoryInv, NEW i \in DOMAIN branches
    PROVE  /\ branches[i] \in Branch /\ Fits(branches[i], i)
           /\ i \in Nat /\ i > 0 /\ Stack(branches[i].memory)
           /\ First(i) \in Nat /\ First(i) >= nextId
           /\ \A e \in Entries(branches[i].memory) :
                 e.id < nextId \/ e.id = First(i) \/ e.id = First(i) + 1
<1>1. branches[i] \in Branch /\ Fits(branches[i], i) /\ i \in Nat /\ i > 0
  BY DEF MemoryInv
<1>2. First(i) \in Nat /\ First(i) >= nextId
  BY <1>1, MemoryIsSound DEF First
<1>3. CASE branches[i].state # "done"
  <2>1. branches[i].memory = <<>>
    BY <1>1, <1>3 DEF Fits
  <2>2. Stack(<<>>) /\ Entries(<<>>) = {}
    BY DEF Stack, Entries
  <2>. QED
    BY <1>1, <1>2, <2>1, <2>2
<1>4. CASE branches[i].state = "done"
  <2>1. Grown(memory, branches[i].memory, {First(i), First(i) + 1})
    BY <1>1, <1>4 DEF Fits
  <2>2. \A d \in Entries(memory) : d.id < nextId
    BY DEF MemoryInv, Sound
  <2>3. \A e \in Entries(branches[i].memory) :
            e.id < nextId \/ e.id = First(i) \/ e.id = First(i) + 1
    BY <2>1, <2>2 DEF Grown, Kin
  <2>. QED
    BY <1>1, <1>2, <2>1, <2>3 DEF Grown
<1>. QED
  BY <1>3, <1>4

\* The join of the first k branches: it is sound, comes from the memory and those branches, and
\* has every pinned entry of the memory and every new entry of the branches.
JoinedTo(s, k) ==
    /\ Stack(s) /\ Clean(s) /\ \A x \in Lineage(s) : x < nextId
    /\ Pinned(memory) \subseteq Entries(s)
    /\ \A e \in Entries(s) : \/ e \in Entries(memory)
                             \/ \E i \in 1..k : e \in Entries(branches[i].memory)
    /\ \A i \in 1..k : \A e \in Entries(branches[i].memory) :
            e.id >= nextId => e \in Entries(s)

\* A branch joins the others.
LEMMA JoinsOne ==
    ASSUME MemoryInv, NEW k \in DOMAIN branches, NEW s, JoinedTo(s, k - 1),
           branches[k].state = "done"
    PROVE  JoinedTo(Merge(s, branches[k].memory), k)
<1>1. PICK t : t = branches[k].memory
  OBVIOUS
<1>2. /\ Stack(t) /\ k \in Nat /\ k > 0 /\ First(k) >= nextId /\ First(k) \in Nat
      /\ nextId \in Nat
      /\ \A e \in Entries(t) : e.id < nextId \/ e.id = First(k) \/ e.id = First(k) + 1
  BY <1>1, BranchFits, MemoryIsSound
<1>3. Grown(memory, t, {First(k), First(k) + 1}) /\ \A x \in Lineage(t) : x < nextId
  BY <1>1, BranchFits DEF Fits
<1>4. PICK m : m = Merge(s, t)
  OBVIOUS
<1>5. PICK out : out = Lineage(s) \cup Lineage(t)
  OBVIOUS
<1>6. Stack(s) /\ \A x \in out : x < nextId
  BY <1>3, <1>5 DEF JoinedTo
<1>7. /\ Stack(m) /\ Clean(m) /\ Lineage(m) \subseteq out
      /\ Entries(m) \subseteq Entries(s) \cup Entries(t)
      /\ \A e \in Entries(t) : e.id \notin out \/ Protected(e) => e \in Entries(m)
      /\ \A e \in Entries(s) : /\ e.id \notin Ids(t)
                               /\ e.id \notin out \/ Protected(e)
                               => e \in Entries(m)
  BY <1>2, <1>4, <1>5, <1>6, Merging
<1>8. \A x \in Lineage(m) : x < nextId
  BY <1>6, <1>7
<1>9. ASSUME NEW e \in Pinned(memory) PROVE e \in Entries(m)
  <2>1. e \in Entries(t) /\ Protected(e)
    BY <1>3, <1>9 DEF Grown, Pinned, Protected
  <2>. QED
    BY <1>7, <2>1
<1>10. \A i \in 1..k : i \in 1..(k - 1) \/ i = k
  BY <1>2
<1>11. ASSUME NEW e \in Entries(m)
       PROVE  e \in Entries(memory) \/ \E i \in 1..k : e \in Entries(branches[i].memory)
  <2>1. CASE e \in Entries(t)
    BY <1>1, <1>2, <2>1
  <2>2. CASE e \in Entries(s)
    <3>1. \A i \in 1..(k - 1) : i \in 1..k
      BY <1>2
    <3>. QED
      BY <2>2, <3>1 DEF JoinedTo
  <2>. QED
    BY <1>7, <2>1, <2>2
<1>12. ASSUME NEW i \in 1..k, NEW e \in Entries(branches[i].memory), e.id >= nextId
       PROVE  e \in Entries(m)
  <2>1. i \in DOMAIN branches
    BY <1>2 DEF MemoryInv
  <2>2. e.id \in Nat
    BY <2>1, BranchFits, EntryIds
  <2>3. e.id \notin out
    BY <1>2, <1>6, <1>12, <2>2
  <2>4. CASE i = k
    BY <1>1, <1>7, <2>3, <2>4
  <2>5. CASE i # k
    <3>1. i \in 1..(k - 1) /\ i \in Nat /\ i > 0 /\ i < k
      BY <1>2, <1>10, <2>5
    <3>2. e \in Entries(s)
      BY <1>12, <3>1 DEF JoinedTo
    <3>3. e.id = First(i) \/ e.id = First(i) + 1
      BY <1>2, <1>12, <2>1, <2>2, BranchFits
    <3>4. First(i) \in Nat /\ First(i) + 1 < First(k)
      BY <1>2, <3>1, OwnIds
    <3>5. e.id < First(k)
      BY <1>2, <3>3, <3>4
    <3>6. \A d \in Entries(t) : d.id # e.id
      BY <1>2, <1>12, <2>2, <3>5
    <3>7. e.id \notin Ids(t)
      BY <3>6 DEF Ids, Entries
    <3>. QED
      BY <1>7, <2>3, <3>2, <3>7
  <2>. QED
    BY <2>4, <2>5
<1>. QED
  BY <1>1, <1>4, <1>7, <1>8, <1>9, <1>11, <1>12 DEF JoinedTo

\* The branches join one after the other.
LEMMA JoinsAll ==
    ASSUME MemoryInv, \A i \in DOMAIN branches : branches[i].state \in {"done", "silent"}
    PROVE  JoinedTo(Joined, Len(branches))
<1>1. PICK n \in Nat : n = Len(branches) /\ DOMAIN branches = 1..n
  BY DEF MemoryInv
<1>. DEFINE X == {s \in Seq(Entry) : Stack(s)}
            upTo == CHOOSE f : f = [k \in 0..n |->
                        IF k = 0 THEN memory
                        ELSE IF branches[k].state = "done" THEN Merge(f[k - 1], branches[k].memory)
                        ELSE f[k - 1]]
<1>2. upTo = [k \in 0..n |->
                IF k = 0 THEN memory
                ELSE IF branches[k].state = "done" THEN Merge(upTo[k - 1], branches[k].memory)
                ELSE upTo[k - 1]]
  <2>. DEFINE G == [p \in (1..n) \X X |->
                        IF branches[p[1]].state = "done" THEN Merge(p[2], branches[p[1]].memory)
                        ELSE p[2]]
  <2>1. \A k \in 1..n, x \in X :
            G[<<k, x>>] = IF branches[k].state = "done" THEN Merge(x, branches[k].memory) ELSE x
    OBVIOUS
  <2>2. memory \in X /\ G \in Steps(n, X)
    <3>1. memory \in X
      BY MemoryIsSound DEF Stack
    <3>2. ASSUME NEW k \in 1..n, NEW x \in X
          PROVE  (IF branches[k].state = "done" THEN Merge(x, branches[k].memory) ELSE x) \in X
      <4>1. Stack(branches[k].memory)
        BY <1>1, BranchFits
      <4>2. Stack(Merge(x, branches[k].memory))
        BY <4>1, Merging
      <4>. QED
        BY <4>2 DEF Stack
    <3>. HIDE DEF X
    <3>. QED
      BY <3>1, <3>2 DEF Steps
  <2>. HIDE DEF G, X
  <2>3. PICK f \in [0..n -> X] :
            f[0] = memory /\ \A k \in 1..n : f[k] = G[<<k, f[k - 1]>>]
    <3>1. \E f : Follows(f, n, X, memory, G)
      BY <1>1, <2>2, Recursion
    <3>. QED
      BY <3>1 DEF Follows
  <2>4. ASSUME NEW k \in 0..n
        PROVE  f[k] = IF k = 0 THEN memory
                      ELSE IF branches[k].state = "done"
                           THEN Merge(f[k - 1], branches[k].memory)
                      ELSE f[k - 1]
    <3>1. CASE k = 0
      BY <2>3, <3>1
    <3>2. CASE k # 0
      <4>1. k \in 1..n /\ k - 1 \in 0..n
        BY <1>1, <3>2
      <4>2. f[k - 1] \in X
        BY <4>1
      <4>. QED
        BY <2>1, <2>3, <3>2, <4>1, <4>2
    <3>. QED
      BY <3>1, <3>2
  <2>5. f = [k \in 0..n |-> IF k = 0 THEN memory
                            ELSE IF branches[k].state = "done"
                                 THEN Merge(f[k - 1], branches[k].memory)
                            ELSE f[k - 1]]
    <3>1. f = [k \in 0..n |-> f[k]]
      OBVIOUS
    <3>. QED
      BY <2>4, <3>1
  <2>. QED
    BY <2>5
<1>3. Joined = upTo[n]
  BY <1>1 DEF Joined
<1>. HIDE DEF upTo
<1>4. /\ upTo[0] = memory
      /\ \A k \in 1..n : upTo[k] = IF branches[k].state = "done"
                                   THEN Merge(upTo[k - 1], branches[k].memory)
                                   ELSE upTo[k - 1]
  <2>1. upTo[0] = memory
    BY <1>1, <1>2
  <2>2. ASSUME NEW k \in 1..n
        PROVE  upTo[k] = IF branches[k].state = "done"
                         THEN Merge(upTo[k - 1], branches[k].memory)
                         ELSE upTo[k - 1]
    <3>1. k \in 0..n /\ k # 0
      OBVIOUS
    <3>. QED
      BY <1>2, <3>1
  <2>. QED
    BY <2>1, <2>2
<1>. DEFINE T == {k \in 0..n : JoinedTo(upTo[k], k)}
<1>5. 0 \in T
  <2>1. JoinedTo(memory, 0)
    BY MemoryIsSound DEF JoinedTo, Sound, Pinned
  <2>. QED
    BY <1>1, <1>4, <2>1
<1>6. ASSUME NEW k \in 1..n, k - 1 \in T PROVE k \in T
  <2>1. JoinedTo(upTo[k - 1], k - 1) /\ k \in DOMAIN branches
    BY <1>1, <1>6
  <2>2. CASE branches[k].state = "done"
    BY <1>4, <2>1, <2>2, JoinsOne
  <2>3. CASE branches[k].state # "done"
    <3>1. branches[k].memory = <<>>
      BY <2>1, <2>3, BranchFits DEF Fits
    <3>2. Entries(<<>>) = {}
      BY DEF Entries
    <3>3. \A i \in 1..k : i \in 1..(k - 1) \/ i = k
      OBVIOUS
    <3>4. \A i \in 1..(k - 1) : i \in 1..k
      OBVIOUS
    <3>5. upTo[k] = upTo[k - 1]
      BY <1>4, <2>3
    <3>6. JoinedTo(upTo[k - 1], k)
      BY <2>1, <3>1, <3>2, <3>3, <3>4 DEF JoinedTo
    <3>. QED
      BY <3>5, <3>6
  <2>. QED
    BY <2>2, <2>3
<1>7. \A k \in 0..n : k \in T
  <2>. HIDE DEF T
  <2>. QED
    BY <1>5, <1>6, UpTo
<1>8. n \in T
  BY <1>7
<1>. QED
  BY <1>1, <1>3, <1>8

\* The tool node's writes: the joined memory, with a bound above every identifier in use.
LEMMA JoinMoves ==
    ASSUME MemoryInv, Join
    PROVE  Moves /\ JoinedTo(memory', Len(branches))
<1>1. JoinedTo(memory', Len(branches))
  BY JoinsAll DEF Join
<1>. DEFINE T == {nextId - 1} \cup UNION {Ids(branches[i].memory) : i \in DOMAIN branches}
<1>2. nextId \in Nat /\ nextId > 0 /\ MaxId \in Nat
  BY MemoryIsSound
<1>3. T \subseteq Nat /\ T # {} /\ \A k \in T : k =< nextId + MaxId
  <2>1. ASSUME NEW i \in DOMAIN branches, NEW k \in Ids(branches[i].memory)
        PROVE  k \in Nat /\ k =< nextId + MaxId
    <3>1. k \in 1..MaxId
      BY <2>1, BranchFits, StackIds
    <3>. QED
      BY <1>2, <3>1
  <2>2. nextId - 1 \in Nat /\ nextId - 1 =< nextId + MaxId
    BY <1>2
  <2>. QED
    BY <2>1, <2>2
<1>4. Max(T) \in Nat /\ \A k \in T : k =< Max(T)
  <2>1. nextId + MaxId \in Nat
    BY <1>2
  <2>. HIDE DEF T
  <2>. QED
    BY <1>3, <2>1, Greatest
<1>5. nextId' = 1 + Max(T)
  BY DEF Join
<1>6. nextId - 1 \in T
  OBVIOUS
<1>7. nextId' \in Nat /\ nextId' > 0 /\ nextId' >= nextId
  <2>. HIDE DEF T
  <2>. QED
    BY <1>2, <1>4, <1>5, <1>6
<1>8. ASSUME NEW e \in Entries(memory') PROVE e.id < nextId'
  <2>1. Stack(memory') /\ e.id \in Nat
    BY <1>1, EntryIds DEF JoinedTo
  <2>2. CASE e \in Entries(memory)
    <3>1. e.id < nextId
      BY <2>2, MemoryIsSound DEF Sound
    <3>. QED
      BY <1>2, <1>7, <2>1, <3>1
  <2>3. CASE e \notin Entries(memory)
    <3>1. PICK i \in DOMAIN branches : e \in Entries(branches[i].memory)
      BY <1>1, <2>3 DEF JoinedTo, MemoryInv
    <3>2. e.id \in Ids(branches[i].memory)
      BY <3>1 DEF Ids, Entries
    <3>3. e.id \in T
      BY <3>2
    <3>. HIDE DEF T
    <3>. QED
      BY <1>4, <1>5, <2>1, <3>3
  <2>. QED
    BY <2>2, <2>3
<1>9. \A x \in Lineage(memory') : x < nextId'
  <2>1. \A x \in Lineage(memory') : x \in Nat /\ x < nextId
    BY <1>1, LineageIds DEF JoinedTo
  <2>. QED
    BY <1>2, <1>7, <2>1
<1>10. Sound(memory', nextId')
  BY <1>1, <1>8, <1>9 DEF Sound, JoinedTo
<1>11. Pinned(memory) \subseteq Pinned(memory')
  BY <1>1 DEF JoinedTo, Pinned
<1>. QED
  BY <1>1, <1>7, <1>10, <1>11 DEF Moves

\* A step that gives the branches up keeps the invariant, if the memory moves.
LEMMA TurnEnds ==
    ASSUME MemoryInv, Moves, branches' = <<>>, reserved' \in BOOLEAN, question' \in BOOLEAN,
           phase' \in {"idle", "model", "ending"}, run' \in 1..MaxRuns
    PROVE  MemoryInv'
<1>1. Stack(memory') /\ \A e \in Entries(memory') : e.id < nextId'
  BY DEF Moves, Sound
<1>2. /\ memory' \in Seq(Entry) /\ nextId' \in Nat /\ reserved' \in BOOLEAN
      /\ \A i, j \in DOMAIN memory' : memory'[i].id = memory'[j].id => i = j
  BY <1>1 DEF Moves, Stack
<1>3. /\ (phase' = "tools") = (branches' # <<>>)
      /\ phase' \in {"idle", "model", "tools", "ending"}
      /\ \A i \in DOMAIN branches' :
            branches'[i].state \in BranchStates /\ branches'[i].memory \in Seq(Entry)
  OBVIOUS
<1>4. StackTypeOK'
  BY <1>1, <1>2, <1>3 DEF StackTypeOK
<1>. QED
  BY <1>4 DEF MemoryInv, Moves

\* A call of the turn takes a step.
LEMMA CallSteps ==
    ASSUME MemoryInv, phase = "tools", NEW i \in DOMAIN branches, NEW b \in Branch, Fits(b, i),
           branches' = [branches EXCEPT ![i] = b], reserved' \in BOOLEAN,
           UNCHANGED <<memory, question, phase, run, nextId>>,
           Holds(b) => reserved' /\ (reserved => Holds(branches[i])),
           reserved /\ ~reserved' => Holds(branches[i])
    PROVE  MemoryInv'
<1>1. PICK bs : bs = branches'
  OBVIOUS
<1>2. /\ bs \in Seq(Branch) /\ DOMAIN bs = DOMAIN branches /\ bs # <<>>
      /\ bs[i] = b /\ \A j \in DOMAIN branches : j # i => bs[j] = branches[j]
  BY <1>1 DEF MemoryInv
<1>3. \A j \in DOMAIN bs : Fits(bs[j], j)
  BY <1>2 DEF MemoryInv
<1>4. \A j \in DOMAIN bs : Holds(bs[j]) => reserved'
  <2>1. SUFFICES ASSUME NEW j \in DOMAIN branches, Holds(bs[j]), j # i PROVE reserved'
    BY <1>2
  <2>2. Holds(branches[j]) /\ reserved
    BY <1>2, <2>1 DEF MemoryInv
  <2>. QED
    BY <2>1, <2>2 DEF MemoryInv
<1>5. \A j, k \in DOMAIN bs : Holds(bs[j]) /\ Holds(bs[k]) => j = k
  <2>1. ASSUME NEW j \in DOMAIN branches, Holds(bs[j]), j # i, Holds(b) PROVE FALSE
    <3>1. Holds(branches[j]) /\ reserved
      BY <1>2, <2>1 DEF MemoryInv
    <3>. QED
      BY <2>1, <3>1 DEF MemoryInv
  <2>. QED
    BY <1>2, <2>1 DEF MemoryInv
<1>6. \A j \in DOMAIN bs : bs[j].state \in BranchStates /\ bs[j].memory \in Seq(Entry)
  <2>1. \A j \in DOMAIN bs : bs[j] \in Branch
    BY <1>2
  <2>. QED
    BY <2>1 DEF Branch
<1>7. StackTypeOK'
  <2>1. UNCHANGED <<memory, question, phase, run, nextId>> /\ Entries(memory)' = Entries(memory)
    BY DEF Entries
  <2>2. branches' # <<>> /\ phase' = "tools"
    BY <1>1, <1>2
  <2>3. StackTypeOK
    BY DEF MemoryInv
  <2>4. /\ memory' \in Seq(Entry)
        /\ \A k, j \in DOMAIN memory' : memory'[k].id = memory'[j].id => k = j
        /\ \A e \in Entries(memory)' : e.id < nextId'
    BY <2>1, <2>3 DEF StackTypeOK
  <2>. QED
    BY <1>1, <1>6, <2>1, <2>2, <2>3, <2>4 DEF StackTypeOK
<1>8. Sound(memory, nextId)' /\ nextId' > 0
  BY DEF MemoryInv, Sound, Stack, Clean, Lineage, Entries
<1>9. \A j \in DOMAIN branches' : Fits(branches[j], j)'
  <2>1. SUFFICES ASSUME NEW j \in DOMAIN bs PROVE Fits(branches[j], j)'
    BY <1>1
  <2>2. PICK b2 : b2 = bs[j] /\ b2 = branches'[j]
    BY <1>1
  <2>3. memory' = memory /\ nextId' = nextId /\ First(j)' = First(j)
    BY DEF First
  <2>4. Fits(b2, j)
    BY <1>3, <2>2
  <2>. QED
    BY <2>2, <2>3, <2>4 DEF Fits
<1>10. \A j \in DOMAIN branches' : Holds(branches[j])' => reserved'
  BY <1>1, <1>4 DEF Holds
<1>11. \A j, k \in DOMAIN branches' : Holds(branches[j])' /\ Holds(branches[k])' => j = k
  BY <1>1, <1>5 DEF Holds
<1>. QED
  BY <1>1, <1>2, <1>7, <1>8, <1>9, <1>10, <1>11 DEF MemoryInv

\* A call works on its snapshot of the memory.
LEMMA Snapshot ==
    ASSUME MemoryInv, NEW i \in DOMAIN branches, NEW s, s = MaintainSize(memory)
    PROVE  /\ Called(s, First(i), First(i) + 1)
           /\ Grown(memory, s, {}) /\ Pinned(s) = Pinned(memory)
           /\ \A e \in Entries(s) : e.id < nextId
           /\ \A x \in Lineage(s) : x < nextId
           /\ nextId \in Nat /\ nextId =< First(i)
<1>1. /\ Stack(s) /\ Grown(memory, s, {}) /\ Pinned(s) = Pinned(memory)
      /\ \A e \in Entries(s) : e.id < nextId
      /\ \A x \in Lineage(s) : x < nextId
  BY MemoryIsSound DEF Sound, Grown
<1>2. /\ First(i) \in Nat /\ First(i) >= nextId /\ First(i) + 1 \in 1..MaxId
      /\ nextId \in Nat /\ nextId > 0 /\ MaxId \in Nat /\ run \in 1..MaxRuns
  BY BranchFits, MemoryIsSound DEF Fits
<1>3. First(i) \in 1..MaxId /\ First(i) # First(i) + 1
  BY <1>2
<1>4. \A e \in Entries(s) : e.id < First(i) /\ e.id < First(i) + 1
  BY <1>1, <1>2, EntryIds
<1>. QED
  BY <1>1, <1>2, <1>3, <1>4 DEF Called

\* A branch that follows the snapshot follows the memory.
LEMMA AfterSnapshot ==
    ASSUME MemoryInv, NEW i \in DOMAIN branches, NEW s, s = MaintainSize(memory),
           NEW r, NEW F, Grown(s, r, F), F \subseteq {First(i), First(i) + 1},
           \A x \in Lineage(r) : x < nextId,
           \A e \in Entries(r) :
                e.id >= nextId => /\ e.action = "summarize" => e.id = First(i)
                                  /\ Newest(s, r),
           NEW asks \in BOOLEAN
    PROVE  Done(r, asks) \in Branch /\ Fits(Done(r, asks), i)
<1>1. Stack(r)
  BY DEF Grown
<1>2. Grown(memory, r, {First(i), First(i) + 1})
  <2>1. {} \cup F = F
    OBVIOUS
  <2>2. Grown(memory, r, F)
    BY <2>1, Snapshot, GrownOn
  <2>. QED
    BY <2>2 DEF Grown
<1>3. Pinned(s) = Pinned(memory)
  BY Snapshot
<1>4. /\ Done(r, asks).state = "done" /\ Done(r, asks).memory = r
      /\ Done(r, asks) \in [state : {"done"}, asks : BOOLEAN, memory : {r}]
  BY DEF Done
<1>5. Done(r, asks) \in Branch
  BY <1>1, <1>4 DEF Stack, Branch, BranchStates
<1>6. First(i) + 1 \in 1..MaxId
  BY BranchFits DEF Fits
<1>. QED
  BY <1>2, <1>3, <1>4, <1>5, <1>6 DEF Fits, Newest

\* A call that leaves its snapshot, or has added entries but no summary, fits.
LEMMA LeavesFits ==
    ASSUME MemoryInv, NEW i \in DOMAIN branches, NEW s, s = MaintainSize(memory),
           NEW r, Leaves(s, r, {First(i), First(i) + 1}), NEW asks \in BOOLEAN
    PROVE  /\ Done(r, asks) \in Branch /\ Fits(Done(r, asks), i)
           /\ ~Holds(Done(r, asks))
<1>1. PICK F : F = {First(i), First(i) + 1}
  OBVIOUS
<1>2. /\ Called(s, First(i), First(i) + 1)
      /\ \A e \in Entries(s) : e.id < nextId
      /\ \A x \in Lineage(s) : x < nextId
      /\ nextId \in Nat /\ Stack(s)
  BY Snapshot DEF Called
<1>3. \A e \in Entries(s) : ~(e.id >= nextId)
  BY <1>2, EntryIds
<1>4. Acts(s, s, F)
  BY <1>1, <1>2, CallBegins
<1>5. Acts(s, r, F) /\ (r = s \/ Newest(s, r))
  BY <1>1, <1>4 DEF Leaves
<1>6. \A e \in Entries(r) : e.id \in F \/ \E d \in Entries(s) : Kin(e, d)
  BY <1>5 DEF Acts, Grown
<1>7. \A x \in Lineage(r) : x < nextId
  <2>1. SUFFICES ASSUME NEW x \in Lineage(r) PROVE x < nextId
    OBVIOUS
  <2>2. PICK e \in Entries(r) : e.action = "summarize" /\ x \in e.parents
    BY InLineage
  <2>3. e.id \notin F
    BY <1>5, <2>2 DEF Acts
  <2>4. PICK d \in Entries(s) : d.action = "summarize" /\ x \in d.parents
    BY <1>6, <2>2, <2>3 DEF Kin
  <2>. QED
    BY <1>2, <2>4, InLineage
<1>8. ASSUME NEW e \in Entries(r), e.id >= nextId PROVE e.action # "summarize" /\ Newest(s, r)
  <2>1. r # s
    BY <1>3, <1>8
  <2>2. e.id \in F
    BY <1>3, <1>6, <1>8 DEF Kin
  <2>. QED
    BY <1>5, <2>1, <2>2 DEF Acts
<1>9. Done(r, asks) \in Branch /\ Fits(Done(r, asks), i)
  BY <1>1, <1>5, <1>7, <1>8, AfterSnapshot DEF Acts
<1>10. ~Holds(Done(r, asks))
  BY <1>8 DEF Holds, Done
<1>. QED
  BY <1>9, <1>10

\* A branch that leaves no stack.
LEMMA EmptyBranches ==
    ASSUME NEW b, \/ b = Waiting \/ b = Silent \/ b = [Waiting EXCEPT !.state = "reserved"]
    PROVE  /\ b \in Branch /\ b.state \in BranchStates /\ b.state # "done"
           /\ b.memory = <<>> /\ b.memory \in Seq(Entry)
           /\ Holds(b) => b.state = "reserved"
           /\ b = Waiting => b.state = "waiting"
           /\ b = Silent => b.state = "silent"
<1>1. <<>> \in Seq(Entry) /\ Entries(<<>>) = {}
  BY DEF Entries
<1>2. /\ b.memory = <<>> /\ b.state \in {"waiting", "silent", "reserved"}
      /\ b = Waiting => b.state = "waiting"
      /\ b = Silent => b.state = "silent"
  BY DEF Silent, Waiting
<1>3. b \in Branch
  <2>1. PICK m \in Seq(Entry) : m = <<>>
    BY <1>1
  <2>2. Waiting = [state |-> "waiting", asks |-> FALSE, memory |-> m]
    BY <2>1 DEF Waiting
  <2>3. Waiting \in Branch
    BY <2>2 DEF Branch, BranchStates
  <2>. HIDE DEF Waiting
  <2>4. Silent \in Branch /\ [Waiting EXCEPT !.state = "reserved"] \in Branch
    BY <2>3 DEF Silent, Branch, BranchStates
  <2>. QED
    BY <2>3, <2>4
<1>4. Holds(b) => b.state = "reserved"
  BY <1>1, <1>2 DEF Holds
<1>. QED
  BY <1>1, <1>2, <1>3, <1>4 DEF BranchStates

\* The action that is executed fits, whatever the router makes of it.
LEMMA ExecuteKeeps ==
    ASSUME MemoryInv, NEW i \in DOMAIN branches, NEW type \in Calls, Execute(i, type)
    PROVE  MemoryInv'
<1>1. PICK s : s = MaintainSize(memory)
  OBVIOUS
<1>2. /\ phase = "tools" /\ type # "SUMMARIZE" /\ reserved' = reserved /\ reserved \in BOOLEAN
      /\ UNCHANGED <<memory, question, phase, run, nextId>>
  BY DEF Execute, MemoryInv, StackTypeOK
<1>3. CASE branches' = [branches EXCEPT ![i] = Silent]
  <2>1. /\ Silent \in Branch /\ Silent.state = "silent" /\ Silent.memory = <<>>
        /\ ~Holds(Silent)
    BY EmptyBranches
  <2>2. Fits(Silent, i)
    BY <2>1, BranchFits DEF Fits
  <2>. QED
    BY <1>2, <1>3, <2>1, <2>2, CallSteps
<1>4. ASSUME NEW r, NEW asks \in BOOLEAN, Leaves(s, r, {First(i), First(i) + 1}),
             branches' = [branches EXCEPT ![i] = Done(r, asks)]
      PROVE  MemoryInv'
  <2>1. /\ Done(r, asks) \in Branch /\ Fits(Done(r, asks), i) /\ ~Holds(Done(r, asks))
    BY <1>1, <1>4, LeavesFits
  <2>. QED
    BY <1>2, <1>4, <2>1, CallSteps
<1>5. CASE branches' = [branches EXCEPT ![i] = Done(s, FALSE)]
  BY <1>4, <1>5 DEF Leaves
<1>6. ASSUME NEW r \in Results(type, s, First(i), First(i) + 1),
             branches' = [branches EXCEPT ![i] = Done(r, type = "ASK_HUMAN")]
      PROVE  MemoryInv'
  <2>1. Called(s, First(i), First(i) + 1)
    BY <1>1, Snapshot
  <2>2. Leaves(s, r, {First(i), First(i) + 1})
    BY <1>2, <2>1, ResultsLeave
  <2>3. (type = "ASK_HUMAN") \in BOOLEAN
    OBVIOUS
  <2>. QED
    BY <1>4, <1>6, <2>2, <2>3
<1>. QED
  BY <1>1, <1>3, <1>5, <1>6 DEF Execute

\* A call that reserves the summary is the only one, one that is turned away leaves nothing.
LEMMA ReserveKeeps ==
    ASSUME MemoryInv, NEW i \in DOMAIN branches, Reserve(i)
    PROVE  MemoryInv'
<1>1. PICK b : b = IF reserved \/ ~CanSummarize(MaintainSize(memory)) THEN Silent
                   ELSE [Waiting EXCEPT !.state = "reserved"]
  OBVIOUS
<1>2. /\ phase = "tools" /\ reserved' = TRUE
      /\ branches' = [branches EXCEPT ![i] = b]
      /\ UNCHANGED <<memory, question, phase, run, nextId>>
  BY <1>1 DEF Reserve
<1>3. /\ b \in Branch /\ b.memory = <<>> /\ b.state # "done"
      /\ b.state = "reserved" => ~reserved
      /\ Holds(b) => b.state = "reserved"
  <2>1. b = Silent \/ (b = [Waiting EXCEPT !.state = "reserved"] /\ ~reserved)
    BY <1>1
  <2>2. Silent.state # "reserved"
    BY EmptyBranches
  <2>. QED
    BY <2>1, <2>2, EmptyBranches
<1>4. Fits(b, i)
  BY <1>3, BranchFits DEF Fits
<1>5. Holds(b) => ~reserved
  BY <1>3
<1>. QED
  BY <1>2, <1>3, <1>4, <1>5, CallSteps

\* The holder adds the turn's summary, or gives the reservation back.
LEMMA ExecuteSummarizeKeeps ==
    ASSUME MemoryInv, NEW i \in DOMAIN branches, ExecuteSummarize(i)
    PROVE  MemoryInv'
<1>1. PICK s : s = MaintainSize(memory)
  OBVIOUS
<1>2. PICK r \in Summarized(s, First(i)) :
          branches' = [branches EXCEPT ![i] = Done(r, FALSE)] /\ reserved' = (r # s)
  BY <1>1 DEF ExecuteSummarize, Results
<1>3. /\ phase = "tools" /\ Holds(branches[i])
      /\ UNCHANGED <<memory, question, phase, run, nextId>>
  BY DEF ExecuteSummarize, Holds
<1>4. CASE r = s
  <2>1. Done(r, FALSE) \in Branch /\ Fits(Done(r, FALSE), i) /\ ~Holds(Done(r, FALSE))
    BY <1>1, <1>4, LeavesFits DEF Leaves
  <2>. QED
    BY <1>2, <1>3, <1>4, <2>1, CallSteps
<1>5. CASE r # s
  <2>1. /\ Called(s, First(i), First(i) + 1) /\ Stack(s)
        /\ \A e \in Entries(s) : e.id < nextId
        /\ \A x \in Lineage(s) : x < nextId
        /\ nextId \in Nat /\ nextId =< First(i)
    BY <1>1, Snapshot DEF Called
  <2>2. Grown(s, r, {First(i)}) /\ Newest(s, r) /\ \A x \in Lineage(r) : x < nextId
    BY <1>5, <2>1, SummarizingLeaves
  <2>3. \A e \in Entries(r) : e.id = First(i) \/ \E d \in Entries(s) : e.id = d.id
    BY <2>2 DEF Grown, Kin
  <2>4. \A e \in Entries(r) : e.id >= nextId => e.id = First(i)
    BY <2>1, <2>3, EntryIds
  <2>5. {First(i)} \subseteq {First(i), First(i) + 1}
    OBVIOUS
  <2>6. Done(r, FALSE) \in Branch /\ Fits(Done(r, FALSE), i)
    BY <1>1, <2>2, <2>4, <2>5, AfterSnapshot
  <2>7. reserved' = TRUE
    BY <1>2, <1>5
  <2>. QED
    BY <1>2, <1>3, <2>6, <2>7, CallSteps
<1>. QED
  BY <1>4, <1>5

\* The calls of a message begin with nothing done.
LEMMA EmitKeeps ==
    ASSUME MemoryInv, NEW n \in 1..MaxBatch, Emit(n)
    PROVE  MemoryInv'
<1>1. /\ nextId + 2 * n - 1 =< MaxId /\ phase' = "tools"
      /\ UNCHANGED <<memory, question, reserved, run, nextId>>
  BY DEF Emit
<1>2. PICK bs : bs = branches' /\ bs = [i \in 1..n |-> Waiting]
  BY DEF Emit
<1>3. MaxBatch \in Nat /\ MaxId \in Nat /\ nextId \in Nat /\ nextId > 0
  BY MemoryIsSound, TaskMemoryAssumption
<1>4. /\ Waiting \in Branch /\ Waiting.state = "waiting" /\ Waiting.memory = <<>>
      /\ Waiting.state \in BranchStates /\ Waiting.memory \in Seq(Entry) /\ ~Holds(Waiting)
  BY EmptyBranches
<1>5. n \in Nat /\ n > 0
  BY <1>3
<1>6. /\ bs \in Seq(Branch) /\ DOMAIN bs = 1..n /\ bs # <<>>
      /\ \A i \in 1..n : bs[i] = Waiting
  <2>1. bs \in Seq(Branch) /\ Len(bs) = n
    BY <1>2, <1>4, <1>5
  <2>. QED
    BY <1>2, <1>5, <2>1
<1>7. \A i \in 1..n : First(i) + 1 \in 1..MaxId
  <2>1. SUFFICES ASSUME NEW i \in 1..n PROVE First(i) + 1 \in 1..MaxId
    OBVIOUS
  <2>2. 2 * (i - 1) \in Nat /\ 2 * (i - 1) + 1 =< 2 * n - 1 /\ 2 * n - 1 \in Nat
    BY <1>5
  <2>3. PICK p \in Nat, q \in Nat : p = 2 * (i - 1) /\ q = 2 * n - 1
    BY <2>2
  <2>4. nextId + q =< MaxId
    BY <1>1, <1>3, <1>5, <2>3
  <2>. QED
    BY <1>3, <2>2, <2>3, <2>4 DEF First
<1>8. \A i \in 1..n : Fits(bs[i], i) /\ ~Holds(bs[i])
  BY <1>4, <1>6, <1>7 DEF Fits
<1>9. StackTypeOK'
  <2>1. \A i \in 1..n : bs[i].state \in BranchStates /\ bs[i].memory \in Seq(Entry)
    BY <1>4, <1>6
  <2>. QED
    BY <1>1, <1>2, <1>6, <2>1 DEF MemoryInv, StackTypeOK
<1>10. Sound(memory, nextId)' /\ nextId' > 0
  BY <1>1 DEF MemoryInv
<1>11. \A i \in DOMAIN branches' : Fits(branches[i], i)' /\ ~Holds(branches[i])'
  BY <1>1, <1>2, <1>6, <1>8 DEF Fits, First, Holds
<1>. QED
  BY <1>2, <1>6, <1>9, <1>10, <1>11 DEF MemoryInv

\* A run that is abandoned leaves the memory as it was.
LEMMA AbandonKeeps ==
    ASSUME MemoryInv, Abandon
    PROVE  MemoryInv'
<1>1. /\ UNCHANGED <<memory, question, nextId>> /\ branches' = <<>> /\ reserved' = FALSE
      /\ phase' = "idle" /\ run' = run + 1 /\ run < MaxRuns
  BY DEF Abandon
<1>2. Sound(memory, nextId) /\ nextId \in Nat /\ nextId > 0 /\ question \in BOOLEAN
      /\ run \in 1..MaxRuns /\ MaxRuns \in Nat
  BY MemoryIsSound, TaskMemoryAssumption DEF MemoryInv, StackTypeOK
<1>3. Moves
  BY <1>1, <1>2 DEF Moves, Sound, Stack, Clean, Lineage, Entries, Pinned
<1>4. run' \in 1..MaxRuns
  BY <1>1, <1>2
<1>. QED
  BY <1>1, <1>2, <1>3, <1>4, TurnEnds

\* The invariant holds at first, and every step keeps it.
THEOREM MemoryInvariant == StackSpec => []MemoryInv
<1>1. StackInit => MemoryInv
  <2>1. SUFFICES ASSUME StackInit PROVE MemoryInv
    OBVIOUS
  <2>2. <<>> \in Seq(Entry) /\ Entries(<<>>) = {} /\ Lineage(<<>>) = {}
        /\ DOMAIN <<>> = {} /\ <<>> \in Seq(Branch)
    BY DEF Entries, Lineage
  <2>3. MaxRuns \in Nat /\ 1 \in 1..MaxRuns
    BY TaskMemoryAssumption
  <2>4. StackTypeOK
    BY <2>1, <2>2, <2>3 DEF StackInit, StackTypeOK
  <2>5. Sound(memory, nextId) /\ nextId > 0
    BY <2>1, <2>2 DEF StackInit, Sound, Stack, Clean
  <2>. QED
    BY <2>1, <2>2, <2>4, <2>5 DEF StackInit, MemoryInv
<1>2. MemoryInv /\ [StackNext]_stackVars => MemoryInv'
  <2>1. SUFFICES ASSUME MemoryInv, [StackNext]_stackVars PROVE MemoryInv'
    OBVIOUS
  <2>2. /\ question \in BOOLEAN /\ reserved \in BOOLEAN /\ run \in 1..MaxRuns
        /\ phase # "tools" => branches = <<>>
        /\ MaxRuns \in Nat
    BY <2>1, TaskMemoryAssumption DEF MemoryInv, StackTypeOK
  <2>3. CASE \E fresh, answered \in BOOLEAN : NewRun(fresh, answered)
    <3>1. PICK fresh \in BOOLEAN, answered \in BOOLEAN : NewRun(fresh, answered)
      BY <2>3
    <3>2. Moves
      BY <2>1, <3>1, NewRunMoves
    <3>3. /\ phase = "idle" /\ phase' = "model" /\ question' \in BOOLEAN
          /\ UNCHANGED <<branches, reserved, run>>
      BY <3>1 DEF NewRun
    <3>. QED
      BY <2>1, <2>2, <3>2, <3>3, TurnEnds
  <2>4. CASE \E n \in 1..MaxBatch : Emit(n)
    BY <2>1, <2>4, EmitKeeps
  <2>5. ASSUME NEW i \in DOMAIN branches,
               \/ \E type \in Calls : Execute(i, type)
               \/ Reserve(i)
               \/ ExecuteSummarize(i)
        PROVE  MemoryInv'
    BY <2>1, <2>5, ExecuteKeeps, ReserveKeeps, ExecuteSummarizeKeeps
  <2>6. CASE Join
    <3>1. Moves
      BY <2>1, <2>6, JoinMoves
    <3>2. /\ phase' = "model" /\ branches' = <<>> /\ reserved' = FALSE /\ run' = run
          /\ question' = (question \/ \E i \in DOMAIN branches : branches[i].asks)
      BY <2>6 DEF Join
    <3>3. question' \in BOOLEAN
      BY <3>2
    <3>. QED
      BY <2>1, <2>2, <3>1, <3>2, <3>3, TurnEnds
  <2>7. CASE Answer
    <3>1. Moves
      BY <2>1, <2>7, AnswerMoves
    <3>2. phase = "model" /\ phase' = "ending" /\ UNCHANGED <<question, branches, reserved, run>>
      BY <2>7 DEF Answer
    <3>. QED
      BY <2>1, <2>2, <3>1, <3>2, TurnEnds
  <2>8. CASE EndRun
    <3>1. Moves
      BY <2>1, <2>8, EndRunMoves
    <3>2. /\ phase \in {"model", "ending"} /\ phase' = "idle" /\ run < MaxRuns /\ run' = run + 1
          /\ UNCHANGED <<question, branches, reserved>>
      BY <2>8 DEF EndRun
    <3>3. run' \in 1..MaxRuns
      BY <2>2, <3>2
    <3>. QED
      BY <2>1, <2>2, <3>1, <3>2, <3>3, TurnEnds
  <2>9. CASE Abandon
    BY <2>1, <2>9, AbandonKeeps
  <2>10. CASE UNCHANGED stackVars
    <3>1. UNCHANGED <<memory, question, phase, branches, reserved, run, nextId>>
      BY <2>10 DEF stackVars
    <3>2. StackTypeOK'
      BY <2>1, <3>1 DEF MemoryInv, StackTypeOK, Entries
    <3>3. Sound(memory, nextId)'
      BY <2>1, <3>1 DEF MemoryInv, Sound, Stack, Clean, Lineage, Entries
    <3>4. \A i \in DOMAIN branches' : Fits(branches[i], i)'
      BY <2>1, <3>1 DEF MemoryInv, Fits, First
    <3>5. \A i \in DOMAIN branches : Holds(branches[i])' = Holds(branches[i])
      BY <3>1 DEF Holds
    <3>. QED
      BY <2>1, <3>1, <3>2, <3>3, <3>4, <3>5 DEF MemoryInv
  <2>. QED
    BY <2>1, <2>3, <2>4, <2>5, <2>6, <2>7, <2>8, <2>9, <2>10 DEF StackNext
<1>. QED
  BY <1>1, <1>2, PTL DEF StackSpec

-----------------------------------------------------------------------------
(* The theorems *)

\* A memory that moves keeps its pinned entries, and only the calls of a turn leave it alone.
LEMMA MemoryMoves ==
    ASSUME MemoryInv, [StackNext]_stackVars
    PROVE  Moves \/ memory' = memory
<1>1. CASE \E fresh, answered \in BOOLEAN : NewRun(fresh, answered)
  BY <1>1, NewRunMoves
<1>2. CASE Join
  BY <1>2, JoinMoves
<1>3. CASE Answer
  BY <1>3, AnswerMoves
<1>4. CASE EndRun
  BY <1>4, EndRunMoves
<1>5. CASE \E n \in 1..MaxBatch : Emit(n)
  BY <1>5 DEF Emit
<1>6. ASSUME NEW i \in DOMAIN branches,
             (\E type \in Calls : Execute(i, type)) \/ Reserve(i) \/ ExecuteSummarize(i)
      PROVE  memory' = memory
  BY <1>6 DEF Execute, Reserve, ExecuteSummarize
<1>7. CASE Abandon
  BY <1>7 DEF Abandon
<1>8. CASE UNCHANGED stackVars
  BY <1>8 DEF stackVars
<1>. QED
  BY <1>1, <1>2, <1>3, <1>4, <1>5, <1>6, <1>7, <1>8 DEF StackNext

\* What a turn does to the memory, it does at the join.
LEMMA TurnsJoin ==
    ASSUME MemoryInv, [StackNext]_stackVars, phase = "tools"
    PROVE  \/ Join
           \/ memory' = memory /\ phase' # "model"
<1>1. CASE \E fresh, answered \in BOOLEAN : NewRun(fresh, answered)
  BY <1>1 DEF NewRun
<1>2. CASE Answer
  BY <1>2 DEF Answer
<1>3. CASE EndRun
  BY <1>3 DEF EndRun
<1>4. CASE \E n \in 1..MaxBatch : Emit(n)
  BY <1>4 DEF Emit
<1>5. ASSUME NEW i \in DOMAIN branches,
             (\E type \in Calls : Execute(i, type)) \/ Reserve(i) \/ ExecuteSummarize(i)
      PROVE  memory' = memory /\ phase' # "model"
  BY <1>5 DEF Execute, Reserve, ExecuteSummarize
<1>6. CASE Abandon
  BY <1>6 DEF Abandon
<1>7. CASE UNCHANGED stackVars
  BY <1>7 DEF stackVars
<1>. QED
  BY <1>1, <1>2, <1>3, <1>4, <1>5, <1>6, <1>7 DEF StackNext

\* The memory holds entries the stack can hold, each with an identifier of its own below the
\* next one, and the turn has branches only while its calls run.
THEOREM StackIsTyped == StackSpec => []StackTypeOK
<1>1. MemoryInv => StackTypeOK
  BY DEF MemoryInv
<1>. QED
  BY <1>1, MemoryInvariant, PTL

\* What a summary condensed stays out of the working memory, for any calls, bounds and limits:
\* neither a sibling's snapshot nor a restore brings it back.
THEOREM CondensedIsGone == StackSpec => []CondensedStaysOut
<1>1. MemoryInv => CondensedStaysOut
  BY DEF MemoryInv, Sound, Clean, CondensedStaysOut
<1>. QED
  BY <1>1, MemoryInvariant, PTL

\* Pinned human feedback stays in the memory through every step of every run.
THEOREM FeedbackIsKept == StackSpec => FeedbackKept
<1>1. MemoryInv /\ [StackNext]_stackVars
        => [\A e \in Entries(memory) : e.status = "pinned" => e \in Entries(memory')]_stackVars
  <2>1. SUFFICES ASSUME MemoryInv, [StackNext]_stackVars, NEW e \in Entries(memory),
                        e.status = "pinned"
                 PROVE  e \in Entries(memory')
    OBVIOUS
  <2>2. CASE Moves
    BY <2>1, <2>2 DEF Moves, Pinned
  <2>3. CASE memory' = memory
    BY <2>1, <2>3
  <2>. QED
    BY <2>1, <2>2, <2>3, MemoryMoves
<1>. QED
  BY <1>1, MemoryInvariant, PTL DEF StackSpec, FeedbackKept

\* No sibling's new entries are lost at the join, and each sibling's last entry is in view unless
\* pinned feedback fills the stack, whatever order the siblings ran in.
THEOREM SiblingsSurvive == StackSpec => ResultsSurvive
<1>1. ASSUME MemoryInv, Join, NEW i \in DOMAIN branches, NEW s, s = branches[i].memory,
             NEW own, own = {e \in Entries(s) : e.id >= nextId}
      PROVE  /\ own \subseteq Entries(memory')
             /\ own # {} /\ Count(memory, {"pinned"}) < MaxSize => Last(s).status = "active"
  <2>1. JoinedTo(memory', Len(branches)) /\ i \in 1..Len(branches)
    BY <1>1, JoinMoves DEF MemoryInv
  <2>2. own \subseteq Entries(memory')
    BY <1>1, <2>1 DEF JoinedTo
  <2>3. ASSUME NEW e \in own, Count(memory, {"pinned"}) < MaxSize
        PROVE  Last(s).status = "active"
    <3>1. Fits(branches[i], i) /\ e \in Entries(s) /\ e.id >= nextId
      BY <1>1, BranchFits
    <3>2. branches[i].state = "done"
      <4>1. Entries(<<>>) = {}
        BY DEF Entries
      <4>. QED
        BY <1>1, <3>1, <4>1 DEF Fits
    <3>3. Newest(memory, s)
      BY <1>1, <3>1, <3>2 DEF Fits
    <3>4. Cardinality(Pinned(memory)) < MaxSize
      BY <1>1, <2>3, MemoryIsSound, PinnedCount DEF Sound
    <3>. QED
      BY <3>3, <3>4 DEF Newest
  <2>. QED
    BY <2>2, <2>3
<1>. DEFINE Survive == phase = "tools" /\ phase' = "model" =>
        \A i \in DOMAIN branches :
            LET s == branches[i].memory
                own == {e \in Entries(s) : e.id >= nextId}
                pinned == Count(memory, {"pinned"})
            IN  /\ own \subseteq Entries(memory')
                /\ own # {} /\ pinned < MaxSize => Last(s).status = "active"
<1>2. MemoryInv /\ [StackNext]_stackVars => [Survive]_stackVars
  <2>1. SUFFICES ASSUME MemoryInv, [StackNext]_stackVars, phase = "tools", phase' = "model",
                        NEW i \in DOMAIN branches
                 PROVE  LET s == branches[i].memory
                            own == {e \in Entries(s) : e.id >= nextId}
                            pinned == Count(memory, {"pinned"})
                        IN  /\ own \subseteq Entries(memory')
                            /\ own # {} /\ pinned < MaxSize => Last(s).status = "active"
    OBVIOUS
  <2>2. Join
    BY <2>1, TurnsJoin
  <2>. QED
    BY <1>1, <2>1, <2>2
<1>. QED
  BY <1>2, MemoryInvariant, PTL DEF StackSpec, ResultsSurvive

\* A turn commits at most one summary, whichever sibling takes the reservation.
THEOREM OneSummaryATurn == StackSpec => OneSummaryPerTurn
<1>. DEFINE fresh == {e \in {d \in Entries(memory') : d.action = "summarize"} : e.id >= nextId}
<1>1. ASSUME MemoryInv, memory' = memory PROVE Cardinality(fresh) =< 1
  <2>1. Sound(memory, nextId) /\ nextId \in Nat
    BY <1>1, MemoryIsSound
  <2>2. \A e \in Entries(memory) : e.id \in Nat /\ e.id < nextId
    BY <2>1, EntryIds DEF Sound
  <2>3. fresh = {}
    BY <1>1, <2>1, <2>2
  <2>. QED
    BY <2>3, FS_EmptySet
<1>2. ASSUME MemoryInv, Join PROVE Cardinality(fresh) =< 1
  <2>1. /\ JoinedTo(memory', Len(branches)) /\ Sound(memory, nextId) /\ nextId \in Nat
        /\ DOMAIN branches = 1..Len(branches)
    BY <1>2, JoinMoves, MemoryIsSound DEF MemoryInv
  <2>2. \A e \in Entries(memory) : ~(e.id >= nextId)
    BY <2>1, EntryIds DEF Sound
  <2>3. ASSUME NEW e \in fresh
        PROVE  \E i \in DOMAIN branches : Holds(branches[i]) /\ e.id = First(i)
    <3>1. PICK i \in DOMAIN branches : e \in Entries(branches[i].memory)
      BY <2>1, <2>2 DEF JoinedTo
    <3>2. Holds(branches[i])
      BY <3>1 DEF Holds
    <3>3. branches[i].state = "done"
      <4>1. Fits(branches[i], i) /\ Entries(<<>>) = {}
        BY <1>2, BranchFits DEF Entries
      <4>. QED
        BY <3>1, <4>1 DEF Fits
    <3>4. e.id = First(i)
      BY <1>2, <3>1, <3>3, BranchFits DEF Fits
    <3>. QED
      BY <3>2, <3>4
  <2>4. \A e, d \in fresh : e.id = d.id
    BY <1>2, <2>3 DEF MemoryInv
  <2>5. \A e, d \in fresh : e = d
    <3>1. Stack(memory')
      BY <2>1 DEF JoinedTo
    <3>. QED
      BY <2>4, <3>1 DEF Stack, Entries
  <2>. HIDE DEF fresh
  <2>6. CASE fresh = {}
    BY <2>6, FS_EmptySet
  <2>7. CASE fresh # {}
    <3>1. PICK e : fresh = {e}
      BY <2>5, <2>7
    <3>2. Cardinality({e}) = 1
      BY FS_Singleton
    <3>. QED
      BY <3>1, <3>2
  <2>. QED
    BY <2>6, <2>7
<1>. DEFINE One == phase = "tools" =>
                LET summaries == {e \in Entries(memory') : e.action = "summarize"}
                IN  Cardinality({e \in summaries : e.id >= nextId}) =< 1
<1>3. MemoryInv /\ [StackNext]_stackVars => [One]_stackVars
  <2>1. SUFFICES ASSUME MemoryInv, [StackNext]_stackVars, phase = "tools"
                 PROVE  Cardinality(fresh) =< 1
    OBVIOUS
  <2>. HIDE DEF fresh
  <2>. QED
    BY <1>1, <1>2, <2>1, TurnsJoin
<1>. QED
  BY <1>3, MemoryInvariant, PTL DEF StackSpec, OneSummaryPerTurn

=============================================================================
