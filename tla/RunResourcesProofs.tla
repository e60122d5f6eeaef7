-------------------------- MODULE RunResourcesProofs --------------------------
(* What a run holds while it works: the stream of its events and the sandbox  *)
(* of its thread.  The stream implements EventLog, for any set of clients and *)
(* any buffer size; a sandbox is in one place at a time and its container is  *)
(* never forgotten, for any set of threads and any size of the pool.          *)
EXTENDS StreamBridge, SandboxPool, FiniteSetTheorems, WellFoundedInduction, SequenceTheorems, TLAPS

-----------------------------------------------------------------------------
(* The stream *)


\* What the worker does keeps the invariant.
LEMMA WorkerKeeps ==
  ASSUME BridgeInv, Publish \/ PublishEnd \/ Cleanup
  PROVE  BridgeInv'
<1> USE BridgeAssumption DEF BridgeInv, TypeOK, SeqIsOffset, OneWriter, TrimmedIsFull, Objects,
                             clients, objects
<1>1. CASE Publish
  <2>1. Stream = 1
    BY <1>1 DEF Publish, Stream
  <2>2. /\ current' = 1 /\ created' = 1 /\ worker = "publishing" /\ UNCHANGED <<ended, clients>>
        /\ worker' = worker /\ counter' = [counter EXCEPT ![1] = @ + 1]
    BY <1>1, <2>1 DEF Publish, Register
  <2> DEFINE n == IF len[1] + 1 > MaxSize THEN len[1] + 1 - MaxSize ELSE 0
  <2>3. /\ len' = [len EXCEPT ![1] = @ + 1 - n]
        /\ start' = [start EXCEPT ![1] = @ + n]
    BY <1>1, <2>1 DEF Publish, TrimmedStart
  <2>4. len[1] \in Nat /\ len[1] <= MaxSize
    OBVIOUS
  <2>5. \/ n = 0 /\ len[1] < MaxSize
        \/ n = 1 /\ len[1] = MaxSize
    BY ONLY <2>4, BridgeAssumption
  <2> HIDE DEF n
  <2>6. TypeOK'
    BY <2>2, <2>3, <2>5
  <2>7. SeqIsOffset' /\ TrimmedIsFull'
    BY <2>2, <2>3, <2>5
  <2>8. OneWriter'
    BY <2>2, <2>3, <2>5
  <2>9. \A c \in Clients : ClientInv(c)'
    BY <2>2 DEF ClientInv, Caught, Idle
  <2> QED BY <2>6, <2>7, <2>8, <2>9
<1>2. CASE PublishEnd
  <2>1. Stream = 1
    BY <1>2 DEF PublishEnd, Stream
  <2>2. /\ worker' = "ended" /\ current' = 1 /\ created' = 1 /\ ended' = [ended EXCEPT ![1] = TRUE]
        /\ UNCHANGED <<counter, start, len, clients>>
    BY <1>2, <2>1 DEF PublishEnd, Register
  <2>3. TypeOK' /\ SeqIsOffset' /\ OneWriter' /\ TrimmedIsFull'
    BY <2>2
  <2>4. \A c \in Clients : ClientInv(c)'
    BY <2>2 DEF ClientInv, Caught, Idle
  <2> QED BY <2>3, <2>4
<1>3. CASE Cleanup
  BY <1>3 DEF Cleanup, ClientInv, Caught, Idle
<1> QED BY <1>1, <1>2, <1>3

\* A step of one client changes nothing of another, so its own part decides.
LEMMA ClientStep ==
  ASSUME BridgeInv, NEW c \in Clients,
         UNCHANGED <<worker, counter, start, len, ended>>, TypeOK', OneWriter', ClientInv(c)',
         \A d \in Clients \ {c} : /\ conn'[d] = conn[d] /\ on'[d] = on[d] /\ next'[d] = next[d]
                                  /\ hand'[d] = hand[d] /\ held'[d] = held[d] /\ seen'[d] = seen[d]
  PROVE  BridgeInv'
<1>1. SeqIsOffset' /\ TrimmedIsFull'
  BY DEF BridgeInv, SeqIsOffset, TrimmedIsFull
<1>2. ASSUME NEW d \in Clients PROVE ClientInv(d)'
  <2>1. CASE d = c
    BY <2>1
  <2>2. CASE d # c
    BY <2>2 DEF BridgeInv, ClientInv, Caught, Idle
  <2> QED BY <2>1, <2>2
<1> QED BY <1>1, <1>2 DEF BridgeInv

\* What a client does keeps the invariant.
LEMMA ClientKeeps ==
  ASSUME BridgeInv, NEW c \in Clients, Subscribe(c) \/ Client(c) \/ Disconnect(c)
  PROVE  BridgeInv'
<1> TypeOK /\ OneWriter /\ ClientInv(c)
  BY DEF BridgeInv
<1> USE BridgeAssumption DEF TypeOK, OneWriter, Objects, objects
<1>1. CASE Subscribe(c)
  <2>1. /\ Stream \in Objects
        /\ worker # "cleaned" => Stream = 1
        /\ worker = "cleaned" => Stream = 2
    BY <1>1 DEF Subscribe, Stream
  <2>2. Resolve(Stream, c) \in Nat
    BY <2>1 DEF Resolve
  <2>3. TypeOK'
    BY <1>1, <2>1, <2>2 DEF Subscribe, Register
  <2>4. OneWriter'
    BY <1>1, <2>1 DEF Subscribe, Register
  <2>5. Stream = 2 => Resolve(Stream, c) = 0
    BY DEF Resolve
  <2>6. Stream = 1 => Resolve(1, c) <= counter[1] /\ Caught(c, Resolve(1, c))
    <3>1. counter[1] = start[1] + len[1] /\ (start[1] > 0 => len[1] = MaxSize)
      BY DEF BridgeInv, SeqIsOffset, TrimmedIsFull
    <3>2. seen[c] <= counter[1] /\ seen[c] \in Nat /\ start[1] \in Nat /\ len[1] \in 0..MaxSize
      BY DEF ClientInv
    <3>3. CASE seen[c] > 0 /\ seen[c] - 1 >= start[1]
      BY <3>1, <3>2, <3>3 DEF Resolve, Caught, SeqAt
    <3>4. CASE ~(seen[c] > 0 /\ seen[c] - 1 >= start[1])
      BY <3>1, <3>2, <3>4 DEF Resolve, Caught
    <3> QED BY <3>3, <3>4
  <2>7. ClientInv(c)'
    BY <1>1, <2>1, <2>5, <2>6 DEF Subscribe, ClientInv, Caught, Idle
  <2> QED BY <1>1, <2>3, <2>4, <2>7, ClientStep DEF Subscribe
<1>2. CASE Take(c)
  <2>1. on[c] = 1
    BY <1>2 DEF Take, Idle, ClientInv, Reading
  <2>2. counter[1] = start[1] + len[1] /\ (start[1] > 0 => len[1] = MaxSize)
    BY DEF BridgeInv, SeqIsOffset, TrimmedIsFull
  <2>3. /\ Reading(c) \in Nat /\ start[1] <= Reading(c) /\ Reading(c) < counter[1]
        /\ SeqAt(1, Reading(c) - start[1]) = Reading(c)
    BY <1>2, <2>1, <2>2 DEF Take, Reading, SeqAt
  <2>4. Caught(c, Reading(c))
    BY <1>2, <2>1, <2>2, <2>3 DEF Take, Reading, Idle, ClientInv, Caught
  <2>5. TypeOK' /\ OneWriter'
    BY <1>2, <2>1, <2>3 DEF Take
  <2>6. ClientInv(c)'
    BY <1>2, <2>1, <2>3, <2>4 DEF Take, ClientInv, Caught, Idle
  <2> QED BY <1>2, <2>5, <2>6, ClientStep DEF Take
<1>3. CASE TakeEnd(c)
  <2>1. on[c] = 1 /\ ended[1]
    BY <1>3 DEF TakeEnd, AtEnd
  <2>2. counter[1] = start[1] + len[1] /\ (start[1] > 0 => len[1] = MaxSize)
    BY DEF BridgeInv, SeqIsOffset, TrimmedIsFull
  <2>3. seen[c] = counter[1]
    BY <1>3, <2>1, <2>2 DEF TakeEnd, AtEnd, Reading, Idle, ClientInv, Caught
  <2>4. TypeOK' /\ OneWriter'
    BY <1>3 DEF TakeEnd
  <2>5. ClientInv(c)'
    BY <1>3, <2>1, <2>3 DEF TakeEnd, ClientInv, Caught, Idle
  <2> QED BY <1>3, <2>4, <2>5, ClientStep DEF TakeEnd
<1>4. CASE ReceiveEvent(c)
  <2>1. TypeOK' /\ OneWriter'
    BY <1>4 DEF ReceiveEvent
  <2>2. ClientInv(c)'
    BY <1>4 DEF ReceiveEvent, ClientInv, Caught, Idle
  <2> QED BY <1>4, <2>1, <2>2, ClientStep DEF ReceiveEvent
<1>5. CASE ReceiveEnd(c)
  <2>1. TypeOK' /\ OneWriter'
    BY <1>5 DEF ReceiveEnd
  <2>2. ClientInv(c)'
    BY <1>5 DEF ReceiveEnd, ClientInv, Caught, Idle
  <2> QED BY <1>5, <2>1, <2>2, ClientStep DEF ReceiveEnd
<1>6. CASE Disconnect(c)
  <2>1. TypeOK' /\ OneWriter'
    BY <1>6 DEF Disconnect
  <2>2. ClientInv(c)'
    BY <1>6 DEF Disconnect, ClientInv, Caught, Idle
  <2> QED BY <1>6, <2>1, <2>2, ClientStep DEF Disconnect
<1> QED BY <1>1, <1>2, <1>3, <1>4, <1>5, <1>6 DEF Client

LEMMA BridgeInvariant == Spec => []BridgeInv
<1>1. Init => BridgeInv
  BY BridgeAssumption DEF Init, BridgeInv, TypeOK, SeqIsOffset, OneWriter, TrimmedIsFull, Objects,
     ClientInv, Caught, Idle
<1>2. BridgeInv /\ [Next]_vars => BridgeInv'
  <2> SUFFICES ASSUME BridgeInv, [Next]_vars PROVE BridgeInv'
    OBVIOUS
  <2>1. CASE Next
    BY <2>1, WorkerKeeps, ClientKeeps DEF Next
  <2>2. CASE UNCHANGED vars
    BY <2>2 DEF vars, objects, clients, BridgeInv, TypeOK, SeqIsOffset, OneWriter, TrimmedIsFull,
       ClientInv, Caught, Idle
  <2> QED BY <2>1, <2>2
<1> QED BY <1>1, <1>2, PTL DEF Spec

\* Event ids are absolute offsets: the arithmetic of _resolve_start_offset is right for
\* every buffer size and any number of trims.
THEOREM OffsetsAreSeqs == Spec => []SeqIsOffset
<1>1. BridgeInv => SeqIsOffset
  BY DEF BridgeInv
<1> QED BY <1>1, BridgeInvariant, PTL

\* No client is handed an event it has already seen, whenever it disconnected and came back.
THEOREM ResumesAfterLastEvent == Spec => []NothingTwice
<1>1. BridgeInv => NothingTwice
  BY DEF BridgeInv, ClientInv, Caught, NothingTwice
<1> QED BY <1>1, BridgeInvariant, PTL

\* The bridge implements the event log.
THEOREM ImplementsLog == Spec => LogSpec
<1> USE DEF Log!logVars
<1>1. Init => Log!LogInit
  BY DEF Init, Log!LogInit, Objects
<1>2. BridgeInv /\ [Next]_vars => [Log!LogNext]_(Log!logVars)
  <2> SUFFICES ASSUME BridgeInv, Next PROVE Log!LogNext \/ UNCHANGED Log!logVars
    BY DEF vars, objects, clients
  <2> TypeOK /\ OneWriter
    BY DEF BridgeInv
  <2> USE DEF TypeOK, OneWriter, Objects, objects, clients
  <2>1. CASE Publish
    <3>1. Stream = 1
      BY <2>1 DEF Publish, Stream
    <3>2. counter'[1] = counter[1] + 1 /\ ~ended[1] /\ UNCHANGED <<ended, seen, conn>>
      BY <2>1, <3>1 DEF Publish
    <3> QED BY <3>2 DEF Log!LogNext, Log!Append
  <2>2. CASE PublishEnd
    <3>1. Stream = 1
      BY <2>2 DEF PublishEnd, Stream
    <3>2. ended'[1] = TRUE /\ ended[1] = FALSE /\ UNCHANGED <<counter, seen, conn>>
      BY <2>2, <3>1 DEF PublishEnd
    <3> QED BY <3>2 DEF Log!LogNext, Log!Close
  <2>3. CASE Cleanup
    BY <2>3 DEF Cleanup
  <2>4. ASSUME NEW c \in Clients, Subscribe(c) \/ Take(c) \/ TakeEnd(c) \/ Disconnect(c)
        PROVE  UNCHANGED Log!logVars
    <3>1. UNCHANGED <<counter, ended, seen>>
      BY <2>4 DEF Subscribe, Take, TakeEnd, Disconnect
    <3>2. \A d \in Clients : conn'[d] = "ended" <=> conn[d] = "ended"
      BY <2>4 DEF Subscribe, Take, TakeEnd, Disconnect
    <3> QED BY <3>1, <3>2
  <2>5. ASSUME NEW c \in Clients, ReceiveEvent(c) PROVE Log!Deliver(c)
    <3>1. conn[c] = "open" /\ held[c] < counter[1] /\ Caught(c, held[c])
      BY <2>5 DEF ReceiveEvent, BridgeInv, ClientInv
    <3>2. /\ held[c] \in seen[c]..(counter[1] - 1)
          /\ seen[c] < held[c] => held[c] + MaxSize <= counter[1]
      BY <3>1 DEF Caught
    <3>3. seen' = [seen EXCEPT ![c] = held[c] + 1] /\ UNCHANGED <<counter, ended, conn>>
      BY <2>5 DEF ReceiveEvent
    <3> QED BY <3>1, <3>2, <3>3 DEF Log!Deliver
  <2>6. ASSUME NEW c \in Clients, ReceiveEnd(c) PROVE Log!Inform(c)
    <3>1. conn[c] = "open" /\ ended[1] /\ seen[c] = counter[1]
      BY <2>6 DEF ReceiveEnd, BridgeInv, ClientInv
    <3>2. conn' = [conn EXCEPT ![c] = "ended"] /\ UNCHANGED <<counter, ended, seen>>
      BY <2>6 DEF ReceiveEnd
    <3>3. {d \in Clients : conn'[d] = "ended"} = {d \in Clients : conn[d] = "ended"} \cup {c}
      BY <3>2
    <3> QED BY <3>1, <3>2, <3>3 DEF Log!Inform
  <2> QED BY <2>1, <2>2, <2>3, <2>4, <2>5, <2>6 DEF Next, Client, Log!LogNext
<1> QED BY <1>1, <1>2, BridgeInvariant, PTL DEF Spec, LogSpec, Log!LogSpec

-----------------------------------------------------------------------------
(* The sandbox: induction over the numbers *)


Less == {pair \in Nat \X Nat : pair[1] < pair[2]}

\* A set of numbers that is not empty has a least one: induction, for a first-order prover.
LEMMA Least ==
    ASSUME NEW T, T \subseteq Nat, T # {}
    PROVE  \E m \in T : \A n \in T : m =< n
<1>1. IsWellFoundedOn(Less, Nat)
  BY NatLessThanWellFounded DEF OpToRel, Less
<1>2. PICK m \in T : \A n \in T : <<n, m>> \notin Less
  BY <1>1, WFMin
<1>3. \A n \in T : n \in Nat /\ <<n, m>> \in Nat \X Nat
  OBVIOUS
<1>4. \A n \in T : ~(n < m)
  BY <1>2, <1>3 DEF Less
<1>. QED
  BY <1>4

-----------------------------------------------------------------------------
(* The entries of the pool *)

\* A pool has one entry for each thread.
Unique(s) == s \in Seq(Info) /\ \A j, l \in DOMAIN s : s[j].id = s[l].id => j = l

\* The domain of a pool.
LEMMA UniqueDomain ==
    ASSUME NEW s, Unique(s)
    PROVE  Len(s) \in Nat /\ DOMAIN s = 1..Len(s) /\ ToSet(s) \subseteq Info
BY DEF Unique, ToSet

\* An entry for a thread that has none goes to the end.
LEMMA Parked ==
    ASSUME NEW s, Unique(s), NEW i \in Info, \A e \in ToSet(s) : e.id # i.id
    PROVE  Unique(Append(s, i)) /\ ToSet(Append(s, i)) = ToSet(s) \cup {i}
<1>1. PICK n \in Nat : n = Len(s) /\ DOMAIN s = 1..n
  BY UniqueDomain
<1>2. PICK u : u = Append(s, i)
  OBVIOUS
<1>3. /\ u \in Seq(Info) /\ Len(u) = n + 1 /\ u[n + 1] = i
      /\ \A j \in 1..n : u[j] = s[j]
  BY <1>1, <1>2, AppendProperties DEF Unique
<1>4. DOMAIN u = 1..(n + 1) /\ \A j \in 1..(n + 1) : j \in 1..n \/ j = n + 1
  BY <1>3
<1>5. \A j \in 1..n : s[j] \in ToSet(s)
  BY <1>1 DEF ToSet
<1>6. Unique(u)
  <2>1. \A j, l \in 1..n : s[j].id = s[l].id => j = l
    BY <1>1 DEF Unique
  <2>. QED
    BY <1>3, <1>4, <1>5, <2>1 DEF Unique
<1>7. ToSet(u) = ToSet(s) \cup {i}
  <2>1. ASSUME NEW e \in ToSet(u) PROVE e \in ToSet(s) \cup {i}
    BY <1>3, <1>4, <1>5 DEF ToSet
  <2>2. ASSUME NEW e \in ToSet(s) PROVE e \in ToSet(u)
    BY <1>1, <1>3, <1>4 DEF ToSet
  <2>3. i \in ToSet(u)
    BY <1>3, <1>4 DEF ToSet
  <2>. QED
    BY <2>1, <2>2, <2>3
<1>. QED
  BY <1>2, <1>6, <1>7

\* The oldest entry leaves the pool.
LEMMA Oldest ==
    ASSUME NEW s, Unique(s), s # <<>>
    PROVE  /\ Unique(Tail(s)) /\ Head(s) \in Info /\ Head(s) \in ToSet(s)
           /\ ToSet(Tail(s)) = {e \in ToSet(s) : e.id # Head(s).id}
           /\ \A e \in ToSet(s) : e = Head(s) \/ e \in ToSet(Tail(s))
<1>1. PICK n \in Nat : n = Len(s) /\ DOMAIN s = 1..n
  BY UniqueDomain
<1>2. PICK u, h : u = Tail(s) /\ h = Head(s)
  OBVIOUS
<1>3. n > 0 /\ h = s[1] /\ h \in Info
  BY <1>1, <1>2 DEF Unique
<1>4. /\ u \in Seq(Info) /\ Len(u) = n - 1
      /\ \A j \in 1..(n - 1) : u[j] = s[j + 1]
  BY <1>1, <1>2, <1>3 DEF Unique
<1>5. n - 1 \in Nat /\ DOMAIN u = 1..(n - 1)
  BY <1>3, <1>4
<1>6. h \in ToSet(s)
  BY <1>1, <1>3 DEF ToSet
<1>7. Unique(u)
  <2>1. ASSUME NEW j \in 1..(n - 1), NEW l \in 1..(n - 1), u[j].id = u[l].id PROVE j = l
    <3>1. j + 1 \in 1..n /\ l + 1 \in 1..n /\ s[j + 1].id = s[l + 1].id
      BY <1>4, <2>1
    <3>2. j + 1 = l + 1
      BY <1>1, <3>1 DEF Unique
    <3>. QED
      BY <3>2
  <2>. QED
    BY <1>4, <1>5, <2>1 DEF Unique
<1>8. ASSUME NEW e \in ToSet(u) PROVE e \in ToSet(s) /\ e.id # h.id
  <2>1. PICK j \in 1..(n - 1) : e = s[j + 1]
    BY <1>4, <1>5 DEF ToSet
  <2>2. j + 1 \in 1..n /\ 1 \in 1..n /\ j + 1 # 1
    BY <1>3
  <2>. QED
    BY <1>1, <1>3, <2>1, <2>2 DEF Unique, ToSet
<1>9. ASSUME NEW e \in ToSet(s) PROVE e = h \/ e \in ToSet(u)
  <2>1. PICK j \in 1..n : e = s[j]
    BY <1>1 DEF ToSet
  <2>2. CASE j = 1
    BY <1>3, <2>1, <2>2
  <2>3. CASE j # 1
    <3>1. j - 1 \in 1..(n - 1) /\ (j - 1) + 1 = j
      BY <2>3
    <3>2. u[j - 1] = e
      BY <1>4, <2>1, <3>1
    <3>. QED
      BY <1>5, <3>1, <3>2 DEF ToSet
  <2>. QED
    BY <2>2, <2>3
<1>. QED
  BY <1>2, <1>3, <1>6, <1>7, <1>8, <1>9

\* One step of Entries.
Selected(s, S, k, x) == IF s[k].id \in S THEN Append(x, s[k]) ELSE x

\* The function of Entries exists.
LEMMA Selections ==
    ASSUME NEW s, NEW S, NEW n \in Nat
    PROVE  \E f : f = [k \in 0..n |-> IF k = 0 THEN <<>> ELSE Selected(s, S, k, f[k - 1])]
<1>. DEFINE From(k, x) == Selected(s, S, k, x)
            Exists(i) == \E f : f = [k \in 0..i |-> IF k = 0 THEN <<>> ELSE From(k, f[k - 1])]
            T == {i \in Nat : ~Exists(i)}
<1>. HIDE DEF From
<1>1. Exists(n)
  <2>1. SUFFICES ASSUME T # {} PROVE FALSE
    BY <2>1
  <2>2. PICK m \in Nat : ~Exists(m) /\ \A i \in Nat : ~Exists(i) => m =< i
    <3>1. T \subseteq Nat
      OBVIOUS
    <3>2. \E m \in T : \A i \in T : m =< i
      <4>. HIDE DEF T
      <4>. QED
        BY <2>1, <3>1, Least
    <3>. HIDE DEF Exists
    <3>. QED
      BY <3>2
  <2>3. CASE m = 0
    <3>. DEFINE f == [k \in 0..0 |-> <<>>]
    <3>1. f = [k \in 0..0 |-> IF k = 0 THEN <<>> ELSE From(k, f[k - 1])]
      BY DEF f
    <3>. QED
      BY <2>2, <2>3, <3>1
  <2>4. CASE m # 0
    <3>1. m - 1 \in Nat /\ ~(m =< m - 1)
      BY <2>4
    <3>2. PICK f : f = [k \in 0..(m - 1) |-> IF k = 0 THEN <<>> ELSE From(k, f[k - 1])]
      BY <2>2, <3>1
    <3>. DEFINE g == [k \in 0..m |-> IF k = m THEN From(m, f[m - 1]) ELSE f[k]]
    <3>3. ASSUME NEW k \in 0..m PROVE g[k] = IF k = 0 THEN <<>> ELSE From(k, g[k - 1])
      <4>1. CASE k = 0
        <5>1. f[0] = <<>>
          BY <3>1, <3>2
        <5>. QED
          BY <2>4, <3>1, <4>1, <5>1
      <4>2. CASE k # 0 /\ k # m
        <5>1. k \in 0..(m - 1) /\ k - 1 \in 0..(m - 1)
          BY <4>2
        <5>2. f[k] = From(k, f[k - 1])
          BY <3>2, <4>2, <5>1
        <5>3. g[k] = f[k] /\ g[k - 1] = f[k - 1]
          BY <4>2, <5>1
        <5>. QED
          BY <4>2, <5>2, <5>3
      <4>3. CASE k = m
        <5>1. m - 1 \in 0..m /\ m \in 0..m /\ m - 1 # m
          BY <3>1
        <5>2. g[m] = From(m, f[m - 1]) /\ g[m - 1] = f[m - 1]
          BY <5>1
        <5>. QED
          BY <2>4, <4>3, <5>2
      <4>. QED
        BY <4>1, <4>2, <4>3
    <3>4. g = [k \in 0..m |-> IF k = 0 THEN <<>> ELSE From(k, g[k - 1])]
      <4>1. g = [k \in 0..m |-> g[k]]
        OBVIOUS
      <4>. HIDE DEF g
      <4>. QED
        BY <3>3, <4>1
    <3>. QED
      BY <2>2, <3>4
  <2>. QED
    BY <2>3, <2>4
<1>2. PICK f : f = [k \in 0..n |-> IF k = 0 THEN <<>> ELSE From(k, f[k - 1])]
  BY <1>1
<1>. QED
  BY <1>2 DEF From

\* The entries of some threads are those of the pool, each once.
LEMMA EntriesOf ==
    ASSUME NEW s, Unique(s), NEW S
    PROVE  Unique(Entries(s, S)) /\ ToSet(Entries(s, S)) = {e \in ToSet(s) : e.id \in S}
<1>1. PICK n \in Nat : n = Len(s) /\ DOMAIN s = 1..n
  BY UniqueDomain
<1>. DEFINE upTo == CHOOSE f : f = [k \in 0..n |->
                        IF k = 0 THEN <<>> ELSE Selected(s, S, k, f[k - 1])]
<1>2. upTo = [k \in 0..n |-> IF k = 0 THEN <<>> ELSE Selected(s, S, k, upTo[k - 1])]
  BY Selections
<1>3. Entries(s, S) = upTo[n]
  BY <1>1 DEF Entries, Selected
<1>. HIDE DEF upTo
<1>4. /\ upTo[0] = <<>>
      /\ \A k \in 1..n : upTo[k] = IF s[k].id \in S THEN Append(upTo[k - 1], s[k])
                                   ELSE upTo[k - 1]
  <2>1. upTo[0] = <<>>
    BY <1>2
  <2>2. ASSUME NEW k \in 1..n PROVE upTo[k] = Selected(s, S, k, upTo[k - 1])
    BY <1>2
  <2>. QED
    BY <2>1, <2>2 DEF Selected
<1>5. \A j \in 1..n : s[j] \in Info
  BY <1>1 DEF Unique
<1>. DEFINE Taken(k) == {s[j] : j \in {l \in 1..k : s[l].id \in S}}
            Fine(k) == Unique(upTo[k]) /\ ToSet(upTo[k]) = Taken(k)
<1>6. Fine(0)
  BY <1>4 DEF Unique, ToSet
<1>7. ASSUME NEW k \in 1..n, Fine(k - 1) PROVE Fine(k)
  <2>1. \A j \in 1..k : j \in 1..(k - 1) \/ j = k
    OBVIOUS
  <2>2. 1..(k - 1) \subseteq 1..k /\ k \in 1..k
    OBVIOUS
  <2>3. CASE s[k].id \notin S
    <3>1. upTo[k] = upTo[k - 1]
      BY <1>4, <2>3
    <3>2. Taken(k) = Taken(k - 1)
      BY <2>1, <2>2, <2>3
    <3>. QED
      BY <1>7, <3>1, <3>2
  <2>4. CASE s[k].id \in S
    <3>1. upTo[k] = Append(upTo[k - 1], s[k])
      BY <1>4, <2>4
    <3>2. ASSUME NEW e \in Taken(k - 1) PROVE e.id # s[k].id
      <4>1. PICK j \in 1..(k - 1) : e = s[j]
        OBVIOUS
      <4>2. j \in 1..n /\ j # k
        OBVIOUS
      <4>. QED
        BY <1>1, <4>1, <4>2 DEF Unique
    <3>3. Unique(upTo[k - 1]) /\ ToSet(upTo[k - 1]) = Taken(k - 1)
      BY <1>7
    <3>4. s[k] \in Info
      BY <1>5
    <3>5. Taken(k) = Taken(k - 1) \cup {s[k]}
      BY <2>1, <2>2, <2>4
    <3>. HIDE DEF Taken
    <3>6. Unique(upTo[k]) /\ ToSet(upTo[k]) = Taken(k - 1) \cup {s[k]}
      BY <3>1, <3>2, <3>3, <3>4, Parked
    <3>. QED
      BY <3>5, <3>6
  <2>. QED
    BY <2>3, <2>4
<1>8. Fine(n)
  <2>. DEFINE T == {i \in 0..n : ~Fine(i)}
  <2>. HIDE DEF Fine
  <2>1. SUFFICES ASSUME T # {} PROVE FALSE
    BY <2>1
  <2>2. PICK m \in 0..n : ~Fine(m) /\ \A i \in 0..n : ~Fine(i) => m =< i
    <3>1. T \subseteq Nat
      OBVIOUS
    <3>2. \E m \in T : \A i \in T : m =< i
      <4>. HIDE DEF T
      <4>. QED
        BY <2>1, <3>1, Least
    <3>. QED
      BY <3>2
  <2>3. m # 0
    BY <1>6, <2>2
  <2>4. m \in 1..n /\ m - 1 \in 0..n /\ ~(m =< m - 1)
    BY <2>3
  <2>. QED
    BY <1>7, <2>2, <2>4
<1>9. Taken(n) = {e \in ToSet(s) : e.id \in S}
  BY <1>1 DEF ToSet
<1>. QED
  BY <1>3, <1>8, <1>9

\* The pool of a restart that finds the containers of some threads.
Adoption(R, m) ==
    LET order == SetToSeq(R)
    IN  [j \in DOMAIN order |-> [id |-> order[j], n |-> m + j, named |-> TRUE]]

\* A running container of each thread is parked after a restart.
LEMMA Adopted ==
    ASSUME NEW R, R \subseteq Threads, NEW m \in Nat, m + Cardinality(R) <= MaxMade
    PROVE  /\ Cardinality(R) \in Nat /\ Unique(Adoption(R, m))
           /\ \A t \in R : \E e \in ToSet(Adoption(R, m)) : e.id = t
           /\ \A e \in ToSet(Adoption(R, m)) : e.named
<1>0. PICK order, s : order = SetToSeq(R) /\ s = Adoption(R, m)
  OBVIOUS
<1>3. s = [j \in DOMAIN order |-> [id |-> order[j], n |-> m + j, named |-> TRUE]]
  BY <1>0 DEF Adoption
<1>1. IsFiniteSet(R)
  BY PoolAssumption, FS_Subset
<1>2. PICK n \in Nat : n = Cardinality(R) /\ ExistsBijection(1..n, R)
  BY <1>1, FS_CardinalityType
<1>4. order \in [1..n -> R] /\ IsInjective(order)
  <2>1. \E f \in [1..n -> R] : IsInjective(f)
    BY <1>2 DEF ExistsBijection, Bijection, Injection
  <2>. QED
    BY <1>0, <1>2, <2>1 DEF SetToSeq
<1>5. order \in Surjection(1..n, R)
  <2>1. order \in Injection(1..n, R)
    BY <1>4 DEF Injection
  <2>2. IsFiniteSet(1..n) /\ Cardinality(1..n) = n
    BY FS_Interval
  <2>. QED
    BY <1>1, <1>2, <2>1, <2>2, FS_Injection
<1>6. \A t \in R : \E j \in 1..n : order[j] = t
  BY <1>4, <1>5 DEF Surjection
<1>8. /\ DOMAIN s = 1..n
      /\ \A j \in 1..n : s[j].id = order[j] /\ s[j].named /\ s[j] \in Info
  <2>1. DOMAIN s = 1..n /\ \A j \in 1..n : s[j] = [id |-> order[j], n |-> m + j, named |-> TRUE]
    BY <1>3, <1>4
  <2>2. \A j \in 1..n : order[j] \in Threads /\ m + j \in 1..MaxMade
    BY <1>2, <1>4, PoolAssumption
  <2>3. \A j \in 1..n : [id |-> order[j], n |-> m + j, named |-> TRUE] \in Info
    BY <2>2 DEF Info
  <2>. QED
    BY <2>1, <2>3
<1>9. s \in Seq(Info)
  <2>1. s \in [1..n -> Info]
    BY <1>3, <1>8
  <2>. QED
    BY <2>1
<1>10. Unique(s)
  BY <1>4, <1>8, <1>9 DEF Unique, IsInjective
<1>11. (\A t \in R : \E e \in ToSet(s) : e.id = t) /\ \A e \in ToSet(s) : e.named
  BY <1>6, <1>8 DEF ToSet
<1>. QED
  BY <1>0, <1>2, <1>10, <1>11

\* A pool has as many entries as threads.
LEMMA CountedOnce ==
    ASSUME NEW s, Unique(s)
    PROVE  Cardinality({e.id : e \in ToSet(s)}) = Len(s)
<1>1. PICK n \in Nat : n = Len(s) /\ DOMAIN s = 1..n
  BY UniqueDomain
<1>2. PICK S : S = {e.id : e \in ToSet(s)}
  OBVIOUS
<1>3. PICK f : f = [j \in 1..n |-> s[j].id]
  OBVIOUS
<1>4. f \in [1..n -> S] /\ \A t \in S : \E j \in 1..n : f[j] = t
  BY <1>1, <1>2, <1>3 DEF ToSet
<1>5. IsInjective(f)
  BY <1>1, <1>3 DEF IsInjective, Unique
<1>6. f \in Bijection(1..n, S)
  BY <1>4, <1>5 DEF Bijection, Injection, Surjection
<1>7. Cardinality(S) = n
  BY <1>6, FS_CountingElements DEF ExistsBijection
<1>. QED
  BY <1>1, <1>2, <1>7

-----------------------------------------------------------------------------
(* The invariant *)

Infos == Info \cup {NoInfo}
Early == {"idle", "look", "ask", "keep", "drop", "stop"}
Late == {"discover", "count", "full", "evict", "start", "wait"}

Acquiring == [pc : Early \cup Late, at : {"active", "warm"}, post : BOOLEAN, info : Infos]
Keeping == [pc : {"rest", "pick", "kill", "stop", "empty", "done"}, todo : SUBSET Threads,
            info : [id : Threads \cup {"nobody"}, n : 0..MaxMade, named : BOOLEAN],
            hand : Seq(Info)]

\* What an actor of the pool holds, and that a keeper at rest has nothing in its hands.
Actors ==
    /\ acq \in [Threads -> Acquiring]
    /\ keeper \in [Keepers -> Keeping]
    /\ \A k \in Keepers : /\ keeper[k].pc = "kill" => keeper[k].info.id \in Threads
                          /\ keeper[k].pc = "stop" => keeper[k].info \in Infos
    /\ keeper["checker"].pc \in {"rest", "pick", "kill", "stop"} => keeper["checker"].hand = <<>>
    /\ keeper["shutdown"].pc = "rest" => keeper["shutdown"].hand = <<>>

\* An active sandbox, and one that is waited for, are the thread's own.
OfThread(t) == {i \in Info : i.id = t}
Owned ==
    \A t \in Threads : /\ active[t] # NoInfo => active[t] \in OfThread(t)
                       /\ acq[t].pc = "wait" => acq[t].info \in OfThread(t)

TypeInv == PoolTypes /\ Unique(warm) /\ Actors /\ Owned

\* The entry of thread t in the warm pool.
LEMMA WarmEntry ==
    ASSUME Unique(warm), NEW t
    PROVE  /\ t \in Warm => /\ WarmInfo(t) \in ToSet(warm) /\ WarmInfo(t) \in Info
                            /\ WarmInfo(t).id = t
           /\ t \notin Warm => WarmInfo(t) = NoInfo
           /\ \A i \in ToSet(warm) : i.id = t => t \in Warm /\ WarmInfo(t) = i
<1>1. t \in Warm <=> WarmInfos(t) # {}
  BY DEF Warm, WarmInfos
<1>2. \A i, j \in ToSet(warm) : i.id = j.id => i = j
  BY DEF Unique, ToSet
<1>3. ToSet(warm) \subseteq Info
  BY UniqueDomain
<1>4. ASSUME t \in Warm PROVE WarmInfo(t) \in WarmInfos(t)
  BY <1>1, <1>4 DEF WarmInfo
<1>5. ASSUME NEW i \in ToSet(warm), i.id = t PROVE t \in Warm /\ WarmInfo(t) = i
  <2>1. t \in Warm
    BY <1>5 DEF Warm
  <2>. QED
    BY <1>2, <1>4, <1>5, <2>1 DEF WarmInfos
<1>. QED
  BY <1>3, <1>4, <1>5 DEF WarmInfo, WarmInfos

\* An entry without a sandbox is not an entry.
LEMMA SomeInfo == NoInfo \notin Info /\ \A i \in Info : i.id \in Threads /\ i # NoInfo
BY PoolAssumption DEF Info, NoInfo

\* The acquire of thread t goes on with an entry.
LEMMA AcquireGoes ==
    ASSUME acq \in [Threads -> Acquiring], NEW t \in Threads, NEW pc \in Early \cup Late,
           NEW i \in Infos, Go(t, pc, i)
    PROVE  /\ acq' \in [Threads -> Acquiring]
           /\ acq'[t].pc = pc /\ acq'[t].info = i /\ acq'[t].at = acq[t].at
           /\ \A u \in Threads \ {t} : acq'[u] = acq[u]
<1>1. PICK a : a = [acq[t] EXCEPT !.pc = pc, !.info = i]
  OBVIOUS
<1>2. a \in Acquiring /\ a.pc = pc /\ a.info = i /\ a.at = acq[t].at
  BY <1>1 DEF Acquiring
<1>3. acq' = [acq EXCEPT ![t] = a]
  BY <1>1 DEF Go
<1>. QED
  BY <1>2, <1>3

\* The acquire of thread t goes on with the entry it has.
LEMMA AcquireMoves ==
    ASSUME acq \in [Threads -> Acquiring], NEW t \in Threads, NEW pc \in Early \cup Late,
           acq' = [acq EXCEPT ![t].pc = pc]
    PROVE  /\ acq' \in [Threads -> Acquiring]
           /\ acq'[t].pc = pc /\ acq'[t].info = acq[t].info /\ acq'[t].at = acq[t].at
           /\ \A u \in Threads \ {t} : acq'[u] = acq[u]
<1>1. PICK a : a = [acq[t] EXCEPT !.pc = pc]
  OBVIOUS
<1>2. a \in Acquiring /\ a.pc = pc /\ a.info = acq[t].info /\ a.at = acq[t].at
  BY <1>1 DEF Acquiring
<1>3. acq' = [acq EXCEPT ![t] = a]
  BY <1>1
<1>. QED
  BY <1>2, <1>3

\* The acquire of thread t goes on without an entry: from the active map to the pool, from there
\* to the active map or to the runtime.
LEMMA AcquireMisses ==
    ASSUME acq \in [Threads -> Acquiring], NEW t \in Threads, Miss(t)
    PROVE  /\ acq' \in [Threads -> Acquiring]
           /\ acq'[t].pc \in {"look", "discover"} /\ acq'[t].info = NoInfo
           /\ acq[t].at = "active" => acq'[t].pc = "look" /\ acq'[t].at = "warm"
           /\ acq[t].at = "warm" => \/ acq'[t].pc = "look" /\ acq'[t].at = "active"
                                    \/ acq'[t].pc = "discover" /\ acq'[t].at = "warm"
           /\ \A u \in Threads \ {t} : acq'[u] = acq[u]
<1>1. PICK a : a = IF acq[t].at = "active"
                   THEN [acq[t] EXCEPT !.pc = "look", !.at = "warm", !.info = NoInfo]
                   ELSE IF acq[t].post THEN [acq[t] EXCEPT !.pc = "discover", !.info = NoInfo]
                   ELSE [acq[t] EXCEPT !.pc = "look", !.at = "active", !.post = TRUE,
                                       !.info = NoInfo]
  OBVIOUS
<1>2. acq' = [acq EXCEPT ![t] = a]
  BY <1>1 DEF Miss
<1>3. acq[t] \in Acquiring
  OBVIOUS
<1>4. /\ a \in Acquiring /\ a.pc \in {"look", "discover"} /\ a.info = NoInfo
      /\ acq[t].at = "active" => a.pc = "look" /\ a.at = "warm"
      /\ acq[t].at = "warm" => \/ a.pc = "look" /\ a.at = "active"
                               \/ a.pc = "discover" /\ a.at = "warm"
  <2>1. CASE acq[t].at = "active"
    BY <1>1, <1>3, <2>1 DEF Acquiring, Early, Late, Infos
  <2>2. CASE acq[t].at = "warm" /\ acq[t].post
    BY <1>1, <1>3, <2>2 DEF Acquiring, Early, Late, Infos
  <2>3. CASE acq[t].at = "warm" /\ ~acq[t].post
    BY <1>1, <1>3, <2>3 DEF Acquiring, Early, Late, Infos
  <2>. QED
    BY <1>3, <2>1, <2>2, <2>3 DEF Acquiring
<1>. QED
  BY <1>2, <1>4

\* The acquire of thread t is over.
LEMMA AcquireEnds ==
    ASSUME acq \in [Threads -> Acquiring], NEW t \in Threads, Leave(t)
    PROVE  /\ acq' \in [Threads -> Acquiring]
           /\ acq'[t].pc = "idle" /\ acq'[t].at = "active"
           /\ \A u \in Threads \ {t} : acq'[u] = acq[u]
<1>1. Free \in Acquiring /\ Free.pc = "idle" /\ Free.at = "active"
  BY DEF Free, Acquiring, Early, Infos
<1>. QED
  BY <1>1 DEF Leave

\* Somebody who has taken an entry out of the maps stops the container it is meant for.
Meant(i, t, c) == i # NoInfo /\ i.id = t /\ (i.named \/ c = i.n)

\* A call of the runtime that stops the container of an entry stops no other and starts none; the
\* one it was meant for is gone, or used again, or left on record as a stray.
LEMMA Destroyed ==
    ASSUME PoolTypes, NEW i \in Infos, Destroy(i)
    PROVE  /\ container' \in [Threads -> 0..MaxMade] /\ stray' \subseteq Threads
           /\ made' = made /\ faults' \in 0..MaxFaults
           /\ \A t \in Threads : container'[t] # 0 => container'[t] = container[t]
           /\ \A t \in Threads : container'[t] # 0 /\ t \in stray => t \in stray'
           /\ \A t \in Threads : container'[t] # 0 /\ Meant(i, t, container[t])
                                    => active[t] # NoInfo \/ t \in stray'
<1>1. made' = made
  BY DEF Destroy
<1>2. Hits(i) => i.id \in Threads /\ Meant(i, i.id, container[i.id])
  BY SomeInfo DEF Hits, Infos, Meant
<1>3. \A t \in Threads : Meant(i, t, container[t]) /\ container[t] # 0 => Hits(i) /\ t = i.id
  BY DEF Hits, Meant
<1>4. container \in [Threads -> 0..MaxMade] /\ stray \subseteq Threads /\ faults \in 0..MaxFaults
      /\ 0 \in 0..MaxMade
  BY PoolAssumption DEF PoolTypes
<1>5. CASE ~Hits(i)
  <2>1. container' = container /\ stray' = stray /\ faults' = faults
    BY <1>5 DEF Destroy
  <2>. QED
    BY <1>1, <1>3, <1>4, <1>5, <2>1
<1>6. CASE Hits(i) /\ faults' = faults /\ container' = [container EXCEPT ![i.id] = 0]
           /\ stray' = stray \ {i.id}
  BY <1>1, <1>2, <1>3, <1>4, <1>6
<1>7. CASE Hits(i) /\ Fault /\ container' = container
           /\ stray' = IF active[i.id] = NoInfo THEN stray \cup {i.id} ELSE stray
  <2>1. faults' \in 0..MaxFaults
    BY <1>4, <1>7, PoolAssumption DEF Fault
  <2>. QED
    BY <1>1, <1>2, <1>3, <1>4, <1>7, <2>1
<1>. QED
  BY <1>5, <1>6, <1>7 DEF Destroy

-----------------------------------------------------------------------------
(* The steps of the warm pool *)

\* A thread has an entry exactly when it is in the pool, and the entry is what its entries say.
LEMMA WarmSame ==
    ASSUME NEW t
    PROVE  /\ t \in Warm <=> WarmInfos(t) # {}
           /\ WarmInfos(t)' = WarmInfos(t) => /\ WarmInfo(t)' = WarmInfo(t)
                                              /\ (t \in Warm)' <=> t \in Warm
           /\ WarmInfos(t)' = {} => WarmInfo(t)' = NoInfo /\ ~(t \in Warm)'
<1>1. t \in Warm <=> WarmInfos(t) # {}
  BY DEF Warm, WarmInfos
<1>2. (t \in Warm)' <=> WarmInfos(t)' # {}
  BY DEF Warm, WarmInfos
<1>3. WarmInfos(t)' = WarmInfos(t) => WarmInfo(t)' = WarmInfo(t)
  BY <1>1, <1>2 DEF WarmInfo
<1>4. WarmInfos(t)' = {} => WarmInfo(t)' = NoInfo
  BY <1>2 DEF WarmInfo
<1>. QED
  BY <1>1, <1>2, <1>3, <1>4

\* The pool stays as it is.
LEMMA WarmStays ==
    ASSUME warm' = warm, NEW t
    PROVE  WarmInfos(t)' = WarmInfos(t)
BY DEF WarmInfos

\* The entry of a thread leaves the pool, the others stay.
LEMMA WarmLeaves ==
    ASSUME Unique(warm), NEW t, warm' = WithoutWarm(t)
    PROVE  /\ Unique(warm)' /\ WarmInfos(t)' = {}
           /\ \A u \in Threads \ {t} : WarmInfos(u)' = WarmInfos(u)
<1>1. Unique(warm') /\ ToSet(warm') = {e \in ToSet(warm) : e.id \in Threads \ {t}}
  BY EntriesOf DEF WithoutWarm
<1>. QED
  BY <1>1 DEF WarmInfos, Unique

\* The entry of a thread that has none is parked, the others stay.
LEMMA WarmParks ==
    ASSUME Unique(warm), NEW t \in Threads, NEW i \in Info, i.id = t, t \notin Warm,
           warm' = Append(warm, i)
    PROVE  /\ Unique(warm)' /\ WarmInfos(t)' = {i}
           /\ \A u \in Threads \ {t} : WarmInfos(u)' = WarmInfos(u)
<1>1. \A e \in ToSet(warm) : e.id # i.id
  BY DEF Warm
<1>2. Unique(warm') /\ ToSet(warm') = ToSet(warm) \cup {i}
  BY <1>1, Parked
<1>3. Unique(warm)'
  BY <1>2 DEF Unique
<1>4. \A u : WarmInfos(u)' = {e \in ToSet(warm') : e.id = u}
  BY DEF WarmInfos
<1>5. WarmInfos(t)' = {i}
  BY <1>1, <1>2, <1>4
<1>6. ASSUME NEW u \in Threads \ {t} PROVE WarmInfos(u)' = WarmInfos(u)
  BY <1>2, <1>4 DEF WarmInfos
<1>. QED
  BY <1>3, <1>5, <1>6

\* The oldest entry leaves the pool, the others stay.
LEMMA WarmEvicts ==
    ASSUME Unique(warm), warm # <<>>, warm' = Tail(warm)
    PROVE  /\ Unique(warm)' /\ Head(warm) \in Info /\ Head(warm) \in ToSet(warm)
           /\ \A u \in Threads : u = Head(warm).id =>
                    WarmInfos(u) = {Head(warm)} /\ WarmInfos(u)' = {}
           /\ \A u \in Threads : u # Head(warm).id => WarmInfos(u)' = WarmInfos(u)
<1>1. PICK h : h = Head(warm)
  OBVIOUS
<1>2. /\ Unique(warm') /\ h \in Info /\ h \in ToSet(warm)
      /\ ToSet(warm') = {e \in ToSet(warm) : e.id # h.id}
      /\ \A e \in ToSet(warm) : e = h \/ e \in ToSet(warm')
  BY <1>1, Oldest
<1>3. Unique(warm)'
  BY <1>2 DEF Unique
<1>4. \A u : WarmInfos(u)' = {e \in ToSet(warm') : e.id = u}
  BY DEF WarmInfos
<1>5. ASSUME NEW u \in Threads, u = h.id PROVE WarmInfos(u) = {h} /\ WarmInfos(u)' = {}
  BY <1>2, <1>4, <1>5 DEF WarmInfos
<1>6. ASSUME NEW u \in Threads, u # h.id PROVE WarmInfos(u)' = WarmInfos(u)
  BY <1>2, <1>4, <1>6 DEF WarmInfos
<1>. QED
  BY <1>1, <1>2, <1>3, <1>5, <1>6

\* The pool is emptied.
LEMMA WarmEmpties ==
    ASSUME warm' = <<>>
    PROVE  Unique(warm)' /\ \A t : WarmInfos(t)' = {}
BY DEF WarmInfos, Unique, ToSet

\* The expired entries leave the pool, the others stay.
LEMMA WarmExpires ==
    ASSUME Unique(warm), warm' = Entries(warm, Threads \ idle)
    PROVE  /\ Unique(warm)'
           /\ ToSet(Entries(warm, idle)) = {e \in ToSet(warm) : e.id \in idle}
           /\ Entries(warm, idle) \in Seq(Info)
           /\ \A t \in Threads : t \in idle => WarmInfos(t)' = {}
           /\ \A t \in Threads : t \notin idle => WarmInfos(t)' = WarmInfos(t)
<1>1. Unique(warm') /\ ToSet(warm') = {e \in ToSet(warm) : e.id \in Threads \ idle}
  BY EntriesOf
<1>2. Unique(Entries(warm, idle))
      /\ ToSet(Entries(warm, idle)) = {e \in ToSet(warm) : e.id \in idle}
  BY EntriesOf
<1>3. Unique(warm)' /\ Entries(warm, idle) \in Seq(Info)
  BY <1>1, <1>2 DEF Unique
<1>4. \A t : WarmInfos(t)' = {e \in ToSet(warm') : e.id = t}
  BY DEF WarmInfos
<1>5. ASSUME NEW t \in Threads, t \in idle PROVE WarmInfos(t)' = {}
  BY <1>1, <1>4, <1>5
<1>6. ASSUME NEW t \in Threads, t \notin idle PROVE WarmInfos(t)' = WarmInfos(t)
  BY <1>1, <1>4, <1>6 DEF WarmInfos
<1>. QED
  BY <1>2, <1>3, <1>5, <1>6

-----------------------------------------------------------------------------
(* Types *)

\* What the other variables hold, the map of the acquires, the pool and the keepers.
Counters ==
    /\ container \in [Threads -> 0..MaxMade]
    /\ active \in [Threads -> Infos]
    /\ idle \subseteq Threads /\ stray \subseteq Threads
    /\ made \in 0..MaxMade /\ faults \in 0..MaxFaults /\ restarts \in 0..MaxRestarts
Hands ==
    /\ keeper \in [Keepers -> Keeping]
    /\ \A k \in Keepers : /\ keeper[k].pc = "kill" => keeper[k].info.id \in Threads
                          /\ keeper[k].pc = "stop" => keeper[k].info \in Infos
    /\ keeper["checker"].pc \in {"rest", "pick", "kill", "stop"} => keeper["checker"].hand = <<>>
    /\ keeper["shutdown"].pc = "rest" => keeper["shutdown"].hand = <<>>

\* The parts of the types, which steps change one at a time.
LEMMA Parts ==
    /\ TypeInv <=> Counters /\ Unique(warm) /\ acq \in [Threads -> Acquiring] /\ Hands /\ Owned
    /\ TypeInv' <=> /\ Counters' /\ Unique(warm)' /\ (acq \in [Threads -> Acquiring])'
                    /\ Hands' /\ Owned'
BY DEF TypeInv, PoolTypes, Counters, Actors, Hands, Unique, Infos

\* The keepers have what they had.
LEMMA HandsStay == Hands /\ UNCHANGED keeper => Hands'
BY DEF Hands

\* A sandbox that is tracked, or one that was.
LEMMA TrackedInfo ==
    ASSUME TypeInv, NEW t \in Threads
    PROVE  /\ active[t] \in Infos /\ WarmInfo(t) \in Infos /\ Tracked(t) \in Infos
           /\ acq[t] \in Acquiring /\ acq[t].info \in Infos
BY WarmEntry DEF TypeInv, PoolTypes, Actors, Acquiring, Tracked, Infos

\* What an acquire puts in the active map or waits for is its thread's.
LEMMA AcquireOwned ==
    ASSUME TypeInv, NEW t \in Threads, Acquire(t)
    PROVE  Owned'
<1>1. /\ active \in [Threads -> Infos] /\ acq \in [Threads -> Acquiring] /\ Owned
      /\ Unique(warm) /\ made \in 0..MaxMade
  BY DEF TypeInv, PoolTypes, Actors, Infos
<1>2. /\ WarmInfo(t) # NoInfo => WarmInfo(t) \in OfThread(t)
      /\ WarmInfo(t) \in Infos /\ active[t] \in Infos /\ NoInfo \in Infos
      /\ acq[t].info \in Infos /\ Tracked(t) \in Infos
  BY <1>1, TrackedInfo, WarmEntry DEF OfThread, Infos
<1>3. \A named \in BOOLEAN : made < MaxMade =>
        Made(t, named) \in OfThread(t) /\ Made(t, named) \in Infos
  BY <1>1, PoolAssumption DEF Made, Info, Infos, OfThread
<1>4. ASSUME acq' = acq \/ acq'[t].pc # "wait" \/ acq'[t].info \in OfThread(t),
             \A u \in Threads \ {t} : acq'[u] = acq[u],
             \/ UNCHANGED active
             \/ \E i \in OfThread(t) \cup {NoInfo} : active' = [active EXCEPT ![t] = i]
      PROVE  Owned'
  BY <1>1, <1>4 DEF Owned
<1>5. {"look", "ask", "keep", "drop", "stop", "discover", "count", "full", "evict", "start", "wait"}
        \subseteq Early \cup Late
  BY DEF Early, Late
<1>6. ASSUME Miss(t), UNCHANGED active PROVE Owned'
  BY <1>1, <1>4, <1>6, AcquireMisses
<1>7. ASSUME NEW i \in OfThread(t), Track(t, i) PROVE Owned'
  BY <1>1, <1>4, <1>7, AcquireEnds DEF Track
<1>8. ASSUME Leave(t), UNCHANGED active PROVE Owned'
  BY <1>1, <1>4, <1>8, AcquireEnds
<1>9. ASSUME NEW pc \in (Early \cup Late) \ {"wait"}, NEW i \in Infos, Go(t, pc, i),
             UNCHANGED active \/ active' = [active EXCEPT ![t] = NoInfo]
      PROVE  Owned'
  BY <1>1, <1>4, <1>9, AcquireGoes
<1>10. ASSUME NEW pc \in (Early \cup Late) \ {"wait"}, acq' = [acq EXCEPT ![t].pc = pc],
              UNCHANGED active
       PROVE  Owned'
  BY <1>1, <1>4, <1>10, AcquireMoves
<1>. USE DEF pool
<1>11. CASE Begin(t)
  <2>1. acq' = [acq EXCEPT ![t].pc = "look"] /\ UNCHANGED active
    BY <1>11 DEF Begin
  <2>2. "look" \in (Early \cup Late) \ {"wait"}
    BY <1>5
  <2>. QED
    BY <1>10, <2>1, <2>2
<1>12. CASE Look(t)
  BY <1>2, <1>5, <1>6, <1>9, <1>12 DEF Look
<1>13. CASE Ask(t)
  BY <1>2, <1>5, <1>9, <1>10, <1>13 DEF Ask
<1>14. CASE Keep(t)
  <2>1. active[t] # NoInfo => active[t] \in OfThread(t)
    BY <1>1 DEF Owned
  <2>. QED
    BY <1>2, <1>6, <1>7, <1>14, <2>1 DEF Keep
<1>15. CASE Drop(t)
  BY <1>2, <1>5, <1>6, <1>9, <1>15 DEF Drop, Untrack
<1>16. CASE StopDead(t)
  BY <1>6, <1>16 DEF StopDead
<1>17. CASE Discover(t)
  BY <1>2, <1>3, <1>5, <1>7, <1>9, <1>17 DEF Discover
<1>18. CASE Count(t)
  BY <1>2, <1>5, <1>9, <1>18 DEF Count
<1>19. CASE Evict(t)
  <2>1. warm # <<>> => Head(warm) \in Infos
    BY <1>1, Oldest DEF Infos
  <2>. QED
    BY <1>2, <1>5, <1>9, <1>19, <2>1 DEF Evict
<1>20. CASE StopEvicted(t)
  BY <1>2, <1>5, <1>9, <1>20 DEF StopEvicted
<1>21. CASE Start(t)
  <2>1. CASE made < MaxMade
             /\ acq' = [acq EXCEPT ![t].pc = "wait", ![t].info = Made(t, container[t] # 0)]
    <3>1. PICK i : i = Made(t, container[t] # 0)
      OBVIOUS
    <3>2. Go(t, "wait", i) /\ i \in Infos /\ i \in OfThread(t)
      BY <1>3, <2>1, <3>1 DEF Go
    <3>. QED
      BY <1>1, <1>4, <1>5, <1>21, <3>2, AcquireGoes DEF Start
  <2>. QED
    BY <1>8, <1>21, <2>1 DEF Start
<1>22. CASE Ready(t)
  <2>1. acq[t].info \in OfThread(t)
    BY <1>1, <1>22 DEF Ready, At, Owned
  <2>. QED
    BY <1>7, <1>22, <2>1 DEF Ready
<1>23. CASE NotReady(t)
  BY <1>8, <1>23 DEF NotReady
<1>24. CASE Cancel(t)
  BY <1>8, <1>24 DEF Cancel
<1>. QED
  BY <1>11, <1>12, <1>13, <1>14, <1>15, <1>16, <1>17, <1>18, <1>19, <1>20, <1>21, <1>22, <1>23,
     <1>24 DEF Acquire

\* An acquire keeps the types.
LEMMA AcquireTypes ==
    ASSUME TypeInv, NEW t \in Threads, Acquire(t)
    PROVE  TypeInv'
<1>1. Counters /\ Unique(warm) /\ acq \in [Threads -> Acquiring] /\ Hands
  BY Parts
<1>2. SUFFICES Counters' /\ Unique(warm)' /\ (acq \in [Threads -> Acquiring])'
  <2>1. UNCHANGED keeper
    BY DEF Acquire, Begin, Look, Ask, Keep, Drop, StopDead, Discover, Count, Evict, StopEvicted,
       Start, Ready, NotReady, Cancel, rest
  <2>. QED
    BY <1>1, <2>1, HandsStay, AcquireOwned, Parts
<1>. USE DEF rest, runtime, pool
<1>3. ASSUME UNCHANGED warm PROVE Unique(warm)'
  BY <1>1, <1>3 DEF Unique
<1>4. /\ active[t] \in Infos /\ WarmInfo(t) \in Infos /\ Tracked(t) \in Infos
      /\ acq[t].info \in Infos /\ NoInfo \in Infos
  BY TrackedInfo DEF Infos
<1>5. ASSUME NEW i \in Infos, Track(t, i)
      PROVE  /\ active' \in [Threads -> Infos] /\ idle' \subseteq Threads
             /\ stray' \subseteq Threads /\ acq' \in [Threads -> Acquiring]
  BY <1>1, <1>5, AcquireEnds DEF Track, Counters
<1>6. ASSUME NEW i \in Infos, Destroy(i), UNCHANGED <<pool, rest>> PROVE Counters'
  <2>1. PoolTypes
    BY DEF TypeInv
  <2>2. /\ container' \in [Threads -> 0..MaxMade] /\ stray' \subseteq Threads
        /\ made' = made /\ faults' \in 0..MaxFaults
    BY <1>6, <2>1, Destroyed
  <2>. QED
    BY <1>1, <1>6, <2>2 DEF Counters
<1>7. Fault => faults' \in 0..MaxFaults
  BY <1>1, PoolAssumption DEF Fault, Counters
<1>8. \A named \in BOOLEAN : made < MaxMade => Made(t, named) \in Info /\ Made(t, named) \in Infos
  BY <1>1, PoolAssumption DEF Counters, Made, Info, Infos
<1>9. {"look", "ask", "keep", "drop", "stop", "discover", "count", "full", "evict", "start", "wait"}
        \subseteq Early \cup Late
  BY DEF Early, Late
<1>10. CASE Begin(t)
  <2>1. acq' \in [Threads -> Acquiring]
    BY <1>1, <1>9, <1>10, AcquireMoves DEF Begin
  <2>. QED
    BY <1>1, <1>3, <1>10, <2>1 DEF Begin, Counters
<1>11. CASE Look(t)
  <2>1. acq' \in [Threads -> Acquiring]
    BY <1>1, <1>4, <1>9, <1>11, AcquireMisses, AcquireGoes DEF Look
  <2>. QED
    BY <1>1, <1>3, <1>11, <2>1 DEF Look, Counters
<1>12. CASE Ask(t)
  <2>1. acq' \in [Threads -> Acquiring]
    BY <1>1, <1>4, <1>9, <1>12, AcquireMoves, AcquireGoes DEF Ask
  <2>. QED
    BY <1>1, <1>3, <1>7, <1>12, <2>1 DEF Ask, Counters
<1>13. CASE Keep(t)
  <2>1. PICK i \in Infos : /\ i = IF acq[t].at = "active" THEN active[t] ELSE WarmInfo(t)
                           /\ IF i = NoInfo THEN Miss(t) /\ UNCHANGED <<pool, stray>>
                              ELSE /\ Track(t, i)
                                   /\ warm' = IF acq[t].at = "active" THEN warm ELSE WithoutWarm(t)
                           /\ UNCHANGED <<container, made, faults, restarts>>
    BY <1>4, <1>13 DEF Keep
  <2>2. Unique(warm)'
    BY <1>1, <1>3, <2>1, WarmLeaves
  <2>3. acq' \in [Threads -> Acquiring]
    BY <1>1, <1>5, <2>1, AcquireMisses
  <2>4. active' \in [Threads -> Infos] /\ idle' \subseteq Threads /\ stray' \subseteq Threads
    BY <1>1, <1>5, <2>1 DEF Counters
  <2>. QED
    BY <1>1, <2>1, <2>2, <2>3, <2>4 DEF Counters
<1>14. CASE Drop(t)
  <2>1. acq' \in [Threads -> Acquiring]
    BY <1>1, <1>4, <1>9, <1>14, AcquireMisses, AcquireGoes DEF Drop
  <2>2. Unique(warm)'
    BY <1>1, <1>3, <1>14, WarmLeaves DEF Drop, Untrack
  <2>. QED
    BY <1>1, <1>4, <1>14, <2>1, <2>2 DEF Drop, Untrack, Counters
<1>15. CASE StopDead(t)
  <2>1. acq' \in [Threads -> Acquiring]
    BY <1>1, <1>15, AcquireMisses DEF StopDead
  <2>. QED
    BY <1>3, <1>4, <1>6, <1>15, <2>1 DEF StopDead
<1>16. CASE Discover(t)
  <2>1. CASE made < MaxMade /\ Track(t, Made(t, TRUE)) /\ made' = made + 1
             /\ UNCHANGED <<warm, faults, container, rest>>
    <3>1. made' \in 0..MaxMade
      BY <1>1, <2>1, PoolAssumption DEF Counters
    <3>2. Made(t, TRUE) \in Infos
      BY <1>8, <2>1
    <3>. QED
      BY <1>1, <1>3, <1>5, <2>1, <3>1, <3>2 DEF Counters
  <2>2. CASE Go(t, "count", NoInfo) /\ (Fault \/ UNCHANGED faults)
             /\ UNCHANGED <<pool, stray, made, container, rest>>
    <3>1. acq' \in [Threads -> Acquiring]
      BY <1>1, <1>4, <1>9, <2>2, AcquireGoes
    <3>. QED
      BY <1>1, <1>3, <1>7, <2>2, <3>1 DEF Counters
  <2>. QED
    BY <1>16, <2>1, <2>2 DEF Discover
<1>17. CASE Count(t)
  <2>1. PICK pc \in {"full", "start"} : Go(t, pc, NoInfo)
    BY <1>17 DEF Count
  <2>2. acq' \in [Threads -> Acquiring]
    BY <1>1, <1>4, <1>9, <2>1, AcquireGoes
  <2>. QED
    BY <1>1, <1>3, <1>17, <2>2 DEF Count, Counters
<1>18. CASE Evict(t)
  <2>1. CASE warm = <<>>
    <3>1. acq' \in [Threads -> Acquiring]
      BY <1>1, <1>4, <1>9, <1>18, <2>1, AcquireGoes DEF Evict
    <3>. QED
      BY <1>1, <1>3, <1>18, <2>1, <3>1 DEF Evict, Counters
  <2>2. CASE warm # <<>>
    <3>1. Unique(warm)' /\ Head(warm) \in Infos
      BY <1>1, <1>18, <2>2, WarmEvicts DEF Evict, Infos
    <3>2. acq' \in [Threads -> Acquiring]
      BY <1>1, <1>9, <1>18, <2>2, <3>1, AcquireGoes DEF Evict
    <3>. QED
      BY <1>1, <1>18, <2>2, <3>1, <3>2 DEF Evict, Counters
  <2>. QED
    BY <2>1, <2>2
<1>19. CASE StopEvicted(t)
  <2>1. acq' \in [Threads -> Acquiring]
    BY <1>1, <1>4, <1>9, <1>19, AcquireGoes DEF StopEvicted
  <2>. QED
    BY <1>3, <1>4, <1>6, <1>19, <2>1 DEF StopEvicted
<1>20. CASE Start(t)
  <2>1. CASE made < MaxMade /\ made' = made + 1 /\ UNCHANGED faults
             /\ container' = [container EXCEPT ![t] = IF @ = 0 THEN made + 1 ELSE @]
             /\ acq' = [acq EXCEPT ![t].pc = "wait", ![t].info = Made(t, container[t] # 0)]
    <3>1. made' \in 0..MaxMade /\ container' \in [Threads -> 0..MaxMade]
      BY <1>1, <2>1, PoolAssumption DEF Counters
    <3>2. Go(t, "wait", Made(t, container[t] # 0)) /\ Made(t, container[t] # 0) \in Infos
      BY <1>8, <2>1 DEF Go
    <3>3. acq' \in [Threads -> Acquiring]
      BY <1>1, <1>9, <3>2, AcquireGoes
    <3>. QED
      BY <1>1, <1>3, <1>20, <2>1, <3>1, <3>3 DEF Start, Counters
  <2>2. CASE Fault /\ Leave(t) /\ UNCHANGED <<container, made>>
    <3>1. acq' \in [Threads -> Acquiring]
      BY <1>1, <2>2, AcquireEnds
    <3>. QED
      BY <1>1, <1>3, <1>7, <1>20, <2>2, <3>1 DEF Start, Counters
  <2>. QED
    BY <1>20, <2>1, <2>2 DEF Start
<1>21. CASE Ready(t)
  BY <1>1, <1>3, <1>4, <1>5, <1>21 DEF Ready, Counters
<1>22. CASE NotReady(t)
  <2>1. acq' \in [Threads -> Acquiring]
    BY <1>1, <1>22, AcquireEnds DEF NotReady
  <2>. QED
    BY <1>3, <1>4, <1>6, <1>22, <2>1 DEF NotReady
<1>23. CASE Cancel(t)
  <2>1. acq' \in [Threads -> Acquiring]
    BY <1>1, <1>23, AcquireEnds DEF Cancel
  <2>. QED
    BY <1>1, <1>3, <1>7, <1>23, <2>1 DEF Cancel, Counters
<1>. QED
  BY <1>10, <1>11, <1>12, <1>13, <1>14, <1>15, <1>16, <1>17, <1>18, <1>19, <1>20, <1>21, <1>22,
     <1>23 DEF Acquire

\* What one keeper has changes.
LEMMA KeeperMoves ==
    ASSUME Hands, NEW k \in Keepers, NEW f \in Keeping, keeper' = [keeper EXCEPT ![k] = f],
           f.pc = "kill" => f.info.id \in Threads, f.pc = "stop" => f.info \in Infos,
           k = "checker" /\ f.pc \in {"rest", "pick", "kill", "stop"} => f.hand = <<>>,
           k = "shutdown" /\ f.pc = "rest" => f.hand = <<>>
    PROVE  Hands' /\ keeper'[k] = f /\ \A l \in Keepers \ {k} : keeper'[l] = keeper[l]
<1>1. keeper \in [Keepers -> Keeping] /\ "checker" \in Keepers /\ "shutdown" \in Keepers
  BY DEF Hands, Keepers
<1>2. /\ keeper' \in [Keepers -> Keeping] /\ keeper'[k] = f
      /\ \A l \in Keepers \ {k} : keeper'[l] = keeper[l]
  BY <1>1
<1>. QED
  BY <1>1, <1>2 DEF Hands

\* The steps of the idle checker and of shutdown.
Keeps(k) == \/ \E t \in Threads : Pick(k, t)
            \/ Kill(k) \/ StopKilled(k) \/ Reap(k) \/ StopTaken(k) \/ Finish(k)

\* A keeper at rest, and one that has just begun or ended.
LEMMA KeepersRest ==
    /\ Resting \in Keeping /\ [Resting EXCEPT !.pc = "done"] \in Keeping
    /\ \A S \in SUBSET Threads : [Resting EXCEPT !.pc = "pick", !.todo = S] \in Keeping
    /\ \A S \in SUBSET Threads, h \in Seq(Info) :
            [Resting EXCEPT !.pc = "pick", !.todo = S, !.hand = h] \in Keeping
<1>1. Resting \in Keeping
  BY PoolAssumption DEF Resting, Keeping, NoInfo
<1>. QED
  BY <1>1 DEF Keeping

\* The idle checker and shutdown keep the types.
LEMMA KeeperTypes ==
    ASSUME TypeInv, Sweep \/ Shutdown \/ \E k \in Keepers : Keeps(k)
    PROVE  TypeInv'
<1>1. Counters /\ Unique(warm) /\ acq \in [Threads -> Acquiring] /\ Hands
  BY Parts
<1>. USE DEF runtime, pool
<1>2. SUFFICES Counters' /\ Unique(warm)' /\ Hands'
  <2>1. UNCHANGED acq
    BY DEF Keeps, Sweep, Shutdown, Pick, Kill, StopKilled, Reap, StopTaken, Finish
  <2>2. UNCHANGED active \/ \E t : active' = [active EXCEPT ![t] = NoInfo]
    BY DEF Keeps, Sweep, Shutdown, Pick, Kill, StopKilled, Reap, StopTaken, Finish, Untrack
  <2>3. Owned'
    BY <1>1, <2>1, <2>2, Parts DEF Owned, Counters
  <2>. QED
    BY <1>1, <2>1, <2>3, Parts
<1>3. ASSUME UNCHANGED warm PROVE Unique(warm)'
  BY <1>1, <1>3 DEF Unique
<1>4. ASSUME NEW i \in Infos, Destroy(i), UNCHANGED <<pool, restarts>> PROVE Counters'
  <2>1. PoolTypes
    BY DEF TypeInv
  <2>2. /\ container' \in [Threads -> 0..MaxMade] /\ stray' \subseteq Threads
        /\ made' = made /\ faults' \in 0..MaxFaults
    BY <1>4, <2>1, Destroyed
  <2>. QED
    BY <1>1, <1>4, <2>2 DEF Counters
<1>5. "checker" \in Keepers /\ "shutdown" \in Keepers /\ keeper \in [Keepers -> Keeping]
      /\ Active \subseteq Threads /\ NoInfo \in Infos /\ Info \subseteq Infos
  BY <1>1 DEF Keepers, Hands, Active, Infos
<1>6. Infos \subseteq [id : Threads \cup {"nobody"}, n : 0..MaxMade, named : BOOLEAN]
  <2>1. 1..MaxMade \subseteq 0..MaxMade /\ 0 \in 0..MaxMade
    BY PoolAssumption
  <2>2. NoInfo \in [id : Threads \cup {"nobody"}, n : 0..MaxMade, named : BOOLEAN]
    BY <2>1 DEF NoInfo
  <2>3. Info \subseteq [id : Threads \cup {"nobody"}, n : 0..MaxMade, named : BOOLEAN]
    BY <2>1 DEF Info
  <2>. QED
    BY <2>2, <2>3 DEF Infos
<1>7. CASE Sweep
  <2>1. PICK f : f = [Resting EXCEPT !.pc = "pick", !.todo = Active \cap idle]
    OBVIOUS
  <2>2. f \in Keeping /\ f.pc = "pick" /\ f.hand = <<>>
    BY <1>1, <1>5, <2>1, KeepersRest DEF Counters, Resting
  <2>3. Hands'
    BY <1>1, <1>5, <1>7, <2>1, <2>2, KeeperMoves DEF Sweep, Set
  <2>. QED
    BY <1>1, <1>3, <1>7, <2>3 DEF Sweep, Counters
<1>8. CASE Shutdown
  <2>1. PICK f : f = [Resting EXCEPT !.pc = "pick", !.todo = Active, !.hand = warm]
    OBVIOUS
  <2>2. f \in Keeping /\ f.pc = "pick"
    BY <1>1, <1>5, <2>1, KeepersRest DEF Unique, Resting
  <2>3. Hands'
    BY <1>1, <1>5, <1>8, <2>1, <2>2, KeeperMoves DEF Shutdown, Set
  <2>4. Unique(warm)'
    BY <1>8, WarmEmpties DEF Shutdown
  <2>. QED
    BY <1>1, <1>8, <2>3, <2>4 DEF Shutdown, Counters
<1>9. ASSUME NEW k \in Keepers, NEW t \in Threads, Pick(k, t) PROVE Counters' /\ Hands'
  <2>1. keeper[k] \in Keeping /\ keeper[k].pc = "pick"
    BY <1>5, <1>9 DEF Pick
  <2>2. CASE keeper' = [keeper EXCEPT ![k].todo = @ \ {t}]
    <3>1. PICK f : f = [keeper[k] EXCEPT !.todo = @ \ {t}]
      OBVIOUS
    <3>2. f \in Keeping /\ f.pc = "pick" /\ f.hand = keeper[k].hand
      BY <2>1, <3>1 DEF Keeping
    <3>3. keeper' = [keeper EXCEPT ![k] = f]
      BY <2>2, <3>1
    <3>4. Hands'
      BY <1>1, <2>1, <3>2, <3>3, KeeperMoves DEF Hands
    <3>. QED
      BY <1>1, <1>9, <3>4 DEF Pick, Counters
  <2>3. CASE keeper' = [keeper EXCEPT ![k].todo = @ \ {t}, ![k].pc = "kill",
                                      ![k].info = [NoInfo EXCEPT !.id = t]]
    <3>1. PICK i, f : /\ i = [NoInfo EXCEPT !.id = t]
                      /\ f = [keeper[k] EXCEPT !.todo = @ \ {t}, !.pc = "kill", !.info = i]
      OBVIOUS
    <3>2. i \in [id : Threads \cup {"nobody"}, n : 0..MaxMade, named : BOOLEAN] /\ i.id = t
      BY <1>5, <1>6, <3>1
    <3>3. f \in Keeping /\ f.pc = "kill" /\ f.info = i /\ f.hand = keeper[k].hand
      BY <2>1, <3>1, <3>2 DEF Keeping
    <3>4. keeper' = [keeper EXCEPT ![k] = f]
      BY <1>5, <2>3, <3>1
    <3>5. Hands'
      BY <1>1, <2>1, <3>2, <3>3, <3>4, KeeperMoves DEF Hands
    <3>. QED
      BY <1>1, <1>9, <3>5 DEF Pick, Counters
  <2>. QED
    BY <1>9, <2>2, <2>3 DEF Pick
<1>10. ASSUME NEW k \in Keepers, Kill(k) PROVE Counters' /\ Unique(warm)' /\ Hands'
  <2>1. PICK t : t = keeper[k].info.id
    OBVIOUS
  <2>2. t \in Threads /\ keeper[k] \in Keeping /\ keeper[k].pc = "kill"
    BY <1>1, <1>5, <1>10, <2>1 DEF Kill, Hands
  <2>3. PICK f : f = [keeper[k] EXCEPT !.pc = "stop", !.info = Tracked(t)]
    OBVIOUS
  <2>4. Tracked(t) \in Infos
    BY <2>2, TrackedInfo
  <2>5. f \in Keeping /\ f.pc = "stop" /\ f.info \in Infos /\ f.hand = keeper[k].hand
    BY <1>6, <2>2, <2>3, <2>4 DEF Keeping
  <2>6. keeper' = [keeper EXCEPT ![k] = f]
    BY <1>5, <1>10, <2>1, <2>3 DEF Kill
  <2>7. Hands'
    BY <1>1, <2>2, <2>5, <2>6, KeeperMoves DEF Hands
  <2>8. Unique(warm)'
    BY <1>1, <1>10, <2>1, WarmLeaves DEF Kill, Untrack
  <2>. QED
    BY <1>1, <1>5, <1>10, <2>7, <2>8 DEF Kill, Untrack, Counters
<1>11. ASSUME NEW k \in Keepers, StopKilled(k) PROVE Counters' /\ Hands'
  <2>1. keeper[k] \in Keeping /\ keeper[k].pc = "stop" /\ keeper[k].info \in Infos
    BY <1>1, <1>5, <1>11 DEF StopKilled, Hands
  <2>2. PICK f : f = [keeper[k] EXCEPT !.pc = "pick", !.info = NoInfo]
    OBVIOUS
  <2>3. f \in Keeping /\ f.pc = "pick" /\ f.hand = keeper[k].hand
    BY <1>5, <1>6, <2>1, <2>2 DEF Keeping
  <2>4. keeper' = [keeper EXCEPT ![k] = f]
    BY <1>5, <1>11, <2>2 DEF StopKilled
  <2>5. Hands'
    BY <1>1, <2>1, <2>3, <2>4, KeeperMoves DEF Hands
  <2>. QED
    BY <1>4, <1>11, <2>1, <2>5 DEF StopKilled
<1>12. ASSUME NEW k \in Keepers, Reap(k) PROVE Counters' /\ Unique(warm)' /\ Hands'
  <2>1. keeper[k] \in Keeping /\ keeper[k].pc = "pick"
    BY <1>5, <1>12 DEF Reap
  <2>2. CASE k = "checker"
    <3>1. PICK f : f = [keeper[k] EXCEPT !.pc = "empty", !.hand = Entries(warm, idle)]
      OBVIOUS
    <3>2. Unique(warm)' /\ Entries(warm, idle) \in Seq(Info)
      BY <1>1, <1>12, <2>2, WarmExpires DEF Reap
    <3>3. f \in Keeping /\ f.pc = "empty"
      BY <2>1, <3>1, <3>2 DEF Keeping
    <3>4. keeper' = [keeper EXCEPT ![k] = f]
      BY <1>5, <1>12, <2>2, <3>1 DEF Reap
    <3>5. Hands'
      BY <1>1, <3>3, <3>4, KeeperMoves
    <3>. QED
      BY <1>1, <1>12, <2>2, <3>2, <3>5 DEF Reap, Counters
  <2>3. CASE k # "checker"
    <3>1. PICK f : f = [keeper[k] EXCEPT !.pc = "empty"]
      OBVIOUS
    <3>2. f \in Keeping /\ f.pc = "empty"
      BY <2>1, <3>1 DEF Keeping
    <3>3. keeper' = [keeper EXCEPT ![k] = f]
      BY <1>5, <1>12, <2>3, <3>1 DEF Reap
    <3>4. Hands'
      BY <1>1, <3>2, <3>3, KeeperMoves
    <3>. QED
      BY <1>1, <1>3, <1>12, <2>3, <3>4 DEF Reap, Counters
  <2>. QED
    BY <2>2, <2>3
<1>13. ASSUME NEW k \in Keepers, StopTaken(k) PROVE Counters' /\ Hands'
  <2>1. keeper[k] \in Keeping /\ keeper[k].pc = "empty"
    BY <1>5, <1>13 DEF StopTaken
  <2>2. PICK h : h = keeper[k].hand
    OBVIOUS
  <2>3. h \in Seq(Info) /\ h # <<>>
    BY <1>13, <2>1, <2>2 DEF StopTaken, Keeping
  <2>4. Head(h) \in Infos /\ Tail(h) \in Seq(Info)
    BY <1>5, <2>3
  <2>5. PICK f : f = [keeper[k] EXCEPT !.hand = Tail(h)]
    OBVIOUS
  <2>6. f \in Keeping /\ f.pc = "empty"
    BY <2>1, <2>4, <2>5 DEF Keeping
  <2>7. keeper' = [keeper EXCEPT ![k] = f]
    BY <1>5, <1>13, <2>2, <2>5 DEF StopTaken
  <2>8. Hands'
    BY <1>1, <2>6, <2>7, KeeperMoves
  <2>. QED
    BY <1>4, <1>13, <2>2, <2>4, <2>8 DEF StopTaken
<1>14. ASSUME NEW k \in Keepers, Finish(k) PROVE Counters' /\ Hands'
  <2>1. PICK f : f = IF k = "checker" THEN Resting ELSE [Resting EXCEPT !.pc = "done"]
    OBVIOUS
  <2>2. f \in Keeping /\ f.pc \in {"rest", "done"} /\ f.hand = <<>>
    BY <2>1, KeepersRest DEF Resting
  <2>3. Hands'
    BY <1>1, <1>14, <2>1, <2>2, KeeperMoves DEF Finish, Set
  <2>. QED
    BY <1>1, <1>14, <2>3 DEF Finish, Counters
<1>15. ASSUME NEW k \in Keepers, Keeps(k) PROVE Counters' /\ Unique(warm)' /\ Hands'
  <2>1. (\E t \in Threads : Pick(k, t)) \/ StopKilled(k) \/ StopTaken(k) \/ Finish(k)
          => UNCHANGED warm
    BY DEF Pick, StopKilled, StopTaken, Finish
  <2>. QED
    BY <1>3, <1>9, <1>10, <1>11, <1>12, <1>13, <1>14, <1>15, <2>1 DEF Keeps
<1>. QED
  BY <1>7, <1>8, <1>15

\* After a restart every running container is parked under its name, or on record as a stray.
LEMMA Restarted ==
    ASSUME TypeInv, Restart
    PROVE  /\ Unique(warm)' /\ made' \in 0..MaxMade /\ faults' \in 0..MaxFaults
           /\ restarts' \in 0..MaxRestarts /\ stray' \subseteq Threads
           /\ \A t \in Threads : container[t] # 0 => WarmInfos(t)' # {} \/ t \in stray'
           /\ \A t : \A i \in WarmInfos(t)' : i.named
<1>1. PICK R : R = {t \in Threads : container[t] # 0}
  OBVIOUS
<1>2. R \subseteq Threads /\ made \in Nat /\ made \in 0..MaxMade /\ faults \in 0..MaxFaults
      /\ restarts \in 0..MaxRestarts
  BY <1>1, PoolAssumption DEF TypeInv, PoolTypes
<1>3. restarts' \in 0..MaxRestarts
  BY <1>2, PoolAssumption DEF Restart
<1>4. \A t : WarmInfos(t)' = {e \in ToSet(warm') : e.id = t}
  BY DEF WarmInfos
<1>5. CASE /\ made + Cardinality(R) <= MaxMade /\ made' = made + Cardinality(R)
           /\ LET order == SetToSeq(R)
              IN warm' = [j \in DOMAIN order |-> [id |-> order[j], n |-> made + j, named |-> TRUE]]
           /\ stray' = {} /\ UNCHANGED faults
  <2>1. /\ Cardinality(R) \in Nat /\ Unique(warm')
        /\ \A t \in R : \E e \in ToSet(warm') : e.id = t
        /\ \A e \in ToSet(warm') : e.named
    <3>1. warm' = Adoption(R, made)
      BY <1>5 DEF Adoption
    <3>2. R \subseteq Threads /\ made \in Nat /\ made + Cardinality(R) <= MaxMade
      BY <1>2, <1>5
    <3>. QED
      BY <3>1, <3>2, Adopted
  <2>2. Unique(warm)' /\ made' \in 0..MaxMade
    BY <1>2, <1>5, <2>1, PoolAssumption DEF Unique
  <2>. QED
    BY <1>1, <1>2, <1>3, <1>4, <1>5, <2>1, <2>2
<1>6. CASE Fault /\ warm' = <<>> /\ stray' = R /\ UNCHANGED made
  <2>1. faults' \in 0..MaxFaults
    BY <1>2, <1>6, PoolAssumption DEF Fault
  <2>2. Unique(warm)' /\ \A t : WarmInfos(t)' = {}
    BY <1>6, WarmEmpties
  <2>. QED
    BY <1>1, <1>2, <1>3, <1>6, <2>1, <2>2
<1>. QED
  BY <1>1, <1>5, <1>6 DEF Restart

\* The types, the pool's entries and what the actors hold are an invariant.
THEOREM PoolTyped == PoolSpec => []TypeInv
<1>1. PoolInit => TypeInv
  <2>. SUFFICES ASSUME PoolInit PROVE TypeInv
    OBVIOUS
  <2>1. Counters
    BY PoolAssumption DEF PoolInit, Counters, Infos
  <2>2. Unique(warm)
    BY DEF PoolInit, Unique
  <2>3. acq \in [Threads -> Acquiring] /\ Owned
    BY DEF PoolInit, Free, Acquiring, Early, Infos, Owned
  <2>4. Hands
    BY KeepersRest DEF PoolInit, Hands, Resting, Keepers
  <2>. QED
    BY <2>1, <2>2, <2>3, <2>4, Parts
<1>2. TypeInv /\ [PoolNext]_poolVars => TypeInv'
  <2>. SUFFICES ASSUME TypeInv, [PoolNext]_poolVars PROVE TypeInv'
    OBVIOUS
  <2>1. Counters /\ Unique(warm) /\ acq \in [Threads -> Acquiring] /\ Hands /\ Owned
    BY Parts
  <2>2. ASSUME UNCHANGED warm PROVE Unique(warm)'
    BY <2>1, <2>2 DEF Unique
  <2>. USE DEF runtime, pool, rest
  <2>3. ASSUME NEW t \in Threads, Get(t) \/ Age(t) PROVE TypeInv'
    <3>1. UNCHANGED <<warm, acq, keeper, active, container, stray, made, faults, restarts>>
          /\ idle' \subseteq Threads
      BY <2>1, <2>3 DEF Get, Age, Counters
    <3>2. Owned'
      BY <2>1, <3>1 DEF Owned
    <3>. QED
      BY <2>1, <2>2, <3>1, <3>2, HandsStay, Parts DEF Counters
  <2>4. ASSUME NEW t \in Threads, Release(t) PROVE TypeInv'
    <3>1. UNCHANGED <<acq, keeper, container, stray, made, faults, restarts>>
          /\ idle' \subseteq Threads /\ active' \in [Threads -> Infos]
      BY <2>1, <2>4 DEF Release, Counters, Infos
    <3>2. active[t] \in Info /\ active[t].id = t
      BY <2>1, <2>4 DEF Release, Active, Owned, OfThread
    <3>3. Unique(warm)'
      BY <2>1, <2>2, <2>4, <3>2, WarmParks DEF Release
    <3>4. Owned'
      BY <2>1, <2>4, <3>1 DEF Release, Owned, Counters
    <3>. QED
      BY <2>1, <3>1, <3>3, <3>4, HandsStay, Parts DEF Counters
  <2>5. ASSUME NEW t \in Threads, Die(t) PROVE TypeInv'
    <3>1. UNCHANGED <<acq, keeper, warm, active, idle, made, restarts>>
          /\ faults' \in 0..MaxFaults /\ container' \in [Threads -> 0..MaxMade]
          /\ stray' \subseteq Threads
      BY <2>1, <2>5, PoolAssumption DEF Die, Fault, Counters
    <3>2. Owned'
      BY <2>1, <3>1 DEF Owned
    <3>. QED
      BY <2>1, <2>2, <3>1, <3>2, HandsStay, Parts DEF Counters
  <2>6. ASSUME Restart PROVE TypeInv'
    <3>1. Unique(warm)' /\ Counters'
      BY <2>1, <2>6, Restarted DEF Restart, Counters, Infos
    <3>2. (acq \in [Threads -> Acquiring])'
      BY <2>6 DEF Restart, Free, Acquiring, Early, Infos
    <3>3. Hands'
      BY <2>6, KeepersRest DEF Restart, Hands, Resting, Keepers
    <3>4. Owned'
      BY <2>6 DEF Restart, Free, Owned
    <3>. QED
      BY <3>1, <3>2, <3>3, <3>4, Parts
  <2>7. CASE UNCHANGED poolVars
    BY <2>1, <2>2, <2>7, HandsStay, Parts DEF poolVars, Counters, Owned
  <2>. QED
    BY <2>3, <2>4, <2>5, <2>6, <2>7, AcquireTypes, KeeperTypes DEF PoolNext, Keeps
<1>. QED
  BY <1>1, <1>2, PTL DEF PoolSpec

\* The maps, the pool and the runtime's containers hold what the provider's code puts there.
THEOREM SandboxesAreTyped == PoolSpec => []PoolTypes
<1>1. TypeInv => PoolTypes
  BY DEF TypeInv
<1>. QED
  BY <1>1, PoolTyped, PTL

-----------------------------------------------------------------------------
(* One place for a sandbox *)

\* An acquire looks in the pool only once the active map has nothing, and goes to the runtime only
\* once neither has; nobody else puts a sandbox of the thread anywhere until it is done.
Placed(t) ==
    /\ active[t] # NoInfo => t \notin Warm
    /\ acq[t].at = "warm" => active[t] = NoInfo
    /\ acq[t].pc \in Late \cup {"stop"} => active[t] = NoInfo /\ t \notin Warm
    /\ acq[t].pc \in Late => acq[t].at = "warm"
    /\ acq[t].pc = "stop" => acq[t].info \in OfThread(t) \cup {NoInfo}
    /\ acq[t].pc \in {"ask", "keep", "drop"} =>
        /\ acq[t].info # NoInfo
        /\ acq[t].at = "active" => active[t] \in {acq[t].info, NoInfo}
        /\ acq[t].at = "warm" => WarmInfo(t) \in {acq[t].info, NoInfo}
PlacedInv == \A t \in Threads : Placed(t)

\* A sandbox may leave its place behind an acquire's back.
LEMMA PlacedShrinks ==
    ASSUME NEW t \in Threads, Placed(t), acq'[t] = acq[t], active'[t] \in {active[t], NoInfo},
           WarmInfos(t)' \in {WarmInfos(t), {}}
    PROVE  Placed(t)'
<1>1. \/ WarmInfo(t)' = WarmInfo(t) /\ ((t \in Warm)' <=> t \in Warm)
      \/ WarmInfo(t)' = NoInfo /\ ~(t \in Warm)'
  BY WarmSame
<1>. QED
  BY <1>1 DEF Placed

\* An acquire takes a sandbox of another thread out of the pool, and touches nothing else of it.
LEMMA OtherThreads ==
    ASSUME TypeInv, NEW t \in Threads, Acquire(t), NEW u \in Threads \ {t}
    PROVE  /\ acq'[u] = acq[u] /\ active'[u] = active[u] /\ WarmInfos(u)' \in {WarmInfos(u), {}}
           /\ WarmInfos(u)' = WarmInfos(u) \/ /\ WarmInfos(u) = {Head(warm)} /\ At(t, "full")
                                              /\ Go(t, "evict", Head(warm))
<1>. USE DEF pool
<1>1. acq \in [Threads -> Acquiring] /\ active \in [Threads -> Infos] /\ Unique(warm)
  BY DEF TypeInv, Actors, PoolTypes, Infos
<1>2. acq'[u] = acq[u]
  BY <1>1 DEF Acquire, Begin, Look, Ask, Keep, Drop, StopDead, Discover, Count, Evict, StopEvicted,
     Start, Ready, NotReady, Cancel, Miss, Go, Leave, Track
<1>3. active'[u] = active[u]
  BY <1>1 DEF Acquire, Begin, Look, Ask, Keep, Drop, StopDead, Discover, Count, Evict, StopEvicted,
     Start, Ready, NotReady, Cancel, Track, Untrack
<1>4. \/ warm' = warm \/ warm' = WithoutWarm(t)
      \/ warm # <<>> /\ warm' = Tail(warm) /\ At(t, "full") /\ Go(t, "evict", Head(warm))
  BY DEF Acquire, Begin, Look, Ask, Keep, Drop, StopDead, Discover, Count, Evict, StopEvicted,
     Start, Ready, NotReady, Cancel, Track, Untrack
<1>5. CASE warm' = warm
  BY <1>2, <1>3, <1>5, WarmStays
<1>6. CASE warm' = WithoutWarm(t)
  BY <1>1, <1>2, <1>3, <1>6, WarmLeaves
<1>7. CASE warm # <<>> /\ warm' = Tail(warm) /\ At(t, "full") /\ Go(t, "evict", Head(warm))
  BY <1>1, <1>2, <1>3, <1>7, WarmEvicts
<1>. QED
  BY <1>4, <1>5, <1>6, <1>7

\* An acquire keeps a sandbox of its thread in one place.
LEMMA AcquirePlaces ==
    ASSUME TypeInv, NEW t \in Threads, Placed(t), Acquire(t)
    PROVE  Placed(t)'
<1>. USE DEF pool, At
<1>1. /\ active \in [Threads -> Infos] /\ acq \in [Threads -> Acquiring] /\ Unique(warm)
      /\ acq[t].at \in {"active", "warm"} /\ Owned
  BY DEF TypeInv, PoolTypes, Actors, Infos, Acquiring
<1>2. /\ t \in Warm => WarmInfo(t) # NoInfo /\ WarmInfo(t) \in OfThread(t)
      /\ t \notin Warm => WarmInfo(t) = NoInfo
      /\ WarmInfo(t) \in Infos /\ active[t] \in Infos /\ NoInfo \in Infos
      /\ acq[t].info \in Infos /\ Tracked(t) \in Infos
  BY <1>1, TrackedInfo, WarmEntry, SomeInfo DEF OfThread, Infos
<1>3. /\ active[t] # NoInfo => active[t] \in OfThread(t)
      /\ acq[t].pc = "wait" => acq[t].info \in OfThread(t)
  BY <1>1 DEF Owned
<1>4. \A i \in OfThread(t) : i # NoInfo /\ i \in Infos
  BY SomeInfo DEF OfThread, Infos
<1>5. {"look", "ask", "keep", "drop", "stop", "discover", "count", "full", "evict", "start", "wait"}
        \subseteq Early \cup Late
  BY DEF Early, Late
<1>6. ASSUME UNCHANGED warm
      PROVE  WarmInfo(t)' = WarmInfo(t) /\ ((t \in Warm)' <=> t \in Warm)
  BY <1>6, WarmStays, WarmSame
<1>7. ASSUME warm' = WithoutWarm(t) PROVE WarmInfo(t)' = NoInfo /\ ~(t \in Warm)'
  BY <1>1, <1>7, WarmLeaves, WarmSame
<1>8. ASSUME Miss(t), UNCHANGED <<active, warm>>, active[t] = NoInfo,
             acq[t].at = "warm" => t \notin Warm
      PROVE  Placed(t)'
  <2>1. /\ acq'[t].pc \in {"look", "discover"}
        /\ acq[t].at = "active" => acq'[t].pc = "look"
        /\ acq[t].at = "warm" => \/ acq'[t].pc = "look" /\ acq'[t].at = "active"
                                 \/ acq'[t].pc = "discover" /\ acq'[t].at = "warm"
    BY <1>1, <1>8, AcquireMisses
  <2>2. /\ acq'[t].pc \notin {"stop", "ask", "keep", "drop"}
        /\ acq'[t].pc \in Late => acq[t].at = "warm" /\ acq'[t].at = "warm"
    BY <1>1, <2>1 DEF Late
  <2>. QED
    BY <1>6, <1>8, <2>2 DEF Placed
<1>9. ASSUME acq'[t].pc = "idle" /\ acq'[t].at = "active", active'[t] # NoInfo => ~(t \in Warm)'
      PROVE  Placed(t)'
  BY <1>9 DEF Placed, Late
<1>10. ASSUME NEW i \in OfThread(t), Track(t, i), ~(t \in Warm)' PROVE Placed(t)'
  BY <1>1, <1>9, <1>10, AcquireEnds DEF Track
<1>11. ASSUME Leave(t), UNCHANGED <<active, warm>> PROVE Placed(t)'
  BY <1>1, <1>6, <1>9, <1>11, AcquireEnds DEF Placed
<1>12. ASSUME NEW pc \in Late, NEW i \in Infos, Go(t, pc, i), acq[t].pc \in Late, UNCHANGED active,
              UNCHANGED warm \/ WarmInfos(t)' = {}
       PROVE  Placed(t)'
  <2>1. active[t] = NoInfo /\ t \notin Warm /\ acq[t].at = "warm"
    BY <1>12 DEF Placed
  <2>2. ~(t \in Warm)'
    BY <1>6, <1>12, <2>1, WarmSame
  <2>3. acq'[t].pc = pc /\ acq'[t].at = "warm"
    BY <1>1, <1>12, <2>1, AcquireGoes
  <2>. QED
    BY <1>12, <2>1, <2>2, <2>3 DEF Placed, Late
<1>13. CASE Begin(t)
  <2>1. acq' = [acq EXCEPT ![t].pc = "look"] /\ UNCHANGED <<active, warm>>
    BY <1>13 DEF Begin
  <2>2. acq'[t].pc = "look" /\ acq'[t].at = acq[t].at
    BY <1>1, <1>5, <2>1, AcquireMoves
  <2>. QED
    BY <1>6, <2>1, <2>2 DEF Placed, Late
<1>14. CASE Look(t)
  <2>1. PICK i : i = IF acq[t].at = "active" THEN active[t] ELSE WarmInfo(t)
    OBVIOUS
  <2>2. UNCHANGED <<active, warm>> /\ i \in Infos /\ IF i = NoInfo THEN Miss(t) ELSE Go(t, "ask", i)
    BY <1>2, <1>14, <2>1 DEF Look
  <2>3. CASE i = NoInfo
    BY <1>1, <1>2, <1>8, <2>1, <2>2, <2>3 DEF Placed
  <2>4. CASE i # NoInfo
    <3>1. acq'[t].pc = "ask" /\ acq'[t].info = i /\ acq'[t].at = acq[t].at
      BY <1>1, <1>5, <2>2, <2>4, AcquireGoes
    <3>. QED
      BY <1>1, <1>6, <2>1, <2>2, <2>4, <3>1 DEF Placed, Late
  <2>. QED
    BY <2>3, <2>4
<1>15. CASE Ask(t)
  <2>1. /\ UNCHANGED <<active, warm>> /\ acq[t].pc = "ask"
        /\ acq'[t].pc \in {"keep", "drop"} /\ acq'[t].info = acq[t].info /\ acq'[t].at = acq[t].at
    BY <1>1, <1>2, <1>5, <1>15, AcquireGoes, AcquireMoves DEF Ask
  <2>. QED
    BY <1>6, <2>1 DEF Placed, Late
<1>16. CASE Keep(t)
  <2>1. PICK i : i = IF acq[t].at = "active" THEN active[t] ELSE WarmInfo(t)
    OBVIOUS
  <2>2. IF i = NoInfo THEN Miss(t) /\ UNCHANGED <<active, warm>>
        ELSE /\ Track(t, i)
             /\ warm' = IF acq[t].at = "active" THEN warm ELSE WithoutWarm(t)
    BY <1>16, <2>1 DEF Keep
  <2>3. CASE i = NoInfo
    BY <1>1, <1>2, <1>8, <2>1, <2>2, <2>3 DEF Placed
  <2>4. CASE i # NoInfo
    <3>1. i \in OfThread(t)
      BY <1>2, <1>3, <2>1, <2>4
    <3>2. ~(t \in Warm)'
      BY <1>1, <1>6, <1>7, <2>1, <2>2, <2>4 DEF Placed
    <3>. QED
      BY <1>10, <2>2, <2>4, <3>1, <3>2
  <2>. QED
    BY <2>3, <2>4
<1>17. CASE Drop(t)
  <2>1. CASE acq[t].info \in {active[t], WarmInfo(t)}
    <3>1. Untrack(t) /\ Go(t, "stop", Tracked(t))
      BY <1>17, <2>1 DEF Drop
    <3>2. acq'[t].pc = "stop" /\ acq'[t].info = Tracked(t) /\ acq'[t].at = acq[t].at
      BY <1>1, <1>2, <1>5, <3>1, AcquireGoes
    <3>3. active'[t] = NoInfo /\ ~(t \in Warm)'
      BY <1>1, <1>7, <3>1 DEF Untrack
    <3>4. Tracked(t) \in OfThread(t) \cup {NoInfo}
      BY <1>2, <1>3 DEF Tracked
    <3>. QED
      BY <3>2, <3>3, <3>4 DEF Placed, Late
  <2>2. CASE acq[t].info \notin {active[t], WarmInfo(t)}
    <3>1. Miss(t) /\ UNCHANGED <<active, warm>> /\ acq[t].pc = "drop"
      BY <1>17, <2>2 DEF Drop
    <3>2. active[t] = NoInfo /\ (acq[t].at = "warm" => t \notin Warm)
      BY <1>1, <1>2, <2>2, <3>1 DEF Placed
    <3>. QED
      BY <1>8, <3>1, <3>2
  <2>. QED
    BY <2>1, <2>2
<1>18. CASE StopDead(t)
  BY <1>8, <1>18 DEF StopDead, Placed
<1>19. CASE Discover(t)
  <2>1. acq[t].pc \in Late /\ acq[t].pc = "discover" /\ "count" \in Late
    BY <1>19 DEF Discover, Late
  <2>2. CASE made < MaxMade /\ Track(t, Made(t, TRUE)) /\ UNCHANGED warm
    <3>1. Made(t, TRUE) \in OfThread(t)
      BY <2>2, PoolAssumption DEF TypeInv, PoolTypes, Made, Info, OfThread
    <3>2. ~(t \in Warm)'
      BY <1>6, <2>1, <2>2 DEF Placed
    <3>. QED
      BY <1>10, <2>2, <3>1, <3>2
  <2>3. CASE Go(t, "count", NoInfo) /\ UNCHANGED <<active, warm>>
    BY <1>2, <1>12, <2>1, <2>3
  <2>. QED
    BY <1>19, <2>2, <2>3 DEF Discover
<1>20. CASE Count(t)
  BY <1>2, <1>12, <1>20 DEF Count, Late
<1>21. CASE Evict(t)
  <2>1. CASE warm = <<>>
    BY <1>2, <1>12, <1>21, <2>1 DEF Evict, Late
  <2>2. CASE warm # <<>>
    <3>1. /\ Head(warm) \in Infos /\ Go(t, "evict", Head(warm)) /\ UNCHANGED active
          /\ WarmInfos(t)' \in {WarmInfos(t), {}}
      BY <1>1, <1>21, <2>2, WarmEvicts DEF Evict, Infos
    <3>2. acq[t].pc \in Late /\ "evict" \in Late /\ WarmInfos(t) = {}
      BY <1>21, WarmSame DEF Evict, Placed, Late
    <3>. QED
      BY <1>12, <3>1, <3>2
  <2>. QED
    BY <2>1, <2>2
<1>22. CASE StopEvicted(t)
  BY <1>2, <1>12, <1>22 DEF StopEvicted, Late
<1>23. CASE Start(t)
  <2>1. CASE made < MaxMade
             /\ acq' = [acq EXCEPT ![t].pc = "wait", ![t].info = Made(t, container[t] # 0)]
    <3>1. PICK i : i = Made(t, container[t] # 0)
      OBVIOUS
    <3>2. i \in Infos
      BY <2>1, <3>1, PoolAssumption DEF TypeInv, PoolTypes, Made, Info, Infos
    <3>3. Go(t, "wait", i) /\ "wait" \in Late /\ acq[t].pc \in Late /\ UNCHANGED <<active, warm>>
      BY <1>23, <2>1, <3>1 DEF Go, Start, Late
    <3>. QED
      BY <1>12, <3>2, <3>3
  <2>. QED
    BY <1>11, <1>23, <2>1 DEF Start
<1>24. CASE Ready(t)
  <2>1. Track(t, acq[t].info) /\ acq[t].pc = "wait" /\ acq[t].pc \in Late /\ UNCHANGED warm
    BY <1>24 DEF Ready, Late
  <2>2. ~(t \in Warm)'
    BY <1>6, <2>1 DEF Placed
  <2>. QED
    BY <1>3, <1>10, <2>1, <2>2
<1>25. CASE NotReady(t)
  BY <1>11, <1>25 DEF NotReady
<1>26. CASE Cancel(t)
  BY <1>11, <1>26 DEF Cancel
<1>. QED
  BY <1>13, <1>14, <1>15, <1>16, <1>17, <1>18, <1>19, <1>20, <1>21, <1>22, <1>23, <1>24, <1>25,
     <1>26 DEF Acquire

\* The idle checker and shutdown only take sandboxes out.
LEMMA KeepersTake ==
    ASSUME TypeInv, Sweep \/ Shutdown \/ \E k \in Keepers : Keeps(k), NEW t \in Threads
    PROVE  /\ acq'[t] = acq[t] /\ active'[t] \in {active[t], NoInfo}
           /\ WarmInfos(t)' \in {WarmInfos(t), {}}
<1>. USE DEF pool
<1>1. active \in [Threads -> Infos] /\ Unique(warm) /\ keeper \in [Keepers -> Keeping] /\ Hands
  BY Parts DEF TypeInv, Actors, PoolTypes, Infos
<1>2. UNCHANGED acq /\ (UNCHANGED active \/ \E u : active' = [active EXCEPT ![u] = NoInfo])
  BY DEF Keeps, Sweep, Shutdown, Pick, Kill, StopKilled, Reap, StopTaken, Finish, Untrack
<1>3. \/ warm' = warm \/ warm' = <<>> \/ warm' = Entries(warm, Threads \ idle)
      \/ \E k \in Keepers : Kill(k) /\ warm' = WithoutWarm(keeper[k].info.id)
  BY DEF Keeps, Sweep, Shutdown, Pick, Kill, StopKilled, Reap, StopTaken, Finish, Untrack
<1>4. ASSUME NEW k \in Keepers, Kill(k), warm' = WithoutWarm(keeper[k].info.id)
      PROVE  WarmInfos(t)' \in {WarmInfos(t), {}}
  <2>1. PICK u \in Threads : u = keeper[k].info.id
    BY <1>1, <1>4 DEF Kill, Hands
  <2>2. warm' = WithoutWarm(u)
    BY <1>4, <2>1
  <2>. QED
    BY <1>1, <2>2, WarmLeaves
<1>5. WarmInfos(t)' \in {WarmInfos(t), {}}
  BY <1>1, <1>3, <1>4, WarmStays, WarmEmpties, WarmExpires
<1>. QED
  BY <1>1, <1>2, <1>5

\* Acquires find and leave each sandbox in one place.
LEMMA SandboxesArePlaced == PoolSpec => []PlacedInv
<1>1. PoolInit => PlacedInv
  BY DEF PoolInit, PlacedInv, Placed, Free, Warm, ToSet, Late
<1>2. TypeInv /\ PlacedInv /\ [PoolNext]_poolVars => PlacedInv'
  <2>. SUFFICES ASSUME TypeInv, PlacedInv, [PoolNext]_poolVars, NEW t \in Threads PROVE Placed(t)'
    BY DEF PlacedInv
  <2>. USE DEF pool
  <2>1. Placed(t) /\ active \in [Threads -> Infos] /\ acq \in [Threads -> Acquiring]
        /\ Unique(warm) /\ Owned
    BY DEF PlacedInv, TypeInv, PoolTypes, Actors, Infos
  <2>2. ASSUME UNCHANGED <<active, warm, acq>> PROVE Placed(t)'
    BY <2>1, <2>2, WarmStays, PlacedShrinks
  <2>3. ASSUME NEW u \in Threads, Acquire(u) PROVE Placed(t)'
    <3>1. CASE u = t
      BY <2>1, <2>3, <3>1, AcquirePlaces
    <3>2. CASE u # t
      <4>1. acq'[t] = acq[t] /\ active'[t] = active[t] /\ WarmInfos(t)' \in {WarmInfos(t), {}}
        BY <2>3, <3>2, OtherThreads
      <4>. QED
        BY <2>1, <4>1, PlacedShrinks
    <3>. QED
      BY <3>1, <3>2
  <2>4. ASSUME NEW u \in Threads, Get(u) \/ Age(u) \/ Die(u) PROVE Placed(t)'
    BY <2>2, <2>4 DEF Get, Age, Die
  <2>5. ASSUME NEW u \in Threads, Release(u) PROVE Placed(t)'
    <3>1. UNCHANGED acq /\ active' = [active EXCEPT ![u] = NoInfo] /\ active[u] \in OfThread(u)
          /\ warm' = IF u \in Warm THEN warm ELSE Append(warm, active[u])
      BY <2>1, <2>5 DEF Release, Active, Owned
    <3>2. u \notin Warm /\ active[u] # NoInfo
      BY <2>5 DEF Release, Active, PlacedInv, Placed
    <3>3. /\ Unique(warm)' /\ WarmInfos(u)' = {active[u]}
          /\ \A v \in Threads \ {u} : WarmInfos(v)' = WarmInfos(v)
      BY <2>1, <3>1, <3>2, WarmParks DEF OfThread
    <3>4. CASE u # t
      <4>1. active'[t] = active[t] /\ acq'[t] = acq[t] /\ WarmInfos(t)' = WarmInfos(t)
        BY <2>1, <3>1, <3>3, <3>4
      <4>. QED
        BY <2>1, <4>1, PlacedShrinks
    <3>5. CASE u = t
      <4>1. active'[t] = NoInfo /\ acq'[t] = acq[t]
        BY <2>1, <3>1, <3>5
      <4>2. acq[t].at # "warm" /\ acq[t].pc \notin Late \cup {"stop"}
        BY <2>1, <3>2, <3>5 DEF Placed
      <4>. QED
        BY <2>1, <4>1, <4>2 DEF Placed
    <3>. QED
      BY <3>4, <3>5
  <2>6. ASSUME Sweep \/ Shutdown \/ \E k \in Keepers : Keeps(k) PROVE Placed(t)'
    BY <2>1, <2>6, KeepersTake, PlacedShrinks
  <2>7. ASSUME Restart PROVE Placed(t)'
    BY <2>7 DEF Restart, Free, Placed, Late
  <2>. QED
    BY <2>2, <2>3, <2>4, <2>5, <2>6, <2>7 DEF PoolNext, Keeps, poolVars
<1>. QED
  BY <1>1, <1>2, PoolTyped, PTL DEF PoolSpec

\* A sandbox is active or parked, never both, and parked once, in every run of acquires, releases,
\* the idle checker and shutdowns.
THEOREM SandboxesAreInOnePlace == PoolSpec => []NeverBoth
<1>1. TypeInv /\ PlacedInv => NeverBoth
  <2>. SUFFICES ASSUME TypeInv, PlacedInv PROVE NeverBoth
    OBVIOUS
  <2>1. Active \cap Warm = {}
    BY DEF PlacedInv, Placed, Active
  <2>2. Cardinality(Warm) = Len(warm)
    BY CountedOnce DEF TypeInv, Warm
  <2>. QED
    BY <2>1, <2>2 DEF NeverBoth
<1>. QED
  BY <1>1, PoolTyped, SandboxesArePlaced, PTL

-----------------------------------------------------------------------------
(* No container is lost *)

\* An info that a map or a waiting acquire has for a thread stops the thread's container: it has
\* the container's id, or goes by the name.
Stops(i, c) == i.named \/ c = i.n
Known(t) ==
    container[t] # 0 =>
        /\ active[t] # NoInfo => Stops(active[t], container[t])
        /\ \A i \in WarmInfos(t) : Stops(i, container[t])
        /\ acq[t].pc = "wait" => Stops(acq[t].info, container[t])
KnownInv == \A t \in Threads : Known(t)

\* A step that adds no info for a thread.
LEMMA KnownShrinks ==
    ASSUME NEW t \in Threads, Known(t), container'[t] # 0 => container'[t] = container[t],
           active'[t] \in {active[t], NoInfo}, WarmInfos(t)' \subseteq WarmInfos(t),
           acq'[t] = acq[t] \/ acq'[t].pc # "wait"
    PROVE  Known(t)'
BY DEF Known

\* An acquire stops a container or starts that of its thread.
LEMMA AcquireContainers ==
    ASSUME TypeInv, NEW t \in Threads, Acquire(t), NEW u \in Threads, container'[u] # 0
    PROVE  /\ \/ container'[u] = container[u]
              \/ /\ u = t /\ Start(t) /\ container[t] = 0
                 /\ container'[t] = made + 1 /\ acq'[t].pc = "wait"
           /\ u \in stray => u \in stray' \/ (u = t /\ active'[t] # NoInfo)
<1>. USE DEF pool, runtime
<1>1. /\ active \in [Threads -> Infos] /\ acq \in [Threads -> Acquiring] /\ PoolTypes
      /\ container \in [Threads -> 0..MaxMade] /\ stray \subseteq Threads /\ Owned
      /\ acq[t].info \in Infos /\ Unique(warm)
  BY TrackedInfo DEF TypeInv, PoolTypes, Actors, Infos
<1>2. ASSUME NEW i \in Infos, Destroy(i)
      PROVE  container'[u] = container[u] /\ (u \in stray => u \in stray')
  BY <1>1, <1>2, Destroyed
<1>3. ASSUME NEW i, i # NoInfo, Track(t, i), UNCHANGED container
      PROVE  /\ container'[u] = container[u]
             /\ u \in stray => u \in stray' \/ (u = t /\ active'[t] # NoInfo)
  BY <1>1, <1>3 DEF Track
<1>. DEFINE Same == container'[u] = container[u]
            Recorded == u \in stray => u \in stray' \/ (u = t /\ active'[t] # NoInfo)
<1>4. CASE Begin(t) \/ Look(t) \/ Ask(t) \/ Drop(t) \/ Count(t) \/ Evict(t)
  <2>1. Same /\ Recorded
    BY <1>4 DEF Begin, Look, Ask, Drop, Count, Evict
  <2>. QED
    BY <2>1
<1>5. CASE StopDead(t) \/ StopEvicted(t) \/ NotReady(t)
  <2>1. Same /\ Recorded
    BY <1>1, <1>2, <1>5 DEF StopDead, StopEvicted, NotReady
  <2>. QED
    BY <2>1
<1>6. CASE Keep(t)
  <2>1. Same /\ Recorded
    BY <1>3, <1>6 DEF Keep
  <2>. QED
    BY <2>1
<1>7. CASE Discover(t)
  <2>1. UNCHANGED container /\ (UNCHANGED stray \/ Track(t, Made(t, TRUE)))
    BY <1>7 DEF Discover
  <2>2. Made(t, TRUE) # NoInfo
    <3>1. Made(t, TRUE).named /\ ~NoInfo.named
      BY DEF Made, NoInfo
    <3>. QED
      BY <3>1
  <2>3. Same /\ Recorded
    BY <1>3, <2>1, <2>2
  <2>. QED
    BY <2>3
<1>8. CASE Start(t)
  <2>1. CASE container' = [container EXCEPT ![t] = IF @ = 0 THEN made + 1 ELSE @]
             /\ acq' = [acq EXCEPT ![t].pc = "wait", ![t].info = Made(t, container[t] # 0)]
    <3>1. acq'[t].pc = "wait" /\ UNCHANGED stray
      BY <1>1, <1>8, <2>1 DEF Start, Acquiring
    <3>2. CASE u = t /\ container[t] = 0
      <4>1. container'[t] = made + 1
        BY <1>1, <2>1, <3>2
      <4>. QED
        BY <1>8, <3>1, <3>2, <4>1
    <3>3. CASE ~(u = t /\ container[t] = 0)
      <4>1. Same /\ Recorded
        BY <1>1, <2>1, <3>1, <3>3
      <4>. QED
        BY <4>1
    <3>. QED
      BY <3>2, <3>3
  <2>2. CASE UNCHANGED <<container, stray>>
    <3>1. Same /\ Recorded
      BY <2>2
    <3>. QED
      BY <3>1
  <2>. QED
    BY <1>8, <2>1, <2>2 DEF Start
<1>9. CASE Ready(t)
  <2>1. acq[t].info # NoInfo
    BY <1>1, <1>9, SomeInfo DEF Ready, At, Owned, OfThread
  <2>2. Same /\ Recorded
    BY <1>3, <1>9, <2>1 DEF Ready
  <2>. QED
    BY <2>2
<1>10. CASE Cancel(t)
  <2>1. Same /\ Recorded
    BY <1>10 DEF Cancel
  <2>. QED
    BY <2>1
<1>. QED
  BY <1>4, <1>5, <1>6, <1>7, <1>8, <1>9, <1>10 DEF Acquire

\* An acquire knows the container of its thread.
LEMMA AcquireKnows ==
    ASSUME TypeInv, NEW t \in Threads, Placed(t), Known(t), Acquire(t)
    PROVE  Known(t)'
<1>. USE DEF pool
<1>1. /\ active \in [Threads -> Infos] /\ acq \in [Threads -> Acquiring] /\ Owned /\ Unique(warm)
  BY DEF TypeInv, PoolTypes, Actors, Infos
<1>2. UNCHANGED warm => WarmInfos(t)' \subseteq WarmInfos(t)
  BY WarmStays
<1>3. CASE Start(t)
  <2>1. active[t] = NoInfo /\ WarmInfos(t) = {} /\ UNCHANGED <<active, warm>>
    BY <1>3, WarmSame DEF Start, At, Placed, Late
  <2>2. active'[t] = NoInfo /\ WarmInfos(t)' = {}
    BY <2>1, WarmStays
  <2>3. CASE acq' = [acq EXCEPT ![t].pc = "wait", ![t].info = Made(t, container[t] # 0)]
             /\ container' = [container EXCEPT ![t] = IF @ = 0 THEN made + 1 ELSE @]
    <3>1. acq'[t].info = Made(t, container[t] # 0)
      BY <1>1, <2>3 DEF Acquiring
    <3>2. container'[t] = IF container[t] = 0 THEN made + 1 ELSE container[t]
      BY <2>3 DEF TypeInv, PoolTypes
    <3>3. Stops(acq'[t].info, container'[t])
      <4>1. CASE container[t] = 0
        BY <3>1, <3>2, <4>1 DEF Stops, Made
      <4>2. CASE container[t] # 0
        <5>1. Made(t, container[t] # 0).named = (container[t] # 0)
          BY DEF Made
        <5>. QED
          BY <3>1, <4>2, <5>1 DEF Stops
      <4>. QED
        BY <4>1, <4>2
    <3>. QED
      BY <2>2, <3>3 DEF Known
  <2>4. CASE Leave(t)
    BY <1>1, <2>2, <2>4, AcquireEnds DEF Known
  <2>. QED
    BY <1>3, <2>3, <2>4 DEF Start
<1>4. CASE ~Start(t)
  <2>1. container'[t] # 0 => container'[t] = container[t]
    BY <1>4, AcquireContainers
  <2>2. ASSUME NEW i \in OfThread(t), Track(t, i), container[t] # 0 => Stops(i, container[t]),
               WarmInfos(t)' \subseteq WarmInfos(t)
        PROVE  Known(t)'
    <3>1. active'[t] = i /\ acq'[t].pc # "wait"
      BY <1>1, <2>2, AcquireEnds DEF Track
    <3>. QED
      BY <2>1, <2>2, <3>1 DEF Known
  <2>3. ASSUME UNCHANGED active \/ active' = [active EXCEPT ![t] = NoInfo],
               WarmInfos(t)' \subseteq WarmInfos(t), acq'[t].pc # "wait"
        PROVE  Known(t)'
    BY <1>1, <2>1, <2>3, KnownShrinks
  <2>4. {"look", "ask", "keep", "drop", "stop", "discover", "count", "full", "evict", "start"}
          \subseteq Early \cup Late
    BY DEF Early, Late
  <2>5. acq[t].info \in Infos /\ active[t] \in Infos /\ WarmInfo(t) \in Infos /\ NoInfo \in Infos
        /\ Tracked(t) \in Infos
    BY TrackedInfo DEF Infos
  <2>6. warm' = WithoutWarm(t) => WarmInfos(t)' \subseteq WarmInfos(t)
    BY <1>1, WarmLeaves
  <2>7. CASE Begin(t)
    <3>1. acq' = [acq EXCEPT ![t].pc = "look"] /\ UNCHANGED <<active, warm>>
      BY <2>7 DEF Begin
    <3>2. acq'[t].pc # "wait"
      BY <1>1, <2>4, <3>1, AcquireMoves
    <3>. QED
      BY <1>2, <2>3, <3>1, <3>2
  <2>8. CASE Look(t)
    <3>1. acq'[t].pc # "wait" /\ UNCHANGED <<active, warm>>
      BY <1>1, <2>4, <2>5, <2>8, AcquireGoes, AcquireMisses DEF Look
    <3>. QED
      BY <1>2, <2>3, <3>1
  <2>9. CASE Ask(t)
    <3>1. acq'[t].pc # "wait" /\ UNCHANGED <<active, warm>>
      BY <1>1, <2>4, <2>5, <2>9, AcquireGoes, AcquireMoves DEF Ask
    <3>. QED
      BY <1>2, <2>3, <3>1
  <2>10. CASE Keep(t)
    <3>1. PICK i : i = IF acq[t].at = "active" THEN active[t] ELSE WarmInfo(t)
      OBVIOUS
    <3>2. IF i = NoInfo THEN Miss(t) /\ UNCHANGED <<active, warm>>
          ELSE /\ Track(t, i)
               /\ warm' = IF acq[t].at = "active" THEN warm ELSE WithoutWarm(t)
      BY <2>10, <3>1 DEF Keep
    <3>3. CASE i = NoInfo
      BY <1>1, <1>2, <2>3, <3>2, <3>3, AcquireMisses
    <3>4. CASE i # NoInfo
      <4>1. i \in OfThread(t) /\ (i = active[t] \/ i \in WarmInfos(t))
        BY <1>1, <3>1, <3>4, WarmEntry DEF Owned, OfThread, WarmInfos
      <4>2. container[t] # 0 => Stops(i, container[t])
        BY <3>4, <4>1 DEF Known
      <4>. QED
        BY <1>2, <2>2, <2>6, <3>2, <3>4, <4>1, <4>2
    <3>. QED
      BY <3>3, <3>4
  <2>11. CASE Drop(t)
    <3>1. CASE Miss(t) /\ UNCHANGED <<active, warm>>
      BY <1>1, <1>2, <2>3, <3>1, AcquireMisses
    <3>2. CASE Untrack(t) /\ Go(t, "stop", Tracked(t))
      <4>1. acq'[t].pc # "wait"
        BY <1>1, <2>4, <2>5, <3>2, AcquireGoes
      <4>. QED
        BY <2>3, <2>6, <3>2, <4>1 DEF Untrack
    <3>. QED
      BY <2>11, <3>1, <3>2 DEF Drop
  <2>12. CASE StopDead(t)
    BY <1>1, <1>2, <2>3, <2>12, AcquireMisses DEF StopDead
  <2>13. CASE Discover(t)
    <3>1. CASE made < MaxMade /\ Track(t, Made(t, TRUE)) /\ UNCHANGED warm
      <4>1. Made(t, TRUE) \in OfThread(t) /\ Made(t, TRUE).named
        BY <3>1, PoolAssumption DEF TypeInv, PoolTypes, Made, Info, OfThread
      <4>. QED
        BY <1>2, <2>2, <3>1, <4>1 DEF Stops
    <3>2. CASE Go(t, "count", NoInfo) /\ UNCHANGED <<active, warm>>
      <4>1. acq'[t].pc # "wait"
        BY <1>1, <2>4, <2>5, <3>2, AcquireGoes
      <4>. QED
        BY <1>2, <2>3, <3>2, <4>1
    <3>. QED
      BY <2>13, <3>1, <3>2 DEF Discover
  <2>14. CASE Count(t)
    <3>1. acq'[t].pc # "wait" /\ UNCHANGED <<active, warm>>
      BY <1>1, <2>4, <2>5, <2>14, AcquireGoes DEF Count
    <3>. QED
      BY <1>2, <2>3, <3>1
  <2>15. CASE Evict(t)
    <3>1. CASE warm = <<>>
      <4>1. acq'[t].pc # "wait" /\ UNCHANGED <<active, warm>>
        BY <1>1, <2>4, <2>5, <2>15, <3>1, AcquireGoes DEF Evict
      <4>. QED
        BY <1>2, <2>3, <4>1
    <3>2. CASE warm # <<>>
      <4>1. Head(warm) \in Infos /\ UNCHANGED active /\ WarmInfos(t)' \subseteq WarmInfos(t)
        BY <1>1, <2>15, <3>2, WarmEvicts DEF Evict, Infos
      <4>2. acq'[t].pc # "wait"
        BY <1>1, <2>4, <2>15, <3>2, <4>1, AcquireGoes DEF Evict
      <4>. QED
        BY <2>3, <4>1, <4>2
    <3>. QED
      BY <3>1, <3>2
  <2>16. CASE StopEvicted(t)
    <3>1. acq'[t].pc # "wait" /\ UNCHANGED <<active, warm>>
      BY <1>1, <2>4, <2>5, <2>16, AcquireGoes DEF StopEvicted
    <3>. QED
      BY <1>2, <2>3, <3>1
  <2>17. CASE Ready(t)
    <3>1. Track(t, acq[t].info) /\ UNCHANGED warm /\ acq[t].pc = "wait"
      BY <2>17 DEF Ready, At
    <3>2. acq[t].info \in OfThread(t) /\ (container[t] # 0 => Stops(acq[t].info, container[t]))
      BY <1>1, <3>1 DEF Owned, Known
    <3>. QED
      BY <1>2, <2>2, <3>1, <3>2
  <2>18. CASE NotReady(t) \/ Cancel(t)
    BY <1>1, <1>2, <2>3, <2>18, AcquireEnds DEF NotReady, Cancel
  <2>. QED
    BY <1>4, <2>7, <2>8, <2>9, <2>10, <2>11, <2>12, <2>13, <2>14, <2>15, <2>16, <2>17, <2>18
       DEF Acquire
<1>. QED
  BY <1>3, <1>4

\* The idle checker and shutdown stop containers, start none and forget none.
LEMMA KeeperContainers ==
    ASSUME TypeInv, Sweep \/ Shutdown \/ \E k \in Keepers : Keeps(k), NEW u \in Threads,
           container'[u] # 0
    PROVE  container'[u] = container[u] /\ (u \in stray => u \in stray')
<1>1. PoolTypes /\ Hands /\ NoInfo \in Infos /\ Info \subseteq Infos
      /\ keeper \in [Keepers -> Keeping]
  BY Parts DEF TypeInv, Infos, Actors
<1>2. ASSUME NEW i \in Infos, Destroy(i)
      PROVE  container'[u] = container[u] /\ (u \in stray => u \in stray')
  BY <1>1, <1>2, Destroyed
<1>3. ASSUME UNCHANGED <<container, stray>>
      PROVE  container'[u] = container[u] /\ (u \in stray => u \in stray')
  BY <1>3
<1>4. CASE Sweep \/ Shutdown
  BY <1>3, <1>4 DEF Sweep, Shutdown, runtime
<1>5. ASSUME NEW k \in Keepers, Keeps(k)
      PROVE  container'[u] = container[u] /\ (u \in stray => u \in stray')
  <2>1. CASE (\E t \in Threads : Pick(k, t)) \/ Kill(k) \/ Reap(k) \/ Finish(k)
    BY <1>3, <2>1 DEF Pick, Kill, Reap, Finish, runtime
  <2>2. CASE StopKilled(k)
    BY <1>1, <1>2, <2>2 DEF StopKilled, Hands
  <2>3. CASE StopTaken(k)
    <3>1. PICK h : h = keeper[k].hand
      OBVIOUS
    <3>2. h \in Seq(Info) /\ h # <<>> /\ Destroy(Head(h))
      BY <1>1, <2>3, <3>1 DEF StopTaken, Keeping
    <3>3. Head(h) \in Infos
      BY <1>1, <3>2
    <3>. QED
      BY <1>2, <3>2, <3>3
  <2>. QED
    BY <1>5, <2>1, <2>2, <2>3 DEF Keeps
<1>. QED
  BY <1>4, <1>5

\* Whoever has an info of a thread knows the thread's container.
LEMMA ContainersAreKnown == PoolSpec => []KnownInv
<1>1. PoolInit => KnownInv
  BY DEF PoolInit, KnownInv, Known
<1>2. TypeInv /\ PlacedInv /\ KnownInv /\ [PoolNext]_poolVars => KnownInv'
  <2>. SUFFICES ASSUME TypeInv, PlacedInv, KnownInv, [PoolNext]_poolVars, NEW t \in Threads
                PROVE  Known(t)'
    BY DEF KnownInv
  <2>. USE DEF pool, runtime
  <2>1. Placed(t) /\ Known(t) /\ active \in [Threads -> Infos] /\ Unique(warm) /\ Owned
        /\ container \in [Threads -> 0..MaxMade]
    BY DEF PlacedInv, KnownInv, TypeInv, PoolTypes, Infos
  <2>2. ASSUME UNCHANGED <<active, warm, acq>>, container'[t] # 0 => container'[t] = container[t]
        PROVE  Known(t)'
    BY <2>1, <2>2, WarmStays, KnownShrinks
  <2>3. ASSUME NEW u \in Threads, Acquire(u) PROVE Known(t)'
    <3>1. CASE u = t
      BY <2>1, <2>3, <3>1, AcquireKnows
    <3>2. CASE u # t
      <4>1. acq'[t] = acq[t] /\ active'[t] = active[t] /\ WarmInfos(t)' \in {WarmInfos(t), {}}
        BY <2>3, <3>2, OtherThreads
      <4>2. container'[t] # 0 => container'[t] = container[t]
        BY <2>3, <3>2, AcquireContainers
      <4>. QED
        BY <2>1, <4>1, <4>2, KnownShrinks
    <3>. QED
      BY <3>1, <3>2
  <2>4. ASSUME NEW u \in Threads, Get(u) \/ Age(u) \/ Die(u) PROVE Known(t)'
    <3>1. UNCHANGED <<active, warm, acq>>
      BY <2>4 DEF Get, Age, Die
    <3>2. container'[t] # 0 => container'[t] = container[t]
      BY <2>1, <2>4 DEF Get, Age, Die
    <3>. QED
      BY <2>2, <3>1, <3>2
  <2>5. ASSUME NEW u \in Threads, Release(u) PROVE Known(t)'
    <3>1. UNCHANGED <<acq, container>> /\ active' = [active EXCEPT ![u] = NoInfo]
          /\ active[u] \in OfThread(u) /\ active[u] # NoInfo
          /\ warm' = IF u \in Warm THEN warm ELSE Append(warm, active[u])
      BY <2>1, <2>5 DEF Release, Active, Owned
    <3>2. u \notin Warm
      BY <2>5, <3>1 DEF PlacedInv, Placed
    <3>3. /\ WarmInfos(u)' = {active[u]}
          /\ \A v \in Threads \ {u} : WarmInfos(v)' = WarmInfos(v)
      BY <2>1, <3>1, <3>2, WarmParks DEF OfThread
    <3>4. CASE u # t
      <4>1. active'[t] = active[t] /\ acq'[t] = acq[t] /\ WarmInfos(t)' = WarmInfos(t)
        BY <2>1, <3>1, <3>3, <3>4
      <4>. QED
        BY <2>1, <3>1, <4>1, KnownShrinks
    <3>5. CASE u = t
      <4>1. active'[t] = NoInfo /\ acq'[t] = acq[t] /\ container'[t] = container[t]
        BY <2>1, <3>1, <3>5
      <4>. QED
        BY <2>1, <3>1, <3>3, <3>5, <4>1 DEF Known
    <3>. QED
      BY <3>4, <3>5
  <2>6. ASSUME Sweep \/ Shutdown \/ \E k \in Keepers : Keeps(k) PROVE Known(t)'
    <3>1. acq'[t] = acq[t] /\ active'[t] \in {active[t], NoInfo}
          /\ WarmInfos(t)' \in {WarmInfos(t), {}}
      BY <2>6, KeepersTake
    <3>2. container'[t] # 0 => container'[t] = container[t]
      BY <2>6, KeeperContainers
    <3>. QED
      BY <2>1, <3>1, <3>2, KnownShrinks
  <2>7. ASSUME Restart PROVE Known(t)'
    <3>1. active'[t] = NoInfo /\ acq'[t].pc = "idle"
      BY <2>7 DEF Restart, Free
    <3>2. \A i \in WarmInfos(t)' : i.named
      BY <2>7, Restarted
    <3>. QED
      BY <3>1, <3>2 DEF Known, Stops
  <2>. QED
    BY <2>2, <2>3, <2>4, <2>5, <2>6, <2>7 DEF PoolNext, Keeps, poolVars
<1>. QED
  BY <1>1, <1>2, PoolTyped, SandboxesArePlaced, PTL DEF PoolSpec

\* The infos that an acquire or a keeper has taken out of the maps to stop their containers.
AcquireHas(t) == IF acq[t].pc \in {"stop", "evict"} THEN {acq[t].info} ELSE {}
KeeperHas(k) == ToSet(keeper[k].hand) \cup (IF keeper[k].pc = "stop" THEN {keeper[k].info} ELSE {})

\* Who answers for the container of a thread: a map or the record of the strays, the acquire that
\* waits for it, or somebody who is about to stop it with an info that stops it.
Tracks(t) == active[t] # NoInfo \/ t \in Warm \/ t \in stray
Waits(t) == acq[t].pc = "wait"
AcquireStops(t) == \E u \in Threads : \E i \in AcquireHas(u) : Meant(i, t, container[t])
KeeperStops(t) == \E k \in Keepers : \E i \in KeeperHas(k) : Meant(i, t, container[t])
Held(t) == container[t] # 0 => Tracks(t) \/ Waits(t) \/ AcquireStops(t) \/ KeeperStops(t)
HeldInv == \A t \in Threads : Held(t)

\* An info that is known to belong to a thread's container is meant for it.
LEMMA KnownIsMeant ==
    ASSUME TypeInv, NEW t \in Threads, Known(t), container[t] # 0
    PROVE  /\ active[t] # NoInfo => Meant(active[t], t, container[t])
           /\ \A i \in WarmInfos(t) : Meant(i, t, container[t])
           /\ Waits(t) => Meant(acq[t].info, t, container[t])
           /\ active[t] # NoInfo \/ t \in Warm => Meant(Tracked(t), t, container[t])
<1>1. Owned /\ Unique(warm) /\ \A i \in OfThread(t) : i # NoInfo /\ i.id = t
  BY SomeInfo DEF TypeInv, OfThread
<1>2. active[t] # NoInfo => Meant(active[t], t, container[t])
  BY <1>1 DEF Known, Stops, Meant, Owned
<1>3. ASSUME NEW i \in WarmInfos(t) PROVE Meant(i, t, container[t])
  <2>1. i \in Info /\ i.id = t
    BY <1>1, UniqueDomain DEF WarmInfos
  <2>. QED
    BY <1>3, <2>1, SomeInfo DEF Known, Stops, Meant
<1>4. Waits(t) => Meant(acq[t].info, t, container[t])
  BY <1>1 DEF Known, Stops, Meant, Owned, Waits
<1>5. t \in Warm => WarmInfo(t) \in WarmInfos(t)
  BY <1>1, WarmEntry DEF WarmInfos
<1>. QED
  BY <1>2, <1>3, <1>4, <1>5 DEF Tracked

\* The container of a thread that a map has is still answered for after an acquire's step.
LEMMA AcquireTracks ==
    ASSUME TypeInv, NEW t \in Threads, Placed(t), Known(t), Acquire(t),
           container'[t] # 0, container'[t] = container[t], active[t] # NoInfo \/ t \in Warm
    PROVE  Tracks(t)' \/ AcquireStops(t)'
<1>. USE DEF pool, At
<1>1. active \in [Threads -> Infos] /\ acq \in [Threads -> Acquiring] /\ Unique(warm)
  BY DEF TypeInv, PoolTypes, Actors, Infos
<1>2. acq[t].pc \notin Late \cup {"stop"}
  BY DEF Placed
<1>3. ASSUME UNCHANGED <<active, warm>> PROVE Tracks(t)'
  BY <1>3, WarmStays, WarmSame DEF Tracks
<1>4. Begin(t) \/ Look(t) \/ Ask(t) \/ Keep(t) \/ Drop(t)
  BY <1>2 DEF Acquire, StopDead, Discover, Count, Evict, StopEvicted, Start, Ready, NotReady,
     Cancel, Late
<1>5. CASE Begin(t) \/ Look(t) \/ Ask(t)
  <2>1. UNCHANGED <<active, warm>>
    BY <1>5 DEF Begin, Look, Ask
  <2>. QED
    BY <1>3, <2>1
<1>6. CASE Keep(t)
  <2>1. UNCHANGED <<active, warm>> \/ \E i : i # NoInfo /\ active' = [active EXCEPT ![t] = i]
    BY <1>6 DEF Keep, Track
  <2>. QED
    BY <1>1, <1>3, <2>1 DEF Tracks
<1>7. CASE Drop(t)
  <2>1. CASE UNCHANGED <<active, warm>>
    BY <1>3, <2>1
  <2>2. CASE Go(t, "stop", Tracked(t))
    <3>1. Tracked(t) \in Infos /\ Meant(Tracked(t), t, container'[t])
      BY KnownIsMeant, TrackedInfo
    <3>2. acq'[t].pc = "stop" /\ acq'[t].info = Tracked(t)
      BY <1>1, <2>2, <3>1, AcquireGoes DEF Early
    <3>3. AcquireHas(t)' = {Tracked(t)}
      BY <3>2 DEF AcquireHas
    <3>. QED
      BY <3>1, <3>3 DEF AcquireStops
  <2>. QED
    BY <1>7, <2>1, <2>2 DEF Drop
<1>. QED
  BY <1>4, <1>5, <1>6, <1>7

\* After an acquire's step somebody still answers for each container.
LEMMA AcquireHolds ==
    ASSUME TypeInv, NEW t \in Threads, Placed(t), Acquire(t),
           NEW v \in Threads, Known(v), Held(v)
    PROVE  Held(v)'
<1>. SUFFICES ASSUME container'[v] # 0
              PROVE  Tracks(v)' \/ Waits(v)' \/ AcquireStops(v)' \/ KeeperStops(v)'
  BY DEF Held
<1>. USE DEF pool, At
<1>1. active \in [Threads -> Infos] /\ acq \in [Threads -> Acquiring] /\ Unique(warm) /\ PoolTypes
      /\ Owned /\ acq[t].info \in Infos
  BY TrackedInfo DEF TypeInv, PoolTypes, Actors, Infos
<1>2. CASE v = t /\ acq'[t].pc = "wait"
  BY <1>2 DEF Waits
<1>3. CASE ~(v = t /\ acq'[t].pc = "wait")
  <2>1. /\ container'[v] = container[v] /\ container[v] # 0
        /\ v \in stray => v \in stray' \/ (v = t /\ active'[t] # NoInfo)
    BY <1>3, AcquireContainers
  <2>2. UNCHANGED keeper
    BY DEF Acquire, Begin, Look, Ask, Keep, Drop, StopDead, Discover, Count, Evict, StopEvicted,
       Start, Ready, NotReady, Cancel, rest
  <2>3. ASSUME NEW i \in Infos, Destroy(i), Meant(i, v, container[v]), UNCHANGED active
        PROVE  Tracks(v)'
    BY <1>1, <2>3, Destroyed DEF Tracks
  <2>4. CASE KeeperStops(v)
    BY <2>1, <2>2, <2>4 DEF KeeperStops, KeeperHas
  <2>5. CASE AcquireStops(v)
    <3>1. PICK u \in Threads : \E i \in AcquireHas(u) : Meant(i, v, container[v])
      BY <2>5 DEF AcquireStops
    <3>2. CASE u # t
      <4>1. acq'[u] = acq[u]
        BY <3>2, OtherThreads
      <4>2. AcquireHas(u)' = AcquireHas(u)
        BY <4>1 DEF AcquireHas
      <4>. QED
        BY <2>1, <3>1, <4>2 DEF AcquireStops
    <3>3. CASE u = t
      <4>1. acq[t].pc \in {"stop", "evict"} /\ Meant(acq[t].info, v, container[v])
        BY <3>1, <3>3 DEF AcquireHas
      <4>2. StopDead(t) \/ StopEvicted(t)
        BY <4>1 DEF Acquire, Begin, Look, Ask, Keep, Drop, Discover, Count, Evict, Start, Ready,
           NotReady, Cancel
      <4>. QED
        BY <1>1, <2>3, <4>1, <4>2 DEF StopDead, StopEvicted
    <3>. QED
      BY <3>2, <3>3
  <2>6. CASE Waits(v)
    <3>1. CASE v # t
      <4>1. acq'[v] = acq[v]
        BY <3>1, OtherThreads
      <4>. QED
        BY <2>6, <4>1 DEF Waits
    <3>2. CASE v = t
      <4>1. Ready(t) \/ NotReady(t) \/ Cancel(t)
        BY <2>6, <3>2 DEF Waits, Acquire, Begin, Look, Ask, Keep, Drop, StopDead, Discover, Count,
           Evict, StopEvicted, Start
      <4>2. acq[t].info # NoInfo /\ Meant(acq[t].info, v, container[v])
        BY <2>1, <2>6, <3>2, KnownIsMeant DEF Meant
      <4>3. CASE Ready(t)
        BY <1>1, <3>2, <4>2, <4>3 DEF Ready, Track, Tracks
      <4>4. CASE NotReady(t)
        BY <1>1, <2>3, <4>2, <4>4 DEF NotReady
      <4>5. CASE Cancel(t)
        BY <2>1, <3>2, <4>5 DEF Cancel, Tracks
      <4>. QED
        BY <4>1, <4>3, <4>4, <4>5
    <3>. QED
      BY <3>1, <3>2
  <2>7. CASE Tracks(v)
    <3>1. CASE v \in stray
      BY <2>1, <3>1 DEF Tracks
    <3>2. CASE v = t /\ v \notin stray
      BY <2>1, <2>7, <3>2, AcquireTracks DEF Tracks
    <3>3. CASE v # t /\ active[v] # NoInfo
      <4>1. active'[v] = active[v]
        BY <3>3, OtherThreads
      <4>. QED
        BY <3>3, <4>1 DEF Tracks
    <3>4. CASE v # t /\ v \in Warm
      <4>1. CASE WarmInfos(v)' = WarmInfos(v)
        BY <3>4, <4>1, WarmSame DEF Tracks
      <4>2. CASE WarmInfos(v) = {Head(warm)} /\ Go(t, "evict", Head(warm))
        <5>1. Meant(Head(warm), v, container[v]) /\ Head(warm) \in Infos
          <6>1. Head(warm) \in ToSet(warm)
            BY <4>2 DEF WarmInfos
          <6>. QED
            BY <1>1, <2>1, <4>2, <6>1, KnownIsMeant, UniqueDomain DEF Infos
        <5>2. acq'[t].pc = "evict" /\ acq'[t].info = Head(warm)
          BY <1>1, <4>2, <5>1, AcquireGoes DEF Late
        <5>3. AcquireHas(t)' = {Head(warm)}
          BY <5>2 DEF AcquireHas
        <5>. QED
          BY <2>1, <5>1, <5>3 DEF AcquireStops
      <4>. QED
        BY <3>4, <4>1, <4>2, OtherThreads
    <3>. QED
      BY <2>7, <3>1, <3>2, <3>3, <3>4 DEF Tracks
  <2>. QED
    BY <2>1, <2>4, <2>5, <2>6, <2>7 DEF Held
<1>. QED
  BY <1>2, <1>3

\* What is in a sequence comes first or later.
LEMMA HeadOrTail ==
    ASSUME NEW s \in Seq(Info), s # <<>>, NEW i \in ToSet(s)
    PROVE  i = Head(s) \/ i \in ToSet(Tail(s))
<1>1. PICK n \in Nat : n = Len(s) /\ DOMAIN s = 1..n
  OBVIOUS
<1>2. PICK u : u = Tail(s)
  OBVIOUS
<1>3. n > 0 /\ DOMAIN u = 1..(n - 1) /\ \A j \in 1..(n - 1) : u[j] = s[j + 1]
  BY <1>1, <1>2
<1>4. PICK j \in 1..n : i = s[j]
  BY <1>1 DEF ToSet
<1>5. CASE j = 1
  BY <1>4, <1>5
<1>6. CASE j # 1
  <2>1. j - 1 \in 1..(n - 1) /\ (j - 1) + 1 = j
    BY <1>6
  <2>2. u[j - 1] = i
    BY <1>3, <1>4, <2>1
  <2>. QED
    BY <1>2, <1>3, <2>1, <2>2 DEF ToSet
<1>. QED
  BY <1>5, <1>6

\* A keeper stops what it has before it has it no longer.
LEMMA KeeperKeeps ==
    ASSUME TypeInv, NEW k \in Keepers, Keeps(k), NEW i \in KeeperHas(k)
    PROVE  (i \in KeeperHas(k)') \/ (i \in Infos /\ Destroy(i) /\ UNCHANGED active)
<1>. USE DEF pool
<1>1. keeper \in [Keepers -> Keeping] /\ Hands
  BY Parts DEF Hands
<1>2. keeper[k] \in Keeping /\ (k = "checker" \/ k = "shutdown")
  BY <1>1 DEF Keepers
<1>3. ASSUME keeper'[k].hand = keeper[k].hand, i \in ToSet(keeper[k].hand) PROVE i \in KeeperHas(k)'
  BY <1>3 DEF KeeperHas
<1>4. keeper[k].pc # "stop" => i \in ToSet(keeper[k].hand)
  BY DEF KeeperHas
<1>5. ASSUME NEW t \in Threads, Pick(k, t) PROVE i \in KeeperHas(k)'
  <2>1. keeper[k].pc = "pick" /\ keeper'[k].hand = keeper[k].hand
    BY <1>1, <1>2, <1>5 DEF Pick, Keeping
  <2>. QED
    BY <1>3, <1>4, <2>1
<1>6. ASSUME Kill(k) PROVE i \in KeeperHas(k)'
  <2>1. keeper[k].pc = "kill" /\ keeper'[k].hand = keeper[k].hand
    BY <1>1, <1>2, <1>6 DEF Kill, Keeping
  <2>. QED
    BY <1>3, <1>4, <2>1
<1>7. ASSUME StopKilled(k)
      PROVE  (i \in KeeperHas(k)') \/ (i \in Infos /\ Destroy(i) /\ UNCHANGED active)
  <2>1. keeper[k].pc = "stop" /\ keeper'[k].hand = keeper[k].hand /\ Destroy(keeper[k].info)
        /\ UNCHANGED active
    BY <1>1, <1>2, <1>7 DEF StopKilled, Keeping
  <2>2. CASE i \in ToSet(keeper[k].hand)
    BY <1>3, <2>1, <2>2
  <2>3. CASE i = keeper[k].info
    BY <1>1, <2>1, <2>3 DEF Hands
  <2>. QED
    BY <2>1, <2>2, <2>3 DEF KeeperHas
<1>8. ASSUME Reap(k) PROVE i \in KeeperHas(k)'
  <2>1. keeper[k].pc = "pick"
    BY <1>8 DEF Reap
  <2>2. k # "checker"
    BY <1>1, <1>4, <2>1 DEF Hands, ToSet
  <2>3. keeper'[k].hand = keeper[k].hand
    BY <1>1, <1>2, <1>8, <2>2 DEF Reap, Keeping
  <2>. QED
    BY <1>3, <1>4, <2>1, <2>3
<1>9. ASSUME StopTaken(k)
      PROVE  (i \in KeeperHas(k)') \/ (i \in Infos /\ Destroy(i) /\ UNCHANGED active)
  <2>1. PICK h : h = keeper[k].hand
    OBVIOUS
  <2>2. h \in Seq(Info) /\ h # <<>> /\ i \in ToSet(h) /\ keeper[k].pc = "empty"
    BY <1>2, <1>4, <1>9, <2>1 DEF StopTaken, Keeping
  <2>3. keeper'[k].hand = Tail(h) /\ Destroy(Head(h)) /\ UNCHANGED active
    BY <1>1, <1>2, <1>9, <2>1 DEF StopTaken, Keeping
  <2>4. i = Head(h) \/ i \in ToSet(Tail(h))
    BY <2>2, HeadOrTail
  <2>5. CASE i = Head(h)
    BY <2>2, <2>3, <2>5 DEF Infos
  <2>6. CASE i \in ToSet(Tail(h))
    BY <2>3, <2>6 DEF KeeperHas
  <2>. QED
    BY <2>4, <2>5, <2>6
<1>10. ~Finish(k)
  <2>. SUFFICES ASSUME Finish(k) PROVE FALSE
    OBVIOUS
  <2>1. keeper[k].pc = "empty" /\ keeper[k].hand = <<>>
    BY DEF Finish
  <2>. QED
    BY <1>4, <2>1 DEF ToSet
<1>. QED
  BY <1>5, <1>6, <1>7, <1>8, <1>9, <1>10 DEF Keeps

\* A keeper has what it takes out of the maps.
LEMMA KeeperTakes ==
    ASSUME TypeInv, Sweep \/ Shutdown \/ \E k \in Keepers : Keeps(k), NEW t \in Threads,
           active[t] # NoInfo \/ t \in Warm
    PROVE  \/ (active[t] # NoInfo \/ t \in Warm)'
           \/ \E k \in Keepers : \/ Tracked(t) \in KeeperHas(k)'
                                 \/ \E i \in WarmInfos(t) : i \in KeeperHas(k)'
<1>. USE DEF pool
<1>1. keeper \in [Keepers -> Keeping] /\ Hands /\ Unique(warm) /\ active \in [Threads -> Infos]
      /\ "checker" \in Keepers /\ "shutdown" \in Keepers
  BY Parts DEF Hands, Keepers, TypeInv, PoolTypes, Infos
<1>2. ASSUME UNCHANGED <<active, warm>> PROVE (active[t] # NoInfo \/ t \in Warm)'
  BY <1>2, WarmStays, WarmSame
<1>3. t \in Warm => \E i \in WarmInfos(t) : i \in ToSet(warm)
  BY WarmSame DEF WarmInfos
<1>4. CASE Sweep
  BY <1>2, <1>4 DEF Sweep
<1>5. CASE Shutdown
  <2>1. UNCHANGED active /\ keeper'["shutdown"].hand = warm
    BY <1>1, <1>5 DEF Shutdown, Set, Resting
  <2>2. ToSet(warm) \subseteq KeeperHas("shutdown")'
    BY <2>1 DEF KeeperHas
  <2>. QED
    BY <1>1, <1>3, <2>1, <2>2
<1>6. ASSUME NEW k \in Keepers, Kill(k)
      PROVE  (active[t] # NoInfo \/ t \in Warm)' \/ (Tracked(t) \in KeeperHas(k)')
  <2>1. PICK u \in Threads : u = keeper[k].info.id
    BY <1>1, <1>6 DEF Kill, Hands
  <2>2. Untrack(u) /\ keeper' = [keeper EXCEPT ![k].pc = "stop", ![k].info = Tracked(u)]
    BY <1>6, <2>1 DEF Kill
  <2>3. CASE u = t
    <3>1. keeper'[k].pc = "stop" /\ keeper'[k].info = Tracked(t)
      BY <1>1, <2>2, <2>3 DEF Keeping
    <3>. QED
      BY <3>1 DEF KeeperHas
  <2>4. CASE u # t
    <3>1. active'[t] = active[t] /\ WarmInfos(t)' = WarmInfos(t)
      BY <1>1, <2>2, <2>4, WarmLeaves DEF Untrack
    <3>. QED
      BY <3>1, WarmSame
  <2>. QED
    BY <2>3, <2>4
<1>7. ASSUME NEW k \in Keepers, Reap(k)
      PROVE  (active[t] # NoInfo \/ t \in Warm)' \/ \E i \in WarmInfos(t) : i \in KeeperHas(k)'
  <2>1. CASE k # "checker"
    BY <1>2, <1>7, <2>1 DEF Reap
  <2>2. CASE k = "checker"
    <3>1. UNCHANGED active /\ warm' = Entries(warm, Threads \ idle)
          /\ keeper'[k].hand = Entries(warm, idle)
      BY <1>1, <1>7, <2>2 DEF Reap, Keeping
    <3>2. CASE t \in idle
      <4>1. ToSet(Entries(warm, idle)) = {e \in ToSet(warm) : e.id \in idle}
        BY <1>1, <3>1, WarmExpires
      <4>2. WarmInfos(t) \subseteq ToSet(keeper'[k].hand)
        BY <3>1, <3>2, <4>1 DEF WarmInfos
      <4>3. WarmInfos(t) \subseteq KeeperHas(k)'
        BY <4>2 DEF KeeperHas
      <4>. QED
        BY <1>3, <3>1, <4>3
    <3>3. CASE t \notin idle
      <4>1. WarmInfos(t)' = WarmInfos(t)
        BY <1>1, <3>1, <3>3, WarmExpires
      <4>. QED
        BY <3>1, <4>1, WarmSame
    <3>. QED
      BY <3>2, <3>3
  <2>. QED
    BY <2>1, <2>2
<1>8. ASSUME NEW k \in Keepers,
             (\E u \in Threads : Pick(k, u)) \/ StopKilled(k) \/ StopTaken(k) \/ Finish(k)
      PROVE  (active[t] # NoInfo \/ t \in Warm)'
  BY <1>2, <1>8 DEF Pick, StopKilled, StopTaken, Finish
<1>. QED
  BY <1>4, <1>5, <1>6, <1>7, <1>8 DEF Keeps

\* What the keepers have stays with them through a sweep, a shutdown and a step of each.
LEMMA KeepersKeep ==
    ASSUME TypeInv, Sweep \/ Shutdown \/ \E k \in Keepers : Keeps(k), NEW k \in Keepers,
           NEW i \in KeeperHas(k)
    PROVE  (i \in KeeperHas(k)') \/ (i \in Infos /\ Destroy(i) /\ UNCHANGED active)
<1>1. keeper \in [Keepers -> Keeping] /\ Hands
  BY Parts DEF Hands
<1>2. ASSUME keeper'[k] = keeper[k] PROVE i \in KeeperHas(k)'
  BY <1>2 DEF KeeperHas
<1>3. ASSUME keeper[k].pc = "rest" PROVE FALSE
  BY <1>1, <1>3 DEF KeeperHas, Hands, Keepers, ToSet
<1>4. CASE Sweep
  <2>1. k # "checker" => keeper'[k] = keeper[k]
    BY <1>1, <1>4 DEF Sweep, Set
  <2>. QED
    BY <1>2, <1>3, <1>4, <2>1 DEF Sweep
<1>5. CASE Shutdown
  <2>1. k # "shutdown" => keeper'[k] = keeper[k]
    BY <1>1, <1>5 DEF Shutdown, Set
  <2>. QED
    BY <1>2, <1>3, <1>5, <2>1 DEF Shutdown
<1>6. ASSUME NEW l \in Keepers, Keeps(l), l # k PROVE i \in KeeperHas(k)'
  <2>1. keeper'[k] = keeper[k]
    <3>1. CASE \E t \in Threads : Pick(l, t)
      BY <1>1, <1>6, <3>1 DEF Pick
    <3>2. CASE Kill(l) \/ StopKilled(l)
      BY <1>1, <1>6, <3>2 DEF Kill, StopKilled
    <3>3. CASE Reap(l)
      BY <1>1, <1>6, <3>3 DEF Reap
    <3>4. CASE StopTaken(l) \/ Finish(l)
      BY <1>1, <1>6, <3>4 DEF StopTaken, Finish, Set
    <3>. QED
      BY <1>6, <3>1, <3>2, <3>3, <3>4 DEF Keeps
  <2>. QED
    BY <1>2, <2>1
<1>. QED
  BY <1>4, <1>5, <1>6, KeeperKeeps

\* After a keeper's step somebody still answers for each container.
LEMMA KeepersHold ==
    ASSUME TypeInv, Sweep \/ Shutdown \/ \E k \in Keepers : Keeps(k),
           NEW v \in Threads, Known(v), Held(v)
    PROVE  Held(v)'
<1>. SUFFICES ASSUME container'[v] # 0
              PROVE  Tracks(v)' \/ Waits(v)' \/ AcquireStops(v)' \/ KeeperStops(v)'
  BY DEF Held
<1>1. PoolTypes
  BY DEF TypeInv
<1>2. container'[v] = container[v] /\ container[v] # 0 /\ (v \in stray => v \in stray')
  BY KeeperContainers
<1>3. UNCHANGED acq
  BY DEF Keeps, Sweep, Shutdown, Pick, Kill, StopKilled, Reap, StopTaken, Finish
<1>4. CASE Waits(v) \/ AcquireStops(v)
  BY <1>2, <1>3, <1>4 DEF Waits, AcquireStops, AcquireHas
<1>5. CASE KeeperStops(v)
  <2>1. PICK k \in Keepers : \E i \in KeeperHas(k) : Meant(i, v, container[v])
    BY <1>5 DEF KeeperStops
  <2>2. PICK i \in KeeperHas(k) : Meant(i, v, container[v])
    BY <2>1
  <2>3. CASE i \in KeeperHas(k)'
    BY <1>2, <2>2, <2>3 DEF KeeperStops
  <2>4. CASE i \in Infos /\ Destroy(i) /\ UNCHANGED active
    BY <1>1, <2>2, <2>4, Destroyed DEF Tracks
  <2>. QED
    BY <2>3, <2>4, KeepersKeep
<1>6. CASE Tracks(v)
  <2>1. CASE v \in stray
    BY <1>2, <2>1 DEF Tracks
  <2>2. CASE active[v] # NoInfo \/ v \in Warm
    <3>1. CASE (active[v] # NoInfo \/ v \in Warm)'
      BY <3>1 DEF Tracks
    <3>2. ASSUME NEW k \in Keepers,
                 (Tracked(v) \in KeeperHas(k)') \/ \E i \in WarmInfos(v) : i \in KeeperHas(k)'
          PROVE  KeeperStops(v)'
      <4>1. PICK i : Meant(i, v, container'[v]) /\ (i \in KeeperHas(k)')
        BY <1>2, <2>2, <3>2, KnownIsMeant
      <4>. QED
        BY <4>1 DEF KeeperStops
    <3>. QED
      BY <2>2, <3>1, <3>2, KeeperTakes
  <2>. QED
    BY <1>6, <2>1, <2>2 DEF Tracks
<1>. QED
  BY <1>2, <1>4, <1>5, <1>6 DEF Held

\* Somebody answers for every container that runs.
LEMMA ContainersAreHeld == PoolSpec => []HeldInv
<1>1. PoolInit => HeldInv
  BY DEF PoolInit, HeldInv, Held
<1>2. TypeInv /\ PlacedInv /\ KnownInv /\ HeldInv /\ [PoolNext]_poolVars => HeldInv'
  <2>. SUFFICES ASSUME TypeInv, PlacedInv, KnownInv, HeldInv, [PoolNext]_poolVars, NEW t \in Threads
                PROVE  Held(t)'
    BY DEF HeldInv
  <2>. USE DEF pool, runtime, rest
  <2>1. Known(t) /\ Held(t) /\ active \in [Threads -> Infos] /\ Unique(warm) /\ Owned
        /\ container \in [Threads -> 0..MaxMade] /\ stray \subseteq Threads
    BY DEF KnownInv, HeldInv, TypeInv, PoolTypes, Infos
  <2>2. ASSUME UNCHANGED <<active, warm, acq, keeper, stray>>,
               container'[t] # 0 => container'[t] = container[t]
        PROVE  Held(t)'
    <3>1. (t \in Warm)' <=> t \in Warm
      BY <2>2, WarmStays, WarmSame
    <3>. SUFFICES ASSUME container'[t] # 0
                  PROVE  Tracks(t)' \/ Waits(t)' \/ AcquireStops(t)' \/ KeeperStops(t)'
      BY DEF Held
    <3>2. CASE Tracks(t)
      BY <2>2, <3>1, <3>2 DEF Tracks
    <3>3. CASE Waits(t)
      BY <2>2, <3>3 DEF Waits
    <3>4. CASE AcquireStops(t)
      BY <2>2, <3>4 DEF AcquireStops, AcquireHas
    <3>5. CASE KeeperStops(t)
      BY <2>2, <3>5 DEF KeeperStops, KeeperHas
    <3>. QED
      BY <2>1, <2>2, <3>2, <3>3, <3>4, <3>5 DEF Held
  <2>3. ASSUME NEW u \in Threads, Acquire(u) PROVE Held(t)'
    BY <2>1, <2>3, AcquireHolds DEF PlacedInv
  <2>4. ASSUME NEW u \in Threads, Get(u) \/ Age(u) PROVE Held(t)'
    <3>1. UNCHANGED <<active, warm, acq, keeper, stray, container>>
      BY <2>4 DEF Get, Age
    <3>. QED
      BY <2>2, <3>1
  <2>5. ASSUME NEW u \in Threads, Die(u) PROVE Held(t)'
    <3>1. CASE u = t
      BY <2>1, <2>5, <3>1 DEF Die, Held
    <3>2. CASE u # t
      <4>1. UNCHANGED <<active, warm, acq, keeper>> /\ container'[t] = container[t]
            /\ (t \in stray <=> t \in stray')
        BY <2>1, <2>5, <3>2 DEF Die
      <4>2. (t \in Warm)' <=> t \in Warm
        BY <4>1, WarmStays, WarmSame
      <4>3. Tracks(t)' <=> Tracks(t)
        BY <4>1, <4>2 DEF Tracks
      <4>4. Waits(t)' <=> Waits(t)
        BY <4>1 DEF Waits
      <4>5. AcquireStops(t) => AcquireStops(t)'
        BY <4>1 DEF AcquireStops, AcquireHas
      <4>6. KeeperStops(t) => KeeperStops(t)'
        BY <4>1 DEF KeeperStops, KeeperHas
      <4>. QED
        BY <2>1, <4>1, <4>3, <4>4, <4>5, <4>6 DEF Held
    <3>. QED
      BY <3>1, <3>2
  <2>6. ASSUME NEW u \in Threads, Release(u) PROVE Held(t)'
    <3>1. UNCHANGED <<acq, keeper, container, stray>> /\ active' = [active EXCEPT ![u] = NoInfo]
          /\ active[u] \in OfThread(u) /\ active[u] # NoInfo
          /\ warm' = IF u \in Warm THEN warm ELSE Append(warm, active[u])
      BY <2>1, <2>6 DEF Release, Active, Owned
    <3>2. u \notin Warm
      BY <2>6, <3>1 DEF PlacedInv, Placed
    <3>3. /\ WarmInfos(u)' = {active[u]}
          /\ \A v \in Threads \ {u} : WarmInfos(v)' = WarmInfos(v)
      BY <2>1, <3>1, <3>2, WarmParks DEF OfThread
    <3>4. (u \in Warm)' /\ \A v \in Threads \ {u} : (v \in Warm)' <=> v \in Warm
      <4>1. (u \in Warm)' <=> WarmInfos(u)' # {}
        BY DEF Warm, WarmInfos
      <4>. QED
        BY <3>3, <4>1, WarmSame
    <3>5. Tracks(t) => Tracks(t)'
      BY <2>1, <3>1, <3>4 DEF Tracks
    <3>6. Waits(t) => Waits(t)'
      BY <3>1 DEF Waits
    <3>7. AcquireStops(t) => AcquireStops(t)'
      BY <3>1 DEF AcquireStops, AcquireHas
    <3>8. KeeperStops(t) => KeeperStops(t)'
      BY <3>1 DEF KeeperStops, KeeperHas
    <3>. QED
      BY <2>1, <3>1, <3>5, <3>6, <3>7, <3>8 DEF Held
  <2>7. ASSUME Sweep \/ Shutdown \/ \E k \in Keepers : Keeps(k) PROVE Held(t)'
    BY <2>1, <2>7, KeepersHold
  <2>8. ASSUME Restart PROVE Held(t)'
    <3>1. container' = container
      BY <2>8 DEF Restart
    <3>2. container[t] # 0 => WarmInfos(t)' # {} \/ t \in stray'
      BY <2>8, Restarted
    <3>3. (t \in Warm)' <=> WarmInfos(t)' # {}
      BY DEF Warm, WarmInfos
    <3>. QED
      BY <3>1, <3>2, <3>3 DEF Held, Tracks
  <2>. QED
    BY <2>2, <2>3, <2>4, <2>5, <2>6, <2>7, <2>8 DEF PoolNext, Keeps, poolVars
<1>. QED
  BY <1>1, <1>2, PoolTyped, SandboxesArePlaced, ContainersAreKnown, PTL DEF PoolSpec

\* No container runs on forgotten: after any number of acquires, evictions, sweeps, shutdowns,
\* swallowed failures and restarts, a map has it, somebody is about to use or to stop it, or one of
\* the three swallowed faults left it.
THEOREM ContainersAreTracked == PoolSpec => []NoneLost
<1>1. HeldInv => NoneLost
  <2>. SUFFICES ASSUME HeldInv, NEW t \in Threads, container[t] # 0
                PROVE  t \in Active \cup Warm \cup stray \/ InHand(t)
    BY DEF NoneLost
  <2>1. Tracks(t) \/ Waits(t) \/ AcquireStops(t) \/ KeeperStops(t)
    BY DEF HeldInv, Held
  <2>2. CASE Tracks(t)
    BY <2>2 DEF Tracks, Active
  <2>3. CASE Waits(t)
    BY <2>3 DEF Waits, InHand
  <2>4. CASE AcquireStops(t)
    BY <2>4 DEF AcquireStops, AcquireHas, Meant, InHand
  <2>5. CASE KeeperStops(t)
    BY <2>5 DEF KeeperStops, KeeperHas, Meant, InHand
  <2>. QED
    BY <2>1, <2>2, <2>3, <2>4, <2>5
<1>. QED
  BY <1>1, ContainersAreHeld, PTL
==============================================================================
