------------------------ MODULE CentralActionsProofs ------------------------
(* The action budget of a run: every turn that records an action uses up some *)
(* of it, and the iteration stays within it.  The ledger: an action that      *)
(* succeeded keeps its success.  For every size of the budget, of the ledger  *)
(* and of a turn, and whatever keys the model repeats.                        *)
EXTENDS CentralActions, WellFoundedInduction, SequenceTheorems, TLAPS

\* The counters of a run that has not ended: the turns are behind the iteration.
BudgetInv ==
    /\ iteration \in Nat
    /\ turns \in Nat
    /\ phase # "idle" => turns =< iteration

-----------------------------------------------------------------------------
\* The action count is never below the counter of the loop (sp_action_count).
LEMMA CountBound == ASSUME iteration \in Nat PROVE Count \in Nat /\ iteration =< Count
BY DEF Count

\* The counters hold at the start and are kept by every action.
LEMMA BudgetStep == Spec => []BudgetInv
<1>1. Init => BudgetInv
  BY DEF Init, BudgetInv
<1>2. BudgetInv /\ [Next]_vars => BudgetInv'
  <2>. SUFFICES ASSUME BudgetInv, [Next]_vars PROVE BudgetInv'
    OBVIOUS
  <2>. USE DEF BudgetInv
  <2>1. CASE \E fresh, replied \in BOOLEAN : Begin(fresh, replied)
    BY <2>1 DEF Begin
  <2>2. CASE Ends
    <3>1. CASE Stop
      BY <3>1 DEF Stop, bookkeeping, history
    <3>2. CASE Capped
      BY <3>2 DEF Capped, history
    <3>3. CASE Answer
      BY <3>3, CountBound DEF Answer, history
    <3>. QED
      BY <2>2, <3>1, <3>2, <3>3 DEF Ends
  <2>3. CASE ModelTurn
    <3>1. PICK fresh, calls : Emit(fresh, calls)
      BY <2>3 DEF ModelTurn
    <3>2. phase # "idle"
      BY <2>3 DEF ModelTurn
    <3>. QED
      BY <3>1, <3>2, CountBound DEF Emit, history
  <2>4. CASE Execute
    BY <2>4 DEF Execute, bookkeeping, history
  <2>5. CASE Join
    <3>1. phase = "tools"
      BY <2>5 DEF Join
    <3>2. \/ iteration' = Count + 1 /\ turns' = turns + 1
          \/ iteration' = iteration /\ turns' = turns
      BY <2>5 DEF Join
    <3>. QED
      BY <3>1, <3>2, CountBound
  <2>6. CASE Abandon
    BY <2>6 DEF Abandon, bookkeeping, history
  <2>7. CASE UNCHANGED vars
    BY <2>7 DEF vars, bookkeeping, history
  <2>. QED
    BY <2>1, <2>2, <2>3, <2>4, <2>5, <2>6, <2>7 DEF Next
<1>. QED
  BY <1>1, <1>2, PTL DEF Spec

\* The action count never falls behind the turns of the run that recorded an action: a run has
\* at most MaxActions of them (sp_action_count, SPActionBudgetMiddleware).
THEOREM TurnsAreCounted == Spec => []TurnsCounted
<1>1. BudgetInv => TurnsCounted
  <2>. SUFFICES ASSUME BudgetInv, phase # "idle" PROVE turns =< Count
    BY DEF TurnsCounted
  <2>. QED
    BY CountBound DEF BudgetInv
<1>. QED
  BY <1>1, BudgetStep, PTL

-----------------------------------------------------------------------------
(* Induction *)

Less == {pair \in Nat \X Nat : pair[1] < pair[2]}

\* A set of numbers that is not empty has a least one: induction, for a first-order prover.
LEMMA Least ==
    ASSUME NEW T, T \subseteq Nat, T # {}
    PROVE  \E m \in T : \A n \in T : m =< n
<1>1. IsWellFoundedOn(Less, Nat)
  BY NatLessThanWellFounded DEF OpToRel, Less
<1>2. PICK m \in T : \A n \in T : <<n, m>> \notin Less
  BY <1>1, WFMin
<1>3. \A n \in T : n \in Nat /\ <<n, m>> \in Nat \X Nat
  OBVIOUS
<1>4. \A n \in T : ~(n < m)
  BY <1>2, <1>3 DEF Less
<1>. QED
  BY <1>4

-----------------------------------------------------------------------------
(* The ledger as a dictionary *)

\* Records in the order of their keys, each key once.
Dict(s) == s \in Seq(Range(s)) /\ \A i, j \in DOMAIN s : s[i].key = s[j].key => i = j

Has(s, key) == \E i \in DOMAIN s : s[i].key = key

\* The domain of a dictionary.
LEMMA DictDomain ==
    ASSUME NEW s, Dict(s)
    PROVE  Len(s) \in Nat /\ DOMAIN s = 1..Len(s)
BY DEF Dict

\* How many of n records the newest part leaves out.
LEMMA LeftOut ==
    ASSUME NEW n \in Nat
    PROVE  \E k \in Nat : /\ k =< n /\ n - k =< MaxLedger
                          /\ Max({1, n - MaxLedger + 1}) = k + 1
                          /\ n =< MaxLedger => k = 0
                          /\ n > MaxLedger => n - k = MaxLedger
<1>1. MaxLedger \in Nat /\ MaxLedger > 0
  BY CentralAssumption
<1>2. CASE n =< MaxLedger
  <2>1. Max({1, n - MaxLedger + 1}) = 0 + 1
    BY <1>1, <1>2 DEF Max
  <2>. QED
    BY <1>1, <1>2, <2>1
<1>3. CASE n > MaxLedger
  <2>1. Max({1, n - MaxLedger + 1}) = n - MaxLedger + 1
    BY <1>1, <1>3 DEF Max
  <2>2. n - MaxLedger \in Nat /\ n - (n - MaxLedger) = MaxLedger
    BY <1>1, <1>3
  <2>. QED
    BY <1>1, <1>3, <2>1, <2>2
<1>. QED
  BY <1>1, <1>2, <1>3

\* The newest part of a dictionary: all of it if it fits, else as many records as fit, the last
\* one among them.
LEMMA NewestPart ==
    ASSUME NEW s, Dict(s)
    PROVE  /\ Dict(Newest(s)) /\ Len(Newest(s)) =< MaxLedger
           /\ Range(Newest(s)) \subseteq Range(s)
           /\ Len(s) =< MaxLedger => Newest(s) = s
           /\ Len(s) > MaxLedger => Len(Newest(s)) = MaxLedger
           /\ Len(s) > 0 => s[Len(s)] \in Range(Newest(s))
<1>1. PICK n \in Nat : n = Len(s) /\ DOMAIN s = 1..n
  BY DictDomain
<1>2. PICK k \in Nat : /\ k =< n /\ n - k =< MaxLedger
                       /\ Max({1, n - MaxLedger + 1}) = k + 1
                       /\ n =< MaxLedger => k = 0
                       /\ n > MaxLedger => n - k = MaxLedger
  BY LeftOut
<1>3. PICK u : u = SubSeq(s, k + 1, n)
  OBVIOUS
<1>4. Newest(s) = u
  BY <1>1, <1>2, <1>3 DEF Newest
<1>5. /\ u \in Seq(Range(s)) /\ Len(u) = n - k
      /\ \A i \in 1..(n - k) : u[i] = s[k + i]
  <2>1. \A i \in (k + 1)..n : s[i] \in Range(s)
    BY <1>1 DEF Range
  <2>2. /\ u \in Seq(Range(s))
        /\ Len(u) = IF k + 1 <= n THEN n - (k + 1) + 1 ELSE 0
        /\ \A i \in 1..(n - (k + 1) + 1) : u[i] = s[(k + 1) + i - 1]
    BY <1>3, <2>1, SubSeqProperties
  <2>3. Len(u) = n - k
    BY <1>2, <2>2
  <2>4. ASSUME NEW i \in 1..(n - k) PROVE u[i] = s[k + i]
    <3>1. i \in 1..(n - (k + 1) + 1) /\ (k + 1) + i - 1 = k + i
      OBVIOUS
    <3>2. u[i] = s[(k + 1) + i - 1]
      BY <2>2, <3>1
    <3>. QED
      BY <3>1, <3>2
  <2>. QED
    BY <2>2, <2>3, <2>4
<1>6. n - k \in Nat /\ DOMAIN u = 1..(n - k)
  BY <1>2, <1>5
<1>7. Range(u) \subseteq Range(s)
  BY <1>5, <1>6, <1>1, <1>2 DEF Range
<1>8. Dict(u)
  <2>1. u \in Seq(Range(u))
    <3>1. u \in [1..(n - k) -> Range(u)]
      BY <1>5, <1>6 DEF Range
    <3>. QED
      BY <1>6, <3>1
  <2>2. ASSUME NEW i \in DOMAIN u, NEW j \in DOMAIN u, u[i].key = u[j].key PROVE i = j
    <3>1. k + i \in DOMAIN s /\ k + j \in DOMAIN s /\ s[k + i].key = s[k + j].key
      BY <1>1, <1>2, <1>5, <1>6, <2>2
    <3>2. k + i = k + j
      BY <3>1 DEF Dict
    <3>. QED
      BY <1>6, <3>2
  <2>. QED
    BY <2>1, <2>2 DEF Dict
<1>9. ASSUME n =< MaxLedger PROVE u = s
  <2>1. k = 0
    BY <1>2, <1>9
  <2>2. Len(u) = n /\ \A i \in 1..n : u[i] = s[i]
    BY <1>5, <2>1
  <2>. QED
    BY <1>1, <1>5, <2>2, SeqEqual DEF Dict
<1>10. ASSUME n > 0 PROVE s[n] \in Range(u)
  <2>1. MaxLedger \in Nat /\ MaxLedger > 0
    BY CentralAssumption
  <2>2. n - k \in 1..(n - k) /\ k + (n - k) = n
    BY <1>2, <1>10, <2>1
  <2>3. u[n - k] = s[n]
    BY <1>5, <2>2
  <2>. QED
    BY <1>6, <2>2, <2>3 DEF Range
<1>. QED
  BY <1>1, <1>2, <1>4, <1>5, <1>7, <1>8, <1>9, <1>10

\* A dictionary that takes a record has it, and all its other records.
LEMMA PutRecord ==
    ASSUME NEW s, Dict(s), NEW r
    PROVE  /\ Dict(Put(s, r)) /\ Len(Put(s, r)) >= Len(s)
           /\ r \in Range(Put(s, r))
           /\ \A q \in Range(Put(s, r)) : q = r \/ (q \in Range(s) /\ q.key # r.key)
           /\ \A key : Has(s, key) => Has(Put(s, r), key)
<1>1. Len(s) \in Nat /\ DOMAIN s = 1..Len(s)
  BY DictDomain
<1>2. CASE Has(s, r.key)
  <2>. DEFINE u == [i \in DOMAIN s |-> IF s[i].key = r.key THEN r ELSE s[i]]
  <2>1. Put(s, r) = u
    BY <1>2 DEF Put, Has
  <2>2. DOMAIN u = 1..Len(s) /\ u \in Seq(Range(u)) /\ Len(u) = Len(s)
    <3>1. u \in [1..Len(s) -> Range(u)]
      BY <1>1 DEF Range
    <3>2. u \in Seq(Range(u))
      BY <1>1, <3>1
    <3>. QED
      BY <1>1, <3>1, <3>2
  <2>3. \A i \in DOMAIN s : u[i].key = s[i].key
    OBVIOUS
  <2>4. Dict(u)
    BY <1>1, <2>2, <2>3 DEF Dict
  <2>5. \A key : Has(s, key) => Has(u, key)
    BY <2>3 DEF Has
  <2>6. r \in Range(u)
    BY <1>2 DEF Has, Range
  <2>7. \A q \in Range(u) : q = r \/ (q \in Range(s) /\ q.key # r.key)
    BY DEF Range
  <2>. QED
    BY <1>1, <2>1, <2>2, <2>4, <2>5, <2>6, <2>7
<1>3. CASE ~Has(s, r.key)
  <2>. DEFINE u == Append(s, r)
  <2>1. Put(s, r) = u
    BY <1>3 DEF Put, Has
  <2>2. /\ u \in Seq(Range(s) \cup {r}) /\ Len(u) = Len(s) + 1 /\ u[Len(s) + 1] = r
        /\ \A i \in 1..Len(s) : u[i] = s[i]
    BY <1>1 DEF Dict
  <2>. HIDE DEF u
  <2>3. DOMAIN u = 1..(Len(s) + 1)
    BY <1>1, <2>2
  <2>4. u \in Seq(Range(u))
    BY <1>1, <2>2, <2>3 DEF Range
  <2>5. Dict(u)
    BY <1>1, <1>3, <2>2, <2>3, <2>4 DEF Dict, Has
  <2>6. \A key : Has(s, key) => Has(u, key)
    BY <1>1, <2>2, <2>3 DEF Has
  <2>7. r \in Range(u)
    BY <1>1, <2>2, <2>3 DEF Range
  <2>8. \A q \in Range(u) : q = r \/ (q \in Range(s) /\ q.key # r.key)
    BY <1>1, <1>3, <2>2, <2>3 DEF Range, Has
  <2>. QED
    BY <1>1, <2>1, <2>2, <2>5, <2>6, <2>7, <2>8
<1>. QED
  BY <1>2, <1>3

\* A dictionary that loses a key has only others of its records.
LEMMA PoppedKey ==
    ASSUME NEW s, Dict(s), NEW key
    PROVE  /\ Dict(Popped(s, key))
           /\ \A r \in Range(Popped(s, key)) : r \in Range(s) /\ r.key # key
<1>1. PICK n \in Nat : n = Len(s) /\ DOMAIN s = 1..n
  BY DictDomain
<1>2. CASE \E i \in 1..n : s[i].key = key
  <2>1. PICK i \in 1..n : s[i].key = key
    BY <1>2
  <2>2. {j \in 1..n : s[j].key = key} = {i}
    BY <1>1, <2>1 DEF Dict
  <2>3. Min({i}) = i
    BY DEF Min
  <2>4. Popped(s, key) = RemoveAt(s, i)
    BY <1>1, <2>1, <2>2, <2>3 DEF Popped, RemoveFirstMatch, SelectInSeq
  <2>5. PICK a, b, u : a = SubSeq(s, 1, i - 1) /\ b = SubSeq(s, i + 1, n) /\ u = a \o b
    OBVIOUS
  <2>6. Popped(s, key) = u
    BY <1>1, <2>4, <2>5 DEF RemoveAt
  <2>7. a \in Seq(Range(s)) /\ Len(a) = i - 1 /\ \A j \in 1..(i - 1) : a[j] = s[j]
    BY <1>1, <2>5 DEF Dict
  <2>8. b \in Seq(Range(s)) /\ Len(b) = n - i /\ \A j \in 1..(n - i) : b[j] = s[j + i]
    BY <1>1, <2>5 DEF Dict
  <2>9. /\ u \in Seq(Range(s)) /\ Len(u) = n - 1
        /\ \A j \in 1..(n - 1) : u[j] = IF j < i THEN s[j] ELSE s[j + 1]
    <3>1. /\ u \in Seq(Range(s)) /\ Len(u) = Len(a) + Len(b)
          /\ \A j \in 1..(Len(a) + Len(b)) :
                 u[j] = IF j <= Len(a) THEN a[j] ELSE b[j - Len(a)]
      BY <2>5, <2>7, <2>8, ConcatProperties
    <3>2. Len(a) + Len(b) = n - 1
      BY <2>7, <2>8
    <3>3. ASSUME NEW j \in 1..(n - 1) PROVE u[j] = IF j < i THEN s[j] ELSE s[j + 1]
      BY <2>7, <2>8, <3>1, <3>2
    <3>. QED
      BY <3>1, <3>2, <3>3
  <2>10. n - 1 \in Nat /\ DOMAIN u = 1..(n - 1)
    BY <2>9
  <2>11. ASSUME NEW j \in 1..(n - 1)
         PROVE  \E l \in 1..n : l # i /\ u[j] = s[l] /\ (j < i => l = j) /\ (j >= i => l = j + 1)
    BY <2>9
  <2>12. Dict(u)
    <3>1. u \in Seq(Range(u))
      <4>1. u \in [1..(n - 1) -> Range(u)]
        BY <2>9, <2>10 DEF Range
      <4>. QED
        BY <2>10, <4>1
    <3>2. ASSUME NEW j \in DOMAIN u, NEW m \in DOMAIN u, u[j].key = u[m].key PROVE j = m
      <4>1. j \in 1..(n - 1) /\ m \in 1..(n - 1)
        BY <2>10
      <4>2. PICK l \in 1..n : u[j] = s[l] /\ (j < i => l = j) /\ (j >= i => l = j + 1)
        BY <2>11, <4>1
      <4>3. PICK o \in 1..n : u[m] = s[o] /\ (m < i => o = m) /\ (m >= i => o = m + 1)
        BY <2>11, <4>1
      <4>4. l = o
        BY <1>1, <3>2, <4>2, <4>3 DEF Dict
      <4>. QED
        BY <4>1, <4>2, <4>3, <4>4
    <3>. QED
      BY <3>1, <3>2 DEF Dict
  <2>13. ASSUME NEW r \in Range(u) PROVE r \in Range(s) /\ r.key # key
    <3>1. PICK j \in 1..(n - 1) : r = u[j]
      BY <2>10 DEF Range
    <3>2. PICK l \in 1..n : l # i /\ r = s[l]
      BY <2>11, <3>1
    <3>. QED
      BY <1>1, <2>1, <3>2 DEF Dict, Range
  <2>. QED
    BY <2>6, <2>12, <2>13
<1>3. CASE ~\E i \in 1..n : s[i].key = key
  <2>1. Popped(s, key) = s
    BY <1>1, <1>3 DEF Popped, RemoveFirstMatch
  <2>. QED
    BY <1>1, <1>3, <2>1 DEF Range
<1>. QED
  BY <1>2, <1>3

\* What a branch of the turn makes of the ledger of the snapshot: its own record, and others.
LEMMA EnteredRecord ==
    ASSUME Dict(ledger), NEW o
    PROVE  /\ Dict(Entered(o)) /\ Has(Entered(o), o.result.key)
           /\ \A r \in Range(Entered(o)) :
                  \/ r.step = o.result.step /\ r.type = o.result.type /\ r.key = o.result.key
                  \/ r \in Range(ledger) /\ r.key # o.result.key
<1>1. PICK r : r = [step |-> o.result.step, type |-> o.result.type, key |-> o.result.key,
                    iteration |-> Count + 1, run |-> run]
  OBVIOUS
<1>2. r.step = o.result.step /\ r.type = o.result.type /\ r.key = o.result.key
  BY <1>1
<1>3. PICK s, u : s = Popped(ledger, o.result.key) /\ u = Append(s, r)
  OBVIOUS
<1>4. Entered(o) = Newest(u)
  BY <1>1, <1>3 DEF Entered
<1>5. Dict(s) /\ \A q \in Range(s) : q \in Range(ledger) /\ q.key # o.result.key
  BY <1>3, PoppedKey
<1>6. ~Has(s, r.key)
  BY <1>2, <1>5 DEF Has, Range
<1>7. u = Put(s, r)
  BY <1>3, <1>6 DEF Put, Has
<1>8. /\ Dict(u) /\ Len(u) > 0 /\ u[Len(u)] = r
      /\ \A q \in Range(u) : q = r \/ (q \in Range(s) /\ q.key # r.key)
  <2>1. Len(u) > 0 /\ u[Len(u)] = r
    BY <1>3, <1>5 DEF Dict
  <2>. QED
    BY <1>5, <1>7, <2>1, PutRecord
<1>9. /\ Dict(Newest(u)) /\ r \in Range(Newest(u)) /\ Range(Newest(u)) \subseteq Range(u)
  BY <1>8, NewestPart
<1>10. Has(Newest(u), r.key)
  BY <1>9 DEF Has, Range
<1>. QED
  BY <1>2, <1>4, <1>5, <1>8, <1>9, <1>10

\* The records of b are put into a one after the other: the function of MergeLedger exists.
LEMMA Puts ==
    ASSUME NEW a, NEW b, NEW n \in Nat
    PROVE  \E f : f = [k \in 0..n |-> IF k = 0 THEN a ELSE Put(f[k - 1], b[k])]
<1>. DEFINE Exists(i) == \E f : f = [k \in 0..i |-> IF k = 0 THEN a ELSE Put(f[k - 1], b[k])]
            T == {i \in Nat : ~Exists(i)}
<1>1. SUFFICES ASSUME T # {} PROVE FALSE
  BY <1>1
<1>2. PICK m \in Nat : ~Exists(m) /\ \A i \in Nat : ~Exists(i) => m =< i
  <2>1. T \subseteq Nat
    OBVIOUS
  <2>2. \E m \in T : \A i \in T : m =< i
    <3>. HIDE DEF T
    <3>. QED
      BY <1>1, <2>1, Least
  <2>. HIDE DEF Exists
  <2>. QED
    BY <2>2
<1>3. CASE m = 0
  <2>. DEFINE f == [k \in 0..0 |-> a]
  <2>1. f = [k \in 0..0 |-> IF k = 0 THEN a ELSE Put(f[k - 1], b[k])]
    BY DEF f
  <2>. QED
    BY <1>2, <1>3, <2>1
<1>4. CASE m # 0
  <2>1. m - 1 \in Nat /\ ~(m =< m - 1)
    BY <1>4
  <2>2. PICK f : f = [k \in 0..(m - 1) |-> IF k = 0 THEN a ELSE Put(f[k - 1], b[k])]
    BY <1>2, <2>1
  <2>. DEFINE g == [k \in 0..m |-> IF k = m THEN Put(f[m - 1], b[m]) ELSE f[k]]
  <2>3. ASSUME NEW k \in 0..m PROVE g[k] = IF k = 0 THEN a ELSE Put(g[k - 1], b[k])
    <3>1. CASE k = 0
      <4>1. f[0] = a
        BY <2>1, <2>2
      <4>. QED
        BY <1>4, <2>1, <3>1, <4>1
    <3>2. CASE k # 0 /\ k # m
      <4>1. k \in 0..(m - 1) /\ k - 1 \in 0..(m - 1)
        BY <3>2
      <4>2. f[k] = Put(f[k - 1], b[k])
        BY <2>2, <3>2, <4>1
      <4>3. g[k] = f[k] /\ g[k - 1] = f[k - 1]
        BY <3>2, <4>1
      <4>. QED
        BY <3>2, <4>2, <4>3
    <3>3. CASE k = m
      <4>1. m - 1 \in 0..m /\ m \in 0..m /\ m - 1 # m
        BY <2>1
      <4>2. g[m] = Put(f[m - 1], b[m]) /\ g[m - 1] = f[m - 1]
        BY <4>1
      <4>. QED
        BY <1>4, <3>3, <4>2
    <3>. QED
      BY <3>1, <3>2, <3>3
  <2>4. g = [k \in 0..m |-> IF k = 0 THEN a ELSE Put(g[k - 1], b[k])]
    <3>1. g = [k \in 0..m |-> g[k]]
      OBVIOUS
    <3>. HIDE DEF g
    <3>. QED
      BY <2>3, <3>1
  <2>. QED
    BY <1>2, <2>4
<1>. QED
  BY <1>3, <1>4

\* The union of two dictionaries: the records of the second one and what it does not have of the
\* first one.  It loses keys only when it is full.
LEMMA Merged ==
    ASSUME NEW a, NEW b, Dict(a), Dict(b)
    PROVE  LET out == MergeLedger(a, b)
           IN  /\ Dict(out) /\ Len(out) =< MaxLedger
               /\ \A r \in Range(out) : r \in Range(b) \/ (r \in Range(a) /\ ~Has(b, r.key))
               /\ Len(out) < MaxLedger => /\ Len(a) =< Len(out)
                                          /\ \A key : Has(a, key) \/ Has(b, key) => Has(out, key)
<1>1. PICK n \in Nat : n = Len(b) /\ DOMAIN b = 1..n
  BY DictDomain
<1>. DEFINE put == CHOOSE f : f = [k \in 0..n |-> IF k = 0 THEN a ELSE Put(f[k - 1], b[k])]
<1>2. put = [k \in 0..n |-> IF k = 0 THEN a ELSE Put(put[k - 1], b[k])]
  BY Puts
<1>3. MergeLedger(a, b) = Newest(put[n])
  BY <1>1 DEF MergeLedger
<1>. HIDE DEF put
<1>4. put[0] = a /\ \A k \in 1..n : put[k] = Put(put[k - 1], b[k])
  <2>1. put[0] = a
    BY <1>2
  <2>2. ASSUME NEW k \in 1..n PROVE put[k] = Put(put[k - 1], b[k])
    BY <1>2
  <2>. QED
    BY <2>1, <2>2
<1>. DEFINE Good(i) ==
              /\ Dict(put[i]) /\ Len(a) =< Len(put[i])
              /\ \A r \in Range(put[i]) :
                     \/ \E j \in 1..i : r = b[j]
                     \/ r \in Range(a) /\ ~\E j \in 1..i : b[j].key = r.key
              /\ \A key : Has(a, key) \/ (\E j \in 1..i : b[j].key = key) => Has(put[i], key)
<1>5. Good(n)
  <2>. DEFINE T == {i \in 0..n : ~Good(i)}
  <2>1. SUFFICES ASSUME T # {} PROVE FALSE
    BY <2>1
  <2>2. PICK m \in 0..n : ~Good(m) /\ \A i \in 0..n : ~Good(i) => m =< i
    <3>1. T \subseteq Nat
      OBVIOUS
    <3>2. \E m \in T : \A i \in T : m =< i
      <4>. HIDE DEF T
      <4>. QED
        BY <2>1, <3>1, Least
    <3>. HIDE DEF Good
    <3>. QED
      BY <3>2
  <2>3. CASE m = 0
    <3>1. Len(a) \in Nat
      BY DictDomain
    <3>2. Good(0)
      BY <1>4, <3>1
    <3>. QED
      BY <2>2, <2>3, <3>2
  <2>4. CASE m # 0
    <3>1. m \in 1..n /\ m - 1 \in 0..n /\ ~(m =< m - 1)
      BY <2>4
    <3>2. Good(m - 1)
      <4>. HIDE DEF Good
      <4>. QED
        BY <2>2, <3>1
    <3>3. PICK s, u, r : s = put[m - 1] /\ u = put[m] /\ r = b[m] /\ u = Put(s, r)
      BY <1>4, <3>1
    <3>11. Dict(s)
      BY <3>2, <3>3
    <3>4. /\ Dict(u) /\ Len(u) >= Len(s)
          /\ r \in Range(u)
          /\ \A q \in Range(u) : q = r \/ (q \in Range(s) /\ q.key # r.key)
          /\ \A key : Has(s, key) => Has(u, key)
      BY <3>3, <3>11, PutRecord
    <3>5. Len(a) =< Len(u)
      BY <3>2, <3>3, <3>4, DictDomain
    <3>6. \A j \in 1..m : j \in 1..(m - 1) \/ j = m
      BY <3>1
    <3>7. 1..(m - 1) \subseteq 1..m /\ m \in 1..m
      BY <3>1
    <3>8. ASSUME NEW q \in Range(u)
          PROVE  \/ \E j \in 1..m : q = b[j]
                 \/ q \in Range(a) /\ ~\E j \in 1..m : b[j].key = q.key
      <4>1. CASE q = r
        BY <3>3, <3>7, <4>1
      <4>2. CASE q \in Range(s) /\ q.key # r.key
        <5>1. \/ \E j \in 1..(m - 1) : q = b[j]
              \/ q \in Range(a) /\ ~\E j \in 1..(m - 1) : b[j].key = q.key
          BY <3>2, <3>3, <4>2
        <5>. QED
          BY <3>3, <3>6, <3>7, <4>2, <5>1
      <4>. QED
        BY <3>4, <4>1, <4>2
    <3>9. ASSUME NEW key, Has(a, key) \/ \E j \in 1..m : b[j].key = key PROVE Has(u, key)
      <4>1. CASE Has(a, key) \/ \E j \in 1..(m - 1) : b[j].key = key
        BY <3>2, <3>3, <3>4, <4>1
      <4>2. CASE key = r.key
        BY <3>4, <4>2 DEF Has, Range
      <4>. QED
        BY <3>3, <3>6, <3>9, <4>1, <4>2
    <3>10. Good(m)
      BY <3>3, <3>4, <3>5, <3>8, <3>9
    <3>. QED
      BY <2>2, <3>10
  <2>. QED
    BY <2>3, <2>4
<1>6. PICK u : u = put[n]
  OBVIOUS
<1>7. /\ Dict(u) /\ Len(a) =< Len(u)
      /\ \A r \in Range(u) : r \in Range(b) \/ (r \in Range(a) /\ ~Has(b, r.key))
      /\ \A key : Has(a, key) \/ Has(b, key) => Has(u, key)
  <2>1. Dict(u) /\ Len(a) =< Len(u)
    BY <1>5, <1>6
  <2>2. ASSUME NEW r \in Range(u) PROVE r \in Range(b) \/ (r \in Range(a) /\ ~Has(b, r.key))
    <3>1. \/ \E j \in 1..n : r = b[j]
          \/ r \in Range(a) /\ ~\E j \in 1..n : b[j].key = r.key
      BY <1>5, <1>6, <2>2
    <3>. QED
      BY <1>1, <3>1 DEF Has, Range
  <2>3. ASSUME NEW key, Has(a, key) \/ Has(b, key) PROVE Has(u, key)
    <3>1. Has(a, key) \/ \E j \in 1..n : b[j].key = key
      BY <1>1, <2>3 DEF Has
    <3>. QED
      BY <1>5, <1>6, <3>1
  <2>. QED
    BY <2>1, <2>2, <2>3
<1>8. PICK out : out = Newest(u) /\ out = MergeLedger(a, b)
  BY <1>3, <1>6
<1>9. /\ Dict(out) /\ Len(out) =< MaxLedger /\ Range(out) \subseteq Range(u)
      /\ Len(u) =< MaxLedger => out = u
      /\ Len(u) > MaxLedger => Len(out) = MaxLedger
  BY <1>7, <1>8, NewestPart
<1>10. Len(out) < MaxLedger => out = u
  <2>1. Len(u) \in Nat /\ Len(out) \in Nat /\ MaxLedger \in Nat
    BY <1>7, <1>9, DictDomain, CentralAssumption
  <2>. QED
    BY <1>9, <2>1
<1>11. \A r \in Range(out) : r \in Range(b) \/ (r \in Range(a) /\ ~Has(b, r.key))
  BY <1>7, <1>9
<1>. QED
  BY <1>7, <1>8, <1>9, <1>10, <1>11

-----------------------------------------------------------------------------
(* The invariant of the ledger *)

Succeeds(r) == r.step \notin {"none", "error_recoverable"}

\* The key of a record says which action it belongs to: a call, or a REFLECT of the router, which
\* never fails.
Fits(r) ==
    IF r.key.for = "itself"
    THEN r.key.of \in DOMAIN minted /\ r.key = Own(r.key.of) /\ r.type = minted[r.key.of].type
    ELSE r.type = "REFLECT" /\ Succeeds(r)

Valid(key) == key.for = "itself" => minted[key.of].form = "valid"

\* An action that succeeded has its success in the ledger.
LedgerInv ==
    /\ Dict(ledger) /\ Len(ledger) =< MaxLedger
    /\ \A r \in Range(ledger) : Fits(r)
    /\ \A key \in succeeded :
           Valid(key) /\ \E r \in Range(ledger) : r.key = key /\ Succeeds(r)

\* What the router returned for call n, on the ledger of the turn: it never records a failure of
\* an action that succeeded.
Routed(n, o) ==
    /\ o.ran => o.recorded /\ Succeeds(o.result) /\ Valid(o.result.key)
    /\ o.recorded => /\ Fits(o.result)
                     /\ o.result.key.for = "itself" => o.result.key = Own(n)
                     /\ o.result.key \in succeeded => Succeeds(o.result)

TurnInv ==
    /\ minted \in Seq(Call)
    /\ batch \in Seq(DOMAIN minted) /\ IsInjective(batch)
    /\ results \in Seq(Range(results)) /\ Len(results) =< Len(batch)
    /\ phase # "tools" => batch = <<>>
    /\ \A i \in DOMAIN results : Routed(batch[i], results[i])

-----------------------------------------------------------------------------
(* The router *)

\* The record of a key is the one that Previous finds.
LEMMA Found ==
    ASSUME Dict(ledger), NEW r \in Range(ledger)
    PROVE  Recorded(r.key) /\ Previous(r.key) = r
<1>1. PICK i \in DOMAIN ledger : r = ledger[i]
  BY DEF Range
<1>2. Recorded(r.key)
  BY <1>1 DEF Recorded
<1>3. PICK j \in DOMAIN ledger :
          ledger[j].key = r.key /\ j = CHOOSE l \in DOMAIN ledger : ledger[l].key = r.key
  BY <1>1
<1>4. j = i
  BY <1>1, <1>3 DEF Dict
<1>. QED
  BY <1>1, <1>2, <1>3, <1>4 DEF Previous

\* A call whose key succeeded is well formed, does not collide, and is a repetition.
LEMMA SucceededRepeats ==
    ASSUME LedgerInv, NEW n \in DOMAIN minted, Own(n) \in succeeded
    PROVE  /\ minted[n].form = "valid"
           /\ ~Collides(minted[n], Own(n)) /\ Repeats(minted[n], Own(n))
<1>1. Own(n).for = "itself" /\ Own(n).of = n
  BY DEF Own
<1>2. PICK r \in Range(ledger) : r.key = Own(n) /\ Succeeds(r) /\ Fits(r)
  BY DEF LedgerInv
<1>3. Previous(Own(n)) = r
  BY <1>2, Found DEF LedgerInv
<1>4. r.type = minted[n].type
  BY <1>1, <1>2 DEF Fits
<1>5. minted[n].form = "valid"
  BY <1>1 DEF LedgerInv, Valid
<1>. QED
  BY <1>2, <1>3, <1>4, <1>5 DEF Collides, Repeats, Succeeds

\* The fields of a result that the ledger keeps.
LEMMA PlainFields ==
    ASSUME NEW step, NEW c, NEW key
    PROVE  LET o == Plain(step, c, key)
               p == Ran(step, c, key)
           IN  /\ o.recorded /\ ~o.ran
               /\ o.result.step = step /\ o.result.type = c.type /\ o.result.key = key
               /\ p.recorded /\ p.ran
               /\ p.result.step = step /\ p.result.type = c.type /\ p.result.key = key
BY DEF Plain, Ran

\* A handler's result is recorded under the key and type of its call, and one that ran succeeded.
LEMMA HandledResult ==
    ASSUME NEW c, c.type \in Types, NEW key, NEW o \in Handled(c, key)
    PROVE  /\ o.recorded /\ o.result.type = c.type /\ o.result.key = key
           /\ o.ran => Succeeds(o.result)
<1>. DEFINE P(p) == /\ p.recorded /\ p.result.type = c.type /\ p.result.key = key
                    /\ p.ran => Succeeds(p.result)
<1>1. /\ P(Plain("error_recoverable", c, key))
      /\ P(Ran("continue", c, key)) /\ P(Ran("interrupt", c, key)) /\ P(Ran("finish", c, key))
  BY PlainFields DEF Succeeds
<1>2. \A p \in {Ran("continue", c, key), Plain("error_recoverable", c, key)} : P(Lacking(p))
  BY DEF Lacking, Ran, Plain, Succeeds
<1>3. ASSUME NEW p \in Reflect(c, key) PROVE P(p)
  <2>1. PICK h : p = [Ran("continue", c, key) EXCEPT !.healed = h]
    BY DEF Reflect
  <2>2. PICK q : q = Ran("continue", c, key) /\ p = [q EXCEPT !.healed = h]
    BY <2>1
  <2>3. p.recorded = q.recorded /\ p.ran = q.ran /\ p.result = q.result
    BY <2>2 DEF Ran, Plain
  <2>. QED
    BY <1>1, <2>2, <2>3
<1>4. \A p \in Finish(c, key) : P(p)
  <2>. HIDE DEF P
  <2>. QED
    BY <1>1, <1>2 DEF Finish
<1>5. P(o)
  <2>. HIDE DEF P
  <2>1. CASE c.type = "THINK"
    BY <1>3, <2>1 DEF Handled
  <2>2. CASE c.type = "REFLECT"
    BY <1>3, <2>2 DEF Handled
  <2>3. CASE c.type = "REVISE"
    BY <1>1, <1>3, <2>3 DEF Handled
  <2>4. CASE c.type = "DELEGATE"
    BY <1>1, <1>2, <2>4 DEF Handled
  <2>5. CASE c.type = "ASK_HUMAN"
    BY <1>1, <2>5 DEF Handled
  <2>6. CASE c.type = "FINISH"
    BY <1>4, <2>6 DEF Handled
  <2>. QED
    BY <2>1, <2>2, <2>3, <2>4, <2>5, <2>6 DEF Types
<1>. QED
  BY <1>5

\* A REFLECT that the router puts in the place of a call never fails.
LEMMA ForcedResult ==
    ASSUME NEW cause \in {"correction", "recovery"}, NEW m, NEW n, NEW o \in Forced(cause, m)
    PROVE  Routed(n, o)
<1>. DEFINE c == [type |-> "REFLECT", agent |-> "none", form |-> "valid"]
            key == [of |-> m, for |-> cause]
<1>1. key.for # "itself" /\ c.type = "REFLECT"
  OBVIOUS
<1>2. \/ Repeats(c, key) /\ o = Repeated(c, key)
      \/ o = [Ran("continue", c, key) EXCEPT !.healed = (cause = "correction")]
  BY DEF Forced
<1>. HIDE DEF c, key
<1>3. /\ o.recorded /\ o.result.type = "REFLECT" /\ o.result.key = key
      /\ Succeeds(o.result)
  <2>1. CASE Repeats(c, key) /\ o = Repeated(c, key)
    <3>1. o = Plain(Previous(key).step, c, key)
      BY <1>1, <2>1 DEF Repeated
    <3>. QED
      BY <1>1, <2>1, <3>1, PlainFields DEF Repeats, Succeeds
  <2>2. CASE o = [Ran("continue", c, key) EXCEPT !.healed = (cause = "correction")]
    BY <1>1, <2>2 DEF Ran, Plain, Succeeds
  <2>. QED
    BY <1>2, <2>1, <2>2
<1>. QED
  BY <1>1, <1>3 DEF Routed, Fits, Valid

\* Whatever the router returns for a call of the turn.
LEMMA RoutedResult ==
    ASSUME LedgerInv, minted \in Seq(Call), NEW n \in DOMAIN minted, NEW o \in Route(n)
    PROVE  Routed(n, o)
<1>. DEFINE c == minted[n]
            key == Own(n)
<1>1. key.for = "itself" /\ key.of = n
  BY DEF Own
<1>2. c.type \in Types /\ c.form \in Forms
  BY DEF Call
<1>3. key \in succeeded => c.form = "valid" /\ ~Collides(c, key) /\ Repeats(c, key)
  BY SucceededRepeats
<1>4. ASSUME o.recorded, o.result.type = c.type, o.result.key = key,
             o.ran => Succeeds(o.result) /\ c.form = "valid",
             key \in succeeded => Succeeds(o.result)
      PROVE  Routed(n, o)
  BY <1>1, <1>4 DEF Routed, Fits, Valid
<1>. HIDE DEF c, key
<1>5. CASE c.form = "malformed"
  <2>1. o = [Plain("error_recoverable", c, key) EXCEPT !.recorded = FALSE]
    BY <1>5 DEF Route, c, key
  <2>2. ~o.recorded /\ ~o.ran
    BY <2>1 DEF Plain
  <2>. QED
    BY <2>2 DEF Routed
<1>6. CASE c.form # "malformed" /\ (c.form = "ungrounded" \/ Collides(c, key))
  <2>1. o = Plain("error_recoverable", c, key)
    BY <1>6 DEF Route, c, key
  <2>2. key \notin succeeded
    BY <1>3, <1>6
  <2>. QED
    BY <1>4, <2>1, <2>2, PlainFields
<1>7. CASE c.form = "valid" /\ ~Collides(c, key) /\ Repeats(c, key)
  <2>1. o = Repeated(c, key)
    BY <1>7 DEF Route, c, key
  <2>2. PICK step : o = Plain(step, c, key) /\ step \in {"continue", Previous(key).step}
    BY <2>1 DEF Repeated
  <2>3. Succeeds(o.result)
    BY <1>7, <2>2, PlainFields DEF Repeats, Succeeds
  <2>. QED
    BY <1>4, <2>2, <2>3, PlainFields
<1>8. CASE c.form = "valid" /\ ~Collides(c, key) /\ ~Repeats(c, key)
  <2>1. key \notin succeeded
    BY <1>3, <1>8
  <2>2. \/ o = Checkpoint(c, key)
        \/ o \in Forced("correction", n)
        \/ o \in Forced("recovery", last.key.of)
        \/ o \in Handled(c, key)
    BY <1>8 DEF Route, c, key
  <2>3. CASE o = Checkpoint(c, key)
    <3>1. o.recorded /\ ~o.ran /\ o.result.type = c.type /\ o.result.key = key
      BY <2>3 DEF Checkpoint, Plain
    <3>. QED
      BY <1>4, <2>1, <3>1
  <2>4. CASE o \in Handled(c, key)
    BY <1>2, <1>4, <1>8, <2>1, <2>4, HandledResult
  <2>. QED
    BY <2>2, <2>3, <2>4, ForcedResult
<1>. QED
  BY <1>2, <1>5, <1>6, <1>7, <1>8 DEF Forms

-----------------------------------------------------------------------------
(* The reducers *)

\* The updates of a turn are reduced one after the other: the function of Reduced exists.
LEMMA Reductions ==
    ASSUME NEW n \in Nat
    PROVE  \E f : f = [k \in 0..n |->
               IF k = 0 THEN ledger
               ELSE IF results[k].recorded THEN MergeLedger(f[k - 1], Entered(results[k]))
               ELSE f[k - 1]]
<1>. DEFINE From(k, x) ==
                IF results[k].recorded THEN MergeLedger(x, Entered(results[k])) ELSE x
            Exists(i) == \E f : f = [k \in 0..i |-> IF k = 0 THEN ledger ELSE From(k, f[k - 1])]
            T == {i \in Nat : ~Exists(i)}
<1>. HIDE DEF From
<1>1. Exists(n)
  <2>1. SUFFICES ASSUME T # {} PROVE FALSE
    BY <2>1
  <2>2. PICK m \in Nat : ~Exists(m) /\ \A i \in Nat : ~Exists(i) => m =< i
    <3>1. T \subseteq Nat
      OBVIOUS
    <3>2. \E m \in T : \A i \in T : m =< i
      <4>. HIDE DEF T
      <4>. QED
        BY <2>1, <3>1, Least
    <3>. HIDE DEF Exists
    <3>. QED
      BY <3>2
  <2>3. CASE m = 0
    <3>. DEFINE f == [k \in 0..0 |-> ledger]
    <3>1. f = [k \in 0..0 |-> IF k = 0 THEN ledger ELSE From(k, f[k - 1])]
      BY DEF f
    <3>. QED
      BY <2>2, <2>3, <3>1
  <2>4. CASE m # 0
    <3>1. m - 1 \in Nat /\ ~(m =< m - 1)
      BY <2>4
    <3>2. PICK f : f = [k \in 0..(m - 1) |-> IF k = 0 THEN ledger ELSE From(k, f[k - 1])]
      BY <2>2, <3>1
    <3>. DEFINE g == [k \in 0..m |-> IF k = m THEN From(m, f[m - 1]) ELSE f[k]]
    <3>3. ASSUME NEW k \in 0..m PROVE g[k] = IF k = 0 THEN ledger ELSE From(k, g[k - 1])
      <4>1. CASE k = 0
        <5>1. f[0] = ledger
          BY <3>1, <3>2
        <5>. QED
          BY <2>4, <3>1, <4>1, <5>1
      <4>2. CASE k # 0 /\ k # m
        <5>1. k \in 0..(m - 1) /\ k - 1 \in 0..(m - 1)
          BY <4>2
        <5>2. f[k] = From(k, f[k - 1])
          BY <3>2, <4>2, <5>1
        <5>3. g[k] = f[k] /\ g[k - 1] = f[k - 1]
          BY <4>2, <5>1
        <5>. QED
          BY <4>2, <5>2, <5>3
      <4>3. CASE k = m
        <5>1. m - 1 \in 0..m /\ m \in 0..m /\ m - 1 # m
          BY <3>1
        <5>2. g[m] = From(m, f[m - 1]) /\ g[m - 1] = f[m - 1]
          BY <5>1
        <5>. QED
          BY <2>4, <4>3, <5>2
      <4>. QED
        BY <4>1, <4>2, <4>3
    <3>4. g = [k \in 0..m |-> IF k = 0 THEN ledger ELSE From(k, g[k - 1])]
      <4>1. g = [k \in 0..m |-> g[k]]
        OBVIOUS
      <4>. HIDE DEF g
      <4>. QED
        BY <3>3, <4>1
    <3>. QED
      BY <2>2, <3>4
  <2>. QED
    BY <2>3, <2>4
<1>2. PICK f : f = [k \in 0..n |-> IF k = 0 THEN ledger ELSE From(k, f[k - 1])]
  BY <1>1
<1>. QED
  BY <1>2 DEF From

\* What the turn makes of the ledger.  Every record fits its key.  A record of an action that had
\* succeeded, or that succeeded in this turn and was not overwritten, is a success.  Only a full
\* ledger loses a key.
LEMMA ReducedLedger ==
    ASSUME LedgerInv, TurnInv, Len(results) = Len(batch)
    PROVE  /\ Dict(Reduced) /\ Len(Reduced) =< MaxLedger
           /\ \A r \in Range(Reduced) :
                  /\ Fits(r)
                  /\ r.key \in succeeded => Succeeds(r)
                  /\ \A i \in DOMAIN results :
                         results[i].ran /\ ~Overwritten(i) /\ r.key = results[i].result.key
                             => Succeeds(r)
           /\ Len(Reduced) < MaxLedger =>
                  \A key : \/ Has(ledger, key)
                           \/ \E i \in DOMAIN results :
                                  results[i].recorded /\ results[i].result.key = key
                           => Has(Reduced, key)
<1>1. PICK n \in Nat : n = Len(results) /\ DOMAIN results = 1..n /\ DOMAIN batch = 1..n
  BY DEF TurnInv
<1>. DEFINE upTo == CHOOSE f : f = [k \in 0..n |->
               IF k = 0 THEN ledger
               ELSE IF results[k].recorded THEN MergeLedger(f[k - 1], Entered(results[k]))
               ELSE f[k - 1]]
<1>2. upTo = [k \in 0..n |->
               IF k = 0 THEN ledger
               ELSE IF results[k].recorded THEN MergeLedger(upTo[k - 1], Entered(results[k]))
               ELSE upTo[k - 1]]
  BY Reductions
<1>3. Reduced = upTo[n]
  BY <1>1 DEF Reduced
<1>. HIDE DEF upTo
<1>4. /\ upTo[0] = ledger
      /\ \A k \in 1..n : upTo[k] = IF results[k].recorded
                                   THEN MergeLedger(upTo[k - 1], Entered(results[k]))
                                   ELSE upTo[k - 1]
  <2>1. upTo[0] = ledger
    BY <1>2
  <2>2. ASSUME NEW k \in 1..n
        PROVE  upTo[k] = IF results[k].recorded
                         THEN MergeLedger(upTo[k - 1], Entered(results[k])) ELSE upTo[k - 1]
    BY <1>2
  <2>. QED
    BY <2>1, <2>2
<1>. DEFINE Sure(i, r) == Fits(r) /\ (r.key \in succeeded => Succeeds(r))
                          /\ \A j \in 1..i : /\ results[j].ran /\ ~Overwritten(j)
                                             /\ r.key = results[j].result.key
                                             => Succeeds(r)
            Known(i, key) == Has(ledger, key) \/ \E j \in 1..i : /\ results[j].recorded
                                                                 /\ results[j].result.key = key
            Kept(i) == /\ Dict(upTo[i]) /\ Len(upTo[i]) =< MaxLedger
                       /\ \A r \in Range(upTo[i]) : Sure(i, r)
                       /\ Len(upTo[i]) < MaxLedger => \A key : Known(i, key) => Has(upTo[i], key)
<1>5. ASSUME NEW r \in Range(ledger) PROVE Fits(r) /\ (r.key \in succeeded => Succeeds(r))
  <2>1. Fits(r)
    BY DEF LedgerInv
  <2>2. ASSUME r.key \in succeeded PROVE Succeeds(r)
    <3>1. PICK q \in Range(ledger) : q.key = r.key /\ Succeeds(q)
      BY <2>2 DEF LedgerInv
    <3>2. q = r
      BY <3>1 DEF LedgerInv, Dict, Range
    <3>. QED
      BY <3>1, <3>2
  <2>. QED
    BY <2>1, <2>2
<1>6. Kept(0)
  <2>1. Dict(ledger) /\ Len(ledger) =< MaxLedger
    BY DEF LedgerInv
  <2>2. \A r \in Range(ledger) : Sure(0, r)
    BY <1>5
  <2>3. \A key : Known(0, key) => Has(ledger, key)
    OBVIOUS
  <2>. QED
    BY <1>4, <2>1, <2>2, <2>3
<1>7. ASSUME NEW k \in 1..n, Kept(k - 1) PROVE Kept(k)
  <2>1. k - 1 \in 0..n /\ k \in DOMAIN results /\ \A j \in 1..k : j \in 1..(k - 1) \/ j = k
    BY <1>1
  <2>2. 1..(k - 1) \subseteq 1..k /\ k \in 1..k
    OBVIOUS
  <2>3. Routed(batch[k], results[k])
    BY <2>1 DEF TurnInv
  <2>4. CASE ~results[k].recorded
    <3>1. upTo[k] = upTo[k - 1] /\ ~results[k].ran
      BY <1>4, <2>3, <2>4 DEF Routed
    <3>2. \A r : Sure(k - 1, r) => Sure(k, r)
      BY <2>1, <3>1
    <3>3. \A key : Known(k, key) => Known(k - 1, key)
      BY <2>1, <2>4
    <3>. HIDE DEF Sure, Known
    <3>. QED
      BY <1>7, <3>1, <3>2, <3>3
  <2>5. CASE results[k].recorded
    <3>. DEFINE key == results[k].result.key
    <3>1. PICK a, b, out : a = upTo[k - 1] /\ b = Entered(results[k]) /\ out = MergeLedger(a, b)
      OBVIOUS
    <3>2. upTo[k] = out
      BY <1>4, <2>5, <3>1
    <3>3. /\ Dict(b) /\ Has(b, key)
          /\ \A r \in Range(b) :
                 \/ /\ r.step = results[k].result.step /\ r.type = results[k].result.type
                    /\ r.key = key
                 \/ r \in Range(ledger) /\ r.key # key
      BY <3>1, EnteredRecord DEF LedgerInv
    <3>4. /\ Dict(a) /\ Len(a) =< MaxLedger
          /\ \A r \in Range(a) : Sure(k - 1, r)
          /\ Len(a) < MaxLedger => \A l : Known(k - 1, l) => Has(a, l)
      <4>. HIDE DEF Sure, Known
      <4>. QED
        BY <1>7, <3>1
    <3>5. /\ Dict(out) /\ Len(out) =< MaxLedger
          /\ \A r \in Range(out) : r \in Range(b) \/ (r \in Range(a) /\ ~Has(b, r.key))
          /\ Len(out) < MaxLedger => /\ Len(a) =< Len(out)
                                     /\ \A l : Has(a, l) \/ Has(b, l) => Has(out, l)
      BY <3>1, <3>3, <3>4, Merged
    <3>6. ASSUME Len(out) < MaxLedger, NEW l, Known(k, l) PROVE Has(out, l)
      <4>1. Len(a) < MaxLedger
        <5>1. Len(a) \in Nat /\ Len(out) \in Nat /\ MaxLedger \in Nat
          BY <3>4, <3>5, DictDomain, CentralAssumption
        <5>. QED
          BY <3>5, <3>6, <5>1
      <4>2. Known(k - 1, l) \/ l = key
        BY <2>1, <3>6
      <4>. HIDE DEF Known
      <4>. QED
        BY <3>3, <3>4, <3>5, <3>6, <4>1, <4>2
    <3>7. ASSUME NEW r \in Range(b), r.step = results[k].result.step,
                 r.type = results[k].result.type, r.key = key
          PROVE  Sure(k, r)
      <4>1. Fits(results[k].result) /\ (key \in succeeded => Succeeds(results[k].result))
        BY <2>3, <2>5 DEF Routed
      <4>2. Fits(r) /\ (r.key \in succeeded => Succeeds(r))
        BY <3>7, <4>1 DEF Fits, Succeeds
      <4>3. ASSUME NEW j \in 1..k, results[j].ran, r.key = results[j].result.key
            PROVE  Succeeds(r)
        <5>1. CASE j = k
          BY <2>3, <3>7, <4>3, <5>1 DEF Routed, Succeeds
        <5>2. CASE j # k /\ key.for # "itself"
          BY <4>1, <3>7, <5>2 DEF Fits, Succeeds
        <5>3. CASE j # k /\ key.for = "itself"
          <6>1. j \in DOMAIN results /\ j \in DOMAIN batch /\ k \in DOMAIN batch
            BY <1>1, <2>1
          <6>2. Routed(batch[j], results[j])
            BY <6>1 DEF TurnInv
          <6>3. key = Own(batch[j])
            BY <3>7, <4>3, <5>3, <6>2 DEF Routed
          <6>4. key = Own(batch[k])
            BY <2>3, <2>5, <5>3 DEF Routed
          <6>5. batch[j] = batch[k]
            BY <6>3, <6>4 DEF Own
          <6>. QED
            BY <5>3, <6>1, <6>5 DEF TurnInv, IsInjective
        <5>. QED
          BY <5>1, <5>2, <5>3
      <4>. QED
        BY <4>2, <4>3
    <3>8. ASSUME NEW r \in Range(ledger), r.key # key PROVE Sure(k, r)
      <4>1. ASSUME NEW j \in 1..k, results[j].ran, ~Overwritten(j), r.key = results[j].result.key
            PROVE  FALSE
        <5>1. j < k
          BY <2>1, <3>8, <4>1
        <5>2. Recorded(r.key)
          BY <3>8, Found DEF LedgerInv
        <5>. QED
          BY <2>1, <2>5, <4>1, <5>1, <5>2 DEF Overwritten
      <4>. QED
        BY <1>5, <4>1
    <3>9. ASSUME NEW r \in Range(a), ~Has(b, r.key) PROVE Sure(k, r)
      <4>1. r.key # key
        BY <3>3, <3>9
      <4>. QED
        BY <2>1, <3>4, <4>1
    <3>. HIDE DEF Sure, Known
    <3>10. \A r \in Range(out) : Sure(k, r)
      BY <3>3, <3>5, <3>7, <3>8, <3>9
    <3>. QED
      BY <3>2, <3>5, <3>6, <3>10
  <2>. QED
    BY <2>4, <2>5
<1>8. Kept(n)
  <2>. DEFINE T == {i \in 0..n : ~Kept(i)}
  <2>. HIDE DEF Kept
  <2>1. SUFFICES ASSUME T # {} PROVE FALSE
    BY <2>1
  <2>2. PICK m \in 0..n : ~Kept(m) /\ \A i \in 0..n : ~Kept(i) => m =< i
    <3>1. T \subseteq Nat
      OBVIOUS
    <3>2. \E m \in T : \A i \in T : m =< i
      <4>. HIDE DEF T
      <4>. QED
        BY <2>1, <3>1, Least
    <3>. QED
      BY <3>2
  <2>3. m # 0
    BY <1>6, <2>2
  <2>4. m \in 1..n /\ m - 1 \in 0..n /\ ~(m =< m - 1)
    BY <2>3
  <2>. QED
    BY <1>7, <2>2, <2>4
<1>. QED
  BY <1>1, <1>3, <1>8

-----------------------------------------------------------------------------
(* The actions *)

\* An action that leaves the ledger, the calls and the successes alone and ends the turn, if it
\* was in one.
LEMMA LedgerKept ==
    ASSUME LedgerInv, TurnInv, ledger' = ledger, minted' = minted, succeeded' = succeeded,
           batch' = <<>>, results' = <<>>
    PROVE  LedgerInv' /\ TurnInv'
<1>1. LedgerInv'
  BY DEF LedgerInv, Fits, Valid
<1>2. TurnInv'
  BY DEF TurnInv, IsInjective
<1>. QED
  BY <1>1, <1>2

\* New calls change nothing of what is known of the old ones.
LEMMA EmitStep ==
    ASSUME LedgerInv, TurnInv, phase # "tools", NEW n \in Nat, NEW fresh \in [1..n -> Call],
           NEW calls \in Batches(n), Emit(fresh, calls)
    PROVE  LedgerInv' /\ TurnInv'
<1>1. /\ minted \in Seq(Call) /\ fresh \in Seq(Call) /\ minted' \in Seq(Call)
      /\ Len(fresh) = n /\ Len(minted') = Len(minted) + n
      /\ \A i \in DOMAIN minted : i \in DOMAIN minted' /\ minted'[i] = minted[i]
  <2>1. minted \in Seq(Call) /\ fresh \in Seq(Call) /\ Len(fresh) = n
    BY DEF TurnInv
  <2>2. minted' = minted \o fresh
    BY DEF Emit
  <2>. QED
    BY <2>1, <2>2
<1>2. LedgerInv'
  <2>1. \A r : Fits(r) => Fits(r)'
    BY <1>1 DEF Fits
  <2>2. ASSUME NEW key \in succeeded PROVE Valid(key)'
    <3>1. PICK r \in Range(ledger) : r.key = key /\ Fits(r) /\ Valid(key)
      BY DEF LedgerInv
    <3>. QED
      BY <1>1, <3>1 DEF Fits, Valid
  <2>3. ledger' = ledger /\ succeeded' = succeeded
    BY DEF Emit, history
  <2>4. \A r \in Range(ledger) : Fits(r)
    BY DEF LedgerInv
  <2>. HIDE DEF Fits, Valid
  <2>. QED
    BY <2>1, <2>2, <2>3, <2>4 DEF LedgerInv
<1>3. TurnInv'
  <2>1. batch' = calls /\ phase' = "tools" /\ results' = results
    BY DEF Emit, history
  <2>2. results = <<>>
    BY DEF TurnInv
  <2>3. IsInjective(calls)
    BY DEF Batches
  <2>4. PICK k \in 1..MaxBatch :
            calls \in [1..k -> (Len(minted) + 1)..(Len(minted) + n) \cup DOMAIN minted]
    BY DEF Batches
  <2>5. (Len(minted) + 1)..(Len(minted) + n) \cup DOMAIN minted \subseteq DOMAIN minted'
    BY <1>1
  <2>6. calls \in Seq(DOMAIN minted')
    BY <2>4, <2>5
  <2>. QED
    BY <1>1, <2>1, <2>2, <2>3, <2>6 DEF TurnInv
<1>. QED
  BY <1>2, <1>3

\* The result of one more call of the turn.
LEMMA ExecuteStep ==
    ASSUME LedgerInv, TurnInv, Execute
    PROVE  LedgerInv' /\ TurnInv'
<1>1. PICK o \in Route(batch[Len(results) + 1]) : results' = Append(results, o)
  BY DEF Execute
<1>2. /\ UNCHANGED <<ledger, succeeded, phase, batch, minted>>
      /\ phase = "tools" /\ Len(results) < Len(batch)
  BY DEF Execute, bookkeeping, history
<1>3. LedgerInv'
  BY <1>2 DEF LedgerInv, Fits, Valid
<1>4. PICK n \in Nat : n = Len(results) /\ DOMAIN results = 1..n /\ n + 1 \in DOMAIN batch
  BY <1>2 DEF TurnInv
<1>5. Routed(batch[n + 1], o)
  BY <1>1, <1>4, RoutedResult DEF TurnInv
<1>6. /\ Len(results') = n + 1 /\ DOMAIN results' = 1..(n + 1)
      /\ results'[n + 1] = o /\ \A i \in 1..n : results'[i] = results[i]
  BY <1>1, <1>4 DEF TurnInv
<1>7. results' \in Seq(Range(results'))
  <2>1. PICK u : u = results' /\ u \in Seq(Range(results) \cup {o})
    <3>1. PICK R : Range(results) \subseteq R /\ o \in R /\ R = Range(results) \cup {o}
      OBVIOUS
    <3>2. results \in Seq(R)
      BY <3>1 DEF TurnInv
    <3>3. Append(results, o) \in Seq(R)
      BY <3>1, <3>2, AppendProperties
    <3>. QED
      BY <1>1, <3>1, <3>3
  <2>2. Len(u) = n + 1 /\ DOMAIN u = 1..(n + 1)
    BY <1>6, <2>1
  <2>3. u \in [1..(n + 1) -> Range(u)]
    BY <2>1, <2>2 DEF Range
  <2>. QED
    BY <1>4, <2>1, <2>3
<1>8. \A i \in DOMAIN results' : Routed(batch[i], results'[i])
  <2>1. \A i \in 1..n : Routed(batch[i], results[i])
    BY <1>4 DEF TurnInv
  <2>2. \A i \in 1..(n + 1) : i \in 1..n \/ i = n + 1
    OBVIOUS
  <2>. QED
    BY <1>5, <1>6, <2>1, <2>2
<1>9. \A m, p : Routed(m, p) => Routed(m, p)'
  BY <1>2 DEF Routed, Fits, Valid
<1>10. TurnInv'
  <2>1. Len(results') =< Len(batch)
    BY <1>2, <1>4, <1>6 DEF TurnInv
  <2>. QED
    BY <1>2, <1>7, <1>8, <1>9, <2>1 DEF TurnInv
<1>. QED
  BY <1>3, <1>10

\* The reduced ledger has the successes of the turn, and still those of earlier ones.
LEMMA JoinStep ==
    ASSUME LedgerInv, TurnInv, Join
    PROVE  LedgerInv' /\ TurnInv'
<1>1. /\ Len(results) = Len(batch) /\ minted' = minted
      /\ ledger' = Reduced /\ batch' = <<>> /\ results' = <<>>
  BY DEF Join
<1>2. PICK out : out = ledger' /\ out = Reduced
  BY <1>1
<1>3. /\ Dict(out) /\ Len(out) =< MaxLedger
      /\ \A r \in Range(out) :
             /\ Fits(r)
             /\ r.key \in succeeded => Succeeds(r)
             /\ \A i \in DOMAIN results :
                    results[i].ran /\ ~Overwritten(i) /\ r.key = results[i].result.key
                        => Succeeds(r)
      /\ Len(out) < MaxLedger =>
             \A key : \/ Has(ledger, key)
                      \/ \E i \in DOMAIN results :
                             results[i].recorded /\ results[i].result.key = key
                      => Has(out, key)
  BY <1>1, <1>2, ReducedLedger
<1>4. ASSUME NEW key \in succeeded'
      PROVE  /\ \/ key \in succeeded
                \/ \E i \in DOMAIN results : /\ results[i].ran /\ ~Overwritten(i)
                                             /\ results[i].result.key = key
             /\ Len(out) < MaxLedger \/ Has(out, key)
  BY <1>2, <1>4 DEF Join, Has
<1>5. ASSUME NEW key \in succeeded'
      PROVE  Valid(key) /\ \E r \in Range(out) : r.key = key /\ Succeeds(r)
  <2>1. CASE key \in succeeded
    <3>1. Valid(key) /\ Has(ledger, key)
      BY <2>1 DEF LedgerInv, Has, Range
    <3>2. Has(out, key)
      BY <1>3, <1>4, <1>5, <3>1
    <3>. QED
      BY <1>3, <2>1, <3>1, <3>2 DEF Has, Range
  <2>2. CASE key \notin succeeded
    <3>1. PICK i \in DOMAIN results :
              results[i].ran /\ ~Overwritten(i) /\ results[i].result.key = key
      BY <1>4, <1>5, <2>2
    <3>2. results[i].recorded /\ Valid(key)
      BY <3>1 DEF TurnInv, Routed
    <3>3. Has(out, key)
      BY <1>3, <1>4, <1>5, <3>1, <3>2
    <3>. QED
      BY <1>3, <3>1, <3>2, <3>3 DEF Has, Range
  <2>. QED
    BY <2>1, <2>2
<1>6. LedgerInv'
  <2>1. \A r : Fits(r) => Fits(r)'
    BY <1>1 DEF Fits
  <2>2. \A key : Valid(key) => Valid(key)'
    BY <1>1 DEF Valid
  <2>. QED
    BY <1>2, <1>3, <1>5, <2>1, <2>2 DEF LedgerInv
<1>7. TurnInv'
  BY <1>1 DEF TurnInv, IsInjective
<1>. QED
  BY <1>6, <1>7

\* The invariant of the ledger holds at the start and is kept by every action.
LEMMA LedgerStep == Spec => [](LedgerInv /\ TurnInv)
<1>1. Init => LedgerInv /\ TurnInv
  BY CentralAssumption DEF Init, LedgerInv, TurnInv, Dict, Range, IsInjective
<1>2. LedgerInv /\ TurnInv /\ [Next]_vars => (LedgerInv /\ TurnInv)'
  <2>. SUFFICES ASSUME LedgerInv, TurnInv, [Next]_vars PROVE LedgerInv' /\ TurnInv'
    OBVIOUS
  <2>0. phase # "tools" => batch = <<>> /\ results = <<>>
    BY DEF TurnInv
  <2>1. CASE \E fresh, replied \in BOOLEAN : Begin(fresh, replied)
    BY <2>0, <2>1, LedgerKept DEF Begin
  <2>2. CASE Ends
    BY <2>0, <2>2, LedgerKept DEF Ends, Stop, Capped, Answer, bookkeeping, history
  <2>3. CASE ModelTurn
    <3>1. PICK n \in 0..Min({MaxBatch, MaxMinted - Len(minted)}) :
              \E calls \in Batches(n), fresh \in [1..n -> Call] : Emit(fresh, calls)
      BY <2>3 DEF ModelTurn
    <3>2. n \in Nat /\ phase # "tools"
      BY <2>3, <3>1 DEF ModelTurn
    <3>. QED
      BY <3>1, <3>2, EmitStep
  <2>4. CASE Execute
    BY <2>4, ExecuteStep
  <2>5. CASE Join
    BY <2>5, JoinStep
  <2>6. CASE Abandon
    BY <2>6, LedgerKept DEF Abandon, bookkeeping, history
  <2>7. CASE UNCHANGED vars
    BY <2>7 DEF vars, bookkeeping, history, LedgerInv, TurnInv, Routed, Fits, Valid
  <2>. QED
    BY <2>1, <2>2, <2>3, <2>4, <2>5, <2>6, <2>7 DEF Next
<1>. QED
  BY <1>1, <1>2, PTL DEF Spec

\* An action that succeeded is in the ledger with its success, whatever its siblings and later
\* actions record (_build_state_update, merge_sp_idempotency_ledger): the ledger of every size
\* forgets only the oldest keys, when it is full.
THEOREM SuccessesAreRemembered == Spec => []SuccessRemembered
<1>1. LedgerInv => SuccessRemembered
  <2>. SUFFICES ASSUME LedgerInv, NEW key \in succeeded
                PROVE  Recorded(key) /\ Previous(key).step # "error_recoverable"
    BY DEF SuccessRemembered
  <2>1. PICK r \in Range(ledger) : r.key = key /\ Succeeds(r)
    BY DEF LedgerInv
  <2>. QED
    BY <2>1, Found DEF LedgerInv, Succeeds
<1>. QED
  BY <1>1, LedgerStep, PTL

-----------------------------------------------------------------------------
(* The types *)

\* What the router returns is an outcome; what the ledger takes of it has a step and a type.
Typical(o) == o \in Outcome /\ (o.recorded => o.result.step \in Steps /\ o.result.type \in Types)

\* A run that goes on has begun, and a turn that was admitted has a place in the budget.
StateInv ==
    /\ run \in 0..MaxRuns /\ (phase # "idle" => run > 0)
    /\ iteration \in 0..MaxActions /\ (phase = "tools" => Count < MaxActions)
    /\ Range(ledger) \subseteq Record
    /\ last \in Result /\ lastKey \in Keys
    /\ asked \in BOOLEAN /\ stale \in BOOLEAN
    /\ phase \in {"idle", "model", "tools"}
    /\ Len(minted) =< MaxMinted
    /\ \A i \in DOMAIN results : Typical(results[i])
    /\ turns \in Nat /\ succeeded \subseteq Keys

\* The outcomes the router makes.
LEMMA PlainTyped ==
    ASSUME NEW step \in Steps, NEW c, c.type \in Types, c.agent \in Agents \cup {"none"},
           NEW key \in Keys, NEW h \in BOOLEAN
    PROVE  /\ Typical(Plain(step, c, key)) /\ Typical(Lacking(Plain(step, c, key)))
           /\ Typical(Ran(step, c, key)) /\ Typical(Lacking(Ran(step, c, key)))
           /\ Typical([Ran(step, c, key) EXCEPT !.healed = h])
           /\ Typical([Plain(step, c, key) EXCEPT !.recorded = FALSE])
<1>. DEFINE Known == [step : Steps, type : Types, key : Keys, agent : Agents \cup {"none"},
                      lacking : BOOLEAN]
            Good(o) == o \in [result : Known, shown : Known, recorded : BOOLEAN, ran : BOOLEAN,
                              healed : BOOLEAN]
<1>1. PICK r : r = [step |-> step, type |-> c.type, key |-> key, agent |-> c.agent,
                    lacking |-> FALSE]
  OBVIOUS
<1>2. r \in Known
  BY <1>1
<1>3. PICK o : o = Plain(step, c, key)
  OBVIOUS
<1>4. Good(o)
  <2>1. o = [result |-> r, shown |-> r, recorded |-> TRUE, ran |-> FALSE, healed |-> FALSE]
    BY <1>1, <1>3 DEF Plain
  <2>. HIDE DEF Known
  <2>. QED
    BY <1>2, <2>1
<1>5. PICK p : p = Ran(step, c, key) /\ p = [o EXCEPT !.ran = TRUE]
  BY <1>3 DEF Ran
<1>6. Good(p) /\ Good([p EXCEPT !.healed = h]) /\ Good([o EXCEPT !.recorded = FALSE])
  <2>. HIDE DEF Known
  <2>1. Good(p)
    BY <1>4, <1>5
  <2>. QED
    BY <1>4, <2>1
<1>7. ASSUME NEW q, Good(q) PROVE Good(Lacking(q))
  <2>1. PICK a, b : a = [q.result EXCEPT !.lacking = TRUE] /\ b = [q.shown EXCEPT !.lacking = TRUE]
    OBVIOUS
  <2>2. a \in Known /\ b \in Known
    BY <1>7, <2>1
  <2>. HIDE DEF Known
  <2>3. Lacking(q) = [q EXCEPT !.result = a, !.shown = b]
    BY <1>7, <2>1 DEF Lacking
  <2>. QED
    BY <1>7, <2>2, <2>3
<1>8. ASSUME NEW q, Good(q) PROVE Typical(q)
  <2>1. \A k \in Known : k \in Result /\ k.step \in Steps /\ k.type \in Types
    BY DEF Result
  <2>2. q.result \in Known /\ q.shown \in Known
    BY <1>8
  <2>. HIDE DEF Known
  <2>. QED
    BY <1>8, <2>1, <2>2 DEF Typical, Outcome
<1>. HIDE DEF Good
<1>. QED
  BY <1>3, <1>4, <1>5, <1>6, <1>7, <1>8

\* A refused delegation is shown as a THINK.
LEMMA CheckpointTyped ==
    ASSUME NEW c, c.type \in Types, c.agent \in Agents \cup {"none"}, NEW key \in Keys
    PROVE  Typical(Checkpoint(c, key))
<1>1. PICK o : o = Plain("continue", c, key)
  OBVIOUS
<1>2. Typical(o)
  BY <1>1, PlainTyped DEF Steps
<1>3. PICK b : b = [o.shown EXCEPT !.type = "THINK", !.agent = "none"]
  OBVIOUS
<1>4. b \in Result
  BY <1>2, <1>3 DEF Typical, Outcome, Result, Types
<1>5. Checkpoint(c, key) = [o EXCEPT !.shown = b]
  BY <1>1, <1>2, <1>3 DEF Checkpoint, Typical, Outcome, Result
<1>. QED
  BY <1>2, <1>4, <1>5 DEF Typical, Outcome

\* What is known of a key has a step.
LEMMA PreviousTyped ==
    ASSUME StateInv, NEW key
    PROVE  Previous(key).step \in Steps \cup {"none"}
<1>1. CASE Recorded(key)
  <2>1. PICK i \in DOMAIN ledger : i = CHOOSE j \in DOMAIN ledger : ledger[j].key = key
    BY <1>1 DEF Recorded
  <2>2. ledger[i] \in Record
    BY DEF StateInv, Range
  <2>. QED
    BY <1>1, <2>1, <2>2 DEF Previous, Record
<1>2. CASE ~Recorded(key)
  BY <1>2 DEF Previous, NoResult, StateInv, Result
<1>. QED
  BY <1>1, <1>2

\* A repeated action is an outcome.
LEMMA RepeatedTyped ==
    ASSUME StateInv, NEW c, c.type \in Types, c.agent \in Agents \cup {"none"},
           NEW key \in Keys, Repeats(c, key)
    PROVE  Typical(Repeated(c, key))
<1>1. PICK step \in Steps : Repeated(c, key) = Plain(step, c, key)
  <2>1. Previous(key).step \in Steps
    BY PreviousTyped DEF Repeats
  <2>. QED
    BY <2>1 DEF Repeated, Steps
<1>2. ASSUME NEW h \in BOOLEAN PROVE Typical(Plain(step, c, key))
  BY PlainTyped
<1>. QED
  BY <1>1, <1>2

\* Whatever the router returns is an outcome.
LEMMA RouteTyped ==
    ASSUME StateInv, minted \in Seq(Call), NEW n \in DOMAIN minted, NEW o \in Route(n)
    PROVE  Typical(o)
<1>1. PICK c, key : c = minted[n] /\ key = Own(n)
  OBVIOUS
<1>2. /\ c.type \in Types /\ c.agent \in Agents \cup {"none"}
      /\ n \in Nat /\ n > 0 /\ n =< Len(minted) /\ Len(minted) \in Nat
  BY <1>1 DEF Call
<1>3. n \in 0..MaxMinted /\ key \in Keys
  <2>1. n \in 0..MaxMinted
    BY <1>2, CentralAssumption DEF StateInv
  <2>. QED
    BY <1>1, <2>1 DEF Own, Keys
<1>4. /\ "continue" \in Steps /\ "error_recoverable" \in Steps /\ "interrupt" \in Steps
      /\ "finish" \in Steps
  BY DEF Steps
<1>5. stale \in BOOLEAN /\ last \in Result
  BY DEF StateInv
<1>6. ASSUME NEW h \in BOOLEAN
      PROVE  /\ Typical(Plain("error_recoverable", c, key))
             /\ Typical(Lacking(Plain("error_recoverable", c, key)))
             /\ Typical([Plain("error_recoverable", c, key) EXCEPT !.recorded = FALSE])
             /\ Typical(Ran("continue", c, key)) /\ Typical(Lacking(Ran("continue", c, key)))
             /\ Typical([Ran("continue", c, key) EXCEPT !.healed = h])
             /\ Typical(Ran("interrupt", c, key)) /\ Typical(Ran("finish", c, key))
             /\ Typical(Checkpoint(c, key))
  BY <1>2, <1>3, <1>4, PlainTyped, CheckpointTyped
<1>7. \A p \in Reflect(c, key) : Typical(p)
  BY <1>5, <1>6 DEF Reflect
<1>8. \A p \in Finish(c, key) : Typical(p)
  BY <1>6 DEF Finish
<1>9. \A p \in Handled(c, key) : Typical(p)
  <2>1. CASE c.type = "THINK"
    BY <1>7, <2>1 DEF Handled
  <2>2. CASE c.type = "REFLECT"
    BY <1>7, <2>2 DEF Handled
  <2>3. CASE c.type = "REVISE"
    BY <1>6, <1>7, <2>3 DEF Handled
  <2>4. CASE c.type = "DELEGATE"
    BY <1>6, <2>4 DEF Handled
  <2>5. CASE c.type = "ASK_HUMAN"
    BY <1>6, <2>5 DEF Handled
  <2>6. CASE c.type = "FINISH"
    BY <1>8, <2>6 DEF Handled
  <2>. QED
    BY <1>2, <2>1, <2>2, <2>3, <2>4, <2>5, <2>6 DEF Types
<1>10. ASSUME NEW cause \in {"correction", "recovery"}, NEW m \in 0..MaxMinted,
              NEW p \in Forced(cause, m)
       PROVE  Typical(p)
  <2>1. PICK d, k : /\ d = [type |-> "REFLECT", agent |-> "none", form |-> "valid"]
                    /\ k = [of |-> m, for |-> cause]
    OBVIOUS
  <2>2. k \in Keys /\ d.type \in Types /\ d.agent \in Agents \cup {"none"}
    BY <2>1 DEF Keys, Types
  <2>3. \/ Repeats(d, k) /\ p = Repeated(d, k)
        \/ p = [Ran("continue", d, k) EXCEPT !.healed = (cause = "correction")]
    BY <2>1 DEF Forced
  <2>4. CASE Repeats(d, k) /\ p = Repeated(d, k)
    BY <2>2, <2>4, RepeatedTyped
  <2>5. CASE p = [Ran("continue", d, k) EXCEPT !.healed = (cause = "correction")]
    <3>1. PICK h \in BOOLEAN : h = (cause = "correction")
      OBVIOUS
    <3>2. p = [Ran("continue", d, k) EXCEPT !.healed = h]
      BY <2>5, <3>1
    <3>. QED
      BY <1>4, <2>2, <3>2, PlainTyped
  <2>. QED
    BY <2>3, <2>4, <2>5
<1>11. last.key.of \in 0..MaxMinted
  BY <1>5 DEF Result, Keys
<1>12. \/ o = [Plain("error_recoverable", c, key) EXCEPT !.recorded = FALSE]
       \/ o = Plain("error_recoverable", c, key)
       \/ Repeats(c, key) /\ o = Repeated(c, key)
       \/ o = Checkpoint(c, key)
       \/ o \in Forced("correction", n) \/ o \in Forced("recovery", last.key.of)
       \/ o \in Handled(c, key)
  BY <1>1 DEF Route
<1>. QED
  BY <1>2, <1>3, <1>6, <1>9, <1>10, <1>11, <1>12, RepeatedTyped

\* Adding an outcome to the ledger adds a record, of this run.
LEMMA EnteredTyped ==
    ASSUME Dict(ledger), Range(ledger) \subseteq Record, NEW o, Typical(o), o.recorded,
           Count \in Nat, run \in 1..MaxRuns
    PROVE  Dict(Entered(o)) /\ Range(Entered(o)) \subseteq Record
<1>1. PICK r : r = [step |-> o.result.step, type |-> o.result.type, key |-> o.result.key,
                    iteration |-> Count + 1, run |-> run]
  OBVIOUS
<1>2. r \in Record /\ r.key = o.result.key
  <2>1. o.result.step \in Steps /\ o.result.type \in Types /\ o.result.key \in Keys
    BY DEF Typical, Outcome, Result
  <2>2. Count + 1 \in Nat
    OBVIOUS
  <2>. QED
    BY <1>1, <2>1, <2>2 DEF Record
<1>3. PICK s, u : s = Popped(ledger, o.result.key) /\ u = Append(s, r)
  OBVIOUS
<1>4. Entered(o) = Newest(u)
  BY <1>1, <1>3 DEF Entered
<1>5. Dict(s) /\ \A q \in Range(s) : q \in Range(ledger) /\ q.key # o.result.key
  BY <1>3, PoppedKey
<1>6. ~Has(s, r.key)
  BY <1>2, <1>5 DEF Has, Range
<1>7. u = Put(s, r)
  BY <1>3, <1>6 DEF Put, Has
<1>8. Dict(u) /\ \A q \in Range(u) : q = r \/ q \in Range(s)
  BY <1>5, <1>7, PutRecord
<1>. QED
  BY <1>2, <1>4, <1>5, <1>8, NewestPart

\* The reduced ledger is made of records.
LEMMA ReducedTyped ==
    ASSUME LedgerInv, TurnInv, StateInv, phase = "tools", Count \in Nat
    PROVE  Range(Reduced) \subseteq Record
<1>1. PICK n \in Nat : n = Len(results) /\ DOMAIN results = 1..n
  BY DEF TurnInv
<1>. DEFINE upTo == CHOOSE f : f = [k \in 0..n |->
               IF k = 0 THEN ledger
               ELSE IF results[k].recorded THEN MergeLedger(f[k - 1], Entered(results[k]))
               ELSE f[k - 1]]
<1>2. upTo = [k \in 0..n |->
               IF k = 0 THEN ledger
               ELSE IF results[k].recorded THEN MergeLedger(upTo[k - 1], Entered(results[k]))
               ELSE upTo[k - 1]]
  BY Reductions
<1>3. Reduced = upTo[n]
  BY <1>1 DEF Reduced
<1>. HIDE DEF upTo
<1>4. /\ upTo[0] = ledger
      /\ \A k \in 1..n : upTo[k] = IF results[k].recorded
                                   THEN MergeLedger(upTo[k - 1], Entered(results[k]))
                                   ELSE upTo[k - 1]
  <2>1. upTo[0] = ledger
    BY <1>2
  <2>2. ASSUME NEW k \in 1..n
        PROVE  upTo[k] = IF results[k].recorded
                         THEN MergeLedger(upTo[k - 1], Entered(results[k])) ELSE upTo[k - 1]
    BY <1>2
  <2>. QED
    BY <2>1, <2>2
<1>. DEFINE Good(s) == Dict(s) /\ Range(s) \subseteq Record
<1>5. Good(ledger) /\ run \in 1..MaxRuns
  <2>1. MaxRuns \in Nat /\ run > 0 /\ run \in 0..MaxRuns
    BY CentralAssumption DEF StateInv
  <2>2. Good(ledger)
    BY DEF LedgerInv, StateInv
  <2>. QED
    BY <2>1, <2>2
<1>6. ASSUME NEW k \in 1..n, Good(upTo[k - 1]) PROVE Good(upTo[k])
  <2>1. CASE results[k].recorded
    <3>1. PICK a, b, out : a = upTo[k - 1] /\ b = Entered(results[k]) /\ out = MergeLedger(a, b)
      OBVIOUS
    <3>2. Typical(results[k])
      BY <1>1 DEF StateInv
    <3>3. Dict(b) /\ Range(b) \subseteq Record
      BY <1>5, <2>1, <3>1, <3>2, EnteredTyped
    <3>4. Dict(out) /\ \A r \in Range(out) : r \in Range(b) \/ r \in Range(a)
      BY <1>6, <3>1, <3>3, Merged
    <3>5. upTo[k] = out
      BY <1>4, <2>1, <3>1
    <3>. QED
      BY <1>6, <3>1, <3>3, <3>4, <3>5
  <2>2. CASE ~results[k].recorded
    BY <1>4, <1>6, <2>2
  <2>. QED
    BY <2>1, <2>2
<1>7. Good(upTo[n])
  <2>. DEFINE T == {i \in 0..n : ~Good(upTo[i])}
  <2>. HIDE DEF Good
  <2>1. SUFFICES ASSUME T # {} PROVE FALSE
    BY <2>1
  <2>2. PICK m \in 0..n : ~Good(upTo[m]) /\ \A i \in 0..n : ~Good(upTo[i]) => m =< i
    <3>1. T \subseteq Nat
      OBVIOUS
    <3>2. \E m \in T : \A i \in T : m =< i
      <4>. HIDE DEF T
      <4>. QED
        BY <2>1, <3>1, Least
    <3>. QED
      BY <3>2
  <2>3. m # 0
    BY <1>4, <1>5, <2>2
  <2>4. m \in 1..n /\ m - 1 \in 0..n /\ ~(m =< m - 1)
    BY <2>3
  <2>. QED
    BY <1>6, <2>2, <2>4
<1>. QED
  BY <1>3, <1>7

\* The last of some places.
LEMMA LastPlace ==
    ASSUME NEW n \in Nat, NEW W, W \subseteq 1..n, W # {}
    PROVE  Max(W) \in W
<1>. DEFINE T == {k \in Nat : \A i \in W : i =< k}
<1>1. T \subseteq Nat /\ n \in T
  OBVIOUS
<1>2. PICK m \in T : \A k \in T : m =< k
  <2>. HIDE DEF T
  <2>. QED
    BY <1>1, Least
<1>3. m \in W
  <2>1. SUFFICES ASSUME m \notin W PROVE FALSE
    OBVIOUS
  <2>2. m \in Nat /\ m > 0
    <3>1. PICK w : w \in W
      OBVIOUS
    <3>2. w \in Nat /\ w > 0
      BY <3>1
    <3>. QED
      BY <1>2, <3>1, <3>2
  <2>3. \A i \in W : i =< m - 1
    BY <1>2, <2>1, <2>2
  <2>4. m - 1 \in T
    BY <2>2, <2>3
  <2>. QED
    BY <1>2, <2>2, <2>4
<1>4. \A i \in W : i =< m
  BY <1>2
<1>5. \E x \in W : \A y \in W : x >= y
  BY <1>3, <1>4
<1>. QED
  BY <1>5 DEF Max

\* The count of a turn is the one it began with.
LEMMA CountStays ==
    ASSUME iteration \in Nat, iteration' = Count, ledger' = ledger, run' = run
    PROVE  Count' = Count
<1>1. PICK mine : mine = {i \in DOMAIN ledger : ledger[i].run = run}
  OBVIOUS
<1>2. PICK c : c = Min({ledger[i].iteration : i \in mine}) + Cardinality(mine) - 1
  OBVIOUS
<1>3. Count = IF mine # {} /\ c \in Nat /\ c > iteration THEN c ELSE iteration
  BY <1>1, <1>2 DEF Count
<1>4. Count' = IF mine # {} /\ c \in Nat /\ c > iteration' THEN c ELSE iteration'
  BY <1>1, <1>2 DEF Count
<1>. QED
  BY <1>3, <1>4

\* The join records outcomes of the turn.
LEMMA JoinTyped ==
    ASSUME LedgerInv, TurnInv, StateInv, Join
    PROVE  StateInv'
<1>1. /\ phase = "tools" /\ ledger' = Reduced /\ run' = run /\ minted' = minted
      /\ phase' \in {"idle", "model"} /\ results' = <<>>
  BY DEF Join
<1>2. Count \in Nat /\ Count < MaxActions /\ iteration \in Nat /\ MaxActions \in Nat
  BY <1>1, CountBound, CentralAssumption DEF StateInv
<1>3. Range(ledger') \subseteq Record
  <2>1. Range(Reduced) \subseteq Record
    BY <1>1, <1>2, ReducedTyped
  <2>2. PICK l : l = ledger' /\ l = Reduced
    BY <1>1
  <2>. QED
    BY <2>1, <2>2
<1>4. PICK W : W = {i \in DOMAIN results : results[i].recorded}
  OBVIOUS
<1>5. /\ \/ iteration' = iteration /\ last' = last /\ lastKey' = lastKey
         \/ /\ W # {} /\ iteration' = Count + 1
            /\ last' \in Combined(W) /\ lastKey' = results[Max(W)].result.key
      /\ turns' = turns \/ turns' = turns + 1
  BY <1>4 DEF Join
<1>6. \A i \in DOMAIN results : /\ results[i].shown \in Result /\ results[i].result \in Result
                                /\ results[i].result.key \in Keys
  BY DEF StateInv, Typical, Outcome, Result
<1>7. last' \in Result /\ lastKey' \in Keys
  <2>1. CASE last' = last /\ lastKey' = lastKey
    BY <2>1 DEF StateInv
  <2>2. CASE W # {} /\ last' \in Combined(W) /\ lastKey' = results[Max(W)].result.key
    <3>1. PICK n \in Nat : n = Len(results) /\ DOMAIN results = 1..n
      BY DEF TurnInv
    <3>2. Max(W) \in W
      BY <1>4, <2>2, <3>1, LastPlace
    <3>3. lastKey' \in Keys
      BY <1>4, <1>6, <2>2, <3>2
    <3>4. \E i \in W : \/ last' = results[i].shown
                       \/ last' = [results[i].shown EXCEPT !.type = "BATCH"]
      BY <2>2 DEF Combined
    <3>5. PICK r \in Result : last' = r \/ last' = [r EXCEPT !.type = "BATCH"]
      BY <1>4, <1>6, <3>4
    <3>6. last' \in Result
      BY <3>5 DEF Result
    <3>. QED
      BY <3>3, <3>6
  <2>. QED
    BY <1>5, <2>1, <2>2
<1>8. iteration' \in 0..MaxActions /\ turns' \in Nat
  BY <1>2, <1>5 DEF StateInv
<1>9. asked' \in BOOLEAN
  BY DEF Join, StateInv
<1>10. stale' \in BOOLEAN
  <2>1. stale' \in {FALSE, stale}
    BY DEF Join
  <2>. QED
    BY <2>1 DEF StateInv
<1>11. succeeded' \subseteq Keys
  <2>1. succeeded' \subseteq succeeded \cup {results[i].result.key : i \in DOMAIN results}
    BY DEF Join
  <2>. QED
    BY <1>6, <2>1 DEF StateInv
<1>. QED
  BY <1>1, <1>3, <1>7, <1>8, <1>9, <1>10, <1>11 DEF StateInv

\* Every action keeps the types.
LEMMA StateStep ==
    ASSUME LedgerInv, TurnInv, StateInv, [Next]_vars
    PROVE  StateInv'
<1>1. /\ iteration \in Nat /\ run \in Nat /\ MaxRuns \in Nat /\ MaxActions \in Nat
      /\ MaxActions >= 2 /\ MaxMinted \in Nat /\ MaxBatch \in Nat
      /\ Count \in Nat
      /\ phase # "tools" => batch = <<>> /\ results = <<>>
  BY CountBound, CentralAssumption DEF StateInv, TurnInv
<1>2. NoResult \in Result /\ NoKey \in Keys /\ [NoResult EXCEPT !.step = "error_fatal"] \in Result
  <2>1. NoKey \in Keys
    BY <1>1 DEF NoKey, Own, Keys
  <2>2. NoResult \in Result
    BY <2>1 DEF NoResult, Result, Types
  <2>. QED
    BY <2>1, <2>2 DEF Result, Steps
<1>3. CASE \E fresh, replied \in BOOLEAN : Begin(fresh, replied)
  <2>1. PICK fresh \in BOOLEAN, replied \in BOOLEAN : Begin(fresh, replied)
    BY <1>3
  <2>2. asked' \in BOOLEAN
    BY <2>1 DEF Begin
  <2>. QED
    BY <1>1, <1>2, <2>1, <2>2 DEF Begin, StateInv
<1>4. CASE Stop
  BY <1>4 DEF Stop, bookkeeping, history, StateInv
<1>5. CASE Capped
  BY <1>2, <1>5 DEF Capped, history, StateInv
<1>6. CASE Answer
  BY <1>1, <1>6 DEF Answer, history, StateInv
<1>7. CASE ModelTurn
  <2>1. /\ phase = "model" /\ Count < MaxActions
        /\ \E n \in 0..Min({MaxBatch, MaxMinted - Len(minted)}) :
               \E calls \in Batches(n), fresh \in [1..n -> Call] : Emit(fresh, calls)
    BY <1>7 DEF ModelTurn
  <2>2. PICK n \in 0..Min({MaxBatch, MaxMinted - Len(minted)}) :
            \E calls \in Batches(n), fresh \in [1..n -> Call] : Emit(fresh, calls)
    BY <2>1
  <2>3. PICK calls \in Batches(n), fresh \in [1..n -> Call] : Emit(fresh, calls)
    BY <2>2
  <2>4. Len(minted) \in Nat /\ Len(minted) =< MaxMinted /\ minted \in Seq(Call)
    BY DEF StateInv, TurnInv
  <2>5. n \in Nat /\ n =< MaxMinted - Len(minted)
    <3>1. PICK a, b : a = MaxBatch /\ b = MaxMinted - Len(minted) /\ a \in Nat /\ b \in Nat
      BY <1>1, <2>4
    <3>2. Min({a, b}) \in Nat /\ Min({a, b}) =< b
      <4>1. \E x \in {a, b} : \A y \in {a, b} : x =< y
        BY <3>1
      <4>. QED
        BY <3>1, <4>1 DEF Min
    <3>. QED
      BY <3>1, <3>2
  <2>6. Len(minted') =< MaxMinted
    <3>1. fresh \in Seq(Call) /\ Len(fresh) = n
      BY <2>5
    <3>2. Len(minted') = Len(minted) + n
      <4>1. minted' = minted \o fresh
        BY <2>3 DEF Emit
      <4>. QED
        BY <2>4, <3>1, <4>1, ConcatProperties
    <3>. QED
      BY <1>1, <2>4, <2>5, <3>2
  <2>7. /\ iteration' = Count /\ phase' = "tools" /\ results' = <<>>
        /\ UNCHANGED <<run, ledger, last, lastKey, asked, stale, turns, succeeded>>
    BY <1>1, <2>1, <2>3 DEF Emit, history
  <2>8. Count' < MaxActions
    BY <1>1, <2>1, <2>7, CountStays
  <2>. QED
    BY <1>1, <2>1, <2>6, <2>7, <2>8 DEF StateInv
<1>8. CASE Execute
  <2>1. PICK o \in Route(batch[Len(results) + 1]) : results' = Append(results, o)
    BY <1>8 DEF Execute
  <2>2. /\ UNCHANGED <<run, iteration, ledger, last, lastKey, asked, stale, turns, succeeded>>
        /\ UNCHANGED <<phase, minted>> /\ Len(results) < Len(batch)
    BY <1>8 DEF Execute, bookkeeping, history
  <2>3. PICK n \in Nat : n = Len(results) /\ DOMAIN results = 1..n /\ n + 1 \in DOMAIN batch
    BY <2>2 DEF TurnInv
  <2>4. batch[n + 1] \in DOMAIN minted /\ minted \in Seq(Call)
    BY <2>3 DEF TurnInv
  <2>5. Typical(o)
    BY <2>1, <2>3, <2>4, RouteTyped
  <2>6. \A i \in DOMAIN results' : Typical(results'[i])
    <3>1. /\ DOMAIN results' = 1..(n + 1) /\ results'[n + 1] = o
          /\ \A i \in 1..n : results'[i] = results[i]
      BY <2>1, <2>3 DEF TurnInv
    <3>2. \A i \in 1..(n + 1) : i \in 1..n \/ i = n + 1
      OBVIOUS
    <3>. QED
      BY <2>3, <2>5, <3>1, <3>2 DEF StateInv
  <2>7. Count' = Count
    BY <2>2 DEF Count
  <2>. QED
    BY <2>2, <2>6, <2>7 DEF StateInv
<1>9. CASE Join
  BY <1>9, JoinTyped
<1>10. CASE Abandon
  BY <1>10 DEF Abandon, bookkeeping, history, StateInv
<1>11. CASE UNCHANGED vars
  <2>1. Count' = Count
    BY <1>11 DEF vars, bookkeeping, Count
  <2>. QED
    BY <1>11, <2>1 DEF vars, bookkeeping, history, StateInv
<1>. QED
  BY <1>3, <1>4, <1>5, <1>6, <1>7, <1>8, <1>9, <1>10, <1>11 DEF Next, Ends

\* The state of the router, of the ledger and of the turn is well typed, for any budget, ledger
\* and turn.  The types bound the loop: its iteration never exceeds the budget of the run.
THEOREM StateIsTyped == Spec => []TypeOK
<1>1. Init => StateInv
  <2>1. SUFFICES ASSUME Init PROVE StateInv
    OBVIOUS
  <2>2. NoKey \in Keys /\ MaxRuns \in Nat /\ MaxActions \in Nat /\ MaxMinted \in Nat
    BY CentralAssumption DEF NoKey, Own, Keys
  <2>3. NoResult \in Result
    BY <2>2 DEF NoResult, Result, Types
  <2>4. Range(ledger) = {} /\ DOMAIN results = {} /\ Len(minted) = 0
    BY <2>1 DEF Init, Range
  <2>5. /\ run = 0 /\ iteration = 0 /\ last = NoResult /\ lastKey = NoKey
        /\ asked = FALSE /\ stale = FALSE /\ phase = "idle" /\ turns = 0 /\ succeeded = {}
    BY <2>1 DEF Init
  <2>6. run \in 0..MaxRuns /\ iteration \in 0..MaxActions /\ Len(minted) =< MaxMinted
    BY <2>2, <2>4, <2>5
  <2>7. Range(ledger) \subseteq Record /\ \A i \in DOMAIN results : Typical(results[i])
    BY <2>4
  <2>. QED
    BY <2>2, <2>3, <2>5, <2>6, <2>7 DEF StateInv
<1>2. LedgerInv /\ TurnInv /\ StateInv /\ [Next]_vars => StateInv'
  BY StateStep
<1>3. LedgerInv /\ TurnInv /\ StateInv => TypeOK
  <2>1. SUFFICES ASSUME LedgerInv, TurnInv, StateInv PROVE TypeOK
    OBVIOUS
  <2>2. ledger \in Seq(Record) /\ Len(ledger) =< MaxLedger
    <3>1. PICK n \in Nat : n = Len(ledger) /\ DOMAIN ledger = 1..n
      BY <2>1 DEF LedgerInv, Dict
    <3>2. \A i \in 1..n : ledger[i] \in Record
      BY <2>1, <3>1 DEF StateInv, Range
    <3>3. ledger = [i \in 1..n |-> ledger[i]]
      BY <2>1, <3>1 DEF LedgerInv, Dict
    <3>. QED
      BY <2>1, <3>2, <3>3 DEF LedgerInv
  <2>3. results \in Seq(Outcome)
    <3>1. PICK n \in Nat : n = Len(results) /\ DOMAIN results = 1..n
      BY <2>1 DEF TurnInv
    <3>2. \A i \in 1..n : results[i] \in Outcome
      BY <2>1, <3>1 DEF StateInv, Typical
    <3>3. results = [i \in 1..n |-> results[i]]
      BY <2>1, <3>1 DEF TurnInv
    <3>. QED
      BY <3>2, <3>3
  <2>. QED
    BY <2>1, <2>2, <2>3 DEF StateInv, TurnInv, TypeOK
<1>. QED
  BY <1>1, <1>2, <1>3, LedgerStep, PTL DEF Spec
=============================================================================
