---------------------------- MODULE TimerProofs ----------------------------
(***************************************************************************)
(* Proofs about Timer: for every number of slots, every slop, and every    *)
(* set of durations, periods and timeslices.                               *)
(***************************************************************************)
EXTENDS Timer, SequenceFacts, TLAPS

-----------------------------------------------------------------------------
(***************************************************************************)
(* The pool.  Wellformed is what holds between two calls; Detached is what *)
(* holds while timer w is off both lists.                                  *)
(***************************************************************************)
Wellformed(p) == p \in Pool /\ Partitioned(p) /\ InExpiryOrder(p)

Detached(p, w) ==
  /\ p \in Pool
  /\ w \in Slot
  /\ IsInjective(p.list)
  /\ IsInjective(p.free)
  /\ Range(p.list) \cap Range(p.free) = {}
  /\ Range(p.list) \cup Range(p.free) = Slot \ {w}
  /\ InExpiryOrder(p)

\* The order of the list, leaving out timer w.
InOrderExcept(p, w) ==
  \A i, j \in DOMAIN p.list :
    /\ i < j
    /\ p.list[i] # w
    /\ p.list[j] # w
    /\ p.enabled[p.list[j]]
    => Precedes(p, p.list[i], p.list[j])

\* q differs from p at most in its lists and their history.
SameFields(p, q) ==
  /\ q.expire = p.expire
  /\ q.period = p.period
  /\ q.enabled = p.enabled
  /\ q.temporary = p.temporary
  /\ q.tag = p.tag
  /\ q.callback = p.callback

\* Times are integers, and Never is the last of them.
LEMMA TimeFacts ==
  /\ Never \in Time
  /\ \A t \in Time : t \in Int /\ t <= Never /\ (t # Never => t + Slop < Never)
  /\ \A t \in Time, d \in Int : Plus(t, d) \in Time
  /\ \A t \in Time, d \in Nat : Minus(t, d) \in Time
BY TimerAssumption DEF Time, Plus, Minus

\* InsertPos is the place before the first entry that expires after the key.
LEMMA InsertPosFacts ==
  ASSUME NEW p \in Pool, NEW key \in Time
  PROVE  /\ InsertPos(p, key) \in 1 .. Len(p.list) + 1
         /\ \A j \in 1 .. InsertPos(p, key) - 1 :
              p.expire[p.list[j]] <= key + Slop
         /\ InsertPos(p, key) <= Len(p.list) =>
              p.expire[p.list[InsertPos(p, key)]] > key + Slop
<1> DEFINE n == Len(p.list)
           A == ExpiresAfter(p, key)
<1>1. /\ p.list \in Seq(Slot) /\ n \in Nat
      /\ DOMAIN p.list = 1 .. n
      /\ \A j \in 1 .. n : p.list[j] \in Slot
      /\ p.expire \in [Slot -> Time]
  BY LenProperties, ElementOfSeq DEF Pool, PoolType
<1>2. \A j \in 1 .. n : p.expire[p.list[j]] \in Int
  BY <1>1, TimeFacts
<1>3. key \in Int /\ Slop \in Int
  BY TimeFacts, TimerAssumption
<1>4. A \subseteq 1 .. n
  BY <1>1 DEF ExpiresAfter
<1>5. \A j \in 1 .. n : j \in A <=> p.expire[p.list[j]] > key + Slop
  BY <1>1, <1>2, <1>3 DEF ExpiresAfter
<1> HIDE DEF n, A
<1>6. CASE A = {}
  <2>1. InsertPos(p, key) = n + 1
    BY <1>6 DEF InsertPos, n, A
  <2> QED
    BY <2>1, <1>1, <1>2, <1>3, <1>5, <1>6 DEF n
<1>7. CASE A # {}
  <2>1. \E i \in A : \A j \in A : i <= j
    <3>1. A \subseteq Nat
      BY <1>1, <1>4
    <3> QED
      BY <3>1, <1>7, NatMin
  <2>2. InsertPos(p, key) \in A /\ \A j \in A : InsertPos(p, key) <= j
    BY <2>1, <1>7 DEF InsertPos, A
  <2>3. InsertPos(p, key) \in 1 .. n
    BY <2>2, <1>4
  <2>4. \A j \in 1 .. InsertPos(p, key) - 1 : j \in 1 .. n /\ j \notin A
    BY <2>2, <2>3, <1>1
  <2> QED
    BY <2>2, <2>3, <2>4, <1>1, <1>2, <1>3, <1>5 DEF n
<1> QED
  BY <1>6, <1>7

\* Inserting a detached timer restores the pool: whatever place the sort finds,
\* no later-expiring timer ends up in front of an earlier one.
LEMMA InsertRestores ==
  ASSUME NEW p, NEW w, Detached(p, w)
  PROVE  /\ Wellformed(ListInsert(p, w))
         /\ SameFields(p, ListInsert(p, w))
         /\ ListInsert(p, w).free = p.free
         /\ Range(ListInsert(p, w).list) = Range(p.list) \cup {w}
<1> DEFINE n == Len(p.list)
           key == SortKey(p, w)
           k == InsertPos(p, key)
           q == ListInsert(p, w)
<1>1. /\ p \in Pool
      /\ w \in Slot
      /\ p.list \in Seq(Slot) /\ n \in Nat
      /\ DOMAIN p.list = 1 .. n
      /\ \A j \in 1 .. n : p.list[j] \in Slot
      /\ p.expire \in [Slot -> Time]
      /\ p.enabled \in [Slot -> BOOLEAN]
      /\ p.older \in SUBSET (Slot \X Slot)
  BY LenProperties, ElementOfSeq DEF Detached, Pool, PoolType
<1>2. key \in Time
  BY <1>1, TimeFacts DEF SortKey
<1>3. /\ k \in 1 .. n + 1
      /\ \A j \in 1 .. k - 1 : p.expire[p.list[j]] <= key + Slop
      /\ k <= n => p.expire[p.list[k]] > key + Slop
  BY <1>1, <1>2, InsertPosFacts
<1>4. q = [p EXCEPT !.list = InsertAt(p.list, k, w),
                    !.older = p.older \cup (Active(p) \X {w})]
  BY DEF ListInsert
<1>5. Active(p) \subseteq Slot
  BY <1>1 DEF Active, Range
<1>6. /\ q.list = InsertAt(p.list, k, w)
      /\ q.older = p.older \cup (Active(p) \X {w})
      /\ q.free = p.free
      /\ SameFields(p, q)
  BY <1>1, <1>4 DEF Pool, PoolType, SameFields
<1> HIDE DEF n, key, k
<1>7. /\ q.list \in Seq(Slot)
      /\ Len(q.list) = n + 1
      /\ DOMAIN q.list = 1 .. n + 1
      /\ q.list[k] = w
      /\ \A j \in 1 .. n + 1 :
           /\ j < k => q.list[j] = p.list[j]
           /\ j > k => q.list[j] = p.list[j - 1]
  <2>1. InsertAt(p.list, k, w) \in Seq(Slot)
    BY <1>1, <1>3, InsertAtFacts DEF n
  <2>2. /\ Len(InsertAt(p.list, k, w)) = n + 1
        /\ InsertAt(p.list, k, w)[k] = w
        /\ \A j \in 1 .. n + 1 :
             /\ j < k => InsertAt(p.list, k, w)[j] = p.list[j]
             /\ j > k => InsertAt(p.list, k, w)[j] = p.list[j - 1]
    <3> DEFINE l == p.list
    <3>1. l \in Seq(Slot) /\ w \in Slot /\ k \in 1 .. Len(l) + 1
      BY <1>1, <1>3 DEF n
    <3> HIDE DEF l
    <3>3. Len(InsertAt(l, k, w)) = Len(l) + 1
      BY <3>1, InsertAtFacts
    <3>4. InsertAt(l, k, w)[k] = w
      BY <3>1, InsertAtFacts
    <3>5. \A j \in 1 .. Len(l) + 1 : j < k => InsertAt(l, k, w)[j] = l[j]
      BY <3>1, InsertAtFacts
    <3>6. \A j \in 1 .. Len(l) + 1 : j > k => InsertAt(l, k, w)[j] = l[j - 1]
      BY <3>1, InsertAtFacts
    <3> QED
      BY <3>3, <3>4, <3>5, <3>6 DEF n, l
  <2>3. DOMAIN InsertAt(p.list, k, w) = 1 .. n + 1
    BY <2>1, <2>2, LenProperties
  <2> QED
    BY <2>1, <2>2, <2>3, <1>6
<1>7a. \A j \in 1 .. n + 1 :
         j # k => LET a == IF j < k THEN j ELSE j - 1
                  IN a \in 1 .. n /\ q.list[j] = p.list[a]
  <2> TAKE j \in 1 .. n + 1
  <2>1. CASE j < k
    BY <2>1, <1>1, <1>3, <1>7
  <2>2. CASE j > k
    BY <2>2, <1>1, <1>3, <1>7
  <2> QED
    BY <2>1, <2>2, <1>1, <1>3
<1>8. q \in Pool
  BY <1>1, <1>4, <1>5, <1>7, <1>6 DEF Pool, PoolType
<1> HIDE DEF q
<1>9. w \notin Range(p.list) /\ w \notin Range(p.free)
  BY DEF Detached
<1>9a. /\ \A x : x \in Range(p.list) <=> \E j \in 1 .. n : p.list[j] = x
       /\ \A x : x \in Range(q.list) <=> \E j \in 1 .. n + 1 : q.list[j] = x
  BY <1>1, <1>7 DEF Range
<1>10. Range(q.list) = Range(p.list) \cup {w}
  <2>1. ASSUME NEW x \in Range(q.list)
        PROVE  x \in Range(p.list) \cup {w}
    <3>1. PICK j \in 1 .. n + 1 : q.list[j] = x
      BY <1>9a, <2>1
    <3>2. CASE j # k
      BY <3>1, <3>2, <1>7a, <1>9a
    <3>3. CASE j = k
      BY <3>1, <3>3, <1>7
    <3> QED
      BY <3>2, <3>3
  <2>2. ASSUME NEW x \in Range(p.list)
        PROVE  x \in Range(q.list)
    <3>1. PICK j \in 1 .. n : p.list[j] = x
      BY <1>9a, <2>2
    <3>2. CASE j < k
      BY <3>1, <3>2, <1>7, <1>1, <1>9a
    <3>3. CASE ~(j < k)
      <4>1. j + 1 \in 1 .. n + 1 /\ q.list[j + 1] = p.list[j]
        BY <3>1, <3>3, <1>7, <1>1, <1>3
      <4> QED
        BY <4>1, <3>1, <1>9a
    <3> QED
      BY <3>2, <3>3
  <2>3. w \in Range(q.list)
    <3>1. k \in 1 .. n + 1 /\ q.list[k] = w
      BY <1>3, <1>7
    <3> QED
      BY <3>1, <1>9a
  <2> QED
    BY <2>1, <2>2, <2>3
<1>11. IsInjective(q.list)
  <2>1. \A i, j \in 1 .. n : p.list[i] = p.list[j] => i = j
    BY <1>1 DEF Detached, IsInjective
  <2>2. \A i \in 1 .. n : p.list[i] # w
    BY <1>1, <1>9 DEF Range
  <2>3. ASSUME NEW i \in 1 .. n + 1, NEW j \in 1 .. n + 1,
               q.list[i] = q.list[j], i < j
        PROVE  FALSE
    <3> DEFINE a == IF i < k THEN i ELSE i - 1
               b == IF j < k THEN j ELSE j - 1
    <3>1. CASE i # k /\ j # k
      <4>1. /\ a \in 1 .. n /\ b \in 1 .. n /\ a < b
            /\ q.list[i] = p.list[a] /\ q.list[j] = p.list[b]
        BY <3>1, <2>3, <1>1, <1>3, <1>7a
      <4> HIDE DEF a, b
      <4>2. a = b
        BY <4>1, <2>1, <2>3
      <4> QED
        BY <4>1, <4>2, <1>1
    <3>2. CASE i = k
      <4>1. j - 1 \in 1 .. n /\ q.list[j] = p.list[j - 1] /\ q.list[i] = w
        BY <3>2, <2>3, <1>1, <1>3, <1>7
      <4> QED
        BY <4>1, <2>2, <2>3
    <3>3. CASE j = k
      <4>1. i \in 1 .. n /\ q.list[i] = p.list[i] /\ q.list[j] = w
        BY <3>3, <2>3, <1>1, <1>3, <1>7
      <4> QED
        BY <4>1, <2>2, <2>3
    <3> QED
      BY <3>1, <3>2, <3>3
  <2> QED
    BY <2>3, <1>1, <1>7 DEF IsInjective
<1>12. Partitioned(q)
  BY <1>6, <1>9, <1>10, <1>11 DEF Partitioned, Detached
<1>13. InExpiryOrder(q)
  <2> SUFFICES ASSUME NEW i \in 1 .. n + 1, NEW j \in 1 .. n + 1,
                      i < j, q.enabled[q.list[j]]
               PROVE  Precedes(q, q.list[i], q.list[j])
    BY <1>7 DEF InExpiryOrder
  <2>1. \A x, y \in Slot : Precedes(p, x, y) => Precedes(q, x, y)
    BY <1>6 DEF Precedes, SameFields
  <2>2. \A a, b \in 1 .. n : a < b /\ p.enabled[p.list[b]]
                             => Precedes(p, p.list[a], p.list[b])
    BY <1>1 DEF Detached, InExpiryOrder
  <2>3. q.enabled = p.enabled /\ q.expire = p.expire
    BY <1>6 DEF SameFields
  <2>4. \A x \in Slot : p.expire[x] \in Int
    BY <1>1, TimeFacts
  <2>5. key \in Int /\ Slop \in Nat
    BY <1>2, TimeFacts, TimerAssumption
  <2>6. CASE i # k /\ j # k
    <3> DEFINE a == IF i < k THEN i ELSE i - 1
               b == IF j < k THEN j ELSE j - 1
    <3>1. /\ a \in 1 .. n /\ b \in 1 .. n /\ a < b
          /\ q.list[i] = p.list[a] /\ q.list[j] = p.list[b]
      BY <2>6, <1>1, <1>3, <1>7a
    <3> QED
      BY <3>1, <2>1, <2>2, <2>3, <1>1
  <2>7. CASE j = k
    <3>1. /\ q.list[j] = w
          /\ i \in 1 .. n /\ i \in 1 .. k - 1
          /\ q.list[i] = p.list[i]
      BY <2>7, <1>1, <1>3, <1>7
    <3>2. key = p.expire[w]
      BY <3>1, <2>3, <1>1 DEF key, SortKey
    <3>3. <<p.list[i], w>> \in q.older
      BY <3>1, <1>1, <1>6 DEF Active, Range
    <3> QED
      BY <3>1, <3>2, <3>3, <2>3, <1>3 DEF Precedes
  <2>8. CASE i = k
    <3> DEFINE b == j - 1
    <3>1. /\ q.list[i] = w
          /\ b \in 1 .. n /\ k <= b /\ k \in 1 .. n
          /\ q.list[j] = p.list[b]
      BY <2>8, <1>1, <1>3, <1>7
    <3> HIDE DEF b
    <3>2. p.expire[p.list[b]] > key
      <4>1. p.expire[p.list[k]] > key + Slop
        BY <3>1, <1>3
      <4>2. CASE b = k
        BY <4>1, <4>2, <3>1, <2>4, <2>5, <1>1
      <4>3. CASE k < b
        <5>1. Precedes(p, p.list[k], p.list[b])
          BY <4>3, <3>1, <2>2, <2>3
        <5>2. p.expire[p.list[k]] <= p.expire[p.list[b]] + Slop
          BY <5>1, <3>1, <2>4, <2>5, <1>1 DEF Precedes
        <5> QED
          BY <5>2, <4>1, <3>1, <2>4, <2>5, <1>1
      <4> QED
        BY <4>2, <4>3, <3>1, <1>1
    <3>3. key = p.expire[w]
      <4>1. p.expire[p.list[b]] <= Never
        BY <3>1, <1>1, TimeFacts, TimerAssumption DEF Time
      <4>2. key # Never
        BY <4>1, <3>2, <3>1, <2>4, <2>5, <1>1
      <4> QED
        BY <4>2 DEF key, SortKey
    <3> QED
      BY <3>1, <3>2, <3>3, <2>3 DEF Precedes
  <2> QED
    BY <2>6, <2>7, <2>8
<1> QED
  BY <1>6, <1>8, <1>10, <1>12, <1>13 DEF Wellformed, q

\* Removing an active timer detaches it and keeps the order of the others.
LEMMA RemoveDetaches ==
  ASSUME NEW p \in Pool, NEW w \in Range(p.list),
         Partitioned(p), InOrderExcept(p, w)
  PROVE  /\ Detached(ListRemove(p, w), w)
         /\ SameFields(p, ListRemove(p, w))
         /\ ListRemove(p, w).free = p.free
         /\ Range(ListRemove(p, w).list) = Range(p.list) \ {w}
<1> DEFINE n == Len(p.list)
           k == PosOf(p.list, w)
           q == ListRemove(p, w)
<1>1. /\ p.list \in Seq(Slot) /\ n \in Nat
      /\ DOMAIN p.list = 1 .. n
      /\ \A j \in 1 .. n : p.list[j] \in Slot
      /\ p.older \in SUBSET (Slot \X Slot)
      /\ p.enabled \in [Slot -> BOOLEAN]
  BY LenProperties, ElementOfSeq DEF Pool, PoolType
<1>2. k \in 1 .. n /\ p.list[k] = w
  BY <1>1 DEF PosOf, Range
<1>3. q = [p EXCEPT !.list = RemoveAt(p.list, k), !.older = Forget(p.older, w)]
  BY DEF ListRemove
<1>4. Forget(p.older, w) \in SUBSET (Slot \X Slot)
  BY <1>1 DEF Forget
<1>5. /\ q.list = RemoveAt(p.list, k)
      /\ q.older = Forget(p.older, w)
      /\ q.free = p.free
      /\ SameFields(p, q)
  BY <1>1, <1>3 DEF Pool, PoolType, SameFields
<1> HIDE DEF n, k
<1>6. /\ q.list \in Seq(Slot)
      /\ DOMAIN q.list = 1 .. n - 1
      /\ \A j \in 1 .. n - 1 :
           /\ j < k => q.list[j] = p.list[j]
           /\ j >= k => q.list[j] = p.list[j + 1]
  <2> DEFINE l == p.list
             m == RemoveAt(l, k)
  <2>1. l \in Seq(Slot) /\ k \in 1 .. Len(l) /\ n = Len(l)
    BY <1>1, <1>2 DEF n
  <2> HIDE DEF l
  <2>2. m \in Seq(Slot) /\ Len(m) = n - 1
    BY <2>1, RemoveAtFacts
  <2>3. \A j \in 1 .. n - 1 : j < k => m[j] = l[j]
    BY <2>1, RemoveAtFacts
  <2>4. \A j \in 1 .. n - 1 : j >= k => m[j] = l[j + 1]
    BY <2>1, RemoveAtFacts
  <2>5. q.list = m
    BY <1>5 DEF l
  <2> HIDE DEF m
  <2>6. DOMAIN m = 1 .. n - 1
    BY <2>2, LenProperties
  <2> QED
    BY <2>2, <2>3, <2>4, <2>5, <2>6 DEF l
<1>7. \A j \in 1 .. n - 1 :
        LET a == IF j < k THEN j ELSE j + 1
        IN a \in 1 .. n /\ a # k /\ q.list[j] = p.list[a]
  <2> TAKE j \in 1 .. n - 1
  <2>1. CASE j < k
    BY <2>1, <1>1, <1>2, <1>6
  <2>2. CASE j >= k
    BY <2>2, <1>1, <1>2, <1>6
  <2> QED
    BY <2>1, <2>2, <1>1, <1>2
<1>8. q \in Pool
  BY <1>1, <1>3, <1>4, <1>5, <1>6 DEF Pool, PoolType
<1> HIDE DEF q
<1>9. \A i, j \in 1 .. n : p.list[i] = p.list[j] => i = j
  BY <1>1 DEF Partitioned, IsInjective
<1>10. /\ \A x : x \in Range(p.list) <=> \E j \in 1 .. n : p.list[j] = x
       /\ \A x : x \in Range(q.list) <=> \E j \in 1 .. n - 1 : q.list[j] = x
  BY <1>1, <1>6 DEF Range
<1>11. Range(q.list) = Range(p.list) \ {w}
  <2>1. ASSUME NEW x \in Range(q.list)
        PROVE  x \in Range(p.list) /\ x # w
    <3>1. PICK j \in 1 .. n - 1 : q.list[j] = x
      BY <2>1, <1>10
    <3>2. PICK a \in 1 .. n : a # k /\ x = p.list[a]
      BY <3>1, <1>7
    <3> QED
      BY <3>2, <1>2, <1>9, <1>10
  <2>2. ASSUME NEW x \in Range(p.list), x # w
        PROVE  x \in Range(q.list)
    <3>1. PICK a \in 1 .. n : p.list[a] = x
      BY <2>2, <1>10
    <3>2. a # k
      BY <3>1, <2>2, <1>2
    <3>3. CASE a < k
      <4>1. a \in 1 .. n - 1 /\ q.list[a] = x
        BY <3>1, <3>3, <1>1, <1>2, <1>6
      <4> QED
        BY <4>1, <1>10
    <3>4. CASE a > k
      <4>1. a - 1 \in 1 .. n - 1 /\ a - 1 >= k /\ (a - 1) + 1 = a
        BY <3>1, <3>4, <1>1, <1>2
      <4>2. q.list[a - 1] = x
        BY <4>1, <3>1, <1>6
      <4> QED
        BY <4>1, <4>2, <1>10
    <3> QED
      BY <3>2, <3>3, <3>4, <1>1, <1>2
  <2> QED
    BY <2>1, <2>2
<1>12. IsInjective(q.list)
  <2> SUFFICES ASSUME NEW i \in 1 .. n - 1, NEW j \in 1 .. n - 1,
                      q.list[i] = q.list[j], i < j
               PROVE  FALSE
    BY <1>1, <1>6 DEF IsInjective
  <2> DEFINE a == IF i < k THEN i ELSE i + 1
             b == IF j < k THEN j ELSE j + 1
  <2>1. /\ a \in 1 .. n /\ b \in 1 .. n /\ a < b
        /\ q.list[i] = p.list[a] /\ q.list[j] = p.list[b]
    BY <1>1, <1>2, <1>7
  <2> HIDE DEF a, b
  <2>2. a = b
    BY <2>1, <1>9
  <2> QED
    BY <2>1, <2>2, <1>1
<1>13. InExpiryOrder(q)
  <2> SUFFICES ASSUME NEW i \in 1 .. n - 1, NEW j \in 1 .. n - 1,
                      i < j, q.enabled[q.list[j]]
               PROVE  Precedes(q, q.list[i], q.list[j])
    BY <1>6 DEF InExpiryOrder
  <2> DEFINE a == IF i < k THEN i ELSE i + 1
             b == IF j < k THEN j ELSE j + 1
  <2>1. /\ a \in 1 .. n /\ b \in 1 .. n /\ a < b /\ a # k /\ b # k
        /\ q.list[i] = p.list[a] /\ q.list[j] = p.list[b]
    BY <1>1, <1>2, <1>7
  <2> HIDE DEF a, b
  <2>2. p.list[a] # w /\ p.list[b] # w
    BY <2>1, <1>2, <1>9
  <2>3. q.enabled = p.enabled /\ q.expire = p.expire
    BY <1>5 DEF SameFields
  <2>4. Precedes(p, p.list[a], p.list[b])
    BY <2>1, <2>2, <2>3, <1>1 DEF InOrderExcept
  <2>5. <<p.list[a], p.list[b]>> \in p.older
          => <<p.list[a], p.list[b]>> \in q.older
    BY <2>2, <1>5 DEF Forget
  <2> QED
    BY <2>1, <2>3, <2>4, <2>5 DEF Precedes
<1>14. w \in Slot
  BY <1>1, <1>2
<1> QED
  BY <1>5, <1>8, <1>11, <1>12, <1>13, <1>14 DEF Detached, Partitioned, q

\* Moving an active timer to its sorted place restores the order, whatever
\* was done to that timer's expiry or enable flag before.
LEMMA RelistRestores ==
  ASSUME NEW p \in Pool, NEW w \in Range(p.list),
         Partitioned(p), InOrderExcept(p, w)
  PROVE  /\ Wellformed(Relist(p, w))
         /\ SameFields(p, Relist(p, w))
         /\ Relist(p, w).free = p.free
         /\ Range(Relist(p, w).list) = Range(p.list)
<1> DEFINE q == ListRemove(p, w)
           r == ListInsert(q, w)
<1>1. /\ Detached(q, w) /\ SameFields(p, q) /\ q.free = p.free
      /\ Range(q.list) = Range(p.list) \ {w}
  BY RemoveDetaches
<1> HIDE DEF q
<1>2. /\ Wellformed(r) /\ SameFields(q, r) /\ r.free = q.free
      /\ Range(r.list) = Range(q.list) \cup {w}
  BY <1>1, InsertRestores
<1>3. SameFields(p, r)
  BY <1>1, <1>2 DEF SameFields
<1>4. Relist(p, w) = r
  BY DEF Relist, q
<1> HIDE DEF r
<1> QED
  BY <1>1, <1>2, <1>3, <1>4

-----------------------------------------------------------------------------
(***************************************************************************)
(* The calls.  Each lemma says that the pool stays well formed and what    *)
(* becomes of the fields.                                                  *)
(***************************************************************************)

\* q differs from p, apart from the lists, at most in timer w.
OthersSame(p, q, w) ==
  \A x \in Slot \ {w} :
    /\ q.expire[x] = p.expire[x]
    /\ q.period[x] = p.period[x]
    /\ q.enabled[x] = p.enabled[x]
    /\ q.temporary[x] = p.temporary[x]
    /\ q.tag[x] = p.tag[x]
    /\ q.callback[x] = p.callback[x]

\* A call moved timer w of pool p to its place and did nothing else to its
\* identity.
Kept(p, q, w) ==
  /\ Wellformed(q)
  /\ Active(q) = Active(p)
  /\ OthersSame(p, q, w)
  /\ q.temporary[w] = p.temporary[w]
  /\ q.tag[w] = p.tag[w]
  /\ q.callback[w] = p.callback[w]

\* A call took slot w from the free list of p; a one-shot is armed at once.
Took(p, q, w, cb, tg, oneshot) ==
  /\ Wellformed(q)
  /\ w \in Slot \ Active(p)
  /\ Active(q) = Active(p) \cup {w}
  /\ OthersSame(p, q, w)
  /\ q.temporary[w] = oneshot
  /\ q.tag[w] = tg
  /\ q.callback[w] = cb
  /\ oneshot => q.enabled[w] = TRUE /\ q.period[w] = 0

ArmedWith(q, w, per) == q.enabled[w] = TRUE /\ q.period[w] = per

\* A call gave slot w back to the free list.
Gave(p, q, w) ==
  /\ Wellformed(q)
  /\ Active(q) = Active(p) \ {w}
  /\ OthersSame(p, q, w)

LEMMA PoolFacts ==
  ASSUME NEW p \in Pool
  PROVE  /\ p.list \in Seq(Slot) /\ p.free \in Seq(Slot)
         /\ p.expire \in [Slot -> Time]
         /\ p.period \in [Slot -> Nat]
         /\ p.enabled \in [Slot -> BOOLEAN]
         /\ p.temporary \in [Slot -> BOOLEAN]
         /\ p.tag \in [Slot -> Nat \cup {NoTag}]
         /\ p.callback \in [Slot -> {"client", "system", "NULL"}]
         /\ p.older \in SUBSET (Slot \X Slot)
         /\ Active(p) \subseteq Slot
<1>1. p.list \in Seq(Slot)
  BY DEF Pool, PoolType
<1>2. Active(p) \subseteq Slot
  BY <1>1, LenProperties, ElementOfSeq DEF Active, Range
<1> QED
  BY <1>2 DEF Pool, PoolType

\* Changing the expiry or the enable flag of one timer in place can only
\* disturb the order of that timer.
LEMMA UpdateKeeps ==
  ASSUME NEW p, Wellformed(p), NEW w \in Active(p), NEW q \in Pool,
         q.list = p.list, q.free = p.free, q.older = p.older,
         OthersSame(p, q, w)
  PROVE  Partitioned(q) /\ InOrderExcept(q, w) /\ w \in Range(q.list)
<1>1. Partitioned(q) /\ w \in Range(q.list)
  BY DEF Wellformed, Partitioned, Active
<1>2. \A i \in DOMAIN q.list : q.list[i] \in Slot
  BY PoolFacts, LenProperties, ElementOfSeq
<1>3. InOrderExcept(q, w)
  BY <1>2 DEF InOrderExcept, InExpiryOrder, Wellformed, OthersSame, Precedes
<1> QED
  BY <1>1, <1>3

\* timer_adjust keeps the pool well formed and arms the timer.
LEMMA AdjustKeeps ==
  ASSUME NEW p, Wellformed(p), NEW w \in Active(p),
         NEW now \in Time, NEW d \in Int, NEW per \in Nat
  PROVE  /\ Kept(p, TimerAdjust(p, w, now, d, per), w)
         /\ ArmedWith(TimerAdjust(p, w, now, d, per), w, per)
<1> DEFINE wait == IF d < 0 THEN 0 ELSE d
           e == Plus(now, wait)
           r == [p EXCEPT !.enabled[w] = TRUE, !.expire[w] = e,
                          !.period[w] = per]
           q == Relist(r, w)
<1>1. p \in Pool /\ w \in Slot
  BY PoolFacts DEF Wellformed
<1>2. e \in Time
  <2>1. wait \in Int
    OBVIOUS
  <2> HIDE DEF wait
  <2> QED
    BY <2>1, TimeFacts
<1> HIDE DEF e
<1>3. /\ r \in Pool
      /\ r.list = p.list /\ r.free = p.free /\ r.older = p.older
      /\ OthersSame(p, r, w)
      /\ r.enabled[w] = TRUE
      /\ r.period[w] = per
      /\ r.temporary[w] = p.temporary[w]
      /\ r.tag[w] = p.tag[w]
      /\ r.callback[w] = p.callback[w]
  BY <1>1, <1>2 DEF Pool, PoolType, OthersSame
<1>4. TimerAdjust(p, w, now, d, per) = q
  BY DEF TimerAdjust, e
<1> HIDE DEF r
<1>5. Partitioned(r) /\ InOrderExcept(r, w) /\ w \in Range(r.list)
  BY <1>3, UpdateKeeps
<1>6. /\ Wellformed(q) /\ SameFields(r, q) /\ q.free = r.free
      /\ Range(q.list) = Range(r.list)
  BY <1>3, <1>5, RelistRestores
<1> HIDE DEF q
<1>7. Active(q) = Active(p) /\ q.free = p.free
  BY <1>3, <1>6 DEF Active
<1>8. OthersSame(p, q, w)
  BY <1>3, <1>6 DEF OthersSame, SameFields
<1>9. /\ q.enabled[w] = TRUE
      /\ q.period[w] = per
      /\ q.temporary[w] = p.temporary[w]
      /\ q.tag[w] = p.tag[w]
      /\ q.callback[w] = p.callback[w]
  BY <1>3, <1>6 DEF SameFields
<1> QED
  BY <1>4, <1>6, <1>7, <1>8, <1>9 DEF Kept, ArmedWith

\* timer_enable keeps the pool well formed.
LEMMA EnableKeeps ==
  ASSUME NEW p, Wellformed(p), NEW w \in Active(p), NEW on \in BOOLEAN
  PROVE  Kept(p, TimerEnable(p, w, on), w)
<1> DEFINE r == [p EXCEPT !.enabled[w] = on]
           q == Relist(r, w)
<1>1. p \in Pool /\ w \in Slot
  BY PoolFacts DEF Wellformed
<1>3. /\ r \in Pool
      /\ r.list = p.list /\ r.free = p.free /\ r.older = p.older
      /\ OthersSame(p, r, w)
      /\ r.temporary[w] = p.temporary[w]
      /\ r.tag[w] = p.tag[w]
      /\ r.callback[w] = p.callback[w]
  BY <1>1 DEF Pool, PoolType, OthersSame
<1>4. TimerEnable(p, w, on) = q
  BY DEF TimerEnable
<1> HIDE DEF r
<1>5. Partitioned(r) /\ InOrderExcept(r, w) /\ w \in Range(r.list)
  BY <1>3, UpdateKeeps
<1>6. /\ Wellformed(q) /\ SameFields(r, q) /\ Range(q.list) = Range(r.list)
  BY <1>3, <1>5, RelistRestores
<1> HIDE DEF q
<1>7. Active(q) = Active(p)
  BY <1>3, <1>6 DEF Active
<1>8. OthersSame(p, q, w)
  BY <1>3, <1>6 DEF OthersSame, SameFields
<1> QED
  BY <1>3, <1>4, <1>6, <1>7, <1>8 DEF SameFields, Kept

\* timer_alloc takes the head of the free list into the active list.
LEMMA AllocKeeps ==
  ASSUME NEW p, Wellformed(p), p.free # <<>>,
         NEW cb \in {"client", "system", "NULL"}, NEW tg \in Nat
  PROVE  Took(p, TimerAlloc(p, cb, tg), Head(p.free), cb, tg, FALSE)
<1> DEFINE w == Head(p.free)
           r == [p EXCEPT !.free = Tail(p.free), !.callback[w] = cb,
                          !.enabled[w] = FALSE, !.temporary[w] = FALSE,
                          !.tag[w] = tg, !.period[w] = 0, !.expire[w] = Never]
           q == ListInsert(r, w)
<1>1. p \in Pool /\ p.free \in Seq(Slot) /\ p.list \in Seq(Slot)
  BY PoolFacts DEF Wellformed
<1>2. /\ w \in Slot /\ Tail(p.free) \in Seq(Slot)
      /\ Len(Tail(p.free)) = Len(p.free) - 1
      /\ \A i \in 1 .. Len(Tail(p.free)) : Tail(p.free)[i] = p.free[i + 1]
  BY <1>1, HeadTailProperties
<1>3. /\ Len(p.free) \in Nat \ {0}
      /\ DOMAIN p.free = 1 .. Len(p.free)
      /\ DOMAIN Tail(p.free) = 1 .. Len(p.free) - 1
      /\ w = p.free[1]
  BY <1>1, <1>2, EmptySeq, LenProperties
<1>4. \A i, j \in 1 .. Len(p.free) : p.free[i] = p.free[j] => i = j
  BY <1>3 DEF Wellformed, Partitioned, IsInjective
<1>5. /\ IsInjective(Tail(p.free))
      /\ Range(Tail(p.free)) = Range(p.free) \ {w}
      /\ w \in Range(p.free)
  <2> DEFINE f == p.free
             g == Tail(p.free)
             m == Len(p.free)
  <2>1. \A i \in 1 .. m - 1 : g[i] = f[i + 1] /\ i + 1 \in 1 .. m
    BY <1>2, <1>3
  <2>2. /\ \A x : x \in Range(f) <=> \E i \in 1 .. m : f[i] = x
        /\ \A x : x \in Range(g) <=> \E i \in 1 .. m - 1 : g[i] = x
    BY <1>3 DEF Range
  <2>3. w = f[1] /\ m \in Nat \ {0} /\ 1 \in 1 .. m
    BY <1>3
  <2>4. \A i, j \in 1 .. m : f[i] = f[j] => i = j
    BY <1>4
  <2>5. DOMAIN g = 1 .. m - 1
    BY <1>3
  <2> HIDE DEF f, g, m, w
  <2>6. IsInjective(g)
    BY <2>1, <2>3, <2>4, <2>5 DEF IsInjective
  <2>7. w \in Range(f)
    BY <2>2, <2>3
  <2>8. ASSUME NEW x \in Range(g)
        PROVE  x \in Range(f) /\ x # w
    <3>1. PICK i \in 1 .. m - 1 : g[i] = x
      BY <2>2, <2>8
    <3>2. f[i + 1] = x /\ i + 1 \in 1 .. m /\ i + 1 # 1
      BY <3>1, <2>1, <2>3
    <3> QED
      BY <3>2, <2>2, <2>3, <2>4
  <2>9. ASSUME NEW x \in Range(f), x # w
        PROVE  x \in Range(g)
    <3>1. PICK i \in 1 .. m : f[i] = x
      BY <2>2, <2>9
    <3>2. i - 1 \in 1 .. m - 1 /\ (i - 1) + 1 = i
      BY <3>1, <2>3, <2>9
    <3>3. g[i - 1] = x
      BY <3>1, <3>2, <2>1
    <3> QED
      BY <3>2, <3>3, <2>2
  <2>10. Range(g) = Range(f) \ {w}
    BY <2>8, <2>9
  <2> QED
    BY <2>6, <2>7, <2>10 DEF f, g
<1> HIDE DEF w
<1>6. /\ r \in Pool
      /\ r.list = p.list /\ r.free = Tail(p.free) /\ r.older = p.older
      /\ OthersSame(p, r, w)
      /\ r.enabled[w] = FALSE
      /\ r.temporary[w] = FALSE
      /\ r.period[w] = 0
      /\ r.tag[w] = tg
      /\ r.callback[w] = cb
  BY <1>1, <1>2, TimeFacts DEF Pool, PoolType, OthersSame
<1>7. TimerAlloc(p, cb, tg) = q
  BY DEF TimerAlloc, w
<1> HIDE DEF r
<1>8. w \notin Range(p.list)
  BY <1>5 DEF Wellformed, Partitioned
<1>9. Detached(r, w)
  <2>1. \A i \in DOMAIN r.list : r.list[i] \in Slot \ {w}
    BY <1>1, <1>6, <1>8, LenProperties, ElementOfSeq DEF Range
  <2>2. InExpiryOrder(r)
    BY <2>1, <1>6 DEF Wellformed, InExpiryOrder, OthersSame, Precedes
  <2> QED
    BY <2>2, <1>2, <1>5, <1>6, <1>8 DEF Detached, Wellformed, Partitioned
<1>10. /\ Wellformed(q) /\ SameFields(r, q)
       /\ Range(q.list) = Range(r.list) \cup {w}
  BY <1>9, InsertRestores
<1> HIDE DEF q
<1>11. OthersSame(p, q, w)
  BY <1>6, <1>10 DEF OthersSame, SameFields
<1>12. w \in Slot \ Active(p) /\ Active(q) = Active(p) \cup {w}
  BY <1>2, <1>6, <1>8, <1>10 DEF Active
<1>13. /\ q.enabled[w] = FALSE
       /\ q.temporary[w] = FALSE
       /\ q.period[w] = 0
       /\ q.tag[w] = tg
       /\ q.callback[w] = cb
  BY <1>6, <1>10 DEF SameFields
<1> QED
  BY <1>7, <1>10, <1>11, <1>12, <1>13 DEF w, Took

\* timer_set takes a free slot for an armed one-shot.
LEMMA SetKeeps ==
  ASSUME NEW p, Wellformed(p), p.free # <<>>,
         NEW cb \in {"client", "system", "NULL"}, NEW tg \in Nat,
         NEW now \in Time, NEW d \in Int
  PROVE  Took(p, TimerSet(p, cb, tg, now, d), Head(p.free), cb, tg, TRUE)
<1> DEFINE w == Head(p.free)
           a == TimerAlloc(p, cb, tg)
           t == [a EXCEPT !.temporary[w] = TRUE]
           q == TimerAdjust(t, w, now, d, 0)
<1>1. Took(p, a, w, cb, tg, FALSE)
  BY AllocKeeps
<1>2. TimerSet(p, cb, tg, now, d) = q
  BY DEF TimerSet
<1> HIDE DEF w, a
<1>3. /\ t \in Pool
      /\ t.list = a.list /\ t.free = a.free /\ t.older = a.older
      /\ t.expire = a.expire /\ t.enabled = a.enabled
      /\ t.temporary[w] = TRUE
      /\ t.tag[w] = a.tag[w]
      /\ t.callback[w] = a.callback[w]
      /\ OthersSame(a, t, w)
  BY <1>1 DEF Took, Wellformed, Pool, PoolType, OthersSame
<1> HIDE DEF t
<1>4. Wellformed(t)
  BY <1>1, <1>3 DEF Took, Wellformed, Partitioned, InExpiryOrder, Precedes
<1>5. Active(t) = Active(a)
  BY <1>3 DEF Active
<1>6. Kept(t, q, w) /\ ArmedWith(q, w, 0)
  <2>1. w \in Active(t) /\ 0 \in Nat
    BY <1>1, <1>5 DEF Took
  <2> QED
    BY <2>1, <1>4, AdjustKeeps
<1> HIDE DEF q
<1>7. OthersSame(p, q, w)
  BY <1>1, <1>3, <1>6 DEF OthersSame, Took, Kept
<1> QED
  BY <1>1, <1>2, <1>3, <1>5, <1>6, <1>7 DEF w, Took, Kept, ArmedWith

\* timer_pulse takes a free slot for an armed periodic timer.
LEMMA PulseKeeps ==
  ASSUME NEW p, Wellformed(p), p.free # <<>>,
         NEW cb \in {"client", "system", "NULL"}, NEW tg \in Nat,
         NEW now \in Time, NEW per \in Nat
  PROVE  Took(p, TimerPulse(p, cb, tg, now, per), Head(p.free), cb, tg, FALSE)
<1> DEFINE w == Head(p.free)
           a == TimerAlloc(p, cb, tg)
           q == TimerAdjust(a, w, now, per, per)
<1>1. Took(p, a, w, cb, tg, FALSE)
  BY AllocKeeps
<1>2. TimerPulse(p, cb, tg, now, per) = q
  BY DEF TimerPulse
<1> HIDE DEF w, a
<1>3. Kept(a, q, w)
  <2>1. w \in Active(a) /\ per \in Int /\ Wellformed(a)
    BY <1>1 DEF Took
  <2> QED
    BY <2>1, AdjustKeeps
<1> HIDE DEF q
<1>4. OthersSame(p, q, w)
  BY <1>1, <1>3 DEF OthersSame, Took, Kept
<1> QED
  BY <1>1, <1>2, <1>3, <1>4 DEF w, Took, Kept

\* timer_remove gives the slot back at the end of the free list.
LEMMA RemoveKeeps ==
  ASSUME NEW p, Wellformed(p), NEW w \in Active(p), p.tag[w] # NoTag
  PROVE  Gave(p, TimerRemove(p, w), w)
<1> DEFINE r == ListRemove(p, w)
           q == [r EXCEPT !.tag[w] = NoTag, !.free = Append(r.free, w)]
<1>1. p \in Pool /\ Partitioned(p) /\ w \in Range(p.list)
  BY DEF Wellformed, Active
<1>2. InOrderExcept(p, w)
  BY DEF Wellformed, InExpiryOrder, InOrderExcept
<1>3. /\ Detached(r, w) /\ SameFields(p, r) /\ r.free = p.free
      /\ Range(r.list) = Range(p.list) \ {w}
  BY <1>1, <1>2, RemoveDetaches
<1>4. TimerRemove(p, w) = q
  BY DEF TimerRemove
<1> HIDE DEF r
<1>5. r \in Pool /\ w \in Slot /\ r.free \in Seq(Slot) /\ NoTag \in Nat \cup {NoTag}
  BY <1>3, PoolFacts DEF Detached
<1>6. /\ Append(r.free, w) \in Seq(Slot)
      /\ DOMAIN r.free = 1 .. Len(r.free)
      /\ Len(r.free) \in Nat
      /\ DOMAIN Append(r.free, w) = 1 .. Len(r.free) + 1
      /\ \A i \in 1 .. Len(r.free) : Append(r.free, w)[i] = r.free[i]
      /\ Append(r.free, w)[Len(r.free) + 1] = w
  BY <1>5, AppendProperties, LenProperties
<1>7. /\ q \in Pool
      /\ q.list = r.list /\ q.free = Append(r.free, w)
      /\ q.enabled = r.enabled /\ q.expire = r.expire /\ q.older = r.older
      /\ OthersSame(r, q, w)
  BY <1>5, <1>6 DEF Pool, PoolType, OthersSame
<1> HIDE DEF q
<1>8. w \notin Range(r.free) /\ IsInjective(r.free)
  BY <1>3 DEF Detached
<1>9. /\ IsInjective(q.free)
      /\ Range(q.free) = Range(r.free) \cup {w}
  <2> DEFINE f == r.free
             g == q.free
             m == Len(f)
  <2>1. /\ DOMAIN f = 1 .. m /\ m \in Nat /\ DOMAIN g = 1 .. m + 1
        /\ \A i \in 1 .. m : g[i] = f[i]
        /\ g[m + 1] = w
    BY <1>6, <1>7
  <2>2. w \notin Range(f) /\ IsInjective(f)
    BY <1>8
  <2> HIDE DEF f, g, m
  <2>3. \A i \in 1 .. m : f[i] # w
    BY <2>1, <2>2 DEF Range
  <2>4. IsInjective(g)
    BY <2>1, <2>2, <2>3 DEF IsInjective
  <2>5. /\ \A x : x \in Range(f) <=> \E i \in 1 .. m : f[i] = x
        /\ \A x : x \in Range(g) <=> \E i \in 1 .. m + 1 : g[i] = x
    BY <2>1 DEF Range
  <2>6. Range(g) = Range(f) \cup {w}
    BY <2>1, <2>5
  <2> QED
    BY <2>4, <2>6 DEF f, g
<1>10. Partitioned(q)
  BY <1>3, <1>5, <1>7, <1>9 DEF Partitioned, Detached
<1>11. InExpiryOrder(q)
  BY <1>3, <1>7 DEF Detached, InExpiryOrder, Precedes
<1>12. OthersSame(p, q, w)
  BY <1>3, <1>7 DEF OthersSame, SameFields
<1>13. Active(q) = Active(p) \ {w}
  BY <1>3, <1>7 DEF Active
<1> QED
  BY <1>4, <1>7, <1>10, <1>11, <1>12, <1>13 DEF Wellformed, Gave

\* Shifting every active expiry by the same amount keeps the order, because
\* Never stays Never.
LEMMA ShiftKeeps ==
  ASSUME NEW p, Wellformed(p), NEW delta \in Nat
  PROVE  LET q == ShiftTimes(p, delta)
         IN /\ Wellformed(q)
            /\ Active(q) = Active(p)
            /\ q.enabled = p.enabled
            /\ q.temporary = p.temporary
            /\ q.period = p.period
            /\ q.tag = p.tag
            /\ q.callback = p.callback
<1> DEFINE E == [x \in Slot |-> IF x \in Active(p) THEN Minus(p.expire[x], delta)
                                ELSE p.expire[x]]
           q == [p EXCEPT !.expire = E]
<1>1. p \in Pool /\ p.expire \in [Slot -> Time]
  BY PoolFacts DEF Wellformed
<1>2. E \in [Slot -> Time]
  BY <1>1, TimeFacts
<1>3. ShiftTimes(p, delta) = q
  BY DEF ShiftTimes
<1>4. \A x \in Active(p) : x \in Slot /\ E[x] = Minus(p.expire[x], delta)
  BY <1>1, PoolFacts
<1> HIDE DEF E
<1>5. /\ q \in Pool
      /\ q.list = p.list /\ q.free = p.free /\ q.older = p.older
      /\ q.expire = E
      /\ q.enabled = p.enabled
      /\ q.temporary = p.temporary
      /\ q.period = p.period
      /\ q.tag = p.tag
      /\ q.callback = p.callback
  BY <1>1, <1>2 DEF Pool, PoolType
<1> HIDE DEF q
<1>6. Partitioned(q) /\ Active(q) = Active(p)
  BY <1>5 DEF Wellformed, Partitioned, Active
<1>7. ASSUME NEW x \in Active(p), NEW y \in Active(p), Precedes(p, x, y)
      PROVE  Precedes(q, x, y)
  <2>1. /\ p.expire[x] \in Time /\ p.expire[y] \in Time
        /\ q.expire[x] = Minus(p.expire[x], delta)
        /\ q.expire[y] = Minus(p.expire[y], delta)
    BY <1>1, <1>4, <1>5
  <2>2. \A s, t \in Time :
          /\ s < t => Minus(s, delta) < Minus(t, delta)
          /\ s <= t + Slop => Minus(s, delta) <= Minus(t, delta) + Slop
    BY TimerAssumption DEF Time, Minus
  <2> QED
    BY <2>1, <2>2, <1>5, <1>7 DEF Precedes
<1>8. \A i \in DOMAIN p.list : p.list[i] \in Active(p)
  BY DEF Active, Range
<1>9. InExpiryOrder(q)
  BY <1>5, <1>7, <1>8 DEF InExpiryOrder, Wellformed
<1> QED
  BY <1>3, <1>5, <1>6, <1>9 DEF Wellformed

\* Disarming a one-shot in place only takes an obligation off the order.
LEMMA DisarmKeeps ==
  ASSUME NEW p, Wellformed(p), NEW w \in Active(p)
  PROVE  /\ Kept(p, Disarm(p, w), w)
         /\ Disarm(p, w).period = p.period
         /\ p.period[w] = 0 => Disarm(p, w).enabled[w] = FALSE
         /\ Disarm(p, w).list = p.list
<1>1. p \in Pool /\ w \in Slot /\ p.list \in Seq(Slot)
  BY PoolFacts DEF Wellformed
<1>2. CASE p.period[w] # 0
  BY <1>2 DEF Disarm, Kept, OthersSame
<1>3. CASE p.period[w] = 0
  <2> DEFINE q == [p EXCEPT !.enabled[w] = FALSE]
  <2>1. Disarm(p, w) = q
    BY <1>3 DEF Disarm
  <2>2. /\ q \in Pool
        /\ q.list = p.list /\ q.free = p.free /\ q.older = p.older
        /\ q.expire = p.expire
        /\ q.period = p.period
        /\ q.enabled[w] = FALSE
        /\ OthersSame(p, q, w)
        /\ q.temporary = p.temporary
        /\ q.tag = p.tag
        /\ q.callback = p.callback
    BY <1>1 DEF Pool, PoolType, OthersSame
  <2> HIDE DEF q
  <2>3. \A i \in DOMAIN p.list : p.list[i] \in Slot
    BY <1>1, LenProperties, ElementOfSeq
  <2>4. \A x \in Slot : q.enabled[x] => p.enabled[x]
    BY <2>2 DEF OthersSame
  <2>5. InExpiryOrder(q)
    BY <2>2, <2>3, <2>4 DEF InExpiryOrder, Wellformed, Precedes
  <2>6. Wellformed(q) /\ Active(q) = Active(p)
    BY <2>2, <2>5 DEF Wellformed, Partitioned, Active
  <2> QED
    BY <2>1, <2>2, <2>6 DEF Kept
<1> QED
  BY <1>2, <1>3

\* After an untouched callback a one-shot is gone ...
LEMMA OneShotGoes ==
  ASSUME NEW p, Wellformed(p), NEW w \in Active(p), p.tag[w] # NoTag,
         p.temporary[w]
  PROVE  Gave(p, AfterFire(p, w), w)
BY RemoveKeeps DEF AfterFire

\* ... and any other timer is back in the list, one period later.
LEMMA OthersStay ==
  ASSUME NEW p, Wellformed(p), NEW w \in Active(p), ~p.temporary[w]
  PROVE  /\ Kept(p, AfterFire(p, w), w)
         /\ AfterFire(p, w).enabled = p.enabled
         /\ AfterFire(p, w).expire[w] = Plus(p.expire[w], p.period[w])
<1> DEFINE e == Plus(p.expire[w], p.period[w])
           r == [p EXCEPT !.expire[w] = e]
           q == Relist(r, w)
<1>1. /\ p \in Pool /\ w \in Slot
      /\ p.expire[w] \in Time /\ p.period[w] \in Nat
  BY PoolFacts DEF Wellformed
<1>2. e \in Time
  <2> DEFINE t == p.expire[w]
             d == p.period[w]
  <2>1. t \in Time /\ d \in Int
    BY <1>1
  <2> HIDE DEF t, d
  <2>2. Plus(t, d) \in Time
    BY <2>1, TimeFacts
  <2> QED
    BY <2>2 DEF t, d
<1>3. AfterFire(p, w) = q
  BY <1>1 DEF AfterFire, Pool, PoolType
<1>3a. e = Plus(p.expire[w], p.period[w])
  OBVIOUS
<1> HIDE DEF e
<1>4. /\ r \in Pool
      /\ r.list = p.list /\ r.free = p.free /\ r.older = p.older
      /\ OthersSame(p, r, w)
      /\ r.expire[w] = e /\ r.enabled = p.enabled
      /\ r.temporary[w] = p.temporary[w]
      /\ r.tag[w] = p.tag[w]
      /\ r.callback[w] = p.callback[w]
  BY <1>1, <1>2 DEF Pool, PoolType, OthersSame
<1> HIDE DEF r
<1>5. Partitioned(r) /\ InOrderExcept(r, w) /\ w \in Range(r.list)
  BY <1>4, UpdateKeeps
<1>6. /\ Wellformed(q) /\ SameFields(r, q) /\ Range(q.list) = Range(r.list)
  BY <1>4, <1>5, RelistRestores
<1> HIDE DEF q
<1>7. Active(q) = Active(p)
  BY <1>4, <1>6 DEF Active
<1>8. OthersSame(p, q, w)
  BY <1>4, <1>6 DEF OthersSame, SameFields
<1> QED
  BY <1>3, <1>3a, <1>4, <1>6, <1>7, <1>8 DEF SameFields, Kept

-----------------------------------------------------------------------------
(***************************************************************************)
(* The inductive invariant.  Owned says whom the active timers belong to   *)
(* and which one-shots are armed; Anchored that while the machine runs the *)
(* scheduler's own timer is there, so that timer_head is not NULL; the     *)
(* rest ties the callback statics to the place of the thread.              *)
(***************************************************************************)
Owned(p, ct, rt) ==
  \A x \in Active(p) :
    /\ p.tag[x] \in 0 .. rt
    /\ p.temporary[x] => p.period[x] = 0 /\ (p.enabled[x] <=> x # ct)

\* Timer x is one that only the scheduler itself touches.
IsAnchor(p, x) == p.callback[x] = "system" /\ ~p.temporary[x]
Anchored(p) == \E x \in Active(p) : IsAnchor(p, x)

IInv ==
  /\ TypeOK
  /\ Wellformed(ts)
  /\ Owned(ts, callback_timer, resource_tag)
  /\ resource_tag = 1 /\ phase # "free" => Anchored(ts)
  /\ phase \in {"fire", "callback", "free"} => resource_tag = 1
  /\ IF phase = "callback" THEN callback_timer \in Active(ts)
                           ELSE callback_timer = NoTimer
  /\ phase = "callback" /\ modified => ~ts.temporary[callback_timer]

\* The ownership facts survive a call on a timer a client has a handle to,
LEMMA KeptOwned ==
  ASSUME NEW p, NEW q, NEW w \in Active(p), NEW ct, NEW rt \in Nat,
         Wellformed(p), Owned(p, ct, rt),
         Kept(p, q, w), ~p.temporary[w]
  PROVE  Owned(q, ct, rt) /\ (Anchored(p) => Anchored(q))
<1>1. Active(p) \subseteq Slot
  BY PoolFacts DEF Wellformed
<1>2. Owned(q, ct, rt)
  BY <1>1 DEF Kept, OthersSame, Owned
<1>3. Anchored(p) => Anchored(q)
  BY <1>1 DEF Kept, OthersSame, Anchored, IsAnchor
<1> QED
  BY <1>2, <1>3

\* a new timer,
LEMMA TookOwned ==
  ASSUME NEW p, NEW q, NEW w, NEW ct \in Active(p) \cup {NoTimer},
         NEW rt \in Nat, NEW cb, NEW oneshot \in BOOLEAN,
         Wellformed(p), Owned(p, ct, rt),
         Took(p, q, w, cb, rt, oneshot)
  PROVE  Owned(q, ct, rt) /\ (Anchored(p) => Anchored(q))
<1>1. Active(p) \subseteq Slot /\ w \in Slot /\ w \notin Active(p) /\ w # NoTimer
  BY PoolFacts DEF Wellformed, Took, Slot, NoTimer
<1>2. w # ct
  BY <1>1
<1>3. \A x \in Active(p) : x # w
  BY <1>1
<1>4. Owned(q, ct, rt)
  BY <1>1, <1>2, <1>3 DEF Took, OthersSame, Owned
<1>5. Anchored(p) => Anchored(q)
  BY <1>1, <1>3 DEF Took, OthersSame, Anchored, IsAnchor
<1> QED
  BY <1>4, <1>5

\* and the removal of any timer but the scheduler's.
LEMMA GaveOwned ==
  ASSUME NEW p, NEW q, NEW w \in Active(p), NEW ct, NEW rt \in Nat,
         Wellformed(p), Owned(p, ct, rt), Gave(p, q, w)
  PROVE  /\ Owned(q, ct, rt)
         /\ ~IsAnchor(p, w) /\ Anchored(p) => Anchored(q)
<1>1. Active(p) \subseteq Slot
  BY PoolFacts DEF Wellformed
<1>2. Owned(q, ct, rt)
  BY <1>1 DEF Gave, OthersSame, Owned
<1>3. ASSUME ~IsAnchor(p, w), Anchored(p)
      PROVE  Anchored(q)
  BY <1>1, <1>3 DEF Gave, OthersSame, Anchored, IsAnchor
<1> QED
  BY <1>2, <1>3

LEMMA RelativeTimeIsTime == IInv => RelativeTime \subseteq Time
<1>1. LocalTime \subseteq Time /\ 0 \in Time
  BY ClientAssumption, TimerAssumption DEF Time
<1> QED
  BY <1>1 DEF RelativeTime, IInv, TypeOK

\* While the machine runs the head of the list exists and is active.
LEMMA HeadIsActive ==
  ASSUME NEW p, Wellformed(p), Anchored(p)
  PROVE  /\ Head(p.list) \in Active(p)
         /\ Head(p.list) = p.list[1]
         /\ 1 \in DOMAIN p.list
<1> DEFINE l == p.list
<1>1. l \in Seq(Slot)
  BY PoolFacts DEF Wellformed
<1>2. PICK i \in DOMAIN l : TRUE
  BY DEF Anchored, Active, Range
<1> HIDE DEF l
<1>3. DOMAIN l = 1 .. Len(l) /\ Len(l) \in Nat
  BY <1>1, LenProperties
<1>4. 1 \in DOMAIN l
  BY <1>2, <1>3
<1>5. Head(l) = l[1]
  BY <1>1, <1>3, <1>4
<1> QED
  BY <1>4, <1>5 DEF l, Active, Range

\* An active timer carries a tag in use.
LEMMA ActiveIsTagged ==
  ASSUME NEW p, NEW ct, NEW rt \in Nat, Owned(p, ct, rt), NEW x \in Active(p)
  PROVE  p.tag[x] # NoTag
BY TimerAssumption DEF Owned

\* timer_init leaves a well-formed pool.
LEMMA EmptyPoolFacts == Wellformed(EmptyPool) /\ Active(EmptyPool) = {}
<1> DEFINE f == [i \in 1 .. MaxTimers |-> i]
<1>1. MaxTimers \in Nat /\ 0 \in Time /\ -1 = NoTag
  BY TimerAssumption DEF Time
<1>2. f \in Seq(Slot) /\ DOMAIN f = Slot
  <2>1. f \in [1 .. MaxTimers -> Slot]
    BY DEF Slot
  <2> QED
    BY <1>1, <2>1, SeqDef DEF Slot
<1>3. Range(f) = Slot /\ IsInjective(f)
  BY <1>2 DEF Range, IsInjective, Slot
<1>4. /\ EmptyPool.list = <<>>
      /\ EmptyPool.free = f
  BY DEF EmptyPool
<1>5. <<>> \in Seq(Slot) /\ DOMAIN <<>> = {}
  BY EmptySeq
<1>6. EmptyPool \in Pool
  <2> HIDE DEF f
  <2>1. [x \in Slot |-> 0] \in [Slot -> Time]
    BY <1>1
  <2>2. [x \in Slot |-> IF x = MaxTimers THEN 0 ELSE NoTag]
          \in [Slot -> Nat \cup {NoTag}]
    OBVIOUS
  <2>3. EmptyPool.free \in Seq(Slot)
    BY <1>2, <1>4
  <2> QED
    BY <1>5, <2>1, <2>2, <2>3 DEF EmptyPool, Pool, PoolType
<1> HIDE DEF f
<1>7. Range(EmptyPool.list) = {} /\ IsInjective(EmptyPool.list)
  BY <1>4, <1>5 DEF Range, IsInjective
<1>8. InExpiryOrder(EmptyPool)
  BY <1>4, <1>5 DEF InExpiryOrder
<1>9. Partitioned(EmptyPool)
  BY <1>3, <1>4, <1>7 DEF Partitioned
<1> QED
  BY <1>6, <1>7, <1>8, <1>9 DEF Wellformed, Active

LEMMA InitIInv == Init => IInv
<1> SUFFICES ASSUME Init PROVE IInv
  OBVIOUS
<1>1. 0 \in Time
  BY TimerAssumption DEF Time
<1>2. ts = EmptyPool /\ Wellformed(ts) /\ Active(ts) = {}
  BY EmptyPoolFacts DEF Init
<1>3. TypeOK
  BY <1>1, <1>2 DEF Init, TypeOK, Wellformed, Phase, Scope
<1> QED
  BY <1>2, <1>3 DEF Init, IInv, Owned

\* The state after a call keeps the invariant when the pool does.
LEMMA PoolStep ==
  ASSUME IInv, ClientRuns,
         Wellformed(ts'),
         Owned(ts', callback_timer, resource_tag),
         Anchored(ts) => Anchored(ts'),
         phase = "callback" => callback_timer \in Active(ts'),
         modified' \in BOOLEAN,
         phase = "callback" /\ modified' => ~ts'.temporary[callback_timer],
         UNCHANGED <<phase, callback_timer, expire_time, global_offset,
                     resource_tag>>
  PROVE  IInv'
<1>1. TypeOK'
  BY DEF IInv, TypeOK, Wellformed, Pool
<1> QED
  BY <1>1 DEF IInv, ClientRuns

\* A call on a timer that a client holds.
LEMMA HandleStep ==
  ASSUME IInv, ClientRuns, NEW w \in Handles,
         Kept(ts, ts', w),
         modified' \in {modified, modified \/ w = callback_timer},
         UNCHANGED <<phase, callback_timer, expire_time, global_offset,
                     resource_tag>>
  PROVE  IInv'
<1>1. w \in Active(ts) /\ ~ts.temporary[w]
  BY DEF Handles
<1>2. Wellformed(ts) /\ Owned(ts, callback_timer, resource_tag)
  BY DEF IInv
<1>3. resource_tag \in Nat /\ modified \in BOOLEAN
  BY DEF IInv, TypeOK, Scope
<1>4. /\ Owned(ts', callback_timer, resource_tag)
      /\ Anchored(ts) => Anchored(ts')
  BY <1>1, <1>2, <1>3, KeptOwned
<1>5. Wellformed(ts') /\ Active(ts') = Active(ts)
  BY DEF Kept
<1>6. \A x \in Active(ts) : ts'.temporary[x] = ts.temporary[x]
  BY <1>2, PoolFacts DEF Kept, OthersSame, Wellformed
<1>7. modified' \in BOOLEAN
  BY <1>3
<1>8. phase = "callback" /\ modified' => ~ts'.temporary[callback_timer]
  BY <1>1, <1>6 DEF IInv
<1> QED
  BY <1>4, <1>5, <1>7, <1>8, PoolStep DEF IInv

\* A call that takes a free slot, if there is one.
LEMMA NewTimerStep ==
  ASSUME IInv, ClientRuns, NEW w, NEW cb, NEW oneshot \in BOOLEAN,
         \/ ts' = ts
         \/ Took(ts, ts', w, cb, resource_tag, oneshot),
         UNCHANGED <<phase, fireVars, global_offset, resource_tag>>
  PROVE  IInv'
<1>1. /\ Wellformed(ts) /\ Owned(ts, callback_timer, resource_tag)
      /\ resource_tag \in Nat
      /\ callback_timer \in Active(ts) \cup {NoTimer}
      /\ Active(ts) \subseteq Slot
  BY PoolFacts DEF IInv, TypeOK, Scope, Wellformed
<1>2. CASE ts' = ts
  BY <1>1, <1>2, PoolStep DEF IInv, TypeOK, fireVars
<1>3. CASE Took(ts, ts', w, cb, resource_tag, oneshot)
  <2>1. /\ Owned(ts', callback_timer, resource_tag)
        /\ Anchored(ts) => Anchored(ts')
    BY <1>1, <1>3, TookOwned
  <2>2. /\ Wellformed(ts')
        /\ w \notin Active(ts)
        /\ Active(ts') = Active(ts) \cup {w}
        /\ \A x \in Active(ts) : ts'.temporary[x] = ts.temporary[x]
    BY <1>1, <1>3 DEF Took, OthersSame
  <2> QED
    BY <2>1, <2>2, PoolStep DEF IInv, TypeOK, fireVars
<1> QED
  BY <1>2, <1>3

LEMMA ClientIInv == IInv /\ Client => IInv'
<1> SUFFICES ASSUME IInv, Client PROVE IInv'
  OBVIOUS
<1>1. Wellformed(ts) /\ resource_tag \in Nat
  BY DEF IInv, TypeOK, Scope
<1>2. \A now \in RelativeTime : now \in Time
  BY RelativeTimeIsTime
<1>3. /\ \A d \in Duration : d \in Int
      /\ \A q \in Period : q \in Nat
      /\ \A cb \in ClientCallback : cb \in {"client", "system", "NULL"}
      /\ "client" \in {"client", "system", "NULL"}
  BY ClientAssumption
<1>4. \A w \in Handles : w \in Active(ts) /\ w \in Slot
  BY <1>1, PoolFacts DEF Handles, Wellformed
<1>5. CASE ClientAlloc
  <2>1. PICK cb \in ClientCallback : ts' = TimerAlloc(ts, cb, resource_tag)
    BY <1>5 DEF ClientAlloc
  <2>2. \/ ts' = ts
        \/ Took(ts, ts', Head(ts.free), cb, resource_tag, FALSE)
    <3>1. CASE ts.free = <<>>
      BY <3>1, <2>1 DEF TimerAlloc
    <3>2. CASE ts.free # <<>>
      BY <3>2, <1>1, <1>3, <2>1, AllocKeeps
    <3> QED
      BY <3>1, <3>2
  <2> QED
    BY <2>2, <1>5, NewTimerStep DEF ClientAlloc
<1>6. CASE ClientSetOneShot
  <2>1. PICK now \in RelativeTime, d \in Duration :
          ts' = TimerSet(ts, "client", resource_tag, now, d)
    BY <1>6 DEF ClientSetOneShot
  <2>2. \/ ts' = ts
        \/ Took(ts, ts', Head(ts.free), "client", resource_tag, TRUE)
    <3>1. CASE ts.free = <<>>
      BY <3>1, <2>1 DEF TimerSet
    <3>2. CASE ts.free # <<>>
      BY <3>2, <1>1, <1>2, <1>3, <2>1, SetKeeps
    <3> QED
      BY <3>1, <3>2
  <2> QED
    BY <2>2, <1>6, NewTimerStep DEF ClientSetOneShot
<1>7. CASE ClientPulse
  <2>1. PICK now \in RelativeTime, q \in Period :
          ts' = TimerPulse(ts, "client", resource_tag, now, q)
    BY <1>7 DEF ClientPulse
  <2>2. \/ ts' = ts
        \/ Took(ts, ts', Head(ts.free), "client", resource_tag, FALSE)
    <3>1. CASE ts.free = <<>>
      BY <3>1, <2>1 DEF TimerPulse
    <3>2. CASE ts.free # <<>>
      BY <3>2, <1>1, <1>2, <1>3, <2>1, PulseKeeps
    <3> QED
      BY <3>1, <3>2
  <2> QED
    BY <2>2, <1>7, NewTimerStep DEF ClientPulse
<1>8. CASE ClientAdjust
  <2>1. PICK w \in Handles, now \in RelativeTime, d \in Duration,
             q \in Period :
          ts' = TimerAdjust(ts, w, now, d, q) /\ Modify(w)
    BY <1>8 DEF ClientAdjust
  <2>2. Kept(ts, ts', w)
    BY <2>1, <1>1, <1>2, <1>3, <1>4, AdjustKeeps
  <2> QED
    BY <2>1, <2>2, <1>8, HandleStep DEF ClientAdjust, Modify
<1>9. CASE ClientReset
  <2>1. PICK w \in Handles, now \in RelativeTime, d \in Duration :
          ts' = TimerAdjust(ts, w, now, d, ts.period[w]) /\ Modify(w)
    BY <1>9 DEF ClientReset, TimerReset
  <2>2. ts.period[w] \in Nat
    BY <1>1, <1>4, PoolFacts DEF Wellformed
  <2>3. Kept(ts, ts', w)
    BY <2>1, <2>2, <1>1, <1>2, <1>3, <1>4, AdjustKeeps
  <2> QED
    BY <2>1, <2>3, <1>9, HandleStep DEF ClientReset, Modify
<1>10. CASE ClientEnable
  <2>1. PICK w \in Handles, on \in BOOLEAN : ts' = TimerEnable(ts, w, on)
    BY <1>10 DEF ClientEnable
  <2>2. Kept(ts, ts', w)
    BY <2>1, <1>1, <1>4, EnableKeeps
  <2> QED
    BY <2>2, <1>10, HandleStep DEF ClientEnable, fireVars
<1>11. CASE ClientRemove
  <2>1. PICK w \in Handles \ {callback_timer} : ts' = TimerRemove(ts, w)
    BY <1>11 DEF ClientRemove
  <2>2. Owned(ts, callback_timer, resource_tag) /\ w \in Active(ts)
    BY <1>4 DEF IInv
  <2>3. Gave(ts, ts', w)
    BY <2>1, <2>2, <1>1, ActiveIsTagged, RemoveKeeps
  <2>4. ~IsAnchor(ts, w)
    BY DEF IsAnchor, Handles
  <2>5. /\ Owned(ts', callback_timer, resource_tag)
        /\ Anchored(ts) => Anchored(ts')
    BY <2>2, <2>3, <2>4, <1>1, GaveOwned
  <2>6. Wellformed(ts') /\ Active(ts') = Active(ts) \ {w}
    BY <2>3 DEF Gave
  <2>7. \A x \in Active(ts') : ts'.temporary[x] = ts.temporary[x]
    BY <2>3, <2>6, <1>1, PoolFacts DEF Gave, OthersSame, Wellformed
  <2>8. phase = "callback" => callback_timer \in Active(ts')
    BY <2>1, <2>6 DEF IInv
  <2>9. UNCHANGED <<phase, fireVars, global_offset, resource_tag>> /\ ClientRuns
    BY <1>11 DEF ClientRemove
  <2>10. modified' \in BOOLEAN
    BY <2>9 DEF fireVars, IInv, TypeOK
  <2>11. phase = "callback" /\ modified' => ~ts'.temporary[callback_timer]
    BY <2>7, <2>8, <2>9 DEF fireVars, IInv
  <2> QED
    BY <2>5, <2>6, <2>8, <2>9, <2>10, <2>11, PoolStep DEF fireVars
<1> QED
  BY <1>5, <1>6, <1>7, <1>8, <1>9, <1>10, <1>11 DEF Client

\* A timer about to fire: a one-shot is disarmed, nothing else changes owner.
LEMMA DisarmOwned ==
  ASSUME NEW p, Wellformed(p), NEW w \in Active(p), NEW rt \in Nat,
         Owned(p, NoTimer, rt)
  PROVE  /\ Wellformed(Disarm(p, w))
         /\ Active(Disarm(p, w)) = Active(p)
         /\ Owned(Disarm(p, w), w, rt)
         /\ Anchored(p) => Anchored(Disarm(p, w))
<1> DEFINE q == Disarm(p, w)
<1>1. /\ Kept(p, q, w) /\ q.period = p.period
      /\ p.period[w] = 0 => q.enabled[w] = FALSE
  BY DisarmKeeps
<1> HIDE DEF q
<1>2. Active(p) \subseteq Slot /\ NoTimer \notin Slot
  BY PoolFacts DEF Wellformed, NoTimer, Slot
<1>3. \A x \in Active(p) : /\ q.temporary[x] = p.temporary[x]
                           /\ q.tag[x] = p.tag[x]
                           /\ q.callback[x] = p.callback[x]
                           /\ x # w => q.enabled[x] = p.enabled[x]
  BY <1>1, <1>2 DEF Kept, OthersSame
<1>4. Owned(q, w, rt)
  BY <1>1, <1>2, <1>3 DEF Kept, Owned
<1>5. Anchored(p) => Anchored(q)
  BY <1>1, <1>3 DEF Kept, Anchored, IsAnchor
<1> QED
  BY <1>1, <1>4, <1>5 DEF q, Kept

\* After the callback a one-shot is gone, and every other timer is listed.
LEMMA AfterFireOwned ==
  ASSUME NEW p, Wellformed(p), NEW w \in Active(p), NEW rt \in Nat,
         Owned(p, w, rt)
  PROVE  /\ Wellformed(AfterFire(p, w))
         /\ Owned(AfterFire(p, w), NoTimer, rt)
         /\ Anchored(p) => Anchored(AfterFire(p, w))
<1> DEFINE q == AfterFire(p, w)
<1>1. Active(p) \subseteq Slot /\ NoTimer \notin Slot
  BY PoolFacts DEF Wellformed, NoTimer, Slot
<1>2. CASE p.temporary[w]
  <2>1. Gave(p, q, w)
    BY <1>2, ActiveIsTagged, OneShotGoes
  <2> HIDE DEF q
  <2>2. Owned(q, w, rt) /\ (Anchored(p) => Anchored(q))
    BY <1>2, <2>1, GaveOwned DEF IsAnchor
  <2>3. Owned(q, NoTimer, rt)
    BY <2>1, <2>2, <1>1 DEF Gave, Owned
  <2> QED
    BY <2>1, <2>2, <2>3 DEF q, Gave
<1>3. CASE ~p.temporary[w]
  <2>1. Kept(p, q, w)
    BY <1>3, OthersStay
  <2> HIDE DEF q
  <2>2. Owned(q, w, rt) /\ (Anchored(p) => Anchored(q))
    BY <1>3, <2>1, KeptOwned
  <2>3. Owned(q, NoTimer, rt)
    BY <1>3, <2>1, <2>2, <1>1 DEF Kept, Owned
  <2> QED
    BY <2>1, <2>2, <2>3 DEF q, Kept
<1> QED
  BY <1>2, <1>3

LEMMA ElapseIInv == IInv /\ Elapse => IInv'
<1> SUFFICES ASSUME IInv, Elapse PROVE IInv'
  OBVIOUS
<1>1. /\ Wellformed(ts) /\ Owned(ts, callback_timer, resource_tag)
      /\ resource_tag \in Nat
      /\ NoTimer \notin Slot /\ Active(ts) \subseteq Slot
  BY PoolFacts DEF IInv, TypeOK, Scope, Wellformed, NoTimer, Slot
<1>2. CASE Advance
  <2>1. PICK delta \in Delta : /\ ts' = ShiftTimes(ts, delta)
                               /\ global_offset' = global_offset + delta
    BY <1>2 DEF Advance
  <2>2. delta \in Nat
    BY ClientAssumption
  <2>3. /\ Wellformed(ts')
        /\ Active(ts') = Active(ts)
        /\ ts'.enabled = ts.enabled /\ ts'.temporary = ts.temporary
        /\ ts'.period = ts.period /\ ts'.tag = ts.tag
        /\ ts'.callback = ts.callback
    BY <2>1, <2>2, <1>1, ShiftKeeps
  <2>4. TypeOK'
    BY <2>1, <2>2, <2>3, <1>2
       DEF Advance, IInv, TypeOK, Wellformed, fireVars, Phase, Pool
  <2>5. Owned(ts', callback_timer, resource_tag)
    BY <2>3, <1>1 DEF Owned
  <2>6. Anchored(ts')
    BY <2>3, <1>2 DEF Advance, IInv, TypeOK, Scope, Anchored, IsAnchor
  <2> QED
    BY <2>3, <2>4, <2>5, <2>6, <1>2
       DEF Advance, IInv, TypeOK, Scope, fireVars
<1>3. ASSUME phase = "fire"
      PROVE  /\ callback_timer = NoTimer /\ resource_tag = 1
             /\ Anchored(ts)
             /\ Head(ts.list) \in Active(ts)
             /\ ts.expire[Head(ts.list)] \in Time
  <2>1. Anchored(ts) /\ callback_timer = NoTimer /\ resource_tag = 1
    BY <1>3 DEF IInv
  <2>2. Head(ts.list) \in Active(ts)
    BY <2>1, <1>1, HeadIsActive
  <2> QED
    BY <2>1, <2>2, <1>1, PoolFacts DEF Wellformed
<1>4. CASE Fire
  <2> DEFINE w == Head(ts.list)
  <2>1. /\ ts' = Disarm(ts, w)
        /\ w \in Active(ts)
        /\ callback_timer' = w /\ modified' = FALSE
        /\ expire_time' \in Time
        /\ phase' = "callback" /\ resource_tag' = 1
        /\ UNCHANGED global_offset
        /\ Owned(ts, NoTimer, 1) /\ Anchored(ts)
    BY <1>4, <1>3, <1>1 DEF Fire
  <2> HIDE DEF w
  <2>2. /\ Wellformed(ts') /\ Active(ts') = Active(ts)
        /\ Owned(ts', w, 1) /\ Anchored(ts')
    BY <2>1, <1>1, DisarmOwned
  <2>3. TypeOK'
    BY <2>1, <2>2, <1>1 DEF IInv, TypeOK, Wellformed, Phase, Scope, Pool
  <2> QED
    BY <2>1, <2>2, <2>3 DEF IInv
<1>5. CASE CallbackReturn
  <2>1. /\ callback_timer \in Active(ts) /\ callback_timer \in Slot
        /\ resource_tag = 1 /\ Anchored(ts)
        /\ callback_timer' = NoTimer /\ phase' = "fire"
        /\ UNCHANGED <<modified, expire_time, global_offset, resource_tag>>
    BY <1>5, <1>1 DEF CallbackReturn, IInv
  <2>2. /\ Wellformed(ts') /\ Owned(ts', NoTimer, resource_tag)
        /\ Anchored(ts')
    <3>1. CASE modified
      <4>1. ts' = ts /\ ~ts.temporary[callback_timer]
        BY <3>1, <1>5 DEF CallbackReturn, IInv
      <4>2. Owned(ts, NoTimer, resource_tag)
        BY <4>1, <1>1 DEF Owned
      <4> QED
        BY <4>1, <4>2, <2>1, <1>1
    <3>2. CASE ~modified
      <4>1. ts' = AfterFire(ts, callback_timer)
        BY <3>2, <1>5 DEF CallbackReturn
      <4> QED
        BY <4>1, <2>1, <1>1, AfterFireOwned
    <3> QED
      BY <3>1, <3>2
  <2>3. TypeOK'
    BY <2>1, <2>2 DEF IInv, TypeOK, Wellformed, Phase, Pool
  <2> QED
    BY <2>1, <2>2, <2>3 DEF IInv
<1>6. CASE FireSilently
  <2> DEFINE w == Head(ts.list)
             d == Disarm(ts, w)
  <2>1. /\ ts' = AfterFire(d, w)
        /\ w \in Active(ts)
        /\ phase = "fire" /\ modified' = FALSE /\ expire_time' \in Time
        /\ UNCHANGED <<phase, callback_timer, global_offset, resource_tag>>
        /\ resource_tag = 1 /\ callback_timer = NoTimer /\ Anchored(ts)
    BY <1>6, <1>3 DEF FireSilently
  <2> HIDE DEF w
  <2>2. /\ Wellformed(d) /\ Active(d) = Active(ts)
        /\ Owned(d, w, resource_tag) /\ Anchored(d)
    BY <2>1, <1>1, DisarmOwned
  <2> HIDE DEF d
  <2>3. /\ Wellformed(ts') /\ Owned(ts', NoTimer, resource_tag)
        /\ Anchored(ts')
    BY <2>1, <2>2, <1>1, AfterFireOwned
  <2>4. TypeOK'
    BY <2>1, <2>3 DEF IInv, TypeOK, Wellformed, Phase, Pool
  <2> QED
    BY <2>1, <2>3, <2>4 DEF IInv
<1>7. CASE FireDone
  <2>1. /\ phase = "fire" /\ phase' = "run"
        /\ UNCHANGED <<ts, callback_timer, modified, expire_time,
                       global_offset, resource_tag>>
    BY <1>7 DEF FireDone, fireVars
  <2>2. TypeOK'
    BY <2>1 DEF IInv, TypeOK, Phase, Pool
  <2> QED
    BY <2>1, <2>2 DEF IInv
<1> QED
  BY <1>2, <1>4, <1>5, <1>6, <1>7 DEF Elapse

LEMMA TrackingIInv == IInv /\ Tracking => IInv'
<1> SUFFICES ASSUME IInv, Tracking PROVE IInv'
  OBVIOUS
<1>1. /\ Wellformed(ts) /\ Owned(ts, callback_timer, resource_tag)
      /\ resource_tag \in {0, 1}
      /\ Active(ts) \subseteq Slot
  BY PoolFacts DEF IInv, TypeOK, Scope, Wellformed
<1>2. CASE BeginTracking
  <2> DEFINE w == Head(ts.free)
  <2>1. /\ ts' = TimerPulse(ts, "system", 1, 0, SlicePeriod)
        /\ ts.free # <<>> /\ resource_tag = 0 /\ resource_tag' = 1
        /\ phase = "run" /\ callback_timer = NoTimer
        /\ UNCHANGED <<phase, callback_timer, modified, expire_time,
                       global_offset>>
    BY <1>2 DEF BeginTracking, fireVars, IInv
  <2>2. SlicePeriod \in Nat /\ 0 \in Time
    BY ClientAssumption, TimerAssumption DEF Time
  <2>3. Took(ts, ts', w, "system", 1, FALSE)
    BY <2>1, <2>2, <1>1, PulseKeeps
  <2> HIDE DEF w
  <2>4. Owned(ts, NoTimer, 1)
    BY <2>1, <1>1 DEF Owned
  <2>5. Owned(ts', NoTimer, 1)
    BY <2>3, <2>4, <1>1, TookOwned
  <2>6. Wellformed(ts') /\ Anchored(ts')
    BY <2>3 DEF Took, Anchored, IsAnchor
  <2>7. TypeOK'
    BY <2>1, <2>6 DEF IInv, TypeOK, Wellformed, Scope, Pool
  <2> QED
    BY <2>1, <2>5, <2>6, <2>7 DEF IInv
<1>3. CASE EndTracking
  <2>1. /\ phase = "run" /\ phase' = "free" /\ resource_tag > 0
        /\ UNCHANGED <<ts, callback_timer, modified, expire_time,
                       global_offset, resource_tag>>
    BY <1>3 DEF EndTracking, fireVars
  <2>2. TypeOK'
    BY <2>1 DEF IInv, TypeOK, Phase, Pool
  <2> QED
    BY <2>1, <2>2, <1>1 DEF IInv
<1>4. CASE FreeNext
  <2>1. PICK i \in Tagged : ts' = TimerRemove(ts, ts.list[i])
    BY <1>4 DEF FreeNext
  <2> DEFINE w == ts.list[i]
  <2>2. w \in Active(ts) /\ i \in DOMAIN ts.list
    BY DEF Tagged, Active, Range
  <2>3. ts' = TimerRemove(ts, w)
    BY <2>1
  <2> HIDE DEF w
  <2>4. Gave(ts, ts', w)
    BY <2>2, <2>3, <1>1, ActiveIsTagged, RemoveKeeps
  <2>5. Owned(ts', callback_timer, resource_tag)
    BY <2>2, <2>4, <1>1, GaveOwned
  <2>6. /\ phase = "free" /\ callback_timer = NoTimer
        /\ UNCHANGED <<phase, callback_timer, modified, expire_time,
                       global_offset, resource_tag>>
    BY <1>4 DEF FreeNext, fireVars, IInv
  <2>7. TypeOK'
    BY <2>4, <2>6 DEF IInv, TypeOK, Gave, Wellformed, Pool
  <2> QED
    BY <2>4, <2>5, <2>6, <2>7 DEF IInv, Gave
<1>5. CASE FreeDone
  <2>1. /\ phase = "free" /\ phase' = "run" /\ resource_tag = 1
        /\ resource_tag' = 0 /\ Tagged = {} /\ callback_timer = NoTimer
        /\ UNCHANGED <<ts, callback_timer, modified, expire_time,
                       global_offset>>
    BY <1>5 DEF FreeDone, fireVars, IInv
  <2>2. \A x \in Active(ts) : ts.tag[x] # 1
    BY <2>1 DEF Tagged, Active, Range
  <2>3. Owned(ts, NoTimer, 0)
    BY <2>1, <2>2, <1>1 DEF Owned
  <2>4. TypeOK'
    BY <2>1 DEF IInv, TypeOK, Phase, Scope, Pool
  <2> QED
    BY <2>1, <2>3, <2>4, <1>1 DEF IInv
<1> QED
  BY <1>2, <1>3, <1>4, <1>5 DEF Tracking

-----------------------------------------------------------------------------
(***************************************************************************)
(* The theorems.                                                           *)
(***************************************************************************)

LEMMA StepIInv == IInv /\ [Next]_vars => IInv'
<1> SUFFICES ASSUME IInv, [Next]_vars PROVE IInv'
  OBVIOUS
<1>1. CASE Next
  BY <1>1, ClientIInv, ElapseIInv, TrackingIInv DEF Next
<1>2. CASE UNCHANGED vars
  BY <1>2 DEF vars, IInv, TypeOK, Pool
<1> QED
  BY <1>1, <1>2

\* IInv holds in every reachable state.
THEOREM Invariance == Spec => []IInv
BY InitIInv, StepIInv, PTL DEF Spec

\* Every variable keeps its type, for every pool size and set of times.
THEOREM TypeCorrect == Spec => []TypeOK
<1>1. IInv => TypeOK
  BY DEF IInv
<1> QED
  BY <1>1, Invariance, PTL

\* No sequence of timer calls, callbacks and resets loses a slot of timers[]
\* or links one twice.
THEOREM SlotsStayPartitioned == Spec => []SlotsPartitioned
<1>1. IInv => SlotsPartitioned
  BY DEF IInv, Wellformed, SlotsPartitioned
<1> QED
  BY <1>1, Invariance, PTL

\* The active list stays sorted by expiry, equal expiries in the order they
\* were listed, whatever callbacks do to it.
THEOREM ListStaysSorted == Spec => []ExpiryOrder
<1>1. IInv => ExpiryOrder
  BY DEF IInv, Wellformed, ExpiryOrder
<1> QED
  BY <1>1, Invariance, PTL

\* No timer outlives the run of the machine it was allocated in.
THEOREM ScopesOwnTheirTimers == Spec => []NoTimerOutlivesScope
<1>1. IInv => NoTimerOutlivesScope
  BY DEF IInv, Owned, NoTimerOutlivesScope
<1> QED
  BY <1>1, Invariance, PTL

\* A one-shot is armed until its callback runs and gone afterwards.
THEOREM OneShotsFireOnce == Spec => []OneShotArmedOrGone
<1>1. IInv => OneShotArmedOrGone
  BY DEF IInv, Owned, OneShotArmedOrGone
<1> QED
  BY <1>1, Invariance, PTL

\* The head of the list is, but for Slop, the armed timer that expires first.
LEMMA HeadComesFirst ==
  ASSUME NEW p, Wellformed(p), Anchored(p), NEW x \in Active(p), p.enabled[x]
  PROVE  p.expire[Head(p.list)] <= p.expire[x] + Slop
<1> DEFINE h == Head(p.list)
           a == p.expire[h]
           b == p.expire[x]
<1>1. h \in Active(p) /\ h = p.list[1] /\ 1 \in DOMAIN p.list
  BY HeadIsActive
<1>2. PICK j \in DOMAIN p.list : p.list[j] = x
  BY DEF Active, Range
<1>3. DOMAIN p.list = 1 .. Len(p.list) /\ Len(p.list) \in Nat
  <2>1. p.list \in Seq(Slot)
    BY PoolFacts DEF Wellformed
  <2> QED
    BY <2>1, LenProperties
<1>4. a \in Int /\ b \in Int /\ Slop \in Nat
  BY <1>1, PoolFacts, TimerAssumption DEF Wellformed, Time
<1>5. j = 1 \/ Precedes(p, h, x)
  BY <1>1, <1>2, <1>3 DEF Wellformed, InExpiryOrder
<1>6. a = b \/ a < b \/ a <= b + Slop
  BY <1>1, <1>2, <1>5 DEF Precedes
<1> HIDE DEF a, b
<1>7. a <= b + Slop
  BY <1>4, <1>6
<1> QED
  BY <1>7 DEF a, b

\* The firing loop looks at the head only; when it stops nothing that is armed
\* is overdue.
THEOREM NothingIsMissed == Spec => NothingOverdueMissed
<1> DEFINE Missed == phase = "fire" /\ phase' = "run" =>
             \A x \in Active(ts) : ts.enabled[x] => ts.expire[x] >= 0
<1>1. ASSUME IInv, [Next]_vars PROVE [Missed]_vars
  <2> SUFFICES ASSUME phase = "fire", phase' = "run",
                      NEW x \in Active(ts), ts.enabled[x]
               PROVE  ts.expire[x] >= 0
    OBVIOUS
  <2>1. FireDone
    BY <1>1 DEF vars, Next, Client, Elapse, Tracking, ClientAlloc,
       ClientSetOneShot, ClientPulse, ClientAdjust, ClientReset, ClientEnable,
       ClientRemove, ClientRuns, Advance, Fire, CallbackReturn, FireSilently,
       FireDone, BeginTracking, EndTracking, FreeNext, FreeDone
  <2>2. /\ Wellformed(ts) /\ Anchored(ts)
        /\ ~(ts.expire[Head(ts.list)] < Slop)
    BY <1>1, <2>1 DEF IInv, FireDone, HeadDue
  <2> DEFINE a == ts.expire[Head(ts.list)]
             b == ts.expire[x]
  <2>3. a <= b + Slop /\ ~(a < Slop)
    BY <2>2, HeadComesFirst
  <2>4. a \in Int /\ b \in Int /\ Slop \in Nat
    BY <2>2, HeadIsActive, PoolFacts, TimerAssumption DEF Wellformed, Time
  <2> HIDE DEF a, b
  <2>5. b >= 0
    BY <2>3, <2>4
  <2> QED
    BY <2>5 DEF b
<1> QED
  BY <1>1, Invariance, PTL DEF Spec, NothingOverdueMissed

-----------------------------------------------------------------------------
(***************************************************************************)
(* The refinement: every step of the timer system is a step of the agenda  *)
(* or leaves it alone.                                                     *)
(***************************************************************************)

LEMMA LeftFacts ==
  ASSUME IInv
  PROVE  /\ Armed \subseteq Slot
         /\ \A x \in Slot : Left[x] \in Time /\ (x \notin Armed => Left[x] = 0)
         /\ \A x \in Armed :
              Left[x] = IF Firing(x) THEN Plus(ts.expire[x], ts.period[x])
                        ELSE ts.expire[x]
         /\ phase # "callback" => \A x \in Armed : Left[x] = ts.expire[x]
<1>1. /\ Armed \subseteq Slot
      /\ \A x \in Slot : ts.expire[x] \in Time /\ ts.period[x] \in Nat
  BY PoolFacts DEF IInv, Wellformed, Armed
<1>2. 0 \in Time
  BY TimerAssumption DEF Time
<1>3. \A t \in Time, d \in Nat : Plus(t, d) \in Time
  BY TimeFacts
<1> QED
  BY <1>1, <1>2, <1>3 DEF Left, Firing

\* A call on timer w is seen as arming or disarming w, and only w.
LEMMA CallMaps ==
  ASSUME IInv, IInv', NEW w \in Slot,
         ClientRuns \/ phase = "free",
         OthersSame(ts, ts', w),
         \A x \in Slot \ {w} : x \in Active(ts') <=> x \in Active(ts),
         modified' # modified => w = callback_timer,
         UNCHANGED <<phase, callback_timer>>
  PROVE  Agenda!Arm(w) \/ Agenda!Disarm(w)
<1>1. \A x \in Slot \ {w} :
        /\ x \in Armed' <=> x \in Armed
        /\ Left'[x] = Left[x]
  BY DEF Armed, Left, Firing, OthersSame
<1>2. /\ Armed \subseteq Slot /\ Armed' \subseteq Slot
      /\ Left'[w] \in Time
      /\ w \notin Armed' => Left'[w] = 0
  <2>1. /\ Armed \subseteq Slot
        /\ Armed' \subseteq Slot
        /\ ts'.expire[w] \in Time /\ ts'.period[w] \in Nat
    BY PoolFacts DEF IInv, Wellformed, Armed
  <2>2. Plus(ts'.expire[w], ts'.period[w]) \in Time /\ 0 \in Time
    <3>1. \A t \in Time, d \in Nat : Plus(t, d) \in Time
      BY TimeFacts
    <3> QED
      BY <2>1, <3>1, TimerAssumption DEF Time
  <2>3. Left'[w] = IF w \notin Armed' THEN 0
                   ELSE IF Firing(w)' THEN Plus(ts'.expire[w], ts'.period[w])
                   ELSE ts'.expire[w]
    BY DEF Left
  <2> QED
    BY <2>1, <2>2, <2>3
<1>3. Left' = [Left EXCEPT ![w] = Left'[w]]
  <2>1. Left \in [Slot -> {Left[x] : x \in Slot}] /\ DOMAIN Left = Slot
    BY DEF Left
  <2>2. Left' = [x \in Slot |-> Left'[x]]
    BY DEF Left
  <2> QED
    BY <2>1, <2>2, <1>1
<1>4. Agenda!ProgramRuns
  <2>1. phase = "callback" => callback_timer \in Slot
    BY PoolFacts DEF IInv, Wellformed
  <2>2. phase \in {"fire", "callback"} => callback_timer # NoTimer
    BY <2>1 DEF ClientRuns, NoTimer, Slot
  <2> QED
    BY <2>2 DEF Agenda!ProgramRuns
<1>5. CASE w \in Armed'
  <2>1. Armed' = Armed \cup {w}
    BY <1>1, <1>2, <1>5
  <2> QED
    BY <2>1, <1>2, <1>3, <1>4 DEF Agenda!Arm
<1>6. CASE w \notin Armed'
  <2>1. Armed' = Armed \ {w}
    BY <1>1, <1>2, <1>6
  <2> QED
    BY <2>1, <1>2, <1>3, <1>4, <1>6 DEF Agenda!Disarm
<1> QED
  BY <1>5, <1>6

\* A step of a client: one timer is touched, or none.
Touches(w) ==
  /\ OthersSame(ts, ts', w)
  /\ \A x \in Slot \ {w} : x \in Active(ts') <=> x \in Active(ts)
  /\ modified' # modified => w = callback_timer
  /\ UNCHANGED <<phase, callback_timer>>

StandsStill == UNCHANGED <<ts, phase, callback_timer, modified>>

LEMMA CallTouches ==
  ASSUME NEW w \in Slot, NEW cb, NEW tg, NEW oneshot,
         \/ Took(ts, ts', w, cb, tg, oneshot)
         \/ Kept(ts, ts', w)
         \/ Gave(ts, ts', w),
         modified' # modified => w = callback_timer,
         UNCHANGED <<phase, callback_timer>>
  PROVE  Touches(w)
BY DEF Touches, Took, Kept, Gave

LEMMA ClientTouches ==
  ASSUME IInv, Client
  PROVE  ClientRuns /\ (StandsStill \/ \E w \in Slot : Touches(w))
<1>1. Wellformed(ts) /\ resource_tag \in Nat
  BY DEF IInv, TypeOK, Scope
<1>2. \A now \in RelativeTime : now \in Time
  BY RelativeTimeIsTime
<1>3. /\ \A d \in Duration : d \in Int
      /\ \A q \in Period : q \in Nat
      /\ \A cb \in ClientCallback : cb \in {"client", "system", "NULL"}
      /\ "client" \in {"client", "system", "NULL"}
  BY ClientAssumption
<1>4. \A w \in Handles : w \in Active(ts) /\ w \in Slot
  BY <1>1, PoolFacts DEF Handles, Wellformed
<1>5. /\ ClientRuns
      /\ UNCHANGED <<phase, callback_timer>>
  BY DEF Client, ClientAlloc, ClientSetOneShot, ClientPulse, ClientAdjust,
     ClientReset, ClientEnable, ClientRemove, fireVars
<1>6. ASSUME UNCHANGED modified, NEW cb, NEW oneshot,
             \/ ts.free = <<>> /\ ts' = ts
             \/ Took(ts, ts', Head(ts.free), cb, resource_tag, oneshot)
      PROVE  StandsStill \/ \E w \in Slot : Touches(w)
  <2>1. CASE ts' = ts
    BY <2>1, <1>5, <1>6 DEF StandsStill
  <2>2. CASE Took(ts, ts', Head(ts.free), cb, resource_tag, oneshot)
    <3>1. Head(ts.free) \in Slot
      BY <2>2 DEF Took
    <3> QED
      BY <2>2, <3>1, <1>5, <1>6, CallTouches
  <2> QED
    BY <2>1, <2>2, <1>6
<1>7. CASE ClientAlloc
  <2>1. PICK cb \in ClientCallback : ts' = TimerAlloc(ts, cb, resource_tag)
    BY <1>7 DEF ClientAlloc
  <2>2. \/ ts.free = <<>> /\ ts' = ts
        \/ Took(ts, ts', Head(ts.free), cb, resource_tag, FALSE)
    <3>1. CASE ts.free = <<>>
      BY <3>1, <2>1 DEF TimerAlloc
    <3>2. CASE ts.free # <<>>
      BY <3>2, <1>1, <1>3, <2>1, AllocKeeps
    <3> QED
      BY <3>1, <3>2
  <2> QED
    BY <2>2, <1>5, <1>6, <1>7 DEF ClientAlloc, fireVars
<1>8. CASE ClientSetOneShot
  <2>1. PICK now \in RelativeTime, d \in Duration :
          ts' = TimerSet(ts, "client", resource_tag, now, d)
    BY <1>8 DEF ClientSetOneShot
  <2>2. \/ ts.free = <<>> /\ ts' = ts
        \/ Took(ts, ts', Head(ts.free), "client", resource_tag, TRUE)
    <3>1. CASE ts.free = <<>>
      BY <3>1, <2>1 DEF TimerSet
    <3>2. CASE ts.free # <<>>
      BY <3>2, <1>1, <1>2, <1>3, <2>1, SetKeeps
    <3> QED
      BY <3>1, <3>2
  <2> QED
    BY <2>2, <1>5, <1>6, <1>8 DEF ClientSetOneShot, fireVars
<1>9. CASE ClientPulse
  <2>1. PICK now \in RelativeTime, q \in Period :
          ts' = TimerPulse(ts, "client", resource_tag, now, q)
    BY <1>9 DEF ClientPulse
  <2>2. \/ ts.free = <<>> /\ ts' = ts
        \/ Took(ts, ts', Head(ts.free), "client", resource_tag, FALSE)
    <3>1. CASE ts.free = <<>>
      BY <3>1, <2>1 DEF TimerPulse
    <3>2. CASE ts.free # <<>>
      BY <3>2, <1>1, <1>2, <1>3, <2>1, PulseKeeps
    <3> QED
      BY <3>1, <3>2
  <2> QED
    BY <2>2, <1>5, <1>6, <1>9 DEF ClientPulse, fireVars
<1>10. ASSUME NEW w \in Handles, Kept(ts, ts', w),
              modified' # modified => w = callback_timer
       PROVE  \E x \in Slot : Touches(x)
  BY <1>4, <1>5, <1>10, CallTouches
<1>11. CASE ClientAdjust
  <2>1. PICK w \in Handles, now \in RelativeTime, d \in Duration,
             q \in Period :
          ts' = TimerAdjust(ts, w, now, d, q) /\ Modify(w)
    BY <1>11 DEF ClientAdjust
  <2>2. Kept(ts, ts', w)
    BY <2>1, <1>1, <1>2, <1>3, <1>4, AdjustKeeps
  <2> QED
    BY <2>1, <2>2, <1>5, <1>10 DEF Modify, IInv, TypeOK
<1>12. CASE ClientReset
  <2>1. PICK w \in Handles, now \in RelativeTime, d \in Duration :
          ts' = TimerAdjust(ts, w, now, d, ts.period[w]) /\ Modify(w)
    BY <1>12 DEF ClientReset, TimerReset
  <2>2. ts.period[w] \in Nat
    BY <1>1, <1>4, PoolFacts DEF Wellformed
  <2>3. Kept(ts, ts', w)
    BY <2>1, <2>2, <1>1, <1>2, <1>3, <1>4, AdjustKeeps
  <2> QED
    BY <2>1, <2>3, <1>5, <1>10 DEF Modify, IInv, TypeOK
<1>13. CASE ClientEnable
  <2>1. PICK w \in Handles, on \in BOOLEAN : ts' = TimerEnable(ts, w, on)
    BY <1>13 DEF ClientEnable
  <2>2. Kept(ts, ts', w)
    BY <2>1, <1>1, <1>4, EnableKeeps
  <2> QED
    BY <2>2, <1>5, <1>10, <1>13 DEF ClientEnable, fireVars
<1>14. CASE ClientRemove
  <2>1. PICK w \in Handles \ {callback_timer} : ts' = TimerRemove(ts, w)
    BY <1>14 DEF ClientRemove
  <2>2. Owned(ts, callback_timer, resource_tag) /\ w \in Active(ts)
    BY <1>4 DEF IInv
  <2>3. Gave(ts, ts', w) /\ w \in Slot
    BY <2>1, <2>2, <1>1, <1>4, ActiveIsTagged, RemoveKeeps
  <2> QED
    BY <2>3, <1>5, <1>14, CallTouches DEF ClientRemove, fireVars
<1> QED
  BY <1>5, <1>7, <1>8, <1>9, <1>11, <1>12, <1>13, <1>14 DEF Client

\* What the agenda sees of the timers other than w when a step leaves them be.
LEMMA OthersUnseen ==
  ASSUME NEW w \in Slot,
         OthersSame(ts, ts', w),
         \A x \in Slot \ {w} : x \in Active(ts') <=> x \in Active(ts),
         \A x \in Slot \ {w} : Firing(x)' <=> Firing(x)
  PROVE  \A x \in Slot \ {w} : /\ x \in Armed' <=> x \in Armed
                               /\ Left'[x] = Left[x]
BY DEF Armed, Left, Firing, OthersSame

\* ... and of all of them when it does not change w either.
LEMMA AllUnseen ==
  ASSUME IInv, IInv', NEW w \in Slot,
         OthersSame(ts, ts', w),
         \A x \in Slot \ {w} : x \in Active(ts') <=> x \in Active(ts),
         \A x \in Slot \ {w} : Firing(x)' <=> Firing(x),
         w \in Armed' <=> w \in Armed,
         w \in Armed => Left'[w] = Left[w]
  PROVE  UNCHANGED <<Armed, Left>>
<1>1. \A x \in Slot \ {w} : /\ x \in Armed' <=> x \in Armed
                            /\ Left'[x] = Left[x]
  BY OthersUnseen
<1>2. Armed \subseteq Slot /\ Armed' \subseteq Slot
  BY PoolFacts DEF IInv, Wellformed, Armed
<1>3. Armed' = Armed
  BY <1>1, <1>2
<1>4. Left'[w] = Left[w]
  BY <1>3 DEF Left
<1>5. \A x \in Slot : Left'[x] = Left[x]
  BY <1>1, <1>4
<1>6. Left' = [x \in Slot |-> Left'[x]] /\ Left = [x \in Slot |-> Left[x]]
  BY DEF Left
<1>7. Left' = Left
  BY <1>5, <1>6
<1> QED
  BY <1>3, <1>7

LEMMA DisarmFields ==
  ASSUME NEW p \in Pool, NEW w \in Slot
  PROVE  /\ Disarm(p, w).expire = p.expire
         /\ Disarm(p, w).period = p.period
         /\ Disarm(p, w).temporary = p.temporary
         /\ Disarm(p, w).enabled[w] = (p.enabled[w] /\ p.period[w] # 0)
BY DEF Disarm, Pool, PoolType

\* The head fires: it is due, it comes first, and it is off or rescheduled.
LEMMA FireMaps ==
  ASSUME IInv, IInv', NEW w \in Slot, w = Head(ts.list),
         phase = "fire", HeadDue(ts), ts.enabled[w],
         OthersSame(ts, ts', w),
         \A x \in Slot \ {w} : x \in Active(ts') <=> x \in Active(ts),
         \/ w \notin Armed'
         \/ Left'[w] = Plus(ts.expire[w], ts.period[w]) /\ ts.period[w] # 0,
         phase' \in {"fire", "callback"},
         callback_timer' \in {w, NoTimer}
  PROVE  Agenda!Fire(w)
<1>1. /\ Wellformed(ts) /\ Anchored(ts) /\ callback_timer = NoTimer
      /\ Armed \subseteq Slot /\ Armed' \subseteq Slot
  BY PoolFacts DEF IInv, Wellformed, Armed
<1>2. w \in Armed
  BY <1>1, HeadIsActive DEF Armed
<1>3. \A x \in Armed : Left[x] = ts.expire[x]
  BY LeftFacts
<1>4. Agenda!Due(w)
  BY <1>2, <1>3 DEF Agenda!Due, HeadDue
<1>5. Agenda!First(w)
  <2> SUFFICES ASSUME NEW y \in Armed PROVE Left[w] <= Left[y] + Slop
    BY DEF Agenda!First
  <2> QED
    BY <1>1, <1>2, <1>3, HeadComesFirst DEF Armed
<1>6. w # NoTimer
  BY DEF NoTimer, Slot
<1>7. \A x \in Slot \ {w} : /\ x \in Armed' <=> x \in Armed
                            /\ Left'[x] = Left[x]
  <2>1. \A x \in Slot \ {w} : ~Firing(x) /\ ~Firing(x)'
    BY DEF Firing, NoTimer, Slot
  <2> QED
    BY <2>1, OthersUnseen
<1>8. Left' = [Left EXCEPT ![w] = Left'[w]]
  <2>1. DOMAIN Left = Slot /\ Left = [x \in Slot |-> Left[x]]
    BY DEF Left
  <2>2. Left' = [x \in Slot |-> Left'[x]]
    BY DEF Left
  <2> QED
    BY <2>1, <2>2, <1>7
<1>9. CASE w \notin Armed'
  <2>1. Left'[w] = 0
    BY <1>9 DEF Left
  <2>2. Armed' = Armed \ {w}
    BY <1>1, <1>7, <1>9
  <2>3. Agenda!TurnOff(w)
    BY <2>1, <2>2, <1>8 DEF Agenda!TurnOff
  <2> QED
    BY <2>3, <1>1, <1>4, <1>5 DEF Agenda!Fire
<1>10. CASE w \in Armed'
  <2>1. Armed' = Armed
    BY <1>1, <1>2, <1>7, <1>10
  <2> DEFINE t == ts.expire[w]
             d == ts.period[w]
  <2>2. /\ t \in Time /\ d \in Nat /\ d # 0 /\ t < Slop
        /\ Left'[w] = Plus(t, d) /\ Left[w] = t
    BY <1>1, <1>2, <1>3, <1>10, PoolFacts DEF Wellformed, HeadDue
  <2> HIDE DEF t, d
  <2>3. Plus(t, d) \in Time
    BY <2>2, TimeFacts
  <2>4. Plus(t, d) > t
    BY <2>2, TimerAssumption DEF Plus, Time
  <2>5. Agenda!Rearm(w)
    BY <2>1, <2>2, <2>3, <2>4, <1>8 DEF Agenda!Rearm
  <2> QED
    BY <2>5, <1>1, <1>4, <1>5 DEF Agenda!Fire
<1> QED
  BY <1>9, <1>10

AgendaStep == Agenda!Next \/ UNCHANGED Agenda!vars

LEMMA TouchMaps ==
  ASSUME IInv, IInv', ClientRuns \/ phase = "free",
         NEW w \in Slot, Touches(w)
  PROVE  AgendaStep
<1>1. Agenda!Arm(w) \/ Agenda!Disarm(w)
  BY CallMaps DEF Touches
<1> QED
  BY <1>1 DEF AgendaStep, Agenda!Next

\* A step that leaves the timers and the callback statics alone, and stays
\* on its side of the firing loop, is invisible.
LEMMA StillMaps ==
  ASSUME IInv, IInv',
         UNCHANGED <<ts, callback_timer, modified>>,
         phase' = phase \/ {phase, phase'} \subseteq {"run", "free"}
  PROVE  AgendaStep
<1>1. UNCHANGED <<Armed, Left>>
  BY DEF Armed, Left, Firing
<1> QED
  BY <1>1 DEF AgendaStep, Agenda!vars

LEMMA ClientMaps ==
  ASSUME IInv, IInv', Client
  PROVE  AgendaStep
<1>1. CASE StandsStill
  BY <1>1, StillMaps DEF StandsStill
<1>2. ASSUME NEW w \in Slot, Touches(w)
      PROVE  AgendaStep
  BY <1>2, ClientTouches, TouchMaps
<1> QED
  BY <1>1, <1>2, ClientTouches

LEMMA TrackingMaps ==
  ASSUME IInv, IInv', Tracking
  PROVE  AgendaStep
<1>1. /\ Wellformed(ts) /\ Owned(ts, callback_timer, resource_tag)
      /\ resource_tag \in {0, 1}
  BY DEF IInv, TypeOK, Scope
<1>2. CASE BeginTracking
  <2> DEFINE w == Head(ts.free)
  <2>1. /\ ts' = TimerPulse(ts, "system", 1, 0, SlicePeriod)
        /\ ts.free # <<>> /\ phase = "run"
        /\ UNCHANGED <<phase, callback_timer, modified>>
    BY <1>2 DEF BeginTracking, fireVars
  <2>2. SlicePeriod \in Nat /\ 0 \in Time
    BY ClientAssumption, TimerAssumption DEF Time
  <2>3. Took(ts, ts', w, "system", 1, FALSE)
    BY <2>1, <2>2, <1>1, PulseKeeps
  <2> HIDE DEF w
  <2>4. w \in Slot
    BY <2>3 DEF Took
  <2>5. Touches(w)
    BY <2>1, <2>3, <2>4, CallTouches
  <2> QED
    BY <2>1, <2>4, <2>5, TouchMaps DEF ClientRuns
<1>3. CASE EndTracking
  BY <1>3, StillMaps DEF EndTracking, fireVars
<1>4. CASE FreeNext
  <2>1. PICK i \in Tagged : ts' = TimerRemove(ts, ts.list[i])
    BY <1>4 DEF FreeNext
  <2> DEFINE w == ts.list[i]
  <2>2. w \in Active(ts)
    BY DEF Tagged, Active, Range
  <2>3. ts' = TimerRemove(ts, w)
    BY <2>1
  <2> HIDE DEF w
  <2>4. Gave(ts, ts', w) /\ w \in Slot
    BY <2>2, <2>3, <1>1, PoolFacts, ActiveIsTagged, RemoveKeeps DEF Wellformed
  <2>5. Touches(w)
    BY <2>4, <1>4, CallTouches DEF FreeNext, fireVars
  <2> QED
    BY <2>4, <2>5, <1>4, TouchMaps DEF FreeNext
<1>5. CASE FreeDone
  BY <1>5, StillMaps DEF FreeDone, fireVars
<1> QED
  BY <1>2, <1>3, <1>4, <1>5 DEF Tracking

LEMMA AdvanceMaps ==
  ASSUME IInv, IInv', Advance
  PROVE  AgendaStep
<1>1. PICK delta \in Delta : ts' = ShiftTimes(ts, delta)
  BY DEF Advance
<1>2. /\ phase = "run" /\ phase' = "fire"
      /\ callback_timer' = callback_timer
      /\ Wellformed(ts) /\ delta \in Nat
  BY ClientAssumption DEF Advance, fireVars, IInv
<1>3. /\ Active(ts') = Active(ts)
      /\ ts'.enabled = ts.enabled
  BY <1>1, <1>2, ShiftKeeps
<1>4. \A x \in Active(ts) : ts'.expire[x] = Minus(ts.expire[x], delta)
  BY <1>1, <1>2, PoolFacts DEF ShiftTimes, Wellformed, Pool, PoolType
<1>5. /\ \A x \in Armed : Left[x] = ts.expire[x]
      /\ Armed \subseteq Slot
  BY <1>2, LeftFacts
<1>6. Armed' = Armed
  BY <1>3 DEF Armed
<1>7. \A x \in Slot : Left'[x] = IF x \notin Armed THEN 0
                                 ELSE IF Left[x] = Never THEN Never
                                 ELSE Left[x] - delta
  <2> TAKE x \in Slot
  <2>1. CASE x \notin Armed
    BY <2>1, <1>6 DEF Left
  <2>2. CASE x \in Armed
    <3>1. Left'[x] = ts'.expire[x]
      BY <2>2, <1>2, <1>6 DEF Left, Firing
    <3>2. x \in Active(ts) /\ Left[x] = ts.expire[x]
      BY <2>2, <1>5 DEF Armed
    <3> QED
      BY <2>2, <3>1, <3>2, <1>4 DEF Minus
  <2> QED
    BY <2>1, <2>2
<1>8. Left' = [x \in Slot |-> IF x \notin Armed THEN 0
                              ELSE IF Left[x] = Never THEN Never
                              ELSE Left[x] - delta]
  <2>1. Left' = [x \in Slot |-> Left'[x]]
    BY DEF Left
  <2> QED
    BY <2>1, <1>7
<1>9. Agenda!Pass(delta)
  BY <1>2, <1>6, <1>8 DEF Agenda!Pass
<1> QED
  BY <1>9 DEF AgendaStep, Agenda!Next

LEMMA FireDoneMaps ==
  ASSUME IInv, IInv', FireDone
  PROVE  AgendaStep
<1>1. /\ Wellformed(ts) /\ Anchored(ts) /\ ~HeadDue(ts)
      /\ phase = "fire" /\ phase' = "run" /\ callback_timer = NoTimer
      /\ UNCHANGED <<ts, callback_timer, modified>>
  BY DEF FireDone, fireVars, IInv
<1>2. UNCHANGED <<Armed, Left>>
  BY <1>1 DEF Armed, Left, Firing
<1>3. ASSUME NEW x \in Armed
      PROVE  Left[x] >= 0
  <2> DEFINE a == ts.expire[Head(ts.list)]
             b == ts.expire[x]
  <2>1. Left[x] = b /\ x \in Active(ts) /\ ts.enabled[x]
    BY <1>1, LeftFacts DEF Armed
  <2>2. a <= b + Slop /\ ~(a < Slop)
    BY <2>1, <1>1, HeadComesFirst DEF HeadDue
  <2>3. a \in Int /\ b \in Int /\ Slop \in Nat
    BY <2>1, <1>1, HeadIsActive, PoolFacts, TimerAssumption
       DEF Wellformed, Time
  <2> HIDE DEF a, b
  <2> QED
    BY <2>1, <2>2, <2>3
<1>4. Agenda!Finish
  BY <1>1, <1>2, <1>3 DEF Agenda!Finish
<1> QED
  BY <1>4 DEF AgendaStep, Agenda!Next

\* AfterFire as the agenda sees it: off, or one period later.
LEMMA AfterFireSeen ==
  ASSUME NEW p, Wellformed(p), NEW w \in Active(p), NEW rt \in Nat,
         Owned(p, w, rt)
  PROVE  LET q == AfterFire(p, w)
         IN /\ OthersSame(p, q, w)
            /\ \A x \in Slot \ {w} : x \in Active(q) <=> x \in Active(p)
            /\ w \in Active(q) /\ q.enabled[w] <=> p.enabled[w]
            /\ p.enabled[w] =>
                 q.expire[w] = Plus(p.expire[w], p.period[w])
<1> DEFINE q == AfterFire(p, w)
<1>1. p.tag[w] # NoTag
  BY ActiveIsTagged
<1>2. CASE p.temporary[w]
  <2>1. Gave(p, q, w)
    BY <1>1, <1>2, OneShotGoes
  <2>2. ~p.enabled[w]
    BY <1>2 DEF Owned
  <2> HIDE DEF q
  <2>3. /\ OthersSame(p, q, w)
        /\ Active(q) = Active(p) \ {w}
    BY <2>1 DEF Gave
  <2> QED
    BY <2>2, <2>3 DEF q
<1>3. CASE ~p.temporary[w]
  <2>1. /\ Kept(p, q, w) /\ q.enabled = p.enabled
        /\ q.expire[w] = Plus(p.expire[w], p.period[w])
    BY <1>3, OthersStay
  <2> HIDE DEF q
  <2>2. OthersSame(p, q, w) /\ Active(q) = Active(p)
    BY <2>1 DEF Kept
  <2> QED
    BY <2>1, <2>2 DEF q
<1> QED
  BY <1>2, <1>3

LEMMA FireStepMaps ==
  ASSUME IInv, IInv', Fire
  PROVE  AgendaStep
<1>0. PICK w \in Slot : w = Head(ts.list)
  <2>1. Wellformed(ts) /\ Anchored(ts)
    BY DEF Fire, IInv
  <2> QED
    BY <2>1, HeadIsActive, PoolFacts DEF Wellformed
<1>1. /\ Wellformed(ts) /\ Anchored(ts) /\ HeadDue(ts)
      /\ phase = "fire" /\ phase' = "callback" /\ ts.enabled[w]
      /\ ts' = Disarm(ts, w) /\ callback_timer' = w /\ modified' = FALSE
  BY <1>0 DEF Fire, IInv
<1>2. w \in Active(ts) /\ ts \in Pool
  BY <1>0, <1>1, HeadIsActive DEF Wellformed
<1>4. /\ OthersSame(ts, ts', w)
      /\ \A x \in Slot \ {w} : x \in Active(ts') <=> x \in Active(ts)
  BY <1>1, <1>2, DisarmKeeps DEF Kept
<1>5. /\ ts'.expire = ts.expire
      /\ ts'.period = ts.period
      /\ ts'.enabled[w] = (ts.enabled[w] /\ ts.period[w] # 0)
  BY <1>1, <1>2, DisarmFields
<1>6. \/ w \notin Armed'
      \/ Left'[w] = Plus(ts.expire[w], ts.period[w]) /\ ts.period[w] # 0
  <2>1. CASE w \in Armed'
    <3>1. ts.period[w] # 0
      BY <2>1, <1>5 DEF Armed
    <3>2. Firing(w)'
      BY <1>1 DEF Firing
    <3>3. Left'[w] = Plus(ts'.expire[w], ts'.period[w])
      BY <2>1, <3>2, <1>2 DEF Left
    <3> QED
      BY <3>1, <3>3, <1>5
  <2> QED
    BY <2>1
<1>7. Agenda!Fire(w)
  BY <1>0, <1>1, <1>2, <1>4, <1>6, FireMaps
<1> QED
  BY <1>2, <1>7 DEF AgendaStep, Agenda!Next

LEMMA FireSilentlyMaps ==
  ASSUME IInv, IInv', FireSilently
  PROVE  AgendaStep
<1>0. PICK w \in Slot : w = Head(ts.list)
  <2>1. Wellformed(ts) /\ Anchored(ts)
    BY DEF FireSilently, IInv
  <2> QED
    BY <2>1, HeadIsActive, PoolFacts DEF Wellformed
<1> DEFINE d == Disarm(ts, w)
<1>1. /\ Wellformed(ts) /\ Anchored(ts) /\ HeadDue(ts)
      /\ phase = "fire" /\ phase' = "fire" /\ callback_timer = NoTimer
      /\ ts' = AfterFire(d, w) /\ callback_timer' = NoTimer
      /\ Owned(ts, NoTimer, resource_tag) /\ resource_tag \in Nat
  BY <1>0 DEF FireSilently, IInv, TypeOK, Scope
<1>2. w \in Active(ts) /\ ts \in Pool
  BY <1>0, <1>1, HeadIsActive DEF Wellformed
<1>4. /\ OthersSame(ts, d, w)
      /\ Active(d) = Active(ts)
      /\ d.expire = ts.expire
      /\ d.period = ts.period
      /\ d.enabled[w] = (ts.enabled[w] /\ ts.period[w] # 0)
  <2>1. Kept(ts, d, w)
    BY <1>1, <1>2, DisarmKeeps
  <2>2. OthersSame(ts, d, w) /\ Active(d) = Active(ts)
    BY <2>1 DEF Kept
  <2>3. /\ d.expire = ts.expire
        /\ d.period = ts.period
        /\ d.enabled[w] = (ts.enabled[w] /\ ts.period[w] # 0)
    BY <1>2, DisarmFields
  <2> QED
    BY <2>2, <2>3
<1>5. Wellformed(d) /\ Owned(d, w, resource_tag)
  BY <1>1, <1>2, DisarmOwned
<1> HIDE DEF d
<1>6. /\ OthersSame(d, ts', w)
      /\ \A x \in Slot \ {w} : x \in Active(ts') <=> x \in Active(d)
      /\ w \in Active(ts') /\ ts'.enabled[w] <=> d.enabled[w]
      /\ d.enabled[w] => ts'.expire[w] = Plus(d.expire[w], d.period[w])
  BY <1>1, <1>2, <1>4, <1>5, AfterFireSeen
<1>7. /\ OthersSame(ts, ts', w)
      /\ \A x \in Slot \ {w} : x \in Active(ts') <=> x \in Active(ts)
  BY <1>4, <1>6 DEF OthersSame
<1>8. /\ w \in Armed' <=> ts.enabled[w] /\ ts.period[w] # 0
      /\ w \in Armed <=> ts.enabled[w]
  BY <1>2, <1>4, <1>6 DEF Armed
<1>9. CASE ts.enabled[w]
  <2>1. \/ w \notin Armed'
        \/ Left'[w] = Plus(ts.expire[w], ts.period[w]) /\ ts.period[w] # 0
    <3>1. CASE w \in Armed'
      <4>1. ~Firing(w)'
        BY <1>1 DEF Firing
      <4>2. Left'[w] = ts'.expire[w]
        BY <3>1, <4>1, <1>2 DEF Left
      <4> QED
        BY <3>1, <4>2, <1>4, <1>6, <1>8
    <3> QED
      BY <3>1
  <2>2. Agenda!Fire(w)
    BY <2>1, <1>0, <1>1, <1>2, <1>7, <1>9, FireMaps
  <2> QED
    BY <2>2, <1>2 DEF AgendaStep, Agenda!Next
<1>10. CASE ~ts.enabled[w]
  <2>1. \A x \in Slot : ~Firing(x) /\ ~Firing(x)'
    BY <1>1 DEF Firing
  <2>2. UNCHANGED <<Armed, Left>>
    BY <2>1, <1>2, <1>7, <1>8, <1>10, AllUnseen
  <2> QED
    BY <2>2, <1>1 DEF AgendaStep, Agenda!vars
<1> QED
  BY <1>9, <1>10

\* What a callback leaves behind was settled when it was called.
LEMMA CallbackReturnMaps ==
  ASSUME IInv, IInv', CallbackReturn
  PROVE  AgendaStep
<1>0. PICK w \in Slot : w = callback_timer
  BY PoolFacts DEF CallbackReturn, IInv, Wellformed
<1>1. /\ Wellformed(ts) /\ w \in Active(ts) /\ Owned(ts, w, resource_tag)
      /\ resource_tag \in Nat
      /\ phase = "callback" /\ phase' = "fire" /\ callback_timer' = NoTimer
      /\ ts' = IF modified THEN ts ELSE AfterFire(ts, w)
  BY <1>0 DEF CallbackReturn, IInv, TypeOK, Scope
<1>2. w # NoTimer
  BY DEF NoTimer, Slot
<1>3. /\ \A x \in Slot : ~Firing(x)'
      /\ \A x \in Slot \ {w} : ~Firing(x)
      /\ Firing(w) <=> ~modified
  BY <1>0, <1>1 DEF Firing
<1>4. UNCHANGED <<Armed, Left>>
  <2>1. CASE modified
    <3>1. \A x \in Slot : ~Firing(x)
      BY <2>1, <1>3
    <3>2. ts' = ts
      BY <2>1, <1>1
    <3> QED
      BY <3>1, <3>2, <1>3 DEF Armed, Left
  <2>2. CASE ~modified
    <3>1. ts' = AfterFire(ts, w)
      BY <2>2, <1>1
    <3> DEFINE q == AfterFire(ts, w)
    <3>2. /\ OthersSame(ts, q, w)
          /\ \A x \in Slot \ {w} : x \in Active(q) <=> x \in Active(ts)
          /\ w \in Active(q) /\ q.enabled[w] <=> ts.enabled[w]
          /\ ts.enabled[w] =>
               q.expire[w] = Plus(ts.expire[w], ts.period[w])
      BY <1>1, AfterFireSeen
    <3>3. ts' = q
      BY <3>1
    <3> HIDE DEF q
    <3>4. w \in Armed' <=> w \in Armed
      BY <3>2, <3>3, <1>1 DEF Armed
    <3>5. w \in Armed => Left'[w] = Left[w]
      BY <3>2, <3>3, <3>4, <2>2, <1>2, <1>3 DEF Left, Armed
    <3> QED
      BY <3>2, <3>3, <3>4, <3>5, <1>2, <1>3, AllUnseen
  <2> QED
    BY <2>1, <2>2
<1>5. Agenda!Return
  BY <1>0, <1>1, <1>2, <1>4 DEF Agenda!Return
<1> QED
  BY <1>5 DEF AgendaStep, Agenda!Next

LEMMA InitMaps == Init => Agenda!Init
<1> SUFFICES ASSUME Init PROVE Agenda!Init
  OBVIOUS
<1>1. Armed = {}
  BY EmptyPoolFacts DEF Init, Armed
<1>2. Left = [x \in Slot |-> 0]
  BY <1>1 DEF Left
<1> QED
  BY <1>1, <1>2 DEF Init, Agenda!Init

\* For every pool size and every set of times, the timer system keeps the
\* agenda that TimerAgenda specifies.
THEOREM ImplementsAgenda == Spec => KeepsAgenda
<1>1. ASSUME IInv, IInv', [Next]_vars PROVE [Agenda!Next]_(Agenda!vars)
  <2>1. CASE Client
    BY <2>1, <1>1, ClientMaps DEF AgendaStep
  <2>2. CASE Tracking
    BY <2>2, <1>1, TrackingMaps DEF AgendaStep
  <2>3. CASE Elapse
    BY <2>3, <1>1, AdvanceMaps, FireStepMaps, CallbackReturnMaps,
       FireSilentlyMaps, FireDoneMaps DEF Elapse, AgendaStep
  <2>4. CASE UNCHANGED vars
    BY <2>4, <1>1, StillMaps DEF vars, AgendaStep
  <2> QED
    BY <2>1, <2>2, <2>3, <2>4, <1>1 DEF Next
<1>2. IInv /\ IInv' /\ [Next]_vars => [Agenda!Next]_(Agenda!vars)
  BY <1>1
<1>3. KeepsAgenda <=> Agenda!Init /\ [][Agenda!Next]_(Agenda!vars)
  BY DEF KeepsAgenda, Agenda!Spec
<1> QED
  BY <1>2, <1>3, InitMaps, Invariance, PTL DEF Spec
=============================================================================
