--------------------------- MODULE SequenceFacts ---------------------------
(***************************************************************************)
(* Facts about the operators on sequences the models use, for sequences    *)
(* over any set, and the least element of a set of natural numbers.        *)
(***************************************************************************)
EXTENDS Integers, SequencesExt, SequenceTheorems, FiniteSetTheorems,
        WellFoundedInduction, TLAPS

\* A non-empty set of natural numbers has a least element.
LEMMA NatMin ==
  ASSUME NEW T, T \subseteq Nat, T # {}
  PROVE  \E x \in T : \A y \in T : x <= y
<1> DEFINE R == {r \in Nat \X Nat : r[1] < r[2]}
<1>1. IsWellFoundedOn(R, Nat)
  BY NatLessThanWellFounded, Zenon DEF OpToRel
<1>2. PICK x \in T : \A y \in T : ~(<<y, x>> \in R)
  <2> HIDE DEF R
  <2> QED
    BY <1>1, WFMin
<1>3. ASSUME NEW y \in T
      PROVE  x <= y
  <2>1. ~(y < x)
    BY <1>2
  <2> QED
    BY <2>1
<1> QED
  BY <1>3

\* A function on 1 .. n is a sequence of n elements.
LEMMA FunctionIsSeq ==
  ASSUME NEW S, NEW n \in Nat, NEW f \in [1 .. n -> S]
  PROVE  f \in Seq(S) /\ Len(f) = n
<1>1. f \in Seq(S)
  BY SeqDef
<1>2. Len(f) \in Nat /\ 1 .. Len(f) = 1 .. n
  BY <1>1, LenProperties
<1>3. Len(f) = n
  <2>1. ~(Len(f) < n)
    <3>1. n \in 1 .. n \/ n = 0
      OBVIOUS
    <3>2. QED BY <3>1, <1>2
  <2>2. ~(n < Len(f))
    <3>1. Len(f) \in 1 .. Len(f) \/ Len(f) = 0
      BY <1>2
    <3>2. QED BY <3>1, <1>2
  <2>3. QED BY <2>1, <2>2, <1>2
<1>4. QED BY <1>1, <1>3

\* What InsertAt returns: the element at its place, the rest around it.
LEMMA InsertAtFacts ==
  ASSUME NEW S, NEW s \in Seq(S), NEW i \in 1 .. Len(s) + 1, NEW e \in S
  PROVE  /\ InsertAt(s, i, e) \in Seq(S)
         /\ Len(InsertAt(s, i, e)) = Len(s) + 1
         /\ InsertAt(s, i, e)[i] = e
         /\ \A j \in 1 .. Len(s) + 1 :
              /\ j < i => InsertAt(s, i, e)[j] = s[j]
              /\ j > i => InsertAt(s, i, e)[j] = s[j - 1]
<1> DEFINE a == SubSeq(s, 1, i - 1)
           b == <<e>>
           c == SubSeq(s, i, Len(s))
<1>1. /\ Len(s) \in Nat
      /\ \A j \in 1 .. Len(s) : s[j] \in S
  BY LenProperties, ElementOfSeq
<1>2. /\ a \in Seq(S) /\ Len(a) = i - 1
      /\ \A j \in 1 .. i - 1 : a[j] = s[j]
  BY <1>1, SubSeqProperties
<1>3. /\ c \in Seq(S) /\ Len(c) = Len(s) - i + 1
      /\ \A j \in 1 .. Len(s) - i + 1 : c[j] = s[i + j - 1]
  BY <1>1, SubSeqProperties
<1>4. b \in Seq(S) /\ Len(b) = 1 /\ b[1] = e
  OBVIOUS
<1> HIDE DEF a, b, c
<1>4a. /\ a \o b \in Seq(S) /\ Len(a \o b) = Len(a) + Len(b)
       /\ \A j \in 1 .. Len(a) + Len(b) :
            (a \o b)[j] = IF j <= Len(a) THEN a[j] ELSE b[j - Len(a)]
  BY <1>2, <1>4, ConcatProperties
<1>5. /\ a \o b \in Seq(S) /\ Len(a \o b) = i
      /\ \A j \in 1 .. i : (a \o b)[j] = IF j < i THEN s[j] ELSE e
  BY <1>1, <1>2, <1>4, <1>4a
<1> DEFINE d == a \o b
<1>4b. d \in Seq(S)
  BY <1>5 DEF d
<1>4c. Len(d) = i /\ \A j \in 1 .. i : d[j] = IF j < i THEN s[j] ELSE e
  BY <1>5 DEF d
<1> HIDE DEF d
<1>5a. /\ d \o c \in Seq(S)
       /\ Len(d \o c) = Len(d) + Len(c)
       /\ \A j \in 1 .. Len(d) + Len(c) :
            (d \o c)[j] = IF j <= Len(d) THEN d[j]
                                 ELSE c[j - Len(d)]
  BY <1>3, <1>4b, ConcatProperties
<1>6. /\ d \o c \in Seq(S)
      /\ Len(d \o c) = Len(s) + 1
      /\ (d \o c)[i] = e
      /\ \A j \in 1 .. Len(s) + 1 :
           /\ j < i => (d \o c)[j] = s[j]
           /\ j > i => (d \o c)[j] = s[j - 1]
  <2>1. Len(d) + Len(c) = Len(s) + 1
    BY <1>1, <1>3, <1>4c
  <2>2. ASSUME NEW j \in 1 .. Len(s) + 1, j <= i
        PROVE  (d \o c)[j] = IF j < i THEN s[j] ELSE e
    BY <2>1, <2>2, <1>1, <1>4c, <1>5a
  <2>3. ASSUME NEW j \in 1 .. Len(s) + 1, ~(j <= i)
        PROVE  (d \o c)[j] = s[j - 1]
    <3>1. (d \o c)[j] = c[j - i]
      BY <2>1, <2>3, <1>1, <1>4c, <1>5a
    <3>2. j - i \in 1 .. Len(s) - i + 1 /\ i + (j - i) - 1 = j - 1
      BY <2>3, <1>1
    <3> QED
      BY <3>1, <3>2, <1>3
  <2> QED
    BY <2>1, <2>2, <2>3, <1>5a
<1>7. InsertAt(s, i, e) = d \o c
  BY DEF InsertAt, a, b, c, d
<1> QED
  BY <1>6, <1>7

\* What RemoveAt returns: the sequence with one place closed up.
LEMMA RemoveAtFacts ==
  ASSUME NEW S, NEW s \in Seq(S), NEW i \in 1 .. Len(s)
  PROVE  /\ RemoveAt(s, i) \in Seq(S)
         /\ Len(RemoveAt(s, i)) = Len(s) - 1
         /\ \A j \in 1 .. Len(s) - 1 :
              /\ j < i => RemoveAt(s, i)[j] = s[j]
              /\ j >= i => RemoveAt(s, i)[j] = s[j + 1]
<1> DEFINE a == SubSeq(s, 1, i - 1)
           c == SubSeq(s, i + 1, Len(s))
<1>1. /\ Len(s) \in Nat
      /\ \A j \in 1 .. Len(s) : s[j] \in S
  BY LenProperties, ElementOfSeq
<1>2. /\ a \in Seq(S) /\ Len(a) = i - 1
      /\ \A j \in 1 .. i - 1 : a[j] = s[j]
  BY <1>1, SubSeqProperties
<1>3. /\ c \in Seq(S) /\ Len(c) = Len(s) - i
      /\ \A j \in 1 .. Len(s) - i : c[j] = s[i + j]
  BY <1>1, SubSeqProperties
<1> HIDE DEF a, c
<1>3a. /\ a \o c \in Seq(S) /\ Len(a \o c) = Len(a) + Len(c)
       /\ \A j \in 1 .. Len(a) + Len(c) :
            (a \o c)[j] = IF j <= Len(a) THEN a[j] ELSE c[j - Len(a)]
  BY <1>2, <1>3, ConcatProperties
<1>4. /\ a \o c \in Seq(S) /\ Len(a \o c) = Len(s) - 1
      /\ \A j \in 1 .. Len(s) - 1 :
           /\ j < i => (a \o c)[j] = s[j]
           /\ j >= i => (a \o c)[j] = s[j + 1]
  <2>1. Len(a) + Len(c) = Len(s) - 1
    BY <1>1, <1>2, <1>3
  <2>2. ASSUME NEW j \in 1 .. Len(s) - 1, j < i
        PROVE  (a \o c)[j] = s[j]
    BY <2>1, <2>2, <1>1, <1>2, <1>3a
  <2>3. ASSUME NEW j \in 1 .. Len(s) - 1, ~(j < i)
        PROVE  (a \o c)[j] = s[j + 1]
    <3>1. (a \o c)[j] = c[j - (i - 1)]
      BY <2>1, <2>3, <1>1, <1>2, <1>3a
    <3>2. j - (i - 1) \in 1 .. Len(s) - i /\ i + (j - (i - 1)) = j + 1
      BY <2>3, <1>1
    <3> QED
      BY <3>1, <3>2, <1>3
  <2> QED
    BY <2>1, <2>2, <2>3, <1>3a
<1>5. RemoveAt(s, i) = a \o c
  BY DEF RemoveAt, a, c
<1> QED
  BY <1>4, <1>5

-----------------------------------------------------------------------------
(***************************************************************************)
(* Sequences in which nothing occurs twice.                                *)
(***************************************************************************)

\* Appending what does not occur yet.
LEMMA AppendNew ==
  ASSUME NEW S, NEW s \in Seq(S), NEW e \in S, IsInjective(s), e \notin Range(s)
  PROVE  /\ Append(s, e) \in Seq(S)
         /\ IsInjective(Append(s, e))
         /\ Range(Append(s, e)) = Range(s) \cup {e}
<1> DEFINE t == Append(s, e)
<1>1. /\ t \in Seq(S)
      /\ DOMAIN s = 1 .. Len(s) /\ Len(s) \in Nat
      /\ DOMAIN t = 1 .. Len(s) + 1
      /\ \A i \in 1 .. Len(s) : t[i] = s[i]
      /\ t[Len(s) + 1] = e
  BY AppendProperties, LenProperties
<1> HIDE DEF t
<1>2. \A i \in DOMAIN t : i = Len(s) + 1 \/ i \in DOMAIN s
  BY <1>1
<1>3. IsInjective(t)
  BY <1>1, <1>2 DEF IsInjective, Range
<1>4. Range(t) = Range(s) \cup {e}
  BY <1>1, <1>2 DEF Range
<1>5. QED BY <1>1, <1>3, <1>4 DEF t

\* Removing the only occurrence of an element.
LEMMA RemoveOnly ==
  ASSUME NEW S, NEW s \in Seq(S), NEW i \in DOMAIN s, IsInjective(s)
  PROVE  /\ RemoveAt(s, i) \in Seq(S)
         /\ IsInjective(RemoveAt(s, i))
         /\ Range(RemoveAt(s, i)) = Range(s) \ {s[i]}
<1> DEFINE t == RemoveAt(s, i)
<1>1. DOMAIN s = 1 .. Len(s) /\ Len(s) \in Nat
  BY LenProperties
<1>2. /\ t \in Seq(S)
      /\ Len(t) = Len(s) - 1
      /\ \A j \in 1 .. Len(s) - 1 : t[j] = IF j < i THEN s[j] ELSE s[j + 1]
  <2>1. i \in 1 .. Len(s)
    BY <1>1
  <2>2. /\ t \in Seq(S)
        /\ Len(t) = Len(s) - 1
        /\ \A j \in 1 .. Len(s) - 1 :
             /\ j < i => t[j] = s[j]
             /\ j >= i => t[j] = s[j + 1]
    BY <2>1, RemoveAtFacts
  <2> HIDE DEF t
  <2>3. QED BY <2>2, <1>1
<1>3. DOMAIN t = 1 .. Len(s) - 1
  BY <1>2, LenProperties
<1> HIDE DEF t
<1>4. IsInjective(t)
  <2> DEFINE from(j) == IF j < i THEN j ELSE j + 1
  <2>1. ASSUME NEW j \in DOMAIN t
        PROVE  from(j) \in DOMAIN s /\ t[j] = s[from(j)]
    BY <1>1, <1>2, <1>3
  <2>2. ASSUME NEW j \in DOMAIN t, NEW k \in DOMAIN t, from(j) = from(k)
        PROVE  j = k
    BY <2>2, <1>1, <1>3
  <2> HIDE DEF from
  <2>3. QED BY <2>1, <2>2 DEF IsInjective
<1>5. ASSUME NEW j \in DOMAIN t
      PROVE  t[j] \in Range(s) /\ t[j] # s[i]
  BY <1>1, <1>2, <1>3 DEF IsInjective, Range
<1>6. ASSUME NEW j \in DOMAIN s, s[j] # s[i]
      PROVE  s[j] \in Range(t)
  <2>1. CASE j < i
    BY <2>1, <1>1, <1>2, <1>3 DEF Range
  <2>2. CASE j > i
    <3>1. j - 1 \in DOMAIN t /\ t[j - 1] = s[j]
      BY <2>2, <1>1, <1>2, <1>3
    <3>2. QED BY <3>1 DEF Range
  <2>3. QED BY <2>1, <2>2, <1>1, <1>6
<1>7. Range(t) = Range(s) \ {s[i]}
  BY <1>5, <1>6 DEF Range
<1>8. QED BY <1>2, <1>4, <1>7 DEF t

\* How often an element occurs.
LEMMA OccursOnce ==
  ASSUME NEW S, NEW s \in Seq(S), NEW e, IsInjective(s)
  PROVE  Cardinality({i \in DOMAIN s : s[i] = e}) = IF e \in Range(s) THEN 1 ELSE 0
<1>1. CASE e \in Range(s)
  <2>1. PICK k \in DOMAIN s : s[k] = e
    BY <1>1 DEF Range
  <2>2. {i \in DOMAIN s : s[i] = e} = {k}
    BY <2>1 DEF IsInjective
  <2>3. QED BY <1>1, <2>2, FS_Singleton
<1>2. CASE e \notin Range(s)
  <2>1. {i \in DOMAIN s : s[i] = e} = {}
    BY <1>2 DEF Range
  <2>2. QED BY <1>2, <2>1, FS_EmptySet
<1>3. QED BY <1>1, <1>2

-----------------------------------------------------------------------------
(***************************************************************************)
(* Two sequences kept as one: what is done to the second, seen in both.    *)
(***************************************************************************)

\* What occurs in both.
LEMMA RangeConcat ==
  ASSUME NEW S, NEW a \in Seq(S), NEW b \in Seq(S)
  PROVE  Range(a \o b) = Range(a) \cup Range(b)
<1> DEFINE c == a \o b
<1>1. /\ Len(a) \in Nat /\ Len(b) \in Nat
      /\ DOMAIN a = 1 .. Len(a) /\ DOMAIN b = 1 .. Len(b)
  BY LenProperties
<1>2. /\ DOMAIN c = 1 .. Len(a) + Len(b)
      /\ \A j \in 1 .. Len(a) + Len(b) :
           c[j] = IF j <= Len(a) THEN a[j] ELSE b[j - Len(a)]
  BY ConcatProperties, LenProperties
<1> HIDE DEF c
<1>3. ASSUME NEW j \in DOMAIN c
      PROVE  c[j] \in Range(a) \cup Range(b)
  <2>1. j \in DOMAIN a \/ (~(j <= Len(a)) /\ j - Len(a) \in DOMAIN b)
    BY <1>1, <1>2
  <2>2. QED BY <2>1, <1>1, <1>2 DEF Range
<1>4. ASSUME NEW j \in DOMAIN a
      PROVE  j \in DOMAIN c /\ c[j] = a[j]
  BY <1>1, <1>2
<1>5. ASSUME NEW j \in DOMAIN b
      PROVE  Len(a) + j \in DOMAIN c /\ c[Len(a) + j] = b[j]
  <2>1. /\ Len(a) + j \in 1 .. Len(a) + Len(b) /\ ~(Len(a) + j <= Len(a))
        /\ (Len(a) + j) - Len(a) = j
    BY <1>1
  <2>2. QED BY <2>1, <1>2
<1>6. Range(c) = Range(a) \cup Range(b)
  BY <1>3, <1>4, <1>5 DEF Range
<1>7. QED BY <1>6 DEF c

\* Appending to the second.
LEMMA ConcatAppend ==
  ASSUME NEW S, NEW a \in Seq(S), NEW b \in Seq(S), NEW e \in S
  PROVE  a \o Append(b, e) = Append(a \o b, e)
<1>1. <<e>> \in Seq(S) /\ a \o b \in Seq(S)
  BY ConcatProperties
<1>2. a \o Append(b, e) = a \o (b \o <<e>>)
  BY AppendIsConcat
<1>3. Append(a \o b, e) = (a \o b) \o <<e>>
  BY <1>1, AppendIsConcat
<1>4. QED BY <1>1, <1>2, <1>3, ConcatAssociative

\* Removing from the second.
LEMMA ConcatRemove ==
  ASSUME NEW S, NEW a \in Seq(S), NEW b \in Seq(S), NEW i \in DOMAIN b
  PROVE  /\ Len(a) + i \in DOMAIN (a \o b)
         /\ (a \o b)[Len(a) + i] = b[i]
         /\ RemoveAt(a \o b, Len(a) + i) = a \o RemoveAt(b, i)
<1> DEFINE c == a \o b
           r == RemoveAt(b, i)
           k == Len(a) + i
<1>1. /\ Len(a) \in Nat /\ Len(b) \in Nat
      /\ i \in 1 .. Len(b)
  BY LenProperties
<1>2. /\ c \in Seq(S) /\ Len(c) = Len(a) + Len(b)
      /\ \A j \in 1 .. Len(a) + Len(b) :
           c[j] = IF j <= Len(a) THEN a[j] ELSE b[j - Len(a)]
  BY ConcatProperties
<1>3. /\ r \in Seq(S) /\ Len(r) = Len(b) - 1
      /\ \A j \in 1 .. Len(b) - 1 : r[j] = IF j < i THEN b[j] ELSE b[j + 1]
  <2>1. /\ r \in Seq(S) /\ Len(r) = Len(b) - 1
        /\ \A j \in 1 .. Len(b) - 1 : /\ j < i => r[j] = b[j]
                                      /\ j >= i => r[j] = b[j + 1]
    BY <1>1, RemoveAtFacts
  <2> HIDE DEF r
  <2>2. QED BY <2>1, <1>1
<1>4. /\ a \o r \in Seq(S) /\ Len(a \o r) = Len(a) + Len(r)
      /\ \A j \in 1 .. Len(a) + Len(r) :
           (a \o r)[j] = IF j <= Len(a) THEN a[j] ELSE r[j - Len(a)]
  BY <1>3, ConcatProperties
<1>5. k \in 1 .. Len(c)
  BY <1>1, <1>2
<1> DEFINE u == a \o r
           v == RemoveAt(c, k)
<1>6. /\ v \in Seq(S) /\ Len(v) = Len(c) - 1
      /\ \A j \in 1 .. Len(c) - 1 : /\ j < k => v[j] = c[j]
                                    /\ j >= k => v[j] = c[j + 1]
  BY <1>2, <1>5, RemoveAtFacts
<1>7. /\ u \in Seq(S) /\ Len(u) = Len(a) + Len(b) - 1
      /\ \A j \in 1 .. Len(a) + Len(b) - 1 :
           u[j] = IF j <= Len(a) THEN a[j] ELSE r[j - Len(a)]
  BY <1>1, <1>3, <1>4
<1> HIDE DEF c, r, u, v
<1>8. /\ v \in Seq(S) /\ Len(v) = Len(a) + Len(b) - 1
      /\ \A j \in 1 .. Len(a) + Len(b) - 1 :
           v[j] = IF j < k THEN c[j] ELSE c[j + 1]
  BY <1>1, <1>2, <1>6
<1>9. c[k] = b[i] /\ k \in DOMAIN c
  <2>1. ~(k <= Len(a)) /\ k - Len(a) = i /\ k \in 1 .. Len(a) + Len(b)
    BY <1>1
  <2>2. QED BY <2>1, <1>2, LenProperties
<1>10. ASSUME NEW j \in 1 .. Len(a) + Len(b) - 1
       PROVE  u[j] = v[j]
  <2>1. CASE j <= Len(a)
    <3>1. j < k /\ j \in 1 .. Len(a) + Len(b)
      BY <2>1, <1>1
    <3>2. v[j] = a[j]
      BY <2>1, <3>1, <1>2, <1>8
    <3>3. QED BY <2>1, <3>2, <1>7
  <2>2. CASE j > Len(a) /\ j < k
    <3>1. j - Len(a) \in 1 .. Len(b) - 1 /\ j - Len(a) < i
      BY <2>2, <1>1
    <3>2. u[j] = b[j - Len(a)]
      BY <3>1, <2>2, <1>1, <1>3, <1>7
    <3>3. v[j] = b[j - Len(a)]
      BY <2>2, <1>1, <1>2, <1>8
    <3>4. QED BY <3>2, <3>3
  <2>3. CASE j >= k
    <3>1. j - Len(a) \in 1 .. Len(b) - 1 /\ ~(j - Len(a) < i)
      BY <2>3, <1>1
    <3>2. u[j] = b[(j - Len(a)) + 1]
      BY <3>1, <2>3, <1>1, <1>3, <1>7
    <3>3. v[j] = b[(j + 1) - Len(a)]
      BY <2>3, <1>1, <1>2, <1>8
    <3>4. (j - Len(a)) + 1 = (j + 1) - Len(a)
      BY <1>1
    <3>5. QED BY <3>2, <3>3, <3>4
  <2>4. QED BY <2>1, <2>2, <2>3, <1>1
<1>11. u = v
  BY <1>7, <1>8, <1>10, SeqEqual
<1>12. QED BY <1>9, <1>11 DEF c, r, u, v

\* Dropping the first: the second is left.
LEMMA ConcatDrop ==
  ASSUME NEW S, NEW a \in Seq(S), NEW b \in Seq(S)
  PROVE  SubSeq(a \o b, Len(a) + 1, Len(a \o b)) = b
<1> DEFINE c == a \o b
           d == SubSeq(c, Len(a) + 1, Len(c))
<1>1. Len(a) \in Nat /\ Len(b) \in Nat
  BY LenProperties
<1>2. /\ c \in Seq(S) /\ Len(c) = Len(a) + Len(b)
      /\ \A j \in 1 .. Len(a) + Len(b) :
           c[j] = IF j <= Len(a) THEN a[j] ELSE b[j - Len(a)]
  BY ConcatProperties
<1>3. \A j \in Len(a) + 1 .. Len(c) : c[j] \in S
  BY <1>1, <1>2, ElementOfSeq
<1>4. /\ d \in Seq(S)
      /\ Len(d) = IF Len(a) + 1 <= Len(c) THEN Len(c) - (Len(a) + 1) + 1 ELSE 0
      /\ \A j \in 1 .. Len(c) - (Len(a) + 1) + 1 : d[j] = c[Len(a) + 1 + j - 1]
  BY <1>1, <1>2, <1>3, SubSeqProperties
<1> HIDE DEF c, d
<1>5. Len(d) = Len(b)
  BY <1>1, <1>2, <1>4
<1>6. ASSUME NEW j \in 1 .. Len(b)
      PROVE  d[j] = b[j]
  <2>1. j \in 1 .. Len(c) - (Len(a) + 1) + 1 /\ Len(a) + 1 + j - 1 = Len(a) + j
    BY <1>1, <1>2
  <2>2. c[Len(a) + j] = b[(Len(a) + j) - Len(a)]
    <3>1. Len(a) + j \in 1 .. Len(a) + Len(b) /\ ~(Len(a) + j <= Len(a))
      BY <1>1
    <3>2. QED BY <3>1, <1>2
  <2>3. (Len(a) + j) - Len(a) = j
    BY <1>1
  <2>4. QED BY <2>1, <2>2, <2>3, <1>4
<1>7. d = b
  BY <1>4, <1>5, <1>6, SeqEqual
<1>8. QED BY <1>7 DEF c, d

=============================================================================
