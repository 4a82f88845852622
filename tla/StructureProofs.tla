--------------------------- MODULE StructureProofs ---------------------------
(* Proofs about FlatMap and DualMap, for any keys, values and lengths.  What   *)
(* the containers' recursive functions compute is proved from the least place  *)
(* where it would fail.                                                        *)
EXTENDS MCStructures, FiniteSetTheorems, SequenceTheorems, WellFoundedInduction,
        NaturalsInduction, TLAPS

(***************************************************************************)
(* Numbers and sequences                                                   *)
(***************************************************************************)

\* Every set of natural numbers has a least element.
LEMMA LeastElement ==
  ASSUME NEW S \in SUBSET Nat, S # {}
  PROVE  \E m \in S : \A n \in S : m <= n
<1> DEFINE R == OpToRel(<, Nat)
<1>1. IsWellFoundedOn(R, Nat)
  BY NatLessThanWellFounded
<1>2. \A x, y \in Nat : x < y => <<x, y>> \in R
  BY DEF OpToRel
<1> HIDE DEF R
<1>3. \E x \in S : \A y \in S : ~ (<<y, x>> \in R)
  BY <1>1, WFMin, Zenon
<1>4. PICK m \in S : \A n \in S : ~ (<<n, m>> \in R)
  BY <1>3
<1>5. \A n \in S : ~ (n < m)
  BY <1>2, <1>4, Zenon
<1> QED BY <1>5

\* Induction, for the set of the numbers that have a property.
LEMMA NatSets ==
  ASSUME NEW S, 0 \in S, \A n \in Nat : n \in S => n + 1 \in S
  PROVE  Nat \subseteq S
<1> DEFINE T == Nat \ S
<1> SUFFICES ASSUME T # {} PROVE FALSE
  OBVIOUS
<1>1. PICK m \in T : \A n \in T : m <= n
  BY LeastElement
<1>2. m # 0 /\ m - 1 \in Nat /\ m - 1 \notin T
  BY <1>1
<1> QED BY <1>1, <1>2

\* A set of places that has all the smaller ones with each is the places up to its size.
LEMMA FirstPlaces ==
  ASSUME NEW n \in Nat, NEW D, D \subseteq 1 .. n, \A i \in D : \A j \in 1 .. n : j < i => j \in D
  PROVE  Cardinality(D) \in 0 .. n /\ D = 1 .. Cardinality(D)
<1> DEFINE C == {i \in 1 .. n + 1 : i \notin D}
<1>1. n + 1 \in C /\ C \subseteq Nat
  OBVIOUS
<1>2. PICK m \in C : \A i \in C : m <= i
  BY <1>1, LeastElement
<1>3. m \in 1 .. n + 1 /\ m \notin D
  BY <1>2
<1>4. ASSUME NEW i \in D PROVE i \in 1 .. m - 1
  <2>1. ~(m < i) /\ m # i /\ i \in 1 .. n
    BY <1>3
  <2> QED BY <1>3, <2>1
<1>5. ASSUME NEW i \in 1 .. m - 1 PROVE i \in D
  <2>1. i \in 1 .. n + 1 /\ ~(m <= i)
    BY <1>3
  <2> QED BY <1>2, <2>1
<1>6. D = 1 .. m - 1
  BY <1>4, <1>5
<1>7. Cardinality(1 .. m - 1) = m - 1
  BY <1>3, FS_Interval
<1> QED BY <1>3, <1>6, <1>7

\* t is s with e at k.
OneLonger(t, s, k, e) ==
  /\ Len(t) = Len(s) + 1
  /\ \A i \in 1 .. Len(s) + 1 : t[i] = IF i < k THEN s[i] ELSE IF i = k THEN e ELSE s[i - 1]

\* The elements of a sequence with one more.
LEMMA InsertedElement ==
  ASSUME NEW S, NEW s \in Seq(S), NEW k \in 1 .. Len(s) + 1, NEW e \in S
  PROVE  InsertAt(s, k, e) \in Seq(S) /\ OneLonger(InsertAt(s, k, e), s, k, e)
<1> DEFINE front == SubSeq(s, 1, k - 1)
           back  == SubSeq(s, k, Len(s))
           begin == front \o <<e>>
<1>1. Len(s) \in Nat /\ k \in Nat /\ k >= 1 /\ k <= Len(s) + 1 /\ \A i \in 1 .. Len(s) : s[i] \in S
  OBVIOUS
<1>2. /\ front \in Seq(S) /\ Len(front) = k - 1 /\ \A i \in 1 .. k - 1 : front[i] = s[i]
  <2>1. \A i \in 1 .. k - 1 : s[i] \in S
    BY <1>1
  <2>2. /\ front \in Seq(S) /\ Len(front) = IF 1 <= k - 1 THEN (k - 1) - 1 + 1 ELSE 0
        /\ \A i \in 1 .. (k - 1) - 1 + 1 : front[i] = s[1 + i - 1]
    BY <1>1, <2>1, SubSeqProperties
  <2>3. Len(front) = k - 1
    BY <1>1, <2>2
  <2>4. ASSUME NEW i \in 1 .. k - 1 PROVE front[i] = s[i]
    <3>1. i \in 1 .. (k - 1) - 1 + 1 /\ 1 + i - 1 = i
      BY <1>1
    <3> QED BY <2>2, <3>1
  <2> QED BY <2>2, <2>3, <2>4
<1>3. /\ back \in Seq(S) /\ Len(back) = Len(s) + 1 - k /\ \A i \in 1 .. Len(s) + 1 - k : back[i] = s[k + i - 1]
  <2>1. \A i \in k .. Len(s) : s[i] \in S
    BY <1>1
  <2>2. /\ back \in Seq(S) /\ Len(back) = IF k <= Len(s) THEN Len(s) - k + 1 ELSE 0
        /\ \A i \in 1 .. Len(s) - k + 1 : back[i] = s[k + i - 1]
    BY <1>1, <2>1, SubSeqProperties
  <2> QED BY <1>1, <2>2
<1>4. <<e>> \in Seq(S) /\ Len(<<e>>) = 1 /\ <<e>>[1] = e
  OBVIOUS
<1> HIDE DEF front, back
<1>5. /\ begin \in Seq(S) /\ Len(begin) = Len(front) + Len(<<e>>)
      /\ \A i \in 1 .. Len(front) + Len(<<e>>) : begin[i] = IF i <= Len(front) THEN front[i] ELSE <<e>>[i - Len(front)]
  BY <1>2, <1>4, ConcatProperties
<1>6. begin \in Seq(S) /\ Len(begin) = k /\ (\A i \in 1 .. k - 1 : begin[i] = s[i]) /\ begin[k] = e
  BY <1>1, <1>2, <1>4, <1>5
<1> HIDE DEF begin
<1>7. /\ begin \o back \in Seq(S) /\ Len(begin \o back) = Len(begin) + Len(back)
      /\ \A i \in 1 .. Len(begin) + Len(back) : (begin \o back)[i] = IF i <= Len(begin) THEN begin[i] ELSE back[i - Len(begin)]
  BY <1>3, <1>6, ConcatProperties
<1>8. Len(begin) + Len(back) = Len(s) + 1
  BY <1>1, <1>3, <1>6
<1>9. ASSUME NEW i \in 1 .. Len(s) + 1
      PROVE  (begin \o back)[i] = IF i < k THEN s[i] ELSE IF i = k THEN e ELSE s[i - 1]
  <2>1. CASE i <= k
    BY <1>1, <1>6, <1>7, <1>8, <2>1
  <2>2. CASE ~(i <= k)
    <3>1. i - k \in 1 .. Len(s) + 1 - k /\ k + (i - k) - 1 = i - 1
      BY <1>1, <2>2
    <3>2. (begin \o back)[i] = back[i - k]
      BY <1>6, <1>7, <1>8, <2>2
    <3> QED BY <1>1, <1>3, <2>2, <3>1, <3>2
  <2> QED BY <2>1, <2>2
<1>10. InsertAt(s, k, e) = begin \o back
  BY DEF InsertAt, begin, front, back
<1>11. OneLonger(begin \o back, s, k, e)
  BY <1>7, <1>8, <1>9 DEF OneLonger
<1> QED BY <1>7, <1>10, <1>11

\* A sequence without some that follow each other.
LEMMA WithoutRange ==
  ASSUME NEW S, NEW s \in Seq(S), NEW k \in 1 .. Len(s) + 1, NEW m \in k .. Len(s) + 1
  PROVE  LET t == SubSeq(s, 1, k - 1) \o SubSeq(s, m, Len(s))
         IN  /\ t \in Seq(S) /\ Len(t) = Len(s) - (m - k)
             /\ \A i \in 1 .. Len(s) - (m - k) : t[i] = IF i < k THEN s[i] ELSE s[i + (m - k)]
<1> DEFINE front == SubSeq(s, 1, k - 1)
           back  == SubSeq(s, m, Len(s))
           n == m - k
<1>1. Len(s) \in Nat /\ k \in Nat /\ k >= 1 /\ k <= Len(s) + 1 /\ (\A i \in 1 .. Len(s) : s[i] \in S) /\ n \in Nat /\ m = k + n /\ m <= Len(s) + 1
  OBVIOUS
<1>2. /\ front \in Seq(S) /\ Len(front) = k - 1 /\ \A i \in 1 .. k - 1 : front[i] = s[i]
  <2>1. \A i \in 1 .. k - 1 : s[i] \in S
    BY <1>1
  <2>2. /\ front \in Seq(S) /\ Len(front) = IF 1 <= k - 1 THEN (k - 1) - 1 + 1 ELSE 0
        /\ \A i \in 1 .. (k - 1) - 1 + 1 : front[i] = s[1 + i - 1]
    BY <1>1, <2>1, SubSeqProperties
  <2>3. Len(front) = k - 1
    BY <1>1, <2>2
  <2>4. ASSUME NEW i \in 1 .. k - 1 PROVE front[i] = s[i]
    <3>1. i \in 1 .. (k - 1) - 1 + 1 /\ 1 + i - 1 = i
      BY <1>1
    <3> QED BY <2>2, <3>1
  <2> QED BY <2>2, <2>3, <2>4
<1>3. /\ back \in Seq(S) /\ Len(back) = Len(s) + 1 - (k + n)
      /\ \A i \in 1 .. Len(s) + 1 - (k + n) : back[i] = s[k + n + i - 1]
  <2>1. \A i \in m .. Len(s) : s[i] \in S
    BY <1>1
  <2>2. /\ back \in Seq(S) /\ Len(back) = IF m <= Len(s) THEN Len(s) - m + 1 ELSE 0
        /\ \A i \in 1 .. Len(s) - m + 1 : back[i] = s[m + i - 1]
    BY <1>1, <2>1, SubSeqProperties
  <2> QED BY <1>1, <2>2
<1> HIDE DEF front, back, n
<1>4. /\ front \o back \in Seq(S) /\ Len(front \o back) = Len(front) + Len(back)
      /\ \A i \in 1 .. Len(front) + Len(back) : (front \o back)[i] = IF i <= Len(front) THEN front[i] ELSE back[i - Len(front)]
  BY <1>2, <1>3, ConcatProperties
<1>5. Len(front) + Len(back) = Len(s) - n
  BY <1>1, <1>2, <1>3
<1>6. ASSUME NEW i \in 1 .. Len(s) - n PROVE (front \o back)[i] = IF i < k THEN s[i] ELSE s[i + n]
  <2>1. CASE i < k
    BY <1>1, <1>2, <1>4, <1>5, <2>1
  <2>2. CASE ~(i < k)
    <3>1. i - (k - 1) \in 1 .. Len(s) + 1 - (k + n) /\ k + n + (i - (k - 1)) - 1 = i + n
      BY <1>1, <2>2
    <3>2. i \in 1 .. Len(front) + Len(back) /\ ~(i <= Len(front)) /\ Len(front) = k - 1
      BY <1>1, <1>2, <1>5, <2>2
    <3>3. (front \o back)[i] = back[i - (k - 1)]
      BY <1>4, <3>2
    <3> QED BY <1>3, <2>2, <3>1, <3>3
  <2> QED BY <2>1, <2>2
<1> QED BY <1>4, <1>5, <1>6 DEF front, back, n

\* A sequence without one of its elements.
LEMMA RemovedElement ==
  ASSUME NEW S, NEW s \in Seq(S), NEW k \in 1 .. Len(s)
  PROVE  /\ RemoveAt(s, k) \in Seq(S) /\ Len(RemoveAt(s, k)) = Len(s) - 1
         /\ \A i \in 1 .. Len(s) - 1 : RemoveAt(s, k)[i] = IF i < k THEN s[i] ELSE s[i + 1]
<1>1. k \in 1 .. Len(s) + 1 /\ k + 1 \in k .. Len(s) + 1 /\ (k + 1) - k = 1 /\ Len(s) \in Nat
  OBVIOUS
<1> DEFINE t == SubSeq(s, 1, k - 1) \o SubSeq(s, k + 1, Len(s))
<1>2. /\ t \in Seq(S) /\ Len(t) = Len(s) - ((k + 1) - k)
      /\ \A i \in 1 .. Len(s) - ((k + 1) - k) : t[i] = IF i < k THEN s[i] ELSE s[i + ((k + 1) - k)]
  BY <1>1, WithoutRange
<1>3. RemoveAt(s, k) = t
  BY DEF RemoveAt
<1> HIDE DEF t
<1> QED BY <1>1, <1>2, <1>3

(***************************************************************************)
(* Looking up keys                                                         *)
(***************************************************************************)

\* Keys in ascending order.
Ascending(keys) == \A i, j \in 1 .. Len(keys) : i < j => keys[i] <= keys[j]

\* Both binary searches end where the keys that are smaller, or not greater, end.
LEMMA BoundsDivide ==
  ASSUME NEW keys \in Seq(Int), Ascending(keys), NEW k \in Int
  PROVE  /\ LowerBound(keys, k) \in 1 .. Len(keys) + 1
         /\ UpperBound(keys, k) \in 1 .. Len(keys) + 1
         /\ LowerBound(keys, k) <= UpperBound(keys, k)
         /\ \A i \in 1 .. Len(keys) : /\ keys[i] < k <=> i < LowerBound(keys, k)
                                      /\ keys[i] <= k <=> i < UpperBound(keys, k)
<1> DEFINE n == Len(keys)
           Less == {i \in DOMAIN keys : keys[i] < k}
           Not == {i \in DOMAIN keys : keys[i] <= k}
<1>1. n \in Nat /\ DOMAIN keys = 1 .. n /\ \A i \in 1 .. n : keys[i] \in Int
  OBVIOUS
<1>2. /\ Less \subseteq 1 .. n /\ Not \subseteq 1 .. n
      /\ \A i \in Less : \A j \in 1 .. n : j < i => j \in Less
      /\ \A i \in Not : \A j \in 1 .. n : j < i => j \in Not
  BY <1>1 DEF Ascending
<1>3. \A i \in 1 .. n : /\ keys[i] < k <=> i \in Less
                        /\ keys[i] <= k <=> i \in Not
  BY <1>1
<1>4. \A i \in Less : i \in Not
  BY <1>1
<1> HIDE DEF Less, Not
<1>5. Cardinality(Less) \in 0 .. n /\ Less = 1 .. Cardinality(Less)
  BY <1>1, <1>2, FirstPlaces
<1>6. Cardinality(Not) \in 0 .. n /\ Not = 1 .. Cardinality(Not)
  BY <1>1, <1>2, FirstPlaces
<1>7. LowerBound(keys, k) = 1 + Cardinality(Less) /\ UpperBound(keys, k) = 1 + Cardinality(Not)
  BY DEF LowerBound, UpperBound, Less, Not
<1>8. \A i \in 1 .. n : /\ i \in Less <=> i < 1 + Cardinality(Less)
                        /\ i \in Not <=> i < 1 + Cardinality(Not)
  BY <1>1, <1>5, <1>6
<1>9. Cardinality(Less) <= Cardinality(Not)
  <2> SUFFICES ASSUME Cardinality(Less) > Cardinality(Not) PROVE FALSE
    BY <1>5, <1>6
  <2>1. Cardinality(Less) \in Less
    BY <1>5, <1>6
  <2>2. Cardinality(Less) \in Not
    BY <1>4, <2>1
  <2> QED BY <1>5, <1>6, <2>2
<1> QED BY <1>3, <1>5, <1>6, <1>7, <1>8, <1>9

\* What the other searches find, from the bounds: the places with the key are those between them.
LEMMA SearchesFind ==
  ASSUME NEW keys \in Seq(Int), Ascending(keys), NEW k \in Int,
         NEW lo, lo = LowerBound(keys, k), NEW up, up = UpperBound(keys, k)
  PROVE  /\ lo \in 1 .. Len(keys) + 1 /\ up \in 1 .. Len(keys) + 1 /\ lo <= up
         /\ {i \in DOMAIN keys : keys[i] = k} = lo .. up - 1
         /\ Found(keys, k) = IF lo < up THEN lo ELSE Len(keys) + 1
         /\ Found(keys, k) \in DOMAIN keys <=> lo < up
         /\ Present(keys, k) <=> lo < up
         /\ EqualRun(keys, k) = lo .. up - 1 /\ Cardinality(EqualRun(keys, k)) = up - lo
         /\ CountMulti(keys, k) = up - lo
         /\ EqualRange(keys, k)[1] = lo /\ EqualRange(keys, k)[2] = up
<1> DEFINE n == Len(keys)
<1>1. n \in Nat /\ DOMAIN keys = 1 .. n /\ \A i \in 1 .. n : keys[i] \in Int
  OBVIOUS
<1>2. /\ lo \in 1 .. n + 1 /\ up \in 1 .. n + 1 /\ lo <= up
      /\ \A i \in 1 .. n : (keys[i] < k <=> i < lo) /\ (keys[i] <= k <=> i < up)
  BY BoundsDivide
<1>3. \A i \in 1 .. n : keys[i] = k <=> lo <= i /\ i < up
  <2> TAKE i \in 1 .. n
  <2>1. keys[i] = k <=> ~(keys[i] < k) /\ keys[i] <= k
    BY <1>1
  <2> QED BY <1>1, <1>2, <2>1
<1>4. {i \in DOMAIN keys : keys[i] = k} = lo .. up - 1
  BY <1>1, <1>2, <1>3
<1>5. /\ Found(keys, k) = IF lo < up THEN lo ELSE n + 1
      /\ Found(keys, k) \in DOMAIN keys <=> lo < up
  <2>1. CASE lo < up
    <3>1. lo \in 1 .. n /\ keys[lo] = k
      BY <1>1, <1>2, <1>3, <2>1
    <3>2. Found(keys, k) = lo
      BY <1>1, <3>1 DEF Found
    <3> QED BY <1>1, <2>1, <3>1, <3>2
  <2>2. CASE ~(lo < up)
    <3>1. lo \in 1 .. n => k < keys[lo]
      BY <1>1, <1>2, <2>2
    <3>2. Found(keys, k) = n + 1
      BY <1>1, <3>1 DEF Found
    <3> QED BY <1>1, <2>2, <3>2
  <2> QED BY <2>1, <2>2
<1>6. Present(keys, k) <=> lo < up
  <2>1. Present(keys, k) <=> up - 1 \in 1 .. n /\ keys[up - 1] = k
    BY <1>1 DEF Present
  <2>2. up - 1 \in 1 .. n => (keys[up - 1] = k <=> lo <= up - 1 /\ up - 1 < up)
    BY <1>3
  <2> QED BY <1>1, <1>2, <2>1, <2>2
<1>7. EqualRun(keys, k) = lo .. up - 1
  <2>1. EqualRun(keys, k) = {i \in lo .. n : \A j \in lo .. i : ~ k < keys[j]}
    BY DEF EqualRun
  <2>2. ASSUME NEW i \in lo .. n PROVE (\A j \in lo .. i : ~ k < keys[j]) <=> i < up
    <3>1. \A j \in lo .. i : j \in 1 .. n /\ (k < keys[j] <=> ~(j < up))
      BY <1>1, <1>2
    <3>2. i \in lo .. i
      BY <1>2
    <3>3. (\A j \in lo .. i : ~ k < keys[j]) => i < up
      BY <3>1, <3>2
    <3>4. ASSUME i < up, NEW j \in lo .. i PROVE ~ k < keys[j]
      <4>1. j < up
        BY <1>2, <3>4
      <4> QED BY <3>1, <4>1
    <3> QED BY <3>3, <3>4
  <2> HIDE DEF n
  <2>3. \A i : i \in lo .. up - 1 <=> i \in lo .. n /\ i < up
    BY <1>1, <1>2
  <2> QED BY <2>1, <2>2, <2>3
<1>8. Cardinality(lo .. up - 1) = up - lo
  BY <1>2, FS_Interval
<1>9. /\ EqualRange(keys, k)[1] = lo /\ EqualRange(keys, k)[2] = up
      /\ CountMulti(keys, k) = up - lo
  BY DEF EqualRange, CountMulti
<1> QED BY <1>2, <1>4, <1>5, <1>6, <1>7, <1>8, <1>9

(***************************************************************************)
(* Places of a sequence and their ranks                                    *)
(***************************************************************************)

\* A function on the places up to L that starts with x and takes a step at each place.
Follows(g, x, L, G) == g[0] = x /\ \A n \in 1 .. L : g[n] = G[n][g[n - 1]]

\* Such a function exists.
LEMMA BoundedRecursion ==
  ASSUME NEW X, NEW x \in X, NEW L \in Nat, NEW G \in [1 .. L -> [X -> X]]
  PROVE  \E g \in [0 .. L -> X] : Follows(g, x, L, G)
<1> DEFINE Reached(n) == \E g \in [0 .. n -> X] : g[0] = x /\ \A m \in 1 .. n : g[m] = G[m][g[m - 1]]
           S == {n \in Nat : n <= L => Reached(n)}
<1>1. 0 \in S
  <2>1. [m \in 0 .. 0 |-> x] \in [0 .. 0 -> X] /\ [m \in 0 .. 0 |-> x][0] = x /\ 1 .. 0 = {}
    OBVIOUS
  <2>2. Reached(0)
    BY <2>1
  <2> QED BY <2>2
<1>2. ASSUME NEW n \in Nat, n \in S PROVE n + 1 \in S
  <2> SUFFICES ASSUME n + 1 <= L PROVE Reached(n + 1)
    OBVIOUS
  <2>1. PICK g \in [0 .. n -> X] : g[0] = x /\ \A m \in 1 .. n : g[m] = G[m][g[m - 1]]
    BY <1>2
  <2> DEFINE h == [m \in 0 .. n + 1 |-> IF m <= n THEN g[m] ELSE G[n + 1][g[n]]]
  <2>2. g[n] \in X /\ G[n + 1][g[n]] \in X
    BY <2>1
  <2>3. h \in [0 .. n + 1 -> X]
    BY <2>1, <2>2
  <2>4. h[0] = x
    BY <2>1
  <2>5. ASSUME NEW m \in 1 .. n + 1 PROVE h[m] = G[m][h[m - 1]]
    <3>1. CASE m <= n
      <4>1. m \in 1 .. n /\ m \in 0 .. n + 1 /\ m - 1 \in 0 .. n + 1 /\ m - 1 <= n
        BY <3>1
      <4>2. h[m] = g[m] /\ h[m - 1] = g[m - 1]
        BY <4>1, <3>1
      <4> QED BY <4>1, <4>2, <2>1
    <3>2. CASE ~(m <= n)
      <4>1. m = n + 1 /\ m - 1 = n
        BY <3>2
      <4>2. h[n + 1] = G[n + 1][g[n]] /\ h[n] = g[n]
        OBVIOUS
      <4> QED BY <4>1, <4>2
    <3> QED BY <3>1, <3>2
  <2> QED BY <2>3, <2>4, <2>5
<1> HIDE DEF S
<1>3. L \in S
  BY <1>1, <1>2, NatSets
<1> QED BY <1>3 DEF S, Follows

\* Counting to no more than there is, without taking a number twice, one takes them all.
LEMMA InjectiveIsOnto ==
  ASSUME NEW P, IsFiniteSet(P), NEW f \in [P -> 1 .. Cardinality(P)], \A i, j \in P : i # j => f[i] # f[j]
  PROVE  \A r \in 1 .. Cardinality(P) : \E i \in P : f[i] = r
<1>1. Cardinality(P) \in Nat
  BY FS_CardinalityType
<1>2. f \in Injection(P, 1 .. Cardinality(P))
  BY DEF Injection, IsInjective
<1>3. IsFiniteSet(1 .. Cardinality(P)) /\ Cardinality(1 .. Cardinality(P)) = Cardinality(P)
  BY <1>1, FS_Interval
<1>4. f \in Surjection(P, 1 .. Cardinality(P))
  BY <1>2, <1>3, FS_Injection
<1> QED BY <1>4 DEF Surjection

\* Places of a sequence with n elements.
Upto(P, n) == n \in Nat /\ P \subseteq 1 .. n

\* The rank of a place among some.
RankIn(P, i) == Cardinality({j \in P : j <= i})

LEMMA RankFacts ==
  ASSUME NEW n, NEW P, Upto(P, n)
  PROVE  /\ IsFiniteSet(P) /\ Cardinality(P) \in 0 .. n
         /\ \A i \in 0 .. n : RankIn(P, i) \in 0 .. Cardinality(P)
         /\ RankIn(P, 0) = 0 /\ RankIn(P, n) = Cardinality(P)
         /\ \A i \in 1 .. n : RankIn(P, i) = RankIn(P, i - 1) + (IF i \in P THEN 1 ELSE 0)
         /\ \A i \in 0 .. n : \A j \in P : i < j => RankIn(P, i) < RankIn(P, j)
         /\ \A i \in P : RankIn(P, i) \in 1 .. Cardinality(P)
         /\ \A r \in 1 .. Cardinality(P) : \E i \in P : RankIn(P, i) = r
<1> USE DEF Upto
<1> DEFINE To(i) == {j \in P : j <= i}
<1>1. IsFiniteSet(1 .. n) /\ Cardinality(1 .. n) = n
  BY FS_Interval
<1>2. IsFiniteSet(P) /\ Cardinality(P) \in Nat /\ Cardinality(P) <= n
  BY <1>1, FS_Subset, FS_CardinalityType
<1>3. \A i \in 0 .. n : IsFiniteSet(To(i)) /\ Cardinality(To(i)) \in Nat /\ Cardinality(To(i)) <= Cardinality(P)
  BY <1>2, FS_Subset, FS_CardinalityType
<1>4. \A i : RankIn(P, i) = Cardinality(To(i))
  BY DEF RankIn
<1>0. \A i \in P : i \in Nat /\ 1 <= i /\ i <= n
  OBVIOUS
<1>5. To(0) = {} /\ To(n) = P
  <2>1. \A j \in P : ~(j <= 0) /\ j <= n
    BY <1>0
  <2> QED BY <2>1
<1>6. ASSUME NEW i \in 1 .. n PROVE RankIn(P, i) = RankIn(P, i - 1) + (IF i \in P THEN 1 ELSE 0)
  <2>1. CASE i \in P
    <3>1. i - 1 \in 0 .. n /\ ~(i <= i - 1) /\ \A j \in P : j <= i <=> j <= i - 1 \/ j = i
      BY <1>0
    <3>2. To(i) = To(i - 1) \cup {i} /\ i \notin To(i - 1)
      BY <2>1, <3>1
    <3> HIDE DEF To
    <3> QED BY <1>3, <1>4, <2>1, <3>1, <3>2, FS_AddElement
  <2>2. CASE i \notin P
    <3>1. To(i) = To(i - 1)
      <4>1. \A j \in P : j \in 1 .. n /\ j # i
        BY <2>2
      <4>2. \A j \in P : j <= i <=> j <= i - 1
        BY <4>1
      <4> QED BY <4>2
    <3>2. Cardinality(To(i)) = Cardinality(To(i - 1)) /\ Cardinality(To(i - 1)) \in Nat
      <4>1. i - 1 \in 0 .. n
        OBVIOUS
      <4> HIDE DEF To
      <4> QED BY <1>3, <3>1, <4>1
    <3> HIDE DEF To
    <3> QED BY <1>4, <2>2, <3>2
  <2> QED BY <2>1, <2>2
<1>7. ASSUME NEW i \in 0 .. n, NEW j \in P, i < j PROVE RankIn(P, i) < RankIn(P, j)
  <2>1. j \in 0 .. n /\ j <= j /\ ~(j <= i) /\ \A l \in P : l <= i => l <= j
    BY <1>0, <1>7
  <2>0. To(i) \subseteq To(j) /\ j \in To(j) /\ j \notin To(i)
    BY <2>1
  <2> HIDE DEF To
  <2>2. IsFiniteSet(To(j)) /\ Cardinality(To(i)) \in Nat /\ Cardinality(To(j)) \in Nat
    BY <1>3, <2>1, <2>0
  <2>3. Cardinality(To(i)) <= Cardinality(To(j)) /\ Cardinality(To(i)) # Cardinality(To(j))
    BY <2>0, <2>2, FS_Subset
  <2> QED BY <1>4, <2>2, <2>3
<1>8. RankIn(P, 0) = 0 /\ RankIn(P, n) = Cardinality(P)
  BY <1>4, <1>5, FS_EmptySet
<1>9. \A i \in 0 .. n : RankIn(P, i) \in 0 .. Cardinality(P)
  <2> HIDE DEF To
  <2> QED BY <1>2, <1>3, <1>4
<1>10. ASSUME NEW i \in P PROVE RankIn(P, i) \in 1 .. Cardinality(P)
  <2>1. i \in 1 .. n
    OBVIOUS
  <2>2. RankIn(P, 0) < RankIn(P, i)
    BY <1>7, <2>1
  <2> QED BY <1>8, <1>9, <2>1, <2>2
<1>11. \A r \in 1 .. Cardinality(P) : \E i \in P : RankIn(P, i) = r
  <2> DEFINE f == [i \in P |-> RankIn(P, i)]
  <2>1. f \in [P -> 1 .. Cardinality(P)]
    BY <1>10
  <2>2. ASSUME NEW i \in P, NEW j \in P, i # j PROVE f[i] # f[j]
    <3>1. i \in 1 .. n /\ j \in 1 .. n /\ (i < j \/ j < i)
      BY <2>2
    <3>2. RankIn(P, i) < RankIn(P, j) \/ RankIn(P, j) < RankIn(P, i)
      BY <1>7, <3>1
    <3> QED BY <1>9, <3>1, <3>2
  <2>3. \A r \in 1 .. Cardinality(P) : \E i \in P : f[i] = r
    <3> HIDE DEF f
    <3> QED BY <1>2, <2>1, <2>2, InjectiveIsOnto
  <2> QED BY <2>3
<1> QED BY <1>2, <1>6, <1>7, <1>8, <1>9, <1>10, <1>11

(***************************************************************************)
(* The values of a key                                                     *)
(***************************************************************************)

\* Pairs that a container can hold.
Entries == [key : Keys, value : Items]

Places(s, k) == {i \in 1 .. Len(s) : s[i].key = k}

\* The values of a key stand in the order of the places that have it.
LEMMA ValuesByRank ==
  ASSUME NEW s \in Seq(Entries), NEW k
  PROVE  /\ ValuesFor(s, k) \in Seq(Items) /\ Len(ValuesFor(s, k)) = Cardinality(Places(s, k))
         /\ \A i \in Places(s, k) : ValuesFor(s, k)[RankIn(Places(s, k), i)] = s[i].value
<1> DEFINE P == Places(s, k)
           L == Len(s)
           X == Seq(Items)
           G == [n \in 1 .. L |-> [x \in X |-> IF s[n].key = k THEN Append(x, s[n].value) ELSE x]]
           W == CHOOSE g : g = [n \in 0 .. Len(s) |->
                                  IF n = 0 THEN <<>>
                                  ELSE IF s[n].key = k THEN Append(g[n - 1], s[n].value) ELSE g[n - 1]]
<1> HIDE DEF P, G, W
<1>1. L \in Nat /\ DOMAIN s = 1 .. L /\ \A i \in 1 .. L : s[i] \in Entries /\ s[i].value \in Items
  <2>1. L \in Nat /\ DOMAIN s = 1 .. L /\ \A i \in 1 .. L : s[i] \in Entries
    OBVIOUS
  <2>2. \A e \in Entries : e.value \in Items
    BY DEF Entries
  <2> QED BY <2>1, <2>2
<1>2. G \in [1 .. L -> [X -> X]] /\ <<>> \in X
  <2>1. ASSUME NEW n \in 1 .. L, NEW x \in X
        PROVE  (IF s[n].key = k THEN Append(x, s[n].value) ELSE x) \in X
    BY <1>1
  <2> QED BY <2>1 DEF G
<1>3. PICK g \in [0 .. L -> X] : g[0] = <<>> /\ \A n \in 1 .. L : g[n] = G[n][g[n - 1]]
  <2> HIDE DEF X, L
  <2>1. PICK x \in X : x = <<>>
    BY <1>2
  <2>2. \E g \in [0 .. L -> X] : Follows(g, x, L, G)
    <3>1. /\ x \in X /\ L \in Nat /\ G \in [1 .. L -> [X -> X]]
      BY <1>1, <1>2
    <3> HIDE DEF G
    <3> QED BY <3>1, BoundedRecursion, Zenon
  <2> QED BY <2>1, <2>2, Zenon DEF Follows
<1>4. \A n \in 1 .. L : g[n] = IF s[n].key = k THEN Append(g[n - 1], s[n].value) ELSE g[n - 1]
  <2> TAKE n \in 1 .. L
  <2>1. g[n - 1] \in X
    BY <1>1, <1>3
  <2>2. G[n][g[n - 1]] = IF s[n].key = k THEN Append(g[n - 1], s[n].value) ELSE g[n - 1]
    BY <2>1 DEF G
  <2> QED BY <1>3, <2>2
<1>5. g = [n \in 0 .. Len(s) |-> IF n = 0 THEN <<>>
                                 ELSE IF s[n].key = k THEN Append(g[n - 1], s[n].value) ELSE g[n - 1]]
  <2>1. ASSUME NEW n \in 0 .. Len(s), n # 0 PROVE n \in 1 .. L
    BY <1>1, <2>1
  <2> HIDE DEF X, L
  <2>2. DOMAIN g = 0 .. L
    BY <1>3
  <2>3. \A n \in 0 .. Len(s) : g[n] = IF n = 0 THEN <<>>
                                 ELSE IF s[n].key = k THEN Append(g[n - 1], s[n].value) ELSE g[n - 1]
    BY <1>3, <1>4, <2>1
  <2>4. g = [n \in 0 .. L |-> g[n]]
    BY <1>3
  <2> QED BY <2>3, <2>4 DEF L
<1>6. W = [n \in 0 .. Len(s) |-> IF n = 0 THEN <<>>
                                 ELSE IF s[n].key = k THEN Append(W[n - 1], s[n].value) ELSE W[n - 1]]
  BY <1>5 DEF W
<1>7. ValuesFor(s, k) = W[L]
  BY DEF ValuesFor, W
<1>8. W[0] = <<>> /\ \A n \in 1 .. L : W[n] = IF s[n].key = k THEN Append(W[n - 1], s[n].value) ELSE W[n - 1]
  <2> DEFINE E(n) == IF n = 0 THEN <<>> ELSE IF s[n].key = k THEN Append(W[n - 1], s[n].value) ELSE W[n - 1]
  <2>1. W = [n \in 0 .. Len(s) |-> E(n)]
    BY <1>6
  <2> HIDE DEF E
  <2>2. \A n \in 0 .. Len(s) : W[n] = E(n)
    BY <2>1
  <2>3. 0 \in 0 .. Len(s) /\ \A n \in 1 .. L : n \in 0 .. Len(s) /\ n # 0
    BY <1>1
  <2> QED BY <2>2, <2>3 DEF E
<1>9. P \subseteq 1 .. L /\ (\A n \in 1 .. L : s[n].key = k <=> n \in P) /\ \A i \in P : i \in Nat /\ 1 <= i /\ i <= L
  BY <1>1 DEF Places, P
<1>15. /\ IsFiniteSet(P) /\ Cardinality(P) \in 0 .. L
       /\ \A i \in 0 .. L : RankIn(P, i) \in 0 .. Cardinality(P)
       /\ RankIn(P, 0) = 0 /\ RankIn(P, L) = Cardinality(P)
       /\ \A i \in 1 .. L : RankIn(P, i) = RankIn(P, i - 1) + (IF i \in P THEN 1 ELSE 0)
       /\ \A i \in P : RankIn(P, i) \in 1 .. Cardinality(P)
  <2>1. Upto(P, L)
    BY <1>1, <1>9 DEF Upto
  <2> QED BY <2>1, RankFacts
<1> DEFINE S == {n \in Nat : n <= L => /\ W[n] \in X /\ Len(W[n]) = RankIn(P, n)
                                       /\ \A i \in P : i <= n => W[n][RankIn(P, i)] = s[i].value}
<1>10. 0 \in S
  <2>1. RankIn(P, 0) = 0 /\ \A i \in P : ~(i <= 0)
    BY <1>9, <1>15
  <2>2. W[0] \in X /\ Len(W[0]) = 0
    BY <1>8
  <2> QED BY <2>1, <2>2
<1>11. ASSUME NEW n \in Nat, n \in S PROVE n + 1 \in S
  <2> SUFFICES ASSUME n + 1 <= L
               PROVE  /\ W[n + 1] \in X /\ Len(W[n + 1]) = RankIn(P, n + 1)
                      /\ \A i \in P : i <= n + 1 => W[n + 1][RankIn(P, i)] = s[i].value
    OBVIOUS
  <2>1. n + 1 \in 1 .. L /\ (n + 1) - 1 = n /\ n \in 0 .. L /\ n <= L
    BY <1>1
  <2>2. /\ W[n] \in X /\ Len(W[n]) = RankIn(P, n)
        /\ \A i \in P : i <= n => W[n][RankIn(P, i)] = s[i].value
    BY <1>11, <2>1
  <2>3. /\ RankIn(P, n) \in Nat /\ RankIn(P, n + 1) = RankIn(P, n) + (IF n + 1 \in P THEN 1 ELSE 0)
        /\ \A i \in P : i \in 1 .. L /\ (i <= n => RankIn(P, i) \in 1 .. RankIn(P, n))
    <3>1. /\ RankIn(P, n + 1) = RankIn(P, (n + 1) - 1) + (IF n + 1 \in P THEN 1 ELSE 0)
          /\ RankIn(P, n) \in 0 .. Cardinality(P) /\ Cardinality(P) \in Nat
      BY <1>15, <2>1
    <3>2. ASSUME NEW i \in P, i <= n PROVE RankIn(P, i) \in 1 .. RankIn(P, n)
      <4>1. i \in 1 .. L /\ i \in 0 .. L
        BY <1>9
      <4>2. RankIn(P, i) \in 1 .. Cardinality(P) /\ RankIn(P, n) \in 0 .. Cardinality(P)
        BY <1>15, <2>1
      <4>3. {j \in P : j <= i} \subseteq {j \in P : j <= n}
        <5>1. \A j \in P : j <= i => j <= n
          BY <1>9, <3>2, <4>1
        <5> QED BY <5>1
      <4>4. IsFiniteSet({j \in P : j <= n})
        BY <1>15, FS_Subset
      <4>5. RankIn(P, i) <= RankIn(P, n)
        BY <4>3, <4>4, FS_Subset DEF RankIn
      <4> QED BY <4>2, <4>5, <3>1
    <3> QED BY <1>9, <2>1, <3>1, <3>2
  <2>4. CASE n + 1 \in P
    <3>1. W[n + 1] = Append(W[n], s[n + 1].value) /\ s[n + 1].value \in Items
      BY <1>1, <1>8, <1>9, <2>1, <2>4
    <3>2. /\ W[n + 1] \in X /\ Len(W[n + 1]) = RankIn(P, n) + 1
          /\ W[n + 1][RankIn(P, n) + 1] = s[n + 1].value
          /\ \A r \in 1 .. RankIn(P, n) : W[n + 1][r] = W[n][r]
      <4>1. \A w \in Seq(Items), x \in Items :
              /\ Append(w, x) \in Seq(Items) /\ Len(Append(w, x)) = Len(w) + 1 /\ Append(w, x)[Len(w) + 1] = x
              /\ \A r \in 1 .. Len(w) : Append(w, x)[r] = w[r]
        OBVIOUS
      <4>2. W[n] \in Seq(Items)
        BY <2>2
      <4>3. /\ Append(W[n], s[n + 1].value) \in Seq(Items) /\ Len(Append(W[n], s[n + 1].value)) = Len(W[n]) + 1
            /\ Append(W[n], s[n + 1].value)[Len(W[n]) + 1] = s[n + 1].value
            /\ \A r \in 1 .. Len(W[n]) : Append(W[n], s[n + 1].value)[r] = W[n][r]
        BY <3>1, <4>1, <4>2
      <4> QED BY <2>2, <3>1, <4>3, Zenon
    <3>3. ASSUME NEW i \in P, i <= n + 1 PROVE W[n + 1][RankIn(P, i)] = s[i].value
      <4>1. i <= n \/ i = n + 1
        BY <2>3, <3>3
      <4> QED BY <2>2, <2>3, <2>4, <3>2, <4>1
    <3> QED BY <2>3, <2>4, <3>2, <3>3
  <2>5. CASE n + 1 \notin P
    <3>1. W[n + 1] = W[n]
      BY <1>8, <1>9, <2>1, <2>5
    <3>2. \A i \in P : i <= n + 1 => i <= n
      <4> TAKE i \in P
      <4>1. i \in 1 .. L /\ i # n + 1
        BY <2>3, <2>5
      <4> QED BY <4>1
    <3>3. RankIn(P, n + 1) = RankIn(P, n)
      BY <2>3, <2>5
    <3> QED BY <2>2, <3>1, <3>2, <3>3
  <2> QED BY <2>4, <2>5
<1> HIDE DEF S
<1>12. L \in S
  BY <1>1, <1>10, <1>11, NatSets
<1>13. /\ W[L] \in X /\ Len(W[L]) = RankIn(P, L)
       /\ \A i \in P : i <= L => W[L][RankIn(P, i)] = s[i].value
  BY <1>1, <1>12 DEF S
<1>14. RankIn(P, L) = Cardinality(P) /\ \A i \in P : i <= L
  BY <1>9, <1>15
<1> QED BY <1>7, <1>13, <1>14 DEF P

(***************************************************************************)
(* Sorting                                                                 *)
(***************************************************************************)

\* Pairs in the order of their keys.
Ordered(s) == \A i, j \in 1 .. Len(s) : i < j => s[i].key <= s[j].key

\* That the pair at i goes before the one at j.
GoesBefore(s, i, j) == s[i].key < s[j].key \/ (s[i].key = s[j].key /\ i < j)

\* The place of i among all pairs.
SortPlace(s, i) == 1 + Cardinality({j \in 1 .. Len(s) : GoesBefore(s, j, i)})

\* The keys of pairs are numbers.
LEMMA EntryFacts ==
  ASSUME NEW s \in Seq(Entries)
  PROVE  /\ Len(s) \in Nat /\ DOMAIN s = 1 .. Len(s)
         /\ \A i \in 1 .. Len(s) : s[i] \in Entries /\ s[i].key \in Keys /\ s[i].key \in Int /\ s[i].value \in Items
<1>1. \A e \in Entries : e.key \in Keys /\ e.value \in Items
  BY DEF Entries
<1>2. Keys \subseteq Int
  BY FlatAssumption
<1>3. Len(s) \in Nat /\ DOMAIN s = 1 .. Len(s) /\ \A i \in 1 .. Len(s) : s[i] \in Entries
  OBVIOUS
<1> QED BY <1>1, <1>2, <1>3

\* A stable sort gives every pair a place of its own, in the order of the keys and of the places they had.
LEMMA SortPermutes ==
  ASSUME NEW s \in Seq(Entries)
  PROVE  /\ StableSort(s) \in Seq(Entries) /\ Len(StableSort(s)) = Len(s)
         /\ \A i \in 1 .. Len(s) : SortPlace(s, i) \in 1 .. Len(s) /\ StableSort(s)[SortPlace(s, i)] = s[i]
         /\ \A p \in 1 .. Len(s) : \E i \in 1 .. Len(s) : SortPlace(s, i) = p
         /\ \A i, j \in 1 .. Len(s) : SortPlace(s, i) < SortPlace(s, j) <=> GoesBefore(s, i, j)
<1> DEFINE n == Len(s)
           Ahead(i) == {j \in 1 .. n : GoesBefore(s, j, i)}
<1>1. n \in Nat /\ DOMAIN s = 1 .. n /\ \A i \in 1 .. n : s[i] \in Entries /\ s[i].key \in Int
  BY EntryFacts
<1> HIDE DEF n
<1>2. IsFiniteSet(1 .. n) /\ Cardinality(1 .. n) = n
  BY <1>1, FS_Interval
<1>3. \A i \in 1 .. n : ~GoesBefore(s, i, i)
  BY <1>1 DEF GoesBefore
<1>4. \A i, j \in 1 .. n : i # j => GoesBefore(s, i, j) \/ GoesBefore(s, j, i)
  BY <1>1 DEF GoesBefore
<1>5. \A i, j, l \in 1 .. n : GoesBefore(s, i, j) /\ GoesBefore(s, j, l) => GoesBefore(s, i, l)
  BY <1>1 DEF GoesBefore
<1>6. \A i \in 1 .. n : IsFiniteSet(Ahead(i)) /\ Cardinality(Ahead(i)) \in Nat
  BY <1>2, FS_Subset, FS_CardinalityType
<1>7. \A i \in 1 .. n : SortPlace(s, i) = 1 + Cardinality(Ahead(i))
  BY DEF SortPlace, n
<1>8. ASSUME NEW i \in 1 .. n PROVE SortPlace(s, i) \in 1 .. n
  <2>1. Ahead(i) \subseteq (1 .. n) \ {i}
    BY <1>3
  <2>2. IsFiniteSet((1 .. n) \ {i}) /\ Cardinality((1 .. n) \ {i}) = n - 1
    BY <1>2, FS_RemoveElement
  <2>3. Cardinality(Ahead(i)) <= n - 1
    BY <2>1, <2>2, FS_Subset
  <2> HIDE DEF Ahead
  <2> QED BY <1>1, <1>6, <1>7, <2>3
<1>9. ASSUME NEW i \in 1 .. n, NEW j \in 1 .. n, GoesBefore(s, i, j) PROVE SortPlace(s, i) < SortPlace(s, j)
  <2>1. Ahead(i) \subseteq Ahead(j)
    BY <1>5, <1>9
  <2>2. i \in Ahead(j) /\ i \notin Ahead(i)
    BY <1>3, <1>9
  <2> HIDE DEF Ahead
  <2>3. Cardinality(Ahead(i)) <= Cardinality(Ahead(j)) /\ Cardinality(Ahead(i)) # Cardinality(Ahead(j))
    BY <1>6, <2>1, <2>2, FS_Subset
  <2> QED BY <1>6, <1>7, <2>3
<1>10. ASSUME NEW i \in 1 .. n, NEW j \in 1 .. n PROVE SortPlace(s, i) < SortPlace(s, j) <=> GoesBefore(s, i, j)
  <2>1. CASE i = j
    BY <1>3, <1>8, <2>1
  <2>2. CASE GoesBefore(s, i, j)
    BY <1>9, <2>2
  <2>3. CASE GoesBefore(s, j, i)
    <3>1. SortPlace(s, j) < SortPlace(s, i)
      BY <1>9, <2>3
    <3>2. ~GoesBefore(s, i, j)
      BY <1>3, <1>5, <2>3
    <3> QED BY <1>8, <3>1, <3>2
  <2> QED BY <1>4, <2>1, <2>2, <2>3
<1>11. \A p \in 1 .. n : \E i \in 1 .. n : SortPlace(s, i) = p
  <2> DEFINE f == [i \in 1 .. n |-> SortPlace(s, i)]
  <2>1. f \in [1 .. n -> 1 .. Cardinality(1 .. n)]
    BY <1>2, <1>8
  <2>2. \A i, j \in 1 .. n : i # j => f[i] # f[j]
    BY <1>4, <1>8, <1>9
  <2> HIDE DEF f
  <2>3. \A r \in 1 .. Cardinality(1 .. n) : \E i \in 1 .. n : f[i] = r
    BY <1>2, <2>1, <2>2, InjectiveIsOnto
  <2> QED BY <1>2, <2>3 DEF f
<1>12. StableSort(s) = [p \in 1 .. n |-> s[CHOOSE i \in 1 .. n : SortPlace(s, i) = p]]
  BY <1>1 DEF StableSort, SortPlace, GoesBefore, n
<1>13. \A i \in 1 .. n : (CHOOSE j \in 1 .. n : SortPlace(s, j) = SortPlace(s, i)) = i
  <2> TAKE i \in 1 .. n
  <2>1. \A j \in 1 .. n : SortPlace(s, j) = SortPlace(s, i) => j = i
    BY <1>4, <1>8, <1>9
  <2> QED BY <2>1
<1>14. \A i \in 1 .. n : StableSort(s)[SortPlace(s, i)] = s[i]
  <2> TAKE i \in 1 .. n
  <2>1. StableSort(s)[SortPlace(s, i)] = s[CHOOSE j \in 1 .. n : SortPlace(s, j) = SortPlace(s, i)]
    BY <1>8, <1>12
  <2> QED BY <1>13, <2>1
<1>15. StableSort(s) \in [1 .. n -> Entries]
  <2>1. \A p \in 1 .. n : s[CHOOSE i \in 1 .. n : SortPlace(s, i) = p] \in Entries
    BY <1>1, <1>11
  <2> QED BY <1>12, <2>1
<1>16. StableSort(s) \in Seq(Entries) /\ Len(StableSort(s)) = n
  <2>1. \A q \in [1 .. n -> Entries] : q \in Seq(Entries) /\ Len(q) = n
    BY <1>1
  <2> QED BY <1>15, <2>1
<1> QED BY <1>8, <1>10, <1>11, <1>14, <1>16 DEF n

\* What was sorted is in order, and has no key twice if it had none before.
LEMMA SortOrders ==
  ASSUME NEW s \in Seq(Entries)
  PROVE  Ordered(StableSort(s)) /\ (Distinct(s) => Distinct(StableSort(s)))
<1> DEFINE n == Len(s)
           t == StableSort(s)
<1>1. n \in Nat /\ DOMAIN s = 1 .. n /\ \A i \in 1 .. n : s[i] \in Entries /\ s[i].key \in Int
  BY EntryFacts
<1>2. /\ t \in Seq(Entries) /\ Len(t) = n
      /\ \A i \in 1 .. n : SortPlace(s, i) \in 1 .. n /\ t[SortPlace(s, i)] = s[i]
      /\ \A p \in 1 .. n : \E i \in 1 .. n : SortPlace(s, i) = p
      /\ \A i, j \in 1 .. n : SortPlace(s, i) < SortPlace(s, j) <=> GoesBefore(s, i, j)
  BY SortPermutes
<1>3. DOMAIN t = 1 .. n
  BY <1>2
<1> HIDE DEF n, t
<1>4. ASSUME NEW p \in 1 .. n, NEW q \in 1 .. n, p < q PROVE t[p].key <= t[q].key
  <2>1. PICK i \in 1 .. n : SortPlace(s, i) = p
    BY <1>2
  <2>2. PICK j \in 1 .. n : SortPlace(s, j) = q
    BY <1>2
  <2>3. GoesBefore(s, i, j) /\ t[p] = s[i] /\ t[q] = s[j]
    BY <1>2, <1>4, <2>1, <2>2
  <2> QED BY <1>1, <2>3 DEF GoesBefore
<1>5. ASSUME Distinct(s), NEW p \in 1 .. n, NEW q \in 1 .. n, t[p].key = t[q].key PROVE p = q
  <2>1. PICK i \in 1 .. n : SortPlace(s, i) = p
    BY <1>2
  <2>2. PICK j \in 1 .. n : SortPlace(s, j) = q
    BY <1>2
  <2>3. t[p] = s[i] /\ t[q] = s[j]
    BY <1>2, <2>1, <2>2
  <2>4. i = j
    BY <1>1, <1>5, <2>3 DEF Distinct
  <2> QED BY <2>1, <2>2, <2>4
<1> QED BY <1>2, <1>3, <1>4, <1>5 DEF Ordered, Distinct, t

\* What is in order is not changed by sorting.
LEMMA SortedStays ==
  ASSUME NEW s \in Seq(Entries), Ordered(s)
  PROVE  StableSort(s) = s
<1> DEFINE n == Len(s)
<1>1. n \in Nat /\ DOMAIN s = 1 .. n /\ \A i \in 1 .. n : s[i] \in Entries /\ s[i].key \in Int
  BY EntryFacts
<1>2. ASSUME NEW i \in 1 .. n PROVE SortPlace(s, i) = i
  <2>1. \A j \in 1 .. n : GoesBefore(s, j, i) <=> j < i
    BY <1>1 DEF GoesBefore, Ordered
  <2>2. {j \in 1 .. n : GoesBefore(s, j, i)} = 1 .. i - 1
    BY <1>1, <2>1
  <2>3. Cardinality(1 .. i - 1) = i - 1
    BY FS_Interval
  <2>4. SortPlace(s, i) = 1 + Cardinality(1 .. i - 1)
    BY <2>2 DEF SortPlace
  <2> QED BY <2>3, <2>4
<1>3. StableSort(s) \in Seq(Entries) /\ Len(StableSort(s)) = n /\ \A i \in 1 .. n : StableSort(s)[i] = s[i]
  BY <1>2, SortPermutes
<1>4. \A q \in Seq(Entries) : Len(q) = n /\ (\A i \in 1 .. n : q[i] = s[i]) => q = s
  OBVIOUS
<1> QED BY <1>3, <1>4

\* Two sequences with as many elements and the same at each place are the same.
LEMMA SameSequence ==
  ASSUME NEW S, NEW s \in Seq(S), NEW t \in Seq(S), Len(s) = Len(t), \A i \in 1 .. Len(s) : s[i] = t[i]
  PROVE  s = t
OBVIOUS

\* Places are carried over to others, all of them, in their order.
Carries(f, P, Q) ==
  /\ f \in [P -> Q]
  /\ \A p \in Q : \E i \in P : f[i] = p
  /\ \A i, j \in P : i < j <=> f[i] < f[j]

\* With the values that are there.
CarriesValues(f, s, t, P) == \A i \in P : t[f[i]].value = s[i].value

\* Places that are carried over in their order keep their ranks.
LEMMA CarriedRanks ==
  ASSUME NEW n, NEW P, Upto(P, n), NEW m, NEW Q, Upto(Q, m),
         NEW f, Carries(f, P, Q)
  PROVE  Cardinality(P) = Cardinality(Q) /\ \A i \in P : RankIn(Q, f[i]) = RankIn(P, i)
<1>0. f \in [P -> Q] /\ (\A p \in Q : \E i \in P : f[i] = p) /\ \A i, j \in P : i < j <=> f[i] < f[j]
  BY DEF Carries
<1>1. IsFiniteSet(P) /\ (\A i \in P : i \in Int) /\ \A p \in Q : p \in Int
  <2>1. IsFiniteSet(P)
    BY RankFacts
  <2> QED BY <2>1 DEF Upto
<1>2. \A i, j \in P : /\ i \in Int /\ j \in Int /\ f[i] \in Int /\ f[j] \in Int
                      /\ f[i] = f[j] => i = j
                      /\ f[i] <= f[j] <=> i <= j
  <2> TAKE i, j \in P
  <2>1. i \in Int /\ j \in Int /\ f[i] \in Int /\ f[j] \in Int /\ (i < j <=> f[i] < f[j]) /\ (j < i <=> f[j] < f[i])
    BY <1>0, <1>1
  <2> QED BY <2>1
<1>3. f \in Bijection(P, Q)
  BY <1>0, <1>2 DEF Bijection, Injection, Surjection, IsInjective
<1>4. Cardinality(P) = Cardinality(Q)
  <2>1. ExistsBijection(P, Q)
    BY <1>3 DEF ExistsBijection
  <2> QED BY <1>1, <2>1, FS_Bijection
<1>5. ASSUME NEW i \in P PROVE RankIn(Q, f[i]) = RankIn(P, i)
  <2> DEFINE A == {j \in P : j <= i}
             B == {p \in Q : p <= f[i]}
             g == [j \in A |-> f[j]]
  <2>1. g \in [A -> B]
    BY <1>0, <1>2
  <2>2. \A j, l \in A : g[j] = g[l] => j = l
    BY <1>2
  <2>3. \A p \in B : \E j \in A : g[j] = p
    BY <1>0, <1>2
  <2>4. IsFiniteSet(A)
    BY <1>1, FS_Subset
  <2>5. Cardinality(A) = Cardinality(B)
    <3> HIDE DEF g, A, B
    <3>1. g \in Bijection(A, B)
      BY <2>1, <2>2, <2>3 DEF Bijection, Injection, Surjection, IsInjective
    <3>2. ExistsBijection(A, B)
      BY <3>1 DEF ExistsBijection
    <3> QED BY <2>4, <3>2, FS_Bijection
  <2> QED BY <2>5 DEF RankIn
<1> QED BY <1>4, <1>5

\* What the places of a key are.
LEMMA PlacesFacts ==
  ASSUME NEW s \in Seq(Entries), NEW k
  PROVE  /\ Len(s) \in Nat /\ Upto(Places(s, k), Len(s))
         /\ \A i \in Places(s, k) : i \in 1 .. Len(s) /\ s[i].key = k /\ k \in Int /\ s[i].value \in Items
         /\ \A i \in 1 .. Len(s) : s[i].key = k => i \in Places(s, k)
<1>1. /\ Len(s) \in Nat
      /\ \A i \in 1 .. Len(s) : s[i] \in Entries /\ s[i].key \in Int /\ s[i].value \in Items
  BY EntryFacts
<1> QED BY <1>1 DEF Places, Upto

\* A key whose places are carried over in their order, with their values, keeps its values.
LEMMA CarriedValues ==
  ASSUME NEW s \in Seq(Entries), NEW t \in Seq(Entries), NEW k,
         NEW f, Carries(f, Places(s, k), Places(t, k)),
         CarriesValues(f, s, t, Places(s, k))
  PROVE  ValuesFor(t, k) = ValuesFor(s, k)
<1> DEFINE n == Len(s)
           P == Places(s, k)
           Q == Places(t, k)
<1>1. Upto(P, n) /\ Upto(Q, Len(t))
  BY PlacesFacts
<1>2. Cardinality(P) = Cardinality(Q) /\ \A i \in P : RankIn(Q, f[i]) = RankIn(P, i)
  BY <1>1, CarriedRanks
<1>3. /\ ValuesFor(s, k) \in Seq(Items) /\ Len(ValuesFor(s, k)) = Cardinality(P)
      /\ \A i \in P : ValuesFor(s, k)[RankIn(P, i)] = s[i].value
  BY ValuesByRank
<1>4. /\ ValuesFor(t, k) \in Seq(Items) /\ Len(ValuesFor(t, k)) = Cardinality(Q)
      /\ \A p \in Q : ValuesFor(t, k)[RankIn(Q, p)] = t[p].value
  BY ValuesByRank
<1> HIDE DEF n, P, Q
<1>5. ASSUME NEW r \in 1 .. Cardinality(P) PROVE ValuesFor(t, k)[r] = ValuesFor(s, k)[r]
  <2>1. PICK i \in P : RankIn(P, i) = r
    BY <1>1, RankFacts
  <2>2. f[i] \in Q /\ t[f[i]].value = s[i].value
    BY DEF P, Q, Carries, CarriesValues
  <2> QED BY <1>2, <1>3, <1>4, <2>1, <2>2
<1> QED BY <1>2, <1>3, <1>4, <1>5, SameSequence

\* A key that has one place more has one value more, at the rank of that place; the other way round, one less.
LEMMA OneMoreValue ==
  ASSUME NEW s \in Seq(Entries), NEW t \in Seq(Entries), NEW k, NEW p \in Places(t, k),
         NEW f, Carries(f, Places(s, k), Places(t, k) \ {p}),
         CarriesValues(f, s, t, Places(s, k))
  PROVE  LET r == RankIn(Places(t, k), p)
         IN  /\ r \in 1 .. Len(ValuesFor(s, k)) + 1 /\ Len(ValuesFor(t, k)) = Len(ValuesFor(s, k)) + 1
             /\ ValuesFor(t, k) = InsertAt(ValuesFor(s, k), r, t[p].value)
             /\ ValuesFor(s, k) = RemoveAt(ValuesFor(t, k), r)
             /\ ValuesFor(t, k)[r] = t[p].value
<1> DEFINE P == Places(s, k)
           Q == Places(t, k)
           R == Q \ {p}
           r == RankIn(Q, p)
           A == ValuesFor(s, k)
           B == ValuesFor(t, k)
           e == t[p].value
<1>1. Upto(P, Len(s)) /\ Upto(Q, Len(t)) /\ Upto(R, Len(t)) /\ e \in Items
  BY PlacesFacts DEF Upto
<1>2. Cardinality(P) = Cardinality(R) /\ \A i \in P : RankIn(R, f[i]) = RankIn(P, i)
  <2>1. Carries(f, P, R)
    OBVIOUS
  <2> HIDE DEF P, Q, R
  <2> QED BY <1>1, <2>1, CarriedRanks
<1>3. /\ A \in Seq(Items) /\ Len(A) = Cardinality(P)
      /\ \A i \in P : A[RankIn(P, i)] = s[i].value
  BY ValuesByRank
<1>4. /\ B \in Seq(Items) /\ Len(B) = Cardinality(Q)
      /\ \A q \in Q : B[RankIn(Q, q)] = t[q].value
  BY ValuesByRank
<1>5. /\ \A i \in P : f[i] \in R /\ t[f[i]].value = s[i].value
      /\ \A q \in R : \E i \in P : f[i] = q
  BY DEF Carries, CarriesValues
<1>6. p \in Q /\ p \in Int /\ \A q \in Q : q \in Int
  BY <1>1 DEF Upto
<1>7. /\ IsFiniteSet(Q) /\ Cardinality(Q) \in Nat /\ IsFiniteSet(P) /\ Cardinality(P) \in Nat /\ IsFiniteSet(R)
      /\ \A q \in Q : RankIn(Q, q) \in 1 .. Cardinality(Q)
      /\ \A i \in P : RankIn(P, i) \in 1 .. Cardinality(P)
      /\ \A x \in 1 .. Cardinality(P) : \E i \in P : RankIn(P, i) = x
      /\ \A x \in 1 .. Cardinality(Q) : \E q \in Q : RankIn(Q, q) = x
  <2>1. /\ IsFiniteSet(Q) /\ Cardinality(Q) \in 0 .. Len(t)
        /\ \A q \in Q : RankIn(Q, q) \in 1 .. Cardinality(Q)
        /\ \A x \in 1 .. Cardinality(Q) : \E q \in Q : RankIn(Q, q) = x
    BY <1>1, RankFacts
  <2>2. /\ IsFiniteSet(P) /\ Cardinality(P) \in 0 .. Len(s)
        /\ \A i \in P : RankIn(P, i) \in 1 .. Cardinality(P)
        /\ \A x \in 1 .. Cardinality(P) : \E i \in P : RankIn(P, i) = x
    BY <1>1, RankFacts
  <2>3. IsFiniteSet(R)
    BY <2>1, FS_RemoveElement
  <2> QED BY <1>1, <2>1, <2>2, <2>3
<1>8. Cardinality(Q) = Cardinality(P) + 1
  <2>1. Cardinality(R) = Cardinality(Q) - 1
    BY <1>6, <1>7, FS_RemoveElement
  <2> QED BY <1>2, <1>7, <2>1
<1>9. ASSUME NEW q \in R
      PROVE  /\ q < p => RankIn(Q, q) = RankIn(R, q) /\ RankIn(Q, q) < r
             /\ ~(q < p) => RankIn(Q, q) = RankIn(R, q) + 1 /\ r < RankIn(Q, q)
  <2>1. q \in Int /\ q \in Q /\ q # p /\ q \in 1 .. Len(t) /\ p \in 1 .. Len(t) /\ q \in 0 .. Len(t) /\ p \in 0 .. Len(t)
    BY <1>1 DEF Upto
  <2>2. CASE q < p
    <3>1. {j \in Q : j <= q} = {j \in R : j <= q}
      BY <1>6, <2>1, <2>2
    <3>2. RankIn(Q, q) < RankIn(Q, p)
      BY <1>1, <2>1, <2>2, RankFacts
    <3> QED BY <2>2, <3>1, <3>2 DEF RankIn
  <2>3. CASE ~(q < p)
    <3>1. {j \in Q : j <= q} = {j \in R : j <= q} \cup {p} /\ p \notin {j \in R : j <= q}
      BY <1>6, <2>1, <2>3
    <3>2. IsFiniteSet({j \in R : j <= q})
      BY <1>7, FS_Subset
    <3>3. RankIn(Q, q) = RankIn(R, q) + 1
      BY <3>1, <3>2, FS_AddElement DEF RankIn
    <3>4. p < q
      BY <1>6, <2>1, <2>3
    <3>5. RankIn(Q, p) < RankIn(Q, q)
      BY <1>1, <2>1, <3>4, RankFacts
    <3> QED BY <2>3, <3>3, <3>5
  <2> QED BY <2>2, <2>3
<1>10. r \in 1 .. Cardinality(P) + 1 /\ B[r] = e
  BY <1>4, <1>6, <1>7, <1>8
<1> HIDE DEF P, Q, R, r, A, B, e
<1>11. B = InsertAt(A, r, e)
  <2>1. /\ InsertAt(A, r, e) \in Seq(Items) /\ Len(InsertAt(A, r, e)) = Len(A) + 1
        /\ \A i \in 1 .. Len(A) + 1 : InsertAt(A, r, e)[i] = IF i < r THEN A[i] ELSE IF i = r THEN e ELSE A[i - 1]
    <3>1. A \in Seq(Items) /\ r \in 1 .. Len(A) + 1 /\ e \in Items
      BY <1>1, <1>3, <1>10
    <3>2. InsertAt(A, r, e) \in Seq(Items) /\ OneLonger(InsertAt(A, r, e), A, r, e)
      BY <3>1, InsertedElement
    <3> QED BY <3>2 DEF OneLonger
  <2>2. ASSUME NEW x \in 1 .. Len(B) PROVE InsertAt(A, r, e)[x] = B[x]
    <3>1. PICK q \in Q : RankIn(Q, q) = x
      BY <1>4, <1>7
    <3>2. B[x] = t[q].value /\ x \in 1 .. Len(A) + 1
      BY <1>3, <1>4, <1>7, <1>8, <3>1
    <3>3. CASE q = p
      BY <1>10, <2>1, <3>1, <3>2, <3>3 DEF r, e
    <3>4. CASE q # p
      <4>1. q \in R
        BY <3>4 DEF R
      <4>2. PICK i \in P : f[i] = q
        BY <1>5, <4>1
      <4>3. A[RankIn(P, i)] = B[x] /\ RankIn(R, q) = RankIn(P, i) /\ RankIn(P, i) \in Int
        BY <1>2, <1>3, <1>5, <1>7, <3>2, <4>2
      <4>4. CASE q < p
        <5>1. x = RankIn(P, i) /\ x < r
          BY <1>9, <3>1, <4>1, <4>3, <4>4
        <5> QED BY <2>1, <3>2, <4>3, <5>1
      <4>5. CASE ~(q < p)
        <5>1. x - 1 = RankIn(P, i) /\ ~(x < r) /\ x # r
          BY <1>9, <1>10, <3>1, <4>1, <4>3, <4>5
        <5> QED BY <2>1, <3>2, <4>3, <5>1
      <4> QED BY <4>4, <4>5
    <3> QED BY <3>3, <3>4
  <2> HIDE DEF InsertAt
  <2> QED BY <1>3, <1>4, <1>8, <2>1, <2>2, SameSequence
<1>12. A = RemoveAt(B, r)
  <2>1. r \in 1 .. Len(B)
    BY <1>4, <1>8, <1>10
  <2>2. /\ RemoveAt(B, r) \in Seq(Items) /\ Len(RemoveAt(B, r)) = Len(B) - 1
        /\ \A i \in 1 .. Len(B) - 1 : RemoveAt(B, r)[i] = IF i < r THEN B[i] ELSE B[i + 1]
    BY <1>4, <2>1, RemovedElement
  <2>3. ASSUME NEW y \in 1 .. Len(A) PROVE A[y] = RemoveAt(B, r)[y]
    <3>1. PICK i \in P : RankIn(P, i) = y
      BY <1>3, <1>7
    <3>2. A[y] = t[f[i]].value /\ f[i] \in R /\ f[i] \in Q /\ RankIn(R, f[i]) = y /\ y \in 1 .. Len(B) - 1
      <4>1. f[i] \in R /\ A[y] = t[f[i]].value /\ RankIn(R, f[i]) = y
        BY <1>2, <1>3, <1>5, <3>1
      <4>2. y \in 1 .. Len(B) - 1
        BY <1>3, <1>4, <1>7, <1>8
      <4> QED BY <4>1, <4>2 DEF R
    <3>3. B[RankIn(Q, f[i])] = A[y]
      BY <1>4, <3>2
    <3>4. CASE f[i] < p
      <4>1. RankIn(Q, f[i]) = y /\ y < r
        BY <1>9, <3>2, <3>4
      <4> QED BY <2>2, <3>2, <3>3, <4>1
    <3>5. CASE ~(f[i] < p)
      <4>1. RankIn(Q, f[i]) = y + 1 /\ ~(y < r)
        BY <1>9, <1>10, <3>2, <3>5
      <4> QED BY <2>2, <3>2, <3>3, <4>1
    <3> QED BY <3>4, <3>5
  <2>4. Len(A) = Len(RemoveAt(B, r))
    BY <1>3, <1>4, <1>7, <1>8, <2>2
  <2> HIDE DEF RemoveAt
  <2> QED BY <1>3, <2>2, <2>3, <2>4, SameSequence
<1> QED BY <1>3, <1>4, <1>8, <1>10, <1>11, <1>12 DEF A, B, P, Q, r, e

\* Sorting keeps the values of each key and their order.
LEMMA SortKeepsValues ==
  ASSUME NEW s \in Seq(Entries), NEW k
  PROVE  ValuesFor(StableSort(s), k) = ValuesFor(s, k)
<1> DEFINE n == Len(s)
           t == StableSort(s)
           P == Places(s, k)
           Q == Places(t, k)
           f == [i \in P |-> SortPlace(s, i)]
<1>1. n \in Nat /\ DOMAIN s = 1 .. n /\ \A i \in 1 .. n : s[i] \in Entries /\ s[i].key \in Int
  BY EntryFacts
<1>2. /\ t \in Seq(Entries) /\ Len(t) = n
      /\ \A i \in 1 .. n : SortPlace(s, i) \in 1 .. n /\ t[SortPlace(s, i)] = s[i]
      /\ \A p \in 1 .. n : \E i \in 1 .. n : SortPlace(s, i) = p
      /\ \A i, j \in 1 .. n : SortPlace(s, i) < SortPlace(s, j) <=> GoesBefore(s, i, j)
  BY SortPermutes
<1> HIDE DEF t
<1>3. /\ \A i \in P : i \in 1 .. n /\ s[i].key = k /\ k \in Int
      /\ \A i \in 1 .. n : s[i].key = k => i \in P
  BY PlacesFacts
<1>4. /\ \A p \in Q : p \in 1 .. n /\ t[p].key = k
      /\ \A p \in 1 .. n : t[p].key = k => p \in Q
  BY <1>2, PlacesFacts
<1> HIDE DEF n, P, Q
<1>5. f \in [P -> Q] /\ \A p \in Q : \E i \in P : f[i] = p
  <2>1. \A i \in P : SortPlace(s, i) \in Q
    BY <1>2, <1>3, <1>4
  <2>2. ASSUME NEW p \in Q PROVE \E i \in P : SortPlace(s, i) = p
    <3>1. PICK i \in 1 .. n : SortPlace(s, i) = p
      BY <1>2, <1>4
    <3>2. s[i].key = k
      BY <1>2, <1>4, <3>1
    <3> QED BY <1>3, <3>1, <3>2
  <2> QED BY <2>1, <2>2
<1>6. \A i, j \in P : i < j <=> f[i] < f[j]
  <2> TAKE i, j \in P
  <2>1. i \in 1 .. n /\ j \in 1 .. n /\ s[i].key = k /\ s[j].key = k /\ k \in Int
    BY <1>3
  <2>2. GoesBefore(s, i, j) <=> i < j
    BY <2>1 DEF GoesBefore
  <2> QED BY <1>2, <2>1, <2>2
<1>7. \A i \in P : t[f[i]].value = s[i].value
  BY <1>2, <1>3
<1> HIDE DEF f
<1>8. ValuesFor(t, k) = ValuesFor(s, k)
  <2>1. Carries(f, P, Q)
    BY <1>5, <1>6 DEF Carries
  <2>2. Carries(f, Places(s, k), Places(t, k)) /\ CarriesValues(f, s, t, Places(s, k))
    BY <1>7, <2>1 DEF P, Q, CarriesValues
  <2>3. t \in Seq(Entries)
    BY <1>2
  <2> QED BY <2>2, <2>3, CarriedValues
<1> QED BY <1>8 DEF t

(***************************************************************************)
(* Looking up in sorted pairs                                              *)
(***************************************************************************)

\* What the searches find in sorted pairs: the bounds enclose the places that have the key.
LEMMA PlacesFound ==
  ASSUME NEW s \in Seq(Entries), Ordered(s), NEW k \in Keys,
         NEW lo, lo = LowerBound(KeyOf(s), k), NEW up, up = UpperBound(KeyOf(s), k)
  PROVE  /\ lo \in 1 .. Len(s) + 1 /\ up \in 1 .. Len(s) + 1 /\ lo <= up
         /\ DOMAIN KeyOf(s) = 1 .. Len(s) /\ Len(KeyOf(s)) = Len(s)
         /\ \A i \in 1 .. Len(s) : KeyOf(s)[i] = s[i].key
         /\ \A i \in 1 .. Len(s) : (s[i].key < k <=> i < lo) /\ (s[i].key <= k <=> i < up)
         /\ Places(s, k) = lo .. up - 1
         /\ Found(KeyOf(s), k) = IF lo < up THEN lo ELSE Len(s) + 1
         /\ Found(KeyOf(s), k) \in DOMAIN KeyOf(s) <=> lo < up
         /\ Present(KeyOf(s), k) <=> lo < up
         /\ Cardinality(EqualRun(KeyOf(s), k)) = up - lo
         /\ CountMulti(KeyOf(s), k) = up - lo
         /\ EqualRange(KeyOf(s), k)[1] = lo /\ EqualRange(KeyOf(s), k)[2] = up
<1> DEFINE n == Len(s)
           keys == KeyOf(s)
<1>1. n \in Nat /\ DOMAIN s = 1 .. n /\ (\A i \in 1 .. n : s[i] \in Entries /\ s[i].key \in Int) /\ k \in Int
  BY EntryFacts, FlatAssumption
<1>2. keys \in [1 .. n -> Int] /\ \A i \in 1 .. n : keys[i] = s[i].key
  BY <1>1 DEF KeyOf
<1>3. keys \in Seq(Int) /\ Len(keys) = n /\ DOMAIN keys = 1 .. n
  <2> HIDE DEF keys
  <2>1. \A q \in [1 .. n -> Int] : q \in Seq(Int) /\ Len(q) = n /\ DOMAIN q = 1 .. n
    BY <1>1
  <2> QED BY <1>2, <2>1
<1>4. Ascending(keys)
  BY <1>2, <1>3 DEF Ascending, Ordered
<1>5. lo = LowerBound(keys, k) /\ up = UpperBound(keys, k)
  OBVIOUS
<1> HIDE DEF keys
<1>6. /\ lo \in 1 .. n + 1 /\ up \in 1 .. n + 1 /\ lo <= up
      /\ {i \in DOMAIN keys : keys[i] = k} = lo .. up - 1
      /\ Found(keys, k) = IF lo < up THEN lo ELSE n + 1
      /\ Found(keys, k) \in DOMAIN keys <=> lo < up
      /\ Present(keys, k) <=> lo < up
      /\ Cardinality(EqualRun(keys, k)) = up - lo
      /\ CountMulti(keys, k) = up - lo
      /\ EqualRange(keys, k)[1] = lo /\ EqualRange(keys, k)[2] = up
  <2>1. /\ lo \in 1 .. Len(keys) + 1 /\ up \in 1 .. Len(keys) + 1 /\ lo <= up
        /\ {i \in DOMAIN keys : keys[i] = k} = lo .. up - 1
        /\ Found(keys, k) = IF lo < up THEN lo ELSE Len(keys) + 1
        /\ Found(keys, k) \in DOMAIN keys <=> lo < up
        /\ Present(keys, k) <=> lo < up
        /\ EqualRun(keys, k) = lo .. up - 1 /\ Cardinality(EqualRun(keys, k)) = up - lo
        /\ CountMulti(keys, k) = up - lo
        /\ EqualRange(keys, k)[1] = lo /\ EqualRange(keys, k)[2] = up
    BY <1>1, <1>3, <1>4, <1>5, SearchesFind, Zenon
  <2> QED BY <1>3, <2>1
<1>7. \A i \in 1 .. n : (keys[i] < k <=> i < lo) /\ (keys[i] <= k <=> i < up)
  BY <1>1, <1>3, <1>4, <1>5, BoundsDivide
<1>8. Places(s, k) = lo .. up - 1
  BY <1>2, <1>3, <1>6 DEF Places
<1> QED BY <1>2, <1>3, <1>6, <1>7, <1>8 DEF keys

\* In sorted pairs the values of a key stand between its bounds.
LEMMA ValuesBetween ==
  ASSUME NEW s \in Seq(Entries), Ordered(s), NEW k \in Keys,
         NEW lo, lo = LowerBound(KeyOf(s), k), NEW up, up = UpperBound(KeyOf(s), k)
  PROVE  /\ ValuesFor(s, k) \in Seq(Items) /\ Len(ValuesFor(s, k)) = up - lo
         /\ \A r \in 1 .. up - lo : ValuesFor(s, k)[r] = s[lo + r - 1].value
<1>1. lo \in 1 .. Len(s) + 1 /\ up \in 1 .. Len(s) + 1 /\ lo <= up /\ Places(s, k) = lo .. up - 1
  BY PlacesFound
<1>2. Cardinality(Places(s, k)) = up - lo
  BY <1>1, FS_Interval
<1>3. ASSUME NEW r \in 1 .. up - lo PROVE RankIn(Places(s, k), lo + r - 1) = r /\ lo + r - 1 \in Places(s, k)
  <2>1. {j \in lo .. up - 1 : j <= lo + r - 1} = lo .. lo + r - 1
    BY <1>1
  <2>2. Cardinality(lo .. lo + r - 1) = r
    BY <1>1, FS_Interval
  <2>3. RankIn(Places(s, k), lo + r - 1) = Cardinality({j \in lo .. up - 1 : j <= lo + r - 1})
    BY <1>1 DEF RankIn
  <2>4. lo + r - 1 \in lo .. up - 1
    BY <1>1
  <2> QED BY <1>1, <2>1, <2>2, <2>3, <2>4
<1>4. /\ ValuesFor(s, k) \in Seq(Items) /\ Len(ValuesFor(s, k)) = Cardinality(Places(s, k))
      /\ \A i \in Places(s, k) : ValuesFor(s, k)[RankIn(Places(s, k), i)] = s[i].value
  BY ValuesByRank
<1> QED BY <1>2, <1>3, <1>4

\* Walking from the bounds of a key meets its values.
LEMMA WalkMeetsValues ==
  ASSUME NEW s \in Seq(Entries), Ordered(s), NEW k \in Keys,
         NEW lo, lo = LowerBound(KeyOf(s), k), NEW up, up = UpperBound(KeyOf(s), k)
  PROVE  LET met == Walk(s, lo, up)
         IN  /\ [i \in DOMAIN met |-> met[i].value] = ValuesFor(s, k)
             /\ DOMAIN met = 1 .. up - lo /\ (met = <<>> <=> ~(lo < up))
<1> DEFINE met == Walk(s, lo, up)
           values == [i \in DOMAIN met |-> met[i].value]
<1>1. lo \in 1 .. Len(s) + 1 /\ up \in 1 .. Len(s) + 1 /\ lo <= up
  BY PlacesFound
<1>2. /\ ValuesFor(s, k) \in Seq(Items) /\ Len(ValuesFor(s, k)) = up - lo
      /\ \A r \in 1 .. up - lo : ValuesFor(s, k)[r] = s[lo + r - 1].value
  BY ValuesBetween
<1>3. DOMAIN met = 1 .. up - lo /\ \A r \in 1 .. up - lo : met[r] = s[lo + r - 1]
  BY DEF Walk
<1>4. met = <<>> <=> ~(lo < up)
  <2>1. CASE lo < up
    <3>1. 1 \in DOMAIN met /\ 1 \notin DOMAIN <<>>
      BY <1>1, <1>3, <2>1
    <3> QED BY <2>1, <3>1
  <2>2. CASE ~(lo < up)
    <3>1. 1 .. up - lo = {} /\ up - lo = 0
      BY <1>1, <2>2
    <3>2. met = [i \in 1 .. 0 |-> s[lo + i - 1]]
      BY <3>1 DEF Walk
    <3>3. [i \in 1 .. 0 |-> s[lo + i - 1]] = <<>>
      OBVIOUS
    <3> QED BY <2>2, <3>2, <3>3
  <2> QED BY <2>1, <2>2
<1> HIDE DEF met
<1>5. values = ValuesFor(s, k)
  <2>1. DOMAIN ValuesFor(s, k) = 1 .. up - lo /\ DOMAIN values = 1 .. up - lo
    BY <1>1, <1>2, <1>3
  <2>2. \A r \in 1 .. up - lo : values[r] = ValuesFor(s, k)[r]
    BY <1>2, <1>3
  <2>3. ValuesFor(s, k) = [r \in DOMAIN ValuesFor(s, k) |-> ValuesFor(s, k)[r]]
    BY <1>2
  <2>4. values = [r \in DOMAIN values |-> values[r]]
    OBVIOUS
  <2> QED BY <2>1, <2>2, <2>3, <2>4
<1> QED BY <1>3, <1>4, <1>5 DEF met

\* Going through all pairs and back.
LEMMA WalkMeetsAll ==
  ASSUME NEW s \in Seq(Entries), Ordered(s)
  PROVE  /\ Walk(s, 1, Len(s) + 1) = StableSort(s)
         /\ Reverse(WalkBack(s, Len(s) + 1, 1)) = s
<1> DEFINE n == Len(s)
           back == WalkBack(s, n + 1, 1)
           all == Walk(s, 1, n + 1)
<1>1. n \in Nat /\ DOMAIN s = 1 .. n /\ \A i \in 1 .. n : s[i] \in Entries
  OBVIOUS
<1> HIDE DEF n
<1>2. all \in [1 .. n -> Entries] /\ \A i \in 1 .. n : all[i] = s[i]
  <2>1. (n + 1) - 1 = n /\ \A i \in 1 .. n : 1 + i - 1 = i
    BY <1>1
  <2>2. all = [i \in 1 .. n |-> s[1 + i - 1]]
    BY <2>1 DEF Walk
  <2> QED BY <1>1, <2>1, <2>2
<1>3. all = s
  <2>1. \A q \in [1 .. n -> Entries] : q \in Seq(Entries) /\ Len(q) = n
    BY <1>1
  <2> HIDE DEF all
  <2> QED BY <1>2, <2>1, SameSequence DEF n
<1>4. back \in [1 .. n -> Entries] /\ \A i \in 1 .. n : back[i] = s[n + 1 - i]
  <2>1. (n + 1) - 1 = n /\ \A i \in 1 .. n : n + 1 - i \in 1 .. n
    BY <1>1
  <2>2. back = [i \in 1 .. (n + 1) - 1 |-> s[(n + 1) - i]]
    BY DEF WalkBack
  <2> QED BY <1>1, <2>1, <2>2
<1> HIDE DEF back
<1>5. back \in Seq(Entries) /\ Len(back) = n
  <2>1. \A q \in [1 .. n -> Entries] : q \in Seq(Entries) /\ Len(q) = n
    BY <1>1
  <2> QED BY <1>4, <2>1
<1>6. Reverse(back) \in [1 .. n -> Entries] /\ \A i \in 1 .. n : Reverse(back)[i] = s[i]
  <2>1. Reverse(back) = [i \in 1 .. n |-> back[(n - i) + 1]]
    BY <1>5 DEF Reverse
  <2>2. \A i \in 1 .. n : (n - i) + 1 \in 1 .. n /\ n + 1 - ((n - i) + 1) = i
    BY <1>1
  <2> QED BY <1>1, <1>4, <2>1, <2>2
<1>7. Reverse(back) = s
  <2>1. \A q \in [1 .. n -> Entries] : q \in Seq(Entries) /\ Len(q) = n
    BY <1>1
  <2> QED BY <1>6, <2>1, SameSequence DEF n
<1> QED BY <1>3, <1>7, SortedStays DEF n, back

(***************************************************************************)
(* The flat maps stay sorted                                               *)
(***************************************************************************)

\* Both containers hold sorted pairs, a map no key twice.
FlatInv ==
  /\ flatMulti \in BOOLEAN
  /\ flat \in [Maps -> Seq(Entries)]
  /\ \A m \in Maps : Len(flat[m]) <= MaxLen /\ Ordered(flat[m]) /\ (~flatMulti => Distinct(flat[m]))

\* A pair put behind those with its key keeps the order.
LEMMA InsertKeepsOrder ==
  ASSUME NEW s \in Seq(Entries), Ordered(s), NEW k \in Keys, NEW v \in Items,
         NEW up, up = UpperBound(KeyOf(s), k), NEW t, t = InsertAt(s, up, Pair(k, v))
  PROVE  /\ up \in 1 .. Len(s) + 1
         /\ t \in Seq(Entries) /\ Len(t) = Len(s) + 1 /\ Ordered(t)
         /\ \A i \in 1 .. Len(s) + 1 : t[i] = IF i < up THEN s[i] ELSE IF i = up THEN Pair(k, v) ELSE s[i - 1]
         /\ Distinct(s) /\ ~Present(KeyOf(s), k) => Distinct(t)
<1> DEFINE n == Len(s)
           e == Pair(k, v)
           lo == LowerBound(KeyOf(s), k)
<1>1. n \in Nat /\ DOMAIN s = 1 .. n /\ \A i \in 1 .. n : s[i] \in Entries /\ s[i].key \in Int
  BY EntryFacts
<1>2. /\ lo \in 1 .. n + 1 /\ up \in 1 .. n + 1 /\ lo <= up
      /\ \A i \in 1 .. n : (s[i].key < k <=> i < lo) /\ (s[i].key <= k <=> i < up)
      /\ Present(KeyOf(s), k) <=> lo < up
  BY PlacesFound
<1>3. e \in Entries /\ e.key = k /\ k \in Int
  BY FlatAssumption DEF Entries, Pair
<1> HIDE DEF e, n, lo
<1>4. /\ t \in Seq(Entries) /\ Len(t) = n + 1
      /\ \A i \in 1 .. n + 1 : t[i] = IF i < up THEN s[i] ELSE IF i = up THEN e ELSE s[i - 1]
  <2>1. e \in Entries /\ up \in 1 .. Len(s) + 1 /\ t = InsertAt(s, up, e)
    BY <1>2, <1>3 DEF n, e
  <2>2. /\ InsertAt(s, up, e) \in Seq(Entries) /\ Len(InsertAt(s, up, e)) = Len(s) + 1
        /\ \A i \in 1 .. Len(s) + 1 : InsertAt(s, up, e)[i] = IF i < up THEN s[i] ELSE IF i = up THEN e ELSE s[i - 1]
    <3>1. InsertAt(s, up, e) \in Seq(Entries) /\ OneLonger(InsertAt(s, up, e), s, up, e)
      BY <2>1, InsertedElement
    <3> QED BY <3>1 DEF OneLonger
  <2> QED BY <2>1, <2>2 DEF n
<1>5. ASSUME NEW i \in 1 .. n + 1, NEW j \in 1 .. n + 1, i < j PROVE t[i].key <= t[j].key
  <2>1. \A p, q \in 1 .. n : p < q => s[p].key <= s[q].key
    BY DEF Ordered, n
  <2>2. CASE j < up
    <3>1. i \in 1 .. n /\ j \in 1 .. n /\ i < up
      BY <1>1, <1>2, <1>5, <2>2
    <3> QED BY <1>4, <1>5, <2>1, <2>2, <3>1
  <2>3. CASE j = up
    <3>1. i \in 1 .. n /\ i < up
      BY <1>1, <1>2, <1>5, <2>3
    <3> QED BY <1>2, <1>3, <1>4, <2>3, <3>1
  <2>4. CASE j > up /\ i < up
    <3>1. i \in 1 .. n /\ j - 1 \in 1 .. n /\ (i < j - 1 \/ i = j - 1) /\ ~(j < up) /\ j # up
      BY <1>1, <1>2, <1>5, <2>4
    <3>2. t[i] = s[i] /\ t[j] = s[j - 1]
      BY <1>4, <2>4, <3>1
    <3>3. s[i].key <= s[j - 1].key
      BY <1>1, <2>1, <3>1
    <3> QED BY <3>2, <3>3
  <2>5. CASE j > up /\ i = up
    <3>1. j - 1 \in 1 .. n /\ ~(j - 1 < up) /\ ~(j < up) /\ j # up
      BY <1>1, <1>2, <1>5, <2>5
    <3>2. t[i] = e /\ t[j] = s[j - 1]
      BY <1>4, <2>5, <3>1
    <3>3. ~(s[j - 1].key <= k) /\ s[j - 1].key \in Int
      BY <1>1, <1>2, <3>1
    <3> QED BY <1>3, <3>2, <3>3
  <2>6. CASE j > up /\ i > up
    <3>1. i - 1 \in 1 .. n /\ j - 1 \in 1 .. n /\ i - 1 < j - 1 /\ ~(j < up) /\ j # up /\ ~(i < up) /\ i # up
      BY <1>1, <1>2, <1>5, <2>6
    <3>2. t[i] = s[i - 1] /\ t[j] = s[j - 1]
      BY <1>4, <3>1
    <3> QED BY <2>1, <3>1, <3>2
  <2> QED BY <1>1, <1>2, <2>2, <2>3, <2>4, <2>5, <2>6
<1>6. ASSUME Distinct(s), ~Present(KeyOf(s), k), NEW i \in 1 .. n + 1, NEW j \in 1 .. n + 1, t[i].key = t[j].key PROVE i = j
  <2>1. \A p, q \in 1 .. n : s[p].key = s[q].key => p = q
    BY <1>1, <1>6 DEF Distinct
  <2>2. \A p \in 1 .. n : s[p].key # k
    BY <1>1, <1>2, <1>3, <1>6
  <2> DEFINE Old(x) == IF x < up THEN x ELSE x - 1
  <2>3. \A x \in 1 .. n + 1 : x # up => Old(x) \in 1 .. n /\ t[x] = s[Old(x)]
    BY <1>1, <1>2, <1>4
  <2>4. t[up].key = k
    BY <1>2, <1>3, <1>4
  <2>5. CASE i = up /\ j = up
    BY <2>5
  <2>6. CASE i = up /\ j # up
    <3> HIDE DEF Old
    <3> QED BY <1>6, <2>2, <2>3, <2>4, <2>6
  <2>7. CASE i # up /\ j = up
    <3> HIDE DEF Old
    <3> QED BY <1>6, <2>2, <2>3, <2>4, <2>7
  <2>8. CASE i # up /\ j # up
    <3>1. Old(i) = Old(j)
      <4> HIDE DEF Old
      <4> QED BY <1>6, <2>1, <2>3, <2>8
    <3> QED BY <1>2, <2>8, <3>1
  <2> QED BY <2>5, <2>6, <2>7, <2>8
<1>7. Ordered(t)
  BY <1>4, <1>5 DEF Ordered
<1>8. Distinct(s) /\ ~Present(KeyOf(s), k) => Distinct(t)
  <2>1. DOMAIN t = 1 .. n + 1
    BY <1>1, <1>4
  <2> QED BY <1>6, <2>1 DEF Distinct
<1> QED BY <1>2, <1>4, <1>7, <1>8 DEF n, e

\* Pairs that are left when some that follow each other are taken out keep the order.
LEMMA RestKeepsOrder ==
  ASSUME NEW s \in Seq(Entries), Ordered(s), NEW k \in 1 .. Len(s) + 1, NEW d \in Nat, k + d <= Len(s) + 1,
         NEW t \in Seq(Entries), Len(t) = Len(s) - d,
         \A i \in 1 .. Len(s) - d : t[i] = IF i < k THEN s[i] ELSE s[i + d]
  PROVE  Ordered(t) /\ Len(t) <= Len(s) /\ (Distinct(s) => Distinct(t))
<1> DEFINE n == Len(s)
           Old(i) == IF i < k THEN i ELSE i + d
<1>1. n \in Nat /\ DOMAIN s = 1 .. n /\ \A i \in 1 .. n : s[i] \in Entries /\ s[i].key \in Int
  BY EntryFacts
<1>2. ASSUME NEW i \in 1 .. n - d PROVE Old(i) \in 1 .. n /\ t[i] = s[Old(i)]
  <2>1. CASE i < k
    <3>1. Old(i) = i /\ i \in 1 .. n /\ t[i] = s[i]
      BY <1>1, <2>1
    <3> QED BY <3>1
  <2>2. CASE ~(i < k)
    <3>1. Old(i) = i + d /\ i + d \in 1 .. n /\ t[i] = s[i + d]
      BY <1>1, <2>2
    <3> QED BY <3>1
  <2> QED BY <2>1, <2>2
<1>3. \A i, j \in 1 .. n - d : (i < j => Old(i) < Old(j)) /\ (Old(i) = Old(j) => i = j)
  BY <1>1
<1>4. DOMAIN t = 1 .. n - d /\ n - d <= n
  BY <1>1
<1> HIDE DEF Old
<1>5. Ordered(t)
  BY <1>1, <1>2, <1>3 DEF Ordered
<1>6. ASSUME Distinct(s), NEW i \in 1 .. n - d, NEW j \in 1 .. n - d, t[i].key = t[j].key PROVE i = j
  <2>1. Old(i) \in DOMAIN s /\ Old(j) \in DOMAIN s /\ s[Old(i)].key = s[Old(j)].key
    BY <1>1, <1>2, <1>6
  <2>2. Old(i) = Old(j)
    BY <1>6, <2>1, Zenon DEF Distinct
  <2> QED BY <1>3, <2>2
<1> QED BY <1>4, <1>5, <1>6 DEF Distinct

\* The same of the sequence without them.
LEMMA RemovalKeepsOrder ==
  ASSUME NEW s \in Seq(Entries), Ordered(s), NEW k \in 1 .. Len(s) + 1, NEW m \in k .. Len(s) + 1
  PROVE  LET t == SubSeq(s, 1, k - 1) \o SubSeq(s, m, Len(s))
         IN  /\ t \in Seq(Entries) /\ Len(t) = Len(s) - (m - k) /\ Ordered(t) /\ Len(t) <= Len(s)
             /\ \A i \in 1 .. Len(s) - (m - k) : t[i] = IF i < k THEN s[i] ELSE s[i + (m - k)]
             /\ Distinct(s) => Distinct(t)
<1> DEFINE t == SubSeq(s, 1, k - 1) \o SubSeq(s, m, Len(s))
<1>1. m - k \in Nat /\ k + (m - k) <= Len(s) + 1
  OBVIOUS
<1>2. /\ t \in Seq(Entries) /\ Len(t) = Len(s) - (m - k)
      /\ \A i \in 1 .. Len(s) - (m - k) : t[i] = IF i < k THEN s[i] ELSE s[i + (m - k)]
  BY WithoutRange
<1> HIDE DEF t
<1>3. Ordered(t) /\ Len(t) <= Len(s) /\ (Distinct(s) => Distinct(t))
  BY <1>1, <1>2, RestKeepsOrder
<1> QED BY <1>2, <1>3 DEF t

\* Another value for the pair at a place, and another key.
WithValue(s, j, v) == [s EXCEPT ![j].value = v]
WithKey(s, j, k) == [s EXCEPT ![j].key = k]

\* Another value for a pair keeps the order.
LEMMA AssignmentKeepsOrder ==
  ASSUME NEW s \in Seq(Entries), Ordered(s), NEW j \in 1 .. Len(s), NEW v \in Items,
         NEW t, t = WithValue(s, j, v)
  PROVE  /\ t \in Seq(Entries) /\ Len(t) = Len(s) /\ Ordered(t)
         /\ \A i \in 1 .. Len(s) : t[i].key = s[i].key /\ t[i].value = IF i = j THEN v ELSE s[i].value
         /\ Distinct(s) => Distinct(t)
<1> DEFINE n == Len(s)
<1>1. n \in Nat /\ DOMAIN s = 1 .. n /\ \A i \in 1 .. n : s[i] \in Entries /\ s[i].key \in Int
  BY EntryFacts
<1>2. /\ DOMAIN t = 1 .. n /\ t = [i \in 1 .. n |-> t[i]]
      /\ \A i \in 1 .. n : t[i] = IF i = j THEN [s[j] EXCEPT !.value = v] ELSE s[i]
  BY <1>1 DEF WithValue
<1>3. [s[j] EXCEPT !.value = v] \in Entries /\ [s[j] EXCEPT !.value = v].key = s[j].key /\ [s[j] EXCEPT !.value = v].value = v
  BY <1>1 DEF Entries
<1>4. t \in [1 .. n -> Entries]
  BY <1>1, <1>2, <1>3
<1>5. t \in Seq(Entries) /\ Len(t) = n
  <2>1. \A q \in [1 .. n -> Entries] : q \in Seq(Entries) /\ Len(q) = n
    BY <1>1
  <2> QED BY <1>4, <2>1
<1>6. \A i \in 1 .. n : t[i].key = s[i].key /\ t[i].value = IF i = j THEN v ELSE s[i].value
  BY <1>2, <1>3
<1> QED BY <1>1, <1>2, <1>5, <1>6 DEF Ordered, Distinct

\* One container that is sorted and not too long leaves the invariant.
LEMMA BecomeKeeps ==
  ASSUME FlatInv, UNCHANGED flatMulti, NEW m \in Maps, NEW t \in Seq(Entries), Len(t) <= MaxLen, Ordered(t),
         ~flatMulti => Distinct(t), flat' = [flat EXCEPT ![m] = t]
  PROVE  FlatInv'
BY DEF FlatInv

\* Two containers that are sorted and not too long, too.
LEMMA BothKeep ==
  ASSUME FlatInv, UNCHANGED flatMulti, NEW m \in Maps, NEW n \in Maps, NEW t \in Seq(Entries), NEW u \in Seq(Entries),
         Len(t) <= MaxLen, Ordered(t), ~flatMulti => Distinct(t),
         Len(u) <= MaxLen, Ordered(u), ~flatMulti => Distinct(u), flat' = [flat EXCEPT ![m] = t, ![n] = u]
  PROVE  FlatInv'
BY DEF FlatInv

\* A container without pairs.
LEMMA EmptyKept ==
  /\ <<>> \in Seq(Entries) /\ Len(<<>>) = 0 /\ Ordered(<<>>) /\ Distinct(<<>>)
  /\ Len(<<>>) <= MaxLen
BY FlatAssumption DEF Ordered, Distinct

LEMMA SourcePairs ==
  ASSUME NEW multi, NEW s \in SourceRanges(multi)
  PROVE  s \in Seq(Entries) /\ Len(s) <= MaxLen /\ (~multi => Distinct(s))
<1>1. PICK n \in 0 .. 2 : s \in [1 .. n -> Entries]
  BY DEF SourceRanges, Entries
<1>2. s \in Seq(Entries) /\ Len(s) = n
  BY <1>1
<1> QED BY <1>2, FlatAssumption DEF SourceRanges

LEMMA FlatInitInv ==
  ASSUME FlatInit
  PROVE  FlatInv
<1>1. PICK s \in SourceRanges(flatMulti) : flat = [m \in Maps |-> StableSort(s)]
  BY DEF FlatInit
<1>2. s \in Seq(Entries) /\ Len(s) <= MaxLen /\ (~flatMulti => Distinct(s))
  BY SourcePairs
<1>3. StableSort(s) \in Seq(Entries) /\ Len(StableSort(s)) = Len(s)
  BY <1>2, SortPermutes
<1>4. Ordered(StableSort(s)) /\ (Distinct(s) => Distinct(StableSort(s)))
  BY <1>2, SortOrders
<1> HIDE DEF StableSort
<1> QED BY <1>1, <1>2, <1>3, <1>4 DEF FlatInit, FlatInv

\* What an insertion does to one container.
LEMMA AddPairFacts ==
  ASSUME FlatInv, NEW m \in Maps, NEW k \in Keys, NEW v \in Items, AddPair(m, k, v),
         NEW t, t = InsertAt(flat[m], UpperBound(KeyOf(flat[m]), k), Pair(k, v))
  PROVE  /\ t \in Seq(Entries) /\ Len(t) <= MaxLen /\ Ordered(t) /\ flat' = [flat EXCEPT ![m] = t]
         /\ Distinct(flat[m]) /\ ~Present(KeyOf(flat[m]), k) => Distinct(t)
<1>1. flat[m] \in Seq(Entries) /\ Ordered(flat[m]) /\ Len(flat[m]) < MaxLen
  BY DEF FlatInv, AddPair
<1>2. /\ t \in Seq(Entries) /\ Len(t) = Len(flat[m]) + 1 /\ Ordered(t)
      /\ Distinct(flat[m]) /\ ~Present(KeyOf(flat[m]), k) => Distinct(t)
  BY <1>1, InsertKeepsOrder
<1>3. flat' = [flat EXCEPT ![m] = t]
  BY DEF AddPair, Become
<1> QED BY <1>1, <1>2, <1>3, FlatAssumption

\* An insertion of a key that a map does not have keeps the invariant.
LEMMA AddPairStep ==
  ASSUME FlatInv, UNCHANGED flatMulti, NEW m \in Maps, NEW k \in Keys, NEW v \in Items, AddPair(m, k, v),
         flatMulti \/ ~Present(KeyOf(flat[m]), k)
  PROVE  FlatInv'
<1> DEFINE t == InsertAt(flat[m], UpperBound(KeyOf(flat[m]), k), Pair(k, v))
<1>1. /\ t \in Seq(Entries) /\ Len(t) <= MaxLen /\ Ordered(t) /\ flat' = [flat EXCEPT ![m] = t]
      /\ Distinct(flat[m]) /\ ~Present(KeyOf(flat[m]), k) => Distinct(t)
  BY AddPairFacts
<1> HIDE DEF t
<1>2. ~flatMulti => Distinct(t)
  BY <1>1 DEF FlatInv
<1> QED BY <1>1, <1>2, BecomeKeeps

LEMMA MapInsertStep ==
  ASSUME FlatInv, UNCHANGED flatMulti, NEW m \in Maps, NEW k \in Keys, NEW v \in Items, MapInsert(m, k, v)
  PROVE  FlatInv'
<1>1. CASE ~flatMulti /\ Present(KeyOf(flat[m]), k)
  BY <1>1 DEF MapInsert, FlatInv
<1>2. CASE ~(~flatMulti /\ Present(KeyOf(flat[m]), k))
  <2>1. AddPair(m, k, v)
    BY <1>2 DEF MapInsert
  <2> QED BY <1>2, <2>1, AddPairStep
<1> QED BY <1>1, <1>2

\* An assignment to a key that is there gives its one pair another value.
LEMMA AssignFacts ==
  ASSUME FlatInv, NEW m \in Maps, NEW k \in Keys, NEW v \in Items, Present(KeyOf(flat[m]), k),
         NEW j, j = UpperBound(KeyOf(flat[m]), k) - 1, NEW t, t = WithValue(flat[m], j, v)
  PROVE  /\ j \in 1 .. Len(flat[m]) /\ flat[m][j].key = k
         /\ t \in Seq(Entries) /\ Len(t) = Len(flat[m]) /\ Ordered(t)
         /\ \A i \in 1 .. Len(flat[m]) : t[i].key = flat[m][i].key /\ t[i].value = IF i = j THEN v ELSE flat[m][i].value
         /\ Distinct(flat[m]) => Distinct(t)
<1> DEFINE s == flat[m]
           lo == LowerBound(KeyOf(s), k)
           up == UpperBound(KeyOf(s), k)
<1>1. s \in Seq(Entries) /\ Ordered(s)
  BY DEF FlatInv
<1>2. /\ lo \in 1 .. Len(s) + 1 /\ up \in 1 .. Len(s) + 1 /\ lo <= up
      /\ Places(s, k) = lo .. up - 1
      /\ Present(KeyOf(s), k) <=> lo < up
  BY <1>1, PlacesFound
<1>3. j \in 1 .. Len(s) /\ j \in Places(s, k)
  BY <1>1, <1>2
<1>4. s[j].key = k
  BY <1>3 DEF Places
<1> HIDE DEF s, lo, up
<1>5. /\ t \in Seq(Entries) /\ Len(t) = Len(s) /\ Ordered(t)
      /\ \A i \in 1 .. Len(s) : t[i].key = s[i].key /\ t[i].value = IF i = j THEN v ELSE s[i].value
      /\ Distinct(s) => Distinct(t)
  <2>1. t = WithValue(s, j, v)
    BY DEF s
  <2> HIDE DEF s
  <2> QED BY <1>1, <1>3, <2>1, AssignmentKeepsOrder
<1> QED BY <1>3, <1>4, <1>5 DEF s

LEMMA InsertOrAssignStep ==
  ASSUME FlatInv, UNCHANGED flatMulti, NEW m \in Maps, NEW k \in Keys, NEW v \in Items, InsertOrAssign(m, k, v)
  PROVE  FlatInv'
<1>1. CASE Present(KeyOf(flat[m]), k)
  <2> DEFINE j == UpperBound(KeyOf(flat[m]), k) - 1
             t == WithValue(flat[m], j, v)
  <2>2. flat' = [flat EXCEPT ![m] = t]
    BY <1>1 DEF InsertOrAssign, Become, WithValue
  <2> HIDE DEF t, j
  <2>1. t \in Seq(Entries) /\ Len(t) = Len(flat[m]) /\ Ordered(t) /\ (Distinct(flat[m]) => Distinct(t))
    BY <1>1, AssignFacts DEF t, j
  <2>3. Len(t) <= MaxLen /\ (~flatMulti => Distinct(t))
    BY <2>1 DEF FlatInv
  <2> QED BY <2>1, <2>2, <2>3, BecomeKeeps
<1>2. CASE ~Present(KeyOf(flat[m]), k)
  <2>1. AddPair(m, k, v)
    BY <1>2 DEF InsertOrAssign
  <2> QED BY <1>2, <2>1, AddPairStep
<1> QED BY <1>1, <1>2

\* Pairs that follow each other are taken out.
LEMMA RangeStep ==
  ASSUME FlatInv, UNCHANGED flatMulti, NEW m \in Maps,
         NEW a \in 1 .. Len(flat[m]) + 1, NEW b \in a .. Len(flat[m]) + 1,
         flat' = [flat EXCEPT ![m] = SubSeq(flat[m], 1, a - 1) \o SubSeq(flat[m], b, Len(flat[m]))]
  PROVE  FlatInv'
<1> DEFINE t == SubSeq(flat[m], 1, a - 1) \o SubSeq(flat[m], b, Len(flat[m]))
<1>1. flat[m] \in Seq(Entries) /\ Ordered(flat[m]) /\ Len(flat[m]) <= MaxLen
  BY DEF FlatInv
<1>2. t \in Seq(Entries) /\ Ordered(t) /\ Len(t) <= Len(flat[m]) /\ (Distinct(flat[m]) => Distinct(t))
  BY <1>1, RemovalKeepsOrder
<1>3. flat' = [flat EXCEPT ![m] = t]
  OBVIOUS
<1> HIDE DEF t
<1>4. Len(t) <= MaxLen /\ (~flatMulti => Distinct(t))
  BY <1>1, <1>2, FlatAssumption DEF FlatInv
<1> QED BY <1>2, <1>3, <1>4, BecomeKeeps

LEMMA EraseAtStep ==
  ASSUME FlatInv, UNCHANGED flatMulti, NEW m \in Maps, NEW i \in DOMAIN flat[m], EraseAt(m, i)
  PROVE  FlatInv'
<1>1. flat[m] \in Seq(Entries)
  BY DEF FlatInv
<1>2. i \in 1 .. Len(flat[m]) + 1 /\ i + 1 \in i .. Len(flat[m]) + 1
  BY <1>1
<1>3. flat' = [flat EXCEPT ![m] = SubSeq(flat[m], 1, i - 1) \o SubSeq(flat[m], i + 1, Len(flat[m]))]
  BY DEF EraseAt, Become, RemoveAt
<1> QED BY <1>2, <1>3, RangeStep

LEMMA EraseKeyFacts ==
  ASSUME FlatInv, NEW m \in Maps, NEW k \in Keys, EraseKey(m, k),
         NEW lo, lo = LowerBound(KeyOf(flat[m]), k), NEW up, up = UpperBound(KeyOf(flat[m]), k)
  PROVE  /\ lo \in 1 .. Len(flat[m]) + 1 /\ up \in lo .. Len(flat[m]) + 1 /\ Places(flat[m], k) = lo .. up - 1
         /\ flatMulti => flat' = [flat EXCEPT ![m] = SubSeq(flat[m], 1, lo - 1) \o SubSeq(flat[m], up, Len(flat[m]))]
         /\ ~flatMulti => lo < up /\ lo \in DOMAIN flat[m] /\ EraseAt(m, lo)
<1> DEFINE s == flat[m]
<1>1. s \in Seq(Entries) /\ Ordered(s)
  BY DEF FlatInv
<1>2. /\ lo \in 1 .. Len(s) + 1 /\ up \in 1 .. Len(s) + 1 /\ lo <= up
      /\ DOMAIN KeyOf(s) = 1 .. Len(s) /\ Len(KeyOf(s)) = Len(s)
      /\ Places(s, k) = lo .. up - 1
      /\ Found(KeyOf(s), k) = IF lo < up THEN lo ELSE Len(s) + 1
      /\ Found(KeyOf(s), k) \in DOMAIN KeyOf(s) <=> lo < up
      /\ Cardinality(EqualRun(KeyOf(s), k)) = up - lo
  BY <1>1, PlacesFound
<1>3. CASE flatMulti
  <2>1. flat' = [flat EXCEPT ![m] = SubSeq(s, 1, lo - 1) \o SubSeq(s, lo + (up - lo), Len(s))]
    BY <1>2, <1>3 DEF EraseKey, Become
  <2>2. lo + (up - lo) = up /\ up \in lo .. Len(s) + 1
    BY <1>2
  <2>3. flat' = [flat EXCEPT ![m] = SubSeq(s, 1, lo - 1) \o SubSeq(s, up, Len(s))]
    BY <2>1, <2>2, Zenon
  <2> QED BY <1>2, <1>3, <2>2, <2>3
<1>4. CASE ~flatMulti
  <2>1. Found(KeyOf(s), k) \in DOMAIN KeyOf(s) /\ EraseAt(m, Found(KeyOf(s), k))
    BY <1>4 DEF EraseKey
  <2>2. lo < up /\ lo \in 1 .. Len(s) /\ Found(KeyOf(s), k) = lo
    BY <1>1, <1>2, <2>1
  <2> QED BY <1>1, <1>2, <1>4, <2>1, <2>2
<1> QED BY <1>3, <1>4

LEMMA EraseKeyStep ==
  ASSUME FlatInv, UNCHANGED flatMulti, NEW m \in Maps, NEW k \in Keys, EraseKey(m, k)
  PROVE  FlatInv'
<1> DEFINE lo == LowerBound(KeyOf(flat[m]), k)
           up == UpperBound(KeyOf(flat[m]), k)
<1>1. /\ lo \in 1 .. Len(flat[m]) + 1 /\ up \in lo .. Len(flat[m]) + 1
      /\ flatMulti => flat' = [flat EXCEPT ![m] = SubSeq(flat[m], 1, lo - 1) \o SubSeq(flat[m], up, Len(flat[m]))]
      /\ ~flatMulti => lo \in DOMAIN flat[m] /\ EraseAt(m, lo)
  BY EraseKeyFacts
<1> HIDE DEF lo, up
<1>2. CASE flatMulti
  BY <1>1, <1>2, RangeStep
<1>3. CASE ~flatMulti
  BY <1>1, <1>3, EraseAtStep
<1> QED BY <1>2, <1>3

\* A pair with another key, and the container sorted again.
LEMMA ChangeKeyFacts ==
  ASSUME NEW s \in Seq(Entries), NEW i \in 1 .. Len(s), NEW k \in Keys,
         NEW t, t = WithKey(s, i, k)
  PROVE  /\ t \in Seq(Entries) /\ Len(t) = Len(s)
         /\ \A j \in 1 .. Len(s) : t[j].key = (IF j = i THEN k ELSE s[j].key) /\ t[j].value = s[j].value
         /\ Distinct(s) /\ (\A j \in 1 .. Len(s) : s[j].key # k) => Distinct(t)
<1> DEFINE n == Len(s)
<1>1. n \in Nat /\ DOMAIN s = 1 .. n /\ \A j \in 1 .. n : s[j] \in Entries /\ s[j].key \in Int
  BY EntryFacts
<1>2. /\ DOMAIN t = 1 .. n /\ t = [j \in 1 .. n |-> t[j]]
      /\ \A j \in 1 .. n : t[j] = IF j = i THEN [s[i] EXCEPT !.key = k] ELSE s[j]
  BY <1>1 DEF WithKey
<1>3. [s[i] EXCEPT !.key = k] \in Entries /\ [s[i] EXCEPT !.key = k].key = k /\ [s[i] EXCEPT !.key = k].value = s[i].value
  BY <1>1 DEF Entries
<1>4. t \in [1 .. n -> Entries]
  BY <1>1, <1>2, <1>3
<1>5. t \in Seq(Entries) /\ Len(t) = n
  <2>1. \A q \in [1 .. n -> Entries] : q \in Seq(Entries) /\ Len(q) = n
    BY <1>1
  <2> QED BY <1>4, <2>1
<1>6. \A j \in 1 .. n : t[j].key = (IF j = i THEN k ELSE s[j].key) /\ t[j].value = s[j].value
  BY <1>2, <1>3
<1> QED BY <1>1, <1>2, <1>5, <1>6 DEF Distinct

LEMMA ChangeKeyStep ==
  ASSUME FlatInv, UNCHANGED flatMulti, NEW m \in Maps, NEW i \in DOMAIN flat[m], NEW k \in Keys, ChangeKey(m, i, k)
  PROVE  FlatInv'
<1> DEFINE s == flat[m]
           t == WithKey(s, i, k)
<1>1. s \in Seq(Entries) /\ Len(s) <= MaxLen /\ (~flatMulti => Distinct(s)) /\ i \in 1 .. Len(s) /\ DOMAIN s = 1 .. Len(s)
  BY DEF FlatInv
<1>2. /\ t \in Seq(Entries) /\ Len(t) = Len(s)
      /\ Distinct(s) /\ (\A j \in 1 .. Len(s) : s[j].key # k) => Distinct(t)
  <2> HIDE DEF s
  <2> QED BY <1>1, ChangeKeyFacts
<1>3. flat' = [flat EXCEPT ![m] = StableSort(t)] /\ (flatMulti \/ \A j \in 1 .. Len(s) : s[j].key # k)
  BY <1>1 DEF ChangeKey, Become, WithKey
<1> HIDE DEF t, s
<1>4. StableSort(t) \in Seq(Entries) /\ Len(StableSort(t)) = Len(t)
  BY <1>2, SortPermutes
<1>5. Ordered(StableSort(t)) /\ (Distinct(t) => Distinct(StableSort(t)))
  BY <1>2, SortOrders
<1> DEFINE u == StableSort(t)
<1>6. u \in Seq(Entries) /\ Len(u) <= MaxLen /\ Ordered(u) /\ (~flatMulti => Distinct(u)) /\ flat' = [flat EXCEPT ![m] = u]
  BY <1>1, <1>2, <1>3, <1>4, <1>5
<1> HIDE DEF u
<1> QED BY <1>6, BecomeKeeps

LEMMA SubscriptStep ==
  ASSUME FlatInv, UNCHANGED flatMulti, NEW m \in Maps, NEW k \in Keys, Subscript(m, k)
  PROVE  FlatInv'
<1>1. DefaultItem \in Items /\ MapInsert(m, k, DefaultItem)
  BY FlatAssumption DEF Subscript
<1> QED BY <1>1, MapInsertStep

\* What a container holds, from the invariant.
LEMMA HeldFacts ==
  ASSUME FlatInv, NEW m \in Maps
  PROVE  flat[m] \in Seq(Entries) /\ Len(flat[m]) <= MaxLen /\ Ordered(flat[m]) /\ (~flatMulti => Distinct(flat[m]))
BY DEF FlatInv

\* Clearing, assigning, moving and swapping.
LEMMA WholeSteps ==
  ASSUME FlatInv, UNCHANGED flatMulti, NEW m \in Maps
  PROVE  /\ FlatClear(m) => FlatInv'
         /\ \A n \in Maps \ {m} : FlatCopy(m, n) \/ FlatMove(m, n) \/ FlatSwap(m, n) \/ FlatClearBoth(m, n) => FlatInv'
<1>1. ASSUME FlatClear(m) PROVE FlatInv'
  BY <1>1, BecomeKeeps, EmptyKept DEF FlatClear, Become
<1>2. ASSUME NEW n \in Maps \ {m}, FlatCopy(m, n) PROVE FlatInv'
  BY <1>2, BecomeKeeps, HeldFacts DEF FlatCopy, Become
<1>3. ASSUME NEW n \in Maps \ {m}, FlatMove(m, n) PROVE FlatInv'
  BY <1>3, BothKeep, HeldFacts, EmptyKept DEF FlatMove
<1>4. ASSUME NEW n \in Maps \ {m}, FlatSwap(m, n) PROVE FlatInv'
  BY <1>4, BothKeep, HeldFacts DEF FlatSwap
<1>5. ASSUME NEW n \in Maps \ {m}, FlatClearBoth(m, n) PROVE FlatInv'
  BY <1>5, BothKeep, EmptyKept DEF FlatClearBoth
<1> QED BY <1>1, <1>2, <1>3, <1>4, <1>5

LEMMA FlatStep ==
  ASSUME FlatInv, FlatNext
  PROVE  FlatInv'
<1>1. UNCHANGED flatMulti
  BY DEF FlatNext
<1>2. ASSUME NEW m \in Maps, NEW k \in Keys, NEW v \in Items, MapInsert(m, k, v) PROVE FlatInv'
  BY <1>1, <1>2, MapInsertStep
<1>3. ASSUME NEW m \in Maps, NEW k \in Keys, NEW v \in Items, InsertOrAssign(m, k, v) PROVE FlatInv'
  BY <1>1, <1>3, InsertOrAssignStep
<1>4. ASSUME NEW m \in Maps, NEW k \in Keys, Subscript(m, k) PROVE FlatInv'
  BY <1>1, <1>4, SubscriptStep
<1>5. ASSUME NEW m \in Maps, NEW k \in Keys, EraseKey(m, k) PROVE FlatInv'
  BY <1>1, <1>5, EraseKeyStep
<1>6. ASSUME NEW m \in Maps, NEW i \in DOMAIN flat[m], EraseAt(m, i) PROVE FlatInv'
  BY <1>1, <1>6, EraseAtStep
<1>7. ASSUME NEW m \in Maps, NEW i \in DOMAIN flat[m], NEW k \in Keys, ChangeKey(m, i, k) PROVE FlatInv'
  BY <1>1, <1>7, ChangeKeyStep
<1>8. ASSUME NEW m \in Maps, FlatClear(m) PROVE FlatInv'
  BY <1>1, <1>8, WholeSteps
<1>9. ASSUME NEW m \in Maps, NEW n \in Maps \ {m}, FlatCopy(m, n) \/ FlatMove(m, n) \/ FlatSwap(m, n) PROVE FlatInv'
  BY <1>1, <1>9, WholeSteps
<1> QED BY <1>2, <1>3, <1>4, <1>5, <1>6, <1>7, <1>8, <1>9 DEF FlatNext

(***************************************************************************)
(* Looking up and walking, from the invariant                              *)
(***************************************************************************)

\* A key that no two pairs share has one place at most.
LEMMA OneValue ==
  ASSUME NEW s \in Seq(Entries), Ordered(s), Distinct(s), NEW k \in Keys
  PROVE  /\ UpperBound(KeyOf(s), k) - LowerBound(KeyOf(s), k) \in {0, 1}
         /\ Cardinality(Places(s, k)) <= 1
         /\ Len(ValuesFor(s, k)) <= 1
<1> DEFINE n == Len(s)
           lo == LowerBound(KeyOf(s), k)
           up == UpperBound(KeyOf(s), k)
<1>1. n \in Nat /\ DOMAIN s = 1 .. n /\ \A i \in 1 .. n : s[i] \in Entries /\ s[i].key \in Int
  BY EntryFacts
<1>2. lo \in 1 .. n + 1 /\ up \in 1 .. n + 1 /\ lo <= up /\ Places(s, k) = lo .. up - 1
  BY PlacesFound
<1>3. ValuesFor(s, k) \in Seq(Items) /\ Len(ValuesFor(s, k)) = up - lo
  BY ValuesBetween
<1>4. ASSUME lo + 1 < up PROVE FALSE
  <2>1. lo \in Places(s, k) /\ lo + 1 \in Places(s, k)
    BY <1>2, <1>4
  <2>2. s[lo].key = s[lo + 1].key /\ lo \in 1 .. n /\ lo + 1 \in 1 .. n
    BY <2>1 DEF Places
  <2> QED BY <1>1, <1>2, <2>2 DEF Distinct
<1>5. up - lo \in {0, 1}
  BY <1>2, <1>4
<1>6. Cardinality(Places(s, k)) = up - lo
  BY <1>2, FS_Interval
<1> QED BY <1>3, <1>5, <1>6

\* Where the keys differ, the place that at() looks at is that of the least key that is not smaller.
LEMMA AtFinds ==
  ASSUME NEW s \in Seq(Entries), Ordered(s), Distinct(s), NEW k \in Keys, NEW lo, lo = LowerBound(KeyOf(s), k),
         NEW answer, answer = IF lo \in 1 .. Len(s) THEN <<s[lo].value>> ELSE <<>>
  PROVE  AtMeets(s, k, answer)
<1> DEFINE n == Len(s)
           later == {h \in Keys : k <= h /\ ValuesFor(s, h) # <<>>}
<1>1. /\ n \in Nat /\ k \in Int /\ Keys \subseteq Int
      /\ \A i \in 1 .. n : s[i] \in Entries /\ s[i].key \in Keys /\ s[i].key \in Int
  BY EntryFacts, FlatAssumption DEF Entries
<1>2. lo \in 1 .. n + 1 /\ \A i \in 1 .. n : s[i].key < k <=> i < lo
  BY PlacesFound
<1>3. ASSUME NEW h \in Keys, NEW i \in 1 .. n, s[i].key = h
      PROVE  ValuesFor(s, h) = <<s[i].value>>
  <2> DEFINE a == LowerBound(KeyOf(s), h)
             b == UpperBound(KeyOf(s), h)
  <2>1. a \in 1 .. n + 1 /\ b \in 1 .. n + 1 /\ \A j \in 1 .. n : (s[j].key < h <=> j < a) /\ (s[j].key <= h <=> j < b)
    BY PlacesFound
  <2>2. b - a \in {0, 1}
    BY OneValue
  <2>3. /\ ValuesFor(s, h) \in Seq(Items) /\ Len(ValuesFor(s, h)) = b - a
        /\ \A r \in 1 .. b - a : ValuesFor(s, h)[r] = s[a + r - 1].value
    BY ValuesBetween
  <2> HIDE DEF a, b, n
  <2>4. a = i /\ b - a = 1
    BY <1>1, <1>3, <2>1, <2>2
  <2>5. ValuesFor(s, h)[1] = s[i].value
    BY <1>1, <1>2, <2>3, <2>4
  <2>6. \A q \in Seq(Items) : Len(q) = 1 => q = <<q[1]>>
    OBVIOUS
  <2> QED BY <2>3, <2>4, <2>5, <2>6
<1>4. ASSUME NEW h \in later PROVE \E i \in 1 .. n : s[i].key = h /\ lo <= i
  <2> DEFINE a == LowerBound(KeyOf(s), h)
             b == UpperBound(KeyOf(s), h)
  <2>1. h \in Keys /\ h \in Int /\ k <= h /\ ValuesFor(s, h) # <<>>
    BY <1>1
  <2>2. a \in 1 .. n + 1 /\ b \in 1 .. n + 1 /\ a <= b /\ \A j \in 1 .. n : (s[j].key < h <=> j < a) /\ (s[j].key <= h <=> j < b)
    BY <2>1, PlacesFound
  <2>3. ValuesFor(s, h) \in Seq(Items) /\ Len(ValuesFor(s, h)) = b - a
    BY <2>1, ValuesBetween
  <2> HIDE DEF a, b, n, later
  <2>4. a < b
    <3>1. \A q \in Seq(Items) : Len(q) = 0 => q = <<>>
      OBVIOUS
    <3> QED BY <2>1, <2>2, <2>3, <3>1
  <2>5. a \in 1 .. n /\ ~(s[a].key < h) /\ s[a].key <= h
    BY <1>1, <2>2, <2>4
  <2>6. s[a].key = h
    BY <1>1, <2>1, <2>5
  <2>7. lo <= a
    BY <1>1, <1>2, <2>1, <2>5, <2>6
  <2> QED BY <2>5, <2>6, <2>7
<1>5. CASE lo \in 1 .. n
  <2> DEFINE h == s[lo].key
  <2>1. h \in Keys /\ ValuesFor(s, h) = <<s[lo].value>> /\ answer = <<s[lo].value>>
    BY <1>1, <1>3, <1>5
  <2>2. k <= h
    BY <1>1, <1>2, <1>5
  <2>3. <<s[lo].value>> # <<>>
    OBVIOUS
  <2>4. h \in later
    BY <2>1, <2>2, <2>3
  <2>5. ASSUME NEW g \in later PROVE h <= g
    <3>1. PICK i \in 1 .. n : s[i].key = g /\ lo <= i
      BY <1>4
    <3>2. CASE i = lo
      BY <1>1, <3>1, <3>2
    <3>3. CASE i # lo
      BY <1>1, <1>2, <1>5, <3>1, <3>3 DEF Ordered
    <3> QED BY <3>2, <3>3
  <2> HIDE DEF later, h
  <2>6. \E x \in later : (\A g \in later : x <= g) /\ answer = ValuesFor(s, x)
    BY <2>1, <2>4, <2>5
  <2> QED BY <2>6 DEF AtMeets, later
<1>6. CASE lo \notin 1 .. n
  <2>1. answer = <<>>
    BY <1>6
  <2> HIDE DEF later
  <2>2. later = {}
    BY <1>2, <1>4, <1>6
  <2> QED BY <2>1, <2>2 DEF AtMeets, later
<1> QED BY <1>5, <1>6

LEMMA LookupsRight ==
  ASSUME FlatInv
  PROVE  LookupsAgree
<1> SUFFICES ASSUME NEW m \in Maps, NEW k \in Keys
             PROVE  LET keys   == KeyOf(flat[m])
                        places == {i \in DOMAIN keys : keys[i] = k}
                    IN /\ LowerBound(keys, k) .. UpperBound(keys, k) - 1 = places
                       /\ Found(keys, k) \in DOMAIN keys <=> places # {}
                       /\ Found(keys, k) \in DOMAIN keys => Found(keys, k) \in places
                       /\ CountMulti(keys, k) = Cardinality(places)
                       /\ ~flatMulti => CountUnique(keys, k) = Cardinality(places)
  BY DEF LookupsAgree
<1> DEFINE s == flat[m]
           keys == KeyOf(s)
           places == {i \in DOMAIN keys : keys[i] = k}
           lo == LowerBound(keys, k)
           up == UpperBound(keys, k)
<1>1. s \in Seq(Entries) /\ Ordered(s) /\ (~flatMulti => Distinct(s))
  BY HeldFacts
<1>2. /\ lo \in 1 .. Len(s) + 1 /\ up \in 1 .. Len(s) + 1 /\ lo <= up
      /\ DOMAIN keys = 1 .. Len(s)
      /\ \A i \in 1 .. Len(s) : keys[i] = s[i].key
      /\ Places(s, k) = lo .. up - 1
      /\ Found(keys, k) = IF lo < up THEN lo ELSE Len(s) + 1
      /\ Found(keys, k) \in DOMAIN keys <=> lo < up
      /\ CountMulti(keys, k) = up - lo
  BY <1>1, PlacesFound
<1>3. places = Places(s, k)
  BY <1>2 DEF Places
<1>4. Cardinality(places) = up - lo
  <2> HIDE DEF places, keys, lo, up
  <2>1. places = lo .. up - 1 /\ lo \in Int /\ up \in Int /\ up - 1 \in Int /\ ~(lo > up)
    BY <1>2, <1>3
  <2>2. Cardinality(lo .. up - 1) = IF lo > up - 1 THEN 0 ELSE (up - 1) - lo + 1
    BY <2>1, FS_Interval
  <2> QED BY <2>1, <2>2
<1>5. ~flatMulti => up - lo \in {0, 1}
  BY <1>1, OneValue
<1> HIDE DEF places, keys, lo, up
<1>6. places # {} <=> lo < up
  BY <1>2, <1>3
<1>7. Found(keys, k) \in DOMAIN keys => Found(keys, k) \in places
  BY <1>2, <1>3
<1>8. ~flatMulti => CountUnique(keys, k) = Cardinality(places)
  BY <1>2, <1>4, <1>5 DEF CountUnique
<1> QED BY <1>2, <1>3, <1>4, <1>6, <1>7, <1>8 DEF places, keys, lo, up, s

LEMMA WalksRight ==
  ASSUME FlatInv
  PROVE  WalksAgree
<1> SUFFICES ASSUME NEW m \in Maps
             PROVE  LET all == Walk(flat[m], FlatBegin(m), FlatEnd(m)) IN
                    /\ all = StableSort(flat[m])
                    /\ Reverse(WalkBack(flat[m], FlatEnd(m), FlatBegin(m))) = all
                    /\ \A k \in Keys :
                         LET range == EqualRange(KeyOf(flat[m]), k)
                             met == Walk(flat[m], range[1], range[2])
                         IN  /\ [i \in DOMAIN met |-> met[i].value] = ValuesFor(flat[m], k)
                             /\ ~flatMulti => AtMeets(flat[m], k, FlatAt(m, k))
  BY DEF WalksAgree
<1> DEFINE s == flat[m]
<1>1. s \in Seq(Entries) /\ Ordered(s) /\ (~flatMulti => Distinct(s))
  BY HeldFacts
<1>2. /\ Walk(s, FlatBegin(m), FlatEnd(m)) = StableSort(s)
      /\ Reverse(WalkBack(s, FlatEnd(m), FlatBegin(m))) = Walk(s, FlatBegin(m), FlatEnd(m))
  <2>1. Walk(s, 1, Len(s) + 1) = StableSort(s) /\ Reverse(WalkBack(s, Len(s) + 1, 1)) = s
    BY <1>1, WalkMeetsAll
  <2>2. StableSort(s) = s
    BY <1>1, SortedStays
  <2> QED BY <2>1, <2>2 DEF FlatBegin, FlatEnd
<1>3. ASSUME NEW k \in Keys
      PROVE  LET met == Walk(s, EqualRange(KeyOf(s), k)[1], EqualRange(KeyOf(s), k)[2])
             IN  /\ [i \in DOMAIN met |-> met[i].value] = ValuesFor(s, k)
                 /\ ~flatMulti => AtMeets(s, k, FlatAt(m, k))
  <2> DEFINE lo == LowerBound(KeyOf(s), k)
             up == UpperBound(KeyOf(s), k)
             met == Walk(s, lo, up)
  <2>1. /\ lo \in 1 .. Len(s) + 1 /\ up \in 1 .. Len(s) + 1 /\ lo <= up
        /\ DOMAIN KeyOf(s) = 1 .. Len(s)
        /\ EqualRange(KeyOf(s), k)[1] = lo /\ EqualRange(KeyOf(s), k)[2] = up
    BY <1>1, PlacesFound
  <2>2. [i \in DOMAIN met |-> met[i].value] = ValuesFor(s, k) /\ (met = <<>> <=> ~(lo < up))
    BY <1>1, WalkMeetsValues
  <2>5. ASSUME ~flatMulti PROVE AtMeets(s, k, FlatAt(m, k))
    <3>1. DOMAIN KeyOf(s) = DOMAIN s /\ DOMAIN s = 1 .. Len(s)
      BY <1>1, <2>1
    <3>2. FlatAt(m, k) = IF lo \in 1 .. Len(s) THEN <<s[lo].value>> ELSE <<>>
      BY <2>1, <3>1 DEF FlatAt, ValueAt
    <3> HIDE DEF s, lo
    <3> QED BY <1>1, <2>5, <3>2, AtFinds DEF lo
  <2> HIDE DEF lo, up
  <2> QED BY <2>1, <2>2, <2>5
<1> QED BY <1>2, <1>3

LEMMA FlatInvSafe ==
  ASSUME FlatInv
  PROVE  FlatSafe
<1>1. FlatTypeOK
  BY HeldFacts, EntryFacts DEF FlatTypeOK, FlatInv, Entries
<1> QED BY <1>1, LookupsRight, WalksRight DEF FlatSafe

(***************************************************************************)
(* Two containers matched by index                                         *)
(***************************************************************************)

\* The operators of the container of pairs, as the refinement uses them, are those proved about here.
LEMMA SameOperators ==
  /\ \A s : F!KeyOf(s) = KeyOf(s) /\ F!StableSort(s) = StableSort(s) /\ (F!Distinct(s) <=> Distinct(s))
  /\ \A s, k : /\ F!LowerBound(s, k) = LowerBound(s, k) /\ F!UpperBound(s, k) = UpperBound(s, k)
               /\ F!Found(s, k) = Found(s, k) /\ (F!Present(s, k) <=> Present(s, k))
               /\ F!EqualRun(s, k) = EqualRun(s, k) /\ F!ValuesFor(s, k) = ValuesFor(s, k)
               /\ F!Pair(s, k) = Pair(s, k) /\ F!RemoveAt(s, k) = RemoveAt(s, k)
  /\ \A s, i, e : F!InsertAt(s, i, e) = InsertAt(s, i, e) /\ (F!AtMeets(s, i, e) <=> AtMeets(s, i, e))
<1>0. \A S : F!Cardinality(S) = Cardinality(S)
  BY Zenon DEF Cardinality, F!Cardinality
<1>1. \A s : F!KeyOf(s) = KeyOf(s) /\ F!StableSort(s) = StableSort(s) /\ (F!Distinct(s) <=> Distinct(s))
  <2> TAKE s
  <2>1. F!KeyOf(s) = KeyOf(s) /\ (F!Distinct(s) <=> Distinct(s))
    BY Zenon DEF KeyOf, F!KeyOf, Distinct, F!Distinct
  <2>2. F!StableSort(s) = StableSort(s)
    <3> DEFINE Before(i, j) == s[i].key < s[j].key \/ (s[i].key = s[j].key /\ i < j)
               P(i) == 1 + Cardinality({j \in DOMAIN s : Before(j, i)})
               Q(i) == 1 + F!Cardinality({j \in DOMAIN s : Before(j, i)})
    <3>1. StableSort(s) = [p \in DOMAIN s |-> s[CHOOSE i \in DOMAIN s : P(i) = p]]
      BY Zenon DEF StableSort
    <3>2. F!StableSort(s) = [p \in DOMAIN s |-> s[CHOOSE i \in DOMAIN s : Q(i) = p]]
      BY Zenon DEF F!StableSort
    <3>3. \A i : P(i) = Q(i)
      BY <1>0, Zenon
    <3> HIDE DEF P, Q
    <3>4. \A p : (CHOOSE i \in DOMAIN s : P(i) = p) = (CHOOSE i \in DOMAIN s : Q(i) = p)
      BY <3>3, Zenon
    <3> HIDE DEF Before
    <3> QED BY <3>1, <3>2, <3>4, SMT
  <2> QED BY <2>1, <2>2
<1>2. \A s, k : F!LowerBound(s, k) = LowerBound(s, k) /\ F!UpperBound(s, k) = UpperBound(s, k) /\ F!Pair(s, k) = Pair(s, k)
  BY <1>0, Zenon DEF LowerBound, F!LowerBound, UpperBound, F!UpperBound, Pair, F!Pair
<1>3. \A s, k : F!Found(s, k) = Found(s, k) /\ (F!Present(s, k) <=> Present(s, k)) /\ F!EqualRun(s, k) = EqualRun(s, k)
  BY <1>2, Zenon DEF Found, F!Found, Present, F!Present, EqualRun, F!EqualRun
<1>4. \A s, k : F!ValuesFor(s, k) = ValuesFor(s, k)
  BY Zenon DEF ValuesFor, F!ValuesFor
<1>5. (\A s, k : F!RemoveAt(s, k) = RemoveAt(s, k)) /\ \A s, i, e : F!InsertAt(s, i, e) = InsertAt(s, i, e)
  BY Zenon DEF RemoveAt, F!RemoveAt, InsertAt, F!InsertAt
<1>6. \A s, i, e : F!AtMeets(s, i, e) <=> AtMeets(s, i, e)
  BY <1>4, Zenon DEF AtMeets, F!AtMeets
<1> QED BY <1>1, <1>2, <1>3, <1>4, <1>5, <1>6

\* The pairs of keys and values with the same index.
PairsOf(ks, vs) == [i \in DOMAIN ks |-> [key |-> ks[i], value |-> vs[i]]]

\* As many values as keys.
Matched(ks, vs) == ks \in Seq(Keys) /\ vs \in Seq(Items) /\ Len(ks) = Len(vs)

LEMMA PairsOfFacts ==
  ASSUME NEW ks, NEW vs, Matched(ks, vs), NEW s, s = PairsOf(ks, vs)
  PROVE  /\ s \in Seq(Entries) /\ Len(s) = Len(ks) /\ Len(s) = Len(vs) /\ DOMAIN s = DOMAIN ks /\ DOMAIN s = 1 .. Len(s)
         /\ \A i \in 1 .. Len(s) : s[i] = Pair(ks[i], vs[i])
         /\ KeyOf(s) = ks /\ [i \in DOMAIN s |-> s[i].value] = vs
<1>1. /\ Len(ks) \in Nat /\ Len(ks) = Len(vs) /\ DOMAIN ks = 1 .. Len(ks) /\ DOMAIN vs = 1 .. Len(ks)
      /\ \A i \in 1 .. Len(ks) : ks[i] \in Keys /\ vs[i] \in Items
      /\ ks = [i \in 1 .. Len(ks) |-> ks[i]] /\ vs = [i \in 1 .. Len(ks) |-> vs[i]]
  BY DEF Matched
<1>2. s = [i \in 1 .. Len(ks) |-> Pair(ks[i], vs[i])]
  BY <1>1 DEF PairsOf, Pair
<1>3. s \in [1 .. Len(ks) -> Entries] /\ \A i \in 1 .. Len(ks) : s[i] = Pair(ks[i], vs[i])
  <2>1. \A k \in Keys, v \in Items : Pair(k, v) \in Entries
    BY DEF Entries, Pair
  <2>2. \A i \in 1 .. Len(ks) : s[i] = Pair(ks[i], vs[i])
    BY <1>2
  <2> QED BY <1>1, <1>2, <2>1, <2>2
<1>4. s \in Seq(Entries) /\ Len(s) = Len(ks) /\ DOMAIN s = 1 .. Len(ks)
  <2>1. \A q \in [1 .. Len(ks) -> Entries] : q \in Seq(Entries) /\ Len(q) = Len(ks)
    BY <1>1
  <2> QED BY <1>3, <2>1
<1>5. KeyOf(s) = ks /\ [i \in DOMAIN s |-> s[i].value] = vs
  <2>1. \A i \in 1 .. Len(ks) : s[i].key = ks[i] /\ s[i].value = vs[i]
    BY <1>2 DEF Pair
  <2>2. KeyOf(s) = [i \in 1 .. Len(ks) |-> ks[i]]
    BY <1>4, <2>1 DEF KeyOf
  <2>3. [i \in DOMAIN s |-> s[i].value] = [i \in 1 .. Len(ks) |-> vs[i]]
    BY <1>4, <2>1
  <2> QED BY <1>1, <2>2, <2>3
<1> QED BY <1>1, <1>3, <1>4, <1>5

\* One pair more at the same place of both.
LEMMA PairsInserted ==
  ASSUME NEW ks, NEW vs, Matched(ks, vs), NEW i \in 1 .. Len(ks) + 1, NEW k \in Keys, NEW v \in Items
  PROVE  /\ Matched(InsertAt(ks, i, k), InsertAt(vs, i, v)) /\ Len(InsertAt(ks, i, k)) = Len(ks) + 1
         /\ PairsOf(InsertAt(ks, i, k), InsertAt(vs, i, v)) = InsertAt(PairsOf(ks, vs), i, Pair(k, v))
<1> DEFINE a == InsertAt(ks, i, k)
           b == InsertAt(vs, i, v)
           s == PairsOf(ks, vs)
           t == PairsOf(a, b)
           u == InsertAt(s, i, Pair(k, v))
           n == Len(ks)
<1>1. ks \in Seq(Keys) /\ vs \in Seq(Items) /\ Len(ks) = Len(vs) /\ n \in Nat
  BY DEF Matched
<1>2. /\ a \in Seq(Keys) /\ Len(a) = n + 1
      /\ \A j \in 1 .. n + 1 : a[j] = IF j < i THEN ks[j] ELSE IF j = i THEN k ELSE ks[j - 1]
  <2>1. a \in Seq(Keys) /\ OneLonger(a, ks, i, k)
    BY <1>1, InsertedElement
  <2> HIDE DEF a
  <2> QED BY <2>1 DEF OneLonger
<1>3. /\ b \in Seq(Items) /\ Len(b) = n + 1
      /\ \A j \in 1 .. n + 1 : b[j] = IF j < i THEN vs[j] ELSE IF j = i THEN v ELSE vs[j - 1]
  <2>1. b \in Seq(Items) /\ OneLonger(b, vs, i, v)
    BY <1>1, InsertedElement
  <2> HIDE DEF b
  <2> QED BY <1>1, <2>1 DEF OneLonger
<1>4. Matched(a, b)
  BY <1>2, <1>3 DEF Matched
<1>5. s \in Seq(Entries) /\ Len(s) = n /\ \A j \in 1 .. n : s[j] = Pair(ks[j], vs[j])
  BY PairsOfFacts
<1>6. t \in Seq(Entries) /\ Len(t) = n + 1 /\ \A j \in 1 .. n + 1 : t[j] = Pair(a[j], b[j])
  <2> HIDE DEF a, b
  <2> QED BY <1>2, <1>4, PairsOfFacts
<1>7. /\ u \in Seq(Entries) /\ Len(u) = n + 1
      /\ \A j \in 1 .. n + 1 : u[j] = IF j < i THEN s[j] ELSE IF j = i THEN Pair(k, v) ELSE s[j - 1]
  <2>1. Pair(k, v) \in Entries
    BY DEF Pair, Entries
  <2> HIDE DEF s
  <2>2. u \in Seq(Entries) /\ OneLonger(u, s, i, Pair(k, v))
    BY <1>5, <2>1, InsertedElement
  <2> HIDE DEF u
  <2> QED BY <1>5, <2>2 DEF OneLonger
<1>8. ASSUME NEW j \in 1 .. n + 1 PROVE t[j] = u[j]
  <2> HIDE DEF a, b, s, t, u, n
  <2>1. CASE j < i
    <3>1. j \in 1 .. n
      BY <1>1, <2>1 DEF n
    <3>2. a[j] = ks[j] /\ b[j] = vs[j] /\ u[j] = s[j]
      BY <1>2, <1>3, <1>7, <2>1
    <3> QED BY <1>5, <1>6, <3>1, <3>2
  <2>2. CASE j = i
    <3>1. a[j] = k /\ b[j] = v /\ u[j] = Pair(k, v)
      BY <1>2, <1>3, <1>7, <2>2
    <3> QED BY <1>6, <3>1
  <2>3. CASE ~(j < i) /\ j # i
    <3>1. j - 1 \in 1 .. n
      BY <1>1, <2>3 DEF n
    <3>2. a[j] = ks[j - 1] /\ b[j] = vs[j - 1] /\ u[j] = s[j - 1]
      BY <1>2, <1>3, <1>7, <2>3
    <3> QED BY <1>5, <1>6, <3>1, <3>2
  <2> QED BY <2>1, <2>2, <2>3
<1> HIDE DEF a, b, s, t, u
<1>9. t = u
  BY <1>6, <1>7, <1>8, SameSequence
<1> QED BY <1>2, <1>4, <1>9 DEF a, b, s, t, u

\* The same places taken out of both.
LEMMA PairsLeft ==
  ASSUME NEW ks, NEW vs, Matched(ks, vs), NEW i \in 1 .. Len(ks) + 1, NEW j \in i .. Len(ks) + 1
  PROVE  LET Rest(q) == SubSeq(q, 1, i - 1) \o SubSeq(q, j, Len(q))
         IN  Matched(Rest(ks), Rest(vs)) /\ PairsOf(Rest(ks), Rest(vs)) = Rest(PairsOf(ks, vs))
<1> DEFINE a == SubSeq(ks, 1, i - 1) \o SubSeq(ks, j, Len(ks))
           b == SubSeq(vs, 1, i - 1) \o SubSeq(vs, j, Len(vs))
           s == PairsOf(ks, vs)
           t == PairsOf(a, b)
           u == SubSeq(s, 1, i - 1) \o SubSeq(s, j, Len(s))
           n == Len(ks)
           d == j - i
<1>1. ks \in Seq(Keys) /\ vs \in Seq(Items) /\ Len(vs) = n /\ n \in Nat /\ d \in Nat /\ n - d \in Nat
  BY DEF Matched
<1>2. /\ a \in Seq(Keys) /\ Len(a) = n - d
      /\ \A x \in 1 .. n - d : a[x] = IF x < i THEN ks[x] ELSE ks[x + d]
  BY <1>1, WithoutRange
<1>3. /\ b \in Seq(Items) /\ Len(b) = n - d
      /\ \A x \in 1 .. n - d : b[x] = IF x < i THEN vs[x] ELSE vs[x + d]
  <2>1. i \in 1 .. Len(vs) + 1 /\ j \in i .. Len(vs) + 1
    BY <1>1
  <2>2. /\ b \in Seq(Items) /\ Len(b) = Len(vs) - (j - i)
        /\ \A x \in 1 .. Len(vs) - (j - i) : b[x] = IF x < i THEN vs[x] ELSE vs[x + (j - i)]
    BY <1>1, <2>1, WithoutRange
  <2> HIDE DEF b
  <2> QED BY <1>1, <2>2
<1>4. Matched(a, b)
  BY <1>2, <1>3 DEF Matched
<1>5. s \in Seq(Entries) /\ Len(s) = n /\ \A x \in 1 .. n : s[x] = Pair(ks[x], vs[x])
  BY PairsOfFacts
<1>6. t \in Seq(Entries) /\ Len(t) = n - d /\ \A x \in 1 .. n - d : t[x] = Pair(a[x], b[x])
  <2> HIDE DEF a, b, n, d
  <2>1. t \in Seq(Entries) /\ Len(t) = Len(a) /\ \A x \in 1 .. Len(t) : t[x] = Pair(a[x], b[x])
    BY <1>4, PairsOfFacts
  <2> QED BY <1>2, <2>1
<1>7. /\ u \in Seq(Entries) /\ Len(u) = n - d
      /\ \A x \in 1 .. n - d : u[x] = IF x < i THEN s[x] ELSE s[x + d]
  <2> HIDE DEF s
  <2>1. i \in 1 .. Len(s) + 1 /\ j \in i .. Len(s) + 1
    BY <1>5
  <2>2. /\ u \in Seq(Entries) /\ Len(u) = Len(s) - (j - i)
        /\ \A x \in 1 .. Len(s) - (j - i) : u[x] = IF x < i THEN s[x] ELSE s[x + (j - i)]
    BY <1>5, <2>1, WithoutRange
  <2> HIDE DEF u
  <2> QED BY <1>5, <2>2
<1>8. ASSUME NEW x \in 1 .. n - d PROVE t[x] = u[x]
  <2>0. (x < i => x \in 1 .. n) /\ (~(x < i) => x + d \in 1 .. n)
    BY <1>1
  <2> HIDE DEF a, b, s, t, u, n, d
  <2>1. CASE x < i
    BY <1>2, <1>3, <1>5, <1>6, <1>7, <2>0, <2>1
  <2>2. CASE ~(x < i)
    BY <1>2, <1>3, <1>5, <1>6, <1>7, <2>0, <2>2
  <2> QED BY <2>1, <2>2
<1>9. t = u
  <2> HIDE DEF a, b, s, t, u
  <2> QED BY <1>6, <1>7, <1>8, SameSequence
<1> HIDE DEF t
<1> QED BY <1>4, <1>9 DEF t

\* Another value at a place.
LEMMA PairsAssigned ==
  ASSUME NEW ks, NEW vs, Matched(ks, vs), NEW j \in 1 .. Len(ks), NEW v \in Items
  PROVE  Matched(ks, [vs EXCEPT ![j] = v]) /\ PairsOf(ks, [vs EXCEPT ![j] = v]) = WithValue(PairsOf(ks, vs), j, v)
<1> DEFINE b == [vs EXCEPT ![j] = v]
           n == Len(ks)
<1>1. ks \in Seq(Keys) /\ vs \in Seq(Items) /\ Len(vs) = n /\ n \in Nat /\ DOMAIN ks = 1 .. n /\ DOMAIN vs = 1 .. n
  BY DEF Matched
<1>2. b \in Seq(Items) /\ Len(b) = n /\ \A x \in 1 .. n : b[x] = IF x = j THEN v ELSE vs[x]
  BY <1>1
<1>3. Matched(ks, b)
  BY <1>1, <1>2 DEF Matched
<1> HIDE DEF b
<1>4. PairsOf(ks, b) = WithValue(PairsOf(ks, vs), j, v)
  BY <1>1, <1>2 DEF PairsOf, WithValue
<1> QED BY <1>3, <1>4 DEF b

\* What a map of two containers holds: matched, sorted and no longer than the bound, a map no key twice.
Good(multi, ks, vs) ==
  /\ Matched(ks, vs) /\ Len(ks) <= MaxLen
  /\ Ordered(PairsOf(ks, vs)) /\ (~multi => Distinct(PairsOf(ks, vs)))

DualInv ==
  /\ dualMulti \in BOOLEAN /\ dualAborted \in BOOLEAN
  /\ dualKeys \in [Maps -> Seq(Keys)] /\ dualValues \in [Maps -> Seq(Items)]
  /\ \A m \in Maps : Good(dualMulti, dualKeys[m], dualValues[m])

LEMMA PairsHeld ==
  ASSUME DualInv, NEW m \in Maps
  PROVE  /\ Good(dualMulti, dualKeys[m], dualValues[m])
         /\ Pairs[m] = PairsOf(dualKeys[m], dualValues[m])
         /\ Pairs[m] \in Seq(Entries) /\ Len(Pairs[m]) = Len(dualKeys[m]) /\ DOMAIN Pairs[m] = DOMAIN dualKeys[m]
         /\ DOMAIN Pairs[m] = 1 .. Len(Pairs[m])
         /\ KeyOf(Pairs[m]) = dualKeys[m] /\ [i \in DOMAIN Pairs[m] |-> Pairs[m][i].value] = dualValues[m]
         /\ Len(Pairs[m]) <= MaxLen /\ Ordered(Pairs[m]) /\ (~dualMulti => Distinct(Pairs[m]))
         /\ Len(dualKeys[m]) \in Nat
<1>1. Good(dualMulti, dualKeys[m], dualValues[m])
  BY DEF DualInv
<1>2. Pairs[m] = PairsOf(dualKeys[m], dualValues[m])
  BY DEF Pairs, PairsOf
<1>3. Matched(dualKeys[m], dualValues[m])
  BY <1>1 DEF Good
<1>4. /\ Pairs[m] \in Seq(Entries) /\ Len(Pairs[m]) = Len(dualKeys[m]) /\ DOMAIN Pairs[m] = DOMAIN dualKeys[m]
      /\ DOMAIN Pairs[m] = 1 .. Len(Pairs[m])
      /\ KeyOf(Pairs[m]) = dualKeys[m] /\ [i \in DOMAIN Pairs[m] |-> Pairs[m][i].value] = dualValues[m]
  BY <1>2, <1>3, PairsOfFacts
<1>5. Len(Pairs[m]) <= MaxLen /\ Ordered(Pairs[m]) /\ (~dualMulti => Distinct(Pairs[m]))
  BY <1>1, <1>2, <1>4 DEF Good
<1>6. Len(dualKeys[m]) \in Nat
  BY <1>3 DEF Matched
<1> QED BY <1>1, <1>2, <1>4, <1>5, <1>6

\* The pairs are those of each map.
LEMMA PairsAre ==
  /\ Pairs = [m \in Maps |-> PairsOf(dualKeys[m], dualValues[m])]
  /\ Pairs' = [m \in Maps |-> PairsOf(dualKeys'[m], dualValues'[m])]
<1>1. Pairs = [m \in Maps |-> PairsOf(dualKeys[m], dualValues[m])]
  BY DEF Pairs, PairsOf
<1>2. Pairs' = [m \in Maps |-> PairsOf(dualKeys'[m], dualValues'[m])]
  BY DEF Pairs, PairsOf
<1> QED BY <1>1, <1>2

\* A change of both containers is a change of the pairs.
LEMMA HaveBothFacts ==
  ASSUME DualInv, UNCHANGED dualMulti, dualAborted' \in BOOLEAN, NEW m \in Maps, NEW ks, NEW vs, Good(dualMulti, ks, vs), HaveBoth(m, ks, vs)
  PROVE  DualInv' /\ Pairs' = [Pairs EXCEPT ![m] = PairsOf(ks, vs)]
<1>1. ks \in Seq(Keys) /\ vs \in Seq(Items)
  BY DEF Good, Matched
<1>2. dualKeys' = [dualKeys EXCEPT ![m] = ks] /\ dualValues' = [dualValues EXCEPT ![m] = vs]
  BY DEF HaveBoth
<1>3. DualInv'
  BY <1>1, <1>2 DEF DualInv
<1>4. \A q \in Maps : dualKeys'[q] = (IF q = m THEN ks ELSE dualKeys[q]) /\ dualValues'[q] = (IF q = m THEN vs ELSE dualValues[q])
  BY <1>2 DEF DualInv
<1>5. Pairs' = [Pairs EXCEPT ![m] = PairsOf(ks, vs)]
  BY <1>4, PairsAre
<1> QED BY <1>3, <1>5

HaveAll(m, n, ks, vs, ls, ws) ==
  /\ dualKeys' = [dualKeys EXCEPT ![m] = ks, ![n] = ls]
  /\ dualValues' = [dualValues EXCEPT ![m] = vs, ![n] = ws]

\* The same of a change of two maps.
LEMMA HaveAllFacts ==
  ASSUME DualInv, UNCHANGED dualMulti, dualAborted' \in BOOLEAN, NEW m \in Maps, NEW n \in Maps \ {m}, NEW ks, NEW vs, NEW ls, NEW ws,
         Good(dualMulti, ks, vs), Good(dualMulti, ls, ws),
         HaveAll(m, n, ks, vs, ls, ws)
  PROVE  DualInv' /\ Pairs' = [Pairs EXCEPT ![m] = PairsOf(ks, vs), ![n] = PairsOf(ls, ws)]
<1>1. ks \in Seq(Keys) /\ vs \in Seq(Items) /\ ls \in Seq(Keys) /\ ws \in Seq(Items)
  BY DEF Good, Matched
<1>2. DualInv'
  BY <1>1 DEF DualInv, HaveAll
<1>3. \A q \in Maps : /\ dualKeys'[q] = (IF q = m THEN ks ELSE IF q = n THEN ls ELSE dualKeys[q])
                      /\ dualValues'[q] = (IF q = m THEN vs ELSE IF q = n THEN ws ELSE dualValues[q])
  BY DEF DualInv, HaveAll
<1>4. Pairs' = [Pairs EXCEPT ![m] = PairsOf(ks, vs), ![n] = PairsOf(ls, ws)]
  <2> DEFINE X == PairsOf(ks, vs)
             Y == PairsOf(ls, ws)
  <2>1. /\ DOMAIN Pairs = Maps /\ DOMAIN Pairs' = Maps
        /\ Pairs = [q \in Maps |-> Pairs[q]] /\ Pairs' = [q \in Maps |-> Pairs'[q]]
    BY PairsAre
  <2>2. \A q \in Maps : Pairs[q] = PairsOf(dualKeys[q], dualValues[q]) /\ Pairs'[q] = PairsOf(dualKeys'[q], dualValues'[q])
    BY PairsAre, Zenon
  <2> HIDE DEF X, Y
  <2>3. \A q \in Maps : Pairs'[q] = IF q = m THEN X ELSE IF q = n THEN Y ELSE Pairs[q]
    <3> TAKE q \in Maps
    <3>1. CASE q = m
      BY <1>3, <2>2, <3>1 DEF X
    <3>2. CASE q # m /\ q = n
      BY <1>3, <2>2, <3>2 DEF Y
    <3>3. CASE q # m /\ q # n
      BY <1>3, <2>2, <3>3
    <3> QED BY <3>1, <3>2, <3>3
  <2>4. Pairs' = [Pairs EXCEPT ![m] = X, ![n] = Y]
    BY <2>1, <2>3
  <2> QED BY <2>4 DEF X, Y
<1> QED BY <1>2, <1>4

\* Empty containers.
LEMMA EmptyGood ==
  ASSUME NEW multi
  PROVE  Good(multi, <<>>, <<>>) /\ PairsOf(<<>>, <<>>) = <<>>
<1>1. PairsOf(<<>>, <<>>) = <<>>
  BY DEF PairsOf
<1> QED BY <1>1, EmptyKept DEF Good, Matched

\* What the catch blocks leave is a cleared container of pairs.
LEMMA DualClearRefines ==
  ASSUME DualInv, UNCHANGED dualMulti, dualAborted' \in BOOLEAN, NEW m \in Maps, DualClear(m)
  PROVE  DualInv' /\ F!FlatClear(m)
BY HaveBothFacts, EmptyGood DEF DualClear, F!FlatClear, F!Become

LEMMA EmplaceRefines ==
  ASSUME DualInv, UNCHANGED dualMulti, dualAborted' \in BOOLEAN, NEW m \in Maps, NEW k \in Keys, NEW v \in Items, Emplace(m, k, v),
         dualMulti \/ ~Present(dualKeys[m], k)
  PROVE  DualInv' /\ (F!AddPair(m, k, v) \/ F!FlatClear(m) \/ UNCHANGED <<Pairs, dualMulti>>)
<1> DEFINE ks == dualKeys[m]
           vs == dualValues[m]
           i == DualUpper(m, k)
           s == Pairs[m]
           ls == InsertAt(ks, i, k)
           ws == InsertAt(vs, i, v)
           t == InsertAt(s, i, Pair(k, v))
<1>1. /\ Good(dualMulti, ks, vs) /\ s = PairsOf(ks, vs) /\ s \in Seq(Entries) /\ Len(s) = Len(ks)
      /\ KeyOf(s) = ks /\ Ordered(s) /\ (~dualMulti => Distinct(s)) /\ Len(ks) \in Nat
  BY PairsHeld
<1>2. Matched(ks, vs) /\ i = UpperBound(KeyOf(s), k) /\ Len(ks) < MaxLen
  BY <1>1 DEF Good, DualUpper, Emplace
<1>3. /\ i \in 1 .. Len(s) + 1 /\ t \in Seq(Entries) /\ Len(t) = Len(s) + 1 /\ Ordered(t)
      /\ Distinct(s) /\ ~Present(KeyOf(s), k) => Distinct(t)
  <2> HIDE DEF s, i
  <2> QED BY <1>1, <1>2, InsertKeepsOrder
<1>4. Matched(ls, ws) /\ Len(ls) = Len(ks) + 1 /\ PairsOf(ls, ws) = t
  <2> HIDE DEF ks, vs, i, s
  <2>1. i \in 1 .. Len(ks) + 1
    BY <1>1, <1>3
  <2> QED BY <1>1, <1>2, <2>1, PairsInserted
<1>5. CASE HaveBoth(m, ls, ws)
  <2>1. Good(dualMulti, ls, ws)
    <3>1. Len(ls) <= MaxLen
      BY <1>1, <1>2, <1>4, FlatAssumption
    <3>2. ~dualMulti => Distinct(t)
      BY <1>1, <1>3
    <3> HIDE DEF ls, ws, t
    <3> QED BY <1>3, <1>4, <3>1, <3>2 DEF Good
  <2>2. DualInv' /\ Pairs' = [Pairs EXCEPT ![m] = PairsOf(ls, ws)]
    <3> HIDE DEF ls, ws
    <3> QED BY <1>5, <2>1, HaveBothFacts
  <2>3. F!AddPair(m, k, v)
    <3>1. Pairs' = [Pairs EXCEPT ![m] = InsertAt(s, UpperBound(KeyOf(s), k), Pair(k, v))]
      BY <1>2, <1>4, <2>2
    <3>2. Len(Pairs[m]) < MaxLen
      BY <1>1, <1>2
    <3>3. F!InsertAt(s, F!UpperBound(F!KeyOf(s), k), F!Pair(k, v)) = InsertAt(s, UpperBound(KeyOf(s), k), Pair(k, v))
      BY SameOperators
    <3> QED BY <3>1, <3>2, <3>3 DEF F!AddPair, F!Become
  <2> QED BY <2>2, <2>3
<1>6. CASE DualClear(m)
  BY <1>6, DualClearRefines
<1>7. CASE UNCHANGED <<dualKeys, dualValues>>
  BY <1>7, PairsAre DEF DualInv
<1> QED BY <1>5, <1>6, <1>7 DEF Emplace

LEMMA DualInsertRefines ==
  ASSUME DualInv, UNCHANGED dualMulti, dualAborted' \in BOOLEAN, NEW m \in Maps, NEW k \in Keys, NEW v \in Items, DualInsert(m, k, v)
  PROVE  DualInv' /\ (F!MapInsert(m, k, v) \/ F!FlatClear(m) \/ UNCHANGED <<Pairs, dualMulti>>)
<1>1. KeyOf(Pairs[m]) = dualKeys[m]
  BY PairsHeld
<1>2. F!Present(F!KeyOf(Pairs[m]), k) <=> Present(dualKeys[m], k)
  BY <1>1, SameOperators
<1>3. CASE ~dualMulti /\ Present(dualKeys[m], k)
  <2>1. UNCHANGED <<dualKeys, dualValues>>
    BY <1>3 DEF DualInsert, DualPresent
  <2> QED BY <2>1, PairsAre DEF DualInv
<1>4. CASE ~(~dualMulti /\ Present(dualKeys[m], k))
  <2>1. Emplace(m, k, v)
    BY <1>4 DEF DualInsert, DualPresent
  <2>2. DualInv' /\ (F!AddPair(m, k, v) \/ F!FlatClear(m) \/ UNCHANGED <<Pairs, dualMulti>>)
    BY <1>4, <2>1, EmplaceRefines
  <2> QED BY <1>2, <1>4, <2>2 DEF F!MapInsert
<1> QED BY <1>3, <1>4

LEMMA DualAssignRefines ==
  ASSUME DualInv, UNCHANGED dualMulti, dualAborted' \in BOOLEAN, NEW m \in Maps, NEW k \in Keys, NEW v \in Items, DualInsertOrAssign(m, k, v)
  PROVE  DualInv' /\ (F!InsertOrAssign(m, k, v) \/ F!FlatClear(m) \/ UNCHANGED <<Pairs, dualMulti>>)
<1> DEFINE ks == dualKeys[m]
           vs == dualValues[m]
           s == Pairs[m]
           j == DualUpper(m, k) - 1
           ws == [vs EXCEPT ![j] = v]
           t == WithValue(s, j, v)
<1>1. /\ Good(dualMulti, ks, vs) /\ s = PairsOf(ks, vs) /\ s \in Seq(Entries) /\ Len(s) = Len(ks)
      /\ KeyOf(s) = ks /\ Ordered(s) /\ (~dualMulti => Distinct(s)) /\ Len(ks) \in Nat /\ Len(s) <= MaxLen
  BY PairsHeld
<1>2. /\ F!Present(F!KeyOf(s), k) <=> Present(ks, k)
      /\ F!UpperBound(F!KeyOf(s), k) = UpperBound(ks, k)
  BY <1>1, SameOperators
<1>3. CASE Present(ks, k)
  <2>1. HaveBoth(m, ks, ws) /\ ~dualMulti
    BY <1>3 DEF DualInsertOrAssign, DualPresent
  <2>2. j \in 1 .. Len(s) /\ j = UpperBound(KeyOf(s), k) - 1
    <3> HIDE DEF s
    <3> DEFINE lo == LowerBound(KeyOf(s), k)
               up == UpperBound(KeyOf(s), k)
    <3>1. lo \in 1 .. Len(s) + 1 /\ up \in 1 .. Len(s) + 1 /\ lo <= up /\ (Present(KeyOf(s), k) <=> lo < up)
      BY <1>1, PlacesFound
    <3>2. j = up - 1
      BY <1>1 DEF DualUpper
    <3> HIDE DEF lo, up, j
    <3>3. j \in 1 .. Len(s)
      BY <1>1, <1>3, <3>1, <3>2
    <3> QED BY <3>2, <3>3 DEF up
  <2> HIDE DEF j, s, ks, vs
  <2>3. t \in Seq(Entries) /\ Len(t) = Len(s) /\ Ordered(t) /\ (Distinct(s) => Distinct(t))
    BY <1>1, <2>2, AssignmentKeepsOrder
  <2>4. Matched(ks, ws) /\ PairsOf(ks, ws) = t
    <3>1. Matched(ks, vs) /\ j \in 1 .. Len(ks)
      BY <1>1, <2>2 DEF Good
    <3> QED BY <1>1, <3>1, PairsAssigned
  <2>5. Good(dualMulti, ks, ws)
    <3> HIDE DEF ws, t
    <3> QED BY <1>1, <2>3, <2>4 DEF Good
  <2>6. DualInv' /\ Pairs' = [Pairs EXCEPT ![m] = t]
    <3> HIDE DEF ws, t
    <3> QED BY <2>1, <2>4, <2>5, HaveBothFacts
  <2>7. F!InsertOrAssign(m, k, v)
    <3>1. F!Present(F!KeyOf(Pairs[m]), k) /\ F!UpperBound(F!KeyOf(Pairs[m]), k) - 1 = j /\ t = WithValue(Pairs[m], j, v)
      BY <1>1, <1>2, <1>3, <2>2 DEF s, ks
    <3> HIDE DEF t
    <3> QED BY <2>1, <2>6, <3>1, Zenon DEF F!InsertOrAssign, F!Become, WithValue
  <2> QED BY <2>6, <2>7
<1>4. CASE ~Present(ks, k)
  <2>1. Emplace(m, k, v) /\ ~dualMulti
    BY <1>4 DEF DualInsertOrAssign, DualPresent
  <2>2. DualInv' /\ (F!AddPair(m, k, v) \/ F!FlatClear(m) \/ UNCHANGED <<Pairs, dualMulti>>)
    BY <1>4, <2>1, EmplaceRefines
  <2>3. ~F!Present(F!KeyOf(Pairs[m]), k)
    BY <1>2, <1>4
  <2> QED BY <2>1, <2>2, <2>3 DEF F!InsertOrAssign
<1> QED BY <1>3, <1>4

\* The same places taken out of keys and values leave them good, and the pairs without those places.
LEMMA RestIsGood ==
  ASSUME DualInv, NEW m \in Maps, NEW a \in 1 .. Len(dualKeys[m]) + 1, NEW b \in a .. Len(dualKeys[m]) + 1
  PROVE  LET Rest(q) == SubSeq(q, 1, a - 1) \o SubSeq(q, b, Len(q))
         IN  Good(dualMulti, Rest(dualKeys[m]), Rest(dualValues[m]))
             /\ PairsOf(Rest(dualKeys[m]), Rest(dualValues[m])) = Rest(Pairs[m])
<1> DEFINE ks == dualKeys[m]
           vs == dualValues[m]
           s == Pairs[m]
           ls == SubSeq(ks, 1, a - 1) \o SubSeq(ks, b, Len(ks))
           ws == SubSeq(vs, 1, a - 1) \o SubSeq(vs, b, Len(vs))
           t == SubSeq(s, 1, a - 1) \o SubSeq(s, b, Len(s))
<1>1. /\ Good(dualMulti, ks, vs) /\ s = PairsOf(ks, vs) /\ s \in Seq(Entries) /\ Len(s) = Len(ks)
      /\ Ordered(s) /\ (~dualMulti => Distinct(s)) /\ Len(ks) \in Nat /\ Len(s) <= MaxLen
  BY PairsHeld
<1>2. Matched(ls, ws) /\ PairsOf(ls, ws) = t
  <2>1. Matched(ks, vs)
    BY <1>1 DEF Good
  <2> HIDE DEF ks, vs, s
  <2>2. a \in 1 .. Len(ks) + 1 /\ b \in a .. Len(ks) + 1
    BY DEF ks
  <2> QED BY <1>1, <2>1, <2>2, PairsLeft
<1>3. t \in Seq(Entries) /\ Ordered(t) /\ Len(t) <= Len(s) /\ (Distinct(s) => Distinct(t)) /\ Len(t) \in Nat
  <2>1. a \in 1 .. Len(s) + 1 /\ b \in a .. Len(s) + 1
    BY <1>1
  <2> HIDE DEF s
  <2>2. t \in Seq(Entries) /\ Ordered(t) /\ Len(t) <= Len(s) /\ (Distinct(s) => Distinct(t))
    BY <1>1, <2>1, RemovalKeepsOrder
  <2> HIDE DEF t
  <2> QED BY <2>2
<1> HIDE DEF ls, ws, t, s
<1>4. Len(ls) = Len(t)
  BY <1>2, PairsOfFacts
<1>5. Len(ls) <= MaxLen
  BY <1>1, <1>3, <1>4, FlatAssumption
<1> QED BY <1>1, <1>2, <1>3, <1>5 DEF Good, ls, ws, t, s

LEMMA DualEraseAtRefines ==
  ASSUME DualInv, UNCHANGED dualMulti, dualAborted' \in BOOLEAN, NEW m \in Maps, NEW i \in DOMAIN dualKeys[m], DualEraseAt(m, i)
  PROVE  DualInv' /\ (F!EraseAt(m, i) \/ F!FlatClear(m))
<1> DEFINE Rest(q) == SubSeq(q, 1, i - 1) \o SubSeq(q, i + 1, Len(q))
<1>1. Len(dualKeys[m]) \in Nat /\ i \in 1 .. Len(dualKeys[m])
  BY PairsHeld
<1>2. i \in 1 .. Len(dualKeys[m]) + 1 /\ i + 1 \in i .. Len(dualKeys[m]) + 1
  BY <1>1
<1>3. \A q : RemoveAt(q, i) = Rest(q)
  BY DEF RemoveAt
<1>4. Good(dualMulti, Rest(dualKeys[m]), Rest(dualValues[m])) /\ PairsOf(Rest(dualKeys[m]), Rest(dualValues[m])) = Rest(Pairs[m])
  BY <1>2, RestIsGood
<1> HIDE DEF Rest
<1>5. CASE HaveBoth(m, RemoveAt(dualKeys[m], i), RemoveAt(dualValues[m], i))
  <2>1. HaveBoth(m, Rest(dualKeys[m]), Rest(dualValues[m]))
    BY <1>3, <1>5
  <2>2. DualInv' /\ Pairs' = [Pairs EXCEPT ![m] = PairsOf(Rest(dualKeys[m]), Rest(dualValues[m]))]
    BY <1>4, <2>1, HaveBothFacts
  <2>3. F!RemoveAt(Pairs[m], i) = Rest(Pairs[m])
    BY <1>3, SameOperators
  <2> QED BY <1>4, <2>2, <2>3 DEF F!EraseAt, F!Become
<1>6. CASE DualClear(m)
  BY <1>6, DualClearRefines
<1> QED BY <1>5, <1>6 DEF DualEraseAt

LEMMA DualEraseKeyRefines ==
  ASSUME DualInv, UNCHANGED dualMulti, dualAborted' \in BOOLEAN, NEW m \in Maps, NEW k \in Keys, DualEraseKey(m, k)
  PROVE  DualInv' /\ (F!EraseKey(m, k) \/ F!FlatClear(m))
<1> DEFINE ks == dualKeys[m]
           s == Pairs[m]
           lo == LowerBound(KeyOf(s), k)
           up == UpperBound(KeyOf(s), k)
           n == Cardinality(EqualRun(ks, k))
<1>1. /\ s \in Seq(Entries) /\ Len(s) = Len(ks) /\ KeyOf(s) = ks /\ Ordered(s) /\ Len(ks) \in Nat
  BY PairsHeld
<1>2. /\ lo \in 1 .. Len(s) + 1 /\ up \in 1 .. Len(s) + 1 /\ lo <= up
      /\ DOMAIN KeyOf(s) = 1 .. Len(s)
      /\ Found(KeyOf(s), k) = IF lo < up THEN lo ELSE Len(s) + 1
      /\ Cardinality(EqualRun(KeyOf(s), k)) = up - lo
  <2> HIDE DEF s
  <2> QED BY <1>1, PlacesFound
<1>3. /\ F!KeyOf(s) = ks /\ F!LowerBound(ks, k) = lo /\ F!Found(ks, k) = Found(ks, k)
      /\ F!Cardinality(F!EqualRun(ks, k)) = up - lo
  <2>1. F!KeyOf(s) = ks /\ F!LowerBound(ks, k) = lo /\ F!Found(ks, k) = Found(ks, k) /\ F!EqualRun(ks, k) = EqualRun(ks, k)
    BY <1>1, SameOperators
  <2>2. F!Cardinality(EqualRun(ks, k)) = Cardinality(EqualRun(ks, k))
    BY Zenon DEF Cardinality, F!Cardinality
  <2> QED BY <1>1, <1>2, <2>1, <2>2
<1>4. n = up - lo /\ DualLower(m, k) = lo /\ lo + n = up
  <2>1. n = up - lo /\ DualLower(m, k) = lo
    BY <1>1, <1>2 DEF DualLower
  <2> HIDE DEF n, lo, up
  <2> QED BY <1>2, <2>1
<1>5. CASE dualMulti
  <2> DEFINE Rest(q) == SubSeq(q, 1, lo - 1) \o SubSeq(q, up, Len(q))
  <2>1. \/ HaveBoth(m, Rest(dualKeys[m]), Rest(dualValues[m]))
        \/ DualClear(m)
    <3> DEFINE Left(q) == SubSeq(q, 1, DualLower(m, k) - 1) \o SubSeq(q, DualLower(m, k) + n, Len(q))
    <3>1. Left(dualKeys[m]) = Rest(dualKeys[m]) /\ Left(dualValues[m]) = Rest(dualValues[m])
      BY <1>4, Zenon
    <3>2. HaveBoth(m, Left(dualKeys[m]), Left(dualValues[m])) \/ DualClear(m)
      BY <1>5, Zenon DEF DualEraseKey
    <3> HIDE DEF Left, Rest
    <3> QED BY <3>1, <3>2
  <2>2. CASE HaveBoth(m, Rest(dualKeys[m]), Rest(dualValues[m]))
    <3>1. lo \in 1 .. Len(dualKeys[m]) + 1 /\ up \in lo .. Len(dualKeys[m]) + 1
      <4> HIDE DEF lo, up
      <4> QED BY <1>1, <1>2
    <3>2. Good(dualMulti, Rest(dualKeys[m]), Rest(dualValues[m])) /\ PairsOf(Rest(dualKeys[m]), Rest(dualValues[m])) = Rest(Pairs[m])
      <4> HIDE DEF lo, up
      <4> QED BY <3>1, RestIsGood
    <3> HIDE DEF Rest
    <3>3. DualInv' /\ Pairs' = [Pairs EXCEPT ![m] = PairsOf(Rest(dualKeys[m]), Rest(dualValues[m]))]
      BY <2>2, <3>2, HaveBothFacts
    <3>4. Pairs' = [Pairs EXCEPT ![m] = Rest(s)]
      BY <3>2, <3>3
    <3>5. SubSeq(s, 1, F!LowerBound(ks, k) - 1)
          \o SubSeq(s, F!LowerBound(ks, k) + F!Cardinality(F!EqualRun(ks, k)), Len(ks)) = Rest(s)
      <4>1. lo + (up - lo) = up
        <5> HIDE DEF lo, up
        <5> QED BY <1>2
      <4> QED BY <1>1, <1>3, <4>1, Zenon DEF Rest
    <3>6. F!EraseKey(m, k)
      <4>1. F!KeyOf(Pairs[m]) = ks
        BY <1>3
      <4> HIDE DEF ks
      <4> QED BY <1>5, <3>4, <3>5, <4>1, Zenon DEF F!EraseKey, F!Become
    <3> QED BY <3>3, <3>6
  <2>3. CASE DualClear(m)
    BY <2>3, DualClearRefines
  <2> QED BY <2>1, <2>2, <2>3
<1>6. CASE ~dualMulti
  <2>1. DualFound(m, k) \in DOMAIN dualKeys[m] /\ DualEraseAt(m, DualFound(m, k))
    BY <1>6 DEF DualEraseKey
  <2>2. DualFound(m, k) = Found(ks, k)
    BY DEF DualFound
  <2>3. DualInv' /\ (F!EraseAt(m, Found(ks, k)) \/ F!FlatClear(m))
    BY <2>1, <2>2, DualEraseAtRefines
  <2>4. F!EraseAt(m, Found(ks, k)) => F!EraseKey(m, k)
    <3>1. F!KeyOf(Pairs[m]) = ks /\ F!Found(ks, k) = Found(ks, k) /\ Found(ks, k) \in DOMAIN ks
      BY <1>3, <2>1, <2>2
    <3> HIDE DEF ks
    <3> QED BY <1>6, <3>1 DEF F!EraseKey
  <2> QED BY <2>3, <2>4
<1> QED BY <1>5, <1>6

LEMMA DualWholeRefines ==
  ASSUME DualInv, UNCHANGED dualMulti, dualAborted' \in BOOLEAN, NEW m \in Maps, NEW n \in Maps \ {m}
  PROVE  /\ DualCopy(m, n) => DualInv' /\ (F!FlatCopy(m, n) \/ F!FlatClear(m))
         /\ PairsTaken(m, n) => DualInv' /\ F!FlatMove(m, n)
         /\ DualSwap(m, n) => DualInv' /\ (F!FlatSwap(m, n) \/ F!FlatClearBoth(m, n))
<1>1. /\ Good(dualMulti, dualKeys[m], dualValues[m]) /\ Pairs[m] = PairsOf(dualKeys[m], dualValues[m])
      /\ Good(dualMulti, dualKeys[n], dualValues[n]) /\ Pairs[n] = PairsOf(dualKeys[n], dualValues[n])
  BY PairsHeld
<1>2. ASSUME DualCopy(m, n) PROVE DualInv' /\ (F!FlatCopy(m, n) \/ F!FlatClear(m))
  <2>1. CASE HaveBoth(m, dualKeys[n], dualValues[n])
    BY <1>1, <2>1, HaveBothFacts DEF F!FlatCopy, F!Become
  <2>2. CASE DualClear(m)
    BY <2>2, DualClearRefines
  <2> QED BY <1>2, <2>1, <2>2 DEF DualCopy
<1>3. ASSUME PairsTaken(m, n) PROVE DualInv' /\ F!FlatMove(m, n)
  <2>1. DualInv' /\ Pairs' = [Pairs EXCEPT ![m] = PairsOf(dualKeys[n], dualValues[n]), ![n] = PairsOf(<<>>, <<>>)]
    <3>1. HaveAll(m, n, dualKeys[n], dualValues[n], <<>>, <<>>)
      BY <1>3 DEF PairsTaken, HaveAll
    <3> QED BY <1>1, <3>1, EmptyGood, HaveAllFacts
  <2> QED BY <1>1, <2>1, EmptyGood DEF F!FlatMove
<1>4. ASSUME DualSwap(m, n) PROVE DualInv' /\ (F!FlatSwap(m, n) \/ F!FlatClearBoth(m, n))
  <2>1. CASE /\ dualKeys' = [dualKeys EXCEPT ![m] = dualKeys[n], ![n] = dualKeys[m]]
             /\ dualValues' = [dualValues EXCEPT ![m] = dualValues[n], ![n] = dualValues[m]]
    <3>1. DualInv' /\ Pairs' = [Pairs EXCEPT ![m] = PairsOf(dualKeys[n], dualValues[n]), ![n] = PairsOf(dualKeys[m], dualValues[m])]
      <4>1. HaveAll(m, n, dualKeys[n], dualValues[n], dualKeys[m], dualValues[m])
        BY <2>1 DEF HaveAll
      <4> QED BY <1>1, <4>1, HaveAllFacts
    <3> QED BY <1>1, <3>1 DEF F!FlatSwap
  <2>2. CASE /\ dualKeys' = [dualKeys EXCEPT ![m] = <<>>, ![n] = <<>>]
             /\ dualValues' = [dualValues EXCEPT ![m] = <<>>, ![n] = <<>>]
    <3>1. DualInv' /\ Pairs' = [Pairs EXCEPT ![m] = PairsOf(<<>>, <<>>), ![n] = PairsOf(<<>>, <<>>)]
      <4>1. HaveAll(m, n, <<>>, <<>>, <<>>, <<>>)
        BY <2>2 DEF HaveAll
      <4> QED BY <4>1, EmptyGood, HaveAllFacts
    <3> QED BY <3>1, EmptyGood DEF F!FlatClearBoth
  <2> QED BY <1>4, <2>1, <2>2 DEF DualSwap
<1> QED BY <1>2, <1>3, <1>4

\* A map moved to itself stays or is cleared.
LEMMA DualOwnRefines ==
  ASSUME DualInv, UNCHANGED dualMulti, dualAborted' \in BOOLEAN, NEW m \in Maps, PairsTaken(m, m) \/ DualCopy(m, m)
  PROVE  DualInv' /\ (F!FlatClear(m) \/ UNCHANGED Pairs)
<1>1. Good(dualMulti, dualKeys[m], dualValues[m]) /\ Pairs[m] = PairsOf(dualKeys[m], dualValues[m])
  BY PairsHeld
<1>2. CASE PairsTaken(m, m)
  <2>1. dualKeys' = [dualKeys EXCEPT ![m] = <<>>] /\ dualValues' = [dualValues EXCEPT ![m] = <<>>]
    BY <1>2 DEF PairsTaken, DualInv
  <2> QED BY <2>1, DualClearRefines DEF DualClear, HaveBoth
<1>3. CASE DualClear(m)
  BY <1>3, DualClearRefines
<1>4. CASE HaveBoth(m, dualKeys[m], dualValues[m])
  <2>1. DualInv' /\ Pairs' = [Pairs EXCEPT ![m] = Pairs[m]]
    BY <1>1, <1>4, HaveBothFacts
  <2>2. Pairs = [q \in Maps |-> Pairs[q]]
    BY PairsAre
  <2>3. [Pairs EXCEPT ![m] = Pairs[m]] = Pairs
    BY <2>2
  <2> QED BY <2>1, <2>3
<1> QED BY <1>2, <1>3, <1>4 DEF DualCopy

\* Assignment by moving is one of the flat map, unless it ends the program.
LEMMA DualMoveRefines ==
  ASSUME DualInv, UNCHANGED dualMulti, NEW m \in Maps, NEW n \in Maps, DualMove(m, n)
  PROVE  DualInv' /\ (F!FlatClear(m) \/ UNCHANGED Pairs \/ (n \in Maps \ {m} /\ (F!FlatMove(m, n) \/ F!FlatCopy(m, n))))
<1>1. dualAborted' \in BOOLEAN
  BY DEF DualMove
<1>2. CASE UNCHANGED <<dualKeys, dualValues>>
  BY <1>1, <1>2, PairsAre DEF DualInv
<1>3. CASE (PairsTaken(m, n) \/ DualCopy(m, n)) /\ m = n
  BY <1>1, <1>3, DualOwnRefines
<1>4. CASE (PairsTaken(m, n) \/ DualCopy(m, n)) /\ m # n
  <2>1. n \in Maps \ {m}
    BY <1>4
  <2> QED BY <1>1, <1>4, <2>1, DualWholeRefines
<1> QED BY <1>2, <1>3, <1>4 DEF DualMove

\* Every step of the two containers keeps the invariant, and is one of the container of pairs or none.
LEMMA DualStep ==
  ASSUME DualInv, DualNext
  PROVE  DualInv' /\ [F!FlatNext \/ \E m, n \in Maps : F!FlatClearBoth(m, n)]_<<Pairs, dualMulti>>
<1> DEFINE Refined == [F!FlatNext \/ \E m, n \in Maps : F!FlatClearBoth(m, n)]_<<Pairs, dualMulti>>
<1>1. UNCHANGED dualMulti /\ ~dualAborted
  BY DEF DualNext
<1>0. ASSUME UNCHANGED dualAborted PROVE dualAborted' \in BOOLEAN
  BY <1>0 DEF DualInv
<1>2. ASSUME NEW m \in Maps, F!FlatClear(m) PROVE Refined
  BY <1>1, <1>2 DEF F!FlatNext
<1>3. ASSUME UNCHANGED dualAborted, NEW m \in Maps, NEW k \in Keys, NEW v \in Items, DualInsert(m, k, v) PROVE DualInv' /\ Refined
  <2>1. DualInv' /\ (F!MapInsert(m, k, v) \/ F!FlatClear(m) \/ UNCHANGED <<Pairs, dualMulti>>)
    BY <1>0, <1>1, <1>3, DualInsertRefines
  <2>2. F!MapInsert(m, k, v) => F!FlatNext
    BY <1>1 DEF F!FlatNext
  <2> QED BY <1>2, <2>1, <2>2
<1>4. ASSUME UNCHANGED dualAborted, NEW m \in Maps, NEW k \in Keys, NEW v \in Items, DualInsertOrAssign(m, k, v) PROVE DualInv' /\ Refined
  <2>1. DualInv' /\ (F!InsertOrAssign(m, k, v) \/ F!FlatClear(m) \/ UNCHANGED <<Pairs, dualMulti>>)
    BY <1>0, <1>1, <1>4, DualAssignRefines
  <2>2. F!InsertOrAssign(m, k, v) => F!FlatNext
    BY <1>1 DEF F!FlatNext
  <2> QED BY <1>2, <2>1, <2>2
<1>5. ASSUME UNCHANGED dualAborted, NEW m \in Maps, NEW k \in Keys, DualEraseKey(m, k) PROVE DualInv' /\ Refined
  <2>1. DualInv' /\ (F!EraseKey(m, k) \/ F!FlatClear(m))
    BY <1>0, <1>1, <1>5, DualEraseKeyRefines
  <2>2. F!EraseKey(m, k) => F!FlatNext
    BY <1>1 DEF F!FlatNext
  <2> QED BY <1>2, <2>1, <2>2
<1>6. ASSUME UNCHANGED dualAborted, NEW m \in Maps, NEW i \in DOMAIN dualKeys[m], DualEraseAt(m, i) PROVE DualInv' /\ Refined
  <2>1. DualInv' /\ (F!EraseAt(m, i) \/ F!FlatClear(m))
    BY <1>0, <1>1, <1>6, DualEraseAtRefines
  <2>2. i \in DOMAIN Pairs[m]
    BY PairsHeld
  <2>3. F!EraseAt(m, i) => F!FlatNext
    BY <1>1, <2>2 DEF F!FlatNext
  <2> QED BY <1>2, <2>1, <2>3
<1>7. ASSUME UNCHANGED dualAborted, NEW m \in Maps, DualClear(m) PROVE DualInv' /\ Refined
  BY <1>0, <1>1, <1>2, <1>7, DualClearRefines
<1>8. ASSUME UNCHANGED dualAborted, NEW m \in Maps, NEW n \in Maps \ {m}, DualCopy(m, n) \/ DualSwap(m, n)
      PROVE  DualInv' /\ Refined
  <2>1. DualInv' /\ (F!FlatCopy(m, n) \/ F!FlatSwap(m, n) \/ F!FlatClear(m) \/ F!FlatClearBoth(m, n))
    BY <1>0, <1>1, <1>8, DualWholeRefines
  <2>2. F!FlatCopy(m, n) \/ F!FlatSwap(m, n) => F!FlatNext
    BY <1>1 DEF F!FlatNext
  <2>3. F!FlatClearBoth(m, n) => \E q, p \in Maps : F!FlatClearBoth(q, p)
    OBVIOUS
  <2> QED BY <1>2, <2>1, <2>2, <2>3
<1>9. ASSUME NEW m \in Maps, NEW n \in Maps, DualMove(m, n) PROVE DualInv' /\ Refined
  <2>1. DualInv' /\ (F!FlatClear(m) \/ UNCHANGED Pairs \/ (n \in Maps \ {m} /\ (F!FlatMove(m, n) \/ F!FlatCopy(m, n))))
    BY <1>1, <1>9, DualMoveRefines
  <2>2. n \in Maps \ {m} /\ (F!FlatMove(m, n) \/ F!FlatCopy(m, n)) => F!FlatNext
    BY <1>1 DEF F!FlatNext
  <2> QED BY <1>1, <1>2, <2>1, <2>2
<1> HIDE DEF Refined
<1>10. ASSUME DualOperation, UNCHANGED dualAborted PROVE DualInv' /\ Refined
  BY <1>3, <1>4, <1>5, <1>6, <1>7, <1>8, <1>10 DEF DualOperation
<1>11. DualInv' /\ Refined
  BY <1>9, <1>10 DEF DualNext
<1> QED BY <1>11 DEF Refined

LEMMA DualInitRefines ==
  ASSUME DualInit
  PROVE  DualInv /\ F!FlatInit
<1>1. Pairs = [m \in Maps |-> <<>>]
  BY DEF DualInit, Pairs
<1>2. DualInv
  <2>1. <<>> \in Seq(Keys) /\ <<>> \in Seq(Items)
    OBVIOUS
  <2>2. \A m \in Maps : dualKeys[m] = <<>> /\ dualValues[m] = <<>>
    BY DEF DualInit
  <2>3. dualKeys \in [Maps -> Seq(Keys)] /\ dualValues \in [Maps -> Seq(Items)]
    BY <2>1 DEF DualInit
  <2>4. dualMulti \in BOOLEAN /\ dualAborted \in BOOLEAN
    BY DEF DualInit
  <2>5. \A m \in Maps : Good(dualMulti, dualKeys[m], dualValues[m])
    BY <2>2, EmptyGood
  <2> QED BY <2>3, <2>4, <2>5 DEF DualInv
<1>3. <<>> \in F!SourceRanges(dualMulti)
  <2>1. <<>> \in [1 .. 0 -> [key : Keys, value : Items]]
    OBVIOUS
  <2>2. [1 .. 0 -> [key : Keys, value : Items]] \in {[1 .. n -> [key : Keys, value : Items]] : n \in 0 .. 2}
    OBVIOUS
  <2>3. F!Distinct(<<>>)
    BY DEF F!Distinct
  <2> QED BY <2>1, <2>2, <2>3 DEF F!SourceRanges
<1>4. F!StableSort(<<>>) = <<>>
  BY DEF F!StableSort
<1> QED BY <1>1, <1>2, <1>3, <1>4 DEF DualInit, F!FlatInit

LEMMA DualInvSafe ==
  ASSUME DualInv
  PROVE  DualSafe
<1>1. DualTypeOK
  BY DEF DualInv, DualTypeOK, Good, Matched
<1>2. ASSUME NEW m \in Maps PROVE Walk(Pairs[m], DualBegin(m), DualEnd(m)) = F!StableSort(Pairs[m])
  <2>1. Pairs[m] \in Seq(Entries) /\ Ordered(Pairs[m]) /\ Len(Pairs[m]) = Len(dualKeys[m])
    BY PairsHeld
  <2>2. Walk(Pairs[m], 1, Len(Pairs[m]) + 1) = StableSort(Pairs[m])
    BY <2>1, WalkMeetsAll
  <2> QED BY <2>1, <2>2, SameOperators DEF DualBegin, DualEnd
<1>3. ASSUME NEW m \in Maps, NEW k \in Keys
      PROVE  LET met == Walk(Pairs[m], DualEqualRange(m, k)[1], DualEqualRange(m, k)[2])
                 stored == F!ValuesFor(Pairs[m], k)
             IN  /\ [i \in DOMAIN met |-> met[i].value] = stored
                 /\ DualCount(m, k) = Len(stored)
                 /\ DualFound(m, k) \in DOMAIN dualKeys[m] <=> stored # <<>>
                 /\ ~dualMulti => F!AtMeets(Pairs[m], k, DualAt(m, k))
  <2> DEFINE s == Pairs[m]
             lo == LowerBound(KeyOf(s), k)
             up == UpperBound(KeyOf(s), k)
             met == Walk(s, lo, up)
             stored == ValuesFor(s, k)
  <2>1. /\ s \in Seq(Entries) /\ Ordered(s) /\ Len(s) = Len(dualKeys[m]) /\ KeyOf(s) = dualKeys[m]
        /\ [i \in DOMAIN s |-> s[i].value] = dualValues[m] /\ (~dualMulti => Distinct(s))
        /\ DOMAIN s = DOMAIN dualKeys[m] /\ DOMAIN s = 1 .. Len(s)
    BY PairsHeld
  <2>2. /\ lo \in 1 .. Len(s) + 1 /\ up \in 1 .. Len(s) + 1 /\ lo <= up
        /\ Found(KeyOf(s), k) = IF lo < up THEN lo ELSE Len(s) + 1
        /\ Found(KeyOf(s), k) \in DOMAIN KeyOf(s) <=> lo < up
    <3> HIDE DEF s
    <3> QED BY <2>1, PlacesFound
  <2>3. [i \in DOMAIN met |-> met[i].value] = stored
    <3> HIDE DEF s
    <3> QED BY <2>1, WalkMeetsValues
  <2>4. stored \in Seq(Items) /\ Len(stored) = up - lo /\ \A r \in 1 .. up - lo : stored[r] = s[lo + r - 1].value
    <3> HIDE DEF s
    <3> QED BY <2>1, ValuesBetween
  <2>5. ~dualMulti => up - lo \in {0, 1}
    <3> HIDE DEF s
    <3> QED BY <2>1, OneValue
  <2>6. DualLower(m, k) = lo /\ DualUpper(m, k) = up /\ DualEqualRange(m, k)[1] = lo /\ DualEqualRange(m, k)[2] = up
    BY <2>1 DEF DualLower, DualUpper, DualEqualRange
  <2>7. F!ValuesFor(Pairs[m], k) = stored
    BY SameOperators
  <2>8. stored # <<>> <=> lo < up
    <3> HIDE DEF stored, lo, up
    <3>1. \A q \in Seq(Items) : q = <<>> <=> Len(q) = 0
      OBVIOUS
    <3> QED BY <2>2, <2>4, <3>1
  <2>9. DualFound(m, k) \in DOMAIN dualKeys[m] <=> stored # <<>>
    BY <2>1, <2>2, <2>8 DEF DualFound
  <2>10. DualCount(m, k) = Len(stored)
    <3>1. CASE dualMulti
      BY <2>4, <2>6, <3>1 DEF DualCount
    <3>2. CASE ~dualMulti
      <4>1. CountUnique(dualKeys[m], k) = IF lo < up THEN 1 ELSE 0
        BY <2>1, <2>2 DEF CountUnique
      <4>2. DualCount(m, k) = CountUnique(dualKeys[m], k)
        BY <3>2 DEF DualCount
      <4> HIDE DEF lo, up, stored
      <4> QED BY <2>2, <2>4, <2>5, <3>2, <4>1, <4>2
    <3> QED BY <3>1, <3>2
  <2>11. ASSUME ~dualMulti PROVE F!AtMeets(Pairs[m], k, DualAt(m, k))
    <3>1. \A i \in 1 .. Len(s) : dualValues[m][i] = s[i].value
      BY <2>1
    <3>2. DualAt(m, k) = IF lo \in 1 .. Len(s) THEN <<s[lo].value>> ELSE <<>>
      BY <2>1, <3>1 DEF DualAt, ValueAt
    <3> HIDE DEF s, lo
    <3>3. AtMeets(s, k, DualAt(m, k))
      BY <2>1, <2>11, <3>2, AtFinds DEF lo
    <3> QED BY <3>3, SameOperators DEF s
  <2> HIDE DEF stored, lo, up, s
  <2> QED BY <2>3, <2>6, <2>7, <2>9, <2>10, <2>11 DEF s
<1>4. DualLookups
  BY <1>2, <1>3 DEF DualLookups
<1> QED BY <1>1, <1>4 DEF DualSafe

(***************************************************************************)
(* What the operations do to the values of each key                        *)
(***************************************************************************)

\* t is s without the d pairs at a and after.
Gap(s, t, a, d) ==
  /\ a \in 1 .. Len(t) + 1 /\ d \in Nat /\ Len(s) = Len(t) + d
  /\ \A x \in 1 .. Len(t) : t[x] = IF x < a THEN s[x] ELSE s[x + d]

\* The places of a key in what is left are carried over to its places outside the gap.
LEMMA GapCarries ==
  ASSUME NEW s \in Seq(Entries), NEW t \in Seq(Entries), NEW a, NEW d, Gap(s, t, a, d), NEW l,
         NEW f, f = [x \in Places(t, l) |-> IF x < a THEN x ELSE x + d]
  PROVE  /\ Carries(f, Places(t, l), Places(s, l) \ (a .. a + d - 1))
         /\ CarriesValues(f, t, s, Places(t, l))
<1> DEFINE P == Places(t, l)
           Q == Places(s, l) \ (a .. a + d - 1)
           n == Len(t)
<1>1. /\ n \in Nat /\ a \in 1 .. n + 1 /\ d \in Nat /\ Len(s) = n + d
      /\ \A x \in 1 .. n : t[x] = IF x < a THEN s[x] ELSE s[x + d]
  BY EntryFacts DEF Gap
<1>2. \A x \in P : x \in 1 .. n /\ t[x].key = l
  BY DEF Places
<1>3. \A x \in P : f[x] = IF x < a THEN x ELSE x + d
  OBVIOUS
<1>4. ASSUME NEW x \in P PROVE f[x] \in 1 .. n + d /\ f[x] \notin a .. a + d - 1 /\ s[f[x]] = t[x]
  <2>1. x \in 1 .. n
    BY <1>2
  <2>2. CASE x < a
    BY <1>1, <1>3, <2>1, <2>2
  <2>3. CASE ~(x < a)
    <3>1. f[x] = x + d /\ t[x] = s[x + d]
      BY <1>1, <1>3, <2>1, <2>3
    <3>2. x + d \in 1 .. n + d /\ x + d \notin a .. a + d - 1
      BY <1>1, <2>1, <2>3
    <3> QED BY <3>1, <3>2
  <2> QED BY <2>2, <2>3
<1>5. \A x \in P : f[x] \in Q
  BY <1>1, <1>2, <1>4 DEF Places
<1>6. ASSUME NEW p \in Q PROVE \E x \in P : f[x] = p
  <2>1. p \in 1 .. n + d /\ s[p].key = l /\ p \notin a .. a + d - 1
    BY <1>1 DEF Places
  <2>2. CASE p < a
    <3>1. p \in 1 .. n /\ t[p] = s[p]
      BY <1>1, <2>1, <2>2
    <3>2. p \in P
      BY <2>1, <3>1 DEF Places
    <3> QED BY <1>3, <2>2, <3>2
  <2>3. CASE ~(p < a)
    <3>1. p - d \in 1 .. n /\ ~(p - d < a) /\ p - d + d = p
      BY <1>1, <2>1, <2>3
    <3>2. t[p - d] = s[p]
      BY <1>1, <3>1
    <3>3. p - d \in P
      BY <2>1, <3>1, <3>2 DEF Places
    <3> QED BY <1>3, <3>1, <3>3
  <2> QED BY <2>2, <2>3
<1>7. \A x, y \in P : x < y <=> f[x] < f[y]
  <2> TAKE x, y \in P
  <2>1. x \in 1 .. n /\ y \in 1 .. n
    BY <1>2
  <2> QED BY <1>1, <1>3, <2>1
<1>8. f \in [P -> Q]
  BY <1>5
<1>9. \A x \in P : s[f[x]].value = t[x].value
  BY <1>4
<1> HIDE DEF P, Q
<1>10. Carries(f, P, Q)
  BY <1>6, <1>7, <1>8 DEF Carries
<1>11. CarriesValues(f, t, s, P)
  BY <1>9 DEF CarriesValues
<1> QED BY <1>10, <1>11 DEF P, Q

\* A key without a place in the gap keeps its values.
LEMMA GapKeeps ==
  ASSUME NEW s \in Seq(Entries), NEW t \in Seq(Entries), NEW a, NEW d, Gap(s, t, a, d), NEW l,
         \A p \in a .. a + d - 1 : s[p].key # l
  PROVE  ValuesFor(s, l) = ValuesFor(t, l)
<1> DEFINE f == [x \in Places(t, l) |-> IF x < a THEN x ELSE x + d]
<1>1. /\ Carries(f, Places(t, l), Places(s, l) \ (a .. a + d - 1))
      /\ CarriesValues(f, t, s, Places(t, l))
  BY GapCarries
<1>2. Places(s, l) \ (a .. a + d - 1) = Places(s, l)
  BY DEF Places
<1> HIDE DEF f
<1>3. Carries(f, Places(t, l), Places(s, l))
  BY <1>1, <1>2
<1> QED BY <1>1, <1>3, CarriedValues

\* The key of the one pair in the gap has one value more.
LEMMA GapOfOne ==
  ASSUME NEW s \in Seq(Entries), NEW t \in Seq(Entries), NEW a, Gap(s, t, a, 1), NEW l, l = s[a].key
  PROVE  LET r == RankIn(Places(s, l), a)
         IN  /\ a \in Places(s, l)
             /\ r \in 1 .. Len(ValuesFor(t, l)) + 1 /\ Len(ValuesFor(s, l)) = Len(ValuesFor(t, l)) + 1
             /\ ValuesFor(s, l) = InsertAt(ValuesFor(t, l), r, s[a].value)
             /\ ValuesFor(t, l) = RemoveAt(ValuesFor(s, l), r)
             /\ ValuesFor(s, l)[r] = s[a].value
<1> DEFINE f == [x \in Places(t, l) |-> IF x < a THEN x ELSE x + 1]
<1>1. /\ Carries(f, Places(t, l), Places(s, l) \ (a .. a + 1 - 1))
      /\ CarriesValues(f, t, s, Places(t, l))
  BY GapCarries
<1>2. Len(t) \in Nat /\ a \in 1 .. Len(t) + 1 /\ Len(s) = Len(t) + 1
  BY EntryFacts DEF Gap
<1>3. a .. a + 1 - 1 = {a}
  BY <1>2
<1>4. a \in Places(s, l)
  BY <1>2 DEF Places
<1> HIDE DEF f
<1>5. Carries(f, Places(t, l), Places(s, l) \ {a})
  BY <1>1, <1>3
<1> QED BY <1>1, <1>4, <1>5, OneMoreValue

\* Putting an element behind the last one.
LEMMA InsertedLast ==
  ASSUME NEW S, NEW s \in Seq(S), NEW e \in S
  PROVE  InsertAt(s, Len(s) + 1, e) = Append(s, e)
<1> DEFINE t == InsertAt(s, Len(s) + 1, e)
           u == Append(s, e)
<1>0. Len(s) \in Nat /\ Len(s) + 1 \in 1 .. Len(s) + 1
  OBVIOUS
<1>1. /\ t \in Seq(S) /\ Len(t) = Len(s) + 1
      /\ \A i \in 1 .. Len(s) + 1 : t[i] = IF i < Len(s) + 1 THEN s[i] ELSE IF i = Len(s) + 1 THEN e ELSE s[i - 1]
  <2>1. t \in Seq(S) /\ OneLonger(t, s, Len(s) + 1, e)
    BY <1>0, InsertedElement
  <2> HIDE DEF t
  <2> QED BY <2>1 DEF OneLonger
<1>2. u \in Seq(S) /\ Len(u) = Len(s) + 1 /\ \A i \in 1 .. Len(s) + 1 : u[i] = IF i = Len(s) + 1 THEN e ELSE s[i]
  OBVIOUS
<1> HIDE DEF t, u
<1>3. ASSUME NEW i \in 1 .. Len(t) PROVE t[i] = u[i]
  BY <1>0, <1>1, <1>2
<1>4. t = u
  BY <1>1, <1>2, <1>3, SameSequence
<1> QED BY <1>4 DEF t, u

\* A pair put behind those with its key appends its value to theirs, and leaves those of the other keys.
LEMMA InsertedValues ==
  ASSUME NEW s \in Seq(Entries), Ordered(s), NEW k \in Keys, NEW v \in Items,
         NEW up, up = UpperBound(KeyOf(s), k), NEW t, t = InsertAt(s, up, Pair(k, v))
  PROVE  /\ ValuesFor(t, k) = Append(ValuesFor(s, k), v)
         /\ \A l \in Keys : l # k => ValuesFor(t, l) = ValuesFor(s, l)
<1> DEFINE e == Pair(k, v)
<1>1. Len(s) \in Nat /\ \A i \in 1 .. Len(s) : s[i].key \in Int
  BY EntryFacts
<1>2. /\ up \in 1 .. Len(s) + 1 /\ t \in Seq(Entries) /\ Len(t) = Len(s) + 1
      /\ \A i \in 1 .. Len(s) + 1 : t[i] = IF i < up THEN s[i] ELSE IF i = up THEN e ELSE s[i - 1]
  BY InsertKeepsOrder
<1>3. \A i \in 1 .. Len(s) : s[i].key <= k <=> i < up
  <2> DEFINE lo == LowerBound(KeyOf(s), k)
  <2>1. \A i \in 1 .. Len(s) : (s[i].key < k <=> i < lo) /\ (s[i].key <= k <=> i < up)
    BY PlacesFound
  <2> QED BY <2>1
<1>4. e.key = k /\ e.value = v /\ k \in Int
  BY FlatAssumption DEF Pair
<1> HIDE DEF e
<1>5. Gap(t, s, up, 1)
  <2>1. \A x \in 1 .. Len(s) : s[x] = IF x < up THEN t[x] ELSE t[x + 1]
    <3> TAKE x \in 1 .. Len(s)
    <3>1. CASE x < up
      BY <1>1, <1>2, <3>1
    <3>2. CASE ~(x < up)
      <4>1. x + 1 \in 1 .. Len(s) + 1 /\ ~(x + 1 < up) /\ x + 1 # up /\ (x + 1) - 1 = x
        BY <1>1, <1>2, <3>2
      <4> QED BY <1>2, <3>2, <4>1
    <3> QED BY <3>1, <3>2
  <2> QED BY <1>1, <1>2, <2>1 DEF Gap
<1>6. t[up] = e
  BY <1>1, <1>2
<1>7. ASSUME NEW l \in Keys, l # k PROVE ValuesFor(t, l) = ValuesFor(s, l)
  <2>1. \A p \in up .. up + 1 - 1 : t[p].key # l
    BY <1>2, <1>4, <1>6, <1>7
  <2>2. ASSUME NEW d, Gap(t, s, up, d), \A p \in up .. up + d - 1 : t[p].key # l PROVE ValuesFor(t, l) = ValuesFor(s, l)
    BY <1>2, <2>2, GapKeeps
  <2> QED BY <1>5, <2>1, <2>2
<1>8. ValuesFor(t, k) = Append(ValuesFor(s, k), v)
  <2> DEFINE Q == Places(t, k)
             r == RankIn(Q, up)
             A == ValuesFor(s, k)
  <2>1. k = t[up].key /\ t[up].value = v
    BY <1>4, <1>6
  <2>2. r \in 1 .. Len(A) + 1 /\ Len(ValuesFor(t, k)) = Len(A) + 1 /\ ValuesFor(t, k) = InsertAt(A, r, v)
    BY <1>2, <1>5, <2>1, GapOfOne
  <2>3. \A p \in Q : p <= up
    <3> SUFFICES ASSUME NEW p \in Q, ~(p <= up) PROVE FALSE
      OBVIOUS
    <3>1. p \in 1 .. Len(s) + 1 /\ t[p].key = k
      BY <1>2 DEF Places
    <3>2. p - 1 \in 1 .. Len(s) /\ t[p] = s[p - 1] /\ ~(p - 1 < up)
      BY <1>1, <1>2, <3>1
    <3> QED BY <1>1, <1>3, <1>4, <3>1, <3>2
  <2>4. {p \in Q : p <= up} = Q
    BY <2>3
  <2>5. r = Cardinality(Q)
    BY <2>4 DEF RankIn
  <2>6. Len(ValuesFor(t, k)) = Cardinality(Q) /\ A \in Seq(Items)
    BY <1>2, ValuesByRank
  <2> HIDE DEF A, r, Q
  <2>7. r = Len(A) + 1
    BY <2>2, <2>5, <2>6
  <2> QED BY <2>2, <2>6, <2>7, InsertedLast DEF A
<1> QED BY <1>7, <1>8

\* Nothing is stored under a key without a place.
LEMMA NoValues ==
  ASSUME NEW s \in Seq(Entries), NEW k, \A i \in 1 .. Len(s) : s[i].key # k
  PROVE  ValuesFor(s, k) = <<>>
<1>1. Places(s, k) = {}
  BY DEF Places
<1>2. ValuesFor(s, k) \in Seq(Items) /\ Len(ValuesFor(s, k)) = 0
  BY <1>1, ValuesByRank, FS_EmptySet
<1>3. \A q \in Seq(Items) : Len(q) = 0 => q = <<>>
  OBVIOUS
<1> QED BY <1>2, <1>3

\* Places that stay where they are, with their values.
LEMMA StayingValues ==
  ASSUME NEW s \in Seq(Entries), NEW t \in Seq(Entries), NEW k, Places(s, k) = Places(t, k),
         \A i \in Places(s, k) : t[i].value = s[i].value
  PROVE  ValuesFor(t, k) = ValuesFor(s, k)
<1> DEFINE f == [i \in Places(s, k) |-> i]
<1>1. Carries(f, Places(s, k), Places(t, k))
  BY DEF Carries
<1>2. CarriesValues(f, s, t, Places(s, k))
  BY DEF CarriesValues
<1> HIDE DEF f
<1> QED BY <1>1, <1>2, CarriedValues

\* An assignment leaves its value for its key, where no two pairs share one, and those of the other keys.
LEMMA AssignedValues ==
  ASSUME NEW s \in Seq(Entries), Ordered(s), Distinct(s), NEW j \in 1 .. Len(s), NEW v \in Items, NEW t, t = WithValue(s, j, v)
  PROVE  /\ ValuesFor(t, s[j].key) = <<v>>
         /\ \A l \in Keys : l # s[j].key => ValuesFor(t, l) = ValuesFor(s, l)
<1> DEFINE k == s[j].key
<1>1. /\ t \in Seq(Entries) /\ Len(t) = Len(s) /\ Ordered(t) /\ Distinct(t)
      /\ \A i \in 1 .. Len(s) : t[i].key = s[i].key /\ t[i].value = IF i = j THEN v ELSE s[i].value
  BY AssignmentKeepsOrder
<1>2. k \in Keys
  BY EntryFacts
<1>3. j \in Places(t, k) /\ t[j].value = v
  BY <1>1 DEF Places
<1> HIDE DEF k
<1>4. Len(ValuesFor(t, k)) <= 1
  BY <1>1, <1>2, OneValue
<1>5. /\ ValuesFor(t, k) \in Seq(Items) /\ Len(ValuesFor(t, k)) = Cardinality(Places(t, k))
      /\ ValuesFor(t, k)[RankIn(Places(t, k), j)] = v
  BY <1>1, <1>3, ValuesByRank
<1>6. RankIn(Places(t, k), j) \in 1 .. Cardinality(Places(t, k))
  <2>1. Upto(Places(t, k), Len(t))
    BY <1>1, PlacesFacts
  <2> QED BY <1>3, <2>1, RankFacts
<1>7. ValuesFor(t, k) = <<v>>
  <2>1. Len(ValuesFor(t, k)) = 1 /\ ValuesFor(t, k)[1] = v
    BY <1>4, <1>5, <1>6
  <2>2. \A q \in Seq(Items) : Len(q) = 1 => q = <<q[1]>>
    OBVIOUS
  <2> QED BY <1>5, <2>1, <2>2
<1>8. ASSUME NEW l \in Keys, l # k PROVE ValuesFor(t, l) = ValuesFor(s, l)
  <2>1. Places(s, l) = Places(t, l)
    BY <1>1 DEF Places
  <2>2. \A i \in Places(s, l) : t[i].value = s[i].value
    BY <1>1, <1>8 DEF Places, k
  <2> QED BY <1>1, <2>1, <2>2, StayingValues
<1> QED BY <1>7, <1>8 DEF k

\* Another key for a pair moves its value from those of the old key to those of the new one.
LEMMA RenamedValues ==
  ASSUME NEW s \in Seq(Entries), NEW i \in 1 .. Len(s), NEW k \in Keys, NEW t, t = WithKey(s, i, k)
  PROVE  /\ \A l \in Keys : l # k /\ l # s[i].key => ValuesFor(t, l) = ValuesFor(s, l)
         /\ s[i].key = k => ValuesFor(t, k) = ValuesFor(s, k)
         /\ s[i].key # k => \E p \in DOMAIN ValuesFor(s, s[i].key), r \in 1 .. Len(ValuesFor(s, k)) + 1 :
                              /\ ValuesFor(t, s[i].key) = RemoveAt(ValuesFor(s, s[i].key), p)
                              /\ ValuesFor(t, k) = InsertAt(ValuesFor(s, k), r, ValuesFor(s, s[i].key)[p])
<1> DEFINE o == s[i].key
<1>1. /\ t \in Seq(Entries) /\ Len(t) = Len(s)
      /\ \A j \in 1 .. Len(s) : t[j].key = (IF j = i THEN k ELSE s[j].key) /\ t[j].value = s[j].value
  BY ChangeKeyFacts
<1>2. \A l : \A j \in Places(s, l) : t[j].value = s[j].value
  BY <1>1 DEF Places
<1>3. ASSUME NEW l \in Keys, l # k, l # o PROVE ValuesFor(t, l) = ValuesFor(s, l)
  <2>1. Places(s, l) = Places(t, l)
    BY <1>1, <1>3 DEF Places
  <2> QED BY <1>1, <1>2, <2>1, StayingValues
<1>4. ASSUME o = k PROVE ValuesFor(t, k) = ValuesFor(s, k)
  <2>1. Places(s, k) = Places(t, k)
    BY <1>1, <1>4 DEF Places
  <2> QED BY <1>1, <1>2, <2>1, StayingValues
<1>5. ASSUME o # k
      PROVE  \E p \in DOMAIN ValuesFor(s, o), r \in 1 .. Len(ValuesFor(s, k)) + 1 :
               /\ ValuesFor(t, o) = RemoveAt(ValuesFor(s, o), p)
               /\ ValuesFor(t, k) = InsertAt(ValuesFor(s, k), r, ValuesFor(s, o)[p])
  <2>1. /\ i \in Places(t, k) /\ Places(s, k) = Places(t, k) \ {i}
        /\ i \in Places(s, o) /\ Places(t, o) = Places(s, o) \ {i}
    BY <1>1, <1>5 DEF Places
  <2> DEFINE f == [x \in Places(s, k) |-> x]
             g == [x \in Places(t, o) |-> x]
             r == RankIn(Places(t, k), i)
             p == RankIn(Places(s, o), i)
  <2>2. Carries(f, Places(s, k), Places(t, k) \ {i}) /\ CarriesValues(f, s, t, Places(s, k))
    BY <1>2, <2>1 DEF Carries, CarriesValues
  <2>3. Carries(g, Places(t, o), Places(s, o) \ {i}) /\ CarriesValues(g, t, s, Places(t, o))
    <3>1. \A x \in Places(t, o) : s[g[x]].value = t[x].value
      BY <1>2, <2>1
    <3> QED BY <2>1, <3>1 DEF Carries, CarriesValues
  <2> HIDE DEF f, g, o, p, r
  <2>4. r \in 1 .. Len(ValuesFor(s, k)) + 1 /\ ValuesFor(t, k) = InsertAt(ValuesFor(s, k), r, t[i].value)
    <3>1. t \in Seq(Entries) /\ i \in Places(t, k)
      BY <1>1, <2>1
    <3> QED BY <2>2, <3>1, OneMoreValue DEF r
  <2>5. /\ p \in 1 .. Len(ValuesFor(t, o)) + 1 /\ Len(ValuesFor(s, o)) = Len(ValuesFor(t, o)) + 1
        /\ ValuesFor(t, o) = RemoveAt(ValuesFor(s, o), p) /\ ValuesFor(s, o)[p] = s[i].value
    <3>1. t \in Seq(Entries) /\ i \in Places(s, o)
      BY <1>1, <2>1
    <3> QED BY <2>3, <3>1, OneMoreValue DEF p
  <2>6. ValuesFor(s, o) \in Seq(Items)
    BY ValuesByRank
  <2>7. t[i].value = s[i].value
    BY <1>1
  <2>8. p \in DOMAIN ValuesFor(s, o)
    BY <2>5, <2>6
  <2> QED BY <2>4, <2>5, <2>7, <2>8
<1> QED BY <1>3, <1>4, <1>5

(***************************************************************************)
(* The flat containers keep what the keyed values promise                  *)
(***************************************************************************)

\* What is stored for each key of each container, as the refinement shows it.
Content == [m \in Maps |-> [k \in Keys |-> ValuesFor(flat[m], k)]]

LEMMA SameKeyed ==
  /\ \A s, k : Keyed!RemoveAt(s, k) = RemoveAt(s, k)
  /\ \A s, i, e : Keyed!InsertAt(s, i, e) = InsertAt(s, i, e)
BY Zenon DEF RemoveAt, Keyed!RemoveAt, InsertAt, Keyed!InsertAt

LEMMA ContentFacts ==
  /\ Content = [m \in Maps |-> Content[m]] /\ Content' = [m \in Maps |-> Content'[m]]
  /\ \A m \in Maps : /\ Content[m] = [k \in Keys |-> ValuesFor(flat[m], k)]
                     /\ Content'[m] = [k \in Keys |-> ValuesFor(flat'[m], k)]
BY DEF Content

\* Where only one container changes, so does only what is stored in it.
LEMMA ContentBecomes ==
  ASSUME FlatInv, NEW m \in Maps, NEW t, flat' = [flat EXCEPT ![m] = t]
  PROVE  Content' = [Content EXCEPT ![m] = [k \in Keys |-> ValuesFor(t, k)]]
<1>1. \A q \in Maps : flat'[q] = IF q = m THEN t ELSE flat[q]
  BY DEF FlatInv
<1> DEFINE X == [k \in Keys |-> ValuesFor(t, k)]
<1>2. \A q \in Maps : Content'[q] = IF q = m THEN X ELSE Content[q]
  BY <1>1, ContentFacts
<1> HIDE DEF X
<1>3. Content' = [Content EXCEPT ![m] = X]
  BY <1>2, ContentFacts
<1> QED BY <1>3 DEF X

\* Where only the values of one key change.
LEMMA ContentSet ==
  ASSUME FlatInv, NEW m \in Maps, NEW t, flat' = [flat EXCEPT ![m] = t], NEW k \in Keys,
         \A l \in Keys : l # k => ValuesFor(t, l) = ValuesFor(flat[m], l)
  PROVE  Keyed!Set(m, k, ValuesFor(t, k))
<1> DEFINE X == [l \in Keys |-> ValuesFor(t, l)]
<1>1. Content' = [Content EXCEPT ![m] = X]
  BY ContentBecomes
<1>2. X = [Content[m] EXCEPT ![k] = ValuesFor(t, k)]
  BY ContentFacts
<1> HIDE DEF X
<1>3. Content' = [Content EXCEPT ![m][k] = ValuesFor(t, k)]
  BY <1>1, <1>2
<1> QED BY <1>3 DEF Keyed!Set, Content

LEMMA ContentAt ==
  ASSUME NEW m \in Maps, NEW k \in Keys
  PROVE  Content[m][k] = ValuesFor(flat[m], k)
BY DEF Content

\* Insertion of a pair is insertion of its value.
LEMMA AddPairRefines ==
  ASSUME FlatInv, NEW m \in Maps, NEW k \in Keys, NEW v \in Items, AddPair(m, k, v),
         flatMulti \/ ~Present(KeyOf(flat[m]), k)
  PROVE  Keyed!InsertValue(m, k, v)
<1> DEFINE s == flat[m]
           t == InsertAt(s, UpperBound(KeyOf(s), k), Pair(k, v))
<1>1. s \in Seq(Entries) /\ Ordered(s)
  BY HeldFacts
<1>2. flat' = [flat EXCEPT ![m] = t]
  BY DEF AddPair, Become
<1>3. /\ ValuesFor(t, k) = Append(ValuesFor(s, k), v)
      /\ \A l \in Keys : l # k => ValuesFor(t, l) = ValuesFor(s, l)
  <2> HIDE DEF s
  <2> QED BY <1>1, InsertedValues
<1>4. Keyed!Set(m, k, ValuesFor(t, k))
  <2> HIDE DEF t
  <2> QED BY <1>2, <1>3, ContentSet
<1>5. flatMulti \/ ValuesFor(s, k) = <<>>
  <2> SUFFICES ASSUME ~Present(KeyOf(s), k) PROVE ValuesFor(s, k) = <<>>
    OBVIOUS
  <2> HIDE DEF s
  <2> DEFINE lo == LowerBound(KeyOf(s), k)
             up == UpperBound(KeyOf(s), k)
  <2>1. lo \in 1 .. Len(s) + 1 /\ up \in 1 .. Len(s) + 1 /\ lo <= up /\ (Present(KeyOf(s), k) <=> lo < up) /\ Places(s, k) = lo .. up - 1
    BY <1>1, PlacesFound
  <2> HIDE DEF lo, up
  <2>2. Places(s, k) = {}
    BY <2>1
  <2>3. \A i \in 1 .. Len(s) : s[i].key # k
    BY <2>2 DEF Places
  <2> QED BY <1>1, <2>3, NoValues
<1>6. Keyed!Set(m, k, Append(Content[m][k], v)) /\ (flatMulti \/ Content[m][k] = <<>>)
  BY <1>3, <1>4, <1>5, ContentAt
<1> QED BY <1>6, Zenon DEF Keyed!InsertValue, Content

LEMMA MapInsertRefines ==
  ASSUME FlatInv, NEW m \in Maps, NEW k \in Keys, NEW v \in Items, MapInsert(m, k, v)
  PROVE  Keyed!InsertValue(m, k, v) \/ UNCHANGED flat
<1>1. CASE ~flatMulti /\ Present(KeyOf(flat[m]), k)
  BY <1>1 DEF MapInsert
<1>2. CASE ~(~flatMulti /\ Present(KeyOf(flat[m]), k))
  <2>1. AddPair(m, k, v)
    BY <1>2 DEF MapInsert
  <2> QED BY <1>2, <2>1, AddPairRefines
<1> QED BY <1>1, <1>2

LEMMA InsertOrAssignRefines ==
  ASSUME FlatInv, NEW m \in Maps, NEW k \in Keys, NEW v \in Items, InsertOrAssign(m, k, v)
  PROVE  Keyed!InsertValue(m, k, v) \/ Keyed!AssignValue(m, k, v)
<1>1. CASE Present(KeyOf(flat[m]), k)
  <2> DEFINE s == flat[m]
             j == UpperBound(KeyOf(s), k) - 1
             t == WithValue(s, j, v)
  <2>1. s \in Seq(Entries) /\ Ordered(s) /\ (~flatMulti => Distinct(s))
    BY HeldFacts
  <2>2. flat' = [flat EXCEPT ![m] = t] /\ ~flatMulti
    BY <1>1 DEF InsertOrAssign, Become, WithValue
  <2> HIDE DEF j
  <2>3. j \in 1 .. Len(s) /\ s[j].key = k
    BY <1>1, AssignFacts DEF j
  <2> HIDE DEF s
  <2>4. /\ ValuesFor(t, k) = <<v>>
        /\ \A l \in Keys : l # k => ValuesFor(t, l) = ValuesFor(s, l)
    BY <2>1, <2>2, <2>3, AssignedValues
  <2>5. Keyed!Set(m, k, ValuesFor(t, k))
    <3> HIDE DEF t
    <3> QED BY <2>2, <2>4, ContentSet DEF s
  <2>6. Keyed!Set(m, k, <<v>>)
    BY <2>4, <2>5
  <2> QED BY <2>2, <2>6, Zenon DEF Keyed!AssignValue
<1>2. CASE ~Present(KeyOf(flat[m]), k)
  <2>1. AddPair(m, k, v)
    BY <1>2 DEF InsertOrAssign
  <2> QED BY <1>2, <2>1, AddPairRefines
<1> QED BY <1>1, <1>2

\* What is left when some that follow each other are taken out.
LEMMA TakenOut ==
  ASSUME NEW s \in Seq(Entries), NEW a \in 1 .. Len(s) + 1, NEW b \in a .. Len(s) + 1,
         NEW t, t = SubSeq(s, 1, a - 1) \o SubSeq(s, b, Len(s))
  PROVE  t \in Seq(Entries) /\ Gap(s, t, a, b - a)
<1>1. LET u == SubSeq(s, 1, a - 1) \o SubSeq(s, b, Len(s))
      IN  /\ u \in Seq(Entries) /\ Len(u) = Len(s) - (b - a)
          /\ \A i \in 1 .. Len(s) - (b - a) : u[i] = IF i < a THEN s[i] ELSE s[i + (b - a)]
  BY WithoutRange
<1>2. /\ t \in Seq(Entries) /\ Len(t) = Len(s) - (b - a)
      /\ \A i \in 1 .. Len(s) - (b - a) : t[i] = IF i < a THEN s[i] ELSE s[i + (b - a)]
  BY <1>1, Zenon
<1>3. Len(s) \in Nat /\ b - a \in Nat /\ Len(s) = Len(t) + (b - a) /\ a \in 1 .. Len(t) + 1
  <2>1. Len(s) \in Nat /\ b - a \in Nat
    OBVIOUS
  <2>2. Len(t) = Len(s) - (b - a)
    BY <1>2, Zenon
  <2>3. \A n \in Nat : \A x \in 1 .. n + 1 : \A y \in x .. n + 1 :
          n = (n - (y - x)) + (y - x) /\ x \in 1 .. (n - (y - x)) + 1
    OBVIOUS
  <2> QED BY <2>1, <2>2, <2>3, Zenon
<1> QED BY <1>2, <1>3, Zenon DEF Gap

LEMMA EraseAtRefines ==
  ASSUME FlatInv, NEW m \in Maps, NEW i \in DOMAIN flat[m], EraseAt(m, i)
  PROVE  flat[m][i].key \in Keys /\ Keyed!EraseOne(m, flat[m][i].key)
<1> DEFINE s == flat[m]
           t == RemoveAt(s, i)
           k == s[i].key
           r == RankIn(Places(s, k), i)
<1>1. s \in Seq(Entries)
  BY HeldFacts
<1>2. i \in 1 .. Len(s) /\ k \in Keys /\ Len(s) \in Nat
  BY <1>1, EntryFacts
<1>3. flat' = [flat EXCEPT ![m] = t]
  BY DEF EraseAt, Become
<1>4. t \in Seq(Entries) /\ Gap(s, t, i, 1)
  <2>1. i \in 1 .. Len(s) + 1 /\ i + 1 \in i .. Len(s) + 1 /\ (i + 1) - i = 1
    <3> HIDE DEF s, t, k
    <3> QED BY <1>2
  <2>2. t = SubSeq(s, 1, i - 1) \o SubSeq(s, i + 1, Len(s))
    BY DEF RemoveAt
  <2> HIDE DEF s, t
  <2>3. t \in Seq(Entries) /\ Gap(s, t, i, (i + 1) - i)
    BY <1>1, <2>1, <2>2, TakenOut, Zenon
  <2> QED BY <2>1, <2>3
<1> HIDE DEF s, t, k
<1>5. /\ r \in 1 .. Len(ValuesFor(t, k)) + 1 /\ Len(ValuesFor(s, k)) = Len(ValuesFor(t, k)) + 1
      /\ ValuesFor(t, k) = RemoveAt(ValuesFor(s, k), r)
  BY <1>1, <1>4, GapOfOne DEF k
<1>6. \A l \in Keys : l # k => ValuesFor(t, l) = ValuesFor(s, l)
  <2> TAKE l \in Keys
  <2> HAVE l # k
  <2>1. \A p \in i .. i + 1 - 1 : s[p].key # l
    BY <1>2 DEF k
  <2>2. ASSUME NEW d, Gap(s, t, i, d), \A p \in i .. i + d - 1 : s[p].key # l PROVE ValuesFor(t, l) = ValuesFor(s, l)
    BY <1>1, <1>4, <2>2, GapKeeps
  <2> QED BY <1>4, <2>1, <2>2
<1>7. Keyed!Set(m, k, ValuesFor(t, k))
  BY <1>2, <1>3, <1>6, ContentSet DEF s
<1>8. r \in DOMAIN ValuesFor(s, k)
  <2>1. ValuesFor(s, k) \in Seq(Items)
    BY <1>1, ValuesByRank
  <2> HIDE DEF r
  <2> QED BY <1>5, <2>1
<1>9. Content[m][k] = ValuesFor(s, k)
  BY <1>2, ContentAt DEF s
<1> HIDE DEF r
<1>10. r \in DOMAIN Content[m][k] /\ Keyed!Set(m, k, Keyed!RemoveAt(Content[m][k], r))
  BY <1>5, <1>7, <1>8, <1>9, SameKeyed
<1>11. Keyed!EraseOne(m, k)
  BY <1>10, Zenon DEF Keyed!EraseOne, Content
<1> QED BY <1>2, <1>11 DEF k, s

LEMMA EraseKeyRefines ==
  ASSUME FlatInv, NEW m \in Maps, NEW k \in Keys, EraseKey(m, k)
  PROVE  Keyed!EraseAll(m, k) \/ Keyed!EraseOne(m, k)
<1> DEFINE s == flat[m]
           lo == LowerBound(KeyOf(s), k)
           up == UpperBound(KeyOf(s), k)
           t == SubSeq(s, 1, lo - 1) \o SubSeq(s, up, Len(s))
<1>1. s \in Seq(Entries)
  BY HeldFacts
<1>2. /\ lo \in 1 .. Len(s) + 1 /\ up \in lo .. Len(s) + 1 /\ Places(s, k) = lo .. up - 1
      /\ flatMulti => flat' = [flat EXCEPT ![m] = t]
      /\ ~flatMulti => lo < up /\ lo \in DOMAIN s /\ EraseAt(m, lo)
  BY EraseKeyFacts
<1> HIDE DEF lo, up, s
<1>3. CASE flatMulti
  <2>1. t \in Seq(Entries) /\ Gap(s, t, lo, up - lo)
    BY <1>1, <1>2, TakenOut
  <2> HIDE DEF t
  <2>2. lo + (up - lo) - 1 = up - 1 /\ Len(t) \in Nat
    BY <1>2, <2>1, EntryFacts
  <2>3. ASSUME NEW l \in Keys, l # k PROVE ValuesFor(t, l) = ValuesFor(s, l)
    <3>1. \A p \in lo .. lo + (up - lo) - 1 : s[p].key # l
      BY <1>2, <2>2, <2>3 DEF Places
    <3> QED BY <1>1, <2>1, <3>1, GapKeeps
  <2>4. ValuesFor(t, k) = <<>>
    <3> DEFINE f == [x \in Places(t, k) |-> IF x < lo THEN x ELSE x + (up - lo)]
    <3>1. Carries(f, Places(t, k), Places(s, k) \ (lo .. lo + (up - lo) - 1))
      BY <1>1, <2>1, GapCarries
    <3>2. Places(s, k) \ (lo .. lo + (up - lo) - 1) = {}
      BY <1>2, <2>2
    <3>3. Places(t, k) = {}
      BY <3>1, <3>2 DEF Carries
    <3>4. \A i \in 1 .. Len(t) : t[i].key # k
      BY <3>3 DEF Places
    <3> QED BY <2>1, <3>4, NoValues
  <2>5. Keyed!Set(m, k, ValuesFor(t, k))
    BY <1>2, <1>3, <2>3, ContentSet DEF s
  <2>6. Keyed!Set(m, k, <<>>)
    BY <2>4, <2>5
  <2> QED BY <2>6, Zenon DEF Keyed!EraseAll
<1>4. CASE ~flatMulti
  <2>1. lo \in Places(s, k)
    BY <1>2, <1>4
  <2>2. s[lo].key = k
    BY <2>1 DEF Places
  <2>3. Keyed!EraseOne(m, s[lo].key)
    BY <1>2, <1>4, EraseAtRefines DEF s
  <2> QED BY <2>2, <2>3
<1> QED BY <1>3, <1>4

\* Rename, of any content.
MovesValue(c, d, m, k, l) ==
  \E i \in DOMAIN c[m][k] : \E j \in 1 .. Len(c[m][l]) + 1 :
    /\ flatMulti \/ c[m][l] = <<>>
    /\ d = [c EXCEPT ![m][k] = Keyed!RemoveAt(@, i), ![m][l] = Keyed!InsertAt(@, j, c[m][k][i])]

\* A change of a key moves a value, or changes nothing where the key stays the same.
LEMMA ChangeKeyRefines ==
  ASSUME FlatInv, NEW m \in Maps, NEW i \in DOMAIN flat[m], NEW k \in Keys, ChangeKey(m, i, k)
  PROVE  \/ UNCHANGED Content
         \/ flat[m][i].key \in Keys /\ flat[m][i].key # k /\ Keyed!Rename(m, flat[m][i].key, k)
<1> DEFINE s == flat[m]
           o == s[i].key
           t == WithKey(s, i, k)
           u == StableSort(t)
<1>1. s \in Seq(Entries) /\ i \in 1 .. Len(s) /\ o \in Keys /\ DOMAIN s = 1 .. Len(s)
  BY HeldFacts, EntryFacts
<1>2. flat' = [flat EXCEPT ![m] = u] /\ (flatMulti \/ \A j \in 1 .. Len(s) : s[j].key # k)
  BY <1>1 DEF ChangeKey, Become, WithKey
<1> HIDE DEF s, o
<1>3. t \in Seq(Entries)
  BY <1>1, ChangeKeyFacts
<1>4. /\ \A l \in Keys : l # k /\ l # o => ValuesFor(t, l) = ValuesFor(s, l)
      /\ o = k => ValuesFor(t, k) = ValuesFor(s, k)
      /\ o # k => \E p \in DOMAIN ValuesFor(s, o), r \in 1 .. Len(ValuesFor(s, k)) + 1 :
                    /\ ValuesFor(t, o) = RemoveAt(ValuesFor(s, o), p)
                    /\ ValuesFor(t, k) = InsertAt(ValuesFor(s, k), r, ValuesFor(s, o)[p])
  BY <1>1, RenamedValues DEF o
<1> HIDE DEF t
<1>5. \A l : ValuesFor(u, l) = ValuesFor(t, l)
  BY <1>3, SortKeepsValues
<1> HIDE DEF u
<1> DEFINE X == [l \in Keys |-> ValuesFor(u, l)]
<1>6. Content' = [Content EXCEPT ![m] = X]
  BY <1>2, ContentBecomes
<1>7. Content[m] = [l \in Keys |-> ValuesFor(s, l)] /\ DOMAIN Content = Maps /\ Content = [q \in Maps |-> Content[q]]
  BY ContentFacts DEF s
<1>8. CASE o = k
  <2>1. X = Content[m]
    BY <1>4, <1>5, <1>7, <1>8
  <2> HIDE DEF X
  <2> QED BY <1>6, <1>7, <2>1
<1>9. CASE o # k
  <2>1. PICK p \in DOMAIN ValuesFor(s, o), r \in 1 .. Len(ValuesFor(s, k)) + 1 :
           /\ ValuesFor(t, o) = RemoveAt(ValuesFor(s, o), p)
           /\ ValuesFor(t, k) = InsertAt(ValuesFor(s, k), r, ValuesFor(s, o)[p])
    BY <1>4, <1>9
  <2> DEFINE A == RemoveAt(ValuesFor(s, o), p)
             B == InsertAt(ValuesFor(s, k), r, ValuesFor(s, o)[p])
  <2>2. \A l \in Keys : X[l] = IF l = k THEN B ELSE IF l = o THEN A ELSE ValuesFor(s, l)
    <3> HIDE DEF A, B
    <3>1. ValuesFor(t, o) = A /\ ValuesFor(t, k) = B
      BY <2>1 DEF A, B
    <3> QED BY <1>4, <1>5, <1>9, <3>1
  <2> HIDE DEF A, B
  <2>3. X = [Content[m] EXCEPT ![o] = A, ![k] = B]
    <3>1. X = [l \in Keys |-> X[l]]
      OBVIOUS
    <3> HIDE DEF X
    <3> QED BY <1>1, <1>7, <1>9, <2>2, <3>1
  <2> HIDE DEF X
  <2>4. Content' = [Content EXCEPT ![m][o] = A, ![m][k] = B]
    BY <1>6, <1>7, <2>3
  <2>5. Content[m][o] = ValuesFor(s, o) /\ Content[m][k] = ValuesFor(s, k)
    BY <1>1, <1>7
  <2>6. A = Keyed!RemoveAt(Content[m][o], p) /\ B = Keyed!InsertAt(Content[m][k], r, Content[m][o][p])
    BY <2>5, SameKeyed DEF A, B
  <2>7. flatMulti \/ Content[m][k] = <<>>
    BY <1>1, <1>2, <2>5, NoValues
  <2>8. p \in DOMAIN Content[m][o] /\ r \in 1 .. Len(Content[m][k]) + 1
    BY <2>5
  <2>9. Content' = [Content EXCEPT ![m][o] = Keyed!RemoveAt(@, p), ![m][k] = Keyed!InsertAt(@, r, Content[m][o][p])]
    <3> DEFINE a == Keyed!RemoveAt(Content[m][o], p)
               b == Keyed!InsertAt(Content[m][k], r, Content[m][o][p])
    <3>1. [Content[m] EXCEPT ![o] = a][k] = Content[m][k]
      BY <1>1, <1>7, <1>9
    <3>2. [Content EXCEPT ![m][o] = a][m] = [Content[m] EXCEPT ![o] = a]
      BY <1>7
    <3> HIDE DEF a
    <3>3. [Content EXCEPT ![m][o] = a][m][k] = Content[m][k]
      BY <3>1, <3>2
    <3> HIDE DEF Content
    <3>4. Content' = [[Content EXCEPT ![m][o] = a] EXCEPT ![m][k] = b]
      BY <2>4, <2>6 DEF a
    <3>5. [[Content EXCEPT ![m][o] = a] EXCEPT ![m][k] = Keyed!InsertAt(@, r, Content[m][o][p])]
          = [[Content EXCEPT ![m][o] = a] EXCEPT ![m][k] = Keyed!InsertAt([Content EXCEPT ![m][o] = a][m][k], r, Content[m][o][p])]
      OBVIOUS
    <3> QED BY <3>3, <3>4, <3>5, Zenon DEF a
  <2>10. Keyed!Rename(m, o, k)
    <3>1. MovesValue(Content, Content', m, o, k)
      BY <2>7, <2>8, <2>9 DEF MovesValue
    <3> QED BY <3>1, Zenon DEF MovesValue, Keyed!Rename, Content
  <2> QED BY <1>1, <1>9, <2>10 DEF o, s
<1> QED BY <1>8, <1>9

LEMMA SubscriptRefines ==
  ASSUME FlatInv, NEW m \in Maps, NEW k \in Keys, Subscript(m, k)
  PROVE  Keyed!InsertValue(m, k, DefaultItem) \/ UNCHANGED flat
<1>1. DefaultItem \in Items /\ MapInsert(m, k, DefaultItem)
  BY FlatAssumption DEF Subscript
<1> QED BY <1>1, MapInsertRefines

LEMMA EmptyContent == [k \in Keys |-> ValuesFor(<<>>, k)] = Keyed!Nothing
<1>1. ASSUME NEW k PROVE ValuesFor(<<>>, k) = <<>>
  <2>1. \A i \in 1 .. Len(<<>>) : <<>>[i].key # k
    OBVIOUS
  <2> QED BY <2>1, EmptyKept, NoValues
<1> QED BY <1>1 DEF Keyed!Nothing

BecomeTwo(m, n, s, t) == flat' = [flat EXCEPT ![m] = s, ![n] = t]

\* Where two containers change.
LEMMA ContentOfTwo ==
  ASSUME FlatInv, NEW m \in Maps, NEW n \in Maps \ {m}, NEW t, NEW u, BecomeTwo(m, n, t, u)
  PROVE  Content' = [Content EXCEPT ![m] = [k \in Keys |-> ValuesFor(t, k)], ![n] = [k \in Keys |-> ValuesFor(u, k)]]
<1>1. \A q \in Maps : flat'[q] = IF q = m THEN t ELSE IF q = n THEN u ELSE flat[q]
  BY DEF FlatInv, BecomeTwo
<1> DEFINE X == [k \in Keys |-> ValuesFor(t, k)]
           Y == [k \in Keys |-> ValuesFor(u, k)]
<1>2. ASSUME NEW q \in Maps PROVE Content'[q] = IF q = m THEN X ELSE IF q = n THEN Y ELSE Content[q]
  <2>0. Content'[q] = [k \in Keys |-> ValuesFor(flat'[q], k)] /\ Content[q] = [k \in Keys |-> ValuesFor(flat[q], k)]
    BY ContentFacts
  <2>1. CASE q = m
    <3>1. flat'[q] = t
      BY <1>1, <2>1
    <3> QED BY <2>0, <2>1, <3>1, Zenon
  <2>2. CASE q # m /\ q = n
    <3>1. flat'[q] = u
      BY <1>1, <2>2
    <3> QED BY <2>0, <2>2, <3>1, Zenon
  <2>3. CASE q # m /\ q # n
    <3>1. flat'[q] = flat[q]
      BY <1>1, <2>3
    <3> QED BY <2>0, <2>3, <3>1, Zenon
  <2> QED BY <2>1, <2>2, <2>3
<1> HIDE DEF X, Y
<1>3. Content' = [Content EXCEPT ![m] = X, ![n] = Y]
  BY <1>2, ContentFacts
<1> QED BY <1>3 DEF X, Y

LEMMA WholeRefines ==
  ASSUME FlatInv, NEW m \in Maps
  PROVE  /\ FlatClear(m) => Keyed!Clear(m)
         /\ \A n \in Maps \ {m} : /\ FlatCopy(m, n) => Keyed!Copy(m, n)
                                  /\ FlatMove(m, n) => Keyed!MoveFrom(m, n)
                                  /\ FlatSwap(m, n) => Keyed!Swap(m, n)
<1>1. ASSUME FlatClear(m) PROVE Keyed!Clear(m)
  <2>1. flat' = [flat EXCEPT ![m] = <<>>]
    BY <1>1 DEF FlatClear, Become
  <2>2. Content' = [Content EXCEPT ![m] = Keyed!Nothing]
    BY <2>1, ContentBecomes, EmptyContent
  <2> QED BY <2>2, Zenon DEF Keyed!Clear, Content
<1>2. ASSUME NEW n \in Maps \ {m}, FlatCopy(m, n) PROVE Keyed!Copy(m, n)
  <2>1. flat' = [flat EXCEPT ![m] = flat[n]]
    BY <1>2 DEF FlatCopy, Become
  <2>2. Content' = [Content EXCEPT ![m] = Content[n]]
    <3>1. Content' = [Content EXCEPT ![m] = [k \in Keys |-> ValuesFor(flat[n], k)]]
      BY <2>1, ContentBecomes
    <3> QED BY <3>1, ContentFacts, Zenon
  <2> QED BY <2>2, Zenon DEF Keyed!Copy, Content
<1>3. ASSUME NEW n \in Maps \ {m}, FlatMove(m, n) PROVE Keyed!MoveFrom(m, n)
  <2>1. BecomeTwo(m, n, flat[n], <<>>)
    BY <1>3 DEF FlatMove, BecomeTwo
  <2>2. Content' = [Content EXCEPT ![m] = Content[n], ![n] = Keyed!Nothing]
    <3>1. Content' = [Content EXCEPT ![m] = [k \in Keys |-> ValuesFor(flat[n], k)],
                                     ![n] = [k \in Keys |-> ValuesFor(<<>>, k)]]
      BY <2>1, ContentOfTwo
    <3>2. Content[n] = [k \in Keys |-> ValuesFor(flat[n], k)]
      BY ContentFacts
    <3> QED BY <3>1, <3>2, EmptyContent, Zenon
  <2> QED BY <2>2, Zenon DEF Keyed!MoveFrom, Content
<1>4. ASSUME NEW n \in Maps \ {m}, FlatSwap(m, n) PROVE Keyed!Swap(m, n)
  <2>1. BecomeTwo(m, n, flat[n], flat[m])
    BY <1>4 DEF FlatSwap, BecomeTwo
  <2>2. Content' = [Content EXCEPT ![m] = Content[n], ![n] = Content[m]]
    <3>1. Content' = [Content EXCEPT ![m] = [k \in Keys |-> ValuesFor(flat[n], k)],
                                     ![n] = [k \in Keys |-> ValuesFor(flat[m], k)]]
      BY <2>1, ContentOfTwo
    <3>2. Content[n] = [k \in Keys |-> ValuesFor(flat[n], k)] /\ Content[m] = [k \in Keys |-> ValuesFor(flat[m], k)]
      BY ContentFacts
    <3> QED BY <3>1, <3>2, Zenon
  <2> QED BY <2>2, Zenon DEF Keyed!Swap, Content
<1> QED BY <1>1, <1>2, <1>3, <1>4

\* The refinement as the property states it, over Content.
KeyedStep == [Keyed!KeyedNext]_<<Content, flatMulti>>

LEMMA FlatStepRefines ==
  ASSUME FlatInv, FlatNext
  PROVE  KeyedStep
<1>1. UNCHANGED flatMulti
  BY DEF FlatNext
<1>2. ASSUME UNCHANGED flat PROVE KeyedStep
  BY <1>1, <1>2 DEF KeyedStep, Content
<1>3. ASSUME NEW m \in Maps, NEW k \in Keys, NEW v \in Items, Keyed!InsertValue(m, k, v) \/ Keyed!AssignValue(m, k, v) PROVE KeyedStep
  BY <1>1, <1>3, Zenon DEF KeyedStep, Keyed!KeyedNext
<1>4. ASSUME NEW m \in Maps, NEW k \in Keys, NEW v \in Items, MapInsert(m, k, v) PROVE KeyedStep
  BY <1>2, <1>3, <1>4, MapInsertRefines
<1>5. ASSUME NEW m \in Maps, NEW k \in Keys, NEW v \in Items, InsertOrAssign(m, k, v) PROVE KeyedStep
  BY <1>3, <1>5, InsertOrAssignRefines
<1>6. ASSUME NEW m \in Maps, NEW k \in Keys, Subscript(m, k) PROVE KeyedStep
  BY <1>2, <1>3, <1>6, SubscriptRefines, FlatAssumption
<1>7. ASSUME NEW m \in Maps, NEW k \in Keys, Keyed!EraseAll(m, k) \/ Keyed!EraseOne(m, k) PROVE KeyedStep
  BY <1>1, <1>7, Zenon DEF KeyedStep, Keyed!KeyedNext
<1>8. ASSUME NEW m \in Maps, NEW k \in Keys, EraseKey(m, k) PROVE KeyedStep
  BY <1>7, <1>8, EraseKeyRefines
<1>9. ASSUME NEW m \in Maps, NEW i \in DOMAIN flat[m], EraseAt(m, i) PROVE KeyedStep
  BY <1>7, <1>9, EraseAtRefines
<1>10. ASSUME NEW m \in Maps, NEW i \in DOMAIN flat[m], NEW k \in Keys, ChangeKey(m, i, k) PROVE KeyedStep
  <2>1. CASE UNCHANGED Content
    BY <1>1, <2>1 DEF KeyedStep
  <2>2. ASSUME NEW o \in Keys, o # k, Keyed!Rename(m, o, k) PROVE KeyedStep
    BY <1>1, <2>2, Zenon DEF KeyedStep, Keyed!KeyedNext
  <2> QED BY <1>10, <2>1, <2>2, ChangeKeyRefines
<1>11. ASSUME NEW m \in Maps, FlatClear(m) PROVE KeyedStep
  <2>1. Keyed!Clear(m)
    BY <1>11, WholeRefines
  <2> QED BY <1>1, <2>1, Zenon DEF KeyedStep, Keyed!KeyedNext
<1>12. ASSUME NEW m \in Maps, NEW n \in Maps \ {m}, FlatCopy(m, n) \/ FlatMove(m, n) \/ FlatSwap(m, n) PROVE KeyedStep
  <2>1. Keyed!Copy(m, n) \/ Keyed!MoveFrom(m, n) \/ Keyed!Swap(m, n)
    BY <1>12, WholeRefines
  <2> QED BY <1>1, <2>1, Zenon DEF KeyedStep, Keyed!KeyedNext
<1> HIDE DEF KeyedStep
<1> QED BY <1>4, <1>5, <1>6, <1>8, <1>9, <1>10, <1>11, <1>12 DEF FlatNext

LEMMA FlatInitRefines ==
  ASSUME FlatInit
  PROVE  Keyed!KeyedInit
<1>1. FlatInv
  BY FlatInitInv
<1>2. ASSUME NEW m \in Maps, NEW k \in Keys PROVE flatMulti \/ Len(ValuesFor(flat[m], k)) <= 1
  BY <1>1, HeldFacts, OneValue
<1> QED BY <1>1, <1>2 DEF Keyed!KeyedInit, FlatInv

(***************************************************************************)
(* Theorems                                                                *)
(***************************************************************************)

\* Maps of either layout find what they hold, in every behaviour: looking up, counting, walking and at() agree with
\* what is stored (at() in front of a greater key with the value of that one), whatever was inserted, erased, sorted again, assigned or swapped, and whatever threw.
THEOREM MapsCorrect == Spec => []MapsSafe
<1>1. Init => FlatInv /\ DualInv
  BY FlatInitInv, DualInitRefines DEF Init
<1>2. FlatInv /\ DualInv /\ [Next]_<<part, memVars, flatVars, dualVars>> => (FlatInv /\ DualInv)'
  <2> SUFFICES ASSUME FlatInv, DualInv, [Next]_<<part, memVars, flatVars, dualVars>> PROVE FlatInv' /\ DualInv'
    OBVIOUS
  <2>1. ASSUME UNCHANGED flatVars PROVE FlatInv'
    BY <2>1 DEF flatVars, FlatInv
  <2>2. ASSUME UNCHANGED dualVars PROVE DualInv'
    BY <2>2 DEF dualVars, DualInv
  <2> QED BY <2>1, <2>2, FlatStep, DualStep DEF Next
<1>3. FlatInv /\ DualInv => MapsSafe
  BY FlatInvSafe, DualInvSafe DEF MapsSafe
<1> QED BY <1>1, <1>2, <1>3, PTL DEF Spec

\* The flat containers keep for each key its values in the order they were inserted: every step is one of the keyed
\* values that changes its key only, or none.
THEOREM FlatRefinement == Spec => FlatKeepsValues
<1>1. Init => FlatInv /\ Keyed!KeyedInit
  BY FlatInitInv, FlatInitRefines DEF Init
<1>2. FlatInv /\ [Next]_<<part, memVars, flatVars, dualVars>> => FlatInv' /\ KeyedStep
  <2> SUFFICES ASSUME FlatInv, [Next]_<<part, memVars, flatVars, dualVars>> PROVE FlatInv' /\ KeyedStep
    OBVIOUS
  <2>1. ASSUME UNCHANGED flatVars PROVE FlatInv' /\ KeyedStep
    BY <2>1 DEF flatVars, FlatInv, KeyedStep, Content
  <2> QED BY <2>1, FlatStep, FlatStepRefines DEF Next
<1>3. KeyedStep <=> [Keyed!KeyedNext]_<<[m \in Maps |-> [k \in Keys |-> ValuesFor(flat[m], k)]], flatMulti>>
  BY DEF KeyedStep, Content
<1> QED BY <1>1, <1>2, <1>3, PTL DEF Spec, FlatKeepsValues, Keyed!KeyedSpec

\* Two containers matched by index behave as one container of pairs, whether an operation throws or not, for as
\* long as no failed assertion has ended the program.
THEOREM DualRefinement == Spec => DualIsFlat
<1>1. Init => DualInv /\ F!FlatInit
  BY DualInitRefines DEF Init
<1>2. DualInv /\ [Next]_<<part, memVars, flatVars, dualVars>>
      => DualInv' /\ [F!FlatNext \/ \E m, n \in Maps : F!FlatClearBoth(m, n)]_<<Pairs, dualMulti>>
  <2> SUFFICES ASSUME DualInv, [Next]_<<part, memVars, flatVars, dualVars>>
               PROVE  DualInv' /\ [F!FlatNext \/ \E m, n \in Maps : F!FlatClearBoth(m, n)]_<<Pairs, dualMulti>>
    OBVIOUS
  <2>1. ASSUME UNCHANGED dualVars PROVE DualInv' /\ UNCHANGED <<Pairs, dualMulti>>
    BY <2>1, PairsAre DEF dualVars, DualInv
  <2> QED BY <2>1, DualStep DEF Next
<1> QED BY <1>1, <1>2, PTL DEF Spec, DualIsFlat
=============================================================================
