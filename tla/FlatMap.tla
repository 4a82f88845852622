------------------------------ MODULE FlatMap ------------------------------
(***************************************************************************)
(* generic_flat_map and generic_flat_multimap: key-value pairs in one      *)
(* container, in the order of their keys. A key is looked up with the      *)
(* binary searches of the standard library, which want the order kept, and *)
(* pairs with equal keys stay in the order they came. Two containers are   *)
(* modelled, so that one can be assigned to or swapped with the other. An  *)
(* iterator is an index, Len + 1 the one past the end.                     *)
(***************************************************************************)
EXTENDS SortedKeys

VARIABLES flat, flatMulti

flatVars == <<flat, flatMulti>>

Pair(k, v) == [key |-> k, value |-> v]

KeyOf(s) == [i \in DOMAIN s |-> s[i].key]

StableSort(s) ==
  LET Before(i, j) == s[i].key < s[j].key \/ (s[i].key = s[j].key /\ i < j)
      Place(i) == 1 + Cardinality({j \in DOMAIN s : Before(j, i)})
  IN [p \in DOMAIN s |-> s[CHOOSE i \in DOMAIN s : Place(i) = p]]

Distinct(s) == \A i, j \in DOMAIN s : s[i].key = s[j].key => i = j

\* The pairs a container can be constructed from.
SourceRanges(multi) ==
  {s \in UNION {[1 .. n -> [key : Keys, value : Items]] : n \in 0 .. 2} : multi \/ Distinct(s)}

FlatInit ==
  /\ flatMulti \in BOOLEAN
  /\ \E s \in SourceRanges(flatMulti) : flat = [m \in Maps |-> StableSort(s)]

Become(m, s) == flat' = [flat EXCEPT ![m] = s]

MutantAddPair(m, k, v) ==
  /\ Len(flat[m]) < MaxLen
  /\ Become(m, InsertAt(flat[m], LowerBound(KeyOf(flat[m]), k), Pair(k, v)))

AddPair(m, k, v) ==
  /\ Len(flat[m]) < MaxLen
  /\ Become(m, InsertAt(flat[m], UpperBound(KeyOf(flat[m]), k), Pair(k, v)))

MapInsert(m, k, v) ==
  IF ~flatMulti /\ Present(KeyOf(flat[m]), k) THEN UNCHANGED flat ELSE AddPair(m, k, v)

InsertOrAssign(m, k, v) ==
  /\ ~flatMulti
  /\ IF Present(KeyOf(flat[m]), k)
     THEN Become(m, [flat[m] EXCEPT ![UpperBound(KeyOf(flat[m]), k) - 1].value = v])
     ELSE AddPair(m, k, v)

\* operator[] puts a default value where find finds nothing.
Subscript(m, k) ==
  /\ ~flatMulti
  /\ Found(KeyOf(flat[m]), k) \notin DOMAIN flat[m]
  /\ MapInsert(m, k, DefaultItem)

EraseAt(m, i) == Become(m, RemoveAt(flat[m], i))

EraseKey(m, k) ==
  LET keys == KeyOf(flat[m])
  IN IF flatMulti
     THEN Become(m, SubSeq(flat[m], 1, LowerBound(keys, k) - 1)
                    \o SubSeq(flat[m], LowerBound(keys, k) + Cardinality(EqualRun(keys, k)), Len(keys)))
     ELSE Found(keys, k) \in DOMAIN keys /\ EraseAt(m, Found(keys, k))

MutantChangeKey(m, i, k) ==
  /\ flatMulti \/ \A j \in DOMAIN flat[m] : flat[m][j].key # k
  /\ Become(m, [flat[m] EXCEPT ![i].key = k])

\* The user changes a key through an iterator and calls resort().
ChangeKey(m, i, k) ==
  /\ flatMulti \/ \A j \in DOMAIN flat[m] : flat[m][j].key # k
  /\ Become(m, StableSort([flat[m] EXCEPT ![i].key = k]))

FlatAt(m, k) == ValueAt(KeyOf(flat[m]), [i \in DOMAIN flat[m] |-> flat[m][i].value], k)

FlatBegin(m) == 1
FlatEnd(m) == Len(flat[m]) + 1

FlatClear(m) == Become(m, <<>>)

FlatCopy(m, n) == Become(m, flat[n])

FlatMove(m, n) == flat' = [flat EXCEPT ![m] = flat[n], ![n] = <<>>]

FlatSwap(m, n) == flat' = [flat EXCEPT ![m] = flat[n], ![n] = flat[m]]

FlatClearBoth(m, n) == flat' = [flat EXCEPT ![m] = <<>>, ![n] = <<>>]

FlatNext ==
  /\ UNCHANGED flatMulti
  /\ \E m \in Maps :
       \/ \E k \in Keys, v \in Items : MapInsert(m, k, v) \/ InsertOrAssign(m, k, v)
       \/ \E k \in Keys : Subscript(m, k) \/ EraseKey(m, k)
       \/ \E i \in DOMAIN flat[m] : EraseAt(m, i) \/ \E k \in Keys : ChangeKey(m, i, k)
       \/ FlatClear(m)
       \/ \E n \in Maps \ {m} : FlatCopy(m, n) \/ FlatMove(m, n) \/ FlatSwap(m, n)

(***************************************************************************)
(* Properties                                                              *)
(***************************************************************************)

\* The containers hold pairs, and no map (as opposed to a multimap) holds two with one key.
FlatTypeOK ==
  /\ flatMulti \in BOOLEAN
  /\ \A m \in Maps : Len(flat[m]) <= MaxLen /\ \A i \in DOMAIN flat[m] : flat[m][i] \in [key : Keys, value : Items]
  /\ ~flatMulti => \A m \in Maps : Distinct(flat[m])

ValuesFor(s, k) ==
  LET F[n \in 0 .. Len(s)] ==
        IF n = 0 THEN <<>> ELSE IF s[n].key = k THEN Append(F[n - 1], s[n].value) ELSE F[n - 1]
  IN F[Len(s)]

\* find, count and equal_range, which only search, agree with what is really stored under a key,
\* after any sequence of insertions, erasures, resorts, assignments and swaps.
LookupsAgree ==
  \A m \in Maps, k \in Keys :
    LET keys   == KeyOf(flat[m])
        places == {i \in DOMAIN keys : keys[i] = k}
    IN /\ LowerBound(keys, k) .. UpperBound(keys, k) - 1 = places
       /\ Found(keys, k) \in DOMAIN keys <=> places # {}
       /\ Found(keys, k) \in DOMAIN keys => Found(keys, k) \in places
       /\ CountMulti(keys, k) = Cardinality(places)
       /\ ~flatMulti => CountUnique(keys, k) = Cardinality(places)

\* What at(k) answers, a value or nothing: that of the least stored key that is not smaller. This is k where k is
\* stored. Where it is not, documents say that at() throws, and it does behind the last key; in front of a greater
\* key it makes the exception, does not throw it, and answers with a value of another key.
AtMeets(s, k, answer) ==
  LET later == {h \in Keys : k <= h /\ ValuesFor(s, h) # <<>>}
  IN \/ later = {} /\ answer = <<>>
     \/ \E h \in later : (\A g \in later : h <= g) /\ answer = ValuesFor(s, h)

\* Iterators meet every pair once in the order of the keys, and backwards in the reverse of it; those of
\* equal_range meet the values of the key in the order they came. In a map at() returns what is stored, and for a
\* key that is not there throws or returns the value of the next greater key.
WalksAgree ==
  \A m \in Maps :
    LET all == Walk(flat[m], FlatBegin(m), FlatEnd(m)) IN
    /\ all = StableSort(flat[m])
    /\ Reverse(WalkBack(flat[m], FlatEnd(m), FlatBegin(m))) = all
    /\ \A k \in Keys :
         LET range == EqualRange(KeyOf(flat[m]), k)
             met == Walk(flat[m], range[1], range[2])
         IN  /\ [i \in DOMAIN met |-> met[i].value] = ValuesFor(flat[m], k)
             /\ ~flatMulti => AtMeets(flat[m], k, FlatAt(m, k))

Keyed == INSTANCE KeyedValues WITH
           Values <- Items,
           content <- [m \in Maps |-> [k \in Keys |-> ValuesFor(flat[m], k)]],
           multi <- flatMulti

\* The flat containers keep for each key its values in the order they were inserted: an operation
\* changes the values of its key only, and erase(key) in a multimap takes all of them.
FlatKeepsValues == Keyed!KeyedSpec

\* Looking up and walking is right, and no map holds a key twice.
FlatSafe == FlatTypeOK /\ LookupsAgree /\ WalksAgree
=============================================================================
