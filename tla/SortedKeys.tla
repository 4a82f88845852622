----------------------------- MODULE SortedKeys -----------------------------
(***************************************************************************)
(* Looking up keys in a sequence kept in ascending order, which the flat   *)
(* maps and the dual container maps do alike. An iterator is an index,     *)
(* Len + 1 the one past the end.                                           *)
(***************************************************************************)
EXTENDS Integers, FiniteSets, Sequences, SequencesExt

CONSTANTS Maps, Keys, Items, DefaultItem, MaxLen

\* MaxLen bounds a container; one can be constructed from two pairs.
ASSUME FlatAssumption == Keys \subseteq Int /\ DefaultItem \in Items /\ MaxLen \in Nat /\ MaxLen >= 2

\* The binary searches on a sequence of keys in ascending order.
LowerBound(keys, k) == 1 + Cardinality({i \in DOMAIN keys : keys[i] < k})

UpperBound(keys, k) == 1 + Cardinality({i \in DOMAIN keys : keys[i] <= k})

Found(keys, k) ==
  LET it == LowerBound(keys, k)
  IN IF it \in DOMAIN keys /\ ~ k < keys[it] THEN it ELSE Len(keys) + 1

\* The place before the one a new pair would get already has its key.
Present(keys, k) ==
  LET before == UpperBound(keys, k) - 1 IN before \in DOMAIN keys /\ keys[before] = k

\* Both ends of the places that have a key.
EqualRange(keys, k) == <<LowerBound(keys, k), UpperBound(keys, k)>>

CountMulti(keys, k) == EqualRange(keys, k)[2] - EqualRange(keys, k)[1]

CountUnique(keys, k) == IF Found(keys, k) \in DOMAIN keys THEN 1 ELSE 0

\* The multimap erases where the key was found for as long as the key there is not a greater one.
EqualRun(keys, k) ==
  LET from == LowerBound(keys, k)
  IN {i \in from .. Len(keys) : \A j \in from .. i : ~ k < keys[j]}

\* What an iterator sees on its way to a later one, and a reverse iterator on its way to an earlier one:
\* it yields what is before its place.
Walk(s, from, to) == [n \in 1 .. to - from |-> s[from + n - 1]]
WalkBack(s, from, to) == [n \in 1 .. from - to |-> s[from - n]]

\* at() throws, which is <<>>, where the search ends past the last key; in front of a greater key the exception is made
\* and not thrown, and the value there is returned.
ValueAt(keys, values, k) ==
  IF LowerBound(keys, k) \in DOMAIN keys THEN <<values[LowerBound(keys, k)]>> ELSE <<>>
=============================================================================
