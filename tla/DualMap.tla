------------------------------ MODULE DualMap ------------------------------
(***************************************************************************)
(* dual_container_map and dual_container_multimap: the keys and the values *)
(* in a container each, matched by their index. An operation that throws   *)
(* after it began to change one of the two clears both; an allocation that *)
(* fails, before either is changed, leaves both as they were.  Containers  *)
(* move or copy alike, as both are made from one template.  A program with *)
(* assertions ends where one fails.                                        *)
(***************************************************************************)
EXTENDS SortedKeys

VARIABLES
  dualKeys, dualValues, dualMulti,
  dualAborted          \* an assertion failed

dualVars == <<dualKeys, dualValues, dualMulti, dualAborted>>

\* What an iterator with an index yields.
Pairs == [m \in Maps |-> [i \in DOMAIN dualKeys[m] |-> [key |-> dualKeys[m][i], value |-> dualValues[m][i]]]]

F == INSTANCE FlatMap WITH flat <- Pairs, flatMulti <- dualMulti

DualInit ==
  /\ dualMulti \in BOOLEAN
  /\ dualKeys = [m \in Maps |-> <<>>]
  /\ dualValues = [m \in Maps |-> <<>>]
  /\ dualAborted = FALSE

\* The searches look at the keys alone and make an iterator of the index they find.
DualLower(m, k) == LowerBound(dualKeys[m], k)
DualUpper(m, k) == UpperBound(dualKeys[m], k)
DualFound(m, k) == Found(dualKeys[m], k)
DualEqualRange(m, k) == <<DualLower(m, k), DualUpper(m, k)>>
DualPresent(m, k) == Present(dualKeys[m], k)
DualCount(m, k) == IF dualMulti THEN DualUpper(m, k) - DualLower(m, k) ELSE CountUnique(dualKeys[m], k)
DualAt(m, k) == ValueAt(dualKeys[m], dualValues[m], k)

DualBegin(m) == 1
DualEnd(m) == Len(dualKeys[m]) + 1

HaveBoth(m, keys, values) ==
  /\ dualKeys' = [dualKeys EXCEPT ![m] = keys]
  /\ dualValues' = [dualValues EXCEPT ![m] = values]

\* The catch blocks, and clear().
DualClear(m) == HaveBoth(m, <<>>, <<>>)

MutantEmplace(m, k, v) ==
  LET index == DualUpper(m, k)
  IN /\ Len(dualKeys[m]) < MaxLen
     /\ \/ HaveBoth(m, InsertAt(dualKeys[m], index, k), Append(dualValues[m], v))
        \/ DualClear(m)
        \/ UNCHANGED <<dualKeys, dualValues>>

Emplace(m, k, v) ==
  LET index == DualUpper(m, k)
  IN /\ Len(dualKeys[m]) < MaxLen
     /\ \/ HaveBoth(m, InsertAt(dualKeys[m], index, k), InsertAt(dualValues[m], index, v))
        \/ DualClear(m)                                      \* a constructor or a move throws
        \/ UNCHANGED <<dualKeys, dualValues>>                \* reserve() throws

DualInsert(m, k, v) ==
  IF ~dualMulti /\ DualPresent(m, k)
  THEN UNCHANGED <<dualKeys, dualValues>>
  ELSE Emplace(m, k, v)

DualInsertOrAssign(m, k, v) ==
  /\ ~dualMulti
  /\ IF DualPresent(m, k)
     THEN HaveBoth(m, dualKeys[m], [dualValues[m] EXCEPT ![DualUpper(m, k) - 1] = v])
     ELSE Emplace(m, k, v)

\* A move that closes the gap may throw.
DualEraseAt(m, i) ==
  \/ HaveBoth(m, RemoveAt(dualKeys[m], i), RemoveAt(dualValues[m], i))
  \/ DualClear(m)

\* The multimap erases one by one, until the key is a greater one or an erasure throws.
DualEraseKey(m, k) ==
  LET i == DualLower(m, k)
      n == Cardinality(EqualRun(dualKeys[m], k))
      Rest(s) == SubSeq(s, 1, i - 1) \o SubSeq(s, i + n, Len(s))
  IN IF dualMulti
     THEN \/ HaveBoth(m, Rest(dualKeys[m]), Rest(dualValues[m]))
          \/ n > 0 /\ DualClear(m)
     ELSE DualFound(m, k) \in DOMAIN dualKeys[m] /\ DualEraseAt(m, DualFound(m, k))

\* Assignment: the containers take over the ones of n, or a copy of theirs throws.
DualCopy(m, n) == HaveBoth(m, dualKeys[n], dualValues[n]) \/ DualClear(m)

PairsTaken(m, n) ==
  /\ dualKeys' = [dualKeys EXCEPT ![m] = dualKeys[n], ![n] = <<>>]
  /\ dualValues' = [dualValues EXCEPT ![m] = dualValues[n], ![n] = <<>>]

\* Assignment by moving asserts that the map is assigned to itself, so that a program with assertions ends where it
\* is not. Without them the containers of n are taken, or copied where moving one might throw; a copy, or the
\* comparator's, may throw, which clears m and leaves n. Moved to themselves containers are cleared or stay.
DualMove(m, n) ==
  \/ m # n /\ dualAborted' = TRUE /\ UNCHANGED <<dualKeys, dualValues>>
  \/ dualAborted' = FALSE /\ (PairsTaken(m, n) \/ DualCopy(m, n))

DualSwap(m, n) ==
  \/ /\ dualKeys' = [dualKeys EXCEPT ![m] = dualKeys[n], ![n] = dualKeys[m]]
     /\ dualValues' = [dualValues EXCEPT ![m] = dualValues[n], ![n] = dualValues[m]]
  \/ /\ dualKeys' = [dualKeys EXCEPT ![m] = <<>>, ![n] = <<>>]
     /\ dualValues' = [dualValues EXCEPT ![m] = <<>>, ![n] = <<>>]

DualOperation ==
  \E m \in Maps :
    \/ \E k \in Keys, v \in Items : DualInsert(m, k, v) \/ DualInsertOrAssign(m, k, v)
    \/ \E k \in Keys : DualEraseKey(m, k)
    \/ \E i \in DOMAIN dualKeys[m] : DualEraseAt(m, i)
    \/ DualClear(m)
    \/ \E n \in Maps \ {m} : DualCopy(m, n) \/ DualSwap(m, n)

DualNext ==
  /\ ~dualAborted /\ UNCHANGED dualMulti
  /\ \/ DualOperation /\ UNCHANGED dualAborted
     \/ \E m, n \in Maps : DualMove(m, n)

(***************************************************************************)
(* Properties                                                              *)
(***************************************************************************)

\* The keys and the values match by their index: whatever threw, there are as many of one as of the other.
DualTypeOK ==
  /\ dualMulti \in BOOLEAN /\ dualAborted \in BOOLEAN
  /\ \A m \in Maps : dualKeys[m] \in Seq(Keys) /\ dualValues[m] \in Seq(Items)
  /\ \A m \in Maps : Len(dualKeys[m]) = Len(dualValues[m])

\* What is found, counted, walked over and returned for a key is what the pairs say, at() for a key that is not
\* there as in the flat map.
DualLookups ==
  \A m \in Maps :
    /\ Walk(Pairs[m], DualBegin(m), DualEnd(m)) = F!StableSort(Pairs[m])
    /\ \A k \in Keys :
         LET met == Walk(Pairs[m], DualEqualRange(m, k)[1], DualEqualRange(m, k)[2])
             stored == F!ValuesFor(Pairs[m], k)
         IN  /\ [i \in DOMAIN met |-> met[i].value] = stored
             /\ DualCount(m, k) = Len(stored)
             /\ DualFound(m, k) \in DOMAIN dualKeys[m] <=> stored # <<>>
             /\ ~dualMulti => F!AtMeets(Pairs[m], k, DualAt(m, k))

\* The two containers fit together, and looking up and walking in them is right.
DualSafe == DualTypeOK /\ DualLookups

\* Two containers matched by index behave as one container of pairs: every operation, whether it
\* throws or not, is an operation of the flat map or leaves the map empty and valid. A program with assertions does
\* so until it assigns a map by moving, which ends it.
DualIsFlat ==
  /\ F!FlatInit
  /\ [][F!FlatNext \/ \E m, n \in Maps : F!FlatClearBoth(m, n)]_<<Pairs, dualMulti>>
=============================================================================
