---------------------------- MODULE KeyedValues ----------------------------
(***************************************************************************)
(* What the map and multimap containers promise, whatever their layout:    *)
(* for each key the values stored for it, in the order they were inserted, *)
(* one at most in a map.                                                   *)
(***************************************************************************)
EXTENDS Naturals, Sequences, SequencesExt

CONSTANTS Maps, Keys, Values

VARIABLES content, multi

Nothing == [k \in Keys |-> <<>>]

\* Two containers of one type, each constructed from a range of pairs.
KeyedInit ==
  /\ multi \in BOOLEAN
  /\ DOMAIN content = Maps
  /\ \A m \in Maps, k \in Keys : multi \/ Len(content[m][k]) <= 1

Set(m, k, values) == content' = [content EXCEPT ![m][k] = values]

InsertValue(m, k, v) == (multi \/ content[m][k] = <<>>) /\ Set(m, k, Append(content[m][k], v))

AssignValue(m, k, v) == ~multi /\ Set(m, k, <<v>>)

EraseAll(m, k) == Set(m, k, <<>>)

EraseOne(m, k) == \E i \in DOMAIN content[m][k] : Set(m, k, RemoveAt(content[m][k], i))

\* A changed key takes its value to a place among those of the new key.
Rename(m, k, l) ==
  \E i \in DOMAIN content[m][k] : \E j \in 1 .. Len(content[m][l]) + 1 :
    /\ multi \/ content[m][l] = <<>>
    /\ content' = [content EXCEPT ![m][k] = RemoveAt(@, i),
                                  ![m][l] = InsertAt(@, j, content[m][k][i])]

Clear(m) == content' = [content EXCEPT ![m] = Nothing]

ClearBoth(m, n) == content' = [content EXCEPT ![m] = Nothing, ![n] = Nothing]

Copy(m, n) == content' = [content EXCEPT ![m] = content[n]]

MoveFrom(m, n) == content' = [content EXCEPT ![m] = content[n], ![n] = Nothing]

Swap(m, n) == content' = [content EXCEPT ![m] = content[n], ![n] = content[m]]

KeyedNext ==
  /\ UNCHANGED multi
  /\ \E m \in Maps :
       \/ \E k \in Keys, v \in Values : InsertValue(m, k, v) \/ AssignValue(m, k, v)
       \/ \E k \in Keys : EraseAll(m, k) \/ EraseOne(m, k)
       \/ \E k, l \in Keys : k # l /\ Rename(m, k, l)
       \/ Clear(m)
       \/ \E n \in Maps \ {m} : Copy(m, n) \/ MoveFrom(m, n) \/ Swap(m, n) \/ ClearBoth(m, n)

KeyedSpec == KeyedInit /\ [][KeyedNext]_<<content, multi>>
=============================================================================
