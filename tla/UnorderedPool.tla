--------------------------- MODULE UnorderedPool ---------------------------
(***************************************************************************)
(* containers::unordered_object_pool: blocks of entries that hold an       *)
(* object or a link of the free list. Threads insert, erase and iterate;   *)
(* an entry is taken from the free list under the lock, filled outside it, *)
(* and counted last; erasing goes the other way. clear and reorganize are  *)
(* for a pool that nobody else uses. (Copying does not compile, and moving *)
(* ends the program: std::lock is given locks that are already held.)      *)
(***************************************************************************)
EXTENDS Naturals, Sequences, FiniteSets, SequencesExt

CONSTANTS PoolThreads, MaxPoolObjects, BlockEntries, MaxPoolBlocks, NoEntry, MaxLostEntries

ASSUME UnorderedPoolAssumption ==
  /\ BlockEntries \in Nat \ {0} /\ MaxPoolBlocks \in Nat
  /\ MaxPoolObjects \in Nat /\ MaxLostEntries \in Nat
  /\ NoEntry \notin (1 .. MaxPoolBlocks) \X (1 .. BlockEntries)

PoolObjects == 1 .. MaxPoolObjects
NoObject == 0

PoolEntries == (1 .. MaxPoolBlocks) \X (1 .. BlockEntries)

VARIABLES
  upBlocks,    \* blocks, in the order of the list
  upObject,    \* the object of an active entry
  upHead, upNext,   \* first_free_entry, next_free
  upCount, upBlockCount,   \* active_objects of the pool and of each block
  upPc, upEntry, upNew,    \* per thread: place, the entry and the object in work
  upSeen, upStays,   \* iteration: objects visited, objects in the pool all the while
  upLost       \* entries whose constructor threw

upStorage  == <<upBlocks, upObject, upBlockCount>>
freeList == <<upHead, upNext>>
looping  == <<upSeen, upStays>>
upVars   == <<upStorage, freeList, upCount, upPc, upEntry, upNew, looping, upLost>>

UPoolInit ==
  /\ upBlocks = <<>> /\ upObject = [e \in PoolEntries |-> NoObject]
  /\ upHead = NoEntry /\ upNext = [e \in PoolEntries |-> NoEntry]
  /\ upCount = 0 /\ upBlockCount = [b \in 1 .. MaxPoolBlocks |-> 0]
  /\ upPc = [t \in PoolThreads |-> "idle"] /\ upEntry = [t \in PoolThreads |-> NoEntry]
  /\ upNew = [t \in PoolThreads |-> NoObject]
  /\ upSeen = [t \in PoolThreads |-> {}] /\ upStays = [t \in PoolThreads |-> {}]
  /\ upLost = {}

Active(e) == upObject[e] # NoObject
InPool == {upObject[e] : e \in {f \in PoolEntries : Active(f)}}

\* Objects have numbers, a new one the least that is free.
Unused == PoolObjects \ (InPool \cup {upNew[t] : t \in PoolThreads})
NewObject == CHOOSE o \in Unused : \A p \in Unused : o <= p

PoolGoes(t, from, to) == upPc[t] = from /\ upPc' = [upPc EXCEPT ![t] = to]

(***************************************************************************)
(* insert, emplace                                                         *)
(***************************************************************************)

MutantTakeEntry(t) ==
  /\ PoolGoes(t, "idle", "fill")
  /\ Unused # {} /\ upNew' = [upNew EXCEPT ![t] = NewObject]
  /\ upHead # NoEntry
  /\ upEntry' = [upEntry EXCEPT ![t] = upHead]
  /\ UNCHANGED <<upStorage, freeList, upCount, looping, upLost>>

TakeEntry(t) ==
  /\ PoolGoes(t, "idle", "fill")
  /\ Unused # {} /\ upNew' = [upNew EXCEPT ![t] = NewObject]
  /\ upHead # NoEntry
  /\ upEntry' = [upEntry EXCEPT ![t] = upHead]
  /\ upHead' = upNext[upHead]
  /\ upNext' = [upNext EXCEPT ![upHead] = NoEntry]   \* the object will overwrite the link
  /\ UNCHANGED <<upStorage, upCount, looping, upLost>>

\* grow links the entries of a new block in order; the first is taken at once.
TakeFromNewBlock(t) ==
  /\ PoolGoes(t, "idle", "fill")
  /\ Unused # {} /\ upNew' = [upNew EXCEPT ![t] = NewObject]
  /\ upHead = NoEntry
  /\ Len(upBlocks) < MaxPoolBlocks
  /\ LET b == Len(upBlocks) + 1
         after(i) == IF i = BlockEntries THEN NoEntry ELSE <<b, i + 1>>
     IN /\ upBlocks' = Append(upBlocks, b)
        /\ upNext' = [e \in PoolEntries |-> IF e[1] = b /\ e[2] # 1 THEN after(e[2]) ELSE upNext[e]]
        /\ upEntry' = [upEntry EXCEPT ![t] = <<b, 1>>]
        /\ upHead' = after(1)
  /\ UNCHANGED <<upObject, upBlockCount, upCount, looping, upLost>>

Fill(t) ==
  /\ PoolGoes(t, "fill", "count")
  /\ upObject' = [upObject EXCEPT ![upEntry[t]] = upNew[t]]
  /\ upBlockCount' = [upBlockCount EXCEPT ![upEntry[t][1]] = @ + 1]
  /\ UNCHANGED <<upBlocks, freeList, upCount, upEntry, upNew, looping, upLost>>

\* Nobody puts the entry back when the constructor throws.
FillThrows(t) ==
  /\ PoolGoes(t, "fill", "idle")
  /\ Cardinality(upLost) < MaxLostEntries
  /\ upLost' = upLost \cup {upEntry[t]}
  /\ upNew' = [upNew EXCEPT ![t] = NoObject]
  /\ upEntry' = [upEntry EXCEPT ![t] = NoEntry]
  /\ UNCHANGED <<upStorage, freeList, upCount, looping>>

CountIn(t) ==
  /\ PoolGoes(t, "count", "idle")
  /\ upCount' = upCount + 1
  /\ upNew' = [upNew EXCEPT ![t] = NoObject]
  /\ upEntry' = [upEntry EXCEPT ![t] = NoEntry]
  /\ UNCHANGED <<upStorage, freeList, looping, upLost>>

(***************************************************************************)
(* erase: of an object that no other thread is about to use                *)
(***************************************************************************)

CountOut(t, e) ==
  /\ PoolGoes(t, "idle", "clear")
  /\ Active(e) /\ \A u \in PoolThreads : upPc[u] \in {"clear", "count", "loop"} => upEntry[u] # e
  /\ upEntry' = [upEntry EXCEPT ![t] = e]
  /\ upCount' = upCount - 1
  /\ upStays' = [u \in PoolThreads |-> upStays[u] \ {upObject[e]}]
  /\ UNCHANGED <<upStorage, freeList, upNew, upSeen, upLost>>

ClearEntry(t) ==
  /\ PoolGoes(t, "clear", "push")
  /\ upObject' = [upObject EXCEPT ![upEntry[t]] = NoObject]
  /\ upBlockCount' = [upBlockCount EXCEPT ![upEntry[t][1]] = @ - 1]
  /\ upNext' = [upNext EXCEPT ![upEntry[t]] = NoEntry]
  /\ UNCHANGED <<upBlocks, upHead, upCount, upEntry, upNew, looping, upLost>>

PushEntry(t) ==
  /\ PoolGoes(t, "push", "idle")
  /\ upNext' = [upNext EXCEPT ![upEntry[t]] = upHead]
  /\ upHead' = upEntry[t]
  /\ upEntry' = [upEntry EXCEPT ![t] = NoEntry]
  /\ UNCHANGED <<upStorage, upCount, upNew, looping, upLost>>

(***************************************************************************)
(* Iteration                                                               *)
(***************************************************************************)

\* skip_until_valid: on in the block unless it is empty, then to the next block that is not.
SkipUntilValid(b, i) ==
  LET here  == IF upBlockCount[b] = 0 THEN {} ELSE {j \in i .. BlockEntries : Active(<<b, j>>)}
      later == {c \in b + 1 .. Len(upBlocks) : upBlockCount[c] # 0 /\ \E j \in 1 .. BlockEntries : Active(<<c, j>>)}
      least(S) == CHOOSE j \in S : \A k \in S : j <= k
  IN IF here # {} THEN <<b, least(here)>>
     ELSE IF later # {} THEN <<least(later), least({j \in 1 .. BlockEntries : Active(<<least(later), j>>)})>>
     ELSE NoEntry

MoveTo(t, e) ==
  /\ upEntry' = [upEntry EXCEPT ![t] = e]
  /\ upPc' = [upPc EXCEPT ![t] = IF e = NoEntry THEN "looped" ELSE "loop"]
  /\ upSeen' = [upSeen EXCEPT ![t] = IF e = NoEntry THEN @ ELSE @ \cup {upObject[e]}]

Leaving == {upObject[upEntry[t]] : t \in {u \in PoolThreads : upPc[u] = "clear"}}

LoopBegin(t) ==
  /\ upPc[t] = "idle"
  /\ upStays' = [upStays EXCEPT ![t] = InPool \ Leaving]
  /\ MoveTo(t, IF upBlocks = <<>> THEN NoEntry ELSE SkipUntilValid(1, 1))
  /\ UNCHANGED <<upStorage, freeList, upCount, upNew, upLost>>

LoopNext(t) ==
  /\ upPc[t] = "loop"
  /\ MoveTo(t, SkipUntilValid(upEntry[t][1], upEntry[t][2] + 1))
  /\ UNCHANGED <<upStorage, freeList, upCount, upNew, upStays, upLost>>

LoopEnd(t) ==
  /\ PoolGoes(t, "looped", "idle")
  /\ upSeen' = [upSeen EXCEPT ![t] = {}] /\ upStays' = [upStays EXCEPT ![t] = {}]
  /\ UNCHANGED <<upStorage, freeList, upCount, upEntry, upNew, upLost>>

(***************************************************************************)
(* Alone: clear, clear_and_reorganize, reorganize                          *)
(***************************************************************************)

Alone == \A t \in PoolThreads : upPc[t] = "idle"

\* Positions are counted through the blocks.
Position(n) == <<((n - 1) \div BlockEntries) + 1, ((n - 1) % BlockEntries) + 1>>
Capacity == Len(upBlocks) * BlockEntries

\* The free list through the given positions in order.
LinkThrough(positions) ==
  /\ upHead' = IF positions = <<>> THEN NoEntry ELSE Position(positions[1])
  /\ upNext' = [e \in PoolEntries |->
       IF \E k \in 1 .. Len(positions) - 1 : Position(positions[k]) = e
       THEN Position(positions[1 + CHOOSE k \in 1 .. Len(positions) - 1 : Position(positions[k]) = e])
       ELSE NoEntry]

ClearPool ==
  /\ Alone /\ Capacity > 0
  /\ upObject' = [e \in PoolEntries |-> NoObject]
  /\ upBlockCount' = [b \in 1 .. MaxPoolBlocks |-> 0]
  /\ LinkThrough([n \in 1 .. Capacity |-> n])
  /\ upCount' = 0 /\ upLost' = {}
  /\ UNCHANGED <<upBlocks, upPc, upEntry, upNew, looping>>

ClearAndReorganize ==
  /\ Alone /\ Capacity > 0
  /\ upBlocks' = <<>>
  /\ upObject' = [e \in PoolEntries |-> NoObject]
  /\ upBlockCount' = [b \in 1 .. MaxPoolBlocks |-> 0]
  /\ LinkThrough(<<>>)
  /\ upCount' = 0 /\ upLost' = {}
  /\ UNCHANGED <<upPc, upEntry, upNew, looping>>

Holes  == SetToSortSeq({n \in 1 .. upCount : ~Active(Position(n))}, <)
Movers == SetToSortSeq({n \in upCount + 1 .. Capacity : Active(Position(n))}, >)

\* What entry e holds after the last object went to the first hole, and so on.
Packed(e) ==
  LET holes == {k \in DOMAIN Holes : Position(Holes[k]) = e}
  IN IF holes # {} THEN upObject[Position(Movers[CHOOSE k \in holes : TRUE])]
     ELSE IF \E k \in DOMAIN Movers : Position(Movers[k]) = e THEN NoObject ELSE upObject[e]

\* With nothing to move, empty blocks stay and the free list is as it was.
Reorganize ==
  /\ Alone /\ upCount \in 1 .. Capacity - 1 /\ Movers # <<>>
  /\ LET used == (upCount + BlockEntries - 1) \div BlockEntries
     IN /\ upBlocks' = SubSeq(upBlocks, 1, used)
        /\ upObject' = [e \in PoolEntries |-> Packed(e)]
        /\ upBlockCount' = [b \in 1 .. MaxPoolBlocks |-> Cardinality({i \in 1 .. BlockEntries : Packed(<<b, i>>) # NoObject})]
        /\ LinkThrough([k \in 1 .. used * BlockEntries - upCount |-> upCount + k])
  /\ upLost' = {}
  /\ UNCHANGED <<upCount, upPc, upEntry, upNew, looping>>

UPoolNext ==
  \/ \E t \in PoolThreads :
       \/ TakeEntry(t) \/ TakeFromNewBlock(t) \/ Fill(t) \/ FillThrows(t) \/ CountIn(t)
       \/ \E e \in PoolEntries : CountOut(t, e)
       \/ ClearEntry(t) \/ PushEntry(t)
       \/ LoopBegin(t) \/ LoopNext(t) \/ LoopEnd(t)
  \/ ClearPool \/ ClearAndReorganize \/ Reorganize

(***************************************************************************)
(* Properties                                                              *)
(***************************************************************************)

\* No object is in two entries; a thread that fills or frees an entry has it for itself.
UPoolTypeOK ==
  /\ \A k \in DOMAIN upBlocks : upBlocks[k] = k
  /\ \A e, f \in PoolEntries : Active(e) /\ upObject[e] = upObject[f] => e = f
  /\ \A t, u \in PoolThreads :
       t # u /\ upPc[t] \in {"fill", "clear", "push"} /\ upPc[u] \in {"fill", "count", "clear", "push"}
         => upEntry[t] # upEntry[u]

chain[n \in 0 .. Cardinality(PoolEntries)] ==
  IF n = 0 THEN upHead ELSE IF chain[n - 1] = NoEntry THEN NoEntry ELSE upNext[chain[n - 1]]

InWork == {upEntry[t] : t \in {u \in PoolThreads : upPc[u] \in {"fill", "push"}}}

\* The free list ends, and runs through exactly the entries of the blocks that have no object, are
\* not in work and were not lost: links share their memory with objects, and blocks come and go.
FreeListExact ==
  /\ chain[Cardinality(PoolEntries)] = NoEntry
  /\ {chain[n] : n \in DOMAIN chain} \ {NoEntry} =
       {e \in PoolEntries : e[1] <= Len(upBlocks) /\ ~Active(e)} \ (InWork \cup upLost)

\* The counts, changed apart from the flags, agree with them when no thread is in an operation; an
\* iterator passes a block by that claims to be empty.
CountsAgree ==
  /\ \A b \in 1 .. MaxPoolBlocks : upBlockCount[b] = Cardinality({i \in 1 .. BlockEntries : Active(<<b, i>>)})
  /\ upCount + Cardinality({t \in PoolThreads : upPc[t] \in {"count", "clear"}}) = Cardinality(InPool)

\* An iteration sees each object that is in the pool from its begin to its end, while others insert
\* and erase.
LoopComplete == \A t \in PoolThreads : upPc[t] = "looped" => upStays[t] \subseteq upSeen[t]

\* All of it holds at once: the entries are free, in use or in work, the counts tell how many, and no
\* iteration misses an object.
UPoolSafe == UPoolTypeOK /\ FreeListExact /\ CountsAgree /\ LoopComplete
=============================================================================
