----------------------------- MODULE PoolRanges -----------------------------
(***************************************************************************)
(* The iterators of containers::smart_object_pool as values, and           *)
(* smart_object_pool_range: the range over a pool that tasks divide, walk  *)
(* and drop, while objects of the pool are made and dropped.  A position   *)
(* counts the entries along the list of blocks; where the blocks lie in    *)
(* memory is up to the allocator.  An operation of the pool or of an       *)
(* iterator is one step: their interleavings are those of SmartObjectPool. *)
(***************************************************************************)
EXTENDS Integers, Sequences, FiniteSets, SequencesExt

CONSTANTS
  RangeBlocks,     \* bound: blocks of the pool
  RangeBlockSize,  \* block_size
  MaxRanges,       \* bound: ranges a range is divided into
  MaxMeanwhile,    \* bound: objects made or dropped under a range
  IteratorNames    \* variables of the program that hold an iterator

ASSUME RangesAssumption ==
  RangeBlocks \in Nat \ {0} /\ RangeBlockSize \in Nat \ {0} /\ MaxRanges \in Nat /\ MaxMeanwhile \in Nat

VARIABLES
  prMode,       \* "iterators" or "ranges": what the program does with the pool
  prPlace,      \* order of the blocks in memory
  prBlocks,     \* block_count
  prFree,       \* the free list, from first_free_entry on
  prAlive,      \* positions whose strong count is positive
  prDying,      \* pending_destruction_list
  prCount,      \* active_iterators
  prHeld,       \* the iterators in variables
  prRanges,     \* the ranges of the tasks, each with its walk
  prVisited,    \* history: how often the walks came to each position
  prDue,        \* history: objects that lived since the range was made
  prMeanwhile,
  prFault       \* a null block was dereferenced

pool   == <<prPlace, prBlocks, prFree, prAlive, prDying>>
prVars == <<prMode, pool, prCount, prHeld, prRanges, prVisited, prDue, prMeanwhile, prFault>>

PastEnd   == RangeBlocks * RangeBlockSize
Positions == 0 .. PastEnd - 1
BlockOf(p) == p \div RangeBlockSize
SlotOf(p)  == p % RangeBlockSize
InBlock(b) == [i \in 1 .. RangeBlockSize |-> (b * RangeBlockSize) + i - 1]

It(at, counted, limiter) == [at |-> at, counted |-> counted, limiter |-> limiter]
DefaultIterator == It(PastEnd, FALSE, FALSE)

PrStart ==
  /\ prBlocks = 0 /\ prFree = <<>> /\ prAlive = {} /\ prDying = <<>>
  /\ prCount = 0
  /\ prHeld = [n \in IteratorNames |-> DefaultIterator]
  /\ prRanges = <<>>
  /\ prVisited = [p \in Positions |-> 0]
  /\ prDue = {}
  /\ prMeanwhile = 0
  /\ prFault = FALSE

PrInit ==
  /\ prMode \in {"iterators", "ranges"}
  /\ prPlace \in {f \in [0 .. RangeBlocks - 1 -> 0 .. RangeBlocks - 1] : IsInjective(f)}
  /\ PrStart

-----------------------------------------------------------------------------
(* Links and iterators                                                     *)

\* block_entry_link ++ and --: along the blocks, and on from neither end.
LinkAfter(p)  == IF p = PastEnd \/ p + 1 >= prBlocks * RangeBlockSize THEN PastEnd ELSE p + 1
LinkBefore(p) == IF p = PastEnd \/ p = 0 THEN PastEnd ELSE p - 1

\* operator< of the links: by block and entry, the null link is the last.
LinkLess(p, q) ==
  p # PastEnd /\ (q = PastEnd \/ BlockOf(p) < BlockOf(q) \/ (BlockOf(p) = BlockOf(q) /\ SlotOf(p) < SlotOf(q)))

Address(p) == (prPlace[BlockOf(p)] * RangeBlockSize) + SlotOf(p)

\* Is `it` at the limiter or behind it? The indices of the blocks are compared, and the addresses of the entries.
Reaches(it, limiter) ==
  \/ it.at = PastEnd
  \/ /\ PastEnd \notin {limiter.at, it.at}
     /\ BlockOf(limiter.at) <= BlockOf(it.at)
     /\ Address(limiter.at) <= Address(it.at)

\* operator==
Same(x, y) == x.at = y.at \/ (x.limiter /\ Reaches(y, x)) \/ (y.limiter /\ Reaches(x, y))

\* operator< and >=
Less(x, y)    == ~x.limiter /\ LinkLess(x.at, y.at)
AtLeast(x, y) == Less(y, x) \/ Same(x, y)

\* skip_until_valid: the next entry with an object that is owned, wherever its block is.
Skip(p) ==
  LET valid == {q \in prAlive : p # PastEnd /\ p <= q} IN
    IF valid = {} THEN PastEnd ELSE CHOOSE q \in valid : \A r \in valid : q <= r

Advanced(it) == [it EXCEPT !.at = Skip(@ + 1)]
MakeLimiter(it) == [it EXCEPT !.limiter = TRUE]
MakeNonlimiter(it) == [it EXCEPT !.limiter = FALSE]

\* An iterator without a pool is not counted.
Weight(it) == IF it.counted THEN 1 ELSE 0

\* Copy assignment drops the target and counts anew if the pools differ.
CopyDelta(x, y) == IF x.counted # y.counted THEN Weight(y) - Weight(x) ELSE 0

\* Move assignment drops the target; the source hands its count over.
MoveDelta(x) == - Weight(x)

\* begin(): past the end if the pool is empty; deferred objects are still active.
PoolEmpty == prAlive = {} /\ prDying = <<>>
BeginIt == IF PoolEmpty THEN DefaultIterator ELSE It(Skip(0), TRUE, FALSE)

\* The last iterator destroys what was deferred; entries go to the front of the free list.
Counting(n) ==
  /\ prCount' = n
  /\ IF n = 0 /\ prCount > 0
     THEN prFree' = Reverse(prDying) \o prFree /\ prDying' = <<>>
     ELSE UNCHANGED <<prFree, prDying>>

-----------------------------------------------------------------------------
(* The pool                                                                *)

\* block(): a new block links its entries in order in front of the free list.
Grown == InBlock(prBlocks) \o prFree

MayChange == ~prFault /\ (prRanges # <<>> => prMeanwhile < MaxMeanwhile)
Meanwhile == prMeanwhile' = IF prRanges = <<>> THEN 0 ELSE prMeanwhile + 1

EmplaceObject ==
  /\ MayChange
  /\ prFree # <<>> \/ prBlocks < RangeBlocks
  /\ LET available == IF prFree = <<>> THEN Grown ELSE prFree IN
       /\ prFree' = Tail(available)
       /\ prAlive' = prAlive \cup {Head(available)}
  /\ prBlocks' = IF prFree = <<>> THEN prBlocks + 1 ELSE prBlocks
  /\ Meanwhile
  /\ UNCHANGED <<prMode, prPlace, prDying, prCount, prHeld, prRanges, prVisited, prDue, prFault>>

\* reserve(): blocks are added until the capacity is enough.
ReserveCapacity ==
  /\ MayChange
  /\ prBlocks < RangeBlocks
  /\ prBlocks' = prBlocks + 1
  /\ prFree' = Grown
  /\ Meanwhile
  /\ UNCHANGED <<prMode, prPlace, prAlive, prDying, prCount, prHeld, prRanges, prVisited, prDue, prFault>>

\* The last owner goes: under an iterator the destruction is deferred.
DropObject(p) ==
  /\ MayChange
  /\ p \in prAlive
  /\ prAlive' = prAlive \ {p}
  /\ prDue' = prDue \ {p}
  /\ IF prCount > 0 THEN prDying' = Append(prDying, p) /\ UNCHANGED prFree
     ELSE prFree' = <<p>> \o prFree /\ UNCHANGED prDying
  /\ Meanwhile
  /\ UNCHANGED <<prMode, prPlace, prBlocks, prCount, prHeld, prRanges, prVisited, prFault>>

\* The pool is destroyed, which it may be only without objects, and another one is made: so is it in a new
\* process after a fault.
RenewPool ==
  /\ prFault \/ (PoolEmpty /\ prBlocks = RangeBlocks /\ prRanges = <<>> /\ prCount = 0)
  /\ prBlocks' = 0 /\ prFree' = <<>> /\ prAlive' = {} /\ prDying' = <<>> /\ prCount' = 0
  /\ prHeld' = [n \in IteratorNames |-> DefaultIterator]
  /\ prRanges' = <<>>
  /\ prVisited' = [p \in Positions |-> 0]
  /\ prDue' = {}
  /\ prMeanwhile' = 0
  /\ prFault' = FALSE
  /\ UNCHANGED <<prMode, prPlace>>

-----------------------------------------------------------------------------
(* Iterators in variables                                                  *)

Holding == prMode = "iterators" /\ ~prFault
HeldUnchanged == UNCHANGED <<prMode, prPlace, prBlocks, prAlive, prRanges, prVisited, prDue, prMeanwhile, prFault>>

\* n = pool.begin(): a temporary is moved in.
HoldBegin(n) ==
  /\ Holding
  /\ prHeld' = [prHeld EXCEPT ![n] = BeginIt]
  /\ Counting(prCount + Weight(BeginIt) + MoveDelta(prHeld[n]))
  /\ HeldUnchanged

CopyHeld(n, m) ==
  /\ Holding
  /\ prHeld' = [prHeld EXCEPT ![n] = prHeld[m]]
  /\ Counting(prCount + CopyDelta(prHeld[n], prHeld[m]))
  /\ HeldUnchanged

\* Also to itself: the iterator drops its count and is past the end.
MoveHeld(n, m) ==
  /\ Holding
  /\ prHeld' = [prHeld EXCEPT ![n] = prHeld[m], ![m] = DefaultIterator]
  /\ Counting(prCount + MoveDelta(prHeld[n]))
  /\ HeldUnchanged

\* n = n.make_limiter(), or back; a limiter is not advanced.
TurnHeld(n) ==
  /\ Holding
  /\ prHeld' = [prHeld EXCEPT ![n] = IF @.limiter THEN MakeNonlimiter(@) ELSE MakeLimiter(@)]
  /\ UNCHANGED <<prCount, prFree, prDying>>
  /\ HeldUnchanged

AdvanceHeld(n) ==
  /\ Holding
  /\ prHeld[n].at # PastEnd /\ ~prHeld[n].limiter
  /\ prHeld' = [prHeld EXCEPT ![n] = Advanced(@)]
  /\ UNCHANGED <<prCount, prFree, prDying>>
  /\ HeldUnchanged

-----------------------------------------------------------------------------
(* Ranges                                                                  *)

NewRange(lower, upper) == [lower |-> lower, upper |-> upper, step |-> "waiting", walk |-> lower]

RangesUnchanged == UNCHANGED <<prMode, prPlace, prBlocks, prAlive, prHeld, prMeanwhile>>

\* make_pool_range: begin() and a limiter that is past the end.
MakeRange ==
  /\ prMode = "ranges" /\ ~prFault
  /\ prRanges = <<>>
  /\ prRanges' = <<NewRange(BeginIt, MakeLimiter(DefaultIterator))>>
  /\ Counting(prCount + Weight(BeginIt))
  /\ prVisited' = [p \in Positions |-> 0]
  /\ prDue' = prAlive
  /\ UNCHANGED prFault
  /\ RangesUnchanged

RangeEmpty(r) == Same(r.lower, r.upper)
Divisible(r) ==
  /\ ~Same(r.lower, DefaultIterator)
  /\ ~RangeEmpty(r)
  /\ ~Same(Advanced(r.lower), r.upper)

\* The entry between the ends; the end of the pool is that of its last block.
Middle(r) ==
  LET last == IF r.upper.at = PastEnd THEN prBlocks * RangeBlockSize ELSE r.upper.at
  IN (r.lower.at + ((last - r.lower.at) \div 2))

\* The limiter of the part below and the start of the part above are at the same entry.
LowerPart(r) == NewRange(r.lower, It(Middle(r), TRUE, TRUE))
UpperPart(r) ==
  LET it == It(Skip(Middle(r)), TRUE, FALSE)
  IN NewRange(IF AtLeast(it, r.upper) THEN r.upper ELSE it, r.upper)

\* smart_object_pool_range(other, split). A distance below zero wraps, and no block has that index.
SplitRange(k) ==
  LET r == prRanges[k] IN
    /\ ~prFault
    /\ r.step = "waiting" /\ Divisible(r) /\ Len(prRanges) < MaxRanges
    /\ IF r.upper.at < r.lower.at
       THEN prFault' = TRUE /\ UNCHANGED <<prRanges, prCount, prFree, prDying>>
       ELSE /\ prRanges' = Append([prRanges EXCEPT ![k] = LowerPart(r)], UpperPart(r))
            /\ Counting(prCount + Weight(r.lower) + Weight(r.upper)            \* the copies for the new range
                          + CopyDelta(r.upper, LowerPart(r).upper)              \* its middle limits the old one
                          + CopyDelta(r.lower, UpperPart(r).lower))             \* lower = upper if that is empty
            /\ UNCHANGED prFault
    /\ UNCHANGED <<prVisited, prDue>>
    /\ RangesUnchanged

\* A task walks its range: the loop copies begin() and end().
StartWalk(k) ==
  LET r == prRanges[k] IN
    /\ ~prFault
    /\ r.step = "waiting"
    /\ prRanges' = [prRanges EXCEPT ![k].step = "walking", ![k].walk = r.lower]
    /\ Counting(prCount + Weight(r.lower) + Weight(r.upper))
    /\ UNCHANGED <<prVisited, prDue, prFault>>
    /\ RangesUnchanged

WalkObject(k) ==
  LET r == prRanges[k] IN
    /\ ~prFault
    /\ r.step = "walking" /\ ~Same(r.walk, r.upper)
    /\ prVisited' = [prVisited EXCEPT ![r.walk.at] = @ + 1]
    /\ prRanges' = [prRanges EXCEPT ![k].walk = Advanced(r.walk)]
    /\ UNCHANGED <<prCount, prFree, prDying, prDue, prFault>>
    /\ RangesUnchanged

\* The loop and its range are over: four iterators go.
FinishWalk(k) ==
  LET r == prRanges[k] IN
    /\ ~prFault
    /\ r.step = "walking" /\ Same(r.walk, r.upper)
    /\ prRanges' = [prRanges EXCEPT ![k] = [NewRange(DefaultIterator, DefaultIterator) EXCEPT !.step = "done"]]
    /\ Counting(prCount - (2 * (Weight(r.lower) + Weight(r.upper))))
    /\ UNCHANGED <<prVisited, prDue, prFault>>
    /\ RangesUnchanged

\* parallel_for returns when all its ranges are done.
Walked == prRanges # <<>> /\ \A k \in DOMAIN prRanges : prRanges[k].step = "done"
ReturnFromLoop ==
  /\ Walked /\ ~prFault
  /\ prRanges' = <<>>
  /\ prVisited' = [p \in Positions |-> 0]
  /\ prDue' = {}
  /\ prMeanwhile' = 0
  /\ UNCHANGED <<prMode, pool, prCount, prHeld, prFault>>

PrNext ==
  \/ EmplaceObject \/ ReserveCapacity \/ RenewPool
  \/ \E p \in Positions : DropObject(p)
  \/ \E n \in IteratorNames : HoldBegin(n) \/ TurnHeld(n) \/ AdvanceHeld(n)
  \/ \E n, m \in IteratorNames : CopyHeld(n, m) \/ MoveHeld(n, m)
  \/ MakeRange \/ ReturnFromLoop
  \/ \E k \in DOMAIN prRanges : SplitRange(k) \/ StartWalk(k) \/ WalkObject(k) \/ FinishWalk(k)

PrSpec == PrInit /\ [][PrNext]_prVars

-----------------------------------------------------------------------------
(* Properties                                                              *)

Ascending == \A b, c \in 0 .. RangeBlocks - 1 : b < c => prPlace[b] < prPlace[c]

\* Every iterator with the pool is counted once: the deferred objects are destroyed by the last, never before.
IteratorsCounted ==
  LET walking(r) == IF r.step = "walking" THEN 2 ELSE 1
      weights == [k \in DOMAIN prRanges |-> walking(prRanges[k]) * (Weight(prRanges[k].lower) + Weight(prRanges[k].upper))]
  IN ~prFault => prCount = FoldSeq(LAMBDA x, y : x + y, 0, weights) + Cardinality({n \in IteratorNames : prHeld[n].counted})

\* An entry has an object, awaits its destruction or is once on the free list.
EntriesAccounted ==
  /\ IsInjective(prFree) /\ IsInjective(prDying)
  /\ LET f == ToSet(prFree)  d == ToSet(prDying) IN
       /\ f \cap d = {} /\ f \cap prAlive = {} /\ d \cap prAlive = {}
       /\ f \cup d \cup prAlive = 0 .. (prBlocks * RangeBlockSize) - 1

\* What an iterator was advanced to still has its object, although the owners may have gone since.
StandOnObjects ==
  LET stands(it) == it.at # PastEnd => it.at \notin ToSet(prFree) IN
    /\ \A n \in IteratorNames : ~prHeld[n].limiter => stands(prHeld[n])
    /\ \A k \in DOMAIN prRanges : stands(prRanges[k].walk)

\* However the range is divided, no object that lives all the time is missed, and none is given to two tasks
\* or twice to one: provided the blocks ascend in memory as in their list.
DividedExactly ==
  /\ Walked => \A p \in prDue : prVisited[p] > 0
  /\ Ascending => ~prFault /\ \A p \in Positions : prVisited[p] <= 1

\* A link that is advanced can go back, and is past the one it was.
LinksAgree ==
  \A p \in Positions :
    LinkAfter(p) # PastEnd => LinkBefore(LinkAfter(p)) = p /\ LinkLess(p, LinkAfter(p))

\* Iterators and ranges over a pool: counted, standing on objects, and dividing the objects exactly.
RangesSafe == IteratorsCounted /\ EntriesAccounted /\ StandOnObjects /\ DividedExactly /\ LinksAgree
=============================================================================
