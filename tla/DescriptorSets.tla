--------------------------- MODULE DescriptorSets ---------------------------
(***************************************************************************)
(* graphics::growing_unique_descriptor_pool: blocks of descriptor sets     *)
(* that threads allocate from under blocks_mutex_, while the destructor of *)
(* a descriptor_set gives back to its block under the mutex of that block  *)
(* only.  And graphics::simple_uniform_buffer_pool: buffers of one thread  *)
(* in which values are stored one behind the other until all are reset.    *)
(* Then what descriptor sets are made from and held by.                    *)
(***************************************************************************)
EXTENDS Integers, Sequences, SequencesExt, FiniteSets, FiniteSetsExt

CONSTANTS
  Threads,     \* threads that allocate and free descriptor sets
  Resources,   \* kinds of descriptors, and the sets themselves
  BlockResources, \* block_resources_: amount of each
  Layouts,     \* what a request needs: a set of functions like BlockResources
  MaxSets,     \* bound: requests served at once
  MaxPools,    \* bound: blocks, and uniform buffers, that can be created
  BufferSize,  \* buffer_size_ of a uniform buffer
  BufferBase,  \* address its memory is mapped to
  Values,      \* values to store: [size, alignment]
  Nobody

Sufficient(available, request) ==
  \A k \in Resources : available[k] >= request[k]

\* "The required resources must not exceed the resources per block."
ASSUME DescriptorPoolsAssumption ==
  /\ BlockResources \in [Resources -> Nat]
  /\ Layouts \subseteq [Resources -> Nat]
  /\ \A l \in Layouts : Sufficient(BlockResources, l)
  /\ MaxSets \in Nat /\ MaxPools \in Nat \ {0}
  /\ BufferSize \in Nat /\ BufferBase \in Nat
  /\ \A v \in Values : v.size \in 1 .. BufferSize /\ v.alignment \in Nat \ {0}
  /\ \A v \in Values : v.size + v.alignment - 1 <= BufferSize

VARIABLES
  available, \* available_resources_ of each block
  sets,      \* descriptor sets in use: [block, layout, id]
  search,    \* who holds blocks_mutex_: a thread with a request, or whoever counts; the block it looks at
  threw,     \* threads told of insufficient resources
  offsets,   \* current_offset_ of each uniform buffer
  stored     \* ranges handed out since the last reset: [buffer, first, end]

descVars == <<available, sets, search, threw>>
uniformVars == <<offsets, stored>>

NoSearch == [thread |-> Nobody, job |-> "none"]

DescInit ==
  /\ available = <<BlockResources>>
  /\ sets = {}
  /\ search = NoSearch
  /\ threw = {}

UniformInit ==
  /\ offsets = <<0>>
  /\ stored = {}

Plus(a, b)  == [k \in Resources |-> a[k] + b[k]]
Minus(a, b) == [k \in Resources |-> a[k] - b[k]]

-----------------------------------------------------------------------------
(* Descriptor sets                                                         *)

\* allocate_descriptor_sets takes blocks_mutex_; layout stands for the sum of the
\* layouts asked for.
BeginAllocate(t, layout) ==
  /\ search = NoSearch
  /\ Cardinality(sets) < MaxSets
  /\ search' = [thread |-> t, job |-> "allocate", layout |-> layout, block |-> 1]
  /\ UNCHANGED <<available, sets, threw>>

\* available_resources() of the next block, under its mutex: sets may come back
\* before and after.
LookAt ==
  /\ search.job = "allocate"
  /\ search.block <= Len(available)
  /\ ~Sufficient(available[search.block], search.layout)
  /\ search' = [search EXCEPT !.block = @ + 1]
  /\ UNCHANGED <<available, sets, threw>>

NewSet == CHOOSE id \in 1 .. MaxSets : \A s \in sets : s.id # id

\* Takes from the given block; under its mutex the resources are checked again.
TakeFrom(block, amounts) ==
  IF Sufficient(amounts[block], search.layout)
  THEN /\ available' = [amounts EXCEPT ![block] = Minus(@, search.layout)]
       /\ sets' = sets \union {[block |-> block, layout |-> search.layout,
                                id |-> NewSet]}
       /\ UNCHANGED threw
  ELSE /\ threw' = threw \union {search.thread}
       /\ available' = amounts
       /\ UNCHANGED sets

\* unique_descriptor_pool::allocate_descriptor_sets of the block that was found.
Take ==
  /\ search.job = "allocate"
  /\ search.block <= Len(available)
  /\ Sufficient(available[search.block], search.layout)
  /\ search' = NoSearch
  /\ TakeFrom(search.block, available)

\* No block had enough: a new one.
TakeFromNew ==
  /\ search.job = "allocate"
  /\ search.block > Len(available)
  /\ Len(available) < MaxPools
  /\ search' = NoSearch
  /\ TakeFrom(Len(available) + 1, Append(available, BlockResources))

\* The device refuses, whatever the count says: nothing is subtracted, a block
\* made for the request stays.
DeviceRefuses ==
  /\ search.job = "allocate"
  /\ search' = NoSearch
  /\ IF search.block <= Len(available)
     THEN /\ Sufficient(available[search.block], search.layout)
          /\ UNCHANGED available
     ELSE /\ Len(available) < MaxPools
          /\ available' = Append(available, BlockResources)
  /\ UNCHANGED <<sets, threw>>

\* available_descriptors, available_sets, available_resources: block after block, each under its own mutex, while sets
\* may come back to any of them.
NoResources == [k \in Resources |-> 0]
AvailableIn(blocks) == FoldLeft(Plus, NoResources, SubSeq(available, 1, blocks))

BeginCount ==
  /\ search = NoSearch
  /\ search' = [thread |-> Nobody, job |-> "count", block |-> 1, counted |-> NoResources, before |-> AvailableIn(Len(available))]
  /\ UNCHANGED <<available, sets, threw>>

CountBlock ==
  /\ search.job = "count" /\ search.block <= Len(available)
  /\ search' = [search EXCEPT !.counted = Plus(@, available[search.block]), !.block = @ + 1]
  /\ UNCHANGED <<available, sets, threw>>

EndCount ==
  /\ search.job = "count" /\ search.block > Len(available)
  /\ search' = NoSearch
  /\ UNCHANGED <<available, sets, threw>>

\* descriptor_set_deleter: unique_descriptor_pool::free, by any thread at any time.
FreeSet(s) ==
  /\ s \in sets
  /\ sets' = sets \ {s}
  /\ available' = [available EXCEPT ![s.block] = Plus(@, s.layout)]
  /\ UNCHANGED <<search, threw>>

-----------------------------------------------------------------------------
(* Uniform buffers                                                         *)

\* memory::align of the address behind what is stored, as an offset.
AlignedOffset(offset, v) ==
  offset + ((-(BufferBase + offset)) % v.alignment)

CanFit(offset, v) == AlignedOffset(offset, v) + v.size <= BufferSize

StoreIn(buffer, list, v) ==
  LET first == AlignedOffset(list[buffer], v)
  IN /\ offsets' = [list EXCEPT ![buffer] = first + v.size]
     /\ stored' = stored \union
                    {[buffer |-> buffer, first |-> first, end |-> first + v.size]}

\* In the first buffer that can fit it, else in a new one.
Store(v) ==
  LET i == SelectInSeq(offsets, LAMBDA o : CanFit(o, v))
  IN \/ i # 0 /\ StoreIn(i, offsets, v)
     \/ /\ i = 0
        /\ Len(offsets) < MaxPools
        /\ StoreIn(Len(offsets) + 1, Append(offsets, 0), v)

Reset ==
  /\ offsets' = [i \in DOMAIN offsets |-> 0]
  /\ stored' = {}

ResetAndShrink ==
  /\ offsets' = <<0>>
  /\ stored' = {}

DescNext ==
  \/ \E t \in Threads, l \in Layouts : BeginAllocate(t, l)
  \/ BeginCount
  \/ CountBlock
  \/ EndCount
  \/ LookAt
  \/ Take
  \/ TakeFromNew
  \/ DeviceRefuses
  \/ \E s \in sets : FreeSet(s)

UniformNext ==
  \/ \E v \in Values : Store(v)
  \/ Reset
  \/ ResetAndShrink

-----------------------------------------------------------------------------
(* Properties                                                              *)

Amounts == [Resources -> Nat]

\* Types; no block has more than it was created with.
DescTypeOK ==
  /\ \A i \in DOMAIN available : /\ available[i] \in Amounts
                                 /\ Sufficient(BlockResources, available[i])
  /\ Len(available) \in 1 .. MaxPools
  /\ \A s \in sets : s.block \in DOMAIN available /\ s.layout \in Layouts
  /\ threw \subseteq Threads

\* Each block accounts for what it gave out: available and in use make up what it
\* was created with, also when sets come back while another thread searches.
ResourcesAccounted ==
  \A i \in DOMAIN available : \A k \in Resources :
    available[i][k] + FoldSet(LAMBDA s, n : n + s.layout[k], 0,
                              {s \in sets : s.block = i}) = BlockResources[k]

\* A request that a block could serve is never turned down for lack of resources:
\* between the look at a block and the allocation from it nobody takes.
NeverInsufficient == threw = {}

\* What is counted may be less than there is, as sets come back behind the count, but never more, and never less than
\* there was when it began.
CountedApproximately ==
  search.job = "count" =>
    /\ Sufficient(AvailableIn(search.block - 1), search.counted)
    /\ search.block > Len(available) => Sufficient(search.counted, search.before)

\* Values stored since the last reset keep their bytes to themselves, inside the
\* buffer and aligned, whichever buffers were chosen.
StoredApart ==
  /\ \A r \in stored : r.end <= BufferSize
  /\ \A r, s \in stored :
       r = s \/ r.buffer # s.buffer \/ r.end <= s.first \/ s.end <= r.first

\* All of it holds at once: pools account for their resources, turn down no request they could serve,
\* and values in uniform buffers keep apart.
PoolsSafe == DescTypeOK /\ ResourcesAccounted /\ NeverInsufficient /\ CountedApproximately /\ StoredApart

-----------------------------------------------------------------------------
(* descriptor_set_resources, growing_simple_descriptor_pool, descriptor_set *)

\* The amounts of a descriptor_set_resources, the growing_simple_descriptor_pool of one thread whose
\* sets are valid until it is reset, the queued_handle of a set, which hands what it drops to the
\* destruction queue of the frame, and the chain of updater objects that writes into a set.
CONSTANTS
  DescriptorTypes, OperandAmounts,   \* amounts an operand may have
  MaxAmount,                   \* bound: amounts that are summed up, below 2^32
  MaxSimpleSets,               \* bound: sets taken between two resets
  QueuedHandles, NativeObjects, NoNative,
  RingSlots,
  MaxUpdaters                  \* bound: updater objects of one chain

ASSUME DescriptorSetsAssumption ==
  RingSlots \in Nat \ {0} /\ {MaxAmount, MaxSimpleSets, MaxUpdaters} \subseteq Nat /\ \A a \in OperandAmounts : a \in Nat

VARIABLES
  drValue,    \* descriptor_sets_ and descriptors_, which has entries for some types
  drAmount,   \* history: the amounts there should be
  drWrongly,  \* history: a comparison or a refused subtraction was wrong
  spBlocks,   \* available_resources_ of the blocks_ of a simple pool
  spSets,     \* sets that are valid: block and layout
  spLost,     \* history: what was subtracted for sets the device refused
  qhHandle,   \* handle_ and whether qmgr is set
  qhSlots,    \* the queues of the destruction_queue_manager
  qhCurrent,
  qhAge,      \* history: rings advanced since the last handle of an object dropped it; -1 before
  qhGone,     \* history: how often each object was destroyed
  upChain,    \* updater objects: writes, last, and whether it is there
  upApplied   \* the updates that were made

drVars == <<drValue, drAmount, drWrongly>>
spVars == <<spBlocks, spSets, spLost>>
qhVars == <<qhHandle, qhSlots, qhCurrent, qhAge, qhGone>>
updVars == <<upChain, upApplied>>

(***************************************************************************)
(* descriptor_set_resources                                                *)
(***************************************************************************)

NoAmounts == [sets |-> 0, of |-> <<>>]
Operands == [sets : OperandAmounts, of : UNION {[T -> OperandAmounts] : T \in SUBSET DescriptorTypes}]

DrInit ==
  /\ drValue = NoAmounts
  /\ drAmount = [sets |-> 0, of |-> [t \in DescriptorTypes |-> 0]] /\ drWrongly = FALSE

\* The map finds no entry for a type that was never added: that counts as nothing.
AmountOf(r, t) == IF t \in DOMAIN r.of THEN r.of[t] ELSE 0
PerAmount(Op(_, _), a, b) ==
  [sets |-> Op(a.sets, b.sets), of |-> [t \in DOMAIN a.of \cup DOMAIN b.of |-> Op(AmountOf(a, t), AmountOf(b, t))]]

Added(a, b) == LET Sum(x, y) == x + y IN PerAmount(Sum, a, b)
Largest(a, b) == LET Larger(x, y) == IF x > y THEN x ELSE y IN PerAmount(Larger, a, b)
Times(a, factor) == [sets |-> a.sets * factor, of |-> [t \in DOMAIN a.of |-> a.of[t] * factor]]

\* Also when the type is missing and nothing of it is to be subtracted.
Underflows(a, b) ==
  a.sets < b.sets \/ \E t \in DOMAIN b.of : t \notin DOMAIN a.of \/ a.of[t] < b.of[t]

SufficientFor(a, request) ==
  a.sets >= request.sets /\ \A t \in DOMAIN request.of : AmountOf(a, t) >= request.of[t]

MinResource(a) == Min({a.sets} \cup {a.of[t] : t \in DOMAIN a.of})

SmallEnough(r) == r.sets <= MaxAmount /\ \A t \in DOMAIN r.of : r.of[t] <= MaxAmount

Everywhere(Op(_, _), r) ==
  [sets |-> Op(drAmount.sets, r.sets), of |-> [t \in DescriptorTypes |-> Op(drAmount.of[t], AmountOf(r, t))]]

AddResources(r) ==
  /\ SmallEnough(Added(drValue, r)) /\ drValue' = Added(drValue, r)
  /\ drAmount' = (LET Sum(x, y) == x + y IN Everywhere(Sum, r)) /\ UNCHANGED drWrongly

SubtractResources(r) ==
  LET enough == r.sets <= drAmount.sets /\ \A t \in DOMAIN r.of : r.of[t] <= drAmount.of[t]
      fails  == Underflows(drValue, r)
  IN /\ drWrongly' = (drWrongly \/ SufficientFor(drValue, r) # enough \/ (fails /\ enough /\ DOMAIN r.of \subseteq DOMAIN drValue.of))
     /\ IF fails THEN UNCHANGED <<drValue, drAmount>>
        ELSE /\ drValue' = [sets |-> drValue.sets - r.sets,
                            of |-> [t \in DOMAIN drValue.of |-> drValue.of[t] - AmountOf(r, t)]]
             /\ drAmount' = (LET Less(x, y) == x - y IN Everywhere(Less, r))

MultiplyResources(factor) ==
  /\ SmallEnough(Times(drValue, factor)) /\ drValue' = Times(drValue, factor)
  /\ drAmount' = [sets |-> drAmount.sets * factor, of |-> [t \in DescriptorTypes |-> drAmount.of[t] * factor]]
  /\ UNCHANGED drWrongly

LargestResources(r) ==
  /\ drValue' = Largest(drValue, r)
  /\ drAmount' = (LET Larger(x, y) == Max({x, y}) IN Everywhere(Larger, r)) /\ UNCHANGED drWrongly

\* Moving leaves what a default constructor makes.
MoveResources == drValue' = NoAmounts /\ drAmount' = [sets |-> 0, of |-> [t \in DescriptorTypes |-> 0]] /\ UNCHANGED drWrongly

DrNext ==
  \/ \E r \in Operands : AddResources(r) \/ SubtractResources(r) \/ LargestResources(r)
  \/ \E factor \in {0, 2} : MultiplyResources(factor)
  \/ MoveResources

\* The sparse amounts are the amounts; nothing goes below zero, what is sufficient is enough, and a subtraction
\* is refused only when there is too little or when there is no entry to subtract from.
AmountsRight ==
  /\ drValue.sets = drAmount.sets /\ \A t \in DescriptorTypes : AmountOf(drValue, t) = drAmount.of[t] /\ drAmount.of[t] >= 0
  /\ ~drWrongly /\ drAmount.sets >= 0
  /\ \A t \in DOMAIN drValue.of : MinResource(drValue) <= drValue.of[t]

(***************************************************************************)
(* growing_simple_descriptor_pool                                          *)
(***************************************************************************)

SpInit == spBlocks = <<BlockResources>> /\ spSets = <<>> /\ spLost = <<[k \in Resources |-> 0]>>

\* One set that the device refuses has been subtracted before the result is looked at; of several, or of an
\* array, nothing has.
SimpleAllocate(layout, single, refused) ==
  LET i == SelectInSeq(spBlocks, LAMBDA b : Sufficient(b, layout))
      blocks == IF i = 0 THEN Append(spBlocks, BlockResources) ELSE spBlocks
      lost   == IF i = 0 THEN Append(spLost, [k \in Resources |-> 0]) ELSE spLost
      block  == IF i = 0 THEN Len(blocks) ELSE i
  IN /\ Len(spSets) < MaxSimpleSets /\ Len(blocks) <= MaxPools
     /\ spBlocks' = IF refused /\ ~single THEN blocks ELSE [blocks EXCEPT ![block] = Minus(@, layout)]
     /\ spLost' = IF refused /\ single THEN [lost EXCEPT ![block] = Plus(@, layout)] ELSE lost
     /\ spSets' = IF refused THEN spSets ELSE Append(spSets, [block |-> block, layout |-> layout])

MutantAfterReset(blocks) == [i \in DOMAIN blocks |-> IF i = 1 THEN BlockResources ELSE blocks[i]]

AfterReset(blocks) == [i \in DOMAIN blocks |-> BlockResources]

\* The sets of the pool are not valid any more.
ResetSimple ==
  /\ spBlocks' = AfterReset(spBlocks) /\ spSets' = <<>>
  /\ spLost' = [i \in DOMAIN spLost |-> [k \in Resources |-> 0]]

ShrinkSimple ==
  /\ spBlocks' = <<BlockResources>> /\ spSets' = <<>>
  /\ spLost' = <<[k \in Resources |-> 0]>>

SpNext ==
  \/ \E layout \in Layouts : \E single, refused \in BOOLEAN : SimpleAllocate(layout, single, refused)
  \/ ResetSimple \/ ShrinkSimple

TotalOf(amounts) == FoldSeq(Plus, [k \in Resources |-> 0], amounts)
SetsCapacity == TotalOf([i \in DOMAIN spBlocks |-> BlockResources])

\* What is available, what the valid sets have and what refusals lost is the capacity of the blocks, for each
\* of them and for the pool.
SimplePoolAccounts ==
  /\ \A i \in DOMAIN spBlocks :
       Plus(spBlocks[i], Plus(spLost[i], TotalOf([j \in DOMAIN spSets |->
         IF spSets[j].block = i THEN spSets[j].layout ELSE [k \in Resources |-> 0]]))) = BlockResources
  /\ Plus(TotalOf(spBlocks), Plus(TotalOf(spLost), TotalOf([j \in DOMAIN spSets |-> spSets[j].layout]))) = SetsCapacity

(***************************************************************************)
(* queued_handle                                                           *)
(***************************************************************************)

EmptyHandle == [object |-> NoNative, queued |-> FALSE]

QhInit ==
  /\ qhHandle = [h \in QueuedHandles |-> EmptyHandle] /\ qhSlots = [i \in 0 .. RingSlots - 1 |-> {}]
  /\ qhCurrent = 0 /\ qhAge = [o \in NativeObjects |-> -1] /\ qhGone = [o \in NativeObjects |-> 0]

HeldObjects == {qhHandle[h].object : h \in QueuedHandles} \cup UNION {qhSlots[i] : i \in DOMAIN qhSlots}

\* The steps of an operation, on a record of handles, slots and the objects whose deleter ran.
HandleState == [handle |-> qhHandle, slots |-> qhSlots, gone |-> qhGone]
DropNative(s, h) ==
  LET o == s.handle[h].object
  IN IF o = NoNative THEN s
     ELSE IF s.handle[h].queued THEN [s EXCEPT !.slots[qhCurrent] = @ \cup {o}, !.handle[h].object = NoNative]
     ELSE [s EXCEPT !.gone[o] = @ + 1, !.handle[h].object = NoNative]

\* handle_ is moved, and the other one's qmgr is cleared.
MoveOver(s, h, from) == [s EXCEPT !.handle[h] = s.handle[from], !.handle[from] = EmptyHandle]

HandleBecomes(s, dropped) ==
  /\ qhHandle' = s.handle /\ qhSlots' = s.slots /\ qhGone' = s.gone
  /\ qhAge' = [o \in NativeObjects |-> IF o \in dropped THEN 0 ELSE qhAge[o]]
  /\ UNCHANGED qhCurrent

CreateQueued(h, o, queued) ==
  /\ qhHandle[h] = EmptyHandle /\ o \notin HeldObjects /\ qhGone[o] = 0 /\ qhAge[o] = -1
  /\ HandleBecomes([HandleState EXCEPT !.handle[h] = [object |-> o, queued |-> queued]], {})

\* To another handle; what it had is queued or destroyed first. Also the move constructor, which has nothing.
MoveHandle(h, from) ==
  /\ h # from
  /\ HandleBecomes(MoveOver(DropNative(HandleState, h), h, from), {qhHandle[h].object} \ {NoNative})

DestroyHandle(h) ==
  /\ qhHandle[h].object # NoNative
  /\ HandleBecomes([DropNative(HandleState, h) EXCEPT !.handle[h] = EmptyHandle], {qhHandle[h].object})

\* release: the caller has the object, and destroys it.
ReleaseHandle(h) ==
  LET o == qhHandle[h].object
  IN /\ o # NoNative
     /\ HandleBecomes([HandleState EXCEPT !.handle[h] = EmptyHandle, !.gone[o] = @ + 1], {})

\* cleanup_and_set_current: the slot that comes next is emptied, then it is the current one.
AdvanceRing ==
  LET next == (qhCurrent + 1) % RingSlots
  IN /\ qhCurrent' = next
     /\ qhGone' = [o \in NativeObjects |-> IF o \in qhSlots[next] THEN qhGone[o] + 1 ELSE qhGone[o]]
     /\ qhSlots' = [qhSlots EXCEPT ![next] = {}]
     /\ qhAge' = [o \in NativeObjects |-> IF qhAge[o] < 0 \/ qhAge[o] = RingSlots THEN qhAge[o] ELSE qhAge[o] + 1]
     /\ UNCHANGED qhHandle

QhNext ==
  \/ \E h \in QueuedHandles :
       \/ \E o \in NativeObjects, queued \in BOOLEAN : CreateQueued(h, o, queued)
       \/ \E from \in QueuedHandles : MoveHandle(h, from)
       \/ DestroyHandle(h) \/ ReleaseHandle(h)
  \/ AdvanceRing

\* An object has one owner, a handle or a slot, and is destroyed once, without owner; one that waits in a slot
\* has not been there for a whole ring.
HandlesOwn ==
  /\ \A o \in NativeObjects :
       /\ Cardinality({h \in QueuedHandles : qhHandle[h].object = o}) + Cardinality({i \in DOMAIN qhSlots : o \in qhSlots[i]})
            + qhGone[o] <= 1
       /\ o \notin HeldObjects /\ qhAge[o] >= 0 => qhGone[o] = 1
  /\ \A i \in DOMAIN qhSlots : \A o \in qhSlots[i] : (qhAge[o] + i - qhCurrent) % RingSlots = 0 /\ qhAge[o] < RingSlots

(***************************************************************************)
(* descriptor_set::update                                                  *)
(***************************************************************************)

UpdInit == upChain = <<[writes |-> <<>>, last |-> FALSE, there |-> TRUE]>> /\ upApplied = <<>>

\* last of an updater whose call made the next one.
Kept(last) == FALSE

\* The result has a copy of the writes and one more. An updater may be called again.
CallUpdater(i) ==
  /\ upChain[i].there /\ Len(upChain) < MaxUpdaters
  /\ upChain' = Append([upChain EXCEPT ![i].last = Kept(@)],
                       [writes |-> Append(upChain[i].writes, Len(upChain)), last |-> TRUE, there |-> TRUE])
  /\ UNCHANGED upApplied

\* The destructor writes, when nothing was chained to it. The first object has no writes and no destructor.
DestroyUpdater(i) ==
  /\ upChain[i].there
  /\ upChain' = [upChain EXCEPT ![i].there = FALSE]
  /\ upApplied' = IF upChain[i].last THEN Append(upApplied, upChain[i].writes) ELSE upApplied

UpdNext == \E i \in DOMAIN upChain : CallUpdater(i) \/ DestroyUpdater(i)

\* When all updaters are gone each write has been made, and no update repeats the beginning of another.
WritesMade ==
  /\ (\A i \in DOMAIN upChain : ~upChain[i].there) =>
       \A i \in DOMAIN upChain : \A k \in DOMAIN upChain[i].writes : \E a \in DOMAIN upApplied :
         k \in DOMAIN upApplied[a] /\ upApplied[a][k] = upChain[i].writes[k]
  /\ \A a, b \in DOMAIN upApplied : a # b => ~IsPrefix(upApplied[a], upApplied[b])

\* All of it holds at once, for the pools, the amounts, the handles and the updates.
DescriptorsSafe == PoolsSafe /\ AmountsRight /\ SimplePoolAccounts /\ HandlesOwn /\ WritesMade
=============================================================================
