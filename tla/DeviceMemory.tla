---------------------------- MODULE DeviceMemory ----------------------------
(***************************************************************************)
(* graphics::device_memory_manager: blocks of device memory, each with a   *)
(* list of its free ranges, from which the first that fits is taken; what  *)
(* is as large as a block gets one of its own.  device_memory_handle owns  *)
(* an allocation.  Each operation holds mutex_ from start to end, so it is *)
(* one step; only the handles' owners differ.                              *)
(***************************************************************************)
EXTENDS Integers, Sequences, SequencesExt, FiniteSets

CONSTANTS
  BlockSize,   \* block_size_
  MemoryTypes, \* memoryTypes of the device: a sequence of sets of property flags
  Requests,    \* [size, alignment, types, flags, linear]
  Handles,     \* device_memory_handle variables of the program
  MaxBlocks,   \* bound: memory objects the device can provide of each kind
  MaxKeep      \* bound: largest keep_per_memory_type

ASSUME DeviceMemoryAssumption ==
  /\ BlockSize \in Nat \ {0}
  /\ MaxBlocks \in Nat /\ MaxKeep \in Nat
  /\ \A r \in Requests : /\ r.size \in Nat \ {0}
                         /\ r.alignment \in Nat \ {0}
                         /\ r.types \subseteq DOMAIN MemoryTypes

VARIABLES
  blocks,   \* blocks_, sorted by memory type
  separate, \* separate_blocks_
  nextId,   \* next_block_id
  nextSeparateId,
  handle    \* the allocation each handle owns, and the request it was made for

memVars == <<blocks, separate, nextId, nextSeparateId, handle>>

Empty == [block |-> 0]

MemInit ==
  /\ blocks = <<>>
  /\ separate = <<>>
  /\ nextId = 1
  /\ nextSeparateId = -1
  /\ handle = [h \in Handles |-> Empty]

-----------------------------------------------------------------------------
(* Blocks and their free lists                                             *)

Padding(offset, alignment) == (-offset) % alignment

\* Bytes an allocation takes from a free range, padding included.
Taken(entry, r) == r.size + Padding(entry.offset, r.alignment)

FitsRange(entry, r) == r.size + Padding(entry.offset, r.alignment) <= entry.size

Suits(b, r) ==
  /\ b.linear = r.linear
  /\ r.flags \subseteq b.flags
  /\ b.type \in r.types

\* The first free range of b that fits, 0 if none does.
FreeRange(b, r) ==
  IF Suits(b, r) THEN SelectInSeq(b.free, LAMBDA e : FitsRange(e, r)) ELSE 0

Without(b, i, r) ==
  LET e == b.free[i]
      rest == [offset |-> e.offset + Taken(e, r), size |-> e.size - Taken(e, r)]
  IN [b EXCEPT !.free = IF rest.size = 0 THEN RemoveAt(@, i)
                                         ELSE [@ EXCEPT ![i] = rest]]

Allocation(b, i, r) ==
  LET e == b.free[i]
  IN [block |-> b.id, offset |-> e.offset, size |-> Taken(e, r),
      aligned |-> e.offset + Padding(e.offset, r.alignment), request |-> r]

\* merge_adjacent_if with mergeable and merge.
MergeAdjacent(list) ==
  FoldLeft(LAMBDA merged, e :
             IF merged # <<>> /\ Last(merged).offset + Last(merged).size = e.offset
             THEN Append(Front(merged), [Last(merged) EXCEPT !.size = @ + e.size])
             ELSE Append(merged, e),
           <<>>, list)

\* Mutant: the list is not sorted again.
MutantReturn(b, allocation) ==
  [b EXCEPT !.free = MergeAdjacent(Append(@, [offset |-> allocation.offset,
                                              size |-> allocation.size]))]

\* device_memory_block::free
Return(b, allocation) ==
  [b EXCEPT !.free =
     MergeAdjacent(SortSeq(Append(@, [offset |-> allocation.offset,
                                      size |-> allocation.size]),
                           LAMBDA x, y : x.offset < y.offset))]

NewBlock(id, type, r, size) ==
  [id |-> id, type |-> type, flags |-> r.flags, linear |-> r.linear,
   size |-> size, free |-> <<[offset |-> 0, size |-> size]>>]

\* Before the first block of no smaller type.
Insert(list, b) ==
  LET after == SelectInSeq(list, LAMBDA c : c.type >= b.type)
  IN InsertAt(list, IF after = 0 THEN Len(list) + 1 ELSE after, b)

-----------------------------------------------------------------------------
(* allocate                                                                *)

\* From the first block of list that can; the handle was empty.
AllocateFrom(list, h, r) ==
  LET i == SelectInSeq(list, LAMBDA b : FreeRange(b, r) # 0)
      b == list[i]
  IN /\ i # 0
     /\ handle[h] = Empty
     /\ handle' = [handle EXCEPT ![h] = Allocation(b, FreeRange(b, r), r)]

Updated(list, r) ==
  LET i == SelectInSeq(list, LAMBDA b : FreeRange(b, r) # 0)
  IN [list EXCEPT ![i] = Without(@, FreeRange(@, r), r)]

\* The memory types that are tried for a new block.  The device may have no memory
\* left of any of them, then the next one is tried; if none is left, or there is
\* none, allocate throws and has changed nothing.
Compatible(r) == {t \in r.types : r.flags \subseteq MemoryTypes[t]}

AllocateFromBlock(h, r) ==
  /\ r.size < BlockSize
  /\ AllocateFrom(blocks, h, r)
  /\ blocks' = Updated(blocks, r)
  /\ UNCHANGED <<separate, nextId, nextSeparateId>>

AllocateNewBlock(h, r) ==
  /\ r.size < BlockSize
  /\ \A i \in DOMAIN blocks : FreeRange(blocks[i], r) = 0
  /\ Len(blocks) < MaxBlocks /\ nextId <= MaxBlocks + 1
  /\ handle[h] = Empty
  /\ \E t \in Compatible(r) :
       LET b == NewBlock(nextId, t, r, BlockSize)
       IN /\ handle' = [handle EXCEPT ![h] = Allocation(b, 1, r)]
          /\ blocks' = Insert(blocks, Without(b, 1, r))
  /\ nextId' = nextId + 1
  /\ UNCHANGED <<separate, nextSeparateId>>

\* No separate block ever has a free range, so each request gets a new one.
AllocateSeparate(h, r) ==
  /\ r.size >= BlockSize
  /\ Len(separate) < MaxBlocks /\ -nextSeparateId <= MaxBlocks + 1
  /\ handle[h] = Empty
  /\ IF \E i \in DOMAIN separate : FreeRange(separate[i], r) # 0
     THEN /\ AllocateFrom(separate, h, r)
          /\ separate' = Updated(separate, r)
          /\ UNCHANGED nextSeparateId
     ELSE \E t \in Compatible(r) :
            LET b == NewBlock(nextSeparateId, t, r, r.size)
            IN /\ handle' = [handle EXCEPT ![h] = Allocation(b, 1, r)]
               /\ separate' = Insert(separate, Without(b, 1, r))
               /\ nextSeparateId' = nextSeparateId - 1
  /\ UNCHANGED <<blocks, nextId>>

-----------------------------------------------------------------------------
(* free and the handles                                                    *)

\* free: block ids of separate blocks are negative, the block goes with its only
\* allocation.  An empty handle frees nothing.
Freed(allocation) ==
  /\ blocks' = [i \in DOMAIN blocks |->
                  IF allocation.block = blocks[i].id
                  THEN Return(blocks[i], allocation) ELSE blocks[i]]
  /\ separate' = SelectSeq(separate, LAMBDA b : b.id # allocation.block)
  /\ UNCHANGED <<nextId, nextSeparateId>>

\* The destructor of a handle or its reset.
Release(h) ==
  /\ handle[h] # Empty
  /\ Freed(handle[h])
  /\ handle' = [handle EXCEPT ![h] = Empty]

\* Move assignment frees what the target owned and leaves the source empty.
Move(from, to) ==
  /\ from # to
  /\ handle[from] # Empty
  /\ Freed(handle[to])
  /\ handle' = [handle EXCEPT ![to] = handle[from], ![from] = Empty]

-----------------------------------------------------------------------------
(* cleanup                                                                 *)

\* device_memory_block::empty
IsEmpty(b) == Len(b.free) = 1 /\ b.free[1].size = b.size

\* Mutant: one too many is kept.
MutantFirstOfEachType(list, keep) ==
  LET kept == {i \in DOMAIN list :
                 Cardinality({j \in 1 .. i - 1 : list[j].type = list[i].type}) <= keep}
  IN [i \in 1 .. Cardinality(kept) |->
        list[CHOOSE k \in kept : Cardinality({j \in kept : j <= k}) = i]]

\* n_unique: the first keep of each group of blocks of one memory type.
FirstOfEachType(list, keep) ==
  LET kept == {i \in DOMAIN list :
                 Cardinality({j \in 1 .. i - 1 : list[j].type = list[i].type}) < keep}
  IN [i \in 1 .. Cardinality(kept) |->
        list[CHOOSE k \in kept : Cardinality({j \in kept : j <= k}) = i]]

\* Blocks in use come before the empty ones of their type.
Cleanup(keep) ==
  LET used == SelectSeq(blocks, LAMBDA b : ~IsEmpty(b))
      kept == FirstOfEachType(SelectSeq(blocks, LAMBDA b : IsEmpty(b)), keep)
      OfType(t) == SelectSeq(used \o kept, LAMBDA b : b.type = t)
  IN /\ blocks' = FlattenSeq([t \in DOMAIN MemoryTypes |-> OfType(t)])
     /\ UNCHANGED <<separate, nextId, nextSeparateId, handle>>

MemNext ==
  \/ \E h \in Handles, r \in Requests :
       AllocateFromBlock(h, r) \/ AllocateNewBlock(h, r) \/ AllocateSeparate(h, r)
  \/ \E h \in Handles : Release(h)
  \/ \E h, g \in Handles : Move(h, g)
  \/ \E keep \in 0 .. MaxKeep : Cleanup(keep)

-----------------------------------------------------------------------------
(* Properties                                                              *)

AllBlocks == ToSet(blocks) \union ToSet(separate)

Live == {h \in Handles : handle[h] # Empty}

Ranges(b) ==
  {[offset |-> handle[h].offset, size |-> handle[h].size] :
     h \in {g \in Live : handle[g].block = b.id}}
  \union ToSet(b.free)

\* Types; ids are unique, normal blocks are sorted by type for the binary search
\* of the place of a new one.
MemTypeOK ==
  /\ \A b \in AllBlocks : b.type \in DOMAIN MemoryTypes /\ b.size \in Nat
  /\ \A b, c \in AllBlocks : b.id = c.id => b = c
  /\ \A b \in ToSet(blocks) : b.id \in 1 .. nextId - 1
  /\ \A b \in ToSet(separate) : b.id \in nextSeparateId + 1 .. -1
  /\ \A i, j \in DOMAIN blocks : i < j => blocks[i].type <= blocks[j].type

\* Whatever sequence of aligned allocations, frees, moves of handles and clean-ups
\* came before, the free ranges and the allocations in use divide each block:
\* nothing overlaps, nothing is lost, nothing lies beyond the end.
BlocksPartitioned ==
  \A b \in AllBlocks :
    \A byte \in 0 .. b.size - 1 + BlockSize :
      Cardinality({r \in Ranges(b) : byte \in r.offset .. r.offset + r.size - 1})
        = IF byte < b.size THEN 1 ELSE 0

\* A block nobody uses is seen as empty by cleanup, although the ranges come back
\* in any order: otherwise its memory would be held for ever.
UnusedBlockIsEmpty ==
  \A b \in ToSet(blocks) : (\A h \in Live : handle[h].block # b.id) => IsEmpty(b)

\* cleanup and free never take away a block an allocation lies in, and what a
\* handle owns satisfies the request: alignment, type, properties, tiling.
AllocationsServed ==
  \A h \in Live :
    \E b \in AllBlocks :
      /\ b.id = handle[h].block
      /\ LET a == handle[h]
         IN /\ a.aligned % a.request.alignment = 0
            /\ a.aligned + a.request.size <= a.offset + a.size
            /\ a.offset + a.size <= b.size
            /\ b.type \in a.request.types
            /\ a.request.flags \subseteq MemoryTypes[b.type]
            /\ b.linear = a.request.linear

\* "Keeping at most the given amount of blocks per pool": a clean-up leaves no more
\* empty blocks of a type than it was told, and takes no other.
CleanupKeeps ==
  [][\A keep \in 0 .. MaxKeep :
       Cleanup(keep) =>
         /\ \A t \in DOMAIN MemoryTypes :
              LET before == {b \in ToSet(blocks) : b.type = t /\ IsEmpty(b)}
                  after  == {b \in ToSet(blocks') : b.type = t /\ IsEmpty(b)}
              IN /\ after \subseteq before
                 /\ Cardinality(after) \in {keep, Cardinality(before)}
                 /\ Cardinality(after) <= keep
         /\ \A b \in ToSet(blocks) : ~IsEmpty(b) => b \in ToSet(blocks')]_memVars

\* All of it holds at once: the blocks are divided among the allocations and the free ranges, what is
\* allocated serves its request, and what is not used can be given back.
MemorySafe == MemTypeOK /\ BlocksPartitioned /\ UnusedBlockIsEmpty /\ AllocationsServed
=============================================================================
