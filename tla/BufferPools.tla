---------------------------- MODULE BufferPools ----------------------------
(***************************************************************************)
(* containers::byte_buffer_pool and util::callback_pool, which hand out    *)
(* pieces of larger buffers. Both take the next bytes of a current buffer  *)
(* under the lock; a full one is stashed until the count of its pieces,    *)
(* which is lowered without the lock, is zero. A byte buffer has shared    *)
(* owners; a callback is constructed in its piece after the lock is gone.  *)
(***************************************************************************)
EXTENDS Naturals, Integers, Sequences, FiniteSets, SequencesExt

CONSTANTS MaxHolders, Nothing, PieceSizes, PieceAlignments, FirstSize, MinSlots, PieceBase, HeaderPad, MaxPoolBuffers, MaxBufferSize, MaxLost

Holders   == 1 .. MaxHolders
BufferIds == 1 .. MaxPoolBuffers

\* A piece of a buffer: where it begins and ends, and how far its owner is with it.
BufferPieces == [buffer : BufferIds, from : Nat, to : Nat, at : {"construct", "held", "drop"}]

ASSUME BufferPoolsAssumption ==
  /\ MaxHolders \in Nat /\ PieceSizes \subseteq Nat /\ PieceAlignments \subseteq Nat \ {0}
  /\ FirstSize \in Nat \ {0} /\ MinSlots \in Nat \ {0}
  /\ {PieceBase, HeaderPad} \subseteq Nat /\ MaxPoolBuffers \in Nat \ {0, 1} /\ {MaxBufferSize, MaxLost} \subseteq Nat
  /\ Nothing \notin BufferPieces

VARIABLES
  bpCallbacks,           \* which of the two pools this is
  bpSize,                \* the size of each buffer that was made
  bpCurrent, bpOffset, bpStash, bpGrowth,   \* 0 is no buffer; bpGrowth is buffer_size_
  bpRefs,                \* ref_count_ of each buffer
  bpHeld,                \* per pointer or function: its piece
  bpLost                 \* pieces whose callback was not constructed

poolState == <<bpSize, bpCurrent, bpOffset, bpStash, bpGrowth>>
bpVars    == <<bpCallbacks, poolState, bpRefs, bpHeld, bpLost>>

\* What a buffer must hold at least that is made or reclaimed for a piece.
Needed(size, a) == (IF bpCallbacks THEN a ELSE 0) + (MinSlots * size)

\* The constructor makes two buffers without growth, as for pieces of one byte.
BpInit ==
  /\ bpCallbacks \in BOOLEAN
  /\ LET s == IF FirstSize < Needed(1, 1) THEN Needed(1, 1) ELSE FirstSize
     IN bpGrowth = s /\ bpSize = <<s + HeaderPad, s + HeaderPad>>
  /\ bpCurrent = 2 /\ bpOffset = 0 /\ bpStash = <<1>>
  /\ bpRefs = [b \in BufferIds |-> 0]
  /\ bpHeld = [h \in Holders |-> Nothing]
  /\ bpLost = [b \in BufferIds |-> 0]

(***************************************************************************)
(* allocate_buffer, allocate_function                                      *)
(***************************************************************************)

\* The offset of an aligned piece after the given one, in a buffer whose data begins at PieceBase.
Aligned(offset, a) == offset + ((a - ((PieceBase + offset) % a)) % a)

PieceFits(b, offset, size, a) == b # 0 /\ Aligned(offset, a) + size <= bpSize[b]

\* Pointers and functions have numbers; the first one without a piece gets it.
Free(h) == bpHeld[h] = Nothing /\ \A g \in 1 .. h - 1 : bpHeld[g] # Nothing

MutantReusable(b, size, a) == bpSize[b] >= Needed(size, a)

Reusable(b, size, a) == bpSize[b] >= Needed(size, a) /\ bpRefs[b] = 0

\* The piece counts from here on; a callback is under construction.
Hand(h, b, from, size) ==
  /\ bpHeld' = [bpHeld EXCEPT ![h] = [buffer |-> b, from |-> from, to |-> from + size,
                                      at |-> IF bpCallbacks THEN "construct" ELSE "held"]]
  /\ bpRefs' = [bpRefs EXCEPT ![b] = @ + 1]
  /\ bpCurrent' = b /\ bpOffset' = from + size

AllocateHere(h, size, a) ==
  /\ Free(h)
  /\ PieceFits(bpCurrent, bpOffset, size, a)
  /\ Hand(h, bpCurrent, Aligned(bpOffset, a), size)
  /\ UNCHANGED <<bpCallbacks, bpSize, bpStash, bpGrowth, bpLost>>

\* reallocate begins with the current buffer in the stash.
Stashed == IF bpCurrent = 0 THEN bpStash ELSE Append(bpStash, bpCurrent)
Candidates(size, a) == {k \in DOMAIN Stashed : Len(Stashed) > 1 /\ Reusable(Stashed[k], size, a)}

AllocateReclaimed(h, size, a) ==
  /\ Free(h)
  /\ ~PieceFits(bpCurrent, bpOffset, size, a)
  /\ \E k \in Candidates(size, a) :
       /\ \A j \in Candidates(size, a) : k <= j
       /\ bpStash' = RemoveAt(Stashed, k)
       /\ Hand(h, Stashed[k], Aligned(0, a), size)
  /\ UNCHANGED <<bpCallbacks, bpSize, bpGrowth, bpLost>>

\* Half as large again, and large enough for the fewest pieces.
Grown(size, a) ==
  LET s == (3 * bpGrowth + 1) \div 2
  IN IF s < Needed(size, a) THEN Needed(size, a) ELSE s

AllocateNew(h, size, a) ==
  /\ Free(h)
  /\ ~PieceFits(bpCurrent, bpOffset, size, a)
  /\ Candidates(size, a) = {}
  /\ Len(bpSize) < MaxPoolBuffers /\ Grown(size, a) <= MaxBufferSize
  /\ bpGrowth' = Grown(size, a)
  /\ bpSize' = Append(bpSize, Grown(size, a) + HeaderPad)
  /\ bpStash' = Stashed
  /\ Hand(h, Len(bpSize) + 1, Aligned(0, a), size)
  /\ UNCHANGED <<bpCallbacks, bpLost>>

\* No memory for a new buffer: the pool is left without a current one.
AllocateThrows(h, size, a) ==
  /\ Free(h)
  /\ ~PieceFits(bpCurrent, bpOffset, size, a)
  /\ Candidates(size, a) = {}
  /\ Grown(size, a) <= MaxBufferSize
  /\ bpGrowth' = Grown(size, a)
  /\ bpStash' = Stashed /\ bpCurrent' = 0 /\ bpOffset' = 0
  /\ UNCHANGED <<bpCallbacks, bpSize, bpRefs, bpHeld, bpLost>>

ConstructPiece(h) ==
  /\ bpHeld[h] # Nothing /\ bpHeld[h].at = "construct"
  /\ bpHeld' = [bpHeld EXCEPT ![h].at = "held"]
  /\ UNCHANGED <<bpCallbacks, poolState, bpRefs, bpLost>>

\* Nobody takes the count of the piece back.
ConstructThrows(h) ==
  /\ bpHeld[h] # Nothing /\ bpHeld[h].at = "construct"
  /\ bpLost[bpHeld[h].buffer] < MaxLost
  /\ bpLost' = [bpLost EXCEPT ![bpHeld[h].buffer] = @ + 1]
  /\ bpHeld' = [bpHeld EXCEPT ![h] = Nothing]
  /\ UNCHANGED <<bpCallbacks, poolState, bpRefs>>

(***************************************************************************)
(* pooled_byte_buffer_ptr, callback_pool_function                          *)
(***************************************************************************)

Owns(h) == bpHeld[h] # Nothing /\ bpHeld[h].at = "held"

\* What a pointer or a function adds to the count of a buffer.
InBuffer(piece, b) == IF piece # Nothing /\ piece.buffer = b THEN 1 ELSE 0

\* Copying (byte buffers), into a pointer that may have a piece, which it gives up.
CopyPiece(h, g) ==
  /\ ~bpCallbacks /\ h # g /\ Owns(h) /\ (Free(g) \/ Owns(g))
  /\ bpRefs' = [b \in BufferIds |-> bpRefs[b] + InBuffer(bpHeld[h], b) - InBuffer(bpHeld[g], b)]
  /\ bpHeld' = [bpHeld EXCEPT ![g] = bpHeld[h]]
  /\ UNCHANGED <<bpCallbacks, poolState, bpLost>>

\* Moving swaps, and resets the other: its piece is destroyed first.
MovePiece(h, g) ==
  /\ h # g /\ Owns(h) /\ (Free(g) \/ Owns(g))
  /\ bpHeld' = [bpHeld EXCEPT ![g] = bpHeld[h],
                              ![h] = IF bpHeld[g] = Nothing THEN Nothing ELSE [bpHeld[g] EXCEPT !.at = "drop"]]
  /\ UNCHANGED <<bpCallbacks, poolState, bpRefs, bpLost>>

\* reset, the destructor: the callback first, and then the count.
DestroyPiece(h) ==
  /\ Owns(h)
  /\ bpHeld' = [bpHeld EXCEPT ![h].at = "drop"]
  /\ UNCHANGED <<bpCallbacks, poolState, bpRefs, bpLost>>

DropPiece(h) ==
  /\ bpHeld[h] # Nothing /\ bpHeld[h].at = "drop"
  /\ bpRefs' = [bpRefs EXCEPT ![bpHeld[h].buffer] = @ - 1]
  /\ bpHeld' = [bpHeld EXCEPT ![h] = Nothing]
  /\ UNCHANGED <<bpCallbacks, poolState, bpLost>>

\* release_resources: buffers with pieces live on with those.
ReleaseResources ==
  /\ bpCurrent' = 0 /\ bpOffset' = 0 /\ bpStash' = <<>>
  /\ UNCHANGED <<bpCallbacks, bpSize, bpGrowth, bpRefs, bpHeld, bpLost>>

BpNext ==
  \/ \E h \in Holders, size \in PieceSizes, a \in (IF bpCallbacks THEN PieceAlignments ELSE {1}) :
       \/ AllocateHere(h, size, a) \/ AllocateReclaimed(h, size, a)
       \/ AllocateNew(h, size, a) \/ AllocateThrows(h, size, a)
  \/ \E h \in Holders :
       \/ ConstructPiece(h) \/ ConstructThrows(h) \/ DestroyPiece(h) \/ DropPiece(h)
       \/ \E g \in Holders : CopyPiece(h, g) \/ MovePiece(h, g)
  \/ ReleaseResources

BpSpec == BpInit /\ [][BpNext]_bpVars

(***************************************************************************)
(* Properties                                                              *)
(***************************************************************************)

Using(held, b) == {h \in Holders : held[h] # Nothing /\ held[h].buffer = b}

BpTypeOK ==
  /\ bpCallbacks \in BOOLEAN
  /\ bpSize \in Seq(Nat) /\ Len(bpSize) \in 2 .. MaxPoolBuffers
  /\ bpGrowth \in Nat /\ bpOffset \in Nat
  /\ bpCurrent \in 0 .. Len(bpSize) /\ bpStash \in Seq(1 .. Len(bpSize))
  /\ bpLost \in [BufferIds -> Nat]
  /\ bpHeld \in [Holders -> {Nothing} \cup BufferPieces]

\* A buffer is in one place of the pool.
BuffersOnce ==
  /\ \A j, k \in DOMAIN bpStash : bpStash[j] = bpStash[k] => j = k
  /\ \A k \in DOMAIN bpStash : bpStash[k] # bpCurrent

\* The count of a buffer is that of its pieces, and of those that were lost: one that nobody uses can be reclaimed.
RefsAgree == bpRefs = [b \in BufferIds |-> Cardinality(Using(bpHeld, b)) + bpLost[b]]

\* Pieces lie in their buffers, and those of the current one before the place of the next piece.
PiecesInside ==
  \A h \in Holders : bpHeld[h] # Nothing =>
    /\ bpHeld[h].buffer <= Len(bpSize)
    /\ bpHeld[h].from <= bpHeld[h].to /\ bpHeld[h].to <= bpSize[bpHeld[h].buffer]
    /\ bpHeld[h].buffer = bpCurrent => bpHeld[h].to <= bpOffset

\* Two pieces share no byte unless they are copies of each other, though buffers are reclaimed while others
\* count their pieces down.
PiecesApart ==
  \A g, h \in Holders : bpHeld[g] # Nothing /\ bpHeld[h] # Nothing /\ bpHeld[g].buffer = bpHeld[h].buffer =>
    \/ bpHeld[g].from = bpHeld[h].from /\ bpHeld[g].to = bpHeld[h].to
    \/ bpHeld[g].to <= bpHeld[h].from
    \/ bpHeld[h].to <= bpHeld[g].from

\* Counts that allow buffers to be reclaimed, and pieces that keep apart although they are.
BpSafe == BpTypeOK /\ BuffersOnce /\ RefsAgree /\ PiecesInside /\ PiecesApart
=============================================================================
