-------------------------- MODULE RingChunkPlacer --------------------------
(***************************************************************************)
(* util::ring_chunk_placer and a client of it: chunks are placed into a    *)
(* ring buffer at in_pos_ and freed, oldest first, up to a position the    *)
(* client recorded with in_position(), as transfer_manager does once a     *)
(* frame.                                                                  *)
(***************************************************************************)
EXTENDS RingPositions, Sequences

CONSTANTS
  RingSize,         \* buffer_space_size_
  ChunkSizes,       \* sizes of chunks
  ChunkAlignments,  \* alignments asked for, powers of two
  MaxMarks          \* bound: positions recorded and not yet freed to

ASSUME PlacerAssumption ==
  /\ RingSize \in Nat \ {0}
  /\ ChunkSizes \subseteq 1..RingSize
  /\ ChunkAlignments \subseteq 1..RingSize
  /\ Word \in Nat /\ Word > 4 * RingSize
  /\ MaxMarks \in Nat

VARIABLES
  ring,   \* the positions of the placer
  live,   \* history: the chunks placed and not freed, oldest first
  marks,  \* the client's recorded positions, each with how many of the live chunks it ends
  underflowed  \* history: find_pos computed a space in front of an out_pos_ that is not ahead

placerVars == <<ring, live, marks, underflowed>>

PlacerInit ==
  /\ ring = NewRing(RingSize)
  /\ live = <<>>
  /\ marks = <<>>
  /\ underflowed = FALSE

\* place_chunk when there is a position.
PlaceChunk(size, alignment) ==
  /\ can_fit(ring, size, alignment)
  /\ LET first == find_pos(ring, size, alignment).target IN
       live' = Append(live, [first |-> first, end |-> first + size])
  /\ ring' = place_chunk(ring, size, alignment)
  /\ underflowed' = (underflowed \/ Underflows(ring, size, alignment))
  /\ UNCHANGED marks

\* The client keeps in_position(), to free what it placed so far.
RecordPosition ==
  /\ Len(marks) < MaxMarks
  /\ marks' = Append(marks, [position |-> ring.in_pos, chunks |-> Len(live)])
  /\ UNCHANGED <<ring, live, underflowed>>

\* free_to the oldest recorded position.
FreeTo ==
  /\ marks # <<>>
  /\ ring' = free_to(ring, Head(marks).position)
  /\ LET freed == Head(marks).chunks IN
       /\ live' = SubSeq(live, freed + 1, Len(live))
       /\ marks' = [k \in 1 .. Len(marks) - 1 |-> [marks[k + 1] EXCEPT !.chunks = @ - freed]]
  /\ UNCHANGED underflowed

PlacerNext ==
  \/ \E size \in ChunkSizes, alignment \in ChunkAlignments : PlaceChunk(size, alignment)
  \/ RecordPosition
  \/ FreeTo

PlacerSpec == PlacerInit /\ [][PlacerNext]_placerVars

-----------------------------------------------------------------------------
(* Properties                                                              *)

PlacedChunks == [first : 0..RingSize, end : 0..RingSize]
RecordedMarks(n) == [position : 0..RingSize, chunks : 0..n]

\* Positions stay in the buffer, the client's records match what is live, until something underflowed.
PlacerTypeOK ==
  /\ ring \in Rings({RingSize})
  /\ live \in Seq(PlacedChunks)
  /\ marks \in Seq(RecordedMarks(Len(live)))

\* What place_chunk returned holds its data until it is freed: the live chunks
\* lie in the buffer and no two of them share a byte, wherever the ring wrapped.
LiveChunksIntact ==
  /\ \A i \in DOMAIN live : live[i].end <= RingSize
  /\ \A i, j \in DOMAIN live :
       i < j => live[i].end <= live[j].first \/ live[j].end <= live[i].first

\* Why: the live chunks lie in the space that is called used.
LiveChunksInUsedSpace ==
  /\ Wrapped(ring) => ring.out_pos <= ring.wrap_size
  /\ \A i \in DOMAIN live : live[i].first < live[i].end /\ Used(ring, live[i].first, live[i].end)

\* Chunks lie in the order they were placed in.
LiveChunksInOrder ==
  \A i, j \in DOMAIN live : i < j => Follows(ring, live[i].end, live[j].first)

\* Recorded where the ring then wrapped, and another time before: free_to takes it for the start
\* of the buffer, from where the space is used already.
Passed(k) == ring.out_pos = 0 /\ \A l \in 1..k : marks[l].position = ring.wrap_size

\* Any other recorded position lies in the used space, behind those recorded before it and in
\* front of the chunks placed after it.
MarksInOrder ==
  /\ \A k \in DOMAIN marks :
       \/ Passed(k)
       \/ /\ Used(ring, marks[k].position, marks[k].position)
          /\ \A i \in DOMAIN live : i > marks[k].chunks => Follows(ring, marks[k].position, live[i].first)
  /\ \A k, l \in DOMAIN marks :
       k < l => /\ Passed(k) \/ Follows(ring, marks[k].position, marks[l].position)
                /\ marks[k].chunks <= marks[l].chunks

PlacedInv == PlacerTypeOK /\ LiveChunksInUsedSpace /\ LiveChunksInOrder /\ MarksInOrder

\* The inductive invariant.
PlacerInv == underflowed \/ PlacedInv

\* All of it holds at once, over any number of rounds and for any sizes and alignments, as long as nothing
\* underflowed: then a chunk that was placed ends behind the buffer.
PlacerSafe == underflowed \/ (PlacedInv /\ LiveChunksIntact)
=============================================================================
