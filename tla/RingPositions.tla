--------------------------- MODULE RingPositions ---------------------------
(***************************************************************************)
(* The arithmetic of util::ring_chunk_placer, as functions of its three    *)
(* positions.  Positions are offsets into the buffer, a size_t has Word    *)
(* values.  The copied bytes are left out: a chunk is where it lies.       *)
(***************************************************************************)
EXTENDS Integers, TLAPS

CONSTANT Word  \* the number of values of a size_t

\* A placer as constructed for a buffer of the given size.
NewRing(size) == [in_pos |-> 0, out_pos |-> 0, wrap_size |-> size, size |-> size]

Rings(sizes) == {r \in [in_pos : Nat, out_pos : Nat, wrap_size : Nat, size : sizes] :
                   r.in_pos <= r.size /\ r.out_pos <= r.size /\ r.wrap_size <= r.size}

\* memory::align_offset: the position moved up, if size still fits the space.
AlignUp(pos, alignment) ==
  IF pos % alignment = 0 THEN pos ELSE pos + alignment - (pos % alignment)
Fits(pos, size, alignment, space) == size + AlignUp(pos, alignment) - pos <= space

FoundAt(target, wrap) == [fits |-> TRUE, target |-> target, wrap |-> wrap]
NotFound == [fits |-> FALSE, target |-> 0, wrap |-> FALSE]

\* Mutant: a chunk may use all the space up to out_pos_, so the ring runs full.
MutantNoGap(ring, size, alignment) ==
  LET behind == ring.in_pos + size <= ring.size
      wrap   == ring.out_pos <= ring.in_pos /\ ~behind
      start  == IF wrap THEN 0 ELSE ring.in_pos
      space  == (ring.out_pos - start) % Word
  IN IF /\ ring.out_pos <= ring.in_pos /\ behind
        /\ Fits(ring.in_pos, size, alignment, ring.size - ring.in_pos)
       THEN FoundAt(AlignUp(ring.in_pos, alignment), FALSE)
     ELSE IF start # ring.out_pos /\ Fits(start, size, alignment, space)
       THEN FoundAt(AlignUp(start, alignment), wrap)
     ELSE NotFound

\* Behind in_pos_, else, wrapping or not, up to out_pos_ with one byte kept free.
find_pos(ring, size, alignment) ==
  LET behind == ring.in_pos + size <= ring.size
      wrap   == ring.out_pos <= ring.in_pos /\ ~behind
      start  == IF wrap THEN 0 ELSE ring.in_pos
      space  == (ring.out_pos - start - 1) % Word
  IN IF /\ ring.out_pos <= ring.in_pos /\ behind
        /\ Fits(ring.in_pos, size, alignment, ring.size - ring.in_pos)
       THEN FoundAt(AlignUp(ring.in_pos, alignment), FALSE)
     ELSE IF start # ring.out_pos /\ Fits(start, size, alignment, space)
       THEN FoundAt(AlignUp(start, alignment), wrap)
     ELSE NotFound

\* Where the padding makes a chunk too long for the space behind in_pos_, find_pos goes on to the space
\* in front of an out_pos_ that is not ahead: the difference wraps around and the chunk ends outside.
Underflows(ring, size, alignment) ==
  /\ ring.out_pos < ring.in_pos
  /\ ring.in_pos + size <= ring.size
  /\ ~Fits(ring.in_pos, size, alignment, ring.size - ring.in_pos)

can_fit(ring, size, alignment) == find_pos(ring, size, alignment).fits

can_fit_no_wrap(ring, size, alignment) ==
  LET pos == find_pos(ring, size, alignment) IN pos.fits /\ ~pos.wrap

available_space_no_wrap(ring) ==
  ((IF ring.out_pos <= ring.in_pos THEN ring.size ELSE ring.out_pos - 1) - ring.in_pos) % Word

\* The positions after place_chunk returned find_pos(...).target; without a
\* target it changes nothing.
place_chunk(ring, size, alignment) ==
  LET pos == find_pos(ring, size, alignment) IN
    [ring EXCEPT !.wrap_size = IF pos.wrap THEN ring.in_pos ELSE @,
                 !.in_pos = pos.target + size]

\* A position outside the buffer is ignored.  The model is the build without
\* assertions: a debug build stops where the position is above wrap_size_.
free_to(ring, position) ==
  IF position > ring.size THEN ring
  ELSE [ring EXCEPT !.out_pos = IF position = ring.wrap_size THEN 0 ELSE position]

-----------------------------------------------------------------------------
(* What the positions mean                                                 *)

\* The space the three positions call used: from out_pos_ to in_pos_, or to wrap_size_ and
\* from the start again to in_pos_.
Wrapped(r) == r.out_pos > r.in_pos

Used(r, first, end) ==
  \/ r.out_pos <= first /\ end <= IF Wrapped(r) THEN r.wrap_size ELSE r.in_pos
  \/ Wrapped(r) /\ end <= r.in_pos

\* A position behind in_pos_ is one of before the wrap, those up to in_pos_ come after it.
Follows(r, p, q) ==
  IF (p > r.in_pos) = (q > r.in_pos) THEN p <= q ELSE p > r.in_pos

-----------------------------------------------------------------------------
(* Lemmas                                                                  *)

\* A ring whose positions are in its buffer and which is not larger than what a size_t counts.
RingOK(r) == r \in Rings(Nat) /\ r.size < Word

\* A position that is moved up.
LEMMA AlignedUp ==
  ASSUME NEW pos \in Nat, NEW alignment \in Nat \ {0}
  PROVE  AlignUp(pos, alignment) \in Nat /\ pos <= AlignUp(pos, alignment) /\ AlignUp(0, alignment) = 0
<1>1. pos % alignment \in 0 .. alignment - 1
  OBVIOUS
<1> DEFINE m == pos % alignment
<1> HIDE DEF m
<1>2. m \in 0 .. alignment - 1
  BY <1>1 DEF m
<1>3. AlignUp(pos, alignment) = IF m = 0 THEN pos ELSE pos + alignment - m
  BY DEF AlignUp, m
<1>4. AlignUp(0, alignment) = 0
  BY DEF AlignUp
<1> QED
  BY <1>2, <1>3, <1>4

\* Whatever happened before, what find_pos returns is an offset.
LEMMA FoundOffset ==
  ASSUME NEW r, r.in_pos \in Nat, NEW size, NEW alignment \in Nat \ {0}
  PROVE  find_pos(r, size, alignment).target \in Nat
<1>1. AlignUp(r.in_pos, alignment) \in Nat /\ AlignUp(0, alignment) = 0
  BY AlignedUp
<1> QED
  BY <1>1 DEF find_pos, FoundAt, NotFound

\* Where nothing underflows a chunk is placed behind in_pos_, with its end in front of out_pos_ if that
\* is ahead, or else, where no space is left behind in_pos_, at the start with its end in front of
\* out_pos_.
LEMMA InsidePlace ==
  ASSUME Word \in Nat, NEW r, RingOK(r), NEW size \in Nat \ {0}, NEW alignment \in Nat \ {0},
         can_fit(r, size, alignment), ~Underflows(r, size, alignment)
  PROVE  LET pos == find_pos(r, size, alignment) IN
           /\ pos.wrap \in BOOLEAN /\ pos.target \in Nat
           /\ \/ /\ ~pos.wrap /\ r.in_pos <= pos.target
                 /\ IF r.out_pos <= r.in_pos THEN pos.target + size <= r.size
                                             ELSE pos.target + size < r.out_pos
              \/ /\ pos.wrap /\ pos.target = 0
                 /\ r.out_pos <= r.in_pos /\ size < r.out_pos
<1> DEFINE pos == find_pos(r, size, alignment)  up == AlignUp(r.in_pos, alignment)
<1>1. /\ r.in_pos \in Nat /\ r.out_pos \in Nat /\ r.size \in Nat
      /\ r.in_pos <= r.size /\ r.out_pos <= r.size /\ r.size < Word
  BY DEF RingOK, Rings
<1>2. up \in Nat /\ r.in_pos <= up /\ AlignUp(0, alignment) = 0
  BY <1>1, AlignedUp
<1>3. \A x \in Nat : x <= r.size => x % Word = x
  BY <1>1
<1>4. CASE r.out_pos <= r.in_pos /\ r.in_pos + size <= r.size
  <2>1. CASE Fits(r.in_pos, size, alignment, r.size - r.in_pos)
    <3>1. size + up - r.in_pos <= r.size - r.in_pos
      BY <2>1 DEF Fits
    <3>2. up + size <= r.size
      BY <1>1, <1>2, <3>1
    <3>3. pos = FoundAt(up, FALSE)
      BY <1>4, <2>1 DEF find_pos
    <3> HIDE DEF pos, up
    <3> QED
      BY <1>2, <1>4, <3>2, <3>3 DEF FoundAt, pos
  <2>2. CASE ~Fits(r.in_pos, size, alignment, r.size - r.in_pos)
    <3>1. r.out_pos = r.in_pos
      BY <1>1, <1>4, <2>2 DEF Underflows
    <3>2. pos = NotFound
      BY <1>4, <2>2, <3>1 DEF find_pos
    <3> QED
      BY <3>2 DEF can_fit, NotFound
  <2> QED
    BY <2>1, <2>2
<1>5. CASE r.out_pos <= r.in_pos /\ ~(r.in_pos + size <= r.size)
  <2>1. r.out_pos # 0
    BY <1>1, <1>5 DEF can_fit, find_pos, NotFound
  <2>2. (r.out_pos - 0 - 1) % Word = r.out_pos - 1
    BY <1>1, <1>3, <2>1
  <2>3. pos = FoundAt(0, TRUE) /\ size <= r.out_pos - 1
    <3>1. Fits(0, size, alignment, r.out_pos - 1) <=> size <= r.out_pos - 1
      BY <1>1, <1>2 DEF Fits
    <3> QED
      BY <1>1, <1>2, <1>5, <2>1, <2>2, <3>1 DEF can_fit, find_pos, NotFound, FoundAt
  <2> QED
    BY <1>1, <1>5, <2>3 DEF FoundAt
<1>6. CASE r.in_pos < r.out_pos
  <2>1. (r.out_pos - r.in_pos - 1) % Word = r.out_pos - r.in_pos - 1
    BY <1>1, <1>3, <1>6
  <2>2. Fits(r.in_pos, size, alignment, r.out_pos - r.in_pos - 1) <=> up + size < r.out_pos
    <3>1. Fits(r.in_pos, size, alignment, r.out_pos - r.in_pos - 1) <=> size + up - r.in_pos <= r.out_pos - r.in_pos - 1
      BY DEF Fits
    <3> HIDE DEF up
    <3> QED
      BY <1>1, <1>2, <3>1
  <2>3. pos = FoundAt(up, FALSE) /\ up + size < r.out_pos
    <3>1. ~(r.out_pos <= r.in_pos) /\ r.in_pos # r.out_pos
      BY <1>1, <1>6
    <3>2. pos = IF Fits(r.in_pos, size, alignment, r.out_pos - r.in_pos - 1)
                THEN FoundAt(up, FALSE) ELSE NotFound
      BY <2>1, <3>1 DEF find_pos
    <3>3. pos.fits
      BY DEF can_fit
    <3> HIDE DEF pos, up
    <3> QED
      BY <2>2, <3>2, <3>3 DEF NotFound
  <2> HIDE DEF up
  <2> QED
    BY <1>1, <1>2, <1>6, <2>3 DEF FoundAt
<1> QED
  BY <1>1, <1>4, <1>5, <1>6

\* What place_chunk does to the positions: the chunk lies behind in_pos_, or at the start where that wraps.
Placed(r, new, first, size) ==
  /\ RingOK(new) /\ new.size = r.size /\ new.out_pos = r.out_pos
  /\ new.in_pos = first + size
  /\ \/ /\ r.in_pos <= first /\ new.wrap_size = r.wrap_size
        /\ r.out_pos <= r.in_pos \/ new.in_pos < r.out_pos
     \/ /\ first = 0 /\ new.wrap_size = r.in_pos
        /\ r.out_pos <= r.in_pos /\ new.in_pos < r.out_pos

\* So it does where nothing underflows.
LEMMA PlacedPositions ==
  ASSUME Word \in Nat, NEW r, RingOK(r), NEW size \in Nat \ {0}, NEW alignment \in Nat \ {0},
         can_fit(r, size, alignment), ~Underflows(r, size, alignment)
  PROVE  /\ Placed(r, place_chunk(r, size, alignment), find_pos(r, size, alignment).target, size)
         /\ find_pos(r, size, alignment).target \in Nat
<1> DEFINE pos == find_pos(r, size, alignment)  new == place_chunk(r, size, alignment)
<1>1. /\ r.in_pos \in Nat /\ r.out_pos \in Nat /\ r.size \in Nat /\ r.wrap_size \in Nat
      /\ r.in_pos <= r.size /\ r.out_pos <= r.size /\ r.size < Word /\ r.wrap_size <= r.size
      /\ r \in [in_pos : Nat, out_pos : Nat, wrap_size : Nat, size : Nat]
  BY DEF RingOK, Rings
<1>2. /\ pos.wrap \in BOOLEAN /\ pos.target \in Nat
      /\ \/ /\ ~pos.wrap /\ r.in_pos <= pos.target
            /\ IF r.out_pos <= r.in_pos THEN pos.target + size <= r.size
                                        ELSE pos.target + size < r.out_pos
         \/ /\ pos.wrap /\ pos.target = 0
            /\ r.out_pos <= r.in_pos /\ size < r.out_pos
  BY InsidePlace
<1>3. new = [r EXCEPT !.wrap_size = IF pos.wrap THEN r.in_pos ELSE @, !.in_pos = pos.target + size]
  BY DEF place_chunk
<1> HIDE DEF pos, new
<1>4. new = [in_pos |-> pos.target + size, out_pos |-> r.out_pos, size |-> r.size,
             wrap_size |-> IF pos.wrap THEN r.in_pos ELSE r.wrap_size]
  BY <1>1, <1>2, <1>3
<1>5. new \in Rings(Nat)
  BY <1>1, <1>2, <1>4 DEF Rings
<1>6. find_pos(r, size, alignment).target = pos.target
  BY DEF pos
<1> QED
  BY <1>1, <1>2, <1>4, <1>5, <1>6 DEF RingOK, Placed, new

\* The fields of a ring.
LEMMA RingFields ==
  ASSUME NEW r, RingOK(r)
  PROVE  /\ r.in_pos \in Nat /\ r.out_pos \in Nat /\ r.wrap_size \in Nat /\ r.size \in Nat
         /\ r.in_pos <= r.size /\ r.out_pos <= r.size /\ r.wrap_size <= r.size /\ r.size < Word
BY DEF RingOK, Rings

\* Used space stays used when a chunk is placed.
LEMMA UsedStays ==
  ASSUME NEW r, RingOK(r), NEW new, NEW c \in Nat, NEW size \in Nat \ {0}, Placed(r, new, c, size),
         Wrapped(r) => r.out_pos <= r.wrap_size,
         NEW p \in Nat, NEW q \in Nat, p <= q, Used(r, p, q)
  PROVE  Used(new, p, q) /\ Used(new, c, c + size) /\ (Wrapped(new) => new.out_pos <= new.wrap_size)
BY RingFields DEF Placed, Used, Wrapped

\* Positions of used space keep their order.
LEMMA FollowsStays ==
  ASSUME NEW r, RingOK(r), NEW new, NEW c \in Nat, NEW size \in Nat \ {0}, Placed(r, new, c, size),
         Wrapped(r) => r.out_pos <= r.wrap_size,
         NEW p1 \in Nat, NEW q1 \in Nat, Used(r, p1, q1), NEW p \in p1 .. q1,
         NEW p2 \in Nat, NEW q2 \in Nat, Used(r, p2, q2), NEW q \in p2 .. q2, Follows(r, p, q)
  PROVE  Follows(new, p, q)
BY RingFields DEF Placed, Used, Wrapped, Follows

\* The chunk that is placed follows all of them.
LEMMA PlacedFollows ==
  ASSUME NEW r, RingOK(r), NEW new, NEW c \in Nat, NEW size \in Nat \ {0}, Placed(r, new, c, size),
         Wrapped(r) => r.out_pos <= r.wrap_size,
         NEW p1 \in Nat, NEW q1 \in Nat, Used(r, p1, q1), NEW p \in p1 .. q1
  PROVE  Follows(new, p, c)
BY RingFields DEF Placed, Used, Wrapped, Follows

\* free_to a used position.
LEMMA FreedPositions ==
  ASSUME NEW r, RingOK(r), NEW p \in Nat, p <= r.size
  PROVE  /\ RingOK(free_to(r, p))
         /\ free_to(r, p).in_pos = r.in_pos /\ free_to(r, p).wrap_size = r.wrap_size
         /\ free_to(r, p).size = r.size
         /\ free_to(r, p).out_pos = IF p = r.wrap_size THEN 0 ELSE p
<1>1. free_to(r, p) = [r EXCEPT !.out_pos = IF p = r.wrap_size THEN 0 ELSE p]
  BY RingFields DEF free_to
<1> QED
  BY <1>1, RingFields DEF RingOK, Rings

\* What follows it stays used, but for the end of what lay before the wrap.
LEMMA FreedUsed ==
  ASSUME NEW r, RingOK(r), NEW p \in Nat, p <= r.size, Used(r, p, p),
         Wrapped(r) => r.out_pos <= r.wrap_size,
         NEW c \in Nat, NEW e \in Nat, c <= e, Used(r, c, e), Follows(r, p, c)
  PROVE  LET new == free_to(r, p) IN
           /\ Wrapped(new) => new.out_pos <= new.wrap_size
           /\ \/ Used(new, c, e)
              \/ c = e /\ c = r.wrap_size /\ p = r.wrap_size /\ new.out_pos = 0
<1> DEFINE new == free_to(r, p)
<1>1. /\ RingOK(new) /\ new.in_pos = r.in_pos /\ new.wrap_size = r.wrap_size
      /\ new.out_pos = IF p = r.wrap_size THEN 0 ELSE p
  BY FreedPositions
<1> HIDE DEF new
<1>2. /\ Wrapped(new) => new.out_pos <= new.wrap_size
      /\ \/ Used(new, c, e)
         \/ c = e /\ c = r.wrap_size /\ p = r.wrap_size /\ new.out_pos = 0
  BY <1>1, RingFields DEF Used, Wrapped, Follows
<1> QED
  BY <1>2 DEF new

=============================================================================
