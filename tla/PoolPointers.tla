---------------------------- MODULE PoolPointers ----------------------------
(***************************************************************************)
(* smart_pool_ptr and weak_pool_ptr as one thread uses them: every way to  *)
(* make a pointer from another, to move, assign, swap and reset it, with   *)
(* pointers that are members of the objects they keep alive. The entries   *)
(* and what several threads do to one counter are in SmartObjectPool; here *)
(* nobody iterates, so an object dies with its last owner.  A pointer that *)
(* is a member of an object may be used by a call during which that object *)
(* dies, as in p = p->next: what the call then reads and writes is memory  *)
(* behind the object's end.                                                *)
(***************************************************************************)
EXTENDS Integers, Sequences, FiniteSets, SequencesExt

CONSTANTS PtrObjects, SharedPlaces, WeakPlaces, NoTarget

ASSUME PoolPointersAssumption ==
  IsFiniteSet(PtrObjects) /\ NoTarget \notin PtrObjects /\ SharedPlaces \cap WeakPlaces = {}

VARIABLES
  ppShared,              \* the owning pointers: variables, and the member of each object
  ppWeak,                \* the observing pointers
  ppStrong, ppWeakCount, \* ref_count_: strong is -1 when no object is alive
  ppTold,                \* what the last lock or upgrade answered: [asked, got]
  ppBroken               \* history: a call used a pointer after its end, and not harmlessly

ptrVars == <<ppShared, ppWeak, ppStrong, ppWeakCount, ppTold, ppBroken>>

MemberOf(o) == <<"member", o>>
Places == SharedPlaces \cup {MemberOf(o) : o \in PtrObjects}

\* A pointer: the object it keeps, and what it refers to, the object or a part of it.
Null == [managed |-> NoTarget, object |-> NoTarget]
To(o) == [managed |-> o, object |-> o]
Part(o) == <<"part", o>>
TargetAlive(o) == ppStrong[o] >= 0
Living(place) == \A o \in PtrObjects : place = MemberOf(o) => TargetAlive(o)
Asked == [asked |-> NoTarget, got |-> NoTarget]

PtrInit ==
  /\ ppShared = [p \in Places |-> Null] /\ ppWeak = [w \in WeakPlaces |-> Null]
  /\ ppStrong = [o \in PtrObjects |-> -1] /\ ppWeakCount = [o \in PtrObjects |-> 0]
  /\ ppTold = Asked /\ ppBroken = FALSE

(***************************************************************************)
(* The counters                                                            *)
(***************************************************************************)

Counters == [shared |-> ppShared, strong |-> ppStrong, weak |-> ppWeakCount, dropped |-> NoTarget]

\* decrement_strong_ref: the last owner destroys the object, and with it the owner that is its member.
DropOne(s) ==
  LET o == s.dropped
  IN IF o = NoTarget THEN s
     ELSE IF s.strong[o] > 1 THEN [s EXCEPT !.strong[o] = @ - 1, !.dropped = NoTarget]
     ELSE [shared |-> [s.shared EXCEPT ![MemberOf(o)] = Null], strong |-> [s.strong EXCEPT ![o] = -1],
           weak |-> [s.weak EXCEPT ![o] = @ - 1], dropped |-> s.shared[MemberOf(o)].managed]

Dropped(s, o) == FoldLeft(LAMBDA t, k : DropOne(t), [s EXCEPT !.dropped = o], [k \in 1 .. Cardinality(PtrObjects) + 1 |-> k])

Raised(s, o) == IF o = NoTarget THEN s ELSE [s EXCEPT !.strong[o] = @ + 1]
Put(s, place, pointer) == [s EXCEPT !.shared[place] = pointer]

Commit(s) ==
  /\ ppShared' = s.shared /\ ppStrong' = s.strong /\ ppWeakCount' = s.weak
  /\ ppTold' = Asked
  /\ UNCHANGED <<ppWeak, ppBroken>>

\* Counters, links or pointers are no longer what the calls that follow take them for.
Break == ppBroken' = TRUE /\ UNCHANGED <<ppShared, ppWeak, ppStrong, ppWeakCount, ppTold>>

\* The pointer is a member of an object that the drop has destroyed.
Ended(s, place) == \E o \in PtrObjects : place = MemberOf(o) /\ TargetAlive(o) /\ s.strong[o] = -1

\* A destructor leaves the fields of the pointer as they were, but the link of the free list, into which an
\* entry goes that nobody observes, may be written over them.
Overwritten(s, place) == \E o \in PtrObjects : place = MemberOf(o) /\ s.weak[o] = 0
Lost(s, o) == o # NoTarget /\ s.strong[o] = -1

(***************************************************************************)
(* Owners                                                                  *)
(***************************************************************************)

\* emplace: the object gets one owner, and an observer for itself.
Emplace(o, place) ==
  /\ ppStrong[o] = -1 /\ ppWeakCount[o] = 0 /\ ppShared[place] = Null
  /\ Commit(Put([Counters EXCEPT !.strong[o] = 1, !.weak[o] = 1], place, To(o)))

CopyConstruct(to, from) ==
  /\ ppShared[to] = Null
  /\ Commit(Put(Raised(Counters, ppShared[from].managed), to, ppShared[from]))

\* The aliasing constructor, behind the casts too: of nothing, or to nothing, it makes a pointer to nothing.
Alias(to, from, object) ==
  LET o == ppShared[from].managed
  IN /\ ppShared[to] = Null
     /\ IF NoTarget \in {o, object, ppShared[from].object} THEN Commit(Counters)
        ELSE Commit(Put(Raised(Counters, o), to, [managed |-> o, object |-> object]))

MoveConstruct(to, from) ==
  /\ ppShared[to] = Null /\ to # from
  /\ Commit(Put(Put(Counters, to, ppShared[from]), from, Null))

MutantSameTarget(to, from) == FALSE

SameTarget(to, from) == ppShared[to].managed = ppShared[from].managed

\* The old target is dropped before the other pointer is read.  A pointer that ended with that target is
\* read behind its end: what it said is still there or has been overwritten, and is right only if somebody else
\* keeps what it kept.  If the assigned pointer ended itself, its own destructor has dropped the target again.
CopyAssign(to, from) ==
  LET s    == Dropped(Counters, ppShared[to].managed)
      kept == ppShared[from].managed
  IN IF SameTarget(to, from) THEN Commit(Put(Counters, to, [ppShared[to] EXCEPT !.object = ppShared[from].object]))
     ELSE \/ /\ ~Ended(s, to) /\ (Ended(s, from) => ~Lost(s, kept))
             /\ Commit(Raised(Put(s, to, ppShared[from]), kept))
          \/ /\ Ended(s, to) \/ (Ended(s, from) /\ (Overwritten(s, from) \/ Lost(s, kept)))
             /\ Break

\* Two pointers of one target leave it one owner less.  Taking over what a pointer kept that has ended takes an
\* ownership its destructor gave up, and it is set to nothing where the entry's link may be.
MoveAssign(to, from) ==
  LET s == Dropped(Counters, ppShared[to].managed)
  IN /\ to # from
     /\ \/ /\ ~Ended(s, to) /\ (Ended(s, from) => ppShared[from] = Null)
           /\ Commit(Put(Put(s, to, ppShared[from]), from, Null))
        \/ /\ Ended(s, to) \/ (Ended(s, from) /\ (Overwritten(s, from) \/ ppShared[from] # Null))
           /\ Break

Swap(p, q) ==
  /\ p # q
  /\ Commit(Put(Put(Counters, p, ppShared[q]), q, ppShared[p]))

\* The target is dropped before the pointer forgets it: a pointer that ends meanwhile has dropped it twice.
Reset(place) ==
  LET s == Dropped(Counters, ppShared[place].managed)
  IN /\ ppShared[place] # Null
     /\ IF Ended(s, place) THEN Break ELSE Commit(Put(s, place, Null))

(***************************************************************************)
(* Observers                                                               *)
(***************************************************************************)

Observed(counts, o) == IF o = NoTarget THEN counts ELSE [counts EXCEPT ![o] = @ + 1]
Forgotten(counts, o) == IF o = NoTarget THEN counts ELSE [counts EXCEPT ![o] = @ - 1]

\* From an owner or another observer, constructed over nothing or assigned.
ObserveTarget(w, pointer) ==
  /\ ppWeak' = [ppWeak EXCEPT ![w] = IF @.managed = pointer.managed THEN [@ EXCEPT !.object = pointer.object] ELSE pointer]
  /\ ppWeakCount' = IF ppWeak[w].managed = pointer.managed THEN ppWeakCount
                    ELSE Observed(Forgotten(ppWeakCount, ppWeak[w].managed), pointer.managed)
  /\ ppTold' = Asked
  /\ UNCHANGED <<ppShared, ppStrong, ppBroken>>

MoveObserver(to, from) ==
  /\ to # from
  /\ ppWeakCount' = Forgotten(ppWeakCount, ppWeak[to].managed)
  /\ ppWeak' = [ppWeak EXCEPT ![to] = ppWeak[from], ![from] = Null]
  /\ ppTold' = Asked
  /\ UNCHANGED <<ppShared, ppStrong, ppBroken>>

SwapObservers(v, w) ==
  /\ v # w
  /\ ppWeak' = [ppWeak EXCEPT ![v] = ppWeak[w], ![w] = ppWeak[v]]
  /\ ppTold' = Asked
  /\ UNCHANGED <<ppShared, ppStrong, ppWeakCount, ppBroken>>

ResetObserver(w) ==
  /\ ppWeak[w] # Null
  /\ ppWeakCount' = Forgotten(ppWeakCount, ppWeak[w].managed)
  /\ ppWeak' = [ppWeak EXCEPT ![w] = Null]
  /\ ppTold' = Asked
  /\ UNCHANGED <<ppShared, ppStrong, ppBroken>>

\* upgrade_ref, for lock, which answers nothing, and for the constructor, which throws, when the object is dead.
LockWeak(w, place) ==
  /\ ppShared[place] = Null
  /\ LET o   == ppWeak[w].managed
         got == IF o # NoTarget /\ TargetAlive(o) THEN ppWeak[w] ELSE Null
         s   == Put(Raised(Counters, got.managed), place, got)
     IN /\ ppShared' = s.shared /\ ppStrong' = s.strong
        /\ ppTold' = [asked |-> o, got |-> got.managed]
  /\ UNCHANGED <<ppWeak, ppWeakCount, ppBroken>>

PtrStep ==
  \/ \E p \in {q \in Places : Living(q)} :
       \/ \E o \in PtrObjects : Emplace(o, p)
       \/ \E q \in {r \in Places : Living(r)} :
            \/ CopyConstruct(p, q) \/ MoveConstruct(p, q)
            \/ \E object \in {Part(o) : o \in PtrObjects} \cup {NoTarget} :
                 object \in {Part(ppShared[q].managed), NoTarget} /\ Alias(p, q, object)
            \/ CopyAssign(p, q) \/ MoveAssign(p, q) \/ Swap(p, q)
       \/ Reset(p)
       \/ \E w \in WeakPlaces : ObserveTarget(w, ppShared[p]) \/ LockWeak(w, p)
  \/ \E v, w \in WeakPlaces : ObserveTarget(v, ppWeak[w]) \/ MoveObserver(v, w) \/ SwapObservers(v, w)
  \/ \E w \in WeakPlaces : ResetObserver(w)

PtrNext == IF ppBroken THEN UNCHANGED ptrVars ELSE PtrStep

(***************************************************************************)
(* Properties                                                              *)
(***************************************************************************)

\* Whatever is done with the pointers, the counters say how many there are: an object lives as long as an
\* owner has it, and its entry is kept as long as somebody observes it.
CountsMatch ==
  \A o \in PtrObjects :
    LET owners    == Cardinality({p \in Places : ppShared[p].managed = o /\ Living(p)})
        observers == Cardinality({w \in WeakPlaces : ppWeak[w].managed = o})
    IN /\ ppStrong[o] = IF owners = 0 THEN -1 ELSE owners
       /\ ppWeakCount[o] = observers + IF owners = 0 THEN 0 ELSE 1

\* A pointer refers into the object it keeps alive.
PointersIntoTarget ==
  /\ \A p \in Places : ppShared[p].object \in
       IF ppShared[p].managed = NoTarget THEN {NoTarget} ELSE {ppShared[p].managed, Part(ppShared[p].managed)}
  /\ \A o \in PtrObjects : ~TargetAlive(o) => ppShared[MemberOf(o)] = Null

\* An observer is given the object exactly as long as it is alive, never another one in the same entry.
LockTellsTruth == ppTold.asked # NoTarget => (ppTold.got = ppTold.asked <=> TargetAlive(ppTold.asked))

\* Until a call has used a pointer after its end, and not harmlessly, all of this holds.  Such calls are those on
\* a member that drop the last owner of the object it belongs to: p = p->next is one, though the interface
\* follows that of std::shared_ptr, which allows it.  It is harmless exactly where the entry is observed, so that
\* the fields stay, and somebody else owns what the member kept.
PointersSafe == ppBroken \/ (CountsMatch /\ PointersIntoTarget /\ LockTellsTruth)
=============================================================================
