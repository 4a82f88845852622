-------------------------- MODULE SmallContainers --------------------------
(***************************************************************************)
(* Four containers of the core, each with its own variables and actions:   *)
(* dynamic_array, whose elements may throw while they are constructed;     *)
(* scratch_pad_pool, which hands out buffers to several threads;           *)
(* per_thread_index, which gives each thread a slot; and                   *)
(* simple_smart_object_pool with its phases.                               *)
(***************************************************************************)
EXTENDS Integers, Sequences, FiniteSets, SequencesExt

CONSTANTS Arrays, MaxArray, PadThreads, MaxPads, SlotThreads, TotalSlots, SimpleObjects, Nobody

ASSUME SmallContainersAssumption ==
  {MaxArray, MaxPads, TotalSlots} \subseteq Nat /\ Nobody \notin Nat

VARIABLES
  daSize, daLive,        \* size_, and the elements that are alive
  daThrown, daTwice,     \* whether an assignment has thrown, and whether an element was destroyed twice
  padPool, padHeld,      \* the stack of pads, and the pad of each thread
  padUsed, padMade,      \* the pads that have content, and how many there are
  slUsed, slOwners,      \* used_slots_, owners_
  slThread,              \* the calls of slot_index
  spObjects, spPending,  \* objects_, pending_objects_
  spOwners               \* pointers outside the pool

daVars  == <<daSize, daLive, daThrown, daTwice>>
padVars == <<padPool, padHeld, padUsed, padMade>>
slVars  == <<slUsed, slOwners, slThread>>
spVars  == <<spObjects, spPending, spOwners>>

(***************************************************************************)
(* dynamic_array                                                           *)
(***************************************************************************)

DaInit ==
  /\ daSize = [a \in Arrays |-> 0] /\ daLive = [a \in Arrays |-> {}]
  /\ daThrown = FALSE /\ daTwice = FALSE

\* free() destroys what size_ counts.
Freed(a) == 1 .. daSize[a]
FreesTwice(a) == \E i \in Freed(a) : i \notin daLive[a]

\* A constructor: when an element throws those before it are destroyed, and there is no array.
ConstructArray(a, n, thrower) ==
  /\ daSize[a] = 0 /\ daLive[a] = {}
  /\ thrower \in 1 .. n + 1
  /\ daSize' = [daSize EXCEPT ![a] = IF thrower > n THEN n ELSE 0]
  /\ daLive' = [daLive EXCEPT ![a] = IF thrower > n THEN 1 .. n ELSE {}]
  /\ UNCHANGED <<daThrown, daTwice>>

\* Copy assignment destroys the old elements first. When the allocation or an element throws the size
\* still counts elements that are gone.
CopyAssignArray(a, b, thrower) ==
  /\ a # b /\ thrower \in 0 .. daSize[b] + 1
  /\ thrower = 0 => daSize[a] # daSize[b]
  /\ daTwice' = (daTwice \/ FreesTwice(a))
  /\ daSize' = [daSize EXCEPT ![a] = IF thrower = 0 THEN @ ELSE thrower - 1]
  /\ daLive' = [daLive EXCEPT ![a] = IF thrower > daSize[b] THEN 1 .. daSize[b] ELSE {}]
  /\ daThrown' = (daThrown \/ thrower <= daSize[b])

MutantLeft(a) == daSize[a]

\* What a move leaves behind.
Left(a) == 0

\* Onto itself it loses the elements, but destroys them once.
MoveAssignArray(a, b) ==
  /\ daTwice' = (daTwice \/ FreesTwice(a))
  /\ daSize' = IF a = b THEN [daSize EXCEPT ![a] = Left(a)] ELSE [daSize EXCEPT ![a] = daSize[b], ![b] = Left(b)]
  /\ daLive' = IF a = b THEN [daLive EXCEPT ![a] = {}] ELSE [daLive EXCEPT ![a] = daLive[b], ![b] = {}]
  /\ UNCHANGED daThrown

SwapArrays(a, b) ==
  /\ a # b
  /\ daSize' = [daSize EXCEPT ![a] = daSize[b], ![b] = daSize[a]]
  /\ daLive' = [daLive EXCEPT ![a] = daLive[b], ![b] = daLive[a]]
  /\ UNCHANGED <<daThrown, daTwice>>

DestroyArray(a) ==
  /\ daSize[a] > 0
  /\ daTwice' = (daTwice \/ FreesTwice(a))
  /\ daSize' = [daSize EXCEPT ![a] = 0] /\ daLive' = [daLive EXCEPT ![a] = {}]
  /\ UNCHANGED daThrown

DaNext ==
  \E a \in Arrays :
    \/ \E n \in 0 .. MaxArray : \E t \in 1 .. n + 1 : ConstructArray(a, n, t)
    \/ \E b \in Arrays :
         \/ \E t \in 0 .. MaxArray + 1 : CopyAssignArray(a, b, t)
         \/ MoveAssignArray(a, b) \/ SwapArrays(a, b)
    \/ DestroyArray(a)

\* However arrays are made, assigned and moved, each element is destroyed once: unless a copy assignment
\* has thrown, what counts as an element is alive.
ElementsDestroyedOnce == ~daThrown => ~daTwice /\ \A a \in Arrays : daLive[a] = Freed(a)

(***************************************************************************)
(* scratch_pad_pool                                                        *)
(***************************************************************************)

PadInit == padPool = <<>> /\ padHeld = [t \in PadThreads |-> Nobody] /\ padUsed = {} /\ padMade = 0

GetPad(t) ==
  /\ padHeld[t] = Nobody
  /\ IF padPool = <<>>
     THEN padMade < MaxPads /\ padMade' = padMade + 1 /\ padHeld' = [padHeld EXCEPT ![t] = padMade + 1] /\ UNCHANGED padPool
     ELSE padHeld' = [padHeld EXCEPT ![t] = Last(padPool)] /\ padPool' = Front(padPool) /\ UNCHANGED padMade
  /\ UNCHANGED padUsed

UsePad(t) ==
  /\ padHeld[t] # Nobody /\ padHeld[t] \notin padUsed
  /\ padUsed' = padUsed \cup {padHeld[t]}
  /\ UNCHANGED <<padPool, padHeld, padMade>>

Cleared(used, pad) == used \ {pad}

\* give_back: the pad is cleared before the lock is taken.
GiveBackPad(t) ==
  /\ padHeld[t] # Nobody
  /\ padUsed' = Cleared(padUsed, padHeld[t])
  /\ padPool' = Append(padPool, padHeld[t]) /\ padHeld' = [padHeld EXCEPT ![t] = Nobody]
  /\ UNCHANGED padMade

\* The object is moved to another thread. By assignment the pad that was there is gone.
MovePad(from, to) ==
  /\ from # to /\ padHeld[from] # Nobody
  /\ padHeld' = [padHeld EXCEPT ![to] = padHeld[from], ![from] = Nobody]
  /\ padUsed' = padUsed \ {padHeld[to]}
  /\ UNCHANGED <<padPool, padMade>>

PadNext == \E t \in PadThreads : GetPad(t) \/ UsePad(t) \/ GiveBackPad(t) \/ \E u \in PadThreads : MovePad(t, u)

\* A pad is with one thread, or once in the pool and empty: whoever gets it finds it as new.
PadsApart ==
  /\ \A t, u \in PadThreads : padHeld[t] # Nobody /\ t # u => padHeld[t] # padHeld[u]
  /\ \A i \in DOMAIN padPool :
       /\ padPool[i] \notin padUsed
       /\ \A t \in PadThreads : padHeld[t] # padPool[i]
       /\ \A j \in DOMAIN padPool : padPool[i] = padPool[j] => i = j

(***************************************************************************)
(* per_thread_index                                                        *)
(***************************************************************************)

Called == [pc |-> "idle", used |-> 0, slot |-> 0]

SlInit ==
  /\ slUsed = 0 /\ slOwners = [i \in 1 .. TotalSlots |-> Nobody]
  /\ slThread = [t \in SlotThreads |-> Called]

\* used_slots_ is read first, then the owners one after another (only the own entry matters, and nobody
\* else writes it), then it is raised, and last the owner stored.
ReadUsedSlots(t) ==
  /\ slThread[t].pc \in {"idle", "got"}
  /\ slThread' = [slThread EXCEPT ![t] = [pc |-> "search", used |-> slUsed, slot |-> 0]]
  /\ UNCHANGED <<slUsed, slOwners>>

FindSlot(t) ==
  /\ slThread[t].pc = "search"
  /\ LET mine == {i \in 1 .. slThread[t].used : slOwners[i] = t}
     IN slThread' = [slThread EXCEPT ![t] =
          IF mine = {} THEN [pc |-> "take", used |-> slUsed, slot |-> 0]
          ELSE [pc |-> "got", used |-> 0, slot |-> CHOOSE i \in mine : \A j \in mine : i <= j]]
  /\ UNCHANGED <<slUsed, slOwners>>

\* The exchange fails when another thread was faster, and the value is read again.
TakeSlot(t) ==
  /\ slThread[t].pc = "take" /\ slThread[t].used < TotalSlots
  /\ IF slThread[t].used = slUsed
     THEN slUsed' = slUsed + 1 /\ slThread' = [slThread EXCEPT ![t] = [pc |-> "own", used |-> 0, slot |-> slUsed + 1]]
     ELSE slThread' = [slThread EXCEPT ![t].used = slUsed] /\ UNCHANGED slUsed
  /\ UNCHANGED slOwners

NoSlotLeft(t) ==
  /\ slThread[t].pc = "take" /\ slThread[t].used = TotalSlots
  /\ slThread' = [slThread EXCEPT ![t] = Called]
  /\ UNCHANGED <<slUsed, slOwners>>

OwnSlot(t) ==
  /\ slThread[t].pc = "own"
  /\ slOwners' = [slOwners EXCEPT ![slThread[t].slot] = t]
  /\ slThread' = [slThread EXCEPT ![t].pc = "got"]
  /\ UNCHANGED slUsed

\* clear: nobody may be inside, and nobody uses the slot he got any longer.
ClearSlots ==
  /\ \A t \in SlotThreads : slThread[t].pc \in {"idle", "got"}
  /\ slUsed > 0
  /\ slUsed' = 0 /\ slOwners' = [i \in 1 .. TotalSlots |-> Nobody]
  /\ slThread' = [t \in SlotThreads |-> Called]

SlNext == ClearSlots \/ \E t \in SlotThreads : ReadUsedSlots(t) \/ FindSlot(t) \/ TakeSlot(t) \/ NoSlotLeft(t) \/ OwnSlot(t)

\* Two threads never get one slot, a thread always the same one, within the range that is iterated.
SlotsApart ==
  /\ \A t, u \in SlotThreads : slThread[t].slot # 0 /\ t # u => slThread[t].slot # slThread[u].slot
  /\ \A t \in SlotThreads : slThread[t].slot <= slUsed
  /\ \A i, j \in 1 .. TotalSlots : slOwners[i] # Nobody /\ i # j => slOwners[i] # slOwners[j]

(***************************************************************************)
(* simple_smart_object_pool                                                *)
(***************************************************************************)

SpInit == spObjects = <<>> /\ spPending = <<>> /\ spOwners = [o \in SimpleObjects |-> 0]

InSimplePool(o) == o \in ToSet(spObjects) \cup ToSet(spPending)

EmplaceSimple(o) ==
  /\ ~InSimplePool(o) /\ spOwners[o] = 0
  /\ spPending' = Append(spPending, o) /\ spOwners' = [spOwners EXCEPT ![o] = 1]
  /\ UNCHANGED spObjects

\* Copies are made of copies: what an iterator gives is a reference.
CopySimple(o) ==
  /\ spOwners[o] = 1
  /\ spOwners' = [spOwners EXCEPT ![o] = 2]
  /\ UNCHANGED <<spObjects, spPending>>

DropSimple(o) ==
  /\ spOwners[o] > 0
  /\ spOwners' = [spOwners EXCEPT ![o] = @ - 1]
  /\ UNCHANGED <<spObjects, spPending>>

\* The new ones join, also those that have no owner any longer, and then all without an owner go.
ProcessPending ==
  /\ spObjects' = SelectSeq(spObjects \o spPending, LAMBDA o : spOwners[o] # 0)
  /\ spPending' = <<>>
  /\ UNCHANGED spOwners

SpNext == ProcessPending \/ \E o \in SimpleObjects : EmplaceSimple(o) \/ CopySimple(o) \/ DropSimple(o)

\* An object with an owner is in the pool, once, to be seen in this phase or the next.
OwnedOnceInPool ==
  \A o \in SimpleObjects :
    LET all == spObjects \o spPending
    IN Cardinality({i \in DOMAIN all : all[i] = o}) \in IF spOwners[o] > 0 THEN {1} ELSE {0, 1}

SmallContainersSafe == ElementsDestroyedOnce /\ PadsApart /\ SlotsApart /\ OwnedOnceInPool
=============================================================================
