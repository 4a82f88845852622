-------------------------- MODULE SmartObjectPool --------------------------
(***************************************************************************)
(* containers::smart_object_pool with smart_pool_ptr and weak_pool_ptr:    *)
(* objects live in the entries of blocks that are only ever added, owned   *)
(* by counted pointers.  What changes an atomic or a list under its mutex  *)
(* is one step, so is the compare-exchange loop on a tagged count.         *)
(* A thread holds at most one pointer of a kind to an entry.  The lists    *)
(* are sets: which free entry comes next, and in which order the entries   *)
(* of a list are swept, is left open.  The destructor of an object drops   *)
(* no pointer of its own pool.  PoolRanges has limiters and ranges.         *)
(***************************************************************************)
EXTENDS Integers, FiniteSets

CONSTANTS
  Threads,
  MaxBlocks,       \* bound: blocks of the pool
  BlockSize,       \* block_size
  MaxVersion,      \* bound: a count of this version is not raised anymore
  SerialIteration, \* begin() and the drop of an iterator do not overlap
  None             \* no thread

ASSUME PoolAssumption ==
  /\ MaxBlocks \in Nat \ {0}
  /\ BlockSize \in Nat \ {0}
  /\ MaxVersion \in [(1..MaxBlocks) \X (1..BlockSize) -> Nat]
  /\ SerialIteration \in BOOLEAN
  /\ None \notin Threads
  /\ IsFiniteSet(Threads)

Blocks  == 1..MaxBlocks
Entries == Blocks \X (1..BlockSize)
End     == <<0, 0>>   \* target of a past-end iterator
NoSubject == [entry |-> End, version |-> 0]

VARIABLES
  strong,       \* ref_count_::strong of each entry, with its version
  weak,         \* ref_count_::weak
  object,       \* what is in the entry; "failed" if its constructor threw
  free,         \* the free list
  block_count,
  active,       \* active_objects of each block; that of the pool is their sum
  active_iterators,
  pending,              \* pending_destruction_list
  pending_destructions, \* is the counter above zero? it is never lowered
  pending_mutex,        \* thread that holds pending_destruction_list_mutex
  owned,      \* entries a thread has a smart_pool_ptr to
  observed,   \* entries a thread has a weak_pool_ptr to
  iterating,  \* threads with an iterator that is counted
  target,     \* where the iterator is
  pc,         \* the step of a call a thread is at, "idle" outside of calls
  subject,    \* entry and version the call is about
  todo,       \* pending entries process_deferred_destruction took
  freed,      \* entries it has yet to put on the free list
  due         \* history: entries owned since begin() and not visited yet

counts    == <<strong, weak, object, active>>
storage   == <<free, block_count>>
deferred  == <<pending, pending_destructions, pending_mutex>>
pointers  == <<owned, observed>>
iterators == <<active_iterators, iterating, target, due>>
calls     == <<pc, subject, todo, freed>>
vars      == <<counts, storage, deferred, pointers, iterators, calls>>

Init ==
  /\ strong = [e \in Entries |-> [count |-> -1, version |-> 0]]
  /\ weak = [e \in Entries |-> 0]
  /\ object = [e \in Entries |-> "none"]
  /\ active = [b \in Blocks |-> 0]
  /\ free = {}
  /\ block_count = 0
  /\ active_iterators = 0
  /\ pending = {}
  /\ pending_destructions = FALSE
  /\ pending_mutex = None
  /\ owned = [t \in Threads |-> {}]
  /\ observed = [t \in Threads |-> {}]
  /\ iterating = {}
  /\ target = [t \in Threads |-> End]
  /\ due = [t \in Threads |-> {}]
  /\ pc = [t \in Threads |-> "idle"]
  /\ subject = [t \in Threads |-> NoSubject]
  /\ todo = [t \in Threads |-> {}]
  /\ freed = [t \in Threads |-> {}]

Goto(t, step) == pc' = [pc EXCEPT ![t] = step]

Return(t) ==
  /\ Goto(t, "idle")
  /\ subject' = [subject EXCEPT ![t] = NoSubject]

\* store_tagged_ref_count and the increments and decrements: each raises the
\* version.
SetStrong(e, count) ==
  strong' = [strong EXCEPT ![e] = [count |-> count, version |-> @.version + 1]]

Entry(t) == subject[t].entry

OfBlock(b) == {b} \X (1..BlockSize)

-----------------------------------------------------------------------------
(* emplace                                                                 *)

\* The free list or, if it is empty, a new block gives an entry.
Allocate(t) ==
  /\ pc[t] = "idle"
  /\ \/ free # {} /\ UNCHANGED block_count
     \/ free = {} /\ block_count < MaxBlocks /\ block_count' = block_count + 1
  /\ LET available == IF free = {} THEN OfBlock(block_count + 1) ELSE free
     IN \E e \in available :
          /\ strong[e].version < MaxVersion[e]
          /\ free' = available \ {e}
          /\ subject' = [subject EXCEPT ![t].entry = e]
  /\ Goto(t, "creating")
  /\ UNCHANGED <<counts, deferred, pointers, iterators, todo, freed>>

\* reserve() adds a block to the free list.
Reserve(t) ==
  /\ pc[t] = "idle"
  /\ block_count < MaxBlocks
  /\ block_count' = block_count + 1
  /\ free' = free \union OfBlock(block_count + 1)
  /\ UNCHANGED <<counts, deferred, pointers, iterators, calls>>

\* create_object: an object keeps its entry with a weak reference.
Construct(t) ==
  /\ pc[t] = "creating"
  /\ weak' = [weak EXCEPT ![Entry(t)] = 1]
  /\ object' = [object EXCEPT ![Entry(t)] = "alive"]
  /\ Goto(t, "counting")
  /\ UNCHANGED <<strong, active, storage, deferred, pointers, iterators,
                 subject, todo, freed>>

\* The constructor throws: nothing gives back the entry or the reference.
ConstructorThrows(t) ==
  /\ pc[t] = "creating"
  /\ weak' = [weak EXCEPT ![Entry(t)] = 1]
  /\ object' = [object EXCEPT ![Entry(t)] = "failed"]
  /\ Return(t)
  /\ UNCHANGED <<strong, active, storage, deferred, pointers, iterators,
                 todo, freed>>

CountObject(t) ==
  /\ pc[t] = "counting"
  /\ active' = [active EXCEPT ![Entry(t)[1]] = @ + 1]
  /\ Goto(t, "publishing")
  /\ UNCHANGED <<strong, weak, object, storage, deferred, pointers, iterators,
                 subject, todo, freed>>

Publish(t) ==
  /\ pc[t] = "publishing"
  /\ SetStrong(Entry(t), 1)
  /\ owned' = [owned EXCEPT ![t] = @ \union {Entry(t)}]
  /\ Return(t)
  /\ UNCHANGED <<weak, object, active, storage, deferred, observed, iterators,
                 todo, freed>>

-----------------------------------------------------------------------------
(* Pointers                                                                *)

\* A pointer is copied, for the thread itself or to hand to another one.
CopyPointer(t, u, e) ==
  /\ pc[t] = "idle"
  /\ e \in owned[t] \ owned[u]
  /\ strong[e].version < MaxVersion[e]
  /\ SetStrong(e, strong[e].count + 1)
  /\ owned' = [owned EXCEPT ![u] = @ \union {e}]
  /\ UNCHANGED <<weak, object, active, storage, deferred, observed, iterators,
                 calls>>

\* A weak_pool_ptr is made of an owner or copied.
Observe(t, u, e) ==
  /\ pc[t] = "idle"
  /\ e \in (owned[t] \union observed[t]) \ observed[u]
  /\ weak' = [weak EXCEPT ![e] = @ + 1]
  /\ observed' = [observed EXCEPT ![u] = @ \union {e}]
  /\ UNCHANGED <<strong, object, active, storage, deferred, owned, iterators,
                 calls>>

\* weak_pool_ptr::lock: upgrade_ref, in vain once the object is destroyed.
Lock(t, e) ==
  /\ pc[t] = "idle"
  /\ e \in observed[t] \ owned[t]
  /\ strong[e].count >= 0
  /\ strong[e].version < MaxVersion[e]
  /\ SetStrong(e, strong[e].count + 1)
  /\ owned' = [owned EXCEPT ![t] = @ \union {e}]
  /\ UNCHANGED <<weak, object, active, storage, deferred, observed, iterators,
                 calls>>

\* A smart_pool_ptr is dropped; the last one has to see to the object.
DropPointer(t, e) ==
  /\ pc[t] = "idle"
  /\ e \in owned[t]
  /\ owned' = [owned EXCEPT ![t] = @ \ {e}]
  /\ SetStrong(e, strong[e].count - 1)
  /\ IF strong[e].count = 1
     THEN /\ subject' = [subject EXCEPT ![t] =
                           [entry |-> e, version |-> strong[e].version + 1]]
          /\ due' = [u \in Threads |-> due[u] \ {e}]
          /\ Goto(t, "dropped")
     ELSE UNCHANGED <<subject, due, pc>>
  /\ UNCHANGED <<weak, object, active, storage, deferred, observed,
                 active_iterators, iterating, target, todo, freed>>

\* decrement_strong_ref decides who destroys the object.
DecideDestruction(t) ==
  /\ pc[t] = "dropped"
  /\ Goto(t, IF active_iterators > 0 THEN "deferring" ELSE "destroying")
  /\ UNCHANGED <<counts, storage, deferred, pointers, iterators, subject,
                 todo, freed>>

\* try_to_destroy_object, in vain if the count was raised since: the version
\* tells.  The counters of the block and the destructor come with it.
Destroyable(e, version) == strong[e] = [count |-> 0, version |-> version]

Destroy(e) ==
  /\ SetStrong(e, -1)
  /\ active' = [active EXCEPT ![e[1]] = @ - 1]
  /\ object' = [object EXCEPT ![e] = "none"]

\* The end of a call that may hold the mutex of the pending list.
Finish(t) ==
  /\ Return(t)
  /\ pending_mutex' = IF pending_mutex = t THEN None ELSE pending_mutex

TryToDestroy(t) ==
  /\ pc[t] = "destroying"
  /\ Destroyable(Entry(t), subject[t].version)
  /\ Destroy(Entry(t))
  /\ Goto(t, "releasing")
  /\ UNCHANGED <<weak, storage, deferred, pointers, iterators, subject, todo,
                 freed>>

\* Something got a strong reference through upgrade_ref.
Rescued(t) ==
  /\ pc[t] = "destroying"
  /\ ~Destroyable(Entry(t), subject[t].version)
  /\ Finish(t)
  /\ UNCHANGED <<counts, storage, pending, pending_destructions, pointers,
                 iterators, todo, freed>>

\* The reference of the object to its entry goes, and the last reference the
\* entry.
ReleaseEntry(t) ==
  /\ pc[t] = "releasing"
  /\ weak' = [weak EXCEPT ![Entry(t)] = @ - 1]
  /\ IF weak[Entry(t)] = 1
     THEN Goto(t, "deallocating") /\ UNCHANGED <<pending_mutex, subject>>
     ELSE Finish(t)
  /\ UNCHANGED <<strong, object, active, storage, pending,
                 pending_destructions, pointers, iterators, todo, freed>>

\* A weak_pool_ptr is dropped.
DropWeak(t, e) ==
  /\ pc[t] = "idle"
  /\ e \in observed[t]
  /\ observed' = [observed EXCEPT ![t] = @ \ {e}]
  /\ weak' = [weak EXCEPT ![e] = @ - 1]
  /\ IF weak[e] = 1
     THEN /\ subject' = [subject EXCEPT ![t].entry = e]
          /\ Goto(t, "deallocating")
     ELSE UNCHANGED <<subject, pc>>
  /\ UNCHANGED <<strong, object, active, storage, deferred, owned, iterators,
                 todo, freed>>

Deallocate(t) ==
  /\ pc[t] = "deallocating"
  /\ free' = free \union {Entry(t)}
  /\ Finish(t)
  /\ UNCHANGED <<counts, block_count, pending, pending_destructions, pointers,
                 iterators, todo, freed>>

-----------------------------------------------------------------------------
(* Deferred destruction                                                    *)

\* mark_for_deferred_destruction: the iterators are looked at again under the
\* mutex.
LockPending(t) ==
  /\ pc[t] = "deferring"
  /\ pending_mutex = None
  /\ pending_mutex' = t
  /\ Goto(t, IF active_iterators > 0 THEN "marking" ELSE "destroying")
  /\ UNCHANGED <<counts, storage, pending, pending_destructions, pointers,
                 iterators, subject, todo, freed>>

\* Mutant: the mark is not counted.
MutantUncountedMark(t) ==
  /\ pc[t] = "marking"
  /\ pending' = pending \union {subject[t]}
  /\ Finish(t)
  /\ UNCHANGED <<counts, storage, pending_destructions, pointers, iterators,
                 todo, freed>>

Mark(t) ==
  /\ pc[t] = "marking"
  /\ pending' = pending \union {subject[t]}
  /\ pending_destructions' = TRUE
  /\ Finish(t)
  /\ UNCHANGED <<counts, storage, pointers, iterators, todo, freed>>

\* process_deferred_destruction, by the thread that dropped the last iterator:
\* the counter is read without the mutex.
LookForPending(t) ==
  /\ pc[t] = "looking"
  /\ Goto(t, IF pending_destructions THEN "taking" ELSE "idle")
  /\ UNCHANGED <<counts, storage, deferred, pointers, iterators, subject,
                 todo, freed>>

TakePending(t) ==
  /\ pc[t] = "taking"
  /\ pending_mutex = None
  /\ todo' = [todo EXCEPT ![t] = pending]
  /\ pending' = {}
  /\ Goto(t, "sweeping")
  /\ UNCHANGED <<counts, storage, pending_destructions, pending_mutex, pointers,
                 iterators, subject, freed>>

SweepDestroys(t, p) ==
  /\ pc[t] = "sweeping"
  /\ p \in todo[t]
  /\ Destroyable(p.entry, p.version)
  /\ Destroy(p.entry)
  /\ todo' = [todo EXCEPT ![t] = @ \ {p}]
  /\ subject' = [subject EXCEPT ![t] = p]
  /\ Goto(t, "swept")
  /\ UNCHANGED <<weak, storage, deferred, pointers, iterators, freed>>

SweepRescued(t, p) ==
  /\ pc[t] = "sweeping"
  /\ p \in todo[t]
  /\ ~Destroyable(p.entry, p.version)
  /\ todo' = [todo EXCEPT ![t] = @ \ {p}]
  /\ UNCHANGED <<counts, storage, deferred, pointers, iterators, pc, subject,
                 freed>>

SweepReleases(t) ==
  /\ pc[t] = "swept"
  /\ weak' = [weak EXCEPT ![Entry(t)] = @ - 1]
  /\ freed' = [freed EXCEPT ![t] =
                 IF weak[Entry(t)] = 1 THEN @ \union {Entry(t)} ELSE @]
  /\ subject' = [subject EXCEPT ![t] = NoSubject]
  /\ Goto(t, "sweeping")
  /\ UNCHANGED <<strong, object, active, storage, deferred, pointers,
                 iterators, todo>>

DeallocateSwept(t) ==
  /\ pc[t] = "sweeping"
  /\ todo[t] = {}
  /\ free' = free \union freed[t]
  /\ freed' = [freed EXCEPT ![t] = {}]
  /\ Return(t)
  /\ UNCHANGED <<counts, block_count, deferred, pointers, iterators, todo>>

-----------------------------------------------------------------------------
(* Iterators                                                               *)

Serialized ==
  SerialIteration =>
    \A u \in Threads :
      pc[u] \notin {"beginning", "looking", "taking", "sweeping", "swept"}

\* begin(): an empty pool gives a past-end iterator that is not counted.
Begin(t) ==
  /\ pc[t] = "idle"
  /\ t \notin iterating
  /\ Serialized
  /\ due' = [due EXCEPT ![t] = UNION {owned[u] : u \in Threads}]
  /\ Goto(t, IF \A b \in Blocks : active[b] = 0 THEN "idle" ELSE "beginning")
  /\ UNCHANGED <<counts, storage, deferred, pointers, active_iterators,
                 iterating, target, subject, todo, freed>>

CountIterator(t) ==
  /\ pc[t] = "beginning"
  /\ active_iterators' = active_iterators + 1
  /\ iterating' = iterating \union {t}
  /\ target' = [target EXCEPT ![t] = <<1, 1>>]
  /\ Goto(t, "skipping")
  /\ UNCHANGED <<counts, storage, deferred, pointers, due, subject, todo,
                 freed>>

\* skip_until_valid first asks whether the block has objects.
LookAtBlock(t) ==
  /\ pc[t] = "skipping"
  /\ Goto(t, IF active[target[t][1]] = 0 THEN "blocks" ELSE "entries")
  /\ UNCHANGED <<counts, storage, deferred, pointers, iterators, subject,
                 todo, freed>>

NextBlock(t) ==
  IF target[t][1] < block_count
  THEN target' = [target EXCEPT ![t] = <<@[1] + 1, 1>>] /\ Goto(t, "blocks")
  ELSE target' = [target EXCEPT ![t] = End] /\ Goto(t, "idle")

\* skip_empty_blocks starts at the first entry of the block it stops at.
SkipBlock(t) ==
  /\ pc[t] = "blocks"
  /\ IF active[target[t][1]] = 0
     THEN NextBlock(t)
     ELSE target' = [target EXCEPT ![t][2] = 1] /\ Goto(t, "entries")
  /\ UNCHANGED <<counts, storage, deferred, pointers, active_iterators,
                 iterating, due, subject, todo, freed>>

\* An entry whose count is positive is where the iterator stops.
SkipEntry(t) ==
  /\ pc[t] = "entries"
  /\ IF target[t][2] > BlockSize
     THEN NextBlock(t) /\ UNCHANGED due
     ELSE IF strong[target[t]].count > 0
     THEN /\ due' = [due EXCEPT ![t] = @ \ {target[t]}]
          /\ Goto(t, "idle")
          /\ UNCHANGED target
     ELSE /\ target' = [target EXCEPT ![t][2] = @ + 1]
          /\ UNCHANGED <<due, pc>>
  /\ UNCHANGED <<counts, storage, deferred, pointers, active_iterators,
                 iterating, subject, todo, freed>>

Advance(t) ==
  /\ pc[t] = "idle"
  /\ target[t] # End
  /\ target' = [target EXCEPT ![t][2] = @ + 1]
  /\ Goto(t, "skipping")
  /\ UNCHANGED <<counts, storage, deferred, pointers, active_iterators,
                 iterating, due, subject, todo, freed>>

\* An iterator is copied for another thread, as ranges do.
CopyIterator(t, u) ==
  /\ pc[t] = "idle" /\ t \in iterating
  /\ pc[u] = "idle" /\ u \notin iterating
  /\ active_iterators' = active_iterators + 1
  /\ iterating' = iterating \union {u}
  /\ target' = [target EXCEPT ![u] = target[t]]
  /\ due' = [due EXCEPT ![u] = due[t]]
  /\ UNCHANGED <<counts, storage, deferred, pointers, calls>>

\* drop_iterator: the last one processes the deferred destructions.
DropIterator(t) ==
  /\ pc[t] = "idle"
  /\ t \in iterating
  /\ Serialized
  /\ active_iterators' = active_iterators - 1
  /\ iterating' = iterating \ {t}
  /\ target' = [target EXCEPT ![t] = End]
  /\ due' = [due EXCEPT ![t] = {}]
  /\ Goto(t, IF active_iterators = 1 THEN "looking" ELSE "idle")
  /\ UNCHANGED <<counts, storage, deferred, pointers, subject, todo, freed>>

-----------------------------------------------------------------------------
\* The rest of a call a thread is in.
Continue(t) ==
  \/ Construct(t)
  \/ ConstructorThrows(t)
  \/ CountObject(t)
  \/ Publish(t)
  \/ DecideDestruction(t)
  \/ TryToDestroy(t)
  \/ Rescued(t)
  \/ ReleaseEntry(t)
  \/ Deallocate(t)
  \/ LockPending(t)
  \/ Mark(t)
  \/ LookForPending(t)
  \/ TakePending(t)
  \/ \E p \in todo[t] : SweepDestroys(t, p) \/ SweepRescued(t, p)
  \/ SweepReleases(t)
  \/ DeallocateSwept(t)
  \/ CountIterator(t)
  \/ LookAtBlock(t)
  \/ SkipBlock(t)
  \/ SkipEntry(t)

Iterate(t) == Begin(t) \/ Advance(t) \/ DropIterator(t)

Next ==
  \E t \in Threads :
    \/ Continue(t)
    \/ Iterate(t)
    \/ Allocate(t)
    \/ Reserve(t)
    \/ \E e \in Entries : Lock(t, e) \/ DropPointer(t, e) \/ DropWeak(t, e)
    \/ \E u \in Threads, e \in Entries : CopyPointer(t, u, e) \/ Observe(t, u, e)
    \/ \E u \in Threads : CopyIterator(t, u)

Spec == Init /\ [][Next]_vars

-----------------------------------------------------------------------------
(* Properties                                                              *)

Steps ==
  {"idle", "creating", "counting", "publishing", "dropped", "destroying",
   "releasing", "deallocating", "deferring", "marking", "looking", "taking",
   "sweeping", "swept", "beginning", "skipping", "blocks", "entries"}

Subjects == [entry : Entries \union {End}, version : Nat]

\* Types; no counter wraps below zero, only a dead object has the count -1.
TypeOK ==
  /\ strong \in [Entries -> [count : Nat \union {-1}, version : Nat]]
  /\ weak \in [Entries -> Nat]
  /\ object \in [Entries -> {"none", "alive", "failed"}]
  /\ active \in [Blocks -> Nat]
  /\ free \subseteq Entries
  /\ block_count \in 0..MaxBlocks
  /\ active_iterators \in Nat
  /\ pending \subseteq Subjects
  /\ pending_destructions \in BOOLEAN
  /\ pending_mutex \in Threads \union {None}
  /\ owned \in [Threads -> SUBSET Entries]
  /\ observed \in [Threads -> SUBSET Entries]
  /\ iterating \subseteq Threads
  /\ target \in [Threads -> (Blocks \X (1..BlockSize + 1)) \union {End}]
  /\ due \in [Threads -> SUBSET Entries]
  /\ pc \in [Threads -> Steps]
  /\ subject \in [Threads -> Subjects]
  /\ todo \in [Threads -> SUBSET Subjects]
  /\ freed \in [Threads -> SUBSET Entries]

-----------------------------------------------------------------------------
(* The inductive invariant                                                 *)

CallAt(steps, e) == \E t \in Threads : pc[t] \in steps /\ Entry(t) = e

EntrySteps ==
  {"creating", "counting", "publishing", "dropped", "deferring", "marking",
   "destroying", "releasing", "swept", "deallocating"}
Sweeping == {"looking", "taking", "sweeping", "swept"}
Seeking  == {"skipping", "blocks", "entries"}

CallsInv ==
  \A t \in Threads :
    /\ pc[t] \in EntrySteps => Entry(t) \in Entries
    /\ todo[t] # {} => pc[t] \in {"sweeping", "swept"}
    /\ \A p \in pending \union todo[t] : p.entry \in Entries

\* The calls that have an entry for themselves.
Handling == EntrySteps \ {"dropped", "deferring", "marking", "destroying"}

\* An entry without an object is free or with one call.
PlacesInv ==
  /\ \A e \in free : e[1] <= block_count /\ ~CallAt({"creating", "deallocating"}, e)
  /\ \A t \in Threads :
       /\ pc[t] \in Handling => Entry(t)[1] <= block_count
       /\ \A e \in freed[t] : /\ e[1] <= block_count
                              /\ e \notin free
                              /\ ~CallAt({"creating", "deallocating"}, e)
  /\ \A t, u \in Threads :
       t # u => /\ freed[t] \cap freed[u] = {}
                /\ pc[t] \in Handling /\ pc[u] \in Handling => Entry(t) # Entry(u)

\* Nothing refers to an entry that is free, or on its way from or to the list.
Unused(e) ==
  \/ e[1] > block_count
  \/ e \in free
  \/ \E t \in Threads : e \in freed[t]
  \/ CallAt({"creating", "deallocating"}, e)

EmptyInv ==
  \A e \in Entries :
    Unused(e) => weak[e] = 0 /\ object[e] = "none" /\ strong[e].count = -1

StagesInv ==
  \A t \in Threads :
    /\ pc[t] \in {"counting", "publishing"} => object[Entry(t)] = "alive"
    /\ pc[t] \in {"releasing", "swept"} => object[Entry(t)] = "none"

\* The weak count is that of the weak pointers, and one of the object that is
\* given back after it is destroyed.
Observers(e) == {t \in Threads : e \in observed[t]}
Occupied(e)  == object[e] # "none" \/ CallAt({"releasing", "swept"}, e)

WeakInv ==
  \A e \in Entries :
    weak[e] = Cardinality(Observers(e)) + (IF Occupied(e) THEN 1 ELSE 0)

\* The strong count is that of the owners as soon as there can be any.
Owners(e)    == {t \in Threads : e \in owned[t]}
Published(e) == object[e] = "alive" /\ ~CallAt({"counting", "publishing"}, e)

StrongInv ==
  \A e \in Entries :
    IF Published(e) THEN strong[e].count = Cardinality(Owners(e))
    ELSE strong[e].count = -1 /\ Owners(e) = {}

\* The counter of a block is that of its objects.
Counted(e) == object[e] = "alive" /\ ~CallAt({"counting"}, e)

ActiveInv ==
  \A b \in Blocks : active[b] = Cardinality({e \in OfBlock(b) : Counted(e)})

\* The version at which the last owner went is not ahead of the counter.
VersionsBound ==
  \A t \in Threads :
    pc[t] \in {"dropped", "deferring", "marking", "destroying"} =>
      subject[t].version <= strong[Entry(t)].version

\* An iterator stands on an entry unless it looks for the next one.
Stands(t) == target[t] # End /\ pc[t] \notin Seeking

IteratorsInv ==
  /\ active_iterators = Cardinality(iterating)
  /\ \A t \in Threads :
       /\ t \notin iterating => target[t] = End
       /\ pc[t] \in Seeking => target[t] # End
       /\ pc[t] = "beginning" => t \notin iterating
       /\ Stands(t) => target[t] \in Entries

\* Without races of begin() and the last drop nobody iterates during a sweep.
SerialInv ==
  SerialIteration =>
    /\ (\E u \in Threads : pc[u] \in Sweeping) =>
         iterating = {} /\ \A t \in Threads : pc[t] # "beginning"
    /\ \A t \in Threads : Stands(t) => object[target[t]] = "alive"

\* Who may destroy an object at once decided so when no iterator stood on it.
StandInv ==
  \A t, u \in Threads :
    /\ pc[u] = "destroying" /\ Destroyable(Entry(u), subject[u].version)
    /\ Stands(t)
    => target[t] # Entry(u)

\* What an iteration has to visit is owned and lies before the iterator.
Ahead(t, e) ==
  \/ target[t][1] < e[1]
  \/ /\ target[t][1] = e[1]
     /\ target[t][2] <= e[2]
     /\ pc[t] \notin Seeking => target[t][2] # e[2]

DueInv ==
  \A t \in Threads : \A e \in due[t] :
    /\ strong[e].count >= 1
    /\ pc[t] # "beginning" => target[t] # End /\ Ahead(t, e)

-----------------------------------------------------------------------------
\* An object lives as long as a smart_pool_ptr to it, also one that a
\* weak_pool_ptr was upgraded to while its former last owner, or the sweep of
\* the pending list, is about to destroy it.
OwnedAlive == \A t \in Threads : \A e \in owned[t] : object[e] = "alive"

\* The entry an object, a pointer to it, or a call that still destroys or
\* releases it uses is not handed out again; it is given back once.
InUse(e) ==
  \/ object[e] # "none"
  \/ \E t \in Threads :
       \/ e \in owned[t] \union observed[t] \union freed[t]
       \/ e = Entry(t) /\ pc[t] \in {"creating", "counting", "publishing",
                                     "releasing", "deallocating", "swept"}

FreeUnused == \A e \in free : ~InUse(e)

\* create_object asserts that no object lives in its place and that nothing
\* observes it.
CreatedInEmptyPlace ==
  \A t \in Threads :
    pc[t] = "creating" => strong[Entry(t)].count = -1 /\ weak[Entry(t)] = 0

\* An iterator that stands on an object keeps it from being destroyed, although
\* its owners go.
IteratedAlive ==
  \A t \in Threads :
    pc[t] = "idle" /\ target[t] # End => object[target[t]] = "alive"

\* An object that was owned all the time from begin() until the iterator passes
\* the end has been visited: the counters of the blocks never hide it.
IterationComplete ==
  \A t \in Threads :
    (target[t] = End /\ pc[t] # "beginning") => due[t] = {}

\* The destruction of an object without owners is never forgotten, whatever
\* comes between the drop of its last owner, the iterators and upgrades: a
\* thread is on its way to destroy or to mark it, or the next last iterator will
\* find it in the pending list.
DestructionDue ==
  \A e \in Entries :
    object[e] = "alive" /\ strong[e].count = 0 =>
      LET duty == [entry |-> e, version |-> strong[e].version]
      IN \/ duty \in pending /\ pending_destructions
         \/ \E t \in Threads :
              \/ duty \in todo[t]
              \/ /\ subject[t] = duty
                 /\ pc[t] \in {"dropped", "deferring", "marking", "destroying"}

\* The inductive invariant; the last part needs nothing but the counts.
PoolInv ==
  /\ TypeOK /\ CallsInv /\ PlacesInv /\ EmptyInv /\ StagesInv
  /\ WeakInv /\ StrongInv /\ ActiveInv /\ VersionsBound
  /\ IteratorsInv /\ SerialInv /\ StandInv /\ DueInv /\ DestructionDue

\* All of it holds at once: objects live as long as owners and iterators, entries are used by one of them,
\* no iteration misses an object and no destruction is forgotten.
ObjectsSafe == PoolInv /\ OwnedAlive /\ FreeUnused /\ CreatedInEmptyPlace /\ IteratedAlive /\ IterationComplete
=============================================================================
