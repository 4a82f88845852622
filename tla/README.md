# Multi-Core Engine: specification

TLA+ modules, TLC configurations and TLAPS proofs for the C++ sources of the
Multi-Core Engine. Paths are relative to the repository; `core/` stands for
`src/multicore_engine_core/`, `renderer/` for `src/multicore_engine_renderer/`.
`PROJECT.json` lists every component with its status, every run, every theorem,
which lines each definition models, and the hazards with the properties that cover them.

## The system

| Component | State | Hard because | Modules |
|---|---|---|---|
| asset (`core/include/mce/asset/asset.hpp`) | atomic state, data, handlers, mutex, condition variable | the state is read outside the mutex, handlers run outside it | `Asset`, `AssetPromise` |
| load unit (`load_unit.hpp/.cpp`, `load_unit_asset_loader.cpp`) | state, meta data, payload, three handler lists | two load ownerships, posted tasks against a synchronous hint | `LoadUnit` |
| asset manager (`asset_manager.hpp/.cpp`) | cache under a reader-writer lock, task pool, loaders | double-checked insertion, tasks that block in a finite pool, reference counts read by the cleaner | `AssetManager` |
| `ring_chunk_placer` | three positions in a buffer | wrap-around, full against empty, unsigned arithmetic | `RingPositions`, `RingChunkPlacer` |
| `transfer_manager` | staging buffer, job lists, positions per frame, callbacks | space freed a ring of frames later, reallocation | `TransferManager` |
| `smart_object_pool`, its pointers, iterators and ranges | blocks, free and pending lists, tagged counts | lock-free counts, destruction during iteration | `SmartObjectPool`, `PoolPointers`, `PoolRanges` |
| `unordered_object_pool` | blocks, free list inside the entries | entries are filled outside the lock | `UnorderedPool` |
| `byte_buffer_pool`, `callback_pool` | current buffer, stash, counts of pieces | counts lowered without the lock | `BufferPools` |
| small containers, flat and dual maps | arrays, pads, slots, one or two containers of pairs | operations that throw half way | `SmallContainers`, `SortedKeys`, `FlatMap`, `DualMap`, `KeyedValues` |
| tools of threads (`core/include/mce/util/`) | queue, monitor, versions, functors, locks, statistics | notification after unlock, lost updates | `SyncTools`, `Statistics` |
| entities and their texts | maps, pool, read-only mode; configurations | overlapping stores, renumbering, inheritance | `Entities`, `EntityText` |
| configuration store | variables, files | saving while others assign | `ConfigStore` |
| engine, game states, windows, input, simulation | systems, stack of states, callbacks, keys of two frames | operations out of the callbacks they trigger | `GameStates`, `GlfwWindows`, `InputFrames` |
| streams, pack files, generators | files, positions, opened sources | files that change, readers that share a pool | `PackFiles` |
| device memory, images, descriptors | free ranges, native objects, blocks of sets | pieces and blocks that must add up, views of parts | `DeviceMemory`, `Images`, `DescriptorSets` |
| graphics manager, framebuffers, pipelines | named objects, pending pipelines, configurations | a name that stays half made, pointers into copied arrays | `GraphicsManager` |
| textures, models, libraries, materials | state, handlers, counter of libraries | handlers that call back at once, locks held around calls | `Resource`, `Material` |
| frame loop (`graphics_system`, `destruction_queue_manager`) | slots, fences, semaphores, queues of what retires | objects must outlive the submissions that use them | `RenderFrames` |
| renderer | components, meshes of a frame, command buffers per thread | models arrive while a frame is collected | `FrameRecording` |

Assets are created by the manager, which asks its loaders to fill them. The load
unit loader registers a closure at a load unit for every asset it finds there and
settles the assets when the payload arrives, on a pool thread or on the thread of
a synchronous caller. Textures, models and libraries load one asset each; materials
load libraries and textures. What must be on the device goes to the
`transfer_manager`, which places it into a staging ring with the `ring_chunk_placer`
and frees it when the frame that copied it has come around. Handles of device objects
end in a `destruction_queue_manager`, which keeps them until the slot comes around.
Game states and systems are called by the engine loop on the main thread.

## Modules

Every module begins with what it models and what it leaves out. A variable bears the
name of the member it stands for, with a prefix where several modules meet in one run. An
action is one handler, one critical section or one step between two synchronisation
points; which of these the module says. `pc[t]`-like variables tell where
thread `t` is inside a call. What a thread holds (pointers, iterators, pieces) is state,
so that properties can speak of it.

* **`AssetPromise`** - what an asset promises: it is settled once, as ready or as
  error, and everybody who registered is answered once, after it was settled. The
  abstract specification of `Asset`, of `LoadUnit` and of `Resource`.
* **`KeyedValues`** - what maps and multimaps promise; `FlatMap` and `DualMap` are checked
  against it and against each other.
* **`RingPositions`** - the arithmetic of the ring as operators on a record of positions,
  in the order of the tests of `find_pos` and in the arithmetic of `size_t`, with lemmas
  about them. `RingChunkPlacer` and `TransferManager` are clients of it.
* **`PackFiles`** contains the binary streams, **`GraphicsManager`** the
  pipeline configurations, **`DescriptorSets`** also amounts of descriptors, uniform
  buffers, queued handles and chained updates: parts that share data but not state.
* **`*Proofs`** - theorems about the modules they extend.
* **`MC*`** - instances for TLC. The parts of `MCManagers`, `MCContainers`,
  `MCStructures`, `MCRendering` and `MCCore` do not meet: the first state chooses one, and the
  others stay as they are. `MCAsset*` and `MCLoadUnit` instantiate `Asset` and `LoadUnit`
  directly.

The map lists one row for each operation; tuples of variables and small helpers that
share the lines of an operation have none of their own.

### What is abstracted

* The order of handlers, of free entries and of free descriptor sets is open where
  nothing promises it. Exceptions that handlers throw are dropped by the code and left out.
* Contents are model values: a file is good, missing or does not parse; a number in a text
  is readable or not; a velocity is a number or not. Formats and usage flags are handed through.
* `AssetManager` takes the settling of an asset as one step: what happens inside is the subject
  of `Asset` and `LoadUnit`. A wait there has the steps between which a notification is missed, and
  the mutex that the reader of meta data that does not parse never gives back. `Material` takes libraries
  and textures as what they promise. `PoolRanges` and `PoolPointers` take an operation of
  the pool as one step, as `SmartObjectPool` has its interleavings. A call through a pointer that is
  a member of an object which dies during the call (`p = p->next`) reads behind the end of that object; unless
  the entry is still observed and somebody else owns what the member kept, nothing is said of what follows (`ppBroken`).
* What follows is left out after: a removal of a callback that is not there, which erases the end of a list
  (`gwUndefined`); a failed assertion (`dualAborted`); a frame that reads beyond the meshes of a
  component (phase `"undefined"`).
* `RingChunkPlacer` and `TransferManager` are the build without assertions: with them
  `assert(out_pos_ <= wrap_size_)` in `free_to` fails when chunks behind the last wrap are freed. `DualMap`
  has both builds: with assertions a map that is assigned by moving ends the program.
  What is copied is left out; a chunk is where it lies.
* What a spin lock protects is one step. A compare-and-exchange loop is one step, since
  a failing turn changes nothing.
* External code (the operating system's threads, GLFW, the Vulkan device, compression, Boost's
  grammars) is modelled by how `src/` uses it: a device executes submissions of one queue in
  order and signals fences, GLFW reports events on the main thread and errors on any.

## Runs

| Run | Instance | Shows |
|---|---|---|
| `MCAsset` | 2 registrants, 2 synchronous loaders, 1 posted loader, 1 worker, 1 spurious wakeup | `IInv`, the inductive invariant; `Asset` implements `AssetPromise`; every handler pair is answered; synchronous loads return unless loading fails |
| `MCLoadUnit` | 1 asset with and 1 without hint, pin and payload task, 1 pinning client | `UnitSafe`: the unlocked search of the meta data is undisturbed, one unit answers for an asset, states move forward; the unit implements `AssetPromise`; waiters of meta data return unless they overslept the error of a missing file or the meta data is corrupt, pinning clients are answered unless it is corrupt |
| `MCManagers` | asset manager: 3 clients, 2 workers, a file and a load unit; transfers: uploads of 2, 3, 4, 7, the third aligned to 4, in a buffer of 6, 3 slots in any order | `ManagerSafe`: one object per name, no orphaned request; `TransfersSafe`: no upload lost or doubled, staging buffers outlive their reading, staged data too until the placer underflows or a slot is used out of turn, callbacks come after the transfer; requests are answered unless their answerer overslept an error, is locked out, or the pool has no worker left; uploads are completed unless their job can never be placed or the slot of their frame never comes back |
| `MCContainers` | 2 threads and 2 blocks of a pool, pointers of 2 objects, ranges over 2 blocks, arrays, pads, slots, images, a store of 2 variables, texts of up to 2 elements with an include | `ObjectsSafe`, `PointersSafe`, `ArraysAndImagesSafe`, `ConfigSafe`, `EntityTextSafe`; no deadlock |
| `MCStructures` | 2 blocks of 8 bytes and 4 kinds of requests; maps of up to 3 of 3 keys | `MemorySafe`: every byte is free or in one allocation; `MapsSafe`, `FlatKeepsValues`: maps stay sorted and keep the values of other keys; `DualIsFlat`: two containers behave like one; `CleanupKeeps`: cleaning frees nothing that is used |
| `MCRendering` | each kind of resource with 2 clients; a material of 2 libraries and 2 textures; 4 frames on 3 slots with an object; descriptor sets and uniform buffers in up to 3 blocks, 2 handles on 3 native objects | `ResourceSafe`, `MaterialSafe`, `FramesSafe`, `DescriptorsSafe`; resources keep `AssetPromise`; clients are told unless the code locks itself out |
| `MCCore` | the remaining parts, 2 or 3 actors each (`MCCore.cfg`) | `UPoolSafe`, `EntitiesSafe`, `StatesAndInputSafe`, `BpSafe`, `PlacerSafe`, `FilesSafe`, `ManagedObjectsSafe`, `RecordingSafe`, `SyncSafe`, `StatisticsSafe`; what is loaded is what was stored (`LoadRestores`) |
| `MCAssetLostWakeup` | 1 registrant, 2 synchronous loaders | violated: a failing load may leave a synchronous loader asleep |
| `MCSmartObjectPoolRace` | `MCContainers` with iterators begun and dropped at any time | violated: an object is destroyed under an iterator |
| `MCRenderingDestroyed` | `MCRendering` | violated: an object dropped in a transfer callback is destroyed while a submission that acquires it is in flight |
| `MCCoreReload` | `MCCore` | violated: names of reloaded entities lead to the old numbers |
| `MCCoreNotified` | `MCCore` | violated: a component is notified after its destructor has finished |

The invariants of a part are conjunctions of named properties, which the modules state one
by one: `ArraysAndImagesSafe` and `MapsSafe` are put together in the `MC` modules, `StatesAndInputSafe` at the
end of `InputFrames`, the others at the end of their own.

### Bounds

Two threads of a role that can race with itself are enough for every race of neighbours
and for mutual exclusion; a third is there where a bystander matters: a sleeper of
the message queue beside the thread it was meant for, a client that cleans between two
that race for a name, a thread without a slot. Two workers let one block and one go on,
which is the boundary between answered and
starved: two futures take them both while the payload they wait for is queued behind. Eight bytes with chunks up to seven, aligned
to one or four, let the ring wrap, run full, run empty at every offset, wrap again with stale positions, and
underflow. Four uploads, one larger than the buffer and one whose padding may not fit, reallocate it, wait for
a frame and for space, and underflow; three slots keep two frames in flight while a third is recorded, and can be used
out of turn. Version 4 of a tagged
count lets an object be dropped, upgraded and dropped again while the first drop is
undecided, and its entry be used again. Three buffers let one be current, one stashed and
one reclaimed. Four frames on three slots bring a slot around and one beyond. Threads (`MCContainers`), handles and maps
(`MCStructures`) are symmetric where nothing but their names tells them apart and no liveness is checked. Each bound is a
named constant (`Max*`, or the size of a set) with its value in the `.cfg`; a bound that
stands for something finite in the code (memory for buffers, versions or entries) makes the operation fail or wait as
it would there.

Slots come in any order but the same twice in a row: the index of the acquired image is passed to
`start_frame` (`graphics_system.cpp:111`), and mailbox, which promises no order, is the first present mode the engine asks for
(`:218`). `TransferManager` remembers when a slot was used out of turn (`outOfTurn`), as `free_to` may then free what a frame in flight
reads, and both it and `RingChunkPlacer` remember when `ring_chunk_placer.cpp:37` has subtracted below zero (`underflowed`), as a chunk
is placed past the end then.

Bounds in the `MC` modules, which leave out what other behaviours show as well: in `MCManagers` all but one client ask for the
asset in the unit (`FewNames`), something is dropped only while a clean task is under way (`CleanPending`), and uploads are called in an order in which the
largest is last and the smallest precedes the next (`InOrderOfSize`); in `MCCore` windows come and go next to one callback
(`OneCallback`), two callbacks without windows (`NoWindow`). Iterators do not overlap their begin
and their last drop (`SerialIteration`) as long as one engine state at a time iterates
over a pool, which is how the states of the repository use them.

### Fairness

Every thread is weakly fair in its steps: the operating system schedules threads that can
run, and a mutex that is free is eventually obtained. Libraries and textures of a material
end, as their own specification promises. The render loop starts frame after frame and the
device completes what was submitted, in order. There is no fairness for dropping an
asset, ending a manager, an upload or waking up spuriously (`WakesAgain`, `WaitSpuriousWakeup`): nobody has to do these. Nor is there
any for one slot, since no present mode promises that an image comes back: an upload may wait for its slot for ever (`Waits`). Threads end, so runs
over threads do not check for deadlock; a thread that waits for ever is what
the liveness properties find. `MCContainers`, whose parts go on for ever, checks it.

## Proofs

All theorems hold for every value of the constants that the `ASSUME`s of the modules allow,
and TLC evaluates those on every run. A theorem has three parts: the initial states satisfy the
invariant, each action keeps it (one lemma per action or group of actions), and it implies the
property.

| Module | Theorems | For |
|---|---|---|
| `AssetProofs` | `Invariance`, `TypeCorrect`, `AtMostOnce`, `UnlockedLoopSafe`, `NothingStranded`, `ReadyMeansData`, `FinalForever`, `Refinement` | any threads |
| `LoadUnitProofs` | `UnitInvariance`, `UnitCorrect`, `UnitRefinement` | any assets, clients and outcomes |
| `ManagerProofs` | `ManagerInvariance`, `ManagerCorrect` | any clients, workers, names, objects |
| | `TransfersInvariance`, `TransfersTracked`, `StagingInvariance`, `TransfersCorrect` | any uploads, buffer, slots |
| `RenderingProofs` | `ResourceInvariance`, `ResourceRefinement`, `MaterialInvariance`, `MaterialCorrect`, `FramesInvariance`, `FramesCorrect` | any clients, libraries, textures, slots, resources, frames |
| `CoreProofs` | `SyncCorrect`, `BuffersCorrect`, `PoolInvariance`, `PoolCorrect`, `PoolOwnersSafe` | any threads, messages, versions, functors, locks; any pointers, sizes, alignments; any blocks of a pool |
| `RingPositions`, `CoreProofs` | lemmas; `PlacerInvariance`, `PlacerCorrect` | any buffer and number of rounds |
| `StructureProofs` | `MapsCorrect`, `FlatRefinement`, `DualRefinement` | any keys, values, bounds of two pairs or more |
| `EngineProofs` | `ManagedObjectsCorrect`, `EntitiesCorrect`, `LoadingRestores`, `StatisticsCorrect`, `StatesAndInputCorrect` | any names, kinds, attachments, images; any threads, names, components, stored streams; any samples, bounds and buckets; any instances, windows, states, systems, flyers, keys |

### The inductive invariants

**Asset** (`IInv`). `MutexInv`: the threads at locations inside a critical section are exactly
the holder. `LocationInv`: what a location tells of state and history. `OwnerInv`: only
the owner of the load, or the worker it delegated to, settles. `HandlerInv`: for
every registrant the one place its handler pair is: not yet registered, in the lists, in the loop
of the resolving thread, or called. That a registrant at `rwl_append` excludes a resolving
thread past its critical section makes the loop without the mutex safe.

**Load unit** (`UnitInv`). The same with two ownerships. `MetaInv` and `DataInv` say which thread
owns meta data and payload in each state; `ResolverInv` that no two threads answer for the unit.

**Asset manager** (`ManagerInv`). A thread that sleeps over an error, or is locked out of a unit, still owns what it loads. `LocalsFollowPlace` (what a thread found before it
released the lock, and what it still is), `CacheMatches`, `UnitHasReader`,
`UnsettledHasOwner` (an object that is not settled has a thread or a task that will settle it)
and `UnansweredIsSomewhere` (a request that has no answer waits in exactly one place).

**Ring** (`PlacerInv`). Either the placer has underflowed or `PlacedInv` holds: the live chunks lie in the space the three
positions call used, in the order of their positions, and each recorded position is at the end of a chunk. A position can
be recorded where the ring then wraps twice, and is later taken for the beginning of the
buffer: `Passed` keeps such positions apart, and with it the theorem shows that this is
harmless. Nothing is assumed of sizes and alignments. `Underflows` is the case that
`ring_chunk_placer.cpp:37` has: a chunk fits behind the last one but for its padding, and `out_pos_` lies before it.
`Word` is larger than four times the buffer, so that nothing else wraps around.

**Transfers** (`TransfersInv`, `StagingInv`). The first keeps each upload in one list and counts what each
submission and slot still has; it holds for any sizes and alignments and in whatever order slots come. The second says where staged
data lies, until the placer underflows or a slot is used out of turn: in the used space of the current buffer (`StagedInUsedSpace`), in the order of
submission (`StagedInOrder`, `EndsInOrder`), and data of older buffers, which were
reallocated meanwhile, in buffers that no slot frees before (`OlderBuffersIntact`). Both exceptions are the code's: with a slot out of turn
`free_to` may move the output position back over data in flight (`transfer_manager.cpp:158`).

**Resource** (`ResourceSafe` is inductive). `NobodyForgotten`: who registered while the
resource loads is in the lists or in the copy that the settling thread works through.

**Material** (`MaterialInv`). `CountInv`: the counter of pending libraries is the number of libraries
that were asked or are being asked and have not answered, or whose callback found the manager expired and raised the error without
counting down; which is why the last one to answer, and only it, says "not found" (`NotFoundIsTrue`). `AskingInv` and `PlacesInv` say whose turn it is,
`DescriptionInv` from which library the description came, `ReadyHasTextures`,
`OutcomeInv` and `ToldInv` that both outcomes exclude each other, but that an expired manager's error may follow
a material that was ready. Libraries are finitely many and
a material has at least one texture map, as the code has.

**Frames** (`FramesInv`). `SubmittedUses`: what a submission in flight uses waits in the queue of a slot whose
fence tells of that submission or a later one of the same queue. `UpcomingUses` says the same of the frame
that is being recorded, `TransferUses` of uploads, `BuffersApart` and `BuffersGuarded` of command buffers,
`SemaphoresInv` of semaphores. Objects dropped in the transfer callbacks of a frame are
excepted by name (`FramesSafe`), because for them the code is wrong (`MCRenderingDestroyed`).

**Tools of threads** (`SyncSafe`). `SleepersServed`: if somebody sleeps, there are at least as many threads
that are awake and will look as there are messages; it is what a notification after the
unlock could break. `ValuesInv`: each value that a monitor got is in it or with one thread. `CopiesOwn`,
`CopiesFresh`: a transaction that will be retried writes a copy that nobody else sees, and a
copy was made of the version that the exchange compares with. `LocksInv`: an object is locked by one wrapper. The queue's
threads are finitely many; first values of a monitor's users are different, to tell them apart.

**Object pool** (`PoolInv`). `WeakInv`, `StrongInv` and `ActiveInv`: each counter is the number of pointers or
objects it stands for, and one more while an object is there to hold its entry. `PlacesInv`, `EmptyInv`: an entry
without an object is in the free list or with one call, and nothing points to it. `VersionsBound`: a drop is not
ahead of the entry's version, so that an upgrade and a second drop in between make it void. `StandInv`:
who destroys at once decided so when no iterator stood on the object. `DueInv`: what was owned since `begin()` lies ahead of
the iterator. `DestructionDue`: an object without owners has a thread or a list that will destroy it.
`SerialInv` holds by `SerialIteration` and serves only `IteratedAlive`; `PoolOwnersSafe` is the rest, without it.
The counts are of finitely many threads.

**Buffer pools** (`BpSafe` is inductive). `RefsAgree`: the count of a buffer is that of the owners of its pieces
and of the pieces lost by a throwing constructor. `BuffersOnce`: a buffer is current or stashed, once.
`PiecesInside`: no piece of the current buffer reaches the place of the next one.
Together they give `PiecesApart`, though buffers are reclaimed while others count down.

**Maps** (`FlatInv`, `DualInv`). Both kinds are sorted at all times, also after a changed key and after a constructor
or an insertion that throws half way, and a map that is not a multimap has no key twice. What `lower_bound`, `upper_bound`
and the stable sort compute for every input is proved by the least place where it would be wrong (`LeastElement`,
from the library's `WFMin`): the binary search divides the keys (`BoundsDivide`), insertion sort permutes and orders them,
and the values of a key are those at its places, by rank. The refinement of `KeyedValues` follows: an insertion
behind equal keys appends to the values of its key, moving pairs of other keys keeps the ranks. `DualIsFlat` maps the
two containers to the pairs at equal positions; every operation, with the place it throws at, is one of the flat map.
`FlatAssumption` bounds the containers by at least two: one can be constructed from two pairs.

**Named graphics objects** (`GmInv`). `ObjectsInv`: an object was made after those it refers to, of the kinds it needs, and
never changes. `NamesInv`: a name holds nothing or an object of its kind, and what a call has returned for it still stands.
`PendingInv` and `RegisteredInv`: a pipeline that is pending is noted once and its config is there; one that has its name is
neither pending nor lost, and so is its config's.
`FramesInv`: each frame of a framebuffer sees the views of its own image. `AttachmentsListedOnce` is needed for it:
of two places of the swapchain in one pass, `framebuffer.cpp` gives the image to the first only.
For pipeline configurations (`PcInv`) what the device was given last is kept with the types of the
live configs: generating them fixes each pointer that copying or editing left behind.

**Entities** (`EntInv`). `EntTypeOK` says that what can be found is in the pool and belongs to no thread's half done work;
`OwnWork` that no two threads work on one entity, without which erasing in two steps does not keep it. `ModeInv`
relates the mode to the threads that store: until two overlap, at most one stores and remembers that nobody did before.
`StreamInv` has the ids of a stored stream different. For `LoadingRestores` `LoadedIs` is what loading the first
entities gives, proved for each length by induction (`NatSets`): an entity of the stream is written once, as long as no new id
collides with a later id of the stream, which the property excepts.

**Statistics** (`StatInv`, `SaveInv`). `AggregateRight` is kept by an exchange that finds the state it loaded: what
it writes is the state now with the sample added, whatever was exchanged or cleared and recorded again meanwhile
(`ExchangeAggregate`). That a sum over the samples grows by what one of them adds is `TotalChanged`, for any
finite set by induction over its subsets (`FiniteSubsets`). `EmptyIsNeutral` is needed: the first sample after a
clear becomes minimum and maximum, because an empty state holds the extremes of the type (here of `Samples`).
`CountersGrow` makes `EvaluationBounded` inductive. `SaveInv` relates what was read when the file was opened to its lines, for a save that has been
alone and whose flag was not set meanwhile (`alone`); `smMixed` says that a file has lines of others, until such a save replaces it.

**Game states, windows and input** (`GsInv`, `GwInv`, `InInv`, `AcInv`, each of its own specification). `GsInv`: while
the engine goes on only the outermost call is a phase, of a state on the stack; a state under construction is not on it yet;
its parent is below. Hooks tell the place, but to two states (`gsSkewed`): one
that was told `leave_push` for a state whose constructor threw, and one that was entered by the constructor of another, below which it was told nothing. The two orders of the systems are sorted by priority, and what
ran in a frame is a beginning of one order, the state, and a beginning of the other (`RanInPhase`).
`GwInv`: the count is that of the instances; an id leaves the list and the ids of its instance in two steps, between which it is
owned and not listed (`LeavingInv`), and the list is what is owned without those ids and those that are not in it yet; what a report has called and has left is what it began with,
so that removals meanwhile change nothing; native windows are the open ones, and every event but a dropped file is told to the callback
set for it (`EventsReach`).
`InInv`: a frame that took no time creates no task, and the cache of key names holds answers the configuration gave.
`AcInv`: an actuator's copy is of the version that was registered when it was named; what is registered was never called. `InputAssumption` says that cursor places are integers and
the velocity of a frame without time is none.

### Only model-checked

* `PointersSafe`, `ArraysAndImagesSafe`, `ConfigSafe`, `EntityTextSafe`,
  `MemorySafe`, `UPoolSafe`, `FilesSafe`, `RecordingSafe` and `DescriptorsSafe`, and the step property
  `CleanupKeeps`. Several follow a fold or a recursion
  over data (the merging of free ranges, the chain of owners that fall with an object, entity configurations). The library's induction theorems, which take an operator, cannot be instantiated by the installed provers;
  the arguments by a least counterexample or by a set of numbers, as for the maps, for loading and for statistics, have not been made for these.
* Liveness: `HandlerEventuallyRuns`, `SyncLoadReturnsOrFails`, `PinAnsweredUnlessCorrupt`, `MetaWaitersReturn`,
  `RequestsAnswered`, `CompletedUnlessStuck`, `ClientToldUnlessSelfLocked`, `ClientToldOrStuck`. The provers do
  not reach `ENABLED`, which fairness is made of.

## Where the code and its documentation part

The five violation runs show what a document, a comment or a name promises and the code does not;
`PROJECT.json` quotes both under "findings". Modelled as the code is, and worth a look beside them:

* `CompletedUnlessStuck` excepts uploads that stay in `waiting_jobs` although the whole
  buffer is free: the placer keeps its positions when it is empty, and waiting jobs do not make the buffer grow.
* `raise_error_flag` of a load unit notifies without the mutex as that of an asset does (`load_unit.hpp:210-211`): a thread that waits for meta data
  whose file is missing may sleep for ever (`Overslept`). `RequestsAnswered` excepts the requests of such threads.
* A load unit whose meta data does not parse locks its own mutex twice (`load_unit.cpp:24`);
  as many futures as there are workers starve the task they wait for (`asset_manager.cpp:97`).
* `process_pending_material_loads` calls `check_load_fails` with the lock it takes
  (`material.cpp:124`), and a texture that is ready at once calls back before its map is assigned. A library that is ready after the
  manager is gone raises the error without counting down, which may turn a ready material into a failed one and clear handler lists that
  another thread runs (`material_manager.cpp:93-98`). Of several libraries that were ready when the material was created the last overwrites what the others
  answered (`:71-80`), so that "not found" may be said of a material that one of them describes.
* `at()` of the maps throws "if the key does not exist" (`generic_flat_map.hpp:760`, `:772`, `dual_container_map.hpp:809`), and does behind the last key. In front
  of a greater key it makes the exception and does not throw it (`:765`, `:777`; `:813`, `:825`), and answers with the value of the next key (`AtMeets`).
* Assigning a dual map by moving asserts `this == &other` (`dual_container_map.hpp:91`): each real assignment ends a program with assertions.
* `smart_pool_ptr` "follows that of std::shared_ptr as closely as feasible" (`smart_pool_ptr.hpp:47`), but `p = p->next` reads `next` after its owner was destroyed
  (`:148-152`, `:176-178`), which `PointersSafe` excepts.
* `append_output` "defaults to false" (`statistics.hpp:126`, `:136`); it is initialised with true. `save` holds its mutex shared and reads the flag again at each use (`statistics.cpp:19-27`): two
  saves at once, or a flag set meanwhile, may give a file two headers or none, which `OneHeader` excepts.
* Files dropped on a window reach no callback (`window.cpp` never names that event to the library), and a callback that is removed twice erases the end of a vector (`instance.hpp:62-69`).
* `ready`, `model` and `materials` of a component are asked one after the other (`renderer_state.cpp:140-147`). A model that is replaced in between
  draws meshes with materials of another, or reads beyond the shorter list; `CollectedMatches` excepts components replaced during the collection (`frTorn`).
* A buffer's count is not taken back when the functor's constructor throws (`callback_pool.hpp:246-262`),
  nor is the entry of a pool when the object's does (`smart_object_pool.hpp:336`).
* A limiter compares addresses of entries in different blocks (`smart_object_pool.hpp:654-662`): a range
  divided over blocks that do not ascend may visit objects twice (`RangesSafe` says when not).
* Overlapping stores of entities end the read-only mode early (`entity_manager.cpp`); a game state that is popped inside
  its own phase runs on destroyed.
* A pipeline configuration that is copied keeps pointers into its source until it is generated, and one without
  blend state reads uninitialised constants (`pipeline_config.hpp:248`).
* `vector_iobstream` writes after a seek past the end; `pack_file_reader` keeps a source that failed to open (`:54-58`).

## Not modelled

The model converter and the description parsers are offline tools whose grammars keep nothing between calls.
Creating a surface, a device, a swapchain and Vulkan objects from configuration structures is calls into another
system; the images a swapchain gives are those of `RenderFrames`. Command line tools, the demo and
the unit tests only call what is modelled. Of parts that are modelled in part `PROJECT.json` says what is left out.

## Plan

Next to prove, in this order: the entries and counts of `UnorderedPool` (its free list and `Reorganize` are
recursions over the entries, so for those only what a step keeps); `DescriptorSets` (blocks and queued
handles); `CollectedMatches` of the frames that are recorded; pads and slots.
