---------------------------- MODULE RenderFrames ----------------------------
(***************************************************************************)
(* The frame loop of graphics_system with its transfer_manager and their   *)
(* two destruction_queue_managers. A frame has the slot of the swapchain   *)
(* image it acquires, in any order; it waits for the fence of that slot,   *)
(* starts the transfers, runs the callbacks of those that are complete,    *)
(* empties the slot of the destruction queue, takes the command buffers    *)
(* that acquire uploaded resources on the graphics queue, records and      *)
(* submits. Other threads create and drop resources at any time; the last  *)
(* reference puts a resource into the destruction queue. Staging memory is *)
(* the subject of TransferManager.                                         *)
(***************************************************************************)
EXTENDS Naturals, Sequences, FiniteSets, SequencesExt

CONSTANTS FrameSlots, FrameObjects, MaxFrames

ASSUME FramesAssumption == FrameSlots \in Nat \ {0} /\ MaxFrames \in Nat

FSlots == 0 .. FrameSlots - 1

VARIABLES
  phase, frameNo,
  image,          \* current_swapchain_image_
  gSlot, tSlot,   \* current_ring_index of the destruction queue and of the transfer manager
  refs,           \* who refers to a resource: the application, its transfer job
  objState,
  waitingUp, jobsUp,   \* transfers that wait, and those recorded per slot
  todoCb, drawable,    \* callbacks to run, resources whose callback ran
  pending, ready, held,   \* ownership command buffers: per slot, complete, in pending_command_buffers_
  gQueue, tQueue,      \* the destruction queues: of resources, of command buffers
  deadCbs,
  drawn,          \* resources the frame uses
  acquiredObjs,   \* resources whose ownership the graphics queue acquired
  gFlight, tFlight,    \* submitted and not complete; a slot's fence is signalled if it is not here
  tmpSem, acqSems,     \* tmp_semaphore_, acquire_semaphores_
  early           \* resources dropped while the callbacks of a frame ran

cbVars  == <<pending, ready, held, tQueue, deadCbs>>
objVars == <<refs, objState, gQueue, early>>
upVars  == <<waitingUp, jobsUp>>
semVars == <<tmpSem, acqSems>>
frameVars == <<phase, frameNo, image, gSlot, tSlot, objVars, upVars, todoCb, drawable, cbVars,
               drawn, acquiredObjs, gFlight, tFlight, semVars>>

CommandBuffer(n, uses) == [id |-> n, uses |-> uses]
Ids(cbs) == {b.id : b \in cbs}
Uses(cbs) == UNION {b.uses : b \in cbs}

FrameInit ==
  /\ phase = "idle" /\ frameNo = 0 /\ image = 0 /\ gSlot = 0 /\ tSlot = 0
  /\ refs = [o \in FrameObjects |-> {}] /\ objState = [o \in FrameObjects |-> "none"]
  /\ waitingUp = {} /\ jobsUp = [s \in FSlots |-> {}]
  /\ todoCb = {} /\ drawable = {} /\ drawn = {} /\ acquiredObjs = {} /\ early = {}
  /\ pending = [s \in FSlots |-> CommandBuffer(s, {})] /\ ready = {} /\ held = {}
  /\ gQueue = [s \in FSlots |-> {}] /\ tQueue = [s \in FSlots |-> {}] /\ deadCbs = {}
  /\ gFlight = <<>> /\ tFlight = <<>>
  /\ tmpSem = FrameSlots /\ acqSems = [s \in FSlots |-> s]

PhaseStep(from, to) == phase = from /\ phase' = to

SlotInFlight(queue, s) == \E b \in ToSet(queue) : b.slot = s

(***************************************************************************)
(* Resources                                                               *)
(***************************************************************************)

\* queued_handle: the last reference enqueues the resource in the current slot.
DropRef(o, who) ==
  LET last == refs[o] = {who}
  IN /\ refs' = [refs EXCEPT ![o] = @ \ {who}]
     /\ objState' = [objState EXCEPT ![o] = IF last THEN "queued" ELSE @]
     /\ gQueue' = [gQueue EXCEPT ![gSlot] = IF last THEN @ \cup {o} ELSE @]
     /\ early' = IF last /\ phase = "callbacks" THEN early \cup {o} ELSE early

\* record_..._copy of some resources in the transfer and ownership command buffers of slot s.
RecordCopies(s, objs) ==
  /\ jobsUp' = [jobsUp EXCEPT ![s] = @ \cup objs]
  /\ pending' = [pending EXCEPT ![s].uses = @ \cup objs]

InFrame == phase \in {"callbacks", "retrieve", "record", "end"}

\* Created and uploaded; the transfer is recorded at once, or waits.
CreateObject(o) ==
  /\ objState[o] = "none"
  /\ objState' = [objState EXCEPT ![o] = "alive"]
  /\ refs' = [refs EXCEPT ![o] = {"app", "job"}]
  /\ \/ InFrame /\ RecordCopies(tSlot, {o}) /\ UNCHANGED waitingUp
     \/ waitingUp' = waitingUp \cup {o} /\ UNCHANGED <<jobsUp, pending>>
  /\ UNCHANGED <<phase, frameNo, image, gSlot, tSlot, gQueue, early, todoCb, drawable,
                 ready, held, tQueue, deadCbs, drawn, acquiredObjs, gFlight, tFlight, semVars>>

DropObject(o) ==
  /\ "app" \in refs[o]
  /\ DropRef(o, "app")
  /\ UNCHANGED <<phase, frameNo, image, gSlot, tSlot, upVars, todoCb, drawable, cbVars,
                 drawn, acquiredObjs, gFlight, tFlight, semVars>>

(***************************************************************************)
(* graphics_system::prerender                                              *)
(***************************************************************************)

\* The swapchain chooses an image, never the one that is on display, and signals the semaphore.
AcquireImage ==
  /\ frameNo < MaxFrames
  /\ PhaseStep("idle", "fence")
  /\ frameNo' = frameNo + 1
  /\ image' \in IF frameNo = 0 THEN FSlots ELSE FSlots \ {image}
  /\ UNCHANGED <<gSlot, tSlot, objVars, upVars, todoCb, drawable, cbVars,
                 drawn, acquiredObjs, gFlight, tFlight, semVars>>

SwapSemaphores ==
  /\ acqSems' = [acqSems EXCEPT ![image] = tmpSem]
  /\ tmpSem' = acqSems[image]

WaitFence ==
  /\ ~SlotInFlight(gFlight, image)
  /\ PhaseStep("fence", "transfer")
  /\ SwapSemaphores
  /\ UNCHANGED <<frameNo, image, gSlot, tSlot, objVars, upVars, todoCb, drawable, cbVars,
                 drawn, acquiredObjs, gFlight, tFlight>>

\* transfer_manager::start_frame waits for its own fence of the slot; waiting jobs that fit are recorded.
StartTransfers ==
  /\ ~SlotInFlight(tFlight, image)
  /\ PhaseStep("transfer", "callbacks")
  /\ tSlot' = image
  /\ deadCbs' = deadCbs \cup tQueue[image]
  /\ tQueue' = [tQueue EXCEPT ![image] = {}]
  /\ todoCb' = jobsUp[image]
  /\ ready' = ready \cup {pending[image]}
  /\ \E taken \in SUBSET waitingUp :
       /\ pending' = [pending EXCEPT ![image] = CommandBuffer(FrameSlots + frameNo, taken)]
       /\ jobsUp' = [jobsUp EXCEPT ![image] = taken]
       /\ waitingUp' = waitingUp \ taken
  /\ UNCHANGED <<frameNo, image, gSlot, objVars, drawable, held,
                 drawn, acquiredObjs, gFlight, tFlight, semVars>>

\* process_ready_callbacks; the reference a job holds goes with it.
RunTransferCallback(o) ==
  /\ phase = "callbacks" /\ o \in todoCb
  /\ todoCb' = todoCb \ {o}
  /\ drawable' = drawable \cup {o}
  /\ DropRef(o, "job")
  /\ UNCHANGED <<phase, frameNo, image, gSlot, tSlot, upVars, cbVars,
                 drawn, acquiredObjs, gFlight, tFlight, semVars>>

\* cleanup_and_set_current of the graphics system's destruction queue.
CleanupSlot ==
  /\ todoCb = {}
  /\ PhaseStep("callbacks", "retrieve")
  /\ gSlot' = image
  /\ objState' = [o \in FrameObjects |-> IF o \in gQueue[image] THEN "destroyed" ELSE objState[o]]
  /\ gQueue' = [gQueue EXCEPT ![image] = {}]
  /\ UNCHANGED <<frameNo, image, tSlot, refs, early, upVars, todoCb, drawable, cbVars,
                 drawn, acquiredObjs, gFlight, tFlight, semVars>>

MutantRetrieveBuffers ==
  /\ PhaseStep("retrieve", "record")
  /\ held' = ready
  /\ ready' = {}
  /\ deadCbs' = deadCbs \cup Ids(held)
  /\ UNCHANGED <<frameNo, image, gSlot, tSlot, objVars, upVars, todoCb, drawable, pending, tQueue,
                 drawn, acquiredObjs, gFlight, tFlight, semVars>>

\* The assignment drops those of the frame before, into the destruction queue of the transfer manager.
RetrieveBuffers ==
  /\ PhaseStep("retrieve", "record")
  /\ held' = ready
  /\ ready' = {}
  /\ tQueue' = [tQueue EXCEPT ![tSlot] = @ \cup Ids(held)]
  /\ UNCHANGED <<frameNo, image, gSlot, tSlot, objVars, upVars, todoCb, drawable, pending, deadCbs,
                 drawn, acquiredObjs, gFlight, tFlight, semVars>>

(***************************************************************************)
(* Rendering and graphics_system::postrender                               *)
(***************************************************************************)

DrawObject(o) ==
  /\ phase = "record" /\ "app" \in refs[o] /\ o \in drawable
  /\ drawn' = drawn \cup {o}
  /\ UNCHANGED <<phase, frameNo, image, gSlot, tSlot, objVars, upVars, todoCb, drawable, cbVars,
                 acquiredObjs, gFlight, tFlight, semVars>>

SubmitGraphics ==
  /\ PhaseStep("record", "end")
  /\ gFlight' = Append(gFlight, [slot |-> image, objs |-> drawn \cup Uses(held),
                                 cbs |-> Ids(held), sem |-> acqSems[image]])
  /\ acquiredObjs' = acquiredObjs \cup Uses(held)
  /\ drawn' = {}
  /\ UNCHANGED <<frameNo, image, gSlot, tSlot, objVars, upVars, todoCb, drawable, cbVars, tFlight, semVars>>

\* transfer_manager::end_frame
SubmitTransfers ==
  /\ PhaseStep("end", "idle")
  /\ \E taken \in SUBSET waitingUp :
       /\ RecordCopies(tSlot, taken)
       /\ waitingUp' = waitingUp \ taken
       /\ tFlight' = Append(tFlight, [slot |-> tSlot, objs |-> jobsUp[tSlot] \cup taken])
  /\ UNCHANGED <<frameNo, image, gSlot, tSlot, objVars, todoCb, drawable, ready, held, tQueue, deadCbs,
                 drawn, acquiredObjs, gFlight, semVars>>

\* Each device queue completes what was submitted, in order.
FrameCompletes ==
  /\ \/ gFlight # <<>> /\ gFlight' = Tail(gFlight) /\ UNCHANGED tFlight
     \/ tFlight # <<>> /\ tFlight' = Tail(tFlight) /\ UNCHANGED gFlight
  /\ UNCHANGED <<phase, frameNo, image, gSlot, tSlot, objVars, upVars, todoCb, drawable, cbVars,
                 drawn, acquiredObjs, semVars>>

FrameNext ==
  \/ \E o \in FrameObjects : CreateObject(o) \/ DropObject(o) \/ RunTransferCallback(o) \/ DrawObject(o)
  \/ AcquireImage \/ WaitFence \/ StartTransfers \/ CleanupSlot \/ RetrieveBuffers
  \/ SubmitGraphics \/ SubmitTransfers \/ FrameCompletes

FrameSpec == FrameInit /\ [][FrameNext]_frameVars

(***************************************************************************)
(* Properties                                                              *)
(***************************************************************************)

CommandBuffers == [id : Nat, uses : SUBSET FrameObjects]

FramesTypeOK ==
  /\ phase \in {"idle", "fence", "transfer", "callbacks", "retrieve", "record", "end"}
  /\ frameNo \in Nat /\ image \in FSlots /\ gSlot \in FSlots /\ tSlot \in FSlots
  /\ refs \in [FrameObjects -> SUBSET {"app", "job"}]
  /\ objState \in [FrameObjects -> {"none", "alive", "queued", "destroyed"}]
  /\ waitingUp \subseteq FrameObjects /\ jobsUp \in [FSlots -> SUBSET FrameObjects]
  /\ todoCb \subseteq FrameObjects /\ drawable \subseteq FrameObjects /\ drawn \subseteq FrameObjects
  /\ acquiredObjs \subseteq FrameObjects /\ early \subseteq FrameObjects
  /\ pending \in [FSlots -> CommandBuffers] /\ ready \subseteq CommandBuffers /\ held \subseteq CommandBuffers
  /\ gQueue \in [FSlots -> SUBSET FrameObjects]
  /\ tQueue \in [FSlots -> SUBSET Nat] /\ deadCbs \subseteq Nat
  /\ gFlight \in Seq([slot : FSlots, objs : SUBSET FrameObjects, cbs : SUBSET Nat, sem : Nat])
  /\ tFlight \in Seq([slot : FSlots, objs : SUBSET FrameObjects])
  /\ tmpSem \in Nat /\ acqSems \in [FSlots -> Nat]

\* A resource is in the destruction queue, once, when nobody refers to it and it is not destroyed;
\* its transfer job is in one place, and holds it.
ObjectsInv ==
  /\ \A o \in FrameObjects :
       /\ refs[o] # {} <=> objState[o] = "alive"
       /\ objState[o] = "queued" <=> \E s \in FSlots : o \in gQueue[s]
       /\ \A s, t \in FSlots : o \in gQueue[s] /\ o \in gQueue[t] => s = t
       /\ "job" \in refs[o] <=> o \in waitingUp \/ o \in todoCb \/ \E s \in FSlots : o \in jobsUp[s]
  /\ waitingUp \cap todoCb = {}
  /\ \A s \in FSlots : jobsUp[s] \cap (waitingUp \cup todoCb) = {} /\ pending[s].uses = jobsUp[s]
  /\ \A s, t \in FSlots : s = t \/ jobsUp[s] \cap jobsUp[t] = {}

\* How far the frame has come, in the two slots, and what it has waited for.
PhaseInv ==
  /\ phase \in {"retrieve", "record", "end", "idle"} => gSlot = image
  /\ phase \in {"callbacks", "retrieve", "record", "end", "idle"} => tSlot = image
  /\ phase \in {"fence", "transfer"} => tSlot = gSlot
  /\ todoCb # {} => phase = "callbacks"
  /\ ready # {} => phase \in {"callbacks", "retrieve"}
  /\ drawn # {} => phase = "record"
  /\ phase \in {"transfer", "callbacks", "retrieve", "record"} => ~SlotInFlight(gFlight, image)
  /\ gFlight # <<>> /\ phase \notin {"retrieve", "record"} => gFlight[Len(gFlight)].slot = gSlot

\* The submission i or a later one of slot s is not complete.
Awaited(i, s) == \E j \in DOMAIN gFlight : i <= j /\ gFlight[j].slot = s

\* What a submission uses is alive, or queued in a slot whose fence tells of that submission or a later
\* one, the one of this frame, if it uses the slot.
SubmittedUses ==
  \A i \in DOMAIN gFlight : \A o \in gFlight[i].objs \ early :
    /\ objState[o] \in {"alive", "queued"}
    /\ \A s \in FSlots : o \in gQueue[s] => Awaited(i, s) \/ (gSlot = s /\ phase \in {"retrieve", "record"})

\* So is what the frame will submit.
Upcoming(o) ==
  o \in drawn \/ (\E b \in ready : o \in b.uses) \/ (phase = "record" /\ \E b \in held : o \in b.uses)

UpcomingUses ==
  \A o \in FrameObjects \ early :
    Upcoming(o) => /\ objState[o] \in {"alive", "queued"}
                   /\ \A s \in FSlots : o \in gQueue[s] => s = gSlot /\ phase \in {"retrieve", "record"}

\* What is transferred is held by its jobs.
TransferUses == \A i \in DOMAIN tFlight : tFlight[i].objs \subseteq jobsUp[tFlight[i].slot]

\* Each ownership command buffer is in one place on its way from pending to destroyed.
IdBound == FrameSlots + frameNo + (IF phase \in {"fence", "transfer"} THEN 0 ELSE 1)
Freed(n) == n \in deadCbs \/ \E s \in FSlots : n \in tQueue[s]

BuffersApart ==
  /\ \A s \in FSlots : pending[s].id < IdBound /\ ~Freed(pending[s].id)
  /\ \A b \in ready \cup held : b.id < IdBound /\ ~Freed(b.id) /\ \A s \in FSlots : pending[s].id # b.id
  /\ (\A n \in deadCbs : n < IdBound) /\ \A s \in FSlots : \A n \in tQueue[s] : n < IdBound
  /\ \A s, t \in FSlots : pending[s].id = pending[t].id => s = t
  /\ \A b \in ready, c \in held : b.id # c.id

\* And queued in a slot whose fence tells of its last submission.
BuffersGuarded ==
  \A i \in DOMAIN gFlight : \A n \in gFlight[i].cbs :
    /\ n \notin deadCbs
    /\ \A s \in FSlots : n \in tQueue[s] => Awaited(i, s) \/ (phase = "record" /\ tSlot = s)

\* A resource whose callback ran was acquired, or will be with the next submission.
AcquiredInv ==
  /\ \A o \in drawable : o \in acquiredObjs \/ \E b \in held \cup ready : o \in b.uses
  /\ phase # "record" => \A b \in held : b.uses \subseteq acquiredObjs
  /\ \A o \in todoCb : \E b \in ready : o \in b.uses
  /\ drawn \subseteq drawable

\* Semaphores are all different, and a submission waits for that of its slot.
SemaphoresInv ==
  /\ \A s \in FSlots : acqSems[s] # tmpSem
  /\ \A s, t \in FSlots : acqSems[s] = acqSems[t] => s = t
  /\ \A i \in DOMAIN gFlight : gFlight[i].sem = acqSems[gFlight[i].slot]

\* The inductive invariant.
FramesInv ==
  /\ FramesTypeOK /\ ObjectsInv /\ PhaseInv /\ SubmittedUses /\ UpcomingUses /\ TransferUses
  /\ BuffersApart /\ BuffersGuarded /\ AcquiredInv /\ SemaphoresInv

Submissions == ToSet(gFlight) \cup ToSet(tFlight)

UsedByDevice(o) == \E b \in Submissions : o \in b.objs

\* destruction_queue_manager: "defer deletion of resources until asynchronous command execution has
\* finished".
NeverDestroyedInFlight == \A o \in FrameObjects : objState[o] = "destroyed" => ~UsedByDevice(o)

\* Neither queue executes a command that uses a destroyed resource, whichever frame used it last and
\* in whatever order the slots come, but for one dropped between the callbacks of a frame and the
\* change of the slot.
DestroyedAfterUse ==
  \A o \in FrameObjects \ early : objState[o] = "destroyed" => ~UsedByDevice(o)

\* Command buffers submitted on the graphics queue are kept in the destruction queue of the transfer
\* manager, whose slots are guarded by other fences: none is freed while it executes, or before it
\* is submitted.
OwnershipBuffersOutliveUse ==
  /\ \A b \in ToSet(gFlight) : b.cbs \cap deadCbs = {}
  /\ (Ids(held) \cup Ids(ready)) \cap deadCbs = {}

\* A resource is drawn only in the frame whose submission acquires it for the graphics queue, or later.
AcquiredBeforeDrawn == drawn \subseteq acquiredObjs \cup Uses(held)

\* The semaphore of the next acquisition is not one that a submitted frame still waits for.
AcquireSemaphoreIdle == phase = "idle" => \A b \in ToSet(gFlight) : b.sem # tmpSem

\* All of it holds at once: what a queue of the device still uses is not destroyed, freed, signalled
\* again or drawn before it was acquired, in whatever order the slots come.
FramesSafe ==
  /\ FramesInv /\ DestroyedAfterUse /\ OwnershipBuffersOutliveUse
  /\ AcquiredBeforeDrawn /\ AcquireSemaphoreIdle
=============================================================================
