-------------------------- MODULE TransferManager --------------------------
(***************************************************************************)
(* graphics::transfer_manager: threads upload data into a staging buffer   *)
(* managed by a ring_chunk_placer, or queue a job when it does not fit or  *)
(* no frame is being recorded.  The render loop starts and ends frames,    *)
(* each in a slot with a command buffer and a fence; the device executes   *)
(* what was submitted.  An upload stands for one call of upload_buffer or  *)
(* upload_image and for the job made of it; what is copied, barriers and   *)
(* queue ownership transfers are left out.                                 *)
(***************************************************************************)
EXTENDS RingPositions, Sequences, SequencesExt

CONSTANTS
  Uploads,      \* the uploads that may be called
  SizeOf,       \* their sizes
  AlignmentOf,  \* image_alignment, 1 for buffers
  InitialSize,  \* size of the staging buffer
  Slack,        \* immediate_allocation_slack
  RingSlots,    \* ring_slots
  NoPosition    \* no position, a null pointer

ASSUME UploadsAssumption ==
  /\ InitialSize \in Nat \ {0}
  /\ SizeOf \in [Uploads -> Nat \ {0}]
  /\ AlignmentOf \in [Uploads -> Nat \ {0}]
  /\ Slack \in Nat
  /\ Word \in Nat /\ Word > InitialSize /\ \A u \in Uploads : Word > 4 * SizeOf[u]
  /\ RingSlots \in Nat /\ RingSlots > 1
  /\ NoPosition \notin Nat

Slots == 0 .. RingSlots - 1

VARIABLES
  ring,        \* chunk_placer
  generation,  \* which staging_buffer, counted by its reallocations
  ends,        \* staging_buffer_ends
  chunk,       \* where the staged data of each job lies
  stage,       \* where the render loop is; it holds manager_mutex in start_frame
               \* and end_frame, and in_frame is set in "frame"
  slot,        \* current_ring_index
  waiting,     \* waiting_jobs, which is sorted before it is used
  running,     \* running_jobs
  callbacks,   \* jobs start_frame has yet to call the completion callback of
  requested,   \* history: uploads called
  called,      \* history: completion callbacks called
  submitted,   \* on the transfer queue: slots, whose fence is unsignalled, and jobs
  condemned,   \* staging buffers in the destruction queue, per slot
  destroyed,   \* history: staging buffers destroyed
  underflowed, \* history: find_pos computed a space in front of an out_pos_ that is not ahead
  outOfTurn    \* history: a frame did not use the slot after that of the last frame

staging == <<ring, generation, ends, chunk, underflowed>>
frame   == <<stage, slot, outOfTurn>>
jobs    == <<waiting, running, callbacks, requested, called>>
device  == <<submitted, condemned, destroyed>>
transferVars == <<staging, frame, jobs, device>>

TransferInit ==
  /\ ring = NewRing(InitialSize)
  /\ generation = 0
  /\ ends = [s \in Slots |-> NoPosition]
  /\ chunk = [u \in Uploads |-> [first |-> 0, end |-> 0, buffer |-> 0]]
  /\ stage = "between"
  /\ slot = 0
  /\ waiting = {}
  /\ running = [s \in Slots |-> <<>>]
  /\ callbacks = <<>>
  /\ requested = {}
  /\ called = {}
  /\ submitted = <<>>
  /\ condemned = [s \in Slots |-> {}]
  /\ destroyed = {}
  /\ underflowed = FALSE
  /\ outOfTurn = FALSE

\* record_buffer_copy, record_image_copy of data that place_chunk put into the
\* placer r of the given staging buffer.
Record(r, buffer, u) ==
  LET first == find_pos(r, SizeOf[u], AlignmentOf[u]).target
  IN /\ ring' = place_chunk(r, SizeOf[u], AlignmentOf[u])
     /\ underflowed' = (underflowed \/ Underflows(r, SizeOf[u], AlignmentOf[u]))
     /\ chunk' = [chunk EXCEPT ![u] =
                    [first |-> first, end |-> first + SizeOf[u], buffer |-> buffer]]
     /\ running' = [running EXCEPT ![slot] = Append(@, u)]

-----------------------------------------------------------------------------
(* upload_buffer, upload_image                                             *)

\* Behind what was placed, or by a wrap when little is left there.
FitsImmediately(u) ==
  \/ can_fit_no_wrap(ring, SizeOf[u], AlignmentOf[u])
  \/ /\ can_fit(ring, SizeOf[u], AlignmentOf[u])
     /\ available_space_no_wrap(ring) < Slack

\* The upload takes the mutex, which start_frame and end_frame hold.
Requested(u) ==
  /\ u \notin requested
  /\ stage \in {"between", "frame"}
  /\ requested' = requested \union {u}
  /\ UNCHANGED <<frame, callbacks, called, submitted, destroyed>>

UploadRecorded(u) ==
  /\ Requested(u)
  /\ stage = "frame"
  /\ SizeOf[u] <= ring.size
  /\ FitsImmediately(u)
  /\ Record(ring, generation, u)
  /\ UNCHANGED <<generation, ends, waiting, condemned>>

\* reallocate_buffer for data larger than the buffer; the old buffer goes to the
\* destruction queue.  The data always fits the new one.
UploadReallocates(u) ==
  /\ Requested(u)
  /\ stage = "frame"
  /\ SizeOf[u] > ring.size
  /\ generation' = generation + 1
  /\ condemned' = [condemned EXCEPT ![slot] = @ \union {generation}]
  /\ ends' = [s \in Slots |-> NoPosition]
  /\ LET size == IF 4 * SizeOf[u] > ring.size THEN 4 * SizeOf[u] ELSE ring.size
     IN Record(NewRing(size), generation + 1, u)
  /\ UNCHANGED waiting

UploadQueued(u) ==
  /\ Requested(u)
  /\ stage = "frame" => (SizeOf[u] <= ring.size /\ ~FitsImmediately(u))
  /\ waiting' = waiting \union {u}
  /\ UNCHANGED <<staging, running, condemned>>

Upload(u) == UploadRecorded(u) \/ UploadReallocates(u) \/ UploadQueued(u)

-----------------------------------------------------------------------------
(* process_waiting_jobs                                                    *)

\* The back of the sorted list: equal jobs are sorted in any order.
LastWaiting == {u \in waiting : \A v \in waiting : SizeOf[u] <= SizeOf[v]}

PlaceWaiting ==
  /\ stage \in {"starting", "ending"}
  /\ \E u \in LastWaiting :
       /\ can_fit(ring, SizeOf[u], AlignmentOf[u])
       /\ Record(ring, generation, u)
       /\ waiting' = waiting \ {u}
  /\ UNCHANGED <<generation, ends, frame, callbacks, requested, called, device>>

\* The loop ends at the first job that does not fit.
WaitingDone ==
  waiting # {} => \E u \in LastWaiting : ~can_fit(ring, SizeOf[u], AlignmentOf[u])

-----------------------------------------------------------------------------
(* Frames                                                                  *)

\* The slot of the next frame: start_frame() takes the next one; the swapchain
\* gives any image to graphics_system but the one presented last.
NextSlots == Slots \ {slot}
InTurn(s) == s = (slot + 1) % RingSlots

Signalled(s) == \A i \in DOMAIN submitted : submitted[i].slot # s

\* Mutant: all that was placed is freed.
MutantFreeAll(s) ==
  /\ stage = "between"
  /\ s \in NextSlots
  /\ Signalled(s)
  /\ stage' = "starting"
  /\ slot' = s
  /\ outOfTurn' = (outOfTurn \/ ~InTurn(s))
  /\ destroyed' = destroyed \union condemned[s]
  /\ condemned' = [condemned EXCEPT ![s] = {}]
  /\ callbacks' = running[s]
  /\ running' = [running EXCEPT ![s] = <<>>]
  /\ ring' = free_to(ring, ring.in_pos)
  /\ UNCHANGED <<generation, ends, chunk, underflowed, waiting, requested, called, submitted>>

\* start_frame: waits for the fence, cleans the destruction queue, takes the
\* completed jobs, frees the staged data of the last frame in this slot and of
\* those before, and goes on with the waiting jobs.
StartFrame(s) ==
  /\ stage = "between"
  /\ s \in NextSlots
  /\ Signalled(s)
  /\ stage' = "starting"
  /\ slot' = s
  /\ outOfTurn' = (outOfTurn \/ ~InTurn(s))
  /\ destroyed' = destroyed \union condemned[s]
  /\ condemned' = [condemned EXCEPT ![s] = {}]
  /\ callbacks' = running[s]
  /\ running' = [running EXCEPT ![s] = <<>>]
  /\ ring' = IF ends[s] = NoPosition THEN ring ELSE free_to(ring, ends[s])
  /\ UNCHANGED <<generation, ends, chunk, underflowed, waiting, requested, called, submitted>>

\* The mutex is released.
FrameStarted ==
  /\ stage = "starting"
  /\ WaitingDone
  /\ stage' = "frame"
  /\ UNCHANGED <<staging, slot, outOfTurn, jobs, device>>

\* process_ready_callbacks, without the mutex: uploads may come in between, of
\* the callback itself or of other threads.
RunCallback ==
  /\ stage = "frame"
  /\ callbacks # <<>>
  /\ called' = called \union {Head(callbacks)}
  /\ callbacks' = Tail(callbacks)
  /\ UNCHANGED <<staging, frame, waiting, running, requested, device>>

\* end_frame takes the mutex.
EndFrame ==
  /\ stage = "frame"
  /\ callbacks = <<>>
  /\ stage' = "ending"
  /\ UNCHANGED <<staging, slot, outOfTurn, jobs, device>>

\* Mutant: the position is not recorded.
MutantNoEnd ==
  /\ stage = "ending"
  /\ WaitingDone
  /\ submitted' = Append(submitted, [slot |-> slot, jobs |-> running[slot]])
  /\ stage' = "between"
  /\ UNCHANGED <<staging, slot, outOfTurn, jobs, condemned, destroyed>>

\* What waits was recorded as far as it fits; the command buffer is submitted.
Submit ==
  /\ stage = "ending"
  /\ WaitingDone
  /\ ends' = [ends EXCEPT ![slot] = ring.in_pos]
  /\ submitted' = Append(submitted, [slot |-> slot, jobs |-> running[slot]])
  /\ stage' = "between"
  /\ UNCHANGED <<ring, generation, chunk, underflowed, slot, outOfTurn, jobs, condemned, destroyed>>

\* The device finishes submissions in the order of the queue, and signals the
\* fence of each.
DeviceCompletes ==
  /\ submitted # <<>>
  /\ submitted' = Tail(submitted)
  /\ UNCHANGED <<staging, frame, jobs, condemned, destroyed>>

RenderLoop ==
  \/ \E s \in Slots : StartFrame(s)
  \/ PlaceWaiting
  \/ FrameStarted
  \/ RunCallback
  \/ EndFrame
  \/ Submit

TransferNext ==
  \/ \E u \in Uploads : Upload(u)
  \/ RenderLoop
  \/ DeviceCompletes

TransferSpec == TransferInit /\ [][TransferNext]_transferVars

\* The engine loop renders frame after frame, the device executes what it gets.
FairTransferSpec == TransferSpec /\ WF_transferVars(RenderLoop) /\ WF_transferVars(DeviceCompletes)

-----------------------------------------------------------------------------
(* Properties                                                              *)

\* What the device may still read: jobs submitted or being recorded.
InFlight ==
  (UNION {ToSet(submitted[i].jobs) : i \in DOMAIN submitted})
    \union (IF stage = "between" THEN {} ELSE ToSet(running[slot]))

\* Types; a slot is submitted once at a time, callbacks run within a frame.
TransferTypeOK ==
  /\ ring \in [in_pos : Nat, out_pos : Nat, wrap_size : Nat, size : 0 .. Word - 1]
  /\ generation \in Nat
  /\ ends \in [Slots -> Nat \union {NoPosition}]
  /\ stage \in {"between", "starting", "frame", "ending"}
  /\ slot \in Slots
  /\ waiting \subseteq requested
  /\ running \in [Slots -> Seq(Uploads)]
  /\ chunk \in [Uploads -> [first : Nat, end : Nat, buffer : 0..generation]]
  /\ submitted \in Seq([slot : Slots, jobs : Seq(Uploads)])
  /\ condemned \in [Slots -> SUBSET Nat]
  /\ destroyed \subseteq 0..generation
  /\ callbacks \in Seq(Uploads)
  /\ callbacks # <<>> => stage \in {"starting", "frame"}
  /\ requested \subseteq Uploads
  /\ called \subseteq requested
  /\ underflowed \in BOOLEAN /\ outOfTurn \in BOOLEAN

\* The lists of jobs of the manager in which an upload is, a list of running
\* jobs with its slot.
Places(u) ==
  LET In(list, uploads) == IF u \in uploads THEN {<<list, 0>>} ELSE {}
  IN {<<"running", s>> : s \in {t \in Slots : u \in ToSet(running[t])}}
       \union In("waiting", waiting)
       \union In("callbacks", ToSet(callbacks))
       \union In("called", called)

\* No upload gets lost or done twice on its way from the waiting jobs or the
\* immediate allocation through the running jobs of a slot to its callback.
OneOwner == \A u \in requested : \E p \in Places(u) : Places(u) = {p}

\* Staged data stays as it was copied until the device has read it: no two
\* chunks in flight in the same staging buffer share a byte, although slots are
\* freed and filled while other frames are executed.
InFlightDataIntact ==
  \A u, v \in InFlight :
    \/ u = v
    \/ chunk[u].buffer # chunk[v].buffer
    \/ chunk[u].end <= chunk[v].first
    \/ chunk[v].end <= chunk[u].first

\* The staging buffer a job in flight reads from has not been destroyed, also
\* when an upload reallocates the buffer while earlier frames are executed.
BuffersInUseExist == \A u \in InFlight : chunk[u].buffer \notin destroyed

\* "Calls the (optionally) given callback after the transfer is completed."
CallbackAfterTransfer == (called \union ToSet(callbacks)) \intersect InFlight = {}

\* Nothing placed is left that the placer would still free.
Drained == ring = free_to(ring, ring.in_pos)

\* The job waits for space that no frame will ever free: it is too large for the padding it needs, or
\* the placer underflowed and ignores the positions behind the buffer.
Stuck(u) ==
  /\ u \in waiting
  /\ Drained
  /\ ~can_fit(ring, SizeOf[u], AlignmentOf[u])

\* The job waits for the next frame in the slot of one that has ended.
Waits(u) == \E s \in Slots : s # slot /\ u \in ToSet(running[s])

\* Every upload is completed, unless from some time on the placer cannot place it though nothing is
\* left to be freed, or the swapchain never again gives the image of its frame.
CompletedUnlessStuck ==
  \A u \in Uploads : (u \in requested) ~> (u \in called \/ []Stuck(u) \/ []Waits(u))

-----------------------------------------------------------------------------
(* What these follow from                                                  *)

\* An upload that was called is in one list, at one place of it.
JobsInv ==
  /\ \A s \in Slots : \A i \in DOMAIN running[s] :
       /\ running[s][i] \in requested \ (waiting \union called)
       /\ \A k \in DOMAIN callbacks : callbacks[k] # running[s][i]
       /\ \A t \in Slots : \A j \in DOMAIN running[t] :
            running[s][i] = running[t][j] => s = t /\ i = j
  /\ \A k \in DOMAIN callbacks :
       /\ callbacks[k] \in requested \ (waiting \union called)
       /\ \A l \in DOMAIN callbacks : callbacks[k] = callbacks[l] => k = l
  /\ waiting \intersect called = {}
  /\ \A u \in requested : \/ u \in waiting \union called
                          \/ \E k \in DOMAIN callbacks : callbacks[k] = u
                          \/ \E s \in Slots : \E i \in DOMAIN running[s] : running[s][i] = u

\* What was submitted is kept as running, in a slot whose frame has ended.
SubmittedInv ==
  \A i \in DOMAIN submitted :
    /\ submitted[i].jobs = running[submitted[i].slot]
    /\ stage = "between" \/ submitted[i].slot # slot
    /\ \A j \in DOMAIN submitted : submitted[i].slot = submitted[j].slot => i = j

\* Where a staging buffer is condemned, and may be destroyed, the last submission that reads it or
\* a later one has to complete first.
BuffersInv ==
  /\ \A s \in Slots : \A b \in condemned[s] : b < generation
  /\ \A b \in destroyed : b < generation
  /\ \A i \in DOMAIN submitted, s \in Slots : \A k \in DOMAIN submitted[i].jobs :
       /\ chunk[submitted[i].jobs[k]].buffer \notin destroyed
       /\ chunk[submitted[i].jobs[k]].buffer \in condemned[s]
            => \/ s = slot /\ stage # "between"
               \/ \E j \in DOMAIN submitted : j >= i /\ submitted[j].slot = s
  /\ stage # "between" =>
       \A k \in DOMAIN running[slot], s \in Slots :
         /\ chunk[running[slot][k]].buffer \notin destroyed
         /\ chunk[running[slot][k]].buffer \in condemned[s] => s = slot

RingInv == underflowed \/ RingOK(ring)

\* The inductive invariant of what no order of the slots and no alignment disturbs.
TransfersInv == TransferTypeOK /\ RingInv /\ JobsInv /\ SubmittedInv /\ BuffersInv

\* The slots in the order of their last frames, when they are used in turn: the current one last.
Older(s, t) == IF (s > slot) = (t > slot) THEN s < t ELSE s > slot

\* What lies in the current staging buffer, and which slots freed up to a position would free it.
Staged(s) == {i \in DOMAIN running[s] : chunk[running[s][i]].buffer = generation}
Complete(s) == s # slot \/ stage = "between"
Ended(s) == Complete(s) /\ ends[s] # NoPosition

StagedInUsedSpace ==
  /\ Wrapped(ring) => ring.out_pos <= ring.wrap_size
  /\ \A s \in Slots : \A i \in Staged(s) :
       LET c == chunk[running[s][i]] IN c.first < c.end /\ Used(ring, c.first, c.end)

StagedInOrder ==
  \A s, t \in Slots : \A i \in Staged(s), j \in Staged(t) :
    Older(s, t) \/ (s = t /\ i < j) => Follows(ring, chunk[running[s][i]].end, chunk[running[t][j]].first)

\* A frame that placed nothing ended where another one did, which wrapped and was freed: free_to
\* takes its position for the start of the buffer.
Passed(s) ==
  ring.out_pos = 0 /\ \A t \in Slots : Ended(t) /\ (t = s \/ Older(t, s)) => ends[t] = ring.wrap_size

EndsInOrder ==
  /\ \A s \in Slots : Complete(s) /\ ends[s] = NoPosition => Staged(s) = {}
  /\ \A s \in Slots : Ended(s) =>
       /\ ends[s] <= ring.size
       /\ \/ Passed(s)
          \/ /\ Used(ring, ends[s], ends[s])
             /\ \A t \in Slots : Older(s, t) =>
                  \A j \in Staged(t) : Follows(ring, ends[s], chunk[running[t][j]].first)
  /\ \A s, t \in Slots : Ended(s) /\ Ended(t) /\ Older(s, t) => Passed(s) \/ Follows(ring, ends[s], ends[t])

\* In the buffers before the current one nothing is placed any more.
OlderBuffersIntact ==
  \A s, t \in Slots : \A i \in DOMAIN running[s], j \in DOMAIN running[t] :
    LET c == chunk[running[s][i]]  d == chunk[running[t][j]]
    IN s # t \/ i # j => c.buffer # d.buffer \/ c.buffer = generation \/ c.end <= d.first \/ d.end <= c.first

\* The inductive invariant of the staged data.
StagedInv == StagedInUsedSpace /\ StagedInOrder /\ EndsInOrder /\ OlderBuffersIntact

\* It is lost where a chunk was placed outside the buffer, and where a frame freed what frames before it
\* placed that are still executed.
StagingInv == underflowed \/ outOfTurn \/ StagedInv

\* All of it holds at once: no upload is lost, doubled or completed early, what it reads exists, and is not
\* overwritten as long as the placer did not underflow and the slots were used in turn.
TransfersSafe ==
  /\ TransfersInv /\ StagingInv
  /\ OneOwner
  /\ BuffersInUseExist /\ CallbackAfterTransfer
  /\ underflowed \/ outOfTurn \/ InFlightDataIntact
=============================================================================
