--------------------------- MODULE FrameTransport ---------------------------
(***************************************************************************)
(* From the camera to the counting pipeline: one IngestWorker per camera   *)
(* captures frames, the SharedMemoryTransport keeps the metadata of each   *)
(* in a bounded ring and its pixels in a named block of shared memory, and *)
(* the InferenceWorker takes frames out, reads their pixels by name and    *)
(* releases the block.  The block names cycle: a frame shares its name     *)
(* with the frame captured DriverSlots before it.                          *)
(*                                                                         *)
(* Every method of the transport holds its lock throughout and is a step.  *)
(***************************************************************************)
EXTENDS Integers, Sequences

CONSTANTS
  Cameras,       \* cameras, each with an ingest worker
  RingSlots,     \* ring_slots of the transport; 8 in the code
  DriverSlots,   \* the modulus of the drivers' block names; 8 in the code
  MaxDrops,      \* max_consecutive_drops of the inference worker; 3 in the code
  MaxShots,      \* bound: frames captured in all
  MaxOpens,      \* bound: times that cameras are opened in all
  MaxDbFailures, \* bound: times an epoch could not be taken from the database
  MaxRestarts    \* bound: times the process is restarted

Slots  == 0 .. DriverSlots - 1
Shots  == 1 .. MaxShots
NoShot == 0
Epochs == 0 .. MaxOpens

\* A Frame; shot stands for its pixels, which are different in every frame.
Frames  == [camera : Cameras, epoch : Epochs, index : Shots, shot : Shots]
NoFrame == [shot |-> NoShot]

ASSUME SizesAssumption  == RingSlots \in Nat \ {0} /\ DriverSlots \in Nat \ {0} /\ MaxDrops \in Nat \ {0}
ASSUME BoundsAssumption == /\ MaxShots \in Nat /\ MaxOpens \in Nat
                           /\ MaxDbFailures \in Nat /\ MaxRestarts \in Nat

VARIABLES
  epoch,     \* table camera_epoch: current_epoch, 0 where there is no row
  ingest,    \* each ingest worker and its driver; held is written and not yet published
  queue,     \* _camera_queues
  cameras,   \* the keys of _camera_queues in the order they were inserted
  block,     \* _shm_slots: the shot whose pixels each named block holds
  drops,     \* consecutive_drops
  consumer,  \* the inference worker; got is what it read for the head of the batch
  shots, opens, dbFailures, restarts,   \* counters for the bounds
  overrun,   \* history: the cameras that ever wrote over a block still in use
  degraded,  \* history: the cameras for which the session was marked degraded
  newest     \* history: epoch and index of the last frame each camera captured

counters  == <<opens, dbFailures, restarts>>
history   == <<overrun, degraded, newest>>
vars == <<epoch, ingest, queue, cameras, block, drops, consumer, shots, counters, history>>

SlotOf(index) == index % DriverSlots

Unstarted == [started |-> FALSE, connected |-> FALSE, epoch |-> 0, counter |-> 0, held |-> NoFrame]
Waiting   == [pc |-> "consume", batch |-> <<>>, stats |-> [c \in Cameras |-> 0],
              active |-> FALSE, got |-> NoShot]
NoBlocks  == [c \in Cameras |-> [s \in Slots |-> NoShot]]

Init ==
  /\ epoch      = [c \in Cameras |-> 0]
  /\ ingest     = [c \in Cameras |-> Unstarted]
  /\ queue      = [c \in Cameras |-> <<>>]
  /\ cameras    = <<>>
  /\ block      = NoBlocks
  /\ drops      = [c \in Cameras |-> 0]
  /\ consumer   = Waiting
  /\ shots = 0 /\ opens = 0 /\ dbFailures = 0 /\ restarts = 0
  /\ overrun    = {}
  /\ degraded   = {}
  /\ newest     = [c \in Cameras |-> <<0, 0>>]

-----------------------------------------------------------------------------
(* The ingest workers *)

\* driver.open with the epoch; the camera may not answer.
Opened(c, e) ==
  /\ \E connected \in BOOLEAN :
       ingest' = [ingest EXCEPT ![c] = [Unstarted EXCEPT !.started = TRUE, !.connected = connected, !.epoch = e]]
  /\ opens < MaxOpens /\ opens' = opens + 1
  /\ UNCHANGED <<queue, cameras, block, drops, consumer, shots, restarts, history>>

\* Bug: get_current_epoch where increment_and_get_epoch belongs.
CurrentEpoch(c) == IF epoch[c] = 0 THEN 1 ELSE epoch[c]

\* increment_and_get_epoch
NextEpoch(c) == epoch[c] + 1

OpenWithNextEpoch(c) ==
  /\ ~ ingest[c].connected
  /\ epoch' = [epoch EXCEPT ![c] = NextEpoch(c)]
  /\ Opened(c, NextEpoch(c))
  /\ UNCHANGED dbFailures

\* The database does not answer: start falls back on epoch 1, a reconnect on
\* the worker's own epoch plus one.
OpenWithoutDatabase(c) ==
  /\ ~ ingest[c].connected
  /\ dbFailures < MaxDbFailures /\ dbFailures' = dbFailures + 1
  /\ Opened(c, IF ingest[c].started THEN ingest[c].epoch + 1 ELSE 1)
  /\ UNCHANGED epoch

\* read without an image: the end of the stream.
Disconnect(c) ==
  /\ ingest[c].connected /\ ingest[c].held = NoFrame
  /\ ingest' = [ingest EXCEPT ![c].connected = FALSE]
  /\ UNCHANGED <<epoch, queue, cameras, block, drops, consumer, shots, counters, history>>

\* Bug: the name of the block is computed before the counter is incremented.
NamedTooEarly(c) == SlotOf(ingest[c].counter)

\* The block that the next frame of c is written to.
NextSlot(c) == SlotOf(ingest[c].counter + 1)

\* _create_shm_locked: a block of that name that still exists is unlinked,
\* whoever uses it, and replaced by a new one.
FreshBlock(c, shot) == [block EXCEPT ![c][NextSlot(c)] = shot]

\* read: write_image_data puts the pixels into a fresh block.
Capture(c) ==
  /\ ingest[c].connected /\ ingest[c].held = NoFrame
  /\ shots < MaxShots /\ shots' = shots + 1
  /\ LET index == ingest[c].counter + 1
     IN  /\ ingest' = [ingest EXCEPT ![c].counter = index,
                                     ![c].held = [camera |-> c, epoch |-> ingest[c].epoch,
                                                  index |-> index, shot |-> shots']]
         /\ newest' = [newest EXCEPT ![c] = <<ingest[c].epoch, index>>]
  /\ block' = FreshBlock(c, shots')
  /\ overrun' = IF block[c][NextSlot(c)] # NoShot THEN overrun \cup {c} ELSE overrun
  /\ UNCHANGED <<epoch, queue, cameras, drops, consumer, counters, degraded>>

\* _close_slot_locked, by name: the block may hold another frame by now.
Closed(f) == [block EXCEPT ![f.camera][SlotOf(f.index)] = NoShot]

InRing(c) == IF \E i \in DOMAIN cameras : cameras[i] = c THEN cameras ELSE Append(cameras, c)

\* publish into a ring that is full: the oldest frame is dropped and its block closed.
Evict(c) ==
  /\ Len(queue[c]) >= RingSlots
  /\ queue' = [queue EXCEPT ![c] = Append(Tail(@), ingest[c].held)]
  /\ block' = Closed(Head(queue[c]))
  /\ drops' = [drops EXCEPT ![c] = @ + 1]

\* Bug: the ring takes one frame more than it has slots.
EnqueueOneMore(c) ==
  /\ Len(queue[c]) <= RingSlots
  /\ queue' = [queue EXCEPT ![c] = Append(@, ingest[c].held)]
  /\ drops' = [drops EXCEPT ![c] = 0]
  /\ UNCHANGED block

Enqueue(c) ==
  /\ Len(queue[c]) < RingSlots
  /\ queue' = [queue EXCEPT ![c] = Append(@, ingest[c].held)]
  /\ drops' = [drops EXCEPT ![c] = 0]
  /\ UNCHANGED block

Publish(c) ==
  /\ ingest[c].held # NoFrame
  /\ Evict(c) \/ Enqueue(c)
  /\ ingest' = [ingest EXCEPT ![c].held = NoFrame]
  /\ cameras' = InRing(c)
  /\ UNCHANGED <<epoch, consumer, shots, counters, overrun, degraded, newest>>

-----------------------------------------------------------------------------
(* The inference worker *)

InOrder(places) == \A i, j \in DOMAIN places : i < j => places[i] < places[j]

\* consume: one frame of every camera that has any, in the order of the dict;
\* places enumerates where in the dict these cameras are.
Consume ==
  /\ consumer.pc = "consume"
  /\ LET ready == {i \in DOMAIN cameras : queue[cameras[i]] # <<>>}
     IN  \E n \in 1 .. Len(cameras) : \E places \in [1 .. n -> ready] :
           /\ InOrder(places) /\ ready = {places[i] : i \in 1 .. n}
           /\ consumer' = [consumer EXCEPT !.pc = "stats",
                                           !.batch = [i \in 1 .. n |-> Head(queue[cameras[places[i]]])]]
  /\ queue' = [c \in Cameras |-> IF queue[c] = <<>> THEN <<>> ELSE Tail(queue[c])]
  /\ UNCHANGED <<epoch, ingest, cameras, block, drops, shots, counters, history>>

\* The session and the drop counters are read once for the whole batch.
ReadStats ==
  /\ consumer.pc = "stats"
  /\ \E active \in BOOLEAN :
       consumer' = [consumer EXCEPT !.pc = "fetch", !.stats = drops, !.active = active]
  /\ UNCHANGED <<epoch, ingest, queue, cameras, block, drops, shots, counters, history>>

\* get_image_data: what the block with the name of the frame holds now.
Pixels(f) == block[f.camera][SlotOf(f.index)]

\* The next frame of the batch: the degraded policy, then its pixels.
Fetch ==
  /\ consumer.pc = "fetch"
  /\ LET f == Head(consumer.batch)
     IN  /\ degraded' = IF consumer.active /\ consumer.stats[f.camera] >= MaxDrops
                        THEN degraded \cup {f.camera} ELSE degraded
         /\ consumer' = [consumer EXCEPT !.pc = "release", !.got = Pixels(f)]
  /\ UNCHANGED <<epoch, ingest, queue, cameras, block, drops, shots, counters, overrun, newest>>

\* The batch without its head; run_step returns after the last frame.
Advanced ==
  LET rest == Tail(consumer.batch)
  IN  IF rest = <<>> THEN Waiting
      ELSE [consumer EXCEPT !.pc = "fetch", !.batch = rest, !.got = NoShot]

\* Bug: the block of a frame that no session was counting is not released.
ReleaseCounted ==
  /\ consumer.pc = "release"
  /\ block' = IF consumer.active THEN Closed(Head(consumer.batch)) ELSE block
  /\ consumer' = Advanced
  /\ UNCHANGED <<epoch, ingest, queue, cameras, drops, shots, counters, history>>

\* release, whether or not there were pixels to process.
Release ==
  /\ consumer.pc = "release"
  /\ block' = Closed(Head(consumer.batch))
  /\ consumer' = Advanced
  /\ UNCHANGED <<epoch, ingest, queue, cameras, drops, shots, counters, history>>

-----------------------------------------------------------------------------

\* The process that holds the workers and the transport is killed and started
\* again: the table stays; a block that outlives it is recreated when written.
Restart ==
  /\ restarts < MaxRestarts /\ restarts' = restarts + 1
  /\ ingest'   = [c \in Cameras |-> Unstarted]
  /\ queue'    = [c \in Cameras |-> <<>>]
  /\ cameras'  = <<>>
  /\ block'    = NoBlocks
  /\ drops'    = [c \in Cameras |-> 0]
  /\ consumer' = Waiting
  /\ overrun'  = {}
  /\ UNCHANGED <<epoch, shots, opens, dbFailures, degraded, newest>>

IngestStep(c) ==
  \/ OpenWithNextEpoch(c)
  \/ OpenWithoutDatabase(c)
  \/ Disconnect(c)
  \/ Capture(c)
  \/ Publish(c)

InferenceStep == Consume \/ ReadStats \/ Fetch \/ Release

Next == (\E c \in Cameras : IngestStep(c)) \/ InferenceStep \/ Restart

Spec == Init /\ [][Next]_vars

-----------------------------------------------------------------------------
(* Properties *)

\* Every variable has its type (the dataclasses of transport.py and frame.py).
TypeOK ==
  /\ epoch \in [Cameras -> Epochs]
  /\ ingest \in [Cameras -> [started : BOOLEAN, connected : BOOLEAN, epoch : Epochs,
                             counter : 0 .. MaxShots, held : Frames \cup {NoFrame}]]
  /\ queue \in [Cameras -> Seq(Frames)] /\ \A c \in Cameras : Len(queue[c]) <= RingSlots
  /\ cameras \in Seq(Cameras)
  /\ block \in [Cameras -> [Slots -> 0 .. MaxShots]]
  /\ drops \in [Cameras -> Nat]
  /\ consumer \in [pc : {"consume", "stats", "fetch", "release"}, batch : Seq(Frames),
                   stats : [Cameras -> Nat], active : BOOLEAN, got : 0 .. MaxShots]
  /\ shots \in 0 .. MaxShots
  /\ overrun \subseteq Cameras /\ degraded \subseteq Cameras

\* The frames of camera c that somebody still has to process or to drop.
Outstanding(c) ==
  {queue[c][i] : i \in DOMAIN queue[c]} \cup
  {f \in {consumer.batch[i] : i \in DOMAIN consumer.batch} : f.camera = c} \cup
  ({ingest[c].held} \ {NoFrame})

\* A name is never left holding a block that nobody can reach any more: the
\* frame whose pixels it holds is still on its way (transport.py:33-38).
NothingLeaks ==
  \A c \in Cameras, s \in Slots :
    block[c][s] # NoShot => \E f \in Outstanding(c) : f.shot = block[c][s] /\ SlotOf(f.index) = s

\* As long as a camera has not written over a block in use, each of its frames
\* finds, and gets, its own pixels, whatever was evicted or reopened meanwhile.
OwnPixelsUntilOverrun ==
  /\ \A c \in Cameras \ overrun : \A f \in Outstanding(c) : Pixels(f) = f.shot
  /\ consumer.pc = "release" /\ Head(consumer.batch).camera \notin overrun
       => consumer.got = Head(consumer.batch).shot

Later(a, b) == a[1] > b[1] \/ (a[1] = b[1] /\ a[2] > b[2])

\* As long as the database answers, epoch and index of every frame are later
\* than those of all frames of the camera before it, over reconnects and
\* restarts: the ledger takes a repeated pair for a crossing it has counted.
FramesAreNamedAnew ==
  [][\A c \in Cameras : newest'[c] # newest[c] /\ dbFailures = 0 => Later(newest'[c], newest[c])]_vars

\* publish "drops the oldest frame ... and releases its shared memory block"
\* (transport.py:207-211): no other frame loses its pixels.
EvictionFreesOldest ==
  [][\A c \in Cameras, s \in Slots :
       Len(queue[c]) = RingSlots /\ Len(queue'[c]) = RingSlots /\ queue'[c] # queue[c]
         /\ block'[c][s] # block[c][s]
       => block[c][s] = Head(queue[c]).shot]_vars
=============================================================================
