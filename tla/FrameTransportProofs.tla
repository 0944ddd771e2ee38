------------------------ MODULE FrameTransportProofs ------------------------
(***************************************************************************)
(* What TLAPS proves about FrameTransport, for every number of cameras, of *)
(* ring slots and of block names: the types and bounds, that no block of   *)
(* shared memory is left behind, that a camera that never wrote over a     *)
(* block in use loses nobody's pixels, and that frames are named anew.     *)
(* That a camera has one ingest process, as FrameTransport has it, is what *)
(* Supervisor is for: the last section is about that module.               *)
(***************************************************************************)
EXTENDS FrameTransport, Supervisor, TLAPS

\* The counters, and what bounds the epochs and the indexes of TypeOK.
Bounds ==
  /\ opens \in 0 .. MaxOpens /\ dbFailures \in Nat /\ restarts \in Nat
  /\ newest \in [Cameras -> Nat \X Nat]
  /\ \A c \in Cameras : /\ epoch[c] <= opens /\ ingest[c].epoch <= opens
                        /\ ingest[c].counter <= shots

\* Frames are filed under their own camera, a frame is held only by a worker
\* that is connected, and a batch is in hand exactly while it is worked on.
Filed ==
  /\ \A c \in Cameras : \A i \in DOMAIN queue[c] : queue[c][i].camera = c
  /\ \A c \in Cameras : ingest[c].held # NoFrame => ingest[c].held.camera = c /\ ingest[c].connected
  /\ consumer.pc = "consume" <=> consumer.batch = <<>>

\* The dict has every camera that has frames, and none of them twice, so that
\* a batch has one frame of a camera at most.
Keyed ==
  /\ \A c \in Cameras : queue[c] # <<>> => \E i \in DOMAIN cameras : cameras[i] = c
  /\ \A i, j \in DOMAIN cameras : cameras[i] = cameras[j] => i = j
  /\ \A i, j \in DOMAIN consumer.batch : consumer.batch[i].camera = consumer.batch[j].camera => i = j

TransportInv == TypeOK /\ Bounds /\ Filed /\ Keyed

\* Until camera c writes over a block in use, no two of its frames share one.
ApartOf(c) ==
  /\ \A i, j \in DOMAIN queue[c] : SlotOf(queue[c][i].index) = SlotOf(queue[c][j].index) => i = j
  /\ \A i \in DOMAIN queue[c], k \in DOMAIN consumer.batch :
       consumer.batch[k].camera = c => SlotOf(queue[c][i].index) # SlotOf(consumer.batch[k].index)
  /\ ingest[c].held # NoFrame =>
       /\ \A i \in DOMAIN queue[c] : SlotOf(queue[c][i].index) # SlotOf(ingest[c].held.index)
       /\ \A k \in DOMAIN consumer.batch :
            consumer.batch[k].camera = c => SlotOf(consumer.batch[k].index) # SlotOf(ingest[c].held.index)

Apart == \A c \in Cameras \ overrun : ApartOf(c)

\* While the database answers, no camera has named a frame beyond its epoch in
\* the table, nor, in that epoch, beyond the counter of its driver.
NamedInv ==
  dbFailures = 0 => \A c \in Cameras :
    /\ newest[c][1] <= epoch[c]
    /\ ingest[c].connected => /\ ingest[c].epoch = epoch[c]
                              /\ newest[c][1] = epoch[c] => newest[c][2] <= ingest[c].counter

-----------------------------------------------------------------------------
(* Sequences and frames *)

\* What is left of a sequence when its head is taken.
LEMMA Taken ==
  ASSUME NEW S, NEW s \in Seq(S), s # <<>>
  PROVE  /\ Len(s) \in Nat /\ Len(s) >= 1
         /\ Head(s) = s[1] /\ Head(s) \in S /\ 1 \in DOMAIN s
         /\ Tail(s) \in Seq(S) /\ Len(Tail(s)) = Len(s) - 1
         /\ DOMAIN Tail(s) = 1 .. Len(s) - 1
         /\ \A i \in DOMAIN Tail(s) : i + 1 \in DOMAIN s /\ Tail(s)[i] = s[i + 1]
OBVIOUS

\* What is added to a sequence.
LEMMA Added ==
  ASSUME NEW S, NEW s \in Seq(S), NEW x \in S
  PROVE  /\ Append(s, x) \in Seq(S) /\ Len(s) \in Nat /\ Len(Append(s, x)) = Len(s) + 1
         /\ DOMAIN s = 1 .. Len(s) /\ DOMAIN Append(s, x) = 1 .. Len(s) + 1
         /\ \A i \in DOMAIN s : Append(s, x)[i] = s[i]
         /\ Append(s, x)[Len(s) + 1] = x
         /\ Append(s, x) # <<>>
OBVIOUS

\* A frame is never taken for the absence of one.
LEMMA FrameIsSome ==
  ASSUME NEW f \in Frames
  PROVE  f # NoFrame /\ f.shot \in Shots /\ f.shot # NoShot /\ f.camera \in Cameras /\ f.index \in Nat
BY BoundsAssumption DEF Frames, NoFrame, Shots, NoShot

LEMMA SlotInRange ==
  ASSUME NEW n \in Nat
  PROVE  SlotOf(n) \in Slots
BY SizesAssumption DEF SlotOf, Slots

Workers == [started : BOOLEAN, connected : BOOLEAN, epoch : Epochs,
            counter : 0 .. MaxShots, held : Frames \cup {NoFrame}]

Consumers == [pc : {"consume", "stats", "fetch", "release"}, batch : Seq(Frames),
              stats : [Cameras -> Nat], active : BOOLEAN, got : 0 .. MaxShots]

\* What the types say of one ingest worker.
LEMMA WorkerFields ==
  ASSUME TypeOK, NEW c \in Cameras
  PROVE  /\ ingest[c] \in Workers
         /\ ingest[c].epoch \in Epochs /\ ingest[c].epoch \in Nat
         /\ ingest[c].counter \in 0 .. MaxShots /\ ingest[c].counter \in Nat
         /\ ingest[c].held # NoFrame => ingest[c].held \in Frames
<1>1. ingest[c] \in Workers
  BY DEF TypeOK, Workers
<1>2. ingest[c].epoch \in Epochs /\ ingest[c].counter \in 0 .. MaxShots
      /\ ingest[c].held \in Frames \cup {NoFrame}
  BY <1>1 DEF Workers
<1> QED
  BY <1>1, <1>2 DEF Epochs

\* Closing a block empties one name and leaves the others as they are.
LEMMA ClosedBlock ==
  ASSUME TypeOK, NEW f \in Frames
  PROVE  /\ Closed(f) \in [Cameras -> [Slots -> 0 .. MaxShots]]
         /\ \A c \in Cameras, s \in Slots :
              Closed(f)[c][s] = IF c = f.camera /\ s = SlotOf(f.index) THEN NoShot ELSE block[c][s]
<1>1. block \in [Cameras -> [Slots -> 0 .. MaxShots]]
  BY DEF TypeOK
<1>2. f.camera \in Cameras /\ SlotOf(f.index) \in Slots
  BY FrameIsSome, SlotInRange
<1>3. Closed(f) = [block EXCEPT ![f.camera] = [block[f.camera] EXCEPT ![SlotOf(f.index)] = NoShot]]
  BY <1>1 DEF Closed
<1>4. block[f.camera] \in [Slots -> 0 .. MaxShots] /\ NoShot \in 0 .. MaxShots
  BY <1>1, <1>2, BoundsAssumption DEF NoShot
<1> HIDE DEF Slots
<1>5. [block[f.camera] EXCEPT ![SlotOf(f.index)] = NoShot] \in [Slots -> 0 .. MaxShots]
  BY <1>2, <1>4
<1>6. \A s \in Slots : [block[f.camera] EXCEPT ![SlotOf(f.index)] = NoShot][s]
                         = IF s = SlotOf(f.index) THEN NoShot ELSE block[f.camera][s]
  BY <1>2, <1>4
<1> QED
  BY <1>1, <1>2, <1>3, <1>5, <1>6

-----------------------------------------------------------------------------
(* Types, bounds and where frames are filed *)

LEMMA TransportInvInit == Init => TransportInv
<1> SUFFICES ASSUME Init PROVE TransportInv
  OBVIOUS
<1>1. TypeOK
  BY SizesAssumption, BoundsAssumption
  DEF Init, TypeOK, Unstarted, Waiting, NoBlocks, Epochs, NoShot, Slots
<1>2. Bounds
  BY BoundsAssumption DEF Init, Bounds, Unstarted
<1>3. Filed
  BY DEF Init, Filed, Unstarted, Waiting
<1>4. Keyed
  BY DEF Init, Keyed, Waiting
<1> QED
  BY <1>1, <1>2, <1>3, <1>4 DEF TransportInv

LEMMA OpenedKeeps ==
  ASSUME TransportInv, NEW c \in Cameras, NEW e \in Nat, e <= opens + 1, ~ ingest[c].connected,
         epoch' = epoch \/ epoch' = [epoch EXCEPT ![c] = e],
         dbFailures' \in Nat, Opened(c, e)
  PROVE  TransportInv'
<1> USE DEF TransportInv, Opened, history
<1>1. opens' = opens + 1 /\ opens' \in 0 .. MaxOpens /\ opens \in Nat
  BY BoundsAssumption DEF Bounds
<1>2. PICK connected \in BOOLEAN :
        ingest' = [ingest EXCEPT ![c] = [Unstarted EXCEPT !.started = TRUE, !.connected = connected, !.epoch = e]]
  OBVIOUS
<1>3. TypeOK'
  <2>1. e \in Epochs
    BY <1>1, BoundsAssumption DEF Epochs
  <2>2. [Unstarted EXCEPT !.started = TRUE, !.connected = connected, !.epoch = e]
          \in Workers
    <3>1. Unstarted \in Workers
      BY BoundsAssumption DEF Unstarted, Workers, Epochs
    <3> QED
      BY <2>1, <3>1 DEF Workers
  <2>3. ingest' \in [Cameras -> Workers]
    BY <1>2, <2>2 DEF TypeOK, Workers
  <2>4. epoch' \in [Cameras -> Epochs]
    BY <2>1 DEF TypeOK
  <2> QED
    BY <2>3, <2>4 DEF TypeOK, Workers
<1>4. Bounds'
  <2>1. newest' = newest /\ shots' = shots /\ shots \in Nat /\ restarts' = restarts
    BY BoundsAssumption DEF TypeOK
  <2>2. ASSUME NEW x \in Cameras
        PROVE  epoch'[x] <= opens' /\ ingest'[x].epoch <= opens' /\ ingest'[x].counter <= shots'
    <3>1. epoch[x] \in Nat /\ ingest[x].epoch \in Nat /\ ingest[x].counter \in Nat
      BY DEF TypeOK, Epochs
    <3>2. epoch[x] <= opens /\ ingest[x].epoch <= opens /\ ingest[x].counter <= shots
      BY DEF Bounds
    <3>3. epoch'[x] = epoch[x] \/ epoch'[x] = e
      BY DEF TypeOK
    <3>4. x # c => ingest'[x] = ingest[x]
      BY <1>2
    <3>5. x = c => ingest'[x].epoch = e /\ ingest'[x].counter = 0
      BY <1>2 DEF TypeOK, Unstarted
    <3> QED
      BY <1>1, <2>1, <3>1, <3>2, <3>3, <3>4, <3>5
  <2> QED
    BY <1>1, <2>1, <2>2 DEF Bounds
<1>5. Filed'
  <2>1. ingest'[c].held = NoFrame
    BY <1>2 DEF TypeOK, Unstarted
  <2>2. \A x \in Cameras : x # c => ingest'[x] = ingest[x]
    BY <1>2
  <2> QED
    BY <2>1, <2>2 DEF Filed
<1>6. Keyed'
  BY DEF Keyed
<1> QED
  BY <1>3, <1>4, <1>5, <1>6

LEMMA CaptureKeeps ==
  ASSUME TransportInv, NEW c \in Cameras, Capture(c)
  PROVE  TransportInv'
<1> USE DEF TransportInv, Capture
<1> DEFINE index == ingest[c].counter + 1
           frame == [camera |-> c, epoch |-> ingest[c].epoch, index |-> index, shot |-> shots + 1]
<1>1. shots \in Nat /\ shots + 1 \in Shots /\ shots' = shots + 1
  BY BoundsAssumption DEF TypeOK, Shots
<1>2. index \in Nat /\ index <= shots' /\ index \in Shots
  <2>1. ingest[c].counter \in Nat /\ ingest[c].counter <= shots
    BY WorkerFields DEF Bounds
  <2> QED
    BY <1>1, <2>1, BoundsAssumption DEF Shots
<1>3. frame \in Frames /\ frame # NoFrame
  <2>1. ingest[c].epoch \in Epochs
    BY WorkerFields
  <2>2. frame \in Frames
    BY <1>1, <1>2, <2>1 DEF Frames
  <2> QED
    BY <2>2, FrameIsSome
<1>4. ingest' = [ingest EXCEPT ![c] = [[ingest[c] EXCEPT !.counter = index] EXCEPT !.held = frame]]
  BY <1>1 DEF TypeOK
<1>5. newest' = [newest EXCEPT ![c] = <<ingest[c].epoch, index>>] /\ UNCHANGED <<epoch, queue, cameras, drops, consumer, counters, degraded>>
  OBVIOUS
<1> HIDE DEF index, frame
<1>a. ingest'[c].held = frame /\ ingest'[c].connected /\ ingest'[c].epoch = ingest[c].epoch
      /\ ingest'[c].counter = index
  <2>1. ingest'[c] = [[ingest[c] EXCEPT !.counter = index] EXCEPT !.held = frame]
    BY <1>4 DEF TypeOK
  <2>2. ingest[c] \in Workers
    BY WorkerFields
  <2>3. ingest'[c].held = frame
    BY <2>1, <2>2 DEF Workers
  <2>4. ingest'[c].epoch = ingest[c].epoch /\ ingest'[c].counter = index
    BY <2>1, <2>2 DEF Workers
  <2>5. ingest'[c].connected = ingest[c].connected
    BY <2>1, <2>2 DEF Workers
  <2>6. ingest[c].connected
    OBVIOUS
  <2> QED
    BY <2>3, <2>4, <2>5, <2>6
<1>b. \A x \in Cameras : x # c => ingest'[x] = ingest[x]
  BY <1>4 DEF TypeOK
<1>6. TypeOK'
  <2>1. NextSlot(c) \in Slots
    BY SlotInRange, <1>2 DEF NextSlot, index
  <2>2. block' \in [Cameras -> [Slots -> 0 .. MaxShots]]
    BY <1>1, <2>1 DEF TypeOK, FreshBlock, Shots
  <2>3. ingest' \in [Cameras -> Workers]
    <3>1. ingest[c] \in Workers
      BY WorkerFields
    <3>2. index \in 0 .. MaxShots
      BY <1>2, BoundsAssumption DEF Shots
    <3>3. [[ingest[c] EXCEPT !.counter = index] EXCEPT !.held = frame] \in Workers
      BY <1>3, <3>1, <3>2 DEF Workers
    <3> QED
      BY <1>4, <3>3 DEF TypeOK, Workers
  <2>4. overrun' \subseteq Cameras /\ degraded' = degraded /\ shots' \in 0 .. MaxShots
    BY <1>1 DEF TypeOK, Shots
  <2> QED
    BY <1>5, <2>2, <2>3, <2>4 DEF TypeOK, Workers
<1>7. Bounds'
  <2>1. UNCHANGED <<opens, dbFailures, restarts, epoch>>
    BY <1>5 DEF counters
  <2>2. newest' \in [Cameras -> Nat \X Nat]
    <3>1. ingest[c].epoch \in Nat
      BY WorkerFields
    <3> QED
      BY <1>2, <1>5, <3>1 DEF Bounds
  <2>3. ASSUME NEW x \in Cameras
        PROVE  ingest'[x].epoch = ingest[x].epoch /\ ingest'[x].counter <= shots'
    <3>1. ingest[x].counter \in Nat /\ ingest[x].counter <= shots
      BY WorkerFields DEF Bounds
    <3>2. x # c => ingest'[x] = ingest[x]
      BY <1>b
    <3>3. x = c => ingest'[x].epoch = ingest[x].epoch /\ ingest'[x].counter = index
      BY <1>a
    <3> QED
      BY <1>1, <1>2, <3>1, <3>2, <3>3
  <2> QED
    BY <2>1, <2>2, <2>3 DEF Bounds
<1>8. Filed'
  <2>1. frame.camera = c
    BY DEF frame
  <2> QED
    <3>1. queue' = queue /\ consumer' = consumer
      BY <1>5
    <3>2. \A x \in Cameras : ingest'[x].held # NoFrame => ingest'[x].held.camera = x /\ ingest'[x].connected
      BY <1>a, <1>b, <2>1 DEF Filed
    <3> QED
      <4>1. \A x \in Cameras : \A i \in DOMAIN queue'[x] : queue'[x][i].camera = x
        BY <3>1 DEF Filed
      <4>2. consumer'.pc = "consume" <=> consumer'.batch = <<>>
        BY <3>1 DEF Filed
      <4> QED
        BY <3>2, <4>1, <4>2 DEF Filed
<1>9. Keyed'
  BY <1>5 DEF Keyed
<1> QED
  BY <1>6, <1>7, <1>8, <1>9

LEMMA DisconnectKeeps ==
  ASSUME TransportInv, NEW c \in Cameras, Disconnect(c)
  PROVE  TransportInv'
<1> USE DEF TransportInv, Disconnect
<1>1. ingest' = [ingest EXCEPT ![c] = [ingest[c] EXCEPT !.connected = FALSE]]
  OBVIOUS
<1>2. UNCHANGED <<epoch, queue, cameras, block, drops, consumer, shots, opens, dbFailures, restarts,
                  overrun, degraded, newest>>
  BY DEF counters, history
<1>3. ingest[c] \in Workers
  BY WorkerFields
<1>4. ingest'[c] = [ingest[c] EXCEPT !.connected = FALSE]
  BY <1>1 DEF TypeOK
<1>5. ingest'[c].held = NoFrame /\ ingest'[c].epoch = ingest[c].epoch /\ ingest'[c].counter = ingest[c].counter
  BY <1>3, <1>4 DEF Workers
<1>6. \A x \in Cameras : x # c => ingest'[x] = ingest[x]
  BY <1>1 DEF TypeOK
<1>7. TypeOK'
  <2>1. [ingest[c] EXCEPT !.connected = FALSE] \in Workers
    BY <1>3 DEF Workers
  <2>2. ingest' \in [Cameras -> Workers]
    BY <1>1, <2>1 DEF TypeOK, Workers
  <2> QED
    BY <1>2, <2>2 DEF TypeOK, Workers
<1>8. Bounds'
  BY <1>2, <1>5, <1>6 DEF Bounds
<1>9. Filed'
  <2>1. \A x \in Cameras : ingest'[x].held # NoFrame => ingest'[x].held.camera = x /\ ingest'[x].connected
    BY <1>5, <1>6 DEF Filed
  <2>2. \A x \in Cameras : \A i \in DOMAIN queue'[x] : queue'[x][i].camera = x
    BY <1>2 DEF Filed
  <2>3. consumer'.pc = "consume" <=> consumer'.batch = <<>>
    BY <1>2 DEF Filed
  <2> QED
    BY <2>1, <2>2, <2>3 DEF Filed
<1>10. Keyed'
  BY <1>2 DEF Keyed
<1> QED
  BY <1>7, <1>8, <1>9, <1>10

\* Either way of publishing, the queue of the camera is a suffix of what it was,
\* followed by the frame that was held.
LEMMA PublishedQueue ==
  ASSUME TransportInv, NEW c \in Cameras, Publish(c)
  PROVE  /\ ingest[c].held \in Frames /\ ingest[c].held # NoFrame /\ ingest[c].held.camera = c
         /\ queue' = [queue EXCEPT ![c] = queue'[c]]
         /\ queue'[c] \in Seq(Frames) /\ queue'[c] # <<>> /\ Len(queue'[c]) <= RingSlots
         /\ \A i \in DOMAIN queue'[c] : i # Len(queue'[c]) => queue'[c][i] \in {queue[c][j] : j \in DOMAIN queue[c]}
         /\ queue'[c][Len(queue'[c])] = ingest[c].held
<1> USE DEF TransportInv
<1>1. ingest[c].held \in Frames /\ ingest[c].held # NoFrame /\ ingest[c].held.camera = c
  BY WorkerFields DEF Publish, Filed
<1>2. queue[c] \in Seq(Frames) /\ Len(queue[c]) <= RingSlots /\ queue \in [Cameras -> Seq(Frames)]
  BY DEF TypeOK
<1>3. CASE Evict(c)
  <2>1. queue[c] # <<>>
    BY <1>2, <1>3, SizesAssumption DEF Evict
  <2>2. queue'[c] = Append(Tail(queue[c]), ingest[c].held) /\ queue' = [queue EXCEPT ![c] = queue'[c]]
    BY <1>2, <1>3 DEF Evict
  <2> DEFINE rest == Tail(queue[c])
  <2>3. /\ rest \in Seq(Frames) /\ Len(rest) = Len(queue[c]) - 1
        /\ \A i \in DOMAIN rest : i + 1 \in DOMAIN queue[c] /\ rest[i] = queue[c][i + 1]
    BY <1>2, <2>1, Taken
  <2> HIDE DEF rest
  <2>4. /\ Append(rest, ingest[c].held) \in Seq(Frames)
        /\ Len(Append(rest, ingest[c].held)) = Len(rest) + 1 /\ Len(rest) \in Nat
        /\ DOMAIN rest = 1 .. Len(rest) /\ DOMAIN Append(rest, ingest[c].held) = 1 .. Len(rest) + 1
        /\ \A i \in DOMAIN rest : Append(rest, ingest[c].held)[i] = rest[i]
        /\ Append(rest, ingest[c].held)[Len(rest) + 1] = ingest[c].held
        /\ Append(rest, ingest[c].held) # <<>>
    BY <1>1, <2>3, Added
  <2>5. queue'[c] = Append(rest, ingest[c].held)
    BY <2>2 DEF rest
  <2>6. Len(queue'[c]) <= RingSlots
    BY <1>2, <2>3, <2>4, <2>5, SizesAssumption
  <2>7. \A i \in DOMAIN queue'[c] : i # Len(queue'[c]) => queue'[c][i] \in {queue[c][j] : j \in DOMAIN queue[c]}
    BY <2>3, <2>4, <2>5
  <2> QED
    BY <1>1, <2>2, <2>4, <2>5, <2>6, <2>7
<1>4. CASE Enqueue(c)
  <2>1. queue'[c] = Append(queue[c], ingest[c].held) /\ queue' = [queue EXCEPT ![c] = queue'[c]]
    BY <1>2, <1>4 DEF Enqueue
  <2>2. /\ queue'[c] \in Seq(Frames) /\ queue'[c] # <<>>
        /\ Len(queue'[c]) = Len(queue[c]) + 1 /\ Len(queue[c]) \in Nat
        /\ DOMAIN queue[c] = 1 .. Len(queue[c]) /\ DOMAIN queue'[c] = 1 .. Len(queue[c]) + 1
        /\ \A i \in DOMAIN queue[c] : queue'[c][i] = queue[c][i]
        /\ queue'[c][Len(queue[c]) + 1] = ingest[c].held
    BY <1>1, <1>2, <2>1, Added
  <2>3. Len(queue'[c]) <= RingSlots
    BY <1>4, <2>2, SizesAssumption DEF Enqueue
  <2>4. \A i \in DOMAIN queue'[c] : i # Len(queue'[c]) => queue'[c][i] \in {queue[c][j] : j \in DOMAIN queue[c]}
    BY <2>2
  <2> QED
    BY <1>1, <2>1, <2>2, <2>3, <2>4
<1> QED
  BY <1>3, <1>4 DEF Publish

\* The key of the camera is in the dict after a publish, and no key is there twice.
LEMMA InRingKeyed ==
  ASSUME TypeOK, NEW c \in Cameras, \A i, j \in DOMAIN cameras : cameras[i] = cameras[j] => i = j
  PROVE  /\ InRing(c) \in Seq(Cameras)
         /\ \E i \in DOMAIN InRing(c) : InRing(c)[i] = c
         /\ \A x \in Cameras : (\E i \in DOMAIN cameras : cameras[i] = x) => \E i \in DOMAIN InRing(c) : InRing(c)[i] = x
         /\ \A i, j \in DOMAIN InRing(c) : InRing(c)[i] = InRing(c)[j] => i = j
<1>1. cameras \in Seq(Cameras)
  BY DEF TypeOK
<1>2. CASE \E i \in DOMAIN cameras : cameras[i] = c
  BY <1>1, <1>2 DEF InRing
<1>3. CASE ~ \E i \in DOMAIN cameras : cameras[i] = c
  <2>1. InRing(c) = Append(cameras, c)
    BY <1>3 DEF InRing
  <2>2. /\ InRing(c) \in Seq(Cameras) /\ Len(cameras) \in Nat
        /\ DOMAIN cameras = 1 .. Len(cameras) /\ DOMAIN InRing(c) = 1 .. Len(cameras) + 1
        /\ \A i \in DOMAIN cameras : InRing(c)[i] = cameras[i]
        /\ InRing(c)[Len(cameras) + 1] = c
    BY <1>1, <2>1, Added
  <2>3. \E i \in DOMAIN InRing(c) : InRing(c)[i] = c
    BY <2>2
  <2>4. \A x \in Cameras : (\E i \in DOMAIN cameras : cameras[i] = x) => \E i \in DOMAIN InRing(c) : InRing(c)[i] = x
    BY <2>2
  <2>5. \A i, j \in DOMAIN InRing(c) : InRing(c)[i] = InRing(c)[j] => i = j
    BY <1>3, <2>2
  <2> QED
    BY <2>2, <2>3, <2>4, <2>5
<1> QED
  BY <1>2, <1>3

LEMMA PublishKeeps ==
  ASSUME TransportInv, NEW c \in Cameras, Publish(c)
  PROVE  TransportInv'
<1> USE DEF TransportInv
<1>1. UNCHANGED <<epoch, consumer, shots, opens, dbFailures, restarts, overrun, degraded, newest>>
  BY DEF Publish, counters
<1>2. ingest' = [ingest EXCEPT ![c] = [ingest[c] EXCEPT !.held = NoFrame]] /\ cameras' = InRing(c)
  BY DEF Publish
<1>3. ingest[c] \in Workers
  BY WorkerFields
<1>4. ingest'[c] = [ingest[c] EXCEPT !.held = NoFrame]
  BY <1>2 DEF TypeOK
<1>5. ingest'[c].held = NoFrame /\ ingest'[c].epoch = ingest[c].epoch /\ ingest'[c].counter = ingest[c].counter
  BY <1>3, <1>4 DEF Workers
<1>6. \A x \in Cameras : x # c => ingest'[x] = ingest[x]
  BY <1>2 DEF TypeOK
<1>7. /\ queue' = [queue EXCEPT ![c] = queue'[c]]
      /\ queue'[c] \in Seq(Frames) /\ queue'[c] # <<>> /\ Len(queue'[c]) <= RingSlots
      /\ \A i \in DOMAIN queue'[c] : i # Len(queue'[c]) => queue'[c][i] \in {queue[c][j] : j \in DOMAIN queue[c]}
      /\ queue'[c][Len(queue'[c])] = ingest[c].held
      /\ ingest[c].held.camera = c /\ ingest[c].held \in Frames
  BY PublishedQueue
<1>8. TypeOK'
  <2>1. ingest' \in [Cameras -> Workers]
    <3>1. [ingest[c] EXCEPT !.held = NoFrame] \in Workers
      BY <1>3 DEF Workers
    <3> QED
      BY <1>2, <3>1 DEF TypeOK, Workers
  <2>2. queue' \in [Cameras -> Seq(Frames)] /\ \A x \in Cameras : Len(queue'[x]) <= RingSlots
    BY <1>7 DEF TypeOK
  <2>3. cameras' \in Seq(Cameras)
    BY <1>2, InRingKeyed DEF Keyed
  <2>4. block' \in [Cameras -> [Slots -> 0 .. MaxShots]]
    <3>1. CASE Evict(c)
      <4>1. Head(queue[c]) \in Frames
        <5>1. queue[c] \in Seq(Frames) /\ queue[c] # <<>>
          BY <3>1, SizesAssumption DEF Evict, TypeOK
        <5> QED
          BY <5>1, Taken
      <4> QED
        BY <3>1, <4>1, ClosedBlock DEF Evict
    <3>2. CASE Enqueue(c)
      BY <3>2 DEF Enqueue, TypeOK
    <3> QED
      BY <3>1, <3>2 DEF Publish
  <2>5. drops' \in [Cameras -> Nat]
    <3>1. drops[c] \in Nat /\ drops \in [Cameras -> Nat]
      BY DEF TypeOK
    <3>2. drops' = [drops EXCEPT ![c] = drops[c] + 1] \/ drops' = [drops EXCEPT ![c] = 0]
      BY DEF Publish, Evict, Enqueue
    <3> QED
      BY <3>1, <3>2
  <2> QED
    BY <1>1, <2>1, <2>2, <2>3, <2>4, <2>5 DEF TypeOK, Workers
<1>9. Bounds'
  BY <1>1, <1>5, <1>6 DEF Bounds
<1>10. Filed'
  <2>1. \A x \in Cameras : ingest'[x].held # NoFrame => ingest'[x].held.camera = x /\ ingest'[x].connected
    BY <1>5, <1>6 DEF Filed
  <2>2. \A x \in Cameras : \A i \in DOMAIN queue'[x] : queue'[x][i].camera = x
    <3>1. \A x \in Cameras : x # c => queue'[x] = queue[x]
      BY <1>7 DEF TypeOK
    <3>2. \A i \in DOMAIN queue'[c] : queue'[c][i].camera = c
      BY <1>7 DEF Filed
    <3> QED
      BY <3>1, <3>2 DEF Filed
  <2>3. consumer'.pc = "consume" <=> consumer'.batch = <<>>
    BY <1>1 DEF Filed
  <2> QED
    BY <2>1, <2>2, <2>3 DEF Filed
<1>11. Keyed'
  <2>1. \A x \in Cameras : x # c => queue'[x] = queue[x]
    BY <1>7 DEF TypeOK
  <2>2. \A x \in Cameras : queue'[x] # <<>> => \E i \in DOMAIN cameras' : cameras'[i] = x
    <3>1. \E i \in DOMAIN cameras' : cameras'[i] = c
      BY <1>2, InRingKeyed DEF Keyed
    <3>2. \A x \in Cameras : (\E i \in DOMAIN cameras : cameras[i] = x) => \E i \in DOMAIN cameras' : cameras'[i] = x
      <4>1. \A i, j \in DOMAIN cameras : cameras[i] = cameras[j] => i = j
        BY DEF Keyed
      <4>2. \A x \in Cameras : (\E i \in DOMAIN cameras : cameras[i] = x) => \E i \in DOMAIN InRing(c) : InRing(c)[i] = x
        BY <4>1, InRingKeyed
      <4> QED
        BY <1>2, <4>2
    <3> QED
      BY <2>1, <3>1, <3>2 DEF Keyed
  <2>3. \A i, j \in DOMAIN cameras' : cameras'[i] = cameras'[j] => i = j
    BY <1>2, InRingKeyed DEF Keyed
  <2>4. consumer' = consumer
    BY <1>1
  <2> QED
    BY <2>2, <2>3, <2>4 DEF Keyed
<1> QED
  BY <1>8, <1>9, <1>10, <1>11

\* A batch is the heads of the queues that have any, one of each camera.
LEMMA ConsumedBatch ==
  ASSUME TransportInv, Consume
  PROVE  /\ consumer' \in Consumers /\ consumer'.pc = "stats"
         /\ consumer'.batch \in Seq(Frames) /\ consumer'.batch # <<>>
         /\ \A k \in DOMAIN consumer'.batch :
              \E c \in Cameras : queue[c] # <<>> /\ consumer'.batch[k] = queue[c][1]
         /\ \A c \in Cameras : queue[c] # <<>> =>
              \E k \in DOMAIN consumer'.batch : consumer'.batch[k] = queue[c][1]
         /\ \A k, l \in DOMAIN consumer'.batch :
              consumer'.batch[k].camera = consumer'.batch[l].camera => k = l
<1> USE DEF TransportInv
<1> DEFINE ready == {i \in DOMAIN cameras : queue[cameras[i]] # <<>>}
<1>0. PICK n \in 1 .. Len(cameras) : \E places \in [1 .. n -> ready] :
        /\ InOrder(places) /\ ready = {places[i] : i \in 1 .. n}
        /\ consumer' = [consumer EXCEPT !.pc = "stats",
                                        !.batch = [i \in 1 .. n |-> Head(queue[cameras[places[i]]])]]
  BY Zenon DEF Consume
<1>1. PICK places \in [1 .. n -> ready] :
        /\ InOrder(places) /\ ready = {places[i] : i \in 1 .. n}
        /\ consumer' = [consumer EXCEPT !.pc = "stats",
                                        !.batch = [i \in 1 .. n |-> Head(queue[cameras[places[i]]])]]
  BY <1>0, Zenon
<1>2. cameras \in Seq(Cameras) /\ queue \in [Cameras -> Seq(Frames)] /\ consumer \in Consumers
  BY DEF TypeOK, Consumers
<1> DEFINE batch == [i \in 1 .. n |-> Head(queue[cameras[places[i]]])]
<1>3. n \in Nat /\ n >= 1
  BY <1>2
<1>4. ASSUME NEW i \in 1 .. n
      PROVE  /\ places[i] \in DOMAIN cameras /\ cameras[places[i]] \in Cameras
             /\ queue[cameras[places[i]]] # <<>>
             /\ batch[i] = queue[cameras[places[i]]][1] /\ batch[i] \in Frames
             /\ batch[i].camera = cameras[places[i]]
  <2>1. places[i] \in ready
    BY <1>1, <1>4
  <2>2. places[i] \in DOMAIN cameras /\ queue[cameras[places[i]]] # <<>> /\ cameras[places[i]] \in Cameras
    BY <1>2, <2>1
  <2>3. /\ Head(queue[cameras[places[i]]]) = queue[cameras[places[i]]][1]
        /\ Head(queue[cameras[places[i]]]) \in Frames /\ 1 \in DOMAIN queue[cameras[places[i]]]
    BY <1>2, <2>2, Taken
  <2>4. queue[cameras[places[i]]][1].camera = cameras[places[i]]
    BY <2>2, <2>3 DEF Filed
  <2> QED
    BY <1>4, <2>2, <2>3, <2>4
<1>5. batch \in Seq(Frames) /\ batch # <<>> /\ DOMAIN batch = 1 .. n
  <2>1. batch \in [1 .. n -> Frames]
    BY <1>4
  <2>2. batch \in Seq(Frames)
    BY <1>3, <2>1
  <2>3. 1 \in DOMAIN batch
    BY <1>3
  <2> QED
    BY <2>2, <2>3
<1>6. \A c \in Cameras : queue[c] # <<>> => \E k \in 1 .. n : batch[k] = queue[c][1]
  <2> SUFFICES ASSUME NEW c \in Cameras, queue[c] # <<>>
               PROVE  \E k \in 1 .. n : batch[k] = queue[c][1]
    OBVIOUS
  <2>1. PICK i \in DOMAIN cameras : cameras[i] = c
    BY DEF Keyed
  <2>2. i \in ready
    BY <2>1
  <2>3. PICK k \in 1 .. n : places[k] = i
    BY <1>1, <2>2
  <2> QED
    BY <1>4, <2>1, <2>3
<1>7. \A k, l \in 1 .. n : batch[k].camera = batch[l].camera => k = l
  <2> SUFFICES ASSUME NEW k \in 1 .. n, NEW l \in 1 .. n, batch[k].camera = batch[l].camera
               PROVE  k = l
    OBVIOUS
  <2>1. cameras[places[k]] = cameras[places[l]] /\ places[k] \in DOMAIN cameras /\ places[l] \in DOMAIN cameras
    BY <1>4
  <2>2. places[k] = places[l] /\ places[k] \in Nat
    BY <1>2, <2>1 DEF Keyed
  <2>3. ~ (k < l) /\ ~ (l < k)
    <3>1. DOMAIN places = 1 .. n
      OBVIOUS
    <3>2. k < l => places[k] < places[l]
      BY <1>1, <3>1 DEF InOrder
    <3>3. l < k => places[l] < places[k]
      BY <1>1, <3>1 DEF InOrder
    <3> QED
      BY <2>2, <3>2, <3>3
  <2> QED
    BY <1>3, <2>3
<1>8. consumer' = [[consumer EXCEPT !.pc = "stats"] EXCEPT !.batch = batch]
  BY <1>1
<1> HIDE DEF batch, ready
<1>9. consumer' \in Consumers /\ consumer'.pc = "stats" /\ consumer'.batch = batch
  BY <1>2, <1>5, <1>8 DEF Consumers
<1>10. \A k \in 1 .. n : \E c \in Cameras : queue[c] # <<>> /\ batch[k] = queue[c][1]
  BY <1>4
<1> QED
  BY <1>5, <1>6, <1>7, <1>9, <1>10

\* What consume leaves in the queues.
LEMMA ConsumedQueue ==
  ASSUME TransportInv, Consume, NEW c \in Cameras
  PROVE  /\ queue' \in [Cameras -> Seq(Frames)] /\ Len(queue'[c]) <= Len(queue[c])
         /\ Len(queue[c]) \in Nat /\ Len(queue'[c]) \in Nat
         /\ queue[c] = <<>> => queue'[c] = <<>>
         /\ \A i \in DOMAIN queue'[c] : i \in Nat /\ i + 1 \in DOMAIN queue[c] /\ queue'[c][i] = queue[c][i + 1]
         /\ \A i \in DOMAIN queue[c] : i \in Nat /\ (i # 1 => i - 1 \in DOMAIN queue'[c] /\ queue'[c][i - 1] = queue[c][i])
<1>1. queue \in [Cameras -> Seq(Frames)]
  BY DEF TransportInv, TypeOK
<1>2. queue' = [x \in Cameras |-> IF queue[x] = <<>> THEN <<>> ELSE Tail(queue[x])]
  BY DEF Consume
<1>3. queue' \in [Cameras -> Seq(Frames)]
  <2>1. \A x \in Cameras : queue[x] # <<>> => Tail(queue[x]) \in Seq(Frames)
    BY <1>1, Taken
  <2> QED
    BY <1>2, <2>1
<1>4. CASE queue[c] = <<>>
  BY <1>1, <1>2, <1>3, <1>4
<1>5. CASE queue[c] # <<>>
  <2>1. queue'[c] = Tail(queue[c])
    BY <1>2, <1>5
  <2>2. /\ Len(queue[c]) \in Nat /\ Len(queue[c]) >= 1 /\ Len(Tail(queue[c])) = Len(queue[c]) - 1
        /\ DOMAIN Tail(queue[c]) = 1 .. Len(queue[c]) - 1
        /\ \A i \in DOMAIN Tail(queue[c]) : i + 1 \in DOMAIN queue[c] /\ Tail(queue[c])[i] = queue[c][i + 1]
    BY <1>1, <1>5, Taken
  <2>3. DOMAIN queue[c] = 1 .. Len(queue[c])
    BY <1>1
  <2> QED
    BY <1>3, <1>5, <2>1, <2>2, <2>3
<1> QED
  BY <1>4, <1>5

LEMMA ConsumeKeeps ==
  ASSUME TransportInv, Consume
  PROVE  TransportInv'
<1> USE DEF TransportInv
<1>1. UNCHANGED <<epoch, ingest, cameras, block, drops, shots, opens, dbFailures, restarts,
                  overrun, degraded, newest>>
  BY DEF Consume, counters, history
<1>2. TypeOK'
  <2>1. consumer' \in Consumers
    BY ConsumedBatch
  <2>2. queue' \in [Cameras -> Seq(Frames)]
    <3>1. \A x \in Cameras : queue[x] # <<>> => Tail(queue[x]) \in Seq(Frames)
      BY Taken DEF TypeOK
    <3> QED
      BY <3>1 DEF Consume
  <2>3. \A c \in Cameras : Len(queue'[c]) <= RingSlots
    BY ConsumedQueue, SizesAssumption DEF TypeOK
  <2> QED
    BY <1>1, <2>1, <2>2, <2>3 DEF TypeOK, Consumers
<1>3. Bounds'
  BY <1>1 DEF Bounds
<1>4. Filed'
  <2>1. \A c \in Cameras : ingest'[c].held # NoFrame => ingest'[c].held.camera = c /\ ingest'[c].connected
    BY <1>1 DEF Filed
  <2>2. \A c \in Cameras : \A i \in DOMAIN queue'[c] : queue'[c][i].camera = c
    BY ConsumedQueue DEF Filed
  <2>3. consumer'.pc = "consume" <=> consumer'.batch = <<>>
    BY ConsumedBatch
  <2> QED
    BY <2>1, <2>2, <2>3 DEF Filed
<1>5. Keyed'
  <2>1. \A c \in Cameras : queue'[c] # <<>> => queue[c] # <<>>
    BY ConsumedQueue
  <2>2. \A k, l \in DOMAIN consumer'.batch : consumer'.batch[k].camera = consumer'.batch[l].camera => k = l
    BY ConsumedBatch
  <2> QED
    BY <1>1, <2>1, <2>2 DEF Keyed
<1> QED
  BY <1>2, <1>3, <1>4, <1>5

\* ReadStats and Fetch leave the batch alone; the head of it is there to fetch.
LEMMA WorkedBatch ==
  ASSUME TransportInv, ReadStats \/ Fetch
  PROVE  /\ consumer' \in Consumers /\ consumer'.batch = consumer.batch /\ consumer.batch # <<>>
         /\ consumer'.pc # "consume"
         /\ Fetch => /\ consumer'.got = Pixels(consumer.batch[1]) /\ Head(consumer.batch) = consumer.batch[1]
                     /\ consumer.batch[1] \in Frames /\ 1 \in DOMAIN consumer.batch
         /\ ReadStats => consumer'.pc # "release"
<1> USE DEF TransportInv
<1>1. consumer \in Consumers /\ drops \in [Cameras -> Nat] /\ block \in [Cameras -> [Slots -> 0 .. MaxShots]]
  BY DEF TypeOK, Consumers
<1>2. consumer.batch # <<>> /\ consumer.batch \in Seq(Frames)
  BY <1>1 DEF ReadStats, Fetch, Filed, Consumers
<1>3. Head(consumer.batch) = consumer.batch[1] /\ consumer.batch[1] \in Frames /\ 1 \in DOMAIN consumer.batch
  BY <1>2, Taken
<1>4. CASE ReadStats
  <2>1. PICK active \in BOOLEAN :
          consumer' = [consumer EXCEPT !.pc = "fetch", !.stats = drops, !.active = active]
    BY <1>4 DEF ReadStats
  <2>2. consumer' \in Consumers /\ consumer'.batch = consumer.batch /\ consumer'.pc = "fetch"
    BY <1>1, <2>1 DEF Consumers
  <2>3. ~ Fetch
    BY <1>4 DEF ReadStats, Fetch
  <2> QED
    BY <1>2, <2>2, <2>3
<1>5. CASE Fetch
  <2>1. consumer' = [consumer EXCEPT !.pc = "release", !.got = Pixels(consumer.batch[1])]
    BY <1>3, <1>5 DEF Fetch
  <2>2. Pixels(consumer.batch[1]) \in 0 .. MaxShots
    BY <1>1, <1>3, FrameIsSome, SlotInRange DEF Pixels
  <2>3. /\ consumer' \in Consumers /\ consumer'.batch = consumer.batch /\ consumer'.pc = "release"
        /\ consumer'.got = Pixels(consumer.batch[1])
    BY <1>1, <2>1, <2>2 DEF Consumers
  <2>4. ~ ReadStats
    BY <1>5 DEF ReadStats, Fetch
  <2> QED
    BY <1>2, <1>3, <2>3, <2>4
<1> QED
  BY <1>4, <1>5

\* Release goes on to the rest of the batch.
LEMMA ReleasedBatch ==
  ASSUME TransportInv, Release
  PROVE  /\ consumer' \in Consumers /\ consumer'.pc # "release"
         /\ consumer'.pc = "consume" <=> consumer'.batch = <<>>
         /\ consumer.batch[1] \in Frames /\ 1 \in DOMAIN consumer.batch
         /\ block' = Closed(consumer.batch[1])
         /\ \A k \in DOMAIN consumer'.batch :
              k \in Nat /\ k + 1 \in DOMAIN consumer.batch /\ consumer'.batch[k] = consumer.batch[k + 1]
         /\ \A k \in DOMAIN consumer.batch :
              k \in Nat /\ (k # 1 => k - 1 \in DOMAIN consumer'.batch /\ consumer'.batch[k - 1] = consumer.batch[k])
<1> USE DEF TransportInv
<1>1. consumer \in Consumers
  BY DEF TypeOK, Consumers
<1>2. consumer.batch # <<>> /\ consumer.batch \in Seq(Frames)
  BY <1>1 DEF Release, Filed, Consumers
<1> DEFINE rest == Tail(consumer.batch)
<1>3. /\ Head(consumer.batch) = consumer.batch[1] /\ consumer.batch[1] \in Frames /\ 1 \in DOMAIN consumer.batch
      /\ Len(consumer.batch) \in Nat /\ rest \in Seq(Frames) /\ Len(rest) = Len(consumer.batch) - 1
      /\ DOMAIN rest = 1 .. Len(consumer.batch) - 1
      /\ \A k \in DOMAIN rest : k + 1 \in DOMAIN consumer.batch /\ rest[k] = consumer.batch[k + 1]
  BY <1>2, Taken
<1>4. DOMAIN consumer.batch = 1 .. Len(consumer.batch)
  BY <1>2
<1>5. block' = Closed(consumer.batch[1]) /\ consumer' = Advanced
  BY <1>3 DEF Release
<1>6. consumer' = IF rest = <<>> THEN Waiting
                  ELSE [consumer EXCEPT !.pc = "fetch", !.batch = rest, !.got = NoShot]
  BY <1>5 DEF Advanced
<1> HIDE DEF rest
<1>7. consumer' \in Consumers /\ consumer'.batch = rest /\ (consumer'.pc = "consume" <=> rest = <<>>) /\ consumer'.pc # "release"
  <2>1. CASE rest = <<>>
    BY <1>6, <2>1, BoundsAssumption DEF Waiting, Consumers, NoShot
  <2>2. CASE rest # <<>>
    <3>1. consumer' = [[[consumer EXCEPT !.pc = "fetch"] EXCEPT !.batch = rest] EXCEPT !.got = NoShot]
      BY <1>6, <2>2
    <3>2. NoShot \in 0 .. MaxShots
      BY BoundsAssumption DEF NoShot
    <3>3. consumer' \in Consumers /\ consumer'.batch = rest /\ consumer'.pc = "fetch"
      BY <1>1, <1>3, <3>1, <3>2 DEF Consumers
    <3> QED
      BY <2>2, <3>3
  <2> QED
    BY <2>1, <2>2
<1>8. \A k \in DOMAIN rest : k \in Nat /\ k + 1 \in DOMAIN consumer.batch /\ rest[k] = consumer.batch[k + 1]
  BY <1>3
<1>9. \A k \in DOMAIN consumer.batch : k \in Nat /\ (k # 1 => k - 1 \in DOMAIN rest /\ rest[k - 1] = consumer.batch[k])
  BY <1>3, <1>4
<1> QED
  BY <1>3, <1>5, <1>7, <1>8, <1>9

LEMMA WorkKeeps ==
  ASSUME TransportInv, ReadStats \/ Fetch \/ Release
  PROVE  TransportInv'
<1> USE DEF TransportInv
<1>1. UNCHANGED <<epoch, ingest, queue, cameras, drops, shots, opens, dbFailures, restarts, overrun, newest>>
  BY DEF ReadStats, Fetch, Release, counters, history
<1>2. consumer' \in Consumers
  BY WorkedBatch, ReleasedBatch
<1>3. \A k \in DOMAIN consumer'.batch : \E l \in DOMAIN consumer.batch : consumer'.batch[k] = consumer.batch[l]
  <2>1. CASE Release
    BY <2>1, ReleasedBatch
  <2>2. CASE ~ Release
    <3>1. consumer'.batch = consumer.batch
      BY <2>2, WorkedBatch
    <3> QED
      BY <3>1
  <2> QED
    BY <2>1, <2>2
<1>4. TypeOK'
  <2>1. block' \in [Cameras -> [Slots -> 0 .. MaxShots]]
    <3>1. CASE Release
      BY <3>1, ReleasedBatch, ClosedBlock
    <3>2. CASE ~ Release
      BY <3>2 DEF ReadStats, Fetch, TypeOK
    <3> QED
      BY <3>1, <3>2
  <2>2. degraded' \subseteq Cameras
    <3>1. CASE Fetch
      <4>1. Head(consumer.batch).camera \in Cameras
        BY <3>1, WorkedBatch, FrameIsSome
      <4>2. degraded' = degraded \cup {Head(consumer.batch).camera} \/ degraded' = degraded
        BY <3>1 DEF Fetch
      <4> QED
        BY <4>1, <4>2 DEF TypeOK
    <3>2. CASE ~ Fetch
      BY <3>2 DEF ReadStats, Release, history, TypeOK
    <3> QED
      BY <3>1, <3>2
  <2> QED
    BY <1>1, <1>2, <2>1, <2>2 DEF TypeOK, Consumers
<1>5. Bounds'
  BY <1>1 DEF Bounds
<1>6. Filed'
  <2>1. \A c \in Cameras : ingest'[c].held # NoFrame => ingest'[c].held.camera = c /\ ingest'[c].connected
    BY <1>1 DEF Filed
  <2>2. \A c \in Cameras : \A i \in DOMAIN queue'[c] : queue'[c][i].camera = c
    BY <1>1 DEF Filed
  <2>3. consumer'.pc = "consume" <=> consumer'.batch = <<>>
    BY WorkedBatch, ReleasedBatch
  <2> QED
    BY <2>1, <2>2, <2>3 DEF Filed
<1>7. Keyed'
  <2>1. \A k, l \in DOMAIN consumer'.batch : consumer'.batch[k].camera = consumer'.batch[l].camera => k = l
    <3>1. CASE Release
      <4> SUFFICES ASSUME NEW k \in DOMAIN consumer'.batch, NEW l \in DOMAIN consumer'.batch,
                          consumer'.batch[k].camera = consumer'.batch[l].camera
                   PROVE  k = l
        OBVIOUS
      <4>1. /\ k \in Nat /\ k + 1 \in DOMAIN consumer.batch /\ consumer'.batch[k] = consumer.batch[k + 1]
            /\ l \in Nat /\ l + 1 \in DOMAIN consumer.batch /\ consumer'.batch[l] = consumer.batch[l + 1]
        BY <3>1, ReleasedBatch
      <4>2. k + 1 = l + 1
        BY <4>1 DEF Keyed
      <4> QED
        BY <4>1, <4>2
    <3>2. CASE ~ Release
      <4>1. consumer'.batch = consumer.batch
        BY <3>2, WorkedBatch
      <4> QED
        BY <4>1 DEF Keyed
    <3> QED
      BY <3>1, <3>2
  <2> QED
    BY <1>1, <2>1 DEF Keyed
<1> QED
  BY <1>4, <1>5, <1>6, <1>7

LEMMA RestartKeeps ==
  ASSUME TransportInv, Restart
  PROVE  TransportInv'
<1> USE DEF TransportInv, Restart
<1>1. TypeOK'
  <2>1. ingest' \in [Cameras -> Workers]
    BY BoundsAssumption DEF Unstarted, Workers, Epochs
  <2>2. consumer' \in Consumers
    BY BoundsAssumption DEF Waiting, Consumers, NoShot
  <2>3. block' \in [Cameras -> [Slots -> 0 .. MaxShots]]
    BY BoundsAssumption DEF NoBlocks, NoShot
  <2>4. queue' \in [Cameras -> Seq(Frames)] /\ (\A c \in Cameras : Len(queue'[c]) <= RingSlots) /\ cameras' \in Seq(Cameras)
    BY SizesAssumption
  <2> QED
    BY <2>1, <2>2, <2>3, <2>4 DEF TypeOK, Workers, Consumers
<1>2. Bounds'
  <2>1. \A c \in Cameras : ingest'[c].epoch = 0 /\ ingest'[c].counter = 0
    BY DEF Unstarted
  <2>2. opens \in Nat /\ shots \in Nat /\ restarts' \in Nat
    BY BoundsAssumption DEF Bounds, TypeOK
  <2> QED
    BY <2>1, <2>2 DEF Bounds
<1>3. Filed'
  BY DEF Filed, Unstarted, Waiting
<1>4. Keyed'
  BY DEF Keyed, Waiting
<1> QED
  BY <1>1, <1>2, <1>3, <1>4

LEMMA TransportInvNext == TransportInv /\ [Next]_vars => TransportInv'
<1> SUFFICES ASSUME TransportInv, [Next]_vars PROVE TransportInv'
  OBVIOUS
<1>1. ASSUME NEW c \in Cameras, OpenWithNextEpoch(c) PROVE TransportInv'
  <2>1. NextEpoch(c) \in Nat /\ NextEpoch(c) <= opens + 1
    BY DEF NextEpoch, TransportInv, TypeOK, Bounds, Epochs
  <2>2. dbFailures' \in Nat
    BY <1>1 DEF OpenWithNextEpoch, TransportInv, Bounds
  <2> QED
    BY <1>1, <2>1, <2>2, OpenedKeeps DEF OpenWithNextEpoch
<1>2. ASSUME NEW c \in Cameras, OpenWithoutDatabase(c) PROVE TransportInv'
  <2> DEFINE e == IF ingest[c].started THEN ingest[c].epoch + 1 ELSE 1
  <2>1. e \in Nat /\ e <= opens + 1
    <3>1. ingest[c].epoch \in Nat /\ ingest[c].epoch <= opens /\ opens \in Nat
      BY WorkerFields DEF TransportInv, Bounds
    <3> QED
      BY <3>1
  <2>2. dbFailures' \in Nat /\ epoch' = epoch /\ Opened(c, e) /\ ~ ingest[c].connected
    BY <1>2 DEF OpenWithoutDatabase, TransportInv, Bounds
  <2> HIDE DEF e
  <2> QED
    BY <2>1, <2>2, OpenedKeeps
<1>3. ASSUME NEW c \in Cameras, Disconnect(c) \/ Capture(c) \/ Publish(c) PROVE TransportInv'
  BY <1>3, DisconnectKeeps, CaptureKeeps, PublishKeeps
<1>4. CASE InferenceStep
  BY <1>4, ConsumeKeeps, WorkKeeps DEF InferenceStep
<1>5. CASE Restart
  BY <1>5, RestartKeeps
<1>6. CASE UNCHANGED vars
  BY <1>6 DEF vars, counters, history, TransportInv, TypeOK, Bounds, Filed, Keyed
<1> QED
  BY <1>1, <1>2, <1>3, <1>4, <1>5, <1>6 DEF Next, IngestStep

\* Every variable has its type: no queue is longer than the ring has slots, and
\* epochs and indexes stay within what the bounds on opens and shots allow.
THEOREM TransportTypes == Spec => []TypeOK
<1>1. TransportInv => TypeOK
  BY DEF TransportInv
<1> QED
  BY <1>1, TransportInvInit, TransportInvNext, PTL DEF Spec

-----------------------------------------------------------------------------
(* Frames are named anew *)

\* What a worker that opens its driver is: connected at most under the epoch
\* it was given, and at the start of its counter.
LEMMA OpenedWorker ==
  ASSUME TypeOK, NEW c \in Cameras, NEW e \in Nat, Opened(c, e)
  PROVE  /\ ingest'[c].epoch = e /\ ingest'[c].counter = 0 /\ ingest'[c].held = NoFrame
         /\ \A x \in Cameras : x # c => ingest'[x] = ingest[x]
         /\ UNCHANGED <<queue, cameras, block, consumer, overrun, newest>>
<1>1. PICK connected \in BOOLEAN :
        ingest' = [ingest EXCEPT ![c] = [Unstarted EXCEPT !.started = TRUE, !.connected = connected, !.epoch = e]]
  BY DEF Opened
<1>2. ingest'[c] = [Unstarted EXCEPT !.started = TRUE, !.connected = connected, !.epoch = e]
  BY <1>1 DEF TypeOK
<1> QED
  BY <1>1, <1>2 DEF Unstarted, TypeOK, Opened, history

\* What Capture does to the worker: the frame that it holds is new.
LEMMA CapturedFrame ==
  ASSUME TransportInv, NEW c \in Cameras, Capture(c)
  PROVE  /\ ingest[c].connected /\ ingest[c].held = NoFrame
         /\ ingest'[c].connected /\ ingest'[c].epoch = ingest[c].epoch
         /\ ingest'[c].counter = ingest[c].counter + 1
         /\ ingest'[c].held \in Frames /\ ingest'[c].held # NoFrame
         /\ ingest'[c].held.shot = shots + 1 /\ ingest'[c].held.index = ingest[c].counter + 1
         /\ \A x \in Cameras : x # c => ingest'[x] = ingest[x]
         /\ newest' = [newest EXCEPT ![c] = <<ingest[c].epoch, ingest[c].counter + 1>>]
         /\ block' = [block EXCEPT ![c][NextSlot(c)] = shots + 1]
         /\ UNCHANGED <<epoch, queue, consumer, dbFailures>>
<1> USE DEF TransportInv
<1> DEFINE index == ingest[c].counter + 1
           frame == [camera |-> c, epoch |-> ingest[c].epoch, index |-> index, shot |-> shots + 1]
<1>1. shots' = shots + 1 /\ UNCHANGED <<epoch, queue, consumer, dbFailures>>
  BY DEF Capture, counters
<1>2. ingest[c].connected /\ ingest[c].held = NoFrame
  BY DEF Capture
<1>3. /\ ingest' = [ingest EXCEPT ![c] = [[ingest[c] EXCEPT !.counter = index] EXCEPT !.held = frame]]
      /\ newest' = [newest EXCEPT ![c] = <<ingest[c].epoch, index>>]
      /\ block' = [block EXCEPT ![c][NextSlot(c)] = shots + 1]
  BY <1>1 DEF Capture, TypeOK, FreshBlock
<1>4. frame.shot = shots + 1 /\ frame.index = index
  OBVIOUS
<1> HIDE DEF index, frame
<1>5. ingest[c] \in Workers
  BY WorkerFields
<1>6. ingest'[c] = [[ingest[c] EXCEPT !.counter = index] EXCEPT !.held = frame]
  BY <1>3 DEF TypeOK
<1>7. /\ ingest'[c].held = frame /\ ingest'[c].epoch = ingest[c].epoch /\ ingest'[c].counter = index
  BY <1>5, <1>6 DEF Workers
<1>8. ingest'[c].connected = ingest[c].connected
  BY <1>5, <1>6 DEF Workers
<1>9. \A x \in Cameras : x # c => ingest'[x] = ingest[x]
  BY <1>3 DEF TypeOK
<1>10. ingest'[c].held \in Frames /\ ingest'[c].held # NoFrame
  <2>1. TransportInv'
    BY CaptureKeeps
  <2>2. ingest'[c].held \in Frames \cup {NoFrame}
    BY <2>1 DEF TypeOK
  <2>3. frame # NoFrame
    <3>1. shots + 1 # NoShot /\ NoFrame.shot = NoShot
      BY BoundsAssumption DEF TypeOK, NoShot, NoFrame
    <3> QED
      BY <1>4, <3>1
  <2> QED
    BY <1>7, <2>2, <2>3
<1> QED
  BY <1>1, <1>2, <1>3, <1>4, <1>7, <1>8, <1>9, <1>10 DEF index

LEMMA NamedInvInit == Init => NamedInv
<1> SUFFICES ASSUME Init PROVE NamedInv
  OBVIOUS
<1>1. \A c \in Cameras : newest[c] = <<0, 0>> /\ epoch[c] = 0
  BY DEF Init
<1>2. \A c \in Cameras : newest[c][1] = 0
  <2>1. <<0, 0>>[1] = 0
    OBVIOUS
  <2> QED
    BY <1>1, <2>1, Zenon
<1>3. \A c \in Cameras : ~ ingest[c].connected
  BY DEF Init, Unstarted
<1>4. \A c \in Cameras : newest[c][1] <= epoch[c]
  <2> TAKE c \in Cameras
  <2>1. newest[c][1] = 0 /\ epoch[c] = 0
    BY <1>1, <1>2, Zenon
  <2> QED
    BY <2>1
<1> QED
  BY <1>3, <1>4 DEF NamedInv

LEMMA NamedInvNext == TransportInv /\ NamedInv /\ [Next]_vars => NamedInv'
<1> SUFFICES ASSUME TransportInv, NamedInv, [Next]_vars, dbFailures' = 0, NEW x \in Cameras
             PROVE  /\ newest'[x][1] <= epoch'[x]
                    /\ ingest'[x].connected =>
                         /\ ingest'[x].epoch = epoch'[x]
                         /\ newest'[x][1] = epoch'[x] => newest'[x][2] <= ingest'[x].counter
  BY DEF NamedInv
<1> USE DEF TransportInv
<1>0. /\ newest[x][1] \in Nat /\ newest[x][2] \in Nat /\ epoch[x] \in Nat /\ dbFailures \in Nat
      /\ newest \in [Cameras -> Nat \X Nat] /\ epoch \in [Cameras -> Epochs]
      /\ ingest[x].epoch \in Nat /\ ingest[x].counter \in Nat
  <2>1. newest[x] \in Nat \X Nat /\ dbFailures \in Nat /\ newest \in [Cameras -> Nat \X Nat]
    BY DEF Bounds
  <2>2. epoch[x] \in Nat /\ epoch \in [Cameras -> Epochs]
    BY BoundsAssumption DEF TypeOK, Epochs
  <2>3. ingest[x].epoch \in Nat /\ ingest[x].counter \in Nat
    BY WorkerFields DEF Epochs
  <2> QED
    BY <2>1, <2>2, <2>3
<1>a. dbFailures = 0 => /\ newest[x][1] <= epoch[x]
                        /\ ingest[x].connected => ingest[x].epoch = epoch[x]
                        /\ ingest[x].connected /\ newest[x][1] = epoch[x] => newest[x][2] <= ingest[x].counter
  BY DEF NamedInv
<1>1. ASSUME NEW c \in Cameras, OpenWithNextEpoch(c)
      PROVE  /\ newest'[x][1] <= epoch'[x]
             /\ ingest'[x].connected =>
                  /\ ingest'[x].epoch = epoch'[x]
                  /\ newest'[x][1] = epoch'[x] => newest'[x][2] <= ingest'[x].counter
  <2>1. epoch' = [epoch EXCEPT ![c] = epoch[c] + 1] /\ dbFailures' = dbFailures /\ Opened(c, epoch[c] + 1)
    BY <1>1 DEF OpenWithNextEpoch, NextEpoch
  <2>2. epoch[c] + 1 \in Nat
    BY DEF TypeOK, Epochs
  <2>3. newest' = newest /\ ingest'[c].epoch = epoch[c] + 1 /\ (x # c => ingest'[x] = ingest[x])
    BY <2>1, <2>2, OpenedWorker
  <2>4. CASE x = c
    <3>1. epoch'[x] = epoch[x] + 1 /\ ingest'[x].epoch = epoch'[x] /\ newest[x][1] <= epoch[x]
      BY <1>0, <1>a, <2>1, <2>3, <2>4
    <3> QED
      BY <1>0, <2>3, <3>1
  <2>5. CASE x # c
    <3>1. epoch'[x] = epoch[x]
      BY <1>0, <2>1, <2>5
    <3> QED
      BY <1>a, <2>1, <2>3, <2>5, <3>1
  <2> QED
    BY <2>4, <2>5
<1>2. ASSUME NEW c \in Cameras, OpenWithoutDatabase(c) PROVE FALSE
  <2>1. dbFailures' = dbFailures + 1
    BY <1>2 DEF OpenWithoutDatabase
  <2> QED
    BY <1>0, <2>1
<1>3. ASSUME NEW c \in Cameras, Disconnect(c)
      PROVE  /\ newest'[x][1] <= epoch'[x]
             /\ ingest'[x].connected =>
                  /\ ingest'[x].epoch = epoch'[x]
                  /\ newest'[x][1] = epoch'[x] => newest'[x][2] <= ingest'[x].counter
  <2>1. newest' = newest /\ epoch' = epoch /\ dbFailures' = dbFailures
    BY <1>3 DEF Disconnect, history, counters
  <2>2. ingest' = [ingest EXCEPT ![c] = [ingest[c] EXCEPT !.connected = FALSE]]
    BY <1>3 DEF Disconnect
  <2>3. x # c => ingest'[x] = ingest[x]
    BY <2>2 DEF TypeOK
  <2>4. x = c => ~ ingest'[x].connected
    <3>1. ingest[c] \in Workers
      BY WorkerFields
    <3>2. x = c => ingest'[x] = [ingest[c] EXCEPT !.connected = FALSE]
      BY <2>2 DEF TypeOK
    <3> QED
      BY <3>1, <3>2 DEF Workers
  <2> QED
    BY <1>a, <2>1, <2>3, <2>4
<1>4. ASSUME NEW c \in Cameras, Capture(c)
      PROVE  /\ newest'[x][1] <= epoch'[x]
             /\ ingest'[x].connected =>
                  /\ ingest'[x].epoch = epoch'[x]
                  /\ newest'[x][1] = epoch'[x] => newest'[x][2] <= ingest'[x].counter
  <2>1. /\ ingest[c].connected /\ ingest'[c].connected /\ ingest'[c].epoch = ingest[c].epoch
        /\ ingest'[c].counter = ingest[c].counter + 1
        /\ newest' = [newest EXCEPT ![c] = <<ingest[c].epoch, ingest[c].counter + 1>>]
        /\ epoch' = epoch /\ dbFailures' = dbFailures
        /\ x # c => ingest'[x] = ingest[x]
    BY <1>4, CapturedFrame
  <2>2. CASE x = c
    <3>1. newest'[x] = <<ingest[x].epoch, ingest[x].counter + 1>>
      BY <1>0, <2>1, <2>2
    <3> QED
      BY <1>0, <1>a, <2>1, <2>2, <3>1
  <2>3. CASE x # c
    <3>1. newest'[x] = newest[x]
      BY <1>0, <2>1, <2>3
    <3> QED
      BY <1>a, <2>1, <2>3, <3>1
  <2> QED
    BY <2>2, <2>3
<1>5. ASSUME NEW c \in Cameras, Publish(c)
      PROVE  /\ newest'[x][1] <= epoch'[x]
             /\ ingest'[x].connected =>
                  /\ ingest'[x].epoch = epoch'[x]
                  /\ newest'[x][1] = epoch'[x] => newest'[x][2] <= ingest'[x].counter
  <2>1. newest' = newest /\ epoch' = epoch /\ dbFailures' = dbFailures
    BY <1>5 DEF Publish, counters
  <2>2. ingest' = [ingest EXCEPT ![c] = [ingest[c] EXCEPT !.held = NoFrame]]
    BY <1>5 DEF Publish
  <2>3. x # c => ingest'[x] = ingest[x]
    BY <2>2 DEF TypeOK
  <2>4. ingest[c] \in Workers /\ ingest'[c] = [ingest[c] EXCEPT !.held = NoFrame]
    BY <2>2, WorkerFields DEF TypeOK
  <2>5. ingest'[c].connected = ingest[c].connected
    BY <2>4 DEF Workers
  <2>6. ingest'[c].epoch = ingest[c].epoch /\ ingest'[c].counter = ingest[c].counter
    BY <2>4 DEF Workers
  <2> QED
    BY <1>a, <2>1, <2>3, <2>5, <2>6
<1>6. CASE InferenceStep \/ UNCHANGED vars
  <2>1. UNCHANGED <<newest, epoch, dbFailures, ingest>>
    BY <1>6 DEF InferenceStep, Consume, ReadStats, Fetch, Release, vars, counters, history
  <2> QED
    BY <1>a, <2>1
<1>7. CASE Restart
  <2>1. UNCHANGED <<newest, epoch, dbFailures>> /\ ~ ingest'[x].connected
    BY <1>7 DEF Restart, Unstarted
  <2> QED
    BY <1>a, <2>1
<1> QED
  BY <1>1, <1>2, <1>3, <1>4, <1>5, <1>6, <1>7 DEF Next, IngestStep

\* A frame is captured under the worker's epoch and counter only.
LEMMA NamedAnewStep ==
  ASSUME TransportInv, NamedInv, [Next]_vars, NEW x \in Cameras, newest'[x] # newest[x], dbFailures = 0
  PROVE  Later(newest'[x], newest[x])
<1> USE DEF TransportInv
<1>1. PICK c \in Cameras : Capture(c)
  <2>1. ASSUME NEW c \in Cameras, OpenWithNextEpoch(c) \/ OpenWithoutDatabase(c) \/ Disconnect(c) \/ Publish(c)
        PROVE  newest' = newest
    BY <2>1 DEF OpenWithNextEpoch, OpenWithoutDatabase, Opened, Disconnect, Publish, history
  <2>2. ASSUME InferenceStep \/ Restart \/ UNCHANGED vars
        PROVE  newest' = newest
    BY <2>2 DEF InferenceStep, Consume, ReadStats, Fetch, Release, Restart, vars, history
  <2> QED
    BY <2>1, <2>2 DEF Next, IngestStep
<1>2. /\ ingest[c].connected
      /\ newest' = [newest EXCEPT ![c] = <<ingest[c].epoch, ingest[c].counter + 1>>]
  BY <1>1, CapturedFrame
<1>3. /\ newest \in [Cameras -> Nat \X Nat] /\ ingest[c].epoch \in Nat /\ ingest[c].counter \in Nat
      /\ newest[c][1] \in Nat /\ newest[c][2] \in Nat /\ epoch[c] \in Nat
  <2>1. newest \in [Cameras -> Nat \X Nat]
    BY DEF Bounds
  <2>2. epoch[c] \in Nat
    BY DEF TypeOK, Epochs
  <2> QED
    BY <2>1, <2>2, WorkerFields
<1>4. x = c /\ newest'[x] = <<ingest[c].epoch, ingest[c].counter + 1>>
  BY <1>2, <1>3
<1>5. /\ newest[c][1] <= epoch[c] /\ ingest[c].epoch = epoch[c]
      /\ newest[c][1] = epoch[c] => newest[c][2] <= ingest[c].counter
  BY <1>2 DEF NamedInv
<1> QED
  BY <1>3, <1>4, <1>5 DEF Later

\* While the database hands out the epochs, no epoch and index are ever given to
\* two frames of a camera, whatever reconnects and restarts lie between them.
THEOREM NamedAnew == Spec => FramesAreNamedAnew
<1>1. TransportInv /\ NamedInv /\ [Next]_vars
        => [\A c \in Cameras : newest'[c] # newest[c] /\ dbFailures = 0 => Later(newest'[c], newest[c])]_vars
  BY NamedAnewStep
<1> QED
  BY <1>1, TransportInvInit, TransportInvNext, NamedInvInit, NamedInvNext, PTL DEF Spec, FramesAreNamedAnew

-----------------------------------------------------------------------------
(* What a step does to the frames and the blocks of one camera *)

\* Where an outstanding frame is.
Queued(x, f) == \E i \in DOMAIN queue[x] : f = queue[x][i]
InBatch(x, f) == \E k \in DOMAIN consumer.batch : f = consumer.batch[k] /\ f.camera = x
Held(x, f) == f = ingest[x].held /\ f # NoFrame

LEMMA OutstandingIs ==
  ASSUME NEW x, NEW f
  PROVE  f \in Outstanding(x) <=> Queued(x, f) \/ InBatch(x, f) \/ Held(x, f)
BY DEF Outstanding, Queued, InBatch, Held

LEMMA OutstandingIsNext ==
  ASSUME NEW x, NEW f
  PROVE  f \in Outstanding(x)' <=> Queued(x, f)' \/ InBatch(x, f)' \/ Held(x, f)'
BY DEF Outstanding, Queued, InBatch, Held

LEMMA OutstandingAreFrames ==
  ASSUME TransportInv, NEW x \in Cameras, NEW f \in Outstanding(x)
  PROVE  f \in Frames /\ f.camera = x /\ SlotOf(f.index) \in Slots /\ f.shot \in Shots /\ f.shot # NoShot
<1> USE DEF TransportInv
<1>1. CASE Queued(x, f)
  <2>1. queue[x] \in Seq(Frames)
    BY DEF TypeOK
  <2>2. f \in Frames /\ f.camera = x
    BY <1>1, <2>1 DEF Queued, Filed
  <2> QED
    BY <2>2, FrameIsSome, SlotInRange
<1>2. CASE InBatch(x, f)
  <2>1. consumer.batch \in Seq(Frames)
    BY DEF TypeOK
  <2> QED
    BY <1>2, <2>1, FrameIsSome, SlotInRange DEF InBatch
<1>3. CASE Held(x, f)
  BY <1>3, WorkerFields, FrameIsSome, SlotInRange DEF Held, Filed
<1> QED
  BY <1>1, <1>2, <1>3, OutstandingIs

\* Nothing happens to the frames of x.
Untouched(x) ==
  /\ Outstanding(x)' = Outstanding(x) /\ block'[x] = block[x]
  /\ x \in overrun' <=> x \in overrun

\* The frame f of x is dropped or released, and the block of its name closed.
Gone(x, f) ==
  /\ f \in Outstanding(x)
  /\ Outstanding(x) \ {f} \subseteq Outstanding(x)' /\ Outstanding(x)' \subseteq Outstanding(x)
  /\ \A s \in Slots : block'[x][s] = IF s = SlotOf(f.index) THEN NoShot ELSE block[x][s]
  /\ x \in overrun' <=> x \in overrun
  /\ Apart /\ x \notin overrun => \A g \in Outstanding(x)' : SlotOf(g.index) # SlotOf(f.index)

\* The frame f of x is captured, into the block of its name.
Shot(x, f) ==
  /\ Outstanding(x)' = Outstanding(x) \cup {f} /\ f.shot # NoShot
  /\ \A s \in Slots : block'[x][s] = IF s = SlotOf(f.index) THEN f.shot ELSE block[x][s]
  /\ SlotOf(f.index) \in Slots
  /\ x \in overrun' <=> x \in overrun \/ block[x][SlotOf(f.index)] # NoShot

\* All frames of x are lost with their blocks.
Lost(x) ==
  /\ Outstanding(x)' = {} /\ \A s \in Slots : block'[x][s] = NoShot

LEMMA SameFrames ==
  ASSUME NEW x, UNCHANGED <<queue[x], consumer.batch, ingest[x].held, block[x], overrun>>
  PROVE  Untouched(x)
<1>1. \A f : f \in Outstanding(x)' <=> f \in Outstanding(x)
  BY OutstandingIs, OutstandingIsNext DEF Queued, InBatch, Held
<1>2. Outstanding(x)' = Outstanding(x)
  BY <1>1
<1> QED
  BY <1>2 DEF Untouched

LEMMA OpenedFrames ==
  ASSUME TransportInv, NEW c \in Cameras, NEW e \in Nat, ~ ingest[c].connected, Opened(c, e), NEW x \in Cameras
  PROVE  Untouched(x)
<1>1. /\ ingest'[c].held = NoFrame /\ \A y \in Cameras : y # c => ingest'[y] = ingest[y]
      /\ UNCHANGED <<queue, block, consumer, overrun>>
  BY OpenedWorker DEF TransportInv
<1>2. ingest[c].held = NoFrame
  BY DEF TransportInv, Filed
<1>3. ingest'[x].held = ingest[x].held
  BY <1>1, <1>2
<1> QED
  BY <1>1, <1>3, SameFrames

LEMMA DisconnectFrames ==
  ASSUME TransportInv, NEW c \in Cameras, Disconnect(c), NEW x \in Cameras
  PROVE  Untouched(x)
<1>1. ingest' = [ingest EXCEPT ![c] = [ingest[c] EXCEPT !.connected = FALSE]] /\ ingest[c] \in Workers
  BY WorkerFields DEF Disconnect, TransportInv
<1>2. ingest'[x] = IF x = c THEN [ingest[c] EXCEPT !.connected = FALSE] ELSE ingest[x]
  BY <1>1 DEF TransportInv, TypeOK
<1>3. ingest'[x].held = ingest[x].held
  BY <1>1, <1>2 DEF Workers
<1>4. UNCHANGED <<queue, block, consumer, overrun>>
  BY DEF Disconnect, history
<1> QED
  BY <1>3, <1>4, SameFrames

LEMMA CaptureFrames ==
  ASSUME TransportInv, NEW c \in Cameras, Capture(c), NEW x \in Cameras
  PROVE  /\ x # c => Untouched(x)
         /\ x = c => Shot(x, ingest'[x].held)
<1> DEFINE f == ingest'[c].held
<1>1. /\ ingest[c].held = NoFrame /\ f \in Frames /\ f # NoFrame
      /\ f.shot = shots + 1 /\ f.index = ingest[c].counter + 1
      /\ \A y \in Cameras : y # c => ingest'[y] = ingest[y]
      /\ block' = [block EXCEPT ![c][NextSlot(c)] = shots + 1]
      /\ UNCHANGED <<queue, consumer>>
  BY CapturedFrame
<1>2. NextSlot(c) = SlotOf(f.index) /\ NextSlot(c) \in Slots /\ f.shot # NoShot
  BY <1>1, FrameIsSome, SlotInRange DEF NextSlot
<1>3. block \in [Cameras -> [Slots -> 0 .. MaxShots]]
  BY DEF TransportInv, TypeOK
<1>4. overrun' = IF block[c][SlotOf(f.index)] # NoShot THEN overrun \cup {c} ELSE overrun
  BY <1>2 DEF Capture
<1> HIDE DEF f
<1>5. CASE x # c
  <2>1. block'[x] = block[x] /\ (x \in overrun' <=> x \in overrun) /\ ingest'[x].held = ingest[x].held
    BY <1>1, <1>3, <1>4, <1>5
  <2>2. \A g : g \in Outstanding(x)' <=> g \in Outstanding(x)
    BY <1>1, <2>1, OutstandingIs, OutstandingIsNext DEF Queued, InBatch, Held
  <2>3. Outstanding(x)' = Outstanding(x)
    BY <2>2
  <2> QED
    BY <1>5, <2>1, <2>3 DEF Untouched
<1>6. CASE x = c
  <2>1. \A g : g \in Outstanding(x)' <=> g \in Outstanding(x) \/ g = f
    BY <1>1, <1>6, OutstandingIs, OutstandingIsNext DEF Queued, InBatch, Held, f
  <2>2. Outstanding(x)' = Outstanding(x) \cup {f}
    BY <2>1
  <2>3. \A s \in Slots : block'[x][s] = IF s = SlotOf(f.index) THEN f.shot ELSE block[x][s]
    <3>1. block'[c] = [block[c] EXCEPT ![SlotOf(f.index)] = f.shot] /\ block[c] \in [Slots -> 0 .. MaxShots]
      BY <1>1, <1>2, <1>3
    <3> QED
      BY <1>6, <3>1
  <2>4. x \in overrun' <=> x \in overrun \/ block[x][SlotOf(f.index)] # NoShot
    BY <1>4, <1>6
  <2>5. Shot(x, f)
    BY <1>2, <2>2, <2>3, <2>4 DEF Shot
  <2> QED
    BY <1>6, <2>5 DEF f
<1> QED
  BY <1>5, <1>6

LEMMA PublishFrames ==
  ASSUME TransportInv, NEW c \in Cameras, Publish(c), NEW x \in Cameras
  PROVE  Untouched(x) \/ \E f \in Frames : Gone(x, f)
<1> USE DEF TransportInv
<1>1. UNCHANGED <<consumer, overrun>>
  BY DEF Publish
<1>2. /\ ingest[c].held \in Frames /\ ingest[c].held # NoFrame /\ ingest[c].held.camera = c
      /\ queue' = [queue EXCEPT ![c] = queue'[c]]
  BY PublishedQueue
<1>3. /\ queue \in [Cameras -> Seq(Frames)] /\ block \in [Cameras -> [Slots -> 0 .. MaxShots]]
      /\ queue[c] \in Seq(Frames)
  BY DEF TypeOK
<1>4. ingest' = [ingest EXCEPT ![c] = [ingest[c] EXCEPT !.held = NoFrame]] /\ ingest[c] \in Workers
  BY WorkerFields DEF Publish
<1>5. ingest'[c].held = NoFrame
  <2>1. ingest'[c] = [ingest[c] EXCEPT !.held = NoFrame]
    BY <1>4 DEF TypeOK
  <2> QED
    BY <1>4, <2>1 DEF Workers
<1>6. \A y \in Cameras : y # c => ingest'[y] = ingest[y] /\ queue'[y] = queue[y]
  BY <1>2, <1>3, <1>4 DEF TypeOK
<1>7. CASE Enqueue(c)
  <2>1. block' = block /\ queue'[c] = Append(queue[c], ingest[c].held)
    BY <1>3, <1>7 DEF Enqueue
  <2>2. CASE x # c
    BY <1>1, <1>6, <2>1, <2>2, SameFrames
  <2>3. CASE x = c
    <3>1. \A g : Queued(c, g)' <=> Queued(c, g) \/ g = ingest[c].held
      <4>1. /\ Len(queue[c]) \in Nat
            /\ DOMAIN queue[c] = 1 .. Len(queue[c]) /\ DOMAIN queue'[c] = 1 .. Len(queue[c]) + 1
            /\ \A i \in DOMAIN queue[c] : queue'[c][i] = queue[c][i]
            /\ queue'[c][Len(queue[c]) + 1] = ingest[c].held
        BY <1>2, <1>3, <2>1, Added
      <4> QED
        BY <4>1 DEF Queued
    <3>2. \A g : g \in Outstanding(c)' <=> g \in Outstanding(c)
      BY <1>1, <1>2, <1>5, <3>1, OutstandingIs, OutstandingIsNext DEF InBatch, Held
    <3>3. Outstanding(c)' = Outstanding(c)
      BY <3>2
    <3> QED
      BY <1>1, <2>1, <2>3, <3>3 DEF Untouched
  <2> QED
    BY <2>2, <2>3
<1>8. CASE Evict(c)
  <2> DEFINE f == queue[c][1]
             rest == Tail(queue[c])
  <2>1. queue[c] # <<>>
    BY <1>3, <1>8, SizesAssumption DEF Evict
  <2>2. /\ Len(queue[c]) \in Nat /\ Len(queue[c]) >= 1 /\ Head(queue[c]) = f /\ f \in Frames /\ 1 \in DOMAIN queue[c]
        /\ rest \in Seq(Frames) /\ Len(rest) = Len(queue[c]) - 1 /\ DOMAIN rest = 1 .. Len(queue[c]) - 1
        /\ \A i \in DOMAIN rest : i + 1 \in DOMAIN queue[c] /\ rest[i] = queue[c][i + 1]
    BY <1>3, <2>1, Taken
  <2>3. block' = Closed(f) /\ queue'[c] = Append(rest, ingest[c].held)
    BY <1>3, <1>8, <2>2 DEF Evict
  <2>4. f.camera = c
    BY <2>2 DEF Filed
  <2>5. \A y \in Cameras, s \in Slots : block'[y][s] = IF y = c /\ s = SlotOf(f.index) THEN NoShot ELSE block[y][s]
    BY <2>2, <2>3, <2>4, ClosedBlock
  <2>6. block' \in [Cameras -> [Slots -> 0 .. MaxShots]]
    BY <2>2, <2>3, ClosedBlock
  <2> HIDE DEF f, rest
  <2>7. CASE x # c
    <3>1. block'[x] \in [Slots -> 0 .. MaxShots] /\ block[x] \in [Slots -> 0 .. MaxShots]
      BY <1>3, <2>6
    <3>2. \A s \in Slots : block'[x][s] = block[x][s]
      BY <2>5, <2>7
    <3> HIDE DEF Slots
    <3>3. block'[x] = block[x]
      BY <3>1, <3>2
    <3> QED
      BY <1>1, <1>6, <2>7, <3>3, SameFrames
  <2>8. CASE x = c
    <3>1. /\ Len(rest) \in Nat /\ DOMAIN queue'[c] = 1 .. Len(rest) + 1
          /\ \A i \in DOMAIN rest : queue'[c][i] = rest[i]
          /\ queue'[c][Len(rest) + 1] = ingest[c].held
          /\ DOMAIN queue[c] = 1 .. Len(queue[c])
      <4>1. /\ Len(rest) \in Nat /\ DOMAIN Append(rest, ingest[c].held) = 1 .. Len(rest) + 1
            /\ \A i \in DOMAIN rest : Append(rest, ingest[c].held)[i] = rest[i]
            /\ Append(rest, ingest[c].held)[Len(rest) + 1] = ingest[c].held
        BY <1>2, <2>2, Added
      <4> QED
        BY <1>3, <2>3, <4>1
    <3>2. \A i \in DOMAIN queue'[c] : \/ i + 1 \in DOMAIN queue[c] /\ i + 1 # 1 /\ queue'[c][i] = queue[c][i + 1]
                                      \/ queue'[c][i] = ingest[c].held
      BY <2>2, <3>1
    <3>3. \A g : Queued(c, g)' => Queued(c, g) \/ g = ingest[c].held
      BY <3>2 DEF Queued
    <3>4. \A i \in DOMAIN queue[c] : i # 1 => i - 1 \in DOMAIN queue'[c] /\ queue'[c][i - 1] = queue[c][i]
      <4> SUFFICES ASSUME NEW i \in DOMAIN queue[c], i # 1
                   PROVE  i - 1 \in DOMAIN queue'[c] /\ queue'[c][i - 1] = queue[c][i]
        OBVIOUS
      <4>1. i - 1 \in DOMAIN rest /\ i - 1 + 1 = i
        BY <2>2, <3>1
      <4> QED
        BY <2>2, <3>1, <4>1
    <3>5. \A g : Queued(c, g) => Queued(c, g)' \/ g = f
      BY <3>4 DEF Queued, f
    <3>6. \A g : g = ingest[c].held => Queued(c, g)'
      BY <2>2, <3>1 DEF Queued
    <3>7. Outstanding(c)' \subseteq Outstanding(c)
      BY <1>1, <1>2, <1>5, <3>3, OutstandingIs, OutstandingIsNext DEF InBatch, Held
    <3>8. Outstanding(c) \ {f} \subseteq Outstanding(c)'
      <4> SUFFICES ASSUME NEW g \in Outstanding(c), g # f PROVE g \in Outstanding(c)'
        OBVIOUS
      <4>1. Queued(c, g) \/ InBatch(c, g) \/ Held(c, g)
        BY OutstandingIs
      <4>2. Queued(c, g)' \/ InBatch(c, g)'
        BY <1>1, <3>5, <3>6, <4>1 DEF InBatch, Held
      <4> QED
        BY <4>2, OutstandingIsNext
    <3>9. f \in Outstanding(c)
      BY <2>2, OutstandingIs DEF Queued, f
    <3>10. ASSUME Apart, c \notin overrun, NEW g \in Outstanding(c)'
           PROVE  SlotOf(g.index) # SlotOf(f.index)
      <4>0. /\ \A i, j \in DOMAIN queue[c] : SlotOf(queue[c][i].index) = SlotOf(queue[c][j].index) => i = j
            /\ \A i \in DOMAIN queue[c], k \in DOMAIN consumer.batch :
                 consumer.batch[k].camera = c => SlotOf(queue[c][i].index) # SlotOf(consumer.batch[k].index)
            /\ \A i \in DOMAIN queue[c] : SlotOf(queue[c][i].index) # SlotOf(ingest[c].held.index)
        BY <1>2, <3>10 DEF Apart, ApartOf
      <4>1. CASE Queued(c, g)'
        <5>1. PICK i \in DOMAIN queue'[c] : g = queue'[c][i]
          BY <4>1 DEF Queued
        <5> QED
          BY <2>2, <3>2, <4>0, <5>1 DEF f
      <4>2. CASE InBatch(c, g)'
        BY <1>1, <2>2, <4>0, <4>2 DEF InBatch, f
      <4>3. CASE Held(c, g)'
        BY <1>5, <4>3 DEF Held
      <4> QED
        BY <3>10, <4>1, <4>2, <4>3, OutstandingIsNext
    <3>11. Gone(c, f)
      BY <1>1, <2>5, <3>7, <3>8, <3>9, <3>10 DEF Gone
    <3> QED
      BY <2>2, <2>8, <3>11
  <2> QED
    BY <2>7, <2>8
<1> QED
  BY <1>7, <1>8 DEF Publish

LEMMA ConsumeFrames ==
  ASSUME TransportInv, Consume, NEW x \in Cameras
  PROVE  Untouched(x)
<1>1. UNCHANGED <<ingest, block, overrun>>
  BY DEF Consume, history
<1>2. consumer.batch = <<>>
  BY DEF TransportInv, Filed, Consume
<1>3. /\ \A k \in DOMAIN consumer'.batch :
           \E c \in Cameras : queue[c] # <<>> /\ consumer'.batch[k] = queue[c][1]
      /\ \A c \in Cameras : queue[c] # <<>> =>
           \E k \in DOMAIN consumer'.batch : consumer'.batch[k] = queue[c][1]
  BY ConsumedBatch
<1>4. queue \in [Cameras -> Seq(Frames)] /\ \A c \in Cameras : \A i \in DOMAIN queue[c] : queue[c][i].camera = c
  BY DEF TransportInv, TypeOK, Filed
<1>5. /\ queue[x] = <<>> => queue'[x] = <<>>
      /\ \A i \in DOMAIN queue'[x] : i \in Nat /\ i + 1 \in DOMAIN queue[x] /\ queue'[x][i] = queue[x][i + 1]
      /\ \A i \in DOMAIN queue[x] : i \in Nat /\ (i # 1 => i - 1 \in DOMAIN queue'[x] /\ queue'[x][i - 1] = queue[x][i])
  BY ConsumedQueue
<1>6. \A c \in Cameras : queue[c] # <<>> => 1 \in DOMAIN queue[c] /\ queue[c][1].camera = c
  <2> TAKE c \in Cameras
  <2>1. queue[c] # <<>> => 1 \in DOMAIN queue[c]
    BY <1>4, Taken
  <2> QED
    BY <1>4, <2>1
<1>7. \A g : Queued(x, g) => Queued(x, g)' \/ InBatch(x, g)'
  <2> SUFFICES ASSUME NEW g, Queued(x, g) PROVE Queued(x, g)' \/ InBatch(x, g)'
    OBVIOUS
  <2>1. PICK i \in DOMAIN queue[x] : g = queue[x][i]
    BY DEF Queued
  <2>2. CASE i = 1
    <3>1. queue[x] # <<>>
      OBVIOUS
    <3>2. PICK k \in DOMAIN consumer'.batch : consumer'.batch[k] = queue[x][1]
      BY <1>3, <3>1
    <3> QED
      BY <1>6, <2>1, <2>2, <3>1, <3>2 DEF InBatch
  <2>3. CASE i # 1
    BY <1>5, <2>1, <2>3 DEF Queued
  <2> QED
    BY <2>2, <2>3
<1>8. \A g : Queued(x, g)' => Queued(x, g)
  BY <1>5 DEF Queued
<1>9. \A g : InBatch(x, g)' => Queued(x, g)
  <2> SUFFICES ASSUME NEW g, InBatch(x, g)' PROVE Queued(x, g)
    OBVIOUS
  <2>1. PICK k \in DOMAIN consumer'.batch : g = consumer'.batch[k] /\ g.camera = x
    BY DEF InBatch
  <2>2. PICK c \in Cameras : queue[c] # <<>> /\ g = queue[c][1]
    BY <1>3, <2>1
  <2>3. c = x /\ 1 \in DOMAIN queue[c]
    BY <1>6, <2>1, <2>2
  <2> QED
    BY <2>2, <2>3 DEF Queued
<1>10. \A g : g \in Outstanding(x)' <=> g \in Outstanding(x)
  <2> TAKE g
  <2>1. ~ InBatch(x, g)
    BY <1>2 DEF InBatch
  <2>2. Held(x, g)' <=> Held(x, g)
    BY <1>1 DEF Held
  <2> QED
    BY <1>7, <1>8, <1>9, <2>1, <2>2, OutstandingIs, OutstandingIsNext
<1>11. Outstanding(x)' = Outstanding(x)
  BY <1>10
<1> QED
  BY <1>1, <1>11 DEF Untouched

LEMMA ReleaseFrames ==
  ASSUME TransportInv, Release, NEW x \in Cameras
  PROVE  Untouched(x) \/ \E f \in Frames : Gone(x, f)
<1> DEFINE f == consumer.batch[1]
<1>1. UNCHANGED <<ingest, queue, overrun>>
  BY DEF Release, history
<1>2. /\ f \in Frames /\ 1 \in DOMAIN consumer.batch /\ block' = Closed(f)
      /\ \A k \in DOMAIN consumer'.batch :
           k \in Nat /\ k + 1 \in DOMAIN consumer.batch /\ consumer'.batch[k] = consumer.batch[k + 1]
      /\ \A k \in DOMAIN consumer.batch :
           k \in Nat /\ (k # 1 => k - 1 \in DOMAIN consumer'.batch /\ consumer'.batch[k - 1] = consumer.batch[k])
  BY ReleasedBatch
<1>3. \A k, l \in DOMAIN consumer.batch : consumer.batch[k].camera = consumer.batch[l].camera => k = l
  BY DEF TransportInv, Keyed
<1>4. /\ \A y \in Cameras, s \in Slots : block'[y][s] = IF y = f.camera /\ s = SlotOf(f.index) THEN NoShot ELSE block[y][s]
      /\ block' \in [Cameras -> [Slots -> 0 .. MaxShots]] /\ block \in [Cameras -> [Slots -> 0 .. MaxShots]]
  BY <1>2, ClosedBlock DEF TransportInv, TypeOK
<1>5. \A k \in DOMAIN consumer.batch : k # 1 => consumer.batch[k].camera # f.camera
  BY <1>2, <1>3
<1>6. \A g : InBatch(x, g)' => InBatch(x, g) /\ x # f.camera
  <2> SUFFICES ASSUME NEW g, InBatch(x, g)' PROVE InBatch(x, g) /\ x # f.camera
    OBVIOUS
  <2>1. PICK k \in DOMAIN consumer'.batch : g = consumer'.batch[k] /\ g.camera = x
    BY DEF InBatch
  <2>2. k + 1 \in DOMAIN consumer.batch /\ g = consumer.batch[k + 1] /\ k \in Nat
    BY <1>2, <2>1
  <2>3. k + 1 # 1
    <3>1. consumer'.batch \in Seq(Frames)
      BY ReleasedBatch DEF Consumers
    <3>2. k >= 1
      BY <2>1, <3>1
    <3> QED
      BY <2>2, <3>2
  <2> QED
    BY <1>5, <2>1, <2>2, <2>3 DEF InBatch
<1>7. \A g : InBatch(x, g) => InBatch(x, g)' \/ g = f
  <2> SUFFICES ASSUME NEW g, InBatch(x, g), g # f PROVE InBatch(x, g)'
    OBVIOUS
  <2>1. PICK k \in DOMAIN consumer.batch : g = consumer.batch[k] /\ g.camera = x
    BY DEF InBatch
  <2>2. k - 1 \in DOMAIN consumer'.batch /\ consumer'.batch[k - 1] = g
    BY <1>2, <2>1
  <2> QED
    BY <2>1, <2>2 DEF InBatch
<1> HIDE DEF f
<1>8. Outstanding(x)' \subseteq Outstanding(x)
  BY <1>1, <1>6, OutstandingIs, OutstandingIsNext DEF Queued, Held
<1>9. ASSUME NEW g \in Outstanding(x), g # f PROVE g \in Outstanding(x)'
  BY <1>1, <1>7, <1>9, OutstandingIs, OutstandingIsNext DEF Queued, Held
<1>10. CASE x # f.camera
  <2>1. \A s \in Slots : block'[x][s] = block[x][s]
    BY <1>4, <1>10
  <2>2. block'[x] \in [Slots -> 0 .. MaxShots] /\ block[x] \in [Slots -> 0 .. MaxShots]
    BY <1>4
  <2> HIDE DEF Slots
  <2>3. block'[x] = block[x]
    BY <2>1, <2>2
  <2>4. f \notin Outstanding(x)
    BY <1>10, OutstandingAreFrames
  <2>5. Outstanding(x)' = Outstanding(x)
    BY <1>8, <1>9, <2>4
  <2> QED
    BY <1>1, <2>3, <2>5 DEF Untouched
<1>11. CASE x = f.camera
  <2>1. f \in Outstanding(x)
    BY <1>2, <1>11, OutstandingIs DEF InBatch, f
  <2>2. ASSUME Apart, x \notin overrun, NEW g \in Outstanding(x)'
        PROVE  SlotOf(g.index) # SlotOf(f.index)
    <3>1. /\ \A i \in DOMAIN queue[x] : SlotOf(queue[x][i].index) # SlotOf(f.index)
          /\ ingest[x].held # NoFrame => SlotOf(f.index) # SlotOf(ingest[x].held.index)
      BY <1>2, <1>11, <2>2 DEF Apart, ApartOf, f
    <3>2. Queued(x, g) \/ Held(x, g)
      <4>1. ~ InBatch(x, g)'
        BY <1>6, <1>11
      <4> QED
        BY <1>1, <2>2, <4>1, OutstandingIsNext DEF Queued, Held
    <3> QED
      BY <3>1, <3>2 DEF Queued, Held
  <2>3. \A s \in Slots : block'[x][s] = IF s = SlotOf(f.index) THEN NoShot ELSE block[x][s]
    BY <1>4, <1>11
  <2>4. Gone(x, f)
    BY <1>1, <1>8, <1>9, <2>1, <2>2, <2>3 DEF Gone
  <2> QED
    BY <1>2, <2>4
<1> QED
  BY <1>10, <1>11

LEMMA RestartFrames ==
  ASSUME Restart, NEW x \in Cameras
  PROVE  Lost(x) /\ x \notin overrun'
<1>1. /\ queue'[x] = <<>> /\ ingest'[x].held = NoFrame /\ consumer'.batch = <<>> /\ overrun' = {}
      /\ \A s \in Slots : block'[x][s] = NoShot
  BY DEF Restart, Unstarted, Waiting, NoBlocks
<1>2. \A g : g \notin Outstanding(x)'
  BY <1>1, OutstandingIsNext DEF Queued, InBatch, Held
<1> QED
  BY <1>1, <1>2 DEF Lost

\* These are all the ways in which a step touches what a camera has outstanding.
LEMMA FramesStep ==
  ASSUME TransportInv, [Next]_vars, NEW x \in Cameras
  PROVE  \/ Untouched(x)
         \/ \E f \in Frames : Gone(x, f)
         \/ Capture(x) /\ Shot(x, ingest'[x].held)
         \/ Restart /\ Lost(x)
<1>1. ASSUME NEW c \in Cameras, OpenWithNextEpoch(c) PROVE Untouched(x)
  <2>1. NextEpoch(c) \in Nat /\ ~ ingest[c].connected /\ Opened(c, NextEpoch(c))
    BY <1>1 DEF OpenWithNextEpoch, NextEpoch, TransportInv, TypeOK, Epochs
  <2> QED
    BY <2>1, OpenedFrames
<1>2. ASSUME NEW c \in Cameras, OpenWithoutDatabase(c) PROVE Untouched(x)
  <2> DEFINE e == IF ingest[c].started THEN ingest[c].epoch + 1 ELSE 1
  <2>1. e \in Nat
    BY WorkerFields DEF TransportInv
  <2>2. ~ ingest[c].connected /\ Opened(c, e)
    BY <1>2 DEF OpenWithoutDatabase
  <2> HIDE DEF e
  <2> QED
    BY <2>1, <2>2, OpenedFrames
<1>3. ASSUME NEW c \in Cameras, Disconnect(c) PROVE Untouched(x)
  BY <1>3, DisconnectFrames
<1>4. ASSUME NEW c \in Cameras, Capture(c) PROVE Untouched(x) \/ (Capture(x) /\ Shot(x, ingest'[x].held))
  BY <1>4, CaptureFrames
<1>5. ASSUME NEW c \in Cameras, Publish(c) PROVE Untouched(x) \/ \E f \in Frames : Gone(x, f)
  BY <1>5, PublishFrames
<1>6. ASSUME ReadStats \/ Fetch PROVE Untouched(x)
  <2>1. consumer'.batch = consumer.batch /\ UNCHANGED <<queue, ingest, block, overrun>>
    BY <1>6, WorkedBatch DEF ReadStats, Fetch, history
  <2> QED
    BY <2>1, SameFrames
<1>7. ASSUME UNCHANGED vars PROVE Untouched(x)
  BY <1>7, SameFrames DEF vars, history
<1> QED
  BY <1>1, <1>2, <1>3, <1>4, <1>5, <1>6, <1>7, ConsumeFrames, ReleaseFrames, RestartFrames
  DEF Next, IngestStep, InferenceStep

-----------------------------------------------------------------------------
(* No block is left behind *)

LEMMA NothingLeaksStep ==
  ASSUME TransportInv, NothingLeaks, [Next]_vars
  PROVE  NothingLeaks'
<1> SUFFICES ASSUME NEW x \in Cameras, NEW s \in Slots, block'[x][s] # NoShot
             PROVE  \E f \in Outstanding(x)' : f.shot = block'[x][s] /\ SlotOf(f.index) = s
  BY DEF NothingLeaks
<1>1. CASE Untouched(x)
  BY <1>1 DEF Untouched, NothingLeaks
<1>2. ASSUME NEW f \in Frames, Gone(x, f)
      PROVE  \E g \in Outstanding(x)' : g.shot = block'[x][s] /\ SlotOf(g.index) = s
  <2>1. s # SlotOf(f.index) /\ block'[x][s] = block[x][s]
    BY <1>2 DEF Gone
  <2>2. PICK g \in Outstanding(x) : g.shot = block[x][s] /\ SlotOf(g.index) = s
    BY <2>1 DEF NothingLeaks
  <2>3. g # f
    BY <2>1, <2>2
  <2> QED
    BY <1>2, <2>1, <2>2, <2>3 DEF Gone
<1>3. CASE Shot(x, ingest'[x].held)
  <2> DEFINE f == ingest'[x].held
  <2>1. CASE s = SlotOf(f.index)
    BY <1>3, <2>1 DEF Shot
  <2>2. CASE s # SlotOf(f.index)
    <3>1. block'[x][s] = block[x][s]
      BY <1>3, <2>2 DEF Shot
    <3>2. PICK g \in Outstanding(x) : g.shot = block[x][s] /\ SlotOf(g.index) = s
      BY <3>1 DEF NothingLeaks
    <3> QED
      BY <1>3, <3>1, <3>2 DEF Shot
  <2> QED
    BY <2>1, <2>2
<1>4. CASE Lost(x)
  BY <1>4 DEF Lost
<1> QED
  BY <1>1, <1>2, <1>3, <1>4, FramesStep

\* Whatever is evicted, reopened or restarted in whatever order, a name that
\* holds a block is the name of a frame that is still to be processed.
THEOREM NoBlockLeaks == Spec => []NothingLeaks
<1>1. Init => NothingLeaks
  BY DEF Init, NoBlocks, NothingLeaks
<1>2. TransportInv /\ NothingLeaks /\ [Next]_vars => NothingLeaks'
  BY NothingLeaksStep
<1> QED
  BY <1>1, <1>2, TransportInvInit, TransportInvNext, PTL DEF Spec

-----------------------------------------------------------------------------
(* Frames get their own pixels *)

\* The pixels of every outstanding frame are its own until the camera overruns.
OwnPixels == \A c \in Cameras \ overrun : \A f \in Outstanding(c) : Pixels(f) = f.shot

\* What the inference worker holds while it processes a frame is the frame's.
OwnGot ==
  consumer.pc = "release" /\ Head(consumer.batch).camera \notin overrun
    => consumer.got = Head(consumer.batch).shot

LEMMA OwnPixelsStep ==
  ASSUME TransportInv, Apart, OwnPixels, [Next]_vars
  PROVE  OwnPixels'
<1> SUFFICES ASSUME NEW x \in Cameras, x \notin overrun', NEW g \in Outstanding(x)'
             PROVE  block'[g.camera][SlotOf(g.index)] = g.shot
  BY DEF OwnPixels, Pixels
<1>1. g.camera = x /\ SlotOf(g.index) \in Slots
  <2>1. TransportInv'
    BY TransportInvNext
  <2>2. \A f \in Outstanding(x)' : f \in Frames /\ f.camera = x
    <3>1. ASSUME NEW f \in Outstanding(x)' PROVE f \in Frames /\ f.camera = x
      <4>1. /\ queue'[x] \in Seq(Frames) /\ consumer'.batch \in Seq(Frames)
            /\ ingest'[x].held \in Frames \cup {NoFrame}
            /\ \A i \in DOMAIN queue'[x] : queue'[x][i].camera = x
            /\ ingest'[x].held # NoFrame => ingest'[x].held.camera = x
        BY <2>1 DEF TransportInv, TypeOK, Filed
      <4> QED
        BY <3>1, <4>1, OutstandingIsNext DEF Queued, InBatch, Held
    <3> QED
      BY <3>1
  <2> QED
    BY <2>2, FrameIsSome, SlotInRange
<1>2. ASSUME x \notin overrun, NEW f \in Outstanding(x)
      PROVE  block[x][SlotOf(f.index)] = f.shot /\ f.shot # NoShot
  <2>1. f.camera = x /\ f.shot # NoShot
    BY OutstandingAreFrames
  <2> QED
    BY <1>2, <2>1 DEF OwnPixels, Pixels
<1>3. CASE Untouched(x)
  BY <1>1, <1>2, <1>3 DEF Untouched
<1>4. ASSUME NEW f \in Frames, Gone(x, f)
      PROVE  block'[x][SlotOf(g.index)] = g.shot
  <2>1. x \notin overrun /\ g \in Outstanding(x) /\ SlotOf(g.index) # SlotOf(f.index)
    BY <1>4 DEF Gone
  <2>2. block'[x][SlotOf(g.index)] = block[x][SlotOf(g.index)]
    BY <1>1, <1>4, <2>1 DEF Gone
  <2> QED
    BY <1>2, <2>1, <2>2
<1>5. CASE Shot(x, ingest'[x].held)
  <2> DEFINE f == ingest'[x].held
  <2>1. x \notin overrun /\ block[x][SlotOf(f.index)] = NoShot
    BY <1>5 DEF Shot
  <2>2. CASE g = f
    BY <1>1, <1>5, <2>2 DEF Shot
  <2>3. CASE g # f
    <3>1. g \in Outstanding(x)
      BY <1>5, <2>3 DEF Shot
    <3>2. block[x][SlotOf(g.index)] = g.shot /\ g.shot # NoShot
      BY <1>2, <2>1, <3>1
    <3>3. SlotOf(g.index) # SlotOf(f.index)
      BY <2>1, <3>2
    <3> QED
      BY <1>1, <1>5, <3>2, <3>3 DEF Shot
  <2> QED
    BY <1>1, <2>2, <2>3
<1>6. CASE Lost(x)
  BY <1>6 DEF Lost
<1> QED
  BY <1>1, <1>3, <1>4, <1>5, <1>6, FramesStep

LEMMA SameApart ==
  ASSUME NEW x, ApartOf(x), UNCHANGED <<queue[x], consumer.batch>>,
         ingest'[x].held = ingest[x].held \/ ingest'[x].held = NoFrame
  PROVE  ApartOf(x)'
BY DEF ApartOf

LEMMA CaptureApart ==
  ASSUME TransportInv, Apart, OwnPixels, NEW c \in Cameras, Capture(c), NEW x \in Cameras, x \notin overrun'
  PROVE  ApartOf(x)'
<1>1. UNCHANGED <<queue, consumer>> /\ \A y \in Cameras : y # c => ingest'[y] = ingest[y]
  BY CapturedFrame
<1>2. CASE x # c
  <2>1. x \notin overrun
    BY CaptureFrames, <1>2 DEF Untouched
  <2>2. ApartOf(x) /\ ingest'[x] = ingest[x]
    BY <1>1, <1>2, <2>1 DEF Apart
  <2> QED
    BY <1>1, <2>2, SameApart
<1>3. CASE x = c
  <2> DEFINE f == ingest'[x].held
  <2>1. Shot(x, f)
    BY <1>3, CaptureFrames
  <2>2. x \notin overrun /\ block[x][SlotOf(f.index)] = NoShot
    BY <2>1 DEF Shot
  <2>3. \A g \in Outstanding(x) : SlotOf(g.index) # SlotOf(f.index)
    <3> TAKE g \in Outstanding(x)
    <3>1. g.camera = x /\ g.shot # NoShot
      BY OutstandingAreFrames
    <3>2. block[x][SlotOf(g.index)] = g.shot
      BY <2>2, <3>1 DEF OwnPixels, Pixels
    <3> QED
      BY <2>2, <3>1, <3>2
  <2>4. \A i \in DOMAIN queue[x] : queue[x][i] \in Outstanding(x)
    BY OutstandingIs DEF Queued
  <2>5. \A k \in DOMAIN consumer.batch : consumer.batch[k].camera = x => consumer.batch[k] \in Outstanding(x)
    BY OutstandingIs DEF InBatch
  <2>6. ApartOf(x)
    BY <2>2 DEF Apart
  <2> QED
    BY <1>1, <2>3, <2>4, <2>5, <2>6 DEF ApartOf
<1> QED
  BY <1>2, <1>3

\* A queue that a published frame has been added to, whether or not its head
\* was dropped: each place has the frame of a place before, in the same order.
LEMMA PublishedPlaces ==
  ASSUME TransportInv, NEW c \in Cameras, Publish(c)
  PROVE  \E d \in {0, 1}, n \in Nat :
           /\ DOMAIN queue'[c] = 1 .. n + 1 /\ queue'[c][n + 1] = ingest[c].held
           /\ \A i \in 1 .. n : i + d \in DOMAIN queue[c] /\ queue'[c][i] = queue[c][i + d]
<1> USE DEF TransportInv
<1>1. /\ queue \in [Cameras -> Seq(Frames)] /\ queue[c] \in Seq(Frames)
  BY DEF TypeOK
<1>2. ingest[c].held \in Frames
  BY PublishedQueue
<1>3. CASE Enqueue(c)
  <2>1. queue'[c] = Append(queue[c], ingest[c].held)
    BY <1>1, <1>3 DEF Enqueue
  <2>2. /\ Len(queue[c]) \in Nat
        /\ DOMAIN queue[c] = 1 .. Len(queue[c]) /\ DOMAIN queue'[c] = 1 .. Len(queue[c]) + 1
        /\ \A i \in DOMAIN queue[c] : queue'[c][i] = queue[c][i]
        /\ queue'[c][Len(queue[c]) + 1] = ingest[c].held
    BY <1>1, <1>2, <2>1, Added
  <2>3. \A i \in 1 .. Len(queue[c]) : i + 0 \in DOMAIN queue[c] /\ queue'[c][i] = queue[c][i + 0]
    BY <2>2
  <2> QED
    BY <2>2, <2>3
<1>4. CASE Evict(c)
  <2> DEFINE rest == Tail(queue[c])
  <2>1. queue[c] # <<>>
    BY <1>1, <1>4, SizesAssumption DEF Evict
  <2>2. /\ Len(queue[c]) \in Nat /\ Len(queue[c]) >= 1
        /\ rest \in Seq(Frames) /\ Len(rest) = Len(queue[c]) - 1 /\ DOMAIN rest = 1 .. Len(queue[c]) - 1
        /\ \A i \in DOMAIN rest : i + 1 \in DOMAIN queue[c] /\ rest[i] = queue[c][i + 1]
    BY <1>1, <2>1, Taken
  <2>3. queue'[c] = Append(rest, ingest[c].held)
    BY <1>1, <1>4 DEF Evict
  <2> HIDE DEF rest
  <2>4. /\ Len(rest) \in Nat /\ DOMAIN rest = 1 .. Len(rest) /\ DOMAIN queue'[c] = 1 .. Len(rest) + 1
        /\ \A i \in DOMAIN rest : queue'[c][i] = rest[i]
        /\ queue'[c][Len(rest) + 1] = ingest[c].held
    <3>1. /\ Len(rest) \in Nat /\ DOMAIN rest = 1 .. Len(rest)
          /\ DOMAIN Append(rest, ingest[c].held) = 1 .. Len(rest) + 1
          /\ \A i \in DOMAIN rest : Append(rest, ingest[c].held)[i] = rest[i]
          /\ Append(rest, ingest[c].held)[Len(rest) + 1] = ingest[c].held
      BY <1>2, <2>2, Added
    <3> QED
      BY <2>3, <3>1
  <2>5. \A i \in 1 .. Len(rest) : i + 1 \in DOMAIN queue[c] /\ queue'[c][i] = queue[c][i + 1]
    BY <2>2, <2>4
  <2> QED
    BY <2>4, <2>5
<1> QED
  BY <1>3, <1>4 DEF Publish

LEMMA PublishApart ==
  ASSUME TransportInv, Apart, NEW c \in Cameras, Publish(c), NEW x \in Cameras, x \notin overrun'
  PROVE  ApartOf(x)'
<1> USE DEF TransportInv
<1>1. UNCHANGED <<consumer, overrun>>
  BY DEF Publish
<1>2. /\ ingest[c].held # NoFrame /\ queue' = [queue EXCEPT ![c] = queue'[c]]
  BY PublishedQueue
<1>3. ingest' = [ingest EXCEPT ![c] = [ingest[c] EXCEPT !.held = NoFrame]] /\ ingest[c] \in Workers
  BY WorkerFields DEF Publish
<1>4. ingest'[c].held = NoFrame
  <2>1. ingest'[c] = [ingest[c] EXCEPT !.held = NoFrame]
    BY <1>3 DEF TypeOK
  <2> QED
    BY <1>3, <2>1 DEF Workers
<1>5. ApartOf(x)
  BY <1>1 DEF Apart
<1>6. CASE x # c
  <2>1. queue'[x] = queue[x] /\ ingest'[x] = ingest[x]
    BY <1>2, <1>3, <1>6 DEF TypeOK
  <2> QED
    BY <1>1, <1>5, <2>1, SameApart
<1>7. CASE x = c
  <2>1. PICK d \in {0, 1}, n \in Nat :
           /\ DOMAIN queue'[x] = 1 .. n + 1 /\ queue'[x][n + 1] = ingest[x].held
           /\ \A i \in 1 .. n : i + d \in DOMAIN queue[x] /\ queue'[x][i] = queue[x][i + d]
    BY <1>7, PublishedPlaces
  <2>2. /\ \A i, j \in DOMAIN queue[x] : SlotOf(queue[x][i].index) = SlotOf(queue[x][j].index) => i = j
        /\ \A i \in DOMAIN queue[x], k \in DOMAIN consumer.batch :
             consumer.batch[k].camera = x => SlotOf(queue[x][i].index) # SlotOf(consumer.batch[k].index)
        /\ \A i \in DOMAIN queue[x] : SlotOf(queue[x][i].index) # SlotOf(ingest[x].held.index)
        /\ \A k \in DOMAIN consumer.batch :
             consumer.batch[k].camera = x => SlotOf(consumer.batch[k].index) # SlotOf(ingest[x].held.index)
    BY <1>2, <1>5, <1>7 DEF ApartOf
  <2>3. \A i, j \in DOMAIN queue'[x] : SlotOf(queue'[x][i].index) = SlotOf(queue'[x][j].index) => i = j
    <3> SUFFICES ASSUME NEW i \in 1 .. n + 1, NEW j \in 1 .. n + 1,
                        SlotOf(queue'[x][i].index) = SlotOf(queue'[x][j].index)
                 PROVE  i = j
      BY <2>1
    <3>1. CASE i \in 1 .. n /\ j \in 1 .. n
      <4>1. i + d = j + d
        BY <2>1, <2>2, <3>1
      <4> QED
        BY <4>1
    <3>2. CASE i \in 1 .. n /\ j = n + 1
      BY <2>1, <2>2, <3>2
    <3>3. CASE i = n + 1 /\ j \in 1 .. n
      BY <2>1, <2>2, <3>3
    <3>4. CASE i = n + 1 /\ j = n + 1
      BY <3>4
    <3> QED
      BY <3>1, <3>2, <3>3, <3>4
  <2>4. \A i \in DOMAIN queue'[x], k \in DOMAIN consumer.batch :
          consumer.batch[k].camera = x => SlotOf(queue'[x][i].index) # SlotOf(consumer.batch[k].index)
    <3> SUFFICES ASSUME NEW i \in 1 .. n + 1, NEW k \in DOMAIN consumer.batch, consumer.batch[k].camera = x
                 PROVE  SlotOf(queue'[x][i].index) # SlotOf(consumer.batch[k].index)
      BY <2>1
    <3>1. CASE i \in 1 .. n
      BY <2>1, <2>2, <3>1
    <3>2. CASE i = n + 1
      BY <2>1, <2>2, <3>2
    <3> QED
      BY <3>1, <3>2
  <2> QED
    BY <1>1, <1>4, <1>7, <2>3, <2>4 DEF ApartOf
<1> QED
  BY <1>6, <1>7

LEMMA ConsumeApart ==
  ASSUME TransportInv, Apart, Consume, NEW x \in Cameras, x \notin overrun'
  PROVE  ApartOf(x)'
<1>1. UNCHANGED <<ingest, overrun>>
  BY DEF Consume, history
<1>2. ApartOf(x)
  BY <1>1 DEF Apart
<1>3. \A k \in DOMAIN consumer'.batch :
        consumer'.batch[k].camera = x => queue[x] # <<>> /\ consumer'.batch[k] = queue[x][1] /\ 1 \in DOMAIN queue[x]
  <2> SUFFICES ASSUME NEW k \in DOMAIN consumer'.batch, consumer'.batch[k].camera = x
               PROVE  queue[x] # <<>> /\ consumer'.batch[k] = queue[x][1] /\ 1 \in DOMAIN queue[x]
    OBVIOUS
  <2>1. PICK c \in Cameras : queue[c] # <<>> /\ consumer'.batch[k] = queue[c][1]
    BY ConsumedBatch
  <2>2. 1 \in DOMAIN queue[c]
    BY <2>1, Taken DEF TransportInv, TypeOK
  <2>3. c = x
    BY <2>1, <2>2 DEF TransportInv, Filed
  <2> QED
    BY <2>1, <2>2, <2>3
<1>4. /\ queue' \in [Cameras -> Seq(Frames)]
      /\ \A i \in DOMAIN queue'[x] : i \in Nat /\ i + 1 \in DOMAIN queue[x] /\ queue'[x][i] = queue[x][i + 1]
  BY ConsumedQueue
<1>5. \A i \in DOMAIN queue'[x] : i + 1 # 1
  <2>1. queue'[x] \in Seq(Frames)
    BY <1>4
  <2> QED
    BY <2>1
<1>6. \A i, j \in DOMAIN queue'[x] : SlotOf(queue'[x][i].index) = SlotOf(queue'[x][j].index) => i = j
  <2> SUFFICES ASSUME NEW i \in DOMAIN queue'[x], NEW j \in DOMAIN queue'[x],
                      SlotOf(queue'[x][i].index) = SlotOf(queue'[x][j].index)
               PROVE  i = j
    OBVIOUS
  <2>1. i + 1 = j + 1 /\ i \in Nat /\ j \in Nat
    BY <1>2, <1>4 DEF ApartOf
  <2> QED
    BY <2>1
<1>7. \A i \in DOMAIN queue'[x], k \in DOMAIN consumer'.batch :
        consumer'.batch[k].camera = x => SlotOf(queue'[x][i].index) # SlotOf(consumer'.batch[k].index)
  BY <1>2, <1>3, <1>4, <1>5 DEF ApartOf
<1>8. ingest'[x].held # NoFrame =>
        /\ \A i \in DOMAIN queue'[x] : SlotOf(queue'[x][i].index) # SlotOf(ingest'[x].held.index)
        /\ \A k \in DOMAIN consumer'.batch :
             consumer'.batch[k].camera = x => SlotOf(consumer'.batch[k].index) # SlotOf(ingest'[x].held.index)
  BY <1>1, <1>2, <1>3, <1>4 DEF ApartOf
<1> QED
  BY <1>6, <1>7, <1>8 DEF ApartOf

LEMMA ReleaseApart ==
  ASSUME TransportInv, Apart, Release, NEW x \in Cameras, x \notin overrun'
  PROVE  ApartOf(x)'
<1>1. UNCHANGED <<ingest, queue, overrun>>
  BY DEF Release, history
<1>2. ApartOf(x)
  BY <1>1 DEF Apart
<1>3. \A k \in DOMAIN consumer'.batch : k + 1 \in DOMAIN consumer.batch /\ consumer'.batch[k] = consumer.batch[k + 1]
  BY ReleasedBatch
<1> QED
  BY <1>1, <1>2, <1>3 DEF ApartOf

LEMMA ApartStep ==
  ASSUME TransportInv, Apart, OwnPixels, [Next]_vars
  PROVE  Apart'
<1> SUFFICES ASSUME NEW x \in Cameras, x \notin overrun' PROVE ApartOf(x)'
  BY DEF Apart
<1>1. ASSUME NEW c \in Cameras, NEW e \in Nat, ~ ingest[c].connected, Opened(c, e) PROVE ApartOf(x)'
  <2>1. /\ ingest'[c].held = NoFrame /\ \A y \in Cameras : y # c => ingest'[y] = ingest[y]
        /\ UNCHANGED <<queue, consumer, overrun>>
    BY <1>1, OpenedWorker DEF TransportInv
  <2> QED
    BY <2>1, SameApart DEF Apart
<1>2. ASSUME NEW c \in Cameras, OpenWithNextEpoch(c) PROVE ApartOf(x)'
  <2>1. NextEpoch(c) \in Nat /\ ~ ingest[c].connected /\ Opened(c, NextEpoch(c))
    BY <1>2 DEF OpenWithNextEpoch, NextEpoch, TransportInv, TypeOK, Epochs
  <2> QED
    BY <1>1, <2>1
<1>3. ASSUME NEW c \in Cameras, OpenWithoutDatabase(c) PROVE ApartOf(x)'
  <2> DEFINE e == IF ingest[c].started THEN ingest[c].epoch + 1 ELSE 1
  <2>1. e \in Nat
    BY WorkerFields DEF TransportInv
  <2>2. ~ ingest[c].connected /\ Opened(c, e)
    BY <1>3 DEF OpenWithoutDatabase
  <2> HIDE DEF e
  <2> QED
    BY <1>1, <2>1, <2>2
<1>4. ASSUME NEW c \in Cameras, Disconnect(c) PROVE ApartOf(x)'
  <2>1. ingest' = [ingest EXCEPT ![c] = [ingest[c] EXCEPT !.connected = FALSE]] /\ ingest[c] \in Workers
    BY <1>4, WorkerFields DEF Disconnect, TransportInv
  <2>2. ingest'[x] = IF x = c THEN [ingest[c] EXCEPT !.connected = FALSE] ELSE ingest[x]
    BY <2>1 DEF TransportInv, TypeOK
  <2>3. ingest'[x].held = ingest[x].held
    BY <2>1, <2>2 DEF Workers
  <2>4. UNCHANGED <<queue, consumer, overrun>>
    BY <1>4 DEF Disconnect, history
  <2> QED
    BY <2>3, <2>4, SameApart DEF Apart
<1>5. ASSUME NEW c \in Cameras, Capture(c) \/ Publish(c) PROVE ApartOf(x)'
  BY <1>5, CaptureApart, PublishApart
<1>6. CASE Consume \/ Release
  BY <1>6, ConsumeApart, ReleaseApart
<1>7. CASE ReadStats \/ Fetch
  <2>1. consumer'.batch = consumer.batch /\ UNCHANGED <<queue, ingest, overrun>>
    BY <1>7, WorkedBatch DEF ReadStats, Fetch, history
  <2> QED
    BY <2>1, SameApart DEF Apart
<1>8. CASE Restart
  <2>1. queue'[x] = <<>> /\ ingest'[x].held = NoFrame
    BY <1>8 DEF Restart, Unstarted
  <2> QED
    BY <2>1 DEF ApartOf
<1>9. CASE UNCHANGED vars
  BY <1>9, SameApart DEF Apart, vars, history
<1> QED
  BY <1>2, <1>3, <1>4, <1>5, <1>6, <1>7, <1>8, <1>9 DEF Next, IngestStep, InferenceStep

LEMMA OwnGotStep ==
  ASSUME TransportInv, OwnPixels, OwnGot, [Next]_vars
  PROVE  OwnGot'
<1> SUFFICES ASSUME consumer'.pc = "release", Head(consumer'.batch).camera \notin overrun'
             PROVE  consumer'.got = Head(consumer'.batch).shot
  BY DEF OwnGot
<1>1. CASE Fetch
  <2> DEFINE f == consumer.batch[1]
  <2>1. /\ consumer'.batch = consumer.batch /\ consumer'.got = Pixels(f) /\ Head(consumer.batch) = f
        /\ f \in Frames /\ 1 \in DOMAIN consumer.batch
    BY <1>1, WorkedBatch
  <2>2. overrun' = overrun
    BY <1>1 DEF Fetch
  <2>3. f \in Outstanding(f.camera) /\ f.camera \in Cameras \ overrun
    BY <2>1, <2>2, FrameIsSome, OutstandingIs DEF InBatch
  <2> QED
    BY <2>1, <2>3 DEF OwnPixels
<1>2. CASE ReadStats \/ Release \/ Consume \/ Restart
  BY <1>2, WorkedBatch, ReleasedBatch, ConsumedBatch DEF Restart, Waiting
<1>3. ASSUME consumer' = consumer, overrun \subseteq overrun'
      PROVE  consumer'.got = Head(consumer'.batch).shot
  BY <1>3 DEF OwnGot
<1>4. ASSUME NEW c \in Cameras, IngestStep(c) PROVE consumer' = consumer /\ overrun \subseteq overrun'
  BY <1>4 DEF IngestStep, OpenWithNextEpoch, OpenWithoutDatabase, Opened, Disconnect, Capture, Publish, history
<1>5. CASE UNCHANGED vars
  BY <1>3, <1>5 DEF vars, history
<1> QED
  BY <1>1, <1>2, <1>3, <1>4, <1>5 DEF Next, InferenceStep

\* A camera that never wrote over a block in use gets the pixels of each of its
\* frames, and the inference worker processes them with the frame they belong to:
\* no eviction, reopening or batch ever closes or reads another frame's block.
THEOREM PixelsAreOwn == Spec => []OwnPixelsUntilOverrun
<1>1. Init => Apart /\ OwnPixels /\ OwnGot
  <2> SUFFICES ASSUME Init PROVE Apart /\ OwnPixels /\ OwnGot
    OBVIOUS
  <2>1. \A c \in Cameras : queue[c] = <<>> /\ ingest[c].held = NoFrame
    BY DEF Init, Unstarted
  <2>2. consumer.batch = <<>> /\ consumer.pc = "consume"
    BY DEF Init, Waiting
  <2>3. \A c \in Cameras : \A f : f \notin Outstanding(c)
    BY <2>1, <2>2, OutstandingIs DEF Queued, InBatch, Held
  <2> QED
    BY <2>1, <2>2, <2>3 DEF Apart, ApartOf, OwnPixels, OwnGot
<1>2. TransportInv /\ Apart /\ OwnPixels /\ OwnGot /\ [Next]_vars => (Apart /\ OwnPixels /\ OwnGot)'
  BY ApartStep, OwnPixelsStep, OwnGotStep
<1>3. OwnPixels /\ OwnGot => OwnPixelsUntilOverrun
  BY DEF OwnPixels, OwnGot, OwnPixelsUntilOverrun
<1> QED
  BY <1>1, <1>2, <1>3, TransportInvInit, TransportInvNext, PTL DEF Spec

-----------------------------------------------------------------------------
(* Supervisor *)

\* The longest pause of a camera, in ticks.
Longest == (Cap - 1) \div TickSeconds

\* Only a death leaves processes behind, a supervisor that is down has no
\* tables, and no camera is put off for longer than the cap.
SupervisorInv ==
  /\ up \in BOOLEAN /\ deaths \in Nat
  /\ child \in [CameraIds -> {"none", "alive", "dead"}]
  /\ ~up => \A c \in CameraIds : child[c] = "none"
  /\ attempts \in [CameraIds -> 0..Overflow]
  /\ hold \in [CameraIds -> Int] /\ \A c \in CameraIds : hold[c] <= Longest
  /\ strays \in [CameraIds -> Nat] /\ OneProcessPerCamera

\* Multiples that are one apart are a factor apart.
LEMMA Stretched ==
  ASSUME NEW t \in Nat \ {0}, NEW p \in Int, NEW q \in Int, p >= q + 1
  PROVE  t * p >= t * q + t
<1>1. t * (p - q) >= t
  OBVIOUS
<1>2. t * (p - q) = t * p - t * q
  OBVIOUS
<1>3. t * p \in Int /\ t * q \in Int
  OBVIOUS
<1> QED
  BY <1>1, <1>2, <1>3

LEMMA QuotientGrows ==
  ASSUME NEW a \in Int, NEW b \in Int, NEW t \in Nat \ {0}, a <= b
  PROVE  a \div t \in Int /\ a \div t <= b \div t
<1> DEFINE p == a \div t
           q == b \div t
<1>1. t * p <= a /\ b < t * q + t
  OBVIOUS
<1>2. p \in Int /\ q \in Int
  OBVIOUS
<1> HIDE DEF p, q
<1>3. t * p \in Int /\ t * q \in Int
  BY <1>2
<1>4. ~ (p >= q + 1)
  BY <1>1, <1>2, <1>3, Stretched
<1>5. p <= q
  BY <1>2, <1>4
<1> QED
  BY <1>2, <1>5 DEF p, q

LEMMA BackoffIsCapped ==
  ASSUME NEW a \in 0..Overflow
  PROVE  Backoff(a) \in Int /\ Backoff(a) <= Longest /\ Longest \in Int /\ 0 <= Longest
<1>0. a \in Nat /\ Base \in Int /\ Cap \in Nat \ {0} /\ TickSeconds \in Nat \ {0}
  BY SecondsAssumption
<1> DEFINE seconds == Base * 2 ^ a
           least == IF seconds < Cap THEN seconds ELSE Cap
<1>1. 2 ^ a \in Int
  BY <1>0
<1>2. seconds \in Int
  BY <1>0, <1>1
<1>3. Backoff(a) = (least - 1) \div TickSeconds
  BY DEF Backoff
<1> HIDE DEF seconds
<1>4. least - 1 \in Int /\ Cap - 1 \in Int /\ least - 1 <= Cap - 1 /\ 0 <= Cap - 1
  BY <1>0, <1>2
<1> HIDE DEF least
<1>5. 0 \div TickSeconds = 0
  BY <1>0
<1>6. 0 <= Longest /\ Longest \in Int
  BY <1>0, <1>4, <1>5, QuotientGrows DEF Longest
<1>7. Backoff(a) \in Int /\ Backoff(a) <= Longest
  BY <1>0, <1>3, <1>4, QuotientGrows DEF Longest
<1> QED
  BY <1>6, <1>7

\* Looking at a camera starts a process only where there is none.
LEMMA SyncKeeps ==
  ASSUME SupervisorInv, NEW failing \in SUBSET enabled, NEW lag \in 1..2, Sync(failing, lag), up, UNCHANGED <<up, deaths>>
  PROVE  SupervisorInv'
<1>0. Overflow \in Nat \ {0}
  BY SecondsAssumption
<1>1. \A c \in CameraIds : Attempts(c) \in 0..Overflow
  BY <1>0 DEF SupervisorInv, Attempts
<1>2. child' \in [CameraIds -> {"none", "alive", "dead"}]
  BY DEF SupervisorInv, Sync
<1>3. attempts' \in [CameraIds -> 0..Overflow]
  BY <1>0, <1>1 DEF SupervisorInv, Sync
<1>4. ASSUME NEW c \in CameraIds PROVE hold'[c] \in Int /\ hold'[c] <= Longest
  <2>1. hold'[c] \in {Backoff(Attempts(c)), 0, Elapsed(lag)[c]}
    BY <1>4 DEF Sync
  <2>2. 0 <= Longest /\ Longest \in Int /\ Backoff(Attempts(c)) \in Int /\ Backoff(Attempts(c)) <= Longest
    BY <1>1, <1>4, BackoffIsCapped
  <2>3. Elapsed(lag)[c] \in Int /\ Elapsed(lag)[c] <= Longest
    BY <1>4, <2>2 DEF Elapsed, SupervisorInv
  <2> QED
    BY <2>1, <2>2, <2>3
<1>5. hold' \in [CameraIds -> Int]
  <2>1. hold' = [c \in CameraIds |-> hold'[c]]
    BY DEF Sync
  <2> QED
    BY <1>4, <2>1
<1>6. strays' = strays
  <2>1. \A c \in CameraIds : ~ (Spawned(c, failing) /\ child[c] = "alive")
    BY DEF Spawned, Due
  <2>2. strays' = [c \in CameraIds |-> strays[c]]
    BY <2>1 DEF Sync
  <2> QED
    BY <2>2 DEF SupervisorInv
<1>7. Longest' = Longest
  BY DEF Longest
<1> QED
  BY <1>2, <1>3, <1>4, <1>5, <1>6, <1>7 DEF SupervisorInv, OneProcessPerCamera

LEMMA DownKeeps ==
  ASSUME SupervisorInv, NEW left, Down(left)
  PROVE  SupervisorInv'
<1>0. 0 \in 0..Overflow /\ 0 <= Longest /\ Longest \in Int
  BY SecondsAssumption, BackoffIsCapped
<1>1. /\ up' = FALSE /\ deaths' = deaths + 1 /\ deaths' \in Nat
      /\ child' = [c \in CameraIds |-> "none"]
      /\ attempts' = [c \in CameraIds |-> 0] /\ hold' = [c \in CameraIds |-> 0]
  BY DEF Down, SupervisorInv
<1>2. strays' \in [CameraIds -> Nat] /\ \A c \in CameraIds : strays'[c] <= strays[c] + 1
  BY DEF Down, SupervisorInv
<1>3. \A c \in CameraIds : strays'[c] <= deaths'
  BY <1>1, <1>2 DEF SupervisorInv, OneProcessPerCamera
<1>4. \A c \in CameraIds : hold'[c] <= Longest'
  BY <1>0, <1>1 DEF Longest
<1>5. child' \in [CameraIds -> {"none", "alive", "dead"}] /\ \A c \in CameraIds : child'[c] = "none"
  BY <1>1
<1>6. attempts' \in [CameraIds -> 0..Overflow] /\ hold' \in [CameraIds -> Int]
  BY <1>0, <1>1
<1>7. OneProcessPerCamera'
  BY <1>3 DEF OneProcessPerCamera
<1> QED
  BY <1>1, <1>2, <1>4, <1>5, <1>6, <1>7 DEF SupervisorInv

LEMMA SupervisorInvNext == SupervisorInv /\ [SupervisorNext]_supervisorVars => SupervisorInv'
<1> SUFFICES ASSUME SupervisorInv, [SupervisorNext]_supervisorVars PROVE SupervisorInv'
  OBVIOUS
<1>1. CASE Tick
  <2>1. PICK failing \in SUBSET enabled, lag \in 1..2 : Sync(failing, lag)
    BY <1>1 DEF Tick
  <2> QED
    BY <1>1, <2>1, SyncKeeps DEF Tick
<1>2. CASE Stop \/ Death
  BY <1>2, DownKeeps DEF Stop, Death
<1>3. CASE Start \/ (\E c \in CameraIds : Enable(c) \/ Disable(c)) \/ UNCHANGED supervisorVars
  BY <1>3 DEF Start, Enable, Disable, supervisorVars, SupervisorInv, OneProcessPerCamera, Longest
<1>4. ASSUME NEW c \in CameraIds, Exit(c) PROVE SupervisorInv'
  <2>1. up
    BY <1>4 DEF Exit, SupervisorInv
  <2> QED
    BY <1>4, <2>1 DEF Exit, SupervisorInv, OneProcessPerCamera, Longest
<1> QED
  BY <1>1, <1>2, <1>3, <1>4 DEF SupervisorNext

LEMMA SupervisorInvInit == SupervisorInit => SupervisorInv
<1>1. 0 \in 0..Overflow /\ 0 <= Longest /\ Longest \in Int
  BY SecondsAssumption, BackoffIsCapped
<1> QED
  BY <1>1 DEF SupervisorInit, SupervisorInv, OneProcessPerCamera

\* A camera has as many ingest processes as the supervisor died times, beside the
\* one that is in its table: however exits, failed spawns, changes of the
\* camera table and ticks that end early interleave, none is started over one
\* that lives (manager.py sync_camera_workers).
THEOREM OneProcess == SupervisorSpec => []OneProcessPerCamera
<1>1. SupervisorInv => OneProcessPerCamera
  BY DEF SupervisorInv
<1> QED
  BY <1>1, SupervisorInvInit, SupervisorInvNext, PTL DEF SupervisorSpec

\* However often a camera exits, it is never put off for longer than the cap,
\* although the power that the cap is applied to has no bound (manager.py:100).
THEOREM PausesAreCapped == SupervisorSpec => [](\A c \in CameraIds : hold[c] <= Longest)
<1>1. SupervisorInv => \A c \in CameraIds : hold[c] <= Longest
  BY DEF SupervisorInv
<1> QED
  BY <1>1, SupervisorInvInit, SupervisorInvNext, PTL DEF SupervisorSpec
=============================================================================
