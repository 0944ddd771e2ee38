------------------------------ MODULE Counting ------------------------------
(***************************************************************************)
(* One counting engine: the tracker gives detections an identity, the gate *)
(* state machine turns changes of side into crossings, and the host of the *)
(* engine writes them to the ledger.  The host is the inference worker,    *)
(* which also drives the PLC, or the live renderer, whose counting line an *)
(* operator moves between frames.                                          *)
(*                                                                         *)
(* A frame is one step: process_frame and what its host does with the      *)
(* output run without a yield to another user of the same engine.  Which   *)
(* detection belongs to which track is the association's choice, so a      *)
(* frame matches any of the known tracks anywhere on the belt axis; a blob *)
(* that is split, or a bag that enters, is one more detection.             *)
(***************************************************************************)
EXTENDS Integers, FiniteSetsExt

CONSTANTS
  Positions,    \* positions on the belt axis
  Lines,        \* positions of the counting line that operators choose
  DefaultLine,  \* where a new engine has it
  Offset,       \* half width of the zones next to the line
  MaxTimeLost,  \* frames that a lost track is kept
  MaxNew,       \* detections of one frame that no track takes
  Target,       \* target of a session that has one
  Word,         \* size of a PLC register
  MaxTracks,    \* bound: identities that all processes give
  MaxSeq,       \* bound: crossings that all processes find
  MaxSessions,  \* bound: sessions that are opened
  MaxEpoch      \* bound: stream epochs

ASSUME PositionsAssumption == 0 \in Positions /\ Positions \subseteq Int /\ Lines \subseteq Int /\ DefaultLine \in Lines
ASSUME OffsetAssumption    == Offset \in Nat
ASSUME TimeLostAssumption  == MaxTimeLost \in Nat
ASSUME BoundsAssumption    == /\ MaxTracks \in Nat /\ MaxSeq \in Nat /\ MaxNew \in Nat
                              /\ Target \in Nat \ {0} /\ Word \in Nat \ {0}

VARIABLES
  host,         \* "worker" or "renderer"
  tracks,       \* what became of every identity of this process
  named,        \* BagTrack._count
  line,         \* gate_x: where the next frame finds the counting line
  running,      \* running_net_count of the engine
  epoch,        \* stream epoch that the host writes into the ledger
  session,      \* the active session, 0 when there is none
  opened,       \* sessions opened so far
  target,       \* target of the active session, 0 when it has none
  ledger,       \* table count_event
  register,     \* holding register 100 of the PLC
  conveyor,     \* coil conveyor_run of the PLC
  given, spent, \* identities and crossings of earlier processes
  begun,        \* history: running when the active session began
  refused,      \* history: a crossing of the active session was refused
  excused,      \* history: a fault cost the active session crossings
  displaced     \* history: the line moved across a track that was lost

engine  == <<tracks, named, running>>
plc     == <<register, conveyor>>
history == <<begun, refused, excused, displaced>>
vars    == <<host, engine, line, epoch, session, opened, target, ledger, plc, given, spent, history>>

Ids    == 1..MaxTracks
Known  == {"tentative", "confirmed", "lost"}
Active == {"tentative", "confirmed"}
Zones  == {"PRE_APPROACH", "PRE", "POST", "POST_DEPART"}

\* A track: "first" and "last" are history, the side on which the track was
\* measured at first and at last, and "net" is what it added to the count.
NoTrack == [state |-> "none", pos |-> 0, time |-> 0, zone |-> "none", seq |-> 0,
            first |-> 0, last |-> 0, net |-> 0]

\* A tracker that has not seen a frame.
NoTracks == [i \in Ids |-> NoTrack]

Init ==
  /\ host \in {"worker", "renderer"}
  /\ tracks = NoTracks /\ named = 0 /\ running = 0
  /\ line = DefaultLine
  /\ epoch = 1
  /\ session = 0 /\ opened = 0 /\ target = 0
  /\ ledger = {}
  /\ register = 0 /\ conveyor = TRUE
  /\ given = 0 /\ spent = 0
  /\ begun = 0 /\ refused = FALSE /\ excused = FALSE /\ displaced = FALSE

-----------------------------------------------------------------------------
(* The gate state machine.                                                 *)

\* update_geometry keeps the outer limits of the zones next to the line.
Boundaries == [pre |-> line - Offset, post |-> line + Offset]

ZoneOf(p) ==
  CASE p < Boundaries.pre -> "PRE_APPROACH"
    [] p >= Boundaries.pre /\ p <= line -> "PRE"
    [] p > line /\ p <= Boundaries.post -> "POST"
    [] p > Boundaries.post -> "POST_DEPART"

Side(zone) == IF zone \in {"POST", "POST_DEPART"} THEN 1 ELSE 0

\* Bug: the last but one measurement is taken for a zone before the line.
PrevZoneBefore(t) == IF t.zone # "none" THEN t.zone ELSE "PRE"

\* The zone remembered from the last frame or, when the memory was dropped,
\* the one of the last but one measurement under the line of today.
PrevZone(t) == IF t.zone # "none" THEN t.zone ELSE ZoneOf(t.pos)

Direction(t, p) == Side(ZoneOf(p)) - Side(PrevZone(t))

Abs(n) == IF n < 0 THEN -n ELSE n

-----------------------------------------------------------------------------
(* The tracker.                                                            *)

\* A detection was associated with the track; any second one confirms it.
Matched(t, p) ==
  [t EXCEPT !.state = "confirmed", !.pos = p, !.time = 0, !.zone = ZoneOf(p),
            !.seq = @ + Abs(Direction(t, p)), !.net = @ + Direction(t, p), !.last = Side(ZoneOf(p))]

\* predict: the track is a frame older.
Aged(t) == [t EXCEPT !.time = @ + 1]

\* No detection was: the track is lost, and pruned after MaxTimeLost frames.
Missed(t) ==
  IF Aged(t).time > MaxTimeLost
    THEN [t EXCEPT !.state = "pruned", !.pos = 0, !.time = 0, !.zone = "none"]
    ELSE [Aged(t) EXCEPT !.state = "lost", !.zone = "none"]

\* A detection that no track takes starts one; it crosses nothing yet.
Created(p) ==
  [NoTrack EXCEPT !.state = "tentative", !.pos = p, !.zone = ZoneOf(p),
                  !.first = Side(ZoneOf(p)), !.last = Side(ZoneOf(p))]

\* The tracks after a frame that measured those of the function "at" and
\* gave new identities to the detections "new".
Tracked(at, new) ==
  [i \in Ids |->
     IF i \in DOMAIN at THEN Matched(tracks[i], at[i])
     ELSE IF tracks[i].state \in Known THEN Missed(tracks[i])
     ELSE IF i - named \in DOMAIN new THEN Created(new[i - named])
     ELSE tracks[i]]

\* The crossings that a frame gives, and what they add to the count.
Crossing(at) == {i \in DOMAIN at : Direction(tracks[i], at[i]) # 0}

\* Bug: a bag that slips back over the line is not taken off the count.
NetForward(at) == Cardinality({i \in DOMAIN at : Direction(tracks[i], at[i]) = 1})

Net(at)      == Cardinality({i \in DOMAIN at : Direction(tracks[i], at[i]) = 1})
                - Cardinality({i \in DOMAIN at : Direction(tracks[i], at[i]) = -1})

\* Crossings that this process found.
Found == MapThenSumSet(LAMBDA i : tracks[i].seq, Ids)

\* What the detector may give: where known tracks are seen, and what is new.
Frames ==
  LET known == {i \in Ids : tracks[i].state \in Known}
      fresh == {n \in 0..MaxNew : given + named + n <= MaxTracks}
      left  == MaxSeq - spent - Found
      seen  == {at \in UNION {[ids -> Positions] : ids \in SUBSET known} :
                  Cardinality(Crossing(at)) <= left}
  IN  seen \X (UNION {[1..n -> Positions] : n \in fresh})

\* The line passed over a track while the gate had no memory of it.
PassedOver(at) ==
  \E i \in DOMAIN at : tracks[i].zone = "none" /\ Side(ZoneOf(tracks[i].pos)) # tracks[i].last

-----------------------------------------------------------------------------
(* What the host does with the output of a frame.                          *)

Row(i, p) == [session |-> session, epoch |-> epoch, track |-> i,
              seq |-> Matched(tracks[i], p).seq, dir |-> Direction(tracks[i], p)]

\* The unique key of count_event.
Key(row) == [session |-> row.session, epoch |-> row.epoch, track |-> row.track, seq |-> row.seq]
Keys     == {Key(row) : row \in ledger}

Total(s) == Cardinality({row \in ledger : row.session = s /\ row.dir = 1})
            - Cardinality({row \in ledger : row.session = s /\ row.dir = -1})

\* Bug: the key is looked up without the sequence number of the crossing.
RecordOnce(at, reached) ==
  LET rows == {Row(i, at[i]) : i \in reached}
      new  == {row \in rows : \A old \in ledger : [Key(old) EXCEPT !.seq = row.seq] # Key(row)}
  IN  /\ ledger' = ledger \cup new
      /\ refused' = (refused \/ new # rows)
      /\ excused' = (excused \/ reached # Crossing(at))

\* One insert per crossing: a row whose key exists is refused.  When the
\* database fails, the crossings that were not reached are dropped.
Record(at, reached) ==
  LET rows == {Row(i, at[i]) : i \in reached}
      new  == {row \in rows : Key(row) \notin Keys}
  IN  /\ ledger' = ledger \cup new
      /\ refused' = (refused \/ new # rows)
      /\ excused' = (excused \/ reached # Crossing(at))

\* Bug: the belt stops one bag early.
ActuateEarly(link) ==
  /\ register' = IF link = "down" THEN register ELSE running' % Word
  /\ conveyor' = IF link = "up" /\ target # 0 /\ running' >= target - 1 THEN FALSE ELSE conveyor

\* The worker writes its count and stops the belt at the target; the first
\* write may fail, or the second one.
Actuate(link) ==
  /\ register' = IF link = "down" THEN register ELSE running' % Word
  /\ conveyor' = IF link = "up" /\ target # 0 /\ running' >= target THEN FALSE ELSE conveyor

-----------------------------------------------------------------------------
(* Actions.                                                                *)

\* CountingEngine.process_frame.
Process(at, new) ==
  /\ tracks'    = Tracked(at, new)
  /\ named'     = named + Cardinality(DOMAIN new)
  /\ running'   = running + Net(at)
  /\ displaced' = (displaced \/ PassedOver(at))

\* InferenceWorker.run_step, one frame of the batch.
WorkerFrame ==
  /\ host = "worker"
  /\ \E f \in Frames :
       /\ Process(f[1], f[2])
       /\ IF session # 0
            THEN /\ \E reached \in SUBSET Crossing(f[1]) : Record(f[1], reached)
                 /\ \E link \in {"down", "half", "up"} : Actuate(link)
            ELSE UNCHANGED <<ledger, refused, excused, plc>>
  /\ UNCHANGED <<host, line, epoch, session, opened, target, given, spent, begun>>

\* LiveStreamRenderer._process_real_frame, asked for by a viewer that knows
\* the session (MJPEG) or by one that does not (WebRTC and WebSocket).
RendererFrame ==
  /\ host = "renderer"
  /\ \E f \in Frames, knows \in BOOLEAN :
       /\ Process(f[1], f[2])
       /\ IF session # 0 /\ knows
            THEN \E reached \in SUBSET Crossing(f[1]) : Record(f[1], reached)
            ELSE /\ excused' = (excused \/ Crossing(f[1]) # {})
                 /\ UNCHANGED <<ledger, refused>>
  /\ UNCHANGED <<host, line, epoch, session, opened, target, plc, given, spent, begun>>

\* Quick settings move the line of the renderer; the worker's never moves.
MoveLine ==
  /\ host = "renderer"
  /\ \E g \in Lines \ {line} : line' = g
  /\ UNCHANGED <<host, engine, epoch, session, opened, target, ledger, plc, given, spent, history>>

\* The ingest worker took an epoch: the first frame of it reaches the
\* worker, or the renderer's context is reloaded.
NewEpoch ==
  /\ epoch < MaxEpoch
  /\ epoch' = epoch + 1
  /\ UNCHANGED <<host, engine, line, session, opened, target, ledger, plc, given, spent, history>>

OpenSession ==
  /\ session = 0 /\ opened < MaxSessions
  /\ session' = opened + 1 /\ opened' = opened + 1
  /\ target' \in {0, Target}
  /\ begun' = running
  /\ UNCHANGED <<host, engine, line, epoch, ledger, plc, given, spent, refused, excused, displaced>>

SetTarget ==
  /\ session # 0
  /\ target' = Target
  /\ UNCHANGED <<host, engine, line, epoch, session, opened, ledger, plc, given, spent, history>>

CloseSession ==
  /\ session # 0
  /\ session' = 0 /\ target' = 0
  /\ begun' = 0 /\ refused' = FALSE /\ excused' = FALSE
  /\ UNCHANGED <<host, engine, line, epoch, opened, ledger, plc, given, spent, displaced>>

\* The process dies and is started again: a new engine counts from zero and
\* names tracks from one.  The epoch is the ingest worker's and stays.
Restart ==
  /\ given' = given + named /\ spent' = spent + Found
  /\ tracks' = NoTracks /\ named' = 0 /\ running' = 0
  /\ line' = DefaultLine
  /\ excused' = (session # 0)
  /\ displaced' = FALSE
  /\ UNCHANGED <<host, epoch, session, opened, target, ledger, plc, begun, refused>>

\* The operator of the belt starts it again at the PLC.
StartConveyor ==
  /\ ~conveyor
  /\ conveyor' = TRUE
  /\ UNCHANGED <<host, engine, line, epoch, session, opened, target, ledger, register, given, spent, history>>

Next ==
  \/ WorkerFrame \/ RendererFrame
  \/ MoveLine \/ NewEpoch
  \/ OpenSession \/ SetTarget \/ CloseSession
  \/ Restart \/ StartConveyor

Spec == Init /\ [][Next]_vars

-----------------------------------------------------------------------------
(* Properties.                                                             *)

Tracks == [state : {"none", "pruned"} \cup Known, pos : Positions, time : 0..MaxTimeLost,
           zone : Zones \cup {"none"}, seq : Nat, first : 0..1, last : 0..1, net : Int]

Rows == [session : Nat, epoch : Nat, track : Ids, seq : Nat, dir : {-1, 1}]

\* Types, and the gate remembers a zone for the active tracks only
\* (process_tracks drops the others).
TypeOK ==
  /\ host \in {"worker", "renderer"}
  /\ tracks \in [Ids -> Tracks]
  /\ \A i \in Ids : /\ tracks[i].state = "none" <=> i > named
                    /\ tracks[i].zone # "none" <=> tracks[i].state \in Active
  /\ named \in 0..MaxTracks /\ running \in Int
  /\ line \in Lines
  /\ epoch \in Nat
  /\ opened \in Nat /\ session \in {0, opened} /\ target \in {0, Target}
  /\ ledger \subseteq Rows
  /\ register \in 0..Word - 1 /\ conveyor \in BOOLEAN
  /\ given \in Nat
  /\ begun \in Int
  /\ refused \in BOOLEAN /\ excused \in BOOLEAN
  /\ displaced \in BOOLEAN

\* However a bag jitters around the line, starts behind it, slips back, is
\* lost and found: its crossings add up to the change of its side, so it
\* counts at most once.  Only a line that is moved over a lost bag breaks this,
\* and the worker's line never moves
\* (GateStateMachine.process_tracks, ConveyorByteTracker.update.)
NetIsChangeOfSide ==
  /\ ~displaced => \A i \in Ids : tracks[i].net = tracks[i].last - tracks[i].first
  /\ host = "worker" => ~displaced

\* The count of the engine is the sum over all bags it ever saw, those that are
\* lost or pruned included (CountingEngine.process_frame).
CountIsSumOfBags == running = MapThenSumSet(LAMBDA i : tracks[i].net, Ids)

\* The session's total in the ledger is what the engine counted while the
\* session was active: no crossing is refused as the duplicate of another
\* one, unless the process was restarted, the database failed or a viewer
\* that does not know the session asked for a frame meanwhile
\* (LedgerRepository.record_event, CountingEventHandler.handle_frame_output).
LedgerFollowsEngine ==
  (session # 0 /\ ~excused) => Total(session) = running - begun

\* With an engine that had counted nothing before the session, the PLC is
\* shown the session's total, as 16 bits hold it, and the belt is stopped
\* only when that total has reached the target (InferenceWorker.run_step).
PlcFollowsSession ==
  [][ (session # 0 /\ begun = 0 /\ ~excused') =>
        /\ register' # register => register' = Total(session)' % Word
        /\ (conveyor /\ ~conveyor') => Total(session)' >= target ]_vars

\* "a crossing that hit the ledger's idempotency constraint (already
\* recorded, a redelivered duplicate)" (event_handler.py:103): a crossing
\* that is refused was recorded before.
RefusedWasRecorded == ~refused

\* "LIVE_BAG_COUNT: Current session verified net count" (README.md:202).
RegisterShowsSession ==
  [][ (session # 0 /\ register' # register) => register' = Total(session)' % Word ]_vars
=============================================================================
