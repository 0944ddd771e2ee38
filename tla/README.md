# Verification of fabric-bag-counter

TLA+ models of the bag counter, model-checked with TLC, with the most important
invariants proved with TLAPS. The source is the reference: every definition that models
code is mapped to its lines in `PROJECT.json` ("map"), and the section numbers the code
quotes (§4.5, §5.5, ...) are those of its own comments.

Contents: [the system](#the-system) · [hard behaviours](#what-is-hard-here) ·
[modules](#modules) · [runs](#runs) · [divergences](#divergences) · [fairness](#fairness) ·
[proofs](#proofs) · [not modelled](#not-modelled) · [plan](#plan) · [usage](#running-it)

## The system

Cameras over a conveyor belt film bags; a vision pipeline tracks them over a gate; each
crossing goes into an append-only ledger that belongs to a counting *session*; the session's
total is closed, reviewed if doubtful, and submitted to an ERP.

    camera -> IngestWorker -> SharedMemoryTransport -> InferenceWorker -> CountingEngine
                                                             |   (detector, tracker, gate)
    camera -> LiveStreamRenderer ----------------------------+
    POST /sessions/{id}/simulate_bag ------------------------+
                                                             v
                                      CountingEventHandler -> count_event (ledger)
                                                             -> session (status, total)
    operators: open, pause, resume, close, resolve, submit --+
                                                             v
                                      outbox -> ErpRelayWorker -> ErpAdapter -> ERP
    engineers: submit and cancel jobs -> job table -> JobrunnerWorker (GPU shared with sessions)
                                                         \-> models/*.onnx, model_version
    engineers: configs, bundles, calibrations -> tables -> LiveStreamRenderer (reloaded by requests)
                                                        -> InferenceWorker (looks at every batch)
    SupervisorManager -> one ingest process per enabled camera
    InferenceWorker -> ModbusTcpController -> PLC        viewers -> CameraFeed, WebRtcManager

| component | state it keeps | operations | interacts with | what makes it correct |
|---|---|---|---|---|
| Sessions (`session_repo.py`, `routes.py`) | table `session`: status, counted total, discrepancy flag, lock | open, pause, resume, close, submit, degrade, flag | everything that counts; reconciliation; outbox | a closed session stays closed; its total is what the ledger says; a flagged one is reviewed before it is closed for good |
| Ledger (`ledger_repo.py`) | table `count_event`, unique (session, camera, epoch, track, gate, seq) | record, sum, dispute | the event handler | every crossing once, however often it is delivered |
| Event handler (`event_handler.py`) | none; the identity map of its database session | record a crossing, refresh the total, flag, degrade | three kinds of callers | the total is the ledger's sum |
| Reconciliation (`reconciliation_repo.py`) | table `reconciliation` | create, resolve | sessions, relay | whatever needs a human has a case |
| Outbox and ERP relay (`outbox_repo.py`, `erp_relay/worker.py`) | table `outbox`; the batch of a relay | create, claim, submit, query, mark sent / failed, escalate | ERP adapters | claims are exclusive, documents bounded, every entry concludes |
| ERP adapters (CSV, OData, ECC) | none | submit, query | the ERP | what they answer is what the ERP holds |
| Job queue and runner (`job_repo.py`, `jobrunner/worker.py`) | table `job` with leases; the job in hand | submit, claim, heartbeat, reclaim, release, complete, fail, cancel | sessions (for the GPU) | one holder per job, attempts bounded, every job ends |
| Frame transport (`transport.py`) | ring per camera, named shared-memory blocks, drop counters | write, publish, consume, read, release | ingest and inference workers | a frame comes with its own pixels; no block is stranded |
| Ingest worker, epochs (`ingest/worker.py`, `camera_epoch_repo.py`) | epoch table; frame counter | start, reconnect, capture | transport; the ledger's key | no two frames of a camera have the same (epoch, index) |
| Inference worker (`inference/worker.py`) | batch in hand, applied configuration | take frames, degrade, count, release | transport, engine, event handler, PLC | drops in a row degrade the session; nothing counted without a bundle |
| Stream renderer (`stream_renderer.py`) | engine shared by viewers, session id kept for a second | count and draw | event handler | the same as the inference worker |
| Gate, tracker, engine (`gate.py`, `tracker.py`, `engine.py`) | track life cycle, zone per track, running count | update, process | event handler, PLC | net crossings of a track are the change of the side it is on |
| Bundles, configuration (`config_repo.py`) | tables `config_version`, `deployment_bundle` | create, activate, roll back, draw a polygon, seed | renderer, inference worker | something is in force; copies follow it |
| Calibration (`calibration_repo.py`) | table `line_calibration` | create a stage, superseding the last | renderer | one active calibration per stage |
| Models (`train_rfdetr.py`, `jobrunner/worker.py`, `detector.py`) | the shared ONNX file, its plan and INT8 copy, table `model_version` | train, export, verify, score, hash, register, quantize, change stage | jobs, detectors | a row describes its own network |
| Supervisor (`supervisor/manager.py`) | child processes, backoff per camera | sync, stop | ingest workers | one process per enabled camera, respawned with backoff |
| Feeds, viewers, WebRTC (`camera_feed.py`, `stream_renderer.py`, `webrtc_stream.py`) | dictionaries of feeds and renderers, the simulated conveyor, peers | look up, construct, change the source, draw, count, offer, close | sessions, ledger | the picture is of the configured camera; a bag that passed is in the ledger; peers are bounded |
| Modbus client (`io_modbus_tcp/controller.py`) | socket, transaction id, lock | read, write, write several, reconnect | PLC | an answer belongs to its request |
| Other I/O drivers, SCADA gateway | | | brokers, PLCs | see *Not modelled* |
| API, users, vision, datasets, evaluation, tools, web | | | | see *Not modelled* |

## What is hard here

`PROJECT.json` ("hazards") lists each at its line. In short:

* **Three writers of one session.** The inference worker, every viewer's renderer thread and
  every simulate request run the same handler in database sessions of their own. The sum is
  read without a lock and written in a later transaction.
* **Stale rows by construction.** `sessionmaker(expire_on_commit=False)` (`db.py:154`) and no
  `populate_existing`: within a database session `SELECT ... FOR UPDATE` locks the row, but
  the attributes stay as first loaded, and a flush writes only what differs from *them*. The
  inference worker's session lives for a whole batch.
* **Crashes between commits.** Recording, totalling, giving an entry up, opening its case,
  claiming and working are all separate transactions.
* **At-least-once meets dedup.** A redelivered crossing runs into the unique key, rolls back
  (which expires the identity map) and carries on.
* **Ambiguous submissions.** A timeout at the relay says nothing of the ERP; every adapter
  settles the question in its own way, two of them without asking.
* **Leases.** A lease that lapses under a live worker, or between the two halves of a reclaim.
* **Names that are reused.** Blocks of shared memory are closed by name and the names cycle;
  Modbus transaction ids come round; a restarted counting process names its tracks from 1.
* **Check, then construct, then store.** Feeds and renderers are made on first use by requests
  on several threads, with no lock around the dictionary.
* **Copies of the configuration.** The renderer is told of changes by the request that makes
  them, the inference worker looks by itself; both apply free JSON that may raise half-way.
* **One file for every model.** Training and export write in place a path that scoring,
  hashing, quantization and detectors read.

## Modules

| module | models | state and steps |
|---|---|---|
| `SessionLedger` | sessions, ledger, event handler, reconciliation, outbox entries as they are created | below |
| `CrossingCounter` | abstract: what the counting core promises | implemented by `SessionLedger` (`ImplementsCounter`) |
| `SessionLedgerProofs` | theorems of `SessionLedger`, including the refinement | |
| `ErpRelay` | outbox delivery: relays, adapters, ERP | below |
| `Delivery` | abstract: a transactional outbox | implemented by `ErpRelay` (`ImplementsDelivery`) |
| `ErpRelayProofs` | theorems of `ErpRelay`, including the refinement | |
| `JobQueue` | job table, leases, workers, GPU rule | below |
| `ModelStore` | training, export and quantization through one shared file; model versions; detectors that load it | below |
| `JobProofs` | theorems of `JobQueue` and of `ModelStore`, the jobs and what they make | |
| `FrameTransport` | ingest, rings, shared memory, inference worker's side of it | below |
| `Counting`, `CountingProofs` | tracker, gate, engine, and what the worker or the renderer does with a crossing: ledger, PLC | below |
| `LineConfig`, `LineConfigProofs` | configurations, bundles, calibrations, the requests that change them, renderer and worker that copy them | below |
| `Supervisor` | the ingest processes of all cameras | below |
| `FrameTransportProofs` | theorems of `FrameTransport` and of `Supervisor`, the frames of an ingest process and the process | |
| `LiveView`, `LiveViewProofs` | feeds, renderers, simulated conveyor, viewers, WebRTC peers | below |
| `ModbusLink`, `ModbusLinkProofs` | the Modbus client, its callers and the PLC | below |
| `MC*` | constants for TLC | |

Two proof modules extend two components each, so the names of `ModelStore` and `Supervisor` that their
companions have too carry a prefix (`StoreInit`, `StoreSpec`, `SupervisorNext`, `supervisorVars`, ...). The
components share no variable; they are not composed.

Definitions that start with a comment "Bug:" are plausible defects of the definition after
them; they take its place to show that a property notices (`PROJECT.json`, "mutants").

### SessionLedger

A step is what happens up to a commit, or up to a read that locks nothing. The handler of
a counting process `p` goes through `proc[p].pc`: *idle* (no batch), *ready* (database
session open, session row perhaps loaded), *recorded* (row in the ledger, `event_handler.py:75`),
*summed* (the sum is in a local variable, line 76), back to *ready* (total written, line 77);
a simulation ends in *done*. `proc[p].view` is the identity map: `NoRow`, or the session row
as first loaded. `Flushed(loaded, new, stored)` is SQLAlchemy's rule for one attribute: what
does not differ from the loaded value is not written. Renderers take a new database session
per frame (`Kept` returns `NoRow` for them).

| action | code |
|---|---|
| `OpenCheck`, `OpenInsert` | `create_session`: the check and the insert, between which others act |
| `PauseSession`, `ResumeSession`, `CloseSession` | `session_repo.py`, one locked transaction each |
| `SubmitSession` | `POST /sessions/{id}/submit`: outbox row and status |
| `BeginBatch`, `BeginSimulation`, `EndBatch`, `EndSimulation` | `run_step`, `get_stream_generator`, `simulate_bag` |
| `RecordEvent`, `RecordDuplicate` | `record_event`: insert, or the `IntegrityError` branch |
| `SumLedger`, `UpdateCountedTotal` | `handle_gate_crossing`, `update_counted_total` |
| `UpdateAreaEstimate` | the load of the session row that the area estimate causes |
| `MarkDegraded`, `FlagDiscrepancy` | `mark_degraded`, `flag_discrepancy` on the loaded row |
| `CreateReconciliation`, `ResolveReconciliation` | `reconciliation_repo.py` |
| `Crash` | the process is killed, or an error other than a duplicate ends the handler |

Taken as one step, though the code could be interrupted inside them: transactions that read
one row and write it (submit, resolve, the first half of `simulate_bag`). Left out: the area
estimate's value, evidence, descriptive columns. `simulate_bag` accepts any integer as
direction; the model has +1 and -1. The ledger's key is one model value. A process either
renders or simulates (`KindsAssumption`): the two are handlers of different requests.

### ErpRelay

`entry` is the outbox row (status, attempts, whether its backoff is over), `relay` the batch
a relay has claimed and the step it is at with the oldest entry in it, `posted` the documents
the ERP holds, `cases` the reconciliation rows, `orphaned` a history of entries a relay
died with. `Claim` is the one `UPDATE ... RETURNING` of `claim_pending_entries`; `Submit`,
`Query`, `MarkSent`, `MarkFailed`, `RouteToReconciliation` and `OpenCase` are
`process_entry` cut at its commits and calls. An adapter is characterised by `SubmitOutcomes`
(a failure may or may not have arrived) and `QueryAnswers`: the OData material-document query
never finds what `submit_session` wrote; the delivery query finds a delivery that
exists whatever was posted; ECC answers POSTED unasked; CSV supports no query.

### JobQueue

`job` is the table, `worker` the local state of a `JobrunnerWorker`: its step, the job in
hand, whether a GPU job was allowed when it looked, and the rows `reclaim_expired_leases`
loaded (`requeue`, `giveup`) and will write by primary key in its second step.
`HeartbeatRenews` is FALSE: `_heartbeat_loop` passes `extend_seconds` to `heartbeat`, whose
parameter is `extension_seconds`, and every call raises. `lapsed` is a history of jobs
whose lease ever expired; most safety properties of the queue hold only for the others, and
this is how the properties say so. `done` counts how often the work was carried out and
stops at 2.

### FrameTransport

One transport is shared by ingest threads and the inference worker, as its docstring says
(each `main()` makes its own, so started as separate processes the workers exchange nothing).
Every method holds the lock and is a step. `block[c][s]` is the shot whose pixels the named
block holds, a frame's `shot` what it was taken with. `ingest[c].held` is a frame that is
written and not yet published: the driver writes the block, and the worker publishes later.
`Consume`, `ReadStats`, `Fetch`, `Release` are `run_step` of the inference worker, cut
where it calls the transport. Epochs come from the table (`OpenWithNextEpoch`) or, when the
database fails, are made up (`OpenWithoutDatabase`).

### Counting

A frame is one step, as `process_frame` and what its host does with the output run without a
yield to another user of the same engine. The host is the inference worker (`WorkerFrame`) or
the live renderer (`RendererFrame`), chosen once. Positions are those on the belt axis. Which
detection belongs to which track is left to the association's choice: a frame (`Frames`)
matches any of the known tracks anywhere, and brings up to `MaxNew` detections more. The tracks
that are not matched age and are lost or pruned (`Missed`); the gate drops the zone of a
track that is not active, and takes it from the history under today's line when the track
comes back (`PrevZone`). `Record` is the insert with its unique key and the failure of the
database half-way through a frame's crossings; `Actuate` the two writes to the PLC, of which
the first or the second may fail. `begun`, `refused`, `excused` and `displaced` are histories that
the properties need to say which faults excuse a difference. `Record` is a coarser view of what
`SessionLedger` does in several steps.

### LineConfig

A request is cut where it ends a transaction and where it reads what it writes later
(`ReadActive` ... `Insert`; `SetRoi`, `StoreRoi`, `ReadForRoi`, `Insert`). A payload is the first key
that `CountingEngine.configure` applies and the last one, with a mark whether it raises between
them (`Configured`). `renderer` is the entry in `_renderers`: constructed with what is in force
(`Constructed`), published later, reloaded in two steps (`Reload`, `Configure`) as the id is
taken before the payload is applied. `worker` is the inference worker, which compares the
version of the bundle in force with the one it applied last, at every batch (`WorkerStep`).
`at` is the activation time; when two bundles are active the latest is in force. `clock` is the
latest time that any request read: the next one reads a later time (`Now`), which is all that
matters of real time here.

### Supervisor

A tick of `sync_camera_workers` is one step (`Sync`): enabled cameras in the order of their ids,
then removals; an exception (a spawn that fails, a backoff that cannot be computed) ends it
there (`Ends`, `Reached`, `Finishes`). Time is counted in ticks: `hold` is how many have to pass
before the next spawn, and `Tick` may be late by several. `strays` counts processes
that run outside the table; only the supervisor's own death makes them. `Overflow` stands
for 1024, the attempts at which `2.0 * 2**attempts` raises.

### ModelStore

`onnx`, `plan` and `int8` are what the three shared files hold: a network, or `Torn` while
a write is under way or after it was killed. A runner goes through training, exporting (open
and close), verify, plan, score, hash and register, each reading the path again. A row keeps
as history the network it was registered for (`of`) and whether any other export came
between (`lone`). `Loaded` is what a detector gets: the network, or the contour heuristic it falls back
on when the file cannot be loaded; `Evaluate` refuses to score that.

### LiveView

A request is a slot with the step it is at; a feed or a renderer is named by the slot that
constructed it. `LookFeed`/`PutFeed` and `FindRenderer`/`MakeRenderer` are the two halves of the
unlocked look-up; MJPEG streams run on threads and interleave everywhere, WebSockets and WebRTC tracks
run on the event loop and do not interleave with each other (`HasThread`). `DrawConveyor` and
`FilterBags` are the two halves of a frame of the conveyor, `SeeBag` and `PassBag` the test and the
mark of a bag; the WebRTC steps are cut at the awaits inside the lock.

### ModbusLink

`Request`, `Acquire`, `Connect`, `Send`, `TimesOut`, `Mismatch`/`ReceiveWrong`, `Receive` and
`Refused` are one call under the client's lock; `Serve` and `Hangup` are the PLC, with
a queue per connection in each direction, so that a request whose caller gave up is still
carried out when it gets there. Requests are numbered; a cell holds the number of the write it
has its value from. An answer is accepted when transaction id and function agree, as in
`_send_and_receive`.

## Runs

All bounds are constants named "bound" where they are declared.

| run | instance | question |
|---|---|---|
| `ledger_two` | an inference worker that may be killed and a renderer, one session, two crossings, both directions | is every total and every submission one that was true at some time? |
| `ledger_api` | a renderer and a simulate request, one session | does a flagged session end in review, and is `CrossingCounter` implemented? |
| `ledger_single` | one renderer, two sessions, both directions, overrides, fair | is the total the ledger's sum between crossings, does every crossing reach it, do closed sessions stay closed? |
| `relay_delivery` | two relays, both may die, three entries (two with a reference), all five adapters, two attempts, batches of two, fair | claims, documents, conclusion, refinement of `Delivery` |
| `jobs_leases` | two workers, one may be killed, a GPU job and another, two attempts, one session, fair | holders, endings |
| `transport_ring` | two cameras, two slots, five shots, three openings, one database failure, one restart | pixels, leaks, names of frames |
| `counting_gate` | two tracks, two positions, two lines, two crossings, one session with a target of two, two epochs, registers of two bits | crossings against changes of side, the engine's count against all bags, ledger and PLC against the engine |
| `config_line` | two threads, four requests, a payload that is good and one that raises, one polygon, two stages, fair | what is in force; do renderer and worker follow? |
| `supervisor` | two cameras, backoff of two seconds capped at ten, ticks of five, overflow at four, two failed spawns, one death, fair | one process, served again, stopped for good |
| `model_store` | two runners, one may be killed, two networks, one quantization, one detector | does a row describe its network? |
| `live_view` | two requests at a time, two sources, two bags, four connections, two peers; six mixes of kinds of request, one per behaviour | pictures, bags, peers |
| `modbus_link` | two threads, one cell, ids 1 and 2, two attempts to connect, two connections, three requests, fair | quiet sockets, answers, confirmed writes, the lock |

Why these bounds are enough to show what can go wrong: every race here is between two
actors over one row, file, socket or dictionary, so two actors and one of those reach it, and the
third session or entry is what makes "another one" and "the rest of the batch" exist. Two attempts tell
the last attempt from the others. Two slots make the ring wrap, fill and evict with three shots, and
five shots allow a run of drops, an end of it and another drop. Two crossings make
an older and a newer sum; with one key of the two redelivered, a duplicate. Two tracks make one that
is lost while another is split; two positions and two lines put a bag before, on and behind the
line and the line behind a lost bag (three of the four zones; `counting_zones.cfg` adds a third line and with it
the fourth, in five to six minutes). Four requests are two activations, a polygon and a stream. The
supervisor's backoff reaches its cap, at ten seconds, in the third attempt and overflows in the
fourth. Two ids make the third Modbus request reuse the first one's. Four connections fill a
table of two, and evict twice.

The mixes of `live_view` (`MCMixes`) say which kinds of request come in one behaviour: what shares no variable, like
peers and feeds, is explored in behaviours of its own, and the kinds that do share state are
together: the changes of source with the viewers of feeds, the two ways of changing the renderer,
the quick settings with the feed, WebSockets and tracks with changes of the line, MJPEG
streams with manual bags and the session, offers alone.

`ledger_api` and `ledger_single` leave the inference worker out: with it properties fail in this code (a
stale row reopens a closed session). `ledger_single` leaves out the second counting process
too (`v_total_race.cfg`). That a line has one active session is no property of
this code: two open requests at once both insert, as the docstring of `create_session`
concedes, and `simulate_bag` revives sessions. `CHECK_DEADLOCK FALSE` stands where the bounds let the
system run out of entries, jobs, shots, tracks or requests.

The type invariants are proved, but for `SupervisorTypeOK`: `SupervisorInv` has all of it except that a pause is
not negative (powers are opaque to the provers) and what the bounds give; it was checked once on its
instance and holds. `FrameTransport` has its own in the run too, as it says
more than types. Every inductive invariant below was checked by TLC on the instance of its run before it was proved.
The property list of a run is in its `.cfg`; every property is stated in words above its
definition.

## Divergences

Statements of the code's own documentation that the code does not keep, each with a
configuration `v_*.cfg` whose counterexample shows it. They are not part of the runs of
`PROJECT.json`; start them by hand (`tlc -config v_total_race.cfg MCSessionLedger.tla`).

| configuration | module | what it shows |
|---|---|---|
| `v_total_race` | MCSessionLedger | two handlers overtake each other between the sum and its write (`event_handler.py:76`); the total stays short of the ledger with nobody in the middle of anything |
| `v_sent_unposted` | MCErpRelay | an ECC submission that failed is marked *sent*, because the status query answers POSTED without asking |
| `v_entry_orphaned` | MCErpRelay | entries a relay died with stay *in_progress* for ever |
| `v_second_runner` | MCJobQueue | no lease is ever renewed (`_heartbeat_loop` passes a keyword `heartbeat` does not have), so a job longer than its lease is run by a second worker |
| `v_newest_lost` | MCFrameTransport | a full ring drops the oldest frame's metadata and the *newest* frame's pixels, because both have the same block name |
| `v_restart_refused` | MCCounting | a restarted counting process names its tracks from 1 in the same epoch: new crossings are refused as duplicates of old ones (`event_handler.py:103` says they were recorded) |
| `v_register_carries_over` | MCCounting | register 100, documented as the current session's count (repository `README.md:202`), carries the sum over the sessions of the process |
| `v_roi_lost_update` | MCLineConfig | what is activated between the two halves of a polygon request is lost |
| `v_rollback_half_applied` | MCLineConfig | after a payload that raised half-way, rolling back to the version applied before leaves the worker's engine with the rest of the bad one |
| `v_backoff_overflows` | MCSupervisor | a camera whose process exits 1024 times in a row stops the tick for all others (`manager.py:18` says per camera) |
| `v_version_overwritten` | MCModelStore | every version is served from the one shared file: an older version's download is the newest network (`routes.py:977`) |
| `v_export_lineage` | MCModelStore | a version exported from another one has no training run that names it (`routes.py:1003`) |
| `v_bag_counted_twice` | MCLiveView | a manual bag is counted when it is recorded and once more when its picture passes the gate |
| `v_oldest_evicted` | MCLiveView | the peer that is evicted is any one and not the oldest (`webrtc_stream.py:112`) |

Met while modelling and left to the prose:

* Frames and sessions: a lapped consumer reads a later frame's pixels (the docstring says
  "unavailable"); a made-up epoch is repeated by the table; the run of drops is reset before the
  inference worker reads it, since `consume` makes room first; an exception between consume and release
  strands the batch (`inference/worker.py:136`); a session that is closed while a batch
  is under way can be reopened as *degraded*; a paused session counts on for a second; an open
  session can be submitted; `reconcile_required` can be reached without a case
  (`session_repo.py:225`); two disputes of one crossing overwrite each other (`ledger_repo.py:163`).
* Jobs: cancelled jobs are completed or queued again by the worker that runs them;
  `start_export_job` asks for no GPU though it retrains.
* Counting: the renderer and the inference worker may both count one camera; viewers share one
  engine without a lock; `BagTrack._count` is shared by all engines of a process; the replay tool's `reset_session`
  restarts identities while the tracker keeps its tracks; a frame of the simulated conveyor is
  taken for a real one if the capture opens in between; an API restart restarts the simulated
  identities at 1000 in the same epoch.
* Live pictures: replacing the list of bags can lose a manual bag (`missed`); a negotiation that
  fails leaves its peer registered; `CameraFeed` never measures its rate, and after a failed
  read never reports itself connected again.
* Supervisor: every node's supervisor starts all enabled cameras (`manager.py:74`).
* Modbus: a late write overtakes newer confirmed ones (this is what the second half of
  `ConfirmedIsHeld` grants); `scada_gateway.py` calls methods the controller does not have, and its
  float at 102 overlaps register 103; the repository's PLC server never answers functions 15 and 16.

## Fairness

Safety is checked without fairness. The liveness properties assume:

* `CrossingsReachTotal`: weak fairness of `SumLedger` and `UpdateCountedTotal` of each process
  (`Handling`): straight-line code between two commits, no waiting but for a row lock.
* `EntriesConclude`: weak fairness of each relay's `Claim` and `Process` (`start_loop` polls
  for ever; submit and query have HTTP timeouts) and of `BackoffEnds` (the clock runs).
  Nothing makes the ERP answer well: attempts run out. `DeliveryIsGuaranteed` is refuted under
  the same fairness (`v_entry_orphaned.cfg`).
* `JobsSettle`: weak fairness of each worker's `RunStep` (the loop catches the exceptions of a
  step, work ends), of `LeaseExpires` (the clock) and of `SessionEnds` (a session is closed
  some time, or GPU jobs wait for ever).
* `WorkerCatchesUp`: weak fairness of each request under way (`Handle`: a request runs to its end)
  and of `WorkerStep` (frames keep arriving). The worker may restart again and again.
* `EnabledIsServed`, `DisabledIsStopped`: weak fairness of `Tick` (the loop of `main`) and of
  `Start` (the supervisor's container starts it again). Exits and changes of the table are never
  fair, and never stop; spawns that fail are bounded.
* `LockIsReleased`: weak fairness of each caller's `Step`: connecting and receiving have timeouts.
  Nothing is asked of the PLC.

Deaths are never fair, and a dead worker or relay is started again by its container.

## Proofs

`tlapm` checks eight modules, with no step left open: `SessionLedgerProofs`, `ErpRelayProofs`,
`JobProofs`, `FrameTransportProofs`, `CountingProofs`, `LineConfigProofs`, `LiveViewProofs` and
`ModbusLinkProofs`. Every invariant and every action property that a run checks is proved in them, and both
refinements. They hold for any sets of processes, any bounds, any limits; the assumptions are the
named ASSUMEs of the modules (constants have the sort the code gives them, limits are
positive, those who may die are among those who act, requests and connections have different names), and, in
three theorems of `SessionLedger`, the hypotheses stated there.

* **SessionLedger.** `IInv` is `TypeOK`, `BusyHasSession` (a busy handler works on a session),
  `UniqueCrossing`, `TotalWasOnceTrue`, `SubmittedWasOnceTrue` and `SumWasOnceTrue`: the sum a
  handler holds in its local variable, and the total in the row it loaded, were both once true
  of that session. The latter is what makes the main invariant inductive: a handler may
  write either of them, long after. The argument is monotonicity: rows are only appended, so no
  sum is ever forgotten (`PastCountsGrow`, `KnownGrows`), and what was once true remains so
  however late it is written. Theorems `TypeCorrect`, `CountsOnce`, `TotalsWereTrue`,
  `SubmissionsWereTrue`. `CounterImplemented` is the refinement: a recorded crossing is a step of
  `CrossingCounter`, a write of a total one too, since what is written was once true, and all else is none.

  Three theorems carry hypotheses, which are those of their runs, because without them the
  properties fail in this code. `FlaggedClosesVoided` has no inference worker: its row, loaded
  before a session was flagged, would close it unflagged. Its invariant `FlagInv` says that renderers
  never keep a row. `SingleWriterTotals` has one counting process that does not die: a second one
  overtakes it between the sum and its write (`v_total_race`), and a death between the two leaves the total short. `NetInv`
  says of that process what the total is before, at and after each step, with whatever row it loaded
  (`Current`). `ClosedStays` has neither inference workers nor simulations, which put a closed session
  back to *degraded* or *open*.
* **ErpRelay.** `IInv` adds to the types: a relay polls exactly when its batch is empty
  (`BatchInv`); what is in a batch is *in_progress*, or was given up in the last step
  (`HeldInv`); until it is submitted, an entry in a batch has fewer documents than attempts
  (`PaidInv`); an entry that waits has attempts left (`AttemptsInv`); with
  `ClaimsAreExclusive` and `PostsAreBounded`. Exclusivity is what lets a step of one relay be
  judged without the others. Theorems `RelayTypeCorrect`, `ClaimsExclusive`, `PostsBounded`, and
  `DeliveryImplemented`: every step of a relay is a step of `Delivery`, or none, under the
  mapping of a row's status to its phase. What depends on the adapter has invariants of its own:
  where failures are final, what may still be submitted was never posted (`OnceInv`), and where
  success is evidence, what is sent, or about to be marked so, has arrived (`ArrivedInv`). Theorems
  `PostedOnce`, `SentArrived`.
* **JobQueue.** Everything is said of jobs whose lease never expired (`lapsed` records those
  that did; what happens to them is `v_second_runner`). `IInv` adds to the types: a worker has a
  job in hand exactly from its claim to its report (`HandInv`); the row of a job in hand is
  *running* or *cancelled* and its work is done just when success is about to be reported
  (`HeldInv`, `ReportInv`); a waiting row has nothing done and attempts left (`WaitInv`); and
  the lists of expired jobs, which `reclaim_expired` writes without looking again, name only
  lapsed ones (`LeaseInv`, `ListInv`). Without the last, a stale list could put a job back into
  the queue while it is worked on. Theorems `JobTypeCorrect`, `HoldersExclusive`,
  `WorkDoneOnce`, `AttemptsBounded`, `CompletedWorkWasDone` (which needs no lease at all) and
  `FinishedJobsStay`.
* **FrameTransport.** `TransportInv` adds to the types: epochs and indexes do not outrun their
  counters (`Bounds`); frames lie in the ring of their own camera, and only a connected worker has one in hand
  (`Filed`); no camera is in the dictionary twice, so that a batch has one frame of a camera at most
  (`Keyed`). A block that has pixels belongs to a frame that is still on its way: that is inductive on top of
  it. `Apart` says that the frames of a camera on their way have blocks of their own until it wrote over one
  in use; without it, releasing one frame could empty the block of another. `OwnPixels` and
  `OwnGot` carry a frame's pixels from the block to the batch, `NamedInv` bounds the newest name by
  the epoch table and the counter of the driver. Theorems `TransportTypes`, `NoBlockLeaks`, `PixelsAreOwn`,
  `NamedAnew`.
* **Counting.** `GateInv` says what the gate's memory means: a zone that it remembers lies on the
  side where the bag was measured last, net crossings are the change of side so far, and in the worker, whose
  line never moves, a bag that the gate forgot is still on that side. `LedgerInv` says that no row of the current session has
  a sequence number its track has not reached, which is why a new crossing cannot be refused and the rows
  add up to what the engine counted. `CountInv` says the count without a sum, as the bags last measured
  behind the line less those first measured there: a frame moves those that turn in or out of the first set
  and adds a new bag behind the line to both (`FrameSides`). `SumInv` is `CountIsSumOfBags` with the fold
  unrolled: `Sums` gives the sum of every set of bags by the recursion that the fold runs through. That it exists
  (`SumsExist`), and that a frame adds to the sum what it adds to the bags (`SumsMove`), is shown by the
  smallest set for which it would fail. It needs no hypothesis on the line: a bag that the line was moved over
  still has its crossings counted. Theorems `CountingTypes`, `BagsCountOnce`,
  `CountsBags`, `CountsSum`, `LedgerFollows`, `PlcShows`.
* **LineConfig.** `RowsInv` adds to the types: no row is later than the clock, so that among the active
  rows there is a latest (`TablesInv`, `LatestIs`); what a request refers to exists, and the calibrations it will
  deactivate are of its own stage (`Grounded`), without which another stage could lose its last one.
  `WorkerInv`: the engine has the payload of the version applied last, and the bundle refers to that version,
  unless the last payload raised. `SequentialInv`: without overlaps one request at most is on its way; what it read is still so
  (`HasRead`), and the renderer has all that is in force but what that request has yet to tell it
  (`HasTold`); its last case is a seed, which tells no renderer and is recorded in `untold`. Theorems `ConfigTypes`, `AlwaysInForce`,
  `SequentialExact`, `WorkerStampsWhatItRuns`.
* **ModelStore** (in `JobProofs`). `StoreInv` adds to the types and the two properties: a runner that met no other
  export has the shared file to itself from its export on, and what file, scores and hash say
  so far is its own network (`Alone`); whoever has scored has the scores of a network (`Scored`).
  `Alone` needs that an export which begins or is under way marks every other job past its
  own as not alone, and so would not be inductive without the mark. Theorems `StoreTypes`,
  `RowsDescribe`, `ScoresAreReal`.
* **LiveView.** `PlaceInv` adds to the types what a request has taken at each of its steps: an object once it is
  past a dictionary, a bag once it is about to pass one. With it, that a passed bag is recorded is inductive. `FeedInv`
  says why the picture follows the row although the row is written first and the feed found later:
  whoever constructs the feed does so alone and for the source in the row, a change that is past the row knows
  what the row says, and whoever holds a feed holds the registered one, all unless two of them overlapped
  (`raced`). `PeerInv` says that a live connection is in the table or is the one being evicted, and that while
  one is being evicted or added the table has room for it; the room is what the lock protects across the await.
  Theorems `LiveViewTypes`, `PicturesFollow`, `BagsAreRecorded`, `PeersBounded`.
* **Supervisor** (in `FrameTransportProofs`). `SupervisorInv` adds to the types that a supervisor that is down has an empty
  table, so that only its death leaves a process without an entry, and that no pause is longer than
  the cap (`BackoffIsCapped`, whatever the power under it). `SyncKeeps` is the tick: it starts a process only where the table has none.
  Theorems `OneProcess`, `PausesAreCapped`.
* **ModbusLink.** `Inv` adds to the types: beyond the start of a call there is a socket and no other
  connection is open at the client's end (`SocketInv`); numbers are taken in turn (`NumberInv`); a
  thread that waits finds on the socket its own request, or one answer to it, or nothing, otherwise
  the socket is quiet, and what is on other connections has failed (`TrafficInv`); a cell has its
  value from the newest confirmed write, one that failed, or the one under way (`HeldInv`). That
  ids come round does no harm because an accepted answer can only be the answer to the one request
  on that socket: every failure closes it. Theorems `TypeCorrect`, `SocketIsQuiet`,
  `ConfirmedHeld`, `AnswersCurrent`.

Induction over data is avoided: sums are cardinalities (`NetCount`, `Total`), whose change by one row the
theorems about finite sets give, or, like "the latest row", come from the least element of a set of numbers
(`LeastIs`, from the well-foundedness of `<`): the library's induction theorems take an operator as a
parameter, which the provers cannot instantiate.

Only model-checked: liveness, which is out of the prover's fragment
(`CrossingsReachTotal`, `EntriesConclude`, `JobsSettle`, `WorkerCatchesUp`, `EnabledIsServed`, `DisabledIsStopped`,
`LockIsReleased`).

## Not modelled

Numeric code (detection, association costs, position prediction, calibration values) has no
interleaving to explore; its verdicts are arbitrary inputs of the models. The estimators of area
and the merge detector are bypassed in production, as nothing calls `update_calibration`. The other output
drivers are fire-and-forget calls to libraries that are not in the repository. Authentication,
listings, disputes, datasets, evaluation, replay, tools, the web client and the deployment keep no state
that the modelled parts depend on. `PROJECT.json` ("components") has the reason for each part.

Of modelled parts: `close()` of the transport, the operating system's view of shared memory and the
loops of `start_loop` beyond their repetition; `reset_session` of engine and gate (tests and the replay tool call
it); `connect()` of the Modbus client without a request; drawing; the unsynchronised use of one engine by several viewers.
An exception that ends a process is its restart.

## Plan

1. A composition of `SessionLedger` and `ErpRelay` over the outbox: what is submitted is what is
   delivered, and cases from both sides.
2. A composition of `Supervisor` with the epochs of `FrameTransport`, and of `Counting` with the steps of
   `SessionLedger`.
3. Proofs: the hypotheses of `SingleWriterTotals` weakened to one process per session.

## Running it

    tlc -workers 2 -config ledger_two.cfg MCSessionLedger.tla
    tlapm ErpRelayProofs.tla

Module and configuration of each run are in `PROJECT.json`. The longest runs take two to
three minutes, the proof modules up to several minutes each. Configurations that `PROJECT.json` does not list (`v_*`,
`counting_zones`) are run the same way.
