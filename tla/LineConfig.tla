----------------------------- MODULE LineConfig -----------------------------
(***************************************************************************)
(* The configuration of a line: immutable config versions, the deployment  *)
(* bundles and calibrations of which one is in force, the requests that    *)
(* change them, and the two processes that keep copies: the live renderer, *)
(* which the requests reload, and the inference worker, which looks at     *)
(* every batch.                                                            *)
(*                                                                         *)
(* A request runs in a thread of the API server.  It is cut where it ends  *)
(* a transaction and where it reads what it writes later; "now" is read    *)
(* with the rows next to it, because only the order among requests that    *)
(* saw the same rows matters.  A payload is the first key that             *)
(* CountingEngine.configure applies and the last one: between the two it   *)
(* may raise, payloads being free JSON.                                    *)
(***************************************************************************)
EXTENDS Integers, Sequences, FiniteSets

CONSTANTS
  Threads,     \* request threads of the API server
  Payloads,    \* payloads that engineers post: [conf, roi, bad]
  Rois,        \* polygons drawn in the user interface
  Stages,      \* stages of calibration; only "perspective" reaches the renderer
  MaxRequests  \* bound: requests that are made

None    == 0   \* no row
Default == 0   \* the value of a key in the defaults of the schema
Context == {"camera", "gate"}

ASSUME PayloadsAssumption ==
  Payloads \subseteq [conf : Nat, roi : {Default} \cup Rois, bad : BOOLEAN]
ASSUME RoisAssumption     == Rois \subseteq Nat
ASSUME RequestsAssumption == MaxRequests \in Nat

VARIABLES
  configs,      \* table config_version: payloads
  bundles,      \* table deployment_bundle
  calibs,       \* table line_calibration
  registered,   \* which of camera and gate the line has a row for
  started,      \* how many requests were made
  clock,        \* the latest time that was read from the clock
  req,          \* what each thread is doing, with what it has read
  renderer,     \* the renderer of the line in _renderers
  worker,       \* the inference worker of the line
  overlapped,   \* history: two requests ran at the same time
  untold        \* history: rows changed beside a renderer that nobody reloads

tables == <<configs, bundles, calibs, registered>>
copies == <<renderer, worker>>
vars   == <<tables, started, clock, req, copies, overlapped, untold>>

Fresh   == [conf |-> Default, roi |-> Default]
Absent  == [live |-> FALSE, bundle |-> None, engine |-> Fresh, warp |-> None, context |-> {}]
Idle    == [pc |-> "idle", op |-> "none", cfg |-> None, roi |-> Default, stage |-> "none",
            prev |-> {}, at |-> 0, built |-> Absent]
Started == [bundle |-> None, applied |-> None, engine |-> Fresh, spoiled |-> FALSE]

Init ==
  /\ configs = << >> /\ bundles = << >> /\ calibs = << >> /\ registered = {}
  /\ started = 0 /\ clock = 0
  /\ req = [t \in Threads |-> Idle]
  /\ renderer = Absent
  /\ worker = Started
  /\ overlapped = FALSE /\ untold = FALSE

-----------------------------------------------------------------------------
(* What is in force *)

Latest(table, S) ==
  IF S = {} THEN None ELSE CHOOSE i \in S : \A j \in S : table[j].at <= table[i].at

Active      == {b \in DOMAIN bundles : bundles[b].active}
ActiveIn(s) == {c \in DOMAIN calibs : calibs[c].stage = s /\ calibs[c].active}

\* get_active_bundle and get_active_calibration: the latest of the active rows.
InForce         == Latest(bundles, Active)
CalibInForce(s) == Latest(calibs, ActiveIn(s))

Payload(b) == configs[bundles[b].cfg]

\* CountingEngine.configure: a payload that raises leaves the keys before it applied.
Configured(engine, p) ==
  IF p.bad THEN [engine EXCEPT !.conf = p.conf] ELSE [conf |-> p.conf, roi |-> p.roi]

-----------------------------------------------------------------------------
(* Threads *)

\* The clock is later than every time that was read from it before.
Now == clock + 1

Begins(t, r) ==
  /\ req[t].pc = "idle" /\ started < MaxRequests
  /\ started' = started + 1
  /\ req' = [req EXCEPT ![t] = r]
  /\ overlapped' = (overlapped \/ \E u \in Threads \ {t} : req[u].pc # "idle")

GoesOn(t, r) == req' = [req EXCEPT ![t] = r] /\ UNCHANGED <<started, overlapped>>

-----------------------------------------------------------------------------
(* Config versions and bundles *)

\* POST /configs: what is posted is stored, unread; no bundle refers to it yet.
CreateConfig(t, p) ==
  /\ Begins(t, Idle)
  /\ configs' = Append(configs, p)
  /\ UNCHANGED <<bundles, calibs, registered, copies, untold, clock>>

\* create_and_activate_bundle reads the clock and the active bundles.
ReadActive(r) == [r EXCEPT !.pc = "insert", !.prev = Active, !.at = Now]

\* POST /bundles/activate: any version of the line, also one of long ago.
Activate(t, c) ==
  /\ c \in DOMAIN configs
  /\ Begins(t, ReadActive([Idle EXCEPT !.op = "activate", !.cfg = c]))
  /\ clock' = Now
  /\ UNCHANGED <<tables, copies, untold>>

\* POST /lines/../roi reads the payload in force ...
SetRoi(t, roi) ==
  /\ InForce # None
  /\ Begins(t, [Idle EXCEPT !.pc = "store", !.op = "roi", !.cfg = bundles[InForce].cfg,
                            !.roi = roi])
  /\ UNCHANGED <<tables, copies, untold, clock>>

\* ... stores it with the new polygon as a version of its own, and commits ...
StoreRoi(t) ==
  /\ req[t].pc = "store"
  /\ configs' = Append(configs, [configs[req[t].cfg] EXCEPT !.roi = req[t].roi])
  /\ GoesOn(t, [req[t] EXCEPT !.pc = "read", !.cfg = Len(configs')])
  /\ UNCHANGED <<bundles, calibs, registered, copies, untold, clock>>

\* ... and activates that version.
ReadForRoi(t) ==
  /\ req[t].pc = "read"
  /\ GoesOn(t, ReadActive(req[t]))
  /\ clock' = Now
  /\ UNCHANGED <<tables, copies, untold>>

Without(S) == [b \in DOMAIN bundles |-> [bundles[b] EXCEPT !.active = @ /\ b \notin S]]

\* Bug: the deactivation is committed before the new bundle is.
InsertInTwo(t) ==
  /\ req[t].pc = "insert"
  /\ \/ /\ req[t].prev # {}
        /\ bundles' = Without(req[t].prev)
        /\ GoesOn(t, [req[t] EXCEPT !.prev = {}])
     \/ /\ req[t].prev = {}
        /\ bundles' = Append(bundles, [cfg |-> req[t].cfg, at |-> req[t].at, active |-> TRUE])
        /\ GoesOn(t, IF req[t].op = "seed" THEN Idle ELSE [req[t] EXCEPT !.pc = "reload"])
  /\ UNCHANGED <<configs, calibs, registered, copies, untold, clock>>

\* The commit: the bundles that were read as active go, the new one comes.
Insert(t) ==
  /\ req[t].pc = "insert"
  /\ bundles' = Append(Without(req[t].prev),
                       [cfg |-> req[t].cfg, at |-> req[t].at, active |-> TRUE])
  /\ GoesOn(t, IF req[t].op = "seed" THEN Idle ELSE [req[t] EXCEPT !.pc = "reload"])
  /\ UNCHANGED <<configs, calibs, registered, copies, untold, clock>>

\* seed_demo_topology inserts the rows it finds missing, a bundle last, and tells
\* no renderer.
Seed(t) ==
  /\ Active = {}
  /\ configs' = IF configs # << >> THEN configs
                ELSE <<[conf |-> Default, roi |-> Default, bad |-> FALSE]>>
  /\ \E c \in DOMAIN configs' :
       Begins(t, [Idle EXCEPT !.pc = "insert", !.op = "seed", !.cfg = c, !.at = Now])
  /\ registered' = Context
  /\ untold' = (untold \/ renderer.live)
  /\ clock' = Now
  /\ UNCHANGED <<bundles, calibs, copies>>

-----------------------------------------------------------------------------
(* Calibrations, cameras and gates *)

\* create_motion/scale/perspective_calibration: the active ones of the stage are
\* read, and deactivated in the commit that inserts the new one.
Calibrate(t, s) ==
  /\ Begins(t, [Idle EXCEPT !.pc = "calibrate", !.op = "calibrate", !.stage = s,
                            !.prev = ActiveIn(s), !.at = Now])
  /\ clock' = Now
  /\ UNCHANGED <<tables, copies, untold>>

InsertCalibration(t) ==
  LET mine == req[t] IN
  /\ mine.pc = "calibrate"
  /\ calibs' = Append([c \in DOMAIN calibs |->
                         [calibs[c] EXCEPT !.active = @ /\ c \notin mine.prev]],
                      [stage |-> mine.stage, at |-> mine.at, active |-> TRUE])
  /\ GoesOn(t, IF mine.stage = "perspective" THEN [mine EXCEPT !.pc = "warp"] ELSE Idle)
  /\ UNCHANGED <<configs, bundles, registered, copies, untold, clock>>

\* create_camera and create_gate
Register(t, k) ==
  /\ Begins(t, [Idle EXCEPT !.pc = "context", !.op = "register"])
  /\ registered' = registered \cup {k}
  /\ UNCHANGED <<configs, bundles, calibs, copies, untold, clock>>

-----------------------------------------------------------------------------
(* The renderer of the line *)

\* A renderer as its constructor leaves it: warp, config and context are loaded.
Constructed ==
  LET b == InForce IN
  [live    |-> TRUE,
   bundle  |-> IF b = None \/ Payload(b).bad THEN None ELSE b,
   engine  |-> IF b = None THEN Fresh ELSE Configured(Fresh, Payload(b)),
   warp    |-> CalibInForce("perspective"),
   context |-> registered]

\* A stream is opened: a renderer is constructed and only then put into _renderers.
OpenStream(t) ==
  /\ ~ renderer.live
  /\ Begins(t, [Idle EXCEPT !.pc = "publish", !.op = "open", !.built = Constructed])
  /\ UNCHANGED <<tables, copies, untold, clock>>

Publish(t) ==
  /\ req[t].pc = "publish"
  /\ renderer' = req[t].built
  /\ GoesOn(t, Idle)
  /\ UNCHANGED <<tables, worker, untold, clock>>

\* Bug: the bundle id is taken over and the payload is not applied.
ReloadIdOnly(t) ==
  /\ req[t].pc = "reload"
  /\ renderer' = IF renderer.live THEN [renderer EXCEPT !.bundle = InForce] ELSE renderer
  /\ GoesOn(t, Idle)
  /\ UNCHANGED <<tables, worker, untold, clock>>

\* reload_active_config, if there is a renderer: it takes the id of the bundle in
\* force ...
Reload(t) ==
  /\ req[t].pc = "reload"
  /\ IF renderer.live
       THEN /\ renderer' = [renderer EXCEPT !.bundle = InForce]
            /\ GoesOn(t, [Idle EXCEPT !.pc = "configure", !.op = req[t].op,
                                      !.cfg = bundles[InForce].cfg])
       ELSE GoesOn(t, Idle) /\ UNCHANGED renderer
  /\ UNCHANGED <<tables, worker, untold, clock>>

\* ... and applies its payload; if that raises there is no bundle to count under.
Configure(t) ==
  LET p == configs[req[t].cfg] IN
  /\ req[t].pc = "configure"
  /\ renderer' = [renderer EXCEPT !.engine = Configured(@, p),
                                  !.bundle = IF p.bad THEN None ELSE @]
  /\ GoesOn(t, Idle)
  /\ UNCHANGED <<tables, worker, untold, clock>>

\* reload_perspective_calibration and reload_camera_context
ReloadWarp(t) ==
  /\ req[t].pc = "warp"
  /\ renderer' = IF renderer.live THEN [renderer EXCEPT !.warp = CalibInForce("perspective")]
                 ELSE renderer
  /\ GoesOn(t, Idle)
  /\ UNCHANGED <<tables, worker, untold, clock>>

ReloadContext(t) ==
  /\ req[t].pc = "context"
  /\ renderer' = IF renderer.live THEN [renderer EXCEPT !.context = registered] ELSE renderer
  /\ GoesOn(t, Idle)
  /\ UNCHANGED <<tables, worker, untold, clock>>

-----------------------------------------------------------------------------
(* The inference worker *)

\* Bug: the bundle is looked up once.
WorkerStepOnce ==
  LET b == InForce IN
  /\ b # None /\ worker.bundle = None
  /\ worker' = [worker EXCEPT !.bundle = b, !.engine = Configured(@, Payload(b)),
                              !.applied = IF Payload(b).bad THEN @ ELSE bundles[b].cfg,
                              !.spoiled = Payload(b).bad]
  /\ UNCHANGED <<tables, started, clock, req, renderer, overlapped, untold>>

\* Bug: the latest config version is applied instead of that of the bundle.
WorkerStepLatest ==
  LET b == InForce  c == Len(configs) IN
  /\ b # None
  /\ worker' = [worker EXCEPT !.bundle = b, !.engine = Configured(@, configs[c]),
                              !.applied = IF configs[c].bad THEN @ ELSE c,
                              !.spoiled = configs[c].bad]
  /\ UNCHANGED <<tables, started, clock, req, renderer, overlapped, untold>>

\* run_step, before the frames of a batch: the bundle in force is what their
\* crossings are stamped with; its payload is applied if it is another version
\* than the last one that was applied without raising.
WorkerStep ==
  LET b == InForce  c == bundles[b].cfg IN
  /\ b # None
  /\ worker' = IF c = worker.applied THEN [worker EXCEPT !.bundle = b]
               ELSE [bundle  |-> b,
                     engine  |-> Configured(worker.engine, configs[c]),
                     applied |-> IF configs[c].bad THEN worker.applied ELSE c,
                     spoiled |-> configs[c].bad]
  /\ UNCHANGED <<tables, started, clock, req, renderer, overlapped, untold>>

WorkerRestart ==
  /\ worker # Started
  /\ worker' = Started
  /\ UNCHANGED <<tables, started, clock, req, renderer, overlapped, untold>>

-----------------------------------------------------------------------------
Request(t) ==
  \/ \E p \in Payloads : CreateConfig(t, p)
  \/ \E c \in DOMAIN configs : Activate(t, c)
  \/ \E roi \in Rois : SetRoi(t, roi)
  \/ \E s \in Stages : Calibrate(t, s)
  \/ \E k \in Context : Register(t, k)
  \/ OpenStream(t) \/ Seed(t)

Handle(t) ==
  \/ StoreRoi(t) \/ ReadForRoi(t) \/ Insert(t) \/ InsertCalibration(t)
  \/ Publish(t) \/ Reload(t) \/ Configure(t) \/ ReloadWarp(t) \/ ReloadContext(t)

Next ==
  \/ \E t \in Threads : Request(t) \/ Handle(t)
  \/ WorkerStep \/ WorkerRestart

Spec == Init /\ [][Next]_vars

\* Requests are carried through, and frames keep arriving at the worker.
FairSpec == Spec /\ (\A t \in Threads : WF_vars(Handle(t))) /\ WF_vars(WorkerStep)

-----------------------------------------------------------------------------
(* Properties *)

Engines      == [conf : Nat, roi : Nat]
Versions     == [conf : Nat, roi : Nat, bad : BOOLEAN]
Bundles      == [cfg : DOMAIN configs, at : Nat, active : BOOLEAN]
Calibrations == [stage : Stages, at : Nat, active : BOOLEAN]
Renderers    == [live : BOOLEAN, bundle : Nat, engine : Engines, warp : Nat,
                 context : SUBSET Context]
Workers      == [bundle : {None} \cup DOMAIN bundles, applied : {None} \cup DOMAIN configs,
                 engine : Engines, spoiled : BOOLEAN]
Pcs          == {"idle", "store", "read", "insert", "calibrate", "publish", "reload",
                 "configure", "warp", "context"}
Ops          == {"none", "activate", "roi", "seed", "calibrate", "register", "open"}
Requests     == [pc : Pcs, op : Ops,
                 cfg : {None} \cup DOMAIN configs, roi : Nat, stage : Stages \cup {"none"},
                 prev : SUBSET Nat, at : Nat, built : Renderers]

\* Every variable stays within its type, and what refers to a row refers to one
\* that exists: the keys of config_version_id and of the cached bundle.
TypeOK ==
  /\ configs \in Seq(Versions) /\ bundles \in Seq(Bundles) /\ calibs \in Seq(Calibrations)
  /\ registered \subseteq Context
  /\ started \in 0 .. MaxRequests /\ clock \in Nat
  /\ renderer \in Renderers /\ renderer.bundle \in {None} \cup DOMAIN bundles
  /\ worker \in Workers
  /\ req \in [Threads -> Requests]
  /\ overlapped \in BOOLEAN /\ untold \in BOOLEAN

\* Once a bundle was activated one is in force at every moment, and so for the
\* calibrations of a stage, whoever activates what at the same time: crossings
\* cannot be recorded without a bundle (deployment_bundle_id is NOT NULL).
SomethingInForce ==
  /\ bundles # << >> => Active # {}
  /\ \A c \in DOMAIN calibs : ActiveIn(calibs[c].stage) # {}

Quiet == \A t \in Threads : req[t].pc = "idle"

\* As long as no two requests overlapped, one bundle is active ("deactivating
\* previous active bundle"), one calibration in each stage, and when no request
\* runs the live renderer counts under that bundle, with its payload, its warp and
\* the camera and gate of the line - or under none, when its payload raises.
SequentialIsExact ==
  ~ overlapped =>
    /\ Cardinality(Active) <= 1
    /\ \A s \in Stages : Cardinality(ActiveIn(s)) <= 1
    /\ Quiet /\ renderer.live /\ ~ untold =>
         /\ InForce # None /\ ~ Payload(InForce).bad =>
              /\ renderer.bundle = InForce
              /\ renderer.engine = Configured(Fresh, Payload(InForce))
         /\ InForce = None \/ Payload(InForce).bad => renderer.bundle = None
         /\ renderer.warp = CalibInForce("perspective")
         /\ renderer.context = registered

\* Between two batches the worker's crossings are stamped with the bundle whose
\* payload its engine runs with, unless the last payload it met raised half-way.
WorkerRunsWhatItStamps ==
  worker.bundle # None /\ ~ worker.spoiled =>
    worker.engine = Configured(worker.engine, Payload(worker.bundle))

\* ... also after a payload that raised was replaced by one that does not.
RunStepReapplies ==
  worker.bundle # None /\ ~ Payload(worker.bundle).bad =>
    worker.engine = Configured(worker.engine, Payload(worker.bundle))

\* The worker is never left behind: again and again it stamps the bundle in force,
\* if there is one, when no request is on its way.
WorkerCatchesUp == []<>(Quiet => worker.bundle = InForce)

\* An update of the polygon brings into force a payload that differs from the one
\* in force before it in the polygon only.
RoiKeepsTheRest ==
  [][\A t \in Threads :
       req[t].op = "roi" /\ req[t].pc = "insert" /\ bundles' # bundles /\ InForce # None
         /\ req'[t] # req[t]
       => configs[req[t].cfg].conf = Payload(InForce).conf]_vars

=============================================================================
