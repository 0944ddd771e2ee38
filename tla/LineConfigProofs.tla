-------------------------- MODULE LineConfigProofs --------------------------
(***************************************************************************)
(* What TLAPS proves about LineConfig, for any threads, payloads, polygons *)
(* and stages, and any number of requests: a line never loses the bundle   *)
(* in force, the worker runs what it stamps, and as long as no requests    *)
(* overlap, one bundle is active and the live renderer has all of it.      *)
(***************************************************************************)
EXTENDS LineConfig, FiniteSetTheorems, SequenceTheorems, WellFoundedInduction, TLAPS

\* No row is later than the clock, and a line that had a bundle has one.
TablesInv ==
  /\ configs \in Seq(Versions) /\ bundles \in Seq(Bundles) /\ calibs \in Seq(Calibrations)
  /\ registered \subseteq Context /\ clock \in Nat
  /\ \A b \in DOMAIN bundles : bundles[b].at <= clock
  /\ \A c \in DOMAIN calibs : calibs[c].at <= clock
  /\ SomethingInForce

\* What a request refers to exists.
Grounded(r) ==
  /\ r \in Requests /\ r.at <= clock
  /\ r.pc \in {"store", "read", "insert", "configure"} => r.cfg # None
  /\ r.pc = "reload" => bundles # << >>
  /\ r.pc = "publish" => r.built.bundle \in {None} \cup DOMAIN bundles
  /\ r.pc = "calibrate" =>
       /\ r.stage \in Stages
       /\ \A c \in r.prev : c \in DOMAIN calibs /\ calibs[c].stage = r.stage

RowsInv == TypeOK /\ TablesInv /\ \A t \in Threads : Grounded(req[t])

\* What the worker ran last, and under which bundle.
WorkerInv ==
  ~ worker.spoiled =>
    /\ worker.bundle # None => worker.applied # None /\ bundles[worker.bundle].cfg = worker.applied
    /\ worker.applied # None => worker.engine = Configured(worker.engine, configs[worker.applied])

\* As long as no requests overlapped, one bundle is active and one calibration in
\* each stage, and the only request that may be on its way, r, still has the rows
\* that it read; the renderer has all but what r is about to tell it.
OneInForce ==
  /\ \A a, b \in Active : a = b
  /\ \A s \in Stages : \A a, b \in ActiveIn(s) : a = b

HasBundle ==
  /\ InForce = None \/ Payload(InForce).bad => renderer.bundle = None
  /\ InForce # None /\ ~ Payload(InForce).bad =>
       /\ renderer.bundle = InForce
       /\ renderer.engine = Configured(Fresh, Payload(InForce))

HasRead(r) ==
  /\ r.pc = "insert" => r.prev = Active
  /\ r.pc = "calibrate" => r.prev = ActiveIn(r.stage)
  /\ r.pc = "publish" => r.built = Constructed

HasTold(r) ==
  /\ r.pc \in {"store", "read"} => r.op # "seed"
  /\ r.pc = "insert" /\ r.op = "seed" /\ renderer.live => untold
  /\ renderer.live /\ ~ untold =>
       /\ r.pc \notin {"reload", "configure"} => HasBundle
       /\ r.pc = "configure" => renderer.bundle = InForce /\ r.cfg = bundles[InForce].cfg
       /\ r.pc # "warp" => renderer.warp = CalibInForce("perspective")
       /\ r.pc # "context" => renderer.context = registered

Alone(r) ==
  \/ r = Idle /\ Quiet
  \/ \E t \in Threads : r = req[t] /\ \A u \in Threads \ {t} : req[u].pc = "idle"

SequentialInv ==
  ~ overlapped =>
    /\ OneInForce
    /\ \E r \in {Idle} \cup {req[t] : t \in Threads} : Alone(r) /\ HasRead(r) /\ HasTold(r)

-----------------------------------------------------------------------------
(* Numbers and sequences *)

LEMMA LeastIs ==
  ASSUME NEW T, T \subseteq Nat, T # {}
  PROVE  \E x \in T : \A y \in T : x <= y
<1> DEFINE R == OpToRel(<, Nat)
<1>1. IsWellFoundedOn(R, Nat)
  BY NatLessThanWellFounded
<1>2. \A x, y \in Nat : x < y => <<x, y>> \in R
  BY DEF OpToRel
<1> HIDE DEF R
<1>3. PICK x \in T : \A y \in T : ~ (<<y, x>> \in R)
  BY <1>1, WFMin, Zenon
<1>4. ASSUME NEW y \in T PROVE x <= y
  <2>1. x \in Nat /\ y \in Nat
    OBVIOUS
  <2>2. ~ (<<y, x>> \in R)
    BY <1>3
  <2>3. ~ (y < x)
    BY <1>2, <2>1, <2>2, Zenon
  <2> QED
    BY <2>1, <2>3
<1> QED
  BY <1>4

LEMMA AppendIs ==
  ASSUME NEW S, NEW s \in Seq(S), NEW e
  PROVE  /\ Len(s) \in Nat /\ DOMAIN s = 1..Len(s) /\ \A i \in 1..Len(s) : s[i] \in S
         /\ Len(Append(s, e)) = Len(s) + 1 /\ DOMAIN Append(s, e) = 1..Len(s) + 1
         /\ DOMAIN s \subseteq DOMAIN Append(s, e)
         /\ \A i \in DOMAIN s : Append(s, e)[i] = s[i]
         /\ Append(s, e)[Len(s) + 1] = e
         /\ e \in S => Append(s, e) \in Seq(S)
<1>1. Len(s) \in Nat /\ DOMAIN s = 1..Len(s) /\ \A i \in 1..Len(s) : s[i] \in S
  BY LenProperties
<1>2. Len(Append(s, e)) = Len(s) + 1 /\ DOMAIN Append(s, e) = 1..Len(s) + 1
  OBVIOUS
<1>3. \A i \in DOMAIN s : Append(s, e)[i] = s[i]
  BY <1>1
<1>4. Append(s, e)[Len(s) + 1] = e
  BY <1>1
<1>5. e \in S => Append(s, e) \in Seq(S)
  OBVIOUS
<1> QED
  BY <1>1, <1>2, <1>3, <1>4, <1>5

\* A table whose rows are changed in place.
LEMMA RewrittenIs ==
  ASSUME NEW S, NEW T, NEW s \in Seq(S), NEW f, DOMAIN f = DOMAIN s, f = [i \in DOMAIN s |-> f[i]],
         \A i \in DOMAIN s : f[i] \in T
  PROVE  f \in Seq(T) /\ Len(f) = Len(s)
<1>1. Len(s) \in Nat /\ DOMAIN s = 1..Len(s)
  BY LenProperties
<1>2. f \in [1..Len(s) -> T]
  BY <1>1
<1>3. f \in Seq(T)
  BY <1>1, <1>2, SeqDef
<1>4. Len(f) = Len(s)
  BY <1>1, <1>3, LenProperties
<1> QED
  BY <1>3, <1>4

-----------------------------------------------------------------------------
(* What is in force *)

\* Among rows that are not later than the clock there is a latest one.
LEMMA LatestIs ==
  ASSUME NEW table, NEW S, NEW n \in Nat, \A i \in S : table[i].at \in Nat /\ table[i].at <= n
  PROVE  /\ S # {} => Latest(table, S) \in S
         /\ S = {} => Latest(table, S) = None
<1>1. ASSUME S # {} PROVE Latest(table, S) \in S
  <2> DEFINE T == {n - table[i].at : i \in S}
  <2>1. T \subseteq Nat /\ T # {}
    BY <1>1
  <2>2. PICK x \in T : \A y \in T : x <= y
    BY <2>1, LeastIs
  <2>3. PICK i \in S : x = n - table[i].at
    OBVIOUS
  <2>4. \A j \in S : table[j].at <= table[i].at
    BY <2>2, <2>3
  <2>5. \E k \in S : \A j \in S : table[j].at <= table[k].at
    BY <2>4
  <2>6. Latest(table, S) = CHOOSE k \in S : \A j \in S : table[j].at <= table[k].at
    BY <1>1 DEF Latest
  <2> QED
    BY <2>5, <2>6
<1> QED
  BY <1>1 DEF Latest

LEMMA OnlyOneIsLatest ==
  ASSUME NEW table, NEW S, NEW x \in S, \A y \in S : y = x, table[x].at \in Nat
  PROVE  Latest(table, S) = x
<1>1. S = {x}
  OBVIOUS
<1>2. \A j \in S : table[j].at <= table[x].at
  BY <1>1
<1>3. Latest(table, S) = CHOOSE k \in S : \A j \in S : table[j].at <= table[k].at
  BY DEF Latest
<1> QED
  BY <1>1, <1>2, <1>3

LEMMA RowsAre ==
  ASSUME TypeOK
  PROVE  /\ Len(configs) \in Nat /\ DOMAIN configs = 1..Len(configs)
         /\ \A c \in DOMAIN configs : configs[c] \in Versions
         /\ Len(bundles) \in Nat /\ DOMAIN bundles = 1..Len(bundles)
         /\ \A b \in DOMAIN bundles : bundles[b] \in Bundles /\ configs[bundles[b].cfg] \in Versions
         /\ Len(calibs) \in Nat /\ DOMAIN calibs = 1..Len(calibs)
         /\ \A c \in DOMAIN calibs : calibs[c] \in Calibrations
         /\ 0 \notin DOMAIN configs /\ 0 \notin DOMAIN bundles /\ 0 \notin DOMAIN calibs
<1>1. /\ Len(configs) \in Nat /\ DOMAIN configs = 1..Len(configs)
      /\ \A c \in DOMAIN configs : configs[c] \in Versions
  BY LenProperties DEF TypeOK
<1>2. /\ Len(bundles) \in Nat /\ DOMAIN bundles = 1..Len(bundles)
      /\ \A b \in DOMAIN bundles : bundles[b] \in Bundles
  BY LenProperties DEF TypeOK
<1>3. /\ Len(calibs) \in Nat /\ DOMAIN calibs = 1..Len(calibs)
      /\ \A c \in DOMAIN calibs : calibs[c] \in Calibrations
  BY LenProperties DEF TypeOK
<1>4. \A b \in DOMAIN bundles : configs[bundles[b].cfg] \in Versions
  BY <1>1, <1>2 DEF Bundles
<1> QED
  BY <1>1, <1>2, <1>3, <1>4

LEMMA InForceIs ==
  ASSUME RowsInv
  PROVE  /\ Active # {} => InForce \in Active /\ InForce \in DOMAIN bundles
         /\ Active = {} => InForce = None
         /\ InForce # None => InForce \in Active /\ InForce \in DOMAIN bundles /\ Payload(InForce) \in Versions
         /\ InForce \in Nat
<1>0. TypeOK /\ clock \in Nat
  BY DEF RowsInv, TypeOK
<1>1. \A b \in Active : b \in DOMAIN bundles /\ bundles[b].at \in Nat /\ bundles[b].at <= clock
  BY <1>0, RowsAre DEF Active, RowsInv, TablesInv, Bundles
<1>2. (Active # {} => InForce \in Active) /\ (Active = {} => InForce = None)
  BY <1>0, <1>1, LatestIs DEF InForce
<1>3. \A b \in DOMAIN bundles : Payload(b) \in Versions
  BY <1>0, RowsAre DEF Payload
<1> QED
  BY <1>0, <1>1, <1>2, <1>3, RowsAre DEF None

LEMMA CalibInForceIs ==
  ASSUME RowsInv, NEW s
  PROVE  CalibInForce(s) \in Nat /\ (CalibInForce(s) # None => CalibInForce(s) \in ActiveIn(s))
<1>0. TypeOK /\ clock \in Nat
  BY DEF RowsInv, TypeOK
<1>1. \A c \in ActiveIn(s) : c \in DOMAIN calibs /\ calibs[c].at \in Nat /\ calibs[c].at <= clock
  BY <1>0, RowsAre DEF ActiveIn, RowsInv, TablesInv, Calibrations
<1>2. (ActiveIn(s) # {} => CalibInForce(s) \in ActiveIn(s)) /\ (ActiveIn(s) = {} => CalibInForce(s) = None)
  BY <1>0, <1>1, LatestIs DEF CalibInForce
<1> QED
  BY <1>0, <1>1, <1>2, RowsAre DEF None

-----------------------------------------------------------------------------
(* Engines and renderers *)

LEMMA ConfiguredIs ==
  ASSUME NEW engine \in Engines, NEW p \in Versions
  PROVE  /\ Configured(engine, p) \in Engines
         /\ Configured(Configured(engine, p), p) = Configured(engine, p)
         /\ ~ p.bad => Configured(engine, p) = [conf |-> p.conf, roi |-> p.roi]
BY DEF Configured, Engines, Versions

LEMMA FreshIs == Fresh \in Engines
BY DEF Fresh, Engines, Default

LEMMA AbsentIs == Absent \in Renderers /\ Absent.live = FALSE /\ Absent.bundle = None
BY FreshIs DEF Absent, Renderers, None

LEMMA ConstructedIs ==
  ASSUME RowsInv
  PROVE  Constructed \in Renderers /\ Constructed.bundle \in {None} \cup DOMAIN bundles
<1> DEFINE b == IF InForce = None \/ Payload(InForce).bad THEN None ELSE InForce
           e == IF InForce = None THEN Fresh ELSE Configured(Fresh, Payload(InForce))
           w == CalibInForce("perspective")
<1>1. Constructed = [live |-> TRUE, bundle |-> b, engine |-> e, warp |-> w, context |-> registered]
  BY DEF Constructed
<1>2. b \in {None} \cup DOMAIN bundles /\ b \in Nat
  BY InForceIs DEF None
<1>3. e \in Engines
  BY InForceIs, ConfiguredIs, FreshIs
<1>4. w \in Nat
  BY CalibInForceIs
<1>5. registered \subseteq Context
  BY DEF RowsInv, TypeOK
<1> HIDE DEF b, e, w
<1> QED
  BY <1>1, <1>2, <1>3, <1>4, <1>5 DEF Renderers

-----------------------------------------------------------------------------
(* Rows *)

\* Tables only grow, and the rows keep what they refer to.
Grow ==
  /\ DOMAIN configs \subseteq DOMAIN configs' /\ DOMAIN bundles \subseteq DOMAIN bundles'
  /\ DOMAIN calibs \subseteq DOMAIN calibs'
  /\ \A c \in DOMAIN calibs : calibs'[c].stage = calibs[c].stage
  /\ bundles # << >> => bundles' # << >>
  /\ clock \in Nat /\ clock' \in Nat /\ clock <= clock'

LEMMA GroundedStays ==
  ASSUME Grow, NEW r, Grounded(r)
  PROVE  Grounded(r)'
<1>1. Requests \subseteq Requests'
  BY DEF Grow, Requests
<1>2. r \in Requests' /\ r.at <= clock'
  <2>1. r.at \in Nat
    BY DEF Grounded, Requests
  <2> QED
    BY <1>1, <2>1 DEF Grounded, Grow
<1> QED
  BY <1>2 DEF Grounded, Grow

LEMMA RequestStep ==
  ASSUME RowsInv, Grow, NEW t \in Threads, NEW r, req' = [req EXCEPT ![t] = r], Grounded(r)'
  PROVE  req' \in [Threads -> Requests'] /\ (\A u \in Threads : Grounded(req[u]))'
<1>1. req \in [Threads -> Requests] /\ \A u \in Threads : Grounded(req[u])
  BY DEF RowsInv, TypeOK
<1>2. ASSUME NEW u \in Threads PROVE req'[u] \in Requests' /\ Grounded(req[u])'
  <2>1. CASE u = t
    <3>1. req'[u] = r
      BY <1>1, <2>1
    <3>2. \A q : q = r => Grounded(q)'
      OBVIOUS
    <3>3. Grounded(req[u])'
      BY <3>1, <3>2 DEF Grounded
    <3> QED
      BY <3>3 DEF Grounded
  <2>2. CASE u # t
    <3>1. req'[u] = req[u]
      BY <1>1, <2>2
    <3>2. \A q : q = req[u] => Grounded(q)'
      BY <1>1, GroundedStays
    <3>3. Grounded(req[u])'
      BY <3>1, <3>2 DEF Grounded
    <3> QED
      BY <3>3 DEF Grounded
  <2> QED
    BY <2>1, <2>2
<1>3. req' = [u \in Threads |-> req'[u]]
  BY <1>1
<1> QED
  BY <1>2, <1>3

LEMMA WorkerStays ==
  ASSUME RowsInv, Grow, UNCHANGED worker
  PROVE  worker' \in Workers'
BY DEF RowsInv, TypeOK, Grow, Workers

LEMMA TablesStay ==
  ASSUME RowsInv, UNCHANGED tables, clock' \in Nat, clock <= clock'
  PROVE  Grow /\ TablesInv'
<1>1. TablesInv /\ TypeOK /\ clock \in Nat
  BY DEF RowsInv, TypeOK
<1>2. Grow
  BY <1>1 DEF tables, Grow
<1>3. /\ \A b \in DOMAIN bundles : bundles[b].at \in Nat /\ bundles[b].at <= clock
      /\ \A c \in DOMAIN calibs : calibs[c].at \in Nat /\ calibs[c].at <= clock
  BY <1>1, RowsAre DEF TablesInv, Bundles, Calibrations
<1>4. /\ \A b \in DOMAIN bundles : bundles[b].at <= clock'
      /\ \A c \in DOMAIN calibs : calibs[c].at <= clock'
  BY <1>1, <1>3
<1>5. (/\ configs \in Seq(Versions) /\ bundles \in Seq(Bundles) /\ calibs \in Seq(Calibrations)
       /\ registered \subseteq Context /\ SomethingInForce)'
  BY <1>1 DEF TablesInv, tables, Bundles, SomethingInForce, Active, ActiveIn
<1> QED
  BY <1>2, <1>4, <1>5 DEF TablesInv, tables

\* A request goes a step on: what is left to show of it.
LEMMA RequestKeeps ==
  ASSUME RowsInv, Grow, TablesInv',
         NEW t \in Threads, NEW r, req' = [req EXCEPT ![t] = r], Grounded(r)',
         started' \in 0..MaxRequests, overlapped' \in BOOLEAN, untold' \in BOOLEAN,
         renderer' \in Renderers, renderer'.bundle \in {None} \cup DOMAIN bundles', UNCHANGED worker
  PROVE  RowsInv'
<1>1. worker' \in Workers'
  BY WorkerStays
<1>2. req' \in [Threads -> Requests'] /\ (\A u \in Threads : Grounded(req[u]))'
  BY RequestStep
<1>3. TypeOK'
  BY <1>1, <1>2 DEF TypeOK, TablesInv
<1> QED
  BY <1>2, <1>3 DEF RowsInv

LEMMA BeginsIs ==
  ASSUME TypeOK, NEW t, NEW r, Begins(t, r)
  PROVE  started' \in 0..MaxRequests /\ overlapped' \in BOOLEAN /\ req' = [req EXCEPT ![t] = r]
<1>1. started \in 0..MaxRequests /\ MaxRequests \in Nat
  BY RequestsAssumption DEF TypeOK
<1>2. started' \in 0..MaxRequests
  BY <1>1 DEF Begins
<1> QED
  BY <1>2 DEF Begins

LEMMA GoesOnIs ==
  ASSUME TypeOK, NEW t, NEW r, GoesOn(t, r)
  PROVE  started' \in 0..MaxRequests /\ overlapped' \in BOOLEAN /\ req' = [req EXCEPT ![t] = r]
BY DEF GoesOn, TypeOK

LEMMA IdleIs ==
  /\ Idle \in Requests /\ Idle.pc = "idle" /\ Idle.op = "none" /\ Idle.cfg = None /\ Idle.roi \in Nat
  /\ Idle.stage = "none" /\ Idle.prev = {} /\ Idle.at = 0 /\ Idle.built = Absent
<1>1. Idle \in Requests
  BY AbsentIs DEF Idle, Requests, Pcs, Ops, None, Default
<1> QED
  BY <1>1 DEF Idle, Default, None

\* A request that becomes idle is grounded.
LEMMA IdleStays ==
  ASSUME Grow
  PROVE  \A q : q = Idle => Grounded(q)'
<1>1. clock' \in Nat
  BY DEF Grow
<1>2. Idle \in Requests'
  BY AbsentIs DEF Idle, Requests, Pcs, Ops, None, Default
<1> QED
  BY <1>1, <1>2, IdleIs DEF Grounded

\* The renderer is as it was.
LEMMA RendererStays ==
  ASSUME RowsInv, Grow, UNCHANGED renderer
  PROVE  renderer' \in Renderers /\ renderer'.bundle \in {None} \cup DOMAIN bundles'
BY DEF RowsInv, TypeOK, Grow

\* New rows.
LEMMA ConfigsGrow ==
  ASSUME RowsInv, NEW p \in Versions, configs' = Append(configs, p),
         UNCHANGED <<bundles, calibs, registered, clock>>
  PROVE  Grow /\ TablesInv' /\ Len(configs') \in DOMAIN configs' /\ Len(configs') # None
<1>1. TablesInv /\ TypeOK /\ clock \in Nat /\ configs \in Seq(Versions)
  BY DEF RowsInv, TypeOK
<1>2. /\ DOMAIN configs \subseteq DOMAIN configs' /\ configs' \in Seq(Versions)
      /\ Len(configs') \in DOMAIN configs' /\ Len(configs') # None
  BY <1>1, AppendIs DEF None
<1>3. Grow
  BY <1>1, <1>2 DEF Grow
<1>4. bundles' \in Seq(Bundles')
  <2>1. Bundles \subseteq Bundles'
    BY <1>2 DEF Bundles
  <2>2. bundles \in Seq(Bundles)
    BY <1>1 DEF TypeOK
  <2>3. \A S : Bundles \subseteq S => bundles \in Seq(S)
    BY <2>2, SeqMonotonic
  <2>4. bundles \in Seq(Bundles')
    BY <2>1, <2>3
  <2> QED
    BY <2>4
<1>5. SomethingInForce'
  BY <1>1 DEF TablesInv, SomethingInForce, Active, ActiveIn
<1>6. (/\ \A b \in DOMAIN bundles : bundles[b].at <= clock
       /\ \A c \in DOMAIN calibs : calibs[c].at <= clock
       /\ calibs \in Seq(Calibrations) /\ registered \subseteq Context /\ clock \in Nat)'
  BY <1>1 DEF TablesInv, Calibrations
<1> QED
  BY <1>2, <1>3, <1>4, <1>5, <1>6 DEF TablesInv

LEMMA CreateConfigKeeps ==
  ASSUME RowsInv, NEW t \in Threads, NEW p \in Payloads, CreateConfig(t, p)
  PROVE  RowsInv'
<1>0. PICK r : r = Idle
  OBVIOUS
<1>1. /\ TypeOK /\ Begins(t, r) /\ configs' = Append(configs, p)
      /\ UNCHANGED <<bundles, calibs, registered, copies, untold, clock>>
  BY <1>0 DEF RowsInv, CreateConfig
<1>2. p \in Versions
  <2>1. p \in [conf : Nat, roi : {Default} \cup Rois, bad : BOOLEAN] /\ {Default} \cup Rois \subseteq Nat
    BY PayloadsAssumption, RoisAssumption DEF Default
  <2> QED
    BY <2>1 DEF Versions
<1>3. Grow /\ TablesInv'
  BY <1>1, <1>2, ConfigsGrow
<1>4. Grounded(r)'
  BY <1>0, <1>3, IdleStays
<1> QED
  BY <1>1, <1>3, <1>4, RequestKeeps, BeginsIs, RendererStays DEF copies, TypeOK

\* A request that is told from an idle one by a step of a table that it read.
LEMMA ReadActiveIs ==
  ASSUME TypeOK, NEW r \in Requests
  PROVE  /\ ReadActive(r) \in Requests /\ ReadActive(r).pc = "insert" /\ ReadActive(r).prev = Active
         /\ ReadActive(r).at = clock + 1 /\ ReadActive(r).cfg = r.cfg /\ ReadActive(r).op = r.op
<1>1. Active \subseteq Nat /\ clock + 1 \in Nat
  BY RowsAre DEF Active, TypeOK
<1>2. ReadActive(r) = [r EXCEPT !.pc = "insert", !.prev = Active, !.at = clock + 1]
  BY DEF ReadActive, Now
<1> QED
  BY <1>1, <1>2 DEF Requests, Pcs

LEMMA ActivateKeeps ==
  ASSUME RowsInv, NEW t \in Threads, NEW c \in DOMAIN configs, Activate(t, c)
  PROVE  RowsInv'
<1>0. PICK i : i = [Idle EXCEPT !.op = "activate", !.cfg = c]
  OBVIOUS
<1>a. PICK r : r = ReadActive(i)
  OBVIOUS
<1>1. TypeOK /\ Begins(t, r) /\ UNCHANGED <<tables, copies, untold>> /\ clock' = clock + 1 /\ clock \in Nat
  BY <1>0, <1>a DEF RowsInv, Activate, TypeOK, Now
<1>2. Grow /\ TablesInv'
  BY <1>1, TablesStay
<1>3. i \in Requests /\ i.cfg = c /\ c # None
  <2>1. c # None
    BY <1>1, RowsAre DEF None
  <2> QED
    BY <1>0, <2>1, IdleIs DEF Requests, Ops
<1>4. r \in Requests /\ r.pc = "insert" /\ r.cfg = c /\ r.at = clock + 1
  BY <1>1, <1>a, <1>3, ReadActiveIs
<1>5. Grounded(r)'
  <2>1. r \in Requests'
    BY <1>2, <1>4 DEF Requests, Grow
  <2> QED
    BY <1>1, <1>3, <1>4, <2>1 DEF Grounded
<1> QED
  BY <1>1, <1>2, <1>5, RequestKeeps, BeginsIs, RendererStays DEF copies, TypeOK

LEMMA SetRoiKeeps ==
  ASSUME RowsInv, NEW t \in Threads, NEW roi \in Rois, SetRoi(t, roi)
  PROVE  RowsInv'
<1>0. PICK c : c = bundles[InForce].cfg
  OBVIOUS
<1>a. PICK r : r = [Idle EXCEPT !.pc = "store", !.op = "roi", !.cfg = c, !.roi = roi]
  OBVIOUS
<1>1. TypeOK /\ Begins(t, r) /\ UNCHANGED <<tables, copies, untold, clock>> /\ InForce # None /\ clock \in Nat
  BY <1>0, <1>a DEF RowsInv, SetRoi, TypeOK
<1>2. Grow /\ TablesInv'
  BY <1>1, TablesStay
<1>3. c \in DOMAIN configs /\ c # None
  BY <1>0, <1>1, InForceIs, RowsAre DEF Bundles, None
<1>4. r \in Requests /\ r.pc = "store" /\ r.cfg = c /\ r.at = 0
  <2>1. roi \in Nat
    BY RoisAssumption
  <2> QED
    BY <1>3, <1>a, <2>1, IdleIs DEF Requests, Pcs, Ops
<1>5. Grounded(r)'
  <2>1. r \in Requests'
    BY <1>2, <1>4 DEF Requests, Grow
  <2> QED
    BY <1>1, <1>3, <1>4, <2>1 DEF Grounded
<1> QED
  BY <1>1, <1>2, <1>5, RequestKeeps, BeginsIs, RendererStays DEF copies, TypeOK

LEMMA StoreRoiKeeps ==
  ASSUME RowsInv, NEW t \in Threads, StoreRoi(t)
  PROVE  RowsInv'
<1>0. PICK m : m = req[t]
  OBVIOUS
<1>a. PICK l : l = Len(configs')
  OBVIOUS
<1>b. PICK r : r = [m EXCEPT !.pc = "read", !.cfg = l]
  OBVIOUS
<1> DEFINE q == [configs[m.cfg] EXCEPT !.roi = m.roi]
<1>1. /\ TypeOK /\ m.pc = "store" /\ configs' = Append(configs, q) /\ GoesOn(t, r)
      /\ UNCHANGED <<bundles, calibs, registered, copies, untold, clock>>
  BY <1>0, <1>a, <1>b DEF RowsInv, StoreRoi
<1>2. m \in Requests /\ Grounded(m) /\ m.cfg \in DOMAIN configs /\ m.roi \in Nat
  BY <1>0, <1>1 DEF RowsInv, TypeOK, Grounded, Requests
<1>3. q \in Versions
  <2>1. configs[m.cfg] \in Versions
    BY <1>1, <1>2, RowsAre
  <2> QED
    BY <1>2, <2>1 DEF Versions
<1> HIDE DEF q
<1>4. Grow /\ TablesInv' /\ l \in DOMAIN configs' /\ l # None
  BY <1>1, <1>3, <1>a, ConfigsGrow
<1>5. r \in Requests' /\ r.at = m.at /\ r.pc = "read" /\ r.cfg = l
  <2>1. m \in Requests'
    BY <1>2, <1>4 DEF Requests, Grow
  <2> QED
    BY <1>4, <1>b, <2>1 DEF Requests, Pcs
<1>6. Grounded(r)'
  BY <1>1, <1>2, <1>4, <1>5 DEF Grounded
<1> QED
  BY <1>1, <1>4, <1>6, RequestKeeps, GoesOnIs, RendererStays DEF copies, TypeOK

LEMMA ReadForRoiKeeps ==
  ASSUME RowsInv, NEW t \in Threads, ReadForRoi(t)
  PROVE  RowsInv'
<1>0. PICK m : m = req[t]
  OBVIOUS
<1>a. PICK r : r = ReadActive(m)
  OBVIOUS
<1>1. /\ TypeOK /\ m.pc = "read" /\ GoesOn(t, r) /\ UNCHANGED <<tables, copies, untold>>
      /\ clock' = clock + 1 /\ clock \in Nat
  BY <1>0, <1>a DEF RowsInv, ReadForRoi, TypeOK, Now
<1>2. m \in Requests /\ Grounded(m) /\ m.cfg # None
  BY <1>0, <1>1 DEF RowsInv, TypeOK, Grounded
<1>3. Grow /\ TablesInv'
  BY <1>1, TablesStay
<1>4. r \in Requests /\ r.pc = "insert" /\ r.cfg # None /\ r.at = clock'
  BY <1>1, <1>2, <1>a, ReadActiveIs
<1>5. Grounded(r)'
  <2>1. r \in Requests'
    BY <1>3, <1>4 DEF Requests, Grow
  <2> QED
    BY <1>1, <1>4, <2>1 DEF Grounded
<1> QED
  BY <1>1, <1>3, <1>5, RequestKeeps, GoesOnIs, RendererStays DEF copies, TypeOK

LEMMA WithoutIs ==
  ASSUME TypeOK, NEW S
  PROVE  /\ Without(S) \in Seq(Bundles) /\ Len(Without(S)) = Len(bundles) /\ DOMAIN Without(S) = DOMAIN bundles
         /\ \A b \in DOMAIN bundles :
              /\ Without(S)[b].cfg = bundles[b].cfg /\ Without(S)[b].at = bundles[b].at
              /\ Without(S)[b].active <=> bundles[b].active /\ b \notin S
<1> DEFINE f == Without(S)
<1>1. DOMAIN f = DOMAIN bundles /\ f = [b \in DOMAIN bundles |-> f[b]]
  BY DEF Without
<1>2. ASSUME NEW b \in DOMAIN bundles
      PROVE  /\ f[b] \in Bundles /\ f[b].cfg = bundles[b].cfg /\ f[b].at = bundles[b].at
             /\ f[b].active <=> bundles[b].active /\ b \notin S
  <2>1. bundles[b] \in Bundles
    BY RowsAre
  <2>2. PICK a \in BOOLEAN : a = (bundles[b].active /\ b \notin S)
    OBVIOUS
  <2>3. f[b] = [bundles[b] EXCEPT !.active = a]
    BY <2>2 DEF Without
  <2>4. f[b] \in Bundles /\ f[b].cfg = bundles[b].cfg /\ f[b].at = bundles[b].at /\ f[b].active = a
    BY <2>1, <2>3 DEF Bundles
  <2> QED
    BY <2>2, <2>4
<1> HIDE DEF f
<1>3. f \in Seq(Bundles) /\ Len(f) = Len(bundles)
  <2>1. bundles \in Seq(Bundles)
    BY DEF TypeOK
  <2> QED
    BY <1>1, <1>2, <2>1, RewrittenIs
<1> QED
  BY <1>1, <1>2, <1>3 DEF f

\* The bundle that is inserted is active; those that were read as active are not.
LEMMA InsertIs ==
  ASSUME RowsInv, NEW t \in Threads, Insert(t)
  PROVE  /\ Grow /\ TablesInv' /\ bundles' # << >>
         /\ DOMAIN bundles' = DOMAIN bundles \cup {Len(bundles) + 1}
         /\ \A b \in DOMAIN bundles : /\ bundles'[b].cfg = bundles[b].cfg /\ bundles'[b].at = bundles[b].at
                                      /\ bundles'[b].active <=> bundles[b].active /\ b \notin req[t].prev
         /\ bundles'[Len(bundles) + 1].cfg = req[t].cfg /\ bundles'[Len(bundles) + 1].active
         /\ Active' = (Active \ req[t].prev) \cup {Len(bundles) + 1}
<1>0. PICK m : m = req[t]
  OBVIOUS
<1> DEFINE old == Without(m.prev)
           row == [cfg |-> m.cfg, at |-> m.at, active |-> TRUE]
           n == Len(bundles)
<1>1. /\ TypeOK /\ m.pc = "insert" /\ bundles' = Append(old, row)
      /\ UNCHANGED <<configs, calibs, registered, clock>>
  BY <1>0 DEF RowsInv, Insert
<1>2. m \in Requests /\ m.cfg \in DOMAIN configs /\ m.at \in Nat /\ m.at <= clock
  BY <1>0, <1>1 DEF RowsInv, TypeOK, Grounded, Requests
<1>3. /\ old \in Seq(Bundles) /\ Len(old) = n /\ DOMAIN old = DOMAIN bundles
      /\ \A b \in DOMAIN bundles : /\ old[b].cfg = bundles[b].cfg /\ old[b].at = bundles[b].at
                                   /\ old[b].active <=> bundles[b].active /\ b \notin m.prev
  BY <1>1, WithoutIs
<1>4. row \in Bundles /\ row.cfg = m.cfg /\ row.at = m.at /\ row.active
  BY <1>2 DEF Bundles
<1> HIDE DEF old, row
<1>5. /\ bundles' \in Seq(Bundles) /\ DOMAIN bundles' = 1..n + 1 /\ n \in Nat /\ DOMAIN bundles = 1..n
      /\ \A b \in DOMAIN bundles : bundles'[b] = old[b]
      /\ bundles'[n + 1] = row /\ Len(bundles') = n + 1
  BY <1>1, <1>3, <1>4, AppendIs, RowsAre
<1>6. bundles' # << >> /\ DOMAIN bundles' = DOMAIN bundles \cup {n + 1} /\ n + 1 \in DOMAIN bundles'
  BY <1>5
<1>7. /\ \A b \in DOMAIN bundles : /\ bundles'[b].cfg = bundles[b].cfg /\ bundles'[b].at = bundles[b].at
                                   /\ bundles'[b].active <=> bundles[b].active /\ b \notin m.prev
      /\ bundles'[n + 1].cfg = m.cfg /\ bundles'[n + 1].active /\ bundles'[n + 1].at = m.at
  BY <1>3, <1>4, <1>5
<1> HIDE DEF n
<1>8. Active' = (Active \ m.prev) \cup {n + 1}
  <2>1. Active' = {b \in DOMAIN bundles' : bundles'[b].active}
    BY DEF Active
  <2> QED
    BY <1>6, <1>7, <2>1 DEF Active
<1>9. Grow
  BY <1>1, <1>6 DEF Grow, TypeOK
<1>10. TablesInv'
  <2>1. \A b \in DOMAIN bundles' : bundles'[b].at <= clock'
    BY <1>1, <1>2, <1>6, <1>7 DEF RowsInv, TablesInv
  <2>2. SomethingInForce'
    <3>1. Active' # {}
      BY <1>8
    <3>2. (\A c \in DOMAIN calibs : ActiveIn(calibs[c].stage) # {})'
      BY <1>1 DEF RowsInv, TablesInv, SomethingInForce, ActiveIn
    <3> QED
      BY <3>1, <3>2 DEF SomethingInForce
  <2>3. (/\ configs \in Seq(Versions) /\ calibs \in Seq(Calibrations) /\ registered \subseteq Context
         /\ clock \in Nat /\ \A c \in DOMAIN calibs : calibs[c].at <= clock)'
    BY <1>1 DEF RowsInv, TablesInv, Calibrations
  <2>4. bundles' \in Seq(Bundles')
    BY <1>1, <1>5 DEF Bundles
  <2> QED
    BY <2>1, <2>2, <2>3, <2>4 DEF TablesInv
<1> QED
  BY <1>0, <1>6, <1>7, <1>8, <1>9, <1>10 DEF n

LEMMA InsertKeeps ==
  ASSUME RowsInv, NEW t \in Threads, Insert(t)
  PROVE  RowsInv'
<1>0. PICK m : m = req[t]
  OBVIOUS
<1>a. PICK r : r = IF m.op = "seed" THEN Idle ELSE [m EXCEPT !.pc = "reload"]
  OBVIOUS
<1>1. TypeOK /\ GoesOn(t, r) /\ UNCHANGED <<copies, untold, clock>>
  BY <1>0, <1>a DEF RowsInv, Insert
<1>2. Grow /\ TablesInv' /\ bundles' # << >>
  BY InsertIs
<1>3. Grounded(r)'
  <2>1. CASE m.op = "seed"
    BY <1>2, <1>a, <2>1, IdleStays
  <2>2. CASE m.op # "seed"
    <3>1. m \in Requests /\ Grounded(m)
      BY <1>0 DEF RowsInv, TypeOK
    <3>2. m \in Requests'
      BY <1>2, <3>1 DEF Requests, Grow
    <3>3. r \in Requests' /\ r.pc = "reload" /\ r.at = m.at
      BY <1>a, <2>2, <3>2 DEF Requests, Pcs
    <3> QED
      BY <1>1, <1>2, <3>1, <3>3 DEF Grounded
  <2> QED
    BY <2>1, <2>2
<1> QED
  BY <1>1, <1>2, <1>3, RequestKeeps, GoesOnIs, RendererStays DEF copies, TypeOK

\* What a seed finds missing, and the version that its bundle will refer to.
LEMMA SeedIs ==
  ASSUME RowsInv, NEW t \in Threads, Seed(t)
  PROVE  /\ Grow /\ TablesInv' /\ Active = {} /\ bundles = << >>
         /\ \E c, r : /\ c \in DOMAIN configs' /\ c # None /\ Begins(t, r)
                      /\ r = [Idle EXCEPT !.pc = "insert", !.op = "seed", !.cfg = c, !.at = clock + 1]
<1>1. /\ TypeOK /\ Active = {} /\ clock \in Nat /\ clock' = clock + 1 /\ registered' = Context
      /\ configs' = IF configs # << >> THEN configs ELSE <<[conf |-> Default, roi |-> Default, bad |-> FALSE]>>
      /\ UNCHANGED <<bundles, calibs, copies>>
  BY DEF RowsInv, Seed, TypeOK, Now
<1>2. bundles = << >>
  BY <1>1 DEF RowsInv, TablesInv, SomethingInForce
<1> DEFINE p == [conf |-> Default, roi |-> Default, bad |-> FALSE]
<1>3. p \in Versions
  BY DEF Versions, Default
<1>4. /\ configs' \in Seq(Versions) /\ DOMAIN configs \subseteq DOMAIN configs'
      /\ 0 \notin DOMAIN configs'
  <2>1. CASE configs # << >>
    BY <1>1, <2>1, RowsAre DEF TypeOK
  <2>2. CASE configs = << >>
    <3>1. configs' = <<p>>
      BY <1>1, <2>2
    <3> HIDE DEF p
    <3>2. configs' \in Seq(Versions) /\ DOMAIN configs' = 1..1
      BY <1>3, <3>1
    <3>3. DOMAIN configs = {}
      BY <2>2
    <3> QED
      BY <3>2, <3>3
  <2> QED
    BY <2>1, <2>2
<1>5. Grow
  BY <1>1, <1>4 DEF Grow
<1>6. TablesInv'
  <2>1. bundles' \in Seq(Bundles')
    BY <1>1, <1>2, EmptySeq
  <2>2. SomethingInForce'
    BY <1>1 DEF RowsInv, TablesInv, SomethingInForce, Active, ActiveIn
  <2>3. \A c \in DOMAIN calibs : calibs[c].at \in Nat /\ calibs[c].at <= clock
    BY <1>1, RowsAre DEF RowsInv, TablesInv, Calibrations
  <2>4. (\A c \in DOMAIN calibs : calibs[c].at <= clock)'
    BY <1>1, <2>3
  <2>5. (\A b \in DOMAIN bundles : bundles[b].at <= clock)'
    BY <1>1, <1>2
  <2>6. calibs' \in Seq(Calibrations') /\ clock' \in Nat /\ registered' \subseteq Context
    BY <1>1 DEF TypeOK, Calibrations
  <2> QED
    BY <1>4, <2>1, <2>2, <2>4, <2>5, <2>6 DEF TablesInv
<1>7. PICK c \in DOMAIN configs' : Begins(t, [Idle EXCEPT !.pc = "insert", !.op = "seed", !.cfg = c, !.at = Now])
  BY DEF Seed
<1>8. \E r : Begins(t, r) /\ r = [Idle EXCEPT !.pc = "insert", !.op = "seed", !.cfg = c, !.at = clock + 1]
  BY <1>7 DEF Now
<1>9. c # None
  BY <1>4 DEF None
<1> QED
  BY <1>1, <1>2, <1>5, <1>6, <1>8, <1>9

LEMMA SeedKeeps ==
  ASSUME RowsInv, NEW t \in Threads, Seed(t)
  PROVE  RowsInv'
<1>1. PICK c, r : /\ c \in DOMAIN configs' /\ c # None /\ Begins(t, r)
                  /\ r = [Idle EXCEPT !.pc = "insert", !.op = "seed", !.cfg = c, !.at = clock + 1]
  BY SeedIs, Zenon
<1>2. Grow /\ TablesInv' /\ TypeOK /\ clock \in Nat
  BY SeedIs DEF RowsInv, TypeOK
<1>3. UNCHANGED copies /\ untold' \in BOOLEAN /\ clock' = clock + 1
  BY DEF Seed, Now
<1>4. r \in Requests' /\ r.pc = "insert" /\ r.cfg = c /\ r.at = clock'
  <2>1. Idle \in Requests'
    BY <1>2, IdleIs DEF Requests, Grow
  <2>2. clock + 1 \in Nat
    BY <1>2
  <2> QED
    BY <1>1, <1>3, <2>1, <2>2 DEF Requests, Pcs, Ops
<1>5. Grounded(r)'
  BY <1>1, <1>2, <1>4 DEF Grounded, Grow
<1> QED
  BY <1>1, <1>2, <1>3, <1>5, RequestKeeps, BeginsIs, RendererStays DEF copies

LEMMA CalibrateKeeps ==
  ASSUME RowsInv, NEW t \in Threads, NEW s \in Stages, Calibrate(t, s)
  PROVE  RowsInv'
<1>0. PICK r : r = [Idle EXCEPT !.pc = "calibrate", !.op = "calibrate", !.stage = s,
                                !.prev = ActiveIn(s), !.at = Now]
  OBVIOUS
<1>1. TypeOK /\ Begins(t, r) /\ UNCHANGED <<tables, copies, untold>> /\ clock' = clock + 1 /\ clock \in Nat
  BY <1>0 DEF RowsInv, Calibrate, TypeOK, Now
<1>2. Grow /\ TablesInv'
  BY <1>1, TablesStay
<1>3. /\ ActiveIn(s) \subseteq DOMAIN calibs /\ ActiveIn(s) \in SUBSET Nat
      /\ \A c \in ActiveIn(s) : calibs[c].stage = s
  BY <1>1, RowsAre DEF ActiveIn
<1>4. r \in Requests /\ r.pc = "calibrate" /\ r.stage = s /\ r.prev = ActiveIn(s) /\ r.at = clock + 1
  <2>1. PICK n \in Nat : n = Now
    BY <1>1 DEF Now
  <2>2. PICK a \in SUBSET Nat : a = ActiveIn(s)
    BY <1>3
  <2>3. r = [Idle EXCEPT !.pc = "calibrate", !.op = "calibrate", !.stage = s, !.prev = a, !.at = n]
    BY <1>0, <2>1, <2>2
  <2>4. r \in Requests /\ r.pc = "calibrate" /\ r.stage = s /\ r.prev = a /\ r.at = n
    BY <2>3, IdleIs DEF Requests, Pcs, Ops
  <2> QED
    BY <2>1, <2>2, <2>4 DEF Now
<1>5. Grounded(r)'
  <2>1. r \in Requests'
    BY <1>2, <1>4 DEF Requests, Grow
  <2>3. \A c \in r.prev : c \in DOMAIN calibs' /\ calibs'[c].stage = r.stage
    BY <1>1, <1>3, <1>4 DEF tables
  <2> QED
    BY <1>1, <1>4, <2>1, <2>3 DEF Grounded
<1> QED
  BY <1>1, <1>2, <1>5, RequestKeeps, BeginsIs, RendererStays DEF copies, TypeOK

\* The calibration that is inserted is active; those of its stage that were read
\* as active are not, and other stages stay as they were.
LEMMA InsertCalibrationIs ==
  ASSUME RowsInv, NEW t \in Threads, InsertCalibration(t)
  PROVE  /\ Grow /\ TablesInv' /\ DOMAIN calibs' = DOMAIN calibs \cup {Len(calibs) + 1}
         /\ Len(calibs) + 1 \notin DOMAIN calibs
         /\ \A c \in DOMAIN calibs : /\ calibs'[c].stage = calibs[c].stage /\ calibs'[c].at = calibs[c].at
                                     /\ calibs'[c].active <=> calibs[c].active /\ c \notin req[t].prev
         /\ calibs'[Len(calibs) + 1].stage = req[t].stage /\ calibs'[Len(calibs) + 1].active
<1>0. PICK m : m = req[t]
  OBVIOUS
<1> DEFINE old == [c \in DOMAIN calibs |-> [calibs[c] EXCEPT !.active = @ /\ c \notin m.prev]]
           row == [stage |-> m.stage, at |-> m.at, active |-> TRUE]
           n == Len(calibs)
<1>1. /\ TypeOK /\ m.pc = "calibrate" /\ calibs' = Append(old, row)
      /\ UNCHANGED <<configs, bundles, registered, clock>>
  BY <1>0 DEF RowsInv, InsertCalibration
<1>2. /\ m \in Requests /\ m.stage \in Stages /\ m.at \in Nat /\ m.at <= clock
      /\ \A c \in m.prev : calibs[c].stage = m.stage
  BY <1>0, <1>1 DEF RowsInv, TypeOK, Grounded, Requests
<1>3. ASSUME NEW c \in DOMAIN calibs
      PROVE  /\ old[c] \in Calibrations /\ old[c].stage = calibs[c].stage /\ old[c].at = calibs[c].at
             /\ old[c].active <=> calibs[c].active /\ c \notin m.prev
  <2>1. calibs[c] \in Calibrations
    BY <1>1, RowsAre
  <2>2. PICK a \in BOOLEAN : a = (calibs[c].active /\ c \notin m.prev)
    OBVIOUS
  <2>3. old[c] = [calibs[c] EXCEPT !.active = a]
    BY <2>2
  <2> HIDE DEF old
  <2>4. old[c] \in Calibrations /\ old[c].stage = calibs[c].stage /\ old[c].at = calibs[c].at /\ old[c].active = a
    BY <2>1, <2>3 DEF Calibrations
  <2> QED
    BY <2>2, <2>4
<1>4. DOMAIN old = DOMAIN calibs /\ old = [c \in DOMAIN calibs |-> old[c]]
  OBVIOUS
<1>5. row \in Calibrations /\ row.stage = m.stage /\ row.at = m.at /\ row.active
  BY <1>2 DEF Calibrations
<1> HIDE DEF old, row
<1>6. old \in Seq(Calibrations) /\ Len(old) = n
  <2>1. calibs \in Seq(Calibrations)
    BY <1>1 DEF TypeOK
  <2> QED
    BY <1>3, <1>4, <2>1, RewrittenIs
<1>7. /\ calibs' \in Seq(Calibrations) /\ DOMAIN calibs' = 1..n + 1 /\ n \in Nat /\ DOMAIN calibs = 1..n
      /\ \A c \in DOMAIN calibs : calibs'[c] = old[c]
      /\ calibs'[n + 1] = row
  BY <1>1, <1>4, <1>5, <1>6, AppendIs, RowsAre
<1>8. DOMAIN calibs' = DOMAIN calibs \cup {n + 1} /\ n + 1 \notin DOMAIN calibs
  BY <1>7
<1>9. /\ \A c \in DOMAIN calibs : /\ calibs'[c].stage = calibs[c].stage /\ calibs'[c].at = calibs[c].at
                                  /\ calibs'[c].active <=> calibs[c].active /\ c \notin m.prev
      /\ calibs'[n + 1].stage = m.stage /\ calibs'[n + 1].active /\ calibs'[n + 1].at = m.at
  BY <1>3, <1>5, <1>7
<1> HIDE DEF n
<1>10. Grow
  BY <1>1, <1>8, <1>9 DEF Grow, TypeOK
<1>11. TablesInv'
  <2>1. \A c \in DOMAIN calibs' : calibs'[c].at <= clock'
    BY <1>1, <1>2, <1>8, <1>9 DEF RowsInv, TablesInv
  <2>2. SomethingInForce'
    <3>1. (bundles # << >> => Active # {})'
      BY <1>1 DEF RowsInv, TablesInv, SomethingInForce, Active
    <3>2. ASSUME NEW c \in DOMAIN calibs' PROVE \E d \in DOMAIN calibs' : calibs'[d].stage = calibs'[c].stage /\ calibs'[d].active
      <4>1. CASE calibs'[c].stage = m.stage
        BY <1>8, <1>9, <4>1
      <4>2. CASE calibs'[c].stage # m.stage
        <5>1. c \in DOMAIN calibs /\ calibs[c].stage # m.stage
          BY <1>8, <1>9, <4>2
        <5>2. PICK d \in DOMAIN calibs : calibs[d].stage = calibs[c].stage /\ calibs[d].active
          BY <5>1 DEF RowsInv, TablesInv, SomethingInForce, ActiveIn
        <5>3. d \notin m.prev
          BY <1>2, <5>1, <5>2
        <5> QED
          BY <1>8, <1>9, <5>1, <5>2, <5>3
      <4> QED
        BY <4>1, <4>2
    <3>3. (\A c \in DOMAIN calibs : ActiveIn(calibs[c].stage) # {})'
      BY <3>2 DEF ActiveIn
    <3> QED
      BY <3>1, <3>3 DEF SomethingInForce
  <2>3. (/\ configs \in Seq(Versions) /\ bundles \in Seq(Bundles) /\ registered \subseteq Context
         /\ clock \in Nat /\ \A b \in DOMAIN bundles : bundles[b].at <= clock)'
    BY <1>1 DEF RowsInv, TablesInv, Bundles
  <2>4. calibs' \in Seq(Calibrations')
    BY <1>7 DEF Calibrations
  <2> QED
    BY <2>1, <2>2, <2>3, <2>4 DEF TablesInv
<1> QED
  BY <1>0, <1>8, <1>9, <1>10, <1>11 DEF n

LEMMA InsertCalibrationKeeps ==
  ASSUME RowsInv, NEW t \in Threads, InsertCalibration(t)
  PROVE  RowsInv'
<1>0. PICK m : m = req[t]
  OBVIOUS
<1>a. PICK r : r = IF m.stage = "perspective" THEN [m EXCEPT !.pc = "warp"] ELSE Idle
  OBVIOUS
<1>1. TypeOK /\ GoesOn(t, r) /\ UNCHANGED <<copies, untold, clock>>
  BY <1>0, <1>a DEF RowsInv, InsertCalibration
<1>2. Grow /\ TablesInv'
  BY InsertCalibrationIs
<1>3. Grounded(r)'
  <2>1. CASE m.stage # "perspective"
    BY <1>2, <1>a, <2>1, IdleStays
  <2>2. CASE m.stage = "perspective"
    <3>1. m \in Requests /\ Grounded(m)
      BY <1>0 DEF RowsInv, TypeOK
    <3>2. m \in Requests'
      BY <1>2, <3>1 DEF Requests, Grow
    <3>3. r \in Requests' /\ r.pc = "warp" /\ r.at = m.at
      BY <1>a, <2>2, <3>2 DEF Requests, Pcs
    <3> QED
      BY <1>1, <1>2, <3>1, <3>3 DEF Grounded
  <2> QED
    BY <2>1, <2>2
<1> QED
  BY <1>1, <1>2, <1>3, RequestKeeps, GoesOnIs, RendererStays DEF copies, TypeOK

LEMMA RegisterKeeps ==
  ASSUME RowsInv, NEW t \in Threads, NEW k \in Context, Register(t, k)
  PROVE  RowsInv'
<1>0. PICK r : r = [Idle EXCEPT !.pc = "context", !.op = "register"]
  OBVIOUS
<1>1. /\ TypeOK /\ Begins(t, r) /\ registered' = registered \cup {k} /\ TablesInv
      /\ UNCHANGED <<configs, bundles, calibs, copies, untold, clock>>
  BY <1>0 DEF RowsInv, Register
<1>2. Grow
  BY <1>1 DEF Grow, TypeOK
<1>3. TablesInv'
  BY <1>1 DEF TablesInv, SomethingInForce, Active, ActiveIn, Bundles, Calibrations
<1>4. r \in Requests /\ r.pc = "context" /\ r.at = 0
  BY <1>0, IdleIs DEF Requests, Pcs, Ops
<1>5. Grounded(r)'
  <2>1. r \in Requests'
    BY <1>2, <1>4 DEF Requests, Grow
  <2> QED
    BY <1>2, <1>4, <2>1 DEF Grounded, Grow
<1> QED
  BY <1>1, <1>2, <1>3, <1>5, RequestKeeps, BeginsIs, RendererStays DEF copies, TypeOK

LEMMA OpenStreamKeeps ==
  ASSUME RowsInv, NEW t \in Threads, OpenStream(t)
  PROVE  RowsInv'
<1>0. PICK made : made = Constructed
  OBVIOUS
<1>a. PICK r : r = [Idle EXCEPT !.pc = "publish", !.op = "open", !.built = made]
  OBVIOUS
<1>1. TypeOK /\ Begins(t, r) /\ UNCHANGED <<tables, copies, untold, clock>> /\ clock \in Nat
  BY <1>0, <1>a DEF RowsInv, OpenStream, TypeOK
<1>2. Grow /\ TablesInv'
  BY <1>1, TablesStay
<1>3. made \in Renderers /\ made.bundle \in {None} \cup DOMAIN bundles
  BY <1>0, ConstructedIs
<1>4. r \in Requests /\ r.pc = "publish" /\ r.at = 0 /\ r.built = made
  BY <1>a, <1>3, IdleIs DEF Requests, Pcs, Ops
<1>5. Grounded(r)'
  <2>1. r \in Requests'
    BY <1>2, <1>4 DEF Requests, Grow
  <2>2. r.built.bundle \in {None} \cup DOMAIN bundles'
    BY <1>2, <1>3, <1>4 DEF Grow
  <2> QED
    BY <1>1, <1>4, <2>1, <2>2 DEF Grounded
<1> QED
  BY <1>1, <1>2, <1>5, RequestKeeps, BeginsIs, RendererStays DEF copies, TypeOK

\* What reloads the renderer leaves the tables alone and ends, or goes on with the
\* payload of the bundle in force.
LEMMA ReloadIs ==
  ASSUME RowsInv, NEW t \in Threads, Reload(t)
  PROVE  /\ InForce \in DOMAIN bundles /\ InForce # None
         /\ \/ /\ renderer.live /\ renderer' = [renderer EXCEPT !.bundle = InForce]
               /\ \E r : /\ r = [Idle EXCEPT !.pc = "configure", !.op = req[t].op, !.cfg = bundles[InForce].cfg]
                         /\ GoesOn(t, r)
            \/ ~ renderer.live /\ renderer' = renderer /\ GoesOn(t, Idle)
<1>1. bundles # << >> /\ req[t].pc = "reload"
  BY DEF RowsInv, Grounded, Reload
<1>2. Active # {}
  BY <1>1 DEF RowsInv, TablesInv, SomethingInForce
<1>3. InForce \in DOMAIN bundles /\ InForce # None
  BY <1>2, InForceIs, RowsAre DEF RowsInv, None
<1> QED
  BY <1>3 DEF Reload

LEMMA ReloadKeeps ==
  ASSUME RowsInv, NEW t \in Threads, Reload(t)
  PROVE  RowsInv'
<1>1. TypeOK /\ UNCHANGED <<tables, worker, untold, clock>> /\ clock \in Nat
  BY DEF RowsInv, Reload, TypeOK
<1>2. Grow /\ TablesInv'
  BY <1>1, TablesStay
<1>3. CASE ~ renderer.live /\ renderer' = renderer /\ GoesOn(t, Idle)
  <2>1. PICK r : r = Idle
    OBVIOUS
  <2>2. Grounded(r)' /\ GoesOn(t, r)
    BY <1>2, <1>3, <2>1, IdleStays
  <2> QED
    BY <1>1, <1>2, <1>3, <2>2, RequestKeeps, GoesOnIs, RendererStays DEF TypeOK
<1>4. CASE /\ renderer.live /\ renderer' = [renderer EXCEPT !.bundle = InForce]
           /\ \E r : /\ r = [Idle EXCEPT !.pc = "configure", !.op = req[t].op, !.cfg = bundles[InForce].cfg]
                     /\ GoesOn(t, r)
  <2>1. PICK r : /\ r = [Idle EXCEPT !.pc = "configure", !.op = req[t].op, !.cfg = bundles[InForce].cfg]
                 /\ GoesOn(t, r)
    BY <1>4
  <2>2. PICK b : b = InForce
    OBVIOUS
  <2>3. b \in DOMAIN bundles /\ b \in Nat
    BY <2>2, ReloadIs, InForceIs
  <2>4. PICK c : c = bundles[b].cfg
    OBVIOUS
  <2>5. c \in DOMAIN configs /\ c # None
    BY <1>1, <2>3, <2>4, RowsAre DEF Bundles, None
  <2>6. PICK o \in Ops : o = req[t].op
    BY <1>1 DEF TypeOK, Requests
  <2>7. r \in Requests /\ r.pc = "configure" /\ r.cfg = c /\ r.at = 0
    <3>1. r = [Idle EXCEPT !.pc = "configure", !.op = o, !.cfg = c]
      BY <2>1, <2>2, <2>4, <2>6
    <3> QED
      BY <2>5, <2>6, <3>1, IdleIs DEF Requests, Pcs
  <2>8. Grounded(r)'
    <3>1. r \in Requests'
      BY <1>2, <2>7 DEF Requests, Grow
    <3> QED
      BY <1>1, <2>5, <2>7, <3>1 DEF Grounded
  <2>9. renderer' \in Renderers /\ renderer'.bundle \in {None} \cup DOMAIN bundles'
    <3>1. renderer \in Renderers /\ renderer' = [renderer EXCEPT !.bundle = b]
      BY <1>1, <1>4, <2>2 DEF TypeOK
    <3>2. renderer' \in Renderers /\ renderer'.bundle = b
      BY <2>3, <3>1 DEF Renderers
    <3> QED
      BY <1>2, <2>3, <3>2 DEF Grow
  <2> QED
    BY <1>1, <1>2, <2>1, <2>8, <2>9, RequestKeeps, GoesOnIs DEF TypeOK
<1> QED
  BY <1>3, <1>4, ReloadIs

\* A renderer that is loaded, and a request that ends with that.
LEMMA LoadKeeps ==
  ASSUME RowsInv, NEW t \in Threads, GoesOn(t, Idle), UNCHANGED <<tables, worker, untold, clock>>,
         renderer' \in Renderers, renderer'.bundle \in {None} \cup DOMAIN bundles
  PROVE  RowsInv'
<1>1. TypeOK /\ clock \in Nat
  BY DEF RowsInv, TypeOK
<1>2. Grow /\ TablesInv'
  BY <1>1, TablesStay
<1>3. PICK r : r = Idle
  OBVIOUS
<1>4. Grounded(r)' /\ GoesOn(t, r)
  BY <1>2, <1>3, IdleStays
<1>5. renderer'.bundle \in {None} \cup DOMAIN bundles'
  BY <1>2 DEF Grow
<1> QED
  BY <1>1, <1>2, <1>4, <1>5, RequestKeeps, GoesOnIs DEF TypeOK

LEMMA PublishKeeps ==
  ASSUME RowsInv, NEW t \in Threads, Publish(t)
  PROVE  RowsInv'
<1>1. req[t] \in Requests /\ req[t].built.bundle \in {None} \cup DOMAIN bundles
  BY DEF RowsInv, TypeOK, Grounded, Publish
<1>2. renderer' \in Renderers /\ renderer'.bundle \in {None} \cup DOMAIN bundles
  BY <1>1 DEF Publish, Requests
<1> QED
  BY <1>2, LoadKeeps DEF Publish

\* What the renderer is left with: the keys that the payload gave before it raised.
LEMMA ConfigureIs ==
  ASSUME RowsInv, NEW t \in Threads, Configure(t)
  PROVE  /\ configs[req[t].cfg] \in Versions /\ renderer' \in Renderers
         /\ renderer'.engine = Configured(renderer.engine, configs[req[t].cfg])
         /\ renderer'.bundle = IF configs[req[t].cfg].bad THEN None ELSE renderer.bundle
         /\ renderer'.live = renderer.live /\ renderer'.warp = renderer.warp
         /\ renderer'.context = renderer.context
<1>1. TypeOK /\ renderer \in Renderers /\ renderer.bundle \in Nat /\ renderer.engine \in Engines
  BY DEF RowsInv, TypeOK, Renderers
<1>2. PICK p : p = configs[req[t].cfg]
  OBVIOUS
<1>3. p \in Versions
  <2>1. req[t].cfg \in DOMAIN configs
    BY DEF RowsInv, TypeOK, Grounded, Requests, Configure
  <2> QED
    BY <1>1, <1>2, <2>1, RowsAre
<1>4. PICK e \in Engines : e = Configured(renderer.engine, p)
  BY <1>1, <1>3, ConfiguredIs
<1>5. PICK b \in Nat : b = IF p.bad THEN None ELSE renderer.bundle
  BY <1>1 DEF None
<1>6. renderer' = [renderer EXCEPT !.engine = e, !.bundle = b]
  BY <1>2, <1>4, <1>5 DEF Configure
<1> QED
  BY <1>1, <1>2, <1>3, <1>4, <1>5, <1>6 DEF Renderers

LEMMA ConfigureKeeps ==
  ASSUME RowsInv, NEW t \in Threads, Configure(t)
  PROVE  RowsInv'
<1>1. renderer.bundle \in {None} \cup DOMAIN bundles
  BY DEF RowsInv, TypeOK
<1>2. renderer' \in Renderers /\ renderer'.bundle \in {None} \cup DOMAIN bundles
  BY <1>1, ConfigureIs
<1> QED
  BY <1>2, LoadKeeps DEF Configure

LEMMA ReloadWarpIs ==
  ASSUME RowsInv, NEW t \in Threads, ReloadWarp(t)
  PROVE  /\ renderer' \in Renderers /\ renderer'.live = renderer.live /\ renderer'.bundle = renderer.bundle
         /\ renderer'.engine = renderer.engine /\ renderer'.context = renderer.context
         /\ renderer.live => renderer'.warp = CalibInForce("perspective")
<1>1. renderer \in Renderers
  BY DEF RowsInv, TypeOK
<1>2. PICK w \in Nat : w = CalibInForce("perspective")
  BY CalibInForceIs
<1>3. renderer' = IF renderer.live THEN [renderer EXCEPT !.warp = w] ELSE renderer
  BY <1>2 DEF ReloadWarp
<1> QED
  BY <1>1, <1>2, <1>3 DEF Renderers

LEMMA ReloadContextIs ==
  ASSUME RowsInv, NEW t \in Threads, ReloadContext(t)
  PROVE  /\ renderer' \in Renderers /\ renderer'.live = renderer.live /\ renderer'.bundle = renderer.bundle
         /\ renderer'.engine = renderer.engine /\ renderer'.warp = renderer.warp
         /\ renderer.live => renderer'.context = registered
<1>1. renderer \in Renderers /\ registered \in SUBSET Context
  BY DEF RowsInv, TypeOK
<1>2. renderer' = IF renderer.live THEN [renderer EXCEPT !.context = registered] ELSE renderer
  BY DEF ReloadContext
<1> QED
  BY <1>1, <1>2 DEF Renderers

LEMMA ReloadsKeep ==
  ASSUME RowsInv, NEW t \in Threads, ReloadWarp(t) \/ ReloadContext(t)
  PROVE  RowsInv'
<1>1. renderer.bundle \in {None} \cup DOMAIN bundles
  BY DEF RowsInv, TypeOK
<1>2. renderer' \in Renderers /\ renderer'.bundle \in {None} \cup DOMAIN bundles
  BY <1>1, ReloadWarpIs, ReloadContextIs
<1> QED
  BY <1>2, LoadKeeps DEF ReloadWarp, ReloadContext

\* The worker.
LEMMA WorkerStepIs ==
  ASSUME RowsInv, WorkerStep
  PROVE  \E b \in DOMAIN bundles, c \in DOMAIN configs, e \in Engines :
           /\ b = InForce /\ c = bundles[b].cfg /\ b # None /\ c # None /\ configs[c] \in Versions
           /\ e = Configured(worker.engine, configs[c])
           /\ worker' = IF c = worker.applied THEN [worker EXCEPT !.bundle = b]
                        ELSE [bundle  |-> b, engine |-> e,
                              applied |-> IF configs[c].bad THEN worker.applied ELSE c,
                              spoiled |-> configs[c].bad]
<1>1. TypeOK /\ InForce # None
  BY DEF RowsInv, WorkerStep
<1>2. PICK b \in DOMAIN bundles : b = InForce
  BY <1>1, InForceIs
<1>3. PICK c \in DOMAIN configs : c = bundles[b].cfg
  BY <1>1, RowsAre DEF Bundles
<1>4. configs[c] \in Versions /\ b # None /\ c # None
  BY <1>1, RowsAre DEF None
<1>5. worker.engine \in Engines
  BY <1>1 DEF TypeOK, Workers
<1>6. PICK e \in Engines : e = Configured(worker.engine, configs[c])
  BY <1>4, <1>5, ConfiguredIs
<1>7. worker' = IF c = worker.applied THEN [worker EXCEPT !.bundle = b]
                ELSE [bundle  |-> b, engine |-> e,
                      applied |-> IF configs[c].bad THEN worker.applied ELSE c,
                      spoiled |-> configs[c].bad]
  BY <1>2, <1>3, <1>6 DEF WorkerStep
<1> QED
  BY <1>2, <1>3, <1>4, <1>6, <1>7

LEMMA WorkerKeeps ==
  ASSUME RowsInv, WorkerStep \/ WorkerRestart
  PROVE  RowsInv'
<1>1. TypeOK /\ UNCHANGED <<tables, started, clock, req, renderer, overlapped, untold>> /\ worker \in Workers
  BY DEF RowsInv, TypeOK, WorkerStep, WorkerRestart
<1>2. worker' \in Workers
  <2>1. CASE WorkerRestart
    BY <2>1, FreshIs DEF WorkerRestart, Started, Workers, None
  <2>2. CASE WorkerStep
    <3>1. PICK b \in DOMAIN bundles, c \in DOMAIN configs, e \in Engines :
           /\ configs[c] \in Versions
           /\ worker' = IF c = worker.applied THEN [worker EXCEPT !.bundle = b]
                        ELSE [bundle  |-> b, engine |-> e,
                              applied |-> IF configs[c].bad THEN worker.applied ELSE c,
                              spoiled |-> configs[c].bad]
      BY <2>2, WorkerStepIs
    <3>2. configs[c].bad \in BOOLEAN
      BY <3>1 DEF Versions
    <3>3. CASE c = worker.applied
      BY <1>1, <3>1, <3>3 DEF Workers
    <3>4. CASE c # worker.applied
      <4>1. worker.applied \in {None} \cup DOMAIN configs
        BY <1>1 DEF Workers
      <4>2. PICK a \in {None} \cup DOMAIN configs : a = IF configs[c].bad THEN worker.applied ELSE c
        BY <4>1
      <4>3. PICK s \in BOOLEAN : s = configs[c].bad
        BY <3>2
      <4>4. worker' = [bundle |-> b, engine |-> e, applied |-> a, spoiled |-> s]
        BY <3>1, <3>4, <4>2, <4>3
      <4> QED
        BY <4>4 DEF Workers
    <3> QED
      BY <3>3, <3>4
  <2> QED
    BY <2>1, <2>2
<1>3. Grow /\ TablesInv'
  BY <1>1, TablesStay DEF TypeOK
<1>4. worker' \in Workers'
  BY <1>1, <1>2 DEF Workers, tables
<1>5. (\A u \in Threads : Grounded(req[u]))'
  <2>1. \A u \in Threads : \A q : q = req[u] => Grounded(q)'
    BY <1>3, GroundedStays DEF RowsInv
  <2> QED
    BY <1>1, <2>1 DEF Grounded
<1>6. TypeOK'
  BY <1>1, <1>3, <1>4 DEF TypeOK, tables, Bundles, Requests
<1> QED
  BY <1>3, <1>5, <1>6 DEF RowsInv

LEMMA RowsInvInit == Init => RowsInv
<1> SUFFICES ASSUME Init PROVE RowsInv
  OBVIOUS
<1>1. /\ configs = << >> /\ bundles = << >> /\ calibs = << >> /\ registered = {} /\ started = 0 /\ clock = 0
      /\ req = [t \in Threads |-> Idle] /\ renderer = Absent /\ worker = Started
      /\ overlapped \in BOOLEAN /\ untold \in BOOLEAN
  BY DEF Init
<1>2. configs \in Seq(Versions) /\ bundles \in Seq(Bundles) /\ calibs \in Seq(Calibrations)
  BY <1>1, EmptySeq
<1>3. worker \in Workers
  BY <1>1, FreshIs DEF Started, Workers, None
<1>4. TablesInv
  <2>1. DOMAIN bundles = {} /\ DOMAIN calibs = {}
    BY <1>1
  <2> QED
    BY <1>1, <1>2, <2>1 DEF TablesInv, SomethingInForce
<1>5. \A t \in Threads : Grounded(req[t])
  <2>1. Grounded(Idle)
    BY <1>1, IdleIs DEF Grounded
  <2> QED
    BY <1>1, <2>1
<1>6. 0 \in 0..MaxRequests
  BY RequestsAssumption
<1>7. TypeOK
  BY <1>1, <1>2, <1>3, <1>6, AbsentIs, IdleIs DEF TypeOK
<1> QED
  BY <1>4, <1>5, <1>7 DEF RowsInv

LEMMA RowsInvNext == RowsInv /\ [Next]_vars => RowsInv'
<1> SUFFICES ASSUME RowsInv, [Next]_vars
             PROVE  RowsInv'
  OBVIOUS
<1>1. ASSUME NEW t \in Threads, Request(t)
      PROVE  RowsInv'
  BY <1>1, CreateConfigKeeps, ActivateKeeps, SetRoiKeeps, CalibrateKeeps, RegisterKeeps, OpenStreamKeeps,
     SeedKeeps DEF Request
<1>2. ASSUME NEW t \in Threads, Handle(t)
      PROVE  RowsInv'
  BY <1>2, StoreRoiKeeps, ReadForRoiKeeps, InsertKeeps, InsertCalibrationKeeps, PublishKeeps, ReloadKeeps,
     ConfigureKeeps, ReloadsKeep DEF Handle
<1>3. CASE WorkerStep \/ WorkerRestart
  BY <1>3, WorkerKeeps
<1>4. CASE UNCHANGED vars
  <2>1. UNCHANGED <<tables, clock, started, req, renderer, worker, overlapped, untold>>
    BY <1>4 DEF vars, copies
  <2>2. TypeOK'
    BY <2>1 DEF RowsInv, TypeOK, tables, Bundles, Workers, Requests
  <2>3. TablesInv'
    BY <2>1 DEF RowsInv, TablesInv, tables, Bundles, SomethingInForce, Active, ActiveIn
  <2>4. (\A t \in Threads : Grounded(req[t]))'
    BY <2>1 DEF RowsInv, Grounded, tables, Requests
  <2> QED
    BY <2>2, <2>3, <2>4 DEF RowsInv
<1> QED
  BY <1>1, <1>2, <1>3, <1>4 DEF Next

LEMMA RowsInvAlways == Spec => []RowsInv
BY RowsInvInit, RowsInvNext, PTL DEF Spec

\* Whatever is posted, activated and reloaded, by however many threads: rows refer
\* to rows that exist, and the copies in the renderer and the worker to bundles
\* that exist (create_and_activate_bundle, reload_active_config, run_step).
THEOREM ConfigTypes == Spec => []TypeOK
<1>1. RowsInv => TypeOK
  BY DEF RowsInv
<1> QED
  BY <1>1, RowsInvAlways, PTL

\* A line that ever had a bundle has one in force at every moment, and so have
\* the stages of its calibration, whatever requests activate at the same time:
\* the old ones go in the commit that brings the new one
\* (create_and_activate_bundle, create_motion_calibration and its siblings).
THEOREM AlwaysInForce == Spec => []SomethingInForce
<1>1. RowsInv => SomethingInForce
  BY DEF RowsInv, TablesInv
<1> QED
  BY <1>1, RowsInvAlways, PTL

-----------------------------------------------------------------------------
(* The worker *)

\* Versions are immutable, and so is what a bundle refers to.
LEMMA RowsAreKept ==
  ASSUME RowsInv, [Next]_vars
  PROVE  /\ \A c \in DOMAIN configs : c \in DOMAIN configs' /\ configs'[c] = configs[c]
         /\ \A b \in DOMAIN bundles : /\ b \in DOMAIN bundles' /\ bundles'[b].cfg = bundles[b].cfg
                                      /\ bundles'[b].at = bundles[b].at
<1>0. TypeOK
  BY DEF RowsInv
<1>1. ASSUME NEW p, configs' = Append(configs, p)
      PROVE  \A c \in DOMAIN configs : c \in DOMAIN configs' /\ configs'[c] = configs[c]
  BY <1>0, <1>1, AppendIs DEF TypeOK
<1>2. CASE \E t \in Threads, p \in Payloads : CreateConfig(t, p)
  BY <1>1, <1>2 DEF CreateConfig
<1>3. CASE \E t \in Threads : StoreRoi(t)
  BY <1>1, <1>3 DEF StoreRoi
<1>4. CASE \E t \in Threads : Seed(t)
  <2>1. UNCHANGED bundles
    BY <1>4 DEF Seed
  <2>2. configs # << >> => configs' = configs
    BY <1>4 DEF Seed
  <2>3. configs = << >> => DOMAIN configs = {}
    OBVIOUS
  <2> QED
    BY <2>1, <2>2, <2>3
<1>5. CASE \E t \in Threads : Insert(t)
  <2>1. UNCHANGED configs
    BY <1>5 DEF Insert
  <2> QED
    BY <1>5, <2>1, InsertIs
<1>6. CASE \E t \in Threads :
             \/ \E c \in DOMAIN configs : Activate(t, c)
             \/ \E roi \in Rois : SetRoi(t, roi)
             \/ \E s \in Stages : Calibrate(t, s)
             \/ \E k \in Context : Register(t, k)
             \/ OpenStream(t) \/ ReadForRoi(t) \/ InsertCalibration(t)
  BY <1>6 DEF Activate, SetRoi, Calibrate, Register, OpenStream, ReadForRoi, InsertCalibration, tables
<1>7. CASE \/ \E t \in Threads : Publish(t) \/ Reload(t) \/ Configure(t) \/ ReloadWarp(t) \/ ReloadContext(t)
           \/ WorkerStep \/ WorkerRestart \/ UNCHANGED vars
  <2>1. UNCHANGED tables
    BY <1>7 DEF Publish, Reload, Configure, ReloadWarp, ReloadContext, WorkerStep, WorkerRestart, vars
  <2> QED
    BY <2>1 DEF tables
<1> QED
  BY <1>2, <1>3, <1>4, <1>5, <1>6, <1>7 DEF Next, Request, Handle

LEMMA RequestsLeaveWorker ==
  ASSUME [Next]_vars
  PROVE  WorkerStep \/ WorkerRestart \/ UNCHANGED worker
<1>1. ASSUME NEW t \in Threads, Request(t)
      PROVE  UNCHANGED worker
  BY <1>1 DEF Request, CreateConfig, Activate, SetRoi, Calibrate, Register, OpenStream, Seed, copies
<1>2. ASSUME NEW t \in Threads, Handle(t)
      PROVE  UNCHANGED worker
  BY <1>2 DEF Handle, StoreRoi, ReadForRoi, Insert, InsertCalibration, Publish, Reload, Configure,
     ReloadWarp, ReloadContext, copies
<1>3. CASE UNCHANGED vars
  BY <1>3 DEF vars, copies
<1> QED
  BY <1>1, <1>2, <1>3 DEF Next

LEMMA WorkerInvNext == RowsInv /\ WorkerInv /\ [Next]_vars => WorkerInv'
<1> SUFFICES ASSUME RowsInv, WorkerInv, [Next]_vars
             PROVE  WorkerInv'
  OBVIOUS
<1>0. /\ worker \in Workers /\ worker.bundle \in {None} \cup DOMAIN bundles
      /\ worker.applied \in {None} \cup DOMAIN configs /\ worker.engine \in Engines
  BY DEF RowsInv, TypeOK, Workers
<1>1. CASE UNCHANGED worker
  BY <1>0, <1>1, RowsAreKept DEF WorkerInv, Configured
<1>2. CASE WorkerRestart
  BY <1>2 DEF WorkerRestart, Started, WorkerInv, None
<1>3. CASE WorkerStep
  <2>1. PICK b \in DOMAIN bundles, c \in DOMAIN configs, e \in Engines :
           /\ c = bundles[b].cfg /\ c # None /\ configs[c] \in Versions
           /\ e = Configured(worker.engine, configs[c])
           /\ worker' = IF c = worker.applied THEN [worker EXCEPT !.bundle = b]
                        ELSE [bundle  |-> b, engine |-> e,
                              applied |-> IF configs[c].bad THEN worker.applied ELSE c,
                              spoiled |-> configs[c].bad]
    BY <1>3, WorkerStepIs
  <2>2. configs' = configs /\ bundles' = bundles
    BY <1>3 DEF WorkerStep, tables
  <2>3. CASE c = worker.applied
    <3>1. /\ worker'.bundle = b /\ worker'.applied = worker.applied /\ worker'.engine = worker.engine
          /\ worker'.spoiled = worker.spoiled
      BY <1>0, <2>1, <2>3 DEF Workers
    <3> QED
      BY <2>1, <2>2, <2>3, <3>1 DEF WorkerInv, Configured
  <2>4. CASE c # worker.applied
    <3>1. /\ worker'.bundle = b /\ worker'.engine = e /\ worker'.spoiled = configs[c].bad
          /\ ~ configs[c].bad => worker'.applied = c
      BY <2>1, <2>4
    <3>2. Configured(e, configs[c]) = e
      BY <1>0, <2>1, ConfiguredIs
    <3> QED
      BY <2>1, <2>2, <3>1, <3>2 DEF WorkerInv, Configured
  <2> QED
    BY <2>3, <2>4
<1> QED
  BY <1>1, <1>2, <1>3, RequestsLeaveWorker

\* What the worker stamps on a crossing is the bundle whose payload its engine
\* runs with, however often requests change the bundle in force between two
\* batches and whenever the worker is restarted, unless the last payload that it
\* met raised half-way (InferenceWorker.run_step, CountingEngine.configure).
THEOREM WorkerStampsWhatItRuns == Spec => []WorkerRunsWhatItStamps
<1>1. Init => WorkerInv
  BY DEF Init, WorkerInv, Started, None
<1>2. RowsInv /\ WorkerInv => WorkerRunsWhatItStamps
  BY DEF WorkerInv, WorkerRunsWhatItStamps, Payload
<1> QED
  BY <1>1, <1>2, RowsInvInit, RowsInvNext, WorkerInvNext, PTL DEF Spec

-----------------------------------------------------------------------------
(* Requests one after the other *)

\* A request that begins found all threads idle, if none overlaps.
LEMMA BeginsAlone ==
  ASSUME RowsInv, SequentialInv, NEW t \in Threads, NEW q, Begins(t, q), ~ overlapped'
  PROVE  /\ OneInForce /\ \E r : r.pc = "idle" /\ HasTold(r)
         /\ \A p : p = q => Alone(p)' /\ p \in {req'[u] : u \in Threads}
<1>1. ~ overlapped /\ \A u \in Threads : req[u].pc = "idle"
  BY DEF Begins
<1>2. req \in [Threads -> Requests] /\ req' = [req EXCEPT ![t] = q]
  BY DEF Begins, RowsInv, TypeOK
<1>3. PICK r : Alone(r) /\ HasTold(r)
  BY <1>1 DEF SequentialInv
<1>4. r.pc = "idle"
  BY <1>1, <1>3, IdleIs DEF Alone
<1>5. OneInForce
  BY <1>1 DEF SequentialInv
<1>6. req'[t] = q /\ \A u \in Threads \ {t} : req'[u].pc = "idle"
  BY <1>1, <1>2
<1>7. \A p : p = q => Alone(p)' /\ p \in {req'[u] : u \in Threads}
  BY <1>6 DEF Alone
<1> QED
  BY <1>3, <1>4, <1>5, <1>7

\* A request that goes on is the only one that is on its way.
LEMMA GoesOnAlone ==
  ASSUME RowsInv, SequentialInv, NEW t \in Threads, NEW q, GoesOn(t, q), req[t].pc # "idle", ~ overlapped'
  PROVE  /\ OneInForce /\ HasRead(req[t]) /\ HasTold(req[t])
         /\ \A p : p = q => Alone(p)' /\ p \in {req'[u] : u \in Threads}
<1>1. ~ overlapped
  BY DEF GoesOn
<1>2. req \in [Threads -> Requests] /\ req' = [req EXCEPT ![t] = q]
  BY DEF GoesOn, RowsInv, TypeOK
<1>3. OneInForce /\ \E r : Alone(r) /\ HasRead(r) /\ HasTold(r)
  BY <1>1 DEF SequentialInv
<1>4. PICK r : Alone(r) /\ HasRead(r) /\ HasTold(r)
  BY <1>3
<1>5. r = req[t] /\ \A u \in Threads \ {t} : req[u].pc = "idle"
  BY <1>4 DEF Alone, Quiet
<1>6. req'[t] = q /\ \A u \in Threads \ {t} : req'[u].pc = "idle"
  BY <1>2, <1>5
<1>7. \A p : p = q => Alone(p)' /\ p \in {req'[u] : u \in Threads}
  BY <1>6 DEF Alone
<1> QED
  BY <1>3, <1>4, <1>5, <1>7

\* What is in force is a matter of the tables.
LEMMA SameInForce ==
  ASSUME RowsInv, UNCHANGED bundles, \A c \in DOMAIN configs : configs'[c] = configs[c]
  PROVE  /\ Active' = Active /\ InForce' = InForce
         /\ InForce # None => Payload(InForce)' = Payload(InForce)
         /\ UNCHANGED renderer => (HasBundle <=> HasBundle')
<1>1. Active' = Active /\ InForce' = InForce
  BY DEF Active, InForce, Latest
<1>2. InForce # None => Payload(InForce)' = Payload(InForce)
  <2>1. ASSUME InForce # None PROVE bundles[InForce].cfg \in DOMAIN configs
    BY <2>1, InForceIs, RowsAre DEF RowsInv, Bundles
  <2> QED
    BY <1>1, <2>1 DEF Payload
<1> QED
  BY <1>1, <1>2 DEF HasBundle, Configured

LEMMA SameCalibInForce ==
  ASSUME UNCHANGED calibs, NEW s
  PROVE  ActiveIn(s)' = ActiveIn(s) /\ CalibInForce(s)' = CalibInForce(s)
BY DEF ActiveIn, CalibInForce, Latest

LEMMA SameConstructed ==
  ASSUME RowsInv, UNCHANGED tables
  PROVE  Constructed' = Constructed /\ OneInForce' = OneInForce
<1>1. UNCHANGED <<configs, bundles, calibs, registered>>
  BY DEF tables
<1>2. /\ Active' = Active /\ InForce' = InForce
      /\ InForce # None => Payload(InForce)' = Payload(InForce)
      /\ CalibInForce("perspective")' = CalibInForce("perspective") /\ \A s : ActiveIn(s)' = ActiveIn(s)
  BY <1>1, SameInForce, SameCalibInForce
<1> QED
  BY <1>1 DEF Constructed, InForce, Latest, Active, Payload, Configured, CalibInForce, ActiveIn, OneInForce

LEMMA SequentialFrom ==
  ASSUME NEW r, OneInForce', Alone(r)', r \in {req'[u] : u \in Threads}, HasRead(r)', HasTold(r)'
  PROVE  SequentialInv'
<1>1. (r \in {Idle} \cup {req[t] : t \in Threads})'
  OBVIOUS
<1> QED
  BY <1>1 DEF SequentialInv

\* A request that reads rows begins.
LEMMA ReadingKeeps ==
  ASSUME RowsInv, SequentialInv, NEW t \in Threads, NEW q, Begins(t, q), UNCHANGED <<tables, copies, untold>>,
         q.op # "seed", q.pc \notin {"reload", "configure", "warp", "context"}, HasRead(q)
  PROVE  SequentialInv'
<1>1. CASE overlapped'
  BY <1>1 DEF SequentialInv
<1>2. CASE ~ overlapped'
  <2>1. OneInForce /\ \A p : p = q => Alone(p)' /\ p \in {req'[u] : u \in Threads}
    BY <1>2, BeginsAlone
  <2>2. PICK r : r.pc = "idle" /\ HasTold(r)
    BY <1>2, BeginsAlone
  <2>3. /\ Constructed' = Constructed /\ OneInForce' = OneInForce /\ UNCHANGED <<renderer, untold, registered>>
        /\ Active' = Active /\ \A s : ActiveIn(s)' = ActiveIn(s)
        /\ CalibInForce("perspective")' = CalibInForce("perspective") /\ (HasBundle <=> HasBundle')
    BY SameConstructed, SameInForce, SameCalibInForce DEF tables, copies
  <2>4. HasRead(q)'
    BY <2>3 DEF HasRead
  <2>5. HasTold(q)'
    BY <2>2, <2>3 DEF HasTold
  <2>6. OneInForce' /\ Alone(q)' /\ q \in {req'[u] : u \in Threads}
    BY <2>1, <2>3
  <2> QED
    BY <2>4, <2>5, <2>6, SequentialFrom
<1> QED
  BY <1>1, <1>2

LEMMA ReadingsKeep ==
  ASSUME RowsInv, SequentialInv, NEW t \in Threads,
         \/ \E c \in DOMAIN configs : Activate(t, c)
         \/ \E roi \in Rois : SetRoi(t, roi)
         \/ \E s \in Stages : Calibrate(t, s)
         \/ OpenStream(t)
  PROVE  SequentialInv'
<1>1. ASSUME NEW c \in DOMAIN configs, Activate(t, c) PROVE SequentialInv'
  <2>1. PICK i : i = [Idle EXCEPT !.op = "activate", !.cfg = c]
    OBVIOUS
  <2>2. PICK q : q = ReadActive(i)
    OBVIOUS
  <2>3. i \in Requests /\ i.op = "activate"
    BY <2>1, IdleIs DEF Requests, Ops
  <2>4. q.op = "activate" /\ q.pc = "insert" /\ HasRead(q)
    BY <2>2, <2>3, ReadActiveIs DEF RowsInv, HasRead
  <2>5. Begins(t, q) /\ UNCHANGED <<tables, copies, untold>>
    BY <1>1, <2>1, <2>2 DEF Activate
  <2> QED
    BY <2>4, <2>5, ReadingKeeps
<1>2. ASSUME NEW roi \in Rois, SetRoi(t, roi) PROVE SequentialInv'
  <2>1. PICK q : q = [Idle EXCEPT !.pc = "store", !.op = "roi", !.cfg = bundles[InForce].cfg, !.roi = roi]
    OBVIOUS
  <2>2. q.op = "roi" /\ q.pc = "store"
    BY <2>1, IdleIs DEF Idle
  <2>3. Begins(t, q) /\ UNCHANGED <<tables, copies, untold>> /\ HasRead(q)
    BY <1>2, <2>1, <2>2 DEF SetRoi, HasRead
  <2> QED
    BY <2>2, <2>3, ReadingKeeps
<1>3. ASSUME NEW s \in Stages, Calibrate(t, s) PROVE SequentialInv'
  <2>1. PICK q : q = [Idle EXCEPT !.pc = "calibrate", !.op = "calibrate", !.stage = s,
                                  !.prev = ActiveIn(s), !.at = Now]
    OBVIOUS
  <2>2. q.op = "calibrate" /\ q.pc = "calibrate" /\ q.stage = s /\ q.prev = ActiveIn(s)
    BY <2>1 DEF Idle
  <2>3. Begins(t, q) /\ UNCHANGED <<tables, copies, untold>> /\ HasRead(q)
    BY <1>3, <2>1, <2>2 DEF Calibrate, HasRead
  <2> QED
    BY <2>2, <2>3, ReadingKeeps
<1>4. ASSUME OpenStream(t) PROVE SequentialInv'
  <2>1. PICK q : q = [Idle EXCEPT !.pc = "publish", !.op = "open", !.built = Constructed]
    OBVIOUS
  <2>2. q.op = "open" /\ q.pc = "publish" /\ q.built = Constructed
    BY <2>1 DEF Idle
  <2>3. Begins(t, q) /\ UNCHANGED <<tables, copies, untold>> /\ HasRead(q)
    BY <1>4, <2>1, <2>2 DEF OpenStream, HasRead
  <2> QED
    BY <2>2, <2>3, ReadingKeeps
<1> QED
  BY <1>1, <1>2, <1>3, <1>4

LEMMA CreateKeepsOrder ==
  ASSUME RowsInv, SequentialInv, NEW t \in Threads,
         (\E p \in Payloads : CreateConfig(t, p)) \/ (\E k \in Context : Register(t, k))
  PROVE  SequentialInv'
<1>1. CASE overlapped'
  BY <1>1 DEF SequentialInv
<1>2. ASSUME ~ overlapped', NEW p \in Payloads, CreateConfig(t, p) PROVE SequentialInv'
  <2>0. PICK q : q = Idle
    OBVIOUS
  <2>1. Begins(t, q) /\ configs' = Append(configs, p) /\ UNCHANGED <<bundles, calibs, registered, renderer, untold>>
    BY <1>2, <2>0 DEF CreateConfig, copies
  <2>2. OneInForce /\ \A x : x = q => Alone(x)' /\ x \in {req'[u] : u \in Threads}
    BY <1>2, <2>1, BeginsAlone
  <2>3. PICK r : r.pc = "idle" /\ HasTold(r)
    BY <1>2, <2>1, BeginsAlone
  <2>4. \A c \in DOMAIN configs : configs'[c] = configs[c]
    BY <2>1, AppendIs DEF RowsInv, TypeOK
  <2>5. /\ Active' = Active /\ (HasBundle <=> HasBundle') /\ \A s : ActiveIn(s)' = ActiveIn(s)
        /\ CalibInForce("perspective")' = CalibInForce("perspective")
    BY <2>1, <2>4, SameInForce, SameCalibInForce
  <2>6. HasRead(q)' /\ HasTold(q)'
    BY <2>0, <2>1, <2>3, <2>5, IdleIs DEF HasRead, HasTold
  <2>7. OneInForce' /\ Alone(q)' /\ q \in {req'[u] : u \in Threads}
    BY <2>2, <2>5 DEF OneInForce
  <2> QED
    BY <2>6, <2>7, SequentialFrom
<1>3. ASSUME ~ overlapped', NEW k \in Context, Register(t, k) PROVE SequentialInv'
  <2>0. PICK q : q = [Idle EXCEPT !.pc = "context", !.op = "register"]
    OBVIOUS
  <2>1. Begins(t, q) /\ UNCHANGED <<configs, bundles, calibs, renderer, untold>>
    BY <1>3, <2>0 DEF Register, copies
  <2>2. OneInForce /\ \A x : x = q => Alone(x)' /\ x \in {req'[u] : u \in Threads}
    BY <1>3, <2>1, BeginsAlone
  <2>3. PICK r : r.pc = "idle" /\ HasTold(r)
    BY <1>3, <2>1, BeginsAlone
  <2>4. /\ Active' = Active /\ (HasBundle <=> HasBundle') /\ \A s : ActiveIn(s)' = ActiveIn(s)
        /\ CalibInForce("perspective")' = CalibInForce("perspective")
    BY <2>1, SameInForce, SameCalibInForce
  <2>5. q.pc = "context"
    BY <2>0 DEF Idle
  <2>6. HasRead(q)' /\ HasTold(q)'
    BY <2>1, <2>3, <2>4, <2>5 DEF HasRead, HasTold
  <2>7. OneInForce' /\ Alone(q)' /\ q \in {req'[u] : u \in Threads}
    BY <2>2, <2>4 DEF OneInForce
  <2> QED
    BY <2>6, <2>7, SequentialFrom
<1> QED
  BY <1>1, <1>2, <1>3

\* A seed tells no renderer of the bundle that it brings.
LEMMA SeedKeepsOrder ==
  ASSUME RowsInv, SequentialInv, NEW t \in Threads, Seed(t)
  PROVE  SequentialInv'
<1>1. CASE overlapped'
  BY <1>1 DEF SequentialInv
<1>2. CASE ~ overlapped'
  <2>1. PICK c, q : Begins(t, q) /\ q = [Idle EXCEPT !.pc = "insert", !.op = "seed", !.cfg = c, !.at = clock + 1]
    BY SeedIs, Zenon
  <2>2. Active = {} /\ untold' = (untold \/ renderer.live) /\ UNCHANGED <<bundles, calibs, renderer>>
    BY DEF Seed, copies
  <2>3. OneInForce /\ \A x : x = q => Alone(x)' /\ x \in {req'[u] : u \in Threads}
    BY <1>2, <2>1, BeginsAlone
  <2>4. q.pc = "insert" /\ q.prev = {}
    BY <2>1 DEF Idle
  <2>5. Active' = Active /\ \A s : ActiveIn(s)' = ActiveIn(s)
    BY <2>2 DEF Active, ActiveIn
  <2>6. HasRead(q)' /\ HasTold(q)'
    BY <2>2, <2>4, <2>5 DEF HasRead, HasTold
  <2>7. OneInForce' /\ Alone(q)' /\ q \in {req'[u] : u \in Threads}
    BY <2>3, <2>5 DEF OneInForce
  <2> QED
    BY <2>6, <2>7, SequentialFrom
<1> QED
  BY <1>1, <1>2

LEMMA RoiKeepsOrder ==
  ASSUME RowsInv, SequentialInv, NEW t \in Threads, StoreRoi(t) \/ ReadForRoi(t)
  PROVE  SequentialInv'
<1>0. PICK m : m = req[t]
  OBVIOUS
<1>1. m \in Requests
  BY <1>0 DEF RowsInv, TypeOK
<1>2. CASE overlapped'
  BY <1>2 DEF SequentialInv
<1>3. ASSUME ~ overlapped', StoreRoi(t) PROVE SequentialInv'
  <2>1. PICK q : q = [m EXCEPT !.pc = "read", !.cfg = Len(configs')]
    OBVIOUS
  <2>2. /\ GoesOn(t, q) /\ m.pc = "store" /\ UNCHANGED <<bundles, calibs, registered, renderer, untold>>
        /\ \E v : configs' = Append(configs, v)
    BY <1>0, <1>3, <2>1 DEF StoreRoi, copies
  <2>3. q.pc = "read" /\ q.op = m.op
    BY <1>1, <2>1 DEF Requests
  <2>4. OneInForce /\ HasTold(m) /\ \A x : x = q => Alone(x)' /\ x \in {req'[u] : u \in Threads}
    BY <1>0, <1>3, <2>2, GoesOnAlone
  <2>5. \A c \in DOMAIN configs : configs'[c] = configs[c]
    BY <2>2, AppendIs DEF RowsInv, TypeOK
  <2>6. /\ Active' = Active /\ (HasBundle <=> HasBundle') /\ \A s : ActiveIn(s)' = ActiveIn(s)
        /\ CalibInForce("perspective")' = CalibInForce("perspective")
    BY <2>2, <2>5, SameInForce, SameCalibInForce
  <2>7. HasRead(q)' /\ HasTold(q)'
    BY <2>2, <2>3, <2>4, <2>6 DEF HasRead, HasTold
  <2>8. OneInForce' /\ Alone(q)' /\ q \in {req'[u] : u \in Threads}
    BY <2>4, <2>6 DEF OneInForce
  <2> QED
    BY <2>7, <2>8, SequentialFrom
<1>4. ASSUME ~ overlapped', ReadForRoi(t) PROVE SequentialInv'
  <2>1. PICK q : q = ReadActive(m)
    OBVIOUS
  <2>2. GoesOn(t, q) /\ m.pc = "read" /\ UNCHANGED <<tables, copies, untold>>
    BY <1>0, <1>4, <2>1 DEF ReadForRoi
  <2>3. q.pc = "insert" /\ q.op = m.op /\ q.prev = Active
    BY <1>1, <2>1, ReadActiveIs DEF RowsInv
  <2>4. OneInForce /\ HasTold(m) /\ \A x : x = q => Alone(x)' /\ x \in {req'[u] : u \in Threads}
    BY <1>0, <1>4, <2>2, GoesOnAlone
  <2>5. UNCHANGED <<configs, bundles, calibs, registered, renderer, untold>>
    BY <2>2 DEF tables, copies
  <2>6. /\ Active' = Active /\ (HasBundle <=> HasBundle') /\ \A s : ActiveIn(s)' = ActiveIn(s)
        /\ CalibInForce("perspective")' = CalibInForce("perspective")
    BY <2>5, SameInForce, SameCalibInForce
  <2>7. HasRead(q)' /\ HasTold(q)'
    BY <2>2, <2>3, <2>4, <2>5, <2>6 DEF HasRead, HasTold
  <2>8. OneInForce' /\ Alone(q)' /\ q \in {req'[u] : u \in Threads}
    BY <2>4, <2>6 DEF OneInForce
  <2> QED
    BY <2>7, <2>8, SequentialFrom
<1> QED
  BY <1>2, <1>3, <1>4

\* The bundles that were read as active are all that are active.
LEMMA InsertKeepsOrder ==
  ASSUME RowsInv, SequentialInv, NEW t \in Threads, Insert(t)
  PROVE  SequentialInv'
<1>0. PICK m : m = req[t]
  OBVIOUS
<1>a. PICK q : q = IF m.op = "seed" THEN Idle ELSE [m EXCEPT !.pc = "reload"]
  OBVIOUS
<1>1. m \in Requests
  BY <1>0 DEF RowsInv, TypeOK
<1>2. CASE overlapped'
  BY <1>2 DEF SequentialInv
<1>3. CASE ~ overlapped'
  <2>1. GoesOn(t, q) /\ m.pc = "insert" /\ UNCHANGED <<calibs, registered, renderer, untold>>
    BY <1>0, <1>a DEF Insert, copies
  <2>2. /\ OneInForce /\ HasRead(m) /\ HasTold(m)
        /\ \A x : x = q => Alone(x)' /\ x \in {req'[u] : u \in Threads}
    BY <1>0, <1>3, <2>1, GoesOnAlone
  <2>3. Active' = {Len(bundles) + 1}
    BY <1>0, <2>1, <2>2, InsertIs DEF HasRead
  <2>4. (\A s : ActiveIn(s)' = ActiveIn(s)) /\ CalibInForce("perspective")' = CalibInForce("perspective")
    BY <2>1, SameCalibInForce
  <2>5. HasRead(q)' /\ HasTold(q)'
    <3>1. CASE m.op = "seed"
      <4>1. q.pc = "idle" /\ (renderer.live => untold)
        BY <1>a, <2>1, <2>2, <3>1, IdleIs DEF HasTold
      <4> QED
        BY <2>1, <4>1 DEF HasRead, HasTold
    <3>2. CASE m.op # "seed"
      <4>1. q.pc = "reload"
        BY <1>1, <1>a, <3>2 DEF Requests
      <4> QED
        BY <2>1, <2>2, <2>4, <4>1 DEF HasRead, HasTold
    <3> QED
      BY <3>1, <3>2
  <2>6. OneInForce' /\ Alone(q)' /\ q \in {req'[u] : u \in Threads}
    BY <2>2, <2>3, <2>4 DEF OneInForce
  <2> QED
    BY <2>5, <2>6, SequentialFrom
<1> QED
  BY <1>2, <1>3

\* A new calibration takes the place of the one of its stage; other stages keep theirs.
LEMMA InsertCalibrationKeepsOrder ==
  ASSUME RowsInv, SequentialInv, NEW t \in Threads, InsertCalibration(t)
  PROVE  SequentialInv'
<1>0. PICK m : m = req[t]
  OBVIOUS
<1>a. PICK q : q = IF m.stage = "perspective" THEN [m EXCEPT !.pc = "warp"] ELSE Idle
  OBVIOUS
<1>1. m \in Requests /\ m.pc = "calibrate" /\ Grounded(m)
  BY <1>0 DEF RowsInv, TypeOK, InsertCalibration
<1>2. CASE overlapped'
  BY <1>2 DEF SequentialInv
<1>3. CASE ~ overlapped'
  <2>1. GoesOn(t, q) /\ UNCHANGED <<configs, bundles, registered, renderer, untold>>
    BY <1>0, <1>a DEF InsertCalibration, copies
  <2>2. /\ OneInForce /\ HasRead(m) /\ HasTold(m)
        /\ \A x : x = q => Alone(x)' /\ x \in {req'[u] : u \in Threads}
    BY <1>0, <1>1, <1>3, <2>1, GoesOnAlone
  <2>3. PICK n : n = Len(calibs) + 1
    OBVIOUS
  <2>4. /\ DOMAIN calibs' = DOMAIN calibs \cup {n} /\ n \notin DOMAIN calibs
        /\ \A c \in DOMAIN calibs : /\ calibs'[c].stage = calibs[c].stage /\ calibs'[c].at = calibs[c].at
                                    /\ calibs'[c].active <=> calibs[c].active /\ c \notin m.prev
        /\ calibs'[n].stage = m.stage /\ calibs'[n].active
    BY <1>0, <2>3, InsertCalibrationIs
  <2>5. m.prev = ActiveIn(m.stage)
    BY <1>1, <2>2 DEF HasRead
  <2>b. \A c \in DOMAIN calibs : calibs'[c].stage = calibs[c].stage /\ calibs'[c].at = calibs[c].at
    BY <2>4
  <2>c. /\ DOMAIN calibs' = DOMAIN calibs \cup {n} /\ n \notin DOMAIN calibs
        /\ calibs'[n].stage = m.stage
    BY <2>4
  <2>a. \A c \in DOMAIN calibs : c \in m.prev <=> calibs[c].stage = m.stage /\ calibs[c].active
    BY <2>5 DEF ActiveIn
  <2>6. ActiveIn(m.stage)' = {n}
    <3>1. \A c \in DOMAIN calibs' : (calibs'[c].stage = m.stage /\ calibs'[c].active) <=> c = n
      <4>1. ASSUME NEW c \in DOMAIN calibs PROVE ~ (calibs'[c].stage = m.stage /\ calibs'[c].active) /\ c # n
        <5>1. calibs'[c].active <=> calibs[c].active /\ c \notin m.prev
          BY <2>4
        <5>2. calibs'[c].stage = calibs[c].stage
          BY <2>b
        <5>3. c \in m.prev <=> calibs[c].stage = m.stage /\ calibs[c].active
          BY <2>a
        <5> QED
          BY <2>c, <5>1, <5>2, <5>3, Zenon
      <4> QED
        BY <2>4, <4>1, Zenon
    <3>2. {c \in DOMAIN calibs' : calibs'[c].stage = m.stage /\ calibs'[c].active} = {n}
      BY <2>4, <3>1
    <3> QED
      BY <3>2 DEF ActiveIn
  <2>7. \A s : s # m.stage => ActiveIn(s)' = ActiveIn(s)
    <3>1. ASSUME NEW s, s # m.stage
          PROVE  {c \in DOMAIN calibs' : calibs'[c].stage = s /\ calibs'[c].active} = ActiveIn(s)
      <4>1. \A c \in DOMAIN calibs : (calibs'[c].stage = s /\ calibs'[c].active) <=>
                                     (calibs[c].stage = s /\ calibs[c].active)
        <5>1. ASSUME NEW c \in DOMAIN calibs
              PROVE  (calibs'[c].stage = s /\ calibs'[c].active) <=> (calibs[c].stage = s /\ calibs[c].active)
          <6>1. calibs'[c].active <=> calibs[c].active /\ c \notin m.prev
            BY <2>4
          <6>2. calibs'[c].stage = calibs[c].stage
            BY <2>b
          <6>3. c \in m.prev <=> calibs[c].stage = m.stage /\ calibs[c].active
            BY <2>a
          <6> QED
            BY <3>1, <6>1, <6>2, <6>3, Zenon
        <5> QED
          BY <5>1
      <4>2. \A c \in DOMAIN calibs' : (calibs'[c].stage = s /\ calibs'[c].active) <=>
                  (c \in DOMAIN calibs /\ calibs[c].stage = s /\ calibs[c].active)
        BY <2>4, <3>1, <4>1
      <4>3. DOMAIN calibs \subseteq DOMAIN calibs'
        BY <2>4
      <4> QED
        BY <4>2, <4>3 DEF ActiveIn
    <3> QED
      BY <3>1 DEF ActiveIn
  <2>8. m.stage # "perspective" => CalibInForce("perspective")' = CalibInForce("perspective")
    <3>1. PICK S : S = ActiveIn("perspective")
      OBVIOUS
    <3>2. \A c \in S : calibs'[c].at = calibs[c].at /\ calibs[c].at \in Nat /\ calibs[c].stage = "perspective"
                      /\ calibs[c].stage \in Stages
      <4>1. \A c \in S : c \in DOMAIN calibs /\ calibs[c].stage = "perspective"
        BY <3>1 DEF ActiveIn
      <4>2. \A c \in DOMAIN calibs : calibs[c].at \in Nat /\ calibs[c].stage \in Stages
        BY RowsAre DEF RowsInv, Calibrations
      <4> QED
        BY <2>b, <4>1, <4>2
    <3>3. \A a, b \in S : a = b
      BY <2>2, <3>1, <3>2 DEF OneInForce
    <3>4. Latest(calibs', S) = Latest(calibs, S)
      <4>1. CASE S = {}
        BY <4>1 DEF Latest
      <4>2. ASSUME NEW x \in S PROVE Latest(calibs', S) = x /\ Latest(calibs, S) = x
        <5>1. (\A y \in S : y = x) /\ calibs[x].at \in Nat
          BY <3>2, <3>3
        <5>2. calibs'[x].at \in Nat
          BY <3>2, <5>1
        <5>3. Latest(calibs, S) = x
          BY <5>1, OnlyOneIsLatest
        <5>4. \A table : table[x].at \in Nat => Latest(table, S) = x
          BY <5>1, OnlyOneIsLatest
        <5> QED
          BY <5>2, <5>3, <5>4
      <4> QED
        BY <4>1, <4>2
    <3>5. CalibInForce("perspective") = Latest(calibs, S)
      BY <3>1 DEF CalibInForce
    <3>6. ASSUME m.stage # "perspective" PROVE CalibInForce("perspective")' = Latest(calibs', S)
      <4>1. ActiveIn("perspective")' = S
        BY <2>7, <3>1, <3>6
      <4> QED
        BY <4>1 DEF CalibInForce
    <3> QED
      BY <3>4, <3>5, <3>6
  <2>9. \A c \in DOMAIN configs : configs'[c] = configs[c]
    BY <2>1
  <2>10. Active' = Active /\ (HasBundle <=> HasBundle')
    BY <2>1, <2>9, SameInForce
  <2>11. HasRead(q)' /\ HasTold(q)'
    <3>1. CASE m.stage = "perspective"
      <4>1. q.pc = "warp"
        BY <1>1, <1>a, <3>1 DEF Requests
      <4> QED
        BY <1>1, <2>1, <2>2, <2>10, <4>1 DEF HasRead, HasTold
    <3>2. CASE m.stage # "perspective"
      <4>1. q.pc = "idle"
        BY <1>a, <3>2, IdleIs
      <4> QED
        BY <1>1, <2>1, <2>2, <2>8, <2>10, <3>2, <4>1 DEF HasRead, HasTold
    <3> QED
      BY <3>1, <3>2
  <2>12. OneInForce'
    <3>1. \A s \in Stages : \A a, b \in ActiveIn(s)' : a = b
      BY <2>2, <2>6, <2>7 DEF OneInForce
    <3> QED
      BY <2>2, <2>10, <3>1 DEF OneInForce
  <2>13. Alone(q)' /\ q \in {req'[u] : u \in Threads}
    BY <2>2
  <2> QED
    BY <2>11, <2>12, <2>13, SequentialFrom
<1> QED
  BY <1>2, <1>3

\* A request that only loads the renderer, and goes on as q.
LEMMA LoadKeepsOrder ==
  ASSUME RowsInv, SequentialInv, NEW t \in Threads, NEW q, GoesOn(t, q), req[t].pc # "idle",
         UNCHANGED <<tables, untold>>, q.pc \in {"idle", "configure"},
         OneInForce /\ HasRead(req[t]) /\ HasTold(req[t]) => HasTold(q)'
  PROVE  SequentialInv'
<1>1. CASE overlapped'
  BY <1>1 DEF SequentialInv
<1>2. CASE ~ overlapped'
  <2>1. /\ OneInForce /\ HasRead(req[t]) /\ HasTold(req[t])
        /\ \A x : x = q => Alone(x)' /\ x \in {req'[u] : u \in Threads}
    BY <1>2, GoesOnAlone
  <2>2. HasRead(q)'
    BY DEF HasRead
  <2>3. OneInForce' = OneInForce
    BY SameConstructed
  <2>4. OneInForce' /\ Alone(q)' /\ q \in {req'[u] : u \in Threads}
    BY <2>1, <2>3
  <2> QED
    BY <2>1, <2>2, <2>4, SequentialFrom
<1> QED
  BY <1>1, <1>2

\* What a loaded renderer is compared with stays as it was.
LEMMA LoadIs ==
  ASSUME RowsInv, UNCHANGED tables
  PROVE  /\ InForce' = InForce /\ bundles' = bundles /\ registered' = registered
         /\ InForce # None => Payload(InForce)' = Payload(InForce) /\ Payload(InForce) = configs[bundles[InForce].cfg]
         /\ CalibInForce("perspective")' = CalibInForce("perspective")
         /\ UNCHANGED <<renderer>> => (HasBundle <=> HasBundle')
<1>1. UNCHANGED <<configs, bundles, calibs, registered>>
  BY DEF tables
<1> QED
  BY <1>1, SameInForce, SameCalibInForce DEF Payload

LEMMA PublishKeepsOrder ==
  ASSUME RowsInv, SequentialInv, NEW t \in Threads, Publish(t)
  PROVE  SequentialInv'
<1>1. PICK q : q = Idle
  OBVIOUS
<1>2. /\ GoesOn(t, q) /\ req[t].pc = "publish" /\ UNCHANGED <<tables, untold>> /\ renderer' = req[t].built
      /\ q.pc = "idle"
  BY <1>1, IdleIs DEF Publish
<1>3. ASSUME HasRead(req[t]) PROVE HasTold(q)'
  <2>1. renderer' = Constructed
    BY <1>2, <1>3 DEF HasRead
  <2>2. /\ InForce = None \/ Payload(InForce).bad => renderer'.bundle = None
        /\ InForce # None /\ ~ Payload(InForce).bad =>
             renderer'.bundle = InForce /\ renderer'.engine = Configured(Fresh, Payload(InForce))
        /\ renderer'.warp = CalibInForce("perspective") /\ renderer'.context = registered
    BY <2>1 DEF Constructed
  <2>3. HasBundle'
    BY <1>2, <2>2, LoadIs DEF HasBundle, Configured
  <2> QED
    BY <1>2, <2>2, <2>3, LoadIs DEF HasTold
<1> QED
  BY <1>2, <1>3, LoadKeepsOrder

LEMMA ReloadKeepsOrder ==
  ASSUME RowsInv, SequentialInv, NEW t \in Threads, Reload(t)
  PROVE  SequentialInv'
<1>1. req[t].pc = "reload" /\ UNCHANGED <<tables, untold>> /\ renderer \in Renderers
  BY DEF Reload, RowsInv, TypeOK
<1>2. ASSUME ~ renderer.live, renderer' = renderer, GoesOn(t, Idle) PROVE SequentialInv'
  <2>1. PICK q : q = Idle
    OBVIOUS
  <2>2. q.pc = "idle" /\ GoesOn(t, q)
    BY <1>2, <2>1, IdleIs
  <2>3. HasTold(q)'
    BY <1>2, <2>2 DEF HasTold
  <2> QED
    BY <1>1, <2>2, <2>3, LoadKeepsOrder
<1>3. ASSUME renderer.live, renderer' = [renderer EXCEPT !.bundle = InForce],
             NEW q, q = [Idle EXCEPT !.pc = "configure", !.op = req[t].op, !.cfg = bundles[InForce].cfg],
             GoesOn(t, q)
      PROVE  SequentialInv'
  <2>1. q.pc = "configure" /\ q.cfg = bundles[InForce].cfg
    BY <1>3 DEF Idle
  <2>2. /\ renderer'.bundle = InForce /\ renderer'.live = renderer.live /\ renderer'.warp = renderer.warp
        /\ renderer'.context = renderer.context
    BY <1>1, <1>3 DEF Renderers
  <2>3. ASSUME HasTold(req[t]) PROVE HasTold(q)'
    BY <1>1, <2>1, <2>2, <2>3, LoadIs DEF HasTold
  <2> QED
    BY <1>1, <1>3, <2>1, <2>3, LoadKeepsOrder
<1> QED
  BY <1>2, <1>3, ReloadIs

LEMMA ConfigureKeepsOrder ==
  ASSUME RowsInv, SequentialInv, NEW t \in Threads, Configure(t)
  PROVE  SequentialInv'
<1>1. PICK q : q = Idle
  OBVIOUS
<1>2. /\ GoesOn(t, q) /\ req[t].pc = "configure" /\ UNCHANGED <<tables, untold>> /\ q.pc = "idle"
      /\ renderer.engine \in Engines
  BY <1>1, IdleIs DEF Configure, RowsInv, TypeOK, Renderers
<1>3. PICK p : p = configs[req[t].cfg]
  OBVIOUS
<1>4. /\ p \in Versions /\ renderer'.engine = Configured(renderer.engine, p)
      /\ renderer'.bundle = IF p.bad THEN None ELSE renderer.bundle
      /\ renderer'.live = renderer.live /\ renderer'.warp = renderer.warp /\ renderer'.context = renderer.context
  BY <1>3, ConfigureIs
<1>5. ASSUME HasTold(req[t]) PROVE HasTold(q)'
  <2>1. ASSUME renderer.live, ~ untold PROVE HasBundle'
    <3>1. renderer.bundle = InForce /\ req[t].cfg = bundles[InForce].cfg
      BY <1>2, <1>5, <2>1 DEF HasTold
    <3>2. CASE InForce = None
      BY <1>2, <1>4, <3>1, <3>2, LoadIs DEF HasBundle
    <3>3. CASE InForce # None
      <4>1. Payload(InForce) = p /\ InForce' = InForce /\ Payload(InForce)' = p
        BY <1>2, <1>3, <3>1, <3>3, LoadIs
      <4>2. ~ p.bad => renderer'.engine = Configured(Fresh, p)
        BY <1>2, <1>4, ConfiguredIs, FreshIs
      <4> QED
        BY <1>4, <3>1, <3>3, <4>1, <4>2 DEF HasBundle, Configured
    <3> QED
      BY <3>2, <3>3
  <2> QED
    BY <1>2, <1>4, <1>5, <2>1, LoadIs DEF HasTold
<1> QED
  BY <1>2, <1>5, LoadKeepsOrder

LEMMA ReloadsKeepOrder ==
  ASSUME RowsInv, SequentialInv, NEW t \in Threads, ReloadWarp(t) \/ ReloadContext(t)
  PROVE  SequentialInv'
<1>1. PICK q : q = Idle
  OBVIOUS
<1>2. /\ GoesOn(t, q) /\ req[t].pc \in {"warp", "context"} /\ UNCHANGED <<tables, untold>> /\ q.pc = "idle"
      /\ renderer'.live = renderer.live /\ renderer'.bundle = renderer.bundle
      /\ renderer'.engine = renderer.engine
  BY <1>1, IdleIs, ReloadWarpIs, ReloadContextIs DEF ReloadWarp, ReloadContext
<1>3. HasBundle <=> HasBundle'
  <2>1. InForce' = InForce /\ (InForce # None => Payload(InForce)' = Payload(InForce))
    BY <1>2, LoadIs
  <2> QED
    BY <1>2, <2>1 DEF HasBundle, Configured
<1>4. ASSUME HasTold(req[t]), ReloadWarp(t) PROVE HasTold(q)'
  <2>1. /\ req[t].pc = "warp" /\ renderer'.context = renderer.context
        /\ renderer.live => renderer'.warp = CalibInForce("perspective")
    BY <1>4, ReloadWarpIs DEF ReloadWarp
  <2> QED
    BY <1>2, <1>3, <1>4, <2>1, LoadIs DEF HasTold
<1>5. ASSUME HasTold(req[t]), ReloadContext(t) PROVE HasTold(q)'
  <2>1. /\ req[t].pc = "context" /\ renderer'.warp = renderer.warp
        /\ renderer.live => renderer'.context = registered
    BY <1>5, ReloadContextIs DEF ReloadContext
  <2> QED
    BY <1>2, <1>3, <1>5, <2>1, LoadIs DEF HasTold
<1> QED
  BY <1>2, <1>4, <1>5, LoadKeepsOrder

LEMMA WorkerKeepsOrder ==
  ASSUME RowsInv, SequentialInv, WorkerStep \/ WorkerRestart \/ UNCHANGED vars
  PROVE  SequentialInv'
<1>1. UNCHANGED <<tables, req, renderer, overlapped, untold>>
  BY DEF WorkerStep, WorkerRestart, vars, copies
<1>2. CASE overlapped
  BY <1>1, <1>2 DEF SequentialInv
<1>3. CASE ~ overlapped
  <2>1. PICK r \in {Idle} \cup {req[t] : t \in Threads} : Alone(r) /\ HasRead(r) /\ HasTold(r)
    BY <1>3 DEF SequentialInv
  <2>2. OneInForce /\ OneInForce' = OneInForce /\ Constructed' = Constructed
    BY <1>1, <1>3, SameConstructed DEF SequentialInv
  <2>3. Active' = Active /\ \A s : ActiveIn(s)' = ActiveIn(s)
    BY <1>1, SameInForce, SameCalibInForce DEF tables
  <2>4. HasRead(r)'
    BY <2>1, <2>2, <2>3 DEF HasRead
  <2>5. HasTold(r)'
    BY <1>1, <2>1, LoadIs DEF HasTold
  <2>6. Alone(r)'
    BY <1>1, <2>1 DEF Alone, Quiet
  <2>7. (r \in {Idle} \cup {req[t] : t \in Threads})'
    BY <1>1
  <2> QED
    BY <2>2, <2>4, <2>5, <2>6, <2>7 DEF SequentialInv
<1> QED
  BY <1>2, <1>3

LEMMA SequentialInvNext == RowsInv /\ SequentialInv /\ [Next]_vars => SequentialInv'
<1> SUFFICES ASSUME RowsInv, SequentialInv, [Next]_vars
             PROVE  SequentialInv'
  OBVIOUS
<1>1. ASSUME NEW t \in Threads, Request(t)
      PROVE  SequentialInv'
  BY <1>1, ReadingsKeep, CreateKeepsOrder, SeedKeepsOrder DEF Request
<1>2. ASSUME NEW t \in Threads, Handle(t)
      PROVE  SequentialInv'
  BY <1>2, RoiKeepsOrder, InsertKeepsOrder, InsertCalibrationKeepsOrder, PublishKeepsOrder, ReloadKeepsOrder,
     ConfigureKeepsOrder, ReloadsKeepOrder DEF Handle
<1>3. CASE WorkerStep \/ WorkerRestart \/ UNCHANGED vars
  BY <1>3, WorkerKeepsOrder
<1> QED
  BY <1>1, <1>2, <1>3 DEF Next

LEMMA SequentialInvInit == Init => SequentialInv
<1> SUFFICES ASSUME Init PROVE SequentialInv
  OBVIOUS
<1>1. Active = {} /\ \A s : ActiveIn(s) = {}
  BY DEF Init, Active, ActiveIn
<1>2. Alone(Idle)
  BY IdleIs DEF Init, Alone, Quiet
<1>3. HasRead(Idle) /\ HasTold(Idle)
  BY IdleIs, AbsentIs DEF Init, HasRead, HasTold
<1> QED
  BY <1>1, <1>2, <1>3 DEF SequentialInv, OneInForce

LEMMA AtMostOne ==
  ASSUME NEW S, \A a, b \in S : a = b
  PROVE  Cardinality(S) <= 1
<1>1. CASE S = {}
  BY <1>1, FS_EmptySet
<1>2. ASSUME NEW a \in S PROVE Cardinality(S) <= 1
  <2>1. S = {a}
    OBVIOUS
  <2> QED
    BY <2>1, FS_Singleton
<1> QED
  BY <1>1, <1>2

\* As long as no two requests overlapped, one bundle is active and one calibration
\* in each stage, and the live renderer has the bundle in force, its payload, its
\* warp and the camera and gate of the line whenever no request runs, whatever
\* was posted, activated, calibrated and reloaded before: no order of requests
\* leaves the renderer behind (activate_bundle, reload_active_config,
\* reload_perspective_calibration, reload_camera_context).
THEOREM SequentialExact == Spec => []SequentialIsExact
<1>1. RowsInv /\ SequentialInv => SequentialIsExact
  <2> SUFFICES ASSUME RowsInv, SequentialInv, ~ overlapped
               PROVE  SequentialIsExact
    BY DEF SequentialIsExact
  <2>1. OneInForce
    BY DEF SequentialInv
  <2>2. PICK r : Alone(r) /\ HasTold(r)
    BY DEF SequentialInv
  <2>3. Cardinality(Active) <= 1 /\ \A s \in Stages : Cardinality(ActiveIn(s)) <= 1
    BY <2>1, AtMostOne DEF OneInForce
  <2>4. Quiet => r.pc = "idle"
    BY <2>2, IdleIs DEF Alone, Quiet
  <2>5. Quiet /\ renderer.live /\ ~ untold =>
          HasBundle /\ renderer.warp = CalibInForce("perspective") /\ renderer.context = registered
    BY <2>2, <2>4 DEF HasTold
  <2> QED
    BY <2>3, <2>5 DEF SequentialIsExact, HasBundle
<1> QED
  BY <1>1, RowsInvInit, RowsInvNext, SequentialInvInit, SequentialInvNext, PTL DEF Spec
=============================================================================
