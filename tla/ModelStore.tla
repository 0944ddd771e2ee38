----------------------------- MODULE ModelStore -----------------------------
(***************************************************************************)
(* Trained networks and the one file they share.  Every "train" and every  *)
(* "export_onnx" job trains a network of its own and exports it to         *)
(* models/rfdetr_seg_v2.onnx, in place: from the moment the export opens   *)
(* the file until it closes it there is no network in it.  The job then    *)
(* loads the file to verify it, has a TensorRT plan built from it, scores  *)
(* it, hashes it and inserts a model_version row.  Each of these reads the *)
(* path again, and nothing keeps a second runner, a job whose lease was    *)
(* taken over or a counting process from using it in between.              *)
(*                                                                         *)
(* A network is the number of the training that made it; 0 is the one the  *)
(* repository ships.  An INT8 model is the network it was quantized from.  *)
(***************************************************************************)
EXTENDS Integers, Sequences

CONSTANTS
  Runners,      \* jobrunner processes that share the models directory
  Killable,     \* the runners that may be killed
  Stages,       \* of a model version
  Detectors,    \* counting processes, each with a VisionDetector
  MaxTrained,   \* bound: networks trained
  MaxQuantized, \* bound: quantize_int8 jobs started
  Torn,         \* what an unfinished or mixed-up file holds
  Heuristic,    \* the OpenCV contours a detector works with for want of a network
  None          \* no file, no row, no hash

ASSUME BoundsAssumption == MaxTrained \in Nat /\ MaxQuantized \in Nat
ASSUME KillableAssumption == Killable \subseteq Runners
ASSUME StagesAssumption == {"draft", "active"} \subseteq Stages
ASSUME MarksAssumption ==
  /\ Torn \notin Int /\ Heuristic \notin Int /\ None \notin Int
  /\ Torn # Heuristic /\ Torn # None /\ Heuristic # None

Networks == 0..MaxTrained
Contents == Networks \cup {Torn}

VARIABLES
  onnx,      \* the content of models/rfdetr_seg_v2.onnx
  plan,      \* of the TensorRT engine beside it
  int8,      \* of the quantized model beside it
  versions,  \* the model_version table, in the order of its ids
  loaded,    \* what each detector works with
  work,      \* what each runner is at
  trained, quantized

files     == <<onnx, plan, int8>>
storeVars == <<files, versions, loaded, work, trained, quantized>>

\* A row of the table.  History: of is the network that was trained for it,
\* base the version it was asked for, and it is lone if its job met no other
\* export between its own export and this row.
Version == [of : Networks, base : Nat \cup {None}, run : {None},
            hash : Contents \cup {None}, scores : Networks \cup {None, Heuristic},
            stage : Stages, lone : BOOLEAN]

Steps == {"idle", "training", "exporting", "verify", "plan", "score", "hash", "register",
          "quantize", "quantizing", "check"}

Idle == [step |-> "idle", net |-> 0, base |-> None, scores |-> None, hash |-> None, lone |-> TRUE]

StoreInit ==
  /\ onnx = 0 /\ plan = None /\ int8 = None
  /\ versions = <<[of |-> 0, base |-> None, run |-> None, hash |-> None, scores |-> None,
                   stage |-> "active", lone |-> TRUE]>>
  /\ loaded = [d \in Detectors |-> 0]
  /\ work = [r \in Runners |-> Idle]
  /\ trained = 0 /\ quantized = 0

-----------------------------------------------------------------------------
(* Training and export.                                                    *)

Begun(r, n, base) == work' = [work EXCEPT ![r] = [Idle EXCEPT !.step = "training", !.net = n, !.base = base]]

\* A "train" job: a network from nothing.
Train(r) ==
  /\ work[r].step = "idle" /\ trained < MaxTrained
  /\ trained' = trained + 1
  /\ Begun(r, trained', None)
  /\ UNCHANGED <<files, versions, loaded, quantized>>

\* An "export_onnx" job for version v: training from nothing, too.  The
\* training_run row it prepares is never added to the session.
ExportVersion(r, v) ==
  /\ work[r].step = "idle" /\ trained < MaxTrained
  /\ trained' = trained + 1
  /\ Begun(r, trained', v)
  /\ UNCHANGED <<files, versions, loaded, quantized>>

\* Another runner has the step in hand.
OtherAt(r, steps) == \E o \in Runners \ {r} : work[o].step \in steps

Writing     == {"exporting"}
AfterExport == {"exporting", "verify", "plan", "score", "hash", "register"}

\* torch.onnx.export opens the file.  History: whoever else has exported and
\* not yet registered is no longer alone with it, nor is this runner if the
\* other is still writing.
OpenOnnx(r) ==
  /\ work[r].step = "training"
  /\ onnx' = Torn
  /\ work' = [o \in Runners |->
       IF o = r THEN [work[r] EXCEPT !.step = "exporting", !.lone = ~OtherAt(r, Writing)]
       ELSE [work[o] EXCEPT !.lone = @ /\ work[o].step \notin AfterExport]]
  /\ UNCHANGED <<plan, int8, versions, loaded, trained, quantized>>

\* Bug: what is exported is the network the training started from.
CloseOnnxUntrained(r) ==
  /\ work[r].step = "exporting"
  /\ onnx' = work[r].net - 1
  /\ work' = [work EXCEPT ![r].step = "verify"]
  /\ UNCHANGED <<plan, int8, versions, loaded, trained, quantized>>

\* The export closes the file.  Two that wrote at the same time leave what
\* either wrote, or a mixture.
CloseOnnx(r) ==
  /\ work[r].step = "exporting"
  /\ onnx' \in {work[r].net} \cup (IF work[r].lone THEN {} ELSE {onnx, Torn})
  /\ work' = [work EXCEPT ![r].step = "verify"]
  /\ UNCHANGED <<plan, int8, versions, loaded, trained, quantized>>

GoesTo(r, step) == work' = [work EXCEPT ![r].step = step]
Fails(r)        == work' = [work EXCEPT ![r] = Idle]

\* The exported file is loaded once; the job fails if it cannot be.
Verify(r) ==
  /\ work[r].step = "verify"
  /\ IF onnx = Torn THEN Fails(r) ELSE GoesTo(r, "plan")
  /\ UNCHANGED <<files, versions, loaded, trained, quantized>>

\* The TensorRT plan: skipped without TensorRT, and a failure is only logged.
BuildPlan(r) ==
  /\ work[r].step = "plan"
  /\ plan' \in {plan} \cup (IF onnx = Torn THEN {} ELSE {onnx})
  /\ GoesTo(r, "score")
  /\ UNCHANGED <<onnx, int8, versions, loaded, trained, quantized>>

-----------------------------------------------------------------------------
(* Scoring, hashing and the row.                                           *)

\* Loading a detector from the file: with allow_fallback it works with the
\* heuristic when the file cannot be loaded.
Loaded == IF onnx = Torn THEN Heuristic ELSE onnx

\* Bug: the model under test may be replaced by the heuristic.
EvaluateWithFallback(r) ==
  /\ work[r].step = "score"
  /\ work' = [work EXCEPT ![r].step = "hash", ![r].scores = Loaded]
  /\ UNCHANGED <<files, versions, loaded, trained, quantized>>

\* The scores are those of the network the file holds now, and no others:
\* allow_fallback is False.
Evaluate(r) ==
  /\ work[r].step = "score"
  /\ IF onnx = Torn THEN Fails(r)
     ELSE work' = [work EXCEPT ![r].step = "hash", ![r].scores = onnx]
  /\ UNCHANGED <<files, versions, loaded, trained, quantized>>

\* The hash is that of the bytes the file holds now, a network or not.
Hash(r) ==
  /\ work[r].step = "hash"
  /\ work' = [work EXCEPT ![r].step = "register", ![r].hash = onnx]
  /\ UNCHANGED <<files, versions, loaded, trained, quantized>>

Register(r) ==
  /\ work[r].step = "register"
  /\ versions' = Append(versions,
       [of |-> work[r].net, base |-> work[r].base, run |-> None, hash |-> work[r].hash,
        scores |-> work[r].scores, stage |-> "draft", lone |-> work[r].lone])
  /\ Fails(r)
  /\ UNCHANGED <<files, loaded, trained, quantized>>

UpdateStage(v, stage) ==
  /\ versions[v].stage # stage
  /\ versions' = [versions EXCEPT ![v].stage = stage]
  /\ UNCHANGED <<files, loaded, work, trained, quantized>>

-----------------------------------------------------------------------------
(* Quantization, of whatever the path of the version holds.                *)

StartQuantize(r) ==
  /\ work[r].step = "idle" /\ quantized < MaxQuantized
  /\ quantized' = quantized + 1
  /\ GoesTo(r, "quantize")
  /\ UNCHANGED <<files, versions, loaded, trained>>

\* The source is loaded for the name of its input ...
LoadSource(r) ==
  /\ work[r].step = "quantize"
  /\ IF onnx = Torn THEN Fails(r) ELSE GoesTo(r, "quantizing")
  /\ UNCHANGED <<files, versions, loaded, trained, quantized>>

\* ... and read again by the quantizer, which then writes the result, here
\* whole or, if another one is at it, possibly mixed up.
Quantize(r) ==
  /\ work[r].step = "quantizing"
  /\ IF onnx = Torn
     THEN Fails(r) /\ int8' = int8
     ELSE /\ work' = [work EXCEPT ![r].step = "check", ![r].net = onnx]
          /\ int8' \in {onnx} \cup (IF OtherAt(r, {"quantizing", "check"}) THEN {int8, Torn} ELSE {})
  /\ UNCHANGED <<onnx, plan, versions, loaded, trained, quantized>>

\* The quantized model is run once; the job fails if it cannot be loaded.
CheckQuantized(r) ==
  /\ work[r].step = "check"
  /\ Fails(r)
  /\ UNCHANGED <<files, versions, loaded, trained, quantized>>

-----------------------------------------------------------------------------
\* A counting process starts and loads the default path, whatever the stage
\* of the version in it.
RestartDetector(d) ==
  /\ loaded[d] # Loaded
  /\ loaded' = [loaded EXCEPT ![d] = Loaded]
  /\ UNCHANGED <<files, versions, work, trained, quantized>>

\* A runner is killed: the file it was writing stays as it is.
Die(r) ==
  /\ r \in Killable /\ work[r].step # "idle"
  /\ work' = [work EXCEPT ![r] = Idle]
  /\ int8' \in {int8} \cup (IF work[r].step = "quantizing" THEN {Torn} ELSE {})
  /\ UNCHANGED <<onnx, plan, versions, loaded, trained, quantized>>

TrainingJob(r) ==
  \/ Train(r) \/ (\E v \in DOMAIN versions : ExportVersion(r, v))
  \/ OpenOnnx(r) \/ CloseOnnx(r) \/ Verify(r) \/ BuildPlan(r)
  \/ Evaluate(r) \/ Hash(r) \/ Register(r)

QuantizeJob(r) == StartQuantize(r) \/ LoadSource(r) \/ Quantize(r) \/ CheckQuantized(r)

StoreNext ==
  \/ \E r \in Runners : TrainingJob(r) \/ QuantizeJob(r) \/ Die(r)
  \/ \E d \in Detectors : RestartDetector(d)
  \/ \E v \in DOMAIN versions, stage \in Stages : UpdateStage(v, stage)

StoreSpec == StoreInit /\ [][StoreNext]_storeVars

-----------------------------------------------------------------------------
(* Properties.                                                             *)

StoreTypeOK ==
  /\ onnx \in Contents
  /\ plan \in Networks \cup {None}
  /\ int8 \in Contents \cup {None}
  /\ versions \in Seq(Version)
  /\ loaded \in [Detectors -> Networks \cup {Heuristic}]
  /\ work \in [Runners -> [step : Steps, net : Networks, base : Nat \cup {None},
                           scores : Networks \cup {None, Heuristic}, hash : Contents \cup {None},
                           lone : BOOLEAN]]
  /\ trained \in Networks /\ quantized \in 0..MaxQuantized

\* What a row says of a network was measured on that network, as long as no
\* other export wrote the shared file between this one's export and its row:
\* the path is read three times, quantizers read it and a killed runner may
\* have left it torn in between (worker.py 276-292).
RowsDescribeTheirNetwork ==
  \A v \in 2..Len(versions) :
    versions[v].lone => versions[v].scores = versions[v].of /\ versions[v].hash = versions[v].of

\* A row whose job met another export still carries the scores of a network,
\* never those of the contour heuristic, although the file may be torn when
\* the scoring loads it (worker.py 56, detector.py 138-148).
ScoresAreOfANetwork == \A v \in 2..Len(versions) : versions[v].scores \in Networks

-----------------------------------------------------------------------------
(* What the documentation says and the code does not do; checked by the    *)
(* configurations v_version_overwritten and v_export_lineage.              *)

\* "Stream the real exported ONNX artifact for a trained model version"
\* (routes.py 977): the path of a version holds its own network.
DownloadServesVersion ==
  \A v \in DOMAIN versions : onnx # Torn => onnx = versions[v].of

\* "model_id referenced as lineage via TrainingRunORM.base_model_version_id"
\* (routes.py 1003-1004): a version exported from another one has a run.
ExportRecordsLineage ==
  \A v \in DOMAIN versions : versions[v].base # None => versions[v].run # None
=============================================================================
