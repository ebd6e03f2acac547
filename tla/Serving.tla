------------------------------- MODULE Serving -------------------------------
(***************************************************************************)
(* From a frame to a stored prediction, while models come and go: the AI   *)
(* service (ai-service/app/main.py, inference/, tools/quality_gate.py),    *)
(* the training that replaces its artifact (training/train.py), and the    *)
(* backend that asks it (services/ai_client.py, predict_service.py).       *)
(*                                                                         *)
(* A training is known by its release: the code that trains, and writes    *)
(* the class order and geometry its model needs.  The classifier reads     *)
(* model.onnx and the classes of preprocess.json once, when the first      *)
(* frame needs it, and the geometry of preprocess.json for every frame.    *)
(***************************************************************************)
EXTENDS Integers, FiniteSets

CONSTANTS
  Releases,    \* releases of the training code
  Frames,      \* uploads: the defects each has
  Slots,       \* requests served at a time
  NoRelease,
  MaxWrites    \* bound on the files that runs of train.py write

ServingAssumption ==
  NoRelease \notin Releases /\ MaxWrites \in Nat

\* What the gate looks for, in its order.
TooLarge == "over max_upload_bytes"
NoBytes == "no bytes"
Undecodable == "undecodable"
LowQuality == {"small", "dark", "overexposed", "flat", "no information", "blurred"}
Background == "no edges in the centre"

VARIABLES
  model,     \* models/model.onnx: the release that exported it
  meta,      \* models/preprocess.json: the release that wrote it
  trainer,   \* the release whose run of train.py has yet to write its metadata
  torn,      \* the model that was exported last has not got its release's
             \* metadata: not yet, or an --eval-only of another release wrote it
  writes,    \* the files that train.py has written
  mode,      \* AI_SERVICE_CLASSIFIER of the running service
  cache,     \* the classifier get_classifier remembers
  req,       \* per thread: its request
  stored     \* the ai_predictions row committed last

servingVars == <<model, meta, trainer, torn, writes, mode, cache, req, stored>>

NoRequest == [at |-> "idle", frame |-> {}, by |-> NoRelease, answer |-> "", result |-> NoRelease]

ServingInit ==
  /\ model \in Releases \cup {NoRelease} /\ meta = model
  /\ trainer = NoRelease /\ torn = FALSE /\ writes = 0
  /\ mode \in {"real", "development"}
  /\ cache = NoRelease
  /\ req = [w \in Slots |-> NoRequest]
  /\ stored = NoRelease

files == <<model, meta, trainer, torn, writes>>

-----------------------------------------------------------------------------
\* training/train.py run(): the export, then the evaluation, then preprocess.json.
Export(r) ==
  /\ trainer = NoRelease /\ writes < MaxWrites
  /\ model' = r /\ torn' = TRUE
  /\ trainer' = r /\ writes' = writes + 1
  /\ UNCHANGED <<meta, mode, cache, req, stored>>

\* --eval-only asks for a model.onnx, whichever release exported it.
EvalOnly(r) ==
  /\ trainer = NoRelease /\ writes < MaxWrites /\ model # NoRelease
  /\ trainer' = r
  /\ UNCHANGED <<model, meta, torn, writes, mode, cache, req, stored>>

WriteMetaOnce ==               \* variant: an existing preprocess.json is kept
  /\ trainer # NoRelease
  /\ meta' = IF meta = NoRelease THEN trainer ELSE meta
  /\ torn' = (trainer # model) /\ writes' = writes + 1
  /\ trainer' = NoRelease
  /\ UNCHANGED <<model, mode, cache, req, stored>>

\* The end of either: preprocess.json gets the constants of the running code.
WriteMeta ==
  /\ trainer # NoRelease
  /\ meta' = trainer
  /\ torn' = (trainer # model) /\ writes' = writes + 1
  /\ trainer' = NoRelease
  /\ UNCHANGED <<model, mode, cache, req, stored>>

TrainKill ==
  /\ trainer # NoRelease
  /\ trainer' = NoRelease
  /\ UNCHANGED <<model, meta, torn, writes, mode, cache, req, stored>>

-----------------------------------------------------------------------------
Set(w, r) ==
  req' = [req EXCEPT ![w] = [c \in DOMAIN @ |-> IF c \in DOMAIN r THEN r[c] ELSE @[c]]]
Answer(w, a) == Set(w, [at |-> "answer", answer |-> a])
AtStep(w, s) == req[w].at = s

\* The first check a frame fails; the decoding errors of the gate are 422s.
Assess(f) ==
  IF NoBytes \in f \/ Undecodable \in f THEN "CORRUPT_IMAGE"
  ELSE IF f \cap LowQuality # {} THEN "LOW_QUALITY"
  ELSE IF Background \in f THEN "NO_OBJECT"
  ELSE "VALID_FRAME"

GateSkipped(w, f) ==           \* variant: the gate's verdict is not looked at
  /\ AtStep(w, "idle")
  /\ Set(w, [at |-> "classifier", frame |-> f])
  /\ UNCHANGED <<files, mode, cache, stored>>

\* predict(): the size, then the gate, before any classifier is there.
Gate(w, f) ==
  /\ AtStep(w, "idle")
  /\ IF TooLarge \in f
     THEN Set(w, [at |-> "answer", frame |-> f, answer |-> "413"])
     ELSE IF Assess(f) # "VALID_FRAME"
     THEN Set(w, [at |-> "answer", frame |-> f, answer |-> Assess(f)])
     ELSE Set(w, [at |-> "classifier", frame |-> f])
  /\ UNCHANGED <<files, mode, cache, stored>>

\* get_classifier: the cached one, or a new one.  Without a model that is an
\* error, which is not cached.
GetClassifier(w) ==
  /\ AtStep(w, "classifier")
  /\ IF cache # NoRelease
     THEN Set(w, [at |-> "predict", by |-> cache]) /\ UNCHANGED cache
     ELSE IF mode = "development"
     THEN LET c == [kind |-> "development", model |-> NoRelease, classes |-> NoRelease,
                    since |-> writes, torn |-> FALSE] IN
          cache' = c /\ Set(w, [at |-> "predict", by |-> c])
     ELSE /\ IF model = NoRelease
             THEN Answer(w, "503")
             ELSE Set(w, [at |-> "load", by |->
                    [kind |-> "real", model |-> model, classes |-> NoRelease,
                     since |-> writes, torn |-> torn]])
          /\ UNCHANGED cache
  /\ UNCHANGED <<files, mode, stored>>

\* RealInferenceClassifier reads the classes after the model.
LoadMetadata(w) ==
  /\ AtStep(w, "load")
  /\ LET c == [req[w].by EXCEPT !.classes = meta] IN
     /\ cache' = c
     /\ Set(w, [at |-> "predict", by |-> c])
  /\ UNCHANGED <<files, mode, stored>>

\* The frame's own read of the geometry, and the forward pass, which may fail.
Classify(w) ==
  /\ AtStep(w, "predict")
  /\ LET c == req[w].by IN
     \/ Set(w, [at |-> "answer", answer |-> "200", result |->
          [kind |-> c.kind, model |-> c.model, classes |-> c.classes, geometry |-> meta,
           settled |-> ~c.torn /\ c.since = writes]])
     \/ Answer(w, "500")
  /\ UNCHANGED <<files, mode, cache, stored>>

\* AiServiceClient and PredictService: a rejection of the gate is passed on,
\* anything else but an answer in time is a 503, and nothing is stored.
Store(w) ==
  /\ AtStep(w, "answer")
  /\ LET a == req[w].result IN
     stored' = IF req[w].answer # "200" THEN stored
               ELSE [frame |-> req[w].frame, answer |-> a,
                     source |-> IF a.kind # "development" THEN "ai" ELSE "demo"]
  /\ req' = [req EXCEPT ![w] = NoRequest]
  /\ UNCHANGED <<files, mode, cache>>

\* The backend's timeout passes before the answer.
Timeout(w) ==
  /\ AtStep(w, "answer")
  /\ req' = [req EXCEPT ![w] = NoRequest]
  /\ UNCHANGED <<files, mode, cache, stored>>

\* The service is started again, perhaps as another classifier.
ServingRestart(m) ==
  /\ mode' = m
  /\ cache' = NoRelease
  /\ req' = [w \in Slots |-> NoRequest]
  /\ UNCHANGED <<files, stored>>

ServingNext ==
  \/ \E r \in Releases : Export(r) \/ EvalOnly(r)
  \/ WriteMeta \/ TrainKill
  \/ \E m \in {"real", "development"} : ServingRestart(m)
  \/ \E w \in Slots :
       \/ \E f \in Frames : Gate(w, f)
       \/ GetClassifier(w) \/ LoadMetadata(w) \/ Classify(w) \/ Store(w) \/ Timeout(w)

ServingSpec == ServingInit /\ [][ServingNext]_servingVars

-----------------------------------------------------------------------------
(* Properties.                                                              *)

\* "Can never be routed as high-confidence waste": no prediction is stored of a
\* frame the gate refuses, and only a trained model's is stored as the AI's,
\* across restarts in another mode.
GatedAndHonest ==
  stored # NoRelease =>
    /\ Assess(stored.frame) = "VALID_FRAME" /\ TooLarge \notin stored.frame
    /\ stored.source = "ai" => stored.answer.model # NoRelease

\* "By reading the same preprocess.json the training pipeline wrote": a model is
\* fed the geometry and read by the classes of its own training, unless train.py
\* wrote since the classifier was built, or had then been cut short after its
\* export or left the metadata of an --eval-only by another release.
OwnPreprocessing ==
  stored # NoRelease /\ stored.source = "ai" /\ stored.answer.settled =>
    {stored.answer.classes, stored.answer.geometry} = {stored.answer.model}
=============================================================================
