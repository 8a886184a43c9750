----------------------- MODULE InferenceCoordination -----------------------
(***************************************************************************)
(* Which detectors share one worker (InferenceCoordinator with             *)
(* SharedDetectionPool._build) and what the merged configuration of a      *)
(* shared worker makes of a prediction: YOLO post-processing with the      *)
(* worker's filters, then filter_detection_prediction with the consumer's. *)
(*                                                                         *)
(* A binding is a detector of one deployment.  The model's raw output for  *)
(* a frame is a sequence of candidates, best score first, and the pairs    *)
(* of them that overlap by more than the threshold; scores are distinct.   *)
(* Boxes are listed best first wherever they are listed, so a prediction   *)
(* is the set of their indexes.  Of the options a ModelSpec holds only     *)
(* max_detections is kept.                                                 *)
(***************************************************************************)
EXTENDS Naturals, Sequences, FiniteSets, SequencesExt

CONSTANTS ModelClasses,  \* classes of the model
          Detectors,     \* bound: detectors a deployment may have
          Deployments,   \* bound: deployments
          Outputs        \* bound: raw outputs of the model

AnyClass == {"any class"}
NoSpec == <<>>

Binding(scores, classes, maxima) ==
    [execution : {"local", "shared"}, backend : {"onnx", "triton"},
     cameras : {0, 1},  \* how many are routed to the deployment
     confidence : scores, classes : classes, maxDetections : maxima]

Raw(n, classes) ==
    [classes : [1 .. n -> classes],
     overlaps : SUBSET {p \in (1 .. n) \X (1 .. n) : p[1] < p[2]}]

ASSUME CoordinationAssumption ==
    /\ "any class" \notin ModelClasses
    /\ Detectors \subseteq Binding(Nat, (SUBSET ModelClasses) \cup {AnyClass}, Nat)
    /\ Deployments \in Nat
    /\ \A raw \in Outputs : raw.classes \in Seq(ModelClasses)

\* Mutant of ModelSpec: max_detections is taken for a consumer filter, too.
SpecOfModel(b) == IF b.backend = "triton" THEN NoSpec ELSE <<b.backend>>

\* detection_model_spec: the filters of a consumer are not part of the key.
ModelSpec(b) ==
    IF b.backend = "triton" THEN NoSpec ELSE <<b.backend, b.maxDetections>>
-----------------------------------------------------------------------------
(* bindings[d] is the detector of deployment d, in the order of the        *)
(* configuration.                                                          *)

Shareable(b) == b.execution = "shared" /\ ModelSpec(b) # NoSpec /\ b.cameras > 0

\* The deployments with the model of d; a model with one consumer stays local.
Group(bindings, d) ==
    {e \in DOMAIN bindings :
        Shareable(bindings[e]) /\ ModelSpec(bindings[e]) = ModelSpec(bindings[d])}

Shared(bindings, d) ==
    Shareable(bindings[d]) /\ Cardinality(Group(bindings, d)) >= 2

\* Mutant of Merged: the filters of the first consumer.
MergedFirst(bindings, group) == bindings[Min(group)]

\* _merged_backend_config: the weakest filters, the rest as the first consumer has it.
Merged(bindings, group) ==
    [bindings[Min(group)] EXCEPT
        !.confidence = Min({bindings[e].confidence : e \in group}),
        !.classes = IF \E e \in group : bindings[e].classes = AnyClass THEN AnyClass
                    ELSE UNION {bindings[e].classes : e \in group}]

\* The configuration of the backend that serves deployment d.
Backend(bindings, d) ==
    IF Shared(bindings, d) THEN Merged(bindings, Group(bindings, d)) ELSE bindings[d]
-----------------------------------------------------------------------------
\* Scores are numbered from the worst candidate.
Score(raw, i) == Len(raw.classes) + 1 - i

Passes(raw, config, i) ==
    /\ Score(raw, i) >= config.confidence
    /\ config.classes = AnyClass \/ raw.classes[i] \in config.classes

\* Mutant of Suppresses: boxes of different classes suppress each other.
SuppressesAny(raw, i, j) == <<i, j>> \in raw.overlaps

Suppresses(raw, i, j) ==
    <<i, j>> \in raw.overlaps /\ raw.classes[i] = raw.classes[j]

\* _nms: from the best to the worst, unless a better one of its class is kept.
Kept(raw, config) ==
    LET kept[i \in DOMAIN raw.classes] ==
            /\ Passes(raw, config, i)
            /\ \A j \in 1 .. i - 1 : kept[j] => ~Suppresses(raw, j, i)
    IN  {i \in DOMAIN raw.classes : kept[i]}

\* The best n of them.
Best(n, boxes) == {i \in boxes : Cardinality({j \in boxes : j < i}) < n}

\* postprocess_yolo_output for one frame.
Prediction(raw, config) == Best(config.maxDetections, Kept(raw, config))

\* filter_detection_prediction, for the consumers of a shared worker.
Detections(raw, bindings, d) ==
    LET shared == Prediction(raw, Backend(bindings, d))
    IN  IF Shared(bindings, d)
        THEN {i \in shared : Passes(raw, bindings[d], i)}
        ELSE shared
-----------------------------------------------------------------------------
\* "These consumer filters are applied after shared inference": a consumer gets from
\* a shared worker what a detector of its own would have given it, best first; it
\* misses the last of them only if boxes of other consumers used up max_detections.
SharingIsTransparentFor(raw, bindings) ==
    \A d \in DOMAIN bindings :
        LET got == Detections(raw, bindings, d)
            own == Prediction(raw, bindings[d])
        IN  /\ got \subseteq own
            /\ \A i \in own, j \in got : i < j => i \in got
            /\ \/ got = own
               \/ Cardinality(Prediction(raw, Backend(bindings, d)))
                    = bindings[d].maxDetections

\* So it is with any filters and limits of the detectors and any output of the model.
FiltersCommute ==
    \A bindings \in [1 .. Deployments -> Detectors], raw \in Outputs :
        SharingIsTransparentFor(raw, bindings)
=============================================================================
