------------------------------ MODULE Training ------------------------------
(***************************************************************************)
(* prediction/ensemble.py, calibration.py and agreement.py, for one key    *)
(* (symbol, timeframe, direction): requests and the nightly sweep train an *)
(* ensemble, enter it in the registry, cache it, fit a calibration against *)
(* its holdout rows and predict from whatever is cached.  Nothing locks    *)
(* the two caches.  A step is the code between two awaits, together with   *)
(* those that touch nothing another call reads.                            *)
(*                                                                         *)
(* A training row is the number of its label; an estimator is whether it   *)
(* was fitted, and the calls it votes for (see Agreement).                 *)
(***************************************************************************)
EXTENDS Integers, FiniteSets

CONSTANTS
    Callers,
    Lookbacks,        \* lookback_bars a caller may ask for
    MinTraining,      \* MIN_TRAINING_SAMPLES
    MinCalibration,   \* MIN_CALIBRATION_SAMPLES
    MaxLabels,        \* bound on the labelled bars
    MaxTrainings      \* bound on the calls of train()

ASSUME TrainingAssumption ==
    /\ Lookbacks \subseteq Nat \ {0}
    /\ {MinTraining, MinCalibration, MaxLabels, MaxTrainings} \subseteq Nat \ {0}
    /\ MinTraining > 1

VARIABLES
    labels,       \* number of labels there is enough history for
    cached,       \* EnsemblePredictionEngine._trained[key]
    calibrated,   \* ProbabilityCalibrationEngine._calibrations[key]
    datasets,     \* dataset_versions rows: data_hash is unique
    versions,     \* model_versions rows
    attempts,     \* retraining_runs rows
    call,         \* per caller, where it is suspended
    begun         \* number of train() calls so far

registry == <<datasets, versions, attempts>>
vars == <<labels, cached, calibrated, datasets, versions, attempts, call, begun>>

\* What each entry point does: POST and GET /ensemble, POST and GET /calibration.
\* GET /agreement and the sweep call predict() as GET /ensemble does.
Operations == {"train", "predict", "calibrate", "predict calibrated"}

NoTraining == [serial |-> 0, rows |-> {}, fitted |-> FALSE]

\* No fit: key absent.  A fit of None is the calibration of serial 0 with no pairs.
NoFit == [serial |-> -1, pairs |-> {}]

Trainings == [serial : 0..MaxTrainings, rows : SUBSET (1..MaxLabels), fitted : BOOLEAN]

Fits == [serial : -1..MaxTrainings, pairs : SUBSET (1..MaxLabels)]

Idle == [op |-> "train", pc |-> "idle", lookback |-> 0, training |-> NoTraining, fit |-> NoFit]

TypeOK ==
    /\ labels \in 0..MaxLabels
    /\ cached \in Trainings
    /\ calibrated \in Fits
    /\ datasets \subseteq SUBSET (1..MaxLabels)
    /\ versions \subseteq Trainings
    /\ attempts \subseteq [serial : 1..MaxTrainings,
                           status : {"insufficient_data", "no_model_fit", "trained"}]
    /\ call \in [Callers -> [op : Operations,
                             pc : {"idle", "labelling", "fitting", "registering", "inserting",
                                   "committing", "caching", "calibrating", "predicting"},
                             lookback : Lookbacks \cup {0},
                             training : Trainings,
                             fit : Fits]]
    /\ begun \in 0..MaxTrainings

Init ==
    /\ labels = 0
    /\ cached = NoTraining
    /\ calibrated = NoFit
    /\ datasets = {}
    /\ versions = {}
    /\ attempts = {}
    /\ call = [c \in Callers |-> Idle]
    /\ begun = 0

-----------------------------------------------------------------------------
\* train_models(): chronological split, the first 80% of the rows for fitting.
HoldoutSplit(n) ==
    LET rounded == (8 * n + 5) \div 10
        capped == IF rounded > n - 1 THEN n - 1 ELSE rounded
    IN  IF capped < 1 THEN 1 ELSE capped

FirstOf(rows, k) == {r \in rows : Cardinality({q \in rows : q <= r}) <= k}

FittedOn(training) == FirstOf(training.rows, HoldoutSplit(Cardinality(training.rows)))

\* Fault: the pairs are those of every row.
CalibrationPairsOfAll(training) == IF training.fitted THEN training.rows ELSE {}

\* _fit_and_calibrate(): out-of-sample pairs of the holdout rows.
CalibrationPairs(training) ==
    IF training.fitted THEN training.rows \ FittedOn(training) ELSE {}

\* label_history(), the quality filter and the point-in-time join: the newest labels
\* of the lookback.
Dataset(lookback) == {r \in 1..labels : r > labels - lookback}

Status(training) ==
    IF training.fitted THEN "trained"
    ELSE IF Cardinality(training.rows) < MinTraining THEN "insufficient_data"
    ELSE "no_model_fit"

Goes(c, pc) == call' = [call EXCEPT ![c].pc = pc]

Ends(c) == call' = [call EXCEPT ![c] = Idle]

-----------------------------------------------------------------------------
\* train() up to its first await.
Trains(c, op, lookback, fit) ==
    /\ begun < MaxTrainings
    /\ begun' = begun + 1
    /\ call' = [call EXCEPT ![c] =
                  [op |-> op, pc |-> "labelling", lookback |-> lookback, fit |-> fit,
                   training |-> [NoTraining EXCEPT !.serial = begun + 1]]]

\* predict(): the cached training whatever its lookback and its age, or a new one.
LooksUp(c, op, lookback, fit) ==
    IF cached = NoTraining THEN Trains(c, op, lookback, fit)
    ELSE /\ call' = [call EXCEPT ![c] =
                       [op |-> op, pc |-> "predicting", lookback |-> lookback, fit |-> fit,
                        training |-> cached]]
         /\ UNCHANGED begun

\* calibration.predict() uses the calibration of the key where there is one, None
\* included; calibrate() always trains.
Request(c, op, lookback) ==
    /\ call[c].pc = "idle"
    /\ CASE op = "predict" -> LooksUp(c, op, lookback, NoFit)
         [] op = "predict calibrated" /\ calibrated # NoFit ->
              LooksUp(c, op, lookback, calibrated)
         [] OTHER -> Trains(c, op, lookback, NoFit)
    /\ UNCHANGED <<labels, cached, calibrated, registry>>

\* The labels and the features are read and joined.
Assemble(c) ==
    /\ call[c].pc = "labelling"
    /\ LET rows == Dataset(call[c].lookback)
       IN  call' = [call EXCEPT
                      ![c].training.rows = rows,
                      ![c].pc = IF Cardinality(rows) < MinTraining THEN "registering"
                                ELSE "fitting"]
    /\ UNCHANGED <<labels, cached, calibrated, registry, begun>>

\* The thread ends: no estimator is fitted if the labels are all of one class.
Fitted(c) ==
    /\ call[c].pc = "fitting"
    /\ \E fitted \in BOOLEAN :
         call' = [call EXCEPT ![c].training.fitted = fitted, ![c].pc = "registering"]
    /\ UNCHANGED <<labels, cached, calibrated, registry, begun>>

\* _persist_registry(): look for the dataset.
SelectDataset(c) ==
    /\ call[c].pc = "registering"
    /\ Goes(c, IF call[c].training.rows \in datasets \cup {{}} THEN "committing"
               ELSE "inserting")
    /\ UNCHANGED <<labels, cached, calibrated, registry, begun>>

\* Callers whose open transaction has inserted the dataset.
Inserters(rows) ==
    {c \in Callers : call[c].pc = "committing" /\ call[c].training.rows = rows
                     /\ rows \notin datasets \cup {{}}}

\* Fault: two that are about to insert wait for each other.
InsertDatasetCautiously(c) ==
    /\ call[c].pc = "inserting"
    /\ \A d \in Callers \ {c} :
         call[d].pc \in {"inserting", "committing"} => call[d].training.rows # call[c].training.rows
    /\ IF call[c].training.rows \in datasets THEN Ends(c) ELSE Goes(c, "committing")
    /\ UNCHANGED <<labels, cached, calibrated, registry, begun>>

\* Insert it: wait for another transaction that has, and fail if it is there by now.
InsertDataset(c) ==
    /\ call[c].pc = "inserting"
    /\ Inserters(call[c].training.rows) = {}
    /\ IF call[c].training.rows \in datasets THEN Ends(c) ELSE Goes(c, "committing")
    /\ UNCHANGED <<labels, cached, calibrated, registry, begun>>

\* Fault: the rows are committed one by one, the attempt last.
CommitOneByOne(c) ==
    /\ call[c].pc = "committing"
    /\ LET training == call[c].training
       IN  /\ datasets' = datasets \cup ({training.rows} \ {{}})
           /\ versions' = IF training.fitted THEN versions \cup {training} ELSE versions
           /\ attempts' \in {attempts,
                             attempts \cup {[serial |-> training.serial,
                                             status |-> Status(training)]}}
    /\ Goes(c, IF attempts' = attempts THEN "idle" ELSE "caching")
    /\ UNCHANGED <<labels, cached, calibrated, begun>>

\* One commit for the dataset, the version if an ensemble was fitted, and the attempt.
Commit(c) ==
    /\ call[c].pc = "committing"
    /\ LET training == call[c].training
       IN  /\ datasets' = datasets \cup ({training.rows} \ {{}})
           /\ versions' = IF training.fitted THEN versions \cup {training} ELSE versions
           /\ attempts' = attempts \cup {[serial |-> training.serial,
                                          status |-> Status(training)]}
    /\ Goes(c, "caching")
    /\ UNCHANGED <<labels, cached, calibrated, begun>>

\* Fault: cached before its registry entry is committed.
CacheTrainingEarly(c) ==
    /\ call[c].pc \in {"registering", "caching"}
    /\ cached' = call[c].training
    /\ CASE call[c].pc = "registering" -> Goes(c, "committing")
         [] call[c].op = "train" -> Ends(c)
         [] call[c].op = "predict" \/ call[c].fit # NoFit -> Goes(c, "predicting")
         [] OTHER -> Goes(c, "calibrating")
    /\ UNCHANGED <<labels, calibrated, registry, begun>>

\* train() caches its result, fitted or not, over whatever is there, and returns to
\* its caller.
CacheTraining(c) ==
    /\ call[c].pc = "caching"
    /\ cached' = call[c].training
    /\ CASE call[c].op = "train" -> Ends(c)
         [] call[c].op = "predict" \/ call[c].fit # NoFit -> Goes(c, "predicting")
         [] OTHER -> Goes(c, "calibrating")
    /\ UNCHANGED <<labels, calibrated, registry, begun>>

\* choose_best_calibration() over the pairs of the training of this call; then, for
\* GET /calibration, ensemble.predict(), which looks in the cache again.
Calibrate(c) ==
    /\ call[c].pc = "calibrating"
    /\ LET training == call[c].training
           pairs == CalibrationPairs(training)
           fit == IF Cardinality(pairs) < MinCalibration THEN [serial |-> 0, pairs |-> {}]
                  ELSE [serial |-> training.serial, pairs |-> pairs]
       IN  /\ calibrated' = fit
           /\ IF call[c].op = "calibrate" THEN Ends(c) /\ UNCHANGED begun
              ELSE LooksUp(c, call[c].op, call[c].lookback, fit)
    /\ UNCHANGED <<labels, cached, registry>>

\* Capture a snapshot, predict from the training, and store the prediction.
Predict(c) ==
    /\ call[c].pc = "predicting"
    /\ Ends(c)
    /\ UNCHANGED <<labels, cached, calibrated, registry, begun>>

\* Any statement may fail: the session rolls back, the error goes to the caller.
DatabaseFails(c) ==
    /\ call[c].pc \in {"labelling", "registering", "inserting", "committing", "predicting"}
    /\ Ends(c)
    /\ UNCHANGED <<labels, cached, calibrated, registry, begun>>

\* A new bar completes the forward window of one more label.
NewLabel ==
    /\ labels < MaxLabels
    /\ labels' = labels + 1
    /\ UNCHANGED <<cached, calibrated, registry, call, begun>>

\* The process restarts; the registry stays.
Restart ==
    /\ cached' = NoTraining
    /\ calibrated' = NoFit
    /\ call' = [c \in Callers |-> Idle]
    /\ UNCHANGED <<labels, registry, begun>>

Step(c) ==
    \/ Assemble(c) \/ Fitted(c) \/ SelectDataset(c) \/ InsertDataset(c) \/ Commit(c)
    \/ CacheTraining(c) \/ Calibrate(c) \/ Predict(c)

Next ==
    \/ \E c \in Callers :
         \/ \E op \in Operations, lookback \in Lookbacks : Request(c, op, lookback)
         \/ Step(c)
         \/ DatabaseFails(c)
    \/ NewLabel
    \/ Restart

Spec == Init /\ [][Next]_vars /\ \A c \in Callers : WF_vars(Step(c))

-----------------------------------------------------------------------------
(* An ensemble that answers requests was first entered in the registry,    *)
(* with the outcome of its training, its version if it was fitted, and its *)
(* dataset, whatever failed on the way: "every train() call gets a         *)
(* retraining_runs row" and a model row "linked" to both (ensemble.py).    *)
RegistryExplainsCache ==
    cached # NoTraining =>
        /\ [serial |-> cached.serial, status |-> Status(cached)] \in attempts
        /\ cached.fitted => cached \in versions

(* The three tables agree at every moment, although calls race, fail and   *)
(* restart between their writes: a version has its dataset and exactly the *)
(* attempt that trained it.                                                *)
RegistryWhole ==
    /\ \A v \in versions : v.rows \in datasets
    /\ {v.serial : v \in versions} = {a.serial : a \in {b \in attempts : b.status = "trained"}}

(* Registry and cache tell one story.                                      *)
RegistrySound == RegistryExplainsCache /\ RegistryWhole

(* A calibrated probability whose calibration and ensemble come from the   *)
(* same training is out of sample, even when the calibration was computed  *)
(* by another call and a third one was training meanwhile.                 *)
OutOfSample ==
    \A c \in Callers :
        /\ call[c].pc = "predicting"
        /\ call[c].fit.serial = call[c].training.serial
        => call[c].fit.pairs \cap FittedOn(call[c].training) = {}

(* "Calibration never touches a row any ensemble model was fit on"         *)
(* (calibration.py): of the ensemble that answers, too.                    *)
CalibrationUnseen ==
    \A c \in Callers :
        call[c].pc = "predicting" =>
            call[c].fit.pairs \cap FittedOn(call[c].training) = {}

(* Every call ends: no wait for another call's dataset is for ever.        *)
CallsEnd == \A c \in Callers : []<>(call[c].pc = "idle")
=============================================================================
