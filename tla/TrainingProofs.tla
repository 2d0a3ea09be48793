--------------------------- MODULE TrainingProofs ---------------------------
(***************************************************************************)
(* Proofs about Training for any number of callers, any lookbacks and any  *)
(* number of labels and trainings: registry and cache tell one story, and  *)
(* a calibration is out of sample for the training it is of.               *)
(***************************************************************************)
EXTENDS Training, FiniteSetTheorems, TLAPS

USE TrainingAssumption

Calls == [op : Operations,
          pc : {"idle", "labelling", "fitting", "registering", "inserting",
                "committing", "caching", "calibrating", "predicting"},
          lookback : Lookbacks \cup {0},
          training : Trainings,
          fit : Fits]

-----------------------------------------------------------------------------
(* Types.                                                                  *)

\* What stands for nothing is of the types.
LEMMA Nothing == NoTraining \in Trainings /\ NoFit \in Fits /\ Idle \in Calls
  <1>1. NoTraining \in Trainings
    BY DEF NoTraining, Trainings
  <1>2. NoFit \in Fits
    BY DEF NoFit, Fits
  <1> QED BY <1>1, <1>2 DEF Idle, Calls, Operations

\* A call that goes on, and one that ends, is a call.
LEMMA GoesTyped ==
    ASSUME TypeOK, NEW c \in Callers, NEW pc,
           pc \in {"idle", "labelling", "fitting", "registering", "inserting",
                   "committing", "caching", "calibrating", "predicting"},
           Goes(c, pc)
    PROVE  call' \in [Callers -> Calls]
  <1>1. [call[c] EXCEPT !.pc = pc] \in Calls
    BY DEF TypeOK, Calls
  <1> QED BY <1>1 DEF Goes, TypeOK, Calls

LEMMA EndsTyped == ASSUME TypeOK, NEW c \in Callers, Ends(c) PROVE call' \in [Callers -> Calls]
  BY Nothing DEF Ends, TypeOK, Calls

\* A training begins with the next serial.
LEMMA TrainsTyped ==
    ASSUME TypeOK, NEW c \in Callers, NEW op \in Operations, NEW lookback \in Lookbacks \cup {0},
           NEW fit \in Fits, Trains(c, op, lookback, fit)
    PROVE  call' \in [Callers -> Calls] /\ begun' \in 0..MaxTrainings
  <1>0. begun + 1 \in 0..MaxTrainings
    BY DEF Trains, TypeOK
  <1>1. [NoTraining EXCEPT !.serial = begun + 1] \in Trainings
    BY <1>0, Nothing DEF Trainings
  <1>2. [op |-> op, pc |-> "labelling", lookback |-> lookback, fit |-> fit,
         training |-> [NoTraining EXCEPT !.serial = begun + 1]] \in Calls
    BY <1>1 DEF Calls
  <1> QED BY <1>0, <1>2 DEF Trains, TypeOK, Calls

LEMMA LooksUpTyped ==
    ASSUME TypeOK, NEW c \in Callers, NEW op \in Operations, NEW lookback \in Lookbacks \cup {0},
           NEW fit \in Fits, LooksUp(c, op, lookback, fit)
    PROVE  call' \in [Callers -> Calls] /\ begun' \in 0..MaxTrainings
  <1>1. CASE cached = NoTraining
    BY <1>1, TrainsTyped DEF LooksUp
  <1>2. CASE cached # NoTraining
    <2>1. [op |-> op, pc |-> "predicting", lookback |-> lookback, fit |-> fit,
           training |-> cached] \in Calls
      BY DEF TypeOK, Calls
    <2> QED BY <1>2, <2>1 DEF LooksUp, TypeOK, Calls
  <1> QED BY <1>1, <1>2

\* Only NoTraining has no number: what a call trains or predicts from was begun.
Numbered ==
    /\ cached # NoTraining => cached.serial >= 1
    /\ \A c \in Callers : call[c].pc # "idle" => call[c].training.serial >= 1

\* A commit keeps the three tables well typed.
LEMMA CommitTyped ==
    ASSUME TypeOK, Numbered, NEW c \in Callers, Commit(c)
    PROVE  TypeOK'
  <1> DEFINE training == call[c].training
             attempt == [serial |-> training.serial, status |-> Status(training)]
  <1>1. training \in Trainings /\ training.serial \in 1..MaxTrainings
    BY DEF TypeOK, Numbered, Commit, Trainings
  <1>2. call' \in [Callers -> Calls]
    BY GoesTyped DEF Commit
  <1>3. datasets' \subseteq SUBSET (1..MaxLabels)
    BY <1>1 DEF Commit, TypeOK, Trainings
  <1>4. versions' \subseteq Trainings
    BY <1>1 DEF Commit, TypeOK
  <1>5. attempt \in [serial : 1..MaxTrainings,
                     status : {"insufficient_data", "no_model_fit", "trained"}]
    BY <1>1 DEF Status
  <1>6. attempts' = attempts \cup {attempt}
    BY DEF Commit
  <1> QED BY <1>2, <1>3, <1>4, <1>5, <1>6 DEF Commit, TypeOK, Calls

LEMMA StepTyped == TypeOK /\ Numbered /\ [Next]_vars => TypeOK'
  <1> SUFFICES ASSUME TypeOK, Numbered, [Next]_vars PROVE TypeOK'
    OBVIOUS
  <1> USE DEF Calls
  <1>1. CASE UNCHANGED vars
    BY <1>1 DEF TypeOK, vars, registry
  <1>2. ASSUME NEW c \in Callers, NEW op \in Operations, NEW lookback \in Lookbacks,
               Request(c, op, lookback)
        PROVE  TypeOK'
    <2>1. call' \in [Callers -> Calls] /\ begun' \in 0..MaxTrainings
      <3>1. calibrated \in Fits
        BY DEF TypeOK
      <3>2. CASE LooksUp(c, op, lookback, NoFit)
        BY <3>2, Nothing, LooksUpTyped
      <3>3. CASE LooksUp(c, op, lookback, calibrated)
        BY <3>3, <3>1, LooksUpTyped
      <3>4. CASE Trains(c, op, lookback, NoFit)
        BY <3>4, Nothing, TrainsTyped
      <3> QED BY <1>2, <3>2, <3>3, <3>4 DEF Request
    <2> QED BY <1>2, <2>1 DEF Request, TypeOK, registry
  <1>3. ASSUME NEW c \in Callers, Assemble(c) PROVE TypeOK'
    <2> DEFINE rows == Dataset(call[c].lookback)
    <2>1. rows \in SUBSET (1..MaxLabels)
      BY DEF Dataset, TypeOK
    <2>2. [call[c].training EXCEPT !.rows = rows] \in Trainings
      BY <2>1 DEF TypeOK, Trainings
    <2> HIDE DEF rows
    <2>3. [call[c] EXCEPT !.training.rows = rows,
                          !.pc = IF Cardinality(rows) < MinTraining THEN "registering"
                                 ELSE "fitting"] \in Calls
      BY <2>2 DEF TypeOK
    <2> QED BY <1>3, <2>3 DEF Assemble, rows, TypeOK, registry
  <1>4. ASSUME NEW c \in Callers, Fitted(c) PROVE TypeOK'
    <2>1. PICK fitted \in BOOLEAN :
             call' = [call EXCEPT ![c].training.fitted = fitted, ![c].pc = "registering"]
      BY <1>4 DEF Fitted
    <2>2. [call[c].training EXCEPT !.fitted = fitted] \in Trainings
      BY DEF TypeOK, Trainings
    <2>3. [call[c] EXCEPT !.training.fitted = fitted, !.pc = "registering"] \in Calls
      BY <2>2 DEF TypeOK
    <2> QED BY <1>4, <2>1, <2>3 DEF Fitted, TypeOK, registry
  <1>5. ASSUME NEW c \in Callers, SelectDataset(c) PROVE TypeOK'
    BY <1>5, GoesTyped DEF SelectDataset, TypeOK, registry
  <1>6. ASSUME NEW c \in Callers, InsertDataset(c) PROVE TypeOK'
    BY <1>6, GoesTyped, EndsTyped DEF InsertDataset, TypeOK, registry
  <1>7. ASSUME NEW c \in Callers, Commit(c) PROVE TypeOK'
    BY <1>7, CommitTyped
  <1>8. ASSUME NEW c \in Callers, CacheTraining(c) PROVE TypeOK'
    <2>1. call' \in [Callers -> Calls]
      BY <1>8, GoesTyped, EndsTyped DEF CacheTraining
    <2> QED BY <1>8, <2>1 DEF CacheTraining, TypeOK, registry
  <1>9. ASSUME NEW c \in Callers, Calibrate(c) PROVE TypeOK'
    <2> DEFINE training == call[c].training
               pairs == CalibrationPairs(training)
               fit == IF Cardinality(pairs) < MinCalibration THEN [serial |-> 0, pairs |-> {}]
                      ELSE [serial |-> training.serial, pairs |-> pairs]
    <2>1. training \in Trainings
      BY DEF TypeOK
    <2>2. pairs \subseteq 1..MaxLabels
      BY <2>1 DEF CalibrationPairs, Trainings
    <2>3. fit \in Fits
      BY <2>1, <2>2 DEF Fits, Trainings
    <2>4. /\ calibrated' = fit
          /\ \/ Ends(c) /\ UNCHANGED begun
             \/ LooksUp(c, call[c].op, call[c].lookback, fit)
      BY <1>9 DEF Calibrate
    <2> HIDE DEF fit
    <2>5. call' \in [Callers -> Calls] /\ begun' \in 0..MaxTrainings
      <3>1. CASE Ends(c) /\ UNCHANGED begun
        BY <3>1, EndsTyped DEF TypeOK
      <3>2. CASE LooksUp(c, call[c].op, call[c].lookback, fit)
        BY <3>2, <2>3, LooksUpTyped DEF TypeOK
      <3> QED BY <2>4, <3>1, <3>2
    <2> QED BY <1>9, <2>3, <2>4, <2>5 DEF Calibrate, TypeOK, registry
  <1>10. ASSUME NEW c \in Callers, Predict(c) \/ DatabaseFails(c) PROVE TypeOK'
    BY <1>10, EndsTyped DEF Predict, DatabaseFails, TypeOK, registry
  <1>11. CASE NewLabel
    BY <1>11 DEF NewLabel, TypeOK, registry
  <1>12. CASE Restart
    BY <1>12, Nothing DEF Restart, TypeOK, registry
  <1> QED
    BY <1>1, <1>2, <1>3, <1>4, <1>5, <1>6, <1>7, <1>8, <1>9, <1>10, <1>11, <1>12
    DEF Next, Step

\* A call that begins, or looks up what it predicts from, is numbered.
LEMMA LooksUpNumbered ==
    ASSUME TypeOK, Numbered, NEW c \in Callers, NEW op, NEW lookback, NEW fit,
           LooksUp(c, op, lookback, fit) \/ Trains(c, op, lookback, fit), UNCHANGED cached
    PROVE  Numbered'
  <1>1. CASE Trains(c, op, lookback, fit)
    <2>1. [NoTraining EXCEPT !.serial = begun + 1].serial >= 1
      BY DEF NoTraining, TypeOK
    <2> QED BY <1>1, <2>1 DEF Trains, Numbered, TypeOK
  <1>2. CASE cached # NoTraining /\ LooksUp(c, op, lookback, fit)
    BY <1>2 DEF LooksUp, Numbered, TypeOK
  <1> QED BY <1>1, <1>2 DEF LooksUp

LEMMA StepNumbered == TypeOK /\ Numbered /\ [Next]_vars => Numbered'
  <1> SUFFICES ASSUME TypeOK, Numbered, [Next]_vars PROVE Numbered'
    OBVIOUS
  <1>1. CASE UNCHANGED vars
    BY <1>1 DEF Numbered, vars
  <1>2. ASSUME NEW c \in Callers, NEW op \in Operations, NEW lookback \in Lookbacks,
               Request(c, op, lookback)
        PROVE  Numbered'
    BY <1>2, LooksUpNumbered DEF Request
  <1>3. ASSUME NEW c \in Callers, Calibrate(c) PROVE Numbered'
    <2>1. CASE Ends(c)
      BY <1>3, <2>1 DEF Calibrate, Ends, Idle, Numbered, TypeOK
    <2>2. CASE ~Ends(c)
      BY <1>3, <2>2, LooksUpNumbered DEF Calibrate
    <2> QED BY <2>1, <2>2
  <1>4. ASSUME NEW c \in Callers,
               \/ Assemble(c) \/ Fitted(c) \/ SelectDataset(c) \/ InsertDataset(c) \/ Commit(c)
               \/ CacheTraining(c) \/ Predict(c) \/ DatabaseFails(c)
        PROVE  Numbered'
    <2>1. \A d \in Callers : call'[d].training.serial = call[d].training.serial
                              \/ call'[d].pc = "idle"
      <3>1. CASE Assemble(c) \/ Fitted(c)
        <4>1. \A d \in Callers \ {c} : call'[d] = call[d]
          BY <3>1 DEF Assemble, Fitted, TypeOK
        <4>2. call'[c].training.serial = call[c].training.serial
          <5>1. CASE Assemble(c)
            BY <5>1 DEF Assemble, TypeOK, Trainings
          <5>2. CASE Fitted(c)
            BY <5>2 DEF Fitted, TypeOK, Trainings
          <5> QED BY <3>1, <5>1, <5>2
        <4> QED BY <4>1, <4>2
      <3>2. CASE Ends(c)
        BY <3>2 DEF Ends, Idle, TypeOK
      <3>3. ASSUME NEW pc, Goes(c, pc)
            PROVE  \A d \in Callers : call'[d].training.serial = call[d].training.serial
        BY <3>3 DEF Goes, TypeOK
      <3> QED BY <1>4, <3>1, <3>2, <3>3 DEF SelectDataset, InsertDataset, Commit, CacheTraining,
                                            Predict, DatabaseFails
    <2>2. \A d \in Callers : call[d].pc = "idle" => call'[d].pc = "idle"
      BY <1>4 DEF Assemble, Fitted, SelectDataset, InsertDataset, Commit, CacheTraining,
                  Predict, DatabaseFails, Goes, Ends, Idle, TypeOK
    <2>3. cached' = cached \/ (call[c].pc # "idle" /\ cached' = call[c].training)
      BY <1>4 DEF Assemble, Fitted, SelectDataset, InsertDataset, Commit, CacheTraining,
                  Predict, DatabaseFails
    <2> QED BY <2>1, <2>2, <2>3 DEF Numbered
  <1>5. CASE NewLabel
    BY <1>5 DEF NewLabel, Numbered
  <1>6. CASE Restart
    BY <1>6 DEF Restart, Idle, Numbered
  <1> QED BY <1>1, <1>2, <1>3, <1>4, <1>5, <1>6 DEF Next, Step

(* The caches, the tables and the calls stay within their types.           *)
THEOREM TrainingTyped == Spec => [](TypeOK /\ Numbered)
  <1>1. Init => TypeOK /\ Numbered
    <2> SUFFICES ASSUME Init PROVE TypeOK /\ Numbered
      OBVIOUS
    <2>1. call \in [Callers -> Calls]
      BY Nothing DEF Init
    <2>2. TypeOK
      BY <2>1, Nothing DEF Init, TypeOK, Calls
    <2> QED BY <2>2 DEF Init, Numbered, Idle
  <1>2. TypeOK /\ Numbered /\ [Next]_vars => (TypeOK /\ Numbered)'
    BY StepTyped, StepNumbered
  <1> QED BY <1>1, <1>2, PTL DEF Spec

-----------------------------------------------------------------------------
(* Registry and cache.                                                     *)

\* The registry has the attempt of a training, and its version if there is one.
Explained(training) ==
    /\ [serial |-> training.serial, status |-> Status(training)] \in attempts
    /\ training.fitted => training \in versions

\* A training is fitted on rows, once, and is entered before it is cached.
Registers(c) ==
    /\ call[c].pc \in {"labelling", "fitting"} => ~call[c].training.fitted
    /\ call[c].pc = "fitting" => call[c].training.rows # {}
    /\ call[c].training.fitted => call[c].training.rows # {}
    /\ call[c].pc = "caching" => Explained(call[c].training)

Registered ==
    /\ \A c \in Callers : Registers(c)
    /\ cached.fitted => cached.rows # {}
    /\ RegistrySound

\* What is in the registry stays, so a call that does not move loses nothing.
LEMMA OthersRegister ==
    ASSUME Registered, NEW d \in Callers, call'[d] = call[d],
           versions \subseteq versions', attempts \subseteq attempts'
    PROVE  Registers(d)'
  BY DEF Registered, Registers, Explained, Status

\* So does a cache that does not change.
LEMMA CacheExplained ==
    ASSUME RegistrySound, UNCHANGED <<cached, versions, datasets, attempts>> PROVE RegistrySound'
  BY DEF RegistrySound, RegistryExplainsCache, RegistryWhole, Status

\* A new call has fitted nothing, or predicts from the cache.
LEMMA LooksUpRegistered ==
    ASSUME TypeOK, Registered, NEW c \in Callers, NEW op, NEW lookback, NEW fit,
           LooksUp(c, op, lookback, fit) \/ Trains(c, op, lookback, fit),
           UNCHANGED <<cached, registry>>
    PROVE  Registered'
  <1>1. \A d \in Callers \ {c} : call'[d] = call[d]
    BY DEF LooksUp, Trains, TypeOK
  <1>2. Registers(c)'
    BY DEF LooksUp, Trains, NoTraining, Registers, Registered, TypeOK
  <1>3. RegistrySound'
    BY CacheExplained DEF Registered, registry
  <1> QED BY <1>1, <1>2, <1>3, OthersRegister DEF Registered, registry

\* A commit enters the dataset, the version and the attempt at once.
LEMMA CommitRegisters ==
    ASSUME TypeOK, Registered, NEW c \in Callers, Commit(c)
    PROVE  Registered'
  <1> DEFINE training == call[c].training
             attempt == [serial |-> training.serial, status |-> Status(training)]
  <1>1. /\ datasets' = datasets \cup ({training.rows} \ {{}})
        /\ versions' = IF training.fitted THEN versions \cup {training} ELSE versions
        /\ attempts' = attempts \cup {attempt}
        /\ cached' = cached
    BY DEF Commit
  <1>2. training.fitted => training.rows # {}
    BY DEF Registered, Registers
  <1>3. training.fitted <=> attempt.status = "trained"
    BY DEF Status
  <1>4. /\ attempt \in attempts'
        /\ training.fitted => training \in versions'
    BY <1>1
  <1>5. Registers(c)'
    <2>1. call'[c].pc = "caching" /\ call'[c].training = training
      BY DEF Commit, Goes, TypeOK
    <2>2. attempt' = attempt
      BY <2>1 DEF Status
    <2> QED BY <1>2, <1>4, <2>1, <2>2 DEF Registers, Explained
  <1>6. \A d \in Callers \ {c} : Registers(d)'
    <2>1. \A d \in Callers \ {c} : call'[d] = call[d]
      BY DEF Commit, Goes, TypeOK
    <2> QED BY <1>1, <2>1, OthersRegister
  <1>7. RegistryExplainsCache'
    BY <1>1 DEF Registered, RegistrySound, RegistryExplainsCache, Status
  <1>8. RegistryWhole'
    <2>1. RegistryWhole
      BY DEF Registered, RegistrySound
    <2>2. \A v \in versions' : v.rows \in datasets'
      BY <1>1, <1>2, <2>1 DEF RegistryWhole
    <2>3. {v.serial : v \in versions'} = {a.serial : a \in {b \in attempts' : b.status = "trained"}}
      <3> DEFINE Trained(table) == {b \in table : b.status = "trained"}
      <3>1. {v.serial : v \in versions} = {a.serial : a \in Trained(attempts)}
        BY <2>1 DEF RegistryWhole
      <3>2. CASE training.fitted
        <4>1. versions' = versions \cup {training} /\ Trained(attempts') = Trained(attempts) \cup {attempt}
          BY <1>1, <1>3, <3>2
        <4>2. attempt.serial = training.serial
          OBVIOUS
        <4> HIDE DEF Trained, attempt, training
        <4>3. {v.serial : v \in versions'} = {a.serial : a \in Trained(attempts')}
          BY <3>1, <4>1, <4>2
        <4> QED BY <4>3 DEF Trained
      <3>3. CASE ~training.fitted
        <4>1. versions' = versions /\ Trained(attempts') = Trained(attempts)
          BY <1>1, <1>3, <3>3
        <4> QED BY <3>1, <4>1
      <3> QED BY <3>2, <3>3
    <2> QED BY <2>2, <2>3 DEF RegistryWhole
  <1> QED BY <1>1, <1>5, <1>6, <1>7, <1>8 DEF Registered, RegistrySound

LEMMA StepRegistered == TypeOK /\ Numbered /\ Registered /\ [Next]_vars => Registered'
  <1> SUFFICES ASSUME TypeOK, Numbered, Registered, [Next]_vars PROVE Registered'
    OBVIOUS
  <1>1. ASSUME UNCHANGED <<cached, registry>>, NEW c \in Callers, Registers(c)',
               \A d \in Callers \ {c} : call'[d] = call[d]
        PROVE  Registered'
    BY <1>1, OthersRegister, CacheExplained DEF Registered, registry
  <1>2. ASSUME NEW c \in Callers, Ends(c)
        PROVE  Registers(c)' /\ \A d \in Callers \ {c} : call'[d] = call[d]
    BY <1>2 DEF Ends, Idle, NoTraining, Registers, TypeOK
  <1>3. ASSUME NEW c \in Callers, NEW pc, Goes(c, pc), pc \notin {"labelling", "fitting", "caching"}
        PROVE  Registers(c)' /\ \A d \in Callers \ {c} : call'[d] = call[d]
    BY <1>3 DEF Goes, Registered, Registers, TypeOK
  <1>4. CASE UNCHANGED vars
    <2>1. \A d \in Callers : Registers(d)'
      BY <1>4, OthersRegister DEF vars, registry
    <2> QED BY <1>4, <2>1, CacheExplained DEF Registered, vars, registry
  <1>5. ASSUME NEW c \in Callers, NEW op \in Operations, NEW lookback \in Lookbacks,
               Request(c, op, lookback)
        PROVE  Registered'
    BY <1>5, LooksUpRegistered DEF Request
  <1>6. ASSUME NEW c \in Callers, Assemble(c) PROVE Registered'
    <2> DEFINE rows == Dataset(call[c].lookback)
    <2>1. rows = {} => Cardinality(rows) < MinTraining
      BY FS_EmptySet
    <2> HIDE DEF rows
    <2>2. /\ ~call[c].training.fitted
          /\ call' = [call EXCEPT ![c].training.rows = rows,
                                  ![c].pc = IF Cardinality(rows) < MinTraining THEN "registering"
                                            ELSE "fitting"]
      BY <1>6 DEF Assemble, Registered, Registers, rows
    <2>3. /\ ~call'[c].training.fitted
          /\ call'[c].training.rows = rows
          /\ call'[c].pc = IF Cardinality(rows) < MinTraining THEN "registering" ELSE "fitting"
          /\ \A d \in Callers \ {c} : call'[d] = call[d]
      BY <2>2 DEF TypeOK, Trainings
    <2>4. Registers(c)'
      BY <2>1, <2>3 DEF Registers
    <2> QED BY <1>1, <1>6, <2>3, <2>4 DEF Assemble
  <1>7. ASSUME NEW c \in Callers, Fitted(c) PROVE Registered'
    <2>1. /\ call[c].training.rows # {}
          /\ call'[c].training.rows = call[c].training.rows
          /\ call'[c].pc = "registering"
          /\ \A d \in Callers \ {c} : call'[d] = call[d]
      BY <1>7 DEF Fitted, Registered, Registers, TypeOK, Trainings
    <2>2. Registers(c)'
      BY <2>1 DEF Registers
    <2> QED BY <1>1, <1>7, <2>1, <2>2 DEF Fitted
  <1>8. ASSUME NEW c \in Callers, SelectDataset(c) PROVE Registered'
    BY <1>1, <1>3, <1>8 DEF SelectDataset
  <1>9. ASSUME NEW c \in Callers, InsertDataset(c) PROVE Registered'
    BY <1>1, <1>2, <1>3, <1>9 DEF InsertDataset
  <1>10. ASSUME NEW c \in Callers, Commit(c) PROVE Registered'
    BY <1>10, CommitRegisters
  <1>11. ASSUME NEW c \in Callers, CacheTraining(c) PROVE Registered'
    <2>1. /\ Explained(call[c].training)
          /\ call[c].training.fitted => call[c].training.rows # {}
      BY <1>11 DEF CacheTraining, Registered, Registers
    <2>2. /\ cached' = call[c].training
          /\ UNCHANGED <<datasets, versions, attempts>>
          /\ Registers(c)' /\ \A d \in Callers \ {c} : call'[d] = call[d]
      BY <1>2, <1>3, <1>11 DEF CacheTraining, registry
    <2>3. RegistrySound'
      BY <2>1, <2>2 DEF Registered, RegistrySound, RegistryExplainsCache, RegistryWhole,
                        Explained, Status
    <2> QED BY <2>1, <2>2, <2>3, OthersRegister DEF Registered
  <1>12. ASSUME NEW c \in Callers, Calibrate(c) PROVE Registered'
    <2>1. CASE Ends(c)
      BY <1>1, <1>2, <1>12, <2>1 DEF Calibrate
    <2>2. CASE ~Ends(c)
      BY <1>12, <2>2, LooksUpRegistered DEF Calibrate
    <2> QED BY <2>1, <2>2
  <1>13. ASSUME NEW c \in Callers, Predict(c) \/ DatabaseFails(c) PROVE Registered'
    BY <1>1, <1>2, <1>13 DEF Predict, DatabaseFails
  <1>14. CASE NewLabel
    <2>1. \A d \in Callers : Registers(d)'
      BY <1>14, OthersRegister DEF NewLabel, registry
    <2> QED BY <1>14, <2>1, CacheExplained DEF NewLabel, Registered, registry
  <1>15. CASE Restart
    <2>1. \A d \in Callers : Registers(d)'
      BY <1>15 DEF Restart, Registers, Idle, NoTraining
    <2>2. RegistrySound'
      BY <1>15 DEF Restart, Registered, RegistrySound, RegistryExplainsCache, RegistryWhole,
                   registry, Status
    <2> QED BY <1>15, <2>1, <2>2 DEF Restart, Registered, NoTraining
  <1> QED
    BY <1>4, <1>5, <1>6, <1>7, <1>8, <1>9, <1>10, <1>11, <1>12, <1>13, <1>14, <1>15
    DEF Next, Step

(* Whatever races, fails or restarts, an ensemble that answers requests is *)
(* in the registry, and the three tables of the registry agree.            *)
THEOREM RegistrySafe == Spec => []RegistrySound
  <1>1. Init => Registered
    BY DEF Init, Registered, Registers, RegistrySound, RegistryExplainsCache, RegistryWhole,
           Idle, NoTraining
  <1>2. TypeOK /\ Numbered /\ Registered /\ [Next]_vars => Registered'
    BY StepRegistered
  <1>3. Registered => RegistrySound
    BY DEF Registered
  <1> QED BY <1>1, <1>2, <1>3, TrainingTyped, PTL DEF Spec

-----------------------------------------------------------------------------
(* Calibrations.                                                           *)

\* Trainings whose rows and fit no longer change: those of calls past the fitting, and
\* the cached one.
Held ==
    {call[c].training : c \in {d \in Callers : call[d].pc \in
        {"registering", "inserting", "committing", "caching", "calibrating", "predicting"}}}
    \cup ({cached} \ {NoTraining})

FitsInUse == {NoFit, calibrated} \cup {call[c].fit : c \in Callers}

\* Calls whose training still changes, with its serial.
Pending ==
    {<<c, call[c].training.serial>> : c \in {d \in Callers : call[d].pc \in {"labelling", "fitting"}}}

\* A serial below n names one training, of a call or held, and a fit with that serial is
\* the fit of the holdout rows of that training.
Consistent(held, fits, pending, n) ==
    /\ held \subseteq Trainings /\ fits \subseteq Fits /\ n \in Nat
    /\ \A t \in held : t.serial \in 1..n
    /\ \A p \in pending : p[2] \in 1..n
    /\ \A f \in fits : f.serial <= n /\ (f.serial < 1 => f.pairs = {})
    /\ \A t, u \in held : t.serial = u.serial => t = u
    /\ \A p, q \in pending : p[2] = q[2] => p = q
    /\ \A p \in pending : /\ \A t \in held : t.serial # p[2]
                          /\ \A f \in fits : f.serial # p[2]
    /\ \A t \in held, f \in fits : f.serial = t.serial => f.pairs = CalibrationPairs(t)

Calibrated == Consistent(Held, FitsInUse, Pending, begun)

\* What is forgotten confuses nothing.
LEMMA Shrinks ==
    ASSUME NEW held, NEW fits, NEW pending, NEW n, Consistent(held, fits, pending, n),
           NEW fewerHeld \in SUBSET held, NEW fewerFits \in SUBSET fits,
           NEW fewerPending \in SUBSET pending
    PROVE  Consistent(fewerHeld, fewerFits, fewerPending, n)
  BY DEF Consistent

\* A new serial is nobody's yet.
LEMMA Begins ==
    ASSUME NEW held, NEW fits, NEW pending, NEW n, Consistent(held, fits, pending, n), NEW c
    PROVE  Consistent(held, fits, pending \cup {<<c, n + 1>>}, n + 1)
  BY DEF Consistent, Trainings, Fits

\* A training that ends is held instead of pending.
LEMMA Finishes ==
    ASSUME NEW held, NEW fits, NEW pending, NEW n, Consistent(held, fits, pending, n),
           NEW p \in pending, NEW t \in Trainings, t.serial = p[2]
    PROVE  Consistent(held \cup {t}, fits, pending \ {p}, n)
  BY DEF Consistent

\* The fit of a held training, or of too few pairs, may be used with any.
LEMMA FitAdded ==
    ASSUME NEW held, NEW fits, NEW pending, NEW n, Consistent(held, fits, pending, n),
           NEW t \in held, NEW f \in Fits,
           \/ f.serial = 0 /\ f.pairs = {}
           \/ f.serial = t.serial /\ f.pairs = CalibrationPairs(t)
    PROVE  Consistent(held, fits \cup {f}, pending, n)
  BY DEF Consistent, Trainings, Fits

\* A step after which call c is k leaves the three sets within held, fits and pending.
MovesInto(c, k, held, fits, pending) ==
    /\ call' = [call EXCEPT ![c] = k]
    /\ Held \subseteq held /\ FitsInUse \subseteq fits
    /\ \A q \in Pending : q[1] # c => q \in pending
    /\ cached' \in held \cup {NoTraining} /\ calibrated' \in fits /\ k.fit \in fits
    /\ k.pc \in {"registering", "inserting", "committing", "caching", "calibrating", "predicting"}
           => k.training \in held
    /\ k.pc \in {"labelling", "fitting"} => <<c, k.training.serial>> \in pending

LEMMA Moved ==
    ASSUME TypeOK, NEW c \in Callers, NEW k, NEW held, NEW fits, NEW pending,
           MovesInto(c, k, held, fits, pending)
    PROVE  Held' \subseteq held /\ FitsInUse' \subseteq fits /\ Pending' \subseteq pending
  <1> USE DEF MovesInto
  <1>1. call'[c] = k /\ \A d \in Callers \ {c} : call'[d] = call[d]
    BY DEF TypeOK
  <1>2. Held' \subseteq held
    BY <1>1 DEF Held
  <1>3. FitsInUse' \subseteq fits
    BY <1>1 DEF FitsInUse
  <1>4. Pending' \subseteq pending
    <2>1. \A d \in Callers \ {c} : call[d].pc \in {"labelling", "fitting"}
                                   => <<d, call[d].training.serial>> \in pending
      BY DEF Pending
    <2> QED BY <1>1, <2>1 DEF Pending
  <1> QED BY <1>2, <1>3, <1>4

\* A call that begins, or predicts from the cache, with a fit in use.
LEMMA LooksUpCalibrated ==
    ASSUME TypeOK, NEW fits, Consistent(Held, fits, Pending, begun), FitsInUse \subseteq fits,
           NEW c \in Callers, NEW op, NEW lookback, NEW fit \in fits,
           LooksUp(c, op, lookback, fit) \/ Trains(c, op, lookback, fit),
           cached' = cached, calibrated' \in fits
    PROVE  Calibrated'
  <1>1. CASE Trains(c, op, lookback, fit)
    <2> DEFINE k == [op |-> op, pc |-> "labelling", lookback |-> lookback, fit |-> fit,
                     training |-> [NoTraining EXCEPT !.serial = begun + 1]]
    <2>1. k.training.serial = begun + 1
      BY DEF NoTraining
    <2>2. call' = [call EXCEPT ![c] = k] /\ begun' = begun + 1
      BY <1>1 DEF Trains
    <2>3. k.fit = fit /\ k.pc = "labelling"
      OBVIOUS
    <2>4. cached \in Held \cup {NoTraining}
      BY DEF Held
    <2> HIDE DEF k
    <2>5. MovesInto(c, k, Held, fits, Pending \cup {<<c, begun + 1>>})
      BY <2>1, <2>2, <2>3, <2>4 DEF MovesInto
    <2>6. /\ Held' \subseteq Held /\ FitsInUse' \subseteq fits
          /\ Pending' \subseteq Pending \cup {<<c, begun + 1>>}
      BY <2>5, Moved
    <2>7. Consistent(Held, fits, Pending \cup {<<c, begun + 1>>}, begun + 1)
      BY Begins
    <2> QED BY <2>2, <2>6, <2>7, Shrinks DEF Calibrated
  <1>2. CASE cached # NoTraining /\ LooksUp(c, op, lookback, fit)
    <2> DEFINE k == [op |-> op, pc |-> "predicting", lookback |-> lookback, fit |-> fit,
                     training |-> cached]
    <2>1. call' = [call EXCEPT ![c] = k] /\ begun' = begun
      BY <1>2 DEF LooksUp
    <2>2. k.fit = fit /\ k.pc = "predicting" /\ k.training = cached
      OBVIOUS
    <2>3. cached \in Held
      BY <1>2 DEF Held
    <2> HIDE DEF k
    <2>4. MovesInto(c, k, Held, fits, Pending)
      BY <2>1, <2>2, <2>3 DEF MovesInto
    <2>5. Held' \subseteq Held /\ FitsInUse' \subseteq fits /\ Pending' \subseteq Pending
      BY <2>4, Moved
    <2> QED BY <2>1, <2>5, Shrinks DEF Calibrated
  <1> QED BY <1>1, <1>2 DEF LooksUp

\* A call that goes on with what it has, or ends.
LEMMA GoesCalibrated ==
    ASSUME TypeOK, Calibrated, NEW c \in Callers, UNCHANGED <<calibrated, begun>>,
           cached' \in Held \cup {NoTraining},
           \/ Ends(c)
           \/ \E pc \in {"registering", "inserting", "committing", "caching", "calibrating",
                         "predicting"} :
                Goes(c, pc) /\ call[c].training \in Held
    PROVE  Calibrated'
  <1> DEFINE Into(k) == MovesInto(c, k, Held, FitsInUse, Pending)
  <1>1. \E k : Into(k)
    <2>1. CASE Ends(c)
      <3>1. Idle.pc = "idle" /\ Idle.fit = NoFit
        BY DEF Idle
      <3>2. Into(Idle)
        BY <2>1, <3>1 DEF MovesInto, Ends, FitsInUse
      <3> QED BY <3>2
    <2>2. ASSUME NEW pc \in {"registering", "inserting", "committing", "caching", "calibrating",
                             "predicting"},
                 Goes(c, pc), call[c].training \in Held
          PROVE  \E k : Into(k)
      <3> DEFINE k == [call[c] EXCEPT !.pc = pc]
      <3>1. k.pc = pc /\ k.fit = call[c].fit /\ k.training = call[c].training
        BY DEF TypeOK
      <3>2. call' = [call EXCEPT ![c] = k]
        BY <2>2 DEF Goes
      <3> HIDE DEF k
      <3>3. Into(k)
        BY <2>2, <3>1, <3>2 DEF MovesInto, FitsInUse
      <3> QED BY <3>3
    <2> QED BY <2>1, <2>2
  <1>2. PICK k : Into(k)
    BY <1>1
  <1>3. Held' \subseteq Held /\ FitsInUse' \subseteq FitsInUse /\ Pending' \subseteq Pending
    BY <1>2, Moved
  <1> QED BY <1>3, Shrinks DEF Calibrated

\* A call whose training will not change any more.
LEMMA FinishesCalibrated ==
    ASSUME TypeOK, Calibrated, NEW c \in Callers, call[c].pc \in {"labelling", "fitting"},
           NEW training \in Trainings, training.serial = call[c].training.serial,
           call' = [call EXCEPT ![c].training = training, ![c].pc = "registering"],
           UNCHANGED <<cached, calibrated, begun>>
    PROVE  Calibrated'
  <1> DEFINE k == [call[c] EXCEPT !.training = training, !.pc = "registering"]
             mine == <<c, call[c].training.serial>>
  <1>1. k.pc = "registering" /\ k.fit = call[c].fit /\ k.training = training
    BY DEF TypeOK
  <1>2. call' = [call EXCEPT ![c] = k]
    OBVIOUS
  <1>3. mine \in Pending /\ mine[1] = c /\ mine[2] = training.serial
    BY DEF Pending
  <1> HIDE DEF k, mine
  <1>4. MovesInto(c, k, Held \cup {training}, FitsInUse, Pending \ {mine})
    BY <1>1, <1>2, <1>3 DEF MovesInto, FitsInUse, Held
  <1>5. /\ Held' \subseteq Held \cup {training} /\ FitsInUse' \subseteq FitsInUse
        /\ Pending' \subseteq Pending \ {mine}
    BY <1>4, Moved
  <1>6. Consistent(Held \cup {training}, FitsInUse, Pending \ {mine}, begun)
    BY <1>3, Finishes DEF Calibrated
  <1> QED BY <1>5, <1>6, Shrinks DEF Calibrated

LEMMA StepCalibrated == TypeOK /\ Calibrated /\ [Next]_vars => Calibrated'
  <1> SUFFICES ASSUME TypeOK, Calibrated, [Next]_vars PROVE Calibrated'
    OBVIOUS
  <1>1. ASSUME UNCHANGED <<cached, calibrated, call, begun>> PROVE Calibrated'
    BY <1>1 DEF Calibrated, Consistent, Held, FitsInUse, Pending
  <1>2. cached \in Held \cup {NoTraining}
    BY DEF Held
  <1>3. ASSUME NEW c \in Callers, call[c].pc \in {"registering", "inserting", "committing",
                                                 "caching", "calibrating", "predicting"}
        PROVE  call[c].training \in Held
    BY <1>3 DEF Held
  <1>4. ASSUME NEW c \in Callers, NEW op \in Operations, NEW lookback \in Lookbacks,
               Request(c, op, lookback)
        PROVE  Calibrated'
    <2>1. NoFit \in FitsInUse /\ calibrated \in FitsInUse
      BY DEF FitsInUse
    <2>2. /\ cached' = cached /\ calibrated' \in FitsInUse
          /\ \E fit \in FitsInUse : \/ LooksUp(c, op, lookback, fit)
                                  \/ Trains(c, op, lookback, fit)
      BY <1>4, <2>1 DEF Request
    <2> QED BY <2>2, LooksUpCalibrated DEF Calibrated
  <1>5. ASSUME NEW c \in Callers, Assemble(c) PROVE Calibrated'
    <2> DEFINE rows == Dataset(call[c].lookback)
               training == [call[c].training EXCEPT !.rows = rows]
    <2>1. rows \in SUBSET (1..MaxLabels)
      BY DEF Dataset, TypeOK
    <2>2. training \in Trainings /\ training.serial = call[c].training.serial
      BY <2>1 DEF TypeOK, Trainings
    <2> HIDE DEF rows
    <2>3. CASE Cardinality(rows) < MinTraining
      <3>1. call' = [call EXCEPT ![c].training = training, ![c].pc = "registering"]
        BY <1>5, <2>3 DEF Assemble, rows
      <3> HIDE DEF training
      <3> QED BY <1>5, <2>2, <3>1, FinishesCalibrated DEF Assemble
    <2>4. CASE ~(Cardinality(rows) < MinTraining)
      <3> DEFINE k == [call[c] EXCEPT !.training = training, !.pc = "fitting"]
      <3>1. k.pc = "fitting" /\ k.fit = call[c].fit /\ k.training = training
        BY DEF TypeOK
      <3>2. call' = [call EXCEPT ![c] = k]
        BY <1>5, <2>4 DEF Assemble, rows
      <3>3. <<c, call[c].training.serial>> \in Pending
        BY <1>5 DEF Assemble, Pending
      <3> HIDE DEF k, training
      <3>4. MovesInto(c, k, Held, FitsInUse, Pending)
        BY <1>2, <1>5, <2>2, <3>1, <3>2, <3>3 DEF MovesInto, FitsInUse, Assemble
      <3>5. Held' \subseteq Held /\ FitsInUse' \subseteq FitsInUse /\ Pending' \subseteq Pending
        BY <3>4, Moved
      <3> QED BY <1>5, <3>5, Shrinks DEF Calibrated, Assemble
    <2> QED BY <2>3, <2>4
  <1>6. ASSUME NEW c \in Callers, Fitted(c) PROVE Calibrated'
    <2>1. PICK fitted \in BOOLEAN :
             call' = [call EXCEPT ![c].training.fitted = fitted, ![c].pc = "registering"]
      BY <1>6 DEF Fitted
    <2> DEFINE training == [call[c].training EXCEPT !.fitted = fitted]
    <2>2. training \in Trainings /\ training.serial = call[c].training.serial
      BY DEF TypeOK, Trainings
    <2>3. call' = [call EXCEPT ![c].training = training, ![c].pc = "registering"]
      BY <2>1
    <2> HIDE DEF training
    <2> QED BY <1>6, <2>2, <2>3, FinishesCalibrated DEF Fitted
  <1>7. ASSUME NEW c \in Callers, SelectDataset(c) \/ InsertDataset(c) \/ Commit(c)
        PROVE  Calibrated'
    <2>1. call[c].training \in Held
      BY <1>3, <1>7 DEF SelectDataset, InsertDataset, Commit
    <2> QED BY <1>2, <1>7, <2>1, GoesCalibrated DEF SelectDataset, InsertDataset, Commit
  <1>8. ASSUME NEW c \in Callers, CacheTraining(c) PROVE Calibrated'
    <2>1. call[c].training \in Held
      BY <1>3, <1>8 DEF CacheTraining
    <2> QED BY <1>8, <2>1, GoesCalibrated DEF CacheTraining
  <1>9. ASSUME NEW c \in Callers, Calibrate(c) PROVE Calibrated'
    <2> DEFINE training == call[c].training
               pairs == CalibrationPairs(training)
               fit == IF Cardinality(pairs) < MinCalibration THEN [serial |-> 0, pairs |-> {}]
                      ELSE [serial |-> training.serial, pairs |-> pairs]
    <2>1. training \in Held /\ training \in Trainings
      BY <1>3, <1>9 DEF Calibrate, TypeOK
    <2>2. pairs \subseteq 1..MaxLabels
      BY <2>1 DEF CalibrationPairs, Trainings
    <2>3. /\ fit \in Fits
          /\ \/ fit.serial = 0 /\ fit.pairs = {}
             \/ fit.serial = training.serial /\ fit.pairs = CalibrationPairs(training)
      BY <2>1, <2>2 DEF Fits, Trainings
    <2>4. /\ calibrated' = fit /\ cached' = cached
          /\ \/ Ends(c) /\ UNCHANGED begun
             \/ LooksUp(c, call[c].op, call[c].lookback, fit)
      BY <1>9 DEF Calibrate
    <2> HIDE DEF fit, pairs, training
    <2> DEFINE fits == FitsInUse \cup {fit}
    <2>5. Consistent(Held, fits, Pending, begun)
      BY <2>1, <2>3, FitAdded DEF Calibrated
    <2>6. calibrated' \in fits /\ fit \in fits /\ NoFit \in fits /\ FitsInUse \subseteq fits
      BY <2>4 DEF FitsInUse
    <2> HIDE DEF fits
    <2>7. CASE Ends(c) /\ UNCHANGED begun
      <3>1. Idle.pc = "idle" /\ Idle.fit = NoFit
        BY DEF Idle
      <3>2. MovesInto(c, Idle, Held, fits, Pending)
        BY <1>2, <2>4, <2>6, <2>7, <3>1 DEF MovesInto, Ends
      <3>3. Held' \subseteq Held /\ FitsInUse' \subseteq fits /\ Pending' \subseteq Pending
        BY <3>2, Moved
      <3> QED BY <2>5, <2>7, <3>3, Shrinks DEF Calibrated
    <2>8. CASE LooksUp(c, call[c].op, call[c].lookback, fit)
      BY <2>4, <2>5, <2>6, <2>8, LooksUpCalibrated
    <2> QED BY <2>4, <2>7, <2>8
  <1>10. ASSUME NEW c \in Callers, Predict(c) \/ DatabaseFails(c) PROVE Calibrated'
    BY <1>2, <1>10, GoesCalibrated DEF Predict, DatabaseFails
  <1>11. CASE Restart
    <2>1. \A c \in Callers : call'[c] = Idle
      BY <1>11 DEF Restart
    <2>2. Held' = {}
      BY <1>11, <2>1 DEF Restart, Held, Idle
    <2>3. FitsInUse' \subseteq FitsInUse
      BY <1>11, <2>1 DEF Restart, FitsInUse, Idle
    <2>4. Pending' = {}
      BY <2>1 DEF Pending, Idle
    <2> QED BY <1>11, <2>2, <2>3, <2>4, Shrinks DEF Restart, Calibrated
  <1>12. CASE UNCHANGED vars \/ NewLabel
    BY <1>1, <1>12 DEF vars, NewLabel
  <1> QED
    BY <1>4, <1>5, <1>6, <1>7, <1>8, <1>9, <1>10, <1>11, <1>12 DEF Next, Step

(* A calibration and an ensemble of one training never share a row that    *)
(* the ensemble was fitted on, whichever calls computed the two.           *)
THEOREM SampleSafe == Spec => []OutOfSample
  <1>1. Init => Calibrated
    <2> SUFFICES ASSUME Init PROVE Calibrated
      OBVIOUS
    <2>1. Held = {}
      BY DEF Init, Held, Idle
    <2>2. FitsInUse \subseteq {NoFit}
      BY DEF Init, FitsInUse, Idle
    <2>3. Pending = {}
      BY DEF Init, Pending, Idle
    <2>4. NoFit.serial = -1 /\ NoFit.pairs = {} /\ NoFit \in Fits
      BY Nothing DEF NoFit
    <2> QED BY <2>1, <2>2, <2>3, <2>4 DEF Init, Calibrated, Consistent
  <1>2. TypeOK /\ Calibrated /\ [Next]_vars => Calibrated'
    BY StepCalibrated
  <1>3. Calibrated => OutOfSample
    <2> SUFFICES ASSUME Calibrated, NEW c \in Callers, call[c].pc = "predicting",
                        call[c].fit.serial = call[c].training.serial
                 PROVE  call[c].fit.pairs \cap FittedOn(call[c].training) = {}
      BY DEF OutOfSample
    <2>1. call[c].training \in Held /\ call[c].fit \in FitsInUse
      BY DEF Held, FitsInUse
    <2>2. call[c].fit.pairs = CalibrationPairs(call[c].training)
      BY <2>1 DEF Calibrated, Consistent
    <2> QED BY <2>2 DEF CalibrationPairs
  <1> QED BY <1>1, <1>2, <1>3, TrainingTyped, PTL DEF Spec
=============================================================================
