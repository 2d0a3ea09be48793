------------------------- MODULE FeatureStoreProofs -------------------------
(***************************************************************************)
(* Proofs about FeatureStore for any engines, features and runs, and any   *)
(* number of candles.                                                      *)
(***************************************************************************)
EXTENDS FeatureStore, WellFoundedInduction, TLAPS

Steps == {"idle", "computed", "storing", "merging", "refreshing", "setting"}

\* A set with one bar, or none.
AtMostOne(batch) == batch = {} \/ \E b \in Bars : batch = {b}

\* What a run that is past the offline store has in hand is stored.
InHandIsStored ==
    \A r \in Runs, f \in Features :
        /\ run[r].payload[f] # 0 => run[r].payload[f] \in offline[f]
        /\ run[r].pc \in {"merging", "refreshing", "setting"} =>
             run[r].batch[f] \subseteq offline[f] /\ AtMostOne(run[r].batch[f])

IInv == TypeOK /\ OnlineIsStored /\ InHandIsStored

\* The newest of one bar is that bar.
LEMMA NewestOfOne == ASSUME NEW b \in Bars PROVE Newest({b}) = b
  <1>1. b \in Nat
    BY StoreAssumption DEF Bars, StoreAssumption
  <1>2. \A x \in {b, 0} : (\A y \in {b, 0} : x >= y) => x = b
    BY <1>1
  <1>3. b \in {b, 0} /\ \A y \in {b, 0} : b >= y
    BY <1>1
  <1>4. Max({b, 0}) = b
    BY <1>2, <1>3 DEF Max
  <1>5. {b} \cup {0} = {b, 0}
    OBVIOUS
  <1> QED BY <1>4, <1>5 DEF Newest

\* What a run publishes is an entry of stored values.
LEMMA PublishedIsStored ==
    ASSUME IInv, NEW r \in Runs, run[r].pc = "setting"
    PROVE  /\ Published(r) \in Entries
           /\ \A f \in Features : Published(r)[f] # 0 => Published(r)[f] \in offline[f]
  <1>1. ASSUME NEW f \in Features
        PROVE  /\ Published(r)[f] \in 0..MaxBars
               /\ Published(r)[f] # 0 => Published(r)[f] \in offline[f]
    <2>1. CASE run[r].batch[f] = {}
      <3>1. Published(r)[f] = run[r].payload[f]
        BY <2>1 DEF Published
      <3> QED BY <3>1 DEF IInv, TypeOK, InHandIsStored, Entries
    <2>2. CASE run[r].batch[f] # {}
      <3>1. PICK b \in Bars : run[r].batch[f] = {b}
        BY <2>2 DEF IInv, InHandIsStored, AtMostOne
      <3>2. Published(r)[f] = b /\ b \in offline[f]
        BY <2>2, <3>1, NewestOfOne DEF Published, IInv, InHandIsStored
      <3> QED BY <3>2, StoreAssumption DEF Bars, StoreAssumption
    <2> QED BY <2>1, <2>2
  <1> QED BY <1>1 DEF Published, Entries

LEMMA IdleTyped ==
    ASSUME TypeOK
    PROVE  Idle \in [pc : Steps, mode : Modes, batch : [Features -> SUBSET (1..bars)],
                     payload : Entries]
  BY StoreAssumption DEF Idle, Steps, Modes, NoBatch, Absent, Entries, StoreAssumption

\* Loading takes nothing from either store.
LEMMA LoadPreserves ==
    ASSUME IInv, NEW r \in Runs, NEW e \in Engines, NEW mode \in Modes,
           NEW first \in 1..bars, NEW last \in 1..bars, Load(r, e, mode, first, last)
    PROVE  IInv'
  <1> DEFINE new == [pc |-> "computed", mode |-> mode, payload |-> Absent,
                     batch |-> [f \in Features |->
                                  IF f \in Computed(e) THEN first..last ELSE {}]]
  <1>1. /\ run' = [run EXCEPT ![r] = new]
        /\ UNCHANGED <<bars, referenced, offline, online>>
        /\ disturbed' \subseteq {"fault", "race", "range"}
    BY DEF Load, IInv, TypeOK
  <1>2. new \in [pc : Steps, mode : Modes, batch : [Features -> SUBSET (1..bars)],
                 payload : Entries]
    <2>1. bars \in Nat /\ first..last \subseteq 1..bars
      BY StoreAssumption DEF IInv, TypeOK, StoreAssumption
    <2>2. Absent \in Entries
      BY StoreAssumption DEF Absent, Entries, StoreAssumption
    <2> QED BY <2>1, <2>2 DEF Steps
  <1>3. TypeOK'
    BY <1>1, <1>2 DEF IInv, TypeOK, Steps
  <1>4. run'[r] = new /\ \A q \in Runs \ {r} : run'[q] = run[q]
    BY <1>1 DEF IInv, TypeOK
  <1>5. \A f \in Features : new.payload[f] = 0
    BY DEF Absent
  <1>6. InHandIsStored'
    BY <1>1, <1>4, <1>5 DEF IInv, InHandIsStored
  <1>7. OnlineIsStored'
    BY <1>1 DEF IInv, OnlineIsStored
  <1> QED BY <1>3, <1>6, <1>7 DEF IInv

\* A run that goes on, or ends, with what it has in hand stored.
LEMMA MovePreserves ==
    ASSUME IInv, NEW r \in Runs,
           NEW new \in [pc : Steps, mode : Modes, batch : [Features -> SUBSET (1..bars)],
                        payload : Entries],
           run' = [run EXCEPT ![r] = new],
           offline' \in [Features -> SUBSET (1..bars)],
           \A f \in Features : offline[f] \subseteq offline'[f],
           online' \in Entries,
           \A f \in Features : online'[f] # 0 => online'[f] \in offline'[f],
           \A f \in Features : new.payload[f] # 0 => new.payload[f] \in offline'[f],
           new.pc \in {"merging", "refreshing", "setting"} =>
             \A f \in Features : new.batch[f] \subseteq offline'[f] /\ AtMostOne(new.batch[f]),
           disturbed' \subseteq {"fault", "race", "range"},
           UNCHANGED <<bars, referenced>>
    PROVE  IInv'
  <1>1. TypeOK'
    BY DEF IInv, TypeOK, Steps
  <1>2. OnlineIsStored'
    BY DEF OnlineIsStored
  <1>3. run'[r] = new /\ \A q \in Runs \ {r} : run'[q] = run[q]
    BY DEF IInv, TypeOK
  <1>4. ASSUME NEW q \in Runs, NEW f \in Features
        PROVE  /\ run'[q].payload[f] # 0 => run'[q].payload[f] \in offline'[f]
               /\ run'[q].pc \in {"merging", "refreshing", "setting"} =>
                    run'[q].batch[f] \subseteq offline'[f] /\ AtMostOne(run'[q].batch[f])
    <2>1. CASE q = r
      BY <2>1, <1>3
    <2>2. CASE q # r
      BY <2>2, <1>3 DEF IInv, InHandIsStored
    <2> QED BY <2>1, <2>2
  <1>5. InHandIsStored'
    BY <1>4 DEF InHandIsStored, AtMostOne
  <1> QED BY <1>1, <1>2, <1>5 DEF IInv

\* The watermarks leave part of the batch, or nothing.
LEMMA ComparePreserves == ASSUME IInv, NEW r \in Runs, Compare(r) PROVE IInv'
  <1> DEFINE batch == IF run[r].mode = "incremental" THEN NewValues(run[r].batch)
                      ELSE run[r].batch
             next == IF batch # NoBatch THEN "storing"
                     ELSE IF run[r].mode = "incremental" THEN "refreshing" ELSE "idle"
             new == IF next = "idle" THEN Idle
                    ELSE [run[r] EXCEPT !.batch = batch, !.pc = next]
  <1>1. /\ run' = [run EXCEPT ![r] = new]
        /\ UNCHANGED <<bars, referenced, offline, online, disturbed>>
    BY DEF Compare
  <1>2. /\ run[r] \in [pc : Steps, mode : Modes, batch : [Features -> SUBSET (1..bars)],
                       payload : Entries]
        /\ offline \in [Features -> SUBSET (1..bars)] /\ online \in Entries
        /\ disturbed \subseteq {"fault", "race", "range"}
    BY DEF IInv, TypeOK, Steps
  <1>3. batch \in [Features -> SUBSET (1..bars)]
    BY <1>2 DEF NewValues
  <1>4. /\ new \in [pc : Steps, mode : Modes, batch : [Features -> SUBSET (1..bars)],
                    payload : Entries]
        /\ \A f \in Features : new.payload[f] # 0 => new.payload[f] \in offline[f]
        /\ new.pc \in {"merging", "refreshing", "setting"} =>
             \A f \in Features : new.batch[f] = {}
    <2>1. CASE next = "idle"
      BY <2>1, <1>3, IdleTyped DEF Idle, Absent, IInv
    <2>2. CASE next # "idle"
      <3>1. new = [run[r] EXCEPT !.batch = batch, !.pc = next]
        BY <2>2
      <3>2. next \in Steps /\ (next = "refreshing" => batch = NoBatch)
            /\ next \notin {"merging", "setting"}
        BY DEF Steps
      <3>3. /\ new.pc = next /\ new.batch = batch /\ new.payload = run[r].payload
            /\ new.mode = run[r].mode
            /\ new \in [pc : Steps, mode : Modes, batch : [Features -> SUBSET (1..bars)],
                        payload : Entries]
        BY <3>1, <3>2, <1>2, <1>3
      <3> QED BY <3>2, <3>3 DEF IInv, InHandIsStored, NoBatch
    <2> QED BY <2>1, <2>2
  <1> HIDE DEF new
  <1>5. new.pc \in {"merging", "refreshing", "setting"} =>
          \A f \in Features : new.batch[f] \subseteq offline[f] /\ AtMostOne(new.batch[f])
    BY <1>4 DEF AtMostOne
  <1> QED BY <1>1, <1>2, <1>4, <1>5, MovePreserves DEF IInv, OnlineIsStored

\* Storing comes before publishing.
LEMMA WriteOfflinePreserves ==
    ASSUME IInv, NEW r \in Runs, run[r].pc = "storing", offline' = Upserted(r),
           UNCHANGED <<bars, referenced, online>>,
           \/ Publishes(r) /\ UNCHANGED disturbed
           \/ Finishes(r) /\ disturbed' = disturbed \cup {"fault"}
    PROVE  IInv'
  <1>1. /\ run[r] \in [pc : Steps, mode : Modes, batch : [Features -> SUBSET (1..bars)],
                       payload : Entries]
        /\ offline \in [Features -> SUBSET (1..bars)] /\ online \in Entries
        /\ disturbed \subseteq {"fault", "race", "range"}
    BY DEF IInv, TypeOK, Steps
  <1>2. /\ offline' \in [Features -> SUBSET (1..bars)]
        /\ \A f \in Features : /\ offline[f] \subseteq offline'[f]
                               /\ run[r].batch[f] \subseteq offline'[f]
    BY <1>1 DEF Upserted
  <1>3. \A f \in Features : /\ online'[f] # 0 => online'[f] \in offline'[f]
                            /\ run[r].payload[f] # 0 => run[r].payload[f] \in offline'[f]
    BY <1>2 DEF IInv, OnlineIsStored, InHandIsStored
  <1>4. CASE Publishes(r) /\ UNCHANGED disturbed
    <2> DEFINE new == [run[r] EXCEPT !.pc = "merging", !.batch = NewestOf(run[r].batch)]
    <2>1. run' = [run EXCEPT ![r] = new]
      BY <1>4, <1>1 DEF Publishes
    <2>2. NewestOf(run[r].batch) \in [Features -> SUBSET (1..bars)]
      BY <1>1 DEF NewestOf
    <2>3. 1..bars \subseteq Bars
      BY StoreAssumption DEF IInv, TypeOK, Bars, StoreAssumption
    <2>4. ASSUME NEW f \in Features
          PROVE  /\ NewestOf(run[r].batch)[f] \subseteq offline'[f]
                 /\ AtMostOne(NewestOf(run[r].batch)[f])
      BY <1>1, <1>2, <2>3 DEF NewestOf, AtMostOne
    <2>5. /\ new.pc = "merging" /\ new.batch = NewestOf(run[r].batch)
          /\ new.payload = run[r].payload
          /\ new \in [pc : Steps, mode : Modes, batch : [Features -> SUBSET (1..bars)],
                      payload : Entries]
      BY <1>1, <2>2 DEF Steps
    <2> HIDE DEF new
    <2> QED BY <1>1, <1>2, <1>3, <1>4, <2>1, <2>4, <2>5, MovePreserves
  <1>5. CASE Finishes(r) /\ disturbed' = disturbed \cup {"fault"}
    <2>1. /\ Idle.pc = "idle" /\ \A f \in Features : Idle.payload[f] = 0
          /\ Idle \in [pc : Steps, mode : Modes, batch : [Features -> SUBSET (1..bars)],
                       payload : Entries]
      BY IdleTyped DEF Idle, Absent, IInv
    <2> QED BY <1>1, <1>2, <1>3, <1>5, <2>1, MovePreserves DEF Finishes
  <1> QED BY <1>4, <1>5

\* The entry read is stored, and so is nothing.
LEMMA ReadEntryPreserves == ASSUME IInv, NEW r \in Runs, ReadEntry(r) PROVE IInv'
  <1>1. /\ run[r] \in [pc : Steps, mode : Modes, batch : [Features -> SUBSET (1..bars)],
                       payload : Entries]
        /\ offline \in [Features -> SUBSET (1..bars)] /\ online \in Entries
        /\ disturbed \subseteq {"fault", "race", "range"}
    BY DEF IInv, TypeOK, Steps
  <1>2. PICK payload \in {online, Absent} :
          /\ run' = [run EXCEPT ![r] =
                       IF run[r].pc = "refreshing" /\ payload = Absent THEN Idle
                       ELSE [run[r] EXCEPT !.pc = "setting", !.payload = payload]]
          /\ disturbed' = IF payload = online THEN disturbed ELSE disturbed \cup {"fault"}
    BY <1>1 DEF ReadEntry
  <1> DEFINE new == IF run[r].pc = "refreshing" /\ payload = Absent THEN Idle
                    ELSE [run[r] EXCEPT !.pc = "setting", !.payload = payload]
  <1>3. payload \in Entries /\ \A f \in Features : payload[f] # 0 => payload[f] \in offline[f]
    BY <1>1, StoreAssumption DEF Absent, Entries, IInv, OnlineIsStored, StoreAssumption
  <1>4. /\ new \in [pc : Steps, mode : Modes, batch : [Features -> SUBSET (1..bars)],
                    payload : Entries]
        /\ \A f \in Features : new.payload[f] # 0 => new.payload[f] \in offline[f]
        /\ new.pc \in {"merging", "refreshing", "setting"} =>
             \A f \in Features : new.batch[f] \subseteq offline[f] /\ AtMostOne(new.batch[f])
    <2>1. CASE run[r].pc = "refreshing" /\ payload = Absent
      BY <2>1, IdleTyped DEF Idle, Absent, IInv
    <2>2. CASE ~ (run[r].pc = "refreshing" /\ payload = Absent)
      <3>1. new = [run[r] EXCEPT !.pc = "setting", !.payload = payload]
        BY <2>2
      <3>2. /\ new.pc = "setting" /\ new.payload = payload /\ new.batch = run[r].batch
            /\ new \in [pc : Steps, mode : Modes, batch : [Features -> SUBSET (1..bars)],
                        payload : Entries]
        BY <3>1, <1>1, <1>3 DEF Steps
      <3> QED BY <3>2, <1>3 DEF ReadEntry, IInv, InHandIsStored
    <2> QED BY <2>1, <2>2
  <1>5. run' = [run EXCEPT ![r] = new] /\ UNCHANGED <<bars, referenced, offline, online>>
        /\ disturbed' \subseteq {"fault", "race", "range"}
    BY <1>1, <1>2 DEF ReadEntry
  <1> HIDE DEF new
  <1> QED BY <1>1, <1>4, <1>5, MovePreserves DEF IInv, OnlineIsStored

LEMMA WriteEntryPreserves == ASSUME IInv, NEW r \in Runs, WriteEntry(r) PROVE IInv'
  <1>1. /\ offline \in [Features -> SUBSET (1..bars)] /\ online \in Entries
        /\ disturbed \subseteq {"fault", "race", "range"}
    BY DEF IInv, TypeOK
  <1>2. /\ online' = Published(r) \/ online' = online
        /\ run' = [run EXCEPT ![r] = Idle]
        /\ disturbed' \subseteq {"fault", "race", "range"}
        /\ UNCHANGED <<bars, referenced, offline>>
        /\ run[r].pc = "setting"
    BY <1>1 DEF WriteEntry, Finishes
  <1>3. online' \in Entries /\ \A f \in Features : online'[f] # 0 => online'[f] \in offline[f]
    BY <1>1, <1>2, PublishedIsStored DEF IInv, OnlineIsStored
  <1>4. /\ Idle.pc = "idle" /\ \A f \in Features : Idle.payload[f] = 0
        /\ Idle \in [pc : Steps, mode : Modes, batch : [Features -> SUBSET (1..bars)],
                     payload : Entries]
    BY IdleTyped DEF Idle, Absent, IInv
  <1> QED BY <1>1, <1>2, <1>3, <1>4, MovePreserves

LEMMA DatabaseFailsPreserves == ASSUME IInv, NEW r \in Runs, DatabaseFails(r) PROVE IInv'
  <1>1. CASE UNCHANGED offline
    <2>1. /\ offline \in [Features -> SUBSET (1..bars)] /\ online \in Entries
          /\ disturbed' \subseteq {"fault", "race", "range"}
          /\ run' = [run EXCEPT ![r] = Idle] /\ UNCHANGED <<bars, referenced, online>>
      BY DEF IInv, TypeOK, DatabaseFails, Finishes
    <2>2. /\ Idle.pc = "idle" /\ \A f \in Features : Idle.payload[f] = 0
          /\ Idle \in [pc : Steps, mode : Modes, batch : [Features -> SUBSET (1..bars)],
                       payload : Entries]
      BY IdleTyped DEF Idle, Absent, IInv
    <2> QED BY <1>1, <2>1, <2>2, MovePreserves DEF IInv, OnlineIsStored
  <1>2. CASE run[r].pc = "storing" /\ offline' = Upserted(r)
    BY <1>2, WriteOfflinePreserves DEF DatabaseFails
  <1> QED BY <1>1, <1>2 DEF DatabaseFails

\* No step of a run, of Redis, of the market or of a crash breaks the invariant.
THEOREM StepIInv == IInv /\ [Next]_vars => IInv'
  <1> SUFFICES ASSUME IInv, [Next]_vars PROVE IInv'
    OBVIOUS
  <1>0. bars \in Nat /\ bars >= 2 /\ 1 \in 1..bars /\ bars \in 1..bars /\ bars <= MaxBars
    BY StoreAssumption DEF IInv, TypeOK, StoreAssumption
  <1>1. ASSUME NEW r \in Runs, NEW e \in Engines,
               RunIncremental(r, e) \/ RunFull(r, e) \/ RunRange(r, e)
        PROVE  IInv'
    BY <1>0, <1>1, LoadPreserves DEF RunIncremental, RunFull, RunRange, Modes
  <1>2. ASSUME NEW r \in Runs, Step(r) PROVE IInv'
    <2>1. CASE Compare(r)
      BY <2>1, ComparePreserves
    <2>2. CASE WriteOffline(r)
      BY <2>2, WriteOfflinePreserves DEF WriteOffline
    <2>3. CASE DatabaseFails(r)
      BY <2>3, DatabaseFailsPreserves
    <2>4. CASE ReadEntry(r)
      BY <2>4, ReadEntryPreserves
    <2>5. CASE WriteEntry(r)
      BY <2>5, WriteEntryPreserves
    <2> QED BY <1>2, <2>1, <2>2, <2>3, <2>4, <2>5 DEF Step
  <1>3. CASE Expire
    <2>1. Absent \in Entries /\ \A f \in Features : Absent[f] = 0
      BY StoreAssumption DEF Absent, Entries, StoreAssumption
    <2>2. TypeOK'
      BY <1>3, <2>1 DEF Expire, IInv, TypeOK
    <2>3. OnlineIsStored' /\ InHandIsStored'
      BY <1>3, <2>1 DEF Expire, IInv, OnlineIsStored, InHandIsStored, AtMostOne
    <2> QED BY <2>2, <2>3 DEF IInv
  <1>4. CASE Crash
    <2>1. TypeOK'
      BY <1>4, IdleTyped DEF Crash, IInv, TypeOK, Steps
    <2>2. OnlineIsStored'
      BY <1>4 DEF Crash, IInv, OnlineIsStored
    <2>3. \A r \in Runs : run'[r].pc = "idle" /\ \A f \in Features : run'[r].payload[f] = 0
      BY <1>4 DEF Crash, Idle, Absent
    <2>4. InHandIsStored'
      BY <2>3 DEF InHandIsStored
    <2> QED BY <2>1, <2>2, <2>4 DEF IInv
  <1>5. CASE NewBar
    <2>1. /\ bars' = bars + 1 /\ bars + 1 \in 2..MaxBars
          /\ UNCHANGED <<referenced, offline, online, run, disturbed>>
      BY <1>0, <1>5, StoreAssumption DEF NewBar, StoreAssumption
    <2>2. 1..bars \subseteq 1..(bars + 1)
      BY <1>0
    <2>3. TypeOK'
      <3>1. offline' \in [Features -> SUBSET (1..bars')]
        BY <2>1, <2>2 DEF IInv, TypeOK
      <3>2. \A r \in Runs : run[r] \in [pc : Steps, mode : Modes, payload : Entries,
                                        batch : [Features -> SUBSET (1..bars')]]
        BY <2>1, <2>2 DEF IInv, TypeOK, Steps
      <3> QED BY <2>1, <3>1, <3>2 DEF IInv, TypeOK, Steps
    <2>4. OnlineIsStored' /\ InHandIsStored'
      BY <2>1 DEF IInv, OnlineIsStored, InHandIsStored, AtMostOne
    <2> QED BY <2>3, <2>4 DEF IInv
  <1>6. CASE ReferenceArrives
    BY <1>6 DEF ReferenceArrives, IInv, TypeOK, OnlineIsStored, InHandIsStored, AtMostOne
  <1>7. CASE UNCHANGED vars
    BY <1>7 DEF vars, IInv, TypeOK, OnlineIsStored, InHandIsStored, AtMostOne
  <1> QED BY <1>1, <1>2, <1>3, <1>4, <1>5, <1>6, <1>7 DEF Next

LEMMA InitIInv == Init => IInv
  <1> SUFFICES ASSUME Init PROVE IInv
    OBVIOUS
  <1>1. Absent \in Entries /\ \A f \in Features : Absent[f] = 0
    BY StoreAssumption DEF Absent, Entries, StoreAssumption
  <1>2. bars \in 2..MaxBars
    BY StoreAssumption DEF Init, StoreAssumption
  <1>3. Idle \in [pc : Steps, mode : Modes, batch : [Features -> SUBSET (1..bars)],
                  payload : Entries]
    BY <1>1 DEF Idle, Steps, Modes, NoBatch
  <1>4. TypeOK
    BY <1>1, <1>2, <1>3 DEF Init, TypeOK, Steps, NoBatch
  <1>5. OnlineIsStored
    BY <1>1 DEF Init, OnlineIsStored
  <1>6. \A r \in Runs : run[r].pc = "idle" /\ run[r].payload = Absent
    BY DEF Init, Idle
  <1>7. InHandIsStored
    BY <1>1, <1>6 DEF InHandIsStored
  <1> QED BY <1>4, <1>5, <1>7 DEF IInv

\* write() stores before it publishes: for any engines and runs, overlapping, failing
\* or crashing, the online entry shows nothing the offline store does not have.
THEOREM OnlineSafe == Spec => [](TypeOK /\ OnlineIsStored)
  <1>1. IInv => TypeOK /\ OnlineIsStored
    BY DEF IInv
  <1> QED BY <1>1, InitIInv, StepIInv, PTL DEF Spec
-----------------------------------------------------------------------------
(***************************************************************************)
(* The newest bar of a set.  Max is a CHOOSE: that there is something to   *)
(* choose follows from the order of Nat being well founded.                *)
(***************************************************************************)
Below == {p \in Nat \X Nat : p[1] < p[2]}

\* A set of natural numbers that is not empty has a least one.
LEMMA LeastNatural ==
    ASSUME NEW T, T \subseteq Nat, T # {}
    PROVE  \E x \in T : \A y \in T : x <= y
  <1>1. IsWellFoundedOn(Below, Nat)
    BY NatLessThanWellFounded DEF OpToRel, Below
  <1>2. PICK x \in T : \A y \in T : ~ (<<y, x>> \in Below)
    BY <1>1, WFMin, Zenon
  <1>3. \A y \in T : ~ (y < x)
    BY <1>2 DEF Below
  <1> QED BY <1>3

\* The newest bar of a set is in it, or 0 where the set is empty, and none is later.
LEMMA NewestFacts ==
    ASSUME NEW n \in Nat, NEW stored, stored \subseteq 1..n
    PROVE  /\ Newest(stored) \in stored \cup {0}
           /\ Newest(stored) \in 0..n
           /\ \A b \in stored : b <= Newest(stored)
  <1> DEFINE S == stored \cup {0}
             distances == {n - x : x \in S}
  <1>1. S \subseteq 0..n /\ distances \subseteq Nat /\ distances # {}
    OBVIOUS
  <1>2. PICK d \in distances : \A e \in distances : d <= e
    BY <1>1, LeastNatural
  <1>3. PICK m \in S : d = n - m
    OBVIOUS
  <1>4. \A y \in S : m >= y
    <2> TAKE y \in S
    <2>1. n - m <= n - y
      BY <1>2, <1>3
    <2> QED BY <2>1, <1>1
  <1>5. Max(S) \in S /\ \A y \in S : Max(S) >= y
    BY <1>4 DEF Max
  <1>6. Newest(stored) = Max(S)
    BY DEF Newest
  <1> HIDE DEF S
  <1>7. Newest(stored) \in S /\ \A y \in S : Newest(stored) >= y
    BY <1>5, <1>6
  <1>8. \A y \in S : y \in 0..n
    BY <1>1
  <1>9. Newest(stored) \in 0..n
    BY <1>7, <1>8
  <1>10. \A b \in stored : b <= Newest(stored)
    BY <1>7, <1>8, <1>9 DEF S
  <1> QED BY <1>7, <1>9, <1>10 DEF S

\* A bar of the set that is later than all others is the newest.
LEMMA NewestIs ==
    ASSUME NEW n \in Nat, NEW stored, stored \subseteq 1..n, NEW b \in stored,
           \A a \in stored : a <= b
    PROVE  Newest(stored) = b
  <1>1. Newest(stored) \in 0..n /\ b <= Newest(stored) /\ b \in 1..n
    BY NewestFacts
  <1>2. Newest(stored) = 0 \/ Newest(stored) <= b
    BY NewestFacts
  <1> QED BY <1>1, <1>2

\* The newest bar stored moves forward only.
LEMMA NewestGrows ==
    ASSUME NEW n \in Nat, NEW stored, NEW later, stored \subseteq later, later \subseteq 1..n
    PROVE  Newest(stored) <= Newest(later)
  <1>1. Newest(stored) \in stored \cup {0} /\ stored \subseteq 1..n
    BY NewestFacts
  <1>2. Newest(later) \in 0..n /\ \A b \in later : b <= Newest(later)
    BY NewestFacts
  <1>3. CASE Newest(stored) = 0
    BY <1>2, <1>3
  <1>4. CASE Newest(stored) \in later
    BY <1>2, <1>4
  <1> QED BY <1>1, <1>3, <1>4

\* The offline store changes only by the upsert of a run that was storing, which is then
\* no longer storing.
LEMMA StepOfOffline ==
    ASSUME IInv, [Next]_vars
    PROVE  \/ UNCHANGED offline
           \/ \E r \in Runs : /\ offline' = Upserted(r)
                             /\ \A q \in Runs \ {r} : run'[q] = run[q]
  <1>0. run \in [Runs -> [pc : Steps, mode : Modes, batch : [Features -> SUBSET (1..bars)],
                          payload : Entries]]
    BY DEF IInv, TypeOK, Steps
  <1>1. ASSUME NEW r \in Runs, NEW e \in Engines,
               RunIncremental(r, e) \/ RunFull(r, e) \/ RunRange(r, e)
        PROVE  UNCHANGED offline
    BY <1>1 DEF RunIncremental, RunFull, RunRange, Load
  <1>2. ASSUME NEW r \in Runs, Compare(r) PROVE UNCHANGED offline
    BY <1>2 DEF Compare
  <1>3. ASSUME NEW r \in Runs, ReadEntry(r) PROVE UNCHANGED offline
    BY <1>3 DEF ReadEntry
  <1>4. ASSUME NEW r \in Runs, WriteEntry(r) PROVE UNCHANGED offline
    BY <1>4 DEF WriteEntry
  <1>5. ASSUME NEW r \in Runs, WriteOffline(r)
        PROVE  offline' = Upserted(r) /\ \A q \in Runs \ {r} : run'[q] = run[q]
    BY <1>0, <1>5 DEF WriteOffline, Publishes
  <1>6. ASSUME NEW r \in Runs, DatabaseFails(r)
        PROVE  \/ UNCHANGED offline
               \/ offline' = Upserted(r) /\ \A q \in Runs \ {r} : run'[q] = run[q]
    BY <1>0, <1>6 DEF DatabaseFails, Finishes
  <1>7. CASE Expire \/ Crash \/ NewBar \/ ReferenceArrives \/ UNCHANGED vars
    BY <1>7 DEF Expire, Crash, NewBar, ReferenceArrives, vars
  <1> QED BY <1>1, <1>2, <1>3, <1>4, <1>5, <1>6, <1>7 DEF Next, Step

\* No step takes a row from the offline store.
LEMMA OfflineGrows ==
    ASSUME IInv, [Next]_vars, NEW f \in Features
    PROVE  offline[f] \subseteq offline'[f] /\ Newest(offline[f]) <= Newest(offline'[f])
  <1>1. IInv'
    BY StepIInv
  <1>2. bars' \in Nat /\ offline'[f] \subseteq 1..bars'
    BY <1>1, StoreAssumption DEF IInv, TypeOK, StoreAssumption
  <1>3. UNCHANGED offline \/ \E r \in Runs : offline' = Upserted(r)
    BY StepOfOffline
  <1>4. offline[f] \subseteq offline'[f]
    BY <1>3 DEF Upserted
  <1> QED BY <1>2, <1>4, NewestGrows

-----------------------------------------------------------------------------
(***************************************************************************)
(* Watermarks leave no gap: what an incremental run has yet to store goes  *)
(* back, without a hole, to a bar the store has reached.                   *)
(***************************************************************************)
Reaches(batch, stored) == \A b \in batch : \A a \in 1..b : a \in batch \/ a <= Newest(stored)

Pending(r) == run[r].mode = "incremental" /\ run[r].pc \in {"computed", "storing"}

GapsKnown == \A r \in Runs, f \in Features : Pending(r) => Reaches(run[r].batch[f], offline[f])

GInv == IInv /\ GapsKnown

\* Where an incremental run's batch comes from.
LEMMA PendingComesFrom ==
    ASSUME IInv, [Next]_vars, NEW r \in Runs, NEW f \in Features, Pending(r)'
    PROVE  \/ Pending(r) /\ run'[r].batch[f] = run[r].batch[f]
           \/ Pending(r) /\ run'[r].batch[f] = {b \in run[r].batch[f] : b > Newest(offline[f])}
           \/ run'[r].batch[f] \in {{}, 1..bars}
  <1> USE DEF Pending
  <1>0. run \in [Runs -> [pc : Steps, mode : Modes, batch : [Features -> SUBSET (1..bars)],
                          payload : Entries]]
    BY DEF IInv, TypeOK, Steps
  <1>1. ASSUME NEW q \in Runs, NEW e \in Engines,
               RunIncremental(q, e) \/ RunFull(q, e) \/ RunRange(q, e)
        PROVE  \/ run'[r] = run[r]
               \/ run'[r].batch[f] \in {{}, 1..bars}
    BY <1>0, <1>1 DEF RunIncremental, RunFull, RunRange, Load
  <1>2. ASSUME NEW q \in Runs, Compare(q)
        PROVE  \/ run'[r] = run[r]
               \/ Pending(r) /\ run'[r].batch[f] = {b \in run[r].batch[f] : b > Newest(offline[f])}
    <2>1. CASE q # r
      BY <1>0, <1>2, <2>1 DEF Compare
    <2>2. CASE q = r
      <3> DEFINE batch == IF run[r].mode = "incremental" THEN NewValues(run[r].batch)
                          ELSE run[r].batch
                 next == IF batch # NoBatch THEN "storing"
                         ELSE IF run[r].mode = "incremental" THEN "refreshing" ELSE "idle"
      <3>1. run'[r] = IF next = "idle" THEN Idle
                      ELSE [run[r] EXCEPT !.batch = batch, !.pc = next]
        BY <1>0, <1>2, <2>2 DEF Compare
      <3>2. next # "idle"
        BY <3>1, <1>0 DEF Idle
      <3>3. run'[r].mode = run[r].mode /\ run'[r].batch = batch
        BY <3>1, <3>2, <1>0
      <3>4. run'[r].batch[f] = {b \in run[r].batch[f] : b > Newest(offline[f])}
        BY <3>3 DEF NewValues
      <3> QED BY <1>2, <2>2, <3>3, <3>4 DEF Compare
    <2> QED BY <2>1, <2>2
  <1>3. ASSUME NEW q \in Runs, WriteOffline(q) PROVE run'[r] = run[r]
    BY <1>0, <1>3 DEF WriteOffline, Publishes
  <1>4. ASSUME NEW q \in Runs, DatabaseFails(q) PROVE run'[r] = run[r]
    BY <1>0, <1>4 DEF DatabaseFails, Finishes, Idle
  <1>5. ASSUME NEW q \in Runs, ReadEntry(q) PROVE run'[r] = run[r]
    BY <1>0, <1>5 DEF ReadEntry, Idle
  <1>6. ASSUME NEW q \in Runs, WriteEntry(q) PROVE run'[r] = run[r]
    BY <1>0, <1>6 DEF WriteEntry, Finishes, Idle
  <1>7. CASE Crash
    BY <1>7 DEF Crash, Idle
  <1>8. CASE Expire \/ NewBar \/ ReferenceArrives \/ UNCHANGED vars
    BY <1>8 DEF Expire, NewBar, ReferenceArrives, vars
  <1> QED BY <1>1, <1>2, <1>3, <1>4, <1>5, <1>6, <1>7, <1>8 DEF Next, Step

LEMMA StepGapsKnown == GInv /\ [Next]_vars => GInv'
  <1> SUFFICES ASSUME GInv, [Next]_vars PROVE GInv'
    OBVIOUS
  <1>1. IInv /\ IInv'
    BY StepIInv DEF GInv
  <1>2. bars \in Nat /\ bars' \in Nat
    BY <1>1, StoreAssumption DEF IInv, TypeOK, StoreAssumption
  <1>3. ASSUME NEW r \in Runs, NEW f \in Features, Pending(r)'
        PROVE  Reaches(run'[r].batch[f], offline'[f])
    <2>1. /\ run[r].batch[f] \subseteq 1..bars /\ offline[f] \subseteq 1..bars
          /\ offline'[f] \subseteq 1..bars'
      BY <1>1 DEF IInv, TypeOK
    <2>2. /\ Newest(offline[f]) \in Nat /\ Newest(offline'[f]) \in Nat
          /\ Newest(offline[f]) <= Newest(offline'[f])
      BY <1>1, <1>2, <2>1, NewestFacts, OfflineGrows
    <2>3. Pending(r) => Reaches(run[r].batch[f], offline[f])
      BY DEF GInv, GapsKnown
    <2>4. CASE Pending(r) /\ run'[r].batch[f] = run[r].batch[f]
      BY <1>2, <2>1, <2>2, <2>3, <2>4 DEF Reaches
    <2>5. CASE /\ Pending(r)
               /\ run'[r].batch[f] = {b \in run[r].batch[f] : b > Newest(offline[f])}
      BY <1>2, <2>1, <2>2, <2>3, <2>5 DEF Reaches
    <2>6. CASE run'[r].batch[f] \in {{}, 1..bars}
      BY <1>2, <2>6 DEF Reaches
    <2> QED BY <1>1, <1>3, <2>4, <2>5, <2>6, PendingComesFrom
  <1>4. GapsKnown'
    BY <1>3 DEF GapsKnown
  <1> QED BY <1>1, <1>4 DEF GInv

\* The step that ends an incremental run's storing leaves no gap.
LEMMA StepNoGaps ==
    ASSUME GInv, [Next]_vars, NEW r \in Runs, NEW f \in Features,
           run[r].mode = "incremental", run[r].pc = "storing", run'[r].pc # "storing",
           Gapless(offline[f])
    PROVE  Gapless(offline'[f])
  <1>1. IInv /\ IInv'
    BY StepIInv DEF GInv
  <1>2. bars \in Nat /\ bars' \in Nat /\ offline'[f] \subseteq 1..bars'
        /\ offline[f] \subseteq 1..bars /\ run[r].batch[f] \subseteq 1..bars
    BY <1>1, StoreAssumption DEF IInv, TypeOK, StoreAssumption
  <1>3. UNCHANGED offline \/ offline' = Upserted(r)
    BY <1>1, StepOfOffline
  <1>4. CASE offline' = Upserted(r)
    <2> DEFINE old == Newest(offline[f])
               new == Newest(offline'[f])
    <2>1. /\ old \in 0..bars /\ new \in 0..bars'
          /\ new \in offline'[f] \cup {0} /\ \A b \in offline'[f] : b <= new
      BY <1>2, NewestFacts
    <2>2. Reaches(run[r].batch[f], offline[f])
      BY DEF GInv, GapsKnown, Pending
    <2>3. offline'[f] = offline[f] \cup run[r].batch[f] /\ offline[f] = 1..old
      BY <1>4 DEF Upserted, Gapless
    <2> HIDE DEF old, new
    <2>4. \A a \in 1..new : a \in offline'[f]
      <3> SUFFICES ASSUME NEW a \in 1..new PROVE a \in offline'[f]
        OBVIOUS
      <3>1. new \in offline'[f]
        BY <2>1
      <3>2. CASE new \in offline[f]
        BY <2>1, <2>3, <3>2
      <3>3. CASE new \in run[r].batch[f]
        <4>1. a \in run[r].batch[f] \/ a <= old
          BY <2>2, <3>3 DEF Reaches, old
        <4> QED BY <4>1, <2>1, <2>3
      <3> QED BY <2>3, <3>1, <3>2, <3>3
    <2>5. \A b \in offline'[f] : b \in 1..new
      BY <1>2, <2>1
    <2> QED BY <2>4, <2>5 DEF Gapless, new
  <1> QED BY <1>3, <1>4 DEF Gapless

\* For any engines, features and runs, overlapping, failing or crashing: an incremental
\* run leaves no bar of a feature behind.
THEOREM GapsSafe == Spec => NoGaps
  <1>1. Init => GInv
    BY InitIInv DEF GInv, GapsKnown, Pending, Init, Idle
  <1>2. GInv /\ [Next]_vars =>
          [\A r \in Runs, f \in Features :
             /\ run[r].mode = "incremental"
             /\ run[r].pc = "storing"
             /\ run'[r].pc # "storing"
             /\ Gapless(offline[f])
             => Gapless(offline'[f])]_vars
    BY StepNoGaps
  <1> QED BY <1>1, <1>2, StepGapsKnown, PTL DEF Spec, NoGaps

-----------------------------------------------------------------------------
(***************************************************************************)
(* While nothing has disturbed the entry, at most one run has values of a  *)
(* feature in hand, they are later than what is stored of it, or are about *)
(* to be published; otherwise the entry is up to date.                     *)
(***************************************************************************)
InHand(r, f) == run[r].batch[f] # {}

Alone == \A r, q \in Runs, f \in Features : InHand(r, f) /\ InHand(q, f) => r = q

Ahead ==
    \A r \in Runs, f \in Features :
        InHand(r, f) => \A b \in offline[f] : \E c \in run[r].batch[f] : b <= c

UpToDate ==
    \A f \in Features :
        \/ online[f] = Newest(offline[f])
        \/ \E r \in Runs : run[r].pc \in {"merging", "setting"} /\ InHand(r, f)

Undisturbed == disturbed = {} => Alone /\ Ahead /\ UpToDate

LInv == IInv /\ Undisturbed

Batches == [pc : Steps, mode : Modes, batch : [Features -> SUBSET (1..bars)],
            payload : Entries]

LEMMA Typed ==
    ASSUME IInv
    PROVE  /\ bars \in Nat /\ run \in [Runs -> Batches]
           /\ offline \in [Features -> SUBSET (1..bars)] /\ online \in Entries
  BY StoreAssumption DEF IInv, TypeOK, Batches, Steps, StoreAssumption

\* A step that changes one run only, and leaves the stores alone: the run has a part of
\* what it had in hand, which reaches as far, and has nothing it was about to publish.
LEMMA MoveUndisturbed ==
    ASSUME LInv, disturbed = {}, NEW r \in Runs, UNCHANGED <<offline, online>>,
           \A q \in Runs \ {r} : run'[q] = run[q],
           \A f \in Features : run'[r].batch[f] \subseteq run[r].batch[f],
           \A f \in Features : run'[r].batch[f] # {} =>
               \A b \in offline[f] : \E c \in run'[r].batch[f] : b <= c,
           run[r].pc \in {"merging", "setting"} =>
               /\ run'[r].pc \in {"merging", "setting"}
               /\ \A f \in Features : run'[r].batch[f] = run[r].batch[f]
    PROVE  Undisturbed'
  <1>1. Alone /\ Ahead /\ UpToDate
    BY DEF LInv, Undisturbed
  <1>2. Alone'
    BY <1>1 DEF Alone, InHand
  <1>3. Ahead'
    BY <1>1 DEF Ahead, InHand
  <1>4. UpToDate'
    BY <1>1 DEF UpToDate, InHand
  <1> QED BY <1>2, <1>3, <1>4 DEF Undisturbed

\* A run that loads the whole history while no other run has its engine's features.
LEMMA LoadUndisturbed ==
    ASSUME LInv, NEW r \in Runs, NEW e \in Engines,
           RunIncremental(r, e) \/ RunFull(r, e) \/ RunRange(r, e)
    PROVE  Undisturbed'
  <1> SUFFICES ASSUME disturbed' = {} PROVE Alone' /\ Ahead' /\ UpToDate'
    BY DEF Undisturbed
  <1>1. PICK mode \in Modes : Load(r, e, mode, 1, bars)
    BY DEF RunIncremental, RunFull, RunRange, Load, Modes
  <1>2. /\ UNCHANGED <<offline, online>> /\ disturbed = {} /\ run[r].pc = "idle"
        /\ \A q \in Runs \ {r} : \A f \in Computed(e) : run[q].batch[f] = {}
    BY <1>1 DEF Load, InProgress
  <1>3. /\ \A q \in Runs \ {r} : run'[q] = run[q]
        /\ \A f \in Features : run'[r].batch[f] = IF f \in Computed(e) THEN 1..bars ELSE {}
    BY <1>1, Typed DEF Load, LInv
  <1>4. Alone /\ Ahead /\ UpToDate
    BY <1>2 DEF LInv, Undisturbed
  <1>5. Alone'
    BY <1>2, <1>3, <1>4 DEF Alone, InHand
  <1>6. Ahead'
    <2>1. \A f \in Features : offline[f] \subseteq 1..bars
      BY Typed DEF LInv
    <2>2. \A b \in 1..bars : b <= b
      BY Typed DEF LInv
    <2>3. ASSUME NEW f \in Features, InHand(r, f)', NEW b \in offline'[f]
          PROVE  \E c \in run'[r].batch[f] : b <= c
      <3>1. run'[r].batch[f] = 1..bars /\ b \in 1..bars /\ b <= b
        BY <1>2, <1>3, <2>1, <2>2, <2>3 DEF InHand
      <3> QED BY <3>1
    <2>4. ASSUME NEW q \in Runs \ {r}, NEW f \in Features, InHand(q, f)', NEW b \in offline'[f]
          PROVE  \E c \in run'[q].batch[f] : b <= c
      <3>1. run'[q] = run[q] /\ b \in offline[f]
        BY <1>2, <1>3, <2>4
      <3> QED BY <1>4, <2>4, <3>1 DEF Ahead, InHand
    <2> QED BY <2>3, <2>4 DEF Ahead
  <1>7. UpToDate'
    BY <1>2, <1>3, <1>4 DEF UpToDate, InHand
  <1> QED BY <1>5, <1>6, <1>7

\* What the watermarks leave of a batch is later than what is stored.
LEMMA CompareUndisturbed ==
    ASSUME LInv, NEW r \in Runs, Compare(r)
    PROVE  Undisturbed'
  <1> SUFFICES ASSUME disturbed = {} PROVE Undisturbed'
    BY DEF Compare, Undisturbed
  <1> DEFINE batch == IF run[r].mode = "incremental" THEN NewValues(run[r].batch)
                      ELSE run[r].batch
             next == IF batch # NoBatch THEN "storing"
                     ELSE IF run[r].mode = "incremental" THEN "refreshing" ELSE "idle"
             new == IF next = "idle" THEN Idle
                    ELSE [run[r] EXCEPT !.batch = batch, !.pc = next]
  <1>1. /\ run' = [run EXCEPT ![r] = new] /\ UNCHANGED <<offline, online>>
        /\ run[r].pc = "computed"
    BY DEF Compare
  <1>2. run'[r] = new /\ \A q \in Runs \ {r} : run'[q] = run[q]
    BY <1>1, Typed DEF LInv
  <1>3. \A f \in Features : new.batch[f] = {} \/ new.batch[f] = batch[f]
    <2>1. CASE next = "idle"
      BY <2>1 DEF Idle, NoBatch
    <2>2. CASE next # "idle"
      <3>1. new = [run[r] EXCEPT !.batch = batch, !.pc = next]
        BY <2>2
      <3>2. new.batch = batch
        BY <3>1, Typed DEF LInv, Batches
      <3> QED BY <3>2
    <2> QED BY <2>1, <2>2
  <1>4. ASSUME NEW f \in Features
        PROVE  /\ batch[f] \subseteq run[r].batch[f]
               /\ batch[f] # {} => \A b \in offline[f] : \E c \in batch[f] : b <= c
    <2>1. CASE run[r].mode # "incremental"
      BY <2>1, <1>1 DEF LInv, Undisturbed, Ahead, InHand
    <2>2. CASE run[r].mode = "incremental"
      <3>1. batch[f] = {b \in run[r].batch[f] : b > Newest(offline[f])}
        BY <2>2 DEF NewValues
      <3>2. /\ bars \in Nat /\ offline[f] \subseteq 1..bars /\ run[r].batch[f] \subseteq 1..bars
        BY Typed DEF LInv, Batches
      <3>3. Newest(offline[f]) \in 0..bars /\ \A b \in offline[f] : b <= Newest(offline[f])
        BY <3>2, NewestFacts
      <3> HIDE DEF batch
      <3> QED BY <3>1, <3>2, <3>3
    <2> QED BY <2>1, <2>2
  <1> HIDE DEF new, batch
  <1>5. \A f \in Features : /\ run'[r].batch[f] \subseteq run[r].batch[f]
                            /\ run'[r].batch[f] # {} =>
                                 \A b \in offline[f] : \E c \in run'[r].batch[f] : b <= c
    BY <1>2, <1>3, <1>4
  <1> QED BY <1>1, <1>2, <1>5, MoveUndisturbed

\* Storing turns what is ahead of the store into what is about to be published.
LEMMA WriteOfflineUndisturbed ==
    ASSUME LInv, NEW r \in Runs, WriteOffline(r)
    PROVE  Undisturbed'
  <1> SUFFICES ASSUME disturbed = {} PROVE Alone' /\ Ahead' /\ UpToDate'
    BY DEF WriteOffline, Undisturbed
  <1>1. Alone /\ Ahead /\ UpToDate
    BY DEF LInv, Undisturbed
  <1>2. /\ run[r].pc = "storing" /\ UNCHANGED online
        /\ \A q \in Runs \ {r} : run'[q] = run[q]
        /\ run'[r].pc = "merging"
        /\ \A f \in Features :
             run'[r].batch[f] = {b \in run[r].batch[f] : b = Newest(run[r].batch[f])}
    BY Typed DEF WriteOffline, Publishes, NewestOf, LInv, Batches
  <1>3. \A f \in Features : offline'[f] = offline[f] \cup run[r].batch[f]
    BY DEF WriteOffline, Upserted
  <1>4. ASSUME NEW f \in Features, run[r].batch[f] # {}
        PROVE  /\ run'[r].batch[f] = {Newest(run[r].batch[f])}
               /\ \A b \in offline'[f] : b <= Newest(run[r].batch[f])
    <2>1. /\ bars \in Nat /\ run[r].batch[f] \subseteq 1..bars /\ offline[f] \subseteq 1..bars
      BY Typed DEF LInv, Batches
    <2> DEFINE newest == Newest(run[r].batch[f])
    <2>2. /\ newest \in run[r].batch[f] \cup {0} /\ newest \in 0..bars
          /\ \A b \in run[r].batch[f] : b <= newest
      BY <2>1, NewestFacts
    <2> HIDE DEF newest
    <2>3. newest \in run[r].batch[f]
      BY <1>4, <2>1, <2>2
    <2>4. ASSUME NEW b \in offline[f] PROVE b <= newest
      <3>1. PICK c \in run[r].batch[f] : b <= c
        BY <1>1, <1>4 DEF Ahead, InHand
      <3> QED BY <2>1, <2>2, <3>1
    <2> QED BY <1>2, <1>3, <2>2, <2>3, <2>4 DEF newest
  <1>5. \A f \in Features : run'[r].batch[f] # {} => run[r].batch[f] # {}
    BY <1>2
  <1>6. Alone'
    BY <1>1, <1>2, <1>5 DEF Alone, InHand
  <1>7. Ahead'
    <2>1. ASSUME NEW f \in Features, InHand(r, f)', NEW b \in offline'[f]
          PROVE  \E c \in run'[r].batch[f] : b <= c
      BY <1>4, <1>5, <2>1 DEF InHand
    <2>2. ASSUME NEW q \in Runs \ {r}, NEW f \in Features, InHand(q, f)', NEW b \in offline'[f]
          PROVE  \E c \in run'[q].batch[f] : b <= c
      <3>1. run[r].batch[f] = {} /\ run'[q] = run[q] /\ InHand(q, f)
        BY <1>1, <1>2, <2>2 DEF Alone, InHand
      <3>2. b \in offline[f]
        BY <1>3, <3>1
      <3> QED BY <1>1, <3>1, <3>2 DEF Ahead, InHand
    <2> QED BY <2>1, <2>2 DEF Ahead
  <1>8. UpToDate'
    <2>1. ASSUME NEW f \in Features
          PROVE  \/ online'[f] = Newest(offline'[f])
                 \/ \E q \in Runs : run'[q].pc \in {"merging", "setting"} /\ run'[q].batch[f] # {}
      <3>1. CASE run[r].batch[f] # {}
        BY <1>2, <1>4, <3>1
      <3>2. CASE run[r].batch[f] = {}
        <4>1. offline'[f] = offline[f] /\ online'[f] = online[f]
          BY <1>2, <1>3, <3>2
        <4>2. CASE online[f] = Newest(offline[f])
          BY <4>1, <4>2
        <4>3. ASSUME NEW q \in Runs, run[q].pc \in {"merging", "setting"}, InHand(q, f)
              PROVE  run'[q].pc \in {"merging", "setting"} /\ run'[q].batch[f] # {}
          BY <1>2, <4>3 DEF InHand
        <4> QED BY <1>1, <4>2, <4>3 DEF UpToDate
      <3> QED BY <3>1, <3>2
    <2> QED BY <2>1 DEF UpToDate, InHand
  <1> QED BY <1>6, <1>7, <1>8

\* Reading the entry takes nothing from what a run has in hand.
LEMMA ReadEntryUndisturbed ==
    ASSUME LInv, NEW r \in Runs, ReadEntry(r)
    PROVE  Undisturbed'
  <1> SUFFICES ASSUME disturbed' = {} PROVE Undisturbed'
    BY DEF Undisturbed
  <1>1. PICK payload \in {online, Absent} :
          /\ run' = [run EXCEPT ![r] =
                       IF run[r].pc = "refreshing" /\ payload = Absent THEN Idle
                       ELSE [run[r] EXCEPT !.pc = "setting", !.payload = payload]]
          /\ disturbed' = IF payload = online THEN disturbed ELSE disturbed \cup {"fault"}
    BY Typed DEF ReadEntry, LInv
  <1>2. /\ disturbed = {} /\ UNCHANGED <<offline, online>>
        /\ \A q \in Runs \ {r} : run'[q] = run[q]
    BY <1>1, Typed DEF ReadEntry, LInv
  <1>3. \/ run[r].pc = "refreshing" /\ \A f \in Features : run'[r].batch[f] = {}
        \/ run'[r].pc = "setting" /\ run'[r].batch = run[r].batch
    <2>1. CASE run[r].pc = "refreshing" /\ payload = Absent
      BY <1>1, <2>1, Typed DEF Idle, NoBatch, LInv
    <2>2. CASE ~ (run[r].pc = "refreshing" /\ payload = Absent)
      BY <1>1, <2>2, Typed DEF LInv, Batches
    <2> QED BY <2>1, <2>2
  <1>4. \A f \in Features : run[r].batch[f] # {} =>
          \A b \in offline[f] : \E c \in run[r].batch[f] : b <= c
    BY <1>2 DEF LInv, Undisturbed, Ahead, InHand
  <1> QED BY <1>2, <1>3, <1>4, MoveUndisturbed

\* Writing over the entry as it was read publishes the newest of what the run has in hand
\* and keeps the rest.
LEMMA WriteEntryUndisturbed ==
    ASSUME LInv, NEW r \in Runs, WriteEntry(r)
    PROVE  Undisturbed'
  <1> SUFFICES ASSUME disturbed' = {} PROVE Alone' /\ Ahead' /\ UpToDate'
    BY DEF Undisturbed
  <1>1. /\ online' = Published(r) /\ run[r].payload = online /\ disturbed = {}
        /\ UNCHANGED offline /\ run[r].pc = "setting" /\ run' = [run EXCEPT ![r] = Idle]
    BY DEF WriteEntry, Finishes
  <1>2. /\ \A q \in Runs \ {r} : run'[q] = run[q]
        /\ \A f \in Features : run'[r].batch[f] = {}
    BY <1>1, Typed DEF LInv, Idle, NoBatch
  <1>3. Alone /\ Ahead /\ UpToDate
    BY <1>1 DEF LInv, Undisturbed
  <1>4. Alone'
    BY <1>2, <1>3 DEF Alone, InHand
  <1>5. Ahead'
    BY <1>1, <1>2, <1>3 DEF Ahead, InHand
  <1>6. ASSUME NEW f \in Features
        PROVE  \/ online'[f] = Newest(offline'[f])
               \/ \E q \in Runs : run'[q].pc \in {"merging", "setting"} /\ run'[q].batch[f] # {}
    <2>1. CASE run[r].batch[f] # {}
      <3>1. PICK b \in Bars : run[r].batch[f] = {b}
        BY <1>1, <2>1 DEF LInv, IInv, InHandIsStored, AtMostOne
      <3>2. online'[f] = b
        BY <1>1, <2>1, <3>1, NewestOfOne DEF Published
      <3>3. b \in offline[f] /\ \A a \in offline[f] : a <= b
        BY <1>1, <1>3, <2>1, <3>1 DEF LInv, IInv, InHandIsStored, Ahead, InHand
      <3>4. bars \in Nat /\ offline[f] \subseteq 1..bars
        BY Typed DEF LInv
      <3>5. Newest(offline[f]) = b
        BY <3>3, <3>4, NewestIs
      <3> QED BY <1>1, <3>2, <3>5
    <2>2. CASE run[r].batch[f] = {}
      <3>1. online'[f] = online[f]
        BY <1>1, <2>2 DEF Published
      <3>2. ASSUME NEW q \in Runs, run[q].pc \in {"merging", "setting"}, InHand(q, f)
            PROVE  run'[q].pc \in {"merging", "setting"} /\ run'[q].batch[f] # {}
        BY <1>2, <2>2, <3>2 DEF InHand
      <3> QED BY <1>1, <1>3, <3>1, <3>2 DEF UpToDate
    <2> QED BY <2>1, <2>2
  <1>7. UpToDate'
    BY <1>6 DEF UpToDate, InHand
  <1> QED BY <1>4, <1>5, <1>7

LEMMA StepUndisturbed == LInv /\ [Next]_vars => LInv'
  <1> SUFFICES ASSUME LInv, [Next]_vars PROVE Undisturbed'
    BY StepIInv DEF LInv
  <1>1. ASSUME NEW r \in Runs, DatabaseFails(r) PROVE Undisturbed'
    BY <1>1 DEF DatabaseFails, Undisturbed
  <1>2. CASE Expire
    BY <1>2 DEF Expire, Undisturbed
  <1>3. CASE Crash
    BY <1>3 DEF Crash, Undisturbed
  <1>4. CASE NewBar \/ ReferenceArrives \/ UNCHANGED vars
    BY <1>4 DEF NewBar, ReferenceArrives, vars, LInv, Undisturbed, Alone, Ahead, UpToDate, InHand
  <1> QED BY <1>1, <1>2, <1>3, <1>4, LoadUndisturbed, CompareUndisturbed,
             WriteOfflineUndisturbed, ReadEntryUndisturbed, WriteEntryUndisturbed
          DEF Next, Step

\* For any engines, features and runs: while no failure, no overlap and no run over the
\* past has disturbed the entry, latest() serves the newest value of every feature.
THEOREM LatestSafe == Spec => []LatestServed
  <1>1. Init => LInv
    <2> SUFFICES ASSUME Init PROVE Undisturbed
      BY InitIInv DEF LInv
    <2>1. \A f \in Features : online[f] = 0 /\ offline[f] = {}
      BY DEF Init, Absent, NoBatch
    <2>2. \A r \in Runs, f \in Features : ~ InHand(r, f)
      BY DEF Init, Idle, NoBatch, InHand
    <2>3. Newest({}) = 0
      BY NewestFacts
    <2> QED BY <2>1, <2>2, <2>3 DEF Undisturbed, Alone, Ahead, UpToDate
  <1>2. LInv => LatestServed
    BY DEF LInv, Undisturbed, UpToDate, LatestServed, Quiet, InProgress, LatestIsNewest, Latest
  <1> QED BY <1>1, <1>2, StepUndisturbed, PTL DEF Spec
=============================================================================
