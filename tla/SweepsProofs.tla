---------------------------- MODULE SweepsProofs ----------------------------
(***************************************************************************)
(* Proofs about Sweeps for any sweeps and requests, any watchlist, width   *)
(* of a scan, number of readings, failures and lives of the process.       *)
(***************************************************************************)
EXTENDS Sweeps, FiniteSetTheorems, TLAPS

USE SweepsAssumption

Cells == [pc : {"todo", "loading", "storing", "marking", "done"},
          reading : 0..MaxReadings, prior : Beliefs]

Records == [kind : Kinds, open : BOOLEAN, at : [Symbols -> Cells]]

\* A symbol whose reading is on its way into the belief.
Pending == {"loading", "storing", "marking"}

\* The runs of an engine that are feeding it a reading of a symbol.
Feeding(e, s) == {r \in Runs : EngineOf(run[r].kind) = e /\ run[r].at[s].pc \in Pending}

\* No two runs of an engine are at work.
Alone ==
    \A r, q \in Runs :
        Busy(r) /\ Busy(q) /\ EngineOf(run[r].kind) = EngineOf(run[q].kind) => r = q

\* Readings only rise.
Known ==
    /\ \A e \in Engines, s \in Symbols : fed[e][s] <= reading[s]
    /\ \A r \in Runs, s \in Symbols :
         run[r].at[s].pc \in Pending => run[r].at[s].reading \in 1..reading[s]

\* What is being fed is newer than what was fed in this life.
Fresh ==
    \A r \in Runs, s \in Symbols :
        run[r].at[s].pc \in Pending => fed[EngineOf(run[r].kind)][s] < run[r].at[s].reading

\* How often an engine may have fed a symbol so far, when it is not feeding it, and v is
\* the newest reading of which its earlier lives may have known: once per reading up to
\* what it fed last, and once more in each later life.
Told(e, s, v) == IF fed[e][s] = 0 THEN v + lives - 2 ELSE fed[e][s] + lives - 1

Due(e, s, cell) ==
    IF cell.pc = "marking" THEN Told(e, s, cell.reading) + 1 ELSE Told(e, s, cell.reading)

\* The same, when it may be feeding it.
Credit(e, s) ==
    IF Feeding(e, s) = {} THEN Told(e, s, reading[s])
    ELSE Due(e, s, run[CHOOSE r \in Feeding(e, s) : TRUE].at[s])

\* An update that was stored but reported failed is fed again.
Credits(s) == Credit("opportunity", s) + Credit("composite", s) + faults

\* The observations a belief counts, and those a run counts that has read it, are within
\* the credit of the two engines and of the failures.
Counted ==
    \A s \in Symbols :
        /\ belief[s].count <= Credits(s)
        /\ \A r \in Runs : run[r].at[s].pc = "storing" => run[r].at[s].prior.count <= Credits(s)

\* What FedOnce rests on.
Sound == Alone /\ Fresh /\ Counted

IInv == TypeOK /\ Known /\ (overlapped = {} => Sound)

-----------------------------------------------------------------------------
(* Runs and their symbols.                                                 *)

LEMMA Constants ==
    /\ Width \in Nat \ {0} /\ MaxReadings \in Nat \ {0} /\ MaxCount \in Nat \ {0}
    /\ MaxLives \in Nat \ {0}
  OBVIOUS

LEMMA Types ==
    ASSUME TypeOK
    PROVE  /\ run \in [Runs -> Records]
           /\ \A s \in Symbols : reading[s] \in 1..MaxReadings /\ belief[s] \in Beliefs
           /\ \A e \in Engines, s \in Symbols : fed[e][s] \in 0..MaxReadings
           /\ \A r \in Runs : /\ run[r].kind \in Kinds
                              /\ EngineOf(run[r].kind) \in Engines
                              /\ \A s \in Symbols : run[r].at[s] \in Cells
           /\ lives \in Nat /\ lives >= 1 /\ faults \in Nat
  <1>1. run \in [Runs -> Records]
    BY DEF TypeOK, Records, Cells
  <1>2. \A r \in Runs : /\ run[r].kind \in Kinds
                        /\ \A s \in Symbols : run[r].at[s] \in Cells
    BY <1>1 DEF Records
  <1>3. \A k \in Kinds : EngineOf(k) \in Engines
    BY DEF Kinds, EngineOf, Engines
  <1> QED BY <1>1, <1>2, <1>3, Constants DEF TypeOK, Readings

LEMMA Blank ==
    /\ Todo \in Cells /\ [Todo EXCEPT !.pc = "done"] \in Cells
    /\ [Todo EXCEPT !.pc = "done"].pc = "done"
    /\ Idle \in Records /\ NoBelief \in Beliefs
  <1>1. NoBelief \in Beliefs
    BY Constants DEF NoBelief, Beliefs
  <1>2. Todo \in Cells /\ [Todo EXCEPT !.pc = "done"] \in Cells
    BY <1>1, Constants DEF Todo, Cells
  <1>3. "request" \in Kinds
    BY DEF Kinds
  <1> QED BY <1>1, <1>2, <1>3 DEF Idle, Records, Todo

\* A step of a run at one symbol leaves its other symbols and the other runs alone.
LEMMA AtFacts ==
    ASSUME run \in [Runs -> Records], NEW r \in Runs, NEW s \in Symbols, NEW cell \in Cells,
           At(r, s, cell)
    PROVE  /\ run' \in [Runs -> Records]
           /\ run'[r].at[s] = cell
           /\ \A q \in Runs : run'[q].kind = run[q].kind /\ run'[q].open = run[q].open
           /\ \A q \in Runs, t \in Symbols :
                q # r \/ t # s => run'[q].at[t] = run[q].at[t]
  <1>1. run[r] \in Records /\ run[r].at \in [Symbols -> Cells]
    BY DEF Records
  <1>2. run' = [run EXCEPT ![r].at[s] = cell]
    BY DEF At
  <1>3. run'[r] = [run[r] EXCEPT !.at[s] = cell] /\ \A q \in Runs : q # r => run'[q] = run[q]
    BY <1>2
  <1>4. /\ run'[r].at = [run[r].at EXCEPT ![s] = cell]
        /\ run'[r].kind = run[r].kind /\ run'[r].open = run[r].open
    BY <1>1, <1>3 DEF Records
  <1>5. run'[r] \in Records
    BY <1>1, <1>3 DEF Records
  <1>6. run' \in [Runs -> Records]
    BY <1>2, <1>3, <1>5
  <1> QED BY <1>1, <1>3, <1>4, <1>6

\* Two runs of an engine are never at one symbol together, nor is one next to another
\* that is busy.
LEMMA FeedingAlone ==
    ASSUME Alone, NEW r \in Runs, NEW s \in Symbols, run[r].at[s].pc # "done"
    PROVE  \A q \in Feeding(EngineOf(run[r].kind), s) : q = r
  <1> SUFFICES ASSUME NEW q \in Feeding(EngineOf(run[r].kind), s) PROVE q = r
    OBVIOUS
  <1>1. /\ q \in Runs /\ EngineOf(run[q].kind) = EngineOf(run[r].kind)
        /\ run[q].at[s].pc # "done"
    BY DEF Feeding, Pending
  <1>2. Busy(r) /\ Busy(q)
    BY <1>1 DEF Busy
  <1> QED BY <1>1, <1>2 DEF Alone

LEMMA CreditFeeding ==
    ASSUME Alone, NEW r \in Runs, NEW s \in Symbols, run[r].at[s].pc \in Pending
    PROVE  Credit(EngineOf(run[r].kind), s) = Due(EngineOf(run[r].kind), s, run[r].at[s])
  <1>1. Feeding(EngineOf(run[r].kind), s) = {r}
    BY FeedingAlone DEF Feeding, Pending
  <1> QED BY <1>1 DEF Credit

LEMMA CreditResting ==
    ASSUME Alone, NEW r \in Runs, NEW s \in Symbols, run[r].at[s].pc = "todo"
    PROVE  Credit(EngineOf(run[r].kind), s) = Told(EngineOf(run[r].kind), s, reading[s])
  <1>1. Feeding(EngineOf(run[r].kind), s) = {}
    BY FeedingAlone DEF Feeding, Pending
  <1> QED BY <1>1 DEF Credit

LEMMA CreditDone ==
    ASSUME NEW e \in Engines, NEW s \in Symbols, Feeding(e, s) = {}
    PROVE  Credit(e, s) = Told(e, s, reading[s])
  BY DEF Credit

LEMMA CreditInt ==
    ASSUME TypeOK, NEW e \in Engines, NEW s \in Symbols
    PROVE  Credit(e, s) \in Int
  <1>1. CASE Feeding(e, s) = {}
    BY <1>1, Types DEF Credit, Told
  <1>2. CASE Feeding(e, s) # {}
    <2> DEFINE q == CHOOSE r \in Feeding(e, s) : TRUE
    <2>1. q \in Runs
      BY <1>2 DEF Feeding
    <2>2. run[q].at[s] \in Cells /\ Credit(e, s) = Due(e, s, run[q].at[s])
      BY <1>2, <2>1, Types DEF Credit
    <2> HIDE DEF q
    <2> QED BY <2>2, Types, Constants DEF Due, Told, Cells
  <1> QED BY <1>1, <1>2

CreditsInt == \A e \in Engines, s \in Symbols : Credit(e, s) \in Int

LEMMA CreditAlwaysInt == TypeOK' => CreditsInt'
  <1>1. TypeOK => CreditsInt
    BY CreditInt DEF CreditsInt
  <1> QED BY <1>1, PTL

\* A credit does not shrink while what the engine feeds of a symbol stays the same.
LEMMA CreditKept ==
    ASSUME TypeOK, TypeOK', NEW e \in Engines, NEW s \in Symbols,
           \A q \in Runs : /\ q \in Feeding(e, s)' <=> q \in Feeding(e, s)
                           /\ q \in Feeding(e, s) => run'[q].at[s] = run[q].at[s],
           reading'[s] >= reading[s], fed'[e][s] = fed[e][s], lives' = lives
    PROVE  Credit(e, s)' >= Credit(e, s)
  <1>1. Feeding(e, s)' = Feeding(e, s)
    BY DEF Feeding
  <1>2. \A v : Told(e, s, v)' = Told(e, s, v)
    BY DEF Told
  <1>3. CASE Feeding(e, s) = {}
    <2>1. /\ Credit(e, s) = Told(e, s, reading[s])
          /\ Credit(e, s)' = IF fed'[e][s] = 0 THEN reading'[s] + lives' - 2
                             ELSE fed'[e][s] + lives' - 1
      BY <1>1, <1>3 DEF Credit, Told
    <2>2. reading[s] \in Nat /\ reading'[s] \in Nat /\ lives \in Nat /\ fed[e][s] \in Nat
      BY Types, Constants DEF TypeOK, Readings
    <2> QED BY <2>1, <2>2 DEF Told
  <1>4. CASE Feeding(e, s) # {}
    <2> DEFINE q == CHOOSE r \in Feeding(e, s) : TRUE
    <2>1. q \in Feeding(e, s) /\ q \in Runs
      BY <1>4 DEF Feeding
    <2>2. run'[q].at[s] = run[q].at[s]
      BY <2>1
    <2>3. Credit(e, s) = Due(e, s, run[q].at[s])
      BY <1>4 DEF Credit
    <2> DEFINE cell == run[q].at[s]
    <2>4. Credit(e, s)' = IF cell.pc = "marking" THEN Told(e, s, cell.reading) + 1
                          ELSE Told(e, s, cell.reading)
      <3>1. Feeding(e, s)' # {} /\ q = CHOOSE r \in Feeding(e, s)' : TRUE
        BY <1>1, <1>4
      <3>2. LET w == run'[q].at[s].reading
                n == IF fed'[e][s] = 0 THEN w + lives' - 2 ELSE fed'[e][s] + lives' - 1
            IN  Credit(e, s)' = IF run'[q].at[s].pc = "marking" THEN n + 1 ELSE n
        <4> DEFINE p == CHOOSE r \in Feeding(e, s)' : TRUE
        <4>1. LET w == run'[p].at[s].reading
                  n == IF fed'[e][s] = 0 THEN w + lives' - 2 ELSE fed'[e][s] + lives' - 1
              IN  Credit(e, s)' = IF run'[p].at[s].pc = "marking" THEN n + 1 ELSE n
          BY <3>1 DEF Credit, Due, Told
        <4>2. p = q
          BY <3>1
        <4> HIDE DEF p, q
        <4> QED BY <4>1, <4>2
      <3> QED BY <2>2, <3>2 DEF Told
    <2>5. Credit(e, s)' = Credit(e, s)
      BY <2>3, <2>4 DEF Due
    <2> QED BY <2>5, CreditInt
  <1> QED BY <1>3, <1>4

-----------------------------------------------------------------------------
(* A run moves on at one symbol.                                           *)

\* All that a step of run r at symbol s does to the runs.
Moves(r, s, cell) ==
    /\ run'[r].at[s] = cell
    /\ \A q \in Runs : run'[q].kind = run[q].kind /\ (run'[q].open => run[q].open)
    /\ \A q \in Runs, t \in Symbols : q # r \/ t # s => run'[q].at[t] = run[q].at[t]

LEMMA CreditAfter ==
    ASSUME TypeOK, Alone, NEW r \in Runs, NEW s \in Symbols, NEW cell \in Cells,
           NEW e \in Engines, e = EngineOf(run[r].kind),
           run[r].at[s].pc # "done", Moves(r, s, cell)
    PROVE  Credit(e, s)' =
             LET v == IF cell.pc \in Pending THEN cell.reading ELSE reading'[s]
                 n == IF fed'[e][s] = 0 THEN v + lives' - 2 ELSE fed'[e][s] + lives' - 1
             IN  IF cell.pc = "marking" THEN n + 1 ELSE n
  <1>1. \A q \in Runs : q \in Feeding(e, s)' => q = r
    <2> SUFFICES ASSUME NEW q \in Runs, q \in Feeding(e, s)', q # r PROVE FALSE
      OBVIOUS
    <2>1. q \in Feeding(e, s)
      BY DEF Feeding, Moves
    <2> QED BY <2>1, FeedingAlone
  <1>2. r \in Feeding(e, s)' <=> cell.pc \in Pending
    BY DEF Feeding, Moves
  <1>3. CASE cell.pc \in Pending
    <2>1. Feeding(e, s)' = {r}
      BY <1>1, <1>2, <1>3 DEF Feeding
    <2>2. (CHOOSE q \in Feeding(e, s)' : TRUE) = r
      BY <2>1
    <2>3. run'[r].at[s] = cell
      BY DEF Moves
    <2> QED BY <1>3, <2>1, <2>2, <2>3 DEF Credit, Due, Told
  <1>4. CASE cell.pc \notin Pending
    <2>1. Feeding(e, s)' = {}
      BY <1>1, <1>2, <1>4 DEF Feeding
    <2> QED BY <1>4, <2>1 DEF Credit, Told, Pending
  <1> QED BY <1>3, <1>4

LEMMA MoveKnown ==
    ASSUME TypeOK, Known, NEW r \in Runs, NEW s \in Symbols, NEW cell \in Cells,
           Moves(r, s, cell), UNCHANGED reading,
           \A e \in Engines, t \in Symbols : fed'[e][t] <= reading[t],
           cell.pc \in Pending => cell.reading \in 1..reading[s]
    PROVE  Known'
  <1> SUFFICES ASSUME NEW q \in Runs, NEW t \in Symbols, run'[q].at[t].pc \in Pending
               PROVE  run'[q].at[t].reading \in 1..reading[t]
    BY DEF Known
  <1>1. CASE q = r /\ t = s
    BY <1>1 DEF Moves
  <1>2. CASE q # r \/ t # s
    <2>1. run'[q].at[t] = run[q].at[t]
      BY <1>2 DEF Moves
    <2> QED BY <2>1 DEF Known
  <1> QED BY <1>1, <1>2

\* A move that lowers the credit of its engine no more than a failure makes up for, of a
\* reading that is fresh.
LEMMA MoveKeeps ==
    ASSUME TypeOK, TypeOK', Alone, Fresh, Counted,
           NEW r \in Runs, NEW s \in Symbols, NEW cell \in Cells,
           NEW E \in Engines, E = EngineOf(run[r].kind),
           run[r].at[s].pc # "done", Moves(r, s, cell), UNCHANGED <<reading, lives>>,
           \A e \in Engines, t \in Symbols :
             e # E \/ t # s => fed'[e][t] = fed[e][t],
           cell.pc \in Pending => fed'[E][s] < cell.reading,
           faults' >= faults, Credit(E, s)' + faults' >= Credit(E, s) + faults,
           cell.pc = "storing" => cell.prior = belief[s],
           \A t \in Symbols \ {s} : belief'[t] = belief[t],
           belief'[s] = belief[s] \/ belief'[s].count <= Credits(s)'
    PROVE  Sound'
  <1>1. \A q \in Runs : run'[q].kind = run[q].kind
    BY DEF Moves
  <1>2. Alone'
    <2>1. ASSUME NEW q \in Runs, Busy(q)' PROVE Busy(q)
      <3>1. CASE q = r
        BY <3>1 DEF Busy
      <3>2. CASE q # r
        BY <2>1, <3>2 DEF Busy, Moves
      <3> QED BY <3>1, <3>2
    <2> QED BY <1>1, <2>1 DEF Alone
  <1>3. ASSUME NEW e \in Engines, NEW t \in Symbols, e # E \/ t # s
        PROVE  Credit(e, t)' >= Credit(e, t)
    <2>1. ASSUME NEW q \in Runs
          PROVE  /\ q \in Feeding(e, t)' <=> q \in Feeding(e, t)
                 /\ q \in Feeding(e, t) => run'[q].at[t] = run[q].at[t]
      <3>1. CASE q = r /\ t = s
        BY <1>3, <3>1, <1>1 DEF Feeding
      <3>2. CASE q # r \/ t # s
        BY <3>2 DEF Feeding, Moves
      <3> QED BY <3>1, <3>2
    <2>2. reading'[t] >= reading[t] /\ fed'[e][t] = fed[e][t]
      BY <1>3, Types, Constants
    <2> QED BY <2>1, <2>2, CreditKept
  <1>4. Fresh'
    <2> SUFFICES ASSUME NEW q \in Runs, NEW t \in Symbols, run'[q].at[t].pc \in Pending
                 PROVE  fed'[EngineOf(run'[q].kind)][t] < run'[q].at[t].reading
      BY DEF Fresh
    <2>1. CASE q = r /\ t = s
      BY <1>1, <2>1 DEF Moves
    <2>2. CASE q # r \/ t # s
      <3>1. run'[q].at[t] = run[q].at[t]
        BY <2>2 DEF Moves
      <3>2. EngineOf(run[q].kind) # E \/ t # s
        BY <2>2, <3>1, FeedingAlone DEF Feeding
      <3>3. EngineOf(run[q].kind) \in Engines
        BY Types
      <3> QED BY <1>1, <3>1, <3>2, <3>3 DEF Fresh
    <2> QED BY <2>1, <2>2
  <1>5. Counted'
    <2>1. ASSUME NEW t \in Symbols
          PROVE  Credits(t) \in Int /\ Credits(t)' \in Int /\ Credits(t) <= Credits(t)'
      <3>1. \A e \in Engines : Credit(e, t) \in Int /\ Credit(e, t)' \in Int
        BY CreditInt, CreditAlwaysInt DEF CreditsInt
      <3>2. \A e \in Engines : e # E \/ t # s => Credit(e, t)' >= Credit(e, t)
        BY <1>3
      <3>3. faults \in Nat /\ faults' \in Nat
        BY Types, Constants DEF TypeOK
      <3>4. /\ Credit("opportunity", t) \in Int /\ Credit("composite", t) \in Int
            /\ Credit("opportunity", t)' \in Int /\ Credit("composite", t)' \in Int
        BY <3>1 DEF Engines
      <3>5. Credits(t) = Credit("opportunity", t) + Credit("composite", t) + faults
        BY DEF Credits
      <3>6. Credits(t)' = Credit("opportunity", t)' + Credit("composite", t)' + faults'
        BY DEF Credits
      <3>7. CASE t # s
        <4>1. /\ Credit("opportunity", t)' >= Credit("opportunity", t)
              /\ Credit("composite", t)' >= Credit("composite", t)
          BY <3>2, <3>7 DEF Engines
        <4> QED BY <3>3, <3>4, <3>5, <3>6, <4>1
      <3>8. CASE t = s /\ E = "opportunity"
        <4>1. /\ Credit("opportunity", t)' + faults' >= Credit("opportunity", t) + faults
              /\ Credit("composite", t)' >= Credit("composite", t)
          BY <3>2, <3>8 DEF Engines
        <4> QED BY <3>3, <3>4, <3>5, <3>6, <4>1
      <3>9. CASE t = s /\ E = "composite"
        <4>1. /\ Credit("composite", t)' + faults' >= Credit("composite", t) + faults
              /\ Credit("opportunity", t)' >= Credit("opportunity", t)
          BY <3>2, <3>9 DEF Engines
        <4> QED BY <3>3, <3>4, <3>5, <3>6, <4>1
      <3> QED BY <3>7, <3>8, <3>9 DEF Engines
    <2>2. ASSUME NEW t \in Symbols PROVE belief'[t].count <= Credits(t)'
      <3>1. belief[t].count \in Nat /\ belief[t].count <= Credits(t)
        BY Types, Constants DEF Counted, Beliefs
      <3> QED BY <2>1, <3>1
    <2>3. ASSUME NEW q \in Runs, NEW t \in Symbols, run'[q].at[t].pc = "storing"
          PROVE  run'[q].at[t].prior.count <= Credits(t)'
      <3>1. CASE q = r /\ t = s
        <4>1. run'[q].at[t].prior = belief[t]
          BY <2>3, <3>1 DEF Moves
        <4>2. belief[t].count \in Nat /\ belief[t].count <= Credits(t)
          BY Types, Constants DEF Counted, Beliefs
        <4> QED BY <2>1, <4>1, <4>2
      <3>2. CASE q # r \/ t # s
        <4>1. run'[q].at[t] = run[q].at[t]
          BY <3>2 DEF Moves
        <4>2. run[q].at[t].prior.count \in Nat
          BY Types, Constants DEF Cells, Beliefs
        <4>3. run[q].at[t].prior.count <= Credits(t)
          BY <2>3, <4>1 DEF Counted
        <4> QED BY <2>1, <4>1, <4>2, <4>3
      <3> QED BY <3>1, <3>2
    <2> QED BY <2>2, <2>3 DEF Counted
  <1> QED BY <1>2, <1>4, <1>5 DEF Sound

-----------------------------------------------------------------------------
(* The steps.                                                              *)

\* A step that moves a run at one symbol by writing its cell.
LEMMA AtMoves ==
    ASSUME TypeOK, NEW r \in Runs, NEW s \in Symbols, NEW cell \in Cells, At(r, s, cell)
    PROVE  run' \in [Runs -> Records] /\ Moves(r, s, cell)
  BY Types, AtFacts DEF Moves

\* What is assessed is the present reading, and newer than what was fed.
LEMMA AssessStep ==
    ASSUME TypeOK, Known, NEW r \in Runs, NEW s \in Symbols, Assess(r, s)
    PROVE  TypeOK' /\ Known' /\ (Sound => Sound')
  <1> DEFINE loading == [Todo EXCEPT !.pc = "loading", !.reading = reading[s]]
             done == [Todo EXCEPT !.pc = "done"]
  <1>1. PICK e \in Engines : e = EngineOf(run[r].kind)
    BY Types
  <1>2. /\ run[r].at[s].pc = "todo" /\ UNCHANGED <<reading, belief, fed, overlapped, lives>>
        /\ faults' \in 0..MaxFaults
    BY DEF Assess, TypeOK
  <1>3. (At(r, s, loading) /\ fed[e][s] # reading[s]) \/ At(r, s, done)
    BY <1>1 DEF Assess, Changed
  <1>4. /\ loading \in Cells /\ done \in Cells /\ done.pc = "done"
        /\ loading.pc = "loading" /\ loading.reading = reading[s]
    <2>1. reading[s] \in 0..MaxReadings
      BY Types, Constants
    <2>2. Todo \in Cells /\ done \in Cells /\ done.pc = "done"
      BY Blank
    <2>3. loading \in Cells /\ loading.pc = "loading" /\ loading.reading = reading[s]
      <3> HIDE DEF done
      <3> QED BY <2>1, <2>2 DEF Cells
    <2> QED BY <2>2, <2>3
  <1> HIDE DEF loading, done
  <1>5. PICK cell \in Cells :
          /\ At(r, s, cell)
          /\ \/ cell.pc = "done"
             \/ cell.pc = "loading" /\ cell.reading = reading[s] /\ fed[e][s] # reading[s]
    BY <1>3, <1>4
  <1>6. run' \in [Runs -> Records] /\ Moves(r, s, cell)
    BY <1>5, AtMoves
  <1>7. TypeOK'
    BY <1>2, <1>6 DEF TypeOK, Records, Cells
  <1>8. /\ reading[s] \in 1..MaxReadings /\ reading[s] \in Nat /\ lives \in Nat
        /\ fed[e][s] <= reading[s] /\ fed[e][s] \in Nat
    BY Types, Constants DEF Known
  <1>9. Known'
    <2>1. cell.pc \in Pending => cell.reading \in 1..reading[s]
      BY <1>5, <1>8 DEF Pending
    <2> QED BY <1>2, <1>6, <2>1, MoveKnown DEF Known
  <1>10. ASSUME Sound PROVE Sound'
    <2>1. cell.pc \in Pending => fed[e][s] < cell.reading
      BY <1>5, <1>8 DEF Pending
    <2>2. Credit(e, s) = IF fed[e][s] = 0 THEN reading[s] + lives - 2 ELSE fed[e][s] + lives - 1
      BY <1>1, <1>2, <1>10, CreditResting DEF Sound, Told
    <2>3. Credit(e, s)' = IF fed[e][s] = 0 THEN reading[s] + lives - 2 ELSE fed[e][s] + lives - 1
      <3>1. run[r].at[s].pc # "done"
        BY <1>2
      <3>2. Credit(e, s)' =
             LET v == IF cell.pc \in Pending THEN cell.reading ELSE reading'[s]
                 n == IF fed'[e][s] = 0 THEN v + lives' - 2 ELSE fed'[e][s] + lives' - 1
             IN  IF cell.pc = "marking" THEN n + 1 ELSE n
        BY <1>1, <1>6, <1>10, <3>1, CreditAfter DEF Sound
      <3> QED BY <1>2, <1>5, <3>2 DEF Pending
    <2>4. faults' >= faults /\ Credit(e, s)' + faults' >= Credit(e, s) + faults
      <3>1. faults \in Nat /\ faults' \in Nat /\ faults' >= faults
        BY <1>2, Types, Constants DEF Assess
      <3> QED BY <1>8, <2>2, <2>3, <3>1
    <2>5. /\ run[r].at[s].pc # "done" /\ cell.pc # "storing"
          /\ UNCHANGED <<reading, lives>>
          /\ \A d \in Engines, t \in Symbols : fed'[d][t] = fed[d][t]
          /\ \A t \in Symbols \ {s} : belief'[t] = belief[t]
          /\ belief'[s] = belief[s] \/ belief'[s].count <= Credits(s)'
          /\ cell.pc \in Pending => fed'[e][s] < cell.reading
      BY <1>2, <1>5, <2>1
    <2>6. Alone /\ Fresh /\ Counted
      BY <1>10 DEF Sound
    <2> QED BY <1>1, <1>6, <1>7, <2>4, <2>5, <2>6, MoveKeeps
  <1> QED BY <1>7, <1>9, <1>10

\* The prior that is read is within the credits of now.
LEMMA LoadStep ==
    ASSUME TypeOK, Known, NEW r \in Runs, NEW s \in Symbols, LoadBelief(r, s)
    PROVE  TypeOK' /\ Known' /\ (Sound => Sound')
  <1> DEFINE old == run[r].at[s]
             cell == [run[r].at[s] EXCEPT !.pc = "storing", !.prior = belief[s]]
  <1>1. /\ old.pc = "loading" /\ At(r, s, cell) /\ old \in Cells
        /\ UNCHANGED <<reading, belief, fed, overlapped, lives, faults>>
    BY Types DEF LoadBelief
  <1>2. /\ cell \in Cells /\ cell.pc = "storing" /\ cell.prior = belief[s]
        /\ cell.reading = old.reading
    BY <1>1, Types DEF Cells
  <1> HIDE DEF cell
  <1>3. run' \in [Runs -> Records] /\ Moves(r, s, cell)
    BY <1>1, <1>2, AtMoves
  <1>4. TypeOK'
    BY <1>1, <1>3 DEF TypeOK, Records, Cells
  <1>5. old.reading \in 1..reading[s]
    BY <1>1 DEF Known, Pending
  <1>6. Known'
    BY <1>1, <1>2, <1>3, <1>5, MoveKnown DEF Known
  <1>7. ASSUME Sound PROVE Sound'
    <2>1. PICK e \in Engines : e = EngineOf(run[r].kind)
      BY Types
    <2>2. fed[e][s] < old.reading
      BY <1>1, <1>7, <2>1 DEF Sound, Fresh, Pending
    <2>3. Credit(e, s) = Due(e, s, old)
      BY <1>1, <1>7, <2>1, CreditFeeding DEF Sound, Pending
    <2>4. Credit(e, s)' =
             LET v == IF cell.pc \in Pending THEN cell.reading ELSE reading'[s]
                 n == IF fed'[e][s] = 0 THEN v + lives' - 2 ELSE fed'[e][s] + lives' - 1
             IN  IF cell.pc = "marking" THEN n + 1 ELSE n
      BY <1>1, <1>2, <1>3, <1>7, <2>1, CreditAfter DEF Sound
    <2>5. Credit(e, s)' = Credit(e, s)
      BY <1>1, <1>2, <2>3, <2>4 DEF Pending, Due, Told
    <2>6. faults' >= faults /\ Credit(e, s)' + faults' >= Credit(e, s) + faults
      BY <1>1, <2>5, CreditInt, Types
    <2>7. run[r].at[s].pc # "done"
      BY <1>1
    <2>8. /\ UNCHANGED <<reading, lives>>
          /\ \A d \in Engines, t \in Symbols : fed'[d][t] = fed[d][t]
          /\ \A t \in Symbols \ {s} : belief'[t] = belief[t]
          /\ belief'[s] = belief[s] \/ belief'[s].count <= Credits(s)'
          /\ cell.pc \in Pending => fed'[e][s] < cell.reading
          /\ cell.pc = "storing" => cell.prior = belief[s]
      BY <1>1, <1>2, <2>2
    <2>9. Alone /\ Fresh /\ Counted
      BY <1>7 DEF Sound
    <2> QED BY <1>2, <1>3, <1>4, <2>1, <2>6, <2>7, <2>8, <2>9, MoveKeeps
  <1> QED BY <1>4, <1>6, <1>7

\* The count that is stored.
LEMMA CountAdded ==
    ASSUME NEW n \in Nat
    PROVE  Min({n + 1, MaxCount}) \in 0..MaxCount /\ Min({n + 1, MaxCount}) <= n + 1
  <1> DEFINE m == n + 1
  <1>1. m \in Nat /\ MaxCount \in Nat
    BY Constants
  <1> HIDE DEF m
  <1>2. \E x \in {m, MaxCount} : \A y \in {m, MaxCount} : x <= y
    BY <1>1
  <1>3. Min({m, MaxCount}) \in {m, MaxCount} /\ \A y \in {m, MaxCount} : Min({m, MaxCount}) <= y
    BY <1>2 DEF Min
  <1>4. Min({m, MaxCount}) \in 0..MaxCount /\ Min({m, MaxCount}) <= m
    BY <1>1, <1>3
  <1> QED BY <1>4 DEF m

\* One more observation, and one more is due.
LEMMA StoreStep ==
    ASSUME TypeOK, Known, NEW r \in Runs, NEW s \in Symbols, StoreBelief(r, s)
    PROVE  TypeOK' /\ Known' /\ (Sound => Sound')
  <1> DEFINE old == run[r].at[s]
             cell == [run[r].at[s] EXCEPT !.pc = "marking", !.prior = NoBelief]
             added == [count |-> Min({old.prior.count + 1, MaxCount}),
                       evidence |-> old.prior.evidence \cup {old.reading}]
  <1>1. /\ old.pc = "storing" /\ At(r, s, cell) /\ old \in Cells
        /\ belief' = [belief EXCEPT ![s] = added]
        /\ UNCHANGED <<reading, fed, overlapped, lives, faults>>
    BY Types DEF StoreBelief
  <1>2. cell \in Cells /\ cell.pc = "marking" /\ cell.reading = old.reading
    BY <1>1, Blank DEF Cells
  <1> HIDE DEF cell
  <1>3. run' \in [Runs -> Records] /\ Moves(r, s, cell)
    BY <1>1, <1>2, AtMoves
  <1>4. old.prior.count \in Nat /\ old.prior.evidence \subseteq Readings
    BY <1>1, Constants DEF Cells, Beliefs
  <1>5. /\ added.count \in 0..MaxCount /\ added.count <= old.prior.count + 1
        /\ added.count \in Nat
    BY <1>4, CountAdded, Constants
  <1>6. old.reading \in 1..reading[s] /\ reading[s] \in 1..MaxReadings
    BY <1>1, Types DEF Known, Pending
  <1>7. added \in Beliefs
    <2>1. old.reading \in Readings
      BY <1>6, Constants DEF Readings
    <2> QED BY <1>4, <1>5, <2>1 DEF Beliefs
  <1> HIDE DEF added
  <1>8. TypeOK'
    BY <1>1, <1>3, <1>7 DEF TypeOK, Records, Cells
  <1>9. Known'
    BY <1>1, <1>2, <1>3, <1>6, MoveKnown DEF Known
  <1>10. ASSUME Sound PROVE Sound'
    <2>1. PICK e \in Engines : e = EngineOf(run[r].kind)
      BY Types
    <2>2. fed[e][s] < old.reading /\ fed[e][s] \in Nat /\ old.reading \in Nat /\ lives \in Nat
      BY <1>1, <1>6, <1>10, <2>1, Types, Constants DEF Sound, Fresh, Pending
    <2>3. Credit(e, s) = Due(e, s, old)
      BY <1>1, <1>10, <2>1, CreditFeeding DEF Sound, Pending
    <2>4. Credit(e, s)' = (IF fed[e][s] = 0 THEN old.reading + lives - 2
                           ELSE fed[e][s] + lives - 1) + 1
      BY <1>1, <1>2, <1>3, <1>10, <2>1, CreditAfter DEF Sound, Pending
    <2>5. Credit(e, s)' >= Credit(e, s) + 1
      BY <1>1, <2>2, <2>3, <2>4 DEF Due, Told
    <2>6. \A d \in Engines \ {e} : Credit(d, s)' >= Credit(d, s)
      <3> SUFFICES ASSUME NEW d \in Engines, d # e PROVE Credit(d, s)' >= Credit(d, s)
        OBVIOUS
      <3>1. ASSUME NEW q \in Runs
            PROVE  /\ q \in Feeding(d, s)' <=> q \in Feeding(d, s)
                   /\ q \in Feeding(d, s) => run'[q].at[s] = run[q].at[s]
        BY <1>3, <2>1 DEF Feeding, Moves
      <3> QED BY <1>1, <1>6, <1>8, <3>1, CreditKept
    <2>7. Credits(s)' >= Credits(s) + 1 /\ Credits(s) \in Int /\ Credits(s)' \in Int
      <3>1. \A d \in Engines : Credit(d, s) \in Int /\ Credit(d, s)' \in Int
        BY <1>8, CreditInt, CreditAlwaysInt DEF CreditsInt
      <3>2. faults' = faults /\ faults \in Nat
        BY <1>1, Types
      <3> QED BY <2>1, <2>5, <2>6, <3>1, <3>2 DEF Credits, Engines
    <2>8. old.prior.count <= Credits(s)
      BY <1>1, <1>10 DEF Sound, Counted
    <2>9. belief'[s] = added /\ \A t \in Symbols \ {s} : belief'[t] = belief[t]
      BY <1>1 DEF TypeOK
    <2>10. added.count <= Credits(s)'
      BY <1>4, <1>5, <2>7, <2>8
    <2>11. /\ run[r].at[s].pc # "done" /\ faults' >= faults
           /\ Credit(e, s)' + faults' >= Credit(e, s) + faults
      BY <1>1, <1>8, <2>5, Types, CreditInt, CreditAlwaysInt DEF CreditsInt
    <2>12. /\ UNCHANGED <<reading, lives>>
           /\ \A d \in Engines, t \in Symbols : fed'[d][t] = fed[d][t]
           /\ \A t \in Symbols \ {s} : belief'[t] = belief[t]
           /\ belief'[s] = belief[s] \/ belief'[s].count <= Credits(s)'
           /\ cell.pc \in Pending => fed'[e][s] < cell.reading
           /\ cell.pc # "storing"
      BY <1>1, <1>2, <2>2, <2>9, <2>10
    <2>13. Alone /\ Fresh /\ Counted
      BY <1>10 DEF Sound
    <2> QED BY <1>2, <1>3, <1>8, <2>1, <2>11, <2>12, <2>13, MoveKeeps
  <1> QED BY <1>8, <1>9, <1>10

\* What was stored is remembered: nothing more is due than was.
LEMMA MarkStep ==
    ASSUME TypeOK, Known, NEW r \in Runs, NEW s \in Symbols, Mark(r, s)
    PROVE  TypeOK' /\ Known' /\ (Sound => Sound')
  <1> DEFINE old == run[r].at[s]
             cell == [Todo EXCEPT !.pc = "done"]
  <1>1. PICK e \in Engines : e = EngineOf(run[r].kind)
    BY Types
  <1>2. /\ old.pc = "marking" /\ At(r, s, cell) /\ old \in Cells
        /\ fed' = [fed EXCEPT ![e][s] = old.reading]
        /\ UNCHANGED <<reading, belief, overlapped, lives, faults>>
    BY <1>1, Types DEF Mark
  <1>3. cell \in Cells /\ cell.pc = "done"
    BY Blank
  <1> HIDE DEF cell
  <1>4. run' \in [Runs -> Records] /\ Moves(r, s, cell)
    BY <1>2, <1>3, AtMoves
  <1>5. /\ old.reading \in 1..reading[s] /\ reading[s] \in 1..MaxReadings
        /\ old.reading \in 0..MaxReadings
    <2>1. old.reading \in 1..reading[s] /\ reading[s] \in 1..MaxReadings
      BY <1>2, Types DEF Known, Pending
    <2> QED BY <2>1, Constants
  <1>6. /\ fed' \in [Engines -> [Symbols -> 0..MaxReadings]]
        /\ fed'[e][s] = old.reading
        /\ \A d \in Engines, t \in Symbols : d # e \/ t # s => fed'[d][t] = fed[d][t]
    BY <1>2, <1>5 DEF TypeOK
  <1>7. TypeOK'
    BY <1>2, <1>4, <1>6 DEF TypeOK, Records, Cells
  <1>8. Known'
    <2>1. \A d \in Engines, t \in Symbols : fed'[d][t] <= reading[t]
      BY <1>5, <1>6 DEF Known
    <2> QED BY <1>2, <1>3, <1>4, <2>1, MoveKnown DEF Pending
  <1>9. ASSUME Sound PROVE Sound'
    <2>1. Credit(e, s) = (IF fed[e][s] = 0 THEN old.reading + lives - 2
                          ELSE fed[e][s] + lives - 1) + 1
      BY <1>1, <1>2, <1>9, CreditFeeding DEF Sound, Pending, Due, Told
    <2>2. Credit(e, s)' = old.reading + lives - 1
      <3>1. Credit(e, s)' = IF fed'[e][s] = 0 THEN reading'[s] + lives' - 2
                            ELSE fed'[e][s] + lives' - 1
        BY <1>1, <1>2, <1>3, <1>4, <1>9, CreditAfter DEF Sound, Pending
      <3> QED BY <1>2, <1>5, <1>6, <3>1
    <2>3. /\ faults' >= faults /\ Credit(e, s)' + faults' >= Credit(e, s) + faults
          /\ old.pc # "done"
      <3>1. fed[e][s] < old.reading
        BY <1>1, <1>2, <1>9 DEF Sound, Fresh, Pending
      <3>2. /\ fed[e][s] \in Nat /\ old.reading \in Nat /\ lives \in Nat
            /\ faults \in Nat /\ faults' = faults
        BY <1>2, <1>5, Types, Constants
      <3> QED BY <1>2, <2>1, <2>2, <3>1, <3>2
    <2>4. Alone /\ Fresh /\ Counted
      BY <1>9 DEF Sound
    <2>5. cell.pc \notin Pending /\ cell.pc # "storing"
      BY <1>3 DEF Pending
    <2>6. /\ UNCHANGED <<reading, lives>>
          /\ \A t \in Symbols \ {s} : belief'[t] = belief[t]
          /\ belief'[s] = belief[s] \/ belief'[s].count <= Credits(s)'
          /\ cell.pc \in Pending => fed'[e][s] < cell.reading
          /\ cell.pc = "storing" => cell.prior = belief[s]
          /\ run[r].at[s].pc # "done"
      BY <1>2, <2>3, <2>5
    <2>7. /\ e = EngineOf(run[r].kind) /\ Moves(r, s, cell) /\ TypeOK'
          /\ faults' >= faults /\ Credit(e, s)' + faults' >= Credit(e, s) + faults
          /\ \A d \in Engines, t \in Symbols : d # e \/ t # s => fed'[d][t] = fed[d][t]
      BY <1>1, <1>4, <1>6, <1>7, <2>3
    <2> QED BY <1>3, <2>4, <2>6, <2>7, MoveKeeps
  <1> QED BY <1>7, <1>8, <1>9

\* What failed may be fed again: no more is lost of what is due than the failure makes up
\* for.
LEMMA FailStep ==
    ASSUME TypeOK, Known, NEW r \in Runs, NEW s \in Symbols, UpdateFails(r, s)
    PROVE  TypeOK' /\ Known' /\ (Sound => Sound')
  <1> DEFINE old == run[r].at[s]
             cell == [Todo EXCEPT !.pc = "done"]
  <1>1. PICK e \in Engines : e = EngineOf(run[r].kind)
    BY Types
  <1>2. /\ old.pc \in Pending /\ old \in Cells /\ faults' \in 0..MaxFaults
        /\ faults' = faults + 1
        /\ UNCHANGED <<reading, belief, fed, overlapped, lives>>
    <2>1. faults' = faults + 1 /\ faults < MaxFaults /\ faults \in 0..MaxFaults
      BY DEF UpdateFails, TypeOK
    <2>2. faults' \in 0..MaxFaults
      BY <2>1
    <2> QED BY <2>1, <2>2, Types DEF UpdateFails, Pending
  <1>3. cell \in Cells /\ cell.pc = "done"
    BY Blank
  <1>4. run' \in [Runs -> Records] /\ Moves(r, s, cell)
    <2>1. CASE run[r].kind = "composite sweep"
      BY <1>3, <2>1, AtMoves DEF UpdateFails, At
    <2>2. CASE run[r].kind # "composite sweep"
      <3>1. run' = [run EXCEPT ![r].open = FALSE, ![r].at[s] = cell]
        BY <2>2 DEF UpdateFails
      <3> HIDE DEF cell
      <3>2. run \in [Runs -> Records] /\ run[r] \in Records
        BY Types
      <3>3. /\ run'[r] = [run[r] EXCEPT !.open = FALSE, !.at[s] = cell]
            /\ \A q \in Runs : q # r => run'[q] = run[q]
        BY <3>1, <3>2
      <3>4. /\ run'[r] = [kind |-> run[r].kind, open |-> FALSE,
                          at |-> [run[r].at EXCEPT ![s] = cell]]
            /\ run[r].at \in [Symbols -> Cells]
        BY <3>2, <3>3 DEF Records
      <3>5. run'[r] \in Records
        BY <1>3, <3>2, <3>4 DEF Records
      <3>6. run' \in [Runs -> Records]
        BY <3>1, <3>2, <3>3, <3>5
      <3>7. /\ run'[r].at[s] = cell /\ run'[r].kind = run[r].kind /\ run'[r].open = FALSE
            /\ \A t \in Symbols : t # s => run'[r].at[t] = run[r].at[t]
        BY <3>4
      <3> QED BY <3>3, <3>6, <3>7 DEF Moves
    <2> QED BY <2>1, <2>2
  <1> HIDE DEF cell
  <1>5. TypeOK'
    BY <1>2, <1>4 DEF TypeOK, Records, Cells
  <1>6. Known'
    BY <1>2, <1>3, <1>4, MoveKnown DEF Known, Pending
  <1>7. ASSUME Sound PROVE Sound'
    <2>1. LET n == IF fed[e][s] = 0 THEN old.reading + lives - 2 ELSE fed[e][s] + lives - 1
          IN  Credit(e, s) = IF old.pc = "marking" THEN n + 1 ELSE n
      BY <1>1, <1>2, <1>7, CreditFeeding DEF Sound, Due, Told
    <2>2. Credit(e, s)' = IF fed'[e][s] = 0 THEN reading'[s] + lives' - 2
                          ELSE fed'[e][s] + lives' - 1
      BY <1>1, <1>2, <1>3, <1>4, <1>7, CreditAfter DEF Sound, Pending
    <2>3. /\ old.reading \in 1..reading[s] /\ reading[s] \in Nat /\ lives \in Nat
          /\ fed[e][s] \in Nat /\ faults \in Nat
      BY <1>2, Types, Constants DEF Known
    <2>4. faults' >= faults /\ Credit(e, s)' + faults' >= Credit(e, s) + faults
      BY <1>2, <2>1, <2>2, <2>3
    <2>5. Alone /\ Fresh /\ Counted
      BY <1>7 DEF Sound
    <2>6. cell.pc \notin Pending /\ cell.pc # "storing" /\ old.pc # "done"
      BY <1>2, <1>3 DEF Pending
    <2>7. /\ UNCHANGED <<reading, lives>>
          /\ \A d \in Engines, t \in Symbols : fed'[d][t] = fed[d][t]
          /\ \A t \in Symbols \ {s} : belief'[t] = belief[t]
          /\ belief'[s] = belief[s] \/ belief'[s].count <= Credits(s)'
          /\ cell.pc \in Pending => fed'[e][s] < cell.reading
          /\ cell.pc = "storing" => cell.prior = belief[s]
          /\ run[r].at[s].pc # "done"
      BY <1>2, <2>6
    <2>8. /\ e = EngineOf(run[r].kind) /\ Moves(r, s, cell) /\ TypeOK'
          /\ faults' >= faults /\ Credit(e, s)' + faults' >= Credit(e, s) + faults
          /\ \A d \in Engines, t \in Symbols : d # e \/ t # s => fed'[d][t] = fed[d][t]
      BY <1>1, <1>4, <1>5, <2>4, <2>7
    <2> QED BY <1>3, <2>5, <2>7, <2>8, MoveKeeps
  <1> QED BY <1>5, <1>6, <1>7

\* What is due and counted stays so when no run feeds another symbol and readings rise.
LEMMA RestKeeps ==
    ASSUME TypeOK, TypeOK', Counted, UNCHANGED <<belief, fed, lives, faults>>,
           \A s \in Symbols : reading'[s] >= reading[s],
           \A q \in Runs, s \in Symbols :
             run[q].at[s].pc \in Pending \/ run'[q].at[s].pc \in Pending =>
                run'[q].kind = run[q].kind /\ run'[q].at[s] = run[q].at[s]
    PROVE  Counted'
  <1>1. ASSUME NEW e \in Engines, NEW s \in Symbols PROVE Credit(e, s)' >= Credit(e, s)
    <2>1. ASSUME NEW q \in Runs
          PROVE  /\ q \in Feeding(e, s)' <=> q \in Feeding(e, s)
                 /\ q \in Feeding(e, s) => run'[q].at[s] = run[q].at[s]
      BY DEF Feeding
    <2> QED BY <2>1, CreditKept
  <1>2. ASSUME NEW s \in Symbols
        PROVE  Credits(s) \in Int /\ Credits(s)' \in Int /\ Credits(s) <= Credits(s)'
    <2>1. \A d \in Engines :
            Credit(d, s) \in Int /\ Credit(d, s)' \in Int /\ Credit(d, s)' >= Credit(d, s)
      BY <1>1, CreditInt, CreditAlwaysInt DEF CreditsInt
    <2>2. faults' = faults /\ faults \in Nat
      BY Types
    <2> QED BY <2>1, <2>2 DEF Credits, Engines
  <1>3. ASSUME NEW s \in Symbols PROVE belief'[s].count <= Credits(s)'
    <2>1. belief[s].count \in Nat /\ belief[s].count <= Credits(s)
      BY Types, Constants DEF Counted, Beliefs
    <2> QED BY <1>2, <2>1
  <1>4. ASSUME NEW q \in Runs, NEW s \in Symbols, run'[q].at[s].pc = "storing"
        PROVE  run'[q].at[s].prior.count <= Credits(s)'
    <2>1. run'[q].at[s] = run[q].at[s]
      BY <1>4 DEF Pending
    <2>2. run[q].at[s].prior.count \in Nat /\ run[q].at[s].prior.count <= Credits(s)
      BY <1>4, <2>1, Types, Constants DEF Counted, Cells, Beliefs
    <2> QED BY <1>2, <2>1, <2>2
  <1> QED BY <1>3, <1>4 DEF Counted

\* An engine has fed a symbol once per reading, and once more in each later life.
LEMMA CreditBound ==
    ASSUME TypeOK, Known, Fresh, NEW e \in Engines, NEW s \in Symbols
    PROVE  Credit(e, s) <= reading[s] + lives - 1
  <1>1. /\ reading[s] \in Nat /\ reading[s] >= 1 /\ lives \in Nat /\ lives >= 1
        /\ fed[e][s] \in Nat /\ fed[e][s] <= reading[s]
    BY Types, Constants DEF Known
  <1>2. CASE Feeding(e, s) = {}
    BY <1>1, <1>2, CreditDone DEF Told
  <1>3. CASE Feeding(e, s) # {}
    <2> DEFINE q == CHOOSE r \in Feeding(e, s) : TRUE
    <2>1. q \in Runs /\ run[q].at[s].pc \in Pending
      BY <1>3 DEF Feeding
    <2>2. Credit(e, s) = Due(e, s, run[q].at[s])
      BY <1>3 DEF Credit
    <2> HIDE DEF q
    <2>3. run[q].at[s].reading \in Nat /\ run[q].at[s].reading <= reading[s]
      BY <1>1, <2>1 DEF Known
    <2>4. Feeding(e, s) # {} /\ EngineOf(run[q].kind) = e
      BY <1>3 DEF Feeding, q
    <2>5. fed[e][s] < run[q].at[s].reading
      BY <2>1, <2>4 DEF Fresh
    <2> QED BY <1>1, <2>2, <2>3, <2>5 DEF Due, Told
  <1> QED BY <1>2, <1>3

\* A run that starts has fed nothing; if another of its engine is at work, that is noted.
LEMMA StartStep ==
    ASSUME TypeOK, Known, NEW r \in Runs, NEW kind \in Kinds, Start(r, kind)
    PROVE  TypeOK' /\ Known' /\ (overlapped' = {} /\ Sound => Sound')
  <1> DEFINE fresh == [kind |-> kind, open |-> TRUE, at |-> [s \in Symbols |-> Todo]]
             rivals == {p \in Runs : Busy(p) /\ EngineOf(run[p].kind) = EngineOf(kind)}
  <1>1. /\ ~ Busy(r) /\ run' = [run EXCEPT ![r] = fresh]
        /\ overlapped' = overlapped \cup {EngineOf(run[q].kind) : q \in rivals}
        /\ UNCHANGED <<reading, belief, fed, lives, faults>>
    BY DEF Start
  <1>2. fresh \in Records /\ fresh.kind = kind /\ \A s \in Symbols : fresh.at[s].pc = "todo"
    BY Blank DEF Records, Todo
  <1> HIDE DEF fresh
  <1>3. /\ run' \in [Runs -> Records] /\ run'[r] = fresh
        /\ \A q \in Runs : q # r => run'[q] = run[q]
    BY <1>1, <1>2, Types
  <1>4. TypeOK'
    <2>1. overlapped' \subseteq Engines
      BY <1>1, Types DEF TypeOK
    <2> QED BY <1>1, <1>3, <2>1 DEF TypeOK, Records, Cells
  <1>5. \A q \in Runs, s \in Symbols :
          /\ run'[q].at[s].pc \in Pending => q # r
          /\ run[q].at[s].pc \in Pending => q # r
    BY <1>1, <1>2, <1>3 DEF Busy, Pending
  <1>6. Known'
    BY <1>1, <1>3, <1>5 DEF Known
  <1>7. ASSUME overlapped' = {}, Sound PROVE Sound'
    <2>1. Alone'
      <3>1. \A q \in Runs : q # r => (Busy(q)' <=> Busy(q)) /\ run'[q].kind = run[q].kind
        BY <1>3 DEF Busy
      <3>2. \A q \in Runs : ~ (Busy(q) /\ EngineOf(run[q].kind) = EngineOf(kind))
        BY <1>1, <1>7
      <3>3. run'[r].kind = kind
        BY <1>2, <1>3
      <3>4. Alone
        BY <1>7 DEF Sound
      <3> QED BY <3>1, <3>2, <3>3, <3>4 DEF Alone
    <2>2. Fresh'
      BY <1>1, <1>3, <1>5, <1>7 DEF Sound, Fresh
    <2>3. Counted'
      <3>1. Counted /\ \A s \in Symbols : reading'[s] >= reading[s]
        BY <1>1, <1>7, Types, Constants DEF Sound
      <3>2. UNCHANGED <<belief, fed, lives, faults>>
        BY <1>1
      <3>3. \A q \in Runs, s \in Symbols :
              run[q].at[s].pc \in Pending \/ run'[q].at[s].pc \in Pending =>
                 run'[q].kind = run[q].kind /\ run'[q].at[s] = run[q].at[s]
        BY <1>3, <1>5
      <3> QED BY <1>4, <3>1, <3>2, <3>3, RestKeeps
    <2> QED BY <2>1, <2>2, <2>3 DEF Sound
  <1> QED BY <1>4, <1>6, <1>7

LEMMA ReturnStep ==
    ASSUME TypeOK, Known, NEW r \in Runs, Return(r)
    PROVE  TypeOK' /\ Known' /\ (Sound => Sound')
  <1>1. /\ \A s \in Symbols : run[r].at[s].pc = "done" /\ Idle.at[s].pc = "done"
        /\ run' = [run EXCEPT ![r] = Idle] /\ ~ Idle.open
        /\ UNCHANGED <<reading, belief, fed, overlapped, lives, faults>>
    BY Blank DEF Return, Idle
  <1>2. /\ run' \in [Runs -> Records] /\ run'[r] = Idle
        /\ \A q \in Runs : q # r => run'[q] = run[q]
    BY <1>1, Blank, Types
  <1>3. TypeOK'
    BY <1>1, <1>2 DEF TypeOK, Records, Cells
  <1>4. \A q \in Runs, s \in Symbols :
          run'[q].at[s].pc \in Pending \/ run[q].at[s].pc \in Pending => q # r
    BY <1>1, <1>2 DEF Pending
  <1>5. Known'
    BY <1>1, <1>2, <1>4 DEF Known
  <1>6. ASSUME Sound PROVE Sound'
    <2>1. Alone'
      <3>1. \A q \in Runs : q # r => (Busy(q)' <=> Busy(q)) /\ run'[q].kind = run[q].kind
        BY <1>2 DEF Busy
      <3>2. ~ Busy(r)'
        BY <1>1, <1>2 DEF Busy
      <3> QED BY <1>6, <3>1, <3>2 DEF Sound, Alone
    <2>2. Fresh'
      BY <1>1, <1>2, <1>4, <1>6 DEF Sound, Fresh
    <2>3. Counted'
      <3>1. Counted /\ \A s \in Symbols : reading'[s] >= reading[s]
        BY <1>1, <1>6, Types, Constants DEF Sound
      <3>2. UNCHANGED <<belief, fed, lives, faults>>
        BY <1>1
      <3>3. \A q \in Runs, s \in Symbols :
              run[q].at[s].pc \in Pending \/ run'[q].at[s].pc \in Pending =>
                 run'[q].kind = run[q].kind /\ run'[q].at[s] = run[q].at[s]
        BY <1>2, <1>4
      <3> QED BY <1>3, <3>1, <3>2, <3>3, RestKeeps
    <2> QED BY <2>1, <2>2, <2>3 DEF Sound
  <1> QED BY <1>3, <1>5, <1>6

LEMMA ReadingStep ==
    ASSUME TypeOK, Known, NEW s \in Symbols, NewReading(s)
    PROVE  TypeOK' /\ Known' /\ (Sound => Sound')
  <1>1. /\ reading[s] < MaxReadings /\ reading' = [reading EXCEPT ![s] = @ + 1]
        /\ UNCHANGED <<belief, fed, run, overlapped, lives, faults>>
    BY DEF NewReading
  <1>2. \A t \in Symbols : /\ reading[t] \in Nat /\ reading'[t] \in Nat
                            /\ reading'[t] \in 1..MaxReadings /\ reading'[t] >= reading[t]
    BY <1>1, Types, Constants DEF TypeOK
  <1>3. TypeOK'
    <2>1. reading' \in [Symbols -> Readings]
      BY <1>1, <1>2 DEF TypeOK, Readings
    <2> QED BY <1>1, <2>1 DEF TypeOK
  <1>4. Known'
    <2>1. \A e \in Engines, t \in Symbols : fed'[e][t] <= reading'[t]
      <3> SUFFICES ASSUME NEW e \in Engines, NEW t \in Symbols PROVE fed[e][t] <= reading'[t]
        BY <1>1
      <3>1. fed[e][t] \in Nat /\ fed[e][t] <= reading[t]
        BY Types, Constants DEF Known
      <3> QED BY <1>2, <3>1
    <2>2. ASSUME NEW q \in Runs, NEW t \in Symbols, run[q].at[t].pc \in Pending
          PROVE  run[q].at[t].reading \in 1..reading'[t]
      <3>1. run[q].at[t].reading \in 1..reading[t]
        BY <2>2 DEF Known
      <3> QED BY <1>2, <3>1
    <2> QED BY <1>1, <2>1, <2>2 DEF Known
  <1>5. ASSUME Sound PROVE Sound'
    <2>1. Alone' /\ Fresh'
      BY <1>1, <1>5 DEF Sound, Alone, Fresh, Busy
    <2>2. Counted /\ UNCHANGED <<belief, fed, lives, faults, run>>
      BY <1>1, <1>5 DEF Sound
    <2>3. Counted'
      BY <1>2, <1>3, <2>2, RestKeeps
    <2> QED BY <2>1, <2>3 DEF Sound
  <1> QED BY <1>3, <1>4, <1>5

\* What was fed last is forgotten, and once more of everything is due.
LEMMA RestartStep ==
    ASSUME TypeOK, Known, Restart
    PROVE  TypeOK' /\ Known' /\ (Sound => Sound')
  <1>1. /\ lives < MaxLives /\ lives' = lives + 1 /\ run' = [r \in Runs |-> Idle]
        /\ fed' = [e \in Engines |-> [s \in Symbols |-> 0]]
        /\ UNCHANGED <<reading, belief, overlapped, faults>>
    BY DEF Restart
  <1>2. \A q \in Runs : ~ run'[q].open /\ \A s \in Symbols : run'[q].at[s].pc = "done"
    BY <1>1, Blank DEF Idle
  <1>3. TypeOK'
    <2>1. run' \in [Runs -> Records]
      BY <1>1, Blank
    <2>2. fed' \in [Engines -> [Symbols -> 0..MaxReadings]] /\ lives' \in 1..MaxLives
      BY <1>1, Constants DEF TypeOK
    <2> QED BY <1>1, <2>1, <2>2 DEF TypeOK, Records, Cells
  <1>4. \A e \in Engines, s \in Symbols : fed'[e][s] = 0
    BY <1>1
  <1>5. Known'
    BY <1>1, <1>2, <1>4, Types, Constants DEF Known, Pending
  <1>6. ASSUME Sound PROVE Sound'
    <2>1. Alone' /\ Fresh'
      <3>1. \A q \in Runs : ~ Busy(q)' /\ \A s \in Symbols : run'[q].at[s].pc \notin Pending
        BY <1>2 DEF Busy, Pending
      <3> QED BY <3>1 DEF Alone, Fresh
    <2>2. ASSUME NEW s \in Symbols
          PROVE  Credits(s)' >= Credits(s) /\ Credits(s) \in Int /\ Credits(s)' \in Int
      <3>1. ASSUME NEW e \in Engines
            PROVE  Credit(e, s)' >= Credit(e, s) /\ Credit(e, s) \in Int /\ Credit(e, s)' \in Int
        <4>1. Feeding(e, s)' = {}
          BY <1>2 DEF Feeding, Pending
        <4>2. Credit(e, s)' = reading[s] + lives - 1
          <5>1. Credit(e, s)' = reading'[s] + lives' - 2
            BY <1>4, <4>1 DEF Credit, Told
          <5> QED BY <1>1, <5>1, Types
        <4>3. Credit(e, s)' \in Int
          BY <1>3, CreditAlwaysInt DEF CreditsInt
        <4> QED BY <1>6, <4>2, <4>3, CreditBound, CreditInt DEF Sound
      <3>2. faults' = faults /\ faults \in Nat
        BY <1>1, Types
      <3> QED BY <3>1, <3>2 DEF Credits, Engines
    <2>3. ASSUME NEW s \in Symbols PROVE belief[s].count <= Credits(s)'
      <3>1. belief[s].count \in Nat /\ belief[s].count <= Credits(s)
        BY <1>6, Types, Constants DEF Sound, Counted, Beliefs
      <3> QED BY <2>2, <3>1
    <2>4. Counted'
      BY <1>1, <1>2, <2>3 DEF Counted
    <2> QED BY <2>1, <2>4 DEF Sound
  <1> QED BY <1>3, <1>5, <1>6

LEMMA InitIInv == Init => IInv
  <1> SUFFICES ASSUME Init PROVE IInv
    OBVIOUS
  <1>1. /\ run = [r \in Runs |-> Idle] /\ belief = [s \in Symbols |-> NoBelief]
        /\ reading = [s \in Symbols |-> 1] /\ lives = 1
        /\ fed = [e \in Engines |-> [s \in Symbols |-> 0]]
    BY DEF Init
  <1>2. \A q \in Runs : ~ run[q].open /\ \A s \in Symbols : run[q].at[s].pc = "done"
    BY <1>1, Blank DEF Idle
  <1>3. TypeOK
    <2>1. run \in [Runs -> Records] /\ belief \in [Symbols -> Beliefs]
      BY <1>1, Blank
    <2>2. /\ reading \in [Symbols -> Readings] /\ lives \in 1..MaxLives
          /\ fed \in [Engines -> [Symbols -> 0..MaxReadings]]
      BY <1>1, Constants DEF Readings
    <2> QED BY <2>1, <2>2 DEF Init, TypeOK, Records, Cells
  <1>4. Known /\ Alone /\ Fresh
    <2>1. \A q \in Runs : ~ Busy(q) /\ \A s \in Symbols : run[q].at[s].pc \notin Pending
      BY <1>2 DEF Busy, Pending
    <2>2. \A e \in Engines, s \in Symbols : fed[e][s] = 0 /\ reading[s] = 1
      BY <1>1
    <2> QED BY <2>1, <2>2 DEF Known, Alone, Fresh
  <1>5. ASSUME NEW s \in Symbols PROVE belief[s].count <= Credits(s)
    <2>1. ASSUME NEW e \in Engines PROVE Credit(e, s) = 0
      <3>1. Feeding(e, s) = {}
        BY <1>2 DEF Feeding, Pending
      <3> QED BY <1>1, <3>1, CreditDone DEF Told
    <2> QED BY <1>1, <2>1 DEF Credits, Engines, NoBelief, Init
  <1> QED BY <1>2, <1>3, <1>4, <1>5 DEF IInv, Sound, Counted

LEMMA NextIInv == ASSUME IInv, [Next]_vars PROVE IInv'
  <1>1. TypeOK /\ Known /\ (overlapped = {} => Sound)
    BY DEF IInv
  <1>2. SUFFICES TypeOK' /\ Known' /\ (overlapped' = {} /\ Sound => Sound')
                 /\ overlapped \subseteq overlapped'
    BY <1>1 DEF IInv
  <1>3. ASSUME NEW r \in Runs, NEW kind \in Kinds, Start(r, kind)
        PROVE  TypeOK' /\ Known' /\ (overlapped' = {} /\ Sound => Sound')
               /\ overlapped \subseteq overlapped'
    BY <1>1, <1>3, StartStep DEF Start
  <1>4. ASSUME NEW r \in Runs, Step(r)
        PROVE  TypeOK' /\ Known' /\ (Sound => Sound') /\ overlapped' = overlapped
    <2>1. ASSUME NEW s \in Symbols, Assess(r, s)
          PROVE  TypeOK' /\ Known' /\ (Sound => Sound') /\ overlapped' = overlapped
      BY <1>1, <2>1, AssessStep DEF Assess
    <2>2. ASSUME NEW s \in Symbols, LoadBelief(r, s)
          PROVE  TypeOK' /\ Known' /\ (Sound => Sound') /\ overlapped' = overlapped
      BY <1>1, <2>2, LoadStep DEF LoadBelief
    <2>3. ASSUME NEW s \in Symbols, StoreBelief(r, s)
          PROVE  TypeOK' /\ Known' /\ (Sound => Sound') /\ overlapped' = overlapped
      BY <1>1, <2>3, StoreStep DEF StoreBelief
    <2>4. ASSUME NEW s \in Symbols, Mark(r, s)
          PROVE  TypeOK' /\ Known' /\ (Sound => Sound') /\ overlapped' = overlapped
      BY <1>1, <2>4, MarkStep DEF Mark
    <2>5. CASE Return(r)
      BY <1>1, <2>5, ReturnStep DEF Return
    <2> QED BY <1>4, <2>1, <2>2, <2>3, <2>4, <2>5 DEF Step
  <1>5. ASSUME NEW r \in Runs, NEW s \in Symbols, UpdateFails(r, s)
        PROVE  TypeOK' /\ Known' /\ (Sound => Sound') /\ overlapped' = overlapped
    BY <1>1, <1>5, FailStep DEF UpdateFails
  <1>6. ASSUME NEW s \in Symbols, NewReading(s)
        PROVE  TypeOK' /\ Known' /\ (Sound => Sound') /\ overlapped' = overlapped
    BY <1>1, <1>6, ReadingStep DEF NewReading
  <1>7. CASE Restart
    BY <1>1, <1>7, RestartStep DEF Restart
  <1>8. CASE UNCHANGED vars
    <2>1. UNCHANGED <<reading, belief, fed, run, overlapped, lives, faults>>
      BY <1>8 DEF vars
    <2>2. TypeOK' /\ Known'
      BY <1>1, <2>1 DEF TypeOK, Known
    <2>3. Sound => Sound'
      <3>1. \A s \in Symbols : Credits(s)' = Credits(s)
        BY <2>1 DEF Credits, Credit, Due, Told, Feeding
      <3> QED BY <2>1, <3>1 DEF Sound, Alone, Fresh, Busy, Counted
    <2> QED BY <2>1, <2>2, <2>3
  <1> QED BY <1>3, <1>4, <1>5, <1>6, <1>7, <1>8 DEF Next

(* As long as no two runs of an engine overlap, each engine adds a reading *)
(* to the belief once, and once more in each later life of the process and *)
(* for an update that was stored but reported failed.                      *)
THEOREM SweepsSafe == Spec => []FedOnce
  <1>1. IInv => FedOnce
    <2> SUFFICES ASSUME IInv, overlapped = {}, NEW s \in Symbols
                 PROVE  belief[s].count
                           <= Cardinality(Engines) * (reading[s] + lives - 1) + faults
      BY DEF FedOnce
    <2>1. Cardinality(Engines) = 2
      <3>1. Cardinality({"composite"}) = 1 /\ IsFiniteSet({"composite"})
        BY FS_Singleton
      <3>2. Engines = {"composite"} \cup {"opportunity"} /\ "opportunity" \notin {"composite"}
        BY DEF Engines
      <3>3. Cardinality({"composite"} \cup {"opportunity"}) = Cardinality({"composite"}) + 1
        BY <3>1, <3>2, FS_AddElement
      <3> QED BY <3>1, <3>2, <3>3
    <2>2. /\ belief[s].count <= Credits(s) /\ belief[s].count \in Nat
          /\ reading[s] \in Nat /\ lives \in Nat /\ faults \in Nat
      BY Types, Constants DEF IInv, Sound, Counted, Beliefs
    <2>3. \A e \in Engines : Credit(e, s) \in Int /\ Credit(e, s) <= reading[s] + lives - 1
      BY CreditInt, CreditBound DEF IInv, Sound
    <2>4. belief[s].count <= 2 * (reading[s] + lives - 1) + faults
      <3>1. /\ Credit("opportunity", s) \in Int /\ Credit("composite", s) \in Int
            /\ Credit("opportunity", s) <= reading[s] + lives - 1
            /\ Credit("composite", s) <= reading[s] + lives - 1
        BY <2>3 DEF Engines
      <3> QED BY <2>2, <3>1 DEF Credits
    <2> QED BY <2>1, <2>4
  <1>2. IInv /\ [Next]_vars => IInv'
    BY NextIInv
  <1> QED BY InitIInv, <1>1, <1>2, PTL DEF Spec
=============================================================================
