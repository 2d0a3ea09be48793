-------------------------- MODULE LifecycleProofs --------------------------
(***************************************************************************)
(* Proofs about Lifecycle for any number of calls and ids, any legacy      *)
(* ledgers with repeated rows, and any bound on the clock.                 *)
(***************************************************************************)
EXTENDS Lifecycle, TLAPS

\* The stage machine has one way in, no way round and no way out: "detected" only
\* starts a lifecycle, nothing else does, and no stage follows itself.
LEMMA CanFollowFacts ==
    ASSUME NEW s, NEW t, CanFollow(s, t)
    PROVE  /\ s # t
           /\ t \in Stages
           /\ s = NoStage <=> t = "detected"
           /\ s # Unreadable
  BY DEF CanFollow, Advances, NonTerminal, Terminal, Open, Stages, NoStage, Unreadable

\* The stage of a readable ledger is that of its last row.
LEMMA CurrentStageFacts ==
    ASSUME NEW rows \in Seq(Row), Readable(rows)
    PROVE  /\ rows = <<>> => CurrentStage(rows) = NoStage
           /\ rows # <<>> => /\ CurrentStage(rows) = rows[Len(rows)].stage
                             /\ CurrentStage(rows) \in Stages
           /\ CurrentStage(rows) = NoStage => rows = <<>>
  <1>1. CASE rows = <<>>
    BY <1>1 DEF CurrentStage
  <1>2. CASE rows # <<>>
    <2>1. /\ Len(rows) \in 1..Len(rows)
          /\ rows[Len(rows)] \in Row
      BY <1>2
    <2>2. /\ CurrentStage(rows) = rows[Len(rows)].stage
          /\ CurrentStage(rows) \in Stages
      BY <1>2, <2>1 DEF CurrentStage, Row
    <2>3. NoStage \notin Stages
      BY DEF NoStage, Stages, Open, Terminal
    <2> QED BY <1>2, <2>2, <2>3
  <1> QED BY <1>1, <1>2

\* Appending a row the ledger's stage may move to keeps it readable.
LEMMA AppendReadable ==
    ASSUME NEW rows \in Seq(Row), NEW r \in Row,
           Readable(rows), CanFollow(CurrentStage(rows), r.stage)
    PROVE  /\ Readable(Append(rows, r))
           /\ CurrentStage(Append(rows, r)) = r.stage
  <1>1. CASE rows = <<>>
    BY <1>1, CanFollowFacts, CurrentStageFacts DEF Readable, CurrentStage
  <1>2. CASE rows # <<>>
    <2>1. CurrentStage(rows) = rows[Len(rows)].stage
      BY <1>2, CurrentStageFacts
    <2>2. /\ Len(Append(rows, r)) = Len(rows) + 1
          /\ Len(rows) \in Nat \ {0}
          /\ Append(rows, r) # <<>>
          /\ \A k \in 1..Len(rows) : Append(rows, r)[k] = rows[k]
          /\ Append(rows, r)[Len(rows) + 1] = r
      BY <1>2
    <2>3. rows[1].stage = "detected"
      BY <1>2 DEF Readable
    <2>4. ASSUME NEW k \in 1..(Len(Append(rows, r)) - 1)
          PROVE  \/ Append(rows, r)[k + 1].stage = Append(rows, r)[k].stage
                 \/ CanFollow(Append(rows, r)[k].stage, Append(rows, r)[k + 1].stage)
      <3>1. CASE k = Len(rows)
        BY <3>1, <2>1, <2>2
      <3>2. CASE k \in 1..(Len(rows) - 1)
        BY <3>2, <2>2, <1>2 DEF Readable
      <3> QED BY <3>1, <3>2, <2>2
    <2>5. Readable(Append(rows, r))
      BY <2>2, <2>3, <2>4 DEF Readable
    <2> QED BY <2>2, <2>5 DEF CurrentStage
  <1> QED BY <1>1, <1>2
-----------------------------------------------------------------------------
\* A call between its validation and the end of its commit.
Writing(c) == pc[c] \in {"publishing", "committing"}

\* detect() does not queue; a call that advances writes while it holds the lock.
LockDiscipline ==
    \A c \in Calls : /\ pc[c] = "waiting" => ~ IsDetect(c)
                     /\ Writing(c) /\ ~ IsDetect(c) => HoldsLock(c)

\* An id belongs to one detect(), which minted it.
OwnDetect ==
    /\ \A i \in Ids : log[i] # <<>> => i \in minted
    /\ \A c \in Calls : Writing(c) => Id(c) \in minted
    /\ \A c, d \in Calls :
          /\ Writing(c) /\ Writing(d)
          /\ IsDetect(c) /\ IsDetect(d)
          /\ Id(c) = Id(d)
          => c = d

\* What a writer read of the ledger is still true of it, and its stamp is not
\* older than any row's.
ReadIsFresh ==
    \A c \in Calls : Writing(c) =>
        /\ CanFollow(CurrentStage(log[Id(c)]), req[c].stage)
        /\ \A k \in DOMAIN log[Id(c)] : log[Id(c)][k].at <= at[c]
        /\ at[c] <= clock

StampsPast == \A i \in Ids : \A k \in DOMAIN log[i] : log[i][k].at <= clock

IInv ==
    /\ TypeOK
    /\ LockDiscipline
    /\ OwnDetect
    /\ ReadIsFresh
    /\ StampsPast
    /\ LedgerReadable
    /\ NoNewDuplicates
    /\ StampsOrdered
    /\ AckedIsDurable
\* Two calls never write to the same lifecycle at the same time.
LEMMA OneWriter ==
    ASSUME IInv, NEW c \in Calls, NEW d \in Calls,
           Writing(c), Writing(d), Id(c) = Id(d)
    PROVE  c = d
  <1>1. CASE IsDetect(c) /\ IsDetect(d)
    BY <1>1 DEF IInv, OwnDetect
  <1>2. CASE ~ IsDetect(c) /\ ~ IsDetect(d)
    BY <1>2 DEF IInv, LockDiscipline, HoldsLock
  <1>3. CASE ~ (IsDetect(c) <=> IsDetect(d))
    <2>1. /\ CanFollow(CurrentStage(log[Id(c)]), req[c].stage)
          /\ CanFollow(CurrentStage(log[Id(c)]), req[d].stage)
      BY DEF IInv, ReadIsFresh
    <2>2. IsDetect(c) <=> IsDetect(d)
      BY <2>1, CanFollowFacts DEF IsDetect
    <2> QED BY <1>3, <2>2
  <1> QED BY <1>1, <1>2, <1>3

\* The elements of a sequence over S are in S.
LEMMA SeqElement == ASSUME NEW S, NEW s \in Seq(S), NEW k \in DOMAIN s PROVE s[k] \in S
  OBVIOUS

\* Legacy ledgers satisfy the inductive invariant.
LEMMA InitIInv == Init => IInv
  <1> SUFFICES ASSUME Init PROVE IInv
    OBVIOUS
  <1> USE LegacyAssumption
  <1>1. ASSUME NEW i \in Ids
        PROVE  /\ log[i] \in Seq(Row)
               /\ Readable(log[i])
               /\ \A k \in DOMAIN log[i] : log[i][k].at = 0
    <2>1. CASE log[i] = <<>>
      BY <2>1 DEF Readable
    <2>2. CASE log[i] \in LegacyLogs
      <3>1. log[i] \in Seq([stage : Stages, at : {0}]) /\ Readable(log[i])
        BY <2>2 DEF LegacyAssumption
      <3>2. \A k \in DOMAIN log[i] : log[i][k] \in [stage : Stages, at : {0}]
        BY <3>1, SeqElement
      <3>3. [stage : Stages, at : {0}] \subseteq Row
        BY DEF LegacyAssumption, Row
      <3> QED BY <3>1, <3>2, <3>3
    <2> QED BY <2>1, <2>2 DEF Init
  <1>2. CurrentStage(<<>>) = NoStage
    BY DEF CurrentStage
  <1>3. ASSUME NEW i \in Ids PROVE CurrentStage(log[i]) \in Stages \cup {NoStage}
    BY <1>1, CurrentStageFacts
  <1>4. TypeOK
    BY <1>1, <1>3 DEF Init, TypeOK, PCs, NoRequest, LegacyAssumption
  <1>5. LockDiscipline /\ OwnDetect /\ ReadIsFresh /\ AckedIsDurable
    BY DEF Init, LockDiscipline, OwnDetect, ReadIsFresh, AckedIsDurable, Writing
  <1>6. LedgerReadable /\ StampsPast /\ NoNewDuplicates /\ StampsOrdered
    BY <1>1 DEF Init, LedgerReadable, StampsPast, NoNewDuplicates, StampsOrdered, Row
  <1> QED BY <1>4, <1>5, <1>6 DEF IInv
-----------------------------------------------------------------------------
(***************************************************************************)
(* Each action preserves the invariant.                                    *)
(***************************************************************************)

\* A new lifecycle is empty, so "detected" may follow; its id is nobody else's.
LEMMA DetectPreserves ==
    ASSUME IInv, NEW c \in Calls, NEW i \in Ids, Detect(c, i)
    PROVE  IInv'
  <1> USE LegacyAssumption
  <1>0. [id |-> i, stage |-> "detected"] \in Requests
    BY DEF Requests, Stages, Open
  <1>1. TypeOK'
    BY <1>0 DEF IInv, TypeOK, PCs, Detect
  <1>2. LockDiscipline'
    BY DEF IInv, TypeOK, LockDiscipline, Writing, HoldsLock, IsDetect, Id, Requests, Detect
  <1>3. OwnDetect'
    BY DEF IInv, TypeOK, OwnDetect, Writing, IsDetect, Id, Requests, Detect
  <1>4. ReadIsFresh'
    <2>1. log[i] = <<>>
      BY DEF IInv, OwnDetect, Detect
    <2>2. CanFollow(CurrentStage(log[i]), "detected")
      BY <2>1 DEF CanFollow, CurrentStage
    <2>3. /\ pc'[c] = "publishing" /\ req'[c] = [id |-> i, stage |-> "detected"]
          /\ at'[c] = clock /\ log' = log /\ clock' = clock
      BY DEF IInv, TypeOK, Detect
    <2>4. \A d \in Calls \ {c} : pc'[d] = pc[d] /\ req'[d] = req[d] /\ at'[d] = at[d]
      BY DEF IInv, TypeOK, Detect
    <2>5. clock \in Nat
      BY DEF IInv, TypeOK
    <2> QED BY <2>1, <2>2, <2>3, <2>4, <2>5 DEF IInv, ReadIsFresh, Writing, Id
  <1>5. (StampsPast /\ LedgerReadable /\ NoNewDuplicates /\ StampsOrdered)'
    BY DEF IInv, TypeOK, StampsPast, LedgerReadable, NoNewDuplicates, StampsOrdered, Detect
  <1>6. AckedIsDurable'
    BY DEF IInv, TypeOK, AckedIsDurable, Detect
  <1> QED BY <1>1, <1>2, <1>3, <1>4, <1>5, <1>6 DEF IInv

\* Queueing behind the holder of a lock does not change who holds it.
LEMMA RequestPreserves ==
    ASSUME IInv, NEW c \in Calls, NEW i \in Ids, NEW s \in Stages \ {"detected"},
           Request(c, i, s)
    PROVE  IInv'
  <1>1. TypeOK'
    BY DEF IInv, TypeOK, PCs, Requests, Request
  <1>2. LockDiscipline'
    BY DEF IInv, TypeOK, LockDiscipline, Writing, HoldsLock, IsDetect, Id, Requests, Request
  <1>3. OwnDetect'
    BY DEF IInv, TypeOK, OwnDetect, Writing, IsDetect, Id, Requests, Request
  <1>4. ReadIsFresh'
    BY DEF IInv, TypeOK, ReadIsFresh, Writing, Id, Requests, Request
  <1>5. (StampsPast /\ LedgerReadable /\ NoNewDuplicates /\ StampsOrdered)'
    BY DEF IInv, TypeOK, StampsPast, LedgerReadable, NoNewDuplicates, StampsOrdered, Request
  <1>6. AckedIsDurable'
    BY DEF IInv, TypeOK, AckedIsDurable, Request
  <1> QED BY <1>1, <1>2, <1>3, <1>4, <1>5, <1>6 DEF IInv

\* Leaving gives up the lock the call holds and no other.
LEMMA LeaveFacts ==
    ASSUME IInv, NEW c \in Calls, Leave(c),
           Writing(c) \/ (pc[c] = "waiting" /\ HoldsLock(c))
    PROVE  /\ queue' \in [Ids -> Seq(Calls)]
           /\ pc' \in [Calls -> PCs]
           /\ req' \in [Calls -> Requests \cup {NoRequest}]
           /\ \A d \in Calls : pc'[d] # "idle" => req'[d] \in Requests
           /\ at' \in [Calls -> 0..MaxTime]
           /\ LockDiscipline'
           /\ ~ Writing(c)'
           /\ \A d \in Calls : Writing(d)' =>
                 /\ d # c /\ Writing(d)
                 /\ req'[d] = req[d] /\ at'[d] = at[d]
  <1> USE LegacyAssumption
  <1>1. pc[c] # "idle" /\ req[c] \in Requests /\ Id(c) \in Ids
    BY DEF IInv, TypeOK, Writing, Id, Requests
  <1>2. ~ IsDetect(c) => queue[Id(c)] # <<>> /\ Head(queue[Id(c)]) = c
    BY DEF IInv, LockDiscipline, HoldsLock
  <1>3. queue' \in [Ids -> Seq(Calls)]
    <2>1. queue \in [Ids -> Seq(Calls)]
      BY DEF IInv, TypeOK
    <2>2. CASE IsDetect(c)
      BY <2>1, <2>2 DEF Leave
    <2>3. CASE ~ IsDetect(c)
      <3>1. Tail(queue[Id(c)]) \in Seq(Calls)
        BY <1>1, <1>2, <2>1, <2>3
      <3> QED BY <2>1, <2>3, <3>1, <1>1 DEF Leave
    <2> QED BY <2>2, <2>3
  <1>4. /\ pc' \in [Calls -> PCs] /\ at' \in [Calls -> 0..MaxTime]
        /\ req' \in [Calls -> Requests \cup {NoRequest}]
        /\ pc'[c] = "idle"
        /\ \A d \in Calls \ {c} : pc'[d] = pc[d] /\ req'[d] = req[d] /\ at'[d] = at[d]
    BY DEF IInv, TypeOK, Leave, PCs
  <1>5. \A d \in Calls : pc'[d] # "idle" => req'[d] \in Requests
    BY <1>4 DEF IInv, TypeOK
  <1>6. \A d \in Calls : Writing(d)' => /\ d # c /\ Writing(d)
                                        /\ req'[d] = req[d] /\ at'[d] = at[d]
    BY <1>4 DEF Writing
  <1>7. ASSUME NEW d \in Calls
        PROVE  /\ (pc[d] = "waiting")' => ~ IsDetect(d)'
               /\ Writing(d)' /\ ~ IsDetect(d)' => HoldsLock(d)'
    <2>1. CASE d = c
      BY <2>1, <1>4 DEF Writing
    <2>2. CASE d # c
      <3>1. (pc[d] = "waiting")' => ~ IsDetect(d)'
        BY <2>2, <1>4 DEF IInv, LockDiscipline, IsDetect
      <3>2. ASSUME Writing(d)', ~ IsDetect(d)' PROVE HoldsLock(d)'
        <4>1. /\ Writing(d) /\ ~ IsDetect(d) /\ Id(d)' = Id(d)
              /\ HoldsLock(d) /\ Id(d) \in Ids
          BY <2>2, <3>2, <1>4 DEF IInv, TypeOK, LockDiscipline, Writing, IsDetect, Id, Requests
        <4>2. ~ IsDetect(c) => Id(d) # Id(c)
          BY <4>1, <1>2, <2>2 DEF HoldsLock
        <4>3. queue'[Id(d)] = queue[Id(d)]
          BY <4>1, <4>2 DEF IInv, TypeOK, Leave
        <4> QED BY <4>1, <4>3 DEF HoldsLock
      <3> QED BY <3>1, <3>2
    <2> QED BY <2>1, <2>2
  <1>8. LockDiscipline'
    BY <1>7 DEF LockDiscipline
  <1> QED BY <1>3, <1>4, <1>5, <1>6, <1>8 DEF Writing

\* A call that leaves without writing: a duplicate or a refused one.
LEMMA LeavePreserves ==
    ASSUME IInv, NEW c \in Calls, pc[c] = "waiting", HoldsLock(c), Leave(c),
           UNCHANGED <<log, minted, heard, clock>>,
           \/ UNCHANGED acked
           \/ /\ CurrentStage(log[Id(c)]) = req[c].stage
              /\ Acknowledge(c)
    PROVE  IInv'
  <1>1. Id(c) \in Ids /\ req[c].stage \in Stages
    BY DEF IInv, TypeOK, Id, Requests
  <1>2. LockDiscipline'
    BY LeaveFacts
  <1>3. OwnDetect'
    BY LeaveFacts DEF IInv, OwnDetect, Id, IsDetect
  <1>4. ReadIsFresh'
    BY LeaveFacts DEF IInv, ReadIsFresh, Id
  <1>5. (StampsPast /\ LedgerReadable /\ NoNewDuplicates /\ StampsOrdered)'
    BY DEF IInv, StampsPast, LedgerReadable, NoNewDuplicates, StampsOrdered
  <1>6. TypeOK'
    BY <1>1, LeaveFacts DEF IInv, TypeOK, Acknowledge
  <1>7. AckedIsDurable'
    <2>1. CASE UNCHANGED acked
      BY <2>1 DEF IInv, AckedIsDurable
    <2>2. CASE CurrentStage(log[Id(c)]) = req[c].stage /\ Acknowledge(c)
      <3> DEFINE rows == log[Id(c)]
      <3>1. rows \in Seq(Row) /\ Readable(rows) /\ CurrentStage(rows) \in Stages
        BY <1>1, <2>2 DEF IInv, TypeOK, LedgerReadable
      <3>2. NoStage \notin Stages
        BY DEF NoStage, Stages, Open, Terminal
      <3>3. rows # <<>> /\ rows[Len(rows)].stage = req[c].stage
        BY <3>1, <3>2, <2>2, CurrentStageFacts
      <3>4. Len(rows) \in DOMAIN rows
        BY <3>1, <3>3
      <3>5. \E k \in DOMAIN log'[Id(c)] : log'[Id(c)][k].stage = req[c].stage
        BY <3>3, <3>4
      <3> QED BY <2>2, <3>5 DEF IInv, AckedIsDurable, Acknowledge
    <2> QED BY <2>1, <2>2
  <1> QED BY <1>2, <1>3, <1>4, <1>5, <1>6, <1>7 DEF IInv

\* The call that validates is alone inside the lock, and the ledger it read is
\* still the ledger: its stamp is now, and no row is from the future.
LEMMA ValidatePreserves ==
    ASSUME IInv, NEW c \in Calls, Validate(c)
    PROVE  IInv'
  <1> USE LegacyAssumption
  <1>1. /\ pc' = [pc EXCEPT ![c] = "publishing"] /\ at' = [at EXCEPT ![c] = clock]
        /\ pc[c] = "waiting" /\ HoldsLock(c) /\ ~ IsDetect(c)
        /\ UNCHANGED <<log, minted, queue, req, heard, acked, clock>>
    BY DEF IInv, LockDiscipline, Validate
  <1>2. TypeOK'
    BY <1>1 DEF IInv, TypeOK, PCs
  <1>3. \A d \in Calls : Writing(d)' => d = c \/ (Writing(d) /\ at'[d] = at[d])
    BY <1>1 DEF IInv, TypeOK, Writing
  <1>4. LockDiscipline'
    <2>1. \A d \in Calls : (pc[d] = "waiting")' => pc[d] = "waiting"
      BY <1>1 DEF IInv, TypeOK
    <2> QED BY <1>1, <1>3, <2>1 DEF IInv, LockDiscipline, HoldsLock, IsDetect, Id
  <1>5. Id(c) \in Ids /\ log[Id(c)] # <<>>
    <2>1. Id(c) \in Ids
      BY <1>1 DEF IInv, TypeOK, Id, Requests
    <2>2. CurrentStage(log[Id(c)]) # NoStage
      BY <1>1, CanFollowFacts DEF Validate, IsDetect
    <2> QED BY <2>1, <2>2 DEF CurrentStage
  <1>6. OwnDetect'
    BY <1>1, <1>3, <1>5 DEF IInv, OwnDetect, IsDetect, Id
  <1>7. ReadIsFresh'
    <2>1. /\ CanFollow(CurrentStage(log[Id(c)]), req[c].stage)
          /\ \A k \in DOMAIN log[Id(c)] : log[Id(c)][k].at <= clock
          /\ at'[c] = clock /\ clock \in Nat
      BY <1>5, <1>1 DEF IInv, TypeOK, StampsPast, Validate
    <2> QED BY <1>1, <1>3, <2>1 DEF IInv, ReadIsFresh, Id
  <1>8. (StampsPast /\ LedgerReadable /\ NoNewDuplicates /\ StampsOrdered)'
    BY <1>1 DEF IInv, StampsPast, LedgerReadable, NoNewDuplicates, StampsOrdered
  <1>9. AckedIsDurable'
    BY <1>1 DEF IInv, AckedIsDurable
  <1> QED BY <1>2, <1>4, <1>6, <1>7, <1>8, <1>9 DEF IInv

\* Announcing changes no ledger and leaves the writer where it holds the lock.
LEMMA PublishPreserves ==
    ASSUME IInv, NEW c \in Calls, Publish(c)
    PROVE  IInv'
  <1>1. req[c].stage \in Stages
    BY DEF IInv, TypeOK, Requests, Publish
  <1>2. TypeOK'
    BY <1>1 DEF IInv, TypeOK, PCs, Publish
  <1>3. \A d \in Calls : /\ Writing(d)' <=> Writing(d)
                         /\ (pc[d] = "waiting")' <=> pc[d] = "waiting"
    BY DEF IInv, TypeOK, Writing, Publish
  <1>4. LockDiscipline'
    BY <1>3 DEF IInv, LockDiscipline, HoldsLock, IsDetect, Id, Publish
  <1>5. OwnDetect'
    BY <1>3 DEF IInv, OwnDetect, IsDetect, Id, Publish
  <1>6. ReadIsFresh'
    BY <1>3 DEF IInv, ReadIsFresh, Id, Publish
  <1>7. (StampsPast /\ LedgerReadable /\ NoNewDuplicates /\ StampsOrdered)'
    BY DEF IInv, StampsPast, LedgerReadable, NoNewDuplicates, StampsOrdered, Publish
  <1>8. AckedIsDurable'
    BY DEF IInv, AckedIsDurable, Publish
  <1> QED BY <1>2, <1>4, <1>5, <1>6, <1>7, <1>8 DEF IInv

\* What appending the row of a writer does to its ledger.
LEMMA AppendFacts ==
    ASSUME IInv, NEW c \in Calls, Writing(c), AppendRow(c)
    PROVE  /\ log' \in [Ids -> Seq(Row)]
           /\ Id(c) \in Ids
           /\ \A i \in Ids \ {Id(c)} : log'[i] = log[i]
           /\ Len(log'[Id(c)]) = Len(log[Id(c)]) + 1
           /\ \A k \in DOMAIN log[Id(c)] : log'[Id(c)][k] = log[Id(c)][k]
           /\ log'[Id(c)][Len(log[Id(c)]) + 1] = [stage |-> req[c].stage, at |-> at[c]]
           /\ Readable(log'[Id(c)])
           /\ CurrentStage(log'[Id(c)]) = req[c].stage
  <1> DEFINE r == [stage |-> req[c].stage, at |-> at[c]]
             rows == log[Id(c)]
  <1>1. Id(c) \in Ids /\ r \in Row /\ log \in [Ids -> Seq(Row)] /\ rows \in Seq(Row)
    BY DEF IInv, TypeOK, Writing, Id, Requests, Row
  <1>2. log' = [log EXCEPT ![Id(c)] = Append(rows, r)]
    BY DEF AppendRow
  <1>3. Append(rows, r) \in Seq(Row) /\ log'[Id(c)] = Append(rows, r)
    BY <1>1, <1>2
  <1>4. Readable(rows) /\ CanFollow(CurrentStage(rows), r.stage)
    BY <1>1 DEF IInv, LedgerReadable, ReadIsFresh
  <1>5. Readable(Append(rows, r)) /\ CurrentStage(Append(rows, r)) = r.stage
    BY <1>1, <1>4, AppendReadable
  <1>6. /\ Len(Append(rows, r)) = Len(rows) + 1
        /\ \A k \in DOMAIN rows : Append(rows, r)[k] = rows[k]
        /\ Append(rows, r)[Len(rows) + 1] = r
    BY <1>1
  <1>7. log' \in [Ids -> Seq(Row)] /\ \A i \in Ids \ {Id(c)} : log'[i] = log[i]
    BY <1>1, <1>2, <1>3
  <1> QED BY <1>1, <1>3, <1>5, <1>6, <1>7

\* A writer that appends its row and leaves, acknowledged or not.
LEMMA AppendPreserves ==
    ASSUME IInv, NEW c \in Calls, pc[c] = "committing", AppendRow(c), Leave(c),
           Acknowledge(c) \/ UNCHANGED acked,
           UNCHANGED <<minted, heard, clock>>
    PROVE  IInv'
  <1> DEFINE i == Id(c)
             n == Len(log[i])
  <1>0. Writing(c)
    BY DEF Writing
  <1>1. /\ i \in Ids /\ log \in [Ids -> Seq(Row)] /\ log' \in [Ids -> Seq(Row)]
        /\ \A j \in Ids \ {i} : log'[j] = log[j]
        /\ Len(log'[i]) = n + 1
        /\ \A k \in DOMAIN log[i] : log'[i][k] = log[i][k]
        /\ log'[i][n + 1] = [stage |-> req[c].stage, at |-> at[c]]
    BY <1>0, AppendFacts DEF IInv, TypeOK
  <1>2. /\ n \in Nat /\ DOMAIN log[i] = 1..n /\ DOMAIN log'[i] = 1..(n + 1)
        /\ \A k \in 1..n : log'[i][k] = log[i][k]
    <2>1. log[i] \in Seq(Row) /\ log'[i] \in Seq(Row)
      BY <1>1
    <2>2. n \in Nat /\ DOMAIN log[i] = 1..n /\ DOMAIN log'[i] = 1..Len(log'[i])
      BY <2>1
    <2> QED BY <2>2, <1>1
  <1>3. /\ req[c].stage \in Stages /\ at[c] \in Nat /\ at[c] <= clock /\ clock \in Nat
        /\ CanFollow(CurrentStage(log[i]), req[c].stage)
        /\ \A k \in 1..n : log[i][k].at <= at[c]
        /\ i \in minted
    BY <1>0, <1>2, LegacyAssumption
       DEF IInv, TypeOK, Writing, Requests, ReadIsFresh, OwnDetect
  <1>4. LockDiscipline'
    BY <1>0, LeaveFacts
  <1>5. TypeOK'
    <2>1. acked' \in SUBSET (Ids \X Stages)
      <3>1. <<i, req[c].stage>> \in Ids \X Stages
        BY <1>1, <1>3
      <3>2. acked \in SUBSET (Ids \X Stages)
        BY DEF IInv, TypeOK
      <3> QED BY <3>1, <3>2 DEF Acknowledge
    <2>2. /\ queue' \in [Ids -> Seq(Calls)]
          /\ pc' \in [Calls -> PCs]
          /\ req' \in [Calls -> Requests \cup {NoRequest}]
          /\ \A d \in Calls : pc'[d] # "idle" => req'[d] \in Requests
          /\ at' \in [Calls -> 0..MaxTime]
      BY <1>0, LeaveFacts DEF IInv, TypeOK
    <2>3. minted' \in SUBSET Ids /\ heard' \in [Ids -> Stages \cup {NoStage}]
          /\ clock' \in 1..MaxTime
      BY DEF IInv, TypeOK
    <2> QED BY <1>1, <2>1, <2>2, <2>3 DEF TypeOK
  <1>6. OwnDetect'
    <2>1. \A j \in Ids : log'[j] # <<>> => j \in minted
      BY <1>1, <1>3 DEF IInv, OwnDetect
    <2>2. \A d \in Calls : Writing(d)' => Writing(d) /\ Id(d)' = Id(d)
                                         /\ IsDetect(d)' = IsDetect(d)
      BY <1>0, LeaveFacts DEF Id, IsDetect
    <2>3. minted' = minted
      OBVIOUS
    <2> QED BY <2>1, <2>2, <2>3 DEF IInv, OwnDetect
  <1>7. ReadIsFresh'
    <2>1. ASSUME NEW d \in Calls, Writing(d)' PROVE Writing(d) /\ Id(d) # i
      BY <2>1, <1>0, LeaveFacts, OneWriter
    <2>2. ASSUME NEW d \in Calls, Writing(d)'
          PROVE  /\ log'[Id(d)] = log[Id(d)] /\ Id(d) \in Ids
                 /\ req'[d] = req[d] /\ at'[d] = at[d]
      BY <2>1, <2>2, <1>0, <1>1, LeaveFacts DEF IInv, TypeOK, Writing, Id, Requests
    <2> QED BY <2>1, <2>2 DEF IInv, ReadIsFresh, Id
  <1>8. StampsPast'
    <2>1. ASSUME NEW k \in 1..(n + 1) PROVE log'[i][k].at <= clock
      <3>1. CASE k = n + 1
        BY <3>1, <1>1, <1>3
      <3>2. CASE k \in 1..n
        BY <3>2, <1>1, <1>2 DEF IInv, StampsPast
      <3> QED BY <3>1, <3>2, <1>2
    <2> QED BY <2>1, <1>1, <1>2 DEF IInv, StampsPast
  <1>9. LedgerReadable'
    BY <1>0, <1>1, AppendFacts DEF IInv, LedgerReadable
  <1>10. NoNewDuplicates'
    <2>1. n > 0 => log[i][n].stage # req[c].stage
      <3>1. Readable(log[i])
        BY <1>1 DEF IInv, LedgerReadable
      <3>2. n > 0 => CurrentStage(log[i]) = log[i][n].stage
        BY <1>1, <3>1, CurrentStageFacts
      <3> QED BY <3>2, <1>3, CanFollowFacts
    <2>2. ASSUME NEW k \in 1..n, log'[i][k + 1].stage = log'[i][k].stage
          PROVE  log'[i][k + 1].at = 0
      <3>1. CASE k = n
        BY <3>1, <2>1, <2>2, <1>1, <1>2
      <3>2. CASE k \in 1..(n - 1)
        <4>1. k \in 1..n /\ k + 1 \in 1..n
          BY <3>2, <1>2
        <4>2. log'[i][k] = log[i][k] /\ log'[i][k + 1] = log[i][k + 1]
          BY <4>1, <1>2
        <4>3. \A m \in 1..(n - 1) : log[i][m + 1].stage = log[i][m].stage
                                    => log[i][m + 1].at = 0
          BY <1>1 DEF IInv, NoNewDuplicates
        <4>4. log[i][k + 1].stage = log[i][k].stage
          BY <4>2, <2>2
        <4> QED BY <3>2, <4>2, <4>3, <4>4
      <3> QED BY <3>1, <3>2, <1>2
    <2>3. Len(log'[i]) - 1 = n
      BY <1>1, <1>2
    <2>4. ASSUME NEW j \in Ids, NEW k \in 1..(Len(log'[j]) - 1),
                 log'[j][k + 1].stage = log'[j][k].stage
          PROVE  log'[j][k + 1].at = 0
      <3>1. CASE j = i
        BY <3>1, <2>2, <2>3, <2>4
      <3>2. CASE j # i
        <4>1. log'[j] = log[j]
          BY <3>2, <1>1
        <4>2. k \in 1..(Len(log[j]) - 1) /\ log[j][k + 1].stage = log[j][k].stage
          BY <4>1, <2>4
        <4> QED BY <4>1, <4>2 DEF IInv, NoNewDuplicates
      <3> QED BY <3>1, <3>2
    <2> QED BY <2>4 DEF NoNewDuplicates
  <1>11. StampsOrdered'
    <2>1. ASSUME NEW k \in 1..n PROVE log'[i][k].at <= log'[i][k + 1].at
      <3>1. CASE k = n
        <4>1. log'[i][k] = log[i][k] /\ log[i][k].at <= at[c]
          BY <3>1, <1>2, <1>3
        <4>2. log'[i][k + 1].at = at[c]
          BY <3>1, <1>1
        <4> QED BY <4>1, <4>2
      <3>2. CASE k \in 1..(n - 1)
        <4>1. k \in 1..n /\ k + 1 \in 1..n
          BY <3>2, <1>2
        <4>2. log'[i][k] = log[i][k] /\ log'[i][k + 1] = log[i][k + 1]
          BY <4>1, <1>2
        <4> QED BY <3>2, <4>2, <1>1 DEF IInv, StampsOrdered
      <3> QED BY <3>1, <3>2, <1>2
    <2>2. Len(log'[i]) - 1 = n
      BY <1>1, <1>2
    <2>3. ASSUME NEW j \in Ids, NEW k \in 1..(Len(log'[j]) - 1)
          PROVE  log'[j][k].at <= log'[j][k + 1].at
      <3>1. CASE j = i
        BY <3>1, <2>1, <2>2
      <3>2. CASE j # i
        BY <3>2, <1>1 DEF IInv, StampsOrdered
      <3> QED BY <3>1, <3>2
    <2> QED BY <2>3 DEF StampsOrdered
  <1>12. AckedIsDurable'
    <2>1. ASSUME NEW a \in acked PROVE \E k \in DOMAIN log'[a[1]] : log'[a[1]][k].stage = a[2]
      <3>1. a[1] \in Ids
        BY DEF IInv, TypeOK
      <3>2. PICK k \in DOMAIN log[a[1]] : log[a[1]][k].stage = a[2]
        BY DEF IInv, AckedIsDurable
      <3>3. k \in DOMAIN log'[a[1]] /\ log'[a[1]][k] = log[a[1]][k]
        <4>1. CASE a[1] = i
          BY <4>1, <1>2, <3>2
        <4>2. CASE a[1] # i
          BY <4>2, <1>1, <3>1, <3>2
        <4> QED BY <4>1, <4>2
      <3> QED BY <3>2, <3>3
    <2>2. \E k \in DOMAIN log'[i] : log'[i][k].stage = req[c].stage
      BY <1>1, <1>2
    <2> QED BY <2>1, <2>2 DEF AckedIsDurable, Acknowledge
  <1> QED BY <1>4, <1>5, <1>6, <1>7, <1>8, <1>9, <1>10, <1>11, <1>12 DEF IInv

\* A commit that failed and left no row.
LEMMA LostCommitPreserves ==
    ASSUME IInv, NEW c \in Calls, Writing(c), Leave(c),
           UNCHANGED <<log, minted, heard, acked, clock>>
    PROVE  IInv'
  <1>1. TypeOK'
    BY LeaveFacts DEF IInv, TypeOK
  <1>2. LockDiscipline'
    BY LeaveFacts
  <1>3. OwnDetect'
    BY LeaveFacts DEF IInv, OwnDetect, Id, IsDetect
  <1>4. ReadIsFresh'
    BY LeaveFacts DEF IInv, ReadIsFresh, Id
  <1>5. (StampsPast /\ LedgerReadable /\ NoNewDuplicates /\ StampsOrdered)'
    BY DEF IInv, StampsPast, LedgerReadable, NoNewDuplicates, StampsOrdered
  <1>6. AckedIsDurable'
    BY DEF IInv, AckedIsDurable
  <1> QED BY <1>1, <1>2, <1>3, <1>4, <1>5, <1>6 DEF IInv

\* After a crash nobody writes, and the ledger is what it was.
LEMMA CrashPreserves == ASSUME IInv, Crash PROVE IInv'
  <1>1. TypeOK'
    BY LegacyAssumption DEF IInv, TypeOK, PCs, Crash
  <1>2. (LockDiscipline /\ OwnDetect /\ ReadIsFresh)'
    BY DEF IInv, LockDiscipline, OwnDetect, ReadIsFresh, Writing, Crash
  <1>3. (StampsPast /\ LedgerReadable /\ NoNewDuplicates /\ StampsOrdered)'
    BY DEF IInv, StampsPast, LedgerReadable, NoNewDuplicates, StampsOrdered, Crash
  <1>4. AckedIsDurable'
    BY DEF IInv, AckedIsDurable, Crash
  <1> QED BY <1>1, <1>2, <1>3, <1>4 DEF IInv

\* Time moves the clock past every stamp.
LEMMA TickPreserves == ASSUME IInv, Tick PROVE IInv'
  <1>1. TypeOK'
    BY LegacyAssumption DEF IInv, TypeOK, Tick
  <1>2. (LockDiscipline /\ OwnDetect)'
    BY DEF IInv, LockDiscipline, OwnDetect, Writing, HoldsLock, IsDetect, Id, Tick
  <1>3. ReadIsFresh'
    <2>1. \A c \in Calls : at[c] \in Nat /\ clock \in Nat
      BY LegacyAssumption DEF IInv, TypeOK
    <2>2. \A c \in Calls : at[c] <= clock => at[c] <= clock + 1
      BY <2>1
    <2> QED BY <2>2 DEF IInv, ReadIsFresh, Writing, Id, Tick
  <1>4. StampsPast'
    <2>1. ASSUME NEW i \in Ids, NEW k \in DOMAIN log[i] PROVE log[i][k].at <= clock + 1
      <3>1. log[i][k] \in Row /\ log[i][k].at <= clock /\ clock \in Nat
        BY LegacyAssumption, SeqElement DEF IInv, TypeOK, StampsPast
      <3> QED BY <3>1, LegacyAssumption DEF Row
    <2> QED BY <2>1 DEF StampsPast, Tick
  <1>5. (LedgerReadable /\ NoNewDuplicates /\ StampsOrdered)'
    BY DEF IInv, LedgerReadable, NoNewDuplicates, StampsOrdered, Tick
  <1>6. AckedIsDurable'
    BY DEF IInv, AckedIsDurable, Tick
  <1> QED BY <1>1, <1>2, <1>3, <1>4, <1>5, <1>6 DEF IInv

\* No step of a call, crash or tick breaks the inductive invariant.
THEOREM StepIInv == IInv /\ [Next]_vars => IInv'
  <1> SUFFICES ASSUME IInv, [Next]_vars PROVE IInv'
    OBVIOUS
  <1>1. ASSUME NEW c \in Calls, NEW i \in Ids, Detect(c, i) PROVE IInv'
    BY <1>1, DetectPreserves
  <1>2. ASSUME NEW c \in Calls, NEW i \in Ids, NEW s \in Stages \ {"detected"}, Request(c, i, s)
        PROVE  IInv'
    BY <1>2, RequestPreserves
  <1>3. ASSUME NEW c \in Calls, AlreadyThere(c) \/ Refuse(c) \/ ReadFails(c) PROVE IInv'
    BY <1>3, LeavePreserves DEF AlreadyThere, Refuse, ReadFails
  <1>4. ASSUME NEW c \in Calls, Validate(c) PROVE IInv'
    BY <1>4, ValidatePreserves
  <1>5. ASSUME NEW c \in Calls, Publish(c) PROVE IInv'
    BY <1>5, PublishPreserves
  <1>6. ASSUME NEW c \in Calls, Commit(c) PROVE IInv'
    BY <1>6, AppendPreserves DEF Commit
  <1>7. ASSUME NEW c \in Calls, CommitFails(c) PROVE IInv'
    BY <1>7, AppendPreserves, LostCommitPreserves DEF CommitFails, Writing
  <1>8. CASE Crash
    BY <1>8, CrashPreserves
  <1>9. CASE Tick
    BY <1>9, TickPreserves
  <1>10. CASE UNCHANGED vars
    BY <1>10 DEF vars, IInv, TypeOK, LockDiscipline, OwnDetect, ReadIsFresh, StampsPast,
       LedgerReadable, NoNewDuplicates, StampsOrdered, AckedIsDurable,
       Writing, HoldsLock, IsDetect, Id
  <1> QED BY <1>1, <1>2, <1>3, <1>4, <1>5, <1>6, <1>7, <1>8, <1>9, <1>10 DEF Next, Step

\* The lock discipline and the freshness of what a writer read hold throughout.
THEOREM Invariance == Spec => []IInv
  BY InitIInv, StepIInv, PTL DEF Spec

\* Every variable keeps its type.
THEOREM TypeCorrect == Spec => []TypeOK
  <1>1. IInv => TypeOK
    BY DEF IInv
  <1> QED BY <1>1, Invariance, PTL

\* _advance(): for any number of racing, failing and retried calls the ledger stays
\* readable, repeats no stage of its own and is ordered by its stamps.
THEOREM LedgerSafe == Spec => []LedgerSound
  <1>1. IInv => LedgerSound
    BY DEF IInv, LedgerSound
  <1> QED BY <1>1, Invariance, PTL

\* What a caller was told stays in the ledger.
THEOREM AckedSafe == Spec => []AckedIsDurable
  <1>1. IInv => AckedIsDurable
    BY DEF IInv
  <1> QED BY <1>1, Invariance, PTL

-----------------------------------------------------------------------------
(***************************************************************************)
(* Locks and subscribers.                                                  *)
(***************************************************************************)

\* A call suspended on lifecycle i that went through its lock.
Queued(c, i) == pc[c] # "idle" /\ Id(c) = i /\ ~ IsDetect(c)

\* LockAccounted at one lifecycle, member by member.
AccountedAt(i) ==
    /\ \A j, k \in DOMAIN queue[i] : queue[i][j] = queue[i][k] => j = k
    /\ \A c \in Calls : (\E k \in DOMAIN queue[i] : queue[i][k] = c) <=> Queued(c, i)

LEMMA AccountedPointwise == TypeOK => (LockAccounted <=> \A i \in Ids : AccountedAt(i))
  <1> SUFFICES ASSUME TypeOK PROVE LockAccounted <=> \A i \in Ids : AccountedAt(i)
    OBVIOUS
  <1>1. \A i \in Ids : \A k \in DOMAIN queue[i] : queue[i][k] \in Calls
    BY SeqElement DEF TypeOK
  <1> QED BY <1>1 DEF LockAccounted, AccountedAt, Queued

\* Joining the end of the queue, of which the call is not yet a member.
LEMMA RequestAccounted ==
    ASSUME IInv, LockAccounted, NEW c \in Calls, NEW i \in Ids, NEW s \in Stages \ {"detected"},
           Request(c, i, s)
    PROVE  \A j \in Ids : AccountedAt(j)'
  <1>1. \A j \in Ids : AccountedAt(j)
    BY AccountedPointwise DEF IInv
  <1>2. /\ \A d \in Calls \ {c} : pc'[d] = pc[d] /\ req'[d] = req[d]
        /\ pc[c] = "idle" /\ pc'[c] = "waiting" /\ req'[c] = [id |-> i, stage |-> s]
        /\ \A j \in Ids \ {i} : queue'[j] = queue[j]
        /\ queue'[i] = Append(queue[i], c)
        /\ queue[i] \in Seq(Calls)
    BY DEF IInv, TypeOK, Request
  <1>3. \A d \in Calls, j \in Ids :
            Queued(d, j)' <=> (Queued(d, j) /\ d # c) \/ (d = c /\ j = i)
    BY <1>2 DEF Queued, Id, IsDetect
  <1>4. ~ Queued(c, i)
    BY <1>2 DEF Queued
  <1>5. \A k \in DOMAIN queue[i] : queue[i][k] # c
    BY <1>1, <1>4 DEF AccountedAt
  <1>6. AccountedAt(i)'
    <2> DEFINE q == queue[i]
    <2>1. /\ DOMAIN Append(q, c) = 1..(Len(q) + 1) /\ DOMAIN q = 1..Len(q) /\ Len(q) \in Nat
          /\ \A k \in 1..Len(q) : Append(q, c)[k] = q[k]
          /\ Append(q, c)[Len(q) + 1] = c
      BY <1>2
    <2>2. \A j, k \in DOMAIN Append(q, c) : Append(q, c)[j] = Append(q, c)[k] => j = k
      BY <2>1, <1>1, <1>5 DEF AccountedAt
    <2>3. \A d \in Calls : (\E k \in DOMAIN Append(q, c) : Append(q, c)[k] = d)
                             <=> d = c \/ (\E k \in DOMAIN q : q[k] = d)
      BY <2>1
    <2>4. \A d \in Calls : (\E k \in DOMAIN q : q[k] = d) <=> Queued(d, i)
      BY <1>1 DEF AccountedAt
    <2>5. \A d \in Calls : (\E k \in DOMAIN queue'[i] : queue'[i][k] = d) <=> Queued(d, i)'
      BY <2>3, <2>4, <1>2, <1>3, <1>4
    <2> QED BY <2>2, <2>5, <1>2 DEF AccountedAt
  <1>7. ASSUME NEW j \in Ids, j # i PROVE AccountedAt(j)'
    <2>1. ~ Queued(c, j)
      BY <1>2 DEF Queued
    <2> QED BY <1>1, <1>2, <1>3, <1>7, <2>1 DEF AccountedAt
  <1> QED BY <1>6, <1>7

\* Leaving takes the head off the queue, and the call is nowhere else in it.
LEMMA LeaveAccounted ==
    ASSUME IInv, LockAccounted, NEW c \in Calls, Leave(c),
           Writing(c) \/ (pc[c] = "waiting" /\ HoldsLock(c))
    PROVE  \A i \in Ids : AccountedAt(i)'
  <1>1. \A i \in Ids : AccountedAt(i)
    BY AccountedPointwise DEF IInv
  <1>2. /\ \A d \in Calls \ {c} : pc'[d] = pc[d] /\ req'[d] = req[d]
        /\ pc'[c] = "idle"
    BY DEF IInv, TypeOK, Leave
  <1>3. \A d \in Calls, i \in Ids : Queued(d, i)' <=> Queued(d, i) /\ d # c
    BY <1>2 DEF Queued, Id, IsDetect
  <1>4. ASSUME NEW i \in Ids, i # Id(c) \/ IsDetect(c) PROVE AccountedAt(i)'
    <2>1. queue'[i] = queue[i]
      BY <1>4 DEF IInv, TypeOK, Leave
    <2>2. ~ Queued(c, i)
      BY <1>4 DEF Queued
    <2> QED BY <1>1, <1>3, <2>1, <2>2 DEF AccountedAt
  <1>5. ASSUME NEW i \in Ids, i = Id(c), ~ IsDetect(c) PROVE AccountedAt(i)'
    <2> DEFINE q == queue[i]
    <2>1. q # <<>> /\ Head(q) = c /\ q \in Seq(Calls)
      BY <1>5 DEF IInv, TypeOK, LockDiscipline, HoldsLock
    <2>2. queue'[i] = Tail(q)
      BY <1>5 DEF IInv, TypeOK, Leave
    <2>3. /\ Len(q) \in Nat \ {0} /\ DOMAIN q = 1..Len(q) /\ q[1] = c
          /\ DOMAIN Tail(q) = 1..(Len(q) - 1)
          /\ \A k \in 1..(Len(q) - 1) : Tail(q)[k] = q[k + 1]
      BY <2>1
    <2>4. \A j, k \in DOMAIN q : q[j] = q[k] => j = k
      BY <1>1 DEF AccountedAt
    <2>5. \A j, k \in DOMAIN Tail(q) : Tail(q)[j] = Tail(q)[k] => j = k
      <3> SUFFICES ASSUME NEW j \in DOMAIN Tail(q), NEW k \in DOMAIN Tail(q),
                          Tail(q)[j] = Tail(q)[k]
                   PROVE  j = k
        OBVIOUS
      <3>1. /\ j \in Nat /\ k \in Nat /\ j + 1 \in DOMAIN q /\ k + 1 \in DOMAIN q
            /\ q[j + 1] = q[k + 1]
        BY <2>3
      <3>2. j + 1 = k + 1
        BY <2>4, <3>1
      <3> QED BY <3>1, <3>2
    <2>6. ASSUME NEW d \in Calls
          PROVE  (\E k \in DOMAIN Tail(q) : Tail(q)[k] = d) <=> Queued(d, i)'
      <3>1. (\E k \in DOMAIN q : q[k] = d) <=> Queued(d, i)
        BY <1>1 DEF AccountedAt
      <3>2. ASSUME NEW k \in DOMAIN Tail(q), Tail(q)[k] = d PROVE Queued(d, i) /\ d # c
        <4>1. k + 1 \in DOMAIN q /\ q[k + 1] = d /\ k + 1 # 1 /\ 1 \in DOMAIN q
          BY <3>2, <2>3
        <4> QED BY <4>1, <3>1, <2>3, <2>4
      <3>3. ASSUME Queued(d, i), d # c PROVE \E k \in DOMAIN Tail(q) : Tail(q)[k] = d
        <4>1. PICK k \in DOMAIN q : q[k] = d
          BY <3>1, <3>3
        <4>2. k \in 1..Len(q) /\ k # 1
          BY <4>1, <3>3, <2>3
        <4>3. k - 1 \in DOMAIN Tail(q) /\ Tail(q)[k - 1] = q[(k - 1) + 1] /\ (k - 1) + 1 = k
          BY <4>2, <2>3
        <4> QED BY <4>1, <4>3
      <3> QED BY <3>2, <3>3, <1>3
    <2> QED BY <2>2, <2>5, <2>6 DEF AccountedAt
  <1> QED BY <1>4, <1>5

\* __aexit__ of the lock on every path: no call keeps a lock it has left, and none
\* waits where no lock knows of it.
THEOREM LocksSafe == Spec => []LockAccounted
  <1>1. Init => LockAccounted
    BY DEF Init, LockAccounted, Id, IsDetect, NoRequest
  <1>2. IInv /\ LockAccounted /\ [Next]_vars => LockAccounted'
    <2> SUFFICES ASSUME IInv, LockAccounted, [Next]_vars PROVE LockAccounted'
      OBVIOUS
    <2>0. TypeOK'
      BY StepIInv DEF IInv
    <2>1. SUFFICES \A i \in Ids : AccountedAt(i)'
      <3>1. (TypeOK => (LockAccounted <=> \A i \in Ids : AccountedAt(i)))'
        BY AccountedPointwise, PTL
      <3> QED BY <2>0, <2>1, <3>1
    <2>2. \A i \in Ids : AccountedAt(i)
      BY AccountedPointwise DEF IInv
    <2>3. ASSUME NEW c \in Calls, NEW i \in Ids, Detect(c, i)
          PROVE  \A j \in Ids : AccountedAt(j)'
      <3>1. /\ \A d \in Calls \ {c} : pc'[d] = pc[d] /\ req'[d] = req[d]
            /\ pc[c] = "idle" /\ req'[c].stage = "detected" /\ queue' = queue
        BY <2>3 DEF IInv, TypeOK, Detect
      <3>2. \A d \in Calls, j \in Ids : Queued(d, j)' <=> Queued(d, j)
        BY <3>1 DEF Queued, Id, IsDetect
      <3> QED BY <2>2, <3>1, <3>2 DEF AccountedAt
    <2>4. ASSUME NEW c \in Calls, NEW i \in Ids, NEW s \in Stages \ {"detected"},
                 Request(c, i, s)
          PROVE  \A j \in Ids : AccountedAt(j)'
      BY <2>4, RequestAccounted
    <2>5. ASSUME NEW c \in Calls,
                 AlreadyThere(c) \/ Refuse(c) \/ ReadFails(c) \/ Commit(c) \/ CommitFails(c)
          PROVE  \A j \in Ids : AccountedAt(j)'
      BY <2>5, LeaveAccounted
         DEF AlreadyThere, Refuse, ReadFails, Commit, CommitFails, Writing
    <2>6. ASSUME NEW c \in Calls, Validate(c) \/ Publish(c)
          PROVE  \A j \in Ids : AccountedAt(j)'
      <3>1. queue' = queue /\ req' = req
            /\ \A d \in Calls : pc'[d] # "idle" <=> pc[d] # "idle"
        BY <2>6 DEF IInv, TypeOK, Validate, Publish
      <3>2. \A d \in Calls, j \in Ids : Queued(d, j)' <=> Queued(d, j)
        BY <3>1 DEF Queued, Id, IsDetect
      <3> QED BY <2>2, <3>1, <3>2 DEF AccountedAt
    <2>7. CASE Crash
      <3>1. \A i \in Ids : queue'[i] = <<>> /\ \A c \in Calls : pc'[c] = "idle"
        BY <2>7 DEF Crash
      <3> QED BY <3>1 DEF AccountedAt, Queued
    <2>8. CASE Tick \/ UNCHANGED vars
      <3>1. queue' = queue /\ req' = req /\ pc' = pc
        BY <2>8 DEF Tick, vars
      <3> QED BY <2>2, <3>1 DEF AccountedAt, Queued, Id, IsDetect
    <2> QED BY <2>3, <2>4, <2>5, <2>6, <2>7, <2>8 DEF Next, Step
  <1> QED BY <1>1, <1>2, Invariance, PTL DEF Spec

\* What a committing call appends is what it announced, and nobody spoke since.
Announced == \A c \in Calls : pc[c] = "committing" => heard[Id(c)] = req[c].stage

\* _persist() publishes before it commits: for any number of calls, failed commits and
\* crashes, subscribers are where the ledger is or one transition ahead of it.
THEOREM SubscribersSafe == Spec => []SubscribersNotBehind
  <1>1. Init => SubscribersNotBehind /\ Announced
    BY DEF Init, SubscribersNotBehind, Announced
  <1>2. IInv /\ SubscribersNotBehind /\ Announced /\ [Next]_vars
          => SubscribersNotBehind' /\ Announced'
    <2> SUFFICES ASSUME IInv, SubscribersNotBehind, Announced, [Next]_vars
                 PROVE  SubscribersNotBehind' /\ Announced'
      OBVIOUS
    <2>1. ASSUME NEW c \in Calls, NEW i \in Ids, Detect(c, i)
          PROVE  SubscribersNotBehind' /\ Announced'
      BY <2>1 DEF IInv, TypeOK, SubscribersNotBehind, Announced, Detect, Id
    <2>2. ASSUME NEW c \in Calls, NEW i \in Ids, NEW s \in Stages \ {"detected"},
                 Request(c, i, s)
          PROVE  SubscribersNotBehind' /\ Announced'
      BY <2>2 DEF IInv, TypeOK, SubscribersNotBehind, Announced, Request, Id
    <2>3. ASSUME NEW c \in Calls, AlreadyThere(c) \/ Refuse(c) \/ ReadFails(c)
          PROVE  SubscribersNotBehind' /\ Announced'
      BY <2>3 DEF IInv, TypeOK, SubscribersNotBehind, Announced, Id, Leave,
                  AlreadyThere, Refuse, ReadFails
    <2>4. ASSUME NEW c \in Calls, Validate(c)
          PROVE  SubscribersNotBehind' /\ Announced'
      BY <2>4 DEF IInv, TypeOK, SubscribersNotBehind, Announced, Id, Validate
    <2>5. ASSUME NEW c \in Calls, Publish(c)
          PROVE  SubscribersNotBehind' /\ Announced'
      <3>1. /\ Writing(c) /\ Id(c) \in Ids /\ req' = req /\ log' = log
            /\ heard' = [heard EXCEPT ![Id(c)] = req[c].stage]
            /\ CanFollow(CurrentStage(log[Id(c)]), req[c].stage)
        BY <2>5 DEF IInv, TypeOK, Writing, ReadIsFresh, Id, Requests, Publish
      <3>2. heard \in [Ids -> Stages \cup {NoStage}]
        BY DEF IInv, TypeOK
      <3>3. SubscribersNotBehind'
        BY <3>1, <3>2 DEF SubscribersNotBehind
      <3>4. ASSUME NEW d \in Calls, d # c, pc'[d] = "committing"
            PROVE  heard'[Id(d)] = req[d].stage
        <4>1. pc[d] = "committing"
          BY <3>4, <2>5 DEF IInv, TypeOK, Publish
        <4>2. Id(d) # Id(c) /\ Id(d) \in Ids
          BY <4>1, <3>1, <3>4, OneWriter DEF Writing, IInv, TypeOK, Id, Requests
        <4> QED BY <4>1, <4>2, <3>1, <3>2 DEF Announced
      <3>5. heard'[Id(c)] = req[c].stage
        BY <3>1, <3>2
      <3>6. Announced'
        BY <3>1, <3>4, <3>5 DEF Announced, Id
      <3> QED BY <3>3, <3>6
    <2>6. ASSUME NEW c \in Calls, pc[c] = "committing", Leave(c), heard' = heard,
                 AppendRow(c) \/ UNCHANGED log
          PROVE  SubscribersNotBehind' /\ Announced'
      <3>1. Announced'
        BY <2>6 DEF IInv, TypeOK, Announced, Leave, Id
      <3>2. CASE UNCHANGED log
        BY <3>1, <3>2, <2>6 DEF SubscribersNotBehind
      <3>3. CASE AppendRow(c)
        <4>1. /\ \A i \in Ids \ {Id(c)} : log'[i] = log[i]
              /\ CurrentStage(log'[Id(c)]) = req[c].stage
          BY <2>6, <3>3, AppendFacts DEF Writing
        <4>2. heard[Id(c)] = req[c].stage
          BY <2>6 DEF Announced
        <4>3. SubscribersNotBehind'
          BY <2>6, <4>1, <4>2 DEF SubscribersNotBehind
        <4> QED BY <3>1, <4>3
      <3> QED BY <2>6, <3>2, <3>3
    <2>7. ASSUME NEW c \in Calls, Commit(c) \/ CommitFails(c)
          PROVE  SubscribersNotBehind' /\ Announced'
      BY <2>6, <2>7 DEF Commit, CommitFails
    <2>8. CASE Crash
      BY <2>8 DEF SubscribersNotBehind, Announced, Crash
    <2>9. CASE Tick \/ UNCHANGED vars
      BY <2>9 DEF SubscribersNotBehind, Announced, Id, Tick, vars
    <2> QED BY <2>1, <2>2, <2>3, <2>4, <2>5, <2>7, <2>8, <2>9 DEF Next, Step
  <1> QED BY <1>1, <1>2, Invariance, PTL DEF Spec

-----------------------------------------------------------------------------
(***************************************************************************)
(* The ledger implements the abstract stage machine.                       *)
(***************************************************************************)

StageOf == [i \in Ids |-> CurrentStage(log[i])]

\* The abstract module speaks of the same stages.
LEMMA SameVocabulary ==
    /\ Abstract!Stages = Stages
    /\ Abstract!NoStage = NoStage
    /\ \A s, t : CanFollow(s, t) => Abstract!CanFollow(s, t)
  BY DEF Abstract!Stages, Abstract!Open, Abstract!Terminal, Stages, Open, Terminal,
         Abstract!NoStage, NoStage, Abstract!CanFollow, CanFollow,
         Abstract!Advances, Advances, Abstract!NonTerminal, NonTerminal

\* Appending a writer's row is one move of the abstract machine.
LEMMA AppendIsMove ==
    ASSUME IInv, NEW c \in Calls, Writing(c), AppendRow(c)
    PROVE  Abstract!Next
  <1>1. /\ Id(c) \in Ids
        /\ \A i \in Ids \ {Id(c)} : log'[i] = log[i]
        /\ CurrentStage(log'[Id(c)]) = req[c].stage
    BY AppendFacts
  <1>2. /\ CanFollow(CurrentStage(log[Id(c)]), req[c].stage)
        /\ req[c].stage \in Stages
    BY DEF IInv, TypeOK, ReadIsFresh, Writing, Requests
  <1>3. StageOf' = [StageOf EXCEPT ![Id(c)] = req[c].stage]
    BY <1>1 DEF StageOf
  <1>4. CanFollow(StageOf[Id(c)], req[c].stage)
    BY <1>1, <1>2 DEF StageOf
  <1> QED BY <1>1, <1>2, <1>3, <1>4, SameVocabulary DEF StageOf, Abstract!Next, Abstract!Move

\* get() shows a stage machine: every step of the manager is one allowed move of one
\* lifecycle, or none.
THEOREM Refinement == Spec => ImplementsStages
  <1>1. Init => Abstract!Init
    <2> SUFFICES ASSUME Init PROVE Abstract!Init
      OBVIOUS
    <2>1. IInv
      BY InitIInv
    <2>2. ASSUME NEW i \in Ids PROVE CurrentStage(log[i]) \in Stages \cup {NoStage}
      BY <2>1, CurrentStageFacts DEF IInv, TypeOK, LedgerReadable
    <2> QED BY <2>2, SameVocabulary DEF Abstract!Init
  <1>2. IInv /\ [Next]_vars => [Abstract!Next]_StageOf
    <2> SUFFICES ASSUME IInv, [Next]_vars PROVE Abstract!Next \/ UNCHANGED StageOf
      BY DEF StageOf
    <2>1. CASE UNCHANGED log
      BY <2>1 DEF StageOf
    <2>2. ASSUME NEW c \in Calls, Commit(c) \/ CommitFails(c), ~ UNCHANGED log
          PROVE  Abstract!Next
      BY <2>2, AppendIsMove DEF Commit, CommitFails, Writing
    <2> QED BY <2>1, <2>2 DEF Next, Step, Detect, Request, AlreadyThere, Refuse,
             ReadFails, Validate, Publish, Crash, Tick, vars
  <1> QED BY <1>1, <1>2, Invariance, PTL DEF Spec, ImplementsStages, Abstract!Spec, StageOf

====
