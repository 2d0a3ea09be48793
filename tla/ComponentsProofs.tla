-------------------------- MODULE ComponentsProofs --------------------------
(***************************************************************************)
(* Proofs about the components of Components, each by itself and in it.    *)
(***************************************************************************)
EXTENDS Components, FiniteSetTheorems, SequenceTheorems, WellFoundedInduction, TLAPS

-----------------------------------------------------------------------------
(* The natural numbers: least elements, and induction about a set of them. *)

Below == {p \in Nat \X Nat : p[1] < p[2]}

LEMMA LeastNatural ==
    ASSUME NEW T, T \subseteq Nat, T # {}
    PROVE  \E x \in T : \A y \in T : x <= y
  <1>1. IsWellFoundedOn(Below, Nat)
    BY NatLessThanWellFounded DEF OpToRel, Below
  <1>2. PICK x \in T : \A y \in T : ~ (<<y, x>> \in Below)
    BY <1>1, WFMin, Zenon
  <1>3. \A y \in T : ~ (y < x)
    BY <1>2 DEF Below
  <1> QED BY <1>3

LEMMA Induction ==
    ASSUME NEW T, 0 \in T, \A n \in Nat : n \in T => n + 1 \in T
    PROVE  \A n \in Nat : n \in T
  <1> SUFFICES ASSUME Nat \ T # {} PROVE FALSE
    OBVIOUS
  <1>1. PICK n \in Nat \ T : \A m \in Nat \ T : n <= m
    BY LeastNatural
  <1>2. n # 0 /\ n - 1 \in Nat /\ ~ (n <= n - 1) /\ (n - 1) + 1 = n
    BY <1>1
  <1> QED BY <1>1, <1>2

-----------------------------------------------------------------------------
(* The sources of the collectors.                                          *)

Answer == [at : Int, of : SUBSET Feeds, volume : Int]

Entry == [since : Int, answer : Answer]

SourcesTyped ==
    /\ now \in Nat
    /\ memory \in [Sources -> Entry] /\ cached \in [Sources -> Entry]
    /\ volumes \in [Sources -> Int]
    /\ warmed \in [Sources -> BOOLEAN] /\ honoured \in [Sources -> BOOLEAN]
    /\ misses \in [Sources -> Nat]

\* An answer kept since a moment is of that moment, or came from the cache service within its
\* term; its volumes may be older by their own term.
Aged(s, from, answer) ==
    /\ from = answer.at \/ (s \in InCache /\ from - answer.at < Ttl[s])
    /\ answer.volume # Sourcing!Never => from - answer.volume <= VolumeTtl

MemoryAged ==
    \A s \in Sources : memory[s].since # Sourcing!Never =>
        /\ memory[s].since <= now
        /\ Aged(s, memory[s].since, memory[s].answer)
        /\ Sourcing!Usable(s, memory[s].answer.of)

\* The cache service has answers as they were fetched, before the volumes.
CachedAged ==
    \A s \in Sources : cached[s].since # Sourcing!Never =>
        /\ cached[s].answer.at = cached[s].since
        /\ cached[s].answer.volume = Sourcing!Never
        /\ Sourcing!Usable(s, cached[s].answer.of)

\* A miss costs the session its warmth.
MissesCool == \A s \in Sources : misses[s] = 0 \/ (misses[s] = 1 /\ ~warmed[s])

SourcesInv == SourcesTyped /\ MemoryAged /\ CachedAged /\ MissesCool

\* The invariant says what the property does.
LEMMA SourcesInvSound ==
    SourcesInv => Sourcing!AgeBounded /\ Sourcing!CachesUsable /\ Sourcing!SessionRenewed
  <1> SUFFICES ASSUME SourcesInv
               PROVE  Sourcing!AgeBounded /\ Sourcing!CachesUsable /\ Sourcing!SessionRenewed
    OBVIOUS
  <1>1. ASSUME NEW s \in Sources, Sourcing!Fresh(memory[s], Ttl[s])
        PROVE  /\ now - memory[s].answer.at < (IF s \in InCache THEN 2 ELSE 1) * Ttl[s]
               /\ memory[s].answer.volume # Sourcing!Never
                    => now - memory[s].answer.volume < Ttl[s] + VolumeTtl
    <2>1. /\ memory[s] \in Entry /\ memory[s].since \in Int /\ memory[s].answer \in Answer
          /\ memory[s].answer.at \in Int /\ memory[s].answer.volume \in Int
          /\ now \in Nat /\ Ttl[s] \in Nat /\ VolumeTtl \in Nat
      BY SourcesAssumption DEF SourcesInv, SourcesTyped, Entry, Answer
    <2>2. /\ memory[s].since # Sourcing!Never /\ now - memory[s].since < Ttl[s]
          /\ Aged(s, memory[s].since, memory[s].answer)
      BY <1>1 DEF Sourcing!Fresh, SourcesInv, MemoryAged
    <2>3. now - memory[s].answer.at < (IF s \in InCache THEN 2 ELSE 1) * Ttl[s]
      <3>1. CASE s \in InCache
        BY <2>1, <2>2, <3>1 DEF Aged
      <3>2. CASE s \notin InCache
        BY <2>1, <2>2, <3>2 DEF Aged
      <3> QED BY <3>1, <3>2
    <2>4. memory[s].answer.volume # Sourcing!Never
            => now - memory[s].answer.volume < Ttl[s] + VolumeTtl
      BY <2>1, <2>2 DEF Aged
    <2> QED BY <2>3, <2>4
  <1>2. Sourcing!AgeBounded
    BY <1>1 DEF Sourcing!AgeBounded
  <1>3. Sourcing!CachesUsable
    BY DEF Sourcing!CachesUsable, SourcesInv, MemoryAged, CachedAged
  <1>4. Sourcing!SessionRenewed
    BY DEF Sourcing!SessionRenewed, SourcesInv, MissesCool
  <1> QED BY <1>2, <1>3, <1>4

LEMMA InitSources == Sourcing!Init => SourcesInv
  BY DEF Sourcing!Init, Sourcing!Empty, Sourcing!Nothing, Sourcing!Never, SourcesInv, SourcesTyped,
         MemoryAged, CachedAged, MissesCool, Entry, Answer

\* What is served is kept in memory, aged as it was and with volumes within their term.
LEMMA ServeKeeps ==
    ASSUME SourcesInv, NEW s \in Sources, NEW from \in Int, NEW answer \in Answer,
           NEW volumesUp \in BOOLEAN,
           Sourcing!Serve(s, from, answer, volumesUp), now' = now,
           from <= now, Aged(s, from, answer), Sourcing!Usable(s, answer.of)
    PROVE  /\ memory' \in [Sources -> Entry] /\ volumes' \in [Sources -> Int]
           /\ MemoryAged'
  <1> DEFINE at == IF s \in Volumes THEN Sourcing!VolumesAt(s, volumesUp) ELSE Sourcing!Never
             complete == Sourcing!WithVolume(s, answer, at)
  <1>1. /\ memory' = [memory EXCEPT ![s] = [since |-> from, answer |-> complete]]
        /\ volumes' = [volumes EXCEPT ![s] = IF at = Sourcing!Never THEN @ ELSE at]
    BY DEF Sourcing!Serve
  <1>2. /\ now \in Nat /\ VolumeTtl \in Nat /\ Sourcing!Never \in Int
        /\ memory \in [Sources -> Entry] /\ volumes \in [Sources -> Int]
    BY SourcesAssumption DEF SourcesInv, SourcesTyped, Sourcing!Never
  <1>3. at \in Int /\ (at # Sourcing!Never => now - at <= VolumeTtl)
    BY <1>2 DEF Sourcing!VolumesAt
  <1> HIDE DEF at
  <1>4. /\ complete \in Answer /\ complete.of = answer.of /\ complete.at = answer.at
        /\ complete.volume # Sourcing!Never => from - complete.volume <= VolumeTtl
    <2>1. CASE s \in Volumes /\ at # Sourcing!Never
      <3>1. complete = [answer EXCEPT !.volume = at]
        BY <2>1 DEF Sourcing!WithVolume
      <3>2. complete.volume = at
        BY <3>1 DEF Answer
      <3> HIDE DEF complete
      <3>3. from - at <= VolumeTtl
        BY <1>2, <1>3, <2>1
      <3> QED BY <1>3, <3>1, <3>2, <3>3 DEF Answer
    <2>2. CASE ~(s \in Volumes /\ at # Sourcing!Never)
      BY <2>2 DEF Sourcing!WithVolume, Aged
    <2> QED BY <2>1, <2>2
  <1>5. Aged(s, from, complete) /\ Sourcing!Usable(s, complete.of)
    BY <1>4 DEF Aged
  <1> HIDE DEF complete
  <1>6. [since |-> from, answer |-> complete] \in Entry
    BY <1>4 DEF Entry
  <1>7. memory' \in [Sources -> Entry] /\ volumes' \in [Sources -> Int]
    BY <1>1, <1>2, <1>3, <1>6
  <1>8. ASSUME NEW q \in Sources, memory'[q].since # Sourcing!Never
        PROVE  /\ memory'[q].since <= now'
               /\ Aged(q, memory'[q].since, memory'[q].answer)
               /\ Sourcing!Usable(q, memory'[q].answer.of)
    <2>1. CASE q = s
      BY <1>1, <1>2, <1>5, <2>1
    <2>2. CASE q # s
      BY <1>1, <1>2, <1>8, <2>2 DEF SourcesInv, MemoryAged
    <2> QED BY <2>1, <2>2
  <1> QED BY <1>7, <1>8 DEF MemoryAged

\* A call that fails although the exchange is there leaves a session that warms up next.
LEMMA GetJsonCools ==
    ASSUME SourcesInv, NEW s \in Sources, NEW reached \in BOOLEAN, NEW page \in BOOLEAN
    PROVE  LET session == Sourcing!GetJson(s, reached, page)
           IN  /\ {session.ok, session.warmed, session.honoured} \subseteq BOOLEAN
               /\ session.ok = FALSE /\ reached => warmed[s] /\ ~session.warmed
               /\ ~reached => ~session.ok /\ session.warmed = warmed[s]
  <1>1. warmed[s] \in BOOLEAN /\ honoured[s] \in BOOLEAN
    BY DEF SourcesInv, SourcesTyped
  <1> QED BY <1>1 DEF Sourcing!GetJson, Sourcing!Honoured

LEMMA FetchSound ==
    ASSUME SourcesInv, NEW s \in Sources, NEW reached \in BOOLEAN, NEW page \in BOOLEAN,
           NEW feeds \in SUBSET Feeds, NEW volumesUp \in BOOLEAN,
           Sourcing!Fetch(s, reached, page, feeds, volumesUp)
    PROVE  SourcesInv'
  <1> DEFINE session == Sourcing!GetJson(s, reached, page)
             answer == [at |-> now, of |-> feeds, volume |-> Sourcing!Never]
  <1>1. /\ warmed' = [warmed EXCEPT ![s] = session.warmed]
        /\ honoured' = [honoured EXCEPT ![s] = session.honoured]
        /\ misses' = [misses EXCEPT ![s] = IF session.ok THEN 0 ELSE IF reached THEN @ + 1 ELSE @]
        /\ now' = now
    BY DEF Sourcing!Fetch
  <1>2. /\ {session.ok, session.warmed, session.honoured} \subseteq BOOLEAN
        /\ session.ok = FALSE /\ reached => warmed[s] /\ ~session.warmed
        /\ ~reached => ~session.ok /\ session.warmed = warmed[s]
    BY GetJsonCools
  <1>3. /\ now \in Nat
        /\ warmed \in [Sources -> BOOLEAN] /\ honoured \in [Sources -> BOOLEAN]
        /\ misses \in [Sources -> Nat]
        /\ memory \in [Sources -> Entry] /\ cached \in [Sources -> Entry]
        /\ volumes \in [Sources -> Int]
    BY DEF SourcesInv, SourcesTyped
  <1>4. answer \in Answer /\ [since |-> now, answer |-> answer] \in Entry
    BY <1>3 DEF Answer, Entry, Sourcing!Never
  <1>5. /\ memory' \in [Sources -> Entry] /\ volumes' \in [Sources -> Int] /\ MemoryAged'
        /\ cached' \in [Sources -> Entry] /\ CachedAged'
    <2>1. CASE session.ok /\ Sourcing!Usable(s, feeds)
      <3>1. /\ Sourcing!Serve(s, now, answer, volumesUp)
            /\ cached' = IF s \in InCache
                         THEN [cached EXCEPT ![s] = [since |-> now, answer |-> answer]] ELSE cached
        BY <2>1 DEF Sourcing!Fetch
      <3>2. /\ answer.of = feeds /\ answer.at = now /\ answer.volume = Sourcing!Never
            /\ Aged(s, now, answer)
        <4>1. answer.of = feeds /\ answer.at = now /\ answer.volume = Sourcing!Never
          OBVIOUS
        <4> HIDE DEF answer
        <4> QED BY <4>1 DEF Aged
      <3> HIDE DEF answer
      <3>3. /\ memory' \in [Sources -> Entry] /\ volumes' \in [Sources -> Int] /\ MemoryAged'
        <4>1. now \in Int /\ now <= now /\ Sourcing!Usable(s, answer.of) /\ now' = now
          BY <1>1, <1>3, <2>1, <3>2
        <4> QED BY <1>4, <3>1, <3>2, <4>1, ServeKeeps
      <3>4. cached' \in [Sources -> Entry]
        BY <1>3, <1>4, <3>1
      <3>5. CachedAged'
        <4> SUFFICES ASSUME NEW q \in Sources, cached'[q].since # Sourcing!Never
                     PROVE  /\ cached'[q].answer.at = cached'[q].since
                            /\ cached'[q].answer.volume = Sourcing!Never
                            /\ Sourcing!Usable(q, cached'[q].answer.of)
          BY DEF CachedAged
        <4>1. CASE q = s /\ s \in InCache
          BY <1>3, <2>1, <3>1, <3>2, <4>1
        <4>2. CASE ~(q = s /\ s \in InCache)
          BY <1>3, <3>1, <4>2 DEF SourcesInv, CachedAged
        <4> QED BY <4>1, <4>2
      <3> QED BY <3>3, <3>4, <3>5
    <2>2. CASE ~(session.ok /\ Sourcing!Usable(s, feeds))
      <3>1. UNCHANGED <<memory, volumes, cached, now>>
        BY <1>1, <2>2 DEF Sourcing!Fetch
      <3> QED BY <1>3, <3>1 DEF SourcesInv, MemoryAged, CachedAged
    <2> QED BY <2>1, <2>2
  <1> HIDE DEF session, answer
  <1>6. warmed' \in [Sources -> BOOLEAN] /\ honoured' \in [Sources -> BOOLEAN]
        /\ misses' \in [Sources -> Nat]
    BY <1>1, <1>2, <1>3
  <1>7. MissesCool'
    <2> SUFFICES ASSUME NEW q \in Sources
                 PROVE  misses'[q] = 0 \/ (misses'[q] = 1 /\ ~warmed'[q])
      BY DEF MissesCool
    <2>1. misses[q] = 0 \/ (misses[q] = 1 /\ ~warmed[q])
      BY DEF SourcesInv, MissesCool
    <2>2. CASE q = s
      <3>1. warmed'[s] = session.warmed
            /\ misses'[s] = IF session.ok THEN 0 ELSE IF reached THEN misses[s] + 1 ELSE misses[s]
        BY <1>1, <1>3
      <3>2. CASE session.ok
        <4>1. misses'[s] = 0
          BY <1>2, <3>1, <3>2
        <4> QED BY <2>2, <4>1
      <3>3. CASE ~session.ok /\ ~reached
        BY <1>2, <2>1, <2>2, <3>1, <3>3
      <3>4. CASE ~session.ok /\ reached
        <4>1. warmed[s] /\ ~session.warmed
          BY <1>2, <3>4
        <4> QED BY <2>1, <2>2, <3>1, <3>4, <4>1
      <3> QED BY <3>2, <3>3, <3>4
    <2>3. CASE q # s
      BY <1>1, <1>3, <2>1, <2>3
    <2> QED BY <2>2, <2>3
  <1> QED BY <1>1, <1>3, <1>5, <1>6, <1>7 DEF SourcesInv, SourcesTyped

LEMMA ServedSound ==
    ASSUME SourcesInv, NEW s \in Sources, NEW volumesUp \in BOOLEAN,
           Sourcing!ServeFromMemory(s, volumesUp) \/ Sourcing!ServeFromCache(s, volumesUp)
    PROVE  SourcesInv'
  <1>1. UNCHANGED <<now, cached, warmed, honoured, misses>>
    BY DEF Sourcing!ServeFromMemory, Sourcing!ServeFromCache
  <1>2. /\ now \in Nat /\ memory[s] \in Entry /\ cached[s] \in Entry
        /\ memory[s].since \in Int /\ memory[s].answer \in Answer /\ cached[s].answer \in Answer
    BY DEF SourcesInv, SourcesTyped, Entry
  <1>3. /\ memory' \in [Sources -> Entry] /\ volumes' \in [Sources -> Int] /\ MemoryAged'
    <2>1. CASE Sourcing!ServeFromMemory(s, volumesUp)
      <3>1. PICK from \in Int : from = memory[s].since
        BY <1>2
      <3>2. PICK answer \in Answer : answer = memory[s].answer
        BY <1>2
      <3>3. /\ from # Sourcing!Never /\ Sourcing!Serve(s, from, answer, volumesUp)
        BY <2>1, <3>1, <3>2 DEF Sourcing!ServeFromMemory, Sourcing!Fresh
      <3>4. from <= now /\ Aged(s, from, answer) /\ Sourcing!Usable(s, answer.of)
        BY <3>1, <3>2, <3>3 DEF SourcesInv, MemoryAged
      <3> QED BY <1>1, <3>3, <3>4, ServeKeeps
    <2>2. CASE Sourcing!ServeFromCache(s, volumesUp)
      <3>1. PICK from \in Int : from = now
        BY <1>2
      <3>2. PICK answer \in Answer : answer = cached[s].answer
        BY <1>2
      <3>3. /\ s \in InCache /\ cached[s].since # Sourcing!Never /\ now - cached[s].since < Ttl[s]
            /\ Sourcing!Serve(s, from, answer, volumesUp)
        BY <2>2, <3>1, <3>2 DEF Sourcing!ServeFromCache, Sourcing!Fresh
      <3>4. answer.at = cached[s].since /\ answer.volume = Sourcing!Never
            /\ Sourcing!Usable(s, answer.of)
        BY <3>2, <3>3 DEF SourcesInv, CachedAged
      <3>5. from <= now /\ Aged(s, from, answer)
        BY <1>2, <3>1, <3>3, <3>4 DEF Aged
      <3> QED BY <1>1, <3>3, <3>4, <3>5, ServeKeeps
    <2> QED BY <2>1, <2>2
  <1> QED BY <1>1, <1>3 DEF SourcesInv, SourcesTyped, CachedAged, MissesCool

LEMMA SourcesStep == SourcesInv /\ [Sourcing!Next]_(Sourcing!vars) => SourcesInv'
  <1> SUFFICES ASSUME SourcesInv, [Sourcing!Next]_(Sourcing!vars) PROVE SourcesInv'
    OBVIOUS
  <1>1. ASSUME NEW s \in Sources, NEW volumesUp \in BOOLEAN,
               \/ Sourcing!ServeFromMemory(s, volumesUp)
               \/ Sourcing!ServeFromCache(s, volumesUp)
        PROVE  SourcesInv'
    BY <1>1, ServedSound
  <1>2. ASSUME NEW s \in Sources, NEW volumesUp \in BOOLEAN,
               Sourcing!Fetch(s, FALSE, FALSE, {}, volumesUp)
        PROVE  SourcesInv'
    <2>1. {} \in SUBSET Feeds
      OBVIOUS
    <2> QED BY <1>2, <2>1, FetchSound
  <1>3. ASSUME NEW s \in Sources, NEW volumesUp \in BOOLEAN, NEW page \in BOOLEAN,
               NEW feeds \in SUBSET Feeds, Sourcing!Fetch(s, TRUE, page, feeds, volumesUp)
        PROVE  SourcesInv'
    BY <1>3, FetchSound
  <1>4. ASSUME NEW s \in Sources, Sourcing!Forget(s) PROVE SourcesInv'
    BY <1>4 DEF Sourcing!Forget, SourcesInv, SourcesTyped, MemoryAged, CachedAged, MissesCool
  <1>5. CASE Sourcing!Restart
    BY <1>5 DEF Sourcing!Restart, Sourcing!Empty, Sourcing!Nothing, Sourcing!Never, SourcesInv, SourcesTyped,
                MemoryAged, CachedAged, MissesCool, Entry, Answer
  <1>6. CASE Sourcing!Tick
    <2>1. now' = now + 1 /\ UNCHANGED <<memory, cached, volumes, warmed, honoured, misses>>
      BY <1>6 DEF Sourcing!Tick
    <2>2. SourcesTyped'
      BY <2>1 DEF SourcesInv, SourcesTyped
    <2>3. MemoryAged'
      <3>1. \A s \in Sources : memory[s].since \in Int
        BY DEF SourcesInv, SourcesTyped, Entry
      <3> QED BY <2>1, <3>1 DEF SourcesInv, SourcesTyped, MemoryAged
    <2> QED BY <2>1, <2>2, <2>3 DEF SourcesInv, CachedAged, MissesCool
  <1>7. CASE UNCHANGED Sourcing!vars
    BY <1>7 DEF Sourcing!vars, SourcesInv, SourcesTyped, MemoryAged, CachedAged, MissesCool
  <1> QED BY <1>1, <1>2, <1>3, <1>4, <1>5, <1>6, <1>7 DEF Sourcing!Next

-----------------------------------------------------------------------------
(* The schedule of events.                                                 *)

\* The recurrence a list made at that moment holds.
RecurrenceAt(moment) ==
    LET coming == {d \in Recurrences : d >= moment}
    IN  IF coming = {} THEN {} ELSE {Scheduling!Min(coming)}

\* Of the recurrences to come the list holds the next.
LEMMA RecurrenceIsNext ==
    ASSUME NEW moment \in Nat, NEW date \in Recurrences, date >= moment
    PROVE  \E d \in RecurrenceAt(moment) : d \in Nat /\ moment <= d /\ d <= date
  <1> DEFINE coming == {d \in Recurrences : d >= moment}
  <1>1. coming \subseteq Nat /\ date \in coming
    BY ScheduleAssumption
  <1>2. \E x \in coming : \A y \in coming : x <= y
    BY <1>1, LeastNatural
  <1>3. Scheduling!Min(coming) \in coming /\ \A y \in coming : Scheduling!Min(coming) <= y
    BY <1>2 DEF Scheduling!Min
  <1>4. RecurrenceAt(moment) = {Scheduling!Min(coming)}
    BY <1>1 DEF RecurrenceAt
  <1>5. moment <= Scheduling!Min(coming)
    BY <1>1, <1>3
  <1> QED BY <1>1, <1>3, <1>4, <1>5

\* A list made after the last edit is of the file as it is.
ListTrue(list) ==
    /\ list.at \in Nat /\ list.at <= hour
    /\ ~editing /\ list.at > edited => list.events = entries \cup RecurrenceAt(list.at)

ScheduleInv ==
    /\ hour \in Nat /\ edited \in Nat /\ edited <= hour
    /\ editing \in BOOLEAN
    /\ \A list \in cache : ListTrue(list)
    /\ Scheduling!WindowsKept

LEMMA InitSchedule == Scheduling!Init => ScheduleInv
  <1> SUFFICES ASSUME Scheduling!Init PROVE ScheduleInv
    OBVIOUS
  <1>1. /\ hour = 0 /\ edited = 0 /\ editing = FALSE /\ cache = {} /\ run = {}
    BY DEF Scheduling!Init
  <1>2. Scheduling!WindowsKept
    BY <1>1 DEF Scheduling!WindowsKept
  <1>3. hour \in Nat /\ edited \in Nat /\ edited <= hour
    BY <1>1
  <1>4. editing \in BOOLEAN /\ \A list \in cache : ListTrue(list)
    BY <1>1
  <1> QED BY <1>2, <1>3, <1>4 DEF ScheduleInv

\* What a run recommends, it recommends on a list that is young or true.
LEMMA CollectKeeps ==
    ASSUME ScheduleInv, NEW parses \in BOOLEAN, Scheduling!Collect(parses)
    PROVE  ScheduleInv'
  <1>1. /\ parses \/ editing
        /\ cache' = IF Scheduling!Fresh THEN cache
                    ELSE {[at |-> hour, events |-> Scheduling!Scheduled(parses)]}
        /\ run' = {[at |-> hour, entries |-> entries,
                    freezes |-> \E list \in cache' : \E date \in list.events : Scheduling!Active(date),
                    steady |-> ~editing /\ hour >= edited + CacheTtl]}
        /\ UNCHANGED <<hour, entries, editing, edited>>
    BY DEF Scheduling!Collect
  <1>2. hour \in Nat /\ edited \in Nat /\ edited <= hour /\ editing \in BOOLEAN
    BY DEF ScheduleInv
  <1>3. ~editing => Scheduling!Scheduled(parses) = entries \cup RecurrenceAt(hour)
    BY <1>1 DEF Scheduling!Scheduled, Scheduling!NextRecurrence, RecurrenceAt
  <1>4. ASSUME NEW list \in cache' PROVE ListTrue(list)
    <2>1. CASE Scheduling!Fresh
      BY <1>1, <1>4, <2>1 DEF ScheduleInv
    <2>2. CASE ~Scheduling!Fresh
      <3>1. list = [at |-> hour, events |-> Scheduling!Scheduled(parses)]
        BY <1>1, <1>4, <2>2
      <3>2. list.at = hour /\ list.events = Scheduling!Scheduled(parses)
        BY <3>1
      <3> QED BY <1>2, <1>3, <3>2 DEF ListTrue
    <2> QED BY <2>1, <2>2
  <1>5. \A list \in cache' : ListTrue(list)'
    BY <1>1, <1>4 DEF ListTrue
  <1>6. Scheduling!WindowsKept'
    <2> SUFFICES ASSUME NEW r \in run', r.steady,
                        \/ \E date \in r.entries : Scheduling!Around(date, After, r)
                        \/ \E date \in Recurrences : Scheduling!Around(date, 0, r)
                 PROVE  r.freezes
      BY DEF Scheduling!WindowsKept
    <2>1. /\ r.at = hour /\ r.entries = entries
          /\ ~editing /\ hour >= edited + CacheTtl
          /\ r.freezes = \E list \in cache' : \E date \in list.events : Scheduling!Active(date)
      <3> DEFINE freezes == \E list \in cache' : \E date \in list.events : Scheduling!Active(date)
                 steady == ~editing /\ hour >= edited + CacheTtl
      <3>1. r = [at |-> hour, entries |-> entries, freezes |-> freezes, steady |-> steady]
        BY <1>1
      <3> HIDE DEF freezes, steady
      <3>2. r.at = hour /\ r.entries = entries /\ r.freezes = freezes /\ r.steady = steady
        BY <3>1
      <3> QED BY <3>2 DEF freezes, steady
    <2>2. PICK list \in cache' : hour - list.at < CacheTtl \/ list.at = hour
      <3>1. CASE Scheduling!Fresh
        BY <1>1, <3>1 DEF Scheduling!Fresh
      <3>2. CASE ~Scheduling!Fresh
        <4>1. [at |-> hour, events |-> Scheduling!Scheduled(parses)] \in cache'
          BY <1>1, <3>2
        <4> QED BY <4>1
      <3> QED BY <3>1, <3>2
    <2>3. /\ list.at \in Nat /\ list.at <= hour
          /\ list.at > edited => list.events = entries \cup RecurrenceAt(list.at)
      BY <1>4, <2>1 DEF ListTrue
    <2>4. list.events = entries \cup RecurrenceAt(list.at)
      <3>1. CASE Scheduling!Fresh
        <4>1. PICK fresh \in cache : hour - fresh.at < CacheTtl
          BY <3>1 DEF Scheduling!Fresh
        <4>2. fresh.at \in Nat /\ fresh.at <= hour
          BY <4>1 DEF ScheduleInv, ListTrue
        <4>3. CacheTtl \in Nat /\ CacheTtl > 0
          BY <1>2, <4>1, <4>2, ScheduleAssumption
        <4>4. list.at > edited
          BY <1>2, <2>1, <2>2, <2>3, <4>3
        <4> QED BY <2>3, <4>4
      <3>2. CASE ~Scheduling!Fresh
        <4>1. list.at = hour /\ list.events = Scheduling!Scheduled(parses)
          BY <1>1, <3>2
        <4> QED BY <1>3, <2>1, <4>1
      <3> QED BY <3>1, <3>2
    <2>5. \E date \in list.events : Scheduling!Active(date)
      <3>1. CASE \E date \in r.entries : Scheduling!Around(date, After, r)
        BY <2>1, <2>4, <3>1 DEF Scheduling!Around, Scheduling!Active
      <3>2. CASE \E date \in Recurrences : Scheduling!Around(date, 0, r)
        <4>1. PICK date \in Recurrences : date <= hour + Before /\ hour <= date + 0
          BY <2>1, <3>2 DEF Scheduling!Around
        <4>2. date \in Nat /\ date >= list.at
          BY <1>2, <2>3, <4>1, ScheduleAssumption
        <4>3. PICK d \in RecurrenceAt(list.at) : d \in Nat /\ list.at <= d /\ d <= date
          BY <2>3, <4>2, RecurrenceIsNext
        <4>4. d <= hour + Before /\ hour <= d + After
          BY <1>2, <2>2, <2>3, <4>1, <4>2, <4>3, ScheduleAssumption
        <4> QED BY <2>4, <4>3, <4>4 DEF Scheduling!Active
      <3> QED BY <3>1, <3>2
    <2> QED BY <2>1, <2>5
  <1> QED BY <1>1, <1>2, <1>5, <1>6 DEF ScheduleInv

LEMMA ScheduleStep == ScheduleInv /\ [Scheduling!Next]_(Scheduling!vars) => ScheduleInv'
  <1> SUFFICES ASSUME ScheduleInv, [Scheduling!Next]_(Scheduling!vars) PROVE ScheduleInv'
    OBVIOUS
  <1>1. ASSUME NEW parses \in BOOLEAN, Scheduling!Collect(parses) PROVE ScheduleInv'
    BY <1>1, CollectKeeps
  <1>2. CASE Scheduling!BeginEdit
    BY <1>2 DEF Scheduling!BeginEdit, ScheduleInv, ListTrue, Scheduling!WindowsKept
  <1>3. CASE Scheduling!EndEdit
    <2>1. editing' = FALSE /\ edited' = hour /\ UNCHANGED <<hour, cache, run>>
      BY <1>3 DEF Scheduling!EndEdit
    <2>2. ASSUME NEW list \in cache' PROVE ListTrue(list)'
      <3>1. list.at \in Nat /\ list.at <= hour
        BY <2>1, <2>2 DEF ScheduleInv, ListTrue
      <3> QED BY <2>1, <3>1 DEF ListTrue, ScheduleInv
    <2>3. Scheduling!WindowsKept'
      BY <2>1 DEF ScheduleInv, Scheduling!WindowsKept
    <2>4. hour' \in Nat /\ edited' \in Nat /\ edited' <= hour'
      BY <2>1 DEF ScheduleInv
    <2>5. editing' \in BOOLEAN /\ \A list \in cache' : ListTrue(list)'
      BY <2>1, <2>2
    <2> QED BY <2>3, <2>4, <2>5 DEF ScheduleInv
  <1>4. CASE Scheduling!Restart
    BY <1>4 DEF Scheduling!Restart, ScheduleInv, ListTrue, Scheduling!WindowsKept
  <1>5. CASE Scheduling!Tick
    BY <1>5 DEF Scheduling!Tick, ScheduleInv, ListTrue, Scheduling!WindowsKept
  <1>6. CASE UNCHANGED Scheduling!vars
    BY <1>6 DEF Scheduling!vars, ScheduleInv, ListTrue, Scheduling!WindowsKept
  <1> QED BY <1>1, <1>2, <1>3, <1>4, <1>5, <1>6 DEF Scheduling!Next

-----------------------------------------------------------------------------
(* Sources and schedule in one.                                            *)

LEMMA SourcesProject == Spec => Sourcing!Spec
  <1>1. Init => Sourcing!Init
    BY DEF Init
  <1>2. [Next]_vars => [Sourcing!Next]_(Sourcing!vars)
    BY DEF Next, vars, sources, Sourcing!vars,
           DeliverSignals, FollowTheNews, DrawTheLine, AskTheSources, KeepTheSchedule,
           ReplayALedger, LabelATrade, ReadAChart, DecideOnACandidate, CallADependency, CallTheBroker
  <1> QED BY <1>1, <1>2, PTL DEF Spec, Sourcing!Spec

LEMMA ScheduleProjects == Spec => Scheduling!Spec
  <1>1. Init => Scheduling!Init
    BY DEF Init
  <1>2. [Next]_vars => [Scheduling!Next]_(Scheduling!vars)
    BY DEF Next, vars, schedule, Scheduling!vars,
           DeliverSignals, FollowTheNews, DrawTheLine, AskTheSources, KeepTheSchedule,
           ReplayALedger, LabelATrade, ReadAChart, DecideOnACandidate, CallADependency, CallTheBroker
  <1> QED BY <1>1, <1>2, PTL DEF Spec, Scheduling!Spec

(* SourcesSound: whatever feeds fail, caches keep, sessions end and edits  *)
(* are read halfway, sources serve young and whole answers, and no run of  *)
(* the calendar recommends trading inside the windows of its schedule.     *)
THEOREM SourcesSafe == Spec => []SourcesSound
  <1>1. ScheduleInv => Scheduling!WindowsKept
    BY DEF ScheduleInv
  <1>2. Sourcing!Spec => []SourcesInv
    BY InitSources, SourcesStep, PTL DEF Sourcing!Spec
  <1>3. Scheduling!Spec => []ScheduleInv
    BY InitSchedule, ScheduleStep, PTL DEF Scheduling!Spec
  <1> QED BY <1>1, <1>2, <1>3, SourcesInvSound, SourcesProject, ScheduleProjects, PTL DEF SourcesSound

-----------------------------------------------------------------------------
(* The replay of a ledger.                                                 *)

LedgerRow == [stage : Replay!Stages, at : Nat, reason : {Replay!None, "stale"}]

\* ExpiryExplained and Readable of any ledger.
Explained(rs) ==
    \A k \in DOMAIN rs :
        (rs[k].stage = "expired" /\ (k = 1 \/ rs[k - 1].stage # "expired"))
            => rs[k].reason # Replay!None

Accepted(rs) == Explained(rs) /\ Replay!Readable(rs)

LastStage(rs) == IF rs = <<>> THEN Replay!NoStage ELSE rs[Len(rs)].stage

\* What a row adds to a ledger that is accepted.
Follows(s, row) ==
    \/ row.stage = s
    \/ Replay!CanFollow(s, row.stage) /\ (row.stage = "expired" => row.reason # Replay!None)

LEMMA AcceptedGrows ==
    ASSUME NEW rs \in Seq(LedgerRow), NEW row \in LedgerRow
    PROVE  Accepted(Append(rs, row)) <=> Accepted(rs) /\ Follows(LastStage(rs), row)
  <1> DEFINE longer == Append(rs, row)
             n == Len(rs)
  <1>1. /\ n \in Nat /\ DOMAIN rs = 1..n /\ DOMAIN longer = 1..(n + 1) /\ Len(longer) = n + 1
        /\ longer # <<>> /\ longer[n + 1] = row
        /\ \A k \in 1..n : longer[k] = rs[k]
        /\ rs = <<>> <=> n = 0
    OBVIOUS
  <1>2. row.stage \in Replay!Stages /\ Replay!NoStage \notin Replay!Stages
    BY DEF LedgerRow, Replay!Stages, Replay!Open, Replay!Terminal, Replay!NoStage
  <1> HIDE DEF longer, n
  <1>3. CASE n = 0
    <2>1. Accepted(rs) /\ LastStage(rs) = Replay!NoStage
      BY <1>1, <1>3 DEF Accepted, Explained, Replay!Readable, LastStage
    <2>2. Follows(Replay!NoStage, row) <=> row.stage = "detected"
      BY <1>2 DEF Follows, Replay!CanFollow, Replay!Advances, Replay!NonTerminal, Replay!Open,
                  Replay!NoStage
    <2>3. Accepted(longer) <=> row.stage = "detected"
      <3>1. Replay!Readable(longer) <=> row.stage = "detected"
        BY <1>1, <1>3 DEF Replay!Readable
      <3>2. row.stage = "detected" => Explained(longer)
        BY <1>1, <1>3 DEF Explained
      <3> QED BY <3>1, <3>2 DEF Accepted
    <2> QED BY <2>1, <2>2, <2>3 DEF longer
  <1>4. CASE n # 0
    <2> DEFINE last == rs[n].stage
    <2>1. n \in 1..n /\ longer[n] = rs[n] /\ LastStage(rs) = last /\ longer[1] = rs[1]
      BY <1>1, <1>4 DEF LastStage, n
    <2> HIDE DEF last
    <2>2. Replay!Readable(longer) <=>
            Replay!Readable(rs) /\ (row.stage = last \/ Replay!CanFollow(last, row.stage))
      <3>1. Replay!Readable(longer) <=>
              /\ rs[1].stage = "detected"
              /\ \A k \in 1..n : longer[k + 1].stage = longer[k].stage
                                   \/ Replay!CanFollow(longer[k].stage, longer[k + 1].stage)
        <4>1. Len(longer) - 1 = n
          BY <1>1
        <4> QED BY <1>1, <2>1, <4>1 DEF Replay!Readable
      <3>2. Replay!Readable(rs) <=>
              /\ rs[1].stage = "detected"
              /\ \A k \in 1..(n - 1) : rs[k + 1].stage = rs[k].stage
                                         \/ Replay!CanFollow(rs[k].stage, rs[k + 1].stage)
        BY <1>1, <1>4 DEF Replay!Readable, n
      <3>3. ASSUME NEW k \in 1..(n - 1) PROVE longer[k + 1] = rs[k + 1] /\ longer[k] = rs[k] /\ k \in 1..n
        BY <1>1, <1>4
      <3>4. ASSUME NEW k \in 1..n PROVE k = n \/ k \in 1..(n - 1)
        BY <1>1
      <3> QED BY <1>1, <2>1, <3>1, <3>2, <3>3, <3>4 DEF last
    <2>3. Explained(longer) <=>
            Explained(rs) /\ (row.stage = "expired" /\ last # "expired" => row.reason # Replay!None)
      <3>1. ASSUME NEW k \in 1..n PROVE longer[k] = rs[k] /\ (k # 1 => longer[k - 1] = rs[k - 1])
        BY <1>1
      <3>2. n + 1 # 1 /\ (n + 1) - 1 = n
        BY <1>1, <1>4
      <3>3. ASSUME NEW k \in 1..(n + 1) PROVE k = n + 1 \/ k \in 1..n
        BY <1>1
      <3>4. n + 1 \in 1..(n + 1) /\ \A k \in 1..n : k \in 1..(n + 1)
        BY <1>1
      <3>5. Explained(longer) => Explained(rs)
        BY <1>1, <3>1, <3>4 DEF Explained
      <3>6. Explained(longer) => (row.stage = "expired" /\ last # "expired" => row.reason # Replay!None)
        BY <1>1, <2>1, <3>2, <3>4 DEF Explained, last
      <3>7. ASSUME Explained(rs), row.stage = "expired" /\ last # "expired" => row.reason # Replay!None
            PROVE  Explained(longer)
        BY <1>1, <2>1, <3>1, <3>2, <3>3, <3>7 DEF Explained, last
      <3> QED BY <3>5, <3>6, <3>7
    <2>4. Replay!CanFollow(last, row.stage) => row.stage # last /\ (row.stage = "expired" => last # "expired")
      BY DEF Replay!CanFollow, Replay!Open, Replay!Terminal, Replay!NoStage, Replay!Advances,
             Replay!NonTerminal
    <2> QED BY <2>1, <2>2, <2>3, <2>4 DEF Accepted, Follows, longer
  <1> QED BY <1>3, <1>4

LEMMA StageIndices == \A s, t \in Replay!Open :
    Replay!StageIndex(t) = Replay!StageIndex(s) + 1 <=> Replay!Advances(s, t)
  <1>1. \A k \in 1..5 : \A j \in 1..5 : Replay!NonTerminal[k] = Replay!NonTerminal[j] => k = j
    BY DEF Replay!NonTerminal
  <1>2. \A s \in Replay!Open : \E k \in 1..5 : Replay!NonTerminal[k] = s
    BY DEF Replay!NonTerminal, Replay!Open
  <1>3. \A s \in Replay!Open : /\ Replay!StageIndex(s) \in 1..5
                              /\ Replay!NonTerminal[Replay!StageIndex(s)] = s
    BY <1>2 DEF Replay!StageIndex
  <1> SUFFICES ASSUME NEW s \in Replay!Open, NEW t \in Replay!Open
               PROVE  Replay!StageIndex(t) = Replay!StageIndex(s) + 1 <=> Replay!Advances(s, t)
    OBVIOUS
  <1> DEFINE i == Replay!StageIndex(s)
             j == Replay!StageIndex(t)
  <1>4. i \in 1..5 /\ j \in 1..5 /\ Replay!NonTerminal[i] = s /\ Replay!NonTerminal[j] = t
    BY <1>3
  <1> HIDE DEF i, j
  <1>5. j = i + 1 => Replay!Advances(s, t)
    BY <1>4 DEF Replay!Advances
  <1>6. Replay!Advances(s, t) => j = i + 1
    <2> SUFFICES ASSUME NEW k \in 1..4, s = Replay!NonTerminal[k], t = Replay!NonTerminal[k + 1]
                 PROVE  j = i + 1
      BY DEF Replay!Advances
    <2>1. k \in 1..5 /\ k + 1 \in 1..5
      OBVIOUS
    <2> QED BY <1>1, <1>4, <2>1
  <1> QED BY <1>5, <1>6 DEF i, j

\* apply_transition raises on a row exactly if it may not follow.
LEMMA RaisesExactly ==
    ASSUME NEW state, state.stage \in Replay!Stages \cup {Replay!NoStage},
           NEW row \in LedgerRow, row.stage # state.stage
    PROVE  Replay!Raises(state, row) <=> ~ Follows(state.stage, row)
  <1> DEFINE s == state.stage
             t == row.stage
  <1>1. t \in Replay!Stages /\ s \in Replay!Stages \cup {Replay!NoStage} /\ s # t
    BY DEF LedgerRow
  <1>2. s \in Replay!Open /\ t \in Replay!Open
          => (Replay!StageIndex(t) # Replay!StageIndex(s) + 1 <=> ~ Replay!Advances(s, t))
    BY StageIndices
  <1>3. Replay!Advances(s, t) => s \in Replay!Open /\ t \in Replay!Open
    BY DEF Replay!Advances, Replay!NonTerminal, Replay!Open
  <1>4. /\ Replay!Open \cap Replay!Terminal = {} /\ Replay!NoStage \notin Replay!Stages
        /\ Replay!Stages = Replay!Open \cup Replay!Terminal
        /\ "detected" \in Replay!Open
    BY DEF Replay!Open, Replay!Terminal, Replay!NoStage, Replay!Stages
  <1>5. Replay!Raises(state, row) <=>
          \/ s = Replay!NoStage /\ t # "detected"
          \/ s \in Replay!Terminal
          \/ s \in Replay!Open /\ t \in Replay!Open /\ ~ Replay!Advances(s, t)
          \/ t = "expired" /\ row.reason = Replay!None
    BY <1>2 DEF Replay!Raises
  <1>6. Follows(s, row) <=>
          /\ \/ s = Replay!NoStage /\ t = "detected"
             \/ s \in Replay!Open /\ t \in Replay!Terminal
             \/ Replay!Advances(s, t)
          /\ (t = "expired" => row.reason # Replay!None)
    BY <1>1 DEF Follows, Replay!CanFollow
  <1>7. t = "expired" => t \in Replay!Terminal
    BY DEF Replay!Terminal
  <1> HIDE DEF s, t
  <1>8. Replay!Raises(state, row) <=> ~ Follows(s, row)
    BY <1>1, <1>3, <1>4, <1>5, <1>6, <1>7
  <1> QED BY <1>8 DEF s

\* A state some rows replay to, the last of them stamped n at most.
Measured(state, n) ==
    /\ state.stage \in Replay!Stages
    /\ {"detected", state.stage} \subseteq DOMAIN state.stamps
    /\ \A t \in DOMAIN state.stamps :
         /\ state.stamps[t] \in 1..n
         /\ state.stamps["detected"] <= state.stamps[t]
         /\ state.stamps[t] <= state.stamps[state.stage]
    /\ (state.reason # Replay!None) <=> (state.stage = "expired")
    /\ (state.outcome # Replay!None) <=> (state.stage \in {"succeeded", "failed"})

ReplayInv ==
    /\ rows \in Seq(LedgerRow)
    /\ healed = replayed
    /\ IF ~ Accepted(rows) THEN replayed = Replay!Raised
       ELSE IF rows = <<>> THEN replayed = Replay!NoState
       ELSE replayed.stage = LastStage(rows) /\ Measured(replayed, Len(rows))

\* What a row that may follow leaves is measured again.
LEMMA AppliedMeasured ==
    ASSUME NEW state, NEW n \in Nat, NEW row \in LedgerRow, row.at = n + 1,
           state = Replay!NoState \/ Measured(state, n),
           row.stage # state.stage, Follows(state.stage, row)
    PROVE  LET applied == Replay!ApplyTransition(state, row)
           IN  applied.stage = row.stage /\ Measured(applied, n + 1)
  <1> DEFINE s == state.stage
             t == row.stage
             stamps == Replay!Stamped(state.stamps, t, n + 1)
             applied == Replay!ApplyTransition(state, row)
  <1>1. t \in Replay!Stages /\ s \in Replay!Stages \cup {Replay!NoStage} /\ s # t
    BY DEF LedgerRow, Measured, Replay!NoState, Replay!State
  <1>2. ~ Replay!Raises(state, row)
    BY <1>1, RaisesExactly
  <1>3. applied = Replay!State(t, stamps, IF t = "expired" THEN row.reason ELSE state.reason,
                               IF t \in {"succeeded", "failed"} THEN t ELSE state.outcome)
    BY <1>2 DEF Replay!ApplyTransition
  <1>4. /\ applied.stage = t /\ applied.stamps = stamps
        /\ applied.reason = IF t = "expired" THEN row.reason ELSE state.reason
        /\ applied.outcome = IF t \in {"succeeded", "failed"} THEN t ELSE state.outcome
    BY <1>3 DEF Replay!State
  <1>5. Replay!CanFollow(s, t) /\ (t = "expired" => row.reason # Replay!None)
    BY <1>1 DEF Follows
  <1>6. /\ s = Replay!NoStage => t = "detected"
        /\ s # Replay!NoStage => t # "detected" /\ s \notin Replay!Terminal
    BY <1>5 DEF Replay!CanFollow, Replay!Advances, Replay!NonTerminal, Replay!Open, Replay!Terminal,
                Replay!NoStage
  <1>7. state = Replay!NoState => /\ s = Replay!NoStage /\ DOMAIN state.stamps = {}
                                  /\ state.reason = Replay!None /\ state.outcome = Replay!None
    BY DEF Replay!NoState, Replay!State
  <1>8. Measured(state, n) => s \in Replay!Stages /\ s # Replay!NoStage
    BY DEF Measured, Replay!Stages, Replay!Open, Replay!Terminal, Replay!NoStage
  <1>9. /\ DOMAIN stamps = DOMAIN state.stamps \cup {t}
        /\ stamps[t] = n + 1
        /\ \A x \in DOMAIN state.stamps : x # t => stamps[x] = state.stamps[x]
    BY DEF Replay!Stamped
  <1>10. {"detected", t} \subseteq DOMAIN stamps
    BY <1>6, <1>7, <1>9 DEF Measured
  <1>11. \A x \in DOMAIN stamps : /\ stamps[x] \in 1..(n + 1)
                                  /\ stamps["detected"] <= stamps[x]
                                  /\ stamps[x] <= stamps[t]
    <2>1. CASE state = Replay!NoState
      <3>1. DOMAIN stamps = {t} /\ t = "detected"
        BY <2>1, <1>6, <1>7, <1>9
      <3> QED BY <3>1, <1>9
    <2>2. CASE Measured(state, n)
      <3>1. "detected" # t /\ "detected" \in DOMAIN state.stamps
        BY <2>2, <1>6, <1>8 DEF Measured
      <3>2. \A x \in DOMAIN state.stamps : /\ state.stamps[x] \in 1..n
                                           /\ state.stamps["detected"] <= state.stamps[x]
        BY <2>2 DEF Measured
      <3>3. stamps["detected"] = state.stamps["detected"] /\ state.stamps["detected"] \in 1..n
        BY <3>1, <3>2, <1>9
      <3> HIDE DEF stamps
      <3>4. ASSUME NEW x \in DOMAIN stamps
            PROVE  /\ stamps[x] \in 1..(n + 1)
                   /\ stamps["detected"] <= stamps[x]
                   /\ stamps[x] <= stamps[t]
        <4>1. CASE x = t
          BY <4>1, <1>9, <3>3
        <4>2. CASE x # t
          <5>1. x \in DOMAIN state.stamps /\ stamps[x] = state.stamps[x]
            BY <4>2, <1>9
          <5> QED BY <5>1, <3>2, <3>3, <1>9
        <4> QED BY <4>1, <4>2
      <3> QED BY <3>4
    <2> QED BY <2>1, <2>2
  <1>12. (applied.reason # Replay!None) <=> (t = "expired")
    <2>1. state.reason = Replay!None
      <3>1. Measured(state, n) => ((state.reason # Replay!None) <=> s = "expired")
        BY DEF Measured
      <3>2. s = "expired" => s \in Replay!Terminal
        BY DEF Replay!Terminal
      <3> QED BY <3>1, <3>2, <1>6, <1>7, <1>8
    <2> QED BY <2>1, <1>4, <1>5
  <1>13. (applied.outcome # Replay!None) <=> (t \in {"succeeded", "failed"})
    <2>1. state.outcome = Replay!None
      <3>1. Measured(state, n) => ((state.outcome # Replay!None) <=> s \in {"succeeded", "failed"})
        BY DEF Measured
      <3>2. s \in {"succeeded", "failed"} => s \in Replay!Terminal
        BY DEF Replay!Terminal
      <3> QED BY <3>1, <3>2, <1>6, <1>7, <1>8
    <2>2. t \in {"succeeded", "failed"} => t # Replay!None
      BY DEF Replay!None
    <2> QED BY <2>1, <2>2, <1>4
  <1> HIDE DEF s, t, stamps, applied
  <1>14. Measured(applied, n + 1)
    BY <1>1, <1>4, <1>10, <1>11, <1>12, <1>13 DEF Measured
  <1> QED BY <1>4, <1>14 DEF t, applied

LEMMA InitReplay == Replay!Init => ReplayInv
  BY DEF Replay!Init, ReplayInv, Accepted, Explained, Replay!Readable

LEMMA ReplayStep == ReplayInv /\ [Replay!Next]_(Replay!vars) => ReplayInv'
  <1> SUFFICES ASSUME ReplayInv, [Replay!Next]_(Replay!vars) PROVE ReplayInv'
    OBVIOUS
  <1>1. CASE UNCHANGED Replay!vars
    BY <1>1 DEF ReplayInv, Replay!vars, Accepted, Explained, LastStage, Measured
  <1>2. CASE Replay!Next
    <2> DEFINE n == Len(rows)
               s == LastStage(rows)
    <2>1. rows \in Seq(LedgerRow) /\ n \in Nat /\ healed = replayed
      BY DEF ReplayInv
    <2>2. PICK row \in Replay!RowAt(n + 1) :
            /\ rows' = Append(rows, row)
            /\ replayed' = Replay!ReplayRow(replayed, row)
            /\ healed' = IF Replay!Repeats(row) THEN healed ELSE Replay!ReplayRow(healed, row)
      BY <1>2 DEF Replay!Next
    <2>3. row \in LedgerRow /\ row.at = n + 1 /\ row.stage \in Replay!Stages
      BY <2>1, <2>2 DEF Replay!RowAt, LedgerRow
    <2>4. /\ rows' \in Seq(LedgerRow) /\ rows' # <<>> /\ Len(rows') = n + 1
          /\ rows'[n + 1] = row
      BY <2>1, <2>2, <2>3
    <2>5. LastStage(rows)' = row.stage
      BY <2>4 DEF LastStage
    <2>6. Accepted(rows)' <=> Accepted(rows) /\ Follows(s, row)
      BY <2>1, <2>2, <2>3, AcceptedGrows
    <2>7. Replay!Raised.stage = Replay!Unreadable /\ Replay!Unreadable \notin Replay!Stages \cup {Replay!NoStage}
      BY DEF Replay!Raised, Replay!State, Replay!Unreadable, Replay!Stages, Replay!Open, Replay!Terminal,
             Replay!NoStage
    <2>8. Replay!NoState.stage = Replay!NoStage
      BY DEF Replay!NoState, Replay!State
    <2>9. Accepted(rows) => replayed.stage = s /\ replayed # Replay!Raised
      <3>1. rows = <<>> => s = Replay!NoStage
        BY DEF LastStage
      <3>2. Measured(replayed, n) => replayed.stage \in Replay!Stages
        BY DEF Measured
      <3> QED BY <3>1, <3>2, <2>7, <2>8 DEF ReplayInv
    <2>10. Accepted(rows) /\ Replay!Repeats(row) => row.stage = replayed.stage
      BY <2>9 DEF Replay!Repeats, LastStage
    <2>11. Replay!Repeats(row) => replayed' = replayed
      <3>1. ~ Accepted(rows) => replayed = Replay!Raised
        BY DEF ReplayInv
      <3> QED BY <2>2, <2>10, <3>1 DEF Replay!ReplayRow
    <2>12. healed' = replayed'
      BY <2>1, <2>2, <2>11
    <2>13. CASE ~ Accepted(rows)
      <3>1. replayed' = Replay!Raised
        BY <2>2, <2>13 DEF ReplayInv, Replay!ReplayRow
      <3> QED BY <3>1, <2>4, <2>6, <2>12, <2>13 DEF ReplayInv
    <2>14. CASE Accepted(rows) /\ row.stage = s
      <3>1. rows # <<>>
        BY <2>3, <2>14, <2>7 DEF LastStage, Replay!Stages, Replay!Open, Replay!Terminal, Replay!NoStage
      <3>2. replayed' = replayed
        BY <2>2, <2>9, <2>14 DEF Replay!ReplayRow
      <3>3. Measured(replayed, n)
        BY <2>14, <3>1 DEF ReplayInv
      <3>4. Measured(replayed, n + 1)
        <4>1. \A v \in 1..n : v \in 1..(n + 1)
          BY <2>1
        <4> QED BY <3>3, <4>1 DEF Measured
      <3>5. Follows(s, row)
        BY <2>14 DEF Follows
      <3> HIDE DEF s, n
      <3>6. Measured(replayed, Len(rows))'
        BY <3>2, <3>4, <2>4
      <3> QED BY <3>2, <3>5, <3>6, <2>4, <2>5, <2>6, <2>9, <2>12, <2>14 DEF ReplayInv
    <2>15. CASE Accepted(rows) /\ row.stage # s /\ Follows(s, row)
      <3>1. replayed = Replay!NoState \/ Measured(replayed, n)
        BY <2>15 DEF ReplayInv
      <3>2. replayed' = Replay!ApplyTransition(replayed, row)
        BY <2>2, <2>9, <2>15 DEF Replay!ReplayRow
      <3>3. replayed'.stage = row.stage /\ Measured(replayed', n + 1)
        BY <3>1, <3>2, <2>1, <2>3, <2>9, <2>15, AppliedMeasured
      <3> HIDE DEF s, n
      <3>4. Measured(replayed, Len(rows))'
        BY <3>3, <2>4
      <3> QED BY <3>3, <3>4, <2>4, <2>5, <2>6, <2>12, <2>15 DEF ReplayInv
    <2>16. CASE Accepted(rows) /\ row.stage # s /\ ~ Follows(s, row)
      <3>1. replayed.stage \in Replay!Stages \cup {Replay!NoStage}
        BY <2>8, <2>16 DEF ReplayInv, Measured
      <3>2. Replay!Raises(replayed, row)
        BY <3>1, <2>3, <2>9, <2>16, RaisesExactly
      <3>3. replayed' = Replay!Raised
        BY <3>2, <2>2, <2>9, <2>16 DEF Replay!ReplayRow, Replay!ApplyTransition
      <3> QED BY <3>3, <2>4, <2>6, <2>12, <2>16 DEF ReplayInv
    <2> QED BY <2>13, <2>14, <2>15, <2>16
  <1> QED BY <1>1, <1>2

LEMMA ReplayInvSound == ReplayInv => ReplaySound
  <1> SUFFICES ASSUME ReplayInv PROVE ReplaySound
    OBVIOUS
  <1>1. Replay!ExpiryExplained <=> Explained(rows)
    BY DEF Replay!ExpiryExplained, Explained
  <1>2. Replay!ReplayMatchesClosedForm
    <2>1. Replay!Raised.stage = Replay!Unreadable /\ Replay!NoState.stage = Replay!NoStage
      BY DEF Replay!Raised, Replay!NoState, Replay!State
    <2>2. CASE ~ Accepted(rows)
      <3>1. ~ Explained(rows) \/ (rows # <<>> /\ ~ Replay!Readable(rows))
        BY <2>2 DEF Accepted, Replay!Readable
      <3>2. replayed = Replay!Raised
        BY <2>2 DEF ReplayInv
      <3> QED BY <1>1, <2>1, <3>1, <3>2 DEF Replay!ReplayMatchesClosedForm, Replay!CurrentStage
    <2>3. CASE Accepted(rows) /\ rows = <<>>
      BY <1>1, <2>1, <2>3 DEF Accepted, ReplayInv, Replay!ReplayMatchesClosedForm, Replay!CurrentStage
    <2>4. CASE Accepted(rows) /\ rows # <<>>
      BY <1>1, <2>4 DEF Accepted, LastStage, ReplayInv, Replay!ReplayMatchesClosedForm, Replay!CurrentStage
    <2> QED BY <2>2, <2>3, <2>4
  <1>3. Replay!MeasuresConsistent
    <2> SUFFICES ASSUME replayed \notin {Replay!NoState, Replay!Raised} PROVE Replay!MeasuresConsistent
      BY DEF Replay!MeasuresConsistent
    <2>1. Measured(replayed, Len(rows))
      BY DEF ReplayInv
    <2> QED BY <2>1 DEF Measured, Replay!MeasuresConsistent
  <1> QED BY <1>2, <1>3 DEF ReplaySound, ReplayInv, Replay!HealingIsExact

LEMMA ReplayProjects == Spec => Replay!Spec
  <1>1. Init => Replay!Init
    BY DEF Init
  <1>2. [Next]_vars => [Replay!Next]_(Replay!vars)
    BY DEF Next, vars, ledger, Replay!vars,
           DeliverSignals, FollowTheNews, DrawTheLine, AskTheSources, KeepTheSchedule,
           ReplayALedger, LabelATrade, ReadAChart, DecideOnACandidate, CallADependency, CallTheBroker
  <1> QED BY <1>1, <1>2, PTL DEF Spec, Replay!Spec

(* ReplaySound: whatever its rows, a ledger of any length replays to the   *)
(* stage the closed form finds or raises where it says, to the same state  *)
(* with its repeated rows and without, and to measures that are consistent *)
(* (replay_transitions in prediction/lifecycle.py).                        *)
THEOREM ReplaySafe == Spec => []ReplaySound
  <1>1. Replay!Spec => []ReplayInv
    BY InitReplay, ReplayStep, PTL DEF Replay!Spec
  <1> QED BY <1>1, ReplayInvSound, ReplayProjects, PTL

-----------------------------------------------------------------------------
(* The labels of a trade.                                                  *)

\* A bar as a trade sees it.
SeenBar == [open : Int, high : Int, low : Int, close : Int, date : BarDates]

Exits == {"", "profit_target", "stop", "insufficient_data", "max_holding_time"} \cup Labelling!Protective

Trades == [exit : Exits, price : Int, held : Nat, gap : BOOLEAN, ambiguous : BOOLEAN,
           trailing : BOOLEAN, stop : Int, extreme : Int, close : Int]

LEMMA SeenIsBar ==
    ASSUME NEW bar \in Labelling!Shapes, NEW d \in Labelling!Directions
    PROVE  LET b == Labelling!Seen(bar, d)
           IN  /\ b \in SeenBar
               /\ b.low <= b.open /\ b.open <= b.high
               /\ b.low <= b.close /\ b.close <= b.high
  <1>1. /\ bar \in SeenBar
        /\ bar.low <= bar.open /\ bar.open <= bar.high
        /\ bar.low <= bar.close /\ bar.close <= bar.high
    BY LoopsAssumption DEF Labelling!Shapes, SeenBar
  <1>2. CASE d = "long"
    BY <1>1, <1>2 DEF Labelling!Seen
  <1>3. CASE d # "long"
    <2> DEFINE b == Labelling!Seen(bar, d)
    <2> DEFINE o == -bar.open
               c == -bar.close
               h == -bar.low
               l == -bar.high
    <2>0. o \in Int /\ c \in Int /\ h \in Int /\ l \in Int
      BY <1>1 DEF SeenBar
    <2>1. b = [open |-> o, high |-> h, low |-> l, close |-> c, date |-> bar.date]
      <3> HIDE DEF o, c, h, l
      <3>1. b = [[[[bar EXCEPT !.open = o] EXCEPT !.high = h] EXCEPT !.low = l] EXCEPT !.close = c]
        BY <1>3 DEF Labelling!Seen, o, c, h, l
      <3> DEFINE b1 == [bar EXCEPT !.open = o]
                 b2 == [b1 EXCEPT !.high = h]
                 b3 == [b2 EXCEPT !.low = l]
                 b4 == [b3 EXCEPT !.close = c]
      <3>2. b1 = [open |-> o, high |-> bar.high, low |-> bar.low, close |-> bar.close, date |-> bar.date]
        BY <1>1, <2>0 DEF SeenBar
      <3> HIDE DEF b1
      <3>3. b2 = [open |-> o, high |-> h, low |-> bar.low, close |-> bar.close, date |-> bar.date]
        BY <3>2
      <3> HIDE DEF b2
      <3>4. b3 = [open |-> o, high |-> h, low |-> l, close |-> bar.close, date |-> bar.date]
        BY <3>3
      <3> HIDE DEF b3
      <3>5. b4 = [open |-> o, high |-> h, low |-> l, close |-> c, date |-> bar.date]
        BY <3>4
      <3> USE DEF b1, b2, b3
      <3> QED BY <3>1, <3>5
    <2>a. /\ b.open = -bar.open /\ b.close = -bar.close /\ b.high = -bar.low /\ b.low = -bar.high
          /\ b \in SeenBar
      <3>1. b.open = o /\ b.close = c /\ b.high = h /\ b.low = l /\ b.date = bar.date /\ bar.date \in BarDates
        BY <1>1, <2>1 DEF SeenBar
      <3> QED BY <2>0, <2>1, <3>1 DEF SeenBar
    <2>2. {bar.open, bar.close, bar.high, bar.low} \subseteq Int
      BY <1>1 DEF SeenBar
    <2> HIDE DEF b
    <2>3. /\ b.low <= b.open /\ b.open <= b.high
          /\ b.low <= b.close /\ b.close <= b.high
      BY <1>1, <2>a, <2>2
    <2> QED BY <2>a, <2>3 DEF b
  <1> QED BY <1>2, <1>3

LEMMA GapFields ==
    ASSUME NEW trade \in Trades, NEW reason \in Exits, NEW price \in Int
    PROVE  LET t == Labelling!Exit(trade, reason, price, TRUE, FALSE)
           IN  /\ t \in Trades /\ t.exit = reason /\ t.price = price /\ t.gap = TRUE
               /\ t.held = trade.held
  BY DEF Labelling!Exit, Trades

LEMMA AmbiguousFields ==
    ASSUME NEW trade \in Trades, NEW reason \in Exits, NEW price \in Int
    PROVE  LET t == Labelling!Exit(trade, reason, price, FALSE, TRUE)
           IN  /\ t \in Trades /\ t.exit = reason /\ t.price = price
               /\ t.held = trade.held
  BY DEF Labelling!Exit, Trades

LEMMA ExitFields ==
    ASSUME NEW trade \in Trades, NEW reason \in Exits, NEW price \in Int
    PROVE  LET t == Labelling!Exit(trade, reason, price, FALSE, FALSE)
           IN  /\ t \in Trades /\ t.exit = reason /\ t.price = price
               /\ t.held = trade.held
  BY DEF Labelling!Exit, Trades

LEMMA LabelMax ==
    ASSUME NEW a \in Int, NEW b \in Int
    PROVE  Labelling!Max({a, b}) = IF a >= b THEN a ELSE b
  <1>1. \E x \in {a, b} : \A y \in {a, b} : x >= y
    OBVIOUS
  <1>2. /\ Labelling!Max({a, b}) \in {a, b}
        /\ \A y \in {a, b} : Labelling!Max({a, b}) >= y
    BY <1>1 DEF Labelling!Max
  <1> QED BY <1>2

\* A bar as a trade may see it: its open and close are within its range.
Ordered(bar) ==
    /\ bar \in SeenBar
    /\ bar.low <= bar.open /\ bar.open <= bar.high
    /\ bar.low <= bar.close /\ bar.close <= bar.high

\* A trade that none of the bars seen has ended: no bar touched the target or the fixed
\* stop, and the stop is behind every bar that went far enough to trail it.
Running(trade, past) ==
    /\ trade \in Trades
    /\ trade.exit = ""
    /\ Labelling!FixedStop <= trade.stop /\ trade.stop < Labelling!ProfitTarget
    /\ trade.extreme < Labelling!ProfitTarget
    /\ trade.extreme >= Labelling!TrailActivation => trade.trailing
    /\ \A b \in past : b.high < Labelling!ProfitTarget /\ b.low > Labelling!FixedStop
    /\ \A b \in past : b.high >= Labelling!TrailActivation =>
           trade.trailing /\ trade.stop >= b.high - Labelling!TrailDistance
    /\ trade.trailing => \E b \in past : b.high >= Labelling!TrailActivation

\* A trade that a bar ended, after those seen before it.
Finished(trade, past, last) ==
    /\ trade \in Trades
    /\ trade.exit \in {"profit_target", "stop"} \cup Labelling!Protective
    /\ trade.gap \/ trade.price \in last.low..last.high
    /\ trade.exit \notin {"event_barrier", "liquidity_barrier"} => trade.price >= Labelling!FixedStop
    /\ trade.price <= Labelling!ProfitTarget
    /\ \A b \in past : b.high < Labelling!ProfitTarget /\ b.low > Labelling!FixedStop
    /\ trade.exit = "profit_target" => trade.price = Labelling!ProfitTarget
    /\ trade.exit = "trailing_stop" =>
         /\ \E b \in past : b.high >= Labelling!TrailActivation
         /\ \A b \in past : b.high >= Labelling!TrailActivation =>
                trade.price >= b.high - Labelling!TrailDistance

LEMMA Barriers ==
    /\ Labelling!ProfitTarget = 10 /\ Labelling!FixedStop = -5
    /\ Labelling!TrailActivation = 5 /\ Labelling!TrailDistance = 4
  BY DEF Labelling!ProfitTarget, Labelling!FixedStop, Labelling!TrailActivation, Labelling!TrailDistance

\* A bar that does not end the trade trails it.
LEMMA TrailedRuns ==
    ASSUME NEW past \in SUBSET SeenBar, NEW trade, Running(trade, past), NEW bar, Ordered(bar),
           bar.high < Labelling!ProfitTarget, bar.low > trade.stop
    PROVE  LET next == Labelling!Trailed(trade, bar)
           IN  next.held = trade.held /\ Running(next, past \cup {bar})
  <1> DEFINE extreme == Labelling!Max({trade.extreme, bar.high})
             trailing == trade.trailing \/ extreme >= Labelling!TrailActivation
             stop == IF trailing THEN Labelling!Max({trade.stop, extreme - Labelling!TrailDistance}) ELSE trade.stop
             next == Labelling!Trailed(trade, bar)
  <1>1. /\ trade.extreme \in Int /\ trade.stop \in Int
        /\ bar.high \in Int /\ bar.low \in Int
    BY DEF Running, Trades, Ordered, SeenBar
  <1>t. trade \in Trades /\ trade.trailing \in BOOLEAN /\ trade.exit = ""
    BY DEF Running, Trades
  <1>a. -5 <= trade.stop /\ trade.stop < 10 /\ trade.extreme < 10
    BY Barriers DEF Running
  <1>c. trade.extreme >= 5 => trade.trailing
    BY Barriers DEF Running
  <1>b. bar.high < 10 /\ bar.low > trade.stop
    BY Barriers
  <1>2. extreme = IF trade.extreme >= bar.high THEN trade.extreme ELSE bar.high
    BY <1>1, LabelMax
  <1> HIDE DEF extreme
  <1>3. extreme \in Int /\ extreme < 10 /\ extreme >= bar.high /\ extreme >= trade.extreme
    BY <1>1, <1>2, <1>a, <1>b
  <1>4. trailing \in BOOLEAN /\ (trailing <=> trade.trailing \/ bar.high >= 5)
    <2>1. trailing <=> trade.trailing \/ extreme >= 5
      BY Barriers
    <2>2. extreme >= 5 <=> trade.extreme >= 5 \/ bar.high >= 5
      BY <1>1, <1>2
    <2>3. trailing \in BOOLEAN
      BY <1>t
    <2> QED BY <2>1, <2>2, <2>3, <1>c
  <1>5. Labelling!Max({trade.stop, extreme - 4}) = IF trade.stop >= extreme - 4 THEN trade.stop ELSE extreme - 4
    BY <1>1, <1>3, LabelMax
  <1>6. /\ stop \in Int /\ stop >= trade.stop /\ stop < 10
        /\ trailing => stop >= extreme - 4
    <2>1. stop = IF trailing THEN Labelling!Max({trade.stop, extreme - 4}) ELSE trade.stop
      BY Barriers
    <2> HIDE DEF trailing, stop
    <2> QED BY <2>1, <1>1, <1>3, <1>5, <1>a
  <1>7. next = [trade EXCEPT !.trailing = trailing, !.extreme = extreme, !.stop = stop]
    BY DEF Labelling!Trailed, extreme
  <1> HIDE DEF trailing, stop, next
  <1>8. /\ next \in Trades /\ next.trailing = trailing /\ next.extreme = extreme /\ next.stop = stop
        /\ next.exit = trade.exit /\ next.held = trade.held
    BY <1>t, <1>3, <1>4, <1>6, <1>7 DEF Trades
  <1>9. \A b \in past : b.high \in Int /\ b.low \in Int
    BY DEF SeenBar
  <1>10. /\ next.exit = "" /\ -5 <= next.stop /\ next.stop < 10 /\ next.extreme < 10
         /\ next.extreme >= 5 => next.trailing
    <2>2. extreme >= 5 => trailing
      BY Barriers DEF trailing
    <2>3. -5 <= stop
      BY <1>1, <1>6, <1>a
    <2> QED BY <1>3, <1>6, <1>8, <1>a, <1>t, <2>2, <2>3
  <1>11. \A b \in past \cup {bar} : b.high < 10 /\ b.low > -5
    <2>1. \A b \in past : b.high < 10 /\ b.low > -5
      BY Barriers DEF Running
    <2>2. bar.high < 10 /\ bar.low > -5
      BY <1>1, <1>a, <1>b
    <2> QED BY <2>1, <2>2
  <1>12. \A b \in past \cup {bar} : b.high >= 5 => next.trailing /\ next.stop >= b.high - 4
    <2>1. ASSUME NEW b \in past, b.high >= 5 PROVE next.trailing /\ next.stop >= b.high - 4
      <3>1. trade.trailing /\ trade.stop >= b.high - 4
        BY <2>1, Barriers DEF Running
      <3>2. stop >= b.high - 4
        BY <1>1, <1>6, <1>9, <3>1
      <3>3. trailing
        BY <1>4, <3>1
      <3> QED BY <1>8, <3>2, <3>3
    <2>2. ASSUME bar.high >= 5 PROVE next.trailing /\ next.stop >= bar.high - 4
      <3>1. trailing
        BY <1>4, <2>2
      <3>2. stop >= bar.high - 4
        BY <1>1, <1>3, <1>6, <3>1
      <3> QED BY <1>8, <3>1, <3>2
    <2> QED BY <2>1, <2>2
  <1>13. next.trailing => \E b \in past \cup {bar} : b.high >= 5
    <2>1. trade.trailing => \E b \in past : b.high >= 5
      BY Barriers DEF Running
    <2> QED BY <1>4, <1>8, <2>1
  <1>14. Running(next, past \cup {bar})
    BY <1>8, <1>10, <1>11, <1>12, <1>13, Barriers DEF Running
  <1> QED BY <1>8, <1>14 DEF next

\* What ends a trade.
LEMMA EndedFinished ==
    ASSUME NEW past \in SUBSET SeenBar, NEW trade, Running(trade, past), NEW bar, NEW next \in Trades,
           next.exit \in {"profit_target", "stop"} \cup Labelling!Protective,
           next.gap = TRUE \/ next.price \in bar.low..bar.high,
           next.exit \notin {"event_barrier", "liquidity_barrier"} => next.price >= -5,
           next.price <= 10,
           next.exit = "profit_target" => next.price = 10,
           next.exit = "trailing_stop" => trade.trailing = TRUE /\ next.price = trade.stop
    PROVE  next.exit # "" /\ Finished(next, past, bar)
  <1>1. next.exit # ""
    BY DEF Labelling!Protective
  <1>2. next.exit = "trailing_stop" =>
          /\ \E b \in past : b.high >= 5
          /\ \A b \in past : b.high >= 5 => next.price >= b.high - 4
    BY Barriers DEF Running
  <1>3. \A b \in past : b.high < 10 /\ b.low > -5
    BY Barriers DEF Running
  <1> QED BY <1>1, <1>2, <1>3, Barriers DEF Finished

LEMMA BarTurns ==
    ASSUME NEW past \in SUBSET SeenBar, NEW trade, Running(trade, past), NEW bar, Ordered(bar)
    PROVE  LET next == Labelling!Bar(trade, bar)
           IN  /\ next.held = trade.held
               /\ IF next.exit = "" THEN Running(next, past \cup {bar}) ELSE Finished(next, past, bar)
  <1> DEFINE next == Labelling!Bar(trade, bar)
  <1>a. trade.stop \in Int /\ -5 <= trade.stop /\ trade.stop < 10
    BY Barriers DEF Running, Trades
  <1>b. /\ bar.open \in Int /\ bar.high \in Int /\ bar.low \in Int /\ bar.close \in Int
        /\ bar.low <= bar.open /\ bar.open <= bar.high /\ bar.low <= bar.close /\ bar.close <= bar.high
    BY DEF Ordered, SeenBar
  <1>c. PICK stop \in Int : stop = trade.stop
    BY <1>a
  <1>d. PICK target \in Int : target = 10
    OBVIOUS
  <1>i. PICK close \in Int : close = bar.close
    BY <1>b
  <1>h. target >= -5 /\ target <= 10
    BY <1>d
  <1>1. -5 <= stop /\ stop < 10 /\ stop <= 10
    BY <1>a, <1>c
  <1>2. trade \in Trades /\ bar.date \in BarDates
    BY DEF Running, Ordered, SeenBar
  <1>3. {"profit_target", "stop", "trailing_stop", "event_barrier", "liquidity_barrier"} \subseteq Exits
    BY DEF Exits, Labelling!Protective
  <1>j. bar.date # "ordinary" => bar.date \in {"event_barrier", "liquidity_barrier"}
    BY <1>2, LoopsAssumption
  <1>k. PICK date \in Exits : bar.date # "ordinary" => date = bar.date
    BY <1>3, <1>j
  <1>e. PICK reason \in Exits : reason = IF trade.trailing THEN "trailing_stop" ELSE "stop"
    BY <1>3
  <1>f. PICK won \in Exits : won = "profit_target"
    BY <1>3
  <1>g. PICK stopped \in Exits : stopped = "stop"
    BY <1>3
  <1>4. /\ reason \in {"stop", "trailing_stop"}
        /\ reason = "trailing_stop" => trade.trailing = TRUE
    BY <1>2, <1>e DEF Trades
  <1>5. \A t \in {"profit_target", "stop", "trailing_stop", "event_barrier", "liquidity_barrier"} :
            t \in {"profit_target", "stop"} \cup Labelling!Protective
    BY DEF Labelling!Protective
  <1>6. ~ (bar.open >= 10 /\ bar.open <= stop)
    BY <1>b, <1>1
  <1>7. CASE bar.open >= 10 /\ ~ (bar.open <= stop)
    <2> DEFINE exit == Labelling!Exit(trade, won, target, TRUE, FALSE)
    <2>1. next = exit
      BY <1>7, <1>c, <1>d, <1>f, <1>g, Barriers DEF Labelling!Bar
    <2>x. /\ exit \in Trades /\ exit.exit = won /\ exit.price = target /\ exit.gap = TRUE
          /\ exit.held = trade.held
      BY <1>2, GapFields
    <2> HIDE DEF exit, next
    <2>2. /\ next \in Trades /\ next.exit = won /\ next.price = target /\ next.gap = TRUE
          /\ next.held = trade.held
      BY <2>1, <2>x
    <2>3. next.exit # "" /\ Finished(next, past, bar)
      BY <2>2, <1>d, <1>f, <1>h, <1>5, EndedFinished
    <2> QED BY <2>2, <2>3 DEF next
  <1>8. CASE ~ (bar.open >= 10) /\ bar.open <= stop
    <2> DEFINE exit == Labelling!Exit(trade, reason, stop, TRUE, FALSE)
    <2>1. next = exit
      BY <1>8, <1>c, <1>e, Barriers DEF Labelling!Bar
    <2>x. /\ exit \in Trades /\ exit.exit = reason /\ exit.price = stop /\ exit.gap = TRUE
          /\ exit.held = trade.held
      BY <1>2, GapFields
    <2> HIDE DEF exit, next
    <2>2. /\ next \in Trades /\ next.exit = reason /\ next.price = stop /\ next.gap = TRUE
          /\ next.held = trade.held
      BY <2>1, <2>x
    <2>3. next.exit # "" /\ Finished(next, past, bar)
      BY <2>2, <1>1, <1>4, <1>5, <1>c, EndedFinished
    <2> QED BY <2>2, <2>3 DEF next
  <1>9. CASE ~ (bar.open >= 10) /\ ~ (bar.open <= stop)
    <2>1. CASE bar.high >= 10 /\ bar.low <= stop
      <3> DEFINE exit == Labelling!Exit(trade, stopped, stop, FALSE, TRUE)
      <3>1. next = exit
        BY <1>9, <2>1, <1>c, <1>d, <1>f, <1>g, Barriers DEF Labelling!Bar
      <3>x. /\ exit \in Trades /\ exit.exit = stopped /\ exit.price = stop
            /\ exit.held = trade.held
        BY <1>2, AmbiguousFields
      <3> HIDE DEF exit, next
      <3>2. /\ next \in Trades /\ next.exit = stopped /\ next.price = stop
            /\ next.held = trade.held
        BY <3>1, <3>x
      <3>3. stop \in bar.low..bar.high
        BY <1>b, <1>9, <2>1
      <3>4. next.exit # "" /\ Finished(next, past, bar)
        BY <3>2, <3>3, <1>1, <1>5, <1>g, EndedFinished
      <3> QED BY <3>2, <3>4 DEF next
    <2>2. CASE bar.high >= 10 /\ ~ (bar.low <= stop)
      <3> DEFINE exit == Labelling!Exit(trade, won, target, FALSE, FALSE)
      <3>1. next = exit
        BY <1>9, <2>2, <1>c, <1>d, <1>f, <1>g, Barriers DEF Labelling!Bar
      <3>x. /\ exit \in Trades /\ exit.exit = won /\ exit.price = target
            /\ exit.held = trade.held
        BY <1>2, ExitFields
      <3> HIDE DEF exit, next
      <3>2. /\ next \in Trades /\ next.exit = won /\ next.price = target
            /\ next.held = trade.held
        BY <3>1, <3>x
      <3>3. target \in bar.low..bar.high
        BY <1>b, <1>d, <1>9, <2>2
      <3>4. next.exit # "" /\ Finished(next, past, bar)
        BY <3>2, <3>3, <1>5, <1>d, <1>f, <1>h, EndedFinished
      <3> QED BY <3>2, <3>4 DEF next
    <2>3. CASE ~ (bar.high >= 10) /\ bar.low <= stop
      <3> DEFINE exit == Labelling!Exit(trade, reason, stop, FALSE, FALSE)
      <3>1. next = exit
        BY <1>9, <2>3, <1>c, <1>e, Barriers DEF Labelling!Bar
      <3>x. /\ exit \in Trades /\ exit.exit = reason /\ exit.price = stop
            /\ exit.held = trade.held
        BY <1>2, ExitFields
      <3> HIDE DEF exit, next
      <3>2. /\ next \in Trades /\ next.exit = reason /\ next.price = stop
            /\ next.held = trade.held
        BY <3>1, <3>x
      <3>3. stop \in bar.low..bar.high
        BY <1>b, <1>9, <2>3
      <3>4. next.exit # "" /\ Finished(next, past, bar)
        BY <3>2, <3>3, <1>1, <1>4, <1>5, <1>c, EndedFinished
      <3> QED BY <3>2, <3>4 DEF next
    <2>4. CASE ~ (bar.high >= 10) /\ ~ (bar.low <= stop) /\ bar.date # "ordinary"
      <3> DEFINE exit == Labelling!Exit(trade, date, close, FALSE, FALSE)
      <3>1. next = exit
        BY <1>9, <2>4, <1>i, <1>k, <1>c, Barriers DEF Labelling!Bar
      <3>x. /\ exit \in Trades /\ exit.exit = date /\ exit.price = close
            /\ exit.held = trade.held
        BY <1>2, ExitFields
      <3> HIDE DEF exit, next
      <3>3. /\ next \in Trades /\ next.exit = date /\ next.price = close
            /\ next.held = trade.held
        BY <3>1, <3>x
      <3>4. close <= 10 /\ close \in bar.low..bar.high
        BY <1>b, <1>i, <2>4
      <3>5. next.exit # "" /\ Finished(next, past, bar)
        BY <1>j, <1>k, <2>4, <3>3, <3>4, <1>5, EndedFinished
      <3> QED BY <3>3, <3>5 DEF next
    <2>5. CASE ~ (bar.high >= 10) /\ ~ (bar.low <= stop) /\ bar.date = "ordinary"
      <3>1. next = Labelling!Trailed(trade, bar)
        BY <1>9, <2>5, <1>c, <1>d, <1>f, <1>g, Barriers DEF Labelling!Bar
      <3>2. bar.high < Labelling!ProfitTarget /\ bar.low > trade.stop
        BY <1>b, <1>c, <2>5, Barriers
      <3>3. next.held = trade.held /\ Running(next, past \cup {bar})
        BY <3>1, <3>2, TrailedRuns
      <3> HIDE DEF next
      <3>4. next.exit = ""
        BY <3>3 DEF Running
      <3> QED BY <3>3, <3>4 DEF next
    <2> QED BY <2>1, <2>2, <2>3, <2>4, <2>5
  <1> HIDE DEF next
  <1>10. /\ next.held = trade.held
         /\ IF next.exit = "" THEN Running(next, past \cup {bar}) ELSE Finished(next, past, bar)
    BY <1>6, <1>7, <1>8, <1>9 DEF next
  <1> QED BY <1>10 DEF next

\* The bars a trade saw before the n-th, and the n-th.
Preceding(bars, d, n) == {Labelling!Seen(bars[k], d) : k \in 1..(n - 1)}

Ended(trade) == trade.exit # ""

Follow(trade, bars, d) ==
    /\ trade \in Trades
    /\ trade.held <= Len(bars) /\ trade.held <= MaxHolding
    /\ bars # <<>> => trade.held >= 1
    /\ trade.held >= 1 => trade.close = Labelling!Seen(bars[trade.held], d).close
    /\ IF Ended(trade)
       THEN /\ trade.held >= 1
            /\ Finished(trade, Preceding(bars, d, trade.held), Labelling!Seen(bars[trade.held], d))
       ELSE /\ trade.held = Len(bars) \/ trade.held = MaxHolding
            /\ Running(trade, Preceding(bars, d, trade.held + 1))

LabelInv ==
    /\ path \in Seq(Labelling!Shapes)
    /\ walked \in [Labelling!Directions -> Trades]
    /\ \A d \in Labelling!Directions : Follow(walked[d], path, d)

LEMMA SeenOrdered ==
    ASSUME NEW bars \in Seq(Labelling!Shapes), NEW d \in Labelling!Directions
    PROVE  \A k \in 1..Len(bars) : Ordered(Labelling!Seen(bars[k], d))
  <1> SUFFICES ASSUME NEW k \in 1..Len(bars) PROVE Ordered(Labelling!Seen(bars[k], d))
    OBVIOUS
  <1>1. bars[k] \in Labelling!Shapes
    OBVIOUS
  <1> QED BY <1>1, SeenIsBar DEF Ordered

LEMMA BeforeGrows ==
    ASSUME NEW bars \in Seq(Labelling!Shapes), NEW d \in Labelling!Directions, NEW n \in 1..Len(bars)
    PROVE  /\ Preceding(bars, d, n) \in SUBSET SeenBar
           /\ Preceding(bars, d, n + 1) = Preceding(bars, d, n) \cup {Labelling!Seen(bars[n], d)}
  <1>1. \A k \in 1..(n - 1) : Labelling!Seen(bars[k], d) \in SeenBar
    BY SeenOrdered DEF Ordered
  <1>2. (n + 1) - 1 = n /\ 1..n = 1..(n - 1) \cup {n}
    OBVIOUS
  <1> QED BY <1>1, <1>2 DEF Preceding

LEMMA Appended ==
    ASSUME NEW S, NEW s \in Seq(S), NEW e \in S
    PROVE  /\ Len(s) \in Nat /\ Append(s, e) \in Seq(S) /\ Append(s, e) # <<>>
           /\ Len(Append(s, e)) = Len(s) + 1 /\ Append(s, e)[Len(s) + 1] = e
           /\ \A k \in 1..Len(s) : Append(s, e)[k] = s[k]
  OBVIOUS

LEMMA BeforeStays ==
    ASSUME NEW bars \in Seq(Labelling!Shapes), NEW b \in Labelling!Shapes, NEW d,
           NEW n \in Nat, n <= Len(bars) + 1
    PROVE  Preceding(Append(bars, b), d, n) = Preceding(bars, d, n)
  <1>1. \A k \in 1..(n - 1) : Append(bars, b)[k] = bars[k]
    OBVIOUS
  <1> QED BY <1>1 DEF Preceding

\* Further bars are none of a trade that has ended or is full.
LEMMA FollowStays ==
    ASSUME NEW bars \in Seq(Labelling!Shapes), NEW b \in Labelling!Shapes, NEW d \in Labelling!Directions,
           NEW trade, Follow(trade, bars, d), bars # <<>>, Ended(trade) \/ trade.held = MaxHolding
    PROVE  Follow(trade, Append(bars, b), d)
  <1> DEFINE longer == Append(bars, b)
             n == trade.held
  <1>1. n \in Nat /\ n >= 1 /\ n <= Len(bars) /\ n <= MaxHolding
    BY DEF Follow, Trades
  <1>2. /\ Len(bars) \in Nat /\ Len(longer) = Len(bars) + 1
        /\ \A k \in 1..Len(bars) : longer[k] = bars[k]
    BY Appended
  <1>3. PICK m \in Nat : m = n
    BY <1>1
  <1>4. Preceding(longer, d, m) = Preceding(bars, d, m)
    BY <1>1, <1>2, <1>3, BeforeStays
  <1>5. Preceding(longer, d, m + 1) = Preceding(bars, d, m + 1)
    <2>1. m + 1 \in Nat /\ m + 1 <= Len(bars) + 1
      BY <1>1, <1>2, <1>3
    <2> QED BY <2>1, BeforeStays
  <1> HIDE DEF longer
  <1>6. longer[n] = bars[n] /\ n <= Len(longer)
    BY <1>1, <1>2
  <1>8. Follow(trade, longer, d)
    BY <1>1, <1>3, <1>4, <1>5, <1>6 DEF Follow
  <1> QED BY <1>8 DEF longer

LEMMA FollowsOn ==
    ASSUME NEW bars \in Seq(Labelling!Shapes), NEW b \in Labelling!Shapes, NEW d \in Labelling!Directions,
           NEW trade, Follow(trade, bars, d), ~ Ended(trade), Len(bars) < MaxHolding
    PROVE  Follow(Labelling!Walk(trade, Labelling!Seen(b, d)), Append(bars, b), d)
  <1> DEFINE longer == Append(bars, b)
             n == Len(bars)
             bar == Labelling!Seen(b, d)
             past == Preceding(longer, d, n + 1)
             turned == Labelling!Bar(trade, bar)
             next == Labelling!Walk(trade, bar)
  <1>1. n \in Nat /\ longer \in Seq(Labelling!Shapes) /\ Len(longer) = n + 1 /\ longer[n + 1] = b
    BY Appended
  <1>t. trade \in Trades
    BY DEF Follow
  <1>2. trade.held = n
    <2>1. trade.held = n \/ trade.held = MaxHolding
      BY DEF Follow
    <2>2. trade.held <= n
      BY DEF Follow
    <2>3. MaxHolding \in Nat /\ n < MaxHolding
      BY LoopsAssumption
    <2> QED BY <1>1, <2>1, <2>2, <2>3
  <1>3. Preceding(bars, d, n + 1) = past
    <2>1. n + 1 \in Nat /\ n + 1 <= Len(bars) + 1
      BY <1>1
    <2> QED BY <2>1, BeforeStays
  <1>4. Running(trade, past)
    BY <1>2, <1>3 DEF Follow
  <1>5. Ordered(bar)
    BY SeenIsBar DEF Ordered
  <1>6. past \in SUBSET SeenBar /\ Preceding(longer, d, n + 2) = past \cup {bar}
    <2> HIDE DEF longer, n, bar
    <2>1. n + 1 \in 1..Len(longer) /\ (n + 1) + 1 = n + 2
      BY <1>1
    <2>2. Preceding(longer, d, (n + 1) + 1) = past \cup {bar}
      BY <1>1, <2>1, BeforeGrows DEF bar
    <2> QED BY <1>1, <2>1, <2>2, BeforeGrows
  <1> HIDE DEF bar, past, longer, n
  <1>7. /\ turned.held = n
        /\ IF Ended(turned) THEN Finished(turned, past, bar) ELSE Running(turned, past \cup {bar})
    BY <1>2, <1>t, <1>4, <1>5, <1>6, BarTurns DEF Ended
  <1>8. turned \in Trades
    BY <1>7 DEF Running, Finished
  <1>9. next = [turned EXCEPT !.held = turned.held + 1, !.close = bar.close]
    BY DEF Labelling!Walk, Ended
  <1> HIDE DEF turned, next
  <1>10. bar.close \in Int
    BY <1>5 DEF Ordered, SeenBar
  <1>11. PICK held \in Nat : held = turned.held + 1
    <2>1. turned.held = n
      BY <1>7
    <2> QED BY <1>1, <2>1
  <1>12. PICK close \in Int : close = bar.close
    BY <1>10
  <1>13. next = [turned EXCEPT !.held = held, !.close = close]
    BY <1>9, <1>11, <1>12
  <1>14. /\ next \in Trades /\ next.held = held /\ next.close = close
         /\ next.exit = turned.exit /\ next.price = turned.price /\ next.gap = turned.gap
         /\ next.trailing = turned.trailing /\ next.stop = turned.stop /\ next.extreme = turned.extreme
    BY <1>8, <1>13 DEF Trades
  <1>15. held = n + 1
    BY <1>7, <1>11
  <1>16. ~ Ended(next) => Running(next, Preceding(longer, d, held + 1))
    <2>1. held + 1 = n + 2
      BY <1>1, <1>15
    <2> QED BY <1>6, <1>7, <1>14, <2>1 DEF Running, Ended
  <1>17. Ended(next) => Finished(next, Preceding(longer, d, held), Labelling!Seen(longer[held], d))
    <2>1. longer[held] = b /\ Preceding(longer, d, held) = past
      BY <1>1, <1>15 DEF past
    <2>2. Labelling!Seen(longer[held], d) = bar
      BY <2>1 DEF bar
    <2> QED BY <1>7, <1>14, <2>1, <2>2 DEF Finished, Ended
  <1>18. Labelling!Seen(longer[held], d).close = close /\ held >= 1 /\ held <= Len(longer) /\ held <= MaxHolding
    <2>1. MaxHolding \in Nat /\ n < MaxHolding
      BY LoopsAssumption DEF n
    <2>2. longer[held] = b
      BY <1>1, <1>15
    <2> QED BY <1>1, <1>12, <1>15, <2>1, <2>2 DEF bar
  <1>19. Follow(next, longer, d)
    BY <1>1, <1>14, <1>15, <1>16, <1>17, <1>18 DEF Follow
  <1> QED BY <1>19 DEF next, longer, bar

LEMMA InitLabels == Labelling!Init => LabelInv
  <1> SUFFICES ASSUME Labelling!Init PROVE LabelInv
    OBVIOUS
  <1>1. path = <<>> /\ walked = [d \in Labelling!Directions |-> Labelling!Entered]
    BY DEF Labelling!Init
  <1>2. \A d : Preceding(<<>>, d, 1) = {}
    BY DEF Preceding
  <1>3. /\ Labelling!Entered \in Trades /\ Labelling!Entered.exit = "" /\ ~ Ended(Labelling!Entered)
    BY Barriers DEF Labelling!Entered, Trades, Exits, Ended
  <1>n. Labelling!Entered.held = 0 /\ Labelling!Entered.stop = -5 /\ Labelling!Entered.extreme = 0
    BY Barriers DEF Labelling!Entered
  <1>4. Labelling!Entered.trailing = FALSE
    BY DEF Labelling!Entered
  <1>5. Running(Labelling!Entered, {})
    <2>1. /\ -5 <= Labelling!Entered.stop /\ Labelling!Entered.stop < 10
          /\ Labelling!Entered.extreme < 10 /\ ~ (Labelling!Entered.extreme >= 5)
      BY <1>n
    <2> QED BY <1>3, <1>4, <2>1, Barriers DEF Running
  <1>6. ASSUME NEW d \in Labelling!Directions PROVE Follow(Labelling!Entered, <<>>, d)
    <2>1. Len(<<>>) = 0 /\ MaxHolding \in Nat
      BY LoopsAssumption
    <2>2. /\ Labelling!Entered.held <= Len(<<>>) /\ Labelling!Entered.held <= MaxHolding
          /\ ~ (Labelling!Entered.held >= 1) /\ Labelling!Entered.held + 1 = 1
          /\ Labelling!Entered.held = Len(<<>>)
      BY <1>n, <2>1
    <2> QED BY <1>2, <1>3, <1>5, <2>2 DEF Follow
  <1>7. path \in Seq(Labelling!Shapes)
    BY <1>1
  <1> QED BY <1>1, <1>3, <1>6, <1>7 DEF LabelInv

LEMMA LabelStep == LabelInv /\ [Labelling!Next]_(Labelling!vars) => LabelInv'
  <1> SUFFICES ASSUME LabelInv, [Labelling!Next]_(Labelling!vars) PROVE LabelInv'
    OBVIOUS
  <1>1. CASE UNCHANGED Labelling!vars
    BY <1>1 DEF LabelInv, Labelling!vars
  <1>2. CASE Labelling!Next
    <2>1. PICK b \in Labelling!Shapes :
            /\ path' = Append(path, b)
            /\ walked' = IF Len(path) < MaxHolding
                         THEN [d \in Labelling!Directions |->
                                  Labelling!Walk(walked[d], Labelling!Seen(b, d))]
                         ELSE walked
      BY <1>2 DEF Labelling!Next
    <2>2. path \in Seq(Labelling!Shapes) /\ path' \in Seq(Labelling!Shapes) /\ Len(path) \in Nat
      BY <2>1 DEF LabelInv
    <2>3. ASSUME NEW d \in Labelling!Directions PROVE Follow(walked'[d], path', d)
      <3>1. Follow(walked[d], path, d)
        BY DEF LabelInv
      <3>2. CASE Len(path) < MaxHolding /\ ~ Ended(walked[d])
        <4>1. walked'[d] = Labelling!Walk(walked[d], Labelling!Seen(b, d))
          BY <2>1, <3>2
        <4> QED BY <2>1, <2>2, <3>1, <3>2, <4>1, FollowsOn
      <3>3. CASE Len(path) < MaxHolding /\ Ended(walked[d])
        <4>1. walked'[d] = walked[d]
          BY <2>1, <3>3 DEF Labelling!Walk, Ended
        <4>2. path # <<>>
          <5>1. walked[d].held >= 1 /\ walked[d].held <= Len(path)
            BY <3>1, <3>3 DEF Follow
          <5>2. walked[d].held \in Nat
            BY <3>1 DEF Follow, Trades
          <5>3. path = <<>> => Len(path) = 0
            OBVIOUS
          <5> QED BY <5>1, <5>2, <5>3
        <4> QED BY <2>1, <2>2, <3>1, <3>3, <4>1, <4>2, FollowStays
      <3>4. CASE ~ (Len(path) < MaxHolding)
        <4>1. walked'[d] = walked[d]
          BY <2>1, <3>4
        <4>2. path # <<>>
          BY <2>2, <3>4, LoopsAssumption
        <4>3. Ended(walked[d]) \/ walked[d].held = MaxHolding
          <5>1. ~ Ended(walked[d]) => walked[d].held = Len(path) \/ walked[d].held = MaxHolding
            BY <3>1 DEF Follow
          <5>2. walked[d].held <= MaxHolding /\ walked[d].held \in Nat /\ MaxHolding \in Nat
            BY <3>1, LoopsAssumption DEF Follow, Trades
          <5>3. Len(path) >= MaxHolding
            BY <2>2, <5>2, <3>4
          <5>4. walked[d].held = Len(path) => walked[d].held = MaxHolding
            BY <2>2, <5>2, <5>3
          <5> QED BY <5>1, <5>4
        <4> QED BY <2>1, <2>2, <3>1, <4>1, <4>2, <4>3, FollowStays
      <3> QED BY <3>2, <3>3, <3>4
    <2>4. walked' \in [Labelling!Directions -> Trades]
      <3>1. \A d \in Labelling!Directions : walked'[d] \in Trades
        BY <2>3 DEF Follow
      <3>2. walked' = [d \in Labelling!Directions |-> walked'[d]]
        BY <2>1 DEF LabelInv
      <3> QED BY <3>1, <3>2
    <2> QED BY <2>2, <2>3, <2>4 DEF LabelInv
  <1> QED BY <1>1, <1>2

LEMMA WinsAreTargets ==
    ASSUME NEW trade, trade.exit \in Exits
    PROVE  Labelling!Name(trade) = "win" => trade.exit = "profit_target"
  <1>1. CASE trade.exit = "stop"
    BY <1>1 DEF Labelling!Name, Labelling!Protective
  <1>2. CASE trade.exit \in Labelling!Protective
    <2>1. trade.exit # "profit_target" /\ trade.exit # "stop"
      BY <1>2 DEF Labelling!Protective
    <2>2. Labelling!Name(trade) = IF trade.price > 0 THEN "partial_success" ELSE "loss"
      BY <1>2, <2>1 DEF Labelling!Name
    <2> QED BY <2>2
  <1>3. CASE trade.exit \in {"", "insufficient_data", "max_holding_time"}
    <2>1. Labelling!Name(trade) = "timeout"
      BY <1>3 DEF Labelling!Name, Labelling!Protective
    <2> QED BY <2>1
  <1> QED BY <1>1, <1>2, <1>3 DEF Exits

\* What ExitsExplained says of a trade that ended on a bar after others.
Explains(trade, earlier, last) ==
    /\ trade.gap \/ trade.price \in last.low..last.high
    /\ trade.exit \notin {"event_barrier", "liquidity_barrier", "max_holding_time", "insufficient_data"}
         => trade.price >= Labelling!FixedStop
    /\ trade.price <= Labelling!ProfitTarget
    /\ \A b \in earlier : b.high < Labelling!ProfitTarget /\ b.low > Labelling!FixedStop
    /\ Labelling!Name(trade) = "win" => trade.price = Labelling!ProfitTarget
    /\ trade.exit = "trailing_stop" =>
         /\ \E b \in earlier : b.high >= Labelling!TrailActivation
         /\ \A b \in earlier : b.high >= Labelling!TrailActivation =>
                trade.price >= b.high - Labelling!TrailDistance

LEMMA FinishedExplains ==
    ASSUME NEW trade, NEW past, NEW last, Finished(trade, past, last)
    PROVE  Explains(trade, past, last)
  <1>1. trade.exit \in Exits
    BY DEF Finished, Trades
  <1>2. Labelling!Name(trade) = "win" => trade.price = Labelling!ProfitTarget
    BY <1>1, WinsAreTargets DEF Finished
  <1>3. trade.exit \notin {"event_barrier", "liquidity_barrier"} => trade.price >= Labelling!FixedStop
    BY DEF Finished
  <1> QED BY <1>2, <1>3 DEF Finished, Explains

\* The bars there are do not end the trade.
LEMMA ClosedExplains ==
    ASSUME NEW past \in SUBSET SeenBar, NEW trade, NEW last, Ordered(last),
           Running(trade, past \cup {last}), trade.close = last.close,
           NEW reason \in {"insufficient_data", "max_holding_time"}
    PROVE  LET closed == Labelling!Exit(trade, reason, trade.close, FALSE, FALSE)
           IN  closed.held = trade.held /\ Explains(closed, past, last)
  <1>1. trade \in Trades
    BY DEF Running
  <1>2. PICK close \in Int : close = trade.close
    BY <1>1 DEF Trades
  <1>3. PICK exit \in Exits : exit = reason
    BY DEF Exits
  <1> DEFINE closed == Labelling!Exit(trade, exit, close, FALSE, FALSE)
  <1>4. closed \in Trades /\ closed.exit = exit /\ closed.price = close /\ closed.held = trade.held
    BY <1>1, ExitFields
  <1>5. Labelling!Exit(trade, reason, trade.close, FALSE, FALSE) = closed
    BY <1>2, <1>3
  <1> HIDE DEF closed
  <1>6. Labelling!Name(closed) # "win"
    <2>1. closed.exit \in Exits /\ closed.exit # "profit_target"
      BY <1>3, <1>4
    <2> QED BY <2>1, WinsAreTargets
  <1>7. \A b \in past \cup {last} : b.high < 10 /\ b.low > -5
    BY Barriers DEF Running
  <1>8. close \in last.low..last.high /\ close <= 10
    BY <1>2, <1>7 DEF Ordered, SeenBar
  <1>9. closed.exit \in {"insufficient_data", "max_holding_time"}
    BY <1>3, <1>4
  <1>10. Explains(closed, past, last)
    BY <1>4, <1>6, <1>7, <1>8, <1>9, Barriers DEF Explains
  <1> QED BY <1>4, <1>5, <1>10

LEMMA LabelInvExplains == LabelInv => ExitsExplained
  <1> SUFFICES ASSUME LabelInv, NEW d \in Labelling!Directions, path # <<>>
               PROVE  LET trade == Labelling!Trade(d)
                      IN  Explains(trade, Preceding(path, d, trade.held), Labelling!Seen(path[trade.held], d))
    BY DEF ExitsExplained, Labelling!ExitsExplained, Explains, Preceding
  <1> DEFINE end == walked[d]
             n == end.held
             last == Labelling!Seen(path[n], d)
             past == Preceding(path, d, n)
  <1>1. Follow(end, path, d) /\ end \in Trades
    BY DEF LabelInv
  <1>2. n \in 1..Len(path) /\ end.close = last.close
    <2>1. n >= 1 /\ n <= Len(path)
      BY <1>1 DEF Follow
    <2>2. n \in Nat /\ Len(path) \in Nat
      BY <1>1 DEF Trades, LabelInv
    <2>3. end.close = last.close
      BY <1>1, <2>1 DEF Follow
    <2> QED BY <2>1, <2>2, <2>3
  <1>3. CASE Ended(end)
    <2>1. Labelling!Trade(d) = end
      BY <1>3 DEF Labelling!Trade, Ended
    <2>2. Finished(end, past, last)
      BY <1>1, <1>3 DEF Follow
    <2> QED BY <2>1, <2>2, FinishedExplains
  <1>4. CASE ~ Ended(end)
    <2>1. PICK reason \in {"insufficient_data", "max_holding_time"} :
              Labelling!Trade(d) = Labelling!Exit(end, reason, end.close, FALSE, FALSE)
      BY <1>4 DEF Labelling!Trade, Ended
    <2>2. path \in Seq(Labelling!Shapes)
      BY DEF LabelInv
    <2>3. past \in SUBSET SeenBar /\ Preceding(path, d, n + 1) = past \cup {last}
      BY <1>2, <2>2, BeforeGrows
    <2>4. Ordered(last)
      BY <1>2, <2>2, SeenOrdered
    <2>5. Running(end, past \cup {last})
      BY <1>1, <1>4, <2>3 DEF Follow
    <2> DEFINE closed == Labelling!Exit(end, reason, end.close, FALSE, FALSE)
    <2> HIDE DEF end, past, last
    <2>6. closed.held = n /\ Explains(closed, past, last)
      BY <1>2, <2>3, <2>4, <2>5, ClosedExplains
    <2> HIDE DEF closed
    <2>7. Labelling!Trade(d) = closed
      BY <2>1 DEF closed, end
    <2> USE DEF past, last
    <2> QED BY <2>6, <2>7
  <1> QED BY <1>3, <1>4

LEMMA LabelsProject == Spec => Labelling!Spec
  <1>1. Init => Labelling!Init
    BY DEF Init
  <1>2. [Next]_vars => [Labelling!Next]_(Labelling!vars)
    BY DEF Next, vars, labelled, Labelling!vars,
           DeliverSignals, FollowTheNews, DrawTheLine, AskTheSources, KeepTheSchedule,
           ReplayALedger, LabelATrade, ReadAChart, DecideOnACandidate, CallADependency, CallTheBroker
  <1> QED BY <1>1, <1>2, PTL DEF Spec, Labelling!Spec

LEMMA LabelInvHolds == Spec => []LabelInv
  <1>1. Labelling!Spec => []LabelInv
    BY InitLabels, LabelStep, PTL DEF Labelling!Spec
  <1> QED BY <1>1, LabelsProject, PTL

(* ExitsExplained: whatever the bars and however long the path, a label's  *)
(* exit is one the trade could have had on the first bar that touched a    *)
(* barrier, behind every trail before it (label_single_entry in            *)
(* prediction/labeling.py).                                                *)
THEOREM LabelsSafe == Spec => []ExitsExplained
  BY LabelInvHolds, LabelInvExplains, PTL

\* A bar that follows changes no label that is good enough.
LEMMA GoodLabelsStay ==
    ASSUME LabelInv, Labelling!Next, NEW d \in Labelling!Directions,
           Labelling!GoodEnough(Labelling!Trade(d))
    PROVE  Labelling!Trade(d)' = Labelling!Trade(d)
  <1>1. PICK b \in Labelling!Shapes :
          /\ path' = Append(path, b)
          /\ walked' = IF Len(path) < MaxHolding
                       THEN [e \in Labelling!Directions |->
                                Labelling!Walk(walked[e], Labelling!Seen(b, e))]
                       ELSE walked
    BY DEF Labelling!Next
  <1>2. walked[d] \in Trades /\ Len(path) \in Nat /\ Len(path') = Len(path) + 1
    BY <1>1 DEF LabelInv
  <1>3. CASE Ended(walked[d])
    <2>1. walked'[d] = walked[d]
      BY <1>1, <1>3 DEF Labelling!Walk, Ended
    <2> QED BY <1>3, <2>1 DEF Labelling!Trade, Ended
  <1>4. CASE ~ Ended(walked[d]) /\ Len(path) < MaxHolding
    <2>1. PICK exit \in Exits : exit = "insufficient_data"
      BY DEF Exits
    <2>2. PICK close \in Int : close = walked[d].close
      BY <1>2 DEF Trades
    <2> DEFINE closed == Labelling!Exit(walked[d], exit, close, FALSE, FALSE)
    <2>3. closed.exit = exit
      BY <1>2, ExitFields
    <2>4. Labelling!Trade(d) = closed
      BY <1>4, <2>1, <2>2 DEF Labelling!Trade, Ended
    <2> HIDE DEF closed
    <2>5. Labelling!Quality(closed) = 1
      BY <2>1, <2>3 DEF Labelling!Quality
    <2> QED BY <2>4, <2>5 DEF Labelling!GoodEnough
  <1>5. CASE ~ Ended(walked[d]) /\ ~ (Len(path) < MaxHolding)
    <2>1. walked' = walked
      BY <1>1, <1>5
    <2>2. ~ (Len(path') < MaxHolding)
      BY <1>2, <1>5, LoopsAssumption
    <2> QED BY <1>5, <2>1, <2>2 DEF Labelling!Trade, Ended
  <1> QED BY <1>3, <1>4, <1>5

(* LabelsSettle: a label good enough to train on is final, whatever bars   *)
(* follow (label_single_entry and MIN_LABEL_QUALITY of                     *)
(* prediction/ensemble.py).                                                *)
THEOREM SettleSafe == Spec => LabelsSettle
  <1>1. LabelInv /\ [Next]_vars => [path' # path => Labelling!Settled]_path
    <2> SUFFICES ASSUME LabelInv, [Next]_vars, path' # path PROVE Labelling!Settled
      OBVIOUS
    <2>1. Labelling!Next
      BY DEF Next, vars, labelled,
             DeliverSignals, FollowTheNews, DrawTheLine, AskTheSources, KeepTheSchedule,
             ReplayALedger, LabelATrade, ReadAChart, DecideOnACandidate, CallADependency, CallTheBroker
    <2> QED BY <2>1, GoodLabelsStay DEF Labelling!Settled
  <1> QED BY <1>1, LabelInvHolds, PTL DEF Spec, LabelsSettle

-----------------------------------------------------------------------------
(* The signals of overlapping requests.                                    *)

Rows == [symbol : Symbols, direction : Signalling!Directions, at : Nat]

\* A call in progress; its flag says whether the request filters.
SignalCalls == [pc : {"idle", "ranking", "filtering", "answering"}, filters : BOOLEAN, at : Nat,
          batch : Seq(Signal), kept : Seq(Signal), suppressed : SUBSET Signal, overlap : SUBSET Nat]

Delivered == [symbol : Symbols, direction : Signalling!Directions, at : Nat, overlap : SUBSET Nat]

Busy(c) == c.pc # "idle"

RowIn(rs, s, at) == \E i \in DOMAIN rs : rs[i] = Signalling!Row(s, at)

Following(rs, i) == {j \in DOMAIN rs : j > i /\ rs[j].symbol = rs[i].symbol}

\* OutOfSight, of any rows.
Out(rs, k, at, overlap) ==
    \E i \in DOMAIN rs :
        /\ rs[i] = Signalling!Row(k, k.at)
        /\ Cardinality({j \in Following(rs, i) : rs[j].at <= at \/ rs[j].at \in overlap}) >= HistoryLimit

\* KeptApart of a signal delivered and one of a request.
Apart(rs, d, s, at, overlap) ==
    d.symbol = s.symbol /\ d.direction = s.direction /\ d.at < at /\ at - d.at <= Cooldown
      => d.at \in overlap \/ Out(rs, d, at, overlap)

\* BatchDiverse and SuppressedForCause of one call.
Redundant(s, t) ==
    \/ MaxPerSector = 1 /\ Signalling!SameSector(s, t)
    \/ Signalling!IsBreakout(s) /\ Signalling!IsBreakout(t)
    \/ {s.symbol, t.symbol} \in Correlated

Diverse(list) == \A i, j \in DOMAIN list : i < j => ~ Redundant(list[i], list[j])

CausedBy(rs, list, at, s) ==
    \/ \E i \in DOMAIN list : \/ Signalling!SameSector(s, list[i])
                              \/ Signalling!IsBreakout(s) /\ Signalling!IsBreakout(list[i])
                              \/ {s.symbol, list[i].symbol} \in Correlated
    \/ \E i \in DOMAIN rs : /\ rs[i].symbol = s.symbol /\ rs[i].direction = s.direction
                            /\ rs[i].at < at /\ at - rs[i].at <= Cooldown

Caused(rs, c) == \A s \in c.suppressed : CausedBy(rs, c.kept, c.at, s)

\* What holds of each call by itself.
CallSound(rs, c) ==
    /\ \A i \in DOMAIN c.batch : RowIn(rs, c.batch[i], c.at)
    /\ \A i \in DOMAIN c.kept : RowIn(rs, c.kept[i], c.at)
    /\ Busy(c) => \A i \in DOMAIN rs : rs[i].at <= c.at \/ rs[i].at \in c.overlap
    /\ Diverse(c.kept)
    /\ Caused(rs, c)
    /\ Busy(c) \/ DOMAIN c.kept = {}

SignalsType ==
    /\ asOf \in Nat
    /\ ranked \in Seq(Rows)
    /\ call \in [Requests -> SignalCalls]
    /\ delivered \in SUBSET Delivered

Bygone ==
    /\ \A i \in DOMAIN ranked : ranked[i].at <= asOf
    /\ \A r \in Requests : call[r].at <= asOf
    /\ \A l \in delivered : l.at <= asOf

\* Requests in progress overlap, and a signal's those begun before it that still are.
Overlapping ==
    /\ \A p, q \in Requests : p # q /\ Busy(call[p]) /\ Busy(call[q]) => call[p].at \in call[q].overlap
    /\ \A p \in Requests : \A l \in delivered :
           Busy(call[p]) /\ call[p].at < l.at => call[p].at \in l.overlap

Soundness ==
    /\ \A r \in Requests : CallSound(ranked, call[r])
    /\ \A l \in delivered : RowIn(ranked, l, l.at)

Separate ==
    /\ \A r \in Requests : \A i \in DOMAIN call[r].kept : \A d \in delivered :
           Apart(ranked, d, call[r].kept[i], call[r].at, call[r].overlap)
    /\ \A k, l \in delivered : Apart(ranked, k, l, l.at, l.overlap)

SignalsInv == SignalsType /\ Bygone /\ Overlapping /\ Soundness /\ Separate

LEMMA SignallingCardinality == \A S : Signalling!Cardinality(S) = Cardinality(S)
  BY DEF Signalling!Cardinality, Cardinality

LEMMA SignallingRange == \A f : Signalling!Range(f) = {f[x] : x \in DOMAIN f}
  BY DEF Signalling!Range

LEMMA SignalsAreRanked == \A s \in Signal : s.symbol \in Symbols /\ s.direction \in Signalling!Directions
  BY SignalsAssumption DEF Signalling!Directions

\* Rows that others follow.
Extended(rs, more) == Len(rs) <= Len(more) /\ \A i \in 1..Len(rs) : more[i] = rs[i]

LEMMA RowStays ==
    ASSUME NEW rs \in Seq(Rows), NEW more \in Seq(Rows), Extended(rs, more),
           NEW s, NEW at, RowIn(rs, s, at)
    PROVE  RowIn(more, s, at)
  <1>1. DOMAIN rs = 1..Len(rs) /\ DOMAIN more = 1..Len(more) /\ Len(rs) \in Nat /\ Len(more) \in Nat
    OBVIOUS
  <1> QED BY <1>1 DEF RowIn, Extended

LEMMA OutStays ==
    ASSUME NEW rs \in Seq(Rows), NEW more \in Seq(Rows), Extended(rs, more),
           NEW k, NEW at, NEW overlap, NEW wider, overlap \subseteq wider,
           Out(rs, k, at, overlap)
    PROVE  Out(more, k, at, wider)
  <1>1. /\ DOMAIN rs = 1..Len(rs) /\ DOMAIN more = 1..Len(more) /\ Len(rs) \in Nat /\ Len(more) \in Nat
        /\ Len(rs) <= Len(more) /\ \A i \in 1..Len(rs) : more[i] = rs[i]
    BY DEF Extended
  <1>2. PICK i \in DOMAIN rs :
          /\ rs[i] = Signalling!Row(k, k.at)
          /\ Cardinality({j \in Following(rs, i) : rs[j].at <= at \/ rs[j].at \in overlap}) >= HistoryLimit
    BY DEF Out
  <1> DEFINE few == {j \in Following(rs, i) : rs[j].at <= at \/ rs[j].at \in overlap}
             many == {j \in Following(more, i) : more[j].at <= at \/ more[j].at \in wider}
  <1>3. i \in 1..Len(more) /\ more[i] = rs[i]
    BY <1>1, <1>2
  <1>4. few \subseteq many
    <2> SUFFICES ASSUME NEW j \in few PROVE j \in many
      OBVIOUS
    <2>1. j \in 1..Len(rs) /\ j \in 1..Len(more) /\ more[j] = rs[j]
      BY <1>1 DEF Following
    <2> QED BY <1>1, <1>3, <2>1 DEF Following
  <1>5. IsFiniteSet(many)
    <2>1. many \subseteq 1..Len(more)
      BY <1>1 DEF Following
    <2>2. IsFiniteSet(1..Len(more))
      <3>1. 1 \in Int /\ Len(more) \in Int
        BY <1>1
      <3> QED BY <3>1, FS_Interval
    <2> QED BY <2>1, <2>2, FS_Subset
  <1> HIDE DEF few, many
  <1>6. Cardinality(few) <= Cardinality(many) /\ Cardinality(few) \in Nat /\ Cardinality(many) \in Nat
    BY <1>4, <1>5, FS_Subset, FS_CardinalityType
  <1>7. HistoryLimit \in Nat /\ Cardinality(few) >= HistoryLimit
    BY <1>2, SignalsAssumption DEF few
  <1>8. Cardinality(many) >= HistoryLimit
    BY <1>6, <1>7
  <1> QED BY <1>1, <1>2, <1>3, <1>8 DEF many, Out

LEMMA ApartStays ==
    ASSUME NEW rs \in Seq(Rows), NEW more \in Seq(Rows), Extended(rs, more),
           NEW d, NEW s, NEW at, NEW overlap, NEW wider, overlap \subseteq wider,
           Apart(rs, d, s, at, overlap)
    PROVE  Apart(more, d, s, at, wider)
  BY OutStays DEF Apart

LEMMA CausedStays ==
    ASSUME NEW rs \in Seq(Rows), NEW more \in Seq(Rows), Extended(rs, more), NEW c, Caused(rs, c)
    PROVE  Caused(more, c)
  <1>1. DOMAIN rs = 1..Len(rs) /\ DOMAIN more = 1..Len(more) /\ Len(rs) \in Nat /\ Len(more) \in Nat
    OBVIOUS
  <1>2. \A i \in DOMAIN rs : i \in DOMAIN more /\ more[i] = rs[i]
    BY <1>1 DEF Extended
  <1> QED BY <1>2 DEF Caused, CausedBy

LEMMA IdleSound ==
    /\ Signalling!Idle \in SignalCalls /\ ~ Busy(Signalling!Idle)
    /\ Signalling!Idle.at = 0 /\ DOMAIN Signalling!Idle.kept = {}
    /\ \A rs : CallSound(rs, Signalling!Idle)
  <1>1. /\ Signalling!Idle \in SignalCalls /\ Signalling!Idle.pc = "idle" /\ Signalling!Idle.at = 0
        /\ Signalling!Idle.batch = <<>> /\ Signalling!Idle.kept = <<>> /\ Signalling!Idle.suppressed = {}
    BY DEF Signalling!Idle, SignalCalls
  <1>2. DOMAIN Signalling!Idle.kept = {} /\ DOMAIN Signalling!Idle.batch = {}
    BY <1>1
  <1> QED BY <1>1, <1>2 DEF CallSound, Busy, Diverse, Caused

\* What a step of one call keeps: the rows' ages, what the others know of them, and the
\* call itself, ended or where it was scanned.
RowsBy(rs, t) == \A i \in DOMAIN rs : rs[i].at <= t

RowsKnown(rs, c) == Busy(c) => \A i \in DOMAIN rs : rs[i].at <= c.at \/ rs[i].at \in c.overlap

Closed(c) == ~ Busy(c) /\ c.at = 0 /\ DOMAIN c.kept = {}

Onward(old, c) == Closed(c) \/ (Busy(old) /\ c.at = old.at /\ c.overlap = old.overlap)

KeptSeparate(rs, c, ds) ==
    \A i \in DOMAIN c.kept : \A d \in ds : Apart(rs, d, c.kept[i], c.at, c.overlap)

\* One call goes on, or ends; rows may be stored.
LEMMA OneCall ==
    ASSUME SignalsInv, NEW r \in Requests, NEW c \in SignalCalls,
           call' = [call EXCEPT ![r] = c], asOf' = asOf, delivered' = delivered,
           ranked' \in Seq(Rows), Extended(ranked, ranked'),
           RowsBy(ranked', asOf), \A q \in Requests : RowsKnown(ranked', call[q]),
           Onward(call[r], c), CallSound(ranked', c), KeptSeparate(ranked', c, delivered)
    PROVE  SignalsInv'
  <1>1. /\ SignalsType /\ Bygone /\ Overlapping /\ Soundness /\ Separate
        /\ ranked \in Seq(Rows) /\ asOf \in Nat
    BY DEF SignalsInv, SignalsType
  <1>2. call'[r] = c /\ \A q \in Requests : q # r => call'[q] = call[q]
    BY <1>1 DEF SignalsType
  <1>3. SignalsType'
    BY <1>1 DEF SignalsType
  <1>4. Bygone'
    <2>1. c.at <= asOf
      BY <1>1 DEF Bygone, Onward, Closed
    <2> QED BY <1>1, <1>2, <2>1 DEF Bygone, RowsBy
  <1>5. Overlapping'
    <2>1. Busy(c) => Busy(call[r]) /\ c.at = call[r].at /\ c.overlap = call[r].overlap
      BY DEF Onward, Closed
    <2> QED BY <1>1, <1>2, <2>1 DEF Overlapping
  <1>6. Soundness'
    <2>1. ASSUME NEW q \in Requests, q # r PROVE CallSound(ranked', call[q])
      <3>1. CallSound(ranked, call[q])
        BY <1>1 DEF Soundness
      <3>2. /\ \A i \in DOMAIN call[q].batch : RowIn(ranked', call[q].batch[i], call[q].at)
            /\ \A i \in DOMAIN call[q].kept : RowIn(ranked', call[q].kept[i], call[q].at)
        BY <1>1, <3>1, RowStays DEF CallSound
      <3>3. Caused(ranked', call[q])
        BY <1>1, <3>1, CausedStays DEF CallSound
      <3> QED BY <3>1, <3>2, <3>3 DEF CallSound, RowsKnown
    <2>2. \A l \in delivered : RowIn(ranked', l, l.at)
      BY <1>1, RowStays DEF Soundness
    <2> QED BY <1>2, <2>1, <2>2 DEF Soundness
  <1>7. Separate'
    <2>1. ASSUME NEW q \in Requests, q # r, NEW i \in DOMAIN call[q].kept, NEW d \in delivered
          PROVE  Apart(ranked', d, call[q].kept[i], call[q].at, call[q].overlap)
      BY <1>1, ApartStays DEF Separate
    <2>2. ASSUME NEW k \in delivered, NEW l \in delivered PROVE Apart(ranked', k, l, l.at, l.overlap)
      BY <1>1, ApartStays DEF Separate
    <2> QED BY <1>2, <2>1, <2>2 DEF Separate, KeptSeparate
  <1> QED BY <1>3, <1>4, <1>5, <1>6, <1>7 DEF SignalsInv

LEMMA SameRows == \A rs \in Seq(Rows) : Extended(rs, rs)
  BY DEF Extended

LEMMA RowsAreDated ==
    \A rs \in Seq(Rows) : \A i \in DOMAIN rs : rs[i] \in Rows /\ rs[i].at \in Nat
  <1> SUFFICES ASSUME NEW rs \in Seq(Rows), NEW i \in DOMAIN rs PROVE rs[i] \in Rows /\ rs[i].at \in Nat
    OBVIOUS
  <1>1. rs[i] \in Rows
    OBVIOUS
  <1> QED BY <1>1 DEF Rows

LEMMA FailsKeeps == ASSUME SignalsInv, NEW r \in Requests, Signalling!Fails(r) PROVE SignalsInv'
  <1>1. /\ call' = [call EXCEPT ![r] = Signalling!Idle] /\ asOf' = asOf /\ ranked' = ranked
        /\ delivered' = delivered
    BY DEF Signalling!Fails
  <1>2. ranked \in Seq(Rows) /\ Bygone /\ Soundness
    BY DEF SignalsInv, SignalsType
  <1>3. Extended(ranked, ranked') /\ ranked' \in Seq(Rows)
    BY <1>1, <1>2, SameRows
  <1>4. RowsBy(ranked', asOf) /\ \A q \in Requests : RowsKnown(ranked', call[q])
    BY <1>1, <1>2 DEF Bygone, Soundness, CallSound, RowsBy, RowsKnown
  <1>5. PICK c \in SignalCalls : c = Signalling!Idle
    BY IdleSound
  <1>6. /\ Onward(call[r], c) /\ CallSound(ranked', c) /\ KeptSeparate(ranked', c, delivered)
        /\ call' = [call EXCEPT ![r] = c]
    BY <1>1, <1>5, IdleSound DEF Onward, Closed, KeptSeparate
  <1> QED BY <1>1, <1>3, <1>4, <1>6, OneCall

LEMMA ScanKeeps ==
    ASSUME SignalsInv, NEW r \in Requests, NEW filters \in BOOLEAN, Signalling!Scan(r, filters)
    PROVE  SignalsInv'
  <1> DEFINE t == asOf + 1
             others == {call[p].at : p \in Signalling!InProgress}
             fresh == [Signalling!Idle EXCEPT !.pc = "ranking", !.filters = filters, !.at = t,
                                              !.overlap = others]
             Wider(c) == [c EXCEPT !.overlap = c.overlap \cup {t}]
  <1>1. /\ SignalsType /\ Bygone /\ Overlapping /\ Soundness /\ Separate
        /\ ranked \in Seq(Rows) /\ asOf \in Nat /\ call \in [Requests -> SignalCalls]
    BY DEF SignalsInv, SignalsType
  <1>2. /\ ~ Busy(call[r]) /\ asOf' = t /\ ranked' = ranked /\ delivered' = delivered
        /\ call' = [q \in Requests |-> IF q = r THEN fresh
                                       ELSE IF q \in Signalling!InProgress THEN Wider(call[q]) ELSE call[q]]
    BY DEF Signalling!Scan, Busy
  <1>3. \A q \in Requests : q \in Signalling!InProgress <=> Busy(call[q])
    BY DEF Signalling!InProgress, Busy
  <1>4. others \in SUBSET Nat
    BY <1>1 DEF SignalCalls, Signalling!InProgress
  <1>5. \A p \in Requests : Busy(call[p]) => call[p].at \in others
    BY <1>3
  <1>6. t \in Nat /\ asOf <= t
    BY <1>1
  <1>7. /\ fresh.at = t /\ fresh.overlap = others /\ fresh.batch = <<>> /\ fresh.kept = <<>>
        /\ fresh.suppressed = {} /\ fresh \in SignalCalls
    <2> HIDE DEF t, others
    <2>1. PICK time \in Nat : time = t
      BY <1>6
    <2>2. PICK over \in SUBSET Nat : over = others
      BY <1>4
    <2> DEFINE c0 == Signalling!Idle
               c1 == [c0 EXCEPT !.pc = "ranking"]
               c2 == [c1 EXCEPT !.filters = filters]
               c3 == [c2 EXCEPT !.at = time]
               c4 == [c3 EXCEPT !.overlap = over]
    <2>3. fresh = c4
      BY <2>1, <2>2, Zenon
    <2>4. c0 \in SignalCalls /\ c0.batch = <<>> /\ c0.kept = <<>> /\ c0.suppressed = {}
      BY DEF SignalCalls, Signalling!Idle
    <2> HIDE DEF c0, fresh
    <2>5. c1 \in SignalCalls /\ c1.pc = "ranking" /\ c1.batch = <<>> /\ c1.kept = <<>> /\ c1.suppressed = {}
      BY <2>4 DEF SignalCalls
    <2> HIDE DEF c1
    <2>6. c2 \in SignalCalls /\ c2.pc = "ranking" /\ c2.batch = <<>> /\ c2.kept = <<>> /\ c2.suppressed = {}
      BY <2>5 DEF SignalCalls
    <2> HIDE DEF c2
    <2>7. /\ c3 \in SignalCalls /\ c3.pc = "ranking" /\ c3.batch = <<>> /\ c3.kept = <<>> /\ c3.suppressed = {}
          /\ c3.at = time
      BY <2>6 DEF SignalCalls
    <2> HIDE DEF c3
    <2>8. /\ c4 \in SignalCalls /\ c4.pc = "ranking" /\ c4.batch = <<>> /\ c4.kept = <<>> /\ c4.suppressed = {}
          /\ c4.at = time /\ c4.overlap = over
      BY <2>7 DEF SignalCalls
    <2> HIDE DEF c4
    <2> QED BY <2>1, <2>2, <2>3, <2>8
  <1>8. \A c \in SignalCalls : /\ Wider(c).pc = c.pc /\ Wider(c).at = c.at /\ Wider(c).batch = c.batch
                         /\ Wider(c).kept = c.kept /\ Wider(c).suppressed = c.suppressed
                         /\ Wider(c).overlap = c.overlap \cup {t} /\ Wider(c) \in SignalCalls
    BY <1>6 DEF SignalCalls
  <1> HIDE DEF others, fresh, Wider, t
  <1>9. \A q \in Requests : q # r => /\ call'[q].pc = call[q].pc /\ call'[q].at = call[q].at
                                     /\ call'[q].batch = call[q].batch /\ call'[q].kept = call[q].kept
                                     /\ call'[q].suppressed = call[q].suppressed
                                     /\ call[q].overlap \subseteq call'[q].overlap
                                     /\ Busy(call[q]) => t \in call'[q].overlap
                                     /\ call'[q] \in SignalCalls
    BY <1>1, <1>2, <1>3, <1>8
  <1>10. call'[r] = fresh
    BY <1>2
  <1>11. SignalsType'
    <2>1. \A q \in Requests : call'[q] \in SignalCalls
      BY <1>7, <1>9, <1>10
    <2>2. call' = [q \in Requests |-> call'[q]]
      BY <1>2
    <2>3. call' \in [Requests -> SignalCalls]
      BY <2>1, <2>2
    <2> QED BY <1>1, <1>2, <1>6, <2>3 DEF SignalsType
  <1>12. Bygone'
    <2>1. \A i \in DOMAIN ranked : ranked[i].at \in Nat
      BY <1>1, RowsAreDated
    <2>2. \A l \in delivered : l.at \in Nat
      BY <1>1 DEF SignalsType, Delivered
    <2>3. \A q \in Requests : call[q].at \in Nat /\ call[q].at <= asOf
      BY <1>1 DEF SignalCalls, Bygone
    <2>4. \A q \in Requests : call'[q].at <= t
      BY <1>1, <1>6, <1>7, <1>9, <1>10, <2>3 DEF t
    <2>5. \A i \in DOMAIN ranked : ranked[i].at <= t
      BY <1>1, <2>1 DEF Bygone, t
    <2>6. \A l \in delivered : l.at <= t
      BY <1>1, <2>2 DEF Bygone, t
    <2> QED BY <1>2, <2>4, <2>5, <2>6 DEF Bygone
  <1>13. Overlapping'
    <2>1. ASSUME NEW p \in Requests, NEW q \in Requests, p # q, Busy(call'[p]), Busy(call'[q])
          PROVE  call'[p].at \in call'[q].overlap
      <3>1. CASE q = r
        <4>1. Busy(call[p]) /\ call'[p].at = call[p].at
          BY <2>1, <3>1, <1>9 DEF Busy
        <4> QED BY <3>1, <4>1, <1>5, <1>7, <1>10
      <3>2. CASE p = r
        <4>1. Busy(call[q])
          BY <2>1, <3>2, <1>9 DEF Busy
        <4> QED BY <2>1, <3>2, <4>1, <1>7, <1>9, <1>10
      <3>3. CASE p # r /\ q # r
        <4>1. Busy(call[p]) /\ Busy(call[q])
          BY <2>1, <3>3, <1>9 DEF Busy
        <4>2. call[p].at \in call[q].overlap
          BY <2>1, <4>1, <1>1 DEF Overlapping
        <4> QED BY <3>3, <4>2, <1>9
      <3> QED BY <3>1, <3>2, <3>3
    <2>2. ASSUME NEW p \in Requests, NEW l \in delivered, Busy(call'[p]), call'[p].at < l.at
          PROVE  call'[p].at \in l.overlap
      <3>1. p # r
        <4>1. l.at \in Nat /\ l.at <= asOf
          BY <1>1 DEF Bygone, SignalsType, Delivered
        <4> QED BY <2>2, <4>1, <1>1, <1>7, <1>10 DEF t
      <3>2. Busy(call[p]) /\ call'[p].at = call[p].at
        BY <2>2, <3>1, <1>9 DEF Busy
      <3> QED BY <2>2, <3>2, <1>1 DEF Overlapping
    <2> QED BY <1>2, <2>1, <2>2 DEF Overlapping
  <1>14. Soundness'
    <2>1. CallSound(ranked, fresh)
      <3>1. DOMAIN fresh.batch = {} /\ DOMAIN fresh.kept = {}
        BY <1>7
      <3>2. \A i \in DOMAIN ranked : ranked[i].at <= fresh.at
        <4>1. \A i \in DOMAIN ranked : ranked[i].at \in Nat /\ ranked[i].at <= asOf
          BY <1>1, RowsAreDated DEF Bygone
        <4> QED BY <4>1, <1>1, <1>7 DEF t
      <3> QED BY <3>1, <3>2, <1>7 DEF CallSound, Diverse, Caused
    <2>2. ASSUME NEW q \in Requests, q # r PROVE CallSound(ranked, call'[q])
      <3>1. CallSound(ranked, call[q])
        BY <1>1 DEF Soundness
      <3>2. Caused(ranked, call'[q])
        <4>1. Caused(ranked, call[q])
          BY <3>1 DEF CallSound
        <4> QED BY <2>2, <4>1, <1>9 DEF Caused
      <3>3. Busy(call'[q]) => \A i \in DOMAIN ranked : \/ ranked[i].at <= call'[q].at
                                                       \/ ranked[i].at \in call'[q].overlap
        BY <2>2, <3>1, <1>9 DEF CallSound, Busy
      <3>4. /\ \A i \in DOMAIN call'[q].batch : RowIn(ranked, call'[q].batch[i], call'[q].at)
            /\ \A i \in DOMAIN call'[q].kept : RowIn(ranked, call'[q].kept[i], call'[q].at)
            /\ Diverse(call'[q].kept)
        BY <2>2, <3>1, <1>9 DEF CallSound
      <3>5. Busy(call'[q]) \/ DOMAIN call'[q].kept = {}
        BY <2>2, <3>1, <1>9 DEF CallSound, Busy
      <3> QED BY <3>2, <3>3, <3>4, <3>5 DEF CallSound
    <2> QED BY <1>1, <1>2, <1>10, <2>1, <2>2 DEF Soundness
  <1>15. Separate'
    <2>1. Extended(ranked, ranked)
      BY <1>1, SameRows
    <2>2. ASSUME NEW q \in Requests, NEW i \in DOMAIN call'[q].kept, NEW d \in delivered
          PROVE  Apart(ranked, d, call'[q].kept[i], call'[q].at, call'[q].overlap)
      <3>1. q # r
        BY <1>7, <1>10
      <3>2. Apart(ranked, d, call[q].kept[i], call[q].at, call[q].overlap) /\ i \in DOMAIN call[q].kept
        BY <3>1, <1>1, <1>9 DEF Separate
      <3>3. Apart(ranked, d, call[q].kept[i], call[q].at, call'[q].overlap)
        BY <2>1, <3>1, <3>2, <1>1, <1>9, ApartStays
      <3> QED BY <3>1, <3>3, <1>9
    <2> QED BY <1>1, <1>2, <2>2 DEF Separate
  <1> QED BY <1>11, <1>12, <1>13, <1>14, <1>15 DEF SignalsInv

\* A call that ranked, or has a signal less to go: what it says of its batch and its list.
LEMMA CallOnward ==
    ASSUME NEW rs \in Seq(Rows), NEW more \in Seq(Rows), Extended(rs, more),
           NEW old \in SignalCalls, NEW c \in SignalCalls, CallSound(rs, old), RowsKnown(more, c), Busy(c),
           \A i \in DOMAIN c.batch : RowIn(more, c.batch[i], c.at),
           c.at = old.at, c.kept = old.kept, c.suppressed = old.suppressed
    PROVE  CallSound(more, c)
  <1>1. \A i \in DOMAIN c.kept : RowIn(more, c.kept[i], c.at)
    BY RowStays DEF CallSound
  <1>2. Caused(more, c)
    <2>1. Caused(more, old)
      BY CausedStays DEF CallSound
    <2> QED BY <2>1 DEF Caused
  <1>3. Diverse(c.kept)
    BY DEF CallSound
  <1> QED BY <1>1, <1>2, <1>3 DEF CallSound, RowsKnown

LEMMA BatchesAreSequences == \A batch \in Signalling!Batches : batch \in Seq(Signal)
  BY DEF Signalling!Batches

LEMMA Concatenated ==
    \A rs, more \in Seq(Rows) :
        /\ rs \o more \in Seq(Rows) /\ Len(rs \o more) = Len(rs) + Len(more)
        /\ \A i \in 1..Len(rs) : (rs \o more)[i] = rs[i]
        /\ \A i \in 1..Len(more) : (rs \o more)[Len(rs) + i] = more[i]
        /\ Len(rs) \in Nat /\ Len(more) \in Nat
  OBVIOUS

LEMMA RankKeeps == ASSUME SignalsInv, NEW r \in Requests, Signalling!Rank(r) PROVE SignalsInv'
  <1>1. /\ SignalsType /\ Bygone /\ Overlapping /\ Soundness /\ Separate
        /\ ranked \in Seq(Rows) /\ asOf \in Nat /\ call[r] \in SignalCalls
    BY DEF SignalsInv, SignalsType
  <1> DEFINE Stored(batch) == [i \in DOMAIN batch |-> Signalling!Row(batch[i], call[r].at)]
  <1>2. PICK batch \in Signalling!Batches :
          /\ ranked' = ranked \o Stored(batch)
          /\ call' = [call EXCEPT ![r] =
                        IF call[r].filters THEN [call[r] EXCEPT !.pc = "filtering", !.batch = batch]
                        ELSE Signalling!Idle]
    BY DEF Signalling!Rank
  <1>3. Busy(call[r]) /\ asOf' = asOf /\ delivered' = delivered
    BY DEF Signalling!Rank, Busy
  <1>4. batch \in Seq(Signal)
    BY BatchesAreSequences
  <1> DEFINE added == Stored(batch)
  <1>5. /\ added \in Seq(Rows) /\ Len(added) = Len(batch)
        /\ \A i \in 1..Len(added) : added[i] = Signalling!Row(batch[i], call[r].at)
    <2>1. DOMAIN batch = 1..Len(batch) /\ Len(batch) \in Nat
      BY <1>4
    <2>2. call[r].at \in Nat
      BY <1>1 DEF SignalCalls
    <2>3. \A i \in 1..Len(batch) : Signalling!Row(batch[i], call[r].at) \in Rows
      <3> SUFFICES ASSUME NEW i \in 1..Len(batch) PROVE Signalling!Row(batch[i], call[r].at) \in Rows
        OBVIOUS
      <3>1. batch[i] \in Signal
        BY <1>4
      <3>2. batch[i].symbol \in Symbols /\ batch[i].direction \in Signalling!Directions
        BY <3>1, SignalsAreRanked
      <3> QED BY <2>2, <3>2 DEF Signalling!Row, Rows
    <2> QED BY <2>1, <2>3
  <1> HIDE DEF added
  <1>6. /\ ranked' \in Seq(Rows) /\ Len(ranked') = Len(ranked) + Len(added)
        /\ \A i \in 1..Len(ranked) : ranked'[i] = ranked[i]
        /\ \A i \in 1..Len(added) : ranked'[Len(ranked) + i] = added[i]
        /\ Len(ranked) \in Nat /\ Len(added) \in Nat
    <2>1. ranked' = ranked \o added
      BY <1>2 DEF added
    <2> QED BY <2>1, <1>1, <1>5, Concatenated, Zenon
  <1>7. Extended(ranked, ranked')
    BY <1>6 DEF Extended
  <1>8. \A j \in DOMAIN ranked' : ranked'[j].at = call[r].at
                                    \/ \E i \in DOMAIN ranked : ranked'[j] = ranked[i]
    <2> SUFFICES ASSUME NEW j \in DOMAIN ranked', ~ \E i \in DOMAIN ranked : ranked'[j] = ranked[i]
                 PROVE  ranked'[j].at = call[r].at
      OBVIOUS
    <2>1. DOMAIN ranked' = 1..Len(ranked') /\ DOMAIN ranked = 1..Len(ranked)
      BY <1>1, <1>6
    <2>2. ~ (j <= Len(ranked))
      BY <1>6, <2>1
    <2>3. j - Len(ranked) \in 1..Len(added) /\ Len(ranked) + (j - Len(ranked)) = j
      BY <1>6, <2>1, <2>2
    <2>4. ranked'[j] = added[j - Len(ranked)]
      BY <1>6, <2>3
    <2>5. ranked'[j] = Signalling!Row(batch[j - Len(ranked)], call[r].at)
      BY <1>5, <2>3, <2>4
    <2> QED BY <2>5 DEF Signalling!Row
  <1>9. RowsBy(ranked', asOf)
    BY <1>1, <1>8 DEF Bygone, RowsBy
  <1>10. \A q \in Requests : RowsKnown(ranked', call[q])
    <2> SUFFICES ASSUME NEW q \in Requests, Busy(call[q]), NEW j \in DOMAIN ranked'
                 PROVE  ranked'[j].at <= call[q].at \/ ranked'[j].at \in call[q].overlap
      BY DEF RowsKnown
    <2>1. CASE ranked'[j].at = call[r].at
      <3>1. CASE q = r
        <4>1. call[r].at \in Nat
          BY <1>1 DEF SignalCalls
        <4> QED BY <2>1, <3>1, <4>1
      <3>2. CASE q # r
        BY <1>1, <1>3, <2>1, <3>2 DEF Overlapping
      <3> QED BY <3>1, <3>2
    <2>2. CASE \E i \in DOMAIN ranked : ranked'[j] = ranked[i]
      BY <1>1, <2>2 DEF Soundness, CallSound
    <2> QED BY <1>8, <2>1, <2>2
  <1>11. \A i \in DOMAIN batch : RowIn(ranked', batch[i], call[r].at)
    <2> SUFFICES ASSUME NEW i \in DOMAIN batch PROVE RowIn(ranked', batch[i], call[r].at)
      OBVIOUS
    <2>1. i \in 1..Len(added)
      BY <1>4, <1>5
    <2>2. Len(ranked) + i \in DOMAIN ranked'
      BY <1>6, <2>1
    <2>3. ranked'[Len(ranked) + i] = Signalling!Row(batch[i], call[r].at)
      BY <1>5, <1>6, <2>1
    <2> QED BY <2>2, <2>3 DEF RowIn
  <1>12. CASE ~ call[r].filters
    <2>1. PICK c \in SignalCalls : c = Signalling!Idle
      BY IdleSound
    <2>2. /\ Onward(call[r], c) /\ CallSound(ranked', c) /\ KeptSeparate(ranked', c, delivered)
          /\ call' = [call EXCEPT ![r] = c]
      BY <1>2, <1>12, <2>1, IdleSound DEF Onward, Closed, KeptSeparate
    <2> QED BY <1>3, <1>6, <1>7, <1>9, <1>10, <2>2, OneCall
  <1>13. CASE call[r].filters
    <2> DEFINE c1 == [call[r] EXCEPT !.pc = "filtering"]
               c2 == [c1 EXCEPT !.batch = batch]
    <2>1. call' = [call EXCEPT ![r] = c2]
      BY <1>2, <1>13, Zenon
    <2>2. /\ c1 \in SignalCalls /\ c1.pc = "filtering" /\ c1.at = call[r].at /\ c1.kept = call[r].kept
          /\ c1.suppressed = call[r].suppressed /\ c1.overlap = call[r].overlap
      BY <1>1 DEF SignalCalls
    <2> HIDE DEF c1
    <2>3. /\ c2 \in SignalCalls /\ c2.pc = "filtering" /\ c2.at = call[r].at /\ c2.kept = call[r].kept
          /\ c2.suppressed = call[r].suppressed /\ c2.overlap = call[r].overlap /\ c2.batch = batch
      BY <1>4, <2>2 DEF SignalCalls
    <2> HIDE DEF c2
    <2>4. Onward(call[r], c2)
      BY <1>3, <2>3 DEF Onward
    <2>5. RowsKnown(ranked', c2)
      BY <1>3, <1>10, <2>3 DEF RowsKnown
    <2>6. CallSound(ranked', c2)
      <3>1. CallSound(ranked, call[r])
        BY <1>1 DEF Soundness
      <3>2. \A i \in DOMAIN c2.batch : RowIn(ranked', c2.batch[i], c2.at)
        BY <1>11, <2>3
      <3>3. Busy(c2)
        BY <2>3 DEF Busy
      <3> QED BY <1>1, <1>6, <1>7, <2>3, <2>5, <3>1, <3>2, <3>3, CallOnward
    <2>7. KeptSeparate(ranked', c2, delivered)
      <3>1. \A i \in DOMAIN call[r].kept : \A d \in delivered :
              Apart(ranked', d, call[r].kept[i], call[r].at, call[r].overlap)
        BY <1>1, <1>6, <1>7, ApartStays DEF Separate
      <3> QED BY <2>3, <3>1 DEF KeptSeparate
    <2> QED BY <1>3, <1>6, <1>7, <1>9, <1>10, <2>1, <2>3, <2>4, <2>6, <2>7, OneCall
  <1> QED BY <1>12, <1>13

\* What speaks against the next signal.
Against(c, signal) ==
    \/ Signalling!Repeated(signal, c.at)
    \/ Signalling!CorrelatedWithAny(signal, c.kept)
    \/ Signalling!BreakoutKept(c, signal)
    \/ Signalling!SectorFull(c, signal)

InSector(list, s) ==
    {k \in Signalling!Range(list) : k.symbol \in DOMAIN Sector /\ Sector[k.symbol] = Sector[s.symbol]}

LEMMA RangeIs == \A f, k : k \in Signalling!Range(f) <=> \E i \in DOMAIN f : k = f[i]
  BY SignallingRange

LEMMA SectorFullIs ==
    \A c, s : Signalling!SectorFull(c, s) <=>
        s.symbol \in DOMAIN Sector /\ Cardinality(InSector(c.kept, s)) >= MaxPerSector
  BY SignallingCardinality, Zenon DEF Signalling!SectorFull, InSector

LEMMA RepeatedIs ==
    \A s, at : Signalling!Repeated(s, at) <=>
        \E i \in DOMAIN ranked : /\ ranked[i].symbol = s.symbol
                                 /\ Cardinality(Following(ranked, i)) < HistoryLimit
                                 /\ ranked[i].direction = s.direction
                                 /\ ranked[i].at < at
                                 /\ at <= ranked[i].at + Cooldown
  <1>1. \A i : Signalling!Newer(i) = Following(ranked, i)
    BY DEF Signalling!Newer, Following
  <1> QED BY <1>1, SignallingCardinality, Zenon DEF Signalling!Repeated, Signalling!Recent

\* What is suppressed is suppressed for a cause.
LEMMA SuppressionIsCaused ==
    ASSUME ranked \in Seq(Rows), NEW c \in SignalCalls, NEW s \in Signal, Against(c, s)
    PROVE  CausedBy(ranked, c.kept, c.at, s)
  <1>1. CASE Signalling!Repeated(s, c.at)
    <2>1. PICK i \in DOMAIN ranked : /\ ranked[i].symbol = s.symbol /\ ranked[i].direction = s.direction
                                     /\ ranked[i].at < c.at /\ c.at <= ranked[i].at + Cooldown
      BY <1>1, RepeatedIs
    <2>2. c.at - ranked[i].at <= Cooldown
      <3>1. c.at \in Nat
        BY DEF SignalCalls
      <3>2. ranked[i].at \in Nat
        BY RowsAreDated
      <3> QED BY <2>1, <3>1, <3>2, SignalsAssumption
    <2> QED BY <2>1, <2>2 DEF CausedBy
  <1>2. CASE Signalling!CorrelatedWithAny(s, c.kept)
    <2>1. PICK i \in DOMAIN c.kept : {c.kept[i].symbol, s.symbol} \in Correlated
      <3>1. PICK k \in Signalling!Range(c.kept) : {k.symbol, s.symbol} \in Correlated
        BY <1>2, Zenon DEF Signalling!CorrelatedWithAny
      <3>2. PICK i \in DOMAIN c.kept : k = c.kept[i]
        BY RangeIs
      <3> QED BY <3>1, <3>2, Zenon
    <2>2. {c.kept[i].symbol, s.symbol} = {s.symbol, c.kept[i].symbol}
      OBVIOUS
    <2> QED BY <2>1, <2>2 DEF CausedBy
  <1>3. CASE Signalling!BreakoutKept(c, s)
    BY <1>3, RangeIs DEF Signalling!BreakoutKept, CausedBy
  <1>4. CASE Signalling!SectorFull(c, s)
    <2>1. s.symbol \in DOMAIN Sector /\ Cardinality(InSector(c.kept, s)) >= MaxPerSector
      BY <1>4, SectorFullIs
    <2>2. InSector(c.kept, s) # {}
      <3>1. ~ (0 >= MaxPerSector)
        BY SignalsAssumption
      <3> QED BY <2>1, <3>1, FS_EmptySet
    <2>3. PICK i \in DOMAIN c.kept : /\ c.kept[i].symbol \in DOMAIN Sector
                                     /\ Sector[c.kept[i].symbol] = Sector[s.symbol]
      BY <2>2, RangeIs DEF InSector
    <2>4. Signalling!SameSector(s, c.kept[i])
      BY <2>1, <2>3 DEF Signalling!SameSector
    <2> QED BY <2>4 DEF CausedBy
  <1> QED BY <1>1, <1>2, <1>3, <1>4 DEF Against

\* What is kept is unlike what was kept before it,
LEMMA KeptIsDiverse ==
    ASSUME NEW c \in SignalCalls, NEW s \in Signal, ~ Against(c, s), NEW i \in DOMAIN c.kept
    PROVE  ~ Redundant(c.kept[i], s)
  <1>1. ~ (MaxPerSector = 1 /\ Signalling!SameSector(c.kept[i], s))
    <2> SUFFICES ASSUME MaxPerSector = 1, Signalling!SameSector(c.kept[i], s) PROVE FALSE
      OBVIOUS
    <2>1. s.symbol \in DOMAIN Sector /\ c.kept[i] \in InSector(c.kept, s)
      BY RangeIs DEF Signalling!SameSector, InSector
    <2>2. IsFiniteSet(InSector(c.kept, s))
      <3>1. c.kept \in Seq(Signal)
        BY DEF SignalCalls
      <3>2. IsFiniteSet(DOMAIN c.kept)
        <4>1. DOMAIN c.kept = 1..Len(c.kept) /\ 1 \in Int /\ Len(c.kept) \in Int
          BY <3>1
        <4> QED BY <4>1, FS_Interval
      <3>3. IsFiniteSet({c.kept[j] : j \in DOMAIN c.kept})
        <4> DEFINE T == {c.kept[j] : j \in DOMAIN c.kept}
        <4>1. c.kept \in Surjection(DOMAIN c.kept, T)
          BY <3>1 DEF Surjection
        <4> QED BY <3>2, <4>1, FS_Surjection
      <3> QED BY <3>3, SignallingRange, FS_Subset DEF InSector
    <2>3. Cardinality(InSector(c.kept, s)) # 0 /\ Cardinality(InSector(c.kept, s)) \in Nat
      BY <2>1, <2>2, FS_EmptySet, FS_CardinalityType
    <2>4. Cardinality(InSector(c.kept, s)) >= 1
      BY <2>3
    <2> QED BY <2>1, <2>4, SectorFullIs DEF Against
  <1>2. ~ (Signalling!IsBreakout(c.kept[i]) /\ Signalling!IsBreakout(s))
    BY RangeIs DEF Signalling!BreakoutKept, Against
  <1>3. {c.kept[i].symbol, s.symbol} \notin Correlated
    BY RangeIs DEF Signalling!CorrelatedWithAny, Against
  <1> QED BY <1>1, <1>2, <1>3 DEF Redundant

\* and repeats nothing delivered that the request could see.
LEMMA KeptIsApart ==
    ASSUME ranked \in Seq(Rows), NEW c \in SignalCalls, NEW s \in Signal, ~ Against(c, s),
           NEW d \in Delivered, RowIn(ranked, d, d.at), Busy(c), RowsKnown(ranked, c)
    PROVE  Apart(ranked, d, s, c.at, c.overlap)
  <1> SUFFICES ASSUME d.symbol = s.symbol, d.direction = s.direction, d.at < c.at, c.at - d.at <= Cooldown
               PROVE  Out(ranked, d, c.at, c.overlap)
    BY DEF Apart
  <1>1. PICK i \in DOMAIN ranked : ranked[i] = Signalling!Row(d, d.at)
    BY DEF RowIn
  <1>2. ranked[i].symbol = d.symbol /\ ranked[i].direction = d.direction /\ ranked[i].at = d.at
    BY <1>1 DEF Signalling!Row
  <1>3. c.at <= ranked[i].at + Cooldown /\ ranked[i].at < c.at
    <2>1. c.at \in Nat /\ d.at \in Nat
      BY DEF SignalCalls, Delivered
    <2> QED BY <1>2, <2>1, SignalsAssumption
  <1>4. ~ (Cardinality(Following(ranked, i)) < HistoryLimit)
    BY <1>2, <1>3, RepeatedIs, Zenon DEF Against
  <1>5. Cardinality(Following(ranked, i)) >= HistoryLimit
    <2>1. IsFiniteSet(Following(ranked, i))
      <3>1. Following(ranked, i) \subseteq 1..Len(ranked) /\ 1 \in Int /\ Len(ranked) \in Int
        BY DEF Following
      <3> QED BY <3>1, FS_Interval, FS_Subset
    <2>2. Cardinality(Following(ranked, i)) \in Nat /\ HistoryLimit \in Nat
      BY <2>1, FS_CardinalityType, SignalsAssumption
    <2> QED BY <1>4, <2>2
  <1>6. Following(ranked, i) = {j \in Following(ranked, i) : ranked[j].at <= c.at \/ ranked[j].at \in c.overlap}
    BY DEF RowsKnown, Following
  <1> QED BY <1>1, <1>5, <1>6 DEF Out

LEMMA SignalAppended ==
    ASSUME NEW k \in Seq(Signal), NEW s \in Signal, NEW more, more = Append(k, s)
    PROVE  /\ more \in Seq(Signal)
           /\ \A i \in DOMAIN more :
                  \/ i \in DOMAIN k /\ more[i] = k[i]
                  \/ more[i] = s /\ \A j \in DOMAIN more : j < i => j \in DOMAIN k
           /\ \A i \in DOMAIN k : i \in DOMAIN more /\ more[i] = k[i]
           /\ \A i \in DOMAIN more : \A j \in DOMAIN k : i < j => i \in DOMAIN k
  OBVIOUS

LEMMA FilterKeeps == ASSUME SignalsInv, NEW r \in Requests, Signalling!Filter(r) PROVE SignalsInv'
  <1>1. /\ SignalsType /\ Bygone /\ Overlapping /\ Soundness /\ Separate
        /\ ranked \in Seq(Rows) /\ asOf \in Nat /\ call[r] \in SignalCalls /\ delivered \in SUBSET Delivered
    BY DEF SignalsInv, SignalsType
  <1>2. /\ Busy(call[r]) /\ asOf' = asOf /\ delivered' = delivered /\ ranked' = ranked
        /\ \/ /\ call[r].batch = <<>>
              /\ call' = [call EXCEPT ![r] = [call[r] EXCEPT !.pc = "answering"]]
           \/ /\ call[r].batch # <<>> /\ Against(call[r], Head(call[r].batch))
              /\ call' = [call EXCEPT ![r] =
                   [call[r] EXCEPT !.batch = Tail(call[r].batch),
                                   !.suppressed = call[r].suppressed \cup {Head(call[r].batch)}]]
           \/ /\ call[r].batch # <<>> /\ ~ Against(call[r], Head(call[r].batch))
              /\ call' = [call EXCEPT ![r] =
                   [call[r] EXCEPT !.batch = Tail(call[r].batch),
                                   !.kept = Append(call[r].kept, Head(call[r].batch))]]
    BY DEF Signalling!Filter, Against, Busy
  <1>3. /\ Extended(ranked, ranked) /\ RowsBy(ranked, asOf) /\ \A q \in Requests : RowsKnown(ranked, call[q])
        /\ CallSound(ranked, call[r]) /\ KeptSeparate(ranked, call[r], delivered)
    BY <1>1, SameRows DEF Bygone, Soundness, CallSound, RowsBy, RowsKnown, Separate, KeptSeparate
  <1> SUFFICES ASSUME TRUE
               PROVE  \E c \in SignalCalls : /\ call' = [call EXCEPT ![r] = c]
                                       /\ c.at = call[r].at /\ c.overlap = call[r].overlap
                                       /\ CallSound(ranked, c) /\ KeptSeparate(ranked, c, delivered)
    <2>1. PICK c \in SignalCalls : /\ call' = [call EXCEPT ![r] = c]
                             /\ c.at = call[r].at /\ c.overlap = call[r].overlap
                             /\ CallSound(ranked, c) /\ KeptSeparate(ranked, c, delivered)
      OBVIOUS
    <2>2. /\ ranked' \in Seq(Rows) /\ Extended(ranked, ranked') /\ RowsBy(ranked', asOf)
          /\ \A q \in Requests : RowsKnown(ranked', call[q])
          /\ CallSound(ranked', c) /\ KeptSeparate(ranked', c, delivered)
      BY <1>1, <1>2, <1>3, <2>1
    <2>3. Onward(call[r], c)
      BY <1>2, <2>1 DEF Onward
    <2> QED BY <1>2, <2>1, <2>2, <2>3, OneCall
  <1>4. CASE call[r].batch = <<>>
    <2> DEFINE c1 == [call[r] EXCEPT !.pc = "answering"]
    <2>1. call' = [call EXCEPT ![r] = c1]
      BY <1>2, <1>4
    <2>2. /\ c1 \in SignalCalls /\ c1.pc = "answering" /\ c1.at = call[r].at /\ c1.overlap = call[r].overlap
          /\ c1.batch = call[r].batch /\ c1.kept = call[r].kept /\ c1.suppressed = call[r].suppressed
      BY <1>1 DEF SignalCalls
    <2> HIDE DEF c1
    <2>3. Busy(c1) /\ RowsKnown(ranked, c1) /\ KeptSeparate(ranked, c1, delivered)
      BY <1>2, <1>3, <2>2 DEF Busy, RowsKnown, KeptSeparate
    <2>4. \A i \in DOMAIN c1.batch : RowIn(ranked, c1.batch[i], c1.at)
      BY <1>3, <2>2 DEF CallSound
    <2>5. CallSound(ranked, c1)
      BY <1>1, <1>3, <2>2, <2>3, <2>4, CallOnward
    <2> QED BY <2>1, <2>2, <2>3, <2>5
  <1>5. ASSUME call[r].batch # <<>>
        PROVE  /\ Head(call[r].batch) \in Signal /\ Tail(call[r].batch) \in Seq(Signal)
               /\ RowIn(ranked, Head(call[r].batch), call[r].at)
               /\ \A i \in DOMAIN Tail(call[r].batch) : RowIn(ranked, Tail(call[r].batch)[i], call[r].at)
    <2>1. call[r].batch \in Seq(Signal)
      BY <1>1 DEF SignalCalls
    <2>2. \A i \in DOMAIN call[r].batch : RowIn(ranked, call[r].batch[i], call[r].at)
      BY <1>3 DEF CallSound
    <2>3. /\ Head(call[r].batch) \in Signal /\ Tail(call[r].batch) \in Seq(Signal)
          /\ 1 \in DOMAIN call[r].batch /\ Head(call[r].batch) = call[r].batch[1]
          /\ \A i \in DOMAIN Tail(call[r].batch) :
                 i + 1 \in DOMAIN call[r].batch /\ Tail(call[r].batch)[i] = call[r].batch[i + 1]
      BY <1>5, <2>1
    <2> QED BY <2>2, <2>3
  <1>6. ASSUME call[r].batch # <<>>, Against(call[r], Head(call[r].batch))
        PROVE  \E c \in SignalCalls : /\ call' = [call EXCEPT ![r] = c]
                                /\ c.at = call[r].at /\ c.overlap = call[r].overlap
                                /\ CallSound(ranked, c) /\ KeptSeparate(ranked, c, delivered)
    <2> DEFINE s == Head(call[r].batch)
               c1 == [call[r] EXCEPT !.batch = Tail(call[r].batch)]
               c2 == [c1 EXCEPT !.suppressed = call[r].suppressed \cup {s}]
    <2>1. call' = [call EXCEPT ![r] = c2]
      BY <1>2, <1>6
    <2>2. /\ c1 \in SignalCalls /\ c1.pc = call[r].pc /\ c1.at = call[r].at /\ c1.overlap = call[r].overlap
          /\ c1.batch = Tail(call[r].batch) /\ c1.kept = call[r].kept
      BY <1>1, <1>5, <1>6 DEF SignalCalls
    <2> HIDE DEF c1
    <2>3. call[r].suppressed \cup {s} \in SUBSET Signal
      BY <1>1, <1>5, <1>6 DEF SignalCalls
    <2>4. /\ c2 \in SignalCalls /\ c2.pc = call[r].pc /\ c2.at = call[r].at /\ c2.overlap = call[r].overlap
          /\ c2.batch = Tail(call[r].batch) /\ c2.kept = call[r].kept
          /\ c2.suppressed = call[r].suppressed \cup {s}
      BY <2>2, <2>3 DEF SignalCalls
    <2> HIDE DEF c2, s
    <2>5. Busy(c2) /\ KeptSeparate(ranked, c2, delivered)
      BY <1>2, <1>3, <2>4 DEF Busy, KeptSeparate
    <2>6. Caused(ranked, c2)
      <3>1. CausedBy(ranked, call[r].kept, call[r].at, s)
        BY <1>1, <1>5, <1>6, SuppressionIsCaused DEF s
      <3> QED BY <1>3, <2>4, <3>1 DEF CallSound, Caused
    <2>7. CallSound(ranked, c2)
      <3>1. \A i \in DOMAIN c2.batch : RowIn(ranked, c2.batch[i], c2.at)
        BY <1>5, <1>6, <2>4
      <3>2. /\ \A i \in DOMAIN c2.kept : RowIn(ranked, c2.kept[i], c2.at)
            /\ Diverse(c2.kept)
        BY <1>3, <2>4 DEF CallSound
      <3>3. RowsKnown(ranked, c2)
        BY <1>2, <1>3, <2>4 DEF RowsKnown
      <3> QED BY <2>5, <2>6, <3>1, <3>2, <3>3 DEF CallSound, RowsKnown
    <2> QED BY <2>1, <2>4, <2>5, <2>7
  <1>7. ASSUME call[r].batch # <<>>, ~ Against(call[r], Head(call[r].batch))
        PROVE  \E c \in SignalCalls : /\ call' = [call EXCEPT ![r] = c]
                                /\ c.at = call[r].at /\ c.overlap = call[r].overlap
                                /\ CallSound(ranked, c) /\ KeptSeparate(ranked, c, delivered)
    <2> DEFINE s == Head(call[r].batch)
               c1 == [call[r] EXCEPT !.batch = Tail(call[r].batch)]
               c2 == [c1 EXCEPT !.kept = Append(call[r].kept, s)]
    <2>1. call' = [call EXCEPT ![r] = c2]
      BY <1>2, <1>7
    <2>2. /\ c1 \in SignalCalls /\ c1.pc = call[r].pc /\ c1.at = call[r].at /\ c1.overlap = call[r].overlap
          /\ c1.batch = Tail(call[r].batch) /\ c1.suppressed = call[r].suppressed
      BY <1>1, <1>5, <1>7 DEF SignalCalls
    <2> HIDE DEF c1
    <2>3. call[r].kept \in Seq(Signal) /\ s \in Signal
      BY <1>1, <1>5, <1>7 DEF SignalCalls
    <2>4. /\ c2 \in SignalCalls /\ c2.pc = call[r].pc /\ c2.at = call[r].at /\ c2.overlap = call[r].overlap
          /\ c2.batch = Tail(call[r].batch) /\ c2.suppressed = call[r].suppressed
          /\ c2.kept = Append(call[r].kept, s)
      <3> HIDE DEF s
      <3>1. PICK more \in Seq(Signal) : more = Append(call[r].kept, s)
        BY <2>3, SignalAppended
      <3> QED BY <2>2, <3>1 DEF SignalCalls
    <2> HIDE DEF c2, s
    <2>5. /\ \A i \in DOMAIN c2.kept :
                 \/ i \in DOMAIN call[r].kept /\ c2.kept[i] = call[r].kept[i]
                 \/ c2.kept[i] = s /\ \A j \in DOMAIN c2.kept : j < i => j \in DOMAIN call[r].kept
          /\ \A i \in DOMAIN call[r].kept : i \in DOMAIN c2.kept /\ c2.kept[i] = call[r].kept[i]
          /\ \A i \in DOMAIN c2.kept : \A j \in DOMAIN call[r].kept : i < j => i \in DOMAIN call[r].kept
      <3>1. PICK k \in Seq(Signal) : k = call[r].kept
        BY <2>3
      <3>2. c2.kept = Append(k, s)
        BY <2>4, <3>1
      <3> DEFINE more == c2.kept
      <3> HIDE DEF more
      <3>3. /\ \A i \in DOMAIN more :
                   \/ i \in DOMAIN k /\ more[i] = k[i]
                   \/ more[i] = s /\ \A j \in DOMAIN more : j < i => j \in DOMAIN k
            /\ \A i \in DOMAIN k : i \in DOMAIN more /\ more[i] = k[i]
            /\ \A i \in DOMAIN more : \A j \in DOMAIN k : i < j => i \in DOMAIN k
        <4>1. more = Append(k, s)
          BY <3>2 DEF more
        <4> QED BY <2>3, <4>1, SignalAppended
      <3> QED BY <3>1, <3>3 DEF more
    <2>7. Busy(c2) /\ RowsKnown(ranked, c2)
      BY <1>2, <1>3, <2>4 DEF Busy, RowsKnown
    <2>8. Caused(ranked, c2)
      <3>1. \A t \in call[r].suppressed : CausedBy(ranked, c2.kept, call[r].at, t)
        BY <1>3, <2>5 DEF CallSound, Caused, CausedBy
      <3> QED BY <2>4, <3>1 DEF Caused
    <2>9. CallSound(ranked, c2)
      <3>1. \A i \in DOMAIN c2.batch : RowIn(ranked, c2.batch[i], c2.at)
        BY <1>5, <1>7, <2>4
      <3>2. \A i \in DOMAIN c2.kept : RowIn(ranked, c2.kept[i], c2.at)
        <4>1. RowIn(ranked, s, call[r].at)
          BY <1>5, <1>7 DEF s
        <4>2. \A i \in DOMAIN call[r].kept : RowIn(ranked, call[r].kept[i], call[r].at)
          BY <1>3 DEF CallSound
        <4> QED BY <2>4, <2>5, <4>1, <4>2
      <3>3. Diverse(c2.kept)
        <4> SUFFICES ASSUME NEW i \in DOMAIN c2.kept, NEW j \in DOMAIN c2.kept, i < j
                     PROVE  ~ Redundant(c2.kept[i], c2.kept[j])
          BY DEF Diverse
        <4>1. CASE j \in DOMAIN call[r].kept /\ c2.kept[j] = call[r].kept[j]
          <5>1. i \in DOMAIN call[r].kept
            BY <2>5, <4>1
          <5> QED BY <1>3, <2>5, <4>1, <5>1 DEF CallSound, Diverse
        <4>2. CASE c2.kept[j] = s /\ i \in DOMAIN call[r].kept
          <5>1. ~ Redundant(call[r].kept[i], s)
            BY <1>1, <1>7, <2>3, <4>2, KeptIsDiverse DEF s
          <5> QED BY <2>5, <4>2, <5>1
        <4> QED BY <2>5, <4>1, <4>2
      <3> QED BY <2>7, <2>8, <3>1, <3>2, <3>3 DEF CallSound, RowsKnown
    <2>10. KeptSeparate(ranked, c2, delivered)
      <3> SUFFICES ASSUME NEW i \in DOMAIN c2.kept, NEW d \in delivered
                   PROVE  Apart(ranked, d, c2.kept[i], c2.at, c2.overlap)
        BY DEF KeptSeparate
      <3>1. Apart(ranked, d, s, call[r].at, call[r].overlap)
        <4>1. d \in Delivered /\ RowIn(ranked, d, d.at)
          BY <1>1 DEF Soundness
        <4> QED BY <1>1, <1>2, <1>3, <1>7, <2>3, <4>1, KeptIsApart DEF s
      <3>2. CASE i \in DOMAIN call[r].kept /\ c2.kept[i] = call[r].kept[i]
        BY <1>3, <2>4, <3>2 DEF KeptSeparate
      <3> QED BY <2>4, <2>5, <3>1, <3>2
    <2> QED BY <2>1, <2>4, <2>9, <2>10
  <1> QED BY <1>2, <1>4, <1>6, <1>7

LEMMA AnswerKeeps == ASSUME SignalsInv, NEW r \in Requests, Signalling!Answer(r) PROVE SignalsInv'
  <1>1. /\ SignalsType /\ Bygone /\ Overlapping /\ Soundness /\ Separate
        /\ ranked \in Seq(Rows) /\ asOf \in Nat /\ call \in [Requests -> SignalCalls] /\ call[r] \in SignalCalls
        /\ delivered \in SUBSET Delivered
    BY DEF SignalsInv, SignalsType
  <1> DEFINE New == {[symbol |-> k.symbol, direction |-> k.direction,
                      at |-> call[r].at, overlap |-> call[r].overlap] : k \in Signalling!Range(call[r].kept)}
  <1>2. /\ Busy(call[r]) /\ asOf' = asOf /\ ranked' = ranked /\ delivered' = delivered \cup New
        /\ call' = [call EXCEPT ![r] = Signalling!Idle]
    BY DEF Signalling!Answer, Busy
  <1>3. CallSound(ranked, call[r])
    BY <1>1 DEF Soundness
  <1>4. call'[r] = Signalling!Idle /\ \A q \in Requests : q # r => call'[q] = call[q]
    BY <1>1, <1>2
  <1>5. \A l \in New : \E i \in DOMAIN call[r].kept :
          /\ l.symbol = call[r].kept[i].symbol /\ l.direction = call[r].kept[i].direction
          /\ l.at = call[r].at /\ l.overlap = call[r].overlap
          /\ l \in Delivered
    <2> SUFFICES ASSUME NEW l \in New
                 PROVE  \E i \in DOMAIN call[r].kept :
                          /\ l.symbol = call[r].kept[i].symbol /\ l.direction = call[r].kept[i].direction
                          /\ l.at = call[r].at /\ l.overlap = call[r].overlap
                          /\ l \in Delivered
      OBVIOUS
    <2>1. PICK k \in Signalling!Range(call[r].kept) :
            l = [symbol |-> k.symbol, direction |-> k.direction, at |-> call[r].at, overlap |-> call[r].overlap]
      OBVIOUS
    <2>2. PICK i \in DOMAIN call[r].kept : k = call[r].kept[i]
      BY RangeIs
    <2>3. call[r].at \in Nat /\ call[r].overlap \in SUBSET Nat /\ call[r].kept \in Seq(Signal)
      BY <1>1 DEF SignalCalls
    <2>4. k.symbol \in Symbols /\ k.direction \in Signalling!Directions
      <3>1. k \in Signal
        BY <2>2, <2>3
      <3> QED BY <3>1, SignalsAreRanked
    <2>5. l \in Delivered
      BY <2>1, <2>3, <2>4 DEF Delivered
    <2> QED BY <2>1, <2>2, <2>5
  <1> HIDE DEF New
  <1>6. SignalsType'
    <2>1. call' \in [Requests -> SignalCalls]
      BY <1>1, <1>2, IdleSound
    <2>2. New \subseteq Delivered
      BY <1>5
    <2> QED BY <1>1, <1>2, <2>1, <2>2 DEF SignalsType
  <1>7. Bygone'
    <2>1. \A q \in Requests : call'[q].at <= asOf
      BY <1>1, <1>4, IdleSound DEF Bygone
    <2>2. \A l \in New : l.at <= asOf
      BY <1>1, <1>5 DEF Bygone
    <2> QED BY <1>1, <1>2, <2>1, <2>2 DEF Bygone
  <1>8. \A q \in Requests : Busy(call'[q]) => q # r /\ Busy(call[q]) /\ call'[q] = call[q]
    BY <1>4, IdleSound
  <1>9. Overlapping'
    <2>1. \A p, q \in Requests : p # q /\ Busy(call'[p]) /\ Busy(call'[q]) => call'[p].at \in call'[q].overlap
      BY <1>1, <1>8 DEF Overlapping
    <2>2. ASSUME NEW p \in Requests, NEW l \in delivered', Busy(call'[p]), call'[p].at < l.at
          PROVE  call'[p].at \in l.overlap
      <3>1. p # r /\ Busy(call[p]) /\ call'[p] = call[p]
        BY <1>8, <2>2
      <3>2. CASE l \in delivered
        BY <1>1, <2>2, <3>1, <3>2 DEF Overlapping
      <3>3. CASE l \in New
        <4>1. call[p].at \in call[r].overlap
          BY <1>1, <1>2, <3>1 DEF Overlapping
        <4> QED BY <1>5, <3>1, <3>3, <4>1
      <3> QED BY <1>2, <2>2, <3>2, <3>3
    <2> QED BY <2>1, <2>2 DEF Overlapping
  <1>10. Soundness'
    <2>1. \A q \in Requests : CallSound(ranked, call'[q])
      BY <1>1, <1>4, IdleSound DEF Soundness
    <2>2. ASSUME NEW l \in New PROVE RowIn(ranked, l, l.at)
      <3>1. PICK i \in DOMAIN call[r].kept :
              /\ l.symbol = call[r].kept[i].symbol /\ l.direction = call[r].kept[i].direction
              /\ l.at = call[r].at
        BY <1>5
      <3>2. RowIn(ranked, call[r].kept[i], call[r].at)
        BY <1>3 DEF CallSound
      <3> QED BY <3>1, <3>2 DEF RowIn, Signalling!Row
    <2> QED BY <1>1, <1>2, <2>1, <2>2 DEF Soundness
  <1>11. Separate'
    <2>1. ASSUME NEW q \in Requests, NEW i \in DOMAIN call'[q].kept, NEW d \in delivered'
          PROVE  Apart(ranked, d, call'[q].kept[i], call'[q].at, call'[q].overlap)
      <3>1. q # r /\ call'[q] = call[q] /\ i \in DOMAIN call[q].kept
        BY <1>4, IdleSound
      <3>2. CASE d \in delivered
        BY <1>1, <3>1, <3>2 DEF Separate
      <3>3. CASE d \in New
        <4>1. Busy(call[q])
          BY <1>1, <3>1 DEF Soundness, CallSound
        <4>2. call[r].at \in call[q].overlap
          BY <1>1, <1>2, <3>1, <4>1 DEF Overlapping
        <4>3. d.at \in call[q].overlap
          BY <1>5, <3>3, <4>2
        <4> QED BY <3>1, <4>3 DEF Apart
      <3> QED BY <1>2, <2>1, <3>2, <3>3
    <2>2. ASSUME NEW k \in delivered', NEW l \in delivered' PROVE Apart(ranked, k, l, l.at, l.overlap)
      <3>1. CASE k \in delivered /\ l \in delivered
        BY <1>1, <3>1 DEF Separate
      <3>2. CASE k \in delivered /\ l \in New
        <4>1. PICK i \in DOMAIN call[r].kept :
                /\ l.symbol = call[r].kept[i].symbol /\ l.direction = call[r].kept[i].direction
                /\ l.at = call[r].at /\ l.overlap = call[r].overlap
          BY <1>5, <3>2
        <4>2. Apart(ranked, k, call[r].kept[i], call[r].at, call[r].overlap)
          BY <1>1, <3>2 DEF Separate
        <4> QED BY <4>1, <4>2 DEF Apart
      <3>3. CASE k \in New /\ l \in delivered
        <4>1. k.at = call[r].at
          BY <1>5, <3>3
        <4>2. call[r].at < l.at => call[r].at \in l.overlap
          BY <1>1, <1>2, <3>3 DEF Overlapping
        <4> QED BY <4>1, <4>2 DEF Apart
      <3>4. CASE k \in New /\ l \in New
        <4>1. k.at = call[r].at /\ l.at = call[r].at /\ call[r].at \in Nat
          <5>1. call[r].at \in Nat
            BY <1>1 DEF SignalCalls
          <5> QED BY <1>5, <3>4, <5>1
        <4>2. ~ (k.at < l.at)
          BY <4>1
        <4> QED BY <4>2 DEF Apart
      <3> QED BY <1>2, <2>2, <3>1, <3>2, <3>3, <3>4
    <2> QED BY <1>2, <2>1, <2>2 DEF Separate
  <1> QED BY <1>6, <1>7, <1>9, <1>10, <1>11 DEF SignalsInv

LEMMA InitSignals == Signalling!Init => SignalsInv
  <1> SUFFICES ASSUME Signalling!Init PROVE SignalsInv
    OBVIOUS
  <1>1. /\ asOf = 0 /\ ranked = <<>> /\ delivered = {} /\ call = [r \in Requests |-> Signalling!Idle]
    BY DEF Signalling!Init
  <1>2. \A r \in Requests : call[r] = Signalling!Idle
    BY <1>1
  <1>3. SignalsType
    BY <1>1, IdleSound DEF SignalsType
  <1>4. Bygone
    <2>1. \A r \in Requests : call[r].at <= asOf
      BY <1>1, <1>2, IdleSound
    <2> QED BY <1>1, <2>1 DEF Bygone
  <1>5. Overlapping /\ Soundness /\ Separate
    BY <1>1, <1>2, IdleSound DEF Overlapping, Soundness, Separate
  <1> QED BY <1>3, <1>4, <1>5 DEF SignalsInv

LEMMA SignalsStep == SignalsInv /\ [Signalling!Next]_(Signalling!vars) => SignalsInv'
  <1> SUFFICES ASSUME SignalsInv, [Signalling!Next]_(Signalling!vars) PROVE SignalsInv'
    OBVIOUS
  <1>1. CASE Signalling!Next
    <2>1. PICK r \in Requests : \/ \E filters \in BOOLEAN : Signalling!Scan(r, filters)
                                \/ Signalling!Rank(r)
                                \/ Signalling!Filter(r)
                                \/ Signalling!Answer(r)
                                \/ Signalling!Fails(r)
      BY <1>1 DEF Signalling!Next
    <2> QED BY <2>1, ScanKeeps, RankKeeps, FilterKeeps, AnswerKeeps, FailsKeeps
  <1>2. CASE UNCHANGED Signalling!vars
    <2>1. asOf' = asOf /\ ranked' = ranked /\ call' = call /\ delivered' = delivered
      BY <1>2 DEF Signalling!vars
    <2> QED BY <2>1 DEF SignalsInv, SignalsType, Bygone, Overlapping, Soundness, Separate
  <1> QED BY <1>1, <1>2

LEMMA SignalsInvSound == SignalsInv => SignalsSound
  <1> SUFFICES ASSUME SignalsInv PROVE SignalsSound
    OBVIOUS
  <1>1. /\ Soundness /\ Separate /\ call \in [Requests -> SignalCalls]
    BY DEF SignalsInv, SignalsType
  <1>2. Signalling!KeptApart
    <2> SUFFICES ASSUME NEW k \in delivered, NEW l \in delivered,
                        k.symbol = l.symbol, k.direction = l.direction,
                        k.at < l.at, l.at - k.at <= Cooldown, k.at \notin l.overlap
                 PROVE  Signalling!OutOfSight(k, l)
      BY DEF Signalling!KeptApart
    <2>1. Out(ranked, k, l.at, l.overlap)
      BY <1>1 DEF Separate, Apart
    <2>2. \A i : Signalling!Newer(i) = Following(ranked, i)
      BY DEF Signalling!Newer, Following
    <2> QED BY <2>1, <2>2, SignallingCardinality, Zenon DEF Out, Signalling!OutOfSight
  <1>3. Signalling!BatchDiverse
    <2> SUFFICES ASSUME NEW r \in Requests, NEW i \in DOMAIN call[r].kept, NEW j \in DOMAIN call[r].kept, i < j
                 PROVE  /\ MaxPerSector = 1 => ~ Signalling!SameSector(call[r].kept[i], call[r].kept[j])
                        /\ ~ (Signalling!IsBreakout(call[r].kept[i]) /\ Signalling!IsBreakout(call[r].kept[j]))
                        /\ {call[r].kept[i].symbol, call[r].kept[j].symbol} \notin Correlated
      BY Zenon DEF Signalling!BatchDiverse, Signalling!Pairwise
    <2>1. ~ Redundant(call[r].kept[i], call[r].kept[j])
      BY <1>1 DEF Soundness, CallSound, Diverse
    <2> QED BY <2>1 DEF Redundant
  <1>4. Signalling!SuppressedForCause
    <2> SUFFICES ASSUME NEW r \in Requests, NEW s \in call[r].suppressed
                 PROVE  \/ \E k \in Signalling!Range(call[r].kept) :
                              \/ Signalling!SameSector(s, k)
                              \/ Signalling!IsBreakout(s) /\ Signalling!IsBreakout(k)
                              \/ {s.symbol, k.symbol} \in Correlated
                        \/ \E i \in DOMAIN ranked :
                              /\ ranked[i].symbol = s.symbol /\ ranked[i].direction = s.direction
                              /\ ranked[i].at < call[r].at /\ call[r].at - ranked[i].at <= Cooldown
      BY Zenon DEF Signalling!SuppressedForCause
    <2>1. CausedBy(ranked, call[r].kept, call[r].at, s)
      BY <1>1 DEF Soundness, CallSound, Caused
    <2> QED BY <2>1, RangeIs, Zenon DEF CausedBy
  <1> QED BY <1>2, <1>3, <1>4 DEF SignalsSound, Signalling!BatchSound

LEMMA SignalsProject == Spec => Signalling!Spec
  <1>1. Init => Signalling!Init
    BY DEF Init
  <1>2. [Next]_vars => [Signalling!Next]_(Signalling!vars)
    BY DEF Next, vars, signals, Signalling!vars,
           DeliverSignals, FollowTheNews, DrawTheLine, AskTheSources, KeepTheSchedule,
           ReplayALedger, LabelATrade, ReadAChart, DecideOnACandidate, CallADependency, CallTheBroker
  <1> QED BY <1>1, <1>2, PTL DEF Spec, Signalling!Spec

(* SignalsSound: however many requests overlap, whatever they find and     *)
(* whenever one fails, no signal is delivered twice within the cooldown by *)
(* requests that could see each other's, and each batch keeps a diverse    *)
(* list and drops what it drops for a cause (prediction/duplicate.py).     *)
THEOREM SignalsSafe == Spec => []SignalsSound
  <1>1. Signalling!Spec => []SignalsInv
    BY InitSignals, SignalsStep, PTL DEF Signalling!Spec
  <1> QED BY <1>1, SignalsInvSound, SignalsProject, PTL

-----------------------------------------------------------------------------
(* The news: what a fetch finds new.  FoldLeft computes a table, by sets   *)
(* of positions.                                                           *)

Akin(a, b) == Feeding!Similar(a, b)

Elements(s) == {s[i] : i \in DOMAIN s}

Step(known, found, a) ==
    IF \E b \in known \cup Elements(found) : Akin(a, b) THEN found ELSE Append(found, a)

Greatest(s) == CHOOSE x \in s : \A y \in s : x >= y

Tabled(f, known, seq, n) ==
    f = [s \in SUBSET (1..n) |->
           IF s = {} THEN <<>> ELSE Step(known, f[s \ {Greatest(s)}], seq[Greatest(s)])]

LEMMA GreatestTop ==
    ASSUME NEW n \in Nat, NEW s \in SUBSET (1..(n + 1)), n + 1 \in s
    PROVE  Greatest(s) = n + 1
  <1>1. \A y \in s : n + 1 >= y
    OBVIOUS
  <1>2. \A x \in s : (\A y \in s : x >= y) => x = n + 1
    OBVIOUS
  <1> QED BY <1>1, <1>2 DEF Greatest

Longer(f, known, seq, n) ==
    [s \in SUBSET (1..(n + 1)) |->
       IF n + 1 \in s THEN Step(known, f[s \ {n + 1}], seq[n + 1]) ELSE f[s]]

LEMMA TableExtends ==
    ASSUME NEW n \in Nat, NEW known, NEW seq, NEW f, Tabled(f, known, seq, n)
    PROVE  Tabled(Longer(f, known, seq, n), known, seq, n + 1)
  <1> DEFINE new == Longer(f, known, seq, n)
  <1>1. new = [s \in SUBSET (1..(n + 1)) |-> new[s]]
    BY DEF Longer
  <1>2. ASSUME NEW s \in SUBSET (1..(n + 1))
        PROVE  new[s] = IF s = {} THEN <<>> ELSE Step(known, new[s \ {Greatest(s)}], seq[Greatest(s)])
    <2>1. CASE n + 1 \in s
      <3>1. s # {} /\ Greatest(s) = n + 1
        BY <2>1, GreatestTop
      <3>2. s \ {n + 1} \in SUBSET (1..n) /\ n + 1 \notin s \ {n + 1}
        OBVIOUS
      <3>3. s \ {n + 1} \in SUBSET (1..(n + 1))
        OBVIOUS
      <3>4. new[s \ {n + 1}] = f[s \ {n + 1}]
        BY <3>2, <3>3 DEF Longer
      <3>5. new[s] = Step(known, f[s \ {n + 1}], seq[n + 1])
        BY <2>1 DEF Longer
      <3> HIDE DEF new
      <3> QED BY <3>1, <3>4, <3>5
    <2>2. CASE n + 1 \notin s
      <3>1. s \in SUBSET (1..n)
        BY <2>2
      <3>2. new[s] = f[s]
        BY <2>2 DEF Longer
      <3>3. s \ {Greatest(s)} \in SUBSET (1..n) /\ n + 1 \notin s \ {Greatest(s)}
        BY <3>1, <2>2
      <3>4. new[s \ {Greatest(s)}] = f[s \ {Greatest(s)}]
        BY <3>3 DEF Longer
      <3>5. f[s] = IF s = {} THEN <<>> ELSE Step(known, f[s \ {Greatest(s)}], seq[Greatest(s)])
        BY <3>1 DEF Tabled
      <3> HIDE DEF new
      <3> QED BY <3>2, <3>4, <3>5
    <2> QED BY <2>1, <2>2
  <1> HIDE DEF new
  <1>3. new = [s \in SUBSET (1..(n + 1)) |->
                 IF s = {} THEN <<>> ELSE Step(known, new[s \ {Greatest(s)}], seq[Greatest(s)])]
    BY <1>1, <1>2
  <1> QED BY <1>3 DEF Tabled, new

LEMMA TableExists == ASSUME NEW known, NEW seq PROVE \A n \in Nat : \E f : Tabled(f, known, seq, n)
  <1> DEFINE T == {n \in Nat : \E f : Tabled(f, known, seq, n)}
  <1>1. 0 \in T
    <2>1. Tabled([s \in SUBSET (1..0) |-> <<>>], known, seq, 0)
      <3>1. \A s \in SUBSET (1..0) : s = {}
        OBVIOUS
      <3> QED BY <3>1 DEF Tabled
    <2> QED BY <2>1
  <1>2. ASSUME NEW n \in T PROVE n + 1 \in T
    BY TableExtends
  <1> HIDE DEF T
  <1>3. \A n \in Nat : n \in T
    BY <1>1, <1>2, Induction
  <1> QED BY <1>3 DEF T

TheTable(known, seq, n) == CHOOSE f : Tabled(f, known, seq, n)

LEMMA NewIsTabled ==
    ASSUME NEW known, NEW seq, NEW n \in Nat, DOMAIN seq = 1..n
    PROVE  /\ Feeding!New(known, seq) = TheTable(known, seq, n)[1..n]
           /\ Tabled(TheTable(known, seq, n), known, seq, n)
  <1>1. Feeding!New(known, seq) = TheTable(known, seq, n)[1..n]
    BY DEF Feeding!New, Feeding!FoldLeft, Feeding!MapThenFoldSet, Feeding!Max, Feeding!ToSet,
           TheTable, Tabled, Step, Elements, Akin, Greatest
  <1>2. \E f : Tabled(f, known, seq, n)
    BY TableExists
  <1> QED BY <1>1, <1>2 DEF TheTable

\* What the first articles of a fetch leave: none like another or like one known, and each
\* of them like one known or left.
Found(known, r, seq, m) ==
    /\ r \in Seq(Articles)
    /\ \A i, j \in DOMAIN r : i < j => ~ Akin(r[j], r[i])
    /\ \A i \in DOMAIN r : \A b \in known : ~ Akin(r[i], b)
    /\ \A i \in 1..m : \E b \in known \cup Elements(r) : Akin(seq[i], b)

LEMMA AkinIs == /\ \A a : Akin(a, a)
                /\ \A a, b : Akin(a, b) <=> Akin(b, a)
  <1>1. \A a, b : {a, b} = {b, a}
    OBVIOUS
  <1> QED BY <1>1 DEF Akin, Feeding!Similar

LEMMA ArticleAppended ==
    ASSUME NEW k \in Seq(Articles), NEW s \in Articles, NEW more, more = Append(k, s)
    PROVE  /\ more \in Seq(Articles)
           /\ \A i \in DOMAIN more : \/ i \in DOMAIN k /\ more[i] = k[i]
                                     \/ more[i] = s /\ \A j \in DOMAIN more : ~ (i < j)
           /\ \A i \in DOMAIN k : i \in DOMAIN more /\ more[i] = k[i]
           /\ \E i \in DOMAIN more : more[i] = s
  <1>1. DOMAIN more = 1..(Len(k) + 1) /\ Len(k) \in Nat /\ DOMAIN k = 1..Len(k) /\ more \in Seq(Articles)
    OBVIOUS
  <1>2. more[Len(k) + 1] = s /\ \A i \in 1..Len(k) : more[i] = k[i]
    OBVIOUS
  <1>3. Len(k) + 1 \in DOMAIN more
    BY <1>1
  <1> QED BY <1>1, <1>2, <1>3

LEMMA StepFinds ==
    ASSUME NEW known, NEW r, NEW seq, NEW m \in Nat, Found(known, r, seq, m), seq[m + 1] \in Articles
    PROVE  Found(known, Step(known, r, seq[m + 1]), seq, m + 1)
  <1> DEFINE a == seq[m + 1]
  <1>1. \A i \in 1..(m + 1) : i \in 1..m \/ i = m + 1
    OBVIOUS
  <1>2. r \in Seq(Articles)
    BY DEF Found
  <1> HIDE DEF a
  <1>3. CASE \E b \in known \cup Elements(r) : Akin(a, b)
    <2>1. Step(known, r, a) = r
      BY <1>3 DEF Step
    <2>2. \A i \in 1..(m + 1) : \E b \in known \cup Elements(r) : Akin(seq[i], b)
      BY <1>1, <1>3 DEF Found, a
    <2> QED BY <2>1, <2>2 DEF Found, a
  <1>4. CASE ~ \E b \in known \cup Elements(r) : Akin(a, b)
    <2> DEFINE more == Append(r, a)
    <2> HIDE DEF more
    <2>1. Step(known, r, a) = more
      BY <1>4 DEF Step, more
    <2>2. /\ more \in Seq(Articles)
          /\ \A i \in DOMAIN more : \/ i \in DOMAIN r /\ more[i] = r[i]
                                    \/ more[i] = a /\ \A j \in DOMAIN more : ~ (i < j)
          /\ \A i \in DOMAIN r : i \in DOMAIN more /\ more[i] = r[i]
          /\ \E i \in DOMAIN more : more[i] = a
      <3>1. a \in Articles /\ more = Append(r, a)
        BY DEF a, more
      <3> QED BY <1>2, <3>1, ArticleAppended
    <2>3. Elements(r) \subseteq Elements(more) /\ a \in Elements(more)
      BY <2>2 DEF Elements
    <2>4. \A i, j \in DOMAIN more : i < j => ~ Akin(more[j], more[i])
      <3> SUFFICES ASSUME NEW i \in DOMAIN more, NEW j \in DOMAIN more, i < j PROVE ~ Akin(more[j], more[i])
        OBVIOUS
      <3>1. i \in DOMAIN r /\ more[i] = r[i]
        BY <2>2
      <3>2. more[i] \in Elements(r)
        BY <3>1 DEF Elements
      <3>3. CASE j \in DOMAIN r /\ more[j] = r[j]
        BY <3>1, <3>3 DEF Found
      <3>4. CASE more[j] = a
        BY <1>4, <3>2, <3>4
      <3> QED BY <2>2, <3>3, <3>4
    <2>5. \A i \in DOMAIN more : \A b \in known : ~ Akin(more[i], b)
      BY <1>4, <2>2 DEF Found
    <2>6. \A i \in 1..(m + 1) : \E b \in known \cup Elements(more) : Akin(seq[i], b)
      <3> SUFFICES ASSUME NEW i \in 1..(m + 1) PROVE \E b \in known \cup Elements(more) : Akin(seq[i], b)
        OBVIOUS
      <3>1. CASE i \in 1..m
        BY <2>3, <3>1 DEF Found
      <3>2. CASE i = m + 1
        BY <2>3, <3>2, AkinIs DEF a
      <3> QED BY <1>1, <3>1, <3>2
    <2>7. Found(known, more, seq, m + 1)
      BY <2>2, <2>4, <2>5, <2>6 DEF Found
    <2> QED BY <2>1, <2>7 DEF a
  <1> QED BY <1>3, <1>4

LEMMA EntryIn == \A seq \in Seq(Articles) : \A i \in 1..Len(seq) : seq[i] \in Articles
  OBVIOUS

LEMMA ShorterInterval ==
    \A m \in Nat : /\ (1..(m + 1)) \ {m + 1} = 1..m
                   /\ 1..(m + 1) # {} /\ m + 1 \in 1..(m + 1)
                   /\ \A n \in Nat : m + 1 <= n => 1..(m + 1) \in SUBSET (1..n)
  OBVIOUS

LEMMA TableFinds ==
    ASSUME NEW known, NEW seq \in Seq(Articles), NEW n \in Nat, n = Len(seq), NEW f, Tabled(f, known, seq, n)
    PROVE  Found(known, f[1..n], seq, n)
  <1> DEFINE T == {m \in Nat : m <= n => Found(known, f[1..m], seq, m)}
  <1>1. 0 \in T
    <2>1. 1..0 = {} /\ {} \in SUBSET (1..n)
      OBVIOUS
    <2>2. f[{}] = <<>>
      BY <2>1 DEF Tabled
    <2>3. <<>> \in Seq(Articles) /\ DOMAIN <<>> = {}
      OBVIOUS
    <2> QED BY <2>1, <2>2, <2>3 DEF Found
  <1>2. ASSUME NEW m \in Nat, m \in T PROVE m + 1 \in T
    <2> SUFFICES ASSUME m + 1 <= n PROVE Found(known, f[1..(m + 1)], seq, m + 1)
      OBVIOUS
    <2>1. m <= n
      OBVIOUS
    <2>2. Found(known, f[1..m], seq, m)
      BY <1>2, <2>1
    <2>3. 1..(m + 1) \in SUBSET (1..n) /\ 1..(m + 1) # {} /\ m + 1 \in 1..(m + 1)
      BY ShorterInterval
    <2>4. Greatest(1..(m + 1)) = m + 1
      BY <2>3, GreatestTop
    <2>5. (1..(m + 1)) \ {m + 1} = 1..m
      BY ShorterInterval
    <2>6. f[1..(m + 1)] = Step(known, f[1..m], seq[m + 1])
      BY <2>3, <2>4, <2>5 DEF Tabled
    <2>7. seq[m + 1] \in Articles
      <3>1. m + 1 \in 1..Len(seq)
        BY <2>1
      <3> QED BY <3>1, EntryIn
    <2> QED BY <2>2, <2>6, <2>7, StepFinds
  <1> HIDE DEF T
  <1>3. \A m \in Nat : m \in T
    BY <1>1, <1>2, Induction
  <1> QED BY <1>3 DEF T

\* What is new in a fetch: nothing like another, nothing like what is known, and everything
\* else is.
LEMMA NewFinds ==
    ASSUME NEW known, NEW seq \in Seq(Articles)
    PROVE  Found(known, Feeding!New(known, seq), seq, Len(seq))
  <1>1. Len(seq) \in Nat /\ DOMAIN seq = 1..Len(seq)
    OBVIOUS
  <1> QED BY <1>1, NewIsTabled, TableFinds

-----------------------------------------------------------------------------
(* What the collector remembers, of what it has stored.                    *)

\* a is in memory, with at most d others after it, or as many came as are remembered.
Recalled(s, a, d) == d >= SeenMax \/ \E p \in DOMAIN s : s[p] = a /\ Len(s) - p <= d

\* more: what came after the last observation.
InMind(s, log, from, more) ==
    \A j \in (from + 1)..Len(log) : Recalled(s, log[j], (Len(log) - j) + more)

KeptInMind(s, found) == \A q \in 1..Len(found) : Recalled(s, found[q], Len(found) - q)

\* StoredOnce, and what is to be stored against what is.
Once(log, from, more) ==
    \A j, k \in (from + 1)..Len(log) : j < k /\ Akin(log[j], log[k]) => (k - j - 1) + more >= SeenMax

Fresh(log, from, more, found) ==
    \A j \in (from + 1)..Len(log) : \A q \in 1..Len(found) :
        Akin(log[j], found[q]) => (Len(log) - j) + more >= SeenMax

Unlike(found) == \A i, j \in DOMAIN found : i < j => ~ Akin(found[j], found[i])

LEMMA Joined ==
    \A s, k \in Seq(Articles) :
        /\ s \o k \in Seq(Articles) /\ Len(s \o k) = Len(s) + Len(k)
        /\ \A i \in 1..Len(s) : (s \o k)[i] = s[i]
        /\ \A i \in 1..Len(k) : (s \o k)[Len(s) + i] = k[i]
        /\ Len(s) \in Nat /\ Len(k) \in Nat
        /\ DOMAIN s = 1..Len(s) /\ DOMAIN k = 1..Len(k)
  OBVIOUS

LEMMA MemoryIsNatural == SeenMax \in Nat
  BY FeedsAssumption

\* A bounded memory keeps the newest.
LEMMA LastOfIs ==
    ASSUME NEW u \in Seq(Articles)
    PROVE  /\ Feeding!LastOf(u) \in Seq(Articles)
           /\ \A p \in DOMAIN Feeding!LastOf(u) : \E i \in DOMAIN u : Feeding!LastOf(u)[p] = u[i]
           /\ \A i \in 1..Len(u) : Recalled(Feeding!LastOf(u), u[i], Len(u) - i)
  <1>1. Len(u) \in Nat /\ DOMAIN u = 1..Len(u) /\ SeenMax \in Nat
    BY MemoryIsNatural
  <1>2. CASE ~ (Len(u) > SeenMax)
    <2>1. Feeding!LastOf(u) = SubSeq(u, 1, Len(u))
      BY <1>2 DEF Feeding!LastOf
    <2>2. SubSeq(u, 1, Len(u)) = u
      OBVIOUS
    <2>3. Feeding!LastOf(u) = u
      BY <2>1, <2>2
    <2> QED BY <1>1, <2>3 DEF Recalled
  <1>3. CASE Len(u) > SeenMax
    <2> DEFINE d == Len(u) - SeenMax
               s == SubSeq(u, d + 1, Len(u))
    <2>1. Feeding!LastOf(u) = s
      BY <1>3 DEF Feeding!LastOf
    <2>2. d \in Nat /\ d + 1 \in 1..(Len(u) + 1)
      BY <1>1, <1>3
    <2>3. /\ s \in Seq(Articles) /\ Len(s) = SeenMax /\ DOMAIN s = 1..SeenMax
          /\ \A p \in 1..SeenMax : s[p] = u[d + p] /\ d + p \in 1..Len(u)
      BY <1>1, <1>3
    <2> HIDE DEF s
    <2>4. ASSUME NEW i \in 1..Len(u) PROVE Recalled(s, u[i], Len(u) - i)
      <3>1. CASE i > d
        <4>1. i - d \in 1..SeenMax /\ d + (i - d) = i /\ SeenMax - (i - d) <= Len(u) - i
          BY <1>1, <2>2, <3>1
        <4>2. s[i - d] = u[i]
          BY <2>3, <4>1
        <4> QED BY <2>3, <4>1, <4>2 DEF Recalled
      <3>2. CASE ~ (i > d)
        <4>1. Len(u) - i >= SeenMax
          BY <1>1, <2>2, <3>2
        <4> QED BY <4>1 DEF Recalled
      <3> QED BY <3>1, <3>2
    <2> QED BY <1>1, <2>1, <2>3, <2>4
  <1> QED BY <1>2, <1>3

LEMMA RecalledLonger ==
    ASSUME NEW s \in Seq(Articles), NEW a, NEW d \in Int, NEW e \in Int, d <= e, Recalled(s, a, d)
    PROVE  Recalled(s, a, e)
  <1>1. SeenMax \in Nat /\ Len(s) \in Nat /\ DOMAIN s = 1..Len(s)
    BY MemoryIsNatural
  <1>2. CASE d >= SeenMax
    <2>1. e >= SeenMax
      BY <1>1, <1>2
    <2> QED BY <2>1 DEF Recalled
  <1>3. CASE \E p \in DOMAIN s : s[p] = a /\ Len(s) - p <= d
    <2>1. PICK p \in DOMAIN s : s[p] = a /\ Len(s) - p <= d
      BY <1>3
    <2>2. Len(s) - p <= e
      BY <1>1, <2>1
    <2> QED BY <2>1, <2>2 DEF Recalled
  <1> QED BY <1>2, <1>3 DEF Recalled

\* What is added to memory pushes back what was there.
LEMMA PushedBack ==
    ASSUME NEW s \in Seq(Articles), NEW k \in Seq(Articles)
    PROVE  /\ \A a : \A d \in Int :
                  Recalled(s, a, d) => Recalled(Feeding!LastOf(s \o k), a, d + Len(k))
           /\ KeptInMind(Feeding!LastOf(s \o k), k)
  <1> DEFINE u == s \o k
             m == Feeding!LastOf(s \o k)
  <1>1. /\ u \in Seq(Articles) /\ Len(u) = Len(s) + Len(k) /\ Len(s) \in Nat /\ Len(k) \in Nat
        /\ \A i \in 1..Len(s) : u[i] = s[i]
        /\ \A i \in 1..Len(k) : u[Len(s) + i] = k[i]
        /\ DOMAIN s = 1..Len(s)
    BY Joined
  <1>2. SeenMax \in Nat
    BY MemoryIsNatural
  <1>3. m \in Seq(Articles) /\ \A i \in 1..Len(u) : Recalled(m, u[i], Len(u) - i)
    BY <1>1, LastOfIs
  <1> HIDE DEF u, m
  <1>4. ASSUME NEW a, NEW d \in Int, Recalled(s, a, d) PROVE Recalled(m, a, d + Len(k))
    <2>1. CASE d >= SeenMax
      <3>1. d + Len(k) >= SeenMax
        BY <1>1, <1>2, <2>1
      <3> QED BY <3>1 DEF Recalled
    <2>2. CASE \E p \in DOMAIN s : s[p] = a /\ Len(s) - p <= d
      <3>1. PICK p \in 1..Len(s) : s[p] = a /\ Len(s) - p <= d
        BY <1>1, <2>2
      <3>2. u[p] = a /\ p \in 1..Len(u) /\ Len(u) - p <= d + Len(k) /\ Len(u) - p \in Int
            /\ d + Len(k) \in Int
        BY <1>1, <3>1
      <3>3. Recalled(m, a, Len(u) - p)
        BY <1>3, <3>2
      <3> QED BY <1>3, <3>2, <3>3, RecalledLonger
    <2> QED BY <1>4, <2>1, <2>2 DEF Recalled
  <1>5. ASSUME NEW q \in 1..Len(k) PROVE Recalled(m, k[q], Len(k) - q)
    <2>1. Len(s) + q \in 1..Len(u) /\ Len(u) - (Len(s) + q) = Len(k) - q /\ u[Len(s) + q] = k[q]
      BY <1>1
    <2> QED BY <1>3, <2>1
  <1> QED BY <1>4, <1>5 DEF m, KeptInMind

LEMMA ScoredInMind ==
    ASSUME NEW s \in Seq(Articles), NEW k \in Seq(Articles), NEW log \in Seq(Articles), NEW from \in Nat,
           NEW more \in Nat, InMind(s, log, from, more)
    PROVE  InMind(Feeding!LastOf(s \o k), log, from, more + Len(k))
  <1> SUFFICES ASSUME NEW j \in (from + 1)..Len(log)
               PROVE  Recalled(Feeding!LastOf(s \o k), log[j], (Len(log) - j) + (more + Len(k)))
    BY DEF InMind
  <1>1. Len(k) \in Nat /\ Len(log) \in Nat /\ j \in Int
    OBVIOUS
  <1>2. Recalled(s, log[j], (Len(log) - j) + more)
    BY DEF InMind
  <1>3. (Len(log) - j) + more \in Int
        /\ ((Len(log) - j) + more) + Len(k) = (Len(log) - j) + (more + Len(k))
    BY <1>1
  <1>4. Recalled(Feeding!LastOf(s \o k), log[j], ((Len(log) - j) + more) + Len(k))
    BY <1>2, <1>3, PushedBack
  <1> QED BY <1>3, <1>4

LEMMA StoredInMind ==
    ASSUME NEW s \in Seq(Articles), NEW k \in Seq(Articles), NEW log \in Seq(Articles), NEW from \in Nat,
           NEW more \in Nat, InMind(s, log, from, more + Len(k)), KeptInMind(s, k)
    PROVE  InMind(s, log \o k, from, more)
  <1> DEFINE u == log \o k
  <1>1. /\ u \in Seq(Articles) /\ Len(u) = Len(log) + Len(k) /\ Len(log) \in Nat /\ Len(k) \in Nat
        /\ \A i \in 1..Len(log) : u[i] = log[i]
        /\ \A i \in 1..Len(k) : u[Len(log) + i] = k[i]
    BY Joined
  <1> HIDE DEF u
  <1> SUFFICES ASSUME NEW j \in (from + 1)..Len(u) PROVE Recalled(s, u[j], (Len(u) - j) + more)
    BY DEF InMind, u
  <1>2. CASE j <= Len(log)
    <2>1. j \in (from + 1)..Len(log) /\ u[j] = log[j]
          /\ (Len(u) - j) + more = (Len(log) - j) + (more + Len(k))
      BY <1>1, <1>2
    <2>2. Recalled(s, log[j], (Len(log) - j) + (more + Len(k)))
      BY <2>1 DEF InMind
    <2> QED BY <2>1, <2>2
  <1>3. CASE ~ (j <= Len(log))
    <2> DEFINE q == j - Len(log)
    <2>1. q \in 1..Len(k) /\ u[j] = k[q] /\ Len(k) - q <= (Len(u) - j) + more
          /\ Len(k) - q \in Int /\ (Len(u) - j) + more \in Int
      <3>1. q \in 1..Len(k) /\ j = Len(log) + q
        BY <1>1, <1>3
      <3> QED BY <1>1, <3>1
    <2> HIDE DEF q
    <2>2. Recalled(s, k[q], Len(k) - q)
      BY <2>1 DEF KeptInMind
    <2>3. Recalled(s, k[q], (Len(u) - j) + more)
      BY <2>1, <2>2, RecalledLonger
    <2> QED BY <2>1, <2>3
  <1> QED BY <1>2, <1>3

LEMMA StoredStaysOnce ==
    ASSUME NEW k \in Seq(Articles), NEW log \in Seq(Articles), NEW from \in Nat, NEW more \in Nat,
           Once(log, from, more), Fresh(log, from, more, k), Unlike(k)
    PROVE  Once(log \o k, from, more)
  <1> DEFINE u == log \o k
  <1>1. /\ u \in Seq(Articles) /\ Len(u) = Len(log) + Len(k) /\ Len(log) \in Nat /\ Len(k) \in Nat
        /\ \A i \in 1..Len(log) : u[i] = log[i]
        /\ \A i \in 1..Len(k) : u[Len(log) + i] = k[i]
        /\ DOMAIN k = 1..Len(k)
    BY Joined
  <1>2. SeenMax \in Nat
    BY MemoryIsNatural
  <1> HIDE DEF u
  <1> SUFFICES ASSUME NEW i \in (from + 1)..Len(u), NEW j \in (from + 1)..Len(u), i < j, Akin(u[i], u[j])
               PROVE  (j - i - 1) + more >= SeenMax
    BY DEF Once, u
  <1>3. CASE j <= Len(log)
    <2>1. i \in (from + 1)..Len(log) /\ j \in (from + 1)..Len(log) /\ u[i] = log[i] /\ u[j] = log[j]
      BY <1>1, <1>3
    <2> QED BY <2>1 DEF Once
  <1>4. CASE ~ (j <= Len(log)) /\ i <= Len(log)
    <2>1. PICK q \in 1..Len(k) : j = Len(log) + q
      <3>1. j - Len(log) \in 1..Len(k) /\ j = Len(log) + (j - Len(log))
        BY <1>1, <1>4
      <3> QED BY <3>1
    <2>2. i \in (from + 1)..Len(log) /\ u[i] = log[i] /\ u[j] = k[q]
      BY <1>1, <1>4, <2>1
    <2>3. (Len(log) - i) + more >= SeenMax
      BY <2>1, <2>2 DEF Fresh
    <2> QED BY <1>1, <1>2, <2>1, <2>3
  <1>5. CASE ~ (i <= Len(log))
    <2>1. PICK p \in 1..Len(k) : i = Len(log) + p
      <3>1. i - Len(log) \in 1..Len(k) /\ i = Len(log) + (i - Len(log))
        BY <1>1, <1>5
      <3> QED BY <3>1
    <2>2. PICK q \in 1..Len(k) : j = Len(log) + q
      <3>1. j - Len(log) \in 1..Len(k) /\ j = Len(log) + (j - Len(log))
        BY <1>1, <1>5
      <3> QED BY <3>1
    <2>3. p < q /\ u[i] = k[p] /\ u[j] = k[q]
      BY <1>1, <2>1, <2>2
    <2>4. ~ Akin(k[q], k[p])
      BY <1>1, <2>3 DEF Unlike
    <2> QED BY <2>3, <2>4, AkinIs
  <1> QED BY <1>1, <1>3, <1>4, <1>5

\* What a fetch finds new is like nothing the collector remembers.
LEMMA FoundIsFresh ==
    ASSUME NEW s \in Seq(Articles), NEW k \in Seq(Articles), NEW log \in Seq(Articles), NEW from \in Nat,
           NEW more \in Nat, InMind(s, log, from, more),
           \A q \in DOMAIN k : \A b \in Elements(s) : ~ Akin(k[q], b)
    PROVE  Fresh(log, from, more, k)
  <1> SUFFICES ASSUME NEW j \in (from + 1)..Len(log), NEW q \in 1..Len(k), Akin(log[j], k[q])
               PROVE  (Len(log) - j) + more >= SeenMax
    BY DEF Fresh
  <1>1. q \in DOMAIN k
    OBVIOUS
  <1>2. log[j] \notin Elements(s)
    BY <1>1, AkinIs
  <1>3. Recalled(s, log[j], (Len(log) - j) + more)
    BY DEF InMind
  <1> QED BY <1>2, <1>3 DEF Recalled, Elements

LEMMA LostStaysOnce ==
    ASSUME NEW log \in Seq(Articles), NEW from \in Nat, NEW more \in Nat, NEW less \in Nat, less <= more,
           Once(log, from, less)
    PROVE  Once(log, from, more)
  <1> SUFFICES ASSUME NEW i \in (from + 1)..Len(log), NEW j \in (from + 1)..Len(log), i < j,
                      Akin(log[i], log[j])
               PROVE  (j - i - 1) + more >= SeenMax
    BY DEF Once
  <1>1. (j - i - 1) + less >= SeenMax /\ SeenMax \in Nat /\ i \in Int /\ j \in Int
    BY MemoryIsNatural DEF Once
  <1> QED BY <1>1

FeedsType ==
    /\ served \in Seq(Articles) /\ seen \in Seq(Articles) /\ kept \in Seq(Articles)
    /\ stored \in Seq(Articles) /\ lost \in Seq(Articles)
    /\ since \in Nat

\* What is, or is about to be, where a reader of the log or of the records finds it.
Accounted == Elements(stored) \cup Elements(lost)

Remembering ==
    /\ pc # "persisting" => InMind(seen, stored, since, Len(lost))
    /\ pc = "persisting" => InMind(seen, stored, since, Len(lost) + Len(kept)) /\ KeptInMind(seen, kept)

FeedsOnce ==
    /\ Once(stored, since, Len(lost))
    /\ pc # "idle" => Fresh(stored, since, Len(lost), kept)
    /\ Unlike(kept)

FeedsCovered ==
    /\ pc # "persisting" => Elements(seen) \subseteq Accounted
    /\ pc = "persisting" => Elements(seen) \subseteq Accounted \cup Elements(kept)
    /\ pc # "idle" => \A a \in fetched : \E b \in Accounted \cup Elements(kept) : Akin(a, b)
    /\ \A a \in taken : \E b \in Accounted : Akin(a, b)

FeedsInv == FeedsType /\ Remembering /\ FeedsOnce /\ FeedsCovered

LEMMA NothingYet ==
    /\ <<>> \in Seq(Articles) /\ Len(<<>>) = 0 /\ Elements(<<>>) = {} /\ Unlike(<<>>)
    /\ \A s, log, from, more : log = <<>> /\ from = 0 => InMind(s, log, from, more) /\ Once(log, from, more)
    /\ \A s, log, more : log \in Seq(Articles) => InMind(s, log, Len(log), more) /\ Once(log, Len(log), more)
  <1>1. <<>> \in Seq(Articles) /\ Len(<<>>) = 0 /\ DOMAIN <<>> = {}
    OBVIOUS
  <1>2. Elements(<<>>) = {} /\ Unlike(<<>>)
    BY <1>1 DEF Elements, Unlike
  <1>3. ASSUME NEW s, NEW log, NEW more, log \in Seq(Articles)
        PROVE  InMind(s, log, Len(log), more) /\ Once(log, Len(log), more)
    <2>1. (Len(log) + 1)..Len(log) = {}
      OBVIOUS
    <2> QED BY <2>1 DEF InMind, Once
  <1>4. ASSUME NEW s, NEW more PROVE InMind(s, <<>>, 0, more) /\ Once(<<>>, 0, more)
    BY <1>1, <1>3
  <1> QED BY <1>1, <1>2, <1>3, <1>4

LEMMA InitFeeds == Feeding!Init => FeedsInv
  <1> SUFFICES ASSUME Feeding!Init PROVE FeedsInv
    OBVIOUS
  <1>1. /\ served = <<>> /\ seen = <<>> /\ fetched = {} /\ kept = <<>> /\ pc = "idle"
        /\ stored = <<>> /\ lost = <<>> /\ taken = {} /\ since = 0
    BY DEF Feeding!Init
  <1>2. FeedsType
    BY <1>1, NothingYet DEF FeedsType
  <1>3. Remembering
    BY <1>1, NothingYet DEF Remembering
  <1>4. FeedsOnce
    BY <1>1, NothingYet DEF FeedsOnce
  <1>5. FeedsCovered
    BY <1>1, NothingYet DEF FeedsCovered
  <1> QED BY <1>2, <1>3, <1>4, <1>5 DEF FeedsInv

LEMMA PublishServes ==
    ASSUME served \in Seq(Articles), NEW a \in Articles, Feeding!Publish(a)
    PROVE  served' \in Seq(Articles)
  <1> DEFINE others == Feeding!RemoveFirst(served, a)
  <1>1. others \in Seq(Articles)
    <2>1. CASE ~ \E i \in 1..Len(served) : served[i] = a
      BY <2>1 DEF Feeding!RemoveFirst
    <2>2. CASE \E i \in 1..Len(served) : served[i] = a
      <3> DEFINE I == {i \in 1..Len(served) : served[i] = a}
                 first == Feeding!SelectInSeq(served, LAMBDA v : v = a)
      <3>1. first \in 1..Len(served)
        <4>1. I # {} /\ I \subseteq Nat /\ I \subseteq 1..Len(served)
          BY <2>2
        <4>2. \E x \in I : \A y \in I : x <= y
          BY <4>1, LeastNatural
        <4>3. first = CHOOSE x \in I : \A y \in I : x <= y
          BY <4>1 DEF Feeding!SelectInSeq, Feeding!Min
        <4> HIDE DEF first
        <4>4. first \in I
          BY <4>2, <4>3
        <4> QED BY <4>1, <4>4
      <3>2. others = SubSeq(served, 1, first - 1) \o SubSeq(served, first + 1, Len(served))
        BY <2>2 DEF Feeding!RemoveFirst, Feeding!RemoveAt
      <3> HIDE DEF first, others
      <3>3. SubSeq(served, 1, first - 1) \in Seq(Articles)
        BY <3>1
      <3>4. SubSeq(served, first + 1, Len(served)) \in Seq(Articles)
        BY <3>1
      <3> QED BY <3>2, <3>3, <3>4, Joined
    <2> QED BY <2>1, <2>2
  <1>2. served' = <<a>> \o (IF Len(others) < FeedLength THEN others ELSE Feeding!Front(others))
    BY DEF Feeding!Publish
  <1> HIDE DEF others
  <1>3. <<a>> \in Seq(Articles)
    OBVIOUS
  <1>4. CASE Len(others) < FeedLength
    BY <1>1, <1>2, <1>3, <1>4, Joined
  <1>5. CASE ~ (Len(others) < FeedLength)
    <2>1. Feeding!Front(others) \in Seq(Articles)
      <3>1. Len(others) \in Nat /\ FeedLength \in Nat \ {0}
        BY <1>1, FeedsAssumption
      <3>2. Len(others) >= 1
        BY <1>5, <3>1
      <3>3. SubSeq(others, 1, Len(others) - 1) \in Seq(Articles)
        BY <1>1, <3>1, <3>2
      <3> QED BY <3>3 DEF Feeding!Front
    <2> QED BY <1>2, <1>3, <1>5, <2>1, Joined
  <1> QED BY <1>4, <1>5

LEMMA ElementsJoined ==
    \A s, k \in Seq(Articles) : Elements(s \o k) = Elements(s) \cup Elements(k)
  <1> SUFFICES ASSUME NEW s \in Seq(Articles), NEW k \in Seq(Articles)
               PROVE  Elements(s \o k) = Elements(s) \cup Elements(k)
    OBVIOUS
  <1> DEFINE u == s \o k
  <1>1. /\ u \in Seq(Articles) /\ Len(u) = Len(s) + Len(k) /\ Len(s) \in Nat /\ Len(k) \in Nat
        /\ \A i \in 1..Len(s) : u[i] = s[i]
        /\ \A i \in 1..Len(k) : u[Len(s) + i] = k[i]
        /\ DOMAIN s = 1..Len(s) /\ DOMAIN k = 1..Len(k) /\ DOMAIN u = 1..Len(u)
    BY Joined
  <1> HIDE DEF u
  <1>2. ASSUME NEW i \in DOMAIN u PROVE u[i] \in Elements(s) \cup Elements(k)
    <2>1. CASE i <= Len(s)
      <3>1. i \in DOMAIN s /\ u[i] = s[i]
        BY <1>1, <2>1
      <3> QED BY <3>1 DEF Elements
    <2>2. CASE ~ (i <= Len(s))
      <3>1. i - Len(s) \in 1..Len(k) /\ i = Len(s) + (i - Len(s))
        BY <1>1, <2>2
      <3>2. i - Len(s) \in DOMAIN k /\ u[i] = k[i - Len(s)]
        BY <1>1, <3>1
      <3> QED BY <3>2 DEF Elements
    <2> QED BY <2>1, <2>2
  <1>3. \A i \in DOMAIN s : i \in DOMAIN u /\ u[i] = s[i]
    BY <1>1
  <1>4. ASSUME NEW i \in DOMAIN k PROVE Len(s) + i \in DOMAIN u /\ u[Len(s) + i] = k[i]
    BY <1>1
  <1>5. Elements(u) \subseteq Elements(s) \cup Elements(k)
    BY <1>2 DEF Elements
  <1>6. Elements(s) \subseteq Elements(u) /\ Elements(k) \subseteq Elements(u)
    BY <1>3, <1>4 DEF Elements
  <1> QED BY <1>5, <1>6 DEF u

LEMMA LastOfElements ==
    \A u \in Seq(Articles) : Elements(Feeding!LastOf(u)) \subseteq Elements(u)
  BY LastOfIs DEF Elements

LEMMA FetchKeeps == ASSUME FeedsInv, Feeding!Collect PROVE FeedsInv'
  <1>1. /\ FeedsType /\ Remembering /\ FeedsOnce /\ FeedsCovered
    BY DEF FeedsInv
  <1>2. /\ pc = "idle" /\ pc' = "scoring" /\ fetched' = Elements(served)
        /\ kept' = Feeding!New(Elements(seen), served)
        /\ served' = served /\ seen' = seen /\ stored' = stored /\ lost' = lost /\ taken' = taken
        /\ since' = since
    BY DEF Feeding!Collect, Feeding!ToSet, Elements
  <1>3. /\ Found(Elements(seen), kept', served, Len(served)) /\ kept' \in Seq(Articles)
    BY <1>1, <1>2, NewFinds DEF FeedsType, Found
  <1>4. FeedsType'
    BY <1>1, <1>2, <1>3 DEF FeedsType
  <1>5. InMind(seen, stored, since, Len(lost))
    BY <1>1, <1>2 DEF Remembering
  <1>6. Remembering'
    BY <1>2, <1>5 DEF Remembering
  <1>7. FeedsOnce'
    <2>1. Unlike(kept')
      BY <1>3 DEF Found, Unlike
    <2>2. Fresh(stored, since, Len(lost), kept')
      <3>1. \A q \in DOMAIN kept' : \A b \in Elements(seen) : ~ Akin(kept'[q], b)
        BY <1>3 DEF Found
      <3>2. Len(lost) \in Nat
        BY <1>1 DEF FeedsType
      <3>3. PICK k \in Seq(Articles) : k = kept'
        BY <1>3
      <3> QED BY <1>1, <1>5, <3>1, <3>2, <3>3, FoundIsFresh DEF FeedsType
    <2>3. Once(stored, since, Len(lost))
      BY <1>1 DEF FeedsOnce
    <2> QED BY <1>2, <2>1, <2>2, <2>3 DEF FeedsOnce
  <1>8. FeedsCovered'
    <2>1. Elements(seen) \subseteq Accounted
      BY <1>1, <1>2 DEF FeedsCovered
    <2>2. Accounted' = Accounted
      BY <1>2 DEF Accounted
    <2>3. \A a \in Elements(served) : \E b \in Elements(seen) \cup Elements(kept') : Akin(a, b)
      <3>1. DOMAIN served = 1..Len(served)
        BY <1>1 DEF FeedsType
      <3> QED BY <1>3, <3>1 DEF Found, Elements
    <2>4. \A a \in taken : \E b \in Accounted : Akin(a, b)
      BY <1>1 DEF FeedsCovered
    <2>5. \A a \in fetched' : \E b \in Accounted' \cup Elements(kept') : Akin(a, b)
      BY <1>2, <2>1, <2>2, <2>3
    <2>6. Elements(seen') \subseteq Accounted' /\ \A a \in taken' : \E b \in Accounted' : Akin(a, b)
      BY <1>2, <2>1, <2>2, <2>4
    <2>7. pc' # "persisting"
      BY <1>2
    <2> QED BY <2>5, <2>6, <2>7, Zenon DEF FeedsCovered, Elements
  <1> QED BY <1>4, <1>6, <1>7, <1>8 DEF FeedsInv

LEMMA ScoreKeeps == ASSUME FeedsInv, Feeding!Score PROVE FeedsInv'
  <1>1. /\ FeedsType /\ Remembering /\ FeedsOnce /\ FeedsCovered
    BY DEF FeedsInv
  <1>2. /\ pc = "scoring" /\ pc' = "persisting" /\ seen' = Feeding!LastOf(seen \o kept)
        /\ fetched' = fetched /\ kept' = kept
        /\ served' = served /\ stored' = stored /\ lost' = lost /\ taken' = taken /\ since' = since
    BY DEF Feeding!Score
  <1>3. /\ seen \in Seq(Articles) /\ kept \in Seq(Articles) /\ stored \in Seq(Articles)
        /\ since \in Nat /\ Len(lost) \in Nat
    BY <1>1 DEF FeedsType
  <1>4. seen \o kept \in Seq(Articles) /\ seen' \in Seq(Articles)
    BY <1>2, <1>3, Joined, LastOfIs
  <1>5. FeedsType'
    BY <1>1, <1>2, <1>4 DEF FeedsType
  <1>6. Remembering'
    <2>1. InMind(seen, stored, since, Len(lost))
      BY <1>1, <1>2 DEF Remembering
    <2>2. InMind(Feeding!LastOf(seen \o kept), stored, since, Len(lost) + Len(kept))
      BY <1>3, <2>1, ScoredInMind
    <2>3. KeptInMind(Feeding!LastOf(seen \o kept), kept)
      BY <1>3, PushedBack
    <2> QED BY <1>2, <2>2, <2>3 DEF Remembering
  <1>7. FeedsOnce'
    BY <1>1, <1>2 DEF FeedsOnce
  <1>8. FeedsCovered'
    <2>1. Elements(seen') \subseteq Elements(seen) \cup Elements(kept)
      <3>1. Elements(Feeding!LastOf(seen \o kept)) \subseteq Elements(seen \o kept)
        BY <1>4, LastOfElements
      <3>2. Elements(seen \o kept) = Elements(seen) \cup Elements(kept)
        BY <1>3, ElementsJoined
      <3> QED BY <1>2, <3>1, <3>2
    <2>2. Elements(seen) \subseteq Accounted
      BY <1>1, <1>2 DEF FeedsCovered
    <2>3. Accounted' = Accounted /\ Elements(kept') = Elements(kept)
      BY <1>2 DEF Accounted
    <2>4. \A a \in fetched : \E b \in Accounted \cup Elements(kept) : Akin(a, b)
      BY <1>1, <1>2 DEF FeedsCovered
    <2>5. \A a \in taken : \E b \in Accounted : Akin(a, b)
      BY <1>1 DEF FeedsCovered
    <2>6. Elements(seen') \subseteq Accounted' \cup Elements(kept')
      BY <2>1, <2>2, <2>3
    <2>7. /\ \A a \in fetched' : \E b \in Accounted' \cup Elements(kept') : Akin(a, b)
          /\ \A a \in taken' : \E b \in Accounted' : Akin(a, b)
      BY <1>2, <2>3, <2>4, <2>5
    <2> QED BY <1>2, <2>6, <2>7, Zenon DEF FeedsCovered, Elements
  <1> QED BY <1>5, <1>6, <1>7, <1>8 DEF FeedsInv

LEMMA ScoringFailsKeeps == ASSUME FeedsInv, Feeding!ScoringFails PROVE FeedsInv'
  <1>1. /\ FeedsType /\ Remembering /\ FeedsOnce /\ FeedsCovered
    BY DEF FeedsInv
  <1>2. /\ pc = "scoring" /\ pc' = "idle" /\ fetched' = {} /\ kept' = <<>>
        /\ seen' = seen /\ served' = served /\ stored' = stored /\ lost' = lost /\ taken' = taken
        /\ since' = since
    BY DEF Feeding!ScoringFails, Feeding!EndRun
  <1>3. FeedsType'
    BY <1>1, <1>2, NothingYet DEF FeedsType
  <1>4. Remembering'
    BY <1>1, <1>2 DEF Remembering
  <1>5. FeedsOnce'
    BY <1>1, <1>2, NothingYet DEF FeedsOnce
  <1>6. FeedsCovered'
    BY <1>1, <1>2 DEF FeedsCovered, Accounted
  <1> QED BY <1>3, <1>4, <1>5, <1>6 DEF FeedsInv

LEMMA FeedRestartKeeps == ASSUME FeedsInv, Feeding!Restart PROVE FeedsInv'
  <1>1. /\ FeedsType /\ Remembering /\ FeedsOnce /\ FeedsCovered
    BY DEF FeedsInv
  <1>2. /\ pc' = "idle" /\ fetched' = {} /\ kept' = <<>> /\ seen' = <<>> /\ since' = Len(stored)
        /\ served' = served /\ stored' = stored /\ lost' = lost /\ taken' = taken
    BY DEF Feeding!Restart, Feeding!EndRun
  <1>3. FeedsType'
    BY <1>1, <1>2, NothingYet DEF FeedsType
  <1>4. Remembering'
    BY <1>1, <1>2, NothingYet DEF Remembering, FeedsType
  <1>5. FeedsOnce'
    BY <1>1, <1>2, NothingYet DEF FeedsOnce, FeedsType
  <1>6. FeedsCovered'
    BY <1>1, <1>2, NothingYet DEF FeedsCovered, Accounted
  <1> QED BY <1>3, <1>4, <1>5, <1>6 DEF FeedsInv

LEMMA PersistKeeps == ASSUME FeedsInv, Feeding!Persist PROVE FeedsInv'
  <1>1. /\ FeedsType /\ Remembering /\ FeedsOnce /\ FeedsCovered
    BY DEF FeedsInv
  <1>2. /\ pc = "persisting" /\ pc' = "idle" /\ fetched' = {} /\ kept' = <<>>
        /\ taken' = taken \cup fetched
        /\ seen' = seen /\ served' = served /\ since' = since
        /\ \/ stored' = stored \o kept /\ lost' = lost
           \/ lost' = lost \o kept /\ stored' = stored
    BY DEF Feeding!Persist, Feeding!EndRun
  <1>3. /\ seen \in Seq(Articles) /\ kept \in Seq(Articles) /\ stored \in Seq(Articles)
        /\ lost \in Seq(Articles) /\ since \in Nat /\ Len(lost) \in Nat /\ Len(kept) \in Nat
    BY <1>1 DEF FeedsType
  <1>4. /\ InMind(seen, stored, since, Len(lost) + Len(kept)) /\ KeptInMind(seen, kept)
        /\ Once(stored, since, Len(lost)) /\ Fresh(stored, since, Len(lost), kept) /\ Unlike(kept)
    BY <1>1, <1>2 DEF Remembering, FeedsOnce
  <1>5. /\ stored' \in Seq(Articles) /\ lost' \in Seq(Articles)
        /\ InMind(seen, stored', since, Len(lost')) /\ Once(stored', since, Len(lost'))
        /\ Accounted' = Accounted \cup Elements(kept)
    <2>1. CASE stored' = stored \o kept /\ lost' = lost
      <3>1. InMind(seen, stored \o kept, since, Len(lost))
        BY <1>3, <1>4, StoredInMind
      <3>2. Once(stored \o kept, since, Len(lost))
        BY <1>3, <1>4, StoredStaysOnce
      <3>3. stored \o kept \in Seq(Articles) /\ Elements(stored \o kept) = Elements(stored) \cup Elements(kept)
        BY <1>3, Joined, ElementsJoined
      <3> QED BY <1>3, <2>1, <3>1, <3>2, <3>3 DEF Accounted
    <2>2. CASE lost' = lost \o kept /\ stored' = stored
      <3>1. /\ lost \o kept \in Seq(Articles) /\ Len(lost \o kept) = Len(lost) + Len(kept)
            /\ Elements(lost \o kept) = Elements(lost) \cup Elements(kept)
        BY <1>3, Joined, ElementsJoined
      <3>2. Len(lost) <= Len(lost) + Len(kept) /\ Len(lost) + Len(kept) \in Nat
        BY <1>3
      <3>3. Once(stored, since, Len(lost) + Len(kept))
        BY <1>3, <1>4, <3>2, LostStaysOnce
      <3> QED BY <1>3, <1>4, <2>2, <3>1, <3>3 DEF Accounted
    <2> QED BY <1>2, <2>1, <2>2
  <1>6. FeedsType'
    BY <1>1, <1>2, <1>5, NothingYet DEF FeedsType
  <1>7. Remembering'
    BY <1>2, <1>5 DEF Remembering
  <1>8. FeedsOnce'
    BY <1>2, <1>5, NothingYet DEF FeedsOnce
  <1>9. FeedsCovered'
    <2>1. Elements(seen) \subseteq Accounted \cup Elements(kept)
      BY <1>1, <1>2 DEF FeedsCovered
    <2>2. \A a \in fetched : \E b \in Accounted \cup Elements(kept) : Akin(a, b)
      BY <1>1, <1>2 DEF FeedsCovered
    <2>3. \A a \in taken : \E b \in Accounted : Akin(a, b)
      BY <1>1 DEF FeedsCovered
    <2>4. \A a \in taken' : \E b \in Accounted' : Akin(a, b)
      BY <1>2, <1>5, <2>2, <2>3
    <2>5. Elements(seen') \subseteq Accounted'
      BY <1>2, <1>5, <2>1
    <2>6. pc' # "persisting" /\ pc' = "idle"
      BY <1>2
    <2> QED BY <2>4, <2>5, <2>6, Zenon DEF FeedsCovered, Elements
  <1> QED BY <1>6, <1>7, <1>8, <1>9 DEF FeedsInv

LEMMA FeedsStep == FeedsInv /\ [Feeding!Next]_(Feeding!vars) => FeedsInv'
  <1> SUFFICES ASSUME FeedsInv, [Feeding!Next]_(Feeding!vars) PROVE FeedsInv'
    OBVIOUS
  <1>1. ASSUME NEW a \in Articles, Feeding!Publish(a) PROVE FeedsInv'
    <2>1. served' \in Seq(Articles)
      BY <1>1, PublishServes DEF FeedsInv, FeedsType
    <2>2. /\ seen' = seen /\ fetched' = fetched /\ kept' = kept /\ pc' = pc /\ stored' = stored
          /\ lost' = lost /\ taken' = taken /\ since' = since
      BY <1>1 DEF Feeding!Publish
    <2> QED BY <2>1, <2>2 DEF FeedsInv, FeedsType, Remembering, FeedsOnce, FeedsCovered, Accounted
  <1>2. CASE UNCHANGED Feeding!vars
    <2>1. /\ served' = served /\ seen' = seen /\ fetched' = fetched /\ kept' = kept /\ pc' = pc
          /\ stored' = stored /\ lost' = lost /\ taken' = taken /\ since' = since
      BY <1>2 DEF Feeding!vars
    <2> QED BY <2>1 DEF FeedsInv, FeedsType, Remembering, FeedsOnce, FeedsCovered, Accounted
  <1>3. CASE Feeding!Next
    BY <1>1, <1>3, FetchKeeps, ScoreKeeps, ScoringFailsKeeps, PersistKeeps, FeedRestartKeeps
       DEF Feeding!Next
  <1> QED BY <1>2, <1>3

-----------------------------------------------------------------------------
(* The line, which starts from its last row with nothing gained.           *)

LineInv ==
    /\ line \in Int /\ gained \in Int /\ lines \in Seq(Int)
    /\ ready \/ gained = 0
    /\ Cumulating!LineContinues

LEMMA LineStep == LineInv /\ [Cumulating!Next]_(Cumulating!vars) => LineInv'
  <1> SUFFICES ASSUME LineInv, [Cumulating!Next]_(Cumulating!vars) PROVE LineInv'
    OBVIOUS
  <1> DEFINE last == Cumulating!LastRow
  <1>1. /\ line \in Int /\ gained \in Int /\ lines \in Seq(Int)
        /\ ready \/ gained = 0
        /\ ready /\ ~ broken => line = last + gained
    BY DEF LineInv, Cumulating!LineContinues
  <1>2. last \in Int
    <2>1. CASE lines = <<>>
      BY <2>1 DEF Cumulating!LastRow
    <2>2. CASE lines # <<>>
      <3>1. lines[Len(lines)] \in Int
        BY <1>1, <2>2
      <3> QED BY <2>2, <3>1 DEF Cumulating!LastRow
    <2> QED BY <2>1, <2>2
  <1>3. lines' = lines => last' = last
    BY DEF Cumulating!LastRow
  <1> SUFFICES /\ line' \in Int /\ gained' \in Int /\ lines' \in Seq(Int)
               /\ ready' \/ gained' = 0
               /\ ready' /\ ~ broken' => line' = last' + gained'
    BY DEF LineInv, Cumulating!LineContinues
  <1>4. CASE Cumulating!Initialize
    <2>1. /\ ~ ready /\ ready' /\ lines' = lines /\ gained' = gained
          /\ \/ line' = last /\ broken' = FALSE
             \/ line' = 0 /\ broken' = TRUE
      <3> HIDE DEF last
      <3>1. /\ ~ ready /\ ready' = TRUE /\ lines' = lines /\ gained' = gained
            /\ \/ line' = Cumulating!LastRow /\ broken' = FALSE
               \/ line' = 0 /\ broken' = TRUE
        BY <1>4, Zenon DEF Cumulating!Initialize
      <3> QED BY <3>1, Zenon DEF last
    <2>2. gained = 0 /\ last + 0 = last
      BY <1>1, <1>2, <2>1
    <2> HIDE DEF last
    <2>3. line' \in Int
      BY <1>2, <2>1
    <2> QED BY <1>1, <1>3, <2>1, <2>2, <2>3, Zenon
  <1>5. ASSUME NEW delta \in Deltas, Cumulating!Collect(delta)
        PROVE  /\ line' \in Int /\ gained' \in Int /\ lines' \in Seq(Int)
               /\ ready' \/ gained' = 0
               /\ ready' /\ ~ broken' => line' = last' + gained'
    <2>1. /\ ready /\ ready' = ready /\ lines' = lines /\ broken' = broken
          /\ line' = line + delta /\ gained' = gained + delta
      BY <1>5 DEF Cumulating!Collect
    <2>2. delta \in Int
      BY DeltasAssumption
    <2> HIDE DEF last
    <2>3. line' \in Int /\ gained' \in Int /\ (line = last + gained => line' = last + gained')
      <3>1. line + delta \in Int /\ gained + delta \in Int
            /\ (line = last + gained => line + delta = last + (gained + delta))
        BY <1>1, <1>2, <2>2
      <3> QED BY <2>1, <3>1, Zenon
    <2> QED BY <1>1, <1>3, <2>1, <2>3, Zenon
  <1>6. CASE Cumulating!Persist
    <2>1. line' = line /\ ready' = ready
      BY <1>6 DEF Cumulating!Persist
    <2>2. CASE lines' = Append(lines, line) /\ gained' = 0 /\ broken' = FALSE
      <3>1. lines' \in Seq(Int) /\ lines' # <<>> /\ lines'[Len(lines')] = line
        BY <1>1, <2>2
      <3>2. last' = line
        BY <3>1 DEF Cumulating!LastRow
      <3> HIDE DEF last
      <3>3. line = line + 0 /\ 0 \in Int
        BY <1>1
      <3> QED BY <1>1, <2>1, <2>2, <3>1, <3>2, <3>3, Zenon
    <2>3. CASE lines' = lines /\ gained' = gained /\ broken' = broken
      <3> HIDE DEF last
      <3> QED BY <1>1, <1>3, <2>1, <2>3, Zenon
    <2> QED BY <1>6, <2>2, <2>3 DEF Cumulating!Persist
  <1>7. CASE Cumulating!Restart
    <2>1. ~ ready' /\ line' = 0 /\ gained' = 0 /\ lines' = lines
      BY <1>7 DEF Cumulating!Restart
    <2>2. 0 \in Int
      OBVIOUS
    <2> QED BY <1>1, <2>1, <2>2, Zenon
  <1>8. CASE UNCHANGED Cumulating!vars
    <2>1. line' = line /\ ready' = ready /\ gained' = gained /\ broken' = broken /\ lines' = lines
      BY <1>8 DEF Cumulating!vars
    <2> HIDE DEF last
    <2> QED BY <1>1, <1>3, <2>1, Zenon
  <1> QED BY <1>4, <1>5, <1>6, <1>7, <1>8 DEF Cumulating!Next

LEMMA InitLine == Cumulating!Init => LineInv
  BY DEF Cumulating!Init, LineInv, Cumulating!LineContinues

-----------------------------------------------------------------------------
(* Both in one.                                                            *)

LEMMA FeedsProject == Spec => Feeding!Spec
  <1>1. Init => Feeding!Init
    BY DEF Init
  <1>2. [Next]_vars => [Feeding!Next]_(Feeding!vars)
    BY DEF Next, vars, feed, Feeding!vars,
           DeliverSignals, FollowTheNews, DrawTheLine, AskTheSources, KeepTheSchedule,
           ReplayALedger, LabelATrade, ReadAChart, DecideOnACandidate, CallADependency, CallTheBroker
  <1> QED BY <1>1, <1>2, PTL DEF Spec, Feeding!Spec

LEMMA LineProjects == Spec => Cumulating!Spec
  <1>1. Init => Cumulating!Init
    BY DEF Init
  <1>2. [Next]_vars => [Cumulating!Next]_(Cumulating!vars)
    BY DEF Next, vars, cumulative, Cumulating!vars,
           DeliverSignals, FollowTheNews, DrawTheLine, AskTheSources, KeepTheSchedule,
           ReplayALedger, LabelATrade, ReadAChart, DecideOnACandidate, CallADependency, CallTheBroker
  <1> QED BY <1>1, <1>2, PTL DEF Spec, Cumulating!Spec

LEMMA FeedsInvSound == FeedsInv /\ LineInv => FeedsSound
  <1> SUFFICES ASSUME FeedsInv, LineInv PROVE FeedsSound
    OBVIOUS
  <1>1. Feeding!StoredOnce
    BY DEF FeedsInv, FeedsOnce, Once, Akin, Feeding!StoredOnce
  <1>2. Feeding!DroppedForCause
    BY DEF FeedsInv, FeedsCovered, Accounted, Elements, Akin, Feeding!ToSet, Feeding!DroppedForCause
  <1>3. Cumulating!LineContinues
    BY DEF LineInv
  <1> QED BY <1>1, <1>2, <1>3 DEF FeedsSound

(* FeedsSound: whatever is published, and whatever runs fail, lose their   *)
(* records or are cut short, an article is stored again only when memory   *)
(* cannot reach back to it and dropped only for one that is, or was lost   *)
(* (domains/news.py); and the line of breadth continues from its last row  *)
(* over restarts and rows refused (domains/breadth.py).                    *)
THEOREM FeedsSafe == Spec => []FeedsSound
  <1>1. Feeding!Spec => []FeedsInv
    BY InitFeeds, FeedsStep, PTL DEF Feeding!Spec
  <1>2. Cumulating!Spec => []LineInv
    BY InitLine, LineStep, PTL DEF Cumulating!Spec
  <1> QED BY <1>1, <1>2, FeedsInvSound, FeedsProject, LineProjects, PTL

-----------------------------------------------------------------------------
(* The structure of a chart: rows stay as bars follow.                     *)

Turn(s, r) == Structuring!Bar(s, r)

Rounds(cs) == [i \in DOMAIN cs |-> Structuring!Round(cs, i)]

\* The loop as a table over sets of rounds, like that of the news.
Charted(f, rounds, n) ==
    f = [s \in SUBSET (1..n) |->
           IF s = {} THEN Structuring!Start ELSE Turn(f[s \ {Greatest(s)}], rounds[Greatest(s)])]

Widened(f, rounds, n) ==
    [s \in SUBSET (1..(n + 1)) |->
       IF n + 1 \in s THEN Turn(f[s \ {n + 1}], rounds[n + 1]) ELSE f[s]]

LEMMA ChartExtends ==
    ASSUME NEW n \in Nat, NEW rounds, NEW f, Charted(f, rounds, n)
    PROVE  Charted(Widened(f, rounds, n), rounds, n + 1)
  <1> DEFINE new == Widened(f, rounds, n)
  <1>1. new = [s \in SUBSET (1..(n + 1)) |-> new[s]]
    BY DEF Widened
  <1>2. ASSUME NEW s \in SUBSET (1..(n + 1))
        PROVE  new[s] = IF s = {} THEN Structuring!Start ELSE Turn(new[s \ {Greatest(s)}], rounds[Greatest(s)])
    <2>1. CASE n + 1 \in s
      <3>1. s # {} /\ Greatest(s) = n + 1
        BY <2>1, GreatestTop
      <3>2. s \ {n + 1} \in SUBSET (1..(n + 1)) /\ n + 1 \notin s \ {n + 1}
        OBVIOUS
      <3>3. new[s \ {n + 1}] = f[s \ {n + 1}]
        BY <3>2 DEF Widened
      <3>4. new[s] = Turn(f[s \ {n + 1}], rounds[n + 1])
        BY <2>1 DEF Widened
      <3> HIDE DEF new
      <3> QED BY <3>1, <3>3, <3>4
    <2>2. CASE n + 1 \notin s
      <3>1. s \in SUBSET (1..n)
        BY <2>2
      <3>2. new[s] = f[s]
        BY <2>2 DEF Widened
      <3>3. s \ {Greatest(s)} \in SUBSET (1..(n + 1)) /\ n + 1 \notin s \ {Greatest(s)}
        BY <3>1, <2>2
      <3>4. new[s \ {Greatest(s)}] = f[s \ {Greatest(s)}]
        BY <3>3 DEF Widened
      <3>5. f[s] = IF s = {} THEN Structuring!Start ELSE Turn(f[s \ {Greatest(s)}], rounds[Greatest(s)])
        BY <3>1 DEF Charted
      <3> HIDE DEF new
      <3> QED BY <3>2, <3>4, <3>5
    <2> QED BY <2>1, <2>2
  <1> HIDE DEF new
  <1>3. new = [s \in SUBSET (1..(n + 1)) |->
                 IF s = {} THEN Structuring!Start ELSE Turn(new[s \ {Greatest(s)}], rounds[Greatest(s)])]
    BY <1>1, <1>2
  <1> QED BY <1>3 DEF Charted, new

LEMMA ChartExists == ASSUME NEW rounds PROVE \A n \in Nat : \E f : Charted(f, rounds, n)
  <1> DEFINE T == {n \in Nat : \E f : Charted(f, rounds, n)}
  <1>1. 0 \in T
    <2>1. Charted([s \in SUBSET (1..0) |-> Structuring!Start], rounds, 0)
      <3>1. \A s \in SUBSET (1..0) : s = {}
        OBVIOUS
      <3> QED BY <3>1 DEF Charted
    <2> QED BY <2>1
  <1>2. ASSUME NEW n \in T PROVE n + 1 \in T
    BY ChartExtends
  <1> HIDE DEF T
  <1>3. \A n \in Nat : n \in T
    BY <1>1, <1>2, Induction
  <1> QED BY <1>3 DEF T

LEMMA RowsCharted ==
    ASSUME NEW cs, NEW n \in Nat, DOMAIN cs = 1..n
    PROVE  \E f : Charted(f, Rounds(cs), n) /\ Structuring!Rows(cs) = f[1..n].rows
  <1> DEFINE chart == CHOOSE f : Charted(f, Rounds(cs), n)
  <1>1. DOMAIN Rounds(cs) = 1..n
    BY DEF Rounds
  <1>2. Structuring!Rows(cs) = chart[1..n].rows
    BY <1>1 DEF Structuring!Rows, Structuring!FoldLeft, Structuring!MapThenFoldSet, Structuring!Max,
           Charted, Turn, Rounds, Greatest
  <1>3. \E f : Charted(f, Rounds(cs), n)
    BY ChartExists
  <1>4. Charted(chart, Rounds(cs), n)
    BY <1>3
  <1> QED BY <1>2, <1>4

\* The first rounds of the loop, one after the other.
LEMMA ChartTurns ==
    ASSUME NEW n \in Nat, NEW rounds, NEW f, Charted(f, rounds, n)
    PROVE  /\ f[1..0] = Structuring!Start
           /\ \A k \in Nat : k + 1 <= n => f[1..(k + 1)] = Turn(f[1..k], rounds[k + 1])
  <1>1. 1..0 = {} /\ 1..0 \in SUBSET (1..n)
    OBVIOUS
  <1>2. f[1..0] = Structuring!Start
    BY <1>1 DEF Charted
  <1>3. ASSUME NEW k \in Nat, k + 1 <= n PROVE f[1..(k + 1)] = Turn(f[1..k], rounds[k + 1])
    <2>1. 1..(k + 1) \in SUBSET (1..n) /\ k + 1 \in 1..(k + 1) /\ (1..(k + 1)) \ {k + 1} = 1..k
      BY <1>3
    <2>2. Greatest(1..(k + 1)) = k + 1
      BY <2>1, GreatestTop
    <2> QED BY <2>1, <2>2 DEF Charted
  <1> QED BY <1>2, <1>3

\* What the loop carries after k rounds has a row for each.
Rowed(s, k) ==
    /\ DOMAIN s = DOMAIN Structuring!Start
    /\ s.rows \in Seq(Elements(s.rows)) /\ Len(s.rows) = k

LEMMA TurnAddsARow ==
    ASSUME NEW s, NEW k \in Nat, NEW r, Rowed(s, k)
    PROVE  \E row : Rowed(Turn(s, r), k + 1) /\ Turn(s, r).rows = Append(s.rows, row)
  <1> DEFINE before == Structuring!Rearmed(s, Structuring!Learned(s.highs, r.highs),
                                           Structuring!Learned(s.lows, r.lows))
             t == Structuring!Broken(before, r.bar.close, r.at)
             u == [t EXCEPT !.gaps = Structuring!StillOpen(@ \o r.opened, r.bar),
                            !.block = IF r.block = Structuring!None THEN @ ELSE r.block]
             row == Structuring!Row(u, r.bar.close, r.at)
  <1>1. Turn(s, r) = [u EXCEPT !.rows = Append(@, row)]
    BY DEF Turn, Structuring!Bar
  <1>2. DOMAIN before = DOMAIN s /\ before.rows = s.rows
    BY DEF Structuring!Rearmed, Rowed, Structuring!Start
  <1> HIDE DEF before
  <1>3. DOMAIN t = DOMAIN s /\ t.rows = s.rows
    BY <1>2 DEF Structuring!Broken, Rowed, Structuring!Start
  <1> HIDE DEF t
  <1>4. DOMAIN u = DOMAIN s /\ u.rows = s.rows
    BY <1>3 DEF Rowed, Structuring!Start
  <1> HIDE DEF u, row
  <1>5. DOMAIN Turn(s, r) = DOMAIN Structuring!Start /\ Turn(s, r).rows = Append(s.rows, row)
    BY <1>1, <1>4 DEF Rowed, Structuring!Start
  <1> DEFINE more == Append(s.rows, row)
  <1>6. more \in Seq(Elements(more)) /\ Len(more) = k + 1
    <2> DEFINE S == Elements(s.rows) \cup {row}
    <2>1. s.rows \in Seq(S) /\ row \in S
      <3>1. Elements(s.rows) \subseteq S
        OBVIOUS
      <3> HIDE DEF S
      <3>2. s.rows \in Seq(S)
        BY <3>1 DEF Rowed
      <3> QED BY <3>2 DEF S
    <2> HIDE DEF S
    <2>2. more \in Seq(S) /\ Len(more) = k + 1
      BY <2>1 DEF Rowed
    <2>3. \A i \in 1..Len(more) : more[i] \in Elements(more)
      BY <2>2 DEF Elements
    <2> HIDE DEF more
    <2> QED BY <2>2, <2>3
  <1> QED BY <1>5, <1>6 DEF Rowed

LEMMA ChartRowed ==
    ASSUME NEW n \in Nat, NEW rounds, NEW f, Charted(f, rounds, n)
    PROVE  \A k \in Nat : k <= n => Rowed(f[1..k], k)
  <1> DEFINE T == {k \in Nat : k <= n => Rowed(f[1..k], k)}
  <1>1. 0 \in T
    <2>1. Structuring!Start.rows = << >>
      BY DEF Structuring!Start
    <2>2. Rowed(Structuring!Start, 0)
      BY <2>1 DEF Rowed
    <2> QED BY <2>2, ChartTurns
  <1>2. ASSUME NEW k \in Nat, k \in T PROVE k + 1 \in T
    <2> SUFFICES ASSUME k + 1 <= n PROVE Rowed(f[1..(k + 1)], k + 1)
      OBVIOUS
    <2>1. Rowed(f[1..k], k)
      BY <1>2
    <2>2. f[1..(k + 1)] = Turn(f[1..k], rounds[k + 1])
      BY ChartTurns
    <2> QED BY <2>1, <2>2, TurnAddsARow
  <1> HIDE DEF T
  <1>3. \A k \in Nat : k \in T
    BY <1>1, <1>2, Induction
  <1> QED BY <1>3 DEF T

Agree(long, short, n) == \A i \in 1..n : long[i] = short[i]

\* Charts of rounds that agree agree.
LEMMA ChartsAgree ==
    ASSUME NEW n \in Nat, NEW short, NEW long, Agree(long, short, n),
           NEW f, Charted(f, short, n), NEW g, Charted(g, long, n + 1)
    PROVE  g[1..n] = f[1..n]
  <1> DEFINE T == {k \in Nat : k <= n => g[1..k] = f[1..k]}
  <1>1. 0 \in T
    BY ChartTurns
  <1>2. ASSUME NEW k \in Nat, k \in T PROVE k + 1 \in T
    <2> SUFFICES ASSUME k + 1 <= n PROVE g[1..(k + 1)] = f[1..(k + 1)]
      OBVIOUS
    <2>1. g[1..k] = f[1..k] /\ long[k + 1] = short[k + 1]
      BY <1>2 DEF Agree
    <2>2. f[1..(k + 1)] = Turn(f[1..k], short[k + 1])
      BY ChartTurns
    <2>3. g[1..(k + 1)] = Turn(g[1..k], long[k + 1])
      BY ChartTurns
    <2> QED BY <2>1, <2>2, <2>3
  <1> HIDE DEF T
  <1>3. \A k \in Nat : k \in T
    BY <1>1, <1>2, Induction
  <1> QED BY <1>3 DEF T

\* A round reads no bar that follows it: a swing needs the bars on its right, and is not
\* known before.
LEMMA RoundStands ==
    ASSUME NEW cs \in Seq(Candles), NEW c \in Candles, NEW i \in 1..Len(cs)
    PROVE  Structuring!Round(Append(cs, c), i) = Structuring!Round(cs, i)
  <1> DEFINE n == Len(cs)
             more == Append(cs, c)
  <1>1. /\ n \in Nat /\ DOMAIN cs = 1..n /\ DOMAIN more = 1..(n + 1)
        /\ \A j \in 1..n : more[j] = cs[j]
    OBVIOUS
  <1>2. i \in Nat /\ i >= 1 /\ i <= n /\ Fractal \in Nat /\ AtrWindow \in Nat /\ AtrWindow > 0
    BY ChartsAssumption
  <1> HIDE DEF more, n
  <1>3. ASSUME NEW j \in Int, Structuring!KnownAt(j) = i
        PROVE  /\ \A m \in Structuring!Around(j) : m \in Int /\ m <= n
               /\ Structuring!Around(j) \subseteq DOMAIN more <=> Structuring!Around(j) \subseteq DOMAIN cs
               /\ j \in DOMAIN more <=> j \in DOMAIN cs
    <2>1. j + Fractal = i /\ Structuring!Around(j) = (j - Fractal)..i
      BY <1>2, <1>3 DEF Structuring!KnownAt, Structuring!Around
    <2>2. \A m \in Structuring!Around(j) : m \in Int /\ m <= n
      BY <1>1, <1>2, <2>1
    <2>3. \A m \in Structuring!Around(j) : m \in DOMAIN more <=> m \in DOMAIN cs
      BY <1>1, <2>2
    <2>4. j <= n
      BY <1>1, <1>2, <2>1
    <2> QED BY <1>1, <2>2, <2>3, <2>4
  <1>4. {h \in Structuring!SwingHighs(more) : Structuring!KnownAt(h) = i}
          = {h \in Structuring!SwingHighs(cs) : Structuring!KnownAt(h) = i}
    <2>1. ASSUME NEW j \in 1..(n + 1), Structuring!KnownAt(j) = i
          PROVE  j \in Structuring!SwingHighs(more) <=> j \in Structuring!SwingHighs(cs)
      <3>1. CASE j \in DOMAIN cs /\ Structuring!Around(j) \subseteq DOMAIN cs
        <4>1. more[j] = cs[j] /\ \A m \in Structuring!Around(j) : more[m] = cs[m]
          BY <1>1, <3>1
        <4> QED BY <1>1, <1>3, <2>1, <3>1, <4>1 DEF Structuring!SwingHighs
      <3>2. CASE ~ (j \in DOMAIN cs /\ Structuring!Around(j) \subseteq DOMAIN cs)
        BY <1>3, <2>1, <3>2 DEF Structuring!SwingHighs
      <3> QED BY <3>1, <3>2
    <2> QED BY <1>1, <2>1 DEF Structuring!SwingHighs
  <1>5. {l \in Structuring!SwingLows(more) : Structuring!KnownAt(l) = i}
          = {l \in Structuring!SwingLows(cs) : Structuring!KnownAt(l) = i}
    <2>1. ASSUME NEW j \in 1..(n + 1), Structuring!KnownAt(j) = i
          PROVE  j \in Structuring!SwingLows(more) <=> j \in Structuring!SwingLows(cs)
      <3>1. CASE j \in DOMAIN cs /\ Structuring!Around(j) \subseteq DOMAIN cs
        <4>1. more[j] = cs[j] /\ \A m \in Structuring!Around(j) : more[m] = cs[m]
          BY <1>1, <3>1
        <4> QED BY <1>1, <1>3, <2>1, <3>1, <4>1 DEF Structuring!SwingLows
      <3>2. CASE ~ (j \in DOMAIN cs /\ Structuring!Around(j) \subseteq DOMAIN cs)
        BY <1>3, <2>1, <3>2 DEF Structuring!SwingLows
      <3> QED BY <3>1, <3>2
    <2> QED BY <1>1, <2>1 DEF Structuring!SwingLows
  <1>6. Structuring!FreshHighs(more, i) = Structuring!FreshHighs(cs, i)
    <2> DEFINE Hs == {h \in Structuring!SwingHighs(cs) : Structuring!KnownAt(h) = i}
    <2>1. Structuring!FreshHighs(more, i) = {more[j].high : j \in Hs}
      BY <1>4 DEF Structuring!FreshHighs
    <2>2. \A j \in Hs : more[j] = cs[j]
      BY <1>1 DEF Structuring!SwingHighs
    <2>3. Structuring!FreshHighs(cs, i) = {cs[j].high : j \in Hs}
      BY DEF Structuring!FreshHighs
    <2> HIDE DEF Hs
    <2> QED BY <2>1, <2>2, <2>3
  <1>7. Structuring!FreshLows(more, i) = Structuring!FreshLows(cs, i)
    <2> DEFINE Ls == {l \in Structuring!SwingLows(cs) : Structuring!KnownAt(l) = i}
    <2>1. Structuring!FreshLows(more, i) = {more[j].low : j \in Ls}
      BY <1>5 DEF Structuring!FreshLows
    <2>2. \A j \in Ls : more[j] = cs[j]
      BY <1>1 DEF Structuring!SwingLows
    <2>3. Structuring!FreshLows(cs, i) = {cs[j].low : j \in Ls}
      BY DEF Structuring!FreshLows
    <2> HIDE DEF Ls
    <2> QED BY <2>1, <2>2, <2>3
  <1>8. more[i] = cs[i] /\ (i > 1 => more[i - 1] = cs[i - 1]) /\ (i > 2 => more[i - 2] = cs[i - 2])
    BY <1>1, <1>2
  <1>9. Structuring!Opened(more, i) = Structuring!Opened(cs, i)
    BY <1>8 DEF Structuring!Opened
  <1>10. Structuring!Block(more, i) = Structuring!Block(cs, i)
    <2>1. CASE i <= AtrWindow
      BY <2>1 DEF Structuring!Block
    <2>2. CASE ~ (i <= AtrWindow)
      <3>1. \A k \in 1..AtrWindow :
              Structuring!TrueRange(more, i - AtrWindow + k) = Structuring!TrueRange(cs, i - AtrWindow + k)
        <4> SUFFICES ASSUME NEW k \in 1..AtrWindow
                     PROVE  Structuring!TrueRange(more, i - AtrWindow + k)
                              = Structuring!TrueRange(cs, i - AtrWindow + k)
          OBVIOUS
        <4> DEFINE b == i - AtrWindow + k
        <4>1. b \in 1..n /\ b - 1 \in 1..n
          BY <1>1, <1>2, <2>2
        <4>2. more[b] = cs[b] /\ more[b - 1] = cs[b - 1]
          BY <1>1, <4>1
        <4> HIDE DEF b
        <4>3. Structuring!TrueRange(more, b) = Structuring!TrueRange(cs, b)
          BY <4>2 DEF Structuring!TrueRange
        <4> QED BY <4>3 DEF b
      <3>2. Structuring!Ranges(more, i) = Structuring!Ranges(cs, i)
        BY <3>1 DEF Structuring!Ranges
      <3>3. i > 1
        BY <1>2, <2>2
      <3> QED BY <1>8, <2>2, <3>2, <3>3 DEF Structuring!Block
    <2> QED BY <2>1, <2>2
  <1>11. Structuring!Round(more, i) = Structuring!Round(cs, i)
    BY <1>6, <1>7, <1>8, <1>9, <1>10 DEF Structuring!Round
  <1> QED BY <1>11 DEF more

LEMMA RowsStand ==
    ASSUME NEW cs \in Seq(Candles), NEW c \in Candles
    PROVE  SubSeq(Structuring!Rows(Append(cs, c)), 1, Len(cs)) = Structuring!Rows(cs)
  <1> DEFINE n == Len(cs)
             more == Append(cs, c)
  <1>1. n \in Nat /\ DOMAIN cs = 1..n /\ DOMAIN more = 1..(n + 1)
    OBVIOUS
  <1>2. Agree(Rounds(more), Rounds(cs), n)
    <2>1. \A i \in 1..n : Rounds(more)[i] = Structuring!Round(more, i)
      BY <1>1 DEF Rounds
    <2>2. \A i \in 1..n : Rounds(cs)[i] = Structuring!Round(cs, i)
      BY <1>1 DEF Rounds
    <2> QED BY <2>1, <2>2, RoundStands DEF Agree
  <1> HIDE DEF more, n
  <1>3. PICK f : Charted(f, Rounds(cs), n) /\ Structuring!Rows(cs) = f[1..n].rows
    BY <1>1, RowsCharted
  <1>4. n + 1 \in Nat
    BY <1>1
  <1>5. PICK g : Charted(g, Rounds(more), n + 1) /\ Structuring!Rows(more) = g[1..(n + 1)].rows
    BY <1>1, <1>4, RowsCharted
  <1>6. g[1..n] = f[1..n]
    <2> DEFINE short == Rounds(cs)
               long == Rounds(more)
    <2>1. n \in Nat /\ Agree(long, short, n)
      BY <1>1, <1>2
    <2>2. Charted(f, short, n) /\ Charted(g, long, n + 1)
      BY <1>3, <1>5
    <2> HIDE DEF short, long
    <2>3. g[1..n] = f[1..n]
      BY <2>1, <2>2, ChartsAgree
    <2> QED BY <2>3
  <1>7. g[1..(n + 1)] = Turn(g[1..n], Rounds(more)[n + 1])
    BY <1>1, <1>4, <1>5, ChartTurns
  <1>8. Rowed(f[1..n], n)
    BY <1>1, <1>3, ChartRowed
  <1>9. PICK row : Structuring!Rows(more) = Append(Structuring!Rows(cs), row)
    <2> DEFINE r == Rounds(more)[n + 1]
               s == f[1..n]
    <2>1. PICK row : Turn(s, r).rows = Append(s.rows, row)
      <3>1. Rowed(s, n) /\ n \in Nat
        BY <1>1, <1>8
      <3> HIDE DEF r, s
      <3> QED BY <3>1, TurnAddsARow
    <2> QED BY <1>3, <1>5, <1>6, <1>7, <2>1
  <1>10. Structuring!Rows(cs) \in Seq(Elements(Structuring!Rows(cs))) /\ Len(Structuring!Rows(cs)) = n
    BY <1>3, <1>8 DEF Rowed
  <1>11. SubSeq(Append(Structuring!Rows(cs), row), 1, n) = Structuring!Rows(cs)
    <2> DEFINE rs == Structuring!Rows(cs)
               S == Elements(rs) \cup {row}
    <2>1. Elements(rs) \subseteq S /\ row \in S
      OBVIOUS
    <2> HIDE DEF S, rs
    <2>2. rs \in Seq(S) /\ Len(rs) = n
      BY <1>10, <2>1 DEF rs
    <2>3. SubSeq(Append(rs, row), 1, n) = rs
      BY <1>1, <2>1, <2>2
    <2> QED BY <2>3 DEF rs
  <1> QED BY <1>9, <1>11 DEF more, n

BarsInv == candles \in Seq(Candles)

LEMMA BarsHold == Spec => []BarsInv
  <1>1. Init => BarsInv
    BY DEF BarsInv, Init, Structuring!Init
  <1>2. BarsInv /\ [Next]_vars => BarsInv'
    BY DEF BarsInv, Next, vars, Structuring!Next,
           DeliverSignals, FollowTheNews, DrawTheLine, AskTheSources, KeepTheSchedule,
           ReplayALedger, LabelATrade, ReadAChart, DecideOnACandidate, CallADependency, CallTheBroker
  <1> QED BY <1>1, <1>2, PTL DEF Spec

(* HindsightFree: whatever bars follow, of any length and any prices, the  *)
(* structure of the bars before them stays what it was                     *)
(* (compute_structure_daily in features/structure.py).                     *)
THEOREM HindsightSafe == Spec => HindsightFree
  <1>1. BarsInv /\ [Next]_vars => [Structuring!NoLookAhead]_candles
    <2> SUFFICES ASSUME BarsInv, [Next]_vars, candles' # candles
                 PROVE  Structuring!NoLookAhead
      OBVIOUS
    <2>1. Structuring!Next
      BY DEF Next, vars,
             DeliverSignals, FollowTheNews, DrawTheLine, AskTheSources, KeepTheSchedule,
             ReplayALedger, LabelATrade, ReadAChart, DecideOnACandidate, CallADependency, CallTheBroker
    <2>2. PICK c \in Candles : candles' = Append(candles, c)
      BY <2>1 DEF Structuring!Next
    <2> QED BY <2>2, RowsStand DEF BarsInv, Structuring!NoLookAhead
  <1> QED BY <1>1, BarsHold, PTL DEF Spec, HindsightFree

-----------------------------------------------------------------------------
(* The verdict on a candidate: means lie among what they are taken of.     *)

Any(s) == CHOOSE x \in s : TRUE

Sized(S, n) == {s \in SUBSET S : IsFiniteSet(s) /\ Cardinality(s) <= n}

Plus(g, v, s) == IF s = {} THEN 0 ELSE v[Any(s)] + g[s \ {Any(s)}]

\* The sum over a set as a table over its subsets, the smaller ones first.
Summed(g, v, n) == g = [s \in Sized(DOMAIN v, n) |-> Plus(g, v, s)]

Sums(v) == CHOOSE g : g = [s \in SUBSET DOMAIN v |-> Plus(g, v, s)]

LEMMA OneLess ==
    ASSUME NEW s, IsFiniteSet(s), s # {}
    PROVE  /\ Any(s) \in s /\ IsFiniteSet(s \ {Any(s)})
           /\ Cardinality(s) \in Nat /\ Cardinality(s \ {Any(s)}) = Cardinality(s) - 1
  <1>1. Any(s) \in s
    BY DEF Any
  <1> QED BY <1>1, FS_RemoveElement, FS_CardinalityType

LEMMA SumExtends ==
    ASSUME NEW v, NEW n \in Nat, NEW g, Summed(g, v, n)
    PROVE  \E h : Summed(h, v, n + 1)
  <1> DEFINE h == [s \in Sized(DOMAIN v, n + 1) |-> Plus(g, v, s)]
  <1>1. ASSUME NEW s \in Sized(DOMAIN v, n + 1) PROVE Plus(g, v, s) = Plus(h, v, s)
    <2>1. CASE s = {}
      BY <2>1 DEF Plus
    <2>2. CASE s # {}
      <3>1. s \ {Any(s)} \in Sized(DOMAIN v, n)
        BY <2>2, OneLess DEF Sized
      <3>2. s \ {Any(s)} \in Sized(DOMAIN v, n + 1)
        BY <3>1, FS_CardinalityType DEF Sized
      <3>3. g[s \ {Any(s)}] = Plus(g, v, s \ {Any(s)})
        BY <3>1 DEF Summed
      <3>4. h[s \ {Any(s)}] = Plus(g, v, s \ {Any(s)})
        BY <3>2
      <3> HIDE DEF h
      <3> QED BY <3>3, <3>4 DEF Plus
    <2> QED BY <2>1, <2>2
  <1>2. h = [s \in Sized(DOMAIN v, n + 1) |-> Plus(h, v, s)]
    BY <1>1
  <1> HIDE DEF h
  <1> QED BY <1>2 DEF Summed

LEMMA SumExists == ASSUME NEW v PROVE \A n \in Nat : \E g : Summed(g, v, n)
  <1> DEFINE T == {n \in Nat : \E g : Summed(g, v, n)}
  <1>1. 0 \in T
    <2> DEFINE g == [s \in Sized(DOMAIN v, 0) |-> 0]
    <2>1. \A s \in Sized(DOMAIN v, 0) : s = {}
      BY FS_EmptySet, FS_CardinalityType DEF Sized
    <2>2. Summed(g, v, 0)
      BY <2>1 DEF Summed, Plus
    <2> QED BY <2>2
  <1>2. ASSUME NEW n \in T PROVE n + 1 \in T
    BY SumExtends
  <1> HIDE DEF T
  <1>3. \A n \in Nat : n \in T
    BY <1>1, <1>2, Induction
  <1> QED BY <1>3 DEF T

LEMMA SumTurns ==
    ASSUME NEW v, IsFiniteSet(DOMAIN v)
    PROVE  \A s \in SUBSET DOMAIN v : Sums(v)[s] = Plus(Sums(v), v, s)
  <1>1. PICK g : Summed(g, v, Cardinality(DOMAIN v))
    BY SumExists, FS_CardinalityType
  <1>2. SUBSET DOMAIN v = Sized(DOMAIN v, Cardinality(DOMAIN v))
    BY FS_Subset DEF Sized
  <1>3. g = [s \in SUBSET DOMAIN v |-> Plus(g, v, s)]
    BY <1>1, <1>2 DEF Summed
  <1>4. Sums(v) = [s \in SUBSET DOMAIN v |-> Plus(Sums(v), v, s)]
    BY <1>3 DEF Sums
  <1> QED BY <1>4

LEMMA TallyIs == \A v : Deciding!Tally(v) = Sums(v)[DOMAIN v]
  BY DEF Deciding!Tally, Deciding!MapThenSumSet, Deciding!MapThenFoldSet, Sums, Plus, Any

\* A property of sets, given as the family of the sets that have it.
LEMMA FiniteSubsets ==
    ASSUME NEW S, IsFiniteSet(S), NEW F,
           {} \in F,
           \A s \in SUBSET S : s # {} /\ s \ {Any(s)} \in F => s \in F
    PROVE  S \in F
  <1> DEFINE T == {n \in Nat : \A s \in Sized(S, n) : s \in F}
  <1>1. 0 \in T
    <2>1. \A s \in Sized(S, 0) : s = {}
      BY FS_EmptySet, FS_CardinalityType DEF Sized
    <2> QED BY <2>1
  <1>2. ASSUME NEW n \in Nat, n \in T PROVE n + 1 \in T
    <2>1. ASSUME NEW s \in Sized(S, n + 1), s # {} PROVE s \in F
      <3>1. Any(s) \in s /\ s \in SUBSET S
        BY <2>1, OneLess DEF Sized
      <3>2. s \ {Any(s)} \in Sized(S, n)
        <4>1. IsFiniteSet(s) /\ Cardinality(s) <= n + 1
          BY <2>1 DEF Sized
        <4>2. /\ IsFiniteSet(s \ {Any(s)}) /\ Cardinality(s) \in Nat
              /\ Cardinality(s \ {Any(s)}) = Cardinality(s) - 1
          BY <2>1, <4>1, OneLess
        <4>3. Cardinality(s \ {Any(s)}) <= n
          BY <4>1, <4>2
        <4> QED BY <3>1, <4>2, <4>3 DEF Sized
      <3> QED BY <3>1, <3>2, <1>2
    <2>2. \A s \in Sized(S, n + 1) : s \in F
      BY <2>1
    <2> QED BY <2>2
  <1> HIDE DEF T
  <1>3. Cardinality(S) \in T
    BY <1>1, <1>2, Induction, FS_CardinalityType
  <1> QED BY <1>3, FS_CardinalityType DEF T, Sized

\* The least and the greatest of finitely many numbers.
LEMMA Extremes ==
    ASSUME NEW S \in SUBSET Int, IsFiniteSet(S), S # {}
    PROVE  /\ Deciding!Min(S) \in S /\ \A x \in S : Deciding!Min(S) <= x
           /\ Deciding!Max(S) \in S /\ \A x \in S : x <= Deciding!Max(S)
  <1> DEFINE F == {s \in SUBSET S : s = {} \/ /\ \E x \in s : \A y \in s : x <= y
                                              /\ \E x \in s : \A y \in s : x >= y}
  <1>1. {} \in F
    OBVIOUS
  <1>2. ASSUME NEW s \in SUBSET S, s # {}, s \ {Any(s)} \in F PROVE s \in F
    <2> DEFINE x == Any(s)
    <2>0. x \in s
      BY <1>2 DEF Any
    <2> HIDE DEF x
    <2>1. CASE s \ {x} = {}
      <3>1. s = {x}
        BY <2>0, <2>1
      <3> QED BY <2>0, <3>1
    <2>2. CASE s \ {x} # {}
      <3>1. PICK low \in s \ {x} : \A y \in s \ {x} : low <= y
        BY <1>2, <2>2 DEF x
      <3>2. PICK high \in s \ {x} : \A y \in s \ {x} : high >= y
        BY <1>2, <2>2 DEF x
      <3>3. \E m \in s : \A y \in s : m <= y
        <4>1. CASE x <= low
          BY <2>0, <3>1, <4>1
        <4>2. CASE ~ (x <= low)
          BY <2>0, <3>1, <4>2
        <4> QED BY <4>1, <4>2
      <3>4. \E m \in s : \A y \in s : m >= y
        <4>1. CASE x >= high
          BY <2>0, <3>2, <4>1
        <4>2. CASE ~ (x >= high)
          BY <2>0, <3>2, <4>2
        <4> QED BY <4>1, <4>2
      <3> QED BY <3>3, <3>4
    <2> QED BY <2>1, <2>2
  <1> HIDE DEF F
  <1>3. S \in F
    BY <1>1, <1>2, FiniteSubsets
  <1> QED BY <1>3 DEF F, Deciding!Min, Deciding!Max

LEMMA TallyIsInt ==
    ASSUME NEW v, IsFiniteSet(DOMAIN v), \A x \in DOMAIN v : v[x] \in Int
    PROVE  Deciding!Tally(v) \in Int
  <1> DEFINE F == {s \in SUBSET DOMAIN v : Sums(v)[s] \in Int}
  <1>1. {} \in F
    <2>1. Sums(v)[{}] = Plus(Sums(v), v, {})
      BY SumTurns
    <2> QED BY <2>1 DEF Plus
  <1>2. ASSUME NEW s \in SUBSET DOMAIN v, s # {}, s \ {Any(s)} \in F PROVE s \in F
    <2>1. v[Any(s)] \in Int
      BY <1>2 DEF Any
    <2>2. Sums(v)[s] = v[Any(s)] + Sums(v)[s \ {Any(s)}]
      BY <1>2, SumTurns DEF Plus
    <2> QED BY <1>2, <2>1, <2>2
  <1> HIDE DEF F
  <1>3. DOMAIN v \in F
    BY <1>1, <1>2, FiniteSubsets
  <1> QED BY <1>3, TallyIs DEF F

Weighs(parts) == IsFiniteSet(parts) /\ \A p \in parts : p.weight \in Nat /\ p.score \in Int

LEMMA ScaledAdds ==
    ASSUME NEW low \in Int, NEW high \in Int, NEW w \in Nat, NEW x \in Int, NEW u \in Nat, NEW t \in Int,
           low * u <= t, t <= high * u, w > 0 => low <= x /\ x <= high
    PROVE  /\ w + u \in Nat /\ w * x + t \in Int
           /\ low * (w + u) <= w * x + t /\ w * x + t <= high * (w + u)
  <1>1. low * w <= w * x /\ w * x <= high * w
    <2>1. CASE w = 0
      BY <2>1
    <2>2. CASE w > 0
      BY <2>2
    <2> QED BY <2>1, <2>2
  <1>2. low * (w + u) = low * w + low * u /\ high * (w + u) = high * w + high * u
    OBVIOUS
  <1>3. {low * w, low * u, high * w, high * u, w * x} \subseteq Int
    OBVIOUS
  <1> QED BY <1>1, <1>2, <1>3

LEMMA WeighedBetween ==
    ASSUME NEW parts, Weighs(parts), NEW low \in Int, NEW high \in Int,
           \A p \in parts : p.weight > 0 => low <= p.score /\ p.score <= high
    PROVE  LET w == Deciding!TotalWeight(parts)
               t == Deciding!TotalScore(parts)
           IN  /\ w \in Nat /\ t \in Int
               /\ low * w <= t /\ t <= high * w
               /\ w = 0 <=> \A p \in parts : p.weight = 0
  <1> DEFINE ws == [p \in parts |-> p.weight]
             ts == [p \in parts |-> p.weight * p.score]
             F == {s \in SUBSET parts :
                     /\ Sums(ws)[s] \in Nat /\ Sums(ts)[s] \in Int
                     /\ low * Sums(ws)[s] <= Sums(ts)[s] /\ Sums(ts)[s] <= high * Sums(ws)[s]
                     /\ Sums(ws)[s] = 0 <=> \A p \in s : p.weight = 0}
  <1>1. DOMAIN ws = parts /\ DOMAIN ts = parts /\ IsFiniteSet(parts)
    BY DEF Weighs
  <1>2. \A s \in SUBSET parts : Sums(ws)[s] = Plus(Sums(ws), ws, s) /\ Sums(ts)[s] = Plus(Sums(ts), ts, s)
    <2> HIDE DEF ws, ts
    <2> QED BY <1>1, SumTurns
  <1>3. {} \in F
    <2>1. Sums(ws)[{}] = 0 /\ Sums(ts)[{}] = 0
      <3> HIDE DEF ws, ts
      <3> QED BY <1>2 DEF Plus
    <2> HIDE DEF ws, ts
    <2> QED BY <2>1
  <1>4. ASSUME NEW s \in SUBSET parts, s # {}, s \ {Any(s)} \in F PROVE s \in F
    <2> DEFINE p == Any(s)
               u == Sums(ws)[s \ {p}]
               t == Sums(ts)[s \ {p}]
    <2>1. p \in s /\ p \in parts
      BY <1>4 DEF Any
    <2>2. p.weight \in Nat /\ p.score \in Int /\ (p.weight > 0 => low <= p.score /\ p.score <= high)
      BY <2>1 DEF Weighs
    <2>3. Sums(ws)[s] = p.weight + u
      <3>1. Sums(ws)[s] = ws[p] + u
        <4> HIDE DEF ws
        <4> QED BY <1>2, <1>4 DEF Plus
      <3>2. ws[p] = p.weight
        BY <2>1
      <3> HIDE DEF ws, p, u
      <3> QED BY <3>1, <3>2
    <2>4. Sums(ts)[s] = p.weight * p.score + t
      <3>1. Sums(ts)[s] = ts[p] + t
        <4> HIDE DEF ts
        <4> QED BY <1>2, <1>4 DEF Plus
      <3>2. ts[p] = p.weight * p.score
        BY <2>1
      <3> HIDE DEF ts, p, t
      <3> QED BY <3>1, <3>2
    <2>5. /\ u \in Nat /\ t \in Int /\ low * u <= t /\ t <= high * u
          /\ u = 0 <=> \A q \in s \ {p} : q.weight = 0
      <3> HIDE DEF ws, ts
      <3> QED BY <1>4
    <2> HIDE DEF ws, ts, p, u, t
    <2>6. /\ p.weight + u \in Nat /\ p.weight * p.score + t \in Int
          /\ low * (p.weight + u) <= p.weight * p.score + t
          /\ p.weight * p.score + t <= high * (p.weight + u)
      BY <2>2, <2>5, ScaledAdds
    <2>7. p.weight + u = 0 <=> \A q \in s : q.weight = 0
      <3>1. p.weight + u = 0 <=> p.weight = 0 /\ u = 0
        BY <2>2, <2>5
      <3> QED BY <2>1, <2>5, <3>1
    <2> QED BY <2>3, <2>4, <2>6, <2>7
  <1>5. parts \in F
    <2> HIDE DEF F
    <2> QED BY <1>1, <1>3, <1>4, FiniteSubsets
  <1>6. Deciding!TotalWeight(parts) = Sums(ws)[parts] /\ Deciding!TotalScore(parts) = Sums(ts)[parts]
    BY TallyIs DEF Deciding!TotalWeight, Deciding!TotalScore
  <1> HIDE DEF ws, ts
  <1> QED BY <1>5, <1>6

LEMMA OverBetween ==
    ASSUME NEW x \in Int, NEW y \in Nat, y > 0, NEW low \in Int, NEW high \in Int,
           low * y <= x, x <= high * y
    PROVE  /\ Deciding!Over(x, y) \in Int
           /\ low <= Deciding!Over(x, y) /\ Deciding!Over(x, y) <= high
  <1>1. CASE x < 0
    <2> DEFINE q == (-x) \div y
    <2>1. q \in Int /\ y * q <= -x /\ -x < y * q + y
      OBVIOUS
    <2>2. Deciding!Over(x, y) = -q
      BY <1>1 DEF Deciding!Over
    <2> HIDE DEF q
    <2>3. low <= -q
      <3> SUFFICES ASSUME low >= -q + 1 PROVE FALSE
        BY <2>1
      <3>1. low * y >= (-q + 1) * y
        BY <2>1
      <3>2. (-q + 1) * y = -(y * q) + y
        BY <2>1
      <3> QED BY <2>1, <3>1, <3>2
    <2>4. -q <= high
      <3> SUFFICES ASSUME -q >= high + 1 PROVE FALSE
        BY <2>1
      <3>1. (-q - 1) * y >= high * y
        BY <2>1
      <3>2. (-q - 1) * y = -(y * q) - y
        BY <2>1
      <3> QED BY <2>1, <3>1, <3>2
    <2> QED BY <2>1, <2>2, <2>3, <2>4
  <1>2. CASE x >= 0
    <2> DEFINE q == x \div y
    <2>1. q \in Int /\ y * q <= x /\ x < y * q + y
      OBVIOUS
    <2>2. Deciding!Over(x, y) = q
      BY <1>2 DEF Deciding!Over
    <2> HIDE DEF q
    <2>3. q <= high
      <3> SUFFICES ASSUME q >= high + 1 PROVE FALSE
        BY <2>1
      <3>1. y * q >= y * (high + 1)
        BY <2>1
      <3> QED BY <2>1, <3>1
    <2>4. low <= q
      <3> SUFFICES ASSUME low >= q + 1 PROVE FALSE
        BY <2>1
      <3>1. low * y >= (q + 1) * y
        BY <2>1
      <3>2. (q + 1) * y = y * q + y
        BY <2>1
      <3> QED BY <2>1, <3>1, <3>2
    <2> QED BY <2>1, <2>2, <2>3, <2>4
  <1> QED BY <1>1, <1>2

LEMMA MeanBetween ==
    ASSUME NEW parts, Weighs(parts), NEW otherwise, NEW low \in Int, NEW high \in Int,
           \A p \in parts : p.weight > 0 => low <= p.score /\ p.score <= high
    PROVE  /\ (\A p \in parts : p.weight = 0) => Deciding!Mean(parts, otherwise) = otherwise
           /\ (\E p \in parts : p.weight > 0) => /\ Deciding!Mean(parts, otherwise) \in Int
                                                 /\ low <= Deciding!Mean(parts, otherwise)
                                                 /\ Deciding!Mean(parts, otherwise) <= high
  <1> DEFINE w == Deciding!TotalWeight(parts)
             t == Deciding!TotalScore(parts)
  <1>1. /\ w \in Nat /\ t \in Int /\ low * w <= t /\ t <= high * w
        /\ w = 0 <=> \A p \in parts : p.weight = 0
    BY WeighedBetween
  <1>2. Deciding!Mean(parts, otherwise) = IF w <= 0 THEN otherwise ELSE Deciding!Over(t, w)
    BY DEF Deciding!Mean
  <1> HIDE DEF w, t
  <1>3. CASE w = 0
    BY <1>1, <1>2, <1>3 DEF Weighs
  <1>4. CASE w > 0
    <2>1. /\ Deciding!Over(t, w) \in Int
          /\ low <= Deciding!Over(t, w) /\ Deciding!Over(t, w) <= high
      BY <1>1, <1>4, OverBetween
    <2>2. Deciding!Mean(parts, otherwise) = Deciding!Over(t, w)
      BY <1>1, <1>2, <1>4
    <2>3. ~ \A p \in parts : p.weight = 0
      BY <1>1, <1>4
    <2> QED BY <2>1, <2>2, <2>3
  <1> QED BY <1>1, <1>3, <1>4

\* The scores that count.
Scores(parts) == {p.score : p \in {q \in parts : q.weight > 0}}

LEMMA ScoresFinite == ASSUME NEW parts, Weighs(parts) PROVE IsFiniteSet(Scores(parts)) /\ Scores(parts) \subseteq Int
  <1> DEFINE F == {s \in SUBSET parts : IsFiniteSet(Scores(s))}
  <1>1. {} \in F
    <2>1. Scores({}) = {}
      BY DEF Scores
    <2> QED BY <2>1, FS_EmptySet
  <1>2. ASSUME NEW s \in SUBSET parts, s # {}, s \ {Any(s)} \in F PROVE s \in F
    <2>1. Any(s) \in s
      BY <1>2 DEF Any
    <2>2. Scores(s) = Scores(s \ {Any(s)}) \/ Scores(s) = Scores(s \ {Any(s)}) \cup {Any(s).score}
      BY <2>1 DEF Scores
    <2>3. IsFiniteSet(Scores(s \ {Any(s)}))
      BY <1>2
    <2>4. IsFiniteSet(Scores(s \ {Any(s)}) \cup {Any(s).score})
      BY <2>3, FS_AddElement
    <2>5. IsFiniteSet(Scores(s))
      BY <2>2, <2>3, <2>4
    <2> QED BY <2>5
  <1> HIDE DEF F
  <1>3. parts \in F
    BY <1>1, <1>2, FiniteSubsets DEF Weighs
  <1> QED BY <1>3 DEF F, Scores, Weighs

LEMMA BetweenHolds ==
    ASSUME NEW parts, Weighs(parts), NEW otherwise
    PROVE  Deciding!Between(Deciding!Mean(parts, otherwise), parts, otherwise)
  <1> DEFINE x == Deciding!Mean(parts, otherwise)
             low == Deciding!Min(Scores(parts))
             high == Deciding!Max(Scores(parts))
  <1>1. CASE Scores(parts) = {}
    <2>1. \A p \in parts : p.weight \in Nat /\ ~ (p.weight > 0)
      BY <1>1 DEF Scores, Weighs
    <2>2. \A p \in parts : p.weight = 0
      BY <2>1
    <2>3. x = otherwise
      BY <2>1, <2>2, MeanBetween
    <2> QED BY <1>1, <2>3 DEF Deciding!Between, Scores
  <1>2. CASE Scores(parts) # {}
    <2>1. low \in Scores(parts) /\ high \in Scores(parts) /\ \A y \in Scores(parts) : low <= y /\ y <= high
      BY <1>2, ScoresFinite, Extremes
    <2>2. low \in Int /\ high \in Int
      BY <2>1, ScoresFinite
    <2> HIDE DEF low, high
    <2>3. \A p \in parts : p.weight > 0 => low <= p.score /\ p.score <= high
      BY <2>1 DEF Scores
    <2>4. \E p \in parts : p.weight > 0
      BY <1>2 DEF Scores
    <2>5. x \in low..high
      <3>1. x \in Int /\ low <= x /\ x <= high
        BY <2>2, <2>3, <2>4, MeanBetween
      <3> QED BY <2>2, <3>1
    <2> HIDE DEF x
    <2>6. Deciding!Between(x, parts, otherwise)
      BY <1>2, <2>5 DEF Deciding!Between, Scores, low, high
    <2> QED BY <2>6 DEF x
  <1> QED BY <1>1, <1>2

LEMMA MeanIsInt ==
    ASSUME NEW parts, Weighs(parts), NEW otherwise \in Int
    PROVE  Deciding!Mean(parts, otherwise) \in Int
  <1> DEFINE w == Deciding!TotalWeight(parts)
             t == Deciding!TotalScore(parts)
             ws == [p \in parts |-> p.weight]
             ts == [p \in parts |-> p.weight * p.score]
  <1>1. w = Deciding!Tally(ws) /\ t = Deciding!Tally(ts)
    BY DEF Deciding!TotalWeight, Deciding!TotalScore
  <1>2. IsFiniteSet(DOMAIN ws) /\ \A x \in DOMAIN ws : ws[x] \in Int
    BY DEF Weighs
  <1>3. IsFiniteSet(DOMAIN ts) /\ \A x \in DOMAIN ts : ts[x] \in Int
    BY DEF Weighs
  <1>4. w \in Int /\ t \in Int
    <2> HIDE DEF w, t, ws, ts
    <2> QED BY <1>1, <1>2, <1>3, TallyIsInt
  <1> HIDE DEF ws, ts
  <1>5. Deciding!Mean(parts, otherwise) = IF w <= 0 THEN otherwise ELSE Deciding!Over(t, w)
    BY DEF Deciding!Mean
  <1> HIDE DEF w, t
  <1>6. w > 0 => Deciding!Over(t, w) \in Int
    BY <1>4 DEF Deciding!Over
  <1> QED BY <1>4, <1>5, <1>6

LEMMA Weighed ==
    /\ Weighs({})
    /\ \A name : \A w \in Nat : \A x \in Int : Weighs({Deciding!Part(name, w, x)})
    /\ \A S, T : Weighs(S) /\ Weighs(T) => Weighs(S \cup T)
  <1>1. Weighs({})
    BY FS_EmptySet DEF Weighs
  <1>2. ASSUME NEW name, NEW w \in Nat, NEW x \in Int PROVE Weighs({Deciding!Part(name, w, x)})
    <2> DEFINE p == Deciding!Part(name, w, x)
    <2>1. p.weight \in Nat /\ p.score \in Int
      BY DEF Deciding!Part
    <2>2. IsFiniteSet({p})
      BY FS_Singleton
    <2> HIDE DEF p
    <2>3. Weighs({p})
      BY <2>1, <2>2 DEF Weighs
    <2> QED BY <2>3 DEF p
  <1>3. ASSUME NEW S, NEW T, Weighs(S), Weighs(T) PROVE Weighs(S \cup T)
    BY <1>3, FS_Union DEF Weighs
  <1> QED BY <1>1, <1>2, <1>3

LEMMA CountsAlike == \A S : Deciding!Cardinality(S) = Cardinality(S)
  BY DEF Deciding!Cardinality, Cardinality

LEMMA ReadingIs ==
    ASSUME NEW r \in Readings
    PROVE  /\ r.models \in Seq([probability : Int, accuracy : Int])
           /\ IsFiniteSet(r.analogs) /\ r.analogs \subseteq [return : Int, drawdown : Int, runup : Int]
           /\ r.event \in [sensitivity : Int, urgency : Int, volatility : Int, freeze : BOOLEAN]
           /\ r.flow \in [score : Int, confidence : Nat]
           /\ r.calibration \in Int /\ r.similarity \in Int /\ r.dataQuality \in Int
           /\ r.featureQuality \in Int /\ r.correlation \in Int /\ r.transition \in Int
           /\ r.breadth \in Int /\ r.volatility \in Int /\ r.liquidity \in Int /\ r.spread \in Int
           /\ r.risk \in Int /\ r.leadership \in Int /\ r.trigger \in Int /\ r.lifetime \in Int
           /\ r.structure \in Int /\ r.relative \in Int /\ r.options \in Int
  BY ReadingsAssumption

LEMMA Clamped == \A x \in Int : Deciding!Clamp(x) \in 0..100
  BY DEF Deciding!Clamp, Deciding!Bounded

LEMMA GreaterIs == ASSUME NEW x \in Int, NEW y \in Int
                   PROVE  LET m == Deciding!Max({x, y}) IN m \in Int /\ x <= m /\ y <= m
  <1>1. IsFiniteSet({x} \cup {y}) /\ {x} \cup {y} = {x, y}
    BY FS_Singleton, FS_AddElement
  <1>2. {x, y} \in SUBSET Int /\ {x, y} # {} /\ IsFiniteSet({x, y})
    BY <1>1
  <1> QED BY <1>2, Extremes

LEMMA PlainWeighs ==
    ASSUME NEW pairs, IsFiniteSet(pairs), \A p \in pairs : p[2] \in Int
    PROVE  Weighs(Deciding!Plain(pairs))
  <1> DEFINE F == {s \in SUBSET pairs : Weighs(Deciding!Plain(s))}
  <1>1. {} \in F
    <2>1. Deciding!Plain({}) = {}
      BY DEF Deciding!Plain
    <2> QED BY <2>1, Weighed
  <1>2. ASSUME NEW s \in SUBSET pairs, s # {}, s \ {Any(s)} \in F PROVE s \in F
    <2> DEFINE p == Any(s)
    <2>1. p \in s
      BY <1>2 DEF Any
    <2>2. Weighs({Deciding!Part(p[1], 1, p[2])})
      BY <2>1, Weighed
    <2>3. Weighs(Deciding!Plain(s \ {p}))
      BY <1>2
    <2> HIDE DEF p
    <2>4. Deciding!Plain(s) = Deciding!Plain(s \ {p}) \cup {Deciding!Part(p[1], 1, p[2])}
      BY <2>1 DEF Deciding!Plain
    <2>5. Weighs(Deciding!Plain(s \ {p}) \cup {Deciding!Part(p[1], 1, p[2])})
      BY <2>2, <2>3, Weighed, Zenon
    <2>6. Weighs(Deciding!Plain(s))
      BY <2>4, <2>5
    <2> QED BY <2>6
  <1> HIDE DEF F
  <1>3. pairs \in F
    BY <1>1, <1>2, FiniteSubsets
  <1> QED BY <1>3 DEF F

LEMMA PresentWeighs ==
    ASSUME NEW value, NEW name, NEW w \in Nat, NEW x \in Int
    PROVE  Weighs(Deciding!Present(value, Deciding!Part(name, w, x)))
  BY Weighed DEF Deciding!Present

LEMMA FewAreFinite ==
    ASSUME NEW a, NEW b, NEW c, NEW d
    PROVE  IsFiniteSet({a, b, c}) /\ IsFiniteSet({a, b, c, d})
  <1>1. IsFiniteSet({a} \cup {b})
    BY FS_Singleton, FS_AddElement
  <1>2. IsFiniteSet({a} \cup {b} \cup {c})
    BY <1>1, FS_AddElement
  <1>3. IsFiniteSet({a} \cup {b} \cup {c} \cup {d})
    BY <1>2, FS_AddElement
  <1>4. {a} \cup {b} \cup {c} = {a, b, c} /\ {a} \cup {b} \cup {c} \cup {d} = {a, b, c, d}
    OBVIOUS
  <1> QED BY <1>2, <1>3, <1>4

\* The market around a candidate.
LEMMA MarketWeighs ==
    ASSUME NEW r \in Readings
    PROVE  /\ Weighs(Deciding!ConfidenceInputs(r)) /\ Deciding!MarketConfidence(r) \in Int
           /\ Deciding!EventRisk(r) \in Int /\ Deciding!Liquidity(r) \in 0..100
           /\ Weighs(Deciding!Dimensions(r)) /\ Deciding!MarketQuality(r) \in 0..100
  <1>0. /\ r.transition \in Int /\ r.breadth \in Int /\ r.volatility \in Int /\ r.liquidity \in Int
        /\ r.flow.score \in Int /\ r.flow.confidence \in Nat
        /\ r.dataQuality \in Int /\ r.featureQuality \in Int /\ r.correlation \in Int
        /\ r.event.sensitivity \in Int /\ r.event.urgency \in Int /\ r.event.volatility \in Int
    BY ReadingIs
  <1>1. Weighs(Deciding!ConfidenceInputs(r))
    <2> DEFINE pairs == {<<"regime_certainty", Deciding!Clamp(100 - r.transition)>>, <<"breadth", r.breadth>>,
                         <<"institutional_agreement", r.flow.confidence>>}
    <2>1. IsFiniteSet(pairs)
      BY FewAreFinite
    <2>2. 100 - r.transition \in Int /\ Deciding!Clamp(100 - r.transition) \in Int
      BY <1>0, Clamped
    <2>3. \A p \in pairs : p[2] \in Int
      BY <1>0, <2>2
    <2>4. Weighs(Deciding!Plain(pairs))
      <3> HIDE DEF pairs
      <3> QED BY <2>1, <2>3, PlainWeighs
    <2>5. /\ Weighs(Deciding!Present(r.dataQuality, Deciding!Part("data_quality", 1, r.dataQuality)))
          /\ Weighs(Deciding!Present(r.featureQuality, Deciding!Part("feature_quality", 1, r.featureQuality)))
          /\ Weighs(Deciding!Present(r.correlation, Deciding!Part("correlation_stability", 1, r.correlation)))
      BY <1>0, PresentWeighs
    <2>6. Deciding!ConfidenceInputs(r)
            = Deciding!Plain(pairs)
                \cup Deciding!Present(r.dataQuality, Deciding!Part("data_quality", 1, r.dataQuality))
                \cup Deciding!Present(r.featureQuality, Deciding!Part("feature_quality", 1, r.featureQuality))
                \cup Deciding!Present(r.correlation, Deciding!Part("correlation_stability", 1, r.correlation))
      BY DEF Deciding!ConfidenceInputs
    <2>7. \A S, T, U, V : Weighs(S) /\ Weighs(T) /\ Weighs(U) /\ Weighs(V) => Weighs(S \cup T \cup U \cup V)
      BY Weighed, Zenon
    <2> HIDE DEF pairs
    <2> QED BY <2>4, <2>5, <2>6, <2>7
  <1>2. Deciding!MarketConfidence(r) \in Int
    BY <1>1, MeanIsInt DEF Deciding!MarketConfidence
  <1>3. Deciding!EventRisk(r) \in Int
    <2> DEFINE a == Deciding!Present(r.event.sensitivity, Deciding!Part("sensitivity", 50, r.event.sensitivity))
               b == Deciding!Present(r.event.urgency, Deciding!Part("urgency", 30, r.event.urgency))
               c == Deciding!Present(r.event.volatility, Deciding!Part("expected_volatility", 20, r.event.volatility))
    <2>1. Weighs(a) /\ Weighs(b) /\ Weighs(c)
      BY <1>0, PresentWeighs
    <2>2. Deciding!EventRisk(r) = Deciding!Mean(a \cup b \cup c, 0)
      BY DEF Deciding!EventRisk
    <2> HIDE DEF a, b, c
    <2>3. Weighs(a \cup b \cup c)
      BY <2>1, Weighed
    <2> QED BY <2>2, <2>3, MeanIsInt
  <1>4. Deciding!Liquidity(r) \in 0..100
    BY <1>0, Clamped DEF Deciding!Liquidity
  <1>5. /\ Weighs(Deciding!Dimensions(r))
        /\ \A p \in Deciding!Dimensions(r) : 0 <= p.score /\ p.score <= 100
        /\ \E p \in Deciding!Dimensions(r) : p.weight > 0
    <2> DEFINE a == Deciding!Part("market_confidence", 60, Deciding!Clamp(Deciding!MarketConfidence(r)))
               b == Deciding!Part("liquidity", 50, Deciding!Liquidity(r))
               c == Deciding!Part("event_risk", 50, Deciding!Clamp(100 - Deciding!EventRisk(r)))
               d == Deciding!Part("regime_stability", 50, Deciding!Clamp(100 - r.transition))
               e == Deciding!Part("institutional_participation", r.flow.confidence,
                      Deciding!Clamp(2 * Deciding!Max({r.flow.score - 50, 50 - r.flow.score})))
               f == Deciding!Part("volatility", 50, Deciding!Clamp(100 - r.volatility))
    <2>1. 2 * Deciding!Max({r.flow.score - 50, 50 - r.flow.score}) \in Int
      <3>1. r.flow.score - 50 \in Int /\ 50 - r.flow.score \in Int
        BY <1>0
      <3>2. Deciding!Max({r.flow.score - 50, 50 - r.flow.score}) \in Int
        BY <3>1, GreaterIs
      <3> QED BY <3>2
    <2>2. \A p \in {a, b, c, d, e, f} : p.weight \in Nat /\ p.score \in 0..100
      <3>1. a.weight \in Nat /\ a.score \in 0..100 /\ b.weight \in Nat /\ b.score \in 0..100
        BY <1>2, <1>4, Clamped DEF Deciding!Part
      <3>2. c.weight \in Nat /\ c.score \in 0..100 /\ d.weight \in Nat /\ d.score \in 0..100
        <4>1. 100 - Deciding!EventRisk(r) \in Int /\ 100 - r.transition \in Int
          BY <1>0, <1>3
        <4> QED BY <4>1, Clamped DEF Deciding!Part
      <3>3. e.weight \in Nat /\ e.score \in 0..100 /\ f.weight \in Nat /\ f.score \in 0..100
        <4>1. 100 - r.volatility \in Int
          BY <1>0
        <4> QED BY <1>0, <2>1, <4>1, Clamped DEF Deciding!Part
      <3> HIDE DEF a, b, c, d, e, f
      <3> QED BY <3>1, <3>2, <3>3
    <2>3. a.weight > 0
      BY DEF Deciding!Part
    <2>4. Deciding!Dimensions(r) = {a, b, c, d, e, f}
      BY DEF Deciding!Dimensions
    <2> HIDE DEF a, b, c, d, e, f
    <2>5. IsFiniteSet({a, b, c, d} \cup {e} \cup {f})
      BY FewAreFinite, FS_AddElement
    <2>6. {a, b, c, d} \cup {e} \cup {f} = {a, b, c, d, e, f}
      OBVIOUS
    <2>7. \A p \in {a, b, c, d, e, f} : p.weight \in Nat /\ p.score \in Int /\ 0 <= p.score /\ p.score <= 100
      BY <2>2
    <2>8. Weighs({a, b, c, d, e, f})
      BY <2>5, <2>6, <2>7 DEF Weighs
    <2>9. a \in {a, b, c, d, e, f}
      OBVIOUS
    <2> QED BY <2>3, <2>4, <2>7, <2>8, <2>9
  <1>6. Deciding!MarketQuality(r) \in 0..100
    <2> DEFINE q == Deciding!Mean(Deciding!Dimensions(r), Deciding!None)
    <2>1. q \in Int /\ 0 <= q /\ q <= 100
      BY <1>5, MeanBetween
    <2> HIDE DEF q
    <2>2. q \in 0..100
      BY <2>1
    <2> QED BY <2>2 DEF Deciding!MarketQuality, q
  <1> QED BY <1>1, <1>2, <1>3, <1>4, <1>5, <1>6

\* What the ensemble and the analogs say.
LEMMA BlendIsInt == ASSUME NEW r \in Readings PROVE Deciding!Blend(r.models).probability \in Int
  <1> DEFINE models == r.models
             Of(s) == {Deciding!Part(k, Deciding!Weight(models[k]), models[k].probability) : k \in s}
             F == {s \in SUBSET DOMAIN models : Weighs(Of(s))}
  <1>0. models \in Seq([probability : Int, accuracy : Int])
    BY ReadingIs
  <1> HIDE DEF models
  <1>1. IsFiniteSet(DOMAIN models)
    <2>1. DOMAIN models = 1..Len(models) /\ Len(models) \in Nat
      BY <1>0
    <2> QED BY <2>1, FS_Interval
  <1>2. {} \in F
    <2>1. Of({}) = {}
      OBVIOUS
    <2> HIDE DEF Of
    <2> QED BY <2>1, Weighed
  <1>3. ASSUME NEW s \in SUBSET DOMAIN models, s # {}, s \ {Any(s)} \in F PROVE s \in F
    <2> DEFINE k == Any(s)
               part == Deciding!Part(k, Deciding!Weight(models[k]), models[k].probability)
    <2>1. k \in s /\ k \in DOMAIN models
      BY <1>3 DEF Any
    <2>2. models[k] \in [probability : Int, accuracy : Int]
      <3> DEFINE S == [probability : Int, accuracy : Int]
      <3>1. models \in Seq(S)
        BY <1>0
      <3> HIDE DEF S
      <3>2. models[k] \in S
        BY <2>1, <3>1
      <3> QED BY <3>2 DEF S
    <2>3. Deciding!Weight(models[k]) \in Nat
      <3>1. models[k].accuracy - 50 \in Int
        BY <2>2
      <3>2. Deciding!Max({models[k].accuracy - 50, 0}) \in Nat
        <4> DEFINE x == models[k].accuracy - 50
        <4>1. x \in Int /\ 0 \in Int
          BY <3>1
        <4> HIDE DEF x
        <4>2. Deciding!Max({x, 0}) \in Int /\ 0 <= Deciding!Max({x, 0})
          BY <4>1, GreaterIs
        <4>3. Deciding!Max({x, 0}) \in Nat
          BY <4>2
        <4> QED BY <4>3 DEF x
      <3> QED BY <3>2 DEF Deciding!Weight
    <2>4. Weighs({part})
      BY <2>2, <2>3, Weighed
    <2>5. Weighs(Of(s \ {k}))
      BY <1>3
    <2> HIDE DEF k
    <2>6. Of(s) = Of(s \ {k}) \cup {part}
      BY <2>1
    <2> HIDE DEF Of, part
    <2>7. Weighs(Of(s \ {k}) \cup {part})
      BY <2>4, <2>5, Weighed, Zenon
    <2>8. Weighs(Of(s))
      BY <2>6, <2>7
    <2> QED BY <2>8
  <1>4. Weighs(Of(DOMAIN models))
    <2>1. DOMAIN models \in F
      <3> HIDE DEF F
      <3> QED BY <1>1, <1>2, <1>3, FiniteSubsets
    <2> QED BY <2>1
  <1>5. Deciding!Mean(Of(DOMAIN models), 50) \in Int
    <2> HIDE DEF Of
    <2> QED BY <1>4, MeanIsInt
  <1>6. Deciding!Blend(models).probability = Deciding!Mean(Of(DOMAIN models), 50)
    BY DEF Deciding!Blend
  <1> QED BY <1>5, <1>6 DEF models

LEMMA AgreementCounts ==
    ASSUME NEW r \in Readings
    PROVE  LET with == {k \in DOMAIN r.models :
                          Deciding!ModelDirection(r.models[k].probability)
                            = Deciding!ModelDirection(Deciding!Blend(r.models).probability)}
           IN  /\ Len(r.models) \in Nat /\ (r.models # <<>> => Len(r.models) > 0)
               /\ Deciding!Cardinality(with) \in Nat
               /\ Deciding!Agreement(r.models) \in Int
               /\ r.models # <<>> =>
                    Deciding!Agreement(r.models) = (100 * Deciding!Cardinality(with)) \div Len(r.models)
  <1> DEFINE models == r.models
             with == {k \in DOMAIN models : Deciding!ModelDirection(models[k].probability)
                                              = Deciding!ModelDirection(Deciding!Blend(models).probability)}
  <1>0. models \in Seq([probability : Int, accuracy : Int])
    BY ReadingIs
  <1>1. /\ DOMAIN models = 1..Len(models) /\ Len(models) \in Nat
        /\ models # <<>> => Len(models) > 0
    <2> HIDE DEF models
    <2> QED BY <1>0
  <1>2. Deciding!Cardinality(with) \in Nat
    <2>1. with \in SUBSET (1..Len(models))
      BY <1>1
    <2> HIDE DEF with, models
    <2>2. IsFiniteSet(1..Len(models))
      BY <1>1, FS_Interval
    <2> QED BY <2>1, <2>2, FS_Subset, FS_CardinalityType, CountsAlike
  <1>3. Deciding!Agreement(models)
          = IF models = <<>> THEN 0 ELSE (100 * Deciding!Cardinality(with)) \div Len(models)
    BY DEF Deciding!Agreement
  <1>4. Deciding!Agreement(models) \in Int
    <2> HIDE DEF with, models
    <2> QED BY <1>1, <1>2, <1>3
  <1> QED BY <1>1, <1>2, <1>3, <1>4

LEMMA AnalogsAreInt ==
    ASSUME NEW r \in Readings, NEW direction
    PROVE  /\ Deciding!WinRate(r, direction) \in Int /\ Deciding!MeanSimilarity(r) \in Int
           /\ r.analogs # {} => Deciding!AverageReturn(r, direction) \in Int
  <1> DEFINE won == {a \in r.analogs : Deciding!Lived(a, direction).return > 0}
             lived == [a \in r.analogs |-> Deciding!Lived(a, direction).return]
  <1>0. /\ IsFiniteSet(r.analogs) /\ r.analogs \subseteq [return : Int, drawdown : Int, runup : Int]
        /\ r.similarity \in Int
    BY ReadingIs
  <1>1. Cardinality(r.analogs) \in Nat /\ (r.analogs # {} => Cardinality(r.analogs) > 0)
    BY <1>0, FS_CardinalityType, FS_EmptySet
  <1>2. Cardinality(won) \in Nat
    <2>1. won \in SUBSET r.analogs
      OBVIOUS
    <2> HIDE DEF won
    <2> QED BY <1>0, <2>1, FS_Subset, FS_CardinalityType
  <1>3. Deciding!WinRate(r, direction) \in Int
    <2>1. Deciding!WinRate(r, direction)
            = IF r.analogs = {} THEN Deciding!None
              ELSE (100 * Cardinality(won)) \div Cardinality(r.analogs)
      BY CountsAlike DEF Deciding!WinRate
    <2> HIDE DEF won
    <2> QED BY <1>1, <1>2, <2>1 DEF Deciding!None
  <1>4. Deciding!MeanSimilarity(r) \in Int
    BY <1>0 DEF Deciding!MeanSimilarity, Deciding!None
  <1>5. Deciding!Tally(lived) \in Int
    <2>1. \A a \in r.analogs : lived[a] \in Int
      BY <1>0 DEF Deciding!Lived
    <2>2. DOMAIN lived = r.analogs
      OBVIOUS
    <2> HIDE DEF lived
    <2> QED BY <1>0, <2>1, <2>2, TallyIsInt
  <1>6. ASSUME r.analogs # {} PROVE Deciding!AverageReturn(r, direction) \in Int
    <2>1. Deciding!AverageReturn(r, direction) = Deciding!Tally(lived) \div Cardinality(r.analogs)
      BY CountsAlike DEF Deciding!AverageReturn
    <2> HIDE DEF lived
    <2> QED BY <1>1, <1>5, <1>6, <2>1
  <1> QED BY <1>3, <1>4, <1>6

LEMMA AdjustedTowardsHalf ==
    ASSUME NEW p \in Int, NEW q \in 0..100
    PROVE  /\ Deciding!Adjusted(p, q) \in Int
           /\ Deciding!Adjusted(p, q) \in 50..p \/ Deciding!Adjusted(p, q) \in p..50
  <1>0. q # Deciding!None
    BY DEF Deciding!None
  <1>1. \A x \in Nat : x * q \in Nat /\ x * q <= x * 100
    OBVIOUS
  <1>2. \A x \in Nat : (x * q) \div 100 \in 0..x
    <2> TAKE x \in Nat
    <2> DEFINE y == x * q
    <2>1. y \in Nat /\ y <= x * 100
      BY <1>1
    <2> HIDE DEF y
    <2>2. y \div 100 \in 0..x
      BY <2>1
    <2> QED BY <2>2 DEF y
  <1>3. CASE p >= 50
    <2>1. Deciding!Adjusted(p, q) = 50 + ((p - 50) * q) \div 100
      BY <1>0, <1>3 DEF Deciding!Adjusted
    <2>2. ((p - 50) * q) \div 100 \in 0..(p - 50)
      BY <1>2, <1>3
    <2> QED BY <2>1, <2>2
  <1>4. CASE ~ (p >= 50)
    <2>1. Deciding!Adjusted(p, q) = 50 + (-(((50 - p) * q) \div 100))
      BY <1>0, <1>4 DEF Deciding!Adjusted
    <2>2. ((50 - p) * q) \div 100 \in 0..(50 - p)
      BY <1>2, <1>4
    <2> QED BY <2>1, <2>2
  <1> QED BY <1>3, <1>4

LEMMA EvidenceWeighs ==
    ASSUME NEW r \in Readings, NEW direction
    PROVE  /\ Deciding!Calibrated(r).probability \in Int
           /\ Weighs(Deciding!Evidence(r, direction)) /\ Deciding!Conviction(r, direction) \in Int
  <1> DEFINE p == Deciding!Calibrated(r).probability
             a == Deciding!Part("calibrated_probability", 35, p)
             b == Deciding!Part("market_context", 20, Deciding!Adjusted(p, Deciding!MarketQuality(r)))
             c == Deciding!Part("institutional_flow", 10, Deciding!Directional(r.flow.score, direction))
             d == Deciding!Part("market_structure", 10, Deciding!Directional(r.structure, direction))
             e == Deciding!Part("liquidity", 5, Deciding!Liquidity(r))
             f == Deciding!Part("sector_strength", 5, Deciding!Directional(r.relative, direction))
             g == Deciding!Part("model_agreement", 5, Deciding!Agreement(r.models))
             h == Deciding!Part("options_positioning", 10, Deciding!Directional(r.options, direction))
             i == Deciding!Present(Deciding!WinRate(r, direction),
                    Deciding!Part("historical_analog", 10, Deciding!WinRate(r, direction)))
  <1>0. /\ r.calibration \in Int /\ r.flow.score \in Int /\ r.structure \in Int
        /\ r.relative \in Int /\ r.options \in Int
    BY ReadingIs
  <1>1. p \in Int
    BY <1>0, BlendIsInt DEF Deciding!Calibrated
  <1> HIDE DEF p
  <1>2. Deciding!MarketQuality(r) \in 0..100 /\ Deciding!Liquidity(r) \in Int
    BY MarketWeighs
  <1>3. Deciding!Adjusted(p, Deciding!MarketQuality(r)) \in Int
    BY <1>1, <1>2, AdjustedTowardsHalf
  <1>4. \A x \in Int : Deciding!Directional(x, direction) \in Int
    BY DEF Deciding!Directional
  <1>5. Deciding!Agreement(r.models) \in Int
    BY AgreementCounts
  <1>6. Deciding!WinRate(r, direction) \in Int
    BY AnalogsAreInt
  <1>7. Weighs({a}) /\ Weighs({b}) /\ Weighs({c}) /\ Weighs({d})
    BY <1>0, <1>1, <1>3, <1>4, Weighed
  <1>8. Weighs({e}) /\ Weighs({f}) /\ Weighs({g}) /\ Weighs({h})
    BY <1>0, <1>2, <1>4, <1>5, Weighed
  <1>9. Weighs(i)
    BY <1>6, PresentWeighs
  <1>10. Deciding!Evidence(r, direction) = {a, b, c, d, e, f, g, h} \cup i
    BY DEF Deciding!Evidence, p
  <1> HIDE DEF a, b, c, d, e, f, g, h, i
  <1>11. Weighs({a} \cup {b} \cup {c} \cup {d})
    BY <1>7, Weighed, Zenon
  <1>12. Weighs({e} \cup {f} \cup {g} \cup {h})
    BY <1>8, Weighed, Zenon
  <1>13. Weighs(({a} \cup {b} \cup {c} \cup {d}) \cup ({e} \cup {f} \cup {g} \cup {h}) \cup i)
    BY <1>9, <1>11, <1>12, Weighed, Zenon
  <1>14. ({a} \cup {b} \cup {c} \cup {d}) \cup ({e} \cup {f} \cup {g} \cup {h}) \cup i
           = {a, b, c, d, e, f, g, h} \cup i
    OBVIOUS
  <1>15. Weighs(Deciding!Evidence(r, direction))
    BY <1>10, <1>13, <1>14
  <1>16. Deciding!Conviction(r, direction) \in Int
    BY <1>15, MeanIsInt DEF Deciding!Conviction
  <1> QED BY <1>1, <1>15, <1>16 DEF p

LEMMA FactorsWeigh ==
    ASSUME NEW r \in Readings, NEW direction
    PROVE  Weighs(Deciding!Factors(r, direction))
  <1> DEFINE pairs == {<<"conviction", Deciding!Conviction(r, direction)>>, <<"opportunity_quality", r.trigger>>,
                       <<"liquidity", Deciding!Liquidity(r)>>, <<"expected_opportunity_lifetime", r.lifetime>>}
             a == Deciding!Present(r.risk, Deciding!Part("risk", 1, Deciding!Clamp(100 - r.risk \div 5)))
             b == Deciding!Present(r.leadership, Deciding!Part("sector_leadership", 1, r.leadership))
             c == Deciding!Present(Deciding!MeanSimilarity(r),
                    Deciding!Part("historical_reliability", 1, Deciding!MeanSimilarity(r)))
             d == IF r.analogs = {} THEN {}
                  ELSE {Deciding!Part("expected_reward", 1,
                          Deciding!Clamp(50 + 10 * Deciding!AverageReturn(r, direction)))}
  <1>0. r.trigger \in Int /\ r.lifetime \in Int /\ r.risk \in Int /\ r.leadership \in Int
    BY ReadingIs
  <1>1. Weighs(Deciding!Plain(pairs))
    <2>1. IsFiniteSet(pairs)
      BY FewAreFinite
    <2>2. Deciding!Conviction(r, direction) \in Int /\ Deciding!Liquidity(r) \in Int
      BY EvidenceWeighs, MarketWeighs
    <2>3. \A q \in pairs : q[2] \in Int
      BY <1>0, <2>2
    <2> HIDE DEF pairs
    <2> QED BY <2>1, <2>3, PlainWeighs
  <1>2. Weighs(a)
    <2>1. 100 - r.risk \div 5 \in Int
      BY <1>0
    <2>2. Deciding!Clamp(100 - r.risk \div 5) \in Int
      BY <2>1, Clamped
    <2> QED BY <2>2, PresentWeighs
  <1>3. Weighs(b)
    BY <1>0, PresentWeighs
  <1>4. Weighs(c)
    BY AnalogsAreInt, PresentWeighs
  <1>5. Weighs(d)
    <2>1. CASE r.analogs = {}
      BY <2>1, Weighed
    <2>2. CASE r.analogs # {}
      <3>1. 50 + 10 * Deciding!AverageReturn(r, direction) \in Int
        BY <2>2, AnalogsAreInt
      <3>2. Deciding!Clamp(50 + 10 * Deciding!AverageReturn(r, direction)) \in Int
        BY <3>1, Clamped
      <3> QED BY <2>2, <3>2, Weighed
    <2> QED BY <2>1, <2>2
  <1>6. Deciding!Factors(r, direction) = Deciding!Plain(pairs) \cup a \cup b \cup c \cup d
    BY DEF Deciding!Factors
  <1> HIDE DEF pairs, a, b, c, d
  <1>7. Weighs(Deciding!Plain(pairs) \cup a \cup b \cup c \cup d)
    BY <1>1, <1>2, <1>3, <1>4, <1>5, Weighed, Zenon
  <1> QED BY <1>6, <1>7

VerdictsInv == reading \subseteq Readings

LEMMA BlendsHold == ASSUME VerdictsInv PROVE Deciding!BlendsWithinInputs
  <1> SUFFICES ASSUME NEW r \in reading, NEW direction \in {"long", "short"}
               PROVE  LET probability == Deciding!Calibrated(r).probability
                          adjusted == Deciding!Adjusted(probability, Deciding!MarketQuality(r))
                      IN  /\ Deciding!Between(Deciding!MarketConfidence(r), Deciding!ConfidenceInputs(r), 50)
                          /\ Deciding!Between(Deciding!MarketQuality(r), Deciding!Dimensions(r), Deciding!None)
                          /\ Deciding!Between(Deciding!Conviction(r, direction), Deciding!Evidence(r, direction), 50)
                          /\ Deciding!Between(Deciding!Priority(r, direction), Deciding!Factors(r, direction), 0)
                          /\ adjusted \in 50..probability \/ adjusted \in probability..50
    BY DEF Deciding!BlendsWithinInputs
  <1>0. r \in Readings
    BY DEF VerdictsInv
  <1>1. Deciding!Between(Deciding!MarketConfidence(r), Deciding!ConfidenceInputs(r), 50)
    BY <1>0, MarketWeighs, BetweenHolds DEF Deciding!MarketConfidence
  <1>2. Deciding!Between(Deciding!MarketQuality(r), Deciding!Dimensions(r), Deciding!None)
    BY <1>0, MarketWeighs, BetweenHolds DEF Deciding!MarketQuality
  <1>3. Deciding!Between(Deciding!Conviction(r, direction), Deciding!Evidence(r, direction), 50)
    BY <1>0, EvidenceWeighs, BetweenHolds DEF Deciding!Conviction
  <1>4. Deciding!Between(Deciding!Priority(r, direction), Deciding!Factors(r, direction), 0)
    BY <1>0, FactorsWeigh, BetweenHolds DEF Deciding!Priority
  <1>5. LET p == Deciding!Calibrated(r).probability
            q == Deciding!MarketQuality(r)
        IN  Deciding!Adjusted(p, q) \in 50..p \/ Deciding!Adjusted(p, q) \in p..50
    <2>1. Deciding!Calibrated(r).probability \in Int /\ Deciding!MarketQuality(r) \in 0..100
      BY <1>0, EvidenceWeighs, MarketWeighs
    <2> QED BY <2>1, AdjustedTowardsHalf
  <1> QED BY <1>1, <1>2, <1>3, <1>4, <1>5

\* A qualified reading has its models, its spread, its feature quality and its analogs.
LEMMA QualifiedHas ==
    ASSUME NEW r, Deciding!Qualified(r)
    PROVE  /\ Deciding!Proceed(r.models) /\ r.spread # Deciding!None
           /\ r.featureQuality # Deciding!None /\ Deciding!MeanSimilarity(r) # Deciding!None
  BY DEF Deciding!Qualified, Deciding!Rejections

LEMMA NothingQualifies ==
    ASSUME NEW r \in Readings, NEW source \in {"models", "spread", "featureQuality", "analogs"}
    PROVE  ~ Deciding!Qualified(Deciding!Without(r, source))
  <1>0. DOMAIN r = {"models", "calibration", "analogs", "similarity", "event", "flow", "dataQuality",
                    "featureQuality", "correlation", "transition", "breadth", "volatility", "liquidity",
                    "spread", "risk", "leadership", "trigger", "lifetime", "structure", "relative", "options"}
    BY ReadingsAssumption
  <1> DEFINE less == Deciding!Without(r, source)
  <1>1. CASE source = "models"
    <2>1. less.models = <<>>
      BY <1>0, <1>1 DEF Deciding!Without
    <2> HIDE DEF less
    <2>2. ~ Deciding!Proceed(less.models)
      BY <2>1 DEF Deciding!Proceed, Deciding!Agreement
    <2> QED BY <2>2, QualifiedHas DEF less
  <1>2. CASE source = "spread"
    <2>1. less.spread = Deciding!None
      BY <1>0, <1>2 DEF Deciding!Without
    <2> HIDE DEF less
    <2> QED BY <2>1, QualifiedHas DEF less
  <1>3. CASE source = "featureQuality"
    <2>1. less.featureQuality = Deciding!None
      BY <1>0, <1>3 DEF Deciding!Without
    <2> HIDE DEF less
    <2> QED BY <2>1, QualifiedHas DEF less
  <1>4. CASE source = "analogs"
    <2>1. less.analogs = {}
      BY <1>0, <1>4 DEF Deciding!Without
    <2> HIDE DEF less
    <2>2. Deciding!MeanSimilarity(less) = Deciding!None
      BY <2>1 DEF Deciding!MeanSimilarity
    <2> QED BY <2>2, QualifiedHas DEF less
  <1> QED BY <1>1, <1>2, <1>3, <1>4

LEMMA LossHolds == ASSUME VerdictsInv PROVE Deciding!LosingDataNeverQualifies
  <1>1. ASSUME NEW r \in reading, Deciding!Qualified(r)
        PROVE  LET side == Deciding!ModelDirection(Deciding!Blend(r.models).probability)
                   with == {k \in DOMAIN r.models : Deciding!ModelDirection(r.models[k].probability) = side}
               IN  r.models # <<>> /\ 5 * Deciding!Cardinality(with) >= 4 * Len(r.models)
    <2> DEFINE with == {k \in DOMAIN r.models :
                          Deciding!ModelDirection(r.models[k].probability)
                            = Deciding!ModelDirection(Deciding!Blend(r.models).probability)}
    <2>0. r \in Readings
      BY DEF VerdictsInv
    <2>1. Deciding!Agreement(r.models) >= 80
      BY <1>1, QualifiedHas DEF Deciding!Proceed
    <2>2. r.models # <<>>
      BY <2>1 DEF Deciding!Agreement
    <2>3. /\ Len(r.models) \in Nat /\ Len(r.models) > 0 /\ Deciding!Cardinality(with) \in Nat
          /\ Deciding!Agreement(r.models) = (100 * Deciding!Cardinality(with)) \div Len(r.models)
      BY <2>0, <2>2, AgreementCounts
    <2>4. \A c \in Nat, n \in Nat : n > 0 /\ (100 * c) \div n >= 80 => 5 * c >= 4 * n
      <3> SUFFICES ASSUME NEW c \in Nat, NEW n \in Nat, n > 0, (100 * c) \div n >= 80 PROVE 5 * c >= 4 * n
        OBVIOUS
      <3> DEFINE q == (100 * c) \div n
      <3>1. q \in Int /\ n * q <= 100 * c
        OBVIOUS
      <3>2. q >= 80
        OBVIOUS
      <3> HIDE DEF q
      <3>3. n * q >= n * 80
        BY <3>1, <3>2
      <3> QED BY <3>1, <3>3
    <2> HIDE DEF with
    <2>5. 5 * Deciding!Cardinality(with) >= 4 * Len(r.models)
      BY <2>1, <2>3, <2>4
    <2> QED BY <2>2, <2>5 DEF with
  <1>2. ASSUME NEW r \in reading, NEW source \in {"models", "spread", "featureQuality", "analogs"}
        PROVE  ~ Deciding!Qualified(Deciding!Without(r, source))
    BY NothingQualifies DEF VerdictsInv
  <1> QED BY <1>1, <1>2 DEF Deciding!LosingDataNeverQualifies

(* VerdictsSound: whatever is known of a candidate, what the engines blend *)
(* lies between what they blend it of, the market takes a probability      *)
(* towards one half and never past it, and what qualifies has its models,  *)
(* four fifths of which agree, its spread, the quality of its features and *)
(* its analogs (prediction/).                                              *)
THEOREM VerdictsSafe == Spec => []VerdictsSound
  <1>1. Init => VerdictsInv
    BY DEF VerdictsInv, Init, Deciding!Init
  <1>2. VerdictsInv /\ [Next]_vars => VerdictsInv'
    BY DEF VerdictsInv, Next, vars, Deciding!Next,
           DeliverSignals, FollowTheNews, DrawTheLine, AskTheSources, KeepTheSchedule,
           ReplayALedger, LabelATrade, ReadAChart, DecideOnACandidate, CallADependency, CallTheBroker
  <1>3. VerdictsInv => VerdictsSound
    BY BlendsHold, LossHolds DEF VerdictsSound
  <1> QED BY <1>1, <1>2, <1>3, PTL DEF Spec
-----------------------------------------------------------------------------
(* The circuit breaker and its clients.                                    *)

USE CircuitAssumption

\* Every operation of the breaker keeps its record well formed.
LEMMA BreakerOperations ==
    ASSUME NEW b \in Guarding!Breakers
    PROVE  /\ Guarding!NewBreaker \in Guarding!Breakers
           /\ Guarding!RecordFailure(b) \in Guarding!Breakers
           /\ Guarding!Cool(b) \in Guarding!Breakers
           /\ Guarding!Allows(b) => Guarding!Allowed(b) \in Guarding!Breakers
  <1>1. Guarding!NewBreaker \in Guarding!Breakers
    BY DEF Guarding!NewBreaker, Guarding!Breakers, Guarding!CircuitStates
  <1>2. Guarding!RecordFailure(b) \in Guarding!Breakers
    <2>1. ASSUME NEW x \in Guarding!Breakers PROVE Guarding!Open(x) \in Guarding!Breakers
      <3>1. RecoveryTimeout \in 0..RecoveryTimeout /\ "open" \in Guarding!CircuitStates
        BY DEF Guarding!CircuitStates
      <3> QED BY <3>1 DEF Guarding!Open, Guarding!Breakers
    <2>2. [b EXCEPT !.failures = IF @ < MaxFailures THEN @ + 1 ELSE @] \in Guarding!Breakers
      <3>1. (IF b.failures < MaxFailures THEN b.failures + 1 ELSE b.failures)
              \in 0..MaxFailures
        BY DEF Guarding!Breakers
      <3> QED BY <3>1 DEF Guarding!Breakers
    <2> QED BY <2>1, <2>2 DEF Guarding!RecordFailure
  <1>3. Guarding!Cool(b) \in Guarding!Breakers
    BY DEF Guarding!Cool, Guarding!Breakers
  <1>4. Guarding!Allows(b) => Guarding!Allowed(b) \in Guarding!Breakers
    <2>1. CASE b.state = "closed"
      BY <2>1 DEF Guarding!Allowed
    <2>2. CASE b.state = "open"
      <3>1. Guarding!Allowed(b) = [b EXCEPT !.state = "half_open", !.probes = 1]
        BY <2>2 DEF Guarding!Allowed
      <3>2. 1 \in 0..HalfOpenMaxCalls /\ "half_open" \in Guarding!CircuitStates
        BY DEF Guarding!CircuitStates
      <3> QED BY <3>1, <3>2 DEF Guarding!Breakers
    <2>3. ASSUME b.state = "half_open", b.probes < HalfOpenMaxCalls
          PROVE  Guarding!Allowed(b) \in Guarding!Breakers
      <3>1. Guarding!Allowed(b) = [b EXCEPT !.state = "half_open", !.probes = b.probes + 1]
        BY <2>3 DEF Guarding!Allowed
      <3>2. b.probes + 1 \in 0..HalfOpenMaxCalls
        BY <2>3 DEF Guarding!Breakers
      <3> QED BY <3>1, <3>2 DEF Guarding!Breakers, Guarding!CircuitStates
    <2> QED BY <2>1, <2>2, <2>3 DEF Guarding!Allows, Guarding!Elapsed, Guarding!Breakers
  <1> QED BY <1>1, <1>2, <1>3, <1>4

\* A set has as many elements in one module as in another.
LEMMA CircuitCounts == \A S : Guarding!Cardinality(S) = Cardinality(S)
  BY DEF Guarding!Cardinality, Cardinality

CircuitInv == Guarding!TypeOK /\ Guarding!ClosedBelowThreshold /\ Guarding!HalfOpenAwaitsProbes

\* The probes are finitely many.
LEMMA ProbingFinite == ASSUME Guarding!TypeOK PROVE IsFiniteSet(probing)
  BY FS_Subset DEF Guarding!TypeOK

\* The circuit starts closed and nobody calls.
LEMMA InitCircuit == Guarding!Init => CircuitInv
  BY BreakerOperations
     DEF Guarding!Init, CircuitInv, Guarding!TypeOK, Guarding!ClosedBelowThreshold, Guarding!HalfOpenAwaitsProbes,
         Guarding!NewBreaker, Guarding!Breakers, Guarding!CircuitStates

\* Letting a call through fills one place of the spell, or none.
LEMMA AdmitPreserves == ASSUME CircuitInv, NEW c \in Clients, Guarding!Admit(c) PROVE CircuitInv'
  <1>1. breaker \in Guarding!Breakers /\ Guarding!Allows(breaker) /\ breaker' = Guarding!Allowed(breaker)
    BY DEF CircuitInv, Guarding!TypeOK, Guarding!Admit
  <1>2. Guarding!TypeOK'
    BY <1>1, BreakerOperations DEF CircuitInv, Guarding!TypeOK, Guarding!Admit
  <1>3. CASE breaker.state = "closed"
    <2>1. breaker' = breaker /\ probing' = probing
      BY <1>1, <1>3 DEF Guarding!Allowed, Guarding!Admit
    <2> QED BY <1>2, <2>1 DEF CircuitInv, Guarding!ClosedBelowThreshold, Guarding!HalfOpenAwaitsProbes
  <1>4. CASE breaker.state = "open"
    <2>1. breaker'.state = "half_open" /\ breaker'.probes = 1
      BY <1>1, <1>4 DEF Guarding!Allowed, Guarding!Breakers
    <2>2. probing' = {c}
      BY <1>4 DEF CircuitInv, Guarding!HalfOpenAwaitsProbes, Guarding!Admit
    <2>3. Guarding!Cardinality({c}) = 1
      BY FS_Singleton, CircuitCounts
    <2> QED BY <1>2, <2>1, <2>2, <2>3 DEF CircuitInv, Guarding!ClosedBelowThreshold, Guarding!HalfOpenAwaitsProbes
  <1>5. CASE breaker.state = "half_open"
    <2>1. breaker'.state = "half_open" /\ breaker'.probes = breaker.probes + 1
      BY <1>1, <1>5 DEF Guarding!Allowed, Guarding!Breakers
    <2>2. probing' = probing \cup {c} /\ c \notin probing
      BY <1>5 DEF CircuitInv, Guarding!TypeOK, Guarding!Admit
    <2>3. Guarding!Cardinality(probing') = Guarding!Cardinality(probing) + 1
      BY <2>2, ProbingFinite, FS_AddElement, CircuitCounts DEF CircuitInv
    <2> QED BY <1>2, <1>5, <2>1, <2>2, <2>3
            DEF CircuitInv, Guarding!ClosedBelowThreshold, Guarding!HalfOpenAwaitsProbes
  <1> QED BY <1>1, <1>3, <1>4, <1>5 DEF Guarding!Breakers, Guarding!CircuitStates

\* Any success closes the circuit and forgets the failures.
LEMMA SucceedPreserves == ASSUME CircuitInv, NEW c \in Clients, Guarding!Succeed(c) PROVE CircuitInv'
  <1>1. breaker' = Guarding!NewBreaker /\ Guarding!NewBreaker \in Guarding!Breakers
    BY BreakerOperations DEF Guarding!Succeed, Guarding!Record, Guarding!RecordSuccess, CircuitInv, Guarding!TypeOK
  <1>2. probing' = {}
    BY DEF CircuitInv, Guarding!HalfOpenAwaitsProbes, Guarding!Succeed, Guarding!Record
  <1>3. Guarding!TypeOK'
    BY <1>1, <1>2 DEF CircuitInv, Guarding!TypeOK, Guarding!Succeed, Guarding!Record
  <1> QED BY <1>1, <1>2, <1>3
          DEF CircuitInv, Guarding!ClosedBelowThreshold, Guarding!HalfOpenAwaitsProbes, Guarding!NewBreaker

\* A failure opens the circuit, or leaves it closed below its threshold, or open.
LEMMA FailPreserves == ASSUME CircuitInv, NEW c \in Clients, Guarding!Fail(c) PROVE CircuitInv'
  <1>1. breaker \in Guarding!Breakers /\ breaker' = Guarding!RecordFailure(breaker)
    BY DEF CircuitInv, Guarding!TypeOK, Guarding!Fail, Guarding!Record
  <1>2. probing' = {}
    BY DEF CircuitInv, Guarding!HalfOpenAwaitsProbes, Guarding!Fail, Guarding!Record
  <1>3. Guarding!TypeOK'
    BY <1>1, <1>2, BreakerOperations DEF CircuitInv, Guarding!TypeOK, Guarding!Fail, Guarding!Record
  <1>4. breaker'.state # "half_open"
    BY <1>1 DEF Guarding!RecordFailure, Guarding!Open, Guarding!Breakers, Guarding!CircuitStates
  <1>5. breaker'.state = "closed" => breaker'.failures < FailureThreshold
    BY <1>1 DEF Guarding!RecordFailure, Guarding!Open, Guarding!Breakers, Guarding!CircuitStates
  <1> QED BY <1>2, <1>3, <1>4, <1>5 DEF CircuitInv, Guarding!ClosedBelowThreshold, Guarding!HalfOpenAwaitsProbes

\* Time touches the cooldown only.
LEMMA TickPreserves == ASSUME CircuitInv, Guarding!Tick PROVE CircuitInv'
  <1>1. /\ breaker \in Guarding!Breakers /\ breaker' = Guarding!Cool(breaker)
        /\ UNCHANGED <<calling, probing, reachable>>
    BY DEF CircuitInv, Guarding!TypeOK, Guarding!Tick
  <1>2. /\ breaker' \in Guarding!Breakers
        /\ breaker'.state = breaker.state /\ breaker'.failures = breaker.failures
        /\ breaker'.probes = breaker.probes
    BY <1>1, BreakerOperations DEF Guarding!Cool, Guarding!Breakers
  <1> QED BY <1>1, <1>2 DEF CircuitInv, Guarding!TypeOK, Guarding!ClosedBelowThreshold, Guarding!HalfOpenAwaitsProbes

\* CircuitBreaker: the circuit opens on time, and every half-open spell accounts for
\* each of its probes.
THEOREM CircuitSafe == Guarding!Spec => [](Guarding!TypeOK /\ Guarding!CircuitSound)
  <1>1. CircuitInv /\ [Guarding!Next]_(Guarding!vars) => CircuitInv'
    <2> SUFFICES ASSUME CircuitInv, [Guarding!Next]_(Guarding!vars) PROVE CircuitInv'
      OBVIOUS
    <2>1. ASSUME NEW c \in Clients, Guarding!Admit(c) PROVE CircuitInv'
      BY <2>1, AdmitPreserves
    <2>2. ASSUME NEW c \in Clients, Guarding!Succeed(c) PROVE CircuitInv'
      BY <2>2, SucceedPreserves
    <2>3. ASSUME NEW c \in Clients, Guarding!Fail(c) PROVE CircuitInv'
      BY <2>3, FailPreserves
    <2>4. CASE Guarding!Tick
      BY <2>4, TickPreserves
    <2>5. CASE Guarding!Flip \/ UNCHANGED Guarding!vars
      BY <2>5 DEF Guarding!Flip, Guarding!vars, CircuitInv, Guarding!TypeOK, Guarding!ClosedBelowThreshold, Guarding!HalfOpenAwaitsProbes
    <2> QED BY <2>1, <2>2, <2>3, <2>4, <2>5 DEF Guarding!Next
  <1> QED BY InitCircuit, <1>1, PTL DEF Guarding!Spec, CircuitInv, Guarding!CircuitSound


-----------------------------------------------------------------------------
(* The broker adapter.                                                     *)

\* The circuit of a broker that answers: it is new, or counts the one failure of a
\* request whose last attempt went into refreshing the session.
Healthy == {Adapting!NewBreaker, [Adapting!NewBreaker EXCEPT !.failures = 1]}

Calls == [pc : {"idle", "ready", "sent"}, kind : Adapting!Kinds,
          outer : Int, inner : Int, token : Adapting!Tokens]

\* At such a broker no refresh token is stale, neither the adapter's nor one on its way.
Renewable ==
    /\ jwt \in Adapting!Tokens
    /\ refresh \in {"none", "live"}
    /\ request \in [Tasks -> Calls]
    /\ \A t \in Tasks : request[t].kind = "refresh" => request[t].token = "live"

Quiet == brokerFaults \subseteq {"rejected"} => guard \in Healthy /\ Renewable

\* What the breaker does with the calls of such a broker.
LEMMA HealthyOperations ==
    ASSUME FailureThreshold > 1, NEW b \in Healthy
    PROVE  /\ b.state = "closed" /\ b.cooldown = 0
           /\ Adapting!Allowed(b) = b
           /\ Adapting!RecordSuccess(b) \in Healthy
           /\ Adapting!RecordFailure(Adapting!RecordSuccess(b)) \in Healthy
  <1>1. b.state = "closed" /\ b.cooldown = 0
    BY DEF Healthy, Adapting!NewBreaker
  <1>2. Adapting!Allowed(b) = b
    BY <1>1 DEF Adapting!Allowed
  <1>3. Adapting!RecordSuccess(b) = Adapting!NewBreaker
    BY DEF Adapting!RecordSuccess
  <1>4. Adapting!RecordFailure(Adapting!NewBreaker) = [Adapting!NewBreaker EXCEPT !.failures = 1]
    BY DEF Adapting!RecordFailure, Adapting!NewBreaker, Adapting!Open
  <1> QED BY <1>1, <1>2, <1>3, <1>4 DEF Healthy

LEMMA InitQuiet == Adapting!Init => Quiet
  BY DEF Adapting!Init, Adapting!Idle, Adapting!Kinds, Adapting!Tokens, Quiet, Healthy, Renewable,
         Calls

\* A request is still one when its parts are set.
LEMMA CallStarts ==
    ASSUME NEW c \in Calls, NEW kind \in Adapting!Kinds
    PROVE  LET d == [c EXCEPT !.pc = "ready", !.kind = kind, !.outer = 1]
           IN  d \in Calls /\ d.kind = kind
  <1> DEFINE d == [c EXCEPT !.pc = "ready", !.kind = kind, !.outer = 1]
  <1>1. [c EXCEPT !.pc = "ready"] \in Calls
    BY DEF Calls
  <1>2. ASSUME NEW x \in Calls PROVE [x EXCEPT !.kind = kind] \in Calls
    BY DEF Calls
  <1>3. ASSUME NEW x \in Calls PROVE [x EXCEPT !.outer = 1] \in Calls
    BY DEF Calls
  <1>4. d \in Calls
    BY <1>1, <1>2, <1>3
  <1>5. d.kind = kind
    BY DEF Calls
  <1> QED BY <1>4, <1>5

\* The nested request of a 401.
Renewing(c, kind, token) ==
    [c EXCEPT !.pc = "ready", !.token = token, !.kind = kind, !.inner = 1]

LEMMA CallNests ==
    ASSUME NEW c \in Calls, NEW kind \in Adapting!Kinds, NEW token \in Adapting!Tokens
    PROVE  /\ Renewing(c, kind, token) \in Calls
           /\ Renewing(c, kind, token).kind = kind
           /\ Renewing(c, kind, token).token = token
  <1>1. [c EXCEPT !.pc = "ready"] \in Calls
    BY DEF Calls
  <1>2. ASSUME NEW x \in Calls PROVE [x EXCEPT !.token = token] \in Calls
    BY DEF Calls
  <1>3. ASSUME NEW x \in Calls PROVE [x EXCEPT !.kind = kind] \in Calls
    BY DEF Calls
  <1>4. ASSUME NEW x \in Calls PROVE [x EXCEPT !.inner = 1] \in Calls
    BY DEF Calls
  <1>5. Renewing(c, kind, token) \in Calls
    BY <1>1, <1>2, <1>3, <1>4 DEF Renewing
  <1>6. Renewing(c, kind, token).kind = kind /\ Renewing(c, kind, token).token = token
    BY DEF Calls, Renewing
  <1> QED BY <1>5, <1>6

\* A task's request changes into another that is renewable.
LEMMA CallChanges ==
    ASSUME Renewable, NEW t \in Tasks, NEW c \in Calls, request' = [request EXCEPT ![t] = c],
           jwt' \in Adapting!Tokens, refresh' \in {"none", "live"},
           c.kind = "refresh" => c.token = "live"
    PROVE  Renewable'
  BY DEF Renewable

LEMMA NextQuiet ==
    ASSUME FailureThreshold > 1, Quiet, [Adapting!Next]_(Adapting!vars) PROVE Quiet'
  <1> SUFFICES ASSUME brokerFaults' \subseteq {"rejected"} PROVE guard' \in Healthy /\ Renewable'
    BY DEF Quiet
  <1>1. brokerFaults' = brokerFaults
    BY DEF Adapting!Next, Adapting!vars, Adapting!Start, Adapting!Send, Adapting!Reply,
           Adapting!Answered, Adapting!SessionAnswered, Adapting!Unauthorized, Adapting!Errored,
           Adapting!Rejected, Adapting!SessionExpires, Adapting!Tick
  <1>2. brokerFaults \subseteq {"rejected"} /\ guard \in Healthy /\ Renewable
    BY <1>1 DEF Quiet
  <1>3. /\ guard.state = "closed" /\ guard.cooldown = 0
        /\ Adapting!Allowed(guard) = guard
        /\ Adapting!RecordSuccess(guard) \in Healthy
        /\ Adapting!RecordFailure(Adapting!RecordSuccess(guard)) \in Healthy
    BY <1>2, HealthyOperations
  <1>4. /\ jwt \in Adapting!Tokens /\ refresh \in {"none", "live"}
        /\ Adapting!Idle \in Calls /\ Adapting!Idle.kind = "data"
        /\ {"none", "live", "expired"} = Adapting!Tokens
        /\ {"data", "login", "refresh"} = Adapting!Kinds
    BY <1>2 DEF Renewable, Calls, Adapting!Idle, Adapting!Kinds, Adapting!Tokens
  <1>5. ASSUME NEW t \in Tasks
        PROVE  request[t] \in Calls /\ (request[t].kind = "refresh" => request[t].token = "live")
    BY <1>2 DEF Renewable
  <1>6. ASSUME NEW t \in Tasks, NEW kind \in {"data", "login"}, Adapting!Start(t, kind)
        PROVE  guard' \in Healthy /\ Renewable'
    <2> DEFINE c == [Adapting!Idle EXCEPT !.pc = "ready", !.kind = kind, !.outer = 1]
    <2>1. c \in Calls /\ c.kind # "refresh"
      <3>1. kind \in Adapting!Kinds /\ kind # "refresh"
        BY DEF Adapting!Kinds
      <3> QED BY <1>4, <3>1, CallStarts
    <2>2. guard' = guard /\ request' = [request EXCEPT ![t] = c] /\ UNCHANGED <<jwt, refresh>>
      BY <1>3, <1>6 DEF Adapting!Start
    <2> HIDE DEF c
    <2> QED BY <1>2, <1>4, <2>1, <2>2, CallChanges
  <1>7. ASSUME NEW t \in Tasks, Adapting!Send(t) PROVE guard' \in Healthy /\ Renewable'
    <2> DEFINE c == [request[t] EXCEPT !.pc = "sent",
                                    !.token = IF request[t].kind = "data" THEN jwt ELSE @]
    <2>1. c \in Calls /\ (c.kind = "refresh" => c.token = "live")
      BY <1>4, <1>5 DEF Calls
    <2>2. request' = [request EXCEPT ![t] = c] /\ UNCHANGED <<guard, jwt, refresh>>
      BY <1>2, <1>7 DEF Adapting!Send, Renewable
    <2> HIDE DEF c
    <2> QED BY <1>2, <1>4, <2>1, <2>2, CallChanges
  <1>8. ASSUME NEW kind, Adapting!NewSession(kind)
        PROVE  jwt' \in Adapting!Tokens /\ refresh' \in {"none", "live"}
    BY <1>4, <1>8 DEF Adapting!NewSession
  <1>9. ASSUME NEW t \in Tasks, Adapting!Answered(t) PROVE guard' \in Healthy /\ Renewable'
    <2>1. jwt' \in Adapting!Tokens /\ refresh' \in {"none", "live"}
      BY <1>4, <1>8, <1>9 DEF Adapting!Answered
    <2>2. guard' \in Healthy /\ request' = [request EXCEPT ![t] = Adapting!Idle]
      BY <1>3, <1>9 DEF Adapting!Answered, Adapting!Finish
    <2> QED BY <1>2, <1>4, <2>1, <2>2, CallChanges
  <1>10. ASSUME NEW t \in Tasks, Adapting!SessionAnswered(t)
         PROVE  guard' \in Healthy /\ Renewable'
    <2> DEFINE c == [Adapting!Idle EXCEPT !.pc = "ready", !.outer = request[t].outer + 1]
    <2>1. jwt' \in Adapting!Tokens /\ refresh' \in {"none", "live"}
      BY <1>8, <1>10 DEF Adapting!SessionAnswered
    <2>2. guard' \in Healthy
      BY <1>3, <1>10 DEF Adapting!SessionAnswered
    <2>3. request' = [request EXCEPT ![t] = Adapting!Idle] \/ request' = [request EXCEPT ![t] = c]
      BY <1>10 DEF Adapting!SessionAnswered, Adapting!Finish
    <2>4. c \in Calls /\ c.kind # "refresh"
      <3>1. request[t].outer + 1 \in Int
        BY <1>5 DEF Calls
      <3> QED BY <1>4, <3>1 DEF Calls
    <2> HIDE DEF c
    <2> QED BY <1>2, <1>4, <2>1, <2>2, <2>3, <2>4, CallChanges
  <1>11. ASSUME NEW t \in Tasks, Adapting!Unauthorized(t)
         PROVE  guard' \in Healthy /\ Renewable'
    <2> DEFINE c == [request[t] EXCEPT !.pc = "ready", !.token = refresh,
                                    !.kind = IF refresh = "none" THEN "login" ELSE "refresh",
                                    !.inner = 1]
    <2>1. c \in Calls /\ (c.kind = "refresh" => c.token = "live")
      <3>1. PICK kind \in Adapting!Kinds :
              kind = IF refresh = "none" THEN "login" ELSE "refresh"
        BY DEF Adapting!Kinds
      <3>2. PICK token \in Adapting!Tokens : token = refresh
        BY <1>4
      <3>3. c = Renewing(request[t], kind, token)
        BY <3>1, <3>2 DEF Renewing
      <3>4. request[t] \in Calls
        BY <1>5
      <3> HIDE DEF c
      <3>5. c \in Calls /\ c.kind = kind /\ c.token = token
        BY <3>3, <3>4, CallNests
      <3> QED BY <1>4, <3>1, <3>2, <3>5
    <2>2. guard' = guard /\ UNCHANGED <<jwt, refresh>>
      BY <1>3, <1>11 DEF Adapting!Unauthorized
    <2>3. request' = [request EXCEPT ![t] = Adapting!Idle] \/ request' = [request EXCEPT ![t] = c]
      BY <1>2, <1>11 DEF Adapting!Unauthorized, Adapting!Finish, Renewable
    <2> HIDE DEF c
    <2> QED BY <1>2, <1>4, <2>1, <2>2, <2>3, CallChanges
  <1>12. ASSUME NEW t \in Tasks, Adapting!Errored(t) PROVE FALSE
    BY <1>2, <1>5, <1>12 DEF Adapting!Errored
  <1>13. ASSUME NEW t \in Tasks, Adapting!Rejected(t) PROVE guard' \in Healthy /\ Renewable'
    <2>1. request' = [request EXCEPT ![t] = Adapting!Idle] /\ UNCHANGED <<guard, jwt, refresh>>
      BY <1>13 DEF Adapting!Rejected, Adapting!Finish
    <2> QED BY <1>2, <1>4, <2>1, CallChanges
  <1>14. CASE Adapting!SessionExpires
    <2>1. jwt' = "expired" /\ UNCHANGED <<guard, refresh, request>>
      BY <1>2, <1>14 DEF Adapting!SessionExpires
    <2> QED BY <1>2, <1>4, <2>1 DEF Renewable
  <1>15. CASE Adapting!Tick \/ UNCHANGED Adapting!vars
    BY <1>2, <1>3, <1>15 DEF Adapting!Tick, Adapting!vars, Renewable
  <1> QED BY <1>6, <1>7, <1>9, <1>10, <1>11, <1>12, <1>13, <1>14, <1>15
          DEF Adapting!Next, Adapting!Reply

(* BrokerAdapter: answers whose body is an error, and sessions that end,   *)
(* never open the circuit, whatever requests are under way: they add up to *)
(* one failure at most, so a threshold of one (config.py has three) is     *)
(* left out.                                                               *)
THEOREM AdapterSafe == Adapting!Spec => []Adapting!BodyErrorsKeepCircuitClosed
  <1>1. Quiet => Adapting!BodyErrorsKeepCircuitClosed
    BY ThresholdAssumption, HealthyOperations DEF Quiet, Adapting!BodyErrorsKeepCircuitClosed
  <1>2. Quiet /\ [Adapting!Next]_(Adapting!vars) => Quiet'
    BY ThresholdAssumption, NextQuiet
  <1> QED BY InitQuiet, <1>1, <1>2, PTL DEF Adapting!Spec

-----------------------------------------------------------------------------
(* The breaker with its clients and the broker's adapter in one.           *)

LEMMA CircuitProjects == Spec => Guarding!Spec
  <1>1. Init => Guarding!Init
    BY DEF Init
  <1>2. [Next]_vars => [Guarding!Next]_(Guarding!vars)
    BY DEF Next, vars, DeliverSignals, FollowTheNews, DrawTheLine, AskTheSources, KeepTheSchedule,
           ReplayALedger, LabelATrade, ReadAChart, DecideOnACandidate, CallADependency, CallTheBroker,
           circuit, Guarding!vars
  <1> QED BY <1>1, <1>2, PTL DEF Spec, Guarding!Spec

LEMMA BrokerProjects == Spec => Adapting!Spec
  <1>1. Init => Adapting!Init
    BY DEF Init
  <1>2. [Next]_vars => [Adapting!Next]_(Adapting!vars)
    BY DEF Next, vars, DeliverSignals, FollowTheNews, DrawTheLine, AskTheSources, KeepTheSchedule,
           ReplayALedger, LabelATrade, ReadAChart, DecideOnACandidate, CallADependency, CallTheBroker,
           broker, Adapting!vars
  <1> QED BY <1>1, <1>2, PTL DEF Spec, Adapting!Spec

(* CallsGuarded: the circuit opens, probes and closes on time, and the     *)
(* broker's opens for failures of the broker only.                         *)
THEOREM CallsSafe == Spec => []CallsGuarded
  BY CircuitProjects, CircuitSafe, BrokerProjects, AdapterSafe, PTL DEF CallsGuarded
=============================================================================
