--------------------------- MODULE EventBusProofs ---------------------------
(***************************************************************************)
(* Proofs about EventBus for any events, handlers, retries, capacity and   *)
(* window, and any number of fan-outs: ids are deduplicated within the     *)
(* window, and a delivery has one fate.                                    *)
(***************************************************************************)
EXTENDS EventBus, FiniteSetTheorems, SequenceTheorems, TLAPS

USE BusAssumption

Fanouts == [id : EventIds, to : SUBSET Handlers, replays : Deliveries \cup {NoLetter}]

-----------------------------------------------------------------------------
(* Sequences.                                                              *)

\* What is trimmed from a queue are its oldest elements.
LEMMA YoungestFacts ==
    ASSUME NEW T, NEW s \in Seq(T), NEW k \in Nat, NEW t, t = Youngest(s, k)
    PROVE  /\ t \in Seq(T)
           /\ Len(t) = IF Len(s) > k THEN k ELSE Len(s)
           /\ \A i \in 1..Len(t) : t[i] = s[Len(s) - Len(t) + i]
  <1>1. CASE Len(s) > k
    <2>1. t = SubSeq(s, Len(s) - k + 1, Len(s))
      BY <1>1 DEF Youngest
    <2>2. Len(s) \in Nat /\ Len(s) - k + 1 \in 1..(Len(s) + 1)
      BY <1>1
    <2>3. t \in Seq(T) /\ Len(t) = k
      BY <2>1, <2>2
    <2>4. \A i \in 1..k : t[i] = s[Len(s) - k + i]
      BY <2>1, <2>2
    <2> QED BY <1>1, <2>3, <2>4
  <1>2. CASE ~(Len(s) > k)
    BY <1>2 DEF Youngest
  <1> QED BY <1>1, <1>2

\* A removed element closes the gap it leaves.
LEMMA RemoveAtFacts ==
    ASSUME NEW T, NEW s \in Seq(T), NEW k \in 1..Len(s), NEW t, t = RemoveAt(s, k)
    PROVE  /\ t \in Seq(T)
           /\ Len(t) = Len(s) - 1
           /\ \A i \in 1..Len(t) : t[i] = s[IF i < k THEN i ELSE i + 1]
  <1> DEFINE before == SubSeq(s, 1, k - 1)
             after == SubSeq(s, k + 1, Len(s))
  <1>1. before \in Seq(T) /\ Len(before) = k - 1 /\ \A i \in 1..(k - 1) : before[i] = s[i]
    OBVIOUS
  <1>2. /\ after \in Seq(T) /\ Len(after) = Len(s) - k
        /\ \A i \in 1..(Len(s) - k) : after[i] = s[k + i]
    OBVIOUS
  <1>3. t = before \o after
    BY DEF RemoveAt
  <1> HIDE DEF before, after
  <1>4. /\ t \in Seq(T)
        /\ Len(t) = Len(s) - 1
        /\ \A i \in 1..(Len(s) - 1) : t[i] = IF i <= k - 1 THEN before[i] ELSE after[i - (k - 1)]
    <2>1. Len(before) + Len(after) = Len(s) - 1
      BY <1>1, <1>2
    <2>2. /\ before \o after \in Seq(T)
          /\ Len(before \o after) = Len(before) + Len(after)
          /\ \A i \in 1..(Len(before) + Len(after)) :
               (before \o after)[i] = IF i <= Len(before) THEN before[i] ELSE after[i - Len(before)]
      BY <1>1, <1>2, ConcatProperties
    <2> QED BY <1>1, <1>3, <2>1, <2>2
  <1>5. ASSUME NEW i \in 1..(Len(s) - 1)
        PROVE  t[i] = s[IF i < k THEN i ELSE i + 1]
    <2>1. CASE i < k
      BY <1>1, <1>4, <2>1
    <2>2. CASE ~(i < k)
      <3>1. i - (k - 1) \in 1..(Len(s) - k) /\ k + (i - (k - 1)) = i + 1
        BY <2>2
      <3>2. t[i] = after[i - (k - 1)]
        BY <1>4, <2>2
      <3> QED BY <1>2, <2>2, <3>1, <3>2
    <2> QED BY <2>1, <2>2
  <1> QED BY <1>4, <1>5

-----------------------------------------------------------------------------
(* Types.                                                                  *)

\* A fan-out keeps the window, the history and the attempts well typed.
LEMMA FanOutTyped ==
    ASSUME TypeOK, NEW id \in EventIds, NEW letter \in Deliveries \cup {NoLetter},
           FanOut(id, letter)
    PROVE  /\ seen' \in Seq(EventIds)
           /\ fanouts' \in Seq(Fanouts)
           /\ attempt' \in [Deliveries -> 0..(MaxRetries + 1)]
  <1>1. Append(seen, id) \in Seq(EventIds)
    BY DEF TypeOK
  <1>2. seen' \in Seq(EventIds)
    BY <1>1, YoungestFacts DEF FanOut
  <1>3. subscribers[id.event] \in SUBSET Handlers
    BY DEF TypeOK, EventIds
  <1>4. [id |-> id, to |-> subscribers[id.event], replays |-> letter] \in Fanouts
    BY <1>3 DEF Fanouts
  <1>5. fanouts' \in Seq(Fanouts)
    BY <1>4 DEF FanOut, TypeOK, Fanouts
  <1>6. attempt' \in [Deliveries -> 0..(MaxRetries + 1)]
    BY DEF FanOut, TypeOK
  <1> QED BY <1>2, <1>5, <1>6

\* What Replay does: letter k leaves the queue, into a fan-out under a fresh id.
LEMMA ReplayFacts ==
    ASSUME TypeOK, NEW id \in EventIds, Replay(id)
    PROVE  \E k \in 1..Len(letters) :
             /\ letters' = RemoveAt(letters, k)
             /\ letters[k] \in Deliveries
             /\ [event |-> id.event, copy |-> Len(fanouts) + 1] \in EventIds
             /\ FanOut([event |-> id.event, copy |-> Len(fanouts) + 1], letters[k])
             /\ UNCHANGED <<subscribers, handled>>
  <1>1. PICK k \in DOMAIN letters :
           /\ letters' = RemoveAt(letters, k)
           /\ FanOut([event |-> id.event, copy |-> Len(fanouts) + 1], letters[k])
           /\ UNCHANGED <<subscribers, handled>>
    BY DEF Replay
  <1>2. k \in 1..Len(letters) /\ letters[k] \in Deliveries
    BY DEF TypeOK
  <1>3. Len(fanouts) + 1 \in 0..MaxFanouts
    BY <1>1 DEF FanOut, TypeOK
  <1>4. [event |-> id.event, copy |-> Len(fanouts) + 1] \in EventIds
    BY <1>3 DEF EventIds
  <1> QED BY <1>1, <1>2, <1>4

\* What Publish does.
LEMMA PublishFacts ==
    ASSUME NEW e \in Events, Publish(e)
    PROVE  /\ [event |-> e, copy |-> 0] \in EventIds
           /\ [event |-> e, copy |-> 0] \notin ToSet(seen)
           /\ FanOut([event |-> e, copy |-> 0], NoLetter)
           /\ UNCHANGED <<subscribers, letters, handled>>
  BY DEF Publish, EventIds, IsDuplicate

LEMMA StepTyped == TypeOK /\ [Next]_vars => TypeOK'
  <1> SUFFICES ASSUME TypeOK, [Next]_vars PROVE TypeOK'
    OBVIOUS
  <1>1. CASE UNCHANGED vars
    BY <1>1 DEF vars, TypeOK
  <1>2. ASSUME NEW h \in Handlers, NEW e \in Events, Subscribe(h, e) PROVE TypeOK'
    BY <1>2 DEF Subscribe, TypeOK
  <1>3. ASSUME NEW e \in Events, Publish(e) PROVE TypeOK'
    BY <1>3, PublishFacts, FanOutTyped DEF TypeOK, Fanouts
  <1>4. ASSUME NEW d \in Deliveries, Handle(d) PROVE TypeOK'
    BY <1>4 DEF Handle, TypeOK
  <1>5. ASSUME NEW d \in Deliveries, Retry(d) PROVE TypeOK'
    BY <1>5 DEF Retry, TypeOK
  <1>6. ASSUME NEW d \in Deliveries, Die(d) PROVE TypeOK'
    <2> DEFINE longer == Append(letters, d)
    <2>1. longer \in Seq(Deliveries)
      BY DEF TypeOK
    <2>2. letters' = Youngest(longer, Capacity) /\ Capacity \in Nat
      BY <1>6 DEF Die
    <2> HIDE DEF longer
    <2>3. letters' \in Seq(Deliveries) /\ Len(letters') <= Capacity
      BY <2>1, <2>2, YoungestFacts
    <2> QED BY <1>6, <2>3 DEF Die, TypeOK
  <1>7. ASSUME NEW id \in EventIds, Replay(id) PROVE TypeOK'
    <2>1. PICK k \in 1..Len(letters) :
             /\ letters' = RemoveAt(letters, k)
             /\ letters[k] \in Deliveries
             /\ [event |-> id.event, copy |-> Len(fanouts) + 1] \in EventIds
             /\ FanOut([event |-> id.event, copy |-> Len(fanouts) + 1], letters[k])
             /\ UNCHANGED <<subscribers, handled>>
      BY <1>7, ReplayFacts
    <2>2. letters' \in Seq(Deliveries) /\ Len(letters') <= Capacity
      <3>1. letters \in Seq(Deliveries) /\ Len(letters) <= Capacity
        BY DEF TypeOK
      <3>2. letters' \in Seq(Deliveries) /\ Len(letters') = Len(letters) - 1
        BY <2>1, <3>1, RemoveAtFacts
      <3> QED BY <3>1, <3>2
    <2> QED BY <2>1, <2>2, FanOutTyped DEF TypeOK, Fanouts
  <1> QED BY <1>1, <1>2, <1>3, <1>4, <1>5, <1>6, <1>7 DEF Next, Deliver

(* Subscribers, window, history, attempts and letters stay within types.   *)
THEOREM BusTyped == Spec => []TypeOK
  <1>1. Init => TypeOK
    BY DEF Init, TypeOK
  <1> QED BY <1>1, StepTyped, PTL DEF Spec

-----------------------------------------------------------------------------
(* The idempotency window.                                                 *)

\* The window holds the ids of the latest fan-outs; an id of a replay is its own.
Windowed ==
    /\ Len(seen) = IF Len(fanouts) > Window THEN Window ELSE Len(fanouts)
    /\ \A i \in 1..Len(seen) : seen[i] = fanouts[Len(fanouts) - Len(seen) + i].id
    /\ \A j \in 1..Len(fanouts) : fanouts[j].id.copy \in {0, j}

\* A fan-out whose id is not in the window is far from the last one of that id.
LEMMA FanOutWindowed ==
    ASSUME TypeOK, Windowed, DedupWithinWindow, NEW id \in EventIds, NEW letter,
           FanOut(id, letter),
           \/ id \notin ToSet(seen) /\ id.copy = 0
           \/ id.copy = Len(fanouts) + 1
    PROVE  Windowed' /\ DedupWithinWindow'
  <1> DEFINE n == Len(fanouts) + 1
             new == [id |-> id, to |-> subscribers[id.event], replays |-> letter]
  <1>1. /\ Len(fanouts) \in Nat /\ Len(fanouts') = n /\ fanouts'[n].id = id
        /\ \A j \in 1..Len(fanouts) : fanouts'[j] = fanouts[j]
    BY DEF FanOut, TypeOK
  <1>2. /\ Append(seen, id) \in Seq(EventIds) /\ Len(Append(seen, id)) = Len(seen) + 1
        /\ Append(seen, id)[Len(seen) + 1] = id
        /\ \A i \in 1..Len(seen) : Append(seen, id)[i] = seen[i]
        /\ Len(seen) \in Nat
    BY DEF TypeOK
  <1>3. /\ Len(seen') = IF Len(seen) + 1 > Window THEN Window ELSE Len(seen) + 1
        /\ \A i \in 1..Len(seen') : seen'[i] = Append(seen, id)[Len(seen) + 1 - Len(seen') + i]
    <2> DEFINE longer == Append(seen, id)
    <2>1. seen' = Youngest(longer, Window) /\ Window \in Nat
      BY DEF FanOut
    <2>2. longer \in Seq(EventIds) /\ Len(longer) = Len(seen) + 1
      BY <1>2
    <2> HIDE DEF longer
    <2>3. /\ Len(seen') = IF Len(longer) > Window THEN Window ELSE Len(longer)
          /\ \A i \in 1..Len(seen') : seen'[i] = longer[Len(longer) - Len(seen') + i]
      BY <2>1, <2>2, YoungestFacts
    <2>4. Len(seen') = IF Len(seen) + 1 > Window THEN Window ELSE Len(seen) + 1
      BY <2>2, <2>3
    <2>5. ASSUME NEW i \in 1..Len(seen')
          PROVE  seen'[i] = longer[Len(seen) + 1 - Len(seen') + i]
      <3>1. Len(longer) - Len(seen') + i = Len(seen) + 1 - Len(seen') + i
        BY <2>2
      <3>2. seen'[i] = longer[Len(longer) - Len(seen') + i]
        BY <2>3
      <3> QED BY <3>1, <3>2
    <2> QED BY <2>4, <2>5 DEF longer
  <1>4. Windowed'
    <2>1. Len(seen') = IF n > Window THEN Window ELSE n
      BY <1>1, <1>2, <1>3 DEF Windowed
    <2>2. ASSUME NEW i \in 1..Len(seen')
          PROVE  seen'[i] = fanouts'[n - Len(seen') + i].id
      <3> DEFINE m == Len(seen) + 1 - Len(seen') + i
      <3>1. m \in 1..(Len(seen) + 1) /\ n - Len(seen') + i = n - Len(seen) - 1 + m
        <4>1. Len(seen') \in Nat /\ Len(seen') <= Len(seen) + 1
          BY <1>2, <1>3
        <4> QED BY <1>1, <1>2, <4>1
      <3>2. seen'[i] = Append(seen, id)[m]
        BY <1>3
      <3> HIDE DEF m
      <3>3. CASE m = Len(seen) + 1
        BY <1>1, <1>2, <3>1, <3>2, <3>3
      <3>4. CASE m \in 1..Len(seen)
        <4>1. seen'[i] = fanouts[Len(fanouts) - Len(seen) + m].id
          BY <1>2, <3>2, <3>4 DEF Windowed
        <4>2. Len(fanouts) - Len(seen) + m \in 1..Len(fanouts)
          BY <1>1, <1>2, <3>4 DEF Windowed
        <4>3. n - Len(seen') + i = Len(fanouts) - Len(seen) + m
          BY <1>1, <1>2, <1>3, <3>1
        <4> QED BY <1>1, <4>1, <4>2, <4>3
      <3> QED BY <1>2, <3>1, <3>3, <3>4
    <2>3. \A j \in 1..n : fanouts'[j].id.copy \in {0, j}
      BY <1>1 DEF Windowed
    <2> QED BY <1>1, <2>1, <2>2, <2>3 DEF Windowed
  <1>5. ASSUME NEW j \in 1..Len(fanouts), fanouts[j].id = id
        PROVE  n - j > Window
    <2>1. id.copy = 0 /\ id \notin ToSet(seen)
      BY <1>1, <1>5 DEF Windowed
    <2>2. ~(j > Len(fanouts) - Len(seen))
      <3>1. SUFFICES ASSUME j > Len(fanouts) - Len(seen) PROVE FALSE
        OBVIOUS
      <3> DEFINE i == j - (Len(fanouts) - Len(seen))
      <3>2. i \in 1..Len(seen) /\ Len(fanouts) - Len(seen) + i = j
        BY <1>1, <1>2, <3>1
      <3>3. seen[i] = id
        BY <1>5, <3>2 DEF Windowed
      <3>4. seen[i] \in ToSet(seen)
        BY <3>2 DEF ToSet, TypeOK
      <3> QED BY <2>1, <3>3, <3>4
    <2> QED BY <1>1, <1>2, <2>2 DEF Windowed
  <1>6. DedupWithinWindow'
    <2> SUFFICES ASSUME NEW j \in 1..n, NEW k \in 1..n, j < k, fanouts'[j].id = fanouts'[k].id
                 PROVE  k - j > Window
      BY <1>1 DEF DedupWithinWindow, FanOut, TypeOK
    <2>1. CASE k = n
      BY <1>1, <1>5, <2>1
    <2>2. CASE k # n
      <3>1. j \in DOMAIN fanouts /\ k \in DOMAIN fanouts /\ fanouts[j].id = fanouts[k].id
        <4>1. k \in 1..Len(fanouts) /\ j \in 1..Len(fanouts)
          BY <1>1, <2>2
        <4>2. fanouts'[j] = fanouts[j] /\ fanouts'[k] = fanouts[k] /\ DOMAIN fanouts = 1..Len(fanouts)
          BY <1>1, <4>1 DEF TypeOK
        <4> QED BY <4>1, <4>2
      <3> QED BY <3>1 DEF DedupWithinWindow
    <2> QED BY <2>1, <2>2
  <1> QED BY <1>4, <1>6

(* However the window fills, and whatever is replayed meanwhile, one event *)
(* id is not fanned out twice within the window.                           *)
THEOREM DedupSafe == Spec => []DedupWithinWindow
  <1>1. Init => Windowed /\ DedupWithinWindow
    BY DEF Init, Windowed, DedupWithinWindow
  <1>2. TypeOK /\ Windowed /\ DedupWithinWindow /\ [Next]_vars
          => (Windowed /\ DedupWithinWindow)'
    <2> SUFFICES ASSUME TypeOK, Windowed, DedupWithinWindow, [Next]_vars
                 PROVE  (Windowed /\ DedupWithinWindow)'
      OBVIOUS
    <2>1. ASSUME UNCHANGED <<seen, fanouts>> PROVE (Windowed /\ DedupWithinWindow)'
      BY <2>1 DEF Windowed, DedupWithinWindow
    <2>2. ASSUME NEW e \in Events, Publish(e) PROVE (Windowed /\ DedupWithinWindow)'
      BY <2>2, PublishFacts, FanOutWindowed
    <2>3. ASSUME NEW id \in EventIds, Replay(id) PROVE (Windowed /\ DedupWithinWindow)'
      BY <2>3, ReplayFacts, FanOutWindowed
    <2> QED BY <2>1, <2>2, <2>3 DEF Next, Deliver, Subscribe, Handle, Retry, Die, vars
  <1> QED BY <1>1, <1>2, BusTyped, PTL DEF Spec

-----------------------------------------------------------------------------
(* The fate of a delivery.                                                 *)

\* A delivery that is known belongs to a fan-out that was made, and what is a letter, or
\* was one and is replayed, is nothing else.
Fates ==
    /\ \A d \in Deliveries :
         attempt[d] > 0 \/ d \in handled => d.fanout \in 1..Len(fanouts)
    /\ \A d \in handled : attempt[d] = 0
    /\ \A k \in 1..Len(letters) : /\ letters[k].fanout \in 1..Len(fanouts)
                                 /\ attempt[letters[k]] = 0
                                 /\ letters[k] \notin handled
    /\ \A j, k \in 1..Len(letters) : letters[j] = letters[k] => j = k
    /\ \A n \in 1..Len(fanouts) : fanouts[n].replays # NoLetter =>
         /\ fanouts[n].replays.fanout \in 1..Len(fanouts)
         /\ attempt[fanouts[n].replays] = 0
         /\ fanouts[n].replays \notin handled
         /\ \A k \in 1..Len(letters) : letters[k] # fanouts[n].replays
         /\ \A m \in 1..Len(fanouts) : fanouts[m].replays = fanouts[n].replays => m = n

\* No delivery is without a handler.
LEMMA NoLetterIsNoDelivery == NoLetter \notin Deliveries
  BY DEF NoLetter, Deliveries

\* A fan-out of a letter that leaves the queue, or of none.
LEMMA FanOutFates ==
    ASSUME TypeOK, Fates, NEW id, NEW letter, FanOut(id, letter), UNCHANGED handled,
           \/ letter = NoLetter /\ UNCHANGED letters
           \/ \E k \in 1..Len(letters) : letter = letters[k] /\ letters' = RemoveAt(letters, k)
    PROVE  Fates'
  <1> DEFINE n == Len(fanouts) + 1
  <1>1. /\ Len(fanouts) \in Nat /\ Len(fanouts') = n /\ fanouts'[n].replays = letter
        /\ \A j \in 1..Len(fanouts) : fanouts'[j] = fanouts[j]
    BY DEF FanOut, TypeOK
  <1>2. \A d \in Deliveries : attempt'[d] = attempt[d] \/ d.fanout = n
    BY DEF FanOut
  <1>3. \A d \in Deliveries : attempt'[d] > 0 => attempt[d] > 0 \/ d.fanout = n
    BY <1>2
  <1>4. \A k \in 1..Len(letters) : letters[k] \in Deliveries
    BY DEF TypeOK
  <1>5. handled \subseteq Deliveries /\ handled' = handled
    BY DEF TypeOK
  <1>6. /\ letter = NoLetter \/ \E k \in 1..Len(letters) : letter = letters[k]
        /\ \A i \in 1..Len(letters') : /\ letters'[i] # letter
                                      /\ \E j \in 1..Len(letters) : letters'[i] = letters[j]
        /\ \A i, j \in 1..Len(letters') : letters'[i] = letters'[j] => i = j
    <2>1. CASE letter = NoLetter /\ UNCHANGED letters
      BY <1>4, <2>1, NoLetterIsNoDelivery DEF Fates
    <2>2. ASSUME NEW k \in 1..Len(letters), letter = letters[k], letters' = RemoveAt(letters, k)
          PROVE  <1>6!1 /\ <1>6!2 /\ <1>6!3
      <3> DEFINE from(i) == IF i < k THEN i ELSE i + 1
      <3>1. letters \in Seq(Deliveries)
        BY DEF TypeOK
      <3>2. /\ Len(letters) \in Nat /\ Len(letters') = Len(letters) - 1
            /\ \A i \in 1..Len(letters') : letters'[i] = letters[from(i)]
        BY <2>2, <3>1, RemoveAtFacts
      <3>3. \A i \in 1..Len(letters') : from(i) \in 1..Len(letters) /\ from(i) # k
        BY <3>2
      <3>4. \A i, j \in 1..Len(letters') : from(i) = from(j) => i = j
        BY <3>2
      <3>5. \A i, j \in 1..Len(letters) : letters[i] = letters[j] => i = j
        BY DEF Fates
      <3> HIDE DEF from
      <3>6. <1>6!1
        BY <2>2
      <3>7. <1>6!2
        BY <2>2, <3>2, <3>3, <3>5
      <3>8. <1>6!3
        BY <3>2, <3>3, <3>4, <3>5
      <3> QED BY <3>6, <3>7, <3>8
    <2> QED BY <2>1, <2>2
  <1>7. \A d \in Deliveries : attempt'[d] > 0 \/ d \in handled' => d.fanout \in 1..n
    BY <1>1, <1>3, <1>5 DEF Fates
  <1>8. \A d \in handled' : attempt'[d] = 0
    <2>1. \A d \in handled : d.fanout # n
      BY <1>1, <1>5 DEF Fates
    <2> QED BY <1>2, <1>5, <2>1 DEF Fates
  <1>9. ASSUME NEW k \in 1..Len(letters)
        PROVE  /\ letters[k].fanout \in 1..n
               /\ attempt'[letters[k]] = 0
               /\ letters[k] \notin handled'
    <2>1. /\ letters[k].fanout \in 1..Len(fanouts)
          /\ attempt[letters[k]] = 0 /\ letters[k] \notin handled
      BY DEF Fates
    <2>2. letters[k].fanout # n /\ letters[k].fanout \in 1..n
      BY <1>1, <2>1
    <2> QED BY <1>2, <1>4, <1>5, <2>1, <2>2
  <1>10. ASSUME NEW m \in 1..n, fanouts'[m].replays # NoLetter
         PROVE  /\ fanouts'[m].replays.fanout \in 1..n
                /\ attempt'[fanouts'[m].replays] = 0
                /\ fanouts'[m].replays \notin handled'
                /\ \A k \in 1..Len(letters') : letters'[k] # fanouts'[m].replays
                /\ \A l \in 1..n : fanouts'[l].replays = fanouts'[m].replays => l = m
    <2>1. CASE m = n
      <3>1. PICK k \in 1..Len(letters) : letter = letters[k]
        BY <1>1, <1>6, <1>10, <2>1
      <3>2. \A l \in 1..Len(fanouts) : fanouts[l].replays # letter
        BY <1>4, <3>1, NoLetterIsNoDelivery DEF Fates
      <3>3. fanouts'[m].replays = letter
        BY <1>1, <2>1
      <3>4. \A l \in 1..n : fanouts'[l].replays = letter => l = n
        BY <1>1, <3>2
      <3>5. \A i \in 1..Len(letters') : letters'[i] # letter
        BY <1>6
      <3> QED BY <1>9, <2>1, <3>1, <3>3, <3>4, <3>5
    <2>2. CASE m # n
      <3>1. m \in 1..Len(fanouts) /\ fanouts'[m] = fanouts[m] /\ fanouts[m].replays # NoLetter
        BY <1>1, <1>10, <2>2
      <3>2. fanouts[m].replays \in Deliveries
        <4>1. fanouts[m] \in Fanouts
          <5>1. fanouts \in Seq(Fanouts)
            BY DEF TypeOK, Fanouts
          <5> QED BY <3>1, <5>1
        <4> QED BY <3>1, <4>1 DEF Fanouts
      <3>3. fanouts[m].replays # letter
        BY <1>6, <3>1 DEF Fates
      <3>4. fanouts[m].replays.fanout \in 1..Len(fanouts)
        BY <3>1 DEF Fates
      <3>5. attempt'[fanouts[m].replays] = 0
        <4>1. attempt[fanouts[m].replays] = 0
          BY <3>1 DEF Fates
        <4>2. fanouts[m].replays.fanout # n
          BY <1>1, <3>4
        <4> QED BY <1>2, <3>2, <4>1, <4>2
      <3>6. \A k \in 1..Len(letters') : letters'[k] # fanouts[m].replays
        BY <1>6, <3>1 DEF Fates
      <3>7. \A l \in 1..n : fanouts'[l].replays = fanouts[m].replays => l = m
        BY <1>1, <3>1, <3>3 DEF Fates
      <3>8. fanouts[m].replays \notin handled
        BY <3>1 DEF Fates
      <3>9. fanouts[m].replays.fanout \in 1..n
        BY <1>1, <3>4
      <3> QED BY <1>5, <3>1, <3>5, <3>6, <3>7, <3>8, <3>9
    <2> QED BY <2>1, <2>2
  <1>11. \A k \in 1..Len(letters') : /\ letters'[k].fanout \in 1..n
                                    /\ attempt'[letters'[k]] = 0
                                    /\ letters'[k] \notin handled'
    <2> SUFFICES ASSUME NEW i \in 1..Len(letters')
                 PROVE  /\ letters'[i].fanout \in 1..n
                        /\ attempt'[letters'[i]] = 0
                        /\ letters'[i] \notin handled'
      OBVIOUS
    <2>1. PICK j \in 1..Len(letters) : letters'[i] = letters[j]
      BY <1>6
    <2> QED BY <1>9, <2>1
  <1> QED BY <1>1, <1>6, <1>7, <1>8, <1>10, <1>11 DEF Fates

\* A letter joins the queue when its delivery is over; others may be dropped.
LEMMA DieFates ==
    ASSUME TypeOK, Fates, NEW d \in Deliveries, Die(d)
    PROVE  Fates'
  <1> DEFINE longer == Append(letters, d)
             from(i) == Len(longer) - Len(letters') + i
  <1>1. /\ attempt[d] > 0 /\ attempt' = [attempt EXCEPT ![d] = 0]
        /\ UNCHANGED <<handled, fanouts>>
    BY DEF Die, TypeOK
  <1>2. /\ letters \in Seq(Deliveries) /\ longer \in Seq(Deliveries)
        /\ Len(letters) \in Nat /\ Len(longer) = Len(letters) + 1
        /\ longer[Len(longer)] = d /\ \A i \in 1..Len(letters) : longer[i] = letters[i]
    BY DEF TypeOK
  <1>3. letters' = Youngest(longer, Capacity) /\ Capacity \in Nat
    BY DEF Die
  <1> HIDE DEF longer
  <1>4. /\ Len(letters') \in Nat /\ Len(letters') <= Len(longer)
        /\ \A i \in 1..Len(letters') : letters'[i] = longer[from(i)]
    <2>1. longer \in Seq(Deliveries) /\ Len(longer) \in Nat
      BY <1>2
    <2>2. Len(letters') = IF Len(longer) > Capacity THEN Capacity ELSE Len(longer)
      BY <1>3, <2>1, YoungestFacts
    <2>3. \A i \in 1..Len(letters') : letters'[i] = longer[Len(longer) - Len(letters') + i]
      BY <1>3, <2>1, YoungestFacts
    <2>4. Len(letters') \in Nat /\ Len(letters') <= Len(longer)
      BY <1>3, <2>1, <2>2
    <2> QED BY <2>3, <2>4
  <1>5. /\ \A i \in 1..Len(letters') : from(i) \in 1..Len(longer)
        /\ \A i, j \in 1..Len(letters') : from(i) = from(j) => i = j
    BY <1>2, <1>4
  <1> HIDE DEF from
  <1>6. \A i \in 1..Len(letters) : letters[i] \in Deliveries /\ letters[i] # d
    BY <1>1, <1>2 DEF Fates
  <1>7. \A i \in 1..Len(longer) : longer[i] = d \/ \E j \in 1..Len(letters) : longer[i] = letters[j]
    BY <1>2
  <1>8. \A i, j \in 1..Len(longer) : longer[i] = longer[j] => i = j
    BY <1>2, <1>6 DEF Fates
  <1>9. /\ \A e \in Deliveries : attempt'[e] = IF e = d THEN 0 ELSE attempt[e]
        /\ d.fanout \in 1..Len(fanouts) /\ d \notin handled
        /\ handled \subseteq Deliveries
    BY <1>1 DEF Fates, TypeOK
  <1>10. \A k \in 1..Len(letters') : /\ letters'[k].fanout \in 1..Len(fanouts)
                                    /\ attempt'[letters'[k]] = 0
                                    /\ letters'[k] \notin handled
    <2>1. \A k \in 1..Len(letters') :
            letters'[k] = d \/ \E j \in 1..Len(letters) : letters'[k] = letters[j]
      BY <1>4, <1>5, <1>7
    <2>2. \A j \in 1..Len(letters) : /\ letters[j].fanout \in 1..Len(fanouts)
                                   /\ attempt'[letters[j]] = 0
                                   /\ letters[j] \notin handled
      <3>1. \A j \in 1..Len(letters) : /\ letters[j].fanout \in 1..Len(fanouts)
                                     /\ attempt[letters[j]] = 0
                                     /\ letters[j] \notin handled
        BY DEF Fates
      <3> QED BY <1>6, <1>9, <3>1
    <2>3. attempt'[d] = 0
      BY <1>9
    <2> QED BY <1>9, <2>1, <2>2, <2>3
  <1>11. ASSUME NEW n \in 1..Len(fanouts), fanouts[n].replays # NoLetter
         PROVE  /\ attempt'[fanouts[n].replays] = 0
                /\ \A k \in 1..Len(letters') : letters'[k] # fanouts[n].replays
    <2>1. fanouts[n].replays \in Deliveries /\ attempt[fanouts[n].replays] = 0
      <3>1. fanouts \in Seq(Fanouts)
        BY DEF TypeOK, Fanouts
      <3>2. fanouts[n] \in Fanouts
        BY <3>1
      <3> QED BY <1>11, <3>2 DEF Fanouts, Fates
    <2>2. fanouts[n].replays # d
      BY <1>1, <2>1
    <2>3. \A k \in 1..Len(letters) : letters[k] # fanouts[n].replays
      BY <1>11 DEF Fates
    <2>4. \A i \in 1..Len(longer) : longer[i] # fanouts[n].replays
      BY <1>7, <2>2, <2>3
    <2>5. \A k \in 1..Len(letters') : letters'[k] # fanouts[n].replays
      BY <1>4, <1>5, <2>4
    <2>6. attempt'[fanouts[n].replays] = 0
      BY <1>9, <2>1, <2>2
    <2> QED BY <2>5, <2>6
  <1>12. \A i, j \in 1..Len(letters') : letters'[i] = letters'[j] => i = j
    BY <1>4, <1>5, <1>8
  <1>13. \A e \in Deliveries : attempt'[e] > 0 \/ e \in handled => e.fanout \in 1..Len(fanouts)
    BY <1>9 DEF Fates
  <1>14. \A e \in handled : attempt'[e] = 0
    BY <1>9 DEF Fates
  <1> QED BY <1>1, <1>10, <1>11, <1>12, <1>13, <1>14 DEF Fates

LEMMA StepFates == TypeOK /\ Fates /\ [Next]_vars => Fates'
  <1> SUFFICES ASSUME TypeOK, Fates, [Next]_vars PROVE Fates'
    OBVIOUS
  <1>1. ASSUME UNCHANGED <<fanouts, attempt, letters, handled>> PROVE Fates'
    BY <1>1 DEF Fates
  <1>2. ASSUME NEW e \in Events, Publish(e) PROVE Fates'
    BY <1>2, PublishFacts, FanOutFates
  <1>3. ASSUME NEW id \in EventIds, Replay(id) PROVE Fates'
    BY <1>3, ReplayFacts, FanOutFates
  <1>4. ASSUME NEW d \in Deliveries, Handle(d) \/ Retry(d) PROVE Fates'
    <2>1. /\ attempt[d] > 0 /\ UNCHANGED <<fanouts, letters>>
          /\ \A e \in Deliveries : e # d => attempt'[e] = attempt[e]
          /\ \/ attempt'[d] = 0 /\ handled' = handled \cup {d}
             \/ attempt'[d] > 0 /\ handled' = handled
      BY <1>4 DEF Handle, Retry, TypeOK
    <2>2. d \notin handled /\ d.fanout \in 1..Len(fanouts)
      BY <2>1 DEF Fates
    <2>3. \A k \in 1..Len(letters) : letters[k] \in Deliveries /\ letters[k] # d
      BY <2>1 DEF Fates, TypeOK
    <2>4. \A n \in 1..Len(fanouts) :
            fanouts[n].replays # NoLetter => fanouts[n].replays \in Deliveries /\ fanouts[n].replays # d
      <3>1. fanouts \in Seq(Fanouts)
        BY DEF TypeOK, Fanouts
      <3>2. \A n \in 1..Len(fanouts) : fanouts[n] \in Fanouts
        BY <3>1
      <3> QED BY <2>1, <3>2 DEF Fanouts, Fates
    <2>5. handled \subseteq Deliveries
      BY DEF TypeOK
    <2>6. \A e \in Deliveries : attempt'[e] > 0 \/ e \in handled' => e.fanout \in 1..Len(fanouts)
      BY <2>1, <2>2 DEF Fates
    <2>7. \A e \in handled' : attempt'[e] = 0
      BY <2>1, <2>2, <2>5 DEF Fates
    <2>8. \A e \in Deliveries : e # d => attempt'[e] = attempt[e] /\ (e \in handled' <=> e \in handled)
      BY <2>1
    <2>9. \A k \in 1..Len(letters) : attempt'[letters[k]] = 0 /\ letters[k] \notin handled'
      BY <2>3, <2>8 DEF Fates
    <2>10. \A n \in 1..Len(fanouts) : fanouts[n].replays # NoLetter =>
             attempt'[fanouts[n].replays] = 0 /\ fanouts[n].replays \notin handled'
      BY <2>4, <2>8 DEF Fates
    <2> QED BY <2>1, <2>6, <2>7, <2>9, <2>10 DEF Fates
  <1>5. ASSUME NEW d \in Deliveries, Die(d) PROVE Fates'
    BY <1>5, DieFates
  <1> QED BY <1>1, <1>2, <1>3, <1>4, <1>5 DEF Next, Deliver, Subscribe, vars

\* What counts one at most.
LEMMA AtMostOneOf ==
    ASSUME NEW s, \A x, y \in s : x = y
    PROVE  Cardinality(s) \in {0, 1} /\ (s = {} => Cardinality(s) = 0)
  <1>1. CASE s = {}
    BY <1>1, FS_EmptySet
  <1>2. ASSUME NEW x \in s PROVE Cardinality(s) = 1
    <2>1. s = {x}
      BY <1>2
    <2> QED BY <2>1, FS_Singleton
  <1> QED BY <1>1, <1>2

(* Under way, handled, in the queue or replayed: never two of them.        *)
THEOREM FateSafe == Spec => []OneFate
  <1>1. Init => Fates
    BY DEF Init, Fates
  <1>2. TypeOK /\ Fates => OneFate
    <2> SUFFICES ASSUME TypeOK, Fates, NEW d \in Deliveries
                 PROVE  Cardinality({k \in DOMAIN letters : letters[k] = d})
                          + Cardinality({k \in DOMAIN fanouts : fanouts[k].replays = d})
                          + Cardinality(IF attempt[d] > 0 THEN {d} ELSE {})
                          + Cardinality(handled \cap {d}) <= 1
      BY DEF OneFate
    <2> DEFINE letter == {k \in DOMAIN letters : letters[k] = d}
               replay == {k \in DOMAIN fanouts : fanouts[k].replays = d}
               active == IF attempt[d] > 0 THEN {d} ELSE {}
               done == handled \cap {d}
    <2>1. DOMAIN letters = 1..Len(letters) /\ DOMAIN fanouts = 1..Len(fanouts)
      BY DEF TypeOK
    <2>2. /\ \A x, y \in letter : x = y
          /\ \A x, y \in replay : x = y
          /\ \A x, y \in active : x = y
          /\ \A x, y \in done : x = y
      BY <2>1, NoLetterIsNoDelivery DEF Fates
    <2>3. /\ letter # {} => replay = {} /\ active = {} /\ done = {}
          /\ replay # {} => active = {} /\ done = {}
          /\ active # {} => done = {}
      <3>1. letter # {} => attempt[d] = 0 /\ d \notin handled /\ replay = {}
        <4> SUFFICES ASSUME NEW k \in letter
                     PROVE  attempt[d] = 0 /\ d \notin handled /\ replay = {}
          OBVIOUS
        <4>1. k \in 1..Len(letters) /\ letters[k] = d
          BY <2>1
        <4>2. attempt[d] = 0 /\ d \notin handled
          BY <4>1 DEF Fates
        <4>3. ASSUME NEW n \in replay PROVE FALSE
          <5>1. n \in 1..Len(fanouts) /\ fanouts[n].replays = d /\ d # NoLetter
            BY <2>1, NoLetterIsNoDelivery
          <5> QED BY <4>1, <5>1 DEF Fates
        <4> QED BY <4>2, <4>3
      <3>2. replay # {} => attempt[d] = 0 /\ d \notin handled
        BY <2>1, NoLetterIsNoDelivery DEF Fates
      <3>3. attempt[d] > 0 => d \notin handled
        BY DEF Fates
      <3> QED BY <3>1, <3>2, <3>3
    <2> HIDE DEF letter, replay, active, done
    <2>4. Cardinality(letter) + Cardinality(replay) + Cardinality(active) + Cardinality(done) <= 1
      BY <2>2, <2>3, AtMostOneOf
    <2> QED BY <2>4 DEF letter, replay, active, done
  <1>3. TypeOK /\ Fates /\ [Next]_vars => Fates'
    BY StepFates
  <1> QED BY <1>1, <1>2, <1>3, BusTyped, PTL DEF Spec

-----------------------------------------------------------------------------
(* Why letters leave.                                                      *)

\* What is delivered, or failed, is addressed to a handler that still subscribes.
Addressed ==
    /\ \A d \in Deliveries :
         attempt[d] > 0 => d.handler \in subscribers[fanouts[d.fanout].id.event]
    /\ \A k \in 1..Len(letters) :
         letters[k].handler \in subscribers[fanouts[letters[k].fanout].id.event]

\* A fan-out addresses its deliveries to subscribers; no letter joins the queue.
LEMMA FanOutAddressed ==
    ASSUME TypeOK, Fates, Addressed, NEW id, NEW letter, FanOut(id, letter), UNCHANGED subscribers,
           \A i \in 1..Len(letters') : \E k \in 1..Len(letters) : letters'[i] = letters[k]
    PROVE  Addressed'
  <1>1. /\ Len(fanouts) \in Nat /\ fanouts'[Len(fanouts) + 1].id = id
        /\ \A j \in 1..Len(fanouts) : fanouts'[j] = fanouts[j]
    BY DEF FanOut, TypeOK
  <1>2. ASSUME NEW d \in Deliveries, attempt'[d] > 0
        PROVE  d.handler \in subscribers[fanouts'[d.fanout].id.event]
    <2>1. CASE d.fanout = Len(fanouts) + 1 /\ d.handler \in subscribers[id.event]
      BY <1>1, <2>1
    <2>2. CASE attempt[d] > 0
      BY <1>1, <2>2 DEF Fates, Addressed
    <2> QED BY <1>2, <2>1, <2>2 DEF FanOut
  <1>3. \A k \in 1..Len(letters) :
          letters[k].handler \in subscribers[fanouts'[letters[k].fanout].id.event]
    BY <1>1 DEF Fates, Addressed
  <1> QED BY <1>2, <1>3 DEF Addressed

\* What is left of the queue when a letter is replayed, or joins it.
LEMMA LettersAfterReplay ==
    ASSUME TypeOK, NEW k \in 1..Len(letters), letters' = RemoveAt(letters, k)
    PROVE  /\ \A i \in 1..Len(letters') : \E j \in 1..Len(letters) : letters'[i] = letters[j]
           /\ \A d \in ToSet(letters) \ ToSet(letters') : d = letters[k]
  <1>1. letters \in Seq(Deliveries)
    BY DEF TypeOK
  <1>2. /\ letters' \in Seq(Deliveries)
        /\ Len(letters) \in Nat /\ Len(letters') = Len(letters) - 1
        /\ \A i \in 1..Len(letters') : letters'[i] = letters[IF i < k THEN i ELSE i + 1]
    BY <1>1, RemoveAtFacts
  <1>3. \A i \in 1..Len(letters') : \E j \in 1..Len(letters) : letters'[i] = letters[j]
    BY <1>2
  <1>4. ASSUME NEW j \in 1..Len(letters), j # k
        PROVE  \E i \in 1..Len(letters') : letters'[i] = letters[j]
    <2>1. CASE j < k
      BY <1>2, <2>1
    <2>2. CASE j > k
      <3>1. j - 1 \in 1..Len(letters') /\ ~(j - 1 < k) /\ (j - 1) + 1 = j
        BY <1>2, <2>2
      <3> QED BY <1>2, <3>1
    <2> QED BY <1>4, <2>1, <2>2
  <1>5. /\ ToSet(letters) = {letters[i] : i \in 1..Len(letters)}
        /\ ToSet(letters') = {letters'[i] : i \in 1..Len(letters')}
    <2>1. letters' \in Seq(Deliveries)
      BY <1>2
    <2> QED BY ONLY <1>1, <2>1 DEF ToSet
  <1>6. ASSUME NEW d \in ToSet(letters) \ ToSet(letters') PROVE d = letters[k]
    <2>1. PICK j \in 1..Len(letters) : d = letters[j]
      BY <1>5, <1>6
    <2> QED BY <1>4, <1>5, <1>6, <2>1
  <1> QED BY <1>3, <1>6

LEMMA LettersAfterDeath ==
    ASSUME TypeOK, NEW d \in Deliveries, Die(d)
    PROVE  /\ \A i \in 1..Len(letters') :
                letters'[i] = d \/ \E j \in 1..Len(letters) : letters'[i] = letters[j]
           /\ \A e \in ToSet(letters) \ ToSet(letters') :
                e = Head(letters) /\ Len(letters) = Capacity /\ Len(letters') = Capacity
  <1> DEFINE longer == Append(letters, d)
  <1>1. /\ letters \in Seq(Deliveries) /\ longer \in Seq(Deliveries)
        /\ Len(letters) \in Nat /\ Len(longer) = Len(letters) + 1
        /\ longer[Len(longer)] = d /\ \A i \in 1..Len(letters) : longer[i] = letters[i]
        /\ Len(letters) <= Capacity
    BY DEF TypeOK
  <1>2. letters' = Youngest(longer, Capacity) /\ Capacity \in Nat \ {0}
    BY DEF Die
  <1> HIDE DEF longer
  <1>3. /\ letters' \in Seq(Deliveries)
        /\ Len(letters') = IF Len(longer) > Capacity THEN Capacity ELSE Len(longer)
    <2>1. longer \in Seq(Deliveries) /\ Capacity \in Nat
      BY <1>1, <1>2
    <2> QED BY <1>2, <2>1, YoungestFacts
  <1>4. \A i \in 1..Len(letters') : letters'[i] = longer[Len(longer) - Len(letters') + i]
    <2>1. longer \in Seq(Deliveries) /\ Capacity \in Nat
      BY <1>1, <1>2
    <2> QED BY <1>2, <2>1, YoungestFacts
  <1>5. /\ ToSet(letters) = {letters[i] : i \in 1..Len(letters)}
        /\ ToSet(letters') = {letters'[i] : i \in 1..Len(letters')}
    BY <1>1, <1>3 DEF ToSet
  <1>6. CASE Len(letters) < Capacity
    <2>1. Len(letters') = Len(longer)
      BY <1>1, <1>2, <1>3, <1>6
    <2>2. \A i \in 1..Len(letters') : letters'[i] = longer[i]
      BY <1>1, <1>4, <2>1
    <2>3. \A j \in 1..Len(letters) : letters[j] \in ToSet(letters')
      BY <1>1, <1>5, <2>1, <2>2
    <2>4. \A i \in 1..Len(letters') :
            letters'[i] = d \/ \E j \in 1..Len(letters) : letters'[i] = letters[j]
      BY <1>1, <2>1, <2>2
    <2> QED BY <1>5, <2>3, <2>4
  <1>7. CASE Len(letters) = Capacity
    <2>1. Len(letters') = Capacity /\ Len(longer) - Len(letters') = 1
      BY <1>1, <1>2, <1>3, <1>7
    <2>2. \A i \in 1..Len(letters') : letters'[i] = longer[i + 1]
      <3>1. ASSUME NEW i \in 1..Len(letters') PROVE Len(longer) - Len(letters') + i = i + 1
        BY <2>1
      <3> QED BY <1>4, <3>1
    <2>3. ASSUME NEW j \in 1..Len(letters), j # 1 PROVE letters[j] \in ToSet(letters')
      <3>1. j - 1 \in 1..Len(letters') /\ (j - 1) + 1 = j
        BY <1>1, <1>7, <2>1, <2>3
      <3>2. letters'[j - 1] = letters[j]
        BY <1>1, <2>2, <3>1
      <3> QED BY <1>5, <3>1, <3>2
    <2>4. ASSUME NEW i \in 1..Len(letters')
          PROVE  letters'[i] = d \/ \E j \in 1..Len(letters) : letters'[i] = letters[j]
      <3>1. i + 1 \in 1..Len(longer)
        BY <1>1, <1>7, <2>1
      <3> QED BY <1>1, <2>2, <3>1
    <2>5. Head(letters) = letters[1]
      BY <1>1, <1>2, <1>7
    <2> QED BY <1>5, <1>7, <2>1, <2>3, <2>4, <2>5
  <1> QED BY <1>1, <1>2, <1>6, <1>7

LEMMA StepAddressed == TypeOK /\ Fates /\ Addressed /\ [Next]_vars => Addressed'
  <1> SUFFICES ASSUME TypeOK, Fates, Addressed, [Next]_vars PROVE Addressed'
    OBVIOUS
  <1>1. CASE UNCHANGED vars
    BY <1>1 DEF vars, Addressed
  <1>2. ASSUME NEW h \in Handlers, NEW e \in Events, Subscribe(h, e) PROVE Addressed'
    <2>1. \A f : subscribers[f] \subseteq subscribers'[f]
      BY <1>2 DEF Subscribe, TypeOK
    <2> QED BY <1>2, <2>1 DEF Subscribe, Addressed
  <1>3. ASSUME NEW e \in Events, Publish(e) PROVE Addressed'
    BY <1>3, PublishFacts, FanOutAddressed
  <1>4. ASSUME NEW id \in EventIds, Replay(id) PROVE Addressed'
    BY <1>4, ReplayFacts, LettersAfterReplay, FanOutAddressed
  <1>5. ASSUME NEW d \in Deliveries, Handle(d) \/ Retry(d) PROVE Addressed'
    <2>1. /\ UNCHANGED <<subscribers, fanouts, letters>>
          /\ \A e \in Deliveries : attempt'[e] > 0 => attempt[e] > 0
      <3>1. attempt[d] > 0 /\ \A e \in Deliveries : e # d => attempt'[e] = attempt[e]
        BY <1>5 DEF Handle, Retry, TypeOK
      <3> QED BY <1>5, <3>1 DEF Handle, Retry
    <2> QED BY <2>1 DEF Addressed
  <1>6. ASSUME NEW d \in Deliveries, Die(d) PROVE Addressed'
    <2>1. /\ attempt[d] > 0 /\ UNCHANGED <<subscribers, fanouts>>
          /\ \A e \in Deliveries : attempt'[e] > 0 => attempt[e] > 0
      BY <1>6 DEF Die, TypeOK
    <2>2. d.handler \in subscribers[fanouts[d.fanout].id.event]
      BY <2>1 DEF Addressed
    <2> QED BY <1>6, <2>1, <2>2, LettersAfterDeath DEF Addressed
  <1> QED BY <1>1, <1>2, <1>3, <1>4, <1>5, <1>6 DEF Next, Deliver

(* A letter leaves as the oldest of a full queue, or into a new delivery   *)
(* to the handler it failed.                                               *)
THEOREM LettersSafe == Spec => LettersLeaveForCause
  <1> DEFINE Caused ==
        \A d \in ToSet(letters) \ ToSet(letters') :
          \/ d = Head(letters) /\ Len(letters) = Capacity /\ Len(letters') = Capacity
          \/ /\ Len(fanouts') = Len(fanouts) + 1
             /\ Last(fanouts').id.event = fanouts[d.fanout].id.event
             /\ attempt'[[d EXCEPT !.fanout = Len(fanouts')]] = 1
  <1>1. Init => TypeOK /\ Fates /\ Addressed
    BY DEF Init, TypeOK, Fates, Addressed
  <1>2. TypeOK /\ Fates /\ Addressed /\ [Next]_vars => (TypeOK /\ Fates /\ Addressed)'
    BY StepTyped, StepFates, StepAddressed
  <1>3. TypeOK /\ Addressed /\ [Next]_vars => [Caused]_vars
    <2> SUFFICES ASSUME TypeOK, Addressed, Next PROVE Caused
      OBVIOUS
    <2>1. ASSUME UNCHANGED letters PROVE Caused
      BY <2>1
    <2>2. ASSUME NEW d \in Deliveries, Die(d) PROVE Caused
      BY <2>2, LettersAfterDeath
    <2>3. ASSUME NEW id \in EventIds, Replay(id) PROVE Caused
      <3>1. PICK k \in DOMAIN letters :
               /\ fanouts[letters[k].fanout].id = id
               /\ letters' = RemoveAt(letters, k)
               /\ FanOut([event |-> id.event, copy |-> Len(fanouts) + 1], letters[k])
               /\ UNCHANGED <<subscribers, handled>>
        BY <2>3 DEF Replay
      <3>2. k \in 1..Len(letters) /\ letters[k] \in Deliveries
        BY DEF TypeOK
      <3> DEFINE d == letters[k]
                 n == Len(fanouts) + 1
      <3>3. /\ n <= MaxFanouts /\ Len(fanouts) \in Nat /\ Len(fanouts') = n
            /\ Last(fanouts').id.event = id.event
        BY <3>1 DEF FanOut, TypeOK, Last
      <3>4. [d EXCEPT !.fanout = n] \in Deliveries
        BY <3>2, <3>3 DEF Deliveries
      <3>5. d.handler \in subscribers[id.event]
        BY <3>1, <3>2 DEF Addressed
      <3>6. attempt'[[d EXCEPT !.fanout = n]] = 1
        <4>1. [d EXCEPT !.fanout = n].fanout = n /\ [d EXCEPT !.fanout = n].handler = d.handler
          BY <3>2 DEF Deliveries
        <4> QED BY <3>1, <3>4, <3>5, <4>1 DEF FanOut
      <3>7. \A e \in ToSet(letters) \ ToSet(letters') : e = d
        BY <3>1, <3>2, LettersAfterReplay
      <3> QED BY <3>1, <3>3, <3>6, <3>7
    <2> QED BY <2>1, <2>2, <2>3 DEF Next, Deliver, Subscribe, Publish, Handle, Retry
  <1> QED BY <1>1, <1>2, <1>3, PTL DEF Spec, LettersLeaveForCause
=============================================================================
