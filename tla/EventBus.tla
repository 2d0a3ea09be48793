------------------------------ MODULE EventBus ------------------------------
(***************************************************************************)
(* events/bus.py: publish() fans an event out to its subscribers, unless   *)
(* its id is in the idempotency window; each delivery retries its handler  *)
(* and ends in the bounded dead-letter queue; a dead letter is replayed    *)
(* under a fresh event id, to every subscriber, on its original trace.     *)
(*                                                                         *)
(* Deliveries interleave at their awaits.  An event object may be          *)
(* published again, by a caller that retries.  The counters behind         *)
(* metrics() are left out.                                                 *)
(***************************************************************************)
EXTENDS Naturals, FiniteSets, SequencesExt

CONSTANTS
    Events,       \* event objects, each of a type and a version
    Handlers,     \* subscriptions: a handler and the type and version it wants
    MaxRetries,
    Capacity,     \* dead_letter_capacity
    Window,       \* idempotency_window
    MaxFanouts    \* bound on how many times an event is fanned out

ASSUME BusAssumption ==
    /\ {MaxRetries, Window} \subseteq Nat
    /\ {Capacity, MaxFanouts} \subseteq Nat \ {0}

VARIABLES
    subscribers,   \* per event, the handlers its type and version match
    seen,          \* _seen_event_ids, oldest first
    fanouts,       \* the events fanned out so far
    attempt,       \* per fan-out and handler, the attempt under way (0: none)
    letters,       \* dead_letters, oldest first
    handled        \* the deliveries that succeeded

vars == <<subscribers, seen, fanouts, attempt, letters, handled>>

\* An id is that of the original event (copy 0), or minted by its copy-th fan-out.
EventIds == [event : Events, copy : 0..MaxFanouts]

\* A delivery is the fan-out it belongs to and the handler; dead letters are some.
Deliveries == [fanout : 1..MaxFanouts, handler : Handlers]

\* A fan-out that replays no letter.
NoLetter == [fanout |-> 0, handler |-> "none"]

TypeOK ==
    /\ subscribers \in [Events -> SUBSET Handlers]
    /\ seen \in Seq(EventIds)
    /\ fanouts \in Seq([id : EventIds, to : SUBSET Handlers,
                        replays : Deliveries \cup {NoLetter}])
    /\ attempt \in [Deliveries -> 0..(MaxRetries + 1)]
    /\ letters \in Seq(Deliveries) /\ Len(letters) <= Capacity
    /\ handled \subseteq Deliveries

Init ==
    /\ subscribers = [e \in Events |-> {}]
    /\ seen = <<>>
    /\ fanouts = <<>>
    /\ attempt = [d \in Deliveries |-> 0]
    /\ letters = <<>>
    /\ handled = {}

-----------------------------------------------------------------------------
\* Fault: the queue is trimmed when it is full, not when it is over-full.
YoungestButOne(s, k) == IF Len(s) >= k THEN SubSeq(s, Len(s) - k + 2, Len(s)) ELSE s

\* What popleft leaves of a queue that holds k elements at most.
Youngest(s, k) == IF Len(s) > k THEN SubSeq(s, Len(s) - k + 1, Len(s)) ELSE s

IsDuplicate(id) == id \in ToSet(seen)

\* publish() of an id that is not a duplicate: gather starts every delivery.
FanOut(id, letter) ==
    LET n == Len(fanouts) + 1
    IN  /\ n <= MaxFanouts
        /\ seen' = Youngest(Append(seen, id), Window)
        /\ fanouts' = Append(fanouts, [id |-> id, to |-> subscribers[id.event],
                                       replays |-> letter])
        /\ attempt' = [d \in Deliveries |->
                         IF d.fanout = n /\ d.handler \in subscribers[id.event]
                         THEN 1 ELSE attempt[d]]

Subscribe(h, e) ==
    /\ subscribers' = [subscribers EXCEPT ![e] = @ \cup {h}]
    /\ UNCHANGED <<seen, fanouts, attempt, letters, handled>>

\* An event object is published, or published again (a duplicate changes nothing).
Publish(e) ==
    LET id == [event |-> e, copy |-> 0]
    IN  /\ ~ IsDuplicate(id)
        /\ FanOut(id, NoLetter)
        /\ UNCHANGED <<subscribers, letters, handled>>

\* Fault: the loop goes on after a success.
HandleAgain(d) ==
    /\ attempt[d] > 0
    /\ handled' = handled \cup {d}
    /\ UNCHANGED <<subscribers, seen, fanouts, attempt, letters>>

\* The handler returns.
Handle(d) ==
    /\ attempt[d] > 0
    /\ attempt' = [attempt EXCEPT ![d] = 0]
    /\ handled' = handled \cup {d}
    /\ UNCHANGED <<subscribers, seen, fanouts, letters>>

\* Fault: one attempt too many.
RetryOnceMore(d) ==
    /\ attempt[d] \in 1..(MaxRetries + 1)
    /\ attempt' = [attempt EXCEPT ![d] = @ + 1]
    /\ UNCHANGED <<subscribers, seen, fanouts, letters, handled>>

\* Fault: the attempts start over.
RetryForEver(d) ==
    /\ attempt[d] > 0
    /\ attempt' = [attempt EXCEPT ![d] = IF @ > MaxRetries THEN 1 ELSE @ + 1]
    /\ UNCHANGED <<subscribers, seen, fanouts, letters, handled>>

\* The handler raises and an attempt is left, after its backoff.
Retry(d) ==
    /\ attempt[d] \in 1..MaxRetries
    /\ attempt' = [attempt EXCEPT ![d] = @ + 1]
    /\ UNCHANGED <<subscribers, seen, fanouts, letters, handled>>

\* The handler raises on the last attempt; a full queue drops its oldest letter.
Die(d) ==
    /\ attempt[d] > MaxRetries
    /\ attempt' = [attempt EXCEPT ![d] = 0]
    /\ letters' = Youngest(Append(letters, d), Capacity)
    /\ UNCHANGED <<subscribers, seen, fanouts, handled>>

\* Fault: the original event id is reused, so the window may swallow the replay.
ReplaySameId(id) ==
    \E k \in DOMAIN letters :
        /\ fanouts[letters[k].fanout].id = id
        /\ letters' = RemoveAt(letters, k)
        /\ IF IsDuplicate(id) THEN UNCHANGED <<seen, fanouts, attempt>>
           ELSE FanOut(id, letters[k])
        /\ UNCHANGED <<subscribers, handled>>

\* replay_dead_letter(id): the oldest letter of that id is removed and its event
\* published under a fresh id, with no await in between.
Replay(id) ==
    \E k \in DOMAIN letters :
        /\ fanouts[letters[k].fanout].id = id
        /\ \A j \in 1..(k - 1) : fanouts[letters[j].fanout].id # id
        /\ letters' = RemoveAt(letters, k)
        /\ FanOut([event |-> id.event, copy |-> Len(fanouts) + 1], letters[k])
        /\ UNCHANGED <<subscribers, handled>>

Deliver(d) == Handle(d) \/ Retry(d) \/ Die(d)

Next ==
    \/ \E h \in Handlers, e \in Events : Subscribe(h, e)
    \/ \E e \in Events : Publish(e)
    \/ \E d \in Deliveries : Deliver(d)
    \/ \E id \in EventIds : Replay(id)

Spec == Init /\ [][Next]_vars

\* The event loop runs every delivery; handlers return or raise.
FairSpec == Spec /\ \A d \in Deliveries : WF_vars(Deliver(d))
-----------------------------------------------------------------------------
\* "idempotency (event-id dedup)": two fan-outs of one event id are separated by at
\* least Window fan-outs of others, replays included - never closer, however the
\* window fills and is trimmed.
DedupWithinWindow ==
    \A j, k \in DOMAIN fanouts :
        j < k /\ fanouts[j].id = fanouts[k].id => k - j > Window

\* A delivery has one fate: it is under way, handled, in the dead-letter queue or
\* replayed from it - never two of them, however retries, evictions and replays mix.
OneFate ==
    \A d \in Deliveries :
        LET letter == {k \in DOMAIN letters : letters[k] = d}
            replay == {k \in DOMAIN fanouts : fanouts[k].replays = d}
            active == IF attempt[d] > 0 THEN {d} ELSE {}
        IN  Cardinality(letter) + Cardinality(replay) + Cardinality(active)
              + Cardinality(handled \cap {d}) <= 1

\* A letter leaves the queue as the oldest of a full one, or into a fan-out that
\* starts a new delivery to the handler it failed: an operator's replay is never
\* swallowed by the idempotency window, nor aimed at others only.
LettersLeaveForCause ==
    [][\A d \in ToSet(letters) \ ToSet(letters') :
          \/ d = Head(letters) /\ Len(letters) = Capacity /\ Len(letters') = Capacity
          \/ /\ Len(fanouts') = Len(fanouts) + 1
             /\ Last(fanouts').id.event = fanouts[d.fanout].id.event
             /\ attempt'[[d EXCEPT !.fanout = Len(fanouts')]] = 1]_vars

\* publish() returns: the gather of a fan-out's deliveries ends, each handled or dead.
PublishersReturn ==
    \A n \in 1..MaxFanouts :
        (\E h \in Handlers : attempt[[fanout |-> n, handler |-> h]] > 0)
          ~> (\A h \in Handlers : attempt[[fanout |-> n, handler |-> h]] = 0)
=============================================================================
