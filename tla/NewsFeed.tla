------------------------------ MODULE NewsFeed ------------------------------
(***************************************************************************)
(* The news collectors (collectors/domains/news.py): articles the source   *)
(* serves again and again are scored and stored once.  What a collector    *)
(* has seen is in memory only, and grows when the scoring is done, before  *)
(* the pipeline stores the records and whether or not it can.              *)
(***************************************************************************)
EXTENDS Naturals, Sequences, FiniteSets, SequencesExt

CONSTANTS Articles,     \* articles with at least one word that counts
          Alike,        \* pairs of articles with more than 0.7 of their words in common
          FeedLength,   \* articles the source serves at a time
          SeenMax,      \* articles remembered, 512 in the code
          MaxPublished, \* bound on the articles published, again or anew
          MaxKept       \* bound on the observations offered before the last run

VARIABLES served,      \* what the source serves, newest first
          published,   \* number of articles published so far
          seen,        \* _seen_tokens, newest last
          fetched,     \* what the run in progress has fetched
          kept,        \* and what of it is new
          pc,          \* where that run is
          stored,      \* the observations in the database, in their order
          lost,        \* and those the database could not take
          taken,       \* articles fetched by a run that has ended
          since        \* observations stored before the last restart

vars == <<served, published, seen, fetched, kept, pc, stored, lost, taken, since>>

Similar(a, b) == a = b \/ {a, b} \in Alike

TypeOK ==
    /\ served \in Seq(Articles) /\ Len(served) <= FeedLength
    /\ published \in 0..MaxPublished
    /\ seen \in Seq(Articles) /\ Len(seen) <= SeenMax
    /\ kept \in Seq(Articles)
    /\ pc \in {"idle", "scoring", "persisting"}
    /\ stored \in Seq(Articles) /\ lost \in Seq(Articles)
    /\ fetched \subseteq Articles /\ taken \subseteq Articles
    /\ since \in 0..Len(stored)

Init ==
    /\ served = <<>> /\ published = 0
    /\ seen = <<>> /\ fetched = {} /\ kept = <<>> /\ pc = "idle"
    /\ stored = <<>> /\ lost = <<>> /\ taken = {} /\ since = 0

-----------------------------------------------------------------------------
\* An article comes in at the top, again if need be, and the last one goes.
Publish(a) ==
    LET others == RemoveFirst(served, a)
    IN  /\ published < MaxPublished
        /\ published' = published + 1
        /\ served' = <<a>> \o (IF Len(others) < FeedLength THEN others ELSE Front(others))
        /\ UNCHANGED <<seen, fetched, kept, pc, stored, lost, taken, since>>

\* What is similar neither to anything seen nor to anything earlier in the same fetch.
New(known, articles) ==
    FoldLeft(LAMBDA found, a : IF \E b \in known \cup ToSet(found) : Similar(a, b) THEN found
                               ELSE Append(found, a), <<>>, articles)

\* Fault: the first to be remembered stay, later ones do not.
FirstOf(articles) == SubSeq(articles, 1, IF Len(articles) < SeenMax THEN Len(articles) ELSE SeenMax)

\* A deque of bounded length drops its oldest entries.
LastOf(articles) ==
    SubSeq(articles, IF Len(articles) > SeenMax THEN Len(articles) - SeenMax + 1 ELSE 1, Len(articles))

\* collect() up to the scoring it awaits.
Collect ==
    /\ pc = "idle" /\ served # <<>>
    /\ Len(stored) + Len(lost) < MaxKept
    /\ fetched' = ToSet(served)
    /\ kept' = New(ToSet(seen), served)
    /\ pc' = "scoring"
    /\ UNCHANGED <<served, published, seen, stored, lost, taken, since>>

Score ==
    /\ pc = "scoring"
    /\ seen' = LastOf(seen \o kept)
    /\ pc' = "persisting"
    /\ UNCHANGED <<served, published, fetched, kept, stored, lost, taken, since>>

EndRun == fetched' = {} /\ kept' = <<>> /\ pc' = "idle"

\* The provider raises: the run starts over, or fails.
ScoringFails ==
    /\ pc = "scoring" /\ EndRun
    /\ UNCHANGED <<served, published, seen, stored, lost, taken, since>>

\* The pipeline stores the records, or logs that it cannot and carries on.
Persist ==
    /\ pc = "persisting" /\ EndRun
    /\ \/ stored' = stored \o kept /\ UNCHANGED lost
       \/ lost' = lost \o kept /\ UNCHANGED stored
    /\ taken' = taken \cup fetched
    /\ UNCHANGED <<served, published, seen, since>>

Restart ==
    /\ seen # <<>> \/ pc # "idle"
    /\ EndRun
    /\ seen' = <<>> /\ since' = Len(stored)
    /\ UNCHANGED <<served, published, stored, lost, taken>>

Next ==
    \/ \E a \in Articles : Publish(a)
    \/ Collect \/ Score \/ ScoringFails \/ Persist \/ Restart

Spec == Init /\ [][Next]_vars

-----------------------------------------------------------------------------
(* Between restarts two observations are of similar articles only if the   *)
(* collector has remembered as many others as it can in between.           *)
StoredOnce ==
    \A j, k \in (since + 1)..Len(stored) :
        j < k /\ Similar(stored[j], stored[k]) => (k - j - 1) + Len(lost) >= SeenMax

(* An article that a completed run has fetched is stored, or similar to    *)
(* one that is -- unless the database refused it or one similar to it: the *)
(* collector does not offer those again.                                   *)
DroppedForCause ==
    \A a \in taken : \E b \in ToSet(stored) \cup ToSet(lost) : Similar(a, b)
=============================================================================
