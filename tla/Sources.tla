------------------------------- MODULE Sources ------------------------------
(***************************************************************************)
(* The sources of the collectors (collectors/sources/): each asks a few    *)
(* feeds over the network, needs some of them, and keeps its answer in     *)
(* memory for a while, some also in the cache service, which survives a    *)
(* restart.  The exchange's sites answer those with cookies they honour.   *)
(***************************************************************************)
EXTENDS Integers, FiniteSets

CONSTANTS Sources,
          Feeds,       \* what a source asks; it is its answer that counts, not its content
          Required,    \* feeds without which a source has no answer
          Minimum,     \* how many feeds it needs at least
          Ttl,         \* how long it keeps an answer
          InCache,     \* sources that keep it in the cache service, too
          WithCookies, \* sources that need a session with the exchange
          Volumes,     \* sources whose answer is completed with today's volumes
          VolumeTtl,   \* how long those are kept
          MaxTime      \* bound on time

VARIABLES now,
          memory,   \* _cache of each source: when it was filled, and with what
          cached,   \* the same in the cache service, with the time it was put there
          volumes,  \* _volume_cache: when the volumes were fetched
          warmed,   \* _warmed of each session
          honoured, \* whether the exchange honours the cookies the session has
          misses,   \* calls in a row that failed although the exchange was there
          answered    \* the last answer of each source

vars == <<now, memory, cached, volumes, warmed, honoured, misses, answered>>

Never == -1

\* An answer: when its feeds answered, which did, and when its volumes were fetched.
Nothing == [at |-> Never, of |-> {}, volume |-> Never]

Answers == [at : 0..MaxTime \cup {Never}, of : SUBSET Feeds, volume : 0..MaxTime \cup {Never}]

Entries == [since : 0..MaxTime \cup {Never}, answer : Answers]

TypeOK ==
    /\ now \in 0..MaxTime
    /\ memory \in [Sources -> Entries] /\ cached \in [Sources -> Entries]
    /\ volumes \in [Sources -> 0..MaxTime \cup {Never}]
    /\ warmed \in [Sources -> BOOLEAN] /\ honoured \in [Sources -> BOOLEAN]
    /\ misses \in [Sources -> Nat]
    /\ answered \in [Sources -> Answers]

Empty == [since |-> Never, answer |-> Nothing]

Init ==
    /\ now = 0
    /\ memory = [s \in Sources |-> Empty] /\ cached = [s \in Sources |-> Empty]
    /\ volumes = [s \in Sources |-> Never]
    /\ warmed = [s \in Sources |-> FALSE] /\ honoured = [s \in Sources |-> FALSE]
    /\ misses = [s \in Sources |-> 0]
    /\ answered = [s \in Sources |-> Nothing]

-----------------------------------------------------------------------------
Fresh(entry, ttl) == entry.since # Never /\ now - entry.since < ttl

Honoured(s) == ~warmed[s] \/ honoured[s]

\* Fault: an error page is taken for a passing failure.
GetJsonStubborn(s, up, page) ==
    IF s \in WithCookies /\ up /\ ~Honoured(s) /\ page
    THEN [ok |-> FALSE, warmed |-> TRUE, honoured |-> FALSE]
    ELSE [ok |-> up, warmed |-> TRUE, honoured |-> TRUE]

\* get_json(): a session not warm is warmed up first.  A refusal is answered by
\* warming up again, an error page only by asking once more.
GetJson(s, up, page) ==
    IF s \notin WithCookies THEN [ok |-> up, warmed |-> warmed[s], honoured |-> honoured[s]]
    ELSE IF ~up THEN [ok |-> FALSE, warmed |-> warmed[s], honoured |-> honoured[s]]
    ELSE IF Honoured(s) THEN [ok |-> TRUE, warmed |-> TRUE, honoured |-> TRUE]
    ELSE IF page THEN [ok |-> FALSE, warmed |-> FALSE, honoured |-> FALSE]
    ELSE [ok |-> TRUE, warmed |-> TRUE, honoured |-> TRUE]

Usable(s, feeds) == Required[s] \subseteq feeds /\ Cardinality(feeds) >= Minimum[s]

\* _apply_relative_volume(): into the answer in memory, which is the one served; volumes that
\* cannot be had leave it as it is.
WithVolume(s, answer, at) ==
    IF s \in Volumes /\ at # Never THEN [answer EXCEPT !.volume = at] ELSE answer

VolumesAt(s, up) ==
    IF volumes[s] # Never /\ now - volumes[s] < VolumeTtl THEN volumes[s]
    ELSE IF up THEN now ELSE Never

Serve(s, since, answer, volumesUp) ==
    LET at == IF s \in Volumes THEN VolumesAt(s, volumesUp) ELSE Never
        complete == WithVolume(s, answer, at)
    IN  /\ memory' = [memory EXCEPT ![s] = [since |-> since, answer |-> complete]]
        /\ volumes' = [volumes EXCEPT ![s] = IF at = Never THEN @ ELSE at]
        /\ answered' = [answered EXCEPT ![s] = complete]

-----------------------------------------------------------------------------
ServeFromMemory(s, volumesUp) ==
    /\ Fresh(memory[s], Ttl[s])
    /\ Serve(s, memory[s].since, memory[s].answer, volumesUp)
    /\ UNCHANGED <<now, cached, warmed, honoured, misses>>

\* What comes from the cache service is kept for a whole term again.
ServeFromCache(s, volumesUp) ==
    /\ s \in InCache /\ ~Fresh(memory[s], Ttl[s]) /\ Fresh(cached[s], Ttl[s])
    /\ Serve(s, now, cached[s].answer, volumesUp)
    /\ UNCHANGED <<now, cached, warmed, honoured, misses>>

\* The feeds that answer make up the answer if they are enough; it is cached before the volumes
\* are applied to it.
Fetch(s, up, page, feeds, volumesUp) ==
    LET session == GetJson(s, up, page)
        answer == [at |-> now, of |-> feeds, volume |-> Never]
    IN  /\ ~Fresh(memory[s], Ttl[s]) /\ ~(s \in InCache /\ Fresh(cached[s], Ttl[s]))
        /\ warmed' = [warmed EXCEPT ![s] = session.warmed]
        /\ honoured' = [honoured EXCEPT ![s] = session.honoured]
        /\ misses' = [misses EXCEPT ![s] = IF session.ok THEN 0 ELSE IF up THEN @ + 1 ELSE @]
        /\ IF session.ok /\ Usable(s, feeds)
           THEN /\ Serve(s, now, answer, volumesUp)
                /\ cached' = IF s \in InCache
                             THEN [cached EXCEPT ![s] = [since |-> now, answer |-> answer]] ELSE cached
           ELSE UNCHANGED <<memory, volumes, answered, cached>>
        /\ UNCHANGED now

\* The exchange stops honouring the cookies it gave out.
Forget(s) ==
    /\ honoured[s]
    /\ honoured' = [honoured EXCEPT ![s] = FALSE]
    /\ UNCHANGED <<now, memory, cached, volumes, warmed, misses, answered>>

Restart ==
    /\ memory' = [s \in Sources |-> Empty] /\ volumes' = [s \in Sources |-> Never]
    /\ warmed' = [s \in Sources |-> FALSE] /\ misses' = [s \in Sources |-> 0]
    /\ UNCHANGED <<now, cached, honoured, answered>>

Tick == now < MaxTime /\ now' = now + 1
          /\ UNCHANGED <<memory, cached, volumes, warmed, honoured, misses, answered>>

Next ==
    \/ \E s \in Sources, volumesUp \in BOOLEAN :
          \/ ServeFromMemory(s, volumesUp) \/ ServeFromCache(s, volumesUp)
          \/ Fetch(s, FALSE, FALSE, {}, volumesUp)
          \/ \E page \in BOOLEAN, feeds \in SUBSET Feeds : Fetch(s, TRUE, page, feeds, volumesUp)
    \/ \E s \in Sources : Forget(s)
    \/ Restart \/ Tick

Spec == Init /\ [][Next]_vars

-----------------------------------------------------------------------------
(* What is served from memory is younger than its term, or twice that if   *)
(* it may have come from the cache service, and its volumes younger than   *)
(* the two terms together (broker_sectors.py:142, nse_breadth.py:140).     *)
AgeBounded ==
    \A s \in Sources : Fresh(memory[s], Ttl[s]) =>
        /\ now - memory[s].answer.at < (IF s \in InCache THEN 2 ELSE 1) * Ttl[s]
        /\ memory[s].answer.volume # Never => now - memory[s].answer.volume < Ttl[s] + VolumeTtl

(* No cache ever holds an answer the source would have refused.            *)
CachesUsable ==
    \A s \in Sources : \A entry \in {memory[s], cached[s]} :
        entry.since # Never => Usable(s, entry.answer.of)

(* Cookies the exchange no longer honours cost one call at most            *)
(* (nse_client.py:43).                                                     *)
SessionRenewed == \A s \in Sources : misses[s] <= 1
=============================================================================
