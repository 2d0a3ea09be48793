------------------------------ MODULE Signals ------------------------------
(***************************************************************************)
(* From candidates to signals: SignalPriorityEngine.rank() in              *)
(* prediction/priority.py keeps the qualified candidates of a fresh scan,  *)
(* sorts them and stores the first; DuplicateSignalEngine.filter_signals() *)
(* in prediction/duplicate.py then keeps those that repeat nothing.  GET   *)
(* /priority ranks, GET /signals ranks and filters, and requests overlap.  *)
(* A step is the code between two awaits.                                  *)
(*                                                                         *)
(* What a scan finds, which candidates qualify and how they score is the   *)
(* market's choice.                                                        *)
(***************************************************************************)
EXTENDS Naturals, Sequences, FiniteSets, Functions

CONSTANTS
    Requests,
    Symbols,
    Signal,          \* pairs of a symbol and a direction the scans propose
    Breakouts,       \* symbols whose candidates are breakouts, by their reason
    Correlated,      \* sets {s, t} of symbols with |r| at the threshold or above
    Sector,          \* feature_stock_sectors: a sector for some symbols
    MaxPerSector,    \* MAX_SIGNALS_PER_SECTOR
    TopN,
    Cooldown,        \* REPEAT_COOLDOWN_MINUTES
    HistoryLimit,    \* REPEAT_HISTORY_LIMIT
    MaxTime          \* bound on time, and with it on scans

Directions == {"long", "short", "neutral"}

VARIABLES
    now,       \* minutes; no two scans bear the same as_of
    ranked,    \* signal_priority.result rows, oldest first
    call,      \* per request, where it is suspended
    delivered  \* history: the signals kept by requests that ended

vars == <<now, ranked, call, delivered>>

\* A ranked batch: at most TopN signals, no two of one instrument.
Batches ==
    {b \in UNION {[1..n -> Signal] : n \in 0..TopN} :
        \A i, j \in DOMAIN b : i # j => b[i].symbol # b[j].symbol}

\* overlap, a history variable, is the as_of of the requests this one overlapped.
Idle == [pc |-> "idle", filters |-> FALSE, at |-> 0, batch |-> <<>>, kept |-> <<>>,
         suppressed |-> {}, overlap |-> {}]

TypeOK ==
    /\ now \in 0..MaxTime
    /\ ranked \in Seq([symbol : Symbols, direction : Directions, at : 1..MaxTime])
    /\ \A r \in Requests :
         /\ call[r].pc \in {"idle", "ranking", "filtering", "answering"}
         /\ call[r].at \in 0..now
         /\ call[r].batch \in Seq(Signal) /\ call[r].kept \in Seq(Signal)
         /\ Len(call[r].batch) <= TopN
    /\ delivered \subseteq [symbol : Symbols, direction : Directions, at : 1..MaxTime,
                            overlap : SUBSET (1..MaxTime)]

Init ==
    /\ now = 0
    /\ ranked = <<>>
    /\ call = [r \in Requests |-> Idle]
    /\ delivered = {}

-----------------------------------------------------------------------------
InProgress == {r \in Requests : call[r].pc # "idle"}

\* generate(): the candidates of a fresh scan, all as of now.
Scan(r, filters) ==
    /\ call[r].pc = "idle"
    /\ now < MaxTime
    /\ now' = now + 1
    /\ call' = [q \in Requests |->
                  IF q = r THEN [Idle EXCEPT !.pc = "ranking", !.filters = filters, !.at = now',
                                             !.overlap = {call[p].at : p \in InProgress}]
                  ELSE IF q \in InProgress THEN [call[q] EXCEPT !.overlap = @ \cup {now'}]
                  ELSE call[q]]
    /\ UNCHANGED <<ranked, delivered>>

Row(signal, at) == [symbol |-> signal.symbol, direction |-> signal.direction, at |-> at]

\* rank(): the qualified candidates, scored, the best TopN stored in one commit, and
\* then filtered if the request asks for it.
Rank(r) ==
    /\ call[r].pc = "ranking"
    /\ \E batch \in Batches :
         /\ ranked' = ranked \o [i \in DOMAIN batch |-> Row(batch[i], call[r].at)]
         /\ call' = [call EXCEPT ![r] =
                       IF call[r].filters THEN [@ EXCEPT !.pc = "filtering", !.batch = batch]
                       ELSE Idle]
    /\ UNCHANGED <<now, delivered>>

-----------------------------------------------------------------------------
\* The rows of the same symbol stored after it.
Newer(i) == {j \in DOMAIN ranked : j > i /\ ranked[j].symbol = ranked[i].symbol}

\* recent(symbol): the newest rows of the symbol, whatever their direction.
Recent(symbol) ==
    {ranked[i] : i \in {j \in DOMAIN ranked : /\ ranked[j].symbol = symbol
                                            /\ Cardinality(Newer(j)) < HistoryLimit}}

\* Fault: only the newest row is looked at, which is the request's own.
RepeatedNewest(signal, at) ==
    \E row \in Recent(signal.symbol) :
        /\ \A other \in Recent(signal.symbol) : other.at <= row.at
        /\ row.direction = signal.direction
        /\ row.at < at
        /\ at <= row.at + Cooldown

\* _is_repeated_opportunity(): ranked before, by this or another request, in the
\* cooldown before the scan of this one.
Repeated(signal, at) ==
    \E row \in Recent(signal.symbol) :
        /\ row.direction = signal.direction
        /\ row.at < at
        /\ at <= row.at + Cooldown

CorrelatedWithAny(signal, kept) == \E k \in Range(kept) : {k.symbol, signal.symbol} \in Correlated

IsBreakout(signal) == signal.symbol \in Breakouts

\* Fault: what is suppressed counts as well.
BreakoutSeen(c, signal) ==
    IsBreakout(signal) /\ \E s \in Range(c.kept) \cup c.suppressed : IsBreakout(s)

BreakoutKept(c, signal) == IsBreakout(signal) /\ \E k \in Range(c.kept) : IsBreakout(k)

\* Fault: one too many.
SectorOverfull(c, signal) ==
    /\ signal.symbol \in DOMAIN Sector
    /\ Cardinality({k \in Range(c.kept) : k.symbol \in DOMAIN Sector
                        /\ Sector[k.symbol] = Sector[signal.symbol]}) > MaxPerSector

\* A symbol without a sector is never suppressed for it.
SectorFull(c, signal) ==
    /\ signal.symbol \in DOMAIN Sector
    /\ Cardinality({k \in Range(c.kept) : k.symbol \in DOMAIN Sector
                        /\ Sector[k.symbol] = Sector[signal.symbol]}) >= MaxPerSector

\* One round of filter_signals(): the next signal is kept if nothing speaks against it.
Filter(r) ==
    /\ call[r].pc = "filtering"
    /\ LET c == call[r]
           signal == Head(c.batch)
       IN  call' = [call EXCEPT ![r] =
             IF c.batch = <<>> THEN [c EXCEPT !.pc = "answering"]
             ELSE IF \/ Repeated(signal, c.at)
                     \/ CorrelatedWithAny(signal, c.kept)
                     \/ BreakoutKept(c, signal)
                     \/ SectorFull(c, signal)
                  THEN [c EXCEPT !.batch = Tail(@), !.suppressed = @ \cup {signal}]
                  ELSE [c EXCEPT !.batch = Tail(@), !.kept = Append(@, signal)]]
    /\ UNCHANGED <<now, ranked, delivered>>

\* The result is stored and returned.
Answer(r) ==
    /\ call[r].pc = "answering"
    /\ delivered' = delivered \cup {[symbol |-> k.symbol, direction |-> k.direction,
                                     at |-> call[r].at, overlap |-> call[r].overlap] :
                                    k \in Range(call[r].kept)}
    /\ call' = [call EXCEPT ![r] = Idle]
    /\ UNCHANGED <<now, ranked>>

\* A read or a commit fails, and with it the request; rows already stored stay.
Fails(r) ==
    /\ call[r].pc # "idle"
    /\ call' = [call EXCEPT ![r] = Idle]
    /\ UNCHANGED <<now, ranked, delivered>>

Next ==
    \E r \in Requests :
        \/ \E filters \in BOOLEAN : Scan(r, filters)
        \/ Rank(r)
        \/ Filter(r)
        \/ Answer(r)
        \/ Fails(r)

Spec == Init /\ [][Next]_vars

-----------------------------------------------------------------------------
Pairwise(Related(_, _), kept) ==
    \A i, j \in DOMAIN kept : i < j => ~ Related(kept[i], kept[j])

SameSector(s, t) ==
    /\ {s.symbol, t.symbol} \subseteq DOMAIN Sector
    /\ Sector[s.symbol] = Sector[t.symbol]

(* "kept preserves signal diversity": at every point of the pass at most   *)
(* one signal of a known sector is kept, one breakout, and no two          *)
(* correlated symbols (duplicate.py), in whatever order they were ranked.  *)
BatchDiverse ==
    \A r \in Requests :
        /\ MaxPerSector = 1 => Pairwise(SameSector, call[r].kept)
        /\ Pairwise(LAMBDA s, t : IsBreakout(s) /\ IsBreakout(t), call[r].kept)
        /\ Pairwise(LAMBDA s, t : {s.symbol, t.symbol} \in Correlated, call[r].kept)

(* "Between two redundant signals, the higher-priority one always          *)
(* survives": what is suppressed repeats a signal that is kept, or one     *)
(* ranked earlier.  A suppressed signal suppresses no other.               *)
SuppressedForCause ==
    \A r \in Requests : \A s \in call[r].suppressed :
        \/ \E k \in Range(call[r].kept) :
              \/ SameSector(s, k)
              \/ IsBreakout(s) /\ IsBreakout(k)
              \/ {s.symbol, k.symbol} \in Correlated
        \/ \E i \in DOMAIN ranked :
              /\ ranked[i].symbol = s.symbol /\ ranked[i].direction = s.direction
              /\ ranked[i].at < call[r].at /\ call[r].at - ranked[i].at <= Cooldown

(* What a batch keeps and what it drops, one for the sake of the other.    *)
BatchSound == BatchDiverse /\ SuppressedForCause

\* The history, limited as it is, need not reach back to the row of k: as many rows of its
\* symbol were stored after it by requests that began before, or overlapped, that of l.
OutOfSight(k, l) ==
    \E i \in DOMAIN ranked :
        /\ ranked[i] = Row(k, k.at)
        /\ Cardinality({j \in Newer(i) : ranked[j].at <= l.at \/ ranked[j].at \in l.overlap})
             >= HistoryLimit

(* "Don't re-flag the same (symbol, direction) within an hour": of two     *)
(* requests that both delivered a signal within the cooldown, the later    *)
(* began before the earlier had ended, or could not see that far back.     *)
KeptApart ==
    \A k, l \in delivered :
        /\ k.symbol = l.symbol /\ k.direction = l.direction
        /\ k.at < l.at /\ l.at - k.at <= Cooldown
        => k.at \in l.overlap \/ OutOfSight(k, l)
=============================================================================
