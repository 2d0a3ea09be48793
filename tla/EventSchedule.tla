---------------------------- MODULE EventSchedule ---------------------------
(***************************************************************************)
(* Events that freeze trading and the calendar that announces them: a file *)
(* kept by hand, with entries of one date and rules that recur, is read by *)
(* the calendar's source (collectors/sources/nse_events.py), which keeps   *)
(* what it read for a while; the collector (collectors/domains/events.py)  *)
(* recommends a freeze in a window around each event.  The feeds of the    *)
(* exchange, none of whose events freezes, are not modelled.               *)
(***************************************************************************)
EXTENDS Naturals, FiniteSets, FiniteSetsExt

CONSTANTS Dates,       \* dates the entries of the file may have
          Recurrences, \* the dates on which the rule of the file recurs
          Before,      \* pre_event_window_hours, in units of the model
          After,       \* post_event_window_hours
          CacheTtl,    \* how long the source keeps its list
          MaxTime      \* bound on time

VARIABLES now,
          entries, \* dates of the entries in the file
          editing, \* the file is being edited, and may not parse
          edited,  \* when it was last edited
          cache,   \* _cache: when the list was made, and its dates; none before the first
          run      \* the last run of the collector

vars == <<now, entries, editing, edited, cache, run>>

Lists == {S \in SUBSET [at : 0..MaxTime, events : SUBSET (Dates \cup Recurrences)] : Cardinality(S) <= 1}

TypeOK ==
    /\ now \in 0..MaxTime /\ edited \in 0..MaxTime
    /\ entries \subseteq Dates /\ editing \in BOOLEAN
    /\ cache \in Lists
    /\ Cardinality(run) <= 1
    /\ run \subseteq [at : 0..MaxTime, freezes : BOOLEAN, entries : SUBSET Dates, steady : BOOLEAN]

Init ==
    /\ now = 0 /\ edited = 0 /\ editing = FALSE
    /\ entries = {}
    /\ cache = {} /\ run = {}

-----------------------------------------------------------------------------
\* Fault: a recurrence that falls due is past.
NextRecurrenceOnly ==
    LET coming == {d \in Recurrences : d > now}
    IN  IF coming = {} THEN {} ELSE {Min(coming)}

\* Of a rule the next recurrence only.
NextRecurrence ==
    LET coming == {d \in Recurrences : d >= now}
    IN  IF coming = {} THEN {} ELSE {Min(coming)}

\* load_scheduled_events(): nothing from a file that does not parse.
Scheduled(parses) == IF parses THEN entries \cup NextRecurrence ELSE {}

Fresh == \E list \in cache : now - list.at < CacheTtl

\* now is in the window around the date.
Active(date) == date <= now + Before /\ now <= date + After

\* A run of the collector, scheduled or asked for.
Collect(parses) ==
    /\ parses \/ editing
    /\ cache' = IF Fresh THEN cache ELSE {[at |-> now, events |-> Scheduled(parses)]}
    /\ run' = {[at |-> now, entries |-> entries,
                freezes |-> \E list \in cache' : \E date \in list.events : Active(date),
                steady |-> ~editing /\ now >= edited + CacheTtl]}
    /\ UNCHANGED <<now, entries, editing, edited>>

BeginEdit ==
    /\ ~editing /\ editing' = TRUE
    /\ UNCHANGED <<now, entries, edited, cache, run>>

EndEdit ==
    /\ editing /\ editing' = FALSE /\ edited' = now
    /\ entries' \in SUBSET Dates
    /\ UNCHANGED <<now, cache, run>>

Restart ==
    /\ cache' = {}
    /\ UNCHANGED <<now, entries, editing, edited, run>>

Tick ==
    /\ now < MaxTime /\ now' = now + 1
    /\ UNCHANGED <<entries, editing, edited, cache, run>>

Next == (\E parses \in BOOLEAN : Collect(parses)) \/ BeginEdit \/ EndEdit \/ Restart \/ Tick

Spec == Init /\ [][Next]_vars

-----------------------------------------------------------------------------
Around(date, last, r) == date <= r.at + Before /\ r.at <= date + last

(* From a cache term after the last edit of the file on, no run between    *)
(* the opening and the end of the window of an entry, or between the       *)
(* opening of the window of a recurring event and the event, recommends    *)
(* trading, whatever was cached before, or read while the file did not     *)
(* parse (nse_events.py:147, :176).                                        *)
WindowsKept ==
    \A r \in {q \in run : q.steady} :
        (\E date \in r.entries : Around(date, After, r)) \/ (\E date \in Recurrences : Around(date, 0, r))
        => r.freezes

(* "post_event_window_hours": 24 of the recurring BUDGET (events.py:88):   *)
(* trading is frozen in the window after a recurring event, too.           *)
FreezeThroughWindow ==
    \A r \in {q \in run : q.steady} :
        (\E date \in Recurrences : Around(date, After, r)) => r.freezes
=============================================================================
