----------------------------- MODULE BreadthLine ----------------------------
(***************************************************************************)
(* The cumulative advance-decline line (collectors/domains/breadth.py): in *)
(* memory, added to by every run before its records reach the database,    *)
(* and restored from the last row there when the process starts anew.      *)
(***************************************************************************)
EXTENDS Integers, Sequences

CONSTANTS Deltas,   \* advances less declines of a universe
          MaxRuns,  \* bound on the runs of the collector
          MaxFaults \* bound on the restarts and on the failures of the database

VARIABLES line,     \* _ad_line
          ready,    \* _initialized
          pending,  \* the delta of the run that is to be stored, None if there is none
          lines,    \* the rows stored, in their order
          gained,   \* what the runs since the last row have added and memory still holds
          broken,   \* the line did not start from the last row
          runs, faults

vars == <<line, ready, pending, lines, gained, broken, runs, faults>>

NoRun == 1000

TypeOK ==
    /\ line \in Int /\ ready \in BOOLEAN /\ broken \in BOOLEAN
    /\ pending \in Deltas \cup {NoRun}
    /\ lines \in Seq(Int) /\ gained \in Int
    /\ runs \in 0..MaxRuns /\ faults \in 0..MaxFaults

Init ==
    /\ line = 0 /\ ready = FALSE /\ pending = NoRun
    /\ lines = <<>> /\ gained = 0 /\ broken = FALSE
    /\ runs = 0 /\ faults = 0

LastRow == IF lines = <<>> THEN 0 ELSE lines[Len(lines)]

Fault == faults < MaxFaults /\ faults' = faults + 1

-----------------------------------------------------------------------------
\* Fault: the line starts from zero.
StartFromZero ==
    /\ ~ready
    /\ ready' = TRUE
    /\ line' = 0 /\ broken' = FALSE /\ UNCHANGED faults
    /\ UNCHANGED <<pending, lines, gained, runs>>

\* initialize(): from the last row, from zero if it cannot be read.
Initialize ==
    /\ ~ready
    /\ ready' = TRUE
    /\ \/ line' = LastRow /\ broken' = FALSE /\ UNCHANGED faults
       \/ line' = 0 /\ broken' = TRUE /\ Fault
    /\ UNCHANGED <<pending, lines, gained, runs>>

\* A failing fetch changes nothing: it is retried, or the run fails.
Collect(delta) ==
    /\ ready /\ pending = NoRun /\ runs < MaxRuns
    /\ runs' = runs + 1
    /\ line' = line + delta
    /\ gained' = gained + delta
    /\ pending' = delta
    /\ UNCHANGED <<ready, lines, broken, faults>>

\* The row stored says what memory says; a row not stored is made up for by the next.
Persist ==
    /\ pending # NoRun
    /\ pending' = NoRun
    /\ \/ lines' = Append(lines, line) /\ gained' = 0 /\ broken' = FALSE /\ UNCHANGED faults
       \/ Fault /\ UNCHANGED <<lines, gained, broken>>
    /\ UNCHANGED <<line, ready, runs>>

\* A crash, or cleanup(): what no row holds is gone.
Restart ==
    /\ ready /\ Fault
    /\ ready' = FALSE /\ line' = 0 /\ pending' = NoRun /\ gained' = 0 /\ broken' = FALSE
    /\ UNCHANGED <<lines, runs>>

Next == Initialize \/ (\E delta \in Deltas : Collect(delta)) \/ Persist \/ Restart

Spec == Init /\ [][Next]_vars

-----------------------------------------------------------------------------
(* The line continues where its last row ended, over restarts and over     *)
(* rows the database refused, except from a start at which the last row    *)
(* could not be read (breadth.py:75).                                      *)
LineContinues == ready /\ ~broken => line = LastRow + gained
=============================================================================
