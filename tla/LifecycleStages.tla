-------------------------- MODULE LifecycleStages --------------------------
(***************************************************************************)
(* The vocabulary of prediction/lifecycle.py: the stages of an opportunity *)
(* and the transitions apply_transition accepts.                           *)
(***************************************************************************)
EXTENDS Naturals, Sequences

NonTerminal == <<"detected", "confirmed", "qualified", "sent", "monitoring">>

Terminal == {"expired", "succeeded", "failed"}

Open == {"detected", "confirmed", "qualified", "sent", "monitoring"}

Stages == Open \cup Terminal

NoStage == "none"      \* state is None: no row of this lifecycle is persisted

Unreadable == "unreadable"   \* the replay of the ledger raises

\* One forward step between non-terminal stages.
Advances(s, t) == \E k \in 1..4 : s = NonTerminal[k] /\ t = NonTerminal[k + 1]

\* Fault: the no-op test for a stage already reached is lost.
CanFollowRepeating(s, t) ==
    \/ s = NoStage /\ t = "detected"
    \/ s \in Open /\ t \in Terminal
    \/ Advances(s, t)
    \/ s \in Stages /\ t = s

\* apply_transition does not raise.  ('expired' always carries its reason and
\* 'succeeded' / 'failed' default their outcome: the public methods see to it.)
CanFollow(s, t) ==
    \/ s = NoStage /\ t = "detected"
    \/ s \in Open /\ t \in Terminal
    \/ Advances(s, t)

(***************************************************************************)
(* A ledger is a sequence of rows [stage, at].  Reading it back succeeds   *)
(* exactly when it starts at "detected" and each row either repeats the    *)
(* stage before it (the row is skipped) or may follow it.                  *)
(***************************************************************************)
Readable(rows) ==
    rows # <<>> =>
        /\ rows[1].stage = "detected"
        /\ \A k \in 1..(Len(rows) - 1) :
              \/ rows[k + 1].stage = rows[k].stage
              \/ CanFollow(rows[k].stage, rows[k + 1].stage)

\* The stage get() reports for a ledger.
CurrentStage(rows) ==
    IF rows = <<>> THEN NoStage
    ELSE IF Readable(rows) THEN rows[Len(rows)].stage
    ELSE Unreadable
=============================================================================
