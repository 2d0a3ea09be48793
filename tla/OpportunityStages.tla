------------------------- MODULE OpportunityStages -------------------------
(***************************************************************************)
(* What the lifecycle manager promises of each opportunity, seen through   *)
(* get(): its stage only ever moves along the allowed transitions, one at  *)
(* a time, and a terminal stage is final.                                  *)
(***************************************************************************)
EXTENDS LifecycleStages

CONSTANT Ids

VARIABLE stage

Init == stage \in [Ids -> Stages \cup {NoStage}]

Move(i) == \E t \in Stages : /\ CanFollow(stage[i], t)
                             /\ stage' = [stage EXCEPT ![i] = t]

Next == \E i \in Ids : Move(i)

Spec == Init /\ [][Next]_stage
=============================================================================
