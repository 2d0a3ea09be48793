------------------------------ MODULE Weighing ------------------------------
(***************************************************************************)
(* Weighted means of what is there, as the intelligence and the prediction *)
(* engines take them.  Values are in percent and division is towards zero, *)
(* so that a mean and its mirror image round alike.                        *)
(***************************************************************************)
EXTENDS Integers, FiniteSets, FiniteSetsExt

\* A value that is not there; below every value of a signal, which is in -100..100.
None == -1000

Or0(value) == IF value = None THEN 0 ELSE value

Bounded(x, low, high) == IF x < low THEN low ELSE IF x > high THEN high ELSE x

Clamp(x) == Bounded(x, 0, 100)

Sign(x) == IF x > 0 THEN 1 ELSE IF x < 0 THEN -1 ELSE 0

Abs(x) == IF x < 0 THEN -x ELSE x

Over(x, y) == IF x < 0 THEN -((-x) \div y) ELSE x \div y

Present(value, part) == IF value = None THEN {} ELSE {part}

\* One of the things a weighted mean is taken of.
Part(name, weight, score) == [of |-> name, weight |-> weight, score |-> score]

Tally(values) == MapThenSumSet(LAMBDA x : values[x], DOMAIN values)

TotalWeight(parts) == Tally([p \in parts |-> p.weight])

TotalScore(parts) == Tally([p \in parts |-> p.weight * p.score])

\* Fault: the weights are taken to add up to 100.
MeanOfAll(parts, otherwise) ==
    IF parts = {} THEN otherwise ELSE Over(TotalScore(parts), 100)

\* What is not there has no weight either.
Mean(parts, otherwise) ==
    IF TotalWeight(parts) <= 0 THEN otherwise ELSE Over(TotalScore(parts), TotalWeight(parts))

Plain(pairs) == {Part(p[1], 1, p[2]) : p \in pairs}
=============================================================================
