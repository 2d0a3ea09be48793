---------------------------- MODULE MCLifecycle ----------------------------
EXTENDS Lifecycle, TLC

LegacyRow(s) == [stage |-> s, at |-> 0]

\* A ledger the pre-lock race corrupted, one close to its end, and none.
MCLegacyLogs ==
    { <<LegacyRow("detected"), LegacyRow("confirmed"), LegacyRow("confirmed")>>,
      <<LegacyRow("detected"), LegacyRow("expired"), LegacyRow("expired")>> }

CallSymmetry == Permutations(Calls)
=============================================================================
