--------------------------- MODULE MCFeatureStore ---------------------------
EXTENDS FeatureStore, TLC

CONSTANTS e1, e2, f1, g1

\* Two engines with a feature each; the second's needs a reference symbol.
MCOwner == (f1 :> e1) @@ (g1 :> e2)
=============================================================================
