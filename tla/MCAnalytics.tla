---------------------------- MODULE MCAnalytics -----------------------------
(* Small instances of Analytics.                                           *)
EXTENDS Analytics, TLC

CONSTANTS w1, w2, w3, p1, p2, k1, k2, k3, k4

Symmetry == Permutations({w1, w2, w3}) \cup Permutations({p1, p2})
              \cup Permutations({k1, k2, k3, k4})
=============================================================================
