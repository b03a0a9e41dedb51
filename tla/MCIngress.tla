----------------------------- MODULE MCIngress -----------------------------
EXTENDS Ingress, TLC

\* A snapshot under which the requests pass through, one that routes them
\* and blocks a degraded classification, and one that blocks on what the
\* classifier finds and falls back when it fails.
MCSnapshots ==
    {[f \in Finding |-> "PASS_THROUGH"],
     [f \in Finding |-> IF f = "degraded" THEN "BLOCK" ELSE "ROUTE"],
     [f \in Finding |-> IF f = "found" THEN "BLOCK" ELSE "ROUTE"]}

Symmetry == Permutations(Requests)
=============================================================================
