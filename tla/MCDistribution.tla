--------------------------- MODULE MCDistribution ---------------------------
(* Instances of Distribution for TLC: one kind, whose objects go through    *)
(* three generations that may return to an earlier content or not compile.  *)
EXTENDS Distribution, TLC

MCKind == {"RoutingPolicy"}
MCGen == 1..3
MCDigest == {"a", "b", "c"}

Budget(replica, stm, router) ==
  [c \in Chance |-> CASE c = "replica" -> replica [] c = "stream" -> stm [] OTHER -> router]

MCBound == Budget(1, 1, 1)
=============================================================================
