----------------------------- MODULE MCOperator -----------------------------
(* Instances of Operator for TLC: two kinds, two contents each, so that an  *)
(* edit can return to an earlier content, and one combination that does not *)
(* compile (a policy naming a tier that is not there).                      *)
EXTENDS Operator, TLC

MCKind == {"ModelTier", "RoutingPolicy"}
MCContent == {"a", "b"}
MCStart == {[ModelTier |-> "a", RoutingPolicy |-> "a"]}
MCListOrder == <<"ModelTier", "RoutingPolicy">>
MCStatusRank == [ModelTier |-> 1, RoutingPolicy |-> 2]
MCHashedKind == {"RoutingPolicy"}
MCBlamed(s) ==
  IF s["ModelTier"] = "b" /\ s["RoutingPolicy"] = "a" THEN {"RoutingPolicy"} ELSE {}

Budget(edit, fault, resync, restart, handover, all) ==
  [c \in Count |->
     CASE c = "edit" -> edit [] c = "fault" -> fault [] c = "resync" -> resync
       [] c = "restart" -> restart [] c = "handover" -> handover [] OTHER -> all]

MCBound == Budget(2, 1, 1, 1, 2, 3)
TakeoverBound == Budget(1, 0, 0, 0, 2, 3)

=============================================================================
