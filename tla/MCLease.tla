------------------------------ MODULE MCLease ------------------------------
(* An instance of Lease for TLC: a period is 7 units, a call takes at most *)
(* one, and one replica's clock is a unit ahead of the other's.            *)
EXTENDS Lease, TLC

CONSTANTS r1, r2
ASSUME TwoReplicas == Replica = {r1, r2}

ASSUME InTime == Timely /\ RoomForOne

OneAhead == r1 :> 0 @@ r2 :> 1
=============================================================================
