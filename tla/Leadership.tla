----------------------------- MODULE Leadership -----------------------------
(* What the two tasks of an operator replica share (Leadership in           *)
(* cmd/routed-operator/src/leader.rs): the election sets the leader flag    *)
(* (Lease), the reconcile loop reads it (Operator).                         *)

CONSTANTS
  Replica    \* operator replicas, by their identities (pod names)

VARIABLES
  leading    \* per replica: Leadership::leading
=============================================================================
