----------------------------- MODULE MCExtProc -----------------------------
(* Bodies of up to four bytes in chunks of none, one or two, three allowed. *)
EXTENDS ExtProc

MCSizes == 0..2
=============================================================================
