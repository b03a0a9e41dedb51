------------------------------ MODULE MCJournal ------------------------------
(* An instance of Journal for TLC.                                           *)
EXTENDS Journal
=============================================================================
