---------------------------- MODULE MCFileSource ----------------------------
(* Instances of FileSource for TLC: up to two files, two good contents and  *)
(* one that does not parse.                                                 *)
EXTENDS FileSource

MCContent == {"a", "b", "bad"}
MCBad == {"bad"}
=============================================================================
