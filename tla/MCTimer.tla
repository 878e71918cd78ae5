------------------------------ MODULE MCTimer -------------------------------
(* Timer for TLC.  Values are interchangeable: the properties and the list  *)
(* treat them alike.                                                        *)
EXTENDS Timer, TLC

Interchangeable == Permutations(Values)
=============================================================================
