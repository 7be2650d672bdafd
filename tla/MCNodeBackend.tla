----------------------------- MODULE MCNodeBackend -----------------------------
(* Two sensors of two levels, low at first.                                  *)
EXTENDS NodeBackend
CONSTANTS low, high

AllLow == [s \in Sensors |-> low]
================================================================================
