------------------------------ MODULE MCLiveView ------------------------------
(* Sensors of two levels, low at first.                                      *)
EXTENDS LiveView
CONSTANTS low, high

AllLow   == [s \in Sensors |-> low]
TheOther == [v \in Values |-> CHOOSE w \in Values : w # v]
================================================================================
