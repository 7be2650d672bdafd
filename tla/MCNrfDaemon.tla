------------------------------ MODULE MCNrfDaemon ------------------------------
(* Two requests for one sensor of one hub.                                  *)
EXTENDS NrfDaemon
CONSTANTS h1, s1, c1, c2

SensorOfSame == [c \in {c1, c2} |-> s1]

================================================================================
