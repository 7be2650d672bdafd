------------------------------ MODULE MCWiseUpLink -----------------------------
(* One hub; two requests for one relay of it, or for one relay each.         *)
EXTENDS WiseUpLink
CONSTANTS h1, c1, c2

SameRelay  == [c \in Commands |-> [hub |-> h1, port |-> 1, data |-> IF c = c1 THEN 1 ELSE 0]]
RelayEach  == [c \in Commands |-> [hub |-> h1, port |-> IF c = c1 THEN 1 ELSE 2, data |-> 1]]
================================================================================
