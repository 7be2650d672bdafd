------------------------------ MODULE MCSensorHub -----------------------------
(* One hub; the relays, gateways and intervals come from the configuration.  *)
EXTENDS SensorHub
================================================================================
