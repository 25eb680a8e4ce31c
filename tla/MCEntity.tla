-------------------------------- MODULE MCEntity -------------------------------
(* Two entities one after the other or at once, with two addresses for     *)
(* cpus and four for devices, and one loose device at a time.              *)
EXTENDS Entity

CONSTANTS c1, c2, d1, d2, d3, d4

MCCpus    == {c1, c2}
MCDevices == {d1, d2, d3, d4}
MCKeys    == {"extra"}
================================================================================
