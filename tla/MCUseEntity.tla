------------------------------ MODULE MCUseEntity ------------------------------
(* Two records behind each of two runtimes, and one component.             *)
EXTENDS UseEntity

CONSTANTS c1, i1, i2, r1, r2
=============================================================================
