------------------------------ MODULE MCRunHooks ------------------------------
(* Two values of the dependencies, which may change there and back.        *)
EXTENDS RunHooks

CONSTANTS d1, d2
=============================================================================
