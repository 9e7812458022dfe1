----------------------------- MODULE MCDurableStore -----------------------------
(* One record, which every call is about.                                  *)
EXTENDS DurableStore

CONSTANTS i1
=============================================================================
