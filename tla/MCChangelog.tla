------------------------------ MODULE MCChangelog ------------------------------
(* Three fragments, one of them malformed.                                 *)
EXTENDS Changelog

CONSTANTS f1, f2, f3, h1
=============================================================================
