------------------------------ MODULE MCTable ------------------------------
(***************************************************************************)
(* Small instances of Table for TLC.                                       *)
(***************************************************************************)
EXTENDS Table

CONSTANTS s1, s2, a, b
============================================================================
