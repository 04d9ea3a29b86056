----------------------------- MODULE MCRegistry -----------------------------
(***************************************************************************)
(* Small instances of Registry for TLC.                                    *)
(***************************************************************************)
EXTENDS Registry

CONSTANTS n1, n2

\* Channel names need not be unique.
OneName == <<n1>>
SameNames == <<n1, n1>>
============================================================================
