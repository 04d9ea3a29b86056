--------------------------- MODULE MCSessionPool ---------------------------
(***************************************************************************)
(* Small instances of SessionPool for TLC.                                 *)
(***************************************************************************)
EXTENDS SessionPool

CONSTANTS u1, u2
============================================================================
