---------------------------- MODULE MCNetClient ----------------------------
(***************************************************************************)
(* Small instances of NetClient for TLC.                                   *)
(***************************************************************************)
EXTENDS NetClient
============================================================================
