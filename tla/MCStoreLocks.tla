---------------------------- MODULE MCStoreLocks ----------------------------
(***************************************************************************)
(* Small instances of StoreLocks for TLC.                                  *)
(***************************************************************************)
EXTENDS StoreLocks, TLC

CONSTANTS t1, t2, n1, n2

============================================================================
