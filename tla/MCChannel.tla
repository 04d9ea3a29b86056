----------------------------- MODULE MCChannel -----------------------------
(***************************************************************************)
(* Small instances of Channel for TLC.                                     *)
(***************************************************************************)
EXTENDS ChannelMailbox

CONSTANTS u1, u2, w

============================================================================
