--------------------------- MODULE MCUringShards ---------------------------
(***************************************************************************)
(* Small instances of UringShards for TLC.                                 *)
(***************************************************************************)
EXTENDS UringShards
=============================================================================
