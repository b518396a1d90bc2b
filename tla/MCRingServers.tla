--------------------------- MODULE MCRingServers ---------------------------
(***************************************************************************)
(* Small instances of RingServers for TLC.                                 *)
(***************************************************************************)
EXTENDS RingServers
=============================================================================
