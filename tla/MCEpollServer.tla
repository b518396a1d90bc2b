--------------------------- MODULE MCEpollServer ---------------------------
(***************************************************************************)
(* Small instances of EpollServer for TLC.                                 *)
(***************************************************************************)
EXTENDS EpollServer
=============================================================================
