--------------------------- MODULE MCSimpleServer ---------------------------
(***************************************************************************)
(* Small instances of SimpleServer for TLC.                                *)
(***************************************************************************)
EXTENDS SimpleServer
=============================================================================
