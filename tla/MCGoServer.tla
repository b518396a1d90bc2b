----------------------------- MODULE MCGoServer -----------------------------
(***************************************************************************)
(* Small instances of GoServer for TLC.                                    *)
(***************************************************************************)
EXTENDS GoServer
=============================================================================
