------------------------------- MODULE MCNics -------------------------------
(***************************************************************************)
(* Small instances of Nics for TLC.                                        *)
(***************************************************************************)
EXTENDS Nics
=============================================================================
