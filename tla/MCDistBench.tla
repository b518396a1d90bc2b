---------------------------- MODULE MCDistBench ----------------------------
(***************************************************************************)
(* Small instances of DistBench for TLC.                                   *)
(***************************************************************************)
EXTENDS DistBench
=============================================================================
