----------------------------- MODULE MCGoBench -----------------------------
(***************************************************************************)
(* Small instances of GoBench for TLC.                                     *)
(***************************************************************************)
EXTENDS GoBench
=============================================================================
