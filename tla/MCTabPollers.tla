---------------------------- MODULE MCTabPollers ----------------------------
(* TabPollers for TLC.                                                     *)
EXTENDS TabPollers
=============================================================================
