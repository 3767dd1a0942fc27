---------------------------- MODULE MCViewLoads ----------------------------
(* ViewLoads for TLC.                                                      *)
EXTENDS ViewLoads
=============================================================================
