---------------------------- MODULE MCAuthRouter ----------------------------
(* AuthRouter for TLC.                                                     *)
EXTENDS AuthRouter
=============================================================================
