------------------------------ MODULE MCStepUp ------------------------------
(* StepUp for TLC.                                                         *)
EXTENDS StepUp
=============================================================================
