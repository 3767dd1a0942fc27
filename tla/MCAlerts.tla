------------------------------ MODULE MCAlerts ------------------------------
(* Alerts for TLC: alerts are interchangeable.                             *)
EXTENDS Alerts, TLC

AlertSymmetry == Permutations(AlertIds)
=============================================================================
