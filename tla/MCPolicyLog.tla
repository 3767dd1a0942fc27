---------------------------- MODULE MCPolicyLog ----------------------------
(* PolicyLog for TLC: three settings of the controls.                       *)
EXTENDS PolicyLog

MCSettings ==
  {defaultFilters, [defaultFilters EXCEPT !.cid = TRUE],
   [defaultFilters EXCEPT !.recent = FALSE, !.narrow = TRUE]}
=============================================================================
