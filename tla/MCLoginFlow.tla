---------------------------- MODULE MCLoginFlow ----------------------------
(* Two tabs of one browser and a second browser, for TLC.                  *)
EXTENDS LoginFlow, TLC

CONSTANTS b1, b2, l1, l2

OneBrowserTwoTabs == l1 :> b1 @@ l2 :> b1
=============================================================================
