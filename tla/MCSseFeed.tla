----------------------------- MODULE MCSseFeed -----------------------------
(* SseFeed for TLC: an event of each kind.                                 *)
EXTENDS SseFeed

MCScripts == {<<"named", "generic">>, <<"heartbeat">>}
=============================================================================
