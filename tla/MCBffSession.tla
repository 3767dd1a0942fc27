---------------------------- MODULE MCBffSession ----------------------------
(* BffSession for TLC: the request slots are interchangeable.              *)
EXTENDS BffSession, TLC

RequestSymmetry == Permutations(Requests)
=============================================================================
