------------------------------ MODULE MCIpDesk ------------------------------
(* IpDesk for TLC: addresses are interchangeable.                          *)
EXTENDS IpDesk, TLC

IpSymmetry == Permutations(IPs)
=============================================================================
