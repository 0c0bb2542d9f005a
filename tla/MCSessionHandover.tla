------------------------- MODULE MCSessionHandover -------------------------
(* Small instances of SessionHandover for TLC.                             *)
EXTENDS SessionHandover, TLC

CONSTANTS i1, i2, none

MCIp == {i1, i2}
IpSymmetry == Permutations(MCIp)
=============================================================================
