-------------------------- MODULE MCTunnelBinding --------------------------
(* TunnelBinding for TLC: two source addresses that are interchangeable.   *)
EXTENDS TunnelBinding, TLC

CONSTANTS a1, a2, none

MCAddr == {a1, a2}
AddrSymmetry == Permutations(MCAddr)
=============================================================================
