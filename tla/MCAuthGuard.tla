----------------------------- MODULE MCAuthGuard -----------------------------
(* Two addresses from outside and loopback.                                *)
EXTENDS AuthGuard
CONSTANTS i1, i2, lo
MCIp == {i1, i2, lo}
MCExempt == {lo}
MCPersistent == {i1}
===============================================================================
