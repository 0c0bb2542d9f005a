------------------------ MODULE MCRdpeudpTransport ------------------------
(* A small instance of RdpeudpTransport for TLC: the client's numbers wrap *)
(* with its second payload, the server's start in the lower half.          *)
EXTENDS RdpeudpTransport

CONSTANTS ClientPayloads, ServerPayloads

MCIsn == [e \in End |-> IF e = "client" THEN SeqSpace - 2 ELSE 1]
MCWindow == [e \in End |-> 2]
MCPayloads == [e \in End |-> IF e = "client" THEN ClientPayloads ELSE ServerPayloads]
=============================================================================
