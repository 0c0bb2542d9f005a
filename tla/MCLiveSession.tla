---------------------------- MODULE MCLiveSession ----------------------------
(* A session while it lasts: resizes with three sizes, each of which may be    *)
(* the initial one (LiveResize), and what must eventually happen on the UDP    *)
(* side.  A behaviour is one of the resizes, of the tunnel's bookkeeping       *)
(* (TunnelBinding) or of one flow (RdpeudpTransport), the others at rest.      *)
EXTENDS LiveResize, Integers

CONSTANTS
    Addr, NoAddr, MaxConns, MaxInc, DeadTicks, GcTicks, CooldownTicks,
    SeqSpace, Isn, Window, Payloads, MaxFaults,
    ClientPayloads, ServerPayloads

VARIABLES
    srv, conn, negotiated, offerCookie, migration, softSync, boundRef, inboundRx,
    egfxOnUdp, demigrate, lossyAudio, registry, bound, cooldown, peer, boundAddr,
    counter, takenEntry, told, flow, synacks, silent,
    state, havePeer, peerWindow, written, sent, released, recvNext, reorder, read,
    net, faults,
    part   \* the part that runs

T == INSTANCE TunnelBinding WITH taken <- takenEntry
F == INSTANCE RdpeudpTransport

\* F!End, which its own constants may not mention.
Ends == {"client", "server"}
ClientIsn == [e \in Ends |-> IF e = "client" THEN SeqSpace - 2 ELSE 1]
SmallWindow == [e \in Ends |-> 2]
FewPayloads == [e \in Ends |-> IF e = "client" THEN ClientPayloads ELSE ServerPayloads]

tunnelVars == <<srv, conn, negotiated, offerCookie, migration, softSync, boundRef, inboundRx,
                egfxOnUdp, demigrate, lossyAudio, registry, bound, cooldown, peer, boundAddr,
                counter, takenEntry, told, flow, synacks, silent>>
flowVars == <<state, havePeer, peerWindow, written, sent, released, recvNext, reorder, read,
              net, faults>>
allVars == <<vars, tunnelVars, flowVars, part>>

Resize(A) == part = "resize" /\ A /\ UNCHANGED <<tunnelVars, flowVars, part>>
Tunnel(A) == part = "tunnel" /\ A /\ UNCHANGED <<vars, flowVars, part>>
Flow(A) == part = "flow" /\ A /\ UNCHANGED <<vars, tunnelVars, part>>

SessionInit ==
    /\ part \in {"resize", "tunnel", "flow"}
    /\ Init /\ T!Init /\ F!Init
    /\ part # "tunnel" => lossyAudio
    /\ part # "resize" => ~args.auto /\ ~args.vd /\ desktop = CHOOSE s \in Sizes : TRUE

SessionNext == Resize(Next) \/ Tunnel(T!Next) \/ Flow(F!Next)

\* The fairness of the three; since one of them runs, conditions can be shared.
SessionSpec ==
    /\ SessionInit /\ [][SessionNext]_allVars
    /\ WF_allVars(Tunnel(T!Tick) \/ Flow(F!ResendSyn) \/ Resize(Settle))
    /\ WF_allVars(Tunnel(T!RaiseFlag) \/ Flow(F!ResendAll("client")) \/ Resize(CaptureLoads))
    /\ WF_allVars(Flow(F!ResendAll("server")) \/ Resize(CaptureSwaps))
    /\ WF_allVars(Resize(CaptureApplies))
    /\ \A e \in F!End, use \in F!Uses :
          WF_allVars(Flow(\E d \in net : F!Useful(e, d, use) /\ F!Deliver(d)))

SilenceIsNoticed == T!SilenceIsNoticed
EverythingArrives == F!EverythingArrives
===============================================================================
