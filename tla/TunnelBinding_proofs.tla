------------------------ MODULE TunnelBinding_proofs ------------------------
(***************************************************************************)
(* Theorems about TunnelBinding for every set of addresses and all bounds, *)
(* proved from the inductive invariant IInv below.                         *)
(***************************************************************************)
EXTENDS TunnelBinding, TLAPS

\* A peer's flag is the flag of a cookie that was told to a client, has left the
\* registry and is routed to that very peer.
FlagsRouted ==
  \A a \in Addr : peer[a].flag # 0 =>
    /\ Present(a) /\ peer[a].stage = "created" /\ boundAddr[peer[a].flag] = a
    /\ peer[a].flag \notin registry /\ taken.cookie # peer[a].flag
    /\ peer[a].flag \in told

\* A raised flag is held by a peer.
FlagsHeld == \A c \in Cookie : bound[c] => \E a \in Addr : peer[a].flag = c

\* A cookie between CookieRegistry.take's removal and its store is in no other
\* place, and the peer that presented it has no flag yet.
TakenFresh ==
  \/ taken = NothingTaken
  \/ /\ taken.addr \in Addr /\ Present(taken.addr) /\ taken.cookie \in told
     /\ taken.cookie \notin registry
     /\ peer[taken.addr].flag = 0

\* Cookies are issued in order, and the next one is not in use anywhere.
CookiesIssued ==
  /\ \A c \in told : c <= conn
  /\ offerCookie <= conn
  /\ registry \subseteq {offerCookie}
  /\ srv = "idle" => offerCookie = 0
  /\ \A a \in Addr : flow[a].cookie # 0 => flow[a].cookie \in told

\* EGFX is on UDP or de-migrated only in a session, and after the Soft-Sync.
EgfxAfterSoftSync ==
  /\ srv # "active" => ~egfxOnUdp /\ ~demigrate
  /\ egfxOnUdp \/ demigrate => softSync \/ migration = 0

\* What a connection accepted afresh knows of tunnels is its own offer: until it
\* is active, and also then if its client was not told the cookie, the migration
\* state may still be the previous connection's, but no flag of its own is up.
FreshRoute ==
  ~negotiated =>
    /\ srv = "accepting" =>
         boundRef = conn \/ (boundRef = 0 /\ migration = 0 /\ offerCookie = 0)
    /\ srv = "active" =>
         \/ migration \in {0, conn}
         \/ boundRef = conn /\ conn \notin told /\ ~egfxOnUdp

IInv ==
  /\ TypeOK
  /\ FlagsRouted
  /\ FlagsHeld
  /\ TakenFresh
  /\ CookiesIssued
  /\ EgfxAfterSoftSync
  /\ FreshRoute

-----------------------------------------------------------------------------
\* The two updates of an entry that change more than its clock.
LEMMA PeerUpdates ==
  ASSUME NEW p \in Peer
  PROVE  /\ [p EXCEPT !.stage = "established", !.idle = 0] \in Peer
         /\ \A c \in 0..MaxConns : [p EXCEPT !.flag = c, !.stage = "created"] \in Peer
<1>1. [p EXCEPT !.stage = "established", !.idle = 0] \in Peer
  <2> DEFINE q == [p EXCEPT !.stage = "established"]
  <2>1. q \in Peer
    BY DEF Peer, Stage
  <2> HIDE DEF q
  <2>2. [q EXCEPT !.idle = 0] \in Peer
    BY <2>1, ThresholdsAssumption DEF Peer
  <2> QED BY <2>2 DEF q
<1>2. ASSUME NEW c \in 0..MaxConns
      PROVE  [p EXCEPT !.flag = c, !.stage = "created"] \in Peer
  <2> DEFINE q == [p EXCEPT !.flag = c]
  <2>1. q \in Peer
    BY DEF Peer
  <2> HIDE DEF q
  <2>2. [q EXCEPT !.stage = "created"] \in Peer
    BY <2>1 DEF Peer, Stage
  <2> QED BY <2>2 DEF q
<1> QED BY <1>1, <1>2

LEMMA TypeInit == Init => TypeOK
<1> SUFFICES ASSUME Init PROVE TypeOK
  OBVIOUS
<1>1. NoFlow \in Flow
  BY BoundsAssumption DEF NoFlow, Flow
<1>2. taken \in [addr : Addr \cup {NoAddr}, cookie : 0..MaxConns]
  BY BoundsAssumption DEF Init, NothingTaken
<1>3. NoPeer \in Peer
  BY BoundsAssumption, ThresholdsAssumption DEF NoPeer, Peer, Stage
<1>4. /\ bound \in [Cookie -> BOOLEAN] /\ boundAddr \in [Cookie -> Addr \cup {NoAddr}]
      /\ peer \in [Addr -> Peer] /\ flow \in [Addr -> Flow]
  BY <1>1, <1>3 DEF Init
<1>5. synacks \in [Addr -> SUBSET (1..MaxInc)]
  BY DEF Init
<1>6. 0 \in 0..MaxConns /\ 0 \in 0..MaxInc /\ 0 \in 0..CooldownTicks
  BY BoundsAssumption, ThresholdsAssumption
<1> QED
  BY <1>2, <1>4, <1>5, <1>6 DEF Init, TypeOK

USE DEF serverVars, listenerVars, clientVars, vars

LEMMA TypeServer == TypeOK /\ Server => TypeOK'
<1> SUFFICES ASSUME TypeOK, Server PROVE TypeOK'
  OBVIOUS
<1> USE BoundsAssumption, ThresholdsAssumption DEF TypeOK, Cookie
<1>1. CASE AcceptFresh
  <2>1. CASE WithholdOffer
    <3>1. registry' \subseteq 1..MaxConns /\ conn + 1 \in 0..MaxConns
      BY <1>1, <2>1 DEF AcceptFresh, WithholdOffer
    <3>2. 0 \in 0..MaxConns
      OBVIOUS
    <3> QED BY <1>1, <2>1, <3>1, <3>2 DEF AcceptFresh, WithholdOffer
  <2>2. CASE MakeOffer(conn + 1)
    <3>1. conn + 1 \in 1..MaxConns
      BY <1>1 DEF AcceptFresh
    <3>2. bound' \in [1..MaxConns -> BOOLEAN] /\ registry' \subseteq 1..MaxConns
      BY <2>2, <3>1 DEF MakeOffer
    <3>3. conn' \in 0..MaxConns /\ offerCookie' \in 0..MaxConns
          /\ boundRef' \in 0..MaxConns
      BY <1>1, <2>2, <3>1 DEF AcceptFresh, MakeOffer
    <3>4. inboundRx' = "held" /\ UNCHANGED <<migration, softSync>>
      BY <2>2 DEF MakeOffer
    <3> QED BY <1>1, <3>2, <3>3, <3>4 DEF AcceptFresh
  <2> QED BY <1>1, <2>1, <2>2 DEF AcceptFresh
<1>2. CASE AcceptNegotiated
  BY <1>2 DEF AcceptNegotiated
<1>3. CASE SendOffer
  BY <1>3 DEF SendOffer
<1>4. CASE Activate
  BY <1>4 DEF Activate
<1>5. CASE Reactivate
  BY <1>5 DEF Reactivate
<1>6. CASE EgfxFrame
  <2>1. softSync' \in BOOLEAN /\ egfxOnUdp' \in BOOLEAN
    BY <1>6 DEF EgfxFrame, SoftSyncOnEgfx, Raised
  <2> QED BY <1>6, <2>1 DEF EgfxFrame
<1>7. CASE AcksSilent
  BY <1>7 DEF AcksSilent
<1>8. CASE InitiateResponse
  BY <1>8 DEF InitiateResponse
<1>9. CASE SessionEnds
  BY <1>9 DEF SessionEnds
<1>10. CASE EvictOffer
  BY <1>10 DEF EvictOffer, EvictCurrent
<1> QED
  BY <1>1, <1>2, <1>3, <1>4, <1>5, <1>6, <1>7, <1>8, <1>9, <1>10 DEF Server

LEMMA TypeClients == TypeOK /\ Clients => TypeOK'
<1> SUFFICES ASSUME TypeOK, NEW a \in Addr, OpenFlow(a) \/ FlowOpens(a) \/ GoesSilent(a)
             PROVE  TypeOK'
  BY DEF Clients
<1> USE BoundsAssumption, ThresholdsAssumption DEF TypeOK, Cookie
<1>1. CASE OpenFlow(a)
  BY <1>1 DEF OpenFlow, Flow
<1>2. CASE FlowOpens(a)
  BY <1>2 DEF FlowOpens, Flow
<1>3. CASE GoesSilent(a)
  BY <1>3 DEF GoesSilent
<1> QED BY <1>1, <1>2, <1>3

LEMMA TypeListener == TypeOK /\ Listener => TypeOK'
<1> SUFFICES ASSUME TypeOK, Listener PROVE TypeOK'
  OBVIOUS
<1> USE BoundsAssumption, ThresholdsAssumption DEF TypeOK
<1>1. ASSUME NEW a \in Addr, SynArrives(a) PROVE TypeOK'
  <2>1. CASE Present(a) /\ peer[a].stage = "listen"
    <3>1. peer' = [peer EXCEPT ![a] =
                     [peer[a] EXCEPT !.stage = "established", !.idle = 0]]
      BY <1>1, <2>1 DEF SynArrives
    <3>2. peer' \in [Addr -> Peer]
      BY <3>1, PeerUpdates
    <3>3. peer'[a].inc = peer[a].inc /\ peer[a].inc \in 1..MaxInc
      BY <3>1, <2>1 DEF Present, Peer
    <3> QED BY <1>1, <2>1, <3>2, <3>3 DEF SynArrives
  <2>2. CASE ~(Present(a) /\ peer[a].stage = "listen")
    <3>1. counter + 1 \in 1..MaxInc /\ counter' = counter + 1
      BY <1>1, <2>2 DEF SynArrives
    <3>2. peer' \in [Addr -> Peer] /\ peer'[a].inc = counter + 1
      BY <1>1, <2>2, <3>1 DEF SynArrives, Replaced, NewPeer, Peer, Stage
    <3>3. bound' \in [Cookie -> BOOLEAN]
          /\ boundAddr' \in [Cookie -> Addr \cup {NoAddr}]
      BY <1>1, <2>2 DEF SynArrives, LowerFlagsOf, Without
    <3> QED BY <1>1, <3>1, <3>2, <3>3 DEF SynArrives
  <2> QED BY <2>1, <2>2
<1>2. ASSUME NEW a \in Addr, DatagramArrives(a) PROVE TypeOK'
  <2>1. peer' \in [Addr -> Peer] /\ counter' \in 0..MaxInc
    BY <1>2 DEF DatagramArrives, NewPeer, Peer, Stage
  <2> QED BY <1>2, <2>1 DEF DatagramArrives
<1>3. ASSUME NEW a \in Addr, TakeCookie(a) PROVE TypeOK'
  <2>2. peer' \in [Addr -> Peer]
    BY <1>3 DEF TakeCookie, Peer
  <2>3. taken' \in [addr : Addr \cup {NoAddr}, cookie : 0..MaxConns]
    BY <1>3 DEF TakeCookie, Flow, Cookie
  <2> QED BY <1>3, <2>2, <2>3 DEF TakeCookie, Consume
<1>4. CASE RaiseFlag
  <2>1. peer' = [peer EXCEPT ![taken.addr] =
                   [peer[taken.addr] EXCEPT !.flag = taken.cookie, !.stage = "created"]]
    BY <1>4 DEF RaiseFlag
  <2>2. peer' \in [Addr -> Peer]
    BY <2>1, PeerUpdates
  <2>3. NothingTaken \in [addr : Addr \cup {NoAddr}, cookie : 0..MaxConns]
    BY DEF NothingTaken
  <2> QED BY <1>4, <2>2, <2>3 DEF RaiseFlag
<1>5. CASE Tick
  <2>1. peer' \in [Addr -> Peer]
    <3>1. ASSUME NEW a \in Addr, a \notin Collected, Present(a)
          PROVE  [peer[a] EXCEPT !.idle = IdleAfterTick(a)] \in Peer
      BY <3>1 DEF Collected, IdleAfterTick, Peer
    <3>2. NoPeer \in Peer
      BY DEF NoPeer, Peer, Stage
    <3> QED BY <1>5, <3>1, <3>2 DEF Tick
  <2>2. cooldown' \in 0..CooldownTicks
    BY <1>5 DEF Tick, CooldownAfterTick
  <2>3. bound' \in [Cookie -> BOOLEAN]
        /\ boundAddr' \in [Cookie -> Addr \cup {NoAddr}]
    BY <1>5 DEF Tick, LowerFlagsOf, Without
  <2> QED BY <1>5, <2>1, <2>2, <2>3 DEF Tick
<1> QED BY <1>1, <1>2, <1>3, <1>4, <1>5 DEF Listener

LEMMA TypeStep == TypeOK /\ [Next]_vars => TypeOK'
<1>1. TypeOK /\ UNCHANGED vars => TypeOK'
  BY DEF TypeOK
<1> QED BY <1>1, TypeServer, TypeListener, TypeClients DEF Next

-----------------------------------------------------------------------------
\* What the peers and flags satisfy survives every step that leaves the
\* listener's state alone, issues no cookie and raises no flag.
LEMMA Quiet ==
  ASSUME FlagsRouted, FlagsHeld, TakenFresh,
         UNCHANGED <<peer, boundAddr, taken>>,
         registry' \subseteq registry, told \subseteq told',
         \A c \in Cookie : bound'[c] => bound[c]
  PROVE  FlagsRouted' /\ FlagsHeld' /\ TakenFresh'
<1>1. FlagsRouted'
  BY DEF FlagsRouted, Present
<1>2. FlagsHeld'
  BY DEF FlagsHeld
<1>3. TakenFresh'
  BY DEF TakenFresh, NothingTaken, Present
<1> QED BY <1>1, <1>2, <1>3

LEMMA IInvInit == Init => IInv
<1> SUFFICES ASSUME Init PROVE IInv
  OBVIOUS
<1>1. \A a \in Addr : peer[a].flag = 0
  BY DEF Init, NoPeer
<1>2. FlagsRouted /\ FlagsHeld /\ TakenFresh
  BY <1>1 DEF Init, FlagsRouted, FlagsHeld, TakenFresh
<1>3. CookiesIssued
  BY DEF Init, CookiesIssued, NoFlow
<1> QED
  BY <1>2, <1>3, TypeInit DEF IInv, Init, EgfxAfterSoftSync, FreshRoute

\* The cookie whose flag is up was told to a client.
LEMMA RaisedTold ==
  ASSUME IInv, Raised(boundRef)
  PROVE  boundRef \in told
BY DEF IInv, TypeOK, FlagsHeld, FlagsRouted, Raised, Cookie

\* Accepting a connection and offering it a cookie.
LEMMA AcceptFreshInv == IInv /\ AcceptFresh => IInv'
<1> SUFFICES ASSUME IInv, AcceptFresh PROVE IInv'
  OBVIOUS
<1>0. TypeOK'
  BY TypeServer DEF IInv, Server
<1>1. conn \in Nat /\ told \subseteq Nat /\ conn' = conn + 1 /\ offerCookie = 0
      /\ registry = {}
  BY BoundsAssumption DEF IInv, TypeOK, Cookie, CookiesIssued, AcceptFresh
<1>2. EgfxAfterSoftSync' 
  BY DEF IInv, EgfxAfterSoftSync, AcceptFresh
<1>3. CASE WithholdOffer
  <2>1. FlagsRouted' /\ FlagsHeld' /\ TakenFresh'
    BY <1>3, Quiet DEF IInv, AcceptFresh, WithholdOffer
  <2>2. CookiesIssued'
    <3>1. \A c \in told : c <= conn + 1
      BY <1>1 DEF IInv, CookiesIssued
    <3>2. registry' = {} /\ offerCookie' = 0 /\ srv' # "idle"
      BY <1>1, <1>3 DEF AcceptFresh, WithholdOffer
    <3> QED BY <1>1, <3>1, <3>2 DEF IInv, CookiesIssued, AcceptFresh
  <2>3. FreshRoute'
    BY <1>1, <1>3 DEF IInv, FreshRoute, AcceptFresh, WithholdOffer
  <2> QED BY <1>0, <1>2, <2>1, <2>2, <2>3 DEF IInv
<1>4. CASE MakeOffer(conn + 1)
  <2>1. conn + 1 \notin told /\ registry' = {conn + 1}
    <3>1. conn + 1 \notin told
      BY <1>1 DEF IInv, CookiesIssued
    <3>2. registry' = {conn + 1}
      BY <1>1, <1>4 DEF MakeOffer
    <3> QED BY <3>1, <3>2
  <2>2. FlagsRouted'
    BY <1>4, <2>1 DEF IInv, FlagsRouted, Present, AcceptFresh, MakeOffer
  <2>3. FlagsHeld'
    BY <1>4 DEF IInv, TypeOK, FlagsHeld, AcceptFresh, MakeOffer
  <2>4. TakenFresh'
    BY <1>4, <2>1 DEF IInv, TakenFresh, Present, AcceptFresh, MakeOffer, NothingTaken
  <2>5. CookiesIssued'
    BY <1>1, <1>4, <2>1 DEF IInv, CookiesIssued, AcceptFresh, MakeOffer
  <2>6. FreshRoute'
    BY <1>4 DEF FreshRoute, AcceptFresh, MakeOffer
  <2> QED BY <1>0, <1>2, <2>2, <2>3, <2>4, <2>5, <2>6 DEF IInv
<1> QED BY <1>3, <1>4 DEF AcceptFresh

\* Every other step of the accept loop and of the session.
LEMMA ServerInv == IInv /\ Server => IInv'
<1> SUFFICES ASSUME IInv, Server, ~AcceptFresh PROVE IInv'
  BY AcceptFreshInv
<1>0. TypeOK'
  BY TypeServer DEF IInv
<1>1. CASE AcceptNegotiated
  <2>1. FlagsRouted' /\ FlagsHeld' /\ TakenFresh'
    BY <1>1, Quiet DEF IInv, AcceptNegotiated
  <2>2. CookiesIssued'
    BY <1>1, BoundsAssumption DEF IInv, TypeOK, Cookie, CookiesIssued, AcceptNegotiated
  <2>3. EgfxAfterSoftSync' /\ FreshRoute'
    BY <1>1 DEF IInv, EgfxAfterSoftSync, FreshRoute, AcceptNegotiated
  <2> QED BY <1>0, <2>1, <2>2, <2>3 DEF IInv
<1>2. CASE SendOffer
  <2>1. FlagsRouted' /\ FlagsHeld' /\ TakenFresh'
    BY <1>2, Quiet DEF IInv, SendOffer
  <2>2. CookiesIssued'
    BY <1>2, BoundsAssumption DEF IInv, TypeOK, CookiesIssued, SendOffer
  <2>3. EgfxAfterSoftSync' /\ FreshRoute'
    BY <1>2 DEF IInv, EgfxAfterSoftSync, FreshRoute, SendOffer
  <2> QED BY <1>0, <2>1, <2>2, <2>3 DEF IInv
<1>3. CASE Activate
  <2>1. FlagsRouted' /\ FlagsHeld' /\ TakenFresh'
    BY <1>3, Quiet DEF IInv, Activate
  <2>2. CookiesIssued'
    BY <1>3 DEF IInv, CookiesIssued, Activate
  <2>3. EgfxAfterSoftSync'
    BY <1>3 DEF IInv, EgfxAfterSoftSync, Activate
  <2>4. FreshRoute'
    BY <1>3 DEF IInv, EgfxAfterSoftSync, FreshRoute, Activate
  <2> QED BY <1>0, <2>1, <2>2, <2>3, <2>4 DEF IInv
<1>4. CASE Reactivate
  <2>1. FlagsRouted' /\ FlagsHeld' /\ TakenFresh'
    BY <1>4, Quiet DEF IInv, Reactivate
  <2>2. CookiesIssued' /\ EgfxAfterSoftSync' /\ FreshRoute'
    BY <1>4 DEF IInv, CookiesIssued, EgfxAfterSoftSync, FreshRoute, Reactivate
  <2> QED BY <1>0, <2>1, <2>2 DEF IInv
<1>5. CASE EgfxFrame
  <2>1. FlagsRouted' /\ FlagsHeld' /\ TakenFresh'
    BY <1>5, Quiet DEF IInv, EgfxFrame
  <2>2. CookiesIssued'
    BY <1>5 DEF IInv, CookiesIssued, EgfxFrame
  <2>3. EgfxAfterSoftSync'
    BY <1>5 DEF IInv, TypeOK, EgfxAfterSoftSync, EgfxFrame, SoftSyncOnEgfx
  <2>4. FreshRoute'
    BY <1>5, RaisedTold DEF IInv, FreshRoute, EgfxFrame, SoftSyncOnEgfx
  <2> QED BY <1>0, <2>1, <2>2, <2>3, <2>4 DEF IInv
<1>6. CASE AcksSilent
  <2>1. FlagsRouted' /\ FlagsHeld' /\ TakenFresh'
    BY <1>6, Quiet DEF IInv, AcksSilent
  <2>2. CookiesIssued' /\ EgfxAfterSoftSync' /\ FreshRoute'
    BY <1>6 DEF IInv, CookiesIssued, EgfxAfterSoftSync, FreshRoute, AcksSilent
  <2> QED BY <1>0, <2>1, <2>2 DEF IInv
<1>7. CASE InitiateResponse
  <2>1. FlagsRouted' /\ FlagsHeld' /\ TakenFresh'
    BY <1>7, Quiet DEF IInv, InitiateResponse
  <2>2. CookiesIssued' /\ EgfxAfterSoftSync' /\ FreshRoute'
    BY <1>7 DEF IInv, CookiesIssued, EgfxAfterSoftSync, FreshRoute, InitiateResponse
  <2> QED BY <1>0, <2>1, <2>2 DEF IInv
<1>8. CASE SessionEnds
  <2>1. FlagsRouted' /\ FlagsHeld' /\ TakenFresh'
    BY <1>8, Quiet DEF IInv, SessionEnds
  <2>2. CookiesIssued' /\ EgfxAfterSoftSync' /\ FreshRoute'
    BY <1>8 DEF IInv, CookiesIssued, EgfxAfterSoftSync, FreshRoute, SessionEnds
  <2> QED BY <1>0, <2>1, <2>2 DEF IInv
<1>9. CASE EvictOffer
  <2>1. FlagsRouted' /\ FlagsHeld' /\ TakenFresh'
    BY <1>9, Quiet DEF IInv, EvictOffer, EvictCurrent
  <2>2. CookiesIssued'
    BY <1>9, BoundsAssumption DEF IInv, TypeOK, CookiesIssued, EvictOffer, EvictCurrent
  <2>3. EgfxAfterSoftSync' /\ FreshRoute'
    BY <1>9 DEF IInv, EgfxAfterSoftSync, FreshRoute, EvictOffer
  <2> QED BY <1>0, <2>1, <2>2, <2>3 DEF IInv
<1> QED
  BY <1>1, <1>2, <1>3, <1>4, <1>5, <1>6, <1>7, <1>8, <1>9 DEF Server

-----------------------------------------------------------------------------
LEMMA ClientsInv == IInv /\ Clients => IInv'
<1> SUFFICES ASSUME IInv, NEW a \in Addr, OpenFlow(a) \/ FlowOpens(a) \/ GoesSilent(a)
             PROVE  IInv'
  BY DEF Clients
<1>0. TypeOK'
  BY TypeClients DEF IInv, Clients
<1>1. UNCHANGED <<serverVars, registry, bound, cooldown, listenerVars, told>>
  BY DEF OpenFlow, FlowOpens, GoesSilent
<1>2. FlagsRouted' /\ FlagsHeld' /\ TakenFresh'
  BY <1>1, Quiet DEF IInv
<1>3. EgfxAfterSoftSync' /\ FreshRoute'
  BY <1>1 DEF IInv, EgfxAfterSoftSync, FreshRoute
<1>4. CookiesIssued'
  <2>1. \A b \in Addr : flow'[b].cookie \in {flow[b].cookie, conn}
    BY DEF IInv, TypeOK, OpenFlow, FlowOpens, GoesSilent
  <2>2. OpenFlow(a) => conn \in told
    BY DEF OpenFlow
  <2>3. \A b \in Addr : ~OpenFlow(a) => flow'[b].cookie = flow[b].cookie
    BY DEF IInv, TypeOK, FlowOpens, GoesSilent
  <2> QED BY <1>1, <2>1, <2>2, <2>3 DEF IInv, CookiesIssued
<1> QED BY <1>0, <1>2, <1>3, <1>4 DEF IInv

\* Removing peers, each with its flag lowered and its cookies unrouted.
LEMMA Removal ==
  ASSUME IInv, NEW gone \in SUBSET Addr,
         bound' = LowerFlagsOf(gone), boundAddr' = Without(gone),
         peer' \in [Addr -> Peer],
         \A a \in gone : peer'[a].flag = 0,
         \A a \in Addr \ gone :
           /\ peer'[a].flag = peer[a].flag
           /\ peer[a].flag # 0 => /\ peer'[a].inc = peer[a].inc
                                  /\ peer'[a].stage = peer[a].stage,
         UNCHANGED <<registry, told, taken>>,
         taken = NothingTaken
  PROVE  FlagsRouted' /\ FlagsHeld' /\ TakenFresh'
<1>1. FlagsRouted'
  <2> SUFFICES ASSUME NEW a \in Addr, peer'[a].flag # 0
               PROVE  /\ peer'[a].inc # 0
                      /\ peer'[a].stage = "created" /\ boundAddr'[peer'[a].flag] = a
                      /\ peer'[a].flag \notin registry /\ taken.cookie # peer'[a].flag
                      /\ peer'[a].flag \in told
    BY DEF FlagsRouted, Present
  <2>1. a \notin gone /\ peer'[a].flag = peer[a].flag /\ peer'[a].stage = peer[a].stage
        /\ peer'[a].inc = peer[a].inc
    OBVIOUS
  <2>2. peer[a].flag \in Cookie
    BY <2>1, BoundsAssumption DEF IInv, TypeOK, Peer, Cookie
  <2> QED BY <2>1, <2>2 DEF IInv, FlagsRouted, Without, Present, TypeOK
<1>2. FlagsHeld'
  BY DEF IInv, FlagsHeld, LowerFlagsOf
<1>3. TakenFresh'
  BY DEF TakenFresh, NothingTaken
<1> QED BY <1>1, <1>2, <1>3

LEMMA ListenerInv == IInv /\ Listener => IInv'
<1> SUFFICES ASSUME IInv, Listener PROVE IInv'
  OBVIOUS
<1>0. TypeOK' /\ TypeOK
  BY TypeListener DEF IInv
<1>1. UNCHANGED <<serverVars, told, flow>> /\ registry' \subseteq registry
  BY DEF Listener, SynArrives, DatagramArrives, TakeCookie, Consume, RaiseFlag, Tick,
         clientVars
<1>2. CookiesIssued' /\ EgfxAfterSoftSync' /\ FreshRoute'
  BY <1>1 DEF IInv, CookiesIssued, EgfxAfterSoftSync, FreshRoute
<1>3. ASSUME NEW a \in Addr, SynArrives(a) PROVE FlagsRouted' /\ FlagsHeld' /\ TakenFresh'
  <2>0. taken = NothingTaken /\ UNCHANGED <<registry, told, taken>>
    BY <1>3 DEF SynArrives, ListenerIdle
  <2>1. CASE Present(a) /\ peer[a].stage = "listen"
    <3>0. peer' = [peer EXCEPT ![a] =
                     [peer[a] EXCEPT !.stage = "established", !.idle = 0]]
      BY <1>3, <2>1 DEF SynArrives
    <3>1. /\ UNCHANGED <<bound, boundAddr>>
          /\ \A b \in Addr : peer'[b].flag = peer[b].flag
          /\ \A b \in Addr : b # a => peer'[b] = peer[b]
      BY <1>0, <1>3, <2>1, <3>0 DEF SynArrives, TypeOK, Peer
    <3>2. peer[a].flag = 0
      BY <2>1 DEF IInv, FlagsRouted
    <3> QED BY <2>0, <3>1, <3>2 DEF IInv, FlagsRouted, Present, FlagsHeld, TakenFresh, NothingTaken
  <2>2. CASE ~(Present(a) /\ peer[a].stage = "listen")
    <3>1. /\ bound' = LowerFlagsOf({a}) /\ boundAddr' = Without({a})
          /\ peer' = [peer EXCEPT ![a] = Replaced(a)]
      BY <1>3, <2>2 DEF SynArrives
    <3>2. peer'[a].flag = 0 /\ \A b \in Addr : b # a => peer'[b] = peer[b]
      BY <1>0, <3>1 DEF TypeOK, Replaced, NewPeer
    <3> QED BY <1>0, <2>0, <3>1, <3>2, Removal DEF TypeOK
  <2> QED BY <2>1, <2>2
<1>4. ASSUME NEW a \in Addr, DatagramArrives(a)
      PROVE  FlagsRouted' /\ FlagsHeld' /\ TakenFresh'
  <2>1. /\ UNCHANGED <<bound, boundAddr, registry, told, taken>>
        /\ taken = NothingTaken
    BY <1>4 DEF DatagramArrives, ListenerIdle
  <2>2. CASE Present(a)
    <3>1. \A b \in Addr : /\ peer'[b].flag = peer[b].flag /\ peer'[b].inc = peer[b].inc
                           /\ peer'[b].stage = peer[b].stage
      BY <1>0, <1>4, <2>2 DEF DatagramArrives, TypeOK, Peer
    <3> QED BY <2>1, <3>1 DEF IInv, FlagsRouted, Present, FlagsHeld, TakenFresh, NothingTaken
  <2>3. CASE ~Present(a)
    <3>1. /\ peer'[a].flag = 0 
          /\ \A b \in Addr : b # a => peer'[b] = peer[b]
      BY <1>0, <1>4, <2>3 DEF DatagramArrives, TypeOK, NewPeer
    <3>2. peer[a].flag = 0
      BY <2>3 DEF IInv, FlagsRouted
    <3> QED BY <2>1, <3>1, <3>2 DEF IInv, FlagsRouted, Present, FlagsHeld, TakenFresh, NothingTaken
  <2> QED BY <2>2, <2>3
<1>5. ASSUME NEW a \in Addr, TakeCookie(a) PROVE FlagsRouted' /\ FlagsHeld' /\ TakenFresh'
  <2>1. \A b \in Addr : /\ peer'[b].flag = peer[b].flag /\ peer'[b].inc = peer[b].inc
                         /\ peer'[b].stage = peer[b].stage
    BY <1>0, <1>5 DEF TakeCookie, TypeOK, Peer
  <2>2. peer[a].flag = 0 /\ UNCHANGED <<bound, boundAddr, told>>
    BY <1>5 DEF TakeCookie, IInv, FlagsRouted
  <2>3. /\ taken' = [addr |-> a, cookie |-> flow[a].cookie]
        /\ registry' = registry \ {flow[a].cookie}
        /\ flow[a].cookie \in registry /\ flow[a].cookie # 0
    BY <1>0, <1>5 DEF TakeCookie, Consume, TypeOK, Cookie
  <2>4. flow[a].cookie \in told
    BY <2>3 DEF IInv, CookiesIssued
  <2>5. FlagsRouted'
    BY <2>1, <2>2, <2>3 DEF IInv, FlagsRouted, Present
  <2>6. FlagsHeld' /\ TakenFresh'
    BY <1>5, <2>1, <2>2, <2>3, <2>4 DEF IInv, FlagsHeld, TakenFresh, Present, TakeCookie
  <2> QED BY <2>5, <2>6
<1>6. ASSUME RaiseFlag PROVE FlagsRouted' /\ FlagsHeld' /\ TakenFresh'
  <2>1. /\ taken.addr \in Addr /\ taken.cookie \in told /\ taken.cookie \notin registry
        /\ peer[taken.addr].flag = 0 /\ taken.cookie \in Cookie /\ taken.cookie # 0
        /\ Present(taken.addr)
    BY <1>0, <1>6 DEF IInv, TakenFresh, RaiseFlag, ListenerIdle, TypeOK, Cookie
  <2>2. /\ peer'[taken.addr].flag = taken.cookie
        /\ peer'[taken.addr].stage = "created" /\ peer'[taken.addr].inc = peer[taken.addr].inc
        /\ \A b \in Addr : b # taken.addr => peer'[b] = peer[b]
    BY <1>0, <1>6, <2>1 DEF RaiseFlag, TypeOK, Peer
  <2>3. /\ bound' = [bound EXCEPT ![taken.cookie] = TRUE]
        /\ boundAddr' = [boundAddr EXCEPT ![taken.cookie] = taken.addr]
        /\ taken' = NothingTaken /\ UNCHANGED <<registry, told>>
    BY <1>6 DEF RaiseFlag
  <2>4. taken'.cookie = 0
    BY <2>3 DEF NothingTaken
  <2>5. FlagsRouted'
    <3> SUFFICES ASSUME NEW a \in Addr, peer'[a].flag # 0
                 PROVE  /\ Present(a)' /\ peer'[a].stage = "created" /\ boundAddr'[peer'[a].flag] = a
                        /\ peer'[a].flag \notin registry' /\ taken'.cookie # peer'[a].flag
                        /\ peer'[a].flag \in told'
      BY DEF FlagsRouted
    <3>1. CASE a = taken.addr
      BY <1>0, <2>1, <2>2, <2>3, <2>4, <3>1 DEF TypeOK, Present
    <3>2. CASE a # taken.addr
      <4>1. peer'[a] = peer[a] /\ peer[a].flag \in Cookie /\ peer[a].flag # taken.cookie
        BY <1>0, <2>2, <3>2, BoundsAssumption DEF IInv, FlagsRouted, TypeOK, Peer, Cookie
      <4> QED BY <1>0, <2>3, <2>4, <4>1 DEF IInv, FlagsRouted, TypeOK, Present
    <3> QED BY <3>1, <3>2
  <2>6. FlagsHeld'
    <3> SUFFICES ASSUME NEW c \in Cookie, bound'[c]
                 PROVE  \E b \in Addr : peer'[b].flag = c
      BY DEF FlagsHeld
    <3>1. CASE c = taken.cookie
      BY <2>1, <2>2, <3>1
    <3>2. CASE c # taken.cookie
      <4>1. PICK b \in Addr : peer[b].flag = c
        BY <1>0, <2>3, <3>2 DEF IInv, FlagsHeld, TypeOK
      <4>2. b # taken.addr
        BY <2>1, <4>1 DEF Cookie
      <4> QED BY <2>2, <4>1, <4>2
    <3> QED BY <3>1, <3>2
  <2>7. TakenFresh'
    BY <2>3 DEF TakenFresh, NothingTaken
  <2> QED BY <2>5, <2>6, <2>7
<1>7. ASSUME Tick PROVE FlagsRouted' /\ FlagsHeld' /\ TakenFresh'
  <2> DEFINE gone == Retired \cup Collected
  <2>1. /\ bound' = LowerFlagsOf(gone) /\ boundAddr' = Without(gone)
        /\ UNCHANGED <<registry, told, taken>> /\ taken = NothingTaken
        /\ gone \in SUBSET Addr
    BY <1>7 DEF Tick, ListenerIdle, Retired, Collected
  <2>2. \A a \in gone : peer'[a].flag = 0
    BY <1>7, <2>1 DEF Tick, NoPeer
  <2>3. ASSUME NEW a \in Addr \ gone
        PROVE  /\ peer'[a].flag = peer[a].flag
               /\ peer[a].flag # 0 => /\ peer'[a].inc = peer[a].inc
                                      /\ peer'[a].stage = peer[a].stage
    <3>1. CASE Present(a)
      BY <1>0, <1>7, <2>3, <3>1 DEF Tick, TypeOK, Peer
    <3>2. CASE ~Present(a)
      BY <1>7, <3>2 DEF Tick, NoPeer, IInv, FlagsRouted
    <3> QED BY <3>1, <3>2
  <2> HIDE DEF gone
  <2> QED BY <1>0, <2>1, <2>2, <2>3, Removal DEF TypeOK
<1>8. FlagsRouted' /\ FlagsHeld' /\ TakenFresh'
  BY <1>3, <1>4, <1>5, <1>6, <1>7 DEF Listener
<1> QED BY <1>0, <1>2, <1>8 DEF IInv

-----------------------------------------------------------------------------
LEMMA IInvStep == IInv /\ [Next]_vars => IInv'
<1>1. IInv /\ UNCHANGED vars => IInv'
  BY DEF IInv, TypeOK, FlagsRouted, FlagsHeld, TakenFresh, CookiesIssued,
         EgfxAfterSoftSync, FreshRoute, Present, NothingTaken
<1> QED BY <1>1, ServerInv, ListenerInv, ClientsInv DEF Next

\* The conjunction of the parts above is an invariant.
THEOREM Invariance == Spec => []IInv
BY IInvInit, IInvStep, PTL DEF Spec

\* Every variable keeps its type, and the entries of peers agree with bound_addrs,
\* whatever flows come back on used ports.
THEOREM EntriesAreFit == Spec => []EntriesFit
<1>1. IInv => EntriesFit
  BY DEF IInv, FlagsRouted, EntriesFit, EntriesAgree
<1> QED BY <1>1, Invariance, PTL

\* No flag is ever up without the peer that holds it and the route to that peer:
\* whichever of the three removal sites removes a peer also lowers its flag.
THEOREM BoundFlagsHaveTunnels == Spec => []BoundImpliesTunnel
<1>1. IInv => BoundImpliesTunnel
  BY DEF IInv, TypeOK, FlagsHeld, FlagsRouted, BoundImpliesTunnel, Cookie
<1> QED BY <1>1, Invariance, PTL

\* However often a CREATEREQUEST is repeated and from wherever, a cookie opens at
\* most one tunnel.
THEOREM CookiesAreOneTime == Spec => []OneTunnelPerCookie
<1>1. IInv => OneTunnelPerCookie
  BY DEF IInv, FlagsRouted, OneTunnelPerCookie
<1> QED BY <1>1, Invariance, PTL

\* No cookie outlives its connection in the registry.
THEOREM CookiesDoNotLeak == Spec => []RegistryOnlyCurrent
<1>1. IInv => RegistryOnlyCurrent
  BY DEF IInv, TypeOK, Cookie, CookiesIssued, RegistryOnlyCurrent
<1> QED BY <1>1, Invariance, PTL

\* A connection accepted afresh never ships over its predecessor's tunnel.
THEOREM FreshSessionsOwnTheirTunnel == Spec => []SessionOwnsItsTunnel
<1>1. IInv => SessionOwnsItsTunnel
  BY RaisedTold DEF IInv, FreshRoute, SessionOwnsItsTunnel, AudioOnUdp
<1> QED BY <1>1, Invariance, PTL

\* The watchdog's decision is final for the connection.
THEOREM DemigrationIsFinal == Spec => DemigrateIsFinal
<1>1. ASSUME IInv, [Next]_vars
      PROVE  [demigrate /\ egfxOnUdp' => egfxOnUdp]_vars
  <2> SUFFICES ASSUME demigrate, ~egfxOnUdp PROVE ~egfxOnUdp' \/ UNCHANGED vars
    OBVIOUS
  <2>1. softSync \/ migration = 0
    BY <1>1 DEF IInv, EgfxAfterSoftSync
  <2>2. CASE EgfxFrame
    BY <2>1, <2>2 DEF EgfxFrame, SoftSyncOnEgfx
  <2>3. CASE Server /\ ~EgfxFrame
    BY <1>1, <2>3 DEF IInv, TypeOK, Server, AcceptFresh, AcceptNegotiated, SendOffer, Activate,
      Reactivate, AcksSilent, InitiateResponse, SessionEnds, EvictOffer
  <2>4. CASE Listener
    BY <1>1, <2>4 DEF Listener, SynArrives, DatagramArrives, TakeCookie, RaiseFlag, Tick
  <2>5. CASE Clients
    BY <1>1, <2>5 DEF Clients, OpenFlow, FlowOpens, GoesSilent
  <2> QED BY <1>1, <2>2, <2>3, <2>4, <2>5 DEF Next
<1> QED BY <1>1, Invariance, PTL DEF Spec, DemigrateIsFinal

\* The four invariants together, for any number of addresses, connections, peer
\* entries and any thresholds.
THEOREM BindingIsSafe == Spec => []BindingSafe
BY BoundFlagsHaveTunnels, CookiesAreOneTime, CookiesDoNotLeak, FreshSessionsOwnTheirTunnel, PTL
   DEF BindingSafe
=============================================================================
