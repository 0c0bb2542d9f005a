--------------------------- MODULE TunnelBinding ---------------------------
(***************************************************************************)
(* The UDP multitransport side of macrdp: how a TCP session's offer cookie *)
(* becomes a bound UDP tunnel, and how that tunnel is given up again.      *)
(*                                                                         *)
(* Three actors share state and run on different threads of the tokio      *)
(* runtime: the accept loop of RdpServer (server.rs), the process-global   *)
(* UDP listener task (multitransport/listener.rs), and the clients.  They  *)
(* meet in the CookieRegistry (multitransport/mod.rs), a mutex-protected   *)
(* map, and in one AtomicBool per cookie, the tunnel-bound flag.           *)
(*                                                                         *)
(* A cookie is named by the number of the connection it was issued to; 0   *)
(* stands for None wherever the code has an Option.                        *)
(***************************************************************************)
EXTENDS Integers

CONSTANTS
  Addr,           \* UDP source addresses the clients send from
  NoAddr,         \* "no entry" in bound_addrs
  MaxConns,       \* bound: TCP connections served
  MaxInc,         \* bound: peer entries the listener ever creates
  DeadTicks,      \* tunnel_dead_ms, in ticks; 0 disables death detection
  GcTicks,        \* PEER_IDLE_TIMEOUT_MS, in ticks
  CooldownTicks   \* mt_cooldown_secs, in ticks

ASSUME NoAddrAssumption == NoAddr \notin Addr
ASSUME BoundsAssumption == MaxConns \in Nat /\ MaxInc \in Nat
ASSUME ThresholdsAssumption ==
  /\ DeadTicks \in Nat /\ GcTicks \in Nat /\ CooldownTicks \in Nat
  /\ DeadTicks < GcTicks       \* the clamp at the top of run_recv_loop

VARIABLES
  \* the accept loop (RdpServer)
  srv,            \* "idle", "accepting", "active" or "lowered" (half-way out)
  conn,           \* number of the connection being (or last) served
  negotiated,     \* it was taken over from a preemption candidate: no offer
  offerCookie,    \* current_offer_cookie
  migration,      \* multitransport_migration's cookie
  softSync,       \* multitransport_migration's soft_sync_sent
  boundRef,       \* udp_tunnel_bound: the cookie whose flag it points to
  inboundRx,      \* multitransport_tunnel_inbound_rx: "none", "held" in the
                  \* field, or "drained" by the running client_loop
  egfxOnUdp,      \* egfx_on_udp
  demigrate,      \* demigrate_request, raised by the H.264 pipeline
  lossyAudio,     \* multitransport_lossy_audio_formats is Some (start-up option)
  \* shared between the two tasks
  registry,       \* CookieRegistry.entries: cookies issued, not yet consumed
  bound,          \* the tunnel-bound AtomicBool of every cookie
  cooldown,       \* ticks until CookieRegistry.suppressed_until
  \* the listener task
  peer,           \* peers: one entry per source address
  boundAddr,      \* bound_addrs: cookie -> address
  counter,        \* session_counter
  taken,          \* cookie removed from the registry, its flag not yet raised
  \* the clients and the network
  told,           \* cookies that reached a client in an Initiate Request
  flow,           \* what the client at an address believes about its flow
  synacks,        \* peer incarnations whose SYN+ACK is on its way to that flow
  silent          \* addresses whose host or path is gone for good

serverVars   == <<srv, conn, negotiated, offerCookie, migration, softSync,
                  boundRef, inboundRx, egfxOnUdp, demigrate, lossyAudio>>
listenerVars == <<peer, boundAddr, counter, taken>>
clientVars   == <<flow, synacks, silent>>
vars == <<serverVars, registry, bound, cooldown, listenerVars, told, clientVars>>

-----------------------------------------------------------------------------
Cookie == 1..MaxConns

\* An entry of peers: which one it is (0: none), how far it got (sm still in
\* Listen, is_established(), tunnel_created), bound_flag and the ticks since
\* last_seen_ms.
Stage == {"listen", "established", "created"}
Peer == [inc : 0..MaxInc, stage : Stage, flag : 0..MaxConns,
         idle : 0..(GcTicks + 1)]
NoPeer == [inc |-> 0, stage |-> "listen", flag |-> 0, idle |-> 0]
Present(a) == peer[a].inc # 0

\* A fresh entry of peers, after the datagram that created it.
NewPeer(inc, stage) == [inc |-> inc, stage |-> stage, flag |-> 0, idle |-> 0]

\* Mutant: a SYN replaces the entry's state machine, and nothing else of it.
NewMachine(a) ==
  [peer[a] EXCEPT !.inc = counter + 1, !.stage = "established", !.idle = 0]

\* A SYN on an established peer replaces the whole entry: the tunnel it may have
\* had is not the new flow's.
Replaced(a) == NewPeer(counter + 1, "established")

Flow == [st : {"none", "syn", "open"}, cookie : 0..MaxConns, inc : 0..MaxInc]
NoFlow == [st |-> "none", cookie |-> 0, inc |-> 0]

TypeOK ==
  /\ srv \in {"idle", "accepting", "active", "lowered"}
  /\ conn \in 0..MaxConns
  /\ negotiated \in BOOLEAN
  /\ offerCookie \in 0..MaxConns
  /\ migration \in 0..MaxConns
  /\ softSync \in BOOLEAN
  /\ boundRef \in 0..MaxConns
  /\ inboundRx \in {"none", "held", "drained"}
  /\ egfxOnUdp \in BOOLEAN
  /\ demigrate \in BOOLEAN
  /\ lossyAudio \in BOOLEAN
  /\ registry \subseteq Cookie
  /\ bound \in [Cookie -> BOOLEAN]
  /\ cooldown \in 0..CooldownTicks
  /\ peer \in [Addr -> Peer]
  /\ boundAddr \in [Cookie -> Addr \cup {NoAddr}]
  /\ counter \in 0..MaxInc
  /\ taken \in [addr : Addr \cup {NoAddr}, cookie : 0..MaxConns]
  /\ told \subseteq Cookie
  /\ flow \in [Addr -> Flow]
  /\ synacks \in [Addr -> SUBSET (1..MaxInc)]
  /\ silent \subseteq Addr

NothingTaken == [addr |-> NoAddr, cookie |-> 0]

Init ==
  /\ srv = "idle" /\ conn = 0 /\ negotiated = FALSE
  /\ offerCookie = 0 /\ migration = 0 /\ softSync = FALSE /\ boundRef = 0
  /\ inboundRx = "none" /\ egfxOnUdp = FALSE /\ demigrate = FALSE
  /\ lossyAudio \in BOOLEAN
  /\ registry = {} /\ bound = [c \in Cookie |-> FALSE] /\ cooldown = 0
  /\ peer = [a \in Addr |-> NoPeer]
  /\ boundAddr = [c \in Cookie |-> NoAddr]
  /\ counter = 0 /\ taken = NothingTaken
  /\ told = {}
  /\ flow = [a \in Addr |-> NoFlow]
  /\ synacks = [a \in Addr |-> {}]
  /\ silent = {}

-----------------------------------------------------------------------------
(* The accept loop.                                                        *)

\* bound[c], with a None reference reading as false.
Raised(c) == c # 0 /\ bound[c]

\* run_connection, when no offer goes out because of the cooldown or of the
\* RTT gate: everything the previous connection left behind is cleared.
WithholdOffer ==
  /\ registry' = registry \ {migration}
  /\ migration' = 0 /\ softSync' = FALSE /\ boundRef' = 0
  /\ inboundRx' = "none"
  /\ UNCHANGED <<offerCookie, bound>>

\* run_connection with an offer: the previous cookie is evicted, the new one
\* registered with a fresh flag.  multitransport_migration is left alone.
MakeOffer(c) ==
  /\ registry' = (registry \ {migration}) \cup {c}
  /\ bound' = [bound EXCEPT ![c] = FALSE]
  /\ boundRef' = c /\ offerCookie' = c /\ inboundRx' = "held"
  /\ UNCHANGED <<migration, softSync>>

\* A fresh TCP connection: run_connection up to the connection sequence.
AcceptFresh ==
  /\ srv = "idle" /\ conn < MaxConns
  /\ conn' = conn + 1 /\ srv' = "accepting" /\ negotiated' = FALSE
  /\ \E rttGated \in BOOLEAN :
       IF cooldown > 0 \/ rttGated THEN WithholdOffer ELSE MakeOffer(conn + 1)
  /\ UNCHANGED <<egfxOnUdp, demigrate, lossyAudio, cooldown, listenerVars,
                 told, clientVars>>

\* A preemption winner: serve_negotiated resumes at finalization and never
\* touches the multitransport state.
AcceptNegotiated ==
  /\ srv = "idle" /\ 0 < conn /\ conn < MaxConns
  /\ conn' = conn + 1 /\ srv' = "accepting" /\ negotiated' = TRUE
  /\ UNCHANGED <<offerCookie, migration, softSync, boundRef, inboundRx,
                 egfxOnUdp, demigrate, lossyAudio, registry, bound, cooldown,
                 listenerVars, told, clientVars>>

\* The acceptor emits the Initiate Multitransport Request, if the client
\* advertised the transport.
SendOffer ==
  /\ srv = "accepting" /\ offerCookie = conn /\ conn # 0
  /\ told' = told \cup {conn}
  /\ UNCHANGED <<serverVars, registry, bound, cooldown, listenerVars, clientVars>>

\* client_accepted: the migration state follows what the acceptor offered, and
\* client_loop takes the inbound receiver.
Activate ==
  /\ srv = "accepting"
  /\ srv' = "active"
  /\ IF conn \in told
       THEN migration' = conn /\ softSync' = FALSE
       ELSE UNCHANGED <<migration, softSync>>
  /\ inboundRx' = IF inboundRx = "held" THEN "drained" ELSE "none"
  /\ UNCHANGED <<conn, negotiated, offerCookie, boundRef, egfxOnUdp, demigrate,
                 lossyAudio, registry, bound, cooldown, listenerVars, told,
                 clientVars>>

\* A deactivation-reactivation (resize): client_loop ends, dropping the receiver
\* it took, and a new client_loop finds the field empty.
Reactivate ==
  /\ srv = "active"
  /\ inboundRx' = "none"
  /\ UNCHANGED <<srv, conn, negotiated, offerCookie, migration, softSync,
                 boundRef, egfxOnUdp, demigrate, lossyAudio, registry, bound,
                 cooldown, listenerVars, told, clientVars>>

\* Mutant: the Soft-Sync may be sent again.
SoftSyncRepeats(moves) ==
  LET due == Raised(boundRef) /\ migration # 0 /\ (lossyAudio => ~negotiated)
  IN softSync' = (softSync \/ due) /\ egfxOnUdp' = (due /\ ~lossyAudio /\ moves)

\* maybe_soft_sync_on_egfx: once the tunnel is bound the Soft-Sync goes out, at
\* most once per request.  It moves the lossy audio channel when that is
\* configured (a candidate never registered it, so there nothing is sent), else
\* EGFX if the option is on and its channel is found, else no channel at all.
SoftSyncOnEgfx(moves) ==
  LET due == /\ Raised(boundRef) /\ migration # 0 /\ ~softSync
             /\ lossyAudio => ~negotiated
  IN /\ softSync' = (softSync \/ due)
     /\ egfxOnUdp' = (due /\ ~lossyAudio /\ moves)

\* One EGFX message leaves the event loop: over the tunnel while EGFX is on UDP,
\* unless the watchdog asked for TCP; over TCP otherwise.
EgfxFrame ==
  /\ srv = "active"
  /\ IF egfxOnUdp /\ ~demigrate
       THEN UNCHANGED <<softSync, egfxOnUdp>>
       ELSE \E moves \in BOOLEAN : SoftSyncOnEgfx(moves)
  /\ UNCHANGED <<srv, conn, negotiated, offerCookie, migration, boundRef,
                 inboundRx, demigrate, lossyAudio, registry, bound, cooldown,
                 listenerVars, told, clientVars>>

\* The H.264 pipeline sees no acks while frames ship over UDP.
AcksSilent ==
  /\ srv = "active" /\ egfxOnUdp /\ ~demigrate
  /\ demigrate' = TRUE
  /\ UNCHANGED <<srv, conn, negotiated, offerCookie, migration, softSync,
                 boundRef, inboundRx, egfxOnUdp, lossyAudio, registry, bound,
                 cooldown, listenerVars, told, clientVars>>

\* maybe_handle_multitransport_response, for a matching request id: S_OK sends
\* an empty Soft-Sync once, a failure forgets the request.
InitiateResponse ==
  /\ srv = "active" /\ migration = conn /\ conn # 0
  /\ \E success \in BOOLEAN :
       /\ migration' = IF success THEN migration ELSE 0
       /\ softSync' = success
  /\ UNCHANGED <<srv, conn, negotiated, offerCookie, boundRef, inboundRx,
                 egfxOnUdp, demigrate, lossyAudio, registry, bound, cooldown,
                 listenerVars, told, clientVars>>

\* The connection is over, however it ended (a failure while accepting, a
\* disconnect, a preemption).  The post-connection reset first lowers the flag ...
SessionEnds ==
  /\ srv \in {"accepting", "active"}
  /\ srv' = "lowered"
  /\ egfxOnUdp' = FALSE /\ demigrate' = FALSE
  /\ inboundRx' = IF inboundRx = "drained" THEN "none" ELSE inboundRx
  /\ bound' = [c \in Cookie |-> bound[c] /\ c # boundRef]
  /\ UNCHANGED <<conn, negotiated, offerCookie, migration, softSync, boundRef,
                 lossyAudio, registry, cooldown, listenerVars, told, clientVars>>

\* The cookie taken out of current_offer_cookie leaves the registry.
EvictCurrent == registry \ {offerCookie}

\* ... and then evicts the offer cookie.  The listener runs on another thread
\* and may act between the two.
EvictOffer ==
  /\ srv = "lowered"
  /\ srv' = "idle"
  /\ registry' = EvictCurrent
  /\ offerCookie' = 0
  /\ UNCHANGED <<conn, negotiated, migration, softSync, boundRef, inboundRx,
                 egfxOnUdp, demigrate, lossyAudio, bound, cooldown,
                 listenerVars, told, clientVars>>

\* lossy_audio_target: an audio wave would go to the tunnel named by migration.
AudioOnUdp ==
  /\ srv = "active" /\ lossyAudio /\ ~negotiated
  /\ migration # 0 /\ Raised(boundRef)

-----------------------------------------------------------------------------
(* The listener task.  Its handlers run to completion one after the other; *)
(* only a cookie's consumption is split, at the mutex of the registry.     *)

ListenerIdle == taken = NothingTaken

\* bound_addrs.retain(|_, addr| addr not among the removed)
Without(addrs) ==
  [c \in Cookie |-> IF boundAddr[c] \in addrs THEN NoAddr ELSE boundAddr[c]]

\* Mutant: the flag of a removed peer stays as it is.
ForgetFlagsOf(addrs) == bound

\* Every flag a removed peer still holds is lowered.
LowerFlagsOf(addrs) ==
  [c \in Cookie |-> bound[c] /\ \A a \in addrs : peer[a].flag # c]

\* A SYN (the flow's first, a retransmission or a late copy).  A peer that is
\* established is replaced, its flag lowered and its bindings dropped; the
\* state machine is established by the first SYN and answers each with SYN+ACK.
SynArrives(a) ==
  /\ ListenerIdle
  /\ flow[a].st \in {"syn", "open"} /\ a \notin silent
  /\ IF Present(a) /\ peer[a].stage = "listen"
       THEN /\ peer' = [peer EXCEPT ![a].stage = "established", ![a].idle = 0]
            /\ UNCHANGED <<bound, boundAddr, counter>>
       ELSE /\ counter < MaxInc
            /\ counter' = counter + 1
            /\ peer' = [peer EXCEPT ![a] = Replaced(a)]
            /\ bound' = LowerFlagsOf({a})
            /\ boundAddr' = Without({a})
  /\ synacks' = [synacks EXCEPT ![a] = @ \cup {peer'[a].inc}]
  /\ UNCHANGED <<serverVars, registry, cooldown, taken, told, flow, silent>>

\* Any other datagram: liveness for the idle clock, and an entry of its own
\* (in Listen) when the address is unknown.
DatagramArrives(a) ==
  /\ ListenerIdle
  /\ flow[a].st = "open" /\ a \notin silent
  /\ IF Present(a)
       THEN peer' = [peer EXCEPT ![a].idle = 0] /\ UNCHANGED counter
       ELSE /\ counter < MaxInc
            /\ counter' = counter + 1
            /\ peer' = [peer EXCEPT ![a] = NewPeer(counter + 1, "listen")]
  /\ UNCHANGED <<serverVars, registry, bound, cooldown, boundAddr, taken, told,
                 clientVars>>

\* CookieRegistry.take, up to the release of its lock.
Consume(c) == registry \ {c}

\* handle_emt_tunnel on a CREATEREQUEST, which reaches it only over a flow whose
\* two ends agree on their sequence numbers.  CookieRegistry.take removes the
\* cookie under the lock; an unknown cookie is rejected without a trace.
TakeCookie(a) ==
  /\ ListenerIdle
  /\ flow[a].st = "open" /\ a \notin silent
  /\ Present(a) /\ peer[a].stage = "established" /\ peer[a].inc = flow[a].inc
  /\ flow[a].cookie \in registry
  /\ registry' = Consume(flow[a].cookie)
  /\ taken' = [addr |-> a, cookie |-> flow[a].cookie]
  /\ peer' = [peer EXCEPT ![a].idle = 0]
  /\ UNCHANGED <<serverVars, bound, cooldown, boundAddr, counter, told, clientVars>>

\* The rest of the same handler: the flag goes up outside the lock, the peer
\* keeps it, the tunnel is created and the cookie mapped to the address.
RaiseFlag ==
  /\ ~ListenerIdle
  /\ bound' = [bound EXCEPT ![taken.cookie] = TRUE]
  /\ peer' = [peer EXCEPT ![taken.addr].flag = taken.cookie,
                          ![taken.addr].stage = "created"]
  /\ boundAddr' = [boundAddr EXCEPT ![taken.cookie] = taken.addr]
  /\ taken' = NothingTaken
  /\ UNCHANGED <<serverVars, registry, cooldown, counter, told, clientVars>>

\* check_dead_tunnels: a peer holding a flag is retired when the server lowered
\* the flag, or when nothing arrived for longer than DeadTicks ...
IdleAfterTick(a) == IF peer[a].idle > GcTicks THEN peer[a].idle ELSE peer[a].idle + 1
TooSilent(a) == IdleAfterTick(a) > DeadTicks
Retired ==
  {a \in Addr : /\ DeadTicks # 0 /\ Present(a) /\ peer[a].flag # 0
                /\ ~bound[peer[a].flag] \/ TooSilent(a)}
\* Mutant: only peers with a tunnel are collected.
CollectedBound ==
  {a \in Addr : Present(a) /\ peer[a].flag # 0 /\ IdleAfterTick(a) > GcTicks}

\* ... and gc_idle_peers removes whoever stayed silent past GcTicks.
Collected == {a \in Addr : Present(a) /\ IdleAfterTick(a) > GcTicks}

\* A tunnel that died silent, also one whose session ended meanwhile, suppresses
\* the offers of the next CooldownTicks.
CooldownAfterTick ==
  IF \E a \in Retired : TooSilent(a) THEN CooldownTicks
  ELSE IF cooldown = 0 THEN 0 ELSE cooldown - 1

\* One unit of time and the timer that fires at its end: retired peers are
\* evicted at once.
Tick ==
  /\ ListenerIdle
  /\ LET gone == Retired \cup Collected
     IN /\ peer' = [a \in Addr |->
                      IF a \in gone \/ ~Present(a) THEN NoPeer
                      ELSE [peer[a] EXCEPT !.idle = IdleAfterTick(a)]]
        /\ bound' = LowerFlagsOf(gone)
        /\ boundAddr' = Without(gone)
  /\ cooldown' = CooldownAfterTick
  /\ UNCHANGED <<serverVars, registry, counter, taken, told, clientVars>>

-----------------------------------------------------------------------------
(* The clients.                                                            *)

\* A client that was told a cookie opens a flow for it from some address; the
\* address may be one that an earlier flow used.
OpenFlow(a) ==
  /\ a \notin silent
  /\ conn \in told /\ flow[a].cookie # conn
  /\ flow' = [flow EXCEPT ![a] = [st |-> "syn", cookie |-> conn, inc |-> 0]]
  /\ synacks' = [synacks EXCEPT ![a] = {}]
  /\ UNCHANGED <<serverVars, registry, bound, cooldown, listenerVars, told, silent>>

\* The first SYN+ACK to arrive fixes the peer incarnation the client talks to.
FlowOpens(a) ==
  /\ flow[a].st = "syn" /\ a \notin silent
  /\ \E i \in synacks[a] : flow' = [flow EXCEPT ![a] = [st |-> "open", cookie |-> @.cookie, inc |-> i]]
  /\ UNCHANGED <<serverVars, registry, bound, cooldown, listenerVars, told,
                 synacks, silent>>

\* The host or its UDP path disappears: nothing arrives from there any more.
GoesSilent(a) ==
  /\ silent' = silent \cup {a}
  /\ a \notin silent
  /\ UNCHANGED <<serverVars, registry, bound, cooldown, listenerVars, told,
                 flow, synacks>>

Server == \/ AcceptFresh \/ AcceptNegotiated \/ SendOffer \/ Activate
          \/ Reactivate \/ EgfxFrame \/ AcksSilent \/ InitiateResponse
          \/ SessionEnds \/ EvictOffer
Listener == \/ \E a \in Addr : SynArrives(a) \/ DatagramArrives(a) \/ TakeCookie(a)
            \/ RaiseFlag \/ Tick
Clients == \E a \in Addr : OpenFlow(a) \/ FlowOpens(a) \/ GoesSilent(a)

Next == Server \/ Listener \/ Clients

Spec == Init /\ [][Next]_vars

\* The retransmit tick is a tokio interval and the listener finishes what it
\* began; nothing is assumed of the clients or of the sessions.
FairSpec == Spec /\ WF_vars(Tick) /\ WF_vars(RaiseFlag)

-----------------------------------------------------------------------------
(* Properties.                                                             *)

\* What an entry of peers says agrees with itself and with bound_addrs: a flag is
\* held by an entry whose tunnel was created, and its cookie is routed there, so
\* that a flow which comes back on a used port starts without the old flow's
\* tunnel, flag and route.
EntriesAgree ==
  \A a \in Addr : peer[a].flag # 0 =>
    /\ Present(a) /\ peer[a].stage = "created"
    /\ boundAddr[peer[a].flag] = a

\* Every variable has its type, and the entries of peers are consistent.
EntriesFit == TypeOK /\ EntriesAgree

\* A raised flag always has a tunnel behind it: some peer holds the flag and the
\* cookie is routed to that peer's address, so that every place which removes a
\* peer (tunnel death, idle collection, a SYN on a reused port) also lowers the
\* flag and audio never goes to a peer that no longer exists.
BoundImpliesTunnel ==
  \A c \in Cookie :
    bound[c] => \E a \in Addr : peer[a].flag = c /\ boundAddr[c] = a

\* A cookie opens one tunnel: no two peers hold its flag, and once a peer holds
\* it the cookie is neither valid in the registry nor on its way to another.
OneTunnelPerCookie ==
  \A a \in Addr : LET c == peer[a].flag IN
    c # 0 => /\ c \notin registry /\ taken.cookie # c
             /\ \A b \in Addr : peer[b].flag = c => b = a

\* Only the cookie of the connection being served is ever valid: whatever way a
\* connection ended, its cookie is evicted before the next one is accepted.
RegistryOnlyCurrent ==
  /\ registry \subseteq {offerCookie}
  /\ srv = "idle" => registry = {}

\* A connection accepted afresh ships its channels over its own tunnel or over
\* none: neither one whose offer was withheld, nor one whose client did not want
\* the transport, ever uses the tunnel of the connection before it, whatever the
\* listener still does with that one.
SessionOwnsItsTunnel ==
  srv = "active" /\ ~negotiated /\ (egfxOnUdp \/ AudioOnUdp)
    => migration \in {0, conn}

\* Together: a cookie, its flag, the route and the session they are for belong to
\* each other at every step of every actor.
BindingSafe ==
  /\ BoundImpliesTunnel /\ OneTunnelPerCookie
  /\ RegistryOnlyCurrent /\ SessionOwnsItsTunnel

\* Once the watchdog took EGFX back to TCP it stays there until the connection
\* ends: the Soft-Sync that moved it can not be sent again.
DemigrateIsFinal == [][demigrate /\ egfxOnUdp' => egfxOnUdp]_vars

\* A client that has gone is noticed: the flag of a tunnel bound to it falls, and
\* with it the audio returns to TCP; and its entry is removed, bound or not.
SilenceIsNoticed ==
  /\ \A a \in Addr, c \in Cookie : a \in silent /\ peer[a].flag = c ~> ~bound[c]
  /\ \A a \in Addr : a \in silent ~> ~Present(a)

=============================================================================
