-------------------------- MODULE SessionHandover --------------------------
(***************************************************************************)
(* The accept loop of macrdp (RdpServer::run) and the takeover of a live   *)
(* session by a client that proves itself first.                           *)
(*                                                                         *)
(* While one connection is served, one newcomer at a time is negotiated    *)
(* beside it.  If it authenticates, the incumbent is told to leave through *)
(* the server-global event channel, given a grace period and replaced; if  *)
(* the incumbent leaves on its own, the newcomer gets a short hand-off     *)
(* period.  The connection handler (AuthGuardHandler) is called from both  *)
(* sides, and its authentication hook is not told which one calls.         *)
(*                                                                         *)
(* The event channel is a set: the events modelled end the session that    *)
(* takes them, whatever their order.                                       *)
(***************************************************************************)
EXTENDS Integers

CONSTANTS
  Ip,              \* source addresses
  NoIp,            \* no address
  PerIp,           \* bound: connections an address ever opens
  RepreemptTicks,  \* REPREEMPT_COOLDOWN, in ticks
  LockoutTicks     \* REPREEMPT_MAX_LOCKOUT, in ticks

ASSUME NoIpAssumption == NoIp \notin Ip
ASSUME BoundAssumption == PerIp \in Nat
ASSUME TicksAssumption ==
  RepreemptTicks \in Nat /\ LockoutTicks \in Nat /\ RepreemptTicks <= LockoutTicks

\* A connection is its source address and a serial number, the client's port.
Conn == Ip \X (1..PerIp)
NoConn == <<NoIp, 0>>
MaybeConn == Conn \cup {NoConn}
IpOf(c) == c[1]

VARIABLES
  \* the loop
  loop,       \* "idle" between connections, "serving" one, "evicting" it within
              \* its grace, in "handoff" after its own end, or "stopped"
  live,       \* the connection being served
  phase,      \* how far it got: "none", "handshake", "authenticated", "active"
  probe,      \* probing_peer: the candidate being negotiated
  pending,    \* the negotiated winner to be served next
  evicted,    \* recently_evicted: the address, and the ticks since the eviction
              \* and since its last attempt
  events,     \* the event channel: what was sent, about or by which connection
  \* the connection handler
  lastPeer,   \* AuthGuardHandler.last_peer
  accounted,  \* how often on_accept counted the connection
  recorded,   \* how often on_disconnected recorded its end
  audit,      \* the peer its authentication was attributed to
  \* the clients
  place,      \* "away", in the listener's "backlog", "inside", or "closed"
  authentic,  \* connections whose credentials were validated
  victim      \* history: whom the session being served was taken from, and the
              \* ticks since

raceVars    == <<loop, live, phase, probe, pending>>
handlerVars == <<lastPeer, accounted, recorded, audit>>
vars == <<raceVars, evicted, events, handlerVars, place, authentic, victim>>

Ticks == 0..LockoutTicks
Event == [kind : {"evict", "quit"}, of : Conn]
Nobody == [ip |-> NoIp, since |-> LockoutTicks, tried |-> LockoutTicks]
NoVictim == [conn |-> NoConn, since |-> LockoutTicks]

TypeOK ==
  /\ loop \in {"idle", "serving", "evicting", "handoff", "stopped"}
  /\ live \in MaybeConn
  /\ phase \in {"none", "handshake", "authenticated", "active"}
  /\ probe \in MaybeConn
  /\ pending \in MaybeConn
  /\ evicted \in [ip : Ip \cup {NoIp}, since : Ticks, tried : Ticks]
  /\ events \subseteq Event
  /\ lastPeer \in MaybeConn
  /\ accounted \in [Conn -> 0..2]
  /\ recorded \in [Conn -> 0..2]
  /\ audit \in [Conn -> MaybeConn]
  /\ place \in [Conn -> {"away", "backlog", "inside", "closed"}]
  /\ authentic \subseteq Conn
  /\ victim \in [conn : MaybeConn, since : Ticks]

Init ==
  /\ loop = "idle" /\ live = NoConn /\ phase = "none"
  /\ probe = NoConn /\ pending = NoConn
  /\ evicted = Nobody /\ events = {}
  /\ lastPeer = NoConn
  /\ accounted = [c \in Conn |-> 0] /\ recorded = [c \in Conn |-> 0]
  /\ audit = [c \in Conn |-> NoConn]
  /\ place = [c \in Conn |-> "away"]
  /\ authentic = {} /\ victim = NoVictim

-----------------------------------------------------------------------------
(* The connection handler's hooks.                                         *)

\* A count that saturates above what any property allows.
Bumped(counts, c) == [counts EXCEPT ![c] = IF @ = 2 THEN 2 ELSE @ + 1]

\* on_accept: last_peer is stored and the attempt counted before the verdict.
OnAccept(c) ==
  /\ lastPeer' = c
  /\ accounted' = Bumped(accounted, c)
  /\ UNCHANGED <<recorded, audit>>

\* on_authenticated, called for c: the verdict is attributed to last_peer.
OnAuthenticated(c) ==
  /\ audit' = [audit EXCEPT ![c] = lastPeer]
  /\ UNCHANGED <<lastPeer, accounted, recorded>>

-----------------------------------------------------------------------------
(* Between connections.                                                    *)

\* A client's TCP connection enters the listener's backlog.
Connect(c) ==
  /\ place[c] = "away"
  /\ \A n \in 1..PerIp : n < c[2] => place[<<IpOf(c), n>>] # "away"
  /\ place' = [place EXCEPT ![c] = "backlog"]
  /\ UNCHANGED <<raceVars, evicted, events, handlerVars, authentic, victim>>

\* accept() while nothing is served; a rejected connection is dropped.
AcceptFresh(c) ==
  /\ loop = "idle" /\ pending = NoConn /\ place[c] = "backlog"
  /\ OnAccept(c)
  /\ \/ /\ loop' = "serving" /\ live' = c /\ phase' = "handshake"
        /\ place' = [place EXCEPT ![c] = "inside"]
     \/ /\ place' = [place EXCEPT ![c] = "closed"]
        /\ UNCHANGED <<loop, live, phase>>
  /\ UNCHANGED <<probe, pending, evicted, events, authentic, victim>>

\* An event read while nothing is served: Quit stops the server, others are
\* dropped.
IdleEvent(e) ==
  /\ loop = "idle" /\ pending = NoConn /\ e \in events
  /\ events' = events \ {e}
  /\ loop' = IF e.kind = "quit" THEN "stopped" ELSE "idle"
  /\ UNCHANGED <<live, phase, probe, pending, evicted, handlerVars, place,
                 authentic, victim>>

\* Mutant: the winner finds whatever the replaced session left in the channel.
KeepEvents == events

\* discard_stale_eviction_events: evictions go, all other events are sent again.
DiscardEvictions == {e \in events : e.kind # "evict"}

\* A negotiated winner was accounted as a candidate already.
AccountWinner(c) == UNCHANGED handlerVars

\* The winner of the last race is served from finalization on (serve_negotiated).
ServePending ==
  /\ loop = "idle" /\ pending # NoConn
  /\ loop' = "serving" /\ live' = pending /\ phase' = "authenticated"
  /\ pending' = NoConn
  /\ events' = DiscardEvictions
  /\ AccountWinner(pending)
  /\ UNCHANGED <<probe, evicted, place, authentic, victim>>

-----------------------------------------------------------------------------
(* The end of the connection being served.                                 *)

\* recently_evicted is written back; a session that ended on its own, rather
\* than being replaced, clears it.
EvictedAfter(preempted) == IF preempted THEN evicted ELSE Nobody

\* What follows the race: the socket is gone, its end is recorded, the loop
\* takes its next turn.  A winner, if any, is in pending.
Teardown(preempted, closing) ==
  /\ loop' = "idle" /\ live' = NoConn /\ phase' = "none"
  /\ place' = [c \in Conn |-> IF c \in closing THEN "closed" ELSE place[c]]
  /\ recorded' = Bumped(recorded, live)
  /\ evicted' = EvictedAfter(preempted)
  /\ victim' = IF preempted THEN victim ELSE NoVictim

\* Mutant: the loop's turn ends with the session, whoever is being negotiated.
SessionOverAtOnce == Teardown(loop = "evicting", {live})

\* The future of the connection resolves (PreemptRace::Ended, or the eviction
\* grace): a candidate half-way through gets the hand-off period.
SessionOver ==
  IF loop = "serving" /\ probe # NoConn
    THEN /\ loop' = "handoff" /\ phase' = "none"
         /\ UNCHANGED <<live, place, recorded, evicted, victim>>
    ELSE Teardown(loop = "evicting", {live})

Running == loop \in {"serving", "evicting"}

\* The client leaves, the transport fails or a handshake step other than the
\* credentials does.
LiveEnds ==
  /\ Running
  /\ SessionOver
  /\ UNCHANGED <<probe, pending, events, lastPeer, accounted, audit, authentic>>

\* accept_credssp returns, and the handler hears of it.
LiveAuthenticates ==
  /\ Running /\ phase = "handshake"
  /\ phase' = "authenticated" /\ authentic' = authentic \cup {live}
  /\ OnAuthenticated(live)
  /\ UNCHANGED <<loop, live, probe, pending, evicted, events, place, victim>>

\* ... or it fails, and run_connection returns the error.
LiveRefused ==
  /\ Running /\ phase = "handshake"
  /\ audit' = [audit EXCEPT ![live] = lastPeer]
  /\ SessionOver
  /\ UNCHANGED <<probe, pending, events, lastPeer, accounted, authentic>>

\* accept_finalize reaches client_loop.
LiveActivates ==
  /\ Running /\ phase = "authenticated"
  /\ phase' = "active"
  /\ UNCHANGED <<loop, live, probe, pending, evicted, events, handlerVars,
                 place, authentic, victim>>

\* The blank-recovery heuristic gives the session up (perform_blank_drop).
PostQuit ==
  /\ phase = "active"
  /\ events' = events \cup {[kind |-> "quit", of |-> live]}
  /\ UNCHANGED <<raceVars, evicted, handlerVars, place, authentic, victim>>

\* client_loop dispatches an event: an eviction is announced to the client, and
\* either kind ends the connection.
LiveTakesEvent(e) ==
  /\ Running /\ phase = "active" /\ e \in events
  /\ events' = events \ {e}
  /\ SessionOver
  /\ UNCHANGED <<probe, pending, lastPeer, accounted, audit, authentic>>

-----------------------------------------------------------------------------
(* The candidate beside it.                                                *)

\* The peer evicted a moment ago may not bounce back, until the lock-out ends.
BouncedBack(c) ==
  /\ evicted.ip = IpOf(c)
  /\ evicted.tried < RepreemptTicks /\ evicted.since < LockoutTicks

\* accept() while a session is live and no candidate is being negotiated.  An
\* attempt to bounce back re-arms the bar and never reaches the handler.
AcceptCandidate(c) ==
  /\ loop = "serving" /\ probe = NoConn /\ place[c] = "backlog"
  /\ \/ /\ BouncedBack(c)
        /\ evicted' = [evicted EXCEPT !.tried = 0]
        /\ place' = [place EXCEPT ![c] = "closed"]
        /\ UNCHANGED <<probe, handlerVars>>
     \/ /\ ~BouncedBack(c)
        /\ OnAccept(c)
        /\ \/ probe' = c /\ place' = [place EXCEPT ![c] = "inside"]
           \/ place' = [place EXCEPT ![c] = "closed"] /\ UNCHANGED probe
        /\ UNCHANGED evicted
  /\ UNCHANGED <<loop, live, phase, pending, events, authentic, victim>>

\* The candidate authenticates while the incumbent is served: the incumbent is
\* told why it goes, and its address is barred for a while.
CandidateWins ==
  /\ loop = "serving" /\ probe # NoConn
  /\ OnAuthenticated(probe) /\ authentic' = authentic \cup {probe}
  /\ loop' = "evicting" /\ pending' = probe /\ probe' = NoConn
  /\ events' = events \cup {[kind |-> "evict", of |-> live]}
  /\ evicted' = [ip |-> IpOf(live), since |-> 0, tried |-> 0]
  /\ victim' = [conn |-> live, since |-> 0]
  /\ UNCHANGED <<live, phase, place>>

\* The candidate authenticates within the hand-off period: nothing is taken from
\* anyone.
CandidateInherits ==
  /\ loop = "handoff"
  /\ audit' = [audit EXCEPT ![probe] = lastPeer]
  /\ authentic' = authentic \cup {probe}
  /\ pending' = probe /\ probe' = NoConn
  /\ Teardown(FALSE, {live})
  /\ UNCHANGED <<events, lastPeer, accounted>>

\* A candidate that fails is dropped; the session it wanted goes on, or the
\* hand-off period ends.
DropCandidate ==
  /\ probe' = NoConn
  /\ IF loop = "handoff"
       THEN Teardown(FALSE, {live, probe}) /\ UNCHANGED pending
       ELSE /\ place' = [place EXCEPT ![probe] = "closed"]
            /\ UNCHANGED <<loop, live, phase, pending, recorded, evicted, victim>>

\* negotiate_candidate fails, before the credentials or because of them.
CandidateFails ==
  /\ loop \in {"serving", "handoff"} /\ probe # NoConn
  /\ audit' \in {audit, [audit EXCEPT ![probe] = lastPeer]}
  /\ DropCandidate
  /\ UNCHANGED <<events, lastPeer, accounted, authentic>>

\* Mutant: negotiate_candidate is awaited without a bound.
NegotiationUnbounded == FALSE

\* The candidate said too little for too long: CANDIDATE_NEGOTIATION_TIMEOUT
\* while a session is live, CANDIDATE_HANDOFF_GRACE after it.
CandidateTimesOut ==
  /\ loop \in {"serving", "handoff"} /\ probe # NoConn
  /\ DropCandidate
  /\ UNCHANGED <<events, lastPeer, accounted, audit, authentic>>

\* The incumbent did not leave within EVICTION_GRACE and is cancelled.
EvictionGraceEnds ==
  /\ loop = "evicting"
  /\ Teardown(TRUE, {live})
  /\ UNCHANGED <<probe, pending, events, lastPeer, accounted, audit, authentic>>

\* One unit of time passes.
Later(t) == IF t = LockoutTicks THEN t ELSE t + 1
Tick ==
  /\ evicted' = [ip |-> evicted.ip, since |-> Later(evicted.since),
                 tried |-> Later(evicted.tried)]
  /\ victim' = [conn |-> victim.conn, since |-> Later(victim.since)]
  /\ UNCHANGED <<raceVars, events, handlerVars, place, authentic>>

Accepting == \E c \in Conn : AcceptFresh(c) \/ AcceptCandidate(c)
Next ==
  \/ \E c \in Conn : Connect(c)
  \/ Accepting \/ ServePending
  \/ \E e \in events : IdleEvent(e) \/ LiveTakesEvent(e)
  \/ LiveEnds \/ LiveAuthenticates \/ LiveRefused \/ LiveActivates \/ PostQuit
  \/ CandidateWins \/ CandidateInherits \/ CandidateFails \/ CandidateTimesOut
  \/ EvictionGraceEnds \/ Tick

Spec == Init /\ [][Next]_vars

\* The loop keeps accepting, and its three timers run; nothing is assumed of the
\* clients, nor that a session ever ends.
FairSpec == Spec /\ WF_vars(Accepting) /\ WF_vars(ServePending)
                 /\ WF_vars(CandidateTimesOut) /\ WF_vars(EvictionGraceEnds)

-----------------------------------------------------------------------------
(* Properties.                                                             *)

\* Who plays which role in which state of the loop: nobody is live or probed while
\* the loop waits, a winner waits only for the one it replaces or for its turn, and
\* a candidate is left only where somebody still polls its negotiation.
Roles ==
  /\ loop \in {"idle", "stopped"} => live = NoConn /\ phase = "none" /\ probe = NoConn
  /\ loop = "serving" => live \in Conn /\ phase # "none" /\ pending = NoConn
  /\ loop = "evicting" => live \in Conn /\ pending \in Conn /\ probe = NoConn
  /\ loop = "handoff" => live \in Conn /\ probe \in Conn /\ pending = NoConn
                         /\ phase = "none"
  /\ loop = "stopped" => pending = NoConn
  /\ live # NoConn => live # probe /\ live # pending
  /\ probe # NoConn => probe # pending

\* Every variable has its type, and the roles fit the state of the loop.
RolesFit == TypeOK /\ Roles

\* An eviction is read by the session it is about, never by the one that
\* replaced it: whatever is still queued when the winner starts has been dropped.
EvictionReachesItsTarget ==
  \A e \in events : e.kind = "evict" /\ phase # "none" => e.of = live

\* Each connection passes the handler's rate limit once, although there are three
\* ways to be served, and its end is recorded at most once.
OneAccountPerConnection ==
  \A c \in Conn : /\ accounted[c] <= 1 /\ recorded[c] <= accounted[c]
                  /\ c \in {live, probe, pending} => accounted[c] = 1

\* Nobody is replaced, and nobody skips the handshake, without credentials that
\* were validated: an eviction under way has an authentic winner, and so has
\* every session past its handshake.
TakeoverNeedsProof ==
  /\ loop = "evicting" => pending \in authentic
  /\ phase \in {"authenticated", "active"} => live \in authentic

\* Once a session has been taken over, its old peer is not negotiated with while
\* the bar lasts, so two clients that reconnect by themselves do not take the
\* session from each other in turns.
EvictedPeerWaits ==
  probe # NoConn /\ victim.conn # NoConn /\ IpOf(probe) = IpOf(victim.conn)
    => victim.since >= RepreemptTicks

\* Together: what a takeover does to the session it ends, to the one that takes its
\* place and to the accounts of both.
HandoverSafe ==
  /\ EvictionReachesItsTarget /\ OneAccountPerConnection
  /\ TakeoverNeedsProof /\ EvictedPeerWaits

\* A client that connects is looked at, whatever the candidate before it does or
\* fails to do, as long as the server runs.
BacklogServed ==
  \A c \in Conn :
    place[c] = "backlog" ~> place[c] # "backlog" \/ loop = "stopped"

\* A winner is served, however wedged the session it replaces.
WinnerServed == \A c \in Conn : pending = c ~> live = c

\* Nobody waits for ever on somebody else's account.
EveryClientIsServed == BacklogServed /\ WinnerServed

=============================================================================
