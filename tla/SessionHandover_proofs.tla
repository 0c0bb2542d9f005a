----------------------- MODULE SessionHandover_proofs -----------------------
(***************************************************************************)
(* Theorems about SessionHandover for every set of addresses, any number   *)
(* of connections and all thresholds, from the inductive invariant IInv.   *)
(***************************************************************************)
EXTENDS SessionHandover, TLAPS

\* A connection with a role is inside; inside it has been counted once and its
\* end not recorded; before it was nothing, afterwards each at most once.
Accounts ==
  /\ \A c \in {live, probe, pending} : c # NoConn => place[c] = "inside"
  /\ \A c \in Conn :
       /\ place[c] \in {"away", "backlog"} => accounted[c] = 0 /\ recorded[c] = 0
       /\ place[c] = "inside" => accounted[c] = 1 /\ recorded[c] = 0
       /\ accounted[c] <= 1 /\ recorded[c] <= accounted[c]

\* An eviction is queued only while it is under way, and is about the session
\* then live, or is left over for the winner to find.
Evictions ==
  \A e \in events : e.kind = "evict" =>
    \/ loop = "evicting" /\ e.of = live
    \/ loop = "idle" /\ pending # NoConn

\* Credentials were validated wherever they must have been.
Proven ==
  /\ pending # NoConn => pending \in authentic
  /\ phase \in {"authenticated", "active"} => live \in authentic

\* The bar is about the victim, its clock runs with the victim's, and an attempt
\* is no older than the eviction.
Barred ==
  /\ victim.conn # NoConn =>
       evicted.ip = IpOf(victim.conn) /\ evicted.since = victim.since
  /\ evicted.tried <= evicted.since

IInv ==
  /\ TypeOK
  /\ Roles
  /\ Accounts
  /\ Evictions
  /\ Proven
  /\ Barred
  /\ EvictedPeerWaits

-----------------------------------------------------------------------------
LEMMA ConnFacts ==
  /\ NoConn \notin Conn
  /\ \A c \in Conn : IpOf(c) \in Ip /\ IpOf(c) # NoIp
  /\ \A c \in MaybeConn : c # NoConn => c \in Conn
BY NoIpAssumption DEF Conn, NoConn, IpOf, MaybeConn

LEMMA TickFacts ==
  /\ Ticks \subseteq Nat /\ 0 \in Ticks /\ LockoutTicks \in Ticks
  /\ \A t \in Ticks : Later(t) \in Ticks /\ Later(t) >= t
  /\ \A s, t \in Ticks : s <= t => Later(s) <= Later(t)
BY TicksAssumption DEF Ticks, Later

LEMMA BumpedFacts ==
  ASSUME NEW f \in [Conn -> 0..2], NEW c
  PROVE  /\ Bumped(f, c) \in [Conn -> 0..2]
         /\ \A d \in Conn : d # c => Bumped(f, c)[d] = f[d]
         /\ c \in Conn => Bumped(f, c)[c] = IF f[c] = 2 THEN 2 ELSE f[c] + 1
<1> DEFINE n == IF f[c] = 2 THEN 2 ELSE f[c] + 1
<1>1. Bumped(f, c) = [f EXCEPT ![c] = n]
  BY DEF Bumped
<1>2. c \in Conn => n \in 0..2
  OBVIOUS
<1> HIDE DEF n
<1>3. [f EXCEPT ![c] = n] \in [Conn -> 0..2]
  BY <1>2
<1> QED BY <1>1, <1>3 DEF n

Evicted == [ip : Ip \cup {NoIp}, since : Ticks, tried : Ticks]
Victim == [conn : MaybeConn, since : Ticks]
Places == [Conn -> {"away", "backlog", "inside", "closed"}]

LEMMA TypeTeardown ==
  ASSUME TypeOK, NEW preempted \in BOOLEAN, NEW closing, Teardown(preempted, closing)
  PROVE  /\ loop' = "idle" /\ live' = NoConn /\ phase' = "none"
         /\ place' \in Places /\ recorded' \in [Conn -> 0..2]
         /\ evicted' \in Evicted /\ victim' \in Victim
<1>1. recorded' \in [Conn -> 0..2]
  BY BumpedFacts DEF TypeOK, Teardown
<1>2. place' \in Places
  BY DEF TypeOK, Teardown, Places
<1>3. evicted' \in Evicted
  BY TickFacts DEF TypeOK, Teardown, EvictedAfter, Nobody, Evicted
<1>4. victim' \in Victim
  BY TickFacts DEF TypeOK, Teardown, NoVictim, Victim, MaybeConn
<1> QED BY <1>1, <1>2, <1>3, <1>4 DEF Teardown

LEMMA TypeSessionOver ==
  ASSUME TypeOK, SessionOver
  PROVE  /\ loop' \in {"idle", "handoff"} /\ live' \in MaybeConn /\ phase' = "none"
         /\ place' \in Places /\ recorded' \in [Conn -> 0..2]
         /\ evicted' \in Evicted /\ victim' \in Victim
<1>1. CASE loop = "serving" /\ probe # NoConn
  BY <1>1 DEF SessionOver, TypeOK, Places, Evicted, Victim
<1>2. CASE ~(loop = "serving" /\ probe # NoConn)
  <2>1. Teardown(loop = "evicting", {live})
    BY <1>2 DEF SessionOver
  <2>2. (loop = "evicting") \in BOOLEAN
    OBVIOUS
  <2> QED BY <2>1, <2>2, TypeTeardown DEF MaybeConn
<1> QED BY <1>1, <1>2

LEMMA TypeDrop ==
  ASSUME TypeOK, DropCandidate
  PROVE  /\ loop' \in {"idle"} \cup {loop} /\ live' \in MaybeConn /\ probe' = NoConn
         /\ phase' \in {"none", phase} /\ pending' = pending
         /\ place' \in Places /\ recorded' \in [Conn -> 0..2]
         /\ evicted' \in Evicted /\ victim' \in Victim
<1>1. CASE loop = "handoff"
  BY <1>1, TypeTeardown DEF DropCandidate, MaybeConn
<1>2. CASE loop # "handoff"
  BY <1>2 DEF DropCandidate, TypeOK, Places, Evicted, Victim
<1> QED BY <1>1, <1>2

LEMMA TypeInit == Init => TypeOK
<1> SUFFICES ASSUME Init PROVE TypeOK
  OBVIOUS
<1>1. evicted \in Evicted /\ victim \in Victim
  BY TickFacts DEF Init, Nobody, NoVictim, Evicted, Victim, MaybeConn
<1>2. NoConn \in MaybeConn
  BY DEF MaybeConn
<1> QED BY <1>1, <1>2 DEF Init, TypeOK, Evicted, Victim

USE DEF raceVars, handlerVars, vars

LEMMA TypeStep == TypeOK /\ Roles /\ [Next]_vars => TypeOK'
<1> SUFFICES ASSUME TypeOK, Roles, [Next]_vars PROVE TypeOK'
  OBVIOUS
<1> USE DEF Evicted, Victim, Places
<1>0. NoConn \in MaybeConn /\ Conn \subseteq MaybeConn
  BY DEF MaybeConn
<1>1. ASSUME NEW c \in Conn, OnAccept(c)
      PROVE  lastPeer' \in MaybeConn /\ accounted' \in [Conn -> 0..2]
             /\ recorded' \in [Conn -> 0..2] /\ audit' \in [Conn -> MaybeConn]
  BY <1>0, <1>1, BumpedFacts DEF OnAccept, TypeOK
<1>2. ASSUME NEW c \in Conn, Connect(c) PROVE TypeOK'
  BY <1>2 DEF Connect, TypeOK
<1>3. ASSUME NEW c \in Conn, AcceptFresh(c) PROVE TypeOK'
  <2>1. lastPeer' \in MaybeConn /\ accounted' \in [Conn -> 0..2]
        /\ recorded' \in [Conn -> 0..2] /\ audit' \in [Conn -> MaybeConn]
    BY <1>1, <1>3 DEF AcceptFresh
  <2>2. place' \in Places /\ loop' \in {"serving", loop} /\ live' \in MaybeConn
        /\ phase' \in {"handshake", phase}
    BY <1>0, <1>3 DEF AcceptFresh, TypeOK
  <2> QED BY <1>3, <2>1, <2>2 DEF AcceptFresh, TypeOK
<1>4. ASSUME NEW c \in Conn, AcceptCandidate(c) PROVE TypeOK'
  <2>1. CASE BouncedBack(c) /\ evicted' = [evicted EXCEPT !.tried = 0]
             /\ place' = [place EXCEPT ![c] = "closed"]
             /\ UNCHANGED <<probe, handlerVars>>
    <3>1. evicted' \in Evicted
      BY <2>1, TickFacts DEF TypeOK
    <3> QED BY <1>4, <2>1, <3>1 DEF AcceptCandidate, TypeOK
  <2>2. CASE OnAccept(c) /\ probe' \in {c, probe} /\ place' \in Places
             /\ UNCHANGED evicted
    <3>1. probe' \in MaybeConn
      BY <1>0, <2>2 DEF TypeOK
    <3> QED BY <1>1, <1>4, <2>2, <3>1 DEF AcceptCandidate, TypeOK
  <2> QED BY <1>4, <2>1, <2>2 DEF AcceptCandidate, TypeOK
<1>5. CASE ServePending
  BY <1>5, <1>0 DEF ServePending, AccountWinner, DiscardEvictions, TypeOK
<1>6. ASSUME NEW e \in events, IdleEvent(e) PROVE TypeOK'
  BY <1>6 DEF IdleEvent, TypeOK
<1>7. ASSUME NEW e \in events, LiveTakesEvent(e) PROVE TypeOK'
  <2>1. SessionOver /\ events' \subseteq Event
    BY <1>7 DEF LiveTakesEvent, TypeOK
  <2> QED BY <1>7, <2>1, TypeSessionOver DEF LiveTakesEvent, TypeOK
<1>8. CASE LiveEnds
  <2>1. SessionOver
    BY <1>8 DEF LiveEnds
  <2> QED BY <1>8, <2>1, TypeSessionOver DEF LiveEnds, TypeOK
<1>9. CASE LiveAuthenticates
  <2>1. audit' \in [Conn -> MaybeConn]
    BY <1>9 DEF LiveAuthenticates, OnAuthenticated, TypeOK
  <2>3. authentic' \subseteq Conn
    <3>1. live \in Conn
      BY <1>9 DEF LiveAuthenticates, Running, Roles
    <3> QED BY <1>9, <3>1 DEF LiveAuthenticates, TypeOK
  <2> QED BY <1>9, <2>1, <2>3 DEF LiveAuthenticates, OnAuthenticated, TypeOK
<1>10. CASE LiveRefused
  <2>1. SessionOver
    BY <1>10 DEF LiveRefused
  <2>2. audit' \in [Conn -> MaybeConn]
    BY <1>10 DEF LiveRefused, TypeOK
  <2> QED BY <1>10, <2>1, <2>2, TypeSessionOver DEF LiveRefused, TypeOK
<1>11. CASE LiveActivates
  BY <1>11 DEF LiveActivates, TypeOK
<1>12. CASE PostQuit
  <2>1. live \in Conn
    BY <1>12 DEF PostQuit, Roles, TypeOK
  <2>2. events' \subseteq Event
    BY <1>12, <2>1 DEF PostQuit, Event, TypeOK
  <2> QED BY <1>12, <2>2 DEF PostQuit, TypeOK
<1>13. CASE CandidateWins
  <2>1. live \in Conn /\ probe \in Conn
    BY <1>13, ConnFacts DEF CandidateWins, Roles, TypeOK
  <2>2. audit' \in [Conn -> MaybeConn] /\ authentic' \subseteq Conn
    BY <1>13, <2>1 DEF CandidateWins, OnAuthenticated, TypeOK
  <2>3. events' \subseteq Event
    BY <1>13, <2>1 DEF CandidateWins, Event, TypeOK
  <2>4. evicted' \in Evicted /\ victim' \in Victim
    BY <1>13, <2>1, <1>0, ConnFacts, TickFacts DEF CandidateWins
  <2> QED BY <1>0, <1>13, <2>1, <2>2, <2>3, <2>4
      DEF CandidateWins, OnAuthenticated, TypeOK
<1>14. CASE CandidateInherits
  <2>1. probe \in Conn /\ Teardown(FALSE, {live})
    BY <1>14 DEF CandidateInherits, Roles
  <2>2. audit' \in [Conn -> MaybeConn] /\ authentic' \subseteq Conn
    BY <1>14, <2>1 DEF CandidateInherits, TypeOK
  <2> QED BY <1>0, <1>14, <2>1, <2>2, TypeTeardown DEF CandidateInherits, TypeOK
<1>15. CASE CandidateFails
  <2>1. DropCandidate /\ audit' \in [Conn -> MaybeConn]
    BY <1>15 DEF CandidateFails, TypeOK
  <2> QED BY <1>0, <1>15, <2>1, TypeDrop DEF CandidateFails, TypeOK
<1>16. CASE CandidateTimesOut
  <2>1. DropCandidate
    BY <1>16 DEF CandidateTimesOut
  <2> QED BY <1>0, <1>16, <2>1, TypeDrop DEF CandidateTimesOut, TypeOK
<1>17. CASE EvictionGraceEnds
  <2>1. Teardown(TRUE, {live})
    BY <1>17 DEF EvictionGraceEnds
  <2> QED BY <1>0, <1>17, <2>1, TypeTeardown DEF EvictionGraceEnds, TypeOK
<1>18. CASE Tick
  <2>1. evicted' \in Evicted /\ victim' \in Victim
    BY <1>18, TickFacts DEF Tick, TypeOK
  <2> QED BY <1>18, <2>1 DEF Tick, TypeOK
<1>19. CASE UNCHANGED vars
  BY <1>19 DEF TypeOK
<1> QED
  BY <1>2, <1>3, <1>4, <1>5, <1>6, <1>7, <1>8, <1>9, <1>10, <1>11, <1>12, <1>13,
     <1>14, <1>15, <1>16, <1>17, <1>18, <1>19 DEF Next, Accepting

-----------------------------------------------------------------------------
(* What a turn of the loop leaves of the other parts.                      *)

Rest == Roles /\ Accounts /\ Evictions /\ Proven /\ Barred /\ EvictedPeerWaits

LEMMA IInvInit == Init => IInv
<1> SUFFICES ASSUME Init PROVE IInv
  OBVIOUS
<1>1. TypeOK
  BY TypeInit
<1>2. Roles /\ Accounts /\ Evictions /\ Proven
  BY ConnFacts DEF Init, Roles, Accounts, Evictions, Proven
<1>3. Barred /\ EvictedPeerWaits
  BY TickFacts DEF Init, Barred, EvictedPeerWaits, NoVictim, Nobody, Ticks
<1> QED BY <1>1, <1>2, <1>3 DEF IInv

\* A torn down session leaves no role of its own; what remains is the winner.
LEMMA TeardownInv ==
  ASSUME IInv, TypeOK', NEW preempted \in BOOLEAN, NEW closing,
         live \in Conn, live \in closing, Teardown(preempted, closing),
         probe' = NoConn, accounted' = accounted, events' \subseteq events,
         authentic \subseteq authentic',
         preempted => loop = "evicting",
         closing \subseteq {live, probe},
         \/ pending' = pending /\ pending \notin closing
            /\ probe \in closing \cup {NoConn}
            /\ (loop = "evicting" => pending # NoConn)
         \/ loop = "handoff" /\ pending' = probe /\ probe \notin closing
            /\ probe \in authentic'
  PROVE  Rest'
<1>1. Roles'
  BY ConnFacts DEF Teardown, Roles, IInv, TypeOK
<1>2. Accounts'
  <2>1. /\ \A d \in Conn : d # live => recorded'[d] = recorded[d]
        /\ recorded'[live] = 1 /\ accounted[live] = 1
    <3>1. live # NoConn /\ place[live] = "inside"
      BY ConnFacts DEF IInv, Accounts
    <3>2. recorded[live] = 0 /\ accounted[live] = 1 /\ recorded \in [Conn -> 0..2]
      BY <3>1 DEF IInv, Accounts, TypeOK
    <3>3. recorded' = Bumped(recorded, live)
      BY DEF Teardown
    <3> QED BY <3>2, <3>3, BumpedFacts
  <2>2. \A c \in Conn : place'[c] = IF c \in closing THEN "closed" ELSE place[c]
    BY DEF Teardown
  <2>3. \A c \in closing : c # NoConn => c \in Conn /\ accounted[c] = 1 /\ recorded[c] \in {0}
    BY ConnFacts DEF IInv, TypeOK, Accounts
  <2>4. ASSUME NEW c \in {live', probe', pending'}, c # NoConn
        PROVE  place'[c] = "inside"
    <3>1. c = pending'
      BY <2>4 DEF Teardown
    <3>2. c \notin closing /\ c \in Conn /\ place[c] = "inside"
      BY <2>4, <3>1, ConnFacts DEF IInv, TypeOK, Accounts
    <3> QED BY <2>2, <3>2
  <2>5. ASSUME NEW c \in Conn
        PROVE /\ place'[c] \in {"away", "backlog"} => accounted'[c] = 0 /\ recorded'[c] = 0
              /\ place'[c] = "inside" => accounted'[c] = 1 /\ recorded'[c] = 0
              /\ accounted'[c] <= 1 /\ recorded'[c] <= accounted'[c]
    <3>1. CASE c = live
      BY <2>1, <2>2, <3>1
    <3>2. CASE c # live
      BY <2>1, <2>2, <3>2 DEF IInv, Accounts
    <3> QED BY <3>1, <3>2
  <2> QED BY <2>4, <2>5 DEF Accounts
<1>3. Evictions' /\ Proven'
  BY DEF Teardown, IInv, Evictions, Proven, Roles
<1>4. Barred'
  <2>1. CASE preempted
    BY <2>1 DEF Teardown, EvictedAfter, IInv, Barred
  <2>2. CASE ~preempted
    BY <2>2, TickFacts DEF Teardown, EvictedAfter, Nobody, NoVictim, Barred, Ticks
  <2> QED BY <2>1, <2>2
<1>5. EvictedPeerWaits'
  BY DEF EvictedPeerWaits
<1> QED BY <1>1, <1>2, <1>3, <1>4, <1>5 DEF Rest

\* The end of the session, at whatever point, keeps the invariant.
LEMMA SessionOverInv ==
  ASSUME IInv, TypeOK', Running, SessionOver, UNCHANGED <<probe, pending, accounted>>,
         events' \subseteq events, authentic \subseteq authentic'
  PROVE  Rest'
<1>0. live \in Conn
  BY DEF Running, IInv, Roles
<1>1. CASE loop = "serving" /\ probe # NoConn
  <2>1. /\ loop' = "handoff" /\ phase' = "none"
        /\ UNCHANGED <<live, place, recorded, evicted, victim>>
    BY <1>1 DEF SessionOver
  <2>2. probe \in Conn
    BY <1>1, ConnFacts DEF IInv, TypeOK
  <2>3. Roles'
    BY <1>0, <1>1, <2>1, <2>2 DEF IInv, Roles
  <2>4. Accounts'
    BY <2>1 DEF IInv, Accounts
  <2>5. Evictions' /\ Proven' /\ Barred' /\ EvictedPeerWaits'
    BY <1>1, <2>1 DEF IInv, Evictions, Proven, Barred, EvictedPeerWaits
  <2> QED BY <2>3, <2>4, <2>5 DEF Rest
<1>2. CASE ~(loop = "serving" /\ probe # NoConn)
  <2>1. Teardown(loop = "evicting", {live}) /\ probe = NoConn
    BY <1>2 DEF SessionOver, Running, IInv, Roles
  <2>2. pending # live /\ (loop = "evicting" => pending # NoConn)
    BY <1>0, ConnFacts DEF IInv, Roles
  <2> DEFINE preempted == loop = "evicting"
  <2>3. preempted \in BOOLEAN /\ (preempted => loop = "evicting")
    OBVIOUS
  <2>4. Teardown(preempted, {live})
    BY <2>1
  <2> HIDE DEF preempted
  <2> QED BY <1>0, <2>1, <2>2, <2>3, <2>4, TeardownInv
<1> QED BY <1>1, <1>2

\* So does a candidate that is dropped.
LEMMA DropInv ==
  ASSUME IInv, TypeOK', loop \in {"serving", "handoff"}, probe # NoConn, DropCandidate,
         UNCHANGED <<accounted, events, authentic>>
  PROVE  Rest'
<1>0. live \in Conn /\ probe \in Conn /\ probe # live /\ pending = NoConn
  BY ConnFacts DEF IInv, TypeOK, Roles
<1>1. CASE loop = "handoff"
  <2>1. Teardown(FALSE, {live, probe}) /\ probe' = NoConn /\ pending' = pending
    BY <1>1 DEF DropCandidate
  <2>2. pending \notin {live, probe}
    BY <1>0, ConnFacts
  <2> QED BY <1>0, <1>1, <2>1, <2>2, TeardownInv
<1>2. CASE loop = "serving"
  <2>1. /\ probe' = NoConn /\ place' = [place EXCEPT ![probe] = "closed"]
        /\ UNCHANGED <<loop, live, phase, pending, recorded, evicted, victim>>
    BY <1>2 DEF DropCandidate
  <2>2. Roles'
    BY <1>0, <1>2, <2>1, ConnFacts DEF IInv, Roles
  <2>3. Accounts'
    <3>1. /\ \A c \in Conn : place'[c] = IF c = probe THEN "closed" ELSE place[c]
          /\ accounted[probe] = 1 /\ recorded[probe] = 0
      BY <1>0, <2>1 DEF IInv, TypeOK, Accounts
    <3>2. place'[live] = "inside"
      BY <1>0, <3>1, ConnFacts DEF IInv, Accounts
    <3> QED BY <1>0, <2>1, <3>1, <3>2 DEF IInv, Accounts
  <2>4. Evictions' /\ Proven' /\ Barred' /\ EvictedPeerWaits'
    BY <1>2, <2>1 DEF IInv, Evictions, Proven, Barred, EvictedPeerWaits
  <2> QED BY <2>2, <2>3, <2>4 DEF Rest
<1> QED BY <1>1, <1>2

\* A connection that comes out of the backlog is counted for the first time.
LEMMA Counted ==
  ASSUME IInv, NEW c \in Conn, OnAccept(c), place[c] = "backlog"
  PROVE  /\ \A d \in Conn : d # c => accounted'[d] = accounted[d]
         /\ accounted'[c] = 1 /\ recorded' = recorded /\ recorded[c] = 0
<1>1. accounted' = Bumped(accounted, c) /\ accounted \in [Conn -> 0..2]
      /\ recorded' = recorded
  BY DEF OnAccept, IInv, TypeOK
<1>2. accounted[c] = 0 /\ recorded[c] = 0
  BY DEF IInv, Accounts
<1>3. accounted'[c] = 1
  BY <1>1, <1>2, BumpedFacts
<1>4. \A d \in Conn : d # c => accounted'[d] = accounted[d]
  BY <1>1, BumpedFacts
<1> QED BY <1>1, <1>2, <1>3, <1>4

LEMMA RestStep == IInv /\ TypeOK' /\ [Next]_vars => Rest'
<1> SUFFICES ASSUME IInv, TypeOK', [Next]_vars PROVE Rest'
  OBVIOUS
<1>1. ASSUME NEW c \in Conn, Connect(c) PROVE Rest'
  <2>1. place[c] = "away" /\ place' = [place EXCEPT ![c] = "backlog"]
    BY <1>1 DEF Connect
  <2>2. Accounts'
    BY <1>1, <2>1 DEF Connect, IInv, TypeOK, Accounts
  <2>3. Roles' /\ Evictions' /\ Proven' /\ Barred' /\ EvictedPeerWaits'
    BY <1>1 DEF Connect, IInv, Roles, Evictions, Proven, Barred, EvictedPeerWaits
  <2> QED BY <2>2, <2>3 DEF Rest
<1>2. ASSUME NEW c \in Conn, AcceptFresh(c) PROVE Rest'
  <2>1. /\ \A d \in Conn : d # c => accounted'[d] = accounted[d]
        /\ accounted'[c] = 1 /\ recorded' = recorded /\ recorded[c] = 0
    <3>1. OnAccept(c) /\ place[c] = "backlog"
      BY <1>2 DEF AcceptFresh
    <3> QED BY <3>1, Counted
  <2>2. c # NoConn
    BY ConnFacts
  <2>3. CASE loop' = "serving" /\ live' = c /\ phase' = "handshake"
             /\ place' = [place EXCEPT ![c] = "inside"]
    <3>1. Roles'
      BY <1>2, <2>2, <2>3 DEF AcceptFresh, IInv, Roles
    <3>2. Accounts'
      BY <1>2, <2>1, <2>3 DEF AcceptFresh, IInv, TypeOK, Roles, Accounts
    <3>3. Evictions' /\ Proven' /\ Barred' /\ EvictedPeerWaits'
      BY <1>2, <2>3
      DEF AcceptFresh, IInv, Roles, Evictions, Proven, Barred, EvictedPeerWaits
    <3> QED BY <3>1, <3>2, <3>3 DEF Rest
  <2>4. CASE place' = [place EXCEPT ![c] = "closed"] /\ UNCHANGED <<loop, live, phase>>
    <3>1. Roles'
      BY <1>2, <2>4 DEF AcceptFresh, IInv, Roles
    <3>2. Accounts'
      BY <1>2, <2>1, <2>2, <2>4 DEF AcceptFresh, IInv, TypeOK, Roles, Accounts
    <3>3. Evictions' /\ Proven' /\ Barred' /\ EvictedPeerWaits'
      BY <1>2, <2>4
      DEF AcceptFresh, IInv, Roles, Evictions, Proven, Barred, EvictedPeerWaits
    <3> QED BY <3>1, <3>2, <3>3 DEF Rest
  <2> QED BY <1>2, <2>3, <2>4 DEF AcceptFresh
<1>3. ASSUME NEW c \in Conn, AcceptCandidate(c) PROVE Rest'
  <2>0. c # NoConn /\ place[c] = "backlog" /\ loop = "serving" /\ probe = NoConn
        /\ live # c
    BY <1>3, ConnFacts DEF AcceptCandidate, IInv, Accounts
  <2>1. CASE BouncedBack(c) /\ evicted' = [evicted EXCEPT !.tried = 0]
             /\ place' = [place EXCEPT ![c] = "closed"]
             /\ UNCHANGED <<probe, handlerVars>>
    <3>1. Roles'
      BY <1>3, <2>1 DEF AcceptCandidate, IInv, Roles
    <3>2. Accounts'
      BY <1>3, <2>0, <2>1 DEF AcceptCandidate, IInv, TypeOK, Roles, Accounts
    <3>3. Evictions' /\ Proven' /\ EvictedPeerWaits'
      BY <1>3, <2>1 DEF AcceptCandidate, IInv, Evictions, Proven, EvictedPeerWaits
    <3>4. /\ evicted'.tried = 0 /\ evicted'.since = evicted.since
          /\ evicted'.ip = evicted.ip /\ evicted.since \in Nat /\ victim' = victim
      BY <1>3, <2>1, TickFacts DEF AcceptCandidate, IInv, TypeOK
    <3>5. Barred'
      BY <3>4 DEF IInv, Barred
    <3> QED BY <3>1, <3>2, <3>3, <3>5 DEF Rest
  <2>2. CASE ~BouncedBack(c) /\ OnAccept(c) /\ UNCHANGED evicted
             /\ probe' = c /\ place' = [place EXCEPT ![c] = "inside"]
    <3>1. Roles'
      BY <1>3, <2>0, <2>2 DEF AcceptCandidate, IInv, Roles
    <3>2. Accounts'
      BY <1>3, <2>0, <2>2, Counted DEF AcceptCandidate, IInv, TypeOK, Roles, Accounts
    <3>3. Evictions' /\ Proven' /\ Barred'
      BY <1>3, <2>2 DEF AcceptCandidate, IInv, Evictions, Proven, Barred
    <3>4. ASSUME victim.conn # NoConn, IpOf(c) = IpOf(victim.conn)
          PROVE  victim.since >= RepreemptTicks
      <4>1. /\ evicted.ip = IpOf(c) /\ evicted.since = victim.since
            /\ evicted.tried <= evicted.since
        BY <3>4 DEF IInv, Barred
      <4>2. evicted.since \in Nat /\ evicted.tried \in Nat
        BY TickFacts DEF IInv, TypeOK
      <4>3. evicted.tried >= RepreemptTicks \/ evicted.since >= LockoutTicks
        BY <2>2, <4>1, <4>2, TicksAssumption DEF BouncedBack
      <4> QED BY <4>1, <4>2, <4>3, TicksAssumption
    <3>5. EvictedPeerWaits'
      BY <1>3, <2>2, <3>4 DEF AcceptCandidate, EvictedPeerWaits
    <3> QED BY <3>1, <3>2, <3>3, <3>5 DEF Rest
  <2>3. CASE OnAccept(c) /\ UNCHANGED <<evicted, probe>>
             /\ place' = [place EXCEPT ![c] = "closed"]
    <3>1. Roles'
      BY <1>3, <2>3 DEF AcceptCandidate, IInv, Roles
    <3>2. Accounts'
      BY <1>3, <2>0, <2>3, Counted DEF AcceptCandidate, IInv, TypeOK, Roles, Accounts
    <3>3. Evictions' /\ Proven' /\ Barred' /\ EvictedPeerWaits'
      BY <1>3, <2>3
      DEF AcceptCandidate, IInv, Evictions, Proven, Barred, EvictedPeerWaits
    <3> QED BY <3>1, <3>2, <3>3 DEF Rest
  <2> QED BY <1>3, <2>1, <2>2, <2>3 DEF AcceptCandidate
<1>4. CASE ServePending
  <2>1. Roles' /\ Accounts'
    BY <1>4, ConnFacts
    DEF ServePending, AccountWinner, IInv, TypeOK, Roles, Accounts
  <2>2. Evictions'
    BY <1>4 DEF ServePending, DiscardEvictions, Evictions
  <2>3. Proven' /\ Barred' /\ EvictedPeerWaits'
    BY <1>4 DEF ServePending, IInv, Proven, Barred, EvictedPeerWaits
  <2> QED BY <2>1, <2>2, <2>3 DEF Rest
<1>5. ASSUME NEW e \in events, IdleEvent(e) PROVE Rest'
  BY <1>5 DEF IdleEvent, IInv, Rest, Roles, Accounts, Evictions, Proven, Barred,
              EvictedPeerWaits
<1>6. ASSUME NEW e \in events, LiveTakesEvent(e) PROVE Rest'
  <2>1. events' \subseteq events
    BY <1>6 DEF LiveTakesEvent
  <2> QED BY <1>6, <2>1, SessionOverInv DEF LiveTakesEvent
<1>7. CASE LiveEnds
  <2>1. events' \subseteq events
    BY <1>7 DEF LiveEnds
  <2> QED BY <1>7, <2>1, SessionOverInv DEF LiveEnds
<1>8. CASE LiveRefused
  <2>1. events' \subseteq events
    BY <1>8 DEF LiveRefused
  <2> QED BY <1>8, <2>1, SessionOverInv DEF LiveRefused
<1>9. CASE LiveAuthenticates
  BY <1>9 DEF LiveAuthenticates, OnAuthenticated, IInv, Rest, Roles, Accounts,
              Evictions, Proven, Barred, EvictedPeerWaits
<1>10. CASE LiveActivates
  BY <1>10 DEF LiveActivates, IInv, Rest, Roles, Accounts, Evictions, Proven,
               Barred, EvictedPeerWaits
<1>11. CASE PostQuit
  <2>1. Roles' /\ Accounts' /\ Proven' /\ Barred' /\ EvictedPeerWaits'
    BY <1>11 DEF PostQuit, IInv, Roles, Accounts, Proven, Barred, EvictedPeerWaits
  <2>2. Evictions'
    BY <1>11 DEF PostQuit, IInv, Evictions
  <2> QED BY <2>1, <2>2 DEF Rest
<1>12. CASE CandidateWins
  <2>0. live \in Conn /\ probe \in Conn /\ live # probe /\ live # NoConn
    BY <1>12, ConnFacts DEF CandidateWins, IInv, TypeOK, Roles
  <2>1. Roles'
    BY <1>12, <2>0, ConnFacts DEF CandidateWins, IInv, Roles
  <2>2. Accounts'
    BY <1>12, <2>0, ConnFacts DEF CandidateWins, OnAuthenticated, IInv, Accounts
  <2>3. Evictions' /\ Proven'
    BY <1>12 DEF CandidateWins, IInv, Roles, Evictions, Proven
  <2>4. Barred'
    <3>1. /\ evicted' = [ip |-> IpOf(live), since |-> 0, tried |-> 0]
          /\ victim' = [conn |-> live, since |-> 0]
      BY <1>12 DEF CandidateWins
    <3> QED BY <3>1 DEF Barred
  <2>5. EvictedPeerWaits'
    BY <1>12 DEF CandidateWins, EvictedPeerWaits
  <2> QED BY <2>1, <2>2, <2>3, <2>4, <2>5 DEF Rest
<1>13. CASE CandidateInherits
  <2>1. /\ loop = "handoff" /\ Teardown(FALSE, {live}) /\ pending' = probe
        /\ probe' = NoConn /\ probe \in authentic' /\ UNCHANGED <<events, accounted>>
        /\ authentic \subseteq authentic'
    BY <1>13 DEF CandidateInherits
  <2>2. live \in Conn /\ probe \in Conn /\ live # probe
    BY <2>1, ConnFacts DEF IInv, Roles
  <2> QED BY <2>1, <2>2, TeardownInv
<1>14. CASE CandidateFails
  BY <1>14, DropInv DEF CandidateFails
<1>15. CASE CandidateTimesOut
  BY <1>15, DropInv DEF CandidateTimesOut
<1>16. CASE EvictionGraceEnds
  <2>1. /\ loop = "evicting" /\ Teardown(TRUE, {live}) /\ probe' = probe
        /\ pending' = pending /\ UNCHANGED <<events, accounted, authentic>>
    BY <1>16 DEF EvictionGraceEnds
  <2>2. live \in Conn /\ pending # NoConn /\ pending # live /\ probe = NoConn
    BY <2>1, ConnFacts DEF IInv, Roles
  <2> QED BY <2>1, <2>2, TeardownInv
<1>17. CASE Tick
  <2>1. Roles' /\ Accounts' /\ Evictions' /\ Proven'
    BY <1>17 DEF Tick, IInv, Roles, Accounts, Evictions, Proven
  <2>2. /\ evicted.since \in Ticks /\ evicted.tried \in Ticks /\ victim.since \in Ticks
    BY DEF IInv, TypeOK
  <2>3. /\ evicted'.ip = evicted.ip /\ evicted'.since = Later(evicted.since)
        /\ evicted'.tried = Later(evicted.tried)
        /\ victim'.conn = victim.conn /\ victim'.since = Later(victim.since)
    BY <1>17 DEF Tick
  <2>4. Barred'
    BY <2>2, <2>3, TickFacts DEF IInv, Barred
  <2>5. EvictedPeerWaits'
    <3>1. Later(victim.since) >= victim.since /\ Later(victim.since) \in Nat
          /\ victim.since \in Nat /\ probe' = probe
      BY <1>17, <2>2, TickFacts DEF Tick
    <3> QED BY <2>3, <3>1, TicksAssumption DEF IInv, EvictedPeerWaits
  <2> QED BY <2>1, <2>4, <2>5 DEF Rest
<1>18. CASE UNCHANGED vars
  BY <1>18 DEF IInv, Rest, Roles, Accounts, Evictions, Proven, Barred, EvictedPeerWaits
<1> QED
  BY <1>1, <1>2, <1>3, <1>4, <1>5, <1>6, <1>7, <1>8, <1>9, <1>10, <1>11, <1>12, <1>13,
     <1>14, <1>15, <1>16, <1>17, <1>18 DEF Next, Accepting

-----------------------------------------------------------------------------
(* Theorems.                                                               *)

\* The inductive invariant holds in every reachable state of the accept loop.
THEOREM Invariance == Spec => []IInv
<1>1. IInv /\ [Next]_vars => IInv'
  <2> SUFFICES ASSUME IInv, [Next]_vars PROVE IInv'
    OBVIOUS
  <2>1. TypeOK'
    BY TypeStep DEF IInv
  <2> QED BY <2>1, RestStep DEF IInv, Rest
<1> QED BY IInvInit, <1>1, PTL DEF Spec

\* Every variable keeps its type, and the roles always fit the state of the loop:
\* no candidate is forgotten by a turn that ends (the hand-off period).
THEOREM RolesAreFit == Spec => []RolesFit
<1>1. IInv => RolesFit
  BY DEF IInv, RolesFit
<1> QED BY Invariance, <1>1, PTL

\* An eviction event is never read by the session that won the takeover
\* (discard_stale_eviction_events, and the order of the race's arms).
THEOREM EvictionsReachTheirTarget == Spec => []EvictionReachesItsTarget
<1>1. IInv => EvictionReachesItsTarget
  BY DEF IInv, Roles, Evictions, EvictionReachesItsTarget
<1> QED BY Invariance, <1>1, PTL

\* Fresh connection, candidate, winner: on_accept counts each connection once and
\* on_disconnected records no end twice.
THEOREM ConnectionsCountOnce == Spec => []OneAccountPerConnection
<1>1. IInv => OneAccountPerConnection
  BY ConnFacts DEF IInv, TypeOK, Accounts, OneAccountPerConnection
<1> QED BY Invariance, <1>1, PTL

\* No session is taken over, and none gets past its handshake, without validated
\* credentials.
THEOREM TakeoversAreProven == Spec => []TakeoverNeedsProof
<1>1. IInv => TakeoverNeedsProof
  BY ConnFacts DEF IInv, Roles, Proven, TakeoverNeedsProof
<1> QED BY Invariance, <1>1, PTL

\* A peer that lost its session is not negotiated with again before the bar on it
\* lifts, while the session that replaced it lives.
THEOREM EvictedPeersWait == Spec => []EvictedPeerWaits
<1>1. IInv => EvictedPeerWaits
  BY DEF IInv
<1> QED BY Invariance, <1>1, PTL

\* The four invariants together, for any number of addresses and of connections
\* from each, and any thresholds.
THEOREM HandoversAreSafe == Spec => []HandoverSafe
BY EvictionsReachTheirTarget, ConnectionsCountOnce, TakeoversAreProven, EvictedPeersWait, PTL
   DEF HandoverSafe
=============================================================================
