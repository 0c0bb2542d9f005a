------------------------------ MODULE AuthGuard ------------------------------
(***************************************************************************)
(* The guard in front of authentication (auth_guard.rs): a sliding-window  *)
(* rate limit and an escalating lockout per source address, in a table of  *)
(* bounded size, driven by the accept loop through the hooks on_accept and *)
(* on_disconnected.                                                        *)
(*                                                                         *)
(* The loop serves one connection and negotiates with one candidate beside *)
(* it (SessionHandover); the guard hears of the end of the former only.    *)
(* Times are ages and remainders in ticks.                                 *)
(***************************************************************************)
EXTENDS Integers, Sequences

CONSTANTS
    Ip,                \* source addresses, canonical
    Exempt,            \* those that are loopback
    Persistent,        \* those of clients that keep trying
    NoIp,              \* no connection
    MaxTracked,        \* MAX_TRACKED_IPS
    Window,            \* cfg.window
    MaxAttempts,       \* cfg.max_attempts
    FailureThreshold,  \* cfg.failure_threshold
    FailfastWindow,    \* cfg.failfast_window
    BaseCooldown,      \* cfg.base_cooldown
    MaxCooldown,       \* cfg.max_cooldown
    MaxFailures        \* bound: consecutive failures told apart

ASSUME IpAssumption == NoIp \notin Ip /\ Exempt \subseteq Ip /\ Persistent \subseteq Ip
ASSUME ConfigAssumption ==
    /\ MaxTracked \in Nat \ {0} /\ Window \in Nat /\ MaxAttempts \in Nat
    /\ FailureThreshold \in Nat /\ FailfastWindow \in Nat
    /\ BaseCooldown \in Nat /\ MaxCooldown \in Nat /\ MaxFailures \in Nat
    /\ FailureThreshold <= MaxFailures

VARIABLES
    \* AuthGuardCore.ips
    touched,    \* the addresses that have an entry, by last_touch, oldest first
    attempts,   \* PerIp.attempts as ages, oldest first
    failures,   \* PerIp.consecutive_failures
    cooldown,   \* ticks until PerIp.cooldown_until; 0 when None or over
    \* the accept loop
    served,     \* the address being served
    age,        \* how long for, up to the fail-fast window
    candidate,  \* the address being negotiated with beside it
    \* history
    verdict,    \* the last Decision for each address
    let,        \* ages of the attempts let in, since the table last forgot them
    bad,        \* failures since the last success, likewise
    sinceBad    \* ticks since the last of them, up to MaxCooldown

table   == <<touched, attempts, failures, cooldown>>
loop    == <<served, age, candidate>>
history == <<verdict, let, bad, sinceBad>>
vars    == <<table, loop, history>>

-------------------------------------------------------------------------------
Tracked == {touched[i] : i \in DOMAIN touched}
Ages == 0..(Window + 1)

TypeOK ==
    /\ touched \in Seq(Ip \ Exempt)
    /\ attempts \in [Ip -> Seq(Ages)]
    /\ failures \in [Ip -> 0..MaxFailures]
    /\ cooldown \in [Ip -> 0..MaxCooldown]
    /\ served \in Ip \cup {NoIp} /\ candidate \in Ip \cup {NoIp}
    /\ age \in 0..FailfastWindow
    /\ verdict \in [Ip -> {"none", "accept", "rate", "cooldown"}]
    /\ let \in [Ip -> Seq(Ages)]
    /\ bad \in [Ip -> 0..MaxFailures] /\ sinceBad \in [Ip -> 0..MaxCooldown]

Init ==
    /\ touched = <<>>
    /\ attempts = [ip \in Ip |-> <<>>]
    /\ failures = [ip \in Ip |-> 0] /\ cooldown = [ip \in Ip |-> 0]
    /\ served = NoIp /\ age = 0 /\ candidate = NoIp
    /\ verdict = [ip \in Ip |-> "none"]
    /\ let = [ip \in Ip |-> <<>>]
    /\ bad = [ip \in Ip |-> 0] /\ sinceBad = [ip \in Ip |-> 0]

\* base << (n - threshold), capped.
EscalatedCooldown(n) ==
    LET scaled == BaseCooldown * 2 ^ (n - FailureThreshold)
    IN  IF scaled < MaxCooldown THEN scaled ELSE MaxCooldown

\* What is left of the ages once those over the limit are popped from the front.
Since(ages, limit) ==
    LET popped == CHOOSE n \in 0..Len(ages) :
                    /\ \A i \in 1..n : ages[i] > limit
                    /\ n < Len(ages) => ages[n + 1] <= limit
    IN  SubSeq(ages, popped + 1, Len(ages))

\* Mutant: an attempt leaves the window a tick early.
FreshTooShort(ages) == Since(ages, Window - 1)

\* The attempts still inside the sliding window.
Fresh(ages) == Since(ages, Window)

\* Mutant: an entry is idle as soon as nothing bars its address.
IsIdleOnceOpen(ip) == Fresh(attempts[ip]) = <<>> /\ cooldown[ip] = 0

\* PerIp::is_idle, after the pruning that comes before it.
IsIdle(ip) ==
    Fresh(attempts[ip]) = <<>> /\ failures[ip] = 0 /\ cooldown[ip] = 0

-------------------------------------------------------------------------------
(* evict_stale: what it leaves of the table.                               *)

\* No idle entry, and at the cap not the tenth that was touched longest ago.
KeptInOrder ==
    LET busy == SelectSeq(touched, LAMBDA ip : ~IsIdle(ip))
    IN  IF Len(busy) < MaxTracked THEN busy
        ELSE SubSeq(busy, Len(busy) \div 10 + 2, Len(busy))

Kept == {KeptInOrder[i] : i \in DOMAIN KeptInOrder}

\* What the cap takes is forgotten although it carried state.
Forgotten == LET kept == Kept IN {ip \in Ip \ kept : ~IsIdle(ip)}

AttemptsLeft ==
    LET kept == Kept
    IN  [ip \in Ip |-> IF ip \in kept THEN Fresh(attempts[ip]) ELSE <<>>]
CooldownLeft ==
    LET kept == Kept IN [ip \in Ip |-> IF ip \in kept THEN cooldown[ip] ELSE 0]

EvictStale(ip) ==
    /\ touched' = Append(SelectSeq(KeptInOrder, LAMBDA other : other # ip), ip)
    /\ LET kept == Kept
       IN  failures' = [i \in Ip |-> IF i \in kept THEN failures[i] ELSE 0]
    /\ cooldown' = CooldownLeft
    /\ LET forgotten == Forgotten
       IN  bad' = [i \in Ip |-> IF i \in forgotten THEN 0 ELSE bad[i]]
    /\ UNCHANGED sinceBad

\* The record of what was let in survives the table, but not the cap.
LetLeft ==
    LET forgotten == Forgotten
    IN  [ip \in Ip |-> IF ip \in forgotten THEN <<>> ELSE let[ip]]

-------------------------------------------------------------------------------
(* decide, called by on_accept.                                            *)

\* The connection goes on to its handshake: as the one to serve when there is
\* none, else as the candidate.
LetIn(ip) ==
    \/ /\ served = NoIp
       /\ served' = ip /\ age' = 0
       /\ UNCHANGED candidate
    \/ /\ served # NoIp
       /\ candidate' = ip
       /\ UNCHANGED <<served, age>>

BarredBy(ip) == IF FailureThreshold > 0 THEN CooldownLeft[ip] ELSE 0
Full(ip) == MaxAttempts > 0 /\ Len(AttemptsLeft[ip]) >= MaxAttempts

RejectCooldown(ip) ==
    /\ BarredBy(ip) > 0
    /\ EvictStale(ip)
    /\ attempts' = AttemptsLeft /\ let' = LetLeft
    /\ verdict' = [verdict EXCEPT ![ip] = "cooldown"]
    /\ UNCHANGED loop

\* Mutant: the rejected attempt counts towards the window.
RejectPushes(ip) ==
    /\ BarredBy(ip) = 0 /\ Full(ip)
    /\ EvictStale(ip)
    /\ attempts' = [AttemptsLeft EXCEPT ![ip] = Append(Tail(@), 0)]
    /\ let' = LetLeft
    /\ verdict' = [verdict EXCEPT ![ip] = "rate"]
    /\ UNCHANGED loop

\* A rejected attempt is not pushed, so it does not extend the window.
RejectRateLimit(ip) ==
    /\ BarredBy(ip) = 0 /\ Full(ip)
    /\ EvictStale(ip)
    /\ attempts' = AttemptsLeft /\ let' = LetLeft
    /\ verdict' = [verdict EXCEPT ![ip] = "rate"]
    /\ UNCHANGED loop

Accept(ip) ==
    /\ BarredBy(ip) = 0 /\ ~Full(ip)
    /\ EvictStale(ip)
    /\ attempts' = [AttemptsLeft EXCEPT ![ip] = Append(@, 0)]
    /\ let' = [LetLeft EXCEPT ![ip] = Append(@, 0)]
    /\ verdict' = [verdict EXCEPT ![ip] = "accept"]
    /\ LetIn(ip)

\* Loopback is let in and leaves no trace.
AcceptLoopback(ip) ==
    /\ LetIn(ip)
    /\ verdict' = [verdict EXCEPT ![ip] = "accept"]
    /\ UNCHANGED <<table, let, bad, sinceBad>>

\* The accept loop takes one newcomer at a time.
OnAccept(ip) ==
    /\ candidate = NoIp
    /\ IF ip \in Exempt THEN AcceptLoopback(ip)
       ELSE RejectCooldown(ip) \/ RejectRateLimit(ip) \/ Accept(ip)

-------------------------------------------------------------------------------
(* The end of a connection.                                                *)

More(n) == IF n < MaxFailures THEN n + 1 ELSE n

Failure(ip) ==
    LET n == More(failures[ip]) IN
    /\ failures' = [failures EXCEPT ![ip] = n]
    /\ cooldown' = IF FailureThreshold > 0 /\ n >= FailureThreshold
                   THEN [cooldown EXCEPT ![ip] = EscalatedCooldown(n)]
                   ELSE cooldown
    /\ bad' = [bad EXCEPT ![ip] = More(@)]
    /\ sinceBad' = [sinceBad EXCEPT ![ip] = 0]

Success(ip) ==
    /\ failures' = [failures EXCEPT ![ip] = 0]
    /\ cooldown' = [cooldown EXCEPT ![ip] = 0]
    /\ bad' = [bad EXCEPT ![ip] = 0]
    /\ UNCHANGED sinceBad

\* classify_outcome: only a connection that ends soon, and with an error, counts.
Classified(errored) == errored /\ age < FailfastWindow

\* record_outcome: an entry evicted meanwhile comes back.
RecordOutcome(ip, errored) ==
    IF ip \in Exempt THEN UNCHANGED <<touched, failures, cooldown, bad, sinceBad>>
    ELSE /\ touched' = Append(SelectSeq(touched, LAMBDA other : other # ip), ip)
         /\ IF Classified(errored) THEN Failure(ip) ELSE Success(ip)

\* The served connection ends, with an error or without: on_disconnected.
OnDisconnected(errored) ==
    /\ served # NoIp
    /\ RecordOutcome(served, errored)
    /\ served' = NoIp /\ age' = 0
    /\ UNCHANGED <<attempts, candidate, verdict, let>>

\* A candidate whose credentials are refused, or that takes too long or loses
\* its connection: the loop drops it, and calls no hook of its end.
CandidateRejected ==
    /\ candidate # NoIp
    /\ candidate' = NoIp
    /\ UNCHANGED <<table, served, age, history>>

\* The candidate is served once the connection before it has ended.
CandidateServed ==
    /\ candidate # NoIp /\ served = NoIp
    /\ served' = candidate /\ candidate' = NoIp /\ age' = 0
    /\ UNCHANGED <<table, history>>

Older(ages) == [i \in DOMAIN ages |-> IF ages[i] > Window THEN ages[i] ELSE ages[i] + 1]

Tick ==
    /\ attempts' = [ip \in Ip |-> Older(attempts[ip])]
    /\ cooldown' = [ip \in Ip |-> IF cooldown[ip] = 0 THEN 0 ELSE cooldown[ip] - 1]
    /\ age' = IF served # NoIp /\ age < FailfastWindow THEN age + 1 ELSE age
    /\ let' = [ip \in Ip |-> Since(Older(let[ip]), Window)]
    /\ sinceBad' = [ip \in Ip |->
                      IF sinceBad[ip] < MaxCooldown THEN sinceBad[ip] + 1 ELSE sinceBad[ip]]
    /\ UNCHANGED <<touched, failures, served, candidate, verdict, bad>>

Next ==
    \/ \E ip \in Ip : OnAccept(ip)
    \/ \E errored \in BOOLEAN : OnDisconnected(errored)
    \/ CandidateRejected \/ CandidateServed \/ Tick

Spec == Init /\ [][Next]_vars

\* Time passes, no candidate is negotiated with for ever, and a client that keeps
\* trying is taken from the backlog; nothing is assumed of the others.
FairSpec ==
    /\ Spec
    /\ WF_vars(Tick) /\ WF_vars(CandidateRejected)
    /\ \A ip \in Persistent : SF_vars(OnAccept(ip))

-------------------------------------------------------------------------------
(* Properties.                                                             *)

LetInNow(ip) == \/ served = NoIp /\ candidate = NoIp /\ served' = ip
                \/ candidate = NoIp /\ candidate' = ip

\* An address with that many failures in a row is not let in before the cooldown
\* escalated for their number has passed since the last, whatever was pruned,
\* rejected or ended meanwhile; only the cap on the table forgets them.
LockoutHolds ==
    [][\A ip \in Ip \ Exempt :
         LetInNow(ip) /\ bad'[ip] >= FailureThreshold /\ FailureThreshold > 0
           => sinceBad[ip] >= EscalatedCooldown(bad'[ip])]_vars

\* No more than max_attempts connections of an address are let in within any
\* window, over whichever of the loop's two ways in they came.
WindowBound ==
    MaxAttempts > 0 => \A ip \in Ip \ Exempt : Len(let[ip]) <= MaxAttempts

\* Whoever is rejected and keeps trying is let in, whatever the others do: rejected
\* attempts extend neither the window nor the lockout.
RejectedGetsIn ==
    \A ip \in Persistent : verdict[ip] \in {"rate", "cooldown"} ~> verdict[ip] = "accept"
===============================================================================
