--------------------------- MODULE AuthGuard_proofs ---------------------------
(***************************************************************************)
(* The lockout and the rate limit of AuthGuard, for every table, window,   *)
(* threshold and cooldown.                                                 *)
(*                                                                         *)
(* The lockout's invariant keeps the guard's books beside the record of    *)
(* what really happened: the failures it counts are those since the last   *)
(* success or the last time the cap forgot the address, and what is left   *)
(* of a cooldown and what has passed since the failure make up its length. *)
(*                                                                         *)
(* The rate limit's invariant is that the queue an entry is pruned to and  *)
(* the record of what was let in are the same, for every address.          *)
(***************************************************************************)
EXTENDS AuthGuard, SequenceTheorems, WellFoundedInduction, TLAPS

Left(ip) == IF cooldown[ip] > 0 THEN cooldown[ip] ELSE 0

Counted == failures \in [Ip -> Nat] /\ bad = failures

Timed == cooldown \in [Ip -> Int] /\ sinceBad \in [Ip -> 0..MaxCooldown]

Waited ==
    \A ip \in Ip : FailureThreshold > 0 /\ failures[ip] >= FailureThreshold
                      => Left(ip) + sinceBad[ip] >= EscalatedCooldown(failures[ip])

Slots == served \in Ip \cup {NoIp} /\ candidate \in Ip \cup {NoIp}

Books == Slots /\ Counted /\ Timed /\ Waited

USE DEF loop, table, history

\* An escalated cooldown is a number, and capped.
LEMMA CooldownCapped ==
    ASSUME NEW n \in Nat, n >= FailureThreshold
    PROVE  EscalatedCooldown(n) \in Int /\ EscalatedCooldown(n) <= MaxCooldown
<1>1. n - FailureThreshold \in Nat
  BY ConfigAssumption
<1>2. 2 ^ (n - FailureThreshold) \in Int
  BY <1>1
<1>3. BaseCooldown * 2 ^ (n - FailureThreshold) \in Int
  <2> DEFINE power == 2 ^ (n - FailureThreshold)
  <2>1. power \in Int
    BY <1>2
  <2> HIDE DEF power
  <2>2. BaseCooldown * power \in Int
    BY <2>1, ConfigAssumption
  <2> QED BY <2>2 DEF power
<1> QED BY <1>3, ConfigAssumption DEF EscalatedCooldown

\* Whatever evict_stale takes, a failure count and its record go together, and
\* what stays is unchanged.
LEMMA EvictionKeepsBooks ==
    ASSUME Books, NEW ip \in Ip, EvictStale(ip)
    PROVE  /\ Counted' /\ Timed' /\ Waited'
           /\ \A i \in Ip : failures'[i] # 0 =>
                 failures'[i] = failures[i] /\ CooldownLeft[i] = cooldown[i]
<1> DEFINE kept == Kept
<1>1. failures' = [i \in Ip |-> IF i \in kept THEN failures[i] ELSE 0]
  BY DEF EvictStale
<1>2. cooldown' = [i \in Ip |-> IF i \in kept THEN cooldown[i] ELSE 0]
  BY DEF EvictStale, CooldownLeft
<1>3. bad' = [i \in Ip |-> IF i \in Ip \ kept /\ ~IsIdle(i) THEN 0 ELSE bad[i]]
  BY DEF EvictStale, Forgotten
<1>4. sinceBad' = sinceBad
  BY DEF EvictStale
<1>5. CooldownLeft = [i \in Ip |-> IF i \in kept THEN cooldown[i] ELSE 0]
  BY DEF CooldownLeft
<1> HIDE DEF kept
<1>6. Counted'
  <2>1. ASSUME NEW i \in Ip PROVE bad'[i] = failures'[i]
    <3>1. CASE i \in kept
      BY <3>1, <1>1, <1>3 DEF Books, Counted
    <3>2. CASE i \notin kept /\ IsIdle(i)
      BY <3>2, <1>1, <1>3 DEF Books, Counted, IsIdle
    <3>3. CASE i \notin kept /\ ~IsIdle(i)
      BY <3>3, <1>1, <1>3
    <3> QED BY <3>1, <3>2, <3>3
  <2>2. failures' \in [Ip -> Nat]
    BY <1>1 DEF Books, Counted
  <2>3. bad' = [i \in Ip |-> bad'[i]]
    BY <1>3
  <2>4. failures' = [i \in Ip |-> failures'[i]]
    BY <1>1
  <2> QED BY <2>1, <2>2, <2>3, <2>4 DEF Counted
<1>7. Timed'
  BY <1>2, <1>4 DEF Books, Timed
<1>8. Waited'
  <2> SUFFICES ASSUME NEW i \in Ip, FailureThreshold > 0, failures'[i] >= FailureThreshold
               PROVE  Left(i)' + sinceBad'[i] >= EscalatedCooldown(failures'[i])
    BY DEF Waited, EscalatedCooldown
  <2>1. i \in kept
    BY <1>1, ConfigAssumption
  <2> QED BY <2>1, <1>1, <1>2, <1>4 DEF Books, Waited, Left
<1>9. \A i \in Ip : failures'[i] # 0 =>
         failures'[i] = failures[i] /\ CooldownLeft[i] = cooldown[i]
  BY <1>1, <1>5
<1> QED BY <1>6, <1>7, <1>8, <1>9

\* The end of a connection: a failure starts the cooldown it has earned, a success
\* forgives.
LEMMA OutcomesKeepBooks ==
    ASSUME Books, NEW errored \in BOOLEAN, OnDisconnected(errored)
    PROVE  Books'
<1>1. served \in Ip /\ Slots'
  BY DEF OnDisconnected, Books, Slots
<1> DEFINE ip == served
<1>2. CASE UNCHANGED <<touched, failures, cooldown, bad, sinceBad>>
  BY <1>1, <1>2 DEF Books, Counted, Timed, Waited, Left, EscalatedCooldown
<1>3. CASE Failure(ip)
  <2> DEFINE n == More(failures[ip])
  <2>1. n \in Nat
    BY <1>1, ConfigAssumption DEF Books, Counted, More
  <2>2. Counted'
    BY <1>1, <1>3, <2>1 DEF Books, Counted, Failure
  <2>3. /\ failures' = [failures EXCEPT ![ip] = n]
        /\ sinceBad' = [sinceBad EXCEPT ![ip] = 0]
        /\ cooldown' = IF FailureThreshold > 0 /\ n >= FailureThreshold
                       THEN [cooldown EXCEPT ![ip] = EscalatedCooldown(n)]
                       ELSE cooldown
    BY <1>3 DEF Failure
  <2>4. FailureThreshold > 0 /\ n >= FailureThreshold
           => EscalatedCooldown(n) \in Int
    BY <2>1, CooldownCapped
  <2> HIDE DEF n
  <2>5. Timed'
    BY <1>1, <2>3, <2>4, ConfigAssumption DEF Books, Timed
  <2>6. Waited'
    <3> SUFFICES ASSUME NEW i \in Ip, FailureThreshold > 0, failures'[i] >= FailureThreshold
                 PROVE  Left(i)' + sinceBad'[i] >= EscalatedCooldown(failures'[i])
      BY DEF Waited, EscalatedCooldown
    <3>1. CASE i = ip
      <4>1. failures'[i] = n /\ sinceBad'[i] = 0
        BY <3>1, <1>1, <2>3 DEF Books, Counted, Timed
      <4>2. cooldown'[i] = EscalatedCooldown(n)
        BY <3>1, <4>1, <1>1, <2>3 DEF Books, Timed
      <4> QED BY <4>1, <4>2, <2>4 DEF Left
    <3>2. CASE i # ip
      <4>1. /\ failures'[i] = failures[i] /\ sinceBad'[i] = sinceBad[i]
            /\ cooldown'[i] = cooldown[i]
        BY <3>2, <1>1, <2>3 DEF Books, Counted, Timed
      <4> QED BY <4>1 DEF Books, Waited, Left
    <3> QED BY <3>1, <3>2
  <2> QED BY <1>1, <2>2, <2>5, <2>6 DEF Books
<1>4. CASE Success(ip)
  <2>1. Counted'
    BY <1>1, <1>4 DEF Books, Counted, Success
  <2>2. Timed'
    BY <1>1, <1>4 DEF Books, Timed, Success
  <2>3. Waited'
    <3> SUFFICES ASSUME NEW i \in Ip, FailureThreshold > 0, failures'[i] >= FailureThreshold
                 PROVE  Left(i)' + sinceBad'[i] >= EscalatedCooldown(failures'[i])
      BY DEF Waited, EscalatedCooldown
    <3>1. i # ip
      BY <1>1, <1>4, ConfigAssumption DEF Books, Counted, Success
    <3>2. /\ failures'[i] = failures[i] /\ sinceBad'[i] = sinceBad[i]
          /\ cooldown'[i] = cooldown[i]
      BY <3>1, <1>1, <1>4 DEF Books, Counted, Timed, Success
    <3> QED BY <3>2 DEF Books, Waited, Left
  <2> QED BY <1>1, <2>1, <2>2, <2>3 DEF Books
<1> QED BY <1>2, <1>3, <1>4 DEF OnDisconnected, RecordOutcome

\* A tick takes from what is left of a cooldown what it adds to the time passed.
LEMMA TicksKeepBooks ==
    ASSUME Books, Tick
    PROVE  Books'
<1>1. /\ cooldown' = [ip \in Ip |-> IF cooldown[ip] = 0 THEN 0 ELSE cooldown[ip] - 1]
      /\ sinceBad' = [ip \in Ip |->
            IF sinceBad[ip] < MaxCooldown THEN sinceBad[ip] + 1 ELSE sinceBad[ip]]
      /\ failures' = failures /\ bad' = bad /\ UNCHANGED <<served, candidate>>
  BY DEF Tick
<1>2. Timed'
  BY <1>1, ConfigAssumption DEF Books, Timed
<1>3. Waited'
  <2> SUFFICES ASSUME NEW i \in Ip, FailureThreshold > 0, failures[i] >= FailureThreshold
               PROVE  Left(i)' + sinceBad'[i] >= EscalatedCooldown(failures[i])
    BY <1>1 DEF Waited, EscalatedCooldown
  <2>1. /\ EscalatedCooldown(failures[i]) \in Int
        /\ EscalatedCooldown(failures[i]) <= MaxCooldown
    BY CooldownCapped DEF Books, Counted
  <2>2. Left(i) + sinceBad[i] >= EscalatedCooldown(failures[i])
    BY DEF Books, Waited
  <2> QED BY <1>1, <2>1, <2>2, ConfigAssumption DEF Books, Timed, Left
<1> QED BY <1>1, <1>2, <1>3 DEF Books, Slots, Counted

LEMMA BooksHold == Spec => []Books
<1>1. Init => Books
  <2> SUFFICES ASSUME Init PROVE Books
    OBVIOUS
  <2>1. Counted /\ Timed
    BY ConfigAssumption DEF Init, Counted, Timed
  <2>2. Waited
    BY ConfigAssumption DEF Init, Waited
  <2> QED BY <2>1, <2>2 DEF Init, Books, Slots
<1>2. Books /\ [Next]_vars => Books'
  <2> SUFFICES ASSUME Books, [Next]_vars PROVE Books'
    OBVIOUS
  <2>1. ASSUME NEW ip \in Ip, OnAccept(ip) PROVE Books'
    <3>1. Slots'
      BY <2>1 DEF OnAccept, AcceptLoopback, RejectCooldown, RejectRateLimit, Accept, LetIn,
                  Books, Slots
    <3>2. CASE ip \in Exempt
      <4>1. UNCHANGED <<failures, cooldown, bad, sinceBad>>
        BY <2>1, <3>2 DEF OnAccept, AcceptLoopback
      <4> QED BY <3>1, <4>1 DEF Books, Counted, Timed, Waited, Left, EscalatedCooldown
    <3>3. CASE ip \notin Exempt
      <4>1. EvictStale(ip)
        BY <2>1, <3>3 DEF OnAccept, RejectCooldown, RejectRateLimit, Accept
      <4> QED BY <3>1, <4>1, EvictionKeepsBooks DEF Books
    <3> QED BY <3>2, <3>3
  <2>2. ASSUME NEW errored \in BOOLEAN, OnDisconnected(errored) PROVE Books'
    BY <2>2, OutcomesKeepBooks
  <2>3. CASE CandidateRejected
    BY <2>3 DEF CandidateRejected, Books, Slots, Counted, Timed, Waited, Left, EscalatedCooldown
  <2>4. CASE CandidateServed
    BY <2>4 DEF CandidateServed, Books, Slots, Counted, Timed, Waited, Left, EscalatedCooldown
  <2>5. CASE Tick
    BY <2>5, TicksKeepBooks
  <2>6. CASE UNCHANGED vars
    BY <2>6 DEF vars, Books, Slots, Counted, Timed, Waited, Left, EscalatedCooldown
  <2> QED BY <2>1, <2>2, <2>3, <2>4, <2>5, <2>6 DEF Next
<1> QED BY <1>1, <1>2, PTL DEF Spec

\* An address with that many failures in a row is not let in before the cooldown
\* escalated for their number has passed since the last, for any table, window,
\* threshold and cooldown: decide looks at the lockout before anything else.
THEOREM LockoutsHold == Spec => LockoutHolds
<1>1. Books /\ [Next]_vars =>
        [\A ip \in Ip \ Exempt :
            LetInNow(ip) /\ bad'[ip] >= FailureThreshold /\ FailureThreshold > 0
              => sinceBad[ip] >= EscalatedCooldown(bad'[ip])]_vars
  <2> SUFFICES ASSUME Books, Next, NEW ip \in Ip \ Exempt, LetInNow(ip),
                      bad'[ip] >= FailureThreshold, FailureThreshold > 0
               PROVE  sinceBad[ip] >= EscalatedCooldown(bad'[ip])
    BY DEF vars
  <2>1. Accept(ip)
    <3>1. ip # NoIp
      BY IpAssumption
    <3>2. ASSUME NEW other \in Ip, OnAccept(other) PROVE Accept(ip)
      <4>1. LetIn(other)
        BY <3>1, <3>2 DEF OnAccept, RejectCooldown, RejectRateLimit, Accept, AcceptLoopback, LetInNow
      <4>2. other = ip
        BY <3>1, <4>1, <3>2 DEF LetIn, LetInNow, OnAccept
      <4> QED BY <3>1, <3>2, <4>2 DEF OnAccept, RejectCooldown, RejectRateLimit, LetInNow
    <3>3. ASSUME NEW errored \in BOOLEAN, OnDisconnected(errored) PROVE FALSE
      BY <3>1, <3>3 DEF OnDisconnected, LetInNow
    <3>4. ~CandidateRejected
      BY DEF CandidateRejected, LetInNow
    <3>5. ~CandidateServed
      BY DEF CandidateServed, LetInNow
    <3>6. ~Tick
      <4>1. Tick => UNCHANGED <<served, candidate>>
        BY DEF Tick
      <4> QED BY <3>1, <4>1 DEF LetInNow
    <3> QED BY <3>2, <3>3, <3>4, <3>5, <3>6 DEF Next
  <2>2. EvictStale(ip) /\ BarredBy(ip) = 0
    BY <2>1 DEF Accept
  <2>3. /\ Counted'
        /\ failures'[ip] # 0 => failures'[ip] = failures[ip] /\ CooldownLeft[ip] = cooldown[ip]
    BY <2>2, EvictionKeepsBooks
  <2>4. failures'[ip] = bad'[ip] /\ failures'[ip] # 0
    BY <2>3, ConfigAssumption DEF Counted
  <2>5. bad'[ip] = failures[ip] /\ cooldown[ip] = 0
    BY <2>2, <2>3, <2>4 DEF BarredBy
  <2>6. 0 + sinceBad[ip] >= EscalatedCooldown(failures[ip])
    BY <2>5 DEF Books, Waited, Left
  <2> QED BY <2>5, <2>6 DEF Books, Timed
<1> QED BY <1>1, BooksHold, PTL DEF Spec, LockoutHolds

-------------------------------------------------------------------------------
(* What is popped from the front of a window.                              *)

\* n ages are popped: those over the limit, up to the first that is not.
Pops(ages, limit, n) ==
    /\ n \in 0..Len(ages)
    /\ \A i \in 1..n : ages[i] > limit
    /\ n < Len(ages) => ages[n + 1] <= limit

\* What is left of a window after the first n of its ages.
LEMMA Tails ==
    ASSUME NEW ages \in Seq(Int), NEW n \in Nat, n <= Len(ages)
    PROVE  /\ SubSeq(ages, n + 1, Len(ages)) \in Seq(Int)
           /\ Len(SubSeq(ages, n + 1, Len(ages))) = Len(ages) - n
           /\ \A i \in 1..(Len(ages) - n) : SubSeq(ages, n + 1, Len(ages))[i] = ages[n + i]
<1> DEFINE a == n + 1
           b == Len(ages)
<1>1. b \in Nat /\ a \in Int /\ 1 <= a /\ b - a + 1 = b - n /\ a <= b + 1
  OBVIOUS
<1>2. \A i \in a..b : ages[i] \in Int
  BY <1>1
<1>3. \A i \in Int : a + i - 1 = n + i
  OBVIOUS
<1> HIDE DEF a, b
<1>4. /\ SubSeq(ages, a, b) \in Seq(Int)
      /\ Len(SubSeq(ages, a, b)) = IF a <= b THEN b - a + 1 ELSE 0
      /\ \A i \in 1..(b - a + 1) : SubSeq(ages, a, b)[i] = ages[a + i - 1]
  BY <1>1, <1>2, SubSeqProperties
<1>5. Len(SubSeq(ages, a, b)) = b - n
  BY <1>1, <1>4
<1>6. ASSUME NEW i \in 1..(b - n) PROVE SubSeq(ages, a, b)[i] = ages[n + i]
  <2>1. i \in 1..(b - a + 1) /\ a + i - 1 = n + i
    BY <1>1, <1>3
  <2> QED BY <2>1, <1>4
<1> QED BY <1>4, <1>5, <1>6 DEF a, b

\* A set of naturals has a least member.
LEMMA LeastOf ==
    ASSUME NEW S, S \subseteq Nat, S # {}
    PROVE  \E n \in S : \A m \in S : n <= m
<1>1. PICK n \in S : \A m \in S : ~(<<m, n>> \in OpToRel(<, Nat))
  BY WFMin, NatLessThanWellFounded
<1>2. ASSUME NEW m \in S, m < n PROVE FALSE
  <2>1. <<m, n>> \in OpToRel(<, Nat)
    BY <1>2 DEF OpToRel
  <2> QED BY <1>1, <2>1
<1> QED BY <1>2

\* Popping stops somewhere.
LEMMA PoppingStops ==
    ASSUME NEW ages \in Seq(Int), NEW limit \in Int
    PROVE  \E n \in 0..Len(ages) : Pops(ages, limit, n)
<1> DEFINE stops == {n \in 0..Len(ages) : n < Len(ages) => ages[n + 1] <= limit}
<1>1. Len(ages) \in Nat /\ \A i \in 1..Len(ages) : ages[i] \in Int
  OBVIOUS
<1>2. stops \subseteq Nat /\ Len(ages) \in stops
  BY <1>1
<1>3. PICK n \in stops : \A m \in stops : n <= m
  <2> HIDE DEF stops
  <2> QED BY <1>2, LeastOf
<1>4. ASSUME NEW i \in 1..n PROVE ages[i] > limit
  <2>1. i - 1 \in 0..Len(ages) /\ i - 1 < Len(ages) /\ i - 1 < n /\ (i - 1) + 1 = i
    BY <1>1
  <2>2. i - 1 \notin stops
    BY <1>3, <2>1
  <2>3. ~(ages[i] <= limit) /\ ages[i] \in Int
    BY <1>1, <2>1, <2>2
  <2> QED BY <2>3
<1> QED BY <1>4 DEF Pops

\* It stops at one place only.
LEMMA PopsAreOne ==
    ASSUME NEW ages \in Seq(Int), NEW limit \in Int, NEW m, NEW n,
           Pops(ages, limit, m), Pops(ages, limit, n)
    PROVE  m = n
<1>1. Len(ages) \in Nat /\ \A i \in 1..Len(ages) : ages[i] \in Int
  OBVIOUS
<1>2. m \in Nat /\ n \in Nat /\ m <= Len(ages) /\ n <= Len(ages)
  BY <1>1 DEF Pops
<1>3. ~(m < n)
  <2> SUFFICES ASSUME m < n PROVE FALSE
    OBVIOUS
  <2>1. m + 1 \in 1..n /\ m < Len(ages) /\ m + 1 \in 1..Len(ages)
    BY <1>1, <1>2
  <2>2. ages[m + 1] \in Int /\ ages[m + 1] <= limit /\ ages[m + 1] > limit
    BY <1>1, <2>1 DEF Pops
  <2> QED BY <2>2
<1>4. ~(n < m)
  <2> SUFFICES ASSUME n < m PROVE FALSE
    OBVIOUS
  <2>1. n + 1 \in 1..m /\ n < Len(ages) /\ n + 1 \in 1..Len(ages)
    BY <1>1, <1>2
  <2>2. ages[n + 1] \in Int /\ ages[n + 1] <= limit /\ ages[n + 1] > limit
    BY <1>1, <2>1 DEF Pops
  <2> QED BY <2>2
<1> QED BY <1>2, <1>3, <1>4

\* What Since leaves.
LEMMA SinceIs ==
    ASSUME NEW ages \in Seq(Int), NEW limit \in Int, NEW n, Pops(ages, limit, n)
    PROVE  Since(ages, limit) = SubSeq(ages, n + 1, Len(ages))
<1> DEFINE popped == CHOOSE k \in 0..Len(ages) :
                       /\ \A i \in 1..k : ages[i] > limit
                       /\ k < Len(ages) => ages[k + 1] <= limit
<1>1. n \in 0..Len(ages) /\ (\A i \in 1..n : ages[i] > limit)
        /\ (n < Len(ages) => ages[n + 1] <= limit)
  BY DEF Pops
<1>2. Pops(ages, limit, popped)
  BY <1>1 DEF Pops
<1>3. popped = n
  <2> HIDE DEF popped
  <2> QED BY <1>2, PopsAreOne
<1>4. Since(ages, limit) = SubSeq(ages, popped + 1, Len(ages))
  BY DEF Since
<1> QED BY <1>3, <1>4

\* The same, with the place where it stops.
LEMMA SinceCuts ==
    ASSUME NEW ages \in Seq(Int), NEW limit \in Int
    PROVE  /\ Since(ages, limit) \in Seq(Int)
           /\ Len(Since(ages, limit)) <= Len(ages)
           /\ Pops(Since(ages, limit), limit, 0)
<1>1. PICK n \in 0..Len(ages) : Pops(ages, limit, n)
  BY PoppingStops
<1> DEFINE left == SubSeq(ages, n + 1, Len(ages))
<1>2. Since(ages, limit) = left
  BY <1>1, SinceIs
<1>3. n \in Nat /\ Len(ages) \in Nat /\ n <= Len(ages)
  BY <1>1
<1>4. left \in Seq(Int) /\ Len(left) = Len(ages) - n
      /\ \A i \in 1..(Len(ages) - n) : left[i] = ages[n + i]
  BY <1>3, Tails
<1>5. Pops(left, limit, 0)
  <2>1. 0 < Len(left) => left[0 + 1] <= limit
    BY <1>1, <1>3, <1>4 DEF Pops
  <2> HIDE DEF left
  <2> QED BY <1>3, <1>4, <2>1 DEF Pops
<1> HIDE DEF left
<1> QED BY <1>2, <1>3, <1>4, <1>5

\* Where nothing is to be popped, Since leaves everything.
LEMMA NothingPopped ==
    ASSUME NEW ages \in Seq(Int), NEW limit \in Int, Pops(ages, limit, 0)
    PROVE  Since(ages, limit) = ages
<1>1. Since(ages, limit) = SubSeq(ages, 0 + 1, Len(ages))
  BY SinceIs
<1>2. SubSeq(ages, 1, Len(ages)) = ages
  OBVIOUS
<1> QED BY <1>1, <1>2

\* An attempt of now, appended to what was left, stays with it.
LEMMA SinceAppended ==
    ASSUME NEW ages \in Seq(Int), NEW limit \in Nat, Pops(ages, limit, 0)
    PROVE  Since(Append(ages, 0), limit) = Append(ages, 0)
<1> DEFINE longer == Append(ages, 0)
<1>1. longer \in Seq(Int) /\ Len(longer) = Len(ages) + 1
      /\ longer[1] = IF Len(ages) = 0 THEN 0 ELSE ages[1]
  BY AppendProperties
<1>2. Len(ages) \in Nat
  OBVIOUS
<1>3. longer[1] <= limit
  BY <1>1, <1>2 DEF Pops
<1> HIDE DEF longer
<1>4. Pops(longer, limit, 0)
  BY <1>1, <1>2, <1>3 DEF Pops
<1>5. Since(longer, limit) = longer
  BY <1>1, <1>4, NothingPopped
<1> QED BY <1>5 DEF longer

\* What a tick makes of a window.
LEMMA OlderIs ==
    ASSUME NEW ages \in Seq(Int)
    PROVE  /\ Older(ages) \in Seq(Int) /\ Len(Older(ages)) = Len(ages)
           /\ \A i \in 1..Len(ages) :
                 Older(ages)[i] = IF ages[i] > Window THEN ages[i] ELSE ages[i] + 1
<1>1. DOMAIN ages = 1..Len(ages) /\ Len(ages) \in Nat
  OBVIOUS
<1>2. Older(ages) = [i \in 1..Len(ages) |->
                       IF ages[i] > Window THEN ages[i] ELSE ages[i] + 1]
  BY <1>1 DEF Older
<1>3. \A i \in 1..Len(ages) : (IF ages[i] > Window THEN ages[i] ELSE ages[i] + 1) \in Int
  BY <1>1
<1> QED BY <1>1, <1>2, <1>3

\* It does not matter whether what is over the limit was popped before a tick.
LEMMA SinceOlder ==
    ASSUME NEW ages \in Seq(Int)
    PROVE  Since(Older(ages), Window) = Since(Older(Since(ages, Window)), Window)
<1>1. PICK n \in 0..Len(ages) : Pops(ages, Window, n)
  BY PoppingStops, ConfigAssumption
<1> DEFINE left == SubSeq(ages, n + 1, Len(ages))
           aged == Older(ages)
           after == Older(left)
<1>2. Since(ages, Window) = left
  <2>1. Window \in Int
    BY ConfigAssumption
  <2> QED BY <1>1, <2>1, SinceIs
<1>3. n \in Nat /\ Len(ages) \in Nat /\ n <= Len(ages) /\ Window \in Nat
  BY <1>1, ConfigAssumption
<1>4. left \in Seq(Int) /\ Len(left) = Len(ages) - n
      /\ \A i \in 1..(Len(ages) - n) : left[i] = ages[n + i]
  BY <1>3, Tails
<1>5. aged \in Seq(Int) /\ Len(aged) = Len(ages)
      /\ \A i \in 1..Len(ages) :
            aged[i] = IF ages[i] > Window THEN ages[i] ELSE ages[i] + 1
  BY OlderIs
<1>6. after \in Seq(Int) /\ Len(after) = Len(ages) - n
      /\ \A i \in 1..(Len(ages) - n) : after[i] = aged[n + i]
  <2>1. after \in Seq(Int) /\ Len(after) = Len(left)
        /\ \A i \in 1..Len(left) :
              after[i] = IF left[i] > Window THEN left[i] ELSE left[i] + 1
    BY <1>4, OlderIs
  <2> HIDE DEF left, aged, after
  <2>2. ASSUME NEW i \in 1..(Len(ages) - n) PROVE after[i] = aged[n + i]
    <3>1. n + i \in 1..Len(ages)
      BY <1>3
    <3> QED BY <3>1, <1>4, <1>5, <2>1
  <2> QED BY <1>4, <2>1, <2>2
<1> HIDE DEF left, aged, after
<1>7. PICK k \in 0..Len(aged) : Pops(aged, Window, k)
  BY PoppingStops, <1>5, <1>3
<1>8. k \in Nat /\ k <= Len(ages) /\ n <= k
  <2>1. ASSUME k < n PROVE FALSE
    <3>1. k + 1 \in 1..n /\ k + 1 \in 1..Len(ages) /\ k < Len(aged)
      BY <2>1, <1>3, <1>5, <1>7
    <3>2. ages[k + 1] > Window /\ ages[k + 1] \in Int
      BY <3>1, <1>1 DEF Pops
    <3>3. aged[k + 1] = ages[k + 1]
      BY <3>1, <3>2, <1>5
    <3>4. aged[k + 1] <= Window
      BY <3>1, <1>7 DEF Pops
    <3> QED BY <3>2, <3>3, <3>4, <1>3
  <2> QED BY <2>1, <1>3, <1>5, <1>7
<1>9. Pops(after, Window, k - n)
  <2>1. k - n \in 0..Len(after)
    BY <1>3, <1>6, <1>8
  <2>2. ASSUME NEW i \in 1..(k - n) PROVE after[i] > Window
    <3>1. n + i \in 1..k /\ i \in 1..(Len(ages) - n)
      BY <1>3, <1>8
    <3> QED BY <3>1, <1>6, <1>7 DEF Pops
  <2>3. ASSUME k - n < Len(after) PROVE after[(k - n) + 1] <= Window
    <3>1. (k - n) + 1 \in 1..(Len(ages) - n) /\ n + ((k - n) + 1) = k + 1 /\ k < Len(aged)
      BY <2>3, <1>3, <1>5, <1>6, <1>8
    <3> QED BY <3>1, <1>6, <1>7 DEF Pops
  <2> QED BY <2>1, <2>2, <2>3 DEF Pops
<1>10. /\ Since(aged, Window) = SubSeq(aged, k + 1, Len(aged))
       /\ Since(after, Window) = SubSeq(after, (k - n) + 1, Len(after))
  <2>1. Window \in Int
    BY <1>3
  <2> QED BY <2>1, <1>5, <1>6, <1>7, <1>9, SinceIs
<1>11. SubSeq(aged, k + 1, Len(aged)) = SubSeq(after, (k - n) + 1, Len(after))
  <2> DEFINE one == SubSeq(aged, k + 1, Len(aged))
             two == SubSeq(after, (k - n) + 1, Len(after))
  <2>1. one \in Seq(Int) /\ Len(one) = Len(ages) - k
        /\ \A i \in 1..(Len(ages) - k) : one[i] = aged[k + i]
    BY <1>3, <1>5, <1>8, Tails
  <2>2. two \in Seq(Int) /\ Len(two) = Len(ages) - k
        /\ \A i \in 1..(Len(ages) - k) : two[i] = after[(k - n) + i]
    <3> DEFINE m == k - n
    <3>1. m \in Nat /\ m <= Len(after) /\ Len(after) - m = Len(ages) - k
      BY <1>3, <1>6, <1>8
    <3> HIDE DEF m
    <3>2. /\ SubSeq(after, m + 1, Len(after)) \in Seq(Int)
          /\ Len(SubSeq(after, m + 1, Len(after))) = Len(after) - m
          /\ \A i \in 1..(Len(after) - m) : SubSeq(after, m + 1, Len(after))[i] = after[m + i]
      BY <3>1, <1>6, Tails
    <3> QED BY <3>1, <3>2 DEF m
  <2>3. ASSUME NEW i \in 1..(Len(ages) - k) PROVE one[i] = two[i]
    <3>1. (k - n) + i \in 1..(Len(ages) - n) /\ n + ((k - n) + i) = k + i
      BY <1>3, <1>8
    <3> HIDE DEF one, two
    <3> QED BY <3>1, <1>6, <2>1, <2>2
  <2> HIDE DEF one, two
  <2>4. one = two
    BY <2>1, <2>2, <2>3, SeqEqual
  <2> QED BY <2>4 DEF one, two
<1> QED BY <1>2, <1>10, <1>11 DEF aged, after

-------------------------------------------------------------------------------
(* The sliding window.                                                     *)

Windowed == attempts \in [Ip -> Seq(Int)] /\ let \in [Ip -> Seq(Int)]

Recorded == \A ip \in Ip : let[ip] = Fresh(attempts[ip])

Rated == Windowed /\ Recorded /\ WindowBound

\* evict_stale leaves of each window what the record has of it: an idle entry has
\* nothing in its window, and what the cap takes the record forgets too.
LEMMA EvictionKeepsWindows ==
    ASSUME Rated
    PROVE  /\ AttemptsLeft \in [Ip -> Seq(Int)] /\ LetLeft \in [Ip -> Seq(Int)]
           /\ \A ip \in Ip : LetLeft[ip] = AttemptsLeft[ip] /\ Pops(LetLeft[ip], Window, 0)
           /\ \A ip \in Ip : Len(LetLeft[ip]) <= Len(let[ip])
<1> DEFINE kept == Kept
<1>1. AttemptsLeft = [ip \in Ip |-> IF ip \in kept THEN Fresh(attempts[ip]) ELSE <<>>]
  BY DEF AttemptsLeft
<1>2. LetLeft = [ip \in Ip |-> IF ip \in Ip \ kept /\ ~IsIdle(ip) THEN <<>> ELSE let[ip]]
  BY DEF LetLeft, Forgotten
<1> HIDE DEF kept
<1>3. Window \in Int
  BY ConfigAssumption
<1>4. \A ip \in Ip : attempts[ip] \in Seq(Int) /\ let[ip] \in Seq(Int)
  BY DEF Rated, Windowed
<1>5. <<>> \in Seq(Int) /\ Len(<<>>) = 0 /\ Pops(<<>>, Window, 0)
  <2>1. <<>> \in Seq(Int) /\ Len(<<>>) = 0
    OBVIOUS
  <2> QED BY <2>1 DEF Pops
<1>6. ASSUME NEW ip \in Ip
      PROVE  /\ Fresh(attempts[ip]) \in Seq(Int)
             /\ Pops(Fresh(attempts[ip]), Window, 0)
  BY <1>3, <1>4, SinceCuts DEF Fresh
<1>7. ASSUME NEW ip \in Ip
      PROVE  /\ LetLeft[ip] = AttemptsLeft[ip] /\ AttemptsLeft[ip] \in Seq(Int)
             /\ Pops(LetLeft[ip], Window, 0) /\ Len(LetLeft[ip]) <= Len(let[ip])
  <2>1. Len(let[ip]) \in Nat
    BY <1>4
  <2>2. let[ip] = Fresh(attempts[ip])
    BY DEF Rated, Recorded
  <2>3. CASE ip \in kept
    <3>1. LetLeft[ip] = let[ip] /\ AttemptsLeft[ip] = let[ip]
      BY <2>3, <2>2, <1>1, <1>2
    <3> QED BY <3>1, <2>1, <2>2, <1>6
  <2>4. CASE ip \notin kept
    <3>1. IsIdle(ip) => let[ip] = <<>>
      BY <2>2 DEF IsIdle
    <3>2. LetLeft[ip] = <<>> /\ AttemptsLeft[ip] = <<>>
      BY <2>4, <3>1, <1>1, <1>2
    <3> QED BY <3>2, <2>1, <1>5
  <2> QED BY <2>3, <2>4
<1>8. AttemptsLeft \in [Ip -> Seq(Int)]
  BY <1>1, <1>7
<1>9. LetLeft \in [Ip -> Seq(Int)]
  BY <1>2, <1>7
<1> QED BY <1>7, <1>8, <1>9

\* A decision that keeps what eviction left keeps the windows.
LEMMA RejectionsKeepWindows ==
    ASSUME Rated, attempts' = AttemptsLeft, let' = LetLeft
    PROVE  Rated'
<1>1. /\ AttemptsLeft \in [Ip -> Seq(Int)] /\ LetLeft \in [Ip -> Seq(Int)]
      /\ \A ip \in Ip : LetLeft[ip] = AttemptsLeft[ip] /\ Pops(LetLeft[ip], Window, 0)
      /\ \A ip \in Ip : Len(LetLeft[ip]) <= Len(let[ip])
  BY EvictionKeepsWindows
<1>2. Windowed'
  BY <1>1 DEF Windowed
<1>3. Recorded'
  <2> SUFFICES ASSUME NEW ip \in Ip PROVE let'[ip] = Since(attempts'[ip], Window)
    BY DEF Recorded, Fresh
  <2>1. LetLeft[ip] \in Seq(Int) /\ Window \in Int /\ Pops(LetLeft[ip], Window, 0)
    BY <1>1, ConfigAssumption
  <2> QED BY <2>1, <1>1, NothingPopped
<1>4. WindowBound'
  <2> SUFFICES ASSUME MaxAttempts > 0, NEW ip \in Ip \ Exempt
               PROVE  Len(let'[ip]) <= MaxAttempts
    BY DEF WindowBound
  <2>1. Len(let[ip]) <= MaxAttempts /\ Len(LetLeft[ip]) <= Len(let[ip])
    BY <1>1 DEF Rated, WindowBound
  <2>2. Len(let[ip]) \in Nat /\ Len(LetLeft[ip]) \in Nat
    BY <1>1 DEF Rated, Windowed
  <2> QED BY <2>1, <2>2, ConfigAssumption
<1> QED BY <1>2, <1>3, <1>4 DEF Rated

\* An address let in had room in the window the record tells.
LEMMA AcceptKeepsWindows ==
    ASSUME Rated, NEW ip \in Ip, Accept(ip)
    PROVE  Rated'
<1>1. /\ AttemptsLeft \in [Ip -> Seq(Int)] /\ LetLeft \in [Ip -> Seq(Int)]
      /\ \A i \in Ip : LetLeft[i] = AttemptsLeft[i] /\ Pops(LetLeft[i], Window, 0)
      /\ \A i \in Ip : Len(LetLeft[i]) <= Len(let[i])
  BY EvictionKeepsWindows
<1>2. /\ attempts' = [AttemptsLeft EXCEPT ![ip] = Append(AttemptsLeft[ip], 0)]
      /\ let' = [LetLeft EXCEPT ![ip] = Append(LetLeft[ip], 0)]
      /\ ~(MaxAttempts > 0 /\ Len(AttemptsLeft[ip]) >= MaxAttempts)
  BY DEF Accept, Full
<1>3. \A i \in Ip : LetLeft[i] \in Seq(Int) /\ AttemptsLeft[i] \in Seq(Int)
  BY <1>1
<1>4. Append(LetLeft[ip], 0) \in Seq(Int) /\ Append(AttemptsLeft[ip], 0) \in Seq(Int)
      /\ Len(Append(LetLeft[ip], 0)) = Len(LetLeft[ip]) + 1
  BY <1>3
<1>5. /\ attempts'[ip] = Append(LetLeft[ip], 0)
      /\ let'[ip] = Append(LetLeft[ip], 0)
  BY <1>1, <1>2
<1>6. ASSUME NEW i \in Ip, i # ip
      PROVE  attempts'[i] = LetLeft[i] /\ let'[i] = LetLeft[i]
  BY <1>1, <1>2, <1>6
<1>7. Windowed'
  BY <1>1, <1>2, <1>4 DEF Windowed
<1>8. Recorded'
  <2> SUFFICES ASSUME NEW i \in Ip PROVE let'[i] = Since(attempts'[i], Window)
    BY DEF Recorded, Fresh
  <2>1. LetLeft[i] \in Seq(Int) /\ Window \in Int /\ Window \in Nat
           /\ Pops(LetLeft[i], Window, 0)
    BY <1>1, <1>3, ConfigAssumption
  <2>2. CASE i = ip
    <3>1. Since(Append(LetLeft[i], 0), Window) = Append(LetLeft[i], 0)
      BY <2>1, SinceAppended
    <3>2. attempts'[i] = Append(LetLeft[i], 0) /\ let'[i] = Append(LetLeft[i], 0)
      BY <2>2, <1>5
    <3> QED BY <3>1, <3>2
  <2>3. CASE i # ip
    <3>1. Since(LetLeft[i], Window) = LetLeft[i]
      BY <2>1, NothingPopped
    <3>2. attempts'[i] = LetLeft[i] /\ let'[i] = LetLeft[i]
      BY <2>3, <1>6
    <3> QED BY <3>1, <3>2
  <2> QED BY <2>2, <2>3
<1>9. WindowBound'
  <2> SUFFICES ASSUME MaxAttempts > 0, NEW i \in Ip \ Exempt
               PROVE  Len(let'[i]) <= MaxAttempts
    BY DEF WindowBound
  <2>1. Len(let[i]) \in Nat /\ Len(LetLeft[i]) \in Nat /\ Len(LetLeft[ip]) \in Nat
        /\ MaxAttempts \in Nat
    BY <1>3, ConfigAssumption DEF Rated, Windowed
  <2>2. CASE i = ip
    <3>1. Len(LetLeft[ip]) < MaxAttempts
      BY <1>1, <1>2, <2>1
    <3>2. let'[i] = Append(LetLeft[ip], 0)
      BY <2>2, <1>5
    <3>3. Len(let'[i]) = Len(LetLeft[ip]) + 1
      BY <3>2, <1>4
    <3> QED BY <3>1, <3>3, <2>1
  <2>3. CASE i # ip
    <3>1. Len(let[i]) <= MaxAttempts /\ Len(LetLeft[i]) <= Len(let[i])
      BY <1>1 DEF Rated, WindowBound
    <3>2. let'[i] = LetLeft[i]
      BY <2>3, <1>6
    <3> QED BY <3>1, <3>2, <2>1
  <2> QED BY <2>2, <2>3
<1> QED BY <1>7, <1>8, <1>9 DEF Rated

\* A tick ages both alike.
LEMMA TicksKeepWindows ==
    ASSUME Rated, Tick
    PROVE  Rated'
<1>1. /\ attempts' = [ip \in Ip |-> Older(attempts[ip])]
      /\ let' = [ip \in Ip |-> Since(Older(let[ip]), Window)]
  BY DEF Tick
<1>2. \A ip \in Ip : attempts[ip] \in Seq(Int) /\ let[ip] \in Seq(Int)
  BY DEF Rated, Windowed
<1>3. Window \in Int
  BY ConfigAssumption
<1>4. ASSUME NEW ip \in Ip
      PROVE  /\ Older(attempts[ip]) \in Seq(Int) /\ Since(Older(let[ip]), Window) \in Seq(Int)
             /\ Len(Since(Older(let[ip]), Window)) <= Len(let[ip])
  <2>1. attempts[ip] \in Seq(Int) /\ let[ip] \in Seq(Int)
    BY <1>2
  <2>2. Older(attempts[ip]) \in Seq(Int)
    BY <2>1, OlderIs
  <2>3. Older(let[ip]) \in Seq(Int) /\ Len(Older(let[ip])) = Len(let[ip])
    BY <2>1, OlderIs
  <2> QED BY <2>2, <2>3, <1>3, SinceCuts
<1>5. Windowed'
  <2>1. attempts' \in [Ip -> Seq(Int)]
    BY <1>1, <1>4
  <2>2. let' \in [Ip -> Seq(Int)]
    BY <1>1, <1>4
  <2> QED BY <2>1, <2>2 DEF Windowed
<1>6. Recorded'
  <2> SUFFICES ASSUME NEW ip \in Ip PROVE let'[ip] = Since(attempts'[ip], Window)
    BY DEF Recorded, Fresh
  <2>1. attempts'[ip] = Older(attempts[ip]) /\ let'[ip] = Since(Older(let[ip]), Window)
    BY <1>1
  <2>2. let[ip] = Since(attempts[ip], Window)
    BY DEF Rated, Recorded, Fresh
  <2>3. attempts[ip] \in Seq(Int)
    BY <1>2
  <2> QED BY <2>1, <2>2, <2>3, SinceOlder
<1>7. WindowBound'
  <2> SUFFICES ASSUME MaxAttempts > 0, NEW ip \in Ip \ Exempt
               PROVE  Len(let'[ip]) <= MaxAttempts
    BY DEF WindowBound
  <2>1. let'[ip] = Since(Older(let[ip]), Window)
    BY <1>1
  <2>2. Len(let'[ip]) <= Len(let[ip]) /\ let'[ip] \in Seq(Int)
    BY <2>1, <1>4
  <2>3. Len(let[ip]) <= MaxAttempts
    BY DEF Rated, WindowBound
  <2>4. Len(let[ip]) \in Nat /\ Len(let'[ip]) \in Nat
    BY <1>2, <2>2
  <2> QED BY <2>2, <2>3, <2>4, ConfigAssumption
<1> QED BY <1>5, <1>6, <1>7 DEF Rated

\* No more than max_attempts connections of an address are let in within a window,
\* for any window, table and number of addresses: the guard's own queue, however it
\* was pruned, is the record of what was let in.
THEOREM WindowsAreBounded == Spec => []WindowBound
<1>1. Init => Rated
  <2> SUFFICES ASSUME Init PROVE Rated
    OBVIOUS
  <2>1. /\ attempts = [ip \in Ip |-> <<>>] /\ let = [ip \in Ip |-> <<>>]
    BY DEF Init
  <2>2. <<>> \in Seq(Int) /\ Len(<<>>) = 0 /\ Window \in Int
    BY ConfigAssumption
  <2>3. Windowed
    BY <2>1, <2>2 DEF Windowed
  <2>4. Pops(<<>>, Window, 0)
    BY <2>2 DEF Pops
  <2>5. Fresh(<<>>) = <<>>
    BY <2>2, <2>4, NothingPopped DEF Fresh
  <2>6. Recorded
    BY <2>1, <2>5 DEF Recorded
  <2>7. WindowBound
    <3>1. ASSUME MaxAttempts > 0, NEW ip \in Ip PROVE Len(let[ip]) <= MaxAttempts
      <4>1. let[ip] = <<>>
        BY <2>1
      <4>2. Len(let[ip]) = 0
        BY <4>1, <2>2
      <4> QED BY <4>2, ConfigAssumption
    <3> QED BY <3>1 DEF WindowBound
  <2> QED BY <2>3, <2>6, <2>7 DEF Rated
<1>2. Rated /\ [Next]_vars => Rated'
  <2> SUFFICES ASSUME Rated, [Next]_vars PROVE Rated'
    OBVIOUS
  <2>1. UNCHANGED <<attempts, let>> => Rated'
    BY DEF Rated, Windowed, Recorded, WindowBound, Fresh, Since
  <2>2. ASSUME NEW ip \in Ip, OnAccept(ip) PROVE Rated'
    <3>1. CASE AcceptLoopback(ip)
      BY <3>1, <2>1 DEF AcceptLoopback
    <3>2. CASE RejectCooldown(ip)
      BY <3>2, RejectionsKeepWindows DEF RejectCooldown
    <3>3. CASE RejectRateLimit(ip)
      BY <3>3, RejectionsKeepWindows DEF RejectRateLimit
    <3>4. CASE Accept(ip)
      BY <3>4, AcceptKeepsWindows
    <3> QED BY <2>2, <3>1, <3>2, <3>3, <3>4 DEF OnAccept
  <2>3. ASSUME NEW errored \in BOOLEAN, OnDisconnected(errored) PROVE Rated'
    BY <2>3, <2>1 DEF OnDisconnected
  <2>4. CASE CandidateRejected
    BY <2>4, <2>1 DEF CandidateRejected
  <2>5. CASE CandidateServed
    BY <2>5, <2>1 DEF CandidateServed
  <2>6. CASE Tick
    BY <2>6, TicksKeepWindows
  <2>7. CASE UNCHANGED vars
    BY <2>7, <2>1 DEF vars
  <2> QED BY <2>2, <2>3, <2>4, <2>5, <2>6, <2>7 DEF Next
<1>3. Rated => WindowBound
  BY DEF Rated
<1> QED BY <1>1, <1>2, <1>3, PTL DEF Spec
===============================================================================
