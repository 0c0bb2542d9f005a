------------------------ MODULE RdpeudpTransport_proofs ------------------------
(***************************************************************************)
(* What holds of RdpeudpTransport for any sequence space, initial numbers, *)
(* windows and numbers of payloads and faults: its buffers are sound, and  *)
(* it implements ReliableStream.                                           *)
(*                                                                         *)
(* The invariant says of every datagram, however old, what it may still    *)
(* claim (Carried), of every end what it received (Receiving) and how far  *)
(* it sent (Sending), and how far the two are with their handshake         *)
(* (Opening).  The first three take numbers and not variables, so that one *)
(* lemma serves a state and the next.                                      *)
(***************************************************************************)
EXTENDS RdpeudpTransport, SequenceTheorems, WellFoundedInduction, TLAPS

Upto(n) == [i \in 1..n |-> i]

Arrived(e) == Len(read[e])

\* A datagram of an end that sent payloads up to last and read them up to heard.
Carried(d, last, heard) ==
    /\ d.win = Window[Other(d.to)]
    /\ d.kind = "syn" => d.seq = Isn[Other(d.to)]
    /\ d.kind = "data" => d.payload \in 1..last /\ d.seq = SeqOf(Other(d.to), d.payload)
    /\ \/ \E k \in 0..heard : d.ack = SeqOf(d.to, k)
       \/ d.to = "server" /\ d.kind = "syn" /\ d.ack = SeqSpace - 1

\* What e received of the payloads up to last: heard in order, the rest in buffer.
Receiving(e, heard, have, next, buffer, last) ==
    /\ heard <= last
    /\ IF have THEN next = SeqOf(Other(e), heard + 1) ELSE heard = 0 /\ buffer = {}
    /\ \A b \in buffer : b.payload \in (heard + 2)..last /\ b.seq = SeqOf(Other(e), b.payload)

\* How far e is with what it writes, to a peer that read payloads up to heard.
Sending(e, have, window, to, out, acked, heard) ==
    /\ window = IF have THEN Window[Other(e)] ELSE 1
    /\ to <= Payloads[e] /\ out <= to /\ acked <= out
    /\ out <= acked + Window[Other(e)]
    /\ acked <= heard

Typed ==
    /\ state \in [End -> {"listen", "synSent", "established"}]
    /\ havePeer \in [End -> BOOLEAN]
    /\ peerWindow \in [End -> Nat] /\ recvNext \in [End -> SeqNo]
    /\ written \in [End -> Nat] /\ sent \in [End -> Nat] /\ released \in [End -> Nat]
    /\ reorder \in [End -> SUBSET Buffered] /\ read \in [End -> Seq(Nat)]
    /\ net \subseteq Datagram /\ faults \in 0..MaxFaults

EndSound(e) ==
    /\ state[e] = "established" <=> havePeer[e]
    /\ Sending(e, havePeer[e], peerWindow[e], written[e], sent[e], released[e], Arrived(Other(e)))
    /\ Receiving(e, Arrived(e), havePeer[e], recvNext[e], reorder[e], sent[Other(e)])
    /\ read[e] = Upto(Arrived(e))

\* The client opens after the server, and only then is there anything but a SYN.
Opening ==
    /\ havePeer["client"] => havePeer["server"]
    /\ \A d \in net : /\ d.to = "client" => havePeer["server"]
                      /\ d.kind # "syn" => havePeer["client"]
    /\ written["server"] > 0 => havePeer["client"]
    /\ read["server"] # << >> => havePeer["client"]

Sound ==
    /\ Typed /\ Opening
    /\ \A e \in End : EndSound(e)
    /\ \A d \in net : Carried(d, sent[Other(d.to)], Arrived(Other(d.to)))

-----------------------------------------------------------------------------
(* Sequence numbers and sets of numbers.                                    *)

LEMMA Sizes ==
    /\ SeqSpace \in Nat /\ Half \in Nat /\ Half > 1 /\ SeqSpace = 2 * Half
    /\ \A e \in End : /\ Other(e) \in End /\ Other(e) # e /\ Other(Other(e)) = e
                      /\ Isn[e] \in 0..(SeqSpace - 1) /\ Payloads[e] \in 0..Half
                      /\ Window[e] \in 1..(Half - 1)
    /\ Isn["server"] + Payloads["server"] < Half
<1>1. SeqSpace \in Nat /\ Half \in Nat /\ Half > 1 /\ SeqSpace = 2 * Half
  BY SeqAssumption DEF Half
<1>2. \A e \in End : Other(e) \in End /\ Other(e) # e /\ Other(Other(e)) = e
  BY DEF End, Other
<1>3. \A e \in End : Isn[e] \in 0..(SeqSpace - 1) /\ Window[e] \in 1..(Half - 1)
  BY ConfigAssumption DEF SeqNo
<1>4. \A e \in End : Payloads[e] \in 0..Half
  <2>1. Payloads["client"] \in Nat /\ Payloads["server"] \in Nat /\ Isn["server"] \in Nat
    BY <1>1, <1>3, ConfigAssumption DEF End
  <2> QED BY <1>1, <2>1, LifetimeAssumption, ServerSeedAssumption DEF End
<1> QED BY <1>1, <1>2, <1>3, <1>4, ServerSeedAssumption

LEMMA Wrap ==
    /\ \A x \in 0..(SeqSpace - 1) : x % SeqSpace = x
    /\ \A x \in SeqSpace..(2 * SeqSpace - 1) : x % SeqSpace = x - SeqSpace
    /\ \A x \in (2 * SeqSpace)..(3 * SeqSpace - 1) : x % SeqSpace = x - 2 * SeqSpace
    /\ \A x \in (-SeqSpace)..(-1) : x % SeqSpace = x + SeqSpace
<1>1. SeqSpace \in Nat \ {0}
  BY SeqAssumption
<1>2. \A x \in 0..(SeqSpace - 1) : x % SeqSpace = x
  BY <1>1
<1>3. \A x \in SeqSpace..(2 * SeqSpace - 1) : x % SeqSpace = x - SeqSpace
  BY <1>1
<1>4. \A x \in (2 * SeqSpace)..(3 * SeqSpace - 1) : x % SeqSpace = x - 2 * SeqSpace
  BY <1>1
<1>5. \A x \in (-SeqSpace)..(-1) : x % SeqSpace = x + SeqSpace
  BY <1>1
<1> QED BY <1>2, <1>3, <1>4, <1>5

\* Between two numbers of an end no further apart than half the space, the wrapped
\* distance tells which comes first.
LEMMA Distance ==
    ASSUME NEW e \in End, NEW m \in 0..SeqSpace, NEW k \in 0..SeqSpace
    PROVE  Minus(SeqOf(e, k), SeqOf(e, m)) = IF m <= k /\ k - m < SeqSpace THEN k - m
                                             ELSE IF m <= k THEN 0 ELSE SeqSpace + k - m
<1> DEFINE Wrapped(x) == IF x < SeqSpace THEN x ELSE x - SeqSpace
           a == SeqOf(e, k)
           b == SeqOf(e, m)
<1>1. Isn[e] \in 0..(SeqSpace - 1) /\ SeqSpace \in Nat /\ SeqSpace > 1
  BY Sizes
<1>2. a = Wrapped(Isn[e] + k) /\ b = Wrapped(Isn[e] + m)
  <2>1. \A x \in 0..(2 * SeqSpace - 1) : x % SeqSpace = Wrapped(x)
    BY <1>1, Wrap
  <2>2. a = (Isn[e] + k) % SeqSpace /\ b = (Isn[e] + m) % SeqSpace
    BY DEF SeqOf, Plus
  <2>3. Isn[e] + k \in 0..(2 * SeqSpace - 1) /\ Isn[e] + m \in 0..(2 * SeqSpace - 1)
    BY <1>1
  <2> HIDE DEF a, b, Wrapped
  <2> QED BY <2>1, <2>2, <2>3
<1>3. Minus(a, b) = (a - b) % SeqSpace
  BY DEF Minus
<1> HIDE DEF a, b
<1>4. Minus(a, b) = IF a >= b THEN a - b ELSE a - b + SeqSpace
  <2>1. a - b \in (-SeqSpace)..(SeqSpace - 1)
    BY <1>1, <1>2
  <2>2. CASE a >= b
    BY <1>1, <1>2, <1>3, <2>1, <2>2, Wrap
  <2>3. CASE a < b
    BY <1>1, <1>2, <1>3, <2>1, <2>3, Wrap
  <2> QED BY <1>1, <1>2, <2>2, <2>3
<1>5. Minus(a, b) = IF m <= k /\ k - m < SeqSpace THEN k - m
                    ELSE IF m <= k THEN 0 ELSE SeqSpace + k - m
  BY <1>1, <1>2, <1>4
<1> QED BY <1>5 DEF a, b

\* n after a number of e is the number of the payload n later.
LEMMA Later ==
    ASSUME NEW e \in End, NEW m \in 0..SeqSpace, NEW n \in 0..(SeqSpace - 1)
    PROVE  Plus(SeqOf(e, m), n) = SeqOf(e, m + n)
<1>1. Isn[e] \in 0..(SeqSpace - 1) /\ SeqSpace \in Nat /\ SeqSpace > 1
  BY Sizes
<1> DEFINE x == Isn[e] + m
<1>2. x \in 0..(2 * SeqSpace - 1) /\ SeqOf(e, m) = x % SeqSpace
  BY <1>1 DEF SeqOf, Plus
<1>3. Plus(SeqOf(e, m), n) = ((x % SeqSpace) + n) % SeqSpace /\ SeqOf(e, m + n) = (x + n) % SeqSpace
  <2>1. Isn[e] + (m + n) = x + n
    BY <1>1
  <2> QED BY <1>2, <2>1 DEF SeqOf, Plus
<1> HIDE DEF x
<1>4. ((x % SeqSpace) + n) % SeqSpace = (x + n) % SeqSpace
  <2>1. CASE x < SeqSpace
    BY <1>1, <1>2, <2>1, Wrap
  <2>2. CASE x >= SeqSpace
    <3>1. x % SeqSpace = x - SeqSpace
      BY <1>1, <1>2, <2>2, Wrap
    <3>2. x - SeqSpace + n \in 0..(2 * SeqSpace - 1) /\ x + n \in SeqSpace..(3 * SeqSpace - 1)
      BY <1>1, <1>2, <2>2
    <3>3. (x - SeqSpace + n) % SeqSpace = (x + n) % SeqSpace
      <4>1. CASE x + n < 2 * SeqSpace
        BY <1>1, <1>2, <3>2, <4>1, Wrap
      <4>2. CASE x + n >= 2 * SeqSpace
        BY <1>1, <1>2, <3>2, <4>2, Wrap
      <4> QED BY <1>1, <1>2, <4>1, <4>2
    <3> QED BY <3>1, <3>3
  <2> QED BY <1>1, <1>2, <2>1, <2>2
<1> QED BY <1>3, <1>4

LEMMA SeqOfIsSeqNo == ASSUME NEW e \in End, NEW n \in Nat PROVE SeqOf(e, n) \in SeqNo
BY Sizes DEF SeqOf, Plus, SeqNo

\* The ack of an end that read payloads up to n.
LEMMA AckOfRead ==
    ASSUME NEW e \in End, NEW n \in 0..Half
    PROVE  AckNum(TRUE, SeqOf(e, n + 1)) = SeqOf(e, n)
<1>1. Isn[e] \in 0..(SeqSpace - 1) /\ SeqSpace \in Nat /\ SeqSpace = 2 * Half /\ Half > 1 /\ Half \in Nat
  BY Sizes
<1> DEFINE x == Isn[e] + n
<1>2. SeqOf(e, n) = x % SeqSpace /\ SeqOf(e, n + 1) = (x + 1) % SeqSpace
  BY <1>1 DEF SeqOf, Plus
<1>3. x \in 0..(2 * SeqSpace - 2)
  BY <1>1
<1>4. (((x + 1) % SeqSpace) - 1) % SeqSpace = x % SeqSpace
  <2> HIDE DEF x
  <2>1. CASE x + 1 < SeqSpace
    BY <1>1, <1>3, <2>1, Wrap
  <2>2. CASE x + 1 = SeqSpace
    BY <1>1, <1>3, <2>2, Wrap
  <2>3. CASE x + 1 > SeqSpace
    BY <1>1, <1>3, <2>3, Wrap
  <2> QED BY <1>1, <1>3, <2>1, <2>2, <2>3
<1> QED BY <1>2, <1>4 DEF AckNum, Minus

LEMMA Onwards ==
    ASSUME NEW m \in Nat, NEW n \in Nat
    PROVE  Upto(m) \o [k \in 1..n |-> m + k] = Upto(m + n)
<1> DEFINE rest == [k \in 1..n |-> m + k]
<1>1. Upto(m) \in Seq(Nat) /\ rest \in Seq(Nat) /\ Len(Upto(m)) = m /\ Len(rest) = n
  BY DEF Upto
<1>2. Len(Upto(m) \o rest) = m + n /\ Upto(m) \o rest \in Seq(Nat)
  BY <1>1
<1>3. ASSUME NEW i \in 1..(m + n) PROVE (Upto(m) \o rest)[i] = i
  <2>1. CASE i <= m
    BY <1>1, <2>1 DEF Upto
  <2>2. CASE i > m
    <3>1. i - m \in 1..n /\ rest[i - m] = i
      BY <2>2
    <3> QED BY <1>1, <2>2, <3>1
  <2>3. i <= m \/ i > m
    OBVIOUS
  <2> QED BY <2>1, <2>2, <2>3
<1>4. Upto(m) \o rest = Upto(m + n)
  BY <1>2, <1>3 DEF Upto
<1> QED BY <1>4

LEMMA Least ==
    ASSUME NEW S, S \subseteq Nat, S # {}
    PROVE  \E n \in S : \A m \in S : n <= m
<1>1. PICK n \in S : \A m \in S : ~(<<m, n>> \in OpToRel(<, Nat))
  BY WFMin, NatLessThanWellFounded
<1>2. ASSUME NEW m \in S, m < n PROVE FALSE
  <2>1. m \in Nat /\ n \in Nat
    OBVIOUS
  <2>2. <<m, n>> \in OpToRel(<, Nat)
    BY <1>2, <2>1 DEF OpToRel
  <2> QED BY <1>1, <2>2
<1>3. \A m \in S : m \in Nat /\ n \in Nat
  OBVIOUS
<1> QED BY <1>2, <1>3

\* Numbers of an end are in order as long as neither is half the space ahead.
LEMMA InSequence ==
    ASSUME NEW e \in End, NEW m \in 0..SeqSpace, NEW k \in 0..SeqSpace,
           k - m < Half, m - k <= Half
    PROVE  /\ SeqLeq(SeqOf(e, m), SeqOf(e, k)) <=> m <= k
           /\ SeqOf(e, m) = SeqOf(e, k) => m = k
<1>1. SeqSpace \in Nat /\ SeqSpace = 2 * Half /\ Half > 1 /\ Half \in Nat
  BY Sizes
<1>2. Minus(SeqOf(e, k), SeqOf(e, m)) = IF m <= k THEN k - m ELSE SeqSpace + k - m
  BY <1>1, Distance
<1>3. SeqOf(e, m) = SeqOf(e, k) => Minus(SeqOf(e, k), SeqOf(e, m)) = 0
  <2>1. SeqOf(e, k) \in Int
    BY <1>1, SeqOfIsSeqNo DEF SeqNo
  <2>2. \A x \in Int : (x - x) % SeqSpace = 0
    BY <1>1
  <2> QED BY <2>1, <2>2 DEF Minus
<1> QED BY <1>1, <1>2, <1>3 DEF SeqLeq

-----------------------------------------------------------------------------
(* The parts of a call.                                                     *)

\* An ack that may be carried to e releases payloads its peer has read.
LEMMA ReleasesRead ==
    ASSUME NEW e \in End, NEW ack, NEW heard \in Nat,
           released[e] \in Nat, sent[e] \in Nat, sent[e] <= Payloads[e],
           released[e] <= heard, heard <= sent[e],
           \/ \E k \in 0..heard : ack = SeqOf(e, k)
           \/ e = "server" /\ ack = SeqSpace - 1
    PROVE  /\ Released(e, ack) \in released[e]..sent[e]
           /\ Released(e, ack) <= heard
<1> DEFINE from == released[e]
           to == sent[e]
           Covered(n) == \A m \in (from + 1)..n : SeqLeq(SeqOf(e, m), ack)
           Fits(n) == Covered(n) /\ (n = to \/ ~Covered(n + 1))
<1>1. /\ SeqSpace \in Nat /\ Half \in Nat /\ SeqSpace = 2 * Half /\ Half > 1
      /\ Isn[e] \in 0..(SeqSpace - 1) /\ Payloads[e] \in 0..Half
      /\ e = "server" => Isn[e] + Payloads[e] < Half
  BY Sizes
<1>2. PICK k \in 0..heard : \A m \in 1..to : SeqLeq(SeqOf(e, m), ack) => m <= k
  <2>1. CASE \E k \in 0..heard : ack = SeqOf(e, k)
    <3>1. PICK k \in 0..heard : ack = SeqOf(e, k)
      BY <2>1
    <3>2. \A m \in 1..to : SeqLeq(SeqOf(e, m), SeqOf(e, k)) => m <= k
      BY <1>1, InSequence
    <3> QED BY <3>1, <3>2
  <2>2. CASE e = "server" /\ ack = SeqSpace - 1
    <3>1. \A m \in 1..to : SeqOf(e, m) = Isn[e] + m
      BY <1>1, <2>2 DEF SeqOf, Plus
    <3>2. \A m \in 1..to : SeqSpace - 1 - (Isn[e] + m) \in Half..(SeqSpace - 1)
      BY <1>1, <2>2
    <3>3. ASSUME NEW m \in 1..to PROVE ~SeqLeq(SeqOf(e, m), ack)
      <4>1. SeqLeq(SeqOf(e, m), ack) <=> (SeqSpace - 1 - (Isn[e] + m)) % SeqSpace < Half
        BY <2>2, <3>1 DEF SeqLeq, Minus
      <4>2. SeqSpace - 1 - (Isn[e] + m) \in Half..(SeqSpace - 1)
        BY <3>2
      <4>3. (SeqSpace - 1 - (Isn[e] + m)) % SeqSpace = SeqSpace - 1 - (Isn[e] + m)
        BY <1>1, <4>2, Wrap
      <4> QED BY <1>1, <4>1, <4>2, <4>3
    <3> QED BY <3>3
  <2> QED BY <2>1, <2>2
<1>3. PICK n \in from..to : Fits(n)
  <2> DEFINE Bad == {m \in (from + 1)..to : ~SeqLeq(SeqOf(e, m), ack)}
  <2>1. CASE Bad = {}
    <3>1. to \in from..to /\ Covered(to)
      BY <2>1
    <3> QED BY <3>1
  <2>2. CASE Bad # {}
    <3>1. PICK m \in Bad : \A other \in Bad : m <= other
      <4>1. Bad \subseteq Nat
        OBVIOUS
      <4> HIDE DEF Bad
      <4> QED BY <2>2, <4>1, Least
    <3>2. m - 1 \in from..to /\ Covered(m - 1) /\ ~Covered(m - 1 + 1)
      BY <3>1
    <3> QED BY <3>2
  <2> QED BY <2>1, <2>2
<1>4. Released(e, ack) = CHOOSE x \in from..to : Fits(x)
  BY DEF Released
<1>5. Released(e, ack) \in from..to /\ Covered(Released(e, ack))
  <2> HIDE DEF Fits
  <2>1. Released(e, ack) \in from..to /\ Fits(Released(e, ack))
    BY <1>3, <1>4
  <2> QED BY <2>1 DEF Fits
<1>6. Released(e, ack) <= heard
  <2> DEFINE x == Released(e, ack)
  <2>1. x \in from..to /\ Covered(x)
    BY <1>5
  <2> HIDE DEF x
  <2>2. x > from => x <= heard
    <3> SUFFICES ASSUME x > from PROVE x <= heard
      OBVIOUS
    <3>1. x \in (from + 1)..x /\ x \in 1..to
      BY <2>1
    <3>2. SeqLeq(SeqOf(e, x), ack)
      BY <2>1, <3>1
    <3>3. x <= k
      BY <1>2, <3>1, <3>2
    <3> QED BY <2>1, <3>3
  <2>3. x <= heard
    BY <2>1, <2>2
  <2> QED BY <2>3 DEF x
<1> QED BY <1>5, <1>6
\* What e makes of a payload of its peer: whatever the datagram's age, it goes on with
\* the payloads that come next and holds later ones.
LEMMA ReadsOn ==
    ASSUME NEW e \in End, NEW d \in Datagram, NEW last \in 0..Payloads[Other(e)],
           Typed, havePeer[e],
           Receiving(e, Arrived(e), TRUE, recvNext[e], reorder[e], last),
           read[e] = Upto(Arrived(e)),
           d.payload \in 1..last, d.seq = SeqOf(Other(e), d.payload)
    PROVE  LET in == InOrder(e, d) IN
           \E heard \in Arrived(e)..last :
             /\ in.read = Upto(heard)
             /\ Receiving(e, heard, TRUE, in.next, in.reorder, last)
             /\ in.reorder \subseteq Buffered
<1> DEFINE o == Other(e)
           L == Arrived(e)
           p == d.payload
           old == reorder[e]
           held == {b \in old : b.seq # d.seq} \cup {[seq |-> d.seq, payload |-> d.payload]}
           Here(k) == \E b \in held : b.seq = Plus(recvNext[e], k)
           Run(k) == ~Here(k) /\ \A j \in 0..(k - 1) : Here(j)
           run == CHOOSE k \in 0..(SeqSpace - 1) : Run(k)
           At(k) == CHOOSE b \in held : b.seq = Plus(recvNext[e], k)
<1>1. /\ SeqSpace \in Nat /\ Half \in Nat /\ SeqSpace = 2 * Half /\ Half > 1
      /\ o \in End /\ last \in 0..Half
  <2>1. o \in End /\ Payloads[o] \in 0..Half
    BY Sizes
  <2> QED BY <2>1, Sizes
<1>2. /\ L \in 0..last /\ recvNext[e] = SeqOf(o, L + 1)
      /\ \A b \in old : b.payload \in (L + 2)..last /\ b.seq = SeqOf(o, b.payload)
      /\ old \subseteq Buffered
  <2>1. L \in Nat /\ old \subseteq Buffered
    BY DEF Arrived, Typed
  <2> QED BY <2>1 DEF Receiving
<1>3. p \in 1..last /\ d.seq = SeqOf(o, p)
  OBVIOUS
<1>4. SeqLeq(recvNext[e], d.seq) <=> L + 1 <= p
  BY <1>1, <1>2, <1>3, InSequence
<1>5. CASE p <= L \/ \E b \in old : b.seq = d.seq
  <2>1. InOrder(e, d) = [read |-> read[e], reorder |-> reorder[e], next |-> recvNext[e]]
    <3>1. CASE p <= L
      <4>1. ~SeqLeq(recvNext[e], d.seq)
        BY <1>2, <1>3, <1>4, <3>1
      <4> QED BY <4>1 DEF InOrder
    <3>2. CASE \E b \in old : b.seq = d.seq
      BY <3>2 DEF InOrder
    <3> QED BY <1>5, <3>1, <3>2
  <2>2. /\ InOrder(e, d).read = read[e] /\ InOrder(e, d).reorder = reorder[e]
        /\ InOrder(e, d).next = recvNext[e]
    BY <2>1
  <2>3. L \in L..last
    BY <1>1, <1>2
  <2> QED BY <1>2, <2>2, <2>3
<1>6. CASE L + 1 <= p /\ ~\E b \in old : b.seq = d.seq
  <2>1. InOrder(e, d) = [read |-> read[e] \o [k \in 1..run |-> At(k - 1).payload],
                         reorder |-> {b \in held : Minus(b.seq, recvNext[e]) >= run},
                         next |-> Plus(recvNext[e], run)]
    BY <1>4, <1>6 DEF InOrder
  \* What is held are later payloads, found by their numbers.
  <2>2. /\ held \subseteq Buffered
        /\ \A b \in held : b.payload \in (L + 1)..last /\ b.seq = SeqOf(o, b.payload)
    <3>1. [seq |-> d.seq, payload |-> d.payload] \in Buffered
      BY DEF Datagram, Buffered
    <3> QED BY <1>1, <1>2, <1>3, <1>6, <3>1
  <2> HIDE DEF held
  <2>3. \A k \in 0..(SeqSpace - 1) : Plus(recvNext[e], k) = SeqOf(o, L + 1 + k)
    <3>1. L + 1 \in 0..SeqSpace
      BY <1>1, <1>2
    <3> QED BY <1>1, <1>2, <3>1, Later
  <2>4. \A k \in 0..(last - L), b \in held :
           b.seq = Plus(recvNext[e], k) <=> b.payload = L + 1 + k
    <3> SUFFICES ASSUME NEW k \in 0..(last - L), NEW b \in held
                 PROVE  b.seq = Plus(recvNext[e], k) <=> b.payload = L + 1 + k
      OBVIOUS
    <3>1. b.payload \in (L + 1)..last /\ b.seq = SeqOf(o, b.payload)
      BY <2>2
    <3>2. Plus(recvNext[e], k) = SeqOf(o, L + 1 + k)
      BY <1>1, <1>2, <2>3
    <3>3. SeqOf(o, b.payload) = SeqOf(o, L + 1 + k) => b.payload = L + 1 + k
      BY <1>1, <1>2, <3>1, InSequence
    <3> QED BY <3>1, <3>2, <3>3
  <2>5. ~Here(last - L)
    BY <1>1, <1>2, <2>2, <2>4
  <2>6. run \in 0..(last - L) /\ Run(run)
    <3> DEFINE Gaps == {k \in 0..(SeqSpace - 1) : ~Here(k)}
    <3>1. last - L \in Gaps
      BY <1>1, <1>2, <2>5
    <3>2. PICK k \in Gaps : \A other \in Gaps : k <= other
      <4>1. Gaps \subseteq Nat
        OBVIOUS
      <4> HIDE DEF Gaps
      <4> QED BY <3>1, <4>1, Least
    <3>3. k \in 0..(SeqSpace - 1) /\ Run(k)
      <4> HIDE DEF Here
      <4>1. k \in 0..(SeqSpace - 1) /\ ~Here(k)
        BY <3>2
      <4>2. ASSUME NEW j \in 0..(k - 1) PROVE Here(j)
        <5>1. j \in 0..(SeqSpace - 1) /\ ~(k <= j)
          BY <1>1, <4>1
        <5> QED BY <3>2, <5>1
      <4> QED BY <4>1, <4>2
    <3>4. run \in 0..(SeqSpace - 1) /\ Run(run)
      <4> HIDE DEF Run
      <4> QED BY <3>3
    <3> HIDE DEF run
    <3>5. run <= last - L
      <4> SUFFICES ASSUME run > last - L PROVE FALSE
        BY <1>1, <1>2, <3>4
      <4>1. last - L \in 0..(run - 1)
        BY <1>1, <1>2, <3>4
      <4> QED BY <2>5, <3>4, <4>1
    <3> QED BY <1>1, <1>2, <3>4, <3>5
  <2> HIDE DEF run
  <2>7. \A k \in 1..run : At(k - 1).payload = L + k
    <3> SUFFICES ASSUME NEW k \in 1..run PROVE At(k - 1).payload = L + k
      OBVIOUS
    <3>1. k - 1 \in 0..(run - 1) /\ k - 1 \in 0..(last - L)
      BY <1>1, <1>2, <2>6
    <3>2. Here(k - 1)
      BY <2>6, <3>1
    <3>3. At(k - 1) \in held /\ At(k - 1).seq = Plus(recvNext[e], k - 1)
      <4> DEFINE x == Plus(recvNext[e], k - 1)
      <4>1. \E b \in held : b.seq = x
        BY <3>2
      <4>2. At(k - 1) = CHOOSE b \in held : b.seq = x
        OBVIOUS
      <4> HIDE DEF x, At
      <4>3. At(k - 1) \in held /\ At(k - 1).seq = x
        BY <4>1, <4>2
      <4> QED BY <4>3 DEF x
    <3> HIDE DEF At
    <3> QED BY <1>2, <2>4, <3>1, <3>3
  <2> DEFINE heard == L + run
  <2>8. heard \in L..last
    BY <1>1, <1>2, <2>6
  <2>9. InOrder(e, d).read = Upto(heard)
    <3> HIDE DEF At
    <3>1. read[e] \o [k \in 1..run |-> At(k - 1).payload] = Upto(L) \o [k \in 1..run |-> L + k]
      BY <2>7
    <3>2. Upto(L) \o [k \in 1..run |-> L + k] = Upto(heard)
      <4>1. L \in Nat /\ run \in Nat
        BY <1>1, <1>2, <2>6
      <4> QED BY <4>1, Onwards
    <3>3. InOrder(e, d).read = read[e] \o [k \in 1..run |-> At(k - 1).payload]
      <4> DEFINE x == read[e] \o [k \in 1..run |-> At(k - 1).payload]
                 y == {b \in held : Minus(b.seq, recvNext[e]) >= run}
                 z == Plus(recvNext[e], run)
      <4>1. InOrder(e, d) = [read |-> x, reorder |-> y, next |-> z]
        BY <2>1
      <4> HIDE DEF x, y, z
      <4>2. InOrder(e, d).read = x
        BY <4>1
      <4> QED BY <4>2 DEF x
    <3> QED BY <3>1, <3>2, <3>3
  <2>10. InOrder(e, d).next = SeqOf(o, heard + 1)
    <3>1. InOrder(e, d).next = Plus(recvNext[e], run)
      BY <2>1
    <3>2. run \in 0..(SeqSpace - 1) /\ L + 1 + run = heard + 1
      BY <1>1, <1>2, <2>6
    <3> QED BY <2>3, <3>1, <3>2
  <2>11. /\ InOrder(e, d).reorder \subseteq Buffered
         /\ \A b \in InOrder(e, d).reorder :
               b.payload \in (heard + 2)..last /\ b.seq = SeqOf(o, b.payload)
    <3> SUFFICES ASSUME NEW b \in held, Minus(b.seq, recvNext[e]) >= run
                 PROVE  b.payload \in (heard + 2)..last
      BY <2>1, <2>2
    <3>1. b.payload \in (L + 1)..last /\ b.seq = SeqOf(o, b.payload)
      BY <2>2
    <3>2. Minus(b.seq, recvNext[e]) = b.payload - (L + 1)
      BY <1>1, <1>2, <3>1, Distance
    <3>3. b.payload # L + 1 + run
      BY <2>4, <2>6
    <3> QED BY <1>1, <1>2, <2>6, <3>1, <3>2, <3>3
  <2> HIDE DEF heard
  <2>12. Receiving(e, heard, TRUE, InOrder(e, d).next, InOrder(e, d).reorder, last)
    BY <1>2, <2>8, <2>10, <2>11 DEF Receiving
  <2> QED BY <2>8, <2>9, <2>11, <2>12
<1>7. L + 1 <= p \/ p <= L
  BY <1>2, <1>3
<1> QED BY <1>5, <1>6, <1>7
-----------------------------------------------------------------------------
(* The steps.                                                               *)

\* The network of a step in which e may send: what it held, and what e says of itself.
Says(e) == \A d \in net' : \/ d \in net
                           \/ /\ d \in Datagram /\ d.to = Other(e)
                              /\ Carried(d, sent'[e], Len(read'[e]))

Stays(e) ==
    /\ state'[e] = state[e] /\ havePeer'[e] = havePeer[e]
    /\ peerWindow'[e] = peerWindow[e] /\ recvNext'[e] = recvNext[e]
    /\ written'[e] = written[e] /\ sent'[e] = sent[e] /\ released'[e] = released[e]
    /\ reorder'[e] = reorder[e] /\ read'[e] = read[e]

\* What one end does leaves the other one sound, and everything that is under way.
LEMMA OneEndMoves ==
    ASSUME Sound, NEW e \in End, Stays(Other(e)), Says(e), Typed', Opening', EndSound(e)',
           sent[e] <= sent'[e], Len(read[e]) <= Len(read'[e])
    PROVE  Sound'
<1> DEFINE o == Other(e)
<1>1. o \in End /\ o # e /\ Other(o) = e /\ End = {e, o}
  BY Sizes DEF End, Other
<1>2. /\ sent[e] \in Nat /\ sent'[e] \in Nat /\ sent[o] \in Nat
      /\ Len(read[e]) \in Nat /\ Len(read'[e]) \in Nat /\ Len(read[o]) \in Nat
  <2>1. /\ read[e] \in Seq(Nat) /\ read[o] \in Seq(Nat) /\ read'[e] \in Seq(Nat)
        /\ sent[e] \in Nat /\ sent'[e] \in Nat /\ sent[o] \in Nat
    BY <1>1 DEF Sound, Typed
  <2> QED BY <2>1
<1>3. EndSound(o)'
  <2>1. /\ state[o] = "established" <=> havePeer[o]
        /\ Sending(o, havePeer[o], peerWindow[o], written[o], sent[o], released[o], Len(read[e]))
        /\ Receiving(o, Len(read[o]), havePeer[o], recvNext[o], reorder[o], sent[e])
        /\ read[o] = Upto(Len(read[o]))
    BY <1>1 DEF Sound, EndSound, Arrived
  <2>2. Sending(o, havePeer[o], peerWindow[o], written[o], sent[o], released[o], Len(read'[e]))
    <3>1. released[o] \in Nat
      BY <1>1 DEF Sound, Typed
    <3> QED BY <1>2, <2>1, <3>1 DEF Sending
  <2>3. Receiving(o, Len(read[o]), havePeer[o], recvNext[o], reorder[o], sent'[e])
    BY <1>2, <2>1 DEF Receiving
  <2> QED BY <1>1, <2>1, <2>2, <2>3 DEF EndSound, Arrived, Stays
<1>4. \A d \in net' : Carried(d, sent[Other(d.to)], Arrived(Other(d.to)))'
  <2> SUFFICES ASSUME NEW d \in net'
               PROVE  Carried(d, sent'[Other(d.to)], Len(read'[Other(d.to)]))
    BY DEF Arrived
  <2>1. CASE d \notin net
    BY <1>1, <2>1 DEF Says
  <2>2. CASE d \in net
    <3>1. d.to \in End /\ Carried(d, sent[Other(d.to)], Len(read[Other(d.to)]))
      BY <2>2 DEF Sound, Typed, Datagram, Arrived
    <3>2. CASE d.to = o
      BY <1>1, <1>2, <3>1, <3>2 DEF Carried
    <3>3. CASE d.to = e
      BY <1>1, <3>1, <3>3 DEF Stays
    <3> QED BY <1>1, <3>1, <3>2, <3>3
  <2> QED BY <2>1, <2>2
<1> QED BY <1>1, <1>3, <1>4 DEF Sound

\* The datagrams of an end that knows its peer's numbers carry its own and its ack.
LEMMA SaidOfItself ==
    ASSUME NEW e \in End, NEW last \in 0..Payloads[e], NEW heard \in 0..Half
    PROVE  LET ack == AckNum(TRUE, SeqOf(Other(e), heard + 1)) IN
           /\ \A n \in 1..last : /\ Data(e, n, ack) \in Datagram
                                 /\ Carried(Data(e, n, ack), last, heard)
           /\ Ack(e, ack) \in Datagram /\ Carried(Ack(e, ack), last, heard)
<1> DEFINE o == Other(e)
           ack == AckNum(TRUE, SeqOf(o, heard + 1))
<1>1. /\ o \in End /\ Other(o) = e /\ Window[e] \in Nat
      /\ SeqSpace \in Nat /\ Half \in Nat /\ Half > 1 /\ SeqSpace = 2 * Half
      /\ Payloads[e] \in 0..Half
  BY Sizes
<1>2. ack = SeqOf(o, heard) /\ ack \in SeqNo
  <2>1. ack = SeqOf(o, heard)
    BY <1>1, AckOfRead
  <2>2. SeqOf(o, heard) \in SeqNo
    BY <1>1, SeqOfIsSeqNo
  <2> QED BY <2>1, <2>2
<1> HIDE DEF ack
<1>3. heard \in 0..heard
  BY <1>1
<1>4. ASSUME NEW n \in 1..last
      PROVE  Data(e, n, ack) \in Datagram /\ Carried(Data(e, n, ack), last, heard)
  <2>1. SeqOf(e, n) \in SeqNo /\ n \in Nat
    BY <1>1, SeqOfIsSeqNo
  <2>2. Data(e, n, ack) \in Datagram
    BY <1>1, <1>2, <2>1 DEF Data, Datagram
  <2>3. Carried(Data(e, n, ack), last, heard)
    BY <1>1, <1>2, <1>3 DEF Data, Carried
  <2> QED BY <2>2, <2>3
<1>5. Ack(e, ack) \in Datagram
  <2>1. 0 \in SeqNo /\ 0 \in Nat
    BY <1>1 DEF SeqNo
  <2> QED BY <1>1, <1>2, <2>1 DEF Ack, Datagram
<1>6. Carried(Ack(e, ack), last, heard)
  BY <1>1, <1>2, <1>3 DEF Ack, Carried
<1> QED BY <1>4, <1>5, <1>6 DEF ack
\* SYNs of an end that read payloads up to heard.
Answers(e, answer, heard) ==
    \A d \in answer : d \in Datagram /\ d.to = Other(e) /\ Carried(d, 0, heard) /\ d.kind = "syn"

\* A pump sends what the window has room for, and owes nothing else but an ack.
LEMMA PumpSays ==
    ASSUME Sound, NEW e \in End, NEW gone, NEW answer, NEW owed \in BOOLEAN, NEW heard \in 0..Half,
           Pump(e, gone, answer, owed),
           state'[e] = "established", havePeer'[e], recvNext'[e] = SeqOf(Other(e), heard + 1),
           peerWindow'[e] = Window[Other(e)], released'[e] \in released[e]..sent[e],
           Answers(e, answer, heard)
    PROVE  /\ sent' = [sent EXCEPT ![e] = sent'[e]]
           /\ sent'[e] \in sent[e]..written[e] /\ sent'[e] <= released'[e] + Window[Other(e)]
           /\ \A d \in net' :
                \/ d \in net
                \/ /\ d \in Datagram /\ d.to = Other(e) /\ Carried(d, sent'[e], heard)
                   /\ d.kind = "data" => written[e] > 0
                   /\ d.kind = "ack" => owed
<1> DEFINE o == Other(e)
           W == Window[o]
           to == Sendable(written[e], released'[e], W)
           ack == AckNum(TRUE, SeqOf(o, heard + 1))
           data == {Data(e, n, ack) : n \in (sent[e] + 1)..to}
<1>1. o \in End /\ W \in Nat /\ Payloads[e] \in Nat
  BY Sizes
<1>2. /\ sent[e] \in Nat /\ written[e] \in Nat /\ released[e] \in Nat
      /\ written[e] <= Payloads[e] /\ sent[e] <= written[e] /\ sent[e] <= released[e] + W
  BY <1>1 DEF Sound, Typed, EndSound, Sending
<1>3. /\ sent' = [sent EXCEPT ![e] = to]
      /\ net' = (net \ gone) \cup (answer \cup data
                    \cup IF owed /\ data = {} THEN {Ack(e, ack)} ELSE {})
  BY DEF Pump, Transmit
<1>4. to \in sent[e]..written[e] /\ to <= released'[e] + W
  BY <1>1, <1>2 DEF Sendable
<1>5. sent'[e] = to
  BY <1>3 DEF Sound, Typed
<1> HIDE DEF to, ack, data
<1>6. ASSUME NEW d \in net', d \notin net
      PROVE  /\ d \in Datagram /\ d.to = o /\ Carried(d, to, heard)
             /\ d.kind = "data" => written[e] > 0
             /\ d.kind = "ack" => owed
  <2>1. d \in answer \/ d \in data \/ (owed /\ d = Ack(e, ack))
    BY <1>3, <1>6
  <2>2. CASE d \in answer
    BY <2>2 DEF Answers, Carried
  <2>3. CASE d \in data
    <3>1. PICK n \in (sent[e] + 1)..to : d = Data(e, n, ack)
      BY <2>3 DEF data
    <3>2. n \in 1..to /\ to \in 0..Payloads[e]
      BY <1>1, <1>2, <1>4
    <3>3. d \in Datagram /\ Carried(d, to, heard)
      BY <3>1, <3>2, SaidOfItself DEF ack
    <3>4. d.to = o /\ d.kind = "data"
      BY <3>1 DEF Data
    <3>5. written[e] > 0
      BY <1>2, <1>4, <3>2
    <3> QED BY <3>3, <3>4, <3>5
  <2>4. CASE owed /\ d = Ack(e, ack)
    <3>1. to \in 0..Payloads[e]
      BY <1>1, <1>2, <1>4
    <3>2. d \in Datagram /\ Carried(d, to, heard)
      BY <2>4, <3>1, SaidOfItself DEF ack
    <3> QED BY <2>4, <3>2 DEF Ack
  <2> QED BY <2>1, <2>2, <2>3, <2>4
<1>7. sent' = [sent EXCEPT ![e] = sent'[e]]
  BY <1>3, <1>5
<1> QED BY <1>4, <1>5, <1>6, <1>7

\* What the three handlers have in common: e is open, has read up to heard and knows
\* which of its payloads were read.
LEMMA CallKeeps ==
    ASSUME Sound, NEW e \in End, NEW gone, NEW answer, NEW owed \in BOOLEAN, NEW heard \in Nat,
           Pump(e, gone, answer, owed),
           state' = [state EXCEPT ![e] = "established"],
           havePeer' = [havePeer EXCEPT ![e] = TRUE],
           peerWindow' = [peerWindow EXCEPT ![e] = Window[Other(e)]],
           released' = [released EXCEPT ![e] = released'[e]],
           recvNext' = [recvNext EXCEPT ![e] = recvNext'[e]],
           reorder' = [reorder EXCEPT ![e] = reorder'[e]],
           read' = [read EXCEPT ![e] = Upto(heard)],
           written' = written, faults' \in 0..MaxFaults,
           released'[e] \in released[e]..sent[e], released'[e] <= Len(read[Other(e)]),
           Len(read[e]) <= heard, reorder'[e] \subseteq Buffered,
           Receiving(e, heard, TRUE, recvNext'[e], reorder'[e], sent[Other(e)]),
           Answers(e, answer, heard),
           e = "client" => havePeer["server"],
           e = "server" /\ (owed \/ heard > 0) => havePeer["client"]
    PROVE  Sound'
<1> DEFINE o == Other(e)
           acked == released'[e]
           next == recvNext'[e]
           buffer == reorder'[e]
<1>1. /\ o \in End /\ o # e /\ Other(o) = e /\ End = {e, o} /\ Window[o] \in Nat
      /\ Payloads[o] \in 0..Half /\ Half \in Nat
  BY Sizes DEF End, Other
<1>2. sent[o] \in Nat /\ written[o] \in Nat /\ sent[o] <= written[o] /\ written[o] <= Payloads[o]
  BY <1>1 DEF Sound, Typed, EndSound, Sending
<1>3. heard \in 0..Half /\ heard <= sent[o] /\ next = SeqOf(o, heard + 1)
  BY <1>1, <1>2 DEF Receiving
<1>4. /\ state'[e] = "established" /\ havePeer'[e] = TRUE /\ peerWindow'[e] = Window[o]
      /\ released'[e] = acked /\ recvNext'[e] = next /\ reorder'[e] = buffer
      /\ read'[e] = Upto(heard)
  BY DEF Sound, Typed
<1>5. Len(read'[e]) = heard /\ Upto(heard) \in Seq(Nat)
  BY <1>4 DEF Upto
<1>6. /\ sent' = [sent EXCEPT ![e] = sent'[e]]
      /\ sent'[e] \in sent[e]..written[e] /\ sent'[e] <= acked + Window[o]
      /\ \A d \in net' :
           \/ d \in net
           \/ /\ d \in Datagram /\ d.to = o /\ Carried(d, sent'[e], heard)
              /\ d.kind = "data" => written[e] > 0
              /\ d.kind = "ack" => owed
  <2>1. released'[e] \in released[e]..sent[e]
    BY <1>4
  <2> QED BY <1>3, <1>4, <2>1, PumpSays
<1>7. sent[e] \in Nat /\ written[e] \in Nat /\ released[e] \in Nat /\ sent'[e] \in Nat
  BY <1>6 DEF Sound, Typed
<1>8. Stays(o)
  BY <1>1, <1>6 DEF Sound, Typed, Stays
<1>9. Says(e)
  BY <1>5, <1>6 DEF Says
<1>10. Typed'
  <2>1. next \in SeqNo
    BY <1>1, <1>3, SeqOfIsSeqNo
  <2>2. net' \subseteq Datagram
    BY <1>6 DEF Sound, Typed
  <2>3. sent' \in [End -> Nat] /\ released' \in [End -> Nat] /\ peerWindow' \in [End -> Nat]
    <3>1. sent' \in [End -> Nat]
      BY <1>6, <1>7 DEF Sound, Typed
    <3>2. released' \in [End -> Nat]
      <4>1. released'[e] \in Nat /\ released \in [End -> Nat]
        BY <1>7 DEF Sound, Typed
      <4>2. released' = [released EXCEPT ![e] = released'[e]]
        OBVIOUS
      <4> QED BY <4>1, <4>2
    <3>3. peerWindow' \in [End -> Nat]
      BY <1>1 DEF Sound, Typed
    <3> QED BY <3>1, <3>2, <3>3
  <2>4. reorder' \in [End -> SUBSET Buffered] /\ read' \in [End -> Seq(Nat)]
    BY <1>5 DEF Sound, Typed
  <2>5. recvNext' \in [End -> SeqNo] /\ havePeer' \in [End -> BOOLEAN]
        /\ state' \in [End -> {"listen", "synSent", "established"}] /\ written' \in [End -> Nat]
    BY <2>1 DEF Sound, Typed
  <2> QED BY <2>2, <2>3, <2>4, <2>5 DEF Typed
<1>11. Opening'
  <2>1. havePeer'["client"] => havePeer'["server"]
    BY <1>1, <1>4, <1>8 DEF Sound, Opening, Stays, End, Other
  <2>2. havePeer["client"] => havePeer'["client"]
    BY <1>1, <1>4, <1>8 DEF Stays, End
  <2>3. havePeer["server"] => havePeer'["server"]
    BY <1>1, <1>4, <1>8 DEF Stays, End
  <2>4. written'["server"] > 0 => havePeer'["client"]
    BY <2>2 DEF Sound, Opening
  <2>5. read'["server"] # << >> => havePeer'["client"]
    <3>1. CASE e = "server"
      <4>1. heard = 0 => Upto(heard) = << >>
        BY DEF Upto
      <4> QED BY <1>3, <1>4, <2>2, <3>1, <4>1
    <3>2. CASE e = "client"
      <4>1. o = "server"
        BY <3>2 DEF Other
      <4> QED BY <1>8, <2>2, <4>1 DEF Sound, Opening, Stays
    <3> QED BY <3>1, <3>2 DEF End
  <2>6. ASSUME NEW d \in net'
        PROVE  /\ d.to = "client" => havePeer'["server"]
               /\ d.kind # "syn" => havePeer'["client"]
    <3>1. CASE d \in net
      BY <2>2, <2>3, <3>1 DEF Sound, Opening
    <3>2. CASE d \notin net
      <4>1. /\ d \in Datagram /\ d.to = o
            /\ d.kind = "data" => written[e] > 0
            /\ d.kind = "ack" => owed
        BY <1>6, <2>6, <3>2
      <4>2. d.kind \in {"syn", "data", "ack"}
        BY <4>1 DEF Datagram
      <4>3. CASE e = "client"
        BY <1>4, <4>1, <4>3 DEF Other
      <4>4. CASE e = "server"
        <5>1. havePeer'["server"]
          BY <1>4, <4>4
        <5>2. d.kind = "data" => havePeer["client"]
          BY <4>1, <4>4 DEF Sound, Opening
        <5> QED BY <2>2, <4>1, <4>2, <4>4, <5>1, <5>2
      <4> QED BY <4>3, <4>4 DEF End
    <3> QED BY <3>1, <3>2
  <2> QED BY <2>1, <2>4, <2>5, <2>6 DEF Opening
<1>12. EndSound(e)'
  <2>1. Sending(e, TRUE, Window[o], written[e], sent'[e], acked, Len(read[o]))
    <3>1. written[e] <= Payloads[e]
      BY DEF Sound, EndSound, Sending
    <3> QED BY <1>6, <1>7, <3>1 DEF Sending
  <2>2. Receiving(e, heard, TRUE, next, buffer, sent[o])
    OBVIOUS
  <2> QED BY <1>4, <1>5, <1>8, <2>1, <2>2 DEF EndSound, Arrived, Stays
<1>13. sent[e] <= sent'[e] /\ Len(read[e]) <= Len(read'[e])
  BY <1>5, <1>6, <1>7
<1> QED BY <1>8, <1>9, <1>10, <1>11, <1>12, <1>13, OneEndMoves
LEMMA EnqueueKeeps == ASSUME Sound, NEW e \in End, Enqueue(e) PROVE Sound'
<1> DEFINE o == Other(e)
           to == IF state[e] = "established"
                 THEN Sendable(written[e] + 1, released[e], peerWindow[e]) ELSE sent[e]
           heard == Len(read[e])
           ack == AckNum(havePeer[e], recvNext[e])
           data == {Data(e, n, ack) : n \in (sent[e] + 1)..to}
<1>1. /\ o \in End /\ o # e /\ Other(o) = e /\ End = {e, o} /\ Window[o] \in Nat
      /\ Payloads[o] \in 0..Half /\ Payloads[e] \in 0..Half /\ Half \in Nat
  BY Sizes DEF End, Other
<1>2. /\ written[e] < Payloads[e] /\ (e = "server" => read[e] # << >>)
      /\ written' = [written EXCEPT ![e] = @ + 1]
      /\ sent' = [sent EXCEPT ![e] = to]
      /\ net' = (net \ {}) \cup data
      /\ UNCHANGED <<state, havePeer, peerWindow, released, recvNext, reorder, read, faults>>
  BY DEF Enqueue, Transmit
<1>3. /\ sent[e] \in Nat /\ written[e] \in Nat /\ released[e] \in Nat /\ sent[o] \in Nat
      /\ read[e] \in Seq(Nat) /\ released[e] <= sent[e] /\ sent[e] <= written[e]
      /\ sent[e] <= released[e] + Window[o]
      /\ state[e] = "established" <=> havePeer[e]
      /\ havePeer[e] => peerWindow[e] = Window[o]
  BY <1>1 DEF Sound, Typed, EndSound, Sending
<1>4. to \in sent[e]..(written[e] + 1) /\ to <= released[e] + Window[o]
  BY <1>1, <1>3 DEF Sendable
<1>5. written'[e] = written[e] + 1 /\ sent'[e] = to
  BY <1>2 DEF Sound, Typed
<1>6. heard \in 0..Half
  <2>1. heard \in Nat /\ heard <= sent[o] /\ sent[o] <= Payloads[o]
    <3>1. Receiving(e, heard, havePeer[e], recvNext[e], reorder[e], sent[o])
      BY DEF Sound, EndSound, Arrived
    <3>2. written[o] \in Nat /\ sent[o] <= written[o] /\ written[o] <= Payloads[o]
      BY <1>1 DEF Sound, Typed, EndSound, Sending
    <3> QED BY <1>1, <1>3, <3>1, <3>2 DEF Receiving
  <2> QED BY <1>1, <1>3, <2>1
<1>7. to # sent[e] => havePeer[e]
  BY <1>3
<1> HIDE DEF to
<1>8. ASSUME NEW d \in data
      PROVE  d \in Datagram /\ d.to = o /\ Carried(d, to, heard) /\ d.kind = "data" /\ havePeer[e]
  <2>1. PICK n \in (sent[e] + 1)..to : d = Data(e, n, ack)
    OBVIOUS
  <2>2. n \in 1..to /\ to \in 0..Payloads[e] /\ havePeer[e]
    BY <1>1, <1>2, <1>3, <1>4, <1>7
  <2>3. havePeer[e] = TRUE
    BY <2>2 DEF Sound, Typed
  <2>4. recvNext[e] = SeqOf(o, heard + 1)
    BY <2>2 DEF Sound, EndSound, Receiving, Arrived
  <2>5. ack = AckNum(TRUE, SeqOf(o, heard + 1))
    BY <2>3, <2>4
  <2>6. d \in Datagram /\ Carried(d, to, heard)
    BY <1>6, <2>1, <2>2, <2>5, SaidOfItself
  <2>7. d.to = o /\ d.kind = "data"
    BY <2>1 DEF Data
  <2> QED BY <2>2, <2>6, <2>7
<1> HIDE DEF data
<1>9. Stays(o) /\ Says(e)
  <2>1. Stays(o)
    BY <1>1, <1>2 DEF Sound, Typed, Stays
  <2>2. Says(e)
    BY <1>2, <1>5, <1>8 DEF Says
  <2> QED BY <2>1, <2>2
<1>10. Typed'
  <2>1. net' \subseteq Datagram
    BY <1>2, <1>8 DEF Sound, Typed
  <2>2. sent' \in [End -> Nat] /\ written' \in [End -> Nat]
    BY <1>2, <1>3, <1>4 DEF Sound, Typed
  <2> QED BY <1>2, <2>1, <2>2 DEF Sound, Typed
<1>11. Opening'
  <2>1. read[e] # << >> /\ e = "server" => havePeer["client"]
    BY DEF Sound, Opening
  <2>2. written'["server"] > 0 => havePeer["client"]
    <3>1. CASE e = "server"
      BY <1>2, <2>1, <3>1
    <3>2. CASE e = "client"
      BY <1>1, <1>9, <3>2 DEF Sound, Opening, Stays, Other
    <3> QED BY <3>1, <3>2 DEF End
  <2>3. ASSUME NEW d \in net'
        PROVE  (d.to = "client" => havePeer["server"]) /\ (d.kind # "syn" => havePeer["client"])
    <3>1. CASE d \in net
      BY <3>1 DEF Sound, Opening
    <3>2. CASE d \in data
      <4>1. d.to = o /\ havePeer[e]
        BY <1>8, <3>2
      <4>2. CASE e = "client"
        BY <4>1, <4>2 DEF Other
      <4>3. CASE e = "server"
        BY <1>2, <2>1, <4>1, <4>3
      <4> QED BY <4>2, <4>3 DEF End
    <3> QED BY <1>2, <3>1, <3>2
  <2> QED BY <1>2, <2>2, <2>3 DEF Sound, Opening
<1>12. EndSound(e)'
  <2>1. /\ state[e] = "established" <=> havePeer[e]
        /\ Sending(e, havePeer[e], peerWindow[e], written[e], sent[e], released[e], Len(read[o]))
        /\ Receiving(e, heard, havePeer[e], recvNext[e], reorder[e], sent[o])
        /\ read[e] = Upto(heard)
    BY DEF Sound, EndSound, Arrived
  <2>2. Sending(e, havePeer[e], peerWindow[e], written'[e], sent'[e], released[e], Len(read[o]))
    <3> DEFINE heardOf == Len(read[o])
    <3>1. written'[e] <= Payloads[e] /\ sent'[e] <= written'[e] /\ released[e] <= sent'[e]
      BY <1>1, <1>2, <1>3, <1>4, <1>5
    <3>2. sent'[e] <= released[e] + Window[o]
      BY <1>4, <1>5
    <3> HIDE DEF heardOf
    <3>3. Sending(e, havePeer[e], peerWindow[e], written'[e], sent'[e], released[e], heardOf)
      BY <2>1, <3>1, <3>2 DEF Sending, heardOf
    <3> QED BY <3>3 DEF heardOf
  <2> QED BY <1>2, <1>9, <2>1, <2>2 DEF EndSound, Arrived, Stays
<1>13. sent[e] <= sent'[e] /\ Len(read[e]) <= Len(read'[e])
  BY <1>2, <1>3, <1>4, <1>5
<1> QED BY <1>9, <1>10, <1>11, <1>12, <1>13, OneEndMoves
\* What a handler may rely on about the datagram it was given.
LEMMA Delivered ==
    ASSUME Sound, NEW d \in net
    PROVE  LET e == d.to  o == Other(d.to) IN
           /\ d \in Datagram /\ e \in End /\ d.win = Window[o]
           /\ d.kind = "syn" => d.seq = Isn[o]
           /\ d.kind = "data" => d.payload \in 1..sent[o] /\ d.seq = SeqOf(o, d.payload)
           /\ d.kind # "syn" => havePeer["client"] /\ havePeer[e] /\ state[e] = "established"
           /\ e = "client" => havePeer["server"]
           /\ sent[o] \in 0..Payloads[o] /\ Len(read[e]) \in 0..sent[o]
           /\ Released(e, d.ack) \in released[e]..sent[e] /\ Released(e, d.ack) <= Len(read[o])
<1> DEFINE e == d.to  o == Other(e)
<1>1. d \in Datagram /\ e \in End /\ o \in End /\ Other(o) = e
  BY Sizes DEF Sound, Typed, Datagram
<1>2. Carried(d, sent[o], Len(read[o]))
  BY DEF Sound, Arrived
<1>3. /\ d.kind # "syn" => havePeer["client"] /\ havePeer[e]
      /\ e = "client" => havePeer["server"]
  BY <1>1 DEF Sound, Opening, End
<1>4. state[e] = "established" <=> havePeer[e]
  BY <1>1 DEF Sound, EndSound
<1>5. ASSUME NEW f \in End
      PROVE  /\ sent[f] \in 0..Payloads[f] /\ released[f] \in 0..sent[f]
             /\ Len(read[f]) \in 0..sent[Other(f)] /\ released[f] <= Len(read[Other(f)])
  <2>1. /\ sent[f] \in Nat /\ written[f] \in Nat /\ released[f] \in Nat /\ read[f] \in Seq(Nat)
        /\ Payloads[f] \in Nat
    BY Sizes DEF Sound, Typed
  <2>2. /\ written[f] <= Payloads[f] /\ sent[f] <= written[f] /\ released[f] <= sent[f]
        /\ released[f] <= Len(read[Other(f)])
    BY DEF Sound, EndSound, Sending, Arrived
  <2>3. Len(read[f]) <= sent[Other(f)] /\ Len(read[f]) \in Nat /\ sent[Other(f)] \in Nat
    BY <2>1, Sizes DEF Sound, Typed, EndSound, Receiving, Arrived
  <2> QED BY <2>1, <2>2, <2>3
<1>6. Released(e, d.ack) \in released[e]..sent[e] /\ Released(e, d.ack) <= Len(read[o])
  <2>1. /\ sent[e] \in 0..Payloads[e] /\ released[e] \in 0..sent[e]
        /\ Len(read[o]) \in 0..sent[e] /\ released[e] <= Len(read[o])
    BY <1>1, <1>5
  <2>2. \/ \E k \in 0..Len(read[o]) : d.ack = SeqOf(e, k)
        \/ e = "server" /\ d.ack = SeqSpace - 1
    BY <1>2 DEF Carried
  <2>3. Payloads[e] \in Nat
    BY <1>1, Sizes
  <2> QED BY <1>1, <2>1, <2>2, <2>3, ReleasesRead
<1>7. sent[o] \in 0..Payloads[o] /\ Len(read[e]) \in 0..sent[o]
  BY <1>1, <1>5
<1> QED BY <1>1, <1>2, <1>3, <1>4, <1>6, <1>7 DEF Carried

LEMMA DataReads ==
    ASSUME Sound, NEW d \in net, NEW gone, HandleData(d.to, d, gone)
    PROVE  LET e == d.to  in == InOrder(d.to, d) IN
           \E heard \in Len(read[e])..sent[Other(e)] :
             /\ read' = [read EXCEPT ![e] = Upto(heard)]
             /\ Receiving(e, heard, TRUE, in.next, in.reorder, sent[Other(e)])
             /\ in.reorder \subseteq Buffered
<1> DEFINE e == d.to  o == Other(e)  in == InOrder(e, d)
<1>1. d.kind = "data" /\ read' = [read EXCEPT ![e] = in.read]
  BY DEF HandleData
<1>2. /\ d \in Datagram /\ e \in End /\ havePeer[e] /\ sent[o] \in 0..Payloads[o]
      /\ d.payload \in 1..sent[o] /\ d.seq = SeqOf(o, d.payload)
  BY <1>1, Delivered
<1>3. Receiving(e, Arrived(e), TRUE, recvNext[e], reorder[e], sent[o])
  BY <1>2 DEF Sound, EndSound, Receiving
<1>4. Typed /\ read[e] = Upto(Arrived(e))
  BY <1>2 DEF Sound, EndSound
<1>5. \E heard \in Arrived(e)..sent[o] :
        /\ in.read = Upto(heard)
        /\ Receiving(e, heard, TRUE, in.next, in.reorder, sent[o])
        /\ in.reorder \subseteq Buffered
  BY <1>2, <1>3, <1>4, ReadsOn
<1> QED BY <1>1, <1>5 DEF Arrived

LEMMA HandleKeeps ==
    ASSUME Sound, NEW d \in net, NEW gone, Handle(d, gone), faults' \in 0..MaxFaults
    PROVE  Sound'
<1>0. PICK e \in End : e = d.to
  BY DEF Sound, Typed, Datagram
<1> DEFINE o == Other(e)
           L == Len(read[e])
           acked == Released(e, d.ack)
<1>1. /\ d \in Datagram /\ e \in End /\ o \in End /\ Other(o) = e /\ d.win = Window[o]
      /\ d.kind = "syn" => d.seq = Isn[o]
      /\ d.kind # "syn" => havePeer["client"] /\ havePeer[e] /\ state[e] = "established"
      /\ e = "client" => havePeer["server"]
      /\ sent[o] \in 0..Payloads[o] /\ L \in 0..sent[o]
      /\ acked \in released[e]..sent[e] /\ acked <= Len(read[o])
  BY <1>0, Delivered, Sizes
<1>2. acked \in Nat
  BY <1>1 DEF Sound, Typed
<1>3. /\ state[e] = "established" <=> havePeer[e]
      /\ peerWindow[e] = IF havePeer[e] THEN Window[o] ELSE 1
      /\ Receiving(e, L, havePeer[e], recvNext[e], reorder[e], sent[o])
      /\ read[e] = Upto(L) /\ reorder[e] \subseteq Buffered /\ Window[o] \in Nat \ {0}
  <2>1. /\ state[e] = "established" <=> havePeer[e]
        /\ peerWindow[e] = IF havePeer[e] THEN Window[o] ELSE 1
        /\ Receiving(e, L, havePeer[e], recvNext[e], reorder[e], sent[o])
        /\ read[e] = Upto(L)
    BY <1>1 DEF Sound, EndSound, Sending, Arrived
  <2>2. reorder[e] \subseteq Buffered
    BY <1>1 DEF Sound, Typed
  <2>3. Window[o] \in Nat \ {0}
    BY <1>1, Sizes
  <2> QED BY <2>1, <2>2, <2>3
<1>4. e = "server" /\ L > 0 => havePeer["client"]
  <2>1. Len(<< >>) = 0
    OBVIOUS
  <2> QED BY <2>1 DEF Sound, Opening
<1> HIDE DEF acked, L, o
<1>5. read = [read EXCEPT ![e] = Upto(L)]
  BY <1>3 DEF Sound, Typed
<1>6. CASE HandleSyn(e, d, gone)
  <2> DEFINE next == IF havePeer[e] THEN recvNext[e] ELSE Plus(d.seq, 1)
             answer == IF e = "server" THEN {Syn(e, d.seq)} ELSE {}
  <2>1. /\ d.kind = "syn"
        /\ peerWindow' = [peerWindow EXCEPT ![e] = IF d.win > @ THEN d.win ELSE @]
        /\ havePeer' = [havePeer EXCEPT ![e] = TRUE]
        /\ recvNext' = [recvNext EXCEPT ![e] = next]
        /\ state' = [state EXCEPT ![e] = "established"]
        /\ released' = [released EXCEPT ![e] = acked]
        /\ Pump(e, gone, answer, FALSE)
        /\ UNCHANGED <<written, reorder, read>>
    BY <1>6 DEF HandleSyn, acked
  <2>2. peerWindow' = [peerWindow EXCEPT ![e] = Window[o]]
    <3>1. (IF d.win > peerWindow[e] THEN d.win ELSE peerWindow[e]) = Window[o]
      BY <1>1, <1>3
    <3> QED BY <2>1, <3>1
  <2>3. Receiving(e, L, TRUE, next, reorder[e], sent[o])
    <3>1. ~havePeer[e] => Plus(d.seq, 1) = SeqOf(o, 1) /\ L = 0 /\ reorder[e] = {}
      BY <1>1, <1>3, <2>1 DEF Receiving, SeqOf
    <3>2. 0 + 1 = 1
      OBVIOUS
    <3> QED BY <1>3, <3>1, <3>2 DEF Receiving, o
  <2>4. Answers(e, answer, L)
    <3> SUFFICES ASSUME e = "server"
                 PROVE  LET s == Syn("server", d.seq) IN
                        s \in Datagram /\ s.to = o /\ Carried(s, 0, L) /\ s.kind = "syn"
      BY DEF Answers, o
    <3>1. o = "client" /\ d.seq = Isn["client"] /\ d.seq \in SeqNo /\ 0 \in Nat
      BY <1>1, <2>1, ConfigAssumption DEF Other, o, End
    <3>2. SeqOf("client", 0) = Isn["client"]
      <4>1. Isn["client"] \in 0..(SeqSpace - 1) /\ Isn["client"] + 0 = Isn["client"]
        BY Sizes DEF End
      <4> QED BY <4>1, Wrap DEF SeqOf, Plus
    <3>3. Window["server"] \in Nat /\ Isn["server"] \in SeqNo
      BY Sizes, ConfigAssumption DEF End
    <3>4. Syn("server", d.seq) \in Datagram
      BY <3>1, <3>3 DEF Syn, Datagram, Other, End
    <3>5. 0 \in 0..L
      BY <1>1
    <3>6. Carried(Syn("server", d.seq), 0, L)
      BY <3>1, <3>2, <3>5 DEF Syn, Carried, Other
    <3> QED BY <3>1, <3>4, <3>6 DEF Syn, Other
  <2>5. reorder' = [reorder EXCEPT ![e] = reorder[e]] /\ read' = [read EXCEPT ![e] = Upto(L)]
    BY <1>5, <2>1 DEF Sound, Typed
  <2>6. L \in Nat /\ L <= L /\ FALSE \in BOOLEAN /\ Len(read[e]) = L
    BY <1>1 DEF L
  <2>7. released'[e] = acked /\ recvNext'[e] = next /\ reorder'[e] = reorder[e]
    BY <1>1, <2>1 DEF Sound, Typed
  <2>8. /\ released' = [released EXCEPT ![e] = released'[e]]
        /\ recvNext' = [recvNext EXCEPT ![e] = recvNext'[e]]
        /\ reorder' = [reorder EXCEPT ![e] = reorder'[e]]
    BY <2>1, <2>5, <2>7
  <2> HIDE DEF next, answer
  <2> QED BY <1>1, <1>2, <1>3, <1>4, <2>1, <2>2, <2>3, <2>4, <2>5, <2>6, <2>7, <2>8, CallKeeps DEF o
<1>7. CASE HandleData(e, d, gone)
  <2> DEFINE in == InOrder(e, d)
  <2>1. /\ d.kind = "data"
        /\ peerWindow' = [peerWindow EXCEPT ![e] = d.win]
        /\ released' = [released EXCEPT ![e] = acked]
        /\ reorder' = [reorder EXCEPT ![e] = in.reorder]
        /\ recvNext' = [recvNext EXCEPT ![e] = in.next]
        /\ UNCHANGED <<state, havePeer, written>>
        /\ Pump(e, gone, {}, TRUE)
    BY <1>7 DEF HandleData, acked
  <2>2. PICK heard \in Len(read[e])..sent[o] :
          /\ read' = [read EXCEPT ![e] = Upto(heard)]
          /\ Receiving(e, heard, TRUE, in.next, in.reorder, sent[o])
          /\ in.reorder \subseteq Buffered
    BY <1>0, <1>7, DataReads DEF o
  <2>3. state' = [state EXCEPT ![e] = "established"] /\ havePeer' = [havePeer EXCEPT ![e] = TRUE]
    BY <1>1, <2>1 DEF Sound, Typed
  <2>4. peerWindow' = [peerWindow EXCEPT ![e] = Window[o]]
    BY <1>1, <2>1
  <2>5. heard \in Nat /\ Len(read[e]) <= heard /\ TRUE \in BOOLEAN
    BY <1>1, <2>2 DEF L
  <2>6. havePeer["client"]
    BY <1>1, <2>1
  <2>7. released'[e] = acked /\ recvNext'[e] = in.next /\ reorder'[e] = in.reorder
    BY <1>1, <2>1 DEF Sound, Typed
  <2>8. /\ released' = [released EXCEPT ![e] = released'[e]]
        /\ recvNext' = [recvNext EXCEPT ![e] = recvNext'[e]]
        /\ reorder' = [reorder EXCEPT ![e] = reorder'[e]]
    BY <2>1, <2>7
  <2> HIDE DEF in
  <2>9. /\ released'[e] \in released[e]..sent[e] /\ released'[e] <= Len(read[o])
        /\ Receiving(e, heard, TRUE, recvNext'[e], reorder'[e], sent[o])
        /\ reorder'[e] \subseteq Buffered /\ Answers(e, {}, heard)
    BY <1>1, <2>2, <2>7 DEF Answers
  <2> QED BY <1>1, <2>1, <2>2, <2>3, <2>4, <2>5, <2>6, <2>8, <2>9, CallKeeps DEF o
<1>8. CASE HandleAck(e, d, gone)
  <2>1. /\ d.kind = "ack"
        /\ peerWindow' = [peerWindow EXCEPT ![e] = d.win]
        /\ released' = [released EXCEPT ![e] = acked]
        /\ UNCHANGED <<state, havePeer, recvNext, reorder, read, written>>
        /\ Pump(e, gone, {}, FALSE)
    BY <1>8 DEF HandleAck, acked
  <2>2. /\ state' = [state EXCEPT ![e] = "established"] /\ havePeer' = [havePeer EXCEPT ![e] = TRUE]
        /\ recvNext' = [recvNext EXCEPT ![e] = recvNext[e]]
        /\ reorder' = [reorder EXCEPT ![e] = reorder[e]] /\ read' = [read EXCEPT ![e] = Upto(L)]
    BY <1>1, <1>5, <2>1 DEF Sound, Typed
  <2>3. Receiving(e, L, TRUE, recvNext[e], reorder[e], sent[o])
    <3>1. havePeer[e] = TRUE
      BY <1>1, <2>1 DEF Sound, Typed
    <3> QED BY <1>3, <3>1
  <2>4. peerWindow' = [peerWindow EXCEPT ![e] = Window[o]]
    BY <1>1, <2>1
  <2>5. L \in Nat /\ Len(read[e]) <= L /\ FALSE \in BOOLEAN
    BY <1>1 DEF L
  <2>6. havePeer["client"]
    BY <1>1, <2>1
  <2>7. released'[e] = acked /\ recvNext'[e] = recvNext[e] /\ reorder'[e] = reorder[e]
    BY <1>1, <2>1, <2>2 DEF Sound, Typed
  <2>8. /\ released' = [released EXCEPT ![e] = released'[e]]
        /\ recvNext' = [recvNext EXCEPT ![e] = recvNext'[e]]
        /\ reorder' = [reorder EXCEPT ![e] = reorder'[e]]
    BY <2>1, <2>2, <2>7
  <2>9. /\ released'[e] \in released[e]..sent[e] /\ released'[e] <= Len(read[o])
        /\ Receiving(e, L, TRUE, recvNext'[e], reorder'[e], sent[o])
        /\ reorder'[e] \subseteq Buffered /\ Answers(e, {}, L)
    BY <1>1, <1>3, <2>3, <2>7 DEF Answers
  <2> QED BY <1>1, <2>1, <2>2, <2>4, <2>5, <2>6, <2>8, <2>9, CallKeeps DEF o
<1> QED BY <1>0, <1>6, <1>7, <1>8 DEF Handle
\* The timers send what was sent before, and the network forgets what it likes.
LEMMA ResendKeeps ==
    ASSUME Sound, NEW e \in End, NEW due, Resend(e, due)
    PROVE  Sound'
<1> DEFINE o == Other(e)
           heard == Len(read[e])
           ack == AckNum(havePeer[e], recvNext[e])
           data == {Data(e, n, ack) : n \in due}
<1>1. /\ state[e] = "established" /\ due \subseteq Unacked(e)
      /\ net' = (net \ {}) \cup data /\ UNCHANGED <<endVars, faults>>
  BY DEF Resend, Transmit
<1>2. /\ UNCHANGED <<state, havePeer, peerWindow, written, sent, released, recvNext, reorder, read>>
      /\ faults' = faults
  BY <1>1 DEF endVars
<1>3. /\ o \in End /\ Payloads[o] \in 0..Half /\ Payloads[e] \in 0..Half /\ Half \in Nat
  BY Sizes
<1>4. /\ havePeer[e] = TRUE /\ recvNext[e] = SeqOf(o, heard + 1)
      /\ sent[e] \in 0..Payloads[e] /\ released[e] \in Nat /\ heard \in 0..Half
  <2>1. havePeer[e] = TRUE
    BY <1>1 DEF Sound, Typed, EndSound
  <2>2. /\ sent[e] \in Nat /\ written[e] \in Nat /\ released[e] \in Nat /\ read[e] \in Seq(Nat)
        /\ sent[o] \in Nat /\ written[o] \in Nat
    BY <1>3 DEF Sound, Typed
  <2>3. /\ written[e] <= Payloads[e] /\ sent[e] <= written[e]
        /\ written[o] <= Payloads[o] /\ sent[o] <= written[o]
    BY <1>3 DEF Sound, EndSound, Sending
  <2>4. Receiving(e, heard, TRUE, recvNext[e], reorder[e], sent[o])
    BY <2>1 DEF Sound, EndSound, Arrived
  <2>5. heard \in Nat /\ heard <= sent[o] /\ recvNext[e] = SeqOf(o, heard + 1)
    BY <2>2, <2>4 DEF Receiving
  <2>6. sent[e] \in 0..Payloads[e]
    BY <1>3, <2>2, <2>3
  <2>7. heard \in 0..Half
    <3> HIDE DEF heard
    <3> QED BY <1>3, <2>2, <2>3, <2>5
  <2> QED BY <2>1, <2>2, <2>5, <2>6, <2>7
<1>5. ASSUME NEW d \in data
      PROVE  /\ d \in Datagram /\ d.to = o /\ Carried(d, sent[e], heard)
             /\ d.kind = "data" /\ written[e] > 0
  <2>1. PICK n \in due : d = Data(e, n, ack)
    OBVIOUS
  <2>2. n \in 1..sent[e]
    BY <1>1, <1>4 DEF Unacked
  <2>3. d \in Datagram /\ Carried(d, sent[e], heard)
    BY <1>4, <2>1, <2>2, SaidOfItself
  <2>4. sent[e] <= written[e] /\ written[e] \in Nat
    BY DEF Sound, Typed, EndSound, Sending
  <2> QED BY <1>4, <2>1, <2>2, <2>3, <2>4 DEF Data
<1> HIDE DEF data
<1>6. Typed' /\ Stays(o) /\ Says(e) /\ EndSound(e)'
  <2>1. net' \subseteq Datagram
    BY <1>1, <1>5 DEF Sound, Typed
  <2>2. Typed' /\ Stays(o)
    BY <1>2, <2>1 DEF Sound, Typed, Stays
  <2>3. Says(e)
    BY <1>1, <1>2, <1>5 DEF Says
  <2>4. EndSound(e)'
    BY <1>2 DEF Sound, EndSound, Arrived
  <2> QED BY <2>2, <2>3, <2>4
<1>7. Opening'
  <2>1. ASSUME NEW d \in data PROVE havePeer["client"] /\ havePeer["server"]
    <3>1. written[e] > 0 /\ havePeer[e]
      BY <1>4, <1>5
    <3> QED BY <3>1 DEF Sound, Opening, End
  <2> QED BY <1>1, <1>2, <2>1 DEF Sound, Opening
<1>8. sent[e] <= sent'[e] /\ Len(read[e]) <= Len(read'[e])
  BY <1>2, <1>4
<1> QED BY <1>6, <1>7, <1>8, OneEndMoves

LEMMA ResendSynKeeps == ASSUME Sound, ResendSyn PROVE Sound'
<1> DEFINE d == Syn("client", SeqSpace - 1)
<1>1. ~havePeer["client"]
  BY DEF Sound, EndSound, ResendSyn, End
<1>2. /\ net' = net \cup {d}
      /\ UNCHANGED <<state, havePeer, peerWindow, written, sent, released, recvNext, reorder, read>>
      /\ faults' = faults
  BY <1>1 DEF ResendSyn, Transmit, AckNum, endVars
<1>3. d \in Datagram /\ \A last, heard : Carried(d, last, heard)
  <2>1. Window["client"] \in Nat /\ Isn["client"] \in SeqNo /\ SeqSpace - 1 \in SeqNo /\ 0 \in Nat
    BY Sizes, ConfigAssumption DEF End, SeqNo
  <2> QED BY <2>1 DEF Syn, Datagram, Carried, Other, End
<1>4. d.kind = "syn" /\ d.to = "server"
  BY DEF Syn, Other
<1> HIDE DEF d
<1>5. Typed' /\ Opening' /\ \A e \in End : EndSound(e)'
  BY <1>2, <1>3, <1>4 DEF Sound, Typed, Opening, EndSound, Arrived
<1>6. \A s \in net' : Carried(s, sent[Other(s.to)], Arrived(Other(s.to)))'
  BY <1>2, <1>3 DEF Sound, Arrived
<1> QED BY <1>5, <1>6 DEF Sound

LEMMA SoundStep == ASSUME Sound, [Next]_vars PROVE Sound'
<1> USE DEF endVars
<1>1. faults \in Nat /\ MaxFaults \in Nat
  BY ConfigAssumption DEF Sound, Typed
<1>2. ASSUME NEW e \in End, Enqueue(e) PROVE Sound'
  BY <1>2, EnqueueKeeps
<1>3. ASSUME NEW e \in End, NEW due, Resend(e, due) PROVE Sound'
  BY <1>3, ResendKeeps
<1>4. CASE ResendSyn
  BY <1>4, ResendSynKeeps
<1>5. ASSUME NEW d \in net, Deliver(d) PROVE Sound'
  <2>1. Handle(d, {d}) /\ faults' \in 0..MaxFaults
    BY <1>5 DEF Deliver, Sound, Typed
  <2> QED BY <2>1, HandleKeeps
<1>6. ASSUME NEW d \in net, Repeat(d) PROVE Sound'
  <2>1. Handle(d, {}) /\ faults' \in 0..MaxFaults
    BY <1>1, <1>6 DEF Repeat
  <2> QED BY <2>1, HandleKeeps
<1>7. ASSUME NEW d \in net, Lose(d) PROVE Sound'
  <2>1. net' \subseteq net /\ faults' \in 0..MaxFaults /\ UNCHANGED endVars
    BY <1>1, <1>7 DEF Lose
  <2> QED BY <2>1 DEF Sound, Typed, Opening, EndSound, Arrived
<1>8. CASE UNCHANGED vars
  BY <1>8 DEF vars, Sound, Typed, Opening, EndSound, Arrived
<1> QED BY <1>2, <1>3, <1>4, <1>5, <1>6, <1>7, <1>8 DEF Next, ResendAll
LEMMA SoundHolds == Spec => []Sound
<1>1. Init => Sound
  <2> SUFFICES ASSUME Init PROVE Sound
    OBVIOUS
  <2> DEFINE d == Syn("client", SeqSpace - 1)
  <2>1. /\ Window["client"] \in Nat /\ Isn["client"] \in SeqNo /\ SeqSpace - 1 \in SeqNo
        /\ 0 \in SeqNo /\ 0 \in Nat /\ MaxFaults \in Nat
    BY Sizes, ConfigAssumption DEF End, SeqNo
  <2>2. d \in Datagram /\ \A last, heard : Carried(d, last, heard)
    BY <2>1 DEF Syn, Datagram, Carried, Other, End
  <2>3. d.kind = "syn" /\ d.to = "server"
    BY DEF Syn, Other
  <2>4. net = {d}
    BY DEF Init
  <2> HIDE DEF d
  <2>5. << >> \in Seq(Nat) /\ Len(<< >>) = 0 /\ << >> = Upto(0)
    BY DEF Upto
  <2>6. Typed
    <3>1. /\ state \in [End -> {"listen", "synSent", "established"}]
          /\ havePeer \in [End -> BOOLEAN] /\ peerWindow \in [End -> Nat] /\ recvNext \in [End -> SeqNo]
      BY <2>1 DEF Init
    <3>2. written \in [End -> Nat] /\ sent \in [End -> Nat] /\ released \in [End -> Nat]
      BY <2>1 DEF Init
    <3>3. reorder \in [End -> SUBSET Buffered] /\ read \in [End -> Seq(Nat)]
      BY <2>5 DEF Init
    <3>4. net \subseteq Datagram
      BY <2>2, <2>4
    <3>5. faults \in 0..MaxFaults
      BY <2>1 DEF Init
    <3> QED BY <3>1, <3>2, <3>3, <3>4, <3>5 DEF Typed
  <2>7. Opening
    BY <2>3, <2>4 DEF Init, Opening, End
  <2>8. ASSUME NEW e \in End PROVE EndSound(e)
    <3>1. Other(e) \in End /\ Window[Other(e)] \in Nat /\ Payloads[e] \in Nat
      BY Sizes
    <3>2. /\ state[e] # "established" /\ havePeer[e] = FALSE /\ peerWindow[e] = 1 /\ written[e] = 0
          /\ sent[e] = 0 /\ released[e] = 0 /\ reorder[e] = {} /\ read[e] = << >>
          /\ sent[Other(e)] = 0 /\ read[Other(e)] = << >>
      BY <3>1 DEF Init
    <3>3. Sending(e, FALSE, 1, 0, 0, 0, 0)
      BY <3>1 DEF Sending
    <3>4. Receiving(e, 0, FALSE, recvNext[e], {}, 0)
      BY DEF Receiving
    <3>5. Arrived(e) = 0 /\ Arrived(Other(e)) = 0
      BY <2>5, <3>2 DEF Arrived
    <3> QED BY <2>5, <3>2, <3>3, <3>4, <3>5 DEF EndSound
  <2>9. \A s \in net : Carried(s, sent[Other(s.to)], Arrived(Other(s.to)))
    BY <2>2, <2>4
  <2> QED BY <2>6, <2>7, <2>8, <2>9 DEF Sound
<1> QED BY <1>1, SoundStep, PTL DEF Spec

-----------------------------------------------------------------------------
(* Theorems.                                                                *)

\* Every variable of the two state machines and of the network has its type, the
\* counts of queued, sent and acked payloads their order.
THEOREM TypeCorrect == Spec => []TypeOK
<1>1. Sound => TypeOK
  <2> SUFFICES ASSUME Sound PROVE TypeOK
    OBVIOUS
  <2>1. ASSUME NEW e \in End
        PROVE  /\ written[e] \in 0..Payloads[e] /\ sent[e] \in 0..written[e]
               /\ released[e] \in 0..sent[e] /\ peerWindow[e] \in Nat \ {0}
               /\ reorder[e] \subseteq Buffered /\ read[e] \in Seq(Nat)
    <3>1. Window[Other(e)] \in Nat \ {0} /\ Payloads[e] \in Nat
      BY Sizes
    <3>2. /\ written[e] \in Nat /\ sent[e] \in Nat /\ released[e] \in Nat
          /\ reorder[e] \subseteq Buffered /\ read[e] \in Seq(Nat)
      BY DEF Sound, Typed
    <3>3. Sending(e, havePeer[e], peerWindow[e], written[e], sent[e], released[e], Arrived(Other(e)))
      BY DEF Sound, EndSound
    <3> QED BY <3>1, <3>2, <3>3 DEF Sending
  <2>2. peerWindow \in [End -> Nat \ {0}]
    BY <2>1 DEF Sound, Typed
  <2> QED BY <2>1, <2>2 DEF Sound, Typed, TypeOK
<1> QED BY <1>1, SoundHolds, PTL

\* No ack of any age takes a payload from the retransmit queue that its reader does not
\* have, and nobody has to hold more than the window it advertised.
THEOREM BuffersAreSound == Spec => []BuffersSound
<1>1. Sound => BuffersSound
  <2> SUFFICES ASSUME Sound, NEW e \in End
               PROVE  /\ released[e] <= Len(read[Other(e)])
                      /\ \A b \in reorder[e] : Minus(b.seq, recvNext[e]) \in 1..(Window[e] - 1)
    BY DEF BuffersSound, ReleasedWasRead, ReorderFits
  <2> DEFINE o == Other(e)
  <2>1. /\ o \in End /\ Other(o) = e /\ Payloads[o] \in 0..Half /\ Window[e] \in 1..(Half - 1)
        /\ Half \in Nat /\ SeqSpace = 2 * Half
    BY Sizes
  <2>2. released[e] <= Len(read[o])
    BY DEF Sound, EndSound, Sending, Arrived
  <2>3. ASSUME NEW b \in reorder[e] PROVE Minus(b.seq, recvNext[e]) \in 1..(Window[e] - 1)
    <3> DEFINE L == Len(read[e])
    <3>1. /\ havePeer[e] /\ recvNext[e] = SeqOf(o, L + 1)
          /\ b.payload \in (L + 2)..sent[o] /\ b.seq = SeqOf(o, b.payload)
      BY <2>3 DEF Sound, EndSound, Receiving, Arrived
    <3>2. /\ L \in Nat /\ sent[o] \in Nat /\ written[o] \in Nat /\ released[o] \in Nat
      <4>1. read[e] \in Seq(Nat)
        BY DEF Sound, Typed
      <4> QED BY <2>1, <4>1 DEF Sound, Typed
    <3>3. /\ sent[o] <= released[o] + Window[e] /\ released[o] <= L
          /\ sent[o] <= written[o] /\ written[o] <= Payloads[o]
      BY <2>1 DEF Sound, EndSound, Sending, Arrived
    <3> HIDE DEF L
    <3>4. Minus(b.seq, recvNext[e]) = b.payload - (L + 1)
      <4>1. /\ L + 1 \in 0..SeqSpace /\ b.payload \in 0..SeqSpace
            /\ L + 1 <= b.payload /\ b.payload - (L + 1) < SeqSpace
        BY <2>1, <3>1, <3>2, <3>3
      <4>2. Minus(SeqOf(o, b.payload), SeqOf(o, L + 1)) = b.payload - (L + 1)
        BY <2>1, <4>1, Distance
      <4> QED BY <3>1, <4>2
    <3> QED BY <2>1, <3>1, <3>2, <3>3, <3>4
  <2> QED BY <2>2, <2>3
<1> QED BY <1>1, SoundHolds, PTL

\* "application bytes to deliver (in order, exactly once)": whatever is lost, repeated
\* and reordered, in however small a sequence space, each end reads what the other one
\* wrote, once each and in order.
THEOREM StreamIsImplemented == Spec => ImplementsStream
<1>1. Init => Stream!Init
  BY DEF Init, Stream!Init
<1>2. Sound /\ [Next]_vars => [Stream!Next]_<<written, read>>
  <2> SUFFICES ASSUME Sound, [Next]_vars, ~UNCHANGED <<written, read>> PROVE Stream!Next
    OBVIOUS
  <2>1. ASSUME NEW e \in End, Enqueue(e) PROVE Stream!Next
    BY <2>1 DEF Enqueue, Stream!Next, Stream!Write
  <2>2. ASSUME NEW d \in net, NEW gone, Handle(d, gone) PROVE Stream!Next
    <3> DEFINE e == d.to  o == Other(e)
    <3>1. HandleData(e, d, gone)
      BY <2>2 DEF Handle, HandleSyn, HandleAck
    <3>2. written' = written
      BY <3>1 DEF HandleData
    <3>3. PICK heard \in Len(read[e])..sent[o] : read' = [read EXCEPT ![e] = Upto(heard)]
      BY <3>1, DataReads
    <3>4. /\ e \in End /\ o \in End
      BY Sizes DEF Sound, Typed, Datagram
    <3>5. read[e] = Upto(Len(read[e])) /\ Len(read[e]) \in Nat /\ sent[o] \in Nat
      <4>1. read[e] \in Seq(Nat) /\ sent[o] \in Nat
        BY <3>4 DEF Sound, Typed
      <4> QED BY <3>4, <4>1 DEF Sound, EndSound, Arrived
    <3>6. heard # Len(read[e])
      <4> SUFFICES ASSUME heard = Len(read[e]) PROVE FALSE
        OBVIOUS
      <4>1. read' = read
        BY <3>3, <3>5 DEF Sound, Typed
      <4> QED BY <3>2, <4>1
    <3>7. sent[o] <= written[o] /\ written[o] \in Nat
      BY <3>4 DEF Sound, Typed, EndSound, Sending
    <3>8. heard \in (Len(read[e]) + 1)..written[o]
      BY <3>3, <3>5, <3>6, <3>7
    <3>9. Stream!Read(e)
      BY <3>2, <3>3, <3>8 DEF Stream!Read, Upto
    <3> QED BY <3>4, <3>9 DEF Stream!Next
  <2>3. CASE ResendSyn \/ (\E e \in End : \E due : Resend(e, due)) \/ (\E d \in net : Lose(d)) \/ UNCHANGED vars
    BY <2>3 DEF ResendSyn, Resend, Lose, vars, endVars
  <2> QED BY <2>1, <2>2, <2>3 DEF Next, ResendAll, Deliver, Repeat
<1> QED BY <1>1, <1>2, SoundHolds, PTL DEF Spec, ImplementsStream, Stream!Spec
===============================================================================
