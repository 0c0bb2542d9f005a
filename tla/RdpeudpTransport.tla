-------------------------- MODULE RdpeudpTransport --------------------------
(***************************************************************************)
(* The reliable RDPEUDP version 1 state machine (ironrdp-rdpeudp,          *)
(* state.rs), as two instances driven against each other over a network    *)
(* that loses, repeats and reorders datagrams.                             *)
(*                                                                         *)
(* One step of an end is one call of RdpeudpState: it takes a datagram, a  *)
(* payload of its application or a timer tick, and then pumps.  Payloads   *)
(* are numbered per end and travel one to a datagram; payload n has        *)
(* sequence number ISN + n, modulo the sequence space.  Of the deques      *)
(* out_queue and unacked the counts below say which payloads they hold.    *)
(***************************************************************************)
EXTENDS Integers, Sequences

CONSTANTS
  SeqSpace,    \* 2^32 in the code
  Isn,         \* cfg.initial_seq of each end
  Window,      \* cfg.recv_window of each end
  Payloads,    \* bound: payloads the application of each end writes
  MaxFaults    \* bound: datagrams the network loses or repeats

End == {"client", "server"}
Other(e) == IF e = "client" THEN "server" ELSE "client"
SeqNo == 0..(SeqSpace - 1)
Half == SeqSpace \div 2

ASSUME SeqAssumption == SeqSpace \in Nat /\ SeqSpace > 3 /\ SeqSpace = 2 * Half
ASSUME ConfigAssumption ==
  /\ Isn \in [End -> SeqNo]
  /\ Window \in [End -> 1..(Half - 1)]
  /\ Payloads \in [End -> Nat] /\ MaxFaults \in Nat
\* The listener seeds its numbers with a count of nanoseconds within a second,
\* so the server's payloads stay in the lower half, away from the -1 of a SYN.
ASSUME ServerSeedAssumption == Isn["server"] + Payloads["server"] < Half
\* The network may hold a datagram for ever, and half of the sequence space later its
\* number reads as one to come: nothing here is that old, as nothing of 2^31 payloads is.
ASSUME LifetimeAssumption == Payloads["client"] <= Half

VARIABLES
  state,       \* ConnState
  havePeer,    \* have_peer_seq
  peerWindow,  \* peer_recv_window
  written,     \* payloads enqueued so far: out_queue holds sent + 1 .. written
  sent,        \* payloads sent at least once: send_next is ISN + sent + 1
  released,    \* payloads acked: unacked holds released + 1 .. sent
  recvNext,    \* recv_next
  reorder,     \* reorder: the buffered datagrams
  read,        \* the payloads delivered to the application, in order
  net,         \* datagrams on the network
  faults       \* how many were lost or repeated

endVars == <<state, havePeer, peerWindow, written, sent, released, recvNext,
             reorder, read>>
vars == <<endVars, net, faults>>

\* A datagram: the SYN and SYN+ACK carry their sender's ISN in seq, data carries
\* a payload; every one has the cumulative ack and the receive window.
Datagram == [to : End, kind : {"syn", "data", "ack"}, seq : SeqNo,
             payload : Nat, ack : SeqNo, win : Nat]
Buffered == [seq : SeqNo, payload : Nat]

TypeOK ==
  /\ state \in [End -> {"listen", "synSent", "established"}]
  /\ havePeer \in [End -> BOOLEAN]
  /\ peerWindow \in [End -> Nat \ {0}]
  /\ \A e \in End : written[e] \in 0..Payloads[e]
  /\ \A e \in End : sent[e] \in 0..written[e] /\ released[e] \in 0..sent[e]
  /\ recvNext \in [End -> SeqNo]
  /\ \A e \in End : reorder[e] \subseteq Buffered /\ read[e] \in Seq(Nat)
  /\ net \subseteq Datagram
  /\ faults \in 0..MaxFaults

-----------------------------------------------------------------------------
(* Sequence numbers.                                                       *)

\* Mutant: an addition that does not wrap.
PlainPlus(a, n) == a + n

Plus(a, n) == (a + n) % SeqSpace
Minus(a, b) == (a - b) % SeqSpace

\* a <= b in wrapping sequence space.
SeqLeq(a, b) == Minus(b, a) < Half

SeqOf(e, n) == Plus(Isn[e], n)

\* ack_num: the highest sequence number delivered in order, or -1.
AckNum(have, next) == IF have THEN Minus(next, 1) ELSE SeqSpace - 1

-----------------------------------------------------------------------------
(* What an end puts on the wire.                                           *)

Syn(e, ack) == [to |-> Other(e), kind |-> "syn", seq |-> Isn[e], payload |-> 0,
                ack |-> ack, win |-> Window[e]]
Data(e, n, ack) == [to |-> Other(e), kind |-> "data", seq |-> SeqOf(e, n),
                    payload |-> n, ack |-> ack, win |-> Window[e]]
Ack(e, ack) == [to |-> Other(e), kind |-> "ack", seq |-> 0, payload |-> 0,
                ack |-> ack, win |-> Window[e]]

Init ==
  /\ state = [e \in End |-> IF e = "client" THEN "synSent" ELSE "listen"]
  /\ havePeer = [e \in End |-> FALSE]
  /\ peerWindow = [e \in End |-> 1]
  /\ written = [e \in End |-> 0] /\ sent = [e \in End |-> 0]
  /\ released = [e \in End |-> 0]
  /\ recvNext = [e \in End |-> 0]
  /\ reorder = [e \in End |-> {}] /\ read = [e \in End |-> << >>]
  /\ net = {Syn("client", SeqSpace - 1)}
  /\ faults = 0

-----------------------------------------------------------------------------
(* The parts of a call.                                                    *)

\* Mutant: the sender takes the peer's window for unlimited.
Unlimited(queued, acked, window) == queued

\* pump: new data while fewer than a window of payloads is unacked.
Sendable(queued, acked, window) ==
  IF queued < acked + window THEN queued ELSE acked + window

\* process_ack: payloads leave unacked from the front, up to the first one the
\* cumulative ack does not cover.
Released(e, ack) ==
  LET covered(n) == \A m \in (released[e] + 1)..n : SeqLeq(SeqOf(e, m), ack)
  IN CHOOSE n \in released[e]..sent[e] :
       covered(n) /\ (n = sent[e] \/ ~covered(n + 1))

\* Mutant: lossy delivery, on arrival.
OnArrival(e, d) ==
  [read |-> Append(read[e], d.payload), reorder |-> {},
   next |-> IF SeqLeq(recvNext[e], d.seq) THEN Plus(d.seq, 1) ELSE recvNext[e]]

\* recv_source on a datagram within the stream: the next one is delivered with
\* whatever it completes, a later one is buffered once, an earlier one ignored.
InOrder(e, d) ==
  LET held == {b \in reorder[e] : b.seq # d.seq}
               \cup {[seq |-> d.seq, payload |-> d.payload]}
      here(k) == \E b \in held : b.seq = Plus(recvNext[e], k)
      run == CHOOSE k \in 0..(SeqSpace - 1) :
               /\ ~here(k) /\ \A j \in 0..(k - 1) : here(j)
      at(k) == CHOOSE b \in held : b.seq = Plus(recvNext[e], k)
  IN IF ~SeqLeq(recvNext[e], d.seq)
       THEN [read |-> read[e], reorder |-> reorder[e], next |-> recvNext[e]]
     ELSE IF \E b \in reorder[e] : b.seq = d.seq
       THEN [read |-> read[e], reorder |-> reorder[e], next |-> recvNext[e]]
       ELSE [read |-> read[e] \o [k \in 1..run |-> at(k - 1).payload],
             reorder |-> {b \in held : Minus(b.seq, recvNext[e]) >= run},
             next |-> Plus(recvNext[e], run)]

\* Exactly the datagrams put leave for the network, in place of those gone.
Transmit(gone, put) == net' = (net \ gone) \cup put

-----------------------------------------------------------------------------
(* The calls.                                                              *)

\* The application writes a payload (enqueue): it leaves at once if the window
\* allows.  The server's application has nothing to say before it heard the
\* client's first payload, which is its TLS or DTLS hello.
Enqueue(e) ==
  /\ written[e] < Payloads[e]
  /\ e = "server" => read[e] # << >>
  /\ written' = [written EXCEPT ![e] = @ + 1]
  /\ LET to == IF state[e] = "established"
                 THEN Sendable(written[e] + 1, released[e], peerWindow[e])
                 ELSE sent[e]
     IN /\ sent' = [sent EXCEPT ![e] = to]
        /\ Transmit({}, {Data(e, n, AckNum(havePeer[e], recvNext[e])) :
                           n \in (sent[e] + 1)..to})
  /\ UNCHANGED <<state, havePeer, peerWindow, released, recvNext, reorder, read,
                 faults>>

\* Sending and acknowledging at the end of a call: new data as far as it may go,
\* else an ack if one is owed; before the connection is established nothing.
Pump(e, gone, answer, owed) ==
  LET open == state'[e] = "established"
      to == IF open THEN Sendable(written[e], released'[e], peerWindow'[e])
                    ELSE sent[e]
      ack == AckNum(havePeer'[e], recvNext'[e])
      data == {Data(e, n, ack) : n \in (sent[e] + 1)..to}
  IN /\ sent' = [sent EXCEPT ![e] = to]
     /\ Transmit(gone, answer \cup data
                       \cup IF open /\ owed /\ data = {} THEN {Ack(e, ack)} ELSE {})

\* step on a SYN or SYN+ACK.  A server answers each one; the peer's first number
\* is learnt from the first only.
HandleSyn(e, d, gone) ==
  /\ d.kind = "syn"
  /\ peerWindow' = [peerWindow EXCEPT ![e] = IF d.win > @ THEN d.win ELSE @]
  /\ havePeer' = [havePeer EXCEPT ![e] = TRUE]
  /\ recvNext' = [recvNext EXCEPT ![e] = IF havePeer[e] THEN @ ELSE Plus(d.seq, 1)]
  /\ state' = [state EXCEPT ![e] = "established"]
  /\ released' = [released EXCEPT ![e] = Released(e, d.ack)]
  /\ Pump(e, gone, IF e = "server" THEN {Syn(e, d.seq)} ELSE {}, FALSE)
  /\ UNCHANGED <<written, reorder, read>>

\* step on data: the ack it carries, then the payload, then an answer.  An end always
\* knows its peer's numbers by then, since either writes only after it heard the
\* other (Enqueue): recv_source never adopts them from the first payload.
HandleData(e, d, gone) ==
  /\ d.kind = "data"
  /\ peerWindow' = [peerWindow EXCEPT ![e] = d.win]
  /\ released' = [released EXCEPT ![e] = Released(e, d.ack)]
  /\ LET in == InOrder(e, d)
     IN /\ read' = [read EXCEPT ![e] = in.read]
        /\ reorder' = [reorder EXCEPT ![e] = in.reorder]
        /\ recvNext' = [recvNext EXCEPT ![e] = in.next]
  /\ UNCHANGED <<state, havePeer, written>>
  /\ Pump(e, gone, {}, TRUE)

\* step on a pure ack.
HandleAck(e, d, gone) ==
  /\ d.kind = "ack"
  /\ peerWindow' = [peerWindow EXCEPT ![e] = d.win]
  /\ released' = [released EXCEPT ![e] = Released(e, d.ack)]
  /\ UNCHANGED <<state, havePeer, recvNext, reorder, read, written>>
  /\ Pump(e, gone, {}, FALSE)

Handle(d, gone) ==
  HandleSyn(d.to, d, gone) \/ HandleData(d.to, d, gone) \/ HandleAck(d.to, d, gone)

Deliver(d) == d \in net /\ Handle(d, {d}) /\ UNCHANGED faults

\* The client has no SYN+ACK yet and sends its SYN again.
ResendSyn ==
  /\ state["client"] = "synSent"
  /\ Transmit({}, {Syn("client", AckNum(havePeer["client"], recvNext["client"]))})
  /\ UNCHANGED <<endVars, faults>>

Unacked(e) == (released[e] + 1)..sent[e]

\* The retransmit timer: every payload in some set has been unacked for an RTO.
Resend(e, due) ==
  /\ state[e] = "established" /\ due # {} /\ due \subseteq Unacked(e)
  /\ Transmit({}, {Data(e, n, AckNum(havePeer[e], recvNext[e])) : n \in due})
  /\ UNCHANGED <<endVars, faults>>

\* Mutant: the clock runs only while traffic flows.
NoTimer(e) == FALSE

\* A tick late enough for all of them.
ResendAll(e) == Resend(e, Unacked(e))

-----------------------------------------------------------------------------
(* The network.                                                            *)

Lose(d) ==
  /\ d \in net /\ faults < MaxFaults
  /\ faults' = faults + 1 /\ net' = net \ {d}
  /\ UNCHANGED endVars

\* A datagram arrives, and will arrive again.
Repeat(d) ==
  /\ d \in net /\ faults < MaxFaults
  /\ faults' = faults + 1
  /\ Handle(d, {})

Next ==
  \/ \E e \in End : Enqueue(e) \/ ResendAll(e) \/ \E n \in Unacked(e) : Resend(e, {n})
  \/ ResendSyn
  \/ \E d \in net : Deliver(d) \/ Lose(d) \/ Repeat(d)

Spec == Init /\ [][Next]_vars

\* What a datagram for e still has to do: open an end, bring the next payload,
\* have a payload acked again whose ack got lost, or release one.
Uses == {"open", "next", "again", "release"}
Useful(e, d, use) ==
  /\ d.to = e
  /\ CASE use = "open" -> d.kind = "syn" /\ ~(havePeer[e] /\ havePeer[Other(e)])
       [] use = "next" -> d.kind = "data" /\ d.seq = recvNext[e]
       [] use = "again" -> /\ d.kind = "data"
                           /\ d.payload \in (released[Other(e)] + 1)..Len(read[e])
       [] use = "release" -> Released(e, d.ack) > released[e]

\* The timers run, and the network lets through what keeps being of use: it may
\* lose a datagram, but not withhold every copy for ever.
FairSpec ==
  /\ Spec
  /\ WF_vars(ResendSyn)
  /\ \A e \in End :
       /\ WF_vars(ResendAll(e))
       /\ \A use \in Uses : WF_vars(\E d \in net : Useful(e, d, use) /\ Deliver(d))

-----------------------------------------------------------------------------
(* Properties.                                                             *)

\* "application bytes to deliver (in order, exactly once)": the transport
\* implements a reliable stream, whatever the network repeats or reorders.
Stream == INSTANCE ReliableStream WITH written <- written, read <- read
ImplementsStream == Stream!Spec

\* A payload is dropped from the retransmit queue only when its reader has it:
\* no ack, not the -1 of a late SYN nor one from before the numbers wrapped,
\* releases anything else.
ReleasedWasRead == \A e \in End : released[e] <= Len(read[Other(e)])

\* The receiver never has to hold more than the window it advertised.
ReorderFits ==
  \A e \in End : \A b \in reorder[e] : Minus(b.seq, recvNext[e]) \in 1..(Window[e] - 1)

\* Together: neither end's buffer gives up or takes in what it must not.
BuffersSound == ReleasedWasRead /\ ReorderFits

\* What was written is read, as long as the network lets something through.
EverythingArrives ==
  \A e \in End : \A n \in 1..Payloads[e] :
    written[e] >= n ~> Len(read[Other(e)]) >= n
=============================================================================
