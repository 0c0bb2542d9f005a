--------------------------- MODULE ReliableStream ---------------------------
(***************************************************************************)
(* What a reliable RDPEUDP connection promises to the two programs at its  *)
(* ends: in each direction the payloads written come out once each and in  *)
(* order.  Payload number n is the nth one that was written.               *)
(***************************************************************************)
EXTENDS Naturals, Sequences

CONSTANTS End, Other(_)

VARIABLES
  written,   \* payloads each end has written
  read       \* the payloads each end has read, oldest first

Init ==
  /\ written = [e \in End |-> 0]
  /\ read = [e \in End |-> << >>]

Write(e) ==
  /\ written' = [written EXCEPT ![e] = @ + 1]
  /\ UNCHANGED read

\* The next payloads the other end wrote, any number of them at once.
Read(e) ==
  /\ \E n \in (Len(read[e]) + 1)..written[Other(e)] :
       read' = [read EXCEPT ![e] = [i \in 1..n |-> i]]
  /\ UNCHANGED written

Next == \E e \in End : Write(e) \/ Read(e)

Spec == Init /\ [][Next]_<<written, read>>
=============================================================================
