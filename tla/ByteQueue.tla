------------------------------- MODULE ByteQueue -------------------------------
(***************************************************************************)
(* What the ring of scan codes (kernel/keyboard.c) promises to its two     *)
(* users, the interrupt handler that fills it and the reader that empties  *)
(* it: a queue of bounded length that gives up the newest byte when full.  *)
(***************************************************************************)
EXTENDS Naturals, Sequences

CONSTANTS Bytes, Size

VARIABLE q

Init == q = << >>

\* The interrupt handler delivers a byte, which is lost when the queue is full.
Put(b) == q' = IF Len(q) < Size THEN Append(q, b) ELSE q

Get == q # << >> /\ q' = Tail(q)

Next == Get \/ \E b \in Bytes : Put(b)

Spec == Init /\ [][Next]_q
================================================================================
