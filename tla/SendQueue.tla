------------------------------ MODULE SendQueue ------------------------------
(***************************************************************************)
(* What the kernel's queues of blocked senders promise: every process has  *)
(* a queue; a process waits in at most one of them and enters it at the    *)
(* end; whoever receives takes one process out and leaves the others in    *)
(* their order; a process that waits neither enters nor receives.          *)
(***************************************************************************)
EXTENDS Naturals, Sequences

CONSTANT Procs
VARIABLE queue

Queued(p) == \E d \in Procs : \E i \in 1..Len(queue[d]) : queue[d][i] = p

\* queue[d] without its i-th element.
Without(d, i) ==
    [queue EXCEPT ![d] = [j \in 1..(Len(@) - 1) |-> IF j < i THEN @[j] ELSE @[j + 1]]]

Init == queue = [d \in Procs |-> << >>]

Enqueue(p, d) ==
    /\ p # d
    /\ ~Queued(p)
    /\ queue' = [queue EXCEPT ![d] = Append(@, p)]

\* src is the first for a RECEIVE from ANY, any of them when it is named.
Dequeue(d, src) ==
    /\ ~Queued(d)
    /\ \E i \in 1..Len(queue[d]) : queue[d][i] = src /\ queue' = Without(d, i)

Next == \E p, d \in Procs : Enqueue(p, d) \/ Dequeue(d, p)

Spec == Init /\ [][Next]_queue

=============================================================================
