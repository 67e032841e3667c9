------------------------------- MODULE SendList -------------------------------
(***************************************************************************)
(* The queues of blocked senders as kernel/proc.c keeps them: a list per   *)
(* process, q_sending pointing at its first sender and next_sending at the *)
(* following ones.  msg_send walks to the end to append, msg_receive takes *)
(* the first sender or walks to the one it names, remembering prev.        *)
(* The walks run with interrupts off, so each operation is one step.       *)
(*                                                                         *)
(* Definitions whose comment starts with "Wrong:" are not part of the      *)
(* model: they are mistakes that the properties would notice.              *)
(***************************************************************************)
EXTENDS Naturals, Sequences, FiniteSets

CONSTANTS
    Procs,       \* slots of proc_table
    NULL         \* the null pointer; also NO_TASK

ASSUME NullAssumption == NULL \notin Procs /\ IsFiniteSet(Procs)

VARIABLES
    q_sending,     \* first sender blocked on each process
    next_sending,  \* the sender queued behind each process
    p_sendto       \* whom each process is blocked sending to

vars == <<q_sending, next_sending, p_sendto>>

Init ==
    /\ q_sending = [p \in Procs |-> NULL]
    /\ next_sending = [p \in Procs |-> NULL]
    /\ p_sendto = [p \in Procs |-> NULL]

Blocked(p) == p_sendto[p] # NULL

\* Where the pointer p of a walk over d's list is after each step.
Walk(d) ==
    LET at[i \in 1..(Cardinality(Procs) + 1)] ==
            IF i = 1 THEN q_sending[d]
            ELSE IF at[i - 1] = NULL THEN NULL ELSE next_sending[at[i - 1]]
    IN  at

WalkLength(d) == Cardinality({i \in 1..(Cardinality(Procs) + 1) : Walk(d)[i] # NULL})

\* The chain of p_sendto from dest arrives at src.
deadlock(src, dest) ==
    \A T \in SUBSET Procs :
        dest \in T /\ (\A p \in T : Blocked(p) => p_sendto[p] \in T) => src \in T

\* msg_send to a process that does not wait for it: append and block.
append(sender, dest) ==
    /\ ~Blocked(sender) /\ sender # dest
    /\ ~deadlock(sender, dest)
    /\ p_sendto' = [p_sendto EXCEPT ![sender] = dest]
    /\ IF q_sending[dest] # NULL
       THEN /\ next_sending' = [next_sending EXCEPT ![Walk(dest)[WalkLength(dest)]] = sender,
                                                    ![sender] = NULL]
            /\ UNCHANGED q_sending
       ELSE /\ q_sending' = [q_sending EXCEPT ![dest] = sender]
            /\ next_sending' = [next_sending EXCEPT ![sender] = NULL]

\* Wrong: the successor of p_from is not cleared.
Unlink_KeepsNext(p, p_from, prev) ==
    /\ next_sending' = IF p_from = q_sending[p]
                       THEN next_sending
                       ELSE [next_sending EXCEPT ![prev] = next_sending[p_from]]
    /\ q_sending' = IF p_from = q_sending[p]
                    THEN [q_sending EXCEPT ![p] = next_sending[p_from]]
                    ELSE q_sending
    /\ p_sendto' = [p_sendto EXCEPT ![p_from] = NULL]

\* Wrong: cuts the list off behind prev.
Unlink_CutsOff(p, p_from, prev) ==
    /\ next_sending' = IF p_from = q_sending[p]
                       THEN [next_sending EXCEPT ![p_from] = NULL]
                       ELSE [next_sending EXCEPT ![prev] = NULL, ![p_from] = NULL]
    /\ q_sending' = IF p_from = q_sending[p]
                    THEN [q_sending EXCEPT ![p] = next_sending[p_from]]
                    ELSE q_sending
    /\ p_sendto' = [p_sendto EXCEPT ![p_from] = NULL]

\* msg_receive takes p_from out of the list of p; prev was walked over last.
Unlink(p, p_from, prev) ==
    /\ next_sending' = IF p_from = q_sending[p]
                       THEN [next_sending EXCEPT ![p_from] = NULL]
                       ELSE [next_sending EXCEPT ![prev] = next_sending[p_from], ![p_from] = NULL]
    /\ q_sending' = IF p_from = q_sending[p]
                    THEN [q_sending EXCEPT ![p] = next_sending[p_from]]
                    ELSE q_sending
    /\ p_sendto' = [p_sendto EXCEPT ![p_from] = NULL]

ReceiveAny(p) ==
    /\ ~Blocked(p)
    /\ q_sending[p] # NULL
    /\ Unlink(p, q_sending[p], NULL)

\* The walk stops at src, or behind the last sender if src is not there.
ReceiveFrom(p, src) ==
    /\ ~Blocked(p)
    /\ p_sendto[src] = p
    /\ \E stop \in 1..(WalkLength(p) + 1) :
         /\ \A i \in 1..(stop - 1) : Walk(p)[i] # src
         /\ stop = WalkLength(p) + 1 \/ Walk(p)[stop] = src
         /\ Unlink(p, src, IF stop = 1 THEN NULL ELSE Walk(p)[stop - 1])

Next ==
    \E p \in Procs :
        \/ ReceiveAny(p)
        \/ \E other \in Procs : append(p, other) \/ ReceiveFrom(p, other)

Spec == Init /\ [][Next]_vars

(***************************************************************************)
(* Properties                                                              *)
(***************************************************************************)

\* A process that waits for nobody has no successor: a link that msg_receive
\* left behind would pull senders of another queue into the next one.
NoStaleLinks == \A p \in Procs : ~Blocked(p) => next_sending[p] = NULL

\* The pointers implement the queues: appending behind the last sender and
\* unlinking from any place keep every other sender, in its place.
SQ == INSTANCE SendQueue
      WITH queue <- [d \in Procs |-> [i \in 1..WalkLength(d) |-> Walk(d)[i]]]

ImplementsQueue == SQ!Spec

=============================================================================
