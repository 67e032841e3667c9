--------------------------------- MODULE Ipc ---------------------------------
(***************************************************************************)
(* Synchronous message passing of the kernel (kernel/proc.c): sys_sendrec, *)
(* msg_send, msg_receive, deadlock and inform_int over the process table.  *)
(*                                                                         *)
(* A SEND or a RECEIVE is one step.  The kernel never preempts itself      *)
(* (clock_handler returns when k_reenter # 0) and both handlers run from   *)
(* disable_int to schedule; what they read before disable_int, the p_sendto*)
(* chain, is never written by an interrupt handler.  A process can step    *)
(* when its p_flags are empty: the scheduler picks among those processes   *)
(* (module Sched), and any order of theirs is allowed here.                *)
(*                                                                         *)
(* A MESSAGE is its source and a body (type and arguments).  The pointer   *)
(* p_msg is TRUE when it points at the process's buffer, FALSE when null.  *)
(* The linked list q_sending/next_sending is a sequence here; module       *)
(* SendList has the pointers, module SendQueue what both of them promise.  *)
(*                                                                         *)
(* Definitions whose comment starts with "Wrong:" are not part of the      *)
(* model: each is a mistake the next definition could have been written    *)
(* with, kept to show that the properties would notice it.                 *)
(***************************************************************************)
EXTENDS Integers, Sequences

CONSTANTS
    Procs,       \* slots of proc_table
    IntTasks,    \* the tasks interrupt handlers inform (TTY and HD)
    Bodies,      \* message bodies processes send
    HARD_INT,    \* body of the message an interrupt becomes
    ANY, INTERRUPT, NO_TASK   \* the pseudo process numbers

VARIABLES
    p_flags,     \* state bits of each process; the empty set is runnable
    p_msg,       \* whether the process's message pointer is set
    p_recvfrom,  \* whom a RECEIVING process waits for
    p_sendto,    \* whom a SENDING process waits for
    has_int_msg, \* an interrupt is pending for the process
    q_sending,   \* processes blocked sending to the process, oldest first
    buf,         \* contents of the process's MESSAGE buffer
    halted       \* the kernel panicked

vars == <<p_flags, p_msg, p_recvfrom, p_sendto, has_int_msg, q_sending, buf, halted>>

ASSUME PseudoProcs ==
    /\ ANY \notin Procs /\ INTERRUPT \notin Procs /\ NO_TASK \notin Procs
    /\ ANY # INTERRUPT /\ ANY # NO_TASK /\ INTERRUPT # NO_TASK
ASSUME IntTasksAssumption == IntTasks \subseteq Procs

Flags == {"SENDING", "RECEIVING", "WAITING", "HANGING", "FREE_SLOT"}

Message == [source : Procs \cup {INTERRUPT}, body : Bodies \cup {HARD_INT}]

\* What a RECEIVE may name as its source.
Sources == Procs \cup {ANY, INTERRUPT}

Running(p)   == p_flags[p] = {}
Sending(p)   == "SENDING" \in p_flags[p]
Receiving(p) == "RECEIVING" \in p_flags[p]

\* The process table as tinix_main leaves it.
Init ==
    /\ p_flags = [p \in Procs |-> {}]
    /\ p_msg = [p \in Procs |-> FALSE]
    /\ p_recvfrom = [p \in Procs |-> NO_TASK]
    /\ p_sendto = [p \in Procs |-> NO_TASK]
    /\ has_int_msg = [p \in Procs |-> FALSE]
    /\ q_sending = [p \in Procs |-> << >>]
    /\ \E b \in Bodies : buf = [p \in Procs |-> [source |-> p, body |-> b]]
    /\ halted = FALSE

(***************************************************************************)
(* SEND                                                                    *)
(***************************************************************************)

\* The set T holds whatever the p_sendto chain reaches from its members.
ClosedUnderSendto(T) == \A p \in T : Sending(p) => p_sendto[p] \in T

\* Wrong: only looks one process ahead.
deadlock_OneHop(src, dest) == Sending(dest) /\ p_sendto[dest] = src

\* The walk along p_sendto from dest arrives at src.
deadlock(src, dest) ==
    \A T \in SUBSET Procs : dest \in T /\ ClosedUnderSendto(T) => src \in T

\* Wrong: forgets that ANY accepts everybody.
AcceptsFrom_NotAny(dest, src) == Receiving(dest) /\ p_recvfrom[dest] = src

\* Wrong: does not look at whom dest waits for.
AcceptsFrom_Anyone(dest, src) == Receiving(dest)

\* dest is blocked in a RECEIVE that a message from src satisfies.
AcceptsFrom(dest, src) == Receiving(dest) /\ p_recvfrom[dest] \in {src, ANY}

\* The SEND would close a cycle of senders: panic.
SendPanic(sender, dest) ==
    /\ deadlock(sender, dest)
    /\ halted' = TRUE
    /\ UNCHANGED <<p_flags, p_msg, p_recvfrom, p_sendto, has_int_msg, q_sending, buf>>

\* Wrong: p_recvfrom of dest is not reset.
SendDeliver_KeepsRecvfrom(sender, dest, body) ==
    /\ ~deadlock(sender, dest)
    /\ AcceptsFrom(dest, sender)
    /\ LET m == [source |-> sender, body |-> body]
       IN  buf' = [buf EXCEPT ![sender] = m, ![dest] = m]
    /\ p_msg' = [p_msg EXCEPT ![dest] = FALSE]
    /\ p_flags' = [p_flags EXCEPT ![dest] = @ \ {"RECEIVING"}]
    /\ UNCHANGED <<p_recvfrom, p_sendto, has_int_msg, q_sending, halted>>

\* dest is waiting for the message: it is copied and dest is unblocked.
SendDeliver(sender, dest, body) ==
    /\ ~deadlock(sender, dest)
    /\ AcceptsFrom(dest, sender)
    /\ LET m == [source |-> sender, body |-> body]
       IN  buf' = [buf EXCEPT ![sender] = m, ![dest] = m]
    /\ p_msg' = [p_msg EXCEPT ![dest] = FALSE]
    /\ p_flags' = [p_flags EXCEPT ![dest] = @ \ {"RECEIVING"}]
    /\ p_recvfrom' = [p_recvfrom EXCEPT ![dest] = NO_TASK]
    /\ UNCHANGED <<p_sendto, has_int_msg, q_sending, halted>>

\* Wrong: the sender is put in front of the queue.
SendBlock_AtFront(sender, dest, body) ==
    /\ ~deadlock(sender, dest)
    /\ ~AcceptsFrom(dest, sender)
    /\ buf' = [buf EXCEPT ![sender] = [source |-> sender, body |-> body]]
    /\ p_flags' = [p_flags EXCEPT ![sender] = @ \cup {"SENDING"}]
    /\ p_sendto' = [p_sendto EXCEPT ![sender] = dest]
    /\ p_msg' = [p_msg EXCEPT ![sender] = TRUE]
    /\ q_sending' = [q_sending EXCEPT ![dest] = <<sender>> \o @]
    /\ UNCHANGED <<p_recvfrom, has_int_msg, halted>>

\* dest is not waiting for the message: the sender joins dest's queue.
SendBlock(sender, dest, body) ==
    /\ ~deadlock(sender, dest)
    /\ ~AcceptsFrom(dest, sender)
    /\ buf' = [buf EXCEPT ![sender] = [source |-> sender, body |-> body]]
    /\ p_flags' = [p_flags EXCEPT ![sender] = @ \cup {"SENDING"}]
    /\ p_sendto' = [p_sendto EXCEPT ![sender] = dest]
    /\ p_msg' = [p_msg EXCEPT ![sender] = TRUE]
    /\ q_sending' = [q_sending EXCEPT ![dest] = Append(@, sender)]
    /\ UNCHANGED <<p_recvfrom, has_int_msg, halted>>

msg_send(sender, dest, body) ==
    \/ SendPanic(sender, dest)
    \/ SendDeliver(sender, dest, body)
    \/ SendBlock(sender, dest, body)

(***************************************************************************)
(* RECEIVE                                                                 *)
(***************************************************************************)

TakesInterrupt(p, src) == has_int_msg[p] /\ src \in {ANY, INTERRUPT}

\* The process whose message a RECEIVE by p takes from the queue.
HasSender(p, src) ==
    \/ src = ANY /\ q_sending[p] # << >>
    \/ src \in Procs /\ Sending(src) /\ p_sendto[src] = p

\* Wrong: whoever is queued behind the i-th element is lost.
Unlink_DropsRest(q, i) == SubSeq(q, 1, i - 1)

\* Wrong: the last element takes the place of the i-th.
Unlink_LastMoves(q, i) == [j \in 1..(Len(q) - 1) |-> IF j = i THEN q[Len(q)] ELSE q[j]]

\* A sequence without its i-th element.
Unlink(q, i) == [j \in 1..(Len(q) - 1) |-> IF j < i THEN q[j] ELSE q[j + 1]]

\* Wrong: the source of the message is ANY.
ReceiveInt_FromAny(p, src) ==
    /\ TakesInterrupt(p, src)
    /\ buf' = [buf EXCEPT ![p] = [source |-> ANY, body |-> HARD_INT]]
    /\ has_int_msg' = [has_int_msg EXCEPT ![p] = FALSE]
    /\ UNCHANGED <<p_flags, p_msg, p_recvfrom, p_sendto, q_sending, halted>>

\* A pending interrupt is delivered before any queued message.
ReceiveInt(p, src) ==
    /\ TakesInterrupt(p, src)
    /\ buf' = [buf EXCEPT ![p] = [source |-> INTERRUPT, body |-> HARD_INT]]
    /\ has_int_msg' = [has_int_msg EXCEPT ![p] = FALSE]
    /\ UNCHANGED <<p_flags, p_msg, p_recvfrom, p_sendto, q_sending, halted>>

\* ANY takes the head of the queue, a named source is unlinked from it.
ReceiveQueued(p, src) ==
    /\ ~TakesInterrupt(p, src)
    /\ HasSender(p, src)
    /\ \E i \in 1..Len(q_sending[p]) :
         LET from == q_sending[p][i]
         IN  /\ IF src = ANY THEN i = 1 ELSE from = src
             /\ q_sending' = [q_sending EXCEPT ![p] = Unlink(@, i)]
             /\ buf' = [buf EXCEPT ![p] = buf[from]]
             /\ p_msg' = [p_msg EXCEPT ![from] = FALSE]
             /\ p_sendto' = [p_sendto EXCEPT ![from] = NO_TASK]
             /\ p_flags' = [p_flags EXCEPT ![from] = @ \ {"SENDING"}]
    /\ UNCHANGED <<p_recvfrom, has_int_msg, halted>>

\* Nothing to take: p blocks until SEND or inform_int fills its buffer.
ReceiveBlock(p, src) ==
    /\ ~TakesInterrupt(p, src)
    /\ ~HasSender(p, src)
    /\ buf' = [buf EXCEPT ![p].source = p]
    /\ p_flags' = [p_flags EXCEPT ![p] = @ \cup {"RECEIVING"}]
    /\ p_msg' = [p_msg EXCEPT ![p] = TRUE]
    /\ p_recvfrom' = [p_recvfrom EXCEPT ![p] = src]
    /\ UNCHANGED <<p_sendto, has_int_msg, q_sending, halted>>

msg_receive(p, src) ==
    \/ ReceiveInt(p, src)
    \/ ReceiveQueued(p, src)
    \/ ReceiveBlock(p, src)

(***************************************************************************)
(* Interrupts                                                              *)
(***************************************************************************)

\* A task blocked for an interrupt (or for anything) is woken by it.
InformWake(task) ==
    /\ AcceptsFrom(task, INTERRUPT)
    /\ buf' = [buf EXCEPT ![task] = [source |-> INTERRUPT, body |-> HARD_INT]]
    /\ p_msg' = [p_msg EXCEPT ![task] = FALSE]
    /\ has_int_msg' = [has_int_msg EXCEPT ![task] = FALSE]
    /\ p_flags' = [p_flags EXCEPT ![task] = @ \ {"RECEIVING"}]
    /\ p_recvfrom' = [p_recvfrom EXCEPT ![task] = NO_TASK]
    /\ UNCHANGED <<p_sendto, q_sending, halted>>

\* Otherwise the interrupt is remembered; several become one.
InformPend(task) ==
    /\ ~AcceptsFrom(task, INTERRUPT)
    /\ has_int_msg' = [has_int_msg EXCEPT ![task] = TRUE]
    /\ UNCHANGED <<p_flags, p_msg, p_recvfrom, p_sendto, q_sending, buf, halted>>

inform_int(task) == InformWake(task) \/ InformPend(task)

(***************************************************************************)
(* A runnable process traps into sys_sendrec, whose assertions rule out    *)
(* messages to and from itself.                                            *)
(***************************************************************************)
SysSend(p) ==
    /\ ~halted /\ Running(p)
    /\ \E dest \in Procs \ {p}, body \in Bodies : msg_send(p, dest, body)

SysReceive(p) ==
    /\ ~halted /\ Running(p)
    /\ \E src \in Sources \ {p} : msg_receive(p, src)

HardwareInterrupt(task) == ~halted /\ inform_int(task)

Next ==
    \/ \E p \in Procs : SysSend(p) \/ SysReceive(p)
    \/ \E task \in IntTasks : HardwareInterrupt(task)

Spec == Init /\ [][Next]_vars

(***************************************************************************)
(* Properties                                                              *)
(***************************************************************************)

\* Every field of the process table holds a value of its C type.
TypeOK ==
    /\ p_flags \in [Procs -> SUBSET Flags]
    /\ p_msg \in [Procs -> BOOLEAN]
    /\ p_recvfrom \in [Procs -> Sources \cup {NO_TASK}]
    /\ p_sendto \in [Procs -> Procs \cup {NO_TASK}]
    /\ has_int_msg \in [Procs -> BOOLEAN]
    /\ q_sending \in [Procs -> Seq(Procs)]
    /\ buf \in [Procs -> Message]
    /\ halted \in BOOLEAN

\* A process is in q_sending of a destination exactly when it is SENDING to
\* it, and only once: msg_send appends, msg_receive unlinks from any place.
QueuedAreSending ==
    \A d \in Procs : \A i \in 1..Len(q_sending[d]) :
        Sending(q_sending[d][i]) /\ p_sendto[q_sending[d][i]] = d
SendersAreQueued ==
    \A p \in Procs : Sending(p) =>
        \E i \in 1..Len(q_sending[p_sendto[p]]) : q_sending[p_sendto[p]][i] = p
QueuedOnce ==
    \A d \in Procs : \A i, j \in 1..Len(q_sending[d]) :
        q_sending[d][i] = q_sending[d][j] => i = j
QueueExact == QueuedAreSending /\ SendersAreQueued /\ QueuedOnce

\* Senders never wait for each other in a circle: deadlock() turns the SEND
\* that would close one into a panic, and its own walk always ends.
SendGraphAcyclic ==
    \A S \in SUBSET Procs :
        (\A p \in S : Sending(p) /\ p_sendto[p] \in S) => S = {}

\* No lost wake-up: nobody is blocked in a RECEIVE that a queued sender or a
\* pending interrupt would satisfy, in whatever order they arrived.
NoMissedWakeup ==
    \A p \in Procs : Receiving(p) =>
        ~TakesInterrupt(p, p_recvfrom[p]) /\ ~HasSender(p, p_recvfrom[p])

\* What msg_send, msg_receive and inform_int assert of a caller (runnable),
\* of the destination of a delivery and of a dequeued sender.
CallerAsserts(p) ==
    Running(p) => ~p_msg[p] /\ p_recvfrom[p] = NO_TASK /\ p_sendto[p] = NO_TASK
ReceiverAsserts(p) ==
    Receiving(p) => p_msg[p] /\ p_flags[p] = {"RECEIVING"} /\ p_sendto[p] = NO_TASK
SenderAsserts(p) ==
    Sending(p) => p_msg[p] /\ p_flags[p] = {"SENDING"} /\ p_recvfrom[p] = NO_TASK
QueueAsserts(p) ==
    \A src \in Sources \ {p} : HasSender(p, src) =>
        \E i \in 1..Len(q_sending[p]) :
            /\ IF src = ANY THEN i = 1 ELSE q_sending[p][i] = src
            /\ Sending(q_sending[p][i]) /\ p_sendto[q_sending[p][i]] = p

\* No assertion of kernel/proc.c can fail, whatever processes call.
AssertsHold ==
    \A p \in Procs :
        CallerAsserts(p) /\ ReceiverAsserts(p) /\ SenderAsserts(p) /\ QueueAsserts(p)

\* A sender leaves SENDING only when its destination holds its message, and a
\* receiver leaves RECEIVING only with a message from whom it waited for.
RendezvousOf(p) ==
    /\ Sending(p) /\ ~Sending(p)' => buf'[p_sendto[p]] = buf[p]
    /\ Receiving(p) /\ ~Receiving(p)' =>
          \/ buf'[p].source = p_recvfrom[p]
          \/ p_recvfrom[p] = ANY /\ buf'[p].source # p
RendezvousStep == \A p \in Procs : RendezvousOf(p)
RendezvousSound == [][RendezvousStep]_vars

\* A process blocked in SEND only moves forward in the queue it waits in:
\* later senders never overtake it for a RECEIVE from ANY.
NoOvertakingStep ==
    \A d \in Procs : \A i \in 1..Len(q_sending[d]), j \in 1..Len(q_sending'[d]) :
        q_sending[d][i] = q_sending'[d][j] => j <= i
NoOvertaking == [][NoOvertakingStep]_vars

\* The queues of blocked senders behave as SendQueue says: each step leaves
\* them alone, appends one sender or removes the first or a named one, and
\* only a process that is not queued itself does either.
SQ == INSTANCE SendQueue WITH queue <- q_sending
ImplementsQueue == SQ!Spec

(***************************************************************************)
(* The inductive invariant: a process is runnable, SENDING or RECEIVING,   *)
(* and its message fields agree with which of them it is.                  *)
(***************************************************************************)
ShapeOf(p) ==
    /\ p_flags[p] \in {{}, {"SENDING"}, {"RECEIVING"}}
    /\ p_msg[p] <=> p_flags[p] # {}
    /\ Sending(p) <=> p_sendto[p] # NO_TASK
    /\ Receiving(p) <=> p_recvfrom[p] # NO_TASK

Shape == \A p \in Procs : ShapeOf(p)

IInv == TypeOK /\ Shape /\ QueueExact /\ SendGraphAcyclic /\ NoMissedWakeup

=============================================================================
