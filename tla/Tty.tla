---------------------------------- MODULE Tty ----------------------------------
(***************************************************************************)
(* Terminals: the TTY task (kernel/tty.c), the part of FS that passes the  *)
(* requests of user programs on to it (fs/main.c, fs/opera.c), the         *)
(* keyboard and clock interrupts that wake it, and the programs that open, *)
(* read and write terminals (lib/unistd.c), on top of module Ipc.          *)
(*                                                                         *)
(* A read that cannot be answered at once is suspended: TTY remembers it,  *)
(* FS goes on without answering, and when a line is complete TTY tells FS  *)
(* to resume the reader.  FS has one message at a time, TTY one request    *)
(* per terminal.                                                           *)
(*                                                                         *)
(* The input ring of the keyboard holds keys here; module Keyboard has the *)
(* scan codes, module Console what the characters do on the screen.  TTY's *)
(* rings and requests are its own, so a change of them and the SEND behind *)
(* it are one step.                                                        *)
(***************************************************************************)
EXTENDS Ipc

CONSTANTS
    TTY, FS,           \* the two tasks; all other processes are programs
    Ttys, FIRST_TTY,   \* terminals; the one shown first
    NextTty,           \* the terminal behind each, NO_TASK behind the last
    Sessions,          \* what may be going on: which program uses which terminal, what
                       \* the programs call, what is typed (characters, or terminals to
                       \* switch to), and how many keys at most
    Counts,            \* lengths of reads and writes
    KB_IN_BYTES, TTY_BUFFER_SIZE    \* sizes of the rings

Users == Procs \ {TTY, FS}

\* The loop of task_tty comes from terminal t to terminal c.
Reachable(t, c) ==
    \A T \in SUBSET Ttys :
        t \in T /\ (\A x \in T : NextTty[x] \in T \cup {NO_TASK}) => c \in T

ASSUME TtyAssumption ==
    /\ TTY \in Procs /\ FS \in Procs /\ TTY # FS /\ IntTasks = {TTY}
    /\ FIRST_TTY \in Ttys /\ NO_TASK \notin Ttys /\ NextTty \in [Ttys -> Ttys \cup {NO_TASK}]
    /\ \A t \in Ttys : Reachable(FIRST_TTY, t)
    /\ \A x \in Sessions : /\ x.uses \subseteq Users \X Ttys
                           /\ x.calls \subseteq {"OPEN", "READ", "WRITE"}
                           /\ x.maxKeys \in Nat
    /\ {KB_IN_BYTES, TTY_BUFFER_SIZE} \cup Counts \subseteq Nat \ {0}
    /\ \E n \in Counts : \A m \in Counts : m <= n

VARIABLES
    session,       \* what is going on, chosen at the start
    prog,          \* of each program: "user" code, or in a call "recv", "ret"
    kb_in,         \* keys in the keyboard's ring
    key_pressed,   \* set by the keyboard's interrupt, read by the clock's
    typed,         \* how many keys were typed
    current_tty,   \* the terminal shown
    ring,          \* characters in the ring of each terminal
    req,           \* the read request of each terminal: proc2tty, reqed_cnt, sended_cnt
    tty_pc, tty_p, \* where TTY is, and the terminal at hand
    fs_pc, fs_src  \* where FS is, and whom it is to answer

ipcVars == vars
ttyVars == <<kb_in, key_pressed, typed, current_tty, ring, req, tty_pc, tty_p>>
fsVars  == <<fs_pc, fs_src>>
allVars == <<ipcVars, session, prog, ttyVars, fsVars>>

Body(type, dev, proc, cnt) == [type |-> type, dev |-> dev, proc |-> proc, cnt |-> cnt]

MaxCount == CHOOSE n \in Counts : \A m \in Counts : m <= n

DevType == [OPEN |-> "DEV_OPEN", READ |-> "DEV_READ", WRITE |-> "DEV_WRITE"]

TtyBodies ==
    {Body(type, t, u, n) :
        type \in {"OPEN", "READ", "WRITE", "DEV_OPEN", "DEV_READ", "DEV_WRITE", "SUSPEND_PROC",
                  "RESUME_PROC", "SYSCALL_RET"},
        t \in Ttys, u \in Users, n \in 0..MaxCount}

ASSUME BodiesAssumption ==
    Bodies # {} /\ TtyBodies \subseteq Bodies /\ HARD_INT \notin TtyBodies

NoRequest == [proc2tty |-> NO_TASK, reqed_cnt |-> 0, sended_cnt |-> 0]

TtyInit ==
    /\ p_flags = [p \in Procs |-> {}]
    /\ p_msg = [p \in Procs |-> FALSE]
    /\ p_recvfrom = [p \in Procs |-> NO_TASK]
    /\ p_sendto = [p \in Procs |-> NO_TASK]
    /\ has_int_msg = [p \in Procs |-> FALSE]
    /\ q_sending = [p \in Procs |-> << >>]
    /\ buf = [p \in Procs |-> [source |-> p, body |-> CHOOSE b \in Bodies : TRUE]]
    /\ halted = FALSE
    /\ prog = [u \in Users |-> "user"]
    /\ kb_in = << >> /\ key_pressed = FALSE /\ typed = 0
    /\ current_tty = FIRST_TTY
    /\ ring = [t \in Ttys |-> << >>]
    /\ req = [t \in Ttys |-> NoRequest]
    /\ tty_pc = "enter" /\ tty_p = FIRST_TTY
    /\ fs_pc = "receive" /\ fs_src = FS
    /\ session \in Sessions

(***************************************************************************)
(* Interrupts                                                              *)
(***************************************************************************)

\* keyboard_handler: a key for which the ring has no room is lost.
KeyPress(k) ==
    /\ ~halted /\ typed < session.maxKeys
    /\ kb_in' = IF Len(kb_in) < KB_IN_BYTES THEN Append(kb_in, k) ELSE kb_in
    /\ key_pressed' = TRUE
    /\ typed' = typed + 1
    /\ UNCHANGED <<ipcVars, prog, current_tty, ring, req, tty_pc, tty_p, fsVars>>

\* clock_handler.
Tick ==
    /\ ~halted /\ key_pressed
    /\ inform_int(TTY)
    /\ UNCHANGED <<prog, ttyVars, fsVars>>

(***************************************************************************)
(* Programs                                                                *)
(***************************************************************************)

\* open, read or write: the SEND half of send_recv(BOTH).
Call(u, c, t, n) ==
    /\ ~halted /\ Running(u) /\ prog[u] = "user"
    /\ <<u, t>> \in session.uses
    /\ msg_send(u, FS, Body(c, t, u, n))
    /\ prog' = [prog EXCEPT ![u] = "recv"]
    /\ UNCHANGED <<ttyVars, fsVars>>

\* The RECEIVE half.
Await(u) ==
    /\ ~halted /\ Running(u) /\ prog[u] = "recv"
    /\ msg_receive(u, FS)
    /\ prog' = [prog EXCEPT ![u] = "ret"]
    /\ UNCHANGED <<ttyVars, fsVars>>

Return(u) ==
    /\ ~halted /\ Running(u) /\ prog[u] = "ret"
    /\ prog' = [prog EXCEPT ![u] = "user"]
    /\ UNCHANGED <<ipcVars, ttyVars, fsVars>>

(***************************************************************************)
(* FS                                                                      *)
(***************************************************************************)
FsAt(pc) == ~halted /\ Running(FS) /\ fs_pc = pc

FsReceive ==
    /\ FsAt("receive")
    /\ msg_receive(FS, ANY)
    /\ fs_pc' = "dispatch"
    /\ UNCHANGED <<fs_src, prog, ttyVars>>

\* do_open and do_rw on a terminal: the request goes on to TTY ...
FsForward ==
    /\ FsAt("dispatch")
    /\ LET m == buf[FS].body
       IN  /\ m.type \in DOMAIN DevType
           /\ msg_send(FS, TTY, Body(DevType[m.type], m.dev, buf[FS].source, m.cnt))
    /\ fs_src' = buf[FS].source
    /\ fs_pc' = "await"
    /\ UNCHANGED <<prog, ttyVars>>

\* ... and its answer is awaited.
FsAwait ==
    /\ FsAt("await")
    /\ msg_receive(FS, TTY)
    /\ fs_pc' = "answer"
    /\ UNCHANGED <<fs_src, prog, ttyVars>>

\* The program stays suspended.
FsSuspended ==
    /\ FsAt("answer")
    /\ buf[FS].body.type = "SUSPEND_PROC"
    /\ fs_pc' = "receive"
    /\ UNCHANGED <<ipcVars, fs_src, prog, ttyVars>>

\* Wrong: the process number is taken from the message's source.
FsResume_Source ==
    /\ FsAt("dispatch")
    /\ buf[FS].body.type = "RESUME_PROC"
    /\ fs_src' = buf[FS].source
    /\ fs_pc' = "answer"
    /\ UNCHANGED <<ipcVars, prog, ttyVars>>

\* TTY has the answer of a suspended program.
FsResume ==
    /\ FsAt("dispatch")
    /\ buf[FS].body.type = "RESUME_PROC"
    /\ fs_src' = buf[FS].body.proc
    /\ fs_pc' = "answer"
    /\ UNCHANGED <<ipcVars, prog, ttyVars>>

FsReply ==
    /\ FsAt("answer")
    /\ buf[FS].body.type # "SUSPEND_PROC"
    /\ msg_send(FS, fs_src, [buf[FS].body EXCEPT !.type = "SYSCALL_RET"])
    /\ fs_pc' = "receive"
    /\ UNCHANGED <<fs_src, prog, ttyVars>>

(***************************************************************************)
(* TTY                                                                     *)
(***************************************************************************)
TtyAt(pc) == ~halted /\ Running(TTY) /\ tty_pc = pc

\* tty_read: only the terminal shown takes keys.
Enter ==
    /\ TtyAt("enter")
    /\ tty_pc' = IF tty_p = current_tty THEN "read" ELSE "write"
    /\ UNCHANGED <<ipcVars, prog, kb_in, key_pressed, typed, current_tty, ring, req, tty_p, fsVars>>

\* keyboard_read and in_process: a character goes to the terminal at hand
\* unless its ring is full, another key switches terminals.
ReadKey ==
    /\ TtyAt("read") /\ kb_in # << >>
    /\ kb_in' = Tail(kb_in)
    /\ LET k == Head(kb_in)
       IN  \/ /\ k \in Ttys
              /\ current_tty' = k
              /\ UNCHANGED ring
           \/ /\ k \notin Ttys
              /\ ring' = IF Len(ring[tty_p]) < TTY_BUFFER_SIZE
                         THEN [ring EXCEPT ![tty_p] = Append(@, k)] ELSE ring
              /\ UNCHANGED current_tty
    /\ UNCHANGED <<ipcVars, prog, key_pressed, typed, req, tty_pc, tty_p, fsVars>>

ReadEnd ==
    /\ TtyAt("read") /\ kb_in = << >>
    /\ tty_pc' = "write"
    /\ UNCHANGED <<ipcVars, prog, kb_in, key_pressed, typed, current_tty, ring, req, tty_p, fsVars>>

\* The request after character ch.
Taken(r, ch) ==
    CASE ch = "char" -> [r EXCEPT !.sended_cnt = @ + 1, !.reqed_cnt = @ - 1]
      [] ch = "backspace" /\ r.sended_cnt > 0 ->
            [r EXCEPT !.sended_cnt = @ - 1, !.reqed_cnt = @ + 1]
      [] OTHER -> r

Complete(r, ch) == ch = "enter" \/ Taken(r, ch).reqed_cnt = 0

\* tty_write takes a character that completes no line, or that nobody asked for.
WriteChar ==
    /\ TtyAt("write") /\ ring[tty_p] # << >>
    /\ LET ch == Head(ring[tty_p])
           r  == req[tty_p]
       IN  /\ r.reqed_cnt = 0 \/ ~Complete(r, ch)
           /\ req' = IF r.reqed_cnt = 0 THEN req ELSE [req EXCEPT ![tty_p] = Taken(r, ch)]
    /\ ring' = [ring EXCEPT ![tty_p] = Tail(@)]
    /\ UNCHANGED <<ipcVars, prog, kb_in, key_pressed, typed, current_tty, tty_pc, tty_p, fsVars>>

\* It completes the line: FS is to resume the reader.
WriteLine ==
    /\ TtyAt("write") /\ ring[tty_p] # << >>
    /\ LET ch == Head(ring[tty_p])
           r  == req[tty_p]
       IN  /\ r.reqed_cnt # 0 /\ Complete(r, ch)
           /\ req' = [req EXCEPT ![tty_p] = Taken(r, ch)]
           /\ msg_send(TTY, FS, Body("RESUME_PROC", tty_p, r.proc2tty, Taken(r, ch).sended_cnt))
    /\ ring' = [ring EXCEPT ![tty_p] = Tail(@)]
    /\ tty_pc' = "resumed"
    /\ UNCHANGED <<prog, kb_in, key_pressed, typed, current_tty, tty_p, fsVars>>

\* Wrong: the request stays.
Resumed_Keeps ==
    /\ TtyAt("resumed")
    /\ tty_pc' = "write"
    /\ UNCHANGED <<ipcVars, prog, kb_in, key_pressed, typed, current_tty, ring, req, tty_p, fsVars>>

Resumed ==
    /\ TtyAt("resumed")
    /\ req' = [req EXCEPT ![tty_p].reqed_cnt = 0]
    /\ tty_pc' = "write"
    /\ UNCHANGED <<ipcVars, prog, kb_in, key_pressed, typed, current_tty, ring, tty_p, fsVars>>

\* On to the next terminal, and then to the messages.
WriteEnd ==
    /\ TtyAt("write") /\ ring[tty_p] = << >>
    /\ IF NextTty[tty_p] = NO_TASK
       THEN tty_pc' = "receive" /\ tty_p' = FIRST_TTY
       ELSE tty_pc' = "enter" /\ tty_p' = NextTty[tty_p]
    /\ UNCHANGED <<ipcVars, prog, kb_in, key_pressed, typed, current_tty, ring, req, fsVars>>

\* Wrong: key_pressed is reset when all keys have been read.
TtyReceive_Resets ==
    /\ TtyAt("receive")
    /\ msg_receive(TTY, ANY)
    /\ key_pressed' = FALSE
    /\ tty_pc' = "dispatch"
    /\ UNCHANGED <<prog, kb_in, typed, current_tty, ring, req, tty_p, fsVars>>

TtyReceive ==
    /\ TtyAt("receive")
    /\ msg_receive(TTY, ANY)
    /\ tty_pc' = "dispatch"
    /\ UNCHANGED <<prog, kb_in, key_pressed, typed, current_tty, ring, req, tty_p, fsVars>>

Interrupted ==
    /\ TtyAt("dispatch")
    /\ buf[TTY].body = HARD_INT
    /\ key_pressed' = FALSE
    /\ tty_pc' = "enter"
    /\ UNCHANGED <<ipcVars, prog, kb_in, typed, current_tty, ring, req, tty_p, fsVars>>

Requested(types) ==
    TtyAt("dispatch") /\ buf[TTY].body # HARD_INT /\ buf[TTY].body.type \in types

\* Wrong: the request goes to the terminal shown.
tty_do_read_Current ==
    /\ Requested({"DEV_READ"})
    /\ LET m == buf[TTY].body
       IN  /\ req' = [req EXCEPT ![current_tty] =
                        [proc2tty |-> m.proc, reqed_cnt |-> m.cnt, sended_cnt |-> 0]]
           /\ msg_send(TTY, buf[TTY].source, [m EXCEPT !.type = "SUSPEND_PROC"])
    /\ tty_pc' = "enter"
    /\ UNCHANGED <<prog, kb_in, key_pressed, typed, current_tty, ring, tty_p, fsVars>>

\* tty_do_read: the request is remembered and its program suspended.
tty_do_read ==
    /\ Requested({"DEV_READ"})
    /\ LET m == buf[TTY].body
       IN  /\ req' = [req EXCEPT ![m.dev] =
                        [proc2tty |-> m.proc, reqed_cnt |-> m.cnt, sended_cnt |-> 0]]
           /\ msg_send(TTY, buf[TTY].source, [m EXCEPT !.type = "SUSPEND_PROC"])
    /\ tty_pc' = "enter"
    /\ UNCHANGED <<prog, kb_in, key_pressed, typed, current_tty, ring, tty_p, fsVars>>

\* tty_do_write and DEV_OPEN are answered at once.
tty_do_write ==
    /\ Requested({"DEV_WRITE", "DEV_OPEN"})
    /\ msg_send(TTY, buf[TTY].source, [buf[TTY].body EXCEPT !.type = "SYSCALL_RET"])
    /\ tty_pc' = "enter"
    /\ UNCHANGED <<prog, kb_in, key_pressed, typed, current_tty, ring, req, tty_p, fsVars>>

TtyStep ==
    \/ Enter \/ ReadKey \/ ReadEnd \/ WriteChar \/ WriteLine \/ Resumed \/ WriteEnd
    \/ TtyReceive \/ Interrupted \/ tty_do_read \/ tty_do_write

FsStep == FsReceive \/ FsForward \/ FsAwait \/ FsSuspended \/ FsResume \/ FsReply

TtyNext ==
    /\ UNCHANGED session
    /\ \/ \E k \in session.keys : KeyPress(k)
       \/ Tick
       \/ \E u \in Users, t \in Ttys, c \in session.calls, n \in Counts : Call(u, c, t, n)
       \/ \E u \in Users : Await(u) \/ Return(u)
       \/ FsStep
       \/ TtyStep

\* The scheduler starves nobody (module Sched) and the clock keeps ticking.
\* Programs need not call and nobody need type.
TtyFairness ==
    /\ WF_allVars(Tick /\ UNCHANGED session)
    /\ WF_allVars(FsStep /\ UNCHANGED session) /\ WF_allVars(TtyStep /\ UNCHANGED session)
    /\ \A u \in Users : /\ WF_allVars(Await(u) /\ UNCHANGED session)
                        /\ WF_allVars(Return(u) /\ UNCHANGED session)

TtySpec == TtyInit /\ [][TtyNext]_allVars /\ TtyFairness

(***************************************************************************)
(* Properties                                                              *)
(***************************************************************************)

\* Rings stay within their sizes and requests within what was asked for.
TtyTypeOK ==
    /\ prog \in [Users -> {"user", "recv", "ret"}]
    /\ Len(kb_in) <= KB_IN_BYTES /\ current_tty \in Ttys
    /\ \A t \in Ttys :
         /\ Len(ring[t]) <= TTY_BUFFER_SIZE
         /\ req[t].proc2tty \in Users \cup {NO_TASK}
         /\ req[t].reqed_cnt >= 0 /\ req[t].sended_cnt >= 0
         /\ req[t].reqed_cnt + req[t].sended_cnt <= MaxCount
    /\ fs_src \in Procs

\* No key is forgotten: when TTY sleeps with keys in the keyboard's ring, the
\* next tick wakes it.  The handler sets key_pressed at any moment between
\* TTY's reset of it and the RECEIVE (keyboard_handler, task_tty, clock_handler).
KeysNoticed ==
    ~halted /\ Receiving(TTY) /\ kb_in # << >> => key_pressed

\* A program whose read was suspended and not resumed has its request at a
\* terminal, or FS or TTY is about to answer it: nobody sleeps for ever because
\* its request was dropped (tty_do_read, tty_write, task_fs).
Suspended(u) ==
    /\ Receiving(u)
    /\ ~(fs_pc \in {"await", "answer"} /\ fs_src = u)
    /\ ~(fs_pc = "dispatch" /\ buf[FS].source = u)
RequestKept ==
    \A u \in Users : ~halted /\ Suspended(u) =>
        \/ \E t \in Ttys : req[t].proc2tty = u /\ req[t].reqed_cnt > 0
        \/ tty_pc = "resumed" /\ req[tty_p].proc2tty = u
        \/ /\ fs_pc = "dispatch" /\ ~Receiving(FS)
           /\ buf[FS].body.type = "RESUME_PROC" /\ buf[FS].body.proc = u

\* FS answers only a program that is in a call, and each call once: FS would
\* block for ever in a SEND to a program that does not receive
\* (task_fs, tty_write's reqed_cnt).
AnswersCaller ==
    ~halted /\ fs_pc = "answer" => fs_src \in Users /\ prog[fs_src] \in {"recv", "ret"}

\* As long as one program alone uses terminals, TTY, FS and the program never
\* wait for each other in a circle (with two, TTY's SEND in tty_write can meet the
\* one of FS in do_rw, and the kernel panics).
Alone == \E u \in Users : \A use \in session.uses : use[1] = u
NoCircle == Alone => ~halted

\* Whatever is typed is taken from the keyboard's ring, unless the kernel panics.
KeysDrained == kb_in # << >> ~> kb_in = << >> \/ halted

\* A read returns once Enter is in the ring of the terminal that has been asked for it:
\* the answer makes its way through TTY, FS and the SENDs and RECEIVEs between them.
AskedAt(u, t) ==
    Receiving(u) /\ req[t].proc2tty = u /\ req[t].reqed_cnt > 0 /\ tty_pc # "resumed"
EnterResumes ==
    \A u \in Users, t \in Ttys :
        (AskedAt(u, t) /\ \E i \in 1..Len(ring[t]) : ring[t][i] = "enter")
            ~> prog[u] = "user" \/ halted

\* No key and no request is forgotten on its way, and no answer goes astray.
NothingForgotten == TtyTypeOK /\ KeysNoticed /\ RequestKept /\ AnswersCaller
=============================================================================
