---------------------------------- MODULE Mm ----------------------------------
(***************************************************************************)
(* Process management: the MM task (mm/main.c, mm/fork2exit.c, mm/exec.c)  *)
(* and the calls user programs make to it (lib/unistd.c, lib/ipc.c), on    *)
(* top of the message passing of module Ipc.                               *)
(*                                                                         *)
(* A call is two system calls, SEND and then RECEIVE: the caller may be    *)
(* anywhere between them while MM already works on its request and reads   *)
(* and writes its process table entry.  MM itself can be preempted between *)
(* statements; the requests it makes to FS meanwhile block it for a while  *)
(* (FsReply ends that).  The memory images are not modelled.               *)
(*                                                                         *)
(* Definitions whose comment starts with "Wrong:" are not part of the      *)
(* model: they are mistakes that the properties would notice.              *)
(***************************************************************************)
EXTENDS Ipc, FiniteSetsExt

CONSTANTS
    MM, PID_INIT,       \* process numbers of the MM task and of Init
    Settings            \* what is assumed: the calls each user program makes, the
                        \* slots of proc_table, and whether MM's updates of p_flags
                        \* are uninterrupted

\* The slots of proc_table that fork can hand out.
Slots == Procs \ {MM, PID_INIT}

ASSUME MmAssumption ==
    /\ Procs \subseteq Nat \ {0}
    /\ MM \in Procs /\ PID_INIT \in Procs /\ MM # PID_INIT
    /\ \A s \in Slots : s > PID_INIT
    /\ \A x \in Settings : /\ x.calls \in [Procs -> SUBSET {"FORK", "WAIT", "EXIT", "EXEC"}]
                           /\ x.slots \subseteq Slots /\ x.atomic \in BOOLEAN

VARIABLES
    setting,     \* what is assumed in this run of the system
    p_parent,    \* parent of each process
    prog,        \* where each user program is: "user" code, "recv" or "ret"
                 \* in a call, "spin" after a failed assertion
    call,        \* the call it is in, or "none"
    mm_pc,       \* where MM is
    mm           \* MM's locals: the request's source, the process at hand,
                 \* the reply, the next slot of do_exit's loop, loaded flags

ipcVars == vars
mmVars == <<p_parent, prog, call, mm_pc, mm>>
allVars == <<ipcVars, mmVars, setting>>

Request(type) == [type |-> type, pid |-> 0, retval |-> 0]
Reply(pid, retval) == [type |-> "SYSCALL_RET", pid |-> pid, retval |-> retval]

\* What clients and MM put into messages.
MmBodies ==
    {Request(c) : c \in {"FORK", "WAIT", "EXIT", "EXEC"}}
    \cup {Reply(q, r) : q \in Procs \cup {0, NO_TASK}, r \in {0, -1}}

ASSUME MmBodiesAssumption == MmBodies \subseteq Bodies

\* A MESSAGE variable of process q that holds nothing yet.
Cleared(q) == [source |-> q, body |-> Reply(0, 0)]

Locals == [src |-> PID_INIT, proc |-> PID_INIT, reply |-> Reply(0, 0), next |-> 0, flags |-> {}]

MmInit ==
    /\ p_flags = [q \in Procs |-> IF q \in Slots THEN {"FREE_SLOT"} ELSE {}]
    /\ p_msg = [q \in Procs |-> FALSE]
    /\ p_recvfrom = [q \in Procs |-> NO_TASK]
    /\ p_sendto = [q \in Procs |-> NO_TASK]
    /\ has_int_msg = [q \in Procs |-> FALSE]
    /\ q_sending = [q \in Procs |-> << >>]
    /\ buf = [q \in Procs |-> Cleared(q)]
    /\ halted = FALSE
    /\ p_parent = [q \in Procs |-> 0]
    /\ prog = [q \in Procs |-> "user"]
    /\ call = [q \in Procs |-> "none"]
    /\ mm_pc = "loop"
    /\ mm = Locals
    /\ setting \in Settings

Children(q) == {s \in Procs : p_parent[s] = q}

(***************************************************************************)
(* User programs                                                           *)
(***************************************************************************)

\* Init forks one shell and then waits for ever; others make any call.
MayCall(q, c) ==
    q = PID_INIT => c = IF Children(PID_INIT) = {} THEN "FORK" ELSE "WAIT"

\* fork(), wait(), exit() or execv(): the SEND half of send_recv(BOTH).
Call(q, c) ==
    /\ Running(q) /\ prog[q] = "user"
    /\ MayCall(q, c)
    /\ msg_send(q, MM, Request(c))
    /\ prog' = [prog EXCEPT ![q] = "recv"]
    /\ call' = [call EXCEPT ![q] = c]
    /\ UNCHANGED <<p_parent, mm_pc, mm>>

\* The RECEIVE half.
Await(q) ==
    /\ Running(q) /\ prog[q] = "recv"
    /\ msg_receive(q, MM)
    /\ prog' = [prog EXCEPT ![q] = "ret"]
    /\ UNCHANGED <<p_parent, call, mm_pc, mm>>

\* What the library asserts of the answer.
AnswerOK(c, body) ==
    CASE c = "FORK" -> body.type = "SYSCALL_RET" /\ body.retval = 0
      [] c = "EXEC" -> body.type = "SYSCALL_RET"
      [] c = "WAIT" -> TRUE
      [] c = "EXIT" -> FALSE

\* The call returns with what its message holds, or the program spins.
Return(q) ==
    /\ Running(q) /\ prog[q] = "ret"
    /\ prog' = [prog EXCEPT ![q] = IF AnswerOK(call[q], buf[q].body) THEN "user" ELSE "spin"]
    /\ buf' = [buf EXCEPT ![q] = Cleared(q)]
    /\ call' = [call EXCEPT ![q] = "none"]
    /\ UNCHANGED <<p_flags, p_msg, p_recvfrom, p_sendto, has_int_msg, q_sending, halted,
                   p_parent, mm_pc, mm>>

(***************************************************************************)
(* MM                                                                      *)
(***************************************************************************)

At(pc) == Running(MM) /\ mm_pc = pc

\* task_mm: send_recv clears mm_msg and receives the next request into it.
MmLoop ==
    /\ At("loop")
    /\ buf' = [buf EXCEPT ![MM] = Cleared(MM)]
    /\ mm' = Locals
    /\ mm_pc' = "receive"
    /\ UNCHANGED <<p_flags, p_msg, p_recvfrom, p_sendto, has_int_msg, q_sending, halted,
                   p_parent, prog, call>>

MmReceive ==
    /\ At("receive")
    /\ msg_receive(MM, ANY)
    /\ mm_pc' = "dispatch"
    /\ UNCHANGED <<p_parent, prog, call, mm>>

Requested(type) == At("dispatch") /\ buf[MM].body.type = type

\* Wrong: takes any slot that is not RUNNING.
FreeSlots_NotRunning == {s \in Slots \cap setting.slots : p_flags[s] # {}}

FreeSlots == {s \in Slots \cap setting.slots : p_flags[s] = {"FREE_SLOT"}}

\* do_fork without a free slot.
ForkFull ==
    /\ Requested("FORK")
    /\ FreeSlots = {}
    /\ mm' = [mm EXCEPT !.src = buf[MM].source, !.reply = Reply(0, -1)]
    /\ mm_pc' = "reply"
    /\ UNCHANGED <<ipcVars, p_parent, prog, call>>

\* do_fork: the first free slot becomes a copy of the parent's entry, its
\* place in its program, flags, message fields and queue included.
Fork ==
    /\ Requested("FORK")
    /\ FreeSlots # {}
    /\ LET child  == Min(FreeSlots)
           parent == buf[MM].source
       IN  /\ p_flags' = [p_flags EXCEPT ![child] = p_flags[parent]]
           /\ p_msg' = [p_msg EXCEPT ![child] = p_msg[parent]]
           /\ p_recvfrom' = [p_recvfrom EXCEPT ![child] = p_recvfrom[parent]]
           /\ p_sendto' = [p_sendto EXCEPT ![child] = p_sendto[parent]]
           /\ has_int_msg' = [has_int_msg EXCEPT ![child] = has_int_msg[parent]]
           /\ q_sending' = [q_sending EXCEPT ![child] = q_sending[parent]]
           /\ buf' = [buf EXCEPT ![child] = buf[parent]]
           /\ prog' = [prog EXCEPT ![child] = prog[parent]]
           /\ call' = [call EXCEPT ![child] = call[parent]]
           /\ p_parent' = [p_parent EXCEPT ![child] = parent]
           /\ mm' = [mm EXCEPT !.src = parent, !.proc = child, !.reply = Reply(child, 0)]
    /\ mm_pc' = "fs_fork"
    /\ UNCHANGED halted

\* FS answers MM's request (fs_fork, fs_exit); a child is then born.
FsReply ==
    /\ Running(MM)
    /\ \/ mm_pc = "fs_fork" /\ mm_pc' = "birth"
       \/ mm_pc = "fs_exit" /\ mm_pc' = "exit"
    /\ UNCHANGED <<ipcVars, p_parent, prog, call, mm>>

\* Wrong: the child gets no message.
Birth_Silent ==
    /\ At("birth")
    /\ mm_pc' = "reply"
    /\ UNCHANGED <<ipcVars, p_parent, prog, call, mm>>

\* do_fork: the child's fork() returns 0.
Birth ==
    /\ At("birth")
    /\ msg_send(MM, mm.proc, Reply(0, 0))
    /\ mm_pc' = "reply"
    /\ UNCHANGED <<p_parent, prog, call, mm>>

\* task_mm answers the caller of fork or exec.
SendReply ==
    /\ At("reply")
    /\ msg_send(MM, mm.src, mm.reply)
    /\ mm_pc' = "loop"
    /\ UNCHANGED <<p_parent, prog, call, mm>>

\* do_exec: stat, open or read of the file fails or succeeds; on success the
\* caller's registers point at the new program, wherever the caller was.
Exec ==
    /\ Requested("EXEC")
    /\ \E found \in BOOLEAN :
         /\ mm' = [mm EXCEPT !.src = buf[MM].source,
                             !.reply = Reply(0, IF found THEN 0 ELSE -1)]
         /\ mm_pc' = IF found THEN "image" ELSE "reply"
    /\ UNCHANGED <<ipcVars, p_parent, prog, call>>

ExecImage ==
    /\ At("image")
    /\ prog' = [prog EXCEPT ![mm.src] = "user"]
    /\ call' = [call EXCEPT ![mm.src] = "none"]
    /\ mm_pc' = "reply"
    /\ UNCHANGED <<ipcVars, p_parent, mm>>

Hanging(s) == "HANGING" \in p_flags[s]
Waiting(q) == "WAITING" \in p_flags[q]

\* p_flags |= f of MM: one step, or a load now and a store later.
OrFlag(q, f, next) ==
    /\ IF setting.atomic
       THEN p_flags' = [p_flags EXCEPT ![q] = @ \cup {f}] /\ mm_pc' = next
       ELSE UNCHANGED p_flags /\ mm_pc' = f
    /\ mm' = [mm EXCEPT !.proc = q, !.flags = p_flags[q]]
    /\ UNCHANGED <<p_msg, p_recvfrom, p_sendto, has_int_msg, q_sending, buf, halted>>

\* The store of flags loaded before.
StoreFlags ==
    /\ \/ At("WAITING") /\ mm_pc' = "loop"
       \/ At("HANGING") /\ mm_pc' = "orphans"
    /\ p_flags' = [p_flags EXCEPT ![mm.proc] = mm.flags \cup {mm_pc}]
    /\ UNCHANGED <<p_msg, p_recvfrom, p_sendto, has_int_msg, q_sending, buf, halted,
                   p_parent, prog, call, mm>>

\* do_wait: a child has exited already.
WaitReap ==
    /\ Requested("WAIT")
    /\ LET zombies == {s \in Children(buf[MM].source) : Hanging(s)}
       IN  /\ zombies # {}
           /\ mm' = [mm EXCEPT !.src = buf[MM].source, !.proc = Min(zombies)]
    /\ mm_pc' = "cleanup_wait"
    /\ UNCHANGED <<ipcVars, p_parent, prog, call>>

\* Wrong: task_mm replies although the caller is to wait.
WaitBlock_Replies ==
    /\ Requested("WAIT")
    /\ Children(buf[MM].source) # {}
    /\ \A s \in Children(buf[MM].source) : ~Hanging(s)
    /\ OrFlag(buf[MM].source, "WAITING", "reply")
    /\ UNCHANGED <<p_parent, prog, call>>

\* do_wait: slots whose p_parent is the caller are counted as its children.
WaitBlock ==
    /\ Requested("WAIT")
    /\ Children(buf[MM].source) # {}
    /\ \A s \in Children(buf[MM].source) : ~Hanging(s)
    /\ OrFlag(buf[MM].source, "WAITING", "loop")
    /\ UNCHANGED <<p_parent, prog, call>>

\* do_wait: the caller has no children.
WaitNoChild ==
    /\ Requested("WAIT")
    /\ Children(buf[MM].source) = {}
    /\ mm' = [mm EXCEPT !.src = buf[MM].source, !.reply = Reply(NO_TASK, 0)]
    /\ mm_pc' = "reply"
    /\ UNCHANGED <<ipcVars, p_parent, prog, call>>

\* do_exit: FS releases the files first.
Exit ==
    /\ Requested("EXIT")
    /\ mm' = [mm EXCEPT !.src = buf[MM].source, !.next = 0]
    /\ mm_pc' = "fs_exit"
    /\ UNCHANGED <<ipcVars, p_parent, prog, call>>

\* do_exit: the parent waits, it is no longer WAITING and gets the message.
ExitWaited ==
    /\ At("exit")
    /\ Waiting(p_parent[mm.src])
    /\ p_flags' = [p_flags EXCEPT ![p_parent[mm.src]] = @ \ {"WAITING"}]
    /\ mm' = [mm EXCEPT !.proc = mm.src]
    /\ mm_pc' = "cleanup_exit"
    /\ UNCHANGED <<p_msg, p_recvfrom, p_sendto, has_int_msg, q_sending, buf, halted,
                   p_parent, prog, call>>

\* Wrong: does not look whether the parent waits.
ExitHang_Always ==
    /\ At("exit")
    /\ OrFlag(mm.src, "HANGING", "orphans")
    /\ UNCHANGED <<p_parent, prog, call>>

\* do_exit: nobody waits, the process hangs until its parent does.
ExitHang ==
    /\ At("exit")
    /\ ~Waiting(p_parent[mm.src])
    /\ OrFlag(mm.src, "HANGING", "orphans")
    /\ UNCHANGED <<p_parent, prog, call>>

\* cleanup(): tell the parent, then free the slot.
Cleanup ==
    /\ \/ At("cleanup_wait") /\ mm_pc' = "free_wait"
       \/ At("cleanup_exit") /\ mm_pc' = "free_exit"
    /\ msg_send(MM, p_parent[mm.proc], Reply(mm.proc, 0))
    /\ UNCHANGED <<p_parent, prog, call, mm>>

\* Wrong: do_exit returns after cleanup without looking for orphans.
FreeSlot_Returns ==
    /\ At("free_wait") \/ At("free_exit")
    /\ mm_pc' = "loop"
    /\ p_flags' = [p_flags EXCEPT ![mm.proc] = {"FREE_SLOT"}]
    /\ UNCHANGED <<p_msg, p_recvfrom, p_sendto, has_int_msg, q_sending, buf, halted,
                   p_parent, prog, call, mm>>

\* The slot's program, its message variable included, is gone.
FreeSlot ==
    /\ \/ At("free_wait") /\ mm_pc' = "loop"
       \/ At("free_exit") /\ mm_pc' = "orphans"
    /\ p_flags' = [p_flags EXCEPT ![mm.proc] = {"FREE_SLOT"}]
    /\ prog' = [prog EXCEPT ![mm.proc] = "user"]
    /\ call' = [call EXCEPT ![mm.proc] = "none"]
    /\ buf' = [buf EXCEPT ![mm.proc] = Cleared(mm.proc)]
    /\ UNCHANGED <<p_msg, p_recvfrom, p_sendto, has_int_msg, q_sending, halted, p_parent, mm>>

\* Wrong: skips the slot behind the one just adopted.
Orphans_SkipsOne == {s \in Children(mm.src) : s > mm.next}

\* do_exit's loop: children of the process become Init's; one whose flags
\* are exactly HANGING is reaped if Init's are exactly WAITING.
Orphans == {s \in Children(mm.src) : s >= mm.next}

Adopt ==
    /\ At("orphans")
    /\ Orphans # {}
    /\ LET s == Min(Orphans)
       IN  /\ p_parent' = [p_parent EXCEPT ![s] = PID_INIT]
           /\ mm' = [mm EXCEPT !.next = s + 1, !.proc = s]
           /\ IF p_flags[PID_INIT] = {"WAITING"} /\ p_flags[s] = {"HANGING"}
              THEN /\ p_flags' = [p_flags EXCEPT ![s] = @ \ {"HANGING"}]
                   /\ mm_pc' = "cleanup_exit"
              ELSE UNCHANGED <<p_flags, mm_pc>>
    /\ UNCHANGED <<p_msg, p_recvfrom, p_sendto, has_int_msg, q_sending, buf, halted, prog, call>>

ExitDone ==
    /\ At("orphans")
    /\ Orphans = {}
    /\ mm_pc' = "loop"
    /\ UNCHANGED <<ipcVars, p_parent, prog, call, mm>>

MmStep ==
    \/ MmLoop \/ MmReceive \/ ForkFull \/ Fork \/ FsReply \/ Birth \/ SendReply
    \/ Exec \/ ExecImage
    \/ WaitReap \/ WaitBlock \/ WaitNoChild \/ StoreFlags
    \/ Exit \/ ExitWaited \/ ExitHang \/ Cleanup \/ FreeSlot \/ Adopt \/ ExitDone

MmNext ==
    /\ ~halted /\ UNCHANGED setting
    /\ \/ \E q \in Procs \ {MM} : (\E c \in setting.calls[q] : Call(q, c)) \/ Await(q) \/ Return(q)
       \/ MmStep

MmSpec == MmInit /\ [][MmNext]_allVars

\* The scheduler is fair (NoStarvation of module Sched): MM and a process in
\* the middle of a call go on; FS answers.
MmFairSpec ==
    /\ MmSpec
    /\ WF_allVars(~halted /\ MmStep /\ UNCHANGED setting)
    /\ \A q \in Procs \ {MM} :
          WF_allVars(~halted /\ (Await(q) \/ Return(q)) /\ UNCHANGED setting)

(***************************************************************************)
(* Properties                                                              *)
(***************************************************************************)

MmPlaces == {"loop", "receive", "dispatch", "fs_fork", "birth", "reply", "image", "WAITING",
             "HANGING", "fs_exit", "exit", "cleanup_wait", "cleanup_exit", "free_wait",
             "free_exit", "orphans"}

\* Every field of the process table and every local of MM has its type, and
\* MM works only on slots fork handed out or on Init.
MmTypeOK ==
    /\ TypeOK
    /\ p_parent \in [Procs -> Procs \cup {0}]
    /\ prog \in [Procs -> {"user", "recv", "ret", "spin"}]
    /\ call \in [Procs -> {"FORK", "WAIT", "EXIT", "EXEC", "none"}]
    /\ mm_pc \in MmPlaces
    /\ mm \in [src : Procs \ {MM}, proc : Procs \ {MM}, reply : MmBodies,
               next : Nat, flags : SUBSET Flags]

\* MM and its callers never wait for each other in a circle: no order of
\* fork, wait and exit calls makes msg_send panic with >>DEADLOCK<<.
NoPanic == ~halted

\* A destination that takes a message from MM is RECEIVING and nothing else,
\* as msg_send asserts after clearing RECEIVING (unblock): a parent is no
\* longer WAITING, a child no longer HANGING when MM answers it.
DeliverAsserts ==
    \A d \in Procs \ {MM} :
        /\ AcceptsFrom(d, MM)
        /\ \/ mm_pc = "birth" /\ d = mm.proc
           \/ mm_pc = "reply" /\ d = mm.src
           \/ mm_pc \in {"cleanup_wait", "cleanup_exit"} /\ d = p_parent[mm.proc]
        => p_flags[d] = {"RECEIVING"} /\ p_msg[d] /\ p_sendto[d] = NO_TASK

\* Between two requests every process in use has a parent that can still wait
\* for it: Init or a process in use that has not exited.  do_exit hands the
\* children of whoever exits to Init.
LiveTree ==
    mm_pc \in {"loop", "receive", "dispatch"} =>
        \A s \in Slots : p_flags[s] # {"FREE_SLOT"} =>
            \/ p_parent[s] = PID_INIT
            \/ p_parent[s] \in Slots /\ p_flags[p_parent[s]] # {"FREE_SLOT"} /\ ~Hanging(p_parent[s])

\* The pid fork() returns in the parent is a child of the parent, not yet
\* reaped, whatever ran between the request and the return.
ForkResultStep ==
    \A q \in Procs \ {MM} :
        /\ call[q] = "FORK" /\ prog[q] = "ret" /\ prog'[q] = "user"
        /\ buf[q].body.pid # 0
        => LET child == buf[q].body.pid
           IN  p_parent[child] = q /\ p_flags[child] # {"FREE_SLOT"}
ForkResult == [][ForkResultStep]_allVars

\* msg_send asserts p_msg == 0 and p_recvfrom == NO_TASK of a process that
\* makes a system call.
CallersClean == \A q \in Procs : CallerAsserts(q)

\* Nothing MM and its callers do makes the kernel panic or one of its assertions
\* fail, though MM writes the entries of processes that are in the middle of a call.
KernelSound == MmTypeOK /\ QueueExact /\ NoPanic /\ DeliverAsserts /\ CallersClean

\* MM's updates of flags are not interrupted and nobody calls exec: after either,
\* MM can be left blocked in a SEND.
Plain == setting.atomic /\ \A q \in Procs : "EXEC" \notin setting.calls[q]

\* For ever blocked in the SEND of cleanup for an orphan (do_exit's loop): it went to
\* Init because Init's flags were exactly WAITING, which is so only while Init is not
\* RECEIVING yet, and WAITING, which keeps Init from running, was left set.
LostToInit ==
    /\ mm_pc = "free_exit" /\ "SENDING" \in p_flags[MM] /\ p_sendto[MM] = PID_INIT
    /\ Waiting(PID_INIT) /\ "RECEIVING" \notin p_flags[PID_INIT]

\* Every fork() returns, in the parent and in the child, or its assertion fails because
\* the table is full, unless MM is lost to an Init that it found WAITING but not yet
\* RECEIVING when it reaped an orphan.
ForkReturns ==
    \A q \in Procs \ {MM} : (Plain /\ call[q] = "FORK") ~> (call[q] # "FORK" \/ LostToInit)

\* A process that waits is woken when one of its children exits, unless MM is lost to
\* an Init that it found WAITING but not yet RECEIVING when it reaped an orphan.
ExitWakesParent ==
    \A q \in Procs \ {MM} :
        (Plain /\ Waiting(q) /\ \E s \in Children(q) : call[s] = "EXIT" /\ ~Hanging(s))
            ~> (~Waiting(q) \/ LostToInit)

(***************************************************************************)
(* What a comment of the code says and its steps refute.                   *)
(***************************************************************************)

\* "if P has no child at all - reply to P with err" (comment on do_wait):
\* a process that is left WAITING has a child.
WaiterHasChild ==
    \A q \in Procs : Waiting(q) => \E s \in Children(q) : p_flags[s] # {"FREE_SLOT"}
=============================================================================
