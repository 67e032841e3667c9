-------------------------------- MODULE Sched --------------------------------
(***************************************************************************)
(* schedule() of kernel/proc.c and clock_handler() of kernel/clock.c with  *)
(* the entry and exit paths of kernel/kernel.asm.                          *)
(*                                                                         *)
(* schedule() enables interrupts and scans the process table, so clock     *)
(* ticks and device interrupts come between the steps of its scan.  A      *)
(* clock interrupt that finds the kernel running (k_reenter # 0) only      *)
(* counts; schedule() runs from a clock interrupt of user mode, with the   *)
(* clock line masked, or from block() in a system call.                    *)
(*                                                                         *)
(* Definitions whose comment starts with "Wrong:" are not part of the      *)
(* model: they are mistakes that the properties would notice.              *)
(***************************************************************************)
EXTENDS Integers

CONSTANTS
    N,           \* slots of proc_table, numbered 1..N in table order
    Priority,    \* priority of each slot; shutdown_proc sets it to 0
    TTY,         \* the task clock_handler informs of pressed keys
    HD           \* the task hd_handler informs

Procs == 1..N

ASSUME NAssumption == N \in Nat \ {0}
ASSUME PriorityAssumption == Priority \in [Procs -> Nat] /\ Priority[1] > 0
ASSUME TaskAssumption == TTY \in Procs /\ HD \in Procs

VARIABLES
    running,       \* processes whose p_flags are RUNNING
    ticks,         \* remaining time slice of each process
    p_proc_ready,  \* the current process
    mode,          \* "user", "kernel" (in a system call) or "schedule"
    p,             \* schedule(): next table slot to look at
    greatest_ticks,\* schedule(): largest slice found so far
    masked,        \* schedule() was called with the clock line masked
    ticked         \* the clock already ticked during this scan of the table

vars == <<running, ticks, p_proc_ready, mode, p, greatest_ticks, masked, ticked>>

\* tinix_main: every process is runnable with a full slice, the first runs.
Init ==
    /\ running = Procs
    /\ ticks = Priority
    /\ p_proc_ready = 1
    /\ mode = "user"
    /\ p = 1
    /\ greatest_ticks = 0
    /\ masked = FALSE
    /\ ticked = FALSE

\* Wrong: a slice of zero goes on counting down.
Charged_BelowZero == [ticks EXCEPT ![p_proc_ready] = @ - 1]

\* Wrong: nobody pays for the time used.
Charged_Nobody == ticks

\* Slices after one clock tick: the current process pays for it.
Charged == [ticks EXCEPT ![p_proc_ready] = IF @ > 0 THEN @ - 1 ELSE @]

\* Entry of schedule(): nothing to do if the current process may go on.
StartSchedule(runnable, slices, clock_masked) ==
    /\ IF slices[p_proc_ready] > 0 /\ p_proc_ready \in runnable
       THEN mode' = "user"
       ELSE mode' = "schedule"
    /\ p' = 1
    /\ greatest_ticks' = 0
    /\ masked' = clock_masked
    /\ ticked' = FALSE
    /\ UNCHANGED p_proc_ready

\* A system call enters the kernel.
SysCall ==
    /\ mode = "user"
    /\ mode' = "kernel"
    /\ UNCHANGED <<running, ticks, p_proc_ready, p, greatest_ticks, masked, ticked>>

\* A system call returns to its caller, perhaps having unblocked a partner
\* (msg_send to a receiver, msg_receive from a queued sender).
SysReturn ==
    /\ mode = "kernel"
    /\ \E q \in Procs : running' = running \cup {q}
    /\ mode' = "user"
    /\ UNCHANGED <<ticks, p_proc_ready, p, greatest_ticks, masked, ticked>>

\* A system call blocks its caller: block() calls schedule().
block ==
    /\ mode = "kernel"
    /\ running' = running \ {p_proc_ready}
    /\ StartSchedule(running', ticks, FALSE)
    /\ UNCHANGED ticks

\* clock_handler informs TTY when a key was pressed.
KeyPressed == \E woken \in {{}, {TTY}} : running' = running \cup woken

\* The clock interrupts user mode: the current process goes on while it has
\* a slice left, otherwise schedule() picks another.
ClockInUser ==
    /\ mode = "user"
    /\ KeyPressed
    /\ ticks' = Charged
    /\ StartSchedule(running', Charged, TRUE)

\* The clock interrupts the kernel: it only charges the current process.
\* A tick is 10 ms, so at most one falls into a scan of the table.
ClockInKernel ==
    /\ mode = "kernel" \/ (mode = "schedule" /\ ~masked /\ ~ticked)
    /\ KeyPressed
    /\ ticks' = Charged
    /\ ticked' = (mode = "schedule")
    /\ UNCHANGED <<p_proc_ready, mode, p, greatest_ticks, masked>>

\* The disk interrupts at any time.
HdInterrupt ==
    /\ running' = running \cup {HD}
    /\ UNCHANGED <<ticks, p_proc_ready, mode, p, greatest_ticks, masked, ticked>>

\* Wrong: does not look at p_flags.
Scan_IgnoresFlags ==
    /\ mode = "schedule" /\ p <= N
    /\ IF ticks[p] > greatest_ticks
       THEN greatest_ticks' = ticks[p] /\ p_proc_ready' = p
       ELSE UNCHANGED <<greatest_ticks, p_proc_ready>>
    /\ p' = p + 1
    /\ UNCHANGED <<running, ticks, mode, masked, ticked>>

\* schedule() looks at one slot of the table.
Scan ==
    /\ mode = "schedule" /\ p <= N
    /\ IF p \in running /\ ticks[p] > greatest_ticks
       THEN greatest_ticks' = ticks[p] /\ p_proc_ready' = p
       ELSE UNCHANGED <<greatest_ticks, p_proc_ready>>
    /\ p' = p + 1
    /\ UNCHANGED <<running, ticks, mode, masked, ticked>>

\* Nobody had a slice left: every runnable process gets a new one.
Refill ==
    /\ mode = "schedule" /\ p > N /\ greatest_ticks = 0
    /\ ticks' = [q \in Procs |-> IF q \in running THEN Priority[q] ELSE ticks[q]]
    /\ p' = 1
    /\ ticked' = FALSE
    /\ UNCHANGED <<running, p_proc_ready, mode, greatest_ticks, masked>>

\* schedule() returns and restart resumes the process it chose.
Resume ==
    /\ mode = "schedule" /\ p > N /\ greatest_ticks > 0
    /\ mode' = "user"
    /\ UNCHANGED <<running, ticks, p_proc_ready, p, greatest_ticks, masked, ticked>>

Next ==
    \/ SysCall \/ SysReturn \/ block
    \/ ClockInUser \/ ClockInKernel \/ HdInterrupt
    \/ Scan \/ Refill \/ Resume

Spec == Init /\ [][Next]_vars

\* The kernel's own loops run; a system call ends; the timer, which is not
\* synchronised with the processes, hits user mode again and again.
Fairness ==
    /\ WF_vars(Scan) /\ WF_vars(Refill) /\ WF_vars(Resume)
    /\ WF_vars(SysReturn \/ block)
    /\ SF_vars(ClockInUser)

FairSpec == Spec /\ Fairness

(***************************************************************************)
(* Properties                                                              *)
(***************************************************************************)

\* Slices stay within their priority: they are never negative and never
\* grow by anything but a refill.
TypeOK ==
    /\ running \subseteq Procs
    /\ ticks \in [Procs -> Nat]
    /\ \A q \in Procs : ticks[q] <= Priority[q]
    /\ p_proc_ready \in Procs
    /\ mode \in {"user", "kernel", "schedule"}
    /\ p \in 1..(N + 1)
    /\ greatest_ticks \in Nat
    /\ masked \in BOOLEAN /\ ticked \in BOOLEAN

\* restart only ever resumes a process that is RUNNING and was not shut down,
\* whatever interrupts came while schedule() scanned the table.
ResumesRunnable ==
    mode # "schedule" => p_proc_ready \in running /\ Priority[p_proc_ready] > 0

\* A runnable process that was not shut down gets the CPU, however often the
\* others block and are woken.
NoStarvation ==
    \A q \in Procs :
        (q \in running /\ Priority[q] > 0) ~> (mode # "schedule" /\ p_proc_ready = q)

\* What schedule() knows while it scans: the candidate it remembers is
\* RUNNING, and found to have a slice.
Candidate ==
    greatest_ticks > 0 => p_proc_ready \in running /\ Priority[p_proc_ready] > 0

IInv == TypeOK /\ ResumesRunnable /\ (mode = "schedule" => Candidate)
=============================================================================
