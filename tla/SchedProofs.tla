----------------------------- MODULE SchedProofs -----------------------------
(***************************************************************************)
(* Proofs, for every process table, of the safety properties of module     *)
(* Sched.                                                                  *)
(***************************************************************************)
EXTENDS Sched, TLAPS

\* A clock tick keeps every slice between 0 and its priority.
LEMMA ChargedSlices ==
    ASSUME TypeOK
    PROVE  /\ Charged \in [Procs -> Nat]
           /\ \A q \in Procs : Charged[q] <= Priority[q]
BY PriorityAssumption DEF TypeOK, Charged

\* schedule()'s entry: with no step of the table scan done yet, its early
\* return resumes the caller only if it is RUNNING and has a slice.
LEMMA StartScheduleStep ==
    ASSUME IInv, NEW runnable, NEW slices, NEW b \in BOOLEAN,
           runnable \subseteq Procs, running' = runnable,
           slices \in [Procs -> Nat], \A q \in Procs : slices[q] <= Priority[q],
           ticks' = slices, StartSchedule(runnable, slices, b)
    PROVE  IInv'
<1> USE NAssumption, PriorityAssumption
<1>1. TypeOK'
  <2>1. 1 \in 1..(N + 1) /\ 0 \in Nat
    OBVIOUS
  <2>2. mode' \in {"user", "kernel", "schedule"}
    BY DEF StartSchedule
  <2>3. QED
    BY <2>1, <2>2 DEF StartSchedule, IInv, TypeOK
<1>2. slices[p_proc_ready] > 0 => Priority[p_proc_ready] > 0
  BY DEF IInv, TypeOK
<1>3. QED
  BY <1>1, <1>2 DEF StartSchedule, IInv, ResumesRunnable, Candidate

\* The invariant of the scheduler: the process remembered by a scan, and the
\* process resumed after it, is RUNNING and was not shut down.
THEOREM SchedInvariant == Spec => []IInv
<1> USE NAssumption, PriorityAssumption, TaskAssumption
<1>1. Init => IInv
  <2>1. 1 \in Procs /\ 1 \in 1..(N + 1)
    BY DEF Procs
  <2>2. \A q \in Procs : Priority[q] <= Priority[q]
    OBVIOUS
  <2>3. ASSUME Init PROVE TypeOK
    <3>1. ticks \in [Procs -> Nat] /\ \A q \in Procs : ticks[q] <= Priority[q]
      BY <2>2, <2>3 DEF Init
    <3>2. p_proc_ready \in Procs /\ p \in 1..(N + 1) /\ greatest_ticks \in Nat
      BY <2>1, <2>3 DEF Init
    <3>3. QED
      BY <2>3, <3>1, <3>2 DEF Init, TypeOK
  <2>4. Init => ResumesRunnable /\ mode # "schedule"
    BY <2>1 DEF Init, ResumesRunnable
  <2>5. QED
    BY <2>3, <2>4 DEF IInv
<1>2. ASSUME IInv, [Next]_vars PROVE IInv'
  <2>t. TypeOK /\ ResumesRunnable /\ (mode = "schedule" => Candidate)
    BY <1>2 DEF IInv
  <2>1. CASE SysCall
    BY <2>t, <2>1 DEF SysCall, IInv, TypeOK, ResumesRunnable, Candidate
  <2>2. CASE SysReturn
    BY <2>t, <2>2 DEF SysReturn, IInv, TypeOK, ResumesRunnable, Candidate
  <2>3. CASE block
    BY <1>2, <2>t, <2>3, StartScheduleStep DEF block, TypeOK
  <2>4. CASE ClockInUser
    <3>1. PICK woken \in {{}, {TTY}} : running' = running \cup woken
      BY <2>4 DEF ClockInUser, KeyPressed
    <3>2. running \cup woken \subseteq Procs
      BY <2>t DEF TypeOK
    <3>3. StartSchedule(running \cup woken, Charged, TRUE)
      BY <2>4, <3>1 DEF ClockInUser
    <3>4. QED
      BY <1>2, <2>t, <2>4, <3>1, <3>2, <3>3, ChargedSlices, StartScheduleStep DEF ClockInUser
  <2>5. CASE ClockInKernel
    <3>1. running \subseteq running' /\ running' \subseteq Procs
      BY <2>t, <2>5 DEF ClockInKernel, KeyPressed, TypeOK
    <3>2. ticks' \in [Procs -> Nat] /\ \A q \in Procs : ticks'[q] <= Priority[q]
      BY <2>t, <2>5, ChargedSlices DEF ClockInKernel
    <3>3. TypeOK'
      BY <2>t, <2>5, <3>1, <3>2 DEF ClockInKernel, TypeOK
    <3>4. QED
      BY <2>t, <2>5, <3>1, <3>3 DEF ClockInKernel, IInv, ResumesRunnable, Candidate
  <2>6. CASE HdInterrupt
    <3>1. TypeOK'
      BY <2>t, <2>6 DEF HdInterrupt, TypeOK
    <3>2. QED
      BY <2>t, <2>6, <3>1 DEF HdInterrupt, IInv, ResumesRunnable, Candidate
  <2>7. CASE Scan
    <3>1. p \in Procs /\ p + 1 \in 1..(N + 1)
      BY <2>t, <2>7 DEF Scan, TypeOK, Procs
    <3>2. TypeOK'
      BY <2>t, <2>7, <3>1 DEF Scan, TypeOK
    <3>3. CASE p \in running /\ ticks[p] > greatest_ticks
      <4>1. Priority[p] > 0
        BY <2>t, <3>1, <3>3 DEF TypeOK
      <4>2. QED
        BY <2>7, <3>2, <3>3, <4>1 DEF Scan, IInv, ResumesRunnable, Candidate
    <3>4. CASE ~(p \in running /\ ticks[p] > greatest_ticks)
      BY <2>t, <2>7, <3>2, <3>4 DEF Scan, IInv, ResumesRunnable, Candidate
    <3>5. QED
      BY <3>3, <3>4
  <2>8. CASE Refill
    <3>1. ticks' \in [Procs -> Nat] /\ \A q \in Procs : ticks'[q] <= Priority[q]
      BY <2>t, <2>8 DEF Refill, TypeOK
    <3>2. 1 \in 1..(N + 1)
      OBVIOUS
    <3>3. TypeOK'
      BY <2>t, <2>8, <3>1, <3>2 DEF Refill, TypeOK
    <3>4. QED
      BY <2>t, <2>8, <3>3 DEF Refill, IInv, ResumesRunnable, Candidate
  <2>9. CASE Resume
    BY <2>t, <2>9 DEF Resume, IInv, TypeOK, ResumesRunnable, Candidate
  <2>10. CASE UNCHANGED vars
    BY <2>t, <2>10 DEF vars, IInv, TypeOK, ResumesRunnable, Candidate
  <2>11. QED
    BY <1>2, <2>1, <2>2, <2>3, <2>4, <2>5, <2>6, <2>7, <2>8, <2>9, <2>10 DEF Next
<1>3. QED
  BY <1>1, <1>2, PTL DEF Spec

\* Slices are never negative and never exceed the priority.
THEOREM SchedTypeOK == Spec => []TypeOK
<1>1. IInv => TypeOK
  BY DEF IInv
<1>2. QED
  BY SchedInvariant, <1>1, PTL

\* restart only resumes a runnable process that was not shut down.
THEOREM SchedResumesRunnable == Spec => []ResumesRunnable
<1>1. IInv => ResumesRunnable
  BY DEF IInv
<1>2. QED
  BY SchedInvariant, <1>1, PTL
=============================================================================
