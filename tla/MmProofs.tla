------------------------------- MODULE MmProofs -------------------------------
(***************************************************************************)
(* Proofs about process management for any number of slots: the process    *)
(* tree stays rooted in Init whatever programs call and wherever MM's      *)
(* updates of p_flags are interrupted; and as long as they are not, and    *)
(* nobody calls exec, MM and its callers keep the kernel's assertions.     *)
(* fork returns a child that is not yet reaped, interrupted or not.        *)
(*                                                                         *)
(* A call is answered once because its caller can do nothing but receive   *)
(* (Asked), and because what MM has in hand is such a call (AtDispatch,    *)
(* AtWork).  Who has asked to exit never gets out of the call (Ending), so *)
(* it is safe to free its slot later, even if it runs in between.          *)
(*                                                                         *)
(* At the end, about the memory of one process that calls execv (Exec):    *)
(* arg_stack holds whatever line the shell was given.                      *)
(***************************************************************************)
EXTENDS Mm, IpcProofs, Exec, FiniteSetTheorems, WellFoundedInduction

Calls == {"FORK", "WAIT", "EXIT", "EXEC"}

InUse(q) == p_flags[q] # {"FREE_SLOT"}
Live(q) == InUse(q) /\ ~Hanging(q)

\* The caller's SEND is through; it is about to RECEIVE the answer, or does.
Asked(q) ==
    \/ (prog[q] = "recv" /\ p_flags[q] = {})
    \/ (prog[q] = "ret" /\ p_flags[q] = {"RECEIVING"})

\* In a call of exit() that MM has got, or stopped behind it.
Ending(q) ==
    /\ ~Sending(q)
    /\ prog[q] = "spin" \/ (prog[q] \in {"recv", "ret"} /\ call[q] = "EXIT")

Childless(q) == \A s \in Slots : InUse(s) => p_parent[s] # q

(***************************************************************************)
(* The inductive invariant behind LiveTree.                                *)
(***************************************************************************)
Fields ==
    /\ p_flags \in [Procs -> SUBSET Flags]
    /\ p_recvfrom \in [Procs -> Sources \cup {NO_TASK}]
    /\ p_sendto \in [Procs -> Procs \cup {NO_TASK}]
    /\ has_int_msg = [q \in Procs |-> FALSE]
    /\ q_sending \in [Procs -> Seq(Procs)]
    /\ buf \in [Procs -> [source : Procs, body : MmBodies]]
    /\ p_parent \in [Procs -> Procs \cup {0}]
    /\ prog \in [Procs -> {"user", "recv", "ret", "spin"}]
    /\ call \in [Procs -> Calls \cup {"none"}]
    /\ mm_pc \in MmPlaces
    /\ mm \in [src : Procs \ {MM}, proc : Procs \ {MM}, reply : MmBodies,
               next : Nat, flags : SUBSET Flags]
    /\ setting \in Settings

\* What the entries of the process table say of every process.
Entries ==
    /\ \A q \in Procs : "FREE_SLOT" \in p_flags[q] => p_flags[q] = {"FREE_SLOT"} /\ q \in Slots
    /\ \A q \in Procs \ {MM} : Receiving(q) => p_recvfrom[q] = MM
    /\ \A q \in Procs : Hanging(q) => Ending(q) /\ q \in Slots
    /\ \A q \in Procs : p_parent[q] # q
    /\ \A q \in Procs \ Slots : p_parent[q] = 0
    /\ call[PID_INIT] \in {"FORK", "WAIT", "none"}

\* Those queued for MM are blocked in the SEND of a call.
Requests ==
    /\ \A i \in 1..Len(q_sending[MM]) :
          LET q == q_sending[MM][i]
          IN  /\ q # MM /\ p_flags[q] = {"SENDING"} /\ prog[q] = "recv"
              /\ call[q] # "none" /\ buf[q] = [source |-> q, body |-> Request(call[q])]
    /\ \A i, j \in 1..Len(q_sending[MM]) : q_sending[MM][i] = q_sending[MM][j] => i = j

\* MM blocks where its code sends or receives, and nobody else writes its flags.
MmWaits ==
    /\ p_flags[MM] \in {{}, {"SENDING"}, {"RECEIVING"}}
    /\ Receiving(MM) => mm_pc = "dispatch" /\ p_recvfrom[MM] = ANY
    /\ Sending(MM) => mm_pc \in {"reply", "loop", "free_wait", "free_exit"}

\* The request at hand is a call whose caller waits for the answer.
AtDispatch ==
    mm_pc = "dispatch" /\ Running(MM) =>
        LET q == buf[MM].source
        IN  q # MM /\ Asked(q) /\ call[q] # "none" /\ buf[MM].body = Request(call[q])

\* So it is while MM works at it, and the slot to be freed is of somebody who exits.
AtWork ==
    /\ mm_pc = "image" => Asked(mm.src) /\ call[mm.src] = "EXEC"
    /\ mm_pc = "WAITING" => Asked(mm.proc) /\ mm.flags \subseteq p_flags[mm.proc]
    /\ mm_pc \in {"fs_exit", "exit", "HANGING"} =>
          Asked(mm.src) /\ call[mm.src] = "EXIT" /\ mm.next = 0
    /\ mm_pc = "HANGING" => mm.proc = mm.src /\ mm.flags \subseteq p_flags[mm.src]
    /\ mm_pc \in {"cleanup_wait", "free_wait", "cleanup_exit", "free_exit"} =>
          mm.proc \in Slots /\ InUse(mm.proc) /\ Ending(mm.proc)
    /\ mm_pc \in {"cleanup_wait", "free_wait"} => Childless(mm.proc)
    /\ mm_pc \in {"cleanup_exit", "free_exit"} =>
          (mm.proc = mm.src /\ mm.next = 0) \/ Childless(mm.proc)

\* A parent is Init, or somebody who can still wait, or exits just now: then do_exit's
\* loop has still to come to the child.
Tree ==
    \A s \in Slots : InUse(s) =>
        \/ p_parent[s] = PID_INIT
        \/ (p_parent[s] \in Slots /\ Live(p_parent[s]))
        \/ /\ mm_pc \in {"orphans", "cleanup_exit", "free_exit"}
           /\ p_parent[s] = mm.src /\ s >= mm.next

TreeInv == Fields /\ Entries /\ Requests /\ MmWaits /\ AtDispatch /\ AtWork /\ Tree

\* What the constants are: MM, Init and the slots are processes, apart from each other.
LEMMA Constants ==
    /\ MM \in Procs /\ PID_INIT \in Procs /\ MM # PID_INIT
    /\ MM \notin Slots /\ PID_INIT \notin Slots /\ Slots \subseteq Procs
    /\ \A q \in Procs : q \in Nat \ {0} /\ (q \in Slots \/ q = MM \/ q = PID_INIT)
    /\ MM \in Sources /\ ANY \in Sources /\ NO_TASK \notin Procs /\ ANY # MM
    /\ INTERRUPT # MM /\ INTERRUPT # ANY
    /\ \A c \in Calls : Request(c) \in MmBodies
    /\ \A q \in Procs \cup {0, NO_TASK}, r \in {0, -1} : Reply(q, r) \in MmBodies
BY MmAssumption, PseudoProcs DEF Slots, Sources, MmBodies, Calls

\* The process table as it is when MM starts.
LEMMA TreeInit == MmInit => TreeInv
<1> SUFFICES ASSUME MmInit PROVE TreeInv
  OBVIOUS
<1>1. Fields
  <2>1. /\ p_flags \in [Procs -> SUBSET Flags] /\ p_recvfrom \in [Procs -> Sources \cup {NO_TASK}]
        /\ p_sendto \in [Procs -> Procs \cup {NO_TASK}] /\ q_sending \in [Procs -> Seq(Procs)]
    BY EmptySeq DEF MmInit, Flags
  <2>2. buf \in [Procs -> [source : Procs, body : MmBodies]]
    BY Constants DEF MmInit, Cleared
  <2>3. mm \in [src : Procs \ {MM}, proc : Procs \ {MM}, reply : MmBodies,
                next : Nat, flags : SUBSET Flags]
    BY Constants DEF MmInit, Locals
  <2>4. QED
    BY <2>1, <2>2, <2>3, Constants DEF MmInit, Fields, MmPlaces, Calls
<1>2. Entries
  BY Constants DEF MmInit, Entries, Receiving, Hanging
<1>3. Requests
  BY Constants, EmptySeq DEF MmInit, Requests
<1>4. MmWaits /\ AtDispatch /\ AtWork
  BY Constants DEF MmInit, MmWaits, AtDispatch, AtWork, Receiving, Sending
<1>5. Tree
  BY Constants DEF MmInit, Tree, InUse
<1>6. QED
  BY <1>1, <1>2, <1>3, <1>4, <1>5 DEF TreeInv

\* A set of natural numbers that is not empty has a least one.
LEMMA Least ==
    ASSUME NEW S \in SUBSET Nat, S # {}
    PROVE  \E m \in S : \A k \in S : m <= k
<1> DEFINE Below(n) == 0..n
           T == {Below(n) : n \in S}
           Smaller == StrictSubsetOrdering(Nat)
<1>1. T \subseteq FiniteSubsetsOf(Nat)
  <2>1. \A n \in Nat : IsFiniteSet(0..n)
    BY FS_Interval
  <2>2. QED
    BY <2>1 DEF FiniteSubsetsOf
<1>2. PICK x \in T : \A y \in T : <<y, x>> \notin Smaller
  <2>1. IsWellFoundedOn(Smaller, FiniteSubsetsOf(Nat))
    BY FS_StrictSubsetOrderingWellFounded
  <2>2. T # {}
    OBVIOUS
  <2> HIDE DEF T, Smaller
  <2>3. QED
    BY <1>1, <2>1, <2>2, WFMin
<1>3. PICK m \in S : x = Below(m)
  OBVIOUS
<1>4. ASSUME NEW k \in S, k < m
      PROVE  FALSE
  <2>1. Below(k) \subseteq Below(m) /\ Below(k) # Below(m)
    <3>1. m \in Below(m) /\ m \notin Below(k)
      BY <1>4
    <3>2. QED
      BY <1>4, <3>1
  <2>2. <<Below(k), x>> \in Smaller
    BY <1>3, <2>1 DEF StrictSubsetOrdering
  <2>3. QED
    BY <1>2, <2>2
<1>5. QED
  BY <1>4

\* The first of a set of numbers, as the loops over the process table find it.
LEMMA First ==
    ASSUME NEW S \in SUBSET Nat, S # {}
    PROVE  Min(S) \in S /\ \A k \in S : Min(S) <= k
BY Least DEF Min

(***************************************************************************)
(* Steps of programs                                                       *)
(***************************************************************************)

\* Only processes are queued.
LEMMA QueuedProcs == Fields => \A i \in 1..Len(q_sending[MM]) : q_sending[MM][i] \in Procs
BY Constants, ElementOfSeq DEF Fields

\* Those queued for MM stay so as long as no process changes that is blocked in a SEND.
LEMMA RequestsFrame ==
    ASSUME Fields, Requests, q_sending'[MM] = q_sending[MM],
           \A r \in Procs \ {MM} : p_flags[r] = {"SENDING"} =>
              /\ p_flags'[r] = p_flags[r] /\ prog'[r] = prog[r]
              /\ call'[r] = call[r] /\ buf'[r] = buf[r]
    PROVE  Requests'
<1>1. ASSUME NEW i \in 1..Len(q_sending[MM])
      PROVE  LET r == q_sending[MM][i]
             IN  /\ r # MM /\ p_flags'[r] = {"SENDING"} /\ prog'[r] = "recv"
                 /\ call'[r] # "none" /\ buf'[r] = [source |-> r, body |-> Request(call'[r])]
  <2>1. PICK r \in Procs : r = q_sending[MM][i]
    BY QueuedProcs
  <2>2. /\ r # MM /\ p_flags[r] = {"SENDING"} /\ prog[r] = "recv"
        /\ call[r] # "none" /\ buf[r] = [source |-> r, body |-> Request(call[r])]
    BY <2>1 DEF Requests
  <2>3. p_flags'[r] = p_flags[r] /\ prog'[r] = prog[r] /\ call'[r] = call[r] /\ buf'[r] = buf[r]
    BY <2>2
  <2>4. QED
    BY <2>1, <2>2, <2>3
<1>2. QED
  <2>1. \A i, j \in 1..Len(q_sending'[MM]) : q_sending'[MM][i] = q_sending'[MM][j] => i = j
    BY DEF Requests
  <2>2. \A i \in 1..Len(q_sending'[MM]) :
            LET r == q_sending'[MM][i]
            IN  /\ r # MM /\ p_flags'[r] = {"SENDING"} /\ prog'[r] = "recv"
                /\ call'[r] # "none" /\ buf'[r] = [source |-> r, body |-> Request(call'[r])]
    BY <1>1
  <2>3. QED
    BY <2>1, <2>2 DEF Requests

\* The request at hand stays one as long as its caller does not change.
LEMMA AtDispatchFrame ==
    ASSUME Fields, AtDispatch, buf'[MM] = buf[MM],
           mm_pc' = "dispatch" => mm_pc = "dispatch",
           Running(MM)' => Running(MM),
           \A r \in Procs \ {MM} : Asked(r) => Asked(r)' /\ call'[r] = call[r]
    PROVE  AtDispatch'
<1>1. PICK r \in Procs : r = buf[MM].source
  BY Constants DEF Fields
<1>2. ASSUME mm_pc' = "dispatch", Running(MM)'
      PROVE  r # MM /\ Asked(r)' /\ call'[r] # "none" /\ buf[MM].body = Request(call'[r])
  <2>1. r # MM /\ Asked(r) /\ call[r] # "none" /\ buf[MM].body = Request(call[r])
    BY <1>1, <1>2 DEF AtDispatch
  <2>2. Asked(r)' /\ call'[r] = call[r]
    BY <2>1
  <2>3. QED
    BY <2>1, <2>2
<1>3. QED
  BY <1>1, <1>2 DEF AtDispatch

\* A step of a program that is runnable leaves the tree alone, and those that MM works
\* for, if it does not get out of a call that MM has in hand.
LEMMA ProgramFrame ==
    ASSUME TreeInv, UNCHANGED <<p_parent, mm_pc, mm>>, NEW q \in Procs \ {MM}, p_flags[q] = {},
           \A r \in Procs \ {q, MM} :
              p_flags'[r] = p_flags[r] /\ prog'[r] = prog[r] /\ call'[r] = call[r],
           "HANGING" \notin p_flags'[q], p_flags'[q] # {"FREE_SLOT"},
           Ending(q) => Ending(q)',
           Asked(q) /\ mm_pc \in {"image", "WAITING", "fs_exit", "exit", "HANGING"} =>
              Asked(q)' /\ call'[q] = call[q]
    PROVE  AtWork' /\ Tree'
<1>1. Fields /\ AtWork /\ Tree
  BY DEF TreeInv
<1>2. mm.src \in Procs \ {MM} /\ mm.proc \in Procs \ {MM}
  BY <1>1 DEF Fields
<1>3. \A r \in Procs \ {MM} : /\ InUse(r) <=> InUse(r)'
                              /\ Hanging(r) <=> Hanging(r)'
                              /\ Ending(r) => Ending(r)'
                              /\ p_parent'[r] = p_parent[r]
  BY DEF InUse, Hanging, Ending, Sending
<1>4. \A r \in Procs \ {MM} : p_flags[r] \subseteq p_flags'[r]
  OBVIOUS
<1>5. \A r \in Procs \ {MM} :
          Asked(r) /\ mm_pc \in {"image", "WAITING", "fs_exit", "exit", "HANGING"} =>
             Asked(r)' /\ call'[r] = call[r]
  BY DEF Asked
<1>6. \A r \in Procs \ {MM} : Childless(r) => Childless(r)'
  BY <1>3, Constants DEF Childless
<1>7. AtWork'
  BY <1>1, <1>2, <1>3, <1>4, <1>5, <1>6 DEF AtWork
<1>8. Tree'
  BY <1>1, <1>3, Constants DEF Tree, Live
<1>9. QED
  BY <1>7, <1>8

\* The call goes on alike whether the request is queued or delivered to MM; in between
\* the caller is a process that can only receive.
LEMMA CallKeepsTree ==
    ASSUME TreeInv, UNCHANGED setting, NEW q \in Procs \ {MM}, NEW c \in Calls, Call(q, c)
    PROVE  TreeInv'
<1>1. /\ p_flags[q] = {} /\ prog[q] = "user" /\ msg_send(q, MM, Request(c))
      /\ prog' = [prog EXCEPT ![q] = "recv"] /\ call' = [call EXCEPT ![q] = c]
      /\ p_parent' = p_parent /\ mm_pc' = mm_pc /\ mm' = mm /\ setting' = setting
      /\ (q = PID_INIT => c \in {"FORK", "WAIT"})
  BY DEF Call, Running, MayCall
<1>2. Fields /\ Entries /\ Requests /\ MmWaits /\ AtDispatch /\ AtWork /\ Tree
  BY DEF TreeInv
<1>3. Request(c) \in MmBodies /\ q \in Procs /\ q # MM /\ c # "none" /\ MM \in Procs
  BY Constants DEF Calls
<1>4. /\ prog' \in [Procs -> {"user", "recv", "ret", "spin"}] /\ prog'[q] = "recv"
      /\ \A r \in Procs \ {q} : prog'[r] = prog[r]
      /\ call' \in [Procs -> Calls \cup {"none"}] /\ call'[q] = c
      /\ \A r \in Procs \ {q} : call'[r] = call[r]
  BY <1>1, <1>2 DEF Fields
<1>5. ~Asked(q) /\ ~Ending(q) /\ \A i \in 1..Len(q_sending[MM]) : q_sending[MM][i] # q
  BY <1>1, <1>2 DEF Asked, Ending, Requests
<1>6. CASE SendPanic(q, MM)
  <2>1. UNCHANGED <<p_flags, p_msg, p_recvfrom, p_sendto, has_int_msg, q_sending, buf>>
    BY <1>6 DEF SendPanic
  <2>2. AtWork' /\ Tree'
    BY <1>1, <1>4, <1>5, <2>1, ProgramFrame
  <2>3. Fields'
    BY <1>1, <1>2, <1>4, <2>1 DEF Fields
  <2>4. Entries'
    BY <1>1, <1>2, <1>3, <1>4, <2>1, Constants DEF Entries, Receiving, Hanging, Ending, Sending
  <2>5. Requests' /\ MmWaits'
    <3>1. Requests'
      BY <1>1, <1>2, <1>4, <2>1, RequestsFrame
    <3>2. MmWaits'
      BY <1>1, <1>2, <2>1 DEF MmWaits, Sending, Receiving
    <3>3. QED
      BY <3>1, <3>2
  <2>6. AtDispatch'
    BY <1>1, <1>2, <1>4, <1>5, <2>1 DEF Fields, AtDispatch, Asked, Running
  <2>7. QED
    BY <2>2, <2>3, <2>4, <2>5, <2>6 DEF TreeInv
<1>7. CASE SendDeliver(q, MM, Request(c))
  <2>1. /\ buf' = [buf EXCEPT ![q] = [source |-> q, body |-> Request(c)],
                              ![MM] = [source |-> q, body |-> Request(c)]]
        /\ p_flags' = [p_flags EXCEPT ![MM] = @ \ {"RECEIVING"}]
        /\ p_recvfrom' = [p_recvfrom EXCEPT ![MM] = NO_TASK]
        /\ UNCHANGED <<p_sendto, has_int_msg, q_sending>>
        /\ Receiving(MM)
    BY <1>7 DEF SendDeliver, AcceptsFrom
  <2>2. /\ p_flags' \in [Procs -> SUBSET Flags] /\ p_flags'[MM] = {}
        /\ \A r \in Procs \ {MM} : p_flags'[r] = p_flags[r]
    BY <1>2, <1>3, <2>1 DEF Fields, MmWaits, Receiving
  <2>3. /\ buf' \in [Procs -> [source : Procs, body : MmBodies]]
        /\ buf'[MM] = [source |-> q, body |-> Request(c)]
        /\ \A r \in Procs \ {q, MM} : buf'[r] = buf[r]
    BY <1>2, <1>3, <2>1 DEF Fields
  <2>4. /\ p_recvfrom' \in [Procs -> Sources \cup {NO_TASK}]
        /\ \A r \in Procs \ {MM} : p_recvfrom'[r] = p_recvfrom[r]
    BY <1>2, <1>3, <2>1 DEF Fields
  <2>5. Fields'
    <3>1. /\ p_sendto' \in [Procs -> Procs \cup {NO_TASK}] /\ q_sending' \in [Procs -> Seq(Procs)]
          /\ has_int_msg' = [r \in Procs |-> FALSE]
      BY <1>2, <2>1 DEF Fields
    <3>2. /\ p_parent' \in [Procs -> Procs \cup {0}] /\ mm_pc' \in MmPlaces /\ setting' \in Settings
          /\ mm' \in [src : Procs \ {MM}, proc : Procs \ {MM}, reply : MmBodies,
                      next : Nat, flags : SUBSET Flags]
      BY <1>1, <1>2 DEF Fields
    <3>3. QED
      BY <1>4, <2>2, <2>3, <2>4, <3>1, <3>2 DEF Fields
  <2>6. AtWork' /\ Tree'
    <3>1. \A r \in Procs \ {q, MM} :
              p_flags'[r] = p_flags[r] /\ prog'[r] = prog[r] /\ call'[r] = call[r]
      BY <1>4, <2>2
    <3>2. p_flags'[q] = {}
      BY <1>1, <2>2
    <3>3. QED
      BY <1>1, <1>5, <3>1, <3>2, ProgramFrame
  <2>7. Entries'
    <3>1. \A r \in Procs : "FREE_SLOT" \in p_flags'[r] => p_flags'[r] = {"FREE_SLOT"} /\ r \in Slots
      BY <1>2, <2>2 DEF Entries
    <3>2. \A r \in Procs \ {MM} : Receiving(r)' => p_recvfrom'[r] = MM
      BY <1>2, <2>2, <2>4 DEF Entries, Receiving
    <3>3. \A r \in Procs : Hanging(r)' => Ending(r)' /\ r \in Slots
      BY <1>1, <1>2, <1>4, <2>2 DEF Entries, Hanging, Ending, Sending
    <3>4. QED
      BY <1>1, <1>2, <1>4, <3>1, <3>2, <3>3, Constants DEF Entries
  <2>8. Requests'
    <3>1. \A r \in Procs \ {MM} : p_flags[r] = {"SENDING"} =>
              /\ p_flags'[r] = p_flags[r] /\ prog'[r] = prog[r]
              /\ call'[r] = call[r] /\ buf'[r] = buf[r]
      BY <1>1, <1>4, <2>2, <2>3
    <3>2. q_sending'[MM] = q_sending[MM]
      BY <2>1
    <3>3. QED
      BY <1>2, <3>1, <3>2, RequestsFrame
  <2>9. MmWaits'
    BY <2>2 DEF MmWaits, Sending, Receiving
  <2>10. AtDispatch'
    BY <1>1, <1>3, <1>4, <2>2, <2>3 DEF AtDispatch, Asked
  <2>11. QED
    BY <2>5, <2>6, <2>7, <2>8, <2>9, <2>10 DEF TreeInv
<1>8. CASE SendBlock(q, MM, Request(c))
  <2>1. /\ buf' = [buf EXCEPT ![q] = [source |-> q, body |-> Request(c)]]
        /\ p_flags' = [p_flags EXCEPT ![q] = @ \cup {"SENDING"}]
        /\ p_sendto' = [p_sendto EXCEPT ![q] = MM]
        /\ q_sending' = [q_sending EXCEPT ![MM] = Append(@, q)]
        /\ UNCHANGED <<p_recvfrom, has_int_msg>>
    BY <1>8 DEF SendBlock
  <2>2. /\ p_flags' \in [Procs -> SUBSET Flags] /\ p_flags'[q] = {"SENDING"}
        /\ \A r \in Procs \ {q} : p_flags'[r] = p_flags[r]
    BY <1>1, <1>2, <1>3, <2>1 DEF Fields, Flags
  <2>3. /\ buf' \in [Procs -> [source : Procs, body : MmBodies]]
        /\ buf'[q] = [source |-> q, body |-> Request(c)]
        /\ \A r \in Procs \ {q} : buf'[r] = buf[r]
    BY <1>2, <1>3, <2>1 DEF Fields
  <2>4. PICK s \in Seq(Procs) : s = q_sending[MM]
    BY <1>2, <1>3 DEF Fields
  <2>5. /\ q_sending'[MM] = Append(s, q) /\ Append(s, q) \in Seq(Procs)
        /\ Len(Append(s, q)) = Len(s) + 1 /\ Len(s) \in Nat
        /\ Append(s, q)[Len(s) + 1] = q /\ \A i \in 1..Len(s) : Append(s, q)[i] = s[i]
    BY <1>2, <1>3, <2>1, <2>4, AppendProperties, LenProperties DEF Fields
  <2>6. p_sendto' \in [Procs -> Procs \cup {NO_TASK}] /\ q_sending' \in [Procs -> Seq(Procs)]
    BY <1>2, <1>3, <2>1, <2>4, <2>5 DEF Fields
  <2>7. Fields'
    BY <1>1, <1>2, <1>4, <2>1, <2>2, <2>3, <2>6 DEF Fields
  <2>8. AtWork' /\ Tree'
    BY <1>1, <1>4, <1>5, <2>2, ProgramFrame
  <2>9. Entries'
    <3>1. \A r \in Procs : "FREE_SLOT" \in p_flags'[r] => p_flags'[r] = {"FREE_SLOT"} /\ r \in Slots
      BY <1>2, <2>2 DEF Entries
    <3>2. \A r \in Procs \ {MM} : Receiving(r)' => p_recvfrom'[r] = MM
      BY <1>2, <2>1, <2>2 DEF Entries, Receiving
    <3>3. \A r \in Procs : Hanging(r)' => Ending(r)' /\ r \in Slots
      BY <1>2, <1>4, <2>2 DEF Entries, Hanging, Ending, Sending
    <3>4. QED
      BY <1>1, <1>2, <1>4, <3>1, <3>2, <3>3, Constants DEF Entries
  <2>10. Requests'
    <3>1. \A i \in 1..Len(s) + 1 : i = Len(s) + 1 \/ i \in 1..Len(s)
      BY <2>5
    <3>2. \A i \in 1..Len(s) :
              LET r == s[i]
              IN  /\ r # MM /\ p_flags'[r] = {"SENDING"} /\ prog'[r] = "recv"
                  /\ call'[r] # "none" /\ buf'[r] = [source |-> r, body |-> Request(call'[r])]
      <4> TAKE i \in 1..Len(s)
      <4>1. PICK r \in Procs \ {q} : r = s[i]
        BY <1>5, <2>4, ElementOfSeq
      <4>2. /\ r # MM /\ p_flags[r] = {"SENDING"} /\ prog[r] = "recv"
            /\ call[r] # "none" /\ buf[r] = [source |-> r, body |-> Request(call[r])]
        BY <1>2, <2>4, <4>1 DEF Requests
      <4>3. p_flags'[r] = p_flags[r] /\ prog'[r] = prog[r] /\ call'[r] = call[r] /\ buf'[r] = buf[r]
        BY <1>4, <2>2, <2>3, <4>1
      <4>4. QED
        BY <4>1, <4>2, <4>3
    <3>3. \A i, j \in 1..Len(s) : s[i] = s[j] => i = j
      BY <1>2, <2>4 DEF Requests
    <3>4. QED
      BY <1>3, <1>4, <1>5, <2>2, <2>3, <2>4, <2>5, <3>1, <3>2, <3>3 DEF Requests
  <2>11. MmWaits'
    BY <1>1, <1>2, <1>3, <2>1, <2>2 DEF MmWaits, Sending, Receiving
  <2>12. AtDispatch'
    <3>1. buf'[MM] = buf[MM] /\ p_flags'[MM] = p_flags[MM]
      BY <1>3, <2>2, <2>3
    <3>2. \A r \in Procs \ {MM} : Asked(r) => Asked(r)' /\ call'[r] = call[r]
      BY <1>4, <1>5, <2>2 DEF Asked
    <3>3. QED
      BY <1>1, <1>2, <3>1, <3>2, AtDispatchFrame DEF Running
  <2>13. QED
    BY <2>7, <2>8, <2>9, <2>10, <2>11, <2>12 DEF TreeInv
<1>9. QED
  BY <1>1, <1>6, <1>7, <1>8 DEF msg_send

\* The caller takes the answer that MM is blocked with, or blocks for it.
LEMMA AwaitKeepsTree ==
    ASSUME TreeInv, UNCHANGED setting, NEW q \in Procs \ {MM}, Await(q)
    PROVE  TreeInv'
<1>1. /\ p_flags[q] = {} /\ prog[q] = "recv" /\ msg_receive(q, MM)
      /\ prog' = [prog EXCEPT ![q] = "ret"]
      /\ p_parent' = p_parent /\ call' = call /\ mm_pc' = mm_pc /\ mm' = mm /\ setting' = setting
  BY DEF Await, Running
<1>2. Fields /\ Entries /\ Requests /\ MmWaits /\ AtDispatch /\ AtWork /\ Tree
  BY DEF TreeInv
<1>3. q \in Procs /\ q # MM /\ MM \in Procs
  BY Constants
<1>4. /\ prog' \in [Procs -> {"user", "recv", "ret", "spin"}] /\ prog'[q] = "ret"
      /\ \A r \in Procs \ {q} : prog'[r] = prog[r]
  BY <1>1, <1>2 DEF Fields
<1>5. ~TakesInterrupt(q, MM)
  BY <1>2, <1>3 DEF TakesInterrupt, Fields
<1>6. CASE ReceiveQueued(q, MM)
  <2>1. /\ Sending(MM)
        /\ \E i \in 1..Len(q_sending[q]) :
              /\ q_sending[q][i] = MM
              /\ q_sending' = [q_sending EXCEPT ![q] = Unlink(@, i)]
              /\ p_sendto' = [p_sendto EXCEPT ![q_sending[q][i]] = NO_TASK]
              /\ p_flags' = [p_flags EXCEPT ![q_sending[q][i]] = @ \ {"SENDING"}]
              /\ buf' = [buf EXCEPT ![q] = buf[q_sending[q][i]]]
        /\ UNCHANGED <<p_recvfrom, has_int_msg>>
    BY <1>6, Constants DEF ReceiveQueued, HasSender
  <2>2. PICK i \in 1..Len(q_sending[q]) :
              /\ q_sending' = [q_sending EXCEPT ![q] = Unlink(@, i)]
              /\ p_sendto' = [p_sendto EXCEPT ![MM] = NO_TASK]
              /\ p_flags' = [p_flags EXCEPT ![MM] = @ \ {"SENDING"}]
              /\ buf' = [buf EXCEPT ![q] = buf[MM]]
    BY <2>1
  <2>3. /\ p_flags' \in [Procs -> SUBSET Flags] /\ p_flags'[MM] = {}
        /\ \A r \in Procs \ {MM} : p_flags'[r] = p_flags[r]
    BY <1>2, <1>3, <2>1, <2>2 DEF Fields, MmWaits, Sending
  <2>4. mm_pc \in {"reply", "loop", "free_wait", "free_exit"}
    BY <1>2, <2>1 DEF MmWaits
  <2>5. Unlink(q_sending[q], i) \in Seq(Procs)
    BY <1>2, <1>3, UnlinkSeq DEF Fields
  <2>6. /\ p_sendto' \in [Procs -> Procs \cup {NO_TASK}] /\ q_sending' \in [Procs -> Seq(Procs)]
        /\ buf' \in [Procs -> [source : Procs, body : MmBodies]]
        /\ q_sending'[MM] = q_sending[MM] /\ \A r \in Procs \ {q} : buf'[r] = buf[r]
    BY <1>2, <1>3, <2>2, <2>5 DEF Fields
  <2>7. Fields'
    BY <1>1, <1>2, <1>4, <2>1, <2>3, <2>6 DEF Fields
  <2>8. Ending(q) => Ending(q)'
    BY <1>1, <1>3, <1>4, <2>3 DEF Ending, Sending
  <2>9. AtWork' /\ Tree'
    BY <1>1, <1>3, <1>4, <2>3, <2>4, <2>8, ProgramFrame
  <2>10. Entries'
    <3>1. \A r \in Procs : "FREE_SLOT" \in p_flags'[r] => p_flags'[r] = {"FREE_SLOT"} /\ r \in Slots
      BY <1>2, <2>3 DEF Entries
    <3>2. \A r \in Procs \ {MM} : Receiving(r)' => p_recvfrom'[r] = MM
      BY <1>2, <2>1, <2>3 DEF Entries, Receiving
    <3>3. \A r \in Procs : Hanging(r)' => Ending(r)' /\ r \in Slots
      BY <1>1, <1>2, <1>4, <2>3, <2>8 DEF Entries, Hanging, Ending, Sending
    <3>4. QED
      BY <1>1, <1>2, <3>1, <3>2, <3>3 DEF Entries
  <2>11. Requests'
    BY <1>1, <1>2, <1>4, <2>3, <2>6, RequestsFrame
  <2>12. MmWaits'
    BY <2>3 DEF MmWaits, Sending, Receiving
  <2>13. AtDispatch'
    BY <1>1, <2>4 DEF AtDispatch
  <2>14. QED
    BY <2>7, <2>9, <2>10, <2>11, <2>12, <2>13 DEF TreeInv
<1>7. CASE ReceiveBlock(q, MM)
  <2>1. /\ buf' = [buf EXCEPT ![q].source = q]
        /\ p_flags' = [p_flags EXCEPT ![q] = @ \cup {"RECEIVING"}]
        /\ p_recvfrom' = [p_recvfrom EXCEPT ![q] = MM]
        /\ UNCHANGED <<p_sendto, has_int_msg, q_sending>>
    BY <1>7 DEF ReceiveBlock
  <2>2. /\ p_flags' \in [Procs -> SUBSET Flags] /\ p_flags'[q] = {"RECEIVING"}
        /\ \A r \in Procs \ {q} : p_flags'[r] = p_flags[r]
    BY <1>1, <1>2, <1>3, <2>1 DEF Fields, Flags
  <2>3. /\ buf' \in [Procs -> [source : Procs, body : MmBodies]]
        /\ \A r \in Procs \ {q} : buf'[r] = buf[r]
    <3>1. buf[q] \in [source : Procs, body : MmBodies] /\ q \in Procs
      BY <1>2, <1>3 DEF Fields
    <3>2. [buf[q] EXCEPT !.source = q] \in [source : Procs, body : MmBodies]
      BY <3>1
    <3>3. buf' = [buf EXCEPT ![q] = [buf[q] EXCEPT !.source = q]]
      BY <2>1
    <3>4. QED
      BY <1>2, <3>2, <3>3 DEF Fields
  <2>4. /\ p_recvfrom' \in [Procs -> Sources \cup {NO_TASK}] /\ p_recvfrom'[q] = MM
        /\ \A r \in Procs \ {q} : p_recvfrom'[r] = p_recvfrom[r]
    BY <1>2, <1>3, <2>1, Constants DEF Fields
  <2>5. Fields'
    BY <1>1, <1>2, <1>4, <2>1, <2>2, <2>3, <2>4 DEF Fields
  <2>6. (Ending(q) => Ending(q)') /\ Asked(q)'
    BY <1>1, <1>3, <1>4, <2>2 DEF Ending, Asked, Sending
  <2>7. AtWork' /\ Tree'
    BY <1>1, <1>3, <1>4, <2>2, <2>6, ProgramFrame
  <2>8. Entries'
    <3>1. \A r \in Procs : "FREE_SLOT" \in p_flags'[r] => p_flags'[r] = {"FREE_SLOT"} /\ r \in Slots
      BY <1>2, <2>2 DEF Entries
    <3>2. \A r \in Procs \ {MM} : Receiving(r)' => p_recvfrom'[r] = MM
      BY <1>2, <2>2, <2>4 DEF Entries, Receiving
    <3>3. \A r \in Procs : Hanging(r)' => Ending(r)' /\ r \in Slots
      BY <1>1, <1>2, <1>4, <2>2 DEF Entries, Hanging, Ending, Sending
    <3>4. QED
      BY <1>1, <1>2, <3>1, <3>2, <3>3 DEF Entries
  <2>9. Requests'
    BY <1>1, <1>2, <1>4, <2>1, <2>2, <2>3, RequestsFrame
  <2>10. MmWaits'
    BY <1>1, <1>2, <1>3, <2>2, <2>4 DEF MmWaits, Sending, Receiving
  <2>11. AtDispatch'
    <3>1. \A r \in Procs \ {MM} : Asked(r) => Asked(r)'
      BY <1>4, <2>2, <2>6 DEF Asked
    <3>2. QED
      BY <1>1, <1>2, <1>3, <2>2, <2>3, <3>1, AtDispatchFrame DEF Running
  <2>12. QED
    BY <2>5, <2>7, <2>8, <2>9, <2>10, <2>11 DEF TreeInv
<1>8. QED
  BY <1>1, <1>5, <1>6, <1>7 DEF msg_receive, ReceiveInt

\* A call returns; exit() does not, so that who exits spins.
LEMMA ReturnKeepsTree ==
    ASSUME TreeInv, UNCHANGED setting, NEW q \in Procs \ {MM}, Return(q)
    PROVE  TreeInv'
<1>1. /\ p_flags[q] = {} /\ prog[q] = "ret"
      /\ prog' = [prog EXCEPT ![q] = IF AnswerOK(call[q], buf[q].body) THEN "user" ELSE "spin"]
      /\ call' = [call EXCEPT ![q] = "none"] /\ buf' = [buf EXCEPT ![q] = Cleared(q)]
      /\ p_flags' = p_flags /\ p_parent' = p_parent /\ mm_pc' = mm_pc /\ mm' = mm
      /\ setting' = setting
      /\ UNCHANGED <<p_recvfrom, p_sendto, has_int_msg, q_sending>>
  BY DEF Return, Running
<1>2. Fields /\ Entries /\ Requests /\ MmWaits /\ AtDispatch /\ AtWork /\ Tree
  BY DEF TreeInv
<1>3. q \in Procs /\ q # MM /\ MM \in Procs
  BY Constants
<1>4. /\ prog' \in [Procs -> {"user", "recv", "ret", "spin"}] /\ call'[q] = "none"
      /\ call' \in [Procs -> Calls \cup {"none"}]
      /\ \A r \in Procs \ {q} : prog'[r] = prog[r] /\ call'[r] = call[r]
  BY <1>1, <1>2 DEF Fields
<1>5. /\ buf' \in [Procs -> [source : Procs, body : MmBodies]]
      /\ \A r \in Procs \ {q} : buf'[r] = buf[r]
  BY <1>1, <1>2, <1>3, Constants DEF Fields, Cleared
<1>6. Fields'
  BY <1>1, <1>2, <1>4, <1>5 DEF Fields
<1>7. ~Asked(q) /\ (Ending(q) => Ending(q)')
  BY <1>1, <1>2, <1>3 DEF Asked, Ending, AnswerOK, Fields, Sending
<1>8. AtWork' /\ Tree'
  BY <1>1, <1>4, <1>7, ProgramFrame
<1>9. Entries'
  <2>1. \A r \in Procs : "FREE_SLOT" \in p_flags'[r] => p_flags'[r] = {"FREE_SLOT"} /\ r \in Slots
    BY <1>1, <1>2 DEF Entries
  <2>2. \A r \in Procs \ {MM} : Receiving(r)' => p_recvfrom'[r] = MM
    BY <1>1, <1>2 DEF Entries, Receiving
  <2>3. \A r \in Procs : Hanging(r)' => Ending(r)' /\ r \in Slots
    BY <1>1, <1>2, <1>4, <1>7 DEF Entries, Hanging, Ending, Sending
  <2>4. QED
    BY <1>1, <1>2, <1>4, <2>1, <2>2, <2>3, Constants DEF Entries
<1>10. Requests'
  BY <1>1, <1>2, <1>4, <1>5, RequestsFrame
<1>11. MmWaits'
  BY <1>1, <1>2 DEF MmWaits, Sending, Receiving
<1>12. AtDispatch'
  <2>1. \A r \in Procs \ {MM} : Asked(r) => Asked(r)' /\ call'[r] = call[r]
    BY <1>1, <1>4, <1>7 DEF Asked
  <2>2. QED
    BY <1>1, <1>2, <1>3, <1>5, <2>1, AtDispatchFrame DEF Running
<1>13. QED
  BY <1>6, <1>8, <1>9, <1>10, <1>11, <1>12 DEF TreeInv

(***************************************************************************)
(* Steps of MM                                                             *)
(***************************************************************************)

\* The values of MM's locals.
MmLocals == [src : Procs \ {MM}, proc : Procs \ {MM}, reply : MmBodies,
             next : Nat, flags : SUBSET Flags]

\* What MM has got from a call that it dispatches: its caller waits for the answer.
LEMMA AtHand ==
    ASSUME TreeInv, NEW c \in Calls, Requested(c)
    PROVE  /\ Running(MM) /\ mm_pc = "dispatch" /\ mm \in MmLocals
           /\ buf[MM].source \in Procs \ {MM}
           /\ Asked(buf[MM].source) /\ call[buf[MM].source] = c
           /\ Live(buf[MM].source) /\ ~Sending(buf[MM].source)
<1>1. /\ Running(MM) /\ mm_pc = "dispatch" /\ buf[MM].body.type = c
      /\ Fields /\ AtDispatch
  BY DEF TreeInv, Requested, At
<1>2. PICK q \in Procs : q = buf[MM].source
  BY <1>1, Constants DEF Fields
<1>3. q # MM /\ Asked(q) /\ buf[MM].body = Request(call[q])
  BY <1>1, <1>2 DEF AtDispatch
<1>4. call[q] = c
  BY <1>1, <1>3 DEF Request
<1>5. Live(q) /\ ~Sending(q)
  BY <1>3 DEF Asked, Live, InUse, Hanging, Sending
<1>6. QED
  BY <1>1, <1>2, <1>3, <1>4, <1>5 DEF Fields, MmLocals

\* A step of MM that touches nothing but its own locals.
LEMMA SilentFrame ==
    ASSUME TreeInv, Running(MM), UNCHANGED <<ipcVars, p_parent, prog, call, setting>>,
           mm_pc' \in MmPlaces \ {"dispatch"}, mm' \in MmLocals, AtWork', Tree'
    PROVE  TreeInv'
<1>1. UNCHANGED <<p_flags, p_msg, p_recvfrom, p_sendto, has_int_msg, q_sending, buf>>
  BY DEF ipcVars, vars
<1>2. Fields /\ Entries /\ Requests /\ MmWaits
  BY DEF TreeInv
<1>3. Fields'
  BY <1>1, <1>2 DEF Fields, MmLocals
<1>4. Entries'
  BY <1>1, <1>2 DEF Entries, Receiving, Hanging, Ending, Sending
<1>5. Requests'
  BY <1>1, <1>2 DEF Requests
<1>6. MmWaits' /\ AtDispatch'
  BY <1>1, <1>2 DEF MmWaits, AtDispatch, Running, Receiving, Sending
<1>7. QED
  BY <1>3, <1>4, <1>5, <1>6 DEF TreeInv

\* The tree as it is when MM is at a place where everybody's parent is alive.
LEMMA TreeStays ==
    ASSUME Tree, mm_pc \notin {"orphans", "cleanup_exit", "free_exit"},
           UNCHANGED <<p_flags, p_parent>>
    PROVE  Tree'
BY DEF Tree, Live, InUse, Hanging

\* MM takes the request apart, or waits for FS, and changes nothing else.
LEMMA SilentKeepsTree ==
    ASSUME TreeInv, UNCHANGED setting,
           ForkFull \/ FsReply \/ Exec \/ WaitReap \/ WaitNoChild \/ Exit \/ ExitDone
    PROVE  TreeInv'
<1>1. Fields /\ Entries /\ AtWork /\ Tree /\ mm \in MmLocals
  BY DEF TreeInv, Fields, MmLocals
<1>2. {"FORK", "WAIT", "EXIT", "EXEC"} = Calls
  BY DEF Calls
<1>3. /\ Reply(0, -1) \in MmBodies /\ Reply(0, 0) \in MmBodies
      /\ Reply(NO_TASK, 0) \in MmBodies /\ 0 \in Nat
  BY Constants
<1>4. CASE ForkFull
  <2>1. /\ Requested("FORK") /\ mm_pc' = "reply"
        /\ mm' = [mm EXCEPT !.src = buf[MM].source, !.reply = Reply(0, -1)]
        /\ UNCHANGED <<ipcVars, p_parent, prog, call>>
    BY <1>4 DEF ForkFull
  <2>2. Running(MM) /\ mm_pc = "dispatch" /\ buf[MM].source \in Procs \ {MM}
    BY <1>2, <2>1, AtHand
  <2>3. mm' \in MmLocals
    BY <1>1, <1>3, <2>1, <2>2 DEF MmLocals
  <2>4. AtWork' /\ Tree'
    BY <1>1, <2>1, <2>2, TreeStays DEF AtWork, ipcVars, vars
  <2>5. QED
    BY <2>1, <2>2, <2>3, <2>4, SilentFrame DEF MmPlaces
<1>5. CASE FsReply
  <2>1. /\ Running(MM) /\ mm' = mm /\ UNCHANGED <<ipcVars, p_parent, prog, call>>
        /\ \/ mm_pc = "fs_fork" /\ mm_pc' = "birth"
           \/ mm_pc = "fs_exit" /\ mm_pc' = "exit"
    BY <1>5 DEF FsReply
  <2>2. UNCHANGED p_flags
    BY <2>1 DEF ipcVars, vars
  <2>3. AtWork' /\ Tree'
    BY <1>1, <2>1, <2>2, TreeStays DEF AtWork, Asked
  <2>4. QED
    BY <1>1, <2>1, <2>3, SilentFrame DEF MmPlaces
<1>6. CASE Exec
  <2>1. PICK found \in BOOLEAN :
           /\ mm' = [mm EXCEPT !.src = buf[MM].source,
                               !.reply = Reply(0, IF found THEN 0 ELSE -1)]
           /\ mm_pc' = IF found THEN "image" ELSE "reply"
    BY <1>6 DEF Exec
  <2>2. Requested("EXEC") /\ UNCHANGED <<ipcVars, p_parent, prog, call>>
    BY <1>6 DEF Exec
  <2>3. PICK q \in Procs \ {MM} : q = buf[MM].source
    BY <1>2, <2>2, AtHand
  <2>4. Running(MM) /\ mm_pc = "dispatch" /\ Asked(q) /\ call[q] = "EXEC"
    BY <1>2, <2>2, <2>3, AtHand
  <2>5. mm' \in MmLocals /\ mm'.src = q
    BY <1>1, <1>3, <2>1, <2>3 DEF MmLocals
  <2>6. UNCHANGED p_flags /\ mm_pc' \in {"image", "reply"}
    BY <2>1, <2>2 DEF ipcVars, vars
  <2>7. AtWork' /\ Tree'
    BY <1>1, <2>2, <2>4, <2>5, <2>6, TreeStays DEF AtWork, Asked
  <2>8. QED
    BY <2>2, <2>4, <2>5, <2>6, <2>7, SilentFrame DEF MmPlaces
<1>7. CASE WaitReap
  <2>1. PICK Z \in {{s \in Children(buf[MM].source) : Hanging(s)}} :
           Z # {} /\ mm' = [mm EXCEPT !.src = buf[MM].source, !.proc = Min(Z)]
    BY <1>7 DEF WaitReap
  <2>2. /\ Requested("WAIT") /\ mm_pc' = "cleanup_wait"
        /\ UNCHANGED <<ipcVars, p_parent, prog, call>>
    BY <1>7 DEF WaitReap
  <2>3. Running(MM) /\ mm_pc = "dispatch" /\ buf[MM].source \in Procs \ {MM}
    BY <1>2, <2>2, AtHand
  <2>4. Z \in SUBSET Nat /\ Z \subseteq Procs
    BY Constants DEF Children
  <2>5. PICK z \in Procs : z = Min(Z) /\ Hanging(z)
    BY <2>1, <2>4, First
  <2>6. z \in Slots /\ Ending(z) /\ InUse(z) /\ z # MM /\ z # PID_INIT /\ ~Live(z)
    BY <1>1, <2>5, Constants DEF Entries, Hanging, InUse, Live
  <2>7. Childless(z)
    BY <1>1, <2>3, <2>6 DEF Tree, Childless
  <2>8. mm' \in MmLocals /\ mm'.proc = z
    BY <1>1, <2>1, <2>3, <2>5, <2>6 DEF MmLocals
  <2>9. UNCHANGED p_flags
    BY <2>2 DEF ipcVars, vars
  <2>10. InUse(z)' /\ Ending(z)' /\ Childless(z)'
    BY <2>2, <2>6, <2>7, <2>9 DEF InUse, Ending, Sending, Childless
  <2>11. AtWork' /\ Tree'
    BY <1>1, <2>2, <2>3, <2>6, <2>8, <2>9, <2>10, TreeStays DEF AtWork
  <2>12. QED
    BY <2>2, <2>3, <2>8, <2>11, SilentFrame DEF MmPlaces
<1>8. CASE WaitNoChild
  <2>1. /\ Requested("WAIT") /\ mm_pc' = "reply"
        /\ mm' = [mm EXCEPT !.src = buf[MM].source, !.reply = Reply(NO_TASK, 0)]
        /\ UNCHANGED <<ipcVars, p_parent, prog, call>>
    BY <1>8 DEF WaitNoChild
  <2>2. Running(MM) /\ mm_pc = "dispatch" /\ buf[MM].source \in Procs \ {MM}
    BY <1>2, <2>1, AtHand
  <2>3. mm' \in MmLocals
    BY <1>1, <1>3, <2>1, <2>2 DEF MmLocals
  <2>4. AtWork' /\ Tree'
    BY <1>1, <2>1, <2>2, TreeStays DEF AtWork, ipcVars, vars
  <2>5. QED
    BY <2>1, <2>2, <2>3, <2>4, SilentFrame DEF MmPlaces
<1>9. CASE Exit
  <2>1. /\ Requested("EXIT") /\ mm_pc' = "fs_exit"
        /\ mm' = [mm EXCEPT !.src = buf[MM].source, !.next = 0]
        /\ UNCHANGED <<ipcVars, p_parent, prog, call>>
    BY <1>9 DEF Exit
  <2>2. PICK q \in Procs \ {MM} : q = buf[MM].source
    BY <1>2, <2>1, AtHand
  <2>3. Running(MM) /\ mm_pc = "dispatch" /\ Asked(q) /\ call[q] = "EXIT"
    BY <1>2, <2>1, <2>2, AtHand
  <2>4. mm' \in MmLocals /\ mm'.src = q /\ mm'.next = 0
    BY <1>1, <1>3, <2>1, <2>2 DEF MmLocals
  <2>5. UNCHANGED p_flags
    BY <2>1 DEF ipcVars, vars
  <2>6. AtWork' /\ Tree'
    BY <1>1, <2>1, <2>3, <2>4, <2>5, TreeStays DEF AtWork, Asked
  <2>7. QED
    BY <2>1, <2>3, <2>4, <2>6, SilentFrame DEF MmPlaces
<1>10. CASE ExitDone
  <2>1. /\ Running(MM) /\ mm_pc = "orphans" /\ mm_pc' = "loop" /\ mm' = mm
        /\ Orphans = {} /\ UNCHANGED <<ipcVars, p_parent, prog, call>>
    BY <1>10 DEF ExitDone, At
  <2>2. UNCHANGED p_flags
    BY <2>1 DEF ipcVars, vars
  <2>3. \A s \in Procs : ~(p_parent[s] = mm.src /\ s >= mm.next)
    BY <2>1 DEF Orphans, Children
  <2>4. Tree'
    BY <1>1, <2>1, <2>2, <2>3, Constants DEF Tree, Live, InUse, Hanging
  <2>5. AtWork'
    BY <2>1 DEF AtWork
  <2>6. QED
    BY <1>1, <2>1, <2>4, <2>5, SilentFrame DEF MmPlaces
<1>11. QED
  BY <1>4, <1>5, <1>6, <1>7, <1>8, <1>9, <1>10

\* MM clears its message and its locals before it receives.
LEMMA LoopKeepsTree ==
    ASSUME TreeInv, UNCHANGED setting, MmLoop
    PROVE  TreeInv'
<1>1. /\ Running(MM) /\ mm_pc = "loop" /\ mm_pc' = "receive" /\ mm' = Locals
      /\ buf' = [buf EXCEPT ![MM] = Cleared(MM)]
      /\ UNCHANGED <<p_flags, p_recvfrom, p_sendto, has_int_msg, q_sending, p_parent, prog, call>>
  BY DEF MmLoop, At
<1>2. Fields /\ Entries /\ Requests /\ MmWaits /\ Tree
  BY DEF TreeInv
<1>3. /\ buf' \in [Procs -> [source : Procs, body : MmBodies]]
      /\ \A r \in Procs \ {MM} : buf'[r] = buf[r]
  BY <1>1, <1>2, Constants DEF Fields, Cleared
<1>4. Locals \in MmLocals
  BY Constants DEF Locals, MmLocals
<1>5. Fields'
  BY <1>1, <1>2, <1>3, <1>4 DEF Fields, MmLocals, MmPlaces
<1>6. Entries'
  BY <1>1, <1>2 DEF Entries, Receiving, Hanging, Ending, Sending
<1>7. Requests'
  BY <1>1, <1>2, <1>3, RequestsFrame
<1>8. MmWaits' /\ AtDispatch' /\ AtWork'
  BY <1>1 DEF MmWaits, AtDispatch, AtWork, Running, Receiving, Sending
<1>9. Tree'
  BY <1>1, <1>2, TreeStays
<1>10. QED
  BY <1>5, <1>6, <1>7, <1>8, <1>9 DEF TreeInv

\* MM takes the oldest request, whose caller goes on to receive the answer, or blocks.
LEMMA ReceiveKeepsTree ==
    ASSUME TreeInv, UNCHANGED setting, MmReceive
    PROVE  TreeInv'
<1>1. /\ p_flags[MM] = {} /\ mm_pc = "receive" /\ mm_pc' = "dispatch"
      /\ msg_receive(MM, ANY) /\ UNCHANGED <<p_parent, mm, setting>>
      /\ prog' = prog /\ call' = call /\ MM \in Procs
  BY Constants DEF MmReceive, At, Running
<1>2. Fields /\ Entries /\ Requests /\ MmWaits /\ Tree
  BY DEF TreeInv
<1>3. ~TakesInterrupt(MM, ANY)
  BY <1>2, Constants DEF TakesInterrupt, Fields
<1>4. AtWork'
  BY <1>1 DEF AtWork
<1>5. CASE ReceiveQueued(MM, ANY)
  <2>1. PICK i \in 1..Len(q_sending[MM]) :
           /\ i = 1
           /\ q_sending' = [q_sending EXCEPT ![MM] = Unlink(@, i)]
           /\ buf' = [buf EXCEPT ![MM] = buf[q_sending[MM][i]]]
           /\ p_sendto' = [p_sendto EXCEPT ![q_sending[MM][i]] = NO_TASK]
           /\ p_flags' = [p_flags EXCEPT ![q_sending[MM][i]] = @ \ {"SENDING"}]
    BY <1>5 DEF ReceiveQueued
  <2>2. UNCHANGED <<p_recvfrom, has_int_msg>>
    BY <1>5 DEF ReceiveQueued
  <2>3. PICK q \in Procs : q = q_sending[MM][i]
    BY <1>2, QueuedProcs
  <2>4. /\ q # MM /\ p_flags[q] = {"SENDING"} /\ prog[q] = "recv" /\ call[q] # "none"
        /\ buf[q] = [source |-> q, body |-> Request(call[q])]
    BY <1>2, <2>3 DEF Requests
  <2>5. /\ p_flags' \in [Procs -> SUBSET Flags] /\ p_flags'[q] = {}
        /\ \A r \in Procs \ {q} : p_flags'[r] = p_flags[r]
    BY <1>2, <2>1, <2>3, <2>4 DEF Fields
  <2>6. /\ buf' \in [Procs -> [source : Procs, body : MmBodies]]
        /\ buf'[MM] = [source |-> q, body |-> Request(call[q])]
        /\ \A r \in Procs \ {MM} : buf'[r] = buf[r]
    <3>1. buf[q] \in [source : Procs, body : MmBodies]
      BY <1>2, <2>3 DEF Fields
    <3>2. buf' = [buf EXCEPT ![MM] = buf[q]]
      BY <2>1, <2>3
    <3>3. QED
      BY <1>1, <1>2, <2>4, <3>1, <3>2 DEF Fields
  <2>7. PICK s \in Seq(Procs) : s = q_sending[MM]
    BY <1>2, Constants DEF Fields
  <2>8. /\ Unlink(s, i) \in Seq(Procs) /\ Len(Unlink(s, i)) = Len(s) - 1 /\ Len(s) \in Nat
        /\ \A j \in 1..(Len(s) - 1) : Unlink(s, i)[j] = IF j < i THEN s[j] ELSE s[j + 1]
    BY <2>7, UnlinkSeq, LenProperties
  <2>9. /\ q_sending' \in [Procs -> Seq(Procs)] /\ q_sending'[MM] = Unlink(s, i)
        /\ p_sendto' \in [Procs -> Procs \cup {NO_TASK}]
    BY <1>2, <2>1, <2>3, <2>7, <2>8, Constants DEF Fields
  <2>10. Fields'
    BY <1>1, <1>2, <2>2, <2>5, <2>6, <2>9 DEF Fields, MmPlaces
  <2>11. Entries'
    <3>1. \A r \in Procs : "FREE_SLOT" \in p_flags'[r] => p_flags'[r] = {"FREE_SLOT"} /\ r \in Slots
      BY <1>2, <2>5 DEF Entries
    <3>2. \A r \in Procs \ {MM} : Receiving(r)' => p_recvfrom'[r] = MM
      BY <1>2, <2>2, <2>5 DEF Entries, Receiving
    <3>3. \A r \in Procs : Hanging(r)' => Ending(r)' /\ r \in Slots
      BY <1>1, <1>2, <2>5 DEF Entries, Hanging, Ending, Sending
    <3>4. QED
      BY <1>1, <1>2, <3>1, <3>2, <3>3 DEF Entries
  <2>12. Requests'
    <3>1. \A j \in 1..(Len(s) - 1) :
             /\ j + 1 \in 1..Len(s) /\ j + 1 # i /\ q_sending'[MM][j] = s[j + 1]
      BY <2>1, <2>8, <2>9
    <3>2. ASSUME NEW j \in 1..Len(s), j # i
          PROVE  LET r == s[j]
                 IN  /\ r # MM /\ p_flags'[r] = {"SENDING"} /\ prog'[r] = "recv"
                     /\ call'[r] # "none" /\ buf'[r] = [source |-> r, body |-> Request(call'[r])]
      <4>1. PICK r \in Procs : r = s[j]
        BY <2>7, ElementOfSeq
      <4>2. r # q
        BY <1>2, <2>3, <2>7, <3>2, <4>1 DEF Requests
      <4>3. /\ r # MM /\ p_flags[r] = {"SENDING"} /\ prog[r] = "recv"
            /\ call[r] # "none" /\ buf[r] = [source |-> r, body |-> Request(call[r])]
        BY <1>2, <2>7, <4>1 DEF Requests
      <4>4. QED
        BY <1>1, <2>5, <2>6, <4>1, <4>2, <4>3
    <3>3. \A j, k \in 1..Len(s) : s[j] = s[k] => j = k
      BY <1>2, <2>7 DEF Requests
    <3>4. \A j, k \in 1..(Len(s) - 1) : j + 1 = k + 1 => j = k
      BY <2>8
    <3>5. Len(q_sending'[MM]) = Len(s) - 1
      BY <2>8, <2>9
    <3>6. ASSUME NEW j \in 1..Len(q_sending'[MM])
          PROVE  LET r == q_sending'[MM][j]
                 IN  /\ r # MM /\ p_flags'[r] = {"SENDING"} /\ prog'[r] = "recv"
                     /\ call'[r] # "none" /\ buf'[r] = [source |-> r, body |-> Request(call'[r])]
      <4>1. PICK k \in 1..Len(s) : k # i /\ q_sending'[MM][j] = s[k]
        BY <3>1, <3>5
      <4>2. QED
        BY <3>2, <4>1
    <3>7. ASSUME NEW j \in 1..Len(q_sending'[MM]), NEW k \in 1..Len(q_sending'[MM]),
                 q_sending'[MM][j] = q_sending'[MM][k]
          PROVE  j = k
      <4>1. j \in 1..(Len(s) - 1) /\ k \in 1..(Len(s) - 1)
        BY <3>5, <3>7
      <4>2. j + 1 \in 1..Len(s) /\ k + 1 \in 1..Len(s) /\ s[j + 1] = s[k + 1]
        BY <3>1, <3>7, <4>1
      <4>3. QED
        BY <3>3, <3>4, <4>1, <4>2
    <3>8. QED
      BY <3>6, <3>7 DEF Requests
  <2>13. MmWaits'
    BY <1>1, <2>4, <2>5, Constants DEF MmWaits, Receiving, Sending
  <2>14. AtDispatch'
    BY <1>1, <2>4, <2>5, <2>6 DEF AtDispatch, Asked
  <2>15. Tree'
    <3>1. \A r \in Procs : (InUse(r) <=> InUse(r)') /\ (Hanging(r) <=> Hanging(r)')
      BY <2>4, <2>5 DEF InUse, Hanging
    <3>2. QED
      BY <1>1, <1>2, <3>1, Constants DEF Tree, Live
  <2>16. QED
    BY <1>4, <2>10, <2>11, <2>12, <2>13, <2>14, <2>15 DEF TreeInv
<1>6. CASE ReceiveBlock(MM, ANY)
  <2>1. /\ buf' = [buf EXCEPT ![MM].source = MM]
        /\ p_flags' = [p_flags EXCEPT ![MM] = @ \cup {"RECEIVING"}]
        /\ p_recvfrom' = [p_recvfrom EXCEPT ![MM] = ANY]
        /\ UNCHANGED <<p_sendto, has_int_msg, q_sending>>
    BY <1>6 DEF ReceiveBlock
  <2>2. /\ p_flags' \in [Procs -> SUBSET Flags] /\ p_flags'[MM] = {"RECEIVING"}
        /\ \A r \in Procs \ {MM} : p_flags'[r] = p_flags[r]
    BY <1>1, <1>2, <2>1, Constants DEF Fields, Flags
  <2>3. /\ buf' \in [Procs -> [source : Procs, body : MmBodies]]
        /\ \A r \in Procs \ {MM} : buf'[r] = buf[r]
    <3>1. buf[MM] \in [source : Procs, body : MmBodies]
      BY <1>1, <1>2 DEF Fields
    <3>2. [buf[MM] EXCEPT !.source = MM] \in [source : Procs, body : MmBodies]
      BY <1>1, <3>1
    <3>3. buf' = [buf EXCEPT ![MM] = [buf[MM] EXCEPT !.source = MM]]
      BY <2>1
    <3>4. QED
      BY <1>2, <3>2, <3>3 DEF Fields
  <2>4. /\ p_recvfrom' \in [Procs -> Sources \cup {NO_TASK}] /\ p_recvfrom'[MM] = ANY
        /\ \A r \in Procs \ {MM} : p_recvfrom'[r] = p_recvfrom[r]
    BY <1>2, <2>1, Constants DEF Fields
  <2>5. Fields'
    BY <1>1, <1>2, <2>1, <2>2, <2>3, <2>4 DEF Fields, MmPlaces
  <2>6. Entries'
    <3>1. \A r \in Procs : "FREE_SLOT" \in p_flags'[r] => p_flags'[r] = {"FREE_SLOT"} /\ r \in Slots
      BY <1>2, <2>2 DEF Entries
    <3>2. \A r \in Procs \ {MM} : Receiving(r)' => p_recvfrom'[r] = MM
      BY <1>2, <2>2, <2>4 DEF Entries, Receiving
    <3>3. \A r \in Procs : Hanging(r)' => Ending(r)' /\ r \in Slots
      BY <1>1, <1>2, <2>2 DEF Entries, Hanging, Ending, Sending
    <3>4. QED
      BY <1>1, <1>2, <3>1, <3>2, <3>3 DEF Entries
  <2>7. Requests'
    <3>1. \A r \in Procs \ {MM} : /\ p_flags'[r] = p_flags[r] /\ prog'[r] = prog[r]
                                  /\ call'[r] = call[r] /\ buf'[r] = buf[r]
      BY <1>1, <2>2, <2>3
    <3>2. QED
      BY <1>2, <2>1, <3>1, RequestsFrame
  <2>8. MmWaits' /\ AtDispatch'
    BY <1>1, <2>2, <2>4 DEF MmWaits, AtDispatch, Receiving, Sending, Running
  <2>9. Tree'
    BY <1>1, <1>2, <2>2, Constants DEF Tree, Live, InUse, Hanging
  <2>10. QED
    BY <1>4, <2>5, <2>6, <2>7, <2>8, <2>9 DEF TreeInv
<1>7. QED
  BY <1>1, <1>3, <1>5, <1>6 DEF msg_receive, ReceiveInt

\* do_fork: the child's entry, a copy of its parent's, is one of a process in the same call.
LEMMA ForkKeepsTree ==
    ASSUME TreeInv, UNCHANGED setting, Fork
    PROVE  TreeInv'
<1>1. PICK child \in {Min(FreeSlots)}, q \in {buf[MM].source} :
         /\ p_flags' = [p_flags EXCEPT ![child] = p_flags[q]]
         /\ p_recvfrom' = [p_recvfrom EXCEPT ![child] = p_recvfrom[q]]
         /\ p_sendto' = [p_sendto EXCEPT ![child] = p_sendto[q]]
         /\ has_int_msg' = [has_int_msg EXCEPT ![child] = has_int_msg[q]]
         /\ q_sending' = [q_sending EXCEPT ![child] = q_sending[q]]
         /\ buf' = [buf EXCEPT ![child] = buf[q]]
         /\ prog' = [prog EXCEPT ![child] = prog[q]]
         /\ call' = [call EXCEPT ![child] = call[q]]
         /\ p_parent' = [p_parent EXCEPT ![child] = q]
         /\ mm' = [mm EXCEPT !.src = q, !.proc = child, !.reply = Reply(child, 0)]
  BY DEF Fork
<1>2. Requested("FORK") /\ FreeSlots # {} /\ mm_pc' = "fs_fork"
  BY DEF Fork
<1>3. /\ q \in Procs \ {MM} /\ Asked(q) /\ Live(q) /\ ~Sending(q)
      /\ mm_pc = "dispatch" /\ p_flags[MM] = {} /\ mm \in MmLocals
  BY <1>1, <1>2, AtHand DEF Calls, Running
<1>4. Fields /\ Entries /\ Requests /\ Tree
  BY DEF TreeInv
<1>5. child \in Slots /\ child \in Procs /\ child # MM /\ p_flags[child] = {"FREE_SLOT"}
  <2>1. FreeSlots \in SUBSET Nat
    BY Constants DEF FreeSlots
  <2>2. child \in FreeSlots
    BY <1>1, <1>2, <2>1, First
  <2>3. QED
    BY <2>2, Constants DEF FreeSlots
<1>6. child # q /\ child # PID_INIT /\ MM \in Procs /\ Reply(child, 0) \in MmBodies
  BY <1>3, <1>5, Constants DEF Live, InUse
<1>7. /\ p_flags' \in [Procs -> SUBSET Flags] /\ p_flags'[child] = p_flags[q]
      /\ \A r \in Procs \ {child} : p_flags'[r] = p_flags[r]
  BY <1>1, <1>3, <1>4, <1>5 DEF Fields
<1>8. /\ p_recvfrom' \in [Procs -> Sources \cup {NO_TASK}] /\ p_recvfrom'[child] = p_recvfrom[q]
      /\ \A r \in Procs \ {child} : p_recvfrom'[r] = p_recvfrom[r]
  BY <1>1, <1>3, <1>4, <1>5 DEF Fields
<1>9. /\ q_sending' \in [Procs -> Seq(Procs)] /\ q_sending'[MM] = q_sending[MM]
      /\ p_sendto' \in [Procs -> Procs \cup {NO_TASK}] /\ has_int_msg' = [r \in Procs |-> FALSE]
  <2>1. q_sending' \in [Procs -> Seq(Procs)] /\ p_sendto' \in [Procs -> Procs \cup {NO_TASK}]
    BY <1>1, <1>3, <1>4, <1>5 DEF Fields
  <2>2. q_sending'[MM] = q_sending[MM]
    BY <1>1, <1>4, <1>5, <1>6 DEF Fields
  <2>3. has_int_msg' = [r \in Procs |-> FALSE]
    BY <1>1, <1>3, <1>4, <1>5 DEF Fields
  <2>4. QED
    BY <2>1, <2>2, <2>3
<1>10. /\ buf' \in [Procs -> [source : Procs, body : MmBodies]]
       /\ \A r \in Procs \ {child} : buf'[r] = buf[r]
  BY <1>1, <1>3, <1>4, <1>5 DEF Fields
<1>11. /\ prog' \in [Procs -> {"user", "recv", "ret", "spin"}]
       /\ call' \in [Procs -> Calls \cup {"none"}]
       /\ \A r \in Procs \ {child} : prog'[r] = prog[r] /\ call'[r] = call[r]
  BY <1>1, <1>3, <1>4, <1>5 DEF Fields
<1>12. /\ p_parent' \in [Procs -> Procs \cup {0}] /\ p_parent'[child] = q
       /\ \A r \in Procs \ {child} : p_parent'[r] = p_parent[r]
  BY <1>1, <1>3, <1>4, <1>5 DEF Fields
<1>13. mm' \in MmLocals
  BY <1>1, <1>3, <1>5, <1>6 DEF MmLocals
<1>14. Fields'
  BY <1>2, <1>4, <1>7, <1>8, <1>9, <1>10, <1>11, <1>12, <1>13 DEF Fields, MmLocals, MmPlaces
<1>15. Entries'
  <2>1. \A r \in Procs : "FREE_SLOT" \in p_flags'[r] => p_flags'[r] = {"FREE_SLOT"} /\ r \in Slots
    BY <1>3, <1>4, <1>5, <1>7 DEF Entries
  <2>2. \A r \in Procs \ {MM} : Receiving(r)' => p_recvfrom'[r] = MM
    BY <1>3, <1>4, <1>7, <1>8 DEF Entries, Receiving
  <2>3. \A r \in Procs : Hanging(r)' => Ending(r)' /\ r \in Slots
    <3>1. ~Hanging(child)'
      BY <1>3, <1>7 DEF Live, Hanging
    <3>2. QED
      BY <1>4, <1>7, <1>11, <3>1 DEF Entries, Hanging, Ending, Sending
  <2>4. QED
    BY <1>4, <1>5, <1>6, <1>11, <1>12, <2>1, <2>2, <2>3, Constants DEF Entries
<1>16. Requests'
  BY <1>4, <1>5, <1>7, <1>9, <1>10, <1>11, RequestsFrame
<1>17. MmWaits' /\ AtDispatch' /\ AtWork'
  BY <1>2, <1>3, <1>5, <1>6, <1>7 DEF MmWaits, AtDispatch, AtWork, Sending, Receiving
<1>18. Tree'
  <2>1. \A r \in Procs \ {child} : (InUse(r) <=> InUse(r)') /\ (Live(r) <=> Live(r)')
    BY <1>7 DEF InUse, Live, Hanging
  <2>2. \A r \in Procs : Live(r) => Live(r)'
    BY <1>5, <2>1 DEF Live, InUse
  <2>3. q = PID_INIT \/ (q \in Slots /\ Live(q)')
    BY <1>3, <2>2, Constants
  <2>4. QED
    BY <1>3, <1>4, <1>12, <2>1, <2>2, <2>3, Constants DEF Tree
<1>19. QED
  BY <1>14, <1>15, <1>16, <1>17, <1>18 DEF TreeInv

\* A SEND of MM: whoever it is to, whether it gets through, blocks or panics, MM is past it.
LEMMA MmSendFrame ==
    ASSUME TreeInv, Running(MM), NEW d \in Procs \ {MM}, NEW b \in MmBodies, msg_send(MM, d, b),
           UNCHANGED <<p_parent, prog, call, mm, setting>>,
           mm_pc' \in {"reply", "loop", "free_wait", "free_exit"}
    PROVE  /\ Fields' /\ Entries' /\ Requests' /\ MmWaits' /\ AtDispatch'
           /\ \A r \in Procs \ {MM} : /\ InUse(r) <=> InUse(r)'
                                      /\ Live(r) <=> Live(r)'
                                      /\ Ending(r) <=> Ending(r)'
<1>1. Fields /\ Entries /\ Requests /\ MmWaits
  BY DEF TreeInv
<1>2. MM \in Procs /\ d \in Procs /\ d # MM /\ p_flags[MM] = {}
  BY Constants DEF Running
<1>3. /\ p_flags' \in [Procs -> SUBSET Flags]
      /\ p_flags'[MM] \in {{}, {"SENDING"}}
      /\ \A r \in Procs \ {MM} :
            p_flags'[r] = p_flags[r] \/ p_flags'[r] = p_flags[r] \ {"RECEIVING"}
      /\ \A r \in Procs \ {MM, d} : p_flags'[r] = p_flags[r]
      /\ d \in Procs => (p_flags[d] = {"SENDING"} => p_flags'[d] = p_flags[d])
  <2>1. CASE SendPanic(MM, d)
    BY <1>1, <1>2, <2>1 DEF SendPanic, Fields
  <2>2. CASE SendDeliver(MM, d, b)
    BY <1>1, <1>2, <2>2 DEF SendDeliver, Fields
  <2>3. CASE SendBlock(MM, d, b)
    BY <1>1, <1>2, <2>3 DEF SendBlock, Fields, Flags
  <2>4. QED
    BY <2>1, <2>2, <2>3 DEF msg_send
<1>4. /\ p_recvfrom' \in [Procs -> Sources \cup {NO_TASK}]
      /\ \A r \in Procs : p_recvfrom'[r] = p_recvfrom[r] \/ (r = d /\ ~Receiving(r)')
  <2>1. CASE SendPanic(MM, d)
    BY <1>1, <2>1 DEF SendPanic, Fields
  <2>2. CASE SendDeliver(MM, d, b)
    BY <1>1, <1>2, <2>2 DEF SendDeliver, Fields, Receiving
  <2>3. CASE SendBlock(MM, d, b)
    BY <1>1, <2>3 DEF SendBlock, Fields
  <2>4. QED
    BY <2>1, <2>2, <2>3 DEF msg_send
<1>5. /\ q_sending' \in [Procs -> Seq(Procs)] /\ q_sending'[MM] = q_sending[MM]
      /\ p_sendto' \in [Procs -> Procs \cup {NO_TASK}] /\ has_int_msg' = has_int_msg
  <2>1. CASE SendPanic(MM, d)
    BY <1>1, <2>1 DEF SendPanic, Fields
  <2>2. CASE SendDeliver(MM, d, b)
    BY <1>1, <2>2 DEF SendDeliver, Fields
  <2>3. CASE SendBlock(MM, d, b)
    <3>1. Append(q_sending[d], MM) \in Seq(Procs)
      BY <1>1, <1>2, AppendProperties DEF Fields
    <3>2. QED
      BY <1>1, <1>2, <2>3, <3>1 DEF SendBlock, Fields
  <2>4. QED
    BY <2>1, <2>2, <2>3 DEF msg_send
<1>6. /\ buf' \in [Procs -> [source : Procs, body : MmBodies]]
      /\ \A r \in Procs \ {MM} : buf'[r] = buf[r] \/ (r = d /\ Receiving(d))
  <2>1. CASE SendPanic(MM, d)
    BY <1>1, <2>1 DEF SendPanic, Fields
  <2>2. CASE SendDeliver(MM, d, b)
    BY <1>1, <1>2, <2>2 DEF SendDeliver, AcceptsFrom, Fields
  <2>3. CASE SendBlock(MM, d, b)
    BY <1>1, <1>2, <2>3 DEF SendBlock, Fields
  <2>4. QED
    BY <2>1, <2>2, <2>3 DEF msg_send
<1>7. Fields'
  BY <1>1, <1>3, <1>4, <1>5, <1>6 DEF Fields, MmPlaces
<1>8. \A r \in Procs \ {MM} : /\ InUse(r) <=> InUse(r)'
                              /\ Hanging(r) <=> Hanging(r)'
                              /\ Ending(r) <=> Ending(r)'
                              /\ "FREE_SLOT" \in p_flags'[r] <=> "FREE_SLOT" \in p_flags[r]
  <2> TAKE r \in Procs \ {MM}
  <2>1. p_flags'[r] = p_flags[r] \/ p_flags'[r] = p_flags[r] \ {"RECEIVING"}
    BY <1>3
  <2>2. "FREE_SLOT" \in p_flags[r] => p_flags[r] = {"FREE_SLOT"}
    BY <1>1 DEF Entries
  <2>3. QED
    BY <2>1, <2>2 DEF InUse, Hanging, Ending, Sending
<1>9. Entries'
  <2>1. \A r \in Procs : "FREE_SLOT" \in p_flags'[r] => p_flags'[r] = {"FREE_SLOT"} /\ r \in Slots
    BY <1>1, <1>3, <1>8 DEF Entries
  <2>2. \A r \in Procs \ {MM} : Receiving(r)' => p_recvfrom'[r] = MM
    BY <1>1, <1>3, <1>4 DEF Entries, Receiving
  <2>3. \A r \in Procs : Hanging(r)' => Ending(r)' /\ r \in Slots
    BY <1>1, <1>3, <1>8 DEF Entries, Hanging
  <2>4. QED
    BY <1>1, <2>1, <2>2, <2>3 DEF Entries
<1>10. Requests'
  <2>1. \A r \in Procs \ {MM} : p_flags[r] = {"SENDING"} =>
            /\ p_flags'[r] = p_flags[r] /\ prog'[r] = prog[r]
            /\ call'[r] = call[r] /\ buf'[r] = buf[r]
    BY <1>2, <1>3, <1>6 DEF Receiving
  <2>2. QED
    BY <1>1, <1>5, <2>1, RequestsFrame
<1>11. MmWaits' /\ AtDispatch'
  BY <1>3 DEF MmWaits, AtDispatch, Sending, Receiving
<1>12. QED
  BY <1>7, <1>8, <1>9, <1>10, <1>11 DEF Live

\* MM answers a child, the caller of fork or exec, or a parent; it comes to no harm
\* if that is the one whose slot MM is about to free.
LEMMA SendsKeepTree ==
    ASSUME TreeInv, UNCHANGED setting, Birth \/ SendReply \/ Cleanup
    PROVE  TreeInv'
<1>1. Fields /\ Entries /\ AtWork /\ Tree /\ mm \in MmLocals
  BY DEF TreeInv, Fields, MmLocals
<1>2. /\ Running(MM) /\ UNCHANGED <<p_parent, prog, call, mm, setting>>
      /\ mm_pc' \in {"reply", "loop", "free_wait", "free_exit"}
  BY DEF Birth, SendReply, Cleanup, At
<1>3. \E d \in Procs \ {MM}, b \in MmBodies : msg_send(MM, d, b)
  <2>1. CASE Birth
    <3>1. mm.proc \in Procs \ {MM} /\ Reply(0, 0) \in MmBodies
      BY <1>1, Constants DEF MmLocals
    <3>2. QED
      BY <2>1, <3>1 DEF Birth
  <2>2. CASE SendReply
    <3>1. mm.src \in Procs \ {MM} /\ mm.reply \in MmBodies
      BY <1>1 DEF MmLocals
    <3>2. QED
      BY <2>2, <3>1 DEF SendReply
  <2>3. CASE Cleanup
    <3>1. mm_pc \in {"cleanup_wait", "cleanup_exit"} /\ msg_send(MM, p_parent[mm.proc], Reply(mm.proc, 0))
      BY <2>3 DEF Cleanup, At
    <3>2. mm.proc \in Slots /\ InUse(mm.proc) /\ mm.src \in Procs \ {MM}
      BY <1>1, <3>1 DEF AtWork, MmLocals
    <3>3. p_parent[mm.proc] \in Procs \ {MM}
      BY <1>1, <3>2, Constants DEF Tree
    <3>4. Reply(mm.proc, 0) \in MmBodies
      BY <3>2, Constants
    <3>5. QED
      BY <3>1, <3>3, <3>4
  <2>4. QED
    BY <2>1, <2>2, <2>3
<1>4. /\ Fields' /\ Entries' /\ Requests' /\ MmWaits' /\ AtDispatch'
      /\ \A r \in Procs \ {MM} : /\ InUse(r) <=> InUse(r)'
                                 /\ Live(r) <=> Live(r)'
                                 /\ Ending(r) <=> Ending(r)'
  BY <1>2, <1>3, MmSendFrame
<1>5. \A r \in Procs : Childless(r) => Childless(r)'
  BY <1>2, <1>4, Constants DEF Childless
<1>6. \/ mm_pc \notin {"orphans", "cleanup_exit", "free_exit"}
      \/ (mm_pc = "cleanup_exit" /\ mm_pc' = "free_exit")
  BY DEF Birth, SendReply, Cleanup, At
<1>7. Tree'
  BY <1>1, <1>2, <1>4, <1>6, Constants DEF Tree
<1>8. AtWork'
  <2>1. CASE Birth \/ SendReply
    <3>1. mm_pc' \in {"reply", "loop"}
      BY <2>1 DEF Birth, SendReply
    <3>2. QED
      BY <3>1 DEF AtWork
  <2>2. CASE Cleanup
    <3>1. \/ mm_pc = "cleanup_wait" /\ mm_pc' = "free_wait"
          \/ mm_pc = "cleanup_exit" /\ mm_pc' = "free_exit"
      BY <2>2 DEF Cleanup, At
    <3>2. mm.proc \in Procs \ {MM} /\ mm' = mm
      BY <1>1, <1>2 DEF MmLocals
    <3>3. QED
      BY <1>1, <1>4, <1>5, <3>1, <3>2 DEF AtWork
  <2>3. QED
    BY <2>1, <2>2
<1>9. QED
  BY <1>4, <1>7, <1>8 DEF TreeInv

\* do_exec: the program is a new one, that is in no call.
LEMMA ExecImageKeepsTree ==
    ASSUME TreeInv, UNCHANGED setting, ExecImage
    PROVE  TreeInv'
<1>1. /\ p_flags[MM] = {} /\ mm_pc = "image" /\ mm_pc' = "reply"
      /\ prog' = [prog EXCEPT ![mm.src] = "user"] /\ call' = [call EXCEPT ![mm.src] = "none"]
      /\ UNCHANGED <<p_flags, p_recvfrom, p_sendto, has_int_msg, q_sending, buf, p_parent, mm>>
  BY DEF ExecImage, At, Running, ipcVars, vars
<1>2. Fields /\ Entries /\ Requests /\ AtWork /\ Tree
  BY DEF TreeInv
<1>3. PICK q \in Procs \ {MM} : q = mm.src
  BY <1>2 DEF Fields
<1>4. Asked(q) /\ call[q] = "EXEC" /\ ~Ending(q) /\ p_flags[q] # {"SENDING"}
  BY <1>1, <1>2, <1>3 DEF AtWork, Asked, Ending
<1>5. /\ prog' \in [Procs -> {"user", "recv", "ret", "spin"}]
      /\ call' \in [Procs -> Calls \cup {"none"}] /\ call'[q] = "none"
      /\ \A r \in Procs \ {q} : prog'[r] = prog[r] /\ call'[r] = call[r]
  BY <1>1, <1>2, <1>3 DEF Fields
<1>6. Fields'
  BY <1>1, <1>2, <1>5 DEF Fields, MmPlaces
<1>7. Entries'
  <2>1. \A r \in Procs : Hanging(r) => r # q /\ Ending(r)' /\ r \in Slots
    BY <1>1, <1>2, <1>4, <1>5 DEF Entries, Ending, Sending
  <2>2. QED
    BY <1>1, <1>2, <1>5, <2>1, Constants DEF Entries, Hanging, Receiving
<1>8. Requests'
  BY <1>1, <1>2, <1>4, <1>5, RequestsFrame
<1>9. MmWaits' /\ AtDispatch' /\ AtWork'
  BY <1>1 DEF MmWaits, AtDispatch, AtWork, Sending, Receiving
<1>10. Tree'
  BY <1>1, <1>2, TreeStays
<1>11. QED
  BY <1>6, <1>7, <1>8, <1>9, <1>10 DEF TreeInv

\* A step of MM that sets or clears WAITING or HANGING of one process, or hands a slot
\* to Init.
LEMMA FlagsFrame ==
    ASSUME TreeInv, Running(MM), NEW q \in Procs \ {MM},
           p_flags' \in [Procs -> SUBSET Flags],
           \A r \in Procs \ {q} : p_flags'[r] = p_flags[r],
           \/ p_flags'[q] = p_flags[q]
           \/ /\ p_flags[q] # {"SENDING"} /\ "FREE_SLOT" \notin p_flags'[q]
              /\ p_flags'[q] \subseteq p_flags[q] \cup {"WAITING", "HANGING"}
              /\ Hanging(q)' => Ending(q) /\ q \in Slots,
           UNCHANGED <<p_recvfrom, p_sendto, has_int_msg, q_sending, buf, prog, call, setting>>,
           p_parent' \in [Procs -> Procs \cup {0}],
           \A r \in Procs :
              p_parent'[r] = p_parent[r] \/ (r \in Slots /\ p_parent'[r] = PID_INIT),
           mm_pc' \in MmPlaces \ {"dispatch"}, mm' \in MmLocals
    PROVE  /\ Fields' /\ Entries' /\ Requests' /\ MmWaits' /\ AtDispatch'
           /\ \A r \in Procs : Ending(r) => Ending(r)'
<1>1. Fields /\ Entries /\ Requests /\ MmWaits
  BY DEF TreeInv
<1>2. Fields'
  BY <1>1 DEF Fields, MmLocals
<1>3. \A r \in Procs : Sending(r)' => Sending(r)
  BY DEF Sending
<1>4. \A r \in Procs : Ending(r) => Ending(r)'
  BY <1>3 DEF Ending
<1>5. Entries'
  <2>1. \A r \in Procs : "FREE_SLOT" \in p_flags'[r] => p_flags'[r] = {"FREE_SLOT"} /\ r \in Slots
    BY <1>1 DEF Entries
  <2>2. \A r \in Procs \ {MM} : Receiving(r)' => p_recvfrom'[r] = MM
    BY <1>1 DEF Entries, Receiving
  <2>3. \A r \in Procs : Hanging(r)' => Ending(r)' /\ r \in Slots
    BY <1>1, <1>4 DEF Entries, Hanging
  <2>4. \A r \in Procs : p_parent'[r] # r /\ (r \notin Slots => p_parent'[r] = 0)
    BY <1>1, Constants DEF Entries
  <2>5. QED
    BY <1>1, <2>1, <2>2, <2>3, <2>4 DEF Entries
<1>6. Requests'
  <2>1. \A r \in Procs \ {MM} : p_flags[r] = {"SENDING"} =>
            /\ p_flags'[r] = p_flags[r] /\ prog'[r] = prog[r]
            /\ call'[r] = call[r] /\ buf'[r] = buf[r]
    OBVIOUS
  <2>2. QED
    BY <1>1, <2>1, RequestsFrame
<1>7. MmWaits' /\ AtDispatch'
  <2>1. p_flags'[MM] = {}
    BY Constants DEF Running
  <2>2. QED
    BY <2>1 DEF MmWaits, AtDispatch, Sending, Receiving
<1>8. QED
  BY <1>2, <1>4, <1>5, <1>6, <1>7

\* do_wait marks the caller, at once or by a load and a store.
LEMMA WaitBlockKeepsTree ==
    ASSUME TreeInv, UNCHANGED setting, WaitBlock
    PROVE  TreeInv'
<1>1. Requested("WAIT") /\ OrFlag(buf[MM].source, "WAITING", "loop")
      /\ UNCHANGED <<p_parent, prog, call>>
  BY DEF WaitBlock
<1>2. PICK q \in Procs \ {MM} : q = buf[MM].source
  BY <1>1, AtHand DEF Calls
<1>3. /\ Running(MM) /\ mm_pc = "dispatch" /\ mm \in MmLocals
      /\ Asked(q) /\ Live(q) /\ ~Sending(q)
  BY <1>1, <1>2, AtHand DEF Calls
<1>4. Fields /\ Entries /\ Tree
  BY DEF TreeInv
<1>5. /\ mm' = [mm EXCEPT !.proc = q, !.flags = p_flags[q]]
      /\ UNCHANGED <<p_recvfrom, p_sendto, has_int_msg, q_sending, buf>>
  BY <1>1, <1>2 DEF OrFlag
<1>6. mm' \in MmLocals /\ mm'.proc = q /\ mm'.flags = p_flags[q]
  BY <1>3, <1>4, <1>5 DEF MmLocals, Fields
<1>7. CASE setting.atomic
  <2>1. p_flags' = [p_flags EXCEPT ![q] = @ \cup {"WAITING"}] /\ mm_pc' = "loop"
    BY <1>1, <1>2, <1>7 DEF OrFlag
  <2>2. /\ p_flags' \in [Procs -> SUBSET Flags] /\ p_flags'[q] = p_flags[q] \cup {"WAITING"}
        /\ \A r \in Procs \ {q} : p_flags'[r] = p_flags[r]
    BY <1>4, <2>1 DEF Fields, Flags
  <2>3. /\ p_flags[q] # {"SENDING"} /\ "FREE_SLOT" \notin p_flags'[q]
        /\ p_flags'[q] \subseteq p_flags[q] \cup {"WAITING", "HANGING"} /\ ~Hanging(q)'
    BY <1>3, <2>2 DEF Asked, Hanging
  <2>4. p_parent' \in [Procs -> Procs \cup {0}] /\ \A r \in Procs : p_parent'[r] = p_parent[r]
    BY <1>1, <1>4 DEF Fields
  <2>5. Fields' /\ Entries' /\ Requests' /\ MmWaits' /\ AtDispatch'
    BY <1>1, <1>3, <1>5, <1>6, <2>1, <2>2, <2>3, <2>4, FlagsFrame DEF MmPlaces
  <2>6. \A r \in Procs : (InUse(r) <=> InUse(r)') /\ (Live(r) <=> Live(r)')
    BY <1>3, <2>2, <2>3 DEF Live, InUse, Hanging
  <2>7. AtWork' /\ Tree'
    BY <1>1, <1>3, <1>4, <2>1, <2>6, Constants DEF AtWork, Tree
  <2>8. QED
    BY <2>5, <2>7 DEF TreeInv
<1>8. CASE ~setting.atomic
  <2>1. p_flags' = p_flags /\ mm_pc' = "WAITING"
    BY <1>1, <1>8 DEF OrFlag
  <2>2. p_flags' \in [Procs -> SUBSET Flags] /\ \A r \in Procs : p_flags'[r] = p_flags[r]
    BY <1>4, <2>1 DEF Fields
  <2>3. p_parent' \in [Procs -> Procs \cup {0}] /\ \A r \in Procs : p_parent'[r] = p_parent[r]
    BY <1>1, <1>4 DEF Fields
  <2>4. Fields' /\ Entries' /\ Requests' /\ MmWaits' /\ AtDispatch'
    BY <1>1, <1>3, <1>5, <1>6, <2>1, <2>2, <2>3, FlagsFrame DEF MmPlaces
  <2>5. AtWork' /\ Tree'
    BY <1>1, <1>3, <1>4, <1>6, <2>1, TreeStays DEF AtWork, Asked
  <2>6. QED
    BY <2>4, <2>5 DEF TreeInv
<1>9. QED
  BY <1>7, <1>8

\* Who calls exit and has nobody waiting for it becomes a zombie; its children are the
\* ones the loop has still to come to.
LEMMA HangKeepsTree ==
    ASSUME TreeInv, Running(MM), mm_pc \in {"exit", "HANGING"}, mm_pc' = "orphans",
           p_flags' \in [Procs -> SUBSET Flags],
           p_flags'[mm.src] \subseteq p_flags[mm.src] \cup {"HANGING"},
           \A r \in Procs \ {mm.src} : p_flags'[r] = p_flags[r],
           UNCHANGED <<p_recvfrom, p_sendto, has_int_msg, q_sending, buf,
                       p_parent, prog, call, setting>>,
           mm' \in MmLocals, mm'.src = mm.src, mm'.next = mm.next
    PROVE  TreeInv'
<1>1. Fields /\ Entries /\ AtWork /\ Tree
  BY DEF TreeInv
<1>2. PICK q \in Procs \ {MM} : q = mm.src
  BY <1>1 DEF Fields
<1>3. Asked(q) /\ call[q] = "EXIT" /\ mm.next = 0
  BY <1>1, <1>2 DEF AtWork
<1>4. q \in Slots /\ Ending(q) /\ p_flags[q] # {"SENDING"} /\ Live(q)
  BY <1>1, <1>3, Constants DEF Asked, Ending, Entries, Sending, Live, InUse, Hanging
<1>5. "FREE_SLOT" \notin p_flags'[q]
  BY <1>2, <1>3 DEF Asked
<1>6. p_parent' \in [Procs -> Procs \cup {0}] /\ \A r \in Procs : p_parent'[r] = p_parent[r]
  BY <1>1 DEF Fields
<1>7. Fields' /\ Entries' /\ Requests' /\ MmWaits' /\ AtDispatch'
  BY <1>2, <1>4, <1>5, <1>6, FlagsFrame DEF MmPlaces
<1>8. \A r \in Procs : InUse(r)' => InUse(r)
  BY <1>2, <1>4 DEF InUse, Live
<1>9. \A r \in Procs : Live(r) => Live(r)' \/ r = q
  BY <1>2 DEF Live, InUse, Hanging
<1>10. \A s \in Slots : s >= mm'.next
  BY <1>3, Constants
<1>11. Tree'
  BY <1>1, <1>2, <1>6, <1>8, <1>9, <1>10, Constants DEF Tree
<1>12. QED
  BY <1>7, <1>11 DEF TreeInv, AtWork

\* do_exit marks the process a zombie, at once or by a load and a store.
LEMMA ExitHangKeepsTree ==
    ASSUME TreeInv, UNCHANGED setting, ExitHang
    PROVE  TreeInv'
<1>1. Running(MM) /\ mm_pc = "exit" /\ OrFlag(mm.src, "HANGING", "orphans")
      /\ UNCHANGED <<p_parent, prog, call>>
  BY DEF ExitHang, At
<1>2. Fields /\ Entries /\ AtWork /\ Tree /\ mm \in MmLocals
  BY DEF TreeInv, Fields, MmLocals
<1>3. PICK q \in Procs \ {MM} : q = mm.src
  BY <1>2 DEF MmLocals
<1>4. Asked(q) /\ call[q] = "EXIT" /\ mm.next = 0
  BY <1>1, <1>2, <1>3 DEF AtWork
<1>5. /\ mm' = [mm EXCEPT !.proc = q, !.flags = p_flags[q]]
      /\ UNCHANGED <<p_recvfrom, p_sendto, has_int_msg, q_sending, buf>>
  BY <1>1, <1>3 DEF OrFlag
<1>6. /\ mm' \in MmLocals /\ mm'.proc = q /\ mm'.flags = p_flags[q]
      /\ mm'.src = q /\ mm'.next = mm.next
  BY <1>2, <1>3, <1>5 DEF MmLocals, Fields
<1>7. CASE setting.atomic
  <2>1. p_flags' = [p_flags EXCEPT ![q] = @ \cup {"HANGING"}] /\ mm_pc' = "orphans"
    BY <1>1, <1>3, <1>7 DEF OrFlag
  <2>2. /\ p_flags' \in [Procs -> SUBSET Flags] /\ p_flags'[q] = p_flags[q] \cup {"HANGING"}
        /\ \A r \in Procs \ {q} : p_flags'[r] = p_flags[r]
    BY <1>2, <2>1 DEF Fields, Flags
  <2>3. QED
    BY <1>1, <1>3, <1>5, <1>6, <2>1, <2>2, HangKeepsTree
<1>8. CASE ~setting.atomic
  <2>1. p_flags' = p_flags /\ mm_pc' = "HANGING"
    BY <1>1, <1>8 DEF OrFlag
  <2>2. p_flags' \in [Procs -> SUBSET Flags] /\ \A r \in Procs : p_flags'[r] = p_flags[r]
    BY <1>2, <2>1 DEF Fields
  <2>3. p_parent' \in [Procs -> Procs \cup {0}] /\ \A r \in Procs : p_parent'[r] = p_parent[r]
    BY <1>1, <1>2 DEF Fields
  <2>4. Fields' /\ Entries' /\ Requests' /\ MmWaits' /\ AtDispatch'
    BY <1>1, <1>5, <1>6, <2>1, <2>2, <2>3, FlagsFrame DEF MmPlaces
  <2>5. AtWork' /\ Tree'
    BY <1>1, <1>2, <1>4, <1>6, <2>1, TreeStays DEF AtWork, Asked
  <2>6. QED
    BY <2>4, <2>5 DEF TreeInv
<1>9. QED
  BY <1>7, <1>8

\* The store of flags loaded before: they may have changed since, but only by
\* a RECEIVE of the process.
LEMMA StoreKeepsTree ==
    ASSUME TreeInv, UNCHANGED setting, StoreFlags
    PROVE  TreeInv'
<1>1. /\ Running(MM)
      /\ (mm_pc = "WAITING" /\ mm_pc' = "loop") \/ (mm_pc = "HANGING" /\ mm_pc' = "orphans")
      /\ p_flags' = [p_flags EXCEPT ![mm.proc] = mm.flags \cup {mm_pc}]
      /\ UNCHANGED <<p_recvfrom, p_sendto, has_int_msg, q_sending, buf, p_parent, prog, call, mm>>
  BY DEF StoreFlags, At
<1>2. Fields /\ Entries /\ AtWork /\ Tree /\ mm \in MmLocals
  BY DEF TreeInv, Fields, MmLocals
<1>3. PICK q \in Procs \ {MM} : q = mm.proc
  BY <1>2 DEF MmLocals
<1>4. mm.flags \in SUBSET Flags /\ mm.flags \subseteq p_flags[q] /\ Asked(q)
  BY <1>1, <1>2, <1>3 DEF AtWork, MmLocals
<1>5. /\ p_flags' \in [Procs -> SUBSET Flags] /\ p_flags'[q] = mm.flags \cup {mm_pc}
      /\ \A r \in Procs \ {q} : p_flags'[r] = p_flags[r]
  BY <1>1, <1>2, <1>3, <1>4 DEF Fields, Flags
<1>6. CASE mm_pc = "WAITING"
  <2>1. mm_pc' = "loop"
    BY <1>1, <1>6
  <2>2. /\ p_flags[q] # {"SENDING"} /\ "FREE_SLOT" \notin p_flags'[q] /\ Live(q)
        /\ p_flags'[q] \subseteq p_flags[q] \cup {"WAITING", "HANGING"} /\ ~Hanging(q)'
    BY <1>4, <1>5, <1>6 DEF Asked, Hanging, Live, InUse
  <2>3. p_parent' \in [Procs -> Procs \cup {0}] /\ \A r \in Procs : p_parent'[r] = p_parent[r]
    BY <1>1, <1>2 DEF Fields
  <2>4. Fields' /\ Entries' /\ Requests' /\ MmWaits' /\ AtDispatch'
    BY <1>1, <1>2, <1>5, <2>1, <2>2, <2>3, FlagsFrame DEF MmPlaces
  <2>5. \A r \in Procs : (InUse(r) <=> InUse(r)') /\ (Live(r) <=> Live(r)')
    BY <1>5, <2>2 DEF Live, InUse, Hanging
  <2>6. AtWork' /\ Tree'
    BY <1>1, <1>2, <1>6, <2>1, <2>5, Constants DEF AtWork, Tree
  <2>7. QED
    BY <2>4, <2>6 DEF TreeInv
<1>7. CASE mm_pc = "HANGING"
  <2>1. mm_pc' = "orphans" /\ mm.proc = mm.src
    BY <1>1, <1>2, <1>7 DEF AtWork
  <2>2. p_flags'[q] \subseteq p_flags[q] \cup {"HANGING"}
    BY <1>4, <1>5, <1>7
  <2>3. QED
    BY <1>1, <1>2, <1>3, <1>5, <1>7, <2>1, <2>2, HangKeepsTree
<1>8. QED
  BY <1>1, <1>6, <1>7

\* do_exit clears WAITING of the parent: the process is to be freed.
LEMMA ExitWaitedKeepsTree ==
    ASSUME TreeInv, UNCHANGED setting, ExitWaited
    PROVE  TreeInv'
<1>1. /\ Running(MM) /\ mm_pc = "exit" /\ mm_pc' = "cleanup_exit" /\ Waiting(p_parent[mm.src])
      /\ p_flags' = [p_flags EXCEPT ![p_parent[mm.src]] = @ \ {"WAITING"}]
      /\ mm' = [mm EXCEPT !.proc = mm.src]
      /\ UNCHANGED <<p_recvfrom, p_sendto, has_int_msg, q_sending, buf, p_parent, prog, call>>
  BY DEF ExitWaited, At
<1>2. Fields /\ Entries /\ AtWork /\ Tree /\ mm \in MmLocals
  BY DEF TreeInv, Fields, MmLocals
<1>3. PICK c \in Procs \ {MM} : c = mm.src
  BY <1>2 DEF MmLocals
<1>4. Asked(c) /\ call[c] = "EXIT" /\ mm.next = 0
  BY <1>1, <1>2, <1>3 DEF AtWork
<1>5. c \in Slots /\ Ending(c) /\ InUse(c)
  BY <1>2, <1>4, Constants DEF Asked, Ending, Entries, Sending, InUse
<1>6. PICK q \in Procs \ {MM} : q = p_parent[c] /\ q # c
  BY <1>1, <1>2, <1>5, Constants DEF Tree, Entries
<1>7. /\ p_flags' \in [Procs -> SUBSET Flags] /\ p_flags'[q] = p_flags[q] \ {"WAITING"}
      /\ \A r \in Procs \ {q} : p_flags'[r] = p_flags[r]
  BY <1>1, <1>2, <1>3, <1>6 DEF Fields
<1>8. /\ p_flags[q] # {"SENDING"} /\ "FREE_SLOT" \notin p_flags[q]
      /\ (Hanging(q) <=> Hanging(q)') /\ (Hanging(q) => Ending(q) /\ q \in Slots)
  BY <1>1, <1>2, <1>3, <1>6, <1>7 DEF Entries, Waiting, Hanging
<1>9. mm' \in MmLocals /\ mm'.src = c /\ mm'.proc = c /\ mm'.next = mm.next
  BY <1>1, <1>2, <1>3 DEF MmLocals
<1>10. p_parent' \in [Procs -> Procs \cup {0}] /\ \A r \in Procs : p_parent'[r] = p_parent[r]
  BY <1>1, <1>2 DEF Fields
<1>11. /\ Fields' /\ Entries' /\ Requests' /\ MmWaits' /\ AtDispatch'
       /\ \A r \in Procs : Ending(r) => Ending(r)'
  BY <1>1, <1>7, <1>8, <1>9, <1>10, FlagsFrame DEF MmPlaces
<1>12. \A r \in Procs : (InUse(r) <=> InUse(r)') /\ (Live(r) <=> Live(r)')
  BY <1>7, <1>8 DEF Live, InUse, Hanging
<1>13. AtWork'
  BY <1>1, <1>4, <1>5, <1>9, <1>11, <1>12 DEF AtWork
<1>14. Tree'
  BY <1>1, <1>2, <1>10, <1>12, Constants DEF Tree
<1>15. QED
  BY <1>11, <1>13, <1>14 DEF TreeInv

\* cleanup() frees the slot of a process that exits: nobody in use has it as a parent,
\* unless it is the one whose children the loop has still to come to.
LEMMA FreeSlotKeepsTree ==
    ASSUME TreeInv, UNCHANGED setting, FreeSlot
    PROVE  TreeInv'
<1>1. /\ p_flags[MM] = {}
      /\ \/ mm_pc = "free_wait" /\ mm_pc' = "loop"
         \/ mm_pc = "free_exit" /\ mm_pc' = "orphans"
      /\ p_flags' = [p_flags EXCEPT ![mm.proc] = {"FREE_SLOT"}]
      /\ prog' = [prog EXCEPT ![mm.proc] = "user"] /\ call' = [call EXCEPT ![mm.proc] = "none"]
      /\ buf' = [buf EXCEPT ![mm.proc] = Cleared(mm.proc)]
      /\ UNCHANGED <<p_recvfrom, p_sendto, has_int_msg, q_sending, p_parent, mm>>
  BY DEF FreeSlot, At, Running
<1>2. Fields /\ Entries /\ Requests /\ AtWork /\ Tree
  BY DEF TreeInv
<1>3. PICK z \in Procs \ {MM} : z = mm.proc
  BY <1>2 DEF Fields
<1>4. /\ z \in Slots /\ z # PID_INIT /\ p_flags[z] # {"SENDING"} /\ MM \in Procs
      /\ (mm_pc = "free_wait" => Childless(z))
      /\ (mm_pc = "free_exit" => (z = mm.src /\ mm.next = 0) \/ Childless(z))
  BY <1>1, <1>2, <1>3, Constants DEF AtWork, Ending, Sending
<1>5. /\ p_flags' \in [Procs -> SUBSET Flags] /\ p_flags'[z] = {"FREE_SLOT"}
      /\ \A r \in Procs \ {z} : p_flags'[r] = p_flags[r]
  BY <1>1, <1>2, <1>3 DEF Fields, Flags
<1>6. /\ prog' \in [Procs -> {"user", "recv", "ret", "spin"}]
      /\ call' \in [Procs -> Calls \cup {"none"}]
      /\ \A r \in Procs \ {z} : prog'[r] = prog[r] /\ call'[r] = call[r]
  BY <1>1, <1>2, <1>3 DEF Fields
<1>7. /\ buf' \in [Procs -> [source : Procs, body : MmBodies]]
      /\ \A r \in Procs \ {z} : buf'[r] = buf[r]
  BY <1>1, <1>2, <1>3, Constants DEF Fields, Cleared
<1>8. Fields'
  BY <1>1, <1>2, <1>5, <1>6, <1>7 DEF Fields, MmPlaces
<1>9. Entries'
  <2>1. \A r \in Procs : "FREE_SLOT" \in p_flags'[r] => p_flags'[r] = {"FREE_SLOT"} /\ r \in Slots
    BY <1>2, <1>4, <1>5 DEF Entries
  <2>2. \A r \in Procs \ {MM} : Receiving(r)' => p_recvfrom'[r] = MM
    BY <1>1, <1>2, <1>5 DEF Entries, Receiving
  <2>3. \A r \in Procs : Hanging(r)' => Ending(r)' /\ r \in Slots
    BY <1>2, <1>5, <1>6 DEF Entries, Hanging, Ending, Sending
  <2>4. QED
    BY <1>1, <1>2, <1>4, <1>6, <2>1, <2>2, <2>3, Constants DEF Entries
<1>10. Requests'
  <2>1. \A r \in Procs \ {MM} : p_flags[r] = {"SENDING"} =>
            /\ p_flags'[r] = p_flags[r] /\ prog'[r] = prog[r]
            /\ call'[r] = call[r] /\ buf'[r] = buf[r]
    BY <1>4, <1>5, <1>6, <1>7
  <2>2. QED
    BY <1>1, <1>2, <2>1, RequestsFrame
<1>11. MmWaits' /\ AtDispatch' /\ AtWork'
  <2>1. p_flags'[MM] = {} /\ mm_pc' \in {"loop", "orphans"}
    BY <1>1, <1>4, <1>5
  <2>2. QED
    BY <2>1 DEF MmWaits, AtDispatch, AtWork, Sending, Receiving
<1>12. Tree'
  <2>1. \A r \in Procs : (InUse(r)' => InUse(r)) /\ (Live(r) => Live(r)' \/ r = z)
    BY <1>5 DEF InUse, Live, Hanging
  <2>2. \A s \in Slots : InUse(s) /\ p_parent[s] = z =>
            mm_pc = "free_exit" /\ z = mm.src /\ s >= mm.next
    <3>1. \A s \in Slots : s >= 0
      BY Constants
    <3>2. QED
      BY <1>1, <1>4, <3>1 DEF Childless
  <2>3. QED
    BY <1>1, <1>2, <2>1, <2>2, Constants DEF Tree
<1>13. QED
  BY <1>8, <1>9, <1>10, <1>11, <1>12 DEF TreeInv

\* do_exit's loop hands the next child to Init; a zombie whose new parent waits is freed.
LEMMA AdoptKeepsTree ==
    ASSUME TreeInv, UNCHANGED setting, Adopt
    PROVE  TreeInv'
<1>1. /\ Running(MM) /\ mm_pc = "orphans" /\ Orphans # {}
      /\ UNCHANGED <<p_recvfrom, p_sendto, has_int_msg, q_sending, buf, prog, call>>
  BY DEF Adopt, At
<1>2. PICK s \in {Min(Orphans)} :
         /\ p_parent' = [p_parent EXCEPT ![s] = PID_INIT]
         /\ mm' = [mm EXCEPT !.next = s + 1, !.proc = s]
         /\ IF p_flags[PID_INIT] = {"WAITING"} /\ p_flags[s] = {"HANGING"}
            THEN /\ p_flags' = [p_flags EXCEPT ![s] = @ \ {"HANGING"}]
                 /\ mm_pc' = "cleanup_exit"
            ELSE UNCHANGED <<p_flags, mm_pc>>
  BY DEF Adopt
<1>3. Fields /\ Entries /\ Tree /\ mm \in MmLocals
  BY DEF TreeInv, Fields, MmLocals
<1>4. PICK src \in Procs \ {MM}, n \in Nat : src = mm.src /\ n = mm.next
  BY <1>3 DEF MmLocals
<1>5. /\ s \in Procs /\ s \in Nat /\ p_parent[s] = src /\ s >= n
      /\ \A k \in Procs : p_parent[k] = src /\ k >= n => s <= k
  <2>1. Orphans \in SUBSET Nat
    BY Constants DEF Orphans, Children
  <2>2. s \in Orphans /\ \A k \in Orphans : s <= k
    BY <1>1, <1>2, <2>1, First
  <2>3. QED
    BY <1>4, <2>2, Constants DEF Orphans, Children
<1>6. s \in Slots /\ s \in Procs \ {MM} /\ s # PID_INIT /\ s # src
  BY <1>3, <1>4, <1>5, Constants DEF Entries
<1>7. /\ p_parent' \in [Procs -> Procs \cup {0}] /\ p_parent'[s] = PID_INIT
      /\ \A r \in Procs \ {s} : p_parent'[r] = p_parent[r]
  BY <1>2, <1>3, <1>5, Constants DEF Fields
<1>8. mm' \in MmLocals /\ mm'.src = src /\ mm'.next = s + 1 /\ mm'.proc = s
  <2>1. s + 1 \in Nat
    BY <1>5
  <2>2. QED
    BY <1>2, <1>3, <1>4, <1>6, <2>1 DEF MmLocals
<1>9. \A t \in Slots \ {s} : p_parent[t] = src /\ t >= n => t >= s + 1
  <2> TAKE t \in Slots \ {s}
  <2>1. t \in Nat /\ t \in Procs
    BY Constants
  <2>2. p_parent[t] = src /\ t >= n => s <= t
    BY <1>5, <2>1
  <2>3. QED
    BY <1>5, <2>1, <2>2
<1>10. CASE p_flags[PID_INIT] = {"WAITING"} /\ p_flags[s] = {"HANGING"}
  <2>1. p_flags' = [p_flags EXCEPT ![s] = @ \ {"HANGING"}] /\ mm_pc' = "cleanup_exit"
    BY <1>2, <1>10
  <2>2. /\ p_flags' \in [Procs -> SUBSET Flags] /\ p_flags'[s] = {}
        /\ \A r \in Procs \ {s} : p_flags'[r] = p_flags[r]
    BY <1>3, <1>5, <1>10, <2>1 DEF Fields
  <2>3. /\ Fields' /\ Entries' /\ Requests' /\ MmWaits' /\ AtDispatch'
        /\ \A r \in Procs : Ending(r) => Ending(r)'
    BY <1>1, <1>6, <1>7, <1>8, <1>10, <2>1, <2>2, FlagsFrame DEF MmPlaces, Hanging
  <2>4. \A r \in Procs : (InUse(r) <=> InUse(r)') /\ (Live(r) => Live(r)')
    BY <1>10, <2>2 DEF InUse, Live, Hanging
  <2>5. Ending(s)' /\ InUse(s)'
    BY <1>3, <1>5, <1>10, <2>2, <2>3 DEF Entries, Hanging, InUse
  <2>6. Childless(s)'
    <3>1. \A t \in Slots : InUse(t) => p_parent[t] # s
      BY <1>3, <1>4, <1>6, <1>10 DEF Tree, Live, Hanging
    <3>2. QED
      BY <1>6, <1>7, <2>4, <3>1, Constants DEF Childless
  <2>7. AtWork'
    BY <1>6, <1>8, <2>1, <2>5, <2>6 DEF AtWork
  <2>8. Tree'
    BY <1>1, <1>3, <1>4, <1>7, <1>8, <1>9, <2>1, <2>4, Constants DEF Tree
  <2>9. QED
    BY <2>3, <2>7, <2>8 DEF TreeInv
<1>11. CASE ~(p_flags[PID_INIT] = {"WAITING"} /\ p_flags[s] = {"HANGING"})
  <2>1. p_flags' = p_flags /\ mm_pc' = "orphans"
    BY <1>1, <1>2, <1>11
  <2>2. p_flags' \in [Procs -> SUBSET Flags] /\ \A r \in Procs : p_flags'[r] = p_flags[r]
    BY <1>3, <2>1 DEF Fields
  <2>3. Fields' /\ Entries' /\ Requests' /\ MmWaits' /\ AtDispatch'
    BY <1>1, <1>6, <1>7, <1>8, <2>1, <2>2, FlagsFrame DEF MmPlaces
  <2>4. \A r \in Procs : (InUse(r) <=> InUse(r)') /\ (Live(r) => Live(r)')
    BY <2>2 DEF InUse, Live, Hanging
  <2>5. AtWork'
    BY <2>1 DEF AtWork
  <2>6. Tree'
    BY <1>1, <1>3, <1>4, <1>7, <1>8, <1>9, <2>1, <2>4, Constants DEF Tree
  <2>7. QED
    BY <2>3, <2>5, <2>6 DEF TreeInv
<1>12. QED
  BY <1>10, <1>11

\* Every step of a program or of MM keeps the invariant.
LEMMA TreeNext == TreeInv /\ [MmNext]_allVars => TreeInv'
<1> SUFFICES ASSUME TreeInv, [MmNext]_allVars PROVE TreeInv'
  OBVIOUS
<1>1. CASE MmNext
  <2>1. UNCHANGED setting /\ setting \in Settings
    BY <1>1 DEF MmNext, TreeInv, Fields
  <2>2. \A q \in Procs : setting.calls[q] \subseteq Calls
    BY <2>1, MmAssumption DEF Calls
  <2>3. ASSUME NEW q \in Procs \ {MM}, NEW c \in setting.calls[q], Call(q, c)
        PROVE  TreeInv'
    BY <2>1, <2>2, <2>3, CallKeepsTree
  <2>4. ASSUME NEW q \in Procs \ {MM}, Await(q) \/ Return(q)
        PROVE  TreeInv'
    BY <2>1, <2>4, AwaitKeepsTree, ReturnKeepsTree
  <2>5. CASE MmStep
    BY <2>1, <2>5, LoopKeepsTree, ReceiveKeepsTree, SilentKeepsTree, ForkKeepsTree,
       SendsKeepTree, ExecImageKeepsTree, WaitBlockKeepsTree, ExitHangKeepsTree,
       StoreKeepsTree, ExitWaitedKeepsTree, FreeSlotKeepsTree, AdoptKeepsTree DEF MmStep
  <2>6. QED
    BY <1>1, <2>3, <2>4, <2>5 DEF MmNext
<1>2. CASE UNCHANGED allVars
  <2>1. /\ UNCHANGED <<p_flags, p_msg, p_recvfrom, p_sendto, has_int_msg, q_sending, buf>>
        /\ UNCHANGED <<p_parent, prog, call, mm_pc, mm, setting>>
    BY <1>2 DEF allVars, ipcVars, mmVars, vars
  <2>2. Fields' /\ Entries' /\ Requests' /\ MmWaits'
    BY <2>1 DEF TreeInv, Fields, Entries, Requests, MmWaits, Receiving, Hanging, Ending, Sending
  <2>3. AtDispatch' /\ AtWork' /\ Tree'
    BY <2>1 DEF TreeInv, AtDispatch, AtWork, Tree, Running, Asked, Ending, Sending, Childless,
       Live, InUse, Hanging
  <2>4. QED
    BY <2>2, <2>3 DEF TreeInv
<1>3. QED
  BY <1>1, <1>2

\* The inductive invariant holds in every state, whatever programs call and wherever MM's
\* updates of p_flags are interrupted.
THEOREM TreeInvariant == MmSpec => []TreeInv
BY TreeInit, TreeNext, PTL DEF MmSpec

\* do_fork and do_exit keep the tree of processes rooted in Init: between two requests,
\* every process in use is a child of Init or of a process in use that has not exited.
THEOREM ProcessTree == MmSpec => []LiveTree
<1>1. TreeInv => LiveTree
  BY DEF TreeInv, Tree, LiveTree, InUse, Live
<1>2. QED
  BY TreeInvariant, <1>1, PTL

(***************************************************************************)
(* The inductive invariant behind KernelSound, as long as MM's updates of  *)
(* p_flags are not interrupted and nobody calls exec: the fields of every  *)
(* entry agree, only MM and its callers are queued, and whom MM answers    *)
(* waits for it.                                                           *)
(***************************************************************************)
Settled ==
    /\ \A q \in Procs : call[q] # "EXEC"
    /\ mm_pc \notin {"image", "WAITING", "HANGING"}

\* The message fields of an entry agree with its flags, though MM adds flags of its own.
EntryShape(q) ==
    /\ p_msg[q] <=> Sending(q) \/ Receiving(q)
    /\ p_sendto[q] # NO_TASK <=> Sending(q)
    /\ p_recvfrom[q] # NO_TASK <=> Receiving(q)

Shapes == p_msg \in [Procs -> BOOLEAN] /\ \A q \in Procs : InUse(q) => EntryShape(q)

\* Calls are queued for MM, and MM for at most one process, which is about to receive.
Senders ==
    /\ \A q \in Procs \ {MM} : Sending(q) =>
          p_sendto[q] = MM /\ \E i \in 1..Len(q_sending[MM]) : q_sending[MM][i] = q
    /\ \A d \in Procs \ {MM} :
          q_sending[d] = IF Sending(MM) /\ p_sendto[MM] = d THEN <<MM>> ELSE << >>
    /\ Sending(MM) =>
          /\ p_sendto[MM] \in Procs \ {MM} /\ prog[p_sendto[MM]] = "recv"
          /\ p_flags[p_sendto[MM]] \in {{}, {"WAITING"}}

\* Who waits for a child is about to receive the answer, or does.
Waits(q) ==
    \/ (prog[q] = "recv" /\ p_flags[q] = {"WAITING"})
    \/ (prog[q] = "ret" /\ p_flags[q] = {"WAITING", "RECEIVING"})
Waiters == \A q \in Procs : Waiting(q) => Waits(q)

\* Init is the one process that can be WAITING still when it is told of a zombie.
Expects(q) == Asked(q) \/ (prog[q] = "recv" /\ p_flags[q] = {"WAITING"})
Answering ==
    /\ mm_pc \in {"fs_fork", "birth"} => Asked(mm.src) /\ Asked(mm.proc) /\ mm.src # mm.proc
    /\ mm_pc = "reply" => Asked(mm.src) /\ (Sending(MM) => p_sendto[MM] # mm.src)
    /\ mm_pc = "cleanup_wait" => Expects(p_parent[mm.proc])
    /\ mm_pc = "cleanup_exit" => Expects(p_parent[mm.proc])

SoundInv == Settled /\ Shapes /\ Senders /\ Waiters /\ Answering /\ halted = FALSE

\* Nothing is wrong with the process table when MM starts.
LEMMA SoundInit == MmInit => SoundInv
<1> SUFFICES ASSUME MmInit PROVE SoundInv
  OBVIOUS
<1>1. Settled /\ halted = FALSE /\ Answering
  BY DEF MmInit, Settled, Answering
<1>2. Shapes
  BY DEF MmInit, Shapes, EntryShape, InUse, Sending, Receiving
<1>3. Senders /\ Waiters
  BY Constants DEF MmInit, Senders, Waiters, Sending, Waiting
<1>4. QED
  BY <1>1, <1>2, <1>3 DEF SoundInv

\* The entry of a process that is left alone.
LEMMA EntryFrame ==
    ASSUME NEW r \in Procs, InUse(r) => EntryShape(r), p_flags'[r] = p_flags[r],
           p_msg'[r] = p_msg[r], p_sendto'[r] = p_sendto[r], p_recvfrom'[r] = p_recvfrom[r]
    PROVE  (InUse(r) => EntryShape(r))'
BY DEF InUse, EntryShape, Sending, Receiving

\* The entry of a runnable process.
LEMMA EntryOf ==
    ASSUME Fields, Entries, Shapes, NEW q \in Procs, Running(q)
    PROVE  /\ InUse(q) /\ EntryShape(q) /\ ~Sending(q) /\ ~Receiving(q) /\ ~Waiting(q)
           /\ p_msg[q] = FALSE /\ p_sendto[q] = NO_TASK /\ p_recvfrom[q] = NO_TASK
<1>1. p_flags[q] = {} /\ InUse(q) /\ p_msg[q] \in BOOLEAN
  BY DEF Running, InUse, Shapes
<1>2. EntryShape(q)
  BY <1>1 DEF Shapes
<1>3. QED
  BY <1>1, <1>2 DEF EntryShape, Sending, Receiving, Waiting

\* A step of MM, while it runs, that leaves the queues alone and lets nobody send.
LEMMA SendersFrame ==
    ASSUME Senders, Running(MM), Running(MM)', UNCHANGED <<q_sending, p_sendto>>,
           \A r \in Procs \ {MM} : Sending(r)' => Sending(r)
    PROVE  Senders'
<1>1. ~Sending(MM) /\ ~Sending(MM)'
  BY DEF Running, Sending
<1>2. QED
  BY <1>1 DEF Senders

\* deadlock() finds nothing when its walk ends at dest, or at the next process.
LEMMA NoDeadlock ==
    ASSUME NEW src \in Procs, NEW dest \in Procs, src # dest,
           Sending(dest) => p_sendto[dest] \in Procs \ {src} /\ ~Sending(p_sendto[dest])
    PROVE  ~deadlock(src, dest)
<1>1. CASE Sending(dest)
  <2>1. PICK T \in {{dest, p_sendto[dest]}} : TRUE
    OBVIOUS
  <2>2. T \in SUBSET Procs /\ dest \in T /\ ClosedUnderSendto(T) /\ src \notin T
    BY <1>1, <2>1 DEF ClosedUnderSendto
  <2>3. QED
    BY <2>2 DEF deadlock
<1>2. CASE ~Sending(dest)
  <2>1. {dest} \in SUBSET Procs /\ ClosedUnderSendto({dest}) /\ src \notin {dest}
    BY <1>2 DEF ClosedUnderSendto
  <2>2. QED
    BY <2>1 DEF deadlock
<1>3. QED
  BY <1>1, <1>2

\* Whom cleanup() tells is a process.
LEMMA ParentOfEnding ==
    ASSUME TreeInv, mm_pc \in {"cleanup_wait", "cleanup_exit"}
    PROVE  p_parent[mm.proc] \in Procs \ {MM}
<1>1. mm.proc \in Slots /\ InUse(mm.proc) /\ mm.src \in Procs \ {MM}
  BY DEF TreeInv, AtWork, Fields
<1>2. QED
  BY <1>1, Constants DEF TreeInv, Tree

\* While programs run, those MM works for go on waiting for it.
LEMMA AnsweringFrame ==
    ASSUME TreeInv, Answering, UNCHANGED <<p_parent, mm_pc, mm>>,
           \A r \in Procs \ {MM} : (Asked(r) => Asked(r)') /\ (Expects(r) => Expects(r)'),
           Sending(MM)' => Sending(MM) /\ p_sendto'[MM] = p_sendto[MM]
    PROVE  Answering'
<1>1. mm.src \in Procs \ {MM} /\ mm.proc \in Procs \ {MM}
  BY DEF TreeInv, Fields
<1>2. mm_pc \in {"cleanup_wait", "cleanup_exit"} => p_parent[mm.proc] \in Procs \ {MM}
  BY ParentOfEnding
<1>3. QED
  BY <1>1, <1>2 DEF Answering

\* A call is queued or delivered, and never closes a circle: whom MM may be sending to
\* is not sending itself.
LEMMA CallKeepsSound ==
    ASSUME TreeInv, SoundInv, UNCHANGED setting,
           NEW q \in Procs \ {MM}, NEW c \in Calls \ {"EXEC"}, Call(q, c)
    PROVE  SoundInv'
<1>1. /\ Running(q) /\ prog[q] = "user" /\ msg_send(q, MM, Request(c))
      /\ prog' = [prog EXCEPT ![q] = "recv"] /\ call' = [call EXCEPT ![q] = c]
      /\ p_parent' = p_parent /\ mm_pc' = mm_pc /\ mm' = mm
  BY DEF Call
<1>2. Fields /\ Entries /\ Settled /\ Shapes /\ Senders /\ Waiters /\ Answering /\ halted = FALSE
  BY DEF TreeInv, SoundInv
<1>3. q \in Procs /\ q # MM /\ MM \in Procs /\ p_flags[q] = {}
  BY <1>1, Constants DEF Running
<1>4. /\ InUse(q) /\ EntryShape(q) /\ ~Sending(q) /\ ~Receiving(q) /\ ~Waiting(q)
      /\ p_msg[q] = FALSE /\ p_sendto[q] = NO_TASK /\ p_recvfrom[q] = NO_TASK
  BY <1>1, <1>2, <1>3, EntryOf
<1>5. /\ prog'[q] = "recv" /\ \A r \in Procs \ {q} : prog'[r] = prog[r]
      /\ call'[q] = c /\ \A r \in Procs \ {q} : call'[r] = call[r]
  BY <1>1, <1>2 DEF Fields
<1>6. Settled'
  BY <1>1, <1>2, <1>5 DEF Settled
<1>7. ~deadlock(q, MM)
  <2>1. Sending(MM) => p_sendto[MM] \in Procs \ {q} /\ ~Sending(p_sendto[MM])
    BY <1>1, <1>2 DEF Senders, Sending
  <2>2. QED
    BY <1>3, <2>1, NoDeadlock
<1>8. MM # NO_TASK
  BY Constants
<1>9. CASE SendDeliver(q, MM, Request(c))
  <2>1. /\ p_flags' = [p_flags EXCEPT ![MM] = @ \ {"RECEIVING"}]
        /\ p_msg' = [p_msg EXCEPT ![MM] = FALSE]
        /\ p_recvfrom' = [p_recvfrom EXCEPT ![MM] = NO_TASK]
        /\ UNCHANGED <<p_sendto, q_sending, halted>> /\ Receiving(MM)
    BY <1>9 DEF SendDeliver, AcceptsFrom
  <2>2. /\ p_flags[MM] = {"RECEIVING"} /\ p_flags'[MM] = {}
        /\ \A r \in Procs \ {MM} : p_flags'[r] = p_flags[r]
    BY <1>2, <1>3, <2>1 DEF Fields, TreeInv, MmWaits, Receiving
  <2>3. /\ p_msg' \in [Procs -> BOOLEAN] /\ p_msg'[MM] = FALSE /\ p_recvfrom'[MM] = NO_TASK
        /\ \A r \in Procs \ {MM} : p_msg'[r] = p_msg[r] /\ p_recvfrom'[r] = p_recvfrom[r]
    BY <1>2, <1>3, <2>1 DEF Fields, Shapes
  <2>4. Shapes'
    <3>1. p_sendto[MM] = NO_TASK
      BY <1>2, <1>3, <2>2 DEF Shapes, EntryShape, InUse, Sending
    <3>2. EntryShape(MM)'
      BY <2>1, <2>2, <2>3, <3>1 DEF EntryShape, Sending, Receiving
    <3>3. \A r \in Procs \ {MM} : (InUse(r) => EntryShape(r))'
      BY <1>2, <2>1, <2>2, <2>3, EntryFrame DEF Shapes
    <3>4. QED
      BY <2>3, <3>2, <3>3 DEF Shapes
  <2>5. ~Sending(MM) /\ ~Sending(MM)'
    BY <2>2 DEF Sending
  <2>6. Senders'
    BY <1>2, <2>1, <2>2, <2>5 DEF Senders, Sending
  <2>7. Waiters'
    BY <1>2, <1>4, <1>5, <2>2 DEF Waiters, Waiting, Waits
  <2>8. \A r \in Procs \ {MM} : (Asked(r) => Asked(r)') /\ (Expects(r) => Expects(r)')
    BY <1>1, <1>5, <2>2 DEF Asked, Expects
  <2>9. Answering'
    BY <1>1, <1>2, <2>5, <2>8, AnsweringFrame
  <2>10. QED
    BY <1>2, <1>6, <2>1, <2>4, <2>6, <2>7, <2>9 DEF SoundInv
<1>10. CASE SendBlock(q, MM, Request(c))
  <2>1. /\ p_flags' = [p_flags EXCEPT ![q] = @ \cup {"SENDING"}]
        /\ p_sendto' = [p_sendto EXCEPT ![q] = MM]
        /\ p_msg' = [p_msg EXCEPT ![q] = TRUE]
        /\ q_sending' = [q_sending EXCEPT ![MM] = Append(@, q)]
        /\ UNCHANGED <<p_recvfrom, halted>>
    BY <1>10 DEF SendBlock
  <2>2. p_flags'[q] = {"SENDING"} /\ \A r \in Procs \ {q} : p_flags'[r] = p_flags[r]
    BY <1>2, <1>3, <2>1 DEF Fields
  <2>3. /\ p_msg' \in [Procs -> BOOLEAN] /\ p_msg'[q] = TRUE /\ p_sendto'[q] = MM
        /\ \A r \in Procs \ {q} : p_msg'[r] = p_msg[r] /\ p_sendto'[r] = p_sendto[r]
    BY <1>2, <1>3, <2>1 DEF Fields, Shapes
  <2>4. Shapes'
    <3>1. EntryShape(q)'
      BY <1>4, <1>8, <2>1, <2>2, <2>3 DEF EntryShape, Sending, Receiving
    <3>2. \A r \in Procs \ {q} : (InUse(r) => EntryShape(r))'
      BY <1>2, <2>1, <2>2, <2>3, EntryFrame DEF Shapes
    <3>3. QED
      BY <2>3, <3>1, <3>2 DEF Shapes
  <2>5. PICK s \in Seq(Procs) : s = q_sending[MM]
    BY <1>2, <1>3 DEF Fields
  <2>6. /\ q_sending'[MM] = Append(s, q) /\ Len(Append(s, q)) = Len(s) + 1 /\ Len(s) \in Nat
        /\ Append(s, q)[Len(s) + 1] = q /\ \A i \in 1..Len(s) : Append(s, q)[i] = s[i]
    BY <1>2, <1>3, <2>1, <2>5, AppendProperties, LenProperties DEF Fields
  <2>7. \A d \in Procs \ {MM} : q_sending'[d] = q_sending[d]
    BY <1>2, <2>1 DEF Fields
  <2>8. (Sending(MM) <=> Sending(MM)') /\ p_sendto'[MM] = p_sendto[MM]
    BY <1>3, <2>2, <2>3 DEF Sending
  <2>9. Senders'
    <3>1. \A r \in Procs \ {MM} : Sending(r)' =>
              p_sendto'[r] = MM /\ \E i \in 1..Len(q_sending'[MM]) : q_sending'[MM][i] = r
      <4> SUFFICES ASSUME NEW r \in Procs \ {MM}, Sending(r)'
                   PROVE  p_sendto'[r] = MM /\ \E i \in 1..Len(q_sending'[MM]) : q_sending'[MM][i] = r
        OBVIOUS
      <4>1. CASE r = q
        BY <2>3, <2>6, <4>1
      <4>2. CASE r # q
        <5>1. Sending(r)
          BY <2>2, <4>2 DEF Sending
        <5>2. PICK i \in 1..Len(s) : s[i] = r
          BY <1>2, <2>5, <5>1 DEF Senders
        <5>3. i \in 1..(Len(s) + 1)
          BY <2>6
        <5>4. p_sendto[r] = MM
          BY <1>2, <5>1 DEF Senders
        <5>5. QED
          BY <2>3, <2>6, <4>2, <5>2, <5>3, <5>4
      <4>3. QED
        BY <4>1, <4>2
    <3>2. \A d \in Procs \ {MM} :
              q_sending'[d] = IF Sending(MM)' /\ p_sendto'[MM] = d THEN <<MM>> ELSE << >>
      BY <1>2, <2>7, <2>8 DEF Senders
    <3>3. Sending(MM)' => /\ p_sendto'[MM] \in Procs \ {MM} /\ prog'[p_sendto'[MM]] = "recv"
                          /\ p_flags'[p_sendto'[MM]] \in {{}, {"WAITING"}}
      BY <1>1, <1>2, <1>5, <2>2, <2>8 DEF Senders
    <3>4. QED
      BY <3>1, <3>2, <3>3 DEF Senders
  <2>10. Waiters'
    BY <1>2, <1>5, <2>2 DEF Waiters, Waiting, Waits
  <2>11. \A r \in Procs \ {MM} : (Asked(r) => Asked(r)') /\ (Expects(r) => Expects(r)')
    BY <1>1, <1>5, <2>2 DEF Asked, Expects
  <2>12. Answering'
    BY <1>1, <1>2, <2>8, <2>11, AnsweringFrame
  <2>13. QED
    BY <1>2, <1>6, <2>1, <2>4, <2>9, <2>10, <2>12 DEF SoundInv
<1>11. QED
  BY <1>1, <1>7, <1>9, <1>10 DEF msg_send, SendPanic

\* The caller takes the answer MM is blocked with, which leaves its queue empty, or blocks
\* for it with its entry in order.
LEMMA AwaitKeepsSound ==
    ASSUME TreeInv, SoundInv, UNCHANGED setting, NEW q \in Procs \ {MM}, Await(q)
    PROVE  SoundInv'
<1>1. /\ Running(q) /\ prog[q] = "recv" /\ msg_receive(q, MM)
      /\ prog' = [prog EXCEPT ![q] = "ret"]
      /\ p_parent' = p_parent /\ call' = call /\ mm_pc' = mm_pc /\ mm' = mm
  BY DEF Await
<1>2. /\ Fields /\ Entries /\ MmWaits
      /\ Settled /\ Shapes /\ Senders /\ Waiters /\ Answering /\ halted = FALSE
  BY DEF TreeInv, SoundInv
<1>3. q \in Procs /\ q # MM /\ MM \in Procs /\ MM # ANY /\ MM # NO_TASK /\ p_flags[q] = {}
  BY <1>1, Constants DEF Running
<1>4. /\ InUse(q) /\ EntryShape(q) /\ ~Sending(q) /\ ~Receiving(q) /\ ~Waiting(q)
      /\ p_msg[q] = FALSE /\ p_sendto[q] = NO_TASK /\ p_recvfrom[q] = NO_TASK
  BY <1>1, <1>2, <1>3, EntryOf
<1>5. prog'[q] = "ret" /\ \A r \in Procs \ {q} : prog'[r] = prog[r]
  BY <1>1, <1>2 DEF Fields
<1>6. Settled'
  BY <1>1, <1>2 DEF Settled
<1>7. ~TakesInterrupt(q, MM)
  BY <1>2, <1>3 DEF TakesInterrupt, Fields
<1>8. CASE ReceiveQueued(q, MM)
  <2>1. Sending(MM) /\ p_sendto[MM] = q
    BY <1>3, <1>8 DEF ReceiveQueued, HasSender
  <2>2. q_sending[q] = <<MM>>
    BY <1>2, <2>1 DEF Senders
  <2>3. PICK i \in 1..Len(q_sending[q]) :
              /\ q_sending[q][i] = MM
              /\ q_sending' = [q_sending EXCEPT ![q] = Unlink(@, i)]
              /\ p_msg' = [p_msg EXCEPT ![MM] = FALSE]
              /\ p_sendto' = [p_sendto EXCEPT ![MM] = NO_TASK]
              /\ p_flags' = [p_flags EXCEPT ![MM] = @ \ {"SENDING"}]
    BY <1>3, <1>8 DEF ReceiveQueued
  <2>4. UNCHANGED <<p_recvfrom, halted>>
    BY <1>8 DEF ReceiveQueued
  <2>5. /\ p_flags[MM] = {"SENDING"} /\ p_flags'[MM] = {}
        /\ \A r \in Procs \ {MM} : p_flags'[r] = p_flags[r]
    BY <1>2, <1>3, <2>1, <2>3 DEF Fields, MmWaits, Sending
  <2>6. /\ p_msg' \in [Procs -> BOOLEAN] /\ p_msg'[MM] = FALSE /\ p_sendto'[MM] = NO_TASK
        /\ \A r \in Procs \ {MM} : p_msg'[r] = p_msg[r] /\ p_sendto'[r] = p_sendto[r]
    BY <1>2, <1>3, <2>3 DEF Fields, Shapes
  <2>7. Unlink(q_sending[q], i) = << >>
    <3>1. PICK s \in Seq(Procs) : s = q_sending[q]
      BY <1>2, <1>3 DEF Fields
    <3>2. Len(s) = 1
      BY <2>2, <3>1
    <3>3. Unlink(s, i) \in Seq(Procs) /\ Len(Unlink(s, i)) = 0
      <4>1. Unlink(s, i) \in Seq(Procs) /\ Len(Unlink(s, i)) = Len(s) - 1
        BY <3>1, UnlinkSeq
      <4>2. QED
        BY <3>2, <4>1
    <3>4. QED
      BY <3>1, <3>3, EmptySeq
  <2>8. q_sending'[q] = << >> /\ \A d \in Procs \ {q} : q_sending'[d] = q_sending[d]
    BY <1>2, <1>3, <2>3, <2>7 DEF Fields
  <2>9. Shapes'
    <3>1. p_recvfrom[MM] = NO_TASK
      BY <1>2, <1>3, <2>5 DEF Shapes, EntryShape, InUse, Receiving
    <3>2. EntryShape(MM)'
      BY <2>4, <2>5, <2>6, <3>1 DEF EntryShape, Sending, Receiving
    <3>3. \A r \in Procs \ {MM} : (InUse(r) => EntryShape(r))'
      BY <1>2, <2>4, <2>5, <2>6, EntryFrame DEF Shapes
    <3>4. QED
      BY <2>6, <3>2, <3>3 DEF Shapes
  <2>10. ~Sending(MM)'
    BY <2>5 DEF Sending
  <2>11. Senders'
    <3>1. \A r \in Procs \ {MM} : Sending(r)' =>
              p_sendto'[r] = MM /\ \E j \in 1..Len(q_sending'[MM]) : q_sending'[MM][j] = r
      BY <1>2, <1>3, <2>5, <2>6, <2>8 DEF Senders, Sending
    <3>2. \A d \in Procs \ {MM} : q_sending'[d] = << >>
      BY <1>2, <2>1, <2>8 DEF Senders
    <3>3. QED
      BY <2>10, <3>1, <3>2 DEF Senders
  <2>12. Waiters'
    BY <1>2, <1>3, <1>4, <1>5, <2>5 DEF Waiters, Waiting, Waits
  <2>13. Answering'
    <3>1. mm_pc \in {"reply", "loop", "free_wait", "free_exit"} /\ mm.src \in Procs \ {MM}
      BY <1>2, <2>1 DEF MmWaits, Fields
    <3>2. ASSUME mm_pc = "reply" PROVE Asked(mm.src)'
      <4>1. PICK r \in Procs \ {MM} : r = mm.src
        BY <3>1
      <4>2. Asked(r) /\ r # q
        BY <1>2, <2>1, <3>2, <4>1 DEF Answering
      <4>3. Asked(r)'
        BY <1>5, <2>5, <4>2 DEF Asked
      <4>4. QED
        BY <1>1, <4>1, <4>3
    <3>3. QED
      BY <1>1, <2>10, <3>1, <3>2 DEF Answering
  <2>14. QED
    BY <1>2, <1>6, <2>4, <2>9, <2>11, <2>12, <2>13 DEF SoundInv
<1>9. CASE ReceiveBlock(q, MM)
  <2>1. /\ p_flags' = [p_flags EXCEPT ![q] = @ \cup {"RECEIVING"}]
        /\ p_msg' = [p_msg EXCEPT ![q] = TRUE]
        /\ p_recvfrom' = [p_recvfrom EXCEPT ![q] = MM]
        /\ UNCHANGED <<p_sendto, q_sending, halted>>
        /\ ~(Sending(MM) /\ p_sendto[MM] = q)
    BY <1>3, <1>9 DEF ReceiveBlock, HasSender
  <2>2. p_flags'[q] = {"RECEIVING"} /\ \A r \in Procs \ {q} : p_flags'[r] = p_flags[r]
    BY <1>2, <1>3, <2>1 DEF Fields
  <2>3. /\ p_msg' \in [Procs -> BOOLEAN] /\ p_msg'[q] = TRUE /\ p_recvfrom'[q] = MM
        /\ \A r \in Procs \ {q} : p_msg'[r] = p_msg[r] /\ p_recvfrom'[r] = p_recvfrom[r]
    BY <1>2, <1>3, <2>1 DEF Fields, Shapes
  <2>4. Shapes'
    <3>1. EntryShape(q)'
      BY <1>3, <1>4, <2>1, <2>2, <2>3 DEF EntryShape, Sending, Receiving
    <3>2. \A r \in Procs \ {q} : (InUse(r) => EntryShape(r))'
      BY <1>2, <2>1, <2>2, <2>3, EntryFrame DEF Shapes
    <3>3. QED
      BY <2>3, <3>1, <3>2 DEF Shapes
  <2>5. Senders'
    <3>1. \A r \in Procs : Sending(r)' <=> Sending(r)
      BY <1>4, <2>2 DEF Sending
    <3>2. QED
      BY <1>2, <1>3, <1>5, <2>1, <2>2, <3>1 DEF Senders
  <2>6. Waiters'
    BY <1>2, <1>5, <2>2 DEF Waiters, Waiting, Waits
  <2>7. \A r \in Procs \ {MM} : (Asked(r) => Asked(r)') /\ (Expects(r) => Expects(r)')
    BY <1>3, <1>5, <2>2 DEF Asked, Expects
  <2>8. (Sending(MM)' => Sending(MM)) /\ p_sendto'[MM] = p_sendto[MM]
    BY <1>3, <2>1, <2>2 DEF Sending
  <2>9. Answering'
    BY <1>1, <1>2, <2>7, <2>8, AnsweringFrame
  <2>10. QED
    BY <1>2, <1>6, <2>1, <2>4, <2>5, <2>6, <2>9 DEF SoundInv
<1>10. QED
  BY <1>1, <1>7, <1>8, <1>9 DEF msg_receive, ReceiveInt

\* A call returns to its program: MM is through with it.
LEMMA ReturnKeepsSound ==
    ASSUME TreeInv, SoundInv, UNCHANGED setting, NEW q \in Procs \ {MM}, Return(q)
    PROVE  SoundInv'
<1>1. /\ Running(q) /\ prog[q] = "ret"
      /\ prog' = [prog EXCEPT ![q] = IF AnswerOK(call[q], buf[q].body) THEN "user" ELSE "spin"]
      /\ call' = [call EXCEPT ![q] = "none"]
      /\ UNCHANGED <<p_flags, p_msg, p_recvfrom, p_sendto, q_sending, halted, p_parent, mm_pc, mm>>
  BY DEF Return
<1>2. Fields /\ Settled /\ Shapes /\ Senders /\ Waiters /\ Answering /\ halted = FALSE
  BY DEF TreeInv, SoundInv
<1>3. q \in Procs /\ q # MM /\ MM \in Procs /\ p_flags[q] = {}
  BY <1>1, Constants DEF Running
<1>4. \A r \in Procs \ {q} : prog'[r] = prog[r]
  BY <1>1, <1>2 DEF Fields
<1>5. Settled'
  BY <1>1, <1>2 DEF Settled, Fields
<1>6. Shapes'
  BY <1>1, <1>2 DEF Shapes, EntryShape, InUse, Sending, Receiving
<1>7. Senders'
  BY <1>1, <1>2, <1>4 DEF Senders, Sending
<1>8. Waiters'
  BY <1>1, <1>2, <1>3, <1>4 DEF Waiters, Waiting, Waits
<1>9. \A r \in Procs \ {MM} : (Asked(r) => Asked(r)') /\ (Expects(r) => Expects(r)')
  BY <1>1, <1>3, <1>4 DEF Asked, Expects
<1>10. Answering'
  BY <1>1, <1>2, <1>9, AnsweringFrame DEF Sending
<1>11. QED
  BY <1>1, <1>2, <1>5, <1>6, <1>7, <1>8, <1>10 DEF SoundInv

\* A step of MM that sends and receives nothing, and leaves alone who does.
LEMMA SoundFrame ==
    ASSUME TreeInv, SoundInv, Running(MM), Running(MM)',
           UNCHANGED <<p_msg, p_recvfrom, p_sendto, q_sending, halted>>,
           \A r \in Procs \ {MM} :
              /\ InUse(r)' => InUse(r) /\ (Sending(r)' <=> Sending(r))
                                       /\ (Receiving(r)' <=> Receiving(r))
              /\ Sending(r)' => Sending(r),
           Settled', Waiters', Answering'
    PROVE  SoundInv'
<1>1. Shapes /\ Senders /\ halted = FALSE
  BY DEF SoundInv
<1>2. \A r \in Procs \ {MM} : (InUse(r) => EntryShape(r))'
  BY <1>1 DEF Shapes, EntryShape
<1>3. (InUse(MM) => EntryShape(MM))'
  <2>1. InUse(MM) /\ MM \in Procs /\ ~Sending(MM) /\ ~Receiving(MM)
        /\ ~Sending(MM)' /\ ~Receiving(MM)'
    BY Constants DEF Running, InUse, Sending, Receiving
  <2>2. QED
    BY <1>1, <2>1 DEF Shapes, EntryShape
<1>4. Shapes'
  BY <1>1, <1>2, <1>3 DEF Shapes
<1>5. Senders'
  BY <1>1, SendersFrame
<1>6. QED
  BY <1>1, <1>4, <1>5 DEF SoundInv

\* MM at its loop, or taking a request apart, or waiting for FS: whom it then answers
\* is the caller.
LEMMA SilentKeepsSound ==
    ASSUME TreeInv, SoundInv, UNCHANGED setting,
           \/ MmLoop \/ ForkFull \/ FsReply \/ Exec
           \/ WaitReap \/ WaitNoChild \/ Exit \/ ExitDone
    PROVE  SoundInv'
<1>1. /\ Running(MM) /\ UNCHANGED <<p_parent, prog, call>>
      /\ UNCHANGED <<p_flags, p_msg, p_recvfrom, p_sendto, q_sending, halted>>
  BY DEF MmLoop, ForkFull, FsReply, Exec, WaitReap, WaitNoChild, Exit, ExitDone, Requested, At,
     ipcVars, vars
<1>2. Fields /\ Settled /\ Waiters /\ Answering /\ mm \in MmLocals
  BY DEF TreeInv, SoundInv, Fields, MmLocals
<1>3. Running(MM)' /\ ~Sending(MM)' /\ Waiters'
  BY <1>1, <1>2 DEF Running, Sending, Waiters, Waiting, Waits
<1>4. \A r \in Procs \ {MM} : /\ InUse(r)' => InUse(r) /\ (Sending(r)' <=> Sending(r))
                                              /\ (Receiving(r)' <=> Receiving(r))
                              /\ Sending(r)' => Sending(r)
  BY <1>1 DEF InUse, Sending, Receiving
<1>5. {"FORK", "WAIT", "EXIT", "EXEC"} = Calls
  BY DEF Calls
<1>6. Settled' /\ Answering'
  <2>1. CASE MmLoop \/ Exit \/ ExitDone
    <3>1. mm_pc' \in {"receive", "fs_exit", "loop"}
      BY <2>1 DEF MmLoop, Exit, ExitDone
    <3>2. QED
      BY <1>1, <1>2, <3>1 DEF Settled, Answering
  <2>2. CASE ForkFull
    <3>1. Requested("FORK") /\ mm_pc' = "reply"
          /\ mm' = [mm EXCEPT !.src = buf[MM].source, !.reply = Reply(0, -1)]
      BY <2>2 DEF ForkFull
    <3>2. PICK q \in Procs \ {MM} : q = buf[MM].source /\ Asked(q)
      BY <1>5, <3>1, AtHand
    <3>3. mm'.src = q /\ Asked(q)'
      BY <1>1, <1>2, <3>1, <3>2 DEF MmLocals, Asked
    <3>4. QED
      BY <1>1, <1>2, <1>3, <3>1, <3>3 DEF Settled, Answering
  <2>3. CASE FsReply
    <3>1. mm' = mm /\ \/ mm_pc = "fs_fork" /\ mm_pc' = "birth"
                      \/ mm_pc = "fs_exit" /\ mm_pc' = "exit"
      BY <2>3 DEF FsReply
    <3>2. QED
      BY <1>1, <1>2, <3>1 DEF Settled, Answering, Asked
  <2>4. CASE Exec
    <3>1. PICK q \in Procs \ {MM} : call[q] = "EXEC"
      BY <1>5, <2>4, AtHand DEF Exec
    <3>2. QED
      BY <1>2, <3>1 DEF Settled
  <2>5. CASE WaitReap
    <3>1. PICK Z \in {{s \in Children(buf[MM].source) : Hanging(s)}} :
             Z # {} /\ mm' = [mm EXCEPT !.src = buf[MM].source, !.proc = Min(Z)]
      BY <2>5 DEF WaitReap
    <3>2. Requested("WAIT") /\ mm_pc' = "cleanup_wait"
      BY <2>5 DEF WaitReap
    <3>3. PICK q \in Procs \ {MM} : q = buf[MM].source /\ Asked(q)
      BY <1>5, <3>2, AtHand
    <3>4. Z \in SUBSET Nat
      BY Constants DEF Children
    <3>5. PICK z \in Z : z = Min(Z)
      BY <3>1, <3>4, First
    <3>6. p_parent[z] = q
      BY <3>3, <3>5 DEF Children
    <3>7. mm'.proc = z /\ p_parent'[z] = q /\ Expects(q)'
      BY <1>1, <1>2, <3>1, <3>3, <3>5, <3>6 DEF MmLocals, Expects, Asked
    <3>8. QED
      BY <1>1, <1>2, <3>2, <3>7 DEF Settled, Answering
  <2>6. CASE WaitNoChild
    <3>1. Requested("WAIT") /\ mm_pc' = "reply"
          /\ mm' = [mm EXCEPT !.src = buf[MM].source, !.reply = Reply(NO_TASK, 0)]
      BY <2>6 DEF WaitNoChild
    <3>2. PICK q \in Procs \ {MM} : q = buf[MM].source /\ Asked(q)
      BY <1>5, <3>1, AtHand
    <3>3. mm'.src = q /\ Asked(q)'
      BY <1>1, <1>2, <3>1, <3>2 DEF MmLocals, Asked
    <3>4. QED
      BY <1>1, <1>2, <1>3, <3>1, <3>3 DEF Settled, Answering
  <2>7. QED
    BY <2>1, <2>2, <2>3, <2>4, <2>5, <2>6
<1>7. QED
  BY <1>1, <1>3, <1>4, <1>6, SoundFrame

\* MM takes the oldest request off its queue, or blocks; the others stay queued.
LEMMA ReceiveKeepsSound ==
    ASSUME TreeInv, SoundInv, UNCHANGED setting, MmReceive
    PROVE  SoundInv'
<1>1. /\ Running(MM) /\ mm_pc' = "dispatch" /\ msg_receive(MM, ANY) /\ prog' = prog /\ call' = call
  BY DEF MmReceive, At
<1>2. /\ Fields /\ Entries /\ Requests
      /\ Settled /\ Shapes /\ Senders /\ Waiters /\ halted = FALSE
  BY DEF TreeInv, SoundInv
<1>3. MM \in Procs /\ p_flags[MM] = {} /\ ANY # NO_TASK
  BY <1>1, Constants, PseudoProcs DEF Running
<1>4. /\ InUse(MM) /\ ~Sending(MM) /\ ~Receiving(MM) /\ p_msg[MM] = FALSE
      /\ p_sendto[MM] = NO_TASK /\ p_recvfrom[MM] = NO_TASK
  BY <1>1, <1>2, <1>3, EntryOf
<1>5. ~TakesInterrupt(MM, ANY)
  BY <1>2, <1>3 DEF TakesInterrupt, Fields
<1>6. Settled' /\ Answering'
  BY <1>1, <1>2 DEF Settled, Answering
<1>7. CASE ReceiveQueued(MM, ANY)
  <2>1. PICK i \in 1..Len(q_sending[MM]) :
           /\ i = 1
           /\ q_sending' = [q_sending EXCEPT ![MM] = Unlink(@, i)]
           /\ p_msg' = [p_msg EXCEPT ![q_sending[MM][i]] = FALSE]
           /\ p_sendto' = [p_sendto EXCEPT ![q_sending[MM][i]] = NO_TASK]
           /\ p_flags' = [p_flags EXCEPT ![q_sending[MM][i]] = @ \ {"SENDING"}]
    BY <1>7 DEF ReceiveQueued
  <2>2. UNCHANGED <<p_recvfrom, halted>>
    BY <1>7 DEF ReceiveQueued
  <2>3. PICK q \in Procs : q = q_sending[MM][i]
    BY <1>2, QueuedProcs
  <2>4. q # MM /\ p_flags[q] = {"SENDING"}
    BY <1>2, <2>3 DEF Requests
  <2>5. p_flags'[q] = {} /\ \A r \in Procs \ {q} : p_flags'[r] = p_flags[r]
    BY <1>2, <2>1, <2>3, <2>4 DEF Fields
  <2>6. /\ p_msg' \in [Procs -> BOOLEAN] /\ p_msg'[q] = FALSE /\ p_sendto'[q] = NO_TASK
        /\ \A r \in Procs \ {q} : p_msg'[r] = p_msg[r] /\ p_sendto'[r] = p_sendto[r]
    <3>1. /\ p_msg' = [p_msg EXCEPT ![q] = FALSE] /\ p_msg \in [Procs -> BOOLEAN]
          /\ p_sendto' = [p_sendto EXCEPT ![q] = NO_TASK]
          /\ p_sendto \in [Procs -> Procs \cup {NO_TASK}]
      BY <1>2, <2>1, <2>3 DEF Fields, Shapes
    <3>2. QED
      BY <2>3, <3>1
  <2>7. PICK s \in Seq(Procs) : s = q_sending[MM]
    BY <1>2, <1>3 DEF Fields
  <2>8. /\ Len(Unlink(s, i)) = Len(s) - 1 /\ Len(s) \in Nat
        /\ \A j \in 1..(Len(s) - 1) : Unlink(s, i)[j] = IF j < i THEN s[j] ELSE s[j + 1]
    BY <2>7, UnlinkSeq, LenProperties
  <2>9. q_sending'[MM] = Unlink(s, i) /\ \A d \in Procs \ {MM} : q_sending'[d] = q_sending[d]
    BY <1>2, <1>3, <2>1, <2>7 DEF Fields
  <2>10. Shapes'
    <3>1. p_recvfrom[q] = NO_TASK
      BY <1>2, <2>4 DEF Shapes, EntryShape, InUse, Receiving
    <3>2. EntryShape(q)'
      BY <2>2, <2>5, <2>6, <3>1 DEF EntryShape, Sending, Receiving
    <3>3. \A r \in Procs \ {q} : (InUse(r) => EntryShape(r))'
      BY <1>2, <2>2, <2>5, <2>6, EntryFrame DEF Shapes
    <3>4. QED
      BY <2>6, <3>2, <3>3 DEF Shapes
  <2>11. Senders'
    <3>1. ASSUME NEW r \in Procs \ {MM}, Sending(r)'
          PROVE  p_sendto'[r] = MM /\ \E j \in 1..Len(q_sending'[MM]) : q_sending'[MM][j] = r
      <4>1. Sending(r) /\ r # q
        BY <2>5, <3>1 DEF Sending
      <4>2. p_sendto[r] = MM
        BY <1>2, <4>1 DEF Senders
      <4>3. PICK k \in 1..Len(s) : s[k] = r
        BY <1>2, <2>7, <4>1 DEF Senders
      <4>4. k # i
        BY <2>3, <2>7, <4>1, <4>3
      <4>5. PICK j \in 1..(Len(s) - 1) : k = j + 1
        BY <2>1, <2>8, <4>4
      <4>6. Unlink(s, i)[j] = r
        BY <2>1, <2>8, <4>3, <4>5
      <4>7. QED
        BY <2>6, <2>8, <2>9, <4>1, <4>2, <4>6
    <3>2. ~Sending(MM)'
      BY <1>3, <1>4, <2>4, <2>5 DEF Sending
    <3>3. \A d \in Procs \ {MM} : q_sending'[d] = << >>
      BY <1>2, <1>4, <2>9 DEF Senders
    <3>4. QED
      BY <3>1, <3>2, <3>3 DEF Senders
  <2>12. Waiters'
    BY <1>1, <1>2, <2>5 DEF Waiters, Waiting, Waits
  <2>13. QED
    BY <1>2, <1>6, <2>2, <2>10, <2>11, <2>12 DEF SoundInv
<1>8. CASE ReceiveBlock(MM, ANY)
  <2>1. /\ p_flags' = [p_flags EXCEPT ![MM] = @ \cup {"RECEIVING"}]
        /\ p_msg' = [p_msg EXCEPT ![MM] = TRUE]
        /\ p_recvfrom' = [p_recvfrom EXCEPT ![MM] = ANY]
        /\ UNCHANGED <<p_sendto, q_sending, halted>>
    BY <1>8 DEF ReceiveBlock
  <2>2. p_flags'[MM] = {"RECEIVING"} /\ \A r \in Procs \ {MM} : p_flags'[r] = p_flags[r]
    BY <1>2, <1>3, <2>1 DEF Fields
  <2>3. /\ p_msg' \in [Procs -> BOOLEAN] /\ p_msg'[MM] = TRUE /\ p_recvfrom'[MM] = ANY
        /\ \A r \in Procs \ {MM} : p_msg'[r] = p_msg[r] /\ p_recvfrom'[r] = p_recvfrom[r]
    BY <1>2, <1>3, <2>1 DEF Fields, Shapes
  <2>4. Shapes'
    <3>1. EntryShape(MM)'
      BY <1>3, <1>4, <2>1, <2>2, <2>3 DEF EntryShape, Sending, Receiving
    <3>2. \A r \in Procs \ {MM} : (InUse(r) => EntryShape(r))'
      BY <1>2, <2>1, <2>2, <2>3, EntryFrame DEF Shapes
    <3>3. QED
      BY <2>3, <3>1, <3>2 DEF Shapes
  <2>5. Senders'
    BY <1>2, <1>4, <2>1, <2>2 DEF Senders, Sending
  <2>6. Waiters'
    BY <1>1, <1>2, <2>2 DEF Waiters, Waiting, Waits
  <2>7. QED
    BY <1>2, <1>6, <2>1, <2>4, <2>5, <2>6 DEF SoundInv
<1>9. QED
  BY <1>1, <1>5, <1>7, <1>8 DEF msg_receive, ReceiveInt

\* do_fork: the child's entry agrees with itself as its parent's does, and nobody is queued
\* for either.
LEMMA ForkKeepsSound ==
    ASSUME TreeInv, SoundInv, UNCHANGED setting, Fork
    PROVE  SoundInv'
<1>1. PICK child \in {Min(FreeSlots)}, q \in {buf[MM].source} :
         /\ p_flags' = [p_flags EXCEPT ![child] = p_flags[q]]
         /\ p_msg' = [p_msg EXCEPT ![child] = p_msg[q]]
         /\ p_recvfrom' = [p_recvfrom EXCEPT ![child] = p_recvfrom[q]]
         /\ p_sendto' = [p_sendto EXCEPT ![child] = p_sendto[q]]
         /\ q_sending' = [q_sending EXCEPT ![child] = q_sending[q]]
         /\ prog' = [prog EXCEPT ![child] = prog[q]]
         /\ call' = [call EXCEPT ![child] = call[q]]
         /\ mm' = [mm EXCEPT !.src = q, !.proc = child, !.reply = Reply(child, 0)]
  BY DEF Fork
<1>2. Requested("FORK") /\ FreeSlots # {} /\ mm_pc' = "fs_fork" /\ UNCHANGED halted
  BY DEF Fork
<1>3. /\ q \in Procs \ {MM} /\ Asked(q) /\ Live(q) /\ ~Sending(q) /\ call[q] = "FORK"
      /\ p_flags[MM] = {} /\ mm \in MmLocals
  BY <1>1, <1>2, AtHand DEF Calls, Running
<1>4. /\ Fields /\ Settled /\ Shapes /\ Senders /\ Waiters /\ halted = FALSE
  BY DEF TreeInv, SoundInv
<1>5. child \in Procs \ {MM} /\ child # q /\ MM \in Procs
  <2>1. FreeSlots \in SUBSET Nat
    BY Constants DEF FreeSlots
  <2>2. child \in FreeSlots
    BY <1>1, <1>2, <2>1, First
  <2>3. QED
    BY <1>3, <2>2, Constants DEF FreeSlots, Live, InUse
<1>6. /\ p_flags'[child] = p_flags[q] /\ p_recvfrom'[child] = p_recvfrom[q]
      /\ p_sendto'[child] = p_sendto[q]
      /\ \A r \in Procs \ {child} : /\ p_flags'[r] = p_flags[r]
                                    /\ p_recvfrom'[r] = p_recvfrom[r]
                                    /\ p_sendto'[r] = p_sendto[r]
  BY <1>1, <1>3, <1>4, <1>5 DEF Fields
<1>7. /\ p_msg' \in [Procs -> BOOLEAN] /\ p_msg'[child] = p_msg[q]
      /\ \A r \in Procs \ {child} : p_msg'[r] = p_msg[r]
  BY <1>1, <1>3, <1>4, <1>5 DEF Shapes
<1>8. /\ q_sending'[child] = q_sending[q]
      /\ \A r \in Procs \ {child} : q_sending'[r] = q_sending[r]
  BY <1>1, <1>3, <1>4, <1>5 DEF Fields
<1>9. /\ prog'[child] = prog[q] /\ call'[child] = "FORK"
      /\ \A r \in Procs \ {child} : prog'[r] = prog[r] /\ call'[r] = call[r]
  BY <1>1, <1>3, <1>4, <1>5 DEF Fields
<1>10. mm'.src = q /\ mm'.proc = child
  BY <1>1, <1>3 DEF MmLocals
<1>11. Shapes'
  <2>1. EntryShape(q)
    BY <1>3, <1>4 DEF Shapes, Live
  <2>2. EntryShape(child)'
    BY <1>6, <1>7, <2>1 DEF EntryShape, Sending, Receiving
  <2>3. \A r \in Procs \ {child} : (InUse(r) => EntryShape(r))'
    BY <1>4, <1>6, <1>7, EntryFrame DEF Shapes
  <2>4. QED
    BY <1>7, <2>2, <2>3 DEF Shapes
<1>12. Senders'
  <2>1. ~Sending(MM) /\ ~Sending(MM)' /\ ~Sending(child)'
    BY <1>3, <1>5, <1>6 DEF Sending
  <2>2. \A d \in Procs \ {MM} : q_sending'[d] = << >>
    BY <1>3, <1>4, <1>8, <2>1 DEF Senders
  <2>3. \A r \in Procs \ {MM} : Sending(r)' =>
            p_sendto'[r] = MM /\ \E i \in 1..Len(q_sending'[MM]) : q_sending'[MM][i] = r
    BY <1>4, <1>5, <1>6, <1>8, <2>1 DEF Senders, Sending
  <2>4. QED
    BY <2>1, <2>2, <2>3 DEF Senders
<1>13. Waiters'
  <2>1. ~Waiting(child)'
    BY <1>3, <1>6 DEF Waiting, Asked
  <2>2. QED
    BY <1>4, <1>6, <1>9, <2>1 DEF Waiters, Waiting, Waits
<1>14. Settled' /\ Answering'
  <2>1. Asked(q)' /\ Asked(child)'
    BY <1>3, <1>5, <1>6, <1>9 DEF Asked
  <2>2. \A r \in Procs : call'[r] # "EXEC"
    BY <1>4, <1>9 DEF Settled
  <2>3. QED
    BY <1>2, <1>5, <1>10, <2>1, <2>2 DEF Settled, Answering
<1>15. QED
  BY <1>2, <1>4, <1>11, <1>12, <1>13, <1>14 DEF SoundInv

\* A SEND of MM to somebody who expects it gets through, or blocks until that one receives.
LEMMA MmSendSound ==
    ASSUME TreeInv, SoundInv, Running(MM), NEW d \in Procs \ {MM}, NEW b, Expects(d),
           msg_send(MM, d, b), UNCHANGED <<prog, call>>
    PROVE  /\ Shapes' /\ Senders' /\ Waiters' /\ halted' = FALSE
           /\ Sending(MM)' => p_sendto'[MM] = d
           /\ \A r \in Procs \ {MM, d} : p_flags'[r] = p_flags[r]
<1>1. /\ Fields /\ Entries /\ Shapes /\ Senders /\ Waiters /\ halted = FALSE
  BY DEF TreeInv, SoundInv
<1>2. MM \in Procs /\ d \in Procs /\ d # MM /\ p_flags[MM] = {} /\ d # NO_TASK
  BY Constants DEF Running
<1>3. /\ InUse(MM) /\ ~Sending(MM) /\ ~Receiving(MM) /\ p_msg[MM] = FALSE
      /\ p_sendto[MM] = NO_TASK /\ p_recvfrom[MM] = NO_TASK
  BY <1>1, <1>2, EntryOf
<1>4. ~Sending(d) /\ InUse(d) /\ EntryShape(d)
  BY <1>1, <1>2 DEF Expects, Asked, Sending, InUse, Shapes
<1>5. ~deadlock(MM, d)
  BY <1>2, <1>4, NoDeadlock
<1>6. \A e \in Procs \ {MM} : q_sending[e] = << >>
  BY <1>1, <1>3 DEF Senders
<1>7. CASE SendDeliver(MM, d, b)
  <2>1. /\ p_flags' = [p_flags EXCEPT ![d] = @ \ {"RECEIVING"}]
        /\ p_msg' = [p_msg EXCEPT ![d] = FALSE]
        /\ p_recvfrom' = [p_recvfrom EXCEPT ![d] = NO_TASK]
        /\ UNCHANGED <<p_sendto, q_sending, halted>> /\ Receiving(d)
    BY <1>7 DEF SendDeliver, AcceptsFrom
  <2>2. /\ p_flags[d] = {"RECEIVING"} /\ p_flags'[d] = {}
        /\ \A r \in Procs \ {d} : p_flags'[r] = p_flags[r]
    BY <1>1, <1>2, <2>1 DEF Fields, Expects, Asked, Receiving
  <2>3. /\ p_msg' \in [Procs -> BOOLEAN] /\ p_msg'[d] = FALSE /\ p_recvfrom'[d] = NO_TASK
        /\ \A r \in Procs \ {d} : p_msg'[r] = p_msg[r] /\ p_recvfrom'[r] = p_recvfrom[r]
    BY <1>1, <1>2, <2>1 DEF Fields, Shapes
  <2>4. Shapes'
    <3>1. EntryShape(d)'
      BY <1>4, <2>1, <2>2, <2>3 DEF EntryShape, Sending, Receiving
    <3>2. \A r \in Procs \ {d} : (InUse(r) => EntryShape(r))'
      BY <1>1, <2>1, <2>2, <2>3, EntryFrame DEF Shapes
    <3>3. QED
      BY <2>3, <3>1, <3>2 DEF Shapes
  <2>5. ~Sending(MM)' /\ \A r \in Procs : Sending(r)' <=> Sending(r)
    BY <1>2, <1>3, <2>2 DEF Sending
  <2>6. Senders'
    BY <1>1, <1>3, <2>1, <2>5 DEF Senders
  <2>7. Waiters'
    BY <1>1, <2>2 DEF Waiters, Waiting, Waits
  <2>8. QED
    BY <1>1, <2>1, <2>2, <2>4, <2>5, <2>6, <2>7
<1>8. CASE SendBlock(MM, d, b)
  <2>1. /\ p_flags' = [p_flags EXCEPT ![MM] = @ \cup {"SENDING"}]
        /\ p_sendto' = [p_sendto EXCEPT ![MM] = d]
        /\ p_msg' = [p_msg EXCEPT ![MM] = TRUE]
        /\ q_sending' = [q_sending EXCEPT ![d] = Append(@, MM)]
        /\ UNCHANGED <<p_recvfrom, halted>> /\ ~AcceptsFrom(d, MM)
    BY <1>8 DEF SendBlock
  <2>2. p_flags'[MM] = {"SENDING"} /\ \A r \in Procs \ {MM} : p_flags'[r] = p_flags[r]
    BY <1>1, <1>2, <2>1 DEF Fields
  <2>3. /\ p_msg' \in [Procs -> BOOLEAN] /\ p_msg'[MM] = TRUE /\ p_sendto'[MM] = d
        /\ \A r \in Procs \ {MM} : p_msg'[r] = p_msg[r] /\ p_sendto'[r] = p_sendto[r]
    BY <1>1, <1>2, <2>1 DEF Fields, Shapes
  <2>4. Shapes'
    <3>1. EntryShape(MM)'
      BY <1>2, <1>3, <2>1, <2>2, <2>3 DEF EntryShape, Sending, Receiving
    <3>2. \A r \in Procs \ {MM} : (InUse(r) => EntryShape(r))'
      BY <1>1, <2>1, <2>2, <2>3, EntryFrame DEF Shapes
    <3>3. QED
      BY <2>3, <3>1, <3>2 DEF Shapes
  <2>5. prog[d] = "recv" /\ p_flags[d] \in {{}, {"WAITING"}}
    <3>1. ~Receiving(d)
      BY <1>1, <2>1 DEF Entries, AcceptsFrom
    <3>2. QED
      BY <3>1 DEF Expects, Asked, Receiving
  <2>6. q_sending'[d] = <<MM>> /\ \A e \in Procs \ {d} : q_sending'[e] = q_sending[e]
    <3>1. PICK s \in Seq(Procs) : s = q_sending[d]
      BY <1>1, <1>2 DEF Fields
    <3>2. s = << >>
      BY <1>6, <3>1
    <3>3. Append(<< >>, MM) = <<MM>>
      OBVIOUS
    <3>4. q_sending'[d] = Append(s, MM) /\ \A e \in Procs \ {d} : q_sending'[e] = q_sending[e]
      BY <1>1, <1>2, <2>1, <3>1 DEF Fields
    <3>5. QED
      BY <3>2, <3>3, <3>4
  <2>7. Sending(MM)' /\ \A r \in Procs \ {MM} : Sending(r)' <=> Sending(r)
    BY <2>2 DEF Sending
  <2>8. Senders'
    <3>1. \A r \in Procs \ {MM} : Sending(r)' =>
              p_sendto'[r] = MM /\ \E i \in 1..Len(q_sending'[MM]) : q_sending'[MM][i] = r
      BY <1>1, <1>2, <2>3, <2>6, <2>7 DEF Senders
    <3>2. \A e \in Procs \ {MM} : q_sending'[e] = IF e = d THEN <<MM>> ELSE << >>
      BY <1>6, <2>6
    <3>3. p_flags'[d] \in {{}, {"WAITING"}}
      BY <1>2, <2>2, <2>5
    <3>4. QED
      BY <2>3, <2>5, <2>7, <3>1, <3>2, <3>3 DEF Senders
  <2>9. Waiters'
    BY <1>1, <2>2 DEF Waiters, Waiting, Waits
  <2>10. QED
    BY <1>1, <2>1, <2>2, <2>3, <2>4, <2>7, <2>8, <2>9
<1>9. QED
  BY <1>5, <1>7, <1>8 DEF msg_send, SendPanic

\* Whoever MM answers expects it; having answered the child, MM still has its parent to answer.
LEMMA SendsKeepSound ==
    ASSUME TreeInv, SoundInv, UNCHANGED setting, Birth \/ SendReply \/ Cleanup
    PROVE  SoundInv'
<1>1. Running(MM) /\ mm' = mm /\ UNCHANGED <<prog, call>>
  BY DEF Birth, SendReply, Cleanup, At
<1>2. Settled /\ Answering /\ mm.src \in Procs \ {MM} /\ mm.proc \in Procs \ {MM}
  BY DEF TreeInv, SoundInv, Fields
<1>3. CASE Birth
  <2>1. mm_pc = "birth" /\ mm_pc' = "reply" /\ msg_send(MM, mm.proc, Reply(0, 0))
    BY <1>3 DEF Birth, At
  <2>2. PICK c \in Procs \ {MM}, p \in Procs \ {MM} : c = mm.proc /\ p = mm.src
    BY <1>2
  <2>3. Asked(c) /\ Asked(p) /\ c # p
    BY <1>2, <2>1, <2>2 DEF Answering
  <2>4. /\ Shapes' /\ Senders' /\ Waiters' /\ halted' = FALSE
        /\ Sending(MM)' => p_sendto'[MM] = c
        /\ \A r \in Procs \ {MM, c} : p_flags'[r] = p_flags[r]
    BY <1>1, <2>1, <2>2, <2>3, MmSendSound DEF Expects
  <2>5. Asked(p)' /\ mm'.src = p
    BY <1>1, <2>2, <2>3, <2>4 DEF Asked
  <2>6. Answering' /\ Settled'
    BY <1>1, <1>2, <2>1, <2>3, <2>4, <2>5 DEF Answering, Settled
  <2>7. QED
    BY <2>4, <2>6 DEF SoundInv
<1>4. CASE SendReply
  <2>1. mm_pc = "reply" /\ mm_pc' = "loop" /\ msg_send(MM, mm.src, mm.reply)
    BY <1>4 DEF SendReply, At
  <2>2. Expects(mm.src)
    BY <1>2, <2>1 DEF Answering, Expects
  <2>3. Shapes' /\ Senders' /\ Waiters' /\ halted' = FALSE
    BY <1>1, <1>2, <2>1, <2>2, MmSendSound
  <2>4. Answering' /\ Settled'
    BY <1>1, <1>2, <2>1 DEF Answering, Settled
  <2>5. QED
    BY <2>3, <2>4 DEF SoundInv
<1>5. CASE Cleanup
  <2>1. /\ mm_pc \in {"cleanup_wait", "cleanup_exit"} /\ mm_pc' \in {"free_wait", "free_exit"}
        /\ msg_send(MM, p_parent[mm.proc], Reply(mm.proc, 0))
    BY <1>5 DEF Cleanup, At
  <2>2. p_parent[mm.proc] \in Procs \ {MM} /\ Expects(p_parent[mm.proc])
    BY <1>2, <2>1, ParentOfEnding DEF Answering
  <2>3. Shapes' /\ Senders' /\ Waiters' /\ halted' = FALSE
    BY <1>1, <2>1, <2>2, MmSendSound
  <2>4. Answering' /\ Settled'
    BY <1>1, <1>2, <2>1 DEF Answering, Settled
  <2>5. QED
    BY <2>3, <2>4 DEF SoundInv
<1>6. QED
  BY <1>3, <1>4, <1>5

\* do_wait and do_exit mark the caller, in one step.
LEMMA MarksKeepSound ==
    ASSUME TreeInv, SoundInv, setting.atomic, UNCHANGED setting, WaitBlock \/ ExitHang
    PROVE  SoundInv'
<1>1. /\ Running(MM) /\ UNCHANGED <<p_msg, p_recvfrom, p_sendto, q_sending, halted, prog, call>>
  BY DEF WaitBlock, ExitHang, OrFlag, Requested, At
<1>2. Fields /\ Settled /\ Waiters
  BY DEF TreeInv, SoundInv
<1>3. PICK q \in Procs \ {MM}, f \in {"WAITING", "HANGING"} :
         /\ Asked(q) /\ p_flags' = [p_flags EXCEPT ![q] = @ \cup {f}]
         /\ mm_pc' \in {"loop", "orphans"}
  <2>1. CASE WaitBlock
    <3>1. Requested("WAIT") /\ OrFlag(buf[MM].source, "WAITING", "loop")
      BY <2>1 DEF WaitBlock
    <3>2. PICK q \in Procs \ {MM} : q = buf[MM].source /\ Asked(q)
      BY <3>1, AtHand DEF Calls
    <3>3. QED
      BY <3>1, <3>2 DEF OrFlag
  <2>2. CASE ExitHang
    <3>1. mm_pc = "exit" /\ OrFlag(mm.src, "HANGING", "orphans")
      BY <2>2 DEF ExitHang, At
    <3>2. PICK q \in Procs \ {MM} : q = mm.src
      BY <1>2 DEF Fields
    <3>3. Asked(q)
      BY <3>1, <3>2 DEF TreeInv, AtWork
    <3>4. QED
      BY <3>1, <3>2, <3>3 DEF OrFlag
  <2>3. QED
    BY <2>1, <2>2
<1>4. /\ p_flags'[q] = p_flags[q] \cup {f}
      /\ \A r \in Procs \ {q} : p_flags'[r] = p_flags[r]
  BY <1>2, <1>3 DEF Fields
<1>5. InUse(q) /\ \A r \in Procs : (Sending(r)' <=> Sending(r)) /\ (Receiving(r)' <=> Receiving(r))
  BY <1>3, <1>4 DEF InUse, Asked, Sending, Receiving
<1>6. Running(MM)'
  BY <1>1, <1>4, Constants DEF Running
<1>7. Waiters'
  <2>1. Waiting(q)' => Waits(q)'
    BY <1>1, <1>3, <1>4 DEF Waiting, Waits, Asked
  <2>2. QED
    BY <1>1, <1>2, <1>4, <2>1 DEF Waiters, Waiting, Waits
<1>8. Settled' /\ Answering'
  BY <1>1, <1>2, <1>3 DEF Settled, Answering
<1>9. \A r \in Procs : InUse(r)' => InUse(r)
  BY <1>4, <1>5 DEF InUse
<1>10. QED
  BY <1>1, <1>5, <1>6, <1>7, <1>8, <1>9, SoundFrame

\* do_exit wakes a parent that waits for the answer and nothing else.
LEMMA ExitWaitedKeepsSound ==
    ASSUME TreeInv, SoundInv, UNCHANGED setting, ExitWaited
    PROVE  SoundInv'
<1>1. /\ Running(MM) /\ mm_pc = "exit" /\ mm_pc' = "cleanup_exit" /\ Waiting(p_parent[mm.src])
      /\ p_flags' = [p_flags EXCEPT ![p_parent[mm.src]] = @ \ {"WAITING"}]
      /\ mm' = [mm EXCEPT !.proc = mm.src]
      /\ UNCHANGED <<p_msg, p_recvfrom, p_sendto, q_sending, halted, p_parent, prog, call>>
  BY DEF ExitWaited, At
<1>2. Fields /\ Entries /\ AtWork /\ Tree /\ mm \in MmLocals /\ Settled /\ Waiters
  BY DEF TreeInv, SoundInv, Fields, MmLocals
<1>3. PICK c \in Procs \ {MM} : c = mm.src
  BY <1>2 DEF MmLocals
<1>4. Asked(c) /\ call[c] = "EXIT"
  BY <1>1, <1>2, <1>3 DEF AtWork
<1>5. c \in Slots /\ InUse(c)
  BY <1>2, <1>4, Constants DEF Asked, Entries, InUse
<1>6. PICK q \in Procs \ {MM} : q = p_parent[c]
  BY <1>1, <1>2, <1>5, Constants DEF Tree
<1>7. /\ p_flags'[q] = p_flags[q] \ {"WAITING"}
      /\ \A r \in Procs \ {q} : p_flags'[r] = p_flags[r]
  BY <1>1, <1>2, <1>3, <1>6 DEF Fields
<1>8. Waits(q)
  BY <1>1, <1>2, <1>3, <1>6 DEF Waiters
<1>9. Asked(q)' /\ InUse(q) /\ ~Waiting(q)'
  BY <1>1, <1>7, <1>8 DEF Waits, Asked, InUse, Waiting
<1>10. \A r \in Procs : (Sending(r)' <=> Sending(r)) /\ (Receiving(r)' <=> Receiving(r))
  BY <1>7, <1>8 DEF Waits, Sending, Receiving
<1>11. \A r \in Procs : InUse(r)' => InUse(r)
  BY <1>7, <1>9 DEF InUse
<1>12. Running(MM)'
  BY <1>1, <1>7, Constants DEF Running
<1>13. Waiters'
  BY <1>1, <1>2, <1>7, <1>9 DEF Waiters, Waiting, Waits
<1>14. mm'.proc = c /\ p_parent'[c] = q
  BY <1>1, <1>2, <1>3, <1>6 DEF MmLocals
<1>15. Settled' /\ Answering'
  BY <1>1, <1>2, <1>9, <1>14 DEF Settled, Answering, Expects
<1>16. QED
  BY <1>1, <1>10, <1>11, <1>12, <1>13, <1>15, SoundFrame

\* The freed slot's entry is nobody's.
LEMMA FreeSlotKeepsSound ==
    ASSUME TreeInv, SoundInv, UNCHANGED setting, FreeSlot
    PROVE  SoundInv'
<1>1. /\ Running(MM) /\ mm_pc' \in {"loop", "orphans"}
      /\ p_flags' = [p_flags EXCEPT ![mm.proc] = {"FREE_SLOT"}]
      /\ prog' = [prog EXCEPT ![mm.proc] = "user"] /\ call' = [call EXCEPT ![mm.proc] = "none"]
      /\ UNCHANGED <<p_msg, p_recvfrom, p_sendto, q_sending, halted>>
  BY DEF FreeSlot, At
<1>2. Fields /\ Settled /\ Waiters
  BY DEF TreeInv, SoundInv
<1>3. PICK z \in Procs \ {MM} : z = mm.proc
  BY <1>2 DEF Fields
<1>4. p_flags'[z] = {"FREE_SLOT"} /\ \A r \in Procs \ {z} : p_flags'[r] = p_flags[r]
  BY <1>1, <1>2, <1>3 DEF Fields
<1>5. call'[z] = "none" /\ \A r \in Procs \ {z} : prog'[r] = prog[r] /\ call'[r] = call[r]
  BY <1>1, <1>2, <1>3 DEF Fields
<1>6. \A r \in Procs : /\ InUse(r)' => InUse(r) /\ (Sending(r)' <=> Sending(r))
                                       /\ (Receiving(r)' <=> Receiving(r))
                       /\ Sending(r)' => Sending(r)
  BY <1>4 DEF InUse, Sending, Receiving
<1>7. Running(MM)'
  BY <1>1, <1>4, Constants DEF Running
<1>8. Waiters'
  BY <1>2, <1>4, <1>5 DEF Waiters, Waiting, Waits
<1>9. Settled' /\ Answering'
  BY <1>1, <1>2, <1>5 DEF Settled, Answering
<1>10. QED
  BY <1>1, <1>6, <1>7, <1>8, <1>9, SoundFrame

\* do_exit's loop tells Init of a zombie only if Init is WAITING and nothing else: it is about
\* to receive.
LEMMA AdoptKeepsSound ==
    ASSUME TreeInv, SoundInv, UNCHANGED setting, Adopt
    PROVE  SoundInv'
<1>1. /\ Running(MM) /\ mm_pc = "orphans" /\ Orphans # {}
      /\ UNCHANGED <<p_msg, p_recvfrom, p_sendto, q_sending, halted, prog, call>>
  BY DEF Adopt, At
<1>2. PICK s \in {Min(Orphans)} :
         /\ p_parent' = [p_parent EXCEPT ![s] = PID_INIT]
         /\ mm' = [mm EXCEPT !.next = s + 1, !.proc = s]
         /\ IF p_flags[PID_INIT] = {"WAITING"} /\ p_flags[s] = {"HANGING"}
            THEN /\ p_flags' = [p_flags EXCEPT ![s] = @ \ {"HANGING"}]
                 /\ mm_pc' = "cleanup_exit"
            ELSE UNCHANGED <<p_flags, mm_pc>>
  BY DEF Adopt
<1>3. Fields /\ mm \in MmLocals /\ Settled /\ Waiters
  BY DEF TreeInv, SoundInv, Fields, MmLocals
<1>4. s \in Procs
  <2>1. Orphans \in SUBSET Nat /\ Orphans \subseteq Procs
    BY Constants DEF Orphans, Children
  <2>2. QED
    BY <1>1, <1>2, <2>1, First
<1>5. CASE p_flags[PID_INIT] = {"WAITING"} /\ p_flags[s] = {"HANGING"}
  <2>1. /\ mm_pc' = "cleanup_exit" /\ p_flags'[s] = {}
        /\ \A r \in Procs \ {s} : p_flags'[r] = p_flags[r]
    BY <1>2, <1>3, <1>4, <1>5 DEF Fields
  <2>2. PID_INIT \in Procs /\ PID_INIT # s
    BY <1>5, Constants
  <2>3. prog[PID_INIT] = "recv"
    BY <1>3, <1>5, <2>2 DEF Waiters, Waiting, Waits
  <2>4. mm'.proc = s /\ p_parent'[s] = PID_INIT
    BY <1>2, <1>3, <1>4 DEF MmLocals, Fields
  <2>5. Settled' /\ Answering'
    BY <1>1, <1>3, <1>5, <2>1, <2>2, <2>3, <2>4 DEF Settled, Answering, Expects
  <2>6. \A r \in Procs : /\ InUse(r)' => InUse(r)
                         /\ Sending(r)' <=> Sending(r)
                         /\ Receiving(r)' <=> Receiving(r)
    BY <1>5, <2>1 DEF InUse, Sending, Receiving
  <2>7. Waiters'
    BY <1>1, <1>3, <1>5, <2>1 DEF Waiters, Waiting, Waits
  <2>8. Running(MM)'
    BY <1>1, <1>5, <2>1, Constants DEF Running
  <2>9. QED
    BY <1>1, <2>5, <2>6, <2>7, <2>8, SoundFrame
<1>6. CASE ~(p_flags[PID_INIT] = {"WAITING"} /\ p_flags[s] = {"HANGING"})
  <2>1. p_flags' = p_flags /\ mm_pc' = "orphans"
    BY <1>1, <1>2, <1>6
  <2>2. Settled' /\ Answering' /\ Waiters' /\ Running(MM)'
    BY <1>1, <1>3, <2>1 DEF Settled, Answering, Waiters, Waiting, Waits, Running
  <2>3. \A r \in Procs : /\ InUse(r)' => InUse(r)
                         /\ Sending(r)' <=> Sending(r)
                         /\ Receiving(r)' <=> Receiving(r)
    BY <2>1 DEF InUse, Sending, Receiving
  <2>4. QED
    BY <1>1, <2>2, <2>3, SoundFrame
<1>7. QED
  BY <1>5, <1>6

\* Without exec and interrupted updates, every step keeps the process table sound.
LEMMA SoundNext == TreeInv /\ (Plain => SoundInv) /\ [MmNext]_allVars => (Plain => SoundInv)'
<1> SUFFICES ASSUME TreeInv, Plain => SoundInv, [MmNext]_allVars, Plain'
             PROVE  SoundInv'
  OBVIOUS
<1>1. UNCHANGED setting
  BY DEF MmNext, allVars
<1>2. Plain /\ SoundInv /\ setting.atomic /\ setting \in Settings
  BY <1>1 DEF Plain, TreeInv, Fields
<1>3. \A q \in Procs : setting.calls[q] \subseteq Calls \ {"EXEC"}
  BY <1>2, MmAssumption DEF Calls, Plain
<1>4. CASE MmNext
  <2>1. ASSUME NEW q \in Procs \ {MM}, NEW c \in setting.calls[q], Call(q, c)
        PROVE  SoundInv'
    BY <1>1, <1>2, <1>3, <2>1, CallKeepsSound
  <2>2. ASSUME NEW q \in Procs \ {MM}, Await(q) \/ Return(q)
        PROVE  SoundInv'
    BY <1>1, <1>2, <2>2, AwaitKeepsSound, ReturnKeepsSound
  <2>3. ~StoreFlags /\ ~ExecImage
    BY <1>2 DEF SoundInv, Settled, StoreFlags, ExecImage, At
  <2>4. CASE MmStep
    BY <1>1, <1>2, <2>3, <2>4, SilentKeepsSound, ReceiveKeepsSound, ForkKeepsSound,
       SendsKeepSound, MarksKeepSound, ExitWaitedKeepsSound, FreeSlotKeepsSound,
       AdoptKeepsSound DEF MmStep
  <2>5. QED
    BY <1>4, <2>1, <2>2, <2>4 DEF MmNext
<1>5. CASE UNCHANGED allVars
  <2>1. UNCHANGED <<p_flags, p_msg, p_recvfrom, p_sendto, q_sending, halted,
                    p_parent, prog, call, mm_pc, mm>>
    BY <1>5 DEF allVars, ipcVars, mmVars, vars
  <2>2. QED
    BY <1>2, <2>1 DEF SoundInv, Settled, Shapes, EntryShape, Senders, Waiters, Waits, Answering,
       Expects, Asked, InUse, Sending, Receiving, Waiting
<1>6. QED
  BY <1>4, <1>5

\* The invariant is enough for every assertion of the kernel.
LEMMA SoundImplies == TreeInv /\ SoundInv => KernelSound
<1> SUFFICES ASSUME TreeInv, SoundInv PROVE KernelSound
  OBVIOUS
<1>1. /\ Fields /\ Entries /\ Requests /\ Shapes /\ Senders /\ Answering /\ halted = FALSE
  BY DEF TreeInv, SoundInv
<1>2. MmTypeOK
  <2>1. buf \in [Procs -> Message]
    <3>1. \A q \in Procs : buf[q] \in Message
      BY <1>1, MmBodiesAssumption DEF Fields, Message
    <3>2. QED
      BY <1>1, <3>1 DEF Fields
  <2>2. p_msg \in [Procs -> BOOLEAN] /\ has_int_msg \in [Procs -> BOOLEAN] /\ halted \in BOOLEAN
    BY <1>1 DEF Shapes, Fields
  <2>3. TypeOK
    BY <1>1, <2>1, <2>2 DEF TypeOK, Fields
  <2>4. QED
    BY <1>1, <2>3 DEF MmTypeOK, Fields, Calls
<1>3. QueueExact
  <2>1. ASSUME NEW d \in Procs, NEW i \in 1..Len(q_sending[d])
        PROVE  Sending(q_sending[d][i]) /\ p_sendto[q_sending[d][i]] = d
    <3>1. CASE d = MM
      <4>1. PICK r \in Procs : r = q_sending[MM][i]
        BY <1>1, <2>1, <3>1, QueuedProcs
      <4>2. Sending(r) /\ r # MM
        BY <1>1, <2>1, <3>1, <4>1 DEF Requests, Sending
      <4>3. QED
        BY <1>1, <3>1, <4>1, <4>2 DEF Senders
    <3>2. CASE d # MM
      <4>1. q_sending[d] = IF Sending(MM) /\ p_sendto[MM] = d THEN <<MM>> ELSE << >>
        BY <1>1, <3>2 DEF Senders
      <4>2. Sending(MM) /\ p_sendto[MM] = d /\ q_sending[d] = <<MM>>
        BY <2>1, <4>1
      <4>3. q_sending[d][i] = MM
        BY <2>1, <4>2
      <4>4. QED
        BY <4>2, <4>3
    <3>3. QED
      BY <3>1, <3>2
  <2>2. ASSUME NEW q \in Procs, Sending(q)
        PROVE  \E i \in 1..Len(q_sending[p_sendto[q]]) : q_sending[p_sendto[q]][i] = q
    <3>1. CASE q = MM
      <4>1. p_sendto[MM] \in Procs \ {MM}
        BY <1>1, <2>2, <3>1 DEF Senders
      <4>2. q_sending[p_sendto[MM]] = <<MM>>
        BY <1>1, <2>2, <3>1, <4>1 DEF Senders
      <4>3. 1 \in 1..Len(<<MM>>) /\ <<MM>>[1] = MM
        OBVIOUS
      <4>4. QED
        BY <3>1, <4>2, <4>3
    <3>2. CASE q # MM
      BY <1>1, <2>2, <3>2 DEF Senders
    <3>3. QED
      BY <3>1, <3>2
  <2>3. ASSUME NEW d \in Procs, NEW i \in 1..Len(q_sending[d]), NEW j \in 1..Len(q_sending[d]),
               q_sending[d][i] = q_sending[d][j]
        PROVE  i = j
    <3>1. CASE d = MM
      BY <1>1, <2>3, <3>1 DEF Requests
    <3>2. CASE d # MM
      <4>1. q_sending[d] = <<MM>> \/ q_sending[d] = << >>
        BY <1>1, <3>2 DEF Senders
      <4>2. QED
        BY <2>3, <4>1
    <3>3. QED
      BY <3>1, <3>2
  <2>4. QED
    BY <2>1, <2>2, <2>3 DEF QueueExact, QueuedAreSending, SendersAreQueued, QueuedOnce
<1>4. DeliverAsserts
  <2> SUFFICES ASSUME NEW d \in Procs \ {MM}, AcceptsFrom(d, MM),
                      \/ mm_pc = "birth" /\ d = mm.proc
                      \/ mm_pc = "reply" /\ d = mm.src
                      \/ mm_pc \in {"cleanup_wait", "cleanup_exit"} /\ d = p_parent[mm.proc]
               PROVE  p_flags[d] = {"RECEIVING"} /\ p_msg[d] /\ p_sendto[d] = NO_TASK
    BY DEF DeliverAsserts
  <2>1. Receiving(d) /\ Expects(d)
    BY <1>1 DEF AcceptsFrom, Answering, Expects
  <2>2. p_flags[d] = {"RECEIVING"}
    BY <2>1 DEF Expects, Asked, Receiving
  <2>3. EntryShape(d)
    BY <1>1, <2>2 DEF Shapes, InUse
  <2>4. QED
    BY <2>2, <2>3 DEF EntryShape, Sending, Receiving
<1>5. CallersClean
  BY <1>1, EntryOf DEF CallersClean, CallerAsserts
<1>6. QED
  BY <1>1, <1>2, <1>3, <1>4, <1>5 DEF KernelSound, NoPanic

\* As long as MM's updates of p_flags are not interrupted and nobody calls exec, nothing MM
\* and its callers do makes msg_send panic or one of the kernel's assertions fail, for any
\* number of processes.
THEOREM KernelStaysSound == MmSpec => [](Plain => KernelSound)
<1>1. MmInit => TreeInv /\ (Plain => SoundInv)
  BY TreeInit, SoundInit
<1>2. TreeInv /\ (Plain => SoundInv) /\ [MmNext]_allVars => TreeInv' /\ (Plain => SoundInv)'
  BY TreeNext, SoundNext
<1>3. TreeInv /\ (Plain => SoundInv) => (Plain => KernelSound)
  BY SoundImplies
<1>4. QED
  BY <1>1, <1>2, <1>3, PTL DEF MmSpec

(***************************************************************************)
(* What fork returns.  MM answers a request of fork with the slot it has   *)
(* just made a child (AtFork, AtReply), and whoever else MM sends a pid to *)
(* is not in a call of fork that MM has got (AtCleanup, Pending): so a     *)
(* pid in the hands of who returns from fork is that of its child.         *)
(***************************************************************************)

Child(q, c) == c \in Procs /\ p_parent[c] = q /\ InUse(c)

NoPid(q) == buf[q].body.pid = 0

\* Who has no answer yet has no pid either.
Unanswered ==
    \A q \in Procs \ {MM} :
        /\ prog[q] \in {"user", "recv"} => NoPid(q)
        /\ Receiving(q) => NoPid(q) /\ (prog[q] = "ret" \/ (mm_pc = "reply" /\ q = mm.src))

\* Only callers of wait() are WAITING.
WaitCalls ==
    /\ \A q \in Procs \ {MM} : Waiting(q) => call[q] = "WAIT"
    /\ mm_pc = "WAITING" => call[mm.proc] = "WAIT"

\* do_fork: the answer is the child just made.
AtFork ==
    mm_pc \in {"fs_fork", "birth"} =>
        /\ Asked(mm.src) /\ call[mm.src] = "FORK"
        /\ mm.reply.pid = mm.proc /\ Child(mm.src, mm.proc)

\* The answer is no pid, or one for who waits for it; and MM is not blocked with one yet.
AtReply ==
    /\ mm_pc = "image" => mm.reply.pid = 0
    /\ mm_pc = "reply" =>
          /\ mm.reply.pid # 0 =>
                Asked(mm.src) /\ (call[mm.src] = "FORK" => Child(mm.src, mm.reply.pid))
          /\ Sending(MM) => p_sendto[MM] # mm.src /\ NoPid(MM)

\* A pid that MM is blocked with is of a child of who will receive it in fork().
Pending ==
    Sending(MM) =>
        LET q == p_sendto[MM]
        IN  /\ q \in Procs \ {MM}
            /\ ~NoPid(MM) /\ call[q] = "FORK" /\ prog[q] = "recv" /\ p_flags[q] # {"SENDING"} =>
                  Child(q, buf[MM].body.pid)

\* The parent that is told of an exit is not in a call of fork that MM has got.
AtCleanup ==
    mm_pc \in {"cleanup_wait", "cleanup_exit", "free_wait", "free_exit"} =>
        LET q == p_parent[mm.proc]
        IN  call[q] = "FORK" => p_flags[q] = {"SENDING"} /\ prog[q] = "recv"

\* Nor is the process whose children are given to Init.
AtOrphans ==
    mm_pc \in {"orphans", "cleanup_exit", "free_exit"} =>
        Ending(mm.src) \/ (~InUse(mm.src) /\ call[mm.src] # "FORK")

Replied ==
    \A q \in Procs \ {MM} :
        call[q] = "FORK" /\ prog[q] = "ret" /\ ~NoPid(q) => Child(q, buf[q].body.pid)

Answers == Unanswered /\ WaitCalls /\ AtFork /\ AtReply /\ Pending /\ AtCleanup /\ AtOrphans /\ Replied

\* After a panic nothing moves.
ForkInv == ~halted => Answers

\* When MM starts nobody is in a call.
LEMMA ForkInit == MmInit => ForkInv
BY Constants DEF MmInit, ForkInv, Answers, Unanswered, WaitCalls, AtFork, AtReply, Pending, AtCleanup,
   AtOrphans, Replied, NoPid, Cleared, Reply, Receiving, Sending, Waiting

\* The parent of whom MM frees is a process other than MM.
LEMMA ParentAtCleanup ==
    ASSUME TreeInv, mm_pc \in {"cleanup_wait", "cleanup_exit", "free_wait", "free_exit"}
    PROVE  mm.proc \in Slots /\ InUse(mm.proc) /\ p_parent[mm.proc] \in Procs \ {MM}
BY Constants DEF TreeInv, Fields, AtWork, Tree

\* A step of a program leaves the answers alone that are not its own.
LEMMA ProgramForks ==
    ASSUME TreeInv, Answers, NEW q \in Procs \ {MM}, p_flags[q] = {},
           UNCHANGED <<p_parent, mm_pc, mm>>,
           \A r \in Procs \ {q, MM} : /\ p_flags'[r] = p_flags[r] /\ prog'[r] = prog[r]
                                      /\ call'[r] = call[r] /\ buf'[r] = buf[r],
           p_flags'[q] \in {{}, {"SENDING"}, {"RECEIVING"}},
           Ending(q) => Ending(q)',
           /\ Asked(q)
           /\ \/ mm_pc \in {"fs_fork", "birth", "reply"} /\ q = mm.src
              \/ mm_pc = "WAITING" /\ q = mm.proc
           => Asked(q)' /\ call'[q] = call[q],
           prog'[q] \in {"user", "recv"} => NoPid(q)',
           Receiving(q)' => NoPid(q)' /\ prog'[q] = "ret",
           call'[q] = "FORK" /\ prog'[q] = "ret" /\ ~NoPid(q)' => Child(q, buf'[q].body.pid),
           mm_pc \in {"cleanup_wait", "cleanup_exit", "free_wait", "free_exit"}
              /\ q = p_parent[mm.proc] /\ call'[q] = "FORK" =>
              p_flags'[q] = {"SENDING"} /\ prog'[q] = "recv",
           Sending(MM)' => Sending(MM) /\ p_sendto'[MM] = p_sendto[MM] /\ buf'[MM] = buf[MM],
           Sending(MM)' /\ p_sendto[MM] = q =>
              ~(call'[q] = "FORK" /\ prog'[q] = "recv" /\ p_flags'[q] # {"SENDING"}),
           InUse(MM)'
    PROVE  Answers'
<1>1. Fields /\ AtWork
  BY DEF TreeInv
<1>2. mm.src \in Procs \ {MM} /\ mm.proc \in Procs \ {MM}
  BY <1>1 DEF Fields
<1>3. \A r \in Procs : InUse(r) => InUse(r)'
  BY DEF InUse
<1>4. \A r, c : Child(r, c) => Child(r, c)'
  BY <1>3 DEF Child
<1>5. Unanswered'
  BY DEF Answers, Unanswered, NoPid, Receiving
<1>6. WaitCalls'
  <2>1. \A r \in Procs \ {MM} : Waiting(r)' => call'[r] = "WAIT"
    BY DEF Answers, WaitCalls, Waiting
  <2>2. mm_pc = "WAITING" => call'[mm.proc] = "WAIT"
    BY <1>1, <1>2 DEF Answers, WaitCalls, AtWork
  <2>3. QED
    BY <2>1, <2>2 DEF WaitCalls
<1>7. mm_pc \in {"fs_fork", "birth", "reply"} /\ Asked(mm.src) =>
         Asked(mm.src)' /\ call'[mm.src] = call[mm.src]
  <2>1. CASE mm.src = q
    BY <2>1
  <2>2. CASE mm.src # q
    BY <1>2, <2>2 DEF Asked
  <2>3. QED
    BY <2>1, <2>2
<1>8. AtFork'
  BY <1>4, <1>7 DEF Answers, AtFork
<1>9. AtReply'
  BY <1>4, <1>7 DEF Answers, AtReply, NoPid
<1>10. Pending'
  <2> SUFFICES ASSUME Sending(MM)'
               PROVE  LET r == p_sendto[MM]
                      IN  /\ r \in Procs \ {MM}
                          /\ ~NoPid(MM) /\ call'[r] = "FORK" /\ prog'[r] = "recv"
                               /\ p_flags'[r] # {"SENDING"} => Child(r, buf[MM].body.pid)'
    BY DEF Pending, NoPid
  <2>1. Pending /\ Sending(MM) /\ buf'[MM] = buf[MM]
    BY DEF Answers
  <2>2. PICK r \in Procs \ {MM} : r = p_sendto[MM]
    BY <2>1 DEF Pending
  <2>3. CASE r = q
    BY <2>2, <2>3
  <2>4. CASE r # q
    BY <1>4, <2>1, <2>2, <2>4 DEF Pending, NoPid
  <2>5. QED
    BY <2>2, <2>3, <2>4
<1>11. AtCleanup'
  BY ParentAtCleanup DEF Answers, AtCleanup
<1>12. AtOrphans'
  <2>1. mm.src # q => /\ Ending(mm.src) => Ending(mm.src)'
                      /\ InUse(mm.src)' <=> InUse(mm.src)
                      /\ call'[mm.src] = call[mm.src]
    BY <1>2 DEF Ending, Sending, InUse
  <2>2. InUse(q)
    BY DEF InUse
  <2>3. QED
    BY <2>1, <2>2 DEF Answers, AtOrphans
<1>13. Replied'
  BY <1>4 DEF Answers, Replied, NoPid
<1>14. QED
  BY <1>5, <1>6, <1>8, <1>9, <1>10, <1>11, <1>12, <1>13 DEF Answers

\* A new request makes no promise: it is queued, or MM is about to dispatch it.
LEMMA CallForks ==
    ASSUME TreeInv, Answers, ~halted', NEW q \in Procs \ {MM}, NEW c \in Calls, Call(q, c)
    PROVE  Answers'
<1>1. /\ p_flags[q] = {} /\ prog[q] = "user" /\ msg_send(q, MM, Request(c))
      /\ prog' = [prog EXCEPT ![q] = "recv"] /\ call' = [call EXCEPT ![q] = c]
      /\ p_parent' = p_parent /\ mm_pc' = mm_pc /\ mm' = mm
  BY DEF Call, Running
<1>2. Fields /\ MmWaits
  BY DEF TreeInv
<1>3. /\ prog'[q] = "recv" /\ call'[q] = c
      /\ \A r \in Procs \ {q, MM} : prog'[r] = prog[r] /\ call'[r] = call[r]
  BY <1>1, <1>2 DEF Fields
<1>4. /\ \A r \in Procs \ {q, MM} : p_flags'[r] = p_flags[r] /\ buf'[r] = buf[r]
      /\ NoPid(q)' /\ InUse(MM)' /\ p_flags'[q] \in {{}, {"SENDING"}}
      /\ p_flags'[q] = {"SENDING"} \/ mm_pc = "dispatch"
      /\ Sending(MM)' => /\ Sending(MM) /\ p_sendto'[MM] = p_sendto[MM] /\ buf'[MM] = buf[MM]
                         /\ p_flags'[q] = {"SENDING"}
  <2>1. CASE SendPanic(q, MM)
    BY <2>1 DEF SendPanic
  <2>2. CASE SendDeliver(q, MM, Request(c))
    <3>1. Receiving(MM) /\ mm_pc = "dispatch" /\ p_flags[MM] = {"RECEIVING"}
      BY <1>2, <2>2 DEF SendDeliver, AcceptsFrom, MmWaits, Receiving
    <3>2. p_flags'[MM] = {} /\ p_flags'[q] = {}
      BY <1>1, <1>2, <2>2, <3>1, Constants DEF SendDeliver, Fields
    <3>3. buf'[q].body = Request(c)
      BY <1>2, <2>2, Constants DEF SendDeliver, Fields
    <3>4. \A r \in Procs \ {q, MM} : p_flags'[r] = p_flags[r] /\ buf'[r] = buf[r]
      BY <1>2, <2>2 DEF SendDeliver, Fields
    <3>5. QED
      BY <3>1, <3>2, <3>3, <3>4 DEF NoPid, InUse, Sending, Request
  <2>3. CASE SendBlock(q, MM, Request(c))
    <3>1. p_flags'[q] = {"SENDING"} /\ \A r \in Procs \ {q} : p_flags'[r] = p_flags[r]
      BY <1>1, <1>2, <2>3 DEF SendBlock, Fields
    <3>2. buf'[q].body = Request(c) /\ \A r \in Procs \ {q} : buf'[r] = buf[r]
      BY <1>2, <2>3 DEF SendBlock, Fields
    <3>3. p_sendto'[MM] = p_sendto[MM]
      BY <1>2, <2>3, Constants DEF SendBlock, Fields
    <3>4. MM \in Procs \ {q} /\ InUse(MM)
      BY <1>2, Constants DEF MmWaits, InUse
    <3>5. QED
      BY <3>1, <3>2, <3>3, <3>4 DEF NoPid, InUse, Sending, Request
  <2>4. QED
    BY <1>1, <2>1, <2>2, <2>3 DEF msg_send
<1>5. ~Asked(q) /\ ~Ending(q) /\ ~Receiving(q)'
  BY <1>1, <1>4 DEF Asked, Ending, Receiving
<1>6. QED
  BY <1>1, <1>3, <1>4, <1>5, ProgramForks

\* The answer taken by RECEIVE is the one MM is blocked with; who blocks has none.
LEMMA AwaitForks ==
    ASSUME TreeInv, Answers, NEW q \in Procs \ {MM}, Await(q)
    PROVE  Answers'
<1>1. /\ p_flags[q] = {} /\ prog[q] = "recv" /\ msg_receive(q, MM)
      /\ prog' = [prog EXCEPT ![q] = "ret"]
      /\ p_parent' = p_parent /\ call' = call /\ mm_pc' = mm_pc /\ mm' = mm
  BY DEF Await, Running
<1>2. Fields /\ MmWaits
  BY DEF TreeInv
<1>3. prog'[q] = "ret" /\ \A r \in Procs \ {q} : prog'[r] = prog[r]
  BY <1>1, <1>2 DEF Fields
<1>4. ~TakesInterrupt(q, MM)
  BY <1>2 DEF TakesInterrupt, Fields
<1>5. mm_pc \in {"cleanup_wait", "cleanup_exit", "free_wait", "free_exit"}
         /\ q = p_parent[mm.proc] => call[q] # "FORK"
  BY <1>1 DEF Answers, AtCleanup
<1>6. CASE ReceiveQueued(q, MM)
  <2>1. /\ Sending(MM) /\ p_sendto[MM] = q
        /\ \E i \in 1..Len(q_sending[q]) :
              /\ q_sending[q][i] = MM
              /\ p_flags' = [p_flags EXCEPT ![q_sending[q][i]] = @ \ {"SENDING"}]
              /\ buf' = [buf EXCEPT ![q] = buf[q_sending[q][i]]]
    BY <1>6, Constants DEF ReceiveQueued, HasSender
  <2>2. /\ p_flags' = [p_flags EXCEPT ![MM] = @ \ {"SENDING"}]
        /\ buf' = [buf EXCEPT ![q] = buf[MM]]
    BY <2>1
  <2>3. p_flags'[MM] = {} /\ \A r \in Procs \ {MM} : p_flags'[r] = p_flags[r]
    <3>1. p_flags[MM] = {"SENDING"}
      BY <1>2, <2>1 DEF MmWaits, Sending
    <3>2. p_flags \in [Procs -> SUBSET Flags] /\ MM \in Procs
      BY <1>2, Constants DEF Fields
    <3>3. QED
      BY <2>2, <3>1, <3>2
  <2>4. buf'[q] = buf[MM] /\ \A r \in Procs \ {q} : buf'[r] = buf[r]
    BY <1>2, <2>2 DEF Fields
  <2>5. mm_pc \in {"reply", "loop", "free_wait", "free_exit"} /\ (mm_pc = "reply" => q # mm.src)
    BY <1>2, <2>1 DEF MmWaits, Answers, AtReply
  <2>6. call[q] = "FORK" /\ ~NoPid(q)' => Child(q, buf'[q].body.pid)
    BY <1>1, <2>1, <2>4 DEF Answers, Pending, NoPid
  <2>7. InUse(MM)' /\ ~Sending(MM)' /\ ~Receiving(q)' /\ (Ending(q) => Ending(q)')
    BY <1>1, <1>3, <2>3 DEF InUse, Sending, Receiving, Ending
  <2>8. p_flags'[q] = {}
    BY <1>1, <2>3
  <2>9. QED
    BY <1>1, <1>3, <1>5, <2>3, <2>4, <2>5, <2>6, <2>7, <2>8, ProgramForks
<1>7. CASE ReceiveBlock(q, MM)
  <2>1. /\ buf' = [buf EXCEPT ![q].source = q]
        /\ p_flags' = [p_flags EXCEPT ![q] = @ \cup {"RECEIVING"}]
        /\ p_sendto' = p_sendto /\ ~(Sending(MM) /\ p_sendto[MM] = q)
    BY <1>7, Constants DEF ReceiveBlock, HasSender
  <2>2. p_flags'[q] = {"RECEIVING"} /\ \A r \in Procs \ {q} : p_flags'[r] = p_flags[r]
    BY <1>1, <1>2, <2>1 DEF Fields
  <2>3. buf'[q].body = buf[q].body /\ \A r \in Procs \ {q} : buf'[r] = buf[r]
    <3>1. buf[q] \in [source : Procs, body : MmBodies] /\ buf \in [Procs -> [source : Procs, body : MmBodies]]
      BY <1>2 DEF Fields
    <3>2. QED
      BY <2>1, <3>1
  <2>4. NoPid(q)'
    BY <1>1, <2>3 DEF Answers, Unanswered, NoPid
  <2>5. Asked(q)' /\ (Ending(q) => Ending(q)')
    BY <1>1, <1>3, <2>2 DEF Asked, Ending, Sending
  <2>6. InUse(MM)' /\ (Sending(MM)' <=> Sending(MM)) /\ buf'[MM] = buf[MM]
    BY <1>2, <2>2, <2>3, Constants DEF InUse, Sending, MmWaits
  <2>7. QED
    BY <1>1, <1>3, <1>5, <2>1, <2>2, <2>3, <2>4, <2>5, <2>6, ProgramForks
<1>8. QED
  BY <1>1, <1>4, <1>6, <1>7 DEF msg_receive, ReceiveInt

\* A return clears the message.
LEMMA ReturnForks ==
    ASSUME TreeInv, Answers, NEW q \in Procs \ {MM}, Return(q)
    PROVE  Answers'
<1>1. /\ p_flags[q] = {} /\ prog[q] = "ret"
      /\ prog' = [prog EXCEPT ![q] = IF AnswerOK(call[q], buf[q].body) THEN "user" ELSE "spin"]
      /\ call' = [call EXCEPT ![q] = "none"] /\ buf' = [buf EXCEPT ![q] = Cleared(q)]
      /\ p_flags' = p_flags /\ p_parent' = p_parent /\ mm_pc' = mm_pc /\ mm' = mm
      /\ p_sendto' = p_sendto
  BY DEF Return, Running
<1>2. Fields /\ MmWaits
  BY DEF TreeInv
<1>3. /\ prog'[q] \in {"user", "spin"} /\ call'[q] = "none" /\ NoPid(q)'
      /\ call[q] = "EXIT" => prog'[q] = "spin"
  BY <1>1, <1>2 DEF Fields, NoPid, Cleared, Reply, AnswerOK
<1>4. \A r \in Procs \ {q} : prog'[r] = prog[r] /\ call'[r] = call[r] /\ buf'[r] = buf[r]
  BY <1>1, <1>2 DEF Fields
<1>5. ~Asked(q) /\ ~Receiving(q)' /\ (Ending(q) => Ending(q)')
  BY <1>1, <1>3 DEF Asked, Receiving, Ending, Sending
<1>6. InUse(MM)' /\ (Sending(MM)' <=> Sending(MM)) /\ buf'[MM] = buf[MM]
  BY <1>1, <1>2, <1>4, Constants DEF InUse, Sending, MmWaits
<1>7. QED
  BY <1>1, <1>3, <1>4, <1>5, <1>6, ProgramForks

\* A step of MM that neither sends nor touches a program leaves what programs have alone.
LEMMA MmForks ==
    ASSUME TreeInv, Answers, mm_pc # "reply", prog' = prog, call' = call,
           \A r \in Procs \ {MM} :
              /\ buf'[r] = buf[r]
              /\ Receiving(r)' => Receiving(r)
              /\ Waiting(r)' => call[r] = "WAIT",
           ~Sending(MM)',
           mm_pc' = "WAITING" => call[mm'.proc] = "WAIT",
           \A r \in Procs \ {MM} : call[r] = "FORK" /\ prog[r] = "ret" =>
              \A c : Child(r, c) => Child(r, c)',
           AtFork', AtReply', AtCleanup', AtOrphans'
    PROVE  Answers'
<1>1. Unanswered'
  BY DEF Answers, Unanswered, NoPid
<1>2. WaitCalls'
  BY DEF WaitCalls
<1>3. Pending'
  BY DEF Pending
<1>4. Replied'
  BY DEF Answers, Replied, NoPid
<1>5. QED
  BY <1>1, <1>2, <1>3, <1>4 DEF Answers

\* What MM dispatches is answered with no pid, or not yet.
LEMMA SilentForks ==
    ASSUME TreeInv, Answers,
           MmLoop \/ ForkFull \/ FsReply \/ Exec \/ WaitReap \/ WaitNoChild \/ Exit \/ ExitDone
    PROVE  Answers'
<1>1. Fields /\ mm \in MmLocals
  BY DEF TreeInv, Fields, MmLocals
<1>2. {"FORK", "WAIT", "EXIT", "EXEC"} = Calls
  BY DEF Calls
<1>3. /\ prog' = prog /\ call' = call /\ p_flags' = p_flags /\ p_parent' = p_parent
      /\ \A r \in Procs \ {MM} : buf'[r] = buf[r]
  <2>1. CASE MmLoop
    BY <1>1, <2>1, Constants DEF MmLoop, Fields
  <2>2. CASE ForkFull \/ FsReply \/ Exec \/ WaitReap \/ WaitNoChild \/ Exit \/ ExitDone
    BY <2>2 DEF ForkFull, FsReply, Exec, WaitReap, WaitNoChild, Exit, ExitDone, ipcVars, vars
  <2>3. QED
    BY <2>1, <2>2
<1>4. Running(MM) /\ mm_pc \in {"loop", "dispatch", "fs_fork", "fs_exit", "orphans"}
  BY DEF MmLoop, ForkFull, FsReply, Exec, WaitReap, WaitNoChild, Exit, ExitDone, Requested, At
<1>5. ~Sending(MM)'
  BY <1>3, <1>4 DEF Running, Sending
<1>6. \A r \in Procs \ {MM} : (Receiving(r)' => Receiving(r)) /\ (Waiting(r)' => call[r] = "WAIT")
  BY <1>3 DEF Receiving, Waiting, Answers, WaitCalls
<1>7. \A r, c : Child(r, c) => Child(r, c)'
  BY <1>3 DEF Child, InUse
<1>8. \A r : Asked(r) => Asked(r)'
  BY <1>3 DEF Asked
<1>9. /\ mm_pc' # "WAITING" /\ AtFork' /\ AtReply' /\ AtCleanup' /\ AtOrphans'
  <2>1. CASE MmLoop \/ ExitDone
    <3>1. mm_pc' \in {"receive", "loop"}
      BY <2>1 DEF MmLoop, ExitDone
    <3>2. QED
      BY <3>1 DEF AtFork, AtReply, AtCleanup, AtOrphans
  <2>2. CASE FsReply
    <3>1. /\ mm' = mm
          /\ \/ mm_pc = "fs_fork" /\ mm_pc' = "birth"
             \/ mm_pc = "fs_exit" /\ mm_pc' = "exit"
      BY <2>2 DEF FsReply
    <3>2. AtFork'
      BY <1>3, <1>7, <1>8, <3>1 DEF Answers, AtFork
    <3>3. QED
      BY <3>1, <3>2 DEF AtReply, AtCleanup, AtOrphans
  <2>3. CASE ForkFull \/ Exec
    <3>1. mm_pc' \in {"image", "reply"} /\ mm'.reply \in {Reply(0, 0), Reply(0, -1)}
      BY <1>1, <2>3 DEF ForkFull, Exec, MmLocals
    <3>2. mm'.reply.pid = 0
      BY <3>1 DEF Reply
    <3>3. QED
      BY <1>5, <3>1, <3>2 DEF AtFork, AtReply, AtCleanup, AtOrphans
  <2>4. CASE WaitNoChild
    <3>1. /\ Requested("WAIT") /\ mm_pc' = "reply"
          /\ mm' = [mm EXCEPT !.src = buf[MM].source, !.reply = Reply(NO_TASK, 0)]
      BY <2>4 DEF WaitNoChild
    <3>2. PICK q \in Procs \ {MM} : q = buf[MM].source /\ Asked(q) /\ call[q] = "WAIT"
      BY <1>2, <3>1, AtHand
    <3>3. mm'.src = q
      BY <1>1, <3>1, <3>2 DEF MmLocals
    <3>4. QED
      BY <1>3, <1>5, <1>8, <3>1, <3>2, <3>3 DEF AtFork, AtReply, AtCleanup, AtOrphans
  <2>5. CASE WaitReap
    <3>1. PICK Z \in {{s \in Children(buf[MM].source) : Hanging(s)}} :
             Z # {} /\ mm' = [mm EXCEPT !.src = buf[MM].source, !.proc = Min(Z)]
      BY <2>5 DEF WaitReap
    <3>2. Requested("WAIT") /\ mm_pc' = "cleanup_wait"
      BY <2>5 DEF WaitReap
    <3>3. PICK q \in Procs \ {MM} : q = buf[MM].source /\ Asked(q) /\ call[q] = "WAIT"
      BY <1>2, <3>2, AtHand
    <3>4. Z \in SUBSET Nat /\ Z \subseteq Procs
      BY Constants DEF Children
    <3>5. PICK z \in Procs : z = Min(Z) /\ p_parent[z] = q
      BY <3>1, <3>3, <3>4, First DEF Children
    <3>6. p_parent'[mm'.proc] = q
      BY <1>1, <1>3, <3>1, <3>5 DEF MmLocals
    <3>7. QED
      BY <1>3, <3>2, <3>3, <3>6 DEF AtFork, AtReply, AtCleanup, AtOrphans
  <2>6. CASE Exit
    <3>1. mm_pc' = "fs_exit"
      BY <2>6 DEF Exit
    <3>2. QED
      BY <3>1 DEF AtFork, AtReply, AtCleanup, AtOrphans
  <2>7. QED
    BY <2>1, <2>2, <2>3, <2>4, <2>5, <2>6
<1>10. QED
  BY <1>3, <1>4, <1>5, <1>6, <1>7, <1>9, MmForks

\* A request that MM receives gets no answer by that.
LEMMA ReceiveForks ==
    ASSUME TreeInv, Answers, MmReceive
    PROVE  Answers'
<1>1. /\ Running(MM) /\ mm_pc = "receive" /\ msg_receive(MM, ANY) /\ mm_pc' = "dispatch"
      /\ p_parent' = p_parent /\ prog' = prog /\ call' = call /\ mm' = mm
  BY DEF MmReceive, At
<1>2. Fields /\ Requests
  BY DEF TreeInv
<1>3. ~TakesInterrupt(MM, ANY) /\ MM \in Procs
  BY <1>2, Constants DEF TakesInterrupt, Fields
<1>4. /\ \A r \in Procs \ {MM} :
            /\ buf'[r] = buf[r]
            /\ p_flags'[r] = p_flags[r] \/ (p_flags[r] = {"SENDING"} /\ p_flags'[r] = {})
      /\ ~Sending(MM)'
  <2>1. CASE ReceiveQueued(MM, ANY)
    <3>1. PICK i \in 1..Len(q_sending[MM]) :
             /\ buf' = [buf EXCEPT ![MM] = buf[q_sending[MM][i]]]
             /\ p_flags' = [p_flags EXCEPT ![q_sending[MM][i]] = @ \ {"SENDING"}]
      BY <2>1 DEF ReceiveQueued
    <3>2. PICK from \in Procs : from = q_sending[MM][i]
      BY <1>2, QueuedProcs
    <3>3. from # MM /\ p_flags[from] = {"SENDING"}
      BY <1>2, <3>2 DEF Requests
    <3>4. p_flags' = [p_flags EXCEPT ![from] = {}]
      BY <3>1, <3>2, <3>3
    <3>5. p_flags'[from] = {} /\ \A r \in Procs \ {from} : p_flags'[r] = p_flags[r]
      BY <1>2, <3>4 DEF Fields
    <3>6. QED
      BY <1>1, <1>2, <1>3, <3>1, <3>3, <3>5 DEF Fields, Running, Sending
  <2>2. CASE ReceiveBlock(MM, ANY)
    <3>1. /\ buf' = [buf EXCEPT ![MM].source = MM]
          /\ p_flags' = [p_flags EXCEPT ![MM] = @ \cup {"RECEIVING"}]
      BY <2>2 DEF ReceiveBlock
    <3>2. p_flags'[MM] = {"RECEIVING"} /\ \A r \in Procs \ {MM} : p_flags'[r] = p_flags[r]
      BY <1>1, <1>2, <1>3, <3>1 DEF Fields, Running
    <3>3. \A r \in Procs \ {MM} : buf'[r] = buf[r]
      BY <1>2, <3>1 DEF Fields
    <3>4. QED
      BY <3>2, <3>3 DEF Sending
  <2>3. QED
    BY <1>1, <1>3, <2>1, <2>2 DEF msg_receive, ReceiveInt
<1>5. \A r \in Procs \ {MM} : (Receiving(r)' => Receiving(r)) /\ (Waiting(r)' => call[r] = "WAIT")
  BY <1>4 DEF Receiving, Waiting, Answers, WaitCalls
<1>6. \A c \in Procs \ {MM} : InUse(c) => InUse(c)'
  BY <1>4 DEF InUse
<1>7. p_parent[MM] = 0
  BY Constants DEF TreeInv, Entries
<1>8. \A r \in Procs \ {MM} : \A c : Child(r, c) => Child(r, c)'
  BY <1>1, <1>6, <1>7, Constants DEF Child
<1>9. AtFork' /\ AtReply' /\ AtCleanup' /\ AtOrphans'
  BY <1>1 DEF AtFork, AtReply, AtCleanup, AtOrphans
<1>10. QED
  BY <1>1, <1>4, <1>5, <1>8, <1>9, MmForks

\* do_fork: the answer for the parent is the child; parent and child wait for one alike.
LEMMA ForkForks ==
    ASSUME TreeInv, Answers, Fork
    PROVE  Answers'
<1>1. PICK child \in {Min(FreeSlots)}, q \in {buf[MM].source} :
         /\ p_flags' = [p_flags EXCEPT ![child] = p_flags[q]]
         /\ buf' = [buf EXCEPT ![child] = buf[q]]
         /\ prog' = [prog EXCEPT ![child] = prog[q]]
         /\ call' = [call EXCEPT ![child] = call[q]]
         /\ p_parent' = [p_parent EXCEPT ![child] = q]
         /\ mm' = [mm EXCEPT !.src = q, !.proc = child, !.reply = Reply(child, 0)]
  BY DEF Fork
<1>2. Requested("FORK") /\ FreeSlots # {} /\ mm_pc' = "fs_fork"
  BY DEF Fork
<1>3. /\ q \in Procs \ {MM} /\ Asked(q) /\ Live(q) /\ ~Sending(q) /\ call[q] = "FORK"
      /\ mm_pc = "dispatch" /\ p_flags[MM] = {} /\ mm \in MmLocals
  BY <1>1, <1>2, AtHand DEF Calls, Running
<1>4. Fields
  BY DEF TreeInv
<1>5. child \in Procs \ {MM} /\ p_flags[child] = {"FREE_SLOT"} /\ MM \in Procs
  <2>1. FreeSlots \in SUBSET Nat
    BY Constants DEF FreeSlots
  <2>2. child \in FreeSlots
    BY <1>1, <1>2, <2>1, First
  <2>3. QED
    BY <2>2, Constants DEF FreeSlots
<1>6. child # q
  BY <1>3, <1>5 DEF Live, InUse
<1>7. /\ p_flags'[child] = p_flags[q] /\ buf'[child] = buf[q]
      /\ prog'[child] = prog[q] /\ call'[child] = call[q] /\ p_parent'[child] = q
      /\ \A r \in Procs \ {child} :
            /\ p_flags'[r] = p_flags[r] /\ buf'[r] = buf[r]
            /\ prog'[r] = prog[r] /\ call'[r] = call[r] /\ p_parent'[r] = p_parent[r]
  BY <1>1, <1>4, <1>5 DEF Fields
<1>8. NoPid(q)
  BY <1>3 DEF Asked, Receiving, Answers, Unanswered
<1>9. mm'.src = q /\ mm'.proc = child /\ mm'.reply.pid = child
  BY <1>1, <1>3 DEF MmLocals, Reply
<1>10. \A r, c : Child(r, c) => Child(r, c)'
  BY <1>5, <1>7 DEF Child, InUse
<1>11. Unanswered'
  <2>1. \A r \in Procs \ {MM, child} :
           /\ prog'[r] \in {"user", "recv"} => NoPid(r)'
           /\ Receiving(r)' => NoPid(r)' /\ prog'[r] = "ret"
    BY <1>3, <1>7 DEF Answers, Unanswered, NoPid, Receiving
  <2>2. NoPid(child)' /\ (Receiving(child)' => prog'[child] = "ret")
    BY <1>3, <1>7, <1>8 DEF NoPid, Receiving, Asked
  <2>3. QED
    BY <2>1, <2>2 DEF Unanswered
<1>12. WaitCalls'
  <2>1. ~Waiting(child)'
    BY <1>3, <1>7 DEF Asked, Waiting
  <2>2. QED
    BY <1>2, <1>7, <2>1 DEF Answers, WaitCalls, Waiting
<1>13. AtFork'
  <2>1. Asked(q)' /\ call'[q] = "FORK"
    BY <1>3, <1>6, <1>7 DEF Asked
  <2>2. Child(q, child)'
    BY <1>3, <1>5, <1>7 DEF Child, InUse, Live
  <2>3. QED
    BY <1>9, <2>1, <2>2 DEF AtFork
<1>14. Replied'
  <2>1. NoPid(child)'
    BY <1>7, <1>8 DEF NoPid
  <2>2. QED
    BY <1>7, <1>10, <2>1 DEF Answers, Replied, NoPid
<1>15. Pending' /\ AtReply' /\ AtCleanup' /\ AtOrphans'
  BY <1>2, <1>3, <1>5, <1>7 DEF Pending, AtReply, AtCleanup, AtOrphans, Sending
<1>16. QED
  BY <1>11, <1>12, <1>13, <1>14, <1>15 DEF Answers

\* Marks are for who waits or exits, and no answer.
LEMMA MarksForks ==
    ASSUME TreeInv, Answers, WaitBlock \/ ExitHang \/ StoreFlags \/ ExitWaited
    PROVE  Answers'
<1>1. Fields /\ Entries /\ AtWork /\ Tree /\ mm \in MmLocals
  BY DEF TreeInv, Fields, MmLocals
<1>2. /\ p_flags[MM] = {} /\ mm_pc # "reply"
      /\ prog' = prog /\ call' = call /\ p_parent' = p_parent /\ buf' = buf
  BY DEF WaitBlock, ExitHang, StoreFlags, ExitWaited, OrFlag, Requested, At, Running
<1>3. /\ \E q \in Procs \ {MM} :
            /\ InUse(q) /\ "FREE_SLOT" \notin p_flags'[q]
            /\ p_flags'[q] \subseteq p_flags[q] \cup {"WAITING", "HANGING"}
            /\ Waiting(q)' => call[q] = "WAIT"
            /\ \A r \in Procs \ {q} : p_flags'[r] = p_flags[r]
      /\ mm_pc' \in {"loop", "WAITING", "HANGING", "orphans", "cleanup_exit"}
      /\ mm_pc' = "WAITING" => call[mm'.proc] = "WAIT"
      /\ mm_pc' \in {"orphans", "cleanup_exit"} => mm'.src \in Procs /\ Ending(mm'.src)
      /\ mm_pc' = "cleanup_exit" => call[p_parent[mm'.proc]] = "WAIT"
  <2>1. CASE WaitBlock
    <3>1. Requested("WAIT") /\ OrFlag(buf[MM].source, "WAITING", "loop")
      BY <2>1 DEF WaitBlock
    <3>2. PICK q \in Procs \ {MM} : q = buf[MM].source /\ Asked(q) /\ call[q] = "WAIT"
      BY <3>1, AtHand DEF Calls
    <3>3. mm' = [mm EXCEPT !.proc = q, !.flags = p_flags[q]]
      BY <3>1, <3>2 DEF OrFlag
    <3>4. mm'.proc = q
      BY <1>1, <3>3 DEF MmLocals
    <3>5. /\ mm_pc' \in {"loop", "WAITING"}
          /\ \/ p_flags' = p_flags
             \/ p_flags' = [p_flags EXCEPT ![q] = @ \cup {"WAITING"}]
      BY <3>1, <3>2 DEF OrFlag
    <3>6. /\ p_flags'[q] \subseteq p_flags[q] \cup {"WAITING"}
          /\ \A r \in Procs \ {q} : p_flags'[r] = p_flags[r]
      BY <1>1, <3>5 DEF Fields
    <3>7. InUse(q) /\ "FREE_SLOT" \notin p_flags'[q]
      BY <3>2, <3>6 DEF Asked, InUse
    <3>8. QED
      BY <3>2, <3>4, <3>5, <3>6, <3>7
  <2>2. CASE ExitHang
    <3>1. mm_pc = "exit" /\ OrFlag(mm.src, "HANGING", "orphans")
      BY <2>2 DEF ExitHang, At
    <3>2. PICK q \in Procs \ {MM} : q = mm.src
      BY <1>1 DEF MmLocals
    <3>3. Asked(q) /\ call[q] = "EXIT" /\ Ending(q)
      BY <1>1, <3>1, <3>2 DEF AtWork, Asked, Ending, Sending
    <3>4. mm' = [mm EXCEPT !.proc = q, !.flags = p_flags[q]]
      BY <3>1, <3>2 DEF OrFlag
    <3>5. mm'.src = q
      BY <1>1, <3>2, <3>4 DEF MmLocals
    <3>6. /\ mm_pc' \in {"orphans", "HANGING"}
          /\ \/ p_flags' = p_flags
             \/ p_flags' = [p_flags EXCEPT ![q] = @ \cup {"HANGING"}]
      BY <3>1, <3>2 DEF OrFlag
    <3>7. /\ p_flags'[q] \subseteq p_flags[q] \cup {"HANGING"}
          /\ \A r \in Procs \ {q} : p_flags'[r] = p_flags[r]
      BY <1>1, <3>6 DEF Fields
    <3>8. InUse(q) /\ "FREE_SLOT" \notin p_flags'[q] /\ ~Waiting(q)'
      BY <3>3, <3>7 DEF Asked, InUse, Waiting
    <3>9. QED
      BY <3>3, <3>5, <3>6, <3>7, <3>8
  <2>3. CASE StoreFlags
    <3>1. /\ \/ mm_pc = "WAITING" /\ mm_pc' = "loop"
             \/ mm_pc = "HANGING" /\ mm_pc' = "orphans"
          /\ p_flags' = [p_flags EXCEPT ![mm.proc] = mm.flags \cup {mm_pc}] /\ mm' = mm
      BY <2>3 DEF StoreFlags, At
    <3>2. PICK q \in Procs \ {MM} : q = mm.proc
      BY <1>1 DEF MmLocals
    <3>3. mm.flags \subseteq p_flags[q] /\ Asked(q)
      BY <1>1, <3>1, <3>2 DEF AtWork
    <3>4. /\ p_flags'[q] = mm.flags \cup {mm_pc}
          /\ \A r \in Procs \ {q} : p_flags'[r] = p_flags[r]
      BY <1>1, <3>1, <3>2 DEF Fields
    <3>5. InUse(q) /\ "FREE_SLOT" \notin p_flags'[q]
      BY <3>1, <3>3, <3>4 DEF Asked, InUse
    <3>6. Waiting(q)' => call[q] = "WAIT"
      BY <3>1, <3>2, <3>3, <3>4 DEF Waiting, Asked, Answers, WaitCalls
    <3>7. mm_pc = "HANGING" => q = mm.src /\ Ending(q)
      BY <1>1, <3>2, <3>3 DEF AtWork, Asked, Ending, Sending
    <3>8. QED
      BY <3>1, <3>3, <3>4, <3>5, <3>6, <3>7
  <2>4. CASE ExitWaited
    <3>1. /\ mm_pc = "exit" /\ mm_pc' = "cleanup_exit" /\ Waiting(p_parent[mm.src])
          /\ p_flags' = [p_flags EXCEPT ![p_parent[mm.src]] = @ \ {"WAITING"}]
          /\ mm' = [mm EXCEPT !.proc = mm.src]
      BY <2>4 DEF ExitWaited, At
    <3>2. PICK c \in Procs \ {MM} : c = mm.src
      BY <1>1 DEF MmLocals
    <3>3. Asked(c) /\ call[c] = "EXIT"
      BY <1>1, <3>1, <3>2 DEF AtWork
    <3>4. c \in Slots /\ Ending(c) /\ InUse(c)
      BY <1>1, <3>3, Constants DEF Asked, Ending, Entries, Sending, InUse
    <3>5. PICK q \in Procs \ {MM} : q = p_parent[c]
      BY <1>1, <3>1, <3>4, Constants DEF Tree
    <3>6. p_flags'[q] = p_flags[q] \ {"WAITING"} /\ \A r \in Procs \ {q} : p_flags'[r] = p_flags[r]
      BY <1>1, <3>1, <3>2, <3>5 DEF Fields
    <3>7. Waiting(q) /\ call[q] = "WAIT" /\ "FREE_SLOT" \notin p_flags[q] /\ InUse(q)
      BY <1>1, <3>1, <3>2, <3>5 DEF Answers, WaitCalls, Entries, Waiting, InUse
    <3>8. mm'.src = c /\ mm'.proc = c
      BY <1>1, <3>1, <3>2 DEF MmLocals
    <3>9. QED
      BY <3>1, <3>4, <3>5, <3>6, <3>7, <3>8
  <2>5. QED
    BY <2>1, <2>2, <2>3, <2>4
<1>4. PICK q \in Procs \ {MM} :
         /\ InUse(q) /\ "FREE_SLOT" \notin p_flags'[q]
         /\ p_flags'[q] \subseteq p_flags[q] \cup {"WAITING", "HANGING"}
         /\ Waiting(q)' => call[q] = "WAIT"
         /\ \A r \in Procs \ {q} : p_flags'[r] = p_flags[r]
  BY <1>3
<1>5. \A r \in Procs \ {MM} :
         /\ buf'[r] = buf[r] /\ (Receiving(r)' => Receiving(r)) /\ (Waiting(r)' => call[r] = "WAIT")
  BY <1>2, <1>4 DEF Receiving, Waiting, Answers, WaitCalls
<1>6. \A r, c : Child(r, c) => Child(r, c)'
  BY <1>2, <1>4 DEF Child, InUse
<1>7. ~Sending(MM)'
  BY <1>2, <1>4, Constants DEF Sending
<1>8. AtFork' /\ AtReply'
  BY <1>3 DEF AtFork, AtReply
<1>9. AtCleanup'
  BY <1>2, <1>3 DEF AtCleanup
<1>10. AtOrphans'
  <2>1. \A r : prog'[r] = prog[r] /\ call'[r] = call[r]
    BY <1>2
  <2>2. mm_pc' \in {"orphans", "cleanup_exit"} => Ending(mm'.src) /\ mm'.src \in Procs
    BY <1>3
  <2>3. \A r \in Procs : Sending(r)' => Sending(r)
    BY <1>4 DEF Sending
  <2>4. QED
    BY <1>3, <2>1, <2>2, <2>3 DEF AtOrphans, Ending
<1>11. QED
  BY <1>2, <1>3, <1>5, <1>6, <1>7, <1>8, <1>9, <1>10, MmForks

\* do_exec: the caller is in its new program, where only the answer finds it.
LEMMA ExecImageForks ==
    ASSUME TreeInv, Answers, ExecImage
    PROVE  Answers'
<1>1. /\ p_flags[MM] = {} /\ mm_pc = "image" /\ mm_pc' = "reply"
      /\ prog' = [prog EXCEPT ![mm.src] = "user"] /\ call' = [call EXCEPT ![mm.src] = "none"]
      /\ UNCHANGED <<p_flags, p_sendto, buf, p_parent, mm>>
  BY DEF ExecImage, At, Running, ipcVars, vars
<1>2. Fields /\ AtWork
  BY DEF TreeInv
<1>3. PICK q \in Procs \ {MM} : q = mm.src
  BY <1>2 DEF Fields
<1>4. Asked(q) /\ call[q] = "EXEC" /\ mm.reply.pid = 0
  BY <1>1, <1>2, <1>3 DEF AtWork, Answers, AtReply
<1>5. /\ prog'[q] = "user" /\ call'[q] = "none"
      /\ \A r \in Procs \ {q} : prog'[r] = prog[r] /\ call'[r] = call[r]
  BY <1>1, <1>2, <1>3 DEF Fields
<1>6. NoPid(q) /\ ~Waiting(q)
  BY <1>4 DEF Asked, Waiting, Receiving, Answers, Unanswered
<1>7. \A r : /\ NoPid(r)' <=> NoPid(r)
             /\ Receiving(r)' <=> Receiving(r)
             /\ Waiting(r)' <=> Waiting(r)
  BY <1>1 DEF NoPid, Receiving, Waiting
<1>8. Unanswered'
  <2>1. \A r \in Procs \ {MM, q} :
           /\ prog'[r] \in {"user", "recv"} => NoPid(r)'
           /\ Receiving(r)' => NoPid(r)' /\ prog'[r] = "ret"
    BY <1>1, <1>3, <1>5, <1>7 DEF Answers, Unanswered
  <2>2. NoPid(q)' /\ mm_pc' = "reply" /\ q = mm'.src
    BY <1>1, <1>3, <1>6, <1>7
  <2>3. QED
    BY <2>1, <2>2 DEF Unanswered
<1>9. WaitCalls'
  BY <1>1, <1>5, <1>6, <1>7 DEF Answers, WaitCalls
<1>10. \A r, c : Child(r, c) => Child(r, c)'
  BY <1>1 DEF Child, InUse
<1>11. Replied'
  BY <1>5, <1>7, <1>10, <1>1 DEF Answers, Replied
<1>12. ~Sending(MM)'
  BY <1>1 DEF Sending
<1>13. AtReply'
  BY <1>1, <1>4, <1>12 DEF AtReply
<1>14. AtFork' /\ Pending' /\ AtCleanup' /\ AtOrphans'
  BY <1>1, <1>12 DEF AtFork, Pending, AtCleanup, AtOrphans
<1>15. QED
  BY <1>8, <1>9, <1>11, <1>13, <1>14 DEF Answers

\* What msg_send of MM does when it does not panic: the message is delivered to who
\* waits for it, and otherwise MM is blocked with it.
LEMMA MmSends ==
    ASSUME TreeInv, Running(MM), NEW d \in Procs \ {MM}, NEW b, msg_send(MM, d, b), ~halted'
    PROVE  /\ \A r \in Procs \ {MM, d} : p_flags'[r] = p_flags[r] /\ buf'[r] = buf[r]
           /\ \/ /\ Receiving(d) /\ buf'[d].body = b
                 /\ p_flags'[d] = p_flags[d] \ {"RECEIVING"} /\ ~Sending(MM)'
              \/ /\ ~Receiving(d) /\ buf'[d] = buf[d] /\ p_flags'[d] = p_flags[d]
                 /\ p_sendto'[MM] = d /\ buf'[MM].body = b
<1>1. Fields /\ Entries /\ p_flags[MM] = {} /\ MM \in Procs
  BY Constants DEF TreeInv, Running
<1>2. AcceptsFrom(d, MM) <=> Receiving(d)
  BY <1>1 DEF AcceptsFrom, Entries
<1>3. CASE SendPanic(MM, d)
  BY <1>3 DEF SendPanic
<1>4. CASE SendDeliver(MM, d, b)
  BY <1>1, <1>2, <1>4 DEF SendDeliver, Fields, Sending
<1>5. CASE SendBlock(MM, d, b)
  BY <1>1, <1>2, <1>5 DEF SendBlock, Fields
<1>6. QED
  BY <1>3, <1>4, <1>5 DEF msg_send

\* An answer of MM that is a pid is of a child, if it is for a caller of fork.
LEMMA SendForks ==
    ASSUME TreeInv, Answers, ~halted', Running(MM), NEW d \in Procs \ {MM}, NEW b \in MmBodies,
           msg_send(MM, d, b), UNCHANGED <<p_parent, prog, call, mm, setting>>,
           mm_pc' \in {"reply", "loop", "free_wait", "free_exit"},
           b.pid # 0 => /\ Receiving(d) => prog[d] = "ret"
                        /\ call[d] = "FORK" /\ (Receiving(d) \/ p_flags[d] # {"SENDING"}) =>
                              Child(d, b.pid),
           \A r \in Procs \ {MM, d} : Receiving(r) => mm_pc # "reply" \/ r # mm.src,
           AtReply', AtCleanup', AtOrphans'
    PROVE  Answers'
<1>1. /\ \A r \in Procs \ {MM, d} : p_flags'[r] = p_flags[r] /\ buf'[r] = buf[r]
      /\ \/ /\ Receiving(d) /\ buf'[d].body = b
            /\ p_flags'[d] = p_flags[d] \ {"RECEIVING"} /\ ~Sending(MM)'
         \/ /\ ~Receiving(d) /\ buf'[d] = buf[d] /\ p_flags'[d] = p_flags[d]
            /\ p_sendto'[MM] = d /\ buf'[MM].body = b
  BY MmSends
<1>2. \A r \in Procs \ {MM} : InUse(r) <=> InUse(r)'
  BY MmSendFrame
<1>3. p_parent[MM] = 0
  BY Constants DEF TreeInv, Entries
<1>4. \A r \in Procs \ {MM} : \A c : Child(r, c) => Child(r, c)'
  BY <1>2, <1>3, Constants DEF Child
<1>5. \A r \in Procs \ {MM, d} : NoPid(r)' <=> NoPid(r)
  BY <1>1 DEF NoPid
<1>6. Unanswered'
  <2>1. \A r \in Procs \ {MM, d} :
           /\ prog'[r] \in {"user", "recv"} => NoPid(r)'
           /\ Receiving(r)' => NoPid(r)' /\ prog'[r] = "ret"
    BY <1>1, <1>5 DEF Answers, Unanswered, Receiving
  <2>2. ~Receiving(d)'
    BY <1>1 DEF Receiving
  <2>3. prog'[d] \in {"user", "recv"} => NoPid(d)'
    <3>1. CASE Receiving(d)
      BY <1>1, <3>1 DEF NoPid
    <3>2. CASE ~Receiving(d)
      BY <1>1, <3>2 DEF NoPid, Answers, Unanswered
    <3>3. QED
      BY <3>1, <3>2
  <2>4. QED
    BY <2>1, <2>2, <2>3 DEF Unanswered
<1>7. WaitCalls'
  BY <1>1 DEF Answers, WaitCalls, Waiting
<1>8. Pending'
  <2> SUFFICES ASSUME Sending(MM)' PROVE Pending'
    BY DEF Pending
  <2>1. /\ ~Receiving(d) /\ p_flags'[d] = p_flags[d] /\ p_sendto'[MM] = d /\ buf'[MM].body = b
    BY <1>1
  <2>2. b.pid # 0 /\ call[d] = "FORK" /\ p_flags[d] # {"SENDING"} => Child(d, b.pid)'
    BY <1>4
  <2>3. QED
    BY <2>1, <2>2 DEF Pending, NoPid, Child, InUse
<1>9. Replied'
  <2>1. \A r \in Procs \ {MM, d} :
           call'[r] = "FORK" /\ prog'[r] = "ret" /\ ~NoPid(r)' => Child(r, buf[r].body.pid)'
    BY <1>1, <1>4, <1>5 DEF Answers, Replied, Child
  <2>2. call'[d] = "FORK" /\ prog'[d] = "ret" /\ ~NoPid(d)' => Child(d, buf[d].body.pid)'
    <3>1. CASE Receiving(d)
      BY <1>1, <1>4, <3>1 DEF NoPid, Child
    <3>2. CASE ~Receiving(d)
      BY <1>1, <1>4, <3>2 DEF NoPid, Answers, Replied, Child
    <3>3. QED
      BY <3>1, <3>2
  <2>3. QED
    BY <2>1, <2>2 DEF Replied, Child
<1>10. AtFork'
  BY DEF AtFork
<1>11. QED
  BY <1>6, <1>7, <1>8, <1>9, <1>10 DEF Answers

\* do_fork tells the child 0 and the parent the child; cleanup tells the pid of who exits
\* to a parent that is in no call of fork.
LEMMA SendsForks ==
    ASSUME TreeInv, Answers, ~halted', UNCHANGED setting, Birth \/ SendReply \/ Cleanup
    PROVE  Answers'
<1>1. Fields /\ Entries /\ mm \in MmLocals
  BY DEF TreeInv, Fields, MmLocals
<1>2. Running(MM) /\ UNCHANGED <<p_parent, prog, call, mm, setting>>
  BY DEF Birth, SendReply, Cleanup, At
<1>3. PICK q \in Procs \ {MM}, c \in Procs \ {MM} : q = mm.src /\ c = mm.proc
  BY <1>1 DEF MmLocals
<1>4. CASE Birth
  <2>1. mm_pc = "birth" /\ mm_pc' = "reply" /\ msg_send(MM, c, Reply(0, 0))
    BY <1>3, <1>4 DEF Birth, At
  <2>2. Reply(0, 0) \in MmBodies /\ Reply(0, 0).pid = 0
    BY Constants DEF Reply
  <2>3. Asked(q) /\ call[q] = "FORK" /\ mm.reply.pid = c /\ Child(q, c)
    BY <1>3, <2>1 DEF Answers, AtFork
  <2>4. q # c
    BY <1>1, <2>3 DEF Child, Entries
  <2>5. /\ p_flags'[q] = p_flags[q]
        /\ Sending(MM)' => p_sendto'[MM] = c /\ buf'[MM].body = Reply(0, 0)
    BY <1>2, <2>1, <2>4, MmSends
  <2>6. InUse(c)'
    BY <1>2, <2>1, <2>2, <2>3, MmSendFrame DEF Child
  <2>7. Asked(q)' /\ Child(q, c)'
    BY <1>2, <2>3, <2>5, <2>6 DEF Asked, Child
  <2>8. AtReply'
    BY <1>2, <1>3, <2>1, <2>2, <2>3, <2>4, <2>5, <2>7 DEF AtReply, NoPid
  <2>9. AtCleanup' /\ AtOrphans'
    BY <2>1 DEF AtCleanup, AtOrphans
  <2>10. QED
    BY <1>2, <2>1, <2>2, <2>8, <2>9, SendForks
<1>5. CASE SendReply
  <2>1. mm_pc = "reply" /\ mm_pc' = "loop" /\ msg_send(MM, q, mm.reply)
    BY <1>3, <1>5 DEF SendReply, At
  <2>2. mm.reply \in MmBodies
    BY <1>1 DEF MmLocals
  <2>3. mm.reply.pid # 0 => Asked(q) /\ (call[q] = "FORK" => Child(q, mm.reply.pid))
    BY <1>3, <2>1 DEF Answers, AtReply
  <2>4. mm.reply.pid # 0 => (Receiving(q) => prog[q] = "ret")
    BY <2>3 DEF Asked, Receiving
  <2>5. AtReply' /\ AtCleanup' /\ AtOrphans'
    BY <2>1 DEF AtReply, AtCleanup, AtOrphans
  <2>6. QED
    BY <1>2, <1>3, <2>1, <2>2, <2>3, <2>4, <2>5, SendForks
<1>6. CASE Cleanup
  <2>1. /\ \/ mm_pc = "cleanup_wait" /\ mm_pc' = "free_wait"
           \/ mm_pc = "cleanup_exit" /\ mm_pc' = "free_exit"
        /\ msg_send(MM, p_parent[c], Reply(c, 0))
    BY <1>3, <1>6 DEF Cleanup, At
  <2>2. PICK d \in Procs \ {MM} : d = p_parent[c]
    BY <1>3, <2>1, ParentAtCleanup
  <2>3. call[d] = "FORK" => p_flags[d] = {"SENDING"} /\ prog[d] = "recv"
    BY <1>3, <2>1, <2>2 DEF Answers, AtCleanup
  <2>4. ~(call[d] = "FORK" /\ (Receiving(d) \/ p_flags[d] # {"SENDING"}))
    BY <2>3 DEF Receiving
  <2>5. Receiving(d) => prog[d] = "ret"
    BY <2>1 DEF Answers, Unanswered
  <2>6. Reply(c, 0) \in MmBodies
    BY Constants
  <2>7. msg_send(MM, d, Reply(c, 0))
    BY <2>1, <2>2
  <2>8. p_flags'[d] = p_flags[d] \/ Receiving(d)
    BY <1>2, <2>7, MmSends
  <2>9. AtCleanup'
    <3>1. call[d] = "FORK" => p_flags'[d] = {"SENDING"} /\ prog[d] = "recv"
      BY <2>3, <2>8 DEF Receiving
    <3>2. QED
      BY <1>2, <1>3, <2>2, <3>1 DEF AtCleanup
  <2>10. AtOrphans'
    <3>1. (Ending(q) <=> Ending(q)') /\ (InUse(q) <=> InUse(q)')
      BY <1>2, <2>1, <2>6, <2>7, MmSendFrame
    <3>2. mm_pc = "cleanup_exit" => Ending(q) \/ (~InUse(q) /\ call[q] # "FORK")
      BY <1>3 DEF Answers, AtOrphans
    <3>3. mm'.src = q /\ call' = call
      BY <1>2, <1>3
    <3>4. QED
      BY <2>1, <3>1, <3>2, <3>3 DEF AtOrphans
  <2>11. AtReply'
    BY <2>1 DEF AtReply
  <2>12. QED
    BY <1>2, <2>1, <2>4, <2>5, <2>6, <2>7, <2>9, <2>10, <2>11, SendForks
<1>7. QED
  BY <1>4, <1>5, <1>6

\* A child whose slot is freed is not what fork returns: its parent is not at the return.
LEMMA FreeSlotForks ==
    ASSUME TreeInv, Answers, FreeSlot
    PROVE  Answers'
<1>1. /\ p_flags[MM] = {}
      /\ \/ mm_pc = "free_wait" /\ mm_pc' = "loop"
         \/ mm_pc = "free_exit" /\ mm_pc' = "orphans"
      /\ p_flags' = [p_flags EXCEPT ![mm.proc] = {"FREE_SLOT"}]
      /\ prog' = [prog EXCEPT ![mm.proc] = "user"] /\ call' = [call EXCEPT ![mm.proc] = "none"]
      /\ buf' = [buf EXCEPT ![mm.proc] = Cleared(mm.proc)]
      /\ p_parent' = p_parent /\ mm' = mm
  BY DEF FreeSlot, At, Running
<1>2. Fields
  BY DEF TreeInv
<1>3. PICK z \in Procs \ {MM} : z = mm.proc
  BY <1>2 DEF Fields
<1>4. /\ p_flags'[z] = {"FREE_SLOT"} /\ prog'[z] = "user" /\ call'[z] = "none"
      /\ buf'[z] = Cleared(z)
      /\ \A r \in Procs \ {z} : /\ p_flags'[r] = p_flags[r] /\ buf'[r] = buf[r]
                                /\ prog'[r] = prog[r] /\ call'[r] = call[r]
  BY <1>1, <1>2, <1>3 DEF Fields
<1>5. \A r \in Procs \ {MM} : call[r] = "FORK" /\ prog[r] = "ret" => p_parent[z] # r
  BY <1>1, <1>3 DEF Answers, AtCleanup
<1>6. NoPid(z)' /\ ~Receiving(z)' /\ ~Waiting(z)'
  BY <1>4 DEF NoPid, Receiving, Waiting, Cleared, Reply
<1>7. \A r \in Procs \ {z} : /\ NoPid(r)' <=> NoPid(r)
                             /\ Receiving(r)' <=> Receiving(r)
                             /\ Waiting(r)' <=> Waiting(r)
  BY <1>4 DEF NoPid, Receiving, Waiting
<1>8. Unanswered'
  BY <1>1, <1>4, <1>6, <1>7 DEF Answers, Unanswered
<1>9. WaitCalls'
  BY <1>1, <1>4, <1>6, <1>7 DEF Answers, WaitCalls
<1>10. Replied'
  <2> SUFFICES ASSUME NEW r \in Procs \ {MM}, call'[r] = "FORK", prog'[r] = "ret", ~NoPid(r)'
               PROVE  Child(r, buf[r].body.pid)'
    BY DEF Replied, Child, InUse
  <2>1. r # z
    BY <1>4
  <2>2. PICK c \in {buf[r].body.pid} : Child(r, c) /\ call[r] = "FORK" /\ prog[r] = "ret"
    BY <1>4, <1>7, <2>1 DEF Answers, Replied
  <2>3. c \in Procs \ {z} /\ p_parent[c] = r /\ p_flags[c] # {"FREE_SLOT"}
    BY <1>5, <2>2 DEF Child, InUse
  <2>4. c = buf'[r].body.pid
    BY <1>4, <2>1, <2>2
  <2>5. QED
    BY <1>1, <1>4, <2>3, <2>4 DEF Child, InUse
<1>11. AtOrphans'
  <2>1. CASE mm.src = z
    BY <1>1, <1>4, <2>1 DEF AtOrphans, InUse
  <2>2. CASE mm.src # z
    <3>1. PICK q \in Procs \ {z} : q = mm.src /\ q = mm'.src
      BY <1>1, <1>2, <2>2 DEF Fields
    <3>2. (Ending(q)' <=> Ending(q)) /\ (InUse(q)' <=> InUse(q)) /\ call'[q] = call[q]
      BY <1>4, <3>1 DEF Ending, Sending, InUse
    <3>3. QED
      BY <1>1, <3>1, <3>2 DEF Answers, AtOrphans
  <2>3. QED
    BY <2>1, <2>2
<1>12. ~Sending(MM)'
  BY <1>1, <1>4, <1>3, Constants DEF Sending
<1>13. AtFork' /\ AtReply' /\ Pending' /\ AtCleanup'
  BY <1>1, <1>12 DEF AtFork, AtReply, Pending, AtCleanup
<1>14. QED
  BY <1>8, <1>9, <1>10, <1>11, <1>13 DEF Answers

\* do_exit takes children away from nobody who returns from fork: their parent exits.
LEMMA AdoptForks ==
    ASSUME TreeInv, Answers, Adopt
    PROVE  Answers'
<1>1. /\ p_flags[MM] = {} /\ mm_pc = "orphans" /\ Orphans # {}
      /\ buf' = buf /\ prog' = prog /\ call' = call
  BY DEF Adopt, At, Running
<1>2. PICK s \in {Min(Orphans)} :
         /\ p_parent' = [p_parent EXCEPT ![s] = PID_INIT]
         /\ mm' = [mm EXCEPT !.next = s + 1, !.proc = s]
         /\ IF p_flags[PID_INIT] = {"WAITING"} /\ p_flags[s] = {"HANGING"}
            THEN /\ p_flags' = [p_flags EXCEPT ![s] = @ \ {"HANGING"}]
                 /\ mm_pc' = "cleanup_exit"
            ELSE UNCHANGED <<p_flags, mm_pc>>
  BY DEF Adopt
<1>3. Fields /\ Entries /\ mm \in MmLocals
  BY DEF TreeInv, Fields, MmLocals
<1>4. PICK src \in Procs \ {MM} : src = mm.src
  BY <1>3 DEF MmLocals
<1>5. s \in Procs /\ p_parent[s] = src /\ s \in Nat
  <2>1. Orphans \in SUBSET Nat
    BY Constants DEF Orphans, Children
  <2>2. s \in Orphans
    BY <1>1, <1>2, <2>1, First
  <2>3. QED
    BY <1>4, <2>2, Constants DEF Orphans, Children
<1>6. s # src /\ s # MM
  BY <1>3, <1>4, <1>5, Constants DEF Entries
<1>7. mm'.src = src /\ mm'.proc = s
  BY <1>2, <1>3, <1>4, <1>5, <1>6 DEF MmLocals
<1>8. p_parent'[s] = PID_INIT /\ \A r \in Procs \ {s} : p_parent'[r] = p_parent[r]
  BY <1>2, <1>3, <1>5 DEF Fields
<1>9. /\ \A r \in Procs \ {s} : p_flags'[r] = p_flags[r]
      /\ p_flags'[s] \subseteq p_flags[s] /\ (InUse(s) => InUse(s)')
      /\ \/ mm_pc' = "orphans"
         \/ mm_pc' = "cleanup_exit" /\ Waiting(PID_INIT)
  BY <1>1, <1>2, <1>3, <1>5 DEF Fields, InUse, Waiting
<1>10. Ending(src) \/ (~InUse(src) /\ call[src] # "FORK")
  BY <1>1, <1>4 DEF Answers, AtOrphans
<1>11. \A r \in Procs \ {MM} : call[r] = "FORK" /\ prog[r] = "ret" =>
          \A c : Child(r, c) => Child(r, c)'
  <2> SUFFICES ASSUME NEW r \in Procs \ {MM}, NEW c, call[r] = "FORK", prog[r] = "ret", Child(r, c)
               PROVE  Child(r, c)'
    OBVIOUS
  <2>1. r # src
    BY <1>10 DEF Ending
  <2>2. c # s
    BY <1>5, <2>1 DEF Child
  <2>3. QED
    BY <1>8, <1>9, <2>2 DEF Child, InUse
<1>12. AtCleanup'
  <2>1. Waiting(PID_INIT) => call[PID_INIT] = "WAIT"
    BY Constants DEF Answers, WaitCalls
  <2>2. QED
    BY <1>1, <1>7, <1>8, <1>9, <2>1 DEF AtCleanup
<1>13. AtOrphans'
  <2>1. (Ending(src) => Ending(src)') /\ (~InUse(src) => ~InUse(src)')
    BY <1>1, <1>6, <1>9 DEF Ending, Sending, InUse
  <2>2. QED
    BY <1>1, <1>7, <1>10, <2>1 DEF AtOrphans
<1>14. /\ \A r \in Procs \ {MM} : /\ buf'[r] = buf[r] /\ (Receiving(r)' => Receiving(r))
                                  /\ Waiting(r)' => call[r] = "WAIT"
       /\ ~Sending(MM)' /\ AtFork' /\ AtReply'
  <2>1. \A r \in Procs : p_flags'[r] \subseteq p_flags[r]
    BY <1>9
  <2>2. QED
    BY <1>1, <1>9, <2>1, Constants
       DEF Receiving, Waiting, Sending, AtFork, AtReply, Answers, WaitCalls
<1>15. QED
  BY <1>1, <1>9, <1>11, <1>12, <1>13, <1>14, MmForks

\* Every step of a program or of MM keeps the answers right, until the kernel panics.
LEMMA ForkNext == TreeInv /\ ForkInv /\ [MmNext]_allVars => ForkInv'
<1> SUFFICES ASSUME TreeInv, ForkInv, [MmNext]_allVars, ~halted' PROVE Answers'
  BY DEF ForkInv
<1>1. CASE MmNext
  <2>1. Answers /\ UNCHANGED setting /\ setting \in Settings
    BY <1>1 DEF MmNext, ForkInv, TreeInv, Fields
  <2>2. \A q \in Procs : setting.calls[q] \subseteq Calls
    BY <2>1, MmAssumption DEF Calls
  <2>3. ASSUME NEW q \in Procs \ {MM}, NEW c \in setting.calls[q], Call(q, c)
        PROVE  Answers'
    BY <2>1, <2>2, <2>3, CallForks
  <2>4. ASSUME NEW q \in Procs \ {MM}, Await(q) \/ Return(q)
        PROVE  Answers'
    BY <2>1, <2>4, AwaitForks, ReturnForks
  <2>5. CASE MmStep
    BY <2>1, <2>5, SilentForks, ReceiveForks, ForkForks, SendsForks, ExecImageForks,
       MarksForks, FreeSlotForks, AdoptForks DEF MmStep
  <2>6. QED
    BY <1>1, <2>3, <2>4, <2>5 DEF MmNext
<1>2. CASE UNCHANGED allVars
  <2>1. /\ UNCHANGED <<p_flags, p_sendto, buf, halted>>
        /\ UNCHANGED <<p_parent, prog, call, mm_pc, mm>>
    BY <1>2 DEF allVars, ipcVars, mmVars, vars
  <2>2. Answers
    BY <2>1 DEF ForkInv
  <2>3. Unanswered' /\ WaitCalls' /\ AtFork' /\ AtReply'
    BY <2>1, <2>2 DEF Answers, Unanswered, WaitCalls, AtFork, AtReply, NoPid, Receiving, Waiting,
       Sending, Asked, Child, InUse
  <2>4. Pending' /\ AtCleanup' /\ AtOrphans' /\ Replied'
    BY <2>1, <2>2 DEF Answers, Pending, AtCleanup, AtOrphans, Replied, NoPid, Sending, Ending,
       Child, InUse
  <2>5. QED
    BY <2>3, <2>4 DEF Answers
<1>3. QED
  BY <1>1, <1>2

\* The pid that fork() returns in the parent is that of a child that is not reaped yet,
\* whatever MM and other programs did between the request and the return.
THEOREM ForkReturnsChild == MmSpec => ForkResult
<1>1. ForkInv /\ [MmNext]_allVars => [ForkResultStep]_allVars
  <2> SUFFICES ASSUME ForkInv, MmNext PROVE ForkResultStep
    OBVIOUS
  <2>1. Replied
    BY DEF MmNext, ForkInv, Answers
  <2>2. QED
    BY <2>1 DEF Replied, ForkResultStep, NoPid, Child, InUse
<1>2. QED
  BY <1>1, TreeInvariant, ForkInit, ForkNext, PTL DEF MmSpec, ForkResult

(***************************************************************************)
(* The words of a command                                                  *)
(***************************************************************************)

\* Where word j begins in the line buffer, or where the next one may.
Place(j) == IF j <= Len(argv) THEN argv[j] ELSE IF word THEN rd_s ELSE rd_p

\* The words found so far: each ends with a zero before the next begins.
WordsEnd ==
    \A j \in 1..Len(argv) :
        /\ Place(j + 1) <= rd_p
        /\ \E e \in Place(j)..(Place(j + 1) - 1) : rdbuf[e] = 0 /\ \A i \in Place(j)..(e - 1) : rdbuf[i] # 0

\* Every word takes two bytes of the line, its end included, and while the line is
\* split, what is ahead is as it was read.
LineSplit ==
    /\ rd_p <= Len(line) + 1 /\ 2 * Len(argv) + (IF word THEN 1 ELSE 0) <= rd_p
    /\ word => rd_s < rd_p /\ \A i \in rd_s..(rd_p - 1) : rdbuf[i] # 0
    /\ exec_pc = "split" => rd_p <= Len(line) /\ rdbuf[Len(line)] = 0

\* arg_stack holds a pointer for each argument and a zero, and of the words no more
\* than the line has before the next one.
StackUsed ==
    /\ args_done <= Len(argv)
    /\ exec_pc \in {"split", "open"} => args_done = 0 /\ stack_len = 0
    /\ exec_pc = "count" => stack_len = Ptr * args_done
    /\ exec_pc = "copy" => stack_len <= Ptr * (Len(argv) + 1) + Place(args_done + 1)
    /\ stack_len <= STACK

ExecInv ==
    /\ Len(line) \in 0..LINE /\ rdbuf \in [0..(RDBUF - 1) -> Nat]
    /\ rd_p \in Nat /\ rd_s \in Nat /\ word \in BOOLEAN /\ argv \in Seq(Nat)
    /\ stack_len \in Nat /\ args_done \in Nat
    /\ exec_pc \in {"split", "open", "count", "copy", "load", "stack", "run", "done"}
    /\ WordsEnd /\ LineSplit /\ StackUsed

\* The buffers are large enough for a line of as many words as fit into it.
LEMMA Buffers ==
    /\ LINE \in Nat /\ RDBUF \in Nat /\ STACK \in Nat /\ LINE < RDBUF
    /\ \A n \in Nat : 2 * n <= LINE + 1 => Ptr * (n + 1) + LINE + 1 < STACK
<1>1. LINE \in Nat /\ RDBUF \in Nat /\ STACK \in Nat /\ LINE < RDBUF
  BY ExecAssumption
<1>2. Ptr * ((LINE + 1) \div 2 + 1) + LINE + 1 < STACK
  BY ExecAssumption
<1>3. PICK h \in Nat : h = (LINE + 1) \div 2 /\ 2 * h <= LINE + 1 /\ LINE + 1 <= 2 * h + 1
  BY <1>1
<1>4. QED
  BY <1>1, <1>2, <1>3 DEF Ptr

\* The string at address a ends at its first zero.
LEMMA StringLength ==
    ASSUME NEW m, NEW a \in Nat, NEW e \in Nat, a <= e, e - a <= STACK,
           m[e] = 0, \A i \in a..(e - 1) : m[i] # 0
    PROVE  Len(StrAt(m, a)) = e - a
<1>1. STACK \in Nat
  BY Buffers
<1>2. PICK n \in Nat : n = e - a /\ n \in 0..STACK
  BY <1>1
<1>3. m[a + n] = 0 /\ \A i \in 0..(n - 1) : m[a + i] # 0
  BY <1>2
<1>4. \A x \in 0..STACK : m[a + x] = 0 /\ (\A i \in 0..(x - 1) : m[a + i] # 0) => x = n
  BY <1>1, <1>2, <1>3
<1>5. StrLen(m, a) = n
  BY <1>2, <1>3, <1>4 DEF StrLen
<1>6. QED
  BY <1>2, <1>5 DEF StrAt

\* Words lie in what has been read of the line.
LEMMA Places ==
    ASSUME ExecInv, NEW j \in 1..(Len(argv) + 1)
    PROVE  Len(argv) \in Nat /\ Place(j) \in Nat /\ Place(j) <= rd_p /\ rd_p <= LINE + 1
<1>1. /\ argv \in Seq(Nat) /\ rd_p \in Nat /\ rd_s \in Nat
      /\ Len(line) \in 0..LINE /\ LINE \in Nat /\ (word => rd_s < rd_p)
  BY Buffers DEF ExecInv, LineSplit
<1>2. Len(argv) \in Nat /\ \A i \in 1..Len(argv) : argv[i] \in Nat
  BY <1>1
<1>3. rd_p <= LINE + 1
  BY <1>1 DEF ExecInv, LineSplit
<1>4. \A i \in Nat \ {0} : Place(i) \in Nat
  BY <1>1, <1>2 DEF Place
<1>5. CASE j <= Len(argv)
  <2>1. PICK a \in Nat, b \in Nat : a = Place(j) /\ b = Place(j + 1)
    BY <1>2, <1>4
  <2>2. j \in 1..Len(argv)
    BY <1>2, <1>5
  <2>3. b <= rd_p /\ \E e \in a..(b - 1) : TRUE
    BY <2>1, <2>2 DEF ExecInv, WordsEnd
  <2>4. QED
    BY <1>1, <1>2, <1>3, <2>1, <2>3
<1>6. CASE j > Len(argv)
  BY <1>1, <1>2, <1>3, <1>6 DEF Place
<1>7. QED
  BY <1>2, <1>5, <1>6

\* A word and its zero lie before the next word.
LEMMA WordLength ==
    ASSUME ExecInv, NEW j \in 1..Len(argv)
    PROVE  /\ Len(StrAt(rdbuf, argv[j])) \in Nat
           /\ Place(j) + Len(StrAt(rdbuf, argv[j])) + 1 <= Place(j + 1)
<1>1. Len(argv) \in Nat /\ Place(j) = argv[j] /\ argv[j] \in Nat
  BY DEF Place, ExecInv
<1>2. Place(j + 1) \in Nat /\ Place(j + 1) <= LINE + 1
  <2>1. j + 1 \in 1..(Len(argv) + 1)
    BY <1>1
  <2>2. PICK b \in Nat : b = Place(j + 1) /\ b <= rd_p /\ rd_p <= LINE + 1 /\ rd_p \in Nat /\ LINE \in Nat
    BY <2>1, Places, Buffers DEF ExecInv
  <2>3. QED
    BY <2>2
<1>3. PICK e \in Place(j)..(Place(j + 1) - 1) : rdbuf[e] = 0 /\ \A i \in Place(j)..(e - 1) : rdbuf[i] # 0
  BY DEF ExecInv, WordsEnd
<1>4. LINE + 1 < STACK
  <2>1. Ptr * (0 + 1) + LINE + 1 < STACK
    BY Buffers
  <2>2. QED
    BY <2>1, Buffers DEF Ptr
<1>5. e \in Nat /\ argv[j] <= e /\ e - argv[j] <= STACK
  <2>1. PICK a \in Nat, b \in Nat : a = argv[j] /\ b = Place(j + 1) /\ b <= LINE + 1 /\ e \in a..(b - 1)
    BY <1>1, <1>2, <1>3
  <2>2. LINE \in Nat /\ STACK \in Nat
    BY Buffers
  <2>3. QED
    BY <1>4, <2>1, <2>2
<1>6. Len(StrAt(rdbuf, argv[j])) = e - argv[j]
  <2>1. rdbuf[e] = 0 /\ \A i \in argv[j]..(e - 1) : rdbuf[i] # 0
    BY <1>1, <1>3
  <2>2. QED
    BY <1>1, <1>5, <2>1, StringLength
<1>7. QED
  BY <1>1, <1>2, <1>3, <1>6

\* The shell's loop finds words that end before the next begins.
LEMMA SplitStep ==
    ASSUME ExecInv, Split
    PROVE  ExecInv'
<1> DEFINE c == rdbuf[rd_p]
           begins == c \notin {Blank, 0} /\ ~word
           ends == c \in {Blank, 0} /\ word
<1>1. /\ exec_pc = "split" /\ rd_p \in 0..(RDBUF - 1) /\ rd_p <= Len(line) /\ c \in Nat
      /\ Len(line) \in Nat /\ rd_s \in Nat /\ argv \in Seq(Nat) /\ word \in BOOLEAN
      /\ rdbuf \in [0..(RDBUF - 1) -> Nat] /\ rdbuf[Len(line)] = 0
  BY Buffers DEF Split, ExecInv, LineSplit
<1>2. /\ rd_s' = IF begins THEN rd_p ELSE rd_s
      /\ word' = (begins \/ (word /\ ~ends))
      /\ argv' = IF ends THEN Append(argv, rd_s) ELSE argv
      /\ rdbuf' = IF ends THEN [rdbuf EXCEPT ![rd_p] = 0] ELSE rdbuf
      /\ exec_pc' = IF c = 0 THEN "open" ELSE "split"
      /\ rd_p' = rd_p + 1 /\ line' = line /\ stack_len' = stack_len /\ args_done' = args_done
  BY DEF Split
<1> HIDE DEF c
<1>3. /\ Len(line)' \in 0..LINE /\ rdbuf' \in [0..(RDBUF - 1) -> Nat] /\ rd_p' \in Nat /\ rd_s' \in Nat
      /\ word' \in BOOLEAN /\ argv' \in Seq(Nat) /\ stack_len' \in Nat /\ args_done' \in Nat
      /\ exec_pc' \in {"split", "open"}
  BY <1>1, <1>2 DEF ExecInv
<1>a. /\ Len(argv) \in Nat /\ \A i \in 1..Len(argv) : argv[i] \in Nat
      /\ Len(argv') = IF ends THEN Len(argv) + 1 ELSE Len(argv)
      /\ \A i \in 1..Len(argv) : argv'[i] = argv[i]
      /\ ends => argv'[Len(argv) + 1] = rd_s
  BY <1>1, <1>2
<1>4. c = 0 => ~word'
  BY <1>1, <1>2
<1>5. \A i \in 0..(RDBUF - 1) : i # rd_p => rdbuf'[i] = rdbuf[i]
  BY <1>1, <1>2
<1>6. c # 0 => rd_p < Len(line) /\ rdbuf'[Len(line)] = 0
  <2>1. c # 0 => rd_p < Len(line)
    BY <1>1 DEF c
  <2>2. Len(line) \in 0..(RDBUF - 1)
    BY Buffers DEF ExecInv
  <2>3. QED
    BY <1>1, <1>5, <2>1, <2>2
<1>7. WordsEnd'
  <2>1. ASSUME NEW j \in 1..Len(argv)
        PROVE  /\ j \in 1..Len(argv') /\ Place(j)' = Place(j) /\ Place(j) \in Nat /\ Place(j + 1) \in Nat
               /\ Place(j + 1)' \in Nat
               /\ Place(j + 1) <= rd_p /\ Place(j + 1) <= Place(j + 1)' /\ Place(j + 1)' <= rd_p'
    <3>1. j + 1 \in 1..(Len(argv) + 1) /\ j \in 1..(Len(argv) + 1) /\ j \in 1..Len(argv') /\ j <= Len(argv)
      BY <1>a
    <3>2. PICK a \in Nat, b \in Nat : a = Place(j) /\ b = Place(j + 1) /\ b <= rd_p
      BY <3>1, Places
    <3>3. Place(j)' = Place(j)
      BY <1>a, <3>1 DEF Place
    <3>4. CASE j < Len(argv)
      <4>1. Place(j + 1)' = b
        BY <1>a, <3>1, <3>2, <3>4 DEF Place
      <4>2. QED
        BY <1>1, <1>2, <3>1, <3>2, <3>3, <4>1
    <3>5. CASE j = Len(argv) /\ ends
      <4>1. b = rd_s /\ Place(j + 1)' = rd_s
        BY <1>a, <3>1, <3>2, <3>5 DEF Place
      <4>2. QED
        BY <1>1, <1>2, <3>1, <3>2, <3>3, <4>1
    <3>6. CASE j = Len(argv) /\ ~ends
      <4>1. b = (IF word THEN rd_s ELSE rd_p) /\ Place(j + 1)' = IF word' THEN rd_s' ELSE rd_p'
        BY <1>a, <3>1, <3>2, <3>6 DEF Place
      <4>2. QED
        BY <1>1, <1>2, <3>1, <3>2, <3>3, <3>6, <4>1
    <3>7. QED
      BY <1>a, <3>1, <3>4, <3>5, <3>6
  <2>2. ASSUME NEW j \in 1..Len(argv)
        PROVE  /\ Place(j + 1)' <= rd_p'
               /\ \E e \in Place(j)'..(Place(j + 1)' - 1) :
                    rdbuf'[e] = 0 /\ \A i \in Place(j)'..(e - 1) : rdbuf'[i] # 0
    <3>1. PICK e \in Place(j)..(Place(j + 1) - 1) : rdbuf[e] = 0 /\ \A i \in Place(j)..(e - 1) : rdbuf[i] # 0
      BY <2>2 DEF ExecInv, WordsEnd
    <3>2. PICK a \in Nat, b \in Nat, b2 \in Nat :
            a = Place(j) /\ b = Place(j + 1) /\ b2 = Place(j + 1)' /\ b <= rd_p
            /\ a = Place(j)' /\ b <= b2 /\ b2 <= rd_p'
      BY <2>1, <2>2
    <3>4. \A i \in a..e : i \in 0..(RDBUF - 1) /\ i # rd_p
      <4>1. e \in a..(b - 1) /\ RDBUF \in Nat
        BY <3>1, <3>2, Buffers
      <4>2. e < rd_p /\ rd_p \in Nat /\ rd_p < RDBUF
        BY <1>1, <3>2, <4>1
      <4>3. QED
        BY <4>1, <4>2
    <3>5. rdbuf'[e] = 0 /\ \A i \in a..(e - 1) : rdbuf'[i] # 0
      BY <1>5, <3>1, <3>2, <3>4
    <3>6. e \in a..(b2 - 1)
      BY <3>1, <3>2
    <3>7. QED
      BY <3>2, <3>5, <3>6
  <2>3. ASSUME ends, NEW j, j = Len(argv) + 1
        PROVE  /\ Place(j)' = rd_s /\ Place(j + 1)' = rd_p'
               /\ rd_s < rd_p /\ rdbuf'[rd_p] = 0 /\ \A i \in rd_s..(rd_p - 1) : rdbuf'[i] # 0
    <3>1. rd_s < rd_p /\ \A i \in rd_s..(rd_p - 1) : rdbuf[i] # 0
      BY <2>3 DEF ExecInv, LineSplit
    <3>2. \A i \in rd_s..(rd_p - 1) : i \in 0..(RDBUF - 1) /\ i # rd_p
      BY <1>1, <3>1, Buffers
    <3>3. rdbuf'[rd_p] = 0
      BY <1>1, <1>2, <2>3
    <3>4. Len(argv') = j /\ argv'[j] = rd_s /\ ~word' /\ j \in Nat /\ ~(j + 1 <= j) /\ j <= j
      <4>1. Len(argv') = j /\ argv'[j] = rd_s
        BY <1>a, <2>3
      <4>2. ~word'
        BY <1>2, <2>3, Zenon
      <4>3. j \in Nat
        BY <1>a, <2>3
      <4>4. QED
        BY <4>1, <4>2, <4>3
    <3>5. Place(j)' = rd_s /\ Place(j + 1)' = rd_p'
      BY <3>4 DEF Place
    <3>6. QED
      BY <1>5, <3>1, <3>2, <3>3, <3>5
  <2>5. ASSUME NEW j \in 1..Len(argv')
        PROVE  /\ Place(j + 1)' <= rd_p'
               /\ \E e \in Place(j)'..(Place(j + 1)' - 1) :
                    rdbuf'[e] = 0 /\ \A i \in Place(j)'..(e - 1) : rdbuf'[i] # 0
    <3>1. CASE j \in 1..Len(argv)
      BY <2>2, <3>1
    <3>2. CASE j \notin 1..Len(argv)
      <4>1. ends /\ j = Len(argv) + 1
        BY <1>a, <2>5, <3>2
      <4>2. /\ Place(j)' = rd_s /\ Place(j + 1)' = rd_p' /\ rd_s < rd_p
            /\ rdbuf'[rd_p] = 0 /\ \A i \in rd_s..(rd_p - 1) : rdbuf'[i] # 0
        BY <2>3, <4>1
      <4>3. rd_p \in rd_s..(rd_p' - 1) /\ rd_p' <= rd_p' /\ rd_p' \in Nat
        BY <1>1, <1>2, <4>2
      <4>4. QED
        BY <4>2, <4>3
    <3>3. QED
      BY <3>1, <3>2
  <2>6. QED
    BY <2>5 DEF WordsEnd
<1>8. LineSplit'
  <2>1. rd_p' <= Len(line)' + 1
    BY <1>1, <1>2
  <2>2. 2 * Len(argv') + (IF word' THEN 1 ELSE 0) <= rd_p'
    <3>1. 2 * Len(argv) + (IF word THEN 1 ELSE 0) <= rd_p
      BY DEF ExecInv, LineSplit
    <3>2. PICK n \in Nat, m \in Nat : n = Len(argv) /\ m = Len(argv') /\ m = IF ends THEN n + 1 ELSE n
      BY <1>a
    <3>3. 2 * n + (IF word THEN 1 ELSE 0) <= rd_p
      BY <3>1, <3>2
    <3>4. 2 * m + (IF word' THEN 1 ELSE 0) <= rd_p'
      <4>1. rd_p' = rd_p + 1 /\ rd_p \in Nat
        BY <1>1, <1>2
      <4>2. CASE ends
        <5>1. word /\ ~word' /\ m = n + 1
          BY <1>2, <3>2, <4>2, Zenon
        <5>2. QED
          BY <3>2, <3>3, <4>1, <5>1
      <4>3. CASE ~ends
        <5>1. PICK u \in 0..1, v \in 0..1 : u = (IF word THEN 1 ELSE 0) /\ v = IF word' THEN 1 ELSE 0
          OBVIOUS
        <5>2. m = n /\ 2 * n + u <= rd_p
          BY <3>2, <3>3, <4>3, <5>1
        <5>3. 2 * n + v <= rd_p + 1
          BY <4>1, <5>2
        <5>4. QED
          BY <4>1, <5>1, <5>2, <5>3
      <4>4. QED
        BY <4>2, <4>3
    <3>5. QED
      BY <3>2, <3>4
  <2>3. word' => rd_s' < rd_p' /\ \A i \in rd_s'..(rd_p' - 1) : rdbuf'[i] # 0
    <3>1. ASSUME word'
          PROVE  rd_s' < rd_p' /\ \A i \in rd_s'..(rd_p' - 1) : rdbuf'[i] # 0
      <4>1. ~ends /\ rdbuf' = rdbuf /\ c # 0
        BY <1>1, <1>2, <1>4, <3>1
      <4>2. CASE begins
        BY <1>1, <1>2, <4>1, <4>2 DEF c
      <4>3. CASE ~begins
        <5>1. word /\ rd_s' = rd_s
          BY <1>2, <3>1, <4>3
        <5>2. rd_s < rd_p /\ \A i \in rd_s..(rd_p - 1) : rdbuf[i] # 0
          BY <5>1 DEF ExecInv, LineSplit
        <5>3. QED
          BY <1>1, <1>2, <4>1, <5>1, <5>2 DEF c
      <4>4. QED
        BY <4>2, <4>3
    <3>2. QED
      BY <3>1
  <2>4. exec_pc' = "split" => rd_p' <= Len(line)' /\ rdbuf'[Len(line)'] = 0
    BY <1>1, <1>2, <1>6
  <2>5. QED
    BY <2>1, <2>2, <2>3, <2>4 DEF LineSplit
<1>9. StackUsed'
  BY <1>1, <1>2, <1>3, Buffers DEF ExecInv, StackUsed
<1>10. QED
  BY <1>3, <1>7, <1>8, <1>9 DEF ExecInv

\* execv has room for the pointers and the words of any line.
LEMMA PackStep ==
    ASSUME ExecInv, Count \/ Terminate \/ Copy \/ SendExec
    PROVE  ExecInv'
<1>1. /\ Len(line) \in 0..LINE /\ rd_p \in Nat /\ argv \in Seq(Nat) /\ Len(argv) \in Nat
      /\ stack_len \in Nat /\ args_done \in Nat /\ args_done <= Len(argv) /\ rd_s \in Nat
  BY DEF ExecInv, StackUsed
<1>2. Ptr * (Len(argv) + 1) + LINE + 1 < STACK /\ LINE \in Nat /\ STACK \in Nat
  <2>1. 2 * Len(argv) <= LINE + 1
    BY <1>1, Buffers DEF ExecInv, LineSplit
  <2>2. QED
    BY <1>1, <2>1, Buffers
<1>3. split_vars' = split_vars
  BY DEF Count, Terminate, Copy, SendExec
<1>4. WordsEnd' /\ \A j \in Nat : Place(j)' = Place(j)
  BY <1>3 DEF split_vars, ExecInv, WordsEnd, Place
<1>5. ASSUME NEW j \in 1..(Len(argv) + 1)
      PROVE  Place(j) \in Nat /\ Place(j) <= LINE + 1
  <2>1. PICK x \in Nat : x = Place(j) /\ x <= rd_p /\ rd_p <= LINE + 1
    BY Places
  <2>2. QED
    BY <1>1, <1>2, <2>1
<1>6. LineSplit' /\ exec_pc \notin {"split"}
  BY <1>3 DEF split_vars, ExecInv, LineSplit, Count, Terminate, Copy, SendExec
<1>7. /\ exec_pc' \in {"count", "copy", "load"} /\ stack_len' \in Nat /\ args_done' \in Nat /\ StackUsed'
  <2>1. CASE Count
    <3>1. stack_len = Ptr * args_done /\ args_done < Len(argv) /\ exec_pc = "count"
      BY <2>1 DEF Count, ExecInv, StackUsed
    <3>2. stack_len + 2 * Ptr < STACK
      BY <1>1, <1>2, <3>1 DEF Ptr
    <3>3. stack_len' = Ptr * args_done' /\ args_done' = args_done + 1 /\ exec_pc' = "count" /\ stack_len' <= STACK
      BY <1>1, <1>2, <2>1, <3>1, <3>2 DEF Count, Ptr
    <3>4. QED
      BY <1>1, <1>3, <3>1, <3>3 DEF StackUsed, split_vars, Ptr
  <2>2. CASE Terminate
    <3>1. /\ stack_len = Ptr * args_done /\ args_done = Len(argv)
          /\ exec_pc' = "copy" /\ args_done' = 0 /\ stack_len' = stack_len + Ptr
      BY <2>2 DEF Terminate, ExecInv, StackUsed
    <3>2. stack_len' = Ptr * (Len(argv) + 1)
      BY <1>1, <3>1 DEF Ptr
    <3>3. PICK j \in 1..(Len(argv) + 1), x \in Nat : j = 1 /\ x = Place(j) /\ x <= LINE + 1
      BY <1>1, <1>5
    <3>4. Place(j)' = x /\ j = args_done' + 1
      BY <1>4, <3>1, <3>3
    <3>5. Place(args_done + 1)' = x
      BY <3>4 DEF Place
    <3>6. argv' = argv /\ stack_len' \in Nat /\ args_done' \in Nat /\ stack_len' <= stack_len' + x
      BY <1>1, <1>3, <3>1, <3>2 DEF split_vars, Ptr
    <3>7. stack_len' <= STACK
      BY <1>1, <1>2, <3>2, <3>6 DEF Ptr
    <3>8. StackUsed'
      BY <1>1, <3>1, <3>2, <3>5, <3>6, <3>7 DEF StackUsed
    <3>9. QED
      BY <3>1, <3>6, <3>8
  <2>3. CASE Copy
    <3>1. args_done < Len(argv) /\ exec_pc = "copy" /\ stack_len <= Ptr * (Len(argv) + 1) + Place(args_done + 1)
      BY <2>3 DEF Copy, ExecInv, StackUsed
    <3>2. PICK j \in 1..Len(argv) : j = args_done + 1
      BY <1>1, <3>1
    <3>3. PICK n \in Nat : n = Len(StrAt(rdbuf, argv[j])) /\ Place(j) + n + 1 <= Place(j + 1)
      BY WordLength
    <3>4. PICK x \in Nat, y \in Nat : x = Place(j) /\ y = Place(j + 1) /\ y <= LINE + 1
      <4>1. j \in 1..(Len(argv) + 1) /\ j + 1 \in 1..(Len(argv) + 1)
        BY <1>1
      <4>2. QED
        BY <1>5, <4>1
    <3>5. stack_len + n + 1 < STACK /\ stack_len + n + 1 <= Ptr * (Len(argv) + 1) + y
      <4>1. stack_len <= Ptr * (Len(argv) + 1) + x /\ x + n + 1 <= y
        BY <3>1, <3>2, <3>3, <3>4
      <4>2. PICK z \in Nat : z = Ptr * (Len(argv) + 1)
        BY <1>1 DEF Ptr
      <4>3. z + LINE + 1 < STACK
        BY <1>2, <4>2
      <4>4. stack_len \in Nat /\ LINE \in Nat /\ STACK \in Nat /\ stack_len <= z + x
        BY <1>1, <1>2, <4>1, <4>2
      <4>5. stack_len + n + 1 <= z + y /\ z + y < STACK
        <5>1. n \in Nat /\ x + n + 1 <= y /\ y <= LINE + 1
          BY <3>3, <3>4
        <5>2. stack_len + n + 1 <= z + y
          BY <4>4, <5>1
        <5>3. z + y < STACK
          BY <4>3, <4>4, <5>1
        <5>4. QED
          BY <5>2, <5>3
      <4>6. stack_len + n + 1 < STACK
        BY <4>4, <4>5
      <4>7. QED
        BY <4>2, <4>5, <4>6
    <3>6. stack_len' = stack_len + n + 1 /\ args_done' = j /\ exec_pc' = "copy"
      BY <1>1, <2>3, <3>2, <3>3, <3>5 DEF Copy, Used
    <3>7. Place(args_done + 1)' = y
      <4>1. Place(j + 1)' = y
        BY <1>4, <3>4
      <4>2. QED
        BY <3>6, <4>1 DEF Place
    <3>8. QED
      BY <1>1, <1>2, <1>3, <3>1, <3>2, <3>5, <3>6, <3>7 DEF StackUsed, split_vars
  <2>4. CASE SendExec
    BY <1>1, <1>3, <2>4 DEF SendExec, ExecInv, StackUsed, split_vars
  <2>5. QED
    BY <2>1, <2>2, <2>3, <2>4
<1>8. QED
  BY <1>3, <1>4, <1>6, <1>7 DEF ExecInv, split_vars

\* The invariant of a command on its way: the words in the line buffer end before the
\* next begins, and arg_stack holds no more than what the line can need.
THEOREM ExecInvariant == ExecSpec => []ExecInv
<1>1. ASSUME NEW typed \in Lines, ExecInit(typed)
      PROVE  ExecInv
  <2>1. PICK n \in 0..LINE : line \in [1..n -> Letters \cup {Blank}]
    BY <1>1 DEF Lines, SeqOf, ExecInit
  <2>a. Letters \cup {Blank} \subseteq Nat /\ n \in Nat
    BY ExecAssumption, Buffers DEF Blank
  <2>2. Len(line) = n /\ \A i \in 1..n : line[i] \in Nat
    BY <2>1, <2>a
  <2>3. rdbuf \in [0..(RDBUF - 1) -> Nat] /\ rdbuf[Len(line)] = 0
    BY <1>1, <2>1, <2>2, Buffers DEF ExecInit, Junk
  <2>4. argv = << >> /\ rd_p = 0 /\ rd_s = 0 /\ word = FALSE /\ stack_len = 0 /\ args_done = 0 /\ exec_pc = "split"
    BY <1>1 DEF ExecInit
  <2>5. argv \in Seq(Nat) /\ Len(argv) = 0
    BY <2>4
  <2>6. WordsEnd /\ LineSplit /\ StackUsed
    <3>1. WordsEnd
      BY <2>5 DEF WordsEnd
    <3>2. LineSplit
      BY <2>2, <2>3, <2>4, <2>5, <2>a DEF LineSplit
    <3>3. StackUsed
      BY <2>4, <2>5, Buffers DEF StackUsed
    <3>4. QED
      BY <3>1, <3>2, <3>3
  <2>7. QED
    BY <2>1, <2>2, <2>3, <2>4, <2>5, <2>6 DEF ExecInv
<1>2. ASSUME ExecInv, [ExecNext]_execVars
      PROVE  ExecInv'
  <2>1. CASE Split
    BY <1>2, <2>1, SplitStep
  <2>2. CASE Count \/ Terminate \/ Copy \/ SendExec
    BY <1>2, <2>2, PackStep
  <2>3. CASE NotFound \/ Found \/ LoadProgram \/ SetupStack
    <3>1. /\ split_vars' = split_vars /\ stack_len' = stack_len /\ args_done' = args_done
          /\ exec_pc # "split" /\ exec_pc' \in {"done", "count", "stack", "run"}
          /\ exec_pc' = "count" => exec_pc = "open"
      BY <2>3 DEF NotFound, Found, LoadProgram, SetupStack
    <3>2. WordsEnd'
      <4>1. WordsEnd
        BY <1>2 DEF ExecInv
      <4>2. argv' = argv /\ rdbuf' = rdbuf /\ rd_p' = rd_p /\ rd_s' = rd_s /\ word' = word
        BY <3>1 DEF split_vars
      <4>3. \A j \in 1..Len(argv) : Place(j)' = Place(j) /\ Place(j + 1)' = Place(j + 1)
        BY <4>2 DEF Place
      <4>4. QED
        BY <4>1, <4>2, <4>3 DEF WordsEnd
    <3>3. LineSplit' /\ StackUsed'
      BY <1>2, <3>1 DEF split_vars, ExecInv, LineSplit, StackUsed, Ptr
    <3>4. QED
      BY <1>2, <3>1, <3>2, <3>3 DEF split_vars, ExecInv
  <2>4. CASE UNCHANGED execVars
    BY <1>2, <2>4 DEF execVars, ExecInv, WordsEnd, LineSplit, StackUsed, Place
  <2>5. QED
    BY <1>2, <2>1, <2>2, <2>3, <2>4 DEF ExecNext
<1>3. (\E typed \in Lines : ExecInit(typed)) => ExecInv
  BY <1>1
<1>4. QED
  BY <1>2, <1>3, PTL DEF ExecSpec

\* No line makes an assertion of execv fail, and neither the line buffer nor arg_stack is
\* left, whatever the lengths of the buffers (shabby_shell and execv).
THEOREM ArgStackHolds == ExecSpec => []StacksHold
<1>1. ExecInv => StacksHold
  BY DEF ExecInv, LineSplit, StackUsed, StacksHold
<1>2. QED
  BY <1>1, ExecInvariant, PTL
================================================================================
