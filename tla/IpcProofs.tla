------------------------------ MODULE IpcProofs ------------------------------
(***************************************************************************)
(* Proofs, for every process table, of the properties of module Ipc.       *)
(***************************************************************************)
EXTENDS Ipc, SequenceTheorems, TLAPS

(***************************************************************************)
(* Unlinking an element of a queue.                                        *)
(***************************************************************************)

\* msg_receive's unlinking gives a queue of one element less.
LEMMA UnlinkSeq ==
    ASSUME NEW S, NEW q \in Seq(S), NEW i \in 1..Len(q)
    PROVE  /\ Unlink(q, i) \in Seq(S)
           /\ Len(Unlink(q, i)) = Len(q) - 1
           /\ \A j \in 1..(Len(q) - 1) :
                 Unlink(q, i)[j] = IF j < i THEN q[j] ELSE q[j + 1]
<1> DEFINE n == Len(q) - 1
           u == Unlink(q, i)
<1>1. n \in Nat /\ \A j \in 1..Len(q) : q[j] \in S
  BY LenProperties, ElementOfSeq
<1>2. u \in [1..n -> S]
  BY <1>1 DEF Unlink
<1>3. u \in Seq(S)
  BY <1>1, <1>2, SeqDef
<1>4. DOMAIN u = 1..n
  BY <1>2
<1>5. Len(u) = n
  BY <1>1, <1>3, <1>4, LenProperties
<1>6. QED
  BY <1>1, <1>3, <1>5 DEF Unlink
(***************************************************************************)
(* Types and the agreement of flags and message fields.                    *)
(***************************************************************************)

TypeShape == TypeOK /\ Shape

\* The process table starts empty of messages.
LEMMA InitIInv == Init => IInv
<1> SUFFICES ASSUME Init PROVE IInv
  OBVIOUS
<1> USE DEF Init
<1>1. TypeOK
  <2>1. PICK b \in Bodies : buf = [p \in Procs |-> [source |-> p, body |-> b]]
    OBVIOUS
  <2>2. buf \in [Procs -> Message]
    BY <2>1 DEF Message
  <2>3. QED
    BY <2>2, EmptySeq DEF TypeOK, Sources
<1>2. Shape
  BY PseudoProcs DEF Shape, ShapeOf, Sending, Receiving, Sources
<1>3. QueueExact
  BY EmptySeq DEF QueueExact, QueuedAreSending, SendersAreQueued, QueuedOnce, Sending
<1>4. SendGraphAcyclic
  BY DEF SendGraphAcyclic, Sending
<1>5. NoMissedWakeup
  BY DEF NoMissedWakeup, Receiving
<1>6. QED
  BY <1>1, <1>2, <1>3, <1>4, <1>5 DEF IInv

\* A queued sender is a process, so what it hands over is a message.
LEMMA QueuedIsProc ==
    ASSUME TypeOK, NEW p \in Procs, NEW i \in 1..Len(q_sending[p])
    PROVE  q_sending[p][i] \in Procs
BY ElementOfSeq DEF TypeOK

\* A process whose fields a step leaves alone keeps its shape.
LEMMA FrameShape ==
    ASSUME NEW x \in Procs, ShapeOf(x), p_flags'[x] = p_flags[x], p_msg'[x] = p_msg[x],
           p_sendto'[x] = p_sendto[x], p_recvfrom'[x] = p_recvfrom[x]
    PROVE  ShapeOf(x)'
BY DEF ShapeOf, Sending, Receiving

\* Removing the one flag a blocked process has leaves it runnable.
LEMMA ClearFlag ==
    ASSUME NEW x, NEW f, ShapeOf(x), f \in {"SENDING", "RECEIVING"}, f \in p_flags[x]
    PROVE  p_flags[x] \ {f} = {}
BY DEF ShapeOf

\* Every system call and interrupt keeps types and shape.
LEMMA StepTypeShape ==
    ASSUME TypeShape, Next, QueueExact
    PROVE  TypeShape'
<1> USE PseudoProcs, IntTasksAssumption
<1>1. ASSUME NEW s \in Procs, NEW d \in Procs \ {s}, SendPanic(s, d)
      PROVE  TypeShape'
  BY <1>1 DEF SendPanic, TypeShape, TypeOK, Shape, ShapeOf, Sending, Receiving
<1>2. ASSUME NEW s \in Procs, NEW d \in Procs \ {s}, NEW b \in Bodies,
             Running(s), SendDeliver(s, d, b)
      PROVE  TypeShape'
  <2>1. TypeOK'
    BY <1>2 DEF SendDeliver, TypeShape, TypeOK, Message
  <2>2. Shape'
    <3>1. p_flags' = [p_flags EXCEPT ![d] = {}]
      BY <1>2, ClearFlag DEF SendDeliver, AcceptsFrom, Receiving, TypeShape, TypeOK, Shape
    <3>2. QED
      <4> SUFFICES ASSUME NEW x \in Procs PROVE ShapeOf(x)'
        BY DEF Shape
      <4>1. CASE x = d
        BY <1>2, <3>1, <4>1 DEF SendDeliver, AcceptsFrom, ShapeOf, Sending, Receiving, TypeShape, TypeOK, Shape, Sources
      <4>2. CASE x # d
        BY <1>2, <4>2, FrameShape DEF SendDeliver, AcceptsFrom, TypeShape, TypeOK, Shape
      <4>3. QED
        BY <4>1, <4>2
  <2>3. QED
    BY <2>1, <2>2 DEF TypeShape
<1>3. ASSUME NEW s \in Procs, NEW d \in Procs \ {s}, NEW b \in Bodies,
             Running(s), SendBlock(s, d, b)
      PROVE  TypeShape'
  <2>1. TypeOK'
    <3>1. Append(q_sending[d], s) \in Seq(Procs)
      BY AppendProperties DEF TypeShape, TypeOK
    <3>2. QED
      BY <1>3, <3>1 DEF SendBlock, TypeShape, TypeOK, Message, Flags
  <2>2. Shape'
    <3>1. p_flags' = [p_flags EXCEPT ![s] = {"SENDING"}]
      BY <1>3 DEF SendBlock, Running, TypeShape, TypeOK
    <3>2. QED
      <4> SUFFICES ASSUME NEW x \in Procs PROVE ShapeOf(x)'
        BY DEF Shape
      <4>1. CASE x = s
        BY <1>3, <3>1, <4>1 DEF SendBlock, Running, ShapeOf, Sending, Receiving, TypeShape, TypeOK, Shape, Sources
      <4>2. CASE x # s
        BY <1>3, <4>2, FrameShape DEF SendBlock, Running, TypeShape, TypeOK, Shape
      <4>3. QED
        BY <4>1, <4>2
  <2>3. QED
    BY <2>1, <2>2 DEF TypeShape
<1>4. ASSUME NEW p \in Procs, NEW src \in Sources \ {p}, Running(p), ReceiveInt(p, src)
      PROVE  TypeShape'
  <2>1. TypeOK'
    BY <1>4 DEF ReceiveInt, TypeShape, TypeOK, Message
  <2>2. Shape'
    BY <1>4 DEF ReceiveInt, Sending, Receiving, TypeShape, Shape, ShapeOf
  <2>3. QED
    BY <2>1, <2>2 DEF TypeShape
<1>5. ASSUME NEW p \in Procs, NEW src \in Sources \ {p}, Running(p), ReceiveQueued(p, src)
      PROVE  TypeShape'
  <2>1. PICK i \in 1..Len(q_sending[p]) :
          /\ q_sending' = [q_sending EXCEPT ![p] = Unlink(@, i)]
          /\ buf' = [buf EXCEPT ![p] = buf[q_sending[p][i]]]
          /\ p_msg' = [p_msg EXCEPT ![q_sending[p][i]] = FALSE]
          /\ p_sendto' = [p_sendto EXCEPT ![q_sending[p][i]] = NO_TASK]
          /\ p_flags' = [p_flags EXCEPT ![q_sending[p][i]] = @ \ {"SENDING"}]
    BY <1>5 DEF ReceiveQueued
  <2>2. q_sending[p][i] \in Procs
    BY QueuedIsProc DEF TypeShape
  <2>3. Unlink(q_sending[p], i) \in Seq(Procs)
    BY UnlinkSeq DEF TypeShape, TypeOK
  <2>4. Sending(q_sending[p][i])
    BY DEF QueueExact, QueuedAreSending
  <2>5. TypeOK'
    BY <1>5, <2>1, <2>2, <2>3 DEF ReceiveQueued, TypeShape, TypeOK
  <2>6. Shape'
    <3>1. p_flags' = [p_flags EXCEPT ![q_sending[p][i]] = {}]
      BY <2>1, <2>2, <2>4, ClearFlag DEF Sending, TypeShape, TypeOK, Shape
    <3>2. QED
      <4> SUFFICES ASSUME NEW x \in Procs PROVE ShapeOf(x)'
        BY DEF Shape
      <4>1. CASE x = q_sending[p][i]
        BY <1>5, <2>1, <2>2, <2>4, <3>1, <4>1 DEF ReceiveQueued, ShapeOf, Sending, Receiving, TypeShape, TypeOK, Shape, Sources
      <4>2. CASE x # q_sending[p][i]
        BY <1>5, <2>1, <2>2, <2>4, <4>2, FrameShape, ZenonT(40) DEF ReceiveQueued, TypeShape, TypeOK, Shape
      <4>3. QED
        BY <4>1, <4>2
  <2>7. QED
    BY <2>5, <2>6 DEF TypeShape
<1>6. ASSUME NEW p \in Procs, NEW src \in Sources \ {p}, Running(p), ReceiveBlock(p, src)
      PROVE  TypeShape'
  <2>1. TypeOK'
    BY <1>6, ZenonT(40) DEF ReceiveBlock, TypeShape, TypeOK, Message, Flags
  <2>2. Shape'
    <3>1. p_flags' = [p_flags EXCEPT ![p] = {"RECEIVING"}]
      BY <1>6 DEF ReceiveBlock, Running, TypeShape, TypeOK
    <3>2. QED
      <4> SUFFICES ASSUME NEW x \in Procs PROVE ShapeOf(x)'
        BY DEF Shape
      <4>1. CASE x = p
        BY <1>6, <3>1, <4>1 DEF ReceiveBlock, Running, ShapeOf, Sending, Receiving, TypeShape, TypeOK, Shape, Sources
      <4>2. CASE x # p
        BY <1>6, <4>2, FrameShape DEF ReceiveBlock, Running, TypeShape, TypeOK, Shape
      <4>3. QED
        BY <4>1, <4>2
  <2>3. QED
    BY <2>1, <2>2 DEF TypeShape
<1>7. ASSUME NEW t \in IntTasks, InformWake(t)
      PROVE  TypeShape'
  <2>1. TypeOK'
    BY <1>7 DEF InformWake, TypeShape, TypeOK, Message
  <2>2. Shape'
    BY <1>7 DEF InformWake, AcceptsFrom, Sending, Receiving, TypeShape, TypeOK, Shape, ShapeOf, Sources, Flags
  <2>3. QED
    BY <2>1, <2>2 DEF TypeShape
<1>8. ASSUME NEW t \in IntTasks, InformPend(t)
      PROVE  TypeShape'
  <2>1. TypeOK'
    BY <1>8 DEF InformPend, TypeShape, TypeOK
  <2>2. Shape'
    BY <1>8 DEF InformPend, Sending, Receiving, TypeShape, Shape, ShapeOf
  <2>3. QED
    BY <2>1, <2>2 DEF TypeShape
<1>9. QED
  BY <1>1, <1>2, <1>3, <1>4, <1>5, <1>6, <1>7, <1>8
  DEF Next, SysSend, SysReceive, HardwareInterrupt, msg_send, msg_receive, inform_int

(***************************************************************************)
(* The queues of blocked senders.                                          *)
(***************************************************************************)

\* A step that moves no process in or out of SENDING.
SameSenders ==
    /\ q_sending' = q_sending
    /\ p_sendto' = p_sendto
    /\ \A p \in Procs : Sending(p)' = Sending(p)

\* Only SendBlock and ReceiveQueued change who is SENDING.
LEMMA StepCases ==
    ASSUME TypeShape, Next
    PROVE  \/ SameSenders
           \/ \E s \in Procs, d \in Procs, b \in Bodies :
                 s # d /\ Running(s) /\ SendBlock(s, d, b)
           \/ \E p \in Procs, src \in Sources :
                 p # src /\ Running(p) /\ ReceiveQueued(p, src)
<1> USE IntTasksAssumption
<1>1. ASSUME NEW s \in Procs, NEW d \in Procs \ {s}, SendPanic(s, d)
      PROVE  SameSenders
  BY <1>1 DEF SendPanic, SameSenders, Sending
<1>2. ASSUME NEW s \in Procs, NEW d \in Procs \ {s}, NEW b \in Bodies, SendDeliver(s, d, b)
      PROVE  SameSenders
  BY <1>2 DEF SendDeliver, SameSenders, Sending, TypeShape, TypeOK
<1>3. ASSUME NEW p \in Procs, NEW src \in Sources, ReceiveInt(p, src)
      PROVE  SameSenders
  BY <1>3 DEF ReceiveInt, SameSenders, Sending
<1>4. ASSUME NEW p \in Procs, NEW src \in Sources, ReceiveBlock(p, src)
      PROVE  SameSenders
  BY <1>4 DEF ReceiveBlock, SameSenders, Sending, TypeShape, TypeOK
<1>5. ASSUME NEW t \in IntTasks, InformWake(t)
      PROVE  SameSenders
  BY <1>5 DEF InformWake, SameSenders, Sending, TypeShape, TypeOK
<1>6. ASSUME NEW t \in IntTasks, InformPend(t)
      PROVE  SameSenders
  BY <1>6 DEF InformPend, SameSenders, Sending
<1>7. QED
  BY <1>1, <1>2, <1>3, <1>4, <1>5, <1>6
  DEF Next, SysSend, SysReceive, HardwareInterrupt, msg_send, msg_receive, inform_int

\* Appending the sender that just became SENDING keeps the queues exact.
LEMMA SendBlockQueue ==
    ASSUME TypeShape, QueueExact,
           NEW s \in Procs, NEW d \in Procs, NEW b \in Bodies, Running(s), SendBlock(s, d, b)
    PROVE  QueueExact'
<1> DEFINE q == q_sending[d]
<1>1. q \in Seq(Procs) /\ Len(q) \in Nat
  BY LenProperties DEF TypeShape, TypeOK
<1>2. /\ Len(Append(q, s)) = Len(q) + 1
      /\ \A i \in 1..Len(q) : Append(q, s)[i] = q[i]
      /\ Append(q, s)[Len(q) + 1] = s
  BY <1>1, AppendProperties
<1>3. /\ q_sending'[d] = Append(q, s)
      /\ \A e \in Procs : e # d => q_sending'[e] = q_sending[e]
      /\ p_sendto'[s] = d /\ Sending(s)'
      /\ \A p \in Procs : p # s => p_sendto'[p] = p_sendto[p] /\ Sending(p)' = Sending(p)
      /\ ~Sending(s)
  BY DEF SendBlock, Running, Sending, TypeShape, TypeOK
<1>4. \A e \in Procs : \A i \in 1..Len(q_sending[e]) :
         q_sending[e][i] \in Procs /\ q_sending[e][i] # s
  BY <1>3, QueuedIsProc DEF QueueExact, QueuedAreSending, TypeShape
<1>5. QueuedAreSending'
  BY <1>1, <1>2, <1>3, <1>4 DEF QueueExact, QueuedAreSending
<1>6. SendersAreQueued'
  <2> SUFFICES ASSUME NEW p \in Procs, Sending(p)'
               PROVE  \E i \in 1..Len(q_sending'[p_sendto'[p]]) : q_sending'[p_sendto'[p]][i] = p
    BY DEF SendersAreQueued
  <2>1. CASE p = s
    BY <1>1, <1>2, <1>3, <2>1
  <2>2. CASE p # s
    <3>1. PICK i \in 1..Len(q_sending[p_sendto[p]]) : q_sending[p_sendto[p]][i] = p
      BY <1>3, <2>2 DEF QueueExact, SendersAreQueued
    <3>2. p_sendto[p] \in Procs /\ p_sendto'[p] = p_sendto[p]
      BY <1>3, <2>2 DEF TypeShape, TypeOK, Shape, ShapeOf
    <3>3. CASE p_sendto[p] = d
      BY <1>1, <1>2, <1>3, <3>1, <3>2, <3>3, SMTT(40)
    <3>4. CASE p_sendto[p] # d
      BY <1>3, <3>1, <3>2, <3>4
    <3>5. QED
      BY <3>3, <3>4
  <2>3. QED
    BY <2>1, <2>2
<1>7. QueuedOnce'
  <2> SUFFICES ASSUME NEW e \in Procs, NEW i \in 1..Len(q_sending'[e]),
                      NEW j \in 1..Len(q_sending'[e]), q_sending'[e][i] = q_sending'[e][j]
               PROVE  i = j
    BY DEF QueuedOnce
  <2>1. CASE e = d
    <3>1. \A k \in 1..Len(q) : q[k] # s
      BY <1>4
    <3>2. CASE i \in 1..Len(q) /\ j \in 1..Len(q)
      BY <1>2, <1>3, <2>1, <3>2 DEF QueueExact, QueuedOnce
    <3>3. i \in 1..(Len(q) + 1) /\ j \in 1..(Len(q) + 1)
      BY <1>2, <1>3, <2>1
    <3>4. CASE i = Len(q) + 1 /\ j \in 1..Len(q)
      BY <1>2, <1>3, <2>1, <3>1, <3>4
    <3>5. CASE j = Len(q) + 1 /\ i \in 1..Len(q)
      BY <1>2, <1>3, <2>1, <3>1, <3>5
    <3>6. QED
      BY <1>1, <3>2, <3>3, <3>4, <3>5
  <2>2. CASE e # d
    BY <1>3, <2>2 DEF QueueExact, QueuedOnce
  <2>3. QED
    BY <2>1, <2>2
<1>8. QED
  BY <1>5, <1>6, <1>7 DEF QueueExact

\* Unlinking the sender that just stopped SENDING keeps the queues exact.
LEMMA ReceiveQueuedQueue ==
    ASSUME TypeShape, QueueExact,
           NEW p \in Procs, NEW src \in Sources, ReceiveQueued(p, src)
    PROVE  QueueExact'
<1>1. PICK i \in 1..Len(q_sending[p]) :
        /\ q_sending' = [q_sending EXCEPT ![p] = Unlink(@, i)]
        /\ p_sendto' = [p_sendto EXCEPT ![q_sending[p][i]] = NO_TASK]
        /\ p_flags' = [p_flags EXCEPT ![q_sending[p][i]] = @ \ {"SENDING"}]
  BY DEF ReceiveQueued
<1> DEFINE q == q_sending[p]
           u == Unlink(q, i)
<1>from. PICK from \in Procs : from = q_sending[p][i]
  BY QueuedIsProc DEF TypeShape
<1>2. q \in Seq(Procs) /\ Len(q) \in Nat
  BY LenProperties DEF TypeShape, TypeOK
<1>3. /\ Len(u) = Len(q) - 1
      /\ \A j \in 1..(Len(q) - 1) : u[j] = IF j < i THEN q[j] ELSE q[j + 1]
  BY <1>2, UnlinkSeq
<1>4. /\ q_sending'[p] = u
      /\ \A e \in Procs : e # p => q_sending'[e] = q_sending[e]
      /\ ~Sending(from)'
      /\ \A x \in Procs : x # from => p_sendto'[x] = p_sendto[x] /\ Sending(x)' = Sending(x)
      /\ p_sendto[from] = p
  <2>1. p_sendto[from] = p
    BY <1>from DEF QueueExact, QueuedAreSending
  <2>2. QED
    BY <1>1, <1>from, <2>1 DEF Sending, TypeShape, TypeOK
<1>5. \A j \in 1..Len(q) : j # i => q[j] # from
  BY <1>from DEF QueueExact, QueuedOnce
<1>6. \A e \in Procs : \A j \in 1..Len(q_sending[e]) :
         q_sending[e][j] \in Procs /\ (e # p => q_sending[e][j] # from)
  BY <1>4, QueuedIsProc DEF QueueExact, QueuedAreSending, TypeShape
<1>7. QueuedAreSending'
  <2> SUFFICES ASSUME NEW e \in Procs, NEW j \in 1..Len(q_sending'[e])
               PROVE  (Sending(q_sending[e][j]) /\ p_sendto[q_sending[e][j]] = e)'
    BY DEF QueuedAreSending
  <2>1. CASE e = p
    <3>1. PICK k \in 1..Len(q) : k # i /\ u[j] = q[k]
      <4>1. j \in 1..(Len(q) - 1)
        BY <1>3, <1>4, <2>1
      <4>2. CASE j < i
        <5>1. j \in 1..Len(q) /\ j # i /\ u[j] = q[j]
          BY <1>2, <1>3, <4>1, <4>2
        <5>2. QED
          BY <5>1
      <4>3. CASE ~(j < i)
        <5>1. j + 1 \in 1..Len(q) /\ j + 1 # i /\ u[j] = q[j + 1]
          BY <1>2, <1>3, <4>1, <4>3
        <5>2. QED
          BY <5>1
      <4>4. QED
        BY <4>2, <4>3
    <3>2. PICK x \in Procs : x = q[k]
      BY <1>6
    <3>3. Sending(x)' /\ p_sendto'[x] = p
      BY <1>4, <1>5, <3>1, <3>2 DEF QueueExact, QueuedAreSending
    <3>4. QED
      BY <1>4, <2>1, <3>1, <3>2, <3>3 DEF Sending
  <2>2. CASE e # p
    <3>1. q_sending'[e] = q_sending[e]
      BY <1>4, <2>2
    <3>2. PICK x \in Procs : x = q_sending[e][j]
      BY <1>6, <3>1
    <3>3. Sending(x)' /\ p_sendto'[x] = e
      BY <1>4, <1>6, <2>2, <3>1, <3>2 DEF QueueExact, QueuedAreSending
    <3>4. QED
      BY <3>1, <3>2, <3>3 DEF Sending
  <2>3. QED
    BY <2>1, <2>2
<1>8. SendersAreQueued'
  <2> SUFFICES ASSUME NEW x \in Procs, Sending(x)'
               PROVE  \E j \in 1..Len(q_sending'[p_sendto'[x]]) : q_sending'[p_sendto'[x]][j] = x
    BY DEF SendersAreQueued
  <2>1. x # from /\ Sending(x) /\ p_sendto'[x] = p_sendto[x] /\ p_sendto[x] \in Procs
    BY <1>4 DEF TypeShape, TypeOK, Shape, ShapeOf
  <2>2. PICK k \in 1..Len(q_sending[p_sendto[x]]) : q_sending[p_sendto[x]][k] = x
    BY <2>1 DEF QueueExact, SendersAreQueued
  <2>3. CASE p_sendto[x] = p
    <3>1. k # i
      BY <1>from, <2>1, <2>2, <2>3
    <3>2. CASE k < i
      BY <1>2, <1>3, <1>4, <2>1, <2>2, <2>3, <3>2
    <3>3. CASE k > i
      <4>1. k - 1 \in 1..(Len(q) - 1) /\ u[k - 1] = x
        BY <1>2, <1>3, <2>2, <2>3, <3>3
      <4>2. QED
        BY <1>3, <1>4, <2>1, <2>3, <4>1
    <3>4. QED
      BY <1>2, <2>3, <3>1, <3>2, <3>3
  <2>4. CASE p_sendto[x] # p
    BY <1>4, <2>1, <2>2, <2>4
  <2>5. QED
    BY <2>3, <2>4
<1>9. QueuedOnce'
  <2> SUFFICES ASSUME NEW e \in Procs, NEW j \in 1..Len(q_sending'[e]),
                      NEW k \in 1..Len(q_sending'[e]), q_sending'[e][j] = q_sending'[e][k]
               PROVE  j = k
    BY DEF QueuedOnce
  <2>1. CASE e = p
    <3>1. \A g, h \in 1..Len(q) : q[g] = q[h] => g = h
      BY DEF QueueExact, QueuedOnce
    <3>2. j \in 1..(Len(q) - 1) /\ k \in 1..(Len(q) - 1) /\ u[j] = u[k]
      BY <1>3, <1>4, <2>1
    <3> DEFINE at(n) == IF n < i THEN n ELSE n + 1
    <3>3. at(j) \in 1..Len(q) /\ at(k) \in 1..Len(q)
      BY <1>2, <3>2
    <3>4. q[at(j)] = q[at(k)]
      BY <1>3, <3>2
    <3>5. at(j) = at(k)
      BY <3>1, <3>3, <3>4
    <3>6. QED
      BY <1>2, <3>2, <3>5
  <2>2. CASE e # p
    BY <1>4, <2>2 DEF QueueExact, QueuedOnce
  <2>3. QED
    BY <2>1, <2>2
<1>10. QED
  BY <1>7, <1>8, <1>9 DEF QueueExact

\* Every step keeps the queues exact.
LEMMA StepQueue ==
    ASSUME TypeShape, QueueExact, Next
    PROVE  QueueExact'
<1>1. CASE SameSenders
  <2>1. \A d \in Procs : \A i \in 1..Len(q_sending[d]) : q_sending[d][i] \in Procs
    BY QueuedIsProc DEF TypeShape
  <2>2. QED
    BY <1>1, <2>1 DEF SameSenders, QueueExact, QueuedAreSending, SendersAreQueued, QueuedOnce
<1>2. QED
  BY <1>1, StepCases, SendBlockQueue, ReceiveQueuedQueue

(***************************************************************************)
(* Senders never wait in a circle.                                         *)
(***************************************************************************)

\* A SEND that passes deadlock() closes no circle.  Were S' a circle in the
\* new state, it would hold the sender s and so d; the set T that deadlock()
\* explored from d misses s, so the part of S' inside T was a circle before.
LEMMA SendBlockAcyclic ==
    ASSUME TypeShape, SendGraphAcyclic,
           NEW s \in Procs, NEW d \in Procs, NEW b \in Bodies, Running(s), SendBlock(s, d, b)
    PROVE  SendGraphAcyclic'
<1>1. PICK T \in SUBSET Procs : d \in T /\ ClosedUnderSendto(T) /\ s \notin T
  BY DEF SendBlock, deadlock
<1>2. /\ p_sendto'[s] = d
      /\ \A p \in Procs : p # s => p_sendto'[p] = p_sendto[p] /\ Sending(p)' = Sending(p)
  BY DEF SendBlock, Sending, TypeShape, TypeOK
<1> SUFFICES ASSUME NEW S \in SUBSET Procs, \A p \in S : Sending(p)' /\ p_sendto'[p] \in S
             PROVE  S = {}
  BY DEF SendGraphAcyclic
<1>3. CASE s \in S
  <2>1. d \in S \cap T
    BY <1>1, <1>2, <1>3
  <2>2. \A p \in S \cap T : Sending(p) /\ p_sendto[p] \in S \cap T
    BY <1>1, <1>2 DEF ClosedUnderSendto
  <2>3. S \cap T = {}
    BY <2>2 DEF SendGraphAcyclic
  <2>4. QED
    BY <2>1, <2>3
<1>4. CASE s \notin S
  BY <1>2, <1>4 DEF SendGraphAcyclic
<1>5. QED
  BY <1>3, <1>4

\* Every step keeps the graph of senders acyclic.
LEMMA StepAcyclic ==
    ASSUME TypeShape, QueueExact, SendGraphAcyclic, Next
    PROVE  SendGraphAcyclic'
<1>1. CASE SameSenders
  BY <1>1 DEF SameSenders, SendGraphAcyclic
<1>2. ASSUME NEW p \in Procs, NEW src \in Sources, ReceiveQueued(p, src)
      PROVE  SendGraphAcyclic'
  <2>1. PICK from \in Procs :
          /\ p_sendto' = [p_sendto EXCEPT ![from] = NO_TASK]
          /\ p_flags' = [p_flags EXCEPT ![from] = @ \ {"SENDING"}]
    BY <1>2, QueuedIsProc DEF ReceiveQueued, TypeShape
  <2>2. ~Sending(from)' /\ \A x \in Procs : x # from =>
           p_sendto'[x] = p_sendto[x] /\ Sending(x)' = Sending(x)
    BY <2>1 DEF Sending, TypeShape, TypeOK
  <2> SUFFICES ASSUME NEW S \in SUBSET Procs, \A x \in S : Sending(x)' /\ p_sendto'[x] \in S
               PROVE  S = {}
    BY DEF SendGraphAcyclic
  <2>3. from \notin S
    BY <2>2
  <2>4. QED
    BY <2>2, <2>3 DEF SendGraphAcyclic
<1>3. QED
  BY <1>1, <1>2, StepCases, SendBlockAcyclic

(***************************************************************************)
(* No lost wake-up.                                                        *)
(***************************************************************************)

\* A blocked receiver has nothing it could take.
NothingFor(x) ==
    Receiving(x) => ~TakesInterrupt(x, p_recvfrom[x]) /\ ~HasSender(x, p_recvfrom[x])

\* No order of SEND, RECEIVE and interrupts loses a wake-up.
LEMMA StepNoMissedWakeup ==
    ASSUME TypeShape, QueueExact, NoMissedWakeup, Next
    PROVE  NoMissedWakeup'
<1> USE PseudoProcs, IntTasksAssumption
<1> SUFFICES ASSUME NEW x \in Procs PROVE NothingFor(x)'
  BY DEF NoMissedWakeup, NothingFor
<1>0. NothingFor(x)
  BY DEF NoMissedWakeup, NothingFor
<1>1. ASSUME NEW s \in Procs, NEW d \in Procs \ {s}, SendPanic(s, d)
      PROVE  NothingFor(x)'
  BY <1>0, <1>1 DEF SendPanic, NothingFor, TakesInterrupt, HasSender, Sending, Receiving
<1>2. ASSUME NEW s \in Procs, NEW d \in Procs \ {s}, NEW b \in Bodies, SendDeliver(s, d, b)
      PROVE  NothingFor(x)'
  <2>1. \A y \in Procs : Sending(y)' = Sending(y)
    BY <1>2 DEF SendDeliver, Sending, TypeShape, TypeOK
  <2>2. Receiving(x)' => Receiving(x) /\ p_recvfrom'[x] = p_recvfrom[x]
    BY <1>2 DEF SendDeliver, Receiving, TypeShape, TypeOK
  <2>3. QED
    BY <1>0, <1>2, <2>1, <2>2 DEF SendDeliver, NothingFor, TakesInterrupt, HasSender
<1>3. ASSUME NEW s \in Procs, NEW d \in Procs \ {s}, NEW b \in Bodies,
             Running(s), SendBlock(s, d, b)
      PROVE  NothingFor(x)'
  <2>1. /\ \A y \in Procs : y # s => Sending(y)' = Sending(y) /\ p_sendto'[y] = p_sendto[y]
        /\ p_sendto'[s] = d
    BY <1>3 DEF SendBlock, Sending, TypeShape, TypeOK
  <2>2. /\ Receiving(x)' = Receiving(x)
        /\ p_recvfrom'[x] = p_recvfrom[x]
        /\ has_int_msg'[x] = has_int_msg[x]
    BY <1>3 DEF SendBlock, Receiving, TypeShape, TypeOK
  <2>3. x # d => q_sending'[x] = q_sending[x]
    BY <1>3 DEF SendBlock, TypeShape, TypeOK
  <2>4. x = d => ~Receiving(x) \/ p_recvfrom[x] \notin {s, ANY}
    BY <1>3 DEF SendBlock, AcceptsFrom
  <2>5. QED
    BY <1>0, <2>1, <2>2, <2>3, <2>4 DEF NothingFor, TakesInterrupt, HasSender
<1>4. ASSUME NEW p \in Procs, NEW src \in Sources \ {p}, ReceiveInt(p, src)
      PROVE  NothingFor(x)'
  BY <1>0, <1>4 DEF ReceiveInt, NothingFor, TakesInterrupt, HasSender, Sending, Receiving, TypeShape, TypeOK
<1>5. ASSUME NEW p \in Procs, NEW src \in Sources \ {p}, Running(p), ReceiveQueued(p, src)
      PROVE  NothingFor(x)'
  <2>1. PICK from \in Procs :
          /\ p_sendto' = [p_sendto EXCEPT ![from] = NO_TASK]
          /\ p_flags' = [p_flags EXCEPT ![from] = @ \ {"SENDING"}]
    BY <1>5, QueuedIsProc DEF ReceiveQueued, TypeShape
  <2>2. /\ Receiving(x)' = Receiving(x)
        /\ \A y \in Procs : Sending(y)' => Sending(y) /\ p_sendto'[y] = p_sendto[y]
    BY <2>1 DEF Sending, Receiving, TypeShape, TypeOK
  <2>3. CASE x = p
    BY <1>5, <2>2, <2>3 DEF Running, Receiving, NothingFor
  <2>4. CASE x # p
    <3>1. q_sending'[x] = q_sending[x]
      BY <1>5, <2>4 DEF ReceiveQueued, TypeShape, TypeOK
    <3>2. p_recvfrom' = p_recvfrom /\ has_int_msg' = has_int_msg
      BY <1>5 DEF ReceiveQueued
    <3>3. QED
      BY <1>0, <2>2, <3>1, <3>2 DEF NothingFor, TakesInterrupt, HasSender
  <2>5. QED
    BY <2>3, <2>4
<1>6. ASSUME NEW p \in Procs, NEW src \in Sources \ {p}, ReceiveBlock(p, src)
      PROVE  NothingFor(x)'
  <2>1. \A y \in Procs : Sending(y)' = Sending(y)
    BY <1>6 DEF ReceiveBlock, Sending, TypeShape, TypeOK
  <2>2. CASE x = p
    <3>1. p_recvfrom'[x] = src
      BY <1>6, <2>2 DEF ReceiveBlock, TypeShape, TypeOK
    <3>2. QED
      BY <1>6, <2>1, <2>2, <3>1 DEF ReceiveBlock, NothingFor, TakesInterrupt, HasSender
  <2>3. CASE x # p
    <3>1. Receiving(x)' = Receiving(x) /\ p_recvfrom'[x] = p_recvfrom[x]
      BY <1>6, <2>3 DEF ReceiveBlock, Receiving, TypeShape, TypeOK
    <3>2. QED
      BY <1>0, <1>6, <2>1, <3>1 DEF ReceiveBlock, NothingFor, TakesInterrupt, HasSender
  <2>4. QED
    BY <2>2, <2>3
<1>7. ASSUME NEW t \in IntTasks, InformWake(t)
      PROVE  NothingFor(x)'
  <2>1. \A y \in Procs : Sending(y)' = Sending(y)
    BY <1>7 DEF InformWake, Sending, TypeShape, TypeOK
  <2>2. Receiving(x)' => /\ Receiving(x)
                         /\ p_recvfrom'[x] = p_recvfrom[x]
                         /\ has_int_msg'[x] = has_int_msg[x]
    BY <1>7 DEF InformWake, Receiving, TypeShape, TypeOK
  <2>3. QED
    BY <1>0, <1>7, <2>1, <2>2 DEF InformWake, NothingFor, TakesInterrupt, HasSender
<1>8. ASSUME NEW t \in IntTasks, InformPend(t)
      PROVE  NothingFor(x)'
  <2>1. Receiving(x)' = Receiving(x) /\ \A y \in Procs : Sending(y)' = Sending(y)
    BY <1>8 DEF InformPend, Receiving, Sending
  <2>2. x # t => has_int_msg'[x] = has_int_msg[x]
    BY <1>8 DEF InformPend, TypeShape, TypeOK
  <2>3. x = t => ~Receiving(x) \/ p_recvfrom[x] \notin {INTERRUPT, ANY}
    BY <1>8 DEF InformPend, AcceptsFrom
  <2>4. QED
    BY <1>0, <1>8, <2>1, <2>2, <2>3 DEF InformPend, NothingFor, TakesInterrupt, HasSender
<1>9. QED
  BY <1>1, <1>2, <1>3, <1>4, <1>5, <1>6, <1>7, <1>8
  DEF Next, SysSend, SysReceive, HardwareInterrupt, msg_send, msg_receive, inform_int

(***************************************************************************)
(* The invariant.                                                          *)
(***************************************************************************)

\* No step breaks the invariant of the process table.
LEMMA StepIInv ==
    ASSUME IInv, [Next]_vars
    PROVE  IInv'
<1>1. CASE Next
  <2>1. TypeShape
    BY DEF IInv, TypeShape
  <2>2. TypeShape'
    BY <1>1, <2>1, StepTypeShape DEF IInv
  <2>3. QueueExact' /\ SendGraphAcyclic' /\ NoMissedWakeup'
    BY <1>1, <2>1, StepQueue, StepAcyclic, StepNoMissedWakeup DEF IInv
  <2>4. QED
    BY <2>2, <2>3 DEF IInv, TypeShape
<1>2. CASE UNCHANGED vars
  BY <1>2, ZenonT(40) DEF vars, IInv, TypeOK, Shape, ShapeOf, QueueExact, QueuedAreSending, SendersAreQueued, QueuedOnce, SendGraphAcyclic, NoMissedWakeup,
     TakesInterrupt, HasSender, Sending, Receiving
<1>3. QED
  BY <1>1, <1>2

(***************************************************************************)
(* What a SEND, a RECEIVE and an interrupt come to.                        *)
(***************************************************************************)
SameEntry(x) ==
    /\ p_flags'[x] = p_flags[x] /\ p_sendto'[x] = p_sendto[x] /\ p_recvfrom'[x] = p_recvfrom[x]
    /\ has_int_msg'[x] = has_int_msg[x] /\ buf'[x] = buf[x]

\* The kernel panics: nothing else changes.
Panics ==
    halted' /\ UNCHANGED <<p_flags, p_msg, p_recvfrom, p_sendto, has_int_msg, q_sending, buf>>

Delivered(s, d, b) ==
    /\ p_flags[d] = {"RECEIVING"} /\ p_recvfrom[d] \in {s, ANY}
    /\ p_flags'[d] = {} /\ p_sendto'[d] = p_sendto[d]
    /\ has_int_msg'[d] = has_int_msg[d] /\ buf'[d] = [source |-> s, body |-> b]
    /\ p_flags'[s] = {} /\ p_sendto'[s] = p_sendto[s] /\ p_recvfrom'[s] = p_recvfrom[s]
    /\ has_int_msg'[s] = has_int_msg[s] /\ buf'[s] = [source |-> s, body |-> b]
    /\ \A x \in Procs \ {s, d} : SameEntry(x)
    /\ ~halted'

Queued(s, d, b) ==
    /\ ~(p_flags[d] = {"RECEIVING"} /\ p_recvfrom[d] \in {s, ANY})
    /\ p_flags'[s] = {"SENDING"} /\ p_sendto'[s] = d /\ p_recvfrom'[s] = p_recvfrom[s]
    /\ has_int_msg'[s] = has_int_msg[s] /\ buf'[s] = [source |-> s, body |-> b]
    /\ \A x \in Procs \ {s} : SameEntry(x)
    /\ ~halted'

\* p has the message of the process that was queued for it.
TookFrom(p, who, from) ==
    /\ p_flags[from] = {"SENDING"} /\ p_sendto[from] = p /\ who \in {ANY, from}
    /\ p_flags'[from] = {} /\ p_sendto'[from] = NO_TASK /\ p_recvfrom'[from] = p_recvfrom[from]
    /\ has_int_msg'[from] = has_int_msg[from] /\ buf'[from] = buf[from]
    /\ p_flags'[p] = {} /\ p_sendto'[p] = p_sendto[p] /\ p_recvfrom'[p] = p_recvfrom[p]
    /\ has_int_msg'[p] = has_int_msg[p] /\ buf'[p] = buf[from]
    /\ \A x \in Procs \ {p, from} : SameEntry(x)

TookInterrupt(p, who) ==
    /\ has_int_msg[p] /\ who \in {ANY, INTERRUPT} /\ has_int_msg'[p] = FALSE
    /\ p_flags'[p] = {} /\ p_sendto'[p] = p_sendto[p] /\ p_recvfrom'[p] = p_recvfrom[p]
    /\ buf'[p] = [source |-> INTERRUPT, body |-> HARD_INT]
    /\ \A x \in Procs \ {p} : SameEntry(x)

WaitsFor(p, who) ==
    /\ \A q \in Procs : ~(p_flags[q] = {"SENDING"} /\ p_sendto[q] = p /\ who \in {ANY, q})
    /\ ~(has_int_msg[p] /\ who \in {ANY, INTERRUPT})
    /\ p_flags'[p] = {"RECEIVING"} /\ p_recvfrom'[p] = who /\ p_sendto'[p] = p_sendto[p]
    /\ has_int_msg'[p] = has_int_msg[p] /\ buf'[p] = [source |-> p, body |-> buf[p].body]
    /\ \A x \in Procs \ {p} : SameEntry(x)

\* A blocked process has one flag.
LEMMA Blocked ==
    ASSUME IInv, NEW p \in Procs
    PROVE  /\ p_flags[p] \in {{}, {"SENDING"}, {"RECEIVING"}}
           /\ Sending(p) <=> p_flags[p] = {"SENDING"}
           /\ Receiving(p) <=> p_flags[p] = {"RECEIVING"}
BY DEF IInv, Shape, ShapeOf, Sending, Receiving

\* The outcomes of a SEND.
LEMMA Sends ==
    ASSUME IInv, ~halted, NEW s \in Procs, NEW d \in Procs \ {s}, NEW b \in Bodies,
           p_flags[s] = {}, msg_send(s, d, b)
    PROVE  IInv' /\ (Panics \/ Delivered(s, d, b) \/ Queued(s, d, b))
<1>1. Next
  BY DEF Next, SysSend, Running
<1>2. IInv'
  BY <1>1, StepIInv
<1>3. CASE SendPanic(s, d)
  BY <1>2, <1>3 DEF SendPanic, Panics
<1>4. CASE SendDeliver(s, d, b)
  <2>1. TypeOK
    BY DEF IInv
  <2>2. p_flags[d] = {"RECEIVING"} /\ p_recvfrom[d] \in {s, ANY}
    BY <1>4, Blocked DEF SendDeliver, AcceptsFrom
  <2>3. /\ p_flags' = [p_flags EXCEPT ![d] = {}] /\ p_recvfrom' = [p_recvfrom EXCEPT ![d] = NO_TASK]
        /\ buf' = [buf EXCEPT ![s] = [source |-> s, body |-> b], ![d] = [source |-> s, body |-> b]]
        /\ UNCHANGED <<p_sendto, has_int_msg, halted>>
    BY <1>4, <2>1, <2>2 DEF SendDeliver, TypeOK
  <2>4. Delivered(s, d, b)
    BY <2>1, <2>2, <2>3 DEF Delivered, SameEntry, TypeOK
  <2>5. QED
    BY <1>2, <2>4
<1>5. CASE SendBlock(s, d, b)
  <2>1. TypeOK
    BY DEF IInv
  <2>2. ~(p_flags[d] = {"RECEIVING"} /\ p_recvfrom[d] \in {s, ANY})
    BY <1>5 DEF SendBlock, AcceptsFrom, Receiving
  <2>3. /\ p_flags' = [p_flags EXCEPT ![s] = {"SENDING"}] /\ p_sendto' = [p_sendto EXCEPT ![s] = d]
        /\ buf' = [buf EXCEPT ![s] = [source |-> s, body |-> b]]
        /\ UNCHANGED <<p_recvfrom, has_int_msg, halted>>
    BY <1>5, <2>1 DEF SendBlock, TypeOK
  <2>4. Queued(s, d, b)
    BY <2>1, <2>2, <2>3 DEF Queued, SameEntry, TypeOK
  <2>5. QED
    BY <1>2, <2>4
<1>6. QED
  BY <1>3, <1>4, <1>5 DEF msg_send

\* The outcomes of a RECEIVE.
LEMMA Receives ==
    ASSUME IInv, ~halted, NEW p \in Procs, NEW who \in Sources \ {p},
           p_flags[p] = {}, msg_receive(p, who)
    PROVE  /\ IInv' /\ ~halted'
           /\ \/ TookInterrupt(p, who)
              \/ \E from \in Procs \ {p} : TookFrom(p, who, from)
              \/ WaitsFor(p, who)
<1>1. Next
  BY DEF Next, SysReceive, Running
<1>2. IInv' /\ ~halted' /\ TypeOK /\ QueueExact
  BY <1>1, StepIInv DEF IInv, msg_receive, ReceiveInt, ReceiveQueued, ReceiveBlock
<1>3. CASE ReceiveInt(p, who)
  BY <1>2, <1>3 DEF ReceiveInt, TakesInterrupt, TookInterrupt, SameEntry, TypeOK
<1>4. CASE ReceiveQueued(p, who)
  <2>1. PICK i \in 1..Len(q_sending[p]) :
          /\ IF who = ANY THEN i = 1 ELSE q_sending[p][i] = who
          /\ buf' = [buf EXCEPT ![p] = buf[q_sending[p][i]]]
          /\ p_sendto' = [p_sendto EXCEPT ![q_sending[p][i]] = NO_TASK]
          /\ p_flags' = [p_flags EXCEPT ![q_sending[p][i]] = @ \ {"SENDING"}]
    BY <1>4 DEF ReceiveQueued
  <2>2. PICK from \in Procs : from = q_sending[p][i]
    BY <1>2, QueuedIsProc
  <2>3. p_flags[from] = {"SENDING"} /\ p_sendto[from] = p /\ from # p
    BY <1>2, <2>2, Blocked DEF QueueExact, QueuedAreSending
  <2>4. p_flags' = [p_flags EXCEPT ![from] = {}] /\ UNCHANGED <<p_recvfrom, has_int_msg>>
    <3>1. p_flags' = [p_flags EXCEPT ![from] = {"SENDING"} \ {"SENDING"}]
      BY <2>1, <2>2, <2>3
    <3>2. UNCHANGED <<p_recvfrom, has_int_msg>>
      BY <1>4 DEF ReceiveQueued
    <3>3. QED
      BY <3>1, <3>2
  <2>5. TookFrom(p, who, from)
    BY <1>2, <2>1, <2>2, <2>3, <2>4 DEF TookFrom, SameEntry, TypeOK
  <2>6. QED
    BY <1>2, <2>3, <2>5
<1>5. CASE ReceiveBlock(p, who)
  <2>1. p_flags' = [p_flags EXCEPT ![p] = {"RECEIVING"}]
    BY <1>2, <1>5 DEF ReceiveBlock, TypeOK
  <2>2. buf' = [buf EXCEPT ![p] = [source |-> p, body |-> buf[p].body]]
    <3>1. buf[p] \in Message /\ buf' = [buf EXCEPT ![p].source = p]
      BY <1>2, <1>5 DEF ReceiveBlock, TypeOK
    <3>2. \A m \in Message : [m EXCEPT !.source = p] = [source |-> p, body |-> m.body]
      BY DEF Message
    <3>3. QED
      BY <3>1, <3>2
  <2>3. ASSUME NEW q \in Procs, p_flags[q] = {"SENDING"}, p_sendto[q] = p, who \in {ANY, q}
        PROVE  FALSE
    <3>1. Sending(q)
      BY <2>3, Blocked
    <3>2. PICK i \in 1..Len(q_sending[p]) : q_sending[p][i] = q
      BY <1>2, <2>3, <3>1 DEF QueueExact, SendersAreQueued
    <3>3. q_sending[p] # << >>
      BY <3>2
    <3>4. QED
      BY <1>5, <2>3, <3>1, <3>3 DEF ReceiveBlock, HasSender
  <2>4. ~(has_int_msg[p] /\ who \in {ANY, INTERRUPT})
    BY <1>5 DEF ReceiveBlock, TakesInterrupt
  <2>5. WaitsFor(p, who)
    BY <1>2, <1>5, <2>1, <2>2, <2>3, <2>4 DEF ReceiveBlock, WaitsFor, SameEntry, TypeOK
  <2>6. QED
    BY <1>2, <2>5
<1>6. QED
  BY <1>3, <1>4, <1>5 DEF msg_receive

\* An interrupt wakes its task from a RECEIVE for it or is remembered.
LEMMA Informs ==
    ASSUME IInv, ~halted, NEW task \in IntTasks, inform_int(task)
    PROVE  /\ IInv' /\ ~halted'
           /\ \A x \in Procs \ {task} : SameEntry(x)
           /\ \/ /\ p_flags[task] = {"RECEIVING"} /\ p_recvfrom[task] \in {INTERRUPT, ANY}
                 /\ p_flags'[task] = {} /\ p_sendto'[task] = p_sendto[task]
                 /\ has_int_msg'[task] = FALSE
                 /\ buf'[task] = [source |-> INTERRUPT, body |-> HARD_INT]
              \/ /\ ~(p_flags[task] = {"RECEIVING"} /\ p_recvfrom[task] \in {INTERRUPT, ANY})
                 /\ p_flags'[task] = p_flags[task] /\ p_sendto'[task] = p_sendto[task]
                 /\ p_recvfrom'[task] = p_recvfrom[task] /\ buf'[task] = buf[task]
                 /\ has_int_msg'[task] = TRUE
<1>1. Next
  BY DEF Next, HardwareInterrupt
<1>2. IInv' /\ ~halted' /\ TypeOK /\ task \in Procs
  BY <1>1, StepIInv, IntTasksAssumption DEF IInv, inform_int, InformWake, InformPend
<1>3. CASE InformWake(task)
  <2>1. p_flags[task] = {"RECEIVING"} /\ p_recvfrom[task] \in {INTERRUPT, ANY}
    BY <1>2, <1>3, Blocked DEF InformWake, AcceptsFrom
  <2>2. p_flags' = [p_flags EXCEPT ![task] = {}]
    BY <1>2, <1>3, <2>1 DEF InformWake, TypeOK
  <2>3. QED
    BY <1>2, <1>3, <2>1, <2>2 DEF InformWake, SameEntry, TypeOK
<1>4. CASE InformPend(task)
  BY <1>2, <1>4, Blocked DEF InformPend, AcceptsFrom, SameEntry, TypeOK
<1>5. QED
  BY <1>3, <1>4 DEF inform_int

\* A SEND only panics when the walk from its destination comes back to the sender: not
\* when the destination, or the process that one is sending to, is blocked in no SEND.
LEMMA PanicsInCircle ==
    ASSUME NEW s \in Procs, NEW d \in Procs \ {s}, NEW b, ~halted, msg_send(s, d, b), halted'
    PROVE  /\ Sending(d)
           /\ p_sendto[d] \in Procs => p_sendto[d] = s \/ Sending(p_sendto[d])
<1>1. deadlock(s, d)
  BY DEF msg_send, SendPanic, SendDeliver, SendBlock
<1>2. ASSUME ~Sending(d)
      PROVE  FALSE
  <2>1. {d} \in SUBSET Procs /\ ClosedUnderSendto({d})
    BY <1>2 DEF ClosedUnderSendto
  <2>2. QED
    BY <1>1, <2>1 DEF deadlock
<1>3. ASSUME p_sendto[d] \in Procs, p_sendto[d] # s, ~Sending(p_sendto[d])
      PROVE  FALSE
  <2>1. {d, p_sendto[d]} \in SUBSET Procs /\ ClosedUnderSendto({d, p_sendto[d]})
    BY <1>3 DEF ClosedUnderSendto
  <2>2. QED
    BY <1>1, <1>3, <2>1 DEF deadlock
<1>4. QED
  BY <1>2, <1>3

(***************************************************************************)
(* The theorems                                                            *)
(***************************************************************************)

\* The inductive invariant of the process table holds in every state.
THEOREM IpcInvariant == Spec => []IInv
<1>1. IInv /\ [Next]_vars => IInv'
  BY StepIInv
<1>2. QED
  BY InitIInv, <1>1, PTL DEF Spec

\* The process table is well typed in every state.
THEOREM IpcTypeOK == Spec => []TypeOK
<1>1. IInv => TypeOK
  BY DEF IInv
<1>2. QED
  BY IpcInvariant, <1>1, PTL

\* q_sending always holds exactly the processes SENDING to its owner.
THEOREM IpcQueueExact == Spec => []QueueExact
<1>1. IInv => QueueExact
  BY DEF IInv
<1>2. QED
  BY IpcInvariant, <1>1, PTL

\* With deadlock() checked on every SEND, senders never wait in a circle.
THEOREM IpcSendGraphAcyclic == Spec => []SendGraphAcyclic
<1>1. IInv => SendGraphAcyclic
  BY DEF IInv
<1>2. QED
  BY IpcInvariant, <1>1, PTL

\* No interleaving of SEND, RECEIVE and interrupts loses a wake-up.
THEOREM IpcNoMissedWakeup == Spec => []NoMissedWakeup
<1>1. IInv => NoMissedWakeup
  BY DEF IInv
<1>2. QED
  BY IpcInvariant, <1>1, PTL

\* No assertion of kernel/proc.c fails, whatever processes call.
THEOREM IpcAssertsHold == Spec => []AssertsHold
<1>1. ASSUME IInv PROVE AssertsHold
  <2> SUFFICES ASSUME NEW p \in Procs
               PROVE  CallerAsserts(p) /\ ReceiverAsserts(p) /\ SenderAsserts(p) /\ QueueAsserts(p)
    BY DEF AssertsHold
  <2>1. ShapeOf(p) /\ TypeOK /\ QueueExact
    BY <1>1 DEF IInv, Shape
  <2>2. CallerAsserts(p)
    BY <2>1 DEF CallerAsserts, ShapeOf, Running, Sending, Receiving
  <2>3. ReceiverAsserts(p)
    BY <2>1 DEF ReceiverAsserts, ShapeOf, Sending, Receiving
  <2>4. SenderAsserts(p)
    BY <2>1 DEF SenderAsserts, ShapeOf, Sending, Receiving
  <2>5. QueueAsserts(p)
    <3> SUFFICES ASSUME NEW src \in Sources \ {p}, HasSender(p, src)
                 PROVE  \E i \in 1..Len(q_sending[p]) :
                          /\ IF src = ANY THEN i = 1 ELSE q_sending[p][i] = src
                          /\ Sending(q_sending[p][i]) /\ p_sendto[q_sending[p][i]] = p
      BY DEF QueueAsserts
    <3>1. CASE src = ANY
      <4>1. q_sending[p] \in Seq(Procs) /\ q_sending[p] # << >>
        BY <2>1, <3>1, PseudoProcs DEF TypeOK, HasSender
      <4>2. 1 \in 1..Len(q_sending[p])
        BY <4>1, EmptySeq, LenProperties
      <4>3. QED
        BY <2>1, <3>1, <4>2 DEF QueueExact, QueuedAreSending
    <3>2. CASE src # ANY
      <4>1. src \in Procs /\ Sending(src) /\ p_sendto[src] = p
        BY <3>2 DEF HasSender
      <4>2. QED
        BY <2>1, <3>2, <4>1 DEF QueueExact, QueuedAreSending, SendersAreQueued
    <3>3. QED
      BY <3>1, <3>2
  <2>6. QED
    BY <2>2, <2>3, <2>4, <2>5
<1>2. QED
  BY IpcInvariant, <1>1, PTL

\* A sender is released exactly by the copy of its message, a receiver
\* exactly by a message it waited for.
THEOREM IpcRendezvousSound == Spec => RendezvousSound
<1> USE PseudoProcs, IntTasksAssumption
<1>1. ASSUME IInv, Next, NEW x \in Procs PROVE RendezvousOf(x)
  <2>0. TypeShape /\ TypeOK /\ QueueExact
    BY <1>1 DEF IInv, TypeShape
  <2>1. Sending(x) /\ ~Sending(x)' => buf'[p_sendto[x]] = buf[x]
    <3> SUFFICES ASSUME Sending(x), ~Sending(x)' PROVE buf'[p_sendto[x]] = buf[x]
      OBVIOUS
    <3>1. CASE SameSenders
      BY <3>1 DEF SameSenders
    <3>2. ASSUME NEW s \in Procs, NEW d \in Procs, NEW b \in Bodies, SendBlock(s, d, b)
          PROVE  FALSE
      BY <2>0, <3>2 DEF SendBlock, Sending, TypeOK
    <3>3. ASSUME NEW p \in Procs, NEW src \in Sources, ReceiveQueued(p, src)
          PROVE  buf'[p_sendto[x]] = buf[x]
      <4>1. PICK i \in 1..Len(q_sending[p]) :
              /\ buf' = [buf EXCEPT ![p] = buf[q_sending[p][i]]]
              /\ p_flags' = [p_flags EXCEPT ![q_sending[p][i]] = @ \ {"SENDING"}]
        BY <3>3 DEF ReceiveQueued
      <4>2. q_sending[p][i] \in Procs /\ p_sendto[q_sending[p][i]] = p
        BY <2>0, QueuedIsProc DEF QueueExact, QueuedAreSending
      <4>3. x = q_sending[p][i]
        BY <2>0, <4>1, <4>2 DEF Sending, TypeOK
      <4>4. QED
        BY <2>0, <4>1, <4>2, <4>3 DEF TypeOK
    <3>4. QED
      BY <1>1, <2>0, <3>1, <3>2, <3>3, StepCases
  <2>2. Receiving(x) /\ ~Receiving(x)' =>
           \/ buf'[x].source = p_recvfrom[x]
           \/ p_recvfrom[x] = ANY /\ buf'[x].source # x
    <3> SUFFICES ASSUME Receiving(x), ~Receiving(x)'
                 PROVE  \/ buf'[x].source = p_recvfrom[x]
                        \/ p_recvfrom[x] = ANY /\ buf'[x].source # x
      OBVIOUS
    <3>1. ASSUME NEW s \in Procs, NEW d \in Procs \ {s}, SendPanic(s, d)
          PROVE  FALSE
      BY <3>1 DEF SendPanic, Receiving
    <3>2. ASSUME NEW s \in Procs, NEW d \in Procs \ {s}, NEW b \in Bodies, SendDeliver(s, d, b)
          PROVE  x = d /\ buf'[x].source = s /\ p_recvfrom[x] \in {s, ANY} /\ s # x
      BY <2>0, <3>2 DEF SendDeliver, AcceptsFrom, Receiving, TypeOK
    <3>3. ASSUME NEW s \in Procs, NEW d \in Procs \ {s}, NEW b \in Bodies, SendBlock(s, d, b)
          PROVE  FALSE
      BY <2>0, <3>3 DEF SendBlock, Receiving, TypeOK
    <3>4. ASSUME NEW p \in Procs, NEW src \in Sources \ {p}, ReceiveInt(p, src)
          PROVE  FALSE
      BY <3>4 DEF ReceiveInt, Receiving
    <3>5. ASSUME NEW p \in Procs, NEW src \in Sources \ {p}, ReceiveQueued(p, src)
          PROVE  FALSE
      BY <2>0, <3>5, QueuedIsProc DEF ReceiveQueued, Receiving, TypeOK
    <3>6. ASSUME NEW p \in Procs, NEW src \in Sources \ {p}, ReceiveBlock(p, src)
          PROVE  FALSE
      BY <2>0, <3>6 DEF ReceiveBlock, Receiving, TypeOK
    <3>7. ASSUME NEW t \in IntTasks, InformWake(t)
          PROVE  x = t /\ buf'[x].source = INTERRUPT /\ p_recvfrom[x] \in {INTERRUPT, ANY}
      BY <2>0, <3>7 DEF InformWake, AcceptsFrom, Receiving, TypeOK
    <3>8. ASSUME NEW t \in IntTasks, InformPend(t)
          PROVE  FALSE
      BY <3>8 DEF InformPend, Receiving
    <3>9. QED
      BY <1>1, <3>1, <3>2, <3>3, <3>4, <3>5, <3>6, <3>7, <3>8
      DEF Next, SysSend, SysReceive, HardwareInterrupt, msg_send, msg_receive, inform_int
  <2>3. QED
    BY <2>1, <2>2 DEF RendezvousOf
<1>2. ASSUME IInv, [Next]_vars PROVE [RendezvousStep]_vars
  <2>1. CASE Next
    BY <1>1, <1>2, <2>1 DEF RendezvousStep
  <2>2. CASE UNCHANGED vars
    BY <2>2
  <2>3. QED
    BY <1>2, <2>1, <2>2
<1>3. QED
  BY IpcInvariant, <1>2, PTL DEF Spec, RendezvousSound

\* No sender is overtaken in the queue it waits in.
THEOREM IpcNoOvertaking == Spec => NoOvertaking
<1>1. ASSUME IInv, Next PROVE NoOvertakingStep
  <2>0. TypeShape /\ TypeOK /\ QueueExact
    BY <1>1 DEF IInv, TypeShape
  <2> SUFFICES ASSUME NEW e \in Procs,
                      NEW i \in 1..Len(q_sending[e]), NEW j \in 1..Len(q_sending'[e]),
                      q_sending[e][i] = q_sending'[e][j]
               PROVE  j <= i
    BY DEF NoOvertakingStep
  <2>q. /\ q_sending[e] \in Seq(Procs) /\ Len(q_sending[e]) \in Nat
        /\ \A g, h \in 1..Len(q_sending[e]) : q_sending[e][g] = q_sending[e][h] => g = h
    BY <2>0, LenProperties DEF TypeOK, QueueExact, QueuedOnce
  <2>1. CASE q_sending'[e] = q_sending[e]
    BY <2>1, <2>q
  <2>2. ASSUME NEW s \in Procs, NEW d \in Procs, NEW b \in Bodies, Running(s), SendBlock(s, d, b)
        PROVE  j <= i
    <3>1. CASE d = e
      <4>1. q_sending'[e] = Append(q_sending[e], s)
        BY <2>0, <2>2, <3>1 DEF SendBlock, TypeOK
      <4>2. /\ Len(Append(q_sending[e], s)) = Len(q_sending[e]) + 1
            /\ \A k \in 1..Len(q_sending[e]) : Append(q_sending[e], s)[k] = q_sending[e][k]
            /\ Append(q_sending[e], s)[Len(q_sending[e]) + 1] = s
        BY <2>q, AppendProperties
      <4>3. q_sending[e][i] # s
        BY <2>0, <2>2 DEF Running, Sending, QueueExact, QueuedAreSending
      <4>4. j \in 1..Len(q_sending[e])
        BY <2>q, <4>1, <4>2, <4>3
      <4>5. QED
        BY <2>q, <4>1, <4>2, <4>4
    <3>2. CASE d # e
      BY <2>0, <2>1, <2>2, <3>2 DEF SendBlock, TypeOK
    <3>3. QED
      BY <3>1, <3>2
  <2>3. ASSUME NEW p \in Procs, NEW src \in Sources, ReceiveQueued(p, src)
        PROVE  j <= i
    <3>1. CASE p = e
      <4>1. PICK k \in 1..Len(q_sending[e]) : q_sending'[e] = Unlink(q_sending[e], k)
        BY <2>0, <2>3, <3>1 DEF ReceiveQueued, TypeOK
      <4>2. /\ j \in 1..(Len(q_sending[e]) - 1)
            /\ q_sending'[e][j] = IF j < k THEN q_sending[e][j] ELSE q_sending[e][j + 1]
        <5> DEFINE q == q_sending[e]
        <5>1. /\ Len(Unlink(q, k)) = Len(q) - 1
              /\ \A h \in 1..(Len(q) - 1) : Unlink(q, k)[h] = IF h < k THEN q[h] ELSE q[h + 1]
          BY <2>q, UnlinkSeq
        <5>2. QED
          BY <4>1, <5>1
      <4>3. CASE j < k
        BY <2>q, <4>2, <4>3
      <4>4. CASE ~(j < k)
        <5>1. j + 1 \in 1..Len(q_sending[e]) /\ q_sending[e][i] = q_sending[e][j + 1]
          BY <2>q, <4>2, <4>4
        <5>2. i = j + 1
          BY <2>q, <5>1
        <5>3. QED
          BY <2>q, <5>2
      <4>5. QED
        BY <4>3, <4>4
    <3>2. CASE p # e
      BY <2>0, <2>1, <2>3, <3>2 DEF ReceiveQueued, TypeOK
    <3>3. QED
      BY <3>1, <3>2
  <2>4. QED
    BY <1>1, <2>0, <2>1, <2>2, <2>3, StepCases DEF SameSenders
<1>2. ASSUME IInv, [Next]_vars PROVE [NoOvertakingStep]_vars
  <2>1. CASE Next
    BY <1>1, <1>2, <2>1
  <2>2. CASE UNCHANGED vars
    BY <2>2
  <2>3. QED
    BY <1>2, <2>1, <2>2
<1>3. QED
  BY IpcInvariant, <1>2, PTL DEF Spec, NoOvertaking

\* The queues of blocked senders implement the abstract queues: under the
\* invariant each step of the kernel is a step of SendQueue or leaves the
\* queues alone.
THEOREM IpcImplementsQueue == Spec => ImplementsQueue
<1>1. Init => SQ!Init
  BY DEF Init, SQ!Init
<1>2. ASSUME IInv, Next PROVE [SQ!Next]_q_sending
  <2>0. TypeShape /\ TypeOK /\ QueueExact
    BY <1>2 DEF IInv, TypeShape
  <2>1. ASSUME NEW x \in Procs, Running(x) PROVE ~SQ!Queued(x)
    BY <2>0, <2>1 DEF SQ!Queued, Running, Sending, QueueExact, QueuedAreSending
  <2>2. ASSUME NEW s \in Procs, NEW d \in Procs, NEW b \in Bodies,
               s # d, Running(s), SendBlock(s, d, b)
        PROVE  SQ!Next
    <3>1. SQ!Enqueue(s, d)
      BY <2>1, <2>2 DEF SQ!Enqueue, SendBlock
    <3>2. QED
      BY <3>1 DEF SQ!Next
  <2>3. ASSUME NEW p \in Procs, NEW src \in Sources, Running(p), ReceiveQueued(p, src)
        PROVE  SQ!Next
    <3>1. PICK i \in 1..Len(q_sending[p]) : q_sending' = [q_sending EXCEPT ![p] = Unlink(@, i)]
      BY <2>3 DEF ReceiveQueued
    <3>2. PICK from \in Procs : from = q_sending[p][i]
      BY <2>0, QueuedIsProc
    <3>3. q_sending' = SQ!Without(p, i)
      BY <3>1 DEF SQ!Without, Unlink
    <3>4. SQ!Dequeue(p, from)
      BY <2>1, <2>3, <3>2, <3>3 DEF SQ!Dequeue
    <3>5. QED
      BY <3>4 DEF SQ!Next
  <2>4. QED
    BY <1>2, <2>0, <2>2, <2>3, StepCases DEF SameSenders
<1>3. ASSUME IInv, [Next]_vars PROVE [SQ!Next]_q_sending
  BY <1>2, <1>3 DEF vars
<1>4. QED
  BY IpcInvariant, <1>1, <1>3, PTL DEF Spec, ImplementsQueue, SQ!Spec

=============================================================================
