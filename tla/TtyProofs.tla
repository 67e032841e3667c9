------------------------------- MODULE TtyProofs -------------------------------
(***************************************************************************)
(* Proofs about the terminals, for any number of programs and terminals,   *)
(* any keys and any size of the rings: no key is forgotten, no request is  *)
(* dropped, no answer goes astray, and a program alone never brings TTY    *)
(* and FS to wait for each other.                                          *)
(*                                                                         *)
(* A program that is in a call and not yet answered (Asked) is in one      *)
(* place at a time: FS has its call at hand (FsHas), a terminal holds its  *)
(* read (HeldAt), or TTY tells FS to resume it (Resuming).  Each of the    *)
(* steps below moves it from one place to the next.                        *)
(***************************************************************************)
EXTENDS Tty, IpcProofs

(***************************************************************************)
(* Types                                                                   *)
(***************************************************************************)
Requests ==
    [proc2tty : Users \cup {NO_TASK}, reqed_cnt : 0 .. MaxCount, sended_cnt : 0 .. MaxCount]

Keys == session.keys

Fields ==
    /\ session \in Sessions
    /\ prog \in [Users -> {"user", "recv", "ret"}]
    /\ kb_in \in Seq(Keys) /\ Len(kb_in) <= KB_IN_BYTES
    /\ key_pressed \in BOOLEAN
    /\ current_tty \in Ttys /\ tty_p \in Ttys
    /\ ring \in [Ttys -> Seq(Keys)] /\ \A t \in Ttys : Len(ring[t]) <= TTY_BUFFER_SIZE
    /\ req \in [Ttys -> Requests]
    /\ \A t \in Ttys : /\ req[t].reqed_cnt + req[t].sended_cnt <= MaxCount
                       /\ req[t].reqed_cnt > 0 => req[t].proc2tty \in Users
    /\ tty_pc \in {"enter", "read", "write", "resumed", "receive", "dispatch"}
    /\ tty_pc \in {"receive", "dispatch"} => tty_p = FIRST_TTY
    /\ tty_pc = "resumed" => req[tty_p].proc2tty \in Users
    /\ fs_pc \in {"receive", "dispatch", "await", "answer"} /\ fs_src \in Procs

(***************************************************************************)
(* Messages: who sends to whom and waits for whom, at which place.         *)
(***************************************************************************)

TtyAnswers == tty_pc = "enter" /\ p_flags[TTY] = {"SENDING"}
TtyResumes == tty_pc = "resumed" /\ p_flags[TTY] = {"SENDING"}
TtyTook == tty_pc = "dispatch" /\ p_flags[TTY] = {} /\ buf[TTY].body # HARD_INT
FsTook == fs_pc = "dispatch" /\ p_flags[FS] = {}
FsReplies == fs_pc = "receive" /\ p_flags[FS] = {"SENDING"}
FsAsks == fs_pc = "await" /\ p_flags[FS] = {"SENDING"}
FsAwaits ==
    \/ fs_pc = "await" /\ p_flags[FS] = {}
    \/ fs_pc = "answer" /\ p_flags[FS] = {"RECEIVING"}

Traffic ==
    /\ p_flags[TTY] = {"SENDING"} => tty_pc \in {"enter", "resumed"} /\ p_sendto[TTY] = FS
    /\ p_flags[TTY] = {"RECEIVING"} => tty_pc = "dispatch" /\ p_recvfrom[TTY] = ANY
    /\ p_flags[FS] = {"SENDING"} =>
          \/ fs_pc = "await" /\ p_sendto[FS] = TTY
          \/ fs_pc = "receive" /\ p_sendto[FS] = fs_src
    /\ p_flags[FS] = {"RECEIVING"} =>
          \/ fs_pc = "dispatch" /\ p_recvfrom[FS] = ANY
          \/ fs_pc = "answer" /\ p_recvfrom[FS] = TTY
    /\ \A u \in Users :
          /\ p_flags[u] = {"SENDING"} => prog[u] = "recv" /\ p_sendto[u] = FS
          /\ p_flags[u] = {"RECEIVING"} => prog[u] = "ret" /\ p_recvfrom[u] = FS
    /\ \A p \in Procs \ {TTY} : has_int_msg[p] = FALSE

\* FS waits for the answer of TTY while TTY has its request or answers it.
Turn ==
    /\ FsAwaits <=> TtyTook \/ TtyAnswers
    /\ TtyAnswers => fs_pc = "await"

(***************************************************************************)
(* Contents                                                                *)
(***************************************************************************)
Asking(u, b) ==
    /\ b \in TtyBodies /\ b.type \in {"OPEN", "READ", "WRITE"} /\ b.cnt \in Counts
    /\ <<u, b.dev>> \in session.uses

Forwarded(b) ==
    /\ b \in TtyBodies /\ b.type \in {"DEV_OPEN", "DEV_READ", "DEV_WRITE"} /\ b.cnt \in Counts
    /\ <<fs_src, b.dev>> \in session.uses /\ b.proc = fs_src

Content ==
    /\ \A u \in Users : p_flags[u] = {"SENDING"} => buf[u].source = u /\ Asking(u, buf[u].body)
    /\ FsTook => \/ buf[FS].source \in Users /\ Asking(buf[FS].source, buf[FS].body)
                 \/ buf[FS].body \in TtyBodies /\ buf[FS].body.type = "RESUME_PROC"
    /\ FsAsks => buf[FS].source = FS /\ Forwarded(buf[FS].body)
    /\ TtyTook => buf[TTY].source = FS /\ Forwarded(buf[TTY].body)
    /\ TtyAnswers => buf[TTY].body \in TtyBodies /\ buf[TTY].body.type \in {"SUSPEND_PROC", "SYSCALL_RET"}
    /\ TtyResumes => /\ buf[TTY].body \in TtyBodies /\ buf[TTY].body.type = "RESUME_PROC"
                     /\ buf[TTY].body.proc = req[tty_p].proc2tty
    /\ fs_pc = "answer" /\ p_flags[FS] = {} => buf[FS].body \in TtyBodies

(***************************************************************************)
(* Calls                                                                   *)
(***************************************************************************)
Asked(u) ==
    \/ prog[u] = "recv" /\ p_flags[u] = {}
    \/ prog[u] = "ret" /\ p_flags[u] = {"RECEIVING"}

Asker == IF buf[FS].body.type = "RESUME_PROC" THEN buf[FS].body.proc ELSE buf[FS].source

Suspending ==
    \/ TtyAnswers /\ buf[TTY].body.type = "SUSPEND_PROC"
    \/ fs_pc = "answer" /\ p_flags[FS] = {} /\ buf[FS].body.type = "SUSPEND_PROC"

FsHas(u) ==
    \/ FsTook /\ Asker = u
    \/ fs_pc \in {"await", "answer"} /\ fs_src = u /\ ~Suspending
    \/ FsReplies /\ fs_src = u

HeldAt(u, t) ==
    req[t].proc2tty = u /\ req[t].reqed_cnt > 0 /\ ~(tty_pc = "resumed" /\ tty_p = t)

Resuming(u) == TtyResumes /\ req[tty_p].proc2tty = u

OwnTerminals == \A a, b \in session.uses : a[2] = b[2] => a[1] = b[1]

InHand == fs_pc \in {"await", "answer"} \/ FsReplies => fs_src \in Users /\ Asked(fs_src)

CallOf(u) ==
    /\ prog[u] # "user" => \E t \in Ttys : <<u, t>> \in session.uses
    /\ prog[u] = "user" => p_flags[u] = {}
    /\ FsHas(u) => Asked(u) /\ ~Resuming(u)
    /\ Resuming(u) => Asked(u)
    /\ \A t \in Ttys : HeldAt(u, t) =>
          /\ Asked(u) /\ ~FsHas(u) /\ ~Resuming(u) /\ <<u, t>> \in session.uses
          /\ \A s \in Ttys : HeldAt(u, s) => s = t
    /\ OwnTerminals /\ Asked(u) =>
          FsHas(u) \/ Resuming(u) \/ \E t \in Ttys : HeldAt(u, t)

Calls == InHand /\ \A u \in Users : CallOf(u)

Noticed ==
    kb_in # << >> =>
        \/ key_pressed
        \/ tty_pc = "read"
        \/ tty_pc = "enter" /\ Reachable(tty_p, current_tty)
        \/ tty_pc \in {"write", "resumed"} /\ current_tty # tty_p /\ Reachable(tty_p, current_tty)

Core == IInv /\ Fields /\ Traffic /\ Turn /\ Content /\ Calls /\ Noticed

TtyInv == IF halted THEN TtyTypeOK /\ ~Alone ELSE Core


(***************************************************************************)
(* Constants                                                               *)
(***************************************************************************)

\* TTY and FS are processes, the programs are the others; only TTY gets interrupts;
\* whatever they send is a body of a message.
LEMMA Constants ==
    /\ TTY \in Procs /\ FS \in Procs /\ TTY # FS /\ IntTasks = {TTY}
    /\ TTY \notin Users /\ FS \notin Users /\ Users \subseteq Procs
    /\ \A p \in Procs : p \in Users \/ p = TTY \/ p = FS
    /\ ANY \notin Procs /\ INTERRUPT \notin Procs /\ NO_TASK \notin Procs
    /\ ANY # INTERRUPT /\ ANY # NO_TASK
    /\ FIRST_TTY \in Ttys /\ NO_TASK \notin Ttys
    /\ Procs \subseteq Sources /\ ANY \in Sources
    /\ TtyBodies \subseteq Bodies /\ HARD_INT \notin TtyBodies
BY TtyAssumption, BodiesAssumption, PseudoProcs DEF Users, Sources

\* Lengths of reads and writes are positive and have a largest one.
LEMMA Lengths ==
    /\ MaxCount \in Nat
    /\ \A n \in Counts : n \in Nat /\ n > 0 /\ n <= MaxCount
<1>1. PICK k \in Counts : \A m \in Counts : m <= k
  BY TtyAssumption
<1>2. MaxCount \in Counts /\ \A m \in Counts : m <= MaxCount
  BY <1>1 DEF MaxCount
<1>3. QED
  BY <1>2, TtyAssumption

BodyTypes ==
    {"OPEN", "READ", "WRITE", "DEV_OPEN", "DEV_READ", "DEV_WRITE", "SUSPEND_PROC",
     "RESUME_PROC", "SYSCALL_RET"}

\* The messages of the calls, and their answers, with the fields they have.
LEMMA BodyIs ==
    ASSUME NEW type \in BodyTypes, NEW t \in Ttys, NEW u \in Users, NEW n \in 0 .. MaxCount
    PROVE  /\ Body(type, t, u, n) \in TtyBodies
           /\ Body(type, t, u, n).type = type /\ Body(type, t, u, n).dev = t
           /\ Body(type, t, u, n).proc = u /\ Body(type, t, u, n).cnt = n
BY DEF Body, TtyBodies, BodyTypes

\* What the messages of the calls are made of.
LEMMA BodyHas ==
    ASSUME NEW b \in TtyBodies
    PROVE  /\ b.type \in BodyTypes /\ b.dev \in Ttys /\ b.proc \in Users /\ b.cnt \in 0 .. MaxCount
           /\ b = Body(b.type, b.dev, b.proc, b.cnt)
BY DEF Body, TtyBodies, BodyTypes

\* An answer is the request with another type.
LEMMA Retyped ==
    ASSUME NEW b \in TtyBodies, NEW type \in BodyTypes
    PROVE  /\ [b EXCEPT !.type = type] \in TtyBodies
           /\ [b EXCEPT !.type = type].type = type
<1>1. [b EXCEPT !.type = type] = Body(type, b.dev, b.proc, b.cnt)
  BY BodyHas DEF Body
<1>2. QED
  BY <1>1, BodyHas, BodyIs

(***************************************************************************)
(* The initial state, and what the invariant says                          *)
(***************************************************************************)

\* The terminals start with empty rings and nobody in a call.
LEMMA TtyStarts == TtyInit => TtyInv
<1> SUFFICES ASSUME TtyInit PROVE TtyInv
  OBVIOUS
<1> USE DEF TtyInit
<1>1. Init
  <2>1. (CHOOSE b \in Bodies : TRUE) \in Bodies
    BY BodiesAssumption
  <2>2. QED
    BY <2>1 DEF Init
<1>2. IInv
  BY <1>1, InitIInv
<1>3. Fields
  <2>1. \A S : << >> \in Seq(S)
    BY EmptySeq
  <2>2. NoRequest \in Requests /\ NoRequest.reqed_cnt + NoRequest.sended_cnt <= MaxCount /\ ~(NoRequest.reqed_cnt > 0)
    BY Lengths DEF NoRequest, Requests
  <2>3. 0 <= KB_IN_BYTES /\ 0 <= TTY_BUFFER_SIZE
    BY TtyAssumption
  <2>4. req \in [Ttys -> Requests] /\ \A t \in Ttys : req[t] = NoRequest
    BY <2>2
  <2>5. ring \in [Ttys -> Seq(Keys)] /\ \A t \in Ttys : Len(ring[t]) = 0
    BY <2>1
  <2>6. kb_in \in Seq(Keys) /\ Len(kb_in) = 0
    BY <2>1
  <2>7. QED
    BY <2>2, <2>3, <2>4, <2>5, <2>6, Constants DEF Fields
<1>4. \A p \in Procs : p_flags[p] = {} /\ has_int_msg[p] = FALSE
  OBVIOUS
<1>5. Traffic /\ Turn /\ Content
  BY <1>4, Constants DEF Traffic, Turn, Content, TtyTook, TtyAnswers, TtyResumes, FsAwaits, FsAsks, FsTook
<1>6. Calls
  <2>1. ~FsReplies /\ ~FsTook /\ \A u \in Users : ~FsHas(u) /\ ~Resuming(u) /\ ~Asked(u)
    BY <1>4, Constants DEF FsReplies, FsTook, FsHas, Resuming, TtyResumes, Asked
  <2>2. \A u \in Users, t \in Ttys : ~HeldAt(u, t)
    BY DEF HeldAt, NoRequest
  <2>3. QED
    BY <1>4, <2>1, <2>2, Constants DEF Calls, CallOf, InHand
<1>7. Noticed
  BY DEF Noticed
<1>8. QED
  BY <1>2, <1>3, <1>5, <1>6, <1>7 DEF TtyInv, Core

\* The types are those the run checks.
LEMMA FieldsImply == Fields => TtyTypeOK
BY Lengths DEF Fields, TtyTypeOK, Requests

\* A program blocked in its RECEIVE is in a call; FS's answer is not waiting for it.
LEMMA AnswerTaken ==
    ASSUME Core, NEW u \in Users, p_flags[u] = {"RECEIVING"}
    PROVE  Asked(u) /\ ~(FsReplies /\ fs_src = u)
<1>1. prog[u] = "ret" /\ p_recvfrom[u] = FS /\ u \in Procs
  BY Constants DEF Core, Traffic
<1>2. ASSUME FsReplies, fs_src = u
      PROVE  FALSE
  <2>1. Sending(FS) /\ p_sendto[FS] = u
    BY <1>2, Constants DEF FsReplies, Core, Traffic, Sending
  <2>2. HasSender(u, FS)
    BY <2>1, Constants DEF HasSender
  <2>3. Receiving(u)
    BY DEF Receiving
  <2>4. QED
    BY <1>1, <2>2, <2>3 DEF Core, IInv, NoMissedWakeup
<1>3. QED
  BY <1>1, <1>2 DEF Asked

\* The invariant says what the run checks: without the last conjunct for any use of the
\* terminals, with it when no two programs use the same one.
LEMMA TtyInvImplies ==
    ASSUME TtyInv
    PROVE  /\ TtyTypeOK /\ KeysNoticed /\ AnswersCaller /\ NoCircle
           /\ OwnTerminals => RequestKept
<1>1. CASE halted
  BY <1>1 DEF TtyInv, KeysNoticed, AnswersCaller, NoCircle, RequestKept
<1>2. CASE ~halted
  <2>1. Core /\ IInv /\ Fields /\ Traffic /\ Calls /\ Noticed
    BY <1>2 DEF TtyInv, Core
  <2>2. \A p \in Procs : Receiving(p) <=> p_flags[p] = {"RECEIVING"}
    BY <2>1, Blocked
  <2>3. KeysNoticed
    <3>1. Receiving(TTY) => tty_pc = "dispatch"
      BY <2>1, <2>2, Constants DEF Traffic
    <3>2. QED
      BY <2>1, <3>1 DEF Noticed, KeysNoticed
  <2>4. AnswersCaller
    BY <2>1 DEF Calls, InHand, Asked, AnswersCaller
  <2>5. ASSUME OwnTerminals, NEW u \in Users, Suspended(u)
        PROVE  \/ \E t \in Ttys : req[t].proc2tty = u /\ req[t].reqed_cnt > 0
               \/ tty_pc = "resumed" /\ req[tty_p].proc2tty = u
               \/ /\ fs_pc = "dispatch" /\ ~Receiving(FS)
                  /\ buf[FS].body.type = "RESUME_PROC" /\ buf[FS].body.proc = u
    <3>1. p_flags[u] = {"RECEIVING"} /\ Asked(u) /\ ~(FsReplies /\ fs_src = u)
      BY <2>1, <2>2, <2>5, AnswerTaken, Constants DEF Suspended
    <3>2. FsHas(u) \/ Resuming(u) \/ \E t \in Ttys : HeldAt(u, t)
      BY <2>1, <2>5, <3>1 DEF Calls, CallOf
    <3>3. CASE FsHas(u)
      <4>1. FsTook /\ Asker = u
        BY <2>5, <3>1, <3>3 DEF FsHas, Suspended
      <4>2. buf[FS].body.type = "RESUME_PROC"
        BY <2>5, <4>1 DEF FsTook, Asker, Suspended
      <4>3. QED
        BY <4>1, <4>2 DEF FsTook, Asker, Receiving
    <3>4. CASE Resuming(u)
      BY <3>4 DEF Resuming, TtyResumes
    <3>5. CASE \E t \in Ttys : HeldAt(u, t)
      BY <3>5 DEF HeldAt
    <3>6. QED
      BY <3>2, <3>3, <3>4, <3>5
  <2>6. OwnTerminals => RequestKept
    BY <2>5 DEF RequestKept
  <2>7. QED
    BY <1>2, <2>1, <2>3, <2>4, <2>6, FieldsImply DEF NoCircle
<1>3. QED
  BY <1>1, <1>2

(***************************************************************************)
(* Steps that send and receive nothing                                     *)
(***************************************************************************)

\* A step that leaves a program and its place alone leaves its call alone.
LEMMA CallStays ==
    ASSUME NEW u \in Users, CallOf(u), session' = session, prog'[u] = prog[u], p_flags'[u] = p_flags[u],
           FsHas(u)' <=> FsHas(u), Resuming(u)' <=> Resuming(u),
           \A t \in Ttys : (HeldAt(u, t)' <=> HeldAt(u, t))
    PROVE  CallOf(u)' /\ (Asked(u)' <=> Asked(u))
BY DEF CallOf, Asked, OwnTerminals

\* A step that leaves the process table alone keeps its invariant.
LEMMA TableStays == IInv /\ UNCHANGED vars => IInv'
BY StepIInv

\* TTY goes through its terminals.
LEMMA TtyMoves ==
    ASSUME Core, ~halted, p_flags[TTY] = {}, ~TtyTook, UNCHANGED <<session, vars, prog, fsVars>>,
           Fields', Noticed', tty_pc' \notin {"dispatch", "resumed"},
           \A u \in Users, t \in Ttys : (HeldAt(u, t)' <=> HeldAt(u, t))
    PROVE  TtyInv'
<1>1. IInv' /\ ~halted'
  BY TableStays DEF Core, vars
<1>2. /\ p_flags' = p_flags /\ p_sendto' = p_sendto /\ p_recvfrom' = p_recvfrom
      /\ has_int_msg' = has_int_msg /\ buf' = buf /\ fs_pc' = fs_pc /\ fs_src' = fs_src
      /\ prog' = prog /\ session' = session
  BY DEF vars, fsVars
<1>3. Traffic'
  BY <1>2, Constants DEF Core, Traffic
<1>4. ~TtyAnswers /\ ~TtyAnswers' /\ ~TtyResumes /\ ~TtyResumes' /\ ~TtyTook'
  BY <1>2 DEF TtyAnswers, TtyResumes, TtyTook
<1>5. /\ FsTook' <=> FsTook
      /\ FsReplies' <=> FsReplies
      /\ FsAsks' <=> FsAsks
      /\ FsAwaits' <=> FsAwaits
  BY <1>2 DEF FsTook, FsReplies, FsAsks, FsAwaits
<1>6. Turn'
  BY <1>4, <1>5 DEF Core, Turn
<1>7. Content'
  BY <1>2, <1>4, <1>5 DEF Core, Content, Asking, Forwarded
<1>8. Suspending' <=> Suspending
  BY <1>2, <1>4 DEF Suspending
<1>9. Asker' = Asker
  BY <1>2 DEF Asker
<1>10. \A u \in Users : (FsHas(u)' <=> FsHas(u)) /\ (Resuming(u)' <=> Resuming(u))
  BY <1>2, <1>4, <1>5, <1>8, <1>9 DEF FsHas, Resuming
<1>11. \A u \in Users : CallOf(u)' /\ (Asked(u)' <=> Asked(u))
  BY <1>2, <1>10, CallStays DEF Core, Calls
<1>12. Calls'
  BY <1>2, <1>5, <1>11 DEF Core, Calls, InHand
<1>13. QED
  BY <1>1, <1>3, <1>6, <1>7, <1>12 DEF TtyInv, Core

\* tty_read looks whether the terminal at hand is the one shown.
LEMMA EnterKeeps ==
    ASSUME Core, Enter, session' = session
    PROVE  TtyInv'
<1>1. ~halted /\ p_flags[TTY] = {} /\ tty_pc = "enter"
  BY DEF Enter, TtyAt, Running
<1>2. UNCHANGED <<session, vars, prog, fsVars>> /\ UNCHANGED <<kb_in, key_pressed, typed, current_tty, ring, req, tty_p>>
  BY DEF Enter, ipcVars
<1>3. tty_pc' = IF tty_p = current_tty THEN "read" ELSE "write"
  BY DEF Enter
<1>4. Fields'
  BY <1>1, <1>2, <1>3 DEF Core, Fields, Keys, fsVars
<1>5. Noticed'
  BY <1>1, <1>2, <1>3 DEF Core, Noticed
<1>6. \A u \in Users, t \in Ttys : (HeldAt(u, t)' <=> HeldAt(u, t))
  BY <1>1, <1>2, <1>3 DEF HeldAt
<1>7. ~TtyTook
  BY <1>1 DEF TtyTook
<1>8. tty_pc' \notin {"dispatch", "resumed"}
  BY <1>3
<1>9. QED
  BY <1>1, <1>2, <1>4, <1>5, <1>6, <1>7, <1>8, TtyMoves

\* keyboard_read takes a key for the terminal at hand, or the terminal shown changes.
LEMMA ReadKeyKeeps ==
    ASSUME Core, ReadKey, session' = session
    PROVE  TtyInv'
<1>1. ~halted /\ p_flags[TTY] = {} /\ tty_pc = "read" /\ kb_in # << >> /\ kb_in' = Tail(kb_in)
  BY DEF ReadKey, TtyAt, Running
<1>2. UNCHANGED <<session, vars, prog, fsVars>> /\ UNCHANGED <<key_pressed, typed, req, tty_pc, tty_p>>
  BY DEF ReadKey, ipcVars
<1>3. Fields /\ kb_in \in Seq(Keys) /\ Len(kb_in) <= KB_IN_BYTES
  BY DEF Core, Fields
<1>4. /\ Tail(kb_in) \in Seq(Keys) /\ Len(Tail(kb_in)) = Len(kb_in) - 1 /\ Head(kb_in) \in Keys
      /\ Len(kb_in) \in Nat
  BY <1>1, <1>3, HeadTailProperties, LenProperties
<1>5. KB_IN_BYTES \in Nat /\ TTY_BUFFER_SIZE \in Nat
  BY TtyAssumption
<1>6. Keys' = Keys
  BY <1>2 DEF Keys
<1>7. kb_in' \in Seq(Keys') /\ Len(kb_in') <= KB_IN_BYTES
  BY <1>1, <1>3, <1>4, <1>5, <1>6
<1>8. /\ current_tty' \in Ttys
      /\ ring' \in [Ttys -> Seq(Keys')] /\ \A t \in Ttys : Len(ring'[t]) <= TTY_BUFFER_SIZE
  <2>1. CASE Head(kb_in) \in Ttys /\ current_tty' = Head(kb_in) /\ ring' = ring
    BY <1>3, <1>6, <2>1 DEF Fields
  <2>2. CASE /\ ring' = IF Len(ring[tty_p]) < TTY_BUFFER_SIZE
                        THEN [ring EXCEPT ![tty_p] = Append(@, Head(kb_in))] ELSE ring
             /\ current_tty' = current_tty
    <3>1. /\ ring \in [Ttys -> Seq(Keys)] /\ tty_p \in Ttys /\ current_tty \in Ttys
          /\ \A t \in Ttys : Len(ring[t]) <= TTY_BUFFER_SIZE
      BY <1>3 DEF Fields
    <3>2. /\ Append(ring[tty_p], Head(kb_in)) \in Seq(Keys)
          /\ Len(Append(ring[tty_p], Head(kb_in))) = Len(ring[tty_p]) + 1 /\ Len(ring[tty_p]) \in Nat
      BY <1>4, <3>1, AppendProperties, LenProperties
    <3>3. CASE Len(ring[tty_p]) < TTY_BUFFER_SIZE
      <4>1. ring' = [ring EXCEPT ![tty_p] = Append(ring[tty_p], Head(kb_in))]
        BY <2>2, <3>3
      <4>2. QED
        BY <1>5, <1>6, <2>2, <3>1, <3>2, <3>3, <4>1
    <3>4. CASE ~(Len(ring[tty_p]) < TTY_BUFFER_SIZE)
      BY <1>6, <2>2, <3>1, <3>4
    <3>5. QED
      BY <3>3, <3>4
  <2>3. QED
    BY <2>1, <2>2 DEF ReadKey
<1>9. Fields'
  BY <1>2, <1>3, <1>7, <1>8 DEF Fields, fsVars
<1>10. Noticed' /\ ~TtyTook /\ tty_pc' \notin {"dispatch", "resumed"}
  BY <1>1, <1>2 DEF Noticed, TtyTook
<1>11. \A u \in Users, t \in Ttys : (HeldAt(u, t)' <=> HeldAt(u, t))
  BY <1>2 DEF HeldAt
<1>12. QED
  BY <1>1, <1>2, <1>9, <1>10, <1>11, TtyMoves

\* All keys have been read.
LEMMA ReadEndKeeps ==
    ASSUME Core, ReadEnd, session' = session
    PROVE  TtyInv'
<1>1. ~halted /\ p_flags[TTY] = {} /\ tty_pc = "read" /\ kb_in = << >> /\ tty_pc' = "write"
  BY DEF ReadEnd, TtyAt, Running
<1>2. UNCHANGED <<session, vars, prog, fsVars>> /\ UNCHANGED <<kb_in, key_pressed, typed, current_tty, ring, req, tty_p>>
  BY DEF ReadEnd, ipcVars
<1>3. Fields'
  BY <1>1, <1>2 DEF Core, Fields, Keys, fsVars
<1>4. Noticed' /\ ~TtyTook /\ tty_pc' \notin {"dispatch", "resumed"}
  BY <1>1, <1>2 DEF Noticed, TtyTook
<1>5. \A u \in Users, t \in Ttys : (HeldAt(u, t)' <=> HeldAt(u, t))
  BY <1>1, <1>2 DEF HeldAt
<1>6. QED
  BY <1>1, <1>2, <1>3, <1>4, <1>5, TtyMoves

\* A character that completes no line leaves a request with something to wait for.
LEMMA TakenOf ==
    ASSUME NEW r \in Requests, NEW ch, r.reqed_cnt > 0, r.reqed_cnt + r.sended_cnt <= MaxCount
    PROVE  /\ Taken(r, ch) \in Requests /\ Taken(r, ch).proc2tty = r.proc2tty
           /\ Taken(r, ch).reqed_cnt + Taken(r, ch).sended_cnt <= MaxCount
<1>1. /\ r.reqed_cnt \in 0 .. MaxCount /\ r.sended_cnt \in 0 .. MaxCount /\ MaxCount \in Nat
      /\ r.proc2tty \in Users \cup {NO_TASK}
  BY Lengths DEF Requests
<1>2. r = [proc2tty |-> r.proc2tty, reqed_cnt |-> r.reqed_cnt, sended_cnt |-> r.sended_cnt]
  BY DEF Requests
<1>3. CASE ch = "char"
  <2>1. Taken(r, ch) = [proc2tty |-> r.proc2tty, reqed_cnt |-> r.reqed_cnt - 1, sended_cnt |-> r.sended_cnt + 1]
    BY <1>2, <1>3 DEF Taken
  <2>2. r.reqed_cnt - 1 \in 0 .. MaxCount /\ r.sended_cnt + 1 \in 0 .. MaxCount
    BY <1>1
  <2>3. QED
    BY <1>1, <2>1, <2>2 DEF Requests
<1>4. CASE ch = "backspace" /\ r.sended_cnt > 0
  <2>1. Taken(r, ch) = [proc2tty |-> r.proc2tty, reqed_cnt |-> r.reqed_cnt + 1, sended_cnt |-> r.sended_cnt - 1]
    BY <1>2, <1>4 DEF Taken
  <2>2. r.reqed_cnt + 1 \in 0 .. MaxCount /\ r.sended_cnt - 1 \in 0 .. MaxCount
    BY <1>1, <1>4
  <2>3. QED
    BY <1>1, <2>1, <2>2 DEF Requests
<1>5. CASE ch # "char" /\ ~(ch = "backspace" /\ r.sended_cnt > 0)
  <2>1. Taken(r, ch) = r
    BY <1>5 DEF Taken
  <2>2. QED
    BY <2>1
<1>6. QED
  BY <1>3, <1>4, <1>5

\* The ring of the terminal at hand loses its first character.
LEMMA CharTaken ==
    ASSUME Fields, ring[tty_p] # << >>, ring' = [ring EXCEPT ![tty_p] = Tail(@)], session' = session
    PROVE  ring' \in [Ttys -> Seq(Keys')] /\ \A t \in Ttys : Len(ring'[t]) <= TTY_BUFFER_SIZE
<1>1. /\ ring \in [Ttys -> Seq(Keys)] /\ tty_p \in Ttys
      /\ \A t \in Ttys : Len(ring[t]) <= TTY_BUFFER_SIZE /\ TTY_BUFFER_SIZE \in Nat /\ Keys' = Keys
  BY TtyAssumption DEF Fields, Keys
<1>2. ring[tty_p] \in Seq(Keys)
  BY <1>1
<1>3. Tail(ring[tty_p]) \in Seq(Keys) /\ Len(Tail(ring[tty_p])) = Len(ring[tty_p]) - 1 /\ Len(ring[tty_p]) \in Nat
  BY <1>2, HeadTailProperties, LenProperties
<1>4. Len(Tail(ring[tty_p])) <= TTY_BUFFER_SIZE
  BY <1>1, <1>3
<1>5. ring' = [ring EXCEPT ![tty_p] = Tail(ring[tty_p])]
  OBVIOUS
<1>6. QED
  BY <1>1, <1>3, <1>4, <1>5

\* tty_write takes a character and goes on.
LEMMA WriteCharKeeps ==
    ASSUME Core, WriteChar, session' = session
    PROVE  TtyInv'
<1> DEFINE ch == Head(ring[tty_p])
           r == req[tty_p]
<1>1. ~halted /\ p_flags[TTY] = {} /\ tty_pc = "write" /\ ring[tty_p] # << >> /\ Fields
  BY DEF WriteChar, TtyAt, Running, Core
<1>2. UNCHANGED <<session, vars, prog, fsVars>> /\ UNCHANGED <<kb_in, key_pressed, typed, current_tty, tty_pc, tty_p>>
  BY DEF WriteChar, ipcVars
<1>3. /\ ring' = [ring EXCEPT ![tty_p] = Tail(@)]
      /\ r.reqed_cnt = 0 \/ ~Complete(r, ch)
      /\ req' = IF r.reqed_cnt = 0 THEN req ELSE [req EXCEPT ![tty_p] = Taken(r, ch)]
  BY DEF WriteChar
<1>4. /\ req \in [Ttys -> Requests] /\ tty_p \in Ttys /\ r \in Requests
      /\ r.reqed_cnt + r.sended_cnt <= MaxCount /\ r.reqed_cnt \in Nat
      /\ \A t \in Ttys : /\ req[t].reqed_cnt + req[t].sended_cnt <= MaxCount
                         /\ req[t].reqed_cnt > 0 => req[t].proc2tty \in Users
  BY <1>1, Lengths DEF Fields, Requests
<1>5. r.reqed_cnt # 0 =>
         /\ req' = [req EXCEPT ![tty_p] = Taken(r, ch)] /\ r.proc2tty \in Users
         /\ Taken(r, ch) \in Requests /\ Taken(r, ch).proc2tty = r.proc2tty
         /\ Taken(r, ch).reqed_cnt + Taken(r, ch).sended_cnt <= MaxCount
         /\ Taken(r, ch).reqed_cnt > 0 /\ r.reqed_cnt > 0
  <2>1. SUFFICES ASSUME r.reqed_cnt # 0
                 PROVE  /\ req' = [req EXCEPT ![tty_p] = Taken(r, ch)] /\ r.proc2tty \in Users
                        /\ Taken(r, ch) \in Requests /\ Taken(r, ch).proc2tty = r.proc2tty
                        /\ Taken(r, ch).reqed_cnt + Taken(r, ch).sended_cnt <= MaxCount
                        /\ Taken(r, ch).reqed_cnt > 0 /\ r.reqed_cnt > 0
    OBVIOUS
  <2>2. r.reqed_cnt > 0
    BY <1>4, <2>1
  <2>3. /\ Taken(r, ch) \in Requests /\ Taken(r, ch).proc2tty = r.proc2tty
        /\ Taken(r, ch).reqed_cnt + Taken(r, ch).sended_cnt <= MaxCount
    BY <1>4, <2>2, TakenOf
  <2>4. Taken(r, ch).reqed_cnt # 0
    BY <1>3, <2>1 DEF Complete
  <2>5. Taken(r, ch).reqed_cnt \in 0 .. MaxCount
    BY <2>3 DEF Requests
  <2>6. Taken(r, ch).reqed_cnt > 0
    BY <2>4, <2>5, Lengths
  <2>7. QED
    BY <1>3, <1>4, <2>1, <2>2, <2>3, <2>6
<1> HIDE DEF ch, r
<1>6. /\ req' \in [Ttys -> Requests]
      /\ \A t \in Ttys : /\ req'[t].reqed_cnt + req'[t].sended_cnt <= MaxCount
                         /\ req'[t].reqed_cnt > 0 => req'[t].proc2tty \in Users
                         /\ req'[t].proc2tty = req[t].proc2tty
                         /\ req'[t].reqed_cnt > 0 <=> req[t].reqed_cnt > 0
  <2>1. CASE r.reqed_cnt = 0
    BY <1>3, <1>4, <2>1
  <2>2. CASE r.reqed_cnt # 0
    BY <1>4, <1>5, <2>2 DEF r
  <2>3. QED
    BY <2>1, <2>2
<1>7. Fields'
  BY <1>1, <1>2, <1>3, <1>6, CharTaken DEF Fields, Keys, fsVars
<1>8. Noticed' /\ ~TtyTook /\ tty_pc' \notin {"dispatch", "resumed"}
  BY <1>1, <1>2 DEF Core, Noticed, TtyTook
<1>9. \A u \in Users, t \in Ttys : (HeldAt(u, t)' <=> HeldAt(u, t))
  BY <1>1, <1>2, <1>6 DEF HeldAt
<1>10. QED
  BY <1>1, <1>2, <1>7, <1>8, <1>9, TtyMoves

\* TTY has told FS, and the request of the program it resumed is gone.
LEMMA ResumedKeeps ==
    ASSUME Core, Resumed, session' = session
    PROVE  TtyInv'
<1>1. ~halted /\ p_flags[TTY] = {} /\ tty_pc = "resumed" /\ tty_pc' = "write" /\ Fields
  BY DEF Resumed, TtyAt, Running, Core
<1>2. UNCHANGED <<session, vars, prog, fsVars>> /\ UNCHANGED <<kb_in, key_pressed, typed, current_tty, ring, tty_p>>
  BY DEF Resumed, ipcVars
<1>3. /\ req \in [Ttys -> Requests] /\ tty_p \in Ttys /\ MaxCount \in Nat
      /\ req[tty_p] \in Requests /\ req[tty_p].reqed_cnt + req[tty_p].sended_cnt <= MaxCount
  BY <1>1, Lengths DEF Fields
<1>4. req' = [req EXCEPT ![tty_p] = [proc2tty |-> req[tty_p].proc2tty, reqed_cnt |-> 0,
                                     sended_cnt |-> req[tty_p].sended_cnt]]
  <2>1. req' = [req EXCEPT ![tty_p].reqed_cnt = 0]
    BY DEF Resumed
  <2>2. \A x \in Requests : [x EXCEPT !.reqed_cnt = 0] =
                              [proc2tty |-> x.proc2tty, reqed_cnt |-> 0, sended_cnt |-> x.sended_cnt]
    BY DEF Requests
  <2>3. QED
    BY <1>3, <2>1, <2>2
<1>5. [proc2tty |-> req[tty_p].proc2tty, reqed_cnt |-> 0, sended_cnt |-> req[tty_p].sended_cnt] \in Requests
      /\ 0 + req[tty_p].sended_cnt <= MaxCount
  BY <1>3 DEF Requests
<1>6. /\ req' \in [Ttys -> Requests]
      /\ \A t \in Ttys \ {tty_p} : req'[t] = req[t]
      /\ req'[tty_p].reqed_cnt = 0 /\ req'[tty_p].reqed_cnt + req'[tty_p].sended_cnt <= MaxCount
  BY <1>3, <1>4, <1>5
<1>7. Fields'
  <2>1. ASSUME NEW t \in Ttys
        PROVE  /\ req'[t].reqed_cnt + req'[t].sended_cnt <= MaxCount
               /\ req'[t].reqed_cnt > 0 => req'[t].proc2tty \in Users
    <3>1. CASE t = tty_p
      <4>1. ~(req'[t].reqed_cnt > 0)
        BY <1>6, <3>1
      <4>2. QED
        BY <1>6, <3>1, <4>1
    <3>2. CASE t # tty_p
      BY <1>1, <1>6, <3>2 DEF Fields
    <3>3. QED
      BY <3>1, <3>2
  <2>2. QED
    BY <1>1, <1>2, <1>6, <2>1 DEF Fields, Keys, fsVars
<1>8. Noticed' /\ ~TtyTook /\ tty_pc' \notin {"dispatch", "resumed"}
  BY <1>1, <1>2 DEF Core, Noticed, TtyTook
<1>9. \A u \in Users, t \in Ttys : (HeldAt(u, t)' <=> HeldAt(u, t))
  BY <1>1, <1>2, <1>6 DEF HeldAt
<1>10. QED
  BY <1>1, <1>2, <1>7, <1>8, <1>9, TtyMoves

\* Behind terminal t the loop comes to the terminal behind it, and to all that follow.
LEMMA ReachesNext ==
    ASSUME NEW t \in Ttys, NEW c \in Ttys, c # t, Reachable(t, c)
    PROVE  NextTty[t] \in Ttys /\ Reachable(NextTty[t], c)
<1>1. NextTty[t] \in Ttys \cup {NO_TASK}
  BY TtyAssumption
<1>2. NextTty[t] # NO_TASK
  <2>1. ASSUME NextTty[t] = NO_TASK
        PROVE  FALSE
    <3>1. {t} \in SUBSET Ttys /\ t \in {t} /\ \A x \in {t} : NextTty[x] \in {t} \cup {NO_TASK}
      BY <2>1
    <3>2. QED
      BY <3>1 DEF Reachable
  <2>2. QED
    BY <2>1
<1>3. ASSUME NEW T \in SUBSET Ttys, NextTty[t] \in T, \A x \in T : NextTty[x] \in T \cup {NO_TASK}
      PROVE  c \in T
  <2>1. /\ T \cup {t} \in SUBSET Ttys /\ t \in T \cup {t}
        /\ \A x \in T \cup {t} : NextTty[x] \in (T \cup {t}) \cup {NO_TASK}
    BY <1>3
  <2>2. c \in T \cup {t}
    BY <2>1 DEF Reachable
  <2>3. QED
    BY <2>2
<1>4. QED
  BY <1>1, <1>2, <1>3 DEF Reachable

\* On to the next terminal: the one shown is still to come if it was.
LEMMA WriteEndKeeps ==
    ASSUME Core, WriteEnd, session' = session
    PROVE  TtyInv'
<1>1. ~halted /\ p_flags[TTY] = {} /\ tty_pc = "write" /\ Fields
  BY DEF WriteEnd, TtyAt, Running, Core
<1>2. UNCHANGED <<session, vars, prog, fsVars>> /\ UNCHANGED <<kb_in, key_pressed, typed, current_tty, ring, req>>
  BY DEF WriteEnd, ipcVars
<1>3. IF NextTty[tty_p] = NO_TASK THEN tty_pc' = "receive" /\ tty_p' = FIRST_TTY
      ELSE tty_pc' = "enter" /\ tty_p' = NextTty[tty_p]
  BY DEF WriteEnd
<1>4. tty_p \in Ttys /\ current_tty \in Ttys /\ NextTty[tty_p] \in Ttys \cup {NO_TASK}
  BY <1>1, TtyAssumption DEF Fields
<1>5. Fields'
  BY <1>1, <1>2, <1>3, <1>4, Constants DEF Fields, Keys, fsVars
<1>6. Noticed'
  <2>1. SUFFICES ASSUME kb_in' # << >>, ~key_pressed'
                 PROVE  Noticed'
    BY DEF Noticed
  <2>2. current_tty # tty_p /\ Reachable(tty_p, current_tty)
    BY <1>1, <1>2, <2>1 DEF Core, Noticed
  <2>3. NextTty[tty_p] \in Ttys /\ Reachable(NextTty[tty_p], current_tty)
    BY <1>4, <2>2, ReachesNext
  <2>4. tty_pc' = "enter" /\ tty_p' = NextTty[tty_p] /\ current_tty' = current_tty
    BY <1>2, <1>3, <2>3, Constants
  <2>5. QED
    BY <2>3, <2>4 DEF Noticed, Reachable
<1>7. ~TtyTook /\ tty_pc' \notin {"dispatch", "resumed"}
  BY <1>1, <1>3 DEF TtyTook
<1>8. \A u \in Users, t \in Ttys : (HeldAt(u, t)' <=> HeldAt(u, t))
  BY <1>1, <1>2, <1>7 DEF HeldAt
<1>9. QED
  BY <1>1, <1>2, <1>5, <1>6, <1>7, <1>8, TtyMoves

\* An interrupt starts the round of all terminals, the one shown among them.
LEMMA InterruptedKeeps ==
    ASSUME Core, Interrupted, session' = session
    PROVE  TtyInv'
<1>1. /\ ~halted /\ p_flags[TTY] = {} /\ tty_pc = "dispatch" /\ buf[TTY].body = HARD_INT
      /\ tty_pc' = "enter" /\ key_pressed' = FALSE /\ Fields
  BY DEF Interrupted, TtyAt, Running, Core
<1>2. UNCHANGED <<session, vars, prog, fsVars>> /\ UNCHANGED <<kb_in, typed, current_tty, ring, req, tty_p>>
  BY DEF Interrupted, ipcVars
<1>3. Fields'
  BY <1>1, <1>2 DEF Fields, Keys, fsVars
<1>4. Reachable(FIRST_TTY, current_tty) /\ tty_p = FIRST_TTY
  BY <1>1, TtyAssumption DEF Fields
<1>5. Noticed'
  BY <1>1, <1>2, <1>4 DEF Noticed, Reachable
<1>6. ~TtyTook /\ tty_pc' \notin {"dispatch", "resumed"}
  BY <1>1 DEF TtyTook
<1>7. \A u \in Users, t \in Ttys : (HeldAt(u, t)' <=> HeldAt(u, t))
  BY <1>1, <1>2 DEF HeldAt
<1>8. QED
  BY <1>1, <1>2, <1>3, <1>5, <1>6, <1>7, TtyMoves

(***************************************************************************)
(* Steps that leave messages, TTY and its terminals alone                  *)
(***************************************************************************)

\* Who waits for whom at the terminals, when TTY does not step.
TtyStill == UNCHANGED <<session, current_tty, ring, req, tty_pc, tty_p>>

\* The terminals hold what they held.
LEMMA HeldStill ==
    ASSUME TtyStill
    PROVE  /\ \A u \in Users, t \in Ttys : (HeldAt(u, t)' <=> HeldAt(u, t))
           /\ OwnTerminals' <=> OwnTerminals
BY DEF TtyStill, HeldAt, OwnTerminals

\* The keys still to be read are noticed.
LEMMA NoticedStill ==
    ASSUME Noticed, TtyStill, kb_in' = kb_in, key_pressed' = key_pressed
    PROVE  Noticed'
BY DEF Noticed, TtyStill, Reachable

\* A key comes into the ring of the keyboard, if there is room.
LEMMA KeyPressKeeps ==
    ASSUME Core, NEW k \in session.keys, KeyPress(k), session' = session
    PROVE  TtyInv'
<1>1. ~halted /\ Fields /\ UNCHANGED <<session, vars, prog, fsVars, current_tty, ring, req, tty_pc, tty_p>>
  BY DEF KeyPress, ipcVars, Core
<1>2. IInv' /\ ~halted'
  BY <1>1, TableStays DEF Core, vars
<1>3. kb_in' \in Seq(Keys') /\ Len(kb_in') <= KB_IN_BYTES
  <2>1. /\ kb_in \in Seq(Keys) /\ k \in Keys /\ Keys' = Keys /\ Len(kb_in) <= KB_IN_BYTES
        /\ KB_IN_BYTES \in Nat
    BY <1>1, TtyAssumption DEF Fields, Keys
  <2>2. Append(kb_in, k) \in Seq(Keys) /\ Len(Append(kb_in, k)) = Len(kb_in) + 1 /\ Len(kb_in) \in Nat
    BY <2>1, AppendProperties, LenProperties
  <2>3. kb_in' = IF Len(kb_in) < KB_IN_BYTES THEN Append(kb_in, k) ELSE kb_in
    BY DEF KeyPress
  <2>4. QED
    BY <2>1, <2>2, <2>3
<1>4. key_pressed' = TRUE
  BY DEF KeyPress
<1>5. Fields'
  BY <1>1, <1>3, <1>4 DEF Fields, Keys, fsVars
<1>6. Noticed'
  BY <1>4 DEF Noticed
<1>7. /\ p_flags' = p_flags /\ p_sendto' = p_sendto /\ p_recvfrom' = p_recvfrom
      /\ has_int_msg' = has_int_msg /\ buf' = buf /\ fs_pc' = fs_pc /\ fs_src' = fs_src
      /\ prog' = prog /\ session' = session /\ tty_pc' = tty_pc /\ tty_p' = tty_p /\ req' = req
  BY <1>1 DEF vars, fsVars
<1>8. Traffic'
  BY <1>7 DEF Core, Traffic
<1>9. Turn'
  BY <1>7 DEF Core, Turn, FsAwaits, TtyTook, TtyAnswers
<1>10. Content'
  BY <1>7 DEF Core, Content, Asking, Forwarded, FsTook, FsAsks, TtyTook, TtyAnswers, TtyResumes
<1>11. \A u \in Users : (FsHas(u)' <=> FsHas(u)) /\ (Resuming(u)' <=> Resuming(u))
  BY <1>7 DEF FsHas, Resuming, FsTook, Asker, Suspending, TtyAnswers, FsReplies, TtyResumes
<1>12. TtyStill
  BY <1>1 DEF TtyStill
<1>13. \A u \in Users : CallOf(u)' /\ (Asked(u)' <=> Asked(u))
  BY <1>7, <1>11, <1>12, HeldStill, CallStays DEF Core, Calls
<1>14. Calls'
  BY <1>7, <1>13 DEF Core, Calls, InHand, FsReplies
<1>15. QED
  BY <1>2, <1>5, <1>6, <1>8, <1>9, <1>10, <1>14 DEF TtyInv, Core

\* FS moves on by itself: to the next message when a program stays suspended, or to the
\* answer of one that TTY resumes.
LEMMA FsMoves ==
    ASSUME Core, ~halted, p_flags[FS] = {}, ~FsAwaits, ~FsAwaits', fs_pc' \in {"receive", "answer"},
           UNCHANGED <<session, vars, prog, ttyVars>>, fs_src' \in Procs,
           fs_pc' = "answer" => buf[FS].body \in TtyBodies /\ fs_src' \in Users /\ Asked(fs_src'),
           \A u \in Users : (FsHas(u)' <=> FsHas(u))
    PROVE  TtyInv'
<1>1. IInv' /\ ~halted'
  BY TableStays DEF Core, vars
<1>2. /\ p_flags' = p_flags /\ p_sendto' = p_sendto /\ p_recvfrom' = p_recvfrom
      /\ has_int_msg' = has_int_msg /\ buf' = buf /\ prog' = prog /\ session' = session
      /\ kb_in' = kb_in /\ key_pressed' = key_pressed /\ current_tty' = current_tty
      /\ tty_pc' = tty_pc /\ tty_p' = tty_p /\ req' = req /\ ring' = ring
  BY DEF vars, ttyVars
<1>3. TtyStill
  BY <1>2 DEF TtyStill
<1>4. Fields'
  BY <1>2 DEF Core, Fields, Keys
<1>5. Traffic'
  BY <1>2, Constants DEF Core, Traffic
<1>6. /\ TtyTook' <=> TtyTook
      /\ TtyAnswers' <=> TtyAnswers
      /\ TtyResumes' <=> TtyResumes
      /\ ~TtyTook /\ ~TtyAnswers
  BY <1>2 DEF TtyTook, TtyAnswers, TtyResumes, Core, Turn
<1>7. Turn'
  BY <1>6 DEF Turn
<1>8. ~FsTook' /\ ~FsAsks' /\ ~FsReplies'
  BY <1>2 DEF FsTook, FsAsks, FsReplies
<1>9. Content'
  BY <1>2, <1>6, <1>8 DEF Core, Content, Asking
<1>10. \A u \in Users : (Resuming(u)' <=> Resuming(u))
  BY <1>2, <1>6 DEF Resuming
<1>11. \A u \in Users : CallOf(u)'
  BY <1>2, <1>3, <1>10, HeldStill, CallStays DEF Core, Calls
<1>12. InHand'
  BY <1>2, <1>8 DEF InHand, Asked
<1>13. Noticed'
  BY <1>2, <1>3, NoticedStill DEF Core
<1>14. QED
  BY <1>1, <1>4, <1>5, <1>7, <1>9, <1>11, <1>12, <1>13 DEF TtyInv, Core, Calls

\* Its call is held by a terminal, so FS may forget it.
LEMMA FsSuspendedKeeps ==
    ASSUME Core, FsSuspended, session' = session
    PROVE  TtyInv'
<1>1. /\ ~halted /\ p_flags[FS] = {} /\ fs_pc = "answer" /\ buf[FS].body.type = "SUSPEND_PROC"
      /\ fs_pc' = "receive" /\ fs_src' = fs_src
  BY DEF FsSuspended, FsAt, Running
<1>2. UNCHANGED <<session, vars, prog, ttyVars>> /\ p_flags' = p_flags /\ buf' = buf
  BY DEF FsSuspended, ipcVars, vars
<1>3. \A u \in Users : ~FsHas(u) /\ ~FsHas(u)'
  BY <1>1, <1>2 DEF FsHas, FsTook, FsReplies, Suspending
<1>4. ~FsAwaits /\ ~FsAwaits'
  BY <1>1, <1>2 DEF FsAwaits
<1>5. fs_src' \in Procs
  BY <1>1 DEF Core, Fields
<1>6. QED
  BY <1>1, <1>2, <1>3, <1>4, <1>5, FsMoves

\* The program to resume is the one whose call FS now has at hand.
LEMMA FsResumeKeeps ==
    ASSUME Core, FsResume, session' = session
    PROVE  TtyInv'
<1>1. /\ ~halted /\ p_flags[FS] = {} /\ fs_pc = "dispatch" /\ buf[FS].body.type = "RESUME_PROC"
      /\ fs_pc' = "answer" /\ fs_src' = buf[FS].body.proc
  BY DEF FsResume, FsAt, Running
<1>2. UNCHANGED <<session, vars, prog, ttyVars>> /\ p_flags' = p_flags /\ buf' = buf /\ tty_pc' = tty_pc
  BY DEF FsResume, ipcVars, vars, ttyVars
<1>3. buf[FS].body \in TtyBodies
  BY <1>1 DEF Core, Content, FsTook, Asking
<1>4. fs_src' \in Users /\ Asker = fs_src'
  BY <1>1, <1>3, BodyHas DEF Asker
<1>5. ~FsAwaits /\ ~FsAwaits'
  BY <1>1, <1>2 DEF FsAwaits
<1>6. ~TtyAnswers /\ ~TtyAnswers'
  BY <1>2, <1>5 DEF Core, Turn, TtyAnswers
<1>7. ~Suspending'
  BY <1>1, <1>2, <1>6 DEF Suspending
<1>8. \A u \in Users : (FsHas(u) <=> u = fs_src') /\ (FsHas(u)' <=> u = fs_src')
  BY <1>1, <1>2, <1>4, <1>7 DEF FsHas, FsTook, FsReplies
<1>9. Asked(fs_src')
  BY <1>4, <1>8 DEF Core, Calls, CallOf
<1>10. QED
  BY <1>1, <1>2, <1>3, <1>4, <1>5, <1>8, <1>9, FsMoves, Constants

(***************************************************************************)
(* Programs and interrupts                                                 *)
(***************************************************************************)

\* A step of others leaves TTY's message alone ...
LEMMA TtyEntry ==
    ASSUME SameEntry(TTY), TtyStill
    PROVE  /\ TtyTook' <=> TtyTook
           /\ TtyAnswers' <=> TtyAnswers
           /\ TtyResumes' <=> TtyResumes
           /\ buf'[TTY] = buf[TTY]
           /\ \A u \in Users : (Resuming(u)' <=> Resuming(u))
BY DEF SameEntry, TtyStill, TtyTook, TtyAnswers, TtyResumes, Resuming

\* ... and the one of FS.
LEMMA FsEntry ==
    ASSUME SameEntry(FS), SameEntry(TTY), TtyStill, UNCHANGED fsVars
    PROVE  /\ FsTook' <=> FsTook
           /\ FsReplies' <=> FsReplies
           /\ FsAsks' <=> FsAsks
           /\ FsAwaits' <=> FsAwaits
           /\ \A u \in Users : (FsHas(u)' <=> FsHas(u))
<1>1. /\ FsTook' <=> FsTook
      /\ FsReplies' <=> FsReplies
      /\ FsAsks' <=> FsAsks
      /\ FsAwaits' <=> FsAwaits
  BY DEF SameEntry, fsVars, FsTook, FsReplies, FsAsks, FsAwaits
<1>2. (Suspending' <=> Suspending) /\ Asker' = Asker
  BY TtyEntry DEF SameEntry, fsVars, Suspending, Asker
<1>3. QED
  BY <1>1, <1>2 DEF FsHas, fsVars

\* A step of a program or an interrupt that leaves the messages of FS and TTY alone.
LEMMA OthersMove ==
    ASSUME Core, IInv', ~halted', Traffic', SameEntry(FS), SameEntry(TTY),
           UNCHANGED <<session, ttyVars, fsVars>>,
           prog' \in [Users -> {"user", "recv", "ret"}],
           \A u \in Users : /\ p_flags'[u] = {"SENDING"} =>
                                 buf'[u].source = u /\ Asking(u, buf'[u].body)
                            /\ Asked(u)' <=> Asked(u)
                            /\ prog'[u] # "user" => \E t \in Ttys : <<u, t>> \in session.uses
                            /\ prog'[u] = "user" => p_flags'[u] = {}
    PROVE  TtyInv'
<1>1. TtyStill /\ kb_in' = kb_in /\ key_pressed' = key_pressed
      /\ session' = session /\ fs_pc' = fs_pc /\ fs_src' = fs_src
  BY DEF ttyVars, fsVars, TtyStill
<1>2. Fields'
  BY <1>1 DEF Core, Fields, Keys, TtyStill
<1>3. Noticed'
  BY <1>1, NoticedStill DEF Core
<1>4. Turn'
  BY <1>1, FsEntry, TtyEntry DEF Core, Turn
<1>5. \A p \in {FS, TTY} : p_flags'[p] = p_flags[p] /\ buf'[p] = buf[p]
  BY DEF SameEntry
<1>6. Content'
  <2>1. \A u \in Users : p_flags'[u] = {"SENDING"} => buf'[u].source = u /\ Asking(u, buf[u].body)'
    BY <1>1 DEF Asking
  <2>2. /\ FsTook' => \/ buf'[FS].source \in Users /\ Asking(buf[FS].source, buf[FS].body)'
                      \/ buf'[FS].body \in TtyBodies /\ buf'[FS].body.type = "RESUME_PROC"
        /\ FsAsks' => buf'[FS].source = FS /\ Forwarded(buf[FS].body)'
        /\ fs_pc' = "answer" /\ p_flags'[FS] = {} => buf'[FS].body \in TtyBodies
    BY <1>1, <1>5, FsEntry DEF Core, Content, Asking, Forwarded
  <2>3. /\ TtyTook' => buf'[TTY].source = FS /\ Forwarded(buf[TTY].body)'
        /\ TtyAnswers' => buf'[TTY].body \in TtyBodies
                          /\ buf'[TTY].body.type \in {"SUSPEND_PROC", "SYSCALL_RET"}
        /\ TtyResumes' => /\ buf'[TTY].body \in TtyBodies /\ buf'[TTY].body.type = "RESUME_PROC"
                          /\ buf'[TTY].body.proc = req'[tty_p'].proc2tty
    BY <1>1, <1>5, TtyEntry DEF Core, Content, Forwarded, TtyStill
  <2>4. QED
    BY <2>1, <2>2, <2>3 DEF Content
<1>7. \A u \in Users : CallOf(u)'
  <2>1. ASSUME NEW u \in Users
        PROVE  CallOf(u)'
    <3>1. /\ FsHas(u)' <=> FsHas(u)
          /\ Resuming(u)' <=> Resuming(u)
          /\ Asked(u)' <=> Asked(u)
          /\ \A t \in Ttys : (HeldAt(u, t)' <=> HeldAt(u, t))
          /\ OwnTerminals' <=> OwnTerminals
      BY <1>1, FsEntry, TtyEntry, HeldStill
    <3>2. CallOf(u)
      BY DEF Core, Calls
    <3>3. QED
      BY <1>1, <3>1, <3>2 DEF CallOf
  <2>2. QED
    BY <2>1
<1>8. InHand'
  BY <1>1, FsEntry DEF Core, Calls, InHand
<1>9. QED
  BY <1>2, <1>3, <1>4, <1>6, <1>7, <1>8 DEF TtyInv, Core, Calls

\* Two that are blocked in a SEND do not wait for each other.
LEMMA NoPair ==
    ASSUME Core, NEW p \in Procs, NEW q \in Procs, p_flags[p] = {"SENDING"}, p_flags[q] = {"SENDING"},
           p_sendto[p] = q, p_sendto[q] = p
    PROVE  FALSE
<1>1. {p, q} \in SUBSET Procs /\ \A x \in {p, q} : Sending(x) /\ p_sendto[x] \in {p, q}
  BY DEF Sending
<1>2. {p, q} = {}
  BY <1>1 DEF Core, IInv, SendGraphAcyclic
<1>3. QED
  BY <1>2

\* A step of one program leaves the other processes' messages where they were.
LEMMA UserTraffic ==
    ASSUME Core, NEW u \in Users, \A x \in Procs \ {u} : SameEntry(x),
           UNCHANGED <<tty_pc, fs_pc, fs_src>>, \A x \in Users \ {u} : prog'[x] = prog[x],
           p_flags'[u] = {"SENDING"} => prog'[u] = "recv" /\ p_sendto'[u] = FS,
           p_flags'[u] = {"RECEIVING"} => prog'[u] = "ret" /\ p_recvfrom'[u] = FS,
           has_int_msg'[u] = FALSE
    PROVE  Traffic'
<1>1. SameEntry(TTY) /\ SameEntry(FS) /\ \A x \in Users \ {u} : SameEntry(x)
  BY Constants
<1>2. QED
  BY <1>1, Constants DEF Core, Traffic, SameEntry

\* A call of a program: FS has it, or the program waits until FS takes it.
LEMMA CallKeeps ==
    ASSUME Core, NEW u \in Users, NEW t \in Ttys, NEW c \in session.calls, NEW n \in Counts,
           Call(u, c, t, n), session' = session
    PROVE  TtyInv'
<1> DEFINE b == Body(c, t, u, n)
<1>1. /\ ~halted /\ p_flags[u] = {} /\ prog[u] = "user" /\ <<u, t>> \in session.uses
      /\ msg_send(u, FS, b) /\ prog' = [prog EXCEPT ![u] = "recv"]
      /\ UNCHANGED <<session, ttyVars, fsVars>>
  BY DEF Call, Running
<1>2. IInv /\ Fields /\ Traffic /\ Turn /\ Content /\ Calls
  BY DEF Core
<1>3. Asking(u, b) /\ b \in Bodies /\ b.type # "RESUME_PROC"
  <2>1. c \in {"OPEN", "READ", "WRITE"} /\ n \in 0 .. MaxCount
    BY <1>2, TtyAssumption, Lengths DEF Fields
  <2>2. b \in TtyBodies /\ b.type = c /\ b.dev = t /\ b.proc = u /\ b.cnt = n
    BY <2>1, BodyIs DEF BodyTypes
  <2>3. QED
    BY <1>1, <2>1, <2>2, Constants DEF Asking
<1> HIDE DEF b
<1>4. u \in Procs /\ FS \in Procs \ {u} /\ u # TTY
  BY Constants
<1>5. IInv' /\ (Panics \/ Delivered(u, FS, b) \/ Queued(u, FS, b))
  BY <1>1, <1>2, <1>3, <1>4, Sends
<1>6. ~Panics
  <2>1. SUFFICES ASSUME Panics PROVE FALSE
    OBVIOUS
  <2>2. Sending(FS) /\ (p_sendto[FS] \in Procs => p_sendto[FS] = u \/ Sending(p_sendto[FS]))
    BY <1>1, <1>4, <2>1, PanicsInCircle DEF Panics
  <2>3. p_flags[FS] = {"SENDING"}
    BY <1>2, <2>2, Blocked, Constants
  <2>4. CASE fs_pc = "await" /\ p_sendto[FS] = TTY
    <3>1. p_flags[TTY] = {"SENDING"} /\ p_sendto[TTY] = FS
      BY <1>2, <1>4, <2>2, <2>4, Blocked, Constants DEF Traffic
    <3>2. QED
      BY <2>3, <2>4, <3>1, NoPair, Constants
  <2>5. CASE fs_pc = "receive" /\ p_sendto[FS] = fs_src
    <3>1. fs_src \in Users /\ Asked(fs_src)
      BY <1>2, <2>3, <2>5 DEF Calls, InHand, FsReplies
    <3>2. fs_src # u /\ ~Sending(fs_src)
      BY <1>1, <3>1 DEF Asked, Sending
    <3>3. QED
      BY <2>2, <2>5, <3>1, <3>2, Constants
  <2>6. QED
    BY <1>2, <2>3, <2>4, <2>5 DEF Traffic
<1>7. prog' \in [Users -> {"user", "recv", "ret"}] /\ prog'[u] = "recv" /\ \A x \in Users \ {u} : prog'[x] = prog[x]
  BY <1>1, <1>2 DEF Fields
<1>8. has_int_msg[u] = FALSE /\ ~Asked(u)
  BY <1>1, <1>2, <1>4 DEF Traffic, Asked
<1>9. TtyStill /\ kb_in' = kb_in /\ key_pressed' = key_pressed
      /\ session' = session /\ fs_pc' = fs_pc /\ fs_src' = fs_src
  BY <1>1 DEF ttyVars, fsVars, TtyStill
<1>10. CASE Queued(u, FS, b)
  <2>1. /\ p_flags'[u] = {"SENDING"} /\ p_sendto'[u] = FS /\ has_int_msg'[u] = FALSE
        /\ buf'[u] = [source |-> u, body |-> b] /\ ~halted'
        /\ \A x \in Procs \ {u} : SameEntry(x)
    BY <1>8, <1>10 DEF Queued
  <2>2. Traffic'
    BY <1>7, <1>9, <2>1, UserTraffic DEF TtyStill
  <2>3. SameEntry(FS) /\ SameEntry(TTY) /\ \A x \in Users \ {u} : SameEntry(x)
    BY <1>4, <2>1, Constants
  <2>4. ASSUME NEW x \in Users
        PROVE  /\ p_flags'[x] = {"SENDING"} => buf'[x].source = x /\ Asking(x, buf'[x].body)
               /\ Asked(x)' <=> Asked(x)
               /\ prog'[x] # "user" => \E s \in Ttys : <<x, s>> \in session.uses
               /\ prog'[x] = "user" => p_flags'[x] = {}
    <3>1. CASE x = u
      BY <1>1, <1>3, <1>7, <1>8, <2>1, <3>1 DEF Asked
    <3>2. CASE x # u
      <4>1. /\ p_flags'[x] = p_flags[x] /\ prog'[x] = prog[x] /\ buf'[x] = buf[x]
            /\ p_flags[x] = {"SENDING"} => buf[x].source = x /\ Asking(x, buf[x].body)
        BY <1>2, <1>7, <2>3, <3>2 DEF Content, SameEntry
      <4>2. /\ prog[x] # "user" => \E s \in Ttys : <<x, s>> \in session.uses
            /\ prog[x] = "user" => p_flags[x] = {}
        BY <1>2 DEF Calls, CallOf
      <4>3. QED
        BY <4>1, <4>2 DEF Asked
    <3>3. QED
      BY <3>1, <3>2
  <2>5. QED
    BY <1>1, <1>5, <1>7, <2>1, <2>2, <2>3, <2>4, OthersMove
<1>11. CASE Delivered(u, FS, b)
  <2>1. /\ p_flags[FS] = {"RECEIVING"} /\ p_recvfrom[FS] \in {u, ANY}
        /\ p_flags'[FS] = {} /\ has_int_msg'[FS] = has_int_msg[FS] /\ buf'[FS] = [source |-> u, body |-> b]
        /\ p_flags'[u] = {} /\ has_int_msg'[u] = FALSE /\ buf'[u] = [source |-> u, body |-> b] /\ ~halted'
        /\ \A x \in Procs \ {u, FS} : SameEntry(x)
    BY <1>8, <1>11 DEF Delivered
  <2>2. SameEntry(TTY) /\ \A x \in Users \ {u} : SameEntry(x)
    BY <1>4, <2>1, Constants
  <2>3. fs_pc = "dispatch"
    BY <1>2, <1>4, <2>1, Constants DEF Traffic
  <2>4. Traffic'
    <3>1. ASSUME NEW x \in Users
          PROVE  /\ p_flags'[x] = {"SENDING"} => prog'[x] = "recv" /\ p_sendto'[x] = FS
                 /\ p_flags'[x] = {"RECEIVING"} => prog'[x] = "ret" /\ p_recvfrom'[x] = FS
      <4>1. CASE x = u
        BY <2>1, <4>1
      <4>2. CASE x # u
        BY <1>2, <1>7, <2>2, <4>2 DEF Traffic, SameEntry
      <4>3. QED
        BY <4>1, <4>2
    <3>2. \A p \in Procs \ {TTY} : has_int_msg'[p] = FALSE
      BY <1>2, <2>1, Constants DEF Traffic, SameEntry
    <3>3. /\ p_flags'[TTY] = p_flags[TTY] /\ p_sendto'[TTY] = p_sendto[TTY] /\ p_recvfrom'[TTY] = p_recvfrom[TTY]
          /\ tty_pc' = tty_pc
      BY <1>9, <2>2 DEF SameEntry, TtyStill
    <3>4. QED
      BY <1>2, <2>1, <3>1, <3>2, <3>3 DEF Traffic
  <2>5. Turn'
    BY <1>2, <1>9, <2>1, <2>2, <2>3, TtyEntry DEF Turn, FsAwaits
  <2>6. FsTook' /\ ~FsAsks' /\ ~FsReplies' /\ Asker' = u
    BY <1>3, <1>9, <2>1, <2>3 DEF FsTook, FsAsks, FsReplies, Asker
  <2>7. Content'
    <3>1. ASSUME NEW x \in Users, p_flags'[x] = {"SENDING"}
          PROVE  buf'[x].source = x /\ Asking(x, buf[x].body)'
      BY <1>2, <1>9, <2>1, <2>2, <3>1 DEF Content, SameEntry, Asking
    <3>2. buf'[FS].source \in Users /\ Asking(buf[FS].source, buf[FS].body)'
      BY <1>3, <1>9, <2>1 DEF Asking
    <3>3. /\ TtyTook' => buf'[TTY].source = FS /\ Forwarded(buf[TTY].body)'
          /\ TtyAnswers' => buf'[TTY].body \in TtyBodies
                            /\ buf'[TTY].body.type \in {"SUSPEND_PROC", "SYSCALL_RET"}
          /\ TtyResumes' => /\ buf'[TTY].body \in TtyBodies /\ buf'[TTY].body.type = "RESUME_PROC"
                            /\ buf'[TTY].body.proc = req'[tty_p'].proc2tty
      BY <1>2, <1>9, <2>2, TtyEntry DEF Content, Forwarded, TtyStill
    <3>4. QED
      BY <1>9, <2>3, <2>6, <3>1, <3>2, <3>3 DEF Content
  <2>8. \A x \in Users : ~FsHas(x) /\ (FsHas(x)' <=> x = u)
    BY <1>9, <2>1, <2>3, <2>6 DEF FsHas, FsTook, FsReplies
  <2>9. ASSUME NEW x \in Users
        PROVE  CallOf(x)'
    <3>1. /\ Resuming(x)' <=> Resuming(x)
          /\ \A s \in Ttys : (HeldAt(x, s)' <=> HeldAt(x, s))
          /\ OwnTerminals' <=> OwnTerminals
      BY <1>9, <2>2, TtyEntry, HeldStill
    <3>2. CASE x = u
      <4>1. Asked(u)' /\ prog'[u] = "recv"
        BY <1>7, <2>1 DEF Asked
      <4>2. ~Resuming(u) /\ \A s \in Ttys : ~HeldAt(u, s)
        BY <1>2, <1>8 DEF Calls, CallOf
      <4>3. QED
        BY <1>1, <1>9, <2>8, <3>1, <3>2, <4>1, <4>2 DEF CallOf
    <3>3. CASE x # u
      BY <1>2, <1>7, <1>9, <2>2, <2>8, <3>1, <3>3, CallStays DEF Calls, SameEntry
    <3>4. QED
      BY <3>2, <3>3
  <2>10. InHand'
    BY <1>9, <2>3, <2>6 DEF InHand
  <2>11. Fields' /\ Noticed'
    BY <1>2, <1>7, <1>9, NoticedStill DEF Core, Fields, Keys, TtyStill
  <2>12. QED
    BY <1>5, <2>1, <2>4, <2>5, <2>7, <2>9, <2>10, <2>11 DEF TtyInv, Core, Calls
<1>12. QED
  BY <1>5, <1>6, <1>10, <1>11

\* A program waits for the answer of FS, or takes it.
LEMMA AwaitKeeps ==
    ASSUME Core, NEW u \in Users, Await(u), session' = session
    PROVE  TtyInv'
<1>1. /\ ~halted /\ p_flags[u] = {} /\ prog[u] = "recv" /\ msg_receive(u, FS)
      /\ prog' = [prog EXCEPT ![u] = "ret"] /\ UNCHANGED <<session, ttyVars, fsVars>>
  BY DEF Await, Running
<1>2. IInv /\ Fields /\ Traffic /\ Turn /\ Content /\ Calls
  BY DEF Core
<1>3. u \in Procs /\ FS \in Sources \ {u} /\ u # TTY /\ u # FS /\ FS # ANY /\ FS # INTERRUPT
  BY Constants
<1>4. /\ IInv' /\ ~halted'
      /\ TookInterrupt(u, FS) \/ (\E from \in Procs \ {u} : TookFrom(u, FS, from)) \/ WaitsFor(u, FS)
  BY <1>1, <1>2, <1>3, Receives
<1>5. ~TookInterrupt(u, FS) /\ \A from \in Procs : TookFrom(u, FS, from) => from = FS
  BY <1>3 DEF TookInterrupt, TookFrom
<1>6. has_int_msg[u] = FALSE /\ Asked(u)
  BY <1>1, <1>2, <1>3 DEF Traffic, Asked
<1>7. prog' \in [Users -> {"user", "recv", "ret"}] /\ prog'[u] = "ret" /\ \A x \in Users \ {u} : prog'[x] = prog[x]
  BY <1>1, <1>2 DEF Fields
<1>8. TtyStill /\ kb_in' = kb_in /\ key_pressed' = key_pressed
      /\ session' = session /\ fs_pc' = fs_pc /\ fs_src' = fs_src
  BY <1>1 DEF ttyVars, fsVars, TtyStill
<1>9. \E s \in Ttys : <<u, s>> \in session.uses
  BY <1>1, <1>2 DEF Calls, CallOf
<1>10. CASE WaitsFor(u, FS)
  <2>1. /\ p_flags'[u] = {"RECEIVING"} /\ p_recvfrom'[u] = FS /\ has_int_msg'[u] = FALSE
        /\ \A x \in Procs \ {u} : SameEntry(x)
    BY <1>6, <1>10 DEF WaitsFor
  <2>2. Traffic'
    BY <1>7, <1>8, <2>1, UserTraffic DEF TtyStill
  <2>3. SameEntry(FS) /\ SameEntry(TTY) /\ \A x \in Users \ {u} : SameEntry(x)
    BY <1>3, <2>1, Constants
  <2>4. ASSUME NEW x \in Users
        PROVE  /\ p_flags'[x] = {"SENDING"} => buf'[x].source = x /\ Asking(x, buf'[x].body)
               /\ Asked(x)' <=> Asked(x)
               /\ prog'[x] # "user" => \E s \in Ttys : <<x, s>> \in session.uses
               /\ prog'[x] = "user" => p_flags'[x] = {}
    <3>1. CASE x = u
      BY <1>6, <1>7, <1>9, <2>1, <3>1 DEF Asked
    <3>2. CASE x # u
      <4>1. /\ p_flags'[x] = p_flags[x] /\ prog'[x] = prog[x] /\ buf'[x] = buf[x]
            /\ p_flags[x] = {"SENDING"} => buf[x].source = x /\ Asking(x, buf[x].body)
        BY <1>2, <1>7, <2>3, <3>2 DEF Content, SameEntry
      <4>2. /\ prog[x] # "user" => \E s \in Ttys : <<x, s>> \in session.uses
            /\ prog[x] = "user" => p_flags[x] = {}
        BY <1>2 DEF Calls, CallOf
      <4>3. QED
        BY <4>1, <4>2 DEF Asked
    <3>3. QED
      BY <3>1, <3>2
  <2>5. QED
    BY <1>1, <1>4, <1>7, <2>2, <2>3, <2>4, OthersMove
<1>11. CASE TookFrom(u, FS, FS)
  <2>1. /\ p_flags[FS] = {"SENDING"} /\ p_sendto[FS] = u
        /\ p_flags'[FS] = {} /\ has_int_msg'[FS] = has_int_msg[FS]
        /\ p_flags'[u] = {} /\ has_int_msg'[u] = FALSE
        /\ \A x \in Procs \ {u, FS} : SameEntry(x)
    BY <1>6, <1>11 DEF TookFrom
  <2>2. SameEntry(TTY) /\ \A x \in Users \ {u} : SameEntry(x)
    BY <1>3, <2>1, Constants
  <2>3. fs_pc = "receive" /\ fs_src = u /\ FsReplies
    BY <1>2, <1>3, <2>1 DEF Traffic, FsReplies
  <2>4. Traffic'
    BY <1>2, <1>7, <1>8, <2>1, <2>2, Constants DEF Traffic, SameEntry, TtyStill
  <2>5. Turn'
    BY <1>2, <1>8, <2>1, <2>2, <2>3, TtyEntry DEF Turn, FsAwaits
  <2>6. ~FsTook' /\ ~FsAsks' /\ ~FsReplies'
    BY <1>8, <2>1, <2>3 DEF FsTook, FsAsks, FsReplies
  <2>7. Content'
    <3>1. ASSUME NEW x \in Users, p_flags'[x] = {"SENDING"}
          PROVE  buf'[x].source = x /\ Asking(x, buf[x].body)'
      BY <1>2, <1>8, <2>1, <2>2, <3>1 DEF Content, SameEntry, Asking
    <3>2. /\ TtyTook' => buf'[TTY].source = FS /\ Forwarded(buf[TTY].body)'
          /\ TtyAnswers' => buf'[TTY].body \in TtyBodies
                            /\ buf'[TTY].body.type \in {"SUSPEND_PROC", "SYSCALL_RET"}
          /\ TtyResumes' => /\ buf'[TTY].body \in TtyBodies /\ buf'[TTY].body.type = "RESUME_PROC"
                            /\ buf'[TTY].body.proc = req'[tty_p'].proc2tty
      BY <1>2, <1>8, <2>2, TtyEntry DEF Content, Forwarded, TtyStill
    <3>3. QED
      BY <1>8, <2>3, <2>6, <3>1, <3>2 DEF Content
  <2>8. \A x \in Users : (FsHas(x) <=> x = u) /\ ~FsHas(x)'
    BY <1>8, <2>1, <2>3, <2>6 DEF FsHas, FsTook
  <2>9. ASSUME NEW x \in Users
        PROVE  CallOf(x)'
    <3>1. /\ Resuming(x)' <=> Resuming(x)
          /\ \A s \in Ttys : (HeldAt(x, s)' <=> HeldAt(x, s))
      BY <1>8, <2>2, TtyEntry, HeldStill
    <3>2. CASE x = u
      <4>1. ~Asked(u)' /\ prog'[u] = "ret"
        BY <1>7, <2>1 DEF Asked
      <4>2. ~Resuming(u) /\ \A s \in Ttys : ~HeldAt(u, s)
        BY <1>2, <2>8 DEF Calls, CallOf
      <4>3. QED
        BY <1>8, <1>9, <2>8, <3>1, <3>2, <4>1, <4>2 DEF CallOf
    <3>3. CASE x # u
      BY <1>2, <1>7, <1>8, <2>2, <2>8, <3>1, <3>3, CallStays DEF Calls, SameEntry
    <3>4. QED
      BY <3>2, <3>3
  <2>10. InHand'
    BY <1>8, <2>3, <2>6 DEF InHand
  <2>11. Fields' /\ Noticed'
    BY <1>2, <1>7, <1>8, NoticedStill DEF Core, Fields, Keys, TtyStill
  <2>12. QED
    BY <1>4, <2>4, <2>5, <2>7, <2>9, <2>10, <2>11 DEF TtyInv, Core, Calls
<1>12. QED
  BY <1>4, <1>5, <1>10, <1>11

\* An answered program goes on.
LEMMA ReturnKeeps ==
    ASSUME Core, NEW u \in Users, Return(u), session' = session
    PROVE  TtyInv'
<1>1. /\ ~halted /\ p_flags[u] = {} /\ prog[u] = "ret" /\ prog' = [prog EXCEPT ![u] = "user"]
      /\ UNCHANGED <<session, ttyVars, fsVars>> /\ UNCHANGED vars
  BY DEF Return, Running, ipcVars
<1>2. IInv /\ Fields /\ Traffic /\ Content /\ Calls
  BY DEF Core
<1>3. IInv' /\ ~halted'
  BY <1>1, <1>2, TableStays DEF vars
<1>4. prog' \in [Users -> {"user", "recv", "ret"}] /\ prog'[u] = "user" /\ \A x \in Users \ {u} : prog'[x] = prog[x]
  BY <1>1, <1>2 DEF Fields
<1>5. /\ p_flags' = p_flags /\ p_sendto' = p_sendto /\ p_recvfrom' = p_recvfrom
      /\ has_int_msg' = has_int_msg /\ buf' = buf /\ tty_pc' = tty_pc /\ fs_pc' = fs_pc /\ fs_src' = fs_src
  BY <1>1 DEF vars, ttyVars, fsVars
<1>6. \A x \in Procs : SameEntry(x)
  BY <1>5 DEF SameEntry
<1>7. Traffic'
  BY <1>1, <1>2, <1>4, <1>5, <1>6, UserTraffic, Constants DEF Traffic
<1>8. ASSUME NEW x \in Users
      PROVE  /\ p_flags'[x] = {"SENDING"} => buf'[x].source = x /\ Asking(x, buf'[x].body)
             /\ Asked(x)' <=> Asked(x)
             /\ prog'[x] # "user" => \E s \in Ttys : <<x, s>> \in session.uses
             /\ prog'[x] = "user" => p_flags'[x] = {}
  <2>1. CASE x = u
    BY <1>1, <1>4, <1>5, <2>1 DEF Asked
  <2>2. CASE x # u
    BY <1>2, <1>4, <1>5, <2>2 DEF Content, Asked, Calls, CallOf
  <2>3. QED
    BY <2>1, <2>2
<1>9. QED
  BY <1>1, <1>3, <1>4, <1>6, <1>7, <1>8, OthersMove, Constants

\* The clock's interrupt wakes TTY, or is remembered until TTY receives.
LEMMA TickKeeps ==
    ASSUME Core, Tick, session' = session
    PROVE  TtyInv'
<1>1. ~halted /\ inform_int(TTY) /\ UNCHANGED <<session, prog, ttyVars, fsVars>>
  BY DEF Tick
<1>2. IInv /\ Fields /\ Traffic /\ Turn /\ Content /\ Calls
  BY DEF Core
<1>3. /\ IInv' /\ ~halted' /\ \A x \in Procs \ {TTY} : SameEntry(x)
      /\ \/ /\ p_flags[TTY] = {"RECEIVING"} /\ p_flags'[TTY] = {}
            /\ buf'[TTY] = [source |-> INTERRUPT, body |-> HARD_INT]
         \/ /\ p_flags'[TTY] = p_flags[TTY] /\ p_sendto'[TTY] = p_sendto[TTY]
            /\ p_recvfrom'[TTY] = p_recvfrom[TTY] /\ buf'[TTY] = buf[TTY]
  BY <1>1, <1>2, Informs, Constants
<1>4. SameEntry(FS) /\ \A x \in Users : SameEntry(x)
  BY <1>3, Constants
<1>5. TtyStill /\ kb_in' = kb_in /\ key_pressed' = key_pressed
      /\ session' = session /\ fs_pc' = fs_pc /\ fs_src' = fs_src /\ prog' = prog
  BY <1>1 DEF ttyVars, fsVars, TtyStill
<1>6. Traffic'
  BY <1>2, <1>3, <1>4, <1>5, Constants DEF Traffic, SameEntry, TtyStill
<1>7. /\ TtyTook' <=> TtyTook
      /\ TtyAnswers' <=> TtyAnswers
      /\ TtyResumes' <=> TtyResumes
      /\ TtyTook \/ TtyAnswers \/ TtyResumes => buf'[TTY] = buf[TTY]
  BY <1>3, <1>5 DEF TtyStill, TtyTook, TtyAnswers, TtyResumes
<1>8. /\ FsTook' <=> FsTook
      /\ FsReplies' <=> FsReplies
      /\ FsAsks' <=> FsAsks
      /\ FsAwaits' <=> FsAwaits
      /\ buf'[FS] = buf[FS] /\ p_flags'[FS] = p_flags[FS]
  BY <1>4, <1>5 DEF SameEntry, FsTook, FsReplies, FsAsks, FsAwaits
<1>9. Turn'
  BY <1>2, <1>5, <1>7, <1>8 DEF Turn
<1>10. Content'
  BY <1>2, <1>4, <1>5, <1>7, <1>8 DEF Content, SameEntry, Asking, Forwarded, TtyStill
<1>11. (Suspending' <=> Suspending) /\ Asker' = Asker
  BY <1>5, <1>7, <1>8 DEF Suspending, Asker
<1>12. \A x \in Users : (FsHas(x)' <=> FsHas(x)) /\ (Resuming(x)' <=> Resuming(x))
  BY <1>5, <1>7, <1>8, <1>11 DEF FsHas, Resuming, TtyStill
<1>13. \A x \in Users : CallOf(x)' /\ (Asked(x)' <=> Asked(x))
  BY <1>2, <1>4, <1>5, <1>12, CallStays, HeldStill DEF Calls, SameEntry
<1>14. Calls'
  BY <1>2, <1>5, <1>8, <1>13 DEF Calls, InHand
<1>15. Fields' /\ Noticed'
  BY <1>2, <1>5, NoticedStill DEF Core, Fields, Keys, TtyStill
<1>16. QED
  BY <1>3, <1>6, <1>9, <1>10, <1>14, <1>15 DEF TtyInv, Core

(***************************************************************************)
(* Messages of FS                                                          *)
(***************************************************************************)

\* A step of FS leaves the terminals and the programs' places alone.
LEMMA FsTalks ==
    ASSUME Core, UNCHANGED <<session, prog, ttyVars>>,
           fs_pc' \in {"receive", "dispatch", "await", "answer"}, fs_src' \in Procs
    PROVE  Fields' /\ Noticed'
<1>1. TtyStill /\ kb_in' = kb_in /\ key_pressed' = key_pressed /\ session' = session /\ prog' = prog
  BY DEF ttyVars, TtyStill
<1>2. QED
  BY <1>1, NoticedStill DEF Core, Fields, Keys, TtyStill

\* FS takes the next call, or TTY's word that a program is to be resumed.
LEMMA FsReceiveKeeps ==
    ASSUME Core, FsReceive, session' = session
    PROVE  TtyInv'
<1>1. /\ ~halted /\ p_flags[FS] = {} /\ fs_pc = "receive" /\ msg_receive(FS, ANY)
      /\ fs_pc' = "dispatch" /\ fs_src' = fs_src /\ UNCHANGED <<session, prog, ttyVars>>
  BY DEF FsReceive, FsAt, Running
<1>2. IInv /\ Fields /\ Traffic /\ Turn /\ Content /\ Calls
  BY DEF Core
<1>3. ANY \in Sources \ {FS}
  BY Constants
<1>4. /\ IInv' /\ ~halted'
      /\ TookInterrupt(FS, ANY) \/ (\E from \in Procs \ {FS} : TookFrom(FS, ANY, from)) \/ WaitsFor(FS, ANY)
  BY <1>1, <1>2, <1>3, Receives, Constants
<1>5. has_int_msg[FS] = FALSE
  BY <1>2, Constants DEF Traffic
<1>6. TtyStill /\ kb_in' = kb_in /\ key_pressed' = key_pressed /\ session' = session /\ prog' = prog
  BY <1>1 DEF ttyVars, TtyStill
<1>7. Fields' /\ Noticed'
  BY <1>1, <1>2, FsTalks DEF Fields
<1>8. ~FsAwaits /\ ~TtyTook /\ ~TtyAnswers /\ \A u \in Users : ~FsHas(u)
  BY <1>1, <1>2 DEF Turn, FsAwaits, FsHas, FsTook, FsReplies
<1>9. ~FsAwaits' /\ ~FsAsks' /\ ~FsReplies' /\ InHand'
  BY <1>1 DEF FsAwaits, FsAsks, FsReplies, InHand
<1>10. CASE WaitsFor(FS, ANY)
  <2>1. /\ p_flags'[FS] = {"RECEIVING"} /\ p_recvfrom'[FS] = ANY /\ has_int_msg'[FS] = FALSE
        /\ \A x \in Procs \ {FS} : SameEntry(x)
    BY <1>5, <1>10 DEF WaitsFor
  <2>2. SameEntry(TTY) /\ \A x \in Users : SameEntry(x)
    BY <2>1, Constants
  <2>3. Traffic'
    BY <1>1, <1>2, <1>6, <2>1, <2>2, Constants DEF Traffic, SameEntry, TtyStill
  <2>4. Turn'
    BY <1>6, <1>8, <1>9, <2>2, TtyEntry DEF Turn
  <2>5. ~FsTook' /\ \A u \in Users : ~FsHas(u)'
    BY <1>1, <1>9, <2>1 DEF FsTook, FsHas
  <2>6. Content'
    <3>1. ASSUME NEW x \in Users, p_flags'[x] = {"SENDING"}
          PROVE  buf'[x].source = x /\ Asking(x, buf[x].body)'
      BY <1>2, <1>6, <2>2, <3>1 DEF Content, SameEntry, Asking
    <3>2. /\ ~TtyTook' /\ ~TtyAnswers'
          /\ TtyResumes' => /\ buf'[TTY].body \in TtyBodies /\ buf'[TTY].body.type = "RESUME_PROC"
                            /\ buf'[TTY].body.proc = req'[tty_p'].proc2tty
      BY <1>2, <1>6, <1>8, <2>2, TtyEntry DEF Content, TtyStill
    <3>3. QED
      BY <1>1, <1>9, <2>5, <3>1, <3>2 DEF Content
  <2>7. \A x \in Users : CallOf(x)'
    BY <1>2, <1>6, <1>8, <2>2, <2>5, TtyEntry, HeldStill, CallStays DEF Calls, SameEntry
  <2>8. QED
    BY <1>4, <1>7, <1>9, <2>3, <2>4, <2>6, <2>7 DEF TtyInv, Core, Calls
<1>11. ASSUME NEW from \in Procs \ {FS}, TookFrom(FS, ANY, from)
       PROVE  TtyInv'
  <2>1. /\ p_flags[from] = {"SENDING"} /\ p_sendto[from] = FS
        /\ p_flags'[from] = {} /\ has_int_msg'[from] = has_int_msg[from] /\ buf'[from] = buf[from]
        /\ p_flags'[FS] = {} /\ has_int_msg'[FS] = FALSE /\ buf'[FS] = buf[from]
        /\ \A x \in Procs \ {FS, from} : SameEntry(x)
    BY <1>5, <1>11 DEF TookFrom
  <2>2. Traffic'
    BY <1>1, <1>2, <1>6, <2>1, Constants DEF Traffic, SameEntry, TtyStill
  <2>3. FsTook'
    BY <1>1, <2>1 DEF FsTook
  <2>4. from \in Users \/ from = TTY
    BY Constants
  <2>5. CASE from \in Users
    <3>1. SameEntry(TTY) /\ \A x \in Users \ {from} : SameEntry(x)
      BY <2>1, <2>5, Constants
    <3>2. Turn'
      BY <1>6, <1>8, <1>9, <3>1, TtyEntry DEF Turn
    <3>3. buf[from].source = from /\ Asking(from, buf[from].body)
      BY <1>2, <2>1, <2>5 DEF Content
    <3>4. Content'
      <4>1. ASSUME NEW x \in Users, p_flags'[x] = {"SENDING"}
            PROVE  buf'[x].source = x /\ Asking(x, buf[x].body)'
        BY <1>2, <1>6, <2>1, <3>1, <4>1 DEF Content, SameEntry, Asking
      <4>2. buf'[FS].source \in Users /\ Asking(buf[FS].source, buf[FS].body)'
        BY <1>6, <2>1, <2>5, <3>3 DEF Asking
      <4>3. /\ ~TtyTook' /\ ~TtyAnswers'
            /\ TtyResumes' => /\ buf'[TTY].body \in TtyBodies /\ buf'[TTY].body.type = "RESUME_PROC"
                              /\ buf'[TTY].body.proc = req'[tty_p'].proc2tty
        BY <1>2, <1>6, <1>8, <3>1, TtyEntry DEF Content, TtyStill
      <4>4. QED
        BY <1>1, <1>9, <4>1, <4>2, <4>3 DEF Content
    <3>5. Asker' = from
      BY <2>1, <3>3 DEF Asker, Asking
    <3>6. \A x \in Users : (FsHas(x)' <=> x = from)
      BY <1>1, <1>9, <2>3, <3>5 DEF FsHas
    <3>7. prog[from] = "recv" /\ ~Asked(from) /\ Asked(from)'
      BY <1>2, <1>6, <2>1, <2>5 DEF Traffic, Asked
    <3>8. ASSUME NEW x \in Users
          PROVE  CallOf(x)'
      <4>1. /\ Resuming(x)' <=> Resuming(x)
            /\ \A s \in Ttys : (HeldAt(x, s)' <=> HeldAt(x, s))
        BY <1>6, <3>1, TtyEntry, HeldStill
      <4>2. CASE x = from
        <5>1. ~Resuming(x) /\ \A s \in Ttys : ~HeldAt(x, s)
          BY <1>2, <2>5, <3>7, <4>2 DEF Calls, CallOf
        <5>2. \E t \in Ttys : <<x, t>> \in session'.uses
          BY <1>2, <1>6, <2>5, <3>7, <4>2 DEF Calls, CallOf
        <5>3. QED
          BY <1>6, <3>6, <3>7, <4>1, <4>2, <5>1, <5>2 DEF CallOf
      <4>3. CASE x # from
        BY <1>2, <1>6, <1>8, <3>1, <3>6, <4>1, <4>3, CallStays DEF Calls, SameEntry
      <4>4. QED
        BY <4>2, <4>3
    <3>9. QED
      BY <1>4, <1>7, <1>9, <2>2, <3>2, <3>4, <3>8 DEF TtyInv, Core, Calls
  <2>6. CASE from = TTY
    <3>1. \A x \in Users : SameEntry(x)
      BY <2>1, <2>6, Constants
    <3>2. TtyResumes /\ ~TtyTook' /\ ~TtyAnswers' /\ ~TtyResumes' /\ tty_pc = "resumed"
      BY <1>2, <1>6, <1>8, <2>1, <2>6
      DEF Traffic, TtyAnswers, TtyResumes, TtyTook, TtyStill
    <3>3. Turn'
      BY <1>9, <3>2 DEF Turn
    <3>4. /\ buf'[FS].body \in TtyBodies /\ buf'[FS].body.type = "RESUME_PROC"
          /\ buf'[FS].body.proc = req[tty_p].proc2tty
      BY <1>2, <2>1, <2>6, <3>2 DEF Content
    <3>5. Content'
      <4>1. ASSUME NEW x \in Users, p_flags'[x] = {"SENDING"}
            PROVE  buf'[x].source = x /\ Asking(x, buf[x].body)'
        BY <1>2, <1>6, <3>1, <4>1 DEF Content, SameEntry, Asking
      <4>2. QED
        BY <1>1, <1>9, <3>2, <3>4, <4>1 DEF Content
    <3>6. Asker' = req[tty_p].proc2tty
      BY <3>4 DEF Asker
    <3>7. ASSUME NEW x \in Users
          PROVE  CallOf(x)'
      <4>1. \A s \in Ttys : (HeldAt(x, s)' <=> HeldAt(x, s))
        BY <1>6, HeldStill
      <4>2. FsHas(x)' <=> Resuming(x)
        BY <1>1, <1>9, <2>3, <3>2, <3>6 DEF FsHas, Resuming
      <4>3. ~Resuming(x)' /\ ~FsHas(x)
        BY <1>8, <3>2 DEF Resuming
      <4>4. (OwnTerminals' <=> OwnTerminals) /\ (Asked(x)' <=> Asked(x)) /\ p_flags'[x] = p_flags[x]
        BY <1>6, <3>1, HeldStill DEF Asked, SameEntry
      <4>5. CallOf(x)
        BY <1>2 DEF Calls
      <4>6. QED
        BY <1>6, <4>1, <4>2, <4>3, <4>4, <4>5 DEF CallOf
    <3>8. QED
      BY <1>4, <1>7, <1>9, <2>2, <3>3, <3>5, <3>7 DEF TtyInv, Core, Calls
  <2>7. QED
    BY <2>4, <2>5, <2>6
<1>12. QED
  BY <1>4, <1>5, <1>10, <1>11 DEF TookInterrupt

\* FS waits for TTY's answer, or takes it.
LEMMA FsAwaitKeeps ==
    ASSUME Core, FsAwait, session' = session
    PROVE  TtyInv'
<1>1. /\ ~halted /\ p_flags[FS] = {} /\ fs_pc = "await" /\ msg_receive(FS, TTY)
      /\ fs_pc' = "answer" /\ fs_src' = fs_src /\ UNCHANGED <<session, prog, ttyVars>>
  BY DEF FsAwait, FsAt, Running
<1>2. IInv /\ Fields /\ Traffic /\ Turn /\ Content /\ Calls
  BY DEF Core
<1>3. TTY \in Sources \ {FS} /\ TTY # ANY /\ TTY # INTERRUPT
  BY Constants
<1>4. /\ IInv' /\ ~halted'
      /\ TookInterrupt(FS, TTY) \/ (\E from \in Procs \ {FS} : TookFrom(FS, TTY, from)) \/ WaitsFor(FS, TTY)
  BY <1>1, <1>2, <1>3, Receives, Constants
<1>5. ~TookInterrupt(FS, TTY) /\ \A from \in Procs : TookFrom(FS, TTY, from) => from = TTY
  BY <1>3 DEF TookInterrupt, TookFrom
<1>6. has_int_msg[FS] = FALSE
  BY <1>2, Constants DEF Traffic
<1>7. TtyStill /\ kb_in' = kb_in /\ key_pressed' = key_pressed /\ session' = session /\ prog' = prog
  BY <1>1 DEF ttyVars, TtyStill
<1>8. Fields' /\ Noticed'
  BY <1>1, <1>2, FsTalks DEF Fields
<1>9. FsAwaits /\ (TtyTook \/ TtyAnswers)
  BY <1>1, <1>2 DEF Turn, FsAwaits
<1>10. ~FsAsks' /\ ~FsReplies' /\ ~FsTook' /\ ~FsReplies /\ ~FsTook
  BY <1>1 DEF FsTook, FsAsks, FsReplies
<1>11. fs_src \in Users /\ Asked(fs_src)
  BY <1>1, <1>2 DEF Calls, InHand
<1>12. CASE WaitsFor(FS, TTY)
  <2>1. /\ p_flags'[FS] = {"RECEIVING"} /\ p_recvfrom'[FS] = TTY /\ has_int_msg'[FS] = FALSE
        /\ \A x \in Procs \ {FS} : SameEntry(x)
        /\ ~(p_flags[TTY] = {"SENDING"} /\ p_sendto[TTY] = FS)
    BY <1>6, <1>12, Constants DEF WaitsFor
  <2>2. SameEntry(TTY) /\ \A x \in Users : SameEntry(x)
    BY <2>1, Constants
  <2>3. Traffic'
    BY <1>1, <1>2, <1>7, <2>1, <2>2, Constants DEF Traffic, SameEntry, TtyStill
  <2>4. ~TtyAnswers /\ TtyTook /\ TtyTook' /\ ~TtyAnswers' /\ (TtyResumes' <=> TtyResumes) /\ buf'[TTY] = buf[TTY]
    BY <1>2, <1>7, <1>9, <2>1, <2>2, TtyEntry DEF Traffic, TtyAnswers
  <2>5. Turn'
    BY <1>1, <2>1, <2>4 DEF Turn, FsAwaits
  <2>6. Content'
    <3>1. ASSUME NEW x \in Users, p_flags'[x] = {"SENDING"}
          PROVE  buf'[x].source = x /\ Asking(x, buf[x].body)'
      BY <1>2, <1>7, <2>2, <3>1 DEF Content, SameEntry, Asking
    <3>2. /\ buf'[TTY].source = FS /\ Forwarded(buf[TTY].body)'
          /\ ~TtyAnswers'
          /\ TtyResumes' => /\ buf'[TTY].body \in TtyBodies /\ buf'[TTY].body.type = "RESUME_PROC"
                            /\ buf'[TTY].body.proc = req'[tty_p'].proc2tty
      BY <1>1, <1>2, <1>7, <2>4 DEF Content, Forwarded, TtyStill
    <3>3. QED
      BY <1>10, <2>1, <3>1, <3>2 DEF Content
  <2>7. ~Suspending /\ ~Suspending'
    BY <1>1, <2>1, <2>4 DEF Suspending
  <2>8. \A x \in Users : (FsHas(x)' <=> FsHas(x))
    BY <1>1, <1>10, <2>7 DEF FsHas
  <2>9. \A x \in Users : CallOf(x)' /\ (Asked(x)' <=> Asked(x))
    BY <1>2, <1>7, <2>2, <2>8, TtyEntry, HeldStill, CallStays DEF Calls, SameEntry
  <2>10. InHand'
    BY <1>1, <1>11, <2>9 DEF InHand
  <2>11. QED
    BY <1>4, <1>8, <2>3, <2>5, <2>6, <2>9, <2>10 DEF TtyInv, Core, Calls
<1>13. CASE TookFrom(FS, TTY, TTY)
  <2>1. /\ p_flags[TTY] = {"SENDING"} /\ p_sendto[TTY] = FS
        /\ p_flags'[TTY] = {} /\ has_int_msg'[TTY] = has_int_msg[TTY] /\ buf'[TTY] = buf[TTY]
        /\ p_flags'[FS] = {} /\ has_int_msg'[FS] = FALSE /\ buf'[FS] = buf[TTY]
        /\ \A x \in Procs \ {FS, TTY} : SameEntry(x)
    BY <1>6, <1>13 DEF TookFrom
  <2>2. \A x \in Users : SameEntry(x)
    BY <2>1, Constants
  <2>3. Traffic'
    BY <1>1, <1>2, <1>7, <2>1, <2>2, Constants DEF Traffic, SameEntry, TtyStill
  <2>4. TtyAnswers /\ tty_pc = "enter" /\ ~TtyAnswers' /\ ~TtyTook' /\ ~TtyResumes' /\ ~TtyResumes
    BY <1>7, <1>9, <2>1 DEF TtyAnswers, TtyTook, TtyResumes, TtyStill
  <2>5. Turn'
    BY <1>1, <2>1, <2>4 DEF Turn, FsAwaits
  <2>6. Content'
    <3>1. ASSUME NEW x \in Users, p_flags'[x] = {"SENDING"}
          PROVE  buf'[x].source = x /\ Asking(x, buf[x].body)'
      BY <1>2, <1>7, <2>2, <3>1 DEF Content, SameEntry, Asking
    <3>2. buf'[FS].body \in TtyBodies
      BY <1>2, <2>1, <2>4 DEF Content
    <3>3. QED
      BY <1>10, <2>4, <3>1, <3>2 DEF Content
  <2>7. Suspending' <=> Suspending
    BY <1>1, <2>1, <2>4 DEF Suspending
  <2>8. \A x \in Users : (FsHas(x)' <=> FsHas(x)) /\ (Resuming(x)' <=> Resuming(x))
    BY <1>1, <1>10, <2>4, <2>7 DEF FsHas, Resuming
  <2>9. \A x \in Users : CallOf(x)' /\ (Asked(x)' <=> Asked(x))
    BY <1>2, <1>7, <2>2, <2>8, HeldStill, CallStays DEF Calls, SameEntry
  <2>10. InHand'
    BY <1>1, <1>11, <2>9 DEF InHand
  <2>11. QED
    BY <1>4, <1>8, <2>3, <2>5, <2>6, <2>9, <2>10 DEF TtyInv, Core, Calls
<1>14. QED
  BY <1>4, <1>5, <1>12, <1>13

\* The kernel panics only when a call of one program and the resumption of another meet:
\* a program alone is in one place at a time.
LEMMA PanicKeeps ==
    ASSUME Core, Panics, Fields', session' = session, NEW u \in Users, NEW w \in Users, u # w,
           Asked(u), Asked(w)
    PROVE  TtyInv'
<1>1. TtyTypeOK'
  BY FieldsImply, PTL
<1>2. (\E t \in Ttys : <<u, t>> \in session.uses) /\ (\E t \in Ttys : <<w, t>> \in session.uses)
  BY DEF Core, Calls, CallOf, Asked
<1>3. ~Alone'
  BY <1>2 DEF Alone
<1>4. QED
  BY <1>1, <1>3 DEF TtyInv, Panics

\* FS passes the call on: TTY has it, or FS waits until TTY takes it.
LEMMA FsForwardKeeps ==
    ASSUME Core, FsForward, session' = session
    PROVE  TtyInv'
<1> DEFINE m == buf[FS].body
           v == buf[FS].source
           b == Body(DevType[m.type], m.dev, v, m.cnt)
<1>1. /\ ~halted /\ p_flags[FS] = {} /\ fs_pc = "dispatch" /\ m.type \in DOMAIN DevType
      /\ msg_send(FS, TTY, b) /\ fs_src' = v /\ fs_pc' = "await" /\ UNCHANGED <<session, prog, ttyVars>>
  BY DEF FsForward, FsAt, Running
<1>2. IInv /\ Fields /\ Traffic /\ Turn /\ Content /\ Calls
  BY DEF Core
<1>3. m.type \in {"OPEN", "READ", "WRITE"}
  BY <1>1 DEF DevType
<1>4. v \in Users /\ Asking(v, m) /\ Asker = v /\ FsTook
  BY <1>1, <1>2, <1>3 DEF Content, FsTook, Asker
<1>5. /\ b \in TtyBodies /\ b.type \in {"DEV_OPEN", "DEV_READ", "DEV_WRITE"} /\ b.cnt \in Counts
      /\ <<v, b.dev>> \in session.uses /\ b.proc = v /\ b \in Bodies /\ b # HARD_INT
  <2>1. /\ m \in TtyBodies /\ m.dev \in Ttys /\ m.cnt \in Counts /\ m.cnt \in 0 .. MaxCount
        /\ <<v, m.dev>> \in session.uses
    BY <1>4, BodyHas DEF Asking
  <2>2. DevType[m.type] \in {"DEV_OPEN", "DEV_READ", "DEV_WRITE"}
    BY <1>3 DEF DevType
  <2>3. /\ b \in TtyBodies /\ b.type = DevType[m.type] /\ b.dev = m.dev /\ b.proc = v /\ b.cnt = m.cnt
    BY <1>4, <2>1, <2>2, BodyIs DEF BodyTypes
  <2>4. QED
    BY <2>1, <2>2, <2>3, Constants
<1> HIDE DEF b, m, v
<1>6. IInv' /\ (Panics \/ Delivered(FS, TTY, b) \/ Queued(FS, TTY, b))
  BY <1>1, <1>2, <1>5, Sends, Constants
<1>7. TtyStill /\ kb_in' = kb_in /\ key_pressed' = key_pressed /\ session' = session /\ prog' = prog
  BY <1>1 DEF ttyVars, TtyStill
<1>8. Fields' /\ Noticed'
  BY <1>1, <1>4, FsTalks, Constants
<1>9. FsHas(v) /\ Asked(v) /\ ~FsAwaits /\ ~TtyTook /\ ~TtyAnswers
  BY <1>1, <1>2, <1>4 DEF FsHas, Calls, CallOf, Turn, FsAwaits
<1>10. CASE Panics
  <2>1. Sending(TTY)
    BY <1>1, <1>10, PanicsInCircle, Constants DEF Panics
  <2>2. p_flags[TTY] = {"SENDING"} /\ tty_pc = "resumed"
    BY <1>2, <1>9, <2>1, Blocked, Constants DEF Traffic, TtyAnswers
  <2>3. PICK w \in Users : w = req[tty_p].proc2tty
    BY <1>2, <2>2 DEF Fields
  <2>4. Resuming(w)
    BY <2>2, <2>3 DEF Resuming, TtyResumes
  <2>5. Asked(w) /\ w # v
    BY <1>2, <1>9, <2>4 DEF Calls, CallOf
  <2>6. QED
    BY <1>4, <1>7, <1>8, <1>9, <1>10, <2>5, PanicKeeps
<1>11. has_int_msg[FS] = FALSE
  BY <1>2, Constants DEF Traffic
<1>12. ~FsTook' /\ ~FsReplies'
  BY <1>1 DEF FsTook, FsReplies
<1>13. \A x \in Users : (FsHas(x) <=> x = v)
  BY <1>1, <1>4 DEF FsHas, FsReplies
<1>14. ASSUME \A x \in Users : SameEntry(x), ~TtyAnswers', \A x \in Users : (Resuming(x)' <=> Resuming(x))
       PROVE  InHand' /\ \A x \in Users : CallOf(x)'
  <2>1. ~Suspending'
    BY <1>1, <1>14 DEF Suspending
  <2>2. \A x \in Users : (FsHas(x)' <=> FsHas(x))
    BY <1>1, <1>12, <1>13, <2>1 DEF FsHas
  <2>3. \A x \in Users : CallOf(x)' /\ (Asked(x)' <=> Asked(x))
    BY <1>2, <1>7, <1>14, <2>2, HeldStill, CallStays DEF Calls, SameEntry
  <2>4. InHand'
    BY <1>1, <1>4, <1>9, <2>3 DEF InHand
  <2>5. QED
    BY <2>3, <2>4
<1>15. ASSUME NEW x \in Users, \A y \in Users : SameEntry(y), p_flags'[x] = {"SENDING"}
       PROVE  buf'[x].source = x /\ Asking(x, buf[x].body)'
  BY <1>2, <1>7, <1>15 DEF Content, SameEntry, Asking
<1>16. CASE Delivered(FS, TTY, b)
  <2>1. /\ p_flags[TTY] = {"RECEIVING"}
        /\ p_flags'[TTY] = {} /\ buf'[TTY] = [source |-> FS, body |-> b]
        /\ p_flags'[FS] = {} /\ has_int_msg'[FS] = FALSE /\ ~halted'
        /\ \A x \in Procs \ {FS, TTY} : SameEntry(x)
    BY <1>11, <1>16 DEF Delivered
  <2>2. \A x \in Users : SameEntry(x)
    BY <2>1, Constants
  <2>3. tty_pc = "dispatch"
    BY <1>2, <2>1 DEF Traffic
  <2>4. Traffic'
    BY <1>1, <1>2, <1>7, <2>1, <2>2, Constants DEF Traffic, SameEntry, TtyStill
  <2>5. TtyTook' /\ ~TtyAnswers' /\ ~TtyResumes /\ ~TtyResumes'
    BY <1>5, <1>7, <2>1, <2>3 DEF TtyTook, TtyAnswers, TtyResumes, TtyStill
  <2>6. Turn'
    BY <1>1, <2>1, <2>5 DEF Turn, FsAwaits
  <2>7. buf'[TTY].source = FS /\ Forwarded(buf[TTY].body)'
    BY <1>1, <1>5, <1>7, <2>1 DEF Forwarded
  <2>8. ~FsAsks'
    BY <2>1 DEF FsAsks
  <2>9. Content'
    BY <1>1, <1>12, <1>15, <2>2, <2>5, <2>7, <2>8 DEF Content
  <2>10. InHand' /\ \A x \in Users : CallOf(x)'
    BY <1>14, <2>2, <2>5 DEF Resuming
  <2>11. QED
    BY <1>6, <1>8, <2>1, <2>4, <2>6, <2>9, <2>10 DEF TtyInv, Core, Calls
<1>17. CASE Queued(FS, TTY, b)
  <2>1. /\ p_flags'[FS] = {"SENDING"} /\ p_sendto'[FS] = TTY /\ has_int_msg'[FS] = FALSE
        /\ buf'[FS] = [source |-> FS, body |-> b] /\ ~halted'
        /\ \A x \in Procs \ {FS} : SameEntry(x)
    BY <1>11, <1>17 DEF Queued
  <2>2. SameEntry(TTY) /\ \A x \in Users : SameEntry(x)
    BY <2>1, Constants
  <2>3. Traffic'
    BY <1>1, <1>2, <1>7, <2>1, <2>2, Constants DEF Traffic, SameEntry, TtyStill
  <2>4. ~TtyTook' /\ ~TtyAnswers' /\ (TtyResumes' <=> TtyResumes) /\ buf'[TTY] = buf[TTY]
    BY <1>7, <1>9, <2>2, TtyEntry
  <2>5. Turn'
    BY <1>1, <2>1, <2>4 DEF Turn, FsAwaits
  <2>6. buf'[FS].source = FS /\ Forwarded(buf[FS].body)'
    BY <1>1, <1>5, <1>7, <2>1 DEF Forwarded
  <2>7. TtyResumes' => /\ buf'[TTY].body \in TtyBodies /\ buf'[TTY].body.type = "RESUME_PROC"
                       /\ buf'[TTY].body.proc = req'[tty_p'].proc2tty
    BY <1>2, <1>7, <2>4 DEF Content, TtyStill
  <2>8. Content'
    BY <1>1, <1>12, <1>15, <2>2, <2>4, <2>6, <2>7 DEF Content
  <2>9. InHand' /\ \A x \in Users : CallOf(x)'
    BY <1>7, <1>14, <2>2, <2>4, TtyEntry
  <2>10. QED
    BY <1>6, <1>8, <2>1, <2>3, <2>5, <2>8, <2>9 DEF TtyInv, Core, Calls
<1>18. QED
  BY <1>6, <1>10, <1>16, <1>17

\* FS answers the program whose call it has at hand.
LEMMA FsReplyKeeps ==
    ASSUME Core, FsReply, session' = session
    PROVE  TtyInv'
<1> DEFINE b == [buf[FS].body EXCEPT !.type = "SYSCALL_RET"]
<1>0. PICK v \in Users : v = fs_src /\ Asked(v)
  BY DEF FsReply, FsAt, Core, Calls, InHand
<1>1. /\ ~halted /\ p_flags[FS] = {} /\ fs_pc = "answer" /\ buf[FS].body.type # "SUSPEND_PROC"
      /\ msg_send(FS, v, b) /\ fs_src' = v /\ fs_pc' = "receive" /\ UNCHANGED <<session, prog, ttyVars>>
  BY <1>0 DEF FsReply, FsAt, Running
<1>2. IInv /\ Fields /\ Traffic /\ Turn /\ Content /\ Calls
  BY DEF Core
<1>3. v \in Users /\ Asked(v) /\ v \in Procs /\ v # FS /\ v # TTY
  BY <1>0, Constants
<1>4. b \in Bodies
  <2>1. buf[FS].body \in TtyBodies
    BY <1>1, <1>2 DEF Content
  <2>2. b \in TtyBodies
    BY <2>1, Retyped DEF BodyTypes
  <2>3. QED
    BY <2>2, Constants
<1> HIDE DEF b
<1>5. IInv' /\ (Panics \/ Delivered(FS, v, b) \/ Queued(FS, v, b))
  BY <1>1, <1>2, <1>3, <1>4, Sends, Constants
<1>6. TtyStill /\ kb_in' = kb_in /\ key_pressed' = key_pressed /\ session' = session /\ prog' = prog
  BY <1>1 DEF ttyVars, TtyStill
<1>7. Fields' /\ Noticed'
  BY <1>1, <1>3, FsTalks
<1>8. ~FsAwaits /\ ~TtyTook /\ ~TtyAnswers /\ ~Suspending
  BY <1>1, <1>2 DEF Turn, FsAwaits, Suspending
<1>9. \A x \in Users : (FsHas(x) <=> x = v)
  BY <1>0, <1>1, <1>8 DEF FsHas, FsTook, FsReplies
<1>10. ~Panics
  <2>1. ~Sending(v)
    BY <1>3 DEF Asked, Sending
  <2>2. QED
    BY <1>1, <1>3, <2>1, PanicsInCircle, Constants DEF Panics
<1>11. has_int_msg[FS] = FALSE /\ has_int_msg[v] = FALSE
  BY <1>2, <1>3, Constants DEF Traffic
<1>12. ~FsTook' /\ ~FsAsks' /\ ~FsAwaits'
  BY <1>1 DEF FsTook, FsAsks, FsAwaits
<1>13. ASSUME SameEntry(TTY), \A x \in Users \ {v} : SameEntry(x), p_flags'[v] # {"SENDING"}
       PROVE  Turn' /\ Content' /\ \A x \in Users : (Resuming(x)' <=> Resuming(x))
  <2>1. /\ ~TtyTook' /\ ~TtyAnswers' /\ (TtyResumes' <=> TtyResumes) /\ buf'[TTY] = buf[TTY]
        /\ \A x \in Users : (Resuming(x)' <=> Resuming(x))
    BY <1>6, <1>8, <1>13, TtyEntry
  <2>2. ASSUME NEW x \in Users, p_flags'[x] = {"SENDING"}
        PROVE  buf'[x].source = x /\ Asking(x, buf[x].body)'
    BY <1>2, <1>6, <1>13, <2>2 DEF Content, SameEntry, Asking
  <2>3. TtyResumes' => /\ buf'[TTY].body \in TtyBodies /\ buf'[TTY].body.type = "RESUME_PROC"
                       /\ buf'[TTY].body.proc = req'[tty_p'].proc2tty
    BY <1>2, <1>6, <2>1 DEF Content, TtyStill
  <2>4. Content'
    BY <1>1, <1>12, <2>1, <2>2, <2>3 DEF Content
  <2>5. Turn'
    BY <1>12, <2>1 DEF Turn
  <2>6. QED
    BY <2>1, <2>4, <2>5
<1>14. CASE Delivered(FS, v, b)
  <2>1. /\ p_flags[v] = {"RECEIVING"} /\ p_flags'[v] = {} /\ has_int_msg'[v] = FALSE
        /\ p_flags'[FS] = {} /\ has_int_msg'[FS] = FALSE /\ ~halted'
        /\ \A x \in Procs \ {FS, v} : SameEntry(x)
    BY <1>11, <1>14 DEF Delivered
  <2>2. SameEntry(TTY) /\ \A x \in Users \ {v} : SameEntry(x)
    BY <1>3, <2>1, Constants
  <2>3. Traffic'
    BY <1>1, <1>2, <1>3, <1>6, <2>1, <2>2, Constants DEF Traffic, SameEntry, TtyStill
  <2>4. Turn' /\ Content' /\ \A x \in Users : (Resuming(x)' <=> Resuming(x))
    BY <1>13, <2>1, <2>2
  <2>5. ~FsReplies' /\ \A x \in Users : ~FsHas(x)'
    BY <1>1, <1>12, <2>1 DEF FsReplies, FsHas
  <2>6. prog[v] = "ret" /\ ~Asked(v)'
    BY <1>2, <1>3, <1>6, <2>1 DEF Traffic, Asked
  <2>7. ASSUME NEW x \in Users
        PROVE  CallOf(x)'
    <3>1. CASE x = v
      <4>1. ~Resuming(v) /\ \A s \in Ttys : ~HeldAt(v, s)
        BY <1>2, <1>3, <1>9 DEF Calls, CallOf
      <4>2. ~Resuming(v)' /\ \A s \in Ttys : ~HeldAt(v, s)'
        BY <1>3, <1>6, <2>4, <4>1, HeldStill
      <4>3. \E t \in Ttys : <<v, t>> \in session'.uses
        BY <1>2, <1>3, <1>6, <2>6 DEF Calls, CallOf
      <4>4. QED
        BY <1>6, <2>5, <2>6, <3>1, <4>2, <4>3 DEF CallOf
    <3>2. CASE x # v
      BY <1>2, <1>6, <1>9, <2>2, <2>4, <2>5, <3>2, HeldStill, CallStays DEF Calls, SameEntry
    <3>3. QED
      BY <3>1, <3>2
  <2>8. InHand'
    BY <1>1, <2>5 DEF InHand
  <2>9. QED
    BY <1>5, <1>7, <2>1, <2>3, <2>4, <2>7, <2>8 DEF TtyInv, Core, Calls
<1>15. CASE Queued(FS, v, b)
  <2>1. /\ p_flags'[FS] = {"SENDING"} /\ p_sendto'[FS] = v /\ has_int_msg'[FS] = FALSE /\ ~halted'
        /\ \A x \in Procs \ {FS} : SameEntry(x)
    BY <1>11, <1>15 DEF Queued
  <2>2. SameEntry(TTY) /\ \A x \in Users : SameEntry(x)
    BY <2>1, Constants
  <2>3. Traffic'
    BY <1>1, <1>2, <1>6, <2>1, <2>2, Constants DEF Traffic, SameEntry, TtyStill
  <2>4. p_flags'[v] # {"SENDING"}
    BY <1>3, <2>2 DEF SameEntry, Asked
  <2>5. Turn' /\ Content' /\ \A x \in Users : (Resuming(x)' <=> Resuming(x))
    BY <1>13, <2>2, <2>4
  <2>6. FsReplies' /\ \A x \in Users : (FsHas(x)' <=> x = v)
    BY <1>1, <1>12, <2>1 DEF FsReplies, FsHas
  <2>7. \A x \in Users : CallOf(x)' /\ (Asked(x)' <=> Asked(x))
    BY <1>2, <1>6, <1>9, <2>2, <2>5, <2>6, HeldStill, CallStays DEF Calls, SameEntry
  <2>8. InHand'
    BY <1>1, <1>3, <2>7 DEF InHand
  <2>9. QED
    BY <1>5, <1>7, <2>1, <2>3, <2>5, <2>7, <2>8 DEF TtyInv, Core, Calls
<1>16. QED
  BY <1>5, <1>10, <1>14, <1>15

(***************************************************************************)
(* Messages of TTY                                                         *)
(***************************************************************************)

\* FS's message and what it does do not depend on the terminals.
LEMMA FsStill ==
    ASSUME SameEntry(FS), UNCHANGED fsVars
    PROVE  /\ FsTook' <=> FsTook
           /\ FsReplies' <=> FsReplies
           /\ FsAsks' <=> FsAsks
           /\ FsAwaits' <=> FsAwaits
           /\ buf'[FS] = buf[FS] /\ p_flags'[FS] = p_flags[FS] /\ Asker' = Asker
BY DEF SameEntry, fsVars, FsTook, FsReplies, FsAsks, FsAwaits, Asker

\* TTY takes the interrupt or the request of FS, or waits for them.
LEMMA TtyReceiveKeeps ==
    ASSUME Core, TtyReceive, session' = session
    PROVE  TtyInv'
<1>1. /\ ~halted /\ p_flags[TTY] = {} /\ tty_pc = "receive" /\ msg_receive(TTY, ANY) /\ tty_pc' = "dispatch"
      /\ UNCHANGED <<session, prog, kb_in, key_pressed, typed, current_tty, ring, req, tty_p, fsVars>>
  BY DEF TtyReceive, TtyAt, Running
<1>2. IInv /\ Fields /\ Traffic /\ Turn /\ Content /\ Calls
  BY DEF Core
<1>3. ANY \in Sources \ {TTY}
  BY Constants
<1>4. /\ IInv' /\ ~halted'
      /\ TookInterrupt(TTY, ANY) \/ (\E from \in Procs \ {TTY} : TookFrom(TTY, ANY, from)) \/ WaitsFor(TTY, ANY)
  BY <1>1, <1>2, <1>3, Receives, Constants
<1>5. Fields' /\ Noticed'
  BY <1>1, <1>2 DEF Core, Fields, Keys, Noticed, fsVars
<1>6. fs_pc' = fs_pc /\ fs_src' = fs_src /\ session' = session /\ prog' = prog
  BY <1>1 DEF fsVars
<1>7. \A x \in Users, t \in Ttys : (HeldAt(x, t)' <=> HeldAt(x, t))
  BY <1>1 DEF HeldAt
<1>8. /\ ~FsAwaits /\ ~TtyTook /\ ~TtyAnswers /\ ~TtyResumes /\ ~TtyAnswers' /\ ~TtyResumes'
      /\ \A x \in Users : ~Resuming(x) /\ ~Resuming(x)'
  BY <1>1, <1>2 DEF Turn, TtyTook, TtyAnswers, TtyResumes, Resuming
<1>9. CASE TookInterrupt(TTY, ANY) \/ WaitsFor(TTY, ANY)
  <2>1. /\ \A x \in Procs \ {TTY} : SameEntry(x)
        /\ \/ p_flags'[TTY] = {} /\ buf'[TTY].body = HARD_INT
           \/ p_flags'[TTY] = {"RECEIVING"} /\ p_recvfrom'[TTY] = ANY
    BY <1>9 DEF TookInterrupt, WaitsFor
  <2>2. SameEntry(FS) /\ \A x \in Users : SameEntry(x)
    BY <2>1, Constants
  <2>3. Traffic'
    BY <1>1, <1>2, <1>6, <2>1, <2>2, Constants DEF Traffic, SameEntry
  <2>4. ~TtyTook'
    BY <2>1 DEF TtyTook
  <2>5. Turn'
    BY <1>1, <1>8, <2>2, <2>4, FsStill DEF Turn
  <2>6. Content'
    BY <1>1, <1>2, <1>6, <1>8, <2>2, <2>4, FsStill DEF Content, SameEntry, Asking, Forwarded
  <2>7. Suspending' <=> Suspending
    BY <1>1, <1>6, <1>8, <2>2, FsStill DEF Suspending
  <2>8. \A x \in Users : (FsHas(x)' <=> FsHas(x))
    BY <1>1, <1>6, <2>2, <2>7, FsStill DEF FsHas
  <2>9. \A x \in Users : CallOf(x)' /\ (Asked(x)' <=> Asked(x))
    BY <1>2, <1>6, <1>7, <1>8, <2>2, <2>8, CallStays DEF Calls, SameEntry
  <2>10. InHand'
    BY <1>1, <1>2, <1>6, <2>2, <2>9, FsStill DEF Calls, InHand
  <2>11. QED
    BY <1>4, <1>5, <2>3, <2>5, <2>6, <2>9, <2>10 DEF TtyInv, Core, Calls
<1>10. ASSUME NEW from \in Procs \ {TTY}, TookFrom(TTY, ANY, from)
       PROVE  TtyInv'
  <2>1. /\ p_flags[from] = {"SENDING"} /\ p_sendto[from] = TTY
        /\ p_flags'[from] = {} /\ has_int_msg'[from] = has_int_msg[from] /\ buf'[from] = buf[from]
        /\ p_flags'[TTY] = {} /\ buf'[TTY] = buf[from]
        /\ \A x \in Procs \ {TTY, from} : SameEntry(x)
    BY <1>10 DEF TookFrom
  <2>2. from = FS /\ FsAsks
    <3>1. from = FS
      BY <1>2, <2>1, Constants DEF Traffic
    <3>2. ~(fs_pc = "receive" /\ p_sendto[FS] = fs_src)
      BY <1>2, <2>1, <3>1, Constants DEF Calls, InHand, FsReplies
    <3>3. QED
      BY <1>2, <2>1, <3>1, <3>2 DEF Traffic, FsAsks
  <2>3. \A x \in Users : SameEntry(x)
    BY <2>1, <2>2, Constants
  <2>4. Traffic'
    BY <1>1, <1>2, <1>6, <2>1, <2>2, <2>3, Constants DEF Traffic, SameEntry
  <2>5. buf'[TTY].source = FS /\ Forwarded(buf[TTY].body)' /\ TtyTook'
    <3>1. buf[FS].source = FS /\ Forwarded(buf[FS].body)
      BY <1>2, <2>2 DEF Content
    <3>2. buf'[TTY].source = FS /\ Forwarded(buf[TTY].body)'
      BY <1>6, <2>1, <2>2, <3>1 DEF Forwarded
    <3>3. buf'[TTY].body # HARD_INT
      BY <2>1, <2>2, <3>1, Constants DEF Forwarded
    <3>4. QED
      BY <1>1, <2>1, <3>2, <3>3 DEF TtyTook
  <2>6. fs_pc = "await" /\ FsAwaits' /\ ~FsTook' /\ ~FsAsks' /\ ~FsReplies' /\ ~FsTook /\ ~FsReplies
    BY <1>6, <2>1, <2>2 DEF FsAwaits, FsTook, FsReplies, FsAsks
  <2>7. Turn'
    BY <1>8, <2>5, <2>6 DEF Turn
  <2>8. Content'
    <3>1. ASSUME NEW x \in Users, p_flags'[x] = {"SENDING"}
          PROVE  buf'[x].source = x /\ Asking(x, buf[x].body)'
      BY <1>2, <1>6, <2>3, <3>1 DEF Content, SameEntry, Asking
    <3>2. QED
      BY <1>6, <1>8, <2>5, <2>6, <3>1 DEF Content
  <2>9. ~Suspending /\ ~Suspending'
    BY <1>6, <1>8, <2>6 DEF Suspending
  <2>10. \A x \in Users : (FsHas(x)' <=> FsHas(x))
    BY <1>6, <2>6, <2>9 DEF FsHas
  <2>11. \A x \in Users : CallOf(x)' /\ (Asked(x)' <=> Asked(x))
    BY <1>2, <1>6, <1>7, <1>8, <2>3, <2>10, CallStays DEF Calls, SameEntry
  <2>12. InHand'
    BY <1>2, <1>6, <2>6, <2>11 DEF Calls, InHand
  <2>13. QED
    BY <1>4, <1>5, <2>4, <2>7, <2>8, <2>11, <2>12 DEF TtyInv, Core, Calls
<1>11. QED
  BY <1>4, <1>9, <1>10

\* FS is in hand of the call TTY has: it does not send, so TTY's answer makes no circle.
LEMMA TookCall ==
    ASSUME Core, ~halted, TtyTook, NEW b \in Bodies, msg_send(TTY, buf[TTY].source, b)
    PROVE  /\ buf[TTY].source = FS /\ Forwarded(buf[TTY].body) /\ fs_src \in Users
           /\ IInv' /\ ~halted' /\ FsAwaits /\ FsHas(fs_src) /\ ~Suspending
           /\ \A x \in Users : (FsHas(x) <=> x = fs_src)
           /\ \A x \in Users : SameEntry(x)
           /\ has_int_msg'[FS] = has_int_msg[FS]
           /\ \/ /\ p_flags[FS] = {"RECEIVING"} /\ fs_pc = "answer"
                 /\ p_flags'[FS] = {} /\ buf'[FS].body = b /\ p_flags'[TTY] = {}
              \/ /\ fs_pc = "await" /\ SameEntry(FS) /\ p_flags[FS] = {}
                 /\ p_flags'[TTY] = {"SENDING"} /\ p_sendto'[TTY] = FS
                 /\ buf'[TTY].body = b
<1>1. IInv /\ Fields /\ Traffic /\ Turn /\ Content /\ Calls
  BY DEF Core
<1>2. p_flags[TTY] = {} /\ tty_pc = "dispatch" /\ FsAwaits /\ buf[TTY].source = FS /\ Forwarded(buf[TTY].body)
  BY <1>1 DEF TtyTook, Turn, Content
<1>3. fs_src \in Users /\ fs_pc \in {"await", "answer"} /\ p_flags[FS] # {"SENDING"}
  BY <1>1, <1>2 DEF FsAwaits, Calls, InHand
<1>4. ~TtyAnswers /\ ~Suspending /\ ~FsTook /\ ~FsReplies
  BY <1>2 DEF TtyAnswers, Suspending, FsAwaits, FsTook, FsReplies
<1>5. \A x \in Users : (FsHas(x) <=> x = fs_src)
  BY <1>3, <1>4 DEF FsHas
<1>6. IInv' /\ (Panics \/ Delivered(TTY, FS, b) \/ Queued(TTY, FS, b))
  BY <1>1, <1>2, Sends, Constants
<1>7. ~Panics
  <2>1. ~Sending(FS)
    BY <1>1, <1>3, Blocked, Constants
  <2>2. QED
    BY <1>2, <2>1, PanicsInCircle, Constants DEF Panics
<1>8. CASE Delivered(TTY, FS, b)
  <2>1. p_flags[FS] = {"RECEIVING"} /\ fs_pc = "answer"
    BY <1>2, <1>8 DEF Delivered, FsAwaits
  <2>2. QED
    BY <1>2, <1>3, <1>4, <1>5, <1>6, <1>8, <2>1, Constants DEF Delivered
<1>9. CASE Queued(TTY, FS, b)
  <2>1. p_flags[FS] # {"RECEIVING"}
    BY <1>1, <1>2, <1>9 DEF Queued, Traffic, FsAwaits
  <2>2. fs_pc = "await" /\ p_flags[FS] = {}
    BY <1>2, <2>1 DEF FsAwaits
  <2>3. SameEntry(FS)
    BY <1>9, Constants DEF Queued
  <2>4. QED
    BY <1>2, <1>3, <1>4, <1>5, <1>6, <1>9, <2>2, <2>3, Constants DEF Queued, SameEntry
<1>10. QED
  BY <1>6, <1>7, <1>8, <1>9

\* The answer is FS's, or waits for FS.
LEMMA AnswerKeeps ==
    ASSUME Core, ~halted, TtyTook, NEW b \in TtyBodies, b.type \in {"SUSPEND_PROC", "SYSCALL_RET"},
           msg_send(TTY, buf[TTY].source, b), tty_pc' = "enter", Fields',
           UNCHANGED <<session, prog, kb_in, key_pressed, current_tty, tty_p, fsVars>>
    PROVE  /\ IInv' /\ ~halted' /\ Traffic' /\ Turn' /\ Content' /\ InHand' /\ Noticed'
           /\ Suspending' <=> b.type = "SUSPEND_PROC"
           /\ \A x \in Users : /\ FsHas(x)' <=> x = fs_src /\ ~Suspending'
                               /\ ~Resuming(x) /\ ~Resuming(x)'
                               /\ p_flags'[x] = p_flags[x]
<1>1. /\ Fields /\ Traffic /\ Turn /\ Content /\ Calls /\ b \in Bodies
      /\ tty_pc = "dispatch" /\ p_flags[TTY] = {}
  BY Constants DEF Core, TtyTook
<1>2. /\ IInv' /\ ~halted' /\ FsAwaits /\ fs_src \in Users
      /\ \A x \in Users : SameEntry(x)
      /\ has_int_msg'[FS] = has_int_msg[FS]
      /\ \/ /\ p_flags[FS] = {"RECEIVING"} /\ fs_pc = "answer"
            /\ p_flags'[FS] = {} /\ buf'[FS].body = b /\ p_flags'[TTY] = {}
         \/ /\ fs_pc = "await" /\ SameEntry(FS) /\ p_flags[FS] = {}
            /\ p_flags'[TTY] = {"SENDING"} /\ p_sendto'[TTY] = FS
            /\ buf'[TTY].body = b
  BY <1>1, TookCall
<1>3. fs_pc' = fs_pc /\ fs_src' = fs_src /\ session' = session /\ prog' = prog
  BY DEF fsVars
<1>4. Traffic'
  BY <1>1, <1>2, <1>3, Constants DEF Traffic, SameEntry
<1>5. ~TtyTook' /\ ~TtyResumes' /\ ~TtyResumes
  BY <1>1 DEF TtyTook, TtyResumes
<1>6. /\ ~FsTook' /\ ~FsAsks' /\ ~FsReplies'
      /\ FsAwaits' <=> p_flags'[TTY] = {"SENDING"}
      /\ TtyAnswers' <=> p_flags'[TTY] = {"SENDING"}
  BY <1>2, <1>3 DEF FsTook, FsAsks, FsReplies, FsAwaits, TtyAnswers, SameEntry
<1>7. Turn'
  BY <1>2, <1>3, <1>5, <1>6 DEF Turn
<1>8. Content'
  <2>1. ASSUME NEW x \in Users, p_flags'[x] = {"SENDING"}
        PROVE  buf'[x].source = x /\ Asking(x, buf[x].body)'
    BY <1>1, <1>2, <1>3, <2>1 DEF Content, SameEntry, Asking
  <2>2. TtyAnswers' => buf'[TTY].body = b
    BY <1>2, <1>6
  <2>3. fs_pc' = "answer" /\ p_flags'[FS] = {} => buf'[FS].body \in TtyBodies
    BY <1>2, <1>3
  <2>4. QED
    BY <1>5, <1>6, <2>1, <2>2, <2>3 DEF Content
<1>9. Suspending' <=> b.type = "SUSPEND_PROC"
  BY <1>2, <1>3, <1>6 DEF Suspending
<1>10. \A x \in Users : (Asked(x)' <=> Asked(x)) /\ p_flags'[x] = p_flags[x]
  BY <1>2, <1>3 DEF Asked, SameEntry
<1>11. InHand'
  BY <1>1, <1>2, <1>3, <1>6, <1>10 DEF Calls, InHand
<1>12. \A x \in Users : ~Resuming(x) /\ ~Resuming(x)'
  BY <1>5 DEF Resuming
<1>13. \A x \in Users : FsHas(x)' <=> x = fs_src /\ ~Suspending'
  BY <1>2, <1>3, <1>6 DEF FsHas
<1>14. Noticed'
  BY <1>1 DEF Core, Noticed
<1>15. QED
  BY <1>2, <1>4, <1>7, <1>8, <1>9, <1>10, <1>11, <1>12, <1>13, <1>14

\* tty_do_write and DEV_OPEN: FS has the answer, or waits for it.
LEMMA tty_do_writeKeeps ==
    ASSUME Core, tty_do_write, session' = session
    PROVE  TtyInv'
<1> DEFINE b == [buf[TTY].body EXCEPT !.type = "SYSCALL_RET"]
<1>1. /\ ~halted /\ p_flags[TTY] = {} /\ tty_pc = "dispatch" /\ buf[TTY].body # HARD_INT
      /\ msg_send(TTY, buf[TTY].source, b) /\ tty_pc' = "enter"
      /\ UNCHANGED <<session, prog, kb_in, key_pressed, typed, current_tty, ring, req, tty_p, fsVars>>
  BY DEF tty_do_write, Requested, TtyAt, Running
<1>2. TtyTook /\ Fields /\ Content /\ Calls
  BY <1>1 DEF Core, TtyTook
<1>3. b \in TtyBodies /\ b.type = "SYSCALL_RET"
  BY <1>2, Retyped DEF Content, Forwarded, BodyTypes
<1>4. b \in Bodies
  BY <1>3, Constants
<1> HIDE DEF b
<1>5. \A x \in Users : (FsHas(x) <=> x = fs_src)
  BY <1>1, <1>2, <1>4, TookCall
<1>6. Fields'
  BY <1>1, <1>2 DEF Fields, Keys, fsVars
<1>7. /\ IInv' /\ ~halted' /\ Traffic' /\ Turn' /\ Content' /\ InHand' /\ Noticed'
      /\ Suspending' <=> b.type = "SUSPEND_PROC"
      /\ \A x \in Users : /\ FsHas(x)' <=> x = fs_src /\ ~Suspending'
                          /\ ~Resuming(x) /\ ~Resuming(x)'
                          /\ p_flags'[x] = p_flags[x]
  BY <1>1, <1>2, <1>3, <1>6, AnswerKeeps
<1>8. \A x \in Users : (FsHas(x)' <=> FsHas(x)) /\ (Resuming(x)' <=> Resuming(x))
  BY <1>3, <1>5, <1>7
<1>9. \A x \in Users, t \in Ttys : (HeldAt(x, t)' <=> HeldAt(x, t))
  BY <1>1 DEF HeldAt
<1>10. \A x \in Users : CallOf(x)'
  BY <1>1, <1>2, <1>7, <1>8, <1>9, CallStays DEF Calls
<1>11. QED
  BY <1>6, <1>7, <1>10 DEF TtyInv, Core, Calls

\* tty_do_read: the terminal holds the read that FS had.  A read it held of another program
\* is lost; so is none when each terminal is used by one program.
LEMMA tty_do_readKeeps ==
    ASSUME Core, tty_do_read, session' = session
    PROVE  TtyInv'
<1> DEFINE m == buf[TTY].body
           b == [m EXCEPT !.type = "SUSPEND_PROC"]
           r == [proc2tty |-> m.proc, reqed_cnt |-> m.cnt, sended_cnt |-> 0]
<1>1. /\ ~halted /\ p_flags[TTY] = {} /\ tty_pc = "dispatch" /\ buf[TTY].body # HARD_INT
      /\ msg_send(TTY, buf[TTY].source, b) /\ tty_pc' = "enter"
      /\ req' = [req EXCEPT ![m.dev] = r]
      /\ UNCHANGED <<session, prog, kb_in, key_pressed, typed, current_tty, ring, tty_p, fsVars>>
  BY DEF tty_do_read, Requested, TtyAt, Running
<1>2. TtyTook /\ Fields /\ Content /\ Calls
  BY <1>1 DEF Core, TtyTook
<1>3. Forwarded(m) /\ m \in TtyBodies
  BY <1>2 DEF Content, Forwarded
<1>4. b \in TtyBodies /\ b.type = "SUSPEND_PROC"
  BY <1>3, Retyped DEF BodyTypes
<1>5. b \in Bodies
  BY <1>4, Constants
<1>6. PICK v \in Users : v = fs_src /\ m.proc = v
  BY <1>1, <1>2, <1>3, <1>5, TookCall DEF Forwarded
<1>7. PICK d \in Ttys : d = m.dev /\ <<v, d>> \in session.uses
  BY <1>3, <1>6, BodyHas DEF Forwarded
<1>8. \A x \in Users : (FsHas(x) <=> x = v)
  BY <1>1, <1>2, <1>5, <1>6, TookCall
<1>9. m.cnt \in Nat /\ m.cnt > 0 /\ m.cnt <= MaxCount /\ MaxCount \in Nat
  BY <1>3, Lengths DEF Forwarded
<1>10. r \in Requests /\ r.proc2tty = v /\ r.reqed_cnt = m.cnt /\ r.sended_cnt = 0
  BY <1>6, <1>9 DEF Requests
<1> HIDE DEF b, m, r
<1>11. /\ req' \in [Ttys -> Requests] /\ req'[d] = r
       /\ \A t \in Ttys \ {d} : req'[t] = req[t]
  BY <1>1, <1>2, <1>7, <1>10 DEF Fields
<1>12. Fields'
  <2>1. ASSUME NEW t \in Ttys
        PROVE  /\ req'[t].reqed_cnt + req'[t].sended_cnt <= MaxCount
               /\ req'[t].reqed_cnt > 0 => req'[t].proc2tty \in Users
    <3>1. CASE t = d
      BY <1>9, <1>10, <1>11, <3>1
    <3>2. CASE t # d
      BY <1>2, <1>11, <3>2 DEF Fields
    <3>3. QED
      BY <3>1, <3>2
  <2>2. QED
    BY <1>1, <1>2, <1>11, <2>1 DEF Fields, Keys, fsVars
<1>13. /\ IInv' /\ ~halted' /\ Traffic' /\ Turn' /\ Content' /\ InHand' /\ Noticed'
       /\ Suspending' <=> b.type = "SUSPEND_PROC"
       /\ \A x \in Users : /\ FsHas(x)' <=> x = fs_src /\ ~Suspending'
                           /\ ~Resuming(x) /\ ~Resuming(x)'
                           /\ p_flags'[x] = p_flags[x]
  BY <1>1, <1>2, <1>4, <1>12, AnswerKeeps
<1>14. \A x \in Users : ~FsHas(x)' /\ (Asked(x)' <=> Asked(x))
  BY <1>1, <1>4, <1>13 DEF Asked
<1>15. \A x \in Users : HeldAt(x, d)' <=> x = v
  BY <1>1, <1>9, <1>10, <1>11 DEF HeldAt
<1>16. \A x \in Users, t \in Ttys \ {d} : (HeldAt(x, t)' <=> HeldAt(x, t))
  BY <1>1, <1>11 DEF HeldAt
<1>17. ASSUME NEW x \in Users
       PROVE  CallOf(x)'
  <2>1. /\ prog'[x] = prog[x] /\ session' = session /\ p_flags'[x] = p_flags[x]
        /\ (OwnTerminals' <=> OwnTerminals) /\ CallOf(x)
    BY <1>1, <1>2, <1>13 DEF Calls, OwnTerminals
  <2>2. CASE x = v
    <3>1. FsHas(v) /\ Asked(v) /\ \A t \in Ttys : ~HeldAt(v, t)
      BY <1>8, <2>1, <2>2 DEF CallOf
    <3>2. HeldAt(v, d)' /\ \A t \in Ttys : HeldAt(v, t)' => t = d
      BY <1>15, <1>16, <3>1
    <3>3. QED
      BY <1>7, <1>13, <1>14, <2>1, <2>2, <3>1, <3>2 DEF CallOf
  <2>3. CASE x # v
    <3>1. \A t \in Ttys : HeldAt(x, t)' => HeldAt(x, t)
      BY <1>15, <1>16, <2>3
    <3>2. ASSUME OwnTerminals', Asked(x)'
          PROVE  \E t \in Ttys : HeldAt(x, t)'
      <4>1. PICK t \in Ttys : HeldAt(x, t)
        BY <1>8, <1>13, <1>14, <2>1, <2>3, <3>2 DEF CallOf
      <4>2. <<x, t>> \in session.uses
        BY <2>1, <4>1 DEF CallOf
      <4>3. t # d
        BY <1>7, <2>1, <2>3, <3>2, <4>2 DEF OwnTerminals
      <4>4. QED
        BY <1>16, <4>1, <4>3
    <3>3. QED
      BY <1>13, <1>14, <2>1, <3>1, <3>2 DEF CallOf
  <2>4. QED
    BY <2>2, <2>3
<1>18. QED
  BY <1>12, <1>13, <1>17 DEF TtyInv, Core, Calls

\* tty_write completes a line: FS has the word to resume its reader, or waits for it.  TTY
\* and FS only meet in their SENDs when FS has the call of another program.
LEMMA WriteLineKeeps ==
    ASSUME Core, WriteLine, session' = session
    PROVE  TtyInv'
<1> DEFINE ch == Head(ring[tty_p])
           r == req[tty_p]
           tr == Taken(r, ch)
           b == Body("RESUME_PROC", tty_p, r.proc2tty, tr.sended_cnt)
<1>1. /\ ~halted /\ p_flags[TTY] = {} /\ tty_pc = "write" /\ ring[tty_p] # << >>
      /\ ring' = [ring EXCEPT ![tty_p] = Tail(@)] /\ r.reqed_cnt # 0
      /\ req' = [req EXCEPT ![tty_p] = tr] /\ msg_send(TTY, FS, b) /\ tty_pc' = "resumed"
      /\ UNCHANGED <<session, prog, kb_in, key_pressed, typed, current_tty, tty_p, fsVars>>
  BY DEF WriteLine, TtyAt, Running
<1>2. IInv /\ Fields /\ Traffic /\ Turn /\ Content /\ Calls
  BY DEF Core
<1>3. /\ req \in [Ttys -> Requests] /\ tty_p \in Ttys /\ r \in Requests
      /\ r.reqed_cnt + r.sended_cnt <= MaxCount /\ r.reqed_cnt > 0
      /\ r.proc2tty \in Users
  BY <1>1, <1>2, Lengths DEF Fields, Requests
<1>4. tr \in Requests /\ tr.proc2tty = r.proc2tty /\ tr.reqed_cnt + tr.sended_cnt <= MaxCount
  BY <1>3, TakenOf
<1>5. PICK d \in Ttys, v \in Users : d = tty_p /\ v = r.proc2tty
  BY <1>3
<1>6. /\ b \in TtyBodies /\ b.type = "RESUME_PROC" /\ b.proc = v
  <2>1. tr.sended_cnt \in 0 .. MaxCount
    BY <1>4 DEF Requests
  <2>2. QED
    BY <1>3, <1>5, <2>1, BodyIs DEF BodyTypes
<1>7. b \in Bodies
  BY <1>6, Constants
<1>8. HeldAt(v, d)
  BY <1>1, <1>3, <1>5 DEF HeldAt
<1>9. Asked(v) /\ ~FsHas(v) /\ \A t \in Ttys : HeldAt(v, t) => t = d
  BY <1>2, <1>8 DEF Calls, CallOf
<1> HIDE DEF b, tr, r, ch
<1>10. /\ req' \in [Ttys -> Requests] /\ req'[d] = tr /\ req'[d].proc2tty = v
       /\ \A t \in Ttys \ {d} : req'[t] = req[t]
  BY <1>1, <1>3, <1>4, <1>5
<1>11. Fields'
  <2>1. ASSUME NEW t \in Ttys
        PROVE  /\ req'[t].reqed_cnt + req'[t].sended_cnt <= MaxCount
               /\ req'[t].reqed_cnt > 0 => req'[t].proc2tty \in Users
    <3>1. CASE t = d
      BY <1>4, <1>10, <3>1
    <3>2. CASE t # d
      BY <1>2, <1>10, <3>2 DEF Fields
    <3>3. QED
      BY <3>1, <3>2
  <2>2. tty_p' = d /\ req'[tty_p'].proc2tty \in Users
    BY <1>1, <1>5, <1>10
  <2>3. ring' \in [Ttys -> Seq(Keys')] /\ \A t \in Ttys : Len(ring'[t]) <= TTY_BUFFER_SIZE
    BY <1>1, <1>2, CharTaken
  <2>4. QED
    BY <1>1, <1>2, <1>10, <2>1, <2>2, <2>3 DEF Fields, Keys, fsVars
<1>12. Noticed'
  BY <1>1 DEF Core, Noticed, Reachable
<1>13. IInv' /\ (Panics \/ Delivered(TTY, FS, b) \/ Queued(TTY, FS, b))
  BY <1>1, <1>2, <1>7, Sends, Constants
<1>14. fs_pc' = fs_pc /\ fs_src' = fs_src /\ session' = session /\ prog' = prog /\ tty_p' = d /\ tty_p = d
  BY <1>1, <1>5 DEF fsVars
<1>15. /\ ~TtyTook /\ ~TtyAnswers /\ ~TtyResumes /\ ~TtyTook' /\ ~TtyAnswers'
       /\ ~FsAwaits /\ \A x \in Users : ~Resuming(x)
  BY <1>1, <1>2 DEF Turn, TtyTook, TtyAnswers, TtyResumes, Resuming
<1>16. CASE Panics
  <2>1. Sending(FS) /\ p_sendto[FS] \in Procs => p_sendto[FS] = TTY \/ Sending(p_sendto[FS])
    BY <1>1, <1>16, PanicsInCircle, Constants DEF Panics
  <2>2. Sending(FS)
    BY <1>1, <1>16, PanicsInCircle, Constants DEF Panics
  <2>3. FsAsks \/ (FsReplies /\ p_sendto[FS] = fs_src)
    BY <1>2, <2>2, Blocked, Constants DEF Traffic, FsAsks, FsReplies
  <2>4. fs_src \in Users /\ Asked(fs_src)
    BY <1>2, <2>3 DEF Calls, InHand, FsAsks
  <2>5. ~FsReplies
    <3>1. ~Sending(fs_src) /\ fs_src \in Procs /\ fs_src # TTY
      BY <2>4, Constants DEF Asked, Sending
    <3>2. FsReplies => p_sendto[FS] = fs_src
      BY <1>2 DEF FsReplies, Traffic
    <3>3. QED
      BY <2>1, <2>2, <3>1, <3>2
  <2>6. FsHas(fs_src)
    BY <1>15, <2>3, <2>5 DEF FsAsks, FsHas, Suspending
  <2>7. fs_src # v
    BY <1>9, <2>6
  <2>8. QED
    BY <1>9, <1>11, <1>14, <1>16, <2>4, <2>7, PanicKeeps
<1>17. ASSUME NEW x \in Users, \A y \in Users : SameEntry(y), p_flags'[x] = {"SENDING"}
       PROVE  buf'[x].source = x /\ Asking(x, buf[x].body)'
  BY <1>2, <1>14, <1>17 DEF Content, SameEntry, Asking
<1>18. \A x \in Users, t \in Ttys : HeldAt(x, t)' <=> HeldAt(x, t) /\ t # d
  BY <1>1, <1>10, <1>14 DEF HeldAt
<1>19. ASSUME \A x \in Users : SameEntry(x),
              \A x \in Users : (FsHas(x)' <=> FsHas(x) \/ (x = v /\ ~TtyResumes')),
              FsReplies' => FsReplies
       PROVE  InHand' /\ \A x \in Users : CallOf(x)'
  <2>1. \A x \in Users : (Resuming(x)' <=> x = v /\ TtyResumes')
    BY <1>10, <1>14 DEF Resuming
  <2>2. ASSUME NEW x \in Users
        PROVE  CallOf(x)' /\ (Asked(x)' <=> Asked(x))
    <3>1. /\ prog'[x] = prog[x] /\ session' = session /\ p_flags'[x] = p_flags[x]
          /\ (OwnTerminals' <=> OwnTerminals) /\ CallOf(x)
      BY <1>2, <1>14, <1>19 DEF Calls, OwnTerminals, SameEntry
    <3>2. Asked(x)' <=> Asked(x)
      BY <3>1 DEF Asked
    <3>3. CASE x = v
      <4>1. Asked(x)' /\ (FsHas(x)' <=> ~TtyResumes') /\ (Resuming(x)' <=> TtyResumes')
        BY <1>9, <1>19, <2>1, <3>2, <3>3
      <4>2. \A t \in Ttys : ~HeldAt(x, t)'
        BY <1>9, <1>18, <3>3
      <4>3. prog'[x] # "user" /\ \E t \in Ttys : <<x, t>> \in session'.uses
        BY <1>9, <3>1, <3>3 DEF CallOf, Asked
      <4>4. QED
        BY <3>2, <4>1, <4>2, <4>3 DEF CallOf
    <3>4. CASE x # v
      <4>1. ~HeldAt(x, d)
        BY <1>5, <3>4 DEF HeldAt, r
      <4>2. \A t \in Ttys : (HeldAt(x, t)' <=> HeldAt(x, t))
        BY <1>18, <4>1
      <4>3. (FsHas(x)' <=> FsHas(x)) /\ (Resuming(x)' <=> Resuming(x))
        BY <1>15, <1>19, <2>1, <3>4
      <4>4. QED
        BY <3>1, <4>2, <4>3, CallStays
    <3>5. QED
      BY <3>3, <3>4
  <2>3. InHand'
    BY <1>2, <1>14, <1>19, <2>2 DEF Calls, InHand
  <2>4. QED
    BY <2>2, <2>3
<1>20. CASE Delivered(TTY, FS, b)
  <2>1. /\ p_flags[FS] = {"RECEIVING"}
        /\ p_flags'[FS] = {} /\ has_int_msg'[FS] = has_int_msg[FS]
        /\ buf'[FS] = [source |-> TTY, body |-> b]
        /\ p_flags'[TTY] = {} /\ ~halted'
        /\ \A x \in Procs \ {TTY, FS} : SameEntry(x)
    BY <1>20 DEF Delivered
  <2>2. \A x \in Users : SameEntry(x)
    BY <2>1, Constants
  <2>3. fs_pc = "dispatch"
    BY <1>2, <1>15, <2>1 DEF Traffic, FsAwaits
  <2>4. Traffic'
    BY <1>1, <1>2, <1>14, <2>1, <2>2, Constants DEF Traffic, SameEntry
  <2>5. ~TtyResumes' /\ FsTook' /\ ~FsAwaits' /\ ~FsAsks' /\ ~FsReplies' /\ ~FsReplies /\ ~FsTook
    BY <1>14, <2>1, <2>3 DEF TtyResumes, FsTook, FsAwaits, FsAsks, FsReplies
  <2>6. buf'[FS].body = b
    BY <2>1
  <2>7. Asker' = v
    BY <1>6, <2>6 DEF Asker
  <2>8. Turn'
    BY <1>15, <2>5 DEF Turn
  <2>9. Content'
    BY <1>6, <1>14, <1>15, <1>17, <2>2, <2>3, <2>5, <2>6 DEF Content
  <2>10. \A x \in Users : (FsHas(x)' <=> FsHas(x) \/ (x = v /\ ~TtyResumes'))
    BY <1>14, <2>3, <2>5, <2>7 DEF FsHas
  <2>11. InHand' /\ \A x \in Users : CallOf(x)'
    BY <1>19, <2>2, <2>5, <2>10
  <2>12. QED
    BY <1>11, <1>12, <1>13, <2>1, <2>4, <2>8, <2>9, <2>11 DEF TtyInv, Core, Calls
<1>21. CASE Queued(TTY, FS, b)
  <2>1. /\ p_flags'[TTY] = {"SENDING"} /\ p_sendto'[TTY] = FS
        /\ buf'[TTY] = [source |-> TTY, body |-> b] /\ ~halted'
        /\ \A x \in Procs \ {TTY} : SameEntry(x)
    BY <1>21 DEF Queued
  <2>2. SameEntry(FS) /\ \A x \in Users : SameEntry(x)
    BY <2>1, Constants
  <2>3. Traffic'
    <3>1. \A x \in Users : /\ p_flags'[x] = {"SENDING"} => prog'[x] = "recv" /\ p_sendto'[x] = FS
                           /\ p_flags'[x] = {"RECEIVING"} => prog'[x] = "ret" /\ p_recvfrom'[x] = FS
      BY <1>2, <1>14, <2>2 DEF Traffic, SameEntry
    <3>2. \A p \in Procs \ {TTY} : has_int_msg'[p] = FALSE
      BY <1>2, <2>1 DEF Traffic, SameEntry
    <3>3. p_flags'[FS] = p_flags[FS] /\ p_sendto'[FS] = p_sendto[FS] /\ p_recvfrom'[FS] = p_recvfrom[FS]
      BY <2>2 DEF SameEntry
    <3>4. QED
      BY <1>1, <1>2, <1>14, <2>1, <3>1, <3>2, <3>3 DEF Traffic
  <2>4. TtyResumes' /\ buf'[TTY].body = b
    BY <1>1, <2>1 DEF TtyResumes
  <2>5. UNCHANGED fsVars
    BY <1>1
  <2>6. Turn'
    BY <1>15, <2>2, <2>5, FsStill DEF Turn
  <2>7. Content'
    BY <1>2, <1>6, <1>10, <1>14, <1>15, <1>17, <2>2, <2>4, <2>5, FsStill DEF Content, Asking, Forwarded
  <2>8. Suspending' <=> Suspending
    BY <1>14, <1>15, <2>2, <2>5, FsStill DEF Suspending
  <2>9. \A x \in Users : (FsHas(x)' <=> FsHas(x) \/ (x = v /\ ~TtyResumes'))
    BY <1>14, <2>2, <2>4, <2>5, <2>8, FsStill DEF FsHas
  <2>10. InHand' /\ \A x \in Users : CallOf(x)'
    BY <1>19, <2>2, <2>5, <2>9, FsStill
  <2>11. QED
    BY <1>11, <1>12, <1>13, <2>1, <2>3, <2>6, <2>7, <2>10 DEF TtyInv, Core, Calls
<1>22. QED
  BY <1>13, <1>16, <1>20, <1>21

(***************************************************************************)
(* The theorems                                                            *)
(***************************************************************************)

\* Every step of a program, of FS, of TTY and of the interrupts keeps the invariant.
LEMMA TtyStepKeeps == TtyInv /\ [TtyNext]_allVars => TtyInv'
<1> SUFFICES ASSUME TtyInv, [TtyNext]_allVars
             PROVE  TtyInv'
  OBVIOUS
<1>1. CASE UNCHANGED allVars
  <2>1. /\ UNCHANGED <<session, prog>> /\ UNCHANGED vars
        /\ UNCHANGED <<kb_in, key_pressed, typed, current_tty, ring, req, tty_pc, tty_p>>
        /\ UNCHANGED fsVars /\ UNCHANGED <<fs_pc, fs_src>>
    BY <1>1 DEF allVars, ipcVars, ttyVars, fsVars
  <2>2. CASE halted
    BY <2>1, <2>2 DEF TtyInv, TtyTypeOK, Alone, vars
  <2>3. CASE ~halted
    <3>1. /\ \A p \in Procs : SameEntry(p)
          /\ SameEntry(TTY) /\ SameEntry(FS) /\ TtyStill /\ halted' = halted
      BY <2>1, Constants DEF vars, SameEntry, TtyStill
    <3>2. IInv' /\ Fields' /\ Noticed' /\ Core
      BY <2>1, <2>3, <3>1, TableStays, NoticedStill DEF TtyInv, Core, Fields, Keys
    <3>3. /\ TtyTook' <=> TtyTook
          /\ TtyAnswers' <=> TtyAnswers
          /\ TtyResumes' <=> TtyResumes
          /\ FsAwaits' <=> FsAwaits
          /\ FsTook' <=> FsTook
          /\ FsAsks' <=> FsAsks
          /\ FsReplies' <=> FsReplies
          /\ buf' = buf
          /\ \A u \in Users : (FsHas(u)' <=> FsHas(u)) /\ (Resuming(u)' <=> Resuming(u))
      BY <2>1, <3>1, TtyEntry, FsEntry DEF vars
    <3>4. Traffic' /\ Turn' /\ Content'
      BY <2>1, <3>2, <3>3 DEF Core, Traffic, Turn, Content, Asking, Forwarded, vars
    <3>5. \A u \in Users : CallOf(u)' /\ (Asked(u)' <=> Asked(u))
      <4>1. ASSUME NEW u \in Users
            PROVE  CallOf(u)' /\ (Asked(u)' <=> Asked(u))
        <5>1. CallOf(u) /\ prog'[u] = prog[u] /\ p_flags'[u] = p_flags[u] /\ session' = session
          BY <2>1, <3>2 DEF Core, Calls, vars
        <5>2. \A t \in Ttys : (HeldAt(u, t)' <=> HeldAt(u, t))
          BY <3>1, HeldStill
        <5>3. QED
          BY <3>3, <5>1, <5>2, CallStays
      <4>2. QED
        BY <4>1
    <3>6. InHand'
      BY <2>1, <3>2, <3>3, <3>5 DEF Core, Calls, InHand
    <3>7. QED
      BY <2>3, <3>1, <3>2, <3>4, <3>5, <3>6 DEF TtyInv, Core, Calls
  <2>4. QED
    BY <2>2, <2>3
<1>2. CASE TtyNext
  <2>1. session' = session
    BY <1>2 DEF TtyNext
  <2>2. CASE halted
    BY <1>2, <2>2 DEF TtyNext, KeyPress, Tick, Call, Await, Return, FsStep, FsReceive, FsForward, FsAwait,
      FsSuspended, FsResume, FsReply, FsAt, TtyStep, Enter, ReadKey, ReadEnd, WriteChar, WriteLine, Resumed,
      WriteEnd, TtyReceive, Interrupted, tty_do_read, tty_do_write, Requested, TtyAt
  <2>3. CASE ~halted
    <3>1. Core
      BY <2>3 DEF TtyInv
    <3>2. CASE \E k \in session.keys : KeyPress(k)
      BY <2>1, <3>1, <3>2, KeyPressKeeps
    <3>3. CASE Tick
      BY <2>1, <3>1, <3>3, TickKeeps
    <3>4. CASE \E u \in Users, t \in Ttys, c \in session.calls, n \in Counts : Call(u, c, t, n)
      BY <2>1, <3>1, <3>4, CallKeeps
    <3>5. CASE \E u \in Users : Await(u) \/ Return(u)
      BY <2>1, <3>1, <3>5, AwaitKeeps, ReturnKeeps
    <3>6. CASE FsStep
      BY <2>1, <3>1, <3>6, FsReceiveKeeps, FsForwardKeeps, FsAwaitKeeps, FsSuspendedKeeps, FsResumeKeeps,
         FsReplyKeeps DEF FsStep
    <3>7. CASE TtyStep
      BY <2>1, <3>1, <3>7, EnterKeeps, ReadKeyKeeps, ReadEndKeeps, WriteCharKeeps, WriteLineKeeps, ResumedKeeps,
         WriteEndKeeps, TtyReceiveKeeps, InterruptedKeeps, tty_do_readKeeps, tty_do_writeKeeps DEF TtyStep
    <3>8. QED
      BY <1>2, <3>2, <3>3, <3>4, <3>5, <3>6, <3>7 DEF TtyNext
  <2>4. QED
    BY <2>2, <2>3
<1>3. QED
  BY <1>1, <1>2

\* The inductive invariant of the terminals holds in every state.
THEOREM TtyInvariant == TtySpec => []TtyInv
<1>1. QED
  BY TtyStarts, TtyStepKeeps, PTL DEF TtySpec

\* The rings stay within their sizes and the requests within what was asked for.
THEOREM TerminalsTypeOK == TtySpec => []TtyTypeOK
<1>1. TtyInv => TtyTypeOK
  BY TtyInvImplies
<1>2. QED
  BY TtyInvariant, <1>1, PTL

\* When TTY sleeps with keys in the keyboard's ring the next tick wakes it, wherever the
\* interrupt of the last key came (keyboard_handler, task_tty, clock_handler).
THEOREM NoKeyForgotten == TtySpec => []KeysNoticed
<1>1. TtyInv => KeysNoticed
  BY TtyInvImplies
<1>2. QED
  BY TtyInvariant, <1>1, PTL

\* FS answers only programs that are in a call, also when programs share a terminal
\* (task_fs, tty_write).
THEOREM AnswersGoToCallers == TtySpec => []AnswersCaller
<1>1. TtyInv => AnswersCaller
  BY TtyInvImplies
<1>2. QED
  BY TtyInvariant, <1>1, PTL

\* When no two programs use the same terminal, no read is dropped on its way between FS, TTY
\* and the terminal, no key is forgotten and no answer goes astray.
THEOREM NoRequestForgotten == TtySpec => [](OwnTerminals => NothingForgotten)
<1>1. TtyInv => (OwnTerminals => NothingForgotten)
  BY TtyInvImplies DEF NothingForgotten
<1>2. QED
  BY TtyInvariant, <1>1, PTL

\* As long as one program alone uses terminals, TTY's SEND in tty_write and the one of FS in
\* do_rw never meet, and the kernel does not panic.
THEOREM AloneNeverInCircle == TtySpec => []NoCircle
<1>1. TtyInv => NoCircle
  BY TtyInvImplies
<1>2. QED
  BY TtyInvariant, <1>1, PTL
================================================================================
