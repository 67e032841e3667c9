------------------------------- MODULE HdProofs -------------------------------
(***************************************************************************)
(* Proofs about the hard disk driver, for any disk, device and number of   *)
(* other processes: its answers are exact and its interrupts never stray.  *)
(*                                                                         *)
(* A request is in one place at a time (Phase).  The disk and the driver   *)
(* go through a command in step: Step says for each place of the driver    *)
(* what the disk is doing and whether its interrupt is pending, Transfer   *)
(* how much of the work is done.                                           *)
(***************************************************************************)
EXTENDS Hd, IpcProofs, FiniteSetTheorems

Polling == {"clock", "clock_recv", "round", "round_recv", "test"}
Places == Polling \cup {"receive", "dispatch", "int", "got", "entry", "reply"}

\* A request is of a whole number of sectors, at most as many as the register for them
\* can count to.
Fits == \A n \in setting.counts : n >= SECTOR_SIZE /\ n <= NSECTOR * SECTOR_SIZE

Partition == [sys_id : {"NO_PART", "ORANGE_PART", "EXT_PART"}, start : Nat, nr : Nat]
Extents == [base : Nat, size : Nat]

\* What a sector holds, or the buffer of a DEV_IOCTL.
Cells ==
    {Table(s) : s \in Tables} \cup {<<v>> : v \in Values}
    \cup (Values \X Nat) \cup (Nat \X Nat)

(***************************************************************************)
(* Types                                                                   *)
(***************************************************************************)
Fields ==
    /\ setting \in Settings /\ Fits
    /\ hd_pc \in Places /\ src \in Procs /\ msg \in HdBodies
    /\ job \in {"identify", "table", "rw"} /\ mask \in {"BSY", "DRQ"}
    /\ byte_left \in Nat /\ byte_left % SECTOR_SIZE = 0
    /\ open_cnt \in Nat /\ calls \in 0 .. setting.maxCalls /\ open_cnt <= calls
    /\ primary \in [0 .. NR_PART_PER_DRIVE -> Extents]
    /\ logical \in [0 .. NR_SUB_PER_DRIVE - 1 -> Extents]
    /\ part \in [table : {<< >>, Primary}, i : 0 .. NR_PART_PER_DRIVE + 1, s : Nat, sub : Nat]
    /\ dev \in [st : {"idle", "busy", "drq", "writing"},
                op : {"none", "ATA_IDENTIFY", "ATA_READ", "ATA_WRITE"},
                lba : Sectors, left : Nat]
    /\ disk \in [Sectors -> Cells] /\ \A s \in Tables : disk[s] = Table(s)
    /\ expect.disk \in [Sectors -> Cells]
    /\ fsbuf \in Seq(Cells) /\ expect.buf \in Seq(Cells)
    /\ sys_pc \in {"receive", "dispatch"} /\ fs_pc \in {"run", "recv"}
    /\ user_pc \in [Users -> {"run", "recv"}]

(***************************************************************************)
(* Messages: who sends to whom and waits for whom, at which place.         *)
(***************************************************************************)

\* HD has asked for the time and can only receive the answer.
HdAwaits ==
    \/ hd_pc \in {"clock_recv", "round_recv"} /\ p_flags[HD] = {}
    \/ hd_pc \in {"round", "test"} /\ p_flags[HD] = {"RECEIVING"}

HdTraffic ==
    /\ Sending(HD) => \/ hd_pc \in {"clock_recv", "round_recv"} /\ p_sendto[HD] = SYS
                      \/ hd_pc = "receive" /\ p_sendto[HD] = FS
    /\ Receiving(HD) => \/ hd_pc = "dispatch" /\ p_recvfrom[HD] = ANY
                        \/ hd_pc \in {"round", "test"} /\ p_recvfrom[HD] = SYS
                        \/ hd_pc = "got" /\ p_recvfrom[HD] = INTERRUPT

SysTraffic ==
    /\ Sending(SYS) => /\ sys_pc = "receive" /\ p_sendto[SYS] \in {HD} \cup Users
                       /\ p_sendto[SYS] = HD => HdAwaits
    /\ Receiving(SYS) => sys_pc = "dispatch" /\ p_recvfrom[SYS] = ANY
    /\ sys_pc = "dispatch" /\ Running(SYS) =>
          /\ buf[SYS].source \in {HD} \cup Users
          /\ buf[SYS].source = HD => HdAwaits

FsTraffic ==
    /\ Sending(FS) => fs_pc = "recv" /\ p_sendto[FS] = HD
    /\ Receiving(FS) => fs_pc = "run" /\ p_recvfrom[FS] = HD

UserTraffic ==
    \A u \in Users : /\ Sending(u) => user_pc[u] = "recv" /\ p_sendto[u] = SYS
                     /\ Receiving(u) => user_pc[u] = "run" /\ p_recvfrom[u] = SYS

\* What a process has to send is a request or an answer with its own name on it.
Mail ==
    /\ \A p \in Procs : Sending(p) => buf[p].source = p /\ buf[p].body \in HdBodies
    /\ \A p \in Procs \ {HD} : has_int_msg[p] = FALSE /\ buf[p].body \in HdBodies

Traffic == HdTraffic /\ SysTraffic /\ FsTraffic /\ UserTraffic /\ Mail

(***************************************************************************)
(* Where the request of FS is.                                             *)
(***************************************************************************)
FsIdle == fs_pc = "run" /\ p_flags[FS] = {}
FsAsks == fs_pc = "recv" /\ p_flags[FS] = {"SENDING"}
FsWaits ==
    \/ fs_pc = "recv" /\ p_flags[FS] = {}
    \/ fs_pc = "run" /\ p_flags[FS] = {"RECEIVING"}

HdFree ==
    \/ hd_pc = "receive" /\ p_flags[HD] = {}
    \/ hd_pc = "dispatch" /\ p_flags[HD] = {"RECEIVING"}
HdTook == hd_pc = "dispatch" /\ p_flags[HD] = {}
HdWorks == hd_pc \notin {"receive", "dispatch"}
HdAnswers == hd_pc = "receive" /\ p_flags[HD] = {"SENDING"}

Phase ==
    \/ FsIdle /\ HdFree
    \/ FsAsks /\ hd_pc = "receive" /\ p_flags[HD] = {}
    \/ FsWaits /\ HdTook
    \/ FsWaits /\ HdWorks
    \/ fs_pc = "recv" /\ p_flags[FS] = {} /\ HdAnswers

(***************************************************************************)
(* What a request asks for, and how much of it is done.                    *)
(***************************************************************************)
Request == IF FsAsks THEN buf[FS].body ELSE IF hd_pc = "dispatch" THEN buf[HD].body ELSE msg
Sects == Request.cnt \div SECTOR_SIZE
From == Place.base + Request.pos \div SECTOR_SIZE
Left == byte_left \div SECTOR_SIZE

Extent(i) == [base |-> Primary[i].start, size |-> Primary[i].nr]
Sub(i, k) == (i - 1) * NR_SUB_PER_PART + k - 1
SubExtent(i, k) == [base |-> Logical[i][k].base, size |-> Logical[i][k].size]

\* hds_info has the i-th primary partition, and the logical ones in it.
FoundIn(i) ==
    /\ Primary[i] # NoPart => primary[i] = Extent(i)
    /\ i \in DOMAIN Logical =>
          \A k \in 1 .. Len(Logical[i]) : logical[Sub(i, k)] = SubExtent(i, k)
Found == \A i \in 1 .. NR_PART_PER_DRIVE : FoundIn(i)

\* FS has made the request: where its sectors are, and what is expected of its buffer.
Asks ==
    /\ Request \in HdBodies /\ Request.type \in setting.calls
    /\ Request.pos \in setting.positions /\ Request.cnt \in setting.counts
    /\ From + Sects <= Place.base + Place.size
    /\ expect.buf =
         CASE Request.type \in {"DEV_READ", "DEV_WRITE"} ->
                [i \in 1 .. Sects |-> expect.disk[From + i - 1]]
           [] Request.type = "DEV_IOCTL" -> <<<<Place.base, Place.size>>>>
           [] OTHER -> << >>
    /\ Request.type # "DEV_OPEN" => Found
    /\ calls > 0

\* The disk is as FS expects it, but for the n sectors from s on.
DiskBut(s, n) == \A x \in Sectors : x < s \/ x >= s + n => disk[x] = expect.disk[x]

\* There is no command, and no interrupt of one.
Quiet == dev = Idle /\ ~has_int_msg[HD]

\* Nothing has been done for the request.
Untouched ==
    IF Request.type = "DEV_WRITE" THEN fsbuf = expect.buf /\ DiskBut(From, Sects)
    ELSE fsbuf = << >> /\ DiskBut(0, 0)

\* It has just been made.
Fresh ==
    /\ Asks /\ Quiet /\ Untouched
    /\ open_cnt < calls /\ (Request.type # "DEV_OPEN" => open_cnt > 0)
    /\ calls = 1 => open_cnt = 0
    /\ calls > 1 => Found

\* The last one is finished.
Finished ==
    /\ Quiet /\ fsbuf = expect.buf /\ DiskBut(0, 0)
    /\ calls > 0 => Found

(***************************************************************************)
(* The driver and the disk at work.                                        *)
(***************************************************************************)

\* The disk has a command for the job, with n sectors to go.
Commanded(n) ==
    /\ n >= 1 /\ dev.left = n
    /\ dev.op = CASE job = "identify" -> "ATA_IDENTIFY"
                  [] job = "rw" /\ Request.type = "DEV_WRITE" -> "ATA_WRITE"
                  [] OTHER -> "ATA_READ"
    /\ dev.lba = CASE job = "identify" -> 0
                   [] job = "table" -> part.s
                   [] OTHER -> From + Sects - n

\* The interrupt of the current sector has come.
Arrived == IF hd_pc = "int" THEN has_int_msg[HD] ELSE p_flags[HD] = {}

ReadStep ==
    /\ Commanded(IF job = "rw" THEN Left ELSE 1)
    /\ IF Arrived THEN /\ dev.st = "drq"
                       /\ port = IF job = "identify" THEN <<Cardinality(Sectors)>> ELSE disk[dev.lba]
       ELSE dev.st = "busy"

WriteStep ==
    /\ Left >= 1
    /\ IF ~Arrived THEN dev.st = "writing" /\ Commanded(Left) /\ port = expect.disk[dev.lba]
       ELSE IF Left = 1 THEN dev = Idle
       ELSE dev.st = "drq" /\ Commanded(Left - 1)

Step ==
    /\ hd_pc \in Polling /\ mask = "BSY" => Quiet
    /\ hd_pc \in Polling /\ mask = "DRQ" =>
          Writes /\ ~has_int_msg[HD] /\ dev.st \in {"busy", "drq"} /\ Commanded(Left)
    /\ hd_pc \in {"int", "got"} => mask = "DRQ" /\ IF Writes THEN WriteStep ELSE ReadStep
    /\ hd_pc = "got" => ~has_int_msg[HD]
    /\ hd_pc = "entry" => job = "table" /\ Quiet

\* What partition() has read so far.
Parsed ==
    /\ part.i > 0 => part.table = Primary
    /\ \A j \in 1 .. NR_PART_PER_DRIVE : j < part.i => FoundIn(j)
    /\ hd_pc = "entry" => part.i > 0
    /\ hd_pc # "entry" /\ part.i = 0 => part.s = 0
    /\ hd_pc # "entry" /\ part.i > 0 =>
          /\ part.i \in DOMAIN Logical /\ primary[part.i] = Extent(part.i)
          /\ part.sub < Len(Logical[part.i])
          /\ part.s = Logical[part.i][part.sub + 1].at
          /\ \A k \in 1 .. part.sub : logical[Sub(part.i, k)] = SubExtent(part.i, k)

\* How far the request is.
Transfer ==
    CASE job = "identify" ->
           /\ Request.type = "DEV_OPEN" /\ fsbuf = << >> /\ DiskBut(0, 0)
           /\ open_cnt < calls /\ (calls = 1 => open_cnt = 0) /\ (calls > 1 => Found)
      [] job = "table" ->
           /\ Request.type = "DEV_OPEN" /\ fsbuf = << >> /\ DiskBut(0, 0)
           /\ (calls > 1 => Found) /\ Parsed
      [] job = "rw" ->
           /\ mask = "BSY" => byte_left = Request.cnt
           /\ 1 <= Left /\ Left <= Sects
           /\ \/ /\ Request.type = "DEV_READ" /\ DiskBut(0, 0)
                 /\ Len(fsbuf) = Sects - Left
                 /\ \A i \in 1 .. Len(fsbuf) : fsbuf[i] = expect.buf[i]
              \/ /\ Request.type = "DEV_WRITE" /\ fsbuf = expect.buf
                 /\ IF hd_pc \in Polling \/ ~Arrived
                    THEN DiskBut(From + Sects - Left, Left)
                    ELSE DiskBut(From + Sects - Left + 1, Left - 1)

Progress ==
    /\ FsIdle \/ HdAnswers \/ hd_pc = "reply" => Finished
    /\ FsAsks => Fresh
    /\ HdTook => buf[HD].source = FS /\ Fresh
    /\ HdWorks => src = FS /\ Asks
    /\ HdWorks /\ hd_pc # "reply" => Step /\ Transfer

Core == IInv /\ Fields /\ Traffic /\ Phase /\ Progress

\* After a panic nothing moves.
HdInv == IF halted THEN RequestsExact /\ NoStrayInterrupt ELSE Core

(***************************************************************************)
(* Constants and whole numbers of sectors                                  *)
(***************************************************************************)

\* The three tasks are processes, apart from each other and from the others; HD alone
\* gets interrupts; whatever they send is a body of a message.
LEMMA Constants ==
    /\ HD \in Procs /\ SYS \in Procs /\ FS \in Procs
    /\ HD # SYS /\ HD # FS /\ SYS # FS /\ IntTasks = {HD}
    /\ HD \notin Users /\ SYS \notin Users /\ FS \notin Users /\ Users \subseteq Procs
    /\ \A p \in Procs : p \in Users \/ p = HD \/ p = SYS \/ p = FS
    /\ ANY \notin Procs /\ INTERRUPT \notin Procs /\ NO_TASK \notin Procs
    /\ ANY # INTERRUPT /\ ANY # NO_TASK /\ INTERRUPT # NO_TASK
    /\ ANY \in Sources /\ INTERRUPT \in Sources /\ Procs \subseteq Sources
    /\ HdBodies \subseteq Bodies /\ HARD_INT \notin HdBodies
    /\ NoMsg \in HdBodies
    /\ \A t \in {"GET_TICKS", "GET_PID", "SYSCALL_RET"} : Body(t, 0, 0) \in HdBodies
<1>1. HD # SYS /\ HD # FS /\ SYS # FS
  <2>1. ASSUME HD = SYS \/ HD = FS \/ SYS = FS
        PROVE  FALSE
    <3>1. {HD, SYS, FS} = {SYS, FS} \/ {HD, SYS, FS} = {HD, FS} \/ {HD, SYS, FS} = {HD, SYS}
      BY <2>1
    <3>2. \A a, b : IsFiniteSet({a, b}) /\ Cardinality({a, b}) \in Nat /\ Cardinality({a, b}) <= 2
      <4> TAKE a, b
      <4>1. IsFiniteSet({a}) /\ Cardinality({a}) = 1
        BY FS_Singleton
      <4>2. /\ IsFiniteSet({a} \cup {b})
            /\ Cardinality({a} \cup {b}) = IF b \in {a} THEN Cardinality({a}) ELSE Cardinality({a}) + 1
        BY <4>1, FS_AddElement
      <4>3. {a} \cup {b} = {a, b}
        OBVIOUS
      <4>4. QED
        BY <4>1, <4>2, <4>3
    <3>3. Cardinality({HD, SYS, FS}) \in Nat /\ Cardinality({HD, SYS, FS}) <= 2
      BY <3>1, <3>2
    <3>4. Cardinality({HD, SYS, FS}) = 3
      BY HdAssumption
    <3>5. QED
      BY <3>3, <3>4
  <2>2. QED
    BY <2>1
<1>2. NoMsg \in HdBodies /\ \A t \in {"GET_TICKS", "GET_PID", "SYSCALL_RET"} : Body(t, 0, 0) \in HdBodies
  <2> DEFINE T == (UNION {w.calls : w \in Settings}) \cup {"GET_TICKS", "GET_PID", "SYSCALL_RET"}
             P == (UNION {w.positions : w \in Settings}) \cup {0}
             N == (UNION {w.counts : w \in Settings}) \cup {0}
  <2>1. {"GET_TICKS", "GET_PID", "SYSCALL_RET"} \subseteq T /\ 0 \in P /\ 0 \in N
    OBVIOUS
  <2>2. HdBodies = {Body(t, p, n) : t \in T, p \in P, n \in N}
    BY DEF HdBodies
  <2> HIDE DEF T, P, N
  <2>3. \A t \in T, p \in P, n \in N : Body(t, p, n) \in HdBodies
    BY <2>2
  <2>4. QED
    BY <2>1, <2>3 DEF NoMsg
<1>3. QED
  BY <1>1, <1>2, HdAssumption, HdBodiesAssumption, PseudoProcs DEF Users, Sources

\* A number of bytes is a number of sectors and what is left of one.
LEMMA Division ==
    ASSUME NEW n \in Nat, n % SECTOR_SIZE = 0
    PROVE  /\ n \div SECTOR_SIZE \in Nat /\ n = SECTOR_SIZE * (n \div SECTOR_SIZE)
           /\ n = 0 <=> n \div SECTOR_SIZE = 0
<1>1. SECTOR_SIZE \in Nat \ {0}
  BY HdAssumption
<1>2. n = SECTOR_SIZE * (n \div SECTOR_SIZE) + (n % SECTOR_SIZE) /\ n \div SECTOR_SIZE \in Int
  BY <1>1
<1>3. n \div SECTOR_SIZE >= 0
  BY <1>1
<1>4. QED
  BY <1>1, <1>2, <1>3

\* A multiple of the sector size, divided by it.
LEMMA Quotient ==
    ASSUME NEW q \in Int
    PROVE  (SECTOR_SIZE * q) \div SECTOR_SIZE = q /\ (SECTOR_SIZE * q) % SECTOR_SIZE = 0
<1>1. SECTOR_SIZE \in Nat \ {0}
  BY HdAssumption
<1>2. \A a \in Nat \ {0} : (a * q) \div a = q /\ (a * q) % a = 0
  OBVIOUS
<1>3. QED
  BY <1>1, <1>2

\* One sector less.
LEMMA OneLess ==
    ASSUME NEW n \in Nat, n % SECTOR_SIZE = 0, n # 0
    PROVE  /\ n - SECTOR_SIZE \in Nat /\ (n - SECTOR_SIZE) % SECTOR_SIZE = 0
           /\ (n - SECTOR_SIZE) \div SECTOR_SIZE = n \div SECTOR_SIZE - 1
           /\ n - SECTOR_SIZE = 0 <=> n \div SECTOR_SIZE = 1
<1> DEFINE q == n \div SECTOR_SIZE
<1>1. SECTOR_SIZE \in Nat \ {0} /\ q \in Nat /\ n = SECTOR_SIZE * q /\ q # 0
  BY Division, HdAssumption
<1>2. n - SECTOR_SIZE = SECTOR_SIZE * (q - 1) /\ q - 1 \in Nat
  <2> HIDE DEF q
  <2>1. QED
    BY <1>1
<1>3. (n - SECTOR_SIZE) \div SECTOR_SIZE = q - 1 /\ (n - SECTOR_SIZE) % SECTOR_SIZE = 0
  <2>1. q - 1 \in Int
    BY <1>1
  <2>2. QED
    BY <1>2, <2>1, Quotient
<1>4. n - SECTOR_SIZE \in Nat
  <2> HIDE DEF q
  <2>1. \A a \in Nat, b \in Nat : a * b \in Nat
    OBVIOUS
  <2>2. QED
    BY <1>1, <1>2, <2>1
<1>5. n - SECTOR_SIZE = 0 <=> q = 1
  BY <1>3, <1>4, Division
<1>6. QED
  BY <1>3, <1>4, <1>5

\* The number of sectors hd_rw gives the disk, when they fit the register.
LEMMA Register ==
    ASSUME NEW n \in Nat, n % SECTOR_SIZE = 0, n >= SECTOR_SIZE, n <= NSECTOR * SECTOR_SIZE
    PROVE  LET k == ((n + SECTOR_SIZE - 1) \div SECTOR_SIZE) % NSECTOR
           IN  (IF k = 0 THEN NSECTOR ELSE k) = n \div SECTOR_SIZE /\ n \div SECTOR_SIZE >= 1
<1> DEFINE q == n \div SECTOR_SIZE
<1>1. SECTOR_SIZE \in Nat \ {0} /\ NSECTOR \in Nat \ {0} /\ q \in Nat /\ n = SECTOR_SIZE * q
  BY Division, HdAssumption
<1> HIDE DEF q
<1>2. q >= 1 /\ q <= NSECTOR
  <2>1. ASSUME q = 0
        PROVE  FALSE
    BY <1>1, <2>1
  <2>2. ASSUME q > NSECTOR
        PROVE  FALSE
    <3>1. SECTOR_SIZE * q >= SECTOR_SIZE * NSECTOR + SECTOR_SIZE
      BY <1>1, <2>2
    <3>2. QED
      BY <1>1, <3>1
  <2>3. QED
    BY <1>1, <2>1, <2>2
<1>3. (n + SECTOR_SIZE - 1) \div SECTOR_SIZE = q
  <2>1. \A a \in Nat \ {0}, b \in Nat : \A r \in 0 .. (a - 1) : (a * b + r) \div a = b
    OBVIOUS
  <2>2. SECTOR_SIZE - 1 \in 0 .. (SECTOR_SIZE - 1) /\ n + SECTOR_SIZE - 1 = SECTOR_SIZE * q + (SECTOR_SIZE - 1)
    BY <1>1
  <2>3. QED
    BY <1>1, <2>1, <2>2
<1>4. CASE q = NSECTOR
  <2>1. NSECTOR % NSECTOR = 0
    BY <1>1
  <2>2. QED
    BY <1>1, <1>2, <1>3, <1>4, <2>1 DEF q
<1>5. CASE q < NSECTOR
  <2>1. q % NSECTOR = q
    BY <1>1, <1>2, <1>5
  <2>2. QED
    BY <1>2, <1>3, <1>5, <2>1 DEF q
<1>6. QED
  BY <1>1, <1>2, <1>4, <1>5

(***************************************************************************)
(* Steps that leave the work alone                                         *)
(***************************************************************************)

\* A step that only sends, receives and goes on.
Still ==
    UNCHANGED <<setting, src, msg, job, mask, byte_left, open_cnt, primary, logical, part,
                dev, port, disk, fsbuf, calls, expect>>

\* Such a step leaves the driver's own variables in their types.
LEMMA FieldsStill ==
    ASSUME Fields, Still, hd_pc' \in Places, sys_pc' \in {"receive", "dispatch"},
           fs_pc' \in {"run", "recv"}, user_pc' \in [Users -> {"run", "recv"}]
    PROVE  Fields'
BY DEF Fields, Still, Fits

\* What is asked for and how far it is depends on nothing else.
LEMMA DataStill ==
    ASSUME Still
    PROVE  /\ Place' = Place /\ Left' = Left /\ (Found' <=> Found)
           /\ \A s, n : (DiskBut(s, n)' <=> DiskBut(s, n))
           /\ Quiet' <=> (dev = Idle /\ ~has_int_msg'[HD])
           /\ \A i : (FoundIn(i)' <=> FoundIn(i))
<1>1. Place' = Place /\ Left' = Left /\ \A i : (FoundIn(i)' <=> FoundIn(i))
  BY DEF Still, Place, PlaceOf, Left, FoundIn
<1>2. (Found' <=> Found)
  BY <1>1 DEF Found
<1>3. QED
  BY <1>1, <1>2 DEF Still, DiskBut, Quiet

\* Nor does the request change that FS has made, nor whether work on it has begun.
LEMMA RequestStill ==
    ASSUME Still, Request' = Request
    PROVE  /\ Sects' = Sects /\ From' = From /\ (Asks' <=> Asks) /\ (Untouched' <=> Untouched)
           /\ Fresh' <=> (Asks /\ dev = Idle /\ ~has_int_msg'[HD] /\ Untouched /\ open_cnt < calls
                           /\ (Request.type # "DEV_OPEN" => open_cnt > 0)
                           /\ (calls = 1 => open_cnt = 0) /\ (calls > 1 => Found))
<1>1. Sects' = Sects /\ From' = From
  BY DataStill DEF Sects, From
<1>2. setting' = setting /\ calls' = calls /\ expect' = expect /\ fsbuf' = fsbuf /\ open_cnt' = open_cnt
  BY DEF Still
<1>3. Asks' <=> Asks
  BY <1>1, <1>2, DataStill DEF Asks
<1>4. Untouched' <=> Untouched
  BY <1>1, <1>2, DataStill DEF Untouched
<1>5. QED
  BY <1>1, <1>2, <1>3, <1>4, DataStill DEF Fresh

\* A request that is done, and whose answer is on its way to FS, stays done.
LEMMA FinishedStill ==
    ASSUME Finished, Still, has_int_msg'[HD] = has_int_msg[HD]
    PROVE  Finished'
<1>1. calls' = calls /\ expect' = expect /\ fsbuf' = fsbuf
  BY DEF Still
<1>2. QED
  BY <1>1, DataStill DEF Finished, Quiet

\* While the driver polls it does not matter where, otherwise it stays.
LEMMA WorkStill ==
    ASSUME Step, Transfer, Still, Request' = Request, has_int_msg'[HD] = has_int_msg[HD],
           \/ hd_pc \in Polling /\ hd_pc' \in Polling
           \/ hd_pc' = hd_pc /\ p_flags'[HD] = p_flags[HD]
    PROVE  Step' /\ Transfer'
<1>1. Sects' = Sects /\ From' = From /\ Left' = Left /\ (Found' <=> Found)
      /\ \A s, n : (DiskBut(s, n)' <=> DiskBut(s, n))
  BY DataStill, RequestStill
<1>2. /\ msg' = msg /\ job' = job /\ mask' = mask /\ byte_left' = byte_left /\ open_cnt' = open_cnt
      /\ primary' = primary /\ logical' = logical /\ part' = part /\ dev' = dev /\ port' = port
      /\ disk' = disk /\ fsbuf' = fsbuf /\ calls' = calls /\ expect' = expect
  BY DEF Still
<1>3. \A n : (Commanded(n)' <=> Commanded(n))
  BY <1>1, <1>2 DEF Commanded
<1>4. (Writes' <=> Writes) /\ (Quiet' <=> Quiet)
  BY <1>2, DataStill DEF Writes, Quiet
<1>5. (hd_pc \in Polling /\ hd_pc' \in Polling) \/ (hd_pc' = hd_pc /\ (Arrived' <=> Arrived))
  BY DEF Arrived
<1>6. hd_pc \in {"int", "got"} => (ReadStep' <=> ReadStep) /\ (WriteStep' <=> WriteStep)
  BY <1>1, <1>2, <1>3, <1>5 DEF ReadStep, WriteStep, Polling
<1>7. Step'
  <2>1. CASE hd_pc \in Polling /\ hd_pc' \in Polling
    BY <1>2, <1>3, <1>4, <2>1, DataStill DEF Step, Polling
  <2>2. CASE hd_pc' = hd_pc
    BY <1>1, <1>2, <1>3, <1>4, <1>6, <2>2 DEF Step
  <2>3. QED
    BY <1>5, <2>1, <2>2
<1>8. Parsed' <=> Parsed
  BY <1>2, <1>5, DataStill DEF Parsed, Polling
<1>9. Transfer'
  <2>1. CASE hd_pc' = hd_pc /\ (Arrived' <=> Arrived)
    BY <1>1, <1>2, <1>8, <2>1 DEF Transfer
  <2>2. CASE hd_pc \in Polling /\ hd_pc' \in Polling
    BY <1>1, <1>2, <1>8, <2>2 DEF Transfer
  <2>3. QED
    BY <1>5, <2>1, <2>2
<1>10. QED
  BY <1>7, <1>9

\* What SYS and its other callers do leaves the request of FS where it is.
LEMMA OthersStill ==
    ASSUME Core, Still, hd_pc' = hd_pc, fs_pc' = fs_pc, SameEntry(FS),
           has_int_msg'[HD] = has_int_msg[HD],
           SameEntry(HD) \/ hd_pc \in Polling
    PROVE  Phase' /\ Progress'
<1>1. /\ FsIdle' <=> FsIdle
      /\ FsAsks' <=> FsAsks
      /\ FsWaits' <=> FsWaits
      /\ HdWorks' <=> HdWorks
      /\ p_flags'[HD] = p_flags[HD] \/ hd_pc \in Polling
  BY DEF SameEntry, FsIdle, FsAsks, FsWaits, HdWorks
<1>2. /\ HdFree' <=> HdFree
      /\ HdTook' <=> HdTook
      /\ HdAnswers' <=> HdAnswers
  BY DEF SameEntry, HdFree, HdTook, HdAnswers, Polling
<1>3. Phase'
  <2>1. hd_pc = "receive" => p_flags'[HD] = p_flags[HD]
    BY DEF SameEntry, Polling
  <2>2. p_flags'[FS] = p_flags[FS]
    BY DEF SameEntry
  <2>3. QED
    BY <1>1, <1>2, <2>1, <2>2 DEF Core, Phase
<1>4. Request' = Request
  <2>1. buf'[FS] = buf[FS] /\ (hd_pc = "dispatch" => buf'[HD] = buf[HD]) /\ msg' = msg
    BY DEF SameEntry, Polling, Still
  <2>2. QED
    BY <1>1, <2>1 DEF Request
<1>5. Progress /\ src' = src
  BY DEF Core, Still
<1>6. FsIdle' \/ HdAnswers' \/ hd_pc' = "reply" => Finished'
  BY <1>1, <1>2, <1>5, FinishedStill DEF Progress
<1>7. FsAsks' => Fresh'
  BY <1>1, <1>4, <1>5, RequestStill DEF Progress, Fresh, Quiet
<1>8. HdTook' => buf'[HD].source = FS /\ Fresh'
  BY <1>1, <1>2, <1>4, <1>5, RequestStill DEF Progress, Fresh, Quiet, HdTook, SameEntry, Polling
<1>9. HdWorks' => src' = FS /\ Asks'
  BY <1>1, <1>4, <1>5, RequestStill DEF Progress
<1>10. HdWorks' /\ hd_pc' # "reply" => Step' /\ Transfer'
  BY <1>1, <1>4, <1>5, WorkStill DEF Progress
<1>11. QED
  BY <1>3, <1>6, <1>7, <1>8, <1>9, <1>10 DEF Progress

\* The types are those the runs check.
LEMMA FieldsImply == Fields => HdTypeOK
<1> SUFFICES ASSUME Fields PROVE HdTypeOK
  OBVIOUS
<1>1. setting.maxCalls \in Nat
  BY HdAssumption DEF Fields
<1>2. open_cnt \in 0 .. setting.maxCalls
  BY <1>1 DEF Fields
<1>3. QED
  BY <1>2 DEF Fields, HdTypeOK, Places, Polling

\* A disk that is nowhere different is the same.
LEMMA DiskSame ==
    ASSUME Fields
    PROVE  DiskBut(0, 0) <=> disk = expect.disk
<1>1. \A x \in Sectors : x >= 0 + 0
  BY DiskAssumption
<1>2. disk \in [Sectors -> Cells] /\ expect.disk \in [Sectors -> Cells]
  BY DEF Fields
<1>3. QED
  BY <1>1, <1>2 DEF DiskBut

\* Nor does a panic: who was working at something else than an answer still is.
LEMMA PanicKeeps ==
    ASSUME Core, Fields', p_flags' = p_flags, has_int_msg' = has_int_msg,
           UNCHANGED <<primary, logical, disk>>,
           FsIdle' => FsIdle /\ UNCHANGED <<calls, expect, fsbuf>>,
           hd_pc' = "receive" => hd_pc \in {"receive", "reply"}
    PROVE  RequestsExact' /\ NoStrayInterrupt'
<1>1. Fields /\ Phase /\ Progress
  BY DEF Core
<1>2. FsIdle => Finished
  BY <1>1 DEF Progress
<1>3. HdTypeOK'
  BY FieldsImply, PTL
<1>4. FsBack' <=> FsIdle'
  BY DEF FsBack, FsIdle, Running
<1>5. FsIdle' => fsbuf' = expect'.buf /\ disk' = expect'.disk
  BY <1>1, <1>2, DiskSame DEF Finished
<1>6. TransfersExact'
  BY <1>4, <1>5 DEF TransfersExact
<1>7. PartitionsFound'
  <2>1. PartitionsFound
    BY <1>1, <1>2, DiskAssumption
    DEF PartitionsFound, FsBack, FsIdle, Running, Finished, Found, FoundIn, Extent, Sub, SubExtent
  <2>2. QED
    BY <1>4, <2>1 DEF PartitionsFound, FsBack, FsIdle, Running
<1>8. NoStrayInterrupt'
  <2>1. hd_pc \in {"receive", "reply"} => ~has_int_msg[HD]
    <3>1. CASE FsIdle \/ HdAnswers \/ hd_pc = "reply"
      BY <1>1, <3>1 DEF Progress, Finished, Quiet
    <3>2. CASE FsAsks
      BY <1>1, <3>2 DEF Progress, Fresh, Quiet
    <3>3. QED
      BY <1>1, <3>1, <3>2 DEF Phase, HdTook, HdWorks
  <2>2. QED
    BY <2>1 DEF NoStrayInterrupt, Fields, Places, Polling
<1>9. QED
  BY <1>3, <1>6, <1>7, <1>8 DEF RequestsExact

\* The invariant says what the runs check.
LEMMA CoreImplies == Core => RequestsExact /\ NoStrayInterrupt
<1> SUFFICES ASSUME Core PROVE RequestsExact /\ NoStrayInterrupt
  OBVIOUS
<1>1. Fields /\ Phase /\ Progress
  BY DEF Core
<1>2. HdTypeOK
  BY <1>1, FieldsImply
<1>3. FsBack <=> FsIdle
  BY DEF FsBack, FsIdle, Running
<1>4. FsIdle => Finished
  BY <1>1 DEF Progress
<1>5. FsIdle => disk = expect.disk
  BY <1>1, <1>4, DiskSame DEF Finished
<1>6. TransfersExact
  BY <1>3, <1>4, <1>5 DEF TransfersExact, Finished
<1>7. PartitionsFound
  BY <1>3, <1>4, DiskAssumption DEF PartitionsFound, Finished, Found, FoundIn, Extent, Sub, SubExtent
<1>8. NoStrayInterrupt
  <2>1. hd_pc = "receive" => FsIdle \/ HdAnswers \/ FsAsks
    BY <1>1 DEF Phase, HdTook, HdWorks
  <2>2. QED
    BY <1>1, <2>1 DEF Progress, Finished, Fresh, Quiet, NoStrayInterrupt, Fields, Places, Polling
<1>9. QED
  BY <1>2, <1>6, <1>7, <1>8 DEF RequestsExact

(***************************************************************************)
(* SYS and its callers                                                     *)
(***************************************************************************)

\* The traffic of a process depends on its own entry, and on where it is.
LEMMA TrafficFrame ==
    ASSUME Traffic
    PROVE  /\ SameEntry(HD) /\ hd_pc' = hd_pc => HdTraffic'
           /\ SameEntry(SYS) /\ sys_pc' = sys_pc /\ (HdAwaits => HdAwaits') => SysTraffic'
           /\ SameEntry(FS) /\ fs_pc' = fs_pc => FsTraffic'
<1>1. SameEntry(HD) /\ hd_pc' = hd_pc => HdTraffic'
  BY DEF Traffic, HdTraffic, SameEntry, Sending, Receiving
<1>2. SameEntry(SYS) /\ sys_pc' = sys_pc /\ (HdAwaits => HdAwaits') => SysTraffic'
  BY DEF Traffic, SysTraffic, SameEntry, Sending, Receiving, Running
<1>3. SameEntry(FS) /\ fs_pc' = fs_pc => FsTraffic'
  BY DEF Traffic, FsTraffic, SameEntry, Sending, Receiving
<1>4. QED
  BY <1>1, <1>2, <1>3

\* get_ticks and getpid: the request waits for SYS.
LEMMA UserCallKeeps ==
    ASSUME Core, ~halted, setting' = setting, NEW u \in Users,
           NEW type \in {"GET_TICKS", "GET_PID"}, UserCall(u, type)
    PROVE  HdInv'
<1> DEFINE b == Body(type, 0, 0)
<1>1. /\ p_flags[u] = {} /\ user_pc[u] = "run" /\ msg_send(u, SYS, b)
      /\ user_pc' = [user_pc EXCEPT ![u] = "recv"] /\ Still
      /\ hd_pc' = hd_pc /\ sys_pc' = sys_pc /\ fs_pc' = fs_pc
  BY DEF UserCall, Running, hdVars, devVars, fsVars, Still
<1>2. IInv /\ Fields /\ Traffic
  BY DEF Core
<1>3. u \in Procs /\ SYS \in Procs \ {u} /\ u # HD /\ u # FS /\ b \in HdBodies /\ b \in Bodies
  BY Constants
<1>4. IInv' /\ (Panics \/ Delivered(u, SYS, b) \/ Queued(u, SYS, b))
  BY <1>1, <1>2, <1>3, Sends
<1> HIDE DEF b
<1>5. user_pc' \in [Users -> {"run", "recv"}] /\ user_pc'[u] = "recv"
      /\ \A v \in Users \ {u} : user_pc'[v] = user_pc[v]
  BY <1>1, <1>2 DEF Fields
<1>6. Fields'
  BY <1>1, <1>2, <1>5, FieldsStill DEF Fields
<1>7. CASE Panics
  <2>1. RequestsExact' /\ NoStrayInterrupt'
    BY <1>1, <1>6, <1>7, PanicKeeps DEF Panics, Still, FsIdle
  <2>2. QED
    BY <1>7, <2>1 DEF HdInv, Panics
<1>8. ASSUME Delivered(u, SYS, b) \/ Queued(u, SYS, b)
      PROVE  HdInv'
  <2>1. SameEntry(HD) /\ SameEntry(FS) /\ \A x \in Procs \ {u, SYS} : SameEntry(x)
    BY <1>3, <1>8, Constants DEF Delivered, Queued
  <2>2. HdTraffic' /\ FsTraffic' /\ (HdAwaits => HdAwaits')
    BY <1>1, <1>2, <2>1, TrafficFrame DEF HdAwaits, SameEntry
  <2>3. SysTraffic'
    <3>1. CASE Delivered(u, SYS, b)
      <4>1. p_flags[SYS] = {"RECEIVING"} /\ p_flags'[SYS] = {} /\ buf'[SYS].source = u
        BY <3>1 DEF Delivered
      <4>2. sys_pc = "dispatch"
        BY <1>2, <4>1 DEF Traffic, SysTraffic, Receiving
      <4>3. QED
        BY <1>1, <1>3, <4>1, <4>2 DEF SysTraffic, Sending, Receiving
    <3>2. CASE Queued(u, SYS, b)
      BY <1>1, <1>2, <1>3, <2>2, <3>2, TrafficFrame DEF Queued
    <3>3. QED
      BY <1>8, <3>1, <3>2
  <2>4. UserTraffic'
    <3>1. \A v \in Users \ {u} : SameEntry(v)
      BY <2>1, Constants
    <3>2. (Sending(u)' => p_sendto'[u] = SYS) /\ ~Receiving(u)'
      BY <1>3, <1>8 DEF Delivered, Queued, Sending, Receiving
    <3>3. QED
      BY <1>2, <1>5, <3>1, <3>2 DEF Traffic, UserTraffic, SameEntry, Sending, Receiving
  <2>5. Mail'
    <3>1. /\ buf'[u] = [source |-> u, body |-> b] /\ has_int_msg'[u] = has_int_msg[u]
          /\ has_int_msg'[SYS] = has_int_msg[SYS]
          /\ SameEntry(SYS) \/ (buf'[SYS] = [source |-> u, body |-> b] /\ ~Sending(SYS)')
      <4>1. CASE Delivered(u, SYS, b)
        BY <1>3, <4>1 DEF Delivered, Sending
      <4>2. CASE Queued(u, SYS, b)
        BY <1>3, <4>2 DEF Queued, SameEntry
      <4>3. QED
        BY <1>8, <4>1, <4>2
    <3>2. QED
      BY <1>2, <1>3, <2>1, <3>1, Constants DEF Traffic, Mail, SameEntry, Sending
  <2>6. Phase' /\ Progress'
    BY <1>1, <2>1, OthersStill DEF SameEntry
  <2>7. ~halted'
    BY <1>8 DEF Delivered, Queued
  <2>8. QED
    BY <1>4, <1>6, <2>2, <2>3, <2>4, <2>5, <2>6, <2>7 DEF HdInv, Core, Traffic
<1>9. QED
  BY <1>4, <1>7, <1>8

\* ... and RECEIVEs the answer.
LEMMA UserAwaitKeeps ==
    ASSUME Core, ~halted, setting' = setting, NEW u \in Users, UserAwait(u)
    PROVE  HdInv'
<1>1. /\ p_flags[u] = {} /\ user_pc[u] = "recv" /\ msg_receive(u, SYS)
      /\ user_pc' = [user_pc EXCEPT ![u] = "run"] /\ Still
      /\ hd_pc' = hd_pc /\ sys_pc' = sys_pc /\ fs_pc' = fs_pc
  BY DEF UserAwait, Running, hdVars, devVars, fsVars, Still
<1>2. IInv /\ Fields /\ Traffic
  BY DEF Core
<1>3. u \in Procs /\ SYS \in Sources \ {u} /\ u # HD /\ u # FS /\ u # SYS /\ SYS \notin {ANY, INTERRUPT}
  BY Constants
<1>4. /\ IInv' /\ ~halted'
      /\ TookFrom(u, SYS, SYS) \/ WaitsFor(u, SYS)
  <2>1. /\ IInv' /\ ~halted'
        /\ TookInterrupt(u, SYS) \/ (\E from \in Procs \ {u} : TookFrom(u, SYS, from)) \/ WaitsFor(u, SYS)
    BY <1>1, <1>2, <1>3, Receives
  <2>2. ~TookInterrupt(u, SYS) /\ \A from : TookFrom(u, SYS, from) => from = SYS
    BY <1>3 DEF TookInterrupt, TookFrom
  <2>3. QED
    BY <2>1, <2>2
<1>5. user_pc' \in [Users -> {"run", "recv"}] /\ user_pc'[u] = "run"
      /\ \A v \in Users \ {u} : user_pc'[v] = user_pc[v]
  BY <1>1, <1>2 DEF Fields
<1>6. Fields'
  BY <1>1, <1>2, <1>5, FieldsStill DEF Fields
<1>7. \A x \in Procs \ {u, SYS} : SameEntry(x)
  BY <1>4 DEF TookFrom, WaitsFor
<1>8. HdTraffic' /\ FsTraffic' /\ (HdAwaits => HdAwaits') /\ SameEntry(HD) /\ SameEntry(FS)
  BY <1>1, <1>2, <1>3, <1>7, TrafficFrame, Constants DEF HdAwaits, SameEntry
<1>9. SysTraffic'
  <2>1. CASE TookFrom(u, SYS, SYS)
    <3>1. p_flags[SYS] = {"SENDING"} /\ p_flags'[SYS] = {}
      BY <2>1 DEF TookFrom
    <3>2. sys_pc = "receive"
      BY <1>2, <3>1 DEF Traffic, SysTraffic, Sending
    <3>3. QED
      BY <1>1, <3>1, <3>2 DEF SysTraffic, Sending, Receiving
  <2>2. CASE WaitsFor(u, SYS)
    BY <1>1, <1>2, <1>3, <1>8, <2>2, TrafficFrame, Constants DEF WaitsFor
  <2>3. QED
    BY <1>4, <2>1, <2>2
<1>10. UserTraffic'
  <2>1. \A v \in Users \ {u} : SameEntry(v)
    BY <1>7, Constants
  <2>2. (Receiving(u)' => p_recvfrom'[u] = SYS) /\ ~Sending(u)'
    BY <1>4 DEF TookFrom, WaitsFor, Sending, Receiving
  <2>3. QED
    BY <1>2, <1>5, <2>1, <2>2 DEF Traffic, UserTraffic, SameEntry, Sending, Receiving
<1>11. Mail'
  <2>1. CASE TookFrom(u, SYS, SYS)
    <3>1. /\ buf'[u] = buf[SYS] /\ has_int_msg'[u] = has_int_msg[u] /\ ~Sending(u)'
          /\ buf'[SYS] = buf[SYS] /\ has_int_msg'[SYS] = has_int_msg[SYS] /\ ~Sending(SYS)'
      BY <2>1 DEF TookFrom, Sending
    <3>2. QED
      BY <1>2, <1>3, <1>7, <3>1, Constants DEF Traffic, Mail, SameEntry, Sending
  <2>2. CASE WaitsFor(u, SYS)
    <3>1. /\ buf'[u].body = buf[u].body /\ has_int_msg'[u] = has_int_msg[u] /\ ~Sending(u)'
          /\ \A x \in Procs \ {u} : SameEntry(x)
      BY <2>2 DEF WaitsFor, Sending
    <3>2. QED
      BY <1>2, <1>3, <3>1, Constants DEF Traffic, Mail, SameEntry, Sending
  <2>3. QED
    BY <1>4, <2>1, <2>2
<1>12. Phase' /\ Progress'
  BY <1>1, <1>8, OthersStill DEF SameEntry
<1>13. QED
  BY <1>4, <1>6, <1>8, <1>9, <1>10, <1>11, <1>12 DEF HdInv, Core, Traffic

\* SYS takes a request from the driver, which can only receive from then on, or from
\* another process.
LEMMA SysTakeKeeps ==
    ASSUME Core, ~halted, setting' = setting, SysTake
    PROVE  HdInv'
<1>1. /\ p_flags[SYS] = {} /\ sys_pc = "receive" /\ msg_receive(SYS, ANY)
      /\ sys_pc' = "dispatch" /\ Still
      /\ hd_pc' = hd_pc /\ user_pc' = user_pc /\ fs_pc' = fs_pc
  BY DEF SysTake, Running, hdVars, devVars, fsVars, Still
<1>2. IInv /\ Fields /\ Traffic
  BY DEF Core
<1>3. SYS \in Procs /\ ANY \in Sources \ {SYS} /\ SYS # HD /\ SYS # FS /\ HD \in Procs
  BY Constants
<1>4. /\ IInv' /\ ~halted'
      /\ (\E from \in Users \cup {HD} : TookFrom(SYS, ANY, from)) \/ WaitsFor(SYS, ANY)
  <2>1. /\ IInv' /\ ~halted'
        /\ TookInterrupt(SYS, ANY) \/ (\E from \in Procs \ {SYS} : TookFrom(SYS, ANY, from)) \/ WaitsFor(SYS, ANY)
    BY <1>1, <1>2, <1>3, Receives
  <2>2. ~TookInterrupt(SYS, ANY)
    BY <1>2, <1>3 DEF TookInterrupt, Traffic, Mail
  <2>3. ~TookFrom(SYS, ANY, FS)
    BY <1>2, <1>3 DEF TookFrom, Traffic, FsTraffic, Sending
  <2>4. QED
    BY <2>1, <2>2, <2>3, Constants
<1>5. Fields'
  BY <1>1, <1>2, FieldsStill DEF Fields
<1>6. ASSUME NEW from \in Users \cup {HD}, TookFrom(SYS, ANY, from)
      PROVE  Core'
  <2>1. /\ p_flags[from] = {"SENDING"} /\ p_flags'[from] = {}
        /\ p_flags'[SYS] = {} /\ p_sendto'[SYS] = p_sendto[SYS] /\ buf'[SYS] = buf[from]
        /\ has_int_msg'[SYS] = has_int_msg[SYS] /\ has_int_msg'[from] = has_int_msg[from]
        /\ buf'[from] = buf[from] /\ p_sendto[from] = SYS
        /\ \A x \in Procs \ {SYS, from} : SameEntry(x)
    BY <1>6 DEF TookFrom
  <2>2. from \in Procs /\ from # SYS /\ from # FS /\ SameEntry(FS)
    BY <2>1, Constants
  <2>3. HdTraffic' /\ (from = HD => HdAwaits') /\ (from # HD => SameEntry(HD))
    <3>1. CASE from = HD
      <4>1. hd_pc \in {"clock_recv", "round_recv"}
        BY <1>2, <1>3, <2>1, <2>2, <3>1 DEF Traffic, HdTraffic, Sending
      <4>2. QED
        BY <1>1, <2>1, <3>1, <4>1 DEF HdTraffic, HdAwaits, Sending, Receiving
    <3>2. CASE from # HD
      BY <1>1, <1>2, <1>3, <2>1, <3>2, TrafficFrame
    <3>3. QED
      BY <3>1, <3>2
  <2>4. SysTraffic'
    <3>1. buf[from].source = from
      BY <1>2, <2>1, <2>2 DEF Traffic, Mail, Sending
    <3>2. QED
      BY <1>1, <2>1, <2>2, <2>3, <3>1 DEF SysTraffic, Sending, Receiving
  <2>5. FsTraffic'
    BY <1>1, <1>2, <2>2, TrafficFrame
  <2>6. UserTraffic'
    <3>1. \A v \in Users \ {from} : SameEntry(v)
      BY <2>1, Constants
    <3>2. ~Receiving(from)' /\ ~Sending(from)'
      BY <2>1 DEF Sending, Receiving
    <3>3. QED
      BY <1>1, <1>2, <3>1, <3>2 DEF Traffic, UserTraffic, SameEntry, Sending, Receiving
  <2>7. Mail'
    <3>1. buf[from].body \in HdBodies /\ ~Sending(from)' /\ ~Sending(SYS)'
      BY <1>2, <2>1, <2>2 DEF Traffic, Mail, Sending
    <3>2. QED
      BY <1>2, <1>3, <2>1, <2>2, <3>1, Constants DEF Traffic, Mail, SameEntry, Sending
  <2>8. SameEntry(HD) \/ hd_pc \in Polling
    BY <1>2, <1>3, <2>1, <2>3 DEF Traffic, HdTraffic, Sending, Polling
  <2>9. has_int_msg'[HD] = has_int_msg[HD]
    BY <1>3, <2>1, <2>3 DEF SameEntry
  <2>10. Phase' /\ Progress'
    BY <1>1, <2>2, <2>8, <2>9, OthersStill
  <2>11. QED
    BY <1>4, <1>5, <2>3, <2>4, <2>5, <2>6, <2>7, <2>10 DEF Core, Traffic
<1>7. ASSUME WaitsFor(SYS, ANY)
      PROVE  Core'
  <2>1. /\ p_flags'[SYS] = {"RECEIVING"} /\ p_recvfrom'[SYS] = ANY /\ buf'[SYS].body = buf[SYS].body
        /\ has_int_msg'[SYS] = has_int_msg[SYS] /\ \A x \in Procs \ {SYS} : SameEntry(x)
    BY <1>7 DEF WaitsFor
  <2>2. SameEntry(HD) /\ SameEntry(FS) /\ \A v \in Users : SameEntry(v)
    BY <2>1, Constants
  <2>3. HdTraffic' /\ FsTraffic' /\ SysTraffic'
    BY <1>1, <1>2, <2>1, <2>2, TrafficFrame DEF SysTraffic, Sending, Receiving, Running
  <2>4. UserTraffic'
    BY <1>1, <1>2, <2>2 DEF Traffic, UserTraffic, SameEntry, Sending, Receiving
  <2>5. Mail'
    BY <1>2, <1>3, <2>1, Constants DEF Traffic, Mail, SameEntry, Sending
  <2>6. Phase' /\ Progress'
    BY <1>1, <2>2, OthersStill DEF SameEntry
  <2>7. QED
    BY <1>4, <1>5, <2>3, <2>4, <2>5, <2>6 DEF Core, Traffic
<1>8. QED
  BY <1>4, <1>6, <1>7 DEF HdInv

\* SYS answers whose request it has.
LEMMA SysReplyKeeps ==
    ASSUME Core, ~halted, setting' = setting, SysReply
    PROVE  HdInv'
<1>1. IInv /\ Fields /\ Traffic
  BY DEF Core
<1>2. PICK b \in HdBodies :
        b = IF buf[SYS].body.type = "GET_PID" THEN Body("SYSCALL_RET", 0, 0) ELSE buf[SYS].body
  <2>1. buf[SYS].body \in HdBodies /\ Body("SYSCALL_RET", 0, 0) \in HdBodies
    BY <1>1, Constants DEF Traffic, Mail
  <2>2. QED
    BY <2>1
<1>3. PICK d \in Users \cup {HD} : d = buf[SYS].source /\ (d = HD => HdAwaits)
  BY <1>1 DEF SysReply, Traffic, SysTraffic
<1>4. /\ p_flags[SYS] = {} /\ msg_send(SYS, d, b) /\ sys_pc' = "receive" /\ Still
      /\ hd_pc' = hd_pc /\ user_pc' = user_pc /\ fs_pc' = fs_pc
  BY <1>2, <1>3 DEF SysReply, Running, hdVars, devVars, fsVars, Still
<1>5. SYS \in Procs /\ d \in Procs \ {SYS} /\ d # FS /\ SYS # HD /\ SYS # FS /\ HD \in Procs /\ b \in Bodies
  BY Constants
<1>6. IInv' /\ (Panics \/ Delivered(SYS, d, b) \/ Queued(SYS, d, b))
  BY <1>1, <1>4, <1>5, Sends
<1>7. Fields'
  BY <1>1, <1>4, FieldsStill DEF Fields
<1>8. CASE Panics
  <2>1. RequestsExact' /\ NoStrayInterrupt'
    BY <1>4, <1>7, <1>8, PanicKeeps DEF Panics, Still, FsIdle
  <2>2. QED
    BY <1>8, <2>1 DEF HdInv, Panics
<1>9. CASE Delivered(SYS, d, b)
  <2>1. /\ p_flags[d] = {"RECEIVING"} /\ p_flags'[d] = {} /\ p_flags'[SYS] = {}
        /\ buf'[d] = [source |-> SYS, body |-> b] /\ buf'[SYS] = [source |-> SYS, body |-> b]
        /\ has_int_msg'[SYS] = has_int_msg[SYS] /\ has_int_msg'[d] = has_int_msg[d]
        /\ \A x \in Procs \ {SYS, d} : SameEntry(x)
        /\ ~halted'
    BY <1>9 DEF Delivered
  <2>2. SameEntry(FS) /\ (d # HD => SameEntry(HD)) /\ \A v \in Users \ {d} : SameEntry(v)
    BY <1>5, <2>1, Constants
  <2>3. d = HD => hd_pc \in {"round", "test"}
    BY <1>3, <2>1 DEF HdAwaits
  <2>4. HdTraffic'
    BY <1>1, <1>4, <2>1, <2>2, TrafficFrame DEF HdTraffic, Sending, Receiving
  <2>5. SysTraffic' /\ FsTraffic'
    BY <1>1, <1>4, <2>1, <2>2, TrafficFrame DEF SysTraffic, Sending, Receiving
  <2>6. UserTraffic'
    <3>1. ~Receiving(d)' /\ ~Sending(d)'
      BY <2>1 DEF Sending, Receiving
    <3>2. QED
      BY <1>1, <1>4, <2>2, <3>1 DEF Traffic, UserTraffic, SameEntry, Sending, Receiving
  <2>7. Mail'
    <3>1. ~Sending(d)' /\ ~Sending(SYS)'
      BY <2>1 DEF Sending
    <3>2. QED
      BY <1>1, <1>5, <2>1, <3>1, Constants DEF Traffic, Mail, SameEntry, Sending
  <2>8. (SameEntry(HD) \/ hd_pc \in Polling) /\ has_int_msg'[HD] = has_int_msg[HD]
    BY <2>1, <2>2, <2>3 DEF Polling, SameEntry
  <2>9. Phase' /\ Progress'
    BY <1>4, <2>2, <2>8, OthersStill
  <2>10. QED
    BY <1>6, <1>7, <2>1, <2>4, <2>5, <2>6, <2>7, <2>9 DEF HdInv, Core, Traffic
<1>10. CASE Queued(SYS, d, b)
  <2>1. /\ p_flags'[SYS] = {"SENDING"} /\ p_sendto'[SYS] = d
        /\ buf'[SYS] = [source |-> SYS, body |-> b]
        /\ has_int_msg'[SYS] = has_int_msg[SYS]
        /\ \A x \in Procs \ {SYS} : SameEntry(x)
        /\ ~halted'
    BY <1>10 DEF Queued
  <2>2. SameEntry(FS) /\ SameEntry(HD) /\ \A v \in Users : SameEntry(v)
    BY <2>1, Constants
  <2>3. HdTraffic' /\ FsTraffic' /\ (HdAwaits => HdAwaits')
    BY <1>1, <1>4, <2>2, TrafficFrame DEF HdAwaits, SameEntry
  <2>4. SysTraffic'
    BY <1>3, <1>4, <2>1, <2>3 DEF SysTraffic, Sending, Receiving, Running
  <2>5. UserTraffic'
    BY <1>1, <1>4, <2>2 DEF Traffic, UserTraffic, SameEntry, Sending, Receiving
  <2>6. Mail'
    BY <1>1, <1>5, <2>1, Constants DEF Traffic, Mail, SameEntry, Sending
  <2>7. Phase' /\ Progress'
    BY <1>4, <2>2, OthersStill DEF SameEntry
  <2>8. QED
    BY <1>6, <1>7, <2>1, <2>3, <2>4, <2>5, <2>6, <2>7 DEF HdInv, Core, Traffic
<1>11. QED
  BY <1>6, <1>8, <1>9, <1>10

(***************************************************************************)
(* The disk's layout                                                       *)
(***************************************************************************)

\* What a partition table says, and where logical partitions are in hds_info.
LEMMA Layout ==
    /\ DOMAIN Primary = 1 .. NR_PART_PER_DRIVE
    /\ \A i \in 1 .. NR_PART_PER_DRIVE : Primary[i] \in Partition
    /\ DOMAIN Logical \subseteq 1 .. NR_PART_PER_DRIVE
    /\ \A i \in DOMAIN Logical :
          /\ Len(Logical[i]) \in 1 .. NR_SUB_PER_PART
          /\ \A k \in 1 .. Len(Logical[i]) :
                Logical[i][k] \in [at : Sectors \ {0}, base : Nat, size : Nat]
    /\ NR_SUB_PER_PART \in Nat \ {0}
<1>1. \A i \in DOMAIN Logical : Len(Logical[i]) \in 1 .. NR_SUB_PER_PART
  BY DiskAssumption
<1>2. \A i \in DOMAIN Logical : \A k \in 1 .. Len(Logical[i]) :
          Logical[i][k] \in [at : Sectors \ {0}, base : Nat, size : Nat]
  BY DiskAssumption, ElementOfSeq
<1>3. DOMAIN Primary = 1 .. NR_PART_PER_DRIVE /\ \A i \in 1 .. NR_PART_PER_DRIVE : Primary[i] \in Partition
  BY DiskAssumption DEF Partition
<1>4. QED
  BY <1>1, <1>2, <1>3, DiskAssumption, HdAssumption

\* The indices of different logical partitions are different, and within hds_info.
LEMMA SubIndex ==
    ASSUME NEW i \in 1 .. NR_PART_PER_DRIVE, NEW k \in 1 .. NR_SUB_PER_PART
    PROVE  /\ Sub(i, k) \in 0 .. NR_SUB_PER_DRIVE - 1
           /\ Sub(i, k) \div NR_SUB_PER_PART = i - 1 /\ Sub(i, k) % NR_SUB_PER_PART = k - 1
           /\ Sub(i, k) % NR_SUB_PER_DRIVE = Sub(i, k)
           /\ \A j \in 1 .. NR_PART_PER_DRIVE : \A n \in 1 .. NR_SUB_PER_PART :
                 Sub(i, k) = Sub(j, n) => i = j /\ k = n
<1>1. NR_SUB_PER_PART \in Nat \ {0} /\ NR_PART_PER_DRIVE = 4 /\ NR_SUB_PER_DRIVE = NR_SUB_PER_PART * 4
  BY Layout DEF NR_PART_PER_DRIVE, NR_SUB_PER_DRIVE
<1>2. \A m \in Nat \ {0} : \A q \in Nat : \A r \in 0 .. (m - 1) :
          (m * q + r) \div m = q /\ (m * q + r) % m = r
  OBVIOUS
<1>3. \A j \in 1 .. 4 : \A n \in 1 .. NR_SUB_PER_PART :
          /\ Sub(j, n) = NR_SUB_PER_PART * (j - 1) + (n - 1)
          /\ Sub(j, n) \div NR_SUB_PER_PART = j - 1 /\ Sub(j, n) % NR_SUB_PER_PART = n - 1
  <2> TAKE j \in 1 .. 4
  <2> TAKE n \in 1 .. NR_SUB_PER_PART
  <2>1. Sub(j, n) = NR_SUB_PER_PART * (j - 1) + (n - 1)
    BY <1>1 DEF Sub
  <2>2. j - 1 \in Nat /\ n - 1 \in 0 .. (NR_SUB_PER_PART - 1)
    BY <1>1
  <2>3. QED
    BY <1>1, <1>2, <2>1, <2>2
<1>4. Sub(i, k) \in 0 .. NR_SUB_PER_PART * 4 - 1
  <2>1. Sub(i, k) = NR_SUB_PER_PART * (i - 1) + (k - 1) /\ i \in 1 .. 4
    BY <1>1, <1>3
  <2>2. i - 1 = 0 \/ i - 1 = 1 \/ i - 1 = 2 \/ i - 1 = 3
    BY <2>1
  <2>3. QED
    BY <1>1, <2>1, <2>2
<1>5. Sub(i, k) % NR_SUB_PER_DRIVE = Sub(i, k)
  <2>1. \A m \in Nat \ {0} : \A r \in 0 .. (m - 1) : r % m = r
    OBVIOUS
  <2>2. NR_SUB_PER_PART * 4 \in Nat \ {0}
    BY <1>1
  <2>3. QED
    BY <1>1, <1>4, <2>1, <2>2
<1>6. \A j \in 1 .. 4 : \A n \in 1 .. NR_SUB_PER_PART : Sub(i, k) = Sub(j, n) => i = j /\ k = n
  <2> TAKE j \in 1 .. 4
  <2> TAKE n \in 1 .. NR_SUB_PER_PART
  <2> SUFFICES ASSUME Sub(i, k) = Sub(j, n) PROVE i = j /\ k = n
    OBVIOUS
  <2>1. i \in 1 .. 4
    BY <1>1
  <2>2. i - 1 = j - 1 /\ k - 1 = n - 1
    BY <1>3, <2>1
  <2>3. QED
    BY <1>1, <2>1, <2>2
<1>7. i \in 1 .. 4
  BY <1>1
<1>8. Sub(i, k) \div NR_SUB_PER_PART = i - 1 /\ Sub(i, k) % NR_SUB_PER_PART = k - 1
  BY <1>3, <1>7
<1>9. Sub(i, k) \in 0 .. NR_SUB_PER_DRIVE - 1
  BY <1>1, <1>4
<1> HIDE DEF Sub
<1>10. QED
  BY <1>1, <1>5, <1>6, <1>8, <1>9

\* The device FS works on is a partition, and no table is in it.
LEMMA DevicePlace ==
    ASSUME setting \in Settings
    PROVE  /\ \/ /\ setting.device \in 1 .. NR_PART_PER_DRIVE
                 /\ Primary[setting.device].sys_id = "ORANGE_PART" /\ Place = Extent(setting.device)
              \/ \E i \in DOMAIN Logical : \E k \in 1 .. Len(Logical[i]) :
                    setting.device = MINOR_hd1a + Sub(i, k) /\ Place = SubExtent(i, k)
           /\ Place \in Extents
           /\ \A s \in Place.base .. Place.base + Place.size - 1 : s \in Sectors /\ s \notin Tables
<1> DEFINE d == setting.device
<1>1. d \in Devices /\ \A s \in Place.base .. Place.base + Place.size - 1 : s \in Sectors /\ s \notin Tables
  BY DiskAssumption DEF Place
<1>2. MINOR_hd1a = 16 /\ NR_PART_PER_DRIVE = 4
  BY DEF MINOR_hd1a, NR_PART_PER_DRIVE
<1>3. CASE d \in {i \in 1 .. NR_PART_PER_DRIVE : Primary[i].sys_id = "ORANGE_PART"}
  <2>1. d \in 1 .. 4 /\ Primary[d].sys_id = "ORANGE_PART"
    BY <1>2, <1>3
  <2>2. Place = Extent(d)
    BY <1>2, <2>1 DEF Place, PlaceOf, Extent
  <2>3. Extent(d) \in Extents
    BY <1>2, <2>1, Layout DEF Extent, Extents, Partition
  <2>4. QED
    BY <1>1, <1>2, <2>1, <2>2, <2>3
<1>4. CASE d \in UNION {{Minor(i, k) : k \in 1 .. Len(Logical[i])} : i \in DOMAIN Logical}
  <2>1. PICK i \in DOMAIN Logical : \E k \in 1 .. Len(Logical[i]) : d = Minor(i, k)
    BY <1>4
  <2>2. PICK k \in 1 .. Len(Logical[i]) : d = Minor(i, k)
    BY <2>1
  <2>3. i \in 1 .. NR_PART_PER_DRIVE /\ k \in 1 .. NR_SUB_PER_PART
    BY Layout
  <2>4. d = MINOR_hd1a + Sub(i, k) /\ Sub(i, k) \in Nat
    <3>1. Sub(i, k) \in Nat
      BY <2>3, SubIndex
    <3>2. PICK x \in Int : x = (i - 1) * NR_SUB_PER_PART
      BY <1>2, <2>3, Layout
    <3>3. Minor(i, k) = MINOR_hd1a + x + k - 1 /\ Sub(i, k) = x + k - 1
      BY <3>2 DEF Minor, Sub
    <3>4. QED
      BY <1>2, <2>2, <2>3, <3>1, <3>3, Layout
  <2>5. /\ d - MINOR_hd1a = Sub(i, k) /\ ~(d < MINOR_hd1a)
        /\ Sub(i, k) \div NR_SUB_PER_PART + 1 = i /\ (Sub(i, k) % NR_SUB_PER_PART) + 1 = k
    BY <1>2, <2>3, <2>4, SubIndex
  <2>6. Place = SubExtent(i, k)
    BY <2>5 DEF Place, PlaceOf, SubExtent
  <2>7. SubExtent(i, k) \in Extents
    BY Layout DEF SubExtent, Extents
  <2>8. QED
    BY <1>1, <2>4, <2>6, <2>7
<1>5. QED
  BY <1>1, <1>3, <1>4 DEF Devices

\* Once the tables have been read, hds_info has the place of the device.
LEMMA InfoPlace ==
    ASSUME setting \in Settings, Found
    PROVE  Info(setting.device) = Place
<1>1. MINOR_hd1a = 16 /\ NR_PART_PER_DRIVE = 4 /\ MAX_PRIM_INDEX = 9
  BY DEF MINOR_hd1a, NR_PART_PER_DRIVE, MAX_PRIM_INDEX
<1>2. CASE /\ setting.device \in 1 .. NR_PART_PER_DRIVE
           /\ Primary[setting.device].sys_id = "ORANGE_PART" /\ Place = Extent(setting.device)
  <2>1. Primary[setting.device] # NoPart
    BY <1>2 DEF NoPart
  <2>2. QED
    BY <1>1, <1>2, <2>1 DEF Info, Found, FoundIn
<1>3. ASSUME NEW i \in DOMAIN Logical, NEW k \in 1 .. Len(Logical[i]),
             setting.device = MINOR_hd1a + Sub(i, k), Place = SubExtent(i, k)
      PROVE  Info(setting.device) = Place
  <2>1. i \in 1 .. NR_PART_PER_DRIVE /\ k \in 1 .. NR_SUB_PER_PART
    BY Layout
  <2>2. Sub(i, k) \in Nat /\ Sub(i, k) % NR_SUB_PER_DRIVE = Sub(i, k)
    BY <2>1, SubIndex
  <2>3. Info(setting.device) = logical[Sub(i, k)]
    BY <1>1, <1>3, <2>2 DEF Info
  <2>4. QED
    BY <1>3, <2>1, <2>3 DEF Found, FoundIn
<1>4. QED
  BY <1>2, <1>3, DevicePlace

(***************************************************************************)
(* The driver at work                                                      *)
(***************************************************************************)

\* What FS asks for is whole sectors of the device, as many as fit the register.
LEMMA CallNumbers ==
    ASSUME setting \in Settings, Fits,
           NEW c \in setting.calls, NEW pos \in setting.positions, NEW n \in setting.counts,
           Place.base + pos \div SECTOR_SIZE + n \div SECTOR_SIZE <= Place.base + Place.size
    PROVE  LET from == Place.base + pos \div SECTOR_SIZE
               len == n \div SECTOR_SIZE
           IN  /\ n \in Nat /\ n % SECTOR_SIZE = 0
               /\ n >= SECTOR_SIZE /\ n <= NSECTOR * SECTOR_SIZE
               /\ len \in Nat /\ len >= 1 /\ n # 0
               /\ from \in Nat /\ Place.base <= from
               /\ \A s \in from .. from + len - 1 : s \in Sectors /\ s \notin Tables
               /\ c \in {"DEV_OPEN", "DEV_CLOSE", "DEV_READ", "DEV_WRITE", "DEV_IOCTL"}
<1> DEFINE from == Place.base + pos \div SECTOR_SIZE
           len == n \div SECTOR_SIZE
<1>1. /\ pos \in Nat /\ pos % SECTOR_SIZE = 0 /\ n \in Nat /\ n % SECTOR_SIZE = 0
      /\ c \in {"DEV_OPEN", "DEV_CLOSE", "DEV_READ", "DEV_WRITE", "DEV_IOCTL"}
  BY HdAssumption
<1>2. n >= SECTOR_SIZE /\ n <= NSECTOR * SECTOR_SIZE
  BY DEF Fits
<1>3. len \in Nat /\ len >= 1
  BY <1>1, <1>2, Division, Register
<1>4. pos \div SECTOR_SIZE \in Nat
  BY <1>1, Division
<1>5. Place.base \in Nat /\ Place.size \in Nat
  BY DevicePlace DEF Extents
<1>6. from \in Nat /\ Place.base <= from
  BY <1>4, <1>5
<1>7. from + len <= Place.base + Place.size
  OBVIOUS
<1>8. n # 0
  BY <1>1, <1>3, Division
<1> HIDE DEF from, len
<1>9. \A s \in from .. from + len - 1 : s \in Place.base .. Place.base + Place.size - 1
  BY <1>3, <1>5, <1>6, <1>7
<1>10. \A s \in from .. from + len - 1 : s \in Sectors /\ s \notin Tables
  BY <1>9, DevicePlace
<1>11. QED
  BY <1>1, <1>2, <1>3, <1>6, <1>8, <1>10 DEF from, len

\* The same of the request at hand.
LEMMA Numbers ==
    ASSUME Fields, Asks
    PROVE  /\ Request.cnt \in Nat /\ Request.cnt % SECTOR_SIZE = 0
           /\ Request.cnt >= SECTOR_SIZE /\ Request.cnt <= NSECTOR * SECTOR_SIZE
           /\ Sects \in Nat /\ Sects >= 1 /\ Request.cnt # 0
           /\ From \in Nat /\ Place.base <= From
           /\ \A s \in From .. From + Sects - 1 : s \in Sectors /\ s \notin Tables
           /\ Request.type \in {"DEV_OPEN", "DEV_CLOSE", "DEV_READ", "DEV_WRITE", "DEV_IOCTL"}
BY CallNumbers DEF Fields, Asks, Sects, From

\* It stays what FS asks for as long as hds_info has what it had.
LEMMA AsksKeeps ==
    ASSUME Asks, Request' = Request, UNCHANGED <<setting, calls, expect>>, Found => Found'
    PROVE  Asks' /\ Sects' = Sects /\ From' = From /\ Place' = Place
<1>1. Place' = Place
  BY DEF Place, PlaceOf
<1>2. Sects' = Sects /\ From' = From
  BY <1>1 DEF Sects, From
<1>3. QED
  BY <1>1, <1>2 DEF Asks

\* Where the driver neither sends nor receives, nobody else is affected, and the
\* request stays its own.
LEMMA AtWork ==
    ASSUME Core, p_flags[HD] = {}, UNCHANGED vars, UNCHANGED <<sys_pc, user_pc, fs_pc>>,
           hd_pc \notin {"clock_recv", "round_recv", "receive"},
           hd_pc' \notin {"receive", "dispatch"}
    PROVE  /\ IInv' /\ Traffic' /\ Phase' /\ HdWorks' /\ Request' = msg'
           /\ ~FsIdle' /\ ~FsAsks' /\ ~HdTook' /\ ~HdAnswers'
           /\ Request = IF hd_pc = "dispatch" THEN buf[HD].body ELSE msg
           /\ has_int_msg' = has_int_msg /\ p_flags'[HD] = {} /\ halted' = halted
<1>1. IInv /\ Traffic /\ Phase
  BY DEF Core
<1>2. UNCHANGED <<p_flags, p_recvfrom, p_sendto, has_int_msg, q_sending, buf, halted>>
  BY DEF vars
<1>3. IInv'
  BY <1>1, StepIInv
<1>4. Traffic'
  <2>1. ~HdAwaits
    BY DEF HdAwaits
  <2>2. HdTraffic'
    BY <1>2 DEF HdTraffic, Sending, Receiving
  <2>3. SysTraffic'
    BY <1>1, <1>2, <2>1 DEF Traffic, SysTraffic, Sending, Receiving, Running
  <2>4. FsTraffic' /\ UserTraffic'
    BY <1>1, <1>2 DEF Traffic, FsTraffic, UserTraffic, Sending, Receiving
  <2>5. Mail'
    BY <1>1, <1>2 DEF Traffic, Mail, Sending
  <2>6. QED
    BY <2>2, <2>3, <2>4, <2>5 DEF Traffic
<1>5. FsWaits /\ ~FsIdle /\ ~FsAsks
  BY <1>1 DEF Phase, HdFree, HdAnswers, HdTook, HdWorks, FsIdle, FsAsks, FsWaits
<1>6. FsWaits' /\ HdWorks' /\ ~FsIdle' /\ ~FsAsks'
  BY <1>2, <1>5 DEF FsWaits, FsIdle, FsAsks, HdWorks
<1>7. Phase'
  BY <1>6 DEF Phase
<1>8. ~HdTook' /\ ~HdAnswers'
  BY DEF HdTook, HdAnswers
<1>9. Request' = msg' /\ Request = IF hd_pc = "dispatch" THEN buf[HD].body ELSE msg
  BY <1>5, <1>6 DEF Request
<1>10. QED
  BY <1>2, <1>3, <1>4, <1>6, <1>7, <1>8, <1>9

\* So it is enough to look at the work.
LEMMA WorkDone ==
    ASSUME IInv', Fields', Traffic', Phase', ~FsIdle', ~FsAsks', ~HdTook', ~HdAnswers', ~halted',
           src' = FS, Asks', hd_pc' = "reply" => Finished', hd_pc' # "reply" => Step' /\ Transfer'
    PROVE  HdInv'
BY DEF HdInv, Core, Progress

\* A message the driver has received is the request FS has just made.
LEMMA Took ==
    ASSUME Core, HdTook
    PROVE  /\ buf[HD].source = FS /\ Fresh /\ Asks /\ Request = buf[HD].body
           /\ Request \in HdBodies /\ Request # HARD_INT
<1>1. Phase /\ buf[HD].source = FS /\ Fresh
  BY DEF Core, Progress
<1>2. ~FsAsks
  BY <1>1 DEF Phase, HdFree, HdTook, HdWorks, HdAnswers, FsIdle, FsWaits, FsAsks
<1>3. Request = buf[HD].body
  BY <1>2 DEF Request, HdTook
<1>4. QED
  BY <1>1, <1>3, Constants DEF Fresh, Asks

\* The driver takes up the request.
LEMMA DispatchKeeps ==
    ASSUME Core, ~halted, setting' = setting, HdDispatch
    PROVE  HdInv'
<1>1. /\ p_flags[HD] = {} /\ hd_pc = "dispatch" /\ UNCHANGED vars
      /\ UNCHANGED <<open_cnt, primary, logical, part, dev, port, disk, fsbuf>>
      /\ UNCHANGED <<sys_pc, user_pc, fs_pc, calls, expect>>
  BY DEF HdDispatch, HdAt, Running, infoVars, devVars, HdKeeps
<1>2. Fields
  BY DEF Core
<1>3. buf[HD].source = FS /\ Fresh
  BY <1>1, Took DEF HdTook
<1>4. Request = buf[HD].body
  BY <1>1, Took DEF HdTook
<1>5. Request \in HdBodies /\ Request # HARD_INT
  BY <1>1, Took DEF HdTook
<1>6. /\ Request.type \notin {"DEV_CLOSE", "DEV_IOCTL"}
      /\ src' = FS /\ msg' = Request /\ mask' = "BSY" /\ hd_pc' = "clock"
      /\ job' = IF Request.type = "DEV_OPEN" THEN "identify" ELSE "rw"
      /\ byte_left' = Request.cnt
  BY <1>3, <1>4, <1>5 DEF HdDispatch, Begin
<1>7. /\ IInv' /\ Traffic' /\ Phase' /\ Request' = msg'
      /\ ~FsIdle' /\ ~FsAsks' /\ ~HdTook' /\ ~HdAnswers'
      /\ has_int_msg' = has_int_msg /\ halted' = halted
  BY <1>1, <1>6, AtWork
<1>8. Request' = Request
  BY <1>6, <1>7
<1>9. Found' <=> Found
  BY <1>1 DEF Found, FoundIn
<1>10. Asks' /\ Sects' = Sects /\ From' = From
  BY <1>1, <1>3, <1>8, <1>9, AsksKeeps DEF Fresh
<1>11. Request.cnt \in Nat /\ Request.cnt % SECTOR_SIZE = 0 /\ Sects \in Nat /\ Sects >= 1 /\ From \in Nat
       /\ Request.type \in {"DEV_OPEN", "DEV_CLOSE", "DEV_READ", "DEV_WRITE", "DEV_IOCTL"}
  BY <1>2, <1>3, Numbers DEF Fresh
<1>12. Fields'
  BY <1>1, <1>2, <1>5, <1>6, <1>11, Constants DEF Fields, Places, Polling, Fits
<1>13. Step'
  <2>1. Quiet'
    BY <1>1, <1>3, <1>7 DEF Fresh, Quiet
  <2>2. QED
    BY <1>6, <2>1 DEF Step, Polling
<1>14. Transfer'
  <2>1. \A s, n : DiskBut(s, n)' <=> DiskBut(s, n)
    BY <1>1 DEF DiskBut
  <2>2. CASE Request.type = "DEV_OPEN"
    BY <1>1, <1>3, <1>6, <1>8, <1>9, <2>1, <2>2 DEF Transfer, Fresh, Untouched
  <2>3. CASE Request.type # "DEV_OPEN"
    <3>1. Left' = Sects
      BY <1>6 DEF Left, Sects
    <3>2. job' = "rw" /\ hd_pc' \in Polling /\ Request.type \in {"DEV_READ", "DEV_WRITE"}
      BY <1>6, <1>11, <2>3 DEF Polling
    <3>3. CASE Request.type = "DEV_READ"
      <4>1. Len(fsbuf') = Sects' - Left' /\ fsbuf' = << >> /\ DiskBut(0, 0)'
        BY <1>1, <1>3, <1>10, <1>11, <2>1, <3>1, <3>3 DEF Fresh, Untouched
      <4>2. QED
        BY <1>6, <1>8, <1>10, <1>11, <3>1, <3>2, <3>3, <4>1 DEF Transfer
    <3>4. CASE Request.type = "DEV_WRITE"
      <4>1. fsbuf' = expect'.buf /\ DiskBut(From, Sects)
        BY <1>1, <1>3, <3>4 DEF Fresh, Untouched
      <4>2. From' + Sects' - Left' = From /\ Left' = Sects
        BY <1>10, <1>11, <3>1
      <4>3. DiskBut(From + Sects - Left, Left)'
        BY <1>1, <4>1, <4>2 DEF DiskBut
      <4>4. QED
        BY <1>6, <1>8, <1>10, <1>11, <3>1, <3>2, <3>4, <4>1, <4>3 DEF Transfer
    <3>5. QED
      BY <3>2, <3>3, <3>4
  <2>4. QED
    BY <2>2, <2>3
<1>15. QED
  BY <1>6, <1>7, <1>10, <1>12, <1>13, <1>14, WorkDone

\* DEV_CLOSE and DEV_IOCTL are answered at once.
LEMMA ServeKeeps ==
    ASSUME Core, ~halted, setting' = setting, HdClose \/ HdIoctl
    PROVE  HdInv'
<1>1. /\ p_flags[HD] = {} /\ hd_pc = "dispatch" /\ UNCHANGED vars /\ hd_pc' = "reply"
      /\ src' = buf[HD].source /\ msg' = buf[HD].body
      /\ UNCHANGED <<job, mask, byte_left, primary, logical, part, dev, port, disk>>
      /\ UNCHANGED <<sys_pc, user_pc, fs_pc, calls, expect>>
  BY DEF HdClose, HdIoctl, HdAt, Running, infoVars, devVars, HdKeeps
<1>2. Fields
  BY DEF Core
<1>3. Fresh /\ Asks /\ buf[HD].source = FS /\ Request = buf[HD].body /\ Request \in HdBodies
  BY <1>1, Took DEF HdTook
<1>4. /\ IInv' /\ Traffic' /\ Phase' /\ Request' = msg'
      /\ ~FsIdle' /\ ~FsAsks' /\ ~HdTook' /\ ~HdAnswers'
      /\ has_int_msg' = has_int_msg /\ halted' = halted
  BY <1>1, AtWork
<1>5. Found' <=> Found
  BY <1>1 DEF Found, FoundIn
<1>6. Asks'
  BY <1>1, <1>3, <1>4, <1>5, AsksKeeps
<1>7. /\ Request.type # "DEV_OPEN" /\ Request.type # "DEV_WRITE" /\ Found
      /\ open_cnt' \in Nat /\ open_cnt' <= calls'
      /\ fsbuf' = expect.buf /\ fsbuf' \in Seq(Cells)
  <2>1. CASE HdClose
    <3>1. Request.type = "DEV_CLOSE" /\ open_cnt' = open_cnt - 1 /\ fsbuf' = fsbuf
      BY <1>3, <2>1 DEF HdClose
    <3>2. fsbuf = expect.buf /\ open_cnt > 0 /\ Found
      BY <1>3, <3>1 DEF Fresh, Untouched, Asks
    <3>3. open_cnt' \in Nat /\ open_cnt' <= calls'
      BY <1>1, <1>2, <1>3, <3>1, <3>2 DEF Fields, Fresh
    <3>4. QED
      BY <1>2, <3>1, <3>2, <3>3 DEF Fields
  <2>2. CASE HdIoctl
    <3>1. /\ Request.type = "DEV_IOCTL" /\ open_cnt' = open_cnt
          /\ fsbuf' = <<<<Info(setting.device).base, Info(setting.device).size>>>>
      BY <1>3, <2>2 DEF HdIoctl, infoVars
    <3>2. Found /\ expect.buf = <<<<Place.base, Place.size>>>>
      BY <1>3, <3>1 DEF Asks
    <3>3. Info(setting.device) = Place /\ Place \in Extents
      BY <1>2, <3>2, InfoPlace, DevicePlace DEF Fields
    <3>4. <<Place.base, Place.size>> \in Cells
      BY <3>3 DEF Extents, Cells
    <3>5. QED
      BY <1>1, <1>2, <3>1, <3>2, <3>3, <3>4 DEF Fields
  <2>3. QED
    BY <2>1, <2>2
<1>8. Fields'
  BY <1>1, <1>2, <1>3, <1>7, Constants DEF Fields, Places, Fits
<1>9. Finished'
  <2>1. Quiet' /\ DiskBut(0, 0)'
    BY <1>1, <1>3, <1>4, <1>7 DEF Fresh, Quiet, Untouched, DiskBut
  <2>2. QED
    BY <1>1, <1>5, <1>7, <2>1 DEF Finished
<1>10. QED
  BY <1>1, <1>3, <1>4, <1>6, <1>8, <1>9, WorkDone

\* What is known while the driver works and does not wait for a message.
LEMMA Working ==
    ASSUME Core, HdWorks
    PROVE  /\ IInv /\ Fields /\ Traffic /\ src = FS /\ Asks /\ Request = msg
           /\ hd_pc = "reply" => Finished
           /\ hd_pc # "reply" => Step /\ Transfer
           /\ FsWaits /\ ~FsIdle /\ ~FsAsks
<1>1. IInv /\ Fields /\ Traffic /\ Phase /\ Progress
  BY DEF Core
<1>2. FsWaits /\ ~FsIdle /\ ~FsAsks
  BY <1>1 DEF Phase, HdFree, HdAnswers, HdTook, HdWorks, FsIdle, FsAsks, FsWaits
<1>3. Request = msg
  BY <1>2 DEF Request, HdWorks
<1>4. QED
  BY <1>1, <1>2, <1>3 DEF Progress

\* The sectors of the disk that may differ, while nothing is written.
LEMMA DiskStill ==
    ASSUME UNCHANGED <<disk, expect>>, From' = From, Sects' = Sects, Left' = Left
    PROVE  /\ DiskBut(0, 0)' <=> DiskBut(0, 0)
           /\ DiskBut(From + Sects - Left, Left)' <=> DiskBut(From + Sects - Left, Left)
           /\ DiskBut(From + Sects - Left + 1, Left - 1)' <=> DiskBut(From + Sects - Left + 1, Left - 1)
BY DEF DiskBut

\* The status bit is not there yet: waitfor goes on.
LEMMA NotYetKeeps ==
    ASSUME Core, ~halted, setting' = setting, HdNotYet
    PROVE  HdInv'
<1>1. /\ p_flags[HD] = {} /\ hd_pc = "test" /\ hd_pc' = "round" /\ UNCHANGED vars /\ Still
      /\ UNCHANGED <<sys_pc, user_pc, fs_pc>>
  BY DEF HdNotYet, HdAt, Running, infoVars, devVars, HdKeeps, Still
<1>2. HdWorks
  BY <1>1 DEF HdWorks
<1>3. Fields /\ src = FS /\ Asks /\ Request = msg /\ Step /\ Transfer
  BY <1>1, <1>2, Working
<1>4. /\ IInv' /\ Traffic' /\ Phase' /\ Request' = msg'
      /\ ~FsIdle' /\ ~FsAsks' /\ ~HdTook' /\ ~HdAnswers'
      /\ has_int_msg' = has_int_msg /\ halted' = halted
  BY <1>1, AtWork
<1>5. Request' = Request
  BY <1>1, <1>3, <1>4 DEF Still
<1>6. Step' /\ Transfer'
  BY <1>1, <1>3, <1>4, <1>5, WorkStill DEF Polling
<1>7. Fields'
  BY <1>1, <1>3, FieldsStill DEF Fields, Places, Polling
<1>8. Asks'
  BY <1>3, <1>1, <1>5, RequestStill
<1>9. QED
  BY <1>1, <1>3, <1>4, <1>6, <1>7, <1>8, WorkDone DEF Still

\* The disk was too slow: the driver panics.
LEMMA TimeoutKeeps ==
    ASSUME Core, ~halted, setting' = setting, HdTimeout
    PROVE  HdInv'
<1>1. /\ hd_pc = "test" /\ halted' = TRUE /\ UNCHANGED <<p_flags, has_int_msg, buf>>
      /\ UNCHANGED <<hd_pc, primary, logical, disk, fs_pc, calls, expect, fsbuf, sys_pc, user_pc>>
      /\ Still
  BY DEF HdTimeout, HdAt, hdVars, devVars, HdKeeps, Still
<1>2. Fields'
  BY <1>1, FieldsStill DEF Core, Fields
<1>3. RequestsExact' /\ NoStrayInterrupt'
  BY <1>1, <1>2, PanicKeeps DEF FsIdle
<1>4. QED
  BY <1>1, <1>3 DEF HdInv

\* The command has the sectors of the request, or the table that is due.
LEMMA CommandKeeps ==
    ASSUME Core, ~halted, setting' = setting, HdCommand
    PROVE  HdInv'
<1>1. /\ p_flags[HD] = {} /\ hd_pc = "test" /\ UNCHANGED vars /\ mask = "BSY"
      /\ dev' = Command /\ hd_pc' = (IF Writes THEN "clock" ELSE "int") /\ mask' = "DRQ"
      /\ UNCHANGED <<src, msg, job, byte_left, open_cnt, primary, logical, part, port, disk, fsbuf>>
      /\ UNCHANGED <<sys_pc, user_pc, fs_pc, calls, expect>>
  BY DEF HdCommand, HdAt, Running, infoVars, HdKeeps
<1>2. Fields /\ src = FS /\ Asks /\ Request = msg /\ Step /\ Transfer
  BY <1>1, Working DEF HdWorks
<1>3. /\ IInv' /\ Traffic' /\ Phase' /\ Request' = msg'
      /\ ~FsIdle' /\ ~FsAsks' /\ ~HdTook' /\ ~HdAnswers'
      /\ has_int_msg' = has_int_msg /\ halted' = halted
  BY <1>1, AtWork
<1>4. Request' = Request /\ (Found' <=> Found) /\ Left' = Left
  BY <1>1, <1>2, <1>3 DEF Found, FoundIn, Left
<1>5. Asks' /\ Sects' = Sects /\ From' = From
  BY <1>1, <1>2, <1>4, AsksKeeps
<1>6. ~has_int_msg[HD]
  BY <1>1, <1>2 DEF Step, Polling, Quiet
<1>7. /\ Sects \in Nat /\ Sects >= 1 /\ From \in Nat /\ From \in Sectors
      /\ Request.cnt \in Nat /\ Request.cnt % SECTOR_SIZE = 0
      /\ Request.cnt >= SECTOR_SIZE /\ Request.cnt <= NSECTOR * SECTOR_SIZE
      /\ Request.type \in {"DEV_OPEN", "DEV_CLOSE", "DEV_READ", "DEV_WRITE", "DEV_IOCTL"}
  BY <1>2, Numbers
<1>8. /\ dev' \in [st : {"idle", "busy", "drq", "writing"},
                   op : {"none", "ATA_IDENTIFY", "ATA_READ", "ATA_WRITE"}, lba : Sectors, left : Nat]
      /\ Commanded(IF job = "rw" THEN Left ELSE 1)' /\ dev'.st = "busy"
  <2>1. CASE job = "identify"
    <3>1. dev' = [st |-> "busy", op |-> "ATA_IDENTIFY", lba |-> 0, left |-> 1]
      BY <1>1, <2>1 DEF Command
    <3>2. QED
      BY <1>1, <2>1, <3>1, DiskAssumption DEF Commanded
  <2>2. CASE job = "table"
    <3>1. dev' = [st |-> "busy", op |-> "ATA_READ", lba |-> part.s, left |-> 1]
      BY <1>1, <2>2 DEF Command
    <3>2. Parsed
      BY <1>2, <2>2 DEF Transfer
    <3>3. part.s \in Sectors
      <4>1. CASE part.i = 0
        BY <1>1, <3>2, <4>1, DiskAssumption DEF Parsed
      <4>2. CASE part.i # 0
        <5>1. /\ part.i \in DOMAIN Logical /\ part.sub < Len(Logical[part.i])
              /\ part.s = Logical[part.i][part.sub + 1].at
          BY <1>1, <1>2, <3>2, <4>2 DEF Parsed, Fields
        <5>2. part.sub + 1 \in 1 .. Len(Logical[part.i])
          BY <1>2, <5>1, Layout DEF Fields
        <5>3. QED
          BY <5>1, <5>2, Layout
      <4>3. QED
        BY <4>1, <4>2
    <3>4. QED
      BY <1>1, <2>2, <3>1, <3>3 DEF Commanded
  <2>3. CASE job = "rw"
    <3>1. /\ byte_left = Request.cnt /\ Left = Sects
          /\ Request.type = "DEV_READ" \/ Request.type = "DEV_WRITE"
      BY <1>1, <1>2, <2>3 DEF Transfer, Left, Sects
    <3>2. StartSector = From
      <4>1. Info(setting.device) = Place
        BY <1>2, <3>1, InfoPlace DEF Asks, Fields
      <4>2. QED
        BY <1>2, <4>1 DEF StartSector, From
    <3>3. dev' = [st |-> "busy", lba |-> From,
                  op |-> IF Request.type = "DEV_READ" THEN "ATA_READ" ELSE "ATA_WRITE",
                  left |-> Sects]
      BY <1>1, <1>2, <1>7, <2>3, <3>2, Register DEF Command, Sects
    <3>4. From' + Sects' - Left' = From /\ Left' = Sects
      BY <1>4, <1>5, <1>7, <3>1
    <3>5. QED
      BY <1>1, <1>4, <1>7, <2>3, <3>1, <3>3, <3>4 DEF Commanded
  <2>4. QED
    BY <1>2, <2>1, <2>2, <2>3 DEF Fields
<1>9. Fields'
  BY <1>1, <1>2, <1>8 DEF Fields, Places, Polling, Fits
<1>10. Step'
  <2>1. Writes' <=> Writes
    BY <1>1 DEF Writes
  <2>2. CASE Writes
    <3>1. Commanded(Left)'
      BY <1>1, <1>8, <2>2 DEF Writes, Commanded
    <3>2. QED
      BY <1>1, <1>3, <1>6, <1>8, <2>1, <2>2, <3>1 DEF Step, Polling
  <2>3. CASE ~Writes
    <3>1. ~Arrived'
      BY <1>1, <1>3, <1>6, <2>3 DEF Arrived
    <3>2. ReadStep'
      BY <1>8, <3>1 DEF ReadStep
    <3>3. QED
      BY <1>1, <2>1, <2>3, <3>2 DEF Step, Polling
  <2>4. QED
    BY <2>2, <2>3
<1>11. Transfer'
  <2>1. /\ DiskBut(0, 0)' <=> DiskBut(0, 0)
        /\ DiskBut(From + Sects - Left, Left)' <=> DiskBut(From + Sects - Left, Left)
    BY <1>1, <1>4, <1>5, DiskStill
  <2>2. CASE job = "identify"
    BY <1>1, <1>2, <1>4, <2>1, <2>2 DEF Transfer
  <2>3. CASE job = "table"
    <3>1. Parsed' <=> Parsed
      BY <1>1 DEF Parsed, FoundIn
    <3>2. QED
      BY <1>1, <1>2, <1>4, <2>1, <2>3, <3>1 DEF Transfer
  <2>4. CASE job = "rw"
    <3>1. CASE Request.type = "DEV_READ"
      BY <1>1, <1>2, <1>4, <1>5, <2>1, <2>4, <3>1 DEF Transfer
    <3>2. CASE Request.type = "DEV_WRITE"
      <4>1. hd_pc \in Polling /\ hd_pc' \in Polling
        BY <1>1, <1>2, <2>4, <3>2 DEF Writes, Polling
      <4>2. QED
        BY <1>1, <1>2, <1>4, <1>5, <2>1, <2>4, <3>2, <4>1 DEF Transfer
    <3>3. QED
      BY <1>2, <2>4, <3>1, <3>2 DEF Transfer
  <2>5. QED
    BY <1>2, <2>2, <2>3, <2>4 DEF Fields
<1>12. QED
  BY <1>1, <1>2, <1>3, <1>5, <1>9, <1>10, <1>11, WorkDone

\* A sector of the buffer goes to the disk.
LEMMA PortWriteKeeps ==
    ASSUME Core, ~halted, setting' = setting, HdPortWrite
    PROVE  HdInv'
<1>1. /\ p_flags[HD] = {} /\ hd_pc = "test" /\ UNCHANGED vars /\ mask = "DRQ" /\ StatusOk
      /\ dev' = [dev EXCEPT !.st = "writing"] /\ hd_pc' = "int"
      /\ UNCHANGED <<src, msg, job, mask, byte_left, open_cnt, primary, logical, part, disk, fsbuf>>
      /\ UNCHANGED <<sys_pc, user_pc, fs_pc, calls, expect>>
  BY DEF HdPortWrite, HdAt, Running, infoVars, HdKeeps
<1>2. Fields /\ src = FS /\ Asks /\ Request = msg /\ Step /\ Transfer
  BY <1>1, Working DEF HdWorks
<1>3. /\ IInv' /\ Traffic' /\ Phase' /\ Request' = msg'
      /\ ~FsIdle' /\ ~FsAsks' /\ ~HdTook' /\ ~HdAnswers'
      /\ has_int_msg' = has_int_msg /\ halted' = halted
  BY <1>1, AtWork
<1>4. Request' = Request /\ (Found' <=> Found) /\ Left' = Left
  BY <1>1, <1>2, <1>3 DEF Found, FoundIn, Left
<1>5. Asks' /\ Sects' = Sects /\ From' = From
  BY <1>1, <1>2, <1>4, AsksKeeps
<1>6. ~has_int_msg[HD] /\ Writes /\ dev.st = "drq" /\ Commanded(Left)
  BY <1>1, <1>2 DEF Step, Polling, StatusOk
<1>7. job = "rw" /\ Request.type = "DEV_WRITE"
  BY <1>2, <1>6 DEF Writes
<1>8. Sects \in Nat /\ From \in Nat /\ Request.cnt \in Nat /\ Request.cnt % SECTOR_SIZE = 0
  BY <1>2, Numbers
<1>9. /\ Left \in Nat /\ 1 <= Left /\ Left <= Sects /\ fsbuf = expect.buf
      /\ DiskBut(From + Sects - Left, Left)
  BY <1>1, <1>2, <1>7, Division DEF Transfer, Polling, Left, Fields
<1>10. /\ dev' \in [st : {"idle", "busy", "drq", "writing"},
                    op : {"none", "ATA_IDENTIFY", "ATA_READ", "ATA_WRITE"}, lba : Sectors, left : Nat]
       /\ dev'.st = "writing" /\ dev'.lba = dev.lba /\ dev'.op = dev.op /\ dev'.left = dev.left
  BY <1>1, <1>2 DEF Fields
<1>11. Fields'
  BY <1>1, <1>2, <1>10 DEF Fields, Places, Polling, Fits
<1>12. port' = expect'.disk[dev'.lba]
  <2>1. (Request.cnt - byte_left) \div SECTOR_SIZE = Sects - Left
    <3>1. /\ Request.cnt = SECTOR_SIZE * Sects /\ byte_left = SECTOR_SIZE * Left
          /\ SECTOR_SIZE \in Nat
      BY <1>2, <1>8, Division, HdAssumption DEF Sects, Left, Fields
    <3>2. Request.cnt - byte_left = SECTOR_SIZE * (Sects - Left) /\ Sects - Left \in Int
      <4>1. \A a, b, c \in Nat : a * b - a * c = a * (b - c)
        OBVIOUS
      <4>2. QED
        BY <1>8, <1>9, <3>1, <4>1
    <3>3. QED
      BY <3>2, Quotient
  <2>2. port' = fsbuf[Sects - Left + 1]
    BY <1>2, <2>1 DEF HdPortWrite
  <2>3. Sects - Left + 1 \in 1 .. Sects /\ From + (Sects - Left + 1) - 1 = From + Sects - Left
    BY <1>8, <1>9
  <2>4. expect.buf = [i \in 1 .. Sects |-> expect.disk[From + i - 1]]
    BY <1>2, <1>7 DEF Asks
  <2>5. port' = expect.disk[From + Sects - Left]
    BY <1>9, <2>2, <2>3, <2>4
  <2>6. dev.lba = From + Sects - Left
    BY <1>6, <1>7 DEF Commanded
  <2>7. QED
    BY <1>1, <1>10, <2>5, <2>6
<1>13. Commanded(Left)'
  BY <1>1, <1>4, <1>5, <1>6, <1>10 DEF Commanded
<1>14. ~Arrived'
  BY <1>1, <1>3, <1>6 DEF Arrived
<1>15. Writes' /\ WriteStep'
  BY <1>1, <1>4, <1>6, <1>9, <1>10, <1>12, <1>13, <1>14 DEF Writes, WriteStep
<1>16. Step'
  BY <1>1, <1>15 DEF Step, Polling
<1>17. Transfer'
  <2>1. DiskBut(From + Sects - Left, Left)'
    BY <1>1, <1>4, <1>5, <1>9, DiskStill
  <2>2. mask' = "BSY" => byte_left' = Request'.cnt
    BY <1>1
  <2>3. QED
    BY <1>1, <1>4, <1>5, <1>7, <1>9, <1>14, <2>1, <2>2 DEF Transfer
<1>18. QED
  BY <1>1, <1>2, <1>3, <1>5, <1>11, <1>16, <1>17, WorkDone

\* The end of a round of hd_rw's loop.
LEMMA LoopLeft ==
    ASSUME Fields, Asks, Transfer, job = "rw", NEW again, Loop(again)
    PROVE  /\ byte_left' \in Nat /\ byte_left' % SECTOR_SIZE = 0 /\ byte_left' # Request.cnt
           /\ Left \in Nat /\ Left >= 1 /\ Left <= Sects /\ Left' = Left - 1
           /\ hd_pc' = IF Left = 1 THEN "reply" ELSE again
<1>1. 1 <= Left /\ Left <= Sects /\ Sects \in Nat /\ Request.cnt \in Nat /\ Request.cnt % SECTOR_SIZE = 0
  BY Numbers DEF Transfer
<1>2. byte_left \in Nat /\ byte_left % SECTOR_SIZE = 0 /\ Left \in Nat /\ byte_left # 0
  BY <1>1, Division DEF Fields, Left
<1>3. byte_left' = byte_left - SECTOR_SIZE /\ hd_pc' = IF byte_left' = 0 THEN "reply" ELSE again
  BY DEF Loop
<1>4. /\ byte_left' \in Nat /\ byte_left' % SECTOR_SIZE = 0 /\ Left' = Left - 1
      /\ byte_left' = 0 <=> Left = 1
  BY <1>2, <1>3, OneLess DEF Left
<1>5. byte_left' # Request.cnt
  <2>1. byte_left' = Request.cnt => Left' = Sects
    BY DEF Left, Sects
  <2>2. QED
    BY <1>1, <1>2, <1>4, <2>1
<1>6. QED
  BY <1>1, <1>2, <1>3, <1>4, <1>5

\* A sector comes from the disk into the buffer: it is the next one of the request.
LEMMA ReadSectorKeeps ==
    ASSUME Core, ~halted, setting' = setting, HdReadSector
    PROVE  HdInv'
<1>1. /\ p_flags[HD] = {} /\ hd_pc = "got" /\ UNCHANGED vars /\ job = "rw" /\ ~Writes
      /\ port_read /\ fsbuf' = Append(fsbuf, Sector) /\ Loop("int")
      /\ UNCHANGED <<src, msg, job, mask, open_cnt, primary, logical, part, port, disk>>
      /\ UNCHANGED <<sys_pc, user_pc, fs_pc, calls, expect>>
  BY DEF HdReadSector, HdAt, Running, infoVars, HdKeeps
<1>2. Fields /\ src = FS /\ Asks /\ Request = msg /\ Step /\ Transfer
  BY <1>1, Working DEF HdWorks
<1>3. /\ byte_left' \in Nat /\ byte_left' % SECTOR_SIZE = 0
      /\ Left \in Nat /\ Left >= 1 /\ Left <= Sects /\ Left' = Left - 1
      /\ hd_pc' = IF Left = 1 THEN "reply" ELSE "int"
  BY <1>1, <1>2, LoopLeft
<1>4. /\ IInv' /\ Traffic' /\ Phase' /\ Request' = msg'
      /\ ~FsIdle' /\ ~FsAsks' /\ ~HdTook' /\ ~HdAnswers'
      /\ has_int_msg' = has_int_msg /\ halted' = halted
  BY <1>1, <1>3, AtWork
<1>5. Request' = Request /\ (Found' <=> Found)
  BY <1>1, <1>2, <1>4 DEF Found, FoundIn
<1>6. Asks' /\ Sects' = Sects /\ From' = From
  BY <1>1, <1>2, <1>5, AsksKeeps
<1>7. /\ Sects \in Nat /\ From \in Nat
      /\ \A s \in From .. From + Sects - 1 : s \in Sectors
  BY <1>2, Numbers
<1>8. /\ Request.type = "DEV_READ" /\ DiskBut(0, 0) /\ Len(fsbuf) = Sects - Left
      /\ \A i \in 1 .. Len(fsbuf) : fsbuf[i] = expect.buf[i]
  BY <1>1, <1>2 DEF Transfer, Writes
<1>9. /\ ~has_int_msg[HD] /\ mask = "DRQ" /\ Arrived /\ dev.st = "drq" /\ dev.left = Left
      /\ dev.op = "ATA_READ" /\ dev.lba = From + Sects - Left /\ port = disk[dev.lba]
  <2>1. ReadStep /\ ~has_int_msg[HD] /\ mask = "DRQ" /\ Arrived
    BY <1>1, <1>2 DEF Step, Arrived
  <2>2. QED
    BY <1>1, <1>8, <2>1 DEF ReadStep, Commanded
<1>10. IF Left = 1 THEN dev' = Idle
       ELSE /\ dev' = [dev EXCEPT !.st = "busy", !.lba = @ + 1, !.left = @ - 1]
            /\ dev'.st = "busy" /\ dev'.op = "ATA_READ"
            /\ dev'.lba = From + Sects - Left + 1 /\ dev'.left = Left - 1
  BY <1>1, <1>2, <1>9 DEF port_read, NextSector, Fields
<1>11. /\ fsbuf' = Append(fsbuf, disk[From + Sects - Left]) /\ fsbuf \in Seq(Cells)
       /\ disk[From + Sects - Left] \in Cells /\ fsbuf' \in Seq(Cells)
       /\ disk[From + Sects - Left] = expect.disk[From + Sects - Left]
  <2>1. From + Sects - Left \in Sectors
    BY <1>3, <1>7
  <2>2. disk = expect.disk
    BY <1>2, <1>8, DiskSame
  <2>3. QED
    BY <1>1, <1>2, <1>9, <2>1, <2>2 DEF Sector, Fields
<1>12. Fields'
  <2>1. Left # 1 => From + Sects - Left + 1 \in Sectors
    BY <1>3, <1>7
  <2>2. dev' \in [st : {"idle", "busy", "drq", "writing"},
                  op : {"none", "ATA_IDENTIFY", "ATA_READ", "ATA_WRITE"}, lba : Sectors, left : Nat]
    <3>1. CASE Left = 1
      BY <1>10, <3>1, DiskAssumption DEF Idle
    <3>2. CASE Left # 1
      <4>1. dev.lba + 1 \in Sectors /\ dev.left - 1 \in Nat
        BY <1>3, <1>9, <2>1, <3>2, <1>7
      <4>2. dev' = [dev EXCEPT !.st = "busy", !.lba = dev.lba + 1, !.left = dev.left - 1]
        BY <1>10, <3>2
      <4>3. QED
        BY <1>2, <4>1, <4>2 DEF Fields
    <3>3. QED
      BY <3>1, <3>2
  <2>3. QED
    BY <1>1, <1>2, <1>3, <1>11, <2>2 DEF Fields, Places, Polling, Fits
<1>13. expect.buf = [i \in 1 .. Sects |-> expect.disk[From + i - 1]]
  BY <1>2, <1>8 DEF Asks
<1>14. /\ Len(fsbuf') = Sects - Left + 1
       /\ \A i \in 1 .. Len(fsbuf') : fsbuf'[i] = expect.buf[i]
  <2>1. Len(fsbuf') = Len(fsbuf) + 1 /\ Len(fsbuf') = Sects - Left + 1
    BY <1>3, <1>7, <1>8, <1>11
  <2>2. ASSUME NEW i \in 1 .. Len(fsbuf')
        PROVE  fsbuf'[i] = expect.buf[i]
    <3>1. CASE i \in 1 .. Len(fsbuf)
      BY <1>8, <1>11, <3>1
    <3>2. CASE i = Len(fsbuf) + 1
      <4>1. fsbuf'[i] = disk[From + Sects - Left]
        BY <1>11, <3>2
      <4>2. i \in 1 .. Sects /\ From + i - 1 = From + Sects - Left
        BY <1>3, <1>7, <1>8, <3>2
      <4>3. QED
        BY <1>11, <1>13, <4>1, <4>2
    <3>3. QED
      BY <1>11, <2>1, <2>2, <3>1, <3>2
  <2>3. QED
    BY <2>1, <2>2
<1>15. DiskBut(0, 0)'
  BY <1>1, <1>8 DEF DiskBut
<1>16. CASE Left = 1
  <2>1. fsbuf' = expect'.buf
    <3>1. Len(fsbuf') = Sects /\ Len(expect.buf) = Sects
      BY <1>7, <1>13, <1>14, <1>16
    <3>2. fsbuf' \in Seq(Cells) /\ expect.buf \in Seq(Cells)
      BY <1>2, <1>11 DEF Fields
    <3>3. \A i \in 1 .. Len(fsbuf') : fsbuf'[i] = expect.buf[i]
      BY <1>14
    <3>4. fsbuf' = expect.buf
      BY <3>1, <3>2, <3>3, SeqEqual
    <3>5. QED
      BY <1>1, <3>4
  <2>2. Quiet'
    BY <1>4, <1>9, <1>10, <1>16 DEF Quiet, Idle
  <2>3. Found'
    BY <1>2, <1>5, <1>8 DEF Asks
  <2>4. Finished' /\ hd_pc' = "reply"
    BY <1>3, <1>15, <1>16, <2>1, <2>2, <2>3 DEF Finished
  <2>5. QED
    BY <1>1, <1>2, <1>4, <1>6, <1>12, <2>4, WorkDone
<1>17. CASE Left # 1
  <2>1. hd_pc' = "int" /\ ~Arrived' /\ ~Writes' /\ dev'.st = "busy"
    BY <1>1, <1>3, <1>4, <1>9, <1>10, <1>17 DEF Arrived, Writes
  <2>2. From' + Sects' - Left' = From + Sects - Left + 1
    BY <1>3, <1>6, <1>7
  <2>3. Commanded(Left)'
    BY <1>1, <1>3, <1>5, <1>8, <1>10, <1>17, <2>2 DEF Commanded
  <2>4. ReadStep'
    BY <1>1, <2>1, <2>3 DEF ReadStep
  <2>5. Step'
    BY <1>1, <1>9, <2>1, <2>4 DEF Step, Polling
  <2>6. Transfer'
    <3>1. Len(fsbuf') = Sects' - Left' /\ 1 <= Left' /\ Left' <= Sects'
      BY <1>3, <1>6, <1>7, <1>14, <1>17
    <3>2. QED
      BY <1>1, <1>5, <1>6, <1>8, <1>9, <1>14, <1>15, <3>1 DEF Transfer
  <2>7. QED
    BY <1>1, <1>2, <1>4, <1>6, <1>12, <2>1, <2>5, <2>6, WorkDone
<1>18. QED
  BY <1>16, <1>17

\* The disk has written a sector.
LEMMA WroteSectorKeeps ==
    ASSUME Core, ~halted, setting' = setting, HdWroteSector
    PROVE  HdInv'
<1>1. /\ p_flags[HD] = {} /\ hd_pc = "got" /\ UNCHANGED vars /\ Writes /\ Loop("clock")
      /\ UNCHANGED <<src, msg, job, mask, open_cnt, primary, logical, part, dev, port, disk, fsbuf>>
      /\ UNCHANGED <<sys_pc, user_pc, fs_pc, calls, expect>>
  BY DEF HdWroteSector, HdAt, Running, infoVars, devVars, HdKeeps
<1>2. Fields /\ src = FS /\ Asks /\ Request = msg /\ Step /\ Transfer
  BY <1>1, Working DEF HdWorks
<1>3. job = "rw" /\ Request.type = "DEV_WRITE"
  BY <1>1, <1>2 DEF Writes
<1>4. /\ byte_left' \in Nat /\ byte_left' % SECTOR_SIZE = 0
      /\ Left \in Nat /\ Left >= 1 /\ Left <= Sects /\ Left' = Left - 1
      /\ hd_pc' = IF Left = 1 THEN "reply" ELSE "clock"
  BY <1>1, <1>2, <1>3, LoopLeft
<1>5. /\ IInv' /\ Traffic' /\ Phase' /\ Request' = msg'
      /\ ~FsIdle' /\ ~FsAsks' /\ ~HdTook' /\ ~HdAnswers'
      /\ has_int_msg' = has_int_msg /\ halted' = halted
  BY <1>1, <1>4, AtWork
<1>6. Request' = Request /\ (Found' <=> Found)
  BY <1>1, <1>2, <1>5 DEF Found, FoundIn
<1>7. Asks' /\ Sects' = Sects /\ From' = From
  BY <1>1, <1>2, <1>6, AsksKeeps
<1>8. Sects \in Nat /\ From \in Nat
  BY <1>2, Numbers
<1>9. /\ ~has_int_msg[HD] /\ mask = "DRQ" /\ Arrived
      /\ IF Left = 1 THEN dev = Idle ELSE dev.st = "drq" /\ Commanded(Left - 1)
  <2>1. WriteStep /\ ~has_int_msg[HD] /\ mask = "DRQ" /\ Arrived
    BY <1>1, <1>2 DEF Step, Arrived
  <2>2. QED
    BY <2>1 DEF WriteStep
<1>10. fsbuf = expect.buf /\ DiskBut(From + Sects - Left + 1, Left - 1)
  BY <1>1, <1>2, <1>3, <1>9 DEF Transfer, Polling
<1>11. Fields'
  BY <1>1, <1>2, <1>4 DEF Fields, Places, Polling, Fits
<1>12. From' + Sects' - Left' = From + Sects - Left + 1
  BY <1>4, <1>7, <1>8
<1>13. CASE Left = 1
  <2>1. \A x \in Sectors : x < From + Sects - Left + 1 \/ x >= From + Sects - Left + 1 + (Left - 1)
    BY <1>4, <1>8, <1>13, DiskAssumption
  <2>2. DiskBut(0, 0)'
    BY <1>1, <1>10, <2>1 DEF DiskBut
  <2>3. Quiet' /\ Found'
    BY <1>1, <1>2, <1>3, <1>5, <1>6, <1>9, <1>13 DEF Quiet, Asks, Idle
  <2>4. Finished' /\ hd_pc' = "reply"
    BY <1>1, <1>4, <1>10, <1>13, <2>2, <2>3 DEF Finished
  <2>5. QED
    BY <1>1, <1>2, <1>5, <1>7, <1>11, <2>4, WorkDone
<1>14. CASE Left # 1
  <2>1. hd_pc' = "clock" /\ Writes' /\ ~has_int_msg'[HD] /\ dev'.st = "drq" /\ mask' = "DRQ"
    BY <1>1, <1>4, <1>5, <1>9, <1>14 DEF Writes
  <2>2. Commanded(Left)'
    BY <1>1, <1>4, <1>6, <1>8, <1>9, <1>12, <1>14, <1>3 DEF Commanded
  <2>3. Step'
    BY <2>1, <2>2 DEF Step, Polling
  <2>4. Transfer'
    <3>1. DiskBut(From + Sects - Left, Left)'
      BY <1>1, <1>4, <1>10, <1>12 DEF DiskBut
    <3>2. 1 <= Left' /\ Left' <= Sects'
      BY <1>4, <1>7, <1>8, <1>14
    <3>3. hd_pc' \in Polling
      BY <2>1 DEF Polling
    <3>4. QED
      BY <1>1, <1>3, <1>6, <1>10, <2>1, <3>1, <3>2, <3>3 DEF Transfer
  <2>5. QED
    BY <1>1, <1>2, <1>5, <1>7, <1>11, <2>1, <2>3, <2>4, WorkDone
<1>15. QED
  BY <1>13, <1>14

(***************************************************************************)
(* Opening the drive: identify, and the partition tables                   *)
(***************************************************************************)

\* What comes from the disk for one of these commands, and what is known of the request.
LEMMA ReadOne ==
    ASSUME Core, hd_pc = "got", p_flags[HD] = {}, job \in {"identify", "table"}, port_read,
           UNCHANGED vars
    PROVE  /\ dev' = Idle /\ ~has_int_msg[HD] /\ Quiet'
           /\ Sector = IF job = "identify" THEN <<Cardinality(Sectors)>> ELSE disk[part.s]
<1>1. Step /\ Transfer
  BY Working DEF HdWorks
<1>2. ReadStep /\ ~has_int_msg[HD] /\ Arrived
  BY <1>1 DEF Step, Writes, Arrived
<1>3. dev.st = "drq" /\ dev.left = 1 /\ dev.lba = (IF job = "identify" THEN 0 ELSE part.s)
      /\ port = IF job = "identify" THEN <<Cardinality(Sectors)>> ELSE disk[dev.lba]
  BY <1>2 DEF ReadStep, Commanded
<1>4. dev' = Idle
  BY <1>3 DEF port_read, NextSector
<1>5. has_int_msg' = has_int_msg
  BY DEF vars
<1>6. QED
  BY <1>2, <1>3, <1>4, <1>5 DEF Sector, Quiet

\* A request to open brings nothing into the buffer, and all is as it was.
LEMMA Opening ==
    ASSUME Core, HdWorks, hd_pc # "reply", job \in {"identify", "table"}
    PROVE  /\ Request.type = "DEV_OPEN" /\ fsbuf = << >> /\ expect.buf = << >> /\ DiskBut(0, 0)
           /\ calls > 1 => Found
           /\ calls > 0
<1>1. Step /\ Transfer /\ Asks
  BY Working
<1>2. Request.type = "DEV_OPEN" /\ fsbuf = << >> /\ DiskBut(0, 0) /\ (calls > 1 => Found)
  BY <1>1 DEF Transfer
<1>3. QED
  BY <1>1, <1>2 DEF Asks

\* Opening is finished when all partitions are found, and goes on until then.
LEMMA OpenGoesOn ==
    ASSUME Core, HdWorks, hd_pc # "reply", job \in {"identify", "table"}, Found => Found',
           UNCHANGED <<setting, calls, expect, fsbuf, disk>>, Request' = Request, Quiet'
    PROVE  /\ Asks' /\ (Found' => Finished')
           /\ Request'.type = "DEV_OPEN" /\ fsbuf' = << >> /\ DiskBut(0, 0)' /\ (calls' > 1 => Found')
           /\ job' = "table" /\ Parsed' => Transfer'
<1>1. /\ Request.type = "DEV_OPEN" /\ fsbuf = << >> /\ expect.buf = << >> /\ DiskBut(0, 0)
      /\ (calls > 1 => Found) /\ Asks
  BY Opening, Working
<1>2. Asks'
  BY <1>1, AsksKeeps
<1>3. DiskBut(0, 0)'
  BY <1>1 DEF DiskBut
<1>4. Request'.type = "DEV_OPEN" /\ fsbuf' = << >> /\ (calls' > 1 => Found')
  BY <1>1
<1>5. Found' => Finished'
  BY <1>1, <1>3 DEF Finished
<1>6. job' = "table" /\ Parsed' => Transfer'
  BY <1>3, <1>4 DEF Transfer
<1>7. QED
  BY <1>2, <1>3, <1>4, <1>5, <1>6

\* hd_identify has the size of the drive; the first open goes on with its tables.
LEMMA IdentifiedKeeps ==
    ASSUME Core, ~halted, setting' = setting, HdIdentified
    PROVE  HdInv'
<1>1. /\ p_flags[HD] = {} /\ hd_pc = "got" /\ UNCHANGED vars /\ job = "identify"
      /\ port_read /\ primary' = [primary EXCEPT ![0] = [base |-> 0, size |-> Sector[1]]] /\ HdOpened
      /\ UNCHANGED <<src, msg, byte_left, logical, port, disk, fsbuf>>
      /\ UNCHANGED <<sys_pc, user_pc, fs_pc, calls, expect>>
  BY DEF HdIdentified, HdAt, Running, HdKeeps
<1>2. HdWorks
  BY <1>1 DEF HdWorks
<1>3. Fields /\ src = FS /\ Asks /\ Request = msg /\ Step /\ Transfer
  BY <1>1, <1>2, Working
<1>4. dev' = Idle /\ Quiet' /\ Sector[1] = Cardinality(Sectors)
  BY <1>1, ReadOne
<1>5. /\ open_cnt' = open_cnt + 1 /\ part' = [table |-> << >>, i |-> 0, s |-> 0, sub |-> 0]
      /\ hd_pc' \in {"clock", "reply"}
      /\ IF open_cnt = 0 THEN job' = "table" /\ mask' = "BSY" /\ hd_pc' = "clock"
         ELSE hd_pc' = "reply" /\ job' = job /\ mask' = mask
  BY <1>1 DEF HdOpened, Begin
<1>6. /\ IInv' /\ Traffic' /\ Phase' /\ Request' = msg'
      /\ ~FsIdle' /\ ~FsAsks' /\ ~HdTook' /\ ~HdAnswers' /\ halted' = halted
  BY <1>1, <1>5, AtWork
<1>7. open_cnt < calls /\ (calls = 1 => open_cnt = 0) /\ (calls > 1 => Found)
  BY <1>1, <1>3 DEF Transfer
<1>8. Found' <=> Found
  <2>1. \A i \in 1 .. NR_PART_PER_DRIVE : primary'[i] = primary[i]
    BY <1>1, <1>3 DEF Fields, NR_PART_PER_DRIVE
  <2>2. QED
    BY <1>1, <2>1 DEF Found, FoundIn
<1>9. primary' \in [0 .. NR_PART_PER_DRIVE -> Extents]
  <2>1. Cardinality(Sectors) \in Nat
    BY DiskAssumption, FS_CardinalityType
  <2>2. [base |-> 0, size |-> Sector[1]] \in Extents
    BY <1>4, <2>1 DEF Extents
  <2>3. primary \in [0 .. NR_PART_PER_DRIVE -> Extents]
    BY <1>3 DEF Fields
  <2>4. QED
    BY <1>1, <2>2, <2>3
<1>10. Fields'
  <2>1. open_cnt' \in Nat /\ open_cnt' <= calls'
    BY <1>1, <1>3, <1>5, <1>7 DEF Fields
  <2>2. dev' \in [st : {"idle", "busy", "drq", "writing"},
                  op : {"none", "ATA_IDENTIFY", "ATA_READ", "ATA_WRITE"}, lba : Sectors, left : Nat]
    BY <1>4, DiskAssumption DEF Idle
  <2>3. part' \in [table : {<< >>, Primary}, i : 0 .. NR_PART_PER_DRIVE + 1, s : Nat, sub : Nat]
    BY <1>5 DEF NR_PART_PER_DRIVE
  <2>4. hd_pc' \in Places /\ job' \in {"identify", "table", "rw"} /\ mask' \in {"BSY", "DRQ"}
    BY <1>3, <1>5 DEF Places, Polling, Fields
  <2>5. QED
    BY <1>1, <1>3, <1>9, <2>1, <2>2, <2>3, <2>4 DEF Fields, Fits
<1>11. /\ Asks' /\ (Found' => Finished')
       /\ job' = "table" /\ Parsed' => Transfer'
  BY <1>1, <1>2, <1>3, <1>4, <1>6, <1>8, OpenGoesOn
<1>12. CASE open_cnt = 0
  <2>1. Parsed'
    BY <1>5, <1>12 DEF Parsed
  <2>2. Step'
    BY <1>4, <1>5, <1>12 DEF Step, Polling
  <2>3. QED
    BY <1>1, <1>3, <1>5, <1>6, <1>10, <1>11, <1>12, <2>1, <2>2, WorkDone
<1>13. CASE open_cnt # 0
  <2>1. calls > 1
    BY <1>3, <1>7, <1>13 DEF Fields, Asks
  <2>2. Finished'
    BY <1>7, <1>8, <1>11, <2>1
  <2>3. QED
    BY <1>1, <1>3, <1>5, <1>6, <1>10, <1>11, <1>13, <2>2, WorkDone
<1>14. QED
  BY <1>12, <1>13

\* The drive's own table has been read.
LEMMA PrimaryTableKeeps ==
    ASSUME Core, ~halted, setting' = setting, HdPrimaryTable
    PROVE  HdInv'
<1>1. /\ p_flags[HD] = {} /\ hd_pc = "got" /\ UNCHANGED vars /\ job = "table" /\ part.i = 0
      /\ port_read /\ part' = [part EXCEPT !.table = Sector, !.i = 1] /\ hd_pc' = "entry"
      /\ UNCHANGED <<src, msg, job, mask, byte_left, open_cnt, primary, logical, port, disk, fsbuf>>
      /\ UNCHANGED <<sys_pc, user_pc, fs_pc, calls, expect>>
  BY DEF HdPrimaryTable, HdAt, Running, HdKeeps
<1>2. HdWorks
  BY <1>1 DEF HdWorks
<1>3. Fields /\ src = FS /\ Asks /\ Request = msg /\ Step /\ Transfer
  BY <1>1, <1>2, Working
<1>4. dev' = Idle /\ Quiet' /\ Sector = disk[part.s]
  BY <1>1, ReadOne
<1>5. Parsed
  BY <1>1, <1>3 DEF Transfer
<1>6. Sector = Primary
  <2>1. part.s = 0 /\ 0 \in Tables
    BY <1>1, <1>5 DEF Parsed, Tables
  <2>2. QED
    BY <1>3, <1>4, <2>1 DEF Fields, Table
<1>7. /\ IInv' /\ Traffic' /\ Phase' /\ Request' = msg'
      /\ ~FsIdle' /\ ~FsAsks' /\ ~HdTook' /\ ~HdAnswers' /\ halted' = halted
  BY <1>1, AtWork
<1>8. part'.table = Primary /\ part'.i = 1 /\ part'.s = part.s /\ part'.sub = part.sub
      /\ part' \in [table : {<< >>, Primary}, i : 0 .. NR_PART_PER_DRIVE + 1, s : Nat, sub : Nat]
  <2>1. part' = [part EXCEPT !.table = Primary, !.i = 1]
    BY <1>1, <1>6
  <2>2. part \in [table : {<< >>, Primary}, i : 0 .. NR_PART_PER_DRIVE + 1, s : Nat, sub : Nat]
    BY <1>3 DEF Fields
  <2>3. 1 \in 0 .. NR_PART_PER_DRIVE + 1
    BY DEF NR_PART_PER_DRIVE
  <2>4. QED
    BY <2>1, <2>2, <2>3
<1>9. Fields'
  BY <1>1, <1>3, <1>4, <1>8, DiskAssumption DEF Fields, Places, Polling, Fits, Idle
<1>10. Parsed'
  BY <1>1, <1>8 DEF Parsed
<1>11. Found' <=> Found
  BY <1>1 DEF Found, FoundIn
<1>12. Asks' /\ Transfer'
  BY <1>1, <1>2, <1>3, <1>4, <1>7, <1>10, <1>11, OpenGoesOn
<1>13. Step'
  BY <1>1, <1>4 DEF Step, Polling
<1>14. QED
  BY <1>1, <1>3, <1>7, <1>9, <1>12, <1>13, WorkDone

\* An entry of the drive's table goes to its place in hds_info.
LEMMA EntryKeeps ==
    ASSUME Core, ~halted, setting' = setting, HdEntry
    PROVE  HdInv'
<1> DEFINE e == Primary[part.i]
<1>1. /\ p_flags[HD] = {} /\ hd_pc = "entry" /\ UNCHANGED vars /\ part.i <= NR_PART_PER_DRIVE
      /\ UNCHANGED <<src, msg, byte_left, open_cnt, logical, dev, port, disk, fsbuf>>
      /\ UNCHANGED <<sys_pc, user_pc, fs_pc, calls, expect>>
  BY DEF HdEntry, HdAt, Running, devVars, HdKeeps
<1>2. HdWorks
  BY <1>1 DEF HdWorks
<1>3. Fields /\ src = FS /\ Asks /\ Request = msg /\ Step /\ Transfer
  BY <1>1, <1>2, Working
<1>4. job = "table" /\ Quiet /\ Parsed
  BY <1>1, <1>3 DEF Step, Transfer
<1>5. part.i \in 1 .. NR_PART_PER_DRIVE /\ part.table = Primary
  BY <1>1, <1>3, <1>4 DEF Parsed, Fields
<1>6. e \in Partition /\ (e.sys_id = "NO_PART" <=> e = NoPart)
      /\ (e.sys_id = "EXT_PART" <=> part.i \in DOMAIN Logical)
  BY <1>5, Layout, DiskAssumption
<1>7. /\ IF e.sys_id = "NO_PART" THEN primary' = primary
         ELSE primary' = [primary EXCEPT ![part.i] = Extent(part.i)]
      /\ IF e.sys_id = "EXT_PART"
         THEN /\ job' = "table" /\ mask' = "BSY" /\ hd_pc' = "clock"
              /\ part' = [part EXCEPT !.s = e.start, !.sub = 0]
         ELSE part' = [part EXCEPT !.i = @ + 1] /\ UNCHANGED <<hd_pc, job, mask>>
  <2>1. part.table[part.i] = e
    BY <1>5
  <2>2. Extent(part.i) = [base |-> e.start, size |-> e.nr]
    BY DEF Extent
  <2>3. CASE e.sys_id = "NO_PART"
    BY <2>1, <2>3 DEF HdEntry
  <2>4. CASE e.sys_id = "EXT_PART"
    BY <2>1, <2>2, <2>4 DEF HdEntry, Begin
  <2>5. CASE e.sys_id = "ORANGE_PART"
    BY <2>1, <2>2, <2>5 DEF HdEntry, Begin
  <2>6. QED
    BY <1>6, <2>3, <2>4, <2>5 DEF Partition
<1> HIDE DEF e
<1>8. /\ IInv' /\ Traffic' /\ Phase' /\ Request' = msg'
      /\ ~FsIdle' /\ ~FsAsks' /\ ~HdTook' /\ ~HdAnswers' /\ halted' = halted /\ has_int_msg' = has_int_msg
  BY <1>1, <1>7, AtWork
<1>9. /\ primary' \in [0 .. NR_PART_PER_DRIVE -> Extents]
      /\ e.sys_id # "NO_PART" => primary'[part.i] = Extent(part.i)
      /\ \A j \in 1 .. NR_PART_PER_DRIVE : j # part.i => primary'[j] = primary[j]
  <2>1. Extent(part.i) \in Extents
    BY <1>6 DEF Extent, Extents, Partition, e
  <2>2. primary \in [0 .. NR_PART_PER_DRIVE -> Extents] /\ part.i \in 0 .. NR_PART_PER_DRIVE
    BY <1>3, <1>5 DEF Fields
  <2>3. \A j \in 1 .. NR_PART_PER_DRIVE : j \in 0 .. NR_PART_PER_DRIVE
    BY DEF NR_PART_PER_DRIVE
  <2>4. QED
    BY <1>7, <2>1, <2>2, <2>3
<1>10. \A j \in 1 .. NR_PART_PER_DRIVE : FoundIn(j) => FoundIn(j)'
  <2> TAKE j \in 1 .. NR_PART_PER_DRIVE
  <2>1. Primary[j] # NoPart /\ j = part.i => primary'[j] = Extent(j)
    BY <1>6, <1>9 DEF e
  <2>2. FoundIn(j) => (Primary[j] # NoPart => primary'[j] = Extent(j))
    BY <1>9, <2>1 DEF FoundIn
  <2>3. QED
    BY <1>1, <2>2 DEF FoundIn
<1>11. Found => Found'
  BY <1>10 DEF Found
<1>12. part' \in [table : {<< >>, Primary}, i : 0 .. NR_PART_PER_DRIVE + 1, s : Nat, sub : Nat]
       /\ part'.table = Primary
       /\ IF e.sys_id = "EXT_PART" THEN part'.i = part.i /\ part'.s = e.start /\ part'.sub = 0
          ELSE part'.i = part.i + 1
  <2>1. part \in [table : {<< >>, Primary}, i : 0 .. NR_PART_PER_DRIVE + 1, s : Nat, sub : Nat]
    BY <1>3 DEF Fields
  <2>2. part.i + 1 \in 0 .. NR_PART_PER_DRIVE + 1 /\ e.start \in Nat
    BY <1>5, <1>6 DEF NR_PART_PER_DRIVE, Partition
  <2>3. CASE e.sys_id = "EXT_PART"
    <3>1. part' = [part EXCEPT !.s = e.start, !.sub = 0]
      BY <1>7, <2>3
    <3>2. QED
      BY <1>5, <2>1, <2>2, <2>3, <3>1
  <2>4. CASE e.sys_id # "EXT_PART"
    <3>1. part' = [part EXCEPT !.i = part.i + 1]
      BY <1>7, <2>4
    <3>2. QED
      BY <1>5, <2>1, <2>2, <2>4, <3>1
  <2>5. QED
    BY <2>3, <2>4
<1>13. Fields'
  BY <1>1, <1>3, <1>7, <1>9, <1>12 DEF Fields, Places, Polling, Fits
<1>14. Quiet' /\ job' = "table"
  BY <1>1, <1>4, <1>7, <1>8 DEF Quiet
<1>15. Parsed'
  <2>1. \A j \in 1 .. NR_PART_PER_DRIVE : j < part.i => FoundIn(j)'
    BY <1>4, <1>10 DEF Parsed
  <2>2. CASE e.sys_id = "EXT_PART"
    <3>1. part.i \in DOMAIN Logical /\ primary'[part.i] = Extent(part.i)
      BY <1>6, <1>9, <2>2
    <3>2. Len(Logical[part.i]) >= 1 /\ part'.s = Logical[part.i][part'.sub + 1].at /\ part'.sub < Len(Logical[part.i])
      BY <1>12, <2>2, <3>1, Layout, DiskAssumption DEF e
    <3>3. 1 .. part'.sub = {}
      BY <1>12, <2>2
    <3>4. hd_pc' = "clock" /\ part'.i = part.i /\ part.i > 0
      BY <1>5, <1>7, <1>12, <2>2
    <3>5. QED
      BY <1>12, <2>1, <3>1, <3>2, <3>3, <3>4 DEF Parsed
  <2>3. CASE e.sys_id # "EXT_PART"
    <3>1. PICK n \in 1 .. NR_PART_PER_DRIVE : n = part.i
      BY <1>5
    <3>2. FoundIn(n)'
      <4>1. Primary[n] # NoPart => primary'[n] = Extent(n)
        BY <1>6, <1>9, <3>1 DEF e
      <4>2. n \notin DOMAIN Logical
        BY <1>6, <2>3, <3>1
      <4>3. QED
        BY <4>1, <4>2 DEF FoundIn
    <3>3. \A j \in 1 .. NR_PART_PER_DRIVE : j < part'.i => j < part.i \/ j = n
      BY <1>12, <2>3, <3>1 DEF NR_PART_PER_DRIVE
    <3>4. hd_pc' = "entry" /\ part'.i > 0
      BY <1>1, <1>5, <1>7, <1>12, <2>3
    <3>5. QED
      BY <1>12, <2>1, <3>2, <3>3, <3>4 DEF Parsed
  <2>4. QED
    BY <2>2, <2>3
<1>16. Asks' /\ Transfer'
  <2>1. hd_pc # "reply" /\ job \in {"identify", "table"} /\ Request' = Request
    BY <1>1, <1>3, <1>4, <1>8
  <2>2. Asks' /\ (job' = "table" /\ Parsed' => Transfer')
    BY <1>1, <1>2, <1>11, <1>14, <2>1, OpenGoesOn
  <2>3. QED
    BY <1>14, <1>15, <2>2
<1>17. Step'
  BY <1>1, <1>7, <1>14 DEF Step, Polling
<1>18. QED
  BY <1>1, <1>3, <1>7, <1>8, <1>13, <1>16, <1>17, WorkDone DEF Places

\* All the tables have been read: the open is answered.
LEMMA EntriesEndKeeps ==
    ASSUME Core, ~halted, setting' = setting, HdEntriesEnd
    PROVE  HdInv'
<1>1. /\ p_flags[HD] = {} /\ hd_pc = "entry" /\ UNCHANGED vars /\ part.i > NR_PART_PER_DRIVE
      /\ UNCHANGED <<src, msg, job, mask, byte_left, open_cnt, primary, logical, part,
                     dev, port, disk, fsbuf>>
      /\ UNCHANGED <<sys_pc, user_pc, fs_pc, calls, expect>>
  BY DEF HdEntriesEnd, HdAt, Running, infoVars, devVars, HdKeeps
<1>2. HdWorks
  BY <1>1 DEF HdWorks
<1>3. Fields /\ src = FS /\ Asks /\ Request = msg /\ Step /\ Transfer
  BY <1>1, <1>2, Working
<1>4. job = "table" /\ Quiet /\ Parsed
  BY <1>1, <1>3 DEF Step, Transfer
<1>5. part.table = Primary /\ part.i \in Int
  BY <1>1, <1>3, <1>4 DEF Parsed, Fields, NR_PART_PER_DRIVE
<1>6. Found
  <2>1. \A j \in 1 .. NR_PART_PER_DRIVE : j < part.i
    BY <1>1, <1>5 DEF NR_PART_PER_DRIVE
  <2>2. QED
    BY <1>4, <2>1 DEF Parsed, Found
<1>7. hd_pc' = "reply"
  <2>1. \E i \in 1 .. NR_PART_PER_DRIVE : part.table[i].sys_id # "NO_PART"
    BY <1>5, DiskAssumption
  <2>2. QED
    BY <2>1 DEF HdEntriesEnd
<1>8. /\ IInv' /\ Traffic' /\ Phase' /\ Request' = msg'
      /\ ~FsIdle' /\ ~FsAsks' /\ ~HdTook' /\ ~HdAnswers' /\ halted' = halted /\ has_int_msg' = has_int_msg
  BY <1>1, <1>7, AtWork
<1>9. Found' <=> Found
  BY <1>1 DEF Found, FoundIn
<1>10. Asks' /\ Finished'
  <2>1. hd_pc # "reply" /\ job \in {"identify", "table"} /\ Request' = Request /\ Quiet'
    BY <1>1, <1>3, <1>4, <1>8 DEF Quiet
  <2>2. QED
    BY <1>1, <1>2, <1>6, <1>9, <2>1, OpenGoesOn
<1>11. Fields'
  BY <1>1, <1>3, <1>7 DEF Fields, Places, Fits
<1>12. QED
  BY <1>1, <1>3, <1>7, <1>8, <1>10, <1>11, WorkDone

\* The table in front of a logical partition is its own: no two are in one sector.
LEMMA TableAt ==
    ASSUME NEW i \in DOMAIN Logical, NEW k \in 1 .. Len(Logical[i])
    PROVE  LET s == Logical[i][k].at
               t == Table(s)
           IN  /\ s \in Tables /\ s \in Nat /\ s # 0
               /\ t[1].start = Logical[i][k].base - s /\ t[1].nr = Logical[i][k].size
               /\ k = Len(Logical[i]) => t[2] = NoPart
               /\ k # Len(Logical[i]) => t[2].sys_id = "EXT_PART"
               /\ k # Len(Logical[i]) => t[2].start = Logical[i][k + 1].at - Primary[i].start
<1> DEFINE s == Logical[i][k].at
           j == CHOOSE x \in DOMAIN Logical : \E n \in 1 .. Len(Logical[x]) : Logical[x][n].at = s
           m == CHOOSE n \in 1 .. Len(Logical[j]) : Logical[j][n].at = s
<1>1. s \in Sectors \ {0} /\ s \in Nat
  BY Layout, DiskAssumption
<1>2. s \in Tables
  BY DEF Tables
<1>3. j \in DOMAIN Logical /\ \E n \in 1 .. Len(Logical[j]) : Logical[j][n].at = s
  <2>1. \E x \in DOMAIN Logical : \E n \in 1 .. Len(Logical[x]) : Logical[x][n].at = s
    OBVIOUS
  <2>2. QED
    BY <2>1
<1>4. m \in 1 .. Len(Logical[j]) /\ Logical[j][m].at = s
  BY <1>3
<1>5. j = i /\ m = k
  <2>1. Logical[i][k].at = s
    OBVIOUS
  <2> HIDE DEF j, m, s
  <2>2. \A a, b \in DOMAIN Logical : \A x \in 1 .. Len(Logical[a]), y \in 1 .. Len(Logical[b]) :
          Logical[a][x].at = Logical[b][y].at => a = b /\ x = y
    BY DiskAssumption
  <2>3. QED
    BY <1>3, <1>4, <2>1, <2>2
<1>6. Table(s) = <<[sys_id |-> "ORANGE_PART", start |-> Logical[j][m].base - s, nr |-> Logical[j][m].size],
                   IF m = Len(Logical[j]) THEN NoPart
                   ELSE [sys_id |-> "EXT_PART", start |-> Logical[j][m + 1].at - Primary[j].start,
                         nr |-> Logical[j][m + 1].size],
                   NoPart, NoPart>>
  BY <1>1 DEF Table
<1> HIDE DEF j, m, s
<1>7. /\ Table(s)[1] = [sys_id |-> "ORANGE_PART", start |-> Logical[i][k].base - s, nr |-> Logical[i][k].size]
      /\ Table(s)[2] = IF k = Len(Logical[i]) THEN NoPart
                       ELSE [sys_id |-> "EXT_PART", start |-> Logical[i][k + 1].at - Primary[i].start,
                             nr |-> Logical[i][k + 1].size]
  BY <1>5, <1>6
<1>8. QED
  BY <1>1, <1>2, <1>7 DEF s

\* A logical partition goes to its place in hds_info, and the next table is found.
LEMMA LogicalTableKeeps ==
    ASSUME Core, ~halted, setting' = setting, HdLogicalTable
    PROVE  HdInv'
<1> DEFINE i == part.i
           k == part.sub + 1
           more == k # Len(Logical[i])
<1>1. /\ p_flags[HD] = {} /\ hd_pc = "got" /\ UNCHANGED vars /\ job = "table" /\ i > 0 /\ port_read
      /\ UNCHANGED <<src, msg, byte_left, open_cnt, primary, port, disk, fsbuf>>
      /\ UNCHANGED <<sys_pc, user_pc, fs_pc, calls, expect>>
  BY DEF HdLogicalTable, HdAt, Running, HdKeeps
<1>2. HdWorks
  BY <1>1 DEF HdWorks
<1>3. Fields /\ src = FS /\ Asks /\ Request = msg /\ Step /\ Transfer
  BY <1>1, <1>2, Working
<1>4. dev' = Idle /\ Quiet' /\ Sector = disk[part.s]
  BY <1>1, ReadOne
<1>5. Parsed
  BY <1>1, <1>3 DEF Transfer
<1>6. /\ i \in DOMAIN Logical /\ i \in 1 .. NR_PART_PER_DRIVE /\ primary[i] = Extent(i)
      /\ part.sub \in Nat /\ k \in 1 .. Len(Logical[i]) /\ part.s = Logical[i][k].at
      /\ part.table = Primary /\ k \in 1 .. NR_SUB_PER_PART
      /\ Logical[i][k] \in [at : Sectors \ {0}, base : Nat, size : Nat]
      /\ Len(Logical[i]) \in 1 .. NR_SUB_PER_PART /\ Primary[i] \in Partition
  <2>1. /\ i \in DOMAIN Logical /\ primary[i] = Extent(i) /\ part.sub \in Nat
        /\ part.sub < Len(Logical[i]) /\ part.s = Logical[i][k].at /\ part.table = Primary
    BY <1>1, <1>3, <1>5 DEF Parsed, Fields
  <2>2. Len(Logical[i]) \in 1 .. NR_SUB_PER_PART /\ NR_SUB_PER_PART \in Nat
    BY <2>1, Layout
  <2>3. k \in 1 .. Len(Logical[i]) /\ k \in 1 .. NR_SUB_PER_PART
    BY <2>1, <2>2
  <2>4. QED
    BY <2>1, <2>2, <2>3, Layout
<1>7. /\ Sector = Table(part.s)
      /\ part.s + Sector[1].start = Logical[i][k].base /\ Sector[1].nr = Logical[i][k].size
      /\ IF more THEN Sector[2].sys_id = "EXT_PART"
                      /\ Primary[i].start + Sector[2].start = Logical[i][k + 1].at
         ELSE Sector[2].sys_id = "NO_PART" /\ Sector[2].start = 0
  <2>1. part.s \in Tables /\ Sector = Table(part.s)
    BY <1>3, <1>4, <1>6, TableAt DEF Fields
  <2>2. Sector[1].start = Logical[i][k].base - part.s /\ Sector[1].nr = Logical[i][k].size
        /\ part.s \in Nat
    BY <1>6, <2>1, TableAt
  <2>3. part.s + Sector[1].start = Logical[i][k].base
    BY <1>6, <2>2
  <2>4. CASE more
    <3>1. k + 1 \in 1 .. Len(Logical[i])
      BY <1>6, <2>4
    <3>2. Logical[i][k + 1].at \in Nat /\ Primary[i].start \in Nat
      BY <1>6, <3>1, Layout, DiskAssumption DEF Partition
    <3>3. Sector[2].sys_id = "EXT_PART" /\ Sector[2].start = Logical[i][k + 1].at - Primary[i].start
      <4>1. Sector = Table(Logical[i][k].at) /\ k # Len(Logical[i])
        BY <1>6, <2>1, <2>4
      <4> HIDE DEF i, k
      <4>2. /\ Table(Logical[i][k].at)[2].sys_id = "EXT_PART"
            /\ Table(Logical[i][k].at)[2].start = Logical[i][k + 1].at - Primary[i].start
        BY <1>6, <4>1, TableAt
      <4>3. QED
        BY <4>1, <4>2
    <3>4. QED
      BY <2>1, <2>2, <2>3, <2>4, <3>2, <3>3
  <2>5. CASE ~more
    <3>1. Sector[2] = NoPart
      BY <1>6, <2>1, <2>5, TableAt
    <3>2. QED
      BY <2>1, <2>2, <2>3, <2>5, <3>1 DEF NoPart
  <2>6. QED
    BY <2>4, <2>5
<1>8. logical' = [logical EXCEPT ![Sub(i, k)] = SubExtent(i, k)]
  <2>1. Sub(i, k) = (part.i - 1) * NR_SUB_PER_PART + part.sub
    <3>1. PICK x \in Int : x = (part.i - 1) * NR_SUB_PER_PART
      <4>1. part.i \in Int /\ NR_SUB_PER_PART \in Int
        BY <1>6, Layout DEF NR_PART_PER_DRIVE
      <4>2. QED
        BY <4>1
    <3>2. Sub(i, k) = x + (part.sub + 1) - 1
      BY <3>1 DEF Sub
    <3>3. QED
      <4>1. part.sub \in Nat
        BY <1>6
      <4>2. x + (part.sub + 1) - 1 = x + part.sub
        BY <4>1
      <4>3. QED
        BY <3>1, <3>2, <4>2
  <2>2. SubExtent(i, k) = [base |-> LogicalBase(Sector), size |-> Sector[1].nr]
    BY <1>7 DEF SubExtent, LogicalBase
  <2>3. QED
    BY <2>1, <2>2 DEF HdLogicalTable
<1>9. more <=> ~(Sector[2].sys_id = "NO_PART" \/ part.sub + 1 = NR_SUB_PER_PART)
  <2>1. more => k # NR_SUB_PER_PART
    BY <1>6
  <2>2. more => Sector[2].sys_id = "EXT_PART"
    BY <1>7
  <2>3. ~more => Sector[2].sys_id = "NO_PART"
    BY <1>7
  <2>4. QED
    BY <2>1, <2>2, <2>3
<1>10. /\ more => /\ part' = [part EXCEPT !.s = NextTable(Sector), !.sub = @ + 1]
                  /\ job' = "table" /\ mask' = "BSY" /\ hd_pc' = "clock"
       /\ ~more => /\ part' = [part EXCEPT !.s = NextTable(Sector), !.i = @ + 1]
                   /\ hd_pc' = "entry" /\ UNCHANGED <<job, mask>>
  BY <1>9 DEF HdLogicalTable, Begin
<1>11. NextTable(Sector) \in Nat /\ (more => NextTable(Sector) = Logical[i][k + 1].at)
  <2>1. primary[part.i].base = Primary[i].start /\ Primary[i].start \in Nat
    BY <1>6 DEF Extent, Partition
  <2>2. CASE more
    <3>1. k + 1 \in 1 .. Len(Logical[i])
      BY <1>6, <2>2
    <3>2. Logical[i][k + 1].at \in Nat
      BY <1>6, <3>1, Layout, DiskAssumption
    <3>3. NextTable(Sector) = Logical[i][k + 1].at
      BY <1>7, <2>1, <2>2 DEF NextTable
    <3>4. QED
      BY <3>2, <3>3
  <2>3. CASE ~more
    BY <1>7, <2>1, <2>3 DEF NextTable
  <2>4. QED
    BY <2>2, <2>3
<1>12. /\ part' \in [table : {<< >>, Primary}, i : 0 .. NR_PART_PER_DRIVE + 1, s : Nat, sub : Nat]
       /\ part'.table = Primary
       /\ IF more THEN part'.i = i /\ part'.sub = k /\ part'.s = Logical[i][k + 1].at
          ELSE part'.i = i + 1
  <2>1. part \in [table : {<< >>, Primary}, i : 0 .. NR_PART_PER_DRIVE + 1, s : Nat, sub : Nat]
    BY <1>3 DEF Fields
  <2>2. k \in Nat /\ i + 1 \in 0 .. NR_PART_PER_DRIVE + 1
    BY <1>6 DEF NR_PART_PER_DRIVE
  <2>3. CASE more
    <3>1. part' = [part EXCEPT !.s = Logical[i][k + 1].at, !.sub = k]
      BY <1>10, <1>11, <2>3
    <3>2. Logical[i][k + 1].at \in Nat
      BY <1>11, <2>3
    <3>3. QED
      BY <1>6, <2>1, <2>2, <2>3, <3>1, <3>2
  <2>4. CASE ~more
    <3>1. PICK n \in Nat : n = NextTable(Sector)
      BY <1>11
    <3>2. part' = [part EXCEPT !.s = n, !.i = i + 1]
      BY <1>10, <2>4, <3>1
    <3>3. QED
      BY <1>6, <2>1, <2>2, <2>4, <3>2
  <2>5. QED
    BY <2>3, <2>4
<1>13. hd_pc' \in {"clock", "entry"} /\ job' = "table" /\ mask' \in {"BSY", "DRQ"}
       /\ (hd_pc' = "clock" => mask' = "BSY")
  BY <1>1, <1>3, <1>10 DEF Fields
<1>14. /\ logical' \in [0 .. NR_SUB_PER_DRIVE - 1 -> Extents]
       /\ logical'[Sub(i, k)] = SubExtent(i, k)
       /\ \A j \in DOMAIN Logical : \A n \in 1 .. Len(Logical[j]) :
             j # i \/ n # k => logical'[Sub(j, n)] = logical[Sub(j, n)]
  <2>1. Sub(i, k) \in 0 .. NR_SUB_PER_DRIVE - 1 /\ SubExtent(i, k) \in Extents
    BY <1>6, SubIndex DEF SubExtent, Extents
  <2>2. logical \in [0 .. NR_SUB_PER_DRIVE - 1 -> Extents]
    BY <1>3 DEF Fields
  <2>3. ASSUME NEW j \in DOMAIN Logical, NEW n \in 1 .. Len(Logical[j]), j # i \/ n # k
        PROVE  logical'[Sub(j, n)] = logical[Sub(j, n)]
    <3>1. j \in 1 .. NR_PART_PER_DRIVE /\ n \in 1 .. NR_SUB_PER_PART
      BY Layout
    <3>2. Sub(j, n) # Sub(i, k) /\ Sub(j, n) \in 0 .. NR_SUB_PER_DRIVE - 1
      <4>1. i \in 1 .. NR_PART_PER_DRIVE /\ k \in 1 .. NR_SUB_PER_PART
        BY <1>6
      <4>2. Sub(i, k) = Sub(j, n) => i = j /\ k = n
        BY <3>1, <4>1, SubIndex
      <4>3. Sub(j, n) \in 0 .. NR_SUB_PER_DRIVE - 1
        BY <3>1, SubIndex
      <4>4. QED
        BY <2>3, <4>2, <4>3
    <3>3. QED
      <4>1. logical'[Sub(j, n)] = [logical EXCEPT ![Sub(i, k)] = SubExtent(i, k)][Sub(j, n)]
        BY <1>8
      <4>2. QED
        BY <2>2, <3>2, <4>1, Zenon
  <2>4. QED
    BY <1>8, <2>1, <2>2, <2>3
<1> HIDE DEF i, k, more
<1>15. \A j \in 1 .. NR_PART_PER_DRIVE : FoundIn(j) => FoundIn(j)'
  <2> TAKE j \in 1 .. NR_PART_PER_DRIVE
  <2> SUFFICES ASSUME FoundIn(j) PROVE FoundIn(j)'
    OBVIOUS
  <2>1. ASSUME j \in DOMAIN Logical, NEW n \in 1 .. Len(Logical[j])
        PROVE  logical'[Sub(j, n)] = SubExtent(j, n)
    <3>1. CASE j = i /\ n = k
      BY <1>14, <3>1
    <3>2. CASE j # i \/ n # k
      BY <1>14, <2>1, <3>2 DEF FoundIn
    <3>3. QED
      BY <3>1, <3>2
  <2>2. QED
    BY <1>1, <2>1 DEF FoundIn
<1>16. Found => Found'
  BY <1>15 DEF Found
<1>17. \A n \in 1 .. k : logical'[Sub(i, n)] = SubExtent(i, n)
  <2> TAKE n \in 1 .. k
  <2>1. n \in 1 .. Len(Logical[i])
    BY <1>6
  <2>2. CASE n = k
    BY <1>14, <2>2
  <2>3. CASE n # k
    <3>1. n \in 1 .. part.sub /\ part.i > 0
      BY <1>1, <1>6, <2>3 DEF k, i
    <3>2. logical[Sub(i, n)] = SubExtent(i, n)
      BY <1>1, <1>5, <3>1 DEF Parsed, i
    <3>3. QED
      BY <1>6, <1>14, <2>1, <2>3, <3>2
  <2>4. QED
    BY <2>2, <2>3
<1>18. Parsed'
  <2>1. \A j \in 1 .. NR_PART_PER_DRIVE : j < i => FoundIn(j)'
    BY <1>5, <1>15 DEF Parsed, i
  <2>2. CASE more
    <3>1. hd_pc' = "clock" /\ part'.i = i /\ part'.sub = k /\ part'.s = Logical[i][k + 1].at
      BY <1>10, <1>12, <2>2
    <3>2. part'.sub < Len(Logical[i])
      BY <1>6, <2>2, <3>1 DEF more
    <3>3. QED
      BY <1>1, <1>6, <1>12, <1>17, <2>1, <3>1, <3>2 DEF Parsed
  <2>3. CASE ~more
    <3>1. PICK n \in 1 .. NR_PART_PER_DRIVE : n = i
      BY <1>6
    <3>2. FoundIn(n)'
      <4>1. primary'[n] = Extent(n)
        BY <1>1, <1>6, <3>1
      <4>2. \A x \in 1 .. Len(Logical[n]) : logical'[Sub(n, x)] = SubExtent(n, x)
        BY <1>17, <2>3, <3>1 DEF more
      <4>3. QED
        BY <4>1, <4>2 DEF FoundIn
    <3>3. \A j \in 1 .. NR_PART_PER_DRIVE : j < part'.i => j < i \/ j = n
      BY <1>12, <2>3, <3>1 DEF NR_PART_PER_DRIVE
    <3>4. hd_pc' = "entry" /\ part'.i > 0
      BY <1>6, <1>10, <1>12, <2>3
    <3>5. QED
      BY <1>12, <2>1, <3>2, <3>3, <3>4 DEF Parsed
  <2>4. QED
    BY <2>2, <2>3
<1>19. /\ IInv' /\ Traffic' /\ Phase' /\ Request' = msg'
       /\ ~FsIdle' /\ ~FsAsks' /\ ~HdTook' /\ ~HdAnswers' /\ halted' = halted
  BY <1>1, <1>13, AtWork
<1>20. Asks' /\ Transfer'
  <2>1. hd_pc # "reply" /\ job \in {"identify", "table"} /\ Request' = Request
    BY <1>1, <1>3, <1>19
  <2>2. Asks' /\ (job' = "table" /\ Parsed' => Transfer')
    BY <1>1, <1>2, <1>4, <1>16, <2>1, OpenGoesOn
  <2>3. QED
    BY <1>13, <1>18, <2>2
<1>21. Fields'
  BY <1>1, <1>3, <1>4, <1>12, <1>13, <1>14, DiskAssumption DEF Fields, Places, Polling, Fits, Idle
<1>22. Step'
  BY <1>4, <1>13 DEF Step, Polling
<1>23. QED
  BY <1>1, <1>3, <1>13, <1>19, <1>20, <1>21, <1>22, WorkDone

(***************************************************************************)
(* The messages of the driver                                              *)
(***************************************************************************)

\* The traffic of the other processes depends on their own entries.
LEMMA UsersFrame ==
    ASSUME Traffic, user_pc' = user_pc, \A u \in Users : SameEntry(u)
    PROVE  UserTraffic'
BY DEF Traffic, UserTraffic, SameEntry, Sending, Receiving

\* The mail of two processes that change, when all the others stay.
LEMMA MailFrame ==
    ASSUME Traffic, NEW p \in Procs, NEW q \in Procs, \A x \in Procs \ {p, q} : SameEntry(x),
           Sending(p)' => buf'[p].source = p /\ buf'[p].body \in HdBodies,
           Sending(q)' => buf'[q].source = q /\ buf'[q].body \in HdBodies,
           p # HD => has_int_msg'[p] = FALSE /\ buf'[p].body \in HdBodies,
           q # HD => has_int_msg'[q] = FALSE /\ buf'[q].body \in HdBodies
    PROVE  Mail'
BY DEF Traffic, Mail, SameEntry, Sending

\* While the driver polls, asking for the time changes nothing of its work.
LEMMA PollStill ==
    ASSUME Core, Still, hd_pc \in Polling, hd_pc' \in Polling, fs_pc' = fs_pc, SameEntry(FS),
           has_int_msg'[HD] = has_int_msg[HD]
    PROVE  Phase' /\ Progress'
<1>1. HdWorks /\ HdWorks' /\ hd_pc # "reply" /\ hd_pc' # "reply"
  BY DEF HdWorks, Polling
<1>2. src = FS /\ Asks /\ Request = msg /\ Step /\ Transfer /\ FsWaits
  BY <1>1, Working
<1>3. FsWaits' /\ ~FsIdle' /\ ~FsAsks'
  BY <1>2 DEF FsWaits, FsIdle, FsAsks, SameEntry
<1>4. ~HdTook' /\ ~HdAnswers'
  BY DEF HdTook, HdAnswers, Polling
<1>5. Request' = Request /\ src' = src
  BY <1>1, <1>2, <1>3 DEF Request, HdWorks, Still
<1>6. Step' /\ Transfer'
  BY <1>2, <1>5, WorkStill
<1>7. Asks'
  BY <1>2, <1>5, RequestStill
<1>8. QED
  BY <1>1, <1>2, <1>3, <1>4, <1>5, <1>6, <1>7 DEF Phase, Progress

\* get_ticks: the SEND ...
LEMMA AskTicksKeeps ==
    ASSUME Core, ~halted, setting' = setting, HdAskTicks
    PROVE  HdInv'
<1> DEFINE b == Body("GET_TICKS", 0, 0)
<1>1. /\ p_flags[HD] = {} /\ msg_send(HD, SYS, b) /\ Still
      /\ hd_pc \in {"clock", "round"} /\ hd_pc' \in {"clock_recv", "round_recv"}
      /\ UNCHANGED <<sys_pc, user_pc, fs_pc>>
  BY DEF HdAskTicks, HdAt, Running, infoVars, devVars, HdKeeps, Still
<1>2. IInv /\ Fields /\ Traffic
  BY DEF Core
<1>3. HD \in Procs /\ SYS \in Procs \ {HD} /\ FS # HD /\ FS # SYS /\ b \in HdBodies /\ b \in Bodies
  BY Constants
<1>4. IInv' /\ (Panics \/ Delivered(HD, SYS, b) \/ Queued(HD, SYS, b))
  BY <1>1, <1>2, <1>3, Sends
<1> HIDE DEF b
<1>5. Fields'
  BY <1>1, <1>2, FieldsStill DEF Fields, Places, Polling
<1>6. ~HdAwaits
  BY <1>1 DEF HdAwaits
<1>7. hd_pc \in Polling /\ hd_pc' \in Polling
  BY <1>1 DEF Polling
<1>8. CASE Panics
  <2>1. RequestsExact' /\ NoStrayInterrupt'
    BY <1>1, <1>5, <1>8, PanicKeeps DEF Panics, Still, FsIdle
  <2>2. QED
    BY <1>8, <2>1 DEF HdInv, Panics
<1>9. CASE Delivered(HD, SYS, b)
  <2>1. /\ p_flags[SYS] = {"RECEIVING"} /\ p_flags'[SYS] = {} /\ p_flags'[HD] = {}
        /\ buf'[SYS] = [source |-> HD, body |-> b] /\ buf'[HD] = [source |-> HD, body |-> b]
        /\ has_int_msg'[SYS] = has_int_msg[SYS] /\ has_int_msg'[HD] = has_int_msg[HD]
        /\ \A x \in Procs \ {HD, SYS} : SameEntry(x)
        /\ ~halted'
    BY <1>9 DEF Delivered
  <2>2. SameEntry(FS) /\ \A u \in Users : SameEntry(u)
    BY <1>3, <2>1, Constants
  <2>3. HdTraffic' /\ HdAwaits'
    BY <1>1, <2>1 DEF HdTraffic, HdAwaits, Sending, Receiving
  <2>4. SysTraffic'
    BY <1>1, <2>1, <2>3 DEF SysTraffic, Sending, Receiving
  <2>5. FsTraffic' /\ UserTraffic'
    BY <1>1, <1>2, <2>2, TrafficFrame, UsersFrame
  <2>6. Mail'
    <3>1. ~Sending(HD)' /\ ~Sending(SYS)' /\ has_int_msg'[SYS] = FALSE
      BY <1>2, <1>3, <2>1 DEF Sending, Traffic, Mail
    <3>2. buf'[SYS].body \in HdBodies
      BY <1>3, <2>1
    <3>3. QED
      BY <1>2, <1>3, <2>1, <3>1, <3>2, MailFrame
  <2>7. Phase' /\ Progress'
    BY <1>1, <1>7, <2>1, <2>2, PollStill
  <2>8. QED
    BY <1>4, <1>5, <2>1, <2>3, <2>4, <2>5, <2>6, <2>7 DEF HdInv, Core, Traffic
<1>10. CASE Queued(HD, SYS, b)
  <2>1. /\ p_flags'[HD] = {"SENDING"} /\ p_sendto'[HD] = SYS
        /\ buf'[HD] = [source |-> HD, body |-> b] /\ has_int_msg'[HD] = has_int_msg[HD]
        /\ \A x \in Procs \ {HD} : SameEntry(x)
        /\ ~halted'
    BY <1>10 DEF Queued
  <2>2. SameEntry(FS) /\ SameEntry(SYS) /\ \A u \in Users : SameEntry(u)
    BY <1>3, <2>1, Constants
  <2>3. HdTraffic'
    BY <1>1, <2>1 DEF HdTraffic, Sending, Receiving
  <2>4. SysTraffic' /\ FsTraffic' /\ UserTraffic'
    BY <1>1, <1>2, <1>6, <2>2, TrafficFrame, UsersFrame
  <2>5. Mail'
    <3>1. buf'[HD].source = HD /\ buf'[HD].body \in HdBodies
      BY <1>3, <2>1
    <3>2. QED
      BY <1>2, <1>3, <2>1, <3>1, MailFrame
  <2>6. Phase' /\ Progress'
    BY <1>1, <1>7, <2>1, <2>2, PollStill
  <2>7. QED
    BY <1>4, <1>5, <2>1, <2>3, <2>4, <2>5, <2>6 DEF HdInv, Core, Traffic
<1>11. QED
  BY <1>4, <1>8, <1>9, <1>10

\* ... and the RECEIVE, which only SYS can end.
LEMMA GetTicksKeeps ==
    ASSUME Core, ~halted, setting' = setting, HdGetTicks
    PROVE  HdInv'
<1>1. /\ p_flags[HD] = {} /\ msg_receive(HD, SYS) /\ Still
      /\ hd_pc \in {"clock_recv", "round_recv"} /\ hd_pc' \in {"round", "test"}
      /\ UNCHANGED <<sys_pc, user_pc, fs_pc>>
  BY DEF HdGetTicks, HdAt, Running, infoVars, devVars, HdKeeps, Still
<1>2. IInv /\ Fields /\ Traffic
  BY DEF Core
<1>3. HD \in Procs /\ SYS \in Sources \ {HD} /\ SYS \in Procs /\ FS # HD /\ FS # SYS
      /\ SYS \notin {ANY, INTERRUPT}
  BY Constants
<1>4. IInv' /\ ~halted' /\ (TookFrom(HD, SYS, SYS) \/ WaitsFor(HD, SYS))
  <2>1. /\ IInv' /\ ~halted'
        /\ TookInterrupt(HD, SYS) \/ (\E from \in Procs \ {HD} : TookFrom(HD, SYS, from)) \/ WaitsFor(HD, SYS)
    BY <1>1, <1>2, <1>3, Receives
  <2>2. ~TookInterrupt(HD, SYS) /\ \A from : TookFrom(HD, SYS, from) => from = SYS
    BY <1>3 DEF TookInterrupt, TookFrom
  <2>3. QED
    BY <2>1, <2>2
<1>5. Fields'
  BY <1>1, <1>2, FieldsStill DEF Fields, Places, Polling
<1>6. hd_pc \in Polling /\ hd_pc' \in Polling
  BY <1>1 DEF Polling
<1>7. CASE TookFrom(HD, SYS, SYS)
  <2>1. /\ p_flags[SYS] = {"SENDING"} /\ p_flags'[SYS] = {} /\ p_flags'[HD] = {}
        /\ buf'[SYS] = buf[SYS]
        /\ has_int_msg'[SYS] = has_int_msg[SYS] /\ has_int_msg'[HD] = has_int_msg[HD]
        /\ \A x \in Procs \ {HD, SYS} : SameEntry(x)
    BY <1>7 DEF TookFrom
  <2>2. SameEntry(FS) /\ \A u \in Users : SameEntry(u)
    BY <1>3, <2>1, Constants
  <2>3. HdTraffic'
    BY <2>1 DEF HdTraffic, Sending, Receiving
  <2>4. SysTraffic'
    <3>1. sys_pc = "receive"
      BY <1>2, <2>1 DEF Traffic, SysTraffic, Sending
    <3>2. QED
      BY <1>1, <2>1, <3>1 DEF SysTraffic, Sending, Receiving
  <2>5. FsTraffic' /\ UserTraffic'
    BY <1>1, <1>2, <2>2, TrafficFrame, UsersFrame
  <2>6. Mail'
    <3>1. ~Sending(HD)' /\ ~Sending(SYS)' /\ has_int_msg[SYS] = FALSE /\ buf[SYS].body \in HdBodies
      BY <1>2, <1>3, <2>1 DEF Sending, Traffic, Mail
    <3>2. QED
      BY <1>2, <1>3, <2>1, <3>1, MailFrame
  <2>7. Phase' /\ Progress'
    BY <1>1, <1>6, <2>1, <2>2, PollStill
  <2>8. QED
    BY <1>4, <1>5, <2>3, <2>4, <2>5, <2>6, <2>7 DEF HdInv, Core, Traffic
<1>8. CASE WaitsFor(HD, SYS)
  <2>1. /\ p_flags'[HD] = {"RECEIVING"} /\ p_recvfrom'[HD] = SYS
        /\ has_int_msg'[HD] = has_int_msg[HD] /\ \A x \in Procs \ {HD} : SameEntry(x)
    BY <1>8 DEF WaitsFor
  <2>2. SameEntry(FS) /\ SameEntry(SYS) /\ \A u \in Users : SameEntry(u)
    BY <1>3, <2>1, Constants
  <2>3. HdTraffic' /\ HdAwaits'
    BY <1>1, <2>1 DEF HdTraffic, HdAwaits, Sending, Receiving
  <2>4. SysTraffic' /\ FsTraffic' /\ UserTraffic'
    BY <1>1, <1>2, <2>2, <2>3, TrafficFrame, UsersFrame
  <2>5. Mail'
    <3>1. ~Sending(HD)'
      BY <2>1 DEF Sending
    <3>2. QED
      BY <1>2, <1>3, <2>1, <3>1, MailFrame
  <2>6. Phase' /\ Progress'
    BY <1>1, <1>6, <2>1, <2>2, PollStill
  <2>7. QED
    BY <1>4, <1>5, <2>3, <2>4, <2>5, <2>6 DEF HdInv, Core, Traffic
<1>9. QED
  BY <1>4, <1>7, <1>8

\* The driver receives the request of FS, or waits for one: nobody else sends to it and
\* no interrupt is pending.
LEMMA ReceiveKeeps ==
    ASSUME Core, ~halted, setting' = setting, HdReceive
    PROVE  HdInv'
<1>1. /\ p_flags[HD] = {} /\ msg_receive(HD, ANY) /\ Still /\ hd_pc = "receive" /\ hd_pc' = "dispatch"
      /\ UNCHANGED <<sys_pc, user_pc, fs_pc>>
  BY DEF HdReceive, HdAt, Running, infoVars, devVars, HdKeeps, Still
<1>2. IInv /\ Fields /\ Traffic /\ Phase /\ Progress
  BY DEF Core
<1>3. HD \in Procs /\ ANY \in Sources \ {HD} /\ SYS \in Procs /\ FS \in Procs /\ FS # HD /\ FS # SYS /\ SYS # HD
  BY Constants
<1>4. FsIdle \/ FsAsks
  BY <1>1, <1>2 DEF Phase, HdTook, HdWorks, HdAnswers
<1>5. Quiet /\ ~HdAwaits
  BY <1>1, <1>2, <1>4 DEF Progress, Finished, Fresh, HdAwaits
<1>6. IInv' /\ ~halted' /\ (TookFrom(HD, ANY, FS) \/ WaitsFor(HD, ANY))
  <2>1. /\ IInv' /\ ~halted'
        /\ TookInterrupt(HD, ANY) \/ (\E from \in Procs \ {HD} : TookFrom(HD, ANY, from)) \/ WaitsFor(HD, ANY)
    BY <1>1, <1>2, <1>3, Receives
  <2>2. ~TookInterrupt(HD, ANY)
    BY <1>5 DEF TookInterrupt, Quiet
  <2>3. ~TookFrom(HD, ANY, SYS)
    BY <1>2, <1>5 DEF TookFrom, Traffic, SysTraffic, Sending
  <2>4. \A u \in Users : ~TookFrom(HD, ANY, u)
    BY <1>2, <1>3 DEF TookFrom, Traffic, UserTraffic, Sending
  <2>5. QED
    BY <2>1, <2>2, <2>3, <2>4, Constants
<1>7. Fields'
  BY <1>1, <1>2, FieldsStill DEF Fields, Places, Polling
<1>8. src' = src /\ ~HdWorks' /\ ~HdAnswers' /\ hd_pc' # "reply"
  BY <1>1 DEF HdWorks, HdAnswers, Still
<1>9. CASE TookFrom(HD, ANY, FS)
  <2>1. /\ p_flags[FS] = {"SENDING"} /\ p_flags'[FS] = {} /\ p_flags'[HD] = {}
        /\ buf'[HD] = buf[FS] /\ buf'[FS] = buf[FS]
        /\ has_int_msg'[FS] = has_int_msg[FS] /\ has_int_msg'[HD] = has_int_msg[HD]
        /\ \A x \in Procs \ {HD, FS} : SameEntry(x)
    BY <1>9 DEF TookFrom
  <2>2. SameEntry(SYS) /\ \A u \in Users : SameEntry(u)
    BY <1>3, <2>1, Constants
  <2>3. fs_pc = "recv" /\ buf[FS].source = FS /\ buf[FS].body \in HdBodies /\ has_int_msg[FS] = FALSE
    BY <1>2, <1>3, <2>1 DEF Traffic, FsTraffic, Mail, Sending
  <2>4. HdTraffic' /\ FsTraffic'
    BY <2>1 DEF HdTraffic, FsTraffic, Sending, Receiving
  <2>5. SysTraffic' /\ UserTraffic'
    BY <1>1, <1>2, <1>5, <2>2, TrafficFrame, UsersFrame
  <2>6. Mail'
    <3>1. ~Sending(HD)' /\ ~Sending(FS)' /\ has_int_msg'[FS] = FALSE
      BY <2>1, <2>3 DEF Sending
    <3>2. QED
      BY <1>2, <1>3, <2>1, <2>3, <3>1, MailFrame
  <2>7. FsAsks /\ Fresh
    BY <1>2, <2>1, <2>3 DEF Progress, FsAsks
  <2>8. FsWaits' /\ HdTook' /\ ~FsIdle' /\ ~FsAsks'
    BY <1>1, <2>1, <2>3 DEF FsWaits, FsIdle, FsAsks, HdTook
  <2>9. Request' = Request
    BY <1>1, <2>1, <2>7, <2>8 DEF Request
  <2>10. Fresh'
    BY <1>1, <2>1, <2>7, <2>9, RequestStill DEF Fresh, Quiet
  <2>11. Phase' /\ Progress'
    BY <1>8, <2>1, <2>3, <2>8, <2>10 DEF Phase, Progress
  <2>12. QED
    BY <1>6, <1>7, <2>4, <2>5, <2>6, <2>11 DEF HdInv, Core, Traffic
<1>10. CASE WaitsFor(HD, ANY)
  <2>1. /\ p_flags'[HD] = {"RECEIVING"} /\ p_recvfrom'[HD] = ANY
        /\ has_int_msg'[HD] = has_int_msg[HD] /\ \A x \in Procs \ {HD} : SameEntry(x)
        /\ ~(p_flags[FS] = {"SENDING"} /\ p_sendto[FS] = HD)
    BY <1>3, <1>10 DEF WaitsFor
  <2>2. SameEntry(FS) /\ SameEntry(SYS) /\ \A u \in Users : SameEntry(u)
    BY <1>3, <2>1, Constants
  <2>3. HdTraffic'
    BY <1>1, <2>1 DEF HdTraffic, Sending, Receiving
  <2>4. SysTraffic' /\ FsTraffic' /\ UserTraffic'
    BY <1>1, <1>2, <1>5, <2>2, TrafficFrame, UsersFrame
  <2>5. Mail'
    <3>1. ~Sending(HD)'
      BY <2>1 DEF Sending
    <3>2. QED
      BY <1>2, <1>3, <2>1, <3>1, MailFrame
  <2>6. FsIdle
    BY <1>2, <1>4, <2>1 DEF FsAsks, Traffic, FsTraffic, Sending
  <2>7. FsIdle' /\ HdFree' /\ ~FsAsks' /\ ~HdTook'
    BY <1>1, <2>1, <2>2, <2>6 DEF FsIdle, HdFree, FsAsks, HdTook, SameEntry
  <2>8. Finished'
    BY <1>1, <1>2, <2>1, <2>6, FinishedStill DEF Progress
  <2>9. Phase' /\ Progress'
    BY <1>8, <2>7, <2>8 DEF Phase, Progress
  <2>10. QED
    BY <1>6, <1>7, <2>3, <2>4, <2>5, <2>9 DEF HdInv, Core, Traffic
<1>11. QED
  BY <1>6, <1>9, <1>10

\* interrupt_wait: the interrupt of the current sector has come, or the driver waits.
LEMMA InterruptWaitKeeps ==
    ASSUME Core, ~halted, setting' = setting, HdInterruptWait
    PROVE  HdInv'
<1>1. /\ p_flags[HD] = {} /\ msg_receive(HD, INTERRUPT) /\ Still /\ hd_pc = "int" /\ hd_pc' = "got"
      /\ UNCHANGED <<sys_pc, user_pc, fs_pc>>
  BY DEF HdInterruptWait, HdAt, Running, infoVars, devVars, HdKeeps, Still
<1>2. IInv /\ Fields /\ Traffic /\ src = FS /\ Asks /\ Request = msg /\ Step /\ Transfer /\ FsWaits
  BY <1>1, Working DEF HdWorks
<1>3. HD \in Procs /\ INTERRUPT \in Sources \ {HD} /\ FS # HD /\ SYS # HD /\ INTERRUPT # ANY
      /\ INTERRUPT \notin Procs /\ FS \in Procs /\ SYS \in Procs
  BY Constants
<1>4. IInv' /\ ~halted' /\ (TookInterrupt(HD, INTERRUPT) \/ WaitsFor(HD, INTERRUPT))
  <2>1. /\ IInv' /\ ~halted'
        /\ \/ TookInterrupt(HD, INTERRUPT) \/ WaitsFor(HD, INTERRUPT)
           \/ \E from \in Procs \ {HD} : TookFrom(HD, INTERRUPT, from)
    BY <1>1, <1>2, <1>3, Receives
  <2>2. \A from \in Procs : ~TookFrom(HD, INTERRUPT, from)
    BY <1>3 DEF TookFrom
  <2>3. QED
    BY <2>1, <2>2
<1>5. Fields'
  BY <1>1, <1>2, FieldsStill DEF Fields, Places, Polling
<1>6. /\ \A x \in Procs \ {HD} : SameEntry(x)
      /\ p_flags'[HD] = {} \/ (p_flags'[HD] = {"RECEIVING"} /\ p_recvfrom'[HD] = INTERRUPT)
      /\ ~has_int_msg'[HD] /\ (Arrived' <=> Arrived)
  <2>1. CASE TookInterrupt(HD, INTERRUPT)
    BY <1>1, <2>1 DEF TookInterrupt, Arrived
  <2>2. CASE WaitsFor(HD, INTERRUPT)
    BY <1>1, <2>2 DEF WaitsFor, Arrived
  <2>3. QED
    BY <1>4, <2>1, <2>2
<1>7. SameEntry(FS) /\ SameEntry(SYS) /\ \A u \in Users : SameEntry(u)
  BY <1>3, <1>6, Constants
<1>8. HdTraffic' /\ ~HdAwaits
  BY <1>1, <1>6 DEF HdTraffic, HdAwaits, Sending, Receiving
<1>9. SysTraffic' /\ FsTraffic' /\ UserTraffic'
  BY <1>1, <1>2, <1>7, <1>8, TrafficFrame, UsersFrame
<1>10. Mail'
  <2>1. ~Sending(HD)'
    BY <1>6 DEF Sending
  <2>2. QED
    BY <1>2, <1>3, <1>6, <2>1, MailFrame
<1>11. FsWaits' /\ HdWorks' /\ ~FsIdle' /\ ~FsAsks' /\ ~HdTook' /\ ~HdAnswers' /\ hd_pc' # "reply"
  BY <1>1, <1>2, <1>7 DEF FsWaits, HdWorks, FsIdle, FsAsks, HdTook, HdAnswers, SameEntry
<1>12. Phase'
  BY <1>11 DEF Phase
<1>13. Request' = Request
  BY <1>1, <1>2, <1>11 DEF Request, Still
<1>14. Asks' /\ Sects' = Sects /\ From' = From /\ Left' = Left
  BY <1>1, <1>2, <1>13, RequestStill, DataStill
<1>15. /\ msg' = msg /\ job' = job /\ mask' = mask /\ byte_left' = byte_left /\ open_cnt' = open_cnt
       /\ primary' = primary /\ logical' = logical /\ part' = part /\ dev' = dev /\ port' = port
       /\ disk' = disk /\ fsbuf' = fsbuf /\ calls' = calls /\ expect' = expect /\ src' = src
  BY <1>1 DEF Still
<1>16. Step'
  <2>1. \A n : (Commanded(n)' <=> Commanded(n))
    BY <1>13, <1>14, <1>15 DEF Commanded
  <2>2. (Writes' <=> Writes) /\ (ReadStep' <=> ReadStep) /\ (WriteStep' <=> WriteStep)
    BY <1>6, <1>14, <1>15, <2>1 DEF Writes, ReadStep, WriteStep
  <2>3. QED
    BY <1>1, <1>2, <1>6, <1>15, <2>2 DEF Step, Polling
<1>17. Transfer'
  <2>1. Parsed' <=> Parsed
    BY <1>1, <1>15, DataStill DEF Parsed
  <2>2. \A s, n : (DiskBut(s, n)' <=> DiskBut(s, n))
    BY <1>1, DataStill
  <2>3. Found' <=> Found
    BY <1>1, DataStill
  <2>4. hd_pc \notin Polling /\ hd_pc' \notin Polling
    BY <1>1 DEF Polling
  <2>5. QED
    BY <1>2, <1>6, <1>13, <1>14, <1>15, <2>1, <2>2, <2>3, <2>4 DEF Transfer
<1>18. QED
  BY <1>2, <1>4, <1>5, <1>8, <1>9, <1>10, <1>11, <1>12, <1>14, <1>15, <1>16, <1>17, WorkDone DEF Traffic

\* The answer: FS has it, or the driver waits until FS asks for it.
LEMMA ReplyKeeps ==
    ASSUME Core, ~halted, setting' = setting, HdReply
    PROVE  HdInv'
<1>1. /\ p_flags[HD] = {} /\ msg_send(HD, src, msg) /\ Still /\ hd_pc = "reply" /\ hd_pc' = "receive"
      /\ UNCHANGED <<sys_pc, user_pc, fs_pc>>
  BY DEF HdReply, HdAt, Running, infoVars, devVars, HdKeeps, Still
<1>2. IInv /\ Fields /\ Traffic /\ src = FS /\ Finished /\ FsWaits
  BY <1>1, Working DEF HdWorks
<1>3. HD \in Procs /\ FS \in Procs \ {HD} /\ SYS # FS /\ SYS # HD /\ SYS \in Procs
      /\ msg \in HdBodies /\ msg \in Bodies
  BY <1>2, Constants DEF Fields
<1>4. IInv' /\ (Panics \/ Delivered(HD, FS, msg) \/ Queued(HD, FS, msg))
  <2>1. PICK b \in HdBodies : b = msg
    BY <1>3
  <2>2. msg_send(HD, FS, b) /\ b \in Bodies
    BY <1>1, <1>2, <1>3, <2>1
  <2>3. IInv' /\ (Panics \/ Delivered(HD, FS, b) \/ Queued(HD, FS, b))
    BY <1>1, <1>2, <1>3, <2>2, Sends
  <2>4. QED
    BY <2>1, <2>3
<1>5. Fields'
  BY <1>1, <1>2, FieldsStill DEF Fields, Places, Polling
<1>6. ~HdAwaits /\ ~HdWorks' /\ ~HdTook' /\ hd_pc' # "reply"
  BY <1>1 DEF HdAwaits, HdWorks, HdTook
<1>7. CASE Panics
  <2>1. FsIdle' => FsIdle
    BY <1>1, <1>7 DEF FsIdle, Panics
  <2>2. RequestsExact' /\ NoStrayInterrupt'
    BY <1>1, <1>5, <1>7, <2>1, PanicKeeps DEF Panics, Still
  <2>3. QED
    BY <1>7, <2>2 DEF HdInv, Panics
<1>8. CASE Delivered(HD, FS, msg)
  <2>1. /\ p_flags[FS] = {"RECEIVING"} /\ p_flags'[FS] = {} /\ p_flags'[HD] = {}
        /\ buf'[FS] = [source |-> HD, body |-> msg]
        /\ has_int_msg'[FS] = has_int_msg[FS] /\ has_int_msg'[HD] = has_int_msg[HD]
        /\ \A x \in Procs \ {HD, FS} : SameEntry(x)
        /\ ~halted'
    BY <1>8 DEF Delivered
  <2>2. SameEntry(SYS) /\ \A u \in Users : SameEntry(u)
    BY <1>3, <2>1, Constants
  <2>3. fs_pc = "run"
    BY <1>2, <2>1 DEF FsWaits
  <2>4. HdTraffic' /\ FsTraffic'
    BY <2>1 DEF HdTraffic, FsTraffic, Sending, Receiving
  <2>5. SysTraffic' /\ UserTraffic'
    BY <1>1, <1>2, <1>6, <2>2, TrafficFrame, UsersFrame
  <2>6. Mail'
    <3>1. ~Sending(HD)' /\ ~Sending(FS)' /\ has_int_msg'[FS] = FALSE
      BY <1>2, <1>3, <2>1 DEF Sending, Traffic, Mail
    <3>2. buf'[FS].body \in HdBodies
      BY <1>3, <2>1
    <3>3. QED
      BY <1>2, <1>3, <2>1, <3>1, <3>2, MailFrame
  <2>7. FsIdle' /\ HdFree' /\ ~FsAsks'
    BY <1>1, <2>1, <2>3 DEF FsIdle, HdFree, FsAsks
  <2>8. Finished'
    BY <1>1, <1>2, <2>1, FinishedStill
  <2>9. Phase' /\ Progress'
    BY <1>6, <2>7, <2>8 DEF Phase, Progress
  <2>10. QED
    BY <1>4, <1>5, <2>1, <2>4, <2>5, <2>6, <2>9 DEF HdInv, Core, Traffic
<1>9. CASE Queued(HD, FS, msg)
  <2>1. /\ p_flags'[HD] = {"SENDING"} /\ p_sendto'[HD] = FS
        /\ buf'[HD] = [source |-> HD, body |-> msg] /\ has_int_msg'[HD] = has_int_msg[HD]
        /\ \A x \in Procs \ {HD} : SameEntry(x)
        /\ ~(p_flags[FS] = {"RECEIVING"} /\ p_recvfrom[FS] \in {HD, ANY})
        /\ ~halted'
    BY <1>9 DEF Queued
  <2>2. SameEntry(FS) /\ SameEntry(SYS) /\ \A u \in Users : SameEntry(u)
    BY <1>3, <2>1, Constants
  <2>3. HdTraffic'
    BY <1>1, <2>1 DEF HdTraffic, Sending, Receiving
  <2>4. SysTraffic' /\ FsTraffic' /\ UserTraffic'
    BY <1>1, <1>2, <1>6, <2>2, TrafficFrame, UsersFrame
  <2>5. Mail'
    <3>1. buf'[HD].source = HD /\ buf'[HD].body \in HdBodies
      BY <1>3, <2>1
    <3>2. QED
      BY <1>2, <1>3, <2>1, <3>1, MailFrame
  <2>6. fs_pc = "recv" /\ p_flags[FS] = {}
    BY <1>2, <2>1 DEF FsWaits, Traffic, FsTraffic, Receiving
  <2>7. fs_pc' = "recv" /\ p_flags'[FS] = {} /\ HdAnswers' /\ ~FsIdle' /\ ~FsAsks'
    BY <1>1, <2>1, <2>2, <2>6 DEF HdAnswers, FsIdle, FsAsks, SameEntry
  <2>8. Finished'
    BY <1>1, <1>2, <2>1, FinishedStill
  <2>9. Phase' /\ Progress'
    BY <1>6, <2>7, <2>8 DEF Phase, Progress
  <2>10. QED
    BY <1>4, <1>5, <2>1, <2>3, <2>4, <2>5, <2>9 DEF HdInv, Core, Traffic
<1>10. QED
  BY <1>4, <1>7, <1>8, <1>9

(***************************************************************************)
(* The disk                                                                *)
(***************************************************************************)

\* The disk is at work only for a request that the driver works at.
LEMMA DiskAtWork ==
    ASSUME Core, dev.st # "idle"
    PROVE  /\ IInv /\ Fields /\ Traffic /\ src = FS /\ Asks /\ Request = msg /\ Step /\ Transfer
           /\ FsWaits /\ HdWorks /\ ~FsIdle /\ ~FsAsks
           /\ \/ hd_pc \in Polling /\ mask = "DRQ"
              \/ hd_pc \in {"int", "got"}
<1>1. ~Quiet /\ Fields /\ Phase /\ Progress
  BY DEF Core, Quiet, Idle
<1>2. HdWorks /\ hd_pc # "reply"
  BY <1>1 DEF Phase, Progress, Finished, Fresh
<1>3. Step
  BY <1>2, Working
<1>4. hd_pc \in Polling \/ hd_pc \in {"int", "got", "entry"}
  BY <1>1, <1>2 DEF Fields, Places, HdWorks
<1>5. \/ hd_pc \in Polling /\ mask = "DRQ"
      \/ hd_pc \in {"int", "got"}
  BY <1>1, <1>3, <1>4 DEF Step, Fields
<1>6. QED
  BY <1>2, <1>5, Working

\* What the disk does for a request, and its interrupt, leave everyone else alone.
LEMMA DeviceFrame ==
    ASSUME Core, HdWorks, IInv', \A x \in Procs \ {HD} : SameEntry(x), DeviceKeeps, setting' = setting,
           \/ p_flags'[HD] = p_flags[HD] /\ p_sendto'[HD] = p_sendto[HD] /\ p_recvfrom'[HD] = p_recvfrom[HD]
              /\ buf'[HD] = buf[HD]
           \/ p_flags'[HD] = {} /\ hd_pc = "got"
    PROVE  /\ Traffic' /\ Phase' /\ ~FsIdle' /\ ~FsAsks' /\ ~HdTook' /\ ~HdAnswers' /\ HdWorks'
           /\ src' = src /\ Request' = Request /\ Sects' = Sects /\ From' = From /\ Left' = Left
           /\ (Found' <=> Found) /\ (Asks => Asks') /\ (Writes' <=> Writes) /\ (Parsed' <=> Parsed)
<1>1. /\ hd_pc' = hd_pc /\ src' = src /\ msg' = msg /\ job' = job /\ mask' = mask /\ byte_left' = byte_left
      /\ open_cnt' = open_cnt /\ primary' = primary /\ logical' = logical /\ part' = part
      /\ sys_pc' = sys_pc /\ user_pc' = user_pc /\ fs_pc' = fs_pc /\ fsbuf' = fsbuf
      /\ calls' = calls /\ expect' = expect
  BY DEF DeviceKeeps, hdVars, fsVars
<1>2. Traffic /\ Request = msg /\ FsWaits
  BY Working
<1>3. FS \in Procs /\ SYS \in Procs /\ FS # HD /\ SYS # HD /\ HD \in Procs
  BY Constants
<1>4. SameEntry(FS) /\ SameEntry(SYS) /\ \A u \in Users : SameEntry(u)
  BY <1>3, Constants
<1>5. HdTraffic'
  <2>1. CASE p_flags'[HD] = {}
    BY <2>1 DEF HdTraffic, Sending, Receiving
  <2>2. CASE /\ p_flags'[HD] = p_flags[HD] /\ p_sendto'[HD] = p_sendto[HD]
             /\ p_recvfrom'[HD] = p_recvfrom[HD]
    BY <1>1, <1>2, <2>2 DEF Traffic, HdTraffic, Sending, Receiving
  <2>3. QED
    BY <2>1, <2>2
<1>6. HdAwaits => HdAwaits'
  BY <1>1 DEF HdAwaits
<1>7. SysTraffic' /\ FsTraffic' /\ UserTraffic'
  BY <1>1, <1>2, <1>4, <1>6, TrafficFrame, UsersFrame
<1>8. Mail'
  <2>1. Sending(HD)' => Sending(HD) /\ buf'[HD] = buf[HD]
    BY DEF Sending
  <2>2. Sending(HD)' => buf'[HD].source = HD /\ buf'[HD].body \in HdBodies
    BY <1>2, <1>3, <2>1 DEF Traffic, Mail
  <2>3. QED
    BY <1>2, <1>3, <2>2, MailFrame
<1>9. FsWaits' /\ ~FsIdle' /\ ~FsAsks' /\ HdWorks' /\ ~HdTook' /\ ~HdAnswers'
  BY <1>1, <1>2, <1>4 DEF FsWaits, FsIdle, FsAsks, HdWorks, HdTook, HdAnswers, SameEntry
<1>10. Phase'
  BY <1>9 DEF Phase
<1>11. Request' = Request
  BY <1>1, <1>2, <1>9 DEF Request, HdWorks
<1>12. (Found' <=> Found) /\ Left' = Left /\ (Writes' <=> Writes) /\ (Parsed' <=> Parsed)
  BY <1>1 DEF Found, FoundIn, Left, Writes, Parsed
<1>13. Place' = Place
  BY DEF Place, PlaceOf
<1>14. Sects' = Sects /\ From' = From
  BY <1>11, <1>13 DEF Sects, From
<1>15. Asks => Asks'
  BY <1>1, <1>11, <1>12, AsksKeeps
<1>16. QED
  BY <1>1, <1>5, <1>7, <1>8, <1>9, <1>10, <1>11, <1>12, <1>14, <1>15 DEF Traffic

\* The interrupt of the sector at hand arrives.
LEMMA Arrives ==
    ASSUME Core, ~halted, hd_handler, hd_pc \in {"int", "got"}, ~Arrived, DeviceKeeps, setting' = setting
    PROVE  /\ Arrived' /\ IInv' /\ ~halted' /\ (hd_pc = "got" => ~has_int_msg'[HD])
           /\ \A x \in Procs \ {HD} : SameEntry(x)
           /\ \/ p_flags'[HD] = p_flags[HD] /\ p_sendto'[HD] = p_sendto[HD]
                 /\ p_recvfrom'[HD] = p_recvfrom[HD] /\ buf'[HD] = buf[HD]
              \/ p_flags'[HD] = {} /\ hd_pc = "got"
<1>1. IInv /\ Traffic /\ hd_pc' = hd_pc
  BY DEF Core, DeviceKeeps, hdVars
<1>2. HD \in Procs
  BY Constants
<1>3. p_flags[HD] \in {{}, {"SENDING"}, {"RECEIVING"}} /\ HdTraffic
  BY <1>1, <1>2, Blocked DEF Traffic
<1>4. hd_pc = "got" => p_flags[HD] = {"RECEIVING"} /\ p_recvfrom[HD] = INTERRUPT
  BY <1>3 DEF Arrived, HdTraffic, Sending, Receiving
<1>5. hd_pc = "int" => p_flags[HD] = {}
  BY <1>3 DEF HdTraffic, Sending, Receiving
<1>6. QED
  BY <1>1, <1>4, <1>5, Informs, Constants DEF Arrived, hd_handler

\* A sector is there to be read, and the driver is told.
LEMMA DeviceReadKeeps ==
    ASSUME Core, ~halted, setting' = setting, DeviceRead
    PROVE  HdInv'
<1>1. /\ dev.st = "busy" /\ dev.op # "ATA_WRITE" /\ hd_handler /\ DeviceKeeps /\ disk' = disk
      /\ port' = (IF dev.op = "ATA_IDENTIFY" THEN <<Cardinality(Sectors)>> ELSE disk[dev.lba])
      /\ dev' = [dev EXCEPT !.st = "drq"]
  BY DEF DeviceRead
<1>2. /\ IInv /\ Fields /\ Traffic /\ src = FS /\ Asks /\ Request = msg /\ Step /\ Transfer /\ HdWorks
      /\ \/ hd_pc \in Polling /\ mask = "DRQ"
         \/ hd_pc \in {"int", "got"}
  BY <1>1, DiskAtWork
<1>3. hd_pc \in {"int", "got"} /\ mask = "DRQ" /\ ~Writes /\ ReadStep /\ ~Arrived
  <2>1. ASSUME hd_pc \in Polling, mask = "DRQ"
        PROVE  FALSE
    <3>1. Writes /\ Commanded(Left)
      BY <1>2, <2>1 DEF Step
    <3>2. dev.op = "ATA_WRITE"
      BY <1>2, <3>1 DEF Writes, Commanded
    <3>3. QED
      BY <1>1, <3>2
  <2>2. hd_pc \in {"int", "got"}
    BY <1>2, <2>1
  <2>3. mask = "DRQ" /\ IF Writes THEN WriteStep ELSE ReadStep
    BY <1>2, <2>2 DEF Step
  <2>4. ~WriteStep
    BY <1>1 DEF WriteStep, Idle
  <2>5. ~Writes /\ ReadStep
    BY <2>3, <2>4
  <2>6. ~Arrived
    BY <1>1, <2>5 DEF ReadStep
  <2>7. QED
    BY <2>2, <2>3, <2>5, <2>6
<1>4. /\ Arrived' /\ IInv' /\ ~halted' /\ (hd_pc = "got" => ~has_int_msg'[HD])
      /\ \A x \in Procs \ {HD} : SameEntry(x)
      /\ \/ p_flags'[HD] = p_flags[HD] /\ p_sendto'[HD] = p_sendto[HD]
            /\ p_recvfrom'[HD] = p_recvfrom[HD] /\ buf'[HD] = buf[HD]
         \/ p_flags'[HD] = {} /\ hd_pc = "got"
  BY <1>1, <1>2, <1>3, Arrives
<1>5. /\ Traffic' /\ Phase' /\ ~FsIdle' /\ ~FsAsks' /\ ~HdTook' /\ ~HdAnswers' /\ HdWorks'
      /\ src' = src /\ Request' = Request /\ Sects' = Sects /\ From' = From /\ Left' = Left
      /\ (Found' <=> Found) /\ Asks' /\ (Writes' <=> Writes) /\ (Parsed' <=> Parsed)
  BY <1>1, <1>2, <1>4, DeviceFrame
<1>6. /\ hd_pc' = hd_pc /\ src' = src /\ msg' = msg /\ job' = job /\ mask' = mask /\ byte_left' = byte_left
      /\ open_cnt' = open_cnt /\ primary' = primary /\ logical' = logical /\ part' = part
      /\ sys_pc' = sys_pc /\ user_pc' = user_pc /\ fs_pc' = fs_pc /\ fsbuf' = fsbuf
      /\ calls' = calls /\ expect' = expect
  BY <1>1 DEF DeviceKeeps, hdVars, fsVars
<1>7. /\ dev' \in [st : {"idle", "busy", "drq", "writing"},
                   op : {"none", "ATA_IDENTIFY", "ATA_READ", "ATA_WRITE"}, lba : Sectors, left : Nat]
      /\ dev'.st = "drq" /\ dev'.op = dev.op /\ dev'.lba = dev.lba /\ dev'.left = dev.left
  BY <1>1, <1>2 DEF Fields
<1>8. Fields'
  BY <1>1, <1>2, <1>6, <1>7 DEF Fields, Fits
<1>9. Step'
  <2>1. Commanded(IF job = "rw" THEN Left ELSE 1)
    BY <1>3 DEF ReadStep
  <2>2. Commanded(IF job = "rw" THEN Left ELSE 1)'
    BY <1>5, <1>6, <1>7, <2>1 DEF Commanded
  <2>3. dev.op = "ATA_IDENTIFY" <=> job = "identify"
    BY <2>1 DEF Commanded
  <2>4. ReadStep'
    BY <1>1, <1>4, <1>6, <1>7, <2>2, <2>3 DEF ReadStep
  <2>5. QED
    BY <1>3, <1>4, <1>5, <1>6, <2>4 DEF Step, Polling
<1>10. Transfer'
  <2>1. DiskBut(0, 0)' <=> DiskBut(0, 0)
    BY <1>1, <1>6 DEF DiskBut
  <2>2. ~(job = "rw" /\ Request.type = "DEV_WRITE")
    BY <1>2, <1>3 DEF Writes
  <2>3. CASE job = "identify"
    BY <1>2, <1>5, <1>6, <2>1, <2>3 DEF Transfer
  <2>4. CASE job = "table"
    BY <1>2, <1>5, <1>6, <2>1, <2>4 DEF Transfer
  <2>5. CASE job = "rw"
    <3>1. Request.type = "DEV_READ"
      BY <1>2, <2>2, <2>5 DEF Transfer
    <3>2. QED
      BY <1>2, <1>3, <1>5, <1>6, <2>1, <2>5, <3>1 DEF Transfer
  <2>6. QED
    BY <1>2, <2>3, <2>4, <2>5 DEF Fields
<1>11. QED
  <2>1. src' = FS /\ hd_pc' # "reply"
    BY <1>2, <1>3, <1>6
  <2>2. QED
    BY <1>4, <1>5, <1>8, <1>9, <1>10, <2>1, WorkDone

\* The disk is ready for the first sector of a write.
LEMMA DeviceReadyKeeps ==
    ASSUME Core, ~halted, setting' = setting, DeviceReady
    PROVE  HdInv'
<1>1. /\ dev.st = "busy" /\ dev.op = "ATA_WRITE" /\ UNCHANGED vars /\ DeviceKeeps
      /\ disk' = disk /\ port' = port /\ dev' = [dev EXCEPT !.st = "drq"]
  BY DEF DeviceReady
<1>2. /\ IInv /\ Fields /\ Traffic /\ src = FS /\ Asks /\ Request = msg /\ Step /\ Transfer /\ HdWorks
      /\ \/ hd_pc \in Polling /\ mask = "DRQ"
         \/ hd_pc \in {"int", "got"}
  BY <1>1, DiskAtWork
<1>3. hd_pc \in Polling /\ mask = "DRQ"
  <2>1. ASSUME hd_pc \in {"int", "got"}
        PROVE  FALSE
    <3>1. IF Writes THEN WriteStep ELSE ReadStep
      BY <1>2, <2>1 DEF Step
    <3>2. ~WriteStep
      BY <1>1 DEF WriteStep, Idle
    <3>3. ~Writes /\ Commanded(IF job = "rw" THEN Left ELSE 1)
      BY <3>1, <3>2 DEF ReadStep
    <3>4. dev.op # "ATA_WRITE"
      BY <1>2, <3>3 DEF Commanded, Writes
    <3>5. QED
      BY <1>1, <3>4
  <2>2. QED
    BY <1>2, <2>1
<1>4. Writes /\ ~has_int_msg[HD] /\ Commanded(Left)
  BY <1>2, <1>3 DEF Step
<1>5. IInv' /\ ~halted' /\ has_int_msg' = has_int_msg /\ p_flags' = p_flags /\ \A x \in Procs : SameEntry(x)
  BY <1>1, <1>2, StepIInv DEF vars, SameEntry
<1>6. /\ Traffic' /\ Phase' /\ ~FsIdle' /\ ~FsAsks' /\ ~HdTook' /\ ~HdAnswers' /\ HdWorks'
      /\ src' = src /\ Request' = Request /\ Sects' = Sects /\ From' = From /\ Left' = Left
      /\ (Found' <=> Found) /\ Asks' /\ (Writes' <=> Writes) /\ (Parsed' <=> Parsed)
  BY <1>1, <1>2, <1>5, DeviceFrame, Constants DEF SameEntry
<1>7. /\ hd_pc' = hd_pc /\ src' = src /\ msg' = msg /\ job' = job /\ mask' = mask /\ byte_left' = byte_left
      /\ open_cnt' = open_cnt /\ primary' = primary /\ logical' = logical /\ part' = part
      /\ sys_pc' = sys_pc /\ user_pc' = user_pc /\ fs_pc' = fs_pc /\ fsbuf' = fsbuf
      /\ calls' = calls /\ expect' = expect
  BY <1>1 DEF DeviceKeeps, hdVars, fsVars
<1>8. /\ dev' \in [st : {"idle", "busy", "drq", "writing"},
                   op : {"none", "ATA_IDENTIFY", "ATA_READ", "ATA_WRITE"}, lba : Sectors, left : Nat]
      /\ dev'.st = "drq" /\ dev'.op = dev.op /\ dev'.lba = dev.lba /\ dev'.left = dev.left
  BY <1>1, <1>2 DEF Fields
<1>9. Fields'
  BY <1>1, <1>2, <1>7, <1>8 DEF Fields, Fits
<1>10. Step'
  <2>1. Commanded(Left)'
    BY <1>4, <1>6, <1>7, <1>8 DEF Commanded
  <2>2. QED
    BY <1>3, <1>4, <1>5, <1>6, <1>7, <1>8, <2>1 DEF Step, Polling
<1>11. Transfer'
  <2>1. /\ DiskBut(0, 0)' <=> DiskBut(0, 0)
        /\ DiskBut(From + Sects - Left, Left)' <=> DiskBut(From + Sects - Left, Left)
    BY <1>1, <1>6, <1>7, DiskStill
  <2>2. QED
    BY <1>2, <1>3, <1>6, <1>7, <2>1 DEF Transfer
<1>12. QED
  <2>1. src' = FS /\ hd_pc' # "reply"
    BY <1>2, <1>3, <1>7 DEF Polling
  <2>2. QED
    BY <1>5, <1>6, <1>9, <1>10, <1>11, <2>1, WorkDone

\* A sector of the request is on the disk, and the driver is told.
LEMMA DeviceWrittenKeeps ==
    ASSUME Core, ~halted, setting' = setting, DeviceWritten
    PROVE  HdInv'
<1>1. /\ dev.st = "writing" /\ hd_handler /\ DeviceKeeps /\ port' = port
      /\ disk' = [disk EXCEPT ![dev.lba] = port] /\ dev' = NextSector(dev, "drq")
  BY DEF DeviceWritten
<1>2. /\ IInv /\ Fields /\ Traffic /\ src = FS /\ Asks /\ Request = msg /\ Step /\ Transfer /\ HdWorks
      /\ \/ hd_pc \in Polling /\ mask = "DRQ"
         \/ hd_pc \in {"int", "got"}
  BY <1>1, DiskAtWork
<1>3. hd_pc \in {"int", "got"} /\ mask = "DRQ" /\ Writes /\ WriteStep /\ ~Arrived
  <2>1. ~(hd_pc \in Polling /\ mask = "DRQ")
    BY <1>1, <1>2 DEF Step
  <2>2. hd_pc \in {"int", "got"}
    BY <1>2, <2>1
  <2>3. mask = "DRQ" /\ IF Writes THEN WriteStep ELSE ReadStep
    BY <1>2, <2>2 DEF Step
  <2>4. ~ReadStep
    BY <1>1 DEF ReadStep
  <2>5. ~Arrived
    BY <1>1, <2>3, <2>4 DEF WriteStep, Idle
  <2>6. QED
    BY <2>2, <2>3, <2>4, <2>5
<1>4. job = "rw" /\ Request.type = "DEV_WRITE"
  BY <1>2, <1>3 DEF Writes
<1>5. /\ Left >= 1 /\ dev.left = Left /\ dev.op = "ATA_WRITE" /\ dev.lba = From + Sects - Left
      /\ port = expect.disk[From + Sects - Left]
  BY <1>3, <1>4 DEF WriteStep, Commanded
<1>6. /\ Left \in Nat /\ Left <= Sects /\ Sects \in Nat /\ From \in Nat /\ fsbuf = expect.buf
      /\ DiskBut(From + Sects - Left, Left)
      /\ From + Sects - Left \in Sectors /\ From + Sects - Left \notin Tables
      /\ Left # 1 => From + Sects - Left + 1 \in Sectors
  <2>1. /\ Sects \in Nat /\ From \in Nat
        /\ \A s \in From .. From + Sects - 1 : s \in Sectors /\ s \notin Tables
    BY <1>2, Numbers
  <2>2. Left \in Nat
    BY <1>2, Division DEF Left, Fields
  <2>3. Left <= Sects /\ fsbuf = expect.buf /\ DiskBut(From + Sects - Left, Left)
    BY <1>2, <1>3, <1>4 DEF Transfer
  <2>4. /\ From + Sects - Left \in From .. From + Sects - 1
        /\ Left # 1 => From + Sects - Left + 1 \in From .. From + Sects - 1
    BY <1>5, <2>1, <2>2, <2>3
  <2>5. QED
    BY <2>1, <2>2, <2>3, <2>4
<1>7. /\ Arrived' /\ IInv' /\ ~halted' /\ (hd_pc = "got" => ~has_int_msg'[HD])
      /\ \A x \in Procs \ {HD} : SameEntry(x)
      /\ \/ p_flags'[HD] = p_flags[HD] /\ p_sendto'[HD] = p_sendto[HD]
            /\ p_recvfrom'[HD] = p_recvfrom[HD] /\ buf'[HD] = buf[HD]
         \/ p_flags'[HD] = {} /\ hd_pc = "got"
  BY <1>1, <1>2, <1>3, Arrives
<1>8. /\ Traffic' /\ Phase' /\ ~FsIdle' /\ ~FsAsks' /\ ~HdTook' /\ ~HdAnswers' /\ HdWorks'
      /\ src' = src /\ Request' = Request /\ Sects' = Sects /\ From' = From /\ Left' = Left
      /\ (Found' <=> Found) /\ Asks' /\ (Writes' <=> Writes) /\ (Parsed' <=> Parsed)
  BY <1>1, <1>2, <1>7, DeviceFrame
<1>9. /\ hd_pc' = hd_pc /\ src' = src /\ msg' = msg /\ job' = job /\ mask' = mask /\ byte_left' = byte_left
      /\ open_cnt' = open_cnt /\ primary' = primary /\ logical' = logical /\ part' = part
      /\ sys_pc' = sys_pc /\ user_pc' = user_pc /\ fs_pc' = fs_pc /\ fsbuf' = fsbuf
      /\ calls' = calls /\ expect' = expect
  BY <1>1 DEF DeviceKeeps, hdVars, fsVars
<1>10. IF Left = 1 THEN dev' = Idle
       ELSE /\ dev' = [dev EXCEPT !.st = "drq", !.lba = dev.lba + 1, !.left = dev.left - 1]
            /\ dev'.st = "drq" /\ dev'.op = "ATA_WRITE"
            /\ dev'.lba = From + Sects - Left + 1 /\ dev'.left = Left - 1
  BY <1>1, <1>2, <1>5 DEF NextSector, Fields
<1>11. dev' \in [st : {"idle", "busy", "drq", "writing"},
                 op : {"none", "ATA_IDENTIFY", "ATA_READ", "ATA_WRITE"}, lba : Sectors, left : Nat]
  <2>1. CASE Left = 1
    BY <1>10, <2>1, DiskAssumption DEF Idle
  <2>2. CASE Left # 1
    <3>1. dev.lba + 1 \in Sectors /\ dev.left - 1 \in Nat
      BY <1>5, <1>6, <2>2
    <3>2. dev' = [dev EXCEPT !.st = "drq", !.lba = dev.lba + 1, !.left = dev.left - 1]
      BY <1>10, <2>2
    <3>3. QED
      BY <1>2, <3>1, <3>2 DEF Fields
  <2>3. QED
    BY <2>1, <2>2
<1>12. /\ disk' \in [Sectors -> Cells] /\ \A s \in Tables : disk'[s] = Table(s)
       /\ disk'[From + Sects - Left] = expect.disk[From + Sects - Left]
       /\ \A x \in Sectors : x # From + Sects - Left => disk'[x] = disk[x]
  <2>1. /\ disk \in [Sectors -> Cells] /\ expect.disk \in [Sectors -> Cells]
        /\ \A s \in Tables : disk[s] = Table(s)
    BY <1>2 DEF Fields
  <2>2. disk' = [disk EXCEPT ![From + Sects - Left] = expect.disk[From + Sects - Left]]
    BY <1>1, <1>5
  <2>3. Tables \subseteq Sectors
    BY Layout, DiskAssumption DEF Tables
  <2>4. QED
    BY <1>6, <2>1, <2>2, <2>3
<1>13. Fields'
  BY <1>2, <1>9, <1>11, <1>12 DEF Fields, Fits
<1>14. Step'
  <2>1. CASE Left = 1
    <3>1. WriteStep'
      BY <1>7, <1>8, <1>10, <2>1 DEF WriteStep
    <3>2. QED
      BY <1>3, <1>7, <1>8, <1>9, <3>1 DEF Step, Polling
  <2>2. CASE Left # 1
    <3>1. From' + Sects' - (Left' - 1) = From + Sects - Left + 1 /\ Left' - 1 >= 1
      BY <1>5, <1>6, <1>8, <2>2
    <3>2. Commanded(Left - 1)'
      BY <1>4, <1>8, <1>9, <1>10, <2>2, <3>1 DEF Commanded
    <3>3. WriteStep'
      BY <1>5, <1>7, <1>8, <1>10, <2>2, <3>2 DEF WriteStep
    <3>4. QED
      BY <1>3, <1>7, <1>8, <1>9, <3>3 DEF Step, Polling
  <2>3. QED
    BY <2>1, <2>2
<1>15. Transfer'
  <2>1. \A x \in Sectors : x < From + Sects - Left + 1 \/ x >= From + Sects - Left + 1 + (Left - 1) =>
            \/ x = From + Sects - Left
            \/ x < From + Sects - Left \/ x >= From + Sects - Left + Left
    BY <1>5, <1>6, DiskAssumption
  <2>2. \A x \in Sectors : x < From + Sects - Left + 1 \/ x >= From + Sects - Left + 1 + (Left - 1) =>
            disk'[x] = expect.disk[x]
    BY <1>6, <1>12, <2>1 DEF DiskBut
  <2>3. DiskBut(From + Sects - Left + 1, Left - 1)'
    BY <1>8, <1>9, <2>2 DEF DiskBut
  <2>4. hd_pc' \notin Polling
    BY <1>3, <1>9 DEF Polling
  <2>5. QED
    BY <1>3, <1>4, <1>5, <1>6, <1>7, <1>8, <1>9, <2>3, <2>4 DEF Transfer
<1>16. QED
  <2>1. src' = FS /\ hd_pc' # "reply"
    BY <1>2, <1>3, <1>9
  <2>2. QED
    BY <1>7, <1>8, <1>13, <1>14, <1>15, <2>1, WorkDone

(***************************************************************************)
(* FS                                                                      *)
(***************************************************************************)

\* A list of cells, one for each number.
LEMMA CellsOf ==
    ASSUME NEW n \in Nat, NEW f, f = [i \in 1 .. n |-> f[i]], \A i \in 1 .. n : f[i] \in Cells
    PROVE  f \in Seq(Cells)
BY SeqDef

\* What FS expects after a call, and what it hands over.
LEMMA CallData ==
    ASSUME Fields, Finished, NEW c \in setting.calls, NEW pos \in setting.positions,
           NEW n \in setting.counts, NEW v \in setting.values, FsCall(c, pos, n, v)
    PROVE  LET from == Place.base + pos \div SECTOR_SIZE
               len == n \div SECTOR_SIZE
           IN  /\ Place.base + pos \div SECTOR_SIZE + n \div SECTOR_SIZE <= Place.base + Place.size
               /\ expect'.disk \in [Sectors -> Cells]
               /\ \A x \in Sectors : x < from \/ x >= from + len => expect'.disk[x] = expect.disk[x]
               /\ c # "DEV_WRITE" => expect'.disk = expect.disk /\ fsbuf' = << >>
               /\ fsbuf' \in Seq(Cells) /\ expect'.buf \in Seq(Cells)
               /\ c = "DEV_WRITE" => fsbuf' = expect'.buf
               /\ expect'.buf =
                    CASE c \in {"DEV_READ", "DEV_WRITE"} -> [i \in 1 .. len |-> expect'.disk[from + i - 1]]
                      [] c = "DEV_IOCTL" -> <<<<Place.base, Place.size>>>>
                      [] OTHER -> << >>
<1> DEFINE from == Place.base + pos \div SECTOR_SIZE
           len == n \div SECTOR_SIZE
           new == IF c = "DEV_WRITE"
                  THEN [s \in Sectors |-> IF s \in from .. from + len - 1
                                          THEN <<v, s - from + 1>> ELSE expect.disk[s]]
                  ELSE expect.disk
<1>1. /\ from + len <= Place.base + Place.size
      /\ fsbuf' = IF c = "DEV_WRITE" THEN [i \in 1 .. len |-> <<v, i>>] ELSE << >>
      /\ expect'.disk = new
      /\ expect'.buf = CASE c = "DEV_READ" -> [i \in 1 .. len |-> expect.disk[from + i - 1]]
                         [] c = "DEV_IOCTL" -> <<<<Place.base, Place.size>>>>
                         [] OTHER -> fsbuf'
  BY DEF FsCall
<1>2. /\ len \in Nat /\ len >= 1 /\ from \in Nat
      /\ \A s \in from .. from + len - 1 : s \in Sectors
      /\ c \in {"DEV_OPEN", "DEV_CLOSE", "DEV_READ", "DEV_WRITE", "DEV_IOCTL"}
  BY <1>1, CallNumbers DEF Fields
<1>3. v \in Values /\ Place \in Extents /\ expect.disk \in [Sectors -> Cells]
  BY HdAssumption, DevicePlace DEF Fields
<1>4. /\ \A m \in Nat : <<v, m>> \in Cells
      /\ <<Place.base, Place.size>> \in Cells
  BY <1>3 DEF Cells, Extents
<1> HIDE DEF from, len
<1>5. new \in [Sectors -> Cells]
  <2>1. \A s \in from .. from + len - 1 : s - from + 1 \in Nat
    BY <1>2
  <2>2. \A s \in Sectors : (IF s \in from .. from + len - 1 THEN <<v, s - from + 1>> ELSE expect.disk[s]) \in Cells
    BY <1>3, <1>4, <2>1
  <2>3. QED
    BY <1>3, <2>2
<1>6. \A x \in Sectors : x < from \/ x >= from + len => new[x] = expect.disk[x]
  BY <1>2, DiskAssumption
<1>7. CASE c = "DEV_WRITE"
  <2>1. fsbuf' = [i \in 1 .. len |-> <<v, i>>] /\ expect'.buf = fsbuf'
    BY <1>1, <1>7
  <2>2. fsbuf' \in Seq(Cells)
    <3>1. ASSUME NEW i \in 1 .. len
          PROVE  fsbuf'[i] \in Cells
      <4>1. i \in Nat
        BY <1>2
      <4>2. fsbuf'[i] = <<v, i>>
        BY <2>1
      <4>3. QED
        BY <1>4, <4>1, <4>2
    <3>2. QED
      BY <1>2, <2>1, <3>1, CellsOf
  <2>3. \A i \in 1 .. len : new[from + i - 1] = <<v, i>>
    <3>1. \A i \in 1 .. len : /\ from + i - 1 \in from .. from + len - 1
                              /\ from + i - 1 - from + 1 = i
      BY <1>2
    <3>2. QED
      BY <1>2, <1>7, <3>1
  <2>4. fsbuf' = [i \in 1 .. len |-> new[from + i - 1]]
    BY <2>1, <2>3
  <2> HIDE DEF new
  <2>5. QED
    BY <1>1, <1>5, <1>6, <1>7, <2>1, <2>2, <2>4 DEF from, len
<1>8. CASE c # "DEV_WRITE"
  <2>1. fsbuf' = << >> /\ new = expect.disk
    BY <1>1, <1>8
  <2>2. expect'.buf =
          CASE c \in {"DEV_READ", "DEV_WRITE"} -> [i \in 1 .. len |-> expect'.disk[from + i - 1]]
            [] c = "DEV_IOCTL" -> <<<<Place.base, Place.size>>>>
            [] OTHER -> << >>
    BY <1>1, <1>8, <2>1
  <2>3. expect'.buf \in Seq(Cells)
    <3>1. CASE c = "DEV_READ"
      <4>1. expect'.buf = [i \in 1 .. len |-> expect.disk[from + i - 1]]
        BY <1>1, <3>1
      <4>2. \A i \in 1 .. len : from + i - 1 \in from .. from + len - 1
        BY <1>2
      <4>3. \A i \in 1 .. len : expect'.buf[i] \in Cells
        BY <1>2, <1>3, <4>1, <4>2
      <4>4. QED
        BY <1>2, <4>1, <4>3, CellsOf
    <3>2. CASE c = "DEV_IOCTL"
      BY <1>4, <2>2, <3>2
    <3>3. CASE c \notin {"DEV_READ", "DEV_IOCTL"}
      BY <1>8, <2>2, <3>3
    <3>4. QED
      BY <3>1, <3>2, <3>3
  <2> HIDE DEF new
  <2>4. QED
    BY <1>1, <1>5, <1>6, <1>8, <2>1, <2>2, <2>3 DEF from, len
<1>9. QED
  BY <1>7, <1>8

\* A call of FS: it waits for the driver, or the driver has the request.
LEMMA FsCallKeeps ==
    ASSUME Core, ~halted, setting' = setting, NEW c \in setting.calls, NEW pos \in setting.positions,
           NEW n \in setting.counts, NEW v \in setting.values, FsCall(c, pos, n, v)
    PROVE  HdInv'
<1> DEFINE b == Body(c, pos, n)
<1>1. /\ p_flags[FS] = {} /\ fs_pc = "run" /\ calls < setting.maxCalls /\ (c # "DEV_OPEN" => open_cnt > 0)
      /\ msg_send(FS, HD, b) /\ fs_pc' = "recv" /\ calls' = calls + 1
      /\ UNCHANGED <<hd_pc, src, msg, job, mask, byte_left, open_cnt, primary, logical, part>>
      /\ UNCHANGED <<dev, port, disk, sys_pc, user_pc>>
  BY DEF FsCall, Running, hdVars, devVars
<1>2. IInv /\ Fields /\ Traffic /\ Phase /\ Progress
  BY DEF Core
<1>3. HD \in Procs /\ HD \in Procs \ {FS} /\ FS \in Procs /\ SYS \in Procs /\ SYS # FS /\ SYS # HD /\ FS # HD
  BY Constants
<1>4. b \in HdBodies /\ b \in Bodies /\ b.type = c /\ b.pos = pos /\ b.cnt = n
  <2>1. setting \in Settings
    BY <1>2 DEF Fields
  <2> DEFINE T == (UNION {w.calls : w \in Settings}) \cup {"GET_TICKS", "GET_PID", "SYSCALL_RET"}
             P == (UNION {w.positions : w \in Settings}) \cup {0}
             N == (UNION {w.counts : w \in Settings}) \cup {0}
  <2>2. c \in T /\ pos \in P /\ n \in N
    BY <2>1
  <2>3. b \in HdBodies
    <3>1. HdBodies = {Body(t, p, m) : t \in T, p \in P, m \in N}
      BY DEF HdBodies
    <3> HIDE DEF T, P, N
    <3>2. QED
      BY <2>2, <3>1
  <2>4. QED
    BY <2>3, Constants DEF Body
<1>5. IInv' /\ (Panics \/ Delivered(FS, HD, b) \/ Queued(FS, HD, b))
  BY <1>1, <1>2, <1>3, <1>4, Sends
<1> HIDE DEF b
<1>6. FsIdle /\ HdFree /\ Finished
  BY <1>1, <1>2 DEF Phase, FsIdle, FsAsks, FsWaits, Progress
<1>7. LET from == Place.base + pos \div SECTOR_SIZE
          len == n \div SECTOR_SIZE
      IN  /\ Place.base + pos \div SECTOR_SIZE + n \div SECTOR_SIZE <= Place.base + Place.size
          /\ expect'.disk \in [Sectors -> Cells]
          /\ \A x \in Sectors : x < from \/ x >= from + len => expect'.disk[x] = expect.disk[x]
          /\ c # "DEV_WRITE" => expect'.disk = expect.disk /\ fsbuf' = << >>
          /\ fsbuf' \in Seq(Cells) /\ expect'.buf \in Seq(Cells)
          /\ c = "DEV_WRITE" => fsbuf' = expect'.buf
          /\ expect'.buf =
               CASE c \in {"DEV_READ", "DEV_WRITE"} -> [i \in 1 .. len |-> expect'.disk[from + i - 1]]
                 [] c = "DEV_IOCTL" -> <<<<Place.base, Place.size>>>>
                 [] OTHER -> << >>
  BY <1>2, <1>6, CallData
<1>8. Fields'
  <2>1. setting.maxCalls \in Nat /\ calls \in Nat /\ open_cnt \in Nat /\ open_cnt <= calls
    <3>1. setting.maxCalls \in Nat
      BY <1>2, HdAssumption DEF Fields
    <3>2. QED
      BY <1>2, <3>1 DEF Fields
  <2>2. calls' \in 0 .. setting.maxCalls /\ open_cnt' <= calls'
    BY <1>1, <2>1
  <2>3. QED
    BY <1>1, <1>2, <1>7, <2>2 DEF Fields, Fits
<1>9. ~FsIdle' /\ ~HdWorks' /\ ~HdAnswers' /\ hd_pc' # "reply" /\ ~HdAwaits
  BY <1>1, <1>3, <1>5, <1>6 DEF FsIdle, HdFree, HdWorks, HdAnswers, HdAwaits, Panics, Delivered, Queued, SameEntry
<1>10. ASSUME Request' = b, ~has_int_msg'[HD]
       PROVE  Fresh'
  <2>1. Place' = Place /\ Sects' = n \div SECTOR_SIZE /\ From' = Place.base + pos \div SECTOR_SIZE
    BY <1>4, <1>10 DEF Place, PlaceOf, Sects, From
  <2>2. Found' <=> Found
    BY <1>1 DEF Found, FoundIn
  <2>3. /\ Quiet /\ disk = expect.disk /\ (calls > 0 => Found)
        /\ open_cnt \in Nat /\ calls \in Nat /\ open_cnt <= calls
    <3>1. setting.maxCalls \in Nat
      BY <1>2, HdAssumption DEF Fields
    <3>2. Quiet /\ disk = expect.disk /\ (calls > 0 => Found)
      BY <1>2, <1>6, DiskSame DEF Finished
    <3>3. QED
      BY <1>2, <3>1, <3>2 DEF Fields
  <2>4. Asks'
    <3>1. c # "DEV_OPEN" => Found'
      BY <1>1, <2>2, <2>3
    <3>2. calls' > 0
      BY <1>1, <2>3
    <3>3. QED
      BY <1>4, <1>7, <1>10, <2>1, <3>1, <3>2 DEF Asks
  <2>5. Quiet'
    BY <1>1, <1>10, <2>3 DEF Quiet
  <2>6. Untouched'
    <3>1. CASE c = "DEV_WRITE"
      BY <1>1, <1>4, <1>7, <1>10, <2>1, <2>3, <3>1 DEF Untouched, DiskBut
    <3>2. CASE c # "DEV_WRITE"
      BY <1>1, <1>4, <1>7, <1>10, <2>3, <3>2 DEF Untouched, DiskBut
    <3>3. QED
      BY <3>1, <3>2
  <2>7. /\ open_cnt' < calls' /\ (c # "DEV_OPEN" => open_cnt' > 0)
        /\ (calls' = 1 => open_cnt' = 0) /\ (calls' > 1 => Found')
    BY <1>1, <2>2, <2>3
  <2>8. QED
    BY <1>4, <1>10, <2>4, <2>5, <2>6, <2>7 DEF Fresh
<1>11. CASE Panics
  <2>1. RequestsExact' /\ NoStrayInterrupt'
    BY <1>1, <1>8, <1>9, <1>11, PanicKeeps DEF Panics
  <2>2. QED
    BY <1>11, <2>1 DEF HdInv, Panics
<1>12. CASE Delivered(FS, HD, b)
  <2>1. /\ p_flags[HD] = {"RECEIVING"} /\ p_flags'[HD] = {} /\ p_flags'[FS] = {}
        /\ buf'[HD] = [source |-> FS, body |-> b] /\ buf'[FS] = [source |-> FS, body |-> b]
        /\ has_int_msg'[HD] = has_int_msg[HD] /\ has_int_msg'[FS] = has_int_msg[FS]
        /\ \A x \in Procs \ {FS, HD} : SameEntry(x)
        /\ ~halted'
    BY <1>12 DEF Delivered
  <2>2. SameEntry(SYS) /\ \A u \in Users : SameEntry(u)
    BY <1>3, <2>1, Constants
  <2>3. hd_pc' = "dispatch"
    BY <1>1, <1>6, <2>1 DEF HdFree
  <2>4. HdTraffic' /\ FsTraffic'
    BY <2>1 DEF HdTraffic, FsTraffic, Sending, Receiving
  <2>5. SysTraffic' /\ UserTraffic'
    BY <1>1, <1>2, <1>9, <2>2, TrafficFrame, UsersFrame
  <2>6. Mail'
    <3>1. ~Sending(HD)' /\ ~Sending(FS)' /\ has_int_msg'[FS] = FALSE
      BY <1>2, <1>3, <2>1 DEF Sending, Traffic, Mail
    <3>2. buf'[FS].body \in HdBodies
      BY <1>4, <2>1
    <3>3. QED
      BY <1>2, <1>3, <2>1, <3>1, <3>2, MailFrame
  <2>7. FsWaits' /\ HdTook' /\ ~FsAsks'
    BY <1>1, <2>1, <2>3 DEF FsWaits, HdTook, FsAsks
  <2>8. Request' = b /\ buf'[HD].source = FS
    BY <2>1, <2>3, <2>7 DEF Request
  <2>9. Fresh'
    BY <1>6, <1>10, <2>1, <2>8 DEF Finished, Quiet
  <2>10. Phase' /\ Progress'
    BY <1>9, <2>7, <2>8, <2>9 DEF Phase, Progress
  <2>11. QED
    BY <1>5, <1>8, <2>1, <2>4, <2>5, <2>6, <2>10 DEF HdInv, Core, Traffic
<1>13. CASE Queued(FS, HD, b)
  <2>1. /\ p_flags'[FS] = {"SENDING"} /\ p_sendto'[FS] = HD
        /\ buf'[FS] = [source |-> FS, body |-> b] /\ has_int_msg'[FS] = has_int_msg[FS]
        /\ \A x \in Procs \ {FS} : SameEntry(x)
        /\ ~(p_flags[HD] = {"RECEIVING"} /\ p_recvfrom[HD] \in {FS, ANY})
        /\ ~halted'
    BY <1>13 DEF Queued
  <2>2. SameEntry(HD) /\ SameEntry(SYS) /\ \A u \in Users : SameEntry(u)
    BY <1>3, <2>1, Constants
  <2>3. FsTraffic'
    BY <1>1, <2>1 DEF FsTraffic, Sending, Receiving
  <2>4. SysTraffic' /\ HdTraffic' /\ UserTraffic'
    BY <1>1, <1>2, <1>9, <2>2, TrafficFrame, UsersFrame
  <2>5. Mail'
    <3>1. buf'[FS].source = FS /\ buf'[FS].body \in HdBodies /\ has_int_msg'[FS] = FALSE
      BY <1>2, <1>3, <1>4, <2>1 DEF Traffic, Mail
    <3>2. QED
      BY <1>2, <1>3, <2>1, <3>1, MailFrame
  <2>6. hd_pc = "receive" /\ p_flags[HD] = {}
    BY <1>2, <1>6, <2>1 DEF HdFree, Traffic, HdTraffic, Receiving
  <2>7. hd_pc' = "receive" /\ p_flags'[HD] = {} /\ FsAsks' /\ ~HdTook'
    BY <1>1, <2>1, <2>2, <2>6 DEF FsAsks, HdTook, SameEntry
  <2>8. Request' = b
    BY <2>1, <2>7 DEF Request
  <2>9. Fresh'
    BY <1>6, <1>10, <2>2, <2>8 DEF Finished, Quiet, SameEntry
  <2>10. Phase' /\ Progress'
    BY <1>9, <2>7, <2>9 DEF Phase, Progress
  <2>11. QED
    BY <1>5, <1>8, <2>1, <2>3, <2>4, <2>5, <2>10 DEF HdInv, Core, Traffic
<1>14. QED
  BY <1>5, <1>11, <1>12, <1>13

\* FS has the answer, or waits for it.
LEMMA FsAwaitKeeps ==
    ASSUME Core, ~halted, setting' = setting, FsAwait
    PROVE  HdInv'
<1>1. /\ p_flags[FS] = {} /\ fs_pc = "recv" /\ fs_pc' = "run" /\ msg_receive(FS, HD) /\ Still
      /\ hd_pc' = hd_pc /\ UNCHANGED <<sys_pc, user_pc>>
  BY DEF FsAwait, Running, hdVars, devVars, Still
<1>2. IInv /\ Fields /\ Traffic /\ Phase /\ Progress
  BY DEF Core
<1>3. FS \in Procs /\ HD \in Sources \ {FS} /\ HD \in Procs /\ SYS \in Procs /\ SYS # FS /\ SYS # HD
      /\ FS # HD /\ HD \notin {ANY, INTERRUPT}
  BY Constants
<1>4. IInv' /\ ~halted' /\ (TookFrom(FS, HD, HD) \/ WaitsFor(FS, HD))
  <2>1. /\ IInv' /\ ~halted'
        /\ TookInterrupt(FS, HD) \/ (\E from \in Procs \ {FS} : TookFrom(FS, HD, from)) \/ WaitsFor(FS, HD)
    BY <1>1, <1>2, <1>3, Receives
  <2>2. ~TookInterrupt(FS, HD) /\ \A from : TookFrom(FS, HD, from) => from = HD
    BY <1>3 DEF TookInterrupt, TookFrom
  <2>3. QED
    BY <2>1, <2>2
<1>5. Fields'
  BY <1>1, <1>2, FieldsStill DEF Fields
<1>6. ~FsIdle /\ ~FsAsks /\ FsWaits
  BY <1>1 DEF FsIdle, FsAsks, FsWaits
<1>7. CASE TookFrom(FS, HD, HD)
  <2>1. /\ p_flags[HD] = {"SENDING"} /\ p_sendto[HD] = FS /\ p_flags'[HD] = {} /\ p_flags'[FS] = {}
        /\ buf'[FS] = buf[HD]
        /\ has_int_msg'[FS] = has_int_msg[FS] /\ has_int_msg'[HD] = has_int_msg[HD]
        /\ \A x \in Procs \ {FS, HD} : SameEntry(x)
    BY <1>7 DEF TookFrom
  <2>2. SameEntry(SYS) /\ \A u \in Users : SameEntry(u)
    BY <1>3, <2>1, Constants
  <2>3. hd_pc = "receive" /\ HdAnswers /\ Finished /\ ~HdAwaits
    <3>1. hd_pc = "receive"
      BY <1>2, <1>3, <2>1 DEF Traffic, HdTraffic, Sending
    <3>2. QED
      BY <1>2, <2>1, <3>1 DEF HdAnswers, HdAwaits, Progress
  <2>4. HdTraffic' /\ FsTraffic'
    BY <2>1 DEF HdTraffic, FsTraffic, Sending, Receiving
  <2>5. SysTraffic' /\ UserTraffic'
    BY <1>1, <1>2, <2>2, <2>3, TrafficFrame, UsersFrame
  <2>6. Mail'
    <3>1. ~Sending(HD)' /\ ~Sending(FS)' /\ has_int_msg'[FS] = FALSE /\ buf'[FS].body \in HdBodies
      BY <1>2, <1>3, <2>1 DEF Sending, Traffic, Mail
    <3>2. QED
      BY <1>2, <1>3, <2>1, <3>1, MailFrame
  <2>7. FsIdle' /\ HdFree' /\ ~FsAsks' /\ ~HdTook' /\ ~HdWorks'
    BY <1>1, <2>1, <2>3 DEF FsIdle, HdFree, FsAsks, HdTook, HdWorks
  <2>8. Finished'
    BY <1>1, <2>1, <2>3, FinishedStill
  <2>9. Phase' /\ Progress'
    BY <2>7, <2>8 DEF Phase, Progress
  <2>10. QED
    BY <1>4, <1>5, <2>4, <2>5, <2>6, <2>9 DEF HdInv, Core, Traffic
<1>8. CASE WaitsFor(FS, HD)
  <2>1. /\ p_flags'[FS] = {"RECEIVING"} /\ p_recvfrom'[FS] = HD /\ buf'[FS].body = buf[FS].body
        /\ has_int_msg'[FS] = has_int_msg[FS] /\ \A x \in Procs \ {FS} : SameEntry(x)
        /\ ~(p_flags[HD] = {"SENDING"} /\ p_sendto[HD] = FS)
    BY <1>3, <1>8 DEF WaitsFor
  <2>2. SameEntry(HD) /\ SameEntry(SYS) /\ \A u \in Users : SameEntry(u)
    BY <1>3, <2>1, Constants
  <2>3. FsTraffic'
    BY <1>1, <2>1 DEF FsTraffic, Sending, Receiving
  <2>4. HdTraffic' /\ SysTraffic' /\ UserTraffic'
    BY <1>1, <1>2, <2>2, TrafficFrame, UsersFrame DEF HdAwaits, SameEntry
  <2>5. Mail'
    <3>1. ~Sending(FS)' /\ has_int_msg'[FS] = FALSE /\ buf'[FS].body \in HdBodies
      BY <1>2, <1>3, <2>1 DEF Sending, Traffic, Mail
    <3>2. QED
      BY <1>2, <1>3, <2>1, <3>1, MailFrame
  <2>6. ~HdAnswers
    BY <1>2, <1>3, <2>1 DEF HdAnswers, Traffic, HdTraffic, Sending
  <2>7. HdTook \/ HdWorks
    BY <1>2, <1>6, <2>6 DEF Phase
  <2>8. /\ FsWaits' /\ ~FsIdle' /\ ~FsAsks' /\ ~HdAnswers'
        /\ (HdTook' <=> HdTook) /\ (HdWorks' <=> HdWorks)
    BY <1>1, <2>1, <2>2, <2>6 DEF FsWaits, FsIdle, FsAsks, HdAnswers, HdTook, HdWorks, SameEntry
  <2>9. Phase'
    BY <2>7, <2>8 DEF Phase
  <2>10. Request' = Request /\ src' = src
    BY <1>1, <1>6, <2>2, <2>8 DEF Request, Still, SameEntry
  <2>11. has_int_msg'[HD] = has_int_msg[HD] /\ p_flags'[HD] = p_flags[HD] /\ buf'[HD] = buf[HD]
    BY <2>2 DEF SameEntry
  <2>12. HdTook' => buf'[HD].source = FS /\ Fresh'
    BY <1>1, <1>2, <2>8, <2>10, <2>11, RequestStill DEF Progress, Fresh, Quiet
  <2>13. hd_pc' = "reply" => Finished'
    BY <1>1, <1>2, <2>11, FinishedStill DEF Progress
  <2>14. HdWorks' => src' = FS /\ Asks'
    BY <1>1, <1>2, <2>8, <2>10, RequestStill DEF Progress
  <2>15. HdWorks' /\ hd_pc' # "reply" => Step' /\ Transfer'
    BY <1>1, <1>2, <2>8, <2>10, <2>11, WorkStill DEF Progress
  <2>16. Progress'
    BY <2>8, <2>12, <2>13, <2>14, <2>15 DEF Progress
  <2>17. QED
    BY <1>4, <1>5, <2>3, <2>4, <2>5, <2>9, <2>16 DEF HdInv, Core, Traffic
<1>9. QED
  BY <1>4, <1>7, <1>8

(***************************************************************************)
(* The theorems                                                            *)
(***************************************************************************)

\* Nobody has asked for anything, and the disk is as FS expects it.
LEMMA HdInitially == HdInit /\ Fits => HdInv
<1> SUFFICES ASSUME HdInit, Fits PROVE HdInv
  OBVIOUS
<1>1. IInv
  <2>1. NoMsg \in Bodies
    BY Constants
  <2>2. Init
    BY <2>1 DEF HdInit, Init
  <2>3. QED
    BY <2>2, InitIInv
<1>2. ~halted /\ \A p \in Procs : p_flags[p] = {} /\ has_int_msg[p] = FALSE /\ buf[p].body = NoMsg
  BY DEF HdInit
<1>3. HD \in Procs /\ SYS \in Procs /\ FS \in Procs /\ Users \subseteq Procs /\ NoMsg \in HdBodies
  BY Constants
<1>4. Fields
  <2>1. disk \in [Sectors -> Cells] /\ expect.disk = disk /\ \A s \in Tables : disk[s] = Table(s)
    <3>1. PICK v \in setting.values : disk = [s \in Sectors |-> IF s \in Tables THEN Table(s) ELSE <<v>>]
      BY DEF HdInit
    <3>2. v \in Values
      BY HdAssumption DEF HdInit
    <3>3. \A s \in Sectors : (IF s \in Tables THEN Table(s) ELSE <<v>>) \in Cells
      BY <3>2 DEF Cells
    <3>4. Tables \subseteq Sectors
      BY Layout, DiskAssumption DEF Tables
    <3>5. expect.disk = disk
      BY DEF HdInit
    <3>6. QED
      BY <3>1, <3>3, <3>4, <3>5
  <2>2. /\ primary \in [0 .. NR_PART_PER_DRIVE -> Extents]
        /\ logical \in [0 .. NR_SUB_PER_DRIVE - 1 -> Extents]
    BY DEF HdInit, NoInfo, Extents
  <2>3. part \in [table : {<< >>, Primary}, i : 0 .. NR_PART_PER_DRIVE + 1, s : Nat, sub : Nat]
    BY DEF HdInit, NR_PART_PER_DRIVE
  <2>4. dev \in [st : {"idle", "busy", "drq", "writing"},
                 op : {"none", "ATA_IDENTIFY", "ATA_READ", "ATA_WRITE"}, lba : Sectors, left : Nat]
    BY DiskAssumption DEF HdInit, Idle
  <2>5. byte_left \in Nat /\ byte_left % SECTOR_SIZE = 0
    BY Quotient, HdAssumption DEF HdInit
  <2>6. setting \in Settings /\ calls \in 0 .. setting.maxCalls /\ open_cnt \in Nat /\ open_cnt <= calls
    BY HdAssumption DEF HdInit
  <2>7. fsbuf \in Seq(Cells) /\ expect.buf \in Seq(Cells)
    BY DEF HdInit
  <2>8. /\ hd_pc \in Places /\ src \in Procs /\ msg \in HdBodies
        /\ job \in {"identify", "table", "rw"} /\ mask \in {"BSY", "DRQ"}
        /\ sys_pc \in {"receive", "dispatch"} /\ fs_pc \in {"run", "recv"}
        /\ user_pc \in [Users -> {"run", "recv"}]
    BY <1>3 DEF HdInit, Places
  <2>9. QED
    BY <2>1, <2>2, <2>3, <2>4, <2>5, <2>6, <2>7, <2>8 DEF Fields
<1>5. Traffic
  <2>1. \A p \in Procs : ~Sending(p) /\ ~Receiving(p)
    BY <1>2 DEF Sending, Receiving
  <2>2. sys_pc = "receive"
    BY DEF HdInit
  <2>3. QED
    BY <1>2, <1>3, <2>1, <2>2 DEF Traffic, HdTraffic, SysTraffic, FsTraffic, UserTraffic, Mail
<1>6. FsIdle /\ HdFree /\ ~FsAsks /\ ~HdTook /\ ~HdWorks
  BY <1>2, <1>3 DEF HdInit, FsIdle, HdFree, FsAsks, HdTook, HdWorks
<1>7. Finished
  <2>1. Quiet
    BY <1>2, <1>3 DEF Quiet, HdInit
  <2>2. DiskBut(0, 0)
    BY DEF DiskBut, HdInit
  <2>3. QED
    BY <2>1, <2>2 DEF Finished, HdInit
<1>8. Phase /\ Progress
  BY <1>6, <1>7 DEF Phase, Progress, HdInit
<1>9. QED
  BY <1>1, <1>2, <1>4, <1>5, <1>8 DEF HdInv, Core

\* Nothing happens.
LEMMA HdStutters ==
    ASSUME HdInv, UNCHANGED allVars
    PROVE  HdInv'
<1>1. /\ UNCHANGED vars /\ Still /\ hd_pc' = hd_pc /\ UNCHANGED <<sys_pc, user_pc, fs_pc, halted>>
      /\ \A x \in Procs : SameEntry(x)
  BY DEF allVars, vars, hdVars, devVars, fsVars, Still, SameEntry
<1>2. CASE halted
  <2>1. HdTypeOK'
    BY <1>1, <1>2 DEF HdInv, RequestsExact, HdTypeOK, Still
  <2>2. FsBack' <=> FsBack
    BY <1>1 DEF FsBack, Running, vars
  <2>3. TransfersExact' /\ PartitionsFound'
    BY <1>1, <1>2, <2>2 DEF HdInv, RequestsExact, TransfersExact, PartitionsFound, Still
  <2>4. NoStrayInterrupt'
    BY <1>1, <1>2 DEF HdInv, NoStrayInterrupt, vars
  <2>5. QED
    BY <1>1, <1>2, <2>1, <2>3, <2>4 DEF HdInv, RequestsExact
<1>3. CASE ~halted
  <2>1. Core /\ IInv /\ Fields /\ Traffic /\ HD \in Procs /\ SYS \in Procs /\ FS \in Procs /\ Users \subseteq Procs
    BY <1>3, Constants DEF HdInv, Core
  <2>2. IInv'
    BY <1>1, <2>1, StepIInv
  <2>3. Fields'
    BY <1>1, <2>1, FieldsStill DEF Fields
  <2>4. HdTraffic' /\ SysTraffic' /\ FsTraffic' /\ UserTraffic'
    BY <1>1, <2>1, TrafficFrame, UsersFrame DEF HdAwaits, SameEntry
  <2>5. Mail'
    BY <1>1, <2>1 DEF Traffic, Mail, Sending, SameEntry
  <2>6. Phase' /\ Progress'
    BY <1>1, <2>1, OthersStill DEF SameEntry
  <2>7. QED
    BY <1>1, <1>3, <2>2, <2>3, <2>4, <2>5, <2>6 DEF HdInv, Core, Traffic
<1>4. QED
  BY <1>2, <1>3

\* Every step of the driver, of the disk, of SYS and of those who call them keeps it.
LEMMA HdStepKeeps ==
    ASSUME HdInv, [HdNext]_allVars
    PROVE  HdInv'
<1>1. CASE UNCHANGED allVars
  BY <1>1, HdStutters
<1>2. CASE HdNext
  <2>1. setting' = setting
    BY <1>2 DEF HdNext
  <2>2. CASE HdStep
    <3>1. ~halted
      BY <2>2
      DEF HdStep, HdReceive, HdDispatch, HdClose, HdIoctl, HdAskTicks, HdGetTicks, HdNotYet,
          HdTimeout, HdCommand, HdPortWrite, HdInterruptWait, HdReadSector, HdWroteSector,
          HdIdentified, HdPrimaryTable, HdEntry, HdEntriesEnd, HdLogicalTable, HdReply, HdAt
    <3>2. Core
      BY <3>1 DEF HdInv
    <3>3. CASE \/ HdReceive \/ HdDispatch \/ HdClose \/ HdIoctl \/ HdAskTicks \/ HdGetTicks
               \/ HdNotYet \/ HdTimeout
      BY <2>1, <3>1, <3>2, <3>3, ReceiveKeeps, DispatchKeeps, ServeKeeps, AskTicksKeeps,
         GetTicksKeeps, NotYetKeeps, TimeoutKeeps
    <3>4. CASE \/ HdCommand \/ HdPortWrite \/ HdInterruptWait \/ HdReadSector \/ HdWroteSector
               \/ HdIdentified
      BY <2>1, <3>1, <3>2, <3>4, CommandKeeps, PortWriteKeeps, InterruptWaitKeeps,
         ReadSectorKeeps, WroteSectorKeeps, IdentifiedKeeps
    <3>5. CASE HdPrimaryTable \/ HdEntry \/ HdEntriesEnd \/ HdLogicalTable \/ HdReply
      BY <2>1, <3>1, <3>2, <3>5, PrimaryTableKeeps, EntryKeeps, EntriesEndKeeps,
         LogicalTableKeeps, ReplyKeeps
    <3>6. QED
      BY <2>2, <3>3, <3>4, <3>5 DEF HdStep
  <2>3. CASE DeviceStep
    <3>1. ~halted
      BY <2>3 DEF DeviceStep, DeviceRead, DeviceReady, DeviceWritten
    <3>2. Core
      BY <3>1 DEF HdInv
    <3>3. QED
      BY <2>1, <2>3, <3>1, <3>2, DeviceReadKeeps, DeviceReadyKeeps, DeviceWrittenKeeps DEF DeviceStep
  <2>4. CASE SysStep
    <3>1. ~halted
      BY <2>4 DEF SysStep, SysTake, SysReply
    <3>2. Core
      BY <3>1 DEF HdInv
    <3>3. QED
      BY <2>1, <2>4, <3>1, <3>2, SysTakeKeeps, SysReplyKeeps DEF SysStep
  <2>5. CASE FsStep
    <3>1. CASE FsAwait
      <4>1. ~halted /\ Core
        BY <3>1 DEF FsAwait, HdInv
      <4>2. QED
        BY <2>1, <3>1, <4>1, FsAwaitKeeps
    <3>2. ASSUME NEW c \in setting.calls, NEW pos \in setting.positions, NEW n \in setting.counts,
                 NEW v \in setting.values, FsCall(c, pos, n, v)
          PROVE  HdInv'
      <4>1. ~halted /\ Core
        BY <3>2 DEF FsCall, HdInv
      <4>2. QED
        BY <2>1, <3>2, <4>1, FsCallKeeps
    <3>3. QED
      BY <2>5, <3>1, <3>2 DEF FsStep
  <2>6. ASSUME NEW u \in setting.askers, UserStep(u)
        PROVE  HdInv'
    <3>1. ~halted
      BY <2>6 DEF UserStep, UserAwait, UserCall
    <3>2. Core
      BY <3>1 DEF HdInv
    <3>3. u \in Users
      BY <3>2, HdAssumption DEF Core, Fields
    <3>4. QED
      BY <2>1, <2>6, <3>1, <3>2, <3>3, UserCallKeeps, UserAwaitKeeps DEF UserStep
  <2>7. QED
    BY <1>2, <2>2, <2>3, <2>4, <2>5, <2>6 DEF HdNext
<1>3. QED
  BY <1>1, <1>2

\* The invariant says what the runs check, whether the driver has panicked or not.
LEMMA HdInvImplies == HdInv => RequestsExact /\ NoStrayInterrupt
BY CoreImplies DEF HdInv

\* hd.c, systask.c and fs/main.c: as long as FS asks for whole sectors that fit the
\* register for their number, every request in flight is in one place, and disk and
\* driver go through its command in step.
THEOREM DriverInvariant == HdSpec /\ Fits => []HdInv
<1>1. HdInit /\ Fits => HdInv
  BY HdInitially
<1>2. HdInv /\ [HdNext]_allVars => HdInv'
  BY HdStepKeeps
<1>3. QED
  BY <1>1, <1>2, PTL DEF HdSpec

\* hd_rw, hd_open and hd_ioctl: what is answered is what is on the disk, a write changes
\* just the sectors it was asked to, and hds_info has every partition after the first open.
THEOREM DriverExact == HdSpec /\ Fits => []RequestsExact
BY DriverInvariant, HdInvImplies, PTL

\* interrupt_wait: every interrupt of the disk is taken by the command it belongs to.
THEOREM InterruptsBelong == HdSpec /\ Fits => []NoStrayInterrupt
BY DriverInvariant, HdInvImplies, PTL
================================================================================
