----------------------------------- MODULE Hd -----------------------------------
(***************************************************************************)
(* The hard disk driver (driver/hd.c), the system task that tells it the   *)
(* time (kernel/systask.c) and the file system's requests to it            *)
(* (fs/main.c), on top of module Ipc.                                      *)
(*                                                                         *)
(* The driver gives the disk one command at a time and waits: for a bit of *)
(* the status register by polling until a timeout, for an interrupt by     *)
(* RECEIVE.  The disk is modelled from how the driver uses it: it answers  *)
(* a read with one interrupt per sector, and a write with one interrupt    *)
(* behind each sector it was given.                                        *)
(*                                                                         *)
(* A sector holds a value or a partition table.  Positions and counts are  *)
(* in bytes, SECTOR_SIZE of them in a sector.                              *)
(***************************************************************************)
EXTENDS Ipc, FiniteSets, TLC

CONSTANTS
    HD, SYS, FS,        \* the three tasks; other processes only ask for the time
    SECTOR_SIZE,
    NSECTOR,            \* what the register for the number of sectors can count to
    NR_SUB_PER_PART,    \* logical partitions in an extended one
    Sectors, Values,    \* sectors of the disk, contents of a sector
    Primary, Logical,   \* the layout of the disk, see Table
    Settings            \* what is asked of the driver, see setting

Users == Procs \ {HD, SYS, FS}

NR_PART_PER_DRIVE == 4
NR_SUB_PER_DRIVE == NR_SUB_PER_PART * NR_PART_PER_DRIVE
MAX_PRIM_INDEX == 2 * (NR_PART_PER_DRIVE + 1) - 1
MINOR_hd1a == 16

\* What the data register holds when there is no sector.
Junk == -1

ASSUME HdAssumption ==
    /\ {HD, SYS, FS} \subseteq Procs /\ Cardinality({HD, SYS, FS}) = 3
    /\ IntTasks = {HD}
    /\ {SECTOR_SIZE, NSECTOR, NR_SUB_PER_PART} \subseteq Nat \ {0}
    /\ \A w \in Settings :
         /\ w.calls \subseteq {"DEV_OPEN", "DEV_CLOSE", "DEV_READ", "DEV_WRITE", "DEV_IOCTL"}
         /\ w.positions \subseteq Nat /\ w.counts \subseteq Nat /\ w.maxCalls \in Nat
         /\ \A n \in w.positions \cup w.counts : n % SECTOR_SIZE = 0
         /\ w.values \subseteq Values /\ Junk \notin Values /\ w.askers \subseteq Users
         /\ w.timeouts \in BOOLEAN

VARIABLES
    setting,      \* never changed: the device FS works on, its calls, positions, counts
                  \* and values, who else asks for the time, whether the disk may be too
                  \* slow, and the bound on the requests of FS
    hd_pc,        \* where HD is
    src, msg,     \* the request at hand
    job,          \* what the command is for: "identify", "table" or "rw"
    mask,         \* the status bit waitfor waits for
    byte_left,
    open_cnt, primary, logical,   \* hds_info[0]
    part,         \* where partition() is: table, entry, sector, logical partition
    dev,          \* the disk: state, command, sector, sectors left
    port, disk,   \* its data register, its contents
    sys_pc,       \* where SYS is
    user_pc,      \* where each of the other processes is
    fs_pc, fsbuf, calls,  \* FS, its buffer, and how often it called
    expect        \* what FS expects of its buffer and of the disk

hdVars  == <<hd_pc, src, msg, job, mask, byte_left, open_cnt, primary, logical, part>>
devVars == <<dev, port, disk>>
fsVars  == <<fs_pc, fsbuf, calls, expect>>
allVars == <<setting, vars, hdVars, devVars, sys_pc, user_pc, fsVars>>

Body(type, pos, cnt) == [type |-> type, pos |-> pos, cnt |-> cnt]
HdBodies ==
    {Body(t, p, n) : t \in (UNION {w.calls : w \in Settings})
                           \cup {"GET_TICKS", "GET_PID", "SYSCALL_RET"},
                     p \in (UNION {w.positions : w \in Settings}) \cup {0},
                     n \in (UNION {w.counts : w \in Settings}) \cup {0}}
NoMsg == Body("GET_TICKS", 0, 0)

ASSUME HdBodiesAssumption == HdBodies \subseteq Bodies /\ HARD_INT \notin HdBodies

(***************************************************************************)
(* The disk's layout: Primary[i] is the i-th primary partition with its    *)
(* kind, base and size, Logical[i] the sequence of logical partitions in   *)
(* it.  A logical partition has a table of its own in front, at sector at. *)
(***************************************************************************)
NoPart == [sys_id |-> "NO_PART", start |-> 0, nr |-> 0]

Tables == {0} \cup UNION {{Logical[i][k].at : k \in 1 .. Len(Logical[i])} : i \in DOMAIN Logical}

\* The partition table in a sector: the first one has the primary partitions, the
\* others a logical partition and the place of the next table.
Table(s) ==
    IF s = 0 THEN Primary
    ELSE LET i == CHOOSE j \in DOMAIN Logical : \E k \in 1 .. Len(Logical[j]) : Logical[j][k].at = s
             k == CHOOSE n \in 1 .. Len(Logical[i]) : Logical[i][n].at = s
             l == Logical[i][k]
         IN  <<[sys_id |-> "ORANGE_PART", start |-> l.base - s, nr |-> l.size],
               IF k = Len(Logical[i]) THEN NoPart
               ELSE [sys_id |-> "EXT_PART", start |-> Logical[i][k + 1].at - Primary[i].start,
                     nr |-> Logical[i][k + 1].size],
               NoPart, NoPart>>

\* The devices of the drive: a primary partition, or a logical one by its minor number.
Minor(i, k) == MINOR_hd1a + (i - 1) * NR_SUB_PER_PART + k - 1
Devices ==
    {i \in 1 .. NR_PART_PER_DRIVE : Primary[i].sys_id = "ORANGE_PART"}
    \cup UNION {{Minor(i, k) : k \in 1 .. Len(Logical[i])} : i \in DOMAIN Logical}

\* Where a device is, by the layout of the disk.
PlaceOf(d) ==
    LET l == d - MINOR_hd1a
        p == Logical[l \div NR_SUB_PER_PART + 1][(l % NR_SUB_PER_PART) + 1]
    IN  IF d < MINOR_hd1a THEN [base |-> Primary[d].start, size |-> Primary[d].nr]
        ELSE [base |-> p.base, size |-> p.size]
Place == PlaceOf(setting.device)

\* The disk is partitioned: extended partitions begin with a table, no two tables are
\* in one sector, and none is within the device that FS works on.
ASSUME DiskAssumption ==
    /\ IsFiniteSet(Sectors) /\ Sectors \subseteq Nat /\ 0 \in Sectors
    /\ Primary \in [1 .. NR_PART_PER_DRIVE ->
                       [sys_id : {"NO_PART", "ORANGE_PART", "EXT_PART"}, start : Nat, nr : Nat]]
    /\ \A i \in DOMAIN Primary : Primary[i].sys_id = "NO_PART" <=> Primary[i] = NoPart
    /\ \E i \in DOMAIN Primary : Primary[i] # NoPart
    /\ DOMAIN Logical = {i \in DOMAIN Primary : Primary[i].sys_id = "EXT_PART"}
    /\ \A i \in DOMAIN Logical :
         /\ Logical[i] \in Seq([at : Sectors \ {0}, base : Nat, size : Nat])
         /\ Len(Logical[i]) \in 1 .. NR_SUB_PER_PART /\ Logical[i][1].at = Primary[i].start
    /\ \A i, j \in DOMAIN Logical : \A k \in 1 .. Len(Logical[i]), n \in 1 .. Len(Logical[j]) :
         Logical[i][k].at = Logical[j][n].at => i = j /\ k = n
    /\ \A w \in Settings :
         LET d == PlaceOf(w.device)
         IN  w.device \in Devices /\ d.base .. d.base + d.size - 1 \subseteq Sectors \ Tables

Idle == [st |-> "idle", op |-> "none", lba |-> 0, left |-> 0]
NoInfo == [base |-> 0, size |-> 0]

HdInit ==
    /\ setting \in Settings
    /\ p_flags = [p \in Procs |-> {}]
    /\ p_msg = [p \in Procs |-> FALSE]
    /\ p_recvfrom = [p \in Procs |-> NO_TASK]
    /\ p_sendto = [p \in Procs |-> NO_TASK]
    /\ has_int_msg = [p \in Procs |-> FALSE]
    /\ q_sending = [p \in Procs |-> << >>]
    /\ buf = [p \in Procs |-> [source |-> p, body |-> NoMsg]]
    /\ halted = FALSE
    /\ hd_pc = "receive" /\ src = HD /\ msg = NoMsg /\ job = "rw" /\ mask = "BSY" /\ byte_left = 0
    /\ open_cnt = 0
    /\ primary = [i \in 0 .. NR_PART_PER_DRIVE |-> NoInfo]
    /\ logical = [i \in 0 .. NR_SUB_PER_DRIVE - 1 |-> NoInfo]
    /\ part = [table |-> Primary, i |-> 0, s |-> 0, sub |-> 0]
    /\ dev = Idle /\ port = << >>
    /\ \E v \in setting.values : disk = [s \in Sectors |-> IF s \in Tables THEN Table(s) ELSE <<v>>]
    /\ sys_pc = "receive" /\ user_pc = [u \in Users |-> "run"]
    /\ fs_pc = "run" /\ fsbuf = << >> /\ calls = 0
    /\ expect = [buf |-> << >>, disk |-> disk]

(***************************************************************************)
(* The disk and its interrupt                                              *)
(***************************************************************************)
hd_handler == inform_int(HD)
DeviceKeeps == UNCHANGED <<hdVars, sys_pc, user_pc, fsVars>>

\* A sector is there to be read.
DeviceRead ==
    /\ ~halted /\ dev.st = "busy" /\ dev.op # "ATA_WRITE"
    /\ port' = IF dev.op = "ATA_IDENTIFY" THEN <<Cardinality(Sectors)>> ELSE disk[dev.lba]
    /\ dev' = [dev EXCEPT !.st = "drq"]
    /\ hd_handler
    /\ UNCHANGED disk
    /\ DeviceKeeps

\* The disk is ready to be given the first sector of a write: no interrupt.
DeviceReady ==
    /\ ~halted /\ dev.st = "busy" /\ dev.op = "ATA_WRITE"
    /\ dev' = [dev EXCEPT !.st = "drq"]
    /\ UNCHANGED <<vars, port, disk>>
    /\ DeviceKeeps

NextSector(d, st) ==
    IF d.left = 1 THEN Idle ELSE [d EXCEPT !.st = st, !.lba = @ + 1, !.left = @ - 1]

\* A sector has been written.
DeviceWritten ==
    /\ ~halted /\ dev.st = "writing"
    /\ disk' = [disk EXCEPT ![dev.lba] = port]
    /\ dev' = NextSector(dev, "drq")
    /\ hd_handler
    /\ UNCHANGED port
    /\ DeviceKeeps

(***************************************************************************)
(* SYS                                                                     *)
(***************************************************************************)
SysTake ==
    /\ ~halted /\ Running(SYS) /\ sys_pc = "receive"
    /\ msg_receive(SYS, ANY)
    /\ sys_pc' = "dispatch"
    /\ UNCHANGED <<hdVars, devVars, user_pc, fsVars>>

\* Wrong: only GET_TICKS is answered.
SysReply_TicksOnly ==
    /\ ~halted /\ Running(SYS) /\ sys_pc = "dispatch"
    /\ LET m == buf[SYS]
       IN  IF m.body.type = "GET_TICKS" THEN msg_send(SYS, m.source, m.body) ELSE UNCHANGED vars
    /\ sys_pc' = "receive"
    /\ UNCHANGED <<hdVars, devVars, user_pc, fsVars>>

\* GET_TICKS and GET_PID are answered; there are no other requests.
SysReply ==
    /\ ~halted /\ Running(SYS) /\ sys_pc = "dispatch"
    /\ LET m == buf[SYS]
       IN  msg_send(SYS, m.source, IF m.body.type = "GET_PID"
                                   THEN Body("SYSCALL_RET", 0, 0) ELSE m.body)
    /\ sys_pc' = "receive"
    /\ UNCHANGED <<hdVars, devVars, user_pc, fsVars>>

\* get_ticks and getpid of other processes.
UserCall(u, type) ==
    /\ ~halted /\ Running(u) /\ user_pc[u] = "run"
    /\ msg_send(u, SYS, Body(type, 0, 0))
    /\ user_pc' = [user_pc EXCEPT ![u] = "recv"]
    /\ UNCHANGED <<hdVars, devVars, sys_pc, fsVars>>

UserAwait(u) ==
    /\ ~halted /\ Running(u) /\ user_pc[u] = "recv"
    /\ msg_receive(u, SYS)
    /\ user_pc' = [user_pc EXCEPT ![u] = "run"]
    /\ UNCHANGED <<hdVars, devVars, sys_pc, fsVars>>

(***************************************************************************)
(* HD                                                                      *)
(***************************************************************************)
HdAt(pc) == ~halted /\ Running(HD) /\ hd_pc = pc
HdKeeps == UNCHANGED <<sys_pc, user_pc, fs_pc, calls, expect>>

\* The state of the driver other than where it is and what it works at.
infoVars == <<open_cnt, primary, logical, part>>

HdReceive ==
    /\ HdAt("receive")
    /\ msg_receive(HD, ANY)
    /\ hd_pc' = "dispatch"
    /\ UNCHANGED <<src, msg, job, mask, byte_left, infoVars, devVars, fsbuf>>
    /\ HdKeeps

\* The entry of hds_info for a device.
Info(d) == IF d < MAX_PRIM_INDEX THEN primary[d] ELSE logical[(d - MINOR_hd1a) % NR_SUB_PER_DRIVE]

\* A command is to be given for job j: hd_cmd_out first waits for BSY to go away.
Begin(j) == job' = j /\ mask' = "BSY" /\ hd_pc' = "clock"

\* The requests that take the disk begin with a command.  A message that is no
\* request makes the driver spin.
HdDispatch ==
    /\ HdAt("dispatch")
    /\ LET m == buf[HD].body
       IN  IF m = HARD_INT THEN hd_pc' = "spin" /\ UNCHANGED <<src, msg, job, mask, byte_left>>
           ELSE /\ m.type \notin {"DEV_CLOSE", "DEV_IOCTL"}
                /\ src' = buf[HD].source /\ msg' = m
                /\ Begin(IF m.type = "DEV_OPEN" THEN "identify" ELSE "rw")
                /\ byte_left' = m.cnt
    /\ UNCHANGED <<vars, infoVars, devVars, fsbuf>>
    /\ HdKeeps

HdClose ==
    /\ HdAt("dispatch")
    /\ buf[HD].body # HARD_INT /\ buf[HD].body.type = "DEV_CLOSE"
    /\ src' = buf[HD].source /\ msg' = buf[HD].body
    /\ open_cnt' = open_cnt - 1
    /\ hd_pc' = "reply"
    /\ UNCHANGED <<vars, job, mask, byte_left, primary, logical, part, devVars, fsbuf>>
    /\ HdKeeps

HdIoctl ==
    /\ HdAt("dispatch")
    /\ buf[HD].body # HARD_INT /\ buf[HD].body.type = "DEV_IOCTL"
    /\ src' = buf[HD].source /\ msg' = buf[HD].body
    /\ fsbuf' = <<<<Info(setting.device).base, Info(setting.device).size>>>>
    /\ hd_pc' = "reply"
    /\ UNCHANGED <<vars, job, mask, byte_left, infoVars, devVars>>
    /\ HdKeeps

\* waitfor reads the clock, and then again in each round of its loop: the SEND ...
HdAskTicks ==
    /\ \/ HdAt("clock") /\ hd_pc' = "clock_recv"
       \/ HdAt("round") /\ hd_pc' = "round_recv"
    /\ msg_send(HD, SYS, Body("GET_TICKS", 0, 0))
    /\ UNCHANGED <<src, msg, job, mask, byte_left, infoVars, devVars, fsbuf>>
    /\ HdKeeps

\* ... and the RECEIVE of get_ticks.
HdGetTicks ==
    /\ \/ HdAt("clock_recv") /\ hd_pc' = "round"
       \/ HdAt("round_recv") /\ hd_pc' = "test"
    /\ msg_receive(HD, SYS)
    /\ UNCHANGED <<src, msg, job, mask, byte_left, infoVars, devVars, fsbuf>>
    /\ HdKeeps

StatusOk == IF mask = "BSY" THEN dev.st \notin {"busy", "writing"} ELSE dev.st = "drq"

HdNotYet ==
    /\ HdAt("test") /\ ~StatusOk
    /\ hd_pc' = "round"
    /\ UNCHANGED <<vars, src, msg, job, mask, byte_left, infoVars, devVars, fsbuf>>
    /\ HdKeeps

\* The time is over, whatever the status is by now: panic.
HdTimeout ==
    /\ setting.timeouts /\ HdAt("test")
    /\ halted' = TRUE
    /\ UNCHANGED <<p_flags, p_msg, p_recvfrom, p_sendto, has_int_msg, q_sending, buf,
                   hdVars, devVars, fsbuf>>
    /\ HdKeeps

StartSector == Info(setting.device).base + msg.pos \div SECTOR_SIZE

\* Wrong: one sector more than asked for.
Command_OneMore ==
    LET n == (msg.cnt \div SECTOR_SIZE + 1) % NSECTOR
    IN  CASE job = "identify" -> [st |-> "busy", op |-> "ATA_IDENTIFY", lba |-> 0, left |-> 1]
          [] job = "table" -> [st |-> "busy", op |-> "ATA_READ", lba |-> part.s, left |-> 1]
          [] job = "rw" -> [st |-> "busy", lba |-> StartSector,
                            op |-> IF msg.type = "DEV_READ" THEN "ATA_READ" ELSE "ATA_WRITE",
                            left |-> IF n = 0 THEN NSECTOR ELSE n]

\* The command for the job: the number of sectors has to fit the register, and the
\* disk takes 0 for as many as it can count.
Command ==
    LET n == ((msg.cnt + SECTOR_SIZE - 1) \div SECTOR_SIZE) % NSECTOR
    IN  CASE job = "identify" -> [st |-> "busy", op |-> "ATA_IDENTIFY", lba |-> 0, left |-> 1]
          [] job = "table" -> [st |-> "busy", op |-> "ATA_READ", lba |-> part.s, left |-> 1]
          [] job = "rw" -> [st |-> "busy", lba |-> StartSector,
                            op |-> IF msg.type = "DEV_READ" THEN "ATA_READ" ELSE "ATA_WRITE",
                            left |-> IF n = 0 THEN NSECTOR ELSE n]

Writes == job = "rw" /\ msg.type = "DEV_WRITE"

\* hd_cmd_out: the registers are written.  What follows depends on the direction.
HdCommand ==
    /\ HdAt("test") /\ mask = "BSY" /\ StatusOk
    /\ dev' = Command
    /\ hd_pc' = IF Writes THEN "clock" ELSE "int"
    /\ mask' = "DRQ"
    /\ UNCHANGED <<vars, src, msg, job, byte_left, infoVars, port, disk, fsbuf>>
    /\ HdKeeps

\* port_write of the next sector of the buffer.
HdPortWrite ==
    /\ HdAt("test") /\ mask = "DRQ" /\ StatusOk
    /\ port' = fsbuf[(msg.cnt - byte_left) \div SECTOR_SIZE + 1]
    /\ dev' = [dev EXCEPT !.st = "writing"]
    /\ hd_pc' = "int"
    /\ UNCHANGED <<vars, src, msg, job, mask, byte_left, infoVars, disk, fsbuf>>
    /\ HdKeeps

HdInterruptWait ==
    /\ HdAt("int")
    /\ msg_receive(HD, INTERRUPT)
    /\ hd_pc' = "got"
    /\ UNCHANGED <<src, msg, job, mask, byte_left, infoVars, devVars, fsbuf>>
    /\ HdKeeps

\* port_read takes the sector that the disk holds ready; without one it reads junk.
Sector == IF dev.st = "drq" THEN port ELSE <<Junk>>
port_read == dev' = IF dev.st = "drq" THEN NextSector(dev, "busy") ELSE dev

\* Wrong: the loop is left one sector too late.
Loop_Late(again) ==
    /\ byte_left' = byte_left - SECTOR_SIZE
    /\ hd_pc' = IF byte_left' < 0 THEN "reply" ELSE again

\* The end of the loop of hd_rw.
Loop(again) ==
    /\ byte_left' = byte_left - SECTOR_SIZE
    /\ hd_pc' = IF byte_left' = 0 THEN "reply" ELSE again

HdReadSector ==
    /\ HdAt("got") /\ job = "rw" /\ ~Writes
    /\ port_read
    /\ fsbuf' = Append(fsbuf, Sector)
    /\ Loop("int")
    /\ UNCHANGED <<vars, src, msg, job, mask, infoVars, port, disk>>
    /\ HdKeeps

HdWroteSector ==
    /\ HdAt("got") /\ Writes
    /\ Loop("clock")
    /\ UNCHANGED <<vars, src, msg, job, mask, infoVars, devVars, fsbuf>>
    /\ HdKeeps

\* hd_open, behind hd_identify: the first open reads the partition tables.
HdOpened ==
    /\ open_cnt' = open_cnt + 1
    /\ part' = [table |-> << >>, i |-> 0, s |-> 0, sub |-> 0]
    /\ IF open_cnt = 0 THEN Begin("table") ELSE hd_pc' = "reply" /\ UNCHANGED <<job, mask>>

\* hd_identify.
HdIdentified ==
    /\ HdAt("got") /\ job = "identify"
    /\ port_read
    /\ primary' = [primary EXCEPT ![0] = [base |-> 0, size |-> Sector[1]]]
    /\ HdOpened
    /\ UNCHANGED <<vars, src, msg, byte_left, logical, port, disk, fsbuf>>
    /\ HdKeeps

\* partition, for the drive: the table has been read, its entries are gone through.
HdPrimaryTable ==
    /\ HdAt("got") /\ job = "table" /\ part.i = 0
    /\ port_read
    /\ part' = [part EXCEPT !.table = Sector, !.i = 1]
    /\ hd_pc' = "entry"
    /\ UNCHANGED <<vars, src, msg, job, mask, byte_left, open_cnt, primary, logical, port, disk, fsbuf>>
    /\ HdKeeps

\* An entry of the drive's table; an extended partition has tables of its own.
HdEntry ==
    /\ HdAt("entry") /\ part.i <= NR_PART_PER_DRIVE
    /\ LET e == part.table[part.i]
       IN  IF e.sys_id = "NO_PART"
           THEN part' = [part EXCEPT !.i = @ + 1] /\ UNCHANGED <<hd_pc, job, mask, primary>>
           ELSE /\ primary' = [primary EXCEPT ![part.i] = [base |-> e.start, size |-> e.nr]]
                /\ IF e.sys_id = "EXT_PART"
                   THEN Begin("table") /\ part' = [part EXCEPT !.s = e.start, !.sub = 0]
                   ELSE part' = [part EXCEPT !.i = @ + 1] /\ UNCHANGED <<hd_pc, job, mask>>
    /\ UNCHANGED <<vars, src, msg, byte_left, open_cnt, logical, devVars, fsbuf>>
    /\ HdKeeps

\* The end of the table: there must have been a partition.
HdEntriesEnd ==
    /\ HdAt("entry") /\ part.i > NR_PART_PER_DRIVE
    /\ hd_pc' = IF \E i \in 1 .. NR_PART_PER_DRIVE : part.table[i].sys_id # "NO_PART"
                THEN "reply" ELSE "spin"
    /\ UNCHANGED <<vars, src, msg, job, mask, byte_left, infoVars, devVars, fsbuf>>
    /\ HdKeeps

\* Wrong: a logical partition is taken to be placed from the extended one.
LogicalBase_Extended(t) == primary[part.i].base + t[1].start

\* A logical partition is placed from its own table.
LogicalBase(t) == part.s + t[1].start

\* Where the next table of the extended partition is.
NextTable(t) == primary[part.i].base + t[2].start

\* partition, for an extended partition: a logical partition and the next table.
HdLogicalTable ==
    /\ HdAt("got") /\ job = "table" /\ part.i > 0
    /\ port_read
    /\ logical' = [logical EXCEPT ![(part.i - 1) * NR_SUB_PER_PART + part.sub] =
                       [base |-> LogicalBase(Sector), size |-> Sector[1].nr]]
    /\ IF Sector[2].sys_id = "NO_PART" \/ part.sub + 1 = NR_SUB_PER_PART
       THEN /\ part' = [part EXCEPT !.s = NextTable(Sector), !.i = @ + 1]
            /\ hd_pc' = "entry" /\ UNCHANGED <<job, mask>>
       ELSE /\ part' = [part EXCEPT !.s = NextTable(Sector), !.sub = @ + 1]
            /\ Begin("table")
    /\ UNCHANGED <<vars, src, msg, byte_left, open_cnt, primary, port, disk, fsbuf>>
    /\ HdKeeps

HdReply ==
    /\ HdAt("reply")
    /\ msg_send(HD, src, msg)
    /\ hd_pc' = "receive"
    /\ UNCHANGED <<src, msg, job, mask, byte_left, infoVars, devVars, fsbuf>>
    /\ HdKeeps

(***************************************************************************)
(* FS: init_fs opens the device, get_geo asks for its place, rw_sector     *)
(* reads and writes it.                                                    *)
(***************************************************************************)

FsCall(c, pos, n, v) ==
    LET from == Place.base + pos \div SECTOR_SIZE
        len == n \div SECTOR_SIZE
    IN  /\ ~halted /\ Running(FS) /\ fs_pc = "run" /\ calls < setting.maxCalls
        /\ c # "DEV_OPEN" => open_cnt > 0
        /\ from + len <= Place.base + Place.size
        /\ msg_send(FS, HD, Body(c, pos, n))
        /\ fs_pc' = "recv" /\ calls' = calls + 1
        /\ fsbuf' = IF c = "DEV_WRITE" THEN [i \in 1 .. len |-> <<v, i>>] ELSE << >>
        /\ expect' =
             [buf |-> CASE c = "DEV_READ" -> [i \in 1 .. len |-> expect.disk[from + i - 1]]
                        [] c = "DEV_IOCTL" -> <<<<Place.base, Place.size>>>>
                        [] OTHER -> fsbuf',
              disk |-> IF c = "DEV_WRITE"
                       THEN [s \in Sectors |-> IF s \in from .. from + len - 1
                                               THEN <<v, s - from + 1>> ELSE expect.disk[s]]
                       ELSE expect.disk]
        /\ UNCHANGED <<hdVars, devVars, sys_pc, user_pc>>

FsAwait ==
    /\ ~halted /\ Running(FS) /\ fs_pc = "recv"
    /\ msg_receive(FS, HD)
    /\ fs_pc' = "run"
    /\ UNCHANGED <<hdVars, devVars, sys_pc, user_pc, fsbuf, calls, expect>>

HdStep ==
    \/ HdReceive \/ HdDispatch \/ HdClose \/ HdIoctl \/ HdAskTicks \/ HdGetTicks \/ HdNotYet
    \/ HdTimeout \/ HdCommand \/ HdPortWrite \/ HdInterruptWait \/ HdReadSector \/ HdWroteSector
    \/ HdIdentified \/ HdPrimaryTable \/ HdEntry \/ HdEntriesEnd \/ HdLogicalTable \/ HdReply

DeviceStep == DeviceRead \/ DeviceReady \/ DeviceWritten
SysStep == SysTake \/ SysReply
UserStep(u) == UserAwait(u) \/ \E type \in {"GET_TICKS", "GET_PID"} : UserCall(u, type)
FsStep ==
    \/ FsAwait
    \/ \E c \in setting.calls, pos \in setting.positions, n \in setting.counts, v \in setting.values :
          FsCall(c, pos, n, v)

HdNext ==
    /\ HdStep \/ DeviceStep \/ SysStep \/ FsStep \/ \E u \in setting.askers : UserStep(u)
    /\ UNCHANGED setting

\* Tasks are scheduled, and the disk does what it is told.
HdSpec ==
    /\ HdInit /\ [][HdNext]_allVars
    /\ WF_allVars(HdStep /\ UNCHANGED setting) /\ WF_allVars(DeviceStep /\ UNCHANGED setting)
    /\ WF_allVars(SysStep /\ UNCHANGED setting) /\ WF_allVars(FsAwait /\ UNCHANGED setting)
    /\ \A u \in Users : WF_allVars(UserAwait(u) /\ UNCHANGED setting)

(***************************************************************************)
(* Properties                                                              *)
(***************************************************************************)

\* The values of the variables; hds_info stays within its arrays.
HdTypeOK ==
    /\ hd_pc \in {"receive", "dispatch", "clock", "clock_recv", "round", "round_recv", "test",
                  "int", "got", "entry", "reply", "spin"}
    /\ src \in Procs /\ msg \in HdBodies
    /\ job \in {"identify", "table", "rw"} /\ mask \in {"BSY", "DRQ"}
    /\ byte_left \in Nat /\ byte_left % SECTOR_SIZE = 0
    /\ open_cnt \in 0 .. setting.maxCalls
    /\ DOMAIN primary = 0 .. NR_PART_PER_DRIVE /\ DOMAIN logical = 0 .. NR_SUB_PER_DRIVE - 1
    /\ dev.st \in {"idle", "busy", "drq", "writing"} /\ dev.lba \in Sectors
    /\ DOMAIN disk = Sectors
    /\ sys_pc \in {"receive", "dispatch"} /\ fs_pc \in {"run", "recv"}

\* FS runs and is not in a call.
FsBack == Running(FS) /\ fs_pc = "run"

\* When a request of FS is answered, a read has brought exactly the sectors asked
\* for, a write has changed exactly those, and the place of the device is the one on
\* the disk.
TransfersExact == FsBack => fsbuf = expect.buf /\ disk = expect.disk

\* After the first open hds_info has every partition of the disk at its index.
PartitionsFound ==
    FsBack /\ calls > 0 =>
        /\ \A i \in 1 .. NR_PART_PER_DRIVE : Primary[i] # NoPart =>
             primary[i] = [base |-> Primary[i].start, size |-> Primary[i].nr]
        /\ \A i \in DOMAIN Logical : \A k \in 1 .. Len(Logical[i]) :
             logical[(i - 1) * NR_SUB_PER_PART + k - 1] =
                 [base |-> Logical[i][k].base, size |-> Logical[i][k].size]

\* An interrupt of the disk is taken by the request it belongs to: none is left over
\* when the driver receives requests, and it never gets an interrupt for a request.
NoStrayInterrupt ==
    /\ hd_pc = "receive" => ~has_int_msg[HD]
    /\ hd_pc # "spin"

\* Every request of FS is answered, unless the disk was too slow for the driver.
RequestsAnswered == fs_pc = "recv" ~> FsBack \/ (setting.timeouts /\ halted)

\* SYS answers everyone who asks, while the driver keeps asking for the time.
SysServes ==
    \A u \in Users : user_pc[u] = "recv" ~>
        (Running(u) /\ user_pc[u] = "run") \/ (setting.timeouts /\ halted)

\* The driver answers with what is on the disk, and changes what it was told to.
RequestsExact == HdTypeOK /\ TransfersExact /\ PartitionsFound
================================================================================
