---------------------------------- MODULE Fs ----------------------------------
(***************************************************************************)
(* The file system task (fs/main.c, fs/opera.c, fs/misc.c): descriptors,   *)
(* the inode table, the two bitmaps, the root directory and file contents. *)
(*                                                                         *)
(* FS handles one request at a time and nobody else touches its tables, so *)
(* a request is one step, its disk transfers included (module Hd).  What   *)
(* comes between two requests is modelled: MM copies filp when it forks    *)
(* and tells FS later.  A request that only returns an error is no step.   *)
(*                                                                         *)
(* Sectors are numbered by their bit in the sector map, the root's size is *)
(* in directory entries, and inode numbers fit in a byte.  A sector's      *)
(* contents are the number of the file last written there.  A free slot of *)
(* the inode table is blank: get_inode overwrites all of it.  mkfs runs at  *)
(* every boot, so a panic ends everything: what it leaves does not matter. *)
(* There is one terminal.  Reads and writes of the root as a file are not  *)
(* modelled; those of a terminal are in module Tty.                        *)
(***************************************************************************)
EXTENDS Integers, FiniteSets, FiniteSetsExt

CONSTANTS
    Procs, FIRST,      \* processes; the one that runs first
    NR_FILES, NR_FILE_DESC, NR_INODE,   \* sizes of the tables
    NR_INODES,         \* bits of the inode map
    NR_BITS,           \* bits of the sector map
    FILE_SECTS,        \* NR_DEFAULT_FILE_SECTS
    BYTE,              \* bits per byte of the sector map
    SECTOR,            \* bytes per sector
    FSBUF_SECTS,       \* FSBUF_SIZE in sectors
    DIR_SECT,          \* directory entries per sector
    TAR_START, TAR_SECTS,   \* where cmd.tar lies
    Workloads,         \* what may be asked of FS: by which processes, with which
                       \* names ("/" is the root) and lengths of reads and writes
    NameLen,           \* lengths of the names, at most MAX_FILENAME_LEN
    MAX_FILENAME_LEN,
    MaxPos, DirMax,    \* bounds: file positions, directory entries
    MaxCnt             \* bound: references to an inode that unlink may add

Fds     == 0..(NR_FILES - 1)
Descs   == 1..NR_FILE_DESC
Slots   == 1..NR_INODE
Bits    == 0..(NR_BITS - 1)
Inodes  == 1..(NR_INODES - 1)
Entries == 0..(DirMax - 1)

ROOT_INODE == 1
TTY_INODE  == 2
TAR_INODE  == 3
AllNames == (UNION {w.names : w \in Workloads}) \cup {".", "dev_tty0", "cmd.tar"}

ASSUME FsAssumption ==
    /\ FIRST \in Procs /\ IsFiniteSet(Procs)
    /\ \A w \in Workloads : FIRST \in w.procs /\ w.procs \subseteq Procs /\ w.lengths \subseteq Nat
    /\ {NR_FILES, NR_FILE_DESC, NR_INODE, FILE_SECTS, BYTE, SECTOR, FSBUF_SECTS, DIR_SECT,
        MAX_FILENAME_LEN} \subseteq Nat \ {0}
    /\ {NR_INODES, NR_BITS, TAR_START, TAR_SECTS, DirMax} \subseteq Nat /\ NR_INODES > TAR_INODE
    /\ TAR_START > FILE_SECTS /\ TAR_START + TAR_SECTS <= NR_BITS
    /\ NameLen \in [AllNames -> 1..MAX_FILENAME_LEN]
    /\ DirMax % DIR_SECT = 0 /\ DirMax >= 2 * DIR_SECT
    \* Sectors run out before inodes do: 4096 files of 2048 sectors are 4 GB.
    /\ NR_BITS < FILE_SECTS * (NR_INODES - TAR_INODE)

VARIABLES
    filp,         \* per process and descriptor: an entry of f_desc_table, 0 is null
    f_desc_table, \* fd_inode (a slot of inode_table, 0 is null), fd_pos, fd_cnt, O_RDWR
    inode_table,  \* the inodes in memory; the root stays in slot 1
    imap, smap,   \* bits set in the inode map and in the sector map
    disk_inode,   \* the inode array on disk
    dir,          \* the root directory on disk
    data,         \* contents of the sectors
    work,         \* the workload, chosen at the start
    life,         \* of a process: "free", "run", "forking", "born" (not yet told FS)
    halt          \* why FS stopped: a panic or a failed assertion, or "no"

diskVars == <<imap, smap, disk_inode, dir, data>>
vars == <<filp, f_desc_table, inode_table, diskVars, work, life, halt>>

Run(start, n) == start..(start + n - 1)

(***************************************************************************)
(* mkfs and init_fs                                                        *)
(***************************************************************************)
Inode(mode, size, start, nr) == [mode |-> mode, size |-> size, start |-> start, nr |-> nr]
NoInode == Inode("none", 0, 0, 0)
InCore(num, cnt, di) == [num |-> num, cnt |-> cnt, di |-> di]
FreeSlot == InCore(0, 0, NoInode)
ClosedDesc == [inode |-> 0, pos |-> 0, cnt |-> 0, rdwr |-> FALSE]
\* ext is where the last non-zero byte of the name field ends.
Entry(nr, name, ext) == [inode_nr |-> nr, name |-> name, ext |-> ext]
NoEntry == Entry(0, "", 0)

MkfsInodes ==
    [n \in Inodes |->
        CASE n = ROOT_INODE -> Inode("dir", 3, 1, FILE_SECTS)
          [] n = TTY_INODE  -> Inode("char", 0, 0, 0)
          [] n = TAR_INODE  -> Inode("reg", TAR_SECTS * SECTOR, TAR_START, TAR_SECTS)
          [] OTHER          -> NoInode]

MkfsSmap == 0..FILE_SECTS \cup Run(TAR_START, TAR_SECTS)

MkfsDir ==
    [i \in Entries |-> CASE i = 0 -> Entry(ROOT_INODE, ".", NameLen["."])
                         [] i = 1 -> Entry(TTY_INODE, "dev_tty0", NameLen["dev_tty0"])
                         [] i = 2 -> Entry(TAR_INODE, "cmd.tar", NameLen["cmd.tar"])
                         [] OTHER -> NoEntry]

Init ==
    /\ filp = [p \in Procs |-> [fd \in Fds |-> 0]]
    /\ f_desc_table = [d \in Descs |-> ClosedDesc]
    /\ inode_table = [s \in Slots |-> IF s = 1 THEN InCore(ROOT_INODE, 1, MkfsInodes[ROOT_INODE])
                                      ELSE FreeSlot]
    /\ imap = 0..TAR_INODE
    /\ smap = MkfsSmap
    /\ disk_inode = MkfsInodes
    /\ dir = MkfsDir
    /\ data = [b \in Bits |-> IF b \in Run(TAR_START, TAR_SECTS) THEN TAR_INODE ELSE 0]
    /\ life = [p \in Procs |-> IF p = FIRST THEN "run" ELSE "free"]
    /\ halt = "no"
    /\ work \in Workloads

Halt(why) == halt' = why /\ UNCHANGED <<filp, f_desc_table, inode_table, diskVars, life>>

(***************************************************************************)
(* misc.c: names and inodes                                                *)
(***************************************************************************)
DirSize == inode_table[1].di.size

\* The entry behind the last one is compared too, if its sector was read.
search_file(name) ==
    LET last  == IF DirSize % DIR_SECT = 0 THEN DirSize - 1 ELSE DirSize
        found == {i \in 0..last : dir[i].name = name /\ dir[i].ext = NameLen[name]}
    IN  IF name = "/" THEN inode_table[1].num
        ELSE IF found = {} THEN 0 ELSE dir[Min(found)].inode_nr

FreeSlots == {s \in Slots : inode_table[s].cnt = 0}

Found(num) == {s \in Slots : inode_table[s].cnt > 0 /\ inode_table[s].num = num}

\* get_inode panics.
TableFull(num) == Found(num) = {} /\ FreeSlots = {}

SlotFor(num) == IF Found(num) # {} THEN Min(Found(num)) ELSE Min(FreeSlots)

\* inode_table after get_inode.
get_inode(num) ==
    [inode_table EXCEPT ![SlotFor(num)] =
        IF Found(num) # {} THEN InCore(num, @.cnt + 1, @.di) ELSE InCore(num, 1, disk_inode[num])]

\* A table with the references of slot s less by k.
Released(table, s, k) ==
    [table EXCEPT ![s] = IF @.cnt = k THEN FreeSlot ELSE InCore(@.num, @.cnt - k, @.di)]

(***************************************************************************)
(* open                                                                    *)
(***************************************************************************)
Active(p) == halt = "no" /\ life[p] = "run"

EmptyFds(p) == {fd \in Fds : filp[p][fd] = 0}
EmptyDescs  == {d \in Descs : f_desc_table[d].inode = 0}
Room(p)     == EmptyFds(p) # {} /\ EmptyDescs # {}

\* Connects the first empty descriptor of p to slot s.
Connect(p, s, rdwr) ==
    LET d == Min(EmptyDescs)
    IN  /\ filp' = [filp EXCEPT ![p][Min(EmptyFds(p))] = d]
        /\ f_desc_table' =
             [f_desc_table EXCEPT ![d] = [inode |-> s, pos |-> 0, cnt |-> 1, rdwr |-> rdwr]]

\* filp[] or f_desc_table is full: panic, whatever is to be opened.
OpenNoRoom(p) ==
    /\ Active(p)
    /\ ~Room(p)
    /\ Halt("table full")

\* open without O_CREAT, stat or unlink: no slot for the inode.
NoSlot(p, name) ==
    /\ Active(p)
    /\ search_file(name) # 0
    /\ TableFull(search_file(name))
    /\ Halt("inode table full")

\* Without O_CREAT.
OpenFile(p, name) ==
    LET nr == search_file(name)
    IN  /\ Active(p) /\ Room(p)
        /\ nr # 0 /\ ~TableFull(nr)
        /\ inode_table' = get_inode(nr)
        /\ Connect(p, SlotFor(nr), TRUE)
        /\ UNCHANGED <<diskVars, life, halt>>

alloc_imap_bit == Min(0..(NR_INODES - 1) \ imap)

\* The sectors alloc_smap_bit takes begin at the first clear bit, the bits
\* behind it are asserted to be clear.
FirstClear == Min(Bits \ smap)
AllocAssert == Bits \ smap # {} /\ Run(FirstClear, FILE_SECTS) \subseteq Bits \ smap

alloc_smap_bit == smap \cup Run(FirstClear, FILE_SECTS)

\* strcpy over what is left of an older name: the end of a longer one stays.
Named(old, nr, name) ==
    Entry(nr, name, IF old.ext > NameLen[name] + 1 THEN old.ext ELSE NameLen[name])

\* The directory and its size after new_dir_entry.  A name of full length has
\* its terminating zero in the next entry's inode number.  If all entries of
\* all sectors are in use the last sector is written again as the next one.
new_dir_entry(nr, name) ==
    LET holes == {i \in 0..(DirSize - 1) : dir[i].inode_nr = 0}
        i     == IF holes # {} THEN Min(holes) ELSE DirSize
        named == [dir EXCEPT ![i] = Named(@, nr, name)]
    IN  [size |-> IF holes # {} THEN DirSize ELSE DirSize + 1,
         dir  |-> IF holes = {} /\ DirSize % DIR_SECT = 0
                  THEN [j \in Entries |-> IF j \in Run(DirSize, DIR_SECT)
                                          THEN dir[j - DIR_SECT] ELSE dir[j]]
                  ELSE IF NameLen[name] = MAX_FILENAME_LEN /\ (i + 1) % DIR_SECT # 0
                       THEN [named EXCEPT ![i + 1].inode_nr = 0]
                       ELSE named]

\* O_CREAT of a name that does not exist; rdwr tells whether O_RDWR is set too.
Creating(p, name) ==
    /\ Active(p) /\ Room(p)
    /\ search_file(name) = 0
    /\ DirSize < DirMax

\* alloc_smap_bit's assertions fail.
CreateNoSpace(p, name) ==
    /\ Creating(p, name)
    /\ ~AllocAssert
    /\ Halt("smap assertion")

NewInode == Inode("reg", 0, FirstClear, FILE_SECTS)

CreateTableFull(p, name) ==
    /\ Creating(p, name)
    /\ AllocAssert
    /\ TableFull(alloc_imap_bit)
    /\ Halt("inode table full")

CreateFile(p, name, rdwr) ==
    /\ Creating(p, name)
    /\ AllocAssert
    /\ ~TableFull(alloc_imap_bit)
    /\ LET nr  == alloc_imap_bit
           ino == NewInode
           new == new_dir_entry(nr, name)
           s   == SlotFor(nr)
       IN  /\ inode_table' = [inode_table EXCEPT ![s] = InCore(nr, 1, ino), ![1].di.size = new.size]
           /\ disk_inode' = [disk_inode EXCEPT ![nr] = ino, ![ROOT_INODE].size = new.size]
           /\ dir' = new.dir
           /\ imap' = imap \cup {nr}
           /\ Connect(p, s, rdwr)
    /\ smap' = alloc_smap_bit
    /\ UNCHANGED <<data, life, halt>>

(***************************************************************************)
(* close, read, write                                                      *)
(***************************************************************************)

\* Wrong: the open file goes away with the first close.
DropDesc_First(d, k) ==
    [f_desc_table EXCEPT ![d] = ClosedDesc]

\* k references to open file d less.
DropDesc(d, k) ==
    [f_desc_table EXCEPT
        ![d] = IF @.cnt = k THEN ClosedDesc ELSE [f_desc_table[d] EXCEPT !.cnt = @ - k]]

\* do_close and do_rw assert that the descriptor is in use.
BadFd(p, fd) ==
    /\ Active(p)
    /\ filp[p][fd] = 0
    /\ Halt("bad descriptor")

do_close(p, fd) ==
    /\ Active(p) /\ filp[p][fd] # 0
    /\ LET d == filp[p][fd]
       IN  /\ f_desc_table[d].inode # 0
           /\ inode_table' = Released(inode_table, f_desc_table[d].inode, 1)
           /\ f_desc_table' = DropDesc(d, 1)
    /\ filp' = [filp EXCEPT ![p][fd] = 0]
    /\ UNCHANGED <<diskVars, life, halt>>

MinOf(a, b) == IF a < b THEN a ELSE b

\* Wrong: whole sectors, whatever the length.
RwBytes_Whole(pos, len, pos_end) == (pos_end \div SECTOR - pos \div SECTOR + 1) * SECTOR

\* How many bytes do_rw transfers: it goes through whole chunks of sectors
\* and never looks at pos_end again.
RwBytes(pos, len, pos_end) ==
    LET sects == pos_end \div SECTOR - pos \div SECTOR + 1
        chunk == MinOf(sects, FSBUF_SECTS)
        loops == (sects + chunk - 1) \div chunk
    IN  IF sects <= 0 THEN 0 ELSE MinOf(len, loops * chunk * SECTOR - (pos % SECTOR))

\* The inode of slot s when the position has moved to pos.
Grown(s, pos) == [inode_table[s].di EXCEPT !.size = IF pos > @ THEN pos ELSE @]

\* do_rw on a regular file.
Transfer(p, fd, type, len) ==
    /\ Active(p) /\ filp[p][fd] # 0
    /\ LET d     == filp[p][fd]
           desc  == f_desc_table[d]
           s     == desc.inode
           ino   == inode_table[s]
           bound == IF type = "READ" THEN ino.di.size ELSE ino.di.nr * SECTOR
           bytes == RwBytes(desc.pos, len, MinOf(desc.pos + len, bound))
           first == ino.di.start + desc.pos \div SECTOR
           last  == ino.di.start + (desc.pos + bytes - 1) \div SECTOR
       IN  /\ desc.rdwr /\ s # 0 /\ ino.di.mode = "reg"
           /\ desc.pos + bytes <= MaxPos
           /\ f_desc_table' = [f_desc_table EXCEPT ![d].pos = @ + bytes]
           /\ inode_table' = [inode_table EXCEPT ![s].di = Grown(s, desc.pos + bytes)]
           /\ disk_inode' = [disk_inode EXCEPT ![ino.num] = Grown(s, desc.pos + bytes)]
           /\ data' = IF type = "WRITE" /\ bytes > 0
                      THEN [b \in Bits |-> IF b \in first..last THEN ino.num ELSE data[b]]
                      ELSE data
    /\ UNCHANGED <<filp, imap, smap, dir, life, halt>>

Read(p, fd, len)  == Transfer(p, fd, "READ", len)
Write(p, fd, len) == Transfer(p, fd, "WRITE", len)

(***************************************************************************)
(* unlink                                                                  *)
(***************************************************************************)
UnlinkMissing(p, name) ==
    /\ Active(p)
    /\ search_file(name) = 0
    /\ Halt("unlink assertion")

Unlinking(p, name) ==
    /\ Active(p)
    /\ name # "/"
    /\ search_file(name) # 0
    /\ ~TableFull(search_file(name))

UnlinkInode(nr) == get_inode(nr)[SlotFor(nr)]

\* Not a regular file, or in use: -1, and the inode is not put back.
UnlinkRefused(p, name) ==
    /\ Unlinking(p, name)
    /\ LET nr == search_file(name)
       IN  /\ UnlinkInode(nr).di.mode # "reg" \/ UnlinkInode(nr).cnt > 1
           /\ UnlinkInode(nr).cnt <= MaxCnt
           /\ inode_table' = get_inode(nr)
    /\ UNCHANGED <<filp, f_desc_table, diskVars, life, halt>>

\* Clearing n bits of the sector map from bit b: the rest of the first byte,
\* then whole bytes, counted as if nothing had been cleared when b begins a
\* byte, then the bits that are left.
ClearedHead(b, n)  == Run(b, MinOf(n, BYTE - (b % BYTE)))
WholeBytes(b, n)   ==
    LET m == IF b % BYTE # 0 THEN n - (BYTE - (b % BYTE)) ELSE n
    IN  IF m < 0 THEN 0 ELSE m \div BYTE
ClearedWhole(b, n) == Run((b \div BYTE + 1) * BYTE, WholeBytes(b, n) * BYTE)
ClearedTail(b, n)  ==
    Run((b \div BYTE + 1 + WholeBytes(b, n)) * BYTE,
          n - Cardinality(ClearedHead(b, n)) - WholeBytes(b, n) * BYTE)
\* Wrong: the bits behind the last whole byte stay set.
ClearedBits_NoTail(b, n) == ClearedHead(b, n) \cup ClearedWhole(b, n)

ClearedBits(b, n) == ClearedHead(b, n) \cup ClearedWhole(b, n) \cup ClearedTail(b, n)

UnlinkAllowed(p, name) ==
    /\ Unlinking(p, name)
    /\ LET ino == UnlinkInode(search_file(name)) IN ino.di.mode = "reg" /\ ino.cnt = 1

\* A bit to be cleared is clear already.
UnlinkSmapAssert(p, name) ==
    /\ UnlinkAllowed(p, name)
    /\ LET ino == UnlinkInode(search_file(name)).di
       IN  ~(ClearedBits(ino.start, ino.nr) \subseteq smap)
    /\ Halt("clear assertion")

\* The size of the directory without entry i, and only if that was the last.
Shrunk(i) ==
    LET used == {j \in 0..(i - 1) : dir[j].inode_nr # 0}
    IN  IF i # DirSize - 1 THEN DirSize ELSE IF used = {} THEN 0 ELSE Max(used) + 1

\* The size of the directory is not written to disk.
do_unlink(p, name) ==
    /\ UnlinkAllowed(p, name)
    /\ LET nr  == search_file(name)
           ino == UnlinkInode(nr).di
           i   == Min({j \in 0..(DirSize - 1) : dir[j].inode_nr = nr})
       IN  /\ ClearedBits(ino.start, ino.nr) \subseteq smap
           /\ smap' = smap \ ClearedBits(ino.start, ino.nr)
           /\ imap' = imap \ {nr}
           /\ disk_inode' = [disk_inode EXCEPT ![nr] = NoInode]
           /\ inode_table' = [Released(get_inode(nr), SlotFor(nr), 1) EXCEPT ![1].di.size = Shrunk(i)]
           /\ dir' = [dir EXCEPT ![i] = NoEntry]
    /\ UNCHANGED <<filp, f_desc_table, data, life, halt>>

(***************************************************************************)
(* fork and exit                                                           *)
(***************************************************************************)

\* MM copies the parent's process table entry, filp included ...
MmFork(parent, child) ==
    /\ Active(parent)
    /\ life[child] = "free"
    /\ filp' = [filp EXCEPT ![child] = filp[parent]]
    /\ life' = [life EXCEPT ![parent] = "forking", ![child] = "born"]
    /\ UNCHANGED <<f_desc_table, inode_table, diskVars, halt>>

\* How many descriptors of p are open file d, or lead to inode slot s.
DescRefs(p, d)  == Cardinality({fd \in Fds : filp[p][fd] = d})
InodeRefs(p, s) ==
    Cardinality({fd \in Fds : filp[p][fd] # 0 /\ f_desc_table[filp[p][fd]].inode = s})

\* ... and tells FS; MM handles one request at a time.
fs_fork(child) ==
    /\ halt = "no"
    /\ life[child] = "born"
    /\ f_desc_table' = [d \in Descs |-> [f_desc_table[d] EXCEPT !.cnt = @ + DescRefs(child, d)]]
    /\ inode_table' = [s \in Slots |-> [inode_table[s] EXCEPT !.cnt = @ + InodeRefs(child, s)]]
    /\ life' = [p \in Procs |-> IF life[p] \in {"born", "forking"} THEN "run" ELSE life[p]]
    /\ UNCHANGED <<filp, diskVars, halt>>

fs_exit(p) ==
    /\ Active(p)
    /\ p # FIRST
    /\ f_desc_table' = [d \in Descs |-> IF DescRefs(p, d) = 0 THEN f_desc_table[d]
                                        ELSE DropDesc(d, DescRefs(p, d))[d]]
    /\ inode_table' = [s \in Slots |-> IF InodeRefs(p, s) = 0 THEN inode_table[s]
                                       ELSE Released(inode_table, s, InodeRefs(p, s))[s]]
    /\ filp' = [filp EXCEPT ![p] = [fd \in Fds |-> 0]]
    /\ life' = [life EXCEPT ![p] = "free"]
    /\ UNCHANGED <<diskVars, halt>>

MmIdle == \A p \in Procs : life[p] # "forking"

Request ==
    \/ \E p \in work.procs :
         \/ OpenNoRoom(p)
         \/ MmIdle /\ fs_exit(p)
         \/ fs_fork(p)
    \/ \E p, q \in work.procs : MmIdle /\ MmFork(p, q)
    \/ \E p \in work.procs, fd \in Fds : BadFd(p, fd) \/ do_close(p, fd)
    \/ \E p \in work.procs, fd \in Fds, len \in work.lengths : Read(p, fd, len) \/ Write(p, fd, len)
    \/ \E p \in work.procs, name \in work.names :
         \/ OpenFile(p, name) \/ NoSlot(p, name)
         \/ CreateNoSpace(p, name) \/ CreateTableFull(p, name)
         \/ \E rdwr \in BOOLEAN : CreateFile(p, name, rdwr)
         \/ UnlinkMissing(p, name) \/ UnlinkRefused(p, name)
         \/ UnlinkSmapAssert(p, name) \/ do_unlink(p, name)

Next == Request /\ UNCHANGED work

Spec == Init /\ [][Next]_vars
(***************************************************************************)
(* Properties                                                              *)
(***************************************************************************)

\* The values of the variables.
FsTypeOK ==
    /\ filp \in [Procs -> [Fds -> {0} \cup Descs]]
    /\ f_desc_table \in
         [Descs -> [inode : {0} \cup Slots, pos : Nat, cnt : Nat, rdwr : BOOLEAN]]
    /\ \A s \in Slots : inode_table[s].num \in {0} \cup Inodes /\ inode_table[s].cnt \in Nat
    /\ imap \subseteq 0..(NR_INODES - 1) /\ smap \subseteq Bits
    /\ \A i \in Entries : dir[i].inode_nr \in {0} \cup Inodes
    /\ life \in [Procs -> {"free", "run", "forking", "born"}]

\* The processes whose descriptors FS knows of, and their descriptors that are
\* open file d or lead to inode slot s.
Told == {p \in Procs : life[p] # "born"}
Users(d) == {u \in Told \X Fds : filp[u[1]][u[2]] = d}
Holders(s) == {u \in Told \X Fds :
                 filp[u[1]][u[2]] # 0 /\ f_desc_table[filp[u[1]][u[2]]].inode = s}

\* fd_cnt is the number of descriptors of all processes that are this open
\* file, over open, close, fork and exit in any order, and the entry is free
\* exactly when there are none: an entry freed too early would be handed out
\* again under somebody who still uses it (do_open, do_close, fs_fork, fs_exit).
CountsExact ==
    \A d \in Descs :
        /\ f_desc_table[d].cnt = Cardinality(Users(d))
        /\ f_desc_table[d].inode = 0 <=> f_desc_table[d].cnt = 0

\* An inode stays in memory while a descriptor leads to it, there is one copy
\* of it, and that copy is what the disk has: two copies would overwrite each
\* other's size.  Only the size of the root may be ahead of the disk
\* (get_inode, put_inode, sync_inode, fs_fork, fs_exit, do_unlink).
InodesHeld ==
    \A s \in Slots :
        LET ino == inode_table[s]
        IN  /\ ino.cnt >= Cardinality(Holders(s)) + (IF s = 1 THEN 1 ELSE 0)
            /\ ino.cnt > 0 =>
                 /\ ino.num \in imap
                 /\ \A t \in Slots \ {s} : inode_table[t].num # ino.num
                 /\ IF s = 1 THEN [ino.di EXCEPT !.size = 0] = [disk_inode[1] EXCEPT !.size = 0]
                    ELSE ino.di = disk_inode[ino.num]

\* The two maps say exactly what the inodes say, and no two files share a
\* sector, whatever is created and unlinked in whatever order: a bit left set
\* is space lost, a bit lost is a sector given to two files
\* (alloc_imap_bit, alloc_smap_bit, do_unlink, mkfs).
Allocated == {n \in Inodes : disk_inode[n].mode # "none"}
Sectors(n) == Run(disk_inode[n].start, disk_inode[n].nr)

MapsMatch ==
    /\ imap = {0} \cup Allocated
    /\ smap = {0} \cup UNION {Sectors(n) : n \in Allocated}
    /\ \A m, n \in Allocated : m # n => Sectors(m) \cap Sectors(n) = {}

\* Every file has exactly one directory entry, of a name no other file has, and
\* every entry in use is of a file: unlink's holes, their reuse and the
\* shrinking of the directory lose and duplicate nothing
\* (search_file, new_dir_entry, do_unlink).
InUse == {i \in 0..(DirSize - 1) : dir[i].inode_nr # 0}

DirExact ==
    /\ {dir[i].inode_nr : i \in InUse} = Allocated
    /\ \A i, j \in InUse : i # j => dir[i].inode_nr # dir[j].inode_nr /\ dir[i].name # dir[j].name
    /\ \A i \in InUse : search_file(dir[i].name) = dir[i].inode_nr

\* A read that ends before the end of the file, and a write that ends before
\* the end of its sectors, moves the position by the length asked for and
\* touches no other file; the read leaves the inode alone (do_rw).
FittingTransfer ==
    [][\A p \in work.procs, fd \in Fds, len \in work.lengths :
         filp[p][fd] # 0 =>
            LET d    == filp[p][fd]
                ino  == inode_table[f_desc_table[d].inode]
                end  == f_desc_table[d].pos + len
                mine == Sectors(ino.num)
            IN  /\ Read(p, fd, len) /\ end <= ino.di.size =>
                     f_desc_table'[d].pos = end /\ UNCHANGED <<inode_table, data>>
                /\ Write(p, fd, len) /\ end <= ino.di.nr * SECTOR =>
                     /\ f_desc_table'[d].pos = end /\ inode_table'[f_desc_table[d].inode].di.size >= end
                     /\ \A b \in Bits \ mine : data'[b] = data[b]]_vars

\* FS implements OpenFiles: a descriptor keeps leading to the file it was
\* opened on until its process closes it or exits, in parent and children
\* alike, whatever the others do with theirs.  A fork happens when FS is told.
Objects == INSTANCE OpenFiles WITH
    Fds <- Fds, Objects <- Descs, Files <- Inodes, None <- 0,
    open <- [p \in Procs |-> IF life[p] = "born" THEN [fd \in Fds |-> 0] ELSE filp[p]],
    file <- [d \in Descs |-> IF f_desc_table[d].inode = 0 THEN 0
                             ELSE inode_table[f_desc_table[d].inode].num]

ImplementsOpenFiles == Objects!Spec

\* The tables of FS are well typed, and what they count is what there is.
TablesExact == FsTypeOK /\ CountsExact /\ InodesHeld

\* What is on the disk fits together: inodes, maps and directory.
DiskConsistent == MapsMatch /\ DirExact
==============================================================================
