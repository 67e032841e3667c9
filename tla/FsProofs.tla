------------------------------- MODULE FsProofs -------------------------------
(***************************************************************************)
(* FS keeps its tables right, for any number of processes, descriptors and *)
(* inodes: the counters of open files and of inodes in memory count the    *)
(* descriptors that use them, and the descriptors implement OpenFiles.     *)
(*                                                                         *)
(* This needs the directory too: an inode in memory is an allocated one,   *)
(* and stays so only as long as no two entries are of the same inode.      *)
(***************************************************************************)
EXTENDS Fs, FiniteSetTheorems, WellFoundedInduction, TLAPS

Modes == {"none", "dir", "char", "reg"}
DiskInodes == [mode : Modes, size : Nat, start : Nat, nr : Nat]

\* As long as the directory does not outgrow its first sector and the inode map
\* is not full.
Roomy == DirSize < DIR_SECT /\ imap # 0..(NR_INODES - 1)

\* The values of the variables.
Types ==
    /\ filp \in [Procs -> [Fds -> {0} \cup Descs]]
    /\ f_desc_table \in [Descs -> [inode : {0} \cup Slots, pos : Nat, cnt : Nat, rdwr : BOOLEAN]]
    /\ inode_table \in [Slots -> [num : {0} \cup Inodes, cnt : Nat, di : DiskInodes]]
    /\ imap \subseteq 0..(NR_INODES - 1) /\ smap \subseteq Bits
    /\ disk_inode \in [Inodes -> DiskInodes]
    /\ dir \in [Entries -> [inode_nr : {0} \cup Inodes, name : AllNames \cup {""}, ext : Nat]]
    /\ life \in [Procs -> {"free", "run", "forking", "born"}]
    /\ work \in Workloads

\* A process that does not exist has no descriptors; a child that FS has not been
\* told of, and there is one at most, has those of its parent, who waits.
Families ==
    /\ \A p \in Procs : life[p] = "free" => filp[p] = [fd \in Fds |-> 0]
    /\ \A c \in Procs : life[c] = "born" =>
          \E q \in Procs : life[q] = "forking" /\ filp[q] = filp[c]
    /\ \A b, c \in Procs : life[b] = "born" /\ life[c] = "born" => b = c

\* The inodes in memory are different ones, of the map, and as the disk has them.
Mirrors(table, disk, map) ==
    \A s \in Slots :
        IF table[s].cnt = 0 THEN table[s].num = 0
        ELSE /\ table[s].num \in map \cap Inodes
             /\ \A t \in Slots \ {s} : table[t].num # table[s].num
             /\ IF s = 1 THEN [table[s].di EXCEPT !.size = 0] = [disk[1] EXCEPT !.size = 0]
                ELSE table[s].di = disk[table[s].num]

\* An inode in memory is counted for each descriptor that leads to it, and the
\* root once more.
Counted(table) ==
    \A s \in Slots : table[s].cnt >= Cardinality(Holders(s)) + (IF s = 1 THEN 1 ELSE 0)

\* The root stays in slot 1, and inode 0 is not given out.
Root ==
    /\ inode_table[1].num = ROOT_INODE
    /\ disk_inode[ROOT_INODE].mode = "dir"
    /\ 0 \in imap

\* Every entry of the directory is of an allocated inode, of one of its own.
Directory ==
    /\ dir[0].inode_nr = ROOT_INODE
    /\ \A i \in Entries : dir[i].inode_nr # 0 => dir[i].inode_nr \in imap /\ i < DirSize
    /\ \A i, j \in Entries : dir[i].inode_nr # 0 /\ dir[i].inode_nr = dir[j].inode_nr => i = j

\* The inductive invariant.
IInv ==
    /\ Types /\ Families /\ CountsExact
    /\ Counted(inode_table) /\ Mirrors(inode_table, disk_inode, imap)
    /\ Root /\ Directory

\* A set of natural numbers that is not empty has a least one.
LEMMA Least ==
    ASSUME NEW S \in SUBSET Nat, S # {}
    PROVE  \E m \in S : \A k \in S : m <= k
<1> DEFINE Below(n) == 0..n
           T == {Below(n) : n \in S}
           Smaller == StrictSubsetOrdering(Nat)
<1>1. T \subseteq FiniteSubsetsOf(Nat)
  <2>1. \A n \in Nat : IsFiniteSet(0..n)
    BY FS_Interval
  <2>2. QED
    BY <2>1 DEF FiniteSubsetsOf
<1>2. PICK x \in T : \A y \in T : <<y, x>> \notin Smaller
  <2>1. IsWellFoundedOn(Smaller, FiniteSubsetsOf(Nat))
    BY FS_StrictSubsetOrderingWellFounded
  <2>2. T # {}
    OBVIOUS
  <2> HIDE DEF T, Smaller
  <2>3. QED
    BY <1>1, <2>1, <2>2, WFMin
<1>3. PICK m \in S : x = Below(m)
  OBVIOUS
<1>4. ASSUME NEW k \in S, k < m
      PROVE  FALSE
  <2>1. Below(k) \subseteq Below(m) /\ Below(k) # Below(m)
    <3>1. m \in Below(m) /\ m \notin Below(k)
      BY <1>4
    <3>2. QED
      BY <1>4, <3>1
  <2>2. <<Below(k), x>> \in Smaller
    BY <1>3, <2>1 DEF StrictSubsetOrdering
  <2>3. QED
    BY <1>2, <2>2
<1>5. QED
  BY <1>4

\* The first of a set of numbers, as the loops over the tables and maps find it.
LEMMA First ==
    ASSUME NEW S \in SUBSET Nat, S # {}
    PROVE  Min(S) \in S /\ \A k \in S : Min(S) <= k
  BY Least DEF Min

\* The last of a set of numbers below n.
LEMMA Last ==
    ASSUME NEW n \in Nat, NEW S \in SUBSET (0..n), S # {}
    PROVE  Max(S) \in S /\ \A k \in S : k <= Max(S)
<1> DEFINE T == {n - k : k \in S}
<1>1. T \in SUBSET Nat /\ T # {}
  <2>1. \A k \in S : n - k \in Nat
    OBVIOUS
  <2>2. QED
    BY <2>1
<1>2. PICK m \in T : \A k \in T : m <= k
  <2> HIDE DEF T
  <2>1. QED
    BY <1>1, Least
<1>3. PICK x \in S : m = n - x
  OBVIOUS
<1>4. \A k \in S : k <= x
  <2> SUFFICES ASSUME NEW k \in S
               PROVE  k <= x
    OBVIOUS
  <2>1. n - x <= n - k
    BY <1>2, <1>3
  <2>2. x \in Nat /\ k \in Nat
    OBVIOUS
  <2>3. QED
    BY <2>1, <2>2
<1>5. QED
  BY <1>4 DEF Max

\* The sizes of the tables.
LEMMA Sizes ==
    /\ IsFiniteSet(Procs) /\ IsFiniteSet(Fds)
    /\ 1 \in Slots /\ Slots \subseteq Nat \ {0} /\ Descs \subseteq Nat \ {0} /\ Fds \subseteq Nat
    /\ {1, 2, 3} \subseteq Inodes /\ Inodes \subseteq Nat \ {0}
    /\ Entries \subseteq Nat /\ 0 \in Entries
    /\ NR_FILES \in Nat \ {0}
<1>1. NR_FILES \in Nat \ {0} /\ NR_INODE \in Nat \ {0} /\ NR_FILE_DESC \in Nat \ {0}
  BY FsAssumption
<1>2. NR_INODES \in Nat /\ NR_INODES > 3
  BY FsAssumption DEF TAR_INODE
<1>3. IsFiniteSet(Fds) /\ IsFiniteSet(Procs)
  BY <1>1, FS_Interval, FsAssumption DEF Fds
<1>4. DirMax \in Nat /\ DirMax > 0
  BY FsAssumption
<1>5. QED
  BY <1>1, <1>2, <1>3, <1>4 DEF Slots, Descs, Fds, Inodes, Entries

(***************************************************************************)
(* Counting descriptors                                                    *)
(***************************************************************************)

\* All descriptors are finitely many.
LEMMA PairsFinite ==
    ASSUME NEW S, S \subseteq Procs \X Fds
    PROVE  IsFiniteSet(S) /\ Cardinality(S) \in Nat
<1>1. IsFiniteSet(Procs \X Fds)
  BY Sizes, FS_Product
<1>2. IsFiniteSet(S)
  BY <1>1, FS_Subset
<1>3. QED
  BY <1>2, FS_CardinalityType

\* Descriptors of one process are as many as their numbers.
LEMMA PairsOf ==
    ASSUME NEW p, NEW S \in SUBSET Fds
    PROVE  /\ IsFiniteSet(S) /\ IsFiniteSet({p} \X S)
           /\ Cardinality({p} \X S) = Cardinality(S)
<1>1. IsFiniteSet(S) /\ Cardinality(S) \in Nat
  BY Sizes, FS_Subset, FS_CardinalityType
<1>2. IsFiniteSet({p}) /\ Cardinality({p}) = 1
  BY FS_Singleton
<1>3. Cardinality({p} \X S) = 1 * Cardinality(S) /\ IsFiniteSet({p} \X S)
  BY <1>1, <1>2, FS_Product
<1>4. QED
  BY <1>1, <1>3

\* Descriptors S of a process come in addition to others.
LEMMA PairsAdded ==
    ASSUME NEW p \in Procs, NEW S \in SUBSET Fds, NEW A, A \subseteq Procs \X Fds,
           \A u \in A : u[1] # p
    PROVE  Cardinality(A \cup ({p} \X S)) = Cardinality(A) + Cardinality(S)
<1>1. IsFiniteSet(A) /\ Cardinality(A) \in Nat
  BY PairsFinite
<1>2. IsFiniteSet({p} \X S) /\ Cardinality({p} \X S) = Cardinality(S) /\ IsFiniteSet(S)
  BY PairsOf
<1>3. A \cap ({p} \X S) = {}
  OBVIOUS
<1>4. Cardinality(A \cup ({p} \X S)) = Cardinality(A) + Cardinality({p} \X S) - Cardinality(A \cap ({p} \X S))
  BY <1>1, <1>2, FS_Union
<1>5. Cardinality(A \cap ({p} \X S)) = 0 /\ Cardinality(S) \in Nat
  BY <1>2, <1>3, FS_EmptySet, FS_CardinalityType
<1>6. QED
  BY <1>1, <1>2, <1>4, <1>5

\* Descriptors S of a process go away.
LEMMA PairsRemoved ==
    ASSUME NEW p \in Procs, NEW S \in SUBSET Fds, NEW A, A \subseteq Procs \X Fds,
           {p} \X S \subseteq A
    PROVE  /\ Cardinality(A \ ({p} \X S)) = Cardinality(A) - Cardinality(S)
           /\ Cardinality(S) <= Cardinality(A)
<1>1. IsFiniteSet(A) /\ Cardinality(A) \in Nat
  BY PairsFinite
<1>2. Cardinality({p} \X S) = Cardinality(S) /\ {p} \X S \in SUBSET A
  BY PairsOf
<1>3. Cardinality({p} \X S) <= Cardinality(A)
  BY <1>1, <1>2, FS_Subset
<1>4. Cardinality(A \ ({p} \X S)) = Cardinality(A) - Cardinality(A \cap ({p} \X S))
  BY <1>1, FS_Difference
<1>5. A \cap ({p} \X S) = {p} \X S
  BY <1>2
<1>6. QED
  BY <1>2, <1>3, <1>4, <1>5

\* The sets that are counted.
LEMMA Counts ==
    /\ \A d : Users(d) \subseteq Procs \X Fds /\ IsFiniteSet(Users(d)) /\ Cardinality(Users(d)) \in Nat
    /\ \A s : Holders(s) \subseteq Procs \X Fds /\ IsFiniteSet(Holders(s)) /\ Cardinality(Holders(s)) \in Nat
<1>1. \A d : Users(d) \subseteq Procs \X Fds
  BY DEF Users, Told
<1>2. \A s : Holders(s) \subseteq Procs \X Fds
  BY DEF Holders, Told
<1>3. QED
  BY <1>1, <1>2, PairsFinite

\* A set with an element is counted.
LEMMA SomeIn ==
    ASSUME NEW A, A \subseteq Procs \X Fds, NEW u \in A
    PROVE  Cardinality(A) >= 1
<1>1. IsFiniteSet(A) /\ Cardinality(A) \in Nat
  BY PairsFinite
<1>2. Cardinality(A) # 0
  BY <1>1, FS_EmptySet
<1>3. QED
  BY <1>1, <1>2

\* An inode that an open file is of is counted, the root's once more.
LEMMA InodeHeld ==
    ASSUME IInv, NEW d \in Descs, f_desc_table[d].inode # 0
    PROVE  LET s == f_desc_table[d].inode
           IN  s \in Slots /\ inode_table[s].cnt >= 1 /\ (s = 1 => inode_table[s].cnt >= 2)
<1>1. PICK s \in Slots : s = f_desc_table[d].inode
  BY DEF IInv, Types
<1>2. Cardinality(Users(d)) # 0
  BY Counts DEF IInv, CountsExact
<1>3. PICK u \in Users(d) : TRUE
  BY <1>2, FS_EmptySet
<1>4. u \in Holders(s)
  BY <1>1, <1>3, Sizes DEF Users, Holders
<1>5. Cardinality(Holders(s)) >= 1
  BY <1>4, Counts, SomeIn
<1>6. inode_table[s].cnt \in Nat
  BY DEF IInv, Types
<1>7. inode_table[s].cnt >= Cardinality(Holders(s)) + (IF s = 1 THEN 1 ELSE 0)
  BY DEF IInv, Counted
<1>8. QED
  BY <1>1, <1>5, <1>6, <1>7, Counts

\* The root is always in memory.
LEMMA RootHeld ==
    ASSUME IInv
    PROVE  1 \in Slots /\ inode_table[1].cnt >= 1
<1>1. 1 \in Slots /\ inode_table[1].cnt \in Nat
  BY Sizes DEF IInv, Types
<1>2. inode_table[1].cnt >= Cardinality(Holders(1)) + 1
  BY <1>1 DEF IInv, Counted
<1>3. QED
  BY <1>1, <1>2, Counts

\* A descriptor in use is an open file that is counted, and leads to an inode in memory.
LEMMA Opened ==
    ASSUME IInv, NEW p \in Procs, NEW fd \in Fds, filp[p][fd] # 0
    PROVE  /\ filp[p][fd] \in Descs
           /\ f_desc_table[filp[p][fd]].cnt >= 1 /\ f_desc_table[filp[p][fd]].inode \in Slots
<1>1. PICK d \in Descs : d = filp[p][fd]
  <2>1. filp \in [Procs -> [Fds -> {0} \cup Descs]]
    BY DEF IInv, Types
  <2>2. QED
    BY <2>1
<1>2. PICK q \in Told : filp[q][fd] = d
  <2>1. CASE life[p] # "born"
    BY <1>1, <2>1 DEF Told
  <2>2. CASE life[p] = "born"
    BY <1>1, <2>2 DEF IInv, Families, Told
  <2>3. QED
    BY <2>1, <2>2
<1>3. <<q, fd>> \in Users(d)
  BY <1>2 DEF Users
<1>4. Cardinality(Users(d)) >= 1
  BY <1>3, Counts, SomeIn
<1>5. f_desc_table[d].cnt = Cardinality(Users(d)) /\ f_desc_table[d].inode # 0
  BY <1>4, Counts DEF IInv, CountsExact
<1>6. QED
  BY <1>1, <1>4, <1>5 DEF IInv, Types

(***************************************************************************)
(* The inode table                                                         *)
(***************************************************************************)
InodeTables == [Slots -> [num : {0} \cup Inodes, cnt : Nat, di : DiskInodes]]

\* get_inode finds the inode's slot or a free one.
LEMMA Slot ==
    ASSUME IInv, NEW nr \in Inodes, ~TableFull(nr)
    PROVE  /\ SlotFor(nr) \in Slots
           /\ \/ /\ Found(nr) # {} /\ inode_table[SlotFor(nr)].cnt > 0
                 /\ inode_table[SlotFor(nr)].num = nr
              \/ /\ Found(nr) = {} /\ inode_table[SlotFor(nr)].cnt = 0 /\ SlotFor(nr) # 1
<1>1. Found(nr) \in SUBSET Nat /\ FreeSlots \in SUBSET Nat
  BY Sizes DEF Found, FreeSlots
<1>2. CASE Found(nr) # {}
  <2>1. SlotFor(nr) \in Found(nr)
    BY <1>1, <1>2, First DEF SlotFor
  <2>2. QED
    BY <1>2, <2>1 DEF Found
<1>3. CASE Found(nr) = {}
  <2>1. FreeSlots # {}
    BY <1>3 DEF TableFull
  <2>2. SlotFor(nr) \in FreeSlots
    BY <1>1, <1>3, <2>1, First DEF SlotFor
  <2>3. QED
    BY <1>3, <2>2, RootHeld DEF FreeSlots
<1>4. QED
  BY <1>2, <1>3

\* get_inode counts one more and leaves the other slots alone; it makes no second
\* copy of an inode.
LEMMA GetInode ==
    ASSUME IInv, NEW nr \in imap \cap Inodes, ~TableFull(nr)
    PROVE  /\ get_inode(nr) \in InodeTables
           /\ Mirrors(get_inode(nr), disk_inode, imap)
           /\ \A t \in Slots \ {SlotFor(nr)} : get_inode(nr)[t] = inode_table[t]
           /\ get_inode(nr)[SlotFor(nr)].cnt = inode_table[SlotFor(nr)].cnt + 1
           /\ get_inode(nr)[SlotFor(nr)].num = nr
           /\ get_inode(nr)[1].num = inode_table[1].num /\ get_inode(nr)[1].di = inode_table[1].di
<1>1. PICK s \in Slots, T \in {get_inode(nr)} : s = SlotFor(nr) /\ T = get_inode(nr)
  BY Slot
<1>2. /\ inode_table \in InodeTables /\ disk_inode \in [Inodes -> DiskInodes]
      /\ Mirrors(inode_table, disk_inode, imap)
  BY DEF IInv, Types, InodeTables
<1>3. CASE Found(nr) # {}
  <2>1. T = [inode_table EXCEPT ![s] = InCore(nr, inode_table[s].cnt + 1, inode_table[s].di)]
    BY <1>1, <1>3 DEF get_inode
  <2>2. inode_table[s].cnt > 0 /\ inode_table[s].num = nr
    BY <1>1, <1>3, Slot
  <2>3. T \in InodeTables
    BY <1>2, <2>1 DEF InodeTables, InCore
  <2>4. /\ \A t \in Slots : T[t].num = inode_table[t].num /\ T[t].di = inode_table[t].di
        /\ T[s].cnt = inode_table[s].cnt + 1
        /\ \A t \in Slots \ {s} : T[t] = inode_table[t]
    BY <1>2, <2>1, <2>2 DEF InodeTables, InCore
  <2>5. Mirrors(T, disk_inode, imap)
    BY <1>2, <2>2, <2>4 DEF Mirrors, InodeTables
  <2>6. QED
    BY <1>1, <2>2, <2>3, <2>4, <2>5, Sizes
<1>4. CASE Found(nr) = {}
  <2>1. T = [inode_table EXCEPT ![s] = InCore(nr, 1, disk_inode[nr])]
    BY <1>1, <1>4 DEF get_inode
  <2>2. inode_table[s].cnt = 0 /\ s # 1
    BY <1>1, <1>4, Slot
  <2>3. T \in InodeTables
    BY <1>2, <2>1 DEF InodeTables, InCore
  <2>4. /\ \A t \in Slots \ {s} : T[t] = inode_table[t]
        /\ T[s].cnt = inode_table[s].cnt + 1 /\ T[s].num = nr /\ T[s].di = disk_inode[nr]
    BY <1>2, <2>1, <2>2 DEF InodeTables, InCore
  <2>5. \A t \in Slots \ {s} : inode_table[t].cnt > 0 => inode_table[t].num # nr
    BY <1>4 DEF Found
  <2>6. \A t \in Slots \ {s} : inode_table[t].num # nr
    <3>1. \A t \in Slots : inode_table[t].cnt = 0 => inode_table[t].num = 0
      BY <1>2 DEF Mirrors
    <3>2. nr # 0 /\ \A t \in Slots : inode_table[t].cnt \in Nat
      BY <1>2, Sizes DEF InodeTables
    <3>3. QED
      BY <2>5, <3>1, <3>2
  <2>7. Mirrors(T, disk_inode, imap)
    BY <1>2, <2>2, <2>4, <2>6 DEF Mirrors, InodeTables
  <2>8. QED
    BY <1>1, <2>2, <2>3, <2>4, <2>7, Sizes
<1>5. QED
  BY <1>3, <1>4

\* put_inode takes k references away; the last one frees the slot.
LEMMA PutInode ==
    ASSUME NEW table \in InodeTables, NEW disk, NEW map, Mirrors(table, disk, map),
           NEW s \in Slots, NEW k \in Nat \ {0}, k <= table[s].cnt
    PROVE  /\ Released(table, s, k) \in InodeTables
           /\ Mirrors(Released(table, s, k), disk, map)
           /\ Released(table, s, k)[s].cnt = table[s].cnt - k
           /\ \A t \in Slots \ {s} : Released(table, s, k)[t] = table[t]
           /\ table[s].cnt # k => /\ Released(table, s, k)[s].num = table[s].num
                                  /\ Released(table, s, k)[s].di = table[s].di
<1>1. PICK R : R = Released(table, s, k)
  OBVIOUS
<1>2. table[s] \in [num : {0} \cup Inodes, cnt : Nat, di : DiskInodes]
  BY DEF InodeTables
<1>3. CASE table[s].cnt = k
  <2>1. R = [table EXCEPT ![s] = FreeSlot]
    BY <1>1, <1>3 DEF Released
  <2>2. FreeSlot \in [num : {0} \cup Inodes, cnt : Nat, di : DiskInodes] /\ FreeSlot.cnt = 0 /\ FreeSlot.num = 0
    BY DEF FreeSlot, InCore, NoInode, Inode, DiskInodes, Modes
  <2>3. R \in InodeTables /\ R[s] = FreeSlot /\ \A t \in Slots \ {s} : R[t] = table[t]
    BY <2>1, <2>2 DEF InodeTables
  <2>4. Mirrors(R, disk, map)
    <3> SUFFICES ASSUME NEW t \in Slots
                 PROVE  IF R[t].cnt = 0 THEN R[t].num = 0
                        ELSE /\ R[t].num \in map \cap Inodes
                             /\ \A u \in Slots \ {t} : R[u].num # R[t].num
                             /\ IF t = 1 THEN [R[t].di EXCEPT !.size = 0] = [disk[1] EXCEPT !.size = 0]
                                ELSE R[t].di = disk[R[t].num]
      BY DEF Mirrors
    <3>1. CASE t = s
      BY <2>2, <2>3, <3>1
    <3>2. CASE t # s
      <4>1. R[t] = table[t]
        BY <2>3, <3>2
      <4>2. table[t].cnt # 0 => table[t].num # 0
        BY Sizes DEF Mirrors
      <4>3. QED
        BY <2>2, <2>3, <4>1, <4>2 DEF Mirrors
    <3>3. QED
      BY <3>1, <3>2
  <2>5. QED
    BY <1>1, <1>2, <1>3, <2>2, <2>3, <2>4
<1>4. CASE table[s].cnt # k
  <2>1. R = [table EXCEPT ![s] = InCore(table[s].num, table[s].cnt - k, table[s].di)]
    BY <1>1, <1>4 DEF Released
  <2>2. table[s].cnt - k \in Nat \ {0} /\ table[s].cnt # 0
    BY <1>2, <1>4
  <2>3. /\ R \in InodeTables /\ \A t \in Slots \ {s} : R[t] = table[t]
        /\ R[s].num = table[s].num /\ R[s].di = table[s].di /\ R[s].cnt = table[s].cnt - k
    BY <1>2, <2>1, <2>2 DEF InodeTables, InCore
  <2>4. Mirrors(R, disk, map)
    BY <2>2, <2>3 DEF Mirrors
  <2>5. QED
    BY <1>1, <2>3, <2>4
<1>5. QED
  BY <1>3, <1>4

(***************************************************************************)
(* Steps that leave the descriptors alone                                  *)
(***************************************************************************)

\* The open files and their files, as OpenFiles sees them.
OpenOf == [p \in Procs |-> IF life[p] = "born" THEN [fd \in Fds |-> 0] ELSE filp[p]]
FileOf == [d \in Descs |-> IF f_desc_table[d].inode = 0 THEN 0
                           ELSE inode_table[f_desc_table[d].inode].num]

\* FileOf changes only with the table of open files and with the inodes of those.
LEMMA FileKept ==
    ASSUME IInv, NEW d \in Descs, f_desc_table'[d].inode = f_desc_table[d].inode,
           \A s \in Slots : inode_table[s].cnt > 0 => inode_table'[s].num = inode_table[s].num
    PROVE  FileOf'[d] = FileOf[d]
<1>1. f_desc_table[d].inode # 0 => /\ f_desc_table[d].inode \in Slots
                                   /\ inode_table[f_desc_table[d].inode].cnt > 0
  <2>1. f_desc_table[d].inode # 0 => /\ f_desc_table[d].inode \in Slots
                                     /\ inode_table[f_desc_table[d].inode].cnt >= 1
    BY InodeHeld
  <2>2. \A s \in Slots : inode_table[s].cnt \in Nat
    BY DEF IInv, Types
  <2>3. QED
    BY <2>1, <2>2
<1>2. FileOf[d] = IF f_desc_table[d].inode = 0 THEN 0 ELSE inode_table[f_desc_table[d].inode].num
  BY DEF FileOf
<1>3. FileOf'[d] = IF f_desc_table'[d].inode = 0 THEN 0 ELSE inode_table'[f_desc_table'[d].inode].num
  BY DEF FileOf
<1>4. QED
  BY <1>1, <1>2, <1>3

\* A step that neither opens nor closes keeps the counts, if it takes no
\* references of inodes away.
LEMMA OpenFilesKept ==
    ASSUME IInv, UNCHANGED <<filp, life>>,
           \A d \in Descs : /\ f_desc_table'[d].inode = f_desc_table[d].inode
                            /\ f_desc_table'[d].cnt = f_desc_table[d].cnt,
           inode_table' \in InodeTables,
           \A s \in Slots : /\ inode_table'[s].cnt >= inode_table[s].cnt
                            /\ inode_table[s].cnt > 0 => inode_table'[s].num = inode_table[s].num
    PROVE  /\ CountsExact' /\ Families' /\ Counted(inode_table)'
           /\ UNCHANGED <<OpenOf, FileOf>>
<1>1. \A d : Users(d)' = Users(d)
  BY DEF Users, Told
<1>2. \A s : Holders(s)' = Holders(s)
  <2>1. \A p \in Told, fd \in Fds : filp[p][fd] # 0 => filp[p][fd] \in Descs
    BY Opened DEF Told
  <2>2. \A u \in Told \X Fds : filp[u[1]][u[2]] # 0 =>
            f_desc_table'[filp[u[1]][u[2]]].inode = f_desc_table[filp[u[1]][u[2]]].inode
    BY <2>1
  <2>3. QED
    BY <2>2 DEF Holders, Told
<1>3. CountsExact'
  BY <1>1 DEF IInv, CountsExact
<1>4. Families'
  BY DEF IInv, Families
<1>5. Counted(inode_table)'
  <2> SUFFICES ASSUME NEW s \in Slots
               PROVE  inode_table'[s].cnt >= Cardinality(Holders(s)) + (IF s = 1 THEN 1 ELSE 0)
    BY <1>2 DEF Counted
  <2>1. inode_table[s].cnt >= Cardinality(Holders(s)) + (IF s = 1 THEN 1 ELSE 0)
    BY DEF IInv, Counted
  <2>2. inode_table'[s].cnt \in Nat /\ inode_table[s].cnt \in Nat
    BY DEF InodeTables, IInv, Types
  <2>3. QED
    BY <2>1, <2>2, Counts
<1>6. OpenOf' = OpenOf
  BY DEF OpenOf
<1>7. FileOf' = FileOf
  <2>1. \A d \in Descs : FileOf'[d] = FileOf[d]
    BY FileKept
  <2> DEFINE new(d) == IF f_desc_table'[d].inode = 0 THEN 0 ELSE inode_table'[f_desc_table'[d].inode].num
             old(d) == IF f_desc_table[d].inode = 0 THEN 0 ELSE inode_table[f_desc_table[d].inode].num
  <2>2. FileOf = [d \in Descs |-> old(d)] /\ FileOf' = [d \in Descs |-> new(d)]
    BY DEF FileOf
  <2> HIDE DEF new, old
  <2>3. QED
    BY <2>1, <2>2
<1>8. QED
  BY <1>3, <1>4, <1>5, <1>6, <1>7

(***************************************************************************)
(* The directory                                                           *)
(***************************************************************************)

\* The first sector is read as a whole, and is not full.
LEMMA OneSector ==
    ASSUME IInv, Roomy
    PROVE  /\ DirSize \in Nat /\ DirSize > 0 /\ DirSize < DIR_SECT /\ DIR_SECT \in Nat
           /\ DirSize \in Entries /\ DirSize + 1 \in Entries
           /\ DirSize % DIR_SECT # 0
<1>1. DirSize \in Nat
  BY RootHeld DEF IInv, Types, DirSize, DiskInodes
<1>2. DIR_SECT \in Nat \ {0} /\ DirMax \in Nat /\ DirMax >= 2 * DIR_SECT
  BY FsAssumption
<1>3. DirSize > 0
  <2>1. 0 \in Entries /\ dir[0].inode_nr # 0
    BY Sizes DEF IInv, Directory, ROOT_INODE
  <2>2. QED
    BY <1>1, <2>1 DEF IInv, Directory
<1>4. DirSize < DIR_SECT
  BY DEF Roomy
<1>5. DirSize % DIR_SECT = DirSize
  <2>1. \A m, n \in Nat : m < n => m % n = m
    OBVIOUS
  <2>2. QED
    BY <1>1, <1>2, <1>4, <2>1
<1>6. DirSize + 1 < DirMax
  <2>1. \A m, n, k \in Nat : m < n /\ k >= 2 * n => m + 1 < k
    OBVIOUS
  <2>2. QED
    BY <1>1, <1>2, <1>3, <1>4, <2>1
<1>7. QED
  BY <1>1, <1>2, <1>3, <1>4, <1>5, <1>6 DEF Entries

\* A name that is found is one of an allocated inode.
LEMMA SearchFinds ==
    ASSUME IInv, Roomy, NEW name, search_file(name) # 0
    PROVE  /\ search_file(name) \in imap \cap Inodes
           /\ name # "/" => \E i \in Entries : i < DirSize /\ dir[i].inode_nr = search_file(name)
<1>1. CASE name = "/"
  <2>1. search_file(name) = ROOT_INODE
    BY <1>1 DEF search_file, IInv, Root
  <2>2. 0 \in Entries /\ dir[0].inode_nr = ROOT_INODE /\ ROOT_INODE # 0
    BY Sizes DEF IInv, Directory, ROOT_INODE
  <2>3. QED
    BY <1>1, <2>1, <2>2, Sizes DEF IInv, Directory, ROOT_INODE
<1>2. CASE name # "/"
  <2> DEFINE last  == IF DirSize % DIR_SECT = 0 THEN DirSize - 1 ELSE DirSize
             found == {i \in 0..last : dir[i].name = name /\ dir[i].ext = NameLen[name]}
  <2>1. last = DirSize
    BY OneSector
  <2>2. found \in SUBSET Nat /\ \A i \in found : i \in Entries
    <3>1. DirSize \in Nat /\ DirMax \in Nat /\ DirSize + 1 <= DirMax
      BY OneSector, FsAssumption DEF Entries
    <3>1a. \A i \in 0..DirSize : i \in Nat /\ i \in 0..(DirMax - 1)
      BY <3>1
    <3>2. QED
      BY <2>1, <3>1a DEF Entries
  <2>3. search_file(name) = IF found = {} THEN 0 ELSE dir[Min(found)].inode_nr
    BY <1>2 DEF search_file
  <2> HIDE DEF found, last
  <2>4. found # {} /\ search_file(name) = dir[Min(found)].inode_nr
    BY <2>3
  <2>5. Min(found) \in Entries
    BY <2>2, <2>4, First
  <2>6. dir[Min(found)].inode_nr \in {0} \cup Inodes
    BY <2>5 DEF IInv, Types
  <2>7. QED
    BY <2>4, <2>5, <2>6 DEF IInv, Directory
<1>3. QED
  BY <1>1, <1>2

\* A free inode number is not the root's, and is not in use.
LEMMA InodeAllocated ==
    ASSUME IInv, Roomy
    PROVE  alloc_imap_bit \in Inodes \ imap
<1>1. NR_INODES \in Nat
  BY FsAssumption
<1>2. 0..(NR_INODES - 1) \ imap \in SUBSET Nat /\ 0..(NR_INODES - 1) \ imap # {}
  <2>1. imap \subseteq 0..(NR_INODES - 1) /\ imap # 0..(NR_INODES - 1)
    BY DEF IInv, Types, Roomy
  <2>2. \A k \in 0..(NR_INODES - 1) : k \in Nat
    BY <1>1
  <2>3. \E k \in 0..(NR_INODES - 1) : k \notin imap
    BY <2>1
  <2>4. QED
    BY <2>2, <2>3
<1>3. alloc_imap_bit \in 0..(NR_INODES - 1) \ imap
  BY <1>2, First DEF alloc_imap_bit
<1>4. alloc_imap_bit # 0
  BY <1>3 DEF IInv, Root
<1>5. QED
  BY <1>1, <1>3, <1>4 DEF Inodes

\* Names are not empty and no longer than the name field.
LEMMA NameLengths ==
    ASSUME IInv, NEW name \in work.names
    PROVE  name \in AllNames /\ NameLen[name] \in Nat
<1>1. name \in AllNames
  BY DEF IInv, Types, AllNames
<1>2. MAX_FILENAME_LEN \in Nat /\ NameLen \in [AllNames -> 1..MAX_FILENAME_LEN]
  BY FsAssumption
<1>3. QED
  BY <1>1, <1>2

\* A directory of allocated inodes and inode nr, each of them once.
GoodDirectory(new, nr) ==
    /\ new.size \in Nat
    /\ new.dir \in [Entries -> [inode_nr : {0} \cup Inodes, name : AllNames \cup {""}, ext : Nat]]
    /\ new.dir[0].inode_nr = ROOT_INODE
    /\ \A i \in Entries : new.dir[i].inode_nr # 0 =>
          new.dir[i].inode_nr \in imap \cup {nr} /\ i < new.size
    /\ \A i, j \in Entries :
          new.dir[i].inode_nr # 0 /\ new.dir[i].inode_nr = new.dir[j].inode_nr => i = j

\* A new entry is the only one of its inode, and takes the first hole or the
\* end; a name of full length may take the inode number of the one behind it.
LEMMA NewEntry ==
    ASSUME IInv, Roomy, NEW name \in work.names, NEW nr \in Inodes \ imap,
           NEW new, new = new_dir_entry(nr, name)
    PROVE  GoodDirectory(new, nr)
<1> DEFINE holes == {i \in 0..(DirSize - 1) : dir[i].inode_nr = 0}
           at    == IF holes # {} THEN Min(holes) ELSE DirSize
           named == [dir EXCEPT ![at] = Named(@, nr, name)]
           EntryType == [inode_nr : {0} \cup Inodes, name : AllNames \cup {""}, ext : Nat]
<1>1. DirSize \in Nat /\ DirSize > 0 /\ DirSize \in Entries /\ DirSize % DIR_SECT # 0
  BY OneSector
<1>2. /\ 0 \in Entries /\ dir[0].inode_nr = ROOT_INODE /\ ROOT_INODE # 0 /\ ROOT_INODE \in Inodes
      /\ nr # 0 /\ nr \in Inodes /\ nr \notin imap /\ ROOT_INODE \in imap
  BY Sizes DEF IInv, Directory, ROOT_INODE
<1>3. PICK i \in Entries : /\ i = at /\ i # 0
                           /\ i <= DirSize /\ (i = DirSize => new.size = DirSize + 1)
                           /\ new.size \in Nat /\ new.size >= DirSize
                           /\ new.dir = IF NameLen[name] = MAX_FILENAME_LEN /\ (i + 1) % DIR_SECT # 0
                                        THEN [named EXCEPT ![i + 1].inode_nr = 0] ELSE named
  <2>1. CASE holes # {}
    <3>1. holes \in SUBSET Nat
      BY <1>1
    <3>2. at \in holes
      BY <2>1, <3>1, First
    <3>3. at \in 0..(DirSize - 1) /\ dir[at].inode_nr = 0
      BY <3>2
    <3>4. at \in Entries /\ at # 0 /\ at < DirSize
      <4>1. \A k \in 0..(DirSize - 1) : k \in Nat /\ k < DirSize
        BY <1>1
      <4>2. \A k \in Nat : k < DirSize => k \in Entries
        BY <1>1, FsAssumption DEF Entries
      <4> HIDE DEF at
      <4>3. QED
        BY <1>2, <3>3, <4>1, <4>2
    <3>5. new.size = DirSize
      BY <2>1 DEF new_dir_entry
    <3>6. new.dir = IF NameLen[name] = MAX_FILENAME_LEN /\ (at + 1) % DIR_SECT # 0
                    THEN [named EXCEPT ![at + 1].inode_nr = 0] ELSE named
      BY <2>1, Zenon DEF new_dir_entry
    <3> HIDE DEF at, holes, named
    <3>7. at <= DirSize /\ at # DirSize
      BY <1>1, <3>4, Sizes
    <3>8. new.size \in Nat /\ new.size >= DirSize
      BY <1>1, <3>5
    <3>9. QED
      BY <3>4, <3>6, <3>7, <3>8
  <2>2. CASE holes = {}
    <3>1. at = DirSize
      BY <2>2
    <3>2. new.size = DirSize + 1
      BY <2>2 DEF new_dir_entry
    <3>3. new.dir = IF NameLen[name] = MAX_FILENAME_LEN /\ (at + 1) % DIR_SECT # 0
                    THEN [named EXCEPT ![at + 1].inode_nr = 0] ELSE named
      BY <1>1, <2>2, Zenon DEF new_dir_entry
    <3> HIDE DEF at, holes, named
    <3>4. QED
      BY <1>1, <3>1, <3>2, <3>3
  <2>3. QED
    BY <2>1, <2>2
<1>4. PICK D, N, size : D = new.dir /\ N = named /\ size = new.size
  OBVIOUS
<1>4a. i <= DirSize /\ (i = DirSize => size = DirSize + 1) /\ size \in Nat /\ size >= DirSize
  BY <1>3, <1>4, Zenon
<1>5. dir \in [Entries -> EntryType]
  BY DEF IInv, Types
<1>6. Named(dir[i], nr, name) \in EntryType /\ Named(dir[i], nr, name).inode_nr = nr
  <2>1. dir[i].ext \in Nat
    BY <1>5
  <2>2. QED
    BY <1>2, <2>1, NameLengths DEF Named, Entry
<1>7. N = [dir EXCEPT ![i] = Named(dir[i], nr, name)]
  BY <1>3, <1>4, Zenon
<1>8. /\ N \in [Entries -> EntryType] /\ N[i].inode_nr = nr
      /\ \A j \in Entries \ {i} : N[j] = dir[j]
  BY <1>5, <1>6, <1>7
<1>9. D = N \/ D = [N EXCEPT ![i + 1].inode_nr = 0]
  BY <1>3, <1>4, Zenon
<1>10. /\ D \in [Entries -> EntryType]
       /\ \A j \in Entries : D[j].inode_nr = N[j].inode_nr \/ D[j].inode_nr = 0
       /\ D[0].inode_nr = N[0].inode_nr
  <2>1. CASE D = N
    BY <1>2, <1>8, <2>1
  <2>2. CASE D = [N EXCEPT ![i + 1].inode_nr = 0]
    <3>1. i + 1 # 0
      BY Sizes
    <3>2. QED
      BY <1>2, <1>8, <2>2, <3>1
  <2>3. QED
    BY <1>9, <2>1, <2>2
<1>11. \A j \in Entries : N[j].inode_nr # 0 => N[j].inode_nr \in imap \cup {nr} /\ j < size
  <2> SUFFICES ASSUME NEW j \in Entries, N[j].inode_nr # 0
               PROVE  N[j].inode_nr \in imap \cup {nr} /\ j < size
    OBVIOUS
  <2>1. j \in Nat /\ i \in Nat /\ size \in Nat /\ size >= DirSize
    BY <1>4a, Sizes
  <2>2. CASE j = i
    <3>1. i < size
      BY <1>1, <1>4a, <2>1
    <3>2. QED
      BY <1>8, <2>2, <3>1
  <2>3. CASE j # i
    <3>1. N[j] = dir[j]
      BY <1>8, <2>3
    <3>2. dir[j].inode_nr \in imap /\ j < DirSize
      BY <3>1 DEF IInv, Directory
    <3>3. QED
      BY <1>1, <2>1, <3>1, <3>2
  <2>4. QED
    BY <2>2, <2>3
<1>12. \A j, k \in Entries : N[j].inode_nr # 0 /\ N[j].inode_nr = N[k].inode_nr => j = k
  <2>1. \A j \in Entries \ {i} : N[j].inode_nr # 0 => N[j].inode_nr # nr
    BY <1>2, <1>8 DEF IInv, Directory
  <2>2. \A j, k \in Entries : dir[j].inode_nr # 0 /\ dir[j].inode_nr = dir[k].inode_nr => j = k
    BY DEF IInv, Directory
  <2> HIDE DEF named, at, holes, EntryType
  <2>3. QED
    BY <1>2, <1>8, <2>1, <2>2
<1> HIDE DEF named, EntryType
<1>13. /\ D[0].inode_nr = ROOT_INODE
       /\ \A j \in Entries : D[j].inode_nr # 0 => D[j].inode_nr \in imap \cup {nr} /\ j < size
       /\ \A j, k \in Entries : D[j].inode_nr # 0 /\ D[j].inode_nr = D[k].inode_nr => j = k
  BY <1>2, <1>3, <1>8, <1>10, <1>11, <1>12
<1>14. new.size \in Nat /\ D \in [Entries -> EntryType]
  BY <1>3, <1>10
<1>15. QED
  BY <1>4, <1>13, <1>14, Zenon DEF EntryType, GoodDirectory

(***************************************************************************)
(* Opening                                                                 *)
(***************************************************************************)

\* The first empty descriptor and the first empty open file.
LEMMA EmptyOnes ==
    ASSUME IInv, NEW p \in Procs, Room(p)
    PROVE  \E fd \in Fds, d \in Descs :
              /\ fd = Min(EmptyFds(p)) /\ d = Min(EmptyDescs)
              /\ filp[p][fd] = 0 /\ f_desc_table[d].inode = 0 /\ f_desc_table[d].cnt = 0
<1>1. EmptyFds(p) \in SUBSET Nat /\ EmptyDescs \in SUBSET Nat
  BY Sizes DEF EmptyFds, EmptyDescs
<1>2. EmptyFds(p) # {} /\ EmptyDescs # {}
  BY DEF Room
<1>3. Min(EmptyFds(p)) \in EmptyFds(p) /\ Min(EmptyDescs) \in EmptyDescs
  BY <1>1, <1>2, First
<1>4. \A d \in Descs : f_desc_table[d].inode = 0 => f_desc_table[d].cnt = 0
  BY DEF IInv, CountsExact
<1>5. QED
  BY <1>3, <1>4 DEF EmptyFds, EmptyDescs

\* A new open file has one descriptor, and its inode one reference more; nobody
\* else's descriptors are concerned.
LEMMA Connected ==
    ASSUME IInv, NEW p \in Procs, Active(p), Room(p), NEW s \in Slots, NEW rdwr \in BOOLEAN,
           Connect(p, s, rdwr), UNCHANGED life, inode_table' \in InodeTables,
           inode_table'[s].cnt = inode_table[s].cnt + 1,
           \A t \in Slots \ {s} : inode_table'[t].cnt = inode_table[t].cnt,
           \A t \in Slots : inode_table[t].cnt > 0 => inode_table'[t].num = inode_table[t].num,
           inode_table'[s].num \in Inodes
    PROVE  /\ filp' \in [Procs -> [Fds -> {0} \cup Descs]]
           /\ f_desc_table' \in [Descs -> [inode : {0} \cup Slots, pos : Nat, cnt : Nat, rdwr : BOOLEAN]]
           /\ CountsExact' /\ Families' /\ Counted(inode_table)'
           /\ Objects!Next
<1>1. PICK fd \in Fds, d \in Descs,
             new \in {[inode |-> s, pos |-> 0, cnt |-> 1, rdwr |-> rdwr]} :
         /\ fd = Min(EmptyFds(p)) /\ d = Min(EmptyDescs)
         /\ filp[p][fd] = 0 /\ f_desc_table[d].inode = 0 /\ f_desc_table[d].cnt = 0
         /\ new = [inode |-> s, pos |-> 0, cnt |-> 1, rdwr |-> rdwr]
  BY EmptyOnes
<1>2. /\ filp' = [filp EXCEPT ![p][fd] = d]
      /\ f_desc_table' = [f_desc_table EXCEPT ![d] = new]
  BY <1>1 DEF Connect
<1>3. /\ filp \in [Procs -> [Fds -> {0} \cup Descs]]
      /\ f_desc_table \in [Descs -> [inode : {0} \cup Slots, pos : Nat, cnt : Nat, rdwr : BOOLEAN]]
      /\ inode_table \in InodeTables
      /\ life[p] = "run"
  BY DEF IInv, Types, Active, InodeTables
<1>4. d # 0 /\ s # 0 /\ 0 \notin Descs
  BY Sizes
<1>5. /\ filp' \in [Procs -> [Fds -> {0} \cup Descs]]
      /\ filp'[p][fd] = d
      /\ \A q \in Procs, f \in Fds : <<q, f>> # <<p, fd>> => filp'[q][f] = filp[q][f]
      /\ \A q \in Procs \ {p} : filp'[q] = filp[q]
  BY <1>2, <1>3
<1>6. new \in [inode : {0} \cup Slots, pos : Nat, cnt : Nat, rdwr : BOOLEAN]
  BY <1>1
<1>7. /\ f_desc_table' \in [Descs -> [inode : {0} \cup Slots, pos : Nat, cnt : Nat, rdwr : BOOLEAN]]
      /\ f_desc_table'[d].inode = s /\ f_desc_table'[d].cnt = 1
      /\ \A e \in Descs \ {d} : f_desc_table'[e] = f_desc_table[e]
  BY <1>1, <1>2, <1>3, <1>6
<1>8. Users(d) = {}
  BY <1>1, Counts, FS_EmptySet DEF IInv, CountsExact
<1>9. \A q \in Told, f \in Fds : filp[q][f] # d
  <2>1. \A q \in Told, f \in Fds : filp[q][f] = d => <<q, f>> \in Users(d)
    BY DEF Users
  <2>2. QED
    BY <1>8, <2>1
<1>10. Told' = Told /\ p \in Told /\ Told \subseteq Procs
  BY <1>3 DEF Told
<1>11. Users(d)' = {<<p, fd>>}
  BY <1>5, <1>9, <1>10 DEF Users
<1>12. \A e \in Descs \ {d} : Users(e)' = Users(e)
  <2> SUFFICES ASSUME NEW e \in Descs \ {d}
               PROVE  Users(e)' = Users(e)
    OBVIOUS
  <2>1. \A q \in Told, f \in Fds : filp'[q][f] = e <=> filp[q][f] = e
    BY <1>1, <1>4, <1>5, <1>10
  <2>2. QED
    BY <1>10, <2>1 DEF Users
<1>13. CountsExact'
  <2> SUFFICES ASSUME NEW e \in Descs
               PROVE  /\ f_desc_table'[e].cnt = Cardinality(Users(e)')
                      /\ f_desc_table'[e].inode = 0 <=> f_desc_table'[e].cnt = 0
    BY DEF CountsExact
  <2>1. CASE e = d
    <3>1. Cardinality(Users(d)') = 1
      BY <1>11, FS_Singleton
    <3>2. Users(e)' = Users(d)'
      BY <2>1 DEF Users
    <3>3. f_desc_table'[e].cnt = 1 /\ f_desc_table'[e].inode # 0
      BY <1>4, <1>7, <2>1
    <3>4. QED
      BY <3>1, <3>2, <3>3
  <2>2. CASE e # d
    <3>1. f_desc_table'[e] = f_desc_table[e] /\ Users(e)' = Users(e)
      BY <1>7, <1>12, <2>2
    <3>2. QED
      BY <3>1 DEF IInv, CountsExact
  <2>3. QED
    BY <2>1, <2>2
<1>14. Holders(s)' = Holders(s) \cup {<<p, fd>>}
  <2>1. \A q \in Told, f \in Fds : <<q, f>> # <<p, fd>> /\ filp[q][f] # 0 =>
            f_desc_table'[filp[q][f]].inode = f_desc_table[filp[q][f]].inode
    BY <1>3, <1>7, <1>9, <1>10
  <2>2. \A u \in Told \X Fds : u # <<p, fd>> =>
            /\ filp'[u[1]][u[2]] = filp[u[1]][u[2]]
            /\ filp[u[1]][u[2]] # 0 =>
                 f_desc_table'[filp[u[1]][u[2]]].inode = f_desc_table[filp[u[1]][u[2]]].inode
    BY <1>5, <1>10, <2>1
  <2>3. <<p, fd>> \in Told \X Fds /\ filp'[p][fd] # 0 /\ f_desc_table'[filp'[p][fd]].inode = s
    BY <1>4, <1>5, <1>7, <1>10
  <2>4. QED
    BY <1>10, <2>2, <2>3 DEF Holders
<1>15. \A t \in Slots \ {s} : Holders(t)' = Holders(t)
  <2> SUFFICES ASSUME NEW t \in Slots \ {s}
               PROVE  Holders(t)' = Holders(t)
    OBVIOUS
  <2>1. \A q \in Told, f \in Fds : <<q, f>> # <<p, fd>> /\ filp[q][f] # 0 =>
            f_desc_table'[filp[q][f]].inode = f_desc_table[filp[q][f]].inode
    BY <1>3, <1>7, <1>9, <1>10
  <2>2. \A u \in Told \X Fds : u # <<p, fd>> =>
            /\ filp'[u[1]][u[2]] = filp[u[1]][u[2]]
            /\ filp[u[1]][u[2]] # 0 =>
                 f_desc_table'[filp[u[1]][u[2]]].inode = f_desc_table[filp[u[1]][u[2]]].inode
    BY <1>5, <1>10, <2>1
  <2>3. <<p, fd>> \notin Holders(t) /\ <<p, fd>> \notin Holders(t)'
    BY <1>1, <1>5, <1>7 DEF Holders
  <2>4. QED
    BY <1>10, <2>2, <2>3, SMTT(40) DEF Holders
<1>16. Counted(inode_table)'
  <2> SUFFICES ASSUME NEW t \in Slots
               PROVE  inode_table'[t].cnt >= Cardinality(Holders(t)') + (IF t = 1 THEN 1 ELSE 0)
    BY DEF Counted
  <2>1. /\ inode_table[t].cnt >= Cardinality(Holders(t)) + (IF t = 1 THEN 1 ELSE 0)
        /\ inode_table[t].cnt \in Nat
    BY <1>3 DEF IInv, Counted, InodeTables
  <2>2. CASE t = s
    <3>1. Cardinality(Holders(s)') = Cardinality(Holders(s)) \/
          Cardinality(Holders(s)') = Cardinality(Holders(s)) + 1
      <4>1. IsFiniteSet(Holders(s))
        BY Counts
      <4>2. QED
        BY <1>14, <4>1, FS_AddElement, ZenonT(40)
    <3>2. QED
      BY <2>1, <2>2, <3>1, Counts
  <2>3. CASE t # s
    <3>1. inode_table'[t].cnt = inode_table[t].cnt /\ Holders(t)' = Holders(t)
      BY <1>15, <2>3
    <3>2. QED
      BY <2>1, <3>1
  <2>4. QED
    BY <2>2, <2>3
<1>17. Families'
  <2>1. \A q \in Procs : life[q] \in {"free", "forking", "born"} => q # p
    BY <1>3
  <2>2. QED
    BY <1>5, <2>1 DEF IInv, Families
<1>18. Objects!Next
  <2>1. OpenOf[p][fd] = 0 /\ FileOf[d] = 0
    BY <1>1, <1>3 DEF OpenOf, FileOf
  <2>2. OpenOf' = [OpenOf EXCEPT ![p][fd] = d]
    <3> DEFINE none == [f \in Fds |-> 0]
               old(q) == IF life[q] = "born" THEN none ELSE filp[q]
               now(q) == IF life[q] = "born" THEN none ELSE filp'[q]
    <3>1. OpenOf = [q \in Procs |-> old(q)] /\ OpenOf' = [q \in Procs |-> now(q)]
      BY DEF OpenOf
    <3>2. \A q \in Procs \ {p} : now(q) = old(q)
      BY <1>5
    <3>3. now(p) = [filp[p] EXCEPT ![fd] = d] /\ old(p) = filp[p]
      BY <1>2, <1>3
    <3> HIDE DEF now, old
    <3>4. QED
      BY <3>1, <3>2, <3>3
  <2>3. FileOf' = [FileOf EXCEPT ![d] = inode_table'[s].num]
    <3>1. \A e \in Descs \ {d} : FileOf'[e] = FileOf[e]
      BY <1>7, FileKept
    <3> DEFINE old(e) == IF f_desc_table[e].inode = 0 THEN 0 ELSE inode_table[f_desc_table[e].inode].num
               now(e) == IF f_desc_table'[e].inode = 0 THEN 0 ELSE inode_table'[f_desc_table'[e].inode].num
    <3>2. FileOf = [e \in Descs |-> old(e)] /\ FileOf' = [e \in Descs |-> now(e)]
      BY DEF FileOf
    <3>3. now(d) = inode_table'[s].num
      BY <1>4, <1>7
    <3> HIDE DEF now, old
    <3>4. QED
      BY <3>1, <3>2, <3>3
  <2>4. PICK nr \in Inodes : nr = inode_table'[s].num
    OBVIOUS
  <2>5. FileOf' = [FileOf EXCEPT ![d] = nr]
    BY <2>3, <2>4
  <2>6. Objects!Open(p, fd, d, nr)
    BY <2>1, <2>2, <2>5 DEF Objects!Open, OpenOf, FileOf
  <2>7. QED
    BY <2>6 DEF Objects!Next
<1>19. QED
  BY <1>5, <1>7, <1>13, <1>16, <1>17, <1>18

\* What a step of FS is to OpenFiles.
ObjectsStep == Objects!Next \/ UNCHANGED <<OpenOf, FileOf>>

\* A step that stops FS.
LEMMA HaltStep ==
    ASSUME IInv, NEW why, Halt(why), UNCHANGED work
    PROVE  IInv' /\ ObjectsStep
<1>1. UNCHANGED <<filp, f_desc_table, inode_table, imap, smap, disk_inode, dir, life, work>>
  BY DEF Halt, diskVars
<1>2. inode_table \in InodeTables
  BY DEF IInv, Types, InodeTables
<1>2a. \A s \in Slots : inode_table'[s].cnt >= inode_table[s].cnt
  <2>1. \A s \in Slots : inode_table[s].cnt \in Nat
    BY <1>2 DEF InodeTables
  <2>2. QED
    BY <1>1, <2>1
<1>3. CountsExact' /\ Families' /\ Counted(inode_table)' /\ UNCHANGED <<OpenOf, FileOf>>
  BY <1>1, <1>2, <1>2a, OpenFilesKept
<1>4. Types' /\ Root' /\ Mirrors(inode_table, disk_inode, imap)'
  BY <1>1 DEF IInv, Types, Root, Mirrors
<1>5. Directory'
  BY <1>1 DEF IInv, Directory, DirSize
<1>6. QED
  BY <1>3, <1>4, <1>5 DEF IInv, ObjectsStep

\* Opening a file that exists.
LEMMA OpenFileStep ==
    ASSUME IInv, Roomy, NEW p \in Procs, NEW name \in work.names, OpenFile(p, name), UNCHANGED work
    PROVE  IInv' /\ ObjectsStep
<1>1. PICK nr \in imap \cap Inodes : nr = search_file(name)
  BY SearchFinds DEF OpenFile
<1>2. /\ ~TableFull(nr) /\ inode_table' = get_inode(nr) /\ Active(p) /\ Room(p)
      /\ UNCHANGED <<imap, smap, disk_inode, dir, life>>
  BY <1>1 DEF OpenFile, diskVars
<1>3. PICK s \in Slots : s = SlotFor(nr)
  BY <1>2, Slot
<1>4. Connect(p, s, TRUE)
  BY <1>1, <1>3 DEF OpenFile
<1>5. /\ inode_table' \in InodeTables
      /\ Mirrors(inode_table', disk_inode, imap)
      /\ \A t \in Slots \ {s} : inode_table'[t] = inode_table[t]
      /\ inode_table'[s].cnt = inode_table[s].cnt + 1 /\ inode_table'[s].num = nr
      /\ inode_table'[1].num = inode_table[1].num /\ inode_table'[1].di = inode_table[1].di
  BY <1>2, <1>3, GetInode
<1>6. inode_table[s].cnt > 0 => inode_table[s].num = nr
  BY <1>2, <1>3, Slot
<1>7. /\ filp' \in [Procs -> [Fds -> {0} \cup Descs]]
      /\ f_desc_table' \in [Descs -> [inode : {0} \cup Slots, pos : Nat, cnt : Nat, rdwr : BOOLEAN]]
      /\ CountsExact' /\ Families' /\ Counted(inode_table)'
      /\ Objects!Next
  BY <1>2, <1>4, <1>5, <1>6, Connected
<1>8. Types'
  BY <1>2, <1>5, <1>7 DEF IInv, Types, InodeTables
<1>9. Mirrors(inode_table, disk_inode, imap)'
  BY <1>2, <1>5 DEF Mirrors
<1>10. Root' /\ Directory'
  BY <1>2, <1>5 DEF IInv, Root, Directory, DirSize
<1>11. QED
  BY <1>7, <1>8, <1>9, <1>10 DEF IInv, ObjectsStep

\* The first sector of a new file is a bit of the map.
LEMMA SectorsAllocated ==
    ASSUME IInv, AllocAssert
    PROVE  FirstClear \in Nat /\ NewInode \in DiskInodes /\ alloc_smap_bit \subseteq Bits
<1>1. Bits \in SUBSET Nat
  BY FsAssumption DEF Bits
<1>2. FirstClear \in Bits
  BY <1>1, First DEF FirstClear, AllocAssert
<1>3. FILE_SECTS \in Nat
  BY FsAssumption
<1>4. NewInode \in DiskInodes
  BY <1>1, <1>2, <1>3 DEF NewInode, Inode, DiskInodes, Modes
<1>5. alloc_smap_bit \subseteq Bits
  BY DEF alloc_smap_bit, AllocAssert, IInv, Types
<1>6. QED
  BY <1>1, <1>2, <1>4, <1>5

\* Creating a file.
LEMMA CreateFileStep ==
    ASSUME IInv, Roomy, NEW p \in Procs, NEW name \in work.names, NEW rdwr \in BOOLEAN,
           CreateFile(p, name, rdwr), UNCHANGED work
    PROVE  IInv' /\ ObjectsStep
<1>1. PICK nr \in Inodes \ imap : nr = alloc_imap_bit
  BY InodeAllocated
<1>2. PICK s \in Slots : s = SlotFor(nr)
  BY <1>1, Slot DEF CreateFile
<1>3. PICK new : new = new_dir_entry(nr, name)
  OBVIOUS
<1>3a. PICK ino \in DiskInodes : ino = NewInode
  BY SectorsAllocated DEF CreateFile
<1>4. /\ ~TableFull(nr) /\ Active(p) /\ Room(p) /\ AllocAssert
      /\ inode_table' = [inode_table EXCEPT ![s] = InCore(nr, 1, ino), ![1].di.size = new.size]
      /\ disk_inode' = [disk_inode EXCEPT ![nr] = ino, ![ROOT_INODE].size = new.size]
      /\ dir' = new.dir
      /\ imap' = imap \cup {nr}
      /\ Connect(p, s, rdwr)
      /\ smap' = alloc_smap_bit
      /\ UNCHANGED life
  BY <1>1, <1>2, <1>3, <1>3a, Zenon DEF CreateFile, Creating
<1>4a. imap' = imap \cup {nr} /\ Active(p) /\ Room(p) /\ Connect(p, s, rdwr) /\ UNCHANGED life
  BY <1>4
<1>5. /\ new.size \in Nat
      /\ new.dir \in [Entries -> [inode_nr : {0} \cup Inodes, name : AllNames \cup {""}, ext : Nat]]
      /\ new.dir[0].inode_nr = ROOT_INODE
      /\ \A i \in Entries : new.dir[i].inode_nr # 0 =>
            new.dir[i].inode_nr \in imap \cup {nr} /\ i < new.size
      /\ \A i, j \in Entries :
            new.dir[i].inode_nr # 0 /\ new.dir[i].inode_nr = new.dir[j].inode_nr => i = j
  <2>1. name \in work.names /\ nr \in Inodes \ imap
    OBVIOUS
  <2>2. GoodDirectory(new, nr)
    BY <1>3, <2>1, NewEntry
  <2>3. QED
    BY <1>3, <2>1, <2>2, Zenon DEF GoodDirectory
<1>6. /\ inode_table \in InodeTables /\ disk_inode \in [Inodes -> DiskInodes]
      /\ imap \subseteq 0..(NR_INODES - 1)
      /\ Mirrors(inode_table, disk_inode, imap) /\ inode_table[1].num = 1
      /\ disk_inode[1].mode = "dir" /\ 0 \in imap
  BY DEF IInv, Types, InodeTables, Root, ROOT_INODE
<1>7. 1 \in imap /\ 1 \in Inodes /\ nr # 1 /\ nr # 0 /\ 1 \in Slots
  BY Sizes DEF IInv, Directory, ROOT_INODE
<1>8. \A t \in Slots : inode_table[t].num # nr
  BY <1>6, <1>7 DEF Mirrors
<1>9. inode_table[s].cnt = 0 /\ s # 1
  BY <1>2, <1>4, <1>8, Slot
<1>10. /\ inode_table' \in InodeTables
       /\ inode_table'[s] = InCore(nr, 1, ino)
       /\ inode_table'[1].num = 1 /\ inode_table'[1].cnt = inode_table[1].cnt
       /\ inode_table'[1].di = [inode_table[1].di EXCEPT !.size = new.size]
       /\ \A t \in Slots \ {1, s} : inode_table'[t] = inode_table[t]
  <2>1. inode_table' = [[inode_table EXCEPT ![s] = InCore(nr, 1, ino)] EXCEPT ![1].di.size = new.size]
    BY <1>4
  <2>2. PICK T : T = [inode_table EXCEPT ![s] = InCore(nr, 1, ino)]
    OBVIOUS
  <2>3. /\ T \in InodeTables /\ T[s] = InCore(nr, 1, ino) /\ T[1] = inode_table[1]
        /\ \A t \in Slots \ {s} : T[t] = inode_table[t]
    BY <1>3, <1>6, <1>7, <1>9, <2>2 DEF InodeTables, InCore
  <2>4. inode_table' = [T EXCEPT ![1].di.size = new.size]
    BY <2>1, <2>2
  <2>5. inode_table' \in InodeTables
    <3>1. T[1].di \in DiskInodes /\ T[1] \in [num : {0} \cup Inodes, cnt : Nat, di : DiskInodes]
      BY <1>7, <2>3 DEF InodeTables
    <3>2. [T[1].di EXCEPT !.size = new.size] \in DiskInodes
      BY <1>5, <3>1 DEF DiskInodes
    <3>3. [T[1] EXCEPT !.di = [T[1].di EXCEPT !.size = new.size]]
             \in [num : {0} \cup Inodes, cnt : Nat, di : DiskInodes]
      BY <3>1, <3>2
    <3>4. inode_table' = [T EXCEPT ![1] = [T[1] EXCEPT !.di = [T[1].di EXCEPT !.size = new.size]]]
      BY <2>4
    <3>5. QED
      BY <2>3, <3>3, <3>4 DEF InodeTables
  <2>6. /\ inode_table'[1].num = T[1].num /\ inode_table'[1].cnt = T[1].cnt
        /\ inode_table'[1].di = [T[1].di EXCEPT !.size = new.size]
        /\ \A t \in Slots \ {1} : inode_table'[t] = T[t]
    BY <1>7, <2>3, <2>4 DEF InodeTables, DiskInodes
  <2>7. QED
    BY <1>6, <1>7, <1>9, <2>3, <2>5, <2>6
<1>11. /\ disk_inode' \in [Inodes -> DiskInodes]
       /\ disk_inode'[nr] = ino /\ disk_inode'[1] = [disk_inode[1] EXCEPT !.size = new.size]
       /\ \A n \in Inodes \ {1, nr} : disk_inode'[n] = disk_inode[n]
  BY <1>3, <1>4, <1>5, <1>6, <1>7 DEF DiskInodes, ROOT_INODE
<1>12. inode_table'[s].num = nr /\ inode_table'[s].cnt = 1 /\ inode_table'[s].di = ino
  BY <1>10 DEF InCore
<1>13. /\ inode_table'[s].cnt = inode_table[s].cnt + 1
       /\ \A t \in Slots \ {s} : inode_table'[t].cnt = inode_table[t].cnt
                              /\ inode_table'[t].num = inode_table[t].num
       /\ \A t \in Slots : inode_table[t].cnt > 0 => inode_table'[t].num = inode_table[t].num
  BY <1>6, <1>9, <1>10, <1>12
<1>14. /\ filp' \in [Procs -> [Fds -> {0} \cup Descs]]
       /\ f_desc_table' \in [Descs -> [inode : {0} \cup Slots, pos : Nat, cnt : Nat, rdwr : BOOLEAN]]
       /\ CountsExact' /\ Families' /\ Counted(inode_table)'
       /\ Objects!Next
  BY <1>4a, <1>10, <1>12, <1>13, Connected
<1>15. Mirrors(inode_table, disk_inode, imap)'
  <2> SUFFICES ASSUME NEW t \in Slots
               PROVE  IF inode_table'[t].cnt = 0 THEN inode_table'[t].num = 0
                      ELSE /\ inode_table'[t].num \in imap' \cap Inodes
                           /\ \A u \in Slots \ {t} : inode_table'[u].num # inode_table'[t].num
                           /\ IF t = 1 THEN [inode_table'[t].di EXCEPT !.size = 0]
                                            = [disk_inode'[1] EXCEPT !.size = 0]
                              ELSE inode_table'[t].di = disk_inode'[inode_table'[t].num]
    BY DEF Mirrors
  <2>1. CASE t = s
    <3>1. \A u \in Slots \ {s} : inode_table'[u].num # nr
      BY <1>8, <1>13
    <3>2. nr \in imap' \cap Inodes
      BY <1>4a
    <3>3. QED
      BY <1>9, <1>11, <1>12, <2>1, <3>1, <3>2
  <2>2. CASE t = 1
    <3>1. inode_table[1].cnt # 0
      BY RootHeld, <1>6 DEF InodeTables
    <3>2. /\ \A u \in Slots \ {1} : inode_table[u].num # 1
          /\ [inode_table[1].di EXCEPT !.size = 0] = [disk_inode[1] EXCEPT !.size = 0]
      BY <1>6, <1>7, <3>1 DEF Mirrors
    <3>3. [inode_table'[1].di EXCEPT !.size = 0] = [disk_inode'[1] EXCEPT !.size = 0]
      <4>1. inode_table[1].di \in DiskInodes /\ disk_inode[1] \in DiskInodes
        BY <1>6, <1>7 DEF InodeTables
      <4>2. QED
        BY <1>10, <1>11, <3>2, <4>1 DEF DiskInodes
    <3>4. \A u \in Slots \ {1} : inode_table'[u].num # 1
      BY <1>7, <1>12, <1>13, <3>2
    <3>5. inode_table'[1].num \in imap' \cap Inodes
      BY <1>4a, <1>7, <1>10
    <3>6. QED
      BY <1>10, <2>2, <3>1, <3>3, <3>4, <3>5
  <2>3. CASE t \notin {1, s}
    <3>1. inode_table'[t] = inode_table[t]
      BY <1>10, <2>3
    <3>2. CASE inode_table[t].cnt = 0
      BY <1>6, <3>1, <3>2 DEF Mirrors
    <3>3. CASE inode_table[t].cnt # 0
      <4>1. /\ inode_table[t].num \in imap \cap Inodes
            /\ \A u \in Slots \ {t} : inode_table[u].num # inode_table[t].num
            /\ inode_table[t].di = disk_inode[inode_table[t].num]
        BY <1>6, <2>3, <3>3 DEF Mirrors
      <4>2. inode_table[t].num \in Inodes \ {1, nr}
        BY <1>6, <1>7, <1>8, <2>3, <4>1
      <4>3. \A u \in Slots \ {t} : inode_table'[u].num # inode_table[t].num
        BY <1>12, <1>13, <4>1, <4>2
      <4>4. QED
        BY <1>4a, <1>11, <2>3, <3>1, <3>3, <4>1, <4>2, <4>3
    <3>4. QED
      BY <3>2, <3>3
  <2>4. QED
    BY <2>1, <2>2, <2>3
<1>16. Types'
  <2>1. imap' \subseteq 0..(NR_INODES - 1)
    BY <1>4a, <1>6, FsAssumption, SMTT(40) DEF Inodes
  <2>2. smap' \subseteq Bits
    BY <1>4, SectorsAllocated
  <2>3. QED
    BY <1>4, <1>5, <1>10, <1>11, <1>14, <2>1, <2>2 DEF IInv, Types, InodeTables
<1>17. Root'
  <2>1. disk_inode'[1].mode = disk_inode[1].mode
    BY <1>6, <1>7, <1>11 DEF DiskInodes
  <2>2. QED
    BY <1>4, <1>6, <1>10, <2>1 DEF Root, ROOT_INODE
<1>18. Directory'
  <2>1. DirSize' = new.size
    <3>1. inode_table[1].di \in DiskInodes
      BY <1>6, <1>7 DEF InodeTables
    <3>2. QED
      BY <1>10, <3>1 DEF DirSize, DiskInodes
  <2>2. QED
    BY <1>4, <1>5, <2>1 DEF Directory
<1>19. QED
  BY <1>14, <1>15, <1>16, <1>17, <1>18 DEF IInv, ObjectsStep

(***************************************************************************)
(* Closing                                                                 *)
(***************************************************************************)

\* Slots that are freed, or counted less, leave the others different and right.
LEMMA MirrorsFewer ==
    ASSUME NEW table \in InodeTables, NEW new \in InodeTables, NEW disk, NEW map,
           Mirrors(table, disk, map),
           \A s \in Slots : \/ new[s] = table[s]
                            \/ new[s].cnt = 0 /\ new[s].num = 0
                            \/ /\ new[s].cnt # 0 /\ table[s].cnt # 0
                               /\ new[s].num = table[s].num /\ new[s].di = table[s].di
    PROVE  Mirrors(new, disk, map)
<1> SUFFICES ASSUME NEW s \in Slots
             PROVE  IF new[s].cnt = 0 THEN new[s].num = 0
                    ELSE /\ new[s].num \in map \cap Inodes
                         /\ \A u \in Slots \ {s} : new[u].num # new[s].num
                         /\ IF s = 1 THEN [new[s].di EXCEPT !.size = 0] = [disk[1] EXCEPT !.size = 0]
                            ELSE new[s].di = disk[new[s].num]
  BY DEF Mirrors
<1>1. CASE new[s].cnt = 0
  <2>1. table[s].cnt = 0 => table[s].num = 0
    BY DEF Mirrors
  <2>2. QED
    BY <1>1, <2>1
<1>2. CASE new[s].cnt # 0
  <2>1. table[s].cnt # 0 /\ new[s].num = table[s].num /\ new[s].di = table[s].di
    BY <1>2
  <2>2. /\ table[s].num \in map \cap Inodes
        /\ \A u \in Slots \ {s} : table[u].num # table[s].num
        /\ IF s = 1 THEN [table[s].di EXCEPT !.size = 0] = [disk[1] EXCEPT !.size = 0]
           ELSE table[s].di = disk[table[s].num]
    BY <2>1 DEF Mirrors
  <2>3. \A u \in Slots : new[u].num = table[u].num \/ new[u].num = 0
    OBVIOUS
  <2>4. table[s].num # 0
    BY <2>2, Sizes
  <2>5. QED
    BY <1>2, <2>1, <2>2, <2>3, <2>4
<1>3. QED
  BY <1>1, <1>2

\* The descriptors in S of a process that are open file d, or lead to slot s.
Dropped(p, S, d) == {fd \in S : filp[p][fd] = d}
DroppedTo(p, S, s) == {fd \in S : filp[p][fd] # 0 /\ f_desc_table[filp[p][fd]].inode = s}

\* When a process gives up the descriptors in S, and every count is less by
\* those, the counts are exact again and what nobody uses is gone.
LEMMA Closed ==
    ASSUME IInv, NEW p \in Procs, Active(p), NEW S \in SUBSET Fds,
           filp' = [filp EXCEPT ![p] = [fd \in Fds |-> IF fd \in S THEN 0 ELSE filp[p][fd]]],
           \A q \in Procs \ {p} : life'[q] = life[q],
           life'[p] = "run" \/ (life'[p] = "free" /\ S = Fds),
           f_desc_table' \in [Descs -> [inode : {0} \cup Slots, pos : Nat, cnt : Nat, rdwr : BOOLEAN]],
           inode_table' \in InodeTables,
           \A d \in Descs :
              LET k == Cardinality(Dropped(p, S, d))
              IN  /\ f_desc_table'[d].cnt = f_desc_table[d].cnt - k
                  /\ f_desc_table'[d].inode = IF f_desc_table[d].cnt = k THEN 0 ELSE f_desc_table[d].inode,
           \A s \in Slots :
              inode_table'[s].cnt = inode_table[s].cnt - Cardinality(DroppedTo(p, S, s))
    PROVE  /\ filp' \in [Procs -> [Fds -> {0} \cup Descs]]
           /\ CountsExact' /\ Families' /\ Counted(inode_table)'
           /\ OpenOf' = [OpenOf EXCEPT ![p] = [fd \in Fds |-> IF fd \in S THEN 0 ELSE OpenOf[p][fd]]]
<1>1. /\ filp \in [Procs -> [Fds -> {0} \cup Descs]]
      /\ f_desc_table \in [Descs -> [inode : {0} \cup Slots, pos : Nat, cnt : Nat, rdwr : BOOLEAN]]
      /\ inode_table \in InodeTables
      /\ life[p] = "run"
  BY DEF IInv, Types, Active, InodeTables
<1>2. /\ filp' \in [Procs -> [Fds -> {0} \cup Descs]]
      /\ \A q \in Procs \ {p} : filp'[q] = filp[q]
      /\ \A fd \in Fds : filp'[p][fd] = IF fd \in S THEN 0 ELSE filp[p][fd]
  BY <1>1
<1>3. Told' = Told /\ p \in Told /\ Told \subseteq Procs
  BY <1>1 DEF Told
<1>4. 0 \notin Descs /\ 0 \notin Slots
  BY Sizes
<1>5. ASSUME NEW d \in Descs
      PROVE  /\ {p} \X Dropped(p, S, d) \subseteq Users(d)
             /\ Users(d)' = Users(d) \ ({p} \X Dropped(p, S, d))
             /\ Cardinality(Users(d)') = Cardinality(Users(d)) - Cardinality(Dropped(p, S, d))
  <2>1. {p} \X Dropped(p, S, d) \subseteq Users(d)
    BY <1>3 DEF Dropped, Users
  <2>2. \A u \in Told \X Fds : filp'[u[1]][u[2]] = d <=>
            filp[u[1]][u[2]] = d /\ u \notin {p} \X Dropped(p, S, d)
    <3> SUFFICES ASSUME NEW q \in Told, NEW fd \in Fds
                 PROVE  filp'[q][fd] = d <=> filp[q][fd] = d /\ <<q, fd>> \notin {p} \X Dropped(p, S, d)
      OBVIOUS
    <3>1. CASE q = p
      BY <1>2, <1>4, <3>1 DEF Dropped
    <3>2. CASE q # p
      BY <1>2, <1>3, <3>2
    <3>3. QED
      BY <3>1, <3>2
  <2>3. Users(d)' = Users(d) \ ({p} \X Dropped(p, S, d))
    BY <1>3, <2>2 DEF Users
  <2>4. Dropped(p, S, d) \in SUBSET Fds
    BY DEF Dropped
  <2>5. QED
    BY <2>1, <2>3, <2>4, Counts, PairsRemoved
<1>6. CountsExact'
  <2> SUFFICES ASSUME NEW d \in Descs
               PROVE  /\ f_desc_table'[d].cnt = Cardinality(Users(d)')
                      /\ f_desc_table'[d].inode = 0 <=> f_desc_table'[d].cnt = 0
    BY DEF CountsExact
  <2>1. /\ f_desc_table[d].cnt = Cardinality(Users(d)) /\ Cardinality(Users(d)) \in Nat
        /\ f_desc_table[d].inode = 0 <=> f_desc_table[d].cnt = 0
    BY Counts DEF IInv, CountsExact
  <2>2. Cardinality(Dropped(p, S, d)) \in Nat
    <3>1. Dropped(p, S, d) \in SUBSET Fds
      BY DEF Dropped
    <3>2. QED
      BY <3>1, PairsOf, FS_CardinalityType
  <2>3. QED
    BY <1>5, <2>1, <2>2
<1>7. ASSUME NEW s \in Slots
      PROVE  Cardinality(Holders(s)') = Cardinality(Holders(s)) - Cardinality(DroppedTo(p, S, s))
  <2>1. {p} \X DroppedTo(p, S, s) \subseteq Holders(s)
    BY <1>3 DEF DroppedTo, Holders
  <2>2. \A u \in Told \X Fds : u \in Holders(s)' <=>
            u \in Holders(s) /\ u \notin {p} \X DroppedTo(p, S, s)
    <3> SUFFICES ASSUME NEW q \in Told, NEW fd \in Fds
                 PROVE  <<q, fd>> \in Holders(s)' <=>
                            <<q, fd>> \in Holders(s) /\ <<q, fd>> \notin {p} \X DroppedTo(p, S, s)
      OBVIOUS
    <3>1. <<q, fd>> \in Holders(s) <=> filp[q][fd] # 0 /\ f_desc_table[filp[q][fd]].inode = s
      BY DEF Holders
    <3>2. <<q, fd>> \in Holders(s)' <=> filp'[q][fd] # 0 /\ f_desc_table'[filp'[q][fd]].inode = s
      BY <1>3 DEF Holders
    <3>3. <<q, fd>> \in {p} \X DroppedTo(p, S, s) <=>
              q = p /\ fd \in S /\ filp[q][fd] # 0 /\ f_desc_table[filp[q][fd]].inode = s
      BY DEF DroppedTo
    <3>4. filp'[q][fd] = IF q = p /\ fd \in S THEN 0 ELSE filp[q][fd]
      BY <1>2, <1>3
    <3>5. CASE q = p /\ fd \in S
      BY <3>1, <3>2, <3>3, <3>4, <3>5
    <3>6. CASE ~(q = p /\ fd \in S)
      <4>1. filp'[q][fd] = filp[q][fd]
        BY <3>4, <3>6
      <4>2. CASE filp[q][fd] = 0
        BY <3>1, <3>2, <4>1, <4>2
      <4>3. CASE filp[q][fd] # 0
        <5>1. PICK d \in Descs : d = filp[q][fd]
          BY <1>1, <1>3, <4>3
        <5>2. <<q, fd>> \in Users(d)'
          BY <1>3, <4>1, <5>1 DEF Users
        <5>3. Users(d)' \subseteq Procs \X Fds
          BY <1>5, Counts
        <5>4. Cardinality(Users(d)') >= 1
          BY <5>2, <5>3, SomeIn
        <5>5. f_desc_table[d].cnt # Cardinality(Dropped(p, S, d))
          BY <1>5, <5>4, Counts DEF IInv, CountsExact
        <5>6. f_desc_table'[d].inode = f_desc_table[d].inode
          BY <5>5
        <5>7. QED
          BY <3>1, <3>2, <3>3, <3>6, <4>1, <5>1, <5>6
      <4>4. QED
        BY <4>2, <4>3
    <3>7. QED
      BY <3>5, <3>6
  <2>3. Holders(s) \subseteq Told \X Fds /\ Holders(s)' \subseteq Told \X Fds
    BY <1>3 DEF Holders
  <2>4. Holders(s)' = Holders(s) \ ({p} \X DroppedTo(p, S, s))
    BY <2>2, <2>3
  <2>5. DroppedTo(p, S, s) \in SUBSET Fds
    BY DEF DroppedTo
  <2>6. QED
    BY <2>1, <2>4, <2>5, Counts, PairsRemoved
<1>8. Counted(inode_table)'
  <2> SUFFICES ASSUME NEW s \in Slots
               PROVE  inode_table'[s].cnt >= Cardinality(Holders(s)') + (IF s = 1 THEN 1 ELSE 0)
    BY DEF Counted
  <2>1. /\ inode_table[s].cnt >= Cardinality(Holders(s)) + (IF s = 1 THEN 1 ELSE 0)
        /\ inode_table[s].cnt \in Nat
    BY <1>1 DEF IInv, Counted, InodeTables
  <2>2. Cardinality(DroppedTo(p, S, s)) \in Nat
    <3>1. DroppedTo(p, S, s) \in SUBSET Fds
      BY DEF DroppedTo
    <3>2. QED
      BY <3>1, PairsOf, FS_CardinalityType
  <2>3. QED
    BY <1>7, <2>1, <2>2, Counts
<1>9. Families'
  <2>1. \A q \in Procs : life[q] \in {"free", "forking", "born"} => q # p
    BY <1>1
  <2>2. life'[p] = "free" => filp'[p] = [fd \in Fds |-> 0]
    BY <1>2
  <2>3. /\ \A q \in Procs : life'[q] = "born" => q # p /\ life[q] = "born"
        /\ \A q \in Procs : life[q] = "forking" => life'[q] = "forking" /\ filp'[q] = filp[q]
    BY <1>2, <2>1
  <2>4. QED
    BY <1>2, <2>2, <2>3 DEF IInv, Families
<1>10. OpenOf' = [OpenOf EXCEPT ![p] = [fd \in Fds |-> IF fd \in S THEN 0 ELSE OpenOf[p][fd]]]
  <2> DEFINE none == [f \in Fds |-> 0]
             old(q) == IF life[q] = "born" THEN none ELSE filp[q]
             now(q) == IF life'[q] = "born" THEN none ELSE filp'[q]
  <2>1. OpenOf = [q \in Procs |-> old(q)] /\ OpenOf' = [q \in Procs |-> now(q)]
    BY DEF OpenOf
  <2>2. \A q \in Procs \ {p} : now(q) = old(q)
    BY <1>2
  <2>3. now(p) = [fd \in Fds |-> IF fd \in S THEN 0 ELSE filp[p][fd]] /\ old(p) = filp[p]
    BY <1>1
  <2> HIDE DEF now, old
  <2>4. QED
    BY <2>1, <2>2, <2>3
<1>11. QED
  BY <1>2, <1>6, <1>8, <1>9, <1>10

\* A file stays open as long as somebody has a descriptor of it, and no longer.
LEMMA SettledFiles ==
    ASSUME IInv, CountsExact', Counted(inode_table)',
           filp' \in [Procs -> [Fds -> {0} \cup Descs]],
           f_desc_table' \in [Descs -> [inode : {0} \cup Slots, pos : Nat, cnt : Nat, rdwr : BOOLEAN]],
           inode_table' \in InodeTables,
           \A d \in Descs : f_desc_table'[d].inode \in {0, f_desc_table[d].inode},
           \A s \in Slots : inode_table'[s].cnt > 0 => inode_table'[s].num = inode_table[s].num
    PROVE  FileOf' = [d \in Descs |-> IF \E q \in Procs, fd \in Fds : OpenOf'[q][fd] = d
                                      THEN FileOf[d] ELSE 0]
<1>1. 0 \notin Descs /\ 0 \notin Slots
  BY Sizes
<1>2. ASSUME NEW d \in Descs
      PROVE  FileOf'[d] = IF \E q \in Procs, fd \in Fds : OpenOf'[q][fd] = d THEN FileOf[d] ELSE 0
  <2>1. /\ FileOf'[d] = IF f_desc_table'[d].inode = 0 THEN 0 ELSE inode_table'[f_desc_table'[d].inode].num
        /\ FileOf[d] = IF f_desc_table[d].inode = 0 THEN 0 ELSE inode_table[f_desc_table[d].inode].num
    BY DEF FileOf
  <2>2. \A q \in Procs, fd \in Fds : OpenOf'[q][fd] = d <=> <<q, fd>> \in Users(d)'
    <3>1. \A q \in Procs, fd \in Fds : OpenOf'[q][fd] = d <=> life'[q] # "born" /\ filp'[q][fd] = d
      BY <1>1 DEF OpenOf
    <3>2. \A q \in Procs, fd \in Fds : <<q, fd>> \in Users(d)' <=> life'[q] # "born" /\ filp'[q][fd] = d
      BY DEF Users, Told
    <3>3. QED
      BY <3>1, <3>2
  <2>3. /\ f_desc_table'[d].cnt = Cardinality(Users(d)')
        /\ f_desc_table'[d].inode = 0 <=> f_desc_table'[d].cnt = 0
    BY DEF CountsExact
  <2>4. Users(d)' \subseteq Procs \X Fds
    BY DEF Users, Told
  <2>5. CASE \E q \in Procs, fd \in Fds : OpenOf'[q][fd] = d
    <3>1. PICK q \in Procs, fd \in Fds : <<q, fd>> \in Users(d)'
      BY <2>2, <2>5
    <3>2. Cardinality(Users(d)') >= 1
      BY <2>4, <3>1, SomeIn
    <3>3. f_desc_table'[d].inode # 0
      BY <2>3, <3>2
    <3>4. PICK s \in Slots : s = f_desc_table'[d].inode /\ s = f_desc_table[d].inode
      BY <3>3
    <3>5. <<q, fd>> \in Holders(s)' /\ Holders(s)' \subseteq Procs \X Fds
      BY <1>1, <3>1, <3>4 DEF Users, Holders, Told
    <3>6. Cardinality(Holders(s)') >= 1 /\ Cardinality(Holders(s)') \in Nat
      BY <3>5, SomeIn, PairsFinite
    <3>7. inode_table'[s].cnt >= Cardinality(Holders(s)') + (IF s = 1 THEN 1 ELSE 0)
      BY DEF Counted
    <3>8. inode_table'[s].cnt > 0
      BY <3>6, <3>7 DEF InodeTables
    <3>9. QED
      BY <2>1, <2>5, <3>3, <3>4, <3>8
  <2>6. CASE ~\E q \in Procs, fd \in Fds : OpenOf'[q][fd] = d
    <3>1. Users(d)' = {}
      BY <2>2, <2>4, <2>6
    <3>2. f_desc_table'[d].cnt = 0
      BY <2>3, <3>1, FS_EmptySet
    <3>3. QED
      BY <2>1, <2>3, <2>6, <3>2
  <2>7. QED
    BY <2>5, <2>6
<1> DEFINE now(d) == IF f_desc_table'[d].inode = 0 THEN 0 ELSE inode_table'[f_desc_table'[d].inode].num
<1>3. FileOf' = [d \in Descs |-> now(d)]
  BY DEF FileOf
<1> HIDE DEF now
<1>4. \A d \in Descs : FileOf'[d] = now(d)
  BY <1>3
<1>5. QED
  BY <1>2, <1>3, <1>4

\* An open file with k references less.
LEMMA DescDropped ==
    ASSUME IInv, NEW d \in Descs, NEW k \in Nat, k <= f_desc_table[d].cnt
    PROVE  /\ DropDesc(d, k) \in [Descs -> [inode : {0} \cup Slots, pos : Nat, cnt : Nat, rdwr : BOOLEAN]]
           /\ DropDesc(d, k)[d].cnt = f_desc_table[d].cnt - k
           /\ DropDesc(d, k)[d].inode = IF f_desc_table[d].cnt = k THEN 0 ELSE f_desc_table[d].inode
           /\ \A e \in Descs \ {d} : DropDesc(d, k)[e] = f_desc_table[e]
<1>1. f_desc_table \in [Descs -> [inode : {0} \cup Slots, pos : Nat, cnt : Nat, rdwr : BOOLEAN]]
  BY DEF IInv, Types
<1>2. ClosedDesc \in [inode : {0} \cup Slots, pos : Nat, cnt : Nat, rdwr : BOOLEAN]
      /\ ClosedDesc.cnt = 0 /\ ClosedDesc.inode = 0
  BY DEF ClosedDesc
<1>3. CASE f_desc_table[d].cnt = k
  <2>1. DropDesc(d, k) = [f_desc_table EXCEPT ![d] = ClosedDesc]
    BY <1>3 DEF DropDesc
  <2>2. QED
    BY <1>1, <1>2, <1>3, <2>1
<1>4. CASE f_desc_table[d].cnt # k
  <2>1. PICK new : new = [f_desc_table[d] EXCEPT !.cnt = f_desc_table[d].cnt - k]
    OBVIOUS
  <2>2. DropDesc(d, k) = [f_desc_table EXCEPT ![d] = new]
    BY <1>4, <2>1 DEF DropDesc
  <2>3. f_desc_table[d].cnt - k \in Nat
    BY <1>1
  <2>4. /\ new \in [inode : {0} \cup Slots, pos : Nat, cnt : Nat, rdwr : BOOLEAN]
        /\ new.cnt = f_desc_table[d].cnt - k /\ new.inode = f_desc_table[d].inode
    BY <1>1, <2>1, <2>3
  <2>5. QED
    BY <1>1, <1>4, <2>2, <2>4
<1>5. QED
  BY <1>3, <1>4

\* Closing a descriptor.
LEMMA CloseStep ==
    ASSUME IInv, NEW p \in Procs, NEW fd \in Fds, do_close(p, fd), UNCHANGED work
    PROVE  IInv' /\ ObjectsStep
<1>1. /\ Active(p) /\ filp[p][fd] # 0 /\ filp' = [filp EXCEPT ![p][fd] = 0]
      /\ UNCHANGED <<imap, smap, disk_inode, dir, life>>
  BY DEF do_close, diskVars
<1>2. PICK d \in Descs, s \in Slots : d = filp[p][fd] /\ s = f_desc_table[d].inode
  BY <1>1, Opened
<1>3. f_desc_table[d].cnt >= 1 /\ inode_table[s].cnt >= 1 /\ (s = 1 => inode_table[s].cnt >= 2)
  BY <1>1, <1>2, Opened, InodeHeld, Sizes
<1>4. inode_table' = Released(inode_table, s, 1) /\ f_desc_table' = DropDesc(d, 1)
  BY <1>2 DEF do_close
<1>5. /\ filp \in [Procs -> [Fds -> {0} \cup Descs]]
      /\ f_desc_table \in [Descs -> [inode : {0} \cup Slots, pos : Nat, cnt : Nat, rdwr : BOOLEAN]]
      /\ inode_table \in InodeTables /\ Mirrors(inode_table, disk_inode, imap)
      /\ life[p] = "run"
  BY <1>1 DEF IInv, Types, InodeTables, Active
<1>6. /\ f_desc_table' \in [Descs -> [inode : {0} \cup Slots, pos : Nat, cnt : Nat, rdwr : BOOLEAN]]
      /\ f_desc_table'[d].cnt = f_desc_table[d].cnt - 1
      /\ f_desc_table'[d].inode = IF f_desc_table[d].cnt = 1 THEN 0 ELSE f_desc_table[d].inode
      /\ \A e \in Descs \ {d} : f_desc_table'[e] = f_desc_table[e]
  BY <1>3, <1>4, DescDropped
<1>7. /\ inode_table' \in InodeTables
      /\ Mirrors(inode_table', disk_inode, imap)
      /\ inode_table'[s].cnt = inode_table[s].cnt - 1
      /\ \A t \in Slots \ {s} : inode_table'[t] = inode_table[t]
      /\ inode_table[s].cnt # 1 => /\ inode_table'[s].num = inode_table[s].num
                                   /\ inode_table'[s].di = inode_table[s].di
  BY <1>3, <1>4, <1>5, PutInode
<1>8. filp' = [filp EXCEPT ![p] = [f \in Fds |-> IF f \in {fd} THEN 0 ELSE filp[p][f]]]
  BY <1>1, <1>5
<1>9. \A e \in Descs :
         LET k == Cardinality(Dropped(p, {fd}, e))
         IN  /\ f_desc_table'[e].cnt = f_desc_table[e].cnt - k
             /\ f_desc_table'[e].inode = IF f_desc_table[e].cnt = k THEN 0 ELSE f_desc_table[e].inode
  <2> SUFFICES ASSUME NEW e \in Descs, NEW k, k = Cardinality(Dropped(p, {fd}, e))
               PROVE  /\ f_desc_table'[e].cnt = f_desc_table[e].cnt - k
                      /\ f_desc_table'[e].inode = IF f_desc_table[e].cnt = k THEN 0 ELSE f_desc_table[e].inode
    OBVIOUS
  <2>1. CASE e = d
    <3>1. Dropped(p, {fd}, e) = {fd}
      BY <1>2, <2>1 DEF Dropped
    <3>2. k = 1
      BY <3>1, FS_Singleton
    <3>3. QED
      BY <1>6, <2>1, <3>2
  <2>2. CASE e # d
    <3>1. Dropped(p, {fd}, e) = {}
      BY <1>2, <2>2 DEF Dropped
    <3>2. k = 0
      BY <3>1, FS_EmptySet
    <3>3. f_desc_table'[e] = f_desc_table[e] /\ f_desc_table[e].cnt \in Nat
      BY <1>5, <1>6, <2>2
    <3>4. f_desc_table[e].inode = 0 <=> f_desc_table[e].cnt = 0
      BY DEF IInv, CountsExact
    <3>5. QED
      BY <3>2, <3>3, <3>4
  <2>3. QED
    BY <2>1, <2>2
<1>10. \A t \in Slots : inode_table'[t].cnt = inode_table[t].cnt - Cardinality(DroppedTo(p, {fd}, t))
  <2> SUFFICES ASSUME NEW t \in Slots
               PROVE  inode_table'[t].cnt = inode_table[t].cnt - Cardinality(DroppedTo(p, {fd}, t))
    OBVIOUS
  <2>1. CASE t = s
    <3>1. DroppedTo(p, {fd}, t) = {fd}
      BY <1>1, <1>2, <2>1 DEF DroppedTo
    <3>2. Cardinality(DroppedTo(p, {fd}, t)) = 1
      BY <3>1, FS_Singleton
    <3>3. inode_table'[t].cnt = inode_table[t].cnt - 1 /\ inode_table[t].cnt \in Nat
      BY <1>5, <1>7, <2>1 DEF InodeTables
    <3>4. QED
      BY <3>2, <3>3, Zenon
  <2>2. CASE t # s
    <3>1. DroppedTo(p, {fd}, t) = {}
      BY <1>2, <2>2 DEF DroppedTo
    <3>2. inode_table'[t] = inode_table[t] /\ inode_table[t].cnt \in Nat
      BY <1>5, <1>7, <2>2 DEF InodeTables
    <3>3. Cardinality(DroppedTo(p, {fd}, t)) = 0
      BY <3>1, FS_EmptySet
    <3>4. QED
      BY <3>2, <3>3
  <2>3. QED
    BY <2>1, <2>2
<1>11. /\ filp' \in [Procs -> [Fds -> {0} \cup Descs]]
       /\ CountsExact' /\ Families' /\ Counted(inode_table)'
       /\ OpenOf' = [OpenOf EXCEPT ![p] = [f \in Fds |-> IF f \in {fd} THEN 0 ELSE OpenOf[p][f]]]
  <2>1. {fd} \in SUBSET Fds /\ life'[p] = "run" /\ \A q \in Procs \ {p} : life'[q] = life[q]
    BY <1>1, <1>5
  <2>2. QED
    BY <1>1, <1>6, <1>7, <1>8, <1>9, <1>10, <2>1, Closed
<1>12. \A t \in Slots : inode_table'[t].cnt > 0 => inode_table'[t].num = inode_table[t].num
  BY <1>5, <1>7 DEF InodeTables
<1>13. FileOf' = [e \in Descs |-> IF \E q \in Procs, f \in Fds : OpenOf'[q][f] = e
                                  THEN FileOf[e] ELSE 0]
  <2>1. \A e \in Descs : f_desc_table'[e].inode \in {0, f_desc_table[e].inode}
    BY <1>6
  <2>2. QED
    BY <1>6, <1>7, <1>11, <1>12, <2>1, SettledFiles
<1>14. Objects!Close(p, fd)
  <2>1. OpenOf[p] = filp[p] /\ OpenOf[p][fd] # 0
    BY <1>1, <1>5 DEF OpenOf
  <2>2. [f \in Fds |-> IF f \in {fd} THEN 0 ELSE OpenOf[p][f]] = [OpenOf[p] EXCEPT ![fd] = 0]
    BY <1>5, <2>1
  <2>3. OpenOf' = [OpenOf EXCEPT ![p][fd] = 0]
    BY <1>11, <2>2
  <2>4. QED
    BY <1>13, <2>1, <2>3 DEF Objects!Close, Objects!Settle, Objects!Referenced, OpenOf, FileOf
<1>15. Types'
  BY <1>1, <1>6, <1>7, <1>11 DEF IInv, Types, InodeTables
<1>16. Mirrors(inode_table, disk_inode, imap)'
  BY <1>1, <1>7 DEF Mirrors
<1>17. inode_table'[1].num = inode_table[1].num /\ inode_table'[1].di = inode_table[1].di
  BY <1>3, <1>7, Sizes
<1>18. Root' /\ Directory'
  BY <1>1, <1>17 DEF IInv, Root, Directory, DirSize
<1>19. QED
  BY <1>11, <1>14, <1>15, <1>16, <1>18 DEF IInv, ObjectsStep, Objects!Next

\* A process exits: all its descriptors are closed at once.
LEMMA ExitStep ==
    ASSUME IInv, NEW p \in Procs, fs_exit(p), UNCHANGED work
    PROVE  IInv' /\ ObjectsStep
<1>1. /\ Active(p) /\ filp' = [filp EXCEPT ![p] = [fd \in Fds |-> 0]]
      /\ life' = [life EXCEPT ![p] = "free"]
      /\ UNCHANGED <<imap, smap, disk_inode, dir>>
      /\ f_desc_table' = [d \in Descs |-> IF DescRefs(p, d) = 0 THEN f_desc_table[d]
                                          ELSE DropDesc(d, DescRefs(p, d))[d]]
      /\ inode_table' = [s \in Slots |-> IF InodeRefs(p, s) = 0 THEN inode_table[s]
                                         ELSE Released(inode_table, s, InodeRefs(p, s))[s]]
  BY DEF fs_exit, diskVars
<1>2. /\ filp \in [Procs -> [Fds -> {0} \cup Descs]]
      /\ f_desc_table \in [Descs -> [inode : {0} \cup Slots, pos : Nat, cnt : Nat, rdwr : BOOLEAN]]
      /\ inode_table \in InodeTables /\ Mirrors(inode_table, disk_inode, imap)
      /\ life[p] = "run" /\ life \in [Procs -> {"free", "run", "forking", "born"}]
  BY <1>1 DEF IInv, Types, InodeTables, Active
<1>3. p \in Told
  BY <1>2 DEF Told
<1>4. ASSUME NEW d \in Descs
      PROVE  /\ DescRefs(p, d) = Cardinality(Dropped(p, Fds, d)) /\ DescRefs(p, d) \in Nat
             /\ DescRefs(p, d) <= f_desc_table[d].cnt
  <2>1. Dropped(p, Fds, d) \in SUBSET Fds /\ {p} \X Dropped(p, Fds, d) \subseteq Users(d)
    BY <1>3 DEF Dropped, Users
  <2>2. Cardinality(Dropped(p, Fds, d)) <= Cardinality(Users(d))
    BY <2>1, Counts, PairsRemoved
  <2>3. Cardinality(Dropped(p, Fds, d)) \in Nat
    BY <2>1, PairsOf, FS_CardinalityType
  <2>4. DescRefs(p, d) = Cardinality(Dropped(p, Fds, d))
    BY DEF DescRefs, Dropped
  <2>5. QED
    BY <2>2, <2>3, <2>4 DEF IInv, CountsExact
<1>5. ASSUME NEW s \in Slots
      PROVE  /\ InodeRefs(p, s) = Cardinality(DroppedTo(p, Fds, s)) /\ InodeRefs(p, s) \in Nat
             /\ InodeRefs(p, s) + (IF s = 1 THEN 1 ELSE 0) <= inode_table[s].cnt
             /\ inode_table[s].cnt \in Nat
  <2>1. DroppedTo(p, Fds, s) \in SUBSET Fds /\ {p} \X DroppedTo(p, Fds, s) \subseteq Holders(s)
    BY <1>3 DEF DroppedTo, Holders
  <2>2. Cardinality(DroppedTo(p, Fds, s)) <= Cardinality(Holders(s))
    BY <2>1, Counts, PairsRemoved
  <2>3. Cardinality(DroppedTo(p, Fds, s)) \in Nat
    BY <2>1, PairsOf, FS_CardinalityType
  <2>4. InodeRefs(p, s) = Cardinality(DroppedTo(p, Fds, s))
    BY DEF InodeRefs, DroppedTo
  <2>5. inode_table[s].cnt >= Cardinality(Holders(s)) + (IF s = 1 THEN 1 ELSE 0)
    BY DEF IInv, Counted
  <2>6. inode_table[s].cnt \in Nat
    BY <1>2 DEF InodeTables
  <2>7. QED
    BY <2>2, <2>3, <2>4, <2>5, <2>6, Counts
<1>6. ASSUME NEW d \in Descs
      PROVE  /\ f_desc_table'[d] \in [inode : {0} \cup Slots, pos : Nat, cnt : Nat, rdwr : BOOLEAN]
             /\ f_desc_table'[d].cnt = f_desc_table[d].cnt - DescRefs(p, d)
             /\ f_desc_table'[d].inode = IF f_desc_table[d].cnt = DescRefs(p, d) THEN 0
                                         ELSE f_desc_table[d].inode
  <2>1. f_desc_table'[d] = IF DescRefs(p, d) = 0 THEN f_desc_table[d]
                           ELSE DropDesc(d, DescRefs(p, d))[d]
    BY <1>1
  <2>2. CASE DescRefs(p, d) = 0
    <3>1. f_desc_table'[d] = f_desc_table[d] /\ f_desc_table[d].cnt \in Nat
      BY <1>2, <2>1, <2>2
    <3>2. f_desc_table[d].inode = 0 <=> f_desc_table[d].cnt = 0
      BY DEF IInv, CountsExact
    <3>3. QED
      BY <1>2, <2>2, <3>1, <3>2
  <2>3. CASE DescRefs(p, d) # 0
    <3>1. PICK k \in Nat : k = DescRefs(p, d) /\ k <= f_desc_table[d].cnt
      BY <1>4
    <3>2. f_desc_table'[d] = DropDesc(d, k)[d]
      BY <2>1, <2>3, <3>1
    <3>3. /\ DropDesc(d, k) \in [Descs -> [inode : {0} \cup Slots, pos : Nat, cnt : Nat, rdwr : BOOLEAN]]
          /\ DropDesc(d, k)[d].cnt = f_desc_table[d].cnt - k
          /\ DropDesc(d, k)[d].inode = IF f_desc_table[d].cnt = k THEN 0 ELSE f_desc_table[d].inode
      BY <3>1, DescDropped
    <3>4. QED
      BY <3>1, <3>2, <3>3
  <2>4. QED
    BY <2>2, <2>3
<1>7. ASSUME NEW s \in Slots
      PROVE  /\ inode_table'[s] \in [num : {0} \cup Inodes, cnt : Nat, di : DiskInodes]
             /\ inode_table'[s].cnt = inode_table[s].cnt - InodeRefs(p, s)
             /\ \/ inode_table'[s] = inode_table[s]
                \/ inode_table'[s].cnt = 0 /\ inode_table'[s].num = 0
                \/ /\ inode_table'[s].cnt # 0 /\ inode_table[s].cnt # 0
                   /\ inode_table'[s].num = inode_table[s].num /\ inode_table'[s].di = inode_table[s].di
  <2>1. inode_table'[s] = IF InodeRefs(p, s) = 0 THEN inode_table[s]
                          ELSE Released(inode_table, s, InodeRefs(p, s))[s]
    BY <1>1
  <2>2. CASE InodeRefs(p, s) = 0
    BY <1>2, <2>1, <2>2 DEF InodeTables
  <2>3. CASE InodeRefs(p, s) # 0
    <3>1. PICK k \in Nat \ {0}, table \in InodeTables :
             k = InodeRefs(p, s) /\ k <= inode_table[s].cnt /\ table = inode_table
      BY <1>2, <1>5, <2>3
    <3>2. inode_table'[s] = Released(table, s, k)[s]
      BY <2>1, <2>3, <3>1
    <3>3. PICK R : R = Released(table, s, k)
      OBVIOUS
    <3>4. /\ R \in InodeTables /\ Mirrors(R, disk_inode, imap)
          /\ R[s].cnt = table[s].cnt - k
          /\ table[s].cnt # k => R[s].num = table[s].num /\ R[s].di = table[s].di
      BY <1>2, <3>1, <3>3, PutInode
    <3>5. R[s].cnt = 0 => R[s].num = 0
      BY <3>4 DEF Mirrors
    <3>6. table[s].cnt \in Nat /\ R[s] \in [num : {0} \cup Inodes, cnt : Nat, di : DiskInodes]
      BY <3>4 DEF InodeTables
    <3>7. QED
      BY <3>1, <3>2, <3>3, <3>4, <3>5, <3>6
  <2>4. QED
    BY <2>2, <2>3
<1>8. f_desc_table' \in [Descs -> [inode : {0} \cup Slots, pos : Nat, cnt : Nat, rdwr : BOOLEAN]]
  BY <1>1, <1>6
<1>9. inode_table' \in InodeTables
  BY <1>1, <1>7 DEF InodeTables
<1>10. \A d \in Descs :
          LET k == Cardinality(Dropped(p, Fds, d))
          IN  /\ f_desc_table'[d].cnt = f_desc_table[d].cnt - k
              /\ f_desc_table'[d].inode = IF f_desc_table[d].cnt = k THEN 0 ELSE f_desc_table[d].inode
  BY <1>4, <1>6
<1>11. \A s \in Slots : inode_table'[s].cnt = inode_table[s].cnt - Cardinality(DroppedTo(p, Fds, s))
  BY <1>5, <1>7
<1>12. filp' = [filp EXCEPT ![p] = [fd \in Fds |-> IF fd \in Fds THEN 0 ELSE filp[p][fd]]]
  BY <1>1
<1>13. /\ filp' \in [Procs -> [Fds -> {0} \cup Descs]]
       /\ CountsExact' /\ Families' /\ Counted(inode_table)'
       /\ OpenOf' = [OpenOf EXCEPT ![p] = [fd \in Fds |-> IF fd \in Fds THEN 0 ELSE OpenOf[p][fd]]]
  <2>1. Fds \in SUBSET Fds /\ life'[p] = "free" /\ \A q \in Procs \ {p} : life'[q] = life[q]
    BY <1>1, <1>2
  <2>2. QED
    BY <1>1, <1>8, <1>9, <1>10, <1>11, <1>12, <2>1, Closed, ZenonT(40)
<1>14. FileOf' = [d \in Descs |-> IF \E q \in Procs, fd \in Fds : OpenOf'[q][fd] = d
                                  THEN FileOf[d] ELSE 0]
  <2>1. \A d \in Descs : f_desc_table'[d].inode \in {0, f_desc_table[d].inode}
    BY <1>6
  <2>2. \A s \in Slots : inode_table'[s].cnt > 0 => inode_table'[s].num = inode_table[s].num
    BY <1>7
  <2>3. QED
    BY <1>8, <1>9, <1>13, <2>1, <2>2, SettledFiles
<1>15. Objects!Exit(p)
  <2>1. OpenOf' = [OpenOf EXCEPT ![p] = [fd \in Fds |-> 0]]
    BY <1>13
  <2>2. QED
    BY <1>14, <2>1 DEF Objects!Exit, Objects!Settle, Objects!Referenced, OpenOf, FileOf
<1>16. Types'
  <2>1. life' \in [Procs -> {"free", "run", "forking", "born"}]
    BY <1>1, <1>2
  <2>2. QED
    BY <1>1, <1>8, <1>9, <1>13, <2>1 DEF IInv, Types, InodeTables
<1>17. Mirrors(inode_table, disk_inode, imap)'
  <2>1. PICK old \in InodeTables, new \in InodeTables : old = inode_table /\ new = inode_table'
    BY <1>2, <1>9
  <2>2. \A s \in Slots : \/ new[s] = old[s]
                         \/ new[s].cnt = 0 /\ new[s].num = 0
                         \/ /\ new[s].cnt # 0 /\ old[s].cnt # 0
                            /\ new[s].num = old[s].num /\ new[s].di = old[s].di
    BY <1>7, <2>1
  <2>3. Mirrors(new, disk_inode, imap)
    BY <1>2, <2>1, <2>2, MirrorsFewer
  <2>4. QED
    BY <1>1, <2>1, <2>3 DEF Mirrors
<1>18. inode_table'[1].num = inode_table[1].num /\ inode_table'[1].di = inode_table[1].di
  <2>1. 1 \in Slots
    BY Sizes
  <2>2. inode_table'[1].cnt # 0
    BY <1>5, <1>7, <2>1
  <2>3. QED
    BY <1>7, <2>1, <2>2
<1>19. Root' /\ Directory'
  BY <1>1, <1>18 DEF IInv, Root, Directory, DirSize
<1>20. QED
  BY <1>13, <1>15, <1>16, <1>17, <1>19 DEF IInv, ObjectsStep, Objects!Next

(***************************************************************************)
(* Fork                                                                    *)
(***************************************************************************)

\* MM copies the descriptors; FS does not know of the child yet.
LEMMA MmForkStep ==
    ASSUME IInv, NEW p \in Procs, NEW c \in Procs, MmIdle, MmFork(p, c), UNCHANGED work
    PROVE  IInv' /\ ObjectsStep
<1>1. /\ Active(p) /\ life[c] = "free" /\ life[p] = "run"
      /\ filp' = [filp EXCEPT ![c] = filp[p]]
      /\ life' = [life EXCEPT ![p] = "forking", ![c] = "born"]
      /\ UNCHANGED <<f_desc_table, inode_table, imap, smap, disk_inode, dir>>
  BY DEF MmFork, Active, diskVars
<1>2. /\ filp \in [Procs -> [Fds -> {0} \cup Descs]]
      /\ life \in [Procs -> {"free", "run", "forking", "born"}]
      /\ f_desc_table \in [Descs -> [inode : {0} \cup Slots, pos : Nat, cnt : Nat, rdwr : BOOLEAN]]
  BY DEF IInv, Types
<1>3. /\ p # c /\ life'[p] = "forking" /\ life'[c] = "born"
      /\ \A q \in Procs \ {p, c} : life'[q] = life[q]
      /\ \A q \in Procs \ {c} : filp'[q] = filp[q]
      /\ filp'[c] = filp[p] /\ filp[c] = [fd \in Fds |-> 0]
      /\ filp' \in [Procs -> [Fds -> {0} \cup Descs]]
      /\ life' \in [Procs -> {"free", "run", "forking", "born"}]
  BY <1>1, <1>2 DEF IInv, Families
<1>4. \A q \in Procs : life[q] # "born"
  BY DEF IInv, Families, MmIdle
<1>5. Told = Procs /\ Told' = Procs \ {c}
  BY <1>3, <1>4 DEF Told
<1>6. 0 \notin Descs
  BY Sizes
<1>7. \A d \in Descs : Users(d)' = Users(d)
  BY <1>3, <1>5, <1>6 DEF Users
<1>8. \A s \in Slots : Holders(s)' = Holders(s)
  BY <1>1, <1>3, <1>5 DEF Holders
<1>9. CountsExact'
  <2> SUFFICES ASSUME NEW d \in Descs
               PROVE  /\ f_desc_table'[d].cnt = Cardinality(Users(d)')
                      /\ f_desc_table'[d].inode = 0 <=> f_desc_table'[d].cnt = 0
    BY DEF CountsExact
  <2>1. Users(d)' = Users(d) /\ f_desc_table' = f_desc_table
    BY <1>1, <1>7
  <2>2. QED
    BY <2>1 DEF IInv, CountsExact
<1>10. Counted(inode_table)'
  <2> SUFFICES ASSUME NEW s \in Slots
               PROVE  inode_table'[s].cnt >= Cardinality(Holders(s)') + (IF s = 1 THEN 1 ELSE 0)
    BY DEF Counted
  <2>1. Holders(s)' = Holders(s) /\ inode_table' = inode_table
    BY <1>1, <1>8
  <2>2. QED
    BY <2>1 DEF IInv, Counted
<1>11. Families'
  <2>1. \A q \in Procs : life'[q] = "born" => q = c
    BY <1>3, <1>4
  <2>2. life'[p] = "forking" /\ filp'[p] = filp'[c]
    BY <1>3
  <2>3. \A q \in Procs : life'[q] = "free" => life[q] = "free" /\ filp'[q] = filp[q]
    BY <1>3
  <2>4. QED
    BY <2>1, <2>2, <2>3 DEF IInv, Families
<1>12. OpenOf' = OpenOf
  <2> DEFINE none == [f \in Fds |-> 0]
             old(q) == IF life[q] = "born" THEN none ELSE filp[q]
             now(q) == IF life'[q] = "born" THEN none ELSE filp'[q]
  <2>1. OpenOf = [q \in Procs |-> old(q)] /\ OpenOf' = [q \in Procs |-> now(q)]
    BY DEF OpenOf
  <2>2. \A q \in Procs : now(q) = old(q)
    BY <1>3, <1>4, <1>1
  <2> HIDE DEF now, old
  <2>3. QED
    BY <2>1, <2>2
<1>13. FileOf' = FileOf
  BY <1>1 DEF FileOf
<1>14. Types' /\ Root' /\ Mirrors(inode_table, disk_inode, imap)'
  <2>1. Types'
    <3>1. UNCHANGED <<f_desc_table, inode_table, imap, smap, disk_inode, dir, work>>
      BY <1>1
    <3>2. QED
      BY <1>3, <3>1 DEF IInv, Types
  <2>2. UNCHANGED <<inode_table, disk_inode, imap>>
    BY <1>1
  <2>3. QED
    BY <2>1, <2>2 DEF IInv, Root, Mirrors
<1>15. Directory'
  BY <1>1 DEF IInv, Directory, DirSize
<1>16. QED
  BY <1>9, <1>10, <1>11, <1>12, <1>13, <1>14, <1>15 DEF IInv, ObjectsStep

\* FS counts the child's descriptors, which its parent has too.
LEMMA FsForkStep ==
    ASSUME IInv, NEW c \in Procs, fs_fork(c), UNCHANGED work
    PROVE  IInv' /\ ObjectsStep
<1> DEFINE Had(d) == {fd \in Fds : filp[c][fd] = d}
           HadTo(s) == {fd \in Fds : filp[c][fd] # 0 /\ f_desc_table[filp[c][fd]].inode = s}
<1>1. /\ life[c] = "born"
      /\ f_desc_table' = [d \in Descs |-> [f_desc_table[d] EXCEPT !.cnt = f_desc_table[d].cnt + DescRefs(c, d)]]
      /\ inode_table' = [s \in Slots |-> [inode_table[s] EXCEPT !.cnt = inode_table[s].cnt + InodeRefs(c, s)]]
      /\ life' = [q \in Procs |-> IF life[q] \in {"born", "forking"} THEN "run" ELSE life[q]]
      /\ UNCHANGED <<filp, imap, smap, disk_inode, dir>>
  BY DEF fs_fork, diskVars
<1>2. /\ filp \in [Procs -> [Fds -> {0} \cup Descs]]
      /\ f_desc_table \in [Descs -> [inode : {0} \cup Slots, pos : Nat, cnt : Nat, rdwr : BOOLEAN]]
      /\ inode_table \in InodeTables /\ Mirrors(inode_table, disk_inode, imap)
      /\ life \in [Procs -> {"free", "run", "forking", "born"}]
  BY DEF IInv, Types, InodeTables
<1>3. PICK p \in Procs : life[p] = "forking" /\ filp[p] = filp[c]
  BY <1>1 DEF IInv, Families
<1>4. /\ Told' = Told \cup {c} /\ c \notin Told /\ p \in Told /\ Told \subseteq Procs
      /\ \A q \in Procs : life'[q] # "born"
  <2>1. \A q \in Procs : life[q] = "born" => q = c
    BY <1>1 DEF IInv, Families
  <2>2. \A q \in Procs : life'[q] # "born"
    BY <1>1
  <2>3. QED
    BY <1>1, <1>3, <2>1, <2>2 DEF Told
<1>5. ASSUME NEW d \in Descs
      PROVE  /\ Had(d) \in SUBSET Fds /\ DescRefs(c, d) = Cardinality(Had(d)) /\ DescRefs(c, d) \in Nat
             /\ Cardinality(Users(d)') = Cardinality(Users(d)) + DescRefs(c, d)
             /\ DescRefs(c, d) <= f_desc_table[d].cnt
  <2>1. Had(d) \in SUBSET Fds /\ DescRefs(c, d) = Cardinality(Had(d))
    BY DEF DescRefs
  <2>2. DescRefs(c, d) \in Nat
    BY <2>1, PairsOf, FS_CardinalityType
  <2>3. Users(d)' = Users(d) \cup ({c} \X Had(d))
    BY <1>1, <1>4 DEF Users
  <2>4. \A u \in Users(d) : u[1] # c
    BY <1>4 DEF Users
  <2>5. Cardinality(Users(d)') = Cardinality(Users(d)) + Cardinality(Had(d))
    BY <2>1, <2>3, <2>4, Counts, PairsAdded
  <2>6. {p} \X Had(d) \subseteq Users(d)
    BY <1>3, <1>4 DEF Users
  <2>7. Cardinality(Had(d)) <= Cardinality(Users(d))
    BY <2>1, <2>6, Counts, PairsRemoved
  <2>8. f_desc_table[d].cnt = Cardinality(Users(d))
    BY DEF IInv, CountsExact
  <2>9. QED
    BY <2>1, <2>2, <2>5, <2>7, <2>8
<1>6. ASSUME NEW d \in Descs
      PROVE  /\ f_desc_table'[d] \in [inode : {0} \cup Slots, pos : Nat, cnt : Nat, rdwr : BOOLEAN]
             /\ f_desc_table'[d].cnt = f_desc_table[d].cnt + DescRefs(c, d)
             /\ f_desc_table'[d].inode = f_desc_table[d].inode
  <2>1. PICK n \in Nat : n = DescRefs(c, d)
    BY <1>5
  <2>2. f_desc_table'[d] = [f_desc_table[d] EXCEPT !.cnt = f_desc_table[d].cnt + n]
    BY <1>1, <2>1
  <2>3. f_desc_table[d].cnt + n \in Nat
    BY <1>2
  <2>4. /\ f_desc_table'[d] \in [inode : {0} \cup Slots, pos : Nat, cnt : Nat, rdwr : BOOLEAN]
        /\ f_desc_table'[d].cnt = f_desc_table[d].cnt + n
        /\ f_desc_table'[d].inode = f_desc_table[d].inode
    BY <1>2, <2>2, <2>3
  <2>5. QED
    BY <2>1, <2>4
<1>7. ASSUME NEW s \in Slots
      PROVE  /\ HadTo(s) \in SUBSET Fds /\ InodeRefs(c, s) = Cardinality(HadTo(s)) /\ InodeRefs(c, s) \in Nat
             /\ Cardinality(Holders(s)') = Cardinality(Holders(s)) + InodeRefs(c, s)
             /\ InodeRefs(c, s) <= Cardinality(Holders(s))
  <2>1. HadTo(s) \in SUBSET Fds /\ InodeRefs(c, s) = Cardinality(HadTo(s))
    BY DEF InodeRefs
  <2>2. InodeRefs(c, s) \in Nat
    BY <2>1, PairsOf, FS_CardinalityType
  <2>3. \A q \in Procs, fd \in Fds : filp[q][fd] # 0 =>
            f_desc_table'[filp[q][fd]].inode = f_desc_table[filp[q][fd]].inode
    BY <1>2, <1>6
  <2>4. Holders(s)' = Holders(s) \cup ({c} \X HadTo(s))
    <3>1. \A u \in Told' \X Fds : u \in Holders(s)' <=> u \in Holders(s) \/ u \in {c} \X HadTo(s)
      <4> SUFFICES ASSUME NEW q \in Told', NEW fd \in Fds
                   PROVE  <<q, fd>> \in Holders(s)' <=> <<q, fd>> \in Holders(s) \/ <<q, fd>> \in {c} \X HadTo(s)
        OBVIOUS
      <4>1. q \in Procs
        BY <1>4
      <4>2. <<q, fd>> \in Holders(s)' <=> filp[q][fd] # 0 /\ f_desc_table'[filp[q][fd]].inode = s
        BY <1>1 DEF Holders
      <4>3. <<q, fd>> \in Holders(s) <=>
               q \in Told /\ filp[q][fd] # 0 /\ f_desc_table[filp[q][fd]].inode = s
        BY DEF Holders
      <4>4. <<q, fd>> \in {c} \X HadTo(s) <=>
               q = c /\ filp[q][fd] # 0 /\ f_desc_table[filp[q][fd]].inode = s
        OBVIOUS
      <4>5. QED
        BY <1>4, <2>3, <4>1, <4>2, <4>3, <4>4
    <3>2. Holders(s) \subseteq Told' \X Fds /\ {c} \X HadTo(s) \subseteq Told' \X Fds
      BY <1>4 DEF Holders
    <3>3. Holders(s)' \subseteq Told' \X Fds
      BY DEF Holders
    <3>4. QED
      BY <3>1, <3>2, <3>3
  <2>5. \A u \in Holders(s) : u[1] # c
    BY <1>4 DEF Holders
  <2>6. Cardinality(Holders(s)') = Cardinality(Holders(s)) + Cardinality(HadTo(s))
    BY <2>1, <2>4, <2>5, Counts, PairsAdded
  <2>7. {p} \X HadTo(s) \subseteq Holders(s)
    BY <1>3, <1>4 DEF Holders
  <2>8. Cardinality(HadTo(s)) <= Cardinality(Holders(s))
    BY <2>1, <2>7, Counts, PairsRemoved
  <2>9. QED
    BY <2>1, <2>2, <2>6, <2>8
<1>8. ASSUME NEW s \in Slots
      PROVE  /\ inode_table'[s] \in [num : {0} \cup Inodes, cnt : Nat, di : DiskInodes]
             /\ inode_table'[s].cnt = inode_table[s].cnt + InodeRefs(c, s)
             /\ inode_table'[s].cnt = 0 <=> inode_table[s].cnt = 0
             /\ inode_table'[s].num = inode_table[s].num /\ inode_table'[s].di = inode_table[s].di
             /\ inode_table[s].cnt \in Nat
             /\ inode_table[s].cnt >= Cardinality(Holders(s)) + (IF s = 1 THEN 1 ELSE 0)
  <2>0. PICK n \in Nat, h \in Nat : n = InodeRefs(c, s) /\ h = Cardinality(Holders(s)) /\ n <= h
    BY <1>7, Counts
  <2>1. inode_table'[s] = [inode_table[s] EXCEPT !.cnt = inode_table[s].cnt + n]
    BY <1>1, <2>0
  <2>2. inode_table[s] \in [num : {0} \cup Inodes, cnt : Nat, di : DiskInodes]
    BY <1>2 DEF InodeTables
  <2>3. inode_table[s].cnt >= h + (IF s = 1 THEN 1 ELSE 0)
    BY <2>0 DEF IInv, Counted
  <2>4. /\ inode_table[s].cnt + n \in Nat /\ n <= inode_table[s].cnt
        /\ inode_table[s].cnt + n = 0 <=> inode_table[s].cnt = 0
    BY <2>0, <2>2, <2>3
  <2>5. QED
    BY <2>0, <2>1, <2>2, <2>3, <2>4
<1> HIDE DEF Had, HadTo
<1>9. f_desc_table' \in [Descs -> [inode : {0} \cup Slots, pos : Nat, cnt : Nat, rdwr : BOOLEAN]]
  BY <1>1, <1>6
<1>10. inode_table' \in InodeTables
  BY <1>1, <1>8 DEF InodeTables
<1>11. CountsExact'
  <2> SUFFICES ASSUME NEW d \in Descs
               PROVE  /\ f_desc_table'[d].cnt = Cardinality(Users(d)')
                      /\ f_desc_table'[d].inode = 0 <=> f_desc_table'[d].cnt = 0
    BY DEF CountsExact
  <2>1. /\ f_desc_table[d].cnt = Cardinality(Users(d)) /\ f_desc_table[d].cnt \in Nat
        /\ f_desc_table[d].inode = 0 <=> f_desc_table[d].cnt = 0
    BY <1>2 DEF IInv, CountsExact
  <2>2. QED
    BY <1>5, <1>6, <2>1
<1>12. Counted(inode_table)'
  <2> SUFFICES ASSUME NEW s \in Slots
               PROVE  inode_table'[s].cnt >= Cardinality(Holders(s)') + (IF s = 1 THEN 1 ELSE 0)
    BY DEF Counted
  <2>1. QED
    BY <1>7, <1>8, Counts
<1>13. Families'
  BY <1>1, <1>4 DEF IInv, Families
<1>14. Mirrors(inode_table, disk_inode, imap)'
  <2>1. PICK old \in InodeTables, new \in InodeTables : old = inode_table /\ new = inode_table'
    BY <1>2, <1>10
  <2>2. \A s \in Slots : /\ new[s].cnt = 0 <=> old[s].cnt = 0
                         /\ new[s].num = old[s].num /\ new[s].di = old[s].di
    BY <1>8, <2>1
  <2>3. Mirrors(new, disk_inode, imap)
    BY <1>2, <2>1, <2>2 DEF Mirrors
  <2>4. UNCHANGED <<imap, disk_inode>>
    BY <1>1
  <2>5. QED
    BY <2>1, <2>3, <2>4 DEF Mirrors
<1>15. Types'
  <2>1. life' \in [Procs -> {"free", "run", "forking", "born"}]
    BY <1>1, <1>2
  <2>2. QED
    BY <1>1, <1>2, <1>9, <1>10, <2>1 DEF IInv, Types, InodeTables
<1>16. Root' /\ Directory'
  <2>1. inode_table'[1].num = inode_table[1].num /\ inode_table'[1].di = inode_table[1].di
    BY <1>8, Sizes
  <2>2. QED
    BY <1>1, <2>1 DEF IInv, Root, Directory, DirSize
<1>17. Objects!Fork(p, c)
  <2> DEFINE none == [f \in Fds |-> 0]
             old(q) == IF life[q] = "born" THEN none ELSE filp[q]
             now(q) == IF life'[q] = "born" THEN none ELSE filp'[q]
  <2>1. OpenOf = [q \in Procs |-> old(q)] /\ OpenOf' = [q \in Procs |-> now(q)]
    BY DEF OpenOf
  <2>2. \A q \in Procs : now(q) = filp[q]
    BY <1>1, <1>4
  <2>3. \A q \in Procs \ {c} : old(q) = filp[q]
    BY <1>4 DEF Told
  <2>4. old(c) = [f \in Fds |-> 0] /\ p # c
    BY <1>1, <1>3
  <2> HIDE DEF now, old, none
  <2>5. OpenOf[c] = [f \in Fds |-> 0] /\ OpenOf[p] = filp[p]
    BY <2>1, <2>3, <2>4
  <2>6. OpenOf' = [OpenOf EXCEPT ![c] = OpenOf[p]]
    BY <1>3, <2>1, <2>2, <2>3, <2>5
  <2>7. FileOf' = FileOf
    <3>1. \A d \in Descs : FileOf'[d] = FileOf[d]
      BY <1>6, <1>8, FileKept
    <3> DEFINE was(d) == IF f_desc_table[d].inode = 0 THEN 0 ELSE inode_table[f_desc_table[d].inode].num
               is(d) == IF f_desc_table'[d].inode = 0 THEN 0 ELSE inode_table'[f_desc_table'[d].inode].num
    <3>2. FileOf = [d \in Descs |-> was(d)] /\ FileOf' = [d \in Descs |-> is(d)]
      BY DEF FileOf
    <3> HIDE DEF was, is
    <3>3. QED
      BY <3>1, <3>2
  <2>8. QED
    BY <2>5, <2>6, <2>7 DEF Objects!Fork, OpenOf, FileOf
<1>18. QED
  BY <1>11, <1>12, <1>13, <1>14, <1>15, <1>16, <1>17 DEF IInv, ObjectsStep, Objects!Next

(***************************************************************************)
(* Reading and writing                                                     *)
(***************************************************************************)

\* Division of natural numbers, as the sector arithmetic uses it.
LEMMA Division ==
    ASSUME NEW a \in Int, NEW b \in Nat \ {0}
    PROVE  /\ a \div b \in Int /\ a % b \in Nat /\ a % b < b
           /\ a >= b => a \div b >= 1
<1>1. a \div b \in Int /\ a % b \in Nat /\ a % b < b /\ a = b * (a \div b) + (a % b)
  OBVIOUS
<1>2. ASSUME a >= b, a \div b <= 0
      PROVE  FALSE
  <2>1. \A q \in Int : q <= 0 => b * q <= 0
    OBVIOUS
  <2>2. b * (a \div b) <= 0
    BY <1>1, <1>2, <2>1
  <2>3. PICK m \in Int, r \in Int : m = b * (a \div b) /\ r = a % b
    BY <1>1
  <2>4. QED
    BY <1>1, <1>2, <2>2, <2>3
<1>3. QED
  BY <1>1, <1>2

\* A transfer moves the position forward or not at all.
LEMMA Forward ==
    ASSUME NEW pos \in Nat, NEW len \in Nat, NEW pos_end \in Int
    PROVE  RwBytes(pos, len, pos_end) \in Nat
<1>1. SECTOR \in Nat \ {0} /\ FSBUF_SECTS \in Nat \ {0}
  BY FsAssumption
<1>2. PICK sects \in Int : sects = pos_end \div SECTOR - pos \div SECTOR + 1
  <2>1. pos_end \div SECTOR \in Int /\ pos \div SECTOR \in Int
    BY <1>1, Division
  <2>2. PICK a \in Int, b \in Int : a = pos_end \div SECTOR /\ b = pos \div SECTOR
    BY <2>1
  <2>3. a - b + 1 \in Int
    OBVIOUS
  <2>4. QED
    BY <2>2, <2>3
<1>3. CASE sects <= 0
  BY <1>2, <1>3 DEF RwBytes
<1>4. CASE sects > 0
  <2>1. PICK chunk \in Nat \ {0} : chunk = MinOf(sects, FSBUF_SECTS)
    BY <1>1, <1>4 DEF MinOf
  <2>2. sects + chunk - 1 \in Int /\ sects + chunk - 1 >= chunk
    BY <1>4
  <2>3. PICK loops \in Nat \ {0} : loops = (sects + chunk - 1) \div chunk
    BY <2>2, Division
  <2>4. loops * chunk \in Nat \ {0}
    OBVIOUS
  <2>5. \A q \in Nat \ {0} : q * SECTOR \in Nat /\ q * SECTOR >= SECTOR
    BY <1>1
  <2>6. PICK whole \in Nat : whole = loops * chunk * SECTOR /\ whole >= SECTOR
    BY <2>4, <2>5
  <2>7. PICK off \in Nat : off = pos % SECTOR /\ off < SECTOR
    BY <1>1, Division
  <2>8. whole - off \in Nat
    BY <1>1, <2>6, <2>7
  <2>9. RwBytes(pos, len, pos_end) = MinOf(len, whole - off)
    BY <1>2, <1>4, <2>1, <2>3, <2>6, <2>7 DEF RwBytes
  <2>10. QED
    BY <2>8, <2>9 DEF MinOf
<1>5. QED
  BY <1>3, <1>4

\* A read or a write moves one open file's position, and may let its file grow.
LEMMA TransferStep ==
    ASSUME IInv, NEW p \in Procs, NEW fd \in Fds, NEW type, NEW len \in Nat,
           Transfer(p, fd, type, len), UNCHANGED work
    PROVE  IInv' /\ ObjectsStep
<1>1. /\ filp[p][fd] # 0
      /\ UNCHANGED <<filp, imap, smap, dir, life>>
  BY DEF Transfer
<1>2. PICK d \in Descs, s \in Slots : d = filp[p][fd] /\ s = f_desc_table[d].inode
  BY <1>1, Opened
<1>3. /\ f_desc_table \in [Descs -> [inode : {0} \cup Slots, pos : Nat, cnt : Nat, rdwr : BOOLEAN]]
      /\ inode_table \in InodeTables /\ Mirrors(inode_table, disk_inode, imap)
      /\ disk_inode \in [Inodes -> DiskInodes]
      /\ inode_table[1].num = 1 /\ disk_inode[1].mode = "dir"
      /\ 1 \in Slots /\ 1 \in Inodes
  BY Sizes DEF IInv, Types, InodeTables, Root, ROOT_INODE
<1>4. inode_table[s].cnt # 0 /\ inode_table[1].cnt # 0
  <2>1. s # 0 /\ inode_table[s].cnt \in Nat /\ inode_table[1].cnt \in Nat
    BY <1>3, Sizes DEF InodeTables
  <2>2. QED
    BY <1>2, <2>1, InodeHeld, RootHeld
<1>5. PICK n \in Inodes : /\ n = inode_table[s].num /\ inode_table[s].di.mode = "reg"
                          /\ \A t \in Slots \ {s} : inode_table[t].num # n
  <2>1. inode_table[s].di.mode = "reg"
    BY <1>2 DEF Transfer
  <2>2. QED
    BY <1>3, <1>4, <2>1, ZenonT(40) DEF Mirrors
<1>6. s # 1
  <2>1. [inode_table[1].di EXCEPT !.size = 0] = [disk_inode[1] EXCEPT !.size = 0]
    BY <1>3, <1>4 DEF Mirrors
  <2>2. inode_table[1].di \in DiskInodes /\ disk_inode[1] \in DiskInodes
    BY <1>3 DEF InodeTables
  <2>3. inode_table[1].di.mode = [inode_table[1].di EXCEPT !.size = 0].mode
    BY <2>2 DEF DiskInodes
  <2>4. disk_inode[1].mode = [disk_inode[1] EXCEPT !.size = 0].mode
    BY <2>2 DEF DiskInodes
  <2>5. inode_table[1].di.mode = "dir"
    BY <1>3, <2>1, <2>3, <2>4
  <2>6. QED
    BY <1>5, <2>5
<1>7. PICK bytes \in Nat :
         /\ f_desc_table' = [f_desc_table EXCEPT ![d].pos = f_desc_table[d].pos + bytes]
         /\ inode_table' = [inode_table EXCEPT ![s].di = Grown(s, f_desc_table[d].pos + bytes)]
         /\ disk_inode' = [disk_inode EXCEPT ![n] = Grown(s, f_desc_table[d].pos + bytes)]
  <2> DEFINE bound == IF type = "READ" THEN inode_table[s].di.size ELSE inode_table[s].di.nr * SECTOR
             end == MinOf(f_desc_table[d].pos + len, bound)
  <2>1. f_desc_table[d].pos \in Nat
    BY <1>3
  <2>2. bound \in Int
    <3>1. inode_table[s].di.size \in Int /\ inode_table[s].di.nr \in Int /\ SECTOR \in Int
      BY <1>3, FsAssumption DEF InodeTables, DiskInodes
    <3>2. QED
      BY <3>1
  <2>3. end \in Int
    BY <2>1, <2>2 DEF MinOf
  <2>4. RwBytes(f_desc_table[d].pos, len, end) \in Nat
    <3> HIDE DEF end
    <3>1. QED
      BY <2>1, <2>3, Forward
  <2>5. LET bytes == RwBytes(f_desc_table[d].pos, len, end)
        IN  /\ f_desc_table' = [f_desc_table EXCEPT ![d].pos = f_desc_table[d].pos + bytes]
            /\ inode_table' = [inode_table EXCEPT ![s].di = Grown(s, f_desc_table[d].pos + bytes)]
            /\ disk_inode' = [disk_inode EXCEPT ![n] = Grown(s, f_desc_table[d].pos + bytes)]
    BY <1>2, <1>5, Zenon DEF Transfer
  <2> HIDE DEF end
  <2>6. QED
    BY <2>4, <2>5
<1>8. PICK pos \in Nat, di \in DiskInodes : pos = f_desc_table[d].pos + bytes /\ di = Grown(s, pos)
  <2>1. PICK pos \in Nat : pos = f_desc_table[d].pos + bytes
    BY <1>3
  <2>2. PICK old \in DiskInodes, size \in Nat :
           old = inode_table[s].di /\ size = IF pos > old.size THEN pos ELSE old.size
    BY <1>3 DEF InodeTables, DiskInodes
  <2>3. Grown(s, pos) = [old EXCEPT !.size = size]
    BY <2>2 DEF Grown
  <2>4. Grown(s, pos) \in DiskInodes
    BY <2>3 DEF DiskInodes
  <2>5. QED
    BY <2>1, <2>4
<1>9. /\ f_desc_table' \in [Descs -> [inode : {0} \cup Slots, pos : Nat, cnt : Nat, rdwr : BOOLEAN]]
      /\ \A e \in Descs : /\ f_desc_table'[e].inode = f_desc_table[e].inode
                          /\ f_desc_table'[e].cnt = f_desc_table[e].cnt
  <2>1. f_desc_table' = [f_desc_table EXCEPT ![d].pos = pos]
    BY <1>7, <1>8
  <2>2. QED
    BY <1>3, <2>1
<1>10. /\ inode_table' \in InodeTables
       /\ \A t \in Slots : /\ inode_table'[t].cnt = inode_table[t].cnt
                           /\ inode_table'[t].num = inode_table[t].num
       /\ inode_table'[s].di = di
       /\ \A t \in Slots \ {s} : inode_table'[t] = inode_table[t]
  <2>1. inode_table' = [inode_table EXCEPT ![s].di = di]
    BY <1>7, <1>8
  <2>2. QED
    BY <1>3, <2>1 DEF InodeTables
<1>11. /\ disk_inode' \in [Inodes -> DiskInodes] /\ disk_inode'[n] = di
       /\ \A m \in Inodes \ {n} : disk_inode'[m] = disk_inode[m]
  <2>1. disk_inode' = [disk_inode EXCEPT ![n] = di]
    BY <1>7, <1>8
  <2>2. QED
    BY <1>3, <2>1
<1>12. CountsExact' /\ Families' /\ Counted(inode_table)' /\ UNCHANGED <<OpenOf, FileOf>>
  <2>1. \A t \in Slots : /\ inode_table'[t].cnt >= inode_table[t].cnt
                         /\ inode_table[t].cnt > 0 => inode_table'[t].num = inode_table[t].num
    BY <1>3, <1>10 DEF InodeTables
  <2>2. QED
    BY <1>1, <1>9, <1>10, <2>1, OpenFilesKept
<1>13. n # 1
  BY <1>3, <1>5, <1>6
<1>14. Mirrors(inode_table, disk_inode, imap)'
  <2> SUFFICES ASSUME NEW t \in Slots
               PROVE  IF inode_table'[t].cnt = 0 THEN inode_table'[t].num = 0
                      ELSE /\ inode_table'[t].num \in imap' \cap Inodes
                           /\ \A u \in Slots \ {t} : inode_table'[u].num # inode_table'[t].num
                           /\ IF t = 1 THEN [inode_table'[t].di EXCEPT !.size = 0]
                                            = [disk_inode'[1] EXCEPT !.size = 0]
                              ELSE inode_table'[t].di = disk_inode'[inode_table'[t].num]
    BY DEF Mirrors
  <2>1. IF inode_table[t].cnt = 0 THEN inode_table[t].num = 0
        ELSE /\ inode_table[t].num \in imap \cap Inodes
             /\ \A u \in Slots \ {t} : inode_table[u].num # inode_table[t].num
             /\ IF t = 1 THEN [inode_table[t].di EXCEPT !.size = 0]
                              = [disk_inode[1] EXCEPT !.size = 0]
                ELSE inode_table[t].di = disk_inode[inode_table[t].num]
    BY <1>3 DEF Mirrors
  <2>2. imap' = imap
    BY <1>1
  <2>3. CASE t = s
    BY <1>5, <1>6, <1>10, <1>11, <2>1, <2>2, <2>3
  <2>4. CASE t # s
    <3>1. inode_table'[t] = inode_table[t] /\ inode_table[t].num # n
      BY <1>5, <1>10, <2>4
    <3>2. CASE inode_table[t].cnt = 0
      BY <2>1, <3>1, <3>2
    <3>3. CASE inode_table[t].cnt # 0
      <4>1. inode_table[t].num \in Inodes \ {n} /\ disk_inode'[1] = disk_inode[1]
        BY <1>3, <1>11, <1>13, <2>1, <3>1, <3>3
      <4>2. disk_inode'[inode_table[t].num] = disk_inode[inode_table[t].num]
        BY <1>11, <4>1
      <4>3. \A u \in Slots \ {t} : inode_table'[u].num # inode_table[t].num
        BY <1>10, <2>1, <3>3
      <4>4. QED
        BY <2>1, <2>2, <3>1, <3>3, <4>1, <4>2, <4>3
    <3>4. QED
      BY <3>2, <3>3
  <2>5. QED
    BY <2>3, <2>4
<1>15. Types'
  BY <1>1, <1>9, <1>10, <1>11 DEF IInv, Types, InodeTables
<1>16. Root' /\ Directory'
  <2>1. inode_table'[1] = inode_table[1] /\ disk_inode'[1] = disk_inode[1]
    BY <1>3, <1>6, <1>10, <1>11, <1>13
  <2>2. QED
    BY <1>1, <2>1 DEF IInv, Root, Directory, DirSize, ROOT_INODE
<1>17. QED
  BY <1>12, <1>14, <1>15, <1>16 DEF IInv, ObjectsStep

(***************************************************************************)
(* Unlink                                                                  *)
(***************************************************************************)

\* A refused unlink leaves one reference more behind.
LEMMA UnlinkRefusedStep ==
    ASSUME IInv, Roomy, NEW p \in Procs, NEW name \in work.names, UnlinkRefused(p, name), UNCHANGED work
    PROVE  IInv' /\ ObjectsStep
<1>1. PICK nr \in imap \cap Inodes : nr = search_file(name)
  BY SearchFinds DEF UnlinkRefused, Unlinking
<1>2. /\ ~TableFull(nr) /\ inode_table' = get_inode(nr)
      /\ UNCHANGED <<filp, f_desc_table, imap, smap, disk_inode, dir, life>>
  BY <1>1 DEF UnlinkRefused, Unlinking, diskVars
<1>3. PICK s \in Slots : s = SlotFor(nr)
  BY <1>2, Slot
<1>4. /\ inode_table' \in InodeTables
      /\ Mirrors(inode_table', disk_inode, imap)
      /\ \A t \in Slots \ {s} : inode_table'[t] = inode_table[t]
      /\ inode_table'[s].cnt = inode_table[s].cnt + 1 /\ inode_table'[s].num = nr
      /\ inode_table'[1].num = inode_table[1].num /\ inode_table'[1].di = inode_table[1].di
  BY <1>2, <1>3, GetInode
<1>5. inode_table[s].cnt > 0 => inode_table[s].num = nr
  BY <1>2, <1>3, Slot
<1>6. CountsExact' /\ Families' /\ Counted(inode_table)' /\ UNCHANGED <<OpenOf, FileOf>>
  <2>1. \A t \in Slots : inode_table[t].cnt \in Nat
    BY DEF IInv, Types
  <2>2. \A t \in Slots : /\ inode_table'[t].cnt >= inode_table[t].cnt
                         /\ inode_table[t].cnt > 0 => inode_table'[t].num = inode_table[t].num
    BY <1>4, <1>5, <2>1
  <2>3. QED
    BY <1>2, <1>4, <2>2, OpenFilesKept
<1>7. Types'
  BY <1>2, <1>4 DEF IInv, Types, InodeTables
<1>8. Mirrors(inode_table, disk_inode, imap)'
  BY <1>2, <1>4 DEF Mirrors
<1>9. Root' /\ Directory'
  BY <1>2, <1>4 DEF IInv, Root, Directory, DirSize
<1>10. QED
  BY <1>6, <1>7, <1>8, <1>9 DEF IInv, ObjectsStep

\* The directory still ends behind its last entry in use.
LEMMA ShrunkBehind ==
    ASSUME IInv, Roomy, NEW i \in Entries, i # 0, i < DirSize
    PROVE  /\ Shrunk(i) \in Nat
           /\ \A j \in Entries \ {i} : dir[j].inode_nr # 0 => j < Shrunk(i)
<1>1. DirSize \in Nat /\ i \in Nat /\ Entries \subseteq Nat
  BY OneSector, Sizes
<1>2. \A j \in Entries : dir[j].inode_nr # 0 => j < DirSize
  BY DEF IInv, Directory
<1>3. CASE i # DirSize - 1
  BY <1>1, <1>2, <1>3 DEF Shrunk
<1>4. CASE i = DirSize - 1
  <2> DEFINE used == {j \in 0..(i - 1) : dir[j].inode_nr # 0}
  <2>1. used \in SUBSET (0..i) /\ used \in SUBSET Nat
    BY <1>1
  <2>2. 0 \in used
    <3>1. dir[0].inode_nr # 0
      BY DEF IInv, Directory, ROOT_INODE
    <3>2. 0 \in 0..(i - 1)
      BY <1>1
    <3>3. QED
      BY <3>1, <3>2
  <2>3. Shrunk(i) = Max(used) + 1
    BY <1>4, <2>2 DEF Shrunk
  <2>4. Max(used) \in used /\ \A j \in used : j <= Max(used)
    <3> HIDE DEF used
    <3>1. QED
      BY <1>1, <2>1, <2>2, Last
  <2>5. \A j \in Entries \ {i} : dir[j].inode_nr # 0 => j \in used
    <3> SUFFICES ASSUME NEW j \in Entries \ {i}, dir[j].inode_nr # 0
                 PROVE  j \in used
      OBVIOUS
    <3>1. j \in Nat /\ j < DirSize /\ j # i
      BY <1>1, <1>2
    <3>2. j \in 0..(i - 1)
      BY <1>1, <1>4, <3>1
    <3>3. QED
      BY <3>2
  <2> HIDE DEF used
  <2>6. Max(used) \in Nat
    BY <2>1, <2>4
  <2>7. PICK m \in Nat : m = Max(used)
    BY <2>6
  <2>8. \A j \in Entries \ {i} : dir[j].inode_nr # 0 => j < m + 1
    BY <1>1, <2>4, <2>5, <2>7
  <2>9. QED
    BY <2>3, <2>7, <2>8
<1>5. QED
  BY <1>3, <1>4

\* Unlink frees an inode nobody has in memory, and the only entry of it.
LEMMA UnlinkStep ==
    ASSUME IInv, Roomy, NEW p \in Procs, NEW name \in work.names, do_unlink(p, name), UNCHANGED work
    PROVE  IInv' /\ ObjectsStep
<1>1. /\ name # "/" /\ search_file(name) # 0
      /\ UNCHANGED <<filp, f_desc_table, life>>
  BY DEF do_unlink, UnlinkAllowed, Unlinking
<1>2. PICK nr \in imap \cap Inodes, e \in Entries :
         nr = search_file(name) /\ e < DirSize /\ dir[e].inode_nr = nr
  BY <1>1, SearchFinds
<1>3. ~TableFull(nr) /\ UnlinkInode(nr).cnt = 1
  BY <1>2 DEF do_unlink, UnlinkAllowed, Unlinking
<1>4. PICK s \in Slots, table \in InodeTables : s = SlotFor(nr) /\ table = get_inode(nr)
  BY <1>3, Slot, GetInode
<1>5. /\ Mirrors(table, disk_inode, imap)
      /\ \A t \in Slots \ {s} : table[t] = inode_table[t]
      /\ table[s].cnt = inode_table[s].cnt + 1
      /\ table[s].num = nr
      /\ table[1].num = inode_table[1].num /\ table[1].di = inode_table[1].di
  BY <1>3, <1>4, GetInode
<1>6. /\ inode_table \in InodeTables /\ disk_inode \in [Inodes -> DiskInodes]
      /\ imap \subseteq 0..(NR_INODES - 1)
      /\ Mirrors(inode_table, disk_inode, imap) /\ inode_table[1].num = 1
      /\ disk_inode[1].mode = "dir" /\ 0 \in imap
      /\ 1 \in Slots /\ 1 \in Inodes /\ 0 \in Entries /\ dir[0].inode_nr = 1
      /\ 0 \notin Inodes
  BY Sizes DEF IInv, Types, InodeTables, Root, Directory, ROOT_INODE
<1>7. inode_table[s].cnt = 0 /\ s # 1 /\ Found(nr) = {} /\ table[s].cnt = 1
  <2>1. table[s].cnt = 1
    BY <1>3, <1>4 DEF UnlinkInode
  <2>2. inode_table[s].cnt \in Nat
    BY <1>6 DEF InodeTables
  <2>3. inode_table[s].cnt = 0
    BY <1>5, <2>1, <2>2
  <2>4. QED
    BY <1>3, <1>4, <2>1, <2>3, Slot
<1>8. \A t \in Slots : inode_table[t].num # nr
  <2>1. \A t \in Slots : inode_table[t].cnt > 0 => inode_table[t].num # nr
    BY <1>7 DEF Found
  <2>2. \A t \in Slots : inode_table[t].cnt = 0 => inode_table[t].num = 0
    BY <1>6 DEF Mirrors
  <2>3. \A t \in Slots : inode_table[t].cnt \in Nat
    BY <1>6 DEF InodeTables
  <2>4. QED
    BY <1>6, <2>1, <2>2, <2>3
<1>9. nr # 1 /\ e # 0
  BY <1>2, <1>6, <1>8
<1>10. e = Min({j \in 0..(DirSize - 1) : dir[j].inode_nr = nr})
  <2>1. DirSize \in Nat /\ Entries \subseteq Nat
    BY OneSector, Sizes
  <2> DEFINE mine == {j \in 0..(DirSize - 1) : dir[j].inode_nr = nr}
  <2>2. e \in mine /\ mine \in SUBSET Nat
    BY <1>2, <2>1
  <2>3. \A j \in mine : j \in Entries /\ dir[j].inode_nr = nr
    <3>1. \A j \in 0..(DirSize - 1) : j \in Entries
      <4>1. DirSize <= DirMax /\ DirMax \in Nat
        BY OneSector, FsAssumption DEF Entries
      <4>2. QED
        BY <2>1, <4>1 DEF Entries
    <3>2. QED
      BY <3>1
  <2> HIDE DEF mine
  <2>4. Min(mine) \in mine
    BY <2>2, First
  <2>5. \A i, j \in Entries : dir[i].inode_nr # 0 /\ dir[i].inode_nr = dir[j].inode_nr => i = j
    BY DEF IInv, Directory
  <2>6. e = Min(mine)
    BY <1>2, <1>6, <2>3, <2>4, <2>5
  <2>7. QED
    BY <2>6 DEF mine
<1>11. PICK R, size : R = Released(table, s, 1) /\ size = Shrunk(e)
  OBVIOUS
<1>12. /\ imap' = imap \ {nr} /\ smap' \subseteq smap
       /\ disk_inode' = [disk_inode EXCEPT ![nr] = NoInode]
       /\ inode_table' = [R EXCEPT ![1].di.size = size]
       /\ dir' = [dir EXCEPT ![e] = NoEntry]
  BY <1>2, <1>4, <1>10, <1>11, Zenon DEF do_unlink
<1>13. /\ R \in InodeTables /\ R[s].cnt = 0
       /\ Mirrors(R, disk_inode, imap)
       /\ \A t \in Slots \ {s} : R[t] = inode_table[t]
  BY <1>4, <1>5, <1>7, <1>11, PutInode
<1>14. R[s].num = 0 /\ inode_table[s].num = 0
  BY <1>6, <1>7, <1>13 DEF Mirrors
<1>15. /\ size \in Nat
       /\ \A j \in Entries \ {e} : dir[j].inode_nr # 0 => j < size
  BY <1>2, <1>9, <1>11, ShrunkBehind
<1>16. /\ inode_table' \in InodeTables
       /\ inode_table'[1].num = 1 /\ inode_table'[1].cnt = inode_table[1].cnt
       /\ inode_table'[1].di = [inode_table[1].di EXCEPT !.size = size]
       /\ \A t \in Slots \ {1} : inode_table'[t] = R[t]
  <2>1. R[1] = inode_table[1] /\ R[1].di \in DiskInodes
        /\ R[1] \in [num : {0} \cup Inodes, cnt : Nat, di : DiskInodes]
    BY <1>6, <1>7, <1>13 DEF InodeTables
  <2>2. [R[1].di EXCEPT !.size = size] \in DiskInodes
    BY <1>15, <2>1 DEF DiskInodes
  <2>3. inode_table' = [R EXCEPT ![1] = [R[1] EXCEPT !.di = [R[1].di EXCEPT !.size = size]]]
    BY <1>12
  <2>4. PICK new : new = [R[1] EXCEPT !.di = [R[1].di EXCEPT !.size = size]]
    OBVIOUS
  <2>5. /\ new \in [num : {0} \cup Inodes, cnt : Nat, di : DiskInodes]
        /\ new.num = R[1].num /\ new.cnt = R[1].cnt /\ new.di = [R[1].di EXCEPT !.size = size]
    BY <2>1, <2>2, <2>4
  <2>6. inode_table' = [R EXCEPT ![1] = new]
    BY <2>3, <2>4
  <2>7. inode_table' \in InodeTables
    BY <1>13, <2>5, <2>6 DEF InodeTables
  <2>8. inode_table'[1] = new /\ \A t \in Slots \ {1} : inode_table'[t] = R[t]
    BY <1>6, <1>13, <2>6 DEF InodeTables
  <2>9. QED
    BY <1>6, <2>1, <2>5, <2>7, <2>8
<1>17. /\ disk_inode' \in [Inodes -> DiskInodes]
       /\ \A n \in Inodes \ {nr} : disk_inode'[n] = disk_inode[n]
  <2>1. NoInode \in DiskInodes
    BY DEF NoInode, Inode, DiskInodes, Modes
  <2>2. QED
    BY <1>6, <1>12, <2>1
<1>18. \A t \in Slots : /\ inode_table'[t].cnt = inode_table[t].cnt
                        /\ inode_table'[t].num = inode_table[t].num
  BY <1>6, <1>7, <1>13, <1>14, <1>16
<1>19. CountsExact' /\ Families' /\ Counted(inode_table)' /\ UNCHANGED <<OpenOf, FileOf>>
  <2>1. \A t \in Slots : inode_table'[t].cnt >= inode_table[t].cnt
    BY <1>6, <1>18 DEF InodeTables
  <2>2. \A d \in Descs : /\ f_desc_table'[d].inode = f_desc_table[d].inode
                         /\ f_desc_table'[d].cnt = f_desc_table[d].cnt
    BY <1>1
  <2>3. QED
    BY <1>1, <1>16, <1>18, <2>1, <2>2, OpenFilesKept
<1>20. Mirrors(inode_table, disk_inode, imap)'
  <2> SUFFICES ASSUME NEW t \in Slots
               PROVE  IF inode_table'[t].cnt = 0 THEN inode_table'[t].num = 0
                      ELSE /\ inode_table'[t].num \in imap' \cap Inodes
                           /\ \A u \in Slots \ {t} : inode_table'[u].num # inode_table'[t].num
                           /\ IF t = 1 THEN [inode_table'[t].di EXCEPT !.size = 0]
                                            = [disk_inode'[1] EXCEPT !.size = 0]
                              ELSE inode_table'[t].di = disk_inode'[inode_table'[t].num]
    BY DEF Mirrors
  <2>1. IF inode_table[t].cnt = 0 THEN inode_table[t].num = 0
        ELSE /\ inode_table[t].num \in imap \cap Inodes
             /\ \A u \in Slots \ {t} : inode_table[u].num # inode_table[t].num
             /\ IF t = 1 THEN [inode_table[t].di EXCEPT !.size = 0]
                              = [disk_inode[1] EXCEPT !.size = 0]
                ELSE inode_table[t].di = disk_inode[inode_table[t].num]
    BY <1>6 DEF Mirrors
  <2>2. CASE inode_table[t].cnt = 0
    BY <1>18, <2>1, <2>2
  <2>3. CASE inode_table[t].cnt # 0
    <3>1. /\ inode_table[t].num \in imap \cap Inodes /\ inode_table[t].num # nr
          /\ \A u \in Slots \ {t} : inode_table'[u].num # inode_table[t].num
      BY <1>8, <1>18, <2>1, <2>3
    <3>2. inode_table'[t].num = inode_table[t].num /\ inode_table'[t].num \in imap' \cap Inodes
      BY <1>12, <1>18, <3>1
    <3>3. CASE t = 1
      <4>1. [inode_table[1].di EXCEPT !.size = 0] = [disk_inode[1] EXCEPT !.size = 0]
        BY <2>1, <2>3, <3>3
      <4>2. disk_inode'[1] = disk_inode[1]
        BY <1>6, <1>9, <1>17
      <4>3. inode_table[1].di \in DiskInodes
        BY <1>6 DEF InodeTables
      <4>4. [inode_table'[1].di EXCEPT !.size = 0] = [inode_table[1].di EXCEPT !.size = 0]
        BY <1>16, <4>3 DEF DiskInodes
      <4>5. [inode_table'[t].di EXCEPT !.size = 0] = [disk_inode'[1] EXCEPT !.size = 0]
        BY <3>3, <4>1, <4>2, <4>4
      <4>6. QED
        BY <2>3, <1>18, <3>1, <3>2, <3>3, <4>5
    <3>4. CASE t # 1
      <4>1. inode_table'[t] = inode_table[t]
        BY <1>7, <1>13, <1>16, <2>3, <3>4
      <4>2. inode_table[t].di = disk_inode[inode_table[t].num]
        BY <2>1, <2>3, <3>4
      <4>3. disk_inode'[inode_table[t].num] = disk_inode[inode_table[t].num]
        BY <1>17, <3>1
      <4>4. QED
        BY <2>3, <3>1, <3>2, <3>4, <4>1, <4>2, <4>3
    <3>5. QED
      BY <3>3, <3>4
  <2>4. QED
    BY <2>2, <2>3
<1>21. dir' \in [Entries -> [inode_nr : {0} \cup Inodes, name : AllNames \cup {""}, ext : Nat]]
       /\ dir'[e].inode_nr = 0 /\ \A j \in Entries \ {e} : dir'[j] = dir[j]
  <2>1. dir \in [Entries -> [inode_nr : {0} \cup Inodes, name : AllNames \cup {""}, ext : Nat]]
    BY DEF IInv, Types
  <2>2. NoEntry \in [inode_nr : {0} \cup Inodes, name : AllNames \cup {""}, ext : Nat]
        /\ NoEntry.inode_nr = 0
    BY DEF NoEntry, Entry
  <2>3. QED
    BY <1>12, <2>1, <2>2
<1>22. Types'
  <2>1. smap' \subseteq Bits /\ imap' \subseteq 0..(NR_INODES - 1)
    BY <1>6, <1>12 DEF IInv, Types
  <2>2. QED
    BY <1>1, <1>16, <1>17, <1>21, <2>1 DEF IInv, Types, InodeTables
<1>23. Root'
  BY <1>6, <1>9, <1>12, <1>16, <1>17 DEF Root, ROOT_INODE
<1>24. Directory'
  <2>1. DirSize' = size
    <3>1. inode_table[1].di \in DiskInodes
      BY <1>6 DEF InodeTables
    <3>2. QED
      BY <1>16, <3>1 DEF DirSize, DiskInodes
  <2>2. dir'[0].inode_nr = ROOT_INODE
    BY <1>6, <1>9, <1>21 DEF ROOT_INODE
  <2>3. ASSUME NEW i \in Entries, dir'[i].inode_nr # 0
        PROVE  dir'[i].inode_nr \in imap' /\ i < size
    <3>1. i # e /\ dir'[i] = dir[i]
      BY <1>21, <2>3
    <3>2. dir[i].inode_nr \in imap /\ dir[i].inode_nr # nr
      BY <1>2, <2>3, <3>1 DEF IInv, Directory
    <3>3. QED
      BY <1>12, <1>15, <2>3, <3>1, <3>2
  <2>4. ASSUME NEW i \in Entries, NEW j \in Entries, dir'[i].inode_nr # 0,
               dir'[i].inode_nr = dir'[j].inode_nr
        PROVE  i = j
    <3>1. dir'[i] = dir[i] /\ dir'[j] = dir[j]
      BY <1>21, <2>4
    <3>2. QED
      BY <2>4, <3>1 DEF IInv, Directory
  <2>5. QED
    BY <2>1, <2>2, <2>3, <2>4 DEF Directory
<1>25. QED
  BY <1>19, <1>20, <1>22, <1>23, <1>24 DEF IInv, ObjectsStep

(***************************************************************************)
(* The theorems                                                            *)
(***************************************************************************)

\* After mkfs and init_fs nothing is open and the root is in memory.
LEMMA InitInv ==
    ASSUME Init
    PROVE  IInv /\ OpenOf = [p \in Procs |-> [fd \in Fds |-> 0]] /\ FileOf = [d \in Descs |-> 0]
<1>1. /\ filp = [p \in Procs |-> [fd \in Fds |-> 0]]
      /\ f_desc_table = [d \in Descs |-> ClosedDesc]
      /\ inode_table = [s \in Slots |-> IF s = 1 THEN InCore(ROOT_INODE, 1, MkfsInodes[ROOT_INODE])
                                        ELSE FreeSlot]
      /\ imap = 0..TAR_INODE /\ smap = MkfsSmap /\ disk_inode = MkfsInodes /\ dir = MkfsDir
      /\ life = [p \in Procs |-> IF p = FIRST THEN "run" ELSE "free"]
      /\ work \in Workloads
  BY DEF Init
<1>2. /\ 1 \in Inodes /\ 2 \in Inodes /\ 3 \in Inodes /\ 1 \in Slots
      /\ 0 \notin Slots /\ 0 \notin Descs /\ Entries \subseteq Nat /\ 0 \in Entries
  BY Sizes
<1>3. MkfsInodes \in [Inodes -> DiskInodes]
  <2>1. TAR_SECTS * SECTOR \in Nat /\ TAR_START \in Nat /\ TAR_SECTS \in Nat /\ FILE_SECTS \in Nat
    <3>1. TAR_SECTS \in Nat /\ SECTOR \in Nat /\ TAR_START \in Nat /\ FILE_SECTS \in Nat
      BY FsAssumption
    <3>2. \A m, n \in Nat : m * n \in Nat
      OBVIOUS
    <3>3. QED
      BY <3>1, <3>2
  <2>2. \A n \in Inodes : MkfsInodes[n] \in DiskInodes
    BY <2>1 DEF MkfsInodes, Inode, NoInode, DiskInodes, Modes
  <2>3. QED
    BY <2>2 DEF MkfsInodes
<1>4. /\ MkfsInodes[1] = Inode("dir", 3, 1, FILE_SECTS)
      /\ MkfsInodes[1].mode = "dir" /\ MkfsInodes[1].size = 3
  BY <1>2 DEF MkfsInodes, Inode, ROOT_INODE, TTY_INODE, TAR_INODE
<1>5. FreeSlot \in [num : {0} \cup Inodes, cnt : Nat, di : DiskInodes] /\ FreeSlot.cnt = 0 /\ FreeSlot.num = 0
  BY DEF FreeSlot, InCore, NoInode, Inode, DiskInodes, Modes
<1>6. /\ inode_table \in InodeTables
      /\ inode_table[1].num = 1 /\ inode_table[1].cnt = 1 /\ inode_table[1].di = MkfsInodes[1]
      /\ \A s \in Slots \ {1} : inode_table[s] = FreeSlot
  <2>1. InCore(1, 1, MkfsInodes[1]) \in [num : {0} \cup Inodes, cnt : Nat, di : DiskInodes]
    BY <1>2, <1>3 DEF InCore
  <2>2. inode_table[1] = InCore(1, 1, MkfsInodes[1]) /\ \A s \in Slots \ {1} : inode_table[s] = FreeSlot
    BY <1>1, <1>2 DEF ROOT_INODE
  <2>3. inode_table \in InodeTables
    BY <1>1, <1>5, <2>1 DEF InodeTables, ROOT_INODE
  <2>4. QED
    BY <2>2, <2>3 DEF InCore
<1>7. ClosedDesc \in [inode : {0} \cup Slots, pos : Nat, cnt : Nat, rdwr : BOOLEAN]
      /\ ClosedDesc.cnt = 0 /\ ClosedDesc.inode = 0
  BY DEF ClosedDesc
<1>8. /\ MkfsDir \in [Entries -> [inode_nr : {0} \cup Inodes, name : AllNames \cup {""}, ext : Nat]]
      /\ \A i \in Entries : \/ i \in {0, 1, 2} /\ MkfsDir[i].inode_nr = i + 1
                            \/ i \notin {0, 1, 2} /\ MkfsDir[i].inode_nr = 0
  <2>1. \A name \in {".", "dev_tty0", "cmd.tar"} : name \in AllNames /\ NameLen[name] \in Nat
    <3>1. \A name \in {".", "dev_tty0", "cmd.tar"} : name \in AllNames
      BY DEF AllNames
    <3>2. MAX_FILENAME_LEN \in Nat /\ NameLen \in [AllNames -> 1..MAX_FILENAME_LEN]
      BY FsAssumption
    <3>3. QED
      BY <3>1, <3>2
  <2>2. /\ NoEntry \in [inode_nr : {0} \cup Inodes, name : AllNames \cup {""}, ext : Nat]
        /\ NoEntry.inode_nr = 0
    BY DEF NoEntry, Entry
  <2>3. ASSUME NEW i \in Entries
        PROVE  /\ MkfsDir[i] \in [inode_nr : {0} \cup Inodes, name : AllNames \cup {""}, ext : Nat]
               /\ \/ i \in {0, 1, 2} /\ MkfsDir[i].inode_nr = i + 1
                  \/ i \notin {0, 1, 2} /\ MkfsDir[i].inode_nr = 0
    <3>1. CASE i = 0
      <4>1. MkfsDir[i] = Entry(1, ".", NameLen["."])
        BY <3>1 DEF MkfsDir, ROOT_INODE
      <4>2. QED
        BY <1>2, <2>1, <3>1, <4>1 DEF Entry
    <3>2. CASE i = 1
      <4>1. MkfsDir[i] = Entry(2, "dev_tty0", NameLen["dev_tty0"])
        BY <3>2 DEF MkfsDir, TTY_INODE
      <4>2. QED
        BY <1>2, <2>1, <3>2, <4>1 DEF Entry
    <3>3. CASE i = 2
      <4>1. MkfsDir[i] = Entry(3, "cmd.tar", NameLen["cmd.tar"])
        BY <3>3 DEF MkfsDir, TAR_INODE
      <4>2. QED
        BY <1>2, <2>1, <3>3, <4>1 DEF Entry
    <3>4. CASE i \notin {0, 1, 2}
      <4>1. MkfsDir[i] = NoEntry
        BY <3>4 DEF MkfsDir
      <4>2. QED
        BY <2>2, <3>4, <4>1
    <3>5. QED
      BY <3>1, <3>2, <3>3, <3>4
  <2>4. QED
    BY <2>3 DEF MkfsDir
<1>9. imap \subseteq 0..(NR_INODES - 1) /\ smap \subseteq Bits /\ {0, 1, 2, 3} \subseteq imap
  <2>1. /\ NR_INODES \in Nat /\ NR_INODES > 3 /\ FILE_SECTS \in Nat /\ TAR_START \in Nat
        /\ TAR_SECTS \in Nat /\ NR_BITS \in Nat
        /\ TAR_START > FILE_SECTS /\ TAR_START + TAR_SECTS <= NR_BITS
    BY FsAssumption DEF TAR_INODE
  <2>2. QED
    BY <1>1, <2>1 DEF TAR_INODE, MkfsSmap, Run, Bits
<1>10. Types
  <2>1. filp \in [Procs -> [Fds -> {0} \cup Descs]] /\ life \in [Procs -> {"free", "run", "forking", "born"}]
    BY <1>1
  <2>2. f_desc_table \in [Descs -> [inode : {0} \cup Slots, pos : Nat, cnt : Nat, rdwr : BOOLEAN]]
    BY <1>1, <1>7
  <2>3. QED
    BY <1>1, <1>3, <1>6, <1>8, <1>9, <2>1, <2>2 DEF Types, InodeTables
<1>11. Families
  <2>1. \A p \in Procs : life[p] # "born" /\ filp[p] = [fd \in Fds |-> 0]
    BY <1>1
  <2>2. QED
    BY <2>1 DEF Families
<1>12. \A p \in Procs, fd \in Fds : filp[p][fd] = 0
  BY <1>1
<1>13. CountsExact
  <2>1. \A d \in Descs : Users(d) = {}
    BY <1>2, <1>12 DEF Users, Told
  <2>2. QED
    BY <1>1, <1>7, <2>1, FS_EmptySet DEF CountsExact
<1>14. Counted(inode_table)
  <2>1. \A s \in Slots : Holders(s) = {}
    BY <1>12 DEF Holders, Told
  <2>2. \A s \in Slots : inode_table[s].cnt = IF s = 1 THEN 1 ELSE 0
    BY <1>5, <1>6
  <2>3. QED
    BY <2>1, <2>2, FS_EmptySet DEF Counted
<1>15. Mirrors(inode_table, disk_inode, imap)
  BY <1>1, <1>2, <1>5, <1>6, <1>9 DEF Mirrors
<1>16. Root
  BY <1>1, <1>4, <1>6, <1>9 DEF Root, ROOT_INODE
<1>17. Directory
  <2>1. DirSize = 3
    BY <1>4, <1>6 DEF DirSize
  <2>1a. \A i \in Entries : \/ i \in {0, 1, 2} /\ dir[i].inode_nr = i + 1
                            \/ i \notin {0, 1, 2} /\ dir[i].inode_nr = 0
    BY <1>1, <1>8, Zenon
  <2>2. dir[0].inode_nr = 1
    BY <1>2, <2>1a
  <2>3. \A i \in Entries : dir[i].inode_nr # 0 => dir[i].inode_nr \in imap /\ i < 3
    BY <1>9, <2>1a
  <2>4. \A i, j \in Entries : dir[i].inode_nr # 0 /\ dir[i].inode_nr = dir[j].inode_nr => i = j
    BY <2>1a
  <2>5. QED
    BY <2>1, <2>2, <2>3, <2>4 DEF Directory, ROOT_INODE
<1>18. OpenOf = [p \in Procs |-> [fd \in Fds |-> 0]] /\ FileOf = [d \in Descs |-> 0]
  BY <1>1, <1>7 DEF OpenOf, FileOf
<1>19. QED
  BY <1>10, <1>11, <1>13, <1>14, <1>15, <1>16, <1>17, <1>18 DEF IInv

\* Every step keeps the invariant, and is one of OpenFiles or none.
LEMMA NextInv ==
    ASSUME IInv, Roomy, [Next]_vars
    PROVE  IInv' /\ ObjectsStep
<1>1. work \in Workloads /\ work.procs \subseteq Procs /\ work.lengths \subseteq Nat
  BY FsAssumption DEF IInv, Types
<1>2. CASE UNCHANGED vars
  <2>1. UNCHANGED <<filp, f_desc_table, inode_table, imap, smap, disk_inode, dir, life, work>>
    BY <1>2 DEF vars, diskVars
  <2>2. Halt(halt)
    BY <1>2 DEF vars, diskVars, Halt
  <2>3. QED
    BY <2>1, <2>2, HaltStep
<1>3. CASE Next
  <2> USE <1>1
  <2>1. UNCHANGED work /\ Request
    BY <1>3 DEF Next
  <2>2. ASSUME NEW p \in work.procs, OpenNoRoom(p)
        PROVE  IInv' /\ ObjectsStep
    BY <2>1, <2>2, HaltStep DEF OpenNoRoom
  <2>3. ASSUME NEW p \in work.procs, fs_exit(p)
        PROVE  IInv' /\ ObjectsStep
    BY <2>1, <2>3, ExitStep
  <2>4. ASSUME NEW p \in work.procs, fs_fork(p)
        PROVE  IInv' /\ ObjectsStep
    BY <2>1, <2>4, FsForkStep
  <2>5. ASSUME NEW p \in work.procs, NEW q \in work.procs, MmIdle, MmFork(p, q)
        PROVE  IInv' /\ ObjectsStep
    BY <2>1, <2>5, MmForkStep
  <2>6. ASSUME NEW p \in work.procs, NEW fd \in Fds, BadFd(p, fd)
        PROVE  IInv' /\ ObjectsStep
    BY <2>1, <2>6, HaltStep DEF BadFd
  <2>7. ASSUME NEW p \in work.procs, NEW fd \in Fds, do_close(p, fd)
        PROVE  IInv' /\ ObjectsStep
    BY <2>1, <2>7, CloseStep
  <2>8. ASSUME NEW p \in work.procs, NEW fd \in Fds, NEW len \in work.lengths,
               Read(p, fd, len) \/ Write(p, fd, len)
        PROVE  IInv' /\ ObjectsStep
    <3>1. len \in Nat /\ p \in Procs
      OBVIOUS
    <3>2. CASE Transfer(p, fd, "READ", len)
      BY <2>1, <3>1, <3>2, TransferStep
    <3>3. CASE Transfer(p, fd, "WRITE", len)
      BY <2>1, <3>1, <3>3, TransferStep
    <3>4. QED
      BY <2>8, <3>2, <3>3 DEF Read, Write
  <2>9. ASSUME NEW p \in work.procs, NEW name \in work.names, OpenFile(p, name)
        PROVE  IInv' /\ ObjectsStep
    BY <2>1, <2>9, OpenFileStep
  <2>10. ASSUME NEW p \in work.procs, NEW name \in work.names,
                NoSlot(p, name) \/ CreateNoSpace(p, name) \/ CreateTableFull(p, name)
                \/ UnlinkMissing(p, name) \/ UnlinkSmapAssert(p, name)
         PROVE  IInv' /\ ObjectsStep
    <3>1. PICK why : Halt(why)
      BY <2>10 DEF NoSlot, CreateNoSpace, CreateTableFull, UnlinkMissing, UnlinkSmapAssert
    <3>2. QED
      BY <2>1, <3>1, HaltStep
  <2>11. ASSUME NEW p \in work.procs, NEW name \in work.names, NEW rdwr \in BOOLEAN, CreateFile(p, name, rdwr)
         PROVE  IInv' /\ ObjectsStep
    BY <2>1, <2>11, CreateFileStep
  <2>12. ASSUME NEW p \in work.procs, NEW name \in work.names, UnlinkRefused(p, name)
         PROVE  IInv' /\ ObjectsStep
    BY <2>1, <2>12, UnlinkRefusedStep
  <2>13. ASSUME NEW p \in work.procs, NEW name \in work.names, do_unlink(p, name)
         PROVE  IInv' /\ ObjectsStep
    BY <2>1, <2>13, UnlinkStep
  <2>14. QED
    BY <2>1, <2>2, <2>3, <2>4, <2>5, <2>6, <2>7, <2>8, <2>9, <2>10, <2>11, <2>12, <2>13 DEF Request
<1>4. QED
  BY <1>2, <1>3

\* As long as the directory keeps to its first sector and there are free inode
\* numbers, the invariant holds, whatever is opened, shared, closed, created and
\* unlinked by whom.
THEOREM FsInvariant == Spec /\ []Roomy => []IInv
<1>1. Init => IInv
  BY InitInv
<1>2. IInv /\ Roomy /\ [Next]_vars => IInv'
  BY NextInv
<1>3. QED
  BY <1>1, <1>2, PTL DEF Spec

\* Every open file counts its descriptors and is freed with the last; every inode
\* in memory is there once, is counted for each descriptor, and is what the disk
\* has (do_open, do_close, fs_fork, fs_exit, get_inode, put_inode, do_unlink).
THEOREM TablesAreExact == Spec /\ []Roomy => []TablesExact
<1>1. IInv => TablesExact
  <2> SUFFICES ASSUME IInv
               PROVE  TablesExact
    OBVIOUS
  <2>1. FsTypeOK
    <3>1. \A s \in Slots : inode_table[s].num \in {0} \cup Inodes /\ inode_table[s].cnt \in Nat
      BY DEF IInv, Types
    <3>2. \A i \in Entries : dir[i].inode_nr \in {0} \cup Inodes
      BY DEF IInv, Types
    <3>3. QED
      BY <3>1, <3>2 DEF IInv, Types, FsTypeOK
  <2>2. CountsExact
    BY DEF IInv
  <2>3. InodesHeld
    <3> SUFFICES ASSUME NEW s \in Slots
                 PROVE  /\ inode_table[s].cnt >= Cardinality(Holders(s)) + (IF s = 1 THEN 1 ELSE 0)
                        /\ inode_table[s].cnt > 0 =>
                             /\ inode_table[s].num \in imap
                             /\ \A t \in Slots \ {s} : inode_table[t].num # inode_table[s].num
                             /\ IF s = 1 THEN [inode_table[s].di EXCEPT !.size = 0]
                                              = [disk_inode[1] EXCEPT !.size = 0]
                                ELSE inode_table[s].di = disk_inode[inode_table[s].num]
      BY DEF InodesHeld
    <3>1. inode_table[s].cnt >= Cardinality(Holders(s)) + (IF s = 1 THEN 1 ELSE 0)
      BY DEF IInv, Counted
    <3>2. inode_table[s].cnt > 0 => inode_table[s].cnt # 0
      <4>1. inode_table[s].cnt \in Nat
        BY DEF IInv, Types
      <4>2. QED
        BY <4>1
    <3>3. QED
      BY <3>1, <3>2 DEF IInv, Mirrors
  <2>4. QED
    BY <2>1, <2>2, <2>3 DEF TablesExact
<1>2. QED
  BY <1>1, FsInvariant, PTL

\* A descriptor keeps leading to the file it was opened on until its process
\* closes it or exits, in parents and children alike: FS implements OpenFiles.
THEOREM DescriptorsKeepTheirFiles == Spec /\ []Roomy => ImplementsOpenFiles
<1>1. Init => Objects!Init
  BY InitInv DEF Objects!Init, OpenOf, FileOf
<1>2. IInv /\ Roomy /\ [Next]_vars =>
         [Objects!Next]_<<[p \in Procs |-> IF life[p] = "born" THEN [fd \in Fds |-> 0] ELSE filp[p]],
                          [d \in Descs |-> IF f_desc_table[d].inode = 0 THEN 0
                                           ELSE inode_table[f_desc_table[d].inode].num]>>
  BY NextInv DEF ObjectsStep, OpenOf, FileOf
<1>3. QED
  BY <1>1, <1>2, FsInvariant, PTL DEF Spec, ImplementsOpenFiles, Objects!Spec

\* A number divided by another, and what is left, as the sector arithmetic uses them.
LEMMA Quotient ==
    ASSUME NEW a \in Nat, NEW b \in Nat \ {0}
    PROVE  \E q \in Nat, r \in Nat : q = a \div b /\ r = a % b /\ r < b /\ a = b * q + r
<1>1. a \div b \in Int /\ a % b \in Nat /\ a % b < b /\ a = b * (a \div b) + (a % b)
  OBVIOUS
<1>2. PICK q \in Int, r \in Nat : q = a \div b /\ r = a % b /\ r < b /\ a = b * q + r
  BY <1>1
<1>3. q >= 0
  <2>1. ASSUME q <= -1
        PROVE  FALSE
    <3>1. \A z \in Int : z <= -1 => b * z <= -b
      OBVIOUS
    <3>2. b * q <= -b /\ b * q \in Int
      BY <2>1, <3>1
    <3>3. PICK m \in Int : m = b * q
      BY <3>2
    <3>4. QED
      BY <1>2, <3>2, <3>3
  <2>2. QED
    BY <2>1
<1>4. q \in Nat
  BY <1>3
<1>5. QED
  BY <1>2, <1>4

\* Products grow with their factors: n sectors, and no more than n, are at most m.
LEMMA Products ==
    ASSUME NEW b \in Nat, NEW x \in Int, NEW y \in Int, x <= y
    PROVE  b * x \in Int /\ b * y \in Int /\ b * x <= b * y
OBVIOUS

\* Chunks of c sectors, as many as it takes, are at least n sectors.
LEMMA Chunks ==
    ASSUME NEW n \in Nat \ {0}, NEW c \in Nat \ {0}
    PROVE  (n + c - 1) \div c \in Nat /\ ((n + c - 1) \div c) * c >= n
<1>1. PICK q \in Nat, r \in Nat : q = (n + c - 1) \div c /\ r < c /\ n + c - 1 = c * q + r
  BY Quotient
<1>2. PICK m \in Nat : m = c * q /\ m = q * c
  BY <1>1
<1>3. QED
  BY <1>1, <1>2

\* do_rw transfers all of a length that fits, whatever the chunks and wherever in their
\* sectors it begins and ends.
LEMMA FittingBytes ==
    ASSUME NEW pos \in Nat, NEW len \in Nat
    PROVE  RwBytes(pos, len, pos + len) = len
<1>1. SECTOR \in Nat \ {0} /\ FSBUF_SECTS \in Nat \ {0}
  BY FsAssumption
<1>2. PICK a \in Nat, x \in Nat : a = pos \div SECTOR /\ x = pos % SECTOR /\ x < SECTOR /\ pos = SECTOR * a + x
  BY <1>1, Quotient
<1>3. PICK pos_end \in Nat, e \in Nat, y \in Nat :
         pos_end = pos + len /\ e = pos_end \div SECTOR /\ y < SECTOR /\ pos_end = SECTOR * e + y
  <2>1. PICK pos_end \in Nat : pos_end = pos + len
    OBVIOUS
  <2>2. QED
    BY <1>1, <2>1, Quotient
<1>4. PICK sa \in Nat, se \in Nat : sa = SECTOR * a /\ se = SECTOR * e
  BY <1>1
<1>5. a <= e
  <2>1. ASSUME e + 1 <= a
        PROVE  FALSE
    <3>1. SECTOR * (e + 1) <= sa
      BY <1>1, <1>4, <2>1, Products
    <3>2. SECTOR * (e + 1) = se + SECTOR
      BY <1>1, <1>4
    <3>3. QED
      BY <1>1, <1>2, <1>3, <1>4, <3>1, <3>2
  <2>2. QED
    BY <2>1
<1>6. PICK sects \in Nat \ {0} : sects = e - a + 1
  BY <1>5
<1>7. PICK chunk \in Nat \ {0} : chunk = MinOf(sects, FSBUF_SECTS)
  BY <1>1 DEF MinOf
<1>8. PICK loops \in Nat : loops = (sects + chunk - 1) \div chunk /\ loops * chunk >= sects
  BY Chunks
<1>9. PICK all \in Nat : all = loops * chunk /\ all >= sects
  BY <1>8
<1>10. PICK whole \in Nat : whole = all * SECTOR /\ whole >= SECTOR * sects
  <2>1. all * SECTOR \in Nat /\ all * SECTOR = SECTOR * all
    BY <1>1
  <2>2. SECTOR * sects <= SECTOR * all
    BY <1>1, <1>9, Products
  <2>3. QED
    BY <2>1, <2>2
<1>11. SECTOR * sects = se - sa + SECTOR
  BY <1>1, <1>4, <1>6
<1>12. whole - x > len
  BY <1>1, <1>2, <1>3, <1>4, <1>10, <1>11
<1>13. RwBytes(pos, len, pos_end) = MinOf(len, whole - x)
  <2>1. sects = pos_end \div SECTOR - pos \div SECTOR + 1 /\ ~(sects <= 0)
    <3>1. e = pos_end \div SECTOR /\ a = pos \div SECTOR
      BY <1>2, <1>3
    <3>2. sects = e - a + 1 /\ ~(sects <= 0)
      BY <1>6
    <3>3. QED
      BY <3>1, <3>2, Zenon
  <2>2. RwBytes(pos, len, pos_end) = MinOf(len, loops * chunk * SECTOR - x)
    BY <1>2, <1>7, <1>8, <2>1 DEF RwBytes
  <2>3. QED
    BY <1>9, <1>10, <2>2
<1>14. QED
  BY <1>3, <1>12, <1>13 DEF MinOf

\* The last sector of a transfer that ends within n sectors is one of them.
LEMMA LastSector ==
    ASSUME NEW end \in Nat \ {0}, NEW n \in Nat, end <= n * SECTOR
    PROVE  (end - 1) \div SECTOR \in Nat /\ (end - 1) \div SECTOR <= n - 1
<1>1. SECTOR \in Nat \ {0}
  BY FsAssumption
<1>2. PICK q \in Nat, r \in Nat : q = (end - 1) \div SECTOR /\ end - 1 = SECTOR * q + r
  BY <1>1, Quotient
<1>3. ASSUME n <= q
      PROVE  FALSE
  <2>1. SECTOR * n <= SECTOR * q /\ SECTOR * n = n * SECTOR /\ SECTOR * n \in Int /\ SECTOR * q \in Int
    BY <1>1, <1>3, Products
  <2>2. PICK sn \in Int, sq \in Int : sn = n * SECTOR /\ sq = SECTOR * q /\ sn <= sq
    BY <2>1
  <2>3. QED
    BY <1>2, <2>2
<1>4. QED
  BY <1>2, <1>3

\* A transfer that fits is of the file it was opened for, in its own sectors.
LEMMA TransferFits ==
    ASSUME IInv, NEW p \in Procs, NEW fd \in Fds, NEW type, NEW len \in Nat,
           Transfer(p, fd, type, len), NEW d, d = filp[p][fd], NEW s, s = f_desc_table[d].inode,
           NEW end, end = f_desc_table[d].pos + len,
           end <= IF type = "READ" THEN inode_table[s].di.size ELSE inode_table[s].di.nr * SECTOR
    PROVE  /\ f_desc_table'[d].pos = end
           /\ inode_table' = [inode_table EXCEPT ![s].di = Grown(s, end)]
           /\ type = "READ" => inode_table' = inode_table /\ data' = data
           /\ s \in Slots /\ inode_table'[s].di.size >= end
           /\ type # "READ" =>
                \A b \in Bits \ Sectors(inode_table[s].num) : data'[b] = data[b]
<1>1. d \in Descs /\ s \in Slots /\ filp[p][fd] # 0 /\ inode_table[s].di.mode = "reg"
  <2>1. filp[p][fd] # 0 /\ inode_table[s].di.mode = "reg"
    BY DEF Transfer
  <2>2. QED
    BY <2>1, Opened
<1>2. /\ f_desc_table \in [Descs -> [inode : {0} \cup Slots, pos : Nat, cnt : Nat, rdwr : BOOLEAN]]
      /\ inode_table \in InodeTables /\ Mirrors(inode_table, disk_inode, imap)
      /\ disk_inode \in [Inodes -> DiskInodes]
      /\ disk_inode[1].mode = "dir" /\ 1 \in Inodes
  BY Sizes DEF IInv, Types, InodeTables, Root, ROOT_INODE
<1>3. PICK pos \in Nat, di \in DiskInodes, num \in {0} \cup Inodes :
         pos = f_desc_table[d].pos /\ di = inode_table[s].di /\ num = inode_table[s].num
  BY <1>1, <1>2 DEF InodeTables
<1>4. end \in Nat /\ end = pos + len /\ di.size \in Nat /\ di.nr \in Nat /\ di.start \in Nat
  <2>1. di.size \in Nat /\ di.nr \in Nat /\ di.start \in Nat
    BY <1>3 DEF DiskInodes
  <2>2. end = pos + len /\ pos + len \in Nat
    BY <1>3
  <2>3. QED
    BY <2>1, <2>2
<1>5. SECTOR \in Nat \ {0}
  BY FsAssumption
<1>6. PICK bound \in Nat :
         /\ bound = IF type = "READ" THEN di.size ELSE di.nr * SECTOR
         /\ end <= bound
  <2>1. di.nr * SECTOR \in Nat
    BY <1>4, <1>5
  <2>2. QED
    BY <1>3, <1>4, <2>1
<1>7. MinOf(pos + len, bound) = pos + len
  BY <1>4, <1>6 DEF MinOf
<1>8. RwBytes(pos, len, MinOf(pos + len, bound)) = len
  BY <1>7, FittingBytes
<1>9. /\ f_desc_table' = [f_desc_table EXCEPT ![d].pos = @ + len]
      /\ inode_table' = [inode_table EXCEPT ![s].di = Grown(s, pos + len)]
      /\ data' = IF type = "WRITE" /\ len > 0
                 THEN [b \in Bits |-> IF b \in (di.start + pos \div SECTOR) ..
                                               (di.start + (pos + len - 1) \div SECTOR)
                                      THEN num ELSE data[b]]
                 ELSE data
  <2> DEFINE bytes == RwBytes(pos, len, MinOf(pos + len, bound))
  <2>1. /\ f_desc_table' = [f_desc_table EXCEPT ![d].pos = @ + bytes]
        /\ inode_table' = [inode_table EXCEPT ![s].di = Grown(s, pos + bytes)]
        /\ data' = IF type = "WRITE" /\ bytes > 0
                   THEN [b \in Bits |-> IF b \in (di.start + pos \div SECTOR) ..
                                                 (di.start + (pos + bytes - 1) \div SECTOR)
                                        THEN num ELSE data[b]]
                   ELSE data
    BY <1>3, <1>6, Zenon DEF Transfer
  <2>2. bytes = len
    BY <1>8
  <2> HIDE DEF bytes
  <2>3. QED
    BY <2>1, <2>2, Zenon
<1>10. f_desc_table'[d].pos = end
  BY <1>1, <1>2, <1>3, <1>4, <1>9
<1>11. inode_table' = [inode_table EXCEPT ![s].di = Grown(s, end)]
  BY <1>4, <1>9
<1>12. Grown(s, end) = [di EXCEPT !.size = IF end > di.size THEN end ELSE di.size]
  BY <1>3 DEF Grown
<1>13. inode_table'[s].di.size >= end
  <2>1. inode_table'[s].di = Grown(s, end)
    BY <1>1, <1>2, <1>11 DEF InodeTables
  <2>2. Grown(s, end).size = IF end > di.size THEN end ELSE di.size
    BY <1>12 DEF DiskInodes
  <2>3. QED
    BY <1>4, <2>1, <2>2
<1>14. ASSUME type = "READ"
       PROVE  inode_table' = inode_table /\ data' = data
  <2>1. Grown(s, end) = di
    BY <1>4, <1>6, <1>12, <1>14 DEF DiskInodes
  <2>2. inode_table' = [inode_table EXCEPT ![s].di = inode_table[s].di]
    BY <1>3, <1>11, <2>1
  <2>3. \A x \in [num : {0} \cup Inodes, cnt : Nat, di : DiskInodes] : [x EXCEPT !.di = x.di] = x
    OBVIOUS
  <2>4. inode_table' = [inode_table EXCEPT ![s] = inode_table[s]]
    BY <1>1, <1>2, <2>2, <2>3 DEF InodeTables
  <2>5. QED
    BY <1>1, <1>2, <1>9, <1>14, <2>4 DEF InodeTables
<1>15. ASSUME type # "READ", NEW b \in Bits \ Sectors(num)
       PROVE  data'[b] = data[b]
  <2>1. di.nr = disk_inode[num].nr /\ di.start = disk_inode[num].start
    <3>1. inode_table[s].cnt # 0 /\ inode_table[1].cnt # 0
      <4>1. s # 0 /\ 1 \in Slots /\ inode_table[s].cnt \in Nat /\ inode_table[1].cnt \in Nat
        BY <1>1, <1>2, Sizes DEF InodeTables
      <4>2. QED
        BY <1>1, <4>1, InodeHeld, RootHeld
    <3>2. s # 1
      <4>1. [inode_table[1].di EXCEPT !.size = 0] = [disk_inode[1] EXCEPT !.size = 0]
        BY <1>2, <3>1, Sizes DEF Mirrors
      <4>2. inode_table[1].di \in DiskInodes /\ disk_inode[1] \in DiskInodes
        BY <1>2, Sizes DEF InodeTables
      <4>3. inode_table[1].di.mode = [inode_table[1].di EXCEPT !.size = 0].mode
        BY <4>2 DEF DiskInodes
      <4>4. disk_inode[1].mode = [disk_inode[1] EXCEPT !.size = 0].mode
        BY <4>2 DEF DiskInodes
      <4>5. inode_table[1].di.mode = "dir"
        BY <1>2, <4>1, <4>3, <4>4
      <4>6. QED
        BY <1>1, <4>5
    <3>3. inode_table[s].di = disk_inode[inode_table[s].num]
      BY <1>1, <1>2, <3>1, <3>2, ZenonT(40) DEF Mirrors
    <3>4. QED
      BY <1>3, <3>3
  <2>2. CASE type = "WRITE" /\ len > 0
    <3>1. PICK first \in Nat : first = pos \div SECTOR
      BY <1>5, Quotient
    <3>2. PICK last \in Nat : last = (pos + len - 1) \div SECTOR /\ last <= di.nr - 1
      <4>1. end \in Nat \ {0} /\ end <= di.nr * SECTOR
        BY <1>4, <1>6, <1>15, <2>2
      <4>2. (end - 1) \div SECTOR \in Nat /\ (end - 1) \div SECTOR <= di.nr - 1
        BY <1>4, <4>1, LastSector
      <4>3. QED
        BY <1>4, <4>2
    <3>3. b \notin (di.start + first) .. (di.start + last)
      BY <1>4, <1>15, <2>1, <3>1, <3>2 DEF Sectors, Run, Bits
    <3>4. QED
      BY <1>9, <1>15, <2>2, <3>1, <3>2, <3>3
  <2>3. CASE ~(type = "WRITE" /\ len > 0)
    BY <1>9, <2>3
  <2>4. QED
    BY <2>2, <2>3
<1>16. QED
  BY <1>1, <1>3, <1>10, <1>11, <1>13, <1>14, <1>15

\* A read or a write that fits moves the position by the length asked for, whatever the
\* sizes of sectors and of FS's buffer; the read changes nothing else, and the write only
\* sectors of its own file and what the inode says of its size (do_rw).
THEOREM TransfersFit == Spec /\ []Roomy => FittingTransfer
<1>1. ASSUME IInv, NEW p \in work.procs, NEW fd \in Fds, NEW len \in work.lengths, filp[p][fd] # 0
      PROVE  LET d    == filp[p][fd]
                 ino  == inode_table[f_desc_table[d].inode]
                 end  == f_desc_table[d].pos + len
                 mine == Sectors(ino.num)
             IN  /\ Read(p, fd, len) /\ end <= ino.di.size =>
                      f_desc_table'[d].pos = end /\ UNCHANGED <<inode_table, data>>
                 /\ Write(p, fd, len) /\ end <= ino.di.nr * SECTOR =>
                      /\ f_desc_table'[d].pos = end /\ inode_table'[f_desc_table[d].inode].di.size >= end
                      /\ \A b \in Bits \ mine : data'[b] = data[b]
  <2> PICK d : d = filp[p][fd]
    OBVIOUS
  <2> PICK s : s = f_desc_table[d].inode
    OBVIOUS
  <2> PICK end : end = f_desc_table[d].pos + len
    OBVIOUS
  <2>1. p \in Procs /\ len \in Nat
    BY <1>1, FsAssumption DEF IInv, Types
  <2>2. ASSUME Read(p, fd, len), end <= inode_table[s].di.size
        PROVE  f_desc_table'[d].pos = end /\ inode_table' = inode_table /\ data' = data
    BY <1>1, <2>1, <2>2, TransferFits DEF Read
  <2>3. ASSUME Write(p, fd, len), end <= inode_table[s].di.nr * SECTOR
        PROVE  /\ f_desc_table'[d].pos = end /\ inode_table'[s].di.size >= end
               /\ \A b \in Bits \ Sectors(inode_table[s].num) : data'[b] = data[b]
    BY <1>1, <2>1, <2>3, TransferFits DEF Write
  <2>4. QED
    BY <2>2, <2>3
<1>2. IInv => \A p \in work.procs, fd \in Fds, len \in work.lengths :
                 filp[p][fd] # 0 =>
                    LET d    == filp[p][fd]
                        ino  == inode_table[f_desc_table[d].inode]
                        end  == f_desc_table[d].pos + len
                        mine == Sectors(ino.num)
                    IN  /\ Read(p, fd, len) /\ end <= ino.di.size =>
                             f_desc_table'[d].pos = end /\ UNCHANGED <<inode_table, data>>
                        /\ Write(p, fd, len) /\ end <= ino.di.nr * SECTOR =>
                             /\ f_desc_table'[d].pos = end /\ inode_table'[f_desc_table[d].inode].di.size >= end
                             /\ \A b \in Bits \ mine : data'[b] = data[b]
  BY <1>1
<1>3. QED
  BY <1>2, FsInvariant, PTL DEF FittingTransfer
================================================================================
