--------------------------------- MODULE Untar ---------------------------------
(***************************************************************************)
(* untar (kernel/main.c): Init unpacks the archive with the commands into  *)
(* files of their own, a file at a time, through one buffer that holds     *)
(* first the header and then the data.  The file system is what untar sees *)
(* of it: read goes on where the last one ended, write appends to the file *)
(* just created, and a file that exists cannot be created.                 *)
(*                                                                         *)
(* A byte is a number.  A header is a name, one byte long, and the size in *)
(* octal digits, ended by a zero byte.                                     *)
(***************************************************************************)
EXTENDS Integers, Sequences, SequencesExt

CONSTANTS
    SECTOR,           \* SECTOR_SIZE
    CHUNK,            \* 16: sectors of the buffer
    Names, Sizes,     \* names and sizes of files
    MaxFiles,         \* bound: files of an archive
    DIGITS            \* 11: digits of the size

VARIABLES
    files,            \* what the archive was made from
    pos,              \* position in the archive
    buf, bytes_left,  \* the buffer; what is missing of the file
    name, stored,     \* the file being written; the files and what is in them
    open,             \* what is open: the archive, a file
    tar_pc

untarVars == <<files, pos, buf, bytes_left, name, stored, open, tar_pc>>

\* The archive is one of files: names are not zero, sizes fit into the header.
ASSUME UntarAssumption ==
    /\ SECTOR \in Nat /\ SECTOR >= DIGITS + 2 /\ CHUNK \in Nat \ {0}
    /\ Names \subseteq Nat \ {0} /\ Sizes \subseteq 0 .. 8 ^ DIGITS - 1

(***************************************************************************)
(* An archive                                                              *)
(***************************************************************************)

\* Bytes that tell where they belong; the first one is zero, as in a header that ends
\* an archive.
Content(f) == [i \in 1 .. f.size |-> IF i = 1 THEN 0 ELSE 100 * f.name + i]

Zero == 48                            \* the character 0
Zeroes(n) == [i \in 1 .. n |-> 0]
RoundUp(n) == ((n + SECTOR - 1) \div SECTOR) * SECTOR

Header(f) ==
    <<f.name>> \o [i \in 1 .. DIGITS |-> Zero + ((f.size \div 8 ^ (DIGITS - i)) % 8)]
               \o Zeroes(SECTOR - DIGITS - 1)

Packed(f) == Header(f) \o Content(f) \o Zeroes(RoundUp(f.size) - f.size)

Archive == FlattenSeq([i \in DOMAIN files |-> Packed(files[i])]) \o Zeroes(2 * SECTOR)

\* Where the header behind the first n files is.
Offset(n) == Len(FlattenSeq([i \in 1 .. n |-> Packed(files[i])]))

Archives == SeqOf([name : Names, size : Sizes], MaxFiles)

UntarInit(packed) ==
    /\ files = packed
    /\ pos = 0 /\ buf = Zeroes(CHUNK * SECTOR) /\ bytes_left = 0
    /\ name = 0 /\ stored = << >> /\ open = {"archive"} /\ tar_pc = "header"

(***************************************************************************)
(* untar                                                                   *)
(***************************************************************************)

\* The buffer after read(fd, buf, n).
Read(n) == [i \in DOMAIN buf |-> IF i <= n THEN Archive[pos + i] ELSE buf[i]]

\* The octal digits up to the first zero byte.
f_len(b) ==
    LET end == CHOOSE i \in 2 .. SECTOR : b[i] = 0 /\ \A j \in 2 .. i - 1 : b[j] # 0
    IN  FoldLeft(LAMBDA len, c : len * 8 + (c - Zero), 0, SubSeq(b, 2, end - 1))

\* A header with no name ends the archive.
End ==
    /\ tar_pc = "header" /\ Archive[pos + 1] = 0
    /\ pos' = pos + SECTOR /\ buf' = Read(SECTOR)
    /\ tar_pc' = "end"
    /\ UNCHANGED <<files, bytes_left, name, stored, open>>

CloseArchive ==
    /\ tar_pc = "end"
    /\ open' = open \ {"archive"} /\ tar_pc' = "done"
    /\ UNCHANGED <<files, pos, buf, bytes_left, name, stored>>

\* The next file is created ...
Create ==
    /\ tar_pc = "header" /\ Archive[pos + 1] # 0
    /\ pos' = pos + SECTOR /\ buf' = Read(SECTOR)
    /\ bytes_left' = f_len(buf') /\ name' = buf'[1]
    /\ name' \notin DOMAIN stored
    /\ stored' = [n \in DOMAIN stored \cup {name'} |-> IF n = name' THEN << >> ELSE stored[n]]
    /\ open' = open \cup {"file"} /\ tar_pc' = "data"
    /\ UNCHANGED files

\* ... or exists, and untar gives up; the archive stays open.
Abort ==
    /\ tar_pc = "header" /\ Archive[pos + 1] # 0
    /\ pos' = pos + SECTOR /\ buf' = Read(SECTOR)
    /\ bytes_left' = f_len(buf')
    /\ buf'[1] \in DOMAIN stored
    /\ tar_pc' = "aborted"
    /\ UNCHANGED <<files, name, stored, open>>

\* Wrong: as many bytes are read as are written.
ToRead_Exact(iobytes) == iobytes

\* Whole sectors are read.
ToRead(iobytes) == ((iobytes - 1) \div SECTOR + 1) * SECTOR

\* A buffer of data, or what is left of it.
Chunk ==
    /\ tar_pc = "data" /\ bytes_left # 0
    /\ LET iobytes == IF CHUNK * SECTOR < bytes_left THEN CHUNK * SECTOR ELSE bytes_left
           n == ToRead(iobytes)
       IN  /\ buf' = Read(n) /\ pos' = pos + n
           /\ stored' = [stored EXCEPT ![name] = @ \o SubSeq(buf', 1, iobytes)]
           /\ bytes_left' = bytes_left - iobytes
    /\ UNCHANGED <<files, name, open, tar_pc>>

CloseFile ==
    /\ tar_pc = "data" /\ bytes_left = 0
    /\ open' = open \ {"file"} /\ tar_pc' = "header"
    /\ UNCHANGED <<files, pos, buf, bytes_left, name, stored>>

UntarNext == End \/ CloseArchive \/ Create \/ Abort \/ Chunk \/ CloseFile

UntarSpec == (\E packed \in Archives : UntarInit(packed)) /\ [][UntarNext]_untarVars

(***************************************************************************)
(* Properties                                                              *)
(***************************************************************************)

\* The files made from the first n of the archive.
Unpacked(n) ==
    /\ DOMAIN stored = {files[i].name : i \in 1 .. n}
    /\ \A i \in 1 .. n : stored[files[i].name] = Content(files[i])

\* Whenever untar looks for a header it is at one, and the files before it are stored
\* byte for byte, and no others.  When it gives up this holds of the files before the
\* one that exists already.
UnpackedSoFar ==
    /\ tar_pc = "header" => \E n \in 0 .. Len(files) : pos = Offset(n) /\ Unpacked(n)
    /\ tar_pc = "aborted" => \E n \in 0 .. Len(files) - 1 :
           /\ pos = Offset(n) + SECTOR /\ Unpacked(n)
           /\ files[n + 1].name \in DOMAIN stored
    /\ tar_pc = "done" => Unpacked(Len(files)) /\ open = {}
================================================================================
