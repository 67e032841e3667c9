------------------------------ MODULE OpenFiles ------------------------------
(***************************************************************************)
(* What the descriptor tables of FS promise: a process's descriptors refer *)
(* to open files; an open file stays the same file for as long as somebody *)
(* refers to it, is shared with the children of its users, and goes away   *)
(* with the last reference.  There are no counters here.                   *)
(***************************************************************************)
CONSTANTS Procs, Fds, Objects, Files, None

VARIABLES open,   \* the open file of each descriptor of each process, or None
          file    \* the file each open file is, or None

Referenced(o) == \E p \in Procs, fd \in Fds : open'[p][fd] = o

\* Open files without references go away.
Settle == file' = [o \in Objects |-> IF Referenced(o) THEN file[o] ELSE None]

Init ==
    /\ open = [p \in Procs |-> [fd \in Fds |-> None]]
    /\ file = [o \in Objects |-> None]

Open(p, fd, o, n) ==
    /\ open[p][fd] = None /\ file[o] = None
    /\ open' = [open EXCEPT ![p][fd] = o]
    /\ file' = [file EXCEPT ![o] = n]

Close(p, fd) ==
    /\ open[p][fd] # None
    /\ open' = [open EXCEPT ![p][fd] = None]
    /\ Settle

Fork(parent, child) ==
    /\ open[child] = [fd \in Fds |-> None]
    /\ open' = [open EXCEPT ![child] = open[parent]]
    /\ UNCHANGED file

Exit(p) ==
    /\ open' = [open EXCEPT ![p] = [fd \in Fds |-> None]]
    /\ Settle

Next ==
    \/ \E p \in Procs, fd \in Fds, o \in Objects, n \in Files : Open(p, fd, o, n)
    \/ \E p \in Procs, fd \in Fds : Close(p, fd)
    \/ \E p, q \in Procs : Fork(p, q)
    \/ \E p \in Procs : Exit(p)

Spec == Init /\ [][Next]_<<open, file>>
=============================================================================
