--------------------------------- MODULE MCFs ---------------------------------
(* An instance of Fs: two processes that share descriptors; one that fills the   *)
(* disk and removes files; one that reads and writes.                            *)
EXTENDS Fs

CONSTANTS p1, p2

MCNameLen == [n \in AllNames |-> 2]

Sharing == [procs |-> {p1, p2}, names |-> {"a", "dev_tty0"}, lengths |-> {}]
Filling == [procs |-> {p1}, names |-> {"a", "b", "c", "cmd.tar"}, lengths |-> {}]
Writing == [procs |-> {p1}, names |-> {"a"}, lengths |-> {1, 3, 5}]
MCWorkloads == {Sharing, Filling, Writing}
================================================================================
