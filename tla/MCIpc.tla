-------------------------------- MODULE MCIpc --------------------------------
(***************************************************************************)
(* Ipc on four process slots, one of which takes interrupts: three senders *)
(* can queue up for the fourth, so that a RECEIVE unlinks from the middle. *)
(***************************************************************************)
EXTENDS Ipc, TLC

CONSTANTS tty, fs, mm, a, m1, m2

MCProcs == {tty, fs, mm, a}
MCIntTasks == {tty}
MCBodies == {m1, m2}

\* Only tty is told apart from the others: it takes interrupts.
MCSymmetry == Permutations({fs, mm, a}) \cup Permutations({m1, m2})
=============================================================================
