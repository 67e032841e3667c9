--------------------------------- MODULE MCMm ---------------------------------
(***************************************************************************)
(* Mm with Init and a few slots for forked processes.                      *)
(***************************************************************************)
EXTENDS Mm, TLC

MCProcs2 == {4, 5, 9, 10}
MCProcs3 == {4, 5, 9, 10, 11}
MCIntTasks == {}

All(calls) == [q \in Procs |-> calls]
Uninterrupted ==
    [calls |-> All({"FORK", "WAIT", "EXIT"}), slots |-> Slots, atomic |-> TRUE]
MCUninterrupted == {Uninterrupted}

\* Two slots, with and without exec and updates that are interrupted; and three, with a
\* shell that only forks and waits, whose child can exit and leave a zombie to Init.
Interrupted ==
    [calls |-> All({"FORK", "WAIT", "EXIT", "EXEC"}), slots |-> {9, 10}, atomic |-> FALSE]
Orphaning ==
    [calls |-> 5 :> {"FORK", "WAIT"} @@ 9 :> {"FORK", "WAIT"} @@ 10 :> {"FORK", "EXIT"}
               @@ All({"EXIT"}),
     slots |-> Slots, atomic |-> TRUE]
MCLive == {[Uninterrupted EXCEPT !.slots = {9, 10}], Interrupted, Orphaning}
=============================================================================
