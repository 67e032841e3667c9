--------------------------------- MODULE MCTty ---------------------------------
(***************************************************************************)
(* Tty: one program alone, and two programs on terminals of their own.     *)
(***************************************************************************)
EXTENDS Tty

MCProcs == {1, 2, 5, 6}
MCIntTasks == {1}
MCTtys == {"tty0", "tty1"}
MCNext == [t \in MCTtys |-> IF t = "tty0" THEN "tty1" ELSE NO_TASK]

OneReader == [uses |-> {<<5, "tty0">>}, calls |-> {"OPEN", "READ"},
          keys |-> {"char", "backspace", "enter"}, maxKeys |-> 3]
Readers == [uses |-> {<<5, "tty0">>, <<6, "tty1">>}, calls |-> {"READ"},
            keys |-> {"enter", "tty1"}, maxKeys |-> 2]
Mixed == [uses |-> {<<5, "tty0">>, <<6, "tty1">>}, calls |-> {"READ", "WRITE"},
          keys |-> {"enter"}, maxKeys |-> 1]
MCSessions == {OneReader, Readers, Mixed}
=============================================================================
