-------------------------------- MODULE MCUser --------------------------------
(* An instance of the sequential code that runs in programs: formatted output  *)
(* (Format), the words of a command (Exec) and the archive of the commands     *)
(* (Untar).  A behaviour does one of the three jobs; the others stay at rest   *)
(* with nothing to do.                                                         *)
EXTENDS Format, Exec, Untar

VARIABLE job

MCWidths == {0, 1, 3, 12}
MCInts == {-100, -16, -9, 0, 7, 9, 10, 15, 16, 100, 127}
MCTexts == {<< >>, <<"s">>, <<"s", "t", "u", "v">>}
MCLetters == {97, 98}

\* Around one sector, and around one and two buffers.
MCSizes == {0, 1, 4, 5, 8, 9, 16, 17}

UserInit ==
    \/ job = "format" /\ ExecInit(<< >>) /\ UntarInit(<< >>) /\ \E l \in Formats : FormatInit(l)
    \/ job = "exec" /\ FormatInit(<< >>) /\ UntarInit(<< >>) /\ \E l \in Lines : ExecInit(l)
    \/ job = "untar" /\ FormatInit(<< >>) /\ ExecInit(<< >>) /\ \E a \in Archives : UntarInit(a)

UserNext ==
    /\ \/ job = "format" /\ FormatNext /\ UNCHANGED <<execVars, untarVars>>
       \/ job = "exec" /\ ExecNext /\ UNCHANGED <<formatVars, untarVars>>
       \/ job = "untar" /\ UntarNext /\ UNCHANGED <<formatVars, execVars>>
    /\ UNCHANGED job

UserSpec == UserInit /\ [][UserNext]_<<job, formatVars, execVars, untarVars>>
================================================================================
