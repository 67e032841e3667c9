--------------------------------- MODULE MCHd ---------------------------------
(* An instance of Hd: a disk of 14 sectors with one primary partition and an  *)
(* extended one with three logical partitions.                                *)
EXTENDS Hd

MCTasks == {1, 2, 3, 4}
MCIntTasks == {1}
MCSectors == 0 .. 13
MCPrimary == <<[sys_id |-> "ORANGE_PART", start |-> 1, nr |-> 3],
               [sys_id |-> "EXT_PART", start |-> 4, nr |-> 10], NoPart, NoPart>>
MCLogical == 2 :> <<[at |-> 4, base |-> 5, size |-> 2], [at |-> 7, base |-> 8, size |-> 2],
                    [at |-> 10, base |-> 11, size |-> 3]>>

\* All requests for a logical partition, on a disk that may be too slow.
Transfers ==
    [device |-> 21, positions |-> {0, 2}, counts |-> {4, 6}, values |-> {101, 102},
     calls |-> {"DEV_OPEN", "DEV_CLOSE", "DEV_READ", "DEV_WRITE", "DEV_IOCTL"},
     askers |-> {}, timeouts |-> TRUE, maxCalls |-> 4]

\* A primary partition, while another process asks for the time.
Asking ==
    [device |-> 1, positions |-> {0}, counts |-> {2, 6}, values |-> {101},
     calls |-> {"DEV_OPEN", "DEV_READ", "DEV_WRITE"},
     askers |-> {4}, timeouts |-> FALSE, maxCalls |-> 2]

MCSettings == {Transfers, Asking}
================================================================================
