------------------------------ MODULE MCSendList ------------------------------
(***************************************************************************)
(* SendList with five processes: a queue with a first, a last and two      *)
(* middle senders.                                                         *)
(***************************************************************************)
EXTENDS SendList

CONSTANTS p1, p2, p3, p4, p5

MCProcs == {p1, p2, p3, p4, p5}
=============================================================================
