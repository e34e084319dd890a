------------------------------ MODULE MCUdmaTx ------------------------------
(***************************************************************************)
(* Two channels: one of single bytes from a slow target, one of two-byte   *)
(* beats that start at an odd address of the L2 memory, so that each beat  *)
(* lies in two words.                                                      *)
(***************************************************************************)
EXTENDS UdmaTx

Job(start, size, continuous) ==
  [start |-> start, size |-> size, continuous |-> continuous]

MCBytes == [c \in 0 .. 1 |-> c + 1]
MCDest == [c \in 0 .. 1 |-> IF c = 0 THEN "axi" ELSE "l2"]
MCJobs == [c \in 0 .. 1 |-> IF c = 0 THEN {Job(0, 1, TRUE)} ELSE {Job(1, 3, FALSE)}]
=============================================================================
