-------------------------------- MODULE MCDmi --------------------------------
(***************************************************************************)
(* Accesses are numbered, so that a word mixed up shows; the queue of      *)
(* answers has the two places it has in the code.                          *)
(***************************************************************************)
EXTENDS Dmi
=============================================================================
