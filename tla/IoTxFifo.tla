------------------------------ MODULE IoTxFifo ------------------------------
(***************************************************************************)
(* io_tx_fifo.sv over io_generic_fifo.sv: a peripheral's transmit buffer,  *)
(* which asks for data ahead of need and counts what it has asked for.     *)
(* The words are abstracted to their number.  The registers f are elements *)
(* and inflight (r_inflight); inputs are gnt, valid (a word arrives) and   *)
(* ready (the peripheral takes one).                                       *)
(***************************************************************************)
EXTENDS Naturals

CONSTANTS
  BufferDepth,   (* BUFFER_DEPTH                                           *)
  InflightMod    (* range of r_inflight, of $clog2(BUFFER_DEPTH) + 1 bits  *)

ASSUME BufferAssumption ==
  /\ BufferDepth \in Nat /\ BufferDepth > 0
  /\ InflightMod \in Nat /\ InflightMod >= 2 * BufferDepth

FifoReset == [elements |-> 0, inflight |-> 0]

ReadyO(f) == f.elements # BufferDepth
ValidO(f) == f.elements # 0

(* A request only when the words on their way leave room for one more.     *)
ReqOEager(f) == ReadyO(f)
ReqO(f) == ReadyO(f) /\ BufferDepth - f.elements # f.inflight

In(f, valid) == valid /\ ReadyO(f)
Out(f, ready) == ready /\ ValidO(f)

Elements(f, valid, ready) ==
  CASE Out(f, ready) /\ ~In(f, valid) -> f.elements - 1
    [] In(f, valid) /\ ~Out(f, ready) -> f.elements + 1
    [] OTHER -> f.elements
Inflight(f, gnt, valid) ==
  CASE ReqO(f) /\ gnt /\ ~In(f, valid) -> (f.inflight + 1) % InflightMod
    [] In(f, valid) /\ ~(ReqO(f) /\ gnt) -> (f.inflight + InflightMod - 1) % InflightMod
    [] OTHER -> f.inflight

FifoNext(f, gnt, valid, ready) ==
  [elements |-> Elements(f, valid, ready), inflight |-> Inflight(f, gnt, valid)]
=============================================================================
