-------------------------- MODULE ApbInterruptCntrl --------------------------
(***************************************************************************)
(* apb_interrupt_cntrl.sv: 32 interrupt lines for the fabric controller,   *)
(* one of which stands for the FIFO of event ids from the event generator. *)
(* The variables of the FIFO are those of GenericFifo; a bit vector over   *)
(* the lines is the set of its set bits.  One step is one clock edge.      *)
(*                                                                         *)
(* The core is external: as the controller uses it, it samples request and *)
(* id, may take any number of cycles before it takes the interrupt, and    *)
(* acknowledges with the id it sampled; it samples again only afterwards.  *)
(***************************************************************************)
EXTENDS GenericFifo

CONSTANTS
  Line,       (* the interrupt lines, 0 to 31                              *)
  FifoLine,   (* the line of the event FIFO, 26                            *)
  NoIrq,      (* the core has sampled no interrupt                         *)
  WriteData   (* bound: pwdata of the APB writes                           *)

ASSUME LineAssumption ==
  /\ Line \subseteq Nat /\ FifoLine \in Line /\ NoIrq \notin Line
  /\ WriteData \subseteq SUBSET Line

VARIABLES
  irqMask,    (* r_mask, a set bit enables                                 *)
  int,        (* r_int                                                     *)
  ack,        (* r_ack                                                     *)
  fifoEvent,  (* r_fifo_event                                              *)
  coreId,     (* the core: the id sampled and not yet acknowledged         *)
  spoiled     (* history: software meddled with the FIFO's line, see below *)

ctrlVars == <<irqMask, int, ack, fifoEvent>>
irqVars == <<fifoVars, ctrlVars, coreId, spoiled>>

NoWrite == [reg |-> "NONE", op |-> "ASSIGN", data |-> {}]
Writes ==
  [reg : {"MASK", "INT", "ACK"}, op : {"ASSIGN", "SET", "CLEAR"}, data : WriteData]

-----------------------------------------------------------------------------
(* s_events: events_i with the FIFO's valid in place of its line.          *)
LinesShifted(events) ==
  IF ValidO THEN events \cup {FifoLine + 1} ELSE events
Lines(events) ==
  IF ValidO THEN events \cup {FifoLine} ELSE events \ {FifoLine}

(* core_irq_req_o and core_irq_id_o: the highest line pending and enabled. *)
Requests == int \cap irqMask
IrqId == {l \in Requests : \A m \in Requests : m <= l}

(* What a write makes of a register.                                       *)
Written(old, w) ==
  CASE w.op = "ASSIGN" -> w.data
    [] w.op = "SET" -> old \cup w.data
    [] w.op = "CLEAR" -> old \ w.data

(* The writes that clear the FIFO's line also consume its first word.      *)
PopsFifoAssign(w) == w.reg = "INT" /\ w.op = "ASSIGN" /\ FifoLine \notin w.data
PopsFifo(w) ==
  /\ w.reg = "INT"
  /\ \/ w.op = "CLEAR" /\ FifoLine \in w.data
     \/ w.op = "ASSIGN" /\ FifoLine \notin w.data

(* s_event_fifo_ready                                                      *)
FifoReadyAnyAck(acked, w) == acked # {} \/ PopsFifo(w)
FifoReady(acked, w) == FifoLine \in acked \/ PopsFifo(w)

IntNextById(acked, w, lines) ==
  (IF w.reg = "INT" THEN Written(int \cup lines, w) ELSE int \cup lines)
    \ (IF acked = {} THEN {} ELSE IrqId)
IntNext(acked, w, lines) ==
  (IF w.reg = "INT" THEN Written(int \cup lines, w) ELSE int \cup lines) \ acked

-----------------------------------------------------------------------------
(* The registers after reset, but for the mask.                            *)
CtrlReset ==
  /\ Init
  /\ int = {}
  /\ ack = {}
  /\ fifoEvent = Zero
  /\ coreId = NoIrq
  /\ spoiled = FALSE

(* One clock edge of the controller: a word d offered to the FIFO, the     *)
(* other lines' events, the id the core acknowledges, the APB write.       *)
FifoEventLate(acked, w) ==
  fifoEvent' = IF ValidO' /\ FifoReady(acked, w) THEN regs'[pop'] ELSE fifoEvent
FifoEvent(acked, w) ==
  fifoEvent' = IF ValidO /\ FifoReady(acked, w) THEN DataO ELSE fifoEvent

CtrlClock(valid, d, events, acked, w) ==
  /\ Clock(valid, d, FifoReady(acked, w))
  /\ irqMask' = IF w.reg = "MASK" THEN Written(irqMask, w) ELSE irqMask
  /\ int' = IntNext(acked, w, Lines(events))
  /\ ack' = (IF w.reg = "ACK" THEN Written(ack, w) ELSE ack) \cup acked
  /\ FifoEvent(acked, w)

(* The core's side of the edge.                                            *)
CoreSample == coreId = NoIrq /\ coreId' \in IrqId
CoreWait == UNCHANGED coreId
CoreTake == coreId # NoIrq /\ coreId' = NoIrq

(* History: software raised the FIFO's line with no word behind it, or     *)
(* consumed the word behind it while the core was about to take it.        *)
Spoil(acked, w) ==
  spoiled' =
    /\ FifoLine \in int' \/ coreId' = FifoLine
    /\ \/ spoiled
       \/ w.reg = "INT" /\ w.op # "CLEAR" /\ FifoLine \in w.data /\ ~ValidO
       \/ PopsFifo(w) /\ coreId' = FifoLine

Edge(valid, d, events, w) ==
  \/ /\ CoreSample \/ CoreWait
     /\ CtrlClock(valid, d, events, {}, w)
     /\ Spoil({}, w)
  \/ /\ CoreTake
     /\ CtrlClock(valid, d, events, {coreId}, w)
     /\ Spoil({coreId}, w)

IrqInit == CtrlReset /\ irqMask = {}

(* Without a valid, the data lines of the FIFO carry anything: zero here.  *)
IrqNext ==
  \E valid \in BOOLEAN, d \in Data, events \in SUBSET Line, w \in Writes \cup {NoWrite} :
    (valid \/ d = Zero) /\ Edge(valid, d, events, w)

IrqSpec == IrqInit /\ [][IrqNext]_irqVars

-----------------------------------------------------------------------------
(* Registers hold lines and words, the core a line or none.                *)
CtrlTypeOK ==
  /\ irqMask \subseteq Line /\ int \subseteq Line /\ ack \subseteq Line
  /\ fifoEvent \in Data
  /\ coreId \in Line \cup {NoIrq}
  /\ spoiled \in BOOLEAN

(* While the FIFO's line is pending, or the core is about to take it, the  *)
(* FIFO holds the event the handler will ask for, unless software spoiled  *)
(* it: the line follows the FIFO by a cycle, in both directions.           *)
PendingHasEvent ==
  (FifoLine \in int \/ coreId = FifoLine) /\ ~spoiled => ValidO

(* Taking the FIFO's interrupt puts the oldest queued event into the FIFO  *)
(* register: never the event of the last time.                             *)
TakesOldest ==
  [][coreId = FifoLine /\ coreId' = NoIrq /\ ~spoiled
       => Contents # <<>> /\ fifoEvent' = Contents[1]]_irqVars

(* Without a register write, the only pending line to go is the one the    *)
(* core sampled, when it takes it, whichever line has priority by then.    *)
NoWriteEdge ==
  \E valid \in BOOLEAN, d \in Data, events \in SUBSET Line : Edge(valid, d, events, NoWrite)
OnlyTakenLineGoes ==
  [][NoWriteEdge => \A l \in int \ int' : l = coreId /\ coreId' = NoIrq]_irqVars

(* apb_interrupt_ctrl.tex: the FIFO register contains the first valid      *)
(* value of the FIFO.                                                      *)
RegisterShowsFirst == Contents # <<>> => fifoEvent = Contents[1]
=============================================================================
