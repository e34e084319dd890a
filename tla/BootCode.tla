------------------------------ MODULE BootCode ------------------------------
(***************************************************************************)
(* The boot code on its hardware: BootLoader with the polling loops of     *)
(* wait_soc_event and wait_clock_ref, register access by register access,  *)
(* on the interrupt controller.  Interrupts are off in the core: it takes  *)
(* none, wfi returns when an enabled line is pending.  One step is a clock *)
(* edge, at which software makes at most one access.                       *)
(*                                                                         *)
(* The uDMA and the flash are external: a request ends some time later,    *)
(* its data are in memory by the time its event reaches the controller.    *)
(***************************************************************************)
EXTENDS BootLoader

CONSTANTS
  NbTicks,           (* the 20 ticks of the clock reference before power is good *)
  Depth,             (* DATA_DEPTH of the event FIFO                       *)
  None               (* no interrupt sampled                               *)

FifoLine == 26       (* ARCHI_FC_EVT_SOC_EVT                               *)
ClkRef == 14         (* ARCHI_FC_EVT_CLK_REF                               *)
Eot == 7             (* ARCHI_SOC_EVENT_SPIM0_EOT                          *)

VARIABLES
  state, pop, push, regs, irqMask, int, ack, fifoEvent, coreId, spoiled,
                                                         (* the controller *)
  call,        (* where in wait_soc_event or wait_clock_ref, or NONE       *)
  ticks,       (* i of wait_clock_ref                                      *)
  edges        (* history: edges of the reference clock in wait_clock_ref  *)

Ctrl == INSTANCE ApbInterruptCntrl
  WITH PtrMod <- Depth, Data <- {0, Eot}, Zero <- 0, Line <- {FifoLine, ClkRef},
       NoIrq <- None, WriteData <- {}

ASSUME WaitAssumption ==
  /\ NbTicks \in Nat /\ NbTicks > 0
  /\ Depth \in Nat /\ Depth > 1
  /\ None \notin {FifoLine, ClkRef}

softVars == <<pc, image, area, block, addr>>
waitVars == <<call, ticks>>
allVars == <<softVars, waiting, busy, mem, Ctrl!irqVars, waitVars, edges>>

BootInit ==
  /\ call = "NONE" /\ ticks = 0 /\ edges = 0
  /\ Init
  /\ Ctrl!IrqInit

-----------------------------------------------------------------------------
(* The hardware's side of an edge: the end of the DMA's request, an edge   *)
(* of the reference clock, the access w of software.  Seen from the loader,*)
(* software waits while it is inside one of the two loops.                 *)
Dma(done) == IF done THEN Transfer ELSE UNCHANGED <<busy, mem>>
Hardware(done, tick, w) ==
  /\ Ctrl!CtrlClock(done, IF done THEN Eot ELSE 0, IF tick THEN {ClkRef} ELSE {}, {}, w)
  /\ UNCHANGED <<coreId, spoiled>>
  /\ waiting' = (call' # "NONE")
  /\ edges' = IF call = "NONE" THEN 0
              ELSE IF tick /\ edges < NbTicks THEN edges + 1 ELSE edges

Write(reg, op, l) == [reg |-> reg, op |-> op, data |-> {l}]

(* The wait the code is in: its line and its number of rounds.             *)
OnClock == pc \in Waits
WaitLine == IF OnClock THEN ClkRef ELSE FifoLine
Rounds == IF pc = "POWERUP" THEN NbTicks ELSE 1

EnableNone(done, tick) ==
  /\ call = "ENABLE"
  /\ call' = IF OnClock THEN "SLEEP" ELSE "POLL"
  /\ UNCHANGED <<softVars, ticks>>
  /\ Dma(done) /\ Hardware(done, tick, Ctrl!NoWrite)
Enable(done, tick) ==
  /\ call = "ENABLE"
  /\ call' = IF OnClock THEN "SLEEP" ELSE "POLL"
  /\ UNCHANGED <<softVars, ticks>>
  /\ Dma(done) /\ Hardware(done, tick, Write("MASK", "SET", WaitLine))

Poll(done, tick) ==
  /\ call = "POLL"
  /\ call' = IF FifoLine \in int THEN "CLEAR" ELSE "SLEEP"
  /\ UNCHANGED <<softVars, ticks>>
  /\ Dma(done) /\ Hardware(done, tick, Ctrl!NoWrite)

Wake(done, tick) ==
  /\ call = "SLEEP" /\ Ctrl!Requests # {}
  /\ call' = IF OnClock THEN "CLEAR" ELSE "POLL"
  /\ UNCHANGED <<softVars, ticks>>
  /\ Dma(done) /\ Hardware(done, tick, Ctrl!NoWrite)

ClearNone(done, tick) ==
  /\ call = "CLEAR"
  /\ IF OnClock /\ ticks + 1 < Rounds
       THEN call' = "SLEEP" /\ ticks' = ticks + 1
       ELSE call' = "DISABLE" /\ ticks' = 0
  /\ UNCHANGED softVars
  /\ Dma(done) /\ Hardware(done, tick, Ctrl!NoWrite)
(* The read of the FIFO register before the acknowledge changes nothing.   *)
Clear(done, tick) ==
  /\ call = "CLEAR"
  /\ IF OnClock /\ ticks + 1 < Rounds
       THEN call' = "SLEEP" /\ ticks' = ticks + 1
       ELSE call' = "DISABLE" /\ ticks' = 0
  /\ UNCHANGED softVars
  /\ Dma(done) /\ Hardware(done, tick, Write("INT", "CLEAR", WaitLine))

DisableNone(done, tick) ==
  /\ call = "DISABLE"
  /\ call' = "NONE"
  /\ AfterCall
  /\ UNCHANGED ticks
  /\ Dma(done) /\ Hardware(done, tick, Ctrl!NoWrite)
Disable(done, tick) ==
  /\ call = "DISABLE"
  /\ call' = "NONE"
  /\ AfterCall
  /\ UNCHANGED ticks
  /\ Dma(done) /\ Hardware(done, tick, Write("MASK", "CLEAR", WaitLine))

(* plp_udma_enqueue, for a read; the enable register follows.              *)
Start(tick) ==
  /\ call = "NONE" /\ Calls
  /\ call' = "ENABLE"
  /\ busy' = (pc \in Reads)
  /\ UNCHANGED <<softVars, ticks, mem>>
  /\ Hardware(FALSE, tick, Ctrl!NoWrite)

Compute(tick) ==
  /\ call = "NONE"
  /\ Local
  /\ UNCHANGED <<busy, waitVars>>
  /\ Hardware(FALSE, tick, Ctrl!NoWrite)

Idle(done, tick) ==
  /\ UNCHANGED <<softVars, waitVars>>
  /\ Dma(done) /\ Hardware(done, tick, Ctrl!NoWrite)

Software ==
  \E tick \in BOOLEAN :
    \/ Start(tick)
    \/ Compute(tick)
    \/ \E done \in BOOLEAN :
         Enable(done, tick) \/ Poll(done, tick) \/ Wake(done, tick)
           \/ Clear(done, tick) \/ Disable(done, tick)

BootNext == Software \/ \E done, tick \in BOOLEAN : Idle(done, tick)

BootSpec == BootInit /\ [][BootNext]_allVars

(* The core executes, a request of the DMA ends, the reference clock runs. *)
BootLive ==
  /\ BootSpec
  /\ WF_allVars(Software)
  /\ WF_allVars(Idle(TRUE, FALSE))
  /\ WF_allVars(Idle(FALSE, TRUE))

-----------------------------------------------------------------------------
(* Every flash_read returns when its own data are in memory, and no sooner *)
(* because of the event of the read before: the boot code on its hardware  *)
(* implements the loader whose calls are one step.                         *)
ImplementsLoader == Spec

(* boot_code.c:202, wait some time to have proper power up of the flash:   *)
(* at least NbTicks - 1 edges of the reference clock, the first wait may   *)
(* end on an edge that was pending before.                                 *)
PowerUpTime == pc = "POWERUP" /\ call = "DISABLE" => edges >= NbTicks - 1

(* The program started from flash finds the controller as after reset, but *)
(* for lines that nobody waited for: no event of the boot in its FIFO.     *)
CleanHandover ==
  pc = "ENTRY" => irqMask = {} /\ FifoLine \notin int /\ ~Ctrl!ValidO

(* A boot from flash ends at the entry point: no wait sleeps for ever.     *)
FlashBoots == pc = "POWERUP" ~> pc = "ENTRY"
=============================================================================
