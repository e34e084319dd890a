------------------------------ MODULE EventPath ------------------------------
(***************************************************************************)
(* The way of an event to the fabric controller, wired as in               *)
(* soc_peripherals.sv, pulp_soc.sv and fc_subsystem.sv: the event          *)
(* generator offers the granted event to the FIFO of the interrupt         *)
(* controller, an overflow of a queue raises the error line, the core      *)
(* takes the interrupts and its handlers run to completion, one at a time. *)
(* Generator and controller share one clock: one step is an edge of both.  *)
(*                                                                         *)
(* The core and its handlers are external.  The handler of the FIFO's line *)
(* reads the FIFO register once, that of the error line the ERR registers. *)
(* Software has set the masks before the first event and leaves them.      *)
(***************************************************************************)
EXTENDS Naturals, Sequences, FiniteSets

CONSTANTS
  PerEvntNum, ApbEvntNum,  (* events of peripherals and of software        *)
  Depth,                   (* DATA_DEPTH of the FIFO, a power of two       *)
  EnabledLines,            (* interrupt lines enabled in the controller    *)
  None                     (* no interrupt, no handler, no event           *)

FifoLine == 26
ErrLine == 29

VARIABLES
  count, prio, apbEvents, mask, err, lsSync, timerSel,       (* generator  *)
  state, pop, push, regs,                                    (* its FIFO   *)
  irqMask, int, ack, fifoEvent, coreId, spoiled,             (* controller *)
  handler,   (* the line whose handler runs, or None                       *)
  handled,   (* history: the event the handler found at the last edge      *)
  raised     (* history: the enabled events raised at the last edge        *)

Gen == INSTANCE SocEventGenerator
  WITH WordSize <- 32, Dest <- {"fc"}, SlowLevels <- {FALSE}, MaskData <- {}, SelData <- {}
Ctrl == INSTANCE ApbInterruptCntrl
  WITH PtrMod <- Depth, Data <- Gen!Event, Zero <- 0, Line <- {FifoLine, ErrLine},
       NoIrq <- None, WriteData <- {}

ASSUME PathAssumption ==
  /\ PerEvntNum \in Nat /\ ApbEvntNum \in Nat /\ Gen!EvntNum > 1
  /\ Depth \in Nat /\ Depth > 1
  /\ EnabledLines \subseteq {FifoLine, ErrLine}
  /\ None \notin Gen!Event \cup {FifoLine, ErrLine}

(* The events enabled for the fabric controller.                           *)
Enabled == Gen!Event \ mask["fc"]

pathVars == <<Gen!genVars, Ctrl!irqVars, handler, handled, raised>>

(* Any choice of events; that of the slow clock, which stands still here,  *)
(* is left out.                                                            *)
MaskChoice == {m \in SUBSET Gen!Event : Gen!SlowEvent \in m}

PathInit ==
  /\ Gen!Reset /\ mask \in [{"fc"} -> MaskChoice]
  /\ Ctrl!CtrlReset /\ irqMask = EnabledLines
  /\ handler = None /\ handled = None /\ raised = {}

-----------------------------------------------------------------------------
(* fc_event_ready_i is the FIFO's grant_o.                                 *)
FcReady == IF Ctrl!GrantO THEN {"fc"} ELSE {}

(* s_event_data: the granted id, or zero.                                  *)
FcData == IF Gen!Granted = {} THEN {0} ELSE Gen!Granted

(* err_event_o is wired to the error line, the FIFO's own input to zero.   *)
FcEvents(ev) == IF Gen!QueueErr(ev) # {} THEN {ErrLine} ELSE {}

(* The edge of generator and controller, without the generator's APB side. *)
Hardware(ev, acked) ==
  LET taken == Gen!Ack(FcReady)
  IN  /\ raised' = ev \cap Enabled
      /\ UNCHANGED spoiled
      /\ Gen!Queues(ev, taken)
      /\ Gen!Arbiter(taken)
      /\ Gen!Synchronise(FALSE)
      /\ \E d \in FcData :
           Ctrl!CtrlClock(Gen!Valid("fc"), d, FcEvents(ev), acked, Ctrl!NoWrite)

(* What the core does meanwhile.                                           *)

Idle(ev) ==
  /\ handled' = None
  /\ UNCHANGED <<coreId, handler>>
  /\ Gen!NoAccess(ev) \/ (handler = None /\ Gen!WriteEvent(ev))
  /\ Hardware(ev, {})

Sample(ev) ==
  /\ handler = None
  /\ handled' = None
  /\ UNCHANGED handler
  /\ Ctrl!CoreSample
  /\ Gen!NoAccess(ev)
  /\ Hardware(ev, {})

Take(ev) ==
  /\ Ctrl!CoreTake
  /\ handler' = coreId
  /\ handled' = None
  /\ Gen!NoAccess(ev)
  /\ Hardware(ev, {coreId})

HandleEvent(ev) ==
  /\ handler = FifoLine
  /\ handler' = None
  /\ handled' = fifoEvent
  /\ UNCHANGED coreId
  /\ Gen!NoAccess(ev)
  /\ Hardware(ev, {})

HandleErr(ev) ==
  /\ handler = ErrLine
  /\ handler' = None
  /\ handled' = None
  /\ UNCHANGED coreId
  /\ \E w \in Gen!Words : Gen!ReadErr(ev, w)
  /\ Hardware(ev, {})

Step(Act(_)) == \E per \in SUBSET Gen!PerEvent : Act(Gen!Events(per))

CoreNext ==
  \/ Step(Sample)
  \/ Step(Take)
  \/ Step(HandleEvent)
  \/ Step(HandleErr)

PathNext == Step(Idle) \/ CoreNext

PathSpec == PathInit /\ [][PathNext]_pathVars

(* The clock runs; the core, at most one of whose steps is possible at a   *)
(* time, takes interrupts while no handler runs, and handlers return.      *)
LiveSpec == PathSpec /\ WF_pathVars(PathNext) /\ WF_pathVars(CoreNext)

-----------------------------------------------------------------------------
(* Where the occurrences of an event are: in its queue, in the FIFO, in    *)
(* the FIFO register with the handler on its way.                          *)
InFifo(e) == LET fifo == Ctrl!Contents IN Cardinality({i \in DOMAIN fifo : fifo[i] = e})
InHandler(e) == IF handler = FifoLine /\ fifoEvent = e THEN 1 ELSE 0
Pending ==
  [e \in Gen!Event |->
    IF e \in mask["fc"] THEN 0 ELSE count[e] + InFifo(e) + InHandler(e)]

(* The path is an event service: no event enabled for the fabric           *)
(* controller is lost, duplicated or mixed up between its queue and its    *)
(* handler, and none is refused before three of its kind wait.             *)
Service == INSTANCE EventService 
  WITH Event <- Gen!Event, Room <- Gen!QueueMax, enabled <- Enabled, pending <- Pending
ImplementsService == Service!Spec

(* Every occurrence is handled in the end, unless overflows keep coming:   *)
(* their line has the higher priority.                                     *)
EventuallyHandled ==
  \A e \in Gen!PerEvent \cup Gen!ApbEvent :
    (count[e] > 0 /\ e \in Enabled ~> handled = e) \/ []<>(handler = ErrLine)
=============================================================================
