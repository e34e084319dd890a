------------------------- MODULE SocEventGenerator -------------------------
(***************************************************************************)
(* soc_event_generator.sv with the queues (soc_event_queue.sv) and the     *)
(* arbiter (soc_event_arbiter.sv) it instantiates: one step is one edge of *)
(* HCLK.  Event ids are laid out as in s_events: the peripherals' first,   *)
(* then those software raises over APB, and the slow clock's last.  A bit  *)
(* vector is the set of its set bits; a set mask bit disables its event.   *)
(***************************************************************************)
EXTENDS RoundRobin, FiniteSets

CONSTANTS
  PerEvntNum,   (* PER_EVNT_NUM, events of the peripherals                 *)
  ApbEvntNum,   (* APB_EVNT_NUM, events software can raise                 *)
  WordSize,     (* events per APB register word (32)                       *)
  Dest,         (* the event buses: "fc", "cl", "pr"                       *)
  SlowLevels,   (* bound: levels low_speed_clk_i may take                  *)
  MaskData,     (* bound: PWDATA of the mask writes                        *)
  SelData       (* bound: PWDATA of the timer selector writes              *)

EvntNum == PerEvntNum + ApbEvntNum + 1
Event == 0 .. EvntNum - 1
PerEvent == 0 .. PerEvntNum - 1
ApbEvent == PerEvntNum .. PerEvntNum + ApbEvntNum - 1
SlowEvent == EvntNum - 1

ASSUME GeneratorAssumption ==
  /\ PerEvntNum \in Nat /\ ApbEvntNum \in Nat /\ WordSize \in Nat \ {0}
  /\ EvntNum > 1
  /\ SlowLevels \subseteq BOOLEAN
  /\ MaskData \subseteq SUBSET Event
  /\ SelData \subseteq Nat

VARIABLES
  count,      (* r_event_count of each queue                               *)
  prio,       (* index of the bit set in r_priority                        *)
  apbEvents,  (* r_apb_events                                              *)
  mask,       (* r_fc_mask, r_cl_mask, r_pr_mask                           *)
  err,        (* r_err                                                     *)
  lsSync,     (* r_ls_sync, bits 0 to 2                                    *)
  timerSel    (* r_timer_sel_lo, r_timer_sel_hi                            *)

genVars == <<count, prio, apbEvents, mask, err, lsSync, timerSel>>

QueueMax == 3    (* 2'b11, where r_event_count saturates                   *)

-----------------------------------------------------------------------------
(* Combinational signals; per and ready are inputs of the cycle.           *)

LsRiseLevel == lsSync[2]
LsRise == lsSync[2] /\ ~lsSync[3]

(* s_events: the inputs of the queues.                                     *)
Events(per) == per \cup apbEvents \cup (IF LsRise THEN {SlowEvent} ELSE {})

Req == {e \in Event : count[e] > 0}
Granted == FirstFrom(EvntNum, prio, Req)

(* s_valid_*: the granted event, if any, is enabled for d.                 *)
Valid(d) == ~(Granted \subseteq mask[d])

(* s_event_ready: every bus that is offered the event takes it.            *)
EventReadyTaken(ready) == \E d \in Dest : Valid(d) /\ d \in ready
EventReadyAll(ready) == Dest \subseteq ready
EventReady(ready) == \A d \in Dest : Valid(d) => d \in ready

Ack(ready) == IF EventReady(ready) THEN Granted ELSE {}

(* s_err: an event finds its queue full.                                   *)
QueueErr(ev) == {e \in ev : count[e] = QueueMax}

Word(w) == {e \in Event : e \div WordSize = w}
Words == {e \div WordSize : e \in Event}

-----------------------------------------------------------------------------
(* The registers after reset, but for the masks.                           *)
Reset ==
  /\ count = [e \in Event |-> 0]
  /\ prio = 0
  /\ apbEvents = {}
  /\ err = {}
  /\ lsSync = <<FALSE, FALSE, FALSE>>
  /\ timerSel = [t \in {"lo", "hi"} |-> 0]

GenInit == Reset /\ mask = [d \in Dest |-> Event]

(* s_event_count of every queue.  An event that meets the acknowledge of   *)
(* an earlier one of the same queue leaves the count alone.                *)
NextCountDrop(c, raised, acked) ==
  IF acked THEN IF c # 0 THEN c - 1 ELSE c
  ELSE IF raised /\ c # QueueMax THEN c + 1 ELSE c
NextCountNoLimit(c, raised, acked) ==
  IF acked THEN IF ~raised /\ c # 0 THEN c - 1 ELSE c
  ELSE IF raised THEN c + 1 ELSE c
NextCount(c, raised, acked) ==
  IF acked THEN IF ~raised /\ c # 0 THEN c - 1 ELSE c
  ELSE IF raised /\ c # QueueMax THEN c + 1 ELSE c

Queues(ev, acked) ==
  count' = [e \in Event |-> NextCount(count[e], e \in ev, e \in acked)]

(* The arbiter's pointer moves behind an acknowledged grant only.          *)
ArbiterStuck(acked) ==
  IF acked = {} THEN prio' = prio ELSE prio' \in acked
Arbiter(acked) ==
  IF acked = {} THEN prio' = prio
  ELSE \E g \in acked : prio' = Successor(EvntNum, g)

Synchronise(slow) == lsSync' = <<slow, lsSync[1], lsSync[2]>>

-----------------------------------------------------------------------------
(* The APB access of the cycle, PSEL and PENABLE both up, or none.  The    *)
(* error bits set by this cycle's overflows come first, the effect of the  *)
(* access second; r_apb_events holds a value for one cycle only.           *)

NoAccess(ev) ==
  /\ apbEvents' = {}
  /\ err' = err \cup QueueErr(ev)
  /\ UNCHANGED <<mask, timerSel>>

WriteEvent(ev) ==
  /\ apbEvents' \in SUBSET ApbEvent
  /\ err' = err \cup QueueErr(ev)
  /\ UNCHANGED <<mask, timerSel>>

WriteMask(ev) ==
  /\ \E d \in Dest, w \in Words, data \in MaskData :
       mask' = [mask EXCEPT ![d] = (@ \ Word(w)) \cup (data \cap Word(w))]
  /\ apbEvents' = {}
  /\ err' = err \cup QueueErr(ev)
  /\ UNCHANGED timerSel

ReadErrAll(ev, w) ==
  /\ err' = {}
  /\ apbEvents' = {}
  /\ UNCHANGED <<mask, timerSel>>
ReadErr(ev, w) ==
  /\ err' = (err \cup QueueErr(ev)) \ Word(w)
  /\ apbEvents' = {}
  /\ UNCHANGED <<mask, timerSel>>

WriteTimerSel(ev) ==
  /\ \E t \in {"lo", "hi"}, s \in SelData : timerSel' = [timerSel EXCEPT ![t] = s]
  /\ apbEvents' = {}
  /\ err' = err \cup QueueErr(ev)
  /\ UNCHANGED mask

Apb(ev) ==
  \/ NoAccess(ev)
  \/ WriteEvent(ev)
  \/ WriteMask(ev)
  \/ \E w \in Words : ReadErr(ev, w)
  \/ WriteTimerSel(ev)

(* One edge of HCLK with the given inputs.                                 *)
Clock(per, ready, slow) ==
  LET ev == Events(per)
      acked == Ack(ready)
  IN  /\ Queues(ev, acked)
      /\ Arbiter(acked)
      /\ Synchronise(slow)
      /\ Apb(ev)

GenNext ==
  \E per \in SUBSET PerEvent, ready \in SUBSET Dest, slow \in SlowLevels :
    Clock(per, ready, slow)

GenSpec == GenInit /\ [][GenNext]_genVars

-----------------------------------------------------------------------------
(* Every register stays within its range; the pointer names an event.      *)
TypeOK ==
  /\ count \in [Event -> 0 .. QueueMax]
  /\ prio \in Event
  /\ apbEvents \in SUBSET ApbEvent
  /\ mask \in [Dest -> SUBSET Event]
  /\ err \in SUBSET Event
  /\ lsSync \in BOOLEAN \X BOOLEAN \X BOOLEAN
  /\ timerSel \in [{"lo", "hi"} -> Nat]
=============================================================================
