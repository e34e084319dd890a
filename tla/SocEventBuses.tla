---------------------------- MODULE SocEventBuses ----------------------------
(***************************************************************************)
(* The event generator under both of its observers: SocEventFairness, how  *)
(* long an event waits, and SocEventFanout, who takes it.  Each constrains *)
(* the same edge of the same circuit.                                      *)
(***************************************************************************)
EXTENDS SocEventFairness, SocEventFanout

busVars == <<genVars, bypass, served, holders, shared, missed>>

BusInit == FairInit /\ FanInit

BusClock(per, ready, slow) ==
  CountBypass(ready) /\ NoteTakers(ready) /\ Clock(per, ready, slow)

BusNext ==
  \E per \in SUBSET PerEvent, ready \in SUBSET Dest, slow \in SlowLevels :
    BusClock(per, ready, slow)

(* HCLK never stops, and no bus stays away for ever: cycles in which all   *)
(* are ready come over and over.                                           *)
BusAllReady ==
  \E per \in SUBSET PerEvent, slow \in SlowLevels : BusClock(per, Dest, slow)

BusSpec == BusInit /\ [][BusNext]_busVars /\ WF_busVars(BusAllReady)

-----------------------------------------------------------------------------
(* No event is forgotten in its queue, disabled or not: if the buses are   *)
(* ready again and again, every queued event is acknowledged in the end.   *)
(* The queue of the slow clock's event is one more of the same kind.       *)
EventuallyServed == \A e \in PerEvent \cup ApbEvent : count[e] > 0 ~> e \in served
=============================================================================
