--------------------------- MODULE SocEventFanout ---------------------------
(***************************************************************************)
(* One occurrence, several buses.  A bus takes the offered event in every  *)
(* cycle in which it is valid and ready (the uDMA is always ready, the     *)
(* fabric controller only while its FIFO has room), but the occurrence     *)
(* leaves its queue only when every bus it is enabled for is ready at the  *)
(* same time.  History variables, for the occurrence each queue would hand *)
(* out next: holders, the buses that have taken it already; shared, the    *)
(* events it was true of that two buses were offered it in one cycle.  And *)
(* for the occurrences that are gone: missed, the events one of which left *)
(* although a bus that it was offered to never took it.                    *)
(***************************************************************************)
EXTENDS SocEventGenerator

VARIABLES holders, shared, missed

fanVars == <<genVars, holders, shared, missed>>

Offered == {d \in Dest : Valid(d)}

FanInit ==
  /\ GenInit
  /\ holders = [e \in Event |-> {}]
  /\ shared = {}
  /\ missed = {}

(* What an edge adds to the history.                                       *)
NoteTakers(ready) ==
  LET granted == Granted
      acked == Ack(ready)
      offered == Offered
      takers == offered \cap ready
  IN  /\ holders' = [e \in Event |->
           IF e \in acked THEN {}
           ELSE IF e \in granted THEN holders[e] \cup takers
           ELSE holders[e]]
      /\ shared' = (shared \cup (IF \E d \in offered : offered # {d} THEN granted ELSE {})) \ acked
      /\ missed' = missed \cup {e \in acked : ~(offered \subseteq takers \cup holders[e])}

FanClock(per, ready, slow) == Clock(per, ready, slow) /\ NoteTakers(ready)

FanNext ==
  \E per \in SUBSET PerEvent, ready \in SUBSET Dest, slow \in SlowLevels :
    FanClock(per, ready, slow)

FanSpec == FanInit /\ [][FanNext]_fanVars

-----------------------------------------------------------------------------
(* An occurrence that some bus took is still queued, to be offered again,  *)
(* only if it was offered to two buses at once.  Software that enables     *)
(* every event for one bus at a time gets each occurrence once.            *)
TwiceOnlyIfShared == \A e \in Event : holders[e] # {} => e \in shared

(* An occurrence does not leave its queue before every bus it is enabled   *)
(* for has taken it, however the buses stall in turn and whatever software *)
(* writes to the masks in between.                                         *)
NoBusMisses == missed = {}
=============================================================================
