-------------------------- MODULE SocEventFairness --------------------------
(***************************************************************************)
(* How long an event waits in the event generator.  bypass counts, for an  *)
(* event that requests, the grants acknowledged to others since it began;  *)
(* served remembers the last acknowledged event.  Neither exists in the    *)
(* circuit.                                                                *)
(***************************************************************************)
EXTENDS SocEventGenerator

VARIABLES bypass, served

fairVars == <<genVars, bypass, served>>

FairInit ==
  /\ GenInit
  /\ bypass = [e \in Event |-> 0]
  /\ served = {}

(* What an edge adds to the history.                                       *)
CountBypass(ready) ==
  /\ served' = Ack(ready)
  /\ bypass' = LET req == Req IN [e \in Event |->
       IF e \notin req \/ e \in served' THEN 0
       ELSE IF served' = {} THEN bypass[e]
       ELSE bypass[e] + 1]

FairClock(per, ready, slow) == Clock(per, ready, slow) /\ CountBypass(ready)

FairNext ==
  \E per \in SUBSET PerEvent, ready \in SUBSET Dest, slow \in SlowLevels :
    FairClock(per, ready, slow)

FairSpec == FairInit /\ [][FairNext]_fairVars

-----------------------------------------------------------------------------
(* The counter grows only while its event waits: at most one per other     *)
(* event, whatever the others, software and the buses do meanwhile.        *)
BoundedBypass == \A e \in Event : bypass[e] < EvntNum

(* What makes it inductive: a waiting event still has in front of it the   *)
(* positions the pointer has not passed yet.                               *)
BypassInv ==
  \A e \in Event :
    /\ bypass[e] \in Nat
    /\ IF e \in Req THEN bypass[e] + Distance(EvntNum, prio, e) < EvntNum
                    ELSE bypass[e] = 0
=============================================================================
