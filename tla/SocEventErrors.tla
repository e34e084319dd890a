--------------------------- MODULE SocEventErrors ---------------------------
(***************************************************************************)
(* What the event generator makes of what comes in, told by history        *)
(* variables that its registers are compared with.  For the ERR registers: *)
(* dropped holds the events of which an occurrence was lost and no read    *)
(* has returned the error bit since, raced those that were lost in the     *)
(* very cycle in which their ERR word was read.  For the slow clock: level *)
(* is low_speed_clk_i at the last edge of HCLK, and edges counts its       *)
(* rising edges that no occurrence has stood for yet.                      *)
(***************************************************************************)
EXTENDS SocEventGenerator, Integers

VARIABLES dropped, raced, level, edges

errVars == <<genVars, dropped, raced, level, edges>>

ErrInit ==
  /\ GenInit
  /\ dropped = {}
  /\ raced = {}
  /\ level = FALSE /\ edges = 0

(* The occurrences this edge loses: raised, and neither queued nor         *)
(* replacing the one acknowledged at the same edge.                        *)
Lost(ev, acked) == {e \in ev \ acked : count'[e] = count[e]}

(* A rising edge is sampled; an occurrence of its event meets its queue.   *)
CountEdges(ev, slow) ==
  /\ level' = slow
  /\ edges' = edges + (IF slow /\ ~level THEN 1 ELSE 0) - (IF SlowEvent \in ev THEN 1 ELSE 0)

(* A read of word w returns err as it is before the edge.                  *)
ErrClock(per, ready, slow) ==
  LET ev == Events(per)
      acked == Ack(ready)
  IN  /\ Queues(ev, acked)
      /\ Arbiter(acked)
      /\ Synchronise(slow)
      /\ CountEdges(ev, slow)
      /\ \/ /\ \/ NoAccess(ev)
               \/ WriteEvent(ev)
               \/ WriteMask(ev)
               \/ WriteTimerSel(ev)
            /\ dropped' = dropped \cup Lost(ev, acked)
            /\ UNCHANGED raced
         \/ \E w \in Words :
              /\ ReadErr(ev, w)
              /\ dropped' = (dropped \ (err \cap Word(w))) \cup Lost(ev, acked)
              /\ raced' = (raced \ (err \cap Word(w))) \cup (Lost(ev, acked) \cap Word(w))

ErrNext ==
  \E per \in SUBSET PerEvent, ready \in SUBSET Dest, slow \in SlowLevels :
    ErrClock(per, ready, slow)

ErrSpec == ErrInit /\ [][ErrNext]_errVars

-----------------------------------------------------------------------------
(* A lost occurrence leaves its error bit set until software has read it,  *)
(* except one lost in the cycle of the read itself.                        *)
LossReported == dropped \ raced \subseteq err

(* The same without the exception: what the register description promises  *)
(* by "Clear after read".                                                  *)
LossAlwaysReported == dropped \subseteq err

(* Every rising edge of the slow clock, sampled through three registers, is*)
(* one occurrence of its event, however long the clock stays high: none    *)
(* without an edge of its own, and each before the next edge rises.        *)
OneEventPerEdge == edges \in 0 .. 1
=============================================================================
