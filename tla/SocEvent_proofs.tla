----------------------------- MODULE SocEvent_proofs -----------------------------
(***************************************************************************)
(* Theorems about the event generator, for every number of events, buses   *)
(* and register word size:                                                 *)
(*   TypeCorrect     its registers stay within their ranges;               *)
(*   BypassBounded   an event is bypassed at most once by each other one;  *)
(*   LossIsReported  an occurrence is not lost in silence;                 *)
(*   EdgesCounted    a rising edge of the slow clock is one event;         *)
(*   FanoutCorrect   no bus takes an occurrence twice that was not offered *)
(*                   to two buses at once, and none misses one;            *)
(*   BusesCorrect    the bounds on waiting and duplication hold together   *)
(*                   of the specification TLC checks them on.              *)
(***************************************************************************)
EXTENDS SocEventBuses, SocEventErrors, TLAPS

(* There are events, and the ids are naturals: EvntNum is a number.        *)
LEMMA EvntNumNat == EvntNum \in Nat /\ EvntNum > 1
BY GeneratorAssumption DEF EvntNum

(* Only queued events are granted, and only granted events acknowledged.   *)
LEMMA AckGranted ==
  ASSUME NEW ready
  PROVE  Ack(ready) \subseteq Granted /\ Granted \subseteq Req /\ Req \subseteq Event
BY DEF Ack, Granted, FirstFrom, Req

(* The inputs of the queues are events.                                    *)
LEMMA EventsAreEvents ==
  ASSUME NEW per \in SUBSET PerEvent, apbEvents \in SUBSET ApbEvent
  PROVE  Events(per) \in SUBSET Event
<1>1. PerEvent \subseteq Event /\ ApbEvent \subseteq Event /\ SlowEvent \in Event
  BY GeneratorAssumption DEF PerEvent, ApbEvent, SlowEvent, Event, EvntNum
<1>2. QED
  BY <1>1 DEF Events

(* The APB access of a cycle keeps the register file well typed.           *)
LEMMA ApbType ==
  ASSUME TypeOK, NEW ev \in SUBSET Event, Apb(ev)
  PROVE  /\ apbEvents' \in SUBSET ApbEvent
         /\ mask' \in [Dest -> SUBSET Event]
         /\ err' \in SUBSET Event
         /\ timerSel' \in [{"lo", "hi"} -> Nat]
<1>1. QueueErr(ev) \in SUBSET Event
  BY DEF QueueErr
<1>2. CASE NoAccess(ev)
  BY <1>1, <1>2 DEF TypeOK, NoAccess
<1>3. CASE WriteEvent(ev)
  BY <1>1, <1>3 DEF TypeOK, WriteEvent
<1>4. CASE WriteMask(ev)
  <2>1. PICK d \in Dest, w \in Words, data \in MaskData :
          mask' = [mask EXCEPT ![d] = (@ \ Word(w)) \cup (data \cap Word(w))]
    BY <1>4 DEF WriteMask
  <2>2. (mask[d] \ Word(w)) \cup (data \cap Word(w)) \in SUBSET Event
    BY DEF TypeOK, Word
  <2>3. QED
    BY <1>1, <1>4, <2>1, <2>2 DEF TypeOK, WriteMask
<1>5. CASE \E w \in Words : ReadErr(ev, w)
  BY <1>1, <1>5 DEF TypeOK, ReadErr
<1>6. CASE WriteTimerSel(ev)
  BY <1>1, <1>6, GeneratorAssumption DEF TypeOK, WriteTimerSel
<1>7. QED
  BY <1>2, <1>3, <1>4, <1>5, <1>6 DEF Apb

LEMMA InitType == GenInit => TypeOK
<1>1. 0 \in Event
  BY EvntNumNat DEF Event
<1>2. 0 \in 0 .. QueueMax
  BY DEF QueueMax
<1>3. ASSUME GenInit PROVE lsSync \in BOOLEAN \X BOOLEAN \X BOOLEAN
  BY <1>3 DEF GenInit, Reset
<1>4. QED
  BY <1>1, <1>2, <1>3 DEF GenInit, Reset, TypeOK

(* One clock edge keeps every register within its range.                   *)
LEMMA ClockType ==
  ASSUME TypeOK, NEW per \in SUBSET PerEvent, NEW ready, NEW slow \in BOOLEAN,
         Clock(per, ready, slow)
  PROVE  TypeOK'
<1> DEFINE ev == Events(per)
           acked == Ack(ready)
<1>1. ev \in SUBSET Event
  BY EventsAreEvents DEF TypeOK
<1>2. Queues(ev, acked) /\ Arbiter(acked) /\ Synchronise(slow) /\ Apb(ev)
  BY DEF Clock
<1>3. count' \in [Event -> 0 .. QueueMax]
  <2>1. ASSUME NEW e \in Event
        PROVE  NextCount(count[e], e \in ev, e \in acked) \in 0 .. QueueMax
    <3>1. count[e] \in 0 .. QueueMax
      BY DEF TypeOK
    <3>2. QED
      BY <3>1 DEF NextCount, QueueMax
  <2>2. QED
    BY <1>2, <2>1 DEF Queues
<1>4. prio' \in Event
  <2>1. CASE acked = {}
    BY <1>2, <2>1 DEF Arbiter, TypeOK
  <2>2. CASE acked # {}
    <3>1. PICK g \in acked : prio' = Successor(EvntNum, g)
      BY <1>2, <2>2 DEF Arbiter
    <3>2. g \in 0 .. EvntNum - 1
      BY AckGranted DEF Event
    <3>3. QED
      BY <3>1, <3>2, EvntNumNat DEF Successor, Event
  <2>3. QED
    BY <2>1, <2>2
<1>5. lsSync' \in BOOLEAN \X BOOLEAN \X BOOLEAN
  BY <1>2 DEF Synchronise, TypeOK
<1>6. QED
  BY <1>1, <1>2, <1>3, <1>4, <1>5, ApbType DEF TypeOK

(* Every register of the generator stays within its range: in particular   *)
(* no event count leaves two bits and the pointer always names an event.   *)
THEOREM TypeCorrect == GenSpec => []TypeOK
<1>1. ASSUME TypeOK, [GenNext]_genVars
      PROVE  TypeOK'
  <2>1. CASE GenNext
    <3>1. PICK per \in SUBSET PerEvent, ready \in SUBSET Dest, slow \in SlowLevels :
            Clock(per, ready, slow)
      BY <2>1 DEF GenNext
    <3>2. slow \in BOOLEAN
      BY GeneratorAssumption
    <3>3. QED
      BY <1>1, <3>1, <3>2, ClockType
  <2>2. CASE UNCHANGED genVars
    BY <1>1, <2>2 DEF TypeOK, genVars
  <2>3. QED
    BY <1>1, <2>1, <2>2
<1>2. QED
  BY <1>1, InitType, PTL DEF GenSpec

-----------------------------------------------------------------------------
(* Fairness.  BypassInv carries the induction: when the pointer moves      *)
(* behind an acknowledged grant, every event still waiting was further     *)
(* from the old pointer than the grant, so its distance shrinks at least   *)
(* by the one its counter grows.                                           *)

(* The distance from the pointer counts positions of the vector.           *)
LEMMA DistanceRange ==
  ASSUME NEW n \in Nat \ {0}, NEW p \in 0 .. n - 1, NEW e \in 0 .. n - 1
  PROVE  Distance(n, p, e) \in 0 .. n - 1
BY DEF Distance

(* Moving the pointer behind g brings every position further away than g   *)
(* nearer by at least one.                                                 *)
LEMMA DistanceShrinks ==
  ASSUME NEW n \in Nat \ {0}, NEW p \in 0 .. n - 1, NEW g \in 0 .. n - 1,
         NEW e \in 0 .. n - 1, e # g, Distance(n, p, g) <= Distance(n, p, e)
  PROVE  Distance(n, Successor(n, g), e) + 1 <= Distance(n, p, e)
BY DEF Distance, Successor

LEMMA InitBypass == FairInit => BypassInv
BY EvntNumNat DEF FairInit, GenInit, Reset, BypassInv, Req

(* A queue that requests and is not acknowledged still requests.           *)
LEMMA StillRequests ==
  ASSUME TypeOK, NEW ev, NEW acked, Queues(ev, acked), NEW e \in Event
  PROVE  /\ e \in Req /\ e \notin acked => e \in Req'
         /\ e \in Req' <=> count'[e] > 0
BY DEF Req, Queues, NextCount, TypeOK, QueueMax

LEMMA ClockBypass ==
  ASSUME TypeOK, BypassInv, NEW per \in SUBSET PerEvent, NEW ready, NEW slow \in BOOLEAN,
         FairClock(per, ready, slow)
  PROVE  BypassInv'
<1> DEFINE acked == Ack(ready)
           n == EvntNum
<1>1. Queues(Events(per), acked) /\ Arbiter(acked) /\ served' = acked
  BY DEF FairClock, CountBypass, Clock
<1>2. bypass' = [e \in Event |->
         IF e \notin Req \/ e \in acked THEN 0
         ELSE IF acked = {} THEN bypass[e] ELSE bypass[e] + 1]
  BY <1>1 DEF FairClock, CountBypass
<1>3. TypeOK'
  BY ClockType DEF FairClock
<1>4. n \in Nat \ {0} /\ Event = 0 .. n - 1 /\ prio \in 0 .. n - 1 /\ prio' \in 0 .. n - 1
  BY <1>3, EvntNumNat DEF TypeOK, Event
<1>5. SUFFICES ASSUME NEW e \in Event
               PROVE  /\ bypass'[e] \in Nat
                      /\ IF e \in Req' THEN bypass'[e] + Distance(n, prio', e) < n
                                       ELSE bypass'[e] = 0
  BY DEF BypassInv, Req
<1>6. Distance(n, prio, e) \in 0 .. n - 1 /\ Distance(n, prio', e) \in 0 .. n - 1
  BY <1>4, DistanceRange
<1>7. CASE e \notin Req \/ e \in acked
  BY <1>2, <1>4, <1>6, <1>7
<1>8. CASE e \in Req /\ e \notin acked
  <2>1. e \in Req'
    BY <1>1, <1>8, StillRequests
  <2>2. bypass[e] \in Nat /\ bypass[e] + Distance(n, prio, e) < n
    BY <1>8 DEF BypassInv
  <2>3. CASE acked = {}
    BY <1>1, <1>2, <1>8, <2>1, <2>2, <2>3 DEF Arbiter
  <2>4. CASE acked # {}
    <3>1. PICK g \in acked : prio' = Successor(n, g)
      BY <1>1, <2>4 DEF Arbiter
    <3>2. g \in Event /\ g # e /\ Distance(n, prio, g) <= Distance(n, prio, e)
      BY <1>8, <3>1, AckGranted DEF Granted, FirstFrom
    <3>3. Distance(n, prio', e) + 1 <= Distance(n, prio, e)
      BY <1>4, <3>1, <3>2, DistanceShrinks
    <3>4. bypass'[e] = bypass[e] + 1
      BY <1>2, <1>8, <2>4
    <3> HIDE DEF n
    <3>5. QED
      BY <1>4, <1>6, <2>1, <2>2, <3>3, <3>4
  <2>5. QED
    BY <2>3, <2>4
<1>9. QED
  BY <1>7, <1>8

(* Whatever the peripherals, software, the masks and the buses do, at most *)
(* EvntNum - 1 grants go to others while an event waits.                   *)
THEOREM BypassBounded == FairSpec => []BoundedBypass
<1> DEFINE Inv == TypeOK /\ BypassInv
<1>1. FairInit => Inv
  BY InitType, InitBypass DEF FairInit
<1>2. ASSUME Inv, [FairNext]_fairVars
      PROVE  Inv'
  <2>1. CASE FairNext
    <3>1. PICK per \in SUBSET PerEvent, ready \in SUBSET Dest, slow \in SlowLevels :
            FairClock(per, ready, slow)
      BY <2>1 DEF FairNext
    <3>2. slow \in BOOLEAN
      BY GeneratorAssumption
    <3>3. QED
      BY <1>2, <3>1, <3>2, ClockType, ClockBypass DEF FairClock
  <2>2. CASE UNCHANGED fairVars
    BY <1>2, <2>2 DEF fairVars, genVars, TypeOK, BypassInv, Req
  <2>3. QED
    BY <1>2, <2>1, <2>2
<1>3. Inv => BoundedBypass
  <2>1. ASSUME Inv, NEW e \in Event
        PROVE  bypass[e] < EvntNum
    <3>1. EvntNum \in Nat \ {0} /\ e \in 0 .. EvntNum - 1 /\ prio \in 0 .. EvntNum - 1
      BY <2>1, EvntNumNat DEF TypeOK, Event
    <3>2. Distance(EvntNum, prio, e) \in 0 .. EvntNum - 1
      BY <3>1, DistanceRange
    <3>3. QED
      BY <2>1, <3>1, <3>2 DEF BypassInv
  <2>2. QED
    BY <2>1 DEF BoundedBypass
<1>4. QED
  BY <1>1, <1>2, <1>3, PTL DEF FairSpec

-----------------------------------------------------------------------------
(* Error reporting.                                                        *)

(* An occurrence is lost exactly where the queue raises err_o.             *)
LEMMA LostRaisesErr ==
  ASSUME TypeOK, NEW ev, NEW acked, ev \in SUBSET Event, Queues(ev, acked)
  PROVE  Lost(ev, acked) \subseteq QueueErr(ev)
<1>1. SUFFICES ASSUME NEW e \in ev, e \notin acked, count'[e] = count[e]
               PROVE  count[e] = QueueMax
  BY DEF Lost, QueueErr
<1>2. e \in Event /\ count[e] \in 0 .. QueueMax
  BY <1>1 DEF TypeOK
<1>3. count'[e] = NextCount(count[e], e \in ev, e \in acked)
  BY <1>2 DEF Queues
<1>4. QED
  BY <1>1, <1>2, <1>3 DEF NextCount, QueueMax

LEMMA ErrClockIsClock ==
  ASSUME NEW per, NEW ready, NEW slow, ErrClock(per, ready, slow)
  PROVE  Clock(per, ready, slow)
BY DEF ErrClock, Clock, Apb

LEMMA ClockReports ==
  ASSUME TypeOK, LossReported, NEW per \in SUBSET PerEvent, NEW ready, NEW slow,
         ErrClock(per, ready, slow)
  PROVE  LossReported'
<1> DEFINE ev == Events(per)
           acked == Ack(ready)
<1>1. Lost(ev, acked) \subseteq QueueErr(ev)
  BY EventsAreEvents, LostRaisesErr DEF ErrClock, TypeOK
<1>2. CASE /\ NoAccess(ev) \/ WriteEvent(ev) \/ WriteMask(ev) \/ WriteTimerSel(ev)
           /\ dropped' = dropped \cup Lost(ev, acked)
           /\ raced' = raced
  <2>1. err' = err \cup QueueErr(ev)
    BY <1>2 DEF NoAccess, WriteEvent, WriteMask, WriteTimerSel
  <2>2. QED
    BY <1>1, <1>2, <2>1 DEF LossReported
<1>3. ASSUME NEW w \in Words,
             ReadErr(ev, w),
             dropped' = (dropped \ (err \cap Word(w))) \cup Lost(ev, acked),
             raced' = (raced \ (err \cap Word(w))) \cup (Lost(ev, acked) \cap Word(w))
      PROVE  LossReported'
  <2>1. err' = (err \cup QueueErr(ev)) \ Word(w)
    BY <1>3 DEF ReadErr
  <2>2. QED
    BY <1>1, <1>3, <2>1 DEF LossReported
<1>4. QED
  BY <1>2, <1>3 DEF ErrClock

(* Every overflow that loses an occurrence is visible in the ERR register  *)
(* until it is read, unless the read falls into the cycle of the loss.     *)
THEOREM LossIsReported == ErrSpec => []LossReported
<1> DEFINE Inv == TypeOK /\ LossReported
<1>1. ErrInit => Inv
  BY InitType DEF ErrInit, LossReported
<1>2. ASSUME Inv, [ErrNext]_errVars
      PROVE  Inv'
  <2>1. CASE ErrNext
    <3>1. PICK per \in SUBSET PerEvent, ready \in SUBSET Dest, slow \in SlowLevels :
            ErrClock(per, ready, slow)
      BY <2>1 DEF ErrNext
    <3>2. slow \in BOOLEAN
      BY GeneratorAssumption
    <3>3. QED
      BY <1>2, <3>1, <3>2, ErrClockIsClock, ClockType, ClockReports
  <2>2. CASE UNCHANGED errVars
    BY <1>2, <2>2 DEF errVars, genVars, TypeOK, LossReported
  <2>3. QED
    BY <1>2, <2>1, <2>2
<1>3. QED
  BY <1>1, <1>2, PTL DEF ErrSpec

(* Rising edges that no event has stood for yet are on their way through   *)
(* the synchroniser: between its first two registers or its last two.      *)
Rising(low, high) == IF low /\ ~high THEN 1 ELSE 0
EdgesInv ==
  /\ lsSync \in BOOLEAN \X BOOLEAN \X BOOLEAN
  /\ level = lsSync[1]
  /\ edges = Rising(lsSync[1], lsSync[2]) + Rising(lsSync[2], lsSync[3])

(* The slow clock's event comes from the synchroniser and nowhere else.    *)
LEMMA SlowEventIsRise ==
  ASSUME TypeOK, NEW per \in SUBSET PerEvent
  PROVE  SlowEvent \in Events(per) <=> LsRise
<1>1. SlowEvent \notin PerEvent /\ SlowEvent \notin ApbEvent
  BY GeneratorAssumption DEF SlowEvent, PerEvent, ApbEvent, EvntNum
<1>2. QED
  BY <1>1 DEF Events, TypeOK

LEMMA EdgesStep ==
  ASSUME TypeOK, EdgesInv, NEW per \in SUBSET PerEvent, NEW ready, NEW slow \in BOOLEAN,
         ErrClock(per, ready, slow)
  PROVE  EdgesInv'
<1>1. PICK a \in BOOLEAN, b \in BOOLEAN, c \in BOOLEAN : lsSync = <<a, b, c>>
  BY DEF EdgesInv
<1>2. lsSync' = <<slow, a, b>> /\ level' = slow
  BY <1>1 DEF ErrClock, Synchronise, CountEdges
<1>3. edges' = edges + Rising(slow, a) - Rising(b, c)
  <2>1. SlowEvent \in Events(per) <=> b /\ ~c
    BY <1>1, SlowEventIsRise DEF LsRise
  <2>2. level = a
    BY <1>1 DEF EdgesInv
  <2>3. QED
    BY <2>1, <2>2 DEF ErrClock, CountEdges, Rising
<1>4. edges = Rising(a, b) + Rising(b, c)
  BY <1>1 DEF EdgesInv
<1>5. edges' = Rising(slow, a) + Rising(a, b)
  BY <1>3, <1>4 DEF Rising
<1>6. QED
  BY <1>2, <1>5 DEF EdgesInv

(* Each rising edge of the slow clock gives one event before the next edge *)
(* rises, and no event comes without one, however long the clock is high.  *)
THEOREM EdgesCounted == ErrSpec => []OneEventPerEdge
<1> DEFINE Inv == TypeOK /\ EdgesInv
<1>1. ErrInit => Inv
  <2> SUFFICES ASSUME ErrInit PROVE Inv
    OBVIOUS
  <2>1. TypeOK
    BY InitType DEF ErrInit
  <2>2. lsSync = <<FALSE, FALSE, FALSE>> /\ level = FALSE /\ edges = 0
    BY DEF ErrInit, GenInit, Reset
  <2>3. lsSync \in BOOLEAN \X BOOLEAN \X BOOLEAN
    BY <2>1 DEF TypeOK
  <2>4. Rising(lsSync[1], lsSync[2]) = 0 /\ Rising(lsSync[2], lsSync[3]) = 0
    BY <2>2 DEF Rising
  <2>5. edges = Rising(lsSync[1], lsSync[2]) + Rising(lsSync[2], lsSync[3])
    <3>1. edges = 0
      BY <2>2
    <3>2. QED
      BY <2>4, <3>1
  <2>6. QED
    BY <2>1, <2>2, <2>3, <2>5 DEF EdgesInv
<1>2. ASSUME Inv, [ErrNext]_errVars
      PROVE  Inv'
  <2>1. CASE ErrNext
    <3>1. PICK per \in SUBSET PerEvent, ready \in SUBSET Dest, slow \in SlowLevels :
            ErrClock(per, ready, slow)
      BY <2>1 DEF ErrNext
    <3>2. slow \in BOOLEAN
      BY GeneratorAssumption
    <3>3. QED
      BY <1>2, <3>1, <3>2, ErrClockIsClock, ClockType, EdgesStep
  <2>2. CASE UNCHANGED errVars
    BY <1>2, <2>2 DEF errVars, genVars, TypeOK, EdgesInv
  <2>3. QED
    BY <1>2, <2>1, <2>2
<1>3. Inv => OneEventPerEdge
  BY DEF EdgesInv, Rising, OneEventPerEdge
<1>4. QED
  BY <1>1, <1>2, <1>3, PTL DEF ErrSpec

-----------------------------------------------------------------------------
(* Delivery to several buses.  The lemma is the step: a bus takes an       *)
(* occurrence that stays queued only while another is offered it too and   *)
(* is not ready.                                                           *)

LEMMA StaysIfShared ==
  ASSUME NEW ready, Ack(ready) = {}, NEW d \in Offered \cap ready
  PROVE  \E c \in Offered : Offered # {c}
<1>1. ~EventReady(ready)
  <2>1. Granted # {}
    BY DEF Offered, Valid
  <2>2. QED
    BY <2>1 DEF Ack
<1>2. PICK c \in Dest : Valid(c) /\ c \notin ready
  BY <1>1 DEF EventReady
<1>3. QED
  BY <1>2 DEF Offered

LEMMA FanStep ==
  ASSUME TwiceOnlyIfShared, NoBusMisses, holders \in [Event -> SUBSET Dest],
         NEW ready, NoteTakers(ready)
  PROVE  TwiceOnlyIfShared' /\ NoBusMisses' /\ holders' \in [Event -> SUBSET Dest]
<1> DEFINE acked == Ack(ready)
           takers == Offered \cap ready
<1>1. holders' = [e \in Event |-> IF e \in acked THEN {}
                                  ELSE IF e \in Granted THEN holders[e] \cup takers
                                  ELSE holders[e]]
  BY DEF NoteTakers
<1>2. holders' \in [Event -> SUBSET Dest]
  BY <1>1 DEF Offered
<1>3. ASSUME NEW e \in Event, holders'[e] # {}
      PROVE  e \in shared'
  <2>1. e \notin acked
    BY <1>1, <1>3
  <2>2. CASE holders[e] # {}
    BY <2>1, <2>2 DEF NoteTakers, TwiceOnlyIfShared
  <2>3. CASE holders[e] = {}
    <3>1. e \in Granted /\ takers # {}
      BY <1>1, <1>3, <2>1, <2>3
    <3>2. acked = {}
      BY <2>1, <3>1 DEF Ack
    <3>3. \E c \in Offered : Offered # {c}
      BY <3>1, <3>2, StaysIfShared
    <3>4. QED
      BY <2>1, <3>1, <3>3 DEF NoteTakers
  <2>4. QED
    BY <2>2, <2>3
<1>4. ASSUME NEW e \in acked
      PROVE  Offered \subseteq takers
  <2>1. EventReady(ready)
    BY <1>4 DEF Ack
  <2>2. QED
    BY <2>1 DEF EventReady, Offered
<1>5. NoBusMisses'
  BY <1>4 DEF NoteTakers, NoBusMisses
<1>6. QED
  BY <1>2, <1>3, <1>5 DEF TwiceOnlyIfShared

(* A bus takes an occurrence that stays queued, to be offered to it again, *)
(* only if the occurrence was offered to two buses at once; and no         *)
(* occurrence leaves its queue before each bus it is offered to took it.   *)
THEOREM FanoutCorrect == FanSpec => [](TwiceOnlyIfShared /\ NoBusMisses)
<1> DEFINE Inv == TwiceOnlyIfShared /\ NoBusMisses /\ holders \in [Event -> SUBSET Dest]
<1>1. FanInit => Inv
  BY DEF FanInit, TwiceOnlyIfShared, NoBusMisses
<1>2. ASSUME Inv, [FanNext]_fanVars
      PROVE  Inv'
  <2>1. CASE FanNext
    BY <1>2, <2>1, FanStep DEF FanNext, FanClock
  <2>2. CASE UNCHANGED fanVars
    BY <1>2, <2>2 DEF fanVars, TwiceOnlyIfShared, NoBusMisses
  <2>3. QED
    BY <1>2, <2>1, <2>2
<1>3. QED
  BY <1>1, <1>2, PTL DEF FanSpec

(* Both observers watch the same generator: what holds under each of them  *)
(* holds when they watch together.                                         *)
THEOREM BusesCorrect == BusSpec => [](BoundedBypass /\ TwiceOnlyIfShared /\ NoBusMisses)
<1>1. BusInit => FairInit /\ FanInit
  BY DEF BusInit
<1>2. [BusNext]_busVars => [FairNext]_fairVars
  BY DEF BusNext, BusClock, busVars, FairNext, FairClock, fairVars
<1>3. [BusNext]_busVars => [FanNext]_fanVars
  BY DEF BusNext, BusClock, busVars, FanNext, FanClock, fanVars
<1>4. BusSpec => FairSpec /\ FanSpec
  BY <1>1, <1>2, <1>3, PTL DEF BusSpec, FairSpec, FanSpec
<1>5. QED
  BY <1>4, BypassBounded, FanoutCorrect, PTL
=============================================================================
