-------------------------- MODULE EventPath_proofs --------------------------
(***************************************************************************)
(* The event path is an event service, for every number of events, every   *)
(* depth of the FIFO and every choice of enabled events and lines: between *)
(* the edge that raises it and the handler that reads it, no event is      *)
(* lost, duplicated or mixed up.                                           *)
(***************************************************************************)
EXTENDS EventPath, FiniteSetTheorems, FunctionTheorems, SequenceTheorems, TLAPS

(* The controller's lemmas, at the path's constants.                       *)
CtrlP == INSTANCE ApbInterruptCntrl_proofs
  WITH PtrMod <- Depth, Data <- Gen!Event, Zero <- 0, Line <- {FifoLine, ErrLine},
       NoIrq <- None, WriteData <- {}

-----------------------------------------------------------------------------
(* How often a word occurs in a sequence.                                  *)
Places(s, e) == {i \in DOMAIN s : s[i] = e}
Occurs(s, e) == Cardinality(Places(s, e))
One(b) == IF b THEN 1 ELSE 0

LEMMA OccursFinite ==
  ASSUME NEW S, NEW s \in Seq(S), NEW e
  PROVE  IsFiniteSet(Places(s, e)) /\ Occurs(s, e) \in Nat
<1>1. Len(s) \in Nat /\ DOMAIN s = 1 .. Len(s)
  BY LenProperties
<1>2. IsFiniteSet(1 .. Len(s)) /\ Places(s, e) \in SUBSET (1 .. Len(s))
  BY <1>1, FS_Interval DEF Places
<1>3. IsFiniteSet(Places(s, e))
  BY <1>2, FS_Subset
<1>4. QED
  BY <1>3, FS_CardinalityType DEF Occurs

LEMMA OccursEmpty == \A e : Occurs(<<>>, e) = 0
<1>1. \A e : Places(<<>>, e) = {}
  BY DEF Places
<1>2. QED
  BY <1>1, FS_EmptySet DEF Occurs

LEMMA OccursAppend ==
  ASSUME NEW S, NEW s \in Seq(S), NEW d \in S, NEW e
  PROVE  Occurs(Append(s, d), e) = Occurs(s, e) + One(e = d)
<1> DEFINE n == Len(s)
           t == Append(s, d)
<1>1. /\ n \in Nat /\ DOMAIN s = 1 .. n /\ DOMAIN t = 1 .. n + 1
      /\ \A i \in 1 .. n : t[i] = s[i]
      /\ t[n + 1] = d
  BY LenProperties, AppendProperties
<1>2. IsFiniteSet(Places(s, e)) /\ Occurs(s, e) \in Nat
  BY OccursFinite
<1> HIDE DEF n, t
<1>3. n + 1 \notin 1 .. n /\ 1 .. n + 1 = (1 .. n) \cup {n + 1}
  BY <1>1
<1>4. CASE e = d
  <2>1. Places(t, e) = Places(s, e) \cup {n + 1} /\ n + 1 \notin Places(s, e)
    BY <1>1, <1>3, <1>4 DEF Places
  <2>2. QED
    BY <1>2, <1>4, <2>1, FS_AddElement DEF Occurs, One, t
<1>5. CASE e # d
  <2>1. Places(t, e) = Places(s, e)
    BY <1>1, <1>3, <1>5 DEF Places
  <2>2. QED
    BY <1>2, <1>5, <2>1 DEF Occurs, One, t
<1>6. QED
  BY <1>4, <1>5

LEMMA OccursTail ==
  ASSUME NEW S, NEW s \in Seq(S), s # <<>>, NEW e
  PROVE  Occurs(s, e) = Occurs(Tail(s), e) + One(e = s[1])
<1> DEFINE n == Len(s)
           t == Tail(s)
           later == {i \in 2 .. n : s[i] = e}
           shift == [i \in Places(t, e) |-> i + 1]
<1>1. /\ n \in Nat /\ n >= 1 /\ DOMAIN s = 1 .. n /\ DOMAIN t = 1 .. n - 1
      /\ \A i \in 1 .. n - 1 : t[i] = s[i + 1]
  BY LenProperties, EmptySeq, HeadTailProperties
<1>2. t \in Seq(S)
  BY HeadTailProperties
<1>3. IsFiniteSet(Places(t, e)) /\ Occurs(t, e) \in Nat
  BY <1>2, OccursFinite
<1> HIDE DEF n, t
<1>4. shift \in Bijection(Places(t, e), later)
  <2>1. shift \in [Places(t, e) -> later]
    BY <1>1 DEF Places
  <2>2. \A i, j \in Places(t, e) : shift[i] = shift[j] => i = j
    BY <1>1 DEF Places
  <2>3. ASSUME NEW k \in later
        PROVE  \E i \in Places(t, e) : shift[i] = k
    <3>1. k - 1 \in Places(t, e) /\ (k - 1) + 1 = k
      BY <1>1 DEF Places
    <3>2. QED
      BY <3>1
  <2>4. QED
    BY <2>1, <2>2, <2>3, Fun_IsBij
<1> HIDE DEF later, shift
<1>5. IsFiniteSet(later) /\ Cardinality(later) = Occurs(t, e)
  BY <1>3, <1>4, Fun_ExistsBij, FS_Bijection DEF Occurs
<1>6. 1 \notin later /\ 1 .. n = (2 .. n) \cup {1}
  BY <1>1 DEF later
<1>7. CASE e = s[1]
  <2>1. Places(s, e) = later \cup {1}
    BY <1>1, <1>6, <1>7 DEF Places, later
  <2>2. Cardinality(later \cup {1}) = Cardinality(later) + 1
    BY <1>5, <1>6, FS_AddElement
  <2>3. QED
    BY <1>5, <1>7, <2>1, <2>2 DEF Occurs, One, t
<1>8. CASE e # s[1]
  <2>1. Places(s, e) = later
    BY <1>1, <1>6, <1>8 DEF Places, later
  <2>2. QED
    BY <1>3, <1>5, <1>8, <2>1 DEF Occurs, One, t
<1>9. QED
  BY <1>7, <1>8

-----------------------------------------------------------------------------
(* The invariant.  The controller's is that of its own proofs: the handler *)
(* is entered with an event behind the line; and a handler runs to its end *)
(* before the core samples again, so that the FIFO register is read before *)
(* it is loaded the next time.                                             *)
QueueTypes ==
  /\ count \in [Gen!Event -> 0 .. Gen!QueueMax]
  /\ prio \in Gen!Event
  /\ mask \in [{"fc"} -> SUBSET Gen!Event]
CoreInv ==
  /\ handler \in {None, FifoLine, ErrLine}
  /\ coreId # None => handler = None
OnlyEnabled ==
  /\ Ctrl!Contents \in Seq(Enabled)
  /\ handler = FifoLine => fifoEvent \in Enabled

PathInv == QueueTypes /\ CtrlP!IrqInv /\ ~spoiled /\ CoreInv /\ OnlyEnabled

-----------------------------------------------------------------------------
(* The generator's side of an edge.                                        *)
LEMMA EventIds ==
  /\ Gen!EvntNum \in Nat /\ Gen!EvntNum > 1
  /\ Gen!Event = 0 .. Gen!EvntNum - 1 /\ 0 \in Gen!Event
BY PathAssumption DEF Gen!EvntNum, Gen!Event

(* One event is granted, or none; a granted event waits.                   *)
LEMMA OneGranted ==
  ASSUME QueueTypes
  PROVE  /\ Gen!Granted \subseteq Gen!Req /\ Gen!Req \subseteq Gen!Event
         /\ \A f, g \in Gen!Granted : f = g
<1>1. Gen!Granted \subseteq Gen!Req /\ Gen!Req \subseteq Gen!Event
  BY DEF Gen!Granted, Gen!FirstFrom, Gen!Req
<1>2. ASSUME NEW f \in Gen!Granted, NEW g \in Gen!Granted
      PROVE  f = g
  <2>1. /\ Gen!Distance(Gen!EvntNum, prio, f) <= Gen!Distance(Gen!EvntNum, prio, g)
        /\ Gen!Distance(Gen!EvntNum, prio, g) <= Gen!Distance(Gen!EvntNum, prio, f)
    BY <1>2 DEF Gen!Granted, Gen!FirstFrom
  <2>2. PICK n \in Nat, p \in Nat : n = Gen!EvntNum /\ p = prio /\ p < n
    BY EventIds DEF QueueTypes
  <2>3. f \in 0 .. n - 1 /\ g \in 0 .. n - 1
    BY <1>1, <1>2, <2>2, EventIds
  <2>4. QED
    BY <2>1, <2>2, <2>3 DEF Gen!Distance
<1>3. QED
  BY <1>1, <1>2

(* An enabled event leaves its queue exactly when the FIFO takes it.       *)
LEMMA OfferTaken ==
  ASSUME QueueTypes, NEW d \in FcData
  PROVE  /\ d \in Gen!Event
         /\ Gen!Valid("fc") => d \in Enabled
         /\ \A e \in Enabled : e \in Gen!Ack(FcReady)
                                 <=> Gen!Valid("fc") /\ Ctrl!GrantO /\ e = d
<1>1. /\ Gen!Granted \subseteq Gen!Req /\ Gen!Req \subseteq Gen!Event
      /\ \A f, g \in Gen!Granted : f = g
  BY OneGranted
<1>2. CASE Gen!Granted = {}
  BY <1>2, EventIds DEF FcData, Gen!Valid, Gen!Ack
<1>3. CASE Gen!Granted # {}
  <2>1. Gen!Granted = {d} /\ d \in Gen!Event
    BY <1>1, <1>3 DEF FcData
  <2>2. Gen!Valid("fc") <=> d \in Enabled
    BY <2>1 DEF Gen!Valid, Enabled
  <2>3. Gen!EventReady(FcReady) <=> (Gen!Valid("fc") => Ctrl!GrantO)
    BY DEF Gen!EventReady, FcReady
  <2>4. QED
    BY <2>1, <2>2, <2>3 DEF Gen!Ack
<1>4. QED
  BY <1>2, <1>3

(* The occurrences the queues refuse at an edge, and the only reason.      *)
Refused(ev) == {e \in ev : count[e] = Gen!QueueMax /\ e \notin Gen!Ack(FcReady)}

LEMMA QueuesMove ==
  ASSUME QueueTypes, NEW ev, Gen!Queues(ev, Gen!Ack(FcReady)), NEW e \in Gen!Event
  PROVE  /\ count'[e] \in 0 .. Gen!QueueMax
         /\ count'[e] + One(e \in Gen!Ack(FcReady)) = count[e] + One(e \in ev \ Refused(ev))
<1>1. count[e] \in 0 .. 3
  BY DEF QueueTypes, Gen!QueueMax
<1>2. e \in Gen!Ack(FcReady) => count[e] > 0
  BY OneGranted DEF Gen!Ack, Gen!Req
<1>3. count'[e] = Gen!NextCount(count[e], e \in ev, e \in Gen!Ack(FcReady))
  BY DEF Gen!Queues
<1>4. e \in ev \ Refused(ev) <=> e \in ev /\ ~(count[e] = 3 /\ e \notin Gen!Ack(FcReady))
  BY DEF Refused, Gen!QueueMax
<1>5. CASE e \in Gen!Ack(FcReady)
  BY <1>1, <1>2, <1>3, <1>4, <1>5 DEF Gen!NextCount, Gen!QueueMax, One
<1>6. CASE e \notin Gen!Ack(FcReady)
  BY <1>1, <1>3, <1>4, <1>6 DEF Gen!NextCount, Gen!QueueMax, One
<1>7. QED
  BY <1>5, <1>6

LEMMA GeneratorTypes ==
  ASSUME QueueTypes, NEW ev, NEW acked, Hardware(ev, acked), mask' = mask
  PROVE  QueueTypes'
<1> DEFINE taken == Gen!Ack(FcReady)
<1>1. Gen!Queues(ev, taken) /\ Gen!Arbiter(taken)
  BY DEF Hardware
<1>2. count' \in [Gen!Event -> 0 .. Gen!QueueMax]
  <2>1. \A e \in Gen!Event : count'[e] \in 0 .. Gen!QueueMax
    BY <1>1, QueuesMove
  <2>2. QED
    BY <1>1, <2>1 DEF Gen!Queues
<1>3. prio' \in Gen!Event
  <2>1. CASE taken = {}
    BY <1>1, <2>1 DEF Gen!Arbiter, QueueTypes
  <2>2. CASE taken # {}
    <3>1. PICK g \in taken : prio' = Gen!Successor(Gen!EvntNum, g)
      BY <1>1, <2>2 DEF Gen!Arbiter
    <3>2. g \in Gen!Event
      BY OneGranted DEF Gen!Ack
    <3>3. QED
      BY <3>1, <3>2, EventIds DEF Gen!Successor
  <2>3. QED
    BY <2>1, <2>2
<1>4. QED
  BY <1>2, <1>3 DEF QueueTypes

-----------------------------------------------------------------------------
(* The controller's side.  The controller's own lemmas speak of CtrlP,     *)
(* which has the definitions of Ctrl under another name; its assumptions   *)
(* on the constants hold.                                                  *)
LEMMA ControllerConstants ==
  /\ Depth \in Nat /\ Depth > 1 /\ Depth >= Depth /\ Depth < 2 * Depth
  /\ 0 \in Gen!Event
  /\ {FifoLine, ErrLine} \subseteq Nat /\ FifoLine \in {FifoLine, ErrLine}
  /\ None \notin {FifoLine, ErrLine}
  /\ {} \subseteq SUBSET {FifoLine, ErrLine}
<1>1. Depth \in Nat /\ Depth > 1 /\ Depth >= Depth /\ Depth < 2 * Depth
  BY PathAssumption
<1>2. {FifoLine, ErrLine} \subseteq Nat
  BY DEF FifoLine, ErrLine
<1>3. QED
  BY <1>1, <1>2, PathAssumption, EventIds

LEMMA SameController ==
  /\ Ctrl!Contents = CtrlP!Contents
  /\ Ctrl!ValidO = CtrlP!ValidO /\ Ctrl!GrantO = CtrlP!GrantO /\ Ctrl!DataO = CtrlP!DataO
BY DEF Ctrl!Contents, CtrlP!Contents, Ctrl!Words, CtrlP!Words, Ctrl!At, CtrlP!At,
       Ctrl!Occupancy, CtrlP!Occupancy, Ctrl!ValidO, CtrlP!ValidO, Ctrl!GrantO, CtrlP!GrantO,
       Ctrl!DataO, CtrlP!DataO

LEMMA SameContents == Ctrl!Contents' = CtrlP!Contents'
BY DEF Ctrl!Contents, CtrlP!Contents, Ctrl!Words, CtrlP!Words, Ctrl!At, CtrlP!At,
       Ctrl!Occupancy, CtrlP!Occupancy

LEMMA SameClock ==
  ASSUME NEW valid, NEW d, NEW grant, Ctrl!Clock(valid, d, grant)
  PROVE  CtrlP!Clock(valid, d, grant)
BY DEF Ctrl!Clock, CtrlP!Clock, Ctrl!PushEmpty, CtrlP!PushEmpty, Ctrl!PopMiddle,
       CtrlP!PopMiddle, Ctrl!PushMiddle, CtrlP!PushMiddle, Ctrl!PushPopMiddle,
       CtrlP!PushPopMiddle, Ctrl!PopFull, CtrlP!PopFull, Ctrl!fifoVars, CtrlP!fifoVars,
       Ctrl!Write, CtrlP!Write, Ctrl!Wrap, CtrlP!Wrap, Ctrl!Slot, CtrlP!Slot,
       Ctrl!LastWord, CtrlP!LastWord, Ctrl!LastRoom, CtrlP!LastRoom

LEMMA SameCtrlClock ==
  ASSUME NEW valid, NEW d, NEW events, NEW acked,
         Ctrl!CtrlClock(valid, d, events, acked, Ctrl!NoWrite)
  PROVE  CtrlP!CtrlClock(valid, d, events, acked, CtrlP!NoWrite)
<1>1. CtrlP!Clock(valid, d, Ctrl!FifoReady(acked, Ctrl!NoWrite))
  BY SameClock DEF Ctrl!CtrlClock
<1>2. Ctrl!FifoReady(acked, Ctrl!NoWrite) = CtrlP!FifoReady(acked, CtrlP!NoWrite)
  BY DEF Ctrl!FifoReady, CtrlP!FifoReady, Ctrl!PopsFifo, CtrlP!PopsFifo,
         Ctrl!NoWrite, CtrlP!NoWrite
<1>3. /\ CtrlP!FifoEvent(acked, CtrlP!NoWrite)
      /\ irqMask' = irqMask
      /\ int' = CtrlP!IntNext(acked, CtrlP!NoWrite, CtrlP!Lines(events))
      /\ ack' = ack \cup acked
  BY <1>2 DEF Ctrl!CtrlClock, Ctrl!FifoEvent, CtrlP!FifoEvent, Ctrl!IntNext, CtrlP!IntNext,
              Ctrl!Lines, CtrlP!Lines, Ctrl!NoWrite, CtrlP!NoWrite, Ctrl!ValidO, CtrlP!ValidO,
              Ctrl!DataO, CtrlP!DataO
<1>4. QED
  BY <1>1, <1>2, <1>3 DEF CtrlP!CtrlClock, CtrlP!NoWrite

(* What the core may do at an edge, and the ids it acknowledges then.      *)
CoreSide(acked) ==
  \/ acked = {} /\ (Ctrl!CoreSample \/ coreId' = coreId)
  \/ acked = {coreId} /\ Ctrl!CoreTake

LEMMA ControllerEdge ==
  ASSUME PathInv, NEW ev, NEW acked, Hardware(ev, acked), CoreSide(acked)
  PROVE  CtrlP!IrqInv' /\ ~spoiled'
<1>1. PICK d \in FcData :
        Ctrl!CtrlClock(Gen!Valid("fc"), d, FcEvents(ev), acked, Ctrl!NoWrite)
  BY DEF Hardware
<1>2. CtrlP!CtrlClock(Gen!Valid("fc"), d, FcEvents(ev), acked, CtrlP!NoWrite)
  BY <1>1, SameCtrlClock
<1>3. ~spoiled' /\ spoiled' = spoiled
  BY DEF PathInv, Hardware
<1>4. /\ CtrlP!Spoil(acked, CtrlP!NoWrite)
      /\ \/ acked = {} /\ (CtrlP!CoreSample \/ CtrlP!CoreWait)
         \/ acked = {coreId} /\ CtrlP!CoreTake
  <2>1. CtrlP!Spoil(acked, CtrlP!NoWrite)
    <3>1. spoiled' = FALSE /\ spoiled = FALSE
      BY <1>3 DEF PathInv, CtrlP!IrqInv, CtrlP!CtrlTypeOK
    <3>2. QED
      BY <3>1 DEF CtrlP!Spoil, CtrlP!NoWrite, CtrlP!PopsFifo
  <2>2. QED
    BY <2>1 DEF CoreSide, Ctrl!CoreSample, CtrlP!CoreSample, Ctrl!CoreTake, CtrlP!CoreTake,
                CtrlP!CoreWait, Ctrl!IrqId, CtrlP!IrqId, Ctrl!Requests, CtrlP!Requests
<1>5. CtrlP!Edge(Gen!Valid("fc"), d, FcEvents(ev), CtrlP!NoWrite)
  BY <1>2, <1>4 DEF CtrlP!Edge
<1>6. /\ Gen!Valid("fc") \in BOOLEAN /\ d \in Gen!Event
      /\ FcEvents(ev) \in SUBSET {FifoLine, ErrLine}
      /\ CtrlP!NoWrite \in CtrlP!Writes \cup {CtrlP!NoWrite}
  BY OfferTaken DEF PathInv, Gen!Valid, FcEvents
<1>7. CtrlP!Inv' /\ CtrlP!CtrlTypeOK'
  BY <1>5, <1>6, ControllerConstants, CtrlP!EdgeType DEF PathInv, CtrlP!IrqInv
<1>8. CtrlP!PendingHasEvent'
  BY <1>5, <1>6, ControllerConstants, CtrlP!EdgePending DEF PathInv, CtrlP!IrqInv
<1>9. QED
  BY <1>3, <1>7, <1>8 DEF CtrlP!IrqInv

(* The FIFO takes the event offered to the fabric controller, and hands    *)
(* out its oldest one when the core acknowledges its line.                 *)
LEMMA FifoEdge ==
  ASSUME PathInv, NEW ev, NEW acked, Hardware(ev, acked), CoreSide(acked)
  PROVE  \E d \in FcData :
           LET out == FifoLine \in acked
               kept == IF out THEN Tail(Ctrl!Contents) ELSE Ctrl!Contents
           IN  /\ out => Ctrl!Contents # <<>> /\ fifoEvent' = Ctrl!Contents[1]
               /\ ~out => fifoEvent' = fifoEvent
               /\ Ctrl!Contents' = IF Gen!Valid("fc") /\ Ctrl!GrantO THEN Append(kept, d) ELSE kept
<1>1. PICK d \in FcData :
        Ctrl!CtrlClock(Gen!Valid("fc"), d, FcEvents(ev), acked, Ctrl!NoWrite)
  BY DEF Hardware
<1> DEFINE out == FifoLine \in acked
<1>2. /\ Ctrl!Clock(Gen!Valid("fc"), d, out)
      /\ fifoEvent' = IF CtrlP!ValidO /\ out THEN CtrlP!DataO ELSE fifoEvent
  <2>1. /\ Ctrl!Clock(Gen!Valid("fc"), d, Ctrl!FifoReady(acked, Ctrl!NoWrite))
        /\ fifoEvent' = IF Ctrl!ValidO /\ Ctrl!FifoReady(acked, Ctrl!NoWrite)
                          THEN Ctrl!DataO ELSE fifoEvent
    BY <1>1 DEF Ctrl!CtrlClock, Ctrl!FifoEvent
  <2>2. Ctrl!FifoReady(acked, Ctrl!NoWrite) = out
    BY DEF Ctrl!FifoReady, Ctrl!PopsFifo, Ctrl!NoWrite
  <2>3. QED
    BY <2>1, <2>2, SameController
<1>3. CtrlP!Inv /\ d \in Gen!Event /\ Gen!Valid("fc") \in BOOLEAN /\ out \in BOOLEAN
  BY OfferTaken DEF PathInv, CtrlP!IrqInv, Gen!Valid
<1>4. out => CtrlP!ValidO
  <2>1. out => coreId = FifoLine
    BY DEF CoreSide
  <2>2. QED
    BY <2>1 DEF PathInv, CtrlP!IrqInv, CtrlP!PendingHasEvent
<1>5. CtrlP!Contents' = CtrlP!Filled(Gen!Valid("fc"), d, out)
  BY <1>2, <1>3, SameClock, ControllerConstants, CtrlP!ClockContents
<1>6. CtrlP!ValidO => CtrlP!Contents # <<>> /\ CtrlP!Contents[1] = CtrlP!DataO
  BY <1>3, ControllerConstants, CtrlP!ContentsSeq
<1>7. QED
  BY <1>2, <1>4, <1>5, <1>6, SameController, SameContents DEF CtrlP!Filled, CtrlP!Kept

-----------------------------------------------------------------------------
(* The FIFO never holds an event that software has disabled.               *)
LEMMA ContentsEnabled ==
  ASSUME PathInv, NEW ev, NEW acked, Hardware(ev, acked), CoreSide(acked), mask' = mask
  PROVE  /\ Enabled' = Enabled
         /\ Ctrl!Contents' \in Seq(Enabled)
         /\ FifoLine \in acked => fifoEvent' \in Enabled
<1> DEFINE C == Ctrl!Contents
           out == FifoLine \in acked
           kept == IF out THEN Tail(C) ELSE C
<1>1. Enabled' = Enabled
  BY DEF Enabled
<1>2. PICK d \in FcData :
        /\ out => C # <<>> /\ fifoEvent' = C[1]
        /\ C' = IF Gen!Valid("fc") /\ Ctrl!GrantO THEN Append(kept, d) ELSE kept
  BY FifoEdge
<1>3. C \in Seq(Enabled)
  BY DEF PathInv, OnlyEnabled
<1>4. Gen!Valid("fc") => d \in Enabled
  BY OfferTaken DEF PathInv
<1> HIDE DEF C, out
<1>5. out => C[1] \in Enabled /\ Tail(C) \in Seq(Enabled)
  BY <1>2, <1>3, HeadTailProperties, ElementOfSeq, EmptySeq, LenProperties
<1>6. kept \in Seq(Enabled)
  BY <1>3, <1>5
<1>7. C' \in Seq(Enabled)
  BY <1>2, <1>4, <1>6, AppendProperties
<1>8. QED
  BY <1>1, <1>2, <1>5, <1>7 DEF C, out

(* The balance of an edge: queue and FIFO together gain the occurrence     *)
(* raised and not refused, and lose the one that goes to the handler.      *)
LEMMA EdgeBalance ==
  ASSUME PathInv, NEW ev, NEW acked, Hardware(ev, acked), CoreSide(acked), mask' = mask,
         NEW e \in Enabled
  PROVE  /\ count[e] \in Nat /\ InFifo(e) \in Nat
         /\ count'[e] \in Nat /\ InFifo(e)' \in Nat
         /\ count'[e] + InFifo(e)' + One(FifoLine \in acked /\ e = fifoEvent')
              = count[e] + InFifo(e) + One(e \in ev \ Refused(ev))
<1> DEFINE C == Ctrl!Contents
           out == FifoLine \in acked
           kept == IF out THEN Tail(C) ELSE C
           put == Gen!Valid("fc") /\ Ctrl!GrantO
<1>1. PICK d \in FcData :
        /\ out => C # <<>> /\ fifoEvent' = C[1]
        /\ C' = IF put THEN Append(kept, d) ELSE kept
  BY FifoEdge
<1>2. /\ e \in Gen!Event /\ QueueTypes /\ C \in Seq(Enabled)
  BY DEF PathInv, OnlyEnabled, Enabled
<1>3. Gen!Valid("fc") => d \in Enabled
  BY <1>2, OfferTaken
<1>4. e \in Gen!Ack(FcReady) <=> put /\ e = d
  BY <1>2, OfferTaken
<1>5. /\ count'[e] \in 0 .. Gen!QueueMax
      /\ count'[e] + One(e \in Gen!Ack(FcReady)) = count[e] + One(e \in ev \ Refused(ev))
  BY <1>2, QueuesMove DEF Hardware
<1>6. count[e] \in Nat /\ count'[e] \in Nat
  BY <1>2, <1>5 DEF QueueTypes, Gen!QueueMax
<1>7. InFifo(e) = Occurs(C, e) /\ InFifo(e)' = Occurs(C', e)
  BY DEF InFifo, Occurs, Places
<1> HIDE DEF C, out, put
<1>8. kept \in Seq(Enabled) /\ Occurs(C, e) \in Nat /\ Occurs(kept, e) \in Nat
  <2>1. kept \in Seq(Enabled)
    BY <1>1, <1>2, HeadTailProperties
  <2>2. QED
    BY <1>2, <2>1, OccursFinite
<1>9. kept = IF out THEN Tail(C) ELSE C
  OBVIOUS
<1> HIDE DEF kept
<1>10. Occurs(C, e) = Occurs(kept, e) + One(out /\ e = fifoEvent')
  <2>1. CASE out
    BY <1>1, <1>2, <1>9, <2>1, OccursTail
  <2>2. CASE ~out
    BY <1>8, <1>9, <2>2 DEF One
  <2>3. QED
    BY <2>1, <2>2
<1>11. Occurs(C', e) = Occurs(kept, e) + One(put /\ e = d)
  <2>1. CASE put
    <3>1. d \in Enabled
      BY <1>3, <2>1 DEF put
    <3>2. Occurs(Append(kept, d), e) = Occurs(kept, e) + One(e = d)
      BY <1>8, <3>1, OccursAppend
    <3>3. QED
      BY <1>1, <2>1, <3>2
  <2>2. CASE ~put
    BY <1>1, <1>8, <2>2 DEF One
  <2>3. QED
    BY <2>1, <2>2
<1>12. /\ One(put /\ e = d) \in Nat /\ One(out /\ e = fifoEvent') \in Nat
       /\ One(e \in ev \ Refused(ev)) \in Nat
  BY DEF One
<1>13. QED
  <2>1. PICK c1, c2, f1, f2, k, p, q, r \in Nat :
          /\ c1 = count[e] /\ c2 = count'[e] /\ f1 = InFifo(e) /\ f2 = InFifo(e)'
          /\ k = Occurs(kept, e) /\ p = One(put /\ e = d) /\ q = One(out /\ e = fifoEvent')
          /\ r = One(e \in ev \ Refused(ev))
    <3>1. InFifo(e)' \in Nat
      BY <1>7, <1>8, <1>11, <1>12
    <3>2. QED
      BY <1>6, <1>7, <1>8, <1>12, <3>1
  <2>2. c2 + p = c1 + r
    BY <1>4, <1>5, <2>1
  <2>3. f1 = k + q /\ f2 = k + p
    BY <1>7, <1>10, <1>11, <2>1
  <2>4. c2 + f2 + q = c1 + f1 + r
    BY <2>2, <2>3
  <2>5. QED
    BY <2>1, <2>4 DEF out

-----------------------------------------------------------------------------
(* The core's steps, and what each makes of the handler.                   *)
Goes(acked) ==       (* Idle and Sample *)
  /\ acked = {} /\ handler' = handler /\ handled' = None
  /\ coreId' = coreId \/ (Ctrl!CoreSample /\ handler = None)
Enters(acked) ==     (* Take *)
  Ctrl!CoreTake /\ acked = {coreId} /\ handler' = coreId /\ handled' = None
Returns(acked) ==    (* HandleEvent and HandleErr *)
  /\ acked = {} /\ coreId' = coreId /\ handler' = None
  /\ \/ handler = FifoLine /\ handled' = fifoEvent
     \/ handler = ErrLine /\ handled' = None
CoreMove(acked) == Goes(acked) \/ Enters(acked) \/ Returns(acked)

PathStep(ev) ==
  \E acked \in SUBSET {FifoLine, ErrLine} : Hardware(ev, acked) /\ mask' = mask /\ CoreMove(acked)

LEMMA NextMoves ==
  ASSUME PathInv, PathNext
  PROVE  \E ev : PathStep(ev)
<1>1. ASSUME NEW ev, Idle(ev)
      PROVE  PathStep(ev)
  BY <1>1 DEF Idle, PathStep, CoreMove, Goes, Gen!NoAccess, Gen!WriteEvent
<1>2. ASSUME NEW ev, Sample(ev)
      PROVE  PathStep(ev)
  BY <1>2 DEF Sample, PathStep, CoreMove, Goes, Gen!NoAccess
<1>3. ASSUME NEW ev, Take(ev)
      PROVE  PathStep(ev)
  <2>1. {coreId} \in SUBSET {FifoLine, ErrLine}
    BY <1>3 DEF Take, Ctrl!CoreTake, PathInv, CtrlP!IrqInv, CtrlP!CtrlTypeOK
  <2>2. Enters({coreId}) /\ Hardware(ev, {coreId}) /\ mask' = mask
    BY <1>3 DEF Take, Enters, Gen!NoAccess
  <2>3. QED
    BY <2>1, <2>2 DEF PathStep, CoreMove
<1>4. ASSUME NEW ev, HandleEvent(ev)
      PROVE  PathStep(ev)
  BY <1>4 DEF HandleEvent, PathStep, CoreMove, Returns, Gen!NoAccess
<1>5. ASSUME NEW ev, HandleErr(ev)
      PROVE  PathStep(ev)
  BY <1>5 DEF HandleErr, PathStep, CoreMove, Returns, Gen!ReadErr
<1>6. QED
  BY <1>1, <1>2, <1>3, <1>4, <1>5 DEF PathNext, CoreNext, Step

LEMMA MoveIsCoreSide ==
  ASSUME NEW acked, CoreMove(acked)
  PROVE  CoreSide(acked)
BY DEF CoreMove, Goes, Enters, Returns, CoreSide

(* Between the FIFO and the handler there is one event at most.            *)
LEMMA HandlerBalance ==
  ASSUME PathInv, NEW acked, CoreMove(acked), NEW e \in Enabled,
         FifoLine \notin acked => fifoEvent' = fifoEvent
  PROVE  /\ InHandler(e) \in Nat /\ InHandler(e)' \in Nat
         /\ InHandler(e)' + One(e = handled') = InHandler(e) + One(FifoLine \in acked /\ e = fifoEvent')
<1>1. /\ None \notin {FifoLine, ErrLine} /\ e # None /\ FifoLine # ErrLine
      /\ coreId # None => handler = None
  BY PathAssumption DEF PathInv, CoreInv, Enabled, FifoLine, ErrLine
<1> USE DEF InHandler, One
<1>2. CASE Goes(acked)
  BY <1>1, <1>2 DEF Goes
<1>3. CASE Enters(acked)
  BY <1>1, <1>3 DEF Enters, Ctrl!CoreTake
<1>4. CASE Returns(acked)
  BY <1>1, <1>4 DEF Returns
<1>5. QED
  BY <1>2, <1>3, <1>4 DEF CoreMove

LEMMA MoveCore ==
  ASSUME PathInv, NEW acked, CoreMove(acked), CtrlP!CtrlTypeOK',
         FifoLine \in acked => fifoEvent' \in Enabled,
         FifoLine \notin acked => fifoEvent' = fifoEvent
  PROVE  /\ CoreInv'
         /\ handler' = FifoLine => fifoEvent' \in Enabled
         /\ handled' \in Enabled \cup {None}
         /\ handled' # None => handler = FifoLine /\ handled' = fifoEvent
<1>1. /\ None \notin {FifoLine, ErrLine} /\ FifoLine # ErrLine
      /\ coreId \in {FifoLine, ErrLine, None}
      /\ CoreInv /\ (handler = FifoLine => fifoEvent \in Enabled)
  BY PathAssumption DEF PathInv, CtrlP!IrqInv, CtrlP!CtrlTypeOK, OnlyEnabled, FifoLine, ErrLine
<1>2. CASE Goes(acked)
  BY <1>1, <1>2 DEF Goes, CoreInv, Ctrl!CoreSample
<1>3. CASE Enters(acked)
  BY <1>1, <1>3 DEF Enters, CoreInv, Ctrl!CoreTake
<1>4. CASE Returns(acked)
  BY <1>1, <1>4 DEF Returns, CoreInv
<1>5. QED
  BY <1>2, <1>3, <1>4 DEF CoreMove

-----------------------------------------------------------------------------
LEMMA StepInv ==
  ASSUME PathInv, NEW ev, PathStep(ev)
  PROVE  PathInv'
<1>1. PICK acked \in SUBSET {FifoLine, ErrLine} :
        Hardware(ev, acked) /\ mask' = mask /\ CoreMove(acked)
  BY DEF PathStep
<1>2. CoreSide(acked)
  BY <1>1, MoveIsCoreSide
<1>3. QueueTypes'
  BY <1>1, GeneratorTypes DEF PathInv
<1>4. CtrlP!IrqInv' /\ ~spoiled'
  BY <1>1, <1>2, ControllerEdge
<1>5. FifoLine \notin acked => fifoEvent' = fifoEvent
  BY <1>1, <1>2, FifoEdge
<1>6. /\ Enabled' = Enabled /\ Ctrl!Contents' \in Seq(Enabled)
      /\ FifoLine \in acked => fifoEvent' \in Enabled
  BY <1>1, <1>2, ContentsEnabled
<1>7. CoreInv' /\ (handler' = FifoLine => fifoEvent' \in Enabled)
  BY <1>1, <1>4, <1>5, <1>6, MoveCore DEF CtrlP!IrqInv
<1>8. QED
  BY <1>3, <1>4, <1>6, <1>7 DEF PathInv, OnlyEnabled

(* An edge is a step of the service: what waits of an event grows by the   *)
(* occurrence raised and shrinks by the one handled.                       *)
LEMMA StepServes ==
  ASSUME PathInv, NEW ev, PathStep(ev)
  PROVE  Service!Next
<1>1. PICK acked \in SUBSET {FifoLine, ErrLine} :
        Hardware(ev, acked) /\ mask' = mask /\ CoreMove(acked)
  BY DEF PathStep
<1>2. CoreSide(acked)
  BY <1>1, MoveIsCoreSide
<1>3. FifoLine \notin acked => fifoEvent' = fifoEvent
  BY <1>1, <1>2, FifoEdge
<1>4. /\ Enabled' = Enabled
      /\ FifoLine \in acked => fifoEvent' \in Enabled
  BY <1>1, <1>2, ContentsEnabled
<1>5. CtrlP!CtrlTypeOK'
  BY <1>1, <1>2, ControllerEdge DEF CtrlP!IrqInv
<1>6. /\ handled' \in Enabled \cup {None}
      /\ handled' # None => handler = FifoLine /\ handled' = fifoEvent
  BY <1>1, <1>3, <1>4, <1>5, MoveCore
<1>7. raised' = ev \cap Enabled
  BY <1>1 DEF Hardware
<1>8. /\ Enabled \subseteq Gen!Event /\ None \notin Gen!Event
      /\ \A e \in Gen!Event : e \in mask["fc"] <=> e \notin Enabled
  BY PathAssumption DEF Enabled
<1> DEFINE refused == Refused(ev) \cap Enabled
<1>9. ASSUME NEW e \in Enabled
      PROVE  /\ Pending[e] = count[e] + InFifo(e) + InHandler(e)
             /\ count[e] \in Nat /\ InFifo(e) \in Nat /\ InHandler(e) \in Nat
             /\ Pending'[e] = Pending[e] + One(e \in raised' \ refused) - One(e = handled')
  <2>1. /\ Pending[e] = count[e] + InFifo(e) + InHandler(e)
        /\ Pending'[e] = count'[e] + InFifo(e)' + InHandler(e)'
    BY <1>1, <1>8 DEF Pending
  <2>2. /\ count[e] \in Nat /\ InFifo(e) \in Nat
        /\ count'[e] \in Nat /\ InFifo(e)' \in Nat
        /\ count'[e] + InFifo(e)' + One(FifoLine \in acked /\ e = fifoEvent')
             = count[e] + InFifo(e) + One(e \in ev \ Refused(ev))
    BY <1>1, <1>2, EdgeBalance
  <2>3. /\ InHandler(e) \in Nat /\ InHandler(e)' \in Nat
        /\ InHandler(e)' + One(e = handled') = InHandler(e) + One(FifoLine \in acked /\ e = fifoEvent')
    BY <1>1, <1>3, HandlerBalance
  <2>4. e \in raised' \ refused <=> e \in ev \ Refused(ev)
    BY <1>7
  <2>5. One(e \in raised' \ refused) = One(e \in ev \ Refused(ev))
    BY <2>4 DEF One
  <2> HIDE DEF refused
  <2>6. /\ One(FifoLine \in acked /\ e = fifoEvent') \in Nat
        /\ One(e \in raised' \ refused) \in Nat /\ One(e = handled') \in Nat
    BY DEF One
  <2>7. PICK c1, c2, f1, f2, h1, h2, q, r, h \in Nat :
          /\ c1 = count[e] /\ c2 = count'[e] /\ f1 = InFifo(e) /\ f2 = InFifo(e)'
          /\ h1 = InHandler(e) /\ h2 = InHandler(e)'
          /\ q = One(FifoLine \in acked /\ e = fifoEvent')
          /\ r = One(e \in raised' \ refused) /\ h = One(e = handled')
    BY <2>2, <2>3, <2>6
  <2>8. c2 + f2 + q = c1 + f1 + r /\ h2 + h = h1 + q
    BY <2>2, <2>3, <2>5, <2>7
  <2>9. c2 + f2 + h2 = c1 + f1 + h1 + r - h
    BY <2>8
  <2>10. QED
    BY <2>1, <2>2, <2>3, <2>7, <2>9
<1>10. refused \in SUBSET {e \in raised' : Pending[e] >= Gen!QueueMax}
  BY <1>7, <1>9 DEF Refused, Gen!QueueMax
<1>11. Pending' = [e \in Gen!Event |->
                     Pending[e] + Service!One(e \in raised' \ refused) - Service!One(e = handled')]
  <2>1. ASSUME NEW e \in Gen!Event
        PROVE  Pending'[e] = Pending[e] + Service!One(e \in raised' \ refused)
                                        - Service!One(e = handled')
    <3>1. CASE e \in Enabled
      BY <1>9, <3>1 DEF One, Service!One
    <3>2. CASE e \notin Enabled
      <4>1. Pending[e] = 0 /\ Pending'[e] = 0
        BY <1>1, <1>8, <3>2 DEF Pending
      <4>2. e \notin raised' /\ e # handled'
        BY <1>6, <1>7, <1>8, <3>2
      <4>3. QED
        BY <4>1, <4>2 DEF Service!One
    <3>3. QED
      BY <3>1, <3>2
  <2>2. Pending' = [e \in Gen!Event |-> Pending'[e]]
    BY DEF Pending
  <2>3. QED
    BY <2>1, <2>2
<1>12. handled' # None => Pending[handled'] > 0
  <2>1. ASSUME handled' # None PROVE Pending[handled'] > 0
    <3>1. PICK e \in Enabled : e = handled' /\ InHandler(e) = 1
      BY <1>6, <2>1 DEF InHandler
    <3>2. QED
      BY <1>9, <3>1
  <2>2. QED
    BY <2>1
<1>13. QED
  BY <1>4, <1>6, <1>7, <1>10, <1>11, <1>12 DEF Service!Next

LEMMA InitPath == PathInit => PathInv /\ Service!Init
<1> SUFFICES ASSUME PathInit PROVE PathInv /\ Service!Init
  OBVIOUS
<1>1. QueueTypes
  <2>1. 0 \in 0 .. Gen!QueueMax
    BY DEF Gen!QueueMax
  <2>2. count \in [Gen!Event -> 0 .. Gen!QueueMax] /\ prio \in Gen!Event
    BY <2>1, EventIds DEF PathInit, Gen!Reset
  <2>3. QED
    BY <2>2 DEF PathInit, MaskChoice, QueueTypes
<1>2. CtrlP!Inv
  <2>1. CtrlP!Init
    BY DEF PathInit, Ctrl!CtrlReset, Ctrl!Init, CtrlP!Init, Ctrl!Slot, CtrlP!Slot
  <2>2. QED
    BY <2>1, ControllerConstants, CtrlP!InitInv
<1>3. CtrlP!CtrlTypeOK /\ CtrlP!PendingHasEvent /\ spoiled = FALSE /\ coreId = None
  BY ControllerConstants, PathAssumption
     DEF PathInit, Ctrl!CtrlReset, CtrlP!CtrlTypeOK, CtrlP!PendingHasEvent
<1>4. Ctrl!Contents = <<>>
  <2>1. CtrlP!Occupancy = 0
    BY DEF PathInit, Ctrl!CtrlReset, Ctrl!Init, CtrlP!Occupancy
  <2>2. CtrlP!Contents \in Seq(Gen!Event) /\ Len(CtrlP!Contents) = 0
    BY <1>2, <2>1, ControllerConstants, CtrlP!ContentsSeq
  <2>3. QED
    BY <2>2, EmptySeq, SameController
<1>5. CoreInv /\ OnlyEnabled
  BY <1>3, <1>4, EmptySeq, ControllerConstants DEF PathInit, CoreInv, OnlyEnabled
<1>6. Pending = [e \in Gen!Event |-> 0]
  <2>1. ASSUME NEW e \in Gen!Event
        PROVE  count[e] + InFifo(e) + InHandler(e) = 0
    <3>1. InFifo(e) = 0
      BY <1>4, OccursEmpty DEF InFifo, Occurs, Places
    <3>2. InHandler(e) = 0
      BY ControllerConstants DEF PathInit, InHandler
    <3>3. QED
      BY <3>1, <3>2 DEF PathInit, Gen!Reset
  <2>2. QED
    BY <2>1 DEF Pending
<1>7. QED
  BY <1>1, <1>2, <1>3, <1>5, <1>6
     DEF PathInv, CtrlP!IrqInv, Service!Init, PathInit, Enabled

(* No edge, no step of the service.                                        *)
LEMMA Stutter ==
  ASSUME UNCHANGED pathVars
  PROVE  UNCHANGED <<Enabled, Pending, raised, handled>>
BY DEF pathVars, Gen!genVars, Ctrl!irqVars, Ctrl!ctrlVars, Ctrl!fifoVars, Enabled, Pending,
       InFifo, InHandler, Ctrl!Contents, Ctrl!Words, Ctrl!At, Ctrl!Occupancy

LEMMA StutterInv ==
  ASSUME PathInv, UNCHANGED pathVars
  PROVE  PathInv'
<1>1. UNCHANGED <<count, prio, mask, state, pop, push, regs, irqMask, int, ack, fifoEvent,
                  coreId, spoiled, handler>>
  BY DEF pathVars, Gen!genVars, Ctrl!irqVars, Ctrl!ctrlVars, Ctrl!fifoVars
<1>2. Ctrl!Contents' = Ctrl!Contents /\ Enabled' = Enabled
  BY <1>1 DEF Ctrl!Contents, Ctrl!Words, Ctrl!At, Ctrl!Occupancy, Enabled
<1>3. CtrlP!IrqInv'
  BY <1>1 DEF PathInv, CtrlP!IrqInv, CtrlP!Inv, CtrlP!TypeOK, CtrlP!StateInv, CtrlP!CtrlTypeOK,
              CtrlP!PendingHasEvent, CtrlP!ValidO
<1>4. QED
  BY <1>1, <1>2, <1>3 DEF PathInv, QueueTypes, CoreInv, OnlyEnabled

(* Every event raised while it is enabled is handled once, refused only    *)
(* when three of its kind wait, and nothing else is handled: the edges of  *)
(* generator, FIFO, controller and core implement the event service.       *)
THEOREM PathServes == PathSpec => ImplementsService
<1>1. PathInit => PathInv /\ Service!Init
  BY InitPath
<1>2. PathInv /\ [PathNext]_pathVars => PathInv'
  BY NextMoves, StepInv, StutterInv
<1>3. PathInv /\ [PathNext]_pathVars => [Service!Next]_<<Enabled, Pending, raised, handled>>
  BY NextMoves, StepServes, Stutter
<1>4. QED
  BY <1>1, <1>2, <1>3, PTL DEF PathSpec, ImplementsService, Service!Spec
=============================================================================
