--------------------------- MODULE BootCode_proofs ---------------------------
(***************************************************************************)
(* The boot code on the interrupt controller implements the loader whose   *)
(* waits are one step, for every depth of the event FIFO and number of     *)
(* ticks; therefore what is proved of the loader holds of it.              *)
(***************************************************************************)
EXTENDS BootCode, BootLoader_proofs

(* Software and the mask: an interrupt is enabled only inside its wait, and*)
(* a request is under way only before the wait for it has seen its event.  *)
Called == {"ENABLE", "POLL", "SLEEP", "CLEAR", "DISABLE"}
CallInv ==
  /\ call \in Called \cup {"NONE"}
  /\ waiting = (call # "NONE")
  /\ call # "NONE" => pc \in Reads \cup Waits
  /\ call = "POLL" => pc \in Reads
  /\ call = "CLEAR" => WaitLine \in int
  /\ irqMask = IF call \in {"NONE", "ENABLE"} THEN {} ELSE {WaitLine}
  /\ busy => pc \in Reads /\ call \in {"ENABLE", "POLL", "SLEEP"}

(* The event FIFO holds one word from the end of a request until the wait  *)
(* for it clears the line, and none at any other time.                     *)
Held == pc \in Reads /\ ~busy /\ call \in Called \ {"DISABLE"}
EventInv ==
  /\ pop \in Ctrl!Slot /\ push \in Ctrl!Slot
  /\ state = IF Held THEN "MIDDLE" ELSE "EMPTY"
  /\ IF Held THEN push = Ctrl!Wrap(pop) ELSE push = pop
  /\ FifoLine \in int => Held

(* Every round of the power-up wait but the first has seen an edge of its  *)
(* own, and so has a pending line if it is not the first round.            *)
Seen == IF ClkRef \in int THEN 1 ELSE 0
TickInv ==
  /\ ticks \in Nat /\ edges \in Nat
  /\ ticks < Rounds
  /\ ticks # 0 => pc = "POWERUP" /\ call \in {"SLEEP", "CLEAR"}
  /\ pc = "POWERUP" /\ call \in {"ENABLE", "SLEEP", "CLEAR"} => edges >= ticks + Seen - 1
  /\ PowerUpTime

BootInv == CallInv /\ EventInv /\ TickInv

-----------------------------------------------------------------------------
(* The edges of the event FIFO, for a FIFO that holds at most one word.    *)
LEMMA WrapInRange ==
  ASSUME NEW p \in Ctrl!Slot
  PROVE  /\ Ctrl!Wrap(p) \in Ctrl!Slot
         /\ (p + 1) % Depth = Ctrl!Wrap(p)
         /\ p + 1 = Ctrl!Wrap(p) \/ (p = Depth - 1 /\ Ctrl!Wrap(p) = 0)
<1>1. Depth \in Nat /\ Depth > 1 /\ p \in 0 .. Depth - 1
  BY WaitAssumption DEF Ctrl!Slot
<1>2. CASE p = Depth - 1
  <2>1. p + 1 = Depth /\ Depth % Depth = 0
    BY <1>1, <1>2
  <2>2. QED
    BY <1>1, <1>2, <2>1 DEF Ctrl!Wrap, Ctrl!Slot
<1>3. CASE p # Depth - 1
  <2>1. (p + 1) % Depth = p + 1 /\ p + 1 \in 0 .. Depth - 1
    BY <1>1, <1>3
  <2>2. QED
    BY <1>3, <2>1 DEF Ctrl!Wrap, Ctrl!Slot
<1>4. QED
  BY <1>2, <1>3

(* Without a new event and without a clear of the line it stays.           *)
LEMMA FifoStays ==
  ASSUME NEW d, NEW events, NEW w, Ctrl!CtrlClock(FALSE, d, events, {}, w),
         ~Ctrl!PopsFifo(w), state \in {"EMPTY", "MIDDLE"}
  PROVE  UNCHANGED <<state, pop, push>>
BY DEF Ctrl!CtrlClock, Ctrl!Clock, Ctrl!FifoReady, Ctrl!PushEmpty, Ctrl!PopMiddle,
       Ctrl!PushMiddle, Ctrl!PushPopMiddle, Ctrl!PopFull, Ctrl!fifoVars

LEMMA FifoPushes ==
  ASSUME NEW d, NEW events, NEW w, Ctrl!CtrlClock(TRUE, d, events, {}, w),
         state = "EMPTY", push = pop, pop \in Ctrl!Slot
  PROVE  state' = "MIDDLE" /\ pop' = pop /\ push' = Ctrl!Wrap(pop)
<1>1. state' = "MIDDLE" /\ pop' = pop /\ push' = (push + 1) % Depth
  BY DEF Ctrl!CtrlClock, Ctrl!Clock, Ctrl!FifoReady, Ctrl!PushEmpty, Ctrl!PopMiddle,
         Ctrl!PushMiddle, Ctrl!PushPopMiddle, Ctrl!PopFull, Ctrl!fifoVars
<1>2. QED
  BY <1>1, WrapInRange

LEMMA FifoPops ==
  ASSUME NEW d, NEW events, NEW w, Ctrl!CtrlClock(FALSE, d, events, {}, w),
         Ctrl!PopsFifo(w), state = "MIDDLE", push = Ctrl!Wrap(pop), pop \in Ctrl!Slot
  PROVE  state' = "EMPTY" /\ pop' = push /\ push' = push
<1>1. Ctrl!LastWord
  BY WrapInRange DEF Ctrl!LastWord
<1>2. Ctrl!PopMiddle
  BY DEF Ctrl!CtrlClock, Ctrl!Clock, Ctrl!FifoReady, Ctrl!PushEmpty,
         Ctrl!PushMiddle, Ctrl!PushPopMiddle, Ctrl!PopFull, Ctrl!fifoVars
<1>3. QED
  BY <1>1, <1>2 DEF Ctrl!PopMiddle

-----------------------------------------------------------------------------
(* What an edge makes of the controller's registers: new requests of the   *)
(* two lines, the write of software.                                       *)
New(tick) ==
  (IF tick THEN {ClkRef} ELSE {}) \cup (IF Ctrl!ValidO THEN {FifoLine} ELSE {})

LEMMA EdgeNoWrite ==
  ASSUME NEW done, NEW tick, Hardware(done, tick, Ctrl!NoWrite)
  PROVE  /\ irqMask' = irqMask
         /\ int' = int \cup New(tick)
         /\ ~Ctrl!PopsFifo(Ctrl!NoWrite)
BY DEF Hardware, Ctrl!CtrlClock, Ctrl!NoWrite, Ctrl!IntNext, Ctrl!Lines, Ctrl!PopsFifo,
       New, FifoLine, ClkRef

LEMMA EdgeMask ==
  ASSUME NEW done, NEW tick, NEW op \in {"SET", "CLEAR"}, NEW l,
         Hardware(done, tick, Write("MASK", op, l))
  PROVE  /\ irqMask' = IF op = "SET" THEN irqMask \cup {l} ELSE irqMask \ {l}
         /\ int' = int \cup New(tick)
         /\ ~Ctrl!PopsFifo(Write("MASK", op, l))
BY DEF Hardware, Ctrl!CtrlClock, Write, Ctrl!Written, Ctrl!IntNext, Ctrl!Lines,
       Ctrl!PopsFifo, New, FifoLine, ClkRef

LEMMA EdgeClear ==
  ASSUME NEW done, NEW tick, NEW l, Hardware(done, tick, Write("INT", "CLEAR", l))
  PROVE  /\ irqMask' = irqMask
         /\ int' = (int \cup New(tick)) \ {l}
         /\ Ctrl!PopsFifo(Write("INT", "CLEAR", l)) <=> l = FifoLine
BY DEF Hardware, Ctrl!CtrlClock, Write, Ctrl!Written, Ctrl!IntNext, Ctrl!Lines,
       Ctrl!PopsFifo, New, FifoLine, ClkRef

-----------------------------------------------------------------------------
LEMMA InitBoot == BootInit => BootInv
<1> SUFFICES ASSUME BootInit PROVE BootInv
  OBVIOUS
<1> USE DEF BootInit, Init, Ctrl!IrqInit, Ctrl!CtrlReset, Ctrl!Init
<1>1. 0 \in Ctrl!Slot
  BY WaitAssumption DEF Ctrl!Slot
<1>2. CallInv
  BY DEF CallInv, Called
<1>3. EventInv
  BY <1>1 DEF EventInv, Held, Called, Reads
<1>4. TickInv
  BY WaitAssumption DEF TickInv, Rounds, PowerUpTime
<1>5. QED
  BY <1>2, <1>3, <1>4 DEF BootInv

(* The FIFO on an edge that clears no line: the end of a request is what   *)
(* puts a word there, and it is empty then.                                *)
LEMMA EventStep ==
  ASSUME BootInv, NEW done \in BOOLEAN, NEW tick, NEW w, Hardware(done, tick, w),
         ~Ctrl!PopsFifo(w), done => busy, int' \subseteq int \cup New(tick),
         Held' <=> (Held \/ done)
  PROVE  EventInv'
<1>1. /\ pop \in Ctrl!Slot /\ push \in Ctrl!Slot
      /\ state = IF Held THEN "MIDDLE" ELSE "EMPTY"
      /\ push = IF Held THEN Ctrl!Wrap(pop) ELSE pop
      /\ FifoLine \in int => Held
  BY DEF BootInv, EventInv
<1>2. FifoLine \in int' => Held
  BY <1>1 DEF New, Ctrl!ValidO, FifoLine, ClkRef
<1>3. CASE done
  <2>1. state = "EMPTY" /\ push = pop
    BY <1>1, <1>3 DEF Held
  <2>2. state' = "MIDDLE" /\ pop' = pop /\ push' = Ctrl!Wrap(pop)
    <3>1. \E d, events : Ctrl!CtrlClock(TRUE, d, events, {}, w)
      BY <1>3 DEF Hardware
    <3>2. QED
      BY <1>1, <2>1, <3>1, FifoPushes
  <2>3. Ctrl!Wrap(pop) \in Ctrl!Slot
    BY <1>1, WrapInRange
  <2>4. Ctrl!Wrap(pop)' = Ctrl!Wrap(pop)
    BY <2>2 DEF Ctrl!Wrap
  <2>5. QED
    BY <1>1, <1>3, <2>2, <2>3, <2>4 DEF EventInv
<1>4. CASE ~done
  <2>1. \E d, events : Ctrl!CtrlClock(FALSE, d, events, {}, w)
    BY <1>4 DEF Hardware
  <2>2. UNCHANGED <<state, pop, push>>
    BY <1>1, <2>1, FifoStays
  <2>3. QED
    BY <1>1, <1>2, <1>4, <2>2 DEF EventInv, Ctrl!Wrap
<1>5. QED
  BY <1>3, <1>4

(* The count of edges goes along with a newly pending reference clock.     *)
LEMMA EdgesGrow ==
  ASSUME TickInv, call # "NONE", NEW done, NEW tick, NEW w, Hardware(done, tick, w)
  PROVE  /\ edges' \in Nat /\ edges' >= edges
         /\ tick => edges' >= edges + 1 \/ edges' >= NbTicks
BY WaitAssumption DEF TickInv, Hardware

LEMMA TickStep ==
  ASSUME BootInv, NEW done, NEW tick, NEW w, Hardware(done, tick, w),
         int' = int \cup New(tick), call \in Called, call' \in Called,
         pc' = pc, ticks' = ticks,
         call = "DISABLE" <=> call' = "DISABLE",
         ticks # 0 => call' \in {"SLEEP", "CLEAR"}
  PROVE  TickInv'
<1>1. /\ ticks \in Nat /\ edges \in Nat /\ NbTicks \in Nat
      /\ edges' \in Nat /\ edges' >= edges
  BY EdgesGrow, WaitAssumption DEF BootInv, TickInv, Called
<1>2. ClkRef \in int' => tick \/ ClkRef \in int
  BY DEF New, FifoLine, ClkRef
<1>3. ASSUME pc = "POWERUP", call' \in {"ENABLE", "SLEEP", "CLEAR"}
      PROVE  edges' >= ticks + Seen' - 1
  <2>1. call \in {"ENABLE", "SLEEP", "CLEAR"}
    BY <1>3 DEF BootInv, CallInv, Called, Reads
  <2>2. edges >= ticks + Seen - 1
    BY <1>3, <2>1 DEF BootInv, TickInv
  <2>3. ticks < NbTicks
    BY <1>3 DEF BootInv, TickInv, Rounds
  <2>4. Seen = 0 \/ Seen = 1
    BY DEF Seen
  <2>5. Seen' = 0 \/ (Seen' = 1 /\ tick) \/ (Seen' = 1 /\ Seen = 1)
    BY <1>2 DEF Seen
  <2>6. edges >= ticks - 1
    BY <1>1, <2>2, <2>4
  <2>7. edges' >= ticks + 0 - 1
    BY <1>1, <2>6
  <2>8. ASSUME Seen' = 1 PROVE edges' >= ticks + 1 - 1
    <3>1. CASE tick
      <4>1. edges' >= edges + 1 \/ edges' >= NbTicks
        BY <3>1, EdgesGrow DEF BootInv, Called
      <4>2. QED
        BY <1>1, <2>3, <2>6, <4>1
    <3>2. CASE ~tick /\ Seen = 1
      BY <1>1, <2>2, <3>2
    <3>3. QED
      <4>1. tick \/ (~tick /\ Seen = 1)
        BY <2>5, <2>8
      <4>2. QED
        BY <3>1, <3>2, <4>1, Zenon
  <2>9. QED
    BY <2>5, <2>7, <2>8, Zenon
<1>4. PowerUpTime'
  BY <1>1, WaitAssumption DEF BootInv, TickInv, PowerUpTime
<1>5. Rounds' = Rounds
  BY DEF Rounds
<1>6. QED
  BY <1>1, <1>3, <1>4, <1>5 DEF BootInv, TickInv

-----------------------------------------------------------------------------
(* One lemma for each step of software, and one for a cycle without any.   *)
LEMMA IdleKeeps ==
  ASSUME BootInv, NEW done \in BOOLEAN, NEW tick \in BOOLEAN, Idle(done, tick)
  PROVE  BootInv'
<1>1. /\ Hardware(done, tick, Ctrl!NoWrite) /\ Dma(done)
      /\ pc' = pc /\ call' = call /\ ticks' = ticks
      /\ waiting' = (call' # "NONE")
  BY DEF Idle, softVars, waitVars, Hardware
<1>2. irqMask' = irqMask /\ int' = int \cup New(tick) /\ ~Ctrl!PopsFifo(Ctrl!NoWrite)
  BY <1>1, EdgeNoWrite
<1>3. (busy' => busy) /\ (done => busy /\ ~busy') /\ (~done => busy' = busy)
  BY <1>1 DEF Dma, Transfer
<1>4. CallInv'
  BY <1>1, <1>2, <1>3 DEF BootInv, CallInv, Called, WaitLine, OnClock
<1>5. Held' <=> (Held \/ done)
  BY <1>1, <1>3 DEF BootInv, CallInv, Held, Called
<1>6. EventInv'
  BY <1>1, <1>2, <1>3, <1>5, EventStep
<1>7. TickInv'
  <2>1. CASE call = "NONE"
    BY <1>1, <2>1, WaitAssumption
       DEF BootInv, CallInv, TickInv, Hardware, PowerUpTime, Rounds, Called
  <2>2. CASE call # "NONE"
    BY <1>1, <1>2, <2>2, TickStep DEF BootInv, CallInv, TickInv, Called
  <2>3. QED
    BY <2>1, <2>2
<1>8. QED
  BY <1>4, <1>6, <1>7 DEF BootInv

(* A step of software inside a wait that clears no line.                   *)
LEMMA WaitKeeps ==
  ASSUME BootInv, NEW done \in BOOLEAN, NEW tick \in BOOLEAN, NEW w,
         Hardware(done, tick, w), Dma(done), pc' = pc, ticks' = ticks,
         call \in Called \ {"CLEAR", "DISABLE"}, call' \in {"POLL", "SLEEP", "CLEAR"},
         ticks # 0 => call' \in {"SLEEP", "CLEAR"},
         call' = "POLL" => pc \in Reads, call' = "CLEAR" => WaitLine \in int,
         irqMask' = {WaitLine}, int' = int \cup New(tick), ~Ctrl!PopsFifo(w)
  PROVE  BootInv'
<1>1. waiting' = (call' # "NONE")
  BY DEF Hardware
<1>2. (busy' => busy) /\ (done => busy /\ ~busy') /\ (~done => busy' = busy)
  BY DEF Dma, Transfer
<1>3. busy /\ WaitLine \in int => FALSE
  BY DEF BootInv, CallInv, EventInv, Held, WaitLine, OnClock, Reads, Waits
<1>4. CallInv'
  BY <1>1, <1>2, <1>3 DEF BootInv, CallInv, Called, WaitLine, OnClock
<1>5. Held' <=> (Held \/ done)
  BY <1>2 DEF BootInv, CallInv, Held, Called
<1>6. EventInv'
  BY <1>2, <1>5, EventStep
<1>7. TickInv'
  BY TickStep DEF Called
<1>8. QED
  BY <1>4, <1>6, <1>7 DEF BootInv

LEMMA EnableKeeps ==
  ASSUME BootInv, NEW done \in BOOLEAN, NEW tick \in BOOLEAN, Enable(done, tick)
  PROVE  BootInv'
<1>1. /\ Hardware(done, tick, Write("MASK", "SET", WaitLine)) /\ Dma(done)
      /\ call = "ENABLE" /\ call' = IF OnClock THEN "SLEEP" ELSE "POLL"
      /\ pc' = pc /\ ticks' = ticks
  BY DEF Enable, softVars
<1>2. irqMask = {} /\ ticks = 0 /\ pc \in Reads \cup Waits
  BY <1>1 DEF BootInv, CallInv, TickInv
<1>3. /\ irqMask' = {WaitLine} /\ int' = int \cup New(tick)
      /\ ~Ctrl!PopsFifo(Write("MASK", "SET", WaitLine))
  BY <1>1, <1>2, EdgeMask
<1>4. QED
  BY <1>1, <1>2, <1>3, WaitKeeps DEF Called, OnClock

LEMMA PollKeeps ==
  ASSUME BootInv, NEW done \in BOOLEAN, NEW tick \in BOOLEAN, Poll(done, tick)
  PROVE  BootInv'
<1>1. /\ Hardware(done, tick, Ctrl!NoWrite) /\ Dma(done)
      /\ call = "POLL" /\ call' = IF FifoLine \in int THEN "CLEAR" ELSE "SLEEP"
      /\ pc' = pc /\ ticks' = ticks
  BY DEF Poll, softVars
<1>2. irqMask' = irqMask /\ int' = int \cup New(tick) /\ ~Ctrl!PopsFifo(Ctrl!NoWrite)
  BY <1>1, EdgeNoWrite
<1>3. pc \in Reads /\ WaitLine = FifoLine /\ irqMask = {WaitLine}
  BY <1>1 DEF BootInv, CallInv, WaitLine, OnClock, Reads, Waits
<1>4. QED
  BY <1>1, <1>2, <1>3, WaitKeeps DEF Called

LEMMA WakeKeeps ==
  ASSUME BootInv, NEW done \in BOOLEAN, NEW tick \in BOOLEAN, Wake(done, tick)
  PROVE  BootInv'
<1>1. /\ Hardware(done, tick, Ctrl!NoWrite) /\ Dma(done)
      /\ call = "SLEEP" /\ Ctrl!Requests # {}
      /\ call' = IF OnClock THEN "CLEAR" ELSE "POLL"
      /\ pc' = pc /\ ticks' = ticks
  BY DEF Wake, softVars
<1>2. irqMask' = irqMask /\ int' = int \cup New(tick) /\ ~Ctrl!PopsFifo(Ctrl!NoWrite)
  BY <1>1, EdgeNoWrite
<1>3. irqMask = {WaitLine} /\ pc \in Reads \cup Waits
  BY <1>1 DEF BootInv, CallInv
<1>4. WaitLine \in int
  BY <1>1, <1>3 DEF Ctrl!Requests
<1>5. ticks # 0 => OnClock
  BY DEF BootInv, TickInv, OnClock, Waits
<1>6. QED
  BY <1>1, <1>2, <1>3, <1>4, <1>5, WaitKeeps DEF Called, OnClock

(* Clearing the FIFO's line also takes the one word behind it; the line of *)
(* the clock is pending again only with another edge.                      *)
LEMMA ClearKeeps ==
  ASSUME BootInv, NEW done \in BOOLEAN, NEW tick \in BOOLEAN, Clear(done, tick)
  PROVE  BootInv'
<1>1. /\ Hardware(done, tick, Write("INT", "CLEAR", WaitLine)) /\ Dma(done)
      /\ call = "CLEAR" /\ pc' = pc /\ waiting' = (call' # "NONE")
      /\ IF OnClock /\ ticks + 1 < Rounds
           THEN call' = "SLEEP" /\ ticks' = ticks + 1
           ELSE call' = "DISABLE" /\ ticks' = 0
  BY DEF Clear, softVars, Hardware
<1>2. /\ irqMask' = irqMask /\ int' = (int \cup New(tick)) \ {WaitLine}
      /\ Ctrl!PopsFifo(Write("INT", "CLEAR", WaitLine)) <=> WaitLine = FifoLine
  BY <1>1, EdgeClear
<1>3. /\ ~busy /\ WaitLine \in int /\ irqMask = {WaitLine} /\ pc \in Reads \cup Waits
      /\ ~done /\ busy' = busy
  BY <1>1 DEF BootInv, CallInv, Dma, Transfer
<1>4. CallInv'
  BY <1>1, <1>2, <1>3 DEF CallInv, Called, WaitLine, OnClock
<1>5. EventInv'
  <2>1. CASE pc \in Waits
    <3>1. ~Held /\ ~Held'
      BY <1>1, <2>1 DEF Held, Reads, Waits
    <3>2. ~Ctrl!PopsFifo(Write("INT", "CLEAR", WaitLine))
      BY <1>2, <2>1 DEF WaitLine, OnClock, FifoLine, ClkRef
    <3>3. QED
      BY <1>1, <1>2, <1>3, <3>1, <3>2, EventStep
  <2>2. CASE pc \in Reads
    <3>1. WaitLine = FifoLine /\ Held
      BY <1>1, <1>3, <2>2 DEF WaitLine, OnClock, Held, Called, Reads, Waits
    <3>2. call' = "DISABLE" /\ ~Held'
      BY <1>1, <2>2 DEF OnClock, Held, Reads, Waits
    <3>3. state = "MIDDLE" /\ push = Ctrl!Wrap(pop) /\ pop \in Ctrl!Slot /\ push \in Ctrl!Slot
      BY <3>1 DEF BootInv, EventInv
    <3>4. \E d, events : Ctrl!CtrlClock(FALSE, d, events, {}, Write("INT", "CLEAR", WaitLine))
      BY <1>1, <1>3 DEF Hardware
    <3>5. state' = "EMPTY" /\ pop' = push /\ push' = push
      BY <1>2, <3>1, <3>3, <3>4, FifoPops
    <3>6. QED
      BY <1>2, <3>1, <3>2, <3>3, <3>5 DEF EventInv
  <2>3. QED
    BY <1>3, <2>1, <2>2
<1>6. TickInv'
  <2>1. /\ ticks \in Nat /\ edges \in Nat /\ ticks < Rounds
        /\ edges' \in Nat /\ edges' >= edges
    BY <1>1, EdgesGrow DEF BootInv, TickInv
  <2>2. Rounds' = Rounds /\ OnClock' = OnClock
    BY <1>1 DEF Rounds, OnClock
  <2>3. CASE OnClock /\ ticks + 1 < Rounds
    <3>1. pc = "POWERUP" /\ Rounds = NbTicks
      BY <1>1, <2>1, <2>3 DEF OnClock, Waits, Rounds
    <3>2. ClkRef \in int /\ ClkRef \notin int'
      BY <1>2, <1>3, <2>3 DEF WaitLine
    <3>3. edges >= ticks + 1 - 1
      BY <1>1, <3>1, <3>2 DEF BootInv, TickInv, Seen
    <3>4. edges' >= ticks + 1 + 0 - 1
      BY <2>1, <3>3
    <3>5. Seen' = 0 /\ ticks' = ticks + 1 /\ call' = "SLEEP"
      BY <1>1, <2>3, <3>2 DEF Seen
    <3>6. ticks' \in Nat /\ ticks' < Rounds'
      BY <2>1, <2>2, <2>3, <3>5
    <3>7. edges' >= ticks' + Seen' - 1
      BY <3>4, <3>5, Zenon
    <3>8. QED
      BY <1>1, <2>1, <3>1, <3>5, <3>6, <3>7 DEF TickInv, PowerUpTime
  <2>4. CASE ~(OnClock /\ ticks + 1 < Rounds)
    <3>1. call' = "DISABLE" /\ ticks' = 0
      BY <1>1, <2>4
    <3>2. 0 < Rounds
      BY WaitAssumption DEF Rounds
    <3>3. ASSUME pc = "POWERUP" PROVE edges' >= NbTicks - 1
      <4>1. ClkRef \in int /\ Rounds = NbTicks /\ OnClock
        BY <1>3, <3>3 DEF WaitLine, OnClock, Waits, Rounds
      <4>2. edges >= ticks + 1 - 1
        BY <1>1, <3>3, <4>1 DEF BootInv, TickInv, Seen
      <4>3. ~(ticks + 1 < NbTicks)
        BY <2>4, <4>1
      <4>4. QED
        BY <2>1, <4>2, <4>3, WaitAssumption
    <3>4. QED
      BY <1>1, <2>1, <2>2, <3>1, <3>2, <3>3 DEF TickInv, PowerUpTime
  <2>5. QED
    BY <2>3, <2>4
<1>7. QED
  BY <1>4, <1>5, <1>6 DEF BootInv

(* The three steps between two waits.                                      *)
LEMMA OutsideWaits ==
  ASSUME BootInv, NEW tick \in BOOLEAN, NEW w, Hardware(FALSE, tick, w),
         ~Ctrl!PopsFifo(w), int' = int \cup New(tick), ~Held, ~Held', ticks' = 0,
         call' \in {"NONE", "ENABLE"}, call # "NONE" => call' = "NONE"
  PROVE  EventInv' /\ TickInv'
<1>1. EventInv'
  BY EventStep
<1>2. edges' \in Nat
  BY WaitAssumption DEF BootInv, TickInv, Hardware
<1>3. ASSUME call' = "ENABLE" PROVE edges' >= 0 + Seen' - 1
  <2>1. Seen' = 0 \/ Seen' = 1
    BY DEF Seen
  <2>2. edges' >= 0 + 0 - 1 /\ edges' >= 0 + 1 - 1
    BY <1>2
  <2>3. QED
    BY <2>1, <2>2, Zenon
<1>4. 0 < Rounds'
  BY WaitAssumption DEF Rounds
<1>5. QED
  BY <1>1, <1>2, <1>3, <1>4 DEF TickInv, PowerUpTime

LEMMA DisableKeeps ==
  ASSUME BootInv, NEW done \in BOOLEAN, NEW tick \in BOOLEAN, Disable(done, tick)
  PROVE  BootInv'
<1>1. /\ Hardware(done, tick, Write("MASK", "CLEAR", WaitLine)) /\ Dma(done)
      /\ call = "DISABLE" /\ call' = "NONE" /\ ticks' = ticks
      /\ waiting' = (call' # "NONE")
  BY DEF Disable, Hardware
<1>2. ~busy /\ ~done /\ busy' = busy /\ irqMask = {WaitLine} /\ ticks = 0
  BY <1>1 DEF BootInv, CallInv, TickInv, Dma, Transfer
<1>3. /\ irqMask' = irqMask \ {WaitLine} /\ int' = int \cup New(tick)
      /\ ~Ctrl!PopsFifo(Write("MASK", "CLEAR", WaitLine))
  BY <1>1, EdgeMask
<1>4. ~Held /\ ~Held'
  BY <1>1 DEF Held, Called
<1>5. CallInv'
  BY <1>1, <1>2, <1>3 DEF CallInv
<1>6. QED
  BY <1>1, <1>2, <1>3, <1>4, <1>5, OutsideWaits DEF BootInv

LEMMA StartKeeps ==
  ASSUME BootInv, NEW tick \in BOOLEAN, Start(tick)
  PROVE  BootInv'
<1>1. /\ Hardware(FALSE, tick, Ctrl!NoWrite) /\ call = "NONE" /\ call' = "ENABLE"
      /\ pc' = pc /\ pc \in Reads \cup Waits /\ busy' = (pc \in Reads)
      /\ ticks' = ticks /\ waiting' = (call' # "NONE")
  BY DEF Start, Calls, softVars, Hardware
<1>2. irqMask' = irqMask /\ int' = int \cup New(tick) /\ ~Ctrl!PopsFifo(Ctrl!NoWrite)
  BY <1>1, EdgeNoWrite
<1>3. ~Held /\ ~Held' /\ ticks = 0 /\ irqMask = {}
  BY <1>1 DEF BootInv, CallInv, TickInv, Held, Called
<1>4. CallInv'
  BY <1>1, <1>2, <1>3 DEF CallInv, Called
<1>5. QED
  BY <1>1, <1>2, <1>3, <1>4, OutsideWaits DEF BootInv

LEMMA ComputeKeeps ==
  ASSUME BootInv, NEW tick \in BOOLEAN, Compute(tick)
  PROVE  BootInv'
<1>1. /\ Hardware(FALSE, tick, Ctrl!NoWrite) /\ call = "NONE" /\ call' = call
      /\ busy' = busy /\ ticks' = ticks /\ waiting' = (call' # "NONE")
  BY DEF Compute, waitVars, Hardware
<1>2. irqMask' = irqMask /\ int' = int \cup New(tick) /\ ~Ctrl!PopsFifo(Ctrl!NoWrite)
  BY <1>1, EdgeNoWrite
<1>3. ~Held /\ ~Held' /\ ticks = 0 /\ irqMask = {} /\ ~busy
  BY <1>1 DEF BootInv, CallInv, TickInv, Held, Called
<1>4. CallInv'
  BY <1>1, <1>2, <1>3 DEF CallInv
<1>5. QED
  BY <1>1, <1>2, <1>3, <1>4, OutsideWaits DEF BootInv

LEMMA NextBoot == BootInv /\ [BootNext]_allVars => BootInv'
<1> SUFFICES ASSUME BootInv, [BootNext]_allVars
             PROVE  BootInv'
  OBVIOUS
<1>1. CASE UNCHANGED allVars
  BY <1>1 DEF allVars, softVars, waitVars, Ctrl!irqVars, Ctrl!fifoVars, Ctrl!ctrlVars,
              BootInv, CallInv, EventInv, TickInv, Held, Seen, WaitLine, OnClock, Rounds,
              PowerUpTime, Ctrl!Wrap
<1>2. QED
  BY <1>1, IdleKeeps, EnableKeeps, PollKeeps, WakeKeeps, ClearKeeps, DisableKeeps,
     StartKeeps, ComputeKeeps DEF BootNext, Software

-----------------------------------------------------------------------------
(* boot_code.c:202: the wait for the flash to have power lasts at least    *)
(* NbTicks - 1 edges of the reference clock, for every number of ticks.    *)
THEOREM PowerUp == BootSpec => []PowerUpTime
<1>1. BootInv => PowerUpTime
  BY DEF BootInv, TickInv
<1>2. QED
  BY <1>1, InitBoot, NextBoot, PTL DEF BootSpec

(* jump_to_entry: the program from flash finds no line enabled, the FIFO's *)
(* not pending and no event of the boot in it.                             *)
THEOREM Handover == BootSpec => []CleanHandover
<1>1. BootInv => CleanHandover
  BY DEF BootInv, CallInv, EventInv, CleanHandover, Held, Called, Reads, Waits, Ctrl!ValidO
<1>2. QED
  BY <1>1, InitBoot, NextBoot, PTL DEF BootSpec

(* Every step on the hardware is one of the loader or none of its concern: *)
(* the request starts its call, the end of the request moves its data, the *)
(* disable register's write is the return, and what lies between changes   *)
(* nothing that the loader knows.                                          *)
LEMMA BootStep == BootInv /\ [BootNext]_allVars => [Next]_bootVars
<1> SUFFICES ASSUME BootInv, [BootNext]_allVars
             PROVE  [Next]_bootVars
  OBVIOUS
<1> USE DEF Next, bootVars, softVars, waitVars
<1>1. CASE UNCHANGED allVars
  BY <1>1 DEF allVars
<1>2. ASSUME NEW done \in BOOLEAN, NEW tick \in BOOLEAN,
             Dma(done), UNCHANGED softVars, waiting' = waiting
      PROVE  [Next]_bootVars
  BY <1>2 DEF Dma, DoTransfer
<1>3. ASSUME NEW done \in BOOLEAN, NEW tick \in BOOLEAN,
             Idle(done, tick) \/ Enable(done, tick) \/ Poll(done, tick)
               \/ Wake(done, tick) \/ Clear(done, tick)
      PROVE  [Next]_bootVars
  <2>1. Dma(done) /\ UNCHANGED softVars /\ waiting' = waiting
    BY <1>3 DEF Idle, Enable, Poll, Wake, Clear, Hardware, BootInv, CallInv
  <2>2. QED
    BY <1>2, <2>1
<1>4. ASSUME NEW done \in BOOLEAN, NEW tick \in BOOLEAN, Disable(done, tick)
      PROVE  Return
  BY <1>4 DEF Disable, Hardware, Dma, Transfer, BootInv, CallInv, Called, Return
<1>5. ASSUME NEW tick \in BOOLEAN, Start(tick)
      PROVE  Call
  BY <1>5 DEF Start, Hardware, BootInv, CallInv, Call
<1>6. ASSUME NEW tick \in BOOLEAN, Compute(tick)
      PROVE  DoLocal
  BY <1>6 DEF Compute, Hardware, BootInv, CallInv, DoLocal
<1>7. QED
  BY <1>1, <1>3, <1>4, <1>5, <1>6 DEF BootNext, Software

(* flash_read and wait_clock_ref return when their own request has ended   *)
(* and never on the event of the one before, for every depth of the FIFO:  *)
(* the boot code on its hardware implements the loader.                    *)
THEOREM BootImplementsLoader == BootSpec => ImplementsLoader
<1>1. BootInit => Init
  BY DEF BootInit
<1>2. QED
  BY <1>1, InitBoot, NextBoot, BootStep, PTL DEF BootSpec, ImplementsLoader, Spec

(* What holds of the loader holds of the boot code on its hardware.        *)
THEOREM BootRecordPlaced == BootSpec => []RecordApart
BY BootImplementsLoader, RecordPlaced, PTL DEF ImplementsLoader

THEOREM BootSectionsLoaded ==
  ASSUME Addressable
  PROVE  BootSpec => []SectionsInPlace
BY BootImplementsLoader, SectionsLoaded, PTL DEF ImplementsLoader
=============================================================================
