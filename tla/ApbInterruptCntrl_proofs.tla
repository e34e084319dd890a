---------------------- MODULE ApbInterruptCntrl_proofs ----------------------
(***************************************************************************)
(* The event FIFO implements a bounded queue for every depth that fills    *)
(* the range of its pointers, which is every power of two; and its         *)
(* interrupt never comes without its event, for every set of lines and     *)
(* every register write.  The latter needs the FIFO's own invariant and    *)
(* nothing of the other lines.                                             *)
(***************************************************************************)
EXTENDS ApbInterruptCntrl, FiniteSetTheorems, SequenceTheorems, TLAPS

(* The FIFO on its own.                                                    *)
Inv == TypeOK /\ StateInv

LEMMA DepthNat == Depth \in Nat /\ Depth > 1 /\ Zero \in Data
BY FifoAssumption

(* The increment without a test wraps like the one with it.                *)
LEMMA WrapIsNext ==
  ASSUME PtrMod = Depth, NEW p \in Slot
  PROVE  /\ Wrap(p) = At(p, 1)
         /\ (p + 1) % PtrMod = At(p, 1)
         /\ At(p, 1) \in Slot
<1>1. p \in Nat /\ p < Depth
  BY DepthNat DEF Slot
<1>2. p + 1 < Depth => (p + 1) % Depth = p + 1
  BY <1>1, DepthNat
<1>3. Depth % Depth = 0
  BY DepthNat
<1>4. QED
  BY <1>1, <1>2, <1>3, DepthNat DEF Wrap, At, Slot

(* Words lists n words.                                                    *)
LEMMA WordsSeq ==
  ASSUME NEW p \in Slot, NEW n \in 0 .. Depth, NEW r \in [Slot -> Data]
  PROVE  /\ Words(p, n, r) \in Seq(Data)
         /\ Len(Words(p, n, r)) = n
         /\ \A i \in 1 .. n : Words(p, n, r)[i] = r[At(p, i - 1)]
<1>1. \A i \in 1 .. n : At(p, i - 1) \in Slot
  BY DepthNat DEF At, Slot
<1>2. Words(p, n, r) \in [1 .. n -> Data]
  BY <1>1 DEF Words
<1>3. n \in Nat
  BY DepthNat
<1>4. QED
  BY <1>2, <1>3 DEF Words

(* Moving the start by one slot drops the oldest word.                     *)
LEMMA WordsTail ==
  ASSUME NEW p \in Slot, NEW n \in 1 .. Depth, NEW r \in [Slot -> Data]
  PROVE  /\ Words(p, n, r) # <<>>
         /\ Words(At(p, 1), n - 1, r) = Tail(Words(p, n, r))
<1> DEFINE s == Words(p, n, r)
           t == Words(At(p, 1), n - 1, r)
<1>1. At(p, 1) \in Slot /\ n - 1 \in 0 .. Depth /\ n \in 0 .. Depth
  BY DepthNat DEF At, Slot
<1>2. s \in Seq(Data) /\ Len(s) = n /\ \A i \in 1 .. n : s[i] = r[At(p, i - 1)]
  BY <1>1, WordsSeq
<1>3. /\ t \in Seq(Data) /\ Len(t) = n - 1
      /\ \A i \in 1 .. n - 1 : t[i] = r[At(At(p, 1), i - 1)]
  BY <1>1, WordsSeq
<1>4. \A i \in 1 .. n - 1 : At(At(p, 1), i - 1) = At(p, (i + 1) - 1)
  BY DepthNat DEF At, Slot
<1> HIDE DEF s, t
<1>5. s # <<>>
  BY <1>2
<1>6. /\ Tail(s) \in Seq(Data) /\ Len(Tail(s)) = n - 1
      /\ \A i \in 1 .. n - 1 : Tail(s)[i] = s[i + 1]
  BY <1>2, <1>5, HeadTailProperties
<1>7. ASSUME NEW i \in 1 .. n - 1
      PROVE  t[i] = Tail(s)[i]
  <2>1. i + 1 \in 1 .. n
    BY DepthNat
  <2>2. s[i + 1] = r[At(p, (i + 1) - 1)]
    BY <1>2, <2>1
  <2>3. QED
    BY <1>3, <1>4, <1>6, <2>2
<1>8. t = Tail(s)
  BY <1>3, <1>6, <1>7, SeqEqual
<1>9. QED
  BY <1>5, <1>8 DEF s, t

(* Writing the slot behind the last word appends a word.                   *)
LEMMA WordsAppend ==
  ASSUME NEW p \in Slot, NEW n \in 0 .. Depth - 1, NEW r \in [Slot -> Data], NEW d \in Data,
         NEW w \in [Slot -> Data], w[At(p, n)] = d, \A i \in Slot \ {At(p, n)} : w[i] = r[i]
  PROVE  Words(p, n + 1, w) = Append(Words(p, n, r), d)
<1> DEFINE s == Words(p, n, r)
           t == Words(p, n + 1, w)
<1>1. n \in 0 .. Depth /\ n + 1 \in 0 .. Depth
  BY DepthNat
<1>2. s \in Seq(Data) /\ Len(s) = n /\ \A i \in 1 .. n : s[i] = r[At(p, i - 1)]
  BY <1>1, WordsSeq
<1>3. /\ t \in Seq(Data) /\ Len(t) = n + 1
      /\ \A i \in 1 .. n + 1 : t[i] = w[At(p, i - 1)]
  BY <1>1, WordsSeq
<1>4. \A i \in 1 .. n : At(p, i - 1) \in Slot /\ At(p, i - 1) # At(p, n)
  BY DepthNat DEF At, Slot
<1>5. At(p, n) \in Slot
  BY DepthNat DEF At, Slot
<1> HIDE DEF s, t
<1>6. /\ Append(s, d) \in Seq(Data) /\ Len(Append(s, d)) = n + 1
      /\ \A i \in 1 .. n : Append(s, d)[i] = s[i]
      /\ Append(s, d)[n + 1] = d
  BY <1>2, AppendProperties
<1>7. \A i \in 1 .. n : t[i] = r[At(p, i - 1)]
  BY <1>3, <1>4, <1>1
<1>8. t[n + 1] = d
  <2>1. n + 1 \in 1 .. n + 1 /\ (n + 1) - 1 = n
    BY <1>1
  <2>2. t[n + 1] = w[At(p, n)]
    BY <1>3, <2>1
  <2>3. QED
    BY <1>5, <2>2
<1>9. \A i \in 1 .. n + 1 : t[i] = Append(s, d)[i]
  BY <1>1, <1>2, <1>6, <1>7, <1>8
<1>10. t = Append(s, d)
  BY <1>3, <1>6, <1>9, SeqEqual
<1>11. QED
  BY <1>10 DEF s, t

-----------------------------------------------------------------------------
(* The pointers' distance is the occupancy.                                *)
LEMMA OccupancyPlace ==
  ASSUME Inv
  PROVE  /\ Occupancy \in 0 .. Depth
         /\ push = At(pop, Occupancy) \/ state = "FULL"
         /\ Occupancy = 0 <=> state = "EMPTY"
         /\ Occupancy = Depth <=> state = "FULL"
<1>1. /\ pop \in Nat /\ pop < Depth /\ push \in Nat /\ push < Depth
      /\ state \in {"EMPTY", "MIDDLE", "FULL"}
      /\ (state \in {"EMPTY", "FULL"}) <=> (pop = push)
  BY DepthNat DEF Inv, TypeOK, StateInv, Slot
<1>2. CASE state = "EMPTY"
  BY <1>1, <1>2, DepthNat DEF Occupancy, At
<1>3. CASE state = "FULL"
  BY <1>1, <1>3, DepthNat DEF Occupancy, At
<1>4. CASE state = "MIDDLE"
  <2>1. Occupancy = IF push > pop THEN push - pop ELSE push + Depth - pop
    BY <1>4 DEF Occupancy
  <2>2. pop # push
    BY <1>1, <1>4
  <2>3. QED
    BY <1>1, <1>4, <2>1, <2>2, DepthNat DEF At
<1>5. QED
  BY <1>1, <1>2, <1>3, <1>4

LEMMA InitInv == Init => Inv
BY DepthNat DEF Init, Inv, TypeOK, StateInv, Slot

LEMMA ClockInv ==
  ASSUME PtrMod = Depth, Inv,
         NEW valid \in BOOLEAN, NEW grant \in BOOLEAN, NEW d \in Data, Clock(valid, d, grant)
  PROVE  Inv'
<1> USE DepthNat DEF Inv, TypeOK, StateInv
<1>1. /\ Wrap(pop) = At(pop, 1) /\ Wrap(push) = At(push, 1)
      /\ (push + 1) % PtrMod = At(push, 1)
      /\ At(pop, 1) \in Slot /\ At(push, 1) \in Slot
  BY WrapIsNext
<1>2. [i \in Slot |-> IF i = push THEN d ELSE regs[i]] \in [Slot -> Data]
  OBVIOUS
<1>3. CASE PushEmpty(d)
  BY <1>1, <1>2, <1>3 DEF PushEmpty, Write, At, Slot
<1>4. CASE PopMiddle
  BY <1>1, <1>4 DEF PopMiddle, LastWord, At, Slot
<1>5. CASE PushMiddle(d)
  BY <1>1, <1>2, <1>5 DEF PushMiddle, Write, LastRoom, At, Slot
<1>6. CASE PushPopMiddle(d)
  BY <1>1, <1>2, <1>6 DEF PushPopMiddle, Write, At, Slot
<1>7. CASE PopFull
  BY <1>1, <1>7 DEF PopFull, At, Slot
<1>8. CASE UNCHANGED fifoVars
  BY <1>8 DEF fifoVars
<1>9. QED
  BY <1>3, <1>4, <1>5, <1>6, <1>7, <1>8 DEF Clock

(* The occupancy follows the edges: one more per push, one less per pop.   *)
LEMMA OccupancyMoves ==
  ASSUME PtrMod = Depth, Inv, NEW d \in Data
  PROVE  /\ PushEmpty(d) \/ PushMiddle(d) => Occupancy < Depth /\ Occupancy' = Occupancy + 1
         /\ PopMiddle \/ PopFull => Occupancy > 0 /\ Occupancy' = Occupancy - 1
         /\ PushPopMiddle(d) => Occupancy \in 1 .. Depth - 1 /\ Occupancy' = Occupancy
<1>1. /\ Wrap(pop) = At(pop, 1) /\ Wrap(push) = At(push, 1)
      /\ (push + 1) % PtrMod = At(push, 1)
  BY WrapIsNext DEF Inv, TypeOK
<1>2. /\ pop \in Nat /\ pop < Depth /\ push \in Nat /\ push < Depth
      /\ (state \in {"EMPTY", "FULL"}) <=> (pop = push)
  BY DepthNat DEF Inv, TypeOK, StateInv, Slot
<1>3. Occupancy \in 0 .. Depth /\ (Occupancy = 0 <=> state = "EMPTY")
      /\ (Occupancy = Depth <=> state = "FULL")
  BY OccupancyPlace
<1>4. ASSUME PushEmpty(d) PROVE Occupancy' = Occupancy + 1
  BY <1>1, <1>2, <1>4, DepthNat DEF PushEmpty, Occupancy, At
<1>5. /\ state = "MIDDLE" => Occupancy = IF push > pop THEN push - pop ELSE push + Depth - pop
      /\ state' = "MIDDLE" => Occupancy' = IF push' > pop' THEN push' - pop'
                                           ELSE push' + Depth - pop'
      /\ state' = "EMPTY" => Occupancy' = 0
      /\ state' = "FULL" => Occupancy' = Depth
  BY DEF Occupancy
<1>6. ASSUME PushMiddle(d) PROVE Occupancy' = Occupancy + 1
  <2>1. /\ state = "MIDDLE" /\ state' = IF LastRoom THEN "FULL" ELSE "MIDDLE"
        /\ push' = At(push, 1) /\ pop' = pop
    BY <1>1, <1>6 DEF PushMiddle
  <2>2. CASE LastRoom
    BY <1>2, <1>5, <2>1, <2>2, DepthNat DEF LastRoom
  <2>3. CASE ~LastRoom
    BY <1>2, <1>5, <2>1, <2>3, DepthNat DEF LastRoom, At
  <2>4. QED
    BY <2>2, <2>3
<1>7. ASSUME PopMiddle PROVE Occupancy' = Occupancy - 1
  <2>1. /\ state = "MIDDLE" /\ state' = IF LastWord THEN "EMPTY" ELSE "MIDDLE"
        /\ pop' = At(pop, 1) /\ push' = push
    BY <1>1, <1>7 DEF PopMiddle
  <2>2. CASE LastWord
    BY <1>2, <1>5, <2>1, <2>2, DepthNat DEF LastWord
  <2>3. CASE ~LastWord
    BY <1>2, <1>5, <2>1, <2>3, DepthNat DEF LastWord, At
  <2>4. QED
    BY <2>2, <2>3
<1>8. ASSUME PopFull PROVE Occupancy' = Occupancy - 1
  BY <1>1, <1>2, <1>8, DepthNat DEF PopFull, Occupancy, At
<1>9. ASSUME PushPopMiddle(d) PROVE Occupancy' = Occupancy
  <2>1. /\ state = "MIDDLE" /\ state' = "MIDDLE"
        /\ pop' = At(pop, 1) /\ push' = At(push, 1)
    BY <1>1, <1>9 DEF PushPopMiddle
  <2>2. QED
    BY <1>2, <1>5, <2>1, DepthNat DEF At
<1>10. QED
  BY <1>3, <1>4, <1>6, <1>7, <1>8, <1>9, DepthNat
     DEF PushEmpty, PushMiddle, PopMiddle, PopFull, PushPopMiddle

-----------------------------------------------------------------------------
(* What an edge makes of the queued words: the oldest goes when the pop    *)
(* side takes it, the word offered is appended when there is room.         *)
Kept(grant) == IF grant /\ ValidO THEN Tail(Contents) ELSE Contents
Filled(valid, d, grant) ==
  IF valid /\ GrantO THEN Append(Kept(grant), d) ELSE Kept(grant)

LEMMA ContentsSeq ==
  ASSUME Inv
  PROVE  /\ Contents \in Seq(Data)
         /\ Len(Contents) = Occupancy
         /\ ValidO => Contents # <<>> /\ Contents[1] = DataO
<1>1. /\ pop \in Slot /\ regs \in [Slot -> Data] /\ Occupancy \in 0 .. Depth
      /\ Occupancy = 0 <=> state = "EMPTY"
  BY OccupancyPlace DEF Inv, TypeOK
<1>2. Contents \in Seq(Data) /\ Len(Contents) = Occupancy
  BY <1>1, WordsSeq DEF Contents
<1>3. ASSUME ValidO PROVE Contents # <<>> /\ Contents[1] = DataO
  <2>1. Occupancy \in 1 .. Depth /\ 1 \in 1 .. Occupancy /\ At(pop, 1 - 1) = pop
    BY <1>1, <1>3, DepthNat DEF ValidO, At, Slot
  <2>2. Contents[1] = regs[At(pop, 1 - 1)]
    BY <1>1, <2>1, WordsSeq DEF Contents
  <2>3. QED
    BY <1>1, <1>2, <2>1, <2>2, WordsTail DEF Contents, DataO
<1>4. QED
  BY <1>2, <1>3

LEMMA ClockContents ==
  ASSUME PtrMod = Depth, Inv,
         NEW valid \in BOOLEAN, NEW grant \in BOOLEAN, NEW d \in Data, Clock(valid, d, grant)
  PROVE  Contents' = Filled(valid, d, grant)
<1> DEFINE n == Occupancy
<1> USE DEF Kept, Filled, ValidO, GrantO
<1>1. /\ pop \in Slot /\ regs \in [Slot -> Data] /\ n \in 0 .. Depth
      /\ At(pop, 1) \in Slot /\ Wrap(pop) = At(pop, 1)
      /\ n < Depth => push = At(pop, n)
      /\ n = 0 <=> state = "EMPTY"
      /\ n = Depth <=> state = "FULL"
  BY OccupancyPlace, WrapIsNext DEF Inv, TypeOK
<1>2. /\ Contents = Words(pop, n, regs)
      /\ Contents' = Words(pop', n', regs')
  BY DEF Contents
<1> HIDE DEF n
<1>3. ASSUME valid, PushEmpty(d) \/ (~grant /\ PushMiddle(d))
      PROVE  Contents' = Filled(valid, d, grant)
  <2>1. n \in 0 .. Depth - 1 /\ n' = n + 1
    BY <1>1, <1>3, OccupancyMoves, DepthNat DEF n
  <2>2. /\ pop' = pop
        /\ regs' = [i \in Slot |-> IF i = At(pop, n) THEN d ELSE regs[i]]
    BY <1>1, <1>3, <2>1, DepthNat DEF PushEmpty, PushMiddle, Write
  <2>3. Words(pop, n + 1, regs') = Append(Words(pop, n, regs), d)
    <3>1. /\ regs' \in [Slot -> Data]
          /\ \A i \in Slot \ {At(pop, n)} : regs'[i] = regs[i]
      BY <1>1, <2>2
    <3>2. regs'[At(pop, n)] = d
      BY <1>1, <2>1, <2>2, DepthNat DEF At, Slot
    <3>3. QED
      BY <1>1, <2>1, <3>1, <3>2, WordsAppend
  <2>4. Contents' = Append(Contents, d)
    BY <1>2, <2>1, <2>2, <2>3
  <2>5. QED
    BY <1>3, <2>4 DEF PushEmpty, PushMiddle
<1>4. ASSUME grant, (~valid /\ PopMiddle) \/ PopFull
      PROVE  Contents' = Filled(valid, d, grant)
  <2>1. n \in 1 .. Depth /\ n' = n - 1
    BY <1>1, <1>4, OccupancyMoves, DepthNat DEF n
  <2>2. pop' = At(pop, 1) /\ regs' = regs
    BY <1>1, <1>4 DEF PopMiddle, PopFull
  <2>3. Contents' = Tail(Contents)
    BY <1>1, <1>2, <2>1, <2>2, WordsTail
  <2>4. QED
    BY <1>4, <2>3 DEF PopMiddle, PopFull
<1>5. ASSUME valid, grant, PushPopMiddle(d)
      PROVE  Contents' = Filled(valid, d, grant)
  <2>1. n \in 1 .. Depth - 1 /\ n' = n
    BY <1>5, OccupancyMoves DEF n
  <2>2. /\ pop' = At(pop, 1)
        /\ regs' = [i \in Slot |-> IF i = At(pop, n) THEN d ELSE regs[i]]
    BY <1>1, <1>5, <2>1, DepthNat DEF PushPopMiddle, Write
  <2>3. Words(At(pop, 1), n - 1, regs) = Tail(Contents)
    BY <1>1, <1>2, <2>1, DepthNat, WordsTail
  <2>4. At(At(pop, 1), n - 1) = At(pop, n)
    BY <1>1, <2>1, DepthNat DEF At, Slot
  <2>5. n - 1 \in 0 .. Depth - 1 /\ (n - 1) + 1 = n
    BY <2>1, DepthNat
  <2>6. Words(At(pop, 1), (n - 1) + 1, regs')
          = Append(Words(At(pop, 1), n - 1, regs), d)
    <3>1. PICK p \in Slot, m \in 0 .. Depth - 1 : p = At(pop, 1) /\ m = n - 1
      BY <1>1, <2>5
    <3>2. regs' = [i \in Slot |-> IF i = At(p, m) THEN d ELSE regs[i]]
      BY <2>2, <2>4, <3>1
    <3>3. At(p, m) \in Slot
      BY DepthNat DEF At, Slot
    <3>4. /\ regs' \in [Slot -> Data] /\ regs'[At(p, m)] = d
          /\ \A i \in Slot \ {At(p, m)} : regs'[i] = regs[i]
      BY <1>1, <3>2, <3>3
    <3>5. Words(p, m + 1, regs') = Append(Words(p, m, regs), d)
      BY <1>1, <3>4, WordsAppend
    <3>6. QED
      BY <3>1, <3>5
  <2>7. Contents' = Append(Tail(Contents), d)
    BY <1>2, <2>1, <2>2, <2>3, <2>5, <2>6
  <2>8. QED
    BY <1>5, <2>7 DEF PushPopMiddle
<1>6. ASSUME UNCHANGED fifoVars,
             \/ ~valid /\ state = "EMPTY"
             \/ ~valid /\ ~grant /\ state = "MIDDLE"
             \/ ~grant /\ state = "FULL"
      PROVE  Contents' = Filled(valid, d, grant)
  <2>1. Contents' = Contents
    BY <1>6 DEF fifoVars, Contents, Occupancy
  <2>2. QED
    BY <1>6, <2>1
<1>7. QED
  BY <1>3, <1>4, <1>5, <1>6 DEF Clock

(* Every edge is a step of the bounded queue, or none.                     *)
LEMMA ClockRefines ==
  ASSUME PtrMod = Depth, Inv,
         NEW valid \in BOOLEAN, NEW grant \in BOOLEAN, NEW d \in Data, Clock(valid, d, grant)
  PROVE  [Queue!Next]_Contents
<1>1. Contents' = Filled(valid, d, grant)
  BY ClockContents
<1>2. /\ Contents \in Seq(Data) /\ Len(Contents) = Occupancy
      /\ ValidO => Contents # <<>>
  BY ContentsSeq
<1>3. GrantO => Len(Contents) < Depth
  BY <1>2, OccupancyPlace, DepthNat DEF GrantO
<1>4. CASE valid /\ GrantO /\ grant /\ ValidO
  <2>1. Queue!PutAndTake(d)
    BY <1>1, <1>2, <1>3, <1>4 DEF Filled, Kept, Queue!PutAndTake
  <2>2. QED
    BY <2>1 DEF Queue!Next
<1>5. CASE valid /\ GrantO /\ ~(grant /\ ValidO)
  <2>1. Queue!Put(d)
    BY <1>1, <1>2, <1>3, <1>5 DEF Filled, Kept, Queue!Put
  <2>2. QED
    BY <2>1 DEF Queue!Next
<1>6. CASE ~(valid /\ GrantO) /\ grant /\ ValidO
  <2>1. Queue!Take
    BY <1>1, <1>2, <1>6 DEF Filled, Kept, Queue!Take
  <2>2. QED
    BY <2>1 DEF Queue!Next
<1>7. CASE ~(valid /\ GrantO) /\ ~(grant /\ ValidO)
  BY <1>1, <1>7 DEF Filled, Kept
<1>8. QED
  BY <1>4, <1>5, <1>6, <1>7

(* With a depth that fills the pointers' range, the controller, pointers   *)
(* and registers stay consistent.                                          *)
THEOREM FifoInvariant ==
  ASSUME PtrMod = Depth
  PROVE  Spec => [](TypeOK /\ StateInv)
<1>1. ASSUME Inv, [Next]_fifoVars
      PROVE  Inv'
  <2>1. CASE Next
    BY <1>1, <2>1, ClockInv DEF Next
  <2>2. CASE UNCHANGED fifoVars
    BY <1>1, <2>2 DEF fifoVars, Inv, TypeOK, StateInv
  <2>3. QED
    BY <1>1, <2>1, <2>2
<1>2. QED
  BY <1>1, InitInv, PTL DEF Spec, Inv

(* generic_fifo implements the bounded queue: no word lost, duplicated,    *)
(* reordered or made up, for every such depth and every set of words.      *)
THEOREM FifoImplementsQueue ==
  ASSUME PtrMod = Depth
  PROVE  Spec => ImplementsQueue
<1>1. Init => Queue!Init
  <2>1. ASSUME Init PROVE Contents = <<>>
    <3>1. Inv /\ Occupancy = 0
      BY <2>1, InitInv DEF Init, Occupancy
    <3>2. Contents \in Seq(Data) /\ Len(Contents) = 0
      BY <3>1, DepthNat, WordsSeq DEF Contents, Inv, TypeOK
    <3>3. QED
      BY <3>2
  <2>2. QED
    BY <2>1 DEF Queue!Init
<1>2. ASSUME Inv, [Next]_fifoVars
      PROVE  [Queue!Next]_Contents
  <2>1. CASE Next
    BY <1>2, <2>1, ClockRefines DEF Next
  <2>2. CASE UNCHANGED fifoVars
    BY <2>2 DEF fifoVars, Contents, Occupancy
  <2>3. QED
    BY <1>2, <2>1, <2>2
<1>3. Spec => []Inv
  BY FifoInvariant, PTL DEF Inv
<1>4. QED
  BY <1>1, <1>2, <1>3, PTL DEF Spec, ImplementsQueue, Queue!Spec

-----------------------------------------------------------------------------
(* The controller around it.                                               *)
IrqInv == Inv /\ CtrlTypeOK /\ PendingHasEvent

LEMMA WriteType ==
  ASSUME NEW old \in SUBSET Line, NEW w \in Writes \cup {NoWrite}
  PROVE  Written(old, w) \subseteq Line
<1>1. w.data \subseteq Line
  <2>1. CASE w \in Writes
    <3>1. w.data \in WriteData
      BY <2>1 DEF Writes
    <3>2. QED
      BY <3>1, LineAssumption
  <2>2. CASE w = NoWrite
    BY <2>2 DEF NoWrite
  <2>3. QED
    BY <2>1, <2>2
<1>2. w.op \in {"ASSIGN", "SET", "CLEAR"}
  BY DEF Writes, NoWrite
<1>3. QED
  BY <1>1, <1>2 DEF Written

(* What the core's side of an edge amounts to.                             *)
LEMMA CoreSide ==
  ASSUME CtrlTypeOK, NEW valid, NEW d, NEW events, NEW w, Edge(valid, d, events, w)
  PROVE  \E acked \in SUBSET Line :
           /\ CtrlClock(valid, d, events, acked, w)
           /\ Spoil(acked, w)
           /\ \/ acked = {} /\ (coreId' = coreId \/ (coreId = NoIrq /\ coreId' \in int))
              \/ acked = {coreId} /\ coreId # NoIrq /\ coreId' = NoIrq
<1>1. CASE /\ CoreSample \/ CoreWait
           /\ CtrlClock(valid, d, events, {}, w)
           /\ Spoil({}, w)
  <2>1. coreId' = coreId \/ (coreId = NoIrq /\ coreId' \in int)
    BY <1>1 DEF CoreSample, CoreWait, IrqId, Requests
  <2>2. QED
    BY <1>1, <2>1
<1>2. CASE /\ CoreTake
           /\ CtrlClock(valid, d, events, {coreId}, w)
           /\ Spoil({coreId}, w)
  <2>1. coreId # NoIrq /\ coreId' = NoIrq /\ {coreId} \in SUBSET Line
    BY <1>2 DEF CoreTake, CtrlTypeOK
  <2>2. QED
    BY <1>2, <2>1
<1>3. QED
  BY <1>1, <1>2 DEF Edge

LEMMA EdgeType ==
  ASSUME PtrMod = Depth, Inv, CtrlTypeOK, NEW valid \in BOOLEAN, NEW d \in Data,
         NEW events \in SUBSET Line, NEW w \in Writes \cup {NoWrite}, Edge(valid, d, events, w)
  PROVE  Inv' /\ CtrlTypeOK'
<1>1. PICK acked \in SUBSET Line :
        /\ CtrlClock(valid, d, events, acked, w)
        /\ Spoil(acked, w)
        /\ \/ acked = {} /\ (coreId' = coreId \/ (coreId = NoIrq /\ coreId' \in int))
           \/ acked = {coreId} /\ coreId # NoIrq /\ coreId' = NoIrq
  BY CoreSide
<1>2. FifoReady(acked, w) \in BOOLEAN
  BY DEF FifoReady
<1>3. Clock(valid, d, FifoReady(acked, w))
  BY <1>1 DEF CtrlClock
<1>4. Inv'
  BY <1>2, <1>3, ClockInv
<1>5. irqMask' \subseteq Line /\ ack' \subseteq Line
  BY <1>1, WriteType DEF CtrlClock, CtrlTypeOK
<1>6. int' \subseteq Line
  <2>1. int \cup Lines(events) \in SUBSET Line
    BY LineAssumption DEF Lines, CtrlTypeOK
  <2>2. Written(int \cup Lines(events), w) \subseteq Line
    BY <2>1, WriteType
  <2>3. QED
    BY <1>1, <2>1, <2>2 DEF CtrlClock, IntNext
<1>7. fifoEvent' \in Data
  BY <1>1 DEF CtrlClock, FifoEvent, DataO, CtrlTypeOK, Inv, TypeOK
<1>8. coreId' \in Line \cup {NoIrq}
  BY <1>1 DEF CtrlTypeOK
<1>9. spoiled' \in BOOLEAN
  BY <1>1 DEF Spoil
<1>10. QED
  BY <1>4, <1>5, <1>6, <1>7, <1>8, <1>9 DEF CtrlTypeOK

(* An empty FIFO was empty before, and was offered nothing, or has just    *)
(* handed out its last word.                                               *)
LEMMA EmptyAfter ==
  ASSUME NEW valid \in BOOLEAN, NEW d, NEW grant \in BOOLEAN,
         Clock(valid, d, grant), ~ValidO'
  PROVE  ~ValidO \/ grant
BY DEF Clock, ValidO, PushEmpty, PopMiddle, PushMiddle, PushPopMiddle, PopFull, fifoVars

(* Where the FIFO's line can come from when the FIFO does not raise it.    *)
LEMMA LineFromWrite ==
  ASSUME NEW events, NEW acked, NEW w \in Writes \cup {NoWrite},
         ~ValidO, FifoLine \notin int, FifoLine \in IntNext(acked, w, Lines(events))
  PROVE  w.reg = "INT" /\ w.op # "CLEAR" /\ FifoLine \in w.data
<1>1. FifoLine \notin int \cup Lines(events)
  BY DEF Lines
<1>2. w.op \in {"ASSIGN", "SET", "CLEAR"}
  BY DEF Writes, NoWrite
<1>3. QED
  BY <1>1, <1>2 DEF IntNext, Written

(* A write that consumes the FIFO's word clears the line.                  *)
LEMMA PopClearsLine ==
  ASSUME NEW events, NEW acked, NEW w \in Writes \cup {NoWrite}, PopsFifo(w)
  PROVE  FifoLine \notin IntNext(acked, w, Lines(events))
BY DEF PopsFifo, IntNext, Written

LEMMA EdgePending ==
  ASSUME CtrlTypeOK, PendingHasEvent, NEW valid \in BOOLEAN, NEW d \in Data,
         NEW events \in SUBSET Line, NEW w \in Writes \cup {NoWrite}, Edge(valid, d, events, w)
  PROVE  PendingHasEvent'
<1>1. PICK acked \in SUBSET Line :
        /\ CtrlClock(valid, d, events, acked, w)
        /\ Spoil(acked, w)
        /\ \/ acked = {} /\ (coreId' = coreId \/ (coreId = NoIrq /\ coreId' \in int))
           \/ acked = {coreId} /\ coreId # NoIrq /\ coreId' = NoIrq
  BY CoreSide
<1>2. SUFFICES ASSUME FifoLine \in int' \/ coreId' = FifoLine, ~ValidO'
               PROVE  spoiled'
  BY DEF PendingHasEvent
<1>3. int' = IntNext(acked, w, Lines(events))
  BY <1>1 DEF CtrlClock
<1>4. FifoReady(acked, w) \in BOOLEAN
  BY DEF FifoReady
<1>5. ~ValidO \/ FifoReady(acked, w)
  BY <1>1, <1>2, <1>4, EmptyAfter DEF CtrlClock
<1>6. CASE ~ValidO
  <2>1. CASE spoiled
    BY <1>1, <1>2, <2>1 DEF Spoil
  <2>2. CASE FifoLine \notin int /\ coreId # FifoLine
    <3>1. coreId' # FifoLine
      BY <1>1, <2>2, LineAssumption
    <3>2. w.reg = "INT" /\ w.op # "CLEAR" /\ FifoLine \in w.data
      BY <1>2, <1>3, <1>6, <2>2, <3>1, LineFromWrite
    <3>3. QED
      BY <1>1, <1>2, <1>6, <3>2 DEF Spoil
  <2>3. QED
    BY <1>6, <2>1, <2>2 DEF PendingHasEvent
<1>7. CASE FifoReady(acked, w)
  <2>1. CASE FifoLine \in acked
    <3>1. FifoLine \notin int' /\ coreId' = NoIrq
      BY <1>1, <1>3, <2>1 DEF IntNext
    <3>2. QED
      BY <1>2, <3>1, LineAssumption
  <2>2. CASE PopsFifo(w)
    <3>1. FifoLine \notin int'
      BY <1>3, <2>2, PopClearsLine
    <3>2. QED
      BY <1>1, <1>2, <2>2, <3>1 DEF Spoil
  <2>3. QED
    BY <1>7, <2>1, <2>2 DEF FifoReady
<1>8. QED
  BY <1>5, <1>6, <1>7

LEMMA InitIrq == IrqInit => IrqInv
<1>1. ASSUME IrqInit PROVE IrqInv
  <2>1. Inv
    BY <1>1, InitInv DEF IrqInit, CtrlReset
  <2>2. QED
    BY <1>1, <2>1, DepthNat, LineAssumption
       DEF IrqInit, CtrlReset, IrqInv, CtrlTypeOK, PendingHasEvent
<1>2. QED
  BY <1>1

LEMMA NextIrq ==
  ASSUME PtrMod = Depth, IrqInv, [IrqNext]_irqVars
  PROVE  IrqInv'
<1>1. CASE IrqNext
  BY <1>1, EdgeType, EdgePending DEF IrqNext, IrqInv
<1>2. CASE UNCHANGED irqVars
  BY <1>2 DEF irqVars, ctrlVars, fifoVars, IrqInv, Inv, TypeOK, StateInv, CtrlTypeOK,
              PendingHasEvent, ValidO
<1>3. QED
  BY <1>1, <1>2

(* The registers hold lines, the FIFO register and the core's side an     *)
(* event and a line, whatever software writes.                             *)
THEOREM ControllerTypes ==
  ASSUME PtrMod = Depth
  PROVE  IrqSpec => []CtrlTypeOK
<1>1. QED
  BY InitIrq, NextIrq, PTL DEF IrqSpec, IrqInv

(* The FIFO's line is pending, or on its way into the core, only with an   *)
(* event behind it, unless software raised it or consumed the event.       *)
THEOREM PendingEvent ==
  ASSUME PtrMod = Depth
  PROVE  IrqSpec => [](CtrlTypeOK /\ PendingHasEvent)
<1>1. QED
  BY InitIrq, NextIrq, PTL DEF IrqSpec, IrqInv

(* Taking the FIFO's interrupt moves the oldest queued event, and no other,*)
(* into the register the handler reads.                                    *)
THEOREM HandlerReadsOldest ==
  ASSUME PtrMod = Depth
  PROVE  IrqSpec => TakesOldest
<1>1. ASSUME IrqInv, [IrqNext]_irqVars,
             coreId = FifoLine, coreId' = NoIrq, ~spoiled
      PROVE  Contents # <<>> /\ fifoEvent' = Contents[1]
  <2>1. ValidO
    BY <1>1 DEF IrqInv, PendingHasEvent
  <2>2. coreId # coreId'
    BY <1>1, LineAssumption
  <2>3. PICK valid \in BOOLEAN, d \in Data, events \in SUBSET Line,
             w \in Writes \cup {NoWrite} : Edge(valid, d, events, w)
    BY <1>1, <2>2 DEF IrqNext, irqVars
  <2>4. PICK acked \in SUBSET Line :
          /\ CtrlClock(valid, d, events, acked, w)
          /\ \/ acked = {} /\ (coreId' = coreId \/ (coreId = NoIrq /\ coreId' \in int))
             \/ acked = {coreId} /\ coreId # NoIrq /\ coreId' = NoIrq
    BY <1>1, <2>3, CoreSide DEF IrqInv
  <2>5. FifoLine \in acked
    BY <1>1, <2>2, <2>4, LineAssumption
  <2>6. fifoEvent' = regs[pop]
    BY <2>1, <2>4, <2>5 DEF CtrlClock, FifoEvent, FifoReady, DataO
  <2>7. /\ pop \in Slot /\ Occupancy \in 1 .. Depth /\ regs \in [Slot -> Data]
        /\ At(pop, 0) = pop
    BY <1>1, <2>1, OccupancyPlace, DepthNat DEF IrqInv, Inv, TypeOK, ValidO, At, Slot
  <2>8. Contents # <<>> /\ Contents[1] = regs[At(pop, 1 - 1)]
    BY <2>7, DepthNat, WordsSeq, WordsTail DEF Contents
  <2>9. QED
    BY <2>6, <2>7, <2>8
<1>2. QED
  BY <1>1, InitIrq, NextIrq, PTL DEF IrqSpec, TakesOldest

(* An edge without a register write clears no line but the one the core    *)
(* takes: an event is not lost when another line has priority meanwhile.   *)
THEOREM TakenLineGoes ==
  ASSUME PtrMod = Depth
  PROVE  IrqSpec => OnlyTakenLineGoes
<1>1. ASSUME IrqInv, NoWriteEdge
      PROVE  \A l \in int \ int' : l = coreId /\ coreId' = NoIrq
  <2>1. PICK valid \in BOOLEAN, d \in Data, events \in SUBSET Line :
          Edge(valid, d, events, NoWrite)
    BY <1>1 DEF NoWriteEdge
  <2>2. PICK acked \in SUBSET Line :
          /\ CtrlClock(valid, d, events, acked, NoWrite)
          /\ \/ acked = {}
             \/ acked = {coreId} /\ coreId # NoIrq /\ coreId' = NoIrq
    BY <1>1, <2>1, CoreSide DEF IrqInv
  <2>3. int' = IntNext(acked, NoWrite, Lines(events)) /\ NoWrite.reg # "INT"
    BY <2>2 DEF CtrlClock, NoWrite
  <2>4. int' = (int \cup Lines(events)) \ acked
    BY <2>3 DEF IntNext
  <2>5. QED
    BY <1>1, <2>2, <2>4
<1>2. QED
  BY <1>1, InitIrq, NextIrq, PTL DEF IrqSpec, OnlyTakenLineGoes
=============================================================================
