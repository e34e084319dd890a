----------------------------- MODULE Dmi_proofs -----------------------------
(***************************************************************************)
(* Proofs about the clock crossings of the debugger's way to the debug     *)
(* module.  The lines and registers of a crossing form a path from the     *)
(* source's request register to its view of the acknowledge; the argument  *)
(* is that at most one place of this path differs from the one before it,  *)
(* whatever edges the two clocks have and whatever they sample.  On it     *)
(* rest the order of the answers and which of them a read takes; the last  *)
(* section is about the error bit.                                         *)
(***************************************************************************)
EXTENDS Dmi, TLAPS

(* The registers are bits.                                                 *)
Bits(s, t) ==
  /\ s.req \in Bit /\ s.ack0 \in Bit /\ s.ack \in Bit
  /\ t.ack \in Bit /\ t.req \in Bit /\ t.q0 \in Bit /\ t.q1 \in Bit

(* Past the first change of the path everything is alike.                  *)
OneChange(s, t) ==
  /\ s.req # t.req => t.req = t.q0
  /\ s.req # t.req \/ t.req # t.q0 => t.q0 = t.q1
  /\ s.req # t.req \/ t.req # t.q0 \/ t.q0 # t.q1 => t.q1 = t.ack
  /\ s.req # t.req \/ t.req # t.q0 \/ t.q0 # t.q1 \/ t.q1 # t.ack => t.ack = s.ack0
  /\ s.req # t.req \/ t.req # t.q0 \/ t.q0 # t.q1 \/ t.q1 # t.ack \/ t.ack # s.ack0
       => s.ack0 = s.ack

(* A word that the destination shows is the one the source holds.          *)
SameWord(s, t) == Valid(t) => t.data = s.data

Crossing(s, t) == Bits(s, t) /\ OneChange(s, t) /\ SameWord(s, t)

LEMMA CrossingReset ==
  ASSUME NEW zero
  PROVE  Crossing(SrcReset(zero), DstReset(zero))
BY DEF Crossing, Bits, OneChange, SameWord, SrcReset, DstReset, Bit, Valid

(* The source has an edge, the destination none.                           *)
LEMMA SourceEdge ==
  ASSUME NEW s, NEW t, NEW valid \in BOOLEAN, NEW word, Crossing(s, t)
  PROVE  Crossing(SrcEdge(s, valid, word, t.ack), t)
BY DEF Crossing, Bits, OneChange, SameWord, SrcEdge, ReqLine, Ready, Valid, Flip, Bit

(* The destination has an edge, the source none.                           *)
LEMMA DestinationEdge ==
  ASSUME NEW s, NEW t, NEW ready \in BOOLEAN, Crossing(s, t)
  PROVE  Crossing(s, DstEdge(t, ready, [req |-> s.req, data |-> s.data]))
BY DEF Crossing, Bits, OneChange, SameWord, DstEdge, AckLine, Captures, Valid, Flip, Bit

(* Both have one, and sample a line as it was or as it becomes.            *)
LEMMA BothEdges ==
  ASSUME NEW s, NEW t, NEW valid \in BOOLEAN, NEW word, NEW ready \in BOOLEAN,
         Crossing(s, t),
         NEW ack \in {t.ack, AckLine(t, ready)},
         NEW line \in {[req |-> s.req, data |-> s.data], ReqLine(s, valid, word)}
  PROVE  Crossing(SrcEdge(s, valid, word, ack), DstEdge(t, ready, line))
<1>1. CASE line = [req |-> s.req, data |-> s.data]
  BY <1>1 DEF Crossing, Bits, OneChange, SameWord, SrcEdge, ReqLine, DstEdge, AckLine,
              Captures, Ready, Valid, Flip, Bit
<1>2. CASE line = ReqLine(s, valid, word)
  BY <1>2 DEF Crossing, Bits, OneChange, SameWord, SrcEdge, ReqLine, DstEdge, AckLine,
              Captures, Ready, Valid, Flip, Bit
<1>3. QED
  BY <1>1, <1>2

LEMMA CrossingIsStable ==
  ASSUME NEW s, NEW t, Crossing(s, t), Captures(t)
  PROVE  ~Ready(s)
BY DEF Crossing, Bits, OneChange, Captures, Ready, Valid, Bit

(* The inductive invariant: the counter of resets is one, and until the    *)
(* first of them both crossings are in order.                              *)
CrossingsInv ==
  /\ resets \in Nat
  /\ resets = 0 => Crossing(reqSrc, reqDst) /\ Crossing(respSrc, respDst)

LEMMA TckKeeps == CrossingsInv /\ Tck => CrossingsInv'
<1> SUFFICES ASSUME CrossingsInv, Tck PROVE CrossingsInv'
  OBVIOUS
<1>1. Offers \in BOOLEAN
  BY DEF Offers
<1>2. /\ reqSrc' = SrcEdge(reqSrc, Offers, Request, reqDst.ack) /\ reqDst' = reqDst
      /\ respDst' = DstEdge(respDst, TRUE, RespBefore) /\ respSrc' = respSrc
      /\ resets' = resets
  BY DEF Tck, JtagEdge
<1>3. ASSUME resets = 0 PROVE Crossing(reqSrc', reqDst')
  BY <1>1, <1>2, <1>3, SourceEdge DEF CrossingsInv
<1>4. ASSUME resets = 0 PROVE Crossing(respSrc', respDst')
  BY <1>2, <1>4, DestinationEdge DEF CrossingsInv, RespBefore
<1>5. QED
  BY <1>2, <1>3, <1>4 DEF CrossingsInv

LEMMA ClkKeeps == CrossingsInv /\ Clk => CrossingsInv'
<1> SUFFICES ASSUME CrossingsInv, Clk PROVE CrossingsInv'
  OBVIOUS
<1>1. Room \in BOOLEAN /\ (queue # <<>>) \in BOOLEAN
  BY DEF Room
<1>2. /\ reqDst' = DstEdge(reqDst, Room, ReqBefore) /\ reqSrc' = reqSrc
      /\ respSrc' = SrcEdge(respSrc, queue # <<>>, AnswerHead, respDst.ack)
      /\ respDst' = respDst
      /\ resets' = resets
  BY DEF Clk, CoreEdge
<1>3. ASSUME resets = 0 PROVE Crossing(reqSrc', reqDst')
  BY <1>1, <1>2, <1>3, DestinationEdge DEF CrossingsInv, ReqBefore
<1>4. ASSUME resets = 0 PROVE Crossing(respSrc', respDst')
  BY <1>1, <1>2, <1>4, SourceEdge DEF CrossingsInv
<1>5. QED
  BY <1>2, <1>3, <1>4 DEF CrossingsInv

LEMMA BothKeeps == CrossingsInv /\ Both => CrossingsInv'
<1> SUFFICES ASSUME CrossingsInv, Both PROVE CrossingsInv'
  OBVIOUS
<1>1. Offers \in BOOLEAN /\ Room \in BOOLEAN /\ (queue # <<>>) \in BOOLEAN
  BY DEF Offers, Room
<1>2. PICK ack \in {reqDst.ack, AckAfter}, resp \in {RespBefore, RespAfter} :
        JtagEdge(ack, resp)
  BY DEF Both
<1>3. PICK req \in {ReqBefore, ReqAfter}, respAck \in {respDst.ack, RespAckAfter} :
        CoreEdge(req, respAck)
  BY DEF Both
<1>4. /\ reqSrc' = SrcEdge(reqSrc, Offers, Request, ack)
      /\ respDst' = DstEdge(respDst, TRUE, resp)
      /\ reqDst' = DstEdge(reqDst, Room, req)
      /\ respSrc' = SrcEdge(respSrc, queue # <<>>, AnswerHead, respAck)
      /\ resets' = resets
  BY <1>2, <1>3 DEF Both, JtagEdge, CoreEdge
<1>5. ASSUME resets = 0 PROVE Crossing(reqSrc', reqDst')
  BY <1>1, <1>2, <1>3, <1>4, <1>5, BothEdges
     DEF CrossingsInv, AckAfter, ReqBefore, ReqAfter
<1>6. ASSUME resets = 0 PROVE Crossing(respSrc', respDst')
  BY <1>1, <1>2, <1>3, <1>4, <1>6, BothEdges
     DEF CrossingsInv, RespBefore, RespAfter, RespAckAfter
<1>7. QED
  BY <1>4, <1>5, <1>6 DEF CrossingsInv

LEMMA CrossingsKept == CrossingsInv /\ [Next]_vars => CrossingsInv'
<1> SUFFICES ASSUME CrossingsInv, [Next]_vars PROVE CrossingsInv'
  OBVIOUS
<1>1. CASE TestReset
  BY <1>1 DEF CrossingsInv, TestReset
<1>2. CASE UNCHANGED vars
  BY <1>2 DEF CrossingsInv, vars
<1>3. QED
  BY <1>1, <1>2, TckKeeps, ClkKeeps, BothKeeps DEF Next

LEMMA CrossingsCorrect == Spec => []CrossingsInv
<1>1. Init => CrossingsInv
  BY CrossingReset DEF Init, CrossingsInv
<1>2. QED
  BY <1>1, CrossingsKept, PTL DEF Spec

(* Until a reset of the JTAG side, neither crossing of the debugger's way  *)
(* changes a word of several bits while the other clock may be taking it:  *)
(* the handshake of cdc_2phase.sv does without synchronisers for its data. *)
THEOREM WordsAreStable == Spec => []StableData
<1>1. CrossingsInv => StableData
  BY CrossingIsStable DEF CrossingsInv, StableData
<1>2. QED
  BY <1>1, CrossingsCorrect, PTL

-----------------------------------------------------------------------------
(* The debugger's way to the debug module and back is one queue until the  *)
(* JTAG side is reset alone.  Due is the concatenation of what is in each  *)
(* of four places; an edge of either clock moves a word from the end of one*)
(* place to the next, which leaves the concatenation alone, takes the word *)
(* at the front or puts one behind the last.                               *)

(* The word on its way over a crossing.                                    *)
Word(s, t) == IF Valid(t) THEN t.data ELSE s.data

LEMMA InFlightIs ==
  ASSUME NEW s, NEW t
  PROVE  InFlight(s, t) = IF s.req = t.ack THEN <<>> ELSE <<Word(s, t)>>
BY DEF InFlight, Word

(* A word leaves the source into an empty crossing, and the one that is    *)
(* taken is the one on its way.                                            *)
LEMMA Handshakes ==
  ASSUME NEW s, NEW t, Crossing(s, t)
  PROVE  /\ Ready(s) => s.req = t.ack
         /\ Valid(t) => s.req # t.ack
BY DEF Crossing, Bits, OneChange, SameWord, Ready, Valid, Bit

(* What an edge leaves on its way.                                         *)
Moved(s, t, s2, t2, sent, taken, word) ==
  /\ s2.req = t2.ack <=> ~sent /\ (taken \/ s.req = t.ack)
  /\ sent => Word(s2, t2) = word
  /\ ~sent /\ ~taken /\ s.req # t.ack => Word(s2, t2) = Word(s, t)

LEMMA SourceMoves ==
  ASSUME NEW s, NEW t, NEW valid \in BOOLEAN, NEW word, Crossing(s, t)
  PROVE  Moved(s, t, SrcEdge(s, valid, word, t.ack), t, valid /\ Ready(s), FALSE, word)
BY DEF Moved, Word, Crossing, Bits, OneChange, SameWord, SrcEdge, ReqLine, Ready, Valid, Flip, Bit

LEMMA DestinationMoves ==
  ASSUME NEW s, NEW t, NEW ready \in BOOLEAN, NEW word, Crossing(s, t)
  PROVE  Moved(s, t, s, DstEdge(t, ready, [req |-> s.req, data |-> s.data]),
               FALSE, Valid(t) /\ ready, word)
BY DEF Moved, Word, Crossing, Bits, OneChange, SameWord, DstEdge, AckLine, Captures, Valid, Flip, Bit

LEMMA BothMove ==
  ASSUME NEW s, NEW t, NEW valid \in BOOLEAN, NEW word, NEW ready \in BOOLEAN,
         Crossing(s, t),
         NEW ack \in {t.ack, AckLine(t, ready)},
         NEW line \in {[req |-> s.req, data |-> s.data], ReqLine(s, valid, word)}
  PROVE  Moved(s, t, SrcEdge(s, valid, word, ack), DstEdge(t, ready, line),
               valid /\ Ready(s), Valid(t) /\ ready, word)
<1>1. CASE line = [req |-> s.req, data |-> s.data]
  BY <1>1 DEF Moved, Word, Crossing, Bits, OneChange, SameWord, SrcEdge, ReqLine, DstEdge,
              AckLine, Captures, Ready, Valid, Flip, Bit
<1>2. CASE line = ReqLine(s, valid, word)
  BY <1>2 DEF Moved, Word, Crossing, Bits, OneChange, SameWord, SrcEdge, ReqLine, DstEdge,
              AckLine, Captures, Ready, Valid, Flip, Bit
<1>3. QED
  BY <1>1, <1>2

(* The receiver's acknowledge moves when it takes a word, and only then.   *)
LEMMA Acknowledges ==
  ASSUME NEW s, NEW t, NEW ready \in BOOLEAN, NEW line, Crossing(s, t)
  PROVE  DstEdge(t, ready, line).ack # t.ack <=> Valid(t) /\ ready
BY DEF Crossing, Bits, DstEdge, AckLine, Flip, Bit

-----------------------------------------------------------------------------
(* Sequences of answers and their concatenation, as operators of their own,*)
(* and what is needed of them.                                             *)
Words == Seq(Nat)
Cat(s, t) == s \o t

LEMMA CatType ==
  ASSUME NEW s \in Words, NEW t \in Words
  PROVE  Cat(s, t) \in Words
BY DEF Cat, Words

LEMMA CatAssociative ==
  ASSUME NEW s \in Words, NEW t \in Words, NEW u \in Words
  PROVE  Cat(s, Cat(t, u)) = Cat(Cat(s, t), u)
BY SMTT(30) DEF Cat, Words

LEMMA CatEmpty ==
  ASSUME NEW s \in Words
  PROVE  Cat(s, <<>>) = s /\ Cat(<<>>, s) = s
BY DEF Cat, Words

LEMMA CatHead ==
  ASSUME NEW s \in Words, s # <<>>
  PROVE  /\ Cat(<<Head(s)>>, Tail(s)) = s
         /\ <<Head(s)>> \in Words /\ Tail(s) \in Words
BY DEF Cat, Words

LEMMA CatTail ==
  ASSUME NEW z \in Nat, NEW s \in Words
  PROVE  Tail(Cat(<<z>>, s)) = s /\ Cat(<<z>>, s) # <<>>
BY DEF Cat, Words

LEMMA Single ==
  ASSUME NEW z \in Nat
  PROVE  <<z>> \in Words
BY DEF Words

LEMMA Empty == <<>> \in Words
BY DEF Words

(* Words in four places: answers on their way and queued, requests on their*)
(* way and offered.                                                        *)
Places(a, q, r, o) == Cat(Cat(Cat(a, q), r), o)

LEMMA PlacesRegroup ==
  \A a, q, p, r, o, n :
    {a, q, p, r, o, n} \subseteq Words
      => Places(a, Cat(q, p), r, Cat(o, n)) = Cat(Cat(Cat(a, q), Cat(p, Cat(r, o))), n)
<1> TAKE a, q, p, r, o, n
<1> HAVE {a, q, p, r, o, n} \subseteq Words
<1> DEFINE f == Cat(a, q)
           g == Cat(f, p)
           h == Cat(g, r)
<1>1. f \in Words /\ g \in Words /\ h \in Words /\ Cat(r, o) \in Words
  BY CatType
<1>2. Cat(a, Cat(q, p)) = g
  BY CatAssociative
<1>3. Cat(h, Cat(o, n)) = Cat(Cat(h, o), n)
  BY <1>1, CatAssociative
<1>4. Cat(h, o) = Cat(g, Cat(r, o))
  BY <1>1, CatAssociative
<1>5. Cat(g, Cat(r, o)) = Cat(f, Cat(p, Cat(r, o)))
  BY <1>1, CatAssociative
<1>6. QED
  BY <1>2, <1>3, <1>4, <1>5 DEF Places

(* An edge: sentA and takenA say whether an answer enters and leaves the   *)
(* crossing of answers, sent and taken whether a request does, asked       *)
(* whether one is scanned in; x and y are the answers that go with taken   *)
(* and asked, z the one at the front.                                      *)
FlowFrom(a, q, r, sentA, takenA, sent, taken, x, z) ==
  /\ sentA => a = <<>> /\ q # <<>>
  /\ takenA => a = <<z>>
  /\ sent => r = <<>>
  /\ taken => r = <<x>>

FlowTo(a, q, r, o, sentA, takenA, sent, taken, asked, x, y) ==
  LET p == IF taken THEN <<x>> ELSE <<>>
      n == IF asked THEN <<y>> ELSE <<>>
  IN  Places(IF sentA THEN <<Head(q)>> ELSE IF takenA THEN <<>> ELSE a,
             Cat(IF sentA THEN Tail(q) ELSE q, p),
             IF sent THEN o ELSE IF taken THEN <<>> ELSE r,
             Cat(IF sent THEN <<>> ELSE o, n))
      = Cat(IF takenA THEN Tail(Places(a, q, r, o)) ELSE Places(a, q, r, o), n)

LEMMA Flow ==
  \A a, q, r, o, sentA, takenA, sent, taken, asked, x, y, z :
    /\ {a, q, r, o} \subseteq Words
    /\ {sentA, takenA, sent, taken, asked} \subseteq BOOLEAN
    /\ {x, y, z} \subseteq Nat
    /\ FlowFrom(a, q, r, sentA, takenA, sent, taken, x, z)
    => FlowTo(a, q, r, o, sentA, takenA, sent, taken, asked, x, y)
<1> TAKE a, q, r, o, sentA, takenA, sent, taken, asked, x, y, z
<1> HAVE /\ {a, q, r, o} \subseteq Words
         /\ {sentA, takenA, sent, taken, asked} \subseteq BOOLEAN
         /\ {x, y, z} \subseteq Nat
         /\ FlowFrom(a, q, r, sentA, takenA, sent, taken, x, z)
<1>0. /\ sentA => a = <<>> /\ q # <<>>
      /\ takenA => a = <<z>>
      /\ sent => r = <<>>
      /\ taken => r = <<x>>
  BY DEF FlowFrom
<1> DEFINE p == IF taken THEN <<x>> ELSE <<>>
           n == IF asked THEN <<y>> ELSE <<>>
           a2 == IF sentA THEN <<Head(q)>> ELSE IF takenA THEN <<>> ELSE a
           q2 == IF sentA THEN Tail(q) ELSE q
           r2 == IF sent THEN o ELSE IF taken THEN <<>> ELSE r
           o2 == IF sent THEN <<>> ELSE o
           front == Cat(a, q)
           back == Cat(r, o)
<1>1. a2 \in Words /\ q2 \in Words
  BY <1>0, CatHead, Empty
<1>2. p \in Words /\ n \in Words
  BY Single, Empty
<1>3. r2 \in Words /\ o2 \in Words
  BY Empty
<1>4. Cat(a2, q2) = IF takenA THEN q ELSE front
  BY <1>0, CatHead, CatEmpty
<1>5. Cat(p, Cat(r2, o2)) = back
  <2>1. CASE sent
    BY <1>0, <2>1, Empty, CatEmpty
  <2>2. CASE ~sent /\ taken
    BY <1>0, <2>2, Empty, CatEmpty
  <2>3. CASE ~sent /\ ~taken
    <3>1. Cat(r, o) \in Words
      BY CatType
    <3>2. QED
      BY <2>3, <3>1, CatEmpty
  <2>4. QED
    BY <2>1, <2>2, <2>3
<1>6. front \in Words /\ back \in Words
  BY CatType
<1>7. Places(a, q, r, o) = Cat(front, back)
  BY <1>6, CatAssociative DEF Places
<1>8. takenA => Tail(Cat(front, back)) = Cat(q, back)
  <2>1. SUFFICES ASSUME takenA PROVE Tail(Cat(Cat(<<z>>, q), back)) = Cat(q, back)
    BY <1>0
  <2>2. Cat(Cat(<<z>>, q), back) = Cat(<<z>>, Cat(q, back))
    <3>1. <<z>> \in Words
      BY Single
    <3>2. back \in Words
      BY <1>6
    <3> HIDE DEF back
    <3>3. QED
      BY <3>1, <3>2, CatAssociative
  <2>3. Cat(q, back) \in Words
    BY <1>6, CatType
  <2>4. QED
    BY <2>2, <2>3, CatTail
<1> HIDE DEF p, n, a2, q2, r2, o2, front, back
<1>9. Places(a2, Cat(q2, p), r2, Cat(o2, n)) = Cat(Cat(Cat(a2, q2), Cat(p, Cat(r2, o2))), n)
  BY <1>1, <1>2, <1>3, PlacesRegroup
<1>10. Places(a2, Cat(q2, p), r2, Cat(o2, n))
         = Cat(IF takenA THEN Tail(Places(a, q, r, o)) ELSE Places(a, q, r, o), n)
  BY <1>4, <1>5, <1>7, <1>8, <1>9
<1>11. QED
  BY <1>10 DEF FlowTo, p, n, a2, q2, r2, o2

-----------------------------------------------------------------------------
(* The places of Due.                                                      *)
Returning == IF respSrc.req = respDst.ack THEN <<>> ELSE <<Word(respSrc, respDst)>>
Owing == IF reqSrc.req = reqDst.ack THEN <<>> ELSE <<Answer(Word(reqSrc, reqDst))>>
Offered == IF Offers THEN <<Answer(Request)>> ELSE <<>>

LEMMA DueIsPlaces == Due = Places(Returning, queue, Owing, Offered)
<1> DEFINE way == InFlight(reqSrc, reqDst)
           answers == [i \in 1 .. Len(way) |-> Answer(way[i])]
<1>1. InFlight(respSrc, respDst) = Returning
  BY InFlightIs DEF Returning
<1>2. answers = Owing
  <2>1. way = IF reqSrc.req = reqDst.ack THEN <<>> ELSE <<Word(reqSrc, reqDst)>>
    BY InFlightIs
  <2> DEFINE w == Word(reqSrc, reqDst)
  <2> HIDE DEF way, w
  <2>2. CASE reqSrc.req = reqDst.ack
    <3>1. way = <<>>
      BY <2>1, <2>2
    <3>2. QED
      BY <3>1, <2>2 DEF Owing
  <2>3. CASE reqSrc.req # reqDst.ack
    <3>1. way = <<w>>
      BY <2>1, <2>3 DEF w
    <3>2. answers = <<Answer(w)>>
      BY <3>1
    <3>3. QED
      BY <3>2, <2>3 DEF Owing, w
  <2>4. QED
    BY <2>2, <2>3
<1>3. Offered = IF Offers THEN <<Answer(Request)>> ELSE <<>>
  BY DEF Offered
<1>4. QED
  BY <1>1, <1>2, <1>3 DEF Due, Places, Cat

-----------------------------------------------------------------------------
(* The inductive invariant: the crossings are in order until the first     *)
(* reset, and what is kept anywhere is a request or an answer.             *)
Asked == [op : Ops, address : Nat]
States == {"Idle", "Read", "Write", "WaitReadValid"}

Kept ==
  /\ state \in States /\ address \in Nat /\ scanned \in Nat
  /\ reqSrc.data \in Asked /\ reqDst.data \in Asked
  /\ queue \in Seq(Nat) /\ Len(queue) <= QueueDepth
  /\ respSrc.data \in Nat /\ respDst.data \in Nat

OrderInv == CrossingsInv /\ Kept

LEMMA AnswerType ==
  ASSUME NEW r \in Asked
  PROVE  Answer(r) \in Nat
BY DEF Answer, Asked

LEMMA RequestType == Kept => Request \in Asked
BY DEF Kept, Request, Asked, Ops

(* The transport module offers one access at a time, and a new one only    *)
(* when there is none.                                                     *)
LEMMA TransportMoves ==
  ASSUME Kept, Transport
  PROVE  /\ state' \in States /\ address' \in Nat /\ scanned' \in Nat
         /\ Scanned => state = "Idle" /\ state' \in {"Read", "Write"}
         /\ ~Scanned /\ Offers /\ ~Ready(reqSrc) => state' = state /\ address' = address
         /\ ~Scanned /\ ~(Offers /\ ~Ready(reqSrc)) => ~Offers'
<1>1. CASE Accept
  <2>1. PICK op \in Ops :
          /\ state' = CASE op = "nop" -> state [] op = "read" -> "Read" [] op = "write" -> "Write"
          /\ scanned' = IF op = "nop" THEN scanned ELSE scanned + 1
          /\ address' = IF op = "nop" THEN 0 ELSE scanned + 1
    BY <1>1 DEF Accept
  <2>2. state = "Idle"
    BY <1>1 DEF Accept, Accepts
  <2>3. QED
    BY <2>1, <2>2 DEF Kept, States, Ops, Offers, Scanned
<1>2. CASE Rest
  BY <1>2 DEF Rest, Kept, States, Offers, Scanned
<1>3. CASE Offer
  BY <1>3 DEF Offer, Kept, States, Offers, Scanned
<1>4. CASE Await
  BY <1>4 DEF Await, Kept, States, Offers, Scanned
<1>5. QED
  BY <1>1, <1>2, <1>3, <1>4 DEF Transport

LEMMA OfferedMoves ==
  ASSUME Kept, Transport
  PROVE  LET sent == Offers /\ Ready(reqSrc) IN
         /\ Scanned => ~Offers /\ Offered' = <<Answer(Request')>>
         /\ ~Scanned => Offered' = IF sent THEN <<>> ELSE Offered
<1>1. CASE Scanned
  BY <1>1, TransportMoves DEF Offers, Offered
<1>2. CASE ~Scanned /\ Offers /\ ~Ready(reqSrc)
  BY <1>2, TransportMoves DEF Offers, Offered, Request
<1>3. CASE ~Scanned /\ ~(Offers /\ ~Ready(reqSrc))
  BY <1>3, TransportMoves DEF Offered
<1>4. QED
  BY <1>1, <1>2, <1>3

LEMMA PlaceTypes ==
  ASSUME Kept
  PROVE  /\ Returning \in Seq(Nat) /\ Len(Returning) <= 1
         /\ Owing \in Seq(Nat) /\ Len(Owing) <= 1
         /\ Offered \in Seq(Nat)
<1>1. Word(respSrc, respDst) \in Nat /\ Word(reqSrc, reqDst) \in Asked
  BY DEF Kept, Word
<1>2. Answer(Word(reqSrc, reqDst)) \in Nat
  BY <1>1, AnswerType
<1>3. Answer(Request) \in Nat
  BY RequestType, AnswerType
<1>4. Returning \in Seq(Nat) /\ Len(Returning) <= 1
  BY <1>1 DEF Returning
<1>5. Owing \in Seq(Nat) /\ Len(Owing) <= 1
  BY <1>2 DEF Owing
<1>6. Offered \in Seq(Nat)
  BY <1>3 DEF Offered
<1>7. QED
  BY <1>4, <1>5, <1>6

(* There is room for an access that is scanned in.                         *)
LEMMA RoomForOne ==
  ASSUME Kept, ~Offers
  PROVE  Due \in Seq(Nat) /\ Len(Due) < QueueDepth + 3
<1> DEFINE front == Cat(Returning, queue)
           way == Cat(front, Owing)
<1>1. front \in Seq(Nat) /\ Len(front) <= QueueDepth + 1
  BY PlaceTypes, DmiAssumption DEF Kept, Cat
<1> HIDE DEF front
<1>2. way \in Seq(Nat) /\ Len(way) <= QueueDepth + 2
  BY <1>1, PlaceTypes, DmiAssumption DEF Cat
<1>3. Due = way
  <2>1. Offered = <<>>
    BY DEF Offered
  <2>2. Due = Cat(way, <<>>)
    BY <2>1, DueIsPlaces DEF Places, front
  <2> HIDE DEF way
  <2>3. QED
    BY <1>2, <2>2, CatEmpty DEF Words
<1> HIDE DEF way
<1>4. QED
  BY <1>2, <1>3, DmiAssumption

LEMMA AppendIsCat ==
  ASSUME NEW s \in Seq(Nat), NEW d \in Nat
  PROVE  Append(s, d) = Cat(s, <<d>>)
BY DEF Cat

-----------------------------------------------------------------------------
(* What an edge of either clock or of both does to the four places.        *)
EdgeMoves(sent, taken, sentA, takenA) ==
  /\ Moved(reqSrc, reqDst, reqSrc', reqDst', sent, taken, Request)
  /\ Moved(respSrc, respDst, respSrc', respDst', sentA, takenA, AnswerHead)
  /\ queue' = (IF sentA THEN Tail(queue) ELSE queue)
                \o (IF taken THEN <<Answer(reqDst.data)>> ELSE <<>>)
  /\ Scanned => ~Offers /\ Offered' = <<Answer(Request')>>
  /\ ~Scanned => Offered' = IF sent THEN <<>> ELSE Offered
  /\ sent => Offers /\ Ready(reqSrc)
  /\ taken => Valid(reqDst)
  /\ sentA => queue # <<>> /\ Ready(respSrc)
  /\ takenA => Valid(respDst)
  /\ Answered <=> takenA

LEMMA DueMoves ==
  ASSUME NEW sent \in BOOLEAN, NEW taken \in BOOLEAN,
         NEW sentA \in BOOLEAN, NEW takenA \in BOOLEAN,
         OrderInv, resets = 0, Kept', EdgeMoves(sent, taken, sentA, takenA)
  PROVE  Due' = Cat(IF takenA THEN Tail(Due) ELSE Due,
                    IF Scanned THEN <<Answer(Request')>> ELSE <<>>)
<1> DEFINE n == IF Scanned THEN <<Answer(Request')>> ELSE <<>>
<1>1. Returning \in Seq(Nat) /\ queue \in Seq(Nat) /\ Owing \in Seq(Nat) /\ Offered \in Seq(Nat)
  BY PlaceTypes DEF OrderInv, Kept
<1>2. Answer(reqDst.data) \in Nat /\ respDst.data \in Nat
  BY AnswerType DEF OrderInv, Kept
<1>3. Answer(Request') \in Nat
  <2>1. Request' \in Asked
    BY DEF Kept, Request, Asked, Ops
  <2>2. QED
    BY <2>1, AnswerType
<1>4. Crossing(reqSrc, reqDst) /\ Crossing(respSrc, respDst)
  BY DEF OrderInv, CrossingsInv
<1>5. /\ Ready(reqSrc) => reqSrc.req = reqDst.ack
      /\ Valid(reqDst) => reqSrc.req # reqDst.ack
      /\ Ready(respSrc) => respSrc.req = respDst.ack
      /\ Valid(respDst) => respSrc.req # respDst.ack
  BY <1>4, Handshakes
<1>6. sentA => Returning = <<>> /\ queue # <<>>
  BY <1>5 DEF EdgeMoves, Returning
<1>7. takenA => Returning = <<respDst.data>>
  BY <1>5 DEF EdgeMoves, Returning, Word
<1>8. sent => Owing = <<>>
  BY <1>5 DEF EdgeMoves, Owing
<1>9. taken => Owing = <<Answer(reqDst.data)>>
  BY <1>5 DEF EdgeMoves, Owing, Word
<1>10. Returning' = IF sentA THEN <<Head(queue)>> ELSE IF takenA THEN <<>> ELSE Returning
  BY DEF EdgeMoves, Returning, Moved, AnswerHead
<1>11. Owing' = IF sent THEN Offered ELSE IF taken THEN <<>> ELSE Owing
  <2>1. CASE sent
    BY <2>1 DEF EdgeMoves, Owing, Moved, Offered
  <2>2. CASE ~sent
    BY <2>2 DEF EdgeMoves, Owing, Moved
  <2>3. QED
    BY <2>1, <2>2
<1>12. queue' = Cat(IF sentA THEN Tail(queue) ELSE queue,
                    IF taken THEN <<Answer(reqDst.data)>> ELSE <<>>)
  BY DEF EdgeMoves, Cat
<1>13. Returning \in Words /\ queue \in Words /\ Owing \in Words /\ Offered \in Words
  BY <1>1 DEF Words
<1>14. Offered' = Cat(IF sent THEN <<>> ELSE Offered, n)
  <2>1. CASE Scanned
    <3>1. ~sent /\ Offered = <<>>
      BY <2>1 DEF EdgeMoves, Offered
    <3>2. <<Answer(Request')>> \in Words
      BY <1>3, Single
    <3>3. QED
      BY <2>1, <3>1, <3>2, CatEmpty DEF EdgeMoves
  <2>2. CASE ~Scanned
    <3>1. Cat(IF sent THEN <<>> ELSE Offered, <<>>) = IF sent THEN <<>> ELSE Offered
      BY <1>13, CatEmpty, Empty
    <3>2. QED
      BY <2>2, <3>1 DEF EdgeMoves
  <2>3. QED
    BY <2>1, <2>2
<1>15. (Due = Places(Returning, queue, Owing, Offered))'
  BY DueIsPlaces, PTL
<1>16. Due = Places(Returning, queue, Owing, Offered)
  BY DueIsPlaces
<1>17. Scanned \in BOOLEAN
  BY DEF Scanned
<1> DEFINE x == Answer(reqDst.data)
           y == Answer(Request')
           z == respDst.data
<1>18. FlowFrom(Returning, queue, Owing, sentA, takenA, sent, taken, x, z)
  BY <1>6, <1>7, <1>8, <1>9 DEF FlowFrom
<1>19. FlowTo(Returning, queue, Owing, Offered, sentA, takenA, sent, taken, Scanned, x, y)
  <2>1. x \in Nat /\ y \in Nat /\ z \in Nat
    BY <1>2, <1>3
  <2> HIDE DEF x, y, z
  <2>2. QED
    BY <1>17, <1>18, <1>13, <2>1, Flow
<1>20. QED
  BY <1>10, <1>11, <1>12, <1>14, <1>15, <1>16, <1>19 DEF FlowTo

LEMMA ServesDue ==
  ASSUME NEW sent \in BOOLEAN, NEW taken \in BOOLEAN,
         NEW sentA \in BOOLEAN, NEW takenA \in BOOLEAN,
         OrderInv, resets = 0, Kept', EdgeMoves(sent, taken, sentA, takenA)
  PROVE  ServiceStep
<1> DEFINE d == Answer(Request')
<1>1. Due' = Cat(IF takenA THEN Tail(Due) ELSE Due, IF Scanned THEN <<d>> ELSE <<>>)
  BY DueMoves
<1>2. Answered <=> takenA
  BY DEF EdgeMoves
<1>3. takenA => Due # <<>> /\ Due \in Seq(Nat)
  <2>1. SUFFICES ASSUME takenA PROVE Due # <<>> /\ Due \in Seq(Nat)
    OBVIOUS
  <2>2. Returning \in Seq(Nat) /\ queue \in Seq(Nat) /\ Owing \in Seq(Nat) /\ Offered \in Seq(Nat)
    BY PlaceTypes DEF OrderInv, Kept
  <2>3. Returning # <<>>
    BY <2>1, Handshakes DEF EdgeMoves, Returning, OrderInv, CrossingsInv
  <2>4. Cat(Returning, queue) \in Seq(Nat) /\ Cat(Returning, queue) # <<>>
    BY <2>2, <2>3 DEF Cat
  <2>5. Cat(Cat(Returning, queue), Owing) \in Seq(Nat) /\ Cat(Cat(Returning, queue), Owing) # <<>>
    BY <2>2, <2>4 DEF Cat
  <2>6. QED
    BY <2>2, <2>5, DueIsPlaces DEF Places, Cat
<1>4. Due \in Seq(Nat)
  <2>1. Returning \in Seq(Nat) /\ queue \in Seq(Nat) /\ Owing \in Seq(Nat) /\ Offered \in Seq(Nat)
    BY PlaceTypes DEF OrderInv, Kept
  <2>2. QED
    BY <2>1, DueIsPlaces DEF Places, Cat
<1>5. Scanned => Len(Due) < QueueDepth + 3
  BY RoomForOne DEF EdgeMoves, OrderInv
<1>6. d \in Nat
  <2>1. Request' \in Asked
    BY DEF Kept, Request, Asked, Ops
  <2>2. QED
    BY <2>1, AnswerType
<1>7. Tail(Due) \in Seq(Nat) \/ ~takenA
  BY <1>3
<1> HIDE DEF d
<1>8. CASE Scanned /\ Answered
  <2>1. Due' = Append(Tail(Due), d)
    BY <1>1, <1>2, <1>6, <1>7, <1>8, AppendIsCat
  <2>2. Service!PutAndTake(d)
    BY <1>2, <1>3, <1>5, <1>8, <2>1 DEF Service!PutAndTake
  <2>3. QED
    BY <1>8, <2>2 DEF ServiceStep, d
<1>9. CASE Scanned /\ ~Answered
  <2>1. Due' = Append(Due, d)
    BY <1>1, <1>2, <1>4, <1>6, <1>9, AppendIsCat
  <2>2. Service!Put(d)
    BY <1>5, <1>9, <2>1 DEF Service!Put
  <2>3. QED
    BY <1>9, <2>2 DEF ServiceStep, d
<1>10. CASE ~Scanned /\ Answered
  <2>1. Due' = Tail(Due)
    BY <1>1, <1>2, <1>7, <1>10, CatEmpty DEF Words
  <2>2. Service!Take
    BY <1>2, <1>3, <1>10, <2>1 DEF Service!Take
  <2>3. QED
    BY <1>10, <2>2 DEF ServiceStep
<1>11. CASE ~Scanned /\ ~Answered
  <2>1. Due' = Due
    BY <1>1, <1>2, <1>4, <1>11, CatEmpty DEF Words
  <2>2. QED
    BY <1>11, <2>1 DEF ServiceStep
<1>12. QED
  BY <1>8, <1>9, <1>10, <1>11

-----------------------------------------------------------------------------
(* Edges of the two sides.                                                 *)
LEMMA JtagSide ==
  ASSUME OrderInv, NEW ack, NEW resp, resp.data \in Nat, JtagEdge(ack, resp)
  PROVE  /\ state' \in States /\ address' \in Nat /\ scanned' \in Nat
         /\ reqSrc'.data \in Asked /\ respDst'.data \in Nat
         /\ Scanned => ~Offers /\ Offered' = <<Answer(Request')>>
         /\ ~Scanned => Offered' = IF Offers /\ Ready(reqSrc) THEN <<>> ELSE Offered
<1>1. Kept /\ Transport
  BY DEF OrderInv, JtagEdge
<1>2. reqSrc'.data \in Asked
  <2>1. Request \in Asked
    BY <1>1, RequestType
  <2>2. QED
    BY <1>1, <2>1 DEF JtagEdge, SrcEdge, ReqLine, Kept
<1>3. respDst'.data \in Nat
  BY <1>1 DEF JtagEdge, DstEdge, Kept
<1>4. QED
  BY <1>1, <1>2, <1>3, TransportMoves, OfferedMoves

LEMMA CoreSide ==
  ASSUME OrderInv, NEW req, NEW respAck, req.data \in Asked, CoreEdge(req, respAck)
  PROVE  /\ reqDst'.data \in Asked /\ respSrc'.data \in Nat
         /\ queue' \in Seq(Nat) /\ Len(queue') <= QueueDepth
         /\ queue' = (IF queue # <<>> /\ Ready(respSrc) THEN Tail(queue) ELSE queue)
                      \o (IF Valid(reqDst) /\ Room THEN <<Answer(reqDst.data)>> ELSE <<>>)
<1>1. Answer(reqDst.data) \in Nat
  BY AnswerType DEF OrderInv, Kept
<1>2. AnswerHead \in Nat
  BY DEF OrderInv, Kept, AnswerHead
<1>3. reqDst'.data \in Asked
  BY DEF OrderInv, Kept, CoreEdge, DstEdge
<1>4. respSrc'.data \in Nat
  BY <1>2 DEF OrderInv, Kept, CoreEdge, SrcEdge, ReqLine
<1> DEFINE kept == IF queue # <<>> /\ Ready(respSrc) THEN Tail(queue) ELSE queue
           new == IF Valid(reqDst) /\ Room THEN <<Answer(reqDst.data)>> ELSE <<>>
<1>5. queue' = kept \o new
  BY DEF CoreEdge, Queue, Pops, Pushed
<1>6. kept \in Seq(Nat) /\ Len(kept) <= Len(queue) /\ Len(queue) \in Nat
  BY DEF OrderInv, Kept
<1>7. new \in Seq(Nat) /\ Len(new) <= 1 /\ (Len(new) = 1 => Len(queue) < QueueDepth)
  BY <1>1 DEF Room
<1>8. Len(queue) <= QueueDepth
  BY DEF OrderInv, Kept
<1> HIDE DEF kept, new
<1>9. queue' \in Seq(Nat) /\ Len(queue') <= QueueDepth
  <2>1. kept \in Seq(Nat)
    BY <1>6
  <2>2. new \in Seq(Nat)
    BY <1>7
  <2>3. kept \o new \in Seq(Nat) /\ Len(kept \o new) = Len(kept) + Len(new)
    BY <2>1, <2>2
  <2>4. Len(kept) \in Nat /\ Len(new) \in Nat
    BY <2>1, <2>2
  <2>5. Len(kept) + Len(new) <= QueueDepth
    <3> DEFINE k == Len(kept)
               m == Len(new)
               l == Len(queue)
    <3>1. k \in Nat /\ m \in Nat /\ l \in Nat /\ QueueDepth \in Nat
      BY <1>6, <2>4, DmiAssumption
    <3>2. k <= l /\ l <= QueueDepth /\ m <= 1 /\ (m = 1 => l < QueueDepth)
      BY <1>6, <1>7, <1>8
    <3> HIDE DEF k, m, l
    <3>3. k + m <= QueueDepth
      BY <3>1, <3>2
    <3>4. QED
      BY <3>3 DEF k, m
  <2>6. QED
    BY <1>5, <2>3, <2>5
<1>10. QED
  BY <1>3, <1>4, <1>5, <1>9 DEF kept, new

(* The crossings' words that an edge may sample.                           *)
LEMMA LineTypes ==
  ASSUME OrderInv
  PROVE  /\ ReqBefore.data \in Asked /\ ReqAfter.data \in Asked
         /\ RespBefore.data \in Nat /\ RespAfter.data \in Nat
<1>1. Request \in Asked
  BY RequestType DEF OrderInv
<1>2. AnswerHead \in Nat
  BY DEF OrderInv, Kept, AnswerHead
<1>3. QED
  BY <1>1, <1>2 DEF OrderInv, Kept, ReqBefore, ReqAfter, RespBefore, RespAfter, ReqLine

LEMMA TckServes ==
  ASSUME OrderInv, Tck
  PROVE  Kept' /\ (resets = 0 => ServiceStep)
<1>1. /\ JtagEdge(reqDst.ack, RespBefore)
      /\ UNCHANGED <<reqDst, queue, respSrc>>
  BY DEF Tck
<1>2. RespBefore.data \in Nat
  BY LineTypes
<1>3. /\ state' \in States /\ address' \in Nat /\ scanned' \in Nat
      /\ reqSrc'.data \in Asked /\ respDst'.data \in Nat
      /\ Scanned => ~Offers /\ Offered' = <<Answer(Request')>>
      /\ ~Scanned => Offered' = IF Offers /\ Ready(reqSrc) THEN <<>> ELSE Offered
  BY <1>1, <1>2, JtagSide
<1>4. Kept'
  BY <1>1, <1>3 DEF OrderInv, Kept
<1>5. ASSUME resets = 0 PROVE ServiceStep
  <2> DEFINE sent == Offers /\ Ready(reqSrc)
             takenA == Valid(respDst)
  <2>1. Crossing(reqSrc, reqDst) /\ Crossing(respSrc, respDst)
    BY <1>5 DEF OrderInv, CrossingsInv
  <2>2. Offers \in BOOLEAN /\ sent \in BOOLEAN /\ takenA \in BOOLEAN
    BY DEF Offers, Ready, Valid
  <2>3. /\ reqSrc' = SrcEdge(reqSrc, Offers, Request, reqDst.ack)
        /\ respDst' = DstEdge(respDst, TRUE, RespBefore)
        /\ reqDst' = reqDst /\ respSrc' = respSrc
    BY <1>1 DEF JtagEdge
  <2>4. Moved(reqSrc, reqDst, reqSrc', reqDst', sent, FALSE, Request)
    BY <2>1, <2>2, <2>3, SourceMoves
  <2>5. Moved(respSrc, respDst, respSrc', respDst', FALSE, takenA, AnswerHead)
    <3>1. Moved(respSrc, respDst, respSrc, DstEdge(respDst, TRUE, RespBefore),
                FALSE, Valid(respDst) /\ TRUE, AnswerHead)
      BY <2>1, DestinationMoves DEF RespBefore
    <3>2. QED
      BY <2>3, <3>1 DEF Moved
  <2>6. Answered <=> takenA
    BY <2>1, <2>3, Acknowledges DEF Answered
  <2>7. queue' = queue \o <<>>
    BY <1>1 DEF OrderInv, Kept
  <2>8. EdgeMoves(sent, FALSE, FALSE, takenA)
    BY <1>3, <2>4, <2>5, <2>6, <2>7 DEF EdgeMoves
  <2> HIDE DEF sent, takenA
  <2>9. QED
    BY <1>4, <1>5, <2>2, <2>8, ServesDue
<1>6. QED
  BY <1>4, <1>5

LEMMA ClkServes ==
  ASSUME OrderInv, Clk
  PROVE  Kept' /\ (resets = 0 => ServiceStep)
<1>1. /\ CoreEdge(ReqBefore, respDst.ack)
      /\ UNCHANGED <<jtagVars, reqSrc, respDst>>
  BY DEF Clk
<1>2. ReqBefore.data \in Asked
  BY LineTypes
<1>3. /\ reqDst'.data \in Asked /\ respSrc'.data \in Nat
      /\ queue' \in Seq(Nat) /\ Len(queue') <= QueueDepth
      /\ queue' = (IF queue # <<>> /\ Ready(respSrc) THEN Tail(queue) ELSE queue)
                   \o (IF Valid(reqDst) /\ Room THEN <<Answer(reqDst.data)>> ELSE <<>>)
  BY <1>1, <1>2, CoreSide
<1>4. Kept'
  BY <1>1, <1>3 DEF OrderInv, Kept, jtagVars
<1>5. ASSUME resets = 0 PROVE ServiceStep
  <2> DEFINE taken == Valid(reqDst) /\ Room
             sentA == queue # <<>> /\ Ready(respSrc)
  <2>1. Crossing(reqSrc, reqDst) /\ Crossing(respSrc, respDst)
    BY <1>5 DEF OrderInv, CrossingsInv
  <2>2. Room \in BOOLEAN /\ (queue # <<>>) \in BOOLEAN /\ taken \in BOOLEAN /\ sentA \in BOOLEAN
    BY DEF Room, Ready, Valid
  <2>3. /\ reqDst' = DstEdge(reqDst, Room, ReqBefore)
        /\ respSrc' = SrcEdge(respSrc, queue # <<>>, AnswerHead, respDst.ack)
        /\ reqSrc' = reqSrc /\ respDst' = respDst
    BY <1>1 DEF CoreEdge
  <2>4. Moved(reqSrc, reqDst, reqSrc', reqDst', FALSE, taken, Request)
    BY <2>1, <2>2, <2>3, DestinationMoves DEF ReqBefore
  <2>5. Moved(respSrc, respDst, respSrc', respDst', sentA, FALSE, AnswerHead)
    BY <2>1, <2>2, <2>3, SourceMoves
  <2>6. ~Answered /\ ~Scanned /\ Offered' = Offered
    BY <1>1 DEF Answered, Scanned, Offered, Offers, Request, jtagVars
  <2>7. EdgeMoves(FALSE, taken, sentA, FALSE)
    BY <1>3, <2>4, <2>5, <2>6 DEF EdgeMoves
  <2> HIDE DEF taken, sentA
  <2>8. QED
    BY <1>4, <1>5, <2>2, <2>7, ServesDue
<1>6. QED
  BY <1>4, <1>5

LEMMA BothServe ==
  ASSUME OrderInv, Both
  PROVE  Kept' /\ (resets = 0 => ServiceStep)
<1>1. PICK ack \in {reqDst.ack, AckAfter}, resp \in {RespBefore, RespAfter} :
        JtagEdge(ack, resp)
  BY DEF Both
<1>2. PICK req \in {ReqBefore, ReqAfter}, respAck \in {respDst.ack, RespAckAfter} :
        CoreEdge(req, respAck)
  BY DEF Both
<1>3. resp.data \in Nat /\ req.data \in Asked
  BY LineTypes
<1>4. /\ state' \in States /\ address' \in Nat /\ scanned' \in Nat
      /\ reqSrc'.data \in Asked /\ respDst'.data \in Nat
      /\ Scanned => ~Offers /\ Offered' = <<Answer(Request')>>
      /\ ~Scanned => Offered' = IF Offers /\ Ready(reqSrc) THEN <<>> ELSE Offered
  BY <1>1, <1>3, JtagSide
<1>5. /\ reqDst'.data \in Asked /\ respSrc'.data \in Nat
      /\ queue' \in Seq(Nat) /\ Len(queue') <= QueueDepth
      /\ queue' = (IF queue # <<>> /\ Ready(respSrc) THEN Tail(queue) ELSE queue)
                   \o (IF Valid(reqDst) /\ Room THEN <<Answer(reqDst.data)>> ELSE <<>>)
  BY <1>2, <1>3, CoreSide
<1>6. Kept'
  BY <1>4, <1>5 DEF Kept
<1>7. ASSUME resets = 0 PROVE ServiceStep
  <2> DEFINE sent == Offers /\ Ready(reqSrc)
             taken == Valid(reqDst) /\ Room
             sentA == queue # <<>> /\ Ready(respSrc)
             takenA == Valid(respDst)
  <2>1. Crossing(reqSrc, reqDst) /\ Crossing(respSrc, respDst)
    BY <1>7 DEF OrderInv, CrossingsInv
  <2>2. /\ Offers \in BOOLEAN /\ Room \in BOOLEAN /\ (queue # <<>>) \in BOOLEAN
        /\ sent \in BOOLEAN /\ taken \in BOOLEAN /\ sentA \in BOOLEAN /\ takenA \in BOOLEAN
    BY DEF Offers, Room, Ready, Valid
  <2>3. /\ reqSrc' = SrcEdge(reqSrc, Offers, Request, ack)
        /\ respDst' = DstEdge(respDst, TRUE, resp)
        /\ reqDst' = DstEdge(reqDst, Room, req)
        /\ respSrc' = SrcEdge(respSrc, queue # <<>>, AnswerHead, respAck)
    BY <1>1, <1>2 DEF JtagEdge, CoreEdge
  <2>4. Moved(reqSrc, reqDst, reqSrc', reqDst', sent, taken, Request)
    <3>1. /\ ack \in {reqDst.ack, AckLine(reqDst, Room)}
          /\ req \in {[req |-> reqSrc.req, data |-> reqSrc.data], ReqLine(reqSrc, Offers, Request)}
      BY <1>1, <1>2 DEF AckAfter, ReqBefore, ReqAfter
    <3>2. Moved(reqSrc, reqDst, SrcEdge(reqSrc, Offers, Request, ack),
                DstEdge(reqDst, Room, req), sent, taken, Request)
      BY <2>1, <2>2, <3>1, BothMove
    <3>3. QED
      BY <2>3, <3>2, Zenon
  <2>5. Moved(respSrc, respDst, respSrc', respDst', sentA, takenA, AnswerHead)
    <3>1. /\ respAck \in {respDst.ack, AckLine(respDst, TRUE)}
          /\ resp \in {[req |-> respSrc.req, data |-> respSrc.data],
                       ReqLine(respSrc, queue # <<>>, AnswerHead)}
      BY <1>1, <1>2 DEF RespBefore, RespAfter, RespAckAfter
    <3>2. Moved(respSrc, respDst, SrcEdge(respSrc, queue # <<>>, AnswerHead, respAck),
                DstEdge(respDst, TRUE, resp), sentA, Valid(respDst) /\ TRUE, AnswerHead)
      BY <2>1, <2>2, <3>1, BothMove
    <3>3. Moved(respSrc, respDst, respSrc', respDst', sentA, Valid(respDst) /\ TRUE, AnswerHead)
      BY <2>3, <3>2, Zenon
    <3>4. QED
      BY <3>3 DEF Moved
  <2>6. Answered <=> takenA
    BY <2>1, <2>3, Acknowledges DEF Answered
  <2>7. EdgeMoves(sent, taken, sentA, takenA)
    BY <1>4, <1>5, <2>4, <2>5, <2>6 DEF EdgeMoves
  <2> HIDE DEF sent, taken, sentA, takenA
  <2>8. QED
    BY <1>6, <1>7, <2>2, <2>7, ServesDue
<1>8. QED
  BY <1>6, <1>7

(* A reset of the JTAG side, and the end of the order.                     *)
LEMMA TestResetKeeps ==
  ASSUME OrderInv, TestReset
  PROVE  Kept' /\ resets' # 0
<1>1. Kept'
  BY DEF OrderInv, Kept, TestReset, Trst, States, SrcReset, DstReset, Nop, Asked, Ops
<1>2. resets' # 0
  BY DEF OrderInv, CrossingsInv, TestReset
<1>3. QED
  BY <1>1, <1>2

LEMMA OrderStep == OrderInv /\ [Next]_vars => OrderInv' /\ [resets' = 0 => ServiceStep]_vars
<1> SUFFICES ASSUME OrderInv, [Next]_vars
             PROVE  OrderInv' /\ [resets' = 0 => ServiceStep]_vars
  OBVIOUS
<1>1. CrossingsInv'
  BY CrossingsKept DEF OrderInv
<1>2. CASE Tck
  BY <1>1, <1>2, TckServes DEF OrderInv, Tck
<1>3. CASE Clk
  BY <1>1, <1>3, ClkServes DEF OrderInv, Clk
<1>4. CASE Both
  BY <1>1, <1>4, BothServe DEF OrderInv, Both
<1>5. CASE TestReset
  BY <1>1, <1>5, TestResetKeeps DEF OrderInv
<1>6. CASE UNCHANGED vars
  BY <1>1, <1>6 DEF OrderInv, Kept, vars, jtagVars
<1>7. QED
  BY <1>2, <1>3, <1>4, <1>5, <1>6 DEF Next

LEMMA OrderInit == Init => OrderInv /\ Service!Init
<1> SUFFICES ASSUME Init PROVE OrderInv /\ Service!Init
  OBVIOUS
<1>1. CrossingsInv
  BY CrossingReset DEF Init, CrossingsInv
<1>2. Kept
  BY DmiAssumption DEF Init, Kept, States, SrcReset, DstReset, Nop, Asked, Ops
<1>3. Returning = <<>> /\ queue = <<>> /\ Owing = <<>> /\ Offered = <<>>
  BY DEF Init, Returning, Owing, Offered, Offers, SrcReset, DstReset
<1>4. Due = <<>>
  BY <1>3, DueIsPlaces, Empty, CatEmpty DEF Places
<1>5. QED
  BY <1>1, <1>2, <1>4 DEF OrderInv, Service!Init

(* For any number of accesses and any depth of the queue, the debugger's   *)
(* way to the debug module and back (dmi_jtag.sv, dmi_cdc.sv, dm_csrs.sv)  *)
(* is one queue until the JTAG side is reset alone: every access that is   *)
(* scanned in is served once, and the answers come back in order.          *)
THEOREM AnswersInOrder == Spec => AnsweredInOrder
<1>1. Spec => []OrderInv
  BY OrderInit, OrderStep, PTL DEF Spec
<1>2. Spec => [][resets' = 0 => ServiceStep]_vars
  BY <1>1, OrderStep, PTL DEF Spec
<1>3. Spec => Service!Init
  BY OrderInit DEF Spec
<1>4. QED
  BY <1>2, <1>3 DEF AnsweredInOrder

-----------------------------------------------------------------------------
(* The answer a read waits for is the last that is due.                    *)
Last(s) == s[Len(s)]
LastInv ==
  resets = 0 /\ state = "WaitReadValid"
    => Due \in Seq(Nat) /\ Due # <<>> /\ Last(Due) = address

LEMMA LastOfCat ==
  ASSUME NEW s \in Seq(Nat), NEW z \in Nat
  PROVE  /\ Cat(s, <<z>>) \in Seq(Nat) /\ Cat(s, <<z>>) # <<>>
         /\ Last(Cat(s, <<z>>)) = z
         /\ s # <<>> => /\ Tail(Cat(s, <<z>>)) \in Seq(Nat)
                        /\ Tail(Cat(s, <<z>>)) # <<>>
                        /\ Last(Tail(Cat(s, <<z>>))) = z
<1> DEFINE w == Append(s, z)
<1>1. Cat(s, <<z>>) = w
  BY AppendIsCat
<1>2. Len(s) \in Nat /\ w \in Seq(Nat) /\ Len(w) = Len(s) + 1 /\ w[Len(s) + 1] = z
  OBVIOUS
<1> HIDE DEF w
<1>3. w # <<>> /\ Last(w) = z
  BY <1>2 DEF Last
<1>4. ASSUME s # <<>>
      PROVE  Tail(w) \in Seq(Nat) /\ Tail(w) # <<>> /\ Last(Tail(w)) = z
  <2>1. Len(s) >= 1
    BY <1>2, <1>4
  <2> DEFINE t == Tail(w)
  <2>2. t \in Seq(Nat) /\ Len(t) = Len(s)
    BY <1>2, <1>3
  <2>3. t[Len(s)] = z
    BY <1>2, <1>3, <2>1
  <2> HIDE DEF t
  <2>4. t # <<>>
    BY <2>1, <2>2
  <2>5. t \in Seq(Nat) /\ t # <<>> /\ Last(t) = z
    BY <2>2, <2>3, <2>4 DEF Last
  <2>6. QED
    BY <2>5 DEF t
<1>5. QED
  BY <1>1, <1>2, <1>3, <1>4

(* The steps that matter here: edges of the JTAG clock before a reset.  At *)
(* one, an answer is taken exactly when one is there.                      *)
LEMMA JtagAnswers ==
  ASSUME OrderInv, [Next]_vars, resets' = 0
  PROVE  /\ resets = 0
         /\ \/ Transport /\ (Answered <=> Valid(respDst))
            \/ UNCHANGED <<state, address, data, scanned, respDst>>
<1>1. resets = 0 /\ ~TestReset
  BY DEF OrderInv, CrossingsInv, TestReset, Next, Tck, Clk, Both, vars
<1>2. Crossing(respSrc, respDst)
  BY <1>1 DEF OrderInv, CrossingsInv
<1>3. ASSUME NEW ack, NEW resp, JtagEdge(ack, resp)
      PROVE  Transport /\ (Answered <=> Valid(respDst))
  BY <1>2, <1>3, Acknowledges DEF JtagEdge, Answered
<1>4. CASE Tck
  BY <1>1, <1>3, <1>4 DEF Tck
<1>5. CASE Clk
  BY <1>1, <1>5 DEF Clk, jtagVars
<1>6. CASE Both
  BY <1>1, <1>3, <1>6 DEF Both
<1>7. CASE UNCHANGED vars
  BY <1>1, <1>7 DEF vars, jtagVars
<1>8. QED
  BY <1>1, <1>4, <1>5, <1>6, <1>7 DEF Next

(* A read that is offered has its answer behind all that are due, also     *)
(* when the one at the front is taken.                                     *)
LEMMA ReadIsLast ==
  ASSUME OrderInv, resets = 0, state = "Read"
  PROVE  /\ Due \in Seq(Nat) /\ Due # <<>> /\ Last(Due) = address
         /\ Valid(respDst) => /\ Tail(Due) \in Seq(Nat) /\ Tail(Due) # <<>>
                              /\ Last(Tail(Due)) = address
<1> DEFINE a == Returning
           way == Cat(Cat(a, queue), Owing)
<1>1. a \in Seq(Nat) /\ queue \in Seq(Nat) /\ Owing \in Seq(Nat) /\ address \in Nat
  BY PlaceTypes DEF OrderInv, Kept
<1>2. Valid(respDst) => a # <<>>
  BY Handshakes DEF OrderInv, CrossingsInv, Returning
<1>3. Offered = <<address>>
  BY DEF Offered, Offers, Answer, Request
<1> HIDE DEF a
<1>4. Cat(a, queue) \in Seq(Nat) /\ (a # <<>> => Cat(a, queue) # <<>>)
  BY <1>1 DEF Cat
<1>5. way \in Seq(Nat) /\ (a # <<>> => way # <<>>)
  BY <1>1, <1>4 DEF Cat
<1>6. Due = Cat(way, <<address>>)
  BY <1>3, DueIsPlaces DEF Places, a
<1> HIDE DEF way
<1>7. QED
  BY <1>1, <1>2, <1>5, <1>6, LastOfCat

LEMMA DueSame ==
  ASSUME UNCHANGED vars
  PROVE  Due' = Due
BY DEF vars, jtagVars, Due, InFlight, Offers, Request, Answer, Valid

LEMMA LastStep == OrderInv /\ LastInv /\ [Next]_vars => LastInv'
<1> SUFFICES ASSUME OrderInv, LastInv, [Next]_vars, resets' = 0, state' = "WaitReadValid"
             PROVE  Due' \in Seq(Nat) /\ Due' # <<>> /\ Last(Due') = address'
  BY DEF LastInv, Last
<1>1. resets = 0 /\ (ServiceStep \/ UNCHANGED vars)
  BY JtagAnswers, OrderStep
<1>2. CASE Transport /\ (Answered <=> Valid(respDst))
  <2>1. /\ ~Scanned /\ address' = address
        /\ state = "Read" \/ (state = "WaitReadValid" /\ ~Valid(respDst))
    <3>1. ~Accept
      BY DEF Accept, Accepts, Ops
    <3>2. CASE Offer
      BY <3>2 DEF Offer, Offers, Scanned
    <3>3. CASE Await
      BY <3>3 DEF Await, Scanned
    <3>4. QED
      BY <1>2, <3>1, <3>2, <3>3 DEF Transport, Rest
  <2>2. Due' = IF Answered THEN Tail(Due) ELSE Due
    <3>1. CASE ServiceStep
      BY <2>1, <3>1 DEF ServiceStep, Service!Take
    <3>2. CASE UNCHANGED vars
      BY <3>2, DueSame DEF vars, Answered
    <3>3. QED
      BY <1>1, <3>1, <3>2
  <2>3. CASE state = "Read"
    <3>1. CASE Answered
      <4>1. Due' = Tail(Due) /\ Valid(respDst)
        BY <1>2, <2>2, <3>1
      <4>2. Last(Tail(Due)) = address'
        BY <1>1, <2>1, <2>3, <4>1, ReadIsLast
      <4>3. QED
        BY <1>1, <2>3, <4>1, <4>2, ReadIsLast DEF Last
    <3>2. CASE ~Answered
      <4>1. Due' = Due
        BY <2>2, <3>2
      <4>2. QED
        BY <1>1, <2>1, <2>3, <4>1, ReadIsLast DEF Last
    <3>3. QED
      BY <3>1, <3>2
  <2>4. CASE state = "WaitReadValid" /\ ~Valid(respDst)
    BY <1>1, <1>2, <2>1, <2>2, <2>4 DEF LastInv
  <2>5. QED
    BY <2>1, <2>3, <2>4
<1>3. CASE UNCHANGED <<state, address, data, scanned, respDst>>
  <2>1. ~Scanned /\ ~Answered
    BY <1>3 DEF Scanned, Answered
  <2>2. Due' = Due
    BY <1>1, <2>1, DueSame DEF ServiceStep
  <2>3. QED
    BY <1>1, <1>3, <2>2 DEF LastInv
<1>4. QED
  BY <1>2, <1>3, JtagAnswers

(* The step that brings a word into the data register: it is the one at    *)
(* the front of what is due.                                               *)
LEMMA LastIsTaken ==
  OrderInv /\ LastInv /\ [Next]_vars
    => [(resets' = 0 /\ Len(Due) = 1 /\ data' # data /\ data' # Nothing) => data' = address']_vars
<1> SUFFICES ASSUME OrderInv, LastInv, [Next]_vars,
                    resets' = 0, Len(Due) = 1, data' # data, data' # Nothing
             PROVE  data' = address'
  OBVIOUS
<1>1. resets = 0 /\ Transport
  BY JtagAnswers
<1>2. state = "WaitReadValid" /\ Valid(respDst) /\ data' = respDst.data /\ address' = address
  BY <1>1 DEF Transport, Accept, Rest, Offer, Await
<1>3. Due \in Seq(Nat) /\ Last(Due) = address
  BY <1>1, <1>2 DEF LastInv
<1>4. Returning = <<respDst.data>> /\ respDst.data \in Nat
  BY <1>1, <1>2, Handshakes DEF OrderInv, CrossingsInv, Kept, Returning, Word
<1>5. Due[1] = respDst.data
  <2> DEFINE f == Cat(Returning, queue)
             g == Cat(f, Owing)
  <2>1. queue \in Seq(Nat) /\ Owing \in Seq(Nat) /\ Offered \in Seq(Nat)
    BY PlaceTypes DEF OrderInv, Kept
  <2>2. f \in Seq(Nat) /\ f # <<>> /\ f[1] = respDst.data
    BY <1>4, <2>1 DEF Cat
  <2>3. Due = Cat(g, Offered)
    BY DueIsPlaces DEF Places
  <2> HIDE DEF f
  <2>4. g \in Seq(Nat) /\ g # <<>> /\ g[1] = respDst.data
    BY <2>1, <2>2 DEF Cat
  <2> HIDE DEF g
  <2>5. QED
    BY <2>1, <2>3, <2>4 DEF Cat
<1>6. QED
  BY <1>2, <1>3, <1>5 DEF Last

(* A read whose answer is the only one due takes the word at the address   *)
(* it asked for, over both crossings and the queue, for any number of      *)
(* accesses and any depth of the queue.                                    *)
THEOREM ReadsAnswered == Spec => ReadAnswered
<1>1. Init => LastInv
  BY DEF Init, LastInv
<1>2. Spec => [](OrderInv /\ LastInv)
  BY <1>1, OrderInit, OrderStep, LastStep, PTL DEF Spec
<1>3. QED
  BY <1>2, LastIsTaken, PTL DEF Spec, ReadAnswered

-----------------------------------------------------------------------------
(* The error bit between a refused scan and the debugger's clearing it.    *)
GapInv == error \in {"DMINoError", "DMIBusy"} /\ (gap => error = "DMIBusy")

LEMMA GapStep ==
  GapInv /\ [Next]_vars => GapInv' /\ [gap => ~Scanned]_vars
<1> SUFFICES ASSUME GapInv, [Next]_vars PROVE GapInv' /\ (gap => ~Scanned)
  OBVIOUS
<1>1. ASSUME NEW ack, NEW resp, JtagEdge(ack, resp)
      PROVE  GapInv' /\ (gap => ~Scanned)
  <2>1. Error /\ Transport
    BY <1>1 DEF JtagEdge
  <2>2. GapInv'
    BY <2>1 DEF Error, GapInv, Refuses, Accepts, Busy
  <2>3. gap => ~Scanned
    BY <2>1 DEF GapInv, Transport, Accept, Accepts, Rest, Offer, Await, Scanned
  <2>4. QED
    BY <2>2, <2>3
<1>2. CASE Tck
  BY <1>1, <1>2 DEF Tck
<1>3. CASE Clk
  BY <1>3 DEF Clk, jtagVars, GapInv, Scanned
<1>4. CASE Both
  BY <1>1, <1>4 DEF Both
<1>5. CASE TestReset
  BY <1>5 DEF TestReset, Trst, GapInv, Scanned
<1>6. CASE UNCHANGED vars
  BY <1>6 DEF vars, jtagVars, GapInv, Scanned
<1>7. QED
  BY <1>2, <1>3, <1>4, <1>5, <1>6 DEF Next

(* dmi_jtag.sv makes no access after one it refused until the debugger has *)
(* cleared the error that reports it, or reset the TAP.                    *)
THEOREM RefusalsReported == Spec => NothingAfterRefusal
<1>1. Init => GapInv
  BY DEF Init, GapInv
<1>2. Spec => []GapInv
  BY <1>1, GapStep, PTL DEF Spec
<1>3. GapInv => (gap => error = "DMIBusy")
  BY DEF GapInv
<1>4. QED
  BY <1>2, <1>3, GapStep, PTL DEF Spec, NothingAfterRefusal
=============================================================================
