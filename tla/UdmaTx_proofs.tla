--------------------------- MODULE UdmaTx_proofs ---------------------------
(***************************************************************************)
(* What holds of the transmit side for every number of channels, every     *)
(* depth of the buffers and every set of targets: answers find their read, *)
(* and a word on its way has room in the buffer it is meant for.           *)
(***************************************************************************)
EXTENDS UdmaTx, FiniteSetTheorems, FunctionTheorems, SequenceTheorems, TLAPS

(* The ranges of the registers of the channels.                            *)
Gen == [en : BOOLEAN, counter : Int, address : Nat, pending : BOOLEAN, event : BOOLEAN]
ChannelType == cfg \in [Channel -> Config] /\ ag \in [Channel -> Gen]

(* What software writes at an edge: a legal configuration, a new one only  *)
(* with a transfer; and in the documented use a transfer behind none that  *)
(* waits, and a clear alone and not of a channel with a queued transfer.   *)
Legal(cmd, set) ==
  /\ set \in [Channel -> Config]
  /\ \A c \in Channel :
       /\ cmd[c].en \in BOOLEAN /\ cmd[c].clr \in BOOLEAN
       /\ cmd[c].en => set[c] \in Jobs[c]
       /\ ~cmd[c].en => /\ set[c].start = cfg[c].start /\ set[c].size = cfg[c].size
                        /\ set[c].continuous => cfg[c].continuous
       /\ Liberties = {} => /\ cmd[c].en => ~ag[c].pending
                            /\ cmd[c].clr => ~cmd[c].en /\ ~ag[c].pending

(* Every step of the system is an edge of the clock.                       *)
LEMMA NextIsEdge ==
  ASSUME Next, ChannelType
  PROVE  \E cmd, set : Edge(cmd, set) /\ Legal(cmd, set)
<1>1. CASE Run
  <2>1. Legal(Silent, cfg)
    BY DEF ChannelType, Legal, Silent, Quiet
  <2> QED
    BY <1>1, <2>1 DEF Run
<1>2. ASSUME NEW c \in Channel, Enqueue(c)
      PROVE  \E cmd, set : Edge(cmd, set) /\ Legal(cmd, set)
  <2>1. PICK j \in Jobs[c], clr \in BOOLEAN :
          /\ Liberties = {} => ~clr
          /\ Edge(Say(c, TRUE, clr), [cfg EXCEPT ![c] = j])
    BY <1>2 DEF Enqueue
  <2>2. j \in Config
    BY <2>1, TxAssumption
  <2>3. Legal(Say(c, TRUE, clr), [cfg EXCEPT ![c] = j])
    BY <1>2, <2>1, <2>2 DEF ChannelType, Legal, Say, Quiet, Enqueue
  <2> QED
    BY <2>1, <2>3
<1>3. ASSUME NEW c \in Channel, Clear(c)
      PROVE  \E cmd, set : Edge(cmd, set) /\ Legal(cmd, set)
  <2>1. Legal(Say(c, FALSE, TRUE), cfg)
    BY <1>3 DEF ChannelType, Legal, Say, Quiet, Clear
  <2> QED
    BY <1>3, <2>1 DEF Clear
<1>4. ASSUME NEW c \in Channel, EndContinuous(c)
      PROVE  \E cmd, set : Edge(cmd, set) /\ Legal(cmd, set)
  <2>1. Legal(Silent, [cfg EXCEPT ![c].continuous = FALSE])
    BY DEF ChannelType, Legal, Silent, Quiet, Config
  <2> QED
    BY <1>4, <2>1 DEF EndContinuous
<1> QED
  BY <1>1, <1>2, <1>3, <1>4 DEF Next

(* A generator's registers keep their ranges.                              *)
LEMMA GenTyped ==
  ASSUME NEW g \in Gen, NEW in,
         in.start \in Nat, in.size \in Nat, in.bytes \in Nat
  PROVE  AddrgenNext(g, in) \in Gen /\ Registers(g, in) \in Gen
<1>1. Registers(g, in) \in Gen
  <2>1. \A e \in BOOLEAN : Load(g, in, e) \in Gen /\ Stop(g, e) \in Gen
    BY DEF Gen, Load, Stop, Regs
  <2>2. g.counter - in.bytes \in Int /\ g.address + in.bytes \in Nat
    BY DEF Gen
  <2>3. Advance(g, in) \in Gen
    BY <2>2 DEF Gen, Advance, Regs
  <2>4. [g EXCEPT !.event = FALSE] \in Gen
    BY DEF Gen
  <2> QED
    BY <2>1, <2>3, <2>4 DEF Registers
<1>2. Pending(g, in) \in BOOLEAN
  BY DEF Gen, Pending
<1> QED
  BY <1>1, <1>2 DEF Gen, AddrgenNext

(* The inputs of a generator.                                              *)
LEMMA InputsTyped ==
  ASSUME NEW c \in Channel, NEW cmd, NEW set, Legal(cmd, set)
  PROVE  /\ Inputs(c, cmd, set).start \in Nat
         /\ Inputs(c, cmd, set).size \in Nat
         /\ Inputs(c, cmd, set).bytes \in Nat
         /\ Inputs(c, cmd, set).en = cmd[c].en
         /\ Inputs(c, cmd, set).clr = cmd[c].clr
<1>1. set[c] \in Config /\ Bytes[c] \in Nat
  BY TxAssumption DEF Legal
<1> QED
  BY <1>1 DEF Inputs, Config

LEMMA EdgeKeepsChannelType ==
  ASSUME ChannelType, NEW cmd, NEW set, Edge(cmd, set), Legal(cmd, set)
  PROVE  ChannelType'
<1>1. cfg' = set /\ ag' = [c \in Channel |-> AddrgenNext(ag[c], Inputs(c, cmd, set))]
  BY DEF Edge, Generators
<1>2. \A c \in Channel : AddrgenNext(ag[c], Inputs(c, cmd, set)) \in Gen
  BY GenTyped, InputsTyped DEF ChannelType
<1> QED
  BY <1>1, <1>2 DEF ChannelType, Legal

-----------------------------------------------------------------------------
(* One edge keeps the targets' debts in line with the demultiplexer.       *)
LEMMA PortKeepsOneRead ==
  ASSUME OneRead, NEW grants, NEW answers, Port(grants, answers)
  PROVE  OneRead'
<1> SUFFICES ASSUME NEW t \in Target, owed'[t] # NoRead
             PROVE  demux'.pending /\ demux'.active = t
  BY DEF OneRead
<1> DEFINE gnt == L2Gnt(grants, answers)
<1>1. owed'[t] = IF gnt /\ t = L2Sel THEN L2Word
                 ELSE IF t \in answers THEN NoRead ELSE owed[t]
  BY DEF Port, PortEdge
<1>2. demux' = DemuxNext(demux, L2Req, L2Sel, grants, answers)
  BY DEF Port, PortEdge
<1>3. CASE gnt /\ t = L2Sel
  <2>1. Asks(demux, L2Req, answers)
    BY <1>3 DEF L2Gnt, Gnt, Asks
  <2> QED
    BY <1>2, <1>3, <2>1 DEF L2Gnt, DemuxNext
<1>4. CASE ~(gnt /\ t = L2Sel)
  <2>1. t \notin answers /\ demux.pending /\ demux.active = t
    BY <1>1, <1>4 DEF OneRead
  <2>2. ~RValid(demux, answers)
    BY <2>1 DEF RValid
  <2>3. ~Asks(demux, L2Req, answers)
    BY <2>1, <2>2 DEF Asks
  <2> QED
    BY <1>2, <2>1, <2>2, <2>3 DEF DemuxNext
<1> QED
  BY <1>3, <1>4

(* Answers go to the read they belong to, whatever the targets' latencies: *)
(* at most one target of the demultiplexer owes an answer, the active one. *)
THEOREM SingleRead == Spec => []OneRead
<1>1. Init => OneRead
  BY DEF Init, OneRead
<1>2. OneRead /\ [Next]_vars => OneRead'
  <2> SUFFICES ASSUME OneRead, [Next]_vars PROVE OneRead'
    OBVIOUS
  <2>1. CASE Next
    <3>1. PICK cmd, set : Edge(cmd, set)
      BY <2>1 DEF Next, Run, Enqueue, Clear, EndContinuous
    <3> QED
      BY <3>1, PortKeepsOneRead DEF Edge
  <2>2. CASE UNCHANGED vars
    BY <2>2 DEF vars, port, OneRead
  <2> QED
    BY <2>1, <2>2
<1> QED
  BY <1>1, <1>2, PTL DEF Spec

-----------------------------------------------------------------------------
(* The ranges of the channels' registers.                                  *)
LEMMA ChannelTypeCorrect == Spec => []ChannelType
<1>1. Init => ChannelType
  BY DEF Init, ChannelType, Config, Gen, Reset
<1>2. ChannelType /\ [Next]_vars => ChannelType'
  <2>1. CASE UNCHANGED vars
    BY <2>1 DEF vars, ChannelType
  <2>2. ChannelType /\ Next => ChannelType'
    BY NextIsEdge, EdgeKeepsChannelType
  <2> QED
    BY <2>1, <2>2 DEF vars, ChannelType
<1> QED
  BY <1>1, <1>2, PTL DEF Spec

(* Without a clear of a channel that has a queued transfer, the generator  *)
(* never shows a transfer waiting for none: what run udma_clear refutes of *)
(* the code as a whole.                                                    *)
THEOREM PendingBehindRunning ==
  ASSUME Liberties = {}
  PROVE  Spec => []PendingWaits
<1>1. Init => PendingWaits
  BY DEF Init, PendingWaits, Reset
<1>2. ChannelType /\ PendingWaits /\ [Next]_vars => PendingWaits'
  <2> SUFFICES ASSUME ChannelType, PendingWaits, [Next]_vars
               PROVE  PendingWaits'
    OBVIOUS
  <2>1. CASE UNCHANGED vars
    BY <2>1 DEF vars, PendingWaits
  <2>2. CASE Next
    <3> SUFFICES ASSUME NEW c \in Channel, ag'[c].pending PROVE ag'[c].en
      BY DEF PendingWaits
    <3>1. PICK cmd, set : Edge(cmd, set) /\ Legal(cmd, set)
      BY <2>2, NextIsEdge
    <3> DEFINE in == Inputs(c, cmd, set)
               g == ag[c]
    <3>2. ag'[c] = AddrgenNext(g, in)
      BY <3>1 DEF Edge, Generators
    <3>3. g \in Gen /\ Registers(g, in) \in Gen
      BY <3>1, InputsTyped, GenTyped DEF ChannelType
    <3>4. ag'[c].pending = Pending(g, in) /\ ag'[c].en = Registers(g, in).en
      BY <3>2, <3>3 DEF AddrgenNext, Gen
    <3>5. g.pending => g.en
      BY DEF PendingWaits
    <3>6. in.clr => ~in.en /\ ~g.pending
      BY <3>1, InputsTyped DEF Legal
    <3> HIDE DEF in, g
    <3>7. ~LastBeat(g, in) /\ g.en /\ ~in.clr
      BY <3>4, <3>5, <3>6 DEF Pending
    <3> QED
      BY <3>3, <3>4, <3>7 DEF Registers, Starts, LastBeat, Advance, Regs, Gen
  <2> QED
    BY <2>1, <2>2
<1> QED
  BY <1>1, <1>2, ChannelTypeCorrect, PTL DEF Spec

-----------------------------------------------------------------------------
(* Counting the reads of a channel in a queue.                             *)
Read == [ch : Channel, addr : Nat]
At(q, c) == {i \in 1 .. Len(q) : q[i].ch = c}
One(p) == IF p THEN 1 ELSE 0

LEMMA AtFinite ==
  ASSUME NEW q \in Seq(Read), NEW c
  PROVE  IsFiniteSet(At(q, c)) /\ Cardinality(At(q, c)) \in Nat
<1>1. IsFiniteSet(1 .. Len(q))
  BY FS_Interval
<1>2. At(q, c) \subseteq 1 .. Len(q)
  BY DEF At
<1> QED
  BY <1>1, <1>2, FS_Subset, FS_CardinalityType

LEMMA CountPush ==
  ASSUME NEW q \in Seq(Read), NEW r \in Read, NEW c
  PROVE  /\ q \o <<r>> \in Seq(Read)
         /\ Cardinality(At(q \o <<r>>, c)) = Cardinality(At(q, c)) + One(r.ch = c)
<1> DEFINE n == Len(q) + 1
           p == q \o <<r>>
<1>1. p \in Seq(Read) /\ Len(p) = n /\ p[n] = r /\ n \in Nat
  OBVIOUS
<1>2. \A i \in 1 .. Len(q) : p[i] = q[i]
  OBVIOUS
<1> HIDE DEF p
<1>3. CASE r.ch = c
  <2>1. At(p, c) = At(q, c) \cup {n} /\ n \notin At(q, c)
    BY <1>1, <1>2, <1>3 DEF At
  <2> QED
    BY <1>1, <1>3, <2>1, AtFinite, FS_AddElement DEF One, p
<1>4. CASE r.ch # c
  <2>1. At(p, c) = At(q, c)
    BY <1>1, <1>2, <1>4 DEF At
  <2> QED
    BY <1>1, <1>4, <2>1, AtFinite DEF One, p
<1> QED
  BY <1>3, <1>4

LEMMA CountPop ==
  ASSUME NEW q \in Seq(Read), q # <<>>, NEW c
  PROVE  /\ Tail(q) \in Seq(Read)
         /\ Cardinality(At(q, c)) = Cardinality(At(Tail(q), c)) + One(q[1].ch = c)
<1> DEFINE t == Tail(q)
           later == At(q, c) \ {1}
           shift == [i \in At(t, c) |-> i + 1]
<1>1. t \in Seq(Read) /\ Len(q) \in Nat /\ Len(q) >= 1 /\ Len(t) = Len(q) - 1
  OBVIOUS
<1>2. \A i \in 1 .. Len(t) : t[i] = q[i + 1]
  OBVIOUS
<1> HIDE DEF t
<1>3. \A i \in At(t, c) : i + 1 \in later
  BY <1>1, <1>2 DEF At
<1>4. \A j \in later : j - 1 \in At(t, c) /\ j = (j - 1) + 1
  BY <1>1, <1>2 DEF At
<1>5. shift \in Bijection(At(t, c), later)
  <2>1. shift \in [At(t, c) -> later]
    BY <1>3
  <2>2. \A i, j \in At(t, c) : shift[i] = shift[j] => i = j
    BY DEF At
  <2>3. \A j \in later : \E i \in At(t, c) : shift[i] = j
    BY <1>4
  <2> HIDE DEF shift, later
  <2>4. shift \in Injection(At(t, c), later)
    BY <2>1, <2>2, Fun_IsInj
  <2>5. shift \in Surjection(At(t, c), later)
    BY <2>1, <2>3, Fun_IsSurj
  <2> QED
    BY <2>4, <2>5 DEF Bijection
<1>6. Cardinality(later) = Cardinality(At(t, c)) /\ IsFiniteSet(later)
  BY <1>1, <1>5, AtFinite, FS_Bijection DEF ExistsBijection
<1>7. CASE q[1].ch = c
  <2>1. At(q, c) = later \cup {1} /\ 1 \notin later
    BY <1>1, <1>7 DEF At
  <2> HIDE DEF later
  <2>2. Cardinality(At(q, c)) = Cardinality(later) + 1
    BY <1>6, <2>1, FS_AddElement
  <2> QED
    BY <1>1, <1>6, <1>7, <2>2 DEF One, t
<1>8. CASE q[1].ch # c
  <2>1. At(q, c) = later
    BY <1>8 DEF At
  <2> HIDE DEF later
  <2> QED
    BY <1>1, <1>6, <1>8, <2>1, AtFinite DEF One, t
<1> QED
  BY <1>7, <1>8

-----------------------------------------------------------------------------
(* The ranges of the registers that lead a read to L2 and its word back.   *)
(* A split read stays first in the queue until its second half is granted. *)
PortInv ==
  /\ queue \in Seq(Read) /\ rGrant \in 0 .. N /\ rResp \in Read /\ rDly \in Channel
  /\ na \in BOOLEAN /\ rValid \in BOOLEAN /\ demux.pending \in BOOLEAN
  /\ na => queue # <<>> /\ rResp.ch = First.ch

Buffer == [elements : Nat, inflight : Nat]
CreditInv ==
  /\ ChannelType /\ PortInv
  /\ fifo \in [Channel -> Buffer]
  /\ Credits

(* What an edge does to the queue of reads.                                *)
LEMMA QueueEdge ==
  ASSUME ChannelType, PortInv, NEW grants, NEW answers, PortEdge(grants, answers)
  PROVE  LET popped == Popped(grants, answers) IN
         /\ queue' \in Seq(Read)
         /\ popped => queue # <<>>
         /\ queue # <<>> /\ ~popped => queue' # <<>> /\ queue'[1] = First
         /\ \A c \in Channel :
              Queued(c) + One(Sample /\ rGrant = c) =
              Queued(c)' + One(popped /\ First.ch = c)
         /\ \A c \in Channel : Queued(c) \in Nat /\ Queued(c)' \in Nat
<1> DEFINE popped == Popped(grants, answers)
           rest == IF popped THEN Tail(queue) ELSE queue
           r == [ch |-> rGrant, addr |-> ag[rGrant].address]
<1>1. queue \in Seq(Read) /\ queue' = rest \o Pushes
  BY DEF PortInv, PortEdge
<1>2. popped => queue # <<>>
  BY DEF Popped, L2Gnt, Gnt, L2Req
<1>3. /\ rest \in Seq(Read)
      /\ \A c \in Channel : Cardinality(At(queue, c)) =
           Cardinality(At(rest, c)) + One(popped /\ First.ch = c)
      /\ \A c \in Channel : Cardinality(At(rest, c)) \in Nat
  <2>1. CASE popped
    BY <1>1, <1>2, <2>1, CountPop, AtFinite DEF First, One
  <2>2. CASE ~popped
    BY <1>1, <2>2, AtFinite DEF One
  <2> QED
    BY <2>1, <2>2
<1>4. \/ Pushes = <<>> /\ \A c \in Channel : ~(Sample /\ rGrant = c)
      \/ Pushes = <<r>> /\ r \in Read /\ Sample
  <2>1. rGrant # None => rGrant \in Channel
    BY TxAssumption DEF PortInv, None, Channel
  <2>2. rGrant # None => r \in Read
    BY <2>1 DEF ChannelType, Gen, Read
  <2>3. None \notin Channel
    BY TxAssumption DEF None, Channel
  <2> QED
    BY <2>2, <2>3 DEF Pushes
<1> HIDE DEF rest, popped, r
<1>5. queue' \in Seq(Read)
  <2>1. CASE Pushes = <<>>
    BY <1>1, <1>3, <2>1
  <2>2. CASE Pushes = <<r>> /\ r \in Read
    BY <1>1, <1>3, <2>2, CountPush
  <2> QED
    BY <1>4, <2>1, <2>2
<1>6. \A c \in Channel :
        /\ Cardinality(At(queue', c)) = Cardinality(At(rest, c)) + One(Sample /\ rGrant = c)
        /\ Cardinality(At(queue', c)) \in Nat
  <2> TAKE c \in Channel
  <2>1. CASE Pushes = <<>> /\ ~(Sample /\ rGrant = c)
    <3>1. queue' = rest
      BY <1>1, <1>3, <2>1
    <3> QED
      BY <1>3, <2>1, <3>1 DEF One
  <2>2. CASE Pushes = <<r>> /\ r \in Read /\ Sample
    <3>1. Cardinality(At(queue', c)) = Cardinality(At(rest, c)) + One(r.ch = c)
      BY <1>1, <1>3, <2>2, CountPush
    <3>2. r.ch = rGrant
      BY DEF r
    <3> QED
      BY <1>5, <2>2, <3>1, <3>2, AtFinite
  <2> QED
    BY <1>4, <2>1, <2>2
<1>7. \A c \in Channel : /\ Queued(c) = Cardinality(At(queue, c))
                          /\ Queued(c)' = Cardinality(At(queue', c))
  BY DEF Queued, At
<1>8. queue # <<>> /\ ~popped => queue' # <<>> /\ queue'[1] = First
  <2> SUFFICES ASSUME queue # <<>>, ~popped
               PROVE  queue' # <<>> /\ queue'[1] = First
    OBVIOUS
  <2>1. queue' = queue \o Pushes
    BY <1>1 DEF rest
  <2>2. CASE Pushes = <<>>
    BY <1>1, <2>1, <2>2 DEF First
  <2>3. CASE Pushes = <<r>>
    BY <1>1, <2>1, <2>3 DEF First
  <2> QED
    BY <1>4, <2>2, <2>3
<1>9. \A c \in Channel : Queued(c) \in Nat
  BY <1>1, <1>7, AtFinite
<1>10. \A p : One(p) \in Nat
  BY DEF One
<1>11. \A c \in Channel : Queued(c) + One(Sample /\ rGrant = c) =
                           Queued(c)' + One(popped /\ First.ch = c)
  BY <1>3, <1>6, <1>7, <1>10
<1> QED
  BY <1>2, <1>5, <1>6, <1>7, <1>8, <1>9, <1>11 DEF popped

(* What an edge does to the rest of the way: the word a read waits for     *)
(* comes to the door, and the read that leaves the queue is waited for.    *)
LEMMA WayEdge ==
  ASSUME ChannelType, PortInv, NEW grants, NEW answers, PortEdge(grants, answers)
  PROVE  LET popped == Popped(grants, answers) IN
         /\ rResp' \in Read /\ na' \in BOOLEAN /\ rValid' \in BOOLEAN
         /\ demux'.pending \in BOOLEAN
         /\ na' => queue # <<>> /\ ~popped /\ rResp'.ch = First.ch
         /\ \A c \in Channel :
              One(Awaited(c)) + One(popped /\ First.ch = c) =
              One(Awaited(c)') + One(Valid(c)')
<1> DEFINE gnt == L2Gnt(grants, answers)
           arrives == RValid(demux, answers)
           split == Split(First)
           popped == Popped(grants, answers)
<1>1. /\ na' = IF na THEN ~gnt ELSE gnt /\ split
      /\ rResp' = IF gnt /\ ~na THEN First ELSE rResp
      /\ rDly' = rResp.ch
      /\ rValid' = (arrives /\ ~na)
      /\ demux' = DemuxNext(demux, L2Req, L2Sel, grants, answers)
  BY DEF PortEdge
<1>2. /\ demux'.pending = (gnt \/ (demux.pending /\ ~arrives))
      /\ popped = (gnt /\ (na \/ ~split))
      /\ gnt => queue # <<>> /\ (demux.pending => arrives)
      /\ arrives => demux.pending
      /\ gnt \in BOOLEAN /\ arrives \in BOOLEAN /\ split \in BOOLEAN
  BY <1>1 DEF DemuxNext, L2Gnt, Gnt, L2Req, RValid, Popped, Split
<1>3. queue # <<>> => First \in Read
  BY DEF PortInv, First
<1>4. /\ na => queue # <<>> /\ rResp.ch = First.ch
      /\ na \in BOOLEAN /\ demux.pending \in BOOLEAN /\ rResp \in Read
  BY DEF PortInv
<1> HIDE DEF gnt, arrives, split, popped
<1>5. rResp' \in Read /\ na' \in BOOLEAN /\ rValid' \in BOOLEAN
  BY <1>1, <1>2, <1>3, <1>4
<1>6. na' => queue # <<>> /\ ~popped /\ rResp'.ch = First.ch
  BY <1>1, <1>2, <1>4
<1>7. ASSUME NEW c \in Channel
      PROVE  One(Awaited(c)) + One(popped /\ First.ch = c) =
             One(Awaited(c)') + One(Valid(c)')
  <2>1. /\ Awaited(c) = (demux.pending /\ ~na /\ rResp.ch = c)
        /\ Awaited(c)' = (demux'.pending /\ ~na' /\ rResp'.ch = c)
        /\ Valid(c)' = (rValid' /\ rDly' = c)
    BY DEF Awaited, Valid
  <2>2. CASE na
    <3>1. ~Awaited(c) /\ ~Valid(c)'
      BY <1>1, <2>1, <2>2
    <3>2. Awaited(c)' <=> popped /\ First.ch = c
      BY <1>1, <1>2, <1>4, <2>1, <2>2
    <3> QED
      BY <3>1, <3>2 DEF One
  <2>3. CASE ~na /\ gnt /\ split
    <3>1. ~Awaited(c)' /\ ~popped
      BY <1>1, <1>2, <2>1, <2>3
    <3>2. Valid(c)' <=> Awaited(c)
      BY <1>1, <1>2, <1>4, <2>1, <2>3
    <3> QED
      BY <3>1, <3>2 DEF One
  <2>4. CASE ~na /\ gnt /\ ~split
    <3>1. Awaited(c)' <=> popped /\ First.ch = c
      BY <1>1, <1>2, <2>1, <2>4
    <3>2. Valid(c)' <=> Awaited(c)
      BY <1>1, <1>2, <1>4, <2>1, <2>4
    <3> QED
      BY <3>1, <3>2 DEF One
  <2>5. CASE ~na /\ ~gnt
    <3>1. ~popped
      BY <1>2, <2>5
    <3>2. /\ Awaited(c)' <=> Awaited(c) /\ ~arrives
          /\ Valid(c)' <=> Awaited(c) /\ arrives
      BY <1>1, <1>2, <1>4, <2>1, <2>5
    <3> QED
      BY <3>1, <3>2 DEF One
  <2> QED
    BY <1>2, <1>4, <2>2, <2>3, <2>4, <2>5
<1> QED
  BY <1>2, <1>5, <1>6, <1>7 DEF popped

(* The reads on their way change by the one that is pushed and the word    *)
(* that is delivered.                                                      *)
LEMMA SentEdge ==
  ASSUME ChannelType, PortInv, NEW grants, NEW answers, PortEdge(grants, answers),
         NEW c \in Channel
  PROVE  /\ Sent(c) \in Nat /\ Sent(c)' \in Nat
         /\ Valid(c) => Sent(c) > 0
         /\ Sent(c)' + One(Valid(c)) = Sent(c) + One(Sample /\ rGrant = c)
<1> DEFINE popped == Popped(grants, answers)
<1>1. /\ Queued(c) \in Nat /\ Queued(c)' \in Nat
      /\ Queued(c) + One(Sample /\ rGrant = c) = Queued(c)' + One(popped /\ First.ch = c)
  BY QueueEdge
<1>2. One(Awaited(c)) + One(popped /\ First.ch = c) = One(Awaited(c)') + One(Valid(c)')
  BY WayEdge
<1>3. /\ Sent(c) = Queued(c) + One(Awaited(c)) + One(Valid(c))
      /\ Sent(c)' = Queued(c)' + One(Awaited(c)') + One(Valid(c)')
  BY DEF Sent, One
<1>4. /\ One(Awaited(c)) \in Nat /\ One(Awaited(c)') \in Nat
      /\ One(Valid(c)) \in Nat /\ One(Valid(c)') \in Nat
      /\ One(popped /\ First.ch = c) \in Nat /\ One(Sample /\ rGrant = c) \in Nat
      /\ Valid(c) => One(Valid(c)) = 1
  BY DEF One
<1> HIDE DEF popped
<1> QED
  BY <1>1, <1>2, <1>3, <1>4

-----------------------------------------------------------------------------
(* Counting modulo a number that is not reached is counting.               *)
LEMMA SmallMod ==
  ASSUME NEW a \in Nat, NEW d \in Nat, a < d
  PROVE  a % d = a /\ (a + d) % d = a
  OBVIOUS

(* A buffer with room for all that is in flight keeps it, if a word comes  *)
(* only when one is in flight and a grant only when it asks.               *)
LEMMA BufferStep ==
  ASSUME NEW f \in Buffer, NEW gnt \in BOOLEAN, NEW valid \in BOOLEAN, NEW ready \in BOOLEAN,
         f.elements + f.inflight <= BufferDepth,
         valid => f.inflight > 0,
         gnt => ReqO(f)
  PROVE  LET g == FifoNext(f, gnt, valid, ready) IN
         /\ g \in Buffer
         /\ g.inflight + One(valid) = f.inflight + One(gnt)
         /\ g.elements + g.inflight <= BufferDepth
<1> DEFINE e == f.elements
           i == f.inflight
<1>1. e \in Nat /\ i \in Nat /\ BufferDepth \in Nat /\ BufferDepth > 0
  BY BufferAssumption DEF Buffer
<1>2. In(f, valid) = valid
  BY <1>1 DEF In, ReadyO
<1>3. gnt => e + i < BufferDepth
  BY <1>1 DEF ReqO, ReadyO
<1>4. Out(f, ready) => e > 0
  BY <1>1 DEF Out, ValidO
<1>5. gnt => (i + 1) % InflightMod = i + 1
  <2> SUFFICES ASSUME gnt PROVE (i + 1) % InflightMod = i + 1
    OBVIOUS
  <2> DEFINE a == i + 1
             d == InflightMod
  <2>1. a \in Nat /\ d \in Nat /\ a < d
    BY <1>1, <1>3, BufferAssumption
  <2> HIDE DEF a, d
  <2>2. a % d = a
    BY <2>1, SmallMod
  <2> QED
    BY <2>2 DEF a, d
<1>6. valid => (i + InflightMod - 1) % InflightMod = i - 1
  <2> SUFFICES ASSUME valid PROVE (i + InflightMod - 1) % InflightMod = i - 1
    OBVIOUS
  <2> DEFINE a == i - 1
             d == InflightMod
  <2>1. a \in Nat /\ d \in Nat /\ a < d /\ i + d - 1 = a + d
    BY <1>1, BufferAssumption
  <2> HIDE DEF a, d
  <2>2. (a + d) % d = a
    BY <2>1, SmallMod
  <2>3. (i + d - 1) % d = a
    BY <2>1, <2>2
  <2> QED
    BY <2>3 DEF a, d
<1>7. Inflight(f, gnt, valid) = i + One(gnt) - One(valid)
  <2>1. CASE gnt /\ valid
    BY <1>1, <1>2, <2>1 DEF Inflight, One
  <2>2. CASE gnt /\ ~valid
    BY <1>1, <1>2, <1>5, <2>2 DEF Inflight, One
  <2>3. CASE ~gnt /\ valid
    BY <1>1, <1>2, <1>6, <2>3 DEF Inflight, One
  <2>4. CASE ~gnt /\ ~valid
    BY <1>1, <1>2, <2>4 DEF Inflight, One
  <2> QED
    BY <2>1, <2>2, <2>3, <2>4
<1>8. /\ Elements(f, valid, ready) \in Nat
      /\ Elements(f, valid, ready) <= e + One(valid)
  BY <1>1, <1>2, <1>4 DEF Elements, One
<1>9. /\ One(gnt) \in Nat /\ One(valid) \in Nat
      /\ valid => One(valid) = 1 /\ i >= 1
      /\ ~valid => One(valid) = 0
      /\ gnt => One(gnt) = 1
      /\ ~gnt => One(gnt) = 0
  BY <1>1 DEF One
<1> DEFINE el == Elements(f, valid, ready)
           inf == Inflight(f, gnt, valid)
<1> HIDE DEF el, inf
<1>10. el \in Nat /\ inf \in Nat /\ inf + One(valid) = i + One(gnt)
  BY <1>1, <1>7, <1>8, <1>9 DEF el, inf
<1>11. el + inf <= BufferDepth
  BY <1>1, <1>3, <1>7, <1>8, <1>9 DEF el, inf
<1>12. FifoNext(f, gnt, valid, ready) = [elements |-> el, inflight |-> inf]
  BY DEF FifoNext, el, inf
<1> QED
  BY <1>10, <1>11, <1>12 DEF Buffer

(* The arbiter grants a channel that asks, or none.                        *)
LEMMA GrantAsks ==
  ASSUME NEW cmd, NEW set
  PROVE  /\ Grant(cmd, set) \in 0 .. N
         /\ Grant(cmd, set) \in Channel => ReqO(fifo[Grant(cmd, set)])
<1> DEFINE g == FirstFrom(N, prio, Requests(cmd, set))
<1>1. g \subseteq Channel /\ \A c \in g : ReqO(fifo[c])
  BY DEF FirstFrom, Requests
<1>2. Channel \subseteq 0 .. N /\ None \in 0 .. N /\ None \notin Channel
  BY TxAssumption DEF Channel, None
<1>3. CASE g = {}
  BY <1>2, <1>3 DEF Grant
<1>4. CASE g # {}
  <2>1. Grant(cmd, set) \in g
    BY <1>4 DEF Grant
  <2> QED
    BY <1>1, <1>2, <2>1
<1> QED
  BY <1>3, <1>4

LEMMA EdgeKeepsCredits ==
  ASSUME CreditInv, NEW cmd, NEW set, Edge(cmd, set), Legal(cmd, set)
  PROVE  CreditInv'
<1> DEFINE grant == Grant(cmd, set)
<1>1. ChannelType /\ PortInv /\ fifo \in [Channel -> Buffer] /\ Credits
  BY DEF CreditInv
<1>2. PICK grants, answers : PortEdge(grants, answers)
  BY DEF Edge, Port
<1>3. PICK drain : Buffers(grant, drain)
  BY DEF Edge
<1>4. Arbiter(grant)
  BY DEF Edge
<1>5. grant \in 0 .. N /\ (grant \in Channel => ReqO(fifo[grant]))
  BY GrantAsks
<1> HIDE DEF grant
<1>6. ChannelType'
  BY <1>1, EdgeKeepsChannelType
<1>7. PortInv'
  <2>1. queue' \in Seq(Read)
    BY <1>1, <1>2, QueueEdge
  <2>2. /\ rResp' \in Read /\ na' \in BOOLEAN /\ rValid' \in BOOLEAN
        /\ demux'.pending \in BOOLEAN
        /\ na' => queue # <<>> /\ ~Popped(grants, answers) /\ rResp'.ch = First.ch
    BY <1>1, <1>2, WayEdge
  <2>3. queue # <<>> /\ ~Popped(grants, answers) => queue' # <<>> /\ queue'[1] = First
    BY <1>1, <1>2, QueueEdge
  <2>4. rGrant' \in 0 .. N
    BY <1>1, <1>4, <1>5 DEF Arbiter, PortInv
  <2>5. First' = queue'[1]
    BY DEF First
  <2>6. rDly' \in Channel
    BY <1>1, <1>2 DEF PortEdge, PortInv, Read
  <2> QED
    BY <2>1, <2>2, <2>3, <2>4, <2>5, <2>6 DEF PortInv
<1>8. ASSUME NEW c \in Channel
      PROVE  /\ fifo'[c] \in Buffer
             /\ fifo'[c].inflight = Sent(c)' + One(rGrant' = c)
             /\ fifo'[c].elements + fifo'[c].inflight <= BufferDepth
  <2> DEFINE asked == Sample /\ grant = c
  <2>1. /\ fifo[c] \in Buffer
        /\ fifo[c].inflight = Sent(c) + One(rGrant = c)
        /\ fifo[c].elements + fifo[c].inflight <= BufferDepth
    BY <1>1 DEF Credits, One
  <2>2. /\ Sent(c) \in Nat /\ Sent(c)' \in Nat
        /\ Valid(c) => Sent(c) > 0
        /\ Sent(c)' + One(Valid(c)) = Sent(c) + One(Sample /\ rGrant = c)
    BY <1>1, <1>2, SentEdge
  <2>3. \A p : One(p) \in Nat
    BY DEF One
  <2>4. Valid(c) => fifo[c].inflight > 0
    BY <2>1, <2>2, <2>3
  <2>5. asked => ReqO(fifo[c])
    BY <1>5
  <2>6. fifo'[c] = FifoNext(fifo[c], asked, Valid(c), c \in drain)
    BY <1>3 DEF Buffers
  <2>7. asked \in BOOLEAN /\ Valid(c) \in BOOLEAN /\ (c \in drain) \in BOOLEAN
    BY <1>1 DEF PortInv, Valid
  <2> HIDE DEF asked
  <2>8. /\ fifo'[c] \in Buffer
        /\ fifo'[c].inflight + One(Valid(c)) = fifo[c].inflight + One(asked)
        /\ fifo'[c].elements + fifo'[c].inflight <= BufferDepth
    <3> DEFINE f == fifo[c]
               v == Valid(c)
               d == c \in drain
    <3>1. /\ f \in Buffer /\ asked \in BOOLEAN /\ v \in BOOLEAN /\ d \in BOOLEAN
          /\ f.elements + f.inflight <= BufferDepth
          /\ v => f.inflight > 0
          /\ asked => ReqO(f)
          /\ fifo'[c] = FifoNext(f, asked, v, d)
      BY <2>1, <2>4, <2>5, <2>6, <2>7
    <3> HIDE DEF f, v, d
    <3>2. LET g == FifoNext(f, asked, v, d) IN
          /\ g \in Buffer
          /\ g.inflight + One(v) = f.inflight + One(asked)
          /\ g.elements + g.inflight <= BufferDepth
      BY <3>1, BufferStep
    <3> QED
      BY <3>1, <3>2 DEF f, v
  <2>9. One(rGrant' = c) + One(Sample /\ rGrant = c) = One(rGrant = c) + One(asked)
    BY <1>4 DEF Arbiter, One, asked
  <2>10. fifo'[c].inflight \in Nat /\ fifo[c].inflight \in Nat
    BY <2>1, <2>8 DEF Buffer
  <2>11. fifo'[c].inflight = Sent(c)' + One(rGrant' = c)
    <3> DEFINE x == fifo'[c].inflight
               y == fifo[c].inflight
               s == Sent(c)
               t == Sent(c)'
               v == One(Valid(c))
               a == One(asked)
               p == One(Sample /\ rGrant = c)
               o == One(rGrant = c)
               n == One(rGrant' = c)
    <3>1. /\ x \in Nat /\ y \in Nat /\ s \in Nat /\ t \in Nat /\ v \in Nat
          /\ a \in Nat /\ p \in Nat /\ o \in Nat /\ n \in Nat
          /\ x + v = y + a /\ y = s + o /\ t + v = s + p /\ n + p = o + a
      BY <2>1, <2>2, <2>3, <2>8, <2>9, <2>10
    <3> HIDE DEF x, y, s, t, v, a, p, o, n
    <3>2. x = t + n
      BY <3>1
    <3> QED
      BY <3>2 DEF x, t, n
  <2> QED
    BY <2>8, <2>11
<1>9. fifo' \in [Channel -> Buffer]
  BY <1>3, <1>8 DEF Buffers
<1>10. Credits'
  BY <1>8 DEF Credits, One
<1> QED
  BY <1>6, <1>7, <1>9, <1>10 DEF CreditInv

(* The counts, and the ranges they rest on, hold at all times.            *)
LEMMA CreditsHold == Spec => []CreditInv
<1>1. Init => CreditInv
  <2> SUFFICES ASSUME Init PROVE CreditInv
    OBVIOUS
  <2>1. ChannelType
    BY DEF Init, ChannelType, Config, Gen, Reset
  <2>2. 0 \in Channel /\ N \in 0 .. N
    BY TxAssumption DEF Channel
  <2>3. PortInv
    <3>1. queue \in Seq(Read) /\ rResp \in Read /\ rGrant \in 0 .. N /\ rDly \in Channel
      BY <2>2 DEF Init, Read, None
    <3>2. na = FALSE /\ rValid = FALSE /\ demux.pending = FALSE
      BY DEF Init, DemuxReset
    <3> QED
      BY <3>1, <3>2 DEF PortInv
  <2>4. fifo \in [Channel -> Buffer]
    BY DEF Init, Buffer, FifoReset
  <2>5. \A c \in Channel : Sent(c) = 0 /\ rGrant # c
    <3> TAKE c \in Channel
    <3>1. {i \in 1 .. Len(queue) : queue[i].ch = c} = {}
      BY DEF Init
    <3>2. Queued(c) = 0
      BY <3>1, FS_EmptySet DEF Queued
    <3>3. rGrant # c
      BY TxAssumption DEF Init, None, Channel
    <3> QED
      BY <3>2, <3>3 DEF Init, Sent, Awaited, Valid, DemuxReset
  <2>6. Credits
    BY <2>5, BufferAssumption DEF Init, Credits, FifoReset
  <2> QED
    BY <2>1, <2>3, <2>4, <2>6 DEF CreditInv
<1>2. CreditInv /\ [Next]_vars => CreditInv'
  <2> SUFFICES ASSUME CreditInv, [Next]_vars PROVE CreditInv'
    OBVIOUS
  <2>1. CASE Next
    BY <2>1, NextIsEdge, EdgeKeepsCredits DEF CreditInv
  <2>2. CASE UNCHANGED vars
    BY <2>2 DEF vars, arbiter, port, CreditInv, ChannelType, PortInv, Credits,
       Sent, Queued, Awaited, Valid, First
  <2> QED
    BY <2>1, <2>2
<1> QED
  BY <1>1, <1>2, PTL DEF Spec

(* The count of the words on their way is exact and leaves room for each   *)
(* of them: no buffer of a peripheral is ever given a word it must drop.   *)
THEOREM RoomForWords == Spec => []Credits
<1>1. CreditInv => Credits
  BY DEF CreditInv
<1> QED
  BY <1>1, CreditsHold, PTL

-----------------------------------------------------------------------------
(* A transfer as the sequence of its beats' addresses.                     *)
LEMMA DivisionStep ==
  ASSUME NEW n \in Nat, NEW d \in Nat \ {0}
  PROVE  /\ n \div d \in Nat
         /\ (n + d) \div d = (n \div d) + 1
         /\ n < d => n \div d = 0
  OBVIOUS

LEMMA BeatBytes ==
  ASSUME NEW c \in Channel
  PROVE  Bytes[c] \in Nat \ {0} /\ Bytes[c] \in 1 .. WordBytes /\ WordBytes \in Nat \ {0}
BY TxAssumption

LEMMA BeatsOne ==
  ASSUME NEW c \in Channel, NEW s \in Nat, s <= Bytes[c]
  PROVE  Beats(c, s) = 1
<1> DEFINE b == Bytes[c]
<1>1. b \in Nat \ {0}
  BY BeatBytes
<1>2. CASE s = 0
  BY <1>2 DEF Beats
<1>3. CASE s # 0
  <2> HIDE DEF b
  <2>1. s - 1 \in Nat /\ s - 1 < b
    BY <1>1, <1>3 DEF b
  <2>2. (s - 1 + b) \div b = 1
    <3> DEFINE n == s - 1
    <3> HIDE DEF n
    <3>1. n \in Nat /\ n < b
      BY <2>1 DEF n
    <3>2. (n + b) \div b = (n \div b) + 1 /\ n \div b = 0
      BY <1>1, <3>1, DivisionStep
    <3>3. (n + b) \div b = 1
      BY <3>2
    <3> QED
      BY <3>3 DEF n
  <2>3. s + b - 1 = s - 1 + b
    BY <1>1
  <2>4. Beats(c, s) = (s + b - 1) \div b
    BY <1>3 DEF Beats, b
  <2> QED
    BY <2>2, <2>3, <2>4
<1> QED
  BY <1>2, <1>3

LEMMA BeatsMore ==
  ASSUME NEW c \in Channel, NEW s \in Nat, s > Bytes[c]
  PROVE  Beats(c, s) = Beats(c, s - Bytes[c]) + 1 /\ Beats(c, s - Bytes[c]) \in Nat
<1> DEFINE b == Bytes[c]
           n == s - 1
<1>1. b \in Nat \ {0} /\ n \in Nat /\ s - b \in Nat /\ s - b # 0 /\ s # 0
  BY BeatBytes
<1>2. Beats(c, s) = (s + b - 1) \div b /\ Beats(c, s - b) = (s - b + b - 1) \div b
  BY <1>1 DEF Beats
<1> HIDE DEF b
<1>3. s + b - 1 = n + b /\ s - b + b - 1 = n
  BY <1>1
<1> HIDE DEF n
<1>4. (n + b) \div b = (n \div b) + 1 /\ n \div b \in Nat
  BY <1>1, DivisionStep
<1>5. Beats(c, s) = Beats(c, s - b) + 1 /\ Beats(c, s - b) \in Nat
  BY <1>2, <1>3, <1>4
<1> QED
  BY <1>5 DEF b

LEMMA BeatsNat ==
  ASSUME NEW c \in Channel, NEW s \in Nat
  PROVE  Beats(c, s) \in Nat
<1>1. CASE s <= Bytes[c]
  BY <1>1, BeatsOne
<1>2. CASE s > Bytes[c]
  BY <1>2, BeatsMore, BeatBytes
<1> QED
  BY <1>1, <1>2, BeatBytes

Course(c, a, s) == Words(c, [start |-> a, size |-> s])

LEMMA CourseIs ==
  ASSUME NEW c \in Channel, NEW a \in Nat, NEW s \in Nat
  PROVE  /\ Course(c, a, s) \in Seq(Int)
         /\ Len(Course(c, a, s)) = Beats(c, s)
         /\ \A i \in 1 .. Beats(c, s) : Course(c, a, s)[i] = a + (i - 1) * Bytes[c]
<1>1. Course(c, a, s) = [i \in 1 .. Beats(c, s) |-> a + (i - 1) * Bytes[c]]
  BY DEF Course, Words
<1>2. Beats(c, s) \in Nat /\ Bytes[c] \in Nat
  BY BeatsNat, BeatBytes
<1>3. \A i \in 1 .. Beats(c, s) : a + (i - 1) * Bytes[c] \in Int
  BY <1>2
<1> QED
  BY <1>1, <1>2, <1>3, IsASeq, LenProperties

LEMMA CourseLast ==
  ASSUME NEW c \in Channel, NEW a \in Nat, NEW s \in Nat, s <= Bytes[c]
  PROVE  Course(c, a, s) = <<a>>
<1>1. Course(c, a, s) \in Seq(Int) /\ Len(Course(c, a, s)) = 1
  <2>1. Course(c, a, s) \in Seq(Int) /\ Len(Course(c, a, s)) = Beats(c, s)
    BY CourseIs
  <2>2. Beats(c, s) = 1
    BY BeatsOne
  <2> QED
    BY <2>1, <2>2
<1>2. Course(c, a, s)[1] = a
  <2>1. a + (1 - 1) * Bytes[c] = a
    BY BeatBytes
  <2> QED
    <3>1. Beats(c, s) = 1
      BY BeatsOne
    <3>2. \A i \in 1 .. Beats(c, s) : Course(c, a, s)[i] = a + (i - 1) * Bytes[c]
      BY CourseIs
    <3>3. 1 \in 1 .. Beats(c, s)
      BY <3>1
    <3>4. Course(c, a, s)[1] = a + (1 - 1) * Bytes[c]
      BY <3>2, <3>3, Zenon
    <3> QED
      BY <2>1, <3>4
<1> QED
  BY <1>1, <1>2

LEMMA CourseNext ==
  ASSUME NEW c \in Channel, NEW a \in Nat, NEW s \in Nat, s > Bytes[c]
  PROVE  Course(c, a, s) = <<a>> \o Course(c, a + Bytes[c], s - Bytes[c])
<1> DEFINE b == Bytes[c]
           p == Course(c, a, s)
           q == Course(c, a + b, s - b)
           r == <<a>> \o q
<1>1. b \in Nat \ {0} /\ a + b \in Nat /\ s - b \in Nat
  BY BeatBytes
<1>2. /\ p \in Seq(Int) /\ Len(p) = Beats(c, s)
      /\ \A i \in 1 .. Beats(c, s) : p[i] = a + (i - 1) * b
      /\ q \in Seq(Int) /\ Len(q) = Beats(c, s - b)
      /\ \A i \in 1 .. Beats(c, s - b) : q[i] = a + b + (i - 1) * b
  BY <1>1, CourseIs
<1>3. Beats(c, s) = Beats(c, s - b) + 1 /\ Beats(c, s - b) \in Nat
  BY BeatsMore
<1> HIDE DEF p, q
<1>4. /\ r \in Seq(Int) /\ Len(r) = Len(q) + 1 /\ r[1] = a
      /\ \A i \in 2 .. Len(q) + 1 : r[i] = q[i - 1]
  BY <1>2
<1> HIDE DEF r, b
<1>5. ASSUME NEW i \in 1 .. Len(p) PROVE p[i] = r[i]
  <2>1. CASE i = 1
    <3>1. a + (1 - 1) * b = a
      BY <1>1
    <3> QED
      BY <1>2, <1>4, <2>1, <3>1
  <2>2. CASE i # 1
    <3>1. i \in Nat /\ i >= 2 /\ i - 1 \in 1 .. Beats(c, s - b)
      BY <1>2, <1>3, <2>2
    <3>2. (i - 1) * b = b + (i - 1 - 1) * b
      BY <1>1, <3>1
    <3>3. q[i - 1] = a + b + (i - 1 - 1) * b
      BY <1>2, <3>1
    <3>4. p[i] = a + (i - 1) * b
      BY <1>2
    <3>5. (i - 1) * b \in Int /\ (i - 1 - 1) * b \in Int
      BY <1>1, <3>1
    <3>6. p[i] = q[i - 1]
      <4> DEFINE x == (i - 1) * b
                 y == (i - 1 - 1) * b
      <4> HIDE DEF x, y
      <4>1. x = b + y /\ x \in Int /\ y \in Int /\ q[i - 1] = a + b + y /\ p[i] = a + x
        BY <3>2, <3>3, <3>4, <3>5 DEF x, y
      <4> QED
        BY <1>1, <4>1
    <3> QED
      BY <1>2, <1>3, <1>4, <3>1, <3>6
  <2> QED
    BY <2>1, <2>2
<1>6. p = r
  BY <1>2, <1>3, <1>4, <1>5, SeqEqual
<1> QED
  BY <1>6 DEF p, q, r, b

-----------------------------------------------------------------------------
(* The six things an edge does to a generator: its transfer is cleared, it *)
(* stays without one, it starts one, it makes no beat, a beat, or the last *)
(* beat of its transfer.                                                   *)
Cleared(g, in, h) == in.clr /\ ~h.en /\ ~h.pending
Stays(g, in, h) == ~in.clr /\ ~g.en /\ ~in.en /\ ~h.en /\ ~h.pending
Begins(g, in, h) ==
  /\ ~in.clr /\ ~g.en /\ in.en /\ h.en /\ ~h.pending
  /\ h.address = in.start /\ h.counter = in.size
Rests(g, in, h) ==
  /\ ~in.clr /\ g.en /\ h.en /\ ~Beat(g, in)
  /\ h.pending <=> (g.pending \/ in.en)
  /\ h.address = g.address /\ h.counter = g.counter
Moves(g, in, h) ==
  /\ ~in.clr /\ g.en /\ h.en /\ Beat(g, in) /\ ~Compare(g, in)
  /\ h.pending <=> (g.pending \/ in.en)
  /\ h.address = g.address + in.bytes /\ h.counter = g.counter - in.bytes
Ends(g, in, h) ==
  /\ ~in.clr /\ g.en /\ LastBeat(g, in) /\ ~h.pending
  /\ h.en <=> GoesOn(g, in)
  /\ GoesOn(g, in) => h.address = in.start /\ h.counter = in.size

LEMMA GenStep ==
  ASSUME NEW g \in Gen, NEW in, in.start \in Nat, in.size \in Nat, in.bytes \in Nat,
         in.en \in BOOLEAN, in.clr \in BOOLEAN,
         g.pending => g.en, in.en => ~g.pending, in.clr => ~in.en /\ ~g.pending
  PROVE  LET h == AddrgenNext(g, in) IN
         \/ Cleared(g, in, h) \/ Stays(g, in, h) \/ Begins(g, in, h)
         \/ Rests(g, in, h) \/ Moves(g, in, h) \/ Ends(g, in, h)
<1> DEFINE r == Registers(g, in)
           h == AddrgenNext(g, in)
<1>1. r \in Gen /\ h \in Gen
  BY GenTyped
<1>2. /\ h.en = r.en /\ h.address = r.address /\ h.counter = r.counter
      /\ h.pending = Pending(g, in)
  BY <1>1 DEF AddrgenNext, Gen
<1>3. Pending(g, in) <=> ~LastBeat(g, in) /\ (g.pending \/ (in.en /\ g.en))
  BY DEF Pending, LastBeat, Beat, Gen
<1>4. CASE Starts(g, in)
  <2>1. ~LastBeat(g, in) /\ ~Beat(g, in)
    BY <1>4 DEF Starts, LastBeat, Beat
  <2>2. Registers(g, in) = Load(g, in, FALSE)
    BY <1>4, <2>1, Zenon DEF Registers
  <2>3. Begins(g, in, h)
    BY <1>2, <1>3, <1>4, <2>2 DEF Begins, Starts, Load, Regs
  <2> QED
    BY <2>3
<1>5. CASE in.clr /\ ~Starts(g, in)
  <2>1. r = Stop(g, FALSE)
    BY <1>5 DEF Registers
  <2>2. Cleared(g, in, h)
    BY <1>2, <1>3, <1>5, <2>1 DEF Cleared, Stop, Regs
  <2> QED
    BY <2>2
<1>6. CASE LastBeat(g, in) /\ ~in.clr /\ ~Starts(g, in)
  <2>1. /\ GoesOn(g, in) => Registers(g, in) = Load(g, in, TRUE)
        /\ ~GoesOn(g, in) => Registers(g, in) = Stop(g, TRUE)
    <3>1. ~(Beat(g, in) /\ ~Compare(g, in) /\ ~in.clr)
      BY <1>6 DEF LastBeat
    <3> QED
      BY <1>6, <3>1, Zenon DEF Registers
  <2>2. g.en
    BY <1>6 DEF LastBeat, Beat
  <2>3. Ends(g, in, h)
    BY <1>2, <1>3, <1>6, <2>1, <2>2 DEF Ends, Load, Stop, Regs
  <2> QED
    BY <2>3
<1>7. CASE Beat(g, in) /\ ~Compare(g, in) /\ ~in.clr /\ ~Starts(g, in)
  <2>1. Registers(g, in) = Advance(g, in)
    BY <1>7, Zenon DEF Registers, LastBeat
  <2>2. g.en /\ ~LastBeat(g, in)
    BY <1>7 DEF LastBeat, Beat
  <2>3. Moves(g, in, h)
    BY <1>2, <1>3, <1>7, <2>1, <2>2 DEF Moves, Advance, Regs
  <2> QED
    BY <2>3
<1>8. CASE ~Beat(g, in) /\ ~in.clr /\ ~Starts(g, in)
  <2>1. r = [g EXCEPT !.event = FALSE] /\ ~LastBeat(g, in)
    BY <1>8 DEF Registers, LastBeat
  <2>2. h.en = g.en /\ h.address = g.address /\ h.counter = g.counter
    BY <1>2, <2>1 DEF Gen
  <2>3. CASE g.en
    BY <1>2, <1>3, <1>8, <2>1, <2>2, <2>3 DEF Rests
  <2>4. CASE ~g.en
    BY <1>2, <1>3, <1>8, <2>2, <2>4 DEF Stays, Starts
  <2> QED
    BY <2>3, <2>4
<1> QED
  BY <1>4, <1>5, <1>6, <1>7, <1>8 DEF LastBeat

(* What is left of the transfer that runs, and the transfer that waits.    *)
Running(c, g) == IF g.en THEN Course(c, g.address, g.counter) ELSE <<>>
Waiting(c, g, f) == IF g.pending THEN Course(c, f.start, f.size) ELSE <<>>
Rest(c) == Running(c, ag[c]) \o Waiting(c, ag[c], cfg[c])

LEMMA RestTyped ==
  ASSUME NEW c \in Channel, NEW g \in Gen, NEW f \in Config, g.counter \in Nat
  PROVE  /\ Running(c, g) \in Seq(Int) /\ Waiting(c, g, f) \in Seq(Int)
         /\ Running(c, g) \o Waiting(c, g, f) \in Seq(Int)
<1>1. g.address \in Nat /\ f.start \in Nat /\ f.size \in Nat
  BY DEF Gen, Config
<1>2. Running(c, g) \in Seq(Int)
  <2>1. g.en => Course(c, g.address, g.counter) \in Seq(Int)
    BY <1>1, CourseIs
  <2> QED
    BY <2>1, EmptySeq DEF Running
<1>3. Waiting(c, g, f) \in Seq(Int)
  <2>1. Course(c, f.start, f.size) \in Seq(Int)
    BY <1>1, CourseIs
  <2> QED
    BY <2>1, EmptySeq DEF Waiting
<1> QED
  BY <1>2, <1>3, ConcatProperties

LEMMA Regroup ==
  ASSUME NEW u \in Seq(Int), NEW v \in Seq(Int), NEW w \in Seq(Int)
  PROVE  (u \o v) \o w = u \o (v \o w)
BY ConcatAssociative

(* The beat an edge makes, and what software or a continuous mode adds.    *)
Beaten(g, in) == IF Beat(g, in) THEN <<g.address>> ELSE <<>>
Added(c, g, in) ==
  IF in.en \/ (LastBeat(g, in) /\ in.continuous /\ ~g.pending)
    THEN Course(c, in.start, in.size) ELSE <<>>

(* Whatever an edge does to a generator, the words that are left and those *)
(* that are added are the beat it makes and the words that are left then.  *)
Before(c, g, f, in, e) ==
  /\ c \in Channel /\ g \in Gen /\ f \in Config /\ e \in Config
  /\ in.start = e.start /\ in.size = e.size /\ in.bytes = Bytes[c]
  /\ in.en \in BOOLEAN /\ g.counter \in Nat
  /\ g.pending => g.en
  /\ in.en => ~g.pending
  /\ ~in.en => f.start = e.start /\ f.size = e.size
Steps(g, in, h) ==
  \/ Stays(g, in, h) \/ Begins(g, in, h)
  \/ Rests(g, in, h) \/ Moves(g, in, h) \/ Ends(g, in, h)

LEMMA RestStep ==
  ASSUME NEW c, NEW g, NEW f, NEW in, NEW e, NEW h,
         Before(c, g, f, in, e), Steps(g, in, h), h \in Gen
  PROVE  Running(c, g) \o Waiting(c, g, f) \o Added(c, g, in) =
         Beaten(g, in) \o (Running(c, h) \o Waiting(c, h, e))
<1> DEFINE new == Course(c, e.start, e.size)
           old == Course(c, f.start, f.size)
           now == Course(c, g.address, g.counter)
<1>0. /\ c \in Channel /\ g \in Gen /\ h \in Gen /\ f \in Config /\ e \in Config
      /\ in.start = e.start /\ in.size = e.size /\ in.bytes = Bytes[c]
      /\ in.en \in BOOLEAN /\ g.counter \in Nat
      /\ g.pending => g.en
      /\ in.en => ~g.pending
      /\ ~in.en => f.start = e.start /\ f.size = e.size
  BY DEF Before
<1>1. /\ e.start \in Nat /\ e.size \in Nat /\ f.start \in Nat /\ f.size \in Nat
      /\ g.address \in Nat /\ Bytes[c] \in Nat
  BY <1>0, BeatBytes DEF Config, Gen
<1>2. new \in Seq(Int) /\ old \in Seq(Int) /\ now \in Seq(Int)
  BY <1>0, <1>1, CourseIs
<1>3. /\ Running(c, g) = IF g.en THEN now ELSE <<>>
      /\ Waiting(c, g, f) = IF g.pending THEN old ELSE <<>>
      /\ Waiting(c, h, e) = IF h.pending THEN new ELSE <<>>
      /\ ~in.en => old = new
      /\ Added(c, g, in) = IF in.en \/ (LastBeat(g, in) /\ in.continuous /\ ~g.pending)
                           THEN new ELSE <<>>
  BY <1>0 DEF Running, Waiting, Added
<1>4. CASE Stays(g, in, h)
  <2>1. /\ Running(c, g) = <<>> /\ Waiting(c, g, f) = <<>> /\ Added(c, g, in) = <<>>
        /\ Running(c, h) = <<>> /\ Waiting(c, h, e) = <<>> /\ Beaten(g, in) = <<>>
    BY <1>0, <1>4 DEF Stays, Running, Waiting, Added, Beaten, Beat, LastBeat
  <2> QED
    BY <1>4, <2>1 DEF Stays
<1>5. CASE Begins(g, in, h)
  <2>1. /\ Running(c, g) = <<>> /\ Waiting(c, g, f) = <<>> /\ Added(c, g, in) = new
        /\ Running(c, h) = new /\ Waiting(c, h, e) = <<>> /\ Beaten(g, in) = <<>>
    BY <1>0, <1>5 DEF Begins, Running, Waiting, Added, Beaten, Beat
  <2> HIDE DEF new
  <2> QED
    BY <1>1, <1>2, <1>5, <2>1 DEF Begins
<1>6. CASE Rests(g, in, h)
  <2>1. /\ Running(c, g) = now /\ Running(c, h) = now /\ Beaten(g, in) = <<>>
        /\ h.counter \in Nat /\ ~LastBeat(g, in)
    BY <1>0, <1>6 DEF Rests, Running, Beaten, LastBeat
  <2>2. Waiting(c, g, f) \o Added(c, g, in) = Waiting(c, h, e)
    <3>1. h.pending <=> (g.pending \/ in.en)
      BY <1>0, <1>6 DEF Rests
    <3> HIDE DEF new, old, now
    <3>2. CASE in.en
      <4>1. Waiting(c, g, f) = <<>> /\ Waiting(c, h, e) = new /\ Added(c, g, in) = new
        BY <1>0, <1>3, <3>1, <3>2
      <4> QED
        BY <1>2, <4>1
    <3>3. CASE ~in.en /\ g.pending
      BY <1>2, <1>3, <2>1, <3>1, <3>3
    <3>4. CASE ~in.en /\ ~g.pending
      <4>1. Waiting(c, g, f) = <<>> /\ Waiting(c, h, e) = <<>> /\ Added(c, g, in) = <<>>
        BY <1>3, <2>1, <3>1, <3>4
      <4> QED
        BY <4>1
    <3> QED
      BY <3>2, <3>3, <3>4
  <2>3. Waiting(c, g, f) \in Seq(Int) /\ Added(c, g, in) \in Seq(Int)
    BY <1>2, <1>3, EmptySeq
  <2> HIDE DEF new, old, now
  <2>4. now \o Waiting(c, g, f) \o Added(c, g, in) = now \o (Waiting(c, g, f) \o Added(c, g, in))
    BY <1>2, <2>3, Regroup, Zenon
  <2>5. <<>> \o (now \o Waiting(c, h, e)) = now \o Waiting(c, h, e)
    BY <1>2, <1>3
  <2> QED
    BY <2>1, <2>2, <2>4, <2>5
<1>7. CASE Moves(g, in, h)
  <2> DEFINE later == Course(c, g.address + Bytes[c], g.counter - Bytes[c])
  <2>1. g.counter > Bytes[c]
    BY <1>0, <1>1, <1>7 DEF Moves, Compare
  <2>2. /\ Running(c, g) = now /\ Running(c, h) = later /\ Beaten(g, in) = <<g.address>>
        /\ h.counter \in Nat /\ ~LastBeat(g, in)
    BY <1>0, <1>1, <1>7, <2>1 DEF Moves, Running, Beaten, LastBeat
  <2>3. now = <<g.address>> \o later
    BY <1>0, <1>1, <2>1, CourseNext
  <2>4. later \in Seq(Int)
    <3>1. g.address + Bytes[c] \in Nat /\ g.counter - Bytes[c] \in Nat
      BY <1>0, <1>1, <2>1
    <3> QED
      BY <1>0, <3>1, CourseIs
  <2>5. Waiting(c, g, f) \o Added(c, g, in) = Waiting(c, h, e)
    <3>1. h.pending <=> (g.pending \/ in.en)
      BY <1>0, <1>7 DEF Moves
    <3> HIDE DEF new, old, now
    <3>2. CASE in.en
      <4>1. Waiting(c, g, f) = <<>> /\ Waiting(c, h, e) = new /\ Added(c, g, in) = new
        BY <1>0, <1>3, <3>1, <3>2
      <4> QED
        BY <1>2, <4>1
    <3>3. CASE ~in.en /\ g.pending
      BY <1>2, <1>3, <2>2, <3>1, <3>3
    <3>4. CASE ~in.en /\ ~g.pending
      <4>1. Waiting(c, g, f) = <<>> /\ Waiting(c, h, e) = <<>> /\ Added(c, g, in) = <<>>
        BY <1>3, <2>2, <3>1, <3>4
      <4> QED
        BY <4>1
    <3> QED
      BY <3>2, <3>3, <3>4
  <2>6. Waiting(c, g, f) \in Seq(Int) /\ Added(c, g, in) \in Seq(Int)
    BY <1>2, <1>3, EmptySeq
  <2> HIDE DEF new, old, now, later
  <2>7. now \o Waiting(c, g, f) \o Added(c, g, in) = now \o Waiting(c, h, e)
    <3>1. now \o Waiting(c, g, f) \o Added(c, g, in) =
          now \o (Waiting(c, g, f) \o Added(c, g, in))
      BY <1>2, <2>6, Regroup, Zenon
    <3> QED
      BY <2>5, <3>1, Zenon
  <2>8. Waiting(c, h, e) \in Seq(Int) /\ <<g.address>> \in Seq(Int)
    BY <1>1, <1>2, <1>3, EmptySeq
  <2>9. now \o Waiting(c, h, e) = <<g.address>> \o (later \o Waiting(c, h, e))
    BY <2>3, <2>4, <2>8, ConcatAssociative
  <2> QED
    BY <2>2, <2>7, <2>9
<1>8. CASE Ends(g, in, h)
  <2>1. g.counter <= Bytes[c] /\ g.en /\ LastBeat(g, in) /\ Beat(g, in) /\ ~h.pending
    BY <1>0, <1>1, <1>8 DEF Ends, LastBeat, Compare
  <2>2. now = <<g.address>>
    BY <1>0, <1>1, <2>1, CourseLast
  <2>3. Running(c, g) = <<g.address>> /\ Beaten(g, in) = <<g.address>> /\ Waiting(c, h, e) = <<>>
    BY <1>3, <2>1, <2>2 DEF Beaten
  <2>4. Running(c, h) = IF GoesOn(g, in) THEN new ELSE <<>>
    BY <1>0, <1>8 DEF Ends, Running
  <2>5. Waiting(c, g, f) \o Added(c, g, in) = Running(c, h)
    <3> HIDE DEF new, old, now
    <3>1. CASE g.pending
      BY <1>0, <1>2, <1>3, <2>4, <3>1 DEF GoesOn
    <3>2. CASE ~g.pending /\ (in.en \/ in.continuous)
      BY <1>2, <1>3, <2>1, <2>4, <3>2 DEF GoesOn
    <3>3. CASE ~g.pending /\ ~in.en /\ ~in.continuous
      BY <1>2, <1>3, <2>1, <2>4, <3>3 DEF GoesOn
    <3> QED
      BY <3>1, <3>2, <3>3
  <2>6. Waiting(c, g, f) \in Seq(Int) /\ Added(c, g, in) \in Seq(Int) /\ <<g.address>> \in Seq(Int)
    BY <1>1, <1>2, <1>3, EmptySeq
  <2>7. Running(c, h) \in Seq(Int)
    BY <1>2, <2>4, EmptySeq
  <2> HIDE DEF new, old, now
  <2>8. <<g.address>> \o Waiting(c, g, f) \o Added(c, g, in) =
        <<g.address>> \o (Waiting(c, g, f) \o Added(c, g, in))
    BY <2>6, ConcatAssociative
  <2>9. Running(c, h) \o <<>> = Running(c, h)
    BY <2>7
  <2> QED
    BY <2>3, <2>5, <2>8, <2>9
<1> QED
  BY <1>4, <1>5, <1>6, <1>7, <1>8 DEF Steps

(* The bytes left never fall below zero: a beat that would is the last.    *)
LEMMA CounterStep ==
  ASSUME NEW g \in Gen, NEW in, in.start \in Nat, in.size \in Nat, in.bytes \in Nat,
         g.counter \in Nat
  PROVE  AddrgenNext(g, in).counter \in Nat
<1>1. Registers(g, in) \in Gen
  BY GenTyped
<1>2. AddrgenNext(g, in).counter = Registers(g, in).counter
  BY <1>1 DEF AddrgenNext, Gen
<1>3. \A e \in BOOLEAN : Load(g, in, e).counter \in Nat /\ Stop(g, e).counter \in Nat
  BY DEF Load, Stop, Regs
<1>4. ~Compare(g, in) => Advance(g, in).counter \in Nat
  BY DEF Compare, Advance, Regs
<1>5. [g EXCEPT !.event = FALSE].counter \in Nat
  BY DEF Gen
<1>6. Registers(g, in).counter \in Nat
  BY <1>3, <1>4, <1>5 DEF Registers
<1> QED
  BY <1>2, <1>6

(* What an edge adds to the account is what the generator's step adds.     *)
LEMMA AddedIs ==
  ASSUME NEW c \in Channel, NEW in, in.start \in Nat, in.size \in Nat, in.en \in BOOLEAN
  PROVE  /\ Again(c, in) \in Seq(Int) /\ Asked(c, in) \in Seq(Int)
         /\ Again(c, in) \o Asked(c, in) = Added(c, ag[c], in)
<1> DEFINE new == Course(c, in.start, in.size)
<1>1. new \in Seq(Int)
  BY CourseIs
<1>2. Words(c, in) = new
  BY DEF Course, Words
<1> HIDE DEF new
<1>3. /\ Again(c, in) = IF LastBeat(ag[c], in) /\ in.continuous /\ ~in.en /\ ~ag[c].pending
                         THEN new ELSE <<>>
      /\ Asked(c, in) = IF in.en THEN new ELSE <<>>
      /\ Added(c, ag[c], in) =
           IF in.en \/ (LastBeat(ag[c], in) /\ in.continuous /\ ~ag[c].pending)
             THEN new ELSE <<>>
  BY <1>2 DEF Again, Asked, Added, new
<1>4. Again(c, in) \in Seq(Int) /\ Asked(c, in) \in Seq(Int)
  BY <1>1, <1>3, EmptySeq
<1>5. Again(c, in) \o Asked(c, in) = Added(c, ag[c], in)
  <2>1. CASE in.en
    <3>1. Again(c, in) = <<>> /\ Asked(c, in) = new /\ Added(c, ag[c], in) = new
      BY <1>3, <2>1
    <3> QED
      BY <1>1, <3>1
  <2>2. CASE ~in.en
    <3>1. Asked(c, in) = <<>> /\ Again(c, in) = Added(c, ag[c], in)
      BY <1>3, <2>2
    <3> QED
      BY <1>4, <3>1
  <2> QED
    BY <2>1, <2>2
<1> QED
  BY <1>4, <1>5

-----------------------------------------------------------------------------
(* The account: what a peripheral is still to be given is the words on     *)
(* their way, one for each read, and then what is left to read.            *)
AccountOf(c) == \E w \in Seq(Int) : Len(w) = Sent(c) /\ todo[c] = w \o Rest(c)
AccountInv ==
  /\ CreditInv /\ PendingWaits
  /\ \A c \in Channel : ag[c].counter \in Nat /\ AccountOf(c)

(* The word an edge puts on its way.                                       *)
Pushed(c) ==
  IF Sample /\ rGrant = c THEN <<IF ag[c].en THEN ag[c].address ELSE Any>> ELSE <<>>

(* Without a clear, an edge moves a word from what is left to what is on   *)
(* its way when it pushes a read, and adds what software asks for.         *)
LEMMA RestEdge ==
  ASSUME Liberties = {}, ChannelType, PendingWaits, NEW cmd, NEW set,
         Edge(cmd, set), Legal(cmd, set), NEW c \in Channel, ~cmd[c].clr,
         ag[c].counter \in Nat
  PROVE  LET in == Inputs(c, cmd, set) IN
         /\ Rest(c) \in Seq(Int) /\ Rest(c)' \in Seq(Int)
         /\ Stray(c) \in Seq(Int) /\ Again(c, in) \in Seq(Int) /\ Asked(c, in) \in Seq(Int)
         /\ (Rest(c) \o Stray(c)) \o (Again(c, in) \o Asked(c, in)) = Pushed(c) \o Rest(c)'
<1> DEFINE in == Inputs(c, cmd, set)
           g == ag[c]
           h == ag'[c]
           f == cfg[c]
           e == set[c]
<1>1. /\ g \in Gen /\ h \in Gen /\ f \in Config /\ e \in Config /\ h = AddrgenNext(g, in)
      /\ cfg'[c] = e
  <2>1. ChannelType'
    BY EdgeKeepsChannelType
  <2> QED
    BY <2>1 DEF ChannelType, Edge, Generators
<1>2. /\ in.start \in Nat /\ in.size \in Nat /\ in.bytes \in Nat
      /\ in.en = cmd[c].en /\ in.clr = cmd[c].clr
  BY InputsTyped
<1>3. /\ in.start = e.start /\ in.size = e.size /\ in.bytes = Bytes[c]
      /\ in.grant = (rGrant = c) /\ in.go = Sample
  BY DEF Inputs
<1>4. /\ in.en \in BOOLEAN /\ in.clr \in BOOLEAN /\ ~in.clr
      /\ in.en => ~g.pending
      /\ ~in.en => f.start = e.start /\ f.size = e.size
      /\ g.pending => g.en
  BY <1>2 DEF Legal, PendingWaits
<1>5. /\ Rest(c) = Running(c, g) \o Waiting(c, g, f)
      /\ Rest(c)' = Running(c, h) \o Waiting(c, h, e)
  <2>1. Rest(c)' = Running(c, h) \o Waiting(c, h, cfg'[c])
    BY DEF Rest, Running, Waiting, Course, Words, Beats
  <2> QED
    BY <1>1, <2>1 DEF Rest
<1>6. g.counter \in Nat /\ h.counter \in Nat
  BY <1>1, <1>2, CounterStep
<1>7. /\ Running(c, g) \in Seq(Int) /\ Waiting(c, g, f) \in Seq(Int) /\ Rest(c) \in Seq(Int)
      /\ Rest(c)' \in Seq(Int)
  BY <1>1, <1>5, <1>6, RestTyped
<1>8. Again(c, in) \in Seq(Int) /\ Asked(c, in) \in Seq(Int) /\ Stray(c) \in Seq(Int)
  <2>1. Any \in Int
    BY DEF Any
  <2>2. Stray(c) \in Seq(Int)
    BY <2>1, EmptySeq DEF Stray
  <2> QED
    BY <1>2, <1>4, <2>2, AddedIs
<1>9. Steps(g, in, h)
  <2> HIDE DEF in, g, h
  <2>1. \/ Cleared(g, in, h) \/ Stays(g, in, h) \/ Begins(g, in, h)
        \/ Rests(g, in, h) \/ Moves(g, in, h) \/ Ends(g, in, h)
    BY <1>1, <1>2, <1>4, GenStep
  <2>2. ~Cleared(g, in, h)
    BY <1>4 DEF Cleared
  <2> QED
    BY <2>1, <2>2 DEF Steps
<1>10. Rest(c) \o Added(c, g, in) = Beaten(g, in) \o Rest(c)'
  <2> HIDE DEF in, g, h, f, e
  <2>1. Running(c, g) \o Waiting(c, g, f) \o Added(c, g, in) =
        Beaten(g, in) \o (Running(c, h) \o Waiting(c, h, e))
    <3>1. Before(c, g, f, in, e) /\ h \in Gen
      BY <1>1, <1>3, <1>4, <1>6 DEF Before
    <3> QED
      BY <1>9, <3>1, RestStep, SMTT(30)
  <2> QED
    BY <1>5, <2>1
<1>11. Again(c, in) \o Asked(c, in) = Added(c, g, in)
  BY <1>2, <1>4, AddedIs
<1>12. CASE g.en
  <2>1. Stray(c) = <<>> /\ Pushed(c) = Beaten(g, in)
    BY <1>3, <1>12 DEF Stray, Pushed, Beaten, Beat
  <2>2. Rest(c) \o Stray(c) = Rest(c)
    BY <1>7, <2>1
  <2> QED
    BY <1>7, <1>8, <1>10, <1>11, <2>1, <2>2
<1>13. CASE ~g.en
  <2>1. Rest(c) = <<>> /\ Pushed(c) = Stray(c) /\ Beaten(g, in) = <<>>
    <3>1. Running(c, g) = <<>> /\ Waiting(c, g, f) = <<>>
      BY <1>4, <1>13 DEF Running, Waiting
    <3> QED
      BY <1>5, <1>13, <3>1 DEF Stray, Pushed, Beaten, Beat
  <2>2. Added(c, g, in) \in Seq(Int)
    BY <1>8, <1>11, ConcatProperties
  <2>3. Added(c, g, in) = Rest(c)'
    BY <1>7, <1>10, <2>1, <2>2
  <2>4. Rest(c) \o Stray(c) = Pushed(c)
    BY <1>8, <2>1
  <2> QED
    BY <1>7, <1>8, <1>11, <2>3, <2>4
<1> QED
  BY <1>12, <1>13

(* A clear leaves nothing to read.                                         *)
LEMMA ClearedRest ==
  ASSUME Liberties = {}, ChannelType, PendingWaits, NEW cmd, NEW set,
         Edge(cmd, set), Legal(cmd, set), NEW c \in Channel, cmd[c].clr
  PROVE  Rest(c)' = <<>>
<1> DEFINE in == Inputs(c, cmd, set)
           g == ag[c]
           h == AddrgenNext(g, in)
<1>1. ag'[c] = h /\ g \in Gen
  BY DEF Edge, Generators, ChannelType
<1>2. /\ in.start \in Nat /\ in.size \in Nat /\ in.bytes \in Nat
      /\ in.en = cmd[c].en /\ in.clr = cmd[c].clr
  BY InputsTyped
<1>3. /\ in.en \in BOOLEAN /\ in.clr \in BOOLEAN /\ in.clr /\ ~in.en /\ ~g.pending
      /\ g.pending => g.en
  BY <1>2 DEF Legal, PendingWaits
<1> HIDE DEF in, g
<1>4. \/ Cleared(g, in, h) \/ Stays(g, in, h) \/ Begins(g, in, h)
      \/ Rests(g, in, h) \/ Moves(g, in, h) \/ Ends(g, in, h)
  BY <1>1, <1>2, <1>3, GenStep
<1>5. ~h.en /\ ~h.pending
  BY <1>3, <1>4 DEF Cleared, Stays, Begins, Rests, Moves, Ends
<1> HIDE DEF h
<1>6. Running(c, ag'[c]) = <<>> /\ Waiting(c, ag'[c], cfg'[c]) = <<>>
  BY <1>1, <1>5 DEF Running, Waiting
<1>7. Rest(c)' = Running(c, ag'[c]) \o Waiting(c, ag'[c], cfg'[c])
  BY DEF Rest, Running, Waiting, Course, Words, Beats
<1> QED
  BY <1>6, <1>7

(* Taking the first of the words on their way.                             *)
LEMMA TailOfWay ==
  ASSUME NEW w \in Seq(Int), NEW r \in Seq(Int), Len(w) > 0
  PROVE  /\ w \o r # <<>> /\ Head(w \o r) = Head(w)
         /\ Tail(w) \in Seq(Int) /\ Len(Tail(w)) = Len(w) - 1
         /\ Tail(w \o r) = Tail(w) \o r
<1>1. w \o r # <<>> /\ Head(w \o r) = Head(w)
  OBVIOUS
<1>2. Tail(w) \in Seq(Int) /\ Len(Tail(w)) = Len(w) - 1
  OBVIOUS
<1>3. Tail(w \o r) = Tail(w) \o r
  BY SMTT(30)
<1> QED
  BY <1>1, <1>2, <1>3

(* How the words on their way change: a clear leaves as many as there are  *)
(* reads, without a promise of their content; else the first is delivered  *)
(* and the one that is pushed comes last.                                  *)
LEMMA WayStep ==
  ASSUME Liberties = {}, AccountInv, NEW cmd, NEW set,
         Edge(cmd, set), Legal(cmd, set), NEW c \in Channel,
         NEW w \in Seq(Int), Len(w) = Sent(c), todo[c] = w \o Rest(c)
  PROVE  \E x \in Seq(Int) :
           /\ Len(x) = Sent(c)' /\ todo'[c] = x \o Rest(c)'
           /\ cmd[c].clr => x = [i \in 1 .. Sent(c)' |-> Any]
           /\ ~cmd[c].clr => x = (IF Valid(c) THEN Tail(w) ELSE w) \o Pushed(c)
<1> DEFINE in == Inputs(c, cmd, set)
           new == Sample /\ rGrant = c
<1>1. /\ ChannelType /\ PortInv /\ PendingWaits /\ ag[c].counter \in Nat
  BY DEF AccountInv, CreditInv
<1>2. PICK grants, answers : PortEdge(grants, answers)
  BY DEF Edge, Port
<1>3. /\ Sent(c) \in Nat /\ Sent(c)' \in Nat
      /\ Valid(c) => Sent(c) > 0
      /\ Sent(c)' + One(Valid(c)) = Sent(c) + One(new)
  BY <1>1, <1>2, SentEdge
<1>4. todo'[c] = IF cmd[c].clr THEN [i \in 1 .. Sent(c)' |-> Any] ELSE Account(c, in)
  BY DEF Edge, Generators
<1>6. CASE cmd[c].clr
  <2> DEFINE x == [i \in 1 .. Sent(c)' |-> Any]
  <2>1. Any \in Int
    BY DEF Any
  <2>2. x \in Seq(Int) /\ Len(x) = Sent(c)'
    BY <1>3, <2>1, IsASeq, LenProperties
  <2>3. Rest(c)' = <<>>
    BY <1>1, <1>6, ClearedRest
  <2> HIDE DEF x
  <2>4. x \o <<>> = x
    BY <2>2
  <2>5. todo'[c] = x
    BY <1>4, <1>6 DEF x
  <2> QED
    BY <1>6, <2>2, <2>3, <2>4, <2>5 DEF x
<1>7. CASE ~cmd[c].clr
  <2> DEFINE r == Rest(c)
             s == Stray(c)
             a == Again(c, in)
             q == Asked(c, in)
             p == Pushed(c)
             n == Rest(c)'
  <2>1. w \in Seq(Int) /\ Len(w) = Sent(c) /\ todo[c] = w \o r
    OBVIOUS
  <2>2. /\ r \in Seq(Int) /\ s \in Seq(Int) /\ a \in Seq(Int) /\ q \in Seq(Int)
        /\ n \in Seq(Int) /\ (r \o s) \o (a \o q) = p \o n
    BY <1>1, <1>7, RestEdge
  <2>3. p \in Seq(Int) /\ Len(p) = One(new)
    <3>1. ag[c].address \in Int /\ Any \in Int
      BY <1>1 DEF ChannelType, Gen, Any
    <3> QED
      BY <3>1, EmptySeq DEF Pushed, One
  <2> DEFINE v == IF Valid(c) THEN Tail(w) ELSE w
  <2>4. todo'[c] = (IF Valid(c) /\ todo[c] # <<>> THEN Tail(todo[c]) ELSE todo[c])
                   \o s \o a \o q
    BY <1>4, <1>7 DEF Account
  <2> HIDE DEF r, s, a, q, p, n, new
  <2>5. /\ v \in Seq(Int)
        /\ Len(v) + One(Valid(c)) = Len(w)
        /\ (IF Valid(c) /\ todo[c] # <<>> THEN Tail(todo[c]) ELSE todo[c]) = v \o r
    <3>1. CASE Valid(c)
      <4>1. Len(w) > 0
        BY <1>3, <2>1, <3>1
      <4>2. /\ w \o r # <<>> /\ Tail(w) \in Seq(Int) /\ Len(Tail(w)) = Len(w) - 1
            /\ Tail(w \o r) = Tail(w) \o r
        BY <2>2, <4>1, TailOfWay
      <4>3. v = Tail(w) /\ One(Valid(c)) = 1
        BY <3>1 DEF One
      <4>4. (IF Valid(c) /\ todo[c] # <<>> THEN Tail(todo[c]) ELSE todo[c]) = Tail(w) \o r
        BY <2>1, <3>1, <4>2
      <4>5. Len(w) - 1 + 1 = Len(w)
        BY <2>1
      <4> HIDE DEF v
      <4> QED
        BY <4>2, <4>3, <4>4, <4>5, Zenon
    <3>2. CASE ~Valid(c)
      BY <2>1, <2>2, <3>2 DEF One
    <3> QED
      BY <3>1, <3>2
  <2> HIDE DEF v
  <2>6. todo'[c] = (v \o p) \o n
    <3>1. /\ r \o s \in Seq(Int) /\ a \o q \in Seq(Int) /\ v \o (r \o s) \in Seq(Int)
          /\ v \o r \in Seq(Int)
      <4>1. r \o s \in Seq(Int) /\ a \o q \in Seq(Int) /\ v \o r \in Seq(Int)
        BY <2>2, <2>5, ConcatProperties
      <4> QED
        BY <2>5, <4>1, ConcatProperties
    <3>2. (v \o r) \o s = v \o (r \o s)
      BY <2>2, <2>5, Regroup
    <3>3. (v \o (r \o s)) \o a \o q = (v \o (r \o s)) \o (a \o q)
      <4>1. PICK x \in Seq(Int) : x = v \o (r \o s)
        BY <3>1
      <4>2. (x \o a) \o q = x \o (a \o q)
        BY <2>2, Regroup
      <4> QED
        BY <4>1, <4>2, Zenon
    <3>4. (v \o (r \o s)) \o (a \o q) = v \o ((r \o s) \o (a \o q))
      BY <2>5, <3>1, Regroup
    <3>5. v \o (p \o n) = (v \o p) \o n
      BY <2>2, <2>3, <2>5, Regroup
    <3> QED
      BY <2>2, <2>4, <2>5, <3>2, <3>3, <3>4, <3>5
  <2>7. v \o p \in Seq(Int) /\ Len(v \o p) = Len(v) + Len(p)
    BY <2>3, <2>5, ConcatProperties
  <2>8. Len(v \o p) = Sent(c)'
    <3> DEFINE x == One(Valid(c))
               y == One(new)
    <3>1. x \in Nat /\ y \in Nat
      BY DEF One
    <3> HIDE DEF x, y
    <3>2. PICK k \in Nat : k = Sent(c)'
      BY <1>3
    <3>3. PICK l \in Nat : l = Len(v)
      BY <2>5
    <3>4. /\ k + x = Sent(c) + y /\ l + x = Sent(c) /\ Len(v \o p) = l + y
      BY <1>3, <2>1, <2>3, <2>5, <2>7, <3>2, <3>3 DEF x, y
    <3>5. Len(v \o p) = k
      BY <1>3, <3>1, <3>4
    <3> QED
      BY <3>2, <3>5
  <2> QED
    BY <1>7, <2>6, <2>7, <2>8 DEF n, v, p
<1> QED
  BY <1>6, <1>7

LEMMA AccountEdge ==
  ASSUME Liberties = {}, AccountInv, NEW cmd, NEW set,
         Edge(cmd, set), Legal(cmd, set), NEW c \in Channel
  PROVE  AccountOf(c)'
<1>1. PICK w \in Seq(Int) : Len(w) = Sent(c) /\ todo[c] = w \o Rest(c)
  BY DEF AccountInv, AccountOf
<1>2. \E x \in Seq(Int) : Len(x) = Sent(c)' /\ todo'[c] = x \o Rest(c)'
  BY <1>1, WayStep
<1> QED
  BY <1>2 DEF AccountOf

(* The account holds at all times.                                         *)
LEMMA AccountHolds ==
  ASSUME Liberties = {}
  PROVE  Spec => []AccountInv
<1>1. Init /\ CreditInv => AccountInv
  <2> SUFFICES ASSUME Init, CreditInv PROVE AccountInv
    OBVIOUS
  <2>1. PendingWaits
    BY DEF Init, PendingWaits, Reset
  <2>2. ASSUME NEW c \in Channel PROVE ag[c].counter \in Nat /\ AccountOf(c)
    <3>1. {i \in 1 .. Len(queue) : queue[i].ch = c} = {}
      BY DEF Init
    <3>2. Queued(c) = 0
      BY <3>1, FS_EmptySet DEF Queued
    <3>3. Sent(c) = 0
      BY <3>2 DEF Init, Sent, Awaited, Valid, DemuxReset
    <3>4. Rest(c) = <<>> \o <<>> /\ todo[c] = <<>>
      BY DEF Init, Rest, Running, Waiting, Reset
    <3>5. <<>> \in Seq(Int) /\ Len(<<>>) = 0 /\ <<>> = <<>> \o (<<>> \o <<>>)
      OBVIOUS
    <3> QED
      BY <3>3, <3>4, <3>5 DEF Init, Reset, AccountOf
  <2> QED
    BY <2>1, <2>2 DEF AccountInv
<1>2. AccountInv /\ CreditInv' /\ PendingWaits' /\ [Next]_vars => AccountInv'
  <2> SUFFICES ASSUME AccountInv, CreditInv', PendingWaits', [Next]_vars
               PROVE  AccountInv'
    OBVIOUS
  <2>1. CASE Next
    <3>1. PICK cmd, set : Edge(cmd, set) /\ Legal(cmd, set)
      BY <2>1, NextIsEdge DEF AccountInv, CreditInv
    <3>2. ASSUME NEW c \in Channel PROVE ag'[c].counter \in Nat /\ AccountOf(c)'
      <4>1. ag[c] \in Gen /\ ag[c].counter \in Nat
        BY DEF AccountInv, CreditInv, ChannelType
      <4>2. ag'[c].counter \in Nat
        BY <3>1, <4>1, InputsTyped, CounterStep DEF Edge, Generators
      <4>3. AccountOf(c)'
        BY <3>1, AccountEdge
      <4> QED
        BY <4>2, <4>3
    <3> QED
      BY <3>2 DEF AccountInv
  <2>2. CASE UNCHANGED vars
    <3>1. \A c \in Channel : ag'[c] = ag[c] /\ Sent(c)' = Sent(c) /\ Rest(c)' = Rest(c)
      BY <2>2 DEF vars, port, Sent, Queued, Awaited, Valid, Rest, Running, Waiting,
         Course, Words, Beats
    <3>2. todo' = todo
      BY <2>2 DEF vars
    <3>3. \A c \in Channel : AccountOf(c)' = AccountOf(c)
      BY <3>1, <3>2 DEF AccountOf
    <3> QED
      BY <3>1, <3>3 DEF AccountInv
  <2> QED
    BY <2>1, <2>2
<1>3. Spec => []CreditInv
  BY CreditsHold
<1>4. Spec => []PendingWaits
  BY PendingBehindRunning
<1> QED
  BY <1>1, <1>2, <1>3, <1>4, PTL DEF Spec

(* No word of a transfer is lost or read twice, whatever the transfers,    *)
(* the targets' answers and the clears, as long as software clears no      *)
(* channel with a queued transfer (which run udma_clear shows to lead to   *)
(* a transfer waiting for none).                                           *)
THEOREM NoWordLost ==
  ASSUME Liberties = {}
  PROVE  Spec => []WordsAccounted
<1>1. AccountInv => WordsAccounted
  <2> SUFFICES ASSUME AccountInv, NEW c \in Channel
               PROVE  Len(todo[c]) =
                        Sent(c) + (IF ag[c].en THEN Beats(c, ag[c].counter) ELSE 0)
                                + (IF ag[c].pending THEN Beats(c, cfg[c].size) ELSE 0)
    BY DEF WordsAccounted
  <2>1. ag[c] \in Gen /\ cfg[c] \in Config /\ ag[c].counter \in Nat
    BY DEF AccountInv, CreditInv, ChannelType
  <2>2. PICK w \in Seq(Int) : Len(w) = Sent(c) /\ todo[c] = w \o Rest(c)
    BY DEF AccountInv, AccountOf
  <2> DEFINE r == Running(c, ag[c])
             q == Waiting(c, ag[c], cfg[c])
             m == IF ag[c].en THEN Beats(c, ag[c].counter) ELSE 0
             n == IF ag[c].pending THEN Beats(c, cfg[c].size) ELSE 0
  <2>3. r \in Seq(Int) /\ q \in Seq(Int) /\ Rest(c) = r \o q
    BY <2>1, RestTyped DEF Rest
  <2>4. /\ ag[c].address \in Nat /\ ag[c].counter \in Nat
        /\ cfg[c].start \in Nat /\ cfg[c].size \in Nat
    BY <2>1 DEF Gen, Config
  <2>5. Len(r) = m
    <3>1. Len(Course(c, ag[c].address, ag[c].counter)) = Beats(c, ag[c].counter)
      BY <2>4, CourseIs
    <3> QED
      BY <3>1 DEF Running
  <2>6. Len(q) = n
    <3>1. Len(Course(c, cfg[c].start, cfg[c].size)) = Beats(c, cfg[c].size)
      BY <2>4, CourseIs
    <3> QED
      BY <3>1 DEF Waiting
  <2> HIDE DEF r, q, m, n
  <2>7. r \o q \in Seq(Int) /\ Len(r \o q) = Len(r) + Len(q)
    BY <2>3, ConcatProperties
  <2>8. Len(w \o (r \o q)) = Len(w) + Len(r \o q)
    BY <2>7, ConcatProperties
  <2>9. Len(w) \in Nat /\ Len(r) \in Nat /\ Len(q) \in Nat
    BY <2>3
  <2>10. Len(todo[c]) = Sent(c) + m + n
    BY <2>2, <2>3, <2>5, <2>6, <2>7, <2>8, <2>9
  <2> QED
    BY <2>10 DEF m, n
<1> QED
  BY <1>1, AccountHolds, PTL

-----------------------------------------------------------------------------
(* Where a read lies in memory, and the bytes that come back for it.       *)
Base(r) == r.addr - Offset(r)

LEMMA Remainder ==
  ASSUME NEW a \in Nat, NEW d \in Nat \ {0}
  PROVE  a % d \in Nat /\ a % d < d /\ a % d <= a
  OBVIOUS

LEMMA ReadLies ==
  ASSUME NEW r \in Read
  PROVE  /\ Offset(r) \in Nat /\ Offset(r) < WordBytes /\ Base(r) \in Nat
         /\ r.addr = Base(r) + Offset(r)
         /\ Bytes[r.ch] \in Nat /\ Bytes[r.ch] > 0 /\ Bytes[r.ch] <= WordBytes
         /\ WordBytes \in Nat
<1>1. r.ch \in Channel /\ r.addr \in Nat
  BY DEF Read
<1>2. /\ Bytes[r.ch] \in Nat /\ Bytes[r.ch] > 0 /\ Bytes[r.ch] <= WordBytes
      /\ WordBytes \in Nat \ {0}
  BY <1>1, BeatBytes
<1> DEFINE o == Offset(r)
<1>3. o \in Nat /\ o < WordBytes /\ o <= r.addr
  BY <1>1, <1>2, Remainder DEF Offset
<1> HIDE DEF o
<1>4. r.addr - o \in Nat /\ r.addr = (r.addr - o) + o
  BY <1>1, <1>3
<1> QED
  BY <1>2, <1>3, <1>4 DEF o, Base

(* A stretch of a word is the bytes at its addresses.                      *)
LEMMA Stretch ==
  ASSUME NEW w \in Nat, NEW m \in Nat, NEW n \in Nat, m + n <= WordBytes
  PROVE  SubSeq(WordAt(w), m + 1, m + n) = [i \in 1 .. n |-> w + m + i - 1]
<1>1. WordBytes \in Nat
  BY TxAssumption
<1>2. SubSeq(WordAt(w), m + 1, m + n) =
      [i \in 1 .. (1 + (m + n) - (m + 1)) |-> WordAt(w)[i + (m + 1) - 1]]
  OBVIOUS
<1>3. 1 + (m + n) - (m + 1) = n
  OBVIOUS
<1>4. ASSUME NEW i \in 1 .. n PROVE WordAt(w)[i + (m + 1) - 1] = w + m + i - 1
  <2>1. i + (m + 1) - 1 = m + i /\ m + i \in 1 .. WordBytes
    BY <1>1
  <2>2. WordAt(w)[m + i] = w + (m + i) - 1
    BY <2>1 DEF WordAt
  <2>3. w + (m + i) - 1 = w + m + i - 1
    OBVIOUS
  <2> QED
    BY <2>1, <2>2, <2>3
<1> QED
  BY <1>2, <1>3, <1>4

(* A beat that lies in one word is a stretch of it.                        *)
LEMMA DataWhole ==
  ASSUME rResp \in Read, ~Split(rResp), ~na, ~rNa
  PROVE  Data(WordAt(Base(rResp))) = Datum(rResp.ch, rResp.addr)
<1> DEFINE o == Offset(rResp)
           b == Bytes[rResp.ch]
           x == Base(rResp)
<1>1. /\ o \in Nat /\ x \in Nat /\ b \in Nat /\ rResp.addr = x + o /\ o + b <= WordBytes
      /\ WordBytes \in Nat
  BY ReadLies DEF Split
<1>2. Data(WordAt(x)) = SubSeq(WordAt(x), o + 1, o + b)
  <2>1. ~(o + b > WordBytes)
    BY <1>1
  <2>2. Lane(WordAt(x)) = SubSeq(WordAt(x), o + 1, o + b)
    BY <2>1, Zenon DEF Lane
  <2> QED
    BY <2>2, Zenon DEF Data
<1>3. Datum(rResp.ch, rResp.addr) = [i \in 1 .. b |-> x + o + i - 1]
  BY <1>1 DEF Datum
<1> HIDE DEF o, b, x
<1> QED
  BY <1>1, <1>2, <1>3, Stretch DEF x

(* A beat that lies in two words is put together from the end of the first *)
(* and the beginning of the second.                                        *)
LEMMA DataJoined ==
  ASSUME rResp \in Read, Split(rResp), ~na, rNa,
         rData = Upper(WordAt(Base(rResp)))
  PROVE  Data(WordAt(Base(rResp) + WordBytes)) = Datum(rResp.ch, rResp.addr)
<1> DEFINE o == Offset(rResp)
           b == Bytes[rResp.ch]
           x == Base(rResp)
           n == WordBytes - o
           lo == [i \in 1 .. n |-> x + o + i - 1]
           hi == [i \in 1 .. b - n |-> x + WordBytes + i - 1]
           all == Datum(rResp.ch, rResp.addr)
<1>1. /\ o \in Nat /\ x \in Nat /\ b \in Nat /\ rResp.addr = x + o /\ o + b > WordBytes
      /\ o < WordBytes /\ b <= WordBytes /\ WordBytes \in Nat
  BY ReadLies DEF Split
<1>2. n \in Nat /\ n > 0 /\ b - n \in Nat /\ b > 1 /\ o + n = WordBytes /\ b - n <= WordBytes
  BY <1>1
<1>3. rData = lo
  <2>1. SubSeq(WordAt(x), o + 1, WordBytes) = rData
    BY DEF Upper
  <2> HIDE DEF o, b, x, n
  <2>2. SubSeq(WordAt(x), o + 1, o + n) = [i \in 1 .. n |-> x + o + i - 1]
    <3>1. x \in Nat /\ o \in Nat /\ n \in Nat /\ o + n <= WordBytes
      BY <1>1, <1>2
    <3> QED
      BY <3>1, Stretch
  <2> QED
    BY <1>2, <2>1, <2>2
<1>4. Data(WordAt(x + WordBytes)) = SubSeq(rData, 1, n) \o SubSeq(WordAt(x + WordBytes), 1, b - n)
  BY <1>2 DEF Data, Joined
<1>5. SubSeq(WordAt(x + WordBytes), 1, b - n) = hi
  <2> DEFINE w == x + WordBytes
             k == b - n
  <2>1. w \in Nat /\ k \in Nat /\ 0 + k <= WordBytes /\ 0 + 1 = 1 /\ 0 + k = k
    BY <1>1, <1>2
  <2> HIDE DEF w, k, n, x
  <2>2. SubSeq(WordAt(w), 0 + 1, 0 + k) = [i \in 1 .. k |-> w + 0 + i - 1]
    BY <2>1, Stretch
  <2>3. w + 0 = w
    BY <2>1
  <2> QED
    BY <2>1, <2>2, <2>3 DEF w, k
<1> HIDE DEF o, b, x, n
<1>6. lo \in Seq(Int) /\ Len(lo) = n
  <2>1. \A i \in 1 .. n : x + o + i - 1 \in Int
    BY <1>1
  <2> QED
    BY <1>2, <2>1, IsASeq, LenProperties
<1>7. hi \in Seq(Int) /\ Len(hi) = b - n
  <2>1. \A i \in 1 .. b - n : x + WordBytes + i - 1 \in Int
    BY <1>1
  <2> QED
    BY <1>2, <2>1, IsASeq, LenProperties
<1>8. all \in Seq(Int) /\ Len(all) = b /\ \A i \in 1 .. b : all[i] = x + o + i - 1
  <2>1. all = [i \in 1 .. b |-> x + o + i - 1]
    BY <1>1 DEF Datum, b
  <2>2. \A i \in 1 .. b : x + o + i - 1 \in Int
    BY <1>1
  <2> HIDE DEF all
  <2> QED
    BY <1>1, <2>1, <2>2, IsASeq, LenProperties
<1>9. /\ \A i \in 1 .. n : lo[i] = x + o + i - 1
      /\ \A i \in 1 .. b - n : hi[i] = x + WordBytes + i - 1
  OBVIOUS
<1> HIDE DEF lo, hi, all
<1>10. SubSeq(rData, 1, n) = lo
  BY <1>2, <1>3, <1>6, SubSeqFull
<1>11. lo \o hi = all
  <2>1. lo \o hi \in Seq(Int) /\ Len(lo \o hi) = b
    BY <1>1, <1>2, <1>6, <1>7, ConcatProperties
  <2>2. ASSUME NEW i \in 1 .. b PROVE (lo \o hi)[i] = all[i]
    <3>1. CASE i <= n
      <4>1. (lo \o hi)[i] = lo[i]
        BY <1>2, <1>6, <1>7, <3>1, ConcatProperties
      <4> QED
        <5>1. i \in 1 .. n
          BY <1>2, <3>1
        <5>2. lo[i] = x + o + i - 1 /\ all[i] = x + o + i - 1
          BY <1>8, <1>9, <5>1
        <5> QED
          BY <4>1, <5>2
    <3>2. CASE i > n
      <4>1. i - n \in 1 .. b - n
        BY <1>1, <1>2, <3>2
      <4>2. (lo \o hi)[i] = hi[i - n]
        BY <1>1, <1>2, <1>6, <1>7, <3>2, ConcatProperties
      <4>3. hi[i - n] = x + WordBytes + (i - n) - 1
        BY <1>9, <4>1
      <4>4. x + WordBytes + (i - n) - 1 = x + o + i - 1
        BY <1>1, <1>2, <3>2
      <4> QED
        <5>1. all[i] = x + o + i - 1
          BY <1>8
        <5> QED
          BY <4>2, <4>3, <4>4, <5>1, Zenon
    <3>3. i <= n \/ i > n
      BY <1>1, <1>2
    <3> QED
      BY <3>1, <3>2, <3>3, Zenon
  <2> QED
    BY <1>8, <2>1, <2>2, SeqEqual
<1> QED
  BY <1>4, <1>5, <1>10, <1>11 DEF x, all

(* Of a first word, the end is kept.                                       *)
LEMMA DataKept ==
  ASSUME rResp \in Read, Split(rResp), na, NEW word
  PROVE  Data(word) = Upper(word)
<1>1. Bytes[rResp.ch] > 1
  BY ReadLies DEF Split
<1> QED
  BY <1>1 DEF Data

-----------------------------------------------------------------------------
(* A read of a target that may take its time lies in one word; the reads   *)
(* in the queue are such.                                                  *)
Fits(r) == Split(r) => Dest[r.ch] = L2
QueueFits == \A i \in 1 .. Len(queue) : Fits(queue[i])

(* What the registers before L2 know of the read that is awaited: which    *)
(* word its target owes, that a second half follows the first, and that    *)
(* the first is kept until then.                                           *)
WayInv ==
  /\ Fits(rResp)
  /\ na => rResp = First /\ Split(rResp)
  /\ demux.pending =>
       /\ demux.active = Dest[rResp.ch]
       /\ owed[demux.active] =
            IF Split(rResp) /\ ~na THEN Base(rResp) + WordBytes ELSE Base(rResp)
       /\ ~na => (rNa <=> Split(rResp))
  /\ Split(rResp) /\ (na <=> ~demux.pending) => rData = Upper(WordAt(Base(rResp)))

(* The word that arrives is the one the read asks for, whole or joined.    *)
LEMMA Arrival ==
  ASSUME PortInv, WayInv, NEW grants, NEW answers, PortEdge(grants, answers),
         rValid'
  PROVE  rData' = Datum(rDly', rResp.addr)
<1>1. /\ demux.pending /\ ~na /\ rDly' = rResp.ch
      /\ rData' = Data(WordAt(owed[demux.active]))
  BY DEF PortEdge, RValid
<1>2. rResp \in Read /\ WordBytes \in Nat
  BY TxAssumption DEF PortInv
<1>3. CASE Split(rResp)
  <2>1. owed[demux.active] = Base(rResp) + WordBytes
    BY <1>1, <1>3 DEF WayInv
  <2>2. rNa /\ rData = Upper(WordAt(Base(rResp)))
    BY <1>1, <1>3 DEF WayInv
  <2>3. Data(WordAt(Base(rResp) + WordBytes)) = Datum(rResp.ch, rResp.addr)
    BY <1>1, <1>2, <1>3, <2>2, DataJoined
  <2> QED
    BY <1>1, <2>1, <2>3
<1>4. CASE ~Split(rResp)
  <2>1. owed[demux.active] = Base(rResp) /\ ~rNa
    BY <1>1, <1>4 DEF WayInv
  <2>2. Data(WordAt(Base(rResp))) = Datum(rResp.ch, rResp.addr)
    BY <1>1, <1>2, <1>4, <2>1, DataWhole
  <2> QED
    BY <1>1, <2>1, <2>2
<1> QED
  BY <1>3, <1>4

(* The second half's answer comes in the cycle after its grant, as r_is_na *)
(* supposes: a split read goes to a target that answers at once.           *)
LEMMA PortKeepsWay ==
  ASSUME ChannelType, PortInv, WayInv, QueueFits,
         NEW grants, NEW answers, Port(grants, answers)
  PROVE  WayInv'
<1> DEFINE gnt == L2Gnt(grants, answers)
           arrives == RValid(demux, answers)
           split == Split(First)
           popped == Popped(grants, answers)
<1>1. PortEdge(grants, answers)
  BY DEF Port
<1>2. /\ na' = IF na THEN ~gnt ELSE gnt /\ split
      /\ rNa' = na
      /\ rResp' = IF gnt /\ ~na THEN First ELSE rResp
      /\ rData' = IF arrives THEN Data(WordAt(owed[demux.active])) ELSE rData
      /\ demux' = DemuxNext(demux, L2Req, L2Sel, grants, answers)
      /\ owed' = [t \in Target |-> IF gnt /\ t = L2Sel THEN L2Word
                                   ELSE IF t \in answers THEN NoRead ELSE owed[t]]
  BY <1>1 DEF PortEdge
<1>3. /\ demux'.pending = (gnt \/ (demux.pending /\ ~arrives))
      /\ gnt => demux'.active = L2Sel
      /\ demux.pending /\ ~arrives => demux'.active = demux.active
      /\ popped = (gnt /\ (na \/ ~split))
      /\ gnt => queue # <<>> /\ (demux.pending => arrives)
      /\ arrives <=> demux.pending /\ demux.active \in answers
      /\ gnt \in BOOLEAN /\ arrives \in BOOLEAN /\ split \in BOOLEAN
  BY <1>2 DEF DemuxNext, L2Gnt, Gnt, Asks, L2Req, RValid, Popped, Split
<1>4. /\ na \in BOOLEAN /\ demux.pending \in BOOLEAN /\ rResp \in Read
      /\ na => queue # <<>>
  BY DEF PortInv
<1>5. queue # <<>> => /\ First \in Read /\ Fits(First) /\ L2Sel = Dest[First.ch]
                      /\ L2Word = IF na THEN Base(First) + WordBytes ELSE Base(First)
  <2> SUFFICES ASSUME queue # <<>>
               PROVE  /\ First \in Read /\ Fits(First) /\ L2Sel = Dest[First.ch]
                      /\ L2Word = IF na THEN Base(First) + WordBytes ELSE Base(First)
    OBVIOUS
  <2>1. queue \in Seq(Read)
    BY DEF PortInv
  <2>2. 1 \in 1 .. Len(queue) /\ First \in Read
    BY <2>1 DEF First
  <2>3. Fits(First)
    BY <2>2 DEF QueueFits, First
  <2>4. Base(First) \in Nat /\ Base(First) = First.addr - Offset(First)
    BY <2>2, ReadLies DEF Base
  <2>5. L2Word = IF na THEN Base(First) + WordBytes ELSE Base(First)
    BY <2>4 DEF L2Word
  <2> QED
    BY <2>2, <2>3, <2>5 DEF L2Sel
<1>6. queue # <<>> /\ ~popped => First' = First
  BY <1>1, QueueEdge DEF First
<1>7. demux.pending /\ Split(rResp) /\ ~na => arrives
  <2> SUFFICES ASSUME demux.pending, Split(rResp), ~na PROVE arrives
    OBVIOUS
  <2>1. demux.active = L2 /\ owed[demux.active] = Base(rResp) + WordBytes
    BY DEF WayInv, Fits
  <2>2. owed[L2] # NoRead
    BY <1>4, <2>1, ReadLies DEF NoRead
  <2>3. L2 \in answers
    BY <2>2 DEF Port, MayAnswer
  <2> QED
    BY <1>3, <2>1, <2>3
<1>8. (Base(rResp))' = Base(rResp') /\ (Split(rResp))' = Split(rResp') /\ (Fits(rResp))' = Fits(rResp')
  BY DEF Base, Split, Fits, Offset
<1>9. Fits(rResp') /\ (na' => rResp' = First' /\ Split(rResp'))
  <2> HIDE DEF gnt, arrives, split, popped
  <2>1. Fits(rResp')
    BY <1>2, <1>3, <1>5 DEF WayInv
  <2>2. na' => queue # <<>> /\ ~popped
    BY <1>2, <1>3, <1>4
  <2>3. na' => rResp' = First /\ Split(rResp')
    BY <1>2, <1>3, <1>4 DEF WayInv, split
  <2> QED
    BY <1>6, <2>1, <2>2, <2>3
<1>10. ASSUME demux'.pending
       PROVE  /\ demux'.active = Dest[rResp'.ch]
              /\ owed'[demux'.active] =
                   IF Split(rResp') /\ ~na' THEN Base(rResp') + WordBytes ELSE Base(rResp')
              /\ ~na' => (rNa' <=> Split(rResp'))
  <2>1. CASE gnt
    <3>1. rResp' = First /\ queue # <<>> /\ (na => Split(First))
      BY <1>2, <1>3, <2>1 DEF WayInv
    <3>2. demux'.active = Dest[First.ch] /\ L2Sel = Dest[First.ch] /\ Dest[First.ch] \in Target
      <4>1. First.ch \in Channel
        BY <1>5, <3>1 DEF Read
      <4> QED
        BY <1>3, <1>5, <2>1, <3>1, <4>1 DEF Target
    <3>3. owed'[demux'.active] = L2Word
      BY <1>2, <2>1, <3>2
    <3>4. L2Word = IF na THEN Base(First) + WordBytes ELSE Base(First)
      BY <1>5, <3>1
    <3> HIDE DEF gnt, arrives, popped
    <3>5. CASE na
      BY <1>2, <2>1, <3>1, <3>2, <3>3, <3>4, <3>5
    <3>6. CASE ~na
      BY <1>2, <2>1, <3>1, <3>2, <3>3, <3>4, <3>6 DEF split
    <3> QED
      BY <3>5, <3>6
  <2>2. CASE ~gnt
    <3>1. /\ demux.pending /\ ~arrives /\ rResp' = rResp /\ na' = na /\ rNa' = na
          /\ demux'.active = demux.active
      BY <1>2, <1>3, <1>4, <1>10, <2>2
    <3>2. demux.active = Dest[rResp.ch] /\ demux.active \in Target
      <4>1. rResp.ch \in Channel
        BY <1>4 DEF Read
      <4> QED
        BY <3>1, <4>1 DEF WayInv, Target
    <3>3. owed'[demux.active] = owed[demux.active]
      BY <1>2, <1>3, <2>2, <3>1, <3>2
    <3>4. ~na => ~Split(rResp)
      BY <1>7, <3>1
    <3> QED
      BY <3>1, <3>2, <3>3, <3>4 DEF WayInv
  <2> QED
    BY <2>1, <2>2
<1>11. ASSUME Split(rResp'), na' <=> ~demux'.pending
       PROVE  rData' = (Upper(WordAt(Base(rResp))))'
  <2>1. (Upper(WordAt(Base(rResp))))' = SubSeq(WordAt(Base(rResp')), Offset(rResp') + 1, WordBytes)
    BY DEF Upper, Base, Offset, WordAt
  <2>2. Upper(WordAt(Base(rResp))) = SubSeq(WordAt(Base(rResp)), Offset(rResp) + 1, WordBytes)
    BY DEF Upper
  <2>3. rResp' = rResp /\ Split(rResp)
    BY <1>2, <1>3, <1>4, <1>11
  <2>4. rData' = Upper(WordAt(Base(rResp)))
    <3>1. CASE arrives
      <4>1. na /\ demux.pending
        BY <1>2, <1>3, <1>4, <1>7, <1>11, <2>3, <3>1
      <4>2. owed[demux.active] = Base(rResp)
        BY <4>1 DEF WayInv
      <4>3. Data(WordAt(Base(rResp))) = Upper(WordAt(Base(rResp)))
        BY <1>4, <2>3, <4>1, DataKept
      <4> QED
        BY <1>2, <3>1, <4>2, <4>3
    <3>2. CASE ~arrives
      <4>1. na <=> ~demux.pending
        BY <1>2, <1>3, <1>4, <1>11, <2>3, <3>2
      <4> QED
        BY <1>2, <2>3, <3>2, <4>1 DEF WayInv
    <3> QED
      BY <3>1, <3>2
  <2> QED
    BY <2>1, <2>2, <2>3, <2>4
<1> QED
  BY <1>8, <1>9, <1>10, <1>11 DEF WayInv

-----------------------------------------------------------------------------
(* The addresses of the beats of what software may ask of a channel, and   *)
(* what makes the rule of the second half hold: a beat that lies in two    *)
(* words is asked of no target but L2.                                     *)
On(c, a) == \E j \in Jobs[c], k \in Nat : a = j.start + k * Bytes[c]
SplitsAtL2 ==
  \A c \in Channel, a \in Nat : On(c, a) => Fits([ch |-> c, addr |-> a])

Lands(c, g) == IF g.en THEN On(c, g.address) ELSE g.address = 0
AddressInv ==
  \A c \in Channel :
    /\ Lands(c, ag[c])
    /\ ag[c].en \/ ag[c].pending \/ cfg[c].continuous => On(c, cfg[c].start)

LEMMA JobLands ==
  ASSUME NEW c \in Channel, NEW j \in Jobs[c]
  PROVE  On(c, j.start)
<1>1. j.start \in Nat /\ Bytes[c] \in Nat
  BY TxAssumption, BeatBytes DEF Config
<1>2. j.start = j.start + 0 * Bytes[c]
  BY <1>1
<1> QED
  BY <1>2 DEF On

LEMMA BeatLands ==
  ASSUME NEW c \in Channel, NEW a \in Nat, On(c, a)
  PROVE  On(c, a + Bytes[c])
<1>1. PICK j \in Jobs[c], k \in Nat : a = j.start + k * Bytes[c]
  BY DEF On
<1> DEFINE b == Bytes[c]
<1>2. j.start \in Nat /\ b \in Nat
  BY TxAssumption, BeatBytes DEF Config
<1> HIDE DEF b
<1>3. (k + 1) * b = k * b + b /\ k * b \in Nat /\ k + 1 \in Nat
  BY <1>2
<1>4. a + b = j.start + (k + 1) * b
  <2> DEFINE x == k * b
             y == (k + 1) * b
  <2>1. a = j.start + x /\ y = x + b /\ x \in Nat /\ y \in Nat
    BY <1>1, <1>2, <1>3 DEF b
  <2> HIDE DEF x, y
  <2>2. a + b = j.start + y
    BY <1>2, <2>1
  <2> QED
    BY <2>2 DEF y
<1> QED
  BY <1>3, <1>4 DEF On, b

(* A generator stays on the beats of what software asks for.               *)
LEMMA AddressStep ==
  ASSUME NEW c \in Channel, NEW g \in Gen, NEW in,
         in.start \in Nat, in.size \in Nat, in.bytes = Bytes[c],
         Lands(c, g), in.en \/ g.pending \/ in.continuous => On(c, in.start)
  PROVE  LET h == AddrgenNext(g, in) IN
         /\ Lands(c, h)
         /\ h.en => g.en \/ in.en
         /\ h.pending => g.pending \/ in.en
<1> DEFINE r == Registers(g, in)
           h == AddrgenNext(g, in)
<1>1. /\ r \in Gen /\ in.bytes \in Nat
  BY GenTyped, BeatBytes
<1>2. /\ h.en = r.en /\ h.address = r.address /\ h.pending = Pending(g, in)
  BY <1>1 DEF AddrgenNext, Gen
<1>3. h.pending => g.pending \/ in.en
  BY <1>2 DEF Pending
<1>4. (IF r.en THEN On(c, r.address) ELSE r.address = 0) /\ (r.en => g.en \/ in.en)
  <2>1. CASE Starts(g, in)
    <3>1. ~LastBeat(g, in) /\ ~Beat(g, in)
      BY <2>1 DEF Starts, LastBeat, Beat
    <3>2. Registers(g, in) = Load(g, in, FALSE)
      BY <2>1, <3>1, Zenon DEF Registers
    <3> QED
      BY <2>1, <3>2 DEF Load, Regs, Starts
  <2>2. CASE in.clr /\ ~Starts(g, in)
    <3>1. r = Stop(g, FALSE)
      BY <2>2 DEF Registers
    <3> QED
      BY <3>1 DEF Stop, Regs
  <2>3. CASE LastBeat(g, in) /\ ~in.clr /\ ~Starts(g, in)
    <3>1. ~(Beat(g, in) /\ ~Compare(g, in) /\ ~in.clr)
      BY <2>3 DEF LastBeat
    <3>2. /\ GoesOn(g, in) => Registers(g, in) = Load(g, in, TRUE)
          /\ ~GoesOn(g, in) => Registers(g, in) = Stop(g, TRUE)
      BY <2>3, <3>1, Zenon DEF Registers
    <3>3. g.en
      BY <2>3 DEF LastBeat, Beat
    <3>4. CASE GoesOn(g, in)
      BY <3>2, <3>3, <3>4 DEF Load, Regs, GoesOn
    <3>5. CASE ~GoesOn(g, in)
      BY <3>2, <3>5 DEF Stop, Regs
    <3> QED
      BY <3>4, <3>5
  <2>4. CASE Beat(g, in) /\ ~Compare(g, in) /\ ~in.clr /\ ~Starts(g, in)
    <3>1. Registers(g, in) = Advance(g, in)
      BY <2>4, Zenon DEF Registers, LastBeat
    <3>2. g.en /\ g.address \in Nat
      BY <2>4 DEF Beat, Gen
    <3>3. On(c, g.address + Bytes[c])
      BY <3>2, BeatLands DEF Lands
    <3> QED
      BY <3>1, <3>2, <3>3 DEF Advance, Regs
  <2>5. CASE ~Beat(g, in) /\ ~in.clr /\ ~Starts(g, in)
    <3>1. r = [g EXCEPT !.event = FALSE]
      BY <2>5 DEF Registers, LastBeat
    <3>2. r.en = g.en /\ r.address = g.address
      BY <3>1 DEF Gen
    <3> QED
      BY <3>2 DEF Lands
  <2> QED
    BY <2>1, <2>2, <2>3, <2>4, <2>5 DEF LastBeat
<1> QED
  BY <1>2, <1>3, <1>4 DEF Lands

LEMMA EdgeKeepsAddresses ==
  ASSUME ChannelType, AddressInv, NEW cmd, NEW set, Edge(cmd, set), Legal(cmd, set)
  PROVE  AddressInv'
<1> SUFFICES ASSUME NEW c \in Channel
             PROVE  /\ Lands(c, ag'[c])
                    /\ ag'[c].en \/ ag'[c].pending \/ cfg'[c].continuous
                         => On(c, cfg'[c].start)
  BY DEF AddressInv, Lands, On
<1> DEFINE in == Inputs(c, cmd, set)
           g == ag[c]
           h == AddrgenNext(g, in)
<1>1. /\ ag'[c] = h /\ cfg'[c] = set[c] /\ g \in Gen
  BY DEF Edge, Generators, ChannelType, Legal
<1>2. /\ in.start \in Nat /\ in.size \in Nat /\ in.en = cmd[c].en
      /\ in.bytes = Bytes[c] /\ in.start = set[c].start /\ in.continuous = set[c].continuous
  BY InputsTyped DEF Inputs
<1>3. Lands(c, g) /\ (g.en \/ g.pending \/ cfg[c].continuous => On(c, cfg[c].start))
  BY DEF AddressInv
<1>4. /\ in.en => On(c, set[c].start)
      /\ ~in.en => set[c].start = cfg[c].start /\ (set[c].continuous => cfg[c].continuous)
  BY <1>2, JobLands DEF Legal
<1>5. in.en \/ g.en \/ g.pending \/ in.continuous => On(c, in.start)
  <2> HIDE DEF in, g
  <2> QED
    BY <1>2, <1>3, <1>4
<1>6. Lands(c, h) /\ (h.en => g.en \/ in.en) /\ (h.pending => g.pending \/ in.en)
  <2> HIDE DEF in, g
  <2> QED
    BY <1>1, <1>2, <1>3, <1>5, AddressStep
<1> HIDE DEF in, g, h
<1> QED
  BY <1>1, <1>2, <1>5, <1>6

(* The reads that are queued are beats of what software asks for, or, for  *)
(* a transfer that was cleared, address 0.                                 *)
LEMMA EdgeKeepsQueueFits ==
  ASSUME SplitsAtL2, ChannelType, PortInv, AddressInv, QueueFits,
         NEW grants, NEW answers, PortEdge(grants, answers)
  PROVE  QueueFits'
<1> DEFINE popped == Popped(grants, answers)
           rest == IF popped THEN Tail(queue) ELSE queue
           r == [ch |-> rGrant, addr |-> ag[rGrant].address]
<1>1. queue \in Seq(Read) /\ queue' = rest \o Pushes /\ (popped => queue # <<>>)
  BY QueueEdge DEF PortInv, PortEdge
<1>2. Pushes = <<>> \/ (Pushes = <<r>> /\ Fits(r))
  <2> SUFFICES ASSUME rGrant # None PROVE Fits(r)
    BY DEF Pushes
  <2>1. rGrant \in Channel
    BY TxAssumption DEF PortInv, None, Channel
  <2>2. ag[rGrant].address \in Nat /\ Lands(rGrant, ag[rGrant])
    BY <2>1 DEF ChannelType, Gen, AddressInv
  <2>3. CASE ag[rGrant].en
    BY <2>1, <2>2, <2>3 DEF Lands, SplitsAtL2
  <2>4. CASE ~ag[rGrant].en
    <3>1. r.addr = 0 /\ r.ch = rGrant
      BY <2>2, <2>4 DEF Lands
    <3>2. Bytes[rGrant] \in Nat /\ Bytes[rGrant] <= WordBytes /\ WordBytes \in Nat \ {0}
      BY <2>1, BeatBytes
    <3>3. 0 % WordBytes = 0
      BY <3>2, Remainder
    <3> HIDE DEF r
    <3>4. ~Split(r)
      BY <3>1, <3>2, <3>3 DEF Split, Offset
    <3> QED
      BY <3>4 DEF Fits
  <2> QED
    BY <2>3, <2>4
<1>3. rest \in Seq(Read) /\ \A i \in 1 .. Len(rest) : Fits(rest[i])
  <2>1. CASE popped
    <3>1. rest = Tail(queue) /\ queue # <<>>
      BY <1>1, <2>1
    <3>2. /\ Tail(queue) \in Seq(Read) /\ Len(Tail(queue)) = Len(queue) - 1
          /\ \A i \in 1 .. Len(Tail(queue)) : Tail(queue)[i] = queue[i + 1]
      BY <1>1, <3>1
    <3>3. \A i \in 1 .. Len(Tail(queue)) : i + 1 \in 1 .. Len(queue)
      BY <1>1, <3>2
    <3> QED
      BY <3>1, <3>2, <3>3 DEF QueueFits
  <2>2. CASE ~popped
    BY <1>1, <2>2 DEF QueueFits
  <2> QED
    BY <2>1, <2>2
<1> HIDE DEF rest, r
<1>4. \A i \in 1 .. Len(queue') : Fits(queue'[i])
  <2>1. CASE Pushes = <<>>
    BY <1>1, <1>3, <2>1
  <2>2. CASE Pushes = <<r>> /\ Fits(r)
    <3> TAKE i \in 1 .. Len(queue')
    <3>1. Len(queue') = Len(rest) + 1 /\ Len(rest) \in Nat
      BY <1>1, <1>3, <2>2
    <3>2. CASE i <= Len(rest)
      <4>1. queue'[i] = rest[i]
        BY <1>1, <1>3, <2>2, <3>1, <3>2
      <4> QED
        BY <1>3, <3>1, <3>2, <4>1
    <3>3. CASE i = Len(rest) + 1
      <4>1. queue'[i] = r
        BY <1>1, <1>3, <2>2, <3>1, <3>3
      <4> QED
        BY <2>2, <4>1
    <3> QED
      BY <3>1, <3>2, <3>3
  <2> QED
    BY <1>2, <2>1, <2>2
<1> QED
  BY <1>4 DEF QueueFits, Fits, Split, Offset

-----------------------------------------------------------------------------
(* The rank of a read among the reads of its channel in the queue.         *)
Rank(q, c, i) == Cardinality(At(SubSeq(q, 1, i), c))

LEMMA Prefix ==
  ASSUME NEW q \in Seq(Read), NEW i \in 1 .. Len(q)
  PROVE  /\ SubSeq(q, 1, i) \in Seq(Read) /\ Len(SubSeq(q, 1, i)) = i
         /\ \A j \in 1 .. i : SubSeq(q, 1, i)[j] = q[j]
  OBVIOUS

LEMMA RankBound ==
  ASSUME NEW q \in Seq(Read), NEW i \in 1 .. Len(q), NEW c
  PROVE  /\ Rank(q, c, i) \in Nat
         /\ Rank(q, c, i) <= Cardinality(At(q, c))
         /\ q[i].ch = c => Rank(q, c, i) > 0
<1> DEFINE p == SubSeq(q, 1, i)
<1>1. p \in Seq(Read) /\ Len(p) = i /\ \A j \in 1 .. i : p[j] = q[j]
  BY Prefix
<1> HIDE DEF p
<1>2. At(p, c) \subseteq At(q, c)
  BY <1>1 DEF At
<1>3. Cardinality(At(p, c)) \in Nat /\ Cardinality(At(p, c)) <= Cardinality(At(q, c))
  <2>1. IsFiniteSet(At(q, c)) /\ Cardinality(At(p, c)) \in Nat
    BY <1>1, AtFinite
  <2> QED
    BY <1>2, <2>1, FS_Subset
<1>4. q[i].ch = c => Cardinality(At(p, c)) # 0
  <2> SUFFICES ASSUME q[i].ch = c PROVE Cardinality(At(p, c)) # 0
    OBVIOUS
  <2>1. i \in At(p, c)
    BY <1>1 DEF At
  <2> QED
    BY <1>1, <2>1, AtFinite, FS_EmptySet
<1> QED
  BY <1>3, <1>4 DEF Rank, p

LEMMA RankLast ==
  ASSUME NEW q \in Seq(Read), NEW c
  PROVE  Rank(q, c, Len(q)) = Cardinality(At(q, c))
BY SubSeqFull DEF Rank

LEMMA RankFirst ==
  ASSUME NEW q \in Seq(Read), q # <<>>, NEW c, q[1].ch = c
  PROVE  Rank(q, c, 1) = 1
<1>1. 1 \in 1 .. Len(q)
  OBVIOUS
<1> DEFINE p == SubSeq(q, 1, 1)
<1>2. Len(p) = 1 /\ p[1] = q[1]
  BY <1>1, Prefix
<1> HIDE DEF p
<1>3. At(p, c) = {1}
  BY <1>2 DEF At
<1> QED
  BY <1>3, FS_Singleton DEF Rank, p

LEMMA RankPush ==
  ASSUME NEW q \in Seq(Read), NEW r \in Read, NEW i \in 1 .. Len(q), NEW c
  PROVE  Rank(q \o <<r>>, c, i) = Rank(q, c, i)
<1> DEFINE p == q \o <<r>>
<1>1. p \in Seq(Read) /\ i \in 1 .. Len(p) /\ \A j \in 1 .. i : p[j] = q[j]
  OBVIOUS
<1> HIDE DEF p
<1>2. SubSeq(p, 1, i) = SubSeq(q, 1, i)
  <2>1. \A j \in 1 .. i : SubSeq(p, 1, i)[j] = SubSeq(q, 1, i)[j]
    BY <1>1, Prefix
  <2>2. /\ SubSeq(p, 1, i) \in Seq(Read) /\ Len(SubSeq(p, 1, i)) = i
        /\ SubSeq(q, 1, i) \in Seq(Read) /\ Len(SubSeq(q, 1, i)) = i
    BY <1>1, Prefix
  <2> QED
    BY <2>1, <2>2, SeqEqual
<1> QED
  BY <1>2 DEF Rank, p

LEMMA RankPop ==
  ASSUME NEW q \in Seq(Read), q # <<>>, NEW c, NEW i \in 1 .. Len(Tail(q))
  PROVE  /\ i + 1 \in 1 .. Len(q) /\ Tail(q)[i] = q[i + 1]
         /\ Rank(q, c, i + 1) = Rank(Tail(q), c, i) + One(q[1].ch = c)
<1> DEFINE t == Tail(q)
           p == SubSeq(q, 1, i + 1)
           s == SubSeq(t, 1, i)
<1>1. /\ t \in Seq(Read) /\ Len(t) = Len(q) - 1 /\ i + 1 \in 1 .. Len(q) /\ i \in Nat /\ i >= 1
      /\ \A j \in 1 .. Len(t) : t[j] = q[j + 1]
  OBVIOUS
<1>2. p \in Seq(Read) /\ Len(p) = i + 1 /\ \A j \in 1 .. i + 1 : p[j] = q[j]
  BY <1>1, Prefix
<1>3. s \in Seq(Read) /\ Len(s) = i /\ \A j \in 1 .. i : s[j] = t[j]
  BY <1>1, Prefix
<1> HIDE DEF p, s
<1>4. p # <<>> /\ p[1] = q[1]
  BY <1>1, <1>2
<1>5. Tail(p) = s
  <2>1. /\ Tail(p) \in Seq(Read) /\ Len(Tail(p)) = i
        /\ \A j \in 1 .. i : Tail(p)[j] = p[j + 1]
    BY <1>1, <1>2, <1>4
  <2>2. \A j \in 1 .. i : j \in 1 .. Len(t) /\ j + 1 \in 1 .. i + 1
    BY <1>1
  <2>3. \A j \in 1 .. i : Tail(p)[j] = s[j]
    BY <1>1, <1>2, <1>3, <2>1, <2>2
  <2> QED
    BY <1>3, <2>1, <2>3, SeqEqual
<1>6. Cardinality(At(p, c)) = Cardinality(At(s, c)) + One(q[1].ch = c)
  <2>1. Cardinality(At(p, c)) = Cardinality(At(Tail(p), c)) + One(p[1].ch = c)
    BY <1>2, <1>4, CountPop
  <2> QED
    BY <1>4, <1>5, <2>1, Zenon
<1> QED
  BY <1>1, <1>6 DEF Rank, p, s, t

(* A read that stays in the queue keeps its distance to the word that is   *)
(* delivered last; one that is pushed is the last of its channel.          *)
LEMMA QueueRank ==
  ASSUME ChannelType, PortInv, NEW grants, NEW answers, PortEdge(grants, answers),
         NEW c \in Channel
  PROVE  \A i \in 1 .. Len(queue') : queue'[i].ch = c =>
           \/ \E j \in 1 .. Len(queue) :
                /\ queue'[i] = queue[j]
                /\ Rank(queue, c, j) =
                   Rank(queue', c, i) + One(Popped(grants, answers) /\ First.ch = c)
           \/ /\ Sample /\ rGrant = c /\ queue'[i].addr = ag[c].address
              /\ Rank(queue', c, i) = Cardinality(At(queue', c))
<1> SUFFICES ASSUME NEW i \in 1 .. Len(queue'), queue'[i].ch = c
             PROVE  \/ \E j \in 1 .. Len(queue) :
                         /\ queue'[i] = queue[j]
                         /\ Rank(queue, c, j) = Rank(queue', c, i)
                              + One(Popped(grants, answers) /\ First.ch = c)
                    \/ /\ Sample /\ rGrant = c /\ queue'[i].addr = ag[c].address
                       /\ Rank(queue', c, i) = Cardinality(At(queue', c))
  OBVIOUS
<1> DEFINE popped == Popped(grants, answers)
           rest == IF popped THEN Tail(queue) ELSE queue
           r == [ch |-> rGrant, addr |-> ag[rGrant].address]
<1>1. /\ queue \in Seq(Read) /\ queue' = rest \o Pushes /\ (popped => queue # <<>>)
      /\ queue' \in Seq(Read)
  BY QueueEdge DEF PortInv, PortEdge
<1>2. Pushes = <<>> \/ (Pushes = <<r>> /\ r \in Read /\ Sample)
  <2>1. rGrant # None => rGrant \in Channel
    BY TxAssumption DEF PortInv, None, Channel
  <2>2. rGrant # None => r \in Read
    BY <2>1 DEF ChannelType, Gen, Read
  <2> QED
    BY <2>2 DEF Pushes
<1>3. /\ rest \in Seq(Read)
      /\ \A k \in 1 .. Len(rest) : \E j \in 1 .. Len(queue) :
           /\ rest[k] = queue[j]
           /\ Rank(queue, c, j) = Rank(rest, c, k) + One(popped /\ First.ch = c)
  <2>1. CASE popped
    <3>1. rest = Tail(queue) /\ queue # <<>> /\ Tail(queue) \in Seq(Read)
      BY <1>1, <2>1
    <3>2. One(popped /\ First.ch = c) = One(queue[1].ch = c)
      BY <2>1 DEF One, First
    <3> HIDE DEF rest, popped
    <3>3. \A k \in 1 .. Len(Tail(queue)) :
            /\ k + 1 \in 1 .. Len(queue) /\ Tail(queue)[k] = queue[k + 1]
            /\ Rank(queue, c, k + 1) = Rank(Tail(queue), c, k) + One(queue[1].ch = c)
      BY <1>1, <3>1, RankPop
    <3> QED
      BY <3>1, <3>2, <3>3
  <2>2. CASE ~popped
    <3>1. rest = queue /\ One(popped /\ First.ch = c) = 0
      BY <2>2 DEF One
    <3> HIDE DEF rest, popped
    <3>2. \A k \in 1 .. Len(queue) : Rank(queue, c, k) = Rank(queue, c, k) + 0
      BY <1>1, RankBound
    <3> QED
      BY <1>1, <3>1, <3>2
  <2> QED
    BY <2>1, <2>2
<1> HIDE DEF rest, popped
<1>4. CASE Pushes = <<>>
  <2>1. queue' = rest
    BY <1>1, <1>3, <1>4
  <2> QED
    BY <1>3, <2>1 DEF popped
<1>5. CASE Pushes = <<r>> /\ r \in Read /\ Sample
  <2> HIDE DEF r
  <2>1. Len(queue') = Len(rest) + 1 /\ Len(rest) \in Nat /\ queue' = rest \o <<r>>
    BY <1>1, <1>3, <1>5
  <2>2. CASE i \in 1 .. Len(rest)
    <3>1. queue'[i] = rest[i] /\ Rank(queue', c, i) = Rank(rest, c, i)
      BY <1>3, <1>5, <2>1, <2>2, RankPush
    <3> QED
      BY <1>3, <2>2, <3>1 DEF popped
  <2>3. CASE i = Len(rest) + 1
    <3>1. queue'[i] = r
      BY <1>3, <1>5, <2>1, <2>3
    <3>2. r.ch = rGrant /\ r.addr = ag[rGrant].address
      BY DEF r
    <3>3. Rank(queue', c, i) = Cardinality(At(queue', c))
      BY <1>1, <2>1, <2>3, RankLast
    <3> QED
      BY <1>5, <3>1, <3>2, <3>3
  <2> QED
    BY <2>1, <2>2, <2>3
<1> QED
  BY <1>2, <1>4, <1>5

-----------------------------------------------------------------------------
(* The order: the words on their way are those the reads ask for, the one  *)
(* at the door first, then the one that is awaited, then those queued.  A  *)
(* word whose transfer was cleared has no promised content.                *)
Match(x, a) == x = a \/ x = Any
OnWay(c, w) ==
  /\ Valid(c) => (w[1] # Any => rData = Datum(c, w[1]))
  /\ Awaited(c) => Match(w[One(Valid(c)) + 1], rResp.addr)
  /\ \A i \in 1 .. Len(queue) : queue[i].ch = c =>
       Match(w[One(Valid(c)) + One(Awaited(c)) + Rank(queue, c, i)], queue[i].addr)

OrderOf(c) ==
  \E w \in Seq(Int) : Len(w) = Sent(c) /\ todo[c] = w \o Rest(c) /\ OnWay(c, w)
OrderInv ==
  /\ AccountInv /\ WayInv /\ QueueFits /\ AddressInv
  /\ \A c \in Channel : OrderOf(c)

LEMMA OnWayNext ==
  ASSUME NEW c, NEW x
  PROVE  OnWay(c, x)' <=>
         /\ Valid(c)' => (x[1] # Any => rData' = Datum(c, x[1]))
         /\ Awaited(c)' => Match(x[One(Valid(c)') + 1], rResp'.addr)
         /\ \A i \in 1 .. Len(queue') : queue'[i].ch = c =>
              Match(x[One(Valid(c)') + One(Awaited(c)') + Rank(queue', c, i)], queue'[i].addr)
BY DEF OnWay, Match, Datum, One, Rank, At

(* The numbers of words at the door, awaited and queued.                   *)
LEMMA WayCounts ==
  ASSUME ChannelType, PortInv, NEW grants, NEW answers, PortEdge(grants, answers),
         NEW c \in Channel
  PROVE  /\ Cardinality(At(queue, c)) \in Nat /\ Cardinality(At(queue', c)) \in Nat
         /\ Sent(c) = Cardinality(At(queue, c)) + One(Awaited(c)) + One(Valid(c))
         /\ Sent(c)' = Cardinality(At(queue', c)) + One(Awaited(c)') + One(Valid(c)')
         /\ One(Awaited(c)) + One(Popped(grants, answers) /\ First.ch = c) =
            One(Awaited(c)') + One(Valid(c)')
<1>1. queue \in Seq(Read) /\ queue' \in Seq(Read)
  BY QueueEdge DEF PortInv
<1>2. Queued(c) = Cardinality(At(queue, c)) /\ Queued(c)' = Cardinality(At(queue', c))
  BY DEF Queued, At
<1>3. /\ Sent(c) = Queued(c) + One(Awaited(c)) + One(Valid(c))
      /\ Sent(c)' = Queued(c)' + One(Awaited(c)') + One(Valid(c)')
  BY DEF Sent, One
<1>4. One(Awaited(c)) + One(Popped(grants, answers) /\ First.ch = c) =
      One(Awaited(c)') + One(Valid(c)')
  BY WayEdge
<1> QED
  BY <1>1, <1>2, <1>3, <1>4, AtFinite

(* After a clear, nothing is promised.                                     *)
LEMMA NothingPromised ==
  ASSUME ChannelType, PortInv, NEW grants, NEW answers, PortEdge(grants, answers),
         NEW c \in Channel, NEW x, x = [i \in 1 .. Sent(c)' |-> Any]
  PROVE  OnWay(c, x)'
<1> DEFINE d == One(Valid(c)')
           a == One(Awaited(c)')
           n == Cardinality(At(queue', c))
<1>1. /\ n \in Nat /\ Sent(c)' = n + a + d
  BY WayCounts
<1>2. /\ d \in {0, 1} /\ a \in {0, 1}
      /\ Valid(c)' => d = 1
      /\ Awaited(c)' => a = 1
  BY DEF One
<1>3. queue' \in Seq(Read)
  BY QueueEdge
<1>4. \A i \in 1 .. Len(queue') : queue'[i].ch = c =>
        Rank(queue', c, i) \in 1 .. n
  BY <1>1, <1>3, RankBound
<1>5. PICK s \in Nat : s = Sent(c)' /\ s = n + a + d
  BY <1>1, <1>2
<1>6. \A k \in 1 .. s : x[k] = Any
  BY <1>5
<1> HIDE DEF d, a, n
<1>7. Valid(c)' => x[1] = Any
  BY <1>1, <1>2, <1>5, <1>6
<1>8. Awaited(c)' => x[d + 1] = Any
  BY <1>1, <1>2, <1>5, <1>6
<1>9. \A i \in 1 .. Len(queue') : queue'[i].ch = c =>
        x[d + a + Rank(queue', c, i)] = Any
  <2> TAKE i \in 1 .. Len(queue')
  <2> HAVE queue'[i].ch = c
  <2> DEFINE k == Rank(queue', c, i)
  <2>1. k \in 1 .. n
    BY <1>4
  <2> HIDE DEF k
  <2>2. d + a + k \in 1 .. s
    BY <1>1, <1>2, <1>5, <2>1
  <2> QED
    BY <1>6, <2>2 DEF k
<1> QED
  BY <1>7, <1>8, <1>9, OnWayNext DEF d, a, Match

LEMMA OrderKept ==
  ASSUME ChannelType, PortInv, WayInv, NEW grants, NEW answers, PortEdge(grants, answers),
         NEW c \in Channel, NEW w \in Seq(Int), Len(w) = Sent(c), OnWay(c, w),
         NEW x \in Seq(Int), Len(x) = Sent(c)',
         x = (IF Valid(c) THEN Tail(w) ELSE w) \o Pushed(c)
  PROVE  OnWay(c, x)'
<1> DEFINE popped == Popped(grants, answers)
           d == One(Valid(c))
           a == One(Awaited(c))
           p == One(popped /\ First.ch = c)
           e == One(Valid(c)')
           b == One(Awaited(c)')
           n == Cardinality(At(queue, c))
           m == Cardinality(At(queue', c))
           v == IF Valid(c) THEN Tail(w) ELSE w
<1>1. n \in Nat /\ m \in Nat /\ Len(w) = n + a + d /\ Len(x) = m + b + e /\ a + p = b + e
  BY WayCounts
<1>2. /\ d \in {0, 1} /\ a \in {0, 1} /\ p \in {0, 1} /\ e \in {0, 1} /\ b \in {0, 1}
      /\ Valid(c) <=> d = 1
      /\ Awaited(c) <=> a = 1
      /\ (popped /\ First.ch = c) <=> p = 1
      /\ Valid(c)' <=> e = 1
      /\ Awaited(c)' <=> b = 1
  BY DEF One
<1>3. queue \in Seq(Read) /\ queue' \in Seq(Read) /\ (popped => queue # <<>>)
  BY QueueEdge DEF PortInv
<1>4. Pushed(c) \in Seq(Int)
  <2>1. ag[c].address \in Int /\ Any \in Int
    BY DEF ChannelType, Gen, Any
  <2> QED
    BY <2>1, EmptySeq DEF Pushed
<1>5. v \in Seq(Int) /\ Len(v) = n + a /\ \A k \in 1 .. n + a : v[k] = w[d + k]
  <2> HIDE DEF d, a, n
  <2>1. CASE Valid(c)
    <3>1. d = 1 /\ Len(w) = n + a + 1 /\ w # <<>> /\ v = Tail(w)
      BY <1>1, <1>2, <2>1
    <3>2. /\ Tail(w) \in Seq(Int) /\ Len(Tail(w)) = n + a
          /\ \A k \in 1 .. n + a : Tail(w)[k] = w[1 + k]
      BY <1>1, <1>2, <3>1
    <3> HIDE DEF v
    <3> QED
      BY <3>1, <3>2
  <2>2. CASE ~Valid(c)
    <3>1. d = 0 /\ Len(w) = n + a /\ v = w
      BY <1>1, <1>2, <2>2
    <3>2. \A k \in 1 .. n + a : k = 0 + k
      BY <1>1, <1>2
    <3> HIDE DEF v
    <3> QED
      BY <3>1, <3>2
  <2> QED
    BY <2>1, <2>2
<1>6. \A k \in 1 .. n + a : x[k] = w[d + k]
  <2> HIDE DEF d, a, n
  <2>1. x = v \o Pushed(c)
    OBVIOUS
  <2> HIDE DEF v
  <2>2. \A k \in 1 .. Len(v) : (v \o Pushed(c))[k] = v[k]
    BY <1>4, <1>5, ConcatProperties
  <2> QED
    BY <1>5, <2>1, <2>2
<1>7. /\ Awaited(c) => Match(w[d + 1], rResp.addr)
      /\ \A j \in 1 .. Len(queue) : queue[j].ch = c =>
           Match(w[d + a + Rank(queue, c, j)], queue[j].addr)
  BY DEF OnWay
<1>8. \A j \in 1 .. Len(queue) : queue[j].ch = c => Rank(queue, c, j) \in 1 .. n
  <2> TAKE j \in 1 .. Len(queue)
  <2> HAVE queue[j].ch = c
  <2>1. Rank(queue, c, j) \in Nat /\ Rank(queue, c, j) <= n /\ Rank(queue, c, j) > 0
    BY <1>3, RankBound
  <2> HIDE DEF n
  <2> QED
    BY <1>1, <2>1
<1>9. \A j \in 1 .. Len(queue) : queue[j].ch = c =>
        Match(x[a + Rank(queue, c, j)], queue[j].addr)
  <2> TAKE j \in 1 .. Len(queue)
  <2> HAVE queue[j].ch = c
  <2> DEFINE k == Rank(queue, c, j)
  <2>1. k \in 1 .. n /\ Match(w[d + a + k], queue[j].addr)
    BY <1>7, <1>8
  <2> HIDE DEF k, d, a, n
  <2>2. a + k \in 1 .. n + a /\ d + (a + k) = d + a + k
    <3>1. a \in {0, 1} /\ d \in {0, 1}
      BY <1>2
    <3>2. n \in Nat /\ k \in 1 .. n
      BY <1>1, <2>1
    <3> QED
      BY <3>1, <3>2
  <2>3. x[a + k] = w[d + (a + k)]
    BY <1>6, <2>2
  <2> QED
    BY <2>1, <2>2, <2>3 DEF k
<1>10. Awaited(c) => Match(x[1], rResp.addr)
  <2> SUFFICES ASSUME Awaited(c) PROVE Match(x[1], rResp.addr)
    OBVIOUS
  <2>1. a = 1 /\ Match(w[d + 1], rResp.addr)
    BY <1>2, <1>7
  <2> HIDE DEF d, a, n
  <2>2. 1 \in 1 .. n + a
    BY <1>1, <2>1
  <2> QED
    BY <1>6, <2>1, <2>2
<1>11. Valid(c)' => (x[1] # Any => rData' = Datum(c, x[1]))
  <2> SUFFICES ASSUME Valid(c)', x[1] # Any PROVE rData' = Datum(c, x[1])
    OBVIOUS
  <2>1. rValid' /\ rDly' = c /\ demux.pending /\ ~na /\ rResp.ch = c
    BY DEF Valid, PortEdge, RValid
  <2>2. rData' = Datum(c, rResp.addr)
    BY <2>1, Arrival
  <2>3. Match(x[1], rResp.addr)
    BY <1>10, <2>1 DEF Awaited
  <2> QED
    BY <2>2, <2>3 DEF Match
<1>12. Awaited(c)' => Match(x[e + 1], rResp'.addr)
  <2> SUFFICES ASSUME Awaited(c)' PROVE Match(x[e + 1], rResp'.addr)
    OBVIOUS
  <2>1. b = 1 /\ a + p = e + 1
    <3>1. b = 1
      BY <1>2
    <3> HIDE DEF a, p, e, b
    <3> QED
      BY <1>1, <1>2, <3>1
  <2>2. /\ rResp' = IF L2Gnt(grants, answers) /\ ~na THEN First ELSE rResp
        /\ popped <=> L2Gnt(grants, answers) /\ (na \/ ~Split(First))
        /\ na' = IF na THEN ~L2Gnt(grants, answers) ELSE L2Gnt(grants, answers) /\ Split(First)
    BY DEF PortEdge, Popped
  <2>3. CASE p = 1
    <3>1. popped /\ First.ch = c /\ queue # <<>> /\ a = e
      BY <1>2, <1>3, <2>1, <2>3
    <3>2. rResp' = First
      BY <2>2, <3>1 DEF WayInv
    <3>3. queue[1].ch = c /\ 1 \in 1 .. Len(queue) /\ Rank(queue, c, 1) = 1
      <4>1. queue[1].ch = c /\ 1 \in 1 .. Len(queue)
        BY <1>3, <3>1 DEF First
      <4> QED
        BY <1>3, <3>1, <4>1, RankFirst
    <3>4. Match(x[a + 1], queue[1].addr)
      BY <1>9, <3>3
    <3> QED
      BY <3>1, <3>2, <3>4 DEF First
  <2>4. CASE p = 0
    <3>1. a = 1 /\ e = 0 /\ Awaited(c) /\ ~(popped /\ First.ch = c)
      BY <1>2, <2>1, <2>4
    <3>2. ~na /\ ~na' /\ rResp'.ch = c
      BY <3>1 DEF Awaited
    <3>3. ~(L2Gnt(grants, answers) /\ ~na)
      BY <2>2, <3>1, <3>2
    <3>4. rResp' = rResp
      BY <2>2, <3>3
    <3>5. e + 1 = 1
      BY <3>1
    <3> QED
      BY <1>10, <3>1, <3>4, <3>5
  <2> QED
    BY <1>2, <2>3, <2>4
<1>13. ASSUME NEW i \in 1 .. Len(queue'), queue'[i].ch = c
       PROVE  Match(x[e + b + Rank(queue', c, i)], queue'[i].addr)
  <2> DEFINE k == Rank(queue', c, i)
  <2>1. k \in Nat
    BY <1>3, RankBound
  <2>2. CASE \E j \in 1 .. Len(queue) : queue'[i] = queue[j] /\ Rank(queue, c, j) = k + p
    <3>1. PICK j \in 1 .. Len(queue) : queue'[i] = queue[j] /\ Rank(queue, c, j) = k + p
      BY <2>2
    <3>2. Match(x[a + (k + p)], queue'[i].addr)
      BY <1>9, <1>13, <3>1
    <3> HIDE DEF k, a, p, e, b
    <3>3. a + (k + p) = e + b + k
      BY <1>1, <1>2, <2>1
    <3> QED
      BY <3>2, <3>3 DEF k
  <2>3. CASE Sample /\ rGrant = c /\ queue'[i].addr = ag[c].address /\ k = m
    <3>1. Pushed(c) = <<IF ag[c].en THEN ag[c].address ELSE Any>>
      BY <2>3 DEF Pushed
    <3>2. Len(Pushed(c)) = 1 /\ Match(Pushed(c)[1], ag[c].address)
      BY <3>1 DEF Match
    <3>3. x = v \o Pushed(c) /\ Len(x) = Len(v) + 1 /\ x[Len(v) + 1] = Pushed(c)[1]
      <4>1. x = v \o Pushed(c)
        OBVIOUS
      <4> HIDE DEF v
      <4> DEFINE y == IF ag[c].en THEN ag[c].address ELSE Any
      <4> HIDE DEF y
      <4>2. Pushed(c) = <<y>> /\ Pushed(c)[1] = y
        BY <3>1 DEF y
      <4>3. /\ Len(v \o <<y>>) = Len(v) + 1
            /\ (v \o <<y>>)[Len(v) + 1] = y
        BY <1>5
      <4> QED
        BY <4>1, <4>2, <4>3
    <3>4. e + b + k = Len(v) + 1
      <4> HIDE DEF k, e, b, v, m
      <4> QED
        BY <1>1, <1>2, <2>3, <3>3
    <3> HIDE DEF k, e, b, v
    <3> QED
      BY <2>3, <3>2, <3>3, <3>4 DEF k
  <2>4. \/ \E j \in 1 .. Len(queue) : queue'[i] = queue[j] /\ Rank(queue, c, j) = k + p
        \/ Sample /\ rGrant = c /\ queue'[i].addr = ag[c].address /\ k = m
    <3>1. \/ \E j \in 1 .. Len(queue) :
               /\ queue'[i] = queue[j]
               /\ Rank(queue, c, j) =
                  Rank(queue', c, i) + One(Popped(grants, answers) /\ First.ch = c)
          \/ /\ Sample /\ rGrant = c /\ queue'[i].addr = ag[c].address
             /\ Rank(queue', c, i) = Cardinality(At(queue', c))
      <4>1. \A h \in 1 .. Len(queue') : queue'[h].ch = c =>
              \/ \E j \in 1 .. Len(queue) :
                   /\ queue'[h] = queue[j]
                   /\ Rank(queue, c, j) =
                      Rank(queue', c, h) + One(Popped(grants, answers) /\ First.ch = c)
              \/ /\ Sample /\ rGrant = c /\ queue'[h].addr = ag[c].address
                 /\ Rank(queue', c, h) = Cardinality(At(queue', c))
        BY QueueRank
      <4> QED
        BY <1>13, <4>1
    <3>2. /\ One(Popped(grants, answers) /\ First.ch = c) = p
          /\ Rank(queue', c, i) = k /\ Cardinality(At(queue', c)) = m
      OBVIOUS
    <3> HIDE DEF p, k, m
    <3> QED
      BY <3>1, <3>2, Zenon
  <2> QED
    BY <2>2, <2>3, <2>4, Zenon
<1> QED
  BY <1>11, <1>12, <1>13, OnWayNext

(* A word at the door is one of those on their way.                        *)
LEMMA ValidIsSent ==
  ASSUME PortInv, NEW c \in Channel, Valid(c)
  PROVE  Sent(c) > 0
<1>1. Queued(c) \in Nat
  BY AtFinite DEF PortInv, Queued, At
<1> QED
  BY <1>1 DEF Sent

LEMMA OrderEdge ==
  ASSUME Liberties = {}, SplitsAtL2, OrderInv, NEW cmd, NEW set,
         Edge(cmd, set), Legal(cmd, set), AccountInv'
  PROVE  OrderInv'
<1>1. ChannelType /\ PortInv /\ AccountInv /\ WayInv /\ QueueFits /\ AddressInv
  BY DEF OrderInv, AccountInv, CreditInv
<1>2. PICK grants, answers : Port(grants, answers)
  BY DEF Edge
<1>3. PortEdge(grants, answers)
  BY <1>2 DEF Port
<1>4. WayInv'
  BY <1>1, <1>2, PortKeepsWay
<1>5. QueueFits'
  BY <1>1, <1>3, EdgeKeepsQueueFits
<1>6. AddressInv'
  BY <1>1, EdgeKeepsAddresses
<1>7. ASSUME NEW c \in Channel PROVE OrderOf(c)'
  <2>1. PICK w \in Seq(Int) : Len(w) = Sent(c) /\ todo[c] = w \o Rest(c) /\ OnWay(c, w)
    BY DEF OrderInv, OrderOf
  <2>2. PICK x \in Seq(Int) :
          /\ Len(x) = Sent(c)' /\ todo'[c] = x \o Rest(c)'
          /\ cmd[c].clr => x = [i \in 1 .. Sent(c)' |-> Any]
          /\ ~cmd[c].clr => x = (IF Valid(c) THEN Tail(w) ELSE w) \o Pushed(c)
    BY <1>1, <2>1, WayStep
  <2>3. OnWay(c, x)'
    <3>1. CASE cmd[c].clr
      BY <1>1, <1>3, <2>2, <3>1, NothingPromised
    <3>2. CASE ~cmd[c].clr
      BY <1>1, <1>3, <2>1, <2>2, <3>2, OrderKept
    <3> QED
      BY <3>1, <3>2
  <2> QED
    BY <2>2, <2>3 DEF OrderOf
<1> QED
  BY <1>4, <1>5, <1>6, <1>7 DEF OrderInv

(* Every peripheral is given the bytes software asked for, in order, each  *)
(* beat whole even when it lies in two words, whatever the targets'        *)
(* latencies: if no channel with a queued transfer is cleared, and if no   *)
(* transfer splits a beat at a target that answers later than L2.  The     *)
(* second is what r_is_na needs: it marks the cycle after the grant of the *)
(* second half, not the answer to it.                                      *)
THEOREM WordsDelivered ==
  ASSUME Liberties = {}, SplitsAtL2
  PROVE  Spec => []WordsInOrder
<1>1. Init /\ AccountInv => OrderInv
  <2> SUFFICES ASSUME Init, AccountInv PROVE OrderInv
    OBVIOUS
  <2>1. 0 \in Channel /\ Bytes[0] \in 1 .. WordBytes /\ WordBytes \in Nat \ {0}
    BY TxAssumption DEF Channel
  <2>2. ~Split(rResp)
    <3>1. rResp.ch = 0 /\ rResp.addr = 0
      BY DEF Init
    <3>2. 0 % WordBytes = 0
      BY <2>1, Remainder
    <3> QED
      BY <2>1, <3>1, <3>2 DEF Split, Offset
  <2>3. WayInv
    BY <2>2 DEF Init, WayInv, Fits, DemuxReset
  <2>4. QueueFits
    BY DEF Init, QueueFits
  <2>5. AddressInv
    BY DEF Init, AddressInv, Lands, Reset
  <2>6. ASSUME NEW c \in Channel PROVE OrderOf(c)
    <3>1. PICK w \in Seq(Int) : Len(w) = Sent(c) /\ todo[c] = w \o Rest(c)
      BY DEF AccountInv, AccountOf
    <3>2. ~Valid(c) /\ ~Awaited(c) /\ Len(queue) = 0
      BY DEF Init, Valid, Awaited, DemuxReset
    <3>3. OnWay(c, w)
      BY <3>2 DEF OnWay
    <3> QED
      BY <3>1, <3>3 DEF OrderOf
  <2> QED
    BY <2>3, <2>4, <2>5, <2>6 DEF OrderInv
<1>2. OrderInv /\ AccountInv' /\ [Next]_vars => OrderInv'
  <2> SUFFICES ASSUME OrderInv, AccountInv', [Next]_vars PROVE OrderInv'
    OBVIOUS
  <2>1. CASE Next
    <3>1. PICK cmd, set : Edge(cmd, set) /\ Legal(cmd, set)
      BY <2>1, NextIsEdge DEF OrderInv, AccountInv, CreditInv
    <3> QED
      BY <3>1, OrderEdge
  <2>2. CASE UNCHANGED vars
    <3>1. /\ cfg' = cfg /\ ag' = ag /\ queue' = queue /\ na' = na /\ rNa' = rNa
          /\ demux' = demux /\ owed' = owed /\ rResp' = rResp /\ rDly' = rDly
          /\ rValid' = rValid /\ rData' = rData /\ todo' = todo
      BY <2>2 DEF vars, port
    <3>2. WayInv' /\ QueueFits' /\ AddressInv'
      BY <3>1 DEF OrderInv, WayInv, QueueFits, AddressInv, Fits, Split, Offset, Base,
         Upper, WordAt, First, Lands, On
    <3>3. ASSUME NEW c \in Channel PROVE OrderOf(c)'
      <4>1. PICK w \in Seq(Int) : Len(w) = Sent(c) /\ todo[c] = w \o Rest(c) /\ OnWay(c, w)
        BY DEF OrderInv, OrderOf
      <4>2. Valid(c)' = Valid(c) /\ Awaited(c)' = Awaited(c)
        BY <3>1 DEF Valid, Awaited
      <4>3. Sent(c)' = Sent(c)
        BY <3>1, <4>2 DEF Sent, Queued
      <4>4. Rest(c)' = Rest(c)
        BY <3>1 DEF Rest, Running, Waiting, Course, Words, Beats
      <4>5. OnWay(c, w)'
        BY <3>1, <4>1, <4>2, OnWayNext DEF OnWay
      <4> QED
        BY <3>1, <4>1, <4>3, <4>4, <4>5 DEF OrderOf
    <3> QED
      BY <3>2, <3>3 DEF OrderInv
  <2> QED
    BY <2>1, <2>2
<1>3. OrderInv => WordsInOrder
  <2> SUFFICES ASSUME OrderInv, rValid
               PROVE  /\ todo[rDly] # <<>>
                      /\ Head(todo[rDly]) # Any => rData = Datum(rDly, Head(todo[rDly]))
    BY DEF WordsInOrder
  <2>1. rDly \in Channel
    BY DEF OrderInv, AccountInv, CreditInv, PortInv
  <2> DEFINE c == rDly
  <2>2. PICK w \in Seq(Int) : Len(w) = Sent(c) /\ todo[c] = w \o Rest(c) /\ OnWay(c, w)
    BY <2>1 DEF OrderInv, OrderOf
  <2>3. Valid(c)
    BY DEF Valid
  <2>4. Sent(c) > 0
    BY <2>1, <2>3, ValidIsSent DEF OrderInv, AccountInv, CreditInv
  <2>5. Rest(c) \in Seq(Int)
    <3>1. ag[c] \in Gen /\ cfg[c] \in Config /\ ag[c].counter \in Nat
      BY <2>1 DEF OrderInv, AccountInv, CreditInv, ChannelType
    <3> QED
      BY <2>1, <3>1, RestTyped DEF Rest
  <2>6. todo[c] # <<>> /\ Head(todo[c]) = w[1]
    BY <2>2, <2>4, <2>5, TailOfWay
  <2> QED
    BY <2>2, <2>3, <2>6 DEF OnWay
<1>4. Spec => []AccountInv
  BY AccountHolds
<1> QED
  BY <1>1, <1>2, <1>3, <1>4, PTL DEF Spec
=============================================================================
