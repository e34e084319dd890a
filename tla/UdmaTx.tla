------------------------------- MODULE UdmaTx -------------------------------
(***************************************************************************)
(* The transmit side of the uDMA: the linear channels of                   *)
(* udma_tx_channels.sv with their address generators (UdmaAddrgen), the    *)
(* transmit buffers of the peripherals (IoTxFifo) and the demultiplexer of *)
(* the SoC interconnect that the L2 port goes through (TcdmDemux).         *)
(*                                                                         *)
(* One action, Edge, is one rising edge of the clock: every register is    *)
(* computed from the registers and the inputs before the edge.  Memory is  *)
(* the identity: the byte at address a is a, and a word is the sequence of *)
(* its bytes, so that a value tells where it was read.                     *)
(*                                                                         *)
(* todo is no register.  It is the specification's account of the words a  *)
(* peripheral is still to be given, in order, written down when software   *)
(* queues a transfer.  It keeps to the documented use: it is meaningful    *)
(* only while software takes no Liberties.                                 *)
(***************************************************************************)
EXTENDS RoundRobin, Sequences, FiniteSets, UdmaAddrgen, IoTxFifo, TcdmDemux

CONSTANTS
  N,             (* number of channels (N_CHANNELS_TX)                     *)
  QueueDepth,    (* BUFFER_DEPTH of u_fifo: 4                              *)
  WordBytes,     (* bytes of an L2 word                                    *)
  Bytes,         (* Bytes[c]: the beat of c (lin_datasize_i)               *)
  Dest,          (* Dest[c]: the target c reads (lin_destination_i)        *)
  L2,            (* the target that answers in the cycle after its grant   *)
  Jobs,          (* Jobs[c]: what software asks of c                       *)
  Liberties      (* what software does beyond the documented use           *)

Channel == 0 .. N - 1
Target == {Dest[c] : c \in Channel} \union {L2}
Config == [start : Nat, size : Nat, continuous : BOOLEAN]

ASSUME TxAssumption ==
  /\ N \in Nat \ {0} /\ QueueDepth \in Nat \ {0} /\ WordBytes \in Nat \ {0}
  /\ Bytes \in [Channel -> 1 .. WordBytes]
  /\ Jobs \in [Channel -> SUBSET Config]
  /\ Liberties \subseteq {"ClearQueued", "Requeue", "EnableAndClear"}

None == N
NoRead == 0 - 1   (* a target owes no answer                               *)
Any == 0 - 1      (* in todo: a word nobody promised the content of        *)

VARIABLES
  cfg,      (* the peripheral's SADDR, SIZE and CONTINUOUS                 *)
  ag,       (* the address generators                                      *)
  fifo,     (* the peripherals' transmit buffers                           *)
  prio,     (* r_priority of the arbiter                                   *)
  rGrant,   (* r_grant                                                     *)
  queue,    (* u_fifo: reads to send to L2, [ch, addr]                     *)
  na,       (* r_tx_state = TX_NON_ALIGNED, which is also s_is_na          *)
  rNa,      (* r_is_na                                                     *)
  demux,    (* the demultiplexer                                           *)
  owed,     (* owed[t]: the word target t has been asked for               *)
  rResp,    (* r_resp and r_addr: the read whose answer is awaited         *)
  rDly,     (* r_resp_dly                                                  *)
  rValid,   (* r_valid                                                     *)
  rData,    (* r_data                                                      *)
  todo      (* the words each peripheral is to be given                    *)

arbiter == <<prio, rGrant>>
port == <<queue, na, rNa, demux, owed, rResp, rDly, rValid, rData>>
vars == <<cfg, ag, fifo, arbiter, port, todo>>

-----------------------------------------------------------------------------
(* The L2 side.                                                            *)
First == queue[1]
Offset(r) == r.addr % WordBytes

(* s_detect_na: the beat lies in two words.                                *)
Split(r) == Offset(r) + Bytes[r.ch] > WordBytes

(* s_stall, which masks with the number of the channel, not with its bit.  *)
Stall ==
  rValid /\ \E k \in Channel : (rResp.ch \div 2^k) % 2 = 1 /\ ~ReadyO(fifo[k])

L2Req == queue # <<>> /\ ~Stall
L2Sel == IF queue = <<>> THEN L2 ELSE Dest[First.ch]
L2Word == First.addr - Offset(First) + (IF na THEN WordBytes ELSE 0)

L2Gnt(grants, answers) == Gnt(demux, L2Req, L2Sel, grants, answers)

(* s_l2_gnt: a split read leaves the queue with its second half.           *)
Popped(grants, answers) == L2Gnt(grants, answers) /\ (na \/ ~Split(First))

(* s_data, from the word that arrives.                                     *)
WordAt(w) == [i \in 1 .. WordBytes |-> w + i - 1]
Upper(word) == SubSeq(word, Offset(rResp) + 1, WordBytes)
Joined(word) ==
  LET n == WordBytes - Offset(rResp) IN
  SubSeq(rData, 1, n) \o SubSeq(word, 1, Bytes[rResp.ch] - n)
Lane(word) ==
  LET last == Offset(rResp) + Bytes[rResp.ch] IN
  SubSeq(word, Offset(rResp) + 1, IF last > WordBytes THEN WordBytes ELSE last)
DataNoJoin(word) == IF Bytes[rResp.ch] > 1 /\ na THEN Upper(word) ELSE Lane(word)
Data(word) ==
  IF Bytes[rResp.ch] > 1 /\ na THEN Upper(word)
  ELSE IF Bytes[rResp.ch] > 1 /\ rNa THEN Joined(word) ELSE Lane(word)

-----------------------------------------------------------------------------
(* The channel side.  An input of software is [en, clr] per channel, and   *)
(* set holds the configuration it has written.                             *)
Sample == Len(queue) < QueueDepth   (* s_sample_indata                     *)

Inputs(c, cmd, set) ==
  [en |-> cmd[c].en, clr |-> cmd[c].clr,
   start |-> set[c].start, size |-> set[c].size, continuous |-> set[c].continuous,
   grant |-> rGrant = c, go |-> Sample, bytes |-> Bytes[c]]

Requests(cmd, set) ==
  {c \in Channel : ReqO(fifo[c]) /\ EnPrev(ag[c], Inputs(c, cmd, set))}
Grant(cmd, set) ==
  LET g == FirstFrom(N, prio, Requests(cmd, set)) IN
  IF g = {} THEN None ELSE CHOOSE c \in g : TRUE

Pushes == IF Sample /\ rGrant # None
            THEN <<[ch |-> rGrant, addr |-> ag[rGrant].address]>> ELSE <<>>

Valid(c) == rValid /\ rDly = c   (* lin_valid_o                            *)

-----------------------------------------------------------------------------
(* The account of the words.                                               *)
Beats(c, size) == IF size = 0 THEN 1 ELSE (size + Bytes[c] - 1) \div Bytes[c]
Words(c, j) == [i \in 1 .. Beats(c, j.size) |-> j.start + (i - 1) * Bytes[c]]
Datum(c, a) == [i \in 1 .. Bytes[c] |-> a + i - 1]

(* Reads of c that are queued, under way, or at the peripheral's door.     *)
Queued(c) == Cardinality({i \in 1 .. Len(queue) : queue[i].ch = c})
Awaited(c) == demux.pending /\ ~na /\ rResp.ch = c
Sent(c) ==
  Queued(c) + (IF Awaited(c) THEN 1 ELSE 0) + (IF Valid(c) THEN 1 ELSE 0)

(* What an edge adds: a read that is pushed after its transfer has been    *)
(* cleared, the transfer software asks for, the next pass of a continuous  *)
(* one.                                                                    *)
Stray(c) == IF Sample /\ rGrant = c /\ ~ag[c].en THEN <<Any>> ELSE <<>>
Asked(c, in) == IF in.en THEN Words(c, in) ELSE <<>>
Again(c, in) ==
  IF LastBeat(ag[c], in) /\ in.continuous /\ ~in.en /\ ~ag[c].pending
    THEN Words(c, in) ELSE <<>>
Account(c, in) ==
  (IF Valid(c) /\ todo[c] # <<>> THEN Tail(todo[c]) ELSE todo[c])
  \o Stray(c) \o Again(c, in) \o Asked(c, in)

-----------------------------------------------------------------------------
Quiet == [en |-> FALSE, clr |-> FALSE]

Init ==
  /\ cfg = [c \in Channel |-> [start |-> 0, size |-> 0, continuous |-> FALSE]]
  /\ ag = [c \in Channel |-> Reset]
  /\ fifo = [c \in Channel |-> FifoReset]
  /\ prio = 0 /\ rGrant = None
  /\ queue = <<>> /\ na = FALSE /\ rNa = FALSE
  /\ demux = DemuxReset(L2)
  /\ owed = [t \in Target |-> NoRead]
  /\ rResp = [ch |-> 0, addr |-> 0]
  /\ rDly = 0 /\ rValid = FALSE /\ rData = <<>>
  /\ todo = [c \in Channel |-> <<>>]

(* The L2 side at an edge; grants and answers are what the targets do.     *)
PortEdge(grants, answers) ==
  LET gnt == L2Gnt(grants, answers)
      arrives == RValid(demux, answers)
  IN
  /\ queue' = (IF Popped(grants, answers) THEN Tail(queue) ELSE queue) \o Pushes
  /\ na' = IF na THEN ~gnt ELSE gnt /\ Split(First)
  /\ rNa' = na
  /\ demux' = DemuxNext(demux, L2Req, L2Sel, grants, answers)
  /\ owed' = [t \in Target |-> IF gnt /\ t = L2Sel THEN L2Word
                               ELSE IF t \in answers THEN NoRead ELSE owed[t]]
  /\ rResp' = IF gnt /\ ~na THEN First ELSE rResp
  /\ rDly' = rResp.ch
  /\ rValid' = (arrives /\ ~na)
  /\ rData' = IF arrives THEN Data(WordAt(owed[demux.active])) ELSE rData

(* The channels at an edge; cmd and set are what software writes, drain    *)
(* the peripherals that take a word.                                       *)
Arbiter(grant) ==
  /\ prio' = IF Sample /\ grant # None THEN Successor(N, grant) ELSE prio
  /\ rGrant' = IF Sample THEN grant ELSE rGrant
Buffers(grant, drain) ==
  fifo' = [c \in Channel |->
            FifoNext(fifo[c], Sample /\ grant = c, Valid(c), c \in drain)]
Generators(cmd, set) ==
  /\ cfg' = set
  /\ ag' = [c \in Channel |-> AddrgenNext(ag[c], Inputs(c, cmd, set))]
  /\ todo' = [c \in Channel |->
               IF cmd[c].clr THEN [i \in 1 .. Sent(c)' |-> Any]
               ELSE Account(c, Inputs(c, cmd, set))]

(* What software may do at an edge: nothing; queue a transfer, on a channel*)
(* without one in its queue unless it takes the liberty to Requeue, and    *)
(* with the clear bit down unless it takes that to EnableAndClear; clear a *)
(* channel, with a transfer in its queue only as the liberty ClearQueued;  *)
(* end a continuous mode.                                                  *)
Say(c, en, clr) == [d \in Channel |-> IF d = c THEN [en |-> en, clr |-> clr] ELSE Quiet]
Silent == [c \in Channel |-> Quiet]

(* What the targets may do: the L2 memory answers at once, the others when *)
(* they like, and a target with an answer to give takes no second read.    *)
MayAnswer(answers) ==
  /\ \A t \in answers : owed[t] # NoRead
  /\ owed[L2] # NoRead => L2 \in answers
MayGrant(grants, answers) ==
  \A t \in grants : L2Req /\ t = L2Sel /\ (owed[t] = NoRead \/ t \in answers)
MayDrain(drain) == \A c \in drain : ValidO(fifo[c])

Port(grants, answers) ==
  MayAnswer(answers) /\ MayGrant(grants, answers) /\ PortEdge(grants, answers)

Edge(cmd, set) ==
  /\ \E grants \in SUBSET {L2Sel}, answers \in SUBSET Target : Port(grants, answers)
  /\ Arbiter(Grant(cmd, set))
  /\ \E drain \in SUBSET Channel : MayDrain(drain) /\ Buffers(Grant(cmd, set), drain)
  /\ Generators(cmd, set)

Run == Edge(Silent, cfg)
Enqueue(c) ==
  /\ ag[c].pending => "Requeue" \in Liberties
  /\ \E j \in Jobs[c], clr \in BOOLEAN :
       /\ clr => "EnableAndClear" \in Liberties
       /\ Edge(Say(c, TRUE, clr), [cfg EXCEPT ![c] = j])
Clear(c) ==
  /\ ag[c].en /\ (ag[c].pending => "ClearQueued" \in Liberties)
  /\ Edge(Say(c, FALSE, TRUE), cfg)
EndContinuous(c) ==
  /\ cfg[c].continuous
  /\ Edge(Silent, [cfg EXCEPT ![c].continuous = FALSE])

Next == Run \/ \E c \in Channel : Enqueue(c) \/ Clear(c) \/ EndContinuous(c)

Spec == Init /\ [][Next]_vars

(* The clock runs at edges without a write of software, too; a target that *)
(* is asked grants in the end, one that has granted answers, and a         *)
(* peripheral takes the words it is given.                                 *)
Ticks ==
  /\ Arbiter(Grant(Silent, cfg))
  /\ \E grants \in SUBSET {L2Sel}, answers \in SUBSET Target : Port(grants, answers)
Grants == \E answers \in SUBSET Target : Port({L2Sel}, answers)
Answers(t) ==
  \E grants \in SUBSET {L2Sel}, answers \in SUBSET Target :
    t \in answers /\ Port(grants, answers)
Drains(c) ==
  \E drain \in SUBSET Channel :
    c \in drain /\ MayDrain(drain) /\ Buffers(Grant(Silent, cfg), drain)

FairSpec ==
  /\ Spec /\ WF_<<arbiter, port>>(Ticks)
  /\ WF_port(Grants) /\ \A t \in Target : WF_port(Answers(t))
  /\ \A c \in Channel : WF_fifo(Drains(c))

-----------------------------------------------------------------------------
(* A peripheral is given exactly the bytes software asked for, in order:   *)
(* the answers that come back through the demultiplexer, of targets of     *)
(* different speed, find the channel that asked, and a beat that lies in   *)
(* two words is put together from both.                                    *)
WordsInOrder ==
  rValid => /\ todo[rDly] # <<>>
            /\ Head(todo[rDly]) # Any => rData = Datum(rDly, Head(todo[rDly]))

(* A target owes an answer only when the demultiplexer waits for that      *)
(* target: no answer is taken for another's, or lost, however the targets  *)
(* differ in speed.                                                        *)
OneRead == \A t \in Target : owed[t] # NoRead => demux.pending /\ demux.active = t

(* The count of the words on their way is exact wherever they are (granted,*)
(* queued, at a target, at the door), and so there is room for every one   *)
(* that arrives: io_tx_fifo.sv drops a word it has no room for.            *)
Credits ==
  \A c \in Channel :
    /\ fifo[c].inflight = Sent(c) + (IF rGrant = c THEN 1 ELSE 0)
    /\ fifo[c].elements + fifo[c].inflight <= BufferDepth

(* No word of a transfer is lost or read twice: what the peripheral still  *)
(* has to be given is what is on its way, what is left of the transfer     *)
(* that runs, and the transfer that waits.                                 *)
WordsAccounted ==
  \A c \in Channel :
    Len(todo[c]) = Sent(c) + (IF ag[c].en THEN Beats(c, ag[c].counter) ELSE 0)
                           + (IF ag[c].pending THEN Beats(c, cfg[c].size) ELSE 0)

(* A transfer said to be pending waits for one that runs.                  *)
PendingWaits == \A c \in Channel : ag[c].pending => ag[c].en

(* Every word software asked for reaches its peripheral, unless the        *)
(* channel is cleared first: no channel starves another, and the words     *)
(* counted in flight never end up holding back all requests.               *)
WordsArrive ==
  \A c \in Channel : todo[c] # <<>> ~> (Valid(c) \/ todo[c] = <<>>)
=============================================================================
