--------------------------------- MODULE Dmi ---------------------------------
(***************************************************************************)
(* The debugger's way to the debug module: the TAP and the transport       *)
(* module on the JTAG clock (dmi_jtag_tap.sv, dmi_jtag.sv), a crossing for *)
(* requests and one for answers (dmi_cdc.sv), and the queue of answers on  *)
(* the core clock (dm_csrs.sv).  The n-th access the debugger scans in has *)
(* address n, and reading address n gives the word n: a register of the    *)
(* debug module is its address here.                                       *)
(***************************************************************************)
EXTENDS Cdc2Phase

CONSTANTS
  Accesses,   (* bound: reads and writes the debugger scans in             *)
  Resets,     (* bound: pulses of trst_ni while the core runs              *)
  QueueDepth, (* DEPTH of the queue of answers                             *)
  Nothing     (* content of data_q that came from the debugger             *)

ASSUME DmiAssumption ==
  /\ Accesses \in Nat /\ Resets \in Nat
  /\ QueueDepth \in Nat \ {0}
  /\ Nothing \notin Nat

VARIABLES
  tap,        (* tap_state_q                                               *)
  ir,         (* jtag_ir_q                                                 *)
  state,      (* state_q of the transport module                           *)
  address,    (* address_q: an access, or 0                                *)
  data,       (* data_q                                                    *)
  error,      (* error_q                                                   *)
  reqSrc,     (* the request crossing, its half on the JTAG clock          *)
  reqDst,     (* ... and its half on the core clock                        *)
  queue,      (* i_fifo of dm_csrs                                         *)
  respSrc,    (* the answer crossing, its half on the core clock           *)
  respDst,    (* ... and its half on the JTAG clock                        *)
  scanned,    (* accesses scanned in so far                                *)
  gap,        (* has a scan been refused since the error was cleared?      *)
  resets      (* pulses of trst_ni so far                                  *)

jtagVars == <<tap, ir, state, address, data, error, scanned, gap>>
vars == <<jtagVars, reqSrc, reqDst, queue, respSrc, respDst, resets>>

Nop == [op |-> "nop", address |-> 0]
Ops == {"nop", "read", "write"}

(* The debug module answers every request: a read with the register, any   *)
(* other with zeros.                                                       *)
Answer(r) == IF r.op = "read" THEN r.address ELSE 0

-----------------------------------------------------------------------------
(* Outputs of the transport module.                                        *)
Request == [op |-> IF state = "Write" THEN "write" ELSE "read", address |-> address]
Offers == state \in {"Read", "Write"}

(* "make sure that no error is sticky": when a scan starts an access.      *)
AcceptsAnyState == tap = "UpdateDr" /\ ir = "DMIACCESS" /\ error = "DMINoError"
Accepts == tap = "UpdateDr" /\ ir = "DMIACCESS" /\ state = "Idle" /\ error = "DMINoError"

BusyReads == tap \in {"UpdateDr", "CaptureDr"} /\ state \in {"Read", "WaitReadValid"}
Busy ==
  \/ tap = "UpdateDr" /\ state # "Idle"
  \/ tap = "CaptureDr" /\ state \in {"Read", "WaitReadValid"}

(* A scan of an access that the transport module does not look at.         *)
Refuses == tap = "UpdateDr" /\ ir = "DMIACCESS" /\ ~Accepts

(* The states of the TAP.  Exit1, Pause and Exit2 of the data register are *)
(* part of ShiftDr, the path of the instruction register is IrScan.        *)
TapNext(s) ==
  CASE s = "RunTestIdle"  -> {"RunTestIdle", "SelectDrScan"}
    [] s = "SelectDrScan" -> {"CaptureDr", "IrScan"}
    [] s = "CaptureDr"    -> {"ShiftDr"}
    [] s = "ShiftDr"      -> {"ShiftDr", "UpdateDr"}
    [] s = "UpdateDr"     -> {"RunTestIdle", "SelectDrScan"}
    [] s = "IrScan"       -> {"IrScan", "RunTestIdle", "SelectDrScan"}

Instructions == {"IDCODE", "DTMCSR", "DMIACCESS"}

(* The edge of the TAP: the debugger chooses the way and the instruction.  *)
Tap ==
  /\ tap' \in TapNext(tap)
  /\ ir' \in IF tap = "IrScan" /\ tap' # "IrScan" THEN Instructions ELSE {ir}

(* dmireset of the scanned dtmcs register clears the sticky error.         *)
Error ==
  \E dmireset \in BOOLEAN :
    LET clears == dmireset /\ ir = "DTMCSR" IN
    /\ error' = IF clears THEN "DMINoError" ELSE IF Busy THEN "DMIBusy" ELSE error
    /\ gap' = (~clears /\ (gap \/ Refuses))

(* The state machine of the transport module.                              *)
Accept ==
  /\ Accepts
  /\ \E op \in Ops :
       /\ op # "nop" => scanned < Accesses
       /\ state' = CASE op = "nop" -> state [] op = "read" -> "Read" [] op = "write" -> "Write"
       /\ scanned' = IF op = "nop" THEN scanned ELSE scanned + 1
       /\ address' = IF op = "nop" THEN 0 ELSE scanned + 1
  /\ data' = Nothing

Rest ==
  /\ state = "Idle" /\ ~Accepts
  /\ UNCHANGED <<state, address, data, scanned>>

Offer ==
  /\ Offers
  /\ state' = CASE ~Ready(reqSrc) -> state
                [] Ready(reqSrc) /\ state = "Read" -> "WaitReadValid"
                [] Ready(reqSrc) /\ state = "Write" -> "Idle"
  /\ UNCHANGED <<address, data, scanned>>

AwaitAnyData ==
  /\ state = "WaitReadValid"
  /\ state' = "Idle" /\ data' = respDst.data
  /\ UNCHANGED <<address, scanned>>
Await ==
  /\ state = "WaitReadValid"
  /\ IF Valid(respDst) THEN state' = "Idle" /\ data' = respDst.data
                       ELSE UNCHANGED <<state, data>>
  /\ UNCHANGED <<address, scanned>>

Transport == Accept \/ Rest \/ Offer \/ Await

-----------------------------------------------------------------------------
(* The debug module takes a request when its queue has room for the answer.*)
Room == Len(queue) < QueueDepth
PushedReads == IF Valid(reqDst) /\ Room /\ reqDst.data.op = "read" THEN <<Answer(reqDst.data)>> ELSE <<>>
Pushed == IF Valid(reqDst) /\ Room THEN <<Answer(reqDst.data)>> ELSE <<>>
Pops == queue # <<>> /\ Ready(respSrc)

Queue == queue' = (IF Pops THEN Tail(queue) ELSE queue) \o Pushed

(* The lines between the clocks, before and after an edge of their driver. *)
ReqBefore == [req |-> reqSrc.req, data |-> reqSrc.data]
ReqAfter == ReqLine(reqSrc, Offers, Request)
AckAfter == AckLine(reqDst, Room)
AnswerHead == IF queue = <<>> THEN 0 ELSE Head(queue)
RespBefore == [req |-> respSrc.req, data |-> respSrc.data]
RespAfter == ReqLine(respSrc, queue # <<>>, AnswerHead)
RespAckAfter == AckLine(respDst, TRUE)

(* One edge of each clock, given what it samples of the other's lines.  The*)
(* transport module is ready for an answer in every state.                 *)
JtagEdge(ack, resp) ==
  /\ Tap /\ Error /\ Transport
  /\ reqSrc' = SrcEdge(reqSrc, Offers, Request, ack)
  /\ respDst' = DstEdge(respDst, TRUE, resp)

CoreEdge(req, respAck) ==
  /\ Queue
  /\ reqDst' = DstEdge(reqDst, Room, req)
  /\ respSrc' = SrcEdge(respSrc, queue # <<>>, AnswerHead, respAck)

Init ==
  /\ tap = "RunTestIdle" /\ ir = "IDCODE"
  /\ state = "Idle" /\ address = 0 /\ data = Nothing /\ error = "DMINoError"
  /\ reqSrc = SrcReset(Nop) /\ reqDst = DstReset(Nop)
  /\ queue = <<>>
  /\ respSrc = SrcReset(0) /\ respDst = DstReset(0)
  /\ scanned = 0 /\ gap = FALSE /\ resets = 0

Tck ==
  /\ JtagEdge(reqDst.ack, RespBefore)
  /\ UNCHANGED <<reqDst, queue, respSrc, resets>>

Clk ==
  /\ CoreEdge(ReqBefore, respDst.ack)
  /\ UNCHANGED <<jtagVars, reqSrc, respDst, resets>>

(* Edges of both clocks too close to tell: a line that changes is sampled  *)
(* as it was or as it becomes, each line on its own.                       *)
Both ==
  /\ \E ack \in {reqDst.ack, AckAfter}, resp \in {RespBefore, RespAfter} :
       JtagEdge(ack, resp)
  /\ \E req \in {ReqBefore, ReqAfter}, respAck \in {respDst.ack, RespAckAfter} :
       CoreEdge(req, respAck)
  /\ UNCHANGED resets

(* trst_ni resets the registers of the JTAG clock, and only those.         *)
TrstKeepsState ==
  /\ tap' = "RunTestIdle" /\ ir' = "IDCODE"
  /\ error' = "DMINoError" /\ gap' = FALSE /\ UNCHANGED <<state, address, data>>
  /\ reqSrc' = SrcReset(Nop) /\ respDst' = DstReset(0)
Trst ==
  /\ tap' = "RunTestIdle" /\ ir' = "IDCODE"
  /\ state' = "Idle" /\ address' = 0 /\ data' = Nothing /\ error' = "DMINoError"
  /\ gap' = FALSE
  /\ reqSrc' = SrcReset(Nop) /\ respDst' = DstReset(0)

TestReset ==
  /\ resets < Resets /\ resets' = resets + 1
  /\ Trst
  /\ UNCHANGED <<reqDst, queue, respSrc, scanned>>

Next == Tck \/ Clk \/ Both \/ TestReset

Spec == Init /\ [][Next]_vars

(* Both clocks run on.                                                     *)
FairSpec == Spec /\ WF_vars(Tck \/ Both) /\ WF_vars(Clk \/ Both)

-----------------------------------------------------------------------------
(* Answers due to the transport module, in order: on their way back, waiting*)
(* in the queue, of requests on their way, and of the access not yet sent. *)
Due ==
  InFlight(respSrc, respDst) \o queue
    \o [i \in 1 .. Len(InFlight(reqSrc, reqDst)) |-> Answer(InFlight(reqSrc, reqDst)[i])]
    \o IF Offers THEN <<Answer(Request)>> ELSE <<>>

Service == INSTANCE BoundedFifo WITH Depth <- QueueDepth + 3, Data <- 0 .. Accesses, q <- Due

(* Until a reset of the JTAG side, the way there and back is one queue:    *)
(* every access that is scanned in without an error reaches the debug      *)
(* module once and is answered once, in order, however the two clocks'     *)
(* edges fall.                                                             *)
Scanned == scanned' # scanned
Answered == respDst'.ack # respDst.ack
ServiceStep ==
  CASE Scanned /\ Answered   -> Service!PutAndTake(Answer(Request'))
    [] Scanned /\ ~Answered  -> Service!Put(Answer(Request'))
    [] ~Scanned /\ Answered  -> Service!Take
    [] ~Scanned /\ ~Answered -> UNCHANGED Due
AnsweredInOrder == Service!Init /\ [][resets' = 0 => ServiceStep]_vars

(* A word of several bits crosses without synchronisers: until a reset of  *)
(* the JTAG side, no crossing changes its word when the other side may be  *)
(* taking it.                                                              *)
StableData ==
  resets = 0 => /\ Captures(reqDst) => ~Ready(reqSrc)
                /\ Captures(respDst) => ~Ready(respSrc)

(* A refused access is reported, and none is made behind its back: until   *)
(* the debugger clears the error that shows the gap, or resets the TAP,    *)
(* what it scans in is refused too, so that the accesses made are always a *)
(* prefix of those it asked for.                                           *)
NothingAfterRefusal ==
  [](gap => error = "DMIBusy") /\ [][gap => ~Scanned]_vars

(* When the only access under way is answered, the data register gets what *)
(* the address register asked for.                                         *)
ReadAnswered ==
  [][(resets' = 0 /\ Len(Due) = 1 /\ data' # data /\ data' # Nothing) => data' = address']_vars

(* The data register is shown with the address register to a debugger that *)
(* sees no error: a word that came from the debug module is the one at that*)
(* address.                                                                *)
ValidWord == data # Nothing => data = address

(* The transport module is never stuck, not even after a reset of the JTAG *)
(* side that hits an access anywhere on its way.                           *)
TransportReturns == []<>(state = "Idle")
=============================================================================
