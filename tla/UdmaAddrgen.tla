---------------------------- MODULE UdmaAddrgen ----------------------------
(***************************************************************************)
(* udma_ch_addrgen.sv: the address generator of one uDMA channel, as a     *)
(* function from its registers and its inputs to its next registers.       *)
(*                                                                         *)
(*   registers g:  en, counter (bytes left), address, pending, event       *)
(*   inputs in:    en, clr (cfg_en_i, cfg_clr_i), start, size, continuous, *)
(*                 grant (int_ch_grant_i), go (int_not_stall_i), bytes     *)
(*                 (the beat of int_datasize_i)                            *)
(*                                                                         *)
(* r_ch_en is left out: it is set only while r_en is, and used only in     *)
(* r_ch_en || r_en.  The stream and start-of-transfer registers are those  *)
(* of the receive side.                                                    *)
(***************************************************************************)
EXTENDS Naturals

Reset == [en |-> FALSE, counter |-> 0, address |-> 0, pending |-> FALSE, event |-> FALSE]

(* s_compare: the next beat is the last one.                               *)
CompareExact(g, in) == g.counter = in.bytes
Compare(g, in) == g.counter <= in.bytes

Starts(g, in) == in.en /\ ~g.en
Beat(g, in) == in.go /\ in.grant /\ g.en
LastBeat(g, in) == Beat(g, in) /\ Compare(g, in)

(* What the registers become but for pending.                              *)
Regs(g, en, counter, address, e) ==
  [en |-> en, counter |-> counter, address |-> address,
   pending |-> g.pending, event |-> e]
Load(g, in, e) == Regs(g, TRUE, in.size, in.start, e)
Stop(g, e) == Regs(g, FALSE, 0, 0, e)
Advance(g, in) == Regs(g, g.en, g.counter - in.bytes, g.address + in.bytes, FALSE)

(* After the last beat: does the channel go on?                            *)
GoesOnNoQueue(g, in) == in.continuous \/ in.en
GoesOn(g, in) == in.continuous \/ g.pending \/ in.en

Registers(g, in) ==
  CASE Starts(g, in) -> Load(g, in, FALSE)
    [] in.clr /\ ~Starts(g, in) -> Stop(g, FALSE)
    [] LastBeat(g, in) /\ ~in.clr ->
         IF GoesOn(g, in) THEN Load(g, in, TRUE) ELSE Stop(g, TRUE)
    [] Beat(g, in) /\ ~Compare(g, in) /\ ~in.clr -> Advance(g, in)
    [] OTHER -> [g EXCEPT !.event = FALSE]

(* A transfer enabled while one runs waits in the configuration registers, *)
(* unless this is the beat after which it starts.                          *)
Pending(g, in) ==
  IF in.en /\ g.en /\ ~LastBeat(g, in) THEN TRUE
  ELSE IF LastBeat(g, in) THEN FALSE ELSE g.pending

AddrgenNext(g, in) == [Registers(g, in) EXCEPT !.pending = Pending(g, in)]

(* int_ch_en_prev_o: the channel asks for a grant when it will be enabled. *)
EnPrev(g, in) == Registers(g, in).en
=============================================================================
