------------------------------ MODULE Cdc2Phase ------------------------------
(***************************************************************************)
(* cdc_2phase.sv: one word at a time from a source clock to a destination  *)
(* clock.  A request line toggles for each word, an acknowledge line       *)
(* toggles back, and either side reads the other's line through a chain of *)
(* registers of its own clock.  The halves are records of their registers: *)
(*   s: req (req_src_q), data (data_src_q), ack0 (ack_src_q), ack (ack_q)  *)
(*   t: ack (ack_dst_q), data (data_dst_q), req (req_dst_q), q0, q1.       *)
(***************************************************************************)
EXTENDS Naturals, Sequences

Bit == {0, 1}
Flip(b) == 1 - b

SrcReset(zero) == [req |-> 0, data |-> zero, ack0 |-> 0, ack |-> 0]
DstReset(zero) == [ack |-> 0, data |-> zero, req |-> 0, q0 |-> 0, q1 |-> 0]

(* Handshake outputs.                                                      *)
ReadyAlways(s) == TRUE
Ready(s) == s.req = s.ack
Valid(t) == t.ack # t.q1

(* The destination takes the data when it sees the request line change.    *)
Captures(t) == t.q0 # t.q1 /\ ~Valid(t)

(* What the lines between the clocks become at an edge of their driver.    *)
ReqLine(s, valid, data) ==
  IF valid /\ Ready(s) THEN [req |-> Flip(s.req), data |-> data]
                       ELSE [req |-> s.req, data |-> s.data]
AckLine(t, ready) == IF Valid(t) /\ ready THEN Flip(t.ack) ELSE t.ack

(* One edge of a half, given what it samples of the other half's lines.    *)
SrcEdge(s, valid, data, ack) ==
  LET line == ReqLine(s, valid, data)
  IN  [req |-> line.req, data |-> line.data, ack0 |-> ack, ack |-> s.ack0]

DstEdge(t, ready, line) ==
  [ack  |-> AckLine(t, ready),
   data |-> IF Captures(t) THEN line.data ELSE t.data,
   req  |-> line.req,
   q0   |-> t.req,
   q1   |-> t.q0]

(* The word on its way, if any: sent and not yet taken.                    *)
InFlight(s, t) ==
  CASE s.req = t.ack -> <<>>
    [] s.req # t.ack /\ Valid(t) -> <<t.data>>
    [] s.req # t.ack /\ ~Valid(t) -> <<s.data>>
=============================================================================
