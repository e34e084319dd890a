----------------------------- MODULE TcdmDemux -----------------------------
(***************************************************************************)
(* tcdm_demux.sv: one master in front of several targets that answer after *)
(* different times.  The registers d are pending (state_q) and active      *)
(* (active_slave_q); inputs are the master's request and its target, the   *)
(* targets that grant and the targets that answer.                         *)
(***************************************************************************)

DemuxReset(port) == [pending |-> FALSE, active |-> port]

(* master_port.r_valid                                                     *)
RValid(d, answers) == d.pending /\ d.active \in answers

(* master_port.gnt: only when no answer is outstanding after this cycle.   *)
GntAlways(d, req, sel, grants, answers) == req /\ sel \in grants
Gnt(d, req, sel, grants, answers) ==
  req /\ sel \in grants /\ (d.pending => RValid(d, answers))

(* slave_ports_req, with which active_slave_q is loaded.                   *)
AsksWhenIdle(d, req, answers) == req /\ ~d.pending
Asks(d, req, answers) == req /\ (d.pending => RValid(d, answers))

DemuxNext(d, req, sel, grants, answers) ==
  [pending |-> Gnt(d, req, sel, grants, answers) \/ (d.pending /\ ~RValid(d, answers)),
   active |-> IF Asks(d, req, answers) THEN sel ELSE d.active]
=============================================================================
