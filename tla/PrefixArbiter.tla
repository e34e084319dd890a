--------------------------- MODULE PrefixArbiter ---------------------------
(***************************************************************************)
(* The parallel-prefix arbiter of soc_event_arbiter.sv.  A bit vector is   *)
(* the set of its set bits.  The width n is an elaboration parameter of    *)
(* the circuit (EVNT_NUM): it is picked once, by Init, among Widths, so    *)
(* that one run covers powers of two and the widths between them.          *)
(***************************************************************************)
EXTENDS RoundRobin

CONSTANT Widths  (* the values of EVNT_NUM to elaborate the arbiter with   *)

ASSUME WidthsAssumption == Widths \subseteq (Nat \ {0, 1})

VARIABLES
  n,         (* EVNT_NUM                                                   *)
  req,       (* req_i, the requests of this cycle                          *)
  prio       (* r_priority                                                 *)

vars == <<n, req, prio>>

Bits == 0 .. n - 1

(* localparam S = $clog2(EVNT_NUM), the number of prefix levels.           *)
S == CHOOSE s \in 0 .. n : 2^s >= n /\ \A t \in 0 .. s - 1 : 2^t < n

(* The position k places below j, around the vector.                       *)
BelowNoWrap(j, k) == j - k
Below(j, k) == IF j - k < 0 THEN n + j - k ELSE j - k

(* p[i]: no request in the 2^i positions below j.                          *)
Propagate[i \in 0 .. S - 1] ==
  IF i = 0 THEN {j \in Bits : Below(j, 1) \notin req}
  ELSE {j \in Propagate[i - 1] : Below(j, 2^(i - 1)) \in Propagate[i - 1]}

(* g[i]: the priority starts within the 2^i positions up to j, and nothing *)
(* requests between the two.                                               *)
Generate[i \in 0 .. S] ==
  IF i = 0 THEN prio
  ELSE Generate[i - 1]
         \cup {j \in Propagate[i - 1] : Below(j, 2^(i - 1)) \in Generate[i - 1]}

AnyGrantHalf == ~(n - 1 \in Propagate[S - 1])
AnyGrant == ~(n - 1 \in Propagate[S - 1] /\ (n \div 2) - 1 \in Propagate[S - 1])

GrantAnyLevel == req \cap Generate[S - 1]
Grant == req \cap Generate[S]

-----------------------------------------------------------------------------
Init == /\ n \in Widths
        /\ req \in SUBSET Bits
        /\ prio = {0}

(* One clock edge with grant_ack_i = ack: the pointer moves behind the     *)
(* grant.  The requests of the next cycle are the environment's.           *)
ClockBlind(ack) ==
  /\ prio' = IF AnyGrant THEN {Successor(n, j) : j \in Grant} \cup prio ELSE prio
  /\ UNCHANGED n
Clock(ack) ==
  /\ prio' = IF AnyGrant /\ ack THEN {Successor(n, j) : j \in Grant} ELSE prio
  /\ UNCHANGED n

Next == \E ack \in BOOLEAN : Clock(ack) /\ req' \in SUBSET Bits

Spec == Init /\ [][Next]_vars

-----------------------------------------------------------------------------
(* The priority register stays one-hot: a second set bit would give two    *)
(* grants, none would stop the arbiter for good.                           *)
PriorityOneHot == \E j \in Bits : prio = {j}

(* The prefix network grants exactly the first requester at or after the   *)
(* priority position, for widths that are powers of two and those not.     *)
GrantIsFirstRequester ==
  \A p \in prio : Grant = FirstFrom(n, p, req)

(* anyGrant_o, computed from two overlapping half-length prefixes, is up   *)
(* exactly when some input requests.                                       *)
AnyGrantIffRequest == AnyGrant <=> req # {}
=============================================================================
