----------------------------- MODULE RoundRobin -----------------------------
(***************************************************************************)
(* What a rotating-priority arbiter promises: among the requesters, the    *)
(* grant goes to the first one at or after the priority position, counted  *)
(* cyclically.  The arbiters of the SoC (soc_event_arbiter.sv,             *)
(* udma_arbiter.sv) compute it with a parallel-prefix network; module      *)
(* PrefixArbiter shows that the network computes this definition.          *)
(***************************************************************************)
EXTENDS Integers

(* How many positions a grant moves from position p until it reaches e.    *)
Distance(n, p, e) == IF e >= p THEN e - p ELSE e - p + n

(* The position after e: the one-hot priority vector shifted left by one.  *)
Successor(n, e) == IF e = n - 1 THEN 0 ELSE e + 1

(* The requesters no other requester precedes: one of them, or none.       *)
FirstFrom(n, p, R) ==
  {e \in R : \A f \in R : Distance(n, p, e) <= Distance(n, p, f)}
=============================================================================
