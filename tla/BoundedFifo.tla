----------------------------- MODULE BoundedFifo -----------------------------
(***************************************************************************)
(* What a clocked FIFO of Depth words promises: one queue, at most one     *)
(* word in and one out per clock edge, in order, none lost, duplicated or  *)
(* made up.  Room and content are judged before the edge: a full FIFO      *)
(* takes no word even if it hands one out at the same edge, and an empty   *)
(* one does not pass its input through.                                    *)
(***************************************************************************)
EXTENDS Naturals, Sequences

CONSTANTS Depth, Data

VARIABLE q

Init == q = <<>>

Put(d) == Len(q) < Depth /\ q' = Append(q, d)

Take == q # <<>> /\ q' = Tail(q)

PutAndTake(d) == Len(q) < Depth /\ q # <<>> /\ q' = Append(Tail(q), d)

Next == \/ Take
        \/ \E d \in Data : Put(d) \/ PutAndTake(d)

Spec == Init /\ [][Next]_q
=============================================================================
