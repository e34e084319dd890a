---------------------------- MODULE EventService ----------------------------
(***************************************************************************)
(* What the event path promises the software of the fabric controller:     *)
(* every event raised is handled once, and it is refused only while the    *)
(* number of its occurrences waiting is at least Room.  Where an           *)
(* occurrence waits, and in which order events are handled, is left open.  *)
(***************************************************************************)
EXTENDS Naturals

CONSTANTS
  Event,
  Room,      (* occurrences of one event that are always accepted          *)
  None

VARIABLES
  enabled,   (* the events software has enabled                            *)
  pending,   (* how many occurrences of each event wait                    *)
  raised,    (* the enabled events raised at the last edge                 *)
  handled    (* the event handled at the last edge                         *)

Init ==
  /\ enabled \subseteq Event
  /\ pending = [e \in Event |-> 0]
  /\ raised = {}
  /\ handled = None

One(b) == IF b THEN 1 ELSE 0

(* One clock edge: any events are raised, and one at most is handled.  An  *)
(* occurrence raised adds to those that wait, unless Room of them do.      *)
Next ==
  LET before == pending
      waits(e, refused) == before[e] + One(e \in raised' \ refused) - One(e = handled')
  IN  /\ raised' \subseteq enabled
      /\ handled' \in enabled \cup {None}
      /\ handled' # None => before[handled'] > 0
      /\ \E refused \in SUBSET {e \in raised' : before[e] >= Room} :
           pending' = [e \in Event |-> waits(e, refused)]
      /\ UNCHANGED enabled

Spec == Init /\ [][Next]_<<enabled, pending, raised, handled>>
=============================================================================
