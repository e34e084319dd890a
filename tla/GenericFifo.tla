----------------------------- MODULE GenericFifo -----------------------------
(***************************************************************************)
(* generic_fifo.sv: a three-state controller over a register file with a   *)
(* push and a pop pointer.  The registers are indexed from 0; the pointers *)
(* are ADDR_DEPTH = $clog2(DATA_DEPTH) bits wide, so that an increment     *)
(* wraps at 2^ADDR_DEPTH where the code does not wrap it earlier.  Clock   *)
(* gating is left out: the code gates exactly the edges that write no      *)
(* register.                                                               *)
(***************************************************************************)
EXTENDS Naturals, Sequences

CONSTANTS
  Depth,      (* DATA_DEPTH                                                *)
  PtrMod,     (* 2^$clog2(DATA_DEPTH), the range of the pointers           *)
  Data,       (* the words                                                 *)
  Zero        (* the word of all zeros, content of the registers at reset  *)

ASSUME FifoAssumption ==
  /\ Depth \in Nat /\ Depth > 1
  /\ PtrMod \in Nat /\ PtrMod >= Depth /\ PtrMod < 2 * Depth
  /\ Zero \in Data

VARIABLES
  state,      (* CS                                                        *)
  pop,        (* Pop_Pointer_CS                                            *)
  push,       (* Push_Pointer_CS                                           *)
  regs        (* FIFO_REGISTERS                                            *)

fifoVars == <<state, pop, push, regs>>

Slot == 0 .. Depth - 1

Init ==
  /\ state = "EMPTY"
  /\ pop = 0
  /\ push = 0
  /\ regs = [i \in Slot |-> Zero]

(* Outputs.                                                                *)
GrantO == state # "FULL"
ValidO == state # "EMPTY"
DataO == regs[pop]

(* The pointer wraps where the code says so, and an increment without a    *)
(* test wraps where the register does.                                     *)
Wrap(p) == IF p = Depth - 1 THEN 0 ELSE (p + 1) % PtrMod

(* FIFO_REGISTERS[Push_Pointer_CS] <= data_i.  A write beyond the last     *)
(* register changes none.                                                  *)
WriteAtPop(d) == regs' = [i \in Slot |-> IF i = pop THEN d ELSE regs[i]]
Write(d) == regs' = [i \in Slot |-> IF i = push THEN d ELSE regs[i]]

(* The comparisons are made on integers: a pointer minus one is no pointer *)
(* when the pointer is zero.                                               *)
LastWord == pop + 1 = push \/ (pop = Depth - 1 /\ push = 0)
LastRoom == push + 1 = pop \/ (push = Depth - 1 /\ pop = 0)

-----------------------------------------------------------------------------
PushEmpty(d) ==
  /\ state = "EMPTY"
  /\ Write(d)
  /\ state' = "MIDDLE"
  /\ push' = (push + 1) % PtrMod
  /\ UNCHANGED pop

PopMiddleStay ==
  /\ state = "MIDDLE"
  /\ state' = "MIDDLE"
  /\ pop' = Wrap(pop)
  /\ UNCHANGED <<push, regs>>
PopMiddle ==
  /\ state = "MIDDLE"
  /\ state' = IF LastWord THEN "EMPTY" ELSE "MIDDLE"
  /\ pop' = Wrap(pop)
  /\ UNCHANGED <<push, regs>>

PushMiddle(d) ==
  /\ state = "MIDDLE"
  /\ Write(d)
  /\ state' = IF LastRoom THEN "FULL" ELSE "MIDDLE"
  /\ push' = Wrap(push)
  /\ UNCHANGED pop

PushPopMiddle(d) ==
  /\ state = "MIDDLE"
  /\ Write(d)
  /\ push' = Wrap(push)
  /\ pop' = Wrap(pop)
  /\ UNCHANGED state

PopFull ==
  /\ state = "FULL"
  /\ state' = "MIDDLE"
  /\ pop' = Wrap(pop)
  /\ UNCHANGED <<push, regs>>

(* One clock edge: valid_i with data_i = d on the push side, grant_i on    *)
(* the pop side.                                                           *)
Clock(valid, d, grant) ==
  \/ valid /\ PushEmpty(d)
  \/ ~valid /\ grant /\ PopMiddle
  \/ valid /\ ~grant /\ PushMiddle(d)
  \/ valid /\ grant /\ PushPopMiddle(d)
  \/ grant /\ PopFull
  \/ /\ \/ ~valid /\ state = "EMPTY"
        \/ ~valid /\ ~grant /\ state = "MIDDLE"
        \/ ~grant /\ state = "FULL"
     /\ UNCHANGED fifoVars

Next == \E valid, grant \in BOOLEAN, d \in Data : Clock(valid, d, grant)

Spec == Init /\ [][Next]_fifoVars

-----------------------------------------------------------------------------
(* The controller is in one of its three states and the pointers are in    *)
(* range of the registers.                                                 *)
TypeOK ==
  /\ state \in {"EMPTY", "MIDDLE", "FULL"}
  /\ pop \in Slot
  /\ push \in Slot
  /\ regs \in [Slot -> Data]

(* The state tells the two cases of equal pointers apart.                  *)
StateInv == (state \in {"EMPTY", "FULL"}) <=> (pop = push)

Occupancy ==
  CASE state = "EMPTY" -> 0
    [] state = "FULL" -> Depth
    [] OTHER -> IF push > pop THEN push - pop ELSE push + Depth - pop

(* The slot k places behind p, and the n words from p on, oldest first.    *)
At(p, k) == IF p + k < Depth THEN p + k ELSE p + k - Depth
Words(p, n, r) == [i \in 1 .. n |-> r[At(p, i - 1)]]

Contents == Words(pop, Occupancy, regs)

(* The FIFO implements the bounded queue.                                  *)
Queue == INSTANCE BoundedFifo WITH q <- Contents
ImplementsQueue == Queue!Spec
=============================================================================
