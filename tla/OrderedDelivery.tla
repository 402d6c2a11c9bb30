--------------------------- MODULE OrderedDelivery ---------------------------
(***************************************************************************)
(* What the receiving side of the tunnel promises: blocks may be lost, but *)
(* a block is delivered at most once and never after a later one.  Blocks  *)
(* are numbered in the order in which they were sent, without wrap-around. *)
(* A block is decided once it can no longer be delivered.                  *)
(***************************************************************************)
EXTENDS Integers

CONSTANT Horizon   \* how far ahead of the undecided blocks delivery may jump

VARIABLES
    decided,   \* blocks below this number are decided: delivered or given up
    last,      \* the last block delivered, -1 at first
    count      \* the number of deliveries

cvars == <<decided, last, count>>

Init == decided = 0 /\ last = -1 /\ count = 0

\* Deliver a block that is not decided; the previous one delivered must be.
Deliver ==
    /\ last < decided
    /\ \E b \in decided..(decided + Horizon - 1) : last' = b
    /\ count' = count + 1
    /\ UNCHANGED decided

\* Decide the oldest undecided block.
Decide ==
    /\ decided' = decided + 1
    /\ UNCHANGED <<last, count>>

Next == Deliver \/ Decide

Spec == Init /\ [][Next]_cvars
=============================================================================
