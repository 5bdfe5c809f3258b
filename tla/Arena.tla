-------------------------------- MODULE Arena -------------------------------
(***************************************************************************)
(* What an allocator without a free promises: a block it hands out lies    *)
(* past the reserved bytes and apart from every block handed out before,   *)
(* and no block is ever taken back, moved or resized.                      *)
(***************************************************************************)
EXTENDS Integers

CONSTANT Origin      \* the first address that may be handed out

VARIABLE blocks      \* the blocks handed out: address and size

Apart(b, c) == b.at + b.n <= c.at \/ c.at + c.n <= b.at

Init == blocks = {}

(* The new block is whatever block the next state has and this one lacks.   *)
Allocate ==
  \E b \in blocks' \ blocks :
    /\ blocks' = blocks \cup {b}
    /\ b.n > 0 /\ b.at >= Origin
    /\ \A c \in blocks : Apart(b, c)

Spec == Init /\ [][Allocate]_blocks
=============================================================================
