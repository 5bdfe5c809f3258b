------------------------------- MODULE TypeMap -------------------------------
(***************************************************************************)
(* The pointer map of a Dis type descriptor: one bit per 32-bit word, the  *)
(* lowest word on the highest bit of its byte.  The code reads the map in  *)
(* two places, ModuleHeap::setup_pointers and Type::is_pointer.            *)
(*                                                                         *)
(* A map byte is the set of the positions 0..7 whose bit is 1, counted     *)
(* from the highest bit: position i is bit 7-i.                            *)
(***************************************************************************)
EXTENDS Integers, Sequences

MapByte == SUBSET (0 .. 7)

(* setup_pointers walks the bytes first to last and writes -1 to the word  *)
(* of every set bit: these are the words it marks.                         *)
MarkedWords(map) ==
  {w \in 0 .. 8 * Len(map) - 1 : w % 8 \in map[(w \div 8) + 1]}

(* is_pointer takes a byte offset and picks the map byte counted from the  *)
(* end of the map.                                                         *)
IsPointer(map, offset) ==
  LET byte_index == offset \div 32 IN
  /\ byte_index < Len(map)
  /\ (offset % 32) \div 4 \in map[Len(map) - byte_index]

(* The two readings of one map, compared word by word.                     *)
Agree(map) ==
  \A w \in 0 .. 8 * Len(map) : IsPointer(map, 4 * w) <=> w \in MarkedWords(map)
=============================================================================
