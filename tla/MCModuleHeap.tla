---------------------------- MODULE MCModuleHeap ----------------------------
(***************************************************************************)
(* A small heap for TLC: 12 bytes of module data whose second word is a    *)
(* pointer, a byte-sized and a pointer-sized element type, room for one or *)
(* two objects in the size asked of mmap and a little more in the mapping. *)
(***************************************************************************)
EXTENDS ModuleHeap, TLC

(* Types 3 to 5 make sizes that wrap to a smaller one, that take heap_start *)
(* out of the address space, and that take it back.                         *)
MCTypeSize == 1 :> 4 @@ 2 :> 1 @@ 3 :> 700 @@ 4 :> -600 @@ 5 :> -50
MCSmallSize == 1 :> 4 @@ 2 :> 1

(* Words in the module data, behind it, and behind the mapping.             *)
MCMaps == {<<{1}>>, <<{5}>>, <<{}, {}, {}, {}, {}, {0}>>}

(* Forty bytes of module data whose second word is a pointer: two map bytes.*)
MCLongMaps == {<<{1}, {}>>}

(* Two nested arrays and their bases restored take six items; the builds    *)
(* differ to such a file only in where it may abort.                        *)
MCMaxItems == [p \in Producers, b \in Builds |->
                 IF p = "any" THEN 3 ELSE IF b = "debug" THEN 4 ELSE 6]
=============================================================================
