----------------------------- MODULE ModuleHeap -----------------------------
(***************************************************************************)
(* The heap of a Dis module (disvm/src/mem.rs, ModuleHeap) while           *)
(* load_module fills it from the data section of the object file: one      *)
(* action per kind of data item, one step per item.                        *)
(*                                                                         *)
(* The heap is one mapping.  The module data comes first; strings and      *)
(* arrays are carved from the rest by a bump allocator that never frees.   *)
(* Items are addressed from a base, the module data or the elements of an  *)
(* array, and nested arrays save the base on a stack.                      *)
(*                                                                         *)
(* A module that is loaded hands its heap to the host, which may go on:    *)
(* with write_data, set_index and restore as the loader did, and with the  *)
(* allocators and stores that nothing in the crate calls.                  *)
(*                                                                         *)
(* Memory is kept at the grain the properties need: the allocated objects  *)
(* and the words that hold a pointer.  The scalar payload of an item is    *)
(* the interval of bytes it overwrites.                                    *)
(***************************************************************************)
EXTENDS Integers, Sequences, FiniteSets, TypeMap

CONSTANTS
  HeapBase,     \* address of the mapping (0x80000)
  DataSize,     \* size of the module data, types[0].size
  HeapSize,     \* bytes requested from mmap: DataSize + HEAP_SIZE/2
  MapSize,      \* bytes the kernel mapped: HeapSize in whole pages
  Types,        \* indexes into the module's type descriptors
  TypeSize,     \* the size of each
  Maps,         \* pointer maps the module data descriptor may have
  ProbeOffset,  \* the offset load_module reads after the data section (312)
  MaxI32,       \* i32::MAX; addresses are u32
  USize,        \* usize::MAX + 1
  Builds,       \* "debug" checks arithmetic and the alignment of pointers
  Producers     \* which writers of object files are considered

(* Bounds of the model: the data items, and how many each producer emits.  *)
CONSTANTS Offsets, Lengths, Indexes, MaxItems

ObjectHeader == 24   \* size_of::<VmObject>()
StringHeader == 16   \* size_of::<vm_types::String>()
ArrayHeader  == 16   \* size_of::<vm_types::Array>()
ObjectAlign  == 8    \* VmObject is repr(align(8))
PtrSize      == 4
VM_NULLPTR   == -1   \* u32::MAX, written as the i32 -1
Nowhere      == -1

(* A "nested" producer indexes an array only right after the item that     *)
(* loads it, walking an initialiser depth first; a "wellformed" one        *)
(* indexes any array it loaded; both keep every item, and the marks of the *)
(* map, inside the module data or the array they address, and the sizes of *)
(* arrays within their width.  "any" is a file nobody vouches for.         *)
Sound == {"nested", "wellformed"}

Word == 2 * (MaxI32 + 1)

ASSUME SizesAssumption ==
  /\ HeapBase \in Nat \ {0}
  /\ DataSize \in Nat
  /\ HeapSize \in Nat /\ DataSize <= HeapSize
  /\ MapSize \in Nat /\ HeapSize <= MapSize
  /\ ProbeOffset \in Nat
  /\ MaxI32 \in Nat /\ HeapBase + MapSize < Word
  /\ USize \in Nat /\ Word <= USize /\ USize % Word = 0

(* A u32 reaches the end of the largest array that begins in the mapping.   *)
ASSUME ReachAssumption == HeapBase + MapSize + MaxI32 + 4 < Word

(* A size may be negative, and the marks of a map behind the module data.  *)
ASSUME TypesAssumption ==
  /\ Types \subseteq Nat
  /\ TypeSize \in [Types -> Int]
  /\ \A map \in Maps : map \in Seq(MapByte)

ASSUME InputsAssumption ==
  /\ Producers \subseteq Sound \cup {"any"}
  /\ Builds \subseteq {"debug", "release"}
  /\ Offsets \subseteq Nat /\ Lengths \subseteq Nat /\ Indexes \subseteq Nat
  /\ MaxItems \in [Producers \X Builds -> Nat]

VARIABLES
  build,       \* how the loader was compiled
  map,         \* pointer map of types[0]
  heapStart,   \* ModuleHeap.heap_start: where free memory begins, an offset
  base,        \* ModuleHeap.base
  arrayStack,  \* ModuleHeap.array_stack
  lastArray,   \* ModuleHeap.last_array: a header's address, 0 before the first
  objects,     \* the strings and arrays allocated
  areas,       \* the memory handed out bare: address and size
  slots,       \* the words that hold a pointer: address and pointer
  rc,          \* Type.rc of each descriptor
  stage,       \* where load_module stands: "items", "probe", "done"
  status       \* "ok", or how it went wrong: see Outcome and the actions

(* Auxiliary variables: they record what the file means and constrain the  *)
(* environment; no code reads them.                                        *)
VARIABLES
  producer,    \* who wrote the file
  pending,     \* offset of the array item just loaded, or Nowhere
  path,        \* the arrays the open index items named, innermost last
  items        \* data items read

heapVars == <<heapStart, base, arrayStack, lastArray, objects, areas, slots, rc>>
auxVars  == <<producer, pending, path, items>>
vars     == <<build, map, heapVars, stage, status, auxVars>>

-----------------------------------------------------------------------------
(* Layout.                                                                  *)

ModuleBase == [kind |-> "Module", ptr |-> HeapBase, start |-> 0]
ArrayBase(ptr, start) == [kind |-> "Array", ptr |-> ptr, start |-> start]

(* The i32 that holds x, and the usize an i32 is cast to: when x is out of  *)
(* range, what a build that does not check makes of it.                     *)
IsI32(x) == x \in -(MaxI32 + 1) .. MaxI32
I32(x) == IF IsI32(x) THEN x ELSE ((x + MaxI32 + 1) % Word) - (MaxI32 + 1)
AsUsize(x) == IF x < 0 THEN x + USize ELSE x

Object == [at : Nat, n : Nat, typ : {"Tstring", "Tarray"},
           t : Types \cup {Nowhere}, len : Nat]

StringObject(at, len) ==
  [at |-> at, n |-> StringHeader + len, typ |-> "Tstring", t |-> Nowhere,
   len |-> len]
ArrayObject(at, t, len) ==
  [at |-> at, n |-> ArrayHeader + AsUsize(I32(TypeSize[t] * len)), typ |-> "Tarray",
   t |-> t, len |-> len]

Arrays == {o \in objects : o.typ = "Tarray"}

Payload(o)  == o.at + ObjectHeader           \* H2D: what pointers hold
Elements(o) == Payload(o) + ArrayHeader      \* Array.data
EndOf(o)    == Payload(o) + o.n

(* What a data item must not overwrite: the header and the String or Array *)
(* record of an object, and the characters of a string.                    *)
HeadEnd(o) == IF o.typ = "Tarray" THEN Elements(o) ELSE EndOf(o)

(* Variants named ...Bug are what a plausible slip would make of the next   *)
(* definition; only the mutation runs use them.                             *)
Align4Bug(n) == (n \div 4) * 4

(* allocate_bytes rounds the size up to a word.                            *)
Align4(n) == IF n % 4 = 0 THEN n ELSE (n \div 4 + 1) * 4

(* heap_start after n bytes and their header.  It goes past the end of a    *)
(* usize when n was negative: a debug build panics, another goes back.      *)
FreePtr == HeapBase + heapStart
Carries(n) == heapStart + Align4(ObjectHeader + n) >= USize
StartAfter(n) ==
  heapStart + Align4(ObjectHeader + n) - (IF Carries(n) THEN USize ELSE 0)

(* The arithmetic of a debug build refuses the array.                       *)
OverflowsBug(t, len) == Carries(ArrayObject(FreePtr, t, len).n)
Overflows(t, len) ==
  ~IsI32(TypeSize[t] * len) \/ Carries(ArrayObject(FreePtr, t, len).n)

(* write_data's destination, and the two checks it makes on it.  The sum of *)
(* the second is a u32: past its range it panics or begins again at 0.      *)
Dest(off) == base.ptr + base.start + off
Limit(start) == HeapBase + (start % Word)
InBoundsBug(off, start) == off <= start /\ Dest(off) < HeapBase + DataSize
InBounds(off, start) ==
  /\ off <= start
  /\ IF Limit(start) < Word THEN Dest(off) < Limit(start)
     ELSE build = "release" /\ Dest(off) < Limit(start) - Word

Overlap(a, w, b, v) == w > 0 /\ a < b + v /\ b < a + w

(* What becomes of a store of w bytes at address a.  Past the mapping it   *)
(* faults; on the head of an object the process goes on with a damaged     *)
(* heap, which is as far as the model follows it.                          *)
Mapped(a, w) == w = 0 \/ a + w <= HeapBase + MapSize
Hits(a, w, objs) ==
  \E o \in objs : Overlap(a, w, o.at, HeadEnd(o) - o.at)
Outcome(a, w, objs) ==
  IF ~Mapped(a, w) THEN "fault"
  ELSE IF Hits(a, w, objs) THEN "clobbered" ELSE "ok"

(* The same of a new object, of which bytes are written before anything.    *)
Placing(o, bytes) == Outcome(o.at, bytes, objects)

(* A store to an address that its type does not allow is undefined: it is   *)
(* made, or a debug build aborts.                                           *)
Ends(s, places) ==
  IF build = "debug" /\ s # "panic" /\ \E p \in places : p.at % p.align # 0
  THEN {s, "abort"} ELSE {s}

(* The pointer words left after a store of w bytes at a.                   *)
Erase(ss, a, w) == {s \in ss : ~Overlap(a, w, s.at, PtrSize)}
StorePtr(ss, a, p) == Erase(ss, a, PtrSize) \cup {[at |-> a, ptr |-> p]}

(* The pointer in the word at a, if that word holds one.                   *)
PointerAt(a) ==
  IF \E s \in slots : s.at = a THEN (CHOOSE s \in slots : s.at = a).ptr
  ELSE VM_NULLPTR

-----------------------------------------------------------------------------
(* ModuleHeap::new: heap_start is the descriptor's size, setup_pointers     *)
(* marks the pointer words, every other byte is zero.  A mark behind the    *)
(* module data is written all the same, to memory that is free or to none.  *)

NoArrayBug == VM_NULLPTR
NoArray == 0

SetupPointersNilBug ==
  {[at |-> HeapBase + PtrSize * w, ptr |-> 0] : w \in MarkedWords(map)}
SetupPointersBitBug ==
  {[at |-> HeapBase + PtrSize * (7 - w), ptr |-> VM_NULLPTR] :
     w \in MarkedWords(map)}
SetupPointers == {[at |-> HeapBase + PtrSize * w, ptr |-> VM_NULLPTR] :
                    w \in MarkedWords(map)}

MarksFit == \A w \in MarkedWords(map) : PtrSize * w + PtrSize <= DataSize

Init ==
  /\ build \in Builds
  /\ map \in Maps
  /\ producer \in Producers
  /\ producer \in Sound => MarksFit
  /\ heapStart = DataSize
  /\ base = ModuleBase
  /\ arrayStack = <<>>
  /\ lastArray = NoArray
  /\ objects = {}
  /\ areas = {}
  /\ slots = SetupPointers
  /\ rc = [t \in Types |-> 0]
  /\ stage = "items"
  /\ status = IF \A s \in slots : Mapped(s.at, PtrSize) THEN "ok" ELSE "fault"
  /\ pending = Nowhere
  /\ path = <<>>
  /\ items = 0

(* What the file may hold next.  Sound producers place w bytes at an        *)
(* offset of the module data, or of an element of the array the open index  *)
(* items name, and index an array at the offset they loaded it.             *)
Fits(off, w) ==
  IF path = <<>> THEN off + w <= DataSize
  ELSE \E o \in Arrays :
         /\ Payload(o) = path[Len(path)]
         /\ base.start * TypeSize[o.t] + off + w <= o.n - ArrayHeader

Emits(off, w) == producer \in Sound => w > 0 /\ Fits(off, w)
EmitsString(len) == producer \in Sound => ~Carries(StringObject(FreePtr, len).n)
EmitsArray(t, len) == producer \in Sound => TypeSize[t] >= 0 /\ ~Overflows(t, len)

NamesElement(off, i) ==
  \E o \in Arrays :
    /\ PointerAt(Dest(off)) = Payload(o)
    /\ i < o.len
    /\ producer = "nested" => pending = off

(* One call on the heap.                                                    *)
Call ==
  /\ status = "ok" /\ items < MaxItems[producer, build]
  /\ items' = items + 1
  /\ UNCHANGED <<build, map, stage, producer>>

(* One turn of load_module's data loop; or, for what that calls of the      *)
(* heap's public functions, a call of the host to the heap of a module that *)
(* was loaded.                                                              *)
Turn == stage = "items" /\ Call /\ UNCHANGED areas
Hosted == stage = "done" /\ producer = "any" /\ Call
Item == Turn \/ (Hosted /\ UNCHANGED areas)

(* Bytes, words, longs and reals: count stores of one width from offset on. *)
(* write_data checks where they begin, not where they end.                  *)
Widths == {1, 4, 8}

LoadScalars(width, count, off) ==
  LET w == width * count
      s == IF InBounds(off, heapStart) THEN Outcome(Dest(off), w, objects)
           ELSE "panic"
  IN
  /\ Item /\ Emits(off, w)
  /\ status' \in Ends(s, IF w = 0 THEN {} ELSE {[at |-> Dest(off), align |-> width]})
  /\ slots' = IF s = "ok" THEN Erase(slots, Dest(off), w) ELSE slots
  /\ pending' = Nowhere
  /\ UNCHANGED <<heapStart, base, arrayStack, lastArray, objects, rc, path>>

(* What a string or an array stores: its header, and a pointer to itself.   *)
Stores(o, off) ==
  {[at |-> o.at, align |-> ObjectAlign], [at |-> Dest(off), align |-> PtrSize]}

StringEnd(o, off) ==
  LET placed == Placing(o, EndOf(o) - o.at) IN
  IF ~InBounds(off, heapStart) \/ (build = "debug" /\ Carries(o.n)) THEN "panic"
  ELSE IF placed # "ok" THEN placed
  ELSE Outcome(Dest(off), PtrSize, objects \cup {o})

(* A string of len bytes: len is its length once decoded.  The checks come  *)
(* first, then new_string allocates and fills the object, and last the      *)
(* pointer to it is stored.                                                 *)
LoadString(len, off) ==
  LET o == StringObject(FreePtr, len)
      s == StringEnd(o, off)
  IN
  /\ Item /\ Emits(off, PtrSize) /\ EmitsString(len)
  /\ status' \in Ends(s, Stores(o, off))
  /\ IF s = "panic" THEN UNCHANGED <<heapStart, objects>>
     ELSE /\ heapStart' = StartAfter(o.n)
          /\ objects' = objects \cup {o}
  /\ slots' = IF s = "ok"
              THEN StorePtr(Erase(slots, o.at, EndOf(o) - o.at), Dest(off), Payload(o))
              ELSE slots
  /\ pending' = Nowhere
  /\ UNCHANGED <<base, arrayStack, lastArray, rc, path>>

CountArrayBug(t) == [rc EXCEPT ![1] = @ + 1]
CountArray(t) == [rc EXCEPT ![t] = @ + 1]

ArrayEnd(o, off) ==
  LET placed == Placing(o, HeadEnd(o) - o.at) IN
  IF placed # "ok" THEN placed
  ELSE IF ~InBounds(off, StartAfter(o.n)) THEN "panic"
  ELSE Outcome(Dest(off), PtrSize, objects \cup {o})

(* An array of len elements of type t.  Here the object comes first, only   *)
(* its head is written, and the offset is checked against the heap start    *)
(* after the allocation.                                                    *)
LoadArray(t, len, off) ==
  LET o == ArrayObject(FreePtr, t, len)
      refused == build = "debug" /\ Overflows(t, len)
      s == IF refused THEN "panic" ELSE ArrayEnd(o, off)
  IN
  /\ Turn /\ Emits(off, PtrSize) /\ EmitsArray(t, len)
  /\ status' \in Ends(s, Stores(o, off))
  /\ rc' = CountArray(t)
  /\ IF refused THEN UNCHANGED <<heapStart, objects>>
     ELSE heapStart' = StartAfter(o.n) /\ objects' = objects \cup {o}
  /\ IF s = "ok"
     THEN /\ slots' = StorePtr(Erase(slots, o.at, HeadEnd(o) - o.at),
                               Dest(off), Payload(o))
          /\ lastArray' = o.at
          /\ pending' = off
     ELSE /\ pending' = Nowhere
          /\ UNCHANGED <<slots, lastArray>>
  /\ UNCHANGED <<base, arrayStack, path>>

(* Set the array index: the new base is the last array loaded, whichever    *)
(* array the item's offset names.  Before the first array the read of its   *)
(* header is a read of address 24.                                          *)
SetIndex(i, off) ==
  /\ Item
  /\ producer \in Sound => NamesElement(off, i)
  /\ IF lastArray = NoArray
     THEN /\ status' = "fault"
          /\ UNCHANGED <<base, arrayStack, path>>
     ELSE /\ arrayStack' = Append(arrayStack, base)
          /\ base' = ArrayBase(lastArray + ObjectHeader + ArrayHeader, i)
          /\ path' = Append(path, PointerAt(Dest(off)))
          /\ UNCHANGED status
  /\ pending' = Nowhere
  /\ UNCHANGED <<heapStart, lastArray, objects, slots, rc>>

(* RestoreBug pops the end that set_index does not push.                    *)
RestoreBug ==
  /\ Item
  /\ producer \in Sound => path # <<>>
  /\ arrayStack # <<>>
  /\ base' = Head(arrayStack) /\ arrayStack' = Tail(arrayStack)
  /\ path' = SubSeq(path, 1, Len(path) - 1)
  /\ pending' = Nowhere
  /\ UNCHANGED <<heapStart, lastArray, objects, slots, rc, status>>

Restore ==
  /\ Item
  /\ producer \in Sound => path # <<>>
  /\ IF arrayStack = <<>>
     THEN /\ status' = "panic"
          /\ UNCHANGED <<base, arrayStack, path>>
     ELSE /\ base' = arrayStack[Len(arrayStack)]
          /\ arrayStack' = SubSeq(arrayStack, 1, Len(arrayStack) - 1)
          /\ path' = SubSeq(path, 1, Len(path) - 1)
          /\ UNCHANGED status
  /\ pending' = Nowhere
  /\ UNCHANGED <<heapStart, lastArray, objects, slots, rc>>

(* An unknown code, a negative count, index, length or type, a type that is *)
(* not described, or a file that ends inside the item.                      *)
RejectItem ==
  /\ Turn /\ producer = "any"
  /\ status' = "panic"
  /\ pending' = Nowhere
  /\ UNCHANGED <<heapVars, path>>

(* The zero byte that ends the section.                                     *)
EndItems ==
  /\ stage = "items" /\ status = "ok"
  /\ producer \in Sound => path = <<>>
  /\ stage' = "probe"
  /\ UNCHANGED <<build, map, heapVars, status, auxVars>>

(* After the section load_module reads the word at a fixed offset as a      *)
(* pointer to an Array and prints len words from its data pointer.  A word  *)
(* that no item wrote a pointer to holds whatever the items left there.     *)
ReadElements(p) ==
  \E o \in objects :
    /\ Payload(o) = p
    /\ status' = IF Mapped(p + ArrayHeader, PtrSize * o.len) THEN "ok" ELSE "fault"

Probe ==
  /\ stage = "probe" /\ status = "ok"
  /\ stage' = "done"
  /\ LET a == HeapBase + ProbeOffset IN
     IF ProbeOffset > heapStart THEN status' = "panic"
     ELSE IF ~Mapped(a, PtrSize) THEN status' = "fault"
     ELSE IF \E s \in slots : s.at = a
          THEN \/ PointerAt(a) = VM_NULLPTR /\ status' = "fault"
               \/ ReadElements(PointerAt(a))
          ELSE status' \in {"ok", "fault"}
  /\ UNCHANGED <<build, map, heapVars, auxVars>>

-----------------------------------------------------------------------------
(* What only the host calls.                                                *)

HostCall ==
  /\ Hosted /\ pending' = Nowhere
  /\ UNCHANGED <<base, arrayStack, lastArray, rc, path>>

(* An area of n bytes for which heap_start moves by m, and w bytes stored   *)
(* at its beginning.  Bound: the host stays in the space of a u32.          *)
HandOut(n, m, w) ==
  LET s == Outcome(FreePtr, w, objects) IN
  /\ HostCall /\ FreePtr + m < Word
  /\ heapStart' = heapStart + m
  /\ areas' = areas \cup {[at |-> FreePtr, n |-> n]}
  /\ status' \in Ends(s, IF w = 0 THEN {} ELSE {[at |-> FreePtr, align |-> ObjectAlign]})
  /\ slots' = IF s = "ok" THEN Erase(slots, FreePtr, w) ELSE slots
  /\ UNCHANGED objects

(* allocate does not round its size up; nheap writes an empty header.       *)
AllocateBug(n) == HandOut(n, (n \div 4) * 4, 0)
Allocate(n) == HandOut(n, n, 0)
AllocateBytes(n) == HandOut(n, Align4(n), 0)
Nheap(n) == HandOut(ObjectHeader + n, Align4(ObjectHeader + n), ObjectHeader)

NewString(len) ==
  LET o == StringObject(FreePtr, len)
      s == Placing(o, EndOf(o) - o.at)
  IN
  /\ HostCall /\ EndOf(o) + 3 < Word
  /\ heapStart' = StartAfter(o.n)
  /\ objects' = objects \cup {o}
  /\ status' \in Ends(s, {[at |-> o.at, align |-> ObjectAlign]})
  /\ slots' = IF s = "ok" THEN Erase(slots, o.at, EndOf(o) - o.at) ELSE slots
  /\ UNCHANGED areas

(* write, write_ptr and write_heap store at any address.                    *)
Write(width, a) ==
  LET s == Outcome(a, width, objects) IN
  /\ HostCall
  /\ status' \in Ends(s, {[at |-> a, align |-> width]})
  /\ slots' = IF s = "ok" THEN Erase(slots, a, width) ELSE slots
  /\ UNCHANGED <<heapStart, objects, areas>>

WriteModuleData(width, off) ==
  IF off <= heapStart THEN Write(width, HeapBase + off)
  ELSE /\ HostCall /\ status' = "panic"
       /\ UNCHANGED <<heapStart, objects, areas, slots>>

(* The addresses of what the host was given.                                *)
Given == {Elements(o) : o \in Arrays} \cup {b.at : b \in areas}

HostStep ==
  \/ \E n \in Lengths : Allocate(n) \/ AllocateBytes(n) \/ Nheap(n) \/ NewString(n)
  \/ \E width \in Widths, a \in Given : Write(width, a)
  \/ \E width \in Widths, off \in Offsets : WriteModuleData(width, off)

Next ==
  \/ \E width \in Widths, count \in Lengths, off \in Offsets :
       LoadScalars(width, count, off)
  \/ \E len \in Lengths, off \in Offsets : LoadString(len, off)
  \/ \E t \in Types, len \in Lengths, off \in Offsets : LoadArray(t, len, off)
  \/ \E i \in Indexes, off \in Offsets : SetIndex(i, off)
  \/ Restore
  \/ RejectItem
  \/ EndItems
  \/ Probe
  \/ HostStep

Spec == Init /\ [][Next]_vars

-----------------------------------------------------------------------------
(* Properties.                                                              *)

Bases == {ModuleBase} \cup
         [kind : {"Array"}, ptr : Nat, start : Nat]

(* Type invariant.                                                          *)
TypeOK ==
  /\ build \in Builds
  /\ map \in Maps
  /\ heapStart \in Nat
  /\ base \in Bases
  /\ arrayStack \in Seq(Bases)
  /\ lastArray \in Nat
  /\ objects \subseteq Object
  /\ areas \subseteq [at : Nat, n : Nat]
  /\ slots \subseteq [at : Nat, ptr : Nat \cup {VM_NULLPTR}]
  /\ rc \in [Types -> Nat]
  /\ stage \in {"items", "probe", "done"}
  /\ status \in {"ok", "panic", "fault", "clobbered", "abort"}
  /\ producer \in Producers
  /\ pending \in Nat \cup {Nowhere}
  /\ path \in Seq(Nat \cup {VM_NULLPTR})
  /\ items \in Nat

(* Whatever the file says, in a build that checks its arithmetic, and in    *)
(* one that does not for a file that keeps its sizes: two strings or arrays *)
(* never share a byte, none reaches into the module data or past            *)
(* heap_start, and an array has room for the elements it counts.  It takes  *)
(* the arithmetic of allocate_bytes and nheap and the sizes new_string and  *)
(* load_data ask for.                                                       *)
SizesKept == build = "debug" \/ producer \in Sound

ObjectsDisjoint ==
  SizesKept =>
    /\ \A o \in objects : HeapBase + DataSize <= o.at /\ EndOf(o) <= FreePtr
    /\ \A o, q \in objects :
         o # q => ~Overlap(o.at, EndOf(o) - o.at, q.at, EndOf(q) - q.at)

ElementsFit ==
  SizesKept => \A o \in Arrays : Elements(o) + TypeSize[o.t] * o.len <= EndOf(o)

(* Whatever the file says, a word the loader left a pointer in is either    *)
(* the empty pointer or the payload of a string or array that was           *)
(* allocated, and no part of it lies in the head of an object: later items  *)
(* that write over a pointer, or carve an object over it, replace it.       *)
PointersResolve ==
  \A s \in slots :
    /\ s.ptr # VM_NULLPTR => \E o \in objects : s.ptr = Payload(o)
    /\ status = "ok" =>
         \A o \in objects : ~Overlap(s.at, PtrSize, o.at, HeadEnd(o) - o.at)

(* For a file that walks its initialisers depth first: the base is always   *)
(* the elements of the array that the innermost open index item named, and  *)
(* the stack holds the bases of the enclosing ones, so that restore goes    *)
(* back to the right array.  The code does not look at what the item names, *)
(* it takes last_array.                                                     *)
Frames == Append(arrayStack, base)

BaseFollows ==
  /\ Len(arrayStack) = Len(path)
  /\ Frames[1] = ModuleBase
  /\ \A k \in 1 .. Len(path) :
       /\ Frames[k + 1].kind = "Array"
       /\ Frames[k + 1].ptr = path[k] + ArrayHeader

BaseFollowsPath == producer = "nested" => BaseFollows

(* ... and every pointer of such a file lies in the module data or wholly   *)
(* inside the elements of one array.                                        *)
InRegion(a) ==
  \/ HeapBase <= a /\ a + PtrSize <= HeapBase + DataSize
  \/ \E o \in Arrays : Elements(o) <= a /\ a + PtrSize <= EndOf(o)

SlotsInRegions == producer = "nested" => \A s \in slots : InRegion(s.at)

(* ... and the loader neither rejects an item of such a file nor damages an *)
(* object with it; the one thing that can stop it is the end of the         *)
(* mapping, after it allocated more than it had asked mmap for, and in a    *)
(* debug build an address that does not suit its type.                      *)
NestedLoads ==
  producer = "nested" /\ stage = "items" =>
    /\ status \in {"ok", "fault", "abort"}
    /\ status = "fault" => heapStart > HeapSize
    /\ status = "abort" => build = "debug"

(* rc of a descriptor, the count a collector would go by, is the number of  *)
(* arrays allocated with that type, as long as the loader goes on.  (It is  *)
(* counted before the size is computed, and a release build may lay one     *)
(* array over another.)                                                     *)
RcCountsArrays ==
  status = "ok" => \A t \in Types : rc[t] = Cardinality({o \in Arrays : o.t = t})

(* The heap implements an arena: what it hands out is apart from all it     *)
(* handed out before, and it never takes anything back, while sizes are     *)
(* kept: whichever of its allocators, that round up sizes and that do not,  *)
(* the loader and the host call in which order.                             *)
Blocks ==
  IF SizesKept THEN {[at |-> o.at, n |-> ObjectHeader + o.n] : o \in objects}
                    \cup {b \in areas : b.n > 0}
  ELSE {}
A == INSTANCE Arena WITH Origin <- HeapBase + DataSize, blocks <- Blocks
ArenaSpec == A!Spec

-----------------------------------------------------------------------------
(* What the repository says of the heap, and the code does not keep.        *)

(* "total size of Heap memory allocation" (mem.rs, field size): what is     *)
(* allocated fits in the size asked of mmap.  ModuleDataError::OutOfMemory  *)
(* is declared, allocate_bytes never compares.                              *)
HeapWithinSize == heapStart <= HeapSize

(* "used to know what array should be written to" (mem.rs, last_array):     *)
(* items that follow an index item go to the array that item names.         *)
LastArrayIsTheOneNamed == producer \in Sound => BaseFollows

(* "works for primitive type arrays" (README): the items that follow a set  *)
(* index i go to element i of the array.                                    *)
IndexReachesElement ==
  base.kind = "Array" =>
    \E o \in Arrays : /\ base.ptr = Elements(o)
                      /\ Dest(0) = Elements(o) + base.start * TypeSize[o.t]

(* "Module parsing and loading" is ticked in the README: a file that walks  *)
(* its initialisers depth first and stays within the heap is loaded to its  *)
(* end.                                                                     *)
NestedFinishes ==
  producer = "nested" /\ stage = "done" /\ heapStart <= HeapSize => status = "ok"

(* "lowest offset is mapped to highest bit" (module.rs, is_pointer): the    *)
(* test the types offer finds the very words the heap marked.               *)
IsPointerAgrees == Agree(map)
=============================================================================
