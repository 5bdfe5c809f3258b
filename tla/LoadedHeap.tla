----------------------------- MODULE LoadedHeap -----------------------------
(***************************************************************************)
(* load_module with the heap it fills: DisLoader and ModuleHeap composed.  *)
(* The bytes of the data section drive the heap, one item per step, and a  *)
(* heap that panics or faults stops the loader.                            *)
(*                                                                         *)
(* New here is what the two leave out of each other: how the bytes of an   *)
(* item become the arguments of load_data, and the bytes in the memory of  *)
(* the heap.  Strings are decoded, words and longs change from the byte    *)
(* order of the file to the one of the machine.                            *)
(***************************************************************************)
EXTENDS DisLoader

CONSTANTS
  Layout,      \* the type descriptors, the same in every module of Modules
  HeapBase, HeapSize, MapSize, ProbeOffset, MaxI32, USize, Builds   \* see ModuleHeap

(* A map byte as the words it marks: word i is bit 7-i.                     *)
MapBits(byte) == {i \in 0 .. 7 : (byte \div 2 ^ (7 - i)) % 2 = 1}
DescMap(t) == [k \in DOMAIN t.map |-> MapBits(t.map[k])]

TypeSize == [t \in 0 .. Len(Layout) - 1 |-> Layout[t + 1].size]

VARIABLES
  build, map, heapStart, base, arrayStack, lastArray, objects, areas, slots, rc, stage,
  heapStatus, producer, pending, path, items,   \* see ModuleHeap
  memory       \* the bytes items stored: address -> byte; every other is 0

(* Bound: the items of a file.                                              *)
ItemBound == [who \in {"any"} \X Builds |-> Huge]

(* A file may ask for any offset, length and index.                         *)
H == INSTANCE ModuleHeap WITH
       DataSize <- Layout[1].size, Types <- DOMAIN TypeSize,
       Maps <- {DescMap(Layout[1])}, Producers <- {"any"},
       Offsets <- Nat, Lengths <- Nat, Indexes <- Nat,
       MaxItems <- ItemBound, status <- heapStatus

heapVars == <<build, map, heapStart, base, arrayStack, lastArray, objects, areas, slots, rc,
              stage, heapStatus, producer, pending, path, items, memory>>
loadedVars == <<vars, heapVars>>

(* Characters of three and four bytes are left out.                         *)
FileByte == (0 .. 255) \ (224 .. 244)

ASSUME LayoutAssumption ==
  /\ DamagedBytes \subseteq FileByte
  /\ \A d \in ToSet(Layout) : d.size >= 0
  /\ \A m \in Modules :
       /\ m.types = Layout /\ m.dsize \in {0, Layout[1].size}
       /\ ToSet(Encode(m)) \subseteq FileByte

(* As in ModuleHeap.                                                        *)
ASSUME HeapAssumption ==
  /\ HeapBase \in Nat \ {0} /\ HeapSize \in Nat /\ MapSize \in Nat /\ ProbeOffset \in Nat
  /\ Layout[1].size <= HeapSize /\ HeapSize <= MapSize
  /\ MaxI32 \in Nat /\ HeapBase + MapSize + MaxI32 + 4 < H!Word
  /\ USize \in Nat /\ H!Word <= USize /\ USize % H!Word = 0
  /\ Builds \subseteq {"debug", "release"}

(* Files are damaged in their data section.  The heap comes to be when      *)
(* CreateHeap is taken; until then its variables hold what ModuleHeap::new  *)
(* will give them.                                                          *)
LoadedInit ==
  /\ mod \in Modules /\ damage \in Damage[mod]
  /\ LET from == Len(EncodeFront(mod)) IN
     InitWith(from, from + Len(EncodeData(mod)))
  /\ H!Init /\ memory = <<>>

-----------------------------------------------------------------------------
(* Bytes.                                                                   *)

Stored(mem, a, bytes) ==
  LET new == a .. a + Len(bytes) - 1 IN
  [x \in new \cup DOMAIN mem |-> IF x \in new THEN bytes[x - a + 1] ELSE mem[x]]
Taken(mem, a, w) == [x \in DOMAIN mem \ (a .. a + w - 1) |-> mem[x]]

ByteIn(a) == IF a \in DOMAIN memory THEN memory[a] ELSE 0

(* Numbers of width w, from big endian in the file to little endian.        *)
NativeBug(w, bytes) == bytes
Native(w, bytes) ==
  [k \in DOMAIN bytes |-> bytes[w * ((k - 1) \div w) + w - ((k - 1) % w)]]

(* from_utf8_lossy: a byte that begins or continues no character becomes    *)
(* the three bytes of U+FFFD.                                               *)
Leads(b) == b \in 194 .. 223
Continues(b) == b \in 128 .. 191
Pair(bytes, k) == k \in 1 .. Len(bytes) - 1 /\ Leads(bytes[k]) /\ Continues(bytes[k + 1])

ReplacementBug == <<65533>>
Replacement == <<239, 191, 189>>

LossyBug(bytes) == bytes
Lossy(bytes) ==
  FlattenSeq([k \in 1 .. Len(bytes) |->
    IF bytes[k] < 128 \/ Pair(bytes, k) \/ Pair(bytes, k - 1) THEN <<bytes[k]>>
    ELSE Replacement])

-----------------------------------------------------------------------------
(* load_data: one item, from its bytes.                                     *)

ScalarWidth == [typ \in {1, 2, 4, 8} |-> IF typ = 1 THEN 1 ELSE IF typ = 2 THEN 4 ELSE 8]

(* The bytes a store to the heap leaves, when nothing stops it.             *)
Remember(mem) == memory' = IF heapStatus' = "ok" THEN mem ELSE memory

Scalars(typ, count, off, data) ==
  /\ typ \in DOMAIN ScalarWidth
  /\ H!LoadScalars(ScalarWidth[typ], count, off)
  /\ Remember(Stored(memory, H!Dest(off), Native(ScalarWidth[typ], data)))

(* The head of a new object and a pointer to it are no data bytes.          *)
String(typ, off, data) ==
  LET str == Lossy(data)
      head == H!ObjectHeader + H!StringHeader
  IN /\ typ = 3
     /\ H!LoadString(Len(str), off)
     /\ Remember(Taken(Stored(Taken(memory, H!FreePtr, head), H!FreePtr + head, str),
                       H!Dest(off), H!PtrSize))

Array(typ, off, data) ==
  /\ typ = 5
  /\ \E t \in {ParseWord(data, 0)}, len \in {ParseWord(data, 4)} : H!LoadArray(t, len, off)
  /\ Remember(Taken(Taken(memory, H!FreePtr, H!ObjectHeader + H!ArrayHeader),
                    H!Dest(off), H!PtrSize))

Index(typ, off, data) ==
  /\ typ = 6 /\ H!SetIndex(ParseWord(data, 0), off) /\ UNCHANGED memory
RestoreBase(typ) == typ = 7 /\ H!Restore /\ UNCHANGED memory

HeapItem(typ, count, off, data) ==
  \/ Scalars(typ, count, off, data) \/ String(typ, off, data) \/ Array(typ, off, data)
  \/ Index(typ, off, data) \/ RestoreBase(typ)

(* A heap that stops stops the loader.                                      *)
ThenBug(step) == step
Then(step) == IF heapStatus' = "ok" THEN step ELSE HeapStops

(* The offset is the item's last operand, the count, if there, its first.   *)
ItemOffsetBug(o) == ToUsize(o.val[1])
ItemOffset(o) == ToUsize(o.val[Len(o.val)])

LoadItem ==
  LET code == Byte(offset)
      o == ItemOperands
      typ == code \div 16
      count == DataCount(code, o)
  IN
  /\ At("data") /\ (Has(offset, 1) => code # 0)
  /\ IF Has(offset, 1) /\ ItemValid(code, o)
     THEN /\ \E off \in {ItemOffset(o)}, data \in {SubSeq(file, o.at + 1, AfterItem(code, o))} :
               HeapItem(typ, count, off, data)
          /\ Then(ReadItem)
     ELSE H!RejectItem /\ UNCHANGED memory /\ ReadItem

(* The zero byte is read, then the heap is probed.                          *)
EndItems ==
  /\ At("data") /\ Has(offset, 1) /\ Byte(offset) = 0
  /\ H!EndItems /\ UNCHANGED <<vars, memory>>

ProbeHeap == At("data") /\ H!Probe /\ Then(EndData) /\ UNCHANGED memory

Elsewhere == section # "data" /\ Parse /\ UNCHANGED heapVars

LoadedNext == LoadItem \/ EndItems \/ ProbeHeap \/ Elsewhere

LoadedSpec == LoadedInit /\ [][LoadedNext]_loadedVars /\ WF_loadedVars(LoadedNext)

-----------------------------------------------------------------------------
(* What the items of a module mean, read off the module without the heap's  *)
(* bookkeeping: the index items open before item k, outermost first, each   *)
(* with the offset and the type and length of the array it indexes.         *)
Opened(its) ==
  LET opened[k \in 1 .. Len(its) + 1] ==
        IF k = 1 THEN <<>>
        ELSE LET i == its[k - 1] IN
             IF i.typ = 6 THEN Append(opened[k - 1],
                  [off |-> i.off, at |-> ParseWord(i.payload, 0),
                   t |-> ParseWord(its[k - 2].payload, 0),
                   len |-> ParseWord(its[k - 2].payload, 4)])
             ELSE IF i.typ = 7 THEN Front(opened[k - 1])
             ELSE opened[k - 1]
  IN opened

(* The bytes an item stores where it is addressed: a number's, a pointer's. *)
Extent(i) ==
  IF i.typ \in {6, 7} THEN 0 ELSE IF i.typ \in {3, 5} THEN H!PtrSize ELSE Len(i.payload)

(* An encoder that walks its initialisers depth first: an index item comes  *)
(* right after its array, every base is restored, and every item lies in    *)
(* the module data or the array it addresses and over no other.  Elements   *)
(* of more than a byte are addressed from index 0, since the code takes an  *)
(* index for an offset in bytes.                                            *)
DepthFirst(its) ==
  LET indexed(k) ==
        /\ k > 1 /\ its[k - 1].typ = 5 /\ its[k - 1].off = its[k].off
        /\ ParseWord(its[k].payload, 0) < ParseWord(its[k - 1].payload, 4)
        /\ ParseWord(its[k].payload, 0) = 0 \/ TypeSize[ParseWord(its[k - 1].payload, 0)] = 1
      opened == Opened(its)
      room(p) == IF p = <<>> THEN Layout[1].size
                 ELSE TypeSize[Last(p).t] * Last(p).len - Last(p).at
  IN
  /\ \A k \in DOMAIN its : its[k].typ = 6 => indexed(k)
  /\ \A k \in DOMAIN its : its[k].typ = 7 => opened[k] # <<>>
  /\ opened[Len(its) + 1] = <<>>
  /\ \A k \in DOMAIN its :
       /\ its[k].typ \in {6, 7} \/ Extent(its[k]) > 0
       /\ its[k].off >= 0 /\ its[k].off + Extent(its[k]) <= room(opened[k])
       /\ \A j \in DOMAIN its :
            j # k /\ opened[j] = opened[k] =>
              ~H!Overlap(its[j].off, Extent(its[j]), its[k].off, Extent(its[k]))

(* How far an item moves the heap's start, and where that is after each.    *)
Space(i) ==
  IF i.typ = 3 THEN H!Align4(H!ObjectHeader + H!StringHeader + Len(Lossy(i.payload)))
  ELSE IF i.typ = 5 THEN H!Align4(H!ObjectHeader + H!ArrayHeader +
                           TypeSize[ParseWord(i.payload, 0)] * ParseWord(i.payload, 4))
  ELSE 0

Used(its) ==
  LET used[k \in 0 .. Len(its)] ==
        IF k = 0 THEN Layout[1].size ELSE used[k - 1] + Space(its[k])
  IN used

RoomFor(its) == \A k \in 0 .. Len(its) : Used(its)[k] <= HeapSize

(* The addresses such a path leads to in the heap: from the module data     *)
(* through the pointer each index item goes by.                             *)
Reached(p) ==
  LET reached[n \in 0 .. Len(p)] ==
        IF n = 0 THEN {HeapBase}
        ELSE {H!Elements(o) + p[n].at * TypeSize[p[n].t] :
                o \in {q \in H!Arrays : \E a \in reached[n - 1] :
                         H!PointerAt(a + p[n].off) = H!Payload(q)}}
  IN reached[Len(p)]

(* Item i as it should be found at address a.  Byte b of a number of width  *)
(* w is, counted from the other end, byte w-1-b of the file.                *)
FoundNumber(i, a) ==
  LET w == ScalarWidth[i.typ] IN
  \A n \in 0 .. Len(i.payload) \div w - 1, b \in 0 .. w - 1 :
    ByteIn(a + w * n + b) = i.payload[w * n + w - b]

FoundString(i, a) ==
  \E o \in objects :
    /\ o.typ = "Tstring" /\ H!PointerAt(a) = H!Payload(o)
    /\ (\A b \in ToSet(i.payload) : b < 128) =>
         /\ o.len = Len(i.payload)
         /\ \A k \in 1 .. o.len :
              ByteIn(H!Payload(o) + H!StringHeader + k - 1) = i.payload[k]

FoundArray(i, a) ==
  \E o \in H!Arrays :
    /\ H!PointerAt(a) = H!Payload(o)
    /\ o.t = ParseWord(i.payload, 0) /\ o.len = ParseWord(i.payload, 4)

Found(i, a) ==
  /\ i.typ \in DOMAIN ScalarWidth => FoundNumber(i, a)
  /\ i.typ = 3 => FoundString(i, a)
  /\ i.typ = 5 => FoundArray(i, a)

(* A whole file the parser loads, of a writer who walks its initialisers    *)
(* depth first and marks no word behind the module data, with no more       *)
(* strings and arrays than the heap has room for.                           *)
Initialisers ==
  /\ Whole /\ Handlerless /\ mod.path # <<>>
  /\ H!MarksFit /\ DepthFirst(mod.items) /\ RoomFor(mod.items)

(* Type invariant.                                                          *)
LoadedTypeOK ==
  /\ TypeOK /\ H!TypeOK
  /\ DOMAIN memory \subseteq Nat
  /\ \A a \in DOMAIN memory : memory[a] \in 0 .. 255

(* What arrives is what was written: once the data section of such a file   *)
(* is read, every number, string and array of it is found in the heap by    *)
(* following the offsets and indexes the file gives, from the module data   *)
(* on, and items address the module data again.                             *)
DataArrives ==
  Initialisers /\ stage # "items" =>
    /\ base = H!ModuleBase /\ arrayStack = <<>>
    /\ LET opened == Opened(mod.items) IN
       \A k \in DOMAIN mod.items :
         \E a \in Reached(opened[k]) : Found(mod.items[k], a + mod.items[k].off)

(* ... and no item of such a file is rejected, faults or damages an object, *)
(* by its own bytes or by what the items before it left in the heap: only a *)
(* debug build may abort at an address that does not suit its type.         *)
InitialisersLoad ==
  Initialisers =>
    /\ status # "panic"
    /\ stage = "items" => heapStatus = "ok" \/ (build = "debug" /\ heapStatus = "abort")

(* The loader that fills a real heap is the one DisLoader describes, which  *)
(* may stop at any valid item, and never goes on from one that stopped it.  *)
LoaderSpec == Spec

(* Whatever the bytes of the file, the characters of every string in the    *)
(* heap are UTF-8, which the String that ILOAD makes over them takes for    *)
(* granted: no item reaches into them without the loader being stopped.     *)
Utf8(str) ==
  \A k \in 1 .. Len(str) :
    \/ str[k] < 128
    \/ Leads(str[k]) /\ k < Len(str) /\ Continues(str[k + 1])
    \/ Continues(str[k]) /\ k > 1 /\ Leads(str[k - 1])
    \/ \E j \in k - 2 .. k : j \in 1 .. Len(str) - 2 /\ SubSeq(str, j, j + 2) = <<239, 191, 189>>

StringsAreText ==
  heapStatus = "ok" =>
    \A o \in objects : o.typ = "Tstring" =>
      Utf8([k \in 1 .. o.len |-> ByteIn(H!Payload(o) + H!StringHeader + k - 1)])
=============================================================================
