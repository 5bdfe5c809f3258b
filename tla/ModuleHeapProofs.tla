-------------------------- MODULE ModuleHeapProofs --------------------------
(***************************************************************************)
(* Proofs about ModuleHeap, for every heap, descriptor, type and file.     *)
(***************************************************************************)
EXTENDS ModuleHeap, SequenceTheorems, FiniteSetTheorems, TLAPS

(* Rounding up to a word never loses a byte, and adds three at most.        *)
LEMMA AlignUp == \A n \in Nat : Align4(n) \in Nat /\ Align4(n) >= n /\ Align4(n) <= n + 3
  BY DEF Align4

(* The bytes of len elements are a number of bytes.                         *)
LEMMA ProductNat == \A a, b \in Nat : a * b \in Nat
  OBVIOUS

(* The words a pointer map marks are word numbers.                          *)
LEMMA MarkedNat == \A m \in Maps : \A w \in MarkedWords(m) : w \in Nat
<1> SUFFICES ASSUME NEW m \in Maps, NEW w \in MarkedWords(m) PROVE w \in Nat
  OBVIOUS
<1>1. Len(m) \in Nat
  BY TypesAssumption
<1> QED
  BY <1>1 DEF MarkedWords

(* Every base has an address and a start index.                             *)
LEMMA BasesType ==
  ASSUME NEW b \in Bases PROVE b.ptr \in Nat /\ b.start \in Nat
  BY SizesAssumption DEF Bases, ModuleBase

(* PointerAt yields the empty pointer or what a slot at the address holds.  *)
LEMMA PointerAtType ==
  ASSUME TypeOK, NEW a \in Nat
  PROVE  /\ PointerAt(a) \in Nat \cup {VM_NULLPTR}
         /\ PointerAt(a) # VM_NULLPTR => [at |-> a, ptr |-> PointerAt(a)] \in slots
<1>1. CASE \E s \in slots : s.at = a
  <2> DEFINE c == CHOOSE s \in slots : s.at = a
  <2>1. c \in slots /\ c.at = a
    BY <1>1
  <2>2. c \in [at : Nat, ptr : Nat \cup {VM_NULLPTR}]
    BY <2>1 DEF TypeOK
  <2>3. c = [at |-> a, ptr |-> c.ptr]
    BY <2>1, <2>2
  <2>4. PointerAt(a) = c.ptr
    BY <1>1 DEF PointerAt
  <2> QED
    BY <2>1, <2>2, <2>3, <2>4
<1>2. CASE ~ \E s \in slots : s.at = a
  BY <1>2 DEF PointerAt
<1> QED
  BY <1>1, <1>2

(* An i32 and the usize it is cast to, for every integer.                   *)
LEMMA Casts ==
  /\ \A x \in Int : /\ I32(x) \in -(MaxI32 + 1) .. MaxI32
                    /\ IsI32(x) => I32(x) = x
  /\ \A x \in -(MaxI32 + 1) .. MaxI32 : /\ AsUsize(x) \in Nat /\ AsUsize(x) >= x
                                        /\ AsUsize(x) < USize
<1>1. /\ MaxI32 \in Nat /\ Word = 2 * (MaxI32 + 1) /\ Word \in Nat /\ Word > 0
      /\ USize \in Nat /\ Word <= USize
  BY SizesAssumption DEF Word
<1>2. ASSUME NEW x \in Int
      PROVE  I32(x) \in -(MaxI32 + 1) .. MaxI32 /\ (IsI32(x) => I32(x) = x)
  <2>1. CASE IsI32(x)
    BY <2>1, <1>1 DEF IsI32, I32
  <2>2. CASE ~IsI32(x)
    <3> DEFINE r == (x + MaxI32 + 1) % Word
    <3>1. r \in 0 .. Word - 1
      BY <1>1
    <3>2. I32(x) = r - (MaxI32 + 1)
      BY <2>2 DEF I32
    <3> HIDE DEF r
    <3> QED BY <2>2, <3>1, <3>2, <1>1
  <2> QED BY <2>1, <2>2
<1>3. ASSUME NEW x \in -(MaxI32 + 1) .. MaxI32
      PROVE  AsUsize(x) \in Nat /\ AsUsize(x) >= x /\ AsUsize(x) < USize
  BY <1>1 DEF AsUsize
<1> QED BY <1>2, <1>3

(* What the elements of an array are allotted: all they need, when the      *)
(* product is in range.                                                     *)
LEMMA ArrayBytes ==
  ASSUME NEW t \in Types, NEW len \in Nat
  PROVE  /\ TypeSize[t] * len \in Int
         /\ AsUsize(I32(TypeSize[t] * len)) \in Nat
         /\ IsI32(TypeSize[t] * len) =>
              AsUsize(I32(TypeSize[t] * len)) >= TypeSize[t] * len
<1> DEFINE x == TypeSize[t] * len
<1>1. x \in Int
  <2>1. TypeSize[t] \in Int
    BY TypesAssumption
  <2> QED BY <2>1
<1> HIDE DEF x
<1>2. /\ AsUsize(I32(x)) \in Nat
      /\ IsI32(x) => AsUsize(I32(x)) >= x
  BY <1>1, Casts
<1> QED BY <1>1, <1>2 DEF x

(* The objects new_string and load_data make are objects.                   *)
LEMMA ObjectTypes ==
  ASSUME NEW at \in Nat, NEW len \in Nat
  PROVE  /\ StringObject(at, len) \in Object
         /\ StringObject(at, len).n \in Nat
         /\ \A t \in Types : /\ ArrayObject(at, t, len) \in Object
                             /\ ArrayObject(at, t, len).n \in Nat
                             /\ ArrayObject(at, t, len).n >= ArrayHeader
<1>1. \A t \in Types : AsUsize(I32(TypeSize[t] * len)) \in Nat
  BY ArrayBytes
<1> QED
  BY <1>1, TypesAssumption
  DEF StringObject, ArrayObject, Object, StringHeader, ArrayHeader, Nowhere

-----------------------------------------------------------------------------
(* Type correctness.                                                        *)

(* Module data and heap addresses are natural numbers.                      *)
LEMMA AddressTypes ==
  ASSUME TypeOK, NEW off \in Offsets
  PROVE  /\ off \in Nat /\ Dest(off) \in Nat /\ FreePtr \in Nat
         /\ \A n \in Nat : /\ StartAfter(n) \in Nat
                           /\ ~Carries(n) => StartAfter(n) >= heapStart + ObjectHeader + n
<1>1. base.ptr \in Nat /\ base.start \in Nat
  BY BasesType DEF TypeOK
<1>2. heapStart \in Nat
  BY DEF TypeOK
<1>3. ASSUME NEW n \in Nat
      PROVE  /\ StartAfter(n) \in Nat
             /\ ~Carries(n) => StartAfter(n) >= heapStart + ObjectHeader + n
  <2>1. ObjectHeader + n \in Nat /\ ObjectHeader \in Nat
    BY DEF ObjectHeader
  <2>2. Align4(ObjectHeader + n) \in Nat /\ Align4(ObjectHeader + n) >= ObjectHeader + n
    BY <2>1, AlignUp
  <2> QED
    BY <1>2, <2>1, <2>2, SizesAssumption DEF StartAfter, Carries
<1>4. off \in Nat /\ Dest(off) \in Nat /\ FreePtr \in Nat
  BY <1>1, <1>2, SizesAssumption, InputsAssumption DEF Dest, FreePtr
<1> QED
  BY <1>3, <1>4

(* Stores keep the pointer words typed.                                     *)
Slot == [at : Nat, ptr : Nat \cup {VM_NULLPTR}]

(* Storing a pointer, or writing over some, leaves a set of slots.          *)
LEMMA StoreTypes ==
  ASSUME NEW ss \in SUBSET Slot, NEW a \in Nat, NEW w \in Nat
  PROVE  /\ Erase(ss, a, w) \in SUBSET Slot
         /\ \A p \in Nat : StorePtr(ss, a, p) \in SUBSET Slot
  BY DEF Erase, StorePtr, Slot

(* A store ends in one of three ways, or aborts for its alignment.          *)
LEMMA OutcomeType ==
  /\ \A a, w, objs : Outcome(a, w, objs) \in {"ok", "fault", "clobbered"}
  /\ \A o, n : Placing(o, n) \in {"ok", "fault", "clobbered"}
  /\ \A s, places : \A e \in Ends(s, places) : e = s \/ e = "abort"
  BY DEF Outcome, Placing, Ends

(* The heap is typed when it is made.                                       *)
LEMMA InitType == Init => TypeOK
<1> SUFFICES ASSUME Init PROVE TypeOK
  OBVIOUS
<1>1. slots \subseteq [at : Nat, ptr : Nat \cup {VM_NULLPTR}]
  BY MarkedNat, SizesAssumption DEF Init, SetupPointers, PtrSize, VM_NULLPTR
<1>2. base \in Bases /\ lastArray \in Nat /\ arrayStack \in Seq(Bases)
  BY DEF Init, Bases, NoArray
<1>3. pending \in Nat \cup {Nowhere} /\ path \in Seq(Nat \cup {VM_NULLPTR}) /\ items \in Nat
  BY DEF Init
<1> QED
  BY <1>1, <1>2, <1>3, SizesAssumption DEF Init, TypeOK

(* Scalars keep the types.                                                  *)
LEMMA ScalarsType ==
  ASSUME TypeOK, NEW width \in Widths, NEW count \in Lengths, NEW off \in Offsets,
         LoadScalars(width, count, off)
  PROVE  TypeOK'
<1> DEFINE w == width * count
<1>1. w \in Nat
  BY ProductNat, InputsAssumption DEF Widths
<1>2. Erase(slots, Dest(off), w) \in SUBSET Slot
  BY <1>1, StoreTypes, AddressTypes DEF TypeOK, Slot
<1>3. slots' \in SUBSET Slot /\ status' \in {"ok", "panic", "fault", "clobbered", "abort"}
  BY <1>2, OutcomeType DEF LoadScalars, TypeOK, Slot
<1>4. UNCHANGED <<build, map, heapStart, base, arrayStack, lastArray, objects, areas, rc, path,
                stage, producer>>
      /\ pending' = Nowhere /\ items' = items + 1
  BY DEF LoadScalars, Item, Turn, Hosted, Call
<1> QED
  BY <1>3, <1>4 DEF TypeOK, Slot

(* A string keeps the types.                                                *)
LEMMA StringType ==
  ASSUME TypeOK, NEW len \in Lengths, NEW off \in Offsets, LoadString(len, off)
  PROVE  TypeOK'
<1> DEFINE o == StringObject(FreePtr, len)
<1>1. len \in Nat /\ FreePtr \in Nat /\ off \in Nat /\ Dest(off) \in Nat
  BY AddressTypes, InputsAssumption
<1>2. o \in Object /\ o.n \in Nat /\ o.at \in Nat
  BY <1>1, ObjectTypes DEF StringObject
<1>3. StartAfter(o.n) \in Nat
  BY <1>2, AddressTypes
<1>4. Payload(o) \in Nat /\ EndOf(o) - o.at \in Nat
  BY <1>2 DEF Payload, EndOf, ObjectHeader
<1>5. Erase(slots, o.at, EndOf(o) - o.at) \in SUBSET Slot
  BY <1>2, <1>4, StoreTypes DEF TypeOK, Slot
<1>6. StorePtr(Erase(slots, o.at, EndOf(o) - o.at), Dest(off), Payload(o)) \in SUBSET Slot
  BY <1>1, <1>4, <1>5, StoreTypes
<1>7. heapStart' \in Nat /\ objects' \subseteq Object
  BY <1>2, <1>3 DEF LoadString, TypeOK
<1>8. slots' \in SUBSET Slot
  BY <1>6 DEF LoadString, TypeOK, Slot
<1>9. status' \in {"ok", "panic", "fault", "clobbered", "abort"}
  <2>1. StringEnd(o, off) \in {"ok", "panic", "fault", "clobbered"}
    BY OutcomeType DEF StringEnd
  <2> QED BY <2>1, OutcomeType DEF LoadString
<1>10. UNCHANGED <<build, map, base, arrayStack, lastArray, areas, rc, path, stage, producer>>
      /\ pending' = Nowhere /\ items' = items + 1
  BY DEF LoadString, Item, Turn, Hosted, Call
<1> QED
  BY <1>7, <1>8, <1>9, <1>10 DEF TypeOK, Slot

(* An array keeps the types.                                                *)
LEMMA ArrayType ==
  ASSUME TypeOK, NEW t \in Types, NEW len \in Lengths, NEW off \in Offsets,
         LoadArray(t, len, off)
  PROVE  TypeOK'
<1> DEFINE o == ArrayObject(FreePtr, t, len)
<1>1. len \in Nat /\ FreePtr \in Nat /\ off \in Nat /\ Dest(off) \in Nat
  BY AddressTypes, InputsAssumption
<1>2. o \in Object /\ o.n \in Nat /\ o.at \in Nat /\ o.typ = "Tarray"
  BY <1>1, ObjectTypes DEF ArrayObject
<1>3. StartAfter(o.n) \in Nat
  BY <1>2, AddressTypes
<1>4. Payload(o) \in Nat /\ HeadEnd(o) - o.at \in Nat
  BY <1>2 DEF Payload, HeadEnd, Elements, ObjectHeader, ArrayHeader
<1>5. Erase(slots, o.at, HeadEnd(o) - o.at) \in SUBSET Slot
  BY <1>2, <1>4, StoreTypes DEF TypeOK, Slot
<1>6. StorePtr(Erase(slots, o.at, HeadEnd(o) - o.at), Dest(off), Payload(o)) \in SUBSET Slot
  BY <1>1, <1>4, <1>5, StoreTypes
<1>7. heapStart' \in Nat /\ objects' \subseteq Object
  BY <1>2, <1>3 DEF LoadArray, TypeOK
<1>8. slots' \in SUBSET Slot /\ lastArray' \in Nat /\ pending' \in Nat \cup {Nowhere}
  BY <1>1, <1>2, <1>6 DEF LoadArray, TypeOK, Slot
<1>9. status' \in {"ok", "panic", "fault", "clobbered", "abort"}
  <2>1. ArrayEnd(o, off) \in {"ok", "panic", "fault", "clobbered"}
    BY OutcomeType DEF ArrayEnd
  <2> QED BY <2>1, OutcomeType DEF LoadArray
<1>10. rc' \in [Types -> Nat]
  BY DEF LoadArray, CountArray, TypeOK
<1>11. UNCHANGED <<build, map, base, arrayStack, areas, path, stage, producer>>
       /\ items' = items + 1
  BY DEF LoadArray, Item, Turn, Hosted, Call
<1> QED
  BY <1>7, <1>8, <1>9, <1>10, <1>11 DEF TypeOK, Slot

(* Setting the index keeps the types.                                       *)
LEMMA SetIndexType ==
  ASSUME TypeOK, NEW i \in Indexes, NEW off \in Offsets, SetIndex(i, off)
  PROVE  TypeOK'
<1>1. PointerAt(Dest(off)) \in Nat \cup {VM_NULLPTR}
  BY AddressTypes, PointerAtType
<1>2. ArrayBase(lastArray + ObjectHeader + ArrayHeader, i) \in Bases
  BY InputsAssumption DEF ArrayBase, Bases, TypeOK, ObjectHeader, ArrayHeader
<1>3. /\ base' \in Bases
      /\ arrayStack' \in Seq(Bases)
      /\ path' \in Seq(Nat \cup {VM_NULLPTR})
      /\ status' \in {"ok", "panic", "fault", "clobbered", "abort"}
  <2>1. /\ base \in Bases /\ arrayStack \in Seq(Bases)
        /\ path \in Seq(Nat \cup {VM_NULLPTR})
        /\ status \in {"ok", "panic", "fault", "clobbered", "abort"}
    BY DEF TypeOK
  <2>2. Append(arrayStack, base) \in Seq(Bases)
    BY <2>1
  <2>3. Append(path, PointerAt(Dest(off))) \in Seq(Nat \cup {VM_NULLPTR})
    BY <1>1, <2>1
  <2> QED
    BY <1>2, <2>1, <2>2, <2>3 DEF SetIndex
<1>4. UNCHANGED <<build, map, heapStart, lastArray, objects, areas, slots, rc, stage, producer>>
      /\ pending' = Nowhere /\ items' = items + 1
  BY DEF SetIndex, Item, Turn, Hosted, Call
<1> QED
  BY <1>3, <1>4 DEF TypeOK

(* A sequence without its last element.                                     *)
LEMMA FrontOf ==
  ASSUME NEW S, NEW q \in Seq(S)
  PROVE  /\ SubSeq(q, 1, Len(q) - 1) \in Seq(S)
         /\ q # <<>> => /\ Len(q) >= 1 /\ q[Len(q)] \in S
                       /\ Len(SubSeq(q, 1, Len(q) - 1)) = Len(q) - 1
                       /\ \A k \in 1 .. Len(q) - 1 : SubSeq(q, 1, Len(q) - 1)[k] = q[k]
<1>1. CASE q = <<>>
  <2>1. SubSeq(q, 1, Len(q) - 1) = <<>>
    BY <1>1
  <2> QED
    BY <1>1, <2>1
<1>2. CASE q # <<>>
  <2>1. Len(q) \in Nat \ {0} /\ \A k \in 1 .. Len(q) : q[k] \in S
    BY <1>2
  <2>2. \A k \in 1 .. Len(q) - 1 : q[k] \in S
    BY <2>1
  <2>3. /\ SubSeq(q, 1, Len(q) - 1) \in Seq(S)
        /\ Len(SubSeq(q, 1, Len(q) - 1)) = Len(q) - 1
        /\ \A k \in 1 .. Len(q) - 1 : SubSeq(q, 1, Len(q) - 1)[k] = q[k]
    <3> DEFINE n == Len(q) - 1
    <3>1. 1 \in Int /\ n \in Int /\ n = n - 1 + 1 /\ n >= 0
      BY <2>1
    <3>2. /\ SubSeq(q, 1, n) \in Seq(S)
          /\ Len(SubSeq(q, 1, n)) = IF 1 <= n THEN n - 1 + 1 ELSE 0
          /\ \A k \in 1 .. n - 1 + 1 : SubSeq(q, 1, n)[k] = q[1 + k - 1]
      BY <2>2, <3>1, SubSeqProperties
    <3> QED
      BY <3>1, <3>2
  <2> QED
    BY <1>2, <2>1, <2>3
<1> QED
  BY <1>1, <1>2

(* Restoring the base keeps the types.                                      *)
LEMMA RestoreType ==
  ASSUME TypeOK, Restore
  PROVE  TypeOK'
<1>1. /\ base' \in Bases
      /\ arrayStack' \in Seq(Bases)
      /\ path' \in Seq(Nat \cup {VM_NULLPTR})
      /\ status' \in {"ok", "panic", "fault", "clobbered", "abort"}
  <2>1. CASE arrayStack = <<>>
    BY <2>1 DEF Restore, TypeOK
  <2>2. CASE arrayStack # <<>>
    BY <2>2, FrontOf DEF Restore, TypeOK
  <2> QED
    BY <2>1, <2>2
<1>2. UNCHANGED <<build, map, heapStart, lastArray, objects, areas, slots, rc, stage, producer>>
      /\ pending' = Nowhere /\ items' = items + 1
  BY DEF Restore, Item, Turn, Hosted, Call
<1> QED
  BY <1>1, <1>2 DEF TypeOK

(* EndItems, Probe and RejectItem move only the control state.              *)
LEMMA ControlType ==
  ASSUME TypeOK, RejectItem \/ EndItems \/ Probe
  PROVE  TypeOK'
<1>1. CASE RejectItem
  <2>1. /\ UNCHANGED <<build, map, heapVars, path, stage, producer>>
        /\ status' = "panic" /\ pending' = Nowhere /\ items' = items + 1
    BY <1>1 DEF RejectItem, Item, Turn, Hosted, Call
  <2> QED BY <2>1 DEF heapVars, TypeOK
<1>2. CASE EndItems
  BY <1>2 DEF EndItems, heapVars, auxVars, TypeOK
<1>3. CASE Probe
  <2>1. status' \in {"ok", "panic", "fault"}
    BY <1>3 DEF Probe, ReadElements
  <2>2. UNCHANGED <<build, map, heapVars, auxVars>> /\ stage' = "done"
    BY <1>3 DEF Probe
  <2> QED
    BY <2>1, <2>2 DEF heapVars, auxVars, TypeOK
<1> QED
  BY <1>1, <1>2, <1>3

(* What a call of the host does: it stores nothing but numbers, and hands   *)
(* out at most a bare area or a string at the free end of the heap.         *)
Reserve(n, m) ==
  /\ n <= m /\ heapStart' = heapStart + m
  /\ areas' = areas \cup {[at |-> FreePtr, n |-> n]}
  /\ UNCHANGED objects

Hand(o) ==
  /\ o.at = FreePtr /\ o.n >= StringHeader /\ o.typ = "Tstring" /\ ~Carries(o.n)
  /\ objects' = objects \cup {o} /\ heapStart' = StartAfter(o.n)
  /\ slots' = Erase(slots, o.at, EndOf(o) - o.at) \/ status' # "ok"
  /\ UNCHANGED areas

(* An area is handed out.                                                   *)
LEMMA HandOutDoes ==
  ASSUME TypeOK, NEW n \in Nat, NEW m \in Nat, NEW w, n <= m, HandOut(n, m, w)
  PROVE  /\ HostCall /\ Reserve(n, m) /\ slots' \subseteq slots
         /\ status' \in {"ok", "fault", "clobbered", "abort"}
<1>1. status' \in {"ok", "fault", "clobbered", "abort"}
  BY OutcomeType DEF HandOut
<1> QED
  BY <1>1 DEF HandOut, Reserve, Erase

(* A string is handed out.                                                  *)
LEMMA NewStringDoes ==
  ASSUME TypeOK, NEW len \in Nat, NewString(len)
  PROVE  /\ HostCall /\ slots' \subseteq slots
         /\ status' \in {"ok", "fault", "clobbered", "abort"}
         /\ \E o \in Object : Hand(o)
<1> DEFINE o == StringObject(FreePtr, len)
<1> DEFINE s == Placing(o, EndOf(o) - o.at)
<1>1. heapStart \in Nat /\ FreePtr \in Nat /\ FreePtr = HeapBase + heapStart
  BY SizesAssumption DEF TypeOK, FreePtr
<1>2. o \in Object /\ o.n \in Nat /\ o.n >= StringHeader /\ o.typ = "Tstring" /\ o.at = FreePtr
  BY <1>1, ObjectTypes DEF StringObject, StringHeader
<1>3. status' \in Ends(s, {[at |-> o.at, align |-> ObjectAlign]})
  BY DEF NewString
<1>4. s \in {"ok", "fault", "clobbered"}
  BY OutcomeType
<1>5. status' \in {"ok", "fault", "clobbered", "abort"} /\ (status' = "ok" => s = "ok")
  BY <1>3, <1>4, OutcomeType
<1>6. ~Carries(o.n)
  <2> HIDE DEF o
  <2>1. ObjectHeader + o.n \in Nat /\ HeapBase \in Nat /\ USize \in Nat /\ Word <= USize
    BY <1>2, SizesAssumption DEF ObjectHeader
  <2>2. Align4(ObjectHeader + o.n) \in Nat /\ Align4(ObjectHeader + o.n) <= ObjectHeader + o.n + 3
    BY <2>1, AlignUp
  <2>3. EndOf(o) + 3 < Word /\ EndOf(o) = HeapBase + heapStart + (ObjectHeader + o.n)
    BY <1>1, <1>2 DEF NewString, EndOf, Payload, ObjectHeader, o
  <2>4. Word \in Nat
    BY SizesAssumption DEF Word
  <2> QED
    BY <1>1, <2>1, <2>2, <2>3, <2>4 DEF Carries
<1>7. HostCall /\ UNCHANGED areas /\ objects' = objects \cup {o} /\ heapStart' = StartAfter(o.n)
  BY DEF NewString
<1>8. slots' = IF s = "ok" THEN Erase(slots, o.at, EndOf(o) - o.at) ELSE slots
  BY DEF NewString
<1> HIDE DEF o, s
<1>9. Hand(o)
  BY <1>2, <1>5, <1>6, <1>7, <1>8 DEF Hand
<1> QED
  BY <1>2, <1>5, <1>7, <1>8, <1>9 DEF Erase

(* A number is stored.                                                      *)
LEMMA WriteDoes ==
  ASSUME TypeOK, NEW width, NEW a, Write(width, a)
  PROVE  /\ HostCall /\ slots' \subseteq slots /\ UNCHANGED <<heapStart, objects, areas>>
         /\ status' \in {"ok", "fault", "clobbered", "abort"}
<1>1. status' \in {"ok", "fault", "clobbered", "abort"}
  BY OutcomeType DEF Write
<1> QED
  BY <1>1 DEF Write, Erase

(* All that a call of the host may do.                                      *)
LEMMA HostStepDoes ==
  ASSUME TypeOK, HostStep
  PROVE  /\ HostCall /\ slots' \subseteq slots
         /\ status' \in {"ok", "panic", "fault", "clobbered", "abort"}
         /\ \/ UNCHANGED <<heapStart, objects, areas>>
            \/ \E n, m \in Nat : Reserve(n, m)
            \/ \E o \in Object : Hand(o)
<1>1. ASSUME NEW n \in Lengths, Allocate(n) \/ AllocateBytes(n) \/ Nheap(n)
      PROVE  \E k, m, w \in Nat : k <= m /\ HandOut(k, m, w)
  <2>1. n \in Nat /\ ObjectHeader \in Nat /\ ObjectHeader + n \in Nat
    BY InputsAssumption DEF ObjectHeader
  <2>2. /\ Align4(n) \in Nat /\ Align4(n) >= n
        /\ Align4(ObjectHeader + n) \in Nat /\ Align4(ObjectHeader + n) >= ObjectHeader + n
    BY <2>1, AlignUp
  <2>3. CASE Allocate(n)
    <3>1. HandOut(n, n, 0)
      BY <2>3 DEF Allocate
    <3> QED BY <2>1, <3>1
  <2>4. CASE AllocateBytes(n)
    <3>1. HandOut(n, Align4(n), 0)
      BY <2>4 DEF AllocateBytes
    <3> QED BY <2>1, <2>2, <3>1
  <2>5. CASE Nheap(n)
    <3>1. HandOut(ObjectHeader + n, Align4(ObjectHeader + n), ObjectHeader)
      BY <2>5 DEF Nheap
    <3> QED BY <2>1, <2>2, <3>1
  <2> QED
    BY <1>1, <2>3, <2>4, <2>5
<1>2. ASSUME NEW width, NEW off \in Offsets, WriteModuleData(width, off),
             ~Write(width, HeapBase + off)
      PROVE  HostCall /\ status' = "panic" /\ UNCHANGED <<heapStart, objects, areas, slots>>
  BY <1>2 DEF WriteModuleData
<1>3. CASE \E n \in Lengths : Allocate(n) \/ AllocateBytes(n) \/ Nheap(n)
  BY <1>1, <1>3, HandOutDoes
<1>4. CASE \E n \in Lengths : NewString(n)
  BY <1>4, NewStringDoes, InputsAssumption
<1>5. CASE \E width \in Widths, a \in Given : Write(width, a)
  BY <1>5, WriteDoes
<1>6. CASE \E width \in Widths, off \in Offsets : WriteModuleData(width, off)
  BY <1>2, <1>6, WriteDoes
<1> QED
  BY <1>3, <1>4, <1>5, <1>6 DEF HostStep

(* A call of the host keeps the types.                                      *)
LEMMA HostType ==
  ASSUME TypeOK, HostStep
  PROVE  TypeOK'
<1>1. /\ HostCall /\ slots' \subseteq slots
      /\ status' \in {"ok", "panic", "fault", "clobbered", "abort"}
  BY HostStepDoes
<1>2. /\ UNCHANGED <<build, map, base, arrayStack, lastArray, rc, path, stage, producer>>
      /\ pending' = Nowhere /\ items' = items + 1
  BY <1>1 DEF HostCall, Hosted, Call
<1>3. heapStart' \in Nat /\ objects' \subseteq Object /\ areas' \subseteq [at : Nat, n : Nat]
  <2>1. /\ heapStart \in Nat /\ objects \subseteq Object /\ areas \subseteq [at : Nat, n : Nat]
        /\ FreePtr \in Nat
    BY SizesAssumption DEF TypeOK, FreePtr
  <2>2. ASSUME NEW n \in Nat, NEW m \in Nat, Reserve(n, m)
        PROVE  heapStart' \in Nat /\ objects' \subseteq Object /\ areas' \subseteq [at : Nat, n : Nat]
    BY <2>1, <2>2 DEF Reserve
  <2>3. ASSUME NEW o \in Object, Hand(o)
        PROVE  heapStart' \in Nat /\ objects' \subseteq Object /\ areas' \subseteq [at : Nat, n : Nat]
    <3>1. ObjectHeader + o.n \in Nat
      BY DEF Object, ObjectHeader
    <3>2. Align4(ObjectHeader + o.n) \in Nat
      BY <3>1, AlignUp
    <3> QED
      BY <2>1, <2>3, <3>2 DEF Hand, StartAfter
  <2> QED
    BY <2>1, <2>2, <2>3, HostStepDoes
<1> QED
  BY <1>1, <1>2, <1>3 DEF TypeOK

(* Every step keeps the types.                                              *)
LEMMA StepType == TypeOK /\ [Next]_vars => TypeOK'
<1> SUFFICES ASSUME TypeOK, [Next]_vars PROVE TypeOK'
  OBVIOUS
<1>1. CASE \E width \in Widths, count \in Lengths, off \in Offsets :
             LoadScalars(width, count, off)
  BY <1>1, ScalarsType
<1>2. CASE \E len \in Lengths, off \in Offsets : LoadString(len, off)
  BY <1>2, StringType
<1>3. CASE \E t \in Types, len \in Lengths, off \in Offsets : LoadArray(t, len, off)
  BY <1>3, ArrayType
<1>4. CASE \E i \in Indexes, off \in Offsets : SetIndex(i, off)
  BY <1>4, SetIndexType
<1>5. CASE Restore
  BY <1>5, RestoreType
<1>6. CASE RejectItem \/ EndItems \/ Probe
  BY <1>6, ControlType
<1>7. CASE UNCHANGED vars
  BY <1>7 DEF vars, heapVars, auxVars, TypeOK
<1> QED
  BY <1>1, <1>2, <1>3, <1>4, <1>5, <1>6, <1>7, HostType DEF Next

(* The variables of the loader keep their types, whatever the file holds.   *)
THEOREM TypeCorrect == Spec => []TypeOK
<1>1. Init => TypeOK
  BY InitType
<1>2. TypeOK /\ [Next]_vars => TypeOK'
  BY StepType
<1> QED
  BY <1>1, <1>2, PTL DEF Spec

-----------------------------------------------------------------------------
(* Objects are carved one after the other.                                  *)

Layout ==
  /\ SizesKept => /\ DataSize <= heapStart
                  /\ \A b \in areas : HeapBase + DataSize <= b.at /\ b.at + b.n <= FreePtr
  /\ \A o \in objects : o.n >= ArrayHeader
  /\ ObjectsDisjoint
  /\ ElementsFit

(* What a step may do to the heap: nothing, hand out a bare area, or carve  *)
(* one object at its free end.                                              *)
Carve(o) ==
  /\ o.at = FreePtr /\ o.n >= ArrayHeader
  /\ SizesKept =>
       /\ ~Carries(o.n)
       /\ o.typ = "Tarray" => Elements(o) + TypeSize[o.t] * o.len <= EndOf(o)
  /\ objects' = objects \cup {o}
  /\ heapStart' = StartAfter(o.n)
  /\ UNCHANGED areas

(* The build and the writer of the file are given.                          *)
LEMMA StepKeeps == [Next]_vars => UNCHANGED <<build, producer>>
<1> SUFFICES ASSUME [Next]_vars PROVE UNCHANGED <<build, producer>>
  OBVIOUS
<1>1. Item \/ Turn \/ HostCall => UNCHANGED <<build, producer>>
  BY DEF Item, Turn, HostCall, Hosted, Call
<1>2. CASE \E width \in Widths, count \in Lengths, off \in Offsets :
             LoadScalars(width, count, off)
  BY <1>1, <1>2 DEF LoadScalars
<1>3. CASE \E len \in Lengths, off \in Offsets : LoadString(len, off)
  BY <1>1, <1>3 DEF LoadString
<1>4. CASE \E t \in Types, len \in Lengths, off \in Offsets : LoadArray(t, len, off)
  BY <1>1, <1>4 DEF LoadArray
<1>5. CASE \E i \in Indexes, off \in Offsets : SetIndex(i, off)
  BY <1>1, <1>5 DEF SetIndex
<1>6. CASE Restore \/ RejectItem
  BY <1>1, <1>6 DEF Restore, RejectItem
<1>7. CASE EndItems \/ Probe \/ UNCHANGED vars
  BY <1>7 DEF EndItems, Probe, auxVars, vars
<1>8. CASE HostStep
  BY <1>1, <1>8 DEF HostStep, Allocate, AllocateBytes, Nheap, HandOut, NewString,
                    WriteModuleData, Write
<1> QED
  BY <1>2, <1>3, <1>4, <1>5, <1>6, <1>7, <1>8 DEF Next

Allots ==
  \/ UNCHANGED <<heapStart, objects, areas>>
  \/ \E n, m \in Nat : Reserve(n, m)
  \/ \E o \in Object : Carve(o)

(* A step allocates nothing, or one area or object at the heap start.       *)
LEMMA StepCarves ==
  ASSUME TypeOK, [Next]_vars
  PROVE  Allots
<1>1. ASSUME NEW len \in Lengths, NEW off \in Offsets, LoadString(len, off)
      PROVE  Allots
  <2> DEFINE o == StringObject(FreePtr, len)
  <2>1. len \in Nat /\ FreePtr \in Nat
    BY AddressTypes, InputsAssumption
  <2>2. o \in Object /\ o.at = FreePtr /\ o.n >= ArrayHeader
    BY <2>1, ObjectTypes DEF StringObject, StringHeader, ArrayHeader
  <2>3. \/ UNCHANGED <<heapStart, objects, areas>>
        \/ /\ heapStart' = StartAfter(o.n) /\ objects' = objects \cup {o} /\ UNCHANGED areas
           /\ ~(build = "debug" /\ Carries(o.n))
    <3>1. StringEnd(o, off) # "panic" => ~(build = "debug" /\ Carries(o.n))
      BY DEF StringEnd
    <3> QED BY <1>1, <3>1 DEF LoadString, Item, Turn
  <2>4. producer \in Sound => ~Carries(o.n)
    BY <1>1 DEF LoadString, EmitsString
  <2>5. o.typ = "Tstring"
    BY DEF StringObject
  <2> HIDE DEF o
  <2> QED
    BY <2>2, <2>3, <2>4, <2>5 DEF Allots, Carve, SizesKept
<1>2. ASSUME NEW t \in Types, NEW len \in Lengths, NEW off \in Offsets,
             LoadArray(t, len, off)
      PROVE  Allots
  <2> DEFINE o == ArrayObject(FreePtr, t, len)
  <2>1. len \in Nat /\ FreePtr \in Nat
    BY AddressTypes, InputsAssumption
  <2>2. o \in Object /\ o.at = FreePtr /\ o.n >= ArrayHeader
    BY <2>1, ObjectTypes DEF ArrayObject
  <2>3. \/ UNCHANGED <<heapStart, objects, areas>>
        \/ /\ heapStart' = StartAfter(o.n) /\ objects' = objects \cup {o} /\ UNCHANGED areas
           /\ ~(build = "debug" /\ Overflows(t, len))
    BY <1>2 DEF LoadArray, Turn
  <2>4. producer \in Sound => ~Overflows(t, len)
    BY <1>2 DEF LoadArray, EmitsArray
  <2>5. ~Overflows(t, len) => ~Carries(o.n) /\ IsI32(TypeSize[t] * len)
    BY DEF Overflows
  <2>6. IsI32(TypeSize[t] * len) => Elements(o) + TypeSize[o.t] * o.len <= EndOf(o)
    <3>1. /\ o.n = ArrayHeader + AsUsize(I32(TypeSize[t] * len))
          /\ o.t = t /\ o.len = len
      BY DEF ArrayObject
    <3> HIDE DEF o
    <3> QED
      BY <2>1, <2>2, <3>1, ArrayBytes
      DEF Elements, EndOf, Payload, ObjectHeader, ArrayHeader, Object
  <2> HIDE DEF o
  <2> QED
    BY <2>2, <2>3, <2>4, <2>5, <2>6 DEF Allots, Carve, SizesKept
<1>3. CASE \E width \in Widths, count \in Lengths, off \in Offsets :
             LoadScalars(width, count, off)
  BY <1>3 DEF Allots, LoadScalars, Item, Turn
<1>4. CASE \E i \in Indexes, off \in Offsets : SetIndex(i, off)
  BY <1>4 DEF Allots, SetIndex, Item, Turn
<1>5. CASE Restore \/ RejectItem \/ EndItems \/ Probe \/ UNCHANGED vars
  BY <1>5 DEF Allots, Restore, RejectItem, Item, Turn, EndItems, Probe, heapVars, vars
<1>6. CASE HostStep
  <2>1. ASSUME NEW o \in Object, Hand(o) PROVE Carve(o)
    BY <2>1 DEF Hand, Carve, StringHeader, ArrayHeader
  <2> QED
    BY <1>6, <2>1, HostStepDoes DEF Allots
<1> QED
  BY <1>1, <1>2, <1>3, <1>4, <1>5, <1>6 DEF Next

(* An object carved at the free end is apart from all the others.           *)
LEMMA CarveApart ==
  ASSUME TypeOK, Layout, NEW o \in Object, Carve(o), UNCHANGED <<build, producer>>
  PROVE  /\ Layout'
         /\ SizesKept => /\ o \notin objects
                         /\ HeapBase + DataSize <= o.at
                         /\ \A q \in objects : EndOf(q) <= o.at
                         /\ \A b \in areas : b.at + b.n <= o.at
<1>1. /\ heapStart \in Nat /\ objects \subseteq Object
      /\ \A q \in Object : q.at \in Nat /\ q.n \in Nat
      /\ HeapBase \in Nat /\ DataSize \in Nat /\ ArrayHeader \in Nat \ {0}
      /\ ObjectHeader \in Nat
      /\ \A b \in areas : b.at \in Nat /\ b.n \in Nat
  BY SizesAssumption DEF TypeOK, Object, ArrayHeader, ObjectHeader
<1>2. /\ SizesKept' = SizesKept /\ objects' = objects \cup {o} /\ areas' = areas
      /\ \A q \in objects' : q.n >= ArrayHeader
  BY DEF SizesKept, Carve, Layout
<1>3. CASE ~SizesKept
  BY <1>2, <1>3 DEF Layout, ObjectsDisjoint, ElementsFit
<1>4. CASE SizesKept
  <2>1. heapStart' >= heapStart + ObjectHeader + o.n /\ heapStart' \in Nat
    <3>1. ObjectHeader + o.n \in Nat
      BY <1>1
    <3>2. /\ Align4(ObjectHeader + o.n) \in Nat
          /\ Align4(ObjectHeader + o.n) >= ObjectHeader + o.n
      BY <3>1, AlignUp
    <3>3. heapStart' = heapStart + Align4(ObjectHeader + o.n) - 0
      BY <1>4 DEF Carve, StartAfter
    <3> QED
      BY <1>1, <3>2, <3>3
  <2>2. \A q \in objects : /\ HeapBase + DataSize <= q.at
                           /\ EndOf(q) <= HeapBase + heapStart
                           /\ q.n >= ArrayHeader
    BY <1>4 DEF Layout, ObjectsDisjoint, FreePtr
  <2>3. HeapBase + DataSize <= o.at /\ \A q \in objects : EndOf(q) <= o.at
    BY <1>1, <1>4, <2>2 DEF Carve, FreePtr, Layout
  <2>4. o \notin objects
    BY <1>1, <2>2, <2>3 DEF EndOf, Payload
  <2>5. EndOf(o) <= HeapBase + heapStart'
    BY <1>1, <2>1 DEF EndOf, Payload, Carve, FreePtr
  <2>6. \A q \in objects : EndOf(q) <= HeapBase + heapStart'
    BY <1>1, <2>1, <2>2 DEF EndOf, Payload
  <2>7. \A q, r \in objects' :
          q # r => ~Overlap(q.at, EndOf(q) - q.at, r.at, EndOf(r) - r.at)
    <3> SUFFICES ASSUME NEW q \in objects', NEW r \in objects', q # r
                 PROVE  ~Overlap(q.at, EndOf(q) - q.at, r.at, EndOf(r) - r.at)
      OBVIOUS
    <3>1. CASE q \in objects /\ r \in objects
      BY <3>1, <1>1, <1>4 DEF Layout, ObjectsDisjoint
    <3>2. CASE q = o /\ r \in objects
      BY <3>2, <1>1, <2>3 DEF Overlap, EndOf, Payload
    <3>3. CASE q \in objects /\ r = o
      BY <3>3, <1>1, <2>3 DEF Overlap, EndOf, Payload
    <3> QED
      BY <1>2, <3>1, <3>2, <3>3
  <2>8. \A q \in objects' : HeapBase + DataSize <= q.at /\ EndOf(q) <= HeapBase + heapStart'
    BY <1>2, <2>2, <2>3, <2>5, <2>6
  <2>9. DataSize <= heapStart'
    BY <1>1, <1>4, <2>1 DEF Layout
  <2>12. \A b \in areas : /\ HeapBase + DataSize <= b.at /\ b.at + b.n <= o.at
                          /\ b.at + b.n <= HeapBase + heapStart'
    BY <1>1, <1>4, <2>1 DEF Layout, Carve, FreePtr
  <2>10. \A q \in objects' :
           q.typ = "Tarray" => Elements(q) + TypeSize[q.t] * q.len <= EndOf(q)
    BY <1>2, <1>4 DEF Carve, Layout, ElementsFit, Arrays
  <2>11. ObjectsDisjoint' /\ ElementsFit'
    BY <2>7, <2>8, <2>10 DEF ObjectsDisjoint, ElementsFit, Arrays, FreePtr
  <2> QED
    BY <1>2, <2>3, <2>4, <2>9, <2>11, <2>12 DEF Layout, FreePtr
<1> QED
  BY <1>3, <1>4

(* ... and so is an area reserved there.                                    *)
LEMMA ReserveApart ==
  ASSUME TypeOK, Layout, NEW n \in Nat, NEW m \in Nat, Reserve(n, m),
         UNCHANGED <<build, producer>>
  PROVE  /\ Layout'
         /\ SizesKept => /\ HeapBase + DataSize <= FreePtr
                         /\ \A q \in objects : EndOf(q) <= FreePtr
                         /\ \A b \in areas : b.at + b.n <= FreePtr
<1>1. /\ heapStart \in Nat /\ HeapBase \in Nat /\ DataSize \in Nat
      /\ \A q \in objects : EndOf(q) \in Nat
      /\ \A b \in areas : b.at \in Nat /\ b.n \in Nat
  BY SizesAssumption DEF TypeOK, Object, EndOf, Payload, ObjectHeader
<1>2. /\ SizesKept' = SizesKept /\ UNCHANGED objects
      /\ areas' = areas \cup {[at |-> FreePtr, n |-> n]}
      /\ n <= m /\ heapStart' = heapStart + m
  BY DEF SizesKept, Reserve
<1>3. ASSUME SizesKept
      PROVE  /\ DataSize <= heapStart
             /\ \A b \in areas : HeapBase + DataSize <= b.at /\ b.at + b.n <= HeapBase + heapStart
             /\ \A q \in objects : HeapBase + DataSize <= q.at /\ EndOf(q) <= HeapBase + heapStart
  BY <1>3 DEF Layout, ObjectsDisjoint, FreePtr
<1>4. ElementsFit' /\ \A q \in objects' : q.n >= ArrayHeader
  BY <1>2 DEF Layout, ElementsFit, Arrays
<1>5. ObjectsDisjoint'
  <2>1. SizesKept => \A q \in objects : EndOf(q) <= HeapBase + heapStart'
    BY <1>1, <1>2, <1>3
  <2> QED
    BY <1>2, <1>3, <2>1 DEF Layout, ObjectsDisjoint, FreePtr
<1>6. ASSUME SizesKept, NEW b \in areas'
      PROVE  HeapBase + DataSize <= b.at /\ b.at + b.n <= HeapBase + heapStart'
  <2>1. CASE b \in areas
    BY <1>1, <1>2, <1>3, <1>6, <2>1
  <2>2. CASE b = [at |-> HeapBase + heapStart, n |-> n]
    BY <1>1, <1>2, <1>3, <1>6, <2>2
  <2> QED
    BY <1>2, <2>1, <2>2 DEF FreePtr
<1>7. SizesKept => DataSize <= heapStart'
  BY <1>1, <1>2, <1>3
<1> QED
  BY <1>1, <1>2, <1>3, <1>4, <1>5, <1>6, <1>7 DEF Layout, FreePtr

(* An empty heap is laid out.                                               *)
LEMMA InitLayout == Init => Layout
  BY SizesAssumption DEF Init, Layout, ObjectsDisjoint, ElementsFit, Arrays

(* Carving at the heap start keeps the objects apart.                       *)
LEMMA StepLayout == TypeOK /\ Layout /\ [Next]_vars => Layout'
<1> SUFFICES ASSUME TypeOK, Layout, [Next]_vars PROVE Layout'
  OBVIOUS
<1>1. CASE UNCHANGED <<heapStart, objects, areas>>
  BY <1>1, StepKeeps
  DEF Layout, ObjectsDisjoint, ElementsFit, Arrays, FreePtr, SizesKept
<1>2. ASSUME NEW o \in Object, Carve(o) PROVE Layout'
  BY <1>2, CarveApart, StepKeeps
<1>3. ASSUME NEW n \in Nat, NEW m \in Nat, Reserve(n, m) PROVE Layout'
  BY <1>3, ReserveApart, StepKeeps
<1> QED
  BY <1>1, <1>2, <1>3, StepCarves DEF Allots

(* The layout holds in every state.                                         *)
LEMMA LayoutInvariant == Spec => []Layout
<1>1. Init => Layout
  BY InitLayout
<1>2. TypeOK /\ Layout /\ [Next]_vars => Layout'
  BY StepLayout
<1> QED
  BY <1>1, <1>2, TypeCorrect, PTL DEF Spec

(* Where sizes are kept, no file makes two strings or arrays share a byte,  *)
(* or reach into the module data or past heap_start.                        *)
THEOREM ObjectsStayDisjoint == Spec => []ObjectsDisjoint
<1>1. Layout => ObjectsDisjoint
  BY DEF Layout
<1> QED
  BY <1>1, LayoutInvariant, PTL

(* ... and none makes an array that has no room for its elements.           *)
THEOREM ElementsAlwaysFit == Spec => []ElementsFit
<1>1. Layout => ElementsFit
  BY DEF Layout
<1> QED
  BY <1>1, LayoutInvariant, PTL

(* The heap is an arena: each step hands out one block apart from all the   *)
(* others, or none, and takes nothing back.                                 *)
THEOREM ImplementsArena == Spec => ArenaSpec
<1>1. Init => A!Init
  BY DEF Init, A!Init, Blocks
<1>2. TypeOK /\ Layout /\ [Next]_vars => [A!Allocate]_Blocks
  <2> SUFFICES ASSUME TypeOK, Layout, [Next]_vars PROVE [A!Allocate]_Blocks
    OBVIOUS
  <2>0. SizesKept' = SizesKept
    BY StepKeeps DEF SizesKept
  <2>1. CASE UNCHANGED <<heapStart, objects, areas>> \/ ~SizesKept
    BY <2>0, <2>1 DEF Blocks
  <2>2. /\ \A q \in objects : q.at \in Nat /\ q.n \in Nat
        /\ \A b \in areas : b.at \in Nat /\ b.n \in Nat
        /\ FreePtr \in Nat
    BY SizesAssumption DEF TypeOK, Object, FreePtr
  <2>3. \A c \in Blocks : c.n > 0 /\ c.at \in Nat /\ c.n \in Nat
    BY <2>2 DEF Blocks, ObjectHeader
  <2>4. ASSUME SizesKept, \A q \in objects : EndOf(q) <= FreePtr,
               \A c \in areas : c.at + c.n <= FreePtr, HeapBase + DataSize <= FreePtr,
               NEW n \in Nat, n > 0, Blocks' = Blocks \cup {[at |-> FreePtr, n |-> n]}
        PROVE  A!Allocate
    <3> DEFINE b == [at |-> FreePtr, n |-> n]
    <3>1. \A c \in Blocks : c.at + c.n <= b.at
      BY <2>2, <2>4 DEF Blocks, EndOf, Payload, ObjectHeader
    <3>2. b \notin Blocks
      BY <2>2, <2>3, <3>1
    <3>3. \A c \in Blocks : A!Apart(b, c)
      BY <3>1 DEF A!Apart
    <3> QED
      BY <2>4, <3>2, <3>3 DEF A!Allocate
  <2>5. ASSUME SizesKept, NEW o \in Object, Carve(o) PROVE A!Allocate
    <3>1. /\ HeapBase + DataSize <= o.at
          /\ \A q \in objects : EndOf(q) <= o.at
          /\ \A c \in areas : c.at + c.n <= o.at
          /\ o.at = FreePtr
      BY <2>5, CarveApart, StepKeeps DEF Carve
    <3>2. Blocks' = Blocks \cup {[at |-> FreePtr, n |-> ObjectHeader + o.n]}
      BY <2>0, <2>5, <3>1 DEF Blocks, Carve
    <3>3. ObjectHeader + o.n \in Nat /\ ObjectHeader + o.n > 0
      BY DEF Object, ObjectHeader
    <3> QED
      BY <2>4, <2>5, <3>1, <3>2, <3>3
  <2>6. ASSUME SizesKept, NEW n \in Nat, NEW m \in Nat, Reserve(n, m)
        PROVE  [A!Allocate]_Blocks
    <3>1. /\ HeapBase + DataSize <= FreePtr
          /\ \A q \in objects : EndOf(q) <= FreePtr
          /\ \A c \in areas : c.at + c.n <= FreePtr
      BY <2>6, ReserveApart, StepKeeps
    <3>2. CASE n = 0
      BY <2>0, <2>6, <3>2 DEF Blocks, Reserve
    <3>3. CASE n > 0
      <4>1. Blocks' = Blocks \cup {[at |-> FreePtr, n |-> n]}
        BY <2>0, <2>6, <3>3 DEF Blocks, Reserve
      <4> QED
        BY <2>4, <2>6, <3>1, <3>3, <4>1
    <3> QED
      BY <3>2, <3>3
  <2> QED
    BY <2>1, <2>5, <2>6, StepCarves DEF Allots
<1> QED
  BY <1>1, <1>2, TypeCorrect, LayoutInvariant, PTL DEF Spec, ArenaSpec, A!Spec

-----------------------------------------------------------------------------
(* Pointers.                                                                *)

(* The head of an object is never empty, and a store that ends well leaves  *)
(* all of them alone.                                                       *)
LEMMA HeadTypes ==
  ASSUME NEW o \in Object, o.n >= ArrayHeader
  PROVE  o.at \in Nat /\ HeadEnd(o) \in Nat /\ HeadEnd(o) - o.at >= ObjectHeader + ArrayHeader
  BY DEF Object, HeadEnd, EndOf, Elements, Payload, ObjectHeader, ArrayHeader

(* A store that goes well hits no head.                                     *)
LEMMA GoodStore ==
  ASSUME NEW a, NEW w, NEW objs, Outcome(a, w, objs) = "ok"
  PROVE  \A o \in objs : ~Overlap(a, w, o.at, HeadEnd(o) - o.at)
  BY DEF Outcome, Hits

(* Writing the head of a new object and then a pointer to it.               *)
LEMMA NewPointer ==
  ASSUME TypeOK, PointersResolve, status = "ok",
         NEW o \in Object, o.n >= ArrayHeader, NEW a \in Nat,
         objects' = objects \cup {o},
         Outcome(a, PtrSize, objects \cup {o}) = "ok",
         slots' = StorePtr(Erase(slots, o.at, HeadEnd(o) - o.at), a, Payload(o))
  PROVE  PointersResolve'
<1> SUFFICES ASSUME NEW s \in slots'
             PROVE  /\ s.ptr # VM_NULLPTR => \E q \in objects' : s.ptr = Payload(q)
                    /\ \A q \in objects' : ~Overlap(s.at, PtrSize, q.at, HeadEnd(q) - q.at)
  BY DEF PointersResolve
<1>1. CASE s = [at |-> a, ptr |-> Payload(o)]
  BY <1>1, GoodStore
<1>2. CASE s \in Erase(slots, o.at, HeadEnd(o) - o.at)
  <2>1. s \in slots /\ ~Overlap(o.at, HeadEnd(o) - o.at, s.at, PtrSize)
    BY <1>2 DEF Erase
  <2>2. s.at \in Nat
    BY <2>1 DEF TypeOK
  <2>3. ~Overlap(s.at, PtrSize, o.at, HeadEnd(o) - o.at)
    BY <2>1, <2>2, HeadTypes DEF Overlap, PtrSize, ObjectHeader, ArrayHeader
  <2> QED
    BY <2>1, <2>3 DEF PointersResolve
<1> QED
  BY <1>1, <1>2 DEF StorePtr, Erase

(* The pointers of a new heap are empty and no object exists.               *)
LEMMA InitResolve == Init => PointersResolve
  BY DEF Init, PointersResolve, SetupPointers

(* Every step keeps the pointers resolved.                                  *)
LEMMA StepResolve == TypeOK /\ PointersResolve /\ [Next]_vars => PointersResolve'
<1> SUFFICES ASSUME TypeOK, PointersResolve, [Next]_vars PROVE PointersResolve'
  OBVIOUS
<1>1. ASSUME NEW width \in Widths, NEW count \in Lengths, NEW off \in Offsets,
             LoadScalars(width, count, off)
      PROVE  PointersResolve'
  <2>1. slots' \subseteq slots /\ objects' = objects /\ status = "ok"
    BY <1>1 DEF LoadScalars, Item, Turn, Hosted, Call, Erase
  <2> QED
    BY <2>1 DEF PointersResolve
<1>2. ASSUME NEW len \in Lengths, NEW off \in Offsets, LoadString(len, off)
      PROVE  PointersResolve'
  <2> DEFINE o == StringObject(FreePtr, len)
  <2>1. len \in Nat /\ FreePtr \in Nat /\ Dest(off) \in Nat /\ status = "ok"
    BY <1>2, AddressTypes, InputsAssumption DEF LoadString, Item, Turn, Hosted, Call
  <2>2. o \in Object /\ o.n >= ArrayHeader /\ HeadEnd(o) = EndOf(o)
    BY <2>1, ObjectTypes DEF StringObject, StringHeader, ArrayHeader, HeadEnd
  <2>3. CASE StringEnd(o, off) = "ok"
    <3>1. Outcome(Dest(off), PtrSize, objects \cup {o}) = "ok"
      BY <2>3 DEF StringEnd
    <3>2. /\ objects' = objects \cup {o}
          /\ slots' = StorePtr(Erase(slots, o.at, HeadEnd(o) - o.at), Dest(off), Payload(o))
      BY <1>2, <2>2, <2>3 DEF LoadString
    <3> HIDE DEF o
    <3> QED BY <2>1, <2>2, <3>1, <3>2, NewPointer
  <2>4. CASE StringEnd(o, off) # "ok"
    <3>1. slots' = slots /\ objects \subseteq objects' /\ status' # "ok"
      BY <1>2, <2>4, OutcomeType DEF LoadString
    <3> QED BY <3>1 DEF PointersResolve
  <2> QED
    BY <2>3, <2>4
<1>3. ASSUME NEW t \in Types, NEW len \in Lengths, NEW off \in Offsets,
             LoadArray(t, len, off)
      PROVE  PointersResolve'
  <2> DEFINE o == ArrayObject(FreePtr, t, len)
  <2>1. len \in Nat /\ FreePtr \in Nat /\ Dest(off) \in Nat /\ status = "ok"
    BY <1>3, AddressTypes, InputsAssumption DEF LoadArray, Item, Turn, Hosted, Call
  <2>2. o \in Object /\ o.n >= ArrayHeader
    BY <2>1, ObjectTypes
  <2> DEFINE s == IF build = "debug" /\ Overflows(t, len) THEN "panic" ELSE ArrayEnd(o, off)
  <2>3. CASE s = "ok"
    <3>1. Outcome(Dest(off), PtrSize, objects \cup {o}) = "ok"
      BY <2>3 DEF ArrayEnd
    <3>2. /\ objects' = objects \cup {o}
          /\ slots' = StorePtr(Erase(slots, o.at, HeadEnd(o) - o.at), Dest(off), Payload(o))
      BY <1>3, <2>3 DEF LoadArray
    <3> HIDE DEF o
    <3> QED BY <2>1, <2>2, <3>1, <3>2, NewPointer
  <2>4. CASE s # "ok"
    <3>1. slots' = slots /\ objects \subseteq objects' /\ status' # "ok"
      BY <1>3, <2>4, OutcomeType DEF LoadArray
    <3> QED BY <3>1 DEF PointersResolve
  <2> QED
    BY <2>3, <2>4
<1>4. CASE (\E i \in Indexes, off \in Offsets : SetIndex(i, off)) \/ Restore \/ RejectItem
  <2>1. UNCHANGED <<slots, objects>> /\ status = "ok"
    BY <1>4 DEF SetIndex, Restore, RejectItem, Item, Turn, Hosted, Call, heapVars
  <2> QED
    BY <2>1 DEF PointersResolve
<1>5. CASE EndItems \/ UNCHANGED vars
  BY <1>5 DEF EndItems, vars, heapVars, PointersResolve
<1>6. CASE Probe
  BY <1>6 DEF Probe, heapVars, PointersResolve
<1>7. ASSUME HostStep PROVE PointersResolve'
  <2>1. HostCall /\ slots' \subseteq slots /\ status = "ok"
    BY <1>7, HostStepDoes DEF HostCall, Hosted, Call
  <2>2. CASE UNCHANGED objects
    BY <2>1, <2>2 DEF PointersResolve
  <2>3. ASSUME NEW o \in Object, Hand(o) PROVE PointersResolve'
    <3>1. objects' = objects \cup {o} /\ HeadEnd(o) = EndOf(o)
      BY <2>3 DEF Hand, HeadEnd
    <3>2. o.n >= ArrayHeader
      BY <2>3 DEF Hand, StringHeader, ArrayHeader
    <3>3. ASSUME NEW s \in Erase(slots, o.at, EndOf(o) - o.at)
          PROVE  ~Overlap(s.at, PtrSize, o.at, HeadEnd(o) - o.at)
      <4>1. s.at \in Nat /\ ~Overlap(o.at, HeadEnd(o) - o.at, s.at, PtrSize)
        BY <3>1, <3>3 DEF Erase, TypeOK
      <4> QED
        BY <3>2, <4>1, HeadTypes DEF Overlap, PtrSize, ObjectHeader, ArrayHeader
    <3>4. slots' = Erase(slots, o.at, EndOf(o) - o.at) \/ status' # "ok"
      BY <2>3 DEF Hand
    <3> QED
      BY <2>1, <3>1, <3>3, <3>4 DEF PointersResolve
  <2> QED
    BY <1>7, <2>2, <2>3, HostStepDoes DEF Reserve
<1> QED
  BY <1>1, <1>2, <1>3, <1>4, <1>5, <1>6, <1>7 DEF Next

(* Whatever the file holds, each pointer the loader left behind is empty or *)
(* leads to the payload of an allocated object.                             *)
THEOREM PointersAlwaysResolve == Spec => []PointersResolve
<1>1. Init => PointersResolve
  BY InitResolve
<1>2. TypeOK /\ PointersResolve /\ [Next]_vars => PointersResolve'
  BY StepResolve
<1> QED
  BY <1>1, <1>2, TypeCorrect, PTL DEF Spec

-----------------------------------------------------------------------------
(* Nested initialisers.                                                     *)

(* No address has two pointer words, and while the array just loaded may    *)
(* be indexed, the word at the offset it was loaded at points to it.        *)
SlotsApart == \A s, r \in slots : s.at = r.at => s = r

PendingNamesLast ==
  pending # Nowhere =>
    [at |-> Dest(pending), ptr |-> lastArray + ObjectHeader] \in slots

NestInv ==
  /\ SlotsApart
  /\ PendingNamesLast
  /\ BaseFollowsPath

(* Storing a pointer leaves one slot at each address.                       *)
LEMMA StoreApart ==
  ASSUME NEW ss \in SUBSET Slot, NEW a \in Nat, NEW p,
         \A s, r \in ss : s.at = r.at => s = r
  PROVE  \A s, r \in StorePtr(ss, a, p) : s.at = r.at => s = r
  BY DEF StorePtr, Erase, Overlap, PtrSize, Slot

(* With one slot per address, PointerAt is what that slot holds.            *)
LEMMA PointerAtSlot ==
  ASSUME TypeOK, SlotsApart, NEW a, NEW p, [at |-> a, ptr |-> p] \in slots
  PROVE  PointerAt(a) = p
<1> DEFINE c == CHOOSE s \in slots : s.at = a
<1>1. \E s \in slots : s.at = a
  OBVIOUS
<1>2. c \in slots /\ c.at = a
  BY <1>1
<1>3. c = [at |-> a, ptr |-> p]
  BY <1>2 DEF SlotsApart
<1>4. PointerAt(a) = c.ptr
  BY <1>1 DEF PointerAt
<1>5. c.ptr = p
  <2> HIDE DEF c
  <2> QED
    BY <1>3
<1> QED
  BY <1>4, <1>5

(* Nothing is open at first.                                                *)
LEMMA InitNest == Init => NestInv
<1> SUFFICES ASSUME Init PROVE NestInv
  OBVIOUS
<1>1. SlotsApart
  BY DEF Init, SetupPointers, SlotsApart
<1>2. BaseFollows
  <2>1. arrayStack = <<>> /\ path = <<>> /\ base = ModuleBase
    BY DEF Init
  <2>2. Frames = <<ModuleBase>> /\ Len(path) = 0 /\ Len(arrayStack) = 0
    BY <2>1 DEF Frames
  <2> QED
    BY <2>2 DEF BaseFollows
<1> QED
  BY <1>1, <1>2 DEF Init, NestInv, PendingNamesLast, BaseFollowsPath

(* Stores leave the bases and the path alone.                               *)
LEMMA BaseUnchanged ==
  ASSUME BaseFollowsPath, UNCHANGED <<base, arrayStack, path, producer>>
  PROVE  BaseFollowsPath'
  BY DEF BaseFollowsPath, BaseFollows, Frames

(* Scalars open nothing.                                                    *)
LEMMA ScalarsNest ==
  ASSUME TypeOK, NestInv, NEW width \in Widths, NEW count \in Lengths,
         NEW off \in Offsets, LoadScalars(width, count, off)
  PROVE  NestInv'
<1>1. slots' \subseteq slots /\ pending' = Nowhere
      /\ UNCHANGED <<base, arrayStack, path, producer>>
  BY DEF LoadScalars, Item, Turn, Hosted, Call, Erase
<1> QED
  BY <1>1, BaseUnchanged DEF NestInv, SlotsApart, PendingNamesLast

(* A string opens nothing.                                                  *)
LEMMA StringNest ==
  ASSUME TypeOK, NestInv, NEW len \in Lengths, NEW off \in Offsets,
         LoadString(len, off)
  PROVE  NestInv'
<1> DEFINE o == StringObject(FreePtr, len)
           ss == Erase(slots, o.at, EndOf(o) - o.at)
<1>1. pending' = Nowhere /\ UNCHANGED <<base, arrayStack, path, producer>>
  BY DEF LoadString, Item, Turn, Hosted, Call
<1>2. ss \subseteq slots /\ ss \in SUBSET Slot /\ Dest(off) \in Nat
  BY AddressTypes DEF Erase, TypeOK, Slot
<1>3. \A s, r \in ss : s.at = r.at => s = r
  BY <1>2 DEF NestInv, SlotsApart
<1>4. \A s, r \in StorePtr(ss, Dest(off), Payload(o)) : s.at = r.at => s = r
  BY <1>2, <1>3, StoreApart
<1>5. slots' = slots \/ slots' = StorePtr(ss, Dest(off), Payload(o))
  BY DEF LoadString
<1>6. SlotsApart'
  BY <1>4, <1>5 DEF SlotsApart, NestInv
<1> QED
  BY <1>1, <1>6, BaseUnchanged DEF NestInv, PendingNamesLast

(* The array just loaded is the last one, and its slot names it.            *)
LEMMA ArrayNest ==
  ASSUME TypeOK, NestInv, NEW t \in Types, NEW len \in Lengths, NEW off \in Offsets,
         LoadArray(t, len, off)
  PROVE  NestInv'
<1> DEFINE o == ArrayObject(FreePtr, t, len)
           ss == Erase(slots, o.at, HeadEnd(o) - o.at)
           new == [at |-> Dest(off), ptr |-> Payload(o)]
<1>1. UNCHANGED <<base, arrayStack, path, producer>>
  BY DEF LoadArray, Item, Turn, Hosted, Call
<1>2. ss \subseteq slots /\ ss \in SUBSET Slot /\ Dest(off) \in Nat
  BY AddressTypes DEF Erase, TypeOK, Slot
<1>3. \A s, r \in ss : s.at = r.at => s = r
  BY <1>2 DEF NestInv, SlotsApart
<1>4. \A s, r \in StorePtr(ss, Dest(off), Payload(o)) : s.at = r.at => s = r
  BY <1>2, <1>3, StoreApart
<1>5. \/ slots' = slots /\ pending' = Nowhere
      \/ /\ slots' = StorePtr(ss, Dest(off), Payload(o))
         /\ lastArray' = o.at /\ pending' = off
  BY DEF LoadArray
<1>6. SlotsApart'
  BY <1>4, <1>5 DEF SlotsApart, NestInv
<1>7. PendingNamesLast'
  <2>1. Payload(o) = o.at + ObjectHeader /\ new \in StorePtr(ss, Dest(off), Payload(o))
    BY DEF Payload, StorePtr
  <2>2. Dest(off)' = Dest(off)
    BY <1>1 DEF Dest
  <2> QED
    BY <1>5, <2>1, <2>2 DEF PendingNamesLast, Dest
<1> QED
  BY <1>1, <1>6, <1>7, BaseUnchanged DEF NestInv

(* The index item names the last array, so the base follows it.             *)
LEMMA SetIndexNest ==
  ASSUME TypeOK, NestInv, NEW i \in Indexes, NEW off \in Offsets, SetIndex(i, off)
  PROVE  NestInv'
<1>1. slots' = slots /\ pending' = Nowhere /\ producer' = producer
  BY DEF SetIndex, Item, Turn, Hosted, Call
<1>2. CASE lastArray = NoArray
  BY <1>1, <1>2, BaseUnchanged
  DEF SetIndex, NestInv, SlotsApart, PendingNamesLast
<1>3. ASSUME lastArray # NoArray, producer = "nested"
      PROVE  BaseFollows'
  <2> DEFINE p == PointerAt(Dest(off))
             b == ArrayBase(lastArray + ObjectHeader + ArrayHeader, i)
  <2>1. pending = off /\ off # Nowhere
    BY <1>3, AddressTypes DEF SetIndex, NamesElement, Sound, Nowhere
  <2>2. p = lastArray + ObjectHeader
    BY <2>1, PointerAtSlot DEF NestInv, PendingNamesLast
  <2>3. /\ arrayStack' = Append(arrayStack, base) /\ base' = b
        /\ path' = Append(path, p)
    BY <1>3 DEF SetIndex
  <2>4. /\ base \in Bases /\ arrayStack \in Seq(Bases) /\ lastArray \in Nat
        /\ path \in Seq(Nat \cup {VM_NULLPTR})
        /\ p \in Nat \cup {VM_NULLPTR}
    BY AddressTypes, PointerAtType DEF TypeOK
  <2>5. b \in Bases
    BY <2>4, InputsAssumption DEF ArrayBase, Bases, ObjectHeader, ArrayHeader
  <2>6. b.kind = "Array" /\ b.ptr = p + ArrayHeader
    BY <2>2, <2>4 DEF ArrayBase, ObjectHeader, ArrayHeader
  <2>7. BaseFollows
    BY <1>3 DEF NestInv, BaseFollowsPath
  <2>8. /\ Frames \in Seq(Bases) /\ Len(Frames) = Len(path) + 1
        /\ Frames' = Append(Frames, b)
    BY <2>3, <2>4, <2>7, AppendProperties DEF Frames, BaseFollows
  <2>9. /\ Len(Frames') = Len(path) + 2
        /\ \A k \in 1 .. Len(path) + 1 : Frames'[k] = Frames[k]
        /\ Frames'[Len(path) + 2] = b
    BY <2>4, <2>5, <2>8, AppendProperties
  <2>10. /\ Len(path') = Len(path) + 1 /\ Len(path) \in Nat
         /\ \A k \in 1 .. Len(path) : path'[k] = path[k]
         /\ path'[Len(path) + 1] = p
    BY <2>3, <2>4, AppendProperties
  <2>11. Len(arrayStack') = Len(path')
    BY <2>3, <2>4, <2>7, <2>10, AppendProperties DEF BaseFollows
  <2>12. Frames'[1] = ModuleBase
    BY <2>7, <2>9, <2>10 DEF BaseFollows
  <2>13. ASSUME NEW k \in 1 .. Len(path')
         PROVE  Frames'[k + 1].kind = "Array" /\ Frames'[k + 1].ptr = path'[k] + ArrayHeader
    <3>1. CASE k = Len(path) + 1
      BY <3>1, <2>6, <2>9, <2>10
    <3>2. CASE k \in 1 .. Len(path)
      BY <3>2, <2>7, <2>9, <2>10 DEF BaseFollows
    <3> QED
      BY <2>10, <3>1, <3>2
  <2> QED
    BY <2>11, <2>12, <2>13 DEF BaseFollows
<1> QED
  BY <1>1, <1>2, <1>3 DEF NestInv, SlotsApart, PendingNamesLast, BaseFollowsPath

(* The stack and the path lose their last entries together.                 *)
LEMMA RestoreNest ==
  ASSUME TypeOK, NestInv, Restore
  PROVE  NestInv'
<1>1. slots' = slots /\ pending' = Nowhere /\ producer' = producer
  BY DEF Restore, Item, Turn, Hosted, Call
<1>2. CASE arrayStack = <<>>
  BY <1>1, <1>2, BaseUnchanged
  DEF Restore, NestInv, SlotsApart, PendingNamesLast
<1>3. ASSUME arrayStack # <<>>, producer = "nested"
      PROVE  BaseFollows'
  <2> DEFINE n == Len(path)
  <2>1. BaseFollows
    BY <1>3 DEF NestInv, BaseFollowsPath
  <2>2. /\ base \in Bases /\ arrayStack \in Seq(Bases)
        /\ path \in Seq(Nat \cup {VM_NULLPTR})
    BY DEF TypeOK
  <2>3. /\ base' = arrayStack[n]
        /\ arrayStack' = SubSeq(arrayStack, 1, n - 1)
        /\ path' = SubSeq(path, 1, n - 1)
    BY <1>3, <2>1 DEF Restore, BaseFollows
  <2>4. n \in Nat /\ n >= 1 /\ Len(arrayStack) = n /\ path # <<>>
    BY <1>3, <2>1, <2>2 DEF BaseFollows
  <2>5. /\ arrayStack' \in Seq(Bases) /\ Len(arrayStack') = n - 1 /\ base' \in Bases
        /\ \A k \in 1 .. n - 1 : arrayStack'[k] = arrayStack[k]
    BY <1>3, <2>2, <2>3, <2>4, FrontOf
  <2>6. /\ Len(path') = n - 1
        /\ \A k \in 1 .. n - 1 : path'[k] = path[k]
    BY <2>2, <2>3, <2>4, FrontOf
  <2>7. \A k \in 1 .. n : Frames[k] = arrayStack[k]
    BY <2>2, <2>4, AppendProperties DEF Frames
  <2>8. /\ \A k \in 1 .. n - 1 : Frames'[k] = arrayStack'[k]
        /\ Frames'[n] = base'
    BY <2>4, <2>5, AppendProperties DEF Frames
  <2>9. \A k \in 1 .. n : Frames'[k] = Frames[k]
    BY <2>3, <2>4, <2>5, <2>7, <2>8
  <2>10. Frames'[1] = ModuleBase
    BY <2>1, <2>4, <2>9 DEF BaseFollows
  <2>11. \A k \in 1 .. n - 1 : /\ Frames'[k + 1].kind = "Array"
                               /\ Frames'[k + 1].ptr = path'[k] + ArrayHeader
    BY <2>1, <2>4, <2>6, <2>9 DEF BaseFollows
  <2> QED
    BY <2>5, <2>6, <2>10, <2>11 DEF BaseFollows
<1> QED
  BY <1>1, <1>2, <1>3 DEF NestInv, SlotsApart, PendingNamesLast, BaseFollowsPath

(* Every step keeps the base on the path.                                   *)
LEMMA StepNest == TypeOK /\ NestInv /\ [Next]_vars => NestInv'
<1> SUFFICES ASSUME TypeOK, NestInv, [Next]_vars PROVE NestInv'
  OBVIOUS
<1>1. CASE \E width \in Widths, count \in Lengths, off \in Offsets :
             LoadScalars(width, count, off)
  BY <1>1, ScalarsNest
<1>2. CASE \E len \in Lengths, off \in Offsets : LoadString(len, off)
  BY <1>2, StringNest
<1>3. CASE \E t \in Types, len \in Lengths, off \in Offsets : LoadArray(t, len, off)
  BY <1>3, ArrayNest
<1>4. CASE \E i \in Indexes, off \in Offsets : SetIndex(i, off)
  BY <1>4, SetIndexNest
<1>5. CASE Restore
  BY <1>5, RestoreNest
<1>6. CASE RejectItem
  <2>1. UNCHANGED <<base, arrayStack, path, producer, slots>> /\ pending' = Nowhere
    BY <1>6 DEF RejectItem, Item, Turn, Hosted, Call, heapVars
  <2> QED
    BY <2>1, BaseUnchanged DEF NestInv, SlotsApart, PendingNamesLast
<1>7. CASE EndItems \/ Probe \/ UNCHANGED vars
  <2>1. UNCHANGED <<base, arrayStack, path, producer, slots, pending, lastArray>>
    BY <1>7 DEF EndItems, Probe, vars, heapVars, auxVars
  <2> QED
    BY <2>1, BaseUnchanged DEF NestInv, SlotsApart, PendingNamesLast, Dest
<1>8. CASE HostStep
  <2>1. producer # "nested" /\ UNCHANGED producer /\ slots' \subseteq slots
        /\ pending' = Nowhere /\ UNCHANGED <<base, arrayStack, path>>
    BY <1>8, HostStepDoes DEF HostCall, Hosted, Call
  <2> QED
    BY <2>1, BaseUnchanged DEF NestInv, SlotsApart, PendingNamesLast
<1> QED
  BY <1>1, <1>2, <1>3, <1>4, <1>5, <1>6, <1>7, <1>8 DEF Next

(* A file that walks its initialisers depth first has every item addressed  *)
(* from the array its innermost open index item named, and restore returns  *)
(* to the enclosing one: last_array is enough for such files.               *)
THEOREM NestedBaseFollows == Spec => []BaseFollowsPath
<1>1. Init => NestInv
  BY InitNest
<1>2. TypeOK /\ NestInv /\ [Next]_vars => NestInv'
  BY StepNest
<1>3. NestInv => BaseFollowsPath
  BY DEF NestInv
<1> QED
  BY <1>1, <1>2, <1>3, TypeCorrect, PTL DEF Spec

-----------------------------------------------------------------------------
(* Reference counts.                                                        *)

ArraysOf(t) == {o \in Arrays : o.t = t}

RcInv == IsFiniteSet(objects) /\ RcCountsArrays

(* The steps that make no array.                                            *)
LEMMA SameArrays ==
  ASSUME RcInv, status = "ok", UNCHANGED rc, Arrays' = Arrays, IsFiniteSet(objects)'
  PROVE  RcInv'
  BY DEF RcInv, RcCountsArrays

(* A string is no array.                                                    *)
LEMMA StringRc ==
  ASSUME RcInv, NEW len \in Lengths, NEW off \in Offsets, LoadString(len, off)
  PROVE  RcInv'
<1> DEFINE o == StringObject(FreePtr, len)
<1>1. status = "ok" /\ UNCHANGED rc /\ o.typ = "Tstring"
  BY DEF LoadString, Item, Turn, Hosted, Call, StringObject
<1>2. objects' = objects \/ objects' = objects \cup {o}
  BY DEF LoadString
<1> HIDE DEF o
<1>3. Arrays' = Arrays
  BY <1>1, <1>2 DEF Arrays
<1>4. IsFiniteSet(objects')
  BY <1>2, FS_AddElement DEF RcInv
<1> QED
  BY <1>1, <1>3, <1>4, SameArrays

(* An array that is loaded is a new one: at the place of an old one its     *)
(* head would have damaged the old one's.                                   *)
LEMMA LoadedIsNew ==
  ASSUME TypeOK, NEW t \in Types, NEW len \in Lengths, NEW off \in Offsets,
         LoadArray(t, len, off), status' = "ok"
  PROVE  /\ ArrayObject(FreePtr, t, len) \notin objects
         /\ objects' = objects \cup {ArrayObject(FreePtr, t, len)}
<1> DEFINE o == ArrayObject(FreePtr, t, len)
<1>1. o.at \in Nat /\ o.typ = "Tarray"
  BY AddressTypes DEF ArrayObject
<1>2. /\ ~(build = "debug" /\ Overflows(t, len))
      /\ Placing(o, HeadEnd(o) - o.at) = "ok"
  BY DEF LoadArray, Ends, ArrayEnd
<1>3. objects' = objects \cup {o}
  BY <1>2 DEF LoadArray
<1>4. HeadEnd(o) - o.at = 40
  BY <1>1 DEF HeadEnd, Elements, Payload, ObjectHeader, ArrayHeader
<1>5. ~Hits(o.at, HeadEnd(o) - o.at, objects)
  BY <1>2 DEF Placing, Outcome
<1> HIDE DEF o
<1>6. Overlap(o.at, HeadEnd(o) - o.at, o.at, HeadEnd(o) - o.at)
  BY <1>1, <1>4 DEF Overlap
<1>7. o \notin objects
  BY <1>5, <1>6 DEF Hits
<1> QED
  BY <1>3, <1>7 DEF o

(* An array adds one to the arrays of its type and to their count.          *)
LEMMA ArrayRc ==
  ASSUME TypeOK, RcInv, NEW t \in Types, NEW len \in Lengths, NEW off \in Offsets,
         LoadArray(t, len, off)
  PROVE  RcInv'
<1> DEFINE o == ArrayObject(FreePtr, t, len)
<1>1. status = "ok" /\ rc' = [rc EXCEPT ![t] = @ + 1] /\ o.typ = "Tarray" /\ o.t = t
  BY DEF LoadArray, Item, Turn, Hosted, Call, CountArray, ArrayObject
<1>2. objects' = objects \/ objects' = objects \cup {o}
  BY DEF LoadArray
<1>3. status' = "ok" => o \notin objects /\ objects' = objects \cup {o}
  BY LoadedIsNew
<1> HIDE DEF o
<1>4. IsFiniteSet(objects')
  BY <1>2, FS_AddElement DEF RcInv
<1>5. ASSUME status' = "ok", NEW u \in Types
      PROVE  rc'[u] = Cardinality(ArraysOf(u)')
  <2>1. IsFiniteSet(ArraysOf(u)) /\ rc[u] = Cardinality(ArraysOf(u)) /\ rc \in [Types -> Nat]
    <3>1. ArraysOf(u) \subseteq objects
      BY DEF ArraysOf, Arrays
    <3> QED BY <1>1, <3>1, FS_Subset DEF RcInv, RcCountsArrays, ArraysOf, TypeOK
  <2>2. CASE u = t
    <3>1. ArraysOf(u)' = ArraysOf(u) \cup {o} /\ o \notin ArraysOf(u)
      BY <1>1, <1>3, <1>5, <2>2 DEF ArraysOf, Arrays
    <3>2. Cardinality(ArraysOf(u) \cup {o}) = Cardinality(ArraysOf(u)) + 1
      BY <2>1, <3>1, FS_AddElement
    <3> QED BY <1>1, <2>1, <2>2, <3>1, <3>2
  <2>3. CASE u # t
    <3>1. ArraysOf(u)' = ArraysOf(u)
      BY <1>1, <1>3, <1>5, <2>3 DEF ArraysOf, Arrays
    <3> QED BY <1>1, <2>1, <2>3, <3>1
  <2> QED BY <2>2, <2>3
<1> QED
  BY <1>4, <1>5 DEF RcInv, RcCountsArrays, ArraysOf

(* Every step keeps the counts.                                             *)
LEMMA StepRc == TypeOK /\ RcInv /\ [Next]_vars => RcInv'
<1> SUFFICES ASSUME TypeOK, RcInv, [Next]_vars PROVE RcInv'
  OBVIOUS
<1>1. ASSUME NEW width \in Widths, NEW count \in Lengths, NEW off \in Offsets,
             LoadScalars(width, count, off)
      PROVE  RcInv'
  <2>1. status = "ok" /\ UNCHANGED <<rc, objects>>
    BY <1>1 DEF LoadScalars, Item, Turn, Hosted, Call
  <2> QED BY <2>1, SameArrays DEF Arrays, RcInv
<1>2. ASSUME NEW i \in Indexes, NEW off \in Offsets, SetIndex(i, off)
      PROVE  RcInv'
  <2>1. status = "ok" /\ UNCHANGED <<rc, objects>>
    BY <1>2 DEF SetIndex, Item, Turn, Hosted, Call
  <2> QED BY <2>1, SameArrays DEF Arrays, RcInv
<1>3. CASE Restore \/ RejectItem \/ EndItems \/ Probe
  <2>1. status = "ok" /\ UNCHANGED <<rc, objects>>
    BY <1>3 DEF Restore, RejectItem, EndItems, Probe, Item, Turn, Hosted, Call, heapVars
  <2> QED BY <2>1, SameArrays DEF Arrays, RcInv
<1>4. CASE UNCHANGED vars
  BY <1>4 DEF vars, heapVars, RcInv, RcCountsArrays, Arrays
<1>5. ASSUME HostStep PROVE RcInv'
  <2>1. status = "ok" /\ UNCHANGED rc
    BY <1>5, HostStepDoes DEF HostCall, Hosted, Call
  <2>2. CASE UNCHANGED objects
    BY <2>1, <2>2, SameArrays DEF Arrays, RcInv
  <2>3. ASSUME NEW o \in Object, Hand(o) PROVE RcInv'
    <3>1. objects' = objects \cup {o} /\ o.typ = "Tstring"
      BY <2>3 DEF Hand
    <3>2. Arrays' = Arrays
      BY <3>1 DEF Arrays
    <3>3. IsFiniteSet(objects')
      BY <3>1, FS_AddElement DEF RcInv
    <3> QED
      BY <2>1, <3>2, <3>3, SameArrays
  <2> QED
    BY <1>5, <2>2, <2>3, HostStepDoes DEF Reserve
<1> QED
  BY <1>1, <1>2, <1>3, <1>4, <1>5, StringRc, ArrayRc DEF Next

(* As long as the loader goes on, rc of every type is the number of arrays  *)
(* it allocated with that type (load_data, Array), however many.            *)
THEOREM RcCounts == Spec => []RcCountsArrays
<1>1. Init => RcInv
  <2> SUFFICES ASSUME Init PROVE RcInv
    OBVIOUS
  <2>1. objects = {} /\ rc = [t \in Types |-> 0]
    BY DEF Init
  <2>2. \A t \in Types : {o \in Arrays : o.t = t} = {}
    BY <2>1 DEF Arrays
  <2> QED
    BY <2>1, <2>2, FS_EmptySet DEF RcInv, RcCountsArrays
<1>2. RcInv => RcCountsArrays
  BY DEF RcInv
<1> QED
  BY <1>1, <1>2, StepRc, TypeCorrect, PTL DEF Spec

-----------------------------------------------------------------------------
(* Where pointers lie.                                                      *)

(* A depth-first writer makes arrays of elements that have a size, and they *)
(* take just what they need.                                                *)
Sized(o) ==
  o.t \in Types /\ TypeSize[o.t] >= 0 /\ o.n = ArrayHeader + TypeSize[o.t] * o.len

RegionInv ==
  producer = "nested" => /\ \A s \in slots : InRegion(s.at)
                         /\ \A o \in Arrays : Sized(o)

(* An index counts no more bytes of the elements than they take, unless     *)
(* they have none.                                                          *)
LEMMA IndexInside ==
  \A size, start \in Nat : /\ size * start \in Nat
                           /\ size > 0 => start <= size * start
                           /\ size = 0 => size * start = 0
  OBVIOUS

(* Where such a writer places w bytes, they are inside a region.            *)
Within(a, w) ==
  \/ HeapBase <= a /\ a + w <= HeapBase + DataSize
  \/ \E o \in Arrays : Elements(o) <= a /\ a + w <= EndOf(o)

(* What fits where the innermost index item points lies in one region.      *)
LEMMA PlacedInRegion ==
  ASSUME TypeOK, NestInv, RegionInv, producer = "nested", NEW off \in Offsets,
         NEW w \in Nat \ {0}, Fits(off, w)
  PROVE  /\ Within(Dest(off), w)
         /\ \/ base = ModuleBase
            \/ \E o \in Arrays : base.ptr = Elements(o)
<1>1. off \in Nat /\ base.start \in Nat /\ base.ptr \in Nat /\ HeapBase \in Nat
  BY AddressTypes, BasesType, SizesAssumption DEF TypeOK
<1>2. arrayStack \in Seq(Bases) /\ path \in Seq(Nat \cup {VM_NULLPTR}) /\ BaseFollows
  BY DEF TypeOK, NestInv, BaseFollowsPath
<1>3. Len(arrayStack) \in Nat /\ Frames[Len(arrayStack) + 1] = base
  BY <1>2 DEF Frames
<1>4. CASE path = <<>>
  <2>1. base = ModuleBase
    BY <1>2, <1>3, <1>4 DEF BaseFollows
  <2>2. Dest(off) = HeapBase + off /\ off + w <= DataSize
    BY <1>1, <1>4, <2>1 DEF Dest, ModuleBase, Fits
  <2> QED
    BY <1>1, <2>1, <2>2, SizesAssumption DEF Within
<1>5. CASE path # <<>>
  <2>1. Len(path) \in 1 .. Len(path) /\ Len(path) = Len(arrayStack)
    BY <1>2, <1>5 DEF BaseFollows
  <2>2. base.ptr = path[Len(path)] + ArrayHeader
    BY <1>2, <1>3, <2>1 DEF BaseFollows
  <2>3. PICK o \in Arrays :
          /\ Payload(o) = path[Len(path)]
          /\ base.start * TypeSize[o.t] + off + w <= o.n - ArrayHeader
    BY <1>5 DEF Fits
  <2>4. o.at \in Nat /\ o.n \in Nat /\ o.len \in Nat /\ Sized(o)
    BY <2>3 DEF TypeOK, Arrays, Object, RegionInv
  <2> DEFINE size == TypeSize[o.t]
             used == base.start * size
  <2>5. size \in Nat
    <3>1. o.t \in Types /\ size >= 0
      BY <2>4 DEF Sized
    <3>2. size \in Int
      BY <3>1, TypesAssumption
    <3> HIDE DEF size
    <3> QED BY <3>1, <3>2
  <2>6. used \in Nat /\ (size > 0 => base.start <= used)
    BY <1>1, <2>5, IndexInside
  <2>7. size > 0
    <3>1. CASE size = 0
      <4>1. size * o.len = 0
        BY <2>4, <3>1, IndexInside
      <4>2. o.n = ArrayHeader
        BY <2>4, <4>1 DEF Sized, ArrayHeader
      <4> HIDE DEF size, used
      <4> QED BY <1>1, <2>3, <2>6, <4>2 DEF used, size, PtrSize, ArrayHeader
    <3> HIDE DEF size
    <3> QED BY <2>5, <3>1
  <2>8. used + off + w <= o.n - ArrayHeader
    BY <2>3
  <2> HIDE DEF used, size
  <2>9. /\ Elements(o) <= Dest(off)
        /\ Dest(off) + w <= EndOf(o)
    <3>1. base.ptr = o.at + 40 /\ base.start <= used
      BY <2>2, <2>3, <2>4, <2>6, <2>7 DEF Payload, ObjectHeader, ArrayHeader
    <3>2. used + off + w <= o.n - 16 /\ used \in Nat
      BY <2>6, <2>8 DEF ArrayHeader, PtrSize
    <3>3. o.at \in Nat /\ o.n \in Nat
      BY <2>4
    <3> QED
      BY <1>1, <3>1, <3>2, <3>3
      DEF Elements, EndOf, Payload, Dest, ObjectHeader, ArrayHeader, PtrSize
  <2>10. base.ptr = Elements(o)
    BY <2>2, <2>3 DEF Elements
  <2> QED
    BY <2>3, <2>9, <2>10 DEF Within
<1> QED
  BY <1>4, <1>5

(* A region stays one as long as objects are only added.                    *)
LEMMA RegionsStay ==
  ASSUME NEW a, InRegion(a), objects \subseteq objects'
  PROVE  InRegion(a)'
  BY DEF InRegion, Arrays

(* Stores that leave every pointer in a slot that was there.                *)
LEMMA FewerSlots ==
  ASSUME RegionInv, UNCHANGED producer, slots' \subseteq slots, objects \subseteq objects',
         Arrays' = Arrays
  PROVE  RegionInv'
  BY RegionsStay DEF RegionInv, Sized

(* Items that store a pointer.                                              *)
LEMMA StringRegion ==
  ASSUME TypeOK, NestInv, RegionInv, NEW len \in Lengths, NEW off \in Offsets,
         LoadString(len, off)
  PROVE  RegionInv'
<1> SUFFICES ASSUME producer = "nested" PROVE RegionInv'
  BY DEF LoadString, Item, Turn, Hosted, Call, RegionInv
<1> DEFINE o == StringObject(FreePtr, len)
<1>1. producer' = producer /\ o.typ = "Tstring" /\ Fits(off, PtrSize)
  BY DEF LoadString, Item, Turn, Hosted, Call, StringObject, Emits, Sound
<1>2. InRegion(Dest(off))
  BY <1>1, PlacedInRegion DEF InRegion, Within, PtrSize
<1>3. objects' = objects \/ objects' = objects \cup {o}
  BY DEF LoadString
<1>4. \A s \in slots' : s \in slots \/ s.at = Dest(off)
  BY DEF LoadString, StorePtr, Erase
<1> HIDE DEF o
<1>5. Arrays' = Arrays
  BY <1>1, <1>3 DEF Arrays
<1>6. \A s \in slots' : InRegion(s.at)'
  BY <1>2, <1>3, <1>4, RegionsStay DEF RegionInv
<1> QED
  BY <1>5, <1>6 DEF RegionInv, Sized

(* An array's elements become a region, and its pointer lies in one.        *)
LEMMA ArrayRegion ==
  ASSUME TypeOK, NestInv, RegionInv, NEW t \in Types, NEW len \in Lengths,
         NEW off \in Offsets, LoadArray(t, len, off)
  PROVE  RegionInv'
<1> SUFFICES ASSUME producer = "nested" PROVE RegionInv'
  BY DEF LoadArray, Item, Turn, Hosted, Call, RegionInv
<1> DEFINE o == ArrayObject(FreePtr, t, len)
<1>1. /\ producer' = producer /\ Fits(off, PtrSize)
      /\ TypeSize[t] >= 0 /\ IsI32(TypeSize[t] * len)
  BY DEF LoadArray, Item, Turn, Hosted, Call, Emits, EmitsArray, Sound, Overflows
<1>2. InRegion(Dest(off))
  BY <1>1, PlacedInRegion DEF InRegion, Within, PtrSize
<1>3. objects' = objects \/ objects' = objects \cup {o}
  BY DEF LoadArray
<1>4. \A s \in slots' : s \in slots \/ s.at = Dest(off)
  BY DEF LoadArray, StorePtr, Erase
<1>5. Sized(o)
  <2> DEFINE x == TypeSize[t] * len
  <2>1. TypeSize[t] \in Nat /\ len \in Nat
    BY <1>1, TypesAssumption, InputsAssumption
  <2>2. x \in Nat
    BY <2>1, ProductNat
  <2>3. I32(x) = x
    BY <1>1, <2>2, Casts
  <2>4. AsUsize(I32(x)) = x
    <3> HIDE DEF x
    <3> QED BY <2>2, <2>3 DEF AsUsize
  <2>5. o.t = t /\ o.len = len /\ o.n = ArrayHeader + AsUsize(I32(x))
    BY DEF ArrayObject
  <2> HIDE DEF o
  <2> QED
    BY <1>1, <2>4, <2>5 DEF Sized
<1> HIDE DEF o
<1>6. \A q \in Arrays' : q \in Arrays \/ q = o
  BY <1>3 DEF Arrays
<1>7. \A s \in slots' : InRegion(s.at)'
  BY <1>2, <1>3, <1>4, RegionsStay DEF RegionInv
<1> QED
  BY <1>5, <1>6, <1>7 DEF RegionInv, Sized

(* Every step keeps the pointers in regions.                                *)
LEMMA StepRegion == TypeOK /\ NestInv /\ RegionInv /\ [Next]_vars => RegionInv'
<1> SUFFICES ASSUME TypeOK, NestInv, RegionInv, [Next]_vars PROVE RegionInv'
  OBVIOUS
<1>1. CASE \E width \in Widths, count \in Lengths, off \in Offsets :
             LoadScalars(width, count, off)
  <2>1. slots' \subseteq slots /\ UNCHANGED <<producer, objects>>
    BY <1>1 DEF LoadScalars, Item, Turn, Hosted, Call, Erase
  <2> QED BY <2>1, FewerSlots DEF Arrays
<1>2. CASE \/ \E i \in Indexes, off \in Offsets : SetIndex(i, off)
           \/ Restore \/ RejectItem \/ EndItems \/ Probe \/ UNCHANGED vars
  <2>1. UNCHANGED <<producer, slots, objects>>
    BY <1>2 DEF SetIndex, Restore, RejectItem, EndItems, Probe, Item, Turn, Hosted, Call, vars, heapVars, auxVars
  <2> QED BY <2>1, FewerSlots DEF Arrays
<1>3. CASE HostStep
  <2>1. producer # "nested" /\ UNCHANGED producer
    BY <1>3, HostStepDoes DEF HostCall, Hosted, Call
  <2> QED BY <2>1 DEF RegionInv
<1> QED
  BY <1>1, <1>2, <1>3, StringRegion, ArrayRegion DEF Next

(* At first the only pointers are the empty ones of the map.                *)
LEMMA InitRegion == Init => RegionInv
<1> SUFFICES ASSUME Init, producer = "nested" PROVE RegionInv
  BY DEF RegionInv
<1>1. MarksFit /\ slots = SetupPointers /\ Arrays = {} /\ map \in Maps
  BY DEF Init, Sound, Arrays
<1>2. ASSUME NEW w \in MarkedWords(map)
      PROVE  InRegion(HeapBase + PtrSize * w)
  <2>1. w \in Nat /\ PtrSize * w + PtrSize <= DataSize
    BY <1>1, MarkedNat DEF MarksFit
  <2> QED
    BY <2>1, SizesAssumption DEF InRegion, PtrSize
<1>3. \A s \in slots : InRegion(s.at)
  BY <1>1, <1>2 DEF SetupPointers
<1> QED
  BY <1>1, <1>3 DEF RegionInv

(* Every pointer of a file that walks its initialisers depth first lies in  *)
(* the module data or wholly inside the elements of one array, at any depth *)
(* of nesting: the offsets of write_data and set_index lead nowhere else.   *)
THEOREM NestedSlotsInRegions == Spec => []SlotsInRegions
<1>1. Init => RegionInv
  BY InitRegion
<1>2. RegionInv => SlotsInRegions
  BY DEF RegionInv, SlotsInRegions
<1>3. Init => NestInv
  BY InitNest
<1>4. TypeOK /\ NestInv /\ [Next]_vars => NestInv'
  BY StepNest
<1> QED
  BY <1>1, <1>2, <1>3, <1>4, StepRegion, TypeCorrect, PTL DEF Spec

-----------------------------------------------------------------------------
(* Nested initialisers load.                                                *)

(* While such a file loads, heap_start stays in reach of a u32.             *)
LoadInv ==
  producer = "nested" =>
    /\ status = "ok" => heapStart <= MapSize + MaxI32 + 4
    /\ stage = "items" =>
         /\ status \in {"ok", "fault", "abort"}
         /\ status = "fault" => heapStart > HeapSize
         /\ status = "abort" => build = "debug"

(* The sizes and objects of a file that keeps its sizes.                    *)
LEMMA NestedLayout ==
  ASSUME TypeOK, Layout, producer = "nested"
  PROVE  /\ heapStart \in Nat /\ DataSize <= heapStart /\ FreePtr = HeapBase + heapStart
         /\ \A o \in objects : /\ o.at \in Nat /\ o.n \in Nat /\ o.n >= ArrayHeader
                               /\ HeapBase + DataSize <= o.at /\ EndOf(o) <= FreePtr
         /\ \A o, q \in objects :
              o # q => ~Overlap(o.at, EndOf(o) - o.at, q.at, EndOf(q) - q.at)
<1>1. SizesKept
  BY DEF SizesKept, Sound
<1> QED
  BY <1>1 DEF TypeOK, Layout, ObjectsDisjoint, FreePtr, Object

(* A store that stays in its region passes the checks and damages nothing.  *)
LEMMA RegionStore ==
  ASSUME TypeOK, Layout, NestInv, RegionInv, producer = "nested", NEW off \in Offsets,
         NEW w \in Nat \ {0}, Fits(off, w)
  PROVE  /\ off \in Nat /\ Dest(off) \in Nat
         /\ off <= heapStart /\ Dest(off) + w <= FreePtr
         /\ ~Hits(Dest(off), w, objects)
<1>1. /\ off \in Nat /\ Dest(off) \in Nat /\ base.start \in Nat /\ base.ptr \in Nat
      /\ HeapBase \in Nat /\ DataSize \in Nat
  BY AddressTypes, BasesType, SizesAssumption DEF TypeOK
<1>2. /\ Within(Dest(off), w)
      /\ base = ModuleBase \/ \E o \in Arrays : base.ptr = Elements(o)
  BY PlacedInRegion
<1>3. /\ heapStart \in Nat /\ DataSize <= heapStart /\ FreePtr = HeapBase + heapStart
      /\ \A o \in objects : /\ o.at \in Nat /\ o.n \in Nat /\ o.n >= ArrayHeader
                            /\ HeapBase + DataSize <= o.at /\ EndOf(o) <= FreePtr
      /\ \A o, q \in objects :
           o # q => ~Overlap(o.at, EndOf(o) - o.at, q.at, EndOf(q) - q.at)
  BY NestedLayout
<1>4. base.ptr >= HeapBase
  <2>1. \A o \in Arrays : Elements(o) >= HeapBase
    BY <1>1, <1>3 DEF Arrays, Elements, Payload, ObjectHeader, ArrayHeader
  <2> QED BY <1>1, <1>2, <2>1 DEF ModuleBase
<1>5. Dest(off) >= HeapBase + off
  BY <1>1, <1>4 DEF Dest
<1>6. CASE HeapBase <= Dest(off) /\ Dest(off) + w <= HeapBase + DataSize
  <2>1. \A q \in objects : ~Overlap(Dest(off), w, q.at, HeadEnd(q) - q.at)
    BY <1>1, <1>3, <1>6 DEF Overlap
  <2> QED BY <1>1, <1>3, <1>5, <1>6, <2>1 DEF Hits
<1>7. ASSUME NEW o \in Arrays, Elements(o) <= Dest(off), Dest(off) + w <= EndOf(o)
      PROVE  /\ off <= heapStart /\ Dest(off) + w <= FreePtr
             /\ ~Hits(Dest(off), w, objects)
  <2>1. o \in objects /\ o.typ = "Tarray" /\ EndOf(o) <= FreePtr
    BY <1>3 DEF Arrays
  <2>2. EndOf(o) \in Nat /\ FreePtr \in Nat
    BY <1>1, <1>3, <2>1 DEF EndOf, Payload, ObjectHeader
  <2>3. ASSUME NEW q \in objects PROVE ~Overlap(Dest(off), w, q.at, HeadEnd(q) - q.at)
    <3>1. CASE q = o
      BY <1>1, <1>3, <1>7, <2>1, <3>1
      DEF Overlap, HeadEnd, Elements, Payload, ObjectHeader, ArrayHeader
    <3>2. CASE q # o
      <4>1. ~Overlap(o.at, EndOf(o) - o.at, q.at, EndOf(q) - q.at)
        BY <1>3, <2>1, <3>2
      <4>2. HeadEnd(q) <= EndOf(q) /\ HeadEnd(q) \in Nat /\ EndOf(q) \in Nat
        BY <1>3, <2>3 DEF HeadEnd, EndOf, Elements, Payload, ObjectHeader, ArrayHeader
      <4>3. o.at \in Nat /\ q.at \in Nat /\ o.at <= Elements(o) /\ Elements(o) \in Nat
            /\ q.at < EndOf(q) /\ o.at < EndOf(o)
        BY <1>3, <2>1, <2>3 DEF Elements, EndOf, Payload, ObjectHeader, ArrayHeader
      <4>4. EndOf(o) <= q.at \/ EndOf(q) <= o.at
        BY <2>2, <4>1, <4>2, <4>3 DEF Overlap
      <4> QED BY <1>1, <1>7, <2>2, <4>2, <4>3, <4>4 DEF Overlap
    <3> QED BY <3>1, <3>2
  <2> QED BY <1>1, <1>3, <1>5, <1>7, <2>1, <2>2, <2>3 DEF Hits
<1> QED
  BY <1>1, <1>2, <1>6, <1>7 DEF Within

(* The checks of write_data let such a store pass, as long as a u32 holds   *)
(* the end it is compared with.                                             *)
LEMMA Passes ==
  ASSUME NEW off \in Nat, NEW start \in Nat, Dest(off) \in Nat,
         off <= start, Dest(off) < HeapBase + start, HeapBase + start < Word
  PROVE  InBounds(off, start)
<1>1. HeapBase \in Nat /\ Word \in Nat
  BY SizesAssumption DEF Word
<1>2. start % Word = start
  BY <1>1
<1> QED
  BY <1>1, <1>2 DEF InBounds, Limit

(* Below heap_start only the end of the mapping stops a store.              *)
LEMMA FaultsPastMapping ==
  ASSUME heapStart \in Nat, NEW a \in Nat, NEW w \in Nat, NEW objs,
         a + w <= FreePtr, ~Hits(a, w, objs)
  PROVE  /\ Outcome(a, w, objs) \in {"ok", "fault"}
         /\ Outcome(a, w, objs) = "fault" => heapStart > HeapSize
  BY SizesAssumption DEF Outcome, Mapped, FreePtr

(* The place of a new object is free, so the same holds of its bytes.       *)
LEMMA FreePlace ==
  ASSUME TypeOK, Layout, producer = "nested", NEW w \in Nat
  PROVE  ~Hits(FreePtr, w, objects)
<1>1. /\ FreePtr \in Nat
      /\ \A o \in objects : o.at \in Nat /\ HeadEnd(o) \in Nat /\ HeadEnd(o) <= FreePtr
  BY NestedLayout, SizesAssumption
  DEF FreePtr, HeadEnd, EndOf, Elements, Payload, ObjectHeader, ArrayHeader
<1> QED
  BY <1>1 DEF Hits, Overlap

(* A step may end as it should, or abort in a debug build.                  *)
LEMMA EndsAs ==
  ASSUME TypeOK, NEW s, NEW places, status' \in Ends(s, places)
  PROVE  status' = s \/ (status' = "abort" /\ build = "debug")
  BY DEF Ends

(* A scalar neither panics nor damages an object.                           *)
LEMMA ScalarsLoad ==
  ASSUME TypeOK, Layout, NestInv, RegionInv, LoadInv, ReachAssumption, producer = "nested",
         NEW width \in Widths, NEW count \in Lengths, NEW off \in Offsets,
         LoadScalars(width, count, off)
  PROVE  LoadInv'
<1> DEFINE w == width * count
           s == IF InBounds(off, heapStart) THEN Outcome(Dest(off), w, objects) ELSE "panic"
<1>1. w \in Nat
  BY ProductNat, InputsAssumption DEF Widths
<1>2. /\ status = "ok" /\ UNCHANGED <<build, producer, heapStart>> /\ w > 0 /\ Fits(off, w)
      /\ \E places : status' \in Ends(s, places)
  BY DEF LoadScalars, Item, Turn, Hosted, Call, Emits, Sound
<1>3. status' = s \/ (status' = "abort" /\ build = "debug")
  BY <1>2, EndsAs
<1> HIDE DEF w
<1>4. /\ off \in Nat /\ Dest(off) \in Nat /\ off <= heapStart /\ Dest(off) + w <= FreePtr
      /\ ~Hits(Dest(off), w, objects) /\ heapStart \in Nat
  BY <1>1, <1>2, RegionStore DEF TypeOK
<1>5. InBounds(off, heapStart)
  <2>1. HeapBase + heapStart < Word /\ Dest(off) < HeapBase + heapStart
    BY <1>1, <1>2, <1>4, ReachAssumption, SizesAssumption DEF LoadInv, FreePtr, Word
  <2> QED BY <1>4, <2>1, Passes
<1>6. s \in {"ok", "fault"} /\ (s = "fault" => heapStart > HeapSize)
  BY <1>1, <1>4, <1>5, FaultsPastMapping
<1> HIDE DEF s
<1> QED
  BY <1>2, <1>3, <1>6 DEF LoadInv

(* Where a new object of n bytes goes, of which some are written: when it   *)
(* is not placed, the mapping ended, and when it is, heap_start stays in    *)
(* reach.                                                                   *)
LEMMA PlacedLoads ==
  ASSUME TypeOK, Layout, producer = "nested", NEW o \in Object, o.at = FreePtr,
         NEW bytes \in Nat, bytes <= ObjectHeader + o.n, ~Carries(o.n),
         o.n <= bytes + MaxI32
  PROVE  /\ StartAfter(o.n) \in Nat /\ StartAfter(o.n) >= heapStart
         /\ HeapBase + StartAfter(o.n) >= EndOf(o)
         /\ Placing(o, bytes) \in {"ok", "fault"}
         /\ Placing(o, bytes) = "fault" => StartAfter(o.n) > HeapSize
<1>1. heapStart \in Nat /\ o.n \in Nat /\ FreePtr = HeapBase + heapStart /\ FreePtr \in Nat
  BY SizesAssumption DEF TypeOK, Object, FreePtr
<1>2. ObjectHeader + o.n \in Nat
  BY <1>1 DEF ObjectHeader
<1>3. StartAfter(o.n) = heapStart + Align4(ObjectHeader + o.n) - 0
  BY DEF StartAfter
<1>4. StartAfter(o.n) \in Nat /\ StartAfter(o.n) >= heapStart + ObjectHeader + o.n
  BY <1>1, <1>2, <1>3, AlignUp DEF ObjectHeader
<1>5. ~Hits(FreePtr, bytes, objects)
  BY FreePlace
<1>6. /\ Placing(o, bytes) \in {"ok", "fault"}
      /\ Placing(o, bytes) = "fault" => FreePtr + bytes > HeapBase + MapSize
  BY <1>1, <1>5, SizesAssumption DEF Placing, Outcome, Mapped
<1> QED
  BY <1>1, <1>4, <1>6, SizesAssumption DEF EndOf, Payload, ObjectHeader

(* A string neither panics nor damages an object.                           *)
LEMMA StringLoads ==
  ASSUME TypeOK, Layout, NestInv, RegionInv, LoadInv, ReachAssumption, producer = "nested",
         NEW len \in Lengths, NEW off \in Offsets, LoadString(len, off)
  PROVE  LoadInv'
<1> DEFINE o == StringObject(FreePtr, len)
           s == StringEnd(o, off)
           bytes == EndOf(o) - o.at
<1>1. /\ status = "ok" /\ UNCHANGED <<build, producer>> /\ Fits(off, PtrSize)
      /\ ~Carries(o.n) /\ \E places : status' \in Ends(s, places)
      /\ s # "panic" => heapStart' = StartAfter(o.n)
  BY DEF LoadString, Item, Turn, Hosted, Call, Emits, EmitsString, Sound
<1>2. status' = s \/ (status' = "abort" /\ build = "debug")
  BY <1>1, EndsAs
<1>3. /\ off \in Nat /\ Dest(off) \in Nat /\ off <= heapStart
      /\ Dest(off) + PtrSize <= FreePtr
      /\ ~Hits(Dest(off), PtrSize, objects) /\ heapStart \in Nat
  BY <1>1, RegionStore DEF TypeOK, PtrSize
<1>4. /\ o \in Object /\ o.at = FreePtr /\ o.n \in Nat /\ o.typ = "Tstring"
      /\ FreePtr \in Nat /\ FreePtr = HeapBase + heapStart
  <2>1. FreePtr \in Nat /\ len \in Nat
    BY <1>3, SizesAssumption, InputsAssumption DEF FreePtr
  <2> QED BY <2>1, ObjectTypes DEF StringObject, FreePtr
<1> HIDE DEF o
<1>5. bytes = ObjectHeader + o.n /\ bytes \in Nat
  BY <1>4 DEF EndOf, Payload, ObjectHeader
<1>6. /\ StartAfter(o.n) \in Nat /\ StartAfter(o.n) >= heapStart
      /\ Placing(o, bytes) \in {"ok", "fault"}
      /\ Placing(o, bytes) = "fault" => StartAfter(o.n) > HeapSize
  <2>1. o.n <= bytes + MaxI32 /\ bytes <= ObjectHeader + o.n
    BY <1>4, <1>5, SizesAssumption DEF ObjectHeader
  <2> QED BY <1>1, <1>4, <1>5, <2>1, PlacedLoads
<1>7. Placing(o, bytes) = "ok" => StartAfter(o.n) <= MapSize + 3
  <2>1. Placing(o, bytes) = "ok" => FreePtr + bytes <= HeapBase + MapSize
    BY <1>4, <1>5, SizesAssumption DEF Placing, Outcome, Mapped, ObjectHeader
  <2>2. StartAfter(o.n) = heapStart + Align4(ObjectHeader + o.n) - 0
    BY <1>1 DEF StartAfter
  <2>3. Align4(ObjectHeader + o.n) \in Nat /\ Align4(ObjectHeader + o.n) <= bytes + 3
    BY <1>5, AlignUp
  <2> QED BY <1>3, <1>4, <1>5, <2>1, <2>2, <2>3, SizesAssumption
<1>8. InBounds(off, heapStart)
  <2>1. HeapBase + heapStart < Word /\ Dest(off) < HeapBase + heapStart
    BY <1>1, <1>3, <1>4, ReachAssumption, SizesAssumption DEF LoadInv, PtrSize, Word
  <2> QED BY <1>3, <2>1, Passes
<1> DEFINE stored == Outcome(Dest(off), PtrSize, objects \cup {o})
<1>9. stored \in {"ok", "fault"} /\ (stored = "fault" => heapStart > HeapSize)
  <2>1. ~Hits(Dest(off), PtrSize, objects \cup {o})
    BY <1>3, <1>4 DEF Hits, Overlap, PtrSize
  <2> QED BY <1>3, <2>1, FaultsPastMapping DEF PtrSize
<1>10. s = IF Placing(o, bytes) # "ok" THEN Placing(o, bytes) ELSE stored
  BY <1>1, <1>8 DEF StringEnd
<1> HIDE DEF s, stored, bytes
<1>11. /\ s \in {"ok", "fault"} /\ (s = "fault" => StartAfter(o.n) > HeapSize)
       /\ s = "ok" => StartAfter(o.n) <= MapSize + 3
  BY <1>3, <1>6, <1>7, <1>9, <1>10, SizesAssumption
<1>12. s = "ok" => heapStart' <= MapSize + MaxI32 + 4
  BY <1>1, <1>6, <1>11, SizesAssumption
<1>13. s = "fault" => heapStart' > HeapSize
  BY <1>1, <1>11
<1> QED
  BY <1>1, <1>2, <1>11, <1>12, <1>13 DEF LoadInv

(* An array neither panics nor damages an object, though only its head is   *)
(* compared with the end of the mapping.                                    *)
LEMMA ArrayLoads ==
  ASSUME TypeOK, Layout, NestInv, RegionInv, LoadInv, ReachAssumption, producer = "nested",
         NEW t \in Types, NEW len \in Lengths, NEW off \in Offsets, LoadArray(t, len, off)
  PROVE  LoadInv'
<1> DEFINE o == ArrayObject(FreePtr, t, len)
           s == ArrayEnd(o, off)
           bytes == HeadEnd(o) - o.at
<1>1. /\ status = "ok" /\ UNCHANGED <<build, producer>> /\ Fits(off, PtrSize)
      /\ TypeSize[t] >= 0 /\ ~Overflows(t, len)
      /\ \E places : status' \in Ends(s, places)
      /\ heapStart' = StartAfter(o.n)
  BY DEF LoadArray, Item, Turn, Hosted, Call, Emits, EmitsArray, Sound
<1>2. status' = s \/ (status' = "abort" /\ build = "debug")
  BY <1>1, EndsAs
<1>3. /\ off \in Nat /\ Dest(off) \in Nat /\ off <= heapStart
      /\ Dest(off) + PtrSize <= FreePtr
      /\ ~Hits(Dest(off), PtrSize, objects) /\ heapStart \in Nat
  BY <1>1, RegionStore DEF TypeOK, PtrSize
<1>4. /\ o \in Object /\ o.at = FreePtr /\ o.n \in Nat /\ o.n >= ArrayHeader
      /\ o.typ = "Tarray" /\ FreePtr \in Nat /\ FreePtr = HeapBase + heapStart
  <2>1. FreePtr \in Nat /\ len \in Nat
    BY <1>3, SizesAssumption, InputsAssumption DEF FreePtr
  <2> QED BY <2>1, ObjectTypes DEF ArrayObject, FreePtr
<1>5. o.n <= ArrayHeader + MaxI32 /\ ~Carries(o.n)
  <2> DEFINE x == TypeSize[t] * len
  <2>1. x \in Nat
    <3>1. TypeSize[t] \in Nat /\ len \in Nat
      BY <1>1, TypesAssumption, InputsAssumption
    <3> QED BY <3>1, ProductNat
  <2>2. IsI32(x) /\ ~Carries(o.n)
    BY <1>1 DEF Overflows
  <2>3. o.n = ArrayHeader + AsUsize(I32(x))
    BY DEF ArrayObject
  <2> HIDE DEF x, o
  <2>4. I32(x) = x /\ x <= MaxI32
    BY <2>1, <2>2, Casts, SizesAssumption DEF IsI32
  <2>5. AsUsize(I32(x)) = x
    BY <2>1, <2>4 DEF AsUsize
  <2> QED BY <2>1, <2>2, <2>3, <2>4, <2>5, SizesAssumption DEF ArrayHeader
<1> HIDE DEF o
<1>6. bytes = 40
  BY <1>4 DEF HeadEnd, Elements, Payload, ObjectHeader, ArrayHeader
<1>7. /\ StartAfter(o.n) \in Nat /\ StartAfter(o.n) >= heapStart
      /\ Placing(o, bytes) \in {"ok", "fault"}
      /\ Placing(o, bytes) = "fault" => StartAfter(o.n) > HeapSize
  <2>1. o.n <= bytes + MaxI32 /\ bytes <= ObjectHeader + o.n /\ bytes \in Nat
    BY <1>4, <1>5, <1>6, SizesAssumption DEF ObjectHeader, ArrayHeader
  <2> HIDE DEF bytes
  <2> QED BY <1>4, <1>5, <2>1, PlacedLoads
<1>8. Placing(o, bytes) = "ok" => StartAfter(o.n) <= MapSize + MaxI32 + 3
  <2>1. Placing(o, bytes) = "ok" => FreePtr + 40 <= HeapBase + MapSize
    BY <1>4, <1>6, SizesAssumption DEF Placing, Outcome, Mapped
  <2>2. StartAfter(o.n) = heapStart + Align4(ObjectHeader + o.n) - 0
    BY <1>5 DEF StartAfter
  <2>3. /\ Align4(ObjectHeader + o.n) \in Nat
        /\ Align4(ObjectHeader + o.n) <= 40 + MaxI32 + 3
    <3>1. ObjectHeader + o.n \in Nat /\ ObjectHeader + o.n <= 40 + MaxI32
      BY <1>4, <1>5, SizesAssumption DEF ObjectHeader, ArrayHeader
    <3> QED BY <3>1, AlignUp, SizesAssumption
  <2> QED BY <1>3, <1>4, <2>1, <2>2, <2>3, SizesAssumption
<1> HIDE DEF bytes
<1>9. Placing(o, bytes) = "ok" => InBounds(off, StartAfter(o.n))
  <2> SUFFICES ASSUME Placing(o, bytes) = "ok" PROVE InBounds(off, StartAfter(o.n))
    OBVIOUS
  <2>1. /\ HeapBase + StartAfter(o.n) < Word /\ Dest(off) < HeapBase + StartAfter(o.n)
        /\ off <= StartAfter(o.n)
    BY <1>3, <1>4, <1>7, <1>8, ReachAssumption, SizesAssumption DEF PtrSize, Word
  <2> QED BY <1>3, <1>7, <2>1, Passes
<1> DEFINE stored == Outcome(Dest(off), PtrSize, objects \cup {o})
<1>10. stored \in {"ok", "fault"} /\ (stored = "fault" => heapStart > HeapSize)
  <2>1. ~Hits(Dest(off), PtrSize, objects \cup {o})
    BY <1>3, <1>4 DEF Hits, Overlap, PtrSize
  <2> QED BY <1>3, <2>1, FaultsPastMapping DEF PtrSize
<1>11. s = IF Placing(o, bytes) # "ok" THEN Placing(o, bytes) ELSE stored
  BY <1>9 DEF ArrayEnd, bytes
<1> HIDE DEF s, stored
<1>12. /\ s \in {"ok", "fault"} /\ (s = "fault" => StartAfter(o.n) > HeapSize)
       /\ s = "ok" => StartAfter(o.n) <= MapSize + MaxI32 + 3
  BY <1>3, <1>7, <1>8, <1>10, <1>11, SizesAssumption
<1>13. s = "ok" => heapStart' <= MapSize + MaxI32 + 4
  BY <1>1, <1>7, <1>12, SizesAssumption
<1>14. s = "fault" => heapStart' > HeapSize
  BY <1>1, <1>12
<1> QED
  BY <1>1, <1>2, <1>12, <1>13, <1>14 DEF LoadInv

(* An index item finds the array that was loaded before it.                 *)
LEMMA SetIndexLoads ==
  ASSUME TypeOK, Layout, NestInv, LoadInv, producer = "nested",
         NEW i \in Indexes, NEW off \in Offsets, SetIndex(i, off)
  PROVE  LoadInv'
<1>1. /\ status = "ok" /\ UNCHANGED <<build, producer, heapStart>>
      /\ NamesElement(off, i)
      /\ lastArray # NoArray => status' = status
  BY DEF SetIndex, Item, Turn, Hosted, Call, Sound
<1>2. lastArray # NoArray
  <2>1. PICK o \in Arrays : PointerAt(Dest(off)) = Payload(o) /\ pending = off
    BY <1>1 DEF NamesElement
  <2>2. pending # Nowhere
    BY <2>1, AddressTypes DEF Nowhere
  <2>3. [at |-> Dest(off), ptr |-> lastArray + ObjectHeader] \in slots
    BY <2>1, <2>2 DEF NestInv, PendingNamesLast
  <2>4. PointerAt(Dest(off)) = lastArray + ObjectHeader
    BY <2>3, PointerAtSlot DEF NestInv
  <2>5. o.at \in Nat /\ HeapBase + DataSize <= o.at
    BY <2>1, NestedLayout DEF Arrays
  <2>6. lastArray \in Nat
    BY DEF TypeOK
  <2> QED
    BY <2>1, <2>4, <2>5, <2>6, SizesAssumption DEF Payload, ObjectHeader, NoArray
<1> QED
  BY <1>1, <1>2 DEF LoadInv

(* A base that is restored was saved.                                       *)
LEMMA RestoreLoads ==
  ASSUME TypeOK, NestInv, LoadInv, producer = "nested", Restore
  PROVE  LoadInv'
<1>1. /\ status = "ok" /\ UNCHANGED <<build, producer, heapStart>> /\ path # <<>>
      /\ arrayStack # <<>> => status' = status
  BY DEF Restore, Item, Turn, Hosted, Call, Sound
<1>2. arrayStack # <<>>
  <2>1. Len(arrayStack) = Len(path) /\ path \in Seq(Nat \cup {VM_NULLPTR})
    BY DEF NestInv, BaseFollowsPath, BaseFollows, TypeOK
  <2> QED BY <1>1, <2>1, EmptySeq
<1> QED
  BY <1>1, <1>2 DEF LoadInv

(* Every step of such a file loads.                                         *)
LEMMA StepLoads ==
  TypeOK /\ Layout /\ NestInv /\ RegionInv /\ LoadInv /\ [Next]_vars => LoadInv'
<1> SUFFICES ASSUME TypeOK, Layout, NestInv, RegionInv, LoadInv, [Next]_vars,
                    producer = "nested"
             PROVE  LoadInv'
  BY StepKeeps DEF LoadInv
<1>1. CASE RejectItem
  BY <1>1 DEF RejectItem
<1>2. CASE EndItems \/ Probe
  <2>1. stage' # "items" /\ UNCHANGED heapStart /\ status = "ok"
    BY <1>2 DEF EndItems, Probe, heapVars
  <2> QED BY <2>1 DEF LoadInv
<1>3. CASE UNCHANGED vars
  BY <1>3 DEF vars, heapVars, auxVars, LoadInv
<1>4. CASE HostStep
  BY <1>4, HostStepDoes DEF HostCall, Hosted
<1> QED
  BY <1>1, <1>2, <1>3, <1>4, ReachAssumption, ScalarsLoad, StringLoads, ArrayLoads,
     SetIndexLoads, RestoreLoads DEF Next

(* Any file that walks its initialisers depth first is loaded to its last   *)
(* item, whatever its nesting and sizes: no check of load_data, write_data  *)
(* or restore rejects one, none damages an object, and only the end of the  *)
(* mapping, or in a debug build an address that does not suit its type,     *)
(* stops the loader.                                                        *)
THEOREM NestedFilesLoad == Spec => []NestedLoads
<1>1. Init => LoadInv
  <2> SUFFICES ASSUME Init, producer = "nested" PROVE LoadInv
    BY DEF LoadInv
  <2>1. MarksFit /\ slots = SetupPointers /\ map \in Maps /\ heapStart = DataSize
    BY DEF Init, Sound
  <2>2. ASSUME NEW w \in MarkedWords(map)
        PROVE  Mapped(HeapBase + PtrSize * w, PtrSize)
    <3>1. w \in Nat /\ PtrSize * w + PtrSize <= DataSize
      BY <2>1, MarkedNat DEF MarksFit
    <3> QED
      BY <3>1, SizesAssumption DEF Mapped, PtrSize
  <2>3. \A s \in slots : Mapped(s.at, PtrSize)
    BY <2>1, <2>2 DEF SetupPointers
  <2> QED
    BY <2>1, <2>3, SizesAssumption DEF Init, LoadInv
<1>2. LoadInv => NestedLoads
  BY DEF LoadInv, NestedLoads
<1>3. Init => NestInv /\ Layout
  BY InitNest, InitLayout
<1>4. TypeOK /\ Layout /\ [Next]_vars => Layout'
  BY StepLayout
<1>5. TypeOK /\ NestInv /\ [Next]_vars => NestInv'
  BY StepNest
<1>6. Init => RegionInv
  BY InitRegion
<1> QED
  BY <1>1, <1>2, <1>3, <1>4, <1>5, <1>6, StepRegion, StepLoads, TypeCorrect, PTL DEF Spec

=============================================================================
