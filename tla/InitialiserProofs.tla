-------------------------- MODULE InitialiserProofs -------------------------
(***************************************************************************)
(* The files of an encoder that walks its initialisers depth first, for    *)
(* every module such a file describes: the heap takes each item where the  *)
(* file says, and loads the file to its last item.                         *)
(***************************************************************************)
EXTENDS LoadedHeapProofs

(* Such a file fills the heap of a "nested" producer.                       *)
NestedBound == [who \in {"nested"} \X Builds |-> Huge]
HN == INSTANCE ModuleHeapProofs WITH
        DataSize <- Layout[1].size, Types <- DOMAIN TypeSize,
        Maps <- {DescMap(Layout[1])}, Producers <- {"nested"},
        Offsets <- Nat, Lengths <- Nat, Indexes <- Nat,
        MaxItems <- NestedBound, status <- heapStatus, producer <- "nested"

(* An open index item, as Opened tells it.                                  *)
Openings == [off : Nat, at : Nat, t : DOMAIN TypeSize, len : Nat]

(* Array o is of type t and has len elements.                               *)
IsArray(o, t, len) == o \in H!Arrays /\ o.t = t /\ o.len = len

(* An array has the size its type and length ask for.                       *)
Sized == \A o \in H!Arrays : /\ o.at \in Nat \ {0} /\ o.t \in DOMAIN TypeSize /\ o.len \in Nat
                             /\ o.n = H!ArrayHeader + TypeSize[o.t] * o.len

(* The heap is entered through the arrays that the file has open: path      *)
(* leads to arrays of their types and lengths, and the bases begin at their *)
(* indexes.                                                                 *)
Follow(p) ==
  /\ p \in Seq(Openings) /\ Len(path) = Len(p) /\ Len(arrayStack) = Len(p)
  /\ \A k \in 1 .. Len(p) :
       /\ H!Frames[k + 1].start = p[k].at
       /\ p[k].at = 0 \/ TypeSize[p[k].t] = 1
       /\ \E o : IsArray(o, p[k].t, p[k].len) /\ H!Payload(o) = path[k]

(* Right after an array item its array is the last, and where it is stored  *)
(* is a pointer to it.                                                      *)
Fresh(i) ==
  i.typ = 5 =>
    /\ pending = i.off
    /\ \E o : /\ IsArray(o, ParseWord(i.payload, 0), ParseWord(i.payload, 4))
              /\ o.at = lastArray /\ H!PointerAt(H!Dest(i.off)) = H!Payload(o)

(* The heap after n items.                                                  *)
Filled(n) ==
  /\ n \in 0 .. Len(mod.items)
  /\ heapStart = Used(mod.items)[n]
  /\ Sized /\ Follow(Opened(mod.items)[n + 1])
  /\ n > 0 => Fresh(mod.items[n])

(* What is so at every step of a file of initialisers.                      *)
FillsRightly ==
  /\ heapStart <= HeapSize
  /\ section \in Early => stage = "items" /\ items = 0
  /\ stage = "items" /\ heapStatus = "ok" => Filled(items)
  /\ stage = "items" /\ heapStatus = "ok" /\ At("data") => AtItem(items)
  /\ stage # "items" /\ At("data") => Has(offset, 1) /\ Byte(offset) = 0
  /\ heapStatus # "ok" => ~At("data") /\ section \notin Early

(* The recursive functions over the items of a file are what their          *)
(* definitions say.                                                         *)
LEMMA OpenedUnfold ==
  ASSUME NEW its, Len(its) \in Nat
  PROVE  /\ Opened(its)[1] = <<>>
         /\ \A k \in 1 .. Len(its) :
              Opened(its)[k + 1] =
                IF its[k].typ = 6
                THEN Append(Opened(its)[k],
                       [off |-> its[k].off, at |-> ParseWord(its[k].payload, 0),
                        t |-> ParseWord(its[k - 1].payload, 0),
                        len |-> ParseWord(its[k - 1].payload, 4)])
                ELSE IF its[k].typ = 7 THEN Front(Opened(its)[k])
                ELSE Opened(its)[k]
<1> DEFINE Turn(k, p) ==
             IF its[k].typ = 6
             THEN Append(p, [off |-> its[k].off, at |-> ParseWord(its[k].payload, 0),
                             t |-> ParseWord(its[k - 1].payload, 0),
                             len |-> ParseWord(its[k - 1].payload, 4)])
             ELSE IF its[k].typ = 7 THEN Front(p)
             ELSE p
           Step(f, m) == [k \in 1 .. m + 1 |-> IF k = 1 THEN <<>> ELSE Turn(k - 1, f[k - 1])]
           T == {m \in Nat : \E f : f = Step(f, m)}
<1>a. ASSUME NEW m \in Nat
      PROVE  m \in T <=> \E f : f = [k \in 1 .. m + 1 |->
                          IF k = 1 THEN <<>> ELSE Turn(k - 1, f[k - 1])]
  OBVIOUS
<1>b. Opened(its) = CHOOSE f : f = Step(f, Len(its))
  <2>1. \A k \in Int : (k - 1) - 1 = k - 2
    OBVIOUS
  <2>2. \A f : Step(f, Len(its)) = [k \in 1 .. Len(its) + 1 |->
            IF k = 1 THEN <<>>
            ELSE LET i == its[k - 1] IN
                 IF i.typ = 6 THEN Append(f[k - 1],
                      [off |-> i.off, at |-> ParseWord(i.payload, 0),
                       t |-> ParseWord(its[k - 2].payload, 0),
                       len |-> ParseWord(its[k - 2].payload, 4)])
                 ELSE IF i.typ = 7 THEN Front(f[k - 1])
                 ELSE f[k - 1]]
    BY <2>1
  <2> QED BY <2>2 DEF Opened
<1> HIDE DEF Turn
<1>1. 0 \in T
  <2> DEFINE f == [k \in 1 .. 1 |-> <<>>]
  <2>1. f = Step(f, 0)
    OBVIOUS
  <2> QED BY <2>1
<1>2. ASSUME NEW m \in Nat, m \in T PROVE m + 1 \in T
  <2>1. PICK f : f = Step(f, m)
    BY <1>2
  <2> DEFINE g == [k \in 1 .. m + 2 |-> IF k = 1 THEN <<>> ELSE Turn(k - 1, f[k - 1])]
  <2>2. \A k \in 1 .. m + 1 : g[k] = f[k]
    BY <2>1
  <2> HIDE DEF g
  <2>3. \A k \in 1 .. m + 2 : k # 1 => k - 1 \in 1 .. m + 1 /\ g[k - 1] = f[k - 1]
    BY <2>2
  <2>4. g = [k \in 1 .. m + 2 |-> IF k = 1 THEN <<>> ELSE Turn(k - 1, g[k - 1])]
    BY <2>3 DEF g
  <2>5. m + 2 = (m + 1) + 1 /\ m + 1 \in Nat
    OBVIOUS
  <2> QED BY <2>4, <2>5
<1>3. Len(its) \in T
  BY <1>1, <1>2, NatSetInduction
<1>4. \E f : f = Step(f, Len(its))
  BY <1>3
<1>5. Opened(its) = Step(Opened(its), Len(its))
  BY <1>4, <1>b
<1> DEFINE f == Opened(its)
           n == Len(its)
<1> HIDE DEF f, n
<1>6. n \in Nat /\ f = [k \in 1 .. n + 1 |-> IF k = 1 THEN <<>> ELSE Turn(k - 1, f[k - 1])]
  BY <1>5 DEF f, n
<1>7. f[1] = <<>> /\ \A k \in 1 .. n : f[k + 1] = Turn(k, f[k])
  <2>1. 1 \in 1 .. n + 1 /\ \A k \in 1 .. n : k + 1 \in 1 .. n + 1 /\ k + 1 # 1 /\ (k + 1) - 1 = k
    BY <1>6
  <2> QED BY <1>6, <2>1
<1> QED BY <1>7 DEF f, n, Turn

(* How far the heap is filled, item by item.                                *)
LEMMA UsedUnfold ==
  ASSUME NEW its, Len(its) \in Nat
  PROVE  /\ Used(its)[0] = Layout[1].size
         /\ \A k \in 1 .. Len(its) : Used(its)[k] = Used(its)[k - 1] + Space(its[k])
<1> DEFINE Turn(k, p) == p + Space(its[k])
           Step(f, m) == [k \in 0 .. m |-> IF k = 0 THEN Layout[1].size ELSE Turn(k, f[k - 1])]
           T == {m \in Nat : \E f : f = Step(f, m)}
<1>b. Used(its) = CHOOSE f : f = Step(f, Len(its))
  BY DEF Used
<1> HIDE DEF Turn
<1>1. 0 \in T
  <2> DEFINE f == [k \in 0 .. 0 |-> Layout[1].size]
  <2>1. f = Step(f, 0)
    OBVIOUS
  <2> QED BY <2>1
<1>2. ASSUME NEW m \in Nat, m \in T PROVE m + 1 \in T
  <2>1. PICK f : f = Step(f, m)
    BY <1>2
  <2> DEFINE g == [k \in 0 .. m + 1 |-> IF k = 0 THEN Layout[1].size ELSE Turn(k, f[k - 1])]
  <2>2. \A k \in 0 .. m : g[k] = f[k]
    BY <2>1
  <2> HIDE DEF g
  <2>3. \A k \in 0 .. m + 1 : k # 0 => k - 1 \in 0 .. m /\ g[k - 1] = f[k - 1]
    BY <2>2
  <2>4. g = [k \in 0 .. m + 1 |-> IF k = 0 THEN Layout[1].size ELSE Turn(k, g[k - 1])]
    BY <2>3 DEF g
  <2> QED BY <2>4
<1>3. Len(its) \in T
  BY <1>1, <1>2, NatSetInduction
<1>4. \E f : f = Step(f, Len(its))
  BY <1>3
<1>5. Used(its) = Step(Used(its), Len(its))
  BY <1>4, <1>b
<1> DEFINE f == Used(its)
           n == Len(its)
<1> HIDE DEF f, n
<1>6. n \in Nat /\ f = [k \in 0 .. n |-> IF k = 0 THEN Layout[1].size ELSE Turn(k, f[k - 1])]
  BY <1>5 DEF f, n
<1>7. f[0] = Layout[1].size /\ \A k \in 1 .. n : f[k] = Turn(k, f[k - 1])
  BY <1>6
<1> QED BY <1>7 DEF f, n, Turn

(* Such a file is one the parser follows to its end.                        *)
LEMMA InitialisersFollowed ==
  ASSUME Initialisers, TripInv
  PROVE  /\ Follows /\ Loads /\ Whole /\ mod \in Modules /\ IsModule(mod)
         /\ mod.items \in Seq(Items) /\ Len(mod.items) \in Nat
         /\ DOMAIN mod.items = 1 .. Len(mod.items)
<1>1. Loads /\ Whole /\ Handlerless /\ damage # "byte"
  BY DEF Initialisers, Loads, Whole
<1>2. Follows
  BY <1>1 DEF TripInv, Follows
<1>3. mod \in Modules /\ IsModule(mod)
  BY <1>2, FollowsFacts
<1> QED BY <1>1, <1>2, <1>3, ModuleTypes, LenProperties

(* What the heap is given is the next item of the module, as it was         *)
(* written, and the cursor moves to the one after it.                       *)
LEMMA ItemGiven ==
  ASSUME Initialisers, TripInv, LoadItem, NEW n \in Nat, AtItem(n)
  PROVE  LET i == mod.items[n + 1] IN
         /\ n + 1 \in 1 .. Len(mod.items) /\ i \in Items /\ ItemFits(i, mod.types)
         /\ i.off \in Nat
         /\ HeapItem(i.typ, i.count, i.off, i.payload) /\ Then(ReadItem)
         /\ Has(offset, 1) /\ ItemValid(Byte(offset), ItemOperands)
         /\ Reads(AfterItem(Byte(offset), ItemOperands), FromItem(mod, n + 1))
<1> DEFINE i == mod.items[n + 1]
           code == Byte(offset)
           o == ItemOperands
           good == Has(offset, 1) /\ ItemValid(code, o)
<1>1. /\ Follows /\ Loads /\ Whole /\ IsModule(mod) /\ mod.items \in Seq(Items)
      /\ Len(mod.items) \in Nat /\ DOMAIN mod.items = 1 .. Len(mod.items)
  BY InitialisersFollowed
<1>2. At("data") /\ (Has(offset, 1) => code # 0)
  BY DEF LoadItem
<1>3. n < Len(mod.items)
  <2>1. n \in 0 .. Len(mod.items)
    BY DEF AtItem
  <2>2. n = Len(mod.items) => Has(offset, 1) /\ code = 0
    BY <1>1, <1>2, NoItem
  <2> QED BY <1>1, <1>2, <2>1, <2>2
<1>4. n + 1 \in 1 .. Len(mod.items)
  BY <1>1, <1>3
<1>5. i \in Items /\ ItemFits(i, mod.types)
  BY <1>1, <1>2, <1>3, ItemFront
<1>6. /\ good /\ Reads(AfterItem(code, o), FromItem(mod, n + 1))
      /\ SubSeq(file, o.at + 1, AfterItem(code, o)) = i.payload
  BY <1>1, <1>2, <1>3, ItemRead
<1>7. /\ DataCount(code, o) = i.count /\ code \div 16 = i.typ
      /\ o.val = AllUnsigned(ItemNumbers(i), mod.wide)
  BY <1>1, <1>2, <1>3, ItemOperandsRead
<1>8. i.off \in Count
  <2>1. i.off >= 0
    BY <1>1, <1>4 DEF Initialisers, DepthFirst
  <2>2. i.off \in Number
    BY <1>5 DEF Items
  <2>3. Bits(4) \div 2 = 536870912
    BY SMT DEF Bits
  <2> DEFINE half == Bits(4) \div 2
  <2>4. half \in Int /\ i.off \in -half .. half - 1
    BY SMT, <2>2, <2>3 DEF Number
  <2> HIDE DEF half
  <2>5. i.off \in 0 .. half - 1
    BY <2>1, <2>4
  <2> QED BY <2>5 DEF Count, half
<1>9. ItemOffset(o) = i.off /\ i.off \in Nat
  <2> DEFINE vs == ItemNumbers(i)
  <2>1. mod.wide \in BOOLEAN
    BY <1>1, FollowsFacts
  <2>2. vs \in Seq(Number)
    BY <1>5, <2>1, ItemPiece
  <2>3. Len(vs) \in 1 .. 2 /\ vs[Len(vs)] = i.off
    BY DEF ItemNumbers
  <2> HIDE DEF vs, i
  <2>4. Len(AllUnsigned(vs, mod.wide)) = Len(vs)
        /\ AllUnsigned(vs, mod.wide)[Len(vs)] = Unsigned(vs[Len(vs)], mod.wide)
    <3>1. Len(vs) \in 1 .. Len(vs)
      BY <2>3
    <3> QED BY <2>1, <2>2, <3>1, UnsignedType
  <2>5. Unsigned(i.off, mod.wide) = i.off /\ ToUsize(i.off) = i.off /\ i.off \in Nat
    BY <1>8, <2>1, CountComesBack
  <2> QED BY <1>7, <2>3, <2>4, <2>5 DEF ItemOffset, vs, i
<1>10. HeapItem(i.typ, i.count, i.off, i.payload) /\ Then(ReadItem)
  <2>1. HeapItem(code \div 16, DataCount(code, o), ItemOffset(o),
                 SubSeq(file, o.at + 1, AfterItem(code, o)))
        /\ Then(ReadItem)
    BY <1>6 DEF LoadItem
  <2> QED BY <1>6, <1>7, <1>9, <2>1
<1> QED BY <1>4, <1>5, <1>6, <1>9, <1>10

(* An item the heap of such a file is given is an item of the producer.     *)
LEMMA NestedTurn ==
  ASSUME H!TypeOK, stage = "items", H!Item \/ H!Turn
  PROVE  HN!Turn
<1>1. producer = "any" /\ build \in Builds
  BY DEF H!TypeOK
<1>2. H!Turn
  BY DEF H!Item, H!Hosted
<1>3. ItemBound[producer, build] = Huge /\ NestedBound["nested", build] = Huge
  <2>1. <<producer, build>> \in {"any"} \X Builds /\ <<"nested", build>> \in {"nested"} \X Builds
    BY <1>1
  <2> QED BY <2>1, Zenon DEF ItemBound, NestedBound
<1> QED BY <1>2, <1>3 DEF H!Turn, H!Call, HN!Turn, HN!Call

(* What the two heaps have in common.                                       *)
LEMMA NestedLayout ==
  /\ HN!FreePtr = H!FreePtr
  /\ \A f : HN!Dest(f) = H!Dest(f)
  /\ \A a, n : HN!StringObject(a, n) = H!StringObject(a, n)
  /\ \A a, t, n : HN!ArrayObject(a, t, n) = H!ArrayObject(a, t, n)
  /\ \A x : HN!Carries(x) <=> H!Carries(x)
  /\ \A x : HN!StartAfter(x) = H!StartAfter(x)
  /\ \A t, n : HN!Overflows(t, n) <=> H!Overflows(t, n)
  /\ \A o : HN!HeadEnd(o) = H!HeadEnd(o) /\ HN!EndOf(o) = H!EndOf(o) /\ HN!Payload(o) = H!Payload(o)
<1>1. /\ HN!FreePtr = H!FreePtr
      /\ \A f : HN!Dest(f) = H!Dest(f)
      /\ \A x : HN!Carries(x) <=> H!Carries(x)
      /\ \A x : HN!StartAfter(x) = H!StartAfter(x)
  BY DEF H!ObjectHeader, HN!ObjectHeader, H!Align4, HN!Align4, H!FreePtr, HN!FreePtr,
         H!Carries, HN!Carries, H!StartAfter, HN!StartAfter, H!Dest, HN!Dest
<1>2. /\ \A a, n : HN!StringObject(a, n) = H!StringObject(a, n)
      /\ \A a, t, n : HN!ArrayObject(a, t, n) = H!ArrayObject(a, t, n)
      /\ \A t, n : HN!Overflows(t, n) <=> H!Overflows(t, n)
  BY DEF H!ObjectHeader, HN!ObjectHeader, H!StringHeader, HN!StringHeader, H!ArrayHeader,
         HN!ArrayHeader, H!Nowhere, HN!Nowhere, H!Word, HN!Word, H!IsI32, HN!IsI32, H!I32, HN!I32,
         H!AsUsize, HN!AsUsize, H!StringObject, HN!StringObject, H!ArrayObject, HN!ArrayObject,
         H!Align4, HN!Align4, H!FreePtr, HN!FreePtr, H!Carries, HN!Carries, H!Overflows, HN!Overflows,
         H!MapByte, HN!MapByte
<1>3. \A o : HN!HeadEnd(o) = H!HeadEnd(o) /\ HN!EndOf(o) = H!EndOf(o) /\ HN!Payload(o) = H!Payload(o)
  BY DEF H!ObjectHeader, HN!ObjectHeader, H!ArrayHeader, HN!ArrayHeader, H!Payload, HN!Payload,
         H!Elements, HN!Elements, H!EndOf, HN!EndOf, H!HeadEnd, HN!HeadEnd
<1> QED BY <1>1, <1>2, <1>3

(* ... and the stores they make.                                            *)
LEMMA NestedStores ==
  /\ \A s, u : HN!Ends(s, u) = H!Ends(s, u)
  /\ \A ss, a, w : HN!Erase(ss, a, w) = H!Erase(ss, a, w)
  /\ \A ss, a, p : HN!StorePtr(ss, a, p) = H!StorePtr(ss, a, p)
  /\ \A a : HN!PointerAt(a) = H!PointerAt(a)
  /\ \A a, w, objs : HN!Outcome(a, w, objs) = H!Outcome(a, w, objs)
  /\ \A f, s : HN!InBounds(f, s) <=> H!InBounds(f, s)
  /\ \A o, f : HN!StringEnd(o, f) = H!StringEnd(o, f)
  /\ \A o, f : HN!ArrayEnd(o, f) = H!ArrayEnd(o, f)
<1>1. /\ \A s, u : HN!Ends(s, u) = H!Ends(s, u)
      /\ \A ss, a, w : HN!Erase(ss, a, w) = H!Erase(ss, a, w)
      /\ \A ss, a, p : HN!StorePtr(ss, a, p) = H!StorePtr(ss, a, p)
      /\ \A a : HN!PointerAt(a) = H!PointerAt(a)
  BY DEF H!PtrSize, HN!PtrSize, H!VM_NULLPTR, HN!VM_NULLPTR, H!Overlap, HN!Overlap, H!Ends,
         HN!Ends, H!Erase, HN!Erase, H!StorePtr, HN!StorePtr, H!PointerAt, HN!PointerAt
<1>2. /\ \A a, w, objs : HN!Outcome(a, w, objs) = H!Outcome(a, w, objs)
      /\ \A f, s : HN!InBounds(f, s) <=> H!InBounds(f, s)
  BY DEF H!ObjectHeader, HN!ObjectHeader, H!ArrayHeader, HN!ArrayHeader, H!Word, HN!Word,
         H!Payload, HN!Payload, H!Elements, HN!Elements, H!EndOf, HN!EndOf, H!HeadEnd, HN!HeadEnd,
         H!Dest, HN!Dest, H!Limit, HN!Limit, H!InBounds, HN!InBounds, H!Overlap, HN!Overlap, H!Mapped,
         HN!Mapped, H!Hits, HN!Hits, H!Outcome, HN!Outcome, H!MapByte, HN!MapByte
<1>3. \A o, f : HN!StringEnd(o, f) = H!StringEnd(o, f)
  BY DEF H!ObjectHeader, HN!ObjectHeader, H!ArrayHeader, HN!ArrayHeader, H!PtrSize, HN!PtrSize,
         H!Word, HN!Word, H!Payload, HN!Payload, H!Elements, HN!Elements, H!EndOf, HN!EndOf,
         H!HeadEnd, HN!HeadEnd, H!Align4, HN!Align4, H!Carries, HN!Carries, H!Dest, HN!Dest, H!Limit,
         HN!Limit, H!InBounds, HN!InBounds, H!Overlap, HN!Overlap, H!Mapped, HN!Mapped, H!Hits,
         HN!Hits, H!Outcome, HN!Outcome, H!Placing, HN!Placing, H!StringEnd, HN!StringEnd, H!MapByte,
         HN!MapByte
<1>4. \A o, f : HN!ArrayEnd(o, f) = H!ArrayEnd(o, f)
  BY DEF H!ObjectHeader, HN!ObjectHeader, H!ArrayHeader, HN!ArrayHeader, H!PtrSize, HN!PtrSize,
         H!Word, HN!Word, H!Payload, HN!Payload, H!Elements, HN!Elements, H!EndOf, HN!EndOf,
         H!HeadEnd, HN!HeadEnd, H!Align4, HN!Align4, H!Carries, HN!Carries, H!StartAfter,
         HN!StartAfter, H!Dest, HN!Dest, H!Limit, HN!Limit, H!InBounds, HN!InBounds, H!Overlap,
         HN!Overlap, H!Mapped, HN!Mapped, H!Hits, HN!Hits, H!Outcome, HN!Outcome, H!Placing,
         HN!Placing, H!ArrayEnd, HN!ArrayEnd, H!MapByte, HN!MapByte
<1> QED BY <1>1, <1>2, <1>3, <1>4

(* Calls that keep the producer's word.                                     *)
LEMMA NestedScalars ==
  ASSUME H!TypeOK, stage = "items", NEW w, NEW count, NEW off, H!LoadScalars(w, count, off),
         HN!Emits(off, w * count)
  PROVE  HN!LoadScalars(w, count, off)
<1>1. HN!Item
  BY NestedTurn DEF H!LoadScalars, HN!Item
<1> QED BY <1>1, NestedLayout, NestedStores DEF H!LoadScalars, HN!LoadScalars, H!Nowhere, HN!Nowhere

(* ... a string;                                                            *)
LEMMA NestedString ==
  ASSUME H!TypeOK, stage = "items", NEW len, NEW off, H!LoadString(len, off),
         HN!Emits(off, HN!PtrSize), HN!EmitsString(len)
  PROVE  HN!LoadString(len, off)
<1>1. HN!Item
  BY NestedTurn DEF H!LoadString, HN!Item
<1> QED
  BY <1>1, NestedLayout, NestedStores
  DEF H!LoadString, HN!LoadString, H!Nowhere, HN!Nowhere, H!Stores, HN!Stores, H!ObjectAlign,
      HN!ObjectAlign, H!PtrSize, HN!PtrSize

(* ... an array;                                                            *)
LEMMA NestedArray ==
  ASSUME H!TypeOK, stage = "items", NEW t, NEW len, NEW off, H!LoadArray(t, len, off),
         HN!Emits(off, HN!PtrSize), HN!EmitsArray(t, len)
  PROVE  HN!LoadArray(t, len, off)
<1>1. HN!Turn
  BY NestedTurn DEF H!LoadArray
<1> QED
  BY <1>1, NestedLayout, NestedStores
  DEF H!LoadArray, HN!LoadArray, H!Nowhere, HN!Nowhere, H!Stores, HN!Stores, H!ObjectAlign,
      HN!ObjectAlign, H!PtrSize, HN!PtrSize, H!CountArray, HN!CountArray

(* ... an index;                                                            *)
LEMMA NestedIndex ==
  ASSUME H!TypeOK, stage = "items", NEW i, NEW off, H!SetIndex(i, off), HN!NamesElement(off, i)
  PROVE  HN!SetIndex(i, off)
<1>1. HN!Item
  BY NestedTurn DEF H!SetIndex, HN!Item
<1> QED
  BY <1>1, NestedLayout, NestedStores
  DEF H!SetIndex, HN!SetIndex, H!Nowhere, HN!Nowhere, H!NoArray, HN!NoArray, H!ArrayBase,
      HN!ArrayBase, H!ObjectHeader, HN!ObjectHeader, H!ArrayHeader, HN!ArrayHeader

(* ... a restore.                                                           *)
LEMMA NestedRestore ==
  ASSUME H!TypeOK, stage = "items", H!Restore, path # <<>>
  PROVE  HN!Restore
<1>1. HN!Item
  BY NestedTurn DEF H!Restore, HN!Item
<1> QED BY <1>1 DEF H!Restore, HN!Restore, H!Nowhere, HN!Nowhere

(* The end of the section, and the probe.                                   *)
LEMMA NestedEnd ==
  /\ H!EndItems /\ path = <<>> => HN!EndItems
  /\ H!Probe => HN!Probe
<1>1. H!EndItems /\ path = <<>> => HN!EndItems
  BY DEF H!heapVars, HN!heapVars, H!auxVars, HN!auxVars, H!EndItems, HN!EndItems
<1>2. H!Probe => HN!Probe
  BY DEF H!ObjectHeader, HN!ObjectHeader, H!ArrayHeader, HN!ArrayHeader, H!PtrSize, HN!PtrSize,
         H!VM_NULLPTR, HN!VM_NULLPTR, H!heapVars, HN!heapVars, H!auxVars, HN!auxVars, H!Payload,
         HN!Payload, H!Mapped, HN!Mapped, H!PointerAt, HN!PointerAt, H!ReadElements, HN!ReadElements,
         H!Probe, HN!Probe
<1> QED BY <1>1, <1>2

(* The heap as it begins.                                                   *)
LEMMA NestedInit == H!Init /\ H!MarksFit => HN!Init
<1>1. H!MarksFit => HN!MarksFit
  BY DEF H!PtrSize, HN!PtrSize, H!MarksFit, HN!MarksFit, H!MarkedWords, HN!MarkedWords
<1>2. HN!SetupPointers = H!SetupPointers /\ \A a, w : HN!Mapped(a, w) <=> H!Mapped(a, w)
  BY DEF H!PtrSize, HN!PtrSize, H!VM_NULLPTR, HN!VM_NULLPTR, H!Mapped, HN!Mapped,
         H!SetupPointers, HN!SetupPointers, H!MarkedWords, HN!MarkedWords
<1> QED BY <1>1, <1>2 DEF H!Init, HN!Init, H!ModuleBase, HN!ModuleBase, H!Nowhere, HN!Nowhere,
              H!NoArray, HN!NoArray, H!PtrSize, HN!PtrSize

(* What is asked of item i, behind the first n, between the paths p and q.  *)
Asked(n, i, p, q) ==
  /\ i \in Items /\ ItemFits(i, Layout)
  /\ i.typ = 6 =>
       LET a == mod.items[n] IN
       /\ n \in 1 .. Len(mod.items) /\ a \in Items /\ ItemFits(a, Layout)
       /\ a.typ = 5 /\ a.off = i.off
       /\ ParseWord(i.payload, 0) < ParseWord(a.payload, 4)
       /\ ParseWord(i.payload, 0) = 0 \/ TypeSize[ParseWord(a.payload, 0)] = 1
       /\ q = Append(p, [off |-> i.off, at |-> ParseWord(i.payload, 0),
                         t |-> ParseWord(a.payload, 0), len |-> ParseWord(a.payload, 4)])
  /\ i.typ = 7 => p # <<>> /\ q = Front(p)
  /\ i.typ \notin {6, 7} => Extent(i) > 0 /\ q = p
  /\ i.off + Extent(i) <= IF p = <<>> THEN Layout[1].size
                          ELSE TypeSize[Last(p).t] * Last(p).len - Last(p).at
  /\ Used(mod.items)[n + 1] = Used(mod.items)[n] + Space(i)
  /\ Used(mod.items)[n] <= HeapSize /\ Used(mod.items)[n + 1] <= HeapSize

(* Each item of a file of initialisers is what DepthFirst and RoomFor ask.  *)
LEMMA NextItem ==
  ASSUME Initialisers, TripInv, NEW n \in Nat, n + 1 \in 1 .. Len(mod.items),
         NEW i, i = mod.items[n + 1],
         NEW p, p = Opened(mod.items)[n + 1], NEW q, q = Opened(mod.items)[n + 2]
  PROVE  Asked(n, i, p, q)
<1> DEFINE its == mod.items
<1>1. /\ its \in Seq(Items) /\ Len(its) \in Nat /\ DOMAIN its = 1 .. Len(its)
      /\ IsModule(mod) /\ mod \in Modules
  BY InitialisersFollowed
<1>2. mod.types = Layout
  BY <1>1, LayoutFacts
<1>3. \A k \in 1 .. Len(its) : its[k] \in Items /\ ItemFits(its[k], Layout)
  BY <1>1, <1>2, ElementOfSeq DEF IsModule
<1>4. n + 1 \in 1 .. Len(its) /\ n + 1 \in DOMAIN its /\ (n + 1) + 1 = n + 2 /\ (n + 1) - 1 = n
  BY <1>1
<1>5. DepthFirst(its) /\ RoomFor(its)
  BY DEF Initialisers
<1>6. /\ i.typ = 6 =>
           /\ n + 1 > 1 /\ its[n].typ = 5 /\ its[n].off = i.off
           /\ ParseWord(i.payload, 0) < ParseWord(its[n].payload, 4)
           /\ ParseWord(i.payload, 0) = 0 \/ TypeSize[ParseWord(its[n].payload, 0)] = 1
      /\ i.typ = 7 => p # <<>>
      /\ i.typ \in {6, 7} \/ Extent(i) > 0
      /\ i.off + Extent(i) <= IF p = <<>> THEN Layout[1].size
                              ELSE TypeSize[Last(p).t] * Last(p).len - Last(p).at
  BY <1>4, <1>5 DEF DepthFirst
<1>7. i.typ = 6 => n \in 1 .. Len(its)
  BY <1>1, <1>4, <1>6
<1>8. q = IF i.typ = 6
          THEN Append(p, [off |-> i.off, at |-> ParseWord(i.payload, 0),
                          t |-> ParseWord(its[n].payload, 0),
                          len |-> ParseWord(its[n].payload, 4)])
          ELSE IF i.typ = 7 THEN Front(p)
          ELSE p
  <2>1. \A k \in 1 .. Len(its) :
          Opened(its)[k + 1] =
            IF its[k].typ = 6
            THEN Append(Opened(its)[k],
                   [off |-> its[k].off, at |-> ParseWord(its[k].payload, 0),
                    t |-> ParseWord(its[k - 1].payload, 0),
                    len |-> ParseWord(its[k - 1].payload, 4)])
            ELSE IF its[k].typ = 7 THEN Front(Opened(its)[k])
            ELSE Opened(its)[k]
    BY <1>1, OpenedUnfold, Zenon
  <2> HIDE DEF its
  <2>2. PICK k \in 1 .. Len(its) : k = n + 1
    BY <1>4
  <2>3. k + 1 = n + 2 /\ k - 1 = n
    BY <1>4, <2>2
  <2>4. i = its[k] /\ p = Opened(its)[k] /\ q = Opened(its)[k + 1] /\ its[k - 1] = its[n]
    BY <2>2, <2>3 DEF its
  <2> QED BY <2>1, <2>4, Zenon
<1>9. /\ Used(its)[n + 1] = Used(its)[n] + Space(i)
      /\ Used(its)[n] <= HeapSize /\ Used(its)[n + 1] <= HeapSize
  <2>1. n \in 0 .. Len(its) /\ n + 1 \in 0 .. Len(its)
    BY <1>1, <1>4
  <2> QED BY <1>1, <1>4, <1>5, <2>1, UsedUnfold DEF RoomFor
<1>10. i \in Items /\ ItemFits(i, Layout)
  BY <1>3, <1>4
<1>11. i.typ = 6 =>
         LET a == its[n] IN
         /\ n \in 1 .. Len(its) /\ a \in Items /\ ItemFits(a, Layout)
         /\ a.typ = 5 /\ a.off = i.off
         /\ ParseWord(i.payload, 0) < ParseWord(a.payload, 4)
         /\ ParseWord(i.payload, 0) = 0 \/ TypeSize[ParseWord(a.payload, 0)] = 1
         /\ q = Append(p, [off |-> i.off, at |-> ParseWord(i.payload, 0),
                           t |-> ParseWord(a.payload, 0), len |-> ParseWord(a.payload, 4)])
  <2> HIDE DEF its
  <2> HAVE i.typ = 6
  <2>1. n \in 1 .. Len(its) /\ its[n] \in Items /\ ItemFits(its[n], Layout)
    BY <1>3, <1>7
  <2> QED BY <1>6, <1>8, <2>1, Zenon
<1>12. i.typ = 7 => p # <<>> /\ q = Front(p)
  <2>1. i.typ = 7 => ~(i.typ = 6)
    OBVIOUS
  <2> QED BY <1>6, <1>8, <2>1, Zenon
<1>13. i.typ \notin {6, 7} => Extent(i) > 0 /\ q = p
  BY <1>6, <1>8, Zenon
<1> QED BY <1>6, <1>9, <1>10, <1>11, <1>12, <1>13, Zenon DEF Asked

(* The layout's numbers.                                                    *)
LEMMA LayoutNumbers ==
  ASSUME mod \in Modules
  PROVE  /\ \A t \in DOMAIN TypeSize : TypeSize[t] \in Nat /\ t \in Nat
         /\ DOMAIN TypeSize = 0 .. Len(Layout) - 1 /\ Len(Layout) \in Nat
         /\ Layout[1].size \in Nat /\ HeapSize \in Nat /\ MaxI32 \in Nat /\ HeapBase \in Nat \ {0}
         /\ MapSize \in Nat /\ USize \in Nat /\ HeapSize < MaxI32 /\ MaxI32 < USize
<1>1. /\ Layout[1].size \in Nat /\ DOMAIN TypeSize = 0 .. Len(Layout) - 1
      /\ Len(Layout) \in Nat \ {0} /\ \A t \in DOMAIN TypeSize : TypeSize[t] \in Int
      /\ Layout \in Seq(Types)
  BY LayoutFacts
<1>2. \A t \in DOMAIN TypeSize : TypeSize[t] \in Nat
  <2> TAKE t \in DOMAIN TypeSize
  <2>1. t + 1 \in 1 .. Len(Layout) /\ DOMAIN Layout = 1 .. Len(Layout)
    BY <1>1, LenProperties
  <2>2. Layout[t + 1] \in ToSet(Layout)
    BY <2>1 DEF ToSet
  <2>3. TypeSize[t] = Layout[t + 1].size
    BY <1>1 DEF TypeSize
  <2> QED BY <1>1, <2>2, <2>3, LayoutAssumption
<1>3. H!Word = 2 * (MaxI32 + 1)
  BY DEF H!Word
<1> QED BY <1>1, <1>2, <1>3, HeapAssumption

(* What the item behind the first n stores lies where it is addressed.      *)
LEMMA ItemIsEmitted ==
  ASSUME H!TypeOK, Initialisers, TripInv, NEW n \in Nat, n + 1 \in 1 .. Len(mod.items), Filled(n),
         NEW i, i = mod.items[n + 1], i.typ \notin {6, 7}, i.off \in Nat, Extent(i) \in Nat
  PROVE  HN!Emits(i.off, Extent(i))
<1> DEFINE p == Opened(mod.items)[n + 1]
           q == Opened(mod.items)[n + 2]
           w == Extent(i)
<1>1. /\ w > 0
      /\ i.off + w <= IF p = <<>> THEN Layout[1].size
                      ELSE TypeSize[Last(p).t] * Last(p).len - Last(p).at
  <2>1. Asked(n, i, p, q)
    BY NextItem
  <2> QED BY <2>1 DEF Asked
<1>2. Follow(p) /\ Sized /\ mod \in Modules
  BY InitialisersFollowed DEF Filled
<1> HIDE DEF p, w
<1>3. p \in Seq(Openings) /\ Len(path) = Len(p) /\ Len(arrayStack) = Len(p) /\ Len(p) \in Nat
  BY <1>2, LenProperties DEF Follow
<1>4. arrayStack \in Seq(H!Bases) /\ base \in H!Bases /\ path \in Seq(Nat \cup {H!VM_NULLPTR})
  BY DEF H!TypeOK
<1>5. CASE p = <<>>
  <2>1. path = <<>>
    BY <1>3, <1>4, <1>5, EmptySeq
  <2> QED BY <1>1, <1>5, <2>1 DEF HN!Emits, HN!Fits, w
<1>6. CASE p # <<>>
  <2> DEFINE k == Len(p)
  <2>1. k \in 1 .. Len(p) /\ path # <<>>
    BY <1>3, <1>4, <1>6, EmptySeq
  <2>2. p[k] \in Openings /\ Last(p) = p[k]
    BY <1>3, <2>1, ElementOfSeq DEF Last
  <2>3. /\ H!Frames[k + 1].start = p[k].at
        /\ p[k].at = 0 \/ TypeSize[p[k].t] = 1
    BY <1>2, <2>1 DEF Follow
  <2>4. PICK o : IsArray(o, p[k].t, p[k].len) /\ H!Payload(o) = path[k]
    BY <1>2, <2>1 DEF Follow
  <2>5. H!Frames[k + 1] = base
    BY <1>3, <1>4, AppendProperties DEF H!Frames
  <2>6. o \in H!Arrays /\ o.t = p[k].t /\ o.len = p[k].len /\ o.n = H!ArrayHeader + TypeSize[o.t] * o.len
    BY <1>2, <2>4 DEF IsArray, Sized
  <2>7. TypeSize[o.t] \in Nat /\ o.len \in Nat /\ p[k].at \in Nat
    BY <1>2, <2>2, <2>6, LayoutNumbers DEF Openings
  <2> DEFINE size == TypeSize[o.t]
             room == size * o.len
             at == p[k].at
             b == base.start
  <2>8. b = at /\ (at = 0 \/ size = 1)
    BY <2>3, <2>5, <2>6
  <2>9. i.off + w <= room - at
    BY <1>1, <1>6, <2>2, <2>6
  <2>10. room \in Nat
    BY <2>7
  <2> HIDE DEF size, room, at, b
  <2>11. b * size <= at
    <3>1. at \in Nat /\ size \in Nat
      BY <2>7 DEF at, size
    <3>2. CASE at = 0
      BY <2>8, <3>1, <3>2
    <3>3. CASE size = 1
      BY <2>8, <3>1, <3>3
    <3> QED BY <2>8, <3>2, <3>3
  <2>12. b * size \in Nat /\ at \in Nat
    BY <2>7, <2>8 DEF at, size
  <2> DEFINE bs == b * size
  <2> HIDE DEF bs
  <2>13. bs + i.off + w <= room
    BY <2>9, <2>10, <2>11, <2>12 DEF bs, w
  <2>14. o.n - H!ArrayHeader = room
    BY <2>6, <2>10 DEF room, size, H!ArrayHeader
  <2>15. path[Len(path)] = HN!Payload(o) /\ o \in HN!Arrays
    BY <1>3, <2>4, <2>6, NestedLayout DEF H!Arrays, HN!Arrays
  <2>16. HN!Fits(i.off, w)
    BY <2>1, <2>13, <2>14, <2>15 DEF HN!Fits, bs, b, size, H!ArrayHeader, HN!ArrayHeader
  <2> QED BY <1>1, <2>16 DEF HN!Emits, w
<1> QED BY <1>5, <1>6


-----------------------------------------------------------------------------
(* Item by item.                                                            *)

(* What an item of such a file leaves.                                      *)
Passes(n) == heapStart' <= HeapSize /\ (heapStatus' = "ok" => Filled(n)')

(* The paths are kept as long as no array and no base goes.                 *)
LEMMA FollowStays ==
  ASSUME NEW p, Follow(p), UNCHANGED <<path, arrayStack, base>>, H!Arrays \subseteq H!Arrays'
  PROVE  Follow(p)'
<1>1. H!Frames' = H!Frames
  BY DEF H!Frames
<1>2. \A k \in 1 .. Len(p) : (\E o : IsArray(o, p[k].t, p[k].len) /\ H!Payload(o) = path[k])'
  <2> TAKE k \in 1 .. Len(p)
  <2>1. PICK o : IsArray(o, p[k].t, p[k].len) /\ H!Payload(o) = path[k]
    BY DEF Follow
  <2> QED BY <2>1 DEF IsArray, H!Payload
<1> QED BY <1>1, <1>2 DEF Follow

(* What makes up the heap after an item.                                    *)
LEMMA FilledThen ==
  ASSUME NEW n \in Nat, n + 1 \in 1 .. Len(mod.items), mod' = mod,
         NEW i, i = mod.items[n + 1], NEW q, q = Opened(mod.items)[n + 2],
         heapStart' = Used(mod.items)[n + 1], Sized', Follow(q)', Fresh(i)'
  PROVE  Filled(n + 1)'
<1>1. n + 1 \in 0 .. Len(mod.items) /\ (n + 1) + 1 = n + 2
  OBVIOUS
<1> QED BY <1>1 DEF Filled, Follow, Fresh

(* Numbers.                                                                 *)
LEMMA NumbersFill ==
  ASSUME H!TypeOK, stage = "items", Initialisers, TripInv, mod' = mod,
         NEW n \in Nat, n + 1 \in 1 .. Len(mod.items), Filled(n),
         NEW i, i = mod.items[n + 1], i.off \in Nat,
         NEW p, p = Opened(mod.items)[n + 1], NEW q, q = Opened(mod.items)[n + 2],
         i.typ \in DOMAIN ScalarWidth, H!LoadScalars(ScalarWidth[i.typ], i.count, i.off)
  PROVE  HN!LoadScalars(ScalarWidth[i.typ], i.count, i.off) /\ Passes(n + 1)
<1> DEFINE its == mod.items
           w == ScalarWidth[i.typ]
<1>1. i.typ \in {1, 2, 4, 8}
  BY WidthOf
<1>2. /\ i \in Items /\ ItemFits(i, Layout) /\ q = p
      /\ Used(its)[n + 1] = Used(its)[n] + Space(i) /\ Used(its)[n + 1] <= HeapSize
  <2>1. Asked(n, i, p, q)
    BY NextItem
  <2>2. i.typ \notin {6, 7}
    BY <1>1
  <2> HIDE DEF w
  <2> QED BY <2>1, <2>2, Zenon DEF Asked
<1>3. i.count \in Nat /\ Extent(i) = w * i.count /\ w * i.count \in Nat
  <2>1. i.count \in Nat
    BY <1>2 DEF Items, Count
  <2>2. Extent(i) = Len(i.payload)
    BY <1>1 DEF Extent
  <2>3. w \in {1, 4, 8} /\ ItemBytes(i.typ, i.count) = w * i.count
    BY <2>1, NumberBytes
  <2> QED BY <1>2, <2>1, <2>2, <2>3 DEF ItemFits
<1>4. HN!Emits(i.off, w * i.count)
  BY <1>1, <1>3, ItemIsEmitted
<1>5. HN!LoadScalars(w, i.count, i.off)
  BY <1>4, NestedScalars
<1>6. UNCHANGED <<heapStart, base, arrayStack, objects, path>>
  BY DEF H!LoadScalars
<1>7. heapStart = Used(its)[n] /\ Sized /\ Follow(p)
  BY DEF Filled
<1>8. H!Arrays' = H!Arrays
  BY <1>6 DEF H!Arrays
<1>9. Sized' /\ Follow(q)'
  <2>1. Follow(p)'
    BY <1>6, <1>7, <1>8, FollowStays
  <2> QED BY <1>2, <1>7, <1>8, <2>1 DEF Sized
<1>10. heapStart' = Used(its)[n + 1]
  <2>1. Space(i) = 0
    <3>1. i.typ # 3 /\ i.typ # 5
      BY <1>1
    <3> QED BY <3>1, Zenon DEF Space
  <2>2. heapStart \in Nat
    BY DEF H!TypeOK
  <2> HIDE DEF its, w
  <2> QED BY <1>2, <1>6, <1>7, <2>1, <2>2
<1>11. Filled(n + 1)'
  <2>1. Fresh(i)'
    BY <1>1 DEF Fresh
  <2> QED BY <1>9, <1>10, <2>1, FilledThen
<1> QED BY <1>2, <1>5, <1>10, <1>11 DEF Passes

(* A new object of n bytes is no larger than the space an item takes.       *)
LEMMA SpaceTaken ==
  ASSUME H!TypeOK, mod \in Modules, NEW size \in Nat, NEW end, end <= HeapSize, NEW used,
         heapStart = used, end = used + H!Align4(H!ObjectHeader + size)
  PROVE  /\ ~H!Carries(size) /\ H!StartAfter(size) = end /\ size <= HeapSize
<1> DEFINE s == H!ObjectHeader + size
           a == H!Align4(s)
<1>1. s \in Nat /\ s >= size
  BY DEF H!ObjectHeader
<1>2. a \in Nat /\ a >= s
  <2> HIDE DEF s
  <2> QED BY <1>1, SMT DEF H!Align4
<1>3. heapStart \in Nat /\ HeapSize \in Nat /\ USize \in Nat /\ HeapSize < USize
  <2>1. heapStart \in Nat
    BY DEF H!TypeOK
  <2>2. HeapSize \in Nat /\ MaxI32 \in Nat /\ USize \in Nat /\ HeapSize < MaxI32 /\ MaxI32 < USize
    BY LayoutNumbers
  <2> QED BY <2>1, <2>2
<1>4. end = heapStart + a
  OBVIOUS
<1> HIDE DEF a, s
<1>5. ~(heapStart + a >= USize) /\ size <= HeapSize
  BY <1>1, <1>2, <1>3, <1>4
<1>6. H!Carries(size) <=> heapStart + a >= USize
  BY DEF H!Carries, a, s
<1>7. H!StartAfter(size) = heapStart + a - (IF H!Carries(size) THEN USize ELSE 0)
  BY DEF H!StartAfter, a, s
<1> QED BY <1>2, <1>3, <1>4, <1>5, <1>6, <1>7

(* Strings.                                                                 *)
LEMMA StringFills ==
  ASSUME H!TypeOK, stage = "items", Initialisers, TripInv, mod' = mod,
         NEW n \in Nat, n + 1 \in 1 .. Len(mod.items), Filled(n),
         NEW i, i = mod.items[n + 1], i.off \in Nat, i.typ = 3,
         NEW p, p = Opened(mod.items)[n + 1], NEW q, q = Opened(mod.items)[n + 2],
         H!LoadString(Len(Lossy(i.payload)), i.off)
  PROVE  HN!LoadString(Len(Lossy(i.payload)), i.off) /\ Passes(n + 1)
<1> DEFINE its == mod.items
           len == Len(Lossy(i.payload))
           o == H!StringObject(H!FreePtr, len)
<1>1. /\ i \in Items /\ q = p
      /\ Used(its)[n + 1] = Used(its)[n] + Space(i) /\ Used(its)[n + 1] <= HeapSize
  <2>1. Asked(n, i, p, q)
    BY NextItem
  <2> QED BY <2>1 DEF Asked
<1>2. len \in Nat
  <2>1. i.payload \in Octets
    BY <1>1 DEF Items
  <2> QED BY <2>1, LossyType
<1>3. Extent(i) = HN!PtrSize /\ Extent(i) \in Nat
  BY DEF Extent, H!PtrSize, HN!PtrSize
<1>4. HN!Emits(i.off, HN!PtrSize)
  BY <1>3, ItemIsEmitted
<1>5. heapStart = Used(its)[n] /\ Sized /\ Follow(p) /\ mod \in Modules
  BY InitialisersFollowed DEF Filled
<1>6. /\ ~H!Carries(o.n) /\ H!StartAfter(o.n) = Used(its)[n + 1]
      /\ o.typ = "Tstring"
  <2>1. o.n = H!StringHeader + len /\ o.n \in Nat /\ o.typ = "Tstring"
    BY <1>2 DEF H!StringObject, H!StringHeader
  <2>2. Space(i) = H!Align4(H!ObjectHeader + o.n)
    <3>1. H!ObjectHeader + H!StringHeader + len = H!ObjectHeader + (H!StringHeader + len)
      BY <1>2 DEF H!ObjectHeader, H!StringHeader
    <3> QED BY <2>1, <3>1 DEF Space
  <2> DEFINE used == Used(its)[n]
             end == Used(its)[n + 1]
             size == o.n
  <2>3. size \in Nat /\ end <= HeapSize /\ heapStart = used
        /\ end = used + H!Align4(H!ObjectHeader + size)
    BY <1>1, <1>5, <2>1, <2>2
  <2> HIDE DEF used, end, size
  <2>4. ~H!Carries(size) /\ H!StartAfter(size) = end
    BY <1>5, <2>3, SpaceTaken
  <2> QED BY <2>1, <2>4 DEF end, size
<1>7. HN!EmitsString(len)
  BY <1>6, NestedLayout DEF HN!EmitsString
<1>8. HN!LoadString(len, i.off)
  BY <1>4, <1>7, NestedString
<1> HIDE DEF o, len
<1>9. /\ UNCHANGED <<base, arrayStack, path>>
      /\ heapStart' = H!StartAfter(o.n) \/ heapStart' = heapStart
      /\ objects' = objects \cup {o} \/ objects' = objects
      /\ heapStatus' = "ok" => heapStart' = H!StartAfter(o.n)
  BY DEF H!LoadString, H!Ends, o, len
<1>10. H!Arrays' = H!Arrays
  BY <1>6, <1>9 DEF H!Arrays
<1>11. Sized' /\ Follow(q)'
  <2>1. Follow(p)'
    BY <1>5, <1>9, <1>10, FollowStays
  <2> QED BY <1>1, <1>5, <1>10, <2>1 DEF Sized
<1>12. heapStart' <= HeapSize
  <2>1. Used(its)[n] <= HeapSize
    <3>1. Asked(n, i, p, q)
      BY NextItem
    <3> QED BY <3>1 DEF Asked
  <2> QED BY <1>1, <1>5, <1>6, <1>9, <2>1
<1>13. ASSUME heapStatus' = "ok" PROVE Filled(n + 1)'
  <2>1. Fresh(i)'
    BY DEF Fresh
  <2>2. heapStart' = Used(its)[n + 1]
    BY <1>6, <1>9, <1>13
  <2> QED BY <1>11, <2>1, <2>2, FilledThen
<1> QED BY <1>8, <1>12, <1>13 DEF Passes, len

(* Four bytes make a number.                                                *)
LEMMA BytesWord ==
  ASSUME NEW d \in Octets, NEW at \in Nat, at + 4 <= Len(d)
  PROVE  ParseWord(d, at) \in Int
<1>1. Len(d) \in Nat /\ \A k \in 1 .. Len(d) : d[k] \in Int
  BY OctetInt DEF Octets
<1>2. \A k \in 1 .. 4 : at + k \in 1 .. Len(d)
  BY <1>1
<1>3. d[at + 1] \in Int /\ d[at + 2] \in Int /\ d[at + 3] \in Int /\ d[at + 4] \in Int
  BY <1>1, <1>2
<1> DEFINE b1 == d[at + 1]
           b2 == d[at + 2]
           b3 == d[at + 3]
           b4 == d[at + 4]
<1>4. ParseWord(d, at) = (IF b1 < 128 THEN b1 ELSE b1 - 256) * 16777216 + b2 * 65536 + b3 * 256 + b4
  BY SMT DEF ParseWord
<1>5. b1 \in Int /\ b2 \in Int /\ b3 \in Int /\ b4 \in Int
  BY <1>3
<1> HIDE DEF b1, b2, b3, b4
<1> QED BY <1>4, <1>5

(* A pointer that was stored is found where it was.                         *)
LEMMA PointerFound ==
  ASSUME NEW ss, NEW a \in Nat, NEW x, slots' = H!StorePtr(ss, a, x)
  PROVE  H!PointerAt(a)' = x
<1> DEFINE new == [at |-> a, ptr |-> x]
<1>1. slots' = H!Erase(ss, a, H!PtrSize) \cup {new}
  BY DEF H!StorePtr
<1>2. \A s \in H!Erase(ss, a, H!PtrSize) : s.at # a
  BY DEF H!Erase, H!Overlap, H!PtrSize
<1>3. new.at = a /\ new.ptr = x
  OBVIOUS
<1> HIDE DEF new
<1>4. \A s \in slots' : s.at = a <=> s = new
  BY <1>1, <1>2, <1>3
<1>5. new \in slots'
  BY <1>1
<1>6. (CHOOSE s \in slots' : s.at = a) = new
  BY <1>4, <1>5
<1> QED BY <1>3, <1>5, <1>6 DEF H!PointerAt

(* An array whose elements the heap has room for has the size they ask for. *)
LEMMA ArrayRoom ==
  ASSUME H!TypeOK, mod \in Modules, NEW t \in DOMAIN TypeSize, NEW len \in Nat,
         NEW end, end <= HeapSize, NEW used, heapStart = used,
         end = used + H!Align4(H!ObjectHeader + H!ArrayHeader + TypeSize[t] * len)
  PROVE  LET o == H!ArrayObject(H!FreePtr, t, len) IN
         /\ ~H!Overflows(t, len) /\ H!StartAfter(o.n) = end
         /\ o.n = H!ArrayHeader + TypeSize[t] * len
         /\ o.at \in Nat \ {0} /\ o.t = t /\ o.len = len /\ o.typ = "Tarray"
<1> DEFINE o == H!ArrayObject(H!FreePtr, t, len)
           room == TypeSize[t] * len
           size == H!ArrayHeader + room
<1>1. room \in Nat /\ size \in Nat
  <2>1. TypeSize[t] \in Nat
    BY LayoutNumbers
  <2>2. room \in Nat
    BY <2>1
  <2> QED BY <2>2 DEF H!ArrayHeader
<1>2. end = used + H!Align4(H!ObjectHeader + size)
  <2>1. H!ObjectHeader + H!ArrayHeader + room = H!ObjectHeader + size
    BY <1>1 DEF H!ObjectHeader, H!ArrayHeader
  <2> QED BY <2>1
<1>3. o.at = HeapBase + heapStart /\ o.t = t /\ o.len = len /\ o.typ = "Tarray"
      /\ o.n = H!ArrayHeader + H!AsUsize(H!I32(room))
  BY DEF H!ArrayObject, H!FreePtr
<1> HIDE DEF size
<1>4. ~H!Carries(size) /\ H!StartAfter(size) = end /\ size <= HeapSize
  BY <1>1, <1>2, SpaceTaken
<1>5. size = 16 + room
  BY DEF size, H!ArrayHeader
<1> HIDE DEF room
<1>6. H!IsI32(room) /\ H!AsUsize(H!I32(room)) = room
  <2>1. HeapSize < MaxI32 /\ MaxI32 \in Nat /\ HeapSize \in Nat
    BY LayoutNumbers
  <2>2. H!IsI32(room)
    BY <1>1, <1>4, <1>5, <2>1 DEF H!IsI32
  <2> QED BY <1>1, <2>2 DEF H!I32, H!AsUsize
<1>7. o.n = size
  BY <1>3, <1>6 DEF size
<1>8. ~H!Overflows(t, len)
  BY <1>4, <1>6, <1>7 DEF H!Overflows, room
<1>9. o.at \in Nat \ {0}
  <2>1. heapStart \in Nat /\ HeapBase \in Nat \ {0}
    BY LayoutNumbers DEF H!TypeOK
  <2> HIDE DEF o
  <2> QED BY <1>3, <2>1
<1> QED BY <1>3, <1>4, <1>7, <1>8, <1>9 DEF size, room

(* Arrays.                                                                  *)
LEMMA ArrayFills ==
  ASSUME H!TypeOK, stage = "items", Initialisers, TripInv, mod' = mod,
         NEW n \in Nat, n + 1 \in 1 .. Len(mod.items), Filled(n),
         NEW i, i = mod.items[n + 1], i.off \in Nat, i.typ = 5,
         NEW p, p = Opened(mod.items)[n + 1], NEW q, q = Opened(mod.items)[n + 2],
         NEW t, t = ParseWord(i.payload, 0), NEW len, len = ParseWord(i.payload, 4),
         NEW o, o = H!ArrayObject(H!FreePtr, t, len), NEW a, a = H!Dest(i.off),
         H!LoadArray(t, len, i.off)
  PROVE  HN!LoadArray(t, len, i.off) /\ Passes(n + 1)
<1> DEFINE its == mod.items
           used == Used(its)[n]
           end == Used(its)[n + 1]
<1>1. Asked(n, i, p, q)
  BY NextItem
<1>2. /\ i \in Items /\ q = p /\ ItemFits(i, Layout)
      /\ end = used + Space(i) /\ end <= HeapSize
  BY <1>1 DEF Asked
<1>3. heapStart = used /\ Sized /\ Follow(p) /\ mod \in Modules
  BY InitialisersFollowed DEF Filled
<1>4. t \in DOMAIN TypeSize /\ len \in Nat
  <2>1. t \in 0 .. Len(Layout) - 1 /\ len >= 0
    BY <1>2 DEF ItemFits
  <2>2. len \in Int
    <3>1. i.payload \in Octets /\ Len(i.payload) = 8
      BY <1>2 DEF Items, ItemFits, ItemBytes
    <3>2. 4 \in Nat /\ 4 + 4 <= Len(i.payload)
      BY <3>1
    <3>3. ParseWord(i.payload, 4) \in Int
      BY <3>1, <3>2, BytesWord
    <3> QED BY <3>3
  <2> QED BY <1>3, <2>1, <2>2, LayoutNumbers
<1>5. end = used + H!Align4(H!ObjectHeader + H!ArrayHeader + TypeSize[t] * len)
  BY <1>2 DEF Space
<1>6. /\ ~H!Overflows(t, len) /\ H!StartAfter(o.n) = end
      /\ o.n = H!ArrayHeader + TypeSize[t] * len
      /\ o.at \in Nat \ {0} /\ o.t = t /\ o.len = len /\ o.typ = "Tarray"
  <2> HIDE DEF used, end
  <2>1. end <= HeapSize /\ heapStart = used /\ mod \in Modules
    BY <1>2, <1>3
  <2> DEFINE made == H!ArrayObject(H!FreePtr, t, len)
  <2>2. /\ ~H!Overflows(t, len) /\ H!StartAfter(made.n) = end
        /\ made.n = H!ArrayHeader + TypeSize[t] * len
        /\ made.at \in Nat \ {0} /\ made.t = t /\ made.len = len /\ made.typ = "Tarray"
    BY <1>4, <1>5, <2>1, ArrayRoom
  <2> QED BY <2>2, Zenon
<1>7. HN!EmitsArray(t, len)
  <2>1. TypeSize[t] >= 0
    BY <1>3, <1>4, LayoutNumbers
  <2> QED BY <1>6, <2>1, NestedLayout DEF HN!EmitsArray
<1>8. HN!Emits(i.off, HN!PtrSize)
  <2>1. Extent(i) = HN!PtrSize /\ Extent(i) \in Nat
    BY DEF Extent, H!PtrSize, HN!PtrSize
  <2> QED BY <2>1, ItemIsEmitted
<1>9. HN!LoadArray(t, len, i.off)
  BY <1>7, <1>8, NestedArray
<1> HIDE DEF used, end
<1>10. /\ UNCHANGED <<base, arrayStack, path>>
       /\ heapStart' = end /\ objects' = objects \cup {o}
       /\ heapStatus' = "ok" =>
            /\ slots' = H!StorePtr(H!Erase(slots, o.at, H!HeadEnd(o) - o.at), a, H!Payload(o))
            /\ lastArray' = o.at /\ pending' = i.off
  BY <1>6 DEF H!LoadArray, H!Ends
<1>11. H!Arrays' = H!Arrays \cup {o}
  BY <1>6, <1>10 DEF H!Arrays
<1>12. Sized'
  BY <1>3, <1>4, <1>6, <1>11 DEF Sized
<1>13. Follow(q)'
  BY <1>2, <1>3, <1>10, <1>11, FollowStays
<1>14. ASSUME heapStatus' = "ok" PROVE Fresh(i)'
  <2>1. a \in Nat /\ a = H!Dest(i.off)'
    BY <1>10, HeapAddressTypes DEF H!Dest
  <2>2. H!PointerAt(a)' = H!Payload(o)
    <3> DEFINE ss == H!Erase(slots, o.at, H!HeadEnd(o) - o.at)
               x == H!Payload(o)
    <3>1. slots' = H!StorePtr(ss, a, x)
      BY <1>10, <1>14
    <3> HIDE DEF ss, x
    <3> QED BY <2>1, <3>1, PointerFound DEF x
  <2>3. IsArray(o, t, len)'
    BY <1>6, <1>11 DEF IsArray
  <2>4. H!PointerAt(H!Dest(i.off))' = H!Payload(o)
    BY <2>1, <2>2 DEF H!PointerAt
  <2> QED BY <1>10, <1>14, <2>3, <2>4 DEF Fresh, IsArray, H!Payload
<1>15. ASSUME heapStatus' = "ok" PROVE Filled(n + 1)'
  BY <1>10, <1>12, <1>13, <1>14, <1>15, FilledThen DEF end
<1> QED BY <1>2, <1>9, <1>10, <1>15 DEF Passes

(* An index item leads one array deeper.                                    *)
LEMMA FollowDeeper ==
  ASSUME H!TypeOK, NEW p, Follow(p), NEW r \in Openings, NEW q, q = Append(p, r),
         NEW o, IsArray(o, r.t, r.len), r.at = 0 \/ TypeSize[r.t] = 1,
         path' = Append(path, H!Payload(o)), arrayStack' = Append(arrayStack, base),
         base'.start = r.at, objects' = objects
  PROVE  Follow(q)'
<1> DEFINE n == Len(p)
           f == H!Frames
<1>1. p \in Seq(Openings) /\ Len(path) = n /\ Len(arrayStack) = n /\ n \in Nat
  BY LenProperties DEF Follow
<1>2. arrayStack \in Seq(H!Bases) /\ base \in H!Bases /\ path \in Seq(Nat \cup {H!VM_NULLPTR})
  BY DEF H!TypeOK
<1>3. /\ q \in Seq(Openings) /\ Len(q) = n + 1 /\ q[n + 1] = r
      /\ \A k \in 1 .. n : q[k] = p[k]
  BY <1>1, AppendProperties
<1>4. /\ Len(path') = n + 1 /\ path'[n + 1] = H!Payload(o)
      /\ \A k \in 1 .. n : path'[k] = path[k]
  BY <1>1, <1>2
<1>5. f \in Seq(H!Bases) /\ Len(f) = n + 1 /\ f = arrayStack'
  BY <1>1, <1>2, AppendProperties DEF H!Frames
<1>6. H!Frames' = Append(f, base')
  BY <1>5 DEF H!Frames
<1> HIDE DEF f, n
<1>7. /\ H!Frames'[n + 2] = base' /\ \A k \in 1 .. n + 1 : H!Frames'[k] = f[k]
      /\ Len(arrayStack') = n + 1
  BY <1>1, <1>5, <1>6
<1>8. H!Arrays' = H!Arrays
  BY DEF H!Arrays
<1>9. ASSUME NEW k \in 1 .. Len(q)
      PROVE  /\ H!Frames'[k + 1].start = q[k].at
             /\ q[k].at = 0 \/ TypeSize[q[k].t] = 1
             /\ (\E x : IsArray(x, q[k].t, q[k].len) /\ H!Payload(x) = path[k])'
  <2>1. CASE k = n + 1
    <3>1. q[k] = r /\ k + 1 = n + 2 /\ path'[k] = H!Payload(o)
      BY <1>1, <1>3, <1>4, <2>1
    <3> QED BY <1>7, <1>8, <3>1 DEF IsArray, H!Payload
  <2>2. CASE k \in 1 .. n
    <3>1. q[k] = p[k] /\ k + 1 \in 1 .. n + 1 /\ path'[k] = path[k]
      BY <1>1, <1>3, <1>4, <2>2
    <3>2. /\ f[k + 1].start = p[k].at /\ (p[k].at = 0 \/ TypeSize[p[k].t] = 1)
          /\ \E x : IsArray(x, p[k].t, p[k].len) /\ H!Payload(x) = path[k]
      BY <2>2 DEF Follow, f, n
    <3>3. PICK x : IsArray(x, p[k].t, p[k].len) /\ H!Payload(x) = path[k]
      BY <3>2
    <3>4. IsArray(x, q[k].t, q[k].len)' /\ H!Payload(x) = path'[k]
      BY <1>8, <3>1, <3>3 DEF IsArray
    <3> QED BY <1>7, <3>1, <3>2, <3>4 DEF H!Payload
  <2> QED BY <1>1, <1>3, <2>1, <2>2
<1> QED BY <1>3, <1>4, <1>7, <1>9 DEF Follow

(* A restore item leads back.                                               *)
LEMMA FollowBack ==
  ASSUME H!TypeOK, NEW p, Follow(p), p # <<>>, NEW q, q = Front(p),
         path' = SubSeq(path, 1, Len(path) - 1),
         arrayStack' = SubSeq(arrayStack, 1, Len(arrayStack) - 1),
         base' = arrayStack[Len(arrayStack)], objects' = objects
  PROVE  Follow(q)'
<1> DEFINE n == Len(p)
           f == H!Frames
<1>1. p \in Seq(Openings) /\ Len(path) = n /\ Len(arrayStack) = n /\ n \in Nat \ {0}
  <2>1. p \in Seq(Openings) /\ Len(path) = n /\ Len(arrayStack) = n
    BY DEF Follow
  <2> QED BY <2>1, EmptySeq, LenProperties
<1>2. arrayStack \in Seq(H!Bases) /\ base \in H!Bases /\ path \in Seq(Nat \cup {H!VM_NULLPTR})
  BY DEF H!TypeOK
<1>3. /\ q \in Seq(Openings) /\ Len(q) = n - 1
      /\ \A k \in 1 .. n - 1 : q[k] = p[k]
  BY <1>1 DEF Front
<1>4. /\ Len(path') = n - 1
      /\ \A k \in 1 .. n - 1 : path'[k] = path[k]
  BY <1>1, <1>2
<1>5. /\ arrayStack' \in Seq(H!Bases) /\ Len(arrayStack') = n - 1
      /\ \A k \in 1 .. n - 1 : arrayStack'[k] = arrayStack[k]
  BY <1>1, <1>2
<1>6. /\ H!Frames' = Append(arrayStack', base') /\ base' = arrayStack[n]
      /\ f = Append(arrayStack, base)
  BY <1>1 DEF H!Frames
<1> HIDE DEF f, n
<1>7. \A k \in 1 .. n : H!Frames'[k] = f[k]
  <2>1. \A k \in 1 .. n : f[k] = arrayStack[k]
    BY <1>1, <1>2, <1>6
  <2>2. \A k \in 1 .. n - 1 : H!Frames'[k] = arrayStack'[k]
    BY <1>1, <1>5, <1>6
  <2>3. H!Frames'[n] = base'
    <3>1. Len(arrayStack') + 1 = n
      BY <1>1, <1>5
    <3> QED BY <1>5, <1>6, <3>1
  <2> QED BY <1>1, <1>5, <1>6, <2>1, <2>2, <2>3
<1>8. H!Arrays' = H!Arrays
  BY DEF H!Arrays
<1>9. ASSUME NEW k \in 1 .. Len(q)
      PROVE  /\ H!Frames'[k + 1].start = q[k].at
             /\ q[k].at = 0 \/ TypeSize[q[k].t] = 1
             /\ (\E x : IsArray(x, q[k].t, q[k].len) /\ H!Payload(x) = path[k])'
  <2>1. q[k] = p[k] /\ k + 1 \in 1 .. n /\ path'[k] = path[k] /\ k \in 1 .. n
    BY <1>1, <1>3, <1>4
  <2>2. /\ f[k + 1].start = p[k].at /\ (p[k].at = 0 \/ TypeSize[p[k].t] = 1)
        /\ \E x : IsArray(x, p[k].t, p[k].len) /\ H!Payload(x) = path[k]
    BY <2>1 DEF Follow, f, n
  <2>3. PICK x : IsArray(x, p[k].t, p[k].len) /\ H!Payload(x) = path[k]
    BY <2>2
  <2>4. IsArray(x, q[k].t, q[k].len)' /\ H!Payload(x) = path'[k]
    BY <1>8, <2>1, <2>3 DEF IsArray
  <2> QED BY <1>7, <2>1, <2>2, <2>4 DEF H!Payload
<1> QED BY <1>3, <1>4, <1>5, <1>9 DEF Follow

(* Indexes.                                                                 *)
LEMMA IndexFills ==
  ASSUME H!TypeOK, stage = "items", Initialisers, TripInv, mod' = mod,
         NEW n \in Nat, n + 1 \in 1 .. Len(mod.items), Filled(n),
         NEW i, i = mod.items[n + 1], i.off \in Nat, i.typ = 6,
         NEW p, p = Opened(mod.items)[n + 1], NEW q, q = Opened(mod.items)[n + 2],
         NEW x, x = ParseWord(i.payload, 0), H!SetIndex(x, i.off)
  PROVE  HN!SetIndex(x, i.off) /\ Passes(n + 1)
<1> DEFINE its == mod.items
           used == Used(its)[n]
           end == Used(its)[n + 1]
           j == its[n]
           t == ParseWord(j.payload, 0)
           len == ParseWord(j.payload, 4)
           r == [off |-> i.off, at |-> x, t |-> t, len |-> len]
<1>1. Asked(n, i, p, q)
  BY NextItem
<1>2. /\ i \in Items /\ ItemFits(i, Layout) /\ end = used + Space(i) /\ end <= HeapSize
      /\ n \in 1 .. Len(its) /\ j \in Items /\ ItemFits(j, Layout) /\ j.typ = 5 /\ j.off = i.off
      /\ x < len /\ (x = 0 \/ TypeSize[t] = 1) /\ q = Append(p, r)
  BY <1>1 DEF Asked
<1>3. heapStart = used /\ Sized /\ Follow(p) /\ Fresh(j) /\ mod \in Modules
  BY <1>2, InitialisersFollowed DEF Filled
<1>4. heapStart \in Nat
  BY DEF H!TypeOK
<1>5. r \in Openings
  <2>1. t \in 0 .. Len(Layout) - 1 /\ len >= 0 /\ x >= 0
    BY <1>2 DEF ItemFits
  <2>2. /\ i.payload \in Octets /\ Len(i.payload) = 4 /\ j.payload \in Octets
        /\ Len(j.payload) = 8
    BY <1>2 DEF Items, ItemFits, ItemBytes
  <2>3. 0 \in Nat /\ 4 \in Nat /\ 0 + 4 <= Len(i.payload) /\ 4 + 4 <= Len(j.payload)
    BY <2>2
  <2>4. len \in Int /\ x \in Int
    BY <2>2, <2>3, BytesWord
  <2>5. t \in DOMAIN TypeSize
    BY <1>3, <2>1, LayoutNumbers
  <2> HIDE DEF t, len
  <2> QED BY <2>1, <2>4, <2>5 DEF Openings
<1>6. /\ pending = i.off
      /\ \E o : IsArray(o, t, len) /\ o.at = lastArray /\ H!PointerAt(H!Dest(i.off)) = H!Payload(o)
  BY <1>2, <1>3 DEF Fresh
<1> HIDE DEF used, end
<1>7. PICK o : IsArray(o, t, len) /\ o.at = lastArray /\ H!PointerAt(H!Dest(i.off)) = H!Payload(o)
  BY <1>6
<1>8. HN!NamesElement(i.off, x)
  <2>1. o \in HN!Arrays /\ x < o.len
    BY <1>2, <1>7 DEF IsArray, H!Arrays, HN!Arrays
  <2>2. HN!PointerAt(HN!Dest(i.off)) = HN!Payload(o)
    BY <1>7, NestedLayout, NestedStores
  <2> QED BY <1>6, <2>1, <2>2 DEF HN!NamesElement
<1>9. HN!SetIndex(x, i.off)
  BY <1>8, NestedIndex
<1>10. lastArray # H!NoArray
  BY <1>3, <1>7 DEF Sized, IsArray, H!NoArray
<1>11. /\ UNCHANGED <<heapStart, objects>>
       /\ path' = Append(path, H!Payload(o)) /\ arrayStack' = Append(arrayStack, base)
       /\ base'.start = x
  BY <1>7, <1>10 DEF H!SetIndex, H!ArrayBase
<1>12. Follow(q)'
  <2>1. r.t = t /\ r.len = len /\ r.at = x
    OBVIOUS
  <2> HIDE DEF r
  <2> QED BY <1>2, <1>3, <1>5, <1>7, <1>11, <2>1, FollowDeeper
<1>13. Sized' /\ Fresh(i)'
  BY <1>3, <1>11 DEF Sized, Fresh, H!Arrays
<1>14. heapStart' = end
  <2>1. Space(i) = 0
    BY DEF Space
  <2> QED BY <1>2, <1>3, <1>4, <1>11, <2>1
<1>15. Filled(n + 1)'
  BY <1>12, <1>13, <1>14, FilledThen DEF end
<1> QED BY <1>2, <1>9, <1>14, <1>15 DEF Passes

(* Bases restored.                                                          *)
LEMMA RestoreFills ==
  ASSUME H!TypeOK, stage = "items", Initialisers, TripInv, mod' = mod,
         NEW n \in Nat, n + 1 \in 1 .. Len(mod.items), Filled(n),
         NEW i, i = mod.items[n + 1], i.typ = 7,
         NEW p, p = Opened(mod.items)[n + 1], NEW q, q = Opened(mod.items)[n + 2],
         H!Restore
  PROVE  HN!Restore /\ Passes(n + 1)
<1> DEFINE its == mod.items
           used == Used(its)[n]
           end == Used(its)[n + 1]
<1>1. Asked(n, i, p, q)
  BY NextItem
<1>2. end = used + Space(i) /\ end <= HeapSize /\ p # <<>> /\ q = Front(p)
  BY <1>1 DEF Asked
<1>3. heapStart = used /\ Sized /\ Follow(p)
  BY DEF Filled
<1>4. heapStart \in Nat /\ arrayStack \in Seq(H!Bases) /\ path \in Seq(Nat \cup {H!VM_NULLPTR})
  BY DEF H!TypeOK
<1> HIDE DEF used, end
<1>5. path # <<>> /\ arrayStack # <<>>
  <2>1. p \in Seq(Openings) /\ Len(path) = Len(p) /\ Len(arrayStack) = Len(p)
    BY <1>3 DEF Follow
  <2> QED BY <1>2, <1>4, <2>1, EmptySeq
<1>6. HN!Restore
  BY <1>5, NestedRestore
<1>7. /\ UNCHANGED <<heapStart, objects>>
      /\ path' = SubSeq(path, 1, Len(path) - 1)
      /\ arrayStack' = SubSeq(arrayStack, 1, Len(arrayStack) - 1)
      /\ base' = arrayStack[Len(arrayStack)]
  BY <1>5 DEF H!Restore
<1>8. Follow(q)'
  BY <1>2, <1>3, <1>7, FollowBack
<1>9. Sized' /\ Fresh(i)'
  BY <1>3, <1>7 DEF Sized, Fresh, H!Arrays
<1>10. heapStart' = end
  <2>1. Space(i) = 0
    BY DEF Space
  <2> QED BY <1>2, <1>3, <1>4, <1>7, <2>1
<1>11. Filled(n + 1)'
  BY <1>8, <1>9, <1>10, FilledThen DEF end
<1> QED BY <1>2, <1>6, <1>10, <1>11 DEF Passes

(* Every item of such a file passes.                                        *)
LEMMA ItemFills ==
  ASSUME H!TypeOK, Initialisers, TripInv, FillsRightly, LoadItem
  PROVE  HN!Next /\ FillsRightly'
<1> DEFINE n == items
<1>1. At("data") /\ (Has(offset, 1) => Byte(offset) # 0)
  BY DEF LoadItem
<1>2. /\ heapStatus = "ok" /\ stage = "items" /\ Filled(n) /\ AtItem(n) /\ n \in Nat
      /\ section = "data"
  BY <1>1 DEF FillsRightly, H!TypeOK, At
<1> HIDE DEF n
<1>3. PICK i : i = mod.items[n + 1]
  OBVIOUS
<1>4. PICK p : p = Opened(mod.items)[n + 1]
  OBVIOUS
<1>5. PICK q : q = Opened(mod.items)[n + 2]
  OBVIOUS
<1>6. PICK m : m = n
  OBVIOUS
<1>7. /\ m + 1 \in 1 .. Len(mod.items) /\ i \in Items /\ ItemFits(i, mod.types)
      /\ i.off \in Nat
      /\ HeapItem(i.typ, i.count, i.off, i.payload) /\ Then(ReadItem)
      /\ Has(offset, 1) /\ ItemValid(Byte(offset), ItemOperands)
      /\ Reads(AfterItem(Byte(offset), ItemOperands), FromItem(mod, m + 1))
  BY <1>2, <1>3, <1>6, ItemGiven
<1>8. /\ m \in Nat /\ Filled(m) /\ i = mod.items[m + 1]
      /\ p = Opened(mod.items)[m + 1] /\ q = Opened(mod.items)[m + 2]
  BY <1>2, <1>3, <1>4, <1>5, <1>6
<1>9. ReadItem \/ HeapStops
  BY <1>7 DEF Then
<1>10. mod' = mod /\ file' = file /\ section' = "data"
  BY <1>2, <1>9 DEF ReadItem, HeapStops, Move, Panic, cursor
<1>11. HN!Next /\ Passes(m + 1) /\ stage' = stage /\ items' = items + 1
  <2>1. CASE Scalars(i.typ, i.count, i.off, i.payload)
    <3>1. i.typ \in DOMAIN ScalarWidth /\ H!LoadScalars(ScalarWidth[i.typ], i.count, i.off)
      BY <2>1 DEF Scalars
    <3>2. HN!LoadScalars(ScalarWidth[i.typ], i.count, i.off) /\ Passes(m + 1)
      BY <1>2, <1>7, <1>8, <1>10, <3>1, NumbersFill
    <3>3. ScalarWidth[i.typ] \in HN!Widths /\ i.count \in Nat
      <4>1. i.count \in Nat
        BY <1>7 DEF Items, Count
      <4> QED BY <3>1, <4>1, NumberBytes DEF HN!Widths
    <3>4. HN!Next
      BY <1>7, <3>2, <3>3 DEF HN!Next
    <3>5. stage' = stage /\ items' = items + 1
      BY <3>1 DEF H!LoadScalars, H!Item, H!Turn, H!Hosted, H!Call
    <3> QED BY <3>2, <3>4, <3>5
  <2>2. CASE String(i.typ, i.off, i.payload)
    <3>1. i.typ = 3 /\ H!LoadString(Len(Lossy(i.payload)), i.off)
      BY <2>2 DEF String
    <3>2. HN!LoadString(Len(Lossy(i.payload)), i.off) /\ Passes(m + 1)
      BY <1>2, <1>7, <1>8, <1>10, <3>1, StringFills
    <3>3. Len(Lossy(i.payload)) \in Nat
      <4>1. i.payload \in Octets
        BY <1>7 DEF Items
      <4> QED BY <4>1, LossyType
    <3>4. HN!Next
      BY <1>7, <3>2, <3>3 DEF HN!Next
    <3>5. stage' = stage /\ items' = items + 1
      BY <3>1 DEF H!LoadString, H!Item, H!Turn, H!Hosted, H!Call
    <3> QED BY <3>2, <3>4, <3>5
  <2>3. CASE Array(i.typ, i.off, i.payload)
    <3> DEFINE t == ParseWord(i.payload, 0)
               len == ParseWord(i.payload, 4)
    <3>1. i.typ = 5 /\ H!LoadArray(t, len, i.off)
      BY <2>3 DEF Array
    <3>2. HN!LoadArray(t, len, i.off) /\ Passes(m + 1)
      BY <1>2, <1>7, <1>8, <1>10, <3>1, ArrayFills
    <3>3. t \in DOMAIN TypeSize /\ len \in Nat
      <4>1. i.payload \in Octets /\ Len(i.payload) = 8 /\ t \in 0 .. Len(mod.types) - 1 /\ len >= 0
        BY <1>7, <3>1 DEF Items, ItemFits, ItemBytes
      <4>2. 4 \in Nat /\ 4 + 4 <= Len(i.payload)
        BY <4>1
      <4>3. len \in Int
        BY <4>1, <4>2, BytesWord
      <4>4. mod.types = Layout /\ DOMAIN TypeSize = 0 .. Len(Layout) - 1
        BY InitialisersFollowed, LayoutFacts
      <4> HIDE DEF t, len
      <4> QED BY <4>1, <4>3, <4>4
    <3> HIDE DEF t, len
    <3>4. HN!Next
      BY <1>7, <3>2, <3>3 DEF HN!Next
    <3>5. stage' = stage /\ items' = items + 1
      BY <3>1 DEF H!LoadArray, H!Turn, H!Call
    <3> QED BY <3>2, <3>4, <3>5
  <2>4. CASE Index(i.typ, i.off, i.payload)
    <3> DEFINE x == ParseWord(i.payload, 0)
    <3>1. i.typ = 6 /\ H!SetIndex(x, i.off)
      BY <2>4 DEF Index
    <3>2. HN!SetIndex(x, i.off) /\ Passes(m + 1)
      BY <1>2, <1>7, <1>8, <1>10, <3>1, IndexFills
    <3>3. x \in Nat
      <4>1. i.payload \in Octets /\ Len(i.payload) = 4 /\ x >= 0
        BY <1>7, <3>1 DEF Items, ItemFits, ItemBytes
      <4>2. 0 \in Nat /\ 0 + 4 <= Len(i.payload)
        BY <4>1
      <4>3. x \in Int
        BY <4>1, <4>2, BytesWord
      <4> HIDE DEF x
      <4> QED BY <4>1, <4>3
    <3> HIDE DEF x
    <3>4. HN!Next
      BY <1>7, <3>2, <3>3 DEF HN!Next
    <3>5. stage' = stage /\ items' = items + 1
      BY <3>1 DEF H!SetIndex, H!Item, H!Turn, H!Hosted, H!Call
    <3> QED BY <3>2, <3>4, <3>5
  <2>5. CASE RestoreBase(i.typ)
    <3>1. i.typ = 7 /\ H!Restore
      BY <2>5 DEF RestoreBase
    <3>2. HN!Restore /\ Passes(m + 1)
      BY <1>2, <1>7, <1>8, <1>10, <3>1, RestoreFills
    <3>3. stage' = stage /\ items' = items + 1
      BY <3>1 DEF H!Restore, H!Item, H!Turn, H!Hosted, H!Call
    <3> QED BY <3>2, <3>3 DEF HN!Next
  <2> QED BY <1>7, <2>1, <2>2, <2>3, <2>4, <2>5 DEF HeapItem
<1>12. heapStatus' = "ok" => Filled(items)' /\ (At("data") => AtItem(items))'
  <2> SUFFICES ASSUME heapStatus' = "ok" PROVE Filled(items)' /\ AtItem(items)'
    OBVIOUS
  <2>1. items' = m + 1
    BY <1>6, <1>11 DEF n
  <2>2. Filled(m + 1)'
    BY <1>11 DEF Passes
  <2>3. offset' = AfterItem(Byte(offset), ItemOperands)
    BY <1>7 DEF Then, ReadItem, Move
  <2>4. AtItem(items)'
    <3>1. m + 1 \in 0 .. Len(mod.items)
      BY <1>7, <1>8
    <3> QED BY <1>7, <1>10, <2>1, <2>3, <3>1 DEF AtItem, Reads, RunsOn
  <2> QED BY <2>1, <2>2, <2>4 DEF Filled
<1>13. heapStatus' # "ok" => ~At("data")'
  BY <1>7 DEF Then, HeapStops, At
<1>14. heapStart' <= HeapSize
  BY <1>11 DEF Passes
<1> QED BY <1>2, <1>10, <1>11, <1>12, <1>13, <1>14 DEF FillsRightly, Early, Unopened

(* Headers the last item of such a file no array is open.                    *)
LEMMA EndIsLast ==
  ASSUME H!TypeOK, Initialisers, TripInv, FillsRightly, EndItems
  PROVE  HN!Next /\ FillsRightly' /\ items = Len(mod.items) /\ path = <<>>
<1>1. /\ At("data") /\ Has(offset, 1) /\ Byte(offset) = 0 /\ H!EndItems /\ UNCHANGED <<vars, memory>>
  BY DEF EndItems
<1>2. /\ stage = "items" /\ heapStatus = "ok" /\ stage' = "probe"
      /\ UNCHANGED <<heapStart, heapStatus>>
  BY <1>1 DEF H!EndItems, H!heapVars
<1>3. Filled(items) /\ AtItem(items) /\ items \in Nat
  BY <1>1, <1>2 DEF FillsRightly, H!TypeOK
<1>4. Follows /\ Len(mod.items) \in Nat /\ items \in 0 .. Len(mod.items)
  BY <1>3, InitialisersFollowed DEF AtItem
<1>5. items = Len(mod.items)
  <2> SUFFICES ASSUME items < Len(mod.items) PROVE FALSE
    BY <1>4
  <2> DEFINE i == mod.items[items + 1]
  <2>1. i \in Items /\ Byte(offset) = ItemCode(i)
    BY <1>1, <1>3, <1>4, ItemFront
  <2> HIDE DEF i
  <2> QED BY <1>1, <2>1, ItemCodeMeans
<1>6. Opened(mod.items)[Len(mod.items) + 1] = <<>>
  BY DEF Initialisers, DepthFirst
<1>7. path = <<>>
  <2>1. Len(path) = Len(<<>>)
    BY <1>3, <1>5, <1>6 DEF Filled, Follow
  <2>2. path \in Seq(Nat \cup {H!VM_NULLPTR})
    BY DEF H!TypeOK
  <2> QED BY <2>1, <2>2, EmptySeq
<1>8. HN!Next
  BY <1>1, <1>7, NestedEnd DEF HN!Next
<1>9. file' = file /\ offset' = offset /\ section' = "data"
  BY <1>1 DEF vars, cursor, At
<1> QED BY <1>1, <1>2, <1>5, <1>7, <1>8, <1>9 DEF FillsRightly, Early, Unopened, Has, Byte

(* The probe.                                                               *)
LEMMA ProbeIsLast ==
  ASSUME FillsRightly, ProbeHeap
  PROVE  HN!Next /\ FillsRightly'
<1>1. At("data") /\ H!Probe /\ Then(EndData)
  BY DEF ProbeHeap
<1>2. HN!Next
  BY <1>1, NestedEnd DEF HN!Next
<1>3. stage' = "done" /\ heapStart' = heapStart /\ section = "data"
  BY <1>1 DEF H!Probe, H!heapVars, At
<1>4. ~At("data")' /\ section' \in {"data", "name"}
  <2>1. CASE heapStatus' = "ok"
    BY <1>1, <2>1 DEF Then, EndData, Move, At
  <2>2. CASE heapStatus' # "ok"
    BY <1>1, <1>3, <2>2 DEF Then, HeapStops, At, cursor
  <2> QED BY <2>1, <2>2
<1> QED BY <1>2, <1>3, <1>4 DEF FillsRightly, Early, Unopened

(* The parser comes to the data section by CreateHeap, and never goes back  *)
(* before it.                                                               *)
LEMMA ParseGoesOn ==
  ASSUME Parse, section # "data"
  PROVE  /\ section' = "data" => CreateHeap /\ section = "heap"
         /\ section' \in Early => section \in Early
         /\ mod' = mod /\ file' = file
<1>1. CASE CreateHeap
  BY <1>1 DEF CreateHeap, At, Move, Panic, cursor, Early, Unopened
<1>2. CASE ReadMagic \/ ReadHeader \/ ReadInstruction \/ ReadType
  BY <1>2 DEF ReadMagic, ReadHeader, ReadInstruction, ReadType, At, Move, Panic, cursor, Early,
     Unopened
<1>3. CASE EndLoop
  BY <1>3 DEF EndLoop, Move, Early, Unopened
<1>4. CASE ReadItem \/ EndData
  BY <1>4 DEF ReadItem, EndData, At
<1>5. CASE ReadName \/ ReadLink \/ BeginImports \/ ReadImportModule \/ ReadImport
  BY <1>5 DEF ReadName, ReadLink, BeginImports, ReadImportModule, ReadImport, At, Move, Panic,
     cursor, Early, Unopened
<1>6. CASE EndImports \/ BeginHandlers \/ ReadHandler \/ EndHandlers \/ ReadPath
  BY <1>6 DEF EndImports, BeginHandlers, ReadHandler, EndHandlers, ReadPath, At, Move, Panic,
     cursor, Early, Unopened
<1> QED BY <1>1, <1>2, <1>3, <1>4, <1>5, <1>6 DEF Parse

(* The other sections leave the heap as it is.                              *)
LEMMA ElsewhereFills ==
  ASSUME H!TypeOK, Initialisers, TripInv, FillsRightly, Elsewhere
  PROVE  UNCHANGED HN!vars /\ FillsRightly'
<1>1. section # "data" /\ Parse /\ UNCHANGED heapVars
  BY DEF Elsewhere
<1>2. UNCHANGED HN!vars
  BY <1>1 DEF heapVars, HN!vars, HN!heapVars, HN!auxVars
<1>3. UNCHANGED <<heapStart, stage, items, heapStatus, path, arrayStack, base, objects, lastArray,
                  pending, slots>>
  BY <1>1 DEF heapVars
<1>4. /\ section' = "data" => CreateHeap /\ section = "heap"
      /\ section' \in Early => section \in Early
      /\ mod' = mod /\ file' = file
  BY <1>1, ParseGoesOn
<1>5. ASSUME stage' = "items", heapStatus' = "ok" PROVE Filled(items)'
  <2>1. Filled(items)
    BY <1>3, <1>5 DEF FillsRightly
  <2>2. H!Frames' = H!Frames /\ H!Arrays' = H!Arrays
    BY <1>3 DEF H!Frames, H!Arrays
  <2>3. PICK n : n = items
    OBVIOUS
  <2>4. PICK p : p = Opened(mod.items)[n + 1]
    OBVIOUS
  <2>5. PICK i : i = mod.items[n]
    OBVIOUS
  <2>6. Follow(p) /\ Sized /\ (n > 0 => Fresh(i)) /\ heapStart = Used(mod.items)[n]
        /\ n \in 0 .. Len(mod.items)
    BY <2>1, <2>3, <2>4, <2>5 DEF Filled
  <2>7. Follow(p)'
    BY <1>3, <2>2, <2>6, FollowStays
  <2>8. Sized'
    BY <2>2, <2>6 DEF Sized
  <2>9. Fresh(i) => Fresh(i)'
    <3>1. H!PointerAt(H!Dest(i.off))' = H!PointerAt(H!Dest(i.off))
      BY <1>3 DEF H!PointerAt, H!Dest
    <3> QED BY <1>3, <2>2, <3>1 DEF Fresh, IsArray, H!Payload
  <2>10. /\ items' = n /\ mod'.items = mod.items /\ heapStart' = Used(mod.items)[n]
         /\ p = Opened(mod.items)[items' + 1] /\ i = mod.items[items']
    BY <1>3, <1>4, <2>3, <2>4, <2>5, <2>6
  <2> QED BY <2>6, <2>7, <2>8, <2>9, <2>10 DEF Filled, Follow, Fresh
<1>6. ASSUME At("data")' PROVE AtItem(items)' /\ stage = "items" /\ heapStatus = "ok"
  <2>1. CreateHeap /\ section = "heap" /\ section \in Early
    BY <1>4, <1>6 DEF At, Early, Unopened
  <2>2. stage = "items" /\ items = 0 /\ heapStatus = "ok"
    BY <2>1 DEF FillsRightly
  <2>3. Follows /\ Len(mod.items) \in Nat
    BY InitialisersFollowed
  <2>4. Reads(offset, FromItem(mod, 0))
    <3>1. AsWritten
      BY <2>3, FollowsFacts
    <3> QED BY <2>1, <3>1 DEF AsWritten, Standing, StandsIn
  <2>5. offset' = offset
    BY <2>1 DEF CreateHeap, Move, Panic, cursor
  <2>6. AtItem(items)'
    <3>1. items' = 0 /\ 0 \in 0 .. Len(mod.items)
      BY <1>3, <2>2, <2>3
    <3> QED BY <1>4, <2>4, <2>5, <3>1 DEF AtItem, Reads, RunsOn
  <2> QED BY <2>2, <2>6
<1>7. section' \in Early => stage' = "items" /\ items' = 0 /\ heapStatus' = "ok"
  BY <1>3, <1>4 DEF FillsRightly
<1>8. heapStart' <= HeapSize
  BY <1>3 DEF FillsRightly
<1> QED BY <1>2, <1>3, <1>5, <1>6, <1>7, <1>8 DEF FillsRightly

(* No step takes such a file out of the heap of a "nested" producer.        *)
LEMMA StepFills ==
  ASSUME H!TypeOK, Initialisers, TripInv, FillsRightly, [LoadedNext]_loadedVars
  PROVE  FillsRightly' /\ [HN!Next]_(HN!vars)
<1>1. CASE LoadItem
  BY <1>1, ItemFills
<1>2. CASE EndItems
  BY <1>2, EndIsLast
<1>3. CASE ProbeHeap
  BY <1>3, ProbeIsLast
<1>4. CASE Elsewhere
  BY <1>4, ElsewhereFills
<1>5. CASE UNCHANGED loadedVars
  <2>1. UNCHANGED <<mod, file, offset, section, status, build, map, heapStart, base, arrayStack,
                    lastArray, objects, areas, slots, rc, stage, heapStatus, producer, pending,
                    path, items>>
    BY <1>5 DEF loadedVars, vars, cursor, heapVars
  <2>2. UNCHANGED HN!vars
    BY <2>1 DEF HN!vars, HN!heapVars, HN!auxVars
  <2>3. FillsRightly'
    BY <2>1 DEF FillsRightly, Filled, Follow, Fresh, Sized, IsArray, AtItem, Reads, RunsOn, At,
       Has, Byte, H!Arrays, H!Payload, H!Frames, H!PointerAt, H!Dest
  <2> QED BY <2>2, <2>3
<1> QED BY <1>1, <1>2, <1>3, <1>4, <1>5 DEF LoadedNext

(* A file stays what it is.                                                 *)
LEMMA InitialisersStay ==
  ASSUME [LoadedNext]_loadedVars
  PROVE  Initialisers' <=> Initialisers
<1>1. UNCHANGED <<mod, damage>>
  BY LoadedIsNext, FileStays
<1>2. map' = map
  <2>1. \A typ, count, off, data : HeapItem(typ, count, off, data) => map' = map
    <3>1. /\ H!Turn => map' = map
          /\ H!Item => map' = map
      BY DEF H!Item, H!Turn, H!Hosted, H!Call
    <3>2. /\ \A w, count, off : H!LoadScalars(w, count, off) => H!Item
          /\ \A len, off : H!LoadString(len, off) => H!Item
          /\ \A t, len, off : H!LoadArray(t, len, off) => H!Turn
          /\ \A x, off : H!SetIndex(x, off) => H!Item
          /\ H!Restore => H!Item
      BY DEF H!LoadScalars, H!LoadString, H!LoadArray, H!SetIndex, H!Restore
    <3> QED BY <3>1, <3>2 DEF HeapItem, Scalars, String, Array, Index, RestoreBase
  <2>2. LoadItem => map' = map
    BY <2>1 DEF LoadItem, H!RejectItem, H!Turn, H!Call
  <2>3. EndItems \/ ProbeHeap => map' = map
    BY DEF EndItems, ProbeHeap, H!EndItems, H!Probe
  <2> QED BY <2>2, <2>3 DEF LoadedNext, Elsewhere, loadedVars, heapVars
<1> QED BY <1>1, <1>2 DEF Initialisers, Whole, Handlerless, H!MarksFit

(* The constants of the heap of a "nested" producer are such as ModuleHeap  *)
(* asks for.                                                                *)
LEMMA NestedConstants ==
  ASSUME NEW m \in Modules
  PROVE  /\ HN!SizesAssumption /\ HN!ReachAssumption
         /\ HN!TypesAssumption /\ HN!InputsAssumption
<1>1. HN!SizesAssumption /\ HN!ReachAssumption
  BY HeapConstants DEF HP!SizesAssumption, HP!ReachAssumption, HN!SizesAssumption,
     HN!ReachAssumption, HP!Word, HN!Word
<1>2. HN!TypesAssumption
  BY HeapConstants DEF HP!TypesAssumption, HN!TypesAssumption, HP!MapByte, HN!MapByte
<1>3. HN!InputsAssumption
  <2>1. NestedBound \in [{"nested"} \X Builds -> Nat]
    BY DEF NestedBound, Huge
  <2> QED BY <2>1, HeapAssumption DEF HN!InputsAssumption, HN!Sound
<1> QED BY <1>1, <1>2, <1>3

(* How a file of initialisers begins.                                       *)
LEMMA FillsInit ==
  ASSUME LoadedInit, Initialisers
  PROVE  HN!Init /\ FillsRightly
<1>1. mod \in Modules /\ H!Init /\ H!MarksFit /\ section = "magic"
  BY DEF LoadedInit, Initialisers, InitWith
<1>2. /\ heapStart = Layout[1].size /\ path = <<>> /\ arrayStack = <<>> /\ objects = {}
      /\ stage = "items" /\ items = 0 /\ slots = H!SetupPointers /\ map \in {DescMap(Layout[1])}
      /\ heapStatus = IF \A s \in slots : H!Mapped(s.at, H!PtrSize) THEN "ok" ELSE "fault"
  BY <1>1 DEF H!Init
<1>3. HN!Init
  BY <1>1, NestedInit
<1>4. heapStart <= HeapSize
  BY <1>2, HeapAssumption
<1>5. heapStatus = "ok"
  <2>1. \A w \in H!MarkedWords(map) : w \in Nat
    <3>1. /\ HN!SizesAssumption /\ HN!ReachAssumption
          /\ HN!TypesAssumption /\ HN!InputsAssumption
      BY <1>1, NestedConstants
    <3>2. \A w \in HN!MarkedWords(map) : w \in Nat
      BY <1>2, <3>1, HN!MarkedNat
    <3> QED BY <3>2 DEF HN!MarkedWords, H!MarkedWords
  <2>2. \A w \in H!MarkedWords(map) : H!PtrSize * w + H!PtrSize <= Layout[1].size
    BY <1>1 DEF H!MarksFit
  <2>3. Layout[1].size \in Nat /\ HeapSize \in Nat /\ MapSize \in Nat /\ HeapBase \in Nat
        /\ Layout[1].size <= HeapSize /\ HeapSize <= MapSize
    BY <1>1, LayoutNumbers, HeapAssumption
  <2>4. \A w \in H!MarkedWords(map) : H!Mapped(HeapBase + H!PtrSize * w, H!PtrSize)
    BY <2>1, <2>2, <2>3 DEF H!Mapped, H!PtrSize
  <2>5. \A s \in slots : H!Mapped(s.at, H!PtrSize)
    BY <1>2, <2>4 DEF H!SetupPointers
  <2> QED BY <1>2, <2>5
<1>6. Filled(0)
  <2>1. Len(mod.items) \in Nat
    BY <1>1, ModuleWritten, ModuleTypes, LenProperties
  <2>2. Used(mod.items)[0] = Layout[1].size /\ Opened(mod.items)[0 + 1] = <<>>
    BY <2>1, UsedUnfold, OpenedUnfold
  <2>3. Sized
    BY <1>2 DEF Sized, H!Arrays
  <2>4. Follow(<<>>)
    BY <1>2 DEF Follow
  <2> QED BY <1>2, <2>1, <2>2, <2>3, <2>4 DEF Filled
<1> QED BY <1>1, <1>2, <1>3, <1>4, <1>5, <1>6 DEF FillsRightly, At

(* A file of initialisers is loaded to its last item: the parser does not   *)
(* reject it, and the heap rejects no item, faults on none and damages no   *)
(* object, whatever was loaded before; only a debug build may abort, at an  *)
(* address that does not suit its type.                                     *)
THEOREM InitialisersAreLoaded == LoadedSpec => []InitialisersLoad
<1>1. CASE Modules = {}
  <2>1. LoadedInit => FALSE
    BY <1>1 DEF LoadedInit
  <2> QED BY <2>1, PTL DEF LoadedSpec
<1>2. CASE Modules # {}
  <2> DEFINE Kept == Initialisers /\ FillsRightly
  <2>1. /\ HN!SizesAssumption /\ HN!ReachAssumption
        /\ HN!TypesAssumption /\ HN!InputsAssumption
    BY <1>2, NestedConstants
  <2>2. HN!Spec => []HN!NestedLoads
    BY <2>1, HN!NestedFilesLoad, PTL
  <2>3. LoadedInit => (Initialisers => HN!Init /\ Kept)
    BY FillsInit
  <2>4. H!TypeOK /\ TripInv /\ Kept /\ [LoadedNext]_loadedVars => Kept' /\ [HN!Next]_(HN!vars)
    BY StepFills, InitialisersStay
  <2>5. ~Initialisers /\ [LoadedNext]_loadedVars => ~Initialisers'
    BY InitialisersStay
  <2>6. LoadedSpec => []H!TypeOK
    BY LoadedHeapHolds, PTL
  <2>7. LoadedSpec => []TripInv
    BY LoadedIsLoader, InitTrip, TripStep, PTL
  <2>8. ~Initialisers => InitialisersLoad
    BY DEF InitialisersLoad
  <2>9. H!TypeOK /\ TripInv /\ Kept /\ HN!NestedLoads => InitialisersLoad
    <3> SUFFICES ASSUME H!TypeOK, TripInv, Initialisers, FillsRightly, HN!NestedLoads
                 PROVE  InitialisersLoad
      OBVIOUS
    <3>1. status # "panic"
      <4>1. Follows /\ Loads
        BY InitialisersFollowed
      <4>2. AsWritten
        BY <4>1, FollowsFacts
      <4> QED BY <4>1, <4>2 DEF AsWritten
    <3>2. heapStart <= HeapSize /\ heapStart \in Nat /\ HeapSize \in Nat
      BY HeapAssumption DEF FillsRightly, H!TypeOK
    <3>3. stage = "items" => /\ heapStatus \in {"ok", "fault", "abort"}
                             /\ heapStatus = "fault" => heapStart > HeapSize
                             /\ heapStatus = "abort" => build = "debug"
      BY DEF HN!NestedLoads
    <3> QED BY <3>1, <3>2, <3>3 DEF InitialisersLoad
  <2> HIDE DEF Kept
  <2>10. LoadedSpec /\ Initialisers => []Kept /\ HN!Spec
    BY <2>3, <2>4, <2>6, <2>7, PTL DEF LoadedSpec, HN!Spec
  <2>11. LoadedSpec /\ ~Initialisers => []~Initialisers
    BY <2>5, PTL DEF LoadedSpec
  <2> QED BY <2>2, <2>6, <2>7, <2>8, <2>9, <2>10, <2>11, PTL
<1> QED BY <1>1, <1>2
=============================================================================
