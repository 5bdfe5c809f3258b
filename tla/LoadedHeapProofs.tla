-------------------------- MODULE LoadedHeapProofs --------------------------
(***************************************************************************)
(* load_module with the heap it fills, for every layout, module and file   *)
(* of LoadedHeap: it takes the steps of DisLoader and no others, heap and  *)
(* memory keep their types, and no item reaches into the characters of a   *)
(* string.                                                                 *)
(***************************************************************************)
EXTENDS LoadedHeap, RoundTripProofs

(* A file as LoadedInit makes it: cut or damaged behind the types only.     *)
LEMMA DamagedBehind ==
  ASSUME NEW m \in Modules, NEW how \in {"none", "cut", "byte"},
         NEW f \in Damaged(m, how, Len(EncodeFront(m)), Len(EncodeFront(m)) + Len(EncodeData(m)))
  PROVE  /\ f \in Damaged(m, how, 0, Len(Encode(m)))
         /\ Len(f) <= Len(Encode(m))
         /\ \A k \in 1 .. Len(f) :
              (how = "byte" => k <= Len(Encode(m)) - Len(FromItem(m, 0))) => f[k] = Encode(m)[k]
         /\ how = "none" => Len(f) = Len(Encode(m))
         /\ how = "cut" => Len(f) < Len(Encode(m))
<1> DEFINE e == Encode(m)
           a == Len(EncodeFront(m))
           b == a + Len(EncodeData(m))
           d == Len(FromItem(m, 0))
<1>1. IsModule(m)
  BY EncoderAssumption
<1>2. e \in Octets /\ Len(e) = a + d /\ a \in Nat /\ d \in Nat /\ b \in Nat /\ b <= Len(e)
  <2>1. /\ e \in Octets /\ EncodeFront(m) \in Octets /\ e = EncodeFront(m) \o FromItem(m, 0)
        /\ EncodeData(m) \in Octets /\ FromItem(m, 0) = EncodeData(m) \o FromName(m)
    BY <1>1, EncodeOctets
  <2>2. FromItem(m, 0) \in Octets /\ FromName(m) \in Octets
    <3>1. 0 \in 0 .. Len(m.items)
      BY <1>1, ModuleTypes, LenProperties
    <3> QED BY <1>1, <3>1, RestsType
  <2>3. Len(e) = a + d /\ a \in Nat /\ d \in Nat
    BY <2>1, <2>2, OctetsConcat
  <2>4. d = Len(EncodeData(m)) + Len(FromName(m)) /\ Len(EncodeData(m)) \in Nat
        /\ Len(FromName(m)) \in Nat
    BY <2>1, <2>2, OctetsConcat
  <2> QED BY <2>1, <2>3, <2>4
<1>3. \A from, to : Damaged(m, how, from, to) =
        IF how = "none" THEN {e}
        ELSE IF how = "cut" THEN {SubSeq(e, 1, n) : n \in from .. to - 1}
        ELSE {[e EXCEPT ![n] = x] : n \in from + 1 .. to, x \in DamagedBytes} \ {e}
  BY DEF Damaged
<1>4. f \in Damaged(m, how, a, b)
  OBVIOUS
<1>5. \A k \in 1 .. Len(e) : e[k] \in Octet
  BY <1>2 DEF Octets
<1> HIDE DEF e, a, b, d
<1>6. CASE how = "none"
  BY <1>2, <1>3, <1>4, <1>6 DEF e, d
<1>7. CASE how = "cut"
  <2>1. PICK n \in a .. b - 1 : f = SubSeq(e, 1, n)
    BY <1>3, <1>4, <1>7
  <2>2. n \in 0 .. Len(e) - 1
    BY <1>2, <2>1
  <2>3. Len(f) = n /\ \A k \in 1 .. n : f[k] = e[k]
    BY <1>2, <1>5, <2>1, <2>2, SubSeqProperties DEF Octets
  <2>4. f \in Damaged(m, how, 0, Len(e))
    <3>1. Damaged(m, how, 0, Len(e)) = {SubSeq(e, 1, i) : i \in 0 .. Len(e) - 1}
      BY <1>3, <1>7
    <3> QED BY <2>1, <2>2, <3>1
  <2> QED BY <1>2, <1>7, <2>2, <2>3, <2>4 DEF e, d
<1>8. CASE how = "byte"
  <2>1. PICK n \in a + 1 .. b, x \in DamagedBytes : f = [e EXCEPT ![n] = x] /\ f # e
    BY <1>3, <1>4, <1>8
  <2>2. n \in 1 .. Len(e)
    BY <1>2, <2>1
  <2>3. Len(f) = Len(e) /\ \A k \in 1 .. Len(e) : k # n => f[k] = e[k]
    BY <1>2, <2>1, <2>2, ExceptSeq DEF Octets
  <2>4. f \in Damaged(m, how, 0, Len(e))
    BY <1>3, <1>8, <2>1, <2>2
  <2>5. \A k \in 1 .. Len(f) : k <= Len(e) - d => f[k] = e[k]
    BY <1>2, <2>1, <2>2, <2>3
  <2> QED BY <1>2, <1>8, <2>3, <2>4, <2>5 DEF e, d
<1> QED BY <1>6, <1>7, <1>8

-----------------------------------------------------------------------------
(* Where the loader stands while the heap is filled.                        *)

(* As many types are described as the layout has: whatever happens to the   *)
(* data section, what stands before it is as it was written.                *)
Described ==
  /\ Begins
  /\ section = "magic" => offset = 0
  /\ section = "header" => Reads(offset, FromHeader(mod))
  /\ section \notin Unopened => TypeCount = Len(mod.types)

Filling == LoadInv /\ Described

(* The loader begins before the header, with such a file.                   *)
LEMMA InitFilling == LoadedInit => Init /\ Filling
<1> SUFFICES ASSUME LoadedInit PROVE Init /\ Filling
  OBVIOUS
<1>1. mod \in Modules /\ damage \in Damage[mod] /\ damage \in {"none", "cut", "byte"}
  BY EncoderAssumption DEF LoadedInit
<1>2. file \in Damaged(mod, damage, Len(EncodeFront(mod)),
                       Len(EncodeFront(mod)) + Len(EncodeData(mod)))
  BY DEF LoadedInit, InitWith
<1>3. /\ file \in Damaged(mod, damage, 0, Len(Encode(mod)))
      /\ Begins
  BY <1>1, <1>2, DamagedBehind DEF Begins, Whole
<1>4. Init
  BY <1>1, <1>3 DEF LoadedInit, Init, InitWith
<1>5. section = "magic" /\ offset = 0
  BY DEF LoadedInit, InitWith
<1>6. Described
  BY <1>3, <1>5 DEF Described, Unopened
<1> QED BY <1>4, <1>6, InitInv DEF Filling

(* The header is read once.                                                 *)
LEMMA HeaderStays ==
  ASSUME dis \in Parsed, [Next]_vars, ~ReadHeader
  PROVE  dis'.header = dis.header
<1>1. /\ DOMAIN dis = {"signature", "header", "code", "types", "name", "links", "imports",
                       "handler", "path"}
      /\ dis = [f \in DOMAIN dis |-> dis[f]]
  BY DEF Parsed
<1>2. CASE UNCHANGED dis
  BY <1>2
<1>3. CASE ReadMagic
  BY <1>1, <1>3 DEF ReadMagic, Panic
<1>4. CASE ReadInstruction \/ ReadType
  BY <1>1, <1>4 DEF ReadInstruction, ReadType, Panic
<1>5. CASE ReadName \/ ReadLink \/ ReadPath
  BY <1>1, <1>5 DEF ReadName, ReadLink, ReadPath, Panic
<1>6. CASE ReadImportModule \/ ReadImport \/ BeginImports
  BY <1>1, <1>6 DEF ReadImportModule, ReadImport, BeginImports, Panic
<1>7. CASE BeginHandlers \/ EndHandlers \/ ReadHandler
  BY <1>1, <1>7 DEF BeginHandlers, EndHandlers, ReadHandler, Panic
<1>8. CASE CreateHeap \/ ReadItem \/ EndData \/ EndLoop \/ EndImports \/ HeapStops
  BY <1>8 DEF CreateHeap, ReadItem, EndData, EndLoop, EndImports, HeapStops, Panic
<1> QED BY <1>2, <1>3, <1>4, <1>5, <1>6, <1>7, <1>8 DEF Next, Parse, vars

(* The header of such a file says how many types the layout has.            *)
LEMMA DescribedStep ==
  ASSUME LoadInv, Described, [Next]_vars
  PROVE  Described'
<1>1. UNCHANGED <<mod, file, damage>>
  BY FileStays
<1>2. Begins'
  BY <1>1 DEF Described, Begins, Whole
<1>3. file \in Octets /\ offset \in Nat /\ dis \in Parsed /\ Begins /\ IsModule(mod)
  BY ModuleWritten DEF LoadInv, TypeOK, Described, Begins
<1>4. \A at, r : Reads(at, r) => Reads(at, r)'
  BY <1>1 DEF Reads, RunsOn
<1>5. CASE ReadMagic
  <2> DEFINE m == Operands(0, 1)
             l == Operands(0, 2)
             n == ToUsize(l.val[2])
             g == mod.signature
             r == FromHeader(mod)
  <2>1. \/ m.ok /\ m.val[1] = XMAGIC /\ Move(m.at, "header") /\ UNCHANGED dis
        \/ /\ m.ok /\ m.val[1] = SMAGIC /\ l.ok /\ Has(l.at, n)
           /\ Move(l.at + n, "header")
        \/ section' = section
    BY <1>5 DEF ReadMagic, Panic, cursor
  <2>2. /\ m.ok => /\ m.val[1] = (IF g = <<>> THEN XMAGIC ELSE SMAGIC)
                   /\ g = <<>> => Reads(m.at, r)
        /\ g # <<>> /\ l.ok => l.at \in Nat /\ l.val[2] = Len(g) /\ Reads(l.at, g \o r)
    BY <1>3, MagicRead
  <2>3. g \in Octets /\ r \in Octets /\ Len(g) \in Count /\ XMAGIC # SMAGIC /\ Clear(r)
    BY <1>3, RestsType, ModuleTypes, ModuleCounts, MagicFits, FrontLong DEF Clear
  <2>4. g # <<>> /\ l.ok => n = Len(g)
    BY <2>2, <2>3, CountComesBack
  <2> HIDE DEF m, l, n, g, r
  <2>5. g # <<>> /\ l.ok /\ Has(l.at, n) => Reads(l.at + n, r)
    BY <1>3, <2>2, <2>3, <2>4, SliceClear
  <2>6. At("magic") /\ section = "magic"
    BY <1>5 DEF ReadMagic, At
  <2>7. CASE section' = "header"
    <3>1. Reads(offset', r)
      BY <2>1, <2>2, <2>3, <2>5, <2>6, <2>7 DEF Move
    <3> QED BY <1>1, <1>2, <1>4, <2>7, <3>1 DEF Described, Unopened, r
  <2>8. CASE section' = section
    <3>1. offset' = offset
      BY <1>5, <2>6, <2>8 DEF ReadMagic, Panic, cursor, Move
    <3> QED BY <1>2, <2>6, <2>8, <3>1 DEF Described, Unopened
  <2> QED BY <2>1, <2>7, <2>8 DEF Move
<1>6. CASE ReadHeader
  <2> DEFINE h == Operands(offset, 8)
             u == AllUnsigned(Header(mod), mod.wide)
  <2>1. /\ section = "header"
        /\ IF HeaderValid(h)
           THEN dis' = [dis EXCEPT !.header = h.val] /\ Move(h.at, "code")
           ELSE Panic
    BY <1>6 DEF ReadHeader, At
  <2>2. h.ok => HeaderValid(h) /\ h.val = u
    BY <1>3, <2>1, HeaderRightly DEF Described
  <2>3. u[5] = Len(mod.types)
    BY <1>3, HeaderVals
  <2> HIDE DEF h, u
  <2>4. CASE HeaderValid(h)
    <3>1. dis'.header = u
      BY <1>3, <2>1, <2>2, <2>4, SetHeader DEF HeaderValid
    <3>2. section' = "code"
      BY <2>1, <2>4 DEF Move
    <3> QED BY <1>1, <1>2, <2>3, <3>1, <3>2 DEF Described, TypeCount
  <2>5. CASE ~HeaderValid(h)
    <3>1. section' = section /\ offset' = offset /\ dis' = dis
      BY <2>1, <2>5 DEF Panic, cursor
    <3> QED BY <1>1, <1>2, <1>4, <2>1, <3>1 DEF Described, Unopened
  <2> QED BY <2>4, <2>5
<1>7. CASE ~ReadMagic /\ ~ReadHeader
  <2>1. UNCHANGED <<offset, section>> \/ (section \notin Unopened /\ section' \notin Unopened)
    BY <1>7 DEF Next, Parse, vars, cursor, Unopened, At, Move, Panic, ReadInstruction, ReadType,
       EndLoop, CreateHeap, ReadItem, EndData, ReadName, ReadLink, BeginImports, ReadImportModule,
       ReadImport, EndImports, BeginHandlers, ReadHandler, EndHandlers, ReadPath, HeapStops
  <2>2. dis'.header = dis.header
    BY <1>3, <1>7, HeaderStays
  <2>3. CASE UNCHANGED <<offset, section>>
    BY <1>1, <1>2, <1>4, <2>2, <2>3 DEF Described, TypeCount
  <2>4. CASE section \notin Unopened /\ section' \notin Unopened
    BY <1>1, <1>2, <2>2, <2>4 DEF Described, TypeCount, Unopened
  <2> QED BY <2>1, <2>3, <2>4
<1> QED BY <1>5, <1>6, <1>7

(* The loader with a heap takes the loader's steps: what the heap adds is    *)
(* only when it stops.                                                      *)
LEMMA LoadedIsNext ==
  ASSUME [LoadedNext]_loadedVars
  PROVE  [Next]_vars
<1>1. CASE LoadItem
  <2>1. At("data") /\ (Has(offset, 1) => Byte(offset) # 0)
    BY <1>1 DEF LoadItem
  <2>2. CASE Has(offset, 1) /\ ItemValid(Byte(offset), ItemOperands)
    <3>1. Then(ReadItem)
      BY <1>1, <2>2 DEF LoadItem
    <3>2. ReadItem \/ HeapStops
      BY <3>1 DEF Then
    <3> QED BY <3>2 DEF Next, Parse
  <2>3. CASE ~(Has(offset, 1) /\ ItemValid(Byte(offset), ItemOperands))
    <3>1. ReadItem
      BY <1>1, <2>3 DEF LoadItem
    <3> QED BY <3>1 DEF Next, Parse
  <2> QED BY <2>2, <2>3
<1>2. CASE EndItems
  BY <1>2 DEF EndItems
<1>3. CASE ProbeHeap
  <2>1. EndData \/ HeapStops
    BY <1>3 DEF ProbeHeap, Then
  <2> QED BY <2>1 DEF Next, Parse
<1>4. CASE Elsewhere
  BY <1>4 DEF Elsewhere, Next
<1>5. CASE UNCHANGED loadedVars
  BY <1>5 DEF loadedVars
<1> QED BY <1>1, <1>2, <1>3, <1>4, <1>5 DEF LoadedNext

(* Every step keeps this.                                                   *)
LEMMA FillingStep ==
  ASSUME Filling, [LoadedNext]_loadedVars
  PROVE  Filling'
<1>1. [Next]_vars /\ LoadInv /\ Described
  BY LoadedIsNext DEF Filling
<1> QED BY <1>1, LoadStep, DescribedStep DEF Filling

(* The loader that fills a real heap is the one DisLoader describes: it     *)
(* begins as that does and takes no step that is not one of its, whatever   *)
(* the heap makes of the items.                                             *)
THEOREM LoadedIsLoader == LoadedSpec => Init /\ [][Next]_vars
<1>1. LoadedInit => Init /\ Filling
  BY InitFilling
<1>2. [LoadedNext]_loadedVars => [Next]_vars
  BY LoadedIsNext
<1> QED BY <1>1, <1>2, PTL DEF LoadedSpec

-----------------------------------------------------------------------------
(* An item, from its bytes to the arguments of load_data.                   *)

(* The types the heap allocates by are those of the module.                 *)
LEMMA LayoutFacts ==
  ASSUME NEW m \in Modules
  PROVE  /\ IsModule(m) /\ m.types = Layout /\ Layout \in Seq(Types)
         /\ Len(Layout) \in Nat \ {0}
         /\ DOMAIN TypeSize = 0 .. Len(Layout) - 1
         /\ \A t \in DOMAIN TypeSize : TypeSize[t] \in Int
         /\ Layout[1].size \in Nat /\ Layout[1].map \in Octets
<1>1. IsModule(m) /\ m.types = Layout /\ \A d \in ToSet(Layout) : d.size >= 0
  BY EncoderAssumption, LayoutAssumption
<1>2. Layout \in Seq(Types) /\ m.etype \in Count
  BY <1>1, ModuleTypes
<1>3. m.etype < Len(Layout)
  BY <1>1 DEF IsModule
<1>4. Len(Layout) \in Nat \ {0} /\ DOMAIN Layout = 1 .. Len(Layout)
      /\ \A k \in 1 .. Len(Layout) : Layout[k] \in Types
  BY <1>2, <1>3, LenProperties, ElementOfSeq DEF Count
<1>5. \A k \in 1 .. Len(Layout) : Layout[k].size \in Int /\ Layout[k].map \in Octets
  BY <1>4, NumberInt DEF Types
<1>6. DOMAIN TypeSize = 0 .. Len(Layout) - 1
      /\ \A t \in DOMAIN TypeSize : TypeSize[t] = Layout[t + 1].size
  BY DEF TypeSize
<1>7. Layout[1].size >= 0
  <2>1. Layout[1] \in ToSet(Layout)
    BY <1>4 DEF ToSet
  <2> QED BY <1>1, <2>1
<1>8. \A t \in DOMAIN TypeSize : t + 1 \in 1 .. Len(Layout)
  BY <1>4, <1>6
<1> QED BY <1>1, <1>2, <1>4, <1>5, <1>6, <1>7, <1>8

(* The first words of an item's bytes are those of the file.                *)
LEMMA WordOfSlice ==
  ASSUME file \in Octets, NEW at \in Nat, NEW n \in Nat, at + n <= Len(file),
         NEW p \in Nat, p + 4 <= n
  PROVE  ParseWord(SubSeq(file, at + 1, at + n), p) = ParseWord(file, at + p)
<1> DEFINE d == SubSeq(file, at + 1, at + n)
<1>1. Len(file) \in Nat /\ \A k \in 1 .. Len(file) : file[k] \in Octet
  BY DEF Octets
<1>2. d \in Octets /\ Len(d) = n /\ \A k \in 1 .. n : d[k] = file[at + k]
  <2>1. \A k \in at + 1 .. at + n : file[k] \in Octet
    BY <1>1
  <2>2. /\ d \in Seq(Octet)
        /\ Len(d) = IF at + 1 <= at + n THEN at + n - (at + 1) + 1 ELSE 0
        /\ \A k \in 1 .. at + n - (at + 1) + 1 : d[k] = file[at + 1 + k - 1]
    BY <2>1, SubSeqProperties
  <2>3. at + n - (at + 1) + 1 = n /\ \A k \in 1 .. n : at + 1 + k - 1 = at + k
    OBVIOUS
  <2>4. Len(d) = n
    BY <2>2
  <2> QED BY <2>2, <2>3, <2>4 DEF Octets
<1> HIDE DEF d
<1>3. /\ d \in Octets /\ p + 4 <= Len(d)
      /\ \A k \in 1 .. Len(d) : file[at + k] = d[k]
  BY <1>2
<1>4. ParseWord(file, at + p) = ParseWord(d, p)
  <2> DEFINE q == at + p
  <2>1. q = at + p
    OBVIOUS
  <2> HIDE DEF q
  <2>2. ParseWord(file, q) = ParseWord(d, p)
    BY <1>3, <2>1, WordInside
  <2> QED BY <2>2 DEF q
<1> QED BY <1>4 DEF d

(* What the loader hands to the heap: the bytes its type and count ask for, *)
(* an offset, and for an array and an index numbers the heap can take.      *)
LEMMA ItemMeans ==
  ASSUME Filling, At("data"), Has(offset, 1), ItemValid(Byte(offset), ItemOperands)
  PROVE  LET code  == Byte(offset)
             o     == ItemOperands
             typ   == code \div 16
             count == DataCount(code, o)
             data  == SubSeq(file, o.at + 1, AfterItem(code, o))
         IN
         /\ typ \in DataTypes /\ count \in Nat /\ ItemOffset(o) \in Nat
         /\ data \in Octets /\ Len(data) = ItemBytes(typ, count)
         /\ typ = 5 => ParseWord(data, 0) \in DOMAIN TypeSize /\ ParseWord(data, 4) \in Nat
         /\ typ = 6 => ParseWord(data, 0) \in Nat
<1> DEFINE code  == Byte(offset)
           o     == ItemOperands
           typ   == code \div 16
           count == DataCount(code, o)
           n     == Payload(typ, count)
           data  == SubSeq(file, o.at + 1, AfterItem(code, o))
<1>1. file \in Octets /\ offset \in Nat /\ mod \in Modules /\ Len(file) \in Nat
  BY DEF Filling, LoadInv, TypeOK, Octets
<1>2. /\ o.ok /\ count >= 0 /\ typ \in DataTypes /\ Has(o.at, n)
      /\ OperandsInRange(typ, o.at)
  BY DEF ItemValid
<1>3. /\ code \in Octet /\ o.at \in Nat /\ o.val \in Seq(Int) /\ Len(o.val) \in 1 .. 2
      /\ count \in Nat
  <2>1. /\ code \in Octet /\ o.at \in Nat /\ o.val \in Seq(Int) /\ count \in Int
        /\ Len(o.val) = IF code % 16 = 0 THEN 2 ELSE 1
    BY <1>1, <1>2, ItemOperandsType
  <2> HIDE DEF count, o, code
  <2> QED BY <1>2, <2>1
<1>4. ItemOffset(o) \in Nat
  <2>1. o.val[Len(o.val)] \in Int
    <3> DEFINE v == o.val
    <3> HIDE DEF v
    <3>1. v \in Seq(Int) /\ Len(v) \in 1 .. 2
      BY <1>3 DEF v
    <3>2. v[Len(v)] \in Int
      BY <3>1
    <3> QED BY <3>2 DEF v
  <2> QED BY <2>1, CountType DEF ItemOffset
<1>5. n \in Nat /\ o.at + n <= Len(file) /\ n = ItemBytes(typ, count)
  <2>1. n \in Nat
    BY <1>1, <1>2, <1>3, PayloadIs
  <2>2. o.at + n <= Len(file)
    BY <1>2 DEF Has
  <2>3. n <= Len(file)
    BY <1>1, <1>3, <2>1, <2>2
  <2> QED BY <1>1, <1>2, <1>3, <2>1, <2>2, <2>3, PayloadIs
<1>6. AfterItem(code, o) = o.at + n
  BY DEF AfterItem
<1>7. data \in Octets /\ Len(data) = n
  <2>1. data = SubSeq(file, o.at + 1, o.at + n)
    BY <1>6
  <2>2. o.at + 1 \in Nat /\ o.at + 1 > 0 /\ o.at + n \in Int /\ file \in Seq(Octet)
        /\ (IF o.at + 1 <= o.at + n THEN o.at + n - (o.at + 1) + 1 ELSE 0) = n
    BY <1>1, <1>3, <1>5 DEF Octets
  <2> DEFINE a == o.at
             b == a + n
  <2>3. a + 1 \in Nat /\ a + 1 > 0 /\ b \in Int /\ b <= Len(file) /\ file \in Seq(Octet)
    BY <1>5, <2>2
  <2>4. a \in Nat /\ n \in Nat /\ b = a + n
    BY <1>3, <1>5
  <2> HIDE DEF a, b, n
  <2>6. (IF a + 1 <= b THEN b - (a + 1) + 1 ELSE 0) = n
    BY <2>4
  <2>5. SubSeq(file, a + 1, b) \in Seq(Octet) /\ Len(SubSeq(file, a + 1, b)) = n
    BY <2>3, <2>6, SubSeqType
  <2> QED BY <2>1, <2>5 DEF Octets, a, b
<1>8. \A p \in Nat : p + 4 <= n => ParseWord(data, p) = ParseWord(file, o.at + p)
  <2> DEFINE a == o.at
  <2>1. a \in Nat /\ a + n <= Len(file) /\ n \in Nat
    BY <1>3, <1>5
  <2>2. data = SubSeq(file, a + 1, a + n)
    BY <1>6
  <2> HIDE DEF a, n
  <2>3. \A p \in Nat : p + 4 <= n => ParseWord(SubSeq(file, a + 1, a + n), p) = ParseWord(file, a + p)
    BY <1>1, <2>1, WordOfSlice
  <2> QED BY <2>2, <2>3 DEF a
<1>9. ASSUME typ = 5
      PROVE  ParseWord(data, 0) \in DOMAIN TypeSize /\ ParseWord(data, 4) \in Nat
  <2>1. n = 8
    BY <1>5, <1>9 DEF ItemBytes
  <2>2. ParseWord(data, 0) = ParseWord(file, o.at) /\ ParseWord(data, 4) = ParseWord(file, o.at + 4)
    BY <1>3, <1>8, <2>1
  <2>3. ParseWord(file, o.at) \in 0 .. Len(dis.types) - 1 /\ ParseWord(file, o.at + 4) >= 0
    BY <1>2, <1>9 DEF OperandsInRange
  <2>4. ParseWord(file, o.at + 4) \in Int
    BY <1>1, <1>3, <1>5, <2>1, WordType DEF Has
  <2>5. Len(dis.types) = Len(Layout)
    <3>1. Len(dis.types) = TypeCount /\ TypeCount = Len(mod.types)
      BY DEF Filling, LoadInv, TypesCounted, Described, Unopened, At
    <3> QED BY <1>1, <3>1, LayoutFacts
  <2> QED BY <1>1, <2>2, <2>3, <2>4, <2>5, LayoutFacts
<1>10. ASSUME typ = 6
       PROVE  ParseWord(data, 0) \in Nat
  <2>1. n = 4
    BY <1>5, <1>10 DEF ItemBytes
  <2>2. ParseWord(data, 0) = ParseWord(file, o.at)
    BY <1>3, <1>8, <2>1
  <2>3. ParseWord(file, o.at) >= 0
    BY <1>2, <1>10 DEF OperandsInRange
  <2>4. ParseWord(file, o.at) \in Int
    BY <1>1, <1>3, <1>5, <2>1, WordType DEF Has
  <2> QED BY <2>2, <2>3, <2>4
<1> QED BY <1>2, <1>3, <1>4, <1>5, <1>7, <1>9, <1>10

(* Numbers are stored in four widths.                                       *)
LEMMA WidthOf ==
  /\ DOMAIN ScalarWidth = {1, 2, 4, 8}
  /\ ScalarWidth[1] = 1 /\ ScalarWidth[2] = 4 /\ ScalarWidth[4] = 8 /\ ScalarWidth[8] = 8
  BY DEF ScalarWidth

(* Decoding a string leaves bytes.                                          *)
LEMMA LossyType ==
  ASSUME NEW bytes \in Octets
  PROVE  Lossy(bytes) \in Octets /\ Len(Lossy(bytes)) \in Nat
<1> DEFINE s == [k \in 1 .. Len(bytes) |->
                   IF bytes[k] < 128 \/ Pair(bytes, k) \/ Pair(bytes, k - 1) THEN <<bytes[k]>>
                   ELSE Replacement]
<1>1. Len(bytes) \in Nat /\ \A k \in 1 .. Len(bytes) : bytes[k] \in Octet
  BY DEF Octets
<1>2. \A b \in Octet : <<b>> \in Octets
  BY OneOctet
<1>3. Replacement \in Octets
  BY DEF Replacement, Octets, Octet
<1>4. s \in Seq(Octets)
  BY <1>1, <1>2, <1>3
<1>5. Lossy(bytes) = FlattenSeq(s)
  BY DEF Lossy
<1> HIDE DEF s
<1>6. FlattenSeq(s) \in Octets
  BY <1>4, FlattenOctets
<1> QED BY <1>5, <1>6 DEF Octets

(* What the loader hands to the heap is a call the heap expects.            *)
LEMMA ItemIsCall ==
  ASSUME Filling, LoadItem
  PROVE  H!Next
<1> DEFINE code  == Byte(offset)
           o     == ItemOperands
           typ   == code \div 16
           count == DataCount(code, o)
           off   == ItemOffset(o)
           data  == SubSeq(file, o.at + 1, AfterItem(code, o))
<1>1. At("data")
  BY DEF LoadItem
<1>2. CASE Has(offset, 1) /\ ItemValid(code, o)
  <2>1. HeapItem(typ, count, off, data)
    BY <1>2 DEF LoadItem
  <2>2. /\ typ \in DataTypes /\ count \in Nat /\ off \in Nat /\ data \in Octets
        /\ typ = 5 => ParseWord(data, 0) \in DOMAIN TypeSize /\ ParseWord(data, 4) \in Nat
        /\ typ = 6 => ParseWord(data, 0) \in Nat
    BY <1>1, <1>2, ItemMeans
  <2> HIDE DEF code, o, typ, count, off, data
  <2>3. CASE Scalars(typ, count, off, data)
    <3>1. typ \in DOMAIN ScalarWidth /\ H!LoadScalars(ScalarWidth[typ], count, off)
      BY <2>3 DEF Scalars
    <3>2. ScalarWidth[typ] \in {1, 4, 8}
      BY <3>1, WidthOf
    <3> QED BY <2>2, <3>1, <3>2 DEF H!Next, H!Widths
  <2>4. CASE String(typ, off, data)
    <3>1. H!LoadString(Len(Lossy(data)), off)
      BY <2>4 DEF String
    <3> QED BY <2>2, <3>1, LossyType DEF H!Next
  <2>5. CASE Array(typ, off, data)
    <3>1. typ = 5 /\ H!LoadArray(ParseWord(data, 0), ParseWord(data, 4), off)
      BY <2>5 DEF Array
    <3> QED BY <2>2, <3>1 DEF H!Next
  <2>6. CASE Index(typ, off, data)
    <3>1. typ = 6 /\ H!SetIndex(ParseWord(data, 0), off)
      BY <2>6 DEF Index
    <3> QED BY <2>2, <3>1 DEF H!Next
  <2>7. CASE RestoreBase(typ)
    BY <2>7 DEF RestoreBase, H!Next
  <2> QED BY <2>1, <2>3, <2>4, <2>5, <2>6, <2>7 DEF HeapItem
<1>3. CASE ~(Has(offset, 1) /\ ItemValid(code, o))
  BY <1>3 DEF LoadItem, H!Next
<1> QED BY <1>2, <1>3

(* So is what the loader does to the heap besides.                          *)
LEMMA LoadedIsCall ==
  ASSUME Filling, [LoadedNext]_loadedVars
  PROVE  [H!Next]_(H!vars)
<1>1. CASE LoadItem
  BY <1>1, ItemIsCall
<1>2. CASE EndItems
  BY <1>2 DEF EndItems, H!Next
<1>3. CASE ProbeHeap
  BY <1>3 DEF ProbeHeap, H!Next
<1>4. CASE Elsewhere \/ UNCHANGED loadedVars
  BY <1>4 DEF Elsewhere, loadedVars, heapVars, H!vars, H!heapVars, H!auxVars
<1> QED BY <1>1, <1>2, <1>3, <1>4 DEF LoadedNext

(* The heap that a file fills is the one ModuleHeap describes, with a file  *)
(* nobody vouches for: from any bytes the loader makes calls that the       *)
(* theorems about ModuleHeap cover, of the types the layout has and with    *)
(* offsets, lengths and indexes that are not negative, and no others.       *)
THEOREM LoadedIsHeap == LoadedSpec => H!Spec
<1>1. LoadedInit => Filling /\ H!Init
  BY InitFilling DEF LoadedInit
<1>2. Filling /\ [LoadedNext]_loadedVars => Filling' /\ [H!Next]_(H!vars)
  BY FillingStep, LoadedIsCall
<1> QED BY <1>1, <1>2, PTL DEF LoadedSpec, H!Spec

-----------------------------------------------------------------------------
(* What ModuleHeapProofs shows of every heap holds of this one.             *)
HP == INSTANCE ModuleHeapProofs WITH
        DataSize <- Layout[1].size, Types <- DOMAIN TypeSize,
        Maps <- {DescMap(Layout[1])}, Producers <- {"any"},
        Offsets <- Nat, Lengths <- Nat, Indexes <- Nat,
        MaxItems <- ItemBound, status <- heapStatus

(* The constants are such as ModuleHeap asks for.                           *)
LEMMA HeapConstants ==
  ASSUME NEW m \in Modules
  PROVE  /\ HP!SizesAssumption /\ HP!ReachAssumption
         /\ HP!TypesAssumption /\ HP!InputsAssumption
<1>1. /\ Layout[1].size \in Nat /\ Layout[1].map \in Octets
      /\ DOMAIN TypeSize = 0 .. Len(Layout) - 1 /\ Len(Layout) \in Nat
      /\ \A t \in DOMAIN TypeSize : TypeSize[t] \in Int
  BY LayoutFacts
<1>2. HP!SizesAssumption /\ HP!ReachAssumption
  BY <1>1, HeapAssumption DEF HP!SizesAssumption, HP!ReachAssumption, H!Word, HP!Word
<1>3. HP!TypesAssumption
  <2> DEFINE f == Layout[1].map
             g == [k \in DOMAIN f |-> MapBits(f[k])]
  <2>1. Len(f) \in Nat /\ DOMAIN f = 1 .. Len(f)
    BY <1>1 DEF Octets
  <2>2. DescMap(Layout[1]) = g
    BY DEF DescMap
  <2> HIDE DEF f
  <2>3. g \in Seq(SUBSET (0 .. 7))
    BY <2>1 DEF MapBits
  <2>4. DescMap(Layout[1]) \in Seq(HP!MapByte)
    BY <2>2, <2>3 DEF HP!MapByte
  <2>5. TypeSize \in [DOMAIN TypeSize -> Int] /\ DOMAIN TypeSize \subseteq Nat
    <3>1. TypeSize = [t \in DOMAIN TypeSize |-> TypeSize[t]]
      BY DEF TypeSize
    <3> QED BY <1>1, <3>1
  <2> QED BY <2>4, <2>5 DEF HP!TypesAssumption
<1>4. HP!InputsAssumption
  <2>1. ItemBound \in [{"any"} \X Builds -> Nat]
    BY DEF ItemBound, Huge
  <2> QED BY <2>1, HeapAssumption DEF HP!InputsAssumption, HP!Sound
<1> QED BY <1>2, <1>3, <1>4

(* The two instances are one heap.                                          *)
LEMMA SameHeap ==
  /\ HP!Init <=> H!Init
  /\ HP!Next <=> H!Next
  /\ HP!vars = H!vars
  /\ HP!TypeOK <=> H!TypeOK
  /\ HP!ObjectsDisjoint <=> H!ObjectsDisjoint
  /\ HP!ElementsFit <=> H!ElementsFit
  /\ HP!PointersResolve <=> H!PointersResolve
  /\ HP!RcCountsArrays <=> H!RcCountsArrays
<1>1. HP!Init <=> H!Init
  BY DEF H!PtrSize, HP!PtrSize, H!VM_NULLPTR, HP!VM_NULLPTR, H!Nowhere, HP!Nowhere, H!Sound,
         HP!Sound, H!ModuleBase, HP!ModuleBase, H!Mapped, HP!Mapped, H!NoArray, HP!NoArray,
         H!SetupPointers, HP!SetupPointers, H!MarksFit, HP!MarksFit, H!Init, HP!Init,
         H!MarkedWords, HP!MarkedWords
<1>2. HP!Next <=> H!Next
  <2>1. \A w, c, f : HP!LoadScalars(w, c, f) <=> H!LoadScalars(w, c, f)
    BY DEF H!ObjectHeader, HP!ObjectHeader, H!ArrayHeader, HP!ArrayHeader, H!PtrSize,
           HP!PtrSize, H!Nowhere, HP!Nowhere, H!Sound, HP!Sound, H!Word, HP!Word, H!Arrays,
           HP!Arrays, H!Payload, HP!Payload, H!Elements, HP!Elements, H!EndOf, HP!EndOf,
           H!HeadEnd, HP!HeadEnd, H!Dest, HP!Dest, H!Limit, HP!Limit, H!InBounds, HP!InBounds,
           H!Overlap, HP!Overlap, H!Mapped, HP!Mapped, H!Hits, HP!Hits, H!Outcome, HP!Outcome,
           H!Ends, HP!Ends, H!Erase, HP!Erase, H!Fits, HP!Fits, H!Emits, HP!Emits, H!Call,
           HP!Call, H!Turn, HP!Turn, H!Hosted, HP!Hosted, H!Item, HP!Item, H!LoadScalars,
           HP!LoadScalars, H!MapByte, HP!MapByte
  <2>2. \A n, f : HP!LoadString(n, f) <=> H!LoadString(n, f)
    BY DEF H!ObjectHeader, HP!ObjectHeader, H!StringHeader, HP!StringHeader,
           H!ArrayHeader, HP!ArrayHeader, H!ObjectAlign, HP!ObjectAlign, H!PtrSize, HP!PtrSize,
           H!Nowhere, HP!Nowhere, H!Sound, HP!Sound, H!Word, HP!Word, H!StringObject,
           HP!StringObject, H!Arrays, HP!Arrays, H!Payload, HP!Payload, H!Elements, HP!Elements,
           H!EndOf, HP!EndOf, H!HeadEnd, HP!HeadEnd, H!Align4, HP!Align4, H!FreePtr, HP!FreePtr,
           H!Carries, HP!Carries, H!StartAfter, HP!StartAfter, H!Dest, HP!Dest, H!Limit,
           HP!Limit, H!InBounds, HP!InBounds, H!Overlap, HP!Overlap, H!Mapped, HP!Mapped, H!Hits,
           HP!Hits, H!Outcome, HP!Outcome, H!Placing, HP!Placing, H!Ends, HP!Ends, H!Erase,
           HP!Erase, H!StorePtr, HP!StorePtr, H!Fits, HP!Fits, H!Emits, HP!Emits, H!EmitsString,
           HP!EmitsString, H!Call, HP!Call, H!Turn, HP!Turn, H!Hosted, HP!Hosted, H!Item,
           HP!Item, H!Stores, HP!Stores, H!StringEnd, HP!StringEnd, H!LoadString, HP!LoadString,
           H!MapByte, HP!MapByte
  <2>3. \A t, n, f : HP!LoadArray(t, n, f) <=> H!LoadArray(t, n, f)
    <3>1. /\ HP!FreePtr = H!FreePtr
          /\ \A a, t, n : HP!ArrayObject(a, t, n) = H!ArrayObject(a, t, n)
          /\ \A t, n : HP!Overflows(t, n) <=> H!Overflows(t, n)
      BY DEF H!ObjectHeader, HP!ObjectHeader, H!ArrayHeader, HP!ArrayHeader, H!Sound, HP!Sound,
             H!Word, HP!Word, H!IsI32, HP!IsI32, H!I32, HP!I32, H!AsUsize, HP!AsUsize, H!ArrayObject,
             HP!ArrayObject, H!Align4, HP!Align4, H!FreePtr, HP!FreePtr, H!Carries, HP!Carries,
             H!Overflows, HP!Overflows, H!MapByte, HP!MapByte
    <3>2. \A o, f : HP!ArrayEnd(o, f) = H!ArrayEnd(o, f)
      BY DEF H!ObjectHeader, HP!ObjectHeader, H!ArrayHeader, HP!ArrayHeader, H!PtrSize,
             HP!PtrSize, H!Sound, HP!Sound, H!Word, HP!Word, H!Payload, HP!Payload, H!Elements,
             HP!Elements, H!EndOf, HP!EndOf, H!HeadEnd, HP!HeadEnd, H!Align4, HP!Align4, H!Carries,
             HP!Carries, H!StartAfter, HP!StartAfter, H!Dest, HP!Dest, H!Limit, HP!Limit, H!InBounds,
             HP!InBounds, H!Overlap, HP!Overlap, H!Mapped, HP!Mapped, H!Hits, HP!Hits, H!Outcome,
             HP!Outcome, H!Placing, HP!Placing, H!ArrayEnd, HP!ArrayEnd, H!MapByte, HP!MapByte
    <3>3. \A s, u : HP!Ends(s, u) = H!Ends(s, u)
      BY DEF H!Ends, HP!Ends
    <3>4. /\ \A o : HP!HeadEnd(o) = H!HeadEnd(o) /\ HP!Payload(o) = H!Payload(o)
          /\ \A f : HP!Dest(f) = H!Dest(f)
          /\ \A x : HP!StartAfter(x) = H!StartAfter(x)
      BY DEF H!ObjectHeader, HP!ObjectHeader, H!ArrayHeader, HP!ArrayHeader, H!Payload,
             HP!Payload, H!Elements, HP!Elements, H!EndOf, HP!EndOf, H!HeadEnd, HP!HeadEnd, H!Align4,
             HP!Align4, H!Carries, HP!Carries, H!StartAfter, HP!StartAfter, H!Dest, HP!Dest
    <3>5. /\ \A ss, a, w : HP!Erase(ss, a, w) = H!Erase(ss, a, w)
          /\ \A ss, a, p : HP!StorePtr(ss, a, p) = H!StorePtr(ss, a, p)
      BY DEF H!PtrSize, HP!PtrSize, H!Overlap, HP!Overlap, H!Erase, HP!Erase, H!StorePtr,
             HP!StorePtr
    <3>6. \A f, w : HP!Turn /\ HP!Emits(f, w) <=> H!Turn /\ H!Emits(f, w)
      BY DEF H!ObjectHeader, HP!ObjectHeader, H!ArrayHeader, HP!ArrayHeader, H!Sound, HP!Sound,
             H!Arrays, HP!Arrays, H!Payload, HP!Payload, H!Fits, HP!Fits, H!Emits, HP!Emits, H!Call,
             HP!Call, H!Turn, HP!Turn
    <3> QED
      BY <3>1, <3>2, <3>3, <3>4, <3>5, <3>6
      DEF H!LoadArray, HP!LoadArray, H!EmitsArray, HP!EmitsArray, H!Stores, HP!Stores,
          H!CountArray, HP!CountArray, H!ObjectAlign, HP!ObjectAlign, H!PtrSize, HP!PtrSize,
          H!Sound, HP!Sound, H!Nowhere, HP!Nowhere
  <2>4. \A i, f : HP!SetIndex(i, f) <=> H!SetIndex(i, f)
    BY DEF H!ObjectHeader, HP!ObjectHeader, H!ArrayHeader, HP!ArrayHeader, H!VM_NULLPTR,
           HP!VM_NULLPTR, H!Nowhere, HP!Nowhere, H!Sound, HP!Sound, H!ArrayBase, HP!ArrayBase,
           H!Arrays, HP!Arrays, H!Payload, HP!Payload, H!Dest, HP!Dest, H!PointerAt,
           HP!PointerAt, H!NoArray, HP!NoArray, H!NamesElement, HP!NamesElement, H!Call, HP!Call,
           H!Turn, HP!Turn, H!Hosted, HP!Hosted, H!Item, HP!Item, H!SetIndex, HP!SetIndex
  <2>5. /\ HP!Restore <=> H!Restore
        /\ HP!RejectItem <=> H!RejectItem
        /\ HP!EndItems <=> H!EndItems
        /\ HP!Probe <=> H!Probe
    BY DEF H!ObjectHeader, HP!ObjectHeader, H!ArrayHeader, HP!ArrayHeader, H!PtrSize,
           HP!PtrSize, H!VM_NULLPTR, HP!VM_NULLPTR, H!Nowhere, HP!Nowhere, H!Sound, HP!Sound,
           H!heapVars, HP!heapVars, H!auxVars, HP!auxVars, H!Payload, HP!Payload, H!Mapped,
           HP!Mapped, H!PointerAt, HP!PointerAt, H!Call, HP!Call, H!Turn, HP!Turn, H!Hosted,
           HP!Hosted, H!Item, HP!Item, H!Restore, HP!Restore, H!RejectItem, HP!RejectItem,
           H!EndItems, HP!EndItems, H!ReadElements, HP!ReadElements, H!Probe, HP!Probe
  <2>6. HP!HostStep <=> H!HostStep
    BY DEF H!ObjectHeader, HP!ObjectHeader, H!StringHeader, HP!StringHeader,
           H!ArrayHeader, HP!ArrayHeader, H!ObjectAlign, HP!ObjectAlign, H!PtrSize, HP!PtrSize,
           H!Nowhere, HP!Nowhere, H!Sound, HP!Sound, H!Word, HP!Word, H!StringObject,
           HP!StringObject, H!Arrays, HP!Arrays, H!Payload, HP!Payload, H!Elements, HP!Elements,
           H!EndOf, HP!EndOf, H!HeadEnd, HP!HeadEnd, H!Align4, HP!Align4, H!FreePtr, HP!FreePtr,
           H!Carries, HP!Carries, H!StartAfter, HP!StartAfter, H!Overlap, HP!Overlap, H!Mapped,
           HP!Mapped, H!Hits, HP!Hits, H!Outcome, HP!Outcome, H!Placing, HP!Placing, H!Ends,
           HP!Ends, H!Erase, HP!Erase, H!Call, HP!Call, H!Hosted, HP!Hosted, H!Widths, HP!Widths,
           H!HostCall, HP!HostCall, H!HandOut, HP!HandOut, H!Allocate, HP!Allocate,
           H!AllocateBytes, HP!AllocateBytes, H!Nheap, HP!Nheap, H!NewString, HP!NewString,
           H!Write, HP!Write, H!WriteModuleData, HP!WriteModuleData, H!Given, HP!Given,
           H!HostStep, HP!HostStep, H!MapByte, HP!MapByte
  <2> QED BY <2>1, <2>2, <2>3, <2>4, <2>5, <2>6 DEF H!Next, HP!Next, H!Widths, HP!Widths
<1>3. HP!vars = H!vars
  BY DEF H!heapVars, HP!heapVars, H!auxVars, HP!auxVars, H!vars, HP!vars
<1>4. HP!TypeOK <=> H!TypeOK
  BY DEF H!VM_NULLPTR, HP!VM_NULLPTR, H!Nowhere, HP!Nowhere, H!ModuleBase, HP!ModuleBase,
         H!Object, HP!Object, H!Bases, HP!Bases, H!TypeOK, HP!TypeOK
<1>5. HP!ObjectsDisjoint <=> H!ObjectsDisjoint
  BY DEF H!ObjectHeader, HP!ObjectHeader, H!Sound, HP!Sound, H!Payload, HP!Payload, H!EndOf,
         HP!EndOf, H!FreePtr, HP!FreePtr, H!Overlap, HP!Overlap, H!SizesKept, HP!SizesKept,
         H!ObjectsDisjoint, HP!ObjectsDisjoint
<1>6. HP!ElementsFit <=> H!ElementsFit
  BY DEF H!ObjectHeader, HP!ObjectHeader, H!ArrayHeader, HP!ArrayHeader, H!Sound, HP!Sound,
         H!Arrays, HP!Arrays, H!Payload, HP!Payload, H!Elements, HP!Elements, H!EndOf, HP!EndOf,
         H!SizesKept, HP!SizesKept, H!ElementsFit, HP!ElementsFit
<1>7. HP!PointersResolve <=> H!PointersResolve
  BY DEF H!ObjectHeader, HP!ObjectHeader, H!ArrayHeader, HP!ArrayHeader, H!PtrSize, HP!PtrSize,
         H!VM_NULLPTR, HP!VM_NULLPTR, H!Payload, HP!Payload, H!Elements, HP!Elements, H!EndOf,
         HP!EndOf, H!HeadEnd, HP!HeadEnd, H!Overlap, HP!Overlap, H!PointersResolve,
         HP!PointersResolve
<1>8. HP!RcCountsArrays <=> H!RcCountsArrays
  BY DEF H!Arrays, HP!Arrays, H!RcCountsArrays, HP!RcCountsArrays, H!Cardinality, HP!Cardinality
<1> QED BY <1>1, <1>2, <1>3, <1>4, <1>5, <1>6, <1>7, <1>8

(* ... and do the same.                                                     *)
LEMMA SameSpec == H!Spec => HP!Spec
<1>1. H!Init => HP!Init
  BY SameHeap
<1>2. [H!Next]_(H!vars) => [HP!Next]_(HP!vars)
  <2>1. UNCHANGED H!vars => UNCHANGED HP!vars
    BY DEF H!vars, HP!vars, H!heapVars, HP!heapVars, H!auxVars, HP!auxVars
  <2> QED BY <2>1, SameHeap
<1> QED BY <1>1, <1>2, PTL DEF H!Spec, HP!Spec

(* ... with one arena.                                                      *)
LEMMA SameArena == HP!ArenaSpec => H!ArenaSpec
<1>1. HP!Blocks = H!Blocks
  BY DEF H!Blocks, HP!Blocks, H!SizesKept, HP!SizesKept, H!Sound, HP!Sound, H!ObjectHeader,
         HP!ObjectHeader
<1>2. HP!A!Init => H!A!Init
  BY <1>1 DEF HP!A!Init, H!A!Init
<1>3. [HP!A!Allocate]_(HP!Blocks) => [H!A!Allocate]_(H!Blocks)
  BY DEF HP!A!Allocate, H!A!Allocate, HP!A!Apart, H!A!Apart, H!Blocks, HP!Blocks, H!SizesKept,
         HP!SizesKept, H!Sound, HP!Sound, H!ObjectHeader, HP!ObjectHeader
<1> QED BY <1>2, <1>3, PTL DEF HP!ArenaSpec, H!ArenaSpec, HP!A!Spec, H!A!Spec

(* Whatever the bytes of the file, a heap it fills keeps what ModuleHeap    *)
(* says of files nobody vouches for: pointers that items stored lead to     *)
(* objects, and lie in no object's head; a debug build never lays one       *)
(* object over another and leaves every array room for its elements; and as *)
(* long as the loader goes on, the count of a type is that of its arrays.   *)
THEOREM LoadedHeapHolds ==
  LoadedSpec => [](H!TypeOK /\ H!ObjectsDisjoint /\ H!ElementsFit /\ H!PointersResolve
                   /\ H!RcCountsArrays)
<1>1. CASE Modules = {}
  <2>1. LoadedInit => FALSE
    BY <1>1 DEF LoadedInit
  <2> QED BY <2>1, PTL DEF LoadedSpec
<1>2. CASE Modules # {}
  <2>1. /\ HP!SizesAssumption /\ HP!ReachAssumption
        /\ HP!TypesAssumption /\ HP!InputsAssumption
    BY <1>2, HeapConstants
  <2>2. HP!Spec => []HP!TypeOK
    BY <2>1, HP!TypeCorrect, PTL
  <2>3. HP!Spec => []HP!ObjectsDisjoint
    BY <2>1, HP!ObjectsStayDisjoint, PTL
  <2>4. HP!Spec => []HP!ElementsFit
    BY <2>1, HP!ElementsAlwaysFit, PTL
  <2>5. HP!Spec => []HP!PointersResolve
    BY <2>1, HP!PointersAlwaysResolve, PTL
  <2>6. HP!Spec => []HP!RcCountsArrays
    BY <2>1, HP!RcCounts, PTL
  <2>7. /\ HP!TypeOK <=> H!TypeOK
        /\ HP!ObjectsDisjoint <=> H!ObjectsDisjoint
        /\ HP!ElementsFit <=> H!ElementsFit
        /\ HP!PointersResolve <=> H!PointersResolve
        /\ HP!RcCountsArrays <=> H!RcCountsArrays
    BY SameHeap
  <2> QED BY <2>2, <2>3, <2>4, <2>5, <2>6, <2>7, LoadedIsHeap, SameSpec, PTL
<1> QED BY <1>1, <1>2

(* ... and what a debug build takes from the heap is apart from all it took *)
(* before, and never taken back.                                            *)
THEOREM LoadedHeapIsArena == LoadedSpec => H!ArenaSpec
<1>1. CASE Modules = {}
  <2>1. LoadedInit => FALSE
    BY <1>1 DEF LoadedInit
  <2> QED BY <2>1, PTL DEF LoadedSpec
<1>2. CASE Modules # {}
  <2>1. /\ HP!SizesAssumption /\ HP!ReachAssumption
        /\ HP!TypesAssumption /\ HP!InputsAssumption
    BY <1>2, HeapConstants
  <2>2. HP!Spec => HP!ArenaSpec
    BY <2>1, HP!ImplementsArena, PTL
  <2> QED BY <2>2, LoadedIsHeap, SameSpec, SameArena, PTL
<1> QED BY <1>1, <1>2

(* Module data and heap addresses are natural numbers.                      *)
LEMMA HeapAddressTypes ==
  ASSUME H!TypeOK, NEW off \in Nat
  PROVE  H!Dest(off) \in Nat /\ H!FreePtr \in Nat
<1>1. base.ptr \in Nat /\ base.start \in Nat
  BY HeapAssumption DEF H!TypeOK, H!Bases, H!ModuleBase
<1>2. heapStart \in Nat
  BY DEF H!TypeOK
<1> QED BY <1>1, <1>2, HeapAssumption DEF H!Dest, H!FreePtr

-----------------------------------------------------------------------------
(* The heap's memory.                                                       *)

(* Bytes at addresses.                                                      *)
Bytewise(mem) == DOMAIN mem \subseteq Nat /\ \A a \in DOMAIN mem : mem[a] \in Octet

(* What is stored, and what is taken away, leaves bytes at addresses.       *)
LEMMA MemoryTypes ==
  ASSUME NEW mem, Bytewise(mem), NEW a \in Nat
  PROVE  /\ \A bytes \in Octets : Bytewise(Stored(mem, a, bytes))
         /\ \A w : Bytewise(Taken(mem, a, w))
<1>1. ASSUME NEW bytes \in Octets
      PROVE  Bytewise(Stored(mem, a, bytes))
  <2> DEFINE new == a .. a + Len(bytes) - 1
             s == Stored(mem, a, bytes)
  <2>1. Len(bytes) \in Nat /\ \A k \in 1 .. Len(bytes) : bytes[k] \in Octet
    BY DEF Octets
  <2>2. /\ DOMAIN s = new \cup DOMAIN mem
        /\ \A x \in DOMAIN s : s[x] = IF x \in new THEN bytes[x - a + 1] ELSE mem[x]
    BY DEF Stored
  <2>3. \A x \in new : x \in Nat /\ x - a + 1 \in 1 .. Len(bytes)
    BY <2>1
  <2> HIDE DEF s, new
  <2>4. Bytewise(s)
    BY <2>1, <2>2, <2>3 DEF Bytewise
  <2> QED BY <2>4 DEF s
<1>2. ASSUME NEW w
      PROVE  Bytewise(Taken(mem, a, w))
  BY DEF Taken, Bytewise
<1> QED BY <1>1, <1>2

(* Numbers in the byte order of the machine are bytes, and as many.         *)
LEMMA NativeType ==
  ASSUME NEW w \in {1, 4, 8}, NEW count \in Nat, NEW data \in Octets, Len(data) = w * count
  PROVE  Native(w, data) \in Octets /\ Len(Native(w, data)) = w * count
<1>1. /\ DOMAIN data = 1 .. w * count /\ w * count \in Nat
      /\ \A k \in 1 .. w * count : data[k] \in Octet
  <2>1. Len(data) \in Nat /\ DOMAIN data = 1 .. Len(data)
        /\ \A k \in 1 .. Len(data) : data[k] \in Octet
    BY DEF Octets
  <2> QED BY <2>1
<1>2. \A k \in 1 .. w * count : w * ((k - 1) \div w) + w - ((k - 1) % w) \in 1 .. w * count
  BY <1>1
<1>3. Native(w, data) = [k \in 1 .. w * count |->
                           data[w * ((k - 1) \div w) + w - ((k - 1) % w)]]
  BY <1>1 DEF Native
<1> DEFINE n == w * count
           f == [k \in 1 .. n |-> data[w * ((k - 1) \div w) + w - ((k - 1) % w)]]
<1>4. n \in Nat /\ \A k \in 1 .. n : f[k] \in Octet
  BY <1>1, <1>2
<1> HIDE DEF n
<1>5. f \in Seq(Octet) /\ Len(f) = n
  <2>1. f \in [1 .. n -> Octet]
    BY <1>4
  <2> QED BY <1>4, <2>1
<1> QED BY <1>3, <1>5 DEF Octets, n

(* The bytes of a number item are as many as its store writes.              *)
LEMMA NumberBytes ==
  ASSUME NEW typ \in DOMAIN ScalarWidth, NEW count \in Nat
  PROVE  ScalarWidth[typ] \in {1, 4, 8} /\ ItemBytes(typ, count) = ScalarWidth[typ] * count
<1>1. typ \in {1, 2, 4, 8}
  BY WidthOf
<1>2. CASE typ = 1
  BY <1>2, WidthOf DEF ItemBytes
<1>3. CASE typ = 2
  BY <1>3, WidthOf DEF ItemBytes
<1>4. CASE typ = 4
  BY <1>4, WidthOf DEF ItemBytes
<1>5. CASE typ = 8
  BY <1>5, WidthOf DEF ItemBytes
<1> QED BY <1>1, <1>2, <1>3, <1>4, <1>5

(* What an item leaves in memory are bytes.                                 *)
LEMMA ItemLeavesBytes ==
  ASSUME H!TypeOK, Bytewise(memory), NEW typ, NEW count \in Nat, NEW off \in Nat,
         NEW data \in Octets, Len(data) = ItemBytes(typ, count),
         HeapItem(typ, count, off, data)
  PROVE  Bytewise(memory')
<1>1. H!Dest(off) \in Nat /\ H!FreePtr \in Nat
  BY HeapAddressTypes
<1>2. CASE Scalars(typ, count, off, data)
  <2>1. ScalarWidth[typ] \in {1, 4, 8} /\ Len(data) = ScalarWidth[typ] * count
        /\ Remember(Stored(memory, H!Dest(off), Native(ScalarWidth[typ], data)))
    BY <1>2, NumberBytes DEF Scalars
  <2>2. Native(ScalarWidth[typ], data) \in Octets
    BY <2>1, NativeType
  <2>3. Bytewise(Stored(memory, H!Dest(off), Native(ScalarWidth[typ], data)))
    BY <1>1, <2>2, MemoryTypes
  <2> QED BY <2>1, <2>3 DEF Remember
<1>3. CASE String(typ, off, data)
  <2> DEFINE str == Lossy(data)
             head == H!ObjectHeader + H!StringHeader
             mem == Taken(Stored(Taken(memory, H!FreePtr, head), H!FreePtr + head, str),
                          H!Dest(off), H!PtrSize)
  <2>1. Remember(mem)
    BY <1>3 DEF String
  <2>2. str \in Octets
    BY LossyType
  <2>3. H!FreePtr + head \in Nat
    BY <1>1 DEF H!ObjectHeader, H!StringHeader
  <2>4. Bytewise(mem)
    BY <1>1, <2>2, <2>3, MemoryTypes
  <2> QED BY <2>1, <2>4 DEF Remember
<1>4. CASE Array(typ, off, data)
  <2>1. Remember(Taken(Taken(memory, H!FreePtr, H!ObjectHeader + H!ArrayHeader),
                       H!Dest(off), H!PtrSize))
    BY <1>4 DEF Array
  <2>2. Bytewise(Taken(Taken(memory, H!FreePtr, H!ObjectHeader + H!ArrayHeader),
                       H!Dest(off), H!PtrSize))
    BY <1>1, MemoryTypes
  <2> QED BY <2>1, <2>2 DEF Remember
<1>5. CASE Index(typ, off, data) \/ RestoreBase(typ)
  BY <1>5 DEF Index, RestoreBase
<1> QED BY <1>2, <1>3, <1>4, <1>5 DEF HeapItem

(* No step leaves anything else in memory.                                  *)
LEMMA BytesStep ==
  ASSUME Filling, H!TypeOK, Bytewise(memory), [LoadedNext]_loadedVars
  PROVE  Bytewise(memory')
<1>1. CASE LoadItem
  <2> DEFINE code  == Byte(offset)
             o     == ItemOperands
             typ   == code \div 16
             count == DataCount(code, o)
             off   == ItemOffset(o)
             data  == SubSeq(file, o.at + 1, AfterItem(code, o))
  <2>1. At("data")
    BY <1>1 DEF LoadItem
  <2>2. CASE Has(offset, 1) /\ ItemValid(code, o)
    <3>1. HeapItem(typ, count, off, data)
      BY <1>1, <2>2 DEF LoadItem
    <3>2. /\ count \in Nat /\ off \in Nat /\ data \in Octets
          /\ Len(data) = ItemBytes(typ, count)
      BY <2>1, <2>2, ItemMeans
    <3> HIDE DEF code, o, typ, count, off, data
    <3> QED BY <3>1, <3>2, ItemLeavesBytes
  <2>3. CASE ~(Has(offset, 1) /\ ItemValid(code, o))
    BY <1>1, <2>3 DEF LoadItem
  <2> QED BY <2>2, <2>3
<1>2. CASE EndItems \/ ProbeHeap \/ Elsewhere \/ UNCHANGED loadedVars
  BY <1>2 DEF EndItems, ProbeHeap, Elsewhere, loadedVars, heapVars
<1> QED BY <1>1, <1>2 DEF LoadedNext

(* Loader, heap and memory hold what they should, whatever the file: every  *)
(* address is one, every byte in memory a byte, every object and pointer    *)
(* one of the kinds the heap makes.                                         *)
THEOREM LoadedTypes == LoadedSpec => []LoadedTypeOK
<1>1. LoadedInit => Filling /\ Bytewise(memory)
  BY InitFilling DEF LoadedInit, Bytewise
<1>2. Filling /\ H!TypeOK /\ Bytewise(memory) /\ [LoadedNext]_loadedVars
        => Filling' /\ Bytewise(memory)'
  BY FillingStep, BytesStep
<1>3. Filling /\ H!TypeOK /\ Bytewise(memory) => LoadedTypeOK
  BY DEF Filling, LoadInv, LoadedTypeOK, Bytewise, Octet
<1> QED BY <1>1, <1>2, <1>3, LoadedHeapHolds, PTL DEF LoadedSpec

-----------------------------------------------------------------------------
(* Strings.                                                                 *)

(* Position k of a string begins or continues a character: one case of Utf8 *)
(* each, U+FFFD byte by byte.                                               *)
Mark(str, j) == j \in 1 .. Len(str) - 2 /\ str[j] = 239 /\ str[j + 1] = 191 /\ str[j + 2] = 189
Fine(str, k) ==
  \/ str[k] < 128
  \/ Leads(str[k]) /\ k < Len(str) /\ Continues(str[k + 1])
  \/ Continues(str[k]) /\ k > 1 /\ Leads(str[k - 1])
  \/ \E j \in k - 2 .. k : Mark(str, j)

(* If every position does, the string is UTF-8.                             *)
LEMMA FineIsUtf8 ==
  ASSUME NEW str \in Octets, \A k \in 1 .. Len(str) : Fine(str, k)
  PROVE  Utf8(str)
<1>1. Len(str) \in Nat /\ \A k \in 1 .. Len(str) : str[k] \in Octet
  BY DEF Octets
<1>2. ASSUME NEW j \in 1 .. Len(str) - 2, Mark(str, j)
      PROVE  SubSeq(str, j, j + 2) = <<239, 191, 189>>
  <2> DEFINE s == SubSeq(str, j, j + 2)
  <2>1. j \in Nat /\ \A k \in j .. j + 2 : str[k] \in Octet
    BY <1>1
  <2>2. /\ s \in Seq(Octet) /\ Len(s) = 3
        /\ s[1] = str[j] /\ s[2] = str[j + 1] /\ s[3] = str[j + 2]
    <3>1. /\ s \in Seq(Octet)
          /\ Len(s) = IF j <= j + 2 THEN (j + 2) - j + 1 ELSE 0
          /\ \A i \in 1 .. (j + 2) - j + 1 : s[i] = str[j + i - 1]
      BY <2>1, SubSeqProperties
    <3>2. (j + 2) - j + 1 = 3 /\ j + 1 - 1 = j /\ j + 2 - 1 = j + 1 /\ j + 3 - 1 = j + 2
      BY <2>1
    <3> HIDE DEF s
    <3> QED BY <2>1, <3>1, <3>2
  <2> HIDE DEF s
  <2>3. s = <<239, 191, 189>>
    BY <1>2, <2>2 DEF Mark
  <2> QED BY <2>3 DEF s
<1>3. ASSUME NEW k \in 1 .. Len(str), \E j \in k - 2 .. k : Mark(str, j)
      PROVE  \E j \in k - 2 .. k : j \in 1 .. Len(str) - 2 /\ SubSeq(str, j, j + 2) = <<239, 191, 189>>
  BY <1>2, <1>3 DEF Mark
<1> QED BY <1>3 DEF Fine, Utf8

(* Characters stay what they are when bytes are put before them.            *)
LEMMA FineBehind ==
  ASSUME NEW u \in Octets, NEW t \in Octets, NEW p \in 1 .. Len(t), Fine(t, p)
  PROVE  Fine(u \o t, Len(u) + p)
<1> DEFINE s == u \o t
           n == Len(u)
<1>1. /\ n \in Nat /\ Len(t) \in Nat /\ Len(s) = n + Len(t)
      /\ \A k \in 1 .. Len(t) : s[n + k] = t[k]
  BY OctetsConcat
<1> DEFINE q == n + p
<1> SUFFICES Fine(s, q)
  OBVIOUS
<1>2. q \in 1 .. Len(s) /\ s[q] = t[p]
  <2> HIDE DEF s, n
  <2> QED BY <1>1
<1> HIDE DEF s, n, q
<1>3. CASE t[p] < 128
  BY <1>2, <1>3 DEF Fine
<1>4. CASE Leads(t[p]) /\ p < Len(t) /\ Continues(t[p + 1])
  <2>1. p + 1 \in 1 .. Len(t) /\ n + (p + 1) = q + 1 /\ q < Len(s)
    BY <1>1, <1>4 DEF q
  <2>2. s[q + 1] = t[p + 1]
    BY <1>1, <2>1
  <2>3. Leads(s[q]) /\ q < Len(s) /\ Continues(s[q + 1])
    BY <1>2, <1>4, <2>1, <2>2
  <2> QED BY <2>3 DEF Fine
<1>5. CASE Continues(t[p]) /\ p > 1 /\ Leads(t[p - 1])
  <2>1. p - 1 \in 1 .. Len(t) /\ n + (p - 1) = q - 1 /\ q > 1
    BY <1>1, <1>5 DEF q
  <2>2. s[q - 1] = t[p - 1]
    BY <1>1, <2>1
  <2>3. Continues(s[q]) /\ q > 1 /\ Leads(s[q - 1])
    BY <1>2, <1>5, <2>1, <2>2
  <2> QED BY <2>3 DEF Fine
<1>6. CASE \E j \in p - 2 .. p : Mark(t, j)
  <2>1. PICK j \in p - 2 .. p : Mark(t, j)
    BY <1>6
  <2> DEFINE i == n + j
  <2>2. i \in q - 2 .. q /\ i \in 1 .. Len(s) - 2
        /\ s[i] = t[j] /\ s[i + 1] = t[j + 1] /\ s[i + 2] = t[j + 2]
    <3>1. j \in 1 .. Len(t) - 2
      BY <2>1 DEF Mark
    <3>2. /\ j \in 1 .. Len(t) /\ j + 1 \in 1 .. Len(t) /\ j + 2 \in 1 .. Len(t)
          /\ n + (j + 1) = i + 1 /\ n + (j + 2) = i + 2
          /\ i \in q - 2 .. q /\ i \in 1 .. Len(s) - 2
      BY <1>1, <2>1, <3>1 DEF q
    <3> HIDE DEF i
    <3>3. i = n + j
      BY DEF i
    <3> QED BY <1>1, <3>2, <3>3
  <2> HIDE DEF i
  <2>3. Mark(s, i)
    BY <2>1, <2>2 DEF Mark
  <2> QED BY <2>2, <2>3 DEF Fine
<1> QED BY <1>3, <1>4, <1>5, <1>6 DEF Fine

(* Whatever the bytes, from_utf8_lossy leaves UTF-8.  Decoded from the end, *)
(* what is behind byte k is whole characters, but for a continuing byte     *)
(* that byte k leads.                                                       *)
LEMMA LossyIsText ==
  ASSUME NEW bytes \in Octets
  PROVE  Utf8(Lossy(bytes))
<1> DEFINE n == Len(bytes)
           s == [k \in 1 .. n |->
                   IF bytes[k] < 128 \/ Pair(bytes, k) \/ Pair(bytes, k - 1) THEN <<bytes[k]>>
                   ELSE Replacement]
           From(k) == FlatFrom(s, k)
           Text(k) == \A p \in 1 .. Len(From(k)) : Fine(From(k), p) \/ (p = 1 /\ Pair(bytes, k))
           Heads(k) == Pair(bytes, k) => Len(From(k)) >= 1 /\ From(k)[1] = bytes[k + 1]
<1>1. n \in Nat /\ \A k \in 1 .. n : bytes[k] \in Octet
  BY DEF Octets
<1>2. \A b \in Octet : <<b>> \in Octets /\ Len(<<b>>) = 1 /\ <<b>>[1] = b
  BY OneOctet
<1>3. /\ Replacement \in Octets /\ Len(Replacement) = 3
      /\ Replacement[1] = 239 /\ Replacement[2] = 191 /\ Replacement[3] = 189
  BY DEF Replacement, Octets, Octet
<1>4. s \in Seq(Octets) /\ Len(s) = n
  <2>1. \A k \in 1 .. n : s[k] \in Octets
    BY <1>1, <1>2, <1>3
  <2>2. s \in [1 .. n -> Octets]
    BY <2>1
  <2> HIDE DEF s, n
  <2> QED BY <1>1, <2>2
<1>5. \A k \in 1 .. n :
        s[k] = IF bytes[k] < 128 \/ Pair(bytes, k) \/ Pair(bytes, k - 1) THEN <<bytes[k]>>
               ELSE Replacement
  OBVIOUS
<1>6. Lossy(bytes) = FlattenSeq(s)
  BY DEF Lossy
<1>7. \A k : Pair(bytes, k) <=>
        k \in 1 .. n - 1 /\ Leads(bytes[k]) /\ Continues(bytes[k + 1])
  BY DEF Pair
<1> HIDE DEF s, n
<1>8. /\ \A k \in 0 .. n : From(k) \in Octets
      /\ \A k \in 0 .. n - 1 : s[k + 1] \in Octets /\ From(k) = s[k + 1] \o From(k + 1)
      /\ From(n) = <<>> /\ From(0) = FlattenSeq(s)
  BY <1>4, FlatFromFacts
<1> HIDE DEF From
<1>9. Text(n) /\ Heads(n)
  <2>1. ~Pair(bytes, n)
    BY <1>1, <1>7
  <2> QED BY <1>8, <2>1
<1>10. ASSUME NEW k \in 0 .. n - 1, Text(k + 1), Heads(k + 1)
       PROVE  Text(k) /\ Heads(k)
  <2> DEFINE b == bytes[k + 1]
             t == From(k + 1)
             u == s[k + 1]
             r == From(k)
  <2>1. /\ k + 1 \in 1 .. n /\ k + 1 \in 0 .. n /\ k \in 0 .. n /\ k + 1 - 1 = k /\ b \in Octet
    BY <1>1
  <2>2. u \in Octets /\ t \in Octets /\ r \in Octets /\ r = u \o t
    BY <1>8, <2>1
  <2>3. /\ Len(u) \in Nat /\ Len(t) \in Nat /\ Len(r) = Len(u) + Len(t)
        /\ \A p \in 1 .. Len(u) : r[p] = u[p]
        /\ \A p \in 1 .. Len(t) : r[Len(u) + p] = t[p]
    <3> HIDE DEF u, t, r
    <3>1. /\ Len(u) \in Nat /\ Len(t) \in Nat /\ Len(u \o t) = Len(u) + Len(t)
          /\ \A p \in 1 .. Len(u) : (u \o t)[p] = u[p]
          /\ \A p \in 1 .. Len(t) : (u \o t)[Len(u) + p] = t[p]
      BY <2>2, OctetsConcat
    <3> QED BY <2>2, <3>1
  <2>4. \A p \in 1 .. Len(t) : Fine(t, p) => Fine(r, Len(u) + p)
    BY <2>2, FineBehind
  <2>5. u = IF b < 128 \/ Pair(bytes, k + 1) \/ Pair(bytes, k) THEN <<b>> ELSE Replacement
    BY <1>5, <2>1
  <2>6. /\ Pair(bytes, k) => Continues(b)
        /\ Pair(bytes, k + 1) => Leads(b)
        /\ Pair(bytes, k + 1) => Len(t) >= 1 /\ Continues(t[1])
    BY <1>7, <1>10, <2>1
  <2>7. \A p \in 1 .. Len(t) : Fine(t, p) \/ (p = 1 /\ Pair(bytes, k + 1))
    BY <1>10
  <2> HIDE DEF b, t, u, r
  <2>8. CASE b < 128 \/ Pair(bytes, k + 1) \/ Pair(bytes, k)
    <3>1. Len(u) = 1 /\ r[1] = b /\ Len(r) = 1 + Len(t) /\ Len(r) >= 1
      BY <1>2, <2>1, <2>3, <2>5, <2>8
    <3>2. Fine(r, 1) \/ Pair(bytes, k)
      <4>1. CASE b < 128
        BY <3>1, <4>1 DEF Fine
      <4>2. CASE Pair(bytes, k + 1)
        <5>1. Len(t) >= 1 /\ Continues(t[1]) /\ Leads(b)
          BY <2>6, <4>2
        <5>2. r[1 + 1] = t[1] /\ 1 < Len(r)
          BY <2>3, <3>1, <5>1
        <5> QED BY <3>1, <5>1, <5>2 DEF Fine
      <4> QED BY <2>8, <4>1, <4>2
    <3>3. ASSUME NEW p \in 1 .. Len(t) PROVE Fine(r, 1 + p)
      <4>1. CASE Fine(t, p)
        BY <2>4, <3>1, <4>1
      <4>2. CASE p = 1 /\ Pair(bytes, k + 1)
        <5>1. Continues(t[1]) /\ Leads(b)
          BY <2>6, <4>2
        <5>2. r[1 + 1] = t[1] /\ r[1 + 1 - 1] = b
          BY <2>3, <3>1, <4>2
        <5> QED BY <4>2, <5>1, <5>2 DEF Fine
      <4> QED BY <2>7, <4>1, <4>2
    <3>4. \A p \in 1 .. Len(r) : Fine(r, p) \/ (p = 1 /\ Pair(bytes, k))
      <4> SUFFICES ASSUME NEW p \in 1 .. Len(r), p # 1 PROVE Fine(r, p)
        BY <3>2
      <4>1. p - 1 \in 1 .. Len(t) /\ 1 + (p - 1) = p
        BY <2>3, <3>1
      <4> QED BY <3>3, <4>1
    <3> QED BY <3>1, <3>4 DEF b, r
  <2>9. CASE ~(b < 128 \/ Pair(bytes, k + 1) \/ Pair(bytes, k))
    <3>1. u = Replacement /\ Len(u) = 3 /\ Len(r) = 3 + Len(t)
      BY <1>3, <2>3, <2>5, <2>9
    <3>2. r[1] = 239 /\ r[1 + 1] = 191 /\ r[1 + 2] = 189
      BY <1>3, <2>3, <3>1
    <3>3. Mark(r, 1)
      BY <2>3, <3>1, <3>2 DEF Mark
    <3>4. \A p \in 1 .. 3 : 1 \in p - 2 .. p
      OBVIOUS
    <3>5. \A p \in 1 .. 3 : Fine(r, p)
      BY <3>3, <3>4 DEF Fine
    <3>6. \A p \in 1 .. Len(t) : Fine(r, 3 + p)
      BY <2>4, <2>7, <2>9, <3>1
    <3>7. \A p \in 1 .. Len(r) : Fine(r, p)
      <4> SUFFICES ASSUME NEW p \in 1 .. Len(r), p > 3 PROVE Fine(r, p)
        BY <3>5
      <4>1. p - 3 \in 1 .. Len(t) /\ 3 + (p - 3) = p
        BY <2>3, <3>1
      <4> QED BY <3>6, <4>1
    <3> QED BY <2>9, <3>7 DEF r
  <2> QED BY <2>8, <2>9
<1> DEFINE T == {i \in Nat : i <= n => Text(n - i) /\ Heads(n - i)}
<1>11. 0 \in T
  BY <1>1, <1>9
<1>12. ASSUME NEW i \in Nat, i \in T PROVE i + 1 \in T
  <2> SUFFICES ASSUME i + 1 <= n PROVE Text(n - (i + 1)) /\ Heads(n - (i + 1))
    OBVIOUS
  <2> DEFINE k == n - (i + 1)
  <2>1. k \in 0 .. n - 1 /\ k + 1 = n - i /\ i <= n
    BY <1>1
  <2>2. Text(k + 1) /\ Heads(k + 1)
    BY <1>12, <2>1
  <2> HIDE DEF k, Text, Heads
  <2>3. Text(k) /\ Heads(k)
    BY <1>10, <2>1, <2>2
  <2> QED BY <2>3 DEF k
<1>13. Text(0)
  <2>1. n \in T
    <3> HIDE DEF T
    <3> QED BY <1>1, <1>11, <1>12, NatSetInduction
  <2>2. n - n = 0 /\ n <= n
    BY <1>1
  <2> QED BY <2>1, <2>2
<1>14. ~Pair(bytes, 0)
  BY <1>7
<1> QED BY <1>1, <1>6, <1>8, <1>13, <1>14, FineIsUtf8

(* The byte at an address, and after a store or a removal.                  *)
ByteOf(mem, x) == IF x \in DOMAIN mem THEN mem[x] ELSE 0

(* A store changes the bytes it covers, to those stored, and no others.     *)
LEMMA ByteStored ==
  ASSUME NEW mem, NEW a \in Nat, NEW x \in Nat, NEW bytes \in Octets
  PROVE  ByteOf(Stored(mem, a, bytes), x) =
           IF x \in a .. a + Len(bytes) - 1 THEN bytes[x - a + 1] ELSE ByteOf(mem, x)
  BY DEF ByteOf, Stored

(* What is removed changes nothing beside it.                               *)
LEMMA ByteTaken ==
  ASSUME NEW mem, NEW a \in Nat, NEW w, NEW x \in Nat, x \notin a .. a + w - 1
  PROVE  ByteOf(Taken(mem, a, w), x) = ByteOf(mem, x)
  BY DEF ByteOf, Taken

(* The characters of a string.                                              *)
CharAt(o, k) == H!Payload(o) + H!StringHeader + k - 1
CharsIn(mem, o) == [k \in 1 .. o.len |-> ByteOf(mem, CharAt(o, k))]
IsString(o) == o \in H!Object /\ o.typ = "Tstring" /\ o.n = H!StringHeader + o.len

(* They lie behind the two headers, and in what no store may touch.         *)
LEMMA CharsApart ==
  ASSUME NEW o, IsString(o), NEW k \in 1 .. o.len, NEW a \in Nat, NEW w \in Nat,
         ~H!Overlap(a, w, o.at, H!HeadEnd(o) - o.at)
  PROVE  CharAt(o, k) \in Nat /\ CharAt(o, k) \notin a .. a + w - 1
<1>1. o.at \in Nat /\ o.len \in Nat /\ o.n = 16 + o.len
  BY DEF IsString, H!Object, H!StringHeader
<1>2. H!HeadEnd(o) - o.at = 40 + o.len
  BY <1>1 DEF IsString, H!HeadEnd, H!EndOf, H!Payload, H!ObjectHeader
<1>3. CharAt(o, k) = o.at + 40 + k - 1
  BY <1>1 DEF CharAt, H!Payload, H!ObjectHeader, H!StringHeader
<1> QED BY <1>1, <1>2, <1>3 DEF H!Overlap

(* A store the heap allows reaches no object's head.                        *)
LEMMA AllowedApart ==
  ASSUME NEW a, NEW w, NEW objs, H!Outcome(a, w, objs) = "ok"
  PROVE  \A o \in objs : ~H!Overlap(a, w, o.at, H!HeadEnd(o) - o.at)
  BY DEF H!Outcome, H!Hits

(* The loader goes on only after a store that was allowed.                  *)
LEMMA OnlyAllowed ==
  ASSUME NEW s, NEW places, heapStatus' \in H!Ends(s, places), heapStatus' = "ok"
  PROVE  s = "ok"
  BY DEF H!Ends

(* The strings of the heap hold text, and as much of it as they say.        *)
Text == /\ \A o \in objects : o.typ = "Tstring" => IsString(o)
        /\ heapStatus = "ok" =>
             \A o \in objects : o.typ = "Tstring" => Utf8(CharsIn(memory, o))

(* Strings whose characters nothing touches stay as they are; a new one is  *)
(* to be text.                                                              *)
LEMMA TextStays ==
  ASSUME Text, heapStatus = "ok", NEW mem, Remember(mem),
         \A o \in objects' : o.typ = "Tstring" =>
           o \in objects \/ (IsString(o) /\ (heapStatus' = "ok" => Utf8(CharsIn(mem, o)))),
         heapStatus' = "ok" =>
           \A o \in objects : IsString(o) =>
             \A k \in 1 .. o.len : ByteOf(mem, CharAt(o, k)) = ByteOf(memory, CharAt(o, k))
  PROVE  Text'
<1>1. \A o \in objects' : o.typ = "Tstring" => IsString(o)'
  BY DEF Text, IsString, H!Object
<1>2. ASSUME heapStatus' = "ok", NEW o \in objects', o.typ = "Tstring"
      PROVE  Utf8(CharsIn(memory, o))'
  <2>1. memory' = mem
    BY <1>2 DEF Remember
  <2>2. CASE o \in objects
    <3>1. IsString(o) /\ Utf8(CharsIn(memory, o))
      BY <1>2, <2>2 DEF Text
    <3>2. CharsIn(mem, o) = CharsIn(memory, o)
      BY <1>2, <2>2, <3>1 DEF CharsIn
    <3>3. CharsIn(memory, o)' = CharsIn(memory', o)
      BY DEF CharsIn, CharAt, ByteOf, H!Payload, H!ObjectHeader, H!StringHeader
    <3>4. CharsIn(memory, o)' = CharsIn(memory, o)
      BY <2>1, <3>2, <3>3
    <3> QED BY <3>1, <3>4
  <2>3. CASE o \notin objects
    <3>1. Utf8(CharsIn(mem, o))
      BY <1>2, <2>3
    <3>2. CharsIn(memory, o)' = CharsIn(memory', o)
      BY DEF CharsIn, CharAt, ByteOf, H!Payload, H!ObjectHeader, H!StringHeader
    <3>3. CharsIn(memory, o)' = CharsIn(mem, o)
      BY <2>1, <3>2
    <3> QED BY <3>1, <3>3
  <2> QED BY <2>2, <2>3
<1> QED BY <1>1, <1>2 DEF Text

(* Numbers are stored beside the strings.                                   *)
LEMMA NumberText ==
  ASSUME mod \in Modules, H!TypeOK, Text, NEW typ, NEW count \in Nat, NEW off \in Nat,
         NEW data \in Octets, Len(data) = ItemBytes(typ, count), Scalars(typ, count, off, data)
  PROVE  Text'
<1> DEFINE w == ScalarWidth[typ] * count
           a == H!Dest(off)
           bytes == Native(ScalarWidth[typ], data)
<1>1. /\ ScalarWidth[typ] \in {1, 4, 8} /\ Len(data) = w
      /\ H!LoadScalars(ScalarWidth[typ], count, off)
      /\ Remember(Stored(memory, a, bytes))
  BY NumberBytes DEF Scalars
<1>2. bytes \in Octets /\ Len(bytes) = w /\ a \in Nat /\ w \in Nat
  <2>1. bytes \in Octets /\ Len(bytes) = w
    BY <1>1, NativeType
  <2>2. w \in Nat
    BY <1>1
  <2>3. a \in Nat
    BY HeapAddressTypes
  <2> QED BY <2>1, <2>2, <2>3
<1>3. /\ heapStatus = "ok" /\ objects' = objects
      /\ heapStatus' = "ok" => H!Outcome(a, w, objects) = "ok"
  <2> DEFINE s == IF H!InBounds(off, heapStart) THEN H!Outcome(a, w, objects) ELSE "panic"
  <2>1. /\ heapStatus = "ok" /\ objects' = objects
        /\ \E places : heapStatus' \in H!Ends(s, places)
    BY <1>1 DEF H!LoadScalars, H!Item, H!Turn, H!Hosted, H!Call
  <2>2. heapStatus' = "ok" => s = "ok"
    BY <2>1, OnlyAllowed
  <2> QED BY <2>1, <2>2
<1> HIDE DEF w, a, bytes
<1>4. ASSUME heapStatus' = "ok", NEW o \in objects, IsString(o), NEW k \in 1 .. o.len
      PROVE  ByteOf(Stored(memory, a, bytes), CharAt(o, k)) = ByteOf(memory, CharAt(o, k))
  <2>1. ~H!Overlap(a, w, o.at, H!HeadEnd(o) - o.at)
    BY <1>3, <1>4, AllowedApart
  <2>2. CharAt(o, k) \in Nat /\ CharAt(o, k) \notin a .. a + w - 1
    BY <1>2, <1>4, <2>1, CharsApart
  <2>3. CharAt(o, k) \notin a .. a + Len(bytes) - 1
    BY <1>2, <2>2
  <2> QED BY <1>2, <2>2, <2>3, ByteStored
<1> QED BY <1>1, <1>3, <1>4, TextStays

(* The head of an array and the pointer to it too.                          *)
LEMMA ArrayText ==
  ASSUME mod \in Modules, H!TypeOK, Text, NEW typ, NEW off \in Nat, NEW data,
         typ = 5 => ParseWord(data, 0) \in DOMAIN TypeSize /\ ParseWord(data, 4) \in Nat,
         Array(typ, off, data)
  PROVE  Text'
<1> DEFINE t == ParseWord(data, 0)
           len == ParseWord(data, 4)
           f == H!FreePtr
           o == H!ArrayObject(f, t, len)
           a == H!Dest(off)
           head == H!ObjectHeader + H!ArrayHeader
           freed == Taken(memory, f, head)
           mem == Taken(freed, a, H!PtrSize)
<1>1. H!LoadArray(t, len, off) /\ Remember(mem) /\ t \in DOMAIN TypeSize /\ len \in Nat
  BY DEF Array
<1>2. a \in Nat /\ f \in Nat /\ head \in Nat /\ H!PtrSize \in Nat
  BY HeapAddressTypes DEF H!ObjectHeader, H!ArrayHeader, H!PtrSize
<1>3. o.at = f /\ o.typ = "Tarray" /\ H!HeadEnd(o) - o.at = head
  BY <1>2 DEF H!ArrayObject, H!HeadEnd, H!Elements, H!Payload, H!ObjectHeader, H!ArrayHeader
<1>4. /\ heapStatus = "ok"
      /\ objects' = objects \/ objects' = objects \cup {o}
      /\ heapStatus' = "ok" => /\ H!Outcome(f, head, objects) = "ok"
                               /\ H!Outcome(a, H!PtrSize, objects \cup {o}) = "ok"
  <2> DEFINE refused == build = "debug" /\ H!Overflows(t, len)
             s == IF refused THEN "panic" ELSE H!ArrayEnd(o, off)
  <2>1. /\ heapStatus = "ok" /\ \E places : heapStatus' \in H!Ends(s, places)
        /\ objects' = objects \/ objects' = objects \cup {o}
    BY <1>1 DEF H!LoadArray, H!Item, H!Turn, H!Hosted, H!Call
  <2>2. heapStatus' = "ok" => s = "ok"
    BY <2>1, OnlyAllowed
  <2>3. s = "ok" => /\ H!Outcome(f, head, objects) = "ok"
                    /\ H!Outcome(a, H!PtrSize, objects \cup {o}) = "ok"
    BY <1>3 DEF H!ArrayEnd, H!Placing
  <2> QED BY <2>1, <2>2, <2>3
<1> HIDE DEF t, len, f, o, a, head, freed, mem
<1>5. ASSUME heapStatus' = "ok", NEW q \in objects, IsString(q), NEW k \in 1 .. q.len
      PROVE  ByteOf(mem, CharAt(q, k)) = ByteOf(memory, CharAt(q, k))
  <2>1. /\ ~H!Overlap(f, head, q.at, H!HeadEnd(q) - q.at)
        /\ ~H!Overlap(a, H!PtrSize, q.at, H!HeadEnd(q) - q.at)
    BY <1>4, <1>5, AllowedApart
  <2>2. /\ CharAt(q, k) \in Nat /\ CharAt(q, k) \notin f .. f + head - 1
        /\ CharAt(q, k) \notin a .. a + H!PtrSize - 1
    BY <1>2, <1>5, <2>1, CharsApart
  <2>3. ByteOf(mem, CharAt(q, k)) = ByteOf(freed, CharAt(q, k))
    BY <1>2, <2>2, ByteTaken DEF mem
  <2>4. ByteOf(freed, CharAt(q, k)) = ByteOf(memory, CharAt(q, k))
    BY <1>2, <2>2, ByteTaken DEF freed
  <2> QED BY <2>3, <2>4
<1>6. \A q \in objects' : q.typ = "Tstring" => q \in objects
  BY <1>3, <1>4
<1> QED BY <1>1, <1>4, <1>5, <1>6, TextStays

(* A string is decoded to text, and the pointer to it is no part of it.     *)
LEMMA StringText ==
  ASSUME mod \in Modules, H!TypeOK, Text, NEW typ, NEW off \in Nat, NEW data \in Octets,
         String(typ, off, data)
  PROVE  Text'
<1> DEFINE str == Lossy(data)
           f == H!FreePtr
           o == H!StringObject(f, Len(str))
           a == H!Dest(off)
           head == H!ObjectHeader + H!StringHeader
           w == H!EndOf(o) - o.at
           freed == Taken(memory, f, head)
           filled == Stored(freed, f + head, str)
           mem == Taken(filled, a, H!PtrSize)
<1>1. H!LoadString(Len(str), off) /\ Remember(mem)
  BY DEF String
<1>2. str \in Octets /\ Len(str) \in Nat /\ Utf8(str)
  BY LossyType, LossyIsText
<1>3. a \in Nat /\ f \in Nat /\ head = 40 /\ f + head \in Nat /\ H!PtrSize \in Nat
  BY HeapAddressTypes DEF H!ObjectHeader, H!StringHeader, H!PtrSize
<1>4. /\ IsString(o) /\ o.at = f /\ o.len = Len(str) /\ w = H!HeadEnd(o) - o.at
      /\ w = head + Len(str)
  <2>1. o \in H!Object
    BY <1>2, <1>3 DEF H!StringObject, H!Object, H!StringHeader, H!Nowhere
  <2>2. o.at = f /\ o.n = 16 + Len(str) /\ o.typ = "Tstring" /\ o.len = Len(str)
    BY DEF H!StringObject, H!StringHeader
  <2> HIDE DEF o, f, str
  <2>3. w = 40 + Len(str) /\ w = H!HeadEnd(o) - o.at
    BY <1>2, <1>3, <2>2 DEF H!EndOf, H!HeadEnd, H!Payload, H!ObjectHeader
  <2> QED BY <1>3, <2>1, <2>2, <2>3 DEF IsString, H!StringHeader
<1>5. /\ heapStatus = "ok"
      /\ objects' = objects \/ objects' = objects \cup {o}
      /\ heapStatus' = "ok" => /\ H!Outcome(f, w, objects) = "ok"
                               /\ H!Outcome(a, H!PtrSize, objects \cup {o}) = "ok"
  <2> DEFINE s == H!StringEnd(o, off)
  <2>1. /\ heapStatus = "ok" /\ \E places : heapStatus' \in H!Ends(s, places)
        /\ objects' = objects \/ objects' = objects \cup {o}
    BY <1>1 DEF H!LoadString, H!Item, H!Turn, H!Hosted, H!Call
  <2>2. heapStatus' = "ok" => s = "ok"
    BY <2>1, OnlyAllowed
  <2>3. s = "ok" => /\ H!Outcome(f, w, objects) = "ok"
                    /\ H!Outcome(a, H!PtrSize, objects \cup {o}) = "ok"
    BY <1>4 DEF H!StringEnd, H!Placing
  <2> QED BY <2>1, <2>2, <2>3
<1> HIDE DEF str, f, o, a, head, w, freed, filled, mem
<1>6. ASSUME heapStatus' = "ok", NEW q \in objects, IsString(q), NEW k \in 1 .. q.len
      PROVE  ByteOf(mem, CharAt(q, k)) = ByteOf(memory, CharAt(q, k))
  <2> DEFINE x == CharAt(q, k)
  <2>1. /\ ~H!Overlap(f, w, q.at, H!HeadEnd(q) - q.at)
        /\ ~H!Overlap(a, H!PtrSize, q.at, H!HeadEnd(q) - q.at)
    BY <1>5, <1>6, AllowedApart
  <2>2. w \in Nat
    BY <1>2, <1>3, <1>4
  <2>3. x \in Nat /\ x \notin f .. f + w - 1 /\ x \notin a .. a + H!PtrSize - 1
    BY <1>3, <1>6, <2>1, <2>2, CharsApart
  <2>4. x \notin f .. f + head - 1 /\ x \notin f + head .. f + head + Len(str) - 1
    BY <1>2, <1>3, <1>4, <2>3
  <2> HIDE DEF x
  <2>5. ByteOf(mem, x) = ByteOf(filled, x)
    BY <1>3, <2>3, ByteTaken DEF mem
  <2>6. ByteOf(filled, x) = ByteOf(freed, x)
    BY <1>2, <1>3, <2>3, <2>4, ByteStored DEF filled
  <2>7. ByteOf(freed, x) = ByteOf(memory, x)
    BY <1>3, <2>3, <2>4, ByteTaken DEF freed
  <2> QED BY <2>5, <2>6, <2>7 DEF x
<1>7. ASSUME heapStatus' = "ok"
      PROVE  Utf8(CharsIn(mem, o))
  <2>1. ~H!Overlap(a, H!PtrSize, o.at, H!HeadEnd(o) - o.at)
    BY <1>5, <1>7, AllowedApart
  <2>2. ASSUME NEW k \in 1 .. o.len
        PROVE  ByteOf(mem, CharAt(o, k)) = str[k]
    <3> DEFINE x == CharAt(o, k)
    <3>1. x \in Nat /\ x \notin a .. a + H!PtrSize - 1
      BY <1>3, <1>4, <2>1, CharsApart
    <3>2. x = f + head + k - 1
      <4>1. k \in Nat
        BY <1>2, <1>4
      <4> QED BY <1>3, <1>4, <4>1 DEF CharAt, H!Payload, H!ObjectHeader, H!StringHeader
    <3>3. x \in f + head .. f + head + Len(str) - 1 /\ x - (f + head) + 1 = k
      BY <1>2, <1>3, <1>4, <3>2
    <3> HIDE DEF x
    <3>4. ByteOf(mem, x) = ByteOf(filled, x)
      BY <1>3, <3>1, ByteTaken DEF mem
    <3>5. ByteOf(filled, x) = str[k]
      BY <1>2, <1>3, <3>1, <3>3, ByteStored DEF filled
    <3> QED BY <3>4, <3>5 DEF x
  <2>3. str = [k \in 1 .. o.len |-> str[k]]
    BY <1>2, <1>4 DEF Octets
  <2>4. CharsIn(mem, o) = str
    BY <2>2, <2>3 DEF CharsIn
  <2> QED BY <1>2, <2>4
<1>8. \A q \in objects' : q.typ = "Tstring" =>
        q \in objects \/ (IsString(q) /\ (heapStatus' = "ok" => Utf8(CharsIn(mem, q))))
  BY <1>4, <1>5, <1>7
<1> QED BY <1>1, <1>5, <1>6, <1>8, TextStays

(* Calls that allocate nothing and store no characters leave the strings.   *)
LEMMA QuietText ==
  ASSUME Text, UNCHANGED <<objects, memory>>, heapStatus' = "ok" => heapStatus = "ok"
  PROVE  Text'
<1>1. \A o \in objects' : o.typ = "Tstring" => IsString(o)'
  BY DEF Text, IsString, H!Object
<1>2. ASSUME heapStatus' = "ok", NEW o \in objects', o.typ = "Tstring"
      PROVE  Utf8(CharsIn(memory, o))'
  <2>1. Utf8(CharsIn(memory, o))
    BY <1>2 DEF Text
  <2>2. CharsIn(memory, o)' = CharsIn(memory, o)
    BY DEF CharsIn, CharAt, ByteOf, H!Payload, H!ObjectHeader, H!StringHeader
  <2> QED BY <2>1, <2>2
<1> QED BY <1>1, <1>2 DEF Text

(* No step damages a string and goes on.                                    *)
LEMMA TextStep ==
  ASSUME Filling, H!TypeOK, Text, [LoadedNext]_loadedVars
  PROVE  Text'
<1>1. mod \in Modules
  BY DEF Filling, LoadInv, TypeOK
<1>2. CASE LoadItem
  <2> DEFINE code  == Byte(offset)
             o     == ItemOperands
             typ   == code \div 16
             count == DataCount(code, o)
             off   == ItemOffset(o)
             data  == SubSeq(file, o.at + 1, AfterItem(code, o))
  <2>1. At("data")
    BY <1>2 DEF LoadItem
  <2>2. CASE Has(offset, 1) /\ ItemValid(code, o)
    <3>1. HeapItem(typ, count, off, data)
      BY <1>2, <2>2 DEF LoadItem
    <3>2. /\ count \in Nat /\ off \in Nat /\ data \in Octets
          /\ Len(data) = ItemBytes(typ, count)
          /\ typ = 5 => ParseWord(data, 0) \in DOMAIN TypeSize /\ ParseWord(data, 4) \in Nat
      BY <2>1, <2>2, ItemMeans
    <3> HIDE DEF code, o, typ, count, off, data
    <3>3. CASE Scalars(typ, count, off, data)
      BY <1>1, <3>2, <3>3, NumberText
    <3>4. CASE String(typ, off, data)
      BY <1>1, <3>2, <3>4, StringText
    <3>5. CASE Array(typ, off, data)
      BY <1>1, <3>2, <3>5, ArrayText
    <3>6. CASE Index(typ, off, data)
      <4>1. UNCHANGED <<objects, memory>> /\ heapStatus = "ok"
        BY <3>6 DEF Index, H!SetIndex, H!Item, H!Turn, H!Hosted, H!Call
      <4> QED BY <4>1, QuietText
    <3>7. CASE RestoreBase(typ)
      <4>1. UNCHANGED <<objects, memory>> /\ heapStatus = "ok"
        BY <3>7 DEF RestoreBase, H!Restore, H!Item, H!Turn, H!Hosted, H!Call
      <4> QED BY <4>1, QuietText
    <3> QED BY <3>1, <3>3, <3>4, <3>5, <3>6, <3>7 DEF HeapItem
  <2>3. CASE ~(Has(offset, 1) /\ ItemValid(code, o))
    <3>1. UNCHANGED <<objects, memory>> /\ heapStatus' = "panic"
      BY <1>2, <2>3 DEF LoadItem, H!RejectItem, H!heapVars
    <3> QED BY <3>1, QuietText
  <2> QED BY <2>2, <2>3
<1>3. CASE EndItems
  <2>1. UNCHANGED <<objects, memory, heapStatus>>
    BY <1>3 DEF EndItems, H!EndItems, H!heapVars
  <2> QED BY <2>1, QuietText
<1>4. CASE ProbeHeap
  <2>1. UNCHANGED <<objects, memory>> /\ heapStatus = "ok"
    BY <1>4 DEF ProbeHeap, H!Probe, H!heapVars
  <2> QED BY <2>1, QuietText
<1>5. CASE Elsewhere \/ UNCHANGED loadedVars
  <2>1. UNCHANGED <<objects, memory, heapStatus>>
    BY <1>5 DEF Elsewhere, loadedVars, heapVars
  <2> QED BY <2>1, QuietText
<1> QED BY <1>2, <1>3, <1>4, <1>5 DEF LoadedNext

(* Whatever the bytes of the file, in the middle of a load or at its end,   *)
(* the characters of every string are UTF-8 while the loader goes on: each  *)
(* string is decoded when it is made, and an item that would store into one *)
(* stops the loader.                                                        *)
THEOREM StringsStayText == LoadedSpec => []StringsAreText
<1>1. LoadedInit => Filling /\ Text
  <2>1. LoadedInit => objects = {}
    BY DEF LoadedInit, H!Init
  <2> QED BY <2>1, InitFilling DEF Text
<1>2. Filling /\ H!TypeOK /\ Text /\ [LoadedNext]_loadedVars => Filling' /\ Text'
  BY FillingStep, TextStep
<1>3. Text => StringsAreText
  <2> SUFFICES ASSUME Text, heapStatus = "ok", NEW o \in objects, o.typ = "Tstring"
               PROVE  Utf8([k \in 1 .. o.len |->
                              ByteIn(H!Payload(o) + H!StringHeader + k - 1)])
    BY DEF StringsAreText
  <2>1. CharsIn(memory, o) = [k \in 1 .. o.len |->
                                ByteIn(H!Payload(o) + H!StringHeader + k - 1)]
    BY DEF CharsIn, CharAt, ByteOf, ByteIn
  <2> QED BY <2>1 DEF Text
<1> QED BY <1>1, <1>2, <1>3, LoadedHeapHolds, PTL DEF LoadedSpec
=============================================================================
