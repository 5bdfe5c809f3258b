----------------------------- MODULE DisLoader ------------------------------
(***************************************************************************)
(* load_module (disvm/src/module.rs): the parser of a Dis object file, one *)
(* step per section or per turn of a section's loop.  A cursor walks the   *)
(* bytes; every read looks whether the bytes it wants are there, and the   *)
(* process panics when they are not.                                       *)
(*                                                                         *)
(* The file is what an encoder wrote for a module, whole, cut short or     *)
(* with a byte replaced.  What data items do to the heap is the subject of *)
(* ModuleHeap; here they move the cursor, and may stop the process.        *)
(***************************************************************************)
EXTENDS Integers, Sequences, SequencesExt, Operands

CONSTANTS
  Modules,     \* the modules a file may describe
  Damage       \* what may happen to the file of each: "none", "cut", "byte"

(* Bound: the values a damaged byte may take.                               *)
CONSTANT DamagedBytes

XMAGIC == 819248
SMAGIC == 923426
HASEXCEPT == 32
HASLDT2 == 64
RuntimeFlags == {1, 2, 4, 8, 16, HASEXCEPT, HASLDT2, 128}

VARIABLES
  mod,       \* the module the file was written for
  file,      \* buffer: the bytes of the file
  damage,    \* what happened to the file since it was written
  offset,    \* the cursor, offset here and in BufferedReader
  section,   \* where load_module stands
  left,      \* turns left in the section's loop
  inner,     \* turns left in the loop over one module's imports
  dis,       \* the Module being filled
  status     \* "ok", "panic", or "heap": stopped by the heap

cursor == <<offset, section, left, inner>>
vars == <<mod, file, damage, cursor, dis, status>>

-----------------------------------------------------------------------------
(* The object file format, as an encoder writes it.  A module's wide flag   *)
(* makes it write every number in the longest form its reader takes.        *)

Width(v, wide) ==
  IF wide THEN 4
  ELSE IF Encodable(v, 1) THEN 1 ELSE IF Encodable(v, 2) THEN 2 ELSE 4

Op(v, wide) == EncodeOperand(v, Width(v, wide))
Ops(vs, wide) == FlattenSeq([k \in 1 .. Len(vs) |-> Op(vs[k], wide)])
Each(s, Enc(_)) == FlattenSeq([k \in 1 .. Len(s) |-> Enc(s[k])])
Name(s) == s \o <<0>>

Header(m) ==
  <<m.flag, m.stack, Len(m.code), m.dsize, Len(m.types), Len(m.links), m.pc, m.etype>>

EncodeHeader(m) ==
  EncodeOperand(m.flag, IF m.flag < 64 THEN 1 ELSE 2) \o Ops(Tail(Header(m)), m.wide)

EncodeItem(i, wide) ==
  LET short == i.count \in 1 .. 15 IN
  <<16 * i.typ + (IF short THEN i.count ELSE 0)>>
  \o (IF short THEN <<>> ELSE Op(i.count, wide))
  \o Op(i.off, wide) \o i.payload

EncodeCode(i, wide) == <<i.opcode, i.address>> \o Ops(i.mid \o i.src \o i.dst, wide)
EncodeType(t, wide) == Ops(<<t.no, t.size, Len(t.map)>>, wide) \o t.map
EncodeLink(l, wide) == Ops(<<l.pc, l.desc>>, wide) \o EncodeWord(l.sig) \o Name(l.fn)
EncodeImport(i) == EncodeWord(i.sig) \o Name(i.fn)
EncodeImportModule(im, wide) == Op(Len(im), wide) \o Each(im, EncodeImport)
EncodeHandler(e, wide) == Name(e.fn) \o Op(e.pc, wide)

EncodeImports(m) ==
  IF m.flag # HASLDT2 THEN <<>>
  ELSE Op(Len(m.imports), m.wide)
       \o Each(m.imports, LAMBDA im : EncodeImportModule(im, m.wide)) \o <<0>>

EncodeHandlers(m) ==
  IF m.flag # HASEXCEPT THEN <<>>
  ELSE Ops(SubSeq(m.handler, 1, 4) \o <<Len(m.exceptions)>>, m.wide)
       \o Each(m.exceptions, LAMBDA e : EncodeHandler(e, m.wide))
       \o Op(m.handler[5], m.wide)

EncodeMagic(m) ==
  IF m.signature = <<>> THEN Op(XMAGIC, TRUE)
  ELSE Op(SMAGIC, TRUE) \o Op(Len(m.signature), m.wide) \o m.signature

EncodeFront(m) ==
  EncodeMagic(m) \o EncodeHeader(m)
  \o Each(m.code, LAMBDA i : EncodeCode(i, m.wide))
  \o Each(m.types, LAMBDA t : EncodeType(t, m.wide))

EncodeData(m) == Each(m.items, LAMBDA i : EncodeItem(i, m.wide)) \o <<0>>

EncodeRest(m) ==
  Name(m.name) \o Each(m.links, LAMBDA l : EncodeLink(l, m.wide))
  \o EncodeImports(m) \o EncodeHandlers(m) \o Name(m.path)

Encode(m) == EncodeFront(m) \o EncodeData(m) \o EncodeRest(m)

(* The Module such a file stands for.  Long operands come back without      *)
(* their sign, unless i16 brings it back: a wide middle operand has its low *)
(* 16 bits right.                                                           *)
Unsigned(v, wide) ==
  IF v < 0 /\ Width(v, wide) > 1 THEN v + Bits(Width(v, wide)) ELSE v
AllUnsigned(vs, wide) == [k \in DOMAIN vs |-> Unsigned(vs[k], wide)]

MeaningOfCode(i, wide) ==
  [i EXCEPT !.mid = [k \in DOMAIN @ |-> IntoI16(Unsigned(@[k], wide))],
            !.src = AllUnsigned(@, wide), !.dst = AllUnsigned(@, wide)]

Meaning(m) ==
  [signature |-> m.signature, header |-> AllUnsigned(Header(m), m.wide),
   code |-> [k \in DOMAIN m.code |-> MeaningOfCode(m.code[k], m.wide)],
   types |-> [k \in DOMAIN m.types |-> [m.types[k] EXCEPT !.size = Unsigned(@, m.wide)]],
   name |-> m.name,
   links |-> [k \in DOMAIN m.links |-> [m.links[k] EXCEPT !.pc = Unsigned(@, m.wide)]],
   imports |-> IF m.flag = HASLDT2 THEN m.imports ELSE <<>>,
   handler |-> IF m.flag = HASEXCEPT THEN m.handler ELSE <<>>,
   path |-> m.path]

-----------------------------------------------------------------------------
(* Reading.  Offsets count from 0, as in the code.                          *)

Byte(at) == file[at + 1]
Has(at, n) == at + n <= Len(file)

(* parse_operand is handed four bytes, however short the operand.           *)
PeekBug == 6
Peek == 4

(* n operands from an offset: whether the bytes are there, where they end,  *)
(* their values and sizes.                                                  *)
PastEnd == Len(file) + 1
After == [p \in Nat |-> IF Has(p, Peek) THEN p + ParseOperand(file, p).size ELSE PastEnd]

Operands(at, n) ==
  LET pos[k \in 0 .. n] == IF k = 0 THEN at ELSE After[pos[k - 1]]
      read == IF pos[n] < PastEnd
              THEN [k \in 1 .. n |-> ParseOperand(file, pos[k - 1])] ELSE <<>>
  IN [ok |-> pos[n] < PastEnd, at |-> pos[n],
      val |-> [k \in DOMAIN read |-> read[k].val],
      size |-> [k \in DOMAIN read |-> read[k].size]]

(* A name: the bytes up to a zero, and the offset behind it.                *)
Zeros(at) == {z \in at .. Len(file) - 1 : Byte(z) = 0}

CStringBug(at) ==
  IF Zeros(at) = {} THEN [ok |-> TRUE, str |-> <<>>, at |-> Len(file)]
  ELSE LET z == CHOOSE z \in Zeros(at) : \A y \in Zeros(at) : z <= y IN
       [ok |-> TRUE, str |-> SubSeq(file, at + 1, z), at |-> z + 1]

CString(at) ==
  IF Zeros(at) = {} THEN [ok |-> FALSE, str |-> <<>>, at |-> at]
  ELSE LET z == CHOOSE z \in Zeros(at) : \A y \in Zeros(at) : z <= y IN
       [ok |-> TRUE, str |-> SubSeq(file, at + 1, z), at |-> z + 1]

At(s) == section = s /\ status = "ok"

Panic == status' = "panic" /\ UNCHANGED <<mod, file, damage, cursor, dis>>

Move(at, s) ==
  /\ offset' = at /\ section' = s
  /\ UNCHANGED <<mod, file, damage, status>>

NewModule ==
  [signature |-> <<>>, header |-> <<>>, code |-> <<>>, types |-> <<>>, name |-> <<>>,
   links |-> <<>>, imports |-> <<>>, handler |-> <<>>, path |-> <<>>]

(* The file read: whole, cut short to a length in from .. to - 1, or with   *)
(* one of the bytes between replaced.                                       *)
Damaged(m, how, from, to) ==
  LET f == Encode(m) IN
  IF how = "none" THEN {f}
  ELSE IF how = "cut" THEN {SubSeq(f, 1, n) : n \in from .. to - 1}
  ELSE {[f EXCEPT ![n] = b] : n \in from + 1 .. to, b \in DamagedBytes} \ {f}

InitWith(from, to) ==
  /\ file \in Damaged(mod, damage, from, to)
  /\ offset = 0 /\ section = "magic" /\ left = 0 /\ inner = 0
  /\ dis = NewModule /\ status = "ok"

Init ==
  /\ mod \in Modules /\ damage \in Damage[mod]
  /\ InitWith(0, Len(Encode(mod)))

-----------------------------------------------------------------------------
(* Header.                                                                  *)

ReadMagic ==
  LET m == Operands(0, 1)
      l == Operands(0, 2)
      n == ToUsize(l.val[2])
      plain == m.ok /\ m.val[1] = XMAGIC
      signed == m.ok /\ m.val[1] = SMAGIC /\ l.ok /\ Has(l.at, n)
  IN
  /\ At("magic")
  /\ UNCHANGED <<left, inner>>
  /\ \/ plain /\ Move(m.at, "header") /\ UNCHANGED dis
     \/ /\ signed
        /\ dis' = [dis EXCEPT !.signature = SubSeq(file, l.at + 1, l.at + n)]
        /\ Move(l.at + n, "header")
     \/ ~plain /\ ~signed /\ Panic

(* The flag is a u16: a four-byte operand panics in into_u16, and a         *)
(* combination of flags in from_u16.  Code, data, type and link sizes may   *)
(* not be negative.                                                         *)
HeaderValid(h) ==
  /\ h.ok
  /\ h.size[1] # 4 /\ h.val[1] \in RuntimeFlags
  /\ \A k \in 3 .. 6 : h.val[k] >= 0

ReadHeader ==
  LET h == Operands(offset, 8) IN
  /\ At("header")
  /\ IF HeaderValid(h)
     THEN /\ dis' = [dis EXCEPT !.header = h.val]
          /\ left' = h.val[3] /\ inner' = 0
          /\ Move(h.at, "code")
     ELSE Panic

Flag       == dis.header[1]
DataSize   == dis.header[4]
TypeCount  == dis.header[5]
LinkCount  == dis.header[6]
EntryType  == dis.header[8]

-----------------------------------------------------------------------------
(* Code and types.                                                          *)

(* The addressing byte: middle mode in the top two bits, then source, then  *)
(* destination.  Modes 4 and 5 take two operands, 3 takes none; a reserved  *)
(* source takes one and drops it, a reserved destination panics.            *)
MidMode(a) == a \div 64
SrcMode(a) == (a \div 8) % 8
DstMode(a) == a % 8
MidCount(a) == IF MidMode(a) = 0 THEN 0 ELSE 1
OperandCount(mode) == IF mode = 3 THEN 0 ELSE IF mode \in {4, 5} THEN 2 ELSE 1

(* InstructionBug takes the destination before the source.                  *)
InstructionBug(opcode, a, val) ==
  LET m == MidCount(a)
      n == OperandCount(DstMode(a))
  IN [opcode |-> opcode, address |-> a,
      mid |-> [k \in 1 .. m |-> IntoI16(val[k])],
      src |-> SubSeq(val, m + n + 1, Len(val)),
      dst |-> SubSeq(val, m + 1, m + n)]

Instruction(opcode, a, val) ==
  LET m == MidCount(a)
      n == OperandCount(SrcMode(a))
  IN [opcode |-> opcode, address |-> a,
      mid |-> [k \in 1 .. m |-> IntoI16(val[k])],
      src |-> IF SrcMode(a) \in {6, 7} THEN <<>> ELSE SubSeq(val, m + 1, m + n),
      dst |-> SubSeq(val, m + n + 1, Len(val))]

ReadInstruction ==
  LET a == Byte(offset + 1)
      o == Operands(offset + 2, MidCount(a) + OperandCount(SrcMode(a))
                                            + OperandCount(DstMode(a)))
  IN
  /\ At("code") /\ left > 0
  /\ IF Has(offset, 2) /\ o.ok /\ DstMode(a) \notin {6, 7}
     THEN /\ dis' = [dis EXCEPT !.code = Append(@, Instruction(Byte(offset), a, o.val))]
          /\ left' = left - 1 /\ inner' = 0
          /\ Move(o.at, "code")
     ELSE Panic

ReadType ==
  LET o == Operands(offset, 3)
      n == IF o.val[3] < 0 THEN 0 ELSE o.val[3]
  IN
  /\ At("types") /\ left > 0
  /\ IF o.ok /\ Has(o.at, n)
     THEN /\ dis' = [dis EXCEPT !.types = Append(@,
                       [no |-> o.val[1], size |-> o.val[2],
                        map |-> SubSeq(file, o.at + 1, o.at + n)])]
          /\ left' = left - 1 /\ inner' = 0
          /\ Move(o.at + n, "types")
     ELSE Panic

(* The loops over instructions and types end by count.                      *)
EndLoop ==
  /\ status = "ok" /\ left = 0
  /\ \/ section = "code" /\ left' = TypeCount /\ Move(offset, "types")
     \/ section = "types" /\ left' = 0 /\ Move(offset, "heap")
     \/ section = "links" /\ left' = 0 /\ Move(offset, "imports")
  /\ UNCHANGED <<inner, dis>>

-----------------------------------------------------------------------------
(* The heap and the data section.                                           *)

(* The entry frame's type and types[0] are looked up, the heap is made, and *)
(* a module with data must have its size in types[0].                       *)
DescriptorValidBug(types, etype, dsize) == etype \in 0 .. Len(types) - 1
DescriptorValid(types, etype, dsize) ==
  /\ etype \in 0 .. Len(types) - 1
  /\ dsize # 0 => types[1].size = dsize

CreateHeap ==
  /\ At("heap")
  /\ IF DescriptorValid(dis.types, EntryType, DataSize)
     THEN Move(offset, "data") /\ UNCHANGED <<left, inner, dis>>
     ELSE Panic

(* Bytes of payload of an item, by DataCodeType; 0 and 9 and above are no   *)
(* types.  A count past the end of the file is as good as any other.        *)
DataTypes == 1 .. 8
ItemBytes(typ, n) ==
  CASE typ \in {1, 3} -> n
    [] typ = 2 -> 4 * n
    [] typ \in {4, 8} -> 8 * n
    [] typ = 5 -> 8
    [] typ = 6 -> 4
    [] typ = 7 -> 0
Payload(typ, count) == ItemBytes(typ, IF count > Len(file) THEN Len(file) + 1 ELSE count)

(* An array names a type and a length, an index item an index.              *)
OperandsInRange(typ, at) ==
  /\ typ = 5 => /\ ParseWord(file, at) \in 0 .. Len(dis.types) - 1
                /\ ParseWord(file, at + 4) >= 0
  /\ typ = 6 => ParseWord(file, at) >= 0

(* Counts up to 15 are in the item's code, longer ones in an operand.       *)
DataCount(code, o) == IF code % 16 # 0 THEN code % 16 ELSE o.val[1]

ItemValid(code, o) ==
  LET count == DataCount(code, o)
      typ == code \div 16
  IN /\ o.ok /\ count >= 0
     /\ typ \in DataTypes
     /\ Has(o.at, Payload(typ, count))
     /\ OperandsInRange(typ, o.at)

(* Where the cursor stands once an item is read.                            *)
AfterItemBug(code, o) == offset
AfterItem(code, o) == o.at + Payload(code \div 16, DataCount(code, o))

ItemOperands == Operands(offset + 1, IF Byte(offset) % 16 = 0 THEN 2 ELSE 1)

ReadItem ==
  /\ At("data") /\ (Has(offset, 1) => Byte(offset) # 0)
  /\ IF Has(offset, 1) /\ ItemValid(Byte(offset), ItemOperands)
     THEN /\ Move(AfterItem(Byte(offset), ItemOperands), "data")
          /\ UNCHANGED <<left, inner, dis>>
     ELSE Panic

(* The zero byte.                                                           *)
EndData ==
  /\ At("data") /\ Has(offset, 1) /\ Byte(offset) = 0
  /\ Move(offset + 1, "name")
  /\ UNCHANGED <<left, inner, dis>>

(* The heap may stop the process instead: when the kernel refuses its       *)
(* mapping, on an item it rejects or faults on, and on the probe after the  *)
(* last item.  ModuleHeap says when.                                        *)
HeapStops ==
  /\ \/ At("heap") /\ EntryType \in 0 .. Len(dis.types) - 1
     \/ /\ At("data") /\ Has(offset, 1)
        /\ Byte(offset) = 0 \/ ItemValid(Byte(offset), ItemOperands)
  /\ status' = "heap"
  /\ UNCHANGED <<mod, file, damage, cursor, dis>>

-----------------------------------------------------------------------------
(* Name, exports and imports.                                               *)

ReadName ==
  LET c == CString(offset) IN
  /\ At("name")
  /\ IF c.ok
     THEN /\ dis' = [dis EXCEPT !.name = c.str]
          /\ left' = LinkCount /\ inner' = 0
          /\ Move(c.at, "links")
     ELSE Panic

(* A link's descriptor, unless 0, must be the index of a type.              *)
ReadLink ==
  LET o == Operands(offset, 2)
      c == CString(o.at + 4)
  IN
  /\ At("links") /\ left > 0
  /\ IF /\ o.ok /\ o.val[2] \in 0 .. Len(dis.types) - 1
        /\ Has(o.at, 4) /\ c.ok
     THEN /\ dis' = [dis EXCEPT !.links = Append(@,
                       [pc |-> o.val[1], desc |-> o.val[2],
                        sig |-> ParseWord(file, o.at), fn |-> c.str])]
          /\ left' = left - 1 /\ inner' = 0
          /\ Move(c.at, "links")
     ELSE Panic

BeginImports ==
  LET o == Operands(offset, 1) IN
  /\ At("imports")
  /\ UNCHANGED <<dis, inner>>
  /\ IF Flag # HASLDT2
     THEN UNCHANGED left /\ Move(offset, "handlers")
     ELSE IF o.ok
          THEN left' = ToUsize(o.val[1]) /\ Move(o.at, "import")
          ELSE Panic

(* inner counts what is left of one module's imports.                       *)
ReadImportModule ==
  LET o == Operands(offset, 1) IN
  /\ At("import") /\ inner = 0 /\ left > 0
  /\ IF o.ok
     THEN /\ left' = left - 1
          /\ inner' = ToUsize(o.val[1])
          /\ dis' = [dis EXCEPT !.imports = Append(@, <<>>)]
          /\ Move(o.at, "import")
     ELSE Panic

ReadImport ==
  LET c == CString(offset + 4)
      last == Len(dis.imports)
  IN
  /\ At("import") /\ inner > 0
  /\ IF Has(offset, 4) /\ c.ok
     THEN /\ inner' = inner - 1
          /\ dis' = [dis EXCEPT !.imports[last] = Append(@,
                       [sig |-> ParseWord(file, offset), fn |-> c.str])]
          /\ UNCHANGED left
          /\ Move(c.at, "import")
     ELSE Panic

(* A zero byte ends the section; it is skipped without a look.              *)
EndImports ==
  /\ At("import") /\ inner = 0 /\ left = 0
  /\ Move(offset + 1, "handlers")
  /\ UNCHANGED <<left, inner, dis>>

-----------------------------------------------------------------------------
(* Exception handlers and the source path.                                  *)

(* The cursor moves by the VALUE of the handler count, where every other    *)
(* operand moves it by its size.                                            *)
BeginHandlers ==
  LET o == Operands(offset, 5)
      count == ToUsize(o.val[5])
  IN
  /\ At("handlers")
  /\ UNCHANGED inner
  /\ IF Flag # HASEXCEPT
     THEN UNCHANGED <<dis, left>> /\ Move(offset, "path")
     ELSE IF o.ok
          THEN /\ dis' = [dis EXCEPT !.handler = SubSeq(o.val, 1, 4)]
               /\ left' = count
               /\ Move(o.at - o.size[5] + count, "handler")
          ELSE Panic

(* The name is read, the pc is looked at, four bytes are passed, and the    *)
(* handler is dropped.                                                      *)
ReadHandler ==
  LET c == CString(offset) IN
  /\ At("handler") /\ left > 0
  /\ IF c.ok /\ Has(c.at, Peek)
     THEN left' = left - 1 /\ UNCHANGED <<inner, dis>> /\ Move(c.at + 4, "handler")
     ELSE Panic

EndHandlers ==
  LET o == Operands(offset, 1) IN
  /\ At("handler") /\ left = 0
  /\ UNCHANGED <<left, inner>>
  /\ IF o.ok
     THEN /\ dis' = [dis EXCEPT !.handler = Append(@, o.val[1])]
          /\ Move(offset + 4, "path")
     ELSE Panic

ReadPath ==
  LET c == CString(offset) IN
  /\ At("path")
  /\ UNCHANGED <<left, inner>>
  /\ IF c.ok
     THEN dis' = [dis EXCEPT !.path = c.str] /\ Move(c.at, "done")
     ELSE Panic

Parse ==
  \/ ReadMagic \/ ReadHeader \/ ReadInstruction \/ ReadType \/ EndLoop
  \/ CreateHeap \/ ReadItem \/ EndData \/ ReadName \/ ReadLink
  \/ BeginImports \/ ReadImportModule \/ ReadImport \/ EndImports
  \/ BeginHandlers \/ ReadHandler \/ EndHandlers \/ ReadPath

Next == Parse \/ HeapStops

(* load_module is one loop after the other on one thread: it keeps taking   *)
(* its next step while it has one.  The heap need never stop it.            *)
Spec == Init /\ [][Next]_vars /\ WF_vars(Parse)

-----------------------------------------------------------------------------
(* What an encoder writes: numbers that fit the longest operand, names      *)
(* without a zero byte, instructions with the operands their addressing     *)
(* byte announces, items with the payload theirs does, and every type named *)
(* by its index.                                                            *)

Octet  == 0 .. 255
Octets == Seq(Octet)
Names  == Seq(1 .. 255)
Number == -(Bits(4) \div 2) .. Bits(4) \div 2 - 1
Count  == 0 .. Bits(4) \div 2 - 1
WordMax == 2147483647
Word   == -WordMax - 1 .. WordMax

Codes   == [opcode : Octet, address : Octet,
            mid : Seq(Number), src : Seq(Number), dst : Seq(Number)]
Types   == [no : Count, size : Number, map : Octets]
Items   == [typ : DataTypes, count : Count, off : Number, payload : Octets]
Links   == [pc : Number, desc : Count, sig : Word, fn : Names]
Imports == [sig : Word, fn : Names]
Handles == [fn : Names, pc : Number]

ModuleFields ==
  [wide : BOOLEAN, signature : Octets, flag : RuntimeFlags, stack : Number, dsize : Count,
   pc : Number, etype : Count, code : Seq(Codes), types : Seq(Types), items : Seq(Items),
   name : Names, links : Seq(Links), imports : Seq(Seq(Imports)),
   handler : Seq(Number), exceptions : Seq(Handles), path : Names]

CodeFits(i) ==
  /\ SrcMode(i.address) \notin {6, 7} /\ DstMode(i.address) \notin {6, 7}
  /\ Len(i.mid) = MidCount(i.address)
  /\ Len(i.src) = OperandCount(SrcMode(i.address))
  /\ Len(i.dst) = OperandCount(DstMode(i.address))

ItemFits(i, types) ==
  /\ Len(i.payload) = ItemBytes(i.typ, i.count)
  /\ i.typ = 5 => /\ ParseWord(i.payload, 0) \in 0 .. Len(types) - 1
                  /\ ParseWord(i.payload, 4) >= 0
  /\ i.typ = 6 => ParseWord(i.payload, 0) >= 0

IsModule(m) ==
  /\ m \in ModuleFields
  /\ \A s \in {m.signature, m.code, m.types, m.links, m.imports, m.exceptions} : Len(s) \in Count
  /\ \A k \in DOMAIN m.code : CodeFits(m.code[k])
  /\ \A k \in DOMAIN m.types : Len(m.types[k].map) \in Count
  /\ \A k \in DOMAIN m.items : ItemFits(m.items[k], m.types)
  /\ \A k \in DOMAIN m.links : m.links[k].desc < Len(m.types)
  /\ \A k \in DOMAIN m.imports : Len(m.imports[k]) \in Count
  /\ m.etype < Len(m.types)
  /\ m.dsize # 0 => m.types[1].size = m.dsize
  /\ m.flag = HASEXCEPT => Len(m.handler) = 5

ASSUME EncoderAssumption ==
  /\ \A m \in Modules : IsModule(m)
  /\ Damage \in [Modules -> SUBSET {"none", "cut", "byte"}]
  /\ DamagedBytes \subseteq 0 .. 255

-----------------------------------------------------------------------------
(* Properties.                                                              *)

Instructions == [opcode : Octet, address : Octet,
                 mid : Seq(Int), src : Seq(Int), dst : Seq(Int)]
TypesRead    == [no : Int, size : Int, map : Octets]
LinksRead    == [pc : Int, desc : Int, sig : Int, fn : Octets]
ImportsRead  == [sig : Int, fn : Octets]

Parsed ==
  [signature : Octets, header : Seq(Int), code : Seq(Instructions), types : Seq(TypesRead),
   name : Octets, links : Seq(LinksRead), imports : Seq(Seq(ImportsRead)),
   handler : Seq(Int), path : Octets]

TypeOK ==
  /\ mod \in Modules /\ damage \in {"none", "cut", "byte"}
  /\ file \in Octets
  /\ offset \in Nat /\ left \in Nat /\ inner \in Nat
  /\ section \in {"magic", "header", "code", "types", "heap", "data", "name", "links",
                  "imports", "import", "handlers", "handler", "path", "done"}
  /\ dis \in Parsed
  /\ status \in {"ok", "panic", "heap"}

Whole == damage = "none"
Handlerless == mod.flag # HASEXCEPT

(* What is loaded is what was written: for a whole file without handlers    *)
(* every field of the module comes back, negative numbers of one byte as    *)
(* they were and longer ones as Unsigned says, and the last byte read is    *)
(* the last of the file, through all the cursor's moves.                    *)
RoundTrip ==
  section = "done" /\ Whole /\ Handlerless =>
    dis = Meaning(mod) /\ offset = Len(file)

(* No such file panics the parser, if only it has a source path: without    *)
(* one, the four bytes every operand is looked at in may reach past the end *)
(* of the import section and of the file.                                   *)
WholeLoads ==
  Whole /\ Handlerless /\ mod.path # <<>> => status # "panic"

(* A file cut short anywhere is never taken for a module.                   *)
CutRejected == damage = "cut" => section # "done"

(* Whatever the bytes, a module that is handed out is one the rest of the   *)
(* VM can index into: as many instructions, types and links as the header   *)
(* says, the entry frame's type and every link's type described, the module *)
(* data of the size its descriptor says, and no byte read past the file.    *)
Coherent ==
  section = "done" =>
    /\ offset <= Len(file)
    /\ Flag \in RuntimeFlags
    /\ Len(dis.code) = dis.header[3]
    /\ Len(dis.types) = TypeCount
    /\ Len(dis.links) = LinkCount
    /\ EntryType \in 0 .. Len(dis.types) - 1
    /\ \A l \in ToSet(dis.links) : l.desc \in 0 .. Len(dis.types) - 1
    /\ DataSize # 0 => dis.types[1].size = DataSize

(* Whatever the bytes, negative counts and counts past the file's end       *)
(* included, loading ends: every turn of every loop takes bytes or counts   *)
(* down.                                                                    *)
Terminates == <>(section = "done" \/ status # "ok")

-----------------------------------------------------------------------------
(* "header, code, exports, imports, handler" are ticked under "Module       *)
(* parsing and loading" (README): a whole file with exception handlers is   *)
(* loaded, and comes back as written.                                       *)
HandlersLoad ==
  Whole /\ ~Handlerless =>
    /\ status # "panic"
    /\ section = "done" => dis = Meaning(mod) /\ offset = Len(file)
=============================================================================
