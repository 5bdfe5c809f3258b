-------------------------- MODULE RoundTripProofs --------------------------
(***************************************************************************)
(* What comes back from a file: for every module an encoder may write, and *)
(* its file whole or cut short, the parser stands between two parts of the *)
(* file at each step, and the Module being filled is what the parts behind *)
(* it mean.                                                                *)
(***************************************************************************)
EXTENDS DisLoaderProofs

(* From an offset to its end, the encoder's file of m is r.                 *)
RunsOn(m, at, r) ==
  /\ Len(Encode(m)) = at + Len(r)
  /\ \A k \in 1 .. Len(r) : Encode(m)[at + k] = r[k]
Reads(at, r) == RunsOn(mod, at, r)

(* The file read is that file up to some length; a byte that is replaced    *)
(* lies behind the types.                                                   *)
Begins ==
  /\ mod \in Modules /\ Len(file) <= Len(Encode(mod))
  /\ \A k \in 1 .. Len(file) :
       (damage = "byte" => k <= Len(Encode(mod)) - Len(FromItem(mod, 0))) => file[k] = Encode(mod)[k]
  /\ Whole => Len(file) = Len(Encode(mod))
  /\ damage = "cut" => Len(file) < Len(Encode(mod))
Prefix == Begins /\ damage # "byte"

(* What stands before r is as it was written.                               *)
Clear(r) == damage = "byte" => Len(r) >= Len(FromItem(mod, 0))

(* What the parser is to make of each part.                                 *)
CodeMeans(k)  == MeaningOfCode(mod.code[k], mod.wide)
TypeMeans(k)  == [mod.types[k] EXCEPT !.size = Unsigned(@, mod.wide)]
LinkMeans(k)  == [mod.links[k] EXCEPT !.pc = Unsigned(@, mod.wide)]
ImportsMean   == IF mod.flag = HASLDT2 THEN mod.imports ELSE <<>>

FrontKept ==
  /\ dis.signature = IF section = "magic" THEN <<>> ELSE mod.signature
  /\ section \notin Unopened => dis.header = AllUnsigned(Header(mod), mod.wide)

CodeKept  == \A k \in 1 .. Len(dis.code) : dis.code[k] = CodeMeans(k)
TypesKept == \A k \in 1 .. Len(dis.types) : dis.types[k] = TypeMeans(k)
LinksKept == \A k \in 1 .. Len(dis.links) : dis.links[k] = LinkMeans(k)

NamesKept ==
  /\ section \in Late \cup {"links"} => dis.name = mod.name
  /\ section = "done" => dis.path = mod.path

Begun == Len(dis.imports)
OpenedModule == mod.imports[Begun]
TakenOf == Len(OpenedModule) - inner

ImportsKept ==
  /\ section \in (Early \cup {"data", "name", "links", "imports"}) => dis.imports = <<>>
  /\ section = "import" =>
       /\ mod.flag = HASLDT2
       /\ Begun + left = Len(mod.imports)
       /\ \A k \in 1 .. Begun - 1 : dis.imports[k] = mod.imports[k]
       /\ Begun > 0 => /\ inner <= Len(OpenedModule)
                        /\ dis.imports[Begun] = SubSeq(OpenedModule, 1, TakenOf)
  /\ section \in {"handlers", "path", "done"} => dis.imports = ImportsMean

(* Where it stands.                                                         *)
StandsIn(s, r) == section = s => Reads(offset, r)

Standing ==
  /\ section # "handler" /\ dis.handler = <<>>
  /\ section = "magic" => offset = 0
  /\ StandsIn("header", FromHeader(mod))
  /\ StandsIn("code", FromCode(mod, Len(dis.code)))
  /\ StandsIn("types", FromType(mod, Len(dis.types)))
  /\ StandsIn("heap", FromItem(mod, 0))
  /\ section = "data" => \E k \in 0 .. Len(mod.items) : Reads(offset, FromItem(mod, k))
  /\ StandsIn("name", FromName(mod))
  /\ StandsIn("links", FromLink(mod, Len(dis.links)))
  /\ StandsIn("imports", FromImports(mod))
  /\ StandsIn("import", IF Begun = 0 THEN FromImport(mod, 0)
                        ELSE FlatFrom(FunctionBytes(OpenedModule), TakenOf) \o FromImport(mod, Begun))
  /\ StandsIn("handlers", FromHandlers(mod))
  /\ StandsIn("path", FromPath(mod))
  /\ StandsIn("done", <<>>)

(* A file that must load.                                                   *)
Loads == Whole /\ Handlerless /\ mod.path # <<>>

AsWritten ==
  /\ Prefix
  /\ FrontKept /\ CodeKept /\ TypesKept /\ LinksKept /\ NamesKept /\ ImportsKept
  /\ Standing
  /\ Loads => status # "panic"

TripInv == LoadInv /\ (Handlerless /\ damage # "byte" => AsWritten)

-----------------------------------------------------------------------------
(* Reading what was written.                                                *)

(* The module is one an encoder may write, and its file is bytes.           *)
LEMMA ModuleWritten ==
  ASSUME mod \in Modules
  PROVE  IsModule(mod) /\ Encode(mod) \in Octets /\ Len(Encode(mod)) \in Nat
  BY EncoderAssumption, EncodeOctets DEF Octets

(* Its data section, and what is behind that, is bytes.                     *)
LEMMA DataBehind ==
  ASSUME mod \in Modules
  PROVE  FromItem(mod, 0) \in Octets /\ Len(FromItem(mod, 0)) \in Nat
<1>1. IsModule(mod) /\ 0 \in 0 .. Len(mod.items)
  BY ModuleWritten, ModuleTypes, LenProperties
<1> QED BY <1>1, RestsType DEF Octets

(* A piece behind the cursor, the file goes on with what follows it.        *)
LEMMA ReadsPast ==
  ASSUME NEW at \in Nat, NEW a \in Octets, NEW r \in Octets, Reads(at, a \o r)
  PROVE  /\ Reads(at + Len(a), r) /\ Len(Encode(mod)) = at + Len(a) + Len(r)
         /\ Len(a) \in Nat /\ Len(r) \in Nat
         /\ \A k \in 1 .. Len(a) : Encode(mod)[at + k] = a[k]
<1> DEFINE s == a \o r
           e == Encode(mod)
<1>1. /\ Len(a) \in Nat /\ Len(r) \in Nat /\ Len(s) = Len(a) + Len(r)
      /\ \A k \in 1 .. Len(a) : s[k] = a[k]
      /\ \A k \in 1 .. Len(r) : s[Len(a) + k] = r[k]
  BY OctetsConcat
<1>2. Len(e) = at + Len(s) /\ \A k \in 1 .. Len(s) : e[at + k] = s[k]
  BY DEF Reads, RunsOn
<1> HIDE DEF s, e
<1>3. \A k \in 1 .. Len(a) : k \in 1 .. Len(s) /\ e[at + k] = a[k]
  BY <1>1, <1>2
<1>4. ASSUME NEW k \in 1 .. Len(r) PROVE e[at + Len(a) + k] = r[k]
  <2>1. Len(a) + k \in 1 .. Len(s) /\ at + (Len(a) + k) = at + Len(a) + k
    BY <1>1
  <2> QED BY <1>1, <1>2, <2>1
<1> QED BY <1>1, <1>2, <1>3, <1>4 DEF Reads, RunsOn, e

(* The cursor inside it, the file read holds the piece.                     *)
LEMMA PieceClear ==
  ASSUME file \in Octets, Begins, NEW at \in Nat, NEW a \in Octets, NEW r \in Octets,
         Clear(r), Reads(at, a \o r)
  PROVE  /\ \A k \in 1 .. Len(a) : at + k <= Len(file) => file[at + k] = a[k]
         /\ Whole => Len(file) = at + Len(a) + Len(r)
<1>1. Len(file) \in Nat
  BY DEF Octets
<1>2. /\ Len(Encode(mod)) = at + Len(a) + Len(r) /\ Len(a) \in Nat /\ Len(r) \in Nat
      /\ \A k \in 1 .. Len(a) : Encode(mod)[at + k] = a[k]
  BY ReadsPast
<1>3. \A k \in 1 .. Len(a) : at + k <= Len(file) => at + k \in 1 .. Len(file)
  BY <1>1, <1>2
<1>4. Len(FromItem(mod, 0)) \in Nat
  BY DataBehind DEF Begins
<1>5. \A k \in 1 .. Len(a) : damage = "byte" => at + k <= Len(Encode(mod)) - Len(FromItem(mod, 0))
  BY <1>2, <1>4 DEF Clear
<1> QED BY <1>1, <1>2, <1>3, <1>5 DEF Begins

(* The same, for a file that is whole or cut.                               *)
LEMMA PieceInFile ==
  ASSUME file \in Octets, Prefix, NEW at \in Nat, NEW a \in Octets, NEW r \in Octets,
         Reads(at, a \o r)
  PROVE  /\ \A k \in 1 .. Len(a) : at + k <= Len(file) => file[at + k] = a[k]
         /\ Whole => Len(file) = at + Len(a) + Len(r)
  BY PieceClear DEF Prefix, Clear

(* Bytes.                                                                   *)
LEMMA SliceClear ==
  ASSUME file \in Octets, Begins, NEW at \in Nat, NEW a \in Octets, NEW r \in Octets,
         Clear(r), Reads(at, a \o r), Has(at, Len(a)) \/ Whole
  PROVE  /\ Has(at, Len(a)) /\ SubSeq(file, at + 1, at + Len(a)) = a
         /\ Reads(at + Len(a), r)
<1>1. Len(a) \in Nat /\ Len(r) \in Nat /\ Len(file) \in Nat
  BY DEF Octets
<1>2. Has(at, Len(a))
  BY <1>1, PieceClear DEF Has
<1>3. \A k \in 1 .. Len(a) : file[at + k] = a[k] /\ a[k] \in Octet
  <2>1. \A k \in 1 .. Len(a) : at + k <= Len(file)
    BY <1>1, <1>2 DEF Has
  <2>2. \A k \in 1 .. Len(a) : a[k] \in Octet
    BY ElementOfSeq DEF Octets
  <2> QED BY <2>1, <2>2, PieceClear
<1> DEFINE b == SubSeq(file, at + 1, at + Len(a))
<1>4. \A i \in at + 1 .. at + Len(a) : file[i] \in Octet
  <2> TAKE i \in at + 1 .. at + Len(a)
  <2>1. i - at \in 1 .. Len(a) /\ at + (i - at) = i
    BY <1>1
  <2> QED BY <1>3, <2>1
<1>5. /\ b \in Octets /\ Len(b) = Len(a)
      /\ \A k \in 1 .. Len(a) : b[k] = file[at + k]
  <2>1. /\ at + 1 \in Int /\ at + Len(a) \in Int
        /\ (at + 1 <= at + Len(a) => (at + Len(a)) - (at + 1) + 1 = Len(a))
        /\ (~(at + 1 <= at + Len(a)) => Len(a) = 0)
        /\ \A k \in 1 .. Len(a) : k \in 1 .. (at + Len(a)) - (at + 1) + 1 /\ at + 1 + k - 1 = at + k
    BY <1>1
  <2>2. b \in Octets
    BY <1>4, <2>1, SubSeqProperties DEF Octets
  <2>3. Len(b) = Len(a)
    BY <1>4, <2>1, SubSeqProperties
  <2>4. \A k \in 1 .. Len(a) : b[k] = file[at + k]
    BY <1>4, <2>1, SubSeqProperties
  <2> QED BY <2>2, <2>3, <2>4
<1> HIDE DEF b
<1>6. b = a
  <2>1. \A k \in 1 .. Len(b) : b[k] = a[k]
    BY <1>3, <1>5
  <2> QED BY <1>5, <2>1, SeqEqual DEF Octets
<1> QED BY <1>2, <1>6, ReadsPast DEF b

(* The same, for a file that is whole or cut.                               *)
LEMMA SliceRead ==
  ASSUME file \in Octets, Prefix, NEW at \in Nat, NEW a \in Octets, NEW r \in Octets,
         Reads(at, a \o r), Has(at, Len(a)) \/ Whole
  PROVE  /\ Has(at, Len(a)) /\ SubSeq(file, at + 1, at + Len(a)) = a
         /\ Reads(at + Len(a), r)
  BY SliceClear DEF Prefix, Clear

(* Operands: as written, but for the sign of those of more than one byte.   *)
Came(v, w) == IF v < 0 /\ w > 1 THEN v + Bits(w) ELSE v

(* A number that came back is the one written, but for its sign when long.  *)
LEMMA CameBack ==
  ASSUME NEW v \in Int, NEW w \in {1, 2, 4}, Encodable(v, w)
  PROVE  Came(v, w) \in Int /\ (w # 1 => v % Bits(w) = Came(v, w))
<1>1. CASE w = 1
  BY <1>1 DEF Came, Bits
<1>2. CASE w = 2
  BY SMT, <1>2 DEF Came, Bits, Encodable
<1>3. CASE w = 4
  BY SMT, <1>3 DEF Came, Bits, Encodable
<1> QED BY <1>1, <1>2, <1>3

(* An operand in the file is parsed to the number written there, if the     *)
(* four bytes the parser looks at are in the file.                          *)
LEMMA OneOperand ==
  ASSUME file \in Octets, Begins, NEW at \in Nat, NEW v \in Int, NEW w \in {1, 2, 4},
         Encodable(v, w), NEW r \in Octets, Clear(r),
         Reads(at, EncodeOperand(v, w) \o r), Has(at, Peek)
  PROVE  ParseOperand(file, at) = [size |-> w, val |-> Came(v, w)]
<1> DEFINE a == EncodeOperand(v, w)
<1>1. a \in Octets /\ Len(a) = w
  BY EncodeOperandType
<1>2. Reads(at, a \o r)
  OBVIOUS
<1> HIDE DEF a
<1>3. \A k \in 1 .. Len(a) : at + k <= Len(file)
  <2>1. Len(file) \in Nat
    BY DEF Octets
  <2> QED BY <1>1, <2>1 DEF Has, Peek
<1>4. Holds(file, at, a)
  BY <1>1, <1>2, <1>3, PieceClear DEF Holds
<1>5. CASE w = 1
  <2>1. Came(v, w) = v
    BY <1>5 DEF Came
  <2> QED BY <1>4, <1>5, <2>1, ByteOperand DEF a
<1>6. CASE w = 2
  <2>1. v % Bits(2) = Came(v, w)
    BY <1>6, CameBack
  <2> QED BY <1>4, <1>6, <2>1, ShortOperand DEF a
<1>7. CASE w = 4
  <2>1. v % Bits(4) = Came(v, w)
    BY <1>7, CameBack
  <2> QED BY <1>4, <1>7, <2>1, WordOperand DEF a
<1> QED BY <1>5, <1>6, <1>7

(* One operand after the other: what follows the k-th on its path.          *)
Pieces(vs, ws) == [k \in 1 .. Len(vs) |-> EncodeOperand(vs[k], ws[k])]
RestOf(vs, ws, k, r) == FlatFrom(Pieces(vs, ws), k) \o r

(* Numbers in a row, split behind each of them.                             *)
LEMMA PiecesFacts ==
  ASSUME NEW vs, NEW ws, Fits(vs, ws), NEW r \in Octets
  PROVE  /\ Len(vs) \in Nat
         /\ \A k \in 0 .. Len(vs) : RestOf(vs, ws, k, r) \in Octets
         /\ \A k \in 1 .. Len(vs) :
              /\ vs[k] \in Int /\ ws[k] \in {1, 2, 4} /\ Encodable(vs[k], ws[k])
              /\ EncodeOperand(vs[k], ws[k]) \in Octets /\ Len(EncodeOperand(vs[k], ws[k])) = ws[k]
              /\ RestOf(vs, ws, k - 1, r)
                   = EncodeOperand(vs[k], ws[k]) \o RestOf(vs, ws, k, r)
         /\ RestOf(vs, ws, 0, r) = Written(vs, ws) \o r
         /\ RestOf(vs, ws, Len(vs), r) = r
<1> DEFINE s == Pieces(vs, ws)
<1>1. /\ Len(vs) \in Nat
      /\ \A k \in 1 .. Len(vs) : vs[k] \in Int /\ ws[k] \in {1, 2, 4} /\ Encodable(vs[k], ws[k])
  BY LenProperties, ElementOfSeq DEF Fits
<1>2. \A k \in 1 .. Len(vs) :
        EncodeOperand(vs[k], ws[k]) \in Octets /\ Len(EncodeOperand(vs[k], ws[k])) = ws[k]
  BY <1>1, EncodeOperandType
<1>3. s \in Seq(Octets)
  BY WrittenType DEF Pieces
<1>4. Len(s) = Len(vs) /\ \A k \in 1 .. Len(vs) : s[k] = EncodeOperand(vs[k], ws[k])
  BY <1>1 DEF Pieces
<1>5. FlattenSeq(s) = Written(vs, ws)
  BY DEF Pieces, Written
<1> DEFINE Rest(k) == FlatFrom(s, k) \o r
<1> HIDE DEF s
<1>6. /\ \A k \in 0 .. Len(s) : Rest(k) \in Octets
      /\ \A k \in 0 .. Len(s) - 1 : Rest(k) = s[k + 1] \o Rest(k + 1)
      /\ Rest(Len(s)) = r /\ Rest(0) = FlattenSeq(s) \o r
  BY <1>3, PiecesBefore
<1> HIDE DEF Rest
<1>7. ASSUME NEW k \in 1 .. Len(vs)
      PROVE  Rest(k - 1) = EncodeOperand(vs[k], ws[k]) \o Rest(k)
  <2>1. k - 1 \in 0 .. Len(s) - 1 /\ (k - 1) + 1 = k
    BY <1>1, <1>4
  <2>2. Rest(k - 1) = s[(k - 1) + 1] \o Rest((k - 1) + 1)
    BY <1>6, <2>1
  <2> QED BY <1>4, <2>1, <2>2
<1>8. /\ \A k \in 0 .. Len(vs) : Rest(k) \in Octets
      /\ Rest(Len(vs)) = r /\ Rest(0) = Written(vs, ws) \o r
  BY <1>4, <1>5, <1>6
<1> QED BY <1>1, <1>2, <1>7, <1>8 DEF Rest, s, RestOf

(* What follows is in what is left.                                         *)
LEMMA RestAtLeast ==
  ASSUME NEW vs, NEW ws, Fits(vs, ws), NEW r \in Octets, NEW k \in 0 .. Len(vs)
  PROVE  Len(RestOf(vs, ws, k, r)) >= Len(r)
<1>1. Len(vs) \in Nat
  BY DEF Fits
<1>2. Pieces(vs, ws) \in Seq(Octets)
  BY WrittenType DEF Pieces
<1>3. Len(Pieces(vs, ws)) = Len(vs)
  BY <1>1 DEF Pieces
<1>4. FlatFrom(Pieces(vs, ws), k) \in Octets
  BY <1>2, <1>3, FlatFromFacts
<1> QED BY <1>4, OctetsConcat DEF RestOf

(* What comes back of operands, and the cursor before what follows them.    *)
CameIn(o, vs, ws, r) ==
  /\ o.ok /\ o.at \in Nat
  /\ o.val = [k \in 1 .. Len(vs) |-> Came(vs[k], ws[k])]
  /\ o.size = [k \in 1 .. Len(vs) |-> ws[k]]
  /\ Reads(o.at, r)

(* Operands that were written come back, if the file is not cut before them *)
(* or, when it is whole, holds three bytes more: parse_operand is handed    *)
(* four, and the shortest operand is one.                                   *)
LEMMA OperandsClear ==
  ASSUME file \in Octets, Begins, NEW at \in Nat, NEW vs, NEW ws, Fits(vs, ws), NEW r \in Octets,
         Clear(r), Reads(at, Written(vs, ws) \o r),
         Operands(at, Len(vs)).ok \/ (Whole /\ Len(r) >= 3)
  PROVE  CameIn(Operands(at, Len(vs)), vs, ws, r)
<1> DEFINE n == Len(vs)
           e(k) == EncodeOperand(vs[k], ws[k])
           Rest(k) == RestOf(vs, ws, k, r)
<1>0. n \in Nat
  BY DEF Fits
<1>1. /\ \A k \in 0 .. n : Rest(k) \in Octets
      /\ \A k \in 1 .. n : /\ vs[k] \in Int /\ ws[k] \in {1, 2, 4} /\ Encodable(vs[k], ws[k])
                          /\ e(k) \in Octets /\ Len(e(k)) = ws[k]
                          /\ Rest(k - 1) = e(k) \o Rest(k)
      /\ Rest(0) = Written(vs, ws) \o r /\ Rest(n) = r
  <2>1. \A k \in 0 .. n : Rest(k) \in Octets
    BY PiecesFacts
  <2>2. \A k \in 1 .. n : vs[k] \in Int /\ ws[k] \in {1, 2, 4} /\ Encodable(vs[k], ws[k])
    BY PiecesFacts
  <2>3. \A k \in 1 .. n : e(k) \in Octets /\ Len(e(k)) = ws[k]
    BY PiecesFacts
  <2>4. \A k \in 1 .. n : Rest(k - 1) = e(k) \o Rest(k)
    BY PiecesFacts, ZenonT(60)
  <2>5. Rest(0) = Written(vs, ws) \o r /\ Rest(n) = r
    BY PiecesFacts
  <2> QED BY <2>1, <2>2, <2>3, <2>4, <2>5
<1>1a. \A k \in 0 .. n : Len(Rest(k)) >= Len(r)
  BY RestAtLeast
<1>1b. Reads(at, Written(vs, ws) \o r) /\ ((Whole /\ Len(r) >= 3) \/ Operands(at, n).ok)
  OBVIOUS
<1> HIDE DEF n, e, Rest
<1>2. PICK pos : /\ Path(pos, at, n)
                 /\ Operands(at, n).ok <=> pos[n] < PastEnd
                 /\ Operands(at, n).at = pos[n]
                 /\ pos[n] < PastEnd =>
                      /\ Operands(at, n).val = [k \in 1 .. n |-> ParseOperand(file, pos[k - 1]).val]
                      /\ Operands(at, n).size = [k \in 1 .. n |-> ParseOperand(file, pos[k - 1]).size]
  BY <1>0, OperandsPath
<1>3. \A k \in 0 .. n : pos[k] \in Nat
  BY <1>0, <1>2, PathType
<1>4. Reads(at, Rest(0)) /\ pos[0] = at /\ \A k \in 1 .. n : pos[k] = After[pos[k - 1]]
  BY <1>1, <1>1b, <1>2 DEF Path
<1>5. Len(file) \in Nat /\ Len(r) \in Nat
  BY DEF Octets
<1>6. Operands(at, n).ok => \A k \in 1 .. n : Has(pos[k - 1], Peek)
  BY <1>0, <1>2, PathInFile
<1>8. ASSUME NEW k \in 1 .. n, Reads(pos[k - 1], Rest(k - 1))
      PROVE  /\ ParseOperand(file, pos[k - 1]) = [size |-> ws[k], val |-> Came(vs[k], ws[k])]
             /\ pos[k] = pos[k - 1] + ws[k] /\ Reads(pos[k], Rest(k))
  <2>1. k - 1 \in 0 .. n /\ k \in 0 .. n
    BY <1>0
  <2>1a. ws[k] \in {1, 2, 4} /\ e(k) \in Octets /\ Len(e(k)) = ws[k]
    BY <1>1
  <2>2. Reads(pos[k - 1], e(k) \o Rest(k)) /\ pos[k - 1] \in Nat /\ Rest(k) \in Octets
    BY <1>1, <1>3, <1>8, <2>1
  <2>4. Len(Rest(k)) >= Len(r)
    BY <1>1a, <2>1
  <2>2a. Clear(Rest(k))
    <3>1. Len(FromItem(mod, 0)) \in Nat /\ Len(Rest(k)) \in Nat
      BY <2>2, DataBehind DEF Begins, Octets
    <3> QED BY <1>5, <2>4, <3>1 DEF Clear
  <2>3. /\ Reads(pos[k - 1] + ws[k], Rest(k)) /\ Len(Rest(k)) \in Nat
        /\ Whole => Len(file) = pos[k - 1] + ws[k] + Len(Rest(k))
    <3>1. /\ Reads(pos[k - 1] + Len(e(k)), Rest(k)) /\ Len(Rest(k)) \in Nat
      BY <2>1a, <2>2, ReadsPast
    <3>2. Whole => Len(file) = pos[k - 1] + Len(e(k)) + Len(Rest(k))
      BY <2>1a, <2>2, <2>2a, PieceClear
    <3> QED BY <2>1a, <3>1, <3>2
  <2>5. Has(pos[k - 1], Peek)
    <3>1. CASE Operands(at, n).ok
      BY <1>6, <3>1
    <3>2. CASE Whole /\ Len(r) >= 3
      <4>1. ws[k] >= 1 /\ ws[k] \in Int
        BY <2>1a
      <4> QED BY <1>5, <2>2, <2>3, <2>4, <3>2, <4>1 DEF Has, Peek
    <3> QED BY <1>1b, <3>1, <3>2
  <2>6. ParseOperand(file, pos[k - 1]) = [size |-> ws[k], val |-> Came(vs[k], ws[k])]
    BY <1>1, <2>2, <2>2a, <2>5, OneOperand DEF e
  <2>7. pos[k] = pos[k - 1] + ws[k]
    BY <1>4, <2>2, <2>5, <2>6, AfterFacts
  <2> QED BY <2>3, <2>6, <2>7
<1> DEFINE T == {k \in Nat : k \in 0 .. n => Reads(pos[k], Rest(k))}
<1>9. 0 \in T
  BY <1>4
<1>10. ASSUME NEW k \in Nat, k \in T PROVE k + 1 \in T
  <2> SUFFICES ASSUME k + 1 \in 0 .. n PROVE Reads(pos[k + 1], Rest(k + 1))
    OBVIOUS
  <2>1. k \in 0 .. n /\ k + 1 \in 1 .. n /\ (k + 1) - 1 = k
    BY <1>0
  <2>2. Reads(pos[(k + 1) - 1], Rest((k + 1) - 1))
    BY <1>10, <2>1
  <2> QED BY <1>8, <2>1, <2>2
<1>11. \A k \in Nat : k \in T
  BY <1>9, <1>10, NatSetInduction
<1>12. \A k \in 0 .. n : Reads(pos[k], Rest(k))
  BY <1>11
<1>13. \A k \in 1 .. n : ParseOperand(file, pos[k - 1]) = [size |-> ws[k], val |-> Came(vs[k], ws[k])]
  <2> TAKE k \in 1 .. n
  <2>1. k - 1 \in 0 .. n
    BY <1>0
  <2> QED BY <1>8, <1>12, <2>1
<1>14. Reads(pos[n], r) /\ pos[n] \in Nat
  BY <1>0, <1>1, <1>3, <1>12
<1>15. pos[n] < PastEnd
  <2>1. CASE Operands(at, n).ok
    BY <1>2, <2>1
  <2>2. CASE Whole
    BY <1>5, <1>14, <2>2 DEF Reads, RunsOn, Begins, PastEnd
  <2> QED BY <1>1b, <2>1, <2>2
<1>16. /\ Operands(at, n).ok /\ Operands(at, n).at = pos[n]
       /\ Operands(at, n).val = [k \in 1 .. n |-> ParseOperand(file, pos[k - 1]).val]
       /\ Operands(at, n).size = [k \in 1 .. n |-> ParseOperand(file, pos[k - 1]).size]
  BY <1>2, <1>15
<1>17. /\ \A k \in 1 .. n : ParseOperand(file, pos[k - 1]).val = Came(vs[k], ws[k])
       /\ \A k \in 1 .. n : ParseOperand(file, pos[k - 1]).size = ws[k]
  <2>1. ASSUME NEW k \in 1 .. n
        PROVE  ParseOperand(file, pos[k - 1]).val = Came(vs[k], ws[k])
               /\ ParseOperand(file, pos[k - 1]).size = ws[k]
    <3>1. ParseOperand(file, pos[k - 1]) = [size |-> ws[k], val |-> Came(vs[k], ws[k])]
      BY <1>13
    <3> QED BY <3>1
  <2> QED BY <2>1
<1>18. /\ Operands(at, n).val = [k \in 1 .. n |-> Came(vs[k], ws[k])]
       /\ Operands(at, n).size = [k \in 1 .. n |-> ws[k]]
  BY <1>16, <1>17
<1>19. Operands(at, n).ok /\ Operands(at, n).at \in Nat /\ Reads(Operands(at, n).at, r)
  BY <1>14, <1>16
<1> QED BY <1>18, <1>19 DEF n, CameIn

(* The same, for a file that is whole or cut.                               *)
LEMMA OperandsRead ==
  ASSUME file \in Octets, Prefix, NEW at \in Nat, NEW vs, NEW ws, Fits(vs, ws), NEW r \in Octets,
         Reads(at, Written(vs, ws) \o r), Operands(at, Len(vs)).ok \/ (Whole /\ Len(r) >= 3)
  PROVE  CameIn(Operands(at, Len(vs)), vs, ws, r)
  BY OperandsClear DEF Prefix, Clear

(* Numbers written in the widths the encoder chooses.                       *)
LEMMA OpsRead ==
  ASSUME file \in Octets, Prefix, NEW at \in Nat, NEW vs \in Seq(Number), NEW wide \in BOOLEAN,
         NEW n, n = Len(vs), NEW r \in Octets, Reads(at, Ops(vs, wide) \o r),
         Operands(at, n).ok \/ (Whole /\ Len(r) >= 3)
  PROVE  /\ Operands(at, n).ok /\ Operands(at, n).at \in Nat
         /\ Operands(at, n).val = AllUnsigned(vs, wide)
         /\ Reads(Operands(at, n).at, r)
<1> DEFINE ws == Widths(vs, wide)
<1>1. Ops(vs, wide) = Written(vs, ws) /\ Fits(vs, ws)
  BY OpsWritten
<1>2. Len(vs) \in Nat /\ DOMAIN vs = 1 .. Len(vs) /\ \A k \in 1 .. Len(vs) : ws[k] = Width(vs[k], wide)
  BY LenProperties DEF Widths
<1> HIDE DEF ws
<1>3. Reads(at, Written(vs, ws) \o r)
  BY <1>1
<1>4. /\ Operands(at, n).ok /\ Operands(at, n).at \in Nat
      /\ Operands(at, n).val = [k \in 1 .. Len(vs) |-> Came(vs[k], ws[k])]
      /\ Reads(Operands(at, n).at, r)
  <2>1. Operands(at, Len(vs)).ok \/ (Whole /\ Len(r) >= 3)
    OBVIOUS
  <2>2. /\ Operands(at, Len(vs)).ok /\ Operands(at, Len(vs)).at \in Nat
        /\ Operands(at, Len(vs)).val = [k \in 1 .. Len(vs) |-> Came(vs[k], ws[k])]
        /\ Reads(Operands(at, Len(vs)).at, r)
    <3>1. CameIn(Operands(at, Len(vs)), vs, ws, r)
      BY <1>1, <1>3, <2>1, OperandsRead
    <3> QED BY <3>1 DEF CameIn
  <2> QED BY <2>2
<1>5. \A k \in 1 .. Len(vs) : Came(vs[k], ws[k]) = Unsigned(vs[k], wide)
  BY <1>2 DEF Came, Unsigned
<1>6. AllUnsigned(vs, wide) = [k \in 1 .. Len(vs) |-> Came(vs[k], ws[k])]
  BY <1>2, <1>5 DEF AllUnsigned
<1> QED BY <1>4, <1>6

(* A count comes back as it is.                                             *)
LEMMA CountComesBack ==
  ASSUME NEW v \in Count, NEW wide \in BOOLEAN
  PROVE  Unsigned(v, wide) = v /\ ToUsize(v) = v /\ v \in Nat
<1>1. v \in Nat
  BY NumberInt
<1>2. ~(v < 0)
  BY <1>1
<1> QED BY <1>1, <1>2 DEF Unsigned, ToUsize

(* One number.                                                              *)
LEMMA OpRead ==
  ASSUME file \in Octets, Prefix, NEW at \in Nat, NEW v \in Number, NEW wide \in BOOLEAN,
         NEW r \in Octets, Reads(at, Op(v, wide) \o r),
         Operands(at, 1).ok \/ (Whole /\ Len(r) >= 3)
  PROVE  /\ Operands(at, 1).ok /\ Operands(at, 1).at \in Nat
         /\ Operands(at, 1).val[1] = Unsigned(v, wide)
         /\ Reads(Operands(at, 1).at, r)
<1> DEFINE vs == <<v>>
<1>1. vs \in Seq(Number) /\ Len(vs) = 1 /\ vs[1] = v /\ DOMAIN vs = 1 .. 1
  OBVIOUS
<1>2. Reads(at, Ops(vs, wide) \o r)
  BY OpsOne
<1> HIDE DEF vs
<1> DEFINE n == 1
<1>2a. n = Len(vs) /\ (Operands(at, n).ok \/ (Whole /\ Len(r) >= 3)) /\ vs \in Seq(Number)
  BY <1>1
<1> HIDE DEF n
<1>2b. /\ Operands(at, n).ok /\ Operands(at, n).at \in Nat
       /\ Operands(at, n).val = AllUnsigned(vs, wide)
       /\ Reads(Operands(at, n).at, r)
  BY <1>2, <1>2a, OpsRead
<1>3. /\ Operands(at, 1).ok /\ Operands(at, 1).at \in Nat
      /\ Operands(at, 1).val = AllUnsigned(vs, wide)
      /\ Reads(Operands(at, 1).at, r)
  BY <1>2b DEF n
<1>4. AllUnsigned(vs, wide)[1] = Unsigned(v, wide)
  BY <1>1 DEF AllUnsigned
<1> QED BY <1>3, <1>4

(* A word in four bytes.                                                    *)
LEMMA WordRead ==
  ASSUME file \in Octets, Prefix, NEW at \in Nat, NEW v \in Word, NEW r \in Octets,
         Reads(at, EncodeWord(v) \o r), Has(at, 4) \/ Whole
  PROVE  /\ Has(at, 4) /\ ParseWord(file, at) = v /\ Reads(at + 4, r)
<1> DEFINE a == EncodeWord(v)
           b1 == (v \div 16777216) % 256
           b2 == (v \div 65536) % 256
           b3 == (v \div 256) % 256
           b4 == v % 256
<1>1. v \in Int /\ -WordMax - 1 <= v /\ v <= WordMax
  <2>1. WordMax \in Int
    BY SMT DEF WordMax
  <2> QED BY <2>1 DEF Word
<1>2. a \in Octets /\ Len(a) = 4
  BY <1>1, EncodeWordType
<1>3. /\ b1 \in Int /\ b2 \in Int /\ b3 \in Int /\ b4 \in Int /\ a = <<b1, b2, b3, b4>>
  BY SMT, <1>1 DEF EncodeWord
<1>4. Reads(at, a \o r)
  OBVIOUS
<1>5. (IF b1 < 128 THEN b1 ELSE b1 - 256) * 16777216 + b2 * 65536 + b3 * 256 + b4 = v
  <2>1. -2147483648 <= v /\ v <= 2147483647
    BY SMT, <1>1 DEF WordMax
  <2>2. v \div 65536 = (v \div 256) \div 256 /\ v \div 16777216 = ((v \div 256) \div 256) \div 256
    <3>1. \A x \in Int : x \div 65536 = (x \div 256) \div 256
      BY SMT
    <3>2. \A x \in Int : x \div 16777216 = (x \div 65536) \div 256
      BY SMT
    <3> QED BY SMT, <1>1, <3>1, <3>2
  <2> DEFINE q1 == v \div 256
             q2 == q1 \div 256
             q3 == q2 \div 256
  <2>3. q1 \in Int /\ q2 \in Int /\ q3 \in Int /\ -128 <= q3 /\ q3 < 128
    BY SMT, <1>1, <2>1
  <2>4. v = q1 * 256 + (v % 256) /\ q1 = q2 * 256 + (q1 % 256) /\ q2 = q3 * 256 + (q2 % 256)
    BY SMT, <1>1
  <2>5. q3 = IF q3 % 256 < 128 THEN q3 % 256 ELSE (q3 % 256) - 256
    BY SMT, <2>3
  <2>6. b1 = q3 % 256 /\ b2 = q2 % 256 /\ b3 = q1 % 256
    BY SMT, <2>2
  <2> HIDE DEF q1, q2, q3, b1, b2, b3, b4
  <2>7. q3 * 16777216 + (q2 % 256) * 65536 + (q1 % 256) * 256 + (v % 256) = v
    BY SMT, <1>1, <2>3, <2>4
  <2>8. b1 < 128 => b1 = q3
    BY SMT, <2>5, <2>6
  <2>9. ~(b1 < 128) => b1 - 256 = q3
    BY SMT, <2>5, <2>6
  <2>10. q3 * 16777216 + b2 * 65536 + b3 * 256 + b4 = v
    BY SMT, <1>1, <2>3, <2>6, <2>7 DEF b4
  <2> QED BY SMT, <2>8, <2>9, <2>10
<1> HIDE DEF a, b1, b2, b3, b4
<1>6. Has(at, Len(a)) /\ Reads(at + 4, r)
  BY <1>2, <1>4, SliceRead
<1>7. \A k \in 1 .. 4 : file[at + k] = a[k]
  <2>1. \A k \in 1 .. Len(a) : at + k <= Len(file)
    <3>1. Len(file) \in Nat
      BY DEF Octets
    <3> QED BY <1>2, <1>6, <3>1 DEF Has
  <2> QED BY <1>2, <1>4, <2>1, PieceInFile
<1>8. file[at + 1] = b1 /\ file[at + 2] = b2 /\ file[at + 3] = b3 /\ file[at + 4] = b4
  BY <1>3, <1>7
<1>9. ParseWord(file, at) = (IF b1 < 128 THEN b1 ELSE b1 - 256) * 16777216 + b2 * 65536 + b3 * 256 + b4
  BY SMT, <1>8 DEF ParseWord
<1> QED BY <1>2, <1>5, <1>6, <1>9

(* A name, up to its own zero byte.                                         *)
LEMMA NameRead ==
  ASSUME file \in Octets, Prefix, NEW at \in Nat, NEW s \in Names, NEW r \in Octets,
         Reads(at, Name(s) \o r), CString(at).ok \/ Whole
  PROVE  /\ CString(at).ok /\ CString(at).str = s /\ CString(at).at \in Nat
         /\ Reads(CString(at).at, r)
<1> DEFINE a == Name(s)
           n == Len(s)
<1>1. a \in Octets /\ s \in Octets /\ Len(a) = n + 1 /\ n \in Nat
  BY NameType DEF Octets
<1>2. a[n + 1] = 0 /\ \A k \in 1 .. n : a[k] = s[k] /\ a[k] # 0
  <2>1. <<0>> \in Octets /\ Len(<<0>>) = 1 /\ <<0>>[1] = 0
    BY OneOctet DEF Octet
  <2> DEFINE z == <<0>>
  <2>2. z \in Octets /\ Len(z) = 1 /\ z[1] = 0 /\ a = s \o z
    BY <2>1 DEF Name
  <2> HIDE DEF z, a
  <2>3. (\A k \in 1 .. n : a[k] = s[k]) /\ a[n + 1] = 0
    <3>1. \A k \in 1 .. Len(s) : (s \o z)[k] = s[k]
      BY <1>1, <2>2, OctetsConcat
    <3>2. \A k \in 1 .. Len(z) : (s \o z)[Len(s) + k] = z[k]
      BY <1>1, <2>2, OctetsConcat
    <3>3. 1 \in 1 .. Len(z)
      BY <2>2
    <3>4. (s \o z)[Len(s) + 1] = z[1]
      BY <3>2, <3>3
    <3> QED BY <2>2, <3>1, <3>4
  <2>4. \A k \in 1 .. n : s[k] \in 1 .. 255
    BY ElementOfSeq DEF Names
  <2>5. \A k \in 1 .. n : s[k] # 0
    <3>1. ~(0 \in 1 .. 255)
      OBVIOUS
    <3> QED BY <2>4, <3>1
  <2> QED BY <2>3, <2>5
<1>3. Reads(at, a \o r) /\ Len(file) \in Nat /\ Len(r) \in Nat
  BY DEF Octets
<1> HIDE DEF a, n
<1>4. \A k \in 1 .. n + 1 : at + k <= Len(file) => file[at + k] = a[k]
  BY <1>1, <1>3, PieceInFile
<1>5. Whole => Len(file) = at + (n + 1) + Len(r)
  BY <1>1, <1>3, PieceInFile
<1>6. \A z \in Zeros(at) : z \in Nat /\ z < Len(file) /\ z >= at + n
  <2> TAKE z \in Zeros(at)
  <2>1. z \in at .. Len(file) - 1 /\ file[z + 1] = 0
    BY DEF Zeros, Byte
  <2>2. CASE z < at + n
    <3>1. z - at + 1 \in 1 .. n + 1 /\ z - at + 1 \in 1 .. n /\ at + (z - at + 1) = z + 1 /\ z + 1 <= Len(file)
      BY <1>1, <1>3, <2>1, <2>2
    <3>2. file[z + 1] = a[z - at + 1]
      BY <1>4, <3>1
    <3> QED BY <1>2, <2>1, <3>1, <3>2
  <2> QED BY <1>1, <1>3, <2>1, <2>2
<1>7. at + n < Len(file)
  <2>1. CASE CString(at).ok
    <3>1. Zeros(at) # {}
      BY <2>1 DEF CString
    <3>2. PICK z \in Zeros(at) : TRUE
      BY <3>1
    <3> QED BY <1>1, <1>3, <1>6, <3>2
  <2>2. CASE Whole
    BY <1>1, <1>3, <1>5, <2>2
  <2> QED BY <2>1, <2>2
<1>8. at + n \in Zeros(at)
  <2>1. file[at + n + 1] = 0
    <3>1. n + 1 \in 1 .. n + 1 /\ at + (n + 1) <= Len(file) /\ at + (n + 1) = at + n + 1
      BY <1>1, <1>3, <1>7
    <3> QED BY <1>2, <1>4, <3>1
  <2>2. at + n \in at .. Len(file) - 1
    BY <1>1, <1>3, <1>7
  <2> QED BY <2>1, <2>2 DEF Zeros, Byte
<1> DEFINE z == CHOOSE z \in Zeros(at) : \A y \in Zeros(at) : z <= y
<1>9. z \in Zeros(at) /\ \A y \in Zeros(at) : z <= y
  <2>1. Zeros(at) \in SUBSET Nat /\ Zeros(at) # {}
    BY <1>6, <1>8
  <2> QED BY <2>1, LeastOf
<1>10. CString(at) = [ok |-> TRUE, str |-> SubSeq(file, at + 1, z), at |-> z + 1]
  BY <1>8 DEF CString
<1> HIDE DEF z
<1>11. z = at + n
  BY <1>1, <1>6, <1>8, <1>9
<1>12. Has(at, Len(s)) /\ Reads(at + n, <<0>> \o r) /\ SubSeq(file, at + 1, at + n) = s
  <2>1. Has(at, Len(s))
    BY <1>1, <1>3, <1>7 DEF Has, n
  <2>2. <<0>> \in Octets
    BY OneOctet DEF Octet
  <2>3. <<0>> \o r \in Octets
    BY <2>2, OctetsConcat
  <2>4. a \o r = s \o (<<0>> \o r)
    BY <1>1, <2>2, OctetsAssociate DEF a, Name
  <2>5. Reads(at, s \o (<<0>> \o r))
    BY <1>3, <2>4
  <2> QED BY <1>1, <2>1, <2>3, <2>5, SliceRead DEF n
<1>13. Reads(at + n + 1, r)
  <2>1. Reads(at + Len(a), r)
    BY <1>1, <1>3, ReadsPast
  <2>2. at + Len(a) = at + n + 1
    BY <1>1
  <2> QED BY <2>1, <2>2
<1> QED BY <1>1, <1>10, <1>11, <1>12, <1>13

-----------------------------------------------------------------------------
(* A file that goes on long enough.                                         *)

(* Behind the last operands of a section stand the zero of a name, at       *)
(* least, and the source path.                                              *)
LEMMA LongEnough ==
  ASSUME NEW m, IsModule(m), m.flag # HASEXCEPT, m.path # <<>>
  PROVE  /\ Len(FromHeader(m)) >= 4
         /\ \A k \in 0 .. Len(m.code) : Len(FromCode(m, k)) >= 4
         /\ \A k \in 0 .. Len(m.types) : Len(FromType(m, k)) >= 4
         /\ \A k \in 0 .. Len(m.items) : Len(FromItem(m, k)) >= 4
         /\ \A k \in 0 .. Len(m.imports) : Len(FromImport(m, k)) >= 3
<1>1. Len(FromPath(m)) >= 2
  <2>1. Len(m.path) \in Nat \ {0}
    BY ModuleTypes, EmptySeq DEF Names
  <2> QED BY <2>1, ModuleTypes, NameType DEF FromPath
<1>2. FromPath(m) \in Octets /\ FromHandlers(m) = FromPath(m)
  BY ImportsPiece
<1>3. <<0>> \in Octets /\ Len(<<0>>) = 1
  BY OneOctet DEF Octet
<1>4. Len(<<0>> \o FromHandlers(m)) >= 3
  BY <1>1, <1>2, <1>3, OctetsConcat
<1>5. \A a, r \in Octets : Len(a \o r) = Len(a) + Len(r) /\ Len(a) \in Nat /\ Len(r) \in Nat
  BY OctetsConcat
<1>6. \A seqs \in Seq(Octets) : \A r \in Octets : \A k \in 0 .. Len(seqs) :
        Len(FlatFrom(seqs, k) \o r) >= Len(r)
  <2> TAKE seqs \in Seq(Octets)
  <2> TAKE r \in Octets
  <2> TAKE k \in 0 .. Len(seqs)
  <2>1. FlatFrom(seqs, k) \in Octets
    BY FlatFromFacts
  <2> QED BY <2>1, OctetsConcat
<1>7. \A k \in 0 .. Len(m.imports) : Len(FromImport(m, k)) >= 3
  <2> TAKE k \in 0 .. Len(m.imports)
  <2> DEFINE r == <<0>> \o FromHandlers(m)
  <2>1. r \in Octets /\ Len(r) >= 3 /\ Len(r) \in Nat
    BY <1>4, ImportsPiece DEF Octets
  <2> HIDE DEF r
  <2>2. ImportBytes(m) \in Seq(Octets) /\ k \in 0 .. Len(ImportBytes(m))
    BY SectionBytes
  <2>3. FlatFrom(ImportBytes(m), k) \in Octets
    BY <2>2, FlatFromFacts
  <2>4. Len(FlatFrom(ImportBytes(m), k) \o r) >= 3
    BY <2>1, <2>3, OctetsConcat
  <2> QED BY <2>4 DEF FromImport, r
<1>8. Len(FromImports(m)) >= 2
  <2>1. FromImports(m) = EncodeImports(m) \o FromHandlers(m) /\ EncodeImports(m) \in Octets
    BY ImportsPiece DEF FromImports
  <2> QED BY <1>1, <1>2, <2>1, OctetsConcat
<1>9. Len(FromLink(m, 0)) >= 2 /\ FromLink(m, 0) \in Octets
  <2>1. LinkBytes(m) \in Seq(Octets) /\ 0 \in 0 .. Len(LinkBytes(m)) /\ 0 \in 0 .. Len(m.links)
    BY SectionBytes, LenProperties
  <2>2. FlatFrom(LinkBytes(m), 0) \in Octets /\ FromImports(m) \in Octets
    BY <2>1, FlatFromFacts, ImportsPiece
  <2>3. FromLink(m, 0) = FlatFrom(LinkBytes(m), 0) \o FromImports(m)
    BY DEF FromLink
  <2> DEFINE a == FlatFrom(LinkBytes(m), 0)
             r == FromImports(m)
  <2>4. a \in Octets /\ r \in Octets /\ Len(r) >= 2 /\ FromLink(m, 0) = a \o r
    BY <1>8, <2>2, <2>3
  <2> HIDE DEF a, r
  <2>5. Len(FromLink(m, 0)) = Len(a) + Len(r) /\ Len(a) \in Nat /\ Len(r) \in Nat
    BY <2>4, OctetsConcat
  <2>6. FromLink(m, 0) \in Octets
    BY <2>1, RestsType
  <2> QED BY <2>4, <2>5, <2>6
<1>10. FromName(m) \in Octets /\ Len(FromName(m)) >= 3
  <2>1. Name(m.name) \in Octets /\ Len(Name(m.name)) >= 1
    BY ModuleTypes, NameType, LenProperties DEF Names
  <2>2. FromName(m) = Name(m.name) \o FromLink(m, 0)
    BY DEF FromName
  <2> QED BY <1>9, <2>1, <2>2, OctetsConcat
<1>11. <<0>> \o FromName(m) \in Octets /\ Len(<<0>> \o FromName(m)) >= 4
  BY <1>3, <1>10, OctetsConcat
<1>12. \A k \in 0 .. Len(m.items) : Len(FromItem(m, k)) >= 4
  <2> TAKE k \in 0 .. Len(m.items)
  <2> DEFINE r == <<0>> \o FromName(m)
  <2>1. r \in Octets /\ Len(r) >= 4 /\ Len(r) \in Nat
    BY <1>11 DEF Octets
  <2> HIDE DEF r
  <2>2. DataBytes(m) \in Seq(Octets) /\ k \in 0 .. Len(DataBytes(m))
    BY SectionBytes
  <2>3. FlatFrom(DataBytes(m), k) \in Octets
    BY <2>2, FlatFromFacts
  <2>4. Len(FlatFrom(DataBytes(m), k) \o r) >= 4
    BY <2>1, <2>3, OctetsConcat
  <2> QED BY <2>4 DEF FromItem, r
<1>13. 0 \in 0 .. Len(m.items) /\ 0 \in 0 .. Len(m.types) /\ 0 \in 0 .. Len(m.code)
  BY ModuleTypes, LenProperties
<1>14. \A k \in 0 .. Len(m.types) : Len(FromType(m, k)) >= 4
  <2> TAKE k \in 0 .. Len(m.types)
  <2>1. FromItem(m, 0) \in Octets /\ Len(FromItem(m, 0)) >= 4
    BY <1>12, <1>13, RestsType
  <2>2. TypeBytes(m) \in Seq(Octets) /\ k \in 0 .. Len(TypeBytes(m))
    BY SectionBytes
  <2>3. FlatFrom(TypeBytes(m), k) \in Octets
    BY <2>2, FlatFromFacts
  <2>4. FromType(m, k) = FlatFrom(TypeBytes(m), k) \o FromItem(m, 0)
    BY DEF FromType
  <2> QED BY <2>1, <2>3, <2>4, OctetsConcat
<1>15. \A k \in 0 .. Len(m.code) : Len(FromCode(m, k)) >= 4
  <2> TAKE k \in 0 .. Len(m.code)
  <2>1. FromType(m, 0) \in Octets /\ Len(FromType(m, 0)) >= 4
    BY <1>13, <1>14, RestsType
  <2>2. CodeBytes(m) \in Seq(Octets) /\ k \in 0 .. Len(CodeBytes(m))
    BY SectionBytes
  <2>3. FlatFrom(CodeBytes(m), k) \in Octets
    BY <2>2, FlatFromFacts
  <2>4. FromCode(m, k) = FlatFrom(CodeBytes(m), k) \o FromType(m, 0)
    BY DEF FromCode
  <2> QED BY <2>1, <2>3, <2>4, OctetsConcat
<1>16. Len(FromHeader(m)) >= 4
  <2>1. FromCode(m, 0) \in Octets /\ Len(FromCode(m, 0)) >= 4 /\ EncodeHeader(m) \in Octets
    BY <1>13, <1>15, RestsType, HeaderPiece
  <2> QED BY <2>1, OctetsConcat DEF FromHeader
<1> QED BY <1>7, <1>12, <1>14, <1>15, <1>16

-----------------------------------------------------------------------------
(* The invariant, step by step.                                             *)

Follows == LoadInv /\ Handlerless /\ damage # "byte" /\ AsWritten

(* What every step may use.                                                 *)
LEMMA FollowsFacts ==
  ASSUME Follows
  PROVE  /\ LoadInv /\ TypeOK /\ AsWritten /\ Prefix
         /\ mod \in Modules /\ IsModule(mod) /\ mod.flag # HASEXCEPT /\ mod.wide \in BOOLEAN
         /\ file \in Octets /\ Len(file) \in Nat /\ dis \in Parsed
         /\ offset \in Nat /\ left \in Nat /\ inner \in Nat
         /\ Encode(mod) \in Octets /\ Len(Encode(mod)) \in Nat
<1>1. LoadInv /\ TypeOK /\ AsWritten /\ Prefix /\ mod.flag # HASEXCEPT
  BY DEF Follows, LoadInv, AsWritten, Handlerless
<1>2. mod \in Modules /\ file \in Octets /\ dis \in Parsed /\ offset \in Nat /\ left \in Nat
      /\ inner \in Nat
  BY <1>1 DEF TypeOK
<1>3. IsModule(mod) /\ Encode(mod) \in Octets /\ Len(Encode(mod)) \in Nat
  BY <1>2, ModuleWritten
<1>4. mod.wide \in BOOLEAN
  BY <1>3, ModuleTypes
<1>5. Len(file) \in Nat
  BY <1>2 DEF Octets
<1> QED BY <1>1, <1>2, <1>3, <1>4, <1>5

(* The file and what is kept of the sections stay.                          *)
LEMMA StillKept ==
  ASSUME UNCHANGED <<mod, file, damage>>
  PROVE  /\ Prefix => Prefix'
         /\ dis'.code = dis.code /\ CodeKept => CodeKept'
         /\ dis'.types = dis.types /\ TypesKept => TypesKept'
         /\ dis'.links = dis.links /\ LinksKept => LinksKept'
<1>1. Prefix => Prefix'
  BY DEF Prefix, Begins, Whole
<1>2. dis'.code = dis.code /\ CodeKept => CodeKept'
  BY DEF CodeKept, CodeMeans
<1>3. dis'.types = dis.types /\ TypesKept => TypesKept'
  BY DEF TypesKept, TypeMeans
<1>4. dis'.links = dis.links /\ LinksKept => LinksKept'
  BY DEF LinksKept, LinkMeans
<1> QED BY <1>1, <1>2, <1>3, <1>4

(* Stopping leaves everything as it is; only a file that need not load      *)
(* stops the parser.                                                        *)
LEMMA StopTaken ==
  ASSUME AsWritten, UNCHANGED <<mod, file, damage, cursor, dis>>, status' = "panic" => ~Loads
  PROVE  AsWritten'
<1>1. UNCHANGED <<mod, file, damage>> /\ offset' = offset /\ section' = section /\ left' = left
      /\ inner' = inner /\ dis' = dis
  BY DEF cursor
<1>2. Prefix' /\ CodeKept' /\ TypesKept' /\ LinksKept'
  BY <1>1, StillKept DEF AsWritten
<1>3. FrontKept' /\ NamesKept' /\ ImportsKept'
  BY <1>1 DEF AsWritten, FrontKept, NamesKept, ImportsKept, Begun, OpenedModule, TakenOf, ImportsMean
<1>4. Standing'
  BY <1>1 DEF AsWritten, Standing, StandsIn, Reads, RunsOn, Begun, OpenedModule, TakenOf
<1> QED BY <1>1, <1>2, <1>3, <1>4 DEF AsWritten, Loads, Whole, Handlerless

(* What the parser is told by a header.                                     *)
LEMMA HeaderVals ==
  ASSUME NEW m, IsModule(m)
  PROVE  LET h == AllUnsigned(Header(m), m.wide) IN
         /\ h[1] = m.flag /\ h[3] = Len(m.code) /\ h[4] = m.dsize /\ h[5] = Len(m.types)
         /\ h[6] = Len(m.links) /\ h[8] = m.etype
         /\ Len(m.code) \in Nat /\ m.dsize \in Nat /\ Len(m.types) \in Nat
         /\ Len(m.links) \in Nat /\ m.etype \in Nat /\ m.flag \in Nat
<1> DEFINE h == Header(m)
           u(v) == Unsigned(v, m.wide)
<1>1. /\ m.wide \in BOOLEAN /\ m.dsize \in Count /\ m.etype \in Count /\ Len(m.code) \in Count
      /\ Len(m.types) \in Count /\ Len(m.links) \in Count /\ m.flag \in RuntimeFlags
  BY ModuleTypes, ModuleCounts
<1>2. /\ DOMAIN h = 1 .. 8
      /\ h[1] = m.flag /\ h[3] = Len(m.code) /\ h[4] = m.dsize /\ h[5] = Len(m.types)
      /\ h[6] = Len(m.links) /\ h[8] = m.etype
  BY DEF Header
<1>3. m.flag \in Nat
  BY <1>1, FlagFits
<1>4. u(m.flag) = m.flag
  BY <1>3 DEF Unsigned
<1>5. /\ u(m.dsize) = m.dsize /\ u(m.etype) = m.etype /\ u(Len(m.code)) = Len(m.code)
      /\ u(Len(m.types)) = Len(m.types) /\ u(Len(m.links)) = Len(m.links)
      /\ Len(m.code) \in Nat /\ m.dsize \in Nat /\ Len(m.types) \in Nat
      /\ Len(m.links) \in Nat /\ m.etype \in Nat
  BY <1>1, CountComesBack
<1> HIDE DEF h, u
<1>6. AllUnsigned(h, m.wide) = [k \in 1 .. 8 |-> u(h[k])]
  BY <1>2 DEF AllUnsigned, u
<1>7. \A k \in 1 .. 8 : AllUnsigned(h, m.wide)[k] = u(h[k])
  BY <1>6
<1> DEFINE g == AllUnsigned(h, m.wide)
<1> HIDE DEF g
<1>8. /\ g[1] = u(h[1]) /\ g[3] = u(h[3]) /\ g[4] = u(h[4]) /\ g[5] = u(h[5])
      /\ g[6] = u(h[6]) /\ g[8] = u(h[8])
  BY <1>7 DEF g
<1>9. /\ g[1] = m.flag /\ g[3] = Len(m.code) /\ g[4] = m.dsize /\ g[5] = Len(m.types)
      /\ g[6] = Len(m.links) /\ g[8] = m.etype
  BY <1>2, <1>4, <1>5, <1>8
<1> QED BY <1>3, <1>5, <1>9 DEF g, h

(* Past the header, the counts the loops go by are the written module's.    *)
LEMMA HeaderMeans ==
  ASSUME Follows, section \notin Unopened
  PROVE  /\ Flag = mod.flag /\ dis.header[3] = Len(mod.code) /\ DataSize = mod.dsize
         /\ TypeCount = Len(mod.types) /\ LinkCount = Len(mod.links) /\ EntryType = mod.etype
         /\ Len(mod.code) \in Nat /\ mod.dsize \in Nat /\ Len(mod.types) \in Nat
         /\ Len(mod.links) \in Nat /\ mod.etype \in Nat
<1>1. dis.header = AllUnsigned(Header(mod), mod.wide)
  BY DEF Follows, AsWritten, FrontKept
<1>2. IsModule(mod)
  BY FollowsFacts
<1> QED BY <1>1, <1>2, HeaderVals DEF Flag, DataSize, TypeCount, LinkCount, EntryType

(* What is left of the file, section by section.                            *)
LEMMA NextPieces ==
  ASSUME NEW m, IsModule(m)
  PROVE  /\ \A k \in 0 .. Len(m.code) - 1 :
              FromCode(m, k) = EncodeCode(m.code[k + 1], m.wide) \o FromCode(m, k + 1)
         /\ \A k \in 0 .. Len(m.types) - 1 :
              FromType(m, k) = EncodeType(m.types[k + 1], m.wide) \o FromType(m, k + 1)
         /\ \A k \in 0 .. Len(m.items) - 1 :
              FromItem(m, k) = EncodeItem(m.items[k + 1], m.wide) \o FromItem(m, k + 1)
         /\ \A k \in 0 .. Len(m.links) - 1 :
              FromLink(m, k) = EncodeLink(m.links[k + 1], m.wide) \o FromLink(m, k + 1)
         /\ \A k \in 0 .. Len(m.imports) - 1 :
              FromImport(m, k) = EncodeImportModule(m.imports[k + 1], m.wide) \o FromImport(m, k + 1)
         /\ FromCode(m, Len(m.code)) = FromType(m, 0)
         /\ FromType(m, Len(m.types)) = FromItem(m, 0)
         /\ FromItem(m, Len(m.items)) = <<0>> \o FromName(m)
         /\ FromLink(m, Len(m.links)) = FromImports(m)
         /\ FromImport(m, Len(m.imports)) = <<0>> \o FromHandlers(m)
<1>1. /\ FromType(m, 0) \in Octets /\ FromItem(m, 0) \in Octets /\ <<0>> \o FromName(m) \in Octets
      /\ FromImports(m) \in Octets /\ <<0>> \o FromHandlers(m) \in Octets
  <2>1. 0 \in 0 .. Len(m.items) /\ 0 \in 0 .. Len(m.types)
    BY ModuleTypes, LenProperties
  <2> QED BY <2>1, RestsType, ImportsPiece
<1>2. /\ CodeBytes(m) \in Seq(Octets) /\ Len(CodeBytes(m)) = Len(m.code)
      /\ TypeBytes(m) \in Seq(Octets) /\ Len(TypeBytes(m)) = Len(m.types)
      /\ DataBytes(m) \in Seq(Octets) /\ Len(DataBytes(m)) = Len(m.items)
      /\ LinkBytes(m) \in Seq(Octets) /\ Len(LinkBytes(m)) = Len(m.links)
      /\ ImportBytes(m) \in Seq(Octets) /\ Len(ImportBytes(m)) = Len(m.imports)
  BY SectionBytes
<1>3. /\ Len(m.code) \in Nat /\ Len(m.types) \in Nat /\ Len(m.items) \in Nat
      /\ Len(m.links) \in Nat /\ Len(m.imports) \in Nat
  BY ModuleTypes, LenProperties
<1>4. /\ \A k \in 0 .. Len(m.code) - 1 : CodeBytes(m)[k + 1] = EncodeCode(m.code[k + 1], m.wide)
      /\ \A k \in 0 .. Len(m.types) - 1 : TypeBytes(m)[k + 1] = EncodeType(m.types[k + 1], m.wide)
      /\ \A k \in 0 .. Len(m.items) - 1 : DataBytes(m)[k + 1] = EncodeItem(m.items[k + 1], m.wide)
      /\ \A k \in 0 .. Len(m.links) - 1 : LinkBytes(m)[k + 1] = EncodeLink(m.links[k + 1], m.wide)
      /\ \A k \in 0 .. Len(m.imports) - 1 :
           ImportBytes(m)[k + 1] = EncodeImportModule(m.imports[k + 1], m.wide)
  BY <1>3 DEF CodeBytes, TypeBytes, DataBytes, LinkBytes, ImportBytes
<1>5. /\ \A k \in 0 .. Len(m.code) - 1 :
           FromCode(m, k) = EncodeCode(m.code[k + 1], m.wide) \o FromCode(m, k + 1)
      /\ FromCode(m, Len(m.code)) = FromType(m, 0)
  <2> DEFINE b == CodeBytes(m)
             r == FromType(m, 0)
  <2>1. b \in Seq(Octets) /\ r \in Octets
    BY <1>1, <1>2
  <2> HIDE DEF b, r
  <2>2. /\ \A k \in 0 .. Len(b) - 1 : FlatFrom(b, k) \o r = b[k + 1] \o (FlatFrom(b, k + 1) \o r)
        /\ FlatFrom(b, Len(b)) \o r = r
    BY <2>1, PiecesBefore
  <2>3. \A k : FromCode(m, k) = FlatFrom(b, k) \o r
    BY DEF FromCode, b, r
  <2> QED BY <1>2, <1>4, <2>2, <2>3 DEF b, r
<1>6. /\ \A k \in 0 .. Len(m.types) - 1 :
           FromType(m, k) = EncodeType(m.types[k + 1], m.wide) \o FromType(m, k + 1)
      /\ FromType(m, Len(m.types)) = FromItem(m, 0)
  <2> DEFINE b == TypeBytes(m)
             r == FromItem(m, 0)
  <2>1. b \in Seq(Octets) /\ r \in Octets
    BY <1>1, <1>2
  <2> HIDE DEF b, r
  <2>2. /\ \A k \in 0 .. Len(b) - 1 : FlatFrom(b, k) \o r = b[k + 1] \o (FlatFrom(b, k + 1) \o r)
        /\ FlatFrom(b, Len(b)) \o r = r
    BY <2>1, PiecesBefore
  <2>3. \A k : FromType(m, k) = FlatFrom(b, k) \o r
    BY DEF FromType, b, r
  <2> QED BY <1>2, <1>4, <2>2, <2>3 DEF b, r
<1>7. /\ \A k \in 0 .. Len(m.items) - 1 :
           FromItem(m, k) = EncodeItem(m.items[k + 1], m.wide) \o FromItem(m, k + 1)
      /\ FromItem(m, Len(m.items)) = <<0>> \o FromName(m)
  <2> DEFINE b == DataBytes(m)
             r == (<<0>> \o FromName(m))
  <2>1. b \in Seq(Octets) /\ r \in Octets
    BY <1>1, <1>2
  <2> HIDE DEF b, r
  <2>2. /\ \A k \in 0 .. Len(b) - 1 : FlatFrom(b, k) \o r = b[k + 1] \o (FlatFrom(b, k + 1) \o r)
        /\ FlatFrom(b, Len(b)) \o r = r
    BY <2>1, PiecesBefore
  <2>3. \A k : FromItem(m, k) = FlatFrom(b, k) \o r
    BY DEF FromItem, b, r
  <2> QED BY <1>2, <1>4, <2>2, <2>3 DEF b, r
<1>8. /\ \A k \in 0 .. Len(m.links) - 1 :
           FromLink(m, k) = EncodeLink(m.links[k + 1], m.wide) \o FromLink(m, k + 1)
      /\ FromLink(m, Len(m.links)) = FromImports(m)
  <2> DEFINE b == LinkBytes(m)
             r == FromImports(m)
  <2>1. b \in Seq(Octets) /\ r \in Octets
    BY <1>1, <1>2
  <2> HIDE DEF b, r
  <2>2. /\ \A k \in 0 .. Len(b) - 1 : FlatFrom(b, k) \o r = b[k + 1] \o (FlatFrom(b, k + 1) \o r)
        /\ FlatFrom(b, Len(b)) \o r = r
    BY <2>1, PiecesBefore
  <2>3. \A k : FromLink(m, k) = FlatFrom(b, k) \o r
    BY DEF FromLink, b, r
  <2> QED BY <1>2, <1>4, <2>2, <2>3 DEF b, r
<1>9. /\ \A k \in 0 .. Len(m.imports) - 1 :
           FromImport(m, k) = EncodeImportModule(m.imports[k + 1], m.wide) \o FromImport(m, k + 1)
      /\ FromImport(m, Len(m.imports)) = <<0>> \o FromHandlers(m)
  <2> DEFINE b == ImportBytes(m)
             r == (<<0>> \o FromHandlers(m))
  <2>1. b \in Seq(Octets) /\ r \in Octets
    BY <1>1, <1>2
  <2> HIDE DEF b, r
  <2>2. /\ \A k \in 0 .. Len(b) - 1 : FlatFrom(b, k) \o r = b[k + 1] \o (FlatFrom(b, k + 1) \o r)
        /\ FlatFrom(b, Len(b)) \o r = r
    BY <2>1, PiecesBefore
  <2>3. \A k : FromImport(m, k) = FlatFrom(b, k) \o r
    BY DEF FromImport, b, r
  <2> QED BY <1>2, <1>4, <2>2, <2>3 DEF b, r
<1> QED BY <1>5, <1>6, <1>7, <1>8, <1>9

-----------------------------------------------------------------------------
(* The header.                                                              *)

(* Behind the magic number stands the header.                               *)
LEMMA ToHeader ==
  ASSUME Follows, section = "magic", section' = "header",
         UNCHANGED <<mod, file, damage, status>>, status = "ok",
         Reads(offset', FromHeader(mod)),
         dis'.signature = mod.signature,
         dis'.code = dis.code, dis'.types = dis.types, dis'.links = dis.links,
         dis'.imports = dis.imports, dis'.handler = dis.handler
  PROVE  AsWritten'
<1>1. AsWritten
  BY FollowsFacts
<1>2. Prefix' /\ CodeKept' /\ TypesKept' /\ LinksKept'
  BY <1>1, StillKept DEF AsWritten
<1>3. FrontKept' /\ NamesKept'
  BY DEF FrontKept, NamesKept, Unopened, Late
<1>4. ImportsKept'
  BY <1>1 DEF AsWritten, ImportsKept, Early, Unopened
<1>5. Standing'
  BY <1>1 DEF AsWritten, Standing, StandsIn, Reads
<1> QED BY <1>2, <1>3, <1>4, <1>5 DEF AsWritten

(* What follows a piece is in what the piece begins.                        *)
LEMMA LongerThan ==
  ASSUME NEW a \in Octets, NEW r \in Octets
  PROVE  a \o r \in Octets /\ Len(a \o r) >= Len(r) /\ Len(a \o r) \in Nat /\ Len(r) \in Nat
<1>1. a \o r \in Octets /\ Len(a) \in Nat /\ Len(r) \in Nat /\ Len(a \o r) = Len(a) + Len(r)
  BY OctetsConcat
<1> QED BY <1>1

(* What stands before the data section is longer than what is behind.       *)
LEMMA FrontLong ==
  ASSUME NEW m, IsModule(m)
  PROVE  LET d == Len(FromItem(m, 0)) IN
         /\ Len(FromHeader(m)) >= d /\ Len(FromCode(m, 0)) >= d /\ Len(FromType(m, 0)) >= d
         /\ Len(FromHeader(m)) \in Nat /\ Len(FromCode(m, 0)) \in Nat
         /\ Len(FromType(m, 0)) \in Nat /\ d \in Nat
<1>1. 0 \in 0 .. Len(m.items) /\ 0 \in 0 .. Len(m.types) /\ 0 \in 0 .. Len(m.code)
  BY ModuleTypes, LenProperties
<1>2. FromItem(m, 0) \in Octets /\ FromType(m, 0) \in Octets /\ FromCode(m, 0) \in Octets
  BY <1>1, RestsType
<1>3. TypeBytes(m) \in Seq(Octets) /\ CodeBytes(m) \in Seq(Octets) /\ EncodeHeader(m) \in Octets
  BY SectionBytes, HeaderPiece
<1>4. 0 \in 0 .. Len(TypeBytes(m)) /\ 0 \in 0 .. Len(CodeBytes(m))
  BY <1>3, LenProperties
<1>5. FlatFrom(TypeBytes(m), 0) \in Octets /\ FlatFrom(CodeBytes(m), 0) \in Octets
  BY <1>3, <1>4, FlatFromFacts
<1>6. Len(FromType(m, 0)) >= Len(FromItem(m, 0)) /\ Len(FromType(m, 0)) \in Nat
      /\ Len(FromItem(m, 0)) \in Nat
  BY <1>2, <1>5, LongerThan DEF FromType
<1>7. Len(FromCode(m, 0)) >= Len(FromType(m, 0)) /\ Len(FromCode(m, 0)) \in Nat
  BY <1>2, <1>5, LongerThan DEF FromCode
<1>8. Len(FromHeader(m)) >= Len(FromCode(m, 0)) /\ Len(FromHeader(m)) \in Nat
  BY <1>2, <1>3, LongerThan DEF FromHeader
<1> QED BY <1>6, <1>7, <1>8

(* A magic number, and the signature of a module that has one.              *)
LEMMA MagicRead ==
  ASSUME file \in Octets, Begins
  PROVE  LET m == Operands(0, 1)
             l == Operands(0, 2)
         IN
         /\ m.ok \/ Loads => /\ m.ok
                             /\ m.val[1] = IF mod.signature = <<>> THEN XMAGIC ELSE SMAGIC
                             /\ mod.signature = <<>> => Reads(m.at, FromHeader(mod))
         /\ mod.signature # <<>> /\ (l.ok \/ Loads) =>
              /\ l.ok /\ l.at \in Nat /\ l.val[2] = Len(mod.signature)
              /\ Reads(l.at, mod.signature \o FromHeader(mod))
<1> DEFINE r == FromHeader(mod)
           g == mod.signature
           n == Len(g)
           w == Width(n, mod.wide)
<1>1. mod \in Modules /\ IsModule(mod) /\ mod.wide \in BOOLEAN
  <2>1. mod \in Modules /\ IsModule(mod)
    BY ModuleWritten DEF Begins
  <2> QED BY <2>1, ModuleTypes
<1>2. r \in Octets /\ g \in Octets /\ n \in Count /\ Len(r) \in Nat
  BY <1>1, RestsType, ModuleTypes, ModuleCounts DEF Octets
<1>3. (Loads => Whole /\ Len(r) >= 3) /\ Clear(r)
  BY <1>1, <1>2, LongEnough, FrontLong DEF Loads, Handlerless, Clear
<1>4. Encode(mod) = EncodeMagic(mod) \o r /\ Encode(mod) \in Octets
  BY <1>1, EncodeOctets
<1>5. Reads(0, EncodeMagic(mod) \o r)
  <2>1. Len(Encode(mod)) \in Nat
    BY <1>4 DEF Octets
  <2> QED BY <1>4, <2>1 DEF Reads, RunsOn
<1>6. /\ XMAGIC \in Int /\ SMAGIC \in Int /\ XMAGIC >= 0 /\ SMAGIC >= 0
      /\ Encodable(XMAGIC, 4) /\ Encodable(SMAGIC, 4)
  BY MagicFits
<1>7. n \in Nat /\ n \in Number /\ w \in {1, 2, 4} /\ Encodable(n, w)
  BY <1>1, <1>2, NumberInt, WidthFits
<1>8. Came(XMAGIC, 4) = XMAGIC /\ Came(SMAGIC, 4) = SMAGIC /\ Came(n, w) = n
  BY <1>6, <1>7 DEF Came
<1> HIDE DEF r, g, n, w
<1>9. CASE g = <<>>
  <2> DEFINE vs == <<XMAGIC>>
             ws == <<4>>
  <2>1. EncodeMagic(mod) = Written(vs, ws) /\ Fits(vs, ws) /\ Len(vs) = 1 /\ vs[1] = XMAGIC /\ ws[1] = 4
    BY <1>1, <1>9, MagicPiece DEF g
  <2> HIDE DEF vs, ws
  <2>2. ASSUME Operands(0, 1).ok \/ Loads
        PROVE  CameIn(Operands(0, 1), vs, ws, r)
    <3>1. Operands(0, Len(vs)).ok \/ (Whole /\ Len(r) >= 3)
      BY <1>3, <2>1, <2>2
    <3>2. CameIn(Operands(0, Len(vs)), vs, ws, r)
      BY <1>2, <1>3, <1>5, <2>1, <3>1, OperandsClear
    <3> QED BY <2>1, <3>2
  <2>3. ASSUME Operands(0, 1).ok \/ Loads
        PROVE  Operands(0, 1).ok /\ Operands(0, 1).val[1] = XMAGIC /\ Reads(Operands(0, 1).at, r)
    BY <1>8, <2>1, <2>2, <2>3 DEF CameIn
  <2> QED BY <1>9, <2>3 DEF r, g
<1>10. CASE g # <<>>
  <2> DEFINE vs == <<SMAGIC, n>>
             ws == <<4, w>>
             us == <<SMAGIC>>
             xs == <<4>>
             e  == EncodeOperand(SMAGIC, 4)
             f  == EncodeOperand(n, w)
  <2>1. /\ EncodeMagic(mod) = Written(vs, ws) \o g /\ Fits(vs, ws)
        /\ Len(vs) = 2 /\ vs[1] = SMAGIC /\ ws[1] = 4 /\ vs[2] = n /\ ws[2] = w
    BY <1>1, <1>10, MagicPiece DEF g, n, w
  <2>2. Written(vs, ws) = e \o f /\ Written(us, xs) = e /\ Fits(us, xs) /\ Len(us) = 1
        /\ us[1] = SMAGIC /\ xs[1] = 4
    <3>1. Written(us, xs) = e /\ Fits(us, xs)
      BY <1>6, WrittenOne
    <3>2. n \in Int
      BY <1>7
    <3>3. Written(vs, ws) = e \o f
      BY <1>6, <1>7, <3>2, WrittenTwo
    <3> QED BY <3>1, <3>3
  <2>3. e \in Octets /\ f \in Octets
    BY <1>6, <1>7, EncodeOperandType
  <2> HIDE DEF vs, ws, us, xs, e, f
  <2>4. g \o r \in Octets /\ f \o (g \o r) \in Octets /\ Written(vs, ws) \in Octets
    <3>1. g \o r \in Octets
      BY <1>2, OctetsConcat
    <3> QED BY <2>1, <2>3, <3>1, OctetsConcat, WrittenType
  <2>5. (Written(vs, ws) \o g) \o r = Written(vs, ws) \o (g \o r)
    BY <1>2, <2>4, OctetsAssociate
  <2>6. Written(vs, ws) \o (g \o r) = Written(us, xs) \o (f \o (g \o r))
    <3> DEFINE y == g \o r
    <3>1. y \in Octets
      BY <2>4
    <3> HIDE DEF y
    <3>2. (e \o f) \o y = e \o (f \o y)
      BY <2>3, <3>1, OctetsAssociate
    <3> QED BY <2>2, <3>2 DEF y
  <2>7. Reads(0, Written(vs, ws) \o (g \o r)) /\ Reads(0, Written(us, xs) \o (f \o (g \o r)))
    BY <1>5, <2>1, <2>5, <2>6
  <2>8. /\ Loads => Whole /\ Len(g \o r) >= 3 /\ Len(f \o (g \o r)) >= 3
        /\ Clear(g \o r) /\ Clear(f \o (g \o r))
    <3> DEFINE x == g \o r
    <3>1. x \in Octets /\ Len(x) >= Len(r) /\ Len(x) \in Nat
      BY <1>2, LongerThan
    <3> HIDE DEF x
    <3>2. Len(f \o x) >= Len(x) /\ Len(f \o x) \in Nat
      BY <2>3, <3>1, LongerThan
    <3>3. Len(FromItem(mod, 0)) \in Nat
      BY <1>1, DataBehind
    <3>4. Clear(x) /\ Clear(f \o x)
      BY <1>2, <1>3, <3>1, <3>2, <3>3 DEF Clear
    <3> QED BY <1>2, <1>3, <3>1, <3>2, <3>4 DEF x
  <2> DEFINE x == g \o r
             y == f \o x
  <2>9. x \in Octets /\ y \in Octets
    BY <2>4
  <2>10. /\ Reads(0, Written(vs, ws) \o x) /\ Reads(0, Written(us, xs) \o y)
         /\ Loads => Whole /\ Len(x) >= 3 /\ Len(y) >= 3
         /\ Clear(x) /\ Clear(y)
    BY <2>7, <2>8
  <2> HIDE DEF x, y
  <2>11. ASSUME Operands(0, 1).ok \/ Loads
         PROVE  Operands(0, 1).ok /\ Operands(0, 1).val[1] = SMAGIC
    <3>1. Operands(0, Len(us)).ok \/ (Whole /\ Len(y) >= 3)
      BY <2>2, <2>10, <2>11
    <3>2. CameIn(Operands(0, Len(us)), us, xs, y)
      BY <2>2, <2>9, <2>10, <3>1, OperandsClear
    <3> QED BY <1>8, <2>2, <3>2 DEF CameIn
  <2>12. ASSUME Operands(0, 2).ok \/ Loads
         PROVE  /\ Operands(0, 2).ok /\ Operands(0, 2).at \in Nat /\ Operands(0, 2).val[2] = n
                /\ Reads(Operands(0, 2).at, x)
    <3>1. Operands(0, Len(vs)).ok \/ (Whole /\ Len(x) >= 3)
      BY <2>1, <2>10, <2>12
    <3>2. CameIn(Operands(0, Len(vs)), vs, ws, x)
      BY <2>1, <2>9, <2>10, <3>1, OperandsClear
    <3> QED BY <1>8, <2>1, <3>2 DEF CameIn
  <2> QED BY <1>10, <2>11, <2>12 DEF g, n, r, x
<1> QED BY <1>9, <1>10

(* The magic number and the signature are taken as written.                 *)
LEMMA ReadMagicTaken == Follows /\ ReadMagic => AsWritten'
<1> SUFFICES ASSUME Follows, ReadMagic PROVE AsWritten'
  OBVIOUS
<1> DEFINE m == Operands(0, 1)
           l == Operands(0, 2)
           n == ToUsize(l.val[2])
           plain == m.ok /\ m.val[1] = XMAGIC
           signed == m.ok /\ m.val[1] = SMAGIC /\ l.ok /\ Has(l.at, n)
           g == mod.signature
           r == FromHeader(mod)
<1>1. /\ At("magic") /\ UNCHANGED <<left, inner>>
      /\ \/ plain /\ Move(m.at, "header") /\ UNCHANGED dis
         \/ /\ signed
            /\ dis' = [dis EXCEPT !.signature = SubSeq(file, l.at + 1, l.at + n)]
            /\ Move(l.at + n, "header")
         \/ ~plain /\ ~signed /\ Panic
  BY DEF ReadMagic
<1>2. /\ AsWritten /\ Prefix /\ file \in Octets /\ dis \in Parsed /\ IsModule(mod)
  BY FollowsFacts
<1>3. g \in Octets /\ r \in Octets /\ Len(g) \in Count /\ mod.wide \in BOOLEAN
  BY <1>2, RestsType, ModuleTypes, ModuleCounts
<1>4. /\ m.ok \/ Loads => /\ m.ok /\ m.val[1] = (IF g = <<>> THEN XMAGIC ELSE SMAGIC)
                          /\ g = <<>> => Reads(m.at, r)
      /\ g # <<>> /\ (l.ok \/ Loads) =>
           l.ok /\ l.at \in Nat /\ l.val[2] = Len(g) /\ Reads(l.at, g \o r)
  BY <1>2, MagicRead DEF Prefix
<1>5. XMAGIC # SMAGIC
  BY MagicFits
<1>6. g # <<>> /\ l.ok /\ l.val[2] = Len(g) => n = Len(g)
  BY <1>3, CountComesBack
<1> HIDE DEF m, l, n, g, r
<1>7. g # <<>> /\ l.ok /\ (Loads \/ Has(l.at, n)) =>
        Has(l.at, n) /\ SubSeq(file, l.at + 1, l.at + n) = g /\ Reads(l.at + n, r)
  BY <1>2, <1>3, <1>4, <1>6, SliceRead DEF Loads
<1>8. CASE plain /\ Move(m.at, "header") /\ UNCHANGED dis
  <2>1. g = <<>> /\ Reads(m.at, r)
    BY <1>4, <1>5, <1>8
  <2>2. dis.signature = <<>>
    BY <1>1, <1>2 DEF At, AsWritten, FrontKept
  <2> QED BY <1>1, <1>8, <2>1, <2>2, ToHeader DEF At, Move, g, r
<1>9. CASE /\ signed
           /\ dis' = [dis EXCEPT !.signature = SubSeq(file, l.at + 1, l.at + n)]
           /\ Move(l.at + n, "header")
  <2>1. g # <<>>
    BY <1>4, <1>5, <1>9
  <2>2. SubSeq(file, l.at + 1, l.at + n) = g /\ Reads(l.at + n, r)
    BY <1>7, <1>9, <2>1
  <2>3. dis' = [dis EXCEPT !.signature = g]
    BY <1>9, <2>2
  <2>4. dis'.signature = g /\ dis'.code = dis.code /\ dis'.types = dis.types
        /\ dis'.links = dis.links /\ dis'.imports = dis.imports /\ dis'.handler = dis.handler
    BY <1>2, <2>3, SetSignature
  <2> QED BY <1>1, <1>9, <2>2, <2>4, ToHeader DEF At, Move, g, r
<1>10. CASE ~plain /\ ~signed /\ Panic
  <2>1. ~Loads
    BY <1>4, <1>7, <1>10
  <2> QED BY <1>2, <1>10, <2>1, StopTaken DEF Panic
<1> QED BY <1>1, <1>8, <1>9, <1>10

(* A header.                                                                *)
LEMMA HeaderRightly ==
  ASSUME file \in Octets, Begins, offset \in Nat, Reads(offset, FromHeader(mod))
  PROVE  LET h == Operands(offset, 8) IN
         h.ok \/ Loads =>
           /\ HeaderValid(h) /\ h.at \in Nat
           /\ h.val = AllUnsigned(Header(mod), mod.wide)
           /\ Reads(h.at, FromCode(mod, 0))
<1> DEFINE h == Operands(offset, 8)
           vs == Header(mod)
           ws == HeaderWidths(mod)
           r == FromCode(mod, 0)
<1>1. IsModule(mod)
  BY ModuleWritten DEF Begins
<1>2. r \in Octets /\ (Loads => Whole /\ Len(r) >= 3) /\ Clear(r)
  <2>1. 0 \in 0 .. Len(mod.code) /\ Len(FromCode(mod, 0)) \in Int
    <3>1. 0 \in 0 .. Len(mod.code)
      BY <1>1, ModuleTypes, LenProperties
    <3> QED BY <1>1, <3>1, RestsType DEF Octets
  <2>2. FromCode(mod, 0) \in Octets
    BY <1>1, <2>1, RestsType
  <2>3. ASSUME Loads PROVE Whole /\ Len(FromCode(mod, 0)) >= 3
    <3>1. Len(FromCode(mod, 0)) >= 4
      BY <1>1, <2>1, <2>3, LongEnough DEF Loads, Handlerless
    <3> QED BY <2>1, <2>3, <3>1 DEF Loads
  <2> QED BY <1>1, <2>2, <2>3, FrontLong DEF Clear
<1>3. EncodeHeader(mod) = Written(vs, ws) /\ Fits(vs, ws) /\ Len(vs) = 8
  BY <1>1, HeaderPiece
<1>4. Reads(offset, Written(vs, ws) \o r)
  BY <1>3 DEF FromHeader
<1>5. /\ vs \in Seq(Int) /\ DOMAIN vs = 1 .. 8 /\ vs[1] = mod.flag
      /\ ws[1] = FlagWidth(mod) /\ \A k \in 2 .. 8 : ws[k] = Width(vs[k], mod.wide)
  <2>1. DOMAIN vs = 1 .. 8 /\ vs[1] = mod.flag
    BY DEF Header
  <2>2. vs \in Seq(Int)
    BY <1>3 DEF Fits
  <2>3. ws[1] = FlagWidth(mod) /\ \A k \in 2 .. 8 : ws[k] = Width(vs[k], mod.wide)
    BY DEF HeaderWidths
  <2> QED BY <2>1, <2>2, <2>3
<1>6. mod.flag \in RuntimeFlags /\ mod.flag \in Nat /\ FlagWidth(mod) \in {1, 2}
  BY <1>1, ModuleTypes, FlagFits
<1>7. LET u == AllUnsigned(vs, mod.wide) IN
      u[1] = mod.flag /\ u[3] \in Nat /\ u[4] \in Nat /\ u[5] \in Nat /\ u[6] \in Nat
  BY <1>1, HeaderVals
<1> HIDE DEF h, vs, ws, r
<1>8. ASSUME Operands(offset, 8).ok \/ Loads
      PROVE  CameIn(Operands(offset, 8), vs, ws, r)
  <2>1. Operands(offset, Len(vs)).ok \/ (Whole /\ Len(r) >= 3)
    BY <1>2, <1>3, <1>8
  <2>2. CameIn(Operands(offset, Len(vs)), vs, ws, r)
    BY <1>2, <1>3, <1>4, <2>1, OperandsClear
  <2> QED BY <1>3, <2>2
<1>9. \A k \in 1 .. 8 : Came(vs[k], ws[k]) = Unsigned(vs[k], mod.wide)
  <2> TAKE k \in 1 .. 8
  <2>1. CASE k = 1
    <3>1. ~(vs[1] < 0)
      BY <1>5, <1>6
    <3> QED BY <2>1, <3>1 DEF Came, Unsigned
  <2>2. CASE k # 1
    <3>1. ws[k] = Width(vs[k], mod.wide)
      BY <1>5, <2>2
    <3> QED BY <3>1 DEF Came, Unsigned
  <2> QED BY <2>1, <2>2
<1>10. AllUnsigned(vs, mod.wide) = [k \in 1 .. 8 |-> Came(vs[k], ws[k])]
  BY <1>5, <1>9 DEF AllUnsigned
<1>11. ASSUME h.ok \/ Loads
       PROVE  /\ h.ok /\ h.at \in Nat /\ h.val = AllUnsigned(vs, mod.wide)
              /\ h.size[1] \in {1, 2} /\ Reads(h.at, r)
  <2>1. CameIn(h, vs, ws, r)
    BY <1>8, <1>11 DEF h
  <2>2. h.ok /\ h.at \in Nat /\ Reads(h.at, r)
    BY <2>1 DEF CameIn
  <2>3. h.val = [k \in 1 .. 8 |-> Came(vs[k], ws[k])] /\ h.size = [k \in 1 .. 8 |-> ws[k]]
    BY <1>3, <2>1 DEF CameIn
  <2>4. h.size[1] = ws[1]
    BY <2>3
  <2> QED BY <1>5, <1>6, <1>10, <2>2, <2>3, <2>4
<1>12. ASSUME h.ok \/ Loads
       PROVE  HeaderValid(h)
  <2>1. /\ h.ok /\ h.size[1] # 4 /\ h.val[1] \in RuntimeFlags
    BY <1>6, <1>7, <1>11, <1>12
  <2>2. \A k \in 3 .. 6 : h.val[k] >= 0
    <3>1. h.val[3] \in Nat /\ h.val[4] \in Nat /\ h.val[5] \in Nat /\ h.val[6] \in Nat
      BY <1>7, <1>11, <1>12
    <3>2. \A k \in 3 .. 6 : k = 3 \/ k = 4 \/ k = 5 \/ k = 6
      OBVIOUS
    <3> QED BY <3>1, <3>2
  <2> QED BY <2>1, <2>2 DEF HeaderValid
<1> QED BY <1>11, <1>12 DEF h, vs, r

(* The header is taken as written, in its eight widths.                     *)
LEMMA ReadHeaderTaken == Follows /\ ReadHeader => AsWritten'
<1> SUFFICES ASSUME Follows, ReadHeader PROVE AsWritten'
  OBVIOUS
<1> DEFINE h == Operands(offset, 8)
           u == AllUnsigned(Header(mod), mod.wide)
           r == FromCode(mod, 0)
<1>1. /\ At("header")
      /\ IF HeaderValid(h)
         THEN dis' = [dis EXCEPT !.header = h.val] /\ Move(h.at, "code")
         ELSE Panic
  BY DEF ReadHeader
<1>2. AsWritten /\ dis \in Parsed /\ LoadInv
  BY FollowsFacts
<1>3. h.ok \/ Loads => HeaderValid(h) /\ h.at \in Nat /\ h.val = u /\ Reads(h.at, r)
  <2>1. Reads(offset, FromHeader(mod)) /\ offset \in Nat /\ Prefix /\ file \in Octets
    BY <1>1, FollowsFacts DEF AsWritten, Standing, StandsIn, At
  <2> QED BY <2>1, HeaderRightly DEF Prefix
<1>4. HeaderValid(h) => h.ok
  BY DEF HeaderValid
<1> HIDE DEF h, u, r
<1>5. CASE HeaderValid(h)
  <2>1. h.val = u /\ Reads(h.at, r) /\ dis' = [dis EXCEPT !.header = h.val] /\ Move(h.at, "code")
    BY <1>1, <1>3, <1>4, <1>5
  <2>2. dis'.header = u /\ dis'.signature = dis.signature /\ dis'.code = dis.code
        /\ dis'.types = dis.types /\ dis'.links = dis.links /\ dis'.imports = dis.imports
        /\ dis'.handler = dis.handler
    BY <1>2, <2>1, SetHeader
  <2>3. /\ section = "header" /\ status = "ok" /\ section' = "code" /\ offset' = h.at
        /\ UNCHANGED <<mod, file, damage, status>>
    BY <1>1, <2>1 DEF At, Move
  <2>4. Prefix' /\ CodeKept' /\ TypesKept' /\ LinksKept'
    BY <1>2, <2>2, <2>3, StillKept DEF AsWritten
  <2>5. FrontKept' /\ NamesKept'
    BY <1>2, <2>2, <2>3 DEF AsWritten, FrontKept, NamesKept, Unopened, Late, u
  <2>6. ImportsKept'
    BY <1>2, <2>2, <2>3 DEF AsWritten, ImportsKept, Early, Unopened
  <2>7. Len(dis.code) = 0
    BY <1>2, <2>3 DEF LoadInv, CodeCounted, Unopened
  <2>8. Standing'
    BY <1>2, <2>1, <2>2, <2>3, <2>7 DEF AsWritten, Standing, StandsIn, Reads, r
  <2> QED BY <2>3, <2>4, <2>5, <2>6, <2>8 DEF AsWritten
<1>6. CASE ~HeaderValid(h)
  BY <1>1, <1>2, <1>3, <1>6, StopTaken DEF Panic
<1> QED BY <1>5, <1>6

-----------------------------------------------------------------------------
(* Code and types.                                                          *)

(* A slice that holds what another sequence does is that sequence.          *)
LEMMA SliceIs ==
  ASSUME NEW s \in Seq(Int), NEW x \in Seq(Int), NEW p \in Nat, NEW q, q = p + Len(x),
         q <= Len(s), \A k \in 1 .. Len(x) : s[p + k] = x[k]
  PROVE  SubSeq(s, p + 1, q) = x
<1> DEFINE b == SubSeq(s, p + 1, q)
<1>1. /\ Len(x) \in Nat /\ Len(s) \in Nat /\ \A k \in 1 .. Len(s) : s[k] \in Int
  BY LenProperties, ElementOfSeq
<1>2. /\ p + 1 \in Int /\ q \in Int
      /\ (p + 1 <= q => q - (p + 1) + 1 = Len(x)) /\ (~(p + 1 <= q) => Len(x) = 0)
      /\ \A k \in 1 .. Len(x) : k \in 1 .. q - (p + 1) + 1 /\ p + 1 + k - 1 = p + k
  BY <1>1
<1>3. \A i \in p + 1 .. q : s[i] \in Int
  BY <1>1
<1>4. b \in Seq(Int)
  BY <1>2, <1>3, SubSeqProperties
<1>5. Len(b) = Len(x)
  BY <1>2, <1>3, SubSeqProperties
<1>6. \A k \in 1 .. Len(x) : b[k] = s[p + k]
  BY <1>2, <1>3, SubSeqProperties
<1> HIDE DEF b
<1>7. \A k \in 1 .. Len(b) : b[k] = x[k]
  BY <1>5, <1>6
<1>8. b = x
  BY <1>4, <1>5, <1>7, SeqEqual
<1> QED BY <1>8 DEF b

(* Numbers without their sign are numbers.                                  *)
LEMMA UnsignedType ==
  ASSUME NEW vs \in Seq(Number), NEW wide \in BOOLEAN
  PROVE  /\ AllUnsigned(vs, wide) \in Seq(Int) /\ Len(AllUnsigned(vs, wide)) = Len(vs)
         /\ \A k \in 1 .. Len(vs) : AllUnsigned(vs, wide)[k] = Unsigned(vs[k], wide)
<1>1. Len(vs) \in Nat /\ DOMAIN vs = 1 .. Len(vs) /\ \A k \in 1 .. Len(vs) : vs[k] \in Number
  BY LenProperties, ElementOfSeq
<1>2. \A k \in 1 .. Len(vs) : Unsigned(vs[k], wide) \in Int
  <2> TAKE k \in 1 .. Len(vs)
  <2>1. vs[k] \in Int /\ Width(vs[k], wide) \in {1, 2, 4} /\ Encodable(vs[k], Width(vs[k], wide))
    BY <1>1, NumberInt, WidthFits
  <2>2. Came(vs[k], Width(vs[k], wide)) \in Int
    BY <2>1, CameBack
  <2> QED BY <2>2 DEF Came, Unsigned
<1>3. AllUnsigned(vs, wide) = [k \in 1 .. Len(vs) |-> Unsigned(vs[k], wide)]
  BY <1>1 DEF AllUnsigned
<1> QED BY <1>1, <1>2, <1>3

(* Numbers put together, the second after the first.                        *)
LEMMA NumbersJoined ==
  ASSUME NEW a \in Seq(Number), NEW b \in Seq(Number)
  PROVE  /\ a \o b \in Seq(Number) /\ Len(a \o b) = Len(a) + Len(b)
         /\ \A k \in 1 .. Len(a) : (a \o b)[k] = a[k]
         /\ \A k \in 1 .. Len(b) : (a \o b)[Len(a) + k] = b[k]
<1>1. Len(a) \in Nat /\ Len(b) \in Nat
  BY LenProperties
<1>2. a \o b \in Seq(Number) /\ Len(a \o b) = Len(a) + Len(b)
  BY NumbersConcat
<1>3. \A k \in 1 .. Len(a) + Len(b) : (a \o b)[k] = IF k <= Len(a) THEN a[k] ELSE b[k - Len(a)]
  BY ConcatProperties
<1>4. \A k \in 1 .. Len(a) : (a \o b)[k] = a[k]
  BY <1>1, <1>3
<1>5. ASSUME NEW k \in 1 .. Len(b) PROVE (a \o b)[Len(a) + k] = b[k]
  <2>1. Len(a) + k \in 1 .. Len(a) + Len(b) /\ ~(Len(a) + k <= Len(a)) /\ Len(a) + k - Len(a) = k
    BY <1>1
  <2> QED BY <1>3, <2>1
<1> QED BY <1>2, <1>4, <1>5

(* The operands of an instruction fall to it in the order they were written *)
(* in.                                                                      *)
LEMMA InstructionMeans ==
  ASSUME NEW i \in Codes, CodeFits(i), NEW wide \in BOOLEAN
  PROVE  Instruction(i.opcode, i.address, AllUnsigned(i.mid \o i.src \o i.dst, wide))
           = MeaningOfCode(i, wide)
<1> DEFINE a == i.address
           val == AllUnsigned(i.mid \o i.src \o i.dst, wide)
           m == MidCount(a)
           n == OperandCount(SrcMode(a))
           d == OperandCount(DstMode(a))
           u(v) == Unsigned(v, wide)
<1>1. /\ i.opcode \in Octet /\ a \in Octet
      /\ i.mid \in Seq(Number) /\ i.src \in Seq(Number) /\ i.dst \in Seq(Number)
      /\ Len(i.mid) = m /\ Len(i.src) = n /\ Len(i.dst) = d
      /\ SrcMode(a) \notin {6, 7}
  BY CodePiece DEF CodeFits
<1>2. m \in Nat /\ n \in Nat /\ d \in Nat
  BY <1>1, ModesType
<1> DEFINE x == i.mid
           y == i.src
           z == i.dst
           xy == x \o y
           vs == xy \o z
<1>3. /\ xy \in Seq(Number) /\ Len(xy) = m + n
      /\ \A k \in 1 .. m : xy[k] = x[k]
      /\ \A k \in 1 .. n : xy[m + k] = y[k]
  <2>1. x \in Seq(Number) /\ y \in Seq(Number) /\ Len(x) = m /\ Len(y) = n
    BY <1>1
  <2> HIDE DEF x, y, m, n
  <2>2. /\ xy \in Seq(Number) /\ Len(xy) = Len(x) + Len(y)
        /\ \A k \in 1 .. Len(x) : xy[k] = x[k]
        /\ \A k \in 1 .. Len(y) : xy[Len(x) + k] = y[k]
    BY <2>1, NumbersJoined
  <2> QED BY <2>1, <2>2
<1>4. /\ vs \in Seq(Number) /\ Len(vs) = m + n + d
      /\ \A k \in 1 .. m + n : vs[k] = xy[k]
      /\ \A k \in 1 .. d : vs[m + n + k] = z[k]
  <2>1. xy \in Seq(Number) /\ z \in Seq(Number) /\ Len(xy) = m + n /\ Len(z) = d
    BY <1>1, <1>3
  <2> HIDE DEF x, y, z, m, n, d, xy
  <2>2. /\ vs \in Seq(Number) /\ Len(vs) = Len(xy) + Len(z)
        /\ \A k \in 1 .. Len(xy) : vs[k] = xy[k]
        /\ \A k \in 1 .. Len(z) : vs[Len(xy) + k] = z[k]
    BY <2>1, NumbersJoined
  <2> QED BY <2>1, <2>2
<1>5. val = AllUnsigned(vs, wide)
  OBVIOUS
<1> HIDE DEF vs, xy, val
<1>6. val \in Seq(Int) /\ Len(val) = m + n + d /\ \A k \in 1 .. m + n + d : val[k] = u(vs[k])
  BY <1>4, <1>5, UnsignedType
<1>7. /\ \A k \in 1 .. m : val[k] = u(x[k])
      /\ \A k \in 1 .. n : val[m + k] = u(y[k])
      /\ \A k \in 1 .. d : val[m + n + k] = u(z[k])
  <2> HIDE DEF m, n, d, x, y, z, u
  <2>1. \A k \in 1 .. m : k \in 1 .. m + n /\ k \in 1 .. m + n + d
    BY <1>2
  <2>2. \A k \in 1 .. n : m + k \in 1 .. m + n /\ m + k \in 1 .. m + n + d
    BY <1>2
  <2>3. \A k \in 1 .. d : m + n + k \in 1 .. m + n + d
    BY <1>2
  <2>4. \A k \in 1 .. m : val[k] = u(x[k])
    BY <1>3, <1>4, <1>6, <2>1
  <2>5. \A k \in 1 .. n : val[m + k] = u(y[k])
    BY <1>3, <1>4, <1>6, <2>2
  <2>6. \A k \in 1 .. d : val[m + n + k] = u(z[k])
    BY <1>4, <1>6, <2>3
  <2> QED BY <2>4, <2>5, <2>6
<1>8. SubSeq(val, m + 1, m + n) = AllUnsigned(y, wide)
  <2>1. y \in Seq(Number) /\ Len(y) = n
    BY <1>1
  <2>2. AllUnsigned(y, wide) \in Seq(Int) /\ Len(AllUnsigned(y, wide)) = n
        /\ \A k \in 1 .. n : AllUnsigned(y, wide)[k] = u(y[k])
    BY <2>1, UnsignedType
  <2> DEFINE w == AllUnsigned(y, wide)
  <2> HIDE DEF w, m, n, d, x, y, z, u
  <2>3. w \in Seq(Int) /\ Len(w) = n /\ \A k \in 1 .. n : w[k] = u(y[k])
    BY <2>2 DEF w
  <2>4. m + n <= Len(val) /\ m + n = m + Len(w)
    BY <1>2, <1>6, <2>3
  <2>4a. \A k \in 1 .. Len(w) : val[m + k] = w[k]
    BY <1>7, <2>3
  <2>5. SubSeq(val, m + 1, m + n) = w
    BY <1>2, <1>6, <2>3, <2>4, <2>4a, SliceIs
  <2> QED BY <2>5 DEF w
<1>9. SubSeq(val, m + n + 1, Len(val)) = AllUnsigned(z, wide)
  <2>1. z \in Seq(Number) /\ Len(z) = d
    BY <1>1
  <2>2. AllUnsigned(z, wide) \in Seq(Int) /\ Len(AllUnsigned(z, wide)) = d
        /\ \A k \in 1 .. d : AllUnsigned(z, wide)[k] = u(z[k])
    BY <2>1, UnsignedType
  <2> DEFINE w == AllUnsigned(z, wide)
             mn == m + n
  <2> HIDE DEF w, m, n, d, x, y, z, u
  <2>3. w \in Seq(Int) /\ Len(w) = d /\ \A k \in 1 .. d : w[k] = u(z[k])
    BY <2>2 DEF w
  <2>4. mn \in Nat /\ Len(val) = mn + d /\ Len(val) \in Nat /\ \A k \in 1 .. d : val[mn + k] = w[k]
    BY <1>2, <1>6, <1>7, <2>3
  <2> HIDE DEF mn
  <2>5. SubSeq(val, mn + 1, Len(val)) = w
    BY <1>6, <2>3, <2>4, SliceIs
  <2> QED BY <2>5 DEF w, mn
<1>10. [k \in 1 .. m |-> IntoI16(val[k])] = [k \in DOMAIN x |-> IntoI16(u(x[k]))]
  <2>1. DOMAIN x = 1 .. m
    BY <1>1, LenProperties
  <2> HIDE DEF m, x, u
  <2> QED BY <1>7, <2>1
<1>11. Instruction(i.opcode, a, val)
         = [opcode |-> i.opcode, address |-> a,
            mid |-> [k \in DOMAIN x |-> IntoI16(u(x[k]))],
            src |-> AllUnsigned(y, wide), dst |-> AllUnsigned(z, wide)]
  BY <1>1, <1>8, <1>9, <1>10 DEF Instruction
<1>12. MeaningOfCode(i, wide)
         = [opcode |-> i.opcode, address |-> a,
            mid |-> [k \in DOMAIN x |-> IntoI16(u(x[k]))],
            src |-> AllUnsigned(y, wide), dst |-> AllUnsigned(z, wide)]
  <2> DEFINE SN == Seq(Number)
             p == [k \in DOMAIN x |-> IntoI16(u(x[k]))]
             q == AllUnsigned(y, wide)
             r == AllUnsigned(z, wide)
  <2>1. i \in [opcode : Octet, address : Octet, mid : SN, src : SN, dst : SN]
    BY DEF Codes
  <2>2. MeaningOfCode(i, wide) = [i EXCEPT !.mid = p, !.src = q, !.dst = r]
    BY DEF MeaningOfCode
  <2> HIDE DEF SN, p, q, r
  <2> DEFINE j == [i EXCEPT !.mid = p, !.src = q, !.dst = r]
  <2>3. j \in [opcode : {i.opcode}, address : {i.address}, mid : {p}, src : {q}, dst : {r}]
    BY <2>1
  <2> HIDE DEF j
  <2>4. j = [opcode |-> i.opcode, address |-> i.address, mid |-> p, src |-> q, dst |-> r]
    BY <2>3
  <2> QED BY <2>2, <2>4 DEF j, p, q, r
<1>13. Instruction(i.opcode, a, val) = MeaningOfCode(i, wide)
  BY <1>11, <1>12
<1> QED BY <1>5, <1>13 DEF vs, xy

(* Bytes behind the cursor.                                                 *)
LEMMA BytesRead ==
  ASSUME file \in Octets, Prefix, NEW at \in Nat, NEW a \in Octets, NEW r \in Octets,
         Reads(at, a \o r), Has(at, Len(a)) \/ Whole
  PROVE  /\ Has(at, Len(a)) /\ \A k \in 1 .. Len(a) : file[at + k] = a[k]
         /\ at + Len(a) \in Nat /\ Reads(at + Len(a), r)
<1>1. Has(at, Len(a)) /\ Reads(at + Len(a), r)
  BY SliceRead
<1>2. Len(a) \in Nat /\ Len(file) \in Nat
  BY DEF Octets
<1>3. \A k \in 1 .. Len(a) : at + k <= Len(file)
  BY <1>1, <1>2 DEF Has
<1> QED BY <1>1, <1>2, <1>3, PieceInFile

(* An instruction.                                                          *)
LEMMA CodeRead ==
  ASSUME Follows, At("code"), left > 0
  PROVE  LET a == Byte(offset + 1)
             o == Operands(offset + 2, MidCount(a) + OperandCount(SrcMode(a))
                                                   + OperandCount(DstMode(a)))
             k == Len(dis.code) + 1
         IN (Has(offset, 2) /\ o.ok) \/ Loads =>
              /\ Has(offset, 2) /\ o.ok /\ DstMode(a) \notin {6, 7}
              /\ Instruction(Byte(offset), a, o.val) = CodeMeans(k)
              /\ Reads(o.at, FromCode(mod, k))
<1> DEFINE j == Len(dis.code)
           i == mod.code[j + 1]
           w == mod.wide
           r == FromCode(mod, j + 1)
           vs == i.mid \o i.src \o i.dst
           h == <<i.opcode, i.address>>
           b == Ops(vs, w)
           n == Len(vs)
<1>1. /\ LoadInv /\ AsWritten /\ Prefix /\ IsModule(mod) /\ mod.flag # HASEXCEPT /\ file \in Octets
      /\ offset \in Nat /\ w \in BOOLEAN /\ dis \in Parsed /\ left \in Nat
  BY FollowsFacts
<1>2. section = "code" /\ section \notin Unopened
  BY DEF At, Unopened
<1>3. j \in Nat /\ j + left = Len(mod.code) /\ Len(mod.code) \in Nat
  <2>1. j \in Nat
    BY <1>1, ParsedFields, LenProperties
  <2>2. j + left = dis.header[3]
    BY <1>1, <1>2 DEF LoadInv, CodeCounted
  <2> QED BY <1>2, <2>1, <2>2, HeaderMeans
<1>4. j \in 0 .. Len(mod.code) - 1 /\ j + 1 \in 1 .. Len(mod.code) /\ j + 1 \in 0 .. Len(mod.code)
  BY <1>1, <1>3
<1>5. i \in Codes /\ CodeFits(i)
  <2>1. mod.code \in Seq(Codes)
    BY <1>1, ModuleTypes
  <2>2. DOMAIN mod.code = 1 .. Len(mod.code)
    BY <2>1, LenProperties
  <2> QED BY <1>1, <1>4, <2>1, <2>2, ElementOfSeq DEF IsModule
<1>6. /\ h \in Octets /\ b \in Octets /\ vs \in Seq(Number)
      /\ EncodeCode(i, w) = h \o b /\ i.address \in Octet
      /\ n = MidCount(i.address) + OperandCount(SrcMode(i.address)) + OperandCount(DstMode(i.address))
  BY <1>1, <1>5, CodePiece DEF CodeFits
<1>7. r \in Octets /\ (Loads => Whole /\ Len(r) >= 3)
  <2>1. r \in Octets
    BY <1>1, <1>4, RestsType
  <2>2. Len(r) \in Int
    BY <2>1 DEF Octets
  <2>3. ASSUME Loads PROVE Whole /\ Len(r) >= 3
    <3>1. Len(r) >= 4
      BY <1>1, <1>4, <2>3, LongEnough DEF Loads
    <3> QED BY <2>2, <2>3, <3>1 DEF Loads
  <2> QED BY <2>1, <2>3
<1>8. FromCode(mod, j) = EncodeCode(i, w) \o r
  BY <1>1, <1>4, NextPieces
<1>9. Reads(offset, FromCode(mod, j))
  BY <1>1, <1>2 DEF AsWritten, Standing, StandsIn
<1>10. h[1] = i.opcode /\ h[2] = i.address /\ Len(h) = 2 /\ 1 \in 1 .. 2 /\ 2 \in 1 .. 2
  OBVIOUS
<1>11. Instruction(i.opcode, i.address, AllUnsigned(vs, w)) = CodeMeans(j + 1)
  BY <1>1, <1>5, InstructionMeans DEF CodeMeans
<1>12. DstMode(i.address) \notin {6, 7}
  BY <1>5 DEF CodeFits
<1> HIDE DEF j, i, w, r, vs, h, b, n
<1>13. Reads(offset, h \o (b \o r)) /\ b \o r \in Octets
  <2>1. (h \o b) \o r = h \o (b \o r)
    BY <1>6, <1>7, OctetsAssociate
  <2> QED BY <1>6, <1>7, <1>8, <1>9, <2>1, LongerThan
<1>14. ASSUME Has(offset, 2) \/ Loads
       PROVE  /\ Has(offset, 2) /\ Byte(offset) = i.opcode /\ Byte(offset + 1) = i.address
              /\ Reads(offset + 2, b \o r)
  <2>1. Has(offset, Len(h)) \/ Whole
    BY <1>10, <1>14 DEF Loads
  <2>2. /\ Has(offset, Len(h)) /\ (\A k \in 1 .. Len(h) : file[offset + k] = h[k])
        /\ Reads(offset + Len(h), b \o r)
    BY <1>1, <1>6, <1>13, <2>1, BytesRead
  <2>3. file[offset + 1] = h[1] /\ file[offset + 2] = h[2]
    BY <1>10, <2>2
  <2>4. offset + 1 + 1 = offset + 2
    BY <1>1
  <2> QED BY <1>10, <2>2, <2>3, <2>4 DEF Byte
<1>15. ASSUME Has(offset, 2) \/ Loads, Operands(offset + 2, n).ok \/ Loads
       PROVE  /\ Operands(offset + 2, n).ok /\ Operands(offset + 2, n).val = AllUnsigned(vs, w)
              /\ Reads(Operands(offset + 2, n).at, r)
  <2>1. offset + 2 \in Nat /\ Reads(offset + 2, Ops(vs, w) \o r) /\ n = Len(vs)
    BY <1>1, <1>14, <1>15 DEF b, n
  <2>2. Operands(offset + 2, n).ok \/ (Whole /\ Len(r) >= 3)
    BY <1>7, <1>15
  <2> QED BY <1>1, <1>6, <1>7, <2>1, <2>2, OpsRead
<1> DEFINE a == Byte(offset + 1)
           o == Operands(offset + 2, MidCount(a) + OperandCount(SrcMode(a)) + OperandCount(DstMode(a)))
<1>16. ASSUME (Has(offset, 2) /\ o.ok) \/ Loads
       PROVE  /\ Has(offset, 2) /\ o.ok /\ DstMode(a) \notin {6, 7}
              /\ Instruction(Byte(offset), a, o.val) = CodeMeans(j + 1)
              /\ Reads(o.at, r)
  <2>1. Has(offset, 2) \/ Loads
    BY <1>16
  <2>2. Has(offset, 2) /\ Byte(offset) = i.opcode /\ a = i.address
    BY <1>14, <2>1
  <2>3. o = Operands(offset + 2, n)
    BY <1>6, <2>2
  <2>4. o.ok /\ o.val = AllUnsigned(vs, w) /\ Reads(o.at, r)
    BY <1>15, <1>16, <2>1, <2>3
  <2> QED BY <1>11, <1>12, <2>2, <2>4
<1> QED BY <1>16 DEF j, r

(* An instruction is taken as written, behind the ones before it.           *)
LEMMA ReadInstructionTaken == Follows /\ ReadInstruction => AsWritten'
<1> SUFFICES ASSUME Follows, ReadInstruction PROVE AsWritten'
  OBVIOUS
<1> DEFINE a == Byte(offset + 1)
           o == Operands(offset + 2, MidCount(a) + OperandCount(SrcMode(a))
                                                 + OperandCount(DstMode(a)))
           i == Instruction(Byte(offset), a, o.val)
           k == Len(dis.code) + 1
           good == Has(offset, 2) /\ o.ok /\ DstMode(a) \notin {6, 7}
<1>1. /\ At("code") /\ left > 0
      /\ IF good
         THEN dis' = [dis EXCEPT !.code = Append(@, i)] /\ Move(o.at, "code")
         ELSE Panic
  BY DEF ReadInstruction
<1>2. AsWritten /\ dis \in Parsed
  BY FollowsFacts
<1>3. (Has(offset, 2) /\ o.ok) \/ Loads => good /\ i = CodeMeans(k) /\ Reads(o.at, FromCode(mod, k))
  BY <1>1, CodeRead
<1>4. good => Has(offset, 2) /\ o.ok
  OBVIOUS
<1> HIDE DEF good, o, a, i
<1>5. CASE good
  <2>1. i = CodeMeans(k) /\ Reads(o.at, FromCode(mod, k))
        /\ dis' = [dis EXCEPT !.code = Append(@, i)] /\ Move(o.at, "code")
    BY <1>1, <1>3, <1>4, <1>5
  <2> DEFINE x == Append(dis.code, i)
  <2>2. dis' = [dis EXCEPT !.code = x]
    BY <2>1
  <2>3. dis.code \in Seq(Instructions)
    BY <1>2, ParsedFields
  <2>4. /\ Len(dis.code) \in Nat /\ Len(x) = k /\ x[k] = i
        /\ \A n \in 1 .. Len(dis.code) : x[n] = dis.code[n]
    BY <2>3, LenProperties
  <2> HIDE DEF x, k
  <2>5. dis'.code = x /\ dis'.signature = dis.signature /\ dis'.header = dis.header
        /\ dis'.types = dis.types /\ dis'.links = dis.links /\ dis'.imports = dis.imports
        /\ dis'.handler = dis.handler
    BY <1>2, <2>2, SetCode
  <2>6. /\ section = "code" /\ status = "ok" /\ section' = "code" /\ offset' = o.at
        /\ UNCHANGED <<mod, file, damage, status>>
    BY <1>1, <2>1 DEF At, Move
  <2>7. Prefix' /\ TypesKept' /\ LinksKept'
    BY <1>2, <2>5, <2>6, StillKept DEF AsWritten
  <2>8. CodeKept'
    <3>1. \A n \in 1 .. Len(dis.code) : dis.code[n] = CodeMeans(n)
      BY <1>2 DEF AsWritten, CodeKept
    <3>2. \A n \in 1 .. k : n \in 1 .. Len(dis.code) \/ n = k
      BY <2>4 DEF k
    <3>3. \A n \in 1 .. Len(x) : x[n] = CodeMeans(n)
      BY <2>1, <2>4, <3>1, <3>2
    <3> QED BY <2>5, <2>6, <3>3 DEF CodeKept, CodeMeans
  <2>9. FrontKept' /\ NamesKept' /\ ImportsKept'
    BY <1>2, <2>5, <2>6 DEF AsWritten, FrontKept, NamesKept, ImportsKept, Unopened, Late, Early
  <2>10. Standing'
    BY <1>2, <2>1, <2>4, <2>5, <2>6 DEF AsWritten, Standing, StandsIn, Reads
  <2> QED BY <2>6, <2>7, <2>8, <2>9, <2>10 DEF AsWritten
<1>6. CASE ~good
  BY <1>1, <1>2, <1>3, <1>6, StopTaken DEF Panic
<1> QED BY <1>5, <1>6

(* A type.                                                                  *)
LEMMA TypeRead ==
  ASSUME Follows, At("types"), left > 0
  PROVE  LET o == Operands(offset, 3)
             n == IF o.val[3] < 0 THEN 0 ELSE o.val[3]
             k == Len(dis.types) + 1
         IN (o.ok /\ Has(o.at, n)) \/ Loads =>
              /\ o.ok /\ Has(o.at, n)
              /\ [no |-> o.val[1], size |-> o.val[2], map |-> SubSeq(file, o.at + 1, o.at + n)]
                   = TypeMeans(k)
              /\ Reads(o.at + n, FromType(mod, k))
<1> DEFINE j == Len(dis.types)
           t == mod.types[j + 1]
           w == mod.wide
           r == FromType(mod, j + 1)
           vs == <<t.no, t.size, Len(t.map)>>
           p == t.map
           o == Operands(offset, 3)
           n == IF o.val[3] < 0 THEN 0 ELSE o.val[3]
<1>1. /\ LoadInv /\ AsWritten /\ Prefix /\ IsModule(mod) /\ mod.flag # HASEXCEPT /\ file \in Octets
      /\ offset \in Nat /\ w \in BOOLEAN /\ dis \in Parsed /\ left \in Nat
  BY FollowsFacts
<1>2. section = "types" /\ section \notin Unopened
  BY DEF At, Unopened
<1>3. j \in Nat /\ j + left = Len(mod.types) /\ Len(mod.types) \in Nat
  <2>1. j \in Nat
    BY <1>1, ParsedFields, LenProperties
  <2>2. j + left = TypeCount
    BY <1>1, <1>2 DEF LoadInv, TypesCounted
  <2> QED BY <1>2, <2>1, <2>2, HeaderMeans
<1>4. j \in 0 .. Len(mod.types) - 1 /\ j + 1 \in 1 .. Len(mod.types) /\ j + 1 \in 0 .. Len(mod.types)
  BY <1>1, <1>3
<1>5. t \in Types /\ Len(t.map) \in Count
  <2>1. mod.types \in Seq(Types)
    BY <1>1, ModuleTypes
  <2>2. DOMAIN mod.types = 1 .. Len(mod.types)
    BY <2>1, LenProperties
  <2> QED BY <1>1, <1>4, <2>1, <2>2, ElementOfSeq DEF IsModule
<1>6. /\ t.no \in Count /\ p \in Octets /\ Len(p) \in Count /\ vs \in Seq(Number)
      /\ Ops(vs, w) \in Octets /\ EncodeType(t, w) = Ops(vs, w) \o p
  BY <1>1, <1>5, TypePiece
<1>7. r \in Octets /\ (Loads => Whole /\ Len(p \o r) >= 3) /\ p \o r \in Octets
  <2>1. r \in Octets
    BY <1>1, <1>4, RestsType
  <2>2. Len(r) \in Int
    BY <2>1 DEF Octets
  <2> HIDE DEF p, r
  <2>3. p \o r \in Octets /\ Len(p \o r) >= Len(r) /\ Len(p \o r) \in Nat
    BY <1>6, <2>1, LongerThan
  <2>4. ASSUME Loads PROVE Whole /\ Len(p \o r) >= 3
    <3>1. Len(r) >= 4
      BY <1>1, <1>4, <2>4, LongEnough DEF Loads, r
    <3> QED BY <2>2, <2>3, <2>4, <3>1 DEF Loads
  <2> QED BY <2>1, <2>3, <2>4
<1>8. FromType(mod, j) = EncodeType(t, w) \o r
  BY <1>1, <1>4, NextPieces
<1>9. Reads(offset, FromType(mod, j))
  BY <1>1, <1>2 DEF AsWritten, Standing, StandsIn
<1>10. Len(vs) = 3 /\ vs[1] = t.no /\ vs[2] = t.size /\ vs[3] = Len(p)
  OBVIOUS
<1> DEFINE b == Ops(vs, w)
<1> HIDE DEF j, r, vs, b, p, w
<1>11. Reads(offset, b \o (p \o r))
  <2>1. b \in Octets
    BY <1>6 DEF b
  <2>2. (b \o p) \o r = b \o (p \o r)
    BY <1>6, <1>7, <2>1, OctetsAssociate
  <2> QED BY <1>6, <1>8, <1>9, <2>2 DEF b
<1>12. ASSUME o.ok \/ Loads
       PROVE  /\ o.ok /\ o.at \in Nat /\ o.val[1] = t.no /\ o.val[2] = Unsigned(t.size, w)
              /\ n = Len(p) /\ Reads(o.at, p \o r)
  <2> DEFINE x == p \o r
  <2>1. x \in Octets /\ (Loads => Whole /\ Len(x) >= 3) /\ Reads(offset, Ops(vs, w) \o x)
    BY <1>7, <1>11 DEF b
  <2> HIDE DEF x
  <2>2. Operands(offset, 3).ok \/ (Whole /\ Len(x) >= 3)
    BY <1>12, <2>1
  <2>3. /\ Operands(offset, 3).ok /\ Operands(offset, 3).at \in Nat
        /\ Operands(offset, 3).val = AllUnsigned(vs, w) /\ Reads(Operands(offset, 3).at, x)
    <3> DEFINE c == Len(vs)
    <3>1. c = Len(vs) /\ c = 3
      BY <1>10
    <3> HIDE DEF c
    <3>2. Operands(offset, c).ok \/ (Whole /\ Len(x) >= 3)
      BY <2>2, <3>1
    <3>3. /\ Operands(offset, c).ok /\ Operands(offset, c).at \in Nat
          /\ Operands(offset, c).val = AllUnsigned(vs, w) /\ Reads(Operands(offset, c).at, x)
      <4>1. /\ file \in Octets /\ Prefix /\ offset \in Nat /\ vs \in Seq(Number) /\ w \in BOOLEAN
            /\ c = Len(vs) /\ x \in Octets /\ Reads(offset, Ops(vs, w) \o x)
        BY <1>1, <1>6, <2>1, <3>1
      <4> QED BY <3>2, <4>1, OpsRead
    <3> QED BY <3>1, <3>3
  <2>4. \A k \in 1 .. 3 : AllUnsigned(vs, w)[k] = Unsigned(vs[k], w)
    BY <1>1, <1>6, <1>10, UnsignedType
  <2>5. /\ AllUnsigned(vs, w)[1] = Unsigned(vs[1], w) /\ AllUnsigned(vs, w)[2] = Unsigned(vs[2], w)
        /\ AllUnsigned(vs, w)[3] = Unsigned(vs[3], w)
    BY <2>4
  <2>6. Unsigned(t.no, w) = t.no /\ Unsigned(Len(p), w) = Len(p) /\ Len(p) \in Nat
    BY <1>1, <1>6, CountComesBack
  <2> QED BY <1>10, <2>3, <2>5, <2>6 DEF x
<1>13. ASSUME (o.ok /\ Has(o.at, n)) \/ Loads
       PROVE  /\ o.ok /\ Has(o.at, n) /\ SubSeq(file, o.at + 1, o.at + n) = p
              /\ Reads(o.at + n, r)
  <2>1. o.ok /\ o.at \in Nat /\ n = Len(p) /\ Reads(o.at, p \o r)
    BY <1>12, <1>13
  <2> HIDE DEF o, n
  <2>2. Has(o.at, Len(p)) \/ Whole
    BY <1>13, <2>1 DEF Loads
  <2> QED BY <1>1, <1>6, <1>7, <2>1, <2>2, SliceRead
<1>14. TypeMeans(j + 1) = [no |-> t.no, size |-> Unsigned(t.size, w), map |-> p]
  <2>1. TypeMeans(j + 1) = [t EXCEPT !.size = Unsigned(t.size, w)]
    BY DEF TypeMeans, w
  <2>2. t \in [no : Count, size : Number, map : Octets]
    BY <1>5 DEF Types
  <2> DEFINE u == Unsigned(t.size, w)
  <2> HIDE DEF t, u
  <2>3. [t EXCEPT !.size = u] \in [no : {t.no}, size : {u}, map : {t.map}]
    BY <2>2
  <2> QED BY <2>1, <2>3 DEF u, p
<1>15. ASSUME (o.ok /\ Has(o.at, n)) \/ Loads
       PROVE  /\ o.ok /\ Has(o.at, n)
              /\ [no |-> o.val[1], size |-> o.val[2], map |-> SubSeq(file, o.at + 1, o.at + n)]
                   = TypeMeans(j + 1)
              /\ Reads(o.at + n, r)
  BY <1>12, <1>13, <1>14, <1>15
<1> QED BY <1>15 DEF j, r

(* A type is taken as written, behind the ones before it.                   *)
LEMMA ReadTypeTaken == Follows /\ ReadType => AsWritten'
<1> SUFFICES ASSUME Follows, ReadType PROVE AsWritten'
  OBVIOUS
<1> DEFINE o == Operands(offset, 3)
           n == IF o.val[3] < 0 THEN 0 ELSE o.val[3]
           t == [no |-> o.val[1], size |-> o.val[2], map |-> SubSeq(file, o.at + 1, o.at + n)]
           k == Len(dis.types) + 1
           good == o.ok /\ Has(o.at, n)
<1>1. /\ At("types") /\ left > 0
      /\ IF good
         THEN dis' = [dis EXCEPT !.types = Append(@, t)] /\ Move(o.at + n, "types")
         ELSE Panic
  BY DEF ReadType
<1>2. AsWritten /\ dis \in Parsed
  BY FollowsFacts
<1>3. good \/ Loads => good /\ t = TypeMeans(k) /\ Reads(o.at + n, FromType(mod, k))
  BY <1>1, TypeRead
<1> HIDE DEF good, o, n, t
<1>4. CASE good
  <2>1. t = TypeMeans(k) /\ Reads(o.at + n, FromType(mod, k))
        /\ dis' = [dis EXCEPT !.types = Append(@, t)] /\ Move(o.at + n, "types")
    BY <1>1, <1>3, <1>4
  <2> DEFINE x == Append(dis.types, t)
  <2>2. dis' = [dis EXCEPT !.types = x]
    BY <2>1
  <2>3. dis.types \in Seq(TypesRead)
    BY <1>2, ParsedFields
  <2>4. /\ Len(dis.types) \in Nat /\ Len(x) = k /\ x[k] = t
        /\ \A i \in 1 .. Len(dis.types) : x[i] = dis.types[i]
    BY <2>3, LenProperties
  <2> HIDE DEF x, k
  <2>5. dis'.types = x /\ dis'.signature = dis.signature /\ dis'.header = dis.header
        /\ dis'.code = dis.code /\ dis'.links = dis.links /\ dis'.imports = dis.imports
        /\ dis'.handler = dis.handler
    BY <1>2, <2>2, SetTypes
  <2>6. /\ section = "types" /\ status = "ok" /\ section' = "types" /\ offset' = o.at + n
        /\ UNCHANGED <<mod, file, damage, status>>
    BY <1>1, <2>1 DEF At, Move
  <2>7. Prefix' /\ CodeKept' /\ LinksKept'
    BY <1>2, <2>5, <2>6, StillKept DEF AsWritten
  <2>8. TypesKept'
    <3>1. \A i \in 1 .. Len(dis.types) : dis.types[i] = TypeMeans(i)
      BY <1>2 DEF AsWritten, TypesKept
    <3>2. \A i \in 1 .. k : i \in 1 .. Len(dis.types) \/ i = k
      BY <2>4 DEF k
    <3>3. \A i \in 1 .. Len(x) : x[i] = TypeMeans(i)
      BY <2>1, <2>4, <3>1, <3>2
    <3> QED BY <2>5, <2>6, <3>3 DEF TypesKept, TypeMeans
  <2>9. FrontKept' /\ NamesKept' /\ ImportsKept'
    BY <1>2, <2>5, <2>6 DEF AsWritten, FrontKept, NamesKept, ImportsKept, Unopened, Late, Early
  <2>10. Standing'
    BY <1>2, <2>1, <2>4, <2>5, <2>6 DEF AsWritten, Standing, StandsIn, Reads
  <2> QED BY <2>6, <2>7, <2>8, <2>9, <2>10 DEF AsWritten
<1>5. CASE ~good
  BY <1>1, <1>2, <1>3, <1>5, StopTaken DEF Panic
<1> QED BY <1>4, <1>5

(* The end of a loop is where the next section begins.                      *)
LEMMA EndLoopTaken == Follows /\ EndLoop => AsWritten'
<1> SUFFICES ASSUME Follows, EndLoop PROVE AsWritten'
  OBVIOUS
<1>1. /\ LoadInv /\ AsWritten /\ IsModule(mod) /\ dis \in Parsed
  BY FollowsFacts
<1>2. /\ status = "ok" /\ left = 0 /\ UNCHANGED <<mod, file, damage, status, dis>> /\ offset' = offset
  BY DEF EndLoop, Move
<1>3. Prefix' /\ CodeKept' /\ TypesKept' /\ LinksKept'
  BY <1>1, <1>2, StillKept DEF AsWritten
<1>4. Len(dis.code) \in Nat /\ Len(dis.types) \in Nat /\ Len(dis.links) \in Nat
  BY <1>1, ParsedFields, LenProperties
<1>5. CASE section = "code" /\ section' = "types"
  <2>1. FrontKept' /\ NamesKept' /\ ImportsKept'
    BY <1>1, <1>2, <1>5 DEF AsWritten, FrontKept, NamesKept, ImportsKept, Unopened, Late, Early
  <2>2. Len(dis.code) = Len(mod.code) /\ Len(dis.types) = 0
    <3>1. Len(dis.code) + left = dis.header[3] /\ Len(dis.types) = 0
      BY <1>1, <1>5 DEF LoadInv, CodeCounted, TypesCounted
    <3> QED BY <1>2, <1>4, <1>5, <3>1, HeaderMeans DEF Unopened
  <2>3. Reads(offset, FromType(mod, 0))
    <3>1. Reads(offset, FromCode(mod, Len(dis.code)))
      BY <1>1, <1>5 DEF AsWritten, Standing, StandsIn
    <3> QED BY <1>1, <2>2, <3>1, NextPieces
  <2>4. Standing'
    BY <1>1, <1>2, <1>5, <2>2, <2>3 DEF AsWritten, Standing, StandsIn, Reads
  <2> QED BY <1>2, <1>3, <2>1, <2>4 DEF AsWritten
<1>6. CASE section = "types" /\ section' = "heap"
  <2>1. FrontKept' /\ NamesKept' /\ ImportsKept'
    BY <1>1, <1>2, <1>6 DEF AsWritten, FrontKept, NamesKept, ImportsKept, Unopened, Late, Early
  <2>2. Len(dis.types) = Len(mod.types)
    <3>1. Len(dis.types) + left = TypeCount
      BY <1>1, <1>6 DEF LoadInv, TypesCounted
    <3> QED BY <1>2, <1>4, <1>6, <3>1, HeaderMeans DEF Unopened
  <2>3. Reads(offset, FromItem(mod, 0))
    <3>1. Reads(offset, FromType(mod, Len(dis.types)))
      BY <1>1, <1>6 DEF AsWritten, Standing, StandsIn
    <3> QED BY <1>1, <2>2, <3>1, NextPieces
  <2>4. Standing'
    BY <1>1, <1>2, <1>6, <2>2, <2>3 DEF AsWritten, Standing, StandsIn, Reads
  <2> QED BY <1>2, <1>3, <2>1, <2>4 DEF AsWritten
<1>7. CASE section = "links" /\ section' = "imports"
  <2>1. FrontKept' /\ NamesKept' /\ ImportsKept'
    BY <1>1, <1>2, <1>7 DEF AsWritten, FrontKept, NamesKept, ImportsKept, Unopened, Late, Early
  <2>2. Len(dis.links) = Len(mod.links)
    <3>1. Len(dis.links) + left = LinkCount
      BY <1>1, <1>7 DEF LoadInv, LinksCounted
    <3> QED BY <1>2, <1>4, <1>7, <3>1, HeaderMeans DEF Unopened
  <2>3. Reads(offset, FromImports(mod))
    <3>1. Reads(offset, FromLink(mod, Len(dis.links)))
      BY <1>1, <1>7 DEF AsWritten, Standing, StandsIn
    <3> QED BY <1>1, <2>2, <3>1, NextPieces
  <2>4. Standing'
    BY <1>1, <1>2, <1>7, <2>2, <2>3 DEF AsWritten, Standing, StandsIn, Reads
  <2> QED BY <1>2, <1>3, <2>1, <2>4 DEF AsWritten
<1> QED BY <1>5, <1>6, <1>7 DEF EndLoop, Move

-----------------------------------------------------------------------------
(* The heap and the data section.                                           *)

(* Nothing but the section changes: what is kept of the others stays.       *)
LEMMA KeptBehindTypes ==
  ASSUME AsWritten, UNCHANGED <<mod, file, damage, dis>>,
         section \in {"heap", "data"}, section' \in {"data", "name"}
  PROVE  /\ Prefix' /\ CodeKept' /\ TypesKept' /\ LinksKept'
         /\ FrontKept' /\ NamesKept' /\ ImportsKept'
<1>1. Prefix' /\ CodeKept' /\ TypesKept' /\ LinksKept'
  BY StillKept DEF AsWritten
<1>2. FrontKept' /\ NamesKept'
  BY DEF AsWritten, FrontKept, NamesKept, Unopened, Late
<1>3. ImportsKept'
  BY DEF AsWritten, ImportsKept, Early, Unopened
<1> QED BY <1>1, <1>2, <1>3

(* The descriptors of a module an encoder may write are valid.              *)
LEMMA CreateHeapTaken == Follows /\ CreateHeap => AsWritten'
<1> SUFFICES ASSUME Follows, CreateHeap PROVE AsWritten'
  OBVIOUS
<1>1. LoadInv /\ AsWritten /\ IsModule(mod) /\ dis \in Parsed /\ mod.wide \in BOOLEAN
  BY FollowsFacts
<1>2. section = "heap" /\ status = "ok" /\ section \notin Unopened
  BY DEF CreateHeap, At, Unopened
<1>3. /\ TypeCount = Len(mod.types) /\ EntryType = mod.etype /\ DataSize = mod.dsize
      /\ Len(mod.types) \in Nat /\ mod.etype \in Nat
  BY <1>2, HeaderMeans
<1>4. Len(dis.types) = TypeCount
  BY <1>1, <1>2 DEF LoadInv, TypesCounted, Unopened
<1>5. EntryType \in 0 .. Len(dis.types) - 1
  BY <1>1, <1>3, <1>4 DEF IsModule
<1>6. ASSUME DataSize # 0 PROVE dis.types[1].size = DataSize
  <2>1. 1 \in 1 .. Len(dis.types) /\ 1 \in 1 .. Len(mod.types)
    BY <1>3, <1>4, <1>5
  <2>2. mod.types[1].size = mod.dsize
    BY <1>1, <1>3, <1>6 DEF IsModule
  <2>3. mod.types[1] \in Types
    BY <1>1, <2>1, ModuleTypes, ElementOfSeq
  <2>4. dis.types[1] = [mod.types[1] EXCEPT !.size = Unsigned(@, mod.wide)]
    BY <1>1, <2>1 DEF AsWritten, TypesKept, TypeMeans
  <2>5. dis.types[1].size = Unsigned(mod.types[1].size, mod.wide)
    BY <2>3, <2>4 DEF Types
  <2>6. mod.dsize \in Count
    BY <1>1, ModuleTypes
  <2> QED BY <1>1, <1>3, <2>2, <2>5, <2>6, CountComesBack
<1>7. Move(offset, "data") /\ UNCHANGED <<left, inner, dis>>
  BY <1>5, <1>6 DEF CreateHeap, DescriptorValid
<1>8. /\ Prefix' /\ CodeKept' /\ TypesKept' /\ LinksKept'
      /\ FrontKept' /\ NamesKept' /\ ImportsKept'
  BY <1>1, <1>2, <1>7, KeptBehindTypes DEF Move
<1>9. Reads(offset, FromItem(mod, 0)) /\ 0 \in 0 .. Len(mod.items)
  <2>1. Len(mod.items) \in Nat
    BY <1>1, ModuleTypes, LenProperties
  <2> QED BY <1>1, <1>2, <2>1 DEF AsWritten, Standing, StandsIn
<1>10. Standing'
  <2>1. /\ section' = "data" /\ dis' = dis /\ offset' = offset /\ mod' = mod
    BY <1>7 DEF Move
  <2>2. \E k \in 0 .. Len(mod'.items) : RunsOn(mod', offset', FromItem(mod', k))
    BY <1>9, <2>1 DEF Reads
  <2> QED BY <1>1, <2>1, <2>2 DEF AsWritten, Standing, StandsIn, Reads
<1> QED BY <1>2, <1>7, <1>8, <1>10 DEF AsWritten, Move

(* The first byte of an item, and how many numbers follow it.               *)
LEMMA ItemCodeMeans ==
  ASSUME NEW i \in Items
  PROVE  /\ ItemCode(i) # 0 /\ ItemCode(i) \div 16 = i.typ
         /\ ItemCode(i) % 16 = IF i.count \in 1 .. 15 THEN i.count ELSE 0
         /\ i.count \in 1 .. 15 => ItemNumbers(i) = <<i.off>>
         /\ i.count \notin 1 .. 15 => ItemNumbers(i) = <<i.count, i.off>>
<1>1. i.typ \in DataTypes
  BY ItemPiece
<1>2. i.typ \in 1 .. 8
  BY <1>1 DEF DataTypes
<1>3. CASE i.count \in 1 .. 15
  BY <1>2, <1>3 DEF ItemCode, ItemNumbers
<1>4. CASE i.count \notin 1 .. 15
  BY <1>2, <1>4 DEF ItemCode, ItemNumbers
<1> QED BY <1>3, <1>4

(* The payload of an item that fits in the file has the bytes its type and  *)
(* count say.                                                               *)
LEMMA PayloadIs ==
  ASSUME file \in Octets, NEW typ \in DataTypes, NEW count \in Nat
  PROVE  /\ ItemBytes(typ, count) \in Nat /\ Payload(typ, count) \in Nat
         /\ (Payload(typ, count) <= Len(file) \/ ItemBytes(typ, count) <= Len(file)) =>
              Payload(typ, count) = ItemBytes(typ, count)
<1> DEFINE f == Len(file)
           n == IF count > f THEN f + 1 ELSE count
<1>1. f \in Nat /\ n \in Nat
  BY DEF Octets
<1>2. Payload(typ, count) = ItemBytes(typ, n)
  BY DEF Payload
<1>3. typ \in {1, 2, 3, 4, 5, 6, 7, 8}
  BY DEF DataTypes
<1>4. (n <= f \/ count <= f) => n = count
  BY <1>1
<1> HIDE DEF n, f
<1>5. \A c \in Nat : /\ ItemBytes(typ, c) \in Nat
                     /\ typ \in {1, 2, 3, 4, 8} => ItemBytes(typ, c) >= c
                     /\ typ \in {5, 6, 7} => ItemBytes(typ, c) = ItemBytes(typ, 0)
  <2> TAKE c \in Nat
  <2>1. 4 * c \in Nat /\ 8 * c \in Nat /\ 4 * c >= c /\ 8 * c >= c
    OBVIOUS
  <2> QED BY <1>3, <2>1 DEF ItemBytes
<1>6. CASE typ \in {5, 6, 7}
  BY <1>1, <1>2, <1>5, <1>6
<1>7. CASE typ \in {1, 2, 3, 4, 8}
  <2>1. ItemBytes(typ, n) >= n /\ ItemBytes(typ, count) >= count
        /\ ItemBytes(typ, n) \in Nat /\ ItemBytes(typ, count) \in Nat
    BY <1>1, <1>5, <1>7
  <2>2. (ItemBytes(typ, n) <= f \/ ItemBytes(typ, count) <= f) => n = count
    BY <1>1, <1>4, <2>1
  <2> QED BY <1>2, <2>1, <2>2 DEF f
<1> QED BY <1>3, <1>6, <1>7

(* Words in a piece of the file.                                            *)
LEMMA WordInside ==
  ASSUME NEW at \in Nat, NEW a \in Octets, NEW p \in Nat, p + 4 <= Len(a),
         NEW q, q = at + p, \A k \in 1 .. Len(a) : file[at + k] = a[k]
  PROVE  ParseWord(file, q) = ParseWord(a, p)
<1>1. Len(a) \in Nat
  BY DEF Octets
<1>2. /\ p + 1 \in 1 .. Len(a) /\ p + 2 \in 1 .. Len(a) /\ p + 3 \in 1 .. Len(a) /\ p + 4 \in 1 .. Len(a)
      /\ at + (p + 1) = q + 1 /\ at + (p + 2) = q + 2
      /\ at + (p + 3) = q + 3 /\ at + (p + 4) = q + 4
  BY <1>1
<1>3. /\ file[q + 1] = a[p + 1] /\ file[q + 2] = a[p + 2]
      /\ file[q + 3] = a[p + 3] /\ file[q + 4] = a[p + 4]
  <2>1. file[at + (p + 1)] = a[p + 1] /\ file[at + (p + 2)] = a[p + 2]
    BY <1>2
  <2>2. file[at + (p + 3)] = a[p + 3] /\ file[at + (p + 4)] = a[p + 4]
    BY <1>2
  <2> QED BY <1>2, <2>1, <2>2
<1> QED BY SMT, <1>3 DEF ParseWord

(* The first word of a payload, and the second.                             *)
LEMMA FirstWords ==
  ASSUME NEW at \in Nat, NEW a \in Octets, \A k \in 1 .. Len(a) : file[at + k] = a[k]
  PROVE  /\ Len(a) >= 4 => ParseWord(file, at) = ParseWord(a, 0)
         /\ Len(a) >= 8 => ParseWord(file, at + 4) = ParseWord(a, 4)
<1>1. Len(a) \in Nat
  BY DEF Octets
<1>2. ASSUME Len(a) >= 4 PROVE ParseWord(file, at) = ParseWord(a, 0)
  <2> DEFINE p == 0
  <2>1. p \in Nat /\ p + 4 <= Len(a) /\ at = at + p
    BY <1>1, <1>2
  <2> HIDE DEF p
  <2>2. ParseWord(file, at) = ParseWord(a, p)
    BY <2>1, WordInside
  <2> QED BY <2>2 DEF p
<1>3. ASSUME Len(a) >= 8 PROVE ParseWord(file, at + 4) = ParseWord(a, 4)
  <2> DEFINE p == 4
             q == at + 4
  <2>1. p \in Nat /\ p + 4 <= Len(a) /\ q = at + p
    BY <1>1, <1>3
  <2> HIDE DEF p, q
  <2>2. ParseWord(file, q) = ParseWord(a, p)
    BY <2>1, WordInside
  <2> QED BY <2>2 DEF p, q
<1> QED BY <1>2, <1>3

(* Where the parser stands in the data section.                             *)
AtItem(k) == k \in 0 .. Len(mod.items) /\ Reads(offset, FromItem(mod, k))

(* In the data section the cursor is at an item, or behind the last.        *)
LEMMA SomeItem ==
  ASSUME Follows, At("data")
  PROVE  \E k : AtItem(k)
<1>1. AsWritten /\ section = "data"
  BY FollowsFacts DEF At
<1> QED BY <1>1 DEF AsWritten, Standing, AtItem

(* Behind the last item stands a zero byte, and then the name.              *)
LEMMA NoItem ==
  ASSUME Follows, At("data"), AtItem(Len(mod.items)), Has(offset, 1) \/ Whole
  PROVE  Has(offset, 1) /\ Byte(offset) = 0 /\ Reads(offset + 1, FromName(mod))
<1>1. Prefix /\ file \in Octets /\ offset \in Nat /\ IsModule(mod)
  BY FollowsFacts
<1> DEFINE z == <<0>>
           r == FromName(mod)
<1>2. z \in Octets /\ Len(z) = 1 /\ z[1] = 0 /\ 1 \in 1 .. 1
  BY OneOctet DEF Octet
<1>3. r \in Octets
  BY <1>1, RestsType
<1>4. Reads(offset, z \o r)
  BY <1>1, NextPieces DEF AtItem
<1> HIDE DEF z, r
<1>5. Has(offset, Len(z)) \/ Whole
  BY <1>2
<1>6. /\ Has(offset, Len(z)) /\ (\A k \in 1 .. Len(z) : file[offset + k] = z[k])
      /\ Reads(offset + Len(z), r)
  BY <1>1, <1>2, <1>3, <1>4, <1>5, BytesRead
<1> QED BY <1>2, <1>6 DEF Byte, r

(* An item: its first byte is not zero, and its numbers and its payload     *)
(* follow.                                                                  *)
LEMMA ItemFront ==
  ASSUME Follows, At("data"), NEW k \in Nat, AtItem(k), k < Len(mod.items),
         NEW i, i = mod.items[k + 1]
  PROVE  LET r == i.payload \o FromItem(mod, k + 1) IN
         /\ i \in Items /\ ItemFits(i, mod.types) /\ i.payload \in Octets /\ r \in Octets
         /\ FromItem(mod, k + 1) \in Octets /\ k + 1 \in 0 .. Len(mod.items)
         /\ Loads => Whole /\ Len(r) >= 3
         /\ Has(offset, 1) \/ Whole =>
              /\ Has(offset, 1) /\ Byte(offset) = ItemCode(i)
              /\ Reads(offset + 1, Ops(ItemNumbers(i), mod.wide) \o r)
<1> DEFINE w == mod.wide
           s == FromItem(mod, k + 1)
           p == i.payload
           c == <<ItemCode(i)>>
           b == Ops(ItemNumbers(i), w)
<1>1. /\ Prefix /\ file \in Octets /\ offset \in Nat /\ IsModule(mod) /\ w \in BOOLEAN
      /\ mod.flag # HASEXCEPT
  BY FollowsFacts
<1>2. mod.items \in Seq(Items)
  BY <1>1, ModuleTypes
<1>3. Len(mod.items) \in Nat /\ DOMAIN mod.items = 1 .. Len(mod.items)
  BY <1>2, LenProperties
<1>4. k \in 0 .. Len(mod.items) - 1 /\ k + 1 \in 1 .. Len(mod.items) /\ k + 1 \in 0 .. Len(mod.items)
  BY <1>3
<1>5. i \in Items /\ ItemFits(i, mod.types)
  BY <1>1, <1>2, <1>3, <1>4, ElementOfSeq DEF IsModule
<1>6. /\ p \in Octets /\ b \in Octets /\ ItemCode(i) \in Octet
      /\ EncodeItem(i, w) = (c \o b) \o p
  BY <1>1, <1>5, ItemPiece
<1>7. c \in Octets /\ Len(c) = 1 /\ c[1] = ItemCode(i) /\ 1 \in 1 .. 1
  BY <1>6, OneOctet
<1>8. s \in Octets
  BY <1>1, <1>4, RestsType
<1>9. Reads(offset, EncodeItem(i, w) \o s)
  BY <1>1, <1>4, NextPieces DEF AtItem
<1>10. ASSUME Loads PROVE Whole /\ Len(s) >= 3
  <2>1. Len(s) >= 4 /\ Len(s) \in Nat
    BY <1>1, <1>4, <1>8, <1>10, LongEnough DEF Loads, Octets
  <2> QED BY <1>10, <2>1 DEF Loads
<1> HIDE DEF s, p, c, b, w
<1>11. p \o s \in Octets /\ (Loads => Whole /\ Len(p \o s) >= 3)
  <2>1. p \o s \in Octets /\ Len(p \o s) >= Len(s) /\ Len(p \o s) \in Nat /\ Len(s) \in Nat
    BY <1>6, <1>8, LongerThan
  <2> QED BY <1>10, <2>1
<1>12. Reads(offset, c \o (b \o (p \o s))) /\ b \o (p \o s) \in Octets
  <2>1. c \o b \in Octets /\ b \o (p \o s) \in Octets
    BY <1>6, <1>7, <1>11, LongerThan
  <2>2. ((c \o b) \o p) \o s = (c \o b) \o (p \o s)
    BY <1>6, <1>8, <2>1, OctetsAssociate
  <2>3. (c \o b) \o (p \o s) = c \o (b \o (p \o s))
    BY <1>6, <1>7, <1>11, OctetsAssociate
  <2> QED BY <1>6, <1>9, <2>1, <2>2, <2>3
<1>13. ASSUME Has(offset, 1) \/ Whole
       PROVE  Has(offset, 1) /\ Byte(offset) = ItemCode(i) /\ Reads(offset + 1, b \o (p \o s))
  <2> DEFINE x == b \o (p \o s)
  <2>1. x \in Octets /\ Reads(offset, c \o x)
    BY <1>12
  <2> HIDE DEF x
  <2>2. Has(offset, Len(c)) \/ Whole
    BY <1>7, <1>13
  <2>3. /\ Has(offset, Len(c)) /\ (\A n \in 1 .. Len(c) : file[offset + n] = c[n])
        /\ Reads(offset + Len(c), x)
    BY <1>1, <1>7, <2>1, <2>2, BytesRead
  <2> QED BY <1>7, <2>3 DEF Byte, x
<1> QED BY <1>4, <1>5, <1>6, <1>8, <1>11, <1>13 DEF p, s, b, w

(* At an item, its code, its operands and its payload are read as written.  *)
LEMMA ItemOperandsRead ==
  ASSUME Follows, At("data"), NEW k \in Nat, AtItem(k), k < Len(mod.items),
         NEW i, i = mod.items[k + 1], (Has(offset, 1) /\ ItemOperands.ok) \/ Loads
  PROVE  /\ Has(offset, 1) /\ Byte(offset) = ItemCode(i)
         /\ ItemOperands.ok /\ ItemOperands.at \in Nat
         /\ ItemOperands.val = AllUnsigned(ItemNumbers(i), mod.wide)
         /\ DataCount(Byte(offset), ItemOperands) = i.count /\ Byte(offset) \div 16 = i.typ
         /\ Reads(ItemOperands.at, i.payload \o FromItem(mod, k + 1))
<1> DEFINE r == i.payload \o FromItem(mod, k + 1)
           w == mod.wide
           vs == ItemNumbers(i)
           n == Len(vs)
<1>1. /\ Prefix /\ file \in Octets /\ offset \in Nat /\ offset + 1 \in Nat /\ w \in BOOLEAN
  BY FollowsFacts
<1>2. /\ i \in Items /\ r \in Octets /\ (Loads => Whole /\ Len(r) >= 3)
      /\ Has(offset, 1) /\ Byte(offset) = ItemCode(i)
      /\ Reads(offset + 1, Ops(vs, w) \o r)
  BY ItemFront DEF Loads
<1>3. vs \in Seq(Number) /\ i.count \in Count
  BY <1>1, <1>2, ItemPiece
<1>4. /\ ItemCode(i) # 0 /\ ItemCode(i) \div 16 = i.typ
      /\ ItemCode(i) % 16 = (IF i.count \in 1 .. 15 THEN i.count ELSE 0)
      /\ i.count \in 1 .. 15 => vs = <<i.off>>
      /\ i.count \notin 1 .. 15 => vs = <<i.count, i.off>>
  BY <1>2, ItemCodeMeans
<1>5. /\ i.count \in 1 .. 15 => n = 1 /\ ItemCode(i) % 16 # 0
      /\ i.count \notin 1 .. 15 => n = 2 /\ vs[1] = i.count /\ ItemCode(i) % 16 = 0
  <2> DEFINE low == ItemCode(i) % 16
             us == vs
  <2>1. /\ low = (IF i.count \in 1 .. 15 THEN i.count ELSE 0)
        /\ i.count \in 1 .. 15 => us = <<i.off>>
        /\ i.count \notin 1 .. 15 => us = <<i.count, i.off>>
    BY <1>4
  <2> HIDE DEF low, us
  <2>2. ASSUME i.count \in 1 .. 15
        PROVE  Len(us) = 1 /\ low # 0
    <3>1. us = <<i.off>> /\ low = i.count
      BY <2>1, <2>2, Zenon
    <3>2. \A c \in 1 .. 15 : c # 0
      OBVIOUS
    <3>3. low # 0
      BY <2>2, <3>1, <3>2, Zenon
    <3> QED BY <3>1, <3>3
  <2>3. i.count \notin 1 .. 15 => Len(us) = 2 /\ us[1] = i.count /\ low = 0
    BY <2>1
  <2> QED BY <2>2, <2>3 DEF low, us
<1> HIDE DEF r, vs, w, n
<1>6. ItemOperands = Operands(offset + 1, n)
  BY <1>2, <1>5 DEF ItemOperands
<1>7. /\ ItemOperands.ok /\ ItemOperands.at \in Nat
      /\ ItemOperands.val = AllUnsigned(vs, w) /\ Reads(ItemOperands.at, r)
  <2>1. Operands(offset + 1, n).ok \/ (Whole /\ Len(r) >= 3)
    BY <1>2, <1>6
  <2>2. n = Len(vs)
    BY DEF n
  <2>3. /\ Operands(offset + 1, n).ok /\ Operands(offset + 1, n).at \in Nat
        /\ Operands(offset + 1, n).val = AllUnsigned(vs, w) /\ Reads(Operands(offset + 1, n).at, r)
    BY <1>1, <1>2, <1>3, <2>1, <2>2, OpsRead
  <2> QED BY <1>6, <2>3
<1>8. DataCount(ItemCode(i), ItemOperands) = i.count
  <2>1. CASE i.count \in 1 .. 15
    BY <1>4, <1>5, <2>1 DEF DataCount
  <2>2. CASE i.count \notin 1 .. 15
    <3>1. 1 \in 1 .. n
      BY <1>5, <2>2
    <3>2. AllUnsigned(vs, w)[1] = Unsigned(vs[1], w)
      BY <1>1, <1>3, <3>1, UnsignedType DEF n
    <3>3. Unsigned(i.count, w) = i.count
      BY <1>1, <1>3, CountComesBack
    <3> QED BY <1>5, <1>7, <2>2, <3>2, <3>3 DEF DataCount
  <2> QED BY <2>1, <2>2
<1> QED BY <1>2, <1>4, <1>7, <1>8 DEF r, vs, w

(* An item of the encoder is valid, and the cursor moves to the next.       *)
LEMMA ItemRead ==
  ASSUME Follows, At("data"), NEW k \in Nat, AtItem(k), k < Len(mod.items),
         (Has(offset, 1) /\ ItemValid(Byte(offset), ItemOperands)) \/ Loads
  PROVE  /\ Has(offset, 1) /\ ItemValid(Byte(offset), ItemOperands) /\ k + 1 \in 0 .. Len(mod.items)
         /\ Reads(AfterItem(Byte(offset), ItemOperands), FromItem(mod, k + 1))
         /\ SubSeq(file, ItemOperands.at + 1, AfterItem(Byte(offset), ItemOperands))
              = mod.items[k + 1].payload
<1> DEFINE i == mod.items[k + 1]
           code == Byte(offset)
           o == ItemOperands
           p == i.payload
           r == FromItem(mod, k + 1)
           n == ItemBytes(i.typ, i.count)
           pay == Payload(i.typ, i.count)
<1>1. LoadInv /\ Prefix /\ file \in Octets /\ Len(file) \in Nat /\ IsModule(mod)
  BY FollowsFacts
<1>2. (Has(offset, 1) /\ o.ok) \/ Loads
  BY DEF ItemValid
<1>3. /\ Has(offset, 1) /\ o.ok /\ o.at \in Nat
      /\ DataCount(code, o) = i.count /\ code \div 16 = i.typ
      /\ Reads(o.at, p \o r)
  BY <1>2, ItemOperandsRead
<1>4. /\ i \in Items /\ ItemFits(i, mod.types) /\ p \in Octets /\ r \in Octets
      /\ k + 1 \in 0 .. Len(mod.items)
  BY ItemFront
<1>5. i.typ \in DataTypes /\ i.count \in Nat /\ Len(p) = n
  <2>1. i.typ \in DataTypes /\ i.count \in Count
    BY <1>1, <1>4, ItemPiece
  <2>2. i.count \in Nat
    BY <2>1, NumberInt
  <2> QED BY <1>4, <2>1, <2>2 DEF ItemFits
<1>6. n \in Nat /\ pay \in Nat /\ (pay <= Len(file) \/ n <= Len(file) => pay = n)
  BY <1>1, <1>5, PayloadIs
<1>7. ItemValid(code, o) => Has(o.at, pay)
  BY <1>3 DEF ItemValid
<1>8. i.typ = 5 => /\ ParseWord(p, 0) \in 0 .. Len(mod.types) - 1 /\ ParseWord(p, 4) >= 0
  BY <1>4 DEF ItemFits
<1>9. i.typ = 6 => ParseWord(p, 0) >= 0
  BY <1>4 DEF ItemFits
<1>10. (i.typ = 5 => n = 8) /\ (i.typ = 6 => n = 4)
  BY DEF ItemBytes
<1>11. Len(dis.types) = Len(mod.types)
  <2>1. section = "data" /\ section \notin Unopened
    BY DEF At, Unopened
  <2>2. TypeCount = Len(mod.types)
    BY <2>1, HeaderMeans
  <2> QED BY <1>1, <2>1, <2>2 DEF LoadInv, TypesCounted, Unopened
<1> HIDE DEF i, code, o, p, r, n, pay
<1>12. Has(o.at, Len(p)) \/ Whole
  <2>1. CASE ItemValid(code, o)
    <3>1. o.at + pay <= Len(file)
      BY <1>7, <2>1 DEF Has
    <3>2. pay <= Len(file)
      BY <1>1, <1>3, <1>6, <3>1
    <3> QED BY <1>5, <1>6, <3>1, <3>2 DEF Has
  <2>2. CASE Loads
    BY <2>2 DEF Loads
  <2> QED BY <2>1, <2>2 DEF code, o
<1>13. /\ Has(o.at, Len(p)) /\ (\A j \in 1 .. Len(p) : file[o.at + j] = p[j])
       /\ Reads(o.at + Len(p), r)
  BY <1>1, <1>3, <1>4, <1>12, BytesRead
<1>14. pay = Len(p) /\ Has(o.at, pay)
  <2>1. n <= Len(file)
    BY <1>1, <1>3, <1>5, <1>6, <1>13 DEF Has
  <2> QED BY <1>5, <1>6, <1>13, <2>1
<1>15. OperandsInRange(i.typ, o.at)
  <2>1. /\ Len(p) >= 4 => ParseWord(file, o.at) = ParseWord(p, 0)
        /\ Len(p) >= 8 => ParseWord(file, o.at + 4) = ParseWord(p, 4)
    BY <1>3, <1>4, <1>13, FirstWords
  <2>2. ASSUME i.typ = 5
        PROVE  ParseWord(file, o.at) \in 0 .. Len(dis.types) - 1 /\ ParseWord(file, o.at + 4) >= 0
    <3>1. Len(p) >= 4 /\ Len(p) >= 8
      BY <1>5, <1>10, <2>2
    <3> QED BY <1>8, <1>11, <2>1, <2>2, <3>1
  <2>3. ASSUME i.typ = 6 PROVE ParseWord(file, o.at) >= 0
    <3>1. Len(p) >= 4
      BY <1>5, <1>10, <2>3
    <3> QED BY <1>9, <2>1, <2>3, <3>1
  <2> QED BY <2>2, <2>3 DEF OperandsInRange
<1>16. ItemValid(code, o)
  BY <1>3, <1>5, <1>14, <1>15 DEF ItemValid, pay
<1>17. AfterItem(code, o) = o.at + Len(p)
  BY <1>3, <1>14 DEF AfterItem, pay
<1>18. SubSeq(file, o.at + 1, o.at + Len(p)) = p
  <2>1. o.at + Len(p) <= Len(file)
    BY <1>13 DEF Has
  <2> DEFINE at == o.at
             q == at + Len(p)
  <2>2. at \in Nat /\ q <= Len(file) /\ q = at + Len(p) /\ \A j \in 1 .. Len(p) : file[at + j] = p[j]
    BY <1>3, <1>13, <2>1
  <2>3. file \in Seq(Int) /\ p \in Seq(Int)
    <3>1. ASSUME NEW s \in Octets PROVE s \in Seq(Int)
      <4>1. Len(s) \in Nat /\ s \in [1 .. Len(s) -> Octet]
        BY LenProperties DEF Octets
      <4>2. s = [j \in 1 .. Len(s) |-> s[j]] /\ \A j \in 1 .. Len(s) : s[j] \in Int
        BY <4>1, OctetInt
      <4> DEFINE m == Len(s)
      <4> HIDE DEF m
      <4>3. [j \in 1 .. m |-> s[j]] \in Seq(Int)
        BY <4>1, <4>2 DEF m
      <4> QED BY <4>2, <4>3 DEF m
    <3> QED BY <1>1, <1>4, <3>1
  <2> HIDE DEF at, q
  <2>4. SubSeq(file, at + 1, q) = p
    BY <2>2, <2>3, SliceIs
  <2> QED BY <2>4 DEF at, q
<1> QED BY <1>3, <1>4, <1>13, <1>16, <1>17, <1>18 DEF code, o, r, p, i

(* An item is passed, to the byte.                                          *)
LEMMA ReadItemTaken == Follows /\ ReadItem => AsWritten'
<1> SUFFICES ASSUME Follows, ReadItem PROVE AsWritten'
  OBVIOUS
<1> DEFINE good == Has(offset, 1) /\ ItemValid(Byte(offset), ItemOperands)
<1>1. /\ At("data") /\ (Has(offset, 1) => Byte(offset) # 0)
      /\ IF good
         THEN Move(AfterItem(Byte(offset), ItemOperands), "data") /\ UNCHANGED <<left, inner, dis>>
         ELSE Panic
  BY DEF ReadItem
<1>2. AsWritten /\ IsModule(mod)
  BY FollowsFacts
<1>3. PICK k : AtItem(k)
  BY <1>1, SomeItem
<1>4. Len(mod.items) \in Nat /\ k \in 0 .. Len(mod.items)
  BY <1>2, <1>3, ModuleTypes, LenProperties DEF AtItem
<1>5. CASE good
  <2>1. k < Len(mod.items)
    <3>1. k = Len(mod.items) => Byte(offset) = 0
      BY <1>1, <1>3, <1>5, NoItem
    <3> QED BY <1>1, <1>4, <1>5, <3>1
  <2>2. k \in Nat /\ k + 1 \in 0 .. Len(mod.items)
        /\ Reads(AfterItem(Byte(offset), ItemOperands), FromItem(mod, k + 1))
    BY <1>1, <1>3, <1>4, <1>5, <2>1, ItemRead
  <2> DEFINE at == AfterItem(Byte(offset), ItemOperands)
  <2> HIDE DEF at
  <2>3. /\ section = "data" /\ status = "ok" /\ section' = "data" /\ offset' = at
        /\ UNCHANGED <<mod, file, damage, status, dis>>
    BY <1>1, <1>5 DEF At, Move, at
  <2>4. /\ Prefix' /\ CodeKept' /\ TypesKept' /\ LinksKept'
        /\ FrontKept' /\ NamesKept' /\ ImportsKept'
    BY <1>2, <2>3, KeptBehindTypes
  <2>5. \E n \in 0 .. Len(mod'.items) : RunsOn(mod', offset', FromItem(mod', n))
    BY <2>2, <2>3 DEF Reads, at
  <2>6. Standing'
    BY <1>2, <2>3, <2>5 DEF AsWritten, Standing, StandsIn, Reads
  <2> QED BY <2>3, <2>4, <2>6 DEF AsWritten
<1>6. CASE ~good
  <2>1. ~Loads
    <3> SUFFICES ASSUME Loads PROVE FALSE
      OBVIOUS
    <3>1. CASE k = Len(mod.items)
      BY <1>1, <1>3, <3>1, NoItem DEF Loads
    <3>2. CASE k < Len(mod.items)
      BY <1>1, <1>3, <1>4, <1>6, <3>2, ItemRead
    <3> QED BY <1>4, <3>1, <3>2
  <2> QED BY <1>1, <1>2, <1>6, <2>1, StopTaken DEF Panic
<1> QED BY <1>5, <1>6

(* Only the byte behind the last item is zero.                              *)
LEMMA EndDataTaken == Follows /\ EndData => AsWritten'
<1> SUFFICES ASSUME Follows, EndData PROVE AsWritten'
  OBVIOUS
<1>1. At("data") /\ Has(offset, 1) /\ Byte(offset) = 0 /\ Move(offset + 1, "name") /\ UNCHANGED dis
  BY DEF EndData
<1>2. AsWritten /\ IsModule(mod)
  BY FollowsFacts
<1>3. PICK k : AtItem(k)
  BY <1>1, SomeItem
<1>4. Len(mod.items) \in Nat /\ k \in 0 .. Len(mod.items)
  BY <1>2, <1>3, ModuleTypes, LenProperties DEF AtItem
<1>5. k = Len(mod.items)
  <2> SUFFICES ASSUME k < Len(mod.items) PROVE FALSE
    BY <1>4
  <2> DEFINE i == mod.items[k + 1]
  <2>1. k \in Nat /\ k < Len(mod.items) /\ AtItem(k) /\ i = mod.items[k + 1]
    BY <1>3, <1>4
  <2> HIDE DEF i
  <2>1a. i \in Items /\ Byte(offset) = ItemCode(i)
    BY <1>1, <2>1, ItemFront
  <2>2. ItemCode(i) # 0
    BY <2>1a, ItemCodeMeans
  <2> QED BY <1>1, <2>1a, <2>2
<1>6. Reads(offset + 1, FromName(mod))
  BY <1>1, <1>3, <1>5, NoItem
<1>7. /\ section = "data" /\ status = "ok" /\ section' = "name" /\ offset' = offset + 1
      /\ UNCHANGED <<mod, file, damage, status, dis>>
  BY <1>1 DEF At, Move
<1>8. /\ Prefix' /\ CodeKept' /\ TypesKept' /\ LinksKept'
      /\ FrontKept' /\ NamesKept' /\ ImportsKept'
  BY <1>2, <1>7, KeptBehindTypes
<1>9. Standing'
  BY <1>2, <1>6, <1>7 DEF AsWritten, Standing, StandsIn, Reads
<1> QED BY <1>7, <1>8, <1>9 DEF AsWritten

(* A heap that stops the process leaves what was taken.                     *)
LEMMA HeapStopsTaken == Follows /\ HeapStops => AsWritten'
<1> SUFFICES ASSUME Follows, HeapStops PROVE AsWritten'
  OBVIOUS
<1>1. AsWritten
  BY FollowsFacts
<1> QED BY <1>1, StopTaken DEF HeapStops

-----------------------------------------------------------------------------
(* Name, exports and imports.                                               *)

(* The name of the module comes back.                                       *)
LEMMA ReadNameTaken == Follows /\ ReadName => AsWritten'
<1> SUFFICES ASSUME Follows, ReadName PROVE AsWritten'
  OBVIOUS
<1> DEFINE c == CString(offset)
<1>1. /\ At("name")
      /\ IF c.ok THEN dis' = [dis EXCEPT !.name = c.str] /\ Move(c.at, "links") ELSE Panic
  BY DEF ReadName
<1>2. /\ LoadInv /\ AsWritten /\ Prefix /\ IsModule(mod) /\ dis \in Parsed /\ file \in Octets /\ offset \in Nat
  BY FollowsFacts
<1>3. section = "name" /\ status = "ok"
  BY <1>1 DEF At
<1>4. ASSUME c.ok \/ Whole
      PROVE  c.ok /\ c.str = mod.name /\ Reads(c.at, FromLink(mod, 0))
  <2> DEFINE r == FromLink(mod, 0)
             s == mod.name
  <2>1. s \in Names
    BY <1>2, ModuleTypes
  <2>2. r \in Octets
    <3>1. 0 \in 0 .. Len(mod.links)
      BY <1>2, ModuleTypes, LenProperties
    <3> QED BY <1>2, <3>1, RestsType
  <2>3. Reads(offset, Name(s) \o r)
    BY <1>2, <1>3 DEF AsWritten, Standing, StandsIn, FromName
  <2> HIDE DEF r, s
  <2>4. c.ok /\ c.str = s /\ Reads(c.at, r)
    BY <1>2, <1>4, <2>1, <2>2, <2>3, NameRead
  <2> QED BY <2>4 DEF r, s
<1> HIDE DEF c
<1>5. CASE c.ok
  <2>1. dis' = [dis EXCEPT !.name = c.str] /\ Move(c.at, "links")
    BY <1>1, <1>5
  <2>2. /\ dis'.name = mod.name /\ dis'.signature = dis.signature /\ dis'.header = dis.header
        /\ dis'.code = dis.code /\ dis'.types = dis.types /\ dis'.links = dis.links
        /\ dis'.imports = dis.imports /\ dis'.handler = dis.handler
    BY <1>2, <1>4, <1>5, <2>1, SetName
  <2>3. /\ section' = "links" /\ offset' = c.at /\ UNCHANGED <<mod, file, damage, status>>
    BY <2>1 DEF Move
  <2>4. Prefix' /\ CodeKept' /\ TypesKept' /\ LinksKept'
    BY <1>2, <2>2, <2>3, StillKept DEF AsWritten
  <2>5. FrontKept' /\ NamesKept' /\ ImportsKept'
    BY <1>2, <1>3, <2>2, <2>3 DEF AsWritten, FrontKept, NamesKept, ImportsKept, Unopened, Late, Early
  <2>6. Len(dis.links) = 0
    BY <1>2, <1>3 DEF LoadInv, LinksCounted
  <2>7. Standing'
    BY <1>2, <1>3, <1>4, <1>5, <2>2, <2>3, <2>6 DEF AsWritten, Standing, StandsIn, Reads
  <2> QED BY <1>3, <2>3, <2>4, <2>5, <2>7 DEF AsWritten
<1>6. CASE ~c.ok
  BY <1>1, <1>2, <1>4, <1>6, StopTaken DEF Panic, Loads
<1> QED BY <1>5, <1>6

(* A link.                                                                  *)
LEMMA LinkRead ==
  ASSUME Follows, At("links"), left > 0
  PROVE  LET o == Operands(offset, 2)
             c == CString(o.at + 4)
             k == Len(dis.links) + 1
             good == /\ o.ok /\ o.val[2] \in 0 .. Len(dis.types) - 1
                     /\ Has(o.at, 4) /\ c.ok
         IN good \/ Loads =>
              /\ good
              /\ [pc |-> o.val[1], desc |-> o.val[2], sig |-> ParseWord(file, o.at), fn |-> c.str]
                   = LinkMeans(k)
              /\ Reads(c.at, FromLink(mod, k))
<1> DEFINE j == Len(dis.links)
           l == mod.links[j + 1]
           w == mod.wide
           r == FromLink(mod, j + 1)
           vs == <<l.pc, l.desc>>
           o == Operands(offset, 2)
           c == CString(o.at + 4)
           a == EncodeWord(l.sig)
           s == Name(l.fn)
           b == Ops(vs, w)
           good == /\ o.ok /\ o.val[2] \in 0 .. Len(dis.types) - 1
                   /\ Has(o.at, 4) /\ c.ok
<1>1. /\ LoadInv /\ AsWritten /\ Prefix /\ IsModule(mod) /\ mod.flag # HASEXCEPT /\ file \in Octets
      /\ offset \in Nat /\ w \in BOOLEAN /\ dis \in Parsed /\ left \in Nat
  BY FollowsFacts
<1>2. section = "links" /\ section \notin Unopened
  BY DEF At, Unopened
<1>3. j \in Nat /\ j + left = Len(mod.links) /\ Len(mod.links) \in Nat
      /\ Len(dis.types) = Len(mod.types)
  <2>1. j \in Nat
    BY <1>1, ParsedFields, LenProperties
  <2>2. j + left = LinkCount /\ Len(dis.types) = TypeCount
    BY <1>1, <1>2 DEF LoadInv, LinksCounted, TypesCounted
  <2> QED BY <1>2, <2>1, <2>2, HeaderMeans
<1>4. j \in 0 .. Len(mod.links) - 1 /\ j + 1 \in 1 .. Len(mod.links) /\ j + 1 \in 0 .. Len(mod.links)
  BY <1>1, <1>3
<1>5. l \in Links /\ l.desc < Len(mod.types)
  <2>1. mod.links \in Seq(Links)
    BY <1>1, ModuleTypes
  <2>2. DOMAIN mod.links = 1 .. Len(mod.links)
    BY <2>1, LenProperties
  <2> QED BY <1>1, <1>4, <2>1, <2>2, ElementOfSeq DEF IsModule
<1>6. /\ l.pc \in Number /\ l.desc \in Count /\ l.sig \in Word /\ l.fn \in Names
      /\ vs \in Seq(Number) /\ b \in Octets /\ a \in Octets /\ s \in Octets
      /\ EncodeLink(l, w) = (b \o a) \o s
  BY <1>1, <1>5, LinkPiece
<1>7. r \in Octets
  BY <1>1, <1>4, RestsType
<1>8. Reads(offset, EncodeLink(l, w) \o r)
  <2>1. FromLink(mod, j) = EncodeLink(l, w) \o r
    BY <1>1, <1>4, NextPieces
  <2>2. Reads(offset, FromLink(mod, j))
    BY <1>1, <1>2 DEF AsWritten, Standing, StandsIn
  <2> QED BY <2>1, <2>2
<1>9. Len(vs) = 2 /\ vs[1] = l.pc /\ vs[2] = l.desc
  OBVIOUS
<1>10. Len(a) = 4
  BY <1>6, WordInt, EncodeWordType
<1> HIDE DEF j, r, vs, b, a, s, w
<1>11. /\ s \o r \in Octets /\ a \o (s \o r) \in Octets /\ Len(a \o (s \o r)) >= 4
       /\ Reads(offset, b \o (a \o (s \o r)))
  <2>1. s \o r \in Octets /\ Len(s \o r) \in Nat /\ b \o a \in Octets
    BY <1>6, <1>7, LongerThan
  <2>2. a \o (s \o r) \in Octets /\ Len(a \o (s \o r)) = 4 + Len(s \o r)
    <3> DEFINE y == s \o r
    <3>1. a \in Octets /\ y \in Octets
      BY <1>6, <2>1
    <3> HIDE DEF y
    <3>2. a \o y \in Octets /\ Len(a \o y) = Len(a) + Len(y)
      BY <3>1, OctetsConcat
    <3> QED BY <1>10, <3>2 DEF y
  <2>3. ((b \o a) \o s) \o r = (b \o a) \o (s \o r)
    <3> DEFINE y == b \o a
    <3>1. y \in Octets
      BY <2>1
    <3> HIDE DEF y
    <3>2. (y \o s) \o r = y \o (s \o r)
      BY <1>6, <1>7, <3>1, OctetsAssociate
    <3> QED BY <3>2 DEF y
  <2>4. (b \o a) \o (s \o r) = b \o (a \o (s \o r))
    <3> DEFINE y == s \o r
    <3>1. y \in Octets
      BY <2>1
    <3> HIDE DEF y
    <3>2. (b \o a) \o y = b \o (a \o y)
      BY <1>6, <3>1, OctetsAssociate
    <3> QED BY <3>2 DEF y
  <2> QED BY <1>6, <1>8, <2>1, <2>2, <2>3, <2>4
<1>12. ASSUME o.ok \/ Loads
       PROVE  /\ o.ok /\ o.at \in Nat /\ o.val[1] = Unsigned(l.pc, w) /\ o.val[2] = l.desc
              /\ Reads(o.at, a \o (s \o r))
  <2> DEFINE x == a \o (s \o r)
             n == Len(vs)
  <2>1. x \in Octets /\ Len(x) >= 3 /\ Reads(offset, Ops(vs, w) \o x) /\ n = 2 /\ n = Len(vs)
    <3>1. Len(x) \in Nat
      BY <1>11 DEF Octets
    <3> QED BY <1>9, <1>11, <3>1 DEF b
  <2> HIDE DEF x, n
  <2>2. Operands(offset, n).ok \/ (Whole /\ Len(x) >= 3)
    BY <1>12, <2>1 DEF Loads
  <2>3. /\ file \in Octets /\ Prefix /\ offset \in Nat /\ vs \in Seq(Number) /\ w \in BOOLEAN
        /\ n = Len(vs) /\ x \in Octets /\ Reads(offset, Ops(vs, w) \o x)
    BY <1>1, <1>6, <2>1 DEF w
  <2>4. /\ Operands(offset, n).ok /\ Operands(offset, n).at \in Nat
        /\ Operands(offset, n).val = AllUnsigned(vs, w) /\ Reads(Operands(offset, n).at, x)
    BY <2>2, <2>3, OpsRead
  <2>5. /\ o.ok /\ o.at \in Nat /\ o.val = AllUnsigned(vs, w) /\ Reads(o.at, x)
    BY <2>1, <2>4
  <2>6. \A k \in 1 .. n : AllUnsigned(vs, w)[k] = Unsigned(vs[k], w)
    BY <2>3, UnsignedType
  <2>7. 1 \in 1 .. n /\ 2 \in 1 .. n
    BY <2>1
  <2>8. AllUnsigned(vs, w)[1] = Unsigned(vs[1], w) /\ AllUnsigned(vs, w)[2] = Unsigned(vs[2], w)
    BY <2>6, <2>7
  <2>9. Unsigned(l.desc, w) = l.desc
    BY <1>6, <2>3, CountComesBack
  <2> QED BY <1>9, <2>5, <2>8, <2>9 DEF x
<1>13. l.desc \in 0 .. Len(dis.types) - 1
  <2>1. l.desc \in Nat /\ Len(mod.types) \in Nat
    BY <1>1, <1>6, NumberInt, ModuleTypes, LenProperties
  <2> QED BY <1>3, <1>5, <2>1
<1>14. ASSUME o.ok, Has(o.at, 4) \/ Whole, c.ok \/ Whole
       PROVE  /\ Has(o.at, 4) /\ ParseWord(file, o.at) = l.sig /\ c.ok /\ c.str = l.fn
              /\ Reads(c.at, r)
  <2> DEFINE x == s \o r
             p == o.at
             q == o.at + 4
             v == l.sig
  <2>1. /\ p \in Nat /\ q = p + 4 /\ q \in Nat /\ x \in Octets /\ Reads(p, EncodeWord(v) \o x) /\ v \in Word
        /\ (Has(p, 4) \/ Whole) /\ (CString(q).ok \/ Whole)
    BY <1>6, <1>11, <1>12, <1>14 DEF a
  <2> HIDE DEF x, p, q, v
  <2>2. Has(p, 4) /\ ParseWord(file, p) = v /\ Reads(p + 4, x)
    BY <1>1, <2>1, WordRead
  <2>3. Reads(q, Name(l.fn) \o r)
    BY <2>1, <2>2 DEF x, s
  <2>4. CString(q).ok /\ CString(q).str = l.fn /\ Reads(CString(q).at, r)
    BY <1>1, <1>6, <1>7, <2>1, <2>3, NameRead
  <2> QED BY <2>2, <2>4 DEF p, q, v
<1>15. ASSUME good \/ Loads
       PROVE  /\ good
              /\ o.val[1] = Unsigned(l.pc, w) /\ o.val[2] = l.desc
              /\ ParseWord(file, o.at) = l.sig /\ c.str = l.fn /\ Reads(c.at, r)
  <2>1. o.ok \/ Loads
    BY <1>15
  <2>2. o.ok /\ o.val[1] = Unsigned(l.pc, w) /\ o.val[2] = l.desc
    BY <1>12, <2>1
  <2>3. (Has(o.at, 4) \/ Whole) /\ (c.ok \/ Whole)
    BY <1>15 DEF Loads
  <2>4. /\ Has(o.at, 4) /\ ParseWord(file, o.at) = l.sig /\ c.ok /\ c.str = l.fn /\ Reads(c.at, r)
    BY <1>14, <2>2, <2>3
  <2> QED BY <1>13, <2>2, <2>4
<1>16. LinkMeans(j + 1) = [pc |-> Unsigned(l.pc, w), desc |-> l.desc, sig |-> l.sig, fn |-> l.fn]
  <2>1. LinkMeans(j + 1) = [l EXCEPT !.pc = Unsigned(l.pc, w)]
    BY DEF LinkMeans, w
  <2>2. l \in [pc : Number, desc : Count, sig : Word, fn : Names]
    BY <1>5 DEF Links
  <2> DEFINE u == Unsigned(l.pc, w)
  <2> HIDE DEF l, u
  <2>3. [l EXCEPT !.pc = u] \in [pc : {u}, desc : {l.desc}, sig : {l.sig}, fn : {l.fn}]
    BY <2>2
  <2> QED BY <2>1, <2>3 DEF u
<1> HIDE DEF o, c, l
<1>17. good \/ Loads =>
         /\ good
         /\ [pc |-> o.val[1], desc |-> o.val[2], sig |-> ParseWord(file, o.at), fn |-> c.str]
              = LinkMeans(j + 1)
         /\ Reads(c.at, r)
  BY <1>15, <1>16
<1> QED BY <1>17 DEF j, r, o, c

(* Links come back in order.                                                *)
LEMMA ReadLinkTaken == Follows /\ ReadLink => AsWritten'
<1> SUFFICES ASSUME Follows, ReadLink PROVE AsWritten'
  OBVIOUS
<1> DEFINE o == Operands(offset, 2)
           c == CString(o.at + 4)
           l == [pc |-> o.val[1], desc |-> o.val[2], sig |-> ParseWord(file, o.at), fn |-> c.str]
           k == Len(dis.links) + 1
           good == /\ o.ok /\ o.val[2] \in 0 .. Len(dis.types) - 1
                   /\ Has(o.at, 4) /\ c.ok
<1>1. /\ At("links") /\ left > 0
      /\ IF good
         THEN dis' = [dis EXCEPT !.links = Append(@, l)] /\ Move(c.at, "links")
         ELSE Panic
  BY DEF ReadLink
<1>2. AsWritten /\ dis \in Parsed
  BY FollowsFacts
<1>3. good \/ Loads => good /\ l = LinkMeans(k) /\ Reads(c.at, FromLink(mod, k))
  BY <1>1, LinkRead
<1> HIDE DEF good, o, c, l
<1>4. CASE good
  <2>1. l = LinkMeans(k) /\ Reads(c.at, FromLink(mod, k))
        /\ dis' = [dis EXCEPT !.links = Append(@, l)] /\ Move(c.at, "links")
    BY <1>1, <1>3, <1>4
  <2> DEFINE x == Append(dis.links, l)
  <2>2. dis' = [dis EXCEPT !.links = x]
    BY <2>1
  <2>3. dis.links \in Seq(LinksRead)
    BY <1>2, ParsedFields
  <2>4. /\ Len(dis.links) \in Nat /\ Len(x) = k /\ x[k] = l
        /\ \A i \in 1 .. Len(dis.links) : x[i] = dis.links[i]
    BY <2>3, LenProperties
  <2> HIDE DEF x, k
  <2>5. dis'.links = x /\ dis'.signature = dis.signature /\ dis'.header = dis.header
        /\ dis'.code = dis.code /\ dis'.types = dis.types /\ dis'.imports = dis.imports
        /\ dis'.handler = dis.handler /\ dis'.name = dis.name
    BY <1>2, <2>2, SetLinks
  <2>6. /\ section = "links" /\ status = "ok" /\ section' = "links" /\ offset' = c.at
        /\ UNCHANGED <<mod, file, damage, status>>
    BY <1>1, <2>1 DEF At, Move
  <2>7. Prefix' /\ CodeKept' /\ TypesKept'
    BY <1>2, <2>5, <2>6, StillKept DEF AsWritten
  <2>8. LinksKept'
    <3>1. \A i \in 1 .. Len(dis.links) : dis.links[i] = LinkMeans(i)
      BY <1>2 DEF AsWritten, LinksKept
    <3>2. \A i \in 1 .. k : i \in 1 .. Len(dis.links) \/ i = k
      BY <2>4 DEF k
    <3>3. \A i \in 1 .. Len(x) : x[i] = LinkMeans(i)
      BY <2>1, <2>4, <3>1, <3>2
    <3> QED BY <2>5, <2>6, <3>3 DEF LinksKept, LinkMeans
  <2>9. FrontKept' /\ NamesKept' /\ ImportsKept'
    BY <1>2, <2>5, <2>6 DEF AsWritten, FrontKept, NamesKept, ImportsKept, Unopened, Late, Early
  <2>10. Standing'
    BY <1>2, <2>1, <2>4, <2>5, <2>6 DEF AsWritten, Standing, StandsIn, Reads
  <2> QED BY <2>6, <2>7, <2>8, <2>9, <2>10 DEF AsWritten
<1>5. CASE ~good
  BY <1>1, <1>2, <1>3, <1>5, StopTaken DEF Panic
<1> QED BY <1>4, <1>5

(* An import section opens with the number of modules; a module without     *)
(* one has nothing there.                                                   *)
LEMMA BeginImportsTaken == Follows /\ BeginImports => AsWritten'
<1> SUFFICES ASSUME Follows, BeginImports PROVE AsWritten'
  OBVIOUS
<1> DEFINE o == Operands(offset, 1)
           n == Len(mod.imports)
           w == mod.wide
           r == FromImport(mod, 0)
<1>1. /\ LoadInv /\ AsWritten /\ Prefix /\ IsModule(mod) /\ mod.flag # HASEXCEPT /\ dis \in Parsed
      /\ file \in Octets /\ offset \in Nat /\ w \in BOOLEAN
  BY FollowsFacts
<1>2. section = "imports" /\ status = "ok" /\ section \notin Unopened /\ UNCHANGED dis
  BY DEF BeginImports, At, Unopened
<1>3. Flag = mod.flag /\ dis.imports = <<>> /\ Reads(offset, FromImports(mod))
  BY <1>1, <1>2, HeaderMeans DEF AsWritten, ImportsKept, Standing, StandsIn
<1>4. n \in Count /\ n \in Number
  BY <1>1, ModuleCounts, NumberInt
<1>5. CASE mod.flag # HASLDT2
  <2>1. Move(offset, "handlers")
    BY <1>3, <1>5 DEF BeginImports
  <2>2. section' = "handlers" /\ offset' = offset /\ UNCHANGED <<mod, file, damage, status, dis>>
    BY <1>2, <2>1 DEF Move
  <2>3. Prefix' /\ CodeKept' /\ TypesKept' /\ LinksKept'
    BY <1>1, <2>2, StillKept DEF AsWritten
  <2>4. FrontKept' /\ NamesKept'
    BY <1>1, <1>2, <2>2 DEF AsWritten, FrontKept, NamesKept, Unopened, Late
  <2>5. ImportsKept'
    BY <1>3, <1>5, <2>2 DEF ImportsKept, ImportsMean, Early, Unopened
  <2>6. FromImports(mod) = FromHandlers(mod)
    BY <1>1, <1>5, ImportsPiece
  <2>7. Standing'
    BY <1>1, <1>3, <2>2, <2>6 DEF AsWritten, Standing, StandsIn, Reads
  <2> QED BY <1>2, <2>2, <2>3, <2>4, <2>5, <2>7 DEF AsWritten
<1>6. CASE mod.flag = HASLDT2
  <2>1. IF o.ok THEN left' = ToUsize(o.val[1]) /\ Move(o.at, "import") /\ inner' = inner ELSE Panic
    BY <1>3, <1>6 DEF BeginImports
  <2>2. r \in Octets /\ Reads(offset, Op(n, w) \o r) /\ (Loads => Whole /\ Len(r) >= 3)
    <3>1. 0 \in 0 .. Len(mod.imports)
      BY <1>1, ModuleTypes, LenProperties
    <3>2. FromImports(mod) = Op(n, w) \o r
      BY <1>1, <1>6, ImportsPiece
    <3> QED BY <1>1, <1>3, <3>1, <3>2, RestsType, LongEnough DEF Loads
  <2> HIDE DEF r, n, w
  <2>3. ASSUME o.ok \/ Loads
        PROVE  o.ok /\ ToUsize(o.val[1]) = n /\ Reads(o.at, r)
    <3>1. o.ok \/ (Whole /\ Len(r) >= 3)
      BY <2>2, <2>3
    <3>2. o.ok /\ o.val[1] = Unsigned(n, w) /\ Reads(o.at, r)
      BY <1>1, <1>4, <2>2, <3>1, OpRead DEF w
    <3> QED BY <1>1, <1>4, <3>2, CountComesBack DEF w
  <2> HIDE DEF o
  <2>4. CASE o.ok
    <3>1. left' = n /\ section' = "import" /\ offset' = o.at /\ UNCHANGED <<mod, file, damage, status, dis>>
      BY <1>2, <2>1, <2>3, <2>4 DEF Move
    <3>2. Prefix' /\ CodeKept' /\ TypesKept' /\ LinksKept'
      BY <1>1, <3>1, StillKept DEF AsWritten
    <3>3. FrontKept' /\ NamesKept'
      BY <1>1, <1>2, <3>1 DEF AsWritten, FrontKept, NamesKept, Unopened, Late
    <3>4. Begun' = 0 /\ dis'.imports = <<>>
      BY <1>3, <3>1 DEF Begun
    <3>5. 0 + n = n /\ (\A k \in 1 .. 0 - 1 : FALSE)
      BY <1>4, NumberInt
    <3>6. ImportsKept'
      BY <1>6, <3>1, <3>4, <3>5 DEF ImportsKept, Early, Unopened, n
    <3>7. RunsOn(mod', offset', FromImport(mod', 0))
      BY <2>3, <2>4, <3>1 DEF Reads, r
    <3>8. Standing'
      BY <1>1, <3>1, <3>4, <3>7 DEF AsWritten, Standing, StandsIn, Reads
    <3> QED BY <1>2, <3>1, <3>2, <3>3, <3>6, <3>8 DEF AsWritten
  <2>5. CASE ~o.ok
    BY <1>1, <2>1, <2>3, <2>5, StopTaken DEF Panic
  <2> QED BY <2>4, <2>5
<1> QED BY <1>5, <1>6

(* What is taken of a sequence from its front, and one more.                *)
LEMMA FrontOf ==
  ASSUME NEW S, NEW s \in Seq(S)
  PROVE  /\ SubSeq(s, 1, 0) = <<>> /\ SubSeq(s, 1, Len(s)) = s
         /\ \A t \in 0 .. Len(s) - 1 : Append(SubSeq(s, 1, t), s[t + 1]) = SubSeq(s, 1, t + 1)
<1>1. Len(s) \in Nat /\ \A k \in 1 .. Len(s) : s[k] \in S
  BY LenProperties, ElementOfSeq
<1>2. ASSUME NEW t \in 0 .. Len(s)
      PROVE  /\ SubSeq(s, 1, t) \in Seq(S) /\ Len(SubSeq(s, 1, t)) = t
             /\ \A k \in 1 .. t : SubSeq(s, 1, t)[k] = s[k]
  <2>1. 1 \in Int /\ t \in Int /\ \A i \in 1 .. t : s[i] \in S
    BY <1>1
  <2>2. /\ SubSeq(s, 1, t) \in Seq(S) /\ Len(SubSeq(s, 1, t)) = IF 1 <= t THEN t - 1 + 1 ELSE 0
        /\ \A i \in 1 .. t - 1 + 1 : SubSeq(s, 1, t)[i] = s[1 + i - 1]
    BY <2>1, SubSeqProperties
  <2>3. t - 1 + 1 = t /\ (~(1 <= t) => t = 0) /\ \A i \in 1 .. t : 1 + i - 1 = i
    BY <1>1
  <2> QED BY <2>2, <2>3
<1>3. SubSeq(s, 1, 0) = <<>>
  <2>1. SubSeq(s, 1, 0) \in Seq(S) /\ Len(SubSeq(s, 1, 0)) = 0
    BY <1>1, <1>2
  <2> QED BY <2>1, EmptySeq
<1>4. SubSeq(s, 1, Len(s)) = s
  BY <1>1, <1>2, SeqEqual
<1>5. ASSUME NEW t \in 0 .. Len(s) - 1
      PROVE  Append(SubSeq(s, 1, t), s[t + 1]) = SubSeq(s, 1, t + 1)
  <2> DEFINE a == SubSeq(s, 1, t)
             b == SubSeq(s, 1, t + 1)
             e == s[t + 1]
  <2>1. t \in 0 .. Len(s) /\ t + 1 \in 0 .. Len(s) /\ t + 1 \in 1 .. Len(s) /\ t \in Nat
    BY <1>1
  <2>2. /\ a \in Seq(S) /\ Len(a) = t /\ e \in S /\ b \in Seq(S) /\ Len(b) = t + 1
        /\ (\A k \in 1 .. t : a[k] = s[k]) /\ (\A k \in 1 .. t + 1 : b[k] = s[k])
    BY <1>1, <1>2, <2>1
  <2>3. b[t + 1] = e
    BY <2>1, <2>2
  <2> HIDE DEF a, b, e
  <2>4. /\ Append(a, e) \in Seq(S) /\ Len(Append(a, e)) = t + 1
        /\ (\A k \in 1 .. t : Append(a, e)[k] = a[k]) /\ Append(a, e)[t + 1] = e
    BY <2>2, AppendProperties
  <2>5. \A k \in 1 .. t + 1 : k \in 1 .. t \/ k = t + 1
    BY <2>1
  <2>6. \A k \in 1 .. Len(Append(a, e)) : Append(a, e)[k] = b[k]
    BY <2>2, <2>3, <2>4, <2>5
  <2>7. Append(a, e) = b
    BY <2>2, <2>4, <2>6, SeqEqual
  <2> QED BY <2>7 DEF a, b, e
<1> QED BY <1>3, <1>4, <1>5

(* The import section is open at some module, the modules before it have    *)
(* been taken, and so many of its functions.                                *)
FromFunction(m, n, t) == FlatFrom(FunctionBytes(m.imports[n]), t) \o FromImport(m, n)

(* In the import section: which module is open and what of it is taken.     *)
LEMMA OpenFacts ==
  ASSUME Follows, At("import")
  PROVE  /\ mod.flag = HASLDT2 /\ mod.imports \in Seq(Seq(Imports)) /\ dis.imports \in Seq(Seq(ImportsRead))
         /\ Begun \in Nat /\ Begun + left = Len(mod.imports) /\ Len(mod.imports) \in Nat
         /\ \A k \in 1 .. Begun - 1 : dis.imports[k] = mod.imports[k]
         /\ Begun = 0 => inner = 0 /\ Reads(offset, FromImport(mod, 0))
         /\ Begun > 0 => /\ Begun \in 1 .. Len(mod.imports)
                          /\ OpenedModule \in Seq(Imports) /\ Len(OpenedModule) \in Nat
                          /\ FunctionBytes(OpenedModule) \in Seq(Octets)
                          /\ Len(FunctionBytes(OpenedModule)) = Len(OpenedModule)
                          /\ TakenOf \in 0 .. Len(OpenedModule)
                          /\ dis.imports[Begun] = SubSeq(OpenedModule, 1, TakenOf)
                          /\ Reads(offset, FromFunction(mod, Begun, TakenOf))
<1>1. /\ LoadInv /\ AsWritten /\ IsModule(mod) /\ dis \in Parsed /\ left \in Nat /\ inner \in Nat
  BY FollowsFacts
<1>2. section = "import"
  BY DEF At
<1>3. mod.imports \in Seq(Seq(Imports)) /\ dis.imports \in Seq(Seq(ImportsRead))
  BY <1>1, ModuleTypes, ParsedFields
<1>4. Begun \in Nat /\ Len(mod.imports) \in Nat
  BY <1>3, LenProperties DEF Begun
<1>5. /\ mod.flag = HASLDT2 /\ Begun + left = Len(mod.imports)
      /\ \A k \in 1 .. Begun - 1 : dis.imports[k] = mod.imports[k]
      /\ Begun > 0 => /\ inner <= Len(OpenedModule)
                       /\ dis.imports[Begun] = SubSeq(OpenedModule, 1, TakenOf)
  BY <1>1, <1>2 DEF AsWritten, ImportsKept
<1>6. /\ Begun = 0 => Reads(offset, FromImport(mod, 0))
      /\ Begun # 0 => Reads(offset, FromFunction(mod, Begun, TakenOf))
  BY <1>1, <1>2 DEF AsWritten, Standing, StandsIn, FromFunction, OpenedModule
<1>7. Begun = 0 => inner = 0
  BY <1>1, <1>4 DEF LoadInv, ImportsOpen, Begun
<1>8. ASSUME Begun > 0
      PROVE  /\ Begun \in 1 .. Len(mod.imports)
             /\ OpenedModule \in Seq(Imports) /\ Len(OpenedModule) \in Nat
             /\ FunctionBytes(OpenedModule) \in Seq(Octets)
             /\ Len(FunctionBytes(OpenedModule)) = Len(OpenedModule)
             /\ TakenOf \in 0 .. Len(OpenedModule)
  <2>1. Begun \in 1 .. Len(mod.imports)
    BY <1>1, <1>4, <1>5, <1>8
  <2>2. OpenedModule \in Seq(Imports)
    <3> DEFINE SI == Seq(Imports)
    <3>1. mod.imports \in Seq(SI)
      BY <1>3
    <3> HIDE DEF SI
    <3>2. mod.imports[Begun] \in SI
      BY <2>1, <3>1, ElementOfSeq
    <3> QED BY <3>2 DEF SI, OpenedModule
  <2>3. Len(OpenedModule) \in Nat
    BY <2>2, LenProperties
  <2>4. FunctionBytes(OpenedModule) \in Seq(Octets) /\ Len(FunctionBytes(OpenedModule)) = Len(OpenedModule)
    BY <2>2, FunctionBytesType
  <2>5. TakenOf \in 0 .. Len(OpenedModule)
    BY <1>1, <1>5, <1>8, <2>3 DEF TakenOf
  <2> QED BY <2>1, <2>2, <2>3, <2>4, <2>5
<1> QED BY <1>3, <1>4, <1>5, <1>6, <1>7, <1>8

(* The section stays open.                                                  *)
LEMMA OpenTaken ==
  ASSUME Follows, At("import"), section' = "import", UNCHANGED <<mod, file, damage, status>>,
         dis'.signature = dis.signature, dis'.header = dis.header, dis'.code = dis.code,
         dis'.types = dis.types, dis'.links = dis.links, dis'.handler = dis.handler,
         dis'.name = dis.name,
         NEW n \in Nat, n > 0, Len(dis'.imports) = n, n + left' = Len(mod.imports),
         \A k \in 1 .. n - 1 : dis'.imports[k] = mod.imports[k],
         inner' <= Len(mod.imports[n]),
         NEW t, t = Len(mod.imports[n]) - inner',
         dis'.imports[n] = SubSeq(mod.imports[n], 1, t),
         Reads(offset', FromFunction(mod, n, t))
  PROVE  AsWritten'
<1>1. AsWritten
  BY FollowsFacts
<1>2. section = "import" /\ status = "ok"
  BY DEF At
<1>3. Prefix' /\ CodeKept' /\ TypesKept' /\ LinksKept'
  BY <1>1, StillKept DEF AsWritten
<1>4. FrontKept' /\ NamesKept'
  BY <1>1, <1>2 DEF AsWritten, FrontKept, NamesKept, Unopened, Late
<1>5. Begun' = n /\ OpenedModule' = mod.imports[n] /\ TakenOf' = t /\ mod.flag = HASLDT2
  BY <1>1, <1>2 DEF AsWritten, ImportsKept, Begun, OpenedModule, TakenOf
<1>6. ImportsKept'
  BY <1>5 DEF ImportsKept, Early, Unopened
<1>7. RunsOn(mod', offset', FlatFrom(FunctionBytes(OpenedModule'), TakenOf') \o FromImport(mod', Begun'))
  BY <1>5 DEF Reads, FromFunction
<1>8. Standing'
  BY <1>1, <1>5, <1>7 DEF AsWritten, Standing, StandsIn, Reads
<1> QED BY <1>2, <1>3, <1>4, <1>6, <1>8 DEF AsWritten

(* One module's imports are done: the next module's stand there, or the end *)
(* of the section, and all modules so far have been taken.                  *)
LEMMA ModuleDone ==
  ASSUME Follows, At("import"), inner = 0
  PROVE  /\ Reads(offset, FromImport(mod, Begun))
         /\ \A k \in 1 .. Begun : dis.imports[k] = mod.imports[k]
<1>1. IsModule(mod)
  BY FollowsFacts
<1>2. /\ Begun \in Nat /\ Begun + left = Len(mod.imports) /\ Len(mod.imports) \in Nat
      /\ \A k \in 1 .. Begun - 1 : dis.imports[k] = mod.imports[k]
  BY OpenFacts
<1>3. CASE Begun = 0
  <2>1. Reads(offset, FromImport(mod, 0))
    BY <1>3, OpenFacts
  <2> QED BY <1>3, <2>1
<1>4. CASE Begun > 0
  <2> DEFINE f == FunctionBytes(OpenedModule)
             q == OpenedModule
  <2>1. /\ q \in Seq(Imports) /\ Len(q) \in Nat /\ f \in Seq(Octets) /\ Len(f) = Len(q)
        /\ dis.imports[Begun] = SubSeq(q, 1, TakenOf) /\ Begun \in 0 .. Len(mod.imports)
        /\ Reads(offset, FlatFrom(f, TakenOf) \o FromImport(mod, Begun))
    BY <1>2, <1>4, OpenFacts DEF FromFunction, OpenedModule
  <2>2. TakenOf = Len(q)
    BY <2>1 DEF TakenOf
  <2> HIDE DEF q, f
  <2>3. dis.imports[Begun] = q
    BY <2>1, <2>2, FrontOf
  <2>4. FromImport(mod, Begun) \in Octets
    BY <1>1, <2>1, RestsType
  <2>5. FlatFrom(f, Len(f)) \o FromImport(mod, Begun) = FromImport(mod, Begun)
    BY <2>1, <2>4, PiecesBefore
  <2>6. \A k \in 1 .. Begun : k \in 1 .. Begun - 1 \/ k = Begun
    BY <1>2
  <2> QED BY <1>2, <2>1, <2>2, <2>3, <2>5, <2>6 DEF q, OpenedModule
<1> QED BY <1>2, <1>3, <1>4

(* The next module's imports open with their number.                        *)
LEMMA ImportModuleRead ==
  ASSUME Follows, At("import"), inner = 0, left > 0,
         Operands(offset, 1).ok \/ Loads,
         NEW n, n = Begun + 1
  PROVE  LET o == Operands(offset, 1)
             q == mod.imports[n]
         IN /\ n \in 1 .. Len(mod.imports) /\ o.ok /\ ToUsize(o.val[1]) = Len(q)
            /\ q \in Seq(Imports) /\ Reads(o.at, FromFunction(mod, n, 0))
<1> DEFINE o == Operands(offset, 1)
           q == mod.imports[n]
           w == mod.wide
           f == FunctionBytes(q)
           r == FromImport(mod, n)
           c == Len(q)
<1>1. /\ Prefix /\ IsModule(mod) /\ mod.flag # HASEXCEPT /\ file \in Octets /\ offset \in Nat
      /\ w \in BOOLEAN /\ left \in Nat
  BY FollowsFacts
<1>2. /\ Begun \in Nat /\ Begun + left = Len(mod.imports) /\ Len(mod.imports) \in Nat
      /\ mod.imports \in Seq(Seq(Imports)) /\ Reads(offset, FromImport(mod, Begun))
  BY OpenFacts, ModuleDone
<1>3. n \in 1 .. Len(mod.imports) /\ n \in 0 .. Len(mod.imports) /\ Begun \in 0 .. Len(mod.imports) - 1
  BY <1>1, <1>2
<1>4. q \in Seq(Imports)
  <2> DEFINE SI == Seq(Imports)
  <2>1. mod.imports \in Seq(SI)
    BY <1>2
  <2> HIDE DEF SI
  <2>2. mod.imports[n] \in SI
    BY <1>3, <2>1, ElementOfSeq
  <2> QED BY <2>2 DEF SI
<1>5. c \in Count /\ c \in Number
  <2>1. DOMAIN mod.imports = 1 .. Len(mod.imports)
    BY <1>2, LenProperties
  <2>2. c \in Count
    BY <1>1, <1>3, <2>1 DEF IsModule
  <2> QED BY <2>2, NumberInt
<1>6. /\ f \in Seq(Octets) /\ r \in Octets /\ Op(c, w) \in Octets
      /\ EncodeImportModule(q, w) = Op(c, w) \o FlattenSeq(f)
  BY <1>1, <1>3, <1>4, <1>5, FunctionBytesType, RestsType, ImportModulePiece
<1>7. FromImport(mod, Begun) = EncodeImportModule(q, w) \o r
  BY <1>1, <1>2, <1>3, NextPieces
<1>8. Loads => Whole /\ Len(r) >= 3
  BY <1>1, <1>3, LongEnough DEF Loads
<1> HIDE DEF q, f, r, c, w
<1>9. FlattenSeq(f) \in Octets /\ FlatFrom(f, 0) = FlattenSeq(f)
  BY <1>6, FlattenOctets, FlatFromFacts
<1> DEFINE g == FlattenSeq(f)
           x == g \o r
<1>10. x \in Octets /\ (Loads => Whole /\ Len(x) >= 3) /\ Reads(offset, Op(c, w) \o x)
  <2> DEFINE p == Op(c, w)
  <2>1. g \in Octets /\ p \in Octets /\ EncodeImportModule(q, w) = p \o g
    BY <1>6, <1>9
  <2> HIDE DEF p, g
  <2>2. g \o r \in Octets /\ Len(g \o r) >= Len(r) /\ Len(g \o r) \in Nat /\ Len(r) \in Nat
    BY <1>6, <2>1, LongerThan
  <2>3. (p \o g) \o r = p \o (g \o r)
    BY <1>6, <2>1, OctetsAssociate
  <2>4. Loads => Whole /\ Len(g \o r) >= 3
    BY <1>8, <2>2
  <2> QED BY <1>2, <1>7, <2>1, <2>2, <2>3, <2>4 DEF p
<1> HIDE DEF x
<1>11. o.ok /\ o.val[1] = Unsigned(c, w) /\ Reads(o.at, x)
  <2>1. o.ok \/ (Whole /\ Len(x) >= 3)
    BY <1>10
  <2> QED BY <1>1, <1>5, <1>10, <2>1, OpRead DEF w
<1>12. ToUsize(o.val[1]) = c
  BY <1>1, <1>5, <1>11, CountComesBack DEF w
<1>13. x = FromFunction(mod, n, 0)
  BY <1>9 DEF x, f, q, r, FromFunction
<1> QED BY <1>3, <1>4, <1>11, <1>12, <1>13 DEF q, c

(* The next module of imports is begun where the last one ended.            *)
LEMMA ReadImportModuleTaken == Follows /\ ReadImportModule => AsWritten'
<1> SUFFICES ASSUME Follows, ReadImportModule PROVE AsWritten'
  OBVIOUS
<1> DEFINE o == Operands(offset, 1)
           n == Begun + 1
           q == mod.imports[n]
           x == Append(dis.imports, <<>>)
<1>1. /\ At("import") /\ inner = 0 /\ left > 0
      /\ IF o.ok
         THEN /\ left' = left - 1 /\ inner' = ToUsize(o.val[1])
              /\ dis' = [dis EXCEPT !.imports = x] /\ Move(o.at, "import")
         ELSE Panic
  BY DEF ReadImportModule
<1>2. AsWritten /\ dis \in Parsed /\ left \in Nat
  BY FollowsFacts
<1>3. /\ Begun \in Nat /\ Begun + left = Len(mod.imports) /\ dis.imports \in Seq(Seq(ImportsRead))
      /\ Begun = Len(dis.imports) /\ Len(mod.imports) \in Nat
  BY <1>1, OpenFacts DEF Begun
<1>4. \A k \in 1 .. Begun : dis.imports[k] = mod.imports[k]
  BY <1>1, ModuleDone
<1>5. n \in Nat /\ n > 0 /\ \A k \in 1 .. n - 1 : k \in 1 .. Begun
  BY <1>3
<1>5a. n = Begun + 1
  OBVIOUS
<1> HIDE DEF n
<1>5b. n + (left - 1) = Len(mod.imports)
  <2>1. Begun \in Nat /\ left \in Nat /\ n = Begun + 1 /\ Begun + left = Len(mod.imports)
    BY <1>2, <1>3, <1>5a
  <2> QED BY <2>1
<1>6. ASSUME o.ok \/ Loads
      PROVE  /\ n \in 1 .. Len(mod.imports) /\ o.ok /\ ToUsize(o.val[1]) = Len(q)
             /\ q \in Seq(Imports) /\ Reads(o.at, FromFunction(mod, n, 0))
  BY <1>1, <1>5a, <1>6, ImportModuleRead
<1> HIDE DEF o
<1>7. CASE o.ok
  <2> DEFINE SI == Seq(ImportsRead)
  <2>1. dis.imports \in Seq(SI) /\ <<>> \in SI
    BY <1>3, EmptySeq
  <2> HIDE DEF SI
  <2>2. /\ Len(x) = Len(dis.imports) + 1 /\ x[Len(dis.imports) + 1] = <<>>
        /\ \A k \in 1 .. Len(dis.imports) : x[k] = dis.imports[k]
    BY <2>1, AppendProperties
  <2>3. Len(x) = n /\ x[n] = <<>> /\ \A k \in 1 .. n - 1 : x[k] = mod.imports[k]
    BY <1>3, <1>4, <1>5, <1>5a, <2>2
  <2>4. dis' = [dis EXCEPT !.imports = x]
    BY <1>1, <1>7
  <2> HIDE DEF x
  <2>5. /\ dis'.imports = x /\ dis'.signature = dis.signature /\ dis'.header = dis.header
        /\ dis'.code = dis.code /\ dis'.types = dis.types /\ dis'.links = dis.links
        /\ dis'.handler = dis.handler /\ dis'.name = dis.name
    BY <1>2, <2>4, SetImports
  <2>6. /\ section' = "import" /\ offset' = o.at /\ UNCHANGED <<mod, file, damage, status>>
        /\ left' = left - 1 /\ inner' = Len(q)
    BY <1>1, <1>6, <1>7 DEF Move
  <2>7. Len(q) \in Nat /\ SubSeq(q, 1, 0) = <<>>
    BY <1>6, <1>7, LenProperties, FrontOf
  <2> DEFINE t == 0
  <2>8. /\ n + left' = Len(mod.imports) /\ inner' <= Len(mod.imports[n])
        /\ t = Len(mod.imports[n]) - inner' /\ dis'.imports[n] = SubSeq(mod.imports[n], 1, t)
        /\ Len(dis'.imports) = n /\ (\A k \in 1 .. n - 1 : dis'.imports[k] = mod.imports[k])
    <3>1. n + left' = Len(mod.imports)
      BY <1>5b, <2>6
    <3>2. inner' <= Len(mod.imports[n]) /\ t = Len(mod.imports[n]) - inner'
      BY <2>6, <2>7
    <3>3. dis'.imports[n] = SubSeq(mod.imports[n], 1, t)
      BY <2>3, <2>5, <2>7
    <3> QED BY <2>3, <2>5, <3>1, <3>2, <3>3
  <2>9. Reads(offset', FromFunction(mod, n, t))
    BY <1>6, <1>7, <2>6
  <2> HIDE DEF t, q
  <2> QED BY <1>1, <1>5, <2>5, <2>6, <2>8, <2>9, OpenTaken
<1>8. CASE ~o.ok
  BY <1>1, <1>2, <1>6, <1>8, StopTaken DEF Panic
<1> QED BY <1>7, <1>8

(* One import: its signature and its name.                                  *)
LEMMA ImportRead ==
  ASSUME Follows, At("import"), inner > 0,
         (Has(offset, 4) /\ CString(offset + 4).ok) \/ Whole
  PROVE  LET c == CString(offset + 4)
             t == TakenOf
         IN /\ Has(offset, 4) /\ c.ok /\ Begun > 0 /\ t \in 0 .. Len(OpenedModule) - 1
            /\ [sig |-> ParseWord(file, offset), fn |-> c.str] = OpenedModule[t + 1]
            /\ Reads(c.at, FromFunction(mod, Begun, t + 1))
<1> DEFINE c == CString(offset + 4)
           t == TakenOf
           q == OpenedModule
           f == FunctionBytes(q)
           r == FromImport(mod, Begun)
           i == q[t + 1]
           x == FlatFrom(f, t + 1) \o r
<1>1. /\ Prefix /\ IsModule(mod) /\ file \in Octets /\ offset \in Nat /\ offset + 4 \in Nat
      /\ inner \in Nat /\ LoadInv
  BY FollowsFacts
<1>2. Begun > 0
  BY <1>1 DEF LoadInv, ImportsOpen, Begun
<1>3. /\ Begun \in 0 .. Len(mod.imports) /\ q \in Seq(Imports) /\ Len(q) \in Nat
      /\ f \in Seq(Octets) /\ Len(f) = Len(q) /\ t \in 0 .. Len(q)
      /\ Reads(offset, FlatFrom(f, t) \o r)
  BY <1>2, OpenFacts DEF FromFunction, OpenedModule
<1>4. t \in 0 .. Len(q) - 1 /\ t + 1 \in 1 .. Len(q) /\ t + 1 \in 0 .. Len(q)
  BY <1>1, <1>3 DEF TakenOf
<1>5. i \in Imports
  BY <1>3, <1>4, ElementOfSeq
<1>6. r \in Octets
  BY <1>1, <1>3, RestsType
<1>7. f[t + 1] = EncodeImport(i)
  BY <1>3, <1>4 DEF FunctionBytes
<1> HIDE DEF q, f, r, t, i
<1>8. x \in Octets /\ Reads(offset, EncodeImport(i) \o x)
  <2>1. \A k \in 0 .. Len(f) : FlatFrom(f, k) \o r \in Octets
    BY <1>3, <1>6, PiecesBefore
  <2>2. \A k \in 0 .. Len(f) - 1 : FlatFrom(f, k) \o r = f[k + 1] \o (FlatFrom(f, k + 1) \o r)
    BY <1>3, <1>6, PiecesBefore
  <2>3. t \in 0 .. Len(f) - 1 /\ t + 1 \in 0 .. Len(f)
    BY <1>3, <1>4
  <2>4. FlatFrom(f, t) \o r = f[t + 1] \o x
    BY <2>2, <2>3
  <2> QED BY <1>3, <1>7, <2>1, <2>3, <2>4
<1>9. /\ i.sig \in Word /\ i.fn \in Names /\ EncodeWord(i.sig) \in Octets /\ Name(i.fn) \in Octets
      /\ EncodeImport(i) = EncodeWord(i.sig) \o Name(i.fn)
  BY <1>5, ImportPiece
<1> HIDE DEF x
<1>10. Name(i.fn) \o x \in Octets /\ Reads(offset, EncodeWord(i.sig) \o (Name(i.fn) \o x))
  <2> DEFINE a == EncodeWord(i.sig)
             b == Name(i.fn)
  <2>1. a \in Octets /\ b \in Octets /\ EncodeImport(i) = a \o b
    BY <1>9
  <2> HIDE DEF a, b
  <2>2. b \o x \in Octets /\ (a \o b) \o x = a \o (b \o x)
    BY <1>8, <2>1, LongerThan, OctetsAssociate
  <2> QED BY <1>8, <2>1, <2>2 DEF a, b
<1>11. Has(offset, 4) /\ ParseWord(file, offset) = i.sig /\ Reads(offset + 4, Name(i.fn) \o x)
  <2> DEFINE y == Name(i.fn) \o x
             v == i.sig
  <2>1. y \in Octets /\ v \in Word /\ Reads(offset, EncodeWord(v) \o y) /\ (Has(offset, 4) \/ Whole)
    BY <1>9, <1>10
  <2> HIDE DEF y, v
  <2>2. Has(offset, 4) /\ ParseWord(file, offset) = v /\ Reads(offset + 4, y)
    BY <1>1, <2>1, WordRead
  <2> QED BY <2>2 DEF y, v
<1>12. c.ok /\ c.str = i.fn /\ Reads(c.at, x)
  <2> DEFINE at == offset + 4
  <2>1. at \in Nat /\ Reads(at, Name(i.fn) \o x) /\ (CString(at).ok \/ Whole)
    BY <1>1, <1>11
  <2> HIDE DEF at
  <2>2. CString(at).ok /\ CString(at).str = i.fn /\ Reads(CString(at).at, x)
    BY <1>1, <1>8, <1>9, <2>1, NameRead
  <2> QED BY <2>2 DEF at
<1>13. [sig |-> ParseWord(file, offset), fn |-> c.str] = i
  <2>1. i \in [sig : Word, fn : Names]
    BY <1>5 DEF Imports
  <2> QED BY <1>11, <1>12, <2>1
<1>14. x = FromFunction(mod, Begun, t + 1)
  BY DEF x, f, q, r, FromFunction, OpenedModule
<1> QED BY <1>2, <1>4, <1>11, <1>12, <1>13, <1>14 DEF q, t, i

(* An import is taken as written, into the module it was written for.       *)
LEMMA ReadImportTaken == Follows /\ ReadImport => AsWritten'
<1> SUFFICES ASSUME Follows, ReadImport PROVE AsWritten'
  OBVIOUS
<1> DEFINE c == CString(offset + 4)
           n == Len(dis.imports)
           e == [sig |-> ParseWord(file, offset), fn |-> c.str]
           good == Has(offset, 4) /\ c.ok
           q == OpenedModule
           t == TakenOf
           y == Append(dis.imports[n], e)
           x == [dis.imports EXCEPT ![n] = y]
<1>1. /\ At("import") /\ inner > 0
      /\ IF good
         THEN /\ inner' = inner - 1 /\ left' = left
              /\ dis' = [dis EXCEPT !.imports[n] = Append(@, e)] /\ Move(c.at, "import")
         ELSE Panic
  BY DEF ReadImport
<1>2. AsWritten /\ dis \in Parsed /\ inner \in Nat
  BY FollowsFacts
<1>3. ASSUME good \/ Whole
      PROVE  /\ good /\ Begun > 0 /\ t \in 0 .. Len(q) - 1
             /\ e = q[t + 1] /\ Reads(c.at, FromFunction(mod, Begun, t + 1))
  BY <1>1, <1>3, ImportRead
<1> HIDE DEF c, e
<1>4. CASE good
  <2>1. /\ Begun > 0 /\ t \in 0 .. Len(q) - 1 /\ e = q[t + 1]
        /\ Reads(c.at, FromFunction(mod, Begun, t + 1))
        /\ inner' = inner - 1 /\ left' = left /\ dis' = [dis EXCEPT !.imports = x]
        /\ Move(c.at, "import")
    BY <1>1, <1>3, <1>4
  <2> HIDE DEF good
  <2>2. /\ n \in Nat /\ n > 0 /\ n = Begun /\ n + left = Len(mod.imports)
        /\ dis.imports \in Seq(Seq(ImportsRead)) /\ q \in Seq(Imports) /\ Len(q) \in Nat
        /\ dis.imports[n] = SubSeq(q, 1, t) /\ q = mod.imports[n] /\ t = Len(q) - inner
        /\ \A k \in 1 .. n - 1 : dis.imports[k] = mod.imports[k]
    BY <1>1, <2>1, OpenFacts DEF Begun, OpenedModule, TakenOf
  <2>3. y = SubSeq(q, 1, t + 1)
    <3>1. \A k \in 0 .. Len(q) - 1 : Append(SubSeq(q, 1, k), q[k + 1]) = SubSeq(q, 1, k + 1)
      BY <2>2, FrontOf
    <3>2. Append(SubSeq(q, 1, t), q[t + 1]) = SubSeq(q, 1, t + 1)
      BY <2>1, <3>1
    <3> QED BY <2>1, <2>2, <3>2
  <2>4. /\ Len(x) = n /\ x[n] = y /\ \A k \in 1 .. n - 1 : x[k] = dis.imports[k]
    <3> DEFINE s == dis.imports
    <3>1. DOMAIN s = 1 .. n /\ s \in [1 .. n -> Seq(ImportsRead)]
      BY <2>2, LenProperties
    <3> HIDE DEF s, y, n
    <3>2. n \in 1 .. n /\ \A k \in 1 .. n - 1 : k \in 1 .. n /\ k # n
      BY <2>2
    <3>3. x = [s EXCEPT ![n] = y]
      BY DEF s
    <3> HIDE DEF x
    <3>4. x[n] = y /\ DOMAIN x = 1 .. n /\ \A k \in 1 .. n - 1 : x[k] = s[k]
      BY <3>1, <3>2, <3>3
    <3>5. x = [k \in 1 .. n |-> x[k]]
      BY <3>1, <3>3
    <3>6. Len(x) = n
      BY <2>2, <3>5
    <3> QED BY <3>4, <3>6 DEF s
  <2> HIDE DEF x, y
  <2>5. /\ dis'.imports = x /\ dis'.signature = dis.signature /\ dis'.header = dis.header
        /\ dis'.code = dis.code /\ dis'.types = dis.types /\ dis'.links = dis.links
        /\ dis'.handler = dis.handler /\ dis'.name = dis.name
    BY <1>2, <2>1, SetImports
  <2>6. section' = "import" /\ offset' = c.at /\ UNCHANGED <<mod, file, damage, status>>
    BY <2>1 DEF Move
  <2> DEFINE u == t + 1
  <2>7. u = Len(q) - inner' /\ inner' <= Len(q)
    BY <1>2, <2>1, <2>2
  <2>8. /\ n + left' = Len(mod.imports) /\ inner' <= Len(mod.imports[n])
        /\ u = Len(mod.imports[n]) - inner' /\ dis'.imports[n] = SubSeq(mod.imports[n], 1, u)
        /\ Len(dis'.imports) = n /\ (\A k \in 1 .. n - 1 : dis'.imports[k] = mod.imports[k])
        /\ Reads(offset', FromFunction(mod, n, u))
    <3>1. n + left' = Len(mod.imports)
      BY <2>1, <2>2
    <3>2. inner' <= Len(mod.imports[n]) /\ u = Len(mod.imports[n]) - inner'
      BY <2>2, <2>7
    <3>3. dis'.imports[n] = SubSeq(mod.imports[n], 1, u)
      BY <2>2, <2>3, <2>4, <2>5
    <3>4. Len(dis'.imports) = n /\ (\A k \in 1 .. n - 1 : dis'.imports[k] = mod.imports[k])
      BY <2>2, <2>4, <2>5
    <3>5. Reads(offset', FromFunction(mod, n, u))
      BY <2>1, <2>2, <2>6
    <3> QED BY <3>1, <3>2, <3>3, <3>4, <3>5
  <2> HIDE DEF u, t, q, n
  <2> QED BY <1>1, <2>2, <2>5, <2>6, <2>8, OpenTaken
<1>5. CASE ~good
  BY <1>1, <1>2, <1>3, <1>5, StopTaken DEF Panic, Loads
<1> QED BY <1>4, <1>5

(* The byte skipped at the end of the section is its zero, and all imports  *)
(* have been taken.                                                         *)
LEMMA EndImportsTaken == Follows /\ EndImports => AsWritten'
<1> SUFFICES ASSUME Follows, EndImports PROVE AsWritten'
  OBVIOUS
<1>1. /\ At("import") /\ inner = 0 /\ left = 0
      /\ Move(offset + 1, "handlers") /\ UNCHANGED <<left, inner, dis>>
  BY DEF EndImports
<1>2. AsWritten /\ IsModule(mod) /\ offset \in Nat
  BY FollowsFacts
<1>3. section = "import" /\ status = "ok"
  BY <1>1 DEF At
<1>4. /\ Begun \in Nat /\ Begun = Len(mod.imports) /\ Begun = Len(dis.imports)
      /\ mod.imports \in Seq(Seq(Imports)) /\ dis.imports \in Seq(Seq(ImportsRead))
      /\ mod.flag = HASLDT2
  BY <1>1, OpenFacts DEF Begun
<1>5. Reads(offset, FromImport(mod, Begun)) /\ \A k \in 1 .. Begun : dis.imports[k] = mod.imports[k]
  BY <1>1, ModuleDone
<1>6. dis.imports = mod.imports
  <2>1. /\ dis.imports = [k \in 1 .. Begun |-> dis.imports[k]]
        /\ mod.imports = [k \in 1 .. Begun |-> mod.imports[k]]
    BY <1>4, LenProperties
  <2> QED BY <1>5, <2>1
<1>7. Reads(offset + 1, FromHandlers(mod))
  <2> DEFINE z == <<0>>
             r == FromHandlers(mod)
  <2>1. z \in Octets /\ Len(z) = 1
    BY OneOctet DEF Octet
  <2>2. r \in Octets
    BY <1>2, ImportsPiece
  <2>3. Reads(offset, z \o r)
    BY <1>2, <1>4, <1>5, NextPieces
  <2> HIDE DEF z, r
  <2>4. Reads(offset + Len(z), r)
    BY <1>2, <2>1, <2>2, <2>3, ReadsPast
  <2> QED BY <2>1, <2>4 DEF r
<1>8. section' = "handlers" /\ offset' = offset + 1 /\ UNCHANGED <<mod, file, damage, status, dis>>
  BY <1>1 DEF Move
<1>9. Prefix' /\ CodeKept' /\ TypesKept' /\ LinksKept'
  BY <1>2, <1>8, StillKept DEF AsWritten
<1>10. FrontKept' /\ NamesKept'
  BY <1>2, <1>3, <1>8 DEF AsWritten, FrontKept, NamesKept, Unopened, Late
<1>11. ImportsKept'
  BY <1>4, <1>6, <1>8 DEF ImportsKept, ImportsMean, Early, Unopened
<1>12. Standing'
  BY <1>2, <1>7, <1>8 DEF AsWritten, Standing, StandsIn, Reads
<1> QED BY <1>3, <1>8, <1>9, <1>10, <1>11, <1>12 DEF AsWritten

-----------------------------------------------------------------------------
(* Exception handlers and the source path.                                  *)

(* A module without handlers goes on to its path.                           *)
LEMMA BeginHandlersTaken == Follows /\ BeginHandlers => AsWritten'
<1> SUFFICES ASSUME Follows, BeginHandlers PROVE AsWritten'
  OBVIOUS
<1>1. AsWritten /\ IsModule(mod) /\ mod.flag # HASEXCEPT
  BY FollowsFacts
<1>2. section = "handlers" /\ status = "ok" /\ section \notin Unopened
  BY DEF BeginHandlers, At, Unopened
<1>3. Flag = mod.flag
  BY <1>2, HeaderMeans
<1>4. section' = "path" /\ offset' = offset /\ UNCHANGED <<mod, file, damage, status, dis>>
  BY <1>1, <1>3 DEF BeginHandlers, Move
<1>5. Prefix' /\ CodeKept' /\ TypesKept' /\ LinksKept'
  BY <1>1, <1>4, StillKept DEF AsWritten
<1>6. FrontKept' /\ NamesKept'
  BY <1>1, <1>2, <1>4 DEF AsWritten, FrontKept, NamesKept, Unopened, Late
<1>7. ImportsKept'
  BY <1>1, <1>2, <1>4 DEF AsWritten, ImportsKept, ImportsMean, Early, Unopened
<1>8. Reads(offset, FromPath(mod))
  BY <1>1, <1>2, ImportsPiece DEF AsWritten, Standing, StandsIn
<1>9. Standing'
  BY <1>1, <1>4, <1>8 DEF AsWritten, Standing, StandsIn, Reads
<1> QED BY <1>2, <1>4, <1>5, <1>6, <1>7, <1>9 DEF AsWritten

(* The parser never reads a handler of a module that has none.              *)
LEMMA NoHandler == Follows /\ (ReadHandler \/ EndHandlers) => AsWritten'
<1> SUFFICES ASSUME Follows, ReadHandler \/ EndHandlers PROVE FALSE
  OBVIOUS
<1>1. section = "handler"
  BY DEF ReadHandler, EndHandlers, At
<1>2. section # "handler"
  BY DEF Follows, AsWritten, Standing
<1> QED BY <1>1, <1>2

(* The path is the last of the file.                                        *)
LEMMA ReadPathTaken == Follows /\ ReadPath => AsWritten'
<1> SUFFICES ASSUME Follows, ReadPath PROVE AsWritten'
  OBVIOUS
<1> DEFINE c == CString(offset)
<1>1. /\ At("path")
      /\ IF c.ok THEN dis' = [dis EXCEPT !.path = c.str] /\ Move(c.at, "done") ELSE Panic
  BY DEF ReadPath
<1>2. /\ AsWritten /\ Prefix /\ IsModule(mod) /\ dis \in Parsed /\ file \in Octets /\ offset \in Nat
  BY FollowsFacts
<1>3. section = "path" /\ status = "ok"
  BY <1>1 DEF At
<1>4. ASSUME c.ok \/ Whole
      PROVE  c.ok /\ c.str = mod.path /\ Reads(c.at, <<>>)
  <2> DEFINE r == <<>>
             s == mod.path
  <2>1. s \in Names
    BY <1>2, ModuleTypes
  <2>2. r \in Octets /\ Name(s) \in Octets
    BY <2>1, NoOctets, NameType
  <2>3. Reads(offset, Name(s) \o r)
    <3>1. Name(s) \o r = Name(s)
      BY <2>2, ConcatEmptySeq DEF Octets
    <3> QED BY <1>2, <1>3, <3>1 DEF AsWritten, Standing, StandsIn, FromPath
  <2> HIDE DEF r, s
  <2>4. c.ok /\ c.str = s /\ Reads(c.at, r)
    BY <1>2, <1>4, <2>1, <2>2, <2>3, NameRead
  <2> QED BY <2>4 DEF r, s
<1> HIDE DEF c
<1>5. CASE c.ok
  <2>1. dis' = [dis EXCEPT !.path = c.str] /\ Move(c.at, "done")
    BY <1>1, <1>5
  <2>2. /\ dis'.path = mod.path /\ dis'.name = dis.name /\ dis'.signature = dis.signature
        /\ dis'.header = dis.header /\ dis'.code = dis.code /\ dis'.types = dis.types
        /\ dis'.links = dis.links /\ dis'.imports = dis.imports /\ dis'.handler = dis.handler
    BY <1>2, <1>4, <1>5, <2>1, SetPath
  <2>3. /\ section' = "done" /\ offset' = c.at /\ UNCHANGED <<mod, file, damage, status>>
    BY <2>1 DEF Move
  <2>4. Prefix' /\ CodeKept' /\ TypesKept' /\ LinksKept'
    BY <1>2, <2>2, <2>3, StillKept DEF AsWritten
  <2>5. FrontKept' /\ NamesKept'
    BY <1>2, <1>3, <2>2, <2>3 DEF AsWritten, FrontKept, NamesKept, Unopened, Late
  <2>6. ImportsKept'
    BY <1>2, <1>3, <2>2, <2>3 DEF AsWritten, ImportsKept, ImportsMean, Early, Unopened
  <2>7. Standing'
    BY <1>2, <1>4, <1>5, <2>2, <2>3 DEF AsWritten, Standing, StandsIn, Reads
  <2> QED BY <1>3, <2>3, <2>4, <2>5, <2>6, <2>7 DEF AsWritten
<1>6. CASE ~c.ok
  BY <1>1, <1>2, <1>4, <1>6, StopTaken DEF Panic, Loads
<1> QED BY <1>5, <1>6

-----------------------------------------------------------------------------
(* The inductive invariant holds.                                           *)

(* No step changes the module or its file.                                  *)
LEMMA FileStays == [Next]_vars => UNCHANGED <<mod, file, damage>>
<1> SUFFICES ASSUME [Next]_vars PROVE UNCHANGED <<mod, file, damage>>
  OBVIOUS
<1>1. CASE UNCHANGED vars
  BY <1>1 DEF vars
<1>2. CASE ReadMagic \/ ReadHeader \/ ReadInstruction \/ ReadType \/ EndLoop
  BY <1>2 DEF ReadMagic, ReadHeader, ReadInstruction, ReadType, EndLoop, Move, Panic
<1>3. CASE CreateHeap \/ ReadItem \/ EndData \/ ReadName \/ ReadLink
  BY <1>3 DEF CreateHeap, ReadItem, EndData, ReadName, ReadLink, Move, Panic
<1>4. CASE BeginImports \/ ReadImportModule \/ ReadImport \/ EndImports
  BY <1>4 DEF BeginImports, ReadImportModule, ReadImport, EndImports, Move, Panic
<1>5. CASE BeginHandlers \/ ReadHandler \/ EndHandlers \/ ReadPath
  BY <1>5 DEF BeginHandlers, ReadHandler, EndHandlers, ReadPath, Move, Panic
<1>6. CASE HeapStops
  BY <1>6 DEF HeapStops
<1> QED BY <1>1, <1>2, <1>3, <1>4, <1>5, <1>6 DEF Next, Parse

(* Whatever the step, what was read is what was written.                    *)
LEMMA StepTaken == Follows /\ [Next]_vars => AsWritten'
<1> SUFFICES ASSUME Follows, [Next]_vars PROVE AsWritten'
  OBVIOUS
<1>1. CASE UNCHANGED vars
  <2>1. AsWritten
    BY FollowsFacts
  <2>2. UNCHANGED <<mod, file, damage, cursor, dis>> /\ (status' = "panic" => ~Loads)
    BY <1>1, <2>1 DEF vars, AsWritten, Loads
  <2> QED BY <2>1, <2>2, StopTaken
<1>2. CASE ReadMagic \/ ReadHeader \/ ReadInstruction \/ ReadType \/ EndLoop
  BY <1>2, ReadMagicTaken, ReadHeaderTaken, ReadInstructionTaken, ReadTypeTaken, EndLoopTaken
<1>3. CASE CreateHeap \/ ReadItem \/ EndData \/ ReadName \/ ReadLink
  BY <1>3, CreateHeapTaken, ReadItemTaken, EndDataTaken, ReadNameTaken, ReadLinkTaken
<1>4. CASE BeginImports \/ ReadImportModule \/ ReadImport \/ EndImports
  BY <1>4, BeginImportsTaken, ReadImportModuleTaken, ReadImportTaken, EndImportsTaken
<1>5. CASE BeginHandlers \/ ReadHandler \/ EndHandlers \/ ReadPath
  BY <1>5, BeginHandlersTaken, NoHandler, ReadPathTaken
<1>6. CASE HeapStops
  BY <1>6, HeapStopsTaken
<1> QED BY <1>1, <1>2, <1>3, <1>4, <1>5, <1>6 DEF Next, Parse

(* Before the first step nothing has been read, and the file is the         *)
(* encoder's up to where it was cut.                                        *)
LEMMA InitTrip == Init => TripInv
<1> SUFFICES ASSUME Init, Handlerless, damage # "byte" PROVE AsWritten
  BY InitInv DEF TripInv
<1> DEFINE e == Encode(mod)
<1>1. mod \in Modules /\ damage \in {"none", "cut"} /\ file \in Damaged(mod, damage, 0, Len(e))
  BY EncoderAssumption DEF Init, InitWith
<1>2. Len(e) \in Nat /\ e \in Octets
  BY <1>1, ModuleWritten
<1>3. ASSUME damage = "none" PROVE Prefix
  BY <1>1, <1>2, <1>3 DEF Damaged, Prefix, Begins, Whole
<1>4. ASSUME damage = "cut" PROVE Prefix
  <2>1. PICK n \in 0 .. Len(e) - 1 : file = SubSeq(e, 1, n)
    BY <1>1, <1>4 DEF Damaged
  <2> HIDE DEF e
  <2>2. 1 \in Int /\ n \in Int /\ n <= Len(e) /\ n < Len(e) /\ \A i \in 1 .. n : e[i] \in Octet
    <3>1. \A i \in 1 .. Len(e) : e[i] \in Octet
      BY <1>2, ElementOfSeq DEF Octets
    <3> QED BY <1>2, <2>1, <3>1
  <2>3. /\ Len(file) = IF 1 <= n THEN n - 1 + 1 ELSE 0
        /\ \A i \in 1 .. n - 1 + 1 : file[i] = e[1 + i - 1]
    BY <2>1, <2>2, SubSeqProperties
  <2>4. n - 1 + 1 = n /\ (~(1 <= n) => n = 0) /\ \A i \in 1 .. n : 1 + i - 1 = i
    BY <1>2, <2>1
  <2>5. Len(file) = n /\ \A i \in 1 .. n : file[i] = e[i]
    BY <2>3, <2>4
  <2> QED BY <1>1, <1>4, <2>2, <2>5 DEF Prefix, Begins, Whole, e
<1>5. Prefix
  BY <1>1, <1>3, <1>4
<1>6. /\ section = "magic" /\ offset = 0 /\ status = "ok"
      /\ dis.signature = <<>> /\ dis.code = <<>> /\ dis.types = <<>> /\ dis.links = <<>>
      /\ dis.imports = <<>> /\ dis.handler = <<>>
  BY DEF Init, InitWith, NewModule
<1>7. CodeKept /\ TypesKept /\ LinksKept
  BY <1>6 DEF CodeKept, TypesKept, LinksKept
<1>8. FrontKept /\ NamesKept /\ ImportsKept
  BY <1>6 DEF FrontKept, NamesKept, ImportsKept, Unopened, Late, Early
<1>9. Standing
  BY <1>6 DEF Standing, StandsIn
<1> QED BY <1>5, <1>6, <1>7, <1>8, <1>9 DEF AsWritten

(* TripInv is inductive.                                                    *)
LEMMA TripStep == TripInv /\ [Next]_vars => TripInv'
<1> SUFFICES ASSUME TripInv, [Next]_vars PROVE TripInv'
  OBVIOUS
<1>1. LoadInv'
  BY LoadStep DEF TripInv
<1>2. ASSUME Handlerless', damage' # "byte" PROVE AsWritten'
  <2>1. Handlerless /\ damage # "byte"
    BY <1>2, FileStays DEF Handlerless
  <2>2. Follows
    BY <2>1 DEF TripInv, Follows
  <2> QED BY <2>2, StepTaken
<1> QED BY <1>1, <1>2 DEF TripInv

(* A Module is the sum of its fields.                                       *)
LEMMA ModuleIs ==
  ASSUME dis \in Parsed
  PROVE  dis = [signature |-> dis.signature, header |-> dis.header, code |-> dis.code,
                types |-> dis.types, name |-> dis.name, links |-> dis.links,
                imports |-> dis.imports, handler |-> dis.handler, path |-> dis.path]
  BY DEF Parsed

(* Behind the path nothing is left to read.                                 *)
LEMMA AtTheEnd ==
  ASSUME AsWritten, mod \in Modules, file \in Octets, offset \in Nat, section = "done"
  PROVE  offset = Len(Encode(mod)) /\ (Whole => offset = Len(file))
<1>1. Reads(offset, <<>>) /\ Prefix
  BY DEF AsWritten, Standing, StandsIn
<1>2. Len(Encode(mod)) = offset + 0
  BY <1>1 DEF Reads, RunsOn
<1> QED BY <1>1, <1>2 DEF Prefix, Begins

(* What is loaded is what was written: for every module an encoder may      *)
(* write that has no exception handlers, load_module returns the Module the *)
(* whole file stands for, and has read it to its last byte.                 *)
THEOREM FilesComeBack == Spec => []RoundTrip
<1>1. ASSUME TripInv PROVE RoundTrip
  <2> SUFFICES ASSUME section = "done", Whole, Handlerless
               PROVE  dis = Meaning(mod) /\ offset = Len(file)
    BY DEF RoundTrip
  <2>1. Follows
    BY <1>1 DEF TripInv, Follows, Whole
  <2>2. /\ LoadInv /\ AsWritten /\ mod \in Modules /\ IsModule(mod) /\ file \in Octets
        /\ offset \in Nat /\ dis \in Parsed /\ mod.flag # HASEXCEPT
    BY <2>1, FollowsFacts
  <2>3. section \notin Unopened /\ section # "magic" /\ section \in Late
    BY DEF Unopened, Late
  <2>4. /\ dis.signature = mod.signature /\ dis.header = AllUnsigned(Header(mod), mod.wide)
        /\ dis.name = mod.name /\ dis.path = mod.path /\ dis.imports = ImportsMean
        /\ dis.handler = <<>>
    BY <2>2, <2>3 DEF AsWritten, FrontKept, NamesKept, ImportsKept, Standing
  <2>5. /\ Len(dis.code) = Len(mod.code) /\ Len(dis.types) = Len(mod.types)
        /\ Len(dis.links) = Len(mod.links)
    <3>1. /\ Len(dis.code) = dis.header[3] /\ Len(dis.types) = TypeCount
          /\ Len(dis.links) = LinkCount
      BY <2>2, <2>3 DEF LoadInv, CodeCounted, TypesCounted, LinksCounted, Unopened
    <3> QED BY <2>1, <2>3, <3>1, HeaderMeans
  <2>6. /\ \A k \in 1 .. Len(mod.code) : dis.code[k] = MeaningOfCode(mod.code[k], mod.wide)
        /\ \A k \in 1 .. Len(mod.types) :
             dis.types[k] = [mod.types[k] EXCEPT !.size = Unsigned(@, mod.wide)]
        /\ \A k \in 1 .. Len(mod.links) :
             dis.links[k] = [mod.links[k] EXCEPT !.pc = Unsigned(@, mod.wide)]
    BY <2>2, <2>5 DEF AsWritten, CodeKept, TypesKept, LinksKept, CodeMeans, TypeMeans, LinkMeans
  <2>7. /\ dis.code = [k \in 1 .. Len(mod.code) |-> dis.code[k]]
        /\ dis.types = [k \in 1 .. Len(mod.types) |-> dis.types[k]]
        /\ dis.links = [k \in 1 .. Len(mod.links) |-> dis.links[k]]
        /\ DOMAIN mod.code = 1 .. Len(mod.code) /\ DOMAIN mod.types = 1 .. Len(mod.types)
        /\ DOMAIN mod.links = 1 .. Len(mod.links)
    <3>1. /\ dis.code \in Seq(Instructions) /\ dis.types \in Seq(TypesRead) /\ dis.links \in Seq(LinksRead)
      BY <2>2, ParsedFields
    <3>2. mod.code \in Seq(Codes) /\ mod.types \in Seq(Types) /\ mod.links \in Seq(Links)
      BY <2>2, ModuleTypes
    <3>3. /\ dis.code = [k \in 1 .. Len(dis.code) |-> dis.code[k]]
          /\ dis.types = [k \in 1 .. Len(dis.types) |-> dis.types[k]]
          /\ dis.links = [k \in 1 .. Len(dis.links) |-> dis.links[k]]
      BY <3>1, LenProperties
    <3> QED BY <2>5, <3>2, <3>3, LenProperties
  <2>8. dis.code = Meaning(mod).code
    BY <2>6, <2>7 DEF Meaning
  <2>9. dis.types = Meaning(mod).types
    BY <2>6, <2>7 DEF Meaning
  <2>10. dis.links = Meaning(mod).links
    BY <2>6, <2>7 DEF Meaning
  <2>11. /\ dis.signature = Meaning(mod).signature /\ dis.header = Meaning(mod).header
         /\ dis.name = Meaning(mod).name /\ dis.path = Meaning(mod).path
         /\ dis.imports = Meaning(mod).imports /\ dis.handler = Meaning(mod).handler
    BY <2>2, <2>4 DEF Meaning, ImportsMean
  <2>12. Meaning(mod) =
           [signature |-> Meaning(mod).signature, header |-> Meaning(mod).header,
            code |-> Meaning(mod).code, types |-> Meaning(mod).types, name |-> Meaning(mod).name,
            links |-> Meaning(mod).links, imports |-> Meaning(mod).imports,
            handler |-> Meaning(mod).handler, path |-> Meaning(mod).path]
    BY DEF Meaning
  <2>13. dis = Meaning(mod)
    BY <2>2, <2>8, <2>9, <2>10, <2>11, <2>12, ModuleIs
  <2> QED BY <2>2, <2>13, AtTheEnd
<1> QED BY <1>1, InitTrip, TripStep, PTL DEF Spec

(* load_module never panics on the whole file of such a module, if it has a *)
(* source path.                                                             *)
THEOREM WholeFilesLoad == Spec => []WholeLoads
<1>1. ASSUME TripInv PROVE WholeLoads
  BY <1>1 DEF TripInv, AsWritten, WholeLoads, Loads, Whole, Handlerless
<1> QED BY <1>1, InitTrip, TripStep, PTL DEF Spec

(* Cut short at any byte, the file of a module without exception handlers   *)
(* is not taken for a module.                                               *)
THEOREM CutFilesRejected == Spec => [](Handlerless => CutRejected)
<1>1. ASSUME TripInv, Handlerless PROVE CutRejected
  <2> SUFFICES ASSUME damage = "cut", section = "done" PROVE FALSE
    BY DEF CutRejected
  <2>1. Follows
    BY <1>1 DEF TripInv, Follows
  <2>2. /\ LoadInv /\ AsWritten /\ Prefix /\ mod \in Modules /\ file \in Octets /\ offset \in Nat
        /\ Len(file) \in Nat /\ Len(Encode(mod)) \in Nat
    BY <2>1, FollowsFacts
  <2>3. offset = Len(Encode(mod)) /\ offset <= Len(file)
    BY <2>2, AtTheEnd DEF LoadInv
  <2>4. Len(file) < Len(Encode(mod))
    BY <2>2 DEF Prefix, Begins, Whole
  <2> QED BY <2>2, <2>3, <2>4
<1>2. TripInv => (Handlerless => CutRejected)
  BY <1>1
<1> QED BY <1>2, InitTrip, TripStep, PTL DEF Spec
=============================================================================
