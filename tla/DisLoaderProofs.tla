-------------------------- MODULE DisLoaderProofs --------------------------
(***************************************************************************)
(* Proofs about DisLoader, for every set of modules an encoder may write   *)
(* and every damage to their files.                                        *)
(***************************************************************************)
EXTENDS FormatProofs

(* A byte of the file, read at an offset inside it.                         *)
LEMMA ByteType ==
  ASSUME file \in Octets, NEW at \in Nat, at < Len(file)
  PROVE  file[at + 1] \in Octet
<1>1. Len(file) \in Nat /\ \A k \in 1 .. Len(file) : file[k] \in Octet
  BY DEF Octets
<1>2. at + 1 \in 1 .. Len(file)
  BY <1>1
<1> QED BY <1>1, <1>2

(* The four bytes parse_operand and parse_word are handed.                  *)
LEMMA FourBytes ==
  ASSUME file \in Octets, NEW at \in Nat, Has(at, 4)
  PROVE  /\ file[at + 1] \in Octet /\ file[at + 2] \in Octet
         /\ file[at + 3] \in Octet /\ file[at + 4] \in Octet
<1>1. Len(file) \in Nat /\ \A k \in 1 .. Len(file) : file[k] \in Octet
  BY DEF Octets
<1>2. at + 4 <= Len(file)
  BY DEF Has
<1>3. {at + 1, at + 2, at + 3, at + 4} \subseteq 1 .. Len(file)
  BY <1>1, <1>2
<1> QED BY <1>1, <1>3

(* An operand of a file has one of three sizes, and a value.                *)
LEMMA OperandType ==
  ASSUME file \in Octets, NEW at \in Nat, Has(at, Peek)
  PROVE  /\ ParseOperand(file, at).size \in {1, 2, 4}
         /\ ParseOperand(file, at).val \in Int
<1> DEFINE b == file[at + 1]
           c == file[at + 2]
           d == file[at + 3]
           e == file[at + 4]
           w == b \div 64
<1>1. b \in Int /\ c \in Int /\ d \in Int /\ e \in Int
  BY FourBytes, OctetInt DEF Peek
<1>2. w \in Int /\ b % 64 \in Int
  BY <1>1
<1>3. ParseOperand(file, at) =
        IF w = 0 THEN [size |-> 1, val |-> b]
        ELSE IF w = 1 THEN [size |-> 1, val |-> b - 128]
        ELSE IF w = 2 THEN [size |-> 2, val |-> (b % 64) * 256 + c]
        ELSE [size |-> 4, val |-> (b % 64) * 16777216 + c * 65536 + d * 256 + e]
  BY DEF ParseOperand
<1>4. \A x \in Int : x * 256 \in Int /\ x * 65536 \in Int /\ x * 16777216 \in Int
  OBVIOUS
<1> HIDE DEF b, c, d, e, w
<1> QED BY <1>1, <1>2, <1>3, <1>4

(* A word of a file.                                                        *)
LEMMA WordType ==
  ASSUME file \in Octets, NEW at \in Nat, Has(at, 4)
  PROVE  ParseWord(file, at) \in Int
<1>1. /\ file[at + 1] \in Int /\ file[at + 2] \in Int
      /\ file[at + 3] \in Int /\ file[at + 4] \in Int
  BY FourBytes, OctetInt
<1> QED BY <1>1 DEF ParseWord

(* Bytes of a file are bytes.                                               *)
LEMMA SliceType ==
  ASSUME file \in Octets, NEW from \in Nat, NEW to \in Int, to <= Len(file)
  PROVE  SubSeq(file, from + 1, to) \in Octets
<1>1. Len(file) \in Nat /\ \A k \in 1 .. Len(file) : file[k] \in Octet
  BY DEF Octets
<1>2. \A i \in from + 1 .. to : file[i] \in Octet
  BY <1>1
<1> QED BY <1>2, SubSeqProperties DEF Octets

(* Any set of numbers from a natural number on has a least one.             *)
LEMMA LeastOf ==
  ASSUME NEW Z \in SUBSET Nat, Z # {}
  PROVE  LET z == CHOOSE z \in Z : \A y \in Z : z <= y IN
         z \in Z /\ \A y \in Z : z <= y
<1> DEFINE T == {n \in Nat : \A y \in Z : n <= y}
<1>1. CASE \A n \in Nat : n \in T => n + 1 \in T
  <2>1. 0 \in T
    OBVIOUS
  <2>2. \A n \in Nat : n \in T
    BY <1>1, <2>1, NatSetInduction
  <2>3. PICK y \in Z : TRUE
    OBVIOUS
  <2>4. y + 1 \in T
    BY <2>2, <2>3
  <2> QED BY <2>3, <2>4
<1>2. CASE \E n \in Nat : n \in T /\ n + 1 \notin T
  <2>1. PICK n \in Nat : n \in T /\ n + 1 \notin T
    BY <1>2
  <2>2. PICK y \in Z : ~(n + 1 <= y)
    BY <2>1
  <2>3. y = n
    BY <2>1, <2>2
  <2>4. n \in Z /\ \A x \in Z : n <= x
    BY <2>1, <2>3
  <2> QED BY <2>4
<1> QED BY <1>1, <1>2

(* A name that ends inside the file is bytes of it, and the cursor behind   *)
(* its zero has moved, to the end of the file at most.                      *)
LEMMA CStringType ==
  ASSUME file \in Octets, NEW at \in Nat, CString(at).ok
  PROVE  /\ CString(at).str \in Octets
         /\ CString(at).at \in at + 1 .. Len(file)
<1> DEFINE z == CHOOSE z \in Zeros(at) : \A y \in Zeros(at) : z <= y
<1>1. Zeros(at) # {}
  BY DEF CString
<1>2. Len(file) \in Nat
  BY DEF Octets
<1>3. Zeros(at) \in SUBSET (at .. Len(file) - 1) /\ Zeros(at) \in SUBSET Nat
  BY <1>2 DEF Zeros
<1>4. z \in Zeros(at)
  BY <1>1, <1>3, LeastOf
<1>5. CString(at) = [ok |-> TRUE, str |-> SubSeq(file, at + 1, z), at |-> z + 1]
  BY <1>1 DEF CString
<1> HIDE DEF z
<1>6. z \in at .. Len(file) - 1
  BY <1>3, <1>4
<1>7. SubSeq(file, at + 1, z) \in Octets
  BY <1>2, <1>6, SliceType
<1> QED BY <1>2, <1>5, <1>6, <1>7

-----------------------------------------------------------------------------
(* Operands one after the other.                                            *)

(* Where an operand ends: further on, or past the end of the file.          *)
LEMMA AfterFacts ==
  ASSUME file \in Octets, NEW p \in Nat
  PROVE  /\ PastEnd \in Nat
         /\ After[p] \in Nat
         /\ Has(p, Peek) => /\ After[p] = p + ParseOperand(file, p).size
                            /\ After[p] \in p + 1 .. p + 4
         /\ ~Has(p, Peek) => After[p] = PastEnd
<1>1. Len(file) \in Nat
  BY DEF Octets
<1>2. After[p] = IF Has(p, Peek) THEN p + ParseOperand(file, p).size ELSE PastEnd
  BY DEF After
<1>3. Has(p, Peek) => ParseOperand(file, p).size \in {1, 2, 4}
  BY OperandType
<1> QED BY <1>1, <1>2, <1>3 DEF PastEnd

(* The offsets of n operands: each where the one before it ends.            *)
Path(pos, at, n) ==
  /\ pos[0] = at
  /\ \A k \in 1 .. n : pos[k] = After[pos[k - 1]]

(* Operands read in a row: where each one begins, and what is read there.   *)
LEMMA OperandsPath ==
  ASSUME NEW at, NEW n \in Nat
  PROVE  \E pos : /\ Path(pos, at, n)
                  /\ Operands(at, n).ok <=> pos[n] < PastEnd
                  /\ Operands(at, n).at = pos[n]
                  /\ pos[n] < PastEnd =>
                       /\ Operands(at, n).val = [k \in 1 .. n |-> ParseOperand(file, pos[k - 1]).val]
                       /\ Operands(at, n).size = [k \in 1 .. n |-> ParseOperand(file, pos[k - 1]).size]
<1> DEFINE pos == Iterated(at, After, n)
<1>1. pos = CHOOSE f : f = [k \in 0 .. n |-> IF k = 0 THEN at ELSE After[f[k - 1]]]
  BY DEF Iterated
<1> DEFINE read == IF pos[n] < PastEnd
                   THEN [k \in 1 .. n |-> ParseOperand(file, pos[k - 1])] ELSE <<>>
<1>2. Operands(at, n) = [ok |-> pos[n] < PastEnd, at |-> pos[n],
                         val |-> [k \in DOMAIN read |-> read[k].val],
                         size |-> [k \in DOMAIN read |-> read[k].size]]
  BY <1>1 DEF Operands
<1>3. Path(pos, at, n)
  BY Iteration DEF Path
<1>4. pos[n] < PastEnd =>
        DOMAIN read = 1 .. n /\ \A k \in 1 .. n : read[k] = ParseOperand(file, pos[k - 1])
  OBVIOUS
<1> HIDE DEF pos
<1>4a. Operands(at, n).ok = (pos[n] < PastEnd)
  BY <1>2
<1>4b. Operands(at, n).ok <=> pos[n] < PastEnd
  BY <1>4a
<1>5. /\ Operands(at, n).ok <=> pos[n] < PastEnd
      /\ Operands(at, n).at = pos[n]
      /\ Operands(at, n).val = [k \in DOMAIN read |-> read[k].val]
      /\ Operands(at, n).size = [k \in DOMAIN read |-> read[k].size]
  BY <1>2, <1>4b
<1> HIDE DEF read
<1>6. pos[n] < PastEnd =>
        /\ Operands(at, n).val = [k \in 1 .. n |-> ParseOperand(file, pos[k - 1]).val]
        /\ Operands(at, n).size = [k \in 1 .. n |-> ParseOperand(file, pos[k - 1]).size]
  BY <1>4, <1>5
<1> QED BY <1>3, <1>5, <1>6

(* Those beginnings are offsets.                                            *)
LEMMA PathType ==
  ASSUME file \in Octets, NEW at \in Nat, NEW n \in Nat, NEW pos, Path(pos, at, n)
  PROVE  \A k \in 0 .. n : pos[k] \in Nat
<1> DEFINE T == {k \in Nat : k \in 0 .. n => pos[k] \in Nat}
<1>1. 0 \in T
  BY DEF Path
<1>2. ASSUME NEW k \in Nat, k \in T PROVE k + 1 \in T
  <2> SUFFICES ASSUME k + 1 \in 0 .. n PROVE pos[k + 1] \in Nat
    OBVIOUS
  <2>1. k \in 0 .. n /\ k + 1 \in 1 .. n
    OBVIOUS
  <2>2. pos[k] \in Nat
    BY <1>2, <2>1
  <2>3. pos[k + 1] = After[pos[k]]
    BY <2>1 DEF Path
  <2> QED BY <2>2, <2>3, AfterFacts
<1>3. \A k \in Nat : k \in T
  BY <1>1, <1>2, NatSetInduction
<1> QED BY <1>3

(* When the last operand lies in the file, so do all of them.               *)
LEMMA PathInFile ==
  ASSUME file \in Octets, NEW at \in Nat, NEW n \in Nat, NEW pos, Path(pos, at, n),
         pos[n] < PastEnd
  PROVE  \A k \in 1 .. n :
           /\ pos[k - 1] \in Nat /\ pos[k] \in Nat
           /\ Has(pos[k - 1], Peek)
           /\ pos[k] = pos[k - 1] + ParseOperand(file, pos[k - 1]).size
           /\ pos[k] \in pos[k - 1] + 1 .. pos[k - 1] + 4
<1> DEFINE T == {j \in Nat : j \in 0 .. n => pos[n - j] < PastEnd}
<1>0. \A k \in 0 .. n : pos[k] \in Nat
  BY PathType
<1>1. ASSUME NEW k \in 1 .. n, pos[k] < PastEnd
      PROVE  Has(pos[k - 1], Peek)
  <2>1. k - 1 \in 0 .. n /\ k \in 0 .. n /\ pos[k] = After[pos[k - 1]]
    BY DEF Path
  <2>2. ~Has(pos[k - 1], Peek) => pos[k] = PastEnd
    BY <1>0, <2>1, AfterFacts
  <2> QED BY <1>0, <1>1, <2>1, <2>2, AfterFacts
<1>2. 0 \in T
  OBVIOUS
<1>3. ASSUME NEW j \in Nat, j \in T PROVE j + 1 \in T
  <2> SUFFICES ASSUME j + 1 \in 0 .. n PROVE pos[n - (j + 1)] < PastEnd
    OBVIOUS
  <2> DEFINE k == n - j
  <2>1. k \in 1 .. n /\ n - (j + 1) = k - 1 /\ j \in 0 .. n /\ k - 1 \in 0 .. n
    OBVIOUS
  <2>2. pos[k] < PastEnd
    BY <1>3, <2>1
  <2> HIDE DEF k
  <2>3. Has(pos[k - 1], Peek) /\ pos[k - 1] \in Nat
    BY <1>0, <1>1, <2>1, <2>2
  <2>4. Len(file) \in Nat
    BY DEF Octets
  <2> QED BY <2>1, <2>3, <2>4 DEF Has, Peek, PastEnd
<1>4. \A j \in Nat : j \in T
  BY <1>2, <1>3, NatSetInduction
<1>5. ASSUME NEW k \in 1 .. n
      PROVE  /\ pos[k - 1] \in Nat /\ pos[k] \in Nat
             /\ Has(pos[k - 1], Peek)
             /\ pos[k] = pos[k - 1] + ParseOperand(file, pos[k - 1]).size
             /\ pos[k] \in pos[k - 1] + 1 .. pos[k - 1] + 4
  <2>1. n - k \in Nat /\ n - k \in 0 .. n /\ n - (n - k) = k /\ k - 1 \in 0 .. n /\ k \in 0 .. n
    OBVIOUS
  <2>2. pos[k] < PastEnd
    BY <1>4, <2>1
  <2>3. Has(pos[k - 1], Peek)
    BY <1>1, <2>2
  <2>4. pos[k] = After[pos[k - 1]]
    BY DEF Path
  <2> QED BY <1>0, <2>1, <2>3, <2>4, AfterFacts
<1> QED BY <1>5

(* n operands that lie in the file: where they end, and their types.        *)
LEMMA OperandsType ==
  ASSUME file \in Octets, NEW at \in Nat, NEW n \in Nat, Operands(at, n).ok
  PROVE  /\ Operands(at, n).at \in Nat
         /\ Operands(at, n).at \in at + n .. Len(file)
         /\ Operands(at, n).val \in Seq(Int) /\ Len(Operands(at, n).val) = n
         /\ Operands(at, n).size \in Seq({1, 2, 4}) /\ Len(Operands(at, n).size) = n
         /\ n > 0 => Operands(at, n).size[n] <= Operands(at, n).at - at - (n - 1)
<1>1. PICK pos : /\ Path(pos, at, n) /\ pos[n] < PastEnd
                 /\ Operands(at, n).at = pos[n]
                 /\ Operands(at, n).val = [k \in 1 .. n |-> ParseOperand(file, pos[k - 1]).val]
                 /\ Operands(at, n).size = [k \in 1 .. n |-> ParseOperand(file, pos[k - 1]).size]
  <2>1. PICK pos : /\ Path(pos, at, n)
                   /\ Operands(at, n).ok <=> pos[n] < PastEnd
                   /\ Operands(at, n).at = pos[n]
                   /\ pos[n] < PastEnd =>
                        /\ Operands(at, n).val = [k \in 1 .. n |-> ParseOperand(file, pos[k - 1]).val]
                        /\ Operands(at, n).size = [k \in 1 .. n |-> ParseOperand(file, pos[k - 1]).size]
    BY OperandsPath
  <2> QED BY <2>1
<1>2. \A k \in 1 .. n :
           /\ pos[k - 1] \in Nat /\ pos[k] \in Nat
           /\ Has(pos[k - 1], Peek)
           /\ pos[k] = pos[k - 1] + ParseOperand(file, pos[k - 1]).size
           /\ pos[k] \in pos[k - 1] + 1 .. pos[k - 1] + 4
  BY <1>1, PathInFile
<1>3. \A k \in 1 .. n : /\ ParseOperand(file, pos[k - 1]).size \in {1, 2, 4}
                        /\ ParseOperand(file, pos[k - 1]).val \in Int
  BY <1>2, OperandType
<1>4. \A k \in 0 .. n : pos[k] \in Nat
  BY <1>1, PathType
<1> DEFINE T == {k \in Nat : k \in 0 .. n => pos[k] >= at + k}
<1>5. \A k \in Nat : k \in T
  <2>1. 0 \in T
    BY <1>1 DEF Path
  <2>2. ASSUME NEW k \in Nat, k \in T PROVE k + 1 \in T
    <3> SUFFICES ASSUME k + 1 \in 0 .. n PROVE pos[k + 1] >= at + (k + 1)
      OBVIOUS
    <3>1. k + 1 \in 1 .. n /\ k + 1 - 1 = k /\ k \in 0 .. n
      OBVIOUS
    <3>2. pos[k + 1] >= pos[k] + 1
      BY <1>2, <1>4, <3>1
    <3> QED BY <1>4, <2>2, <3>1, <3>2
  <2> QED BY <2>1, <2>2, NatSetInduction
<1>6. \A k \in 0 .. n : pos[k] >= at + k
  BY <1>5
<1>7. pos[n] \in Nat /\ pos[n] >= at + n /\ pos[n] <= Len(file)
  <2>1. Len(file) \in Nat
    BY DEF Octets
  <2> QED BY <1>1, <1>4, <1>6, <2>1 DEF PastEnd
<1>8. /\ Operands(at, n).val \in Seq(Int) /\ Len(Operands(at, n).val) = n
      /\ Operands(at, n).size \in Seq({1, 2, 4}) /\ Len(Operands(at, n).size) = n
  BY <1>1, <1>3
<1>9. n > 0 => Operands(at, n).size[n] <= pos[n] - at - (n - 1)
  <2> SUFFICES ASSUME n > 0 PROVE Operands(at, n).size[n] <= pos[n] - at - (n - 1)
    OBVIOUS
  <2>1. n \in 1 .. n /\ n - 1 \in 0 .. n
    OBVIOUS
  <2>2. Operands(at, n).size[n] = ParseOperand(file, pos[n - 1]).size
    BY <1>1, <2>1
  <2>3. pos[n] = pos[n - 1] + Operands(at, n).size[n] /\ pos[n - 1] >= at + (n - 1)
    BY <1>2, <1>6, <2>1, <2>2
  <2>4. Operands(at, n).size[n] \in Int
    BY <1>3, <2>1, <2>2
  <2> QED BY <1>4, <2>1, <2>3, <2>4
<1> QED BY <1>1, <1>7, <1>8, <1>9

-----------------------------------------------------------------------------
(* The inductive invariant: what each section has been told by the header,  *)
(* and how much of it is done.                                              *)

Unopened == {"magic", "header"}
Early    == Unopened \cup {"code", "types", "heap"}
Late     == {"imports", "import", "handlers", "handler", "path", "done"}

HeaderRead ==
  section \notin Unopened =>
    /\ Len(dis.header) = 8
    /\ Flag \in RuntimeFlags
    /\ \A k \in 3 .. 6 : dis.header[k] >= 0

CodeCounted ==
  /\ section \in Unopened => Len(dis.code) = 0
  /\ section = "code" => Len(dis.code) + left = dis.header[3]
  /\ section \notin Unopened \cup {"code"} => Len(dis.code) = dis.header[3]

TypesCounted ==
  /\ section \in Unopened \cup {"code"} => Len(dis.types) = 0
  /\ section = "types" => Len(dis.types) + left = TypeCount
  /\ section \notin Unopened \cup {"code", "types"} => Len(dis.types) = TypeCount

HeapDescribed ==
  section \notin Early => DescriptorValid(dis.types, EntryType, DataSize)

LinksCounted ==
  /\ section \in Early \cup {"data", "name"} => Len(dis.links) = 0
  /\ section = "links" => Len(dis.links) + left = LinkCount
  /\ section \in Late => Len(dis.links) = LinkCount
  /\ \A k \in 1 .. Len(dis.links) : dis.links[k].desc \in 0 .. Len(dis.types) - 1

ImportsOpen == inner > 0 => section = "import" /\ Len(dis.imports) > 0

LoadInv ==
  /\ TypeOK
  /\ HeaderRead /\ CodeCounted /\ TypesCounted /\ HeapDescribed /\ LinksCounted
  /\ ImportsOpen
  /\ section = "done" => offset <= Len(file)

-----------------------------------------------------------------------------
(* The Module being filled stays one whichever field is set, and the others *)
(* stay.                                                                    *)
LEMMA ParsedFields ==
  ASSUME dis \in Parsed
  PROVE  /\ dis.signature \in Octets /\ dis.header \in Seq(Int)
         /\ dis.code \in Seq(Instructions) /\ dis.types \in Seq(TypesRead)
         /\ dis.name \in Octets /\ dis.links \in Seq(LinksRead)
         /\ dis.imports \in Seq(Seq(ImportsRead))
         /\ dis.handler \in Seq(Int) /\ dis.path \in Octets
  BY DEF Parsed

(* Filling a field of the Module with what the field holds leaves a Module. *)
LEMMA ParsedUpdates ==
  ASSUME dis \in Parsed
  PROVE  /\ \A x \in Octets : /\ [dis EXCEPT !.signature = x] \in Parsed
                              /\ [dis EXCEPT !.name = x] \in Parsed
                              /\ [dis EXCEPT !.path = x] \in Parsed
         /\ \A x \in Seq(Int) : /\ [dis EXCEPT !.header = x] \in Parsed
                                /\ [dis EXCEPT !.handler = x] \in Parsed
         /\ \A x \in Seq(Instructions) : [dis EXCEPT !.code = x] \in Parsed
         /\ \A x \in Seq(TypesRead) : [dis EXCEPT !.types = x] \in Parsed
         /\ \A x \in Seq(LinksRead) : [dis EXCEPT !.links = x] \in Parsed
         /\ \A x \in Seq(Seq(ImportsRead)) : [dis EXCEPT !.imports = x] \in Parsed
<1> DEFINE A == Octets
           B == Seq(Int)
           C == Seq(Instructions)
           D == Seq(TypesRead)
           E == Seq(LinksRead)
           F == Seq(Seq(ImportsRead))
<1>1. dis \in [signature : A, header : B, code : C, types : D, name : A, links : E,
               imports : F, handler : B, path : A]
  BY DEF Parsed
<1>2. Parsed = [signature : A, header : B, code : C, types : D, name : A, links : E,
               imports : F, handler : B, path : A]
  BY DEF Parsed
<1> HIDE DEF A, B, C, D, E, F
<1>3. \A x \in A : /\ [dis EXCEPT !.signature = x] \in Parsed
                   /\ [dis EXCEPT !.name = x] \in Parsed
                   /\ [dis EXCEPT !.path = x] \in Parsed
  BY <1>1, <1>2
<1>4. \A x \in B : /\ [dis EXCEPT !.header = x] \in Parsed
                   /\ [dis EXCEPT !.handler = x] \in Parsed
  BY <1>1, <1>2
<1>5. /\ \A x \in C : [dis EXCEPT !.code = x] \in Parsed
      /\ \A x \in D : [dis EXCEPT !.types = x] \in Parsed
      /\ \A x \in E : [dis EXCEPT !.links = x] \in Parsed
      /\ \A x \in F : [dis EXCEPT !.imports = x] \in Parsed
  BY <1>1, <1>2
<1> QED BY <1>3, <1>4, <1>5 DEF A, B, C, D, E, F

(* ... field by field.                                                      *)
LEMMA SetSignature ==
  ASSUME dis \in Parsed, NEW x, dis' = [dis EXCEPT !.signature = x]
  PROVE  /\ dis'.signature = x
         /\ dis'.header = dis.header /\ dis'.code = dis.code
         /\ dis'.types = dis.types /\ dis'.name = dis.name
         /\ dis'.links = dis.links /\ dis'.imports = dis.imports
         /\ dis'.handler = dis.handler /\ dis'.path = dis.path
  BY DEF Parsed

(* Filling the header leaves the other fields.                              *)
LEMMA SetHeader ==
  ASSUME dis \in Parsed, NEW x, dis' = [dis EXCEPT !.header = x]
  PROVE  /\ dis'.header = x
         /\ dis'.signature = dis.signature /\ dis'.code = dis.code
         /\ dis'.types = dis.types /\ dis'.name = dis.name
         /\ dis'.links = dis.links /\ dis'.imports = dis.imports
         /\ dis'.handler = dis.handler /\ dis'.path = dis.path
  BY DEF Parsed

(* Adding an instruction leaves the other fields.                           *)
LEMMA SetCode ==
  ASSUME dis \in Parsed, NEW x, dis' = [dis EXCEPT !.code = x]
  PROVE  /\ dis'.code = x
         /\ dis'.signature = dis.signature /\ dis'.header = dis.header
         /\ dis'.types = dis.types /\ dis'.name = dis.name
         /\ dis'.links = dis.links /\ dis'.imports = dis.imports
         /\ dis'.handler = dis.handler /\ dis'.path = dis.path
  BY DEF Parsed

(* Adding a type leaves the other fields.                                   *)
LEMMA SetTypes ==
  ASSUME dis \in Parsed, NEW x, dis' = [dis EXCEPT !.types = x]
  PROVE  /\ dis'.types = x
         /\ dis'.signature = dis.signature /\ dis'.header = dis.header
         /\ dis'.code = dis.code /\ dis'.name = dis.name
         /\ dis'.links = dis.links /\ dis'.imports = dis.imports
         /\ dis'.handler = dis.handler /\ dis'.path = dis.path
  BY DEF Parsed

(* Filling the name leaves the other fields.                                *)
LEMMA SetName ==
  ASSUME dis \in Parsed, NEW x, dis' = [dis EXCEPT !.name = x]
  PROVE  /\ dis'.name = x
         /\ dis'.signature = dis.signature /\ dis'.header = dis.header
         /\ dis'.code = dis.code /\ dis'.types = dis.types
         /\ dis'.links = dis.links /\ dis'.imports = dis.imports
         /\ dis'.handler = dis.handler /\ dis'.path = dis.path
  BY DEF Parsed

(* Adding a link leaves the other fields.                                   *)
LEMMA SetLinks ==
  ASSUME dis \in Parsed, NEW x, dis' = [dis EXCEPT !.links = x]
  PROVE  /\ dis'.links = x
         /\ dis'.signature = dis.signature /\ dis'.header = dis.header
         /\ dis'.code = dis.code /\ dis'.types = dis.types
         /\ dis'.name = dis.name /\ dis'.imports = dis.imports
         /\ dis'.handler = dis.handler /\ dis'.path = dis.path
  BY DEF Parsed

(* Adding to the imports leaves the other fields.                           *)
LEMMA SetImports ==
  ASSUME dis \in Parsed, NEW x, dis' = [dis EXCEPT !.imports = x]
  PROVE  /\ dis'.imports = x
         /\ dis'.signature = dis.signature /\ dis'.header = dis.header
         /\ dis'.code = dis.code /\ dis'.types = dis.types
         /\ dis'.name = dis.name /\ dis'.links = dis.links
         /\ dis'.handler = dis.handler /\ dis'.path = dis.path
  BY DEF Parsed

(* Filling the handler leaves the other fields.                             *)
LEMMA SetHandler ==
  ASSUME dis \in Parsed, NEW x, dis' = [dis EXCEPT !.handler = x]
  PROVE  /\ dis'.handler = x
         /\ dis'.signature = dis.signature /\ dis'.header = dis.header
         /\ dis'.code = dis.code /\ dis'.types = dis.types
         /\ dis'.name = dis.name /\ dis'.links = dis.links
         /\ dis'.imports = dis.imports /\ dis'.path = dis.path
  BY DEF Parsed

(* Filling the source path leaves the other fields.                         *)
LEMMA SetPath ==
  ASSUME dis \in Parsed, NEW x, dis' = [dis EXCEPT !.path = x]
  PROVE  /\ dis'.path = x
         /\ dis'.signature = dis.signature /\ dis'.header = dis.header
         /\ dis'.code = dis.code /\ dis'.types = dis.types
         /\ dis'.name = dis.name /\ dis'.links = dis.links
         /\ dis'.imports = dis.imports /\ dis'.handler = dis.handler
  BY DEF Parsed

(* A loader that stops keeps what it has.                                   *)
LEMMA StopInv ==
  ASSUME LoadInv, status' \in {"ok", "panic", "heap"},
         UNCHANGED <<mod, file, damage, cursor, dis>>
  PROVE  LoadInv'
  BY DEF LoadInv, TypeOK, HeaderRead, CodeCounted, TypesCounted, HeapDescribed, LinksCounted,
         ImportsOpen, cursor, Flag, DataSize, TypeCount, LinkCount, EntryType

(* Instructions: an addressing byte is made of modes.                       *)
LEMMA ModesType ==
  ASSUME NEW a \in Octet
  PROVE  /\ MidCount(a) \in 0 .. 1
         /\ OperandCount(SrcMode(a)) \in 0 .. 2 /\ OperandCount(DstMode(a)) \in 0 .. 2
         /\ MidMode(a) \in 0 .. 3 /\ SrcMode(a) \in 0 .. 7 /\ DstMode(a) \in 0 .. 7
<1>1. a \in Int /\ 0 <= a /\ a <= 255
  BY OctetInt
<1>2. MidMode(a) \in 0 .. 3 /\ SrcMode(a) \in 0 .. 7 /\ DstMode(a) \in 0 .. 7
  BY <1>1 DEF MidMode, SrcMode, DstMode
<1> QED BY <1>2 DEF MidCount, OperandCount

(* A slice of a sequence is one of the same elements.                       *)
LEMMA SubSeqType ==
  ASSUME NEW S, NEW s \in Seq(S), NEW i \in Nat, NEW j \in Int, i > 0, j <= Len(s)
  PROVE  SubSeq(s, i, j) \in Seq(S) /\ Len(SubSeq(s, i, j)) = IF i <= j THEN j - i + 1 ELSE 0
<1>1. \A k \in i .. j : s[k] \in S
  <2>1. Len(s) \in Nat /\ \A k \in 1 .. Len(s) : s[k] \in S
    OBVIOUS
  <2>2. \A k \in i .. j : k \in 1 .. Len(s)
    BY <2>1
  <2> QED BY <2>1, <2>2
<1> QED BY <1>1, SubSeqProperties

(* Operands as many as the addressing byte announces make an instruction.   *)
LEMMA InstructionType ==
  ASSUME NEW op \in Octet, NEW a \in Octet, NEW val \in Seq(Int),
         Len(val) = MidCount(a) + OperandCount(SrcMode(a)) + OperandCount(DstMode(a))
  PROVE  Instruction(op, a, val) \in Instructions
<1> DEFINE m == MidCount(a)
           n == OperandCount(SrcMode(a))
           mid == [k \in 1 .. m |-> IntoI16(val[k])]
           src == IF SrcMode(a) \in {6, 7} THEN <<>> ELSE SubSeq(val, m + 1, m + n)
           dst == SubSeq(val, m + n + 1, Len(val))
<1>1. m \in 0 .. 1 /\ n \in 0 .. 2 /\ OperandCount(DstMode(a)) \in 0 .. 2
  BY ModesType
<1>2. \A k \in 1 .. m : val[k] \in Int
  BY <1>1
<1>3. \A v \in Int : IntoI16(v) \in Int
  BY DEF IntoI16
<1>4. mid \in Seq(Int)
  <2>1. \A k \in 1 .. m : IntoI16(val[k]) \in Int
    BY <1>2, <1>3
  <2> QED BY <1>1, <2>1
<1>5. SubSeq(val, m + 1, m + n) \in Seq(Int)
  BY <1>1, SubSeqType
<1>6. dst \in Seq(Int)
  BY <1>1, SubSeqType
<1>7. src \in Seq(Int)
  BY <1>5
<1>8. Instruction(op, a, val) = [opcode |-> op, address |-> a, mid |-> mid, src |-> src, dst |-> dst]
  BY DEF Instruction
<1> HIDE DEF mid, src, dst
<1> QED BY <1>4, <1>6, <1>7, <1>8 DEF Instructions

-----------------------------------------------------------------------------
(* One lemma for each section: what LoadInv says is kept.                   *)

(* The magic number and the signature leave a Module of the right shape.    *)
LEMMA ReadMagicInv == LoadInv /\ ReadMagic => LoadInv'
<1> SUFFICES ASSUME LoadInv, ReadMagic PROVE LoadInv'
  OBVIOUS
<1> DEFINE m == Operands(0, 1)
           l == Operands(0, 2)
           n == ToUsize(l.val[2])
<1>1. file \in Octets /\ dis \in Parsed /\ At("magic") /\ UNCHANGED <<left, inner>>
  BY DEF LoadInv, TypeOK, ReadMagic
<1>2. CASE m.ok /\ Move(m.at, "header") /\ UNCHANGED dis
  <2>1. m.at \in Nat
    BY <1>1, <1>2, OperandsType
  <2> HIDE DEF m
  <2> QED BY <1>1, <1>2, <2>1 DEF Move, At, LoadInv, TypeOK, HeaderRead, CodeCounted, TypesCounted, HeapDescribed, LinksCounted,
         ImportsOpen, Unopened, Early, Late, Flag, DataSize, TypeCount, LinkCount, EntryType
<1>3. CASE /\ l.ok /\ Has(l.at, n)
           /\ dis' = [dis EXCEPT !.signature = SubSeq(file, l.at + 1, l.at + n)]
           /\ Move(l.at + n, "header")
  <2>1. l.at \in Nat /\ l.val[2] \in Int
    <3>1. 0 \in Nat /\ 2 \in Nat /\ l.ok
      BY <1>3
    <3>2. l.at \in Nat /\ l.val \in Seq(Int) /\ Len(l.val) = 2
      BY <1>1, <3>1, OperandsType
    <3> HIDE DEF l
    <3> QED BY <3>2
  <2>2. n \in Nat
    BY <2>1 DEF ToUsize, Huge
  <2> DEFINE x == SubSeq(file, l.at + 1, l.at + n)
  <2> HIDE DEF l, n
  <2>3. x \in Octets
    BY <1>1, <1>3, <2>1, <2>2, SliceType DEF Has
  <2> HIDE DEF x
  <2>4. dis' = [dis EXCEPT !.signature = x]
    BY <1>3 DEF x
  <2>5. dis' \in Parsed
    BY <1>1, <2>3, <2>4, ParsedUpdates
  <2>6. dis'.header = dis.header /\ dis'.code = dis.code /\ dis'.types = dis.types
        /\ dis'.links = dis.links /\ dis'.imports = dis.imports
    BY <1>1, <2>4, SetSignature
  <2> QED BY <1>1, <1>3, <2>1, <2>2, <2>5, <2>6 DEF Move, At, LoadInv, TypeOK, HeaderRead, CodeCounted, TypesCounted, HeapDescribed, LinksCounted,
         ImportsOpen, Unopened, Early, Late, Flag, DataSize, TypeCount, LinkCount, EntryType
<1>4. CASE Panic
  BY <1>4, StopInv DEF Panic
<1> QED BY <1>2, <1>3, <1>4 DEF ReadMagic

(* The header read has eight numbers, and sizes that are not negative.      *)
LEMMA ReadHeaderInv == LoadInv /\ ReadHeader => LoadInv'
<1> SUFFICES ASSUME LoadInv, ReadHeader PROVE LoadInv'
  OBVIOUS
<1> DEFINE h == Operands(offset, 8)
<1>1. file \in Octets /\ dis \in Parsed /\ offset \in Nat /\ At("header")
  BY DEF LoadInv, TypeOK, ReadHeader
<1>2. CASE HeaderValid(h) /\ dis' = [dis EXCEPT !.header = h.val]
           /\ left' = h.val[3] /\ inner' = 0 /\ Move(h.at, "code")
  <2>1. h.ok /\ h.val[1] \in RuntimeFlags /\ \A k \in 3 .. 6 : h.val[k] >= 0
    BY <1>2 DEF HeaderValid
  <2>2. h.at \in Nat /\ h.val \in Seq(Int) /\ Len(h.val) = 8
    BY <1>1, <2>1, OperandsType
  <2> HIDE DEF h
  <2>3. h.val[3] \in Nat
    BY <2>1, <2>2
  <2>5. dis' \in Parsed
    BY <1>1, <1>2, <2>2, ParsedUpdates
  <2>6. dis'.header = h.val /\ dis'.code = dis.code /\ dis'.types = dis.types
        /\ dis'.links = dis.links /\ dis'.imports = dis.imports
    BY <1>1, <1>2, SetHeader
  <2> QED BY <1>1, <1>2, <2>1, <2>2, <2>3, <2>5, <2>6 DEF Move, At, LoadInv, TypeOK, HeaderRead, CodeCounted, TypesCounted, HeapDescribed, LinksCounted,
         ImportsOpen, Unopened, Early, Late, Flag, DataSize, TypeCount, LinkCount, EntryType
<1>4. CASE Panic
  BY <1>4, StopInv DEF Panic
<1> QED BY <1>2, <1>4 DEF ReadHeader

(* One instruction more is read, one fewer is left.                         *)
LEMMA ReadInstructionInv == LoadInv /\ ReadInstruction => LoadInv'
<1> SUFFICES ASSUME LoadInv, ReadInstruction PROVE LoadInv'
  OBVIOUS
<1> DEFINE a == Byte(offset + 1)
           o == Operands(offset + 2, MidCount(a) + OperandCount(SrcMode(a))
                                                 + OperandCount(DstMode(a)))
           i == Instruction(Byte(offset), a, o.val)
<1>1. /\ file \in Octets /\ dis \in Parsed /\ offset \in Nat /\ left \in Nat
      /\ At("code") /\ left > 0
  BY DEF LoadInv, TypeOK, ReadInstruction
<1>2. CASE /\ Has(offset, 2) /\ o.ok
           /\ dis' = [dis EXCEPT !.code = Append(@, i)]
           /\ left' = left - 1 /\ inner' = 0 /\ Move(o.at, "code")
  <2>1. Byte(offset) \in Octet /\ a \in Octet
    <3>1. Len(file) \in Nat /\ offset + 2 <= Len(file)
      BY <1>1, <1>2 DEF Has, Octets
    <3>2. offset < Len(file) /\ offset + 1 < Len(file) /\ offset + 1 \in Nat
      BY <1>1, <3>1
    <3> QED BY <1>1, <3>2, ByteType DEF Byte
  <2> HIDE DEF a
  <2>2. MidCount(a) + OperandCount(SrcMode(a)) + OperandCount(DstMode(a)) \in Nat
    BY <2>1, ModesType
  <2>3. /\ o.at \in Nat /\ o.val \in Seq(Int)
        /\ Len(o.val) = MidCount(a) + OperandCount(SrcMode(a)) + OperandCount(DstMode(a))
    BY <1>1, <1>2, <2>2, OperandsType
  <2> HIDE DEF o
  <2>4. i \in Instructions
    BY <2>1, <2>3, InstructionType
  <2> HIDE DEF i
  <2> DEFINE x == Append(dis.code, i)
  <2>5. dis.code \in Seq(Instructions)
    BY <1>1, ParsedFields
  <2>6. x \in Seq(Instructions) /\ Len(x) = Len(dis.code) + 1 /\ Len(dis.code) \in Nat
    BY <2>4, <2>5, AppendProperties, LenProperties
  <2> HIDE DEF x
  <2>7. dis' = [dis EXCEPT !.code = x]
    BY <1>2 DEF x
  <2>8. dis' \in Parsed
    BY <1>1, <2>6, <2>7, ParsedUpdates
  <2>9. dis'.code = x /\ dis'.header = dis.header /\ dis'.types = dis.types
        /\ dis'.links = dis.links /\ dis'.imports = dis.imports
    BY <1>1, <2>7, SetCode
  <2>10. /\ section = "code" /\ section' = "code" /\ status' = status /\ offset' = o.at
         /\ left' = left - 1 /\ inner' = 0 /\ UNCHANGED <<mod, file, damage>>
    BY <1>1, <1>2 DEF Move, At
  <2>11. TypeOK'
    BY <1>1, <2>3, <2>8, <2>10 DEF LoadInv, TypeOK
  <2>12. HeaderRead' /\ CodeCounted' /\ TypesCounted'
    BY <2>6, <2>9, <2>10, <1>1 DEF LoadInv, HeaderRead, CodeCounted, TypesCounted, Unopened, Flag, TypeCount
  <2>13. HeapDescribed' /\ LinksCounted' /\ ImportsOpen'
    BY <2>9, <2>10 DEF LoadInv, HeapDescribed, LinksCounted, ImportsOpen, Early, Late, Unopened
  <2> QED BY <2>10, <2>11, <2>12, <2>13 DEF LoadInv
<1>4. CASE Panic
  BY <1>4, StopInv DEF Panic
<1> QED BY <1>2, <1>4 DEF ReadInstruction

(* One type more is read, one fewer is left.                                *)
LEMMA ReadTypeInv == LoadInv /\ ReadType => LoadInv'
<1> SUFFICES ASSUME LoadInv, ReadType PROVE LoadInv'
  OBVIOUS
<1> DEFINE o == Operands(offset, 3)
           n == IF o.val[3] < 0 THEN 0 ELSE o.val[3]
           t == [no |-> o.val[1], size |-> o.val[2], map |-> SubSeq(file, o.at + 1, o.at + n)]
<1>1. /\ file \in Octets /\ dis \in Parsed /\ offset \in Nat /\ left \in Nat
      /\ At("types") /\ left > 0
  BY DEF LoadInv, TypeOK, ReadType
<1>2. CASE /\ o.ok /\ Has(o.at, n)
           /\ dis' = [dis EXCEPT !.types = Append(@, t)]
           /\ left' = left - 1 /\ inner' = 0 /\ Move(o.at + n, "types")
  <2>1. o.at \in Nat /\ o.val[1] \in Int /\ o.val[2] \in Int /\ o.val[3] \in Int
    BY <1>1, <1>2, OperandsType
  <2> HIDE DEF o
  <2>2. n \in Nat
    BY <2>1
  <2> HIDE DEF n
  <2>3. SubSeq(file, o.at + 1, o.at + n) \in Octets
    BY <1>1, <1>2, <2>1, <2>2, SliceType DEF Has
  <2>4. t \in TypesRead
    BY <2>1, <2>3 DEF TypesRead
  <2> HIDE DEF t
  <2> DEFINE x == Append(dis.types, t)
  <2>5. dis.types \in Seq(TypesRead)
    BY <1>1, ParsedFields
  <2>6. x \in Seq(TypesRead) /\ Len(x) = Len(dis.types) + 1 /\ Len(dis.types) \in Nat
    BY <2>4, <2>5, AppendProperties, LenProperties
  <2> HIDE DEF x
  <2>7. dis' = [dis EXCEPT !.types = x]
    BY <1>2 DEF x
  <2>8. dis' \in Parsed
    BY <1>1, <2>6, <2>7, ParsedUpdates
  <2>9. dis'.types = x /\ dis'.header = dis.header /\ dis'.code = dis.code
        /\ dis'.links = dis.links /\ dis'.imports = dis.imports
    BY <1>1, <2>7, SetTypes
  <2>10. o.at + n \in Nat
    BY <2>1, <2>2
  <2>11. /\ section = "types" /\ section' = "types" /\ status' = status /\ offset' = o.at + n
         /\ left' = left - 1 /\ inner' = 0 /\ UNCHANGED <<mod, file, damage>>
    BY <1>1, <1>2 DEF ReadType, Move, At
  <2>12. TypeOK'
    BY <1>1, <2>8, <2>10, <2>11 DEF LoadInv, TypeOK
  <2>13. HeaderRead' /\ CodeCounted' /\ TypesCounted'
    BY <1>1, <2>6, <2>9, <2>11 DEF LoadInv, HeaderRead, CodeCounted, TypesCounted, Unopened, Flag, TypeCount
  <2>14. HeapDescribed' /\ LinksCounted' /\ ImportsOpen'
    BY <2>9, <2>11 DEF LoadInv, HeapDescribed, LinksCounted, ImportsOpen, Early, Late, Unopened
  <2> QED BY <2>11, <2>12, <2>13, <2>14 DEF LoadInv
<1>4. CASE Panic
  BY <1>4, StopInv DEF Panic
<1> QED BY <1>2, <1>4 DEF ReadType

(* A loop that ends has read as many parts as the header counts.            *)
LEMMA EndLoopInv == LoadInv /\ EndLoop => LoadInv'
<1> SUFFICES ASSUME LoadInv, EndLoop PROVE LoadInv'
  OBVIOUS
<1>1. dis' = dis /\ inner' = inner /\ left = 0 /\ status = "ok" /\ UNCHANGED <<mod, file, damage, status, offset>>
  BY DEF EndLoop, Move
<1>2. CASE section = "code" /\ left' = TypeCount /\ section' = "types"
  <2>1. TypeCount \in Nat
    BY <1>2, ParsedFields DEF LoadInv, TypeOK, HeaderRead, TypeCount, Unopened
  <2> QED BY <1>1, <1>2, <2>1 DEF LoadInv, TypeOK, HeaderRead, CodeCounted, TypesCounted, HeapDescribed, LinksCounted,
         ImportsOpen, Unopened, Early, Late, Flag, DataSize, TypeCount, LinkCount, EntryType
<1>3. CASE section = "types" /\ left' = 0 /\ section' = "heap"
  BY <1>1, <1>3 DEF LoadInv, TypeOK, HeaderRead, CodeCounted, TypesCounted, HeapDescribed, LinksCounted,
         ImportsOpen, Unopened, Early, Late, Flag, DataSize, TypeCount, LinkCount, EntryType
<1>4. CASE section = "links" /\ left' = 0 /\ section' = "imports"
  BY <1>1, <1>4 DEF LoadInv, TypeOK, HeaderRead, CodeCounted, TypesCounted, HeapDescribed, LinksCounted,
         ImportsOpen, Unopened, Early, Late, Flag, DataSize, TypeCount, LinkCount, EntryType
<1> QED BY <1>2, <1>3, <1>4 DEF EndLoop, Move

(* Past the heap, the entry type and the size of the data are described.    *)
LEMMA CreateHeapInv == LoadInv /\ CreateHeap => LoadInv'
<1> SUFFICES ASSUME LoadInv, CreateHeap PROVE LoadInv'
  OBVIOUS
<1>1. CASE DescriptorValid(dis.types, EntryType, DataSize)
           /\ Move(offset, "data") /\ UNCHANGED <<left, inner, dis>>
  BY <1>1 DEF CreateHeap, Move, At, LoadInv, TypeOK, HeaderRead, CodeCounted, TypesCounted, HeapDescribed, LinksCounted,
         ImportsOpen, Unopened, Early, Late, Flag, DataSize, TypeCount, LinkCount, EntryType
<1>2. CASE Panic
  BY <1>2, StopInv DEF Panic
<1> QED BY <1>1, <1>2 DEF CreateHeap

(* The payload of a valid item is a number of bytes.                        *)
LEMMA PayloadType ==
  ASSUME file \in Octets, NEW typ \in DataTypes, NEW count \in Nat
  PROVE  Payload(typ, count) \in Nat
<1> DEFINE n == IF count > Len(file) THEN Len(file) + 1 ELSE count
<1>1. n \in Nat
  BY DEF Octets
<1>2. Payload(typ, count) = ItemBytes(typ, n)
  BY DEF Payload
<1>3. typ \in {1, 2, 3, 4, 5, 6, 7, 8}
  BY DEF DataTypes
<1> HIDE DEF n
<1>4. n \in Nat /\ 4 * n \in Nat /\ 8 * n \in Nat
  BY <1>1
<1> QED BY <1>2, <1>3, <1>4 DEF ItemBytes

(* An item whose operands can be read has a code, a count and an end.       *)
LEMMA ItemOperandsType ==
  ASSUME file \in Octets, offset \in Nat, ItemOperands.ok, Has(offset, 1)
  PROVE  /\ Byte(offset) \in Octet
         /\ ItemOperands.at \in Nat /\ ItemOperands.at <= Len(file)
         /\ ItemOperands.val \in Seq(Int)
         /\ Len(ItemOperands.val) = IF Byte(offset) % 16 = 0 THEN 2 ELSE 1
         /\ DataCount(Byte(offset), ItemOperands) \in Int
<1> DEFINE n == IF Byte(offset) % 16 = 0 THEN 2 ELSE 1
<1>1. Byte(offset) \in Octet
  <2>1. Len(file) \in Nat
    BY DEF Octets
  <2>2. offset < Len(file)
    BY <2>1 DEF Has
  <2> QED BY <2>2, ByteType DEF Byte
<1>2. ItemOperands = Operands(offset + 1, n)
  BY DEF ItemOperands
<1>3. n \in Nat
  OBVIOUS
<1>4. /\ ItemOperands.at \in Nat /\ ItemOperands.at <= Len(file)
      /\ ItemOperands.val \in Seq(Int) /\ Len(ItemOperands.val) = n
  <2> HIDE DEF n
  <2>1. offset + 1 \in Nat
    OBVIOUS
  <2> QED BY <1>2, <1>3, <2>1, OperandsType
<1>5. ItemOperands.val[1] \in Int
  BY <1>4
<1>6. Byte(offset) % 16 \in Int
  BY <1>1, OctetInt
<1> QED BY <1>1, <1>4, <1>5, <1>6 DEF DataCount

(* An item moves the cursor, and never past the end of the file.            *)
LEMMA ReadItemInv == LoadInv /\ ReadItem => LoadInv'
<1> SUFFICES ASSUME LoadInv, ReadItem PROVE LoadInv'
  OBVIOUS
<1> DEFINE o == ItemOperands
           code == Byte(offset)
<1>1. CASE /\ Has(offset, 1) /\ ItemValid(code, o)
           /\ Move(AfterItem(code, o), "data") /\ UNCHANGED <<left, inner, dis>>
  <2>1. file \in Octets /\ offset \in Nat
    BY DEF LoadInv, TypeOK
  <2>2. o.ok /\ DataCount(code, o) >= 0 /\ code \div 16 \in DataTypes
    BY <1>1 DEF ItemValid
  <2>3. o.at \in Nat /\ DataCount(code, o) \in Nat
    BY <1>1, <2>1, <2>2, ItemOperandsType
  <2>4. AfterItem(code, o) \in Nat
    BY <2>1, <2>2, <2>3, PayloadType DEF AfterItem
  <2> HIDE DEF o, code
  <2> QED BY <1>1, <2>4 DEF ReadItem, Move, At, LoadInv, TypeOK, HeaderRead, CodeCounted, TypesCounted, HeapDescribed, LinksCounted,
         ImportsOpen, Unopened, Early, Late, Flag, DataSize, TypeCount, LinkCount, EntryType
<1>2. CASE Panic
  BY <1>2, StopInv DEF Panic
<1> QED BY <1>1, <1>2 DEF ReadItem

(* The zero byte behind the items leaves the Module.                        *)
LEMMA EndDataInv == LoadInv /\ EndData => LoadInv'
  BY DEF EndData, Move, At, LoadInv, TypeOK, HeaderRead, CodeCounted, TypesCounted, HeapDescribed, LinksCounted,
         ImportsOpen, Unopened, Early, Late, Flag, DataSize, TypeCount, LinkCount, EntryType

(* A heap that stops the process leaves the Module.                         *)
LEMMA HeapStopsInv == LoadInv /\ HeapStops => LoadInv'
  BY StopInv DEF HeapStops

(* The name is read, and as many links are left as the header counts.       *)
LEMMA ReadNameInv == LoadInv /\ ReadName => LoadInv'
<1> SUFFICES ASSUME LoadInv, ReadName PROVE LoadInv'
  OBVIOUS
<1> DEFINE c == CString(offset)
<1>1. CASE /\ c.ok /\ dis' = [dis EXCEPT !.name = c.str]
           /\ left' = LinkCount /\ inner' = 0 /\ Move(c.at, "links")
  <2>1. file \in Octets /\ offset \in Nat /\ dis \in Parsed /\ section = "name" /\ status = "ok"
    BY DEF LoadInv, TypeOK, ReadName, At
  <2>2. c.str \in Octets /\ c.at \in Nat
    <3>1. Len(file) \in Nat
      BY <2>1 DEF Octets
    <3> QED BY <1>1, <2>1, <3>1, CStringType
  <2> HIDE DEF c
  <2>3. LinkCount \in Nat
    BY <2>1, ParsedFields DEF LoadInv, HeaderRead, LinkCount, Unopened
  <2>4. dis' \in Parsed
    BY <1>1, <2>1, <2>2, ParsedUpdates
  <2>5. /\ dis'.header = dis.header /\ dis'.code = dis.code /\ dis'.types = dis.types
        /\ dis'.links = dis.links /\ dis'.imports = dis.imports
    BY <1>1, <2>1, SetName
  <2> QED BY <1>1, <2>1, <2>2, <2>3, <2>4, <2>5 DEF Move, LoadInv, TypeOK, HeaderRead, CodeCounted, TypesCounted, HeapDescribed, LinksCounted,
         ImportsOpen, Unopened, Early, Late, Flag, DataSize, TypeCount, LinkCount, EntryType
<1>2. CASE Panic
  BY <1>2, StopInv DEF Panic
<1> QED BY <1>1, <1>2 DEF ReadName

(* One link more, whose type is described, is read; one fewer is left.      *)
LEMMA ReadLinkInv == LoadInv /\ ReadLink => LoadInv'
<1> SUFFICES ASSUME LoadInv, ReadLink PROVE LoadInv'
  OBVIOUS
<1> DEFINE o == Operands(offset, 2)
           c == CString(o.at + 4)
           e == [pc |-> o.val[1], desc |-> o.val[2], sig |-> ParseWord(file, o.at), fn |-> c.str]
<1>1. /\ file \in Octets /\ dis \in Parsed /\ offset \in Nat /\ left \in Nat
      /\ section = "links" /\ status = "ok" /\ left > 0
  BY DEF LoadInv, TypeOK, ReadLink, At
<1>2. CASE /\ o.ok /\ o.val[2] \in 0 .. Len(dis.types) - 1 /\ Has(o.at, 4) /\ c.ok
           /\ dis' = [dis EXCEPT !.links = Append(@, e)]
           /\ left' = left - 1 /\ inner' = 0 /\ Move(c.at, "links")
  <2>1. o.at \in Nat /\ o.val[1] \in Int /\ o.val[2] \in Int
    BY <1>1, <1>2, OperandsType
  <2> HIDE DEF o
  <2>2. ParseWord(file, o.at) \in Int
    BY <1>1, <1>2, <2>1, WordType
  <2>3. c.str \in Octets /\ c.at \in Nat
    <3>1. Len(file) \in Nat /\ o.at + 4 \in Nat
      BY <1>1, <2>1 DEF Octets
    <3> QED BY <1>1, <1>2, <3>1, CStringType
  <2> HIDE DEF c
  <2>4. e \in LinksRead /\ e.desc \in 0 .. Len(dis.types) - 1
    BY <1>2, <2>1, <2>2, <2>3 DEF LinksRead
  <2> HIDE DEF e
  <2> DEFINE x == Append(dis.links, e)
  <2>5. dis.links \in Seq(LinksRead)
    BY <1>1, ParsedFields
  <2>6. /\ x \in Seq(LinksRead) /\ Len(x) = Len(dis.links) + 1 /\ Len(dis.links) \in Nat
        /\ \A k \in 1 .. Len(dis.links) : x[k] = dis.links[k]
        /\ x[Len(dis.links) + 1] = e
    BY <2>4, <2>5, AppendProperties, LenProperties
  <2> HIDE DEF x
  <2>7. dis' = [dis EXCEPT !.links = x]
    BY <1>2 DEF x
  <2>8. dis' \in Parsed
    BY <1>1, <2>6, <2>7, ParsedUpdates
  <2>9. dis'.links = x /\ dis'.header = dis.header /\ dis'.code = dis.code
        /\ dis'.types = dis.types /\ dis'.imports = dis.imports
    BY <1>1, <2>7, SetLinks
  <2>10. /\ section' = "links" /\ status' = status /\ offset' = c.at
         /\ left' = left - 1 /\ inner' = 0 /\ UNCHANGED <<mod, file, damage>>
    BY <1>2 DEF Move
  <2>11. TypeOK'
    BY <1>1, <2>3, <2>8, <2>10 DEF LoadInv, TypeOK
  <2>12. HeaderRead' /\ CodeCounted' /\ TypesCounted' /\ HeapDescribed' /\ ImportsOpen'
    BY <1>1, <2>9, <2>10 DEF LoadInv, HeaderRead, CodeCounted, TypesCounted, HeapDescribed,
       ImportsOpen, Unopened, Early, Flag, TypeCount, EntryType, DataSize
  <2>13. \A k \in 1 .. Len(x) : x[k].desc \in 0 .. Len(dis.types) - 1
    <3>1. \A k \in 1 .. Len(dis.links) : dis.links[k].desc \in 0 .. Len(dis.types) - 1
      BY DEF LoadInv, LinksCounted
    <3>2. \A k \in 1 .. Len(x) : k \in 1 .. Len(dis.links) \/ k = Len(dis.links) + 1
      BY <2>6
    <3> QED BY <2>4, <2>6, <3>1, <3>2
  <2>14. LinksCounted'
    <3>1. Len(dis.links) + left = LinkCount
      BY <1>1 DEF LoadInv, LinksCounted
    <3>2. Len(dis'.links) + left' = LinkCount'
      BY <1>1, <2>6, <2>9, <2>10, <3>1 DEF LinkCount
    <3>3. section' \notin Early \cup {"data", "name"} /\ section' \notin Late
      BY <2>10 DEF Early, Late, Unopened
    <3>4. \A k \in 1 .. Len(dis'.links) : dis'.links[k].desc \in 0 .. Len(dis'.types) - 1
      BY <2>9, <2>13
    <3> QED BY <3>2, <3>3, <3>4 DEF LinksCounted
  <2> QED BY <2>10, <2>11, <2>12, <2>14 DEF LoadInv
<1>3. CASE Panic
  BY <1>3, StopInv DEF Panic
<1> QED BY <1>2, <1>3 DEF ReadLink

(* A count cast to usize is not negative.                                   *)
LEMMA CountType == \A v \in Int : ToUsize(v) \in Nat
  BY DEF ToUsize, Huge

(* The import section begins, or is passed by.                              *)
LEMMA BeginImportsInv == LoadInv /\ BeginImports => LoadInv'
<1> SUFFICES ASSUME LoadInv, BeginImports PROVE LoadInv'
  OBVIOUS
<1> DEFINE o == Operands(offset, 1)
<1>1. /\ file \in Octets /\ offset \in Nat /\ section = "imports" /\ status = "ok"
      /\ UNCHANGED <<dis, inner>>
  BY DEF LoadInv, TypeOK, BeginImports, At
<1>2. CASE UNCHANGED left /\ Move(offset, "handlers")
  BY <1>1, <1>2 DEF Move, LoadInv, TypeOK, HeaderRead, CodeCounted, TypesCounted, HeapDescribed, LinksCounted,
         ImportsOpen, Unopened, Early, Late, Flag, DataSize, TypeCount, LinkCount, EntryType
<1>3. CASE o.ok /\ left' = ToUsize(o.val[1]) /\ Move(o.at, "import")
  <2>1. o.at \in Nat /\ o.val[1] \in Int
    BY <1>1, <1>3, OperandsType
  <2> HIDE DEF o
  <2>2. left' \in Nat
    BY <1>3, <2>1, CountType
  <2> QED BY <1>1, <1>3, <2>1, <2>2 DEF Move, LoadInv, TypeOK, HeaderRead, CodeCounted, TypesCounted, HeapDescribed, LinksCounted,
         ImportsOpen, Unopened, Early, Late, Flag, DataSize, TypeCount, LinkCount, EntryType
<1>4. CASE Panic
  BY <1>4, StopInv DEF Panic
<1> QED BY <1>2, <1>3, <1>4 DEF BeginImports

(* The imports of one module more are begun.                                *)
LEMMA ReadImportModuleInv == LoadInv /\ ReadImportModule => LoadInv'
<1> SUFFICES ASSUME LoadInv, ReadImportModule PROVE LoadInv'
  OBVIOUS
<1> DEFINE o == Operands(offset, 1)
<1>1. /\ file \in Octets /\ dis \in Parsed /\ offset \in Nat /\ section = "import"
      /\ status = "ok" /\ left > 0 /\ left \in Nat
  BY DEF LoadInv, TypeOK, ReadImportModule, At
<1>2. CASE /\ o.ok /\ left' = left - 1 /\ inner' = ToUsize(o.val[1])
           /\ dis' = [dis EXCEPT !.imports = Append(@, <<>>)] /\ Move(o.at, "import")
  <2>1. o.at \in Nat /\ o.val[1] \in Int
    BY <1>1, <1>2, OperandsType
  <2> HIDE DEF o
  <2>2. inner' \in Nat
    BY <1>2, <2>1, CountType
  <2> DEFINE SS == Seq(ImportsRead)
             x == Append(dis.imports, <<>>)
  <2>3. dis.imports \in Seq(SS) /\ <<>> \in SS
    BY <1>1, ParsedFields
  <2> HIDE DEF SS
  <2>4. x \in Seq(SS) /\ Len(x) = Len(dis.imports) + 1 /\ Len(dis.imports) \in Nat
    BY <2>3, AppendProperties, LenProperties
  <2> HIDE DEF x
  <2>5. dis' = [dis EXCEPT !.imports = x]
    BY <1>2 DEF x
  <2>6. dis' \in Parsed
    BY <1>1, <2>4, <2>5, ParsedUpdates DEF SS
  <2>7. dis'.imports = x /\ dis'.header = dis.header /\ dis'.code = dis.code
        /\ dis'.types = dis.types /\ dis'.links = dis.links
    BY <1>1, <2>5, SetImports
  <2>8. /\ section' = "import" /\ status' = status /\ offset' = o.at /\ left' = left - 1
        /\ UNCHANGED <<mod, file, damage>>
    BY <1>1, <1>2 DEF Move
  <2>9. TypeOK'
    BY <1>1, <2>1, <2>2, <2>6, <2>8 DEF LoadInv, TypeOK
  <2>10. HeaderRead' /\ CodeCounted' /\ TypesCounted'
    BY <1>1, <2>7, <2>8 DEF LoadInv, HeaderRead, CodeCounted, TypesCounted, Unopened, Flag, TypeCount
  <2>11. HeapDescribed' /\ LinksCounted' /\ ImportsOpen'
    <3>1. HeapDescribed'
      BY <1>1, <2>7, <2>8 DEF LoadInv, HeapDescribed, Late, EntryType, DataSize
    <3>2. LinksCounted'
      BY <1>1, <2>7, <2>8 DEF LoadInv, LinksCounted, Late, LinkCount, Flag
    <3>3. ImportsOpen'
      BY <1>1, <2>4, <2>7, <2>8 DEF LoadInv, ImportsOpen
    <3> QED BY <3>1, <3>2, <3>3
  <2> QED BY <2>8, <2>9, <2>10, <2>11 DEF LoadInv
<1>3. CASE Panic
  BY <1>3, StopInv DEF Panic
<1> QED BY <1>2, <1>3 DEF ReadImportModule

(* An import is added to the module begun last.                             *)
LEMMA ReadImportInv == LoadInv /\ ReadImport => LoadInv'
<1> SUFFICES ASSUME LoadInv, ReadImport PROVE LoadInv'
  OBVIOUS
<1> DEFINE c == CString(offset + 4)
           last == Len(dis.imports)
           e == [sig |-> ParseWord(file, offset), fn |-> c.str]
<1>1. /\ file \in Octets /\ dis \in Parsed /\ offset \in Nat /\ section = "import"
      /\ status = "ok" /\ inner > 0 /\ inner \in Nat /\ last > 0
  BY DEF LoadInv, TypeOK, ReadImport, At, ImportsOpen
<1>2. CASE /\ Has(offset, 4) /\ c.ok /\ inner' = inner - 1 /\ left' = left
           /\ dis' = [dis EXCEPT !.imports[last] = Append(@, e)] /\ Move(c.at, "import")
  <2>1. ParseWord(file, offset) \in Int
    BY <1>1, <1>2, WordType
  <2>2. c.str \in Octets /\ c.at \in Nat
    <3>1. Len(file) \in Nat /\ offset + 4 \in Nat
      BY <1>1 DEF Octets
    <3> QED BY <1>1, <1>2, <3>1, CStringType
  <2> HIDE DEF c
  <2>3. e \in ImportsRead
    BY <2>1, <2>2 DEF ImportsRead
  <2> HIDE DEF e
  <2> DEFINE SS == Seq(ImportsRead)
             y == Append(dis.imports[last], e)
             x == [dis.imports EXCEPT ![last] = y]
  <2>4. dis.imports \in Seq(SS)
    BY <1>1, ParsedFields
  <2>5. last \in 1 .. Len(dis.imports) /\ dis.imports[last] \in SS
    BY <1>1, <2>4, LenProperties, ElementOfSeq
  <2>6. y \in SS
    BY <2>3, <2>5, AppendProperties
  <2> HIDE DEF SS, y
  <2>7. x \in Seq(SS) /\ Len(x) = Len(dis.imports)
    BY <2>4, <2>5, <2>6, ExceptSeq
  <2>8. dis' = [dis EXCEPT !.imports = x]
    BY <1>2 DEF x, y
  <2> HIDE DEF x
  <2>9. dis' \in Parsed
    BY <1>1, <2>7, <2>8, ParsedUpdates DEF SS
  <2>10. dis'.imports = x /\ dis'.header = dis.header /\ dis'.code = dis.code
        /\ dis'.types = dis.types /\ dis'.links = dis.links
    BY <1>1, <2>8, SetImports
  <2> QED BY <1>1, <1>2, <2>2, <2>7, <2>9, <2>10 DEF Move, LoadInv, TypeOK, HeaderRead, CodeCounted, TypesCounted, HeapDescribed, LinksCounted,
         ImportsOpen, Unopened, Early, Late, Flag, DataSize, TypeCount, LinkCount, EntryType
<1>3. CASE Panic
  BY <1>3, StopInv DEF Panic
<1> QED BY <1>2, <1>3 DEF ReadImport

(* The import section ends.                                                 *)
LEMMA EndImportsInv == LoadInv /\ EndImports => LoadInv'
  BY DEF EndImports, Move, At, LoadInv, TypeOK, HeaderRead, CodeCounted, TypesCounted, HeapDescribed, LinksCounted,
         ImportsOpen, Unopened, Early, Late, Flag, DataSize, TypeCount, LinkCount, EntryType

(* The handler section begins, or is passed by.                             *)
LEMMA BeginHandlersInv == LoadInv /\ BeginHandlers => LoadInv'
<1> SUFFICES ASSUME LoadInv, BeginHandlers PROVE LoadInv'
  OBVIOUS
<1> DEFINE o == Operands(offset, 5)
           count == ToUsize(o.val[5])
           x == SubSeq(o.val, 1, 4)
<1>1. /\ file \in Octets /\ dis \in Parsed /\ offset \in Nat /\ section = "handlers"
      /\ status = "ok" /\ inner' = inner
  BY DEF LoadInv, TypeOK, BeginHandlers, At
<1>2. CASE UNCHANGED <<dis, left>> /\ Move(offset, "path")
  BY <1>1, <1>2 DEF Move, LoadInv, TypeOK, HeaderRead, CodeCounted, TypesCounted, HeapDescribed, LinksCounted,
         ImportsOpen, Unopened, Early, Late, Flag, DataSize, TypeCount, LinkCount, EntryType
<1>3. CASE /\ o.ok /\ dis' = [dis EXCEPT !.handler = x] /\ left' = count
           /\ Move(o.at - o.size[5] + count, "handler")
  <2>1. /\ o.at \in Nat /\ o.val \in Seq(Int) /\ Len(o.val) = 5 /\ o.size \in Seq({1, 2, 4})
        /\ Len(o.size) = 5 /\ o.size[5] <= o.at - offset - 4
    <3>1. 5 \in Nat /\ 5 > 0 /\ o.ok
      BY <1>3
    <3>2. /\ o.at \in Nat /\ o.val \in Seq(Int) /\ Len(o.val) = 5 /\ o.size \in Seq({1, 2, 4})
          /\ Len(o.size) = 5 /\ o.size[5] <= o.at - offset - (5 - 1)
      BY <1>1, <3>1, OperandsType
    <3>3. o.size[5] \in Int
      BY <3>2
    <3> HIDE DEF o
    <3> QED BY <1>1, <3>2, <3>3
  <2>2. o.val[5] \in Int /\ o.size[5] \in {1, 2, 4}
    BY <2>1
  <2> HIDE DEF o
  <2>3. count \in Nat
    BY <2>2, CountType
  <2>4. x \in Seq(Int)
    BY <2>1, SubSeqType
  <2> HIDE DEF x, count
  <2>5. o.at - o.size[5] + count \in Nat
    <3> DEFINE z == o.size[5]
               y == o.at
    <3>1. z \in Int /\ y \in Nat /\ z <= y - offset - 4 /\ offset \in Nat /\ count \in Nat
      BY <1>1, <2>1, <2>2, <2>3
    <3> HIDE DEF z, y
    <3>2. y - z + count \in Nat
      BY <3>1
    <3> QED BY <3>2 DEF z, y
  <2>6. dis' \in Parsed
    BY <1>1, <1>3, <2>4, ParsedUpdates
  <2>7. dis'.header = dis.header /\ dis'.code = dis.code /\ dis'.imports = dis.imports
        /\ dis'.types = dis.types /\ dis'.links = dis.links
    BY <1>1, <1>3, SetHandler
  <2> QED BY <1>1, <1>3, <2>3, <2>5, <2>6, <2>7 DEF Move, LoadInv, TypeOK, HeaderRead, CodeCounted, TypesCounted, HeapDescribed, LinksCounted,
         ImportsOpen, Unopened, Early, Late, Flag, DataSize, TypeCount, LinkCount, EntryType
<1>4. CASE Panic
  BY <1>4, StopInv DEF Panic
<1> QED BY <1>2, <1>3, <1>4 DEF BeginHandlers

(* A handler is passed.                                                     *)
LEMMA ReadHandlerInv == LoadInv /\ ReadHandler => LoadInv'
<1> SUFFICES ASSUME LoadInv, ReadHandler PROVE LoadInv'
  OBVIOUS
<1> DEFINE c == CString(offset)
<1>1. /\ file \in Octets /\ offset \in Nat /\ section = "handler" /\ status = "ok"
      /\ left > 0 /\ left \in Nat
  BY DEF LoadInv, TypeOK, ReadHandler, At
<1>2. CASE c.ok /\ left' = left - 1 /\ UNCHANGED <<inner, dis>> /\ Move(c.at + 4, "handler")
  <2>1. c.at + 4 \in Nat
    <3>1. Len(file) \in Nat
      BY <1>1 DEF Octets
    <3> QED BY <1>1, <1>2, <3>1, CStringType
  <2> HIDE DEF c
  <2> QED BY <1>1, <1>2, <2>1 DEF Move, LoadInv, TypeOK, HeaderRead, CodeCounted, TypesCounted, HeapDescribed, LinksCounted,
         ImportsOpen, Unopened, Early, Late, Flag, DataSize, TypeCount, LinkCount, EntryType
<1>3. CASE Panic
  BY <1>3, StopInv DEF Panic
<1> QED BY <1>2, <1>3 DEF ReadHandler

(* The handler section ends.                                                *)
LEMMA EndHandlersInv == LoadInv /\ EndHandlers => LoadInv'
<1> SUFFICES ASSUME LoadInv, EndHandlers PROVE LoadInv'
  OBVIOUS
<1> DEFINE o == Operands(offset, 1)
           x == Append(dis.handler, o.val[1])
<1>1. /\ file \in Octets /\ dis \in Parsed /\ offset \in Nat /\ section = "handler"
      /\ status = "ok" /\ UNCHANGED <<left, inner>>
  BY DEF LoadInv, TypeOK, EndHandlers, At
<1>2. CASE /\ o.ok /\ dis' = [dis EXCEPT !.handler = x] /\ Move(offset + 4, "path")
  <2>1. o.val[1] \in Int
    BY <1>1, <1>2, OperandsType
  <2> HIDE DEF o
  <2>2. x \in Seq(Int)
    BY <1>1, <2>1, ParsedFields, AppendProperties
  <2> HIDE DEF x
  <2>3. dis' \in Parsed
    BY <1>1, <1>2, <2>2, ParsedUpdates
  <2>4. dis'.header = dis.header /\ dis'.code = dis.code /\ dis'.imports = dis.imports
        /\ dis'.types = dis.types /\ dis'.links = dis.links
    BY <1>1, <1>2, SetHandler
  <2> QED BY <1>1, <1>2, <2>3, <2>4 DEF Move, LoadInv, TypeOK, HeaderRead, CodeCounted, TypesCounted, HeapDescribed, LinksCounted,
         ImportsOpen, Unopened, Early, Late, Flag, DataSize, TypeCount, LinkCount, EntryType
<1>3. CASE Panic
  BY <1>3, StopInv DEF Panic
<1> QED BY <1>2, <1>3 DEF EndHandlers

(* The path is the last thing read, from inside the file.                   *)
LEMMA ReadPathInv == LoadInv /\ ReadPath => LoadInv'
<1> SUFFICES ASSUME LoadInv, ReadPath PROVE LoadInv'
  OBVIOUS
<1> DEFINE c == CString(offset)
<1>1. /\ file \in Octets /\ dis \in Parsed /\ offset \in Nat /\ section = "path"
      /\ status = "ok" /\ UNCHANGED <<left, inner>>
  BY DEF LoadInv, TypeOK, ReadPath, At
<1>2. CASE c.ok /\ dis' = [dis EXCEPT !.path = c.str] /\ Move(c.at, "done")
  <2>1. c.str \in Octets /\ c.at \in Nat /\ c.at <= Len(file)
    <3>1. Len(file) \in Nat
      BY <1>1 DEF Octets
    <3> QED BY <1>1, <1>2, <3>1, CStringType
  <2> HIDE DEF c
  <2>2. dis' \in Parsed
    BY <1>1, <1>2, <2>1, ParsedUpdates
  <2>3. dis'.header = dis.header /\ dis'.code = dis.code /\ dis'.imports = dis.imports
        /\ dis'.types = dis.types /\ dis'.links = dis.links
    BY <1>1, <1>2, SetPath
  <2> QED BY <1>1, <1>2, <2>1, <2>2, <2>3 DEF Move, LoadInv, TypeOK, HeaderRead, CodeCounted, TypesCounted, HeapDescribed, LinksCounted,
         ImportsOpen, Unopened, Early, Late, Flag, DataSize, TypeCount, LinkCount, EntryType
<1>3. CASE Panic
  BY <1>3, StopInv DEF Panic
<1> QED BY <1>2, <1>3 DEF ReadPath

(* Every step keeps LoadInv.                                                *)
LEMMA LoadStep == LoadInv /\ [Next]_vars => LoadInv'
<1>1. LoadInv /\ UNCHANGED vars => LoadInv'
  <2> SUFFICES ASSUME LoadInv, UNCHANGED vars PROVE LoadInv'
    OBVIOUS
  <2>1. status' \in {"ok", "panic", "heap"}
    BY DEF LoadInv, TypeOK, vars
  <2> QED BY <2>1, StopInv DEF vars
<1> QED
  BY <1>1, ReadMagicInv, ReadHeaderInv, ReadInstructionInv, ReadTypeInv, EndLoopInv,
     CreateHeapInv, ReadItemInv, EndDataInv, ReadNameInv, ReadLinkInv, BeginImportsInv,
     ReadImportModuleInv, ReadImportInv, EndImportsInv, BeginHandlersInv, ReadHandlerInv,
     EndHandlersInv, ReadPathInv, HeapStopsInv
  DEF Next, Parse

(* A file, whatever happens to it, is bytes.                                *)
LEMMA DamagedType ==
  ASSUME NEW m \in Modules, NEW how \in {"none", "cut", "byte"}, NEW f \in Damaged(m, how, 0, Len(Encode(m)))
  PROVE  f \in Octets
<1> DEFINE e == Encode(m)
<1>1. e \in Octets
  BY EncoderAssumption, EncodeOctets
<1>2. Len(e) \in Nat /\ \A k \in 1 .. Len(e) : e[k] \in Octet
  BY <1>1 DEF Octets
<1>3. Damaged(m, how, 0, Len(e)) =
        IF how = "none" THEN {e}
        ELSE IF how = "cut" THEN {SubSeq(e, 1, n) : n \in 0 .. Len(e) - 1}
        ELSE {[e EXCEPT ![n] = b] : n \in 0 + 1 .. Len(e), b \in DamagedBytes} \ {e}
  BY DEF Damaged
<1> HIDE DEF e
<1>4. f \in Damaged(m, how, 0, Len(e))
  BY DEF e
<1>5. CASE how = "none"
  BY <1>1, <1>3, <1>4, <1>5
<1>6. CASE how = "cut"
  <2>1. PICK n \in 0 .. Len(e) - 1 : f = SubSeq(e, 1, n)
    BY <1>3, <1>4, <1>6
  <2>2. \A i \in 1 .. n : e[i] \in Octet
    BY <1>2
  <2> QED BY <2>1, <2>2, SubSeqProperties DEF Octets
<1>7. CASE how = "byte"
  <2>1. PICK n \in 1 .. Len(e), b \in DamagedBytes : f = [e EXCEPT ![n] = b]
    BY <1>2, <1>3, <1>4, <1>7
  <2>2. b \in Octet
    BY <2>1, EncoderAssumption DEF Octet
  <2> QED BY <1>1, <2>1, <2>2, ExceptSeq DEF Octets
<1> QED BY <1>5, <1>6, <1>7

(* The parser starts on such a file, with a Module nothing is filled into.  *)
LEMMA InitInv == Init => LoadInv
<1> SUFFICES ASSUME Init PROVE LoadInv
  OBVIOUS
<1>1. mod \in Modules /\ damage \in {"none", "cut", "byte"}
  BY EncoderAssumption DEF Init
<1>2. file \in Octets
  BY <1>1, DamagedType DEF Init, InitWith
<1>3. offset = 0 /\ section = "magic" /\ left = 0 /\ inner = 0 /\ dis = NewModule /\ status = "ok"
  BY DEF Init, InitWith
<1>4. NewModule \in Parsed
  <2>1. <<>> \in Octets
    BY DEF Octets
  <2>2. /\ <<>> \in Seq(Int) /\ <<>> \in Seq(Instructions) /\ <<>> \in Seq(TypesRead)
        /\ <<>> \in Seq(LinksRead) /\ <<>> \in Seq(Seq(ImportsRead))
    BY EmptySeq
  <2> QED BY <2>1, <2>2 DEF Parsed, NewModule
<1>5. TypeOK
  BY <1>1, <1>2, <1>3, <1>4 DEF TypeOK
<1>6. Len(dis.code) = 0 /\ Len(dis.types) = 0 /\ Len(dis.links) = 0
  BY <1>3 DEF NewModule
<1>7. HeaderRead /\ CodeCounted /\ TypesCounted /\ HeapDescribed /\ LinksCounted /\ ImportsOpen
  BY <1>3, <1>6 DEF HeaderRead, CodeCounted, TypesCounted, HeapDescribed, LinksCounted, ImportsOpen,
     Unopened, Early, Late
<1> QED BY <1>3, <1>5, <1>7 DEF LoadInv

(* What the parser keeps is of its types, whatever the bytes it reads.      *)
THEOREM TypeCorrect == Spec => []TypeOK
<1>1. LoadInv => TypeOK
  BY DEF LoadInv
<1> QED BY <1>1, InitInv, LoadStep, PTL DEF Spec

(* Whatever the bytes, a module that is handed out is one the rest of the   *)
(* VM can index into.                                                       *)
THEOREM ModulesAreCoherent == Spec => []Coherent
<1>1. ASSUME LoadInv PROVE Coherent
  <2> SUFFICES ASSUME section = "done" PROVE Coherent
    BY DEF Coherent
  <2>1. section \notin Unopened /\ section \notin Early /\ section \in Late
    BY DEF Unopened, Early, Late
  <2>2. offset <= Len(file) /\ Flag \in RuntimeFlags
    BY <1>1, <2>1 DEF LoadInv, HeaderRead
  <2>3. /\ Len(dis.code) = dis.header[3] /\ Len(dis.types) = TypeCount
        /\ Len(dis.links) = LinkCount
    BY <1>1, <2>1 DEF LoadInv, CodeCounted, TypesCounted, LinksCounted, Unopened
  <2>4. EntryType \in 0 .. Len(dis.types) - 1 /\ (DataSize # 0 => dis.types[1].size = DataSize)
    BY <1>1, <2>1 DEF LoadInv, HeapDescribed, DescriptorValid
  <2>5. \A l \in ToSet(dis.links) : l.desc \in 0 .. Len(dis.types) - 1
    <3>1. dis.links \in Seq(LinksRead)
      BY <1>1, ParsedFields DEF LoadInv, TypeOK
    <3>2. DOMAIN dis.links = 1 .. Len(dis.links)
      BY <3>1, LenProperties
    <3> QED BY <1>1, <3>2 DEF LoadInv, LinksCounted, ToSet
  <2> QED BY <2>2, <2>3, <2>4, <2>5 DEF Coherent
<1> QED BY <1>1, InitInv, LoadStep, PTL DEF Spec
=============================================================================
