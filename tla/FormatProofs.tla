---------------------------- MODULE FormatProofs ----------------------------
(***************************************************************************)
(* The object file format: data proved by induction, what parse_operand    *)
(* makes of an operand, and that what an encoder writes is bytes, with     *)
(* each part of a file where the one before it ends.                       *)
(***************************************************************************)
EXTENDS DisLoader, SequenceTheorems, WellFoundedInduction, TLAPS

-----------------------------------------------------------------------------
(* Data proved by induction.  The library's induction theorems take an      *)
(* operator as parameter.  A set of numbers does as well, because the       *)
(* order of the naturals is well-founded: of the numbers that are not in    *)
(* the set, none is the least.  So the recursive functions that loops and   *)
(* FlattenSeq are made of exist, and compute what their definitions say.    *)

(* A set of numbers with 0 in it that is closed under + 1 has every number. *)
LEMMA NatSetInduction ==
  ASSUME NEW T, 0 \in T, \A n \in Nat : n \in T => n + 1 \in T
  PROVE  \A n \in Nat : n \in T
<1> SUFFICES ASSUME Nat \ T # {} PROVE FALSE
  OBVIOUS
<1> DEFINE R == OpToRel(<, Nat)
<1>1. IsWellFoundedOn(R, Nat)
  BY NatLessThanWellFounded
<1>2. \A x, y \in Nat : y < x => <<y, x>> \in R
  BY DEF OpToRel
<1> HIDE DEF R
<1>3. PICK x \in Nat \ T : \A y \in Nat \ T : ~(<<y, x>> \in R)
  BY <1>1, WFMin
<1>4. x # 0 /\ x - 1 \in Nat /\ x - 1 < x
  BY <1>3
<1>5. x - 1 \in T
  BY <1>2, <1>3, <1>4
<1> QED BY <1>3, <1>4, <1>5

Iterated(start, step, n) ==
  LET pos[k \in 0 .. n] == IF k = 0 THEN start ELSE step[pos[k - 1]] IN pos

(* A step taken n times from a start: the recursive function for it exists, *)
(* and is what its definition says at each turn.                            *)
LEMMA Iteration ==
  ASSUME NEW start, NEW step, NEW n \in Nat
  PROVE  LET pos == Iterated(start, step, n) IN
         /\ pos = [k \in 0 .. n |-> pos[k]]
         /\ pos[0] = start
         /\ \A k \in 1 .. n : pos[k] = step[pos[k - 1]]
<1> DEFINE Step(f, m) == [k \in 0 .. m |-> IF k = 0 THEN start ELSE step[f[k - 1]]]
           T == {m \in Nat : \E f : f = Step(f, m)}
<1>1. 0 \in T
  <2> DEFINE f == [k \in 0 .. 0 |-> start]
  <2>1. f = Step(f, 0)
    OBVIOUS
  <2> QED BY <2>1
<1>2. ASSUME NEW m \in Nat, m \in T PROVE m + 1 \in T
  <2>1. PICK f : f = Step(f, m)
    BY <1>2
  <2> DEFINE g == [k \in 0 .. m + 1 |-> IF k = 0 THEN start ELSE step[f[k - 1]]]
  <2>2. \A k \in 0 .. m : g[k] = f[k]
    BY <2>1
  <2>3. \A k \in 0 .. m + 1 : k # 0 => k - 1 \in 0 .. m /\ g[k - 1] = f[k - 1]
    BY <2>2
  <2> HIDE DEF g
  <2>4. g = [k \in 0 .. m + 1 |-> IF k = 0 THEN start ELSE step[g[k - 1]]]
    BY <2>3 DEF g
  <2> QED BY <2>4
<1>3. n \in T
  BY <1>1, <1>2, NatSetInduction
<1>4. \E f : f = Step(f, n)
  BY <1>3
<1>5. Iterated(start, step, n) = CHOOSE f : f = Step(f, n)
  BY DEF Iterated
<1>6. Iterated(start, step, n) = Step(Iterated(start, step, n), n)
  BY <1>4, <1>5
<1> QED BY <1>6

Flat(fl, seqs) ==
  fl = [i \in 1 .. Len(seqs) |-> IF i = 1 THEN seqs[i] ELSE fl[i - 1] \o seqs[i]]

(* FlattenSeq is the last value of a recursive function that really exists. *)
LEMMA FlatExists ==
  ASSUME NEW seqs, Len(seqs) \in Nat, Len(seqs) # 0
  PROVE  \E fl : Flat(fl, seqs) /\ FlattenSeq(seqs) = fl[Len(seqs)]
<1> DEFINE Cat(a, b) == a \o b
           Step(f, m) == [i \in 1 .. m |-> IF i = 1 THEN seqs[i] ELSE Cat(f[i - 1], seqs[i])]
           T == {m \in Nat : \E f : f = Step(f, m)}
<1> HIDE DEF Cat
<1>1. 0 \in T
  <2> DEFINE f == [i \in 1 .. 0 |-> seqs[i]]
  <2>1. f = Step(f, 0)
    OBVIOUS
  <2> QED BY <2>1
<1>2. ASSUME NEW m \in Nat, m \in T PROVE m + 1 \in T
  <2>1. PICK f : f = Step(f, m)
    BY <1>2
  <2> DEFINE g == [i \in 1 .. m + 1 |-> IF i = 1 THEN seqs[i] ELSE Cat(f[i - 1], seqs[i])]
  <2>2. \A i \in 1 .. m : g[i] = f[i]
    <3>1. \A i \in 1 .. m : f[i] = IF i = 1 THEN seqs[i] ELSE Cat(f[i - 1], seqs[i])
      BY <2>1
    <3> QED BY <3>1
  <2> HIDE DEF g, Step
  <2>3. \A i \in 1 .. m + 1 : i # 1 => i - 1 \in 1 .. m /\ g[i - 1] = f[i - 1]
    BY <2>2
  <2>4. g = [i \in 1 .. m + 1 |-> IF i = 1 THEN seqs[i] ELSE Cat(g[i - 1], seqs[i])]
    BY <2>3 DEF g
  <2> QED BY <2>4 DEF Step
<1>3. Len(seqs) \in T
  BY <1>1, <1>2, NatSetInduction
<1>4. \E f : f = Step(f, Len(seqs))
  BY <1>3
<1> USE DEF Cat
<1>5. FlattenSeq(seqs) = (CHOOSE f : f = Step(f, Len(seqs)))[Len(seqs)]
  BY DEF FlattenSeq
<1> DEFINE fl == CHOOSE f : f = Step(f, Len(seqs))
<1>6. fl = Step(fl, Len(seqs))
  BY <1>4
<1> HIDE DEF fl
<1>7. Flat(fl, seqs)
  BY <1>6 DEF Flat
<1> QED BY <1>5, <1>7 DEF fl

(* What that function says of its first and of each later value.            *)
LEMMA FlatUnfold ==
  ASSUME NEW seqs, NEW fl, Flat(fl, seqs), Len(seqs) \in Nat, Len(seqs) # 0
  PROVE  /\ fl[1] = seqs[1]
         /\ \A n \in 1 .. Len(seqs) - 1 : fl[n + 1] = fl[n] \o seqs[n + 1]
<1> DEFINE Cat(a, b) == a \o b
<1>1. fl = [i \in 1 .. Len(seqs) |-> IF i = 1 THEN seqs[i] ELSE Cat(fl[i - 1], seqs[i])]
  BY DEF Flat
<1> HIDE DEF Cat
<1>2. fl[1] = seqs[1] /\ \A n \in 1 .. Len(seqs) - 1 : fl[n + 1] = Cat(fl[n], seqs[n + 1])
  <2>1. \A i \in 1 .. Len(seqs) : fl[i] = IF i = 1 THEN seqs[i] ELSE Cat(fl[i - 1], seqs[i])
    BY <1>1
  <2>2. \A n \in 1 .. Len(seqs) - 1 : n + 1 \in 1 .. Len(seqs) /\ n + 1 # 1 /\ n + 1 - 1 = n
    OBVIOUS
  <2> QED BY <2>1, <2>2
<1> QED BY <1>2 DEF Cat

(* Each of its values is a sequence over the elements of the parts.         *)
LEMMA FlatSeqs ==
  ASSUME NEW S, NEW seqs, NEW fl, Flat(fl, seqs), Len(seqs) \in Nat, Len(seqs) # 0,
         \A i \in 1 .. Len(seqs) : seqs[i] \in Seq(S)
  PROVE  \A i \in 1 .. Len(seqs) : fl[i] \in Seq(S)
<1> DEFINE Cat(a, b) == a \o b
           SS == Seq(S)
           L == Len(seqs)
           T == {i \in Nat : i \in 1 .. L => fl[i] \in SS}
<1>1. fl[1] = seqs[1] /\ \A n \in 1 .. L - 1 : fl[n + 1] = Cat(fl[n], seqs[n + 1])
  BY FlatUnfold
<1>2. \A a, b \in SS : Cat(a, b) \in SS
  BY ConcatProperties
<1>3. L \in Nat /\ L # 0 /\ \A i \in 1 .. L : seqs[i] \in SS
  OBVIOUS
<1> HIDE DEF Cat, SS, L
<1>4. 0 \in T
  OBVIOUS
<1>5. ASSUME NEW n \in Nat, n \in T PROVE n + 1 \in T
  <2>1. CASE n = 0
    BY <1>1, <1>3, <2>1
  <2>2. CASE n # 0 /\ n + 1 \in 1 .. L
    <3>1. n \in 1 .. L - 1 /\ n \in 1 .. L
      BY <1>3, <2>2
    <3>2. fl[n + 1] = Cat(fl[n], seqs[n + 1]) /\ fl[n] \in SS
      BY <1>1, <1>5, <3>1
    <3> QED BY <1>2, <1>3, <2>2, <3>2
  <2> QED BY <2>1, <2>2
<1>6. \A i \in Nat : i \in T
  BY <1>4, <1>5, NatSetInduction
<1> QED BY <1>6 DEF SS, L

(* No parts make nothing.                                                   *)
THEOREM FlattenEmpty == FlattenSeq(<<>>) = <<>>
<1>1. Len(<<>>) = 0
  OBVIOUS
<1> QED BY <1>1 DEF FlattenSeq

(* Parts over a set make a sequence over that set.                          *)
THEOREM FlattenType ==
  ASSUME NEW S, NEW seqs \in Seq(Seq(S))
  PROVE  FlattenSeq(seqs) \in Seq(S)
<1>1. CASE Len(seqs) = 0
  <2>1. seqs = <<>>
    BY <1>1, EmptySeq
  <2>2. <<>> \in Seq(S)
    OBVIOUS
  <2> QED BY <2>1, <2>2, FlattenEmpty
<1>2. CASE Len(seqs) # 0
  <2>1. Len(seqs) \in Nat /\ \A i \in 1 .. Len(seqs) : seqs[i] \in Seq(S)
    OBVIOUS
  <2>2. PICK fl : Flat(fl, seqs) /\ FlattenSeq(seqs) = fl[Len(seqs)]
    BY <1>2, <2>1, FlatExists
  <2> QED BY <1>2, <2>1, <2>2, FlatSeqs
<1> QED BY <1>1, <1>2

(* With two parts or more, the first can be taken off the front, although   *)
(* the definition takes parts off the end.                                  *)
LEMMA FlattenShift ==
  ASSUME NEW S, NEW seqs, NEW rest, Len(seqs) \in Nat, Len(rest) \in Nat,
         Len(seqs) = Len(rest) + 1, Len(rest) # 0,
         \A i \in 1 .. Len(seqs) : seqs[i] \in Seq(S),
         \A i \in 1 .. Len(rest) : rest[i] = seqs[i + 1]
  PROVE  FlattenSeq(seqs) = seqs[1] \o FlattenSeq(rest)
<1> DEFINE Cat(a, b) == a \o b
           SS == Seq(S)
           L == Len(rest)
<1>1. PICK fl : Flat(fl, seqs) /\ FlattenSeq(seqs) = fl[L + 1]
  BY FlatExists
<1>2. PICK gl : Flat(gl, rest) /\ FlattenSeq(rest) = gl[L]
  BY FlatExists
<1>3. fl[1] = seqs[1] /\ \A n \in 1 .. L : fl[n + 1] = Cat(fl[n], seqs[n + 1])
  <2>1. Len(seqs) # 0 /\ Len(seqs) - 1 = L
    OBVIOUS
  <2>2. \A n \in 1 .. Len(seqs) - 1 : fl[n + 1] = fl[n] \o seqs[n + 1]
    BY <1>1, <2>1, FlatUnfold
  <2>3. fl[1] = seqs[1]
    BY <1>1, <2>1, FlatUnfold
  <2> QED BY <2>1, <2>2, <2>3
<1>4. gl[1] = rest[1] /\ \A n \in 1 .. L - 1 : gl[n + 1] = Cat(gl[n], rest[n + 1])
  BY <1>2, FlatUnfold
<1>5. \A i \in 1 .. L : gl[i] \in SS
  <2>1. \A i \in 1 .. L : rest[i] \in Seq(S)
    OBVIOUS
  <2> QED BY <1>2, <2>1, FlatSeqs
<1>6. ASSUME NEW a \in SS, NEW b \in SS, NEW c \in SS
      PROVE  Cat(Cat(a, b), c) = Cat(a, Cat(b, c))
  BY ConcatAssociative
<1>7. /\ L \in Nat /\ L # 0 /\ seqs[1] \in SS
      /\ \A i \in 1 .. L : rest[i] \in SS /\ rest[i] = seqs[i + 1]
  OBVIOUS
<1> DEFINE T == {i \in Nat : i \in 1 .. L => fl[i + 1] = Cat(seqs[1], gl[i])}
<1>8. 0 \in T
  OBVIOUS
<1> HIDE DEF Cat, SS, L
<1>9. ASSUME NEW n \in Nat, n \in T PROVE n + 1 \in T
  <2>1. CASE n = 0
    <3>1. 1 \in 1 .. L /\ fl[1 + 1] = Cat(fl[1], seqs[1 + 1]) /\ rest[1] = seqs[1 + 1]
      BY <1>3, <1>7
    <3>2. fl[1 + 1] = Cat(seqs[1], gl[1])
      BY <1>3, <1>4, <3>1
    <3> QED BY <2>1, <3>2
  <2>2. CASE n # 0 /\ n + 1 \in 1 .. L
    <3>1. n \in 1 .. L - 1 /\ n \in 1 .. L
      BY <1>7, <2>2
    <3>2. fl[n + 1 + 1] = Cat(fl[n + 1], rest[n + 1])
      BY <1>3, <1>7, <2>2
    <3>3. fl[n + 1] = Cat(seqs[1], gl[n]) /\ gl[n + 1] = Cat(gl[n], rest[n + 1])
      BY <1>4, <1>9, <3>1
    <3>4. Cat(Cat(seqs[1], gl[n]), rest[n + 1]) = Cat(seqs[1], Cat(gl[n], rest[n + 1]))
      <4>1. seqs[1] \in SS /\ gl[n] \in SS /\ rest[n + 1] \in SS
        BY <1>5, <1>7, <2>2, <3>1
      <4> QED BY <1>6, <4>1
    <3>5. fl[n + 1 + 1] = Cat(seqs[1], gl[n + 1])
      BY <3>2, <3>3, <3>4
    <3> QED BY <2>2, <3>5
  <2> QED BY <2>1, <2>2
<1>10. L \in T
  BY <1>7, <1>8, <1>9, NatSetInduction
<1>11. fl[L + 1] = Cat(seqs[1], gl[L])
  BY <1>7, <1>10
<1> QED BY <1>1, <1>2, <1>11 DEF Cat

(* One part makes itself.                                                   *)
LEMMA FlattenOne ==
  ASSUME NEW seqs, Len(seqs) = 1
  PROVE  FlattenSeq(seqs) = seqs[1]
<1>1. Len(seqs) \in Nat /\ Len(seqs) # 0
  OBVIOUS
<1>2. PICK fl : Flat(fl, seqs) /\ FlattenSeq(seqs) = fl[Len(seqs)]
  BY <1>1, FlatExists
<1>3. fl[1] = seqs[1]
  BY <1>1, <1>2, FlatUnfold
<1> QED BY <1>2, <1>3

(* Parts in order: the first part, then what the parts behind it make.  A   *)
(* loop that reads part after part meets them in this way.                  *)
THEOREM FlattenFirst ==
  ASSUME NEW S, NEW seqs \in Seq(Seq(S)), NEW rest \in Seq(Seq(S)),
         Len(seqs) = Len(rest) + 1, \A i \in 1 .. Len(rest) : rest[i] = seqs[i + 1]
  PROVE  FlattenSeq(seqs) = seqs[1] \o FlattenSeq(rest)
<1>0. /\ Len(seqs) \in Nat /\ Len(rest) \in Nat
      /\ \A i \in 1 .. Len(seqs) : seqs[i] \in Seq(S)
  OBVIOUS
<1>2. CASE Len(rest) = 0
  <2>1. rest = <<>>
    BY <1>2, EmptySeq
  <2>2. Len(seqs) = 1 /\ seqs[1] \in Seq(S)
    BY <1>0, <1>2
  <2>3. FlattenSeq(seqs) = seqs[1]
    BY <2>2, FlattenOne
  <2>4. FlattenSeq(rest) = <<>>
    BY <2>1, FlattenEmpty
  <2> QED BY <2>2, <2>3, <2>4, ConcatEmptySeq
<1>3. CASE Len(rest) # 0
  <2>1. \A i \in 1 .. Len(rest) : rest[i] = seqs[i + 1]
    OBVIOUS
  <2> QED BY Zenon, <1>0, <1>3, <2>1, FlattenShift
<1> QED BY <1>0, <1>2, <1>3

-----------------------------------------------------------------------------
(* What parse_operand makes of an encoded operand, for every value and      *)
(* wherever in a file it stands.                                            *)

(* f holds the bytes e from offset at on.                                   *)
Holds(f, at, e) == \A k \in 1 .. Len(e) : f[at + k] = e[k]

(* The two bytes of a short operand.                                        *)
LEMMA HoldsTwo ==
  ASSUME NEW f, NEW at \in Nat, NEW a \in Int, NEW b \in Int, Holds(f, at, <<a, b>>)
  PROVE  f[at + 1] = a /\ f[at + 2] = b
<1> DEFINE e == <<a, b>>
<1>1. Len(e) = 2 /\ e[1] = a /\ e[2] = b
  OBVIOUS
<1>2. \A k \in 1 .. Len(e) : f[at + k] = e[k]
  BY DEF Holds
<1> HIDE DEF e
<1>3. 1 \in 1 .. Len(e) /\ 2 \in 1 .. Len(e)
  BY <1>1
<1> QED BY <1>1, <1>2, <1>3

(* The same for four bytes.                                                 *)
LEMMA HoldsFour ==
  ASSUME NEW f, NEW at \in Nat, NEW a \in Int, NEW b \in Int, NEW c \in Int,
         NEW d \in Int, Holds(f, at, <<a, b, c, d>>)
  PROVE  f[at + 1] = a /\ f[at + 2] = b /\ f[at + 3] = c /\ f[at + 4] = d
<1> DEFINE e == <<a, b, c, d>>
<1>1. Len(e) = 4 /\ e[1] = a /\ e[2] = b /\ e[3] = c /\ e[4] = d
  OBVIOUS
<1>2. \A k \in 1 .. Len(e) : f[at + k] = e[k]
  BY DEF Holds
<1> HIDE DEF e
<1>3. {1, 2, 3, 4} \subseteq 1 .. Len(e)
  BY <1>1
<1> QED BY <1>1, <1>2, <1>3

(* One byte: every value the format can put there comes back, sign and all. *)
THEOREM ByteOperand ==
  ASSUME NEW v \in Int, Encodable(v, 1), NEW f, NEW at \in Nat,
         Holds(f, at, EncodeOperand(v, 1))
  PROVE  ParseOperand(f, at) = [size |-> 1, val |-> v]
<1> DEFINE u == IF v < 0 THEN v + 128 ELSE v
<1>1. -64 <= v /\ v < 64
  BY DEF Encodable, Bits
<1>2. EncodeOperand(v, 1) = <<u>>
  BY DEF EncodeOperand, Bits
<1>3. f[at + 1] = u
  BY <1>2 DEF Holds
<1>4. CASE v < 0
  <2>1. f[at + 1] \div 64 = 1 /\ f[at + 1] - 128 = v
    BY <1>1, <1>3, <1>4
  <2> QED BY <2>1 DEF ParseOperand
<1>5. CASE v >= 0
  <2>1. f[at + 1] \div 64 = 0 /\ f[at + 1] = v
    BY <1>1, <1>3, <1>5
  <2> QED BY <2>1 DEF ParseOperand
<1> QED BY <1>4, <1>5

(* Two bytes: what comes back is the value modulo 2^14, never negative.     *)
THEOREM ShortOperand ==
  ASSUME NEW v \in Int, Encodable(v, 2), NEW f, NEW at \in Nat,
         Holds(f, at, EncodeOperand(v, 2))
  PROVE  ParseOperand(f, at) = [size |-> 2, val |-> v % Bits(2)]
<1> DEFINE u == IF v < 0 THEN v + 16384 ELSE v
<1>1. -8192 <= v /\ v < 8192
  BY DEF Encodable, Bits
<1>2. EncodeOperand(v, 2) = <<128 + u \div 256, u % 256>>
  BY DEF EncodeOperand, Bits
<1>3. f[at + 1] = 128 + u \div 256 /\ f[at + 2] = u % 256
  <2>1. 128 + u \div 256 \in Int /\ u % 256 \in Int
    OBVIOUS
  <2> QED BY <1>2, <2>1, HoldsTwo
<1>4. u \in Int /\ 0 <= u /\ u < 16384 /\ u = v % 16384
  BY <1>1
<1> HIDE DEF u
<1>5. f[at + 1] \div 64 = 2 /\ f[at + 1] % 64 = u \div 256
  BY <1>3, <1>4
<1>6. (f[at + 1] % 64) * 256 + f[at + 2] = u
  BY <1>3, <1>4, <1>5
<1> QED BY <1>4, <1>5, <1>6 DEF ParseOperand, Bits

(* Four bytes: the value modulo 2^30.                                       *)
THEOREM WordOperand ==
  ASSUME NEW v \in Int, Encodable(v, 4), NEW f, NEW at \in Nat,
         Holds(f, at, EncodeOperand(v, 4))
  PROVE  ParseOperand(f, at) = [size |-> 4, val |-> v % Bits(4)]
<1> DEFINE u == IF v < 0 THEN v + 1073741824 ELSE v
<1>1. -536870912 <= v /\ v < 536870912
  BY SMT DEF Encodable, Bits
<1>2. EncodeOperand(v, 4) = <<192 + u \div 16777216, (u \div 65536) % 256,
                              (u \div 256) % 256, u % 256>>
  BY SMT DEF EncodeOperand, Bits
<1>3. u \in Int /\ 0 <= u /\ u < 1073741824 /\ u = v % 1073741824
  BY SMT, <1>1
<1>3a. Holds(f, at, <<192 + u \div 16777216, (u \div 65536) % 256,
                     (u \div 256) % 256, u % 256>>)
  BY SMT, <1>2
<1> HIDE DEF u
<1>4. /\ f[at + 1] = 192 + u \div 16777216
      /\ f[at + 2] = (u \div 65536) % 256
      /\ f[at + 3] = (u \div 256) % 256
      /\ f[at + 4] = u % 256
  <2> DEFINE a == 192 + u \div 16777216
             b == (u \div 65536) % 256
             c == (u \div 256) % 256
             d == u % 256
  <2>1. a \in Int /\ b \in Int /\ c \in Int /\ d \in Int
    BY SMT, <1>3
  <2>2. Holds(f, at, <<a, b, c, d>>)
    BY SMT, <1>3a
  <2> HIDE DEF a, b, c, d
  <2>3. f[at + 1] = a /\ f[at + 2] = b /\ f[at + 3] = c /\ f[at + 4] = d
    BY <2>1, <2>2, HoldsFour
  <2> QED BY SMT, <2>3 DEF a, b, c, d
<1>5. f[at + 1] \div 64 = 3 /\ f[at + 1] % 64 = u \div 16777216
  BY SMT, <1>3, <1>4
<1>6. (u \div 16777216) * 16777216 + ((u \div 65536) % 256) * 65536
      + ((u \div 256) % 256) * 256 + (u % 256) = u
  BY SMT, <1>3
<1> QED BY SMT, <1>3, <1>4, <1>5, <1>6 DEF ParseOperand, Bits

(* So every operand that is not negative comes back as it was written, in   *)
(* whichever of its widths, and the cursor moves past it.                   *)
THEOREM OperandRoundTrip ==
  ASSUME NEW v \in Nat, NEW n \in {1, 2, 4}, Encodable(v, n),
         NEW f, NEW at \in Nat, Holds(f, at, EncodeOperand(v, n))
  PROVE  ParseOperand(f, at) = [size |-> n, val |-> v]
<1>1. n = 2 => v % 16384 = v
  BY SMT DEF Encodable, Bits
<1>2. n = 4 => v % 1073741824 = v
  BY SMT DEF Encodable, Bits
<1> QED BY SMT, <1>1, <1>2, ByteOperand, ShortOperand, WordOperand DEF Bits

(* A negative one written in two or four bytes comes back as another,       *)
(* positive number: the sign tests of parse_operand look at bits they have  *)
(* masked out.                                                              *)
THEOREM LongNegativesLoseSign ==
  ASSUME NEW v \in Int, v < 0, NEW n \in {2, 4}, Encodable(v, n),
         NEW f, NEW at \in Nat, Holds(f, at, EncodeOperand(v, n))
  PROVE  /\ ParseOperand(f, at).val = v + Bits(n)
         /\ ParseOperand(f, at).val > 0
<1>1. CASE n = 2
  <2>1. v % 16384 = v + 16384 /\ v + 16384 > 0
    BY SMT, <1>1 DEF Encodable, Bits
  <2> QED BY SMT, <1>1, <2>1, ShortOperand DEF Bits
<1>2. CASE n = 4
  <2>1. v % 1073741824 = v + 1073741824 /\ v + 1073741824 > 0
    BY SMT, <1>2 DEF Encodable, Bits
  <2> QED BY SMT, <1>2, <2>1, WordOperand DEF Bits
<1> QED BY SMT, <1>1, <1>2

-----------------------------------------------------------------------------
(* Octets, and what an encoder writes.                                      *)

(* A byte is a number.                                                      *)
LEMMA OctetInt == \A b \in Octet : b \in Int /\ 0 <= b /\ b <= 255
  BY DEF Octet

(* Numbers are the integers the longest operand holds.                      *)
LEMMA NumberInt ==
  /\ \A v \in Number : v \in Int /\ Encodable(v, 4)
  /\ \A v \in Count : v \in Nat /\ v \in Number
<1>1. Bits(4) = 1073741824 /\ Bits(4) \div 2 = 536870912
  BY SMT DEF Bits
<1>2. \A v \in Number : v \in Int /\ Encodable(v, 4)
  BY SMT, <1>1 DEF Number, Encodable
<1>3. \A v \in Count : v \in Nat /\ v \in Number
  BY SMT, <1>1 DEF Number, Count
<1> QED BY <1>2, <1>3

(* So are words.                                                            *)
LEMMA WordInt == \A v \in Word : v \in Int
<1>1. WordMax \in Int
  BY SMT DEF WordMax
<1> QED BY <1>1 DEF Word

(* Pieces of a file put together.                                           *)
LEMMA OctetsConcat ==
  ASSUME NEW a \in Octets, NEW b \in Octets
  PROVE  /\ a \o b \in Octets
         /\ Len(a) \in Nat /\ Len(b) \in Nat
         /\ Len(a \o b) = Len(a) + Len(b)
         /\ \A k \in 1 .. Len(a) : (a \o b)[k] = a[k]
         /\ \A k \in 1 .. Len(b) : (a \o b)[Len(a) + k] = b[k]
<1>1. Len(a) \in Nat /\ Len(b) \in Nat
  BY DEF Octets
<1>2. /\ a \o b \in Octets /\ Len(a \o b) = Len(a) + Len(b)
      /\ \A i \in 1 .. Len(a) + Len(b) :
           (a \o b)[i] = IF i <= Len(a) THEN a[i] ELSE b[i - Len(a)]
  BY ConcatProperties DEF Octets
<1>3. \A k \in 1 .. Len(a) : (a \o b)[k] = a[k]
  BY <1>1, <1>2
<1>4. ASSUME NEW k \in 1 .. Len(b) PROVE (a \o b)[Len(a) + k] = b[k]
  <2>1. Len(a) + k \in 1 .. Len(a) + Len(b) /\ ~(Len(a) + k <= Len(a)) /\ Len(a) + k - Len(a) = k
    BY <1>1
  <2> QED BY <1>2, <2>1
<1> QED BY <1>1, <1>2, <1>3, <1>4

(* Bytes can be put together from either side.                              *)
LEMMA OctetsAssociate ==
  ASSUME NEW a \in Octets, NEW b \in Octets, NEW c \in Octets
  PROVE  (a \o b) \o c = a \o (b \o c)
  BY ConcatAssociative DEF Octets

(* Concatenation under another name, which the provers take as it is.       *)
Join(a, b) == a \o b

(* The same, for Join.                                                      *)
LEMMA JoinLaws ==
  /\ \A a, b \in Octets : Join(a, b) \in Octets
  /\ \A a, b, c \in Octets : Join(Join(a, b), c) = Join(a, Join(b, c))
  /\ \A a \in Octets : Join(a, <<>>) = a /\ Join(<<>>, a) = a
<1>1. \A a, b \in Octets : a \o b \in Octets
  BY OctetsConcat
<1>2. \A a, b, c \in Octets : (a \o b) \o c = a \o (b \o c)
  BY OctetsAssociate
<1>3. \A a \in Octets : a \o <<>> = a /\ <<>> \o a = a
  BY ConcatEmptySeq DEF Octets
<1> QED BY <1>1, <1>2, <1>3 DEF Join

(* One byte.                                                                *)
LEMMA OneOctet ==
  ASSUME NEW b \in Octet
  PROVE  <<b>> \in Octets /\ Len(<<b>>) = 1 /\ <<b>>[1] = b
  BY DEF Octets

(* Pieces, one after the other, are bytes.                                  *)
LEMMA FlattenOctets ==
  ASSUME NEW seqs \in Seq(Octets)
  PROVE  FlattenSeq(seqs) \in Octets
  BY FlattenType DEF Octets

(* Pieces from the k+1st on.                                                *)
FlatFrom(seqs, k) == FlattenSeq([j \in 1 .. Len(seqs) - k |-> seqs[k + j]])

(* They are bytes; the first of them stands first; after the last there is  *)
(* nothing.                                                                 *)
LEMMA FlatFromFacts ==
  ASSUME NEW seqs \in Seq(Octets)
  PROVE  /\ \A k \in 0 .. Len(seqs) : FlatFrom(seqs, k) \in Octets
         /\ \A k \in 0 .. Len(seqs) - 1 : /\ seqs[k + 1] \in Octets
                                         /\ FlatFrom(seqs, k) = seqs[k + 1] \o FlatFrom(seqs, k + 1)
         /\ FlatFrom(seqs, Len(seqs)) = <<>>
         /\ FlatFrom(seqs, 0) = FlattenSeq(seqs)
<1> DEFINE SS == Octets
           Rest(k) == [j \in 1 .. Len(seqs) - k |-> seqs[k + j]]
<1>1. Len(seqs) \in Nat /\ \A k \in 1 .. Len(seqs) : seqs[k] \in SS
  BY LenProperties, ElementOfSeq
<1>2. \A k \in 0 .. Len(seqs) : FlatFrom(seqs, k) = FlattenSeq(Rest(k))
  BY DEF FlatFrom
<1>3. \A k \in 0 .. Len(seqs) : Rest(k) \in Seq(SS) /\ Len(Rest(k)) = Len(seqs) - k
  <2> HIDE DEF SS
  <2> QED BY <1>1
<1>4. ASSUME NEW k \in 0 .. Len(seqs) - 1
      PROVE  FlattenSeq(Rest(k)) = seqs[k + 1] \o FlattenSeq(Rest(k + 1))
  <2>1. k \in 0 .. Len(seqs) /\ k + 1 \in 0 .. Len(seqs)
    BY <1>1
  <2>2. Rest(k)[1] = seqs[k + 1] /\ Len(Rest(k)) = Len(Rest(k + 1)) + 1
    BY <1>1, <1>3, <2>1
  <2>3. \A i \in 1 .. Len(Rest(k + 1)) : Rest(k + 1)[i] = Rest(k)[i + 1]
    BY <1>1, <1>3, <2>1
  <2>4. Rest(k) \in Seq(Seq(Octet)) /\ Rest(k + 1) \in Seq(Seq(Octet))
    BY <1>3, <2>1 DEF Octets
  <2> HIDE DEF Rest
  <2>5. FlattenSeq(Rest(k)) = Rest(k)[1] \o FlattenSeq(Rest(k + 1))
    BY <2>2, <2>3, <2>4, FlattenFirst
  <2> QED BY <2>2, <2>5
<1>5. Rest(Len(seqs)) = <<>>
  BY <1>1, <1>3
<1>6. Rest(0) = seqs
  BY <1>1
<1>7. \A k \in 0 .. Len(seqs) : FlattenSeq(Rest(k)) \in Octets
  BY <1>3, FlattenOctets
<1>8. \A k \in 0 .. Len(seqs) - 1 : k \in 0 .. Len(seqs) /\ k + 1 \in 0 .. Len(seqs) /\ k + 1 \in 1 .. Len(seqs)
  BY <1>1
<1>9. 0 \in 0 .. Len(seqs) /\ Len(seqs) \in 0 .. Len(seqs)
  BY <1>1
<1> HIDE DEF Rest
<1>10. \A k \in 0 .. Len(seqs) - 1 : FlatFrom(seqs, k) = seqs[k + 1] \o FlatFrom(seqs, k + 1)
  BY <1>2, <1>4, <1>8
<1>11. FlatFrom(seqs, Len(seqs)) = <<>> /\ FlatFrom(seqs, 0) = FlattenSeq(seqs)
  BY <1>2, <1>5, <1>6, <1>9, FlattenEmpty
<1> QED BY <1>1, <1>2, <1>7, <1>8, <1>10, <1>11

(* No bytes.                                                                *)
LEMMA NoOctets == <<>> \in Octets /\ Len(<<>>) = 0
  BY DEF Octets

(* Operands.                                                                *)
LEMMA EncodeOperandType ==
  ASSUME NEW n \in {1, 2, 4}, NEW v \in Int, Encodable(v, n)
  PROVE  EncodeOperand(v, n) \in Octets /\ Len(EncodeOperand(v, n)) = n
<1> DEFINE u == IF v < 0 THEN v + Bits(n) ELSE v
<1>1. u \in Int /\ 0 <= u /\ u < Bits(n)
  BY SMT DEF Encodable, Bits
<1>2. EncodeOperand(v, n) =
        IF n = 1 THEN <<u>>
        ELSE IF n = 2 THEN <<128 + u \div 256, u % 256>>
        ELSE <<192 + u \div 16777216, (u \div 65536) % 256, (u \div 256) % 256, u % 256>>
  BY SMT DEF EncodeOperand
<1> HIDE DEF u
<1>3. CASE n = 1
  <2>1. u \in Octet
    BY SMT, <1>1, <1>3 DEF Bits, Octet
  <2> QED BY SMT, <1>2, <1>3, <2>1, OneOctet
<1>4. CASE n = 2
  <2>1. 128 + u \div 256 \in Octet /\ u % 256 \in Octet
    BY SMT, <1>1, <1>4 DEF Bits, Octet
  <2> QED BY SMT, <1>2, <1>4, <2>1 DEF Octets
<1>5. CASE n = 4
  <2>1. /\ 192 + u \div 16777216 \in Octet /\ (u \div 65536) % 256 \in Octet
        /\ (u \div 256) % 256 \in Octet /\ u % 256 \in Octet
    BY SMT, <1>1, <1>5 DEF Bits, Octet
  <2> QED BY SMT, <1>2, <1>5, <2>1 DEF Octets
<1> QED BY <1>3, <1>4, <1>5

(* A number is written in a width it fits.                                  *)
LEMMA WidthFits ==
  ASSUME NEW v \in Number, NEW wide \in BOOLEAN
  PROVE  /\ Width(v, wide) \in {1, 2, 4} /\ Encodable(v, Width(v, wide))
         /\ Op(v, wide) \in Octets /\ Len(Op(v, wide)) = Width(v, wide)
<1>1. Width(v, wide) \in {1, 2, 4} /\ Encodable(v, Width(v, wide))
  BY SMT, NumberInt DEF Width
<1> QED BY <1>1, NumberInt, EncodeOperandType DEF Op

(* Numbers in a row are written as bytes.                                   *)
LEMMA OpsType ==
  ASSUME NEW vs \in Seq(Number), NEW wide \in BOOLEAN
  PROVE  /\ Ops(vs, wide) \in Octets
         /\ [k \in 1 .. Len(vs) |-> Op(vs[k], wide)] \in Seq(Octets)
<1>1. Len(vs) \in Nat /\ \A k \in 1 .. Len(vs) : vs[k] \in Number
  BY LenProperties, ElementOfSeq
<1>2. \A k \in 1 .. Len(vs) : Op(vs[k], wide) \in Octets
  BY <1>1, WidthFits
<1>3. [k \in 1 .. Len(vs) |-> Op(vs[k], wide)] \in Seq(Octets)
  BY <1>1, <1>2
<1>4. FlattenSeq([k \in 1 .. Len(vs) |-> Op(vs[k], wide)]) \in Octets
  BY <1>3, FlattenOctets
<1> QED BY <1>3, <1>4 DEF Ops

(* One number, and two.                                                     *)
LEMMA OpsOne ==
  ASSUME NEW v \in Number, NEW wide \in BOOLEAN
  PROVE  Ops(<<v>>, wide) = Op(v, wide)
<1> DEFINE s == [k \in 1 .. Len(<<v>>) |-> Op(<<v>>[k], wide)]
<1>1. Len(s) = 1 /\ s[1] = Op(v, wide)
  OBVIOUS
<1>2. FlattenSeq(s) = s[1]
  BY <1>1, FlattenOne
<1> QED BY <1>1, <1>2 DEF Ops

(* Two numbers are written one behind the other.                            *)
LEMMA OpsTwo ==
  ASSUME NEW v \in Number, NEW u \in Number, NEW wide \in BOOLEAN
  PROVE  Ops(<<v, u>>, wide) = Op(v, wide) \o Op(u, wide)
<1> DEFINE s == [k \in 1 .. Len(<<v, u>>) |-> Op(<<v, u>>[k], wide)]
<1>1. Op(v, wide) \in Octets /\ Op(u, wide) \in Octets
  BY WidthFits
<1>2. Len(s) = 2 /\ s[1] = Op(v, wide) /\ s[2] = Op(u, wide)
  OBVIOUS
<1>3. s \in Seq(Octets)
  BY <1>1, <1>2
<1> HIDE DEF s
<1>3a. \A k \in 0 .. Len(s) - 1 : FlatFrom(s, k) = s[k + 1] \o FlatFrom(s, k + 1)
  BY <1>3, FlatFromFacts
<1>3b. {0, 1} \subseteq 0 .. Len(s) - 1 /\ 0 + 1 = 1 /\ 1 + 1 = 2
  BY <1>2
<1>4. FlatFrom(s, 0) = s[1] \o FlatFrom(s, 1)
  BY <1>3a, <1>3b
<1>5. FlatFrom(s, 1) = s[2] \o FlatFrom(s, 2)
  BY <1>3a, <1>3b
<1>6. FlatFrom(s, 2) = <<>> /\ FlatFrom(s, 0) = FlattenSeq(s)
  BY <1>2, <1>3, FlatFromFacts
<1>7. s[2] \o <<>> = s[2]
  BY <1>1, <1>2, ConcatEmptySeq DEF Octets
<1> QED BY <1>2, <1>4, <1>5, <1>6, <1>7 DEF s, Ops

(* A name is written as its bytes and a zero.                               *)
LEMMA NameType ==
  ASSUME NEW s \in Names
  PROVE  Name(s) \in Octets /\ s \in Octets /\ Len(Name(s)) = Len(s) + 1
<1>1. 1 .. 255 \subseteq Octet /\ 0 \in Octet
  BY DEF Octet
<1>2. s \in Octets
  BY <1>1, SeqMonotonic DEF Names, Octets
<1> QED BY <1>1, <1>2, OneOctet, OctetsConcat DEF Name

(* A word is written as four bytes.                                         *)
LEMMA EncodeWordType ==
  ASSUME NEW v \in Int
  PROVE  EncodeWord(v) \in Octets /\ Len(EncodeWord(v)) = 4
<1>1. /\ (v \div 16777216) % 256 \in Octet /\ (v \div 65536) % 256 \in Octet
      /\ (v \div 256) % 256 \in Octet /\ v % 256 \in Octet
  BY SMT DEF Octet
<1> QED BY SMT, <1>1 DEF EncodeWord, Octets

-----------------------------------------------------------------------------
(* The parts of a module.                                                   *)

(* The fields of what an encoder writes.                                    *)
LEMMA ModuleTypes ==
  ASSUME NEW m, IsModule(m)
  PROVE  /\ m.wide \in BOOLEAN /\ m.signature \in Octets /\ m.flag \in RuntimeFlags
         /\ m.stack \in Number /\ m.dsize \in Count /\ m.pc \in Number /\ m.etype \in Count
         /\ m.code \in Seq(Codes) /\ m.types \in Seq(Types) /\ m.items \in Seq(Items)
         /\ m.name \in Names /\ m.links \in Seq(Links) /\ m.imports \in Seq(Seq(Imports))
         /\ m.handler \in Seq(Number) /\ m.exceptions \in Seq(Handles) /\ m.path \in Names
<1> DEFINE A == Octets
           B == Seq(Codes)
           C == Seq(Types)
           D == Seq(Items)
           E == Seq(Links)
           F == Seq(Seq(Imports))
           G == Seq(Number)
           H == Seq(Handles)
<1>1. m \in [wide : BOOLEAN, signature : A, flag : RuntimeFlags, stack : Number, dsize : Count,
             pc : Number, etype : Count, code : B, types : C, items : D, name : Names,
             links : E, imports : F, handler : G, exceptions : H, path : Names]
  BY DEF IsModule, ModuleFields
<1> HIDE DEF A, B, C, D, E, F, G, H
<1>2. /\ m.wide \in BOOLEAN /\ m.signature \in A /\ m.flag \in RuntimeFlags
      /\ m.stack \in Number /\ m.dsize \in Count /\ m.pc \in Number /\ m.etype \in Count
      /\ m.code \in B /\ m.types \in C /\ m.items \in D /\ m.name \in Names
      /\ m.links \in E /\ m.imports \in F /\ m.handler \in G /\ m.exceptions \in H
      /\ m.path \in Names
  BY <1>1
<1> QED BY <1>2 DEF A, B, C, D, E, F, G, H

(* The lengths of its sections are numbers too.                             *)
LEMMA ModuleCounts ==
  ASSUME NEW m, IsModule(m)
  PROVE  /\ Len(m.signature) \in Count /\ Len(m.code) \in Count /\ Len(m.types) \in Count
         /\ Len(m.links) \in Count /\ Len(m.imports) \in Count /\ Len(m.exceptions) \in Count
  BY DEF IsModule

(* The bytes of each section, piece by piece.                               *)
CodeBytes(m) == [k \in 1 .. Len(m.code) |-> EncodeCode(m.code[k], m.wide)]
TypeBytes(m) == [k \in 1 .. Len(m.types) |-> EncodeType(m.types[k], m.wide)]
DataBytes(m) == [k \in 1 .. Len(m.items) |-> EncodeItem(m.items[k], m.wide)]
LinkBytes(m) == [k \in 1 .. Len(m.links) |-> EncodeLink(m.links[k], m.wide)]
FunctionBytes(im) == [k \in 1 .. Len(im) |-> EncodeImport(im[k])]
ImportBytes(m) == [k \in 1 .. Len(m.imports) |-> EncodeImportModule(m.imports[k], m.wide)]
HandlerBytes(m) == [k \in 1 .. Len(m.exceptions) |-> EncodeHandler(m.exceptions[k], m.wide)]

(* The file, part by part.                                                  *)
LEMMA EncodeParts ==
  ASSUME NEW m
  PROVE  /\ EncodeFront(m) = EncodeMagic(m) \o EncodeHeader(m) \o FlattenSeq(CodeBytes(m))
                             \o FlattenSeq(TypeBytes(m))
         /\ EncodeData(m) = FlattenSeq(DataBytes(m)) \o <<0>>
         /\ EncodeRest(m) = Name(m.name) \o FlattenSeq(LinkBytes(m)) \o EncodeImports(m)
                            \o EncodeHandlers(m) \o Name(m.path)
         /\ m.flag = HASLDT2 =>
              EncodeImports(m) = Op(Len(m.imports), m.wide) \o FlattenSeq(ImportBytes(m)) \o <<0>>
         /\ m.flag # HASLDT2 => EncodeImports(m) = <<>>
         /\ m.flag = HASEXCEPT =>
              EncodeHandlers(m) = Ops(SubSeq(m.handler, 1, 4) \o <<Len(m.exceptions)>>, m.wide)
                                  \o FlattenSeq(HandlerBytes(m)) \o Op(m.handler[5], m.wide)
         /\ m.flag # HASEXCEPT => EncodeHandlers(m) = <<>>
<1>1. EncodeFront(m) = EncodeMagic(m) \o EncodeHeader(m) \o FlattenSeq(CodeBytes(m))
                             \o FlattenSeq(TypeBytes(m))
  BY DEF EncodeFront, Each, CodeBytes, TypeBytes
<1>2. EncodeData(m) = FlattenSeq(DataBytes(m)) \o <<0>>
  BY DEF EncodeData, Each, DataBytes
<1>3. EncodeRest(m) = Name(m.name) \o FlattenSeq(LinkBytes(m)) \o EncodeImports(m)
                            \o EncodeHandlers(m) \o Name(m.path)
  BY DEF EncodeRest, Each, LinkBytes
<1>4. m.flag = HASLDT2 =>
        EncodeImports(m) = Op(Len(m.imports), m.wide) \o FlattenSeq(ImportBytes(m)) \o <<0>>
  BY DEF EncodeImports, Each, ImportBytes
<1>5. m.flag = HASEXCEPT =>
        EncodeHandlers(m) = Ops(SubSeq(m.handler, 1, 4) \o <<Len(m.exceptions)>>, m.wide)
                            \o FlattenSeq(HandlerBytes(m)) \o Op(m.handler[5], m.wide)
  BY DEF EncodeHandlers, Each, HandlerBytes
<1>6. (m.flag # HASLDT2 => EncodeImports(m) = <<>>) /\ (m.flag # HASEXCEPT => EncodeHandlers(m) = <<>>)
  BY DEF EncodeImports, EncodeHandlers
<1> QED BY <1>1, <1>2, <1>3, <1>4, <1>5, <1>6

(* Sequences of numbers put together.                                       *)
LEMMA NumbersConcat ==
  ASSUME NEW a \in Seq(Number), NEW b \in Seq(Number)
  PROVE  a \o b \in Seq(Number) /\ Len(a \o b) = Len(a) + Len(b)
  BY ConcatProperties

(* The bytes of an instruction.                                             *)
LEMMA CodePiece ==
  ASSUME NEW i \in Codes, NEW wide \in BOOLEAN
  PROVE  /\ i.opcode \in Octet /\ i.address \in Octet
         /\ i.mid \in Seq(Number) /\ i.src \in Seq(Number) /\ i.dst \in Seq(Number)
         /\ i.mid \o i.src \o i.dst \in Seq(Number)
         /\ Len(i.mid \o i.src \o i.dst) = Len(i.mid) + Len(i.src) + Len(i.dst)
         /\ <<i.opcode, i.address>> \in Octets
         /\ Ops(i.mid \o i.src \o i.dst, wide) \in Octets
         /\ EncodeCode(i, wide) = <<i.opcode, i.address>> \o Ops(i.mid \o i.src \o i.dst, wide)
         /\ EncodeCode(i, wide) \in Octets
<1>1. /\ i.opcode \in Octet /\ i.address \in Octet
      /\ i.mid \in Seq(Number) /\ i.src \in Seq(Number) /\ i.dst \in Seq(Number)
  <2> DEFINE SN == Seq(Number)
  <2>1. i \in [opcode : Octet, address : Octet, mid : SN, src : SN, dst : SN]
    BY DEF Codes
  <2> HIDE DEF SN
  <2>2. i.opcode \in Octet /\ i.address \in Octet /\ i.mid \in SN /\ i.src \in SN /\ i.dst \in SN
    BY <2>1
  <2> QED BY <2>2 DEF SN
<1>2. /\ i.mid \o i.src \o i.dst \in Seq(Number)
      /\ Len(i.mid \o i.src \o i.dst) = Len(i.mid) + Len(i.src) + Len(i.dst)
  BY <1>1, NumbersConcat
<1>3. <<i.opcode, i.address>> \in Octets
  BY <1>1 DEF Octets
<1>4. Ops(i.mid \o i.src \o i.dst, wide) \in Octets
  BY <1>2, OpsType
<1>5. EncodeCode(i, wide) = <<i.opcode, i.address>> \o Ops(i.mid \o i.src \o i.dst, wide)
  BY DEF EncodeCode
<1>6. EncodeCode(i, wide) \in Octets
  BY <1>3, <1>4, <1>5, OctetsConcat
<1> QED BY <1>1, <1>2, <1>3, <1>4, <1>5, <1>6

(* The bytes of a type.                                                     *)
LEMMA TypePiece ==
  ASSUME NEW t \in Types, NEW wide \in BOOLEAN, Len(t.map) \in Count
  PROVE  /\ t.no \in Count /\ t.size \in Number /\ t.map \in Octets
         /\ <<t.no, t.size, Len(t.map)>> \in Seq(Number)
         /\ Ops(<<t.no, t.size, Len(t.map)>>, wide) \in Octets
         /\ EncodeType(t, wide) = Ops(<<t.no, t.size, Len(t.map)>>, wide) \o t.map
         /\ EncodeType(t, wide) \in Octets
<1>1. t.no \in Count /\ t.size \in Number /\ t.map \in Octets
  BY DEF Types
<1>2. t.no \in Number /\ Len(t.map) \in Number
  BY <1>1, NumberInt
<1>3. <<t.no, t.size, Len(t.map)>> \in Seq(Number)
  BY <1>1, <1>2
<1>4. Ops(<<t.no, t.size, Len(t.map)>>, wide) \in Octets
  BY <1>3, OpsType
<1>5. EncodeType(t, wide) = Ops(<<t.no, t.size, Len(t.map)>>, wide) \o t.map
  BY DEF EncodeType
<1>6. EncodeType(t, wide) \in Octets
  BY <1>1, <1>4, <1>5, OctetsConcat
<1> QED BY <1>1, <1>3, <1>4, <1>5, <1>6

(* The numbers of an item: a count the first byte does not hold, an offset. *)
ItemNumbers(i) == IF i.count \in 1 .. 15 THEN <<i.off>> ELSE <<i.count, i.off>>
ItemCode(i) == 16 * i.typ + (IF i.count \in 1 .. 15 THEN i.count ELSE 0)

(* The bytes of an item.                                                    *)
LEMMA ItemPiece ==
  ASSUME NEW i \in Items, NEW wide \in BOOLEAN
  PROVE  /\ i.typ \in DataTypes /\ i.count \in Count /\ i.off \in Number /\ i.payload \in Octets
         /\ ItemNumbers(i) \in Seq(Number) /\ ItemCode(i) \in Octet
         /\ Ops(ItemNumbers(i), wide) \in Octets
         /\ EncodeItem(i, wide) = (<<ItemCode(i)>> \o Ops(ItemNumbers(i), wide)) \o i.payload
         /\ EncodeItem(i, wide) \in Octets
<1>1. i.typ \in DataTypes /\ i.count \in Count /\ i.off \in Number /\ i.payload \in Octets
  BY DEF Items
<1>2. i.count \in Number
  BY <1>1, NumberInt
<1>3. ItemNumbers(i) \in Seq(Number)
  BY <1>1, <1>2 DEF ItemNumbers
<1>4. ItemCode(i) \in Octet
  BY <1>1 DEF ItemCode, DataTypes, Octet
<1>5. Ops(ItemNumbers(i), wide) \in Octets
  BY <1>3, OpsType
<1>6. /\ Op(i.count, wide) \in Octets /\ Op(i.off, wide) \in Octets
      /\ <<ItemCode(i)>> \in Octets
  BY <1>1, <1>2, <1>4, WidthFits, OneOctet
<1>7. EncodeItem(i, wide) = <<ItemCode(i)>>
        \o (IF i.count \in 1 .. 15 THEN <<>> ELSE Op(i.count, wide))
        \o Op(i.off, wide) \o i.payload
  BY DEF EncodeItem, ItemCode
<1>8. CASE i.count \in 1 .. 15
  <2>1. Ops(ItemNumbers(i), wide) = Op(i.off, wide)
    BY <1>1, <1>8, OpsOne DEF ItemNumbers
  <2>2. <<ItemCode(i)>> \o <<>> = <<ItemCode(i)>>
    BY <1>6, ConcatEmptySeq DEF Octets
  <2>3. EncodeItem(i, wide) = (<<ItemCode(i)>> \o Op(i.off, wide)) \o i.payload
    BY <1>7, <1>8, <2>2
  <2>4. <<ItemCode(i)>> \o Op(i.off, wide) \in Octets
    BY <1>6, OctetsConcat
  <2>5. EncodeItem(i, wide) \in Octets
    BY <1>1, <2>3, <2>4, OctetsConcat
  <2> QED BY <1>1, <1>3, <1>4, <1>5, <2>1, <2>3, <2>5
<1>9. CASE ~(i.count \in 1 .. 15)
  <2>1. Ops(ItemNumbers(i), wide) = Op(i.count, wide) \o Op(i.off, wide)
    BY <1>1, <1>2, <1>9, OpsTwo DEF ItemNumbers
  <2>2. EncodeItem(i, wide) = ((<<ItemCode(i)>> \o Op(i.count, wide)) \o Op(i.off, wide)) \o i.payload
    BY <1>7, <1>9
  <2>2a. (<<ItemCode(i)>> \o Op(i.count, wide)) \o Op(i.off, wide)
           = <<ItemCode(i)>> \o Ops(ItemNumbers(i), wide)
    BY <1>6, <2>1, OctetsAssociate
  <2>3. EncodeItem(i, wide) = (<<ItemCode(i)>> \o Ops(ItemNumbers(i), wide)) \o i.payload
    BY <2>2, <2>2a
  <2>4. <<ItemCode(i)>> \o Ops(ItemNumbers(i), wide) \in Octets
    BY <1>5, <1>6, OctetsConcat
  <2>5. EncodeItem(i, wide) \in Octets
    BY <1>1, <2>3, <2>4, OctetsConcat
  <2> QED BY <1>1, <1>3, <1>4, <1>5, <2>3, <2>5
<1> QED BY <1>8, <1>9

(* The bytes of a link.                                                     *)
LEMMA LinkPiece ==
  ASSUME NEW l \in Links, NEW wide \in BOOLEAN
  PROVE  /\ l.pc \in Number /\ l.desc \in Count /\ l.sig \in Word /\ l.fn \in Names
         /\ <<l.pc, l.desc>> \in Seq(Number)
         /\ Ops(<<l.pc, l.desc>>, wide) \in Octets /\ EncodeWord(l.sig) \in Octets
         /\ Name(l.fn) \in Octets
         /\ EncodeLink(l, wide) = (Ops(<<l.pc, l.desc>>, wide) \o EncodeWord(l.sig)) \o Name(l.fn)
         /\ EncodeLink(l, wide) \in Octets
<1>1. l.pc \in Number /\ l.desc \in Count /\ l.sig \in Word /\ l.fn \in Names
  BY DEF Links
<1>2. <<l.pc, l.desc>> \in Seq(Number)
  BY <1>1, NumberInt
<1>3. l.sig \in Int
  BY <1>1, WordInt
<1>4. /\ Ops(<<l.pc, l.desc>>, wide) \in Octets /\ EncodeWord(l.sig) \in Octets
      /\ Name(l.fn) \in Octets
  BY <1>1, <1>2, <1>3, OpsType, EncodeWordType, NameType
<1>5. EncodeLink(l, wide) = (Ops(<<l.pc, l.desc>>, wide) \o EncodeWord(l.sig)) \o Name(l.fn)
  BY DEF EncodeLink
<1>6. EncodeLink(l, wide) \in Octets
  BY <1>4, <1>5, OctetsConcat
<1> QED BY <1>1, <1>2, <1>4, <1>5, <1>6

(* The bytes of an import.                                                  *)
LEMMA ImportPiece ==
  ASSUME NEW i \in Imports
  PROVE  /\ i.sig \in Word /\ i.fn \in Names
         /\ EncodeWord(i.sig) \in Octets /\ Name(i.fn) \in Octets
         /\ EncodeImport(i) = EncodeWord(i.sig) \o Name(i.fn)
         /\ EncodeImport(i) \in Octets
<1>1. i.sig \in Word /\ i.fn \in Names
  BY DEF Imports
<1>2. i.sig \in Int
  BY <1>1, WordInt
<1>3. EncodeWord(i.sig) \in Octets /\ Name(i.fn) \in Octets
  BY <1>1, <1>2, EncodeWordType, NameType
<1>4. EncodeImport(i) = EncodeWord(i.sig) \o Name(i.fn)
  BY DEF EncodeImport
<1> QED BY <1>1, <1>3, <1>4, OctetsConcat

(* The imports of one module are as many pieces as there are functions.     *)
LEMMA FunctionBytesType ==
  ASSUME NEW im \in Seq(Imports)
  PROVE  FunctionBytes(im) \in Seq(Octets) /\ Len(FunctionBytes(im)) = Len(im)
<1>1. Len(im) \in Nat /\ \A k \in 1 .. Len(im) : im[k] \in Imports
  BY LenProperties, ElementOfSeq
<1>2. \A k \in 1 .. Len(im) : EncodeImport(im[k]) \in Octets
  BY <1>1, ImportPiece
<1> QED BY <1>1, <1>2 DEF FunctionBytes

(* The bytes of one module's imports: their number and the functions.       *)
LEMMA ImportModulePiece ==
  ASSUME NEW im \in Seq(Imports), NEW wide \in BOOLEAN, Len(im) \in Count
  PROVE  /\ Op(Len(im), wide) \in Octets
         /\ EncodeImportModule(im, wide) = Op(Len(im), wide) \o FlattenSeq(FunctionBytes(im))
         /\ EncodeImportModule(im, wide) \in Octets
<1>1. Op(Len(im), wide) \in Octets
  BY NumberInt, WidthFits
<1>2. FlattenSeq(FunctionBytes(im)) \in Octets
  BY FunctionBytesType, FlattenOctets
<1>3. EncodeImportModule(im, wide) = Op(Len(im), wide) \o FlattenSeq(FunctionBytes(im))
  BY DEF EncodeImportModule, Each, FunctionBytes
<1> QED BY <1>1, <1>2, <1>3, OctetsConcat

(* The bytes of a handler.                                                  *)
LEMMA HandlerPiece ==
  ASSUME NEW e \in Handles, NEW wide \in BOOLEAN
  PROVE  EncodeHandler(e, wide) \in Octets
<1>1. e.fn \in Names /\ e.pc \in Number
  BY DEF Handles
<1>2. Name(e.fn) \in Octets /\ Op(e.pc, wide) \in Octets
  BY <1>1, NameType, WidthFits
<1> QED BY <1>2, OctetsConcat DEF EncodeHandler

-----------------------------------------------------------------------------
(* Operands of any widths, one after the other.                             *)

Written(vs, ws) == FlattenSeq([k \in 1 .. Len(vs) |-> EncodeOperand(vs[k], ws[k])])
Widths(vs, wide) == [k \in 1 .. Len(vs) |-> Width(vs[k], wide)]

Fits(vs, ws) ==
  /\ vs \in Seq(Int) /\ ws \in Seq({1, 2, 4}) /\ Len(ws) = Len(vs)
  /\ \A k \in 1 .. Len(vs) : Encodable(vs[k], ws[k])

(* They are bytes.                                                          *)
LEMMA WrittenType ==
  ASSUME NEW vs, NEW ws, Fits(vs, ws)
  PROVE  /\ Written(vs, ws) \in Octets
         /\ [k \in 1 .. Len(vs) |-> EncodeOperand(vs[k], ws[k])] \in Seq(Octets)
<1>1. /\ Len(vs) \in Nat
      /\ \A k \in 1 .. Len(vs) : vs[k] \in Int /\ ws[k] \in {1, 2, 4} /\ Encodable(vs[k], ws[k])
  BY LenProperties, ElementOfSeq DEF Fits
<1>2. \A k \in 1 .. Len(vs) : EncodeOperand(vs[k], ws[k]) \in Octets
  BY <1>1, EncodeOperandType
<1>3. [k \in 1 .. Len(vs) |-> EncodeOperand(vs[k], ws[k])] \in Seq(Octets)
  BY <1>1, <1>2
<1>4. FlattenSeq([k \in 1 .. Len(vs) |-> EncodeOperand(vs[k], ws[k])]) \in Octets
  BY <1>3, FlattenOctets
<1> QED BY <1>3, <1>4 DEF Written

(* Numbers in the widths the encoder chooses are such operands.             *)
LEMMA OpsWritten ==
  ASSUME NEW vs \in Seq(Number), NEW wide \in BOOLEAN
  PROVE  Ops(vs, wide) = Written(vs, Widths(vs, wide)) /\ Fits(vs, Widths(vs, wide))
<1>1. Len(vs) \in Nat /\ \A k \in 1 .. Len(vs) : vs[k] \in Number
  BY LenProperties, ElementOfSeq
<1>2. \A k \in 1 .. Len(vs) : /\ Width(vs[k], wide) \in {1, 2, 4} /\ vs[k] \in Int
                              /\ Encodable(vs[k], Width(vs[k], wide))
  BY <1>1, WidthFits, NumberInt
<1>3. /\ Widths(vs, wide) \in Seq({1, 2, 4}) /\ Len(Widths(vs, wide)) = Len(vs)
      /\ \A k \in 1 .. Len(vs) : Widths(vs, wide)[k] = Width(vs[k], wide)
  BY <1>1, <1>2 DEF Widths
<1>4. vs \in Seq(Int)
  BY NumberInt, SeqMonotonic
<1>5. Fits(vs, Widths(vs, wide))
  BY <1>2, <1>3, <1>4 DEF Fits
<1>6. [k \in 1 .. Len(vs) |-> Op(vs[k], wide)]
        = [k \in 1 .. Len(vs) |-> EncodeOperand(vs[k], Widths(vs, wide)[k])]
  BY <1>3 DEF Op
<1> QED BY <1>5, <1>6 DEF Ops, Written

(* The first of them stands first.                                          *)
Behind(us, xs, vs, ws) ==
  /\ Len(vs) = Len(us) + 1
  /\ \A k \in 1 .. Len(us) : us[k] = vs[k + 1] /\ xs[k] = ws[k + 1]

(* Numbers written with their widths: the first one, then the others.       *)
LEMMA WrittenFirst ==
  ASSUME NEW vs, NEW ws, Fits(vs, ws), NEW us, NEW xs, Fits(us, xs), Behind(us, xs, vs, ws)
  PROVE  Written(vs, ws) = EncodeOperand(vs[1], ws[1]) \o Written(us, xs)
<1> DEFINE s == [k \in 1 .. Len(vs) |-> EncodeOperand(vs[k], ws[k])]
           r == [k \in 1 .. Len(us) |-> EncodeOperand(us[k], xs[k])]
<1>1. s \in Seq(Octets) /\ r \in Seq(Octets)
  BY WrittenType
<1>2. Len(vs) \in Nat /\ Len(us) \in Nat
  BY DEF Fits
<1>3. /\ Len(s) = Len(r) + 1 /\ s[1] = EncodeOperand(vs[1], ws[1])
      /\ \A i \in 1 .. Len(r) : r[i] = s[i + 1]
  BY <1>2 DEF Behind
<1>4. s \in Seq(Seq(Octet)) /\ r \in Seq(Seq(Octet))
  BY <1>1 DEF Octets
<1> HIDE DEF s, r
<1>5. FlattenSeq(s) = s[1] \o FlattenSeq(r)
  BY <1>3, <1>4, FlattenFirst
<1> QED BY <1>3, <1>5 DEF s, r, Written

(* One number written with its width.                                       *)
LEMMA WrittenOne ==
  ASSUME NEW v \in Int, NEW w \in {1, 2, 4}, Encodable(v, w)
  PROVE  Fits(<<v>>, <<w>>) /\ Written(<<v>>, <<w>>) = EncodeOperand(v, w)
<1>1. Fits(<<v>>, <<w>>)
  BY DEF Fits
<1> DEFINE s == [k \in 1 .. Len(<<v>>) |-> EncodeOperand(<<v>>[k], <<w>>[k])]
<1>2. Len(s) = 1 /\ s[1] = EncodeOperand(v, w)
  OBVIOUS
<1>3. FlattenSeq(s) = s[1]
  BY <1>2, FlattenOne
<1> QED BY <1>1, <1>2, <1>3 DEF Written

(* Two numbers written with their widths.                                   *)
LEMMA WrittenTwo ==
  ASSUME NEW v \in Int, NEW w \in {1, 2, 4}, Encodable(v, w),
         NEW u \in Int, NEW x \in {1, 2, 4}, Encodable(u, x)
  PROVE  /\ Fits(<<v, u>>, <<w, x>>)
         /\ Written(<<v, u>>, <<w, x>>) = EncodeOperand(v, w) \o EncodeOperand(u, x)
<1>1. Fits(<<v, u>>, <<w, x>>)
  BY DEF Fits
<1>2. Fits(<<u>>, <<x>>) /\ Written(<<u>>, <<x>>) = EncodeOperand(u, x)
  BY WrittenOne
<1> DEFINE vs == <<v, u>>
           ws == <<w, x>>
           us == <<u>>
           xs == <<x>>
<1>3. vs[1] = v /\ ws[1] = w
  OBVIOUS
<1>4. Behind(us, xs, vs, ws)
  BY DEF Behind
<1>5. Fits(vs, ws) /\ Fits(us, xs) /\ Written(us, xs) = EncodeOperand(u, x)
  BY <1>1, <1>2
<1> HIDE DEF vs, ws, us, xs
<1>5a. Fits(vs, ws) /\ Fits(us, xs)
  BY <1>5
<1>6. Written(vs, ws) = EncodeOperand(vs[1], ws[1]) \o Written(us, xs)
  BY <1>4, <1>5a, WrittenFirst
<1> QED BY <1>3, <1>5, <1>6 DEF vs, ws

-----------------------------------------------------------------------------
(* The parts of a file.                                                     *)

(* The flag is a short number, written as shortly as it can be.             *)
FlagWidth(m) == IF m.flag < 64 THEN 1 ELSE 2
HeaderWidths(m) ==
  [k \in 1 .. 8 |-> IF k = 1 THEN FlagWidth(m) ELSE Width(Header(m)[k], m.wide)]

(* A runtime flag is written in one byte or in two.                         *)
LEMMA FlagFits ==
  ASSUME NEW m, m.flag \in RuntimeFlags
  PROVE  /\ m.flag \in Nat /\ FlagWidth(m) \in {1, 2} /\ Encodable(m.flag, FlagWidth(m))
  BY DEF RuntimeFlags, FlagWidth, Encodable, Bits, HASEXCEPT, HASLDT2

(* The bytes of the header are its eight numbers, each in its width.        *)
LEMMA HeaderPiece ==
  ASSUME NEW m, IsModule(m)
  PROVE  /\ EncodeHeader(m) = Written(Header(m), HeaderWidths(m))
         /\ Fits(Header(m), HeaderWidths(m)) /\ Len(Header(m)) = 8
         /\ EncodeHeader(m) \in Octets
<1> DEFINE t == <<m.stack, Len(m.code), m.dsize, Len(m.types), Len(m.links), m.pc, m.etype>>
           x == Widths(t, m.wide)
<1>1. /\ m.wide \in BOOLEAN /\ m.flag \in RuntimeFlags
      /\ m.stack \in Number /\ m.dsize \in Count /\ m.pc \in Number /\ m.etype \in Count
      /\ Len(m.code) \in Count /\ Len(m.types) \in Count /\ Len(m.links) \in Count
  BY ModuleTypes, ModuleCounts
<1>2. t \in Seq(Number) /\ Len(t) = 7
  <2>1. /\ m.dsize \in Number /\ m.etype \in Number /\ Len(m.code) \in Number
        /\ Len(m.types) \in Number /\ Len(m.links) \in Number
    BY <1>1, NumberInt
  <2> QED BY <1>1, <2>1
<1>3. /\ Header(m) \in Seq(Int) /\ Len(Header(m)) = 8 /\ Header(m)[1] = m.flag
      /\ \A k \in 1 .. 7 : Header(m)[k + 1] = t[k]
  <2>1. /\ m.flag \in Int /\ m.stack \in Int /\ m.dsize \in Int /\ m.pc \in Int /\ m.etype \in Int
        /\ Len(m.code) \in Int /\ Len(m.types) \in Int /\ Len(m.links) \in Int
    BY <1>1, NumberInt, FlagFits
  <2> QED BY <2>1 DEF Header
<1>3a. Tail(Header(m)) = t
  <2>1. Header(m) # <<>>
    <3>1. Len(Header(m)) = 8
      BY <1>3
    <3>2. ASSUME Header(m) = <<>> PROVE Len(Header(m)) = 0
      BY <3>2
    <3> QED BY <3>1, <3>2
  <2>2. /\ Tail(Header(m)) \in Seq(Int) /\ Len(Tail(Header(m))) = 7
        /\ \A k \in 1 .. 7 : Tail(Header(m))[k] = Header(m)[k + 1]
    <3> DEFINE h == Header(m)
    <3>1. h \in Seq(Int) /\ h # <<>> /\ Len(h) = 8
      BY <1>3, <2>1
    <3> HIDE DEF h
    <3>2. Len(Tail(h)) = 7
      BY <3>1, HeadTailProperties
    <3>3. Tail(h) \in Seq(Int) /\ \A k \in 1 .. 7 : Tail(h)[k] = h[k + 1]
      BY <3>1, <3>2, HeadTailProperties
    <3> QED BY <3>2, <3>3 DEF h
  <2>3. t \in Seq(Int)
    BY <1>2, NumberInt, SeqMonotonic
  <2>4. \A k \in 1 .. 7 : Tail(Header(m))[k] = t[k]
    BY <1>3, <2>2
  <2>5. Len(t) = 7
    BY <1>2
  <2> DEFINE tail == Tail(Header(m))
  <2>6. tail \in Seq(Int) /\ t \in Seq(Int) /\ Len(tail) = Len(t) /\ \A k \in 1 .. Len(tail) : tail[k] = t[k]
    BY <2>2, <2>3, <2>4, <2>5
  <2> HIDE DEF t, tail
  <2>7. tail = t
    BY <2>6, SeqEqual
  <2> QED BY <2>7 DEF tail
<1>4. Ops(t, m.wide) = Written(t, x) /\ Fits(t, x)
  BY <1>1, <1>2, OpsWritten
<1>5. m.flag \in Nat /\ FlagWidth(m) \in {1, 2} /\ Encodable(m.flag, FlagWidth(m))
  BY <1>1, FlagFits
<1> DEFINE vs == Header(m)
           ws == HeaderWidths(m)
<1>7. t \in Seq(Int) /\ x \in Seq({1, 2, 4}) /\ Len(x) = 7 /\ \A k \in 1 .. 7 : Encodable(t[k], x[k])
  BY <1>2, <1>4 DEF Fits
<1>7a. \A k \in 1 .. 7 : x[k] = Width(t[k], m.wide)
  BY <1>2 DEF Widths
<1> HIDE DEF t, x
<1>8. /\ vs \in Seq(Int) /\ ws \in Seq({1, 2, 4}) /\ Len(vs) = 8 /\ Len(ws) = 8
      /\ vs[1] = m.flag /\ ws[1] = FlagWidth(m)
      /\ \A k \in 1 .. 7 : vs[k + 1] = t[k] /\ ws[k + 1] = x[k]
  <2>1. \A k \in 1 .. 7 : k + 1 \in 1 .. 8 /\ k + 1 # 1
    OBVIOUS
  <2>2. ws[1] = FlagWidth(m) /\ \A k \in 1 .. 7 : ws[k + 1] = Width(vs[k + 1], m.wide)
    BY <2>1 DEF HeaderWidths
  <2>2a. \A k \in 1 .. 7 : x[k] \in {1, 2, 4}
    BY <1>7, ElementOfSeq
  <2>2b. \A k \in 1 .. 7 : vs[k + 1] = t[k]
    BY <1>3
  <2>3. \A k \in 1 .. 7 : vs[k + 1] = t[k] /\ ws[k + 1] = x[k] /\ x[k] \in {1, 2, 4}
    BY <1>7a, <2>2, <2>2a, <2>2b
  <2>4. \A k \in 1 .. 8 : ws[k] \in {1, 2, 4}
    <3> TAKE k \in 1 .. 8
    <3>1. CASE k = 1
      BY <1>5, <2>2, <3>1
    <3>2. CASE k # 1
      <4>1. k - 1 \in 1 .. 7 /\ (k - 1) + 1 = k
        BY <3>2
      <4> QED BY <2>3, <4>1
    <3> QED BY <3>1, <3>2
  <2>5. ws \in Seq({1, 2, 4}) /\ Len(ws) = 8
    BY <2>4 DEF HeaderWidths
  <2> QED BY <1>3, <2>2, <2>3, <2>5
<1> HIDE DEF vs, ws
<1>9. Fits(vs, ws)
  <2>1. ASSUME NEW k \in 1 .. 8 PROVE Encodable(vs[k], ws[k])
    <3>1. CASE k = 1
      BY <1>5, <1>8, <3>1
    <3>2. CASE k # 1
      <4>1. k - 1 \in 1 .. 7 /\ (k - 1) + 1 = k
        BY <3>2
      <4> QED BY <1>7, <1>8, <4>1
    <3> QED BY <3>1, <3>2
  <2> QED BY <1>8, <2>1 DEF Fits
<1>10. Written(vs, ws) = EncodeOperand(vs[1], ws[1]) \o Written(t, x)
  <2>1. Behind(t, x, vs, ws)
    BY <1>2, <1>8 DEF Behind
  <2> QED BY <1>4, <1>9, <2>1, WrittenFirst
<1>11. EncodeHeader(m) = EncodeOperand(m.flag, FlagWidth(m)) \o Ops(t, m.wide)
  BY <1>3a DEF EncodeHeader, FlagWidth
<1>12. EncodeHeader(m) = Written(vs, ws)
  BY <1>4, <1>8, <1>10, <1>11
<1> QED BY <1>3, <1>9, <1>12, WrittenType DEF vs, ws

(* The two magic numbers differ, and take four bytes.                       *)
LEMMA MagicFits ==
  /\ XMAGIC \in Int /\ SMAGIC \in Int /\ XMAGIC # SMAGIC /\ XMAGIC >= 0 /\ SMAGIC >= 0
  /\ Encodable(XMAGIC, 4) /\ Encodable(SMAGIC, 4)
  /\ Op(XMAGIC, TRUE) = EncodeOperand(XMAGIC, 4) /\ Op(SMAGIC, TRUE) = EncodeOperand(SMAGIC, 4)
<1>1. /\ XMAGIC \in Int /\ SMAGIC \in Int /\ XMAGIC # SMAGIC /\ XMAGIC >= 0 /\ SMAGIC >= 0
      /\ Encodable(XMAGIC, 4) /\ Encodable(SMAGIC, 4)
  BY SMT DEF XMAGIC, SMAGIC, Encodable, Bits
<1>2. Op(XMAGIC, TRUE) = EncodeOperand(XMAGIC, 4) /\ Op(SMAGIC, TRUE) = EncodeOperand(SMAGIC, 4)
  BY DEF Op, Width
<1> QED BY <1>1, <1>2

(* The bytes before the header.                                             *)
LEMMA MagicPiece ==
  ASSUME NEW m, IsModule(m)
  PROVE  /\ EncodeMagic(m) \in Octets
         /\ Fits(<<XMAGIC>>, <<4>>)
         /\ m.signature = <<>> => EncodeMagic(m) = Written(<<XMAGIC>>, <<4>>)
         /\ Fits(<<SMAGIC, Len(m.signature)>>, <<4, Width(Len(m.signature), m.wide)>>)
         /\ m.signature # <<>> =>
              EncodeMagic(m) = Written(<<SMAGIC, Len(m.signature)>>, <<4, Width(Len(m.signature), m.wide)>>)
                               \o m.signature
<1> DEFINE n == Len(m.signature)
           w == Width(n, m.wide)
<1>1. m.wide \in BOOLEAN /\ m.signature \in Octets /\ n \in Number
  BY ModuleTypes, ModuleCounts, NumberInt
<1>2. n \in Int /\ w \in {1, 2, 4} /\ Encodable(n, w) /\ Op(n, m.wide) = EncodeOperand(n, w)
  BY <1>1, WidthFits, NumberInt DEF Op
<1> HIDE DEF n, w
<1>3. Fits(<<XMAGIC>>, <<4>>) /\ Written(<<XMAGIC>>, <<4>>) = EncodeOperand(XMAGIC, 4)
  BY MagicFits, WrittenOne
<1>4. /\ Fits(<<SMAGIC, n>>, <<4, w>>)
      /\ Written(<<SMAGIC, n>>, <<4, w>>) = EncodeOperand(SMAGIC, 4) \o EncodeOperand(n, w)
  BY <1>2, MagicFits, WrittenTwo
<1>5. m.signature = <<>> => EncodeMagic(m) = Written(<<XMAGIC>>, <<4>>)
  BY <1>3, MagicFits DEF EncodeMagic
<1>6. m.signature # <<>> => EncodeMagic(m) = Written(<<SMAGIC, n>>, <<4, w>>) \o m.signature
  BY <1>2, <1>4, MagicFits DEF EncodeMagic, n
<1>7. EncodeMagic(m) \in Octets
  <2>1. Written(<<XMAGIC>>, <<4>>) \in Octets
    BY <1>3, WrittenType
  <2>2. Written(<<SMAGIC, n>>, <<4, w>>) \in Octets
    BY <1>4, WrittenType
  <2>3. Written(<<SMAGIC, n>>, <<4, w>>) \o m.signature \in Octets
    BY <1>1, <2>2, OctetsConcat
  <2> QED BY <1>5, <1>6, <2>1, <2>3
<1> QED BY <1>3, <1>4, <1>5, <1>6, <1>7 DEF n, w

(* The pieces of the sections.                                              *)
LEMMA SectionBytes ==
  ASSUME NEW m, IsModule(m)
  PROVE  /\ CodeBytes(m) \in Seq(Octets) /\ Len(CodeBytes(m)) = Len(m.code)
         /\ TypeBytes(m) \in Seq(Octets) /\ Len(TypeBytes(m)) = Len(m.types)
         /\ DataBytes(m) \in Seq(Octets) /\ Len(DataBytes(m)) = Len(m.items)
         /\ LinkBytes(m) \in Seq(Octets) /\ Len(LinkBytes(m)) = Len(m.links)
         /\ ImportBytes(m) \in Seq(Octets) /\ Len(ImportBytes(m)) = Len(m.imports)
         /\ HandlerBytes(m) \in Seq(Octets)
<1>1. /\ m.wide \in BOOLEAN /\ m.code \in Seq(Codes) /\ m.types \in Seq(Types)
      /\ m.items \in Seq(Items) /\ m.links \in Seq(Links) /\ m.imports \in Seq(Seq(Imports))
      /\ m.exceptions \in Seq(Handles)
  BY ModuleTypes
<1>2. CodeBytes(m) \in Seq(Octets) /\ Len(CodeBytes(m)) = Len(m.code)
  <2>1. Len(m.code) \in Nat /\ \A k \in 1 .. Len(m.code) : EncodeCode(m.code[k], m.wide) \in Octets
    BY <1>1, LenProperties, ElementOfSeq, CodePiece
  <2> QED BY <2>1 DEF CodeBytes
<1>3. TypeBytes(m) \in Seq(Octets) /\ Len(TypeBytes(m)) = Len(m.types)
  <2>1. Len(m.types) \in Nat /\ \A k \in 1 .. Len(m.types) : m.types[k] \in Types
    BY <1>1, LenProperties, ElementOfSeq
  <2>2. \A k \in 1 .. Len(m.types) : Len(m.types[k].map) \in Count
    BY <1>1, LenProperties DEF IsModule
  <2>3. \A k \in 1 .. Len(m.types) : EncodeType(m.types[k], m.wide) \in Octets
    BY <1>1, <2>1, <2>2, TypePiece
  <2> QED BY <2>1, <2>3 DEF TypeBytes
<1>4. DataBytes(m) \in Seq(Octets) /\ Len(DataBytes(m)) = Len(m.items)
  <2>1. Len(m.items) \in Nat /\ \A k \in 1 .. Len(m.items) : EncodeItem(m.items[k], m.wide) \in Octets
    BY <1>1, LenProperties, ElementOfSeq, ItemPiece
  <2> QED BY <2>1 DEF DataBytes
<1>5. LinkBytes(m) \in Seq(Octets) /\ Len(LinkBytes(m)) = Len(m.links)
  <2>1. Len(m.links) \in Nat /\ \A k \in 1 .. Len(m.links) : EncodeLink(m.links[k], m.wide) \in Octets
    BY <1>1, LenProperties, ElementOfSeq, LinkPiece
  <2> QED BY <2>1 DEF LinkBytes
<1>6. ImportBytes(m) \in Seq(Octets) /\ Len(ImportBytes(m)) = Len(m.imports)
  <2> DEFINE SI == Seq(Imports)
  <2>1. Len(m.imports) \in Nat /\ \A k \in 1 .. Len(m.imports) : m.imports[k] \in SI
    BY <1>1, LenProperties, ElementOfSeq
  <2>2. \A k \in 1 .. Len(m.imports) : Len(m.imports[k]) \in Count
    BY <1>1, LenProperties DEF IsModule
  <2>3. \A k \in 1 .. Len(m.imports) : EncodeImportModule(m.imports[k], m.wide) \in Octets
    BY <1>1, <2>1, <2>2, ImportModulePiece
  <2> QED BY <2>1, <2>3 DEF ImportBytes
<1>7. HandlerBytes(m) \in Seq(Octets)
  <2>1. Len(m.exceptions) \in Nat
        /\ \A k \in 1 .. Len(m.exceptions) : EncodeHandler(m.exceptions[k], m.wide) \in Octets
    BY <1>1, LenProperties, ElementOfSeq, HandlerPiece
  <2> QED BY <2>1 DEF HandlerBytes
<1> QED BY <1>2, <1>3, <1>4, <1>5, <1>6, <1>7

(* The handler section is bytes.                                            *)
LEMMA HandlersPiece ==
  ASSUME NEW m, IsModule(m)
  PROVE  EncodeHandlers(m) \in Octets
<1>1. CASE m.flag # HASEXCEPT
  BY <1>1, EncodeParts, NoOctets
<1>2. CASE m.flag = HASEXCEPT
  <2> DEFINE vs == SubSeq(m.handler, 1, 4) \o <<Len(m.exceptions)>>
  <2>1. /\ m.wide \in BOOLEAN /\ m.handler \in Seq(Number) /\ Len(m.handler) = 5
        /\ Len(m.exceptions) \in Number
    BY <1>2, ModuleTypes, ModuleCounts, NumberInt DEF IsModule
  <2>2. \A k \in 1 .. 5 : m.handler[k] \in Number
    BY <2>1, ElementOfSeq
  <2>3. SubSeq(m.handler, 1, 4) \in Seq(Number)
    BY <2>2, SubSeqProperties
  <2>4. <<Len(m.exceptions)>> \in Seq(Number)
    BY <2>1
  <2>5. vs \in Seq(Number)
    BY <2>3, <2>4, NumbersConcat
  <2> HIDE DEF vs
  <2>6. Ops(vs, m.wide) \in Octets /\ Op(m.handler[5], m.wide) \in Octets
    BY <2>1, <2>2, <2>5, OpsType, WidthFits
  <2>7. FlattenSeq(HandlerBytes(m)) \in Octets
    BY SectionBytes, FlattenOctets
  <2>8. EncodeHandlers(m) = Ops(vs, m.wide) \o FlattenSeq(HandlerBytes(m)) \o Op(m.handler[5], m.wide)
    BY <1>2, EncodeParts DEF vs
  <2>9. Ops(vs, m.wide) \o FlattenSeq(HandlerBytes(m)) \in Octets
    BY <2>6, <2>7, OctetsConcat
  <2> QED BY <2>6, <2>8, <2>9, OctetsConcat
<1> QED BY <1>1, <1>2

-----------------------------------------------------------------------------
(* The file from each of its parts to its end.                              *)

FromPath(m) == Name(m.path)
FromHandlers(m) == EncodeHandlers(m) \o FromPath(m)
FromImports(m) == EncodeImports(m) \o FromHandlers(m)
FromImport(m, k) == FlatFrom(ImportBytes(m), k) \o (<<0>> \o FromHandlers(m))
FromLink(m, k) == FlatFrom(LinkBytes(m), k) \o FromImports(m)
FromName(m) == Name(m.name) \o FromLink(m, 0)
FromItem(m, k) == FlatFrom(DataBytes(m), k) \o (<<0>> \o FromName(m))
FromType(m, k) == FlatFrom(TypeBytes(m), k) \o FromItem(m, 0)
FromCode(m, k) == FlatFrom(CodeBytes(m), k) \o FromType(m, 0)
FromHeader(m) == EncodeHeader(m) \o FromCode(m, 0)

(* A section's pieces before what follows them: bytes; the next piece       *)
(* first; after the last, what follows.                                     *)
LEMMA PiecesBefore ==
  ASSUME NEW seqs \in Seq(Octets), NEW r \in Octets
  PROVE  /\ \A k \in 0 .. Len(seqs) : FlatFrom(seqs, k) \o r \in Octets
         /\ \A k \in 0 .. Len(seqs) - 1 :
              FlatFrom(seqs, k) \o r = seqs[k + 1] \o (FlatFrom(seqs, k + 1) \o r)
         /\ FlatFrom(seqs, Len(seqs)) \o r = r
         /\ FlatFrom(seqs, 0) \o r = FlattenSeq(seqs) \o r
<1>1. /\ \A k \in 0 .. Len(seqs) : FlatFrom(seqs, k) \in Octets
      /\ \A k \in 0 .. Len(seqs) - 1 : /\ seqs[k + 1] \in Octets
                                      /\ FlatFrom(seqs, k) = seqs[k + 1] \o FlatFrom(seqs, k + 1)
      /\ FlatFrom(seqs, Len(seqs)) = <<>> /\ FlatFrom(seqs, 0) = FlattenSeq(seqs)
  BY FlatFromFacts
<1>2. ASSUME NEW k \in 0 .. Len(seqs) PROVE FlatFrom(seqs, k) \o r \in Octets
  BY <1>1, OctetsConcat
<1>3. ASSUME NEW k \in 0 .. Len(seqs) - 1
      PROVE  FlatFrom(seqs, k) \o r = seqs[k + 1] \o (FlatFrom(seqs, k + 1) \o r)
  <2>1. Len(seqs) \in Nat
    BY LenProperties
  <2>2. FlatFrom(seqs, k + 1) \in Octets
    BY <1>1, <2>1
  <2>3. FlatFrom(seqs, k) = seqs[k + 1] \o FlatFrom(seqs, k + 1) /\ seqs[k + 1] \in Octets
    BY <1>1
  <2> DEFINE x == seqs[k + 1]
             y == FlatFrom(seqs, k + 1)
  <2>4. FlatFrom(seqs, k) = Join(x, y) /\ x \in Octets /\ y \in Octets
    BY <2>2, <2>3 DEF Join
  <2> HIDE DEF x, y
  <2>5. Join(FlatFrom(seqs, k), r) = Join(x, Join(y, r))
    BY <2>4, JoinLaws
  <2> QED BY <2>5 DEF Join, x, y
<1>4. <<>> \o r = r
  BY ConcatEmptySeq DEF Octets
<1> QED BY <1>1, <1>2, <1>3, <1>4

(* Four parts and what follows them, joined from either side.               *)
LEMMA JoinFour ==
  ASSUME NEW a \in Octets, NEW b \in Octets, NEW c \in Octets, NEW d \in Octets, NEW r \in Octets
  PROVE  /\ Join(Join(Join(a, b), c), d) \in Octets
         /\ Join(Join(Join(Join(a, b), c), d), r) = Join(a, Join(b, Join(c, Join(d, r))))
<1>1. Join(a, b) \in Octets /\ Join(d, r) \in Octets
  BY JoinLaws
<1>2. Join(Join(a, b), c) \in Octets /\ Join(c, Join(d, r)) \in Octets
  BY <1>1, JoinLaws
<1>3. Join(Join(Join(a, b), c), d) \in Octets
  BY <1>2, JoinLaws
<1>4. Join(Join(Join(Join(a, b), c), d), r) = Join(Join(Join(a, b), c), Join(d, r))
  BY <1>2, JoinLaws
<1>5. Join(Join(Join(a, b), c), Join(d, r)) = Join(Join(a, b), Join(c, Join(d, r)))
  BY <1>1, JoinLaws
<1>6. Join(Join(a, b), Join(c, Join(d, r))) = Join(a, Join(b, Join(c, Join(d, r))))
  BY <1>2, JoinLaws
<1>7. Join(Join(Join(Join(a, b), c), d), r) = Join(a, Join(b, Join(c, Join(d, r))))
  BY <1>4, <1>5, <1>6
<1> QED BY <1>3, <1>7

(* What is left of a file from each of its last sections on.                *)
LEMMA ImportsPiece ==
  ASSUME NEW m, IsModule(m)
  PROVE  /\ EncodeImports(m) \in Octets /\ FromPath(m) \in Octets
         /\ FromHandlers(m) \in Octets /\ FromImports(m) \in Octets
         /\ <<0>> \o FromHandlers(m) \in Octets
         /\ m.flag # HASEXCEPT => FromHandlers(m) = FromPath(m)
         /\ m.flag # HASLDT2 => FromImports(m) = FromHandlers(m)
         /\ m.flag = HASLDT2 => FromImports(m) = Op(Len(m.imports), m.wide) \o FromImport(m, 0)
<1> DEFINE n == Op(Len(m.imports), m.wide)
           f == FlattenSeq(ImportBytes(m))
<1>1. n \in Octets
  BY ModuleTypes, ModuleCounts, NumberInt, WidthFits
<1>2. f \in Octets /\ ImportBytes(m) \in Seq(Octets)
  BY SectionBytes, FlattenOctets
<1>3. <<0>> \in Octets
  BY OneOctet DEF Octet
<1>4. FromPath(m) \in Octets
  BY ModuleTypes, NameType DEF FromPath
<1>5. EncodeHandlers(m) \in Octets /\ FromHandlers(m) \in Octets
  BY <1>4, HandlersPiece, OctetsConcat DEF FromHandlers
<1>6. m.flag # HASEXCEPT => FromHandlers(m) = FromPath(m)
  <2>1. <<>> \o FromPath(m) = FromPath(m)
    BY <1>4, ConcatEmptySeq DEF Octets
  <2> QED BY <2>1, EncodeParts DEF FromHandlers
<1> DEFINE r == FromHandlers(m)
<1>7. EncodeImports(m) = IF m.flag = HASLDT2 THEN (n \o f) \o <<0>> ELSE <<>>
  BY EncodeParts
<1>8. n \o f \in Octets
  BY <1>1, <1>2, OctetsConcat
<1>9. (n \o f) \o <<0>> \in Octets
  BY <1>3, <1>8, OctetsConcat
<1>10. EncodeImports(m) \in Octets
  BY <1>7, <1>9, NoOctets
<1>11. FromImports(m) \in Octets /\ <<0>> \o r \in Octets
  BY <1>3, <1>5, <1>10, OctetsConcat DEF FromImports
<1>12. m.flag # HASLDT2 => FromImports(m) = FromHandlers(m)
  <2>1. <<>> \o r = r
    BY <1>5, ConcatEmptySeq DEF Octets
  <2> QED BY <1>7, <2>1 DEF FromImports
<1>13. ((n \o f) \o <<0>>) \o r = n \o (f \o (<<0>> \o r))
  <2>1. ((n \o f) \o <<0>>) \o r = (n \o f) \o (<<0>> \o r)
    BY <1>3, <1>5, <1>8, OctetsAssociate
  <2>2. (n \o f) \o (<<0>> \o r) = n \o (f \o (<<0>> \o r))
    BY <1>1, <1>2, <1>11, OctetsAssociate
  <2> QED BY <2>1, <2>2
<1>14. FromImport(m, 0) = f \o (<<0>> \o r)
  BY <1>2, <1>11, PiecesBefore DEF FromImport
<1> HIDE DEF n, f
<1>15. m.flag = HASLDT2 => FromImports(m) = n \o FromImport(m, 0)
  BY <1>7, <1>13, <1>14 DEF FromImports
<1> QED BY <1>4, <1>5, <1>6, <1>10, <1>11, <1>12, <1>15 DEF n

(* Whatever is left of a file, it is bytes.                                 *)
LEMMA RestsType ==
  ASSUME NEW m, IsModule(m)
  PROVE  /\ FromName(m) \in Octets /\ FromHeader(m) \in Octets /\ Name(m.name) \in Octets
         /\ <<0>> \o FromName(m) \in Octets
         /\ \A k \in 0 .. Len(m.code) : FromCode(m, k) \in Octets
         /\ \A k \in 0 .. Len(m.types) : FromType(m, k) \in Octets
         /\ \A k \in 0 .. Len(m.items) : FromItem(m, k) \in Octets
         /\ \A k \in 0 .. Len(m.links) : FromLink(m, k) \in Octets
         /\ \A k \in 0 .. Len(m.imports) : FromImport(m, k) \in Octets
<1>1. \A k \in 0 .. Len(m.links) : FromLink(m, k) \in Octets
  BY SectionBytes, ImportsPiece, PiecesBefore DEF FromLink
<1>2. \A k \in 0 .. Len(m.imports) : FromImport(m, k) \in Octets
  BY SectionBytes, ImportsPiece, PiecesBefore DEF FromImport
<1>3. /\ 0 \in 0 .. Len(m.links) /\ 0 \in 0 .. Len(m.code) /\ 0 \in 0 .. Len(m.types)
      /\ 0 \in 0 .. Len(m.items)
  BY ModuleTypes, LenProperties
<1>4. FromName(m) \in Octets /\ Name(m.name) \in Octets
  BY <1>1, <1>3, ModuleTypes, NameType, OctetsConcat DEF FromName
<1>5. <<0>> \o FromName(m) \in Octets
  <2>1. <<0>> \in Octets
    BY OneOctet DEF Octet
  <2> QED BY <1>4, <2>1, OctetsConcat
<1>6. \A k \in 0 .. Len(m.items) : FromItem(m, k) \in Octets
  BY <1>5, SectionBytes, PiecesBefore DEF FromItem
<1>7. \A k \in 0 .. Len(m.types) : FromType(m, k) \in Octets
  BY <1>3, <1>6, SectionBytes, PiecesBefore DEF FromType
<1>8. \A k \in 0 .. Len(m.code) : FromCode(m, k) \in Octets
  BY <1>3, <1>7, SectionBytes, PiecesBefore DEF FromCode
<1>9. FromHeader(m) \in Octets
  BY <1>3, <1>8, HeaderPiece, OctetsConcat DEF FromHeader
<1> QED BY <1>1, <1>2, <1>4, <1>5, <1>6, <1>7, <1>8, <1>9

(* A file is bytes: its magic number, and the rest part by part; or what    *)
(* stands before the data section, and what begins with it.                 *)
THEOREM EncodeOctets ==
  ASSUME NEW m, IsModule(m)
  PROVE  /\ Encode(m) \in Octets /\ Encode(m) = EncodeMagic(m) \o FromHeader(m)
         /\ EncodeFront(m) \in Octets /\ Encode(m) = EncodeFront(m) \o FromItem(m, 0)
         /\ EncodeData(m) \in Octets /\ FromItem(m, 0) = EncodeData(m) \o FromName(m)
<1> DEFINE c == FlattenSeq(CodeBytes(m))
           t == FlattenSeq(TypeBytes(m))
           d == FlattenSeq(DataBytes(m))
           l == FlattenSeq(LinkBytes(m))
           g == EncodeMagic(m)
           h == EncodeHeader(m)
           z == <<0>>
           na == Name(m.name)
           im == EncodeImports(m)
           ha == EncodeHandlers(m)
           pa == FromPath(m)
<1>1. /\ c \in Octets /\ t \in Octets /\ d \in Octets /\ l \in Octets
      /\ CodeBytes(m) \in Seq(Octets) /\ TypeBytes(m) \in Seq(Octets)
      /\ DataBytes(m) \in Seq(Octets) /\ LinkBytes(m) \in Seq(Octets)
  BY SectionBytes, FlattenOctets
<1>2. /\ g \in Octets /\ h \in Octets /\ z \in Octets /\ na \in Octets /\ im \in Octets
      /\ ha \in Octets /\ pa \in Octets
  <2>1. z \in Octets
    BY OneOctet DEF Octet
  <2>2. g \in Octets /\ h \in Octets
    BY MagicPiece, HeaderPiece
  <2>3. na \in Octets /\ im \in Octets /\ ha \in Octets /\ pa \in Octets
    BY RestsType, ImportsPiece, HandlersPiece
  <2> QED BY <2>1, <2>2, <2>3
<1>3. /\ 0 \in 0 .. Len(m.links) /\ 0 \in 0 .. Len(m.code) /\ 0 \in 0 .. Len(m.types)
      /\ 0 \in 0 .. Len(m.items)
  BY ModuleTypes, LenProperties
<1>4. /\ FromCode(m, 0) = c \o FromType(m, 0) /\ FromType(m, 0) = t \o FromItem(m, 0)
      /\ FromItem(m, 0) = d \o (z \o FromName(m)) /\ FromLink(m, 0) = l \o FromImports(m)
  <2>1. /\ FromType(m, 0) \in Octets /\ FromItem(m, 0) \in Octets
        /\ z \o FromName(m) \in Octets /\ FromImports(m) \in Octets
    BY <1>3, RestsType, ImportsPiece
  <2> QED BY <1>1, <2>1, PiecesBefore DEF FromCode, FromType, FromItem, FromLink
<1>5. /\ FromItem(m, 0) \in Octets /\ FromName(m) \in Octets /\ FromHeader(m) \in Octets
  BY <1>3, RestsType
<1>6. /\ EncodeFront(m) = ((g \o h) \o c) \o t /\ EncodeData(m) = d \o z
      /\ EncodeRest(m) = (((na \o l) \o im) \o ha) \o pa
  BY EncodeParts DEF FromPath
<1>7. Encode(m) = (EncodeFront(m) \o EncodeData(m)) \o EncodeRest(m)
  BY DEF Encode
<1>8. FromName(m) = na \o (l \o (im \o (ha \o pa)))
  BY <1>4 DEF FromName, FromImports, FromHandlers
<1>9. FromHeader(m) = h \o (c \o (t \o FromItem(m, 0)))
  BY <1>4 DEF FromHeader
<1> HIDE DEF c, t, d, l, g, h, z, na, im, ha, pa
<1>10. EncodeRest(m) = FromName(m)
  <2>1. Join(Join(Join(Join(na, l), im), ha), pa) = Join(na, Join(l, Join(im, Join(ha, pa))))
    BY <1>1, <1>2, JoinFour
  <2> QED BY <1>6, <1>8, <2>1 DEF Join
<1>11. EncodeFront(m) \in Octets /\ EncodeFront(m) \o FromItem(m, 0) = g \o FromHeader(m)
  <2> DEFINE r == FromItem(m, 0)
  <2> HIDE DEF r
  <2>1. r \in Octets
    BY <1>5 DEF r
  <2>2. /\ Join(Join(Join(g, h), c), t) \in Octets
        /\ Join(Join(Join(Join(g, h), c), t), r) = Join(g, Join(h, Join(c, Join(t, r))))
    BY <1>1, <1>2, <2>1, JoinFour
  <2> QED BY <1>6, <1>9, <2>2 DEF Join, r
<1>12. EncodeData(m) \in Octets /\ EncodeData(m) \o FromName(m) = FromItem(m, 0)
  <2>1. Join(d, z) \in Octets /\ Join(Join(d, z), FromName(m)) = Join(d, Join(z, FromName(m)))
    BY <1>1, <1>2, <1>5, JoinLaws
  <2>2. EncodeData(m) = Join(d, z) /\ FromItem(m, 0) = Join(d, Join(z, FromName(m)))
    BY <1>4, <1>6 DEF Join
  <2>3. EncodeData(m) \in Octets /\ Join(EncodeData(m), FromName(m)) = FromItem(m, 0)
    BY <2>1, <2>2
  <2> QED BY <2>3 DEF Join
<1>13. Encode(m) = g \o FromHeader(m)
  <2>1. Encode(m) = Join(Join(EncodeFront(m), EncodeData(m)), FromName(m))
    BY <1>7, <1>10 DEF Join
  <2>2. Join(EncodeFront(m), FromItem(m, 0)) = Join(g, FromHeader(m))
    BY <1>11 DEF Join
  <2>3. Join(EncodeData(m), FromName(m)) = FromItem(m, 0)
    BY <1>12 DEF Join
  <2>4. Encode(m) = Join(g, FromHeader(m))
    BY <1>5, <1>11, <1>12, <2>1, <2>2, <2>3, JoinLaws
  <2> QED BY <2>4 DEF Join
<1>14. Encode(m) \in Octets
  BY <1>2, <1>5, <1>13, OctetsConcat
<1> QED BY <1>11, <1>12, <1>13, <1>14 DEF g
=============================================================================
