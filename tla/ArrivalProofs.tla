---------------------------- MODULE ArrivalProofs ---------------------------
(***************************************************************************)
(* What the files of InitialiserProofs hold is what a program finds: where *)
(* each item is stored follows from the module alone, no later item stores *)
(* there, and following the offsets and indexes of the file leads there.   *)
(***************************************************************************)
EXTENDS InitialiserProofs

(* The object of item k is where the heap was filled to by those before it; *)
(* behind its two headers are the characters or elements.                   *)
Place(its, k) == HeapBase + Used(its)[k - 1]
Headers == H!ObjectHeader + H!ArrayHeader

(* Array item j and the index item after it open the path p.                *)
Opens(its, j, p) ==
  /\ j \in 1 .. Len(its) /\ j + 1 \in 1 .. Len(its)
  /\ its[j].typ = 5 /\ its[j + 1].typ = 6 /\ Opened(its)[j + 2] = p
Opener(its, p) == CHOOSE j \in 1 .. Len(its) : Opens(its, j, p)

(* So a path of the file leads to this address, and item k there.           *)
Where(its, p) ==
  IF p = <<>> THEN HeapBase ELSE Place(its, Opener(its, p)) + Headers + Last(p).at
Spot(its, k) == Where(its, Opened(its)[k]) + its[k].off

(* The addresses of what item k stores: its own, and those of its text.     *)
Keeps(its, k) ==
  (Spot(its, k) .. Spot(its, k) + Extent(its[k]) - 1)
    \cup IF its[k].typ = 3 THEN Place(its, k) .. Place(its, k + 1) - 1 ELSE {}

(* The one pointer at a is x.                                               *)
Points(ss, a, x) == [at |-> a, ptr |-> x] \in ss /\ \A s \in ss : s.at = a => s.ptr = x

(* What item k stored is there.                                             *)
There(its, k, mem, ss, objs) ==
  LET i == its[k]
      a == Spot(its, k)
      o == Place(its, k)
  IN
  /\ i.typ \in DOMAIN ScalarWidth =>
       \A b \in 1 .. Len(i.payload) :
         ByteOf(mem, a + b - 1) = Native(ScalarWidth[i.typ], i.payload)[b]
  /\ i.typ = 3 =>
       /\ H!StringObject(o, Len(Lossy(i.payload))) \in objs
       /\ Points(ss, a, o + H!ObjectHeader)
       /\ \A b \in 1 .. Len(Lossy(i.payload)) :
            ByteOf(mem, o + Headers + b - 1) = Lossy(i.payload)[b]
  /\ i.typ = 5 =>
       /\ H!ArrayObject(o, ParseWord(i.payload, 0), ParseWord(i.payload, 4)) \in objs
       /\ Points(ss, a, o + H!ObjectHeader)

(* The heap is entered along p through the arrays that opened it.           *)
Enters(p) ==
  \A k \in 1 .. Len(p) :
    path[k] = Place(mod.items, Opener(mod.items, SubSeq(p, 1, k))) + H!ObjectHeader

Arrived(n) == \A k \in 1 .. n : There(mod.items, k, memory, slots, objects)

(* What the first n items of the file leave.                                *)
Stays(n) == Enters(Opened(mod.items)[n + 1]) /\ Arrived(n)

(* What is so at every step of a file of initialisers.                      *)
DataStays ==
  /\ stage = "items" /\ heapStatus = "ok" => Stays(items)
  /\ stage # "items" => path = <<>> /\ Arrived(Len(mod.items))

(* What every item of such a file is.                                       *)
LEMMA ItemFacts ==
  ASSUME Initialisers, TripInv, NEW k \in 1 .. Len(mod.items),
         NEW i, i = mod.items[k], NEW p, p = Opened(mod.items)[k],
         NEW q, q = Opened(mod.items)[k + 1]
  PROVE  /\ Asked(k - 1, i, p, q) /\ i \in Items /\ i.payload \in Octets /\ i.off \in Nat
         /\ Extent(i) \in Nat /\ Space(i) \in Nat
         /\ Used(mod.items)[k] = Used(mod.items)[k - 1] + Space(i)
         /\ i.typ = 5 => /\ ParseWord(i.payload, 0) \in DOMAIN TypeSize
                         /\ ParseWord(i.payload, 4) \in Nat
<1>1. Len(mod.items) \in Nat /\ mod \in Modules /\ DepthFirst(mod.items)
      /\ DOMAIN mod.items = 1 .. Len(mod.items)
  BY InitialisersFollowed DEF Initialisers
<1>2. Asked(k - 1, i, p, q)
  <2>1. PICK n \in Nat : n = k - 1 /\ n + 1 = k /\ n + 2 = k + 1 /\ n + 1 \in 1 .. Len(mod.items)
    BY <1>1
  <2>2. i = mod.items[n + 1] /\ p = Opened(mod.items)[n + 1] /\ q = Opened(mod.items)[n + 2]
    BY <2>1
  <2>3. Asked(n, i, p, q)
    BY <2>1, <2>2, NextItem
  <2> QED BY <2>1, <2>3
<1>3. i \in Items /\ ItemFits(i, Layout)
  BY <1>2, Zenon DEF Asked
<1>4. i.payload \in Octets /\ Len(i.payload) \in Nat /\ i.count \in Count /\ i.off \in Number
      /\ i.typ \in DataTypes
  BY <1>3 DEF Items, Octets
<1>5. i.off \in Nat
  <2>1. i.off >= 0
    BY <1>1 DEF DepthFirst
  <2>2. i.off \in Int
    BY <1>4, NumberInt
  <2> QED BY <2>1, <2>2
<1>6. Extent(i) \in Nat
  BY <1>4 DEF Extent, H!PtrSize
<1>7. ASSUME i.typ = 5
      PROVE  ParseWord(i.payload, 0) \in DOMAIN TypeSize /\ ParseWord(i.payload, 4) \in Nat
  <2>1. ParseWord(i.payload, 0) \in 0 .. Len(Layout) - 1 /\ ParseWord(i.payload, 4) >= 0
        /\ Len(i.payload) = 8
    BY <1>3, <1>7 DEF ItemFits, ItemBytes
  <2>2. 4 \in Nat /\ 4 + 4 <= Len(i.payload)
    BY <2>1
  <2>3. ParseWord(i.payload, 4) \in Int
    BY <1>4, <2>2, BytesWord
  <2>4. DOMAIN TypeSize = 0 .. Len(Layout) - 1
    BY <1>1, LayoutNumbers
  <2> QED BY <2>1, <2>3, <2>4
<1>8. \A n \in Nat : H!Align4(n) \in Nat /\ H!Align4(n) >= n
  BY DEF H!Align4
<1>9. Space(i) \in Nat
  <2>1. CASE i.typ = 3
    <3>1. Len(Lossy(i.payload)) \in Nat
      BY <1>4, LossyType
    <3>2. H!ObjectHeader + H!StringHeader + Len(Lossy(i.payload)) \in Nat
      BY <3>1 DEF H!ObjectHeader, H!StringHeader
    <3> QED BY <1>8, <2>1, <3>2 DEF Space
  <2>2. CASE i.typ = 5
    <3> DEFINE t == ParseWord(i.payload, 0)
               len == ParseWord(i.payload, 4)
    <3>1. TypeSize[t] \in Nat /\ len \in Nat
      BY <1>1, <1>7, <2>2, LayoutNumbers
    <3>2. TypeSize[t] * len \in Nat
      BY <3>1
    <3> DEFINE room == TypeSize[t] * len
    <3>3. H!ObjectHeader + H!ArrayHeader + room \in Nat
      BY <3>2 DEF H!ObjectHeader, H!ArrayHeader
    <3>4. Space(i) = H!Align4(H!ObjectHeader + H!ArrayHeader + room)
      BY <2>2 DEF Space
    <3> QED BY <1>8, <3>3, <3>4
  <2>3. CASE i.typ # 3 /\ i.typ # 5
    BY <2>3 DEF Space
  <2> QED BY <2>1, <2>2, <2>3
<1>10. Used(mod.items)[k] = Used(mod.items)[k - 1] + Space(i)
  BY <1>1, UsedUnfold
<1> QED BY <1>2, <1>3, <1>4, <1>5, <1>6, <1>7, <1>9, <1>10

(* The heap only fills.                                                     *)
LEMMA UsedGrows ==
  ASSUME Initialisers, TripInv
  PROVE  \A l \in 0 .. Len(mod.items) : \A k \in 0 .. l :
           /\ Used(mod.items)[k] \in Nat /\ Used(mod.items)[l] \in Nat
           /\ Used(mod.items)[k] <= Used(mod.items)[l]
<1> DEFINE its == mod.items
           u == Used(its)
           T == {l \in Nat : l \in 0 .. Len(its) => \A k \in 0 .. l :
                               u[k] \in Nat /\ u[l] \in Nat /\ u[k] <= u[l]}
<1>1. Len(its) \in Nat /\ mod \in Modules
  BY InitialisersFollowed
<1>2. u[0] \in Nat
  BY <1>1, UsedUnfold, LayoutNumbers
<1>3. \A l \in 1 .. Len(its) : Space(its[l]) \in Nat /\ u[l] = u[l - 1] + Space(its[l])
  BY ItemFacts
<1> HIDE DEF u
<1>4. 0 \in T
  BY <1>2
<1>5. ASSUME NEW l \in Nat, l \in T PROVE l + 1 \in T
  <2> SUFFICES ASSUME l + 1 \in 0 .. Len(its), NEW k \in 0 .. l + 1
               PROVE  u[k] \in Nat /\ u[l + 1] \in Nat /\ u[k] <= u[l + 1]
    OBVIOUS
  <2>1. l \in 0 .. Len(its) /\ l + 1 \in 1 .. Len(its) /\ (l + 1) - 1 = l
    BY <1>1
  <2>2. \A j \in 0 .. l : u[j] \in Nat /\ u[l] \in Nat /\ u[j] <= u[l]
    BY <1>5, <2>1
  <2>3. u[l + 1] = u[l] + Space(its[l + 1]) /\ Space(its[l + 1]) \in Nat
    BY <1>3, <2>1
  <2>4. u[l] \in Nat
    BY <2>2
  <2>5. CASE k = l + 1
    BY <2>3, <2>4, <2>5
  <2>6. CASE k \in 0 .. l
    BY <2>2, <2>3, <2>4, <2>6
  <2> QED BY <2>5, <2>6
<1>6. \A l \in Nat : l \in T
  BY <1>4, <1>5, NatSetInduction
<1> QED BY <1>6 DEF u

(* A sequence with one more element.                                        *)
LEMMA Appended ==
  ASSUME NEW S, NEW s \in Seq(S), NEW e \in S
  PROVE  /\ Append(s, e) \in Seq(S) /\ Append(s, e) # <<>>
         /\ Front(Append(s, e)) = s /\ Last(Append(s, e)) = e
<1> DEFINE q == Append(s, e)
           n == Len(s)
<1>1. /\ q \in Seq(S) /\ q # <<>> /\ Len(q) = n + 1 /\ n \in Nat
      /\ \A k \in 1 .. n : q[k] = s[k] /\ q[n + 1] = e
      /\ q[n + 1] = e
  BY AppendProperties, LenProperties
<1>2. Last(q) = e
  BY <1>1 DEF Last
<1>3. Front(q) \in Seq(S) /\ Len(Front(q)) = n /\ \A k \in 1 .. n : Front(q)[k] = q[k]
  <2> HIDE DEF q, n
  <2> QED BY <1>1 DEF Front
<1>4. Front(q) = s
  <2>1. \A k \in 1 .. n : Front(q)[k] = s[k]
    BY <1>1, <1>3
  <2> DEFINE f == Front(q)
  <2>2. f \in Seq(S) /\ Len(f) = Len(s) /\ \A k \in 1 .. Len(s) : f[k] = s[k]
    BY <1>3, <2>1
  <2> HIDE DEF f
  <2>3. f = s
    BY <2>2, SeqEqual
  <2> QED BY <2>3 DEF f
<1> QED BY <1>1, <1>2, <1>4

(* The item of an index, and the array it follows.                          *)
LEMMA IndexOpens ==
  ASSUME Initialisers, TripInv, NEW k \in 1 .. Len(mod.items), mod.items[k].typ = 6
  PROVE  LET its == mod.items
             x == ParseWord(its[k].payload, 0)
             t == ParseWord(its[k - 1].payload, 0)
             len == ParseWord(its[k - 1].payload, 4)
             r == [off |-> its[k - 1].off, at |-> x, t |-> t, len |-> len]
         IN
         /\ Opens(its, k - 1, Opened(its)[k + 1])
         /\ Opened(its)[k] = Opened(its)[k - 1]
         /\ Opened(its)[k + 1] = Append(Opened(its)[k - 1], r) /\ r \in Openings
         /\ x < len /\ (x = 0 \/ TypeSize[t] = 1)
<1> DEFINE its == mod.items
           x == ParseWord(its[k].payload, 0)
           t == ParseWord(its[k - 1].payload, 0)
           len == ParseWord(its[k - 1].payload, 4)
           r == [off |-> its[k - 1].off, at |-> x, t |-> t, len |-> len]
<1>1. PICK i : i = its[k]
  OBVIOUS
<1>2. PICK p : p = Opened(its)[k]
  OBVIOUS
<1>3. PICK q : q = Opened(its)[k + 1]
  OBVIOUS
<1>4. Len(its) \in Nat
  BY InitialisersFollowed
<1>5. Asked(k - 1, i, p, q) /\ i \in Items /\ i.payload \in Octets /\ i.off \in Nat
  BY <1>1, <1>2, <1>3, ItemFacts
<1>6. /\ k - 1 \in 1 .. Len(its) /\ its[k - 1].typ = 5 /\ its[k - 1].off = i.off
      /\ ItemFits(i, Layout)
      /\ x < len /\ (x = 0 \/ TypeSize[t] = 1)
      /\ q = Append(p, [off |-> i.off, at |-> x, t |-> t, len |-> len])
  BY <1>1, <1>5 DEF Asked
<1>7. PICK a : a = its[k - 1]
  OBVIOUS
<1>8. PICK o : o = Opened(its)[k - 1]
  OBVIOUS
<1>9. /\ Asked((k - 1) - 1, a, o, p) /\ a.typ = 5
      /\ t \in DOMAIN TypeSize /\ len \in Nat
  <2>1. PICK l \in 1 .. Len(its) : l = k - 1 /\ l + 1 = k
    BY <1>4, <1>6
  <2>2. a = its[l] /\ o = Opened(its)[l] /\ p = Opened(its)[l + 1]
    BY <1>2, <1>7, <1>8, <2>1
  <2>3. Asked(l - 1, a, o, p) /\ (a.typ = 5 => /\ ParseWord(a.payload, 0) \in DOMAIN TypeSize
                                              /\ ParseWord(a.payload, 4) \in Nat)
    BY <2>2, ItemFacts
  <2>4. a.typ = 5
    BY <1>6, <1>7
  <2> QED BY <1>7, <2>1, <2>3, <2>4
<1>10. p = o
  <2>1. a.typ \notin {6, 7}
    BY <1>9
  <2> QED BY <1>9, <2>1, Zenon DEF Asked
<1>11. x \in Nat
  <2>1. Len(i.payload) = 4 /\ ParseWord(i.payload, 0) >= 0
    BY <1>1, <1>6 DEF ItemFits, ItemBytes
  <2>2. 0 \in Nat /\ 0 + 4 <= Len(i.payload)
    BY <2>1
  <2>3. ParseWord(i.payload, 0) \in Int
    BY <1>5, <2>2, BytesWord
  <2> QED BY <1>1, <2>1, <2>3
<1>12. Opens(its, k - 1, q)
  <2>1. (k - 1) + 1 = k /\ (k - 1) + 2 = k + 1
    BY <1>4
  <2> QED BY <1>3, <1>6, <2>1 DEF Opens
<1> HIDE DEF x, t, len
<1>13. r \in Openings
  BY <1>5, <1>6, <1>9, <1>11 DEF Openings
<1> QED BY <1>2, <1>3, <1>6, <1>8, <1>10, <1>12, <1>13 DEF x, t, len

(* Every path of the file that is not empty was opened, by an array in the  *)
(* path without its last index.                                             *)
LEMMA OpenerExists ==
  ASSUME Initialisers, TripInv, NEW k \in 1 .. Len(mod.items) + 1
  PROVE  LET p == Opened(mod.items)[k] IN
         /\ p \in Seq(Openings)
         /\ p # <<>> => \E j : j + 1 < k /\ Opens(mod.items, j, p)
<1> DEFINE its == mod.items
           op == Opened(its)
           Proper(l) == /\ op[l] \in Seq(Openings)
                        /\ op[l] # <<>> => \E j : j + 1 < l /\ Opens(its, j, op[l])
           T == {n \in Nat : \A l \in 1 .. n : l <= Len(its) + 1 => Proper(l)}
<1>1. Len(its) \in Nat /\ op[1] = <<>>
  BY InitialisersFollowed, OpenedUnfold
<1>2. 0 \in T
  OBVIOUS
<1>3. ASSUME NEW n \in Nat, n \in T PROVE n + 1 \in T
  <2> SUFFICES ASSUME n + 1 <= Len(its) + 1 PROVE Proper(n + 1)
    BY <1>3
  <2>1. \A l \in 1 .. n : Proper(l)
    BY <1>1, <1>3
  <2>2. CASE n = 0
    <3> HIDE DEF op
    <3>1. n + 1 = 1 /\ <<>> \in Seq(Openings)
      BY <2>2, EmptySeq
    <3>2. op[1] \in Seq(Openings) /\ (op[1] # <<>> => \E j : j + 1 < 1 /\ Opens(its, j, op[1]))
      BY <1>1, <3>1, Zenon
    <3> QED BY <3>1, <3>2, Zenon
  <2>3. CASE n # 0
    <3>1. n \in 1 .. Len(its) /\ Proper(n)
      BY <1>1, <2>1, <2>3
    <3> HIDE DEF op
    <3>2. PICK i : i = its[n]
      OBVIOUS
    <3>3. PICK p : p = op[n]
      OBVIOUS
    <3>4. PICK q : q = op[n + 1]
      OBVIOUS
    <3>5. Asked(n - 1, i, p, q)
      BY <3>1, <3>2, <3>3, <3>4, ItemFacts DEF op
    <3>6. CASE i.typ = 6
      <4>1. /\ Opens(its, n - 1, q) /\ p = op[n - 1]
            /\ \E r \in Openings : q = Append(op[n - 1], r)
        BY <3>1, <3>2, <3>3, <3>4, <3>6, IndexOpens DEF op
      <4>2. n - 1 \in 1 .. n /\ (n - 1) + 1 < n + 1
        BY <4>1 DEF Opens
      <4>3. op[n - 1] \in Seq(Openings)
        BY <3>1, <3>3, <4>1
      <4>4. q \in Seq(Openings)
        BY <4>1, <4>3, Appended
      <4> QED BY <3>4, <4>1, <4>2, <4>4
    <3>7. CASE i.typ = 7
      <4>1. p # <<>> /\ q = Front(p)
        BY <3>5, <3>7, Zenon DEF Asked
      <4>2. PICK j : j + 1 < n /\ Opens(its, j, p)
        BY <3>1, <3>3, <4>1
      <4>3. j \in Nat /\ j + 1 \in 1 .. Len(its) /\ its[j + 1].typ = 6 /\ p = op[j + 2]
            /\ (j + 1) + 1 = j + 2 /\ (j + 1) - 1 = j
        BY <4>2 DEF Opens, op
      <4>4. /\ op[j + 1] = op[j] /\ \E r \in Openings : p = Append(op[j], r)
        <5>1. PICK l \in 1 .. Len(its) : l = j + 1 /\ l + 1 = j + 2 /\ l - 1 = j
          BY <4>3
        <5>2. op[l] = op[l - 1] /\ \E r \in Openings : op[l + 1] = Append(op[l - 1], r)
          BY <4>3, <5>1, IndexOpens DEF op
        <5> QED BY <4>3, <5>1, <5>2
      <4>5. Proper(j + 1)
        BY <2>1, <4>2, <4>3
      <4>6. op[j] \in Seq(Openings)
        BY <4>4, <4>5
      <4>7. q = op[j + 1]
        BY <4>1, <4>4, <4>6, Appended
      <4> QED
        <5>1. q \in Seq(Openings)
          BY <4>5, <4>7
        <5>2. ASSUME q # <<>> PROVE \E l : l + 1 < n + 1 /\ Opens(its, l, q)
          <6>1. PICK l : l + 1 < j + 1 /\ Opens(its, l, q)
            BY <4>5, <4>7, <5>2
          <6>2. l \in Nat
            BY <6>1 DEF Opens
          <6> QED BY <4>2, <4>3, <6>1, <6>2
        <5> QED BY <3>4, <5>1, <5>2
    <3>8. CASE i.typ \notin {6, 7}
      <4>1. q = p
        BY <3>5, <3>8, Zenon DEF Asked
      <4>2. ASSUME q # <<>> PROVE \E l : l + 1 < n + 1 /\ Opens(its, l, q)
        <5>1. PICK l : l + 1 < n /\ Opens(its, l, q)
          BY <3>1, <3>3, <4>1, <4>2
        <5>2. l \in Nat
          BY <5>1 DEF Opens
        <5> QED BY <5>1, <5>2
      <4> QED BY <3>1, <3>3, <3>4, <4>1, <4>2
    <3> QED BY <3>6, <3>7, <3>8
  <2> QED BY <2>2, <2>3
<1>4. \A n \in Nat : n \in T
  BY <1>2, <1>3, NatSetInduction
<1>5. Len(its) + 1 \in T
  <2> HIDE DEF T
  <2>1. Len(its) + 1 \in Nat
    BY <1>1
  <2> QED BY <1>4, <2>1
<1>6. Proper(k)
  BY <1>1, <1>5
<1> QED BY <1>6

(* What the two items that open a path say of it.                           *)
LEMMA OpensMeans ==
  ASSUME Initialisers, TripInv, NEW j, NEW p, Opens(mod.items, j, p)
  PROVE  LET its == mod.items
             a == its[j]
         IN
         /\ j \in 1 .. Len(its) /\ a.typ = 5 /\ p # <<>> /\ p \in Seq(Openings)
         /\ Front(p) = Opened(its)[j] /\ Last(p).off = a.off
         /\ Last(p).t = ParseWord(a.payload, 0) /\ Last(p).len = ParseWord(a.payload, 4)
         /\ Last(p).at \in Nat /\ Last(p).at = ParseWord(its[j + 1].payload, 0)
         /\ Last(p).at = 0 \/ TypeSize[Last(p).t] = 1
<1> DEFINE its == mod.items
           r == [off |-> its[j].off, at |-> ParseWord(its[j + 1].payload, 0),
                 t |-> ParseWord(its[j].payload, 0), len |-> ParseWord(its[j].payload, 4)]
<1>1. /\ j \in 1 .. Len(its) /\ its[j].typ = 5 /\ j + 1 \in 1 .. Len(its)
      /\ its[j + 1].typ = 6 /\ p = Opened(its)[j + 2]
  BY DEF Opens
<1>2. PICK l \in 1 .. Len(its) : l = j + 1 /\ l + 1 = j + 2 /\ l - 1 = j
  BY <1>1
<1>3. /\ Opened(its)[j + 2] = Append(Opened(its)[j], r) /\ r \in Openings
      /\ r.at = 0 \/ TypeSize[r.t] = 1
  BY <1>1, <1>2, IndexOpens
<1>4. Opened(its)[j] \in Seq(Openings)
  <2>1. j \in 1 .. Len(its) + 1
    BY <1>1
  <2> QED BY <2>1, OpenerExists
<1>5. p # <<>> /\ p \in Seq(Openings) /\ Front(p) = Opened(its)[j] /\ Last(p) = r
  BY <1>1, <1>3, <1>4, Appended
<1>6. r.off = its[j].off /\ r.t = ParseWord(its[j].payload, 0) /\ r.at = ParseWord(its[j + 1].payload, 0)
      /\ r.len = ParseWord(its[j].payload, 4)
  OBVIOUS
<1> HIDE DEF r
<1>7. r.at \in Nat
  BY <1>3 DEF Openings
<1> QED BY <1>1, <1>3, <1>5, <1>6, <1>7

(* Two items of one path are apart.                                         *)
LEMMA SamePath ==
  ASSUME Initialisers, TripInv, NEW k \in 1 .. Len(mod.items), NEW l \in 1 .. Len(mod.items),
         k # l, Opened(mod.items)[k] = Opened(mod.items)[l],
         Extent(mod.items[k]) > 0, Extent(mod.items[l]) > 0
  PROVE  \/ mod.items[k].off + Extent(mod.items[k]) <= mod.items[l].off
         \/ mod.items[l].off + Extent(mod.items[l]) <= mod.items[k].off
<1> DEFINE its == mod.items
           a == its[k].off
           w == Extent(its[k])
           b == its[l].off
           v == Extent(its[l])
<1>1. DepthFirst(its) /\ DOMAIN its = 1 .. Len(its)
  BY InitialisersFollowed DEF Initialisers
<1>2. ~H!Overlap(a, w, b, v)
  BY <1>1 DEF DepthFirst
<1>3. a \in Nat /\ w \in Nat /\ b \in Nat /\ v \in Nat
  BY ItemFacts
<1> HIDE DEF a, w, b, v
<1>4. w > 0
  BY DEF w
<1>5. a + w <= b \/ b + v <= a
  BY <1>2, <1>3, <1>4 DEF H!Overlap
<1> QED BY <1>5 DEF a, w, b, v

(* A path is opened once.                                                   *)
LEMMA OpenerIs ==
  ASSUME Initialisers, TripInv, NEW j, NEW p, Opens(mod.items, j, p)
  PROVE  Opener(mod.items, p) = j
<1> DEFINE its == mod.items
<1>1. ASSUME NEW l, Opens(its, l, p) PROVE l = j
  <2>1. /\ j \in 1 .. Len(its) /\ l \in 1 .. Len(its) /\ its[j].typ = 5 /\ its[l].typ = 5
        /\ Opened(its)[j] = Opened(its)[l] /\ its[j].off = its[l].off
    BY <1>1, OpensMeans
  <2>2. Extent(its[j]) = 4 /\ Extent(its[l]) = 4
    BY <2>1 DEF Extent, H!PtrSize
  <2>3. its[j].off \in Nat
    BY <2>1, ItemFacts
  <2> SUFFICES ASSUME l # j PROVE FALSE
    OBVIOUS
  <2>4. 4 > 0
    OBVIOUS
  <2>5. its[j].off + 4 <= its[l].off \/ its[l].off + 4 <= its[j].off
    BY <2>1, <2>2, <2>4, SamePath
  <2> QED BY <2>1, <2>3, <2>5
<1>2. j \in 1 .. Len(its)
  BY OpensMeans
<1> QED BY <1>1, <1>2, Zenon DEF Opener

(* Where an item of the file lies: in the module data, or in the elements   *)
(* of the array that opened its path, before the objects of later items.    *)
LEMMA Regions ==
  ASSUME Initialisers, TripInv, NEW k \in 1 .. Len(mod.items), mod.items[k].typ \notin {6, 7},
         NEW p, p = Opened(mod.items)[k], NEW w, w = Extent(mod.items[k]),
         NEW a, a = Spot(mod.items, k), NEW f, f = Where(mod.items, p)
  PROVE  /\ a \in Nat /\ w \in Nat \ {0} /\ f \in Nat /\ a = f + mod.items[k].off
         /\ a + w <= Place(mod.items, k)
         /\ p = <<>> => HeapBase <= a /\ a + w <= HeapBase + Used(mod.items)[0]
         /\ p # <<>> => \E j \in 1 .. Len(mod.items) :
              /\ j + 1 < k /\ Opens(mod.items, j, p)
              /\ Place(mod.items, j) + Headers <= a /\ a + w <= Place(mod.items, j + 1)
<1> DEFINE its == mod.items
           u == Used(its)
           off == its[k].off
           room == IF p = <<>> THEN Layout[1].size ELSE TypeSize[Last(p).t] * Last(p).len - Last(p).at
<1>1. PICK q : q = Opened(its)[k + 1]
  OBVIOUS
<1>2. /\ w \in Nat \ {0} /\ off \in Nat /\ off + w <= room
      /\ Len(its) \in Nat /\ mod \in Modules
  <2>1. PICK i : i = its[k]
    OBVIOUS
  <2>2. Asked(k - 1, i, p, q) /\ i.off \in Nat /\ w \in Nat
    BY <1>1, <2>1, ItemFacts
  <2>3. i.typ \notin {6, 7} => Extent(i) > 0
    BY <2>2, Zenon DEF Asked
  <2>4. i.off + Extent(i) <= room
    BY <2>2, Zenon DEF Asked
  <2> HIDE DEF room
  <2> QED BY <2>1, <2>2, <2>3, <2>4, InitialisersFollowed
<1>3. /\ HeapBase \in Nat /\ Layout[1].size \in Nat
      /\ \A l \in 0 .. Len(its) : \A m \in 0 .. l : u[m] \in Nat /\ u[l] \in Nat /\ u[m] <= u[l]
      /\ u[0] = Layout[1].size
  BY <1>2, LayoutNumbers, UsedGrows, UsedUnfold
<1>4. a = f + off
  BY DEF Spot
<1>5. Place(its, k) = HeapBase + u[k - 1] /\ k - 1 \in 0 .. Len(its)
  BY <1>2 DEF Place
<1>6. CASE p = <<>>
  <2>1. f = HeapBase /\ room = u[0]
    BY <1>3, <1>6 DEF Where
  <2>2. u[0] <= u[k - 1] /\ u[0] \in Nat /\ u[k - 1] \in Nat
    BY <1>3, <1>5
  <2> HIDE DEF u, off, room
  <2>3. /\ a \in Nat /\ HeapBase <= a /\ a + w <= HeapBase + u[0]
        /\ a + w <= HeapBase + u[k - 1]
    BY <1>2, <1>3, <1>4, <2>1, <2>2
  <2> QED BY <1>2, <1>3, <1>4, <1>5, <1>6, <2>1, <2>3 DEF u, off
<1>7. CASE p # <<>>
  <2>1. PICK j : j + 1 < k /\ Opens(its, j, p)
    <3>1. k \in 1 .. Len(its) + 1
      BY <1>2
    <3> QED BY <1>7, <3>1, OpenerExists
  <2>2. /\ j \in 1 .. Len(its) /\ its[j].typ = 5
        /\ Last(p).t = ParseWord(its[j].payload, 0) /\ Last(p).len = ParseWord(its[j].payload, 4)
        /\ Last(p).at \in Nat
    BY <2>1, OpensMeans
  <2>3. Opener(its, p) = j
    BY <2>1, OpenerIs
  <2> DEFINE at == Last(p).at
             t == ParseWord(its[j].payload, 0)
             len == ParseWord(its[j].payload, 4)
             r == TypeSize[t] * len
             start == HeapBase + u[j - 1]
  <2>4. r \in Nat /\ u[j] = u[j - 1] + Space(its[j]) /\ Space(its[j]) \in Nat
    <3>1. t \in DOMAIN TypeSize /\ len \in Nat
      BY <2>2, ItemFacts
    <3>2. TypeSize[t] \in Nat
      BY <1>2, <3>1, LayoutNumbers
    <3>3. r \in Nat
      BY <3>1, <3>2
    <3> QED BY <2>2, <3>3, ItemFacts
  <2> HIDE DEF r
  <2>5. Space(its[j]) >= 40 + r
    <3>1. \A n \in Nat : H!Align4(n) >= n
      BY DEF H!Align4
    <3>2. Space(its[j]) = H!Align4(H!ObjectHeader + H!ArrayHeader + r)
      BY <2>2 DEF Space, r
    <3>3. H!ObjectHeader + H!ArrayHeader + r = 40 + r
      BY <2>4 DEF H!ObjectHeader, H!ArrayHeader
    <3> QED BY <2>4, <3>1, <3>2, <3>3
  <2>6. room = r - at
    BY <1>7, <2>2 DEF r
  <2>7. u[j - 1] \in Nat /\ u[j] \in Nat /\ u[j] <= u[k - 1] /\ u[k - 1] \in Nat
    BY <1>2, <1>3, <2>1, <2>2
  <2>8. /\ f = start + 40 + at /\ Place(its, j) + Headers = start + 40
        /\ Place(its, j + 1) = HeapBase + u[j]
    <3>1. Place(its, j) = start /\ (j + 1) - 1 = j
      BY <2>2 DEF Place
    <3>2. Headers = 40
      BY DEF Headers, H!ObjectHeader, H!ArrayHeader
    <3> HIDE DEF start, at
    <3>3. f = Place(its, j) + Headers + at
      BY <1>7, <2>3 DEF Where, at
    <3> QED BY <3>1, <3>2, <3>3 DEF Place
  <2> HIDE DEF u, off, room, at
  <2>9. /\ f \in Nat /\ a \in Nat /\ start + 40 <= a /\ a + w <= HeapBase + u[j]
        /\ a + w <= HeapBase + u[k - 1]
    <3>1. at \in Nat
      BY <2>2 DEF at
    <3>2. start \in Nat /\ HeapBase + u[j] = start + Space(its[j])
      BY <1>3, <2>4, <2>7
    <3> HIDE DEF start
    <3>3. f \in Nat /\ a \in Nat /\ start + 40 <= a
      BY <1>2, <1>4, <2>8, <3>1, <3>2
    <3>4. a + w <= start + Space(its[j])
      BY <1>2, <1>4, <2>4, <2>5, <2>6, <2>8, <3>1, <3>2
    <3> DEFINE x == u[j]
               y == u[k - 1]
               end == HeapBase + x
               top == HeapBase + y
    <3>5. a + w \in Nat
      <4>1. w \in Nat
        BY <1>2
      <4> QED BY <3>3, <4>1
    <3>6. end \in Nat /\ top \in Nat /\ end <= top
      <4>1. x \in Nat /\ y \in Nat /\ x <= y
        BY <2>7
      <4> HIDE DEF x, y
      <4> QED BY <1>3, <4>1
    <3>7. a + w <= end /\ end <= top
      BY <3>2, <3>4, <3>6
    <3> HIDE DEF end, top, x, y
    <3>8. a + w <= top
      BY <3>5, <3>6, <3>7
    <3> QED BY <3>3, <3>7, <3>8 DEF end, top, x, y
  <2> QED BY <1>2, <1>4, <1>5, <1>7, <2>1, <2>2, <2>8, <2>9 DEF u, off
<1> QED BY <1>6, <1>7

(* What an item stores lies beside what another one stores, ...             *)
LEMMA SpotsApart ==
  ASSUME Initialisers, TripInv, NEW k \in 1 .. Len(mod.items), NEW l \in 1 .. Len(mod.items),
         k # l, mod.items[k].typ \notin {6, 7}, mod.items[l].typ \notin {6, 7},
         NEW a, a = Spot(mod.items, k), NEW w, w = Extent(mod.items[k]),
         NEW b, b = Spot(mod.items, l), NEW v, v = Extent(mod.items[l])
  PROVE  a + w <= b \/ b + v <= a
<1> DEFINE its == mod.items
           u == Used(its)
<1>1. PICK p : p = Opened(its)[k]
  OBVIOUS
<1>2. PICK q : q = Opened(its)[l]
  OBVIOUS
<1>3. PICK f : f = Where(its, p)
  OBVIOUS
<1>4. PICK g : g = Where(its, q)
  OBVIOUS
<1>5. /\ a \in Nat /\ w \in Nat \ {0} /\ f \in Nat /\ a = f + its[k].off
      /\ p = <<>> => HeapBase <= a /\ a + w <= HeapBase + u[0]
      /\ p # <<>> => \E j \in 1 .. Len(its) :
           /\ j + 1 < k /\ Opens(its, j, p)
           /\ Place(its, j) + Headers <= a /\ a + w <= Place(its, j + 1)
  BY <1>1, <1>3, Regions
<1>6. /\ b \in Nat /\ v \in Nat \ {0} /\ g \in Nat /\ b = g + its[l].off
      /\ q = <<>> => HeapBase <= b /\ b + v <= HeapBase + u[0]
      /\ q # <<>> => \E j \in 1 .. Len(its) :
           /\ j + 1 < l /\ Opens(its, j, q)
           /\ Place(its, j) + Headers <= b /\ b + v <= Place(its, j + 1)
  BY <1>2, <1>4, Regions
<1>0. a \in Nat /\ w \in Nat /\ b \in Nat /\ v \in Nat /\ f \in Nat
  BY <1>5, <1>6
<1>7. Len(its) \in Nat /\ HeapBase \in Nat /\ Headers = 40
  BY InitialisersFollowed, LayoutNumbers DEF Headers, H!ObjectHeader, H!ArrayHeader
<1>8. \A m \in 0 .. Len(its) : \A j \in 0 .. m : u[j] \in Nat /\ u[m] \in Nat /\ u[j] <= u[m]
  BY UsedGrows
<1>9. \A i \in 1 .. Len(its), j \in 1 .. Len(its) :
        i < j => Place(its, i + 1) <= Place(its, j) /\ Place(its, i + 1) \in Nat
                 /\ Place(its, j) \in Nat
  <2> TAKE i \in 1 .. Len(its), j \in 1 .. Len(its)
  <2> HAVE i < j
  <2>1. i \in 0 .. j - 1 /\ j - 1 \in 0 .. Len(its) /\ (i + 1) - 1 = i
    BY <1>7
  <2>2. u[i] <= u[j - 1] /\ u[i] \in Nat /\ u[j - 1] \in Nat
    BY <1>8, <2>1
  <2> HIDE DEF u
  <2>3. Place(its, i + 1) = HeapBase + u[i] /\ Place(its, j) = HeapBase + u[j - 1]
    BY <2>1 DEF Place, u
  <2> DEFINE x == u[i]
             y == u[j - 1]
  <2>4. x <= y /\ x \in Nat /\ y \in Nat
    BY <2>2
  <2> HIDE DEF x, y
  <2>5. HeapBase + x <= HeapBase + y /\ HeapBase + x \in Nat /\ HeapBase + y \in Nat
    BY <1>7, <2>4
  <2> QED BY <2>3, <2>5 DEF x, y
<1>10. \A j \in 1 .. Len(its) : HeapBase + u[0] <= Place(its, j) /\ Place(its, j) \in Nat
                                /\ HeapBase + u[0] \in Nat
  <2> TAKE j \in 1 .. Len(its)
  <2>1. 0 \in 0 .. j - 1 /\ j - 1 \in 0 .. Len(its)
    BY <1>7
  <2>2. u[0] <= u[j - 1] /\ u[0] \in Nat /\ u[j - 1] \in Nat
    BY <1>8, <2>1
  <2> HIDE DEF u
  <2>3. Place(its, j) = HeapBase + u[j - 1]
    BY DEF Place, u
  <2> DEFINE x == u[0]
             y == u[j - 1]
  <2>4. x <= y /\ x \in Nat /\ y \in Nat
    BY <2>2
  <2> HIDE DEF x, y
  <2>5. HeapBase + x <= HeapBase + y /\ HeapBase + x \in Nat /\ HeapBase + y \in Nat
    BY <1>7, <2>4
  <2> QED BY <2>3, <2>5 DEF x, y
<1> HIDE DEF u
<1>11. CASE p = q
  <2>1. its[k].off + w <= its[l].off \/ its[l].off + v <= its[k].off
    <3>1. w > 0 /\ v > 0
      BY <1>5, <1>6
    <3>2. Opened(its)[k] = Opened(its)[l]
      BY <1>1, <1>2, <1>11
    <3>3. Extent(its[k]) > 0 /\ Extent(its[l]) > 0
      BY <3>1
    <3> QED BY <3>2, <3>3, SamePath
  <2>2. f = g
    BY <1>3, <1>4, <1>11
  <2> DEFINE x == its[k].off
             y == its[l].off
  <2>3. x \in Nat /\ y \in Nat /\ a = f + x /\ b = f + y /\ (x + w <= y \/ y + v <= x)
    BY <1>5, <1>6, <2>1, <2>2, ItemFacts
  <2> HIDE DEF x, y
  <2> QED BY <1>0, <2>3
<1>12. CASE p = <<>> /\ q # <<>>
  <2>1. PICK j \in 1 .. Len(its) : Place(its, j) + Headers <= b
    BY <1>6, <1>12
  <2>2. a + w <= HeapBase + u[0] /\ HeapBase + u[0] <= Place(its, j) /\ Place(its, j) \in Nat
        /\ HeapBase + u[0] \in Nat
    BY <1>5, <1>10, <1>12
  <2> DEFINE x == HeapBase + u[0]
             y == Place(its, j)
  <2>3. x \in Nat /\ y \in Nat /\ a + w <= x /\ x <= y /\ y + 40 <= b
    BY <1>7, <2>1, <2>2
  <2> HIDE DEF x, y
  <2> QED BY <1>0, <2>3
<1>13. CASE p # <<>> /\ q = <<>>
  <2>1. PICK j \in 1 .. Len(its) : Place(its, j) + Headers <= a
    BY <1>5, <1>13
  <2>2. b + v <= HeapBase + u[0] /\ HeapBase + u[0] <= Place(its, j) /\ Place(its, j) \in Nat
        /\ HeapBase + u[0] \in Nat
    BY <1>6, <1>10, <1>13
  <2> DEFINE x == HeapBase + u[0]
             y == Place(its, j)
  <2>3. x \in Nat /\ y \in Nat /\ b + v <= x /\ x <= y /\ y + 40 <= a
    BY <1>7, <2>1, <2>2
  <2> HIDE DEF x, y
  <2> QED BY <1>0, <2>3
<1>14. CASE p # <<>> /\ q # <<>> /\ p # q
  <2>1. PICK i \in 1 .. Len(its) : /\ Opens(its, i, p) /\ Place(its, i) + Headers <= a
                                   /\ a + w <= Place(its, i + 1)
    BY <1>5, <1>14
  <2>2. PICK j \in 1 .. Len(its) : /\ Opens(its, j, q) /\ Place(its, j) + Headers <= b
                                   /\ b + v <= Place(its, j + 1)
    BY <1>6, <1>14
  <2>3. i # j
    BY <1>14, <2>1, <2>2 DEF Opens
  <2>4. Place(its, i) <= a /\ Place(its, j) <= b
    <3>1. Place(its, i) \in Nat /\ Place(its, j) \in Nat
      BY <1>10
    <3> DEFINE x == Place(its, i)
               y == Place(its, j)
    <3>2. x \in Nat /\ y \in Nat /\ x + Headers <= a /\ y + Headers <= b
      BY <2>1, <2>2, <3>1
    <3> HIDE DEF x, y
    <3>3. x <= a /\ y <= b
      BY <1>0, <1>7, <3>2
    <3> QED BY <3>3 DEF x, y
  <2>5. CASE i < j
    <3> DEFINE x == Place(its, i + 1)
               y == Place(its, j)
    <3>1. a + w <= x /\ x <= y /\ y <= b /\ x \in Nat /\ y \in Nat
      BY <1>9, <2>1, <2>4, <2>5
    <3> HIDE DEF x, y
    <3> QED BY <1>0, <3>1
  <2>6. CASE j < i
    <3> DEFINE x == Place(its, j + 1)
               y == Place(its, i)
    <3>1. b + v <= x /\ x <= y /\ y <= a /\ x \in Nat /\ y \in Nat
      BY <1>9, <2>2, <2>4, <2>6
    <3> HIDE DEF x, y
    <3> QED BY <1>0, <3>1
  <2> QED BY <1>7, <2>3, <2>5, <2>6
<1> QED BY <1>11, <1>12, <1>13, <1>14

(* ... and beside the characters of a string, and the other way round.      *)
LEMMA SpotBesideText ==
  ASSUME Initialisers, TripInv, NEW k \in 1 .. Len(mod.items), NEW l \in 1 .. Len(mod.items),
         mod.items[k].typ \notin {6, 7}, mod.items[l].typ = 3,
         NEW a, a = Spot(mod.items, k), NEW w, w = Extent(mod.items[k])
  PROVE  a + w <= Place(mod.items, l) \/ Place(mod.items, l + 1) <= a
<1> DEFINE its == mod.items
           u == Used(its)
<1>1. PICK p : p = Opened(its)[k]
  OBVIOUS
<1>2. PICK f : f = Where(its, p)
  OBVIOUS
<1>3. /\ a \in Nat /\ w \in Nat
      /\ p = <<>> => HeapBase <= a /\ a + w <= HeapBase + u[0]
      /\ p # <<>> => \E j \in 1 .. Len(its) :
           /\ j + 1 < k /\ Opens(its, j, p)
           /\ Place(its, j) + Headers <= a /\ a + w <= Place(its, j + 1)
  BY <1>1, <1>2, Regions
<1>4. Len(its) \in Nat /\ HeapBase \in Nat /\ Headers = 40
  BY InitialisersFollowed, LayoutNumbers DEF Headers, H!ObjectHeader, H!ArrayHeader
<1>5. \A m \in 0 .. Len(its) : \A j \in 0 .. m : u[j] \in Nat /\ u[m] \in Nat /\ u[j] <= u[m]
  BY UsedGrows
<1>6. \A m \in 1 .. Len(its) + 1 : Place(its, m) = HeapBase + u[m - 1] /\ m - 1 \in 0 .. Len(its)
  BY <1>4 DEF Place
<1> HIDE DEF u
<1>7. \A m \in 1 .. Len(its) + 1 : Place(its, m) \in Nat /\ HeapBase + u[0] <= Place(its, m)
  <2> TAKE m \in 1 .. Len(its) + 1
  <2>1. 0 \in 0 .. m - 1
    BY <1>6
  <2>2. u[0] \in Nat /\ u[m - 1] \in Nat /\ u[0] <= u[m - 1]
    BY <1>5, <1>6, <2>1
  <2>3. Place(its, m) = HeapBase + u[m - 1]
    BY <1>6
  <2> QED BY <1>4, <2>2, <2>3
<1>8. \A j \in 1 .. Len(its) + 1, m \in 1 .. Len(its) + 1 : j < m => Place(its, j + 1) <= Place(its, m)
  <2> TAKE j \in 1 .. Len(its) + 1, m \in 1 .. Len(its) + 1
  <2> HAVE j < m
  <2>1. j \in 0 .. m - 1 /\ j + 1 \in 1 .. Len(its) + 1 /\ (j + 1) - 1 = j
    BY <1>4
  <2>2. u[j] <= u[m - 1] /\ u[j] \in Nat /\ u[m - 1] \in Nat
    BY <1>5, <1>6, <2>1
  <2>3. Place(its, j + 1) = HeapBase + u[j] /\ Place(its, m) = HeapBase + u[m - 1]
    BY <1>6, <2>1
  <2> QED BY <1>4, <2>2, <2>3
<1>9. a + w <= Place(its, l) \/ Place(its, l + 1) <= a
  <2>1. l \in 1 .. Len(its) + 1 /\ l + 1 \in 1 .. Len(its) + 1
    BY <1>4
  <2> DEFINE x == Place(its, l)
             y == Place(its, l + 1)
             z == HeapBase + u[0]
  <2>2. x \in Nat /\ y \in Nat /\ z <= x
    BY <1>7, <2>1
  <2>3. z \in Nat
    BY <1>4, <1>5
  <2>4. CASE p = <<>>
    <3>1. a + w <= z
      BY <1>3, <2>4
    <3> HIDE DEF x, y, z
    <3>2. a + w <= x
      BY <1>3, <2>2, <2>3, <3>1
    <3> QED BY <3>2 DEF x
  <2>5. CASE p # <<>>
    <3>1. PICK j \in 1 .. Len(its) : /\ Opens(its, j, p) /\ Place(its, j) + Headers <= a
                                     /\ a + w <= Place(its, j + 1)
      BY <1>3, <2>5
    <3> DEFINE b == Place(its, j)
               e == Place(its, j + 1)
    <3>0. j \in 1 .. Len(its) + 1 /\ j + 1 \in 1 .. Len(its) + 1
      BY <1>4
    <3>2. j # l
      BY <3>1 DEF Opens
    <3>3. b \in Nat /\ e \in Nat /\ b + 40 <= a /\ a + w <= e
      BY <1>4, <1>7, <3>0, <3>1
    <3>4. j < l => e <= x
      BY <2>1, <3>0, <1>8
    <3>5. l < j => y <= b
      BY <2>1, <3>0, <1>8
    <3> HIDE DEF b, e, x, y
    <3>6. j < l \/ l < j
      BY <1>4, <3>2
    <3>7. a + w <= x \/ y <= a
      BY <1>3, <2>2, <3>3, <3>4, <3>5, <3>6
    <3> QED BY <3>7 DEF x, y
  <2> QED BY <2>4, <2>5
<1> QED BY <1>9

(* So an item stores nothing where one before it did.                       *)
LEMMA KeptApart ==
  ASSUME Initialisers, TripInv, NEW k \in 1 .. Len(mod.items), NEW l \in 1 .. Len(mod.items),
         l < k, mod.items[l].typ \notin {6, 7},
         NEW a, a = Spot(mod.items, k), NEW w, w = Extent(mod.items[k])
  PROVE  \A x \in Keeps(mod.items, l) :
           /\ x \in Nat /\ x < Place(mod.items, k)
           /\ mod.items[k].typ \notin {6, 7} => x \notin a .. a + w - 1
<1> DEFINE its == mod.items
<1>1. PICK b : b = Spot(its, l)
  OBVIOUS
<1>2. PICK v : v = Extent(its[l])
  OBVIOUS
<1>3. PICK at : at = Place(its, l)
  OBVIOUS
<1>4. PICK end : end = Place(its, l + 1)
  OBVIOUS
<1>5. PICK new : new = Place(its, k)
  OBVIOUS
<1>6. Len(its) \in Nat
  BY InitialisersFollowed
<1>7. b \in Nat /\ v \in Nat /\ b + v <= at
  <2>1. PICK p : p = Opened(its)[l]
    OBVIOUS
  <2>2. PICK f : f = Where(its, p)
    OBVIOUS
  <2> QED BY <1>1, <1>2, <1>3, <2>1, <2>2, Regions
<1>8. at \in Nat /\ end \in Nat /\ new \in Nat /\ at <= new /\ end <= new
  <2> DEFINE u == Used(its)
  <2>1. /\ l - 1 \in 0 .. k - 1 /\ l \in 0 .. k - 1 /\ k - 1 \in 0 .. Len(its) /\ (l + 1) - 1 = l
    BY <1>6
  <2>2. /\ u[l - 1] \in Nat /\ u[l] \in Nat /\ u[k - 1] \in Nat /\ u[l - 1] <= u[k - 1]
        /\ u[l] <= u[k - 1]
    BY <2>1, UsedGrows
  <2>3. HeapBase \in Nat
    BY InitialisersFollowed, LayoutNumbers
  <2> DEFINE x == u[l - 1]
             y == u[l]
             z == u[k - 1]
  <2>4. at = HeapBase + x /\ end = HeapBase + y /\ new = HeapBase + z
    BY <1>3, <1>4, <1>5, <2>1 DEF Place
  <2>5. x \in Nat /\ y \in Nat /\ z \in Nat /\ x <= z /\ y <= z
    BY <2>2
  <2> HIDE DEF x, y, z
  <2> QED BY <2>3, <2>4, <2>5
<1>9. ASSUME NEW x \in Keeps(its, l)
      PROVE  x \in b .. b + v - 1 \/ (its[l].typ = 3 /\ x \in at .. end - 1)
  BY <1>1, <1>2, <1>3, <1>4, <1>9, Zenon DEF Keeps
<1>10. ASSUME its[k].typ \notin {6, 7}
       PROVE  /\ a \in Nat /\ w \in Nat
              /\ a + w <= b \/ b + v <= a
              /\ its[l].typ = 3 => a + w <= at \/ end <= a
  <2>1. PICK p : p = Opened(its)[k]
    OBVIOUS
  <2>2. PICK f : f = Where(its, p)
    OBVIOUS
  <2>3. a \in Nat /\ w \in Nat
    BY <1>10, <2>1, <2>2, Regions
  <2>4. a + w <= b \/ b + v <= a
    BY <1>1, <1>2, <1>6, <1>10, SpotsApart
  <2>5. its[l].typ = 3 => a + w <= at \/ end <= a
    BY <1>3, <1>4, <1>10, SpotBesideText
  <2> QED BY <2>3, <2>4, <2>5
<1> TAKE x \in Keeps(its, l)
<1>11. CASE x \in b .. b + v - 1
  <2>1. x \in Nat /\ x < new
    BY <1>7, <1>8, <1>11
  <2>2. its[k].typ \notin {6, 7} => x \notin a .. a + w - 1
    BY <1>7, <1>10, <1>11
  <2> QED BY <1>5, <2>1, <2>2
<1>12. CASE its[l].typ = 3 /\ x \in at .. end - 1
  <2>1. x \in Nat /\ x < new
    BY <1>8, <1>12
  <2>2. its[k].typ \notin {6, 7} => x \notin a .. a + w - 1
    BY <1>8, <1>10, <1>12
  <2> QED BY <1>5, <2>1, <2>2
<1> QED BY <1>9, <1>11, <1>12

(* The object of an item ends where that of the next one begins.            *)
LEMMA PlaceNext ==
  ASSUME Initialisers, TripInv, NEW k \in 1 .. Len(mod.items)
  PROVE  /\ Place(mod.items, k) \in Nat \ {0}
         /\ Place(mod.items, k + 1) = Place(mod.items, k) + Space(mod.items[k])
         /\ mod.items[k].typ = 3 =>
              Place(mod.items, k) + Headers + Len(Lossy(mod.items[k].payload)) <= Place(mod.items, k + 1)
<1> DEFINE its == mod.items
           u == Used(its)[k - 1]
           v == Used(its)[k]
           len == Len(Lossy(its[k].payload))
<1>1. /\ Space(its[k]) \in Nat /\ v = u + Space(its[k]) /\ its[k].payload \in Octets
      /\ Len(its) \in Nat /\ mod \in Modules
  BY ItemFacts, InitialisersFollowed
<1>2. k - 1 \in 0 .. k /\ k \in 0 .. Len(its) /\ (k + 1) - 1 = k
  BY <1>1
<1>3. u \in Nat /\ HeapBase \in Nat \ {0}
  BY <1>1, <1>2, UsedGrows, LayoutNumbers
<1>4. Place(its, k) = HeapBase + u /\ Place(its, k + 1) = HeapBase + v
  BY <1>2 DEF Place
<1>5. ASSUME its[k].typ = 3 PROVE Headers + len <= Space(its[k]) /\ Headers + len \in Nat
  <2>1. len \in Nat
    BY <1>1, LossyType
  <2>2. Space(its[k]) = H!Align4(H!ObjectHeader + H!StringHeader + len)
    BY <1>5 DEF Space
  <2>3. \A n \in Nat : H!Align4(n) >= n
    BY DEF H!Align4
  <2> HIDE DEF len
  <2>4. H!ObjectHeader + H!StringHeader + len = 40 + len /\ Headers = 40
    BY <2>1 DEF Headers, H!ObjectHeader, H!StringHeader, H!ArrayHeader
  <2> QED BY <2>1, <2>2, <2>3, <2>4
<1> HIDE DEF u, v, len
<1>6. its[k].typ = 3 => HeapBase + u + Headers + len <= HeapBase + v
  <2> SUFFICES ASSUME its[k].typ = 3 PROVE HeapBase + u + Headers + len <= HeapBase + v
    OBVIOUS
  <2>1. Headers = 40
    BY DEF Headers, H!ObjectHeader, H!ArrayHeader
  <2>2. len \in Nat
    BY <1>1, LossyType DEF len
  <2> QED BY <1>1, <1>3, <1>5, <2>1, <2>2
<1> QED BY <1>1, <1>3, <1>4, <1>6 DEF u, v, len

(* What an item stored is there as long as what holds it is left alone.     *)
LEMMA ThereStays ==
  ASSUME Initialisers, TripInv, NEW l \in 1 .. Len(mod.items),
         NEW mem, NEW ss, NEW objs, There(mod.items, l, mem, ss, objs),
         NEW mem2, NEW ss2, NEW objs2, objs \subseteq objs2,
         \A x \in Keeps(mod.items, l) : ByteOf(mem2, x) = ByteOf(mem, x),
         mod.items[l].typ \in {3, 5} =>
           \A s \in ss \cup ss2 : s.at = Spot(mod.items, l) => (s \in ss <=> s \in ss2)
  PROVE  There(mod.items, l, mem2, ss2, objs2)
<1> DEFINE its == mod.items
           i == its[l]
           a == Spot(its, l)
           o == Place(its, l)
<1>1. ASSUME i.typ \in DOMAIN ScalarWidth, NEW b \in 1 .. Len(i.payload)
      PROVE  ByteOf(mem2, a + b - 1) = Native(ScalarWidth[i.typ], i.payload)[b]
  <2>1. i.typ \in {1, 2, 4, 8}
    BY <1>1, WidthOf
  <2>2. Extent(i) = Len(i.payload)
    BY <2>1 DEF Extent
  <2>3. a \in Nat /\ Extent(i) \in Nat
    <3>1. PICK p : p = Opened(its)[l]
      OBVIOUS
    <3>2. PICK f : f = Where(its, p)
      OBVIOUS
    <3>3. i.typ \notin {6, 7}
      BY <2>1
    <3> QED BY <3>1, <3>2, <3>3, Regions
  <2>4. a + b - 1 \in a .. a + Extent(i) - 1
    BY <1>1, <2>2, <2>3
  <2>5. a + b - 1 \in Keeps(its, l)
    BY <2>4 DEF Keeps
  <2>6. ByteOf(mem, a + b - 1) = Native(ScalarWidth[i.typ], i.payload)[b]
    BY <1>1 DEF There
  <2> QED BY <2>5, <2>6
<1>2. ASSUME NEW x, Points(ss, a, x), i.typ \in {3, 5} PROVE Points(ss2, a, x)
  <2>1. [at |-> a, ptr |-> x] \in ss /\ \A s \in ss : s.at = a => s.ptr = x
    BY <1>2 DEF Points
  <2> QED BY <1>2, <2>1 DEF Points
<1>3. ASSUME i.typ = 3
      PROVE  /\ H!StringObject(o, Len(Lossy(i.payload))) \in objs2
             /\ Points(ss2, a, o + H!ObjectHeader)
             /\ \A b \in 1 .. Len(Lossy(i.payload)) :
                  ByteOf(mem2, o + Headers + b - 1) = Lossy(i.payload)[b]
  <2>1. /\ H!StringObject(o, Len(Lossy(i.payload))) \in objs
        /\ Points(ss, a, o + H!ObjectHeader)
        /\ \A b \in 1 .. Len(Lossy(i.payload)) :
             ByteOf(mem, o + Headers + b - 1) = Lossy(i.payload)[b]
    BY <1>3 DEF There
  <2>2. ASSUME NEW b \in 1 .. Len(Lossy(i.payload))
        PROVE  ByteOf(mem2, o + Headers + b - 1) = ByteOf(mem, o + Headers + b - 1)
    <3> DEFINE len == Len(Lossy(i.payload))
               end == Place(its, l + 1)
    <3>1. /\ o \in Nat /\ end = o + Space(i) /\ o + Headers + len <= end
          /\ Space(i) \in Nat /\ i.payload \in Octets
      BY <1>3, PlaceNext, ItemFacts
    <3>2. len \in Nat /\ b \in 1 .. len
      BY <2>2, <3>1, LossyType
    <3>3. Headers = 40
      BY DEF Headers, H!ObjectHeader, H!ArrayHeader
    <3> HIDE DEF len, end, o
    <3>4. o + Headers + b - 1 \in o .. end - 1
      BY <3>1, <3>2, <3>3
    <3>5. o + Headers + b - 1 \in Keeps(its, l)
      BY <1>3, <3>4, Zenon DEF Keeps, o, end
    <3> QED BY <3>5
  <2> QED BY <1>2, <1>3, <2>1, <2>2
<1>4. ASSUME i.typ = 5
      PROVE  /\ H!ArrayObject(o, ParseWord(i.payload, 0), ParseWord(i.payload, 4)) \in objs2
             /\ Points(ss2, a, o + H!ObjectHeader)
  <2>1. /\ H!ArrayObject(o, ParseWord(i.payload, 0), ParseWord(i.payload, 4)) \in objs
        /\ Points(ss, a, o + H!ObjectHeader)
    BY <1>4 DEF There
  <2> QED BY <1>2, <1>4, <2>1
<1> QED BY <1>1, <1>3, <1>4 DEF There

(* What an item stores leaves what those before it stored.                  *)
LEMMA EarlierStay ==
  ASSUME Initialisers, TripInv, NEW n \in Nat, n + 1 \in 1 .. Len(mod.items),
         NEW k, k = n + 1, NEW a, a = Spot(mod.items, k), NEW w, w = Extent(mod.items[k]),
         NEW o, o = Place(mod.items, k),
         mod.items[k].typ \notin {6, 7}, Arrived(n),
         NEW mem, NEW ss, NEW objs, objects \subseteq objs,
         \A x \in Nat : x < o /\ x \notin a .. a + w - 1 => ByteOf(mem, x) = ByteOf(memory, x),
         \A s \in slots : s.at + 4 <= o /\ (s.at + 4 <= a \/ a + w <= s.at) => s \in ss,
         \A s \in ss : s \in slots \/ s.at = a
  PROVE  \A l \in 1 .. n : There(mod.items, l, mem, ss, objs)
<1> DEFINE its == mod.items
<1>1. Len(its) \in Nat /\ k \in 1 .. Len(its)
  BY InitialisersFollowed
<1>2. a \in Nat /\ w \in Nat \ {0}
  <2>1. PICK p : p = Opened(its)[k]
    OBVIOUS
  <2>2. PICK f : f = Where(its, p)
    OBVIOUS
  <2> QED BY <1>1, <2>1, <2>2, Regions
<1> TAKE l \in 1 .. n
<1>3. l \in 1 .. Len(its) /\ l < k /\ There(its, l, memory, slots, objects)
  BY <1>1 DEF Arrived
<1>4. CASE its[l].typ \in {6, 7}
  <2>1. its[l].typ \notin DOMAIN ScalarWidth /\ its[l].typ # 3 /\ its[l].typ # 5
    BY <1>4, WidthOf
  <2> QED BY <2>1 DEF There
<1>5. CASE its[l].typ \notin {6, 7}
  <2>1. \A x \in Keeps(its, l) : x \in Nat /\ x < o /\ x \notin a .. a + w - 1
    BY <1>1, <1>3, <1>5, KeptApart
  <2>2. \A x \in Keeps(its, l) : ByteOf(mem, x) = ByteOf(memory, x)
    BY <2>1
  <2>3. ASSUME its[l].typ \in {3, 5}, NEW s \in slots \cup ss, s.at = Spot(its, l)
        PROVE  s \in slots <=> s \in ss
    <3>1. PICK b : b = Spot(its, l)
      OBVIOUS
    <3>2. b \in Nat
      <4>1. PICK p : p = Opened(its)[l]
        OBVIOUS
      <4>2. PICK f : f = Where(its, p)
        OBVIOUS
      <4> QED BY <1>3, <1>5, <3>1, <4>1, <4>2, Regions
    <3>3. Extent(its[l]) = 4
      BY <2>3 DEF Extent, H!PtrSize
    <3>4. \A x \in b .. b + 4 - 1 : x \in Keeps(its, l)
      BY <3>1, <3>3 DEF Keeps
    <3>5. o \in Nat
      BY <1>1, PlaceNext
    <3>6. b + 4 <= o /\ (b + 4 <= a \/ a + w <= b) /\ b # a
      <4>1. \A x \in b .. b + 3 : x < o /\ x \notin a .. a + w - 1
        BY <2>1, <3>2, <3>4
      <4>2. b < o /\ b + 3 < o
        BY <3>2, <4>1
      <4>3. b \in b .. b + 3
        BY <3>2
      <4>4. ~(a <= b /\ b <= a + w - 1)
        BY <1>2, <3>2, <4>1, <4>3
      <4>5. a \notin b .. b + 3
        BY <1>2, <4>1
      <4>6. b + 4 <= a \/ a + w <= b
        BY <1>2, <3>2, <4>4, <4>5
      <4>7. b # a
        BY <4>3, <4>5
      <4> QED BY <3>2, <3>5, <4>2, <4>6, <4>7
    <3> QED BY <2>3, <3>1, <3>6
  <2> QED BY <1>3, <2>2, <2>3, ThereStays
<1> QED BY <1>4, <1>5

(* The longest and the shortest beginning of a path.                        *)
LEMMA BeginningsEnd ==
  ASSUME NEW S, NEW p \in Seq(S)
  PROVE  SubSeq(p, 1, Len(p)) = p /\ SubSeq(p, 1, 0) = <<>>
<1>1. Len(p) \in Nat
  BY LenProperties
<1>2. \A m \in 0 .. Len(p) : /\ SubSeq(p, 1, m) \in Seq(S) /\ Len(SubSeq(p, 1, m)) = m
                             /\ \A k \in 1 .. m : SubSeq(p, 1, m)[k] = p[k]
  BY <1>1
<1>3. SubSeq(p, 1, Len(p)) = p
  <2> DEFINE s == SubSeq(p, 1, Len(p))
  <2>1. Len(p) \in 0 .. Len(p)
    BY <1>1
  <2>2. s \in Seq(S) /\ Len(s) = Len(p) /\ \A k \in 1 .. Len(p) : s[k] = p[k]
    BY <1>2, <2>1
  <2> HIDE DEF s
  <2>3. s = p
    BY <2>2, SeqEqual
  <2> QED BY <2>3 DEF s
<1>4. SubSeq(p, 1, 0) = <<>>
  <2> DEFINE s == SubSeq(p, 1, 0)
  <2>1. s \in Seq(S) /\ Len(s) = 0
    BY <1>1, <1>2
  <2> HIDE DEF s
  <2>2. s = <<>>
    BY <2>1, EmptySeq
  <2> QED BY <2>2 DEF s
<1> QED BY <1>3, <1>4

(* The base is where the path of the file leads.                            *)
LEMMA Entered ==
  ASSUME H!TypeOK, HN!BaseFollows, Initialisers, TripInv, NEW k \in 1 .. Len(mod.items) + 1,
         NEW p, p = Opened(mod.items)[k], Follow(p), Enters(p), NEW off \in Nat,
         NEW f, f = Where(mod.items, p)
  PROVE  /\ H!Dest(off) = f + off
         /\ p = <<>> => base = H!ModuleBase /\ arrayStack = <<>> /\ path = <<>>
<1> DEFINE n == Len(p)
<1>1. p \in Seq(Openings) /\ Len(path) = n /\ Len(arrayStack) = n /\ n \in Nat
  BY LenProperties DEF Follow
<1>2. arrayStack \in Seq(H!Bases) /\ base \in H!Bases /\ path \in Seq(Nat \cup {H!VM_NULLPTR})
  BY DEF H!TypeOK
<1>3. H!Frames[n + 1] = base
  BY <1>1, <1>2, AppendProperties DEF H!Frames
<1>4. H!Frames = HN!Frames /\ H!ModuleBase = HN!ModuleBase
  BY DEF H!Frames, HN!Frames, H!ModuleBase, HN!ModuleBase
<1>5. CASE p = <<>>
  <2>1. n = 0 /\ path = <<>> /\ arrayStack = <<>>
    BY <1>1, <1>2, <1>5, EmptySeq
  <2>2. base = H!ModuleBase
    <3>1. HN!Frames[1] = HN!ModuleBase
      BY DEF HN!BaseFollows
    <3> HIDE DEF n
    <3> QED BY <1>3, <1>4, <2>1, <3>1
  <2>3. f = HeapBase
    BY <1>5 DEF Where
  <2>4. H!Dest(off) = f + off
    <3>1. base.ptr = HeapBase /\ base.start = 0
      BY <2>2 DEF H!ModuleBase
    <3> QED BY <2>3, <3>1, InitialisersFollowed, LayoutNumbers DEF H!Dest
  <2> QED BY <2>1, <2>2, <2>4
<1>6. CASE p # <<>>
  <2>1. n \in 1 .. Len(p) /\ n \in 1 .. Len(path)
    BY <1>1, <1>6, EmptySeq
  <2>2. base.start = p[n].at /\ Last(p) = p[n]
    <3>1. H!Frames[n + 1].start = p[n].at
      BY <2>1 DEF Follow
    <3> QED BY <1>3, <3>1 DEF Last
  <2>3. base.ptr = path[n] + H!ArrayHeader
    <3>1. HN!Frames[n + 1].ptr = path[n] + HN!ArrayHeader
      BY <2>1 DEF HN!BaseFollows
    <3> QED BY <1>3, <1>4, <3>1 DEF H!ArrayHeader, HN!ArrayHeader
  <2>4. SubSeq(p, 1, n) = p
    BY <1>1, BeginningsEnd
  <2> DEFINE o == Place(mod.items, Opener(mod.items, p))
             at == Last(p).at
  <2>5. path[n] = o + H!ObjectHeader
    BY <2>1, <2>4 DEF Enters
  <2>6. f = o + Headers + at
    BY <1>6 DEF Where
  <2>7. H!Dest(off) = ((path[n] + 16) + at) + off /\ path[n] = o + 24 /\ f = o + 40 + at
    BY <2>2, <2>3, <2>5, <2>6 DEF H!Dest, H!ArrayHeader, H!ObjectHeader, Headers
  <2>8. at \in Nat /\ o \in Nat
    <3>1. PICK j : Opens(mod.items, j, p)
      BY <1>6, OpenerExists
    <3>2. Opener(mod.items, p) = j /\ j \in 1 .. Len(mod.items) /\ Last(p).at \in Nat
      BY <3>1, OpenerIs, OpensMeans
    <3> QED BY <3>2, PlaceNext
  <2> HIDE DEF o, at
  <2> QED BY <1>6, <2>7, <2>8
<1> QED BY <1>5, <1>6

(* What the items left when there is one more.                              *)
LEMMA ArrivedThen ==
  ASSUME NEW n \in Nat, mod' = mod, NEW k, k = n + 1,
         \A l \in 1 .. n : There(mod.items, l, memory', slots', objects'),
         There(mod.items, k, memory', slots', objects')
  PROVE  Arrived(n + 1)'
<1>1. \A l \in 1 .. n + 1 : l \in 1 .. n \/ l = k
  OBVIOUS
<1> QED BY <1>1 DEF Arrived

(* The path stays with the base.                                            *)
LEMMA EntersStill ==
  ASSUME NEW p, Enters(p), mod' = mod, path' = path
  PROVE  Enters(p)'
  BY DEF Enters

(* What is so where an item is given to the heap, and where it goes.        *)
LEMMA ItemGoes ==
  ASSUME H!TypeOK, HN!BaseFollows, Initialisers, TripInv,
         NEW n \in Nat, n + 1 \in 1 .. Len(mod.items), Filled(n), Stays(n),
         NEW k, k = n + 1, NEW i, i = mod.items[k], i.typ \notin {6, 7},
         NEW a, a = H!Dest(i.off), NEW o, o = H!FreePtr
  PROVE  /\ k \in 1 .. Len(mod.items) /\ a = Spot(mod.items, k) /\ o = Place(mod.items, k)
         /\ a \in Nat /\ o \in Nat /\ Extent(i) \in Nat \ {0} /\ a + Extent(i) <= o
         /\ i \in Items /\ i.payload \in Octets
         /\ Arrived(n) /\ Enters(Opened(mod.items)[k])
         /\ Opened(mod.items)[k + 1] = Opened(mod.items)[k]
<1> DEFINE its == mod.items
<1>1. Len(its) \in Nat /\ k \in 1 .. Len(its) /\ k \in 1 .. Len(its) + 1 /\ k - 1 = n
  BY InitialisersFollowed
<1>2. PICK p : p = Opened(its)[k]
  OBVIOUS
<1>3. PICK q : q = Opened(its)[k + 1]
  OBVIOUS
<1>4. PICK f : f = Where(its, p)
  OBVIOUS
<1>5. Follow(p) /\ heapStart = Used(its)[n]
  BY <1>2 DEF Filled
<1>6. Enters(p) /\ Arrived(n)
  BY <1>2 DEF Stays
<1>7. i.off \in Nat /\ i \in Items /\ i.payload \in Octets /\ Asked(n, i, p, q)
  BY <1>1, <1>2, <1>3, ItemFacts
<1>8. a = Spot(its, k)
  <2>1. H!Dest(i.off) = f + i.off
    BY <1>1, <1>2, <1>4, <1>5, <1>6, <1>7, Entered
  <2> QED BY <1>2, <1>4, <2>1 DEF Spot
<1>9. a \in Nat /\ Extent(i) \in Nat \ {0} /\ a + Extent(i) <= Place(its, k)
  BY <1>1, <1>2, <1>4, <1>8, Regions
<1>10. o = Place(its, k) /\ o \in Nat
  <2>1. Place(its, k) \in Nat
    BY <1>1, PlaceNext
  <2> QED BY <1>1, <1>5, <2>1 DEF Place, H!FreePtr
<1>11. q = p
  BY <1>7, Zenon DEF Asked
<1> QED BY <1>1, <1>2, <1>3, <1>6, <1>7, <1>8, <1>9, <1>10, <1>11

(* Numbers arrive.                                                          *)
LEMMA NumbersArrive ==
  ASSUME H!TypeOK, HN!BaseFollows, Initialisers, TripInv, mod' = mod, heapStatus' = "ok",
         NEW n \in Nat, n + 1 \in 1 .. Len(mod.items), Filled(n), Stays(n),
         NEW i, i = mod.items[n + 1], Scalars(i.typ, i.count, i.off, i.payload)
  PROVE  Stays(n + 1)'
<1> DEFINE its == mod.items
           w == ScalarWidth[i.typ] * i.count
           bytes == Native(ScalarWidth[i.typ], i.payload)
<1>1. PICK k : k = n + 1
  OBVIOUS
<1>2. PICK a : a = H!Dest(i.off)
  OBVIOUS
<1>3. PICK o : o = H!FreePtr
  OBVIOUS
<1>4. /\ i.typ \in DOMAIN ScalarWidth /\ H!LoadScalars(ScalarWidth[i.typ], i.count, i.off)
      /\ Remember(Stored(memory, a, bytes))
  BY <1>2 DEF Scalars
<1>5. i.typ \in {1, 2, 4, 8}
  BY <1>4, WidthOf
<1>6. /\ k \in 1 .. Len(its) /\ a = Spot(its, k) /\ o = Place(its, k)
      /\ a \in Nat /\ o \in Nat /\ Extent(i) \in Nat \ {0} /\ a + Extent(i) <= o
      /\ i \in Items /\ i.payload \in Octets
      /\ Arrived(n) /\ Enters(Opened(its)[k])
      /\ Opened(its)[k + 1] = Opened(its)[k]
  <2>1. i.typ \notin {6, 7} /\ i = its[k]
    BY <1>1, <1>5
  <2> QED BY <1>1, <1>2, <1>3, <2>1, ItemGoes
<1>7. i.count \in Nat /\ Len(i.payload) = w
  <2>1. i.count \in Nat
    BY <1>6 DEF Items, Count
  <2>2. ItemFits(i, Layout)
    <3>1. PICK p : p = Opened(its)[k]
      OBVIOUS
    <3>2. PICK q : q = Opened(its)[k + 1]
      OBVIOUS
    <3>3. Asked(k - 1, i, p, q)
      BY <1>1, <1>6, <3>1, <3>2, ItemFacts
    <3> QED BY <3>3, Zenon DEF Asked
  <2> QED BY <1>4, <2>1, <2>2, NumberBytes DEF ItemFits
<1>8. Extent(i) = w
  BY <1>5, <1>7 DEF Extent
<1>9. bytes \in Octets /\ Len(bytes) = w
  <2>1. ScalarWidth[i.typ] \in {1, 4, 8}
    BY <1>4, <1>7, NumberBytes
  <2> QED BY <1>6, <1>7, <2>1, NativeType
<1>10. memory' = Stored(memory, a, bytes)
  BY <1>4 DEF Remember
<1>11. path' = path /\ objects' = objects /\ slots' = H!Erase(slots, a, w)
  <2> DEFINE s == IF H!InBounds(i.off, heapStart) THEN H!Outcome(a, w, objects) ELSE "panic"
  <2>1. /\ path' = path /\ objects' = objects
        /\ \E places : heapStatus' \in H!Ends(s, places)
        /\ slots' = IF s = "ok" THEN H!Erase(slots, a, w) ELSE slots
    BY <1>2, <1>4 DEF H!LoadScalars
  <2>2. s = "ok"
    BY <2>1, OnlyAllowed
  <2> HIDE DEF s, w
  <2> QED BY <2>1, <2>2
<1> HIDE DEF w, bytes
<1>12. \A x \in Nat : ByteOf(memory', x) = IF x \in a .. a + Extent(i) - 1 THEN bytes[x - a + 1]
                                          ELSE ByteOf(memory, x)
  <2> TAKE x \in Nat
  <2>1. ByteOf(Stored(memory, a, bytes), x) =
          IF x \in a .. a + Len(bytes) - 1 THEN bytes[x - a + 1] ELSE ByteOf(memory, x)
    <3>1. a \in Nat /\ bytes \in Octets
      BY <1>6, <1>9
    <3> QED BY <3>1, ByteStored, Zenon
  <2> QED BY <1>8, <1>9, <1>10, <2>1
<1>13. \A l \in 1 .. n : There(its, l, memory', slots', objects')
  <2>1. \A x \in Nat : x < o /\ x \notin a .. a + Extent(i) - 1 => ByteOf(memory', x) = ByteOf(memory, x)
    BY <1>12
  <2>2. \A s \in slots : s.at + 4 <= o /\ (s.at + 4 <= a \/ a + Extent(i) <= s.at) => s \in slots'
    <3>1. \A s \in slots : s.at \in Nat
      BY DEF H!TypeOK
    <3> QED BY <1>6, <1>8, <1>11, <3>1 DEF H!Erase, H!Overlap, H!PtrSize
  <2>3. \A s \in slots' : s \in slots
    BY <1>11 DEF H!Erase
  <2>4. its[k].typ \notin {6, 7} /\ i = its[k]
    BY <1>1, <1>5
  <2>5. objects \subseteq objects'
    BY <1>11
  <2> QED BY <1>1, <1>6, <2>1, <2>2, <2>3, <2>4, <2>5, EarlierStay
<1>14. There(its, k, memory', slots', objects')
  <2>1. ASSUME NEW b \in 1 .. Len(i.payload)
        PROVE  ByteOf(memory', a + b - 1) = bytes[b]
    <3>1. a + b - 1 \in Nat /\ a + b - 1 \in a .. a + Extent(i) - 1 /\ (a + b - 1) - a + 1 = b
      BY <1>6, <1>7, <1>8
    <3> QED BY <1>12, <3>1
  <2>2. i = its[k] /\ i.typ # 3 /\ i.typ # 5
    BY <1>1, <1>5
  <2> QED BY <1>6, <2>1, <2>2 DEF There, bytes
<1>15. Arrived(n + 1)'
  BY <1>1, <1>13, <1>14, ArrivedThen
<1>16. Enters(Opened(its)[k + 1])'
  <2>1. PICK q : q = Opened(its)[k + 1]
    OBVIOUS
  <2>2. Enters(q)'
    BY <1>6, <1>11, <2>1, EntersStill
  <2> QED BY <2>1, <2>2 DEF Enters
<1> QED BY <1>1, <1>15, <1>16 DEF Stays, Enters

(* A pointer stored at an address is the one pointer there.                 *)
LEMMA PointsThere ==
  ASSUME NEW ss, NEW a \in Nat, NEW x, \A s \in ss : s.at \in Nat
  PROVE  /\ Points(H!StorePtr(ss, a, x), a, x)
         /\ \A s \in H!StorePtr(ss, a, x) : s \in ss \/ s.at = a
         /\ \A s \in ss : s.at + 4 <= a \/ a + 4 <= s.at => s \in H!StorePtr(ss, a, x)
<1> DEFINE new == [at |-> a, ptr |-> x]
           kept == H!Erase(ss, a, H!PtrSize)
<1>1. H!StorePtr(ss, a, x) = kept \cup {new}
  BY DEF H!StorePtr
<1>2. /\ \A s \in kept : s \in ss /\ s.at # a
      /\ \A s \in ss : s.at + 4 <= a \/ a + 4 <= s.at => s \in kept
  BY DEF H!Erase, H!Overlap, H!PtrSize
<1>3. new.at = a /\ new.ptr = x
  OBVIOUS
<1> HIDE DEF kept
<1>4. \A s \in kept \cup {new} : s.at = a => s.ptr = x
  BY <1>2, <1>3
<1>5. new \in kept \cup {new}
  OBVIOUS
<1> QED BY <1>1, <1>2, <1>3, <1>4, <1>5 DEF Points

(* Strings arrive.                                                          *)
LEMMA StringArrives ==
  ASSUME H!TypeOK, HN!BaseFollows, Initialisers, TripInv, mod' = mod, heapStatus' = "ok",
         NEW n \in Nat, n + 1 \in 1 .. Len(mod.items), Filled(n), Stays(n),
         NEW i, i = mod.items[n + 1], String(i.typ, i.off, i.payload)
  PROVE  Stays(n + 1)'
<1> DEFINE its == mod.items
           str == Lossy(i.payload)
           len == Len(str)
<1>1. PICK k : k = n + 1
  OBVIOUS
<1>2. PICK a : a = H!Dest(i.off)
  OBVIOUS
<1>3. PICK o : o = H!FreePtr
  OBVIOUS
<1> DEFINE new == H!StringObject(o, len)
           w == H!EndOf(new) - o
           taken == Taken(memory, o, 40)
           filled == Stored(taken, o + 40, str)
<1>4. /\ i.typ = 3 /\ H!LoadString(len, i.off) /\ Remember(Taken(filled, a, 4))
  BY <1>2, <1>3 DEF String, H!ObjectHeader, H!StringHeader, H!PtrSize
<1>5. /\ k \in 1 .. Len(its) /\ a = Spot(its, k) /\ o = Place(its, k)
      /\ a \in Nat /\ o \in Nat /\ Extent(i) \in Nat \ {0} /\ a + Extent(i) <= o
      /\ i \in Items /\ i.payload \in Octets
      /\ Arrived(n) /\ Enters(Opened(its)[k])
      /\ Opened(its)[k + 1] = Opened(its)[k]
  <2>1. i.typ \notin {6, 7} /\ i = its[k]
    BY <1>1, <1>4
  <2> QED BY <1>1, <1>2, <1>3, <2>1, ItemGoes
<1>6. str \in Octets /\ len \in Nat /\ Extent(i) = 4 /\ a + 4 <= o
  BY <1>4, <1>5, LossyType DEF Extent, H!PtrSize
<1>7. new.at = o /\ new.n = 16 + len /\ w = 40 + len /\ H!Payload(new) = o + 24
  <2>1. new.at = o /\ new.n = 16 + len
    BY DEF H!StringObject, H!StringHeader
  <2> HIDE DEF new, len
  <2> QED BY <1>5, <1>6, <2>1 DEF H!EndOf, H!Payload, H!ObjectHeader
<1>8. /\ path' = path /\ objects' = objects \cup {new}
      /\ slots' = H!StorePtr(H!Erase(slots, o, w), a, o + 24)
  <2>1. /\ path' = path /\ heapStatus' \in H!Ends(H!StringEnd(new, i.off), H!Stores(new, i.off))
        /\ H!StringEnd(new, i.off) = "ok" =>
             /\ objects' = objects \cup {new}
             /\ slots' = H!StorePtr(H!Erase(slots, new.at, H!EndOf(new) - new.at), a, H!Payload(new))
    BY <1>2, <1>3, <1>4 DEF H!LoadString
  <2>2. H!StringEnd(new, i.off) = "ok"
    BY <2>1, OnlyAllowed
  <2> HIDE DEF new
  <2> QED BY <1>7, <2>1, <2>2
<1>9. memory' = Taken(filled, a, 4)
  BY <1>4 DEF Remember
<1> HIDE DEF str, len, new, w
<1>10. \A x \in Nat : x \notin a .. a + 4 - 1 => ByteOf(memory', x) = ByteOf(filled, x)
  BY <1>5, <1>9, ByteTaken
<1>11. \A x \in Nat : ByteOf(filled, x) = IF x \in o + 40 .. o + 40 + len - 1 THEN str[x - (o + 40) + 1]
                                         ELSE ByteOf(taken, x)
  <2> TAKE x \in Nat
  <2>1. o + 40 \in Nat /\ len = Len(str)
    BY <1>5 DEF len
  <2> HIDE DEF taken
  <2> QED BY <1>6, <2>1, ByteStored
<1>12. \A x \in Nat : x < o => ByteOf(taken, x) = ByteOf(memory, x)
  <2> TAKE x \in Nat
  <2> HAVE x < o
  <2>1. x \notin o .. o + 40 - 1
    BY <1>5
  <2> QED BY <1>5, <2>1, ByteTaken
<1> HIDE DEF taken, filled
<1> DEFINE kept == H!Erase(slots, o, w)
<1>13. /\ \A s \in slots : s.at \in Nat
       /\ \A s \in slots : s.at + 4 <= o => s \in kept
       /\ \A s \in kept : s \in slots
  <2>1. \A s \in slots : s.at \in Nat
    BY DEF H!TypeOK
  <2> QED BY <1>5, <2>1 DEF H!Erase, H!Overlap, H!PtrSize
<1> HIDE DEF kept
<1>14. /\ Points(slots', a, o + 24)
       /\ \A s \in slots' : s \in kept \/ s.at = a
       /\ \A s \in kept : s.at + 4 <= a \/ a + 4 <= s.at => s \in slots'
  <2>1. slots' = H!StorePtr(kept, a, o + 24) /\ \A s \in kept : s.at \in Nat
    BY <1>8, <1>13 DEF kept
  <2> DEFINE ss == H!StorePtr(kept, a, o + 24)
  <2>2. /\ Points(ss, a, o + 24)
        /\ \A s \in ss : s \in kept \/ s.at = a
        /\ \A s \in kept : s.at + 4 <= a \/ a + 4 <= s.at => s \in ss
    <3>1. a \in Nat /\ \A s \in kept : s.at \in Nat
      BY <1>5, <2>1
    <3>2. PICK x : x = o + 24
      OBVIOUS
    <3>3. /\ Points(H!StorePtr(kept, a, x), a, x)
          /\ \A s \in H!StorePtr(kept, a, x) : s \in kept \/ s.at = a
          /\ \A s \in kept : s.at + 4 <= a \/ a + 4 <= s.at => s \in H!StorePtr(kept, a, x)
      BY <3>1, PointsThere
    <3> QED BY <3>2, <3>3
  <2> HIDE DEF ss
  <2>3. slots' = ss
    BY <2>1 DEF ss
  <2> QED BY <2>2, <2>3
<1>15. \A l \in 1 .. n : There(its, l, memory', slots', objects')
  <2>1. \A x \in Nat : x < o /\ x \notin a .. a + Extent(i) - 1 => ByteOf(memory', x) = ByteOf(memory, x)
    BY <1>5, <1>6, <1>10, <1>11, <1>12
  <2>2. \A s \in slots : s.at + 4 <= o /\ (s.at + 4 <= a \/ a + Extent(i) <= s.at) => s \in slots'
    BY <1>6, <1>13, <1>14
  <2>3. \A s \in slots' : s \in slots \/ s.at = a
    BY <1>13, <1>14
  <2>4. its[k].typ \notin {6, 7} /\ i = its[k]
    BY <1>1, <1>4
  <2>5. objects \subseteq objects'
    BY <1>8
  <2> QED BY <1>1, <1>5, <2>1, <2>2, <2>3, <2>4, <2>5, EarlierStay
<1>16. There(its, k, memory', slots', objects')
  <2>1. ASSUME NEW b \in 1 .. len
        PROVE  ByteOf(memory', o + Headers + b - 1) = str[b]
    <3>1. PICK x : x = o + 40 + b - 1
      OBVIOUS
    <3>2. /\ x \in Nat /\ x \in o + 40 .. o + 40 + len - 1 /\ x - (o + 40) + 1 = b
          /\ x \notin a .. a + 4 - 1
      <4>1. o \in Nat /\ a \in Nat /\ len \in Nat /\ a + 4 <= o /\ b \in 1 .. len
        BY <1>5, <1>6, <2>1 DEF len
      <4> QED BY <3>1, <4>1
    <3>3. x = o + Headers + b - 1
      BY <1>5, <3>1 DEF Headers, H!ObjectHeader, H!ArrayHeader
    <3> QED BY <1>10, <1>11, <3>2, <3>3
  <2>2. i = its[k] /\ i.typ = 3 /\ i.typ # 5 /\ i.typ \notin DOMAIN ScalarWidth
    BY <1>1, <1>4, WidthOf
  <2>3. H!StringObject(o, Len(Lossy(i.payload))) \in objects'
    BY <1>8 DEF new, len, str
  <2>4. Points(slots', a, o + H!ObjectHeader)
    BY <1>14 DEF H!ObjectHeader
  <2> QED BY <1>5, <2>1, <2>2, <2>3, <2>4 DEF There, str, len
<1>17. Arrived(n + 1)'
  BY <1>1, <1>15, <1>16, ArrivedThen
<1>18. Enters(Opened(its)[k + 1])'
  <2>1. PICK q : q = Opened(its)[k + 1]
    OBVIOUS
  <2>2. Enters(q)'
    BY <1>5, <1>8, <2>1, EntersStill
  <2> QED BY <2>1, <2>2 DEF Enters
<1> QED BY <1>1, <1>17, <1>18 DEF Stays, Enters

(* Arrays arrive.                                                           *)
LEMMA ArrayArrives ==
  ASSUME H!TypeOK, HN!BaseFollows, Initialisers, TripInv, mod' = mod, heapStatus' = "ok",
         NEW n \in Nat, n + 1 \in 1 .. Len(mod.items), Filled(n), Stays(n),
         NEW i, i = mod.items[n + 1], Array(i.typ, i.off, i.payload)
  PROVE  Stays(n + 1)'
<1> DEFINE its == mod.items
           t == ParseWord(i.payload, 0)
           len == ParseWord(i.payload, 4)
<1>1. PICK k : k = n + 1
  OBVIOUS
<1>2. PICK a : a = H!Dest(i.off)
  OBVIOUS
<1>3. PICK o : o = H!FreePtr
  OBVIOUS
<1> DEFINE new == H!ArrayObject(o, t, len)
           taken == Taken(memory, o, 40)
<1>4. i.typ = 5 /\ H!LoadArray(t, len, i.off) /\ Remember(Taken(taken, a, 4))
  BY <1>2, <1>3 DEF Array, H!ObjectHeader, H!ArrayHeader, H!PtrSize
<1>5. /\ k \in 1 .. Len(its) /\ a = Spot(its, k) /\ o = Place(its, k)
      /\ a \in Nat /\ o \in Nat /\ Extent(i) \in Nat \ {0} /\ a + Extent(i) <= o
      /\ i \in Items /\ i.payload \in Octets
      /\ Arrived(n) /\ Enters(Opened(its)[k])
      /\ Opened(its)[k + 1] = Opened(its)[k]
  <2>1. i.typ \notin {6, 7} /\ i = its[k]
    BY <1>1, <1>4
  <2> QED BY <1>1, <1>2, <1>3, <2>1, ItemGoes
<1>6. Extent(i) = 4 /\ a + 4 <= o
  BY <1>4, <1>5 DEF Extent, H!PtrSize
<1>7. new.at = o /\ new.typ = "Tarray" /\ H!Payload(new) = o + 24 /\ H!HeadEnd(new) - o = 40
  <2>1. new.at = o /\ new.typ = "Tarray"
    BY DEF H!ArrayObject
  <2> HIDE DEF new
  <2> QED BY <1>5, <2>1 DEF H!HeadEnd, H!Elements, H!Payload, H!ObjectHeader, H!ArrayHeader
<1>8. /\ path' = path /\ objects' = objects \cup {new}
      /\ slots' = H!StorePtr(H!Erase(slots, o, 40), a, o + 24)
  <2> DEFINE refused == build = "debug" /\ H!Overflows(t, len)
             s == IF refused THEN "panic" ELSE H!ArrayEnd(new, i.off)
  <2>1. /\ path' = path /\ heapStatus' \in H!Ends(s, H!Stores(new, i.off))
        /\ ~refused => objects' = objects \cup {new}
        /\ s = "ok" =>
             slots' = H!StorePtr(H!Erase(slots, new.at, H!HeadEnd(new) - new.at), a, H!Payload(new))
    BY <1>2, <1>3, <1>4 DEF H!LoadArray
  <2>2. s = "ok"
    BY <2>1, OnlyAllowed
  <2>3. ~refused
    BY <2>2
  <2> HIDE DEF new, s, refused
  <2> QED BY <1>7, <2>1, <2>2, <2>3
<1>9. memory' = Taken(taken, a, 4)
  BY <1>4 DEF Remember
<1> HIDE DEF t, len, new
<1>10. \A x \in Nat : x \notin a .. a + 4 - 1 => ByteOf(memory', x) = ByteOf(taken, x)
  BY <1>5, <1>9, ByteTaken
<1>11. \A x \in Nat : x < o => ByteOf(taken, x) = ByteOf(memory, x)
  <2> TAKE x \in Nat
  <2> HAVE x < o
  <2>1. x \notin o .. o + 40 - 1
    BY <1>5
  <2> QED BY <1>5, <2>1, ByteTaken
<1> HIDE DEF taken
<1> DEFINE kept == H!Erase(slots, o, 40)
<1>12. /\ \A s \in slots : s.at \in Nat
       /\ \A s \in slots : s.at + 4 <= o => s \in kept
       /\ \A s \in kept : s \in slots
  <2>1. \A s \in slots : s.at \in Nat
    BY DEF H!TypeOK
  <2> QED BY <1>5, <2>1 DEF H!Erase, H!Overlap, H!PtrSize
<1> HIDE DEF kept
<1>13. /\ Points(slots', a, o + 24)
       /\ \A s \in slots' : s \in kept \/ s.at = a
       /\ \A s \in kept : s.at + 4 <= a \/ a + 4 <= s.at => s \in slots'
  <2>1. slots' = H!StorePtr(kept, a, o + 24) /\ \A s \in kept : s.at \in Nat
    BY <1>8, <1>12 DEF kept
  <2> DEFINE ss == H!StorePtr(kept, a, o + 24)
  <2>2. /\ Points(ss, a, o + 24)
        /\ \A s \in ss : s \in kept \/ s.at = a
        /\ \A s \in kept : s.at + 4 <= a \/ a + 4 <= s.at => s \in ss
    <3>1. a \in Nat /\ \A s \in kept : s.at \in Nat
      BY <1>5, <2>1
    <3>2. PICK x : x = o + 24
      OBVIOUS
    <3>3. /\ Points(H!StorePtr(kept, a, x), a, x)
          /\ \A s \in H!StorePtr(kept, a, x) : s \in kept \/ s.at = a
          /\ \A s \in kept : s.at + 4 <= a \/ a + 4 <= s.at => s \in H!StorePtr(kept, a, x)
      BY <3>1, PointsThere
    <3> QED BY <3>2, <3>3
  <2> HIDE DEF ss
  <2>3. slots' = ss
    BY <2>1 DEF ss
  <2> QED BY <2>2, <2>3
<1>14. \A l \in 1 .. n : There(its, l, memory', slots', objects')
  <2>1. \A x \in Nat : x < o /\ x \notin a .. a + Extent(i) - 1 => ByteOf(memory', x) = ByteOf(memory, x)
    BY <1>6, <1>10, <1>11
  <2>2. \A s \in slots : s.at + 4 <= o /\ (s.at + 4 <= a \/ a + Extent(i) <= s.at) => s \in slots'
    BY <1>6, <1>12, <1>13
  <2>3. \A s \in slots' : s \in slots \/ s.at = a
    BY <1>12, <1>13
  <2>4. its[k].typ \notin {6, 7} /\ i = its[k]
    BY <1>1, <1>4
  <2>5. objects \subseteq objects'
    BY <1>8
  <2> QED BY <1>1, <1>5, <2>1, <2>2, <2>3, <2>4, <2>5, EarlierStay
<1>15. There(its, k, memory', slots', objects')
  <2>1. i = its[k] /\ i.typ = 5 /\ i.typ # 3 /\ i.typ \notin DOMAIN ScalarWidth
    BY <1>1, <1>4, WidthOf
  <2>2. H!ArrayObject(o, ParseWord(i.payload, 0), ParseWord(i.payload, 4)) \in objects'
    BY <1>8 DEF new, t, len
  <2>3. Points(slots', a, o + H!ObjectHeader)
    BY <1>13 DEF H!ObjectHeader
  <2> QED BY <1>5, <2>1, <2>2, <2>3 DEF There
<1>16. Arrived(n + 1)'
  BY <1>1, <1>14, <1>15, ArrivedThen
<1>17. Enters(Opened(its)[k + 1])'
  <2>1. PICK q : q = Opened(its)[k + 1]
    OBVIOUS
  <2>2. Enters(q)'
    BY <1>5, <1>8, <2>1, EntersStill
  <2> QED BY <2>1, <2>2 DEF Enters
<1> QED BY <1>1, <1>16, <1>17 DEF Stays, Enters

(* Items that store nothing leave what was stored.                          *)
LEMMA QuietArrives ==
  ASSUME NEW n \in Nat, Arrived(n), mod' = mod, UNCHANGED <<memory, slots, objects>>,
         NEW k, k = n + 1, mod.items[k].typ \in {6, 7}
  PROVE  Arrived(n + 1)'
<1>1. There(mod.items, k, memory', slots', objects')
  <2>1. mod.items[k].typ \notin DOMAIN ScalarWidth /\ mod.items[k].typ # 3 /\ mod.items[k].typ # 5
    BY WidthOf
  <2> QED BY <2>1 DEF There
<1>2. \A l \in 1 .. n : There(mod.items, l, memory', slots', objects')
  BY DEF Arrived
<1> QED BY <1>1, <1>2, ArrivedThen

(* The beginnings of a path do not change with what is behind them.         *)
LEMMA Beginnings ==
  ASSUME NEW S, NEW p \in Seq(S), NEW q \in Seq(S), Len(p) <= Len(q),
         \A k \in 1 .. Len(p) : p[k] = q[k], NEW m \in 1 .. Len(p)
  PROVE  SubSeq(q, 1, m) = SubSeq(p, 1, m)
<1>1. Len(p) \in Nat /\ Len(q) \in Nat /\ m \in Nat
  BY LenProperties
<1> DEFINE s == SubSeq(p, 1, m)
           u == SubSeq(q, 1, m)
<1>2. /\ s \in Seq(S) /\ Len(s) = m /\ \A k \in 1 .. m : s[k] = p[k]
      /\ u \in Seq(S) /\ Len(u) = m /\ \A k \in 1 .. m : u[k] = q[k]
  BY <1>1
<1> HIDE DEF s, u
<1>3. s \in Seq(S) /\ u \in Seq(S) /\ Len(u) = Len(s) /\ \A k \in 1 .. Len(s) : u[k] = s[k]
  BY <1>1, <1>2
<1>4. u = s
  BY <1>3, SeqEqual
<1> QED BY <1>4 DEF s, u

(* An index goes by the pointer of the array before it.                     *)
LEMMA IndexArrives ==
  ASSUME H!TypeOK, HN!BaseFollows, Initialisers, TripInv, mod' = mod, heapStatus' = "ok",
         NEW n \in Nat, n + 1 \in 1 .. Len(mod.items), Filled(n), Stays(n),
         NEW i, i = mod.items[n + 1], Index(i.typ, i.off, i.payload)
  PROVE  Stays(n + 1)'
<1> DEFINE its == mod.items
<1>1. PICK k : k = n + 1
  OBVIOUS
<1>2. PICK p : p = Opened(its)[k]
  OBVIOUS
<1>3. PICK q : q = Opened(its)[k + 1]
  OBVIOUS
<1>4. PICK f : f = Where(its, p)
  OBVIOUS
<1>5. PICK a : a = H!Dest(i.off)
  OBVIOUS
<1>6. i.typ = 6 /\ i = its[k] /\ H!SetIndex(ParseWord(i.payload, 0), i.off) /\ memory' = memory
  BY <1>1 DEF Index
<1>7. k \in 1 .. Len(its) /\ k \in 1 .. Len(its) + 1 /\ k - 1 = n
  BY <1>1, InitialisersFollowed
<1>8. /\ Opens(its, n, q) /\ p = Opened(its)[n] /\ \E r \in Openings : q = Append(p, r)
  BY <1>2, <1>3, <1>6, <1>7, IndexOpens
<1>9. n \in 1 .. Len(its) /\ its[n].typ = 5
  BY <1>8 DEF Opens
<1>10. i.off = its[n].off /\ i.off \in Nat
  <2>1. Asked(k - 1, i, p, q) /\ i.off \in Nat
    BY <1>2, <1>3, <1>6, <1>7, ItemFacts
  <2> QED BY <1>6, <1>7, <2>1 DEF Asked
<1>11. Follow(p) /\ Enters(p) /\ Arrived(n)
  BY <1>1, <1>2 DEF Filled, Stays
<1>12. a = Spot(its, n) /\ a \in Nat
  <2>1. a = f + i.off
    BY <1>2, <1>4, <1>5, <1>7, <1>10, <1>11, Entered
  <2>2. Spot(its, n) \in Nat
    <3>1. its[n].typ \notin {6, 7}
      BY <1>9
    <3> QED BY <1>4, <1>8, <1>9, <3>1, Regions
  <2> QED BY <1>4, <1>8, <1>10, <2>1, <2>2 DEF Spot
<1>13. H!PointerAt(a) = Place(its, n) + H!ObjectHeader
  <2>1. Points(slots, a, Place(its, n) + H!ObjectHeader)
    BY <1>9, <1>11, <1>12 DEF Arrived, There
  <2> QED BY <2>1 DEF Points, H!PointerAt
<1>14. /\ path' = Append(path, Place(its, n) + H!ObjectHeader) /\ UNCHANGED <<slots, objects>>
  BY <1>5, <1>6, <1>13 DEF H!SetIndex
<1>15. /\ p \in Seq(Openings) /\ Len(path) = Len(p) /\ Len(p) \in Nat
       /\ path \in Seq(Nat \cup {H!VM_NULLPTR})
  BY <1>11, LenProperties DEF Follow, H!TypeOK
<1>16. /\ q \in Seq(Openings) /\ Len(q) = Len(p) + 1 /\ \A m \in 1 .. Len(p) : p[m] = q[m]
  BY <1>8, <1>15, AppendProperties
<1>17. Opener(its, q) = n
  BY <1>8, OpenerIs
<1>18. ASSUME NEW m \in 1 .. Len(q)
       PROVE  path'[m] = Place(its, Opener(its, SubSeq(q, 1, m))) + H!ObjectHeader
  <2>1. CASE m \in 1 .. Len(p)
    <3>1. SubSeq(q, 1, m) = SubSeq(p, 1, m)
      <4>1. Len(p) <= Len(q)
        BY <1>15, <1>16
      <4> QED BY <1>15, <1>16, <2>1, <4>1, Beginnings
    <3>2. path'[m] = path[m]
      BY <1>14, <1>15, <2>1
    <3>3. path[m] = Place(its, Opener(its, SubSeq(p, 1, m))) + H!ObjectHeader
      BY <1>11, <2>1 DEF Enters
    <3> QED BY <3>1, <3>2, <3>3
  <2>2. CASE m = Len(p) + 1
    <3>1. SubSeq(q, 1, m) = q
      <4> DEFINE s == SubSeq(q, 1, m)
      <4>1. s \in Seq(Openings) /\ Len(s) = Len(q) /\ \A j \in 1 .. Len(q) : s[j] = q[j]
        BY <1>15, <1>16, <2>2
      <4> HIDE DEF s
      <4>2. s = q
        BY <1>16, <4>1, SeqEqual
      <4> QED BY <4>2 DEF s
    <3>2. path'[m] = Place(its, n) + H!ObjectHeader
      BY <1>14, <1>15, <2>2
    <3> QED BY <1>17, <3>1, <3>2
  <2> QED BY <1>15, <1>16, <2>1, <2>2
<1>19. Enters(q)'
  BY <1>18 DEF Enters
<1>20. Arrived(n + 1)'
  <2>1. its[k].typ \in {6, 7}
    BY <1>6
  <2> QED BY <1>1, <1>6, <1>11, <1>14, <2>1, QuietArrives
<1> QED BY <1>1, <1>3, <1>19, <1>20 DEF Stays, Enters

(* Bases restored.                                                          *)
LEMMA RestoreArrives ==
  ASSUME H!TypeOK, HN!BaseFollows, Initialisers, TripInv, mod' = mod, heapStatus' = "ok",
         NEW n \in Nat, n + 1 \in 1 .. Len(mod.items), Filled(n), Stays(n),
         NEW i, i = mod.items[n + 1], RestoreBase(i.typ)
  PROVE  Stays(n + 1)'
<1> DEFINE its == mod.items
<1>1. PICK k : k = n + 1
  OBVIOUS
<1>2. PICK p : p = Opened(its)[k]
  OBVIOUS
<1>3. PICK q : q = Opened(its)[k + 1]
  OBVIOUS
<1>4. i.typ = 7 /\ i = its[k] /\ H!Restore /\ memory' = memory
  BY <1>1 DEF RestoreBase
<1>5. k \in 1 .. Len(its) /\ k - 1 = n
  BY <1>1, InitialisersFollowed
<1>6. Follow(p) /\ Enters(p) /\ Arrived(n)
  BY <1>1, <1>2 DEF Filled, Stays
<1>7. p # <<>> /\ q = Front(p)
  <2>1. Asked(k - 1, i, p, q)
    BY <1>2, <1>3, <1>4, <1>5, ItemFacts
  <2> QED BY <1>4, <2>1, Zenon DEF Asked
<1>8. /\ p \in Seq(Openings) /\ Len(path) = Len(p) /\ Len(p) \in Nat \ {0}
      /\ path \in Seq(Nat \cup {H!VM_NULLPTR})
  <2>1. /\ p \in Seq(Openings) /\ Len(path) = Len(p) /\ Len(p) \in Nat
        /\ path \in Seq(Nat \cup {H!VM_NULLPTR})
    BY <1>6, LenProperties DEF Follow, H!TypeOK
  <2> QED BY <1>7, <2>1, EmptySeq
<1>9. path' = SubSeq(path, 1, Len(path) - 1) /\ UNCHANGED <<slots, objects>>
  <2>1. arrayStack # <<>>
    <3>1. Len(arrayStack) = Len(p)
      BY <1>6 DEF Follow
    <3> QED BY <1>8, <3>1, EmptySeq
  <2> QED BY <1>4, <2>1 DEF H!Restore
<1>10. /\ q \in Seq(Openings) /\ Len(q) = Len(p) - 1 /\ \A m \in 1 .. Len(q) : q[m] = p[m]
  BY <1>7, <1>8 DEF Front
<1>11. ASSUME NEW m \in 1 .. Len(q)
       PROVE  path'[m] = Place(its, Opener(its, SubSeq(q, 1, m))) + H!ObjectHeader
  <2>1. Len(q) <= Len(p) /\ m \in 1 .. Len(p)
    BY <1>8, <1>10
  <2>2. SubSeq(p, 1, m) = SubSeq(q, 1, m)
    BY <1>8, <1>10, <2>1, Beginnings
  <2>3. path'[m] = path[m]
    BY <1>8, <1>9, <1>10
  <2>4. path[m] = Place(its, Opener(its, SubSeq(p, 1, m))) + H!ObjectHeader
    BY <1>6, <2>1 DEF Enters
  <2> QED BY <2>2, <2>3, <2>4
<1>12. Enters(q)'
  BY <1>11 DEF Enters
<1>13. Arrived(n + 1)'
  <2>1. its[k].typ \in {6, 7}
    BY <1>4
  <2> QED BY <1>1, <1>4, <1>6, <1>9, <2>1, QuietArrives
<1> QED BY <1>1, <1>3, <1>12, <1>13 DEF Stays, Enters

(* Every item arrives.                                                      *)
LEMMA ItemArrives ==
  ASSUME H!TypeOK, HN!BaseFollows, Initialisers, TripInv, FillsRightly, DataStays, LoadItem
  PROVE  DataStays'
<1>1. At("data") /\ (Has(offset, 1) => Byte(offset) # 0)
  BY DEF LoadItem
<1>2. /\ heapStatus = "ok" /\ stage = "items" /\ Filled(items) /\ AtItem(items) /\ items \in Nat
      /\ Stays(items)
  BY <1>1 DEF FillsRightly, H!TypeOK, DataStays
<1>3. PICK n \in Nat : n = items
  BY <1>2
<1>4. PICK i : i = mod.items[n + 1]
  OBVIOUS
<1>5. n + 1 \in 1 .. Len(mod.items) /\ HeapItem(i.typ, i.count, i.off, i.payload) /\ Then(ReadItem)
  <2>1. AtItem(n)
    BY <1>2, <1>3
  <2> QED BY <1>4, <2>1, ItemGiven
<1>6. mod' = mod
  BY <1>5 DEF Then, ReadItem, HeapStops, Move, Panic, cursor
<1>7. stage' = "items" /\ items' = n + 1
  <2>1. H!Turn \/ H!Item => stage' = stage /\ items' = items + 1
    BY DEF H!Item, H!Turn, H!Hosted, H!Call
  <2>2. H!Turn \/ H!Item
    BY <1>5 DEF HeapItem, Scalars, String, Array, Index, RestoreBase, H!LoadScalars, H!LoadString,
       H!LoadArray, H!SetIndex, H!Restore
  <2> QED BY <1>2, <1>3, <2>1, <2>2
<1>8. ASSUME heapStatus' = "ok" PROVE Stays(n + 1)'
  <2>1. Filled(n) /\ Stays(n)
    BY <1>2, <1>3
  <2>2. CASE Scalars(i.typ, i.count, i.off, i.payload)
    BY <1>4, <1>5, <1>6, <1>8, <2>1, <2>2, NumbersArrive
  <2>3. CASE String(i.typ, i.off, i.payload)
    BY <1>4, <1>5, <1>6, <1>8, <2>1, <2>3, StringArrives
  <2>4. CASE Array(i.typ, i.off, i.payload)
    BY <1>4, <1>5, <1>6, <1>8, <2>1, <2>4, ArrayArrives
  <2>5. CASE Index(i.typ, i.off, i.payload)
    BY <1>4, <1>5, <1>6, <1>8, <2>1, <2>5, IndexArrives
  <2>6. CASE RestoreBase(i.typ)
    BY <1>4, <1>5, <1>6, <1>8, <2>1, <2>6, RestoreArrives
  <2> QED BY <1>5, <2>2, <2>3, <2>4, <2>5, <2>6 DEF HeapItem
<1> QED BY <1>7, <1>8 DEF DataStays, Stays, Enters, Arrived

(* What was stored stays, whatever the loader does next.                    *)
LEMMA StepArrives ==
  ASSUME H!TypeOK, HN!BaseFollows, Initialisers, TripInv, FillsRightly, DataStays,
         [LoadedNext]_loadedVars
  PROVE  DataStays'
<1>1. CASE LoadItem
  BY <1>1, ItemArrives
<1>2. CASE EndItems
  <2>1. items = Len(mod.items) /\ path = <<>>
    BY <1>2, EndIsLast
  <2>2. /\ stage = "items" /\ heapStatus = "ok" /\ stage' = "probe"
        /\ UNCHANGED <<mod, memory, slots, objects, path>>
    BY <1>2 DEF EndItems, H!EndItems, H!heapVars, H!auxVars, vars
  <2> QED BY <2>1, <2>2 DEF DataStays, Stays, Arrived
<1>3. CASE ProbeHeap
  <2>1. H!Probe /\ Then(EndData) /\ memory' = memory
    BY <1>3 DEF ProbeHeap
  <2>2. mod' = mod
    BY <2>1 DEF Then, EndData, HeapStops, Move, cursor
  <2>3. stage = "probe" /\ stage' = "done" /\ UNCHANGED <<slots, objects, path>>
    BY <2>1 DEF H!Probe, H!heapVars, H!auxVars
  <2> QED BY <2>1, <2>2, <2>3 DEF DataStays, Arrived
<1>4. CASE Elsewhere \/ UNCHANGED loadedVars
  <2>1. UNCHANGED <<mod, memory, slots, objects, path, stage, heapStatus, items>>
    BY <1>4, ParseGoesOn DEF Elsewhere, loadedVars, heapVars, vars
  <2> QED BY <2>1 DEF DataStays, Stays, Enters, Arrived
<1> QED BY <1>1, <1>2, <1>3, <1>4 DEF LoadedNext

(* Before the first item nothing is to be there.                            *)
LEMMA NothingArrived ==
  ASSUME LoadedInit
  PROVE  DataStays
<1>1. mod \in Modules /\ H!Init
  BY DEF LoadedInit
<1>2. stage = "items" /\ items = 0
  BY <1>1 DEF H!Init
<1>3. Len(mod.items) \in Nat
  BY <1>1, ModuleWritten, ModuleTypes, LenProperties
<1>4. Opened(mod.items)[0 + 1] = <<>>
  BY <1>3, OpenedUnfold
<1>5. Enters(<<>>)
  BY DEF Enters
<1> QED BY <1>2, <1>4, <1>5 DEF DataStays, Stays, Arrived

(* Text of ASCII characters only is stored as it is.                        *)
LEMMA LossyOfAscii ==
  ASSUME NEW bytes \in Octets, \A k \in 1 .. Len(bytes) : bytes[k] < 128
  PROVE  /\ Len(Lossy(bytes)) = Len(bytes)
         /\ \A k \in 1 .. Len(bytes) : Lossy(bytes)[k] = bytes[k]
<1> DEFINE n == Len(bytes)
           s == [k \in 1 .. n |->
                   IF bytes[k] < 128 \/ Pair(bytes, k) \/ Pair(bytes, k - 1) THEN <<bytes[k]>>
                   ELSE Replacement]
           From(k) == FlatFrom(s, k)
           Same(k) == Len(From(k)) = n - k /\ \A p \in 1 .. n - k : From(k)[p] = bytes[k + p]
<1>1. n \in Nat /\ \A k \in 1 .. n : bytes[k] \in Octet
  BY DEF Octets
<1>2. \A b \in Octet : <<b>> \in Octets /\ Len(<<b>>) = 1 /\ <<b>>[1] = b
  BY OneOctet
<1>3. \A k \in 1 .. n : s[k] = <<bytes[k]>>
  OBVIOUS
<1>4. s \in Seq(Octets) /\ Len(s) = n
  <2>1. s = [k \in 1 .. n |-> s[k]] /\ \A k \in 1 .. n : s[k] \in Octets
    BY <1>1, <1>2, <1>3
  <2> HIDE DEF s, n
  <2> QED BY <1>1, <2>1
<1>5. Lossy(bytes) = FlattenSeq(s)
  BY DEF Lossy
<1> HIDE DEF s, n
<1>6. /\ \A k \in 0 .. n : From(k) \in Octets
      /\ \A k \in 0 .. n - 1 : s[k + 1] \in Octets /\ From(k) = s[k + 1] \o From(k + 1)
      /\ From(n) = <<>> /\ From(0) = FlattenSeq(s)
  BY <1>4, FlatFromFacts
<1> HIDE DEF From
<1>6a. \A k \in 0 .. n - 1 : k + 1 \in 1 .. n /\ k + 1 \in 0 .. n /\ k \in 0 .. n
  BY <1>1
<1>7. Same(n)
  BY <1>1, <1>6
<1>8. ASSUME NEW k \in 0 .. n - 1, Same(k + 1) PROVE Same(k)
  <2> DEFINE t == From(k + 1)
             u == s[k + 1]
             r == From(k)
  <2>1. k + 1 \in 1 .. n /\ k + 1 \in 0 .. n /\ k \in 0 .. n
    BY <1>6a
  <2>2. u \in Octets /\ t \in Octets /\ r = u \o t /\ u = <<bytes[k + 1]>>
    BY <1>3, <1>6, <2>1
  <2>3. Len(u) = 1 /\ u[1] = bytes[k + 1]
    BY <1>1, <1>2, <2>1, <2>2
  <2>4. Len(t) = n - (k + 1) /\ \A p \in 1 .. n - (k + 1) : t[p] = bytes[k + 1 + p]
    BY <1>8
  <2> HIDE DEF t, u, r
  <2>5. /\ Len(r) = Len(u) + Len(t)
        /\ \A p \in 1 .. Len(u) : r[p] = u[p]
        /\ \A p \in 1 .. Len(t) : r[Len(u) + p] = t[p]
    BY <2>2, OctetsConcat
  <2>6. Len(r) = n - k
    BY <1>1, <2>1, <2>3, <2>4, <2>5
  <2>7. ASSUME NEW p \in 1 .. n - k PROVE r[p] = bytes[k + p]
    <3>1. CASE p = 1
      BY <2>3, <2>5, <3>1
    <3>2. CASE p # 1
      <4>1. /\ p - 1 \in 1 .. n - (k + 1) /\ p - 1 \in 1 .. Len(t) /\ Len(u) + (p - 1) = p
            /\ k + 1 + (p - 1) = k + p
        BY <1>1, <2>1, <2>3, <2>4, <3>2
      <4> QED BY <2>4, <2>5, <4>1
    <3> QED BY <3>1, <3>2
  <2> QED BY <2>6, <2>7 DEF r
<1> DEFINE T == {i \in Nat : i <= n => Same(n - i)}
<1>9. 0 \in T
  BY <1>1, <1>7
<1>10. ASSUME NEW i \in Nat, i \in T PROVE i + 1 \in T
  <2> SUFFICES ASSUME i + 1 <= n PROVE Same(n - (i + 1))
    OBVIOUS
  <2> DEFINE k == n - (i + 1)
  <2>1. k \in 0 .. n - 1 /\ k + 1 = n - i /\ i <= n
    BY <1>1
  <2>2. Same(k + 1)
    BY <1>10, <2>1
  <2> HIDE DEF k, Same
  <2>3. Same(k)
    BY <1>8, <2>1, <2>2
  <2> QED BY <2>3 DEF k
<1>11. Same(0)
  <2>1. n \in T
    <3> HIDE DEF T
    <3> QED BY <1>1, <1>9, <1>10, NatSetInduction
  <2>2. n - n = 0 /\ n <= n
    BY <1>1
  <2> QED BY <2>1, <2>2
<1>12. n - 0 = n /\ \A p \in 1 .. n : 0 + p = p
  BY <1>1
<1> QED BY <1>5, <1>6, <1>11, <1>12 DEF n

(* The addresses one index leads to from those its path led to.             *)
Through(g, prior) ==
  {H!Elements(o) + g.at * TypeSize[g.t] :
     o \in {q \in H!Arrays : \E a \in prior : H!PointerAt(a + g.off) = H!Payload(q)}}

(* How a path is followed, index by index.                                  *)
Led(p) ==
  CHOOSE f : f = [n \in 0 .. Len(p) |->
                    IF n = 0 THEN {HeapBase} ELSE Through(p[n], f[n - 1])]

(* The addresses a path leads to are where following it ends.               *)
LEMMA ReachedUnfold ==
  ASSUME NEW p, Len(p) \in Nat
  PROVE  /\ Reached(p) = Led(p)[Len(p)] /\ Led(p)[0] = {HeapBase}
         /\ \A n \in 1 .. Len(p) : Led(p)[n] = Through(p[n], Led(p)[n - 1])
<1> DEFINE Start == {HeapBase}
           Step(f, m) == [n \in 0 .. m |-> IF n = 0 THEN Start ELSE Through(p[n], f[n - 1])]
           T == {m \in Nat : \E f : f = Step(f, m)}
<1>b. Reached(p) = Led(p)[Len(p)]
  BY DEF Reached, Led, Through
<1>c. Led(p) = CHOOSE f : f = Step(f, Len(p))
  BY DEF Led
<1> HIDE DEF Start
<1>1. 0 \in T
  <2> DEFINE f == [n \in 0 .. 0 |-> Start]
  <2>1. f = Step(f, 0)
    OBVIOUS
  <2> QED BY <2>1
<1>2. ASSUME NEW m \in Nat, m \in T PROVE m + 1 \in T
  <2>1. PICK f : f = Step(f, m)
    BY <1>2
  <2> DEFINE g == [n \in 0 .. m + 1 |-> IF n = 0 THEN Start ELSE Through(p[n], f[n - 1])]
  <2>2. \A n \in 0 .. m : g[n] = f[n]
    BY <2>1
  <2> HIDE DEF g
  <2>3. \A n \in 0 .. m + 1 : n # 0 => n - 1 \in 0 .. m /\ g[n - 1] = f[n - 1]
    BY <2>2
  <2>4. g = [n \in 0 .. m + 1 |-> IF n = 0 THEN Start ELSE Through(p[n], g[n - 1])]
    BY <2>3 DEF g
  <2> QED BY <2>4
<1>3. Len(p) \in T
  BY <1>1, <1>2, NatSetInduction
<1>4. \E f : f = Step(f, Len(p))
  BY <1>3
<1>5. Led(p) = Step(Led(p), Len(p))
  BY <1>4, <1>c
<1>6. Led(p)[0] = Start /\ \A n \in 1 .. Len(p) : Led(p)[n] = Through(p[n], Led(p)[n - 1])
  BY <1>5
<1> QED BY <1>b, <1>6 DEF Start

(* Every other beginning is a shorter one and one more index.               *)
LEMMA BeginningsGrow ==
  ASSUME NEW S, NEW p \in Seq(S), NEW n \in 0 .. Len(p) - 1
  PROVE  /\ SubSeq(p, 1, n + 1) # <<>> /\ Front(SubSeq(p, 1, n + 1)) = SubSeq(p, 1, n)
         /\ Last(SubSeq(p, 1, n + 1)) = p[n + 1]
<1> DEFINE q == SubSeq(p, 1, n + 1)
           s == SubSeq(p, 1, n)
<1>1. Len(p) \in Nat
  BY LenProperties
<1>2. \A m \in 0 .. Len(p) : /\ SubSeq(p, 1, m) \in Seq(S) /\ Len(SubSeq(p, 1, m)) = m
                             /\ \A k \in 1 .. m : SubSeq(p, 1, m)[k] = p[k]
  BY <1>1
<1>3. n \in 0 .. Len(p) /\ n + 1 \in 0 .. Len(p) /\ n \in Nat
  BY <1>1
<1>4. q \in Seq(S) /\ Len(q) = n + 1 /\ \A k \in 1 .. n + 1 : q[k] = p[k]
  BY <1>2, <1>3
<1>5. s \in Seq(S) /\ Len(s) = n /\ \A k \in 1 .. n : s[k] = p[k]
  BY <1>2, <1>3
<1> HIDE DEF q, s
<1>6. q # <<>>
  BY <1>3, <1>4, EmptySeq
<1>7. Last(q) = p[n + 1]
  BY <1>3, <1>4 DEF Last
<1> DEFINE t == Front(q)
<1>8. t \in Seq(S) /\ Len(t) = n /\ \A k \in 1 .. n : t[k] = q[k]
  BY <1>3, <1>4 DEF Front
<1> HIDE DEF t
<1>9. \A k \in 1 .. n : t[k] = s[k]
  BY <1>3, <1>4, <1>5, <1>8
<1>10. t = s
  BY <1>5, <1>8, <1>9, SeqEqual
<1> QED BY <1>6, <1>7, <1>10 DEF q, s, t

(* Every beginning of a path of the file is a path of the file.             *)
LEMMA PathBegins ==
  ASSUME Initialisers, TripInv, NEW k \in 1 .. Len(mod.items) + 1,
         NEW p, p = Opened(mod.items)[k], NEW m \in 0 .. Len(p)
  PROVE  \E l \in 1 .. Len(mod.items) + 1 : Opened(mod.items)[l] = SubSeq(p, 1, m)
<1> DEFINE its == mod.items
           Open(n) == \E l \in 1 .. Len(its) + 1 : Opened(its)[l] = SubSeq(p, 1, n)
           T == {d \in Nat : d <= Len(p) => Open(Len(p) - d)}
<1>1. p \in Seq(Openings) /\ Len(p) \in Nat /\ Len(its) \in Nat
  BY OpenerExists, LenProperties, InitialisersFollowed
<1>2. 0 \in T
  <2>1. SubSeq(p, 1, Len(p)) = p
    BY <1>1, BeginningsEnd
  <2>2. Len(p) - 0 = Len(p)
    BY <1>1
  <2> QED BY <2>1, <2>2
<1>3. ASSUME NEW d \in Nat, d \in T PROVE d + 1 \in T
  <2> SUFFICES ASSUME d + 1 <= Len(p) PROVE Open(Len(p) - (d + 1))
    OBVIOUS
  <2>0. PICK n : n = Len(p) - (d + 1)
    OBVIOUS
  <2>1. n \in 0 .. Len(p) - 1 /\ n + 1 = Len(p) - d /\ d <= Len(p)
    BY <1>1, <2>0
  <2>2. PICK q : q = SubSeq(p, 1, n + 1)
    OBVIOUS
  <2>3. PICK l \in 1 .. Len(its) + 1 : Opened(its)[l] = q
    BY <1>3, <2>1, <2>2
  <2>4. q # <<>> /\ Front(q) = SubSeq(p, 1, n)
    BY <1>1, <2>1, <2>2, BeginningsGrow
  <2>5. PICK j : Opens(its, j, q)
    BY <2>3, <2>4, OpenerExists
  <2>6. j \in 1 .. Len(its) /\ Front(q) = Opened(its)[j]
    BY <2>5, OpensMeans
  <2>7. j \in 1 .. Len(its) + 1
    BY <1>1, <2>6
  <2> QED BY <2>0, <2>4, <2>6, <2>7
<1>4. \A d \in Nat : d \in T
  <2> HIDE DEF T
  <2> QED BY <1>2, <1>3, NatSetInduction
<1>5. Len(p) - m \in Nat /\ Len(p) - m <= Len(p) /\ Len(p) - (Len(p) - m) = m
  BY <1>1
<1> QED BY <1>4, <1>5

(* Where one pointer is, it is what is read.                                *)
LEMMA PointsMean ==
  ASSUME NEW a, NEW x, Points(slots, a, x)
  PROVE  H!PointerAt(a) = x
<1> DEFINE s == [at |-> a, ptr |-> x]
<1>1. s \in slots /\ s.at = a /\ \A q \in slots : q.at = a => q.ptr = x
  BY DEF Points
<1>2. \E q \in slots : q.at = a
  BY <1>1
<1> DEFINE c == CHOOSE q \in slots : q.at = a
<1>3. c \in slots /\ c.at = a
  BY <1>2
<1>4. c.ptr = x
  BY <1>1, <1>3
<1> QED BY <1>2, <1>4 DEF H!PointerAt

(* Through the arrays that are there, a path leads to where it should.      *)
LEMMA WhereReached ==
  ASSUME Initialisers, TripInv, Arrived(Len(mod.items)), NEW k \in 1 .. Len(mod.items),
         NEW p, p = Opened(mod.items)[k]
  PROVE  Where(mod.items, p) \in Reached(p)
<1> DEFINE its == mod.items
<1>1. p \in Seq(Openings) /\ Len(p) \in Nat /\ Len(its) \in Nat /\ k \in 1 .. Len(its) + 1
      /\ mod \in Modules
  BY OpenerExists, LenProperties, InitialisersFollowed
<1>2. PICK r : r = Led(p)
  OBVIOUS
<1>2a. /\ Reached(p) = r[Len(p)] /\ r[0] = {HeapBase}
       /\ \A n \in 1 .. Len(p) : r[n] = Through(p[n], r[n - 1])
  BY <1>1, <1>2, ReachedUnfold
<1> DEFINE T == {n \in Nat : n <= Len(p) => Where(its, SubSeq(p, 1, n)) \in r[n]}
<1>3. 0 \in T
  <2>1. SubSeq(p, 1, 0) = <<>>
    BY <1>1, BeginningsEnd
  <2> QED BY <1>2a, <2>1 DEF Where
<1>4. ASSUME NEW n \in Nat, n \in T PROVE n + 1 \in T
  <2> SUFFICES ASSUME n + 1 <= Len(p) PROVE Where(its, SubSeq(p, 1, n + 1)) \in r[n + 1]
    OBVIOUS
  <2>1. n \in 0 .. Len(p) - 1 /\ n + 1 \in 1 .. Len(p) /\ n + 1 \in 0 .. Len(p) /\ n <= Len(p)
        /\ (n + 1) - 1 = n
    BY <1>1
  <2>2. PICK q : q = SubSeq(p, 1, n + 1)
    OBVIOUS
  <2>3. PICK g : g = p[n + 1]
    OBVIOUS
  <2>4. q # <<>> /\ Front(q) = SubSeq(p, 1, n) /\ Last(q) = g
    BY <1>1, <2>1, <2>2, <2>3, BeginningsGrow
  <2>5. PICK l \in 1 .. Len(its) + 1 : Opened(its)[l] = q
    BY <1>1, <2>1, <2>2, PathBegins
  <2>6. PICK j : Opens(its, j, q)
    BY <2>4, <2>5, OpenerExists
  <2>7. /\ j \in 1 .. Len(its) /\ its[j].typ = 5 /\ Front(q) = Opened(its)[j] /\ g.off = its[j].off
        /\ g.t = ParseWord(its[j].payload, 0) /\ g.len = ParseWord(its[j].payload, 4)
        /\ g.at \in Nat /\ (g.at = 0 \/ TypeSize[g.t] = 1)
    BY <2>4, <2>6, OpensMeans
  <2>8. Opener(its, q) = j
    BY <2>6, OpenerIs
  <2>9. PICK at : at = Place(its, j)
    OBVIOUS
  <2>10. PICK o : o = H!ArrayObject(at, g.t, g.len)
    OBVIOUS
  <2>11. PICK a : a = Where(its, SubSeq(p, 1, n))
    OBVIOUS
  <2>12. o \in objects /\ H!PointerAt(a + g.off) = at + H!ObjectHeader
    <3>1. There(its, j, memory, slots, objects)
      BY <2>7 DEF Arrived
    <3>2. Spot(its, j) = a + g.off
      BY <2>4, <2>7, <2>11 DEF Spot
    <3>3. o \in objects /\ Points(slots, a + g.off, at + H!ObjectHeader)
      BY <2>7, <2>9, <2>10, <3>1, <3>2 DEF There
    <3> QED BY <3>3, PointsMean
  <2>13. o \in H!Arrays /\ o.at = at
    BY <2>10, <2>12 DEF H!ArrayObject, H!Arrays
  <2>14. H!Elements(o) + g.at * TypeSize[g.t] \in r[n + 1]
    <3>1. a \in r[n]
      BY <1>4, <2>1, <2>11
    <3>2. H!PointerAt(a + g.off) = H!Payload(o)
      BY <2>12, <2>13 DEF H!Payload
    <3>3. r[n + 1] = {H!Elements(x) + g.at * TypeSize[g.t] :
                        x \in {y \in H!Arrays : \E b \in r[n] :
                                 H!PointerAt(b + g.off) = H!Payload(y)}}
      BY <1>2a, <2>1, <2>3 DEF Through
    <3> QED BY <2>13, <3>1, <3>2, <3>3
  <2>15. g.at * TypeSize[g.t] = g.at
    <3>1. g.t \in DOMAIN TypeSize
      BY <2>7, ItemFacts
    <3>2. TypeSize[g.t] \in Nat
      BY <1>1, <3>1, LayoutNumbers
    <3> DEFINE x == g.at
               y == TypeSize[g.t]
    <3>3. x \in Nat /\ y \in Nat /\ (x = 0 \/ y = 1)
      BY <2>7, <3>2
    <3> HIDE DEF x, y
    <3>4. x * y = x
      <4>1. CASE x = 0
        BY <3>3, <4>1
      <4>2. CASE y = 1
        BY <3>3, <4>2
      <4> QED BY <3>3, <4>1, <4>2
    <3> QED BY <3>4 DEF x, y
  <2>16. Where(its, q) = H!Elements(o) + g.at * TypeSize[g.t]
    <3>1. Where(its, q) = at + Headers + g.at
      BY <2>4, <2>8, <2>9 DEF Where
    <3>2. H!Elements(o) = at + H!ObjectHeader + H!ArrayHeader
      BY <2>13 DEF H!Elements, H!Payload
    <3>3. at \in Nat
      BY <2>7, <2>9, PlaceNext
    <3>4. Headers = 40 /\ H!ObjectHeader = 24 /\ H!ArrayHeader = 16
      BY DEF Headers, H!ObjectHeader, H!ArrayHeader
    <3>5. Where(its, q) = at + 40 + g.at /\ H!Elements(o) = at + 24 + 16
      BY <3>1, <3>2, <3>4
    <3>6. H!Elements(o) = at + 40
      BY <3>3, <3>5
    <3> QED BY <2>15, <3>5, <3>6
  <2> QED BY <2>2, <2>14, <2>16
<1>5. Len(p) \in T
  <2> HIDE DEF T
  <2> QED BY <1>1, <1>3, <1>4, NatSetInduction
<1>6. SubSeq(p, 1, Len(p)) = p /\ Len(p) <= Len(p)
  BY <1>1, BeginningsEnd
<1> QED BY <1>2a, <1>5, <1>6

(* A number that is there is found, byte for byte in the machine's order.   *)
LEMMA NumberFound ==
  ASSUME Initialisers, TripInv, Arrived(Len(mod.items)), NEW k \in 1 .. Len(mod.items),
         NEW i, i = mod.items[k], i.typ \in DOMAIN ScalarWidth
  PROVE  FoundNumber(i, Spot(mod.items, k))
<1> DEFINE its == mod.items
<1>1. PICK a : a = Spot(its, k)
  OBVIOUS
<1>2. PICK w : w = ScalarWidth[i.typ]
  OBVIOUS
<1>3. PICK bytes : bytes = i.payload
  OBVIOUS
<1>4. PICK l : l = Len(bytes)
  OBVIOUS
<1>5. a \in Nat
  <2>1. i.typ \notin {6, 7}
    BY WidthOf
  <2>2. PICK p : p = Opened(its)[k]
    OBVIOUS
  <2>3. PICK f : f = Where(its, p)
    OBVIOUS
  <2>4. PICK e : e = Extent(i)
    OBVIOUS
  <2> QED BY <1>1, <2>1, <2>2, <2>3, <2>4, Regions
<1>6. w \in {1, 4, 8} /\ bytes \in Octets /\ l \in Nat
  <2>1. bytes \in Octets
    BY <1>3, ItemFacts
  <2> QED BY <1>2, <1>4, <2>1, NumberBytes DEF Octets
<1>7. \A b \in 1 .. l : ByteOf(memory, a + b - 1) = Native(w, bytes)[b]
  <2>1. There(its, k, memory, slots, objects)
    BY DEF Arrived
  <2> QED BY <1>1, <1>2, <1>3, <1>4, <2>1 DEF There
<1>8. \A b \in 1 .. l : Native(w, bytes)[b] = bytes[w * ((b - 1) \div w) + w - ((b - 1) % w)]
  BY <1>4, <1>6 DEF Native, Octets
<1>9. ASSUME NEW n \in 0 .. l \div w - 1, NEW b \in 0 .. w - 1
      PROVE  ByteOf(memory, a + w * n + b) = bytes[w * n + w - b]
  <2>1. PICK c : c = w * n + b
    OBVIOUS
  <2>2. c + 1 \in 1 .. l /\ c \div w = n /\ c % w = b /\ c \in Nat /\ w * n \in Nat
    <3>1. CASE w = 1
      BY <1>6, <2>1, <3>1
    <3>2. CASE w = 4
      BY <1>6, <2>1, <3>2
    <3>3. CASE w = 8
      BY <1>6, <2>1, <3>3
    <3> QED BY <1>6, <3>1, <3>2, <3>3
  <2>3. (c + 1) - 1 = c /\ a + (c + 1) - 1 = a + w * n + b
    <3> DEFINE m == w * n
    <3>1. m \in Nat /\ c = m + b /\ b \in Nat
      BY <1>6, <2>1, <2>2
    <3> HIDE DEF m
    <3>2. (c + 1) - 1 = c /\ a + (c + 1) - 1 = a + m + b
      BY <1>5, <3>1
    <3> QED BY <3>2 DEF m
  <2>4. ByteOf(memory, a + (c + 1) - 1) = bytes[w * (((c + 1) - 1) \div w) + w - (((c + 1) - 1) % w)]
    BY <1>7, <1>8, <2>2
  <2> QED BY <2>2, <2>3, <2>4
<1>10. \A x : ByteIn(x) = ByteOf(memory, x)
  BY DEF ByteIn, ByteOf
<1> QED BY <1>1, <1>2, <1>3, <1>4, <1>9, <1>10 DEF FoundNumber

(* A string that is there is found, to the character when it is ASCII.      *)
LEMMA StringFound ==
  ASSUME Initialisers, TripInv, Arrived(Len(mod.items)), NEW k \in 1 .. Len(mod.items),
         NEW i, i = mod.items[k], i.typ = 3
  PROVE  FoundString(i, Spot(mod.items, k))
<1> DEFINE its == mod.items
           o == H!StringObject(Place(its, k), Len(Lossy(i.payload)))
<1>1. PICK at : at = Place(its, k)
  OBVIOUS
<1>2. PICK str : str = Lossy(i.payload)
  OBVIOUS
<1>3. /\ o \in objects /\ Points(slots, Spot(its, k), at + H!ObjectHeader)
      /\ \A b \in 1 .. Len(str) : ByteOf(memory, at + Headers + b - 1) = str[b]
  <2>1. There(its, k, memory, slots, objects)
    BY DEF Arrived
  <2> QED BY <1>1, <1>2, <2>1 DEF There
<1>4. o.typ = "Tstring" /\ o.at = at /\ o.len = Len(str)
  BY <1>1, <1>2 DEF H!StringObject
<1> HIDE DEF o
<1>5. H!PointerAt(Spot(its, k)) = H!Payload(o)
  BY <1>3, <1>4, PointsMean DEF H!Payload
<1>6. ASSUME \A b \in ToSet(i.payload) : b < 128
      PROVE  /\ o.len = Len(i.payload)
             /\ \A b \in 1 .. o.len :
                  ByteIn(H!Payload(o) + H!StringHeader + b - 1) = i.payload[b]
  <2>1. i.payload \in Octets
    BY ItemFacts
  <2>2. \A b \in 1 .. Len(i.payload) : i.payload[b] < 128
    BY <1>6, <2>1 DEF ToSet, Octets
  <2>3. Len(str) = Len(i.payload) /\ \A b \in 1 .. Len(i.payload) : str[b] = i.payload[b]
    BY <1>2, <2>1, <2>2, LossyOfAscii
  <2>4. H!Payload(o) + H!StringHeader = at + Headers
    <3>1. at \in Nat
      BY <1>1, PlaceNext
    <3> QED BY <1>4, <3>1 DEF H!Payload, H!StringHeader, H!ObjectHeader, H!ArrayHeader, Headers
  <2>5. \A x : ByteIn(x) = ByteOf(memory, x)
    BY DEF ByteIn, ByteOf
  <2> QED BY <1>3, <1>4, <2>3, <2>4, <2>5
<1> QED BY <1>3, <1>4, <1>5, <1>6 DEF FoundString

(* An array that is there is found, with its type and its length.           *)
LEMMA ArrayFound ==
  ASSUME Initialisers, TripInv, Arrived(Len(mod.items)), NEW k \in 1 .. Len(mod.items),
         NEW i, i = mod.items[k], i.typ = 5
  PROVE  FoundArray(i, Spot(mod.items, k))
<1> DEFINE its == mod.items
           t == ParseWord(i.payload, 0)
           len == ParseWord(i.payload, 4)
           o == H!ArrayObject(Place(its, k), t, len)
<1>1. PICK at : at = Place(its, k)
  OBVIOUS
<1>2. o \in objects /\ Points(slots, Spot(its, k), at + H!ObjectHeader)
  <2>1. There(its, k, memory, slots, objects)
    BY DEF Arrived
  <2> QED BY <1>1, <2>1 DEF There
<1>3. o.typ = "Tarray" /\ o.at = at /\ o.t = t /\ o.len = len
  BY <1>1 DEF H!ArrayObject
<1> HIDE DEF o
<1>4. H!PointerAt(Spot(its, k)) = H!Payload(o)
  BY <1>2, <1>3, PointsMean DEF H!Payload
<1> QED BY <1>2, <1>3, <1>4 DEF FoundArray, H!Arrays

(* When the items are read, what stays is what should be found.             *)
LEMMA ArrivedIsFound ==
  ASSUME H!TypeOK, HN!BaseFollows, Initialisers, TripInv, DataStays
  PROVE  DataArrives
<1> SUFFICES ASSUME stage # "items"
             PROVE  /\ base = H!ModuleBase /\ arrayStack = <<>>
                    /\ \A k \in DOMAIN mod.items :
                         \E a \in Reached(Opened(mod.items)[k]) :
                           Found(mod.items[k], a + mod.items[k].off)
  BY DEF DataArrives
<1>1. path = <<>> /\ Arrived(Len(mod.items))
  BY DEF DataStays
<1>2. base = H!ModuleBase /\ arrayStack = <<>>
  <2>1. Len(arrayStack) = Len(path) /\ HN!Frames[1] = HN!ModuleBase
    BY DEF HN!BaseFollows
  <2>2. arrayStack \in Seq(H!Bases)
    BY DEF H!TypeOK
  <2>3. arrayStack = <<>>
    BY <1>1, <2>1, <2>2, EmptySeq
  <2>4. HN!Frames[1] = base
    BY <2>3 DEF HN!Frames
  <2> QED BY <2>1, <2>3, <2>4 DEF H!ModuleBase, HN!ModuleBase
<1>3. ASSUME NEW k \in DOMAIN mod.items
      PROVE  \E a \in Reached(Opened(mod.items)[k]) :
               Found(mod.items[k], a + mod.items[k].off)
  <2>1. k \in 1 .. Len(mod.items)
    BY InitialisersFollowed
  <2>2. PICK i : i = mod.items[k]
    OBVIOUS
  <2>3. PICK p : p = Opened(mod.items)[k]
    OBVIOUS
  <2>4. Where(mod.items, p) \in Reached(p)
    BY <1>1, <2>1, <2>3, WhereReached
  <2>5. Spot(mod.items, k) = Where(mod.items, p) + i.off
    BY <2>2, <2>3 DEF Spot
  <2>6. i.typ \in DOMAIN ScalarWidth => FoundNumber(i, Spot(mod.items, k))
    BY <1>1, <2>1, <2>2, NumberFound
  <2>7. i.typ = 3 => FoundString(i, Spot(mod.items, k))
    BY <1>1, <2>1, <2>2, StringFound
  <2>8. i.typ = 5 => FoundArray(i, Spot(mod.items, k))
    BY <1>1, <2>1, <2>2, ArrayFound
  <2>9. Found(i, Spot(mod.items, k))
    BY <2>6, <2>7, <2>8 DEF Found
  <2> QED BY <2>2, <2>3, <2>4, <2>5, <2>9
<1> QED BY <1>2, <1>3

(* What every number, string and array of a file of initialisers is         *)
(* written as is what a program finds when it follows the offsets and       *)
(* indexes of the file from the module data on, once its items are read,    *)
(* whatever was loaded in between; and the items address the module data    *)
(* again.                                                                   *)
THEOREM DataIsThere == LoadedSpec => []DataArrives
<1>1. CASE Modules = {}
  <2>1. LoadedInit => FALSE
    BY <1>1 DEF LoadedInit
  <2> QED BY <2>1, PTL DEF LoadedSpec
<1>2. CASE Modules # {}
  <2> DEFINE Kept == Initialisers /\ FillsRightly
             Lasting == Initialisers /\ DataStays
  <2>1. /\ HN!SizesAssumption /\ HN!ReachAssumption
        /\ HN!TypesAssumption /\ HN!InputsAssumption
    BY <1>2, NestedConstants
  <2>2. HN!Spec => []HN!BaseFollowsPath
    BY <2>1, HN!NestedBaseFollows, PTL
  <2>3. LoadedInit => (Initialisers => HN!Init /\ Kept /\ Lasting)
    BY FillsInit, NothingArrived
  <2>4. H!TypeOK /\ TripInv /\ Kept /\ [LoadedNext]_loadedVars => Kept' /\ [HN!Next]_(HN!vars)
    BY StepFills, InitialisersStay
  <2>5. ~Initialisers /\ [LoadedNext]_loadedVars => ~Initialisers'
    BY InitialisersStay
  <2>6. LoadedSpec => []H!TypeOK
    BY LoadedHeapHolds, PTL
  <2>7. LoadedSpec => []TripInv
    BY LoadedIsLoader, InitTrip, TripStep, PTL
  <2>8. ~Initialisers => DataArrives
    BY DEF DataArrives
  <2>9. HN!BaseFollowsPath => HN!BaseFollows
    BY DEF HN!BaseFollowsPath
  <2>10. H!TypeOK /\ HN!BaseFollows /\ TripInv /\ Kept /\ Lasting /\ [LoadedNext]_loadedVars => Lasting'
    BY StepArrives, InitialisersStay
  <2>11. H!TypeOK /\ HN!BaseFollows /\ TripInv /\ Lasting => DataArrives
    BY ArrivedIsFound
  <2> HIDE DEF Kept, Lasting
  <2>12. LoadedSpec /\ Initialisers => []Kept /\ HN!Spec
    BY <2>3, <2>4, <2>6, <2>7, PTL DEF LoadedSpec, HN!Spec
  <2>13. LoadedSpec /\ Initialisers => []HN!BaseFollows
    BY <2>2, <2>9, <2>12, PTL
  <2>14. LoadedSpec /\ Initialisers => []Lasting
    BY <2>3, <2>6, <2>7, <2>10, <2>12, <2>13, PTL DEF LoadedSpec
  <2>15. LoadedSpec /\ ~Initialisers => []~Initialisers
    BY <2>5, PTL DEF LoadedSpec
  <2> QED BY <2>6, <2>7, <2>8, <2>11, <2>13, <2>14, <2>15, PTL
<1> QED BY <1>1, <1>2
=============================================================================
