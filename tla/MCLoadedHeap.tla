---------------------------- MODULE MCLoadedHeap ----------------------------
(***************************************************************************)
(* Modules whose data sections, for TLC, hold every kind of item, in the   *)
(* module data and in arrays of bytes, words and pointers, nested or not.  *)
(***************************************************************************)
EXTENDS LoadedHeap

(* Words 1 and 3 of the module data are pointers; then an element of a byte *)
(* and one of a word.                                                       *)
MCLayout == <<[no |-> 0, size |-> 24, map |-> <<80>>], [no |-> 1, size |-> 1, map |-> <<>>],
              [no |-> 2, size |-> 4, map |-> <<128>>]>>

It(typ, count, off, payload) ==
  [typ |-> typ, count |-> count, off |-> off, payload |-> payload]
Text(off, bytes) == It(3, Len(bytes), off, bytes)
Bytes(off, bytes) == It(1, Len(bytes), off, bytes)
Words(off, ws) == It(2, Len(ws), off, FlattenSeq([k \in DOMAIN ws |-> EncodeWord(ws[k])]))
Arr(off, t, len) == It(5, 1, off, EncodeWord(t) \o EncodeWord(len))
Ind(off, i) == It(6, 1, off, EncodeWord(i))
Back == It(7, 1, 0, <<>>)

Numbers == <<Bytes(0, <<7, 8>>), Words(8, <<-2, 258>>), It(8, 1, 16, <<1, 2, 3, 4, 5, 6, 7, 9>>)>>
Long == <<Text(20, <<104, 105>>), Bytes(0, [k \in 1 .. 17 |-> k])>>
Strings == <<Text(4, <<195, 169, 65>>), Text(12, <<233 - 64, 65, 250>>), Text(16, <<>>)>>
ByteArray == <<Arr(4, 1, 3), Ind(4, 1), Bytes(0, <<5>>), Bytes(1, <<6>>), Back, Words(8, <<3>>)>>
Nested == <<Arr(4, 2, 2), Ind(4, 0), Arr(0, 1, 2), Ind(0, 1), Bytes(0, <<9>>), Back,
            Text(4, <<66, 67>>), Back, Text(12, <<68>>)>>
Nested3 == <<Arr(12, 2, 1), Ind(12, 0), Arr(0, 2, 2), Ind(0, 0), Text(4, <<97>>), Arr(0, 2, 1),
             Ind(0, 0), It(4, 1, 0, [k \in 1 .. 8 |-> k]), Back, Back, Back>>
Sisters == <<Arr(4, 2, 1), Arr(12, 1, 2), Ind(4, 0), Words(0, <<1>>), Back>>
Doubles == <<Arr(4, 2, 2), Ind(4, 1), Words(0, <<1>>), Back>>
Unrestored == <<Arr(4, 1, 1), Ind(4, 0), Bytes(0, <<1>>)>>
Misfits == {<<Back>>, <<Ind(0, 0)>>, <<Bytes(200, <<1>>)>>, <<It(2, 0, 4, <<>>)>>,
            <<Words(4, <<0>>), Text(0, <<65>>)>>,
            <<Arr(4, 1, 220), Arr(12, 1, 200), Text(20, <<65>>)>>}

Sections == {Numbers, Long, Strings, ByteArray, Nested, Nested3, Sisters, Doubles, Unrestored}
            \cup Misfits

Base == [wide |-> FALSE, signature |-> <<>>, flag |-> 1, stack |-> 0, dsize |-> 24, pc |-> 0,
         etype |-> 0, code |-> <<>>, types |-> MCLayout, items |-> <<>>, name |-> <<>>,
         links |-> <<>>, imports |-> <<>>, handler |-> <<>>, exceptions |-> <<>>, path |-> <<98>>]

Narrow == {[Base EXCEPT !.items = i] : i \in Sections}
MCModules == Narrow \cup {[m EXCEPT !.wide = TRUE] : m \in Narrow}
MCDamage == [m \in MCModules |-> IF m.wide THEN {"none"} ELSE {"none", "cut", "byte"}]
=============================================================================
