---------------------------- MODULE MCDisLoader -----------------------------
(***************************************************************************)
(* Small modules for TLC: every operand width, addressing mode and kind of *)
(* data item occurs in one of them.                                        *)
(***************************************************************************)
EXTENDS DisLoader

Base ==
  [wide |-> FALSE, signature |-> <<>>, flag |-> 1, stack |-> 300, dsize |-> 8,
   pc |-> 0, etype |-> 1, code |-> <<>>,
   types |-> <<[no |-> 0, size |-> 8, map |-> <<64>>],
               [no |-> 1, size |-> 70, map |-> <<>>]>>,
   items |-> <<>>, name |-> <<77>>, links |-> <<>>, imports |-> <<>>,
   handler |-> <<>>, exceptions |-> <<>>, path |-> <<98>>]

(* Instructions: no operand; a middle, a double and a single one; a negative*)
(* immediate; a reserved source, whose operand is dropped, is not written.  *)
SomeCode ==
  <<[opcode |-> 0, address |-> 27, mid |-> <<>>, src |-> <<>>, dst |-> <<>>],
    [opcode |-> 8, address |-> 64 + 8 * 4 + 1, mid |-> <<-3>>, src |-> <<4, 70>>,
     dst |-> <<12>>],
    [opcode |-> 45, address |-> 128 + 8 * 2 + 5, mid |-> <<100>>, src |-> <<-64>>,
     dst |-> <<0, 9000>>]>>

(* Negative numbers that take two bytes: a size, the entry, every operand.  *)
Negative ==
  [Base EXCEPT !.stack = -300, !.pc = -65, !.types[2].size = -8192,
     !.code = <<[opcode |-> 1, address |-> 64 + 8 * 2 + 4, mid |-> <<-100>>,
                 src |-> <<-8192>>, dst |-> <<-65, -64>>]>>]

ItemsBytes  == <<[typ |-> 1, count |-> 2, off |-> 0, payload |-> <<1, 2>>],
                 [typ |-> 2, count |-> 1, off |-> 4, payload |-> <<0, 0, 1, 0>>]>>
ItemsLong   == <<[typ |-> 1, count |-> 17, off |-> 0, payload |-> [k \in 1 .. 17 |-> k]]>>
ItemsWide   == <<[typ |-> 4, count |-> 1, off |-> 0, payload |-> [k \in 1 .. 8 |-> 0]],
                 [typ |-> 8, count |-> 1, off |-> 0, payload |-> [k \in 1 .. 8 |-> k]],
                 [typ |-> 3, count |-> 2, off |-> 4, payload |-> <<65, 66>>]>>
ItemsArrays == <<[typ |-> 5, count |-> 1, off |-> 4,
                  payload |-> <<0, 0, 0, 1, 0, 0, 0, 2>>],
                 [typ |-> 6, count |-> 1, off |-> 4, payload |-> <<0, 0, 0, 1>>],
                 [typ |-> 1, count |-> 1, off |-> 0, payload |-> <<9>>],
                 [typ |-> 7, count |-> 1, off |-> 0, payload |-> <<>>]>>

SomeLinks == <<[pc |-> 0, desc |-> 1, sig |-> 258, fn |-> <<105>>],
               [pc |-> 2, desc |-> 0, sig |-> -1, fn |-> <<>>]>>

SomeImports == {<<>>, <<<<>>>>,
                <<<<[sig |-> 7, fn |-> <<112, 113>>]>>, <<>>,
                  <<[sig |-> 8, fn |-> <<>>], [sig |-> 9, fn |-> <<114>>]>>>>}

Importing == {[Base EXCEPT !.flag = HASLDT2, !.imports = im] : im \in SomeImports}

Bodies ==
  {[Base EXCEPT !.code = SomeCode], Negative, [Base EXCEPT !.links = SomeLinks, !.flag = 128],
   [Base EXCEPT !.signature = <<1, 2, 3>>, !.items = ItemsArrays],
   [Base EXCEPT !.dsize = 0, !.name = <<>>]}
  \cup {[Base EXCEPT !.items = i] : i \in {ItemsBytes, ItemsLong, ItemsWide}}
  \cup Importing

Wide == {[m EXCEPT !.wide = TRUE] : m \in Bodies}

Pathless == {[Base EXCEPT !.path = <<>>], [Base EXCEPT !.flag = HASLDT2, !.path = <<>>]}

(* Modules with an exception handler section: one or no handler.            *)
Handling ==
  {[Base EXCEPT !.flag = HASEXCEPT, !.handler = <<40, 0, 9, -1, 3>>,
                !.exceptions = e, !.path = p] :
     e \in {<<>>, <<[fn |-> <<102>>, pc |-> 5]>>},
     p \in {<<98>>, <<97, 98, 99, 100, 101, 102>>}}

MCModules == Bodies \cup Wide \cup Pathless \cup Handling
MCDamage  == [m \in MCModules |-> IF m \in Bodies \cup Handling THEN {"none", "cut", "byte"}
                                  ELSE {"none", "cut"}]

MCDamageNone == [m \in Handling |-> {"none"}]
=============================================================================
