------------------------------ MODULE Operands ------------------------------
(***************************************************************************)
(* The variable-length integers of a Dis object file: parse_operand and    *)
(* the conversions of Operand, against the encoding of the format: the top *)
(* two bits of the first byte give the width, the value is in two's        *)
(* complement in the bits that remain (7 in a one-byte operand, 14, 30).   *)
(***************************************************************************)
EXTENDS Integers, Sequences

(* The encoder: v in n bytes, n one of 1, 2, 4.                             *)
Bits(n) == IF n = 1 THEN 128 ELSE IF n = 2 THEN 16384 ELSE 1073741824

Encodable(v, n) == -(Bits(n) \div 2) <= v /\ v < Bits(n) \div 2

EncodeOperand(v, n) ==
  LET u == IF v < 0 THEN v + Bits(n) ELSE v IN
  IF n = 1 THEN <<u>>
  ELSE IF n = 2 THEN <<128 + u \div 256, u % 256>>
  ELSE <<192 + u \div 16777216, (u \div 65536) % 256, (u \div 256) % 256, u % 256>>

(* parse_operand on the bytes of f that begin at offset at.  A one-byte     *)
(* operand is sign extended; the test that would extend the longer ones     *)
(* looks at a bit that was masked out, so they are never negative.          *)
ParseOperand(f, at) ==
  LET b == f[at + 1]
      w == b \div 64
  IN
  IF w = 0 THEN [size |-> 1, val |-> b]
  ELSE IF w = 1 THEN [size |-> 1, val |-> b - 128]
  ELSE IF w = 2 THEN [size |-> 2, val |-> (b % 64) * 256 + f[at + 2]]
  ELSE [size |-> 4, val |-> (b % 64) * 16777216 + f[at + 2] * 65536
                            + f[at + 3] * 256 + f[at + 4]]

(* into_usize: a negative operand becomes a number past any file.           *)
Huge == 1073741824
ToUsizeBug(v) == v
ToUsize(v) == IF v < 0 THEN Huge ELSE v

(* into_i16 keeps the low 16 bits.                                          *)
IntoI16(v) == ((v + 32768) % 65536) - 32768

(* parse_word: four bytes, big endian, signed.                              *)
ParseWord(f, at) ==
  LET b == f[at + 1] IN
  (IF b < 128 THEN b ELSE b - 256) * 16777216
  + f[at + 2] * 65536 + f[at + 3] * 256 + f[at + 4]

EncodeWord(v) ==
  <<(v \div 16777216) % 256, (v \div 65536) % 256, (v \div 256) % 256, v % 256>>
=============================================================================
