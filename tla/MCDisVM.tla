------------------------------ MODULE MCDisVM -------------------------------
(***************************************************************************)
(* Small programs for TLC, one per way a run can go.                       *)
(***************************************************************************)
EXTENDS DisVM

Nothing == [mode |-> "none", v |-> 0]
Fp(v)   == [mode |-> "fp", v |-> v]
Mp(v)   == [mode |-> "mp", v |-> v]
Imm(v)  == [mode |-> "imm", v |-> v]
Two(v)  == [mode |-> "double", v |-> v]
I(op, mid, src, dst) == [op |-> op, mid |-> mid, src |-> src, dst |-> dst]

SomeCode == <<I("other", Imm(3), Fp(4), Mp(0)), I("other", Nothing, Two(4), Fp(8)),
              I("other", Mp(4), Imm(7), Nothing)>>
Loads(src) == <<I("load", Nothing, src, Nothing), I("other", Fp(0), Nothing, Fp(0))>>

Plain == [size |-> 8, dsize |-> 8, stack |-> 8, esize |-> 4, pc |-> 0,
          code |-> SomeCode, strings |-> <<>>, loads |-> TRUE]
Loader(name) == [Plain EXCEPT !.code = Loads(Mp(4)), !.strings = 4 :> name]

MCFiles ==
  "plain"     :> Plain
  @@ "stack"    :> [Plain EXCEPT !.stack = 40, !.code = <<SomeCode[1]>>]
  @@ "unknown"  :> [Plain EXCEPT !.code = <<SomeCode[1], I("unknown", Nothing, Nothing, Nothing)>>]
  @@ "late"     :> [Plain EXCEPT !.pc = 1]
  @@ "before"   :> [Plain EXCEPT !.pc = -1]
  @@ "empty"    :> [Plain EXCEPT !.code = <<>>]
  @@ "nodata"   :> [Plain EXCEPT !.dsize = 0]
  @@ "noframe"  :> [Plain EXCEPT !.stack = 0, !.esize = -16]
  @@ "large"    :> [Plain EXCEPT !.size = 400, !.dsize = 400]
  @@ "negative" :> [Plain EXCEPT !.code = <<I("other", Nothing, Fp(-4), Nothing)>>]
  @@ "middle"   :> [Plain EXCEPT !.code = <<I("other", Mp(-4), Nothing, Nothing)>>]
  @@ "loader"   :> Loader("plain")
  @@ "missing"  :> Loader("nowhere")
  @@ "damaged"  :> [Plain EXCEPT !.loads = FALSE]
  @@ "unnamed"  :> Loader(NoName)
  @@ "lone"     :> [Loader(NoName) EXCEPT !.code = SubSeq(@, 1, 1)]
  @@ "stale"    :> [Plain EXCEPT !.code = Loads(Imm(4))]
=============================================================================
