---------------------------- MODULE DisVMProofs -----------------------------
(***************************************************************************)
(* Proofs about DisVM, for every set of object files and every layout of   *)
(* the process.                                                            *)
(***************************************************************************)
EXTENDS DisVM, SequenceTheorems, FiniteSetTheorems, TLAPS

(* Whole pages of a positive length are a length no shorter.                *)
LEMMA PagesFact == \A n \in Nat \ {0} : Pages(n) \in Nat /\ Pages(n) >= n
<1> SUFFICES ASSUME NEW n \in Nat \ {0} PROVE Pages(n) \in Nat /\ Pages(n) >= n
  OBVIOUS
<1> DEFINE m == n + Page - 1
           q == m \div Page
           r == m % Page
<1>1. Page \in Nat /\ Page > 0
  BY LayoutAssumption
<1>2. m \in Nat
  BY <1>1
<1>3. q \in Nat /\ r \in 0 .. Page - 1 /\ m = Page * q + r
  BY <1>1, <1>2
<1>4. q * Page \in Nat /\ q * Page = Page * q
  BY <1>1, <1>3
<1>5. q * Page >= n
  BY <1>1, <1>3, <1>4
<1> QED
  BY <1>4, <1>5 DEF Pages

(* The last of a sequence that is not empty, and what stays without it.     *)
LEMMA LastFront ==
  ASSUME NEW S, NEW s \in Seq(S), s # <<>>
  PROVE  /\ Last(s) \in S /\ Last(s) = s[Len(s)] /\ Len(s) \in 1 .. Len(s)
         /\ Front(s) \in Seq(S) /\ Len(Front(s)) = Len(s) - 1
         /\ \A k \in 1 .. Len(Front(s)) : Front(s)[k] = s[k]
<1> DEFINE n == Len(s) - 1
<1>1. Len(s) \in Nat /\ Len(s) > 0
  BY EmptySeq
<1>2. n \in Int /\ n >= 0 /\ n = n - 1 + 1 /\ \A k \in 1 .. n : s[k] \in S
  BY <1>1
<1>3. /\ SubSeq(s, 1, n) \in Seq(S)
      /\ Len(SubSeq(s, 1, n)) = IF 1 <= n THEN n - 1 + 1 ELSE 0
      /\ \A k \in 1 .. n - 1 + 1 : SubSeq(s, 1, n)[k] = s[1 + k - 1]
  BY <1>2, SubSeqProperties
<1>4. s[Len(s)] \in S
  BY <1>1
<1> QED
  BY <1>1, <1>2, <1>3, <1>4 DEF Last, Front

(* The files are what FilesAssumption says, one by one.                     *)
LEMMA FileFacts ==
  ASSUME NEW f \in DOMAIN Files
  PROVE  /\ f # NoName
         /\ Files[f].size \in Nat /\ Files[f].dsize \in {0, Files[f].size}
         /\ Files[f].stack \in Int /\ Files[f].esize \in Int /\ Files[f].pc \in Int
         /\ Files[f].code \in Seq(ins) /\ Len(Files[f].code) \in Nat
         /\ FrameSize(Files[f]) \in Int
         /\ FrameSize(Files[f]) >= Files[f].stack
         /\ FrameSize(Files[f]) >= Files[f].esize + 16
<1>1. /\ f # NoName
      /\ Files[f].size \in Nat /\ Files[f].dsize \in {0, Files[f].size}
      /\ Files[f].stack \in Int /\ Files[f].esize \in Int /\ Files[f].pc \in Int
      /\ Files[f].code \in Seq(ins)
  BY FilesAssumption
<1>2. Len(Files[f].code) \in Nat
  BY <1>1
<1>3. /\ FrameSize(Files[f]) \in Int
      /\ FrameSize(Files[f]) >= Files[f].stack
      /\ FrameSize(Files[f]) >= Files[f].esize + 16
  BY <1>1 DEF FrameSize
<1> QED BY <1>1, <1>2, <1>3

(* A program is known by its name, and is not NoProgram.                    *)
LEMMA ProgramFacts ==
  ASSUME NEW p \in Program
  PROVE  p # NoProgram /\ p.name \in DOMAIN Files /\ p.pc \in Int /\ p.insLeft \in Nat
  BY FileFacts DEF Program, NoProgram

(* A new program is one, whatever its file.                                 *)
LEMMA NewProgramType ==
  ASSUME NEW f \in DOMAIN Files PROVE NewProgram(f) \in Program
  BY FileFacts, LayoutAssumption DEF NewProgram, Program

-----------------------------------------------------------------------------
(* The inductive invariant behind the types and the instruction pointer.    *)

(* What each place of the thread presupposes.                               *)
Places ==
  /\ at \in {"heap", "fill"} => load.name \in DOMAIN Files
  /\ at \in {"heap", "fill"} /\ load.for = "iload" => ctx # NoProgram
  /\ at = "schedmod" => held # <<>>
  /\ at = "start" /\ status = "ok" => queue # <<>>

(* Of each program: the instructions left are those between its instruction *)
(* pointer and the end of its code, shifted by where it entered.            *)
Counted(p) ==
  /\ p.pc >= Files[p.name].pc
  /\ p.pc + p.insLeft = Files[p.name].pc + Len(Files[p.name].code)

Counts ==
  /\ \A k \in 1 .. Len(queue) :
       Counted(queue[k]) /\ queue[k].insLeft = Len(Files[queue[k].name].code)
  /\ ctx # NoProgram => Counted(ctx)
  /\ at = "fetch" => ctx.insLeft > 0 \/ Code(ctx) = <<>>

Inv == TypeOK /\ Places /\ Counts

(* The invariant holds before the first call.                               *)
LEMMA InitInv == Init => Inv
  BY DEF Init, Inv, TypeOK, Places, Counts, NoLoad, EmptyStack

(* Stopping the process changes nothing but the status.                     *)
LEMMA StopInv ==
  ASSUME Inv, NEW outcomes, Stop(outcomes),
         outcomes \subseteq {"panic", "fault", "abort", "undefined"}
  PROVE  Inv'
  BY DEF Inv, TypeOK, Places, Counts, Stop, stackVars, Counted, Code

(* What decoding and fetching leave alone, and what they count.             *)
LEMMA DecodeFact ==
  ASSUME NEW p \in Program, p.insLeft > 0, NEW i \in ins
  PROVE  /\ Decoded(Fetched(p), i) \in Program
         /\ Decoded(Fetched(p), i).name = p.name
         /\ Decoded(Fetched(p), i).pc = p.pc + 1
         /\ Decoded(Fetched(p), i).insLeft = p.insLeft - 1
<1> DEFINE q == Fetched(p)
<1>1. /\ q \in Program /\ q.name = p.name /\ q.pc = p.pc + 1
      /\ q.insLeft = p.insLeft - 1
  <2>1. p.insLeft \in Nat /\ p.insLeft - 1 \in Nat /\ p.pc + 1 \in Int
    BY DEF Program
  <2>2. q = [p EXCEPT !.insLeft = p.insLeft - 1, !.pc = p.pc + 1]
    BY DEF Fetched
  <2> HIDE DEF q
  <2> QED BY <2>1, <2>2 DEF Program
<1>2. /\ Register(q, i.mid.mode) \in Int /\ Register(q, i.src.mode) \in Int
      /\ Register(q, i.dst.mode) \in Int
  BY <1>1 DEF Register, Program
<1>3. i.mid.v \in Int /\ i.src.v \in Int
  BY DEF ins
<1>4. Ind(i.src) \in Int
  BY <1>3 DEF Ind
<1> HIDE DEF q
<1>5. /\ Decoded(q, i) \in Program
      /\ Decoded(q, i).name = q.name
      /\ Decoded(q, i).pc = q.pc
      /\ Decoded(q, i).insLeft = q.insLeft
  <2> DEFINE mm == IF i.mid.mode = "none" THEN q.m
                   ELSE IF i.mid.mode = "imm" THEN i.mid.v
                   ELSE Register(q, i.mid.mode) + i.mid.v
             ss == IF i.src.mode \in {"fp", "mp"}
                   THEN Register(q, i.src.mode) + Ind(i.src) ELSE q.s
             dd == IF i.dst.mode \in {"fp", "mp"}
                   THEN Register(q, i.dst.mode) + Ind(i.src) ELSE q.d
  <2>1. mm \in Int /\ ss \in Int /\ dd \in Int
    BY <1>1, <1>2, <1>3, <1>4 DEF Program
  <2>2. Decoded(q, i) = [q EXCEPT !.m = mm, !.s = ss, !.d = dd]
    BY DEF Decoded
  <2> HIDE DEF mm, ss, dd
  <2> QED BY <1>1, <2>1, <2>2 DEF Program
<1> QED BY <1>1, <1>5 DEF q

(* A call of load_module begins.                                            *)
LEMMA LoadInv ==
  ASSUME Inv, NEW name \in DOMAIN Files \cup {NoName}, NEW for \in {"host", "init"},
         Load(name, for)
  PROVE  Inv'
  BY FileFacts DEF stackVars, Inv, TypeOK, Places, Counts, Load, Call, At, Counted, Code

(* A heap is mapped or refused.                                             *)
LEMMA NewHeapInv == ASSUME Inv, NewHeap PROVE Inv'
<1> DEFINE n == Files[load.name].size + HeapExtra
<1>1. load.name \in DOMAIN Files
  BY DEF Inv, Places, NewHeap, At
<1>2. n \in Nat \ {0}
  BY <1>1, FileFacts, LayoutAssumption
<1>3. Mapping(HeapBase, n).at \in Nat /\ Mapping(HeapBase, n).n \in Nat
  BY <1>2, PagesFact, LayoutAssumption DEF Mapping
<1>4. /\ load' \in [name : DOMAIN Files \cup {NoName}, for : {"host", "init", "iload"},
                    heap : Nat \cup {MAP_FAILED}]
      /\ load'.name = load.name /\ load'.for = load.for
  BY LayoutAssumption DEF Inv, TypeOK, NewHeap
<1>5. \A r \in mappings' : r.at \in Nat /\ r.n \in Nat
  BY <1>3 DEF Inv, TypeOK, NewHeap
<1> QED
  BY <1>1, <1>4, <1>5 DEF stackVars, Inv, TypeOK, Places, Counts, NewHeap, At, Counted, Code

(* The module goes to whoever asked for it.                                 *)
LEMMA FillHeapInv == ASSUME Inv, FillHeap PROVE Inv'
<1>1. CASE LoadFails
  BY <1>1, StopInv DEF FillHeap
<1>2. CASE ~LoadFails
  <2>1. NoLoad \in [name : DOMAIN Files \cup {NoName}, for : {"host", "init", "iload"},
                    heap : Nat \cup {MAP_FAILED}]
    BY DEF NoLoad
  <2>2. load.name \in DOMAIN Files
    BY DEF Inv, Places, FillHeap, At
  <2>3. Append(held, load.name) \in Seq(DOMAIN Files) /\ Append(held, load.name) # <<>>
    BY <2>2, AppendProperties DEF Inv, TypeOK
  <2>4. \A r \in mappings' : r.at \in Nat /\ r.n \in Nat
    BY <1>2 DEF Inv, TypeOK, FillHeap, Unmapped
  <2> QED
    BY <1>2, <2>1, <2>3, <2>4
       DEF stackVars, Inv, TypeOK, Places, Counts, FillHeap, At, Counted, Code
<1> QED BY <1>1, <1>2

(* The host drops a module.                                                 *)
LEMMA DropInv == ASSUME Inv, DropModule PROVE Inv'
<1>1. held' \in Seq(DOMAIN Files)
  BY LastFront DEF Inv, TypeOK, DropModule
<1>2. \A r \in mappings' : r.at \in Nat /\ r.n \in Nat
  BY DEF Inv, TypeOK, DropModule, Unmapped
<1> QED
  BY <1>1, <1>2 DEF stackVars, Inv, TypeOK, Places, Counts, DropModule, Call, At, Counted, Code

(* What setting a program up for the last module held does.                 *)
LEMMA SetUpFact ==
  ASSUME Inv, held # <<>>, SetUp(Last(held))
  PROVE  /\ held' \in Seq(DOMAIN Files)
         /\ queue' \in Seq(Program)
         /\ \A r \in mappings' : r.at \in Nat /\ r.n \in Nat
         /\ status' \in {status, "panic"}
         /\ status' = status => queue' # <<>> \/ status = "panic"
         /\ \A k \in 1 .. Len(queue') :
              /\ Counted(queue'[k])
              /\ queue'[k].insLeft = Len(Files[queue'[k].name].code)
<1> DEFINE f == Last(held)
           n == FrameSize(Files[f])
<1>1. f \in DOMAIN Files /\ Front(held) \in Seq(DOMAIN Files)
  BY LastFront DEF Inv, TypeOK
<1>2. CASE Refused(FrameBase, n)
  BY <1>2 DEF SetUp, Inv, TypeOK, Counts
<1>3. CASE ~Refused(FrameBase, n)
  <2>1. n \in Nat \ {0}
    BY <1>1, <1>3, FileFacts DEF Refused
  <2>2. Mapping(FrameBase, n).at \in Nat /\ Mapping(FrameBase, n).n \in Nat
    BY <2>1, PagesFact, LayoutAssumption DEF Mapping
  <2>3. mappings' = mappings \cup {Mapping(FrameBase, n)}
    BY <1>3 DEF SetUp
  <2>4. \A r \in mappings' : r.at \in Nat /\ r.n \in Nat
    BY <2>2, <2>3 DEF Inv, TypeOK
  <2>5. CASE Files[f].dsize = 0
    BY <1>3, <2>4, <2>5 DEF SetUp, Inv, TypeOK, Counts
  <2>6. CASE Files[f].dsize # 0
    <3>1. /\ held' = Front(held) /\ queue' = Append(queue, NewProgram(f))
          /\ status' = status
      BY <1>3, <2>6 DEF SetUp
    <3>2. queue \in Seq(Program) /\ NewProgram(f) \in Program
      BY <1>1, NewProgramType DEF Inv, TypeOK
    <3>3. /\ queue' \in Seq(Program) /\ queue' # <<>>
          /\ Len(queue') = Len(queue) + 1
          /\ \A k \in 1 .. Len(queue) : queue'[k] = queue[k]
          /\ queue'[Len(queue) + 1] = NewProgram(f)
      BY <3>1, <3>2, AppendProperties
    <3>4. /\ Counted(NewProgram(f))
          /\ NewProgram(f).insLeft = Len(Files[NewProgram(f).name].code)
      BY <1>1, FileFacts DEF Counted, NewProgram
    <3>5. \A k \in 1 .. Len(queue') :
            /\ Counted(queue'[k])
            /\ queue'[k].insLeft = Len(Files[queue'[k].name].code)
      BY <3>2, <3>3, <3>4 DEF Inv, Counts
    <3> QED BY <1>1, <2>4, <3>1, <3>3, <3>5
  <2> QED BY <2>5, <2>6
<1> QED BY <1>2, <1>3

(* A program is set up, by init or by the host.                             *)
LEMMA SchedmodInv == ASSUME Inv, Schedmod \/ HostSchedmod PROVE Inv'
<1>1. held # <<>> /\ SetUp(Last(held)) /\ status = "ok"
  BY DEF Inv, Places, Schedmod, HostSchedmod, Call, At
<1>2. /\ UNCHANGED <<build, load, ctx, frames, nextFrame>>
      /\ calls' \in Nat /\ at' \in {"host", "start"}
  BY DEF Inv, TypeOK, Schedmod, HostSchedmod, Call, At, stackVars
<1> QED
  BY <1>1, <1>2, SetUpFact DEF stackVars, Inv, TypeOK, Places, Counts, Counted, Code

(* spawn panics.                                                            *)
LEMMA SpawnInv == ASSUME Inv, Spawn PROVE Inv'
  BY DEF stackVars, Inv, TypeOK, Places, Counts, Spawn, Call, At, Counted, Code

(* The program that starts has all its instructions left.                   *)
LEMMA StartInv == ASSUME Inv, Start PROVE Inv'
<1>1. queue \in Seq(Program) /\ queue # <<>>
  BY DEF Inv, TypeOK, Places, Start, At
<1>2. /\ Last(queue) \in Program /\ Last(queue) = queue[Len(queue)]
      /\ Len(queue) \in 1 .. Len(queue)
      /\ Front(queue) \in Seq(Program) /\ Len(Front(queue)) = Len(queue) - 1
      /\ \A k \in 1 .. Len(Front(queue)) : Front(queue)[k] = queue[k]
  BY <1>1, LastFront
<1>3. ctx' = Last(queue) /\ queue' = Front(queue) /\ at' = "fetch"
      /\ UNCHANGED <<build, load, held, mappings, calls, status, frames, nextFrame>>
  BY DEF Start, stackVars
<1>4. \A k \in 1 .. Len(queue') :
        Counted(queue'[k]) /\ queue'[k].insLeft = Len(Files[queue'[k].name].code)
  BY <1>2, <1>3 DEF Inv, Counts
<1>5. Counted(ctx') /\ ctx'.insLeft = Len(Files[ctx'.name].code)
  BY <1>2, <1>3 DEF Inv, Counts
<1>6. ctx' \in Program /\ ctx' # NoProgram /\ ctx'.name \in DOMAIN Files
  BY <1>2, <1>3, ProgramFacts
<1>7. ctx'.insLeft > 0 \/ Code(ctx') = <<>>
  BY <1>5, <1>6, FileFacts, EmptySeq DEF Code
<1> QED
  BY <1>2, <1>3, <1>4, <1>5, <1>6, <1>7 DEF stackVars, Inv, TypeOK, Places, Counts

(* Fetching inside the code leaves an instruction to count down.            *)
LEMMA FetchInv == ASSUME Inv, Fetch PROVE Inv'
<1>1. ctx \in Program /\ ctx.name \in DOMAIN Files /\ ctx # NoProgram /\ at = "fetch"
  BY ProgramFacts DEF Inv, TypeOK, Fetch, At
<1>2. CASE ctx.pc \notin 0 .. Len(Code(ctx)) - 1
  BY <1>2, StopInv DEF Fetch
<1>3. CASE ctx.pc \in 0 .. Len(Code(ctx)) - 1
  <2> DEFINE i == Code(ctx)[ctx.pc + 1]
  <2>1. Code(ctx) \in Seq(ins) /\ Len(Code(ctx)) \in Nat
    BY <1>1, FileFacts DEF Code
  <2>2. i \in ins
    BY <1>3, <2>1, ElementOfSeq
  <2>3. ctx.insLeft > 0
    BY <1>1, <1>3, <2>1, EmptySeq DEF Inv, Counts
  <2>4. CASE i.op = "unknown" \/ (build = "debug" /\ Overflows(i))
    BY <1>3, <2>4, StopInv DEF Fetch
  <2>5. CASE ~(i.op = "unknown" \/ (build = "debug" /\ Overflows(i)))
    <3>1. ctx' = Decoded(Fetched(ctx), i) /\ at' = "execute"
          /\ UNCHANGED <<build, load, held, queue, mappings, calls, status, frames, nextFrame>>
      BY <1>3, <2>5 DEF Fetch, stackVars
    <3> HIDE DEF i
    <3>2. /\ ctx' \in Program /\ ctx'.name = ctx.name /\ ctx'.pc = ctx.pc + 1
          /\ ctx'.insLeft = ctx.insLeft - 1
      BY <1>1, <2>2, <2>3, <3>1, DecodeFact
    <3>3. Counted(ctx')
      <4>1. Counted(ctx) /\ Files[ctx.name].pc \in Int
            /\ Len(Files[ctx.name].code) \in Nat
        BY <1>1, FileFacts DEF Inv, Counts
      <4>2. ctx.pc \in Int /\ ctx.insLeft \in Nat
        BY <1>1, ProgramFacts
      <4>3. /\ ctx.pc + 1 >= Files[ctx.name].pc
            /\ (ctx.pc + 1) + (ctx.insLeft - 1)
               = Files[ctx.name].pc + Len(Files[ctx.name].code)
        BY <4>1, <4>2 DEF Counted
      <4> QED BY <3>2, <4>3 DEF Counted
    <3>4. ctx' # NoProgram
      BY <3>2, ProgramFacts
    <3> QED
      BY <3>1, <3>2, <3>3, <3>4 DEF stackVars, Inv, TypeOK, Places, Counts, Counted
  <2> QED BY <2>4, <2>5
<1> QED BY <1>2, <1>3

(* The loop goes on only while instructions are left.                       *)
LEMMA EndTurnInv == ASSUME Inv, at \in {"execute", "free"}, EndTurn PROVE Inv'
<1>1. ctx \in Program /\ ctx # NoProgram /\ ctx.insLeft \in Nat
  BY ProgramFacts DEF Inv, TypeOK
<1>2. \A r \in mappings' : r.at \in Nat /\ r.n \in Nat
  BY DEF Inv, TypeOK, EndTurn, Unmapped
<1>3. CASE LastTurn(ctx)
  BY <1>2, <1>3 DEF stackVars, Inv, TypeOK, Places, Counts, EndTurn, Counted, Code
<1>4. CASE ~LastTurn(ctx)
  <2>1. ctx.insLeft > 0
    BY <1>1, <1>4 DEF LastTurn
  <2> QED
    BY <1>1, <1>2, <1>4, <2>1 DEF stackVars, Inv, TypeOK, Places, Counts, EndTurn, Counted, Code
<1> QED BY <1>3, <1>4

(* ILOAD begins a load, or stops the process.                               *)
LEMMA IloadInv == ASSUME Inv, Iload PROVE Inv'
<1>1. ctx # NoProgram
  BY DEF Inv, TypeOK, Iload, At
<1>2. CASE StringsAt(ctx) = {}
  BY <1>2, StopInv DEF Iload
<1>3. CASE StringsAt(ctx) # {}
  <2> DEFINE name == NameAt(ctx)
  <2>1. /\ held' = held /\ queue' = queue /\ ctx' = ctx /\ mappings' = mappings
        /\ calls' = calls /\ status' = status /\ build' = build
        /\ frames' = frames /\ nextFrame' = nextFrame
        /\ \/ /\ name \in DOMAIN Files /\ at' = "heap"
              /\ load' = [name |-> name, for |-> "iload", heap |-> 0]
           \/ at' = "free" /\ load' = load
    BY <1>3 DEF Iload, stackVars
  <2> HIDE DEF name
  <2>2. TypeOK'
    BY <1>1, <2>1 DEF Inv, TypeOK
  <2>3. Places'
    BY <1>1, <2>1 DEF Inv, Places
  <2>4. Counts'
    BY <2>1 DEF Inv, Counts, Counted
  <2> QED BY <2>2, <2>3, <2>4 DEF Inv
<1> QED BY <1>2, <1>3

(* The name ILOAD made is dropped.                                          *)
LEMMA FreeNameInv == ASSUME Inv, FreeName PROVE Inv'
  BY EndTurnInv, StopInv DEF FreeName, At

(* Allocating, pushing and popping a frame keep the call stack a stack of   *)
(* frames.                                                                  *)
LEMMA StackOpInv ==
  ASSUME Inv, HostPushFrame \/ HostPopFrame \/ \E n \in FrameSizes : HostNewFrame(n)
  PROVE  Inv'
<1>1. frames \in Seq(Frame) /\ nextFrame \in Frame \cup {NoFrame}
  BY DEF Inv, TypeOK
<1>2. CASE HostPushFrame
  <2>1. frames' \in Seq(Frame) /\ nextFrame' = nextFrame
    BY <1>1, <1>2, ConcatProperties DEF HostPushFrame, PushFrame, CanPush, stackVars
  <2> QED
    BY <1>1, <1>2, <2>1
       DEF Inv, TypeOK, Places, Counts, HostPushFrame, Call, At, Counted, Code
<1>3. CASE HostPopFrame
  <2>1. frames' \in Seq(Frame) /\ nextFrame' = nextFrame
    BY <1>1, <1>3, LastFront DEF HostPopFrame, PopFrame, CanPop, stackVars
  <2> QED
    BY <1>1, <1>3, <2>1
       DEF Inv, TypeOK, Places, Counts, HostPopFrame, Call, At, Counted, Code
<1>4. ASSUME NEW n \in FrameSizes, HostNewFrame(n) PROVE Inv'
  <2>1. n \in Nat /\ FrameBase \in Nat
    BY LayoutAssumption
  <2>2. ~Refused(FrameBase, n) =>
          Mapping(FrameBase, n).at \in Nat /\ Mapping(FrameBase, n).n \in Nat
    BY <2>1, PagesFact DEF Refused, Mapping
  <2>3. \A r \in mappings' : r.at \in Nat /\ r.n \in Nat
    BY <1>4, <2>2 DEF Inv, TypeOK, HostNewFrame
  <2>4. frames' = frames /\ nextFrame' \in Frame \cup {NoFrame}
    BY <1>1, <1>4, <2>1 DEF HostNewFrame, NewFrame, stackVars, Frame
  <2> QED
    BY <1>1, <1>4, <2>3, <2>4
       DEF Inv, TypeOK, Places, Counts, HostNewFrame, Call, At, Counted, Code
<1> QED BY <1>2, <1>3, <1>4

(* Every step keeps the invariant.                                          *)
LEMMA StepInv == Inv /\ [Next]_vars => Inv'
<1> SUFFICES ASSUME Inv, [Next]_vars PROVE Inv'
  OBVIOUS
<1>1. ASSUME NEW name \in DOMAIN Files \cup {NoName}, NEW for \in {"host", "init"},
             Load(name, for)
      PROVE  Inv'
  BY <1>1, LoadInv
<1>2. CASE Execute
  BY <1>2, EndTurnInv DEF Execute, At
<1>3. CASE UNCHANGED vars
  BY <1>3 DEF vars, stackVars, Inv, TypeOK, Places, Counts, Counted, Code
<1> QED
  BY <1>1, <1>2, <1>3, NewHeapInv, FillHeapInv, DropInv, SchedmodInv, SpawnInv,
     StackOpInv, StartInv, FetchInv, IloadInv, FreeNameInv DEF Next, Run

(* Every state is of its type; in particular ins_left, an unsigned number   *)
(* that xec counts down before it looks at it, never underflows.            *)
THEOREM TypeCorrect == Spec => []TypeOK
<1>1. Inv => TypeOK
  BY DEF Inv
<1> QED
  BY InitInv, StepInv, <1>1, PTL DEF Spec

(* Whatever the files, a program entered at its first instruction never     *)
(* fetches past its code, though the interpreter does not compare the       *)
(* instruction pointer with anything.                                       *)
THEOREM FetchesStayInCode == Spec => []FetchesInCode
<1>1. Inv => FetchesInCode
  <2> SUFFICES ASSUME Inv, at = "fetch", Files[ctx.name].pc = 0, Code(ctx) # <<>>
               PROVE  ctx.pc \in 0 .. Len(Code(ctx)) - 1
    BY DEF FetchesInCode
  <2>1. ctx \in Program /\ ctx # NoProgram /\ ctx.insLeft > 0 /\ Counted(ctx)
    BY ProgramFacts DEF Inv, TypeOK, Counts
  <2>2. ctx.pc \in Int /\ ctx.insLeft \in Nat /\ Len(Code(ctx)) \in Nat
    BY <2>1, ProgramFacts, FileFacts DEF Code
  <2> QED BY <2>1, <2>2 DEF Counted, Code
<1> QED
  BY InitInv, StepInv, <1>1, PTL DEF Spec

-----------------------------------------------------------------------------
(* The inductive invariant behind the memory of programs.                   *)

(* Whoever counts on the mapping at HeapBase: a module held, a program, a   *)
(* module being filled.                                                     *)
Owners ==
  Len(held) + Len(queue) + (IF ctx = NoProgram THEN 0 ELSE 1)
  + (IF load.heap = HeapBase THEN 1 ELSE 0)

HeapFor(name, ms) == \E r \in ms : r.at = HeapBase /\ Files[name].dsize <= r.n

FrameFor(p, ms) ==
  \E r \in ms :
    r.at = FrameBase /\ FrameBase + FrameSize(Files[p.name]) <= r.at + r.n

Placed(p, ms) ==
  /\ p.MP = HeapBase /\ p.FP = FrameBase
  /\ p.TS = FrameBase + FrameSize(Files[p.name])
  /\ HeapFor(p.name, ms) /\ FrameFor(p, ms)

DisjointMappings ==
  \A r, q \in mappings : r # q => r.at + r.n <= q.at \/ q.at + q.n <= r.at

Memory ==
  /\ \A r \in mappings : r.n > 0
  /\ DisjointMappings
  /\ Owners <= 1
  /\ \A k \in 1 .. Len(held) : HeapFor(held[k], mappings)
  /\ load.heap = HeapBase => HeapFor(load.name, mappings)
  /\ at = "fill" => load.heap \in {HeapBase, MAP_FAILED}
  /\ \A k \in 1 .. Len(queue) : Placed(queue[k], mappings)
  /\ ctx # NoProgram => Placed(ctx, mappings)

(* The kernel maps memory only where none is mapped.                        *)
LEMMA NewMapping ==
  ASSUME Inv, Memory, NEW a \in Nat, NEW n \in Int, ~Refused(a, n),
         mappings' = mappings \cup {Mapping(a, n)}
  PROVE  /\ \A r \in mappings' : r.n > 0
         /\ DisjointMappings'
         /\ Mapping(a, n) \in mappings' /\ Mapping(a, n).at = a
         /\ Mapping(a, n).n >= n
         /\ \A r \in mappings : r.at # a
<1> DEFINE w == Mapping(a, n)
<1>1. n \in Nat \ {0} /\ \A r \in mappings : ~(a < r.at + r.n /\ r.at < a + Pages(n))
  BY DEF Refused
<1>2. Pages(n) \in Nat /\ Pages(n) >= n
  BY <1>1, PagesFact
<1>3. w.at = a /\ w.n = Pages(n)
  BY DEF Mapping
<1>4. \A r \in mappings : r.at \in Nat /\ r.n \in Nat /\ r.n > 0
  BY DEF Inv, TypeOK, Memory
<1>5. \A r \in mappings : r.at + r.n <= a \/ a + Pages(n) <= r.at
  BY <1>1, <1>2, <1>4
<1> HIDE DEF w
<1>6. \A r \in mappings : r.at # a
  BY <1>1, <1>2, <1>4, <1>5
<1>7. \A r, q \in mappings' : r # q => r.at + r.n <= q.at \/ q.at + q.n <= r.at
  <2> SUFFICES ASSUME NEW r \in mappings', NEW q \in mappings', r # q
               PROVE  r.at + r.n <= q.at \/ q.at + q.n <= r.at
    OBVIOUS
  <2>0. mappings' = mappings \cup {w}
    BY DEF w
  <2>1. CASE r \in mappings /\ q \in mappings
    BY <2>1 DEF Memory, DisjointMappings
  <2>2. CASE r = w /\ q \in mappings
    BY <2>2, <1>3, <1>5
  <2>3. CASE r \in mappings /\ q = w
    BY <2>3, <1>3, <1>5
  <2> QED BY <2>0, <2>1, <2>2, <2>3
<1> QED
  BY <1>1, <1>2, <1>3, <1>4, <1>6, <1>7 DEF w, DisjointMappings

(* What is mapped stays where it is when more is mapped.                    *)
LEMMA Grow ==
  ASSUME mappings \subseteq mappings'
  PROVE  /\ \A name : HeapFor(name, mappings) => HeapFor(name, mappings')
         /\ \A p : Placed(p, mappings) => Placed(p, mappings')
  BY DEF HeapFor, FrameFor, Placed

(* Taking a mapping away leaves the others apart.                           *)
LEMMA Shrink ==
  ASSUME Memory, mappings' \subseteq mappings
  PROVE  (\A r \in mappings' : r.n > 0) /\ DisjointMappings'
  BY DEF Memory, DisjointMappings

(* Nothing is mapped and nobody owns anything at first.                     *)
LEMMA InitMemory == Init => Memory
  BY LayoutAssumption DEF Init, Memory, DisjointMappings, Owners, NoLoad

(* Steps that map nothing and move no module.                               *)
LEMMA StillMemory ==
  ASSUME Memory, UNCHANGED <<held, queue, ctx, mappings>>,
         load'.heap = HeapBase => load.heap = HeapBase /\ load'.name = load.name,
         at' = "fill" => load'.heap \in {HeapBase, MAP_FAILED},
         Inv
  PROVE  Memory'
<1>1. Owners' <= Owners /\ Owners \in Nat /\ Owners' \in Nat
  BY DEF Owners, Inv, TypeOK
<1>2. /\ \A name : HeapFor(name, mappings) => HeapFor(name, mappings')
      /\ \A p : Placed(p, mappings) => Placed(p, mappings')
  BY Grow
<1> QED
  BY <1>1, <1>2 DEF Memory, DisjointMappings

(* A heap that is granted has no owner but the module being loaded.         *)
LEMMA NewHeapMemory == ASSUME Inv, Memory, NewHeap PROVE Memory'
<1> DEFINE n == Files[load.name].size + HeapExtra
<1>1. load.name \in DOMAIN Files
  BY DEF Inv, Places, NewHeap, At
<1>2. n \in Int /\ n >= Files[load.name].dsize /\ HeapBase \in Nat /\ HeapBase # MAP_FAILED
  BY <1>1, FileFacts, LayoutAssumption DEF MAP_FAILED
<1>3. load \in [name : DOMAIN Files \cup {NoName}, for : {"host", "init", "iload"},
                heap : Nat \cup {MAP_FAILED}]
  BY DEF Inv, TypeOK
<1>4. CASE Refused(HeapBase, n)
  <2>1. load'.heap = MAP_FAILED /\ UNCHANGED <<held, queue, ctx, mappings>>
    BY <1>3, <1>4 DEF NewHeap
  <2> QED BY <1>2, <2>1, StillMemory
<1>5. CASE ~Refused(HeapBase, n)
  <2>1. /\ load'.heap = HeapBase /\ load'.name = load.name
        /\ mappings' = mappings \cup {Mapping(HeapBase, n)}
        /\ UNCHANGED <<held, queue, ctx>>
    BY <1>3, <1>5 DEF NewHeap
  <2>2. /\ \A r \in mappings' : r.n > 0
        /\ DisjointMappings'
        /\ Mapping(HeapBase, n) \in mappings' /\ Mapping(HeapBase, n).at = HeapBase
        /\ Mapping(HeapBase, n).n >= n
        /\ \A r \in mappings : r.at # HeapBase
    BY <1>2, <1>5, <2>1, NewMapping
  <2>3. HeapFor(load.name, mappings')
    <3> DEFINE w == Mapping(HeapBase, n)
    <3>1. w.n \in Int
      BY <2>2, NewHeapInv DEF Inv, TypeOK
    <3>2. w \in mappings' /\ w.at = HeapBase /\ Files[load.name].dsize <= w.n
      BY <1>1, <1>2, <2>2, <3>1, FileFacts
    <3> HIDE DEF w
    <3> QED BY <2>1, <3>2 DEF HeapFor
  <2>4. \A name : ~HeapFor(name, mappings)
    BY <2>2 DEF HeapFor
  <2>5. Len(held) = 0 /\ Len(queue) = 0 /\ ctx = NoProgram
    <3>1. Len(held) \in Nat /\ Len(queue) \in Nat
      BY DEF Inv, TypeOK
    <3>2. ~(1 \in 1 .. Len(held)) /\ ~(1 \in 1 .. Len(queue)) /\ ctx = NoProgram
      BY <2>4 DEF Memory, Placed
    <3> QED BY <3>1, <3>2
  <2>6. Owners' = 1
    BY <2>1, <2>5 DEF Owners
  <2>7. Len(held') = 0 /\ Len(queue') = 0 /\ ctx' = NoProgram
    BY <2>1, <2>5
  <2> QED
    BY <2>1, <2>2, <2>3, <2>6, <2>7 DEF Memory
<1> QED BY <1>4, <1>5

(* A call of load_module maps nothing yet.                                  *)
LEMMA LoadMemory ==
  ASSUME Inv, Memory, NEW name \in DOMAIN Files \cup {NoName},
         NEW for \in {"host", "init"}, Load(name, for)
  PROVE  Memory'
<1>1. /\ UNCHANGED <<held, queue, ctx, mappings>> /\ (load' = load \/ load'.heap = 0)
      /\ at' # "fill"
  BY DEF Load, Call, At
<1>2. HeapBase # 0
  BY LayoutAssumption
<1> QED BY <1>1, <1>2, StillMemory

(* A module loaded for ILOAD would free the heap of the program: that       *)
(* program's own claim on the mapping rules it out.                         *)
LEMMA FillHeapMemory == ASSUME Inv, Memory, FillHeap PROVE Memory'
<1>1. CASE LoadFails
  BY <1>1, StillMemory DEF FillHeap, Stop, Memory
<1>2. CASE ~LoadFails
  <2>1. load.heap \in Nat /\ load.name \in DOMAIN Files
    BY <1>2 DEF LoadFails, Inv, TypeOK, Places, FillHeap, At
  <2>2. load' = NoLoad /\ load'.heap # HeapBase /\ UNCHANGED <<queue, ctx>>
    BY <1>2, LayoutAssumption DEF FillHeap, NoLoad
  <2>3. Len(held) \in Nat /\ Len(queue) \in Nat /\ held \in Seq(DOMAIN Files)
    BY DEF Inv, TypeOK
  <2>4. load.heap = HeapBase
    BY <1>2 DEF LoadFails, Memory, FillHeap, At
  <2>5. Len(held) = 0 /\ Len(queue) = 0 /\ ctx = NoProgram
    BY <2>3, <2>4 DEF Memory, Owners
  <2>6. load.for # "iload"
    BY <2>5 DEF Inv, Places, FillHeap, At
  <2>7. held' = Append(held, load.name) /\ UNCHANGED mappings
    BY <1>2, <2>6 DEF FillHeap
  <2>8. Len(held') = 1 /\ held'[1] = load.name
    BY <2>1, <2>3, <2>5, <2>7, AppendProperties
  <2>9. HeapFor(load.name, mappings')
    BY <2>4, <2>7 DEF Memory, HeapFor
  <2>10. Owners' = 1
    BY <2>2, <2>5, <2>8 DEF Owners
  <2>11. \A k \in 1 .. Len(held') : HeapFor(held'[k], mappings')
    BY <2>2, <2>7, <2>8, <2>9 DEF HeapFor
  <2>12. at' # "fill"
    BY <1>2, <2>6 DEF FillHeap
  <2> QED
    BY <2>2, <2>5, <2>7, <2>10, <2>11, <2>12 DEF Memory, DisjointMappings
<1> QED BY <1>1, <1>2

(* The host can only drop a module that is not a program's.                 *)
LEMMA DropMemory == ASSUME Inv, Memory, DropModule PROVE Memory'
<1>1. /\ held # <<>> /\ held \in Seq(DOMAIN Files) /\ Len(queue) \in Nat
      /\ held' = Front(held) /\ mappings' \subseteq mappings
      /\ UNCHANGED <<at, load, queue, ctx>> /\ at = "host"
  BY DEF Inv, TypeOK, DropModule, Call, At, Unmapped
<1>2. Len(held) \in Nat /\ Len(held) > 0 /\ Len(held') = Len(held) - 1
  BY <1>1, LastFront, EmptySeq
<1>3. Len(held') = 0 /\ Len(queue) = 0 /\ ctx = NoProgram /\ load.heap # HeapBase
  BY <1>1, <1>2 DEF Memory, Owners
<1>4. Owners' = 0
  BY <1>1, <1>3 DEF Owners
<1> QED
  BY <1>1, <1>3, <1>4, Shrink DEF Memory

(* A new program takes over the claim of the module it is made for.         *)
LEMMA SetUpMemory ==
  ASSUME Inv, Memory, held # <<>>, SetUp(Last(held)), UNCHANGED <<load, ctx>>,
         at' # "fill"
  PROVE  Memory'
<1> DEFINE f == Last(held)
           n == FrameSize(Files[f])
<1>1. /\ f \in DOMAIN Files /\ f = held[Len(held)] /\ Len(held) \in 1 .. Len(held)
      /\ Len(Front(held)) = Len(held) - 1
      /\ \A k \in 1 .. Len(Front(held)) : Front(held)[k] = held[k]
  BY LastFront DEF Inv, TypeOK
<1>2. CASE Refused(FrameBase, n)
  <2>1. UNCHANGED <<held, queue, mappings>>
    BY <1>2 DEF SetUp
  <2> QED BY <2>1 DEF Memory, Owners, HeapFor, Placed, FrameFor, DisjointMappings
<1>3. CASE ~Refused(FrameBase, n)
  <2>1. mappings' = mappings \cup {Mapping(FrameBase, n)}
    BY <1>3 DEF SetUp
  <2>2. n \in Int /\ FrameBase \in Nat
    BY <1>1, FileFacts, LayoutAssumption
  <2>3. /\ \A r \in mappings' : r.n > 0
        /\ DisjointMappings'
        /\ Mapping(FrameBase, n) \in mappings' /\ Mapping(FrameBase, n).at = FrameBase
        /\ Mapping(FrameBase, n).n >= n
    BY <1>3, <2>1, <2>2, NewMapping
  <2>4. /\ \A name : HeapFor(name, mappings) => HeapFor(name, mappings')
      /\ \A p : Placed(p, mappings) => Placed(p, mappings')
    BY <2>1, Grow
  <2>5. CASE Files[f].dsize = 0
    <3>1. UNCHANGED <<held, queue>>
      BY <1>3, <2>5 DEF SetUp
    <3> QED BY <2>3, <2>4, <3>1 DEF Memory, Owners
  <2>6. CASE Files[f].dsize # 0
    <3> DEFINE q == NewProgram(f)
    <3>1. held' = Front(held) /\ queue' = Append(queue, q)
      BY <1>3, <2>6 DEF SetUp
    <3>2. queue \in Seq(Program) /\ q \in Program
      BY <1>1, NewProgramType DEF Inv, TypeOK
    <3>3. /\ Len(queue') = Len(queue) + 1
          /\ \A k \in 1 .. Len(queue) : queue'[k] = queue[k]
          /\ queue'[Len(queue) + 1] = q
      BY <3>1, <3>2, AppendProperties
    <3>4. HeapFor(f, mappings)
      BY <1>1 DEF Memory
    <3>5. Placed(q, mappings')
      <4> DEFINE w == Mapping(FrameBase, n)
      <4>1. w \in mappings' /\ w.at = FrameBase /\ w.n >= n /\ w.n \in Int
        BY <2>3, SetUpFact
      <4>2. q.name = f /\ q.MP = HeapBase /\ q.FP = FrameBase /\ q.TS = FrameBase + n
        BY DEF NewProgram
      <4>3. FrameBase + n <= w.at + w.n
        BY <2>2, <4>1
      <4> HIDE DEF w, n, q, f
      <4>4. HeapFor(f, mappings')
        BY <2>4, <3>4
      <4> QED BY <4>1, <4>2, <4>3, <4>4 DEF Placed, FrameFor, n
    <3> HIDE DEF q
    <3>6. Owners' = Owners
      <4>1. Len(held') = Len(held) - 1 /\ Len(held) \in Nat /\ Len(queue) \in Nat
        BY <1>1, <3>1, <3>2 DEF Inv, TypeOK
      <4> QED BY <3>3, <4>1 DEF Owners
    <3>7. \A k \in 1 .. Len(queue') : Placed(queue'[k], mappings')
      BY <2>4, <3>2, <3>3, <3>5 DEF Memory
    <3>8. \A k \in 1 .. Len(held') : HeapFor(held'[k], mappings')
      BY <1>1, <2>4, <3>1 DEF Memory
    <3> QED BY <2>3, <2>4, <3>6, <3>7, <3>8 DEF Memory
  <2> QED BY <2>5, <2>6
<1> QED BY <1>2, <1>3

(* The running program takes over the claim it had in the queue.            *)
LEMMA StartMemory == ASSUME Inv, Memory, Start PROVE Memory'
<1>1. queue \in Seq(Program) /\ queue # <<>>
  BY DEF Inv, TypeOK, Places, Start, At
<1>2. /\ Last(queue) \in Program /\ Last(queue) = queue[Len(queue)]
      /\ Len(queue) \in 1 .. Len(queue) /\ Len(queue) \in Nat
      /\ Front(queue) \in Seq(Program) /\ Len(Front(queue)) = Len(queue) - 1
      /\ \A k \in 1 .. Len(Front(queue)) : Front(queue)[k] = queue[k]
  BY <1>1, LastFront
<1>3. ctx' = Last(queue) /\ queue' = Front(queue) /\ at' = "fetch"
      /\ UNCHANGED <<load, held, mappings>>
  BY DEF Start
<1>4. ctx = NoProgram
  BY <1>2 DEF Memory, Owners, Inv, TypeOK
<1>5. ctx' # NoProgram
  BY <1>2, <1>3, ProgramFacts
<1>6. Owners' = Owners
  <2>1. /\ Len(queue') = Len(queue) - 1 /\ Len(queue) \in Nat
        /\ held' = held /\ Len(held) \in Nat /\ load' = load
    BY <1>1, <1>2, <1>3 DEF Inv, TypeOK
  <2> QED BY <1>4, <1>5, <2>1 DEF Owners
<1>7. /\ \A name : HeapFor(name, mappings) => HeapFor(name, mappings')
      /\ \A p : Placed(p, mappings) => Placed(p, mappings')
  BY <1>3, Grow
<1>8. \A k \in 1 .. Len(queue') : Placed(queue'[k], mappings')
  BY <1>2, <1>3, <1>7 DEF Memory
<1>9. Placed(ctx', mappings')
  BY <1>2, <1>3, <1>7 DEF Memory
<1> QED
  BY <1>3, <1>6, <1>7, <1>8, <1>9 DEF Memory, DisjointMappings

(* Fetching and decoding leave the base registers alone.                    *)
LEMMA FetchMemory == ASSUME Inv, Memory, Fetch PROVE Memory'
<1>1. ctx \in Program /\ ctx.name \in DOMAIN Files /\ ctx # NoProgram
  BY ProgramFacts DEF Inv, TypeOK, Fetch, At
<1>2. CASE UNCHANGED <<at, load, held, queue, ctx, mappings>>
  BY <1>2, StillMemory DEF Memory
<1>3. CASE ctx.pc \in 0 .. Len(Code(ctx)) - 1 /\ at' = "execute"
           /\ ctx' = Decoded(Fetched(ctx), Code(ctx)[ctx.pc + 1])
           /\ UNCHANGED <<load, held, queue, mappings>>
  <2>1. /\ ctx'.name = ctx.name /\ ctx'.MP = ctx.MP /\ ctx'.FP = ctx.FP
        /\ ctx'.TS = ctx.TS
    BY <1>1, <1>3 DEF Decoded, Fetched, Program
  <2>2. ctx' # NoProgram
    BY <1>1, <2>1, FileFacts DEF NoProgram
  <2>3. Owners' = Owners
    BY <1>1, <1>3, <2>2 DEF Owners
  <2>4. Placed(ctx', mappings')
    BY <1>1, <1>3, <2>1 DEF Memory, Placed, HeapFor, FrameFor
  <2> QED
    BY <1>3, <2>2, <2>3, <2>4 DEF Memory, Placed, HeapFor, FrameFor, DisjointMappings
<1> QED BY <1>2, <1>3 DEF Fetch, Stop

(* The end of the program frees its own heap; nobody else counts on it.     *)
LEMMA EndTurnMemory ==
  ASSUME Inv, Memory, at \in {"execute", "free"}, EndTurn PROVE Memory'
<1>1. ctx # NoProgram /\ Len(held) \in Nat /\ Len(queue) \in Nat
  BY DEF Inv, TypeOK
<1>2. CASE LastTurn(ctx)
  <2>1. /\ ctx' = NoProgram /\ at' = "host" /\ mappings' \subseteq mappings
        /\ UNCHANGED <<load, held, queue>>
    BY <1>2 DEF EndTurn, Unmapped
  <2>2. Len(held) = 0 /\ Len(queue) = 0 /\ load.heap # HeapBase
    BY <1>1 DEF Memory, Owners
  <2>3. Owners' = 0
    BY <2>1, <2>2 DEF Owners
  <2> QED BY <2>1, <2>2, <2>3, Shrink DEF Memory
<1>3. CASE ~LastTurn(ctx)
  BY <1>3, StillMemory DEF EndTurn
<1> QED BY <1>2, <1>3

(* ILOAD forgets no heap when it begins a load.                             *)
LEMMA IloadMemory == ASSUME Inv, Memory, Iload PROVE Memory'
<1>1. UNCHANGED <<held, queue, ctx, mappings>>
  BY DEF Iload, Stop
<1>2. load' = load \/ load'.heap = 0
  BY DEF Iload, Stop
<1>3. at' # "fill"
  BY DEF Iload, Stop, At
<1>4. HeapBase # 0
  BY LayoutAssumption
<1> QED BY <1>1, <1>2, <1>3, <1>4, StillMemory

(* The end of an ILOAD is a turn like any other.                            *)
LEMMA FreeNameMemory == ASSUME Inv, Memory, FreeName PROVE Memory'
<1>1. CASE EndTurn
  BY <1>1, EndTurnMemory DEF FreeName, At
<1>2. CASE Stop({"abort", "undefined"})
  BY <1>2, StillMemory DEF Stop, FreeName, At
<1> QED BY <1>1, <1>2 DEF FreeName

(* A frame of the host's call stack is one more mapping.                    *)
LEMMA NewFrameMemory ==
  ASSUME Inv, Memory, NEW n \in FrameSizes, HostNewFrame(n) PROVE Memory'
<1>1. UNCHANGED <<at, load, held, queue, ctx>> /\ n \in Int /\ FrameBase \in Nat
  BY LayoutAssumption DEF HostNewFrame
<1>2. CASE Refused(FrameBase, n)
  BY <1>1, <1>2, StillMemory DEF HostNewFrame, Call, At
<1>3. CASE ~Refused(FrameBase, n)
  <2>1. mappings' = mappings \cup {Mapping(FrameBase, n)}
    BY <1>3 DEF HostNewFrame
  <2>2. (\A r \in mappings' : r.n > 0) /\ DisjointMappings'
    BY <1>1, <1>3, <2>1, NewMapping
  <2>3. /\ \A name : HeapFor(name, mappings) => HeapFor(name, mappings')
        /\ \A p : Placed(p, mappings) => Placed(p, mappings')
    BY <2>1, Grow
  <2>4. Owners' = Owners
    BY <1>1 DEF Owners
  <2> QED BY <1>1, <2>2, <2>3, <2>4 DEF Memory
<1> QED BY <1>2, <1>3

(* Every step keeps memory in order.                                        *)
LEMMA StepMemory == Inv /\ Memory /\ [Next]_vars => Memory'
<1> SUFFICES ASSUME Inv, Memory, [Next]_vars PROVE Memory'
  OBVIOUS
<1>1. ASSUME NEW name \in DOMAIN Files \cup {NoName}, NEW for \in {"host", "init"},
             Load(name, for)
      PROVE  Memory'
  BY <1>1, LoadMemory
<1>2. CASE Execute
  BY <1>2, EndTurnMemory DEF Execute, At
<1>3. CASE Schedmod
  BY <1>3, SetUpMemory DEF Schedmod, At, Inv, Places
<1>4. CASE HostSchedmod
  BY <1>4, SetUpMemory DEF HostSchedmod, Call, At
<1>5. CASE Spawn
  BY <1>5, StillMemory DEF Spawn, Call, At
<1>6. CASE UNCHANGED vars
  BY <1>6, StillMemory DEF vars, Memory
<1>7. CASE HostPushFrame \/ HostPopFrame
  BY <1>7, StillMemory DEF HostPushFrame, HostPopFrame, Call, At
<1>8. ASSUME NEW n \in FrameSizes, HostNewFrame(n) PROVE Memory'
  BY <1>8, NewFrameMemory
<1> QED
  BY <1>1, <1>2, <1>3, <1>4, <1>5, <1>6, <1>7, <1>8, NewHeapMemory, FillHeapMemory, DropMemory,
     StartMemory, FetchMemory, IloadMemory, FreeNameMemory DEF Next, Run

(* The two invariants hold together.                                        *)
LEMMA InvMemory == Spec => [](Inv /\ Memory)
<1>1. Init => Inv /\ Memory
  BY InitInv, InitMemory
<1>2. Inv /\ Memory /\ [Next]_vars => (Inv /\ Memory)'
  BY StepInv, StepMemory
<1> QED BY <1>1, <1>2, PTL DEF Spec

(* A program, scheduled or running, is one of the queue or the running one. *)
LEMMA ProgramsPlaced ==
  ASSUME Inv, Memory, NEW p \in Programs
  PROVE  Placed(p, mappings) /\ p \in Program
<1>1. queue \in Seq(Program) /\ ctx \in Program \cup {NoProgram}
  BY DEF Inv, TypeOK
<1>2. CASE p \in ToSet(queue)
  <2>1. PICK k \in 1 .. Len(queue) : p = queue[k]
    BY <1>1, <1>2 DEF ToSet
  <2> QED BY <1>1, <2>1 DEF Memory
<1>3. CASE p = ctx /\ ctx # NoProgram
  BY <1>1, <1>3 DEF Memory
<1> QED BY <1>2, <1>3 DEF Programs

(* The module data of a program stays mapped for as long as the program     *)
(* lives, whatever is loaded and dropped meanwhile.                         *)
THEOREM HeapsOutlivePrograms == Spec => []HeapOutlivesProgram
<1>1. Inv /\ Memory => HeapOutlivesProgram
  <2> SUFFICES ASSUME Inv, Memory, NEW p \in Programs
               PROVE  \E r \in mappings : r.at = p.MP /\ Files[p.name].dsize <= r.n
    BY DEF HeapOutlivesProgram
  <2> QED BY ProgramsPlaced DEF Placed, HeapFor
<1> QED BY <1>1, InvMemory, PTL

(* There is never more than one program, and its frame is its own and large *)
(* enough.                                                                  *)
THEOREM FramesAreOwn == Spec => []FrameIsOwn
<1>1. Inv /\ Memory => FrameIsOwn
  <2> SUFFICES ASSUME Inv, Memory PROVE FrameIsOwn
    OBVIOUS
  <2>1. Len(queue) + Cardinality({ctx} \ {NoProgram}) <= 1
    <3>1. Cardinality({ctx} \ {NoProgram}) = IF ctx = NoProgram THEN 0 ELSE 1
      <4>1. CASE ctx = NoProgram
        <5>1. {ctx} \ {NoProgram} = {}
          BY <4>1
        <5> QED BY <4>1, <5>1, FS_EmptySet
      <4>2. CASE ctx # NoProgram
        <5>1. {ctx} \ {NoProgram} = {ctx}
          BY <4>2
        <5> QED BY <4>2, <5>1, FS_Singleton
      <4> QED BY <4>1, <4>2
    <3>2. Len(held) \in Nat /\ Len(queue) \in Nat
      BY DEF Inv, TypeOK
    <3> QED BY <3>1, <3>2 DEF Memory, Owners
  <2>2. ASSUME NEW p \in Programs
        PROVE  /\ p.TS - p.FP >= Files[p.name].esize + 16
               /\ p.TS - p.FP >= Files[p.name].stack
               /\ \E r \in mappings : r.at = p.FP /\ p.TS <= r.at + r.n
               /\ \A r \in mappings :
                    r.at # p.FP => r.at + r.n <= p.FP \/ p.TS <= r.at
    <3>1. Placed(p, mappings) /\ p.name \in DOMAIN Files
      BY ProgramsPlaced, ProgramFacts
    <3>2. /\ Files[p.name].stack \in Int /\ Files[p.name].esize \in Int
          /\ FrameSize(Files[p.name]) \in Int
          /\ FrameSize(Files[p.name]) >= Files[p.name].stack
          /\ FrameSize(Files[p.name]) >= Files[p.name].esize + 16
      BY <3>1, FileFacts
    <3>3. /\ p.FP = FrameBase /\ p.TS = FrameBase + FrameSize(Files[p.name])
          /\ FrameBase \in Nat
      BY <3>1, LayoutAssumption DEF Placed
    <3>4. PICK w \in mappings : w.at = FrameBase /\ p.TS <= w.at + w.n
      BY <3>1, <3>3 DEF Placed, FrameFor
    <3>5. \A r \in mappings : r.at \in Nat /\ r.n \in Nat
      BY DEF Inv, TypeOK
    <3>6. \A r \in mappings : r # w => r.at + r.n <= w.at \/ w.at + w.n <= r.at
      BY <3>4 DEF Memory, DisjointMappings
    <3>7. ASSUME NEW r \in mappings, r.at # p.FP
          PROVE  r.at + r.n <= p.FP \/ p.TS <= r.at
      BY <3>2, <3>3, <3>4, <3>5, <3>6, <3>7
    <3> HIDE DEF Placed
    <3>8. p.TS - p.FP = FrameSize(Files[p.name])
      BY <3>2, <3>3
    <3> QED BY <3>2, <3>3, <3>4, <3>7, <3>8
  <2> QED BY <2>1, <2>2 DEF FrameIsOwn
<1> QED BY <1>1, InvMemory, PTL

-----------------------------------------------------------------------------
(* The call stack.                                                          *)

(* A stack that refers to a frame refers to the one at FrameBase, and then  *)
(* there is no program: both ask vm_allocate for the same address.          *)
Framed == \E r \in mappings : r.at = FrameBase
Stacked ==
  /\ \A f \in FramesHeld : f.base = FrameBase
  /\ FramesHeld # {} => Framed /\ queue = <<>> /\ ctx = NoProgram

(* Steps that leave the stack alone.                                        *)
LEMMA StillStacked ==
  ASSUME Stacked, UNCHANGED stackVars, Framed => Framed',
         FramesHeld # {} => queue' = queue /\ ctx' = ctx
  PROVE  Stacked'
<1>1. FramesHeld' = FramesHeld
  BY DEF FramesHeld, stackVars
<1> QED BY <1>1 DEF Stacked

(* Dropping a heap does not take the mapping at FrameBase.                  *)
LEMMA FramesStay ==
  /\ Unmapped(HeapBase) \subseteq mappings
  /\ Framed => \E r \in Unmapped(HeapBase) : r.at = FrameBase
  BY LayoutAssumption DEF Framed, Unmapped

(* Where a mapping at FrameBase is granted there was none, and so no        *)
(* program and no frame.                                                    *)
LEMMA GrantedAlone ==
  ASSUME Inv, Memory, Stacked, NEW n \in Int, ~Refused(FrameBase, n)
  PROVE  ~Framed /\ FramesHeld = {} /\ queue = <<>> /\ ctx = NoProgram
<1>1. ~Framed
  <2>1. n \in Nat \ {0} /\ \A r \in mappings :
          ~(FrameBase < r.at + r.n /\ r.at < FrameBase + Pages(n))
    BY DEF Refused
  <2>2. Pages(n) \in Nat /\ Pages(n) >= n /\ FrameBase \in Nat
    BY <2>1, PagesFact, LayoutAssumption
  <2>3. \A r \in mappings : r.n > 0 /\ r.n \in Nat
    BY DEF Inv, TypeOK, Memory
  <2> QED BY <2>1, <2>2, <2>3 DEF Framed
<1>2. \A p : ~Placed(p, mappings)
  BY <1>1 DEF Placed, FrameFor, Framed
<1>3. queue = <<>>
  <2>1. queue \in Seq(Program)
    BY DEF Inv, TypeOK
  <2>2. Len(queue) = 0
    <3>1. Len(queue) \in Nat /\ ~(1 \in 1 .. Len(queue))
      BY <1>2, <2>1 DEF Memory
    <3> QED BY <3>1
  <2> QED BY <2>1, <2>2, EmptySeq
<1> QED BY <1>1, <1>2, <1>3 DEF Stacked, Memory

(* Setting a program up, for whichever caller.                              *)
LEMMA SetUpStacked ==
  ASSUME Inv, Memory, Stacked, Schedmod \/ HostSchedmod PROVE Stacked'
<1> DEFINE n == FrameSize(Files[Last(held)])
<1>1. held # <<>> /\ SetUp(Last(held)) /\ UNCHANGED <<ctx, stackVars>>
  BY DEF Inv, Places, Schedmod, HostSchedmod, Call, At
<1>2. n \in Int
  BY <1>1, LastFront, FileFacts DEF Inv, TypeOK
<1>3. CASE Refused(FrameBase, n)
  BY <1>1, <1>3, StillStacked DEF SetUp, Framed
<1>4. CASE ~Refused(FrameBase, n)
  <2>1. FramesHeld = {} /\ ~Framed
    BY <1>2, <1>4, GrantedAlone
  <2> QED BY <1>1, <2>1, StillStacked
<1> QED BY <1>3, <1>4

(* The operations of the stack itself.                                      *)
LEMMA StackOpStacked ==
  ASSUME Inv, Memory, Stacked,
         (\E n \in FrameSizes : HostNewFrame(n)) \/ HostPushFrame \/ HostPopFrame
  PROVE  Stacked'
<1>1. frames \in Seq(Frame)
  BY DEF Inv, TypeOK
<1>2. CASE UNCHANGED <<mappings, stackVars, queue, ctx>>
  BY <1>2, StillStacked DEF Framed
<1>3. ASSUME NEW n \in FrameSizes, HostNewFrame(n), ~Refused(FrameBase, n)
      PROVE  Stacked'
  <2>1. frames' = frames /\ nextFrame' = [base |-> FrameBase, entry_ip |-> 0]
        /\ mappings' = mappings \cup {Mapping(FrameBase, n)}
        /\ UNCHANGED <<queue, ctx>>
    BY <1>3 DEF HostNewFrame, NewFrame, Call, At
  <2>2. FramesHeld = {} /\ queue = <<>> /\ ctx = NoProgram
    BY <1>3, GrantedAlone, LayoutAssumption
  <2>3. \A f \in FramesHeld' : f.base = FrameBase
    BY <2>1, <2>2 DEF FramesHeld
  <2>4. Framed'
    <3>1. Mapping(FrameBase, n) \in mappings' /\ Mapping(FrameBase, n).at = FrameBase
      BY <2>1 DEF Mapping
    <3> QED BY <3>1 DEF Framed
  <2> QED BY <2>1, <2>2, <2>3, <2>4 DEF Stacked
<1>4. CASE HostPushFrame /\ CanPush
  <2>1. frames' = <<nextFrame>> \o frames /\ UNCHANGED <<nextFrame, mappings, queue, ctx>>
    BY <1>4 DEF HostPushFrame, PushFrame, Call, At
  <2>2. nextFrame \in Frame /\ nextFrame \in FramesHeld
    BY <1>4 DEF Inv, TypeOK, CanPush, FramesHeld
  <2>3. FramesHeld' \subseteq FramesHeld
    <3>1. /\ <<nextFrame>> \in Seq(Frame) /\ Len(<<nextFrame>>) = 1
          /\ <<nextFrame>>[1] = nextFrame
      BY <2>2
    <3>2. /\ Len(frames') = 1 + Len(frames) /\ Len(frames) \in Nat
          /\ frames'[1] = nextFrame
          /\ \A k \in 1 .. Len(frames) : frames'[1 + k] = frames[k]
      BY <1>1, <2>1, <3>1, ConcatProperties
    <3>3. ASSUME NEW k \in 1 .. Len(frames') PROVE frames'[k] \in FramesHeld
      <4>1. CASE k = 1
        BY <2>2, <3>2, <4>1
      <4>2. CASE k # 1
        <5>1. k - 1 \in 1 .. Len(frames) /\ k = 1 + (k - 1)
          BY <3>2, <4>2
        <5>2. frames'[k] = frames[k - 1]
          BY <3>2, <5>1
        <5> QED BY <5>1, <5>2 DEF FramesHeld, ToSet
      <4> QED BY <4>1, <4>2
    <3> QED BY <2>1, <3>3 DEF FramesHeld, ToSet
  <2>4. Framed' = Framed
    BY <2>1 DEF Framed
  <2> QED BY <2>1, <2>3, <2>4 DEF Stacked
<1>5. CASE HostPopFrame /\ CanPop
  <2>1. frames' = Front(frames) /\ UNCHANGED <<nextFrame, mappings, queue, ctx>>
    BY <1>5 DEF HostPopFrame, PopFrame, Call, At
  <2>2. /\ Len(frames') = Len(frames) - 1 /\ Len(frames) \in Nat
        /\ \A k \in 1 .. Len(frames') : frames'[k] = frames[k]
    BY <1>1, <1>5, <2>1, LastFront DEF CanPop
  <2>3. FramesHeld' \subseteq FramesHeld
    <3>1. \A k \in 1 .. Len(frames') : k \in 1 .. Len(frames) /\ frames'[k] = frames[k]
      BY <2>2
    <3> QED BY <2>1, <3>1 DEF FramesHeld, ToSet
  <2>4. Framed' = Framed
    BY <2>1 DEF Framed
  <2> QED BY <2>1, <2>3, <2>4 DEF Stacked
<1>6. ASSUME NEW n \in FrameSizes, HostNewFrame(n), Refused(FrameBase, n)
      PROVE  UNCHANGED <<mappings, stackVars, queue, ctx>>
  BY <1>6 DEF HostNewFrame
<1>7. CASE HostPushFrame /\ ~CanPush
  BY <1>2, <1>7 DEF HostPushFrame
<1>8. CASE HostPopFrame /\ ~CanPop
  BY <1>2, <1>8 DEF HostPopFrame
<1> QED BY <1>2, <1>3, <1>4, <1>5, <1>6, <1>7, <1>8

(* Stacked is inductive, given the two invariants before it.                *)
LEMMA StepStacked == Inv /\ Memory /\ Stacked /\ [Next]_vars => Stacked'
<1> SUFFICES ASSUME Inv, Memory, Stacked, [Next]_vars PROVE Stacked'
  OBVIOUS
<1>1. ASSUME NEW name \in DOMAIN Files \cup {NoName}, NEW for \in {"host", "init"},
             Load(name, for)
      PROVE  Stacked'
  BY <1>1, StillStacked DEF Load, Framed
<1>2. CASE NewHeap
  BY <1>2, StillStacked DEF NewHeap, Framed
<1>3. CASE FillHeap
  <2>1. load.heap \in {HeapBase, MAP_FAILED}
    BY <1>3 DEF Memory, FillHeap, At
  <2>2. CASE LoadFails
    BY <1>3, <2>2, StillStacked DEF FillHeap, Stop, Framed
  <2>3. CASE ~LoadFails
    <3>1. mappings' \in {mappings, Unmapped(HeapBase)} /\ UNCHANGED <<queue, ctx, stackVars>>
      BY <1>3, <2>1, <2>3 DEF FillHeap, LoadFails
    <3> QED BY <3>1, FramesStay, StillStacked DEF Framed
  <2> QED BY <2>2, <2>3
<1>4. CASE DropModule
  BY <1>4, FramesStay, StillStacked DEF DropModule, Framed
<1>5. CASE Schedmod \/ HostSchedmod
  BY <1>5, SetUpStacked
<1>6. CASE Spawn
  BY <1>6, StillStacked DEF Spawn, Framed
<1>7. CASE (\E n \in FrameSizes : HostNewFrame(n)) \/ HostPushFrame \/ HostPopFrame
  BY <1>7, StackOpStacked
<1>8. CASE Start
  <2>1. FramesHeld = {} /\ UNCHANGED <<mappings, stackVars>>
    BY <1>8 DEF Start, At, Inv, Places, Stacked
  <2> QED BY <2>1, StillStacked DEF Framed
<1>9. CASE Fetch \/ Execute \/ Iload \/ FreeName
  <2>1. FramesHeld = {}
    <3>1. at \in {"fetch", "execute", "free"}
      BY <1>9 DEF Fetch, Execute, Iload, FreeName, At
    <3> QED BY <3>1 DEF Inv, TypeOK, Stacked
  <2>2. UNCHANGED stackVars
    BY <1>9 DEF Fetch, Execute, Iload, FreeName, EndTurn, Stop
  <2>3. FramesHeld' = {}
    BY <2>1, <2>2 DEF FramesHeld, stackVars
  <2> QED BY <2>3 DEF Stacked
<1>10. CASE UNCHANGED vars
  BY <1>10, StillStacked DEF vars, Framed
<1> QED
  BY <1>1, <1>2, <1>3, <1>4, <1>5, <1>6, <1>7, <1>8, <1>9, <1>10 DEF Next, Run

(* The memory of a frame is there as long as the stack refers to it, and no *)
(* program has it.                                                          *)
THEOREM StackFramesAreOwn == Spec => []StackFramesOwn
<1>1. Init => Stacked
  BY DEF Init, EmptyStack, Stacked, FramesHeld, ToSet
<1>2. Inv /\ Memory /\ Stacked => StackFramesOwn
  <2> SUFFICES ASSUME Inv, Memory, Stacked, NEW f \in FramesHeld
               PROVE  (\E r \in mappings : r.at = f.base)
                      /\ \A p \in Programs : p.FP # f.base
    BY DEF StackFramesOwn
  <2>1. f.base = FrameBase /\ Framed /\ queue = <<>> /\ ctx = NoProgram
    BY DEF Stacked
  <2>2. Programs = {}
    BY <2>1 DEF Programs, ToSet
  <2> QED BY <2>1, <2>2 DEF Framed
<1> QED BY <1>1, <1>2, InvMemory, StepStacked, PTL DEF Spec
=============================================================================
