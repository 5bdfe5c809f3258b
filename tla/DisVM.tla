------------------------------- MODULE DisVM --------------------------------
(***************************************************************************)
(* The virtual machine around a loaded module (disvm/src/vm.rs,            *)
(* program.rs, xec.rs): DisVM::init loads a module, sets up a program for  *)
(* it, schedules it and runs it to the end of its code, on one thread.     *)
(*                                                                         *)
(* Module heaps and stack frames live at two fixed addresses of the        *)
(* process, so what the calls may do depends on what is still mapped.      *)
(* Parsing a file and filling its heap are the subject of DisLoader and    *)
(* ModuleHeap: here a file says whether it loads, once it has its heap.    *)
(***************************************************************************)
EXTENDS Integers, Sequences, FiniteSets, SequencesExt, CallStack

CONSTANTS
  HeapBase,    \* where ModuleHeap::new asks for its mapping (0x80000)
  FrameBase,   \* where vm_allocate asks for its own (0x1000000)
  HeapExtra,   \* HEAP_SIZE/2
  Page,        \* mmap maps whole pages
  Files,       \* the object files there are: name -> module
  NoName,      \* the empty string; never the name of a file
  Builds       \* "debug" checks the arithmetic for overflow, "release" wraps

(* Bounds: the calls the host program makes, and the sizes of the frames it *)
(* asks for.                                                                *)
CONSTANTS MaxCalls, FrameSizes

(* ILOAD, the other operation codes, and the bytes that are none: they are  *)
(* transmuted into the enumeration all the same.                            *)
Opcodes == {"load", "other", "unknown"}
Modes == {"none", "imm", "fp", "mp", "double"}
ins == [op : Opcodes,
        mid : [mode : {"none", "imm", "fp", "mp"}, v : Int],
        src : [mode : Modes, v : Int], dst : [mode : Modes, v : Int]]

(* size and esize are the sizes of types[0] and of the entry frame's type,  *)
(* strings the words of the module data that point to a string.             *)
ASSUME FilesAssumption ==
  /\ NoName \notin DOMAIN Files
  /\ \A f \in DOMAIN Files :
       /\ Files[f].size \in Nat /\ Files[f].dsize \in {0, Files[f].size}
       /\ Files[f].stack \in Int /\ Files[f].esize \in Int /\ Files[f].pc \in Int
       /\ Files[f].code \in Seq(ins)
       /\ DOMAIN Files[f].strings \subseteq Nat
       /\ Files[f].loads \in BOOLEAN

ASSUME LayoutAssumption ==
  /\ HeapBase \in Nat \ {0} /\ FrameBase \in Nat /\ HeapExtra \in Nat \ {0}
  /\ FrameBase # HeapBase /\ Page \in Nat \ {0}
  /\ Builds \subseteq {"debug", "release"} /\ MaxCalls \in Nat
  /\ FrameSizes \subseteq Nat

MAP_FAILED == -1

VARIABLES
  build,      \* how the process was compiled
  at,         \* where the thread stands; "host" is outside the VM
  load,       \* the load_module call under way: name, caller, heap address
  held,       \* the modules load_module returned and nobody scheduled yet
  queue,      \* Scheduler.queue
  ctx,        \* the ExecutionContext that runs, or NoProgram
  mappings,   \* the memory mapped: address and length
  calls,      \* calls the host made
  status      \* "ok", "panic", "fault", "abort" or "undefined"

vars == <<build, at, load, held, queue, ctx, mappings, calls, status, stackVars>>

NoProgram == [name |-> NoName]
NoLoad == [name |-> NoName, for |-> "host", heap |-> 0]

-----------------------------------------------------------------------------
(* mmap with MAP_FIXED_NOREPLACE: the address asked for, or a refusal.      *)

Pages(n) == ((n + Page - 1) \div Page) * Page
RefusedBug(a, n) == n <= 0
Refused(a, n) ==
  \/ n <= 0
  \/ \E r \in mappings : a < r.at + r.n /\ r.at < a + Pages(n)

Mapping(a, n) == [at |-> a, n |-> Pages(n)]
Unmapped(a) == {r \in mappings : r.at # a}

Stop(outcomes) ==
  /\ status' \in outcomes
  /\ UNCHANGED <<build, at, load, held, queue, ctx, mappings, calls, stackVars>>

At(place) == at = place /\ status = "ok"

Init ==
  /\ build \in Builds
  /\ at = "host" /\ load = NoLoad /\ held = <<>> /\ queue = <<>>
  /\ ctx = NoProgram /\ mappings = {} /\ calls = 0 /\ status = "ok"
  /\ EmptyStack

-----------------------------------------------------------------------------
(* load_module, called by the host, by init and by the ILOAD instruction.   *)

(* The host calls one of the VM's public functions.                         *)
Call ==
  /\ At("host") /\ calls < MaxCalls
  /\ calls' = calls + 1
  /\ UNCHANGED build

(* A file that is missing is an error of load_module, which init turns into *)
(* a panic.                                                                 *)
Load(name, for) ==
  /\ Call
  /\ IF name \in DOMAIN Files
     THEN /\ load' = [name |-> name, for |-> for, heap |-> 0]
          /\ at' = "heap" /\ UNCHANGED status
     ELSE /\ status' = IF for = "init" THEN "panic" ELSE "ok"
          /\ UNCHANGED <<load, at>>
  /\ UNCHANGED <<held, queue, ctx, mappings, stackVars>>

(* ModuleHeap::new tells a refusal by a null pointer; mmap does not.        *)
NewHeap ==
  LET n == Files[load.name].size + HeapExtra IN
  /\ At("heap")
  /\ IF Refused(HeapBase, n)
     THEN load' = [load EXCEPT !.heap = MAP_FAILED] /\ UNCHANGED mappings
     ELSE /\ load' = [load EXCEPT !.heap = HeapBase]
          /\ mappings' = mappings \cup {Mapping(HeapBase, n)}
  /\ at' = "fill"
  /\ UNCHANGED <<build, held, queue, ctx, calls, status, stackVars>>

(* Into a heap that was refused the pointer map, the first data item or the *)
(* probe writes or reads: a fault, or a panic on the offset.  A file that   *)
(* does not load stops the process likewise, before it has its heap or      *)
(* after.  Otherwise the module goes to the caller; ILOAD would drop it,    *)
(* and its heap, at once, but the heap of the program that loads is always  *)
(* in the way.                                                              *)
LoadFails == load.heap = MAP_FAILED \/ ~Files[load.name].loads

FillHeap ==
  /\ At("fill")
  /\ IF LoadFails THEN Stop({"panic", "fault"})
     ELSE /\ load' = NoLoad
          /\ \/ /\ load.for = "host" /\ at' = "host"
                /\ held' = Append(held, load.name) /\ UNCHANGED mappings
             \/ /\ load.for = "init" /\ at' = "schedmod"
                /\ held' = Append(held, load.name) /\ UNCHANGED mappings
             \/ /\ load.for = "iload" /\ at' = "free"
                /\ mappings' = Unmapped(load.heap) /\ UNCHANGED held
          /\ UNCHANGED <<build, queue, ctx, calls, status, stackVars>>

(* The host drops a module.                                                 *)
DropModule ==
  /\ Call /\ held # <<>>
  /\ held' = Front(held)
  /\ mappings' = Unmapped(HeapBase)
  /\ UNCHANGED <<at, load, queue, ctx, status, stackVars>>

-----------------------------------------------------------------------------
(* Programs.                                                                *)

(* ExecutionContext::new, and setup_entry_frame: the stack extent of the    *)
(* header, or the entry frame's size and 16 bytes more.                     *)
FrameSizeBug(m) == m.stack
FrameSize(m) == IF m.stack < m.esize + 16 THEN m.esize + 16 ELSE m.stack

NewProgram(name) ==
  [name |-> name, pc |-> Files[name].pc, insLeft |-> Len(Files[name].code),
   MP |-> HeapBase, FP |-> FrameBase, TS |-> FrameBase + FrameSize(Files[name]),
   s |-> 0, d |-> 0, m |-> 0]

(* schedmod.  vm_allocate panics when the address is taken; the frame of an *)
(* earlier program is never unmapped.  A module without data has no module  *)
(* data pointer to unwrap.                                                  *)
SetUp(name) ==
  LET n == FrameSize(Files[name]) IN
  IF Refused(FrameBase, n)
  THEN status' = "panic" /\ UNCHANGED <<held, queue, mappings>>
  ELSE /\ mappings' = mappings \cup {Mapping(FrameBase, n)}
       /\ IF Files[name].dsize = 0
          THEN status' = "panic" /\ UNCHANGED <<held, queue>>
          ELSE /\ held' = Front(held)
               /\ queue' = Append(queue, NewProgram(name))
               /\ UNCHANGED status

Schedmod ==
  /\ At("schedmod") /\ SetUp(Last(held))
  /\ at' = "start"
  /\ UNCHANGED <<build, load, ctx, calls, stackVars>>

HostSchedmod ==
  /\ Call /\ held # <<>> /\ SetUp(Last(held))
  /\ UNCHANGED <<at, load, ctx, stackVars>>

(* spawn looks its parent up among progs, which nothing ever fills.         *)
Spawn ==
  /\ Call /\ held # <<>>
  /\ status' = "panic"
  /\ UNCHANGED <<at, load, held, queue, ctx, mappings, stackVars>>

(* The host uses a call stack of its own.  A frame is allocated where those *)
(* of programs are, and panics where they do.                               *)
HostNewFrame(n) ==
  /\ Call
  /\ IF Refused(FrameBase, n)
     THEN status' = "panic" /\ UNCHANGED <<mappings, stackVars>>
     ELSE /\ mappings' = mappings \cup {Mapping(FrameBase, n)}
          /\ NewFrame(FrameBase) /\ UNCHANGED status
  /\ UNCHANGED <<at, load, held, queue, ctx>>

HostPushFrame ==
  /\ Call
  /\ IF CanPush THEN PushFrame /\ UNCHANGED status
     ELSE status' = "panic" /\ UNCHANGED stackVars
  /\ UNCHANGED <<at, load, held, queue, ctx, mappings>>

HostPopFrame ==
  /\ Call
  /\ IF CanPop THEN PopFrame /\ UNCHANGED status
     ELSE status' = "panic" /\ UNCHANGED stackVars
  /\ UNCHANGED <<at, load, held, queue, ctx, mappings>>

(* Scheduler.start takes the program scheduled last.                        *)
Start ==
  /\ At("start")
  /\ ctx' = Last(queue) /\ queue' = Front(queue)
  /\ at' = "fetch"
  /\ UNCHANGED <<build, load, held, mappings, calls, status, stackVars>>

-----------------------------------------------------------------------------
(* xec.                                                                     *)

Code(c) == Files[c.name].code

FetchedBug(c) == [c EXCEPT !.pc = @ + 1]
FetchedTwiceBug(c) == [c EXCEPT !.insLeft = @ - 2, !.pc = @ + 1]
Fetched(c) == [c EXCEPT !.insLeft = @ - 1, !.pc = @ + 1]

(* The offset of an operand, 0 in the modes that have none.                 *)
Ind(o) == IF o.mode \in {"fp", "mp", "double"} THEN o.v ELSE 0

Register(c, mode) == IF mode = "fp" THEN c.FP ELSE c.MP

(* Immediate, absent and double indirect operands leave the register as the *)
(* instruction before left it.  The destination is decoded with the offset  *)
(* of the source.                                                           *)
Decoded(c, i) ==
  [c EXCEPT
     !.m = IF i.mid.mode = "none" THEN @
           ELSE IF i.mid.mode = "imm" THEN i.mid.v
           ELSE Register(c, i.mid.mode) + i.mid.v,
     !.s = IF i.src.mode \in {"fp", "mp"} THEN Register(c, i.src.mode) + Ind(i.src) ELSE @,
     !.d = IF i.dst.mode \in {"fp", "mp"} THEN Register(c, i.dst.mode) + Ind(i.src) ELSE @]

(* Adding a negative offset, cast to u32, overflows.                        *)
Overflows(i) ==
  \/ i.mid.mode \in {"fp", "mp"} /\ i.mid.v < 0
  \/ (i.src.mode \in {"fp", "mp"} \/ i.dst.mode \in {"fp", "mp"}) /\ Ind(i.src) < 0

(* The instruction pointer is not checked: behind the code is whatever      *)
(* memory is there.  Every instruction is printed before it is decoded, by  *)
(* a table of names that ends with the known operation codes; a compiler    *)
(* may leave out the check of an index that is one.                         *)
Fetch ==
  /\ At("fetch")
  /\ IF ctx.pc \notin 0 .. Len(Code(ctx)) - 1 THEN Stop({"fault", "undefined"})
     ELSE LET i == Code(ctx)[ctx.pc + 1] IN
          IF i.op = "unknown" THEN Stop({"panic", "fault", "undefined"})
          ELSE IF build = "debug" /\ Overflows(i) THEN Stop({"panic"})
          ELSE /\ ctx' = Decoded(Fetched(ctx), i)
               /\ at' = "execute"
               /\ UNCHANGED <<build, load, held, queue, mappings, calls, status, stackVars>>

Instruction == Code(ctx)[ctx.pc]

(* The end of a turn: the loop goes on while instructions are left, then    *)
(* the program, its module and the module's heap are dropped.               *)
LastTurnBug(c) == c.insLeft < 0
LastTurn(c) == c.insLeft = 0

EndTurn ==
  /\ IF LastTurn(ctx)
     THEN ctx' = NoProgram /\ at' = "host" /\ mappings' = Unmapped(ctx.MP)
     ELSE at' = "fetch" /\ UNCHANGED <<ctx, mappings>>
  /\ UNCHANGED <<build, load, held, queue, calls, status, stackVars>>

(* No other instruction does anything.                                      *)
Execute ==
  /\ At("execute") /\ Instruction.op = "other"
  /\ EndTurn

(* ILOAD reads a pointer at s and the String it points to.  Where there is  *)
(* no string: the frame is zero, and so is an s no instruction has set; a   *)
(* word of the module data may be anything.                                 *)
StringsAt(c) == {o \in DOMAIN Files[c.name].strings : c.s = c.MP + o}
NameAt(c) == Files[c.name].strings[CHOOSE o \in StringsAt(c) : TRUE]

Iload ==
  /\ At("execute") /\ Instruction.op = "load"
  /\ IF StringsAt(ctx) = {} THEN Stop({"fault", "undefined"})
     ELSE IF NameAt(ctx) \in DOMAIN Files
          THEN /\ load' = [name |-> NameAt(ctx), for |-> "iload", heap |-> 0]
               /\ at' = "heap"
               /\ UNCHANGED <<build, held, queue, ctx, mappings, calls, status, stackVars>>
          ELSE /\ at' = "free"
               /\ UNCHANGED <<build, load, held, queue, ctx, mappings, calls, status, stackVars>>

(* The name was made a Rust String over the characters in the module heap:  *)
(* dropping it frees memory the allocator never handed out, unless it is    *)
(* empty.                                                                   *)
FreeName ==
  /\ At("free")
  /\ IF NameAt(ctx) = NoName THEN EndTurn ELSE Stop({"abort", "undefined"})

Run == NewHeap \/ FillHeap \/ Schedmod \/ Start \/ Fetch \/ Execute \/ Iload \/ FreeName

Next ==
  \/ \E name \in DOMAIN Files \cup {NoName}, for \in {"host", "init"} : Load(name, for)
  \/ DropModule \/ HostSchedmod \/ Spawn
  \/ \E n \in FrameSizes : HostNewFrame(n)
  \/ HostPushFrame \/ HostPopFrame
  \/ Run

(* The VM runs on the thread of its caller and waits for nothing; the host  *)
(* need not call it.                                                        *)
Spec == Init /\ [][Next]_vars /\ WF_vars(Run)

-----------------------------------------------------------------------------
(* Properties.                                                              *)

Program ==
  [name : DOMAIN Files, pc : Int, insLeft : Nat, MP : Nat, FP : Nat, TS : Int,
   s : Int, d : Int, m : Int]

(* Type invariant.  That ins_left is a natural number is a property of its  *)
(* own: the usize is counted down before it is compared with 0.             *)
TypeOK ==
  /\ build \in Builds
  /\ at \in {"host", "heap", "fill", "schedmod", "start", "fetch", "execute", "free"}
  /\ load \in [name : DOMAIN Files \cup {NoName}, for : {"host", "init", "iload"},
               heap : Nat \cup {MAP_FAILED}]
  /\ held \in Seq(DOMAIN Files)
  /\ queue \in Seq(Program)
  /\ ctx \in Program \cup {NoProgram}
  /\ at \in {"fetch", "execute", "free"} => ctx # NoProgram
  /\ \A r \in mappings : r.at \in Nat /\ r.n \in Nat
  /\ calls \in Nat
  /\ status \in {"ok", "panic", "fault", "abort", "undefined"}
  /\ frames \in Seq(Frame) /\ nextFrame \in Frame \cup {NoFrame}

Programs == ToSet(queue) \cup ({ctx} \ {NoProgram})

(* The module data of every program, scheduled or running, is mapped, and   *)
(* stays so whatever modules are loaded and dropped in between: by the host *)
(* and by the ILOAD of the program itself.                                  *)
HeapOutlivesProgram ==
  \A p \in Programs :
    \E r \in mappings : r.at = p.MP /\ Files[p.name].dsize <= r.n

(* Every program has a frame of its own, apart from its heap, with room for *)
(* the type of its entry frame and for the stack the header asks for.       *)
FrameIsOwn ==
  /\ Len(queue) + Cardinality({ctx} \ {NoProgram}) <= 1
  /\ \A p \in Programs :
       /\ p.TS - p.FP >= Files[p.name].esize + 16
       /\ p.TS - p.FP >= Files[p.name].stack
       /\ \E r \in mappings : r.at = p.FP /\ p.TS <= r.at + r.n
       /\ \A r \in mappings : r.at # p.FP => r.at + r.n <= p.FP \/ p.TS <= r.at

(* A frame of a call stack is mapped, as long as the stack refers to it,    *)
(* and no program has it for its own, though vm_allocate asks for the same  *)
(* address every time, frames are pushed more than once, and mappings come  *)
(* and go with the modules.                                                 *)
StackFramesOwn ==
  \A f \in FramesHeld :
    /\ \E r \in mappings : r.at = f.base
    /\ \A p \in Programs : p.FP # f.base

(* A program whose entry is its first instruction fetches instructions of   *)
(* its code only.  (One that enters later runs as many turns, and so past   *)
(* its end: the loop counts instructions, not the distance to the end.)     *)
FetchesInCode ==
  at = "fetch" /\ Files[ctx.name].pc = 0 /\ Code(ctx) # <<>> =>
    ctx.pc \in 0 .. Len(Code(ctx)) - 1

(* Such a program, if it loads no module and does not add a negative offset *)
(* in a build that checks, runs to its end and gives control back.          *)
Clean(name) ==
  /\ Files[name].pc = 0 /\ Files[name].code # <<>>
  /\ \A i \in ToSet(Files[name].code) :
       i.op = "other" /\ (build = "debug" => ~Overflows(i))

CleanProgramEnds ==
  (at = "fetch" /\ Clean(ctx.name)) ~> (at = "host" /\ status = "ok")

-----------------------------------------------------------------------------
(* What the source says, and the code does not keep.                        *)

(* "d is destination for operand address" (xec.rs): when an instruction     *)
(* executes, d is the address its destination operand names.                *)
DestIsOperand ==
  at = "execute" /\ Instruction.dst.mode \in {"fp", "mp"} =>
    ctx.d = Register(ctx, Instruction.dst.mode) + Instruction.dst.v

(* "Unable to create VM Heap" (mem.rs, ModuleHeap::new): the panic that     *)
(* meets a refused mapping; no heap is made over one.                       *)
RefusedHeapIsNoticed == load.heap # MAP_FAILED
=============================================================================
