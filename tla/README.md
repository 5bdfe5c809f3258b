# inferno-rs: a verification development

TLA+ models of inferno-rs, a Dis virtual machine in Rust (`src/disvm`), with the
TLC runs that check them on small instances and theorems that TLAPS proves for
every value of the constants. Paths below are relative to `src/disvm/src`
unless they start with `src/`.

## 1. The system

`src/src/main.rs` makes a `DisVM` and calls `init` with the name of one object
file. `init` loads the module, sets a program up for it, schedules the program
and runs it. Everything happens on the caller's thread: no locks, no channels,
no callbacks. Components meet by calls, and by *memory*: the module heap and
the stack frame are mapped at two fixed addresses of the process, and raw
pointers into them are kept in registers, in records and in the heap itself.

| Component | State | Operations | Uses |
|---|---|---|---|
| Buffered reader (`util.rs`) | bytes, cursor | `peek`, `read`, integer reads, `operand`, `skip`; panic past the end | |
| Operands (`module.rs` 192-261, 528-571) | none | `parse_operand`, `parse_word`, `into_*` | reader |
| Type maps (`module.rs` 263-313, `mem.rs` 432-446) | map bytes | `setup_pointers` writes the empty pointer to marked words, `is_pointer` tests one | |
| Loader (`module.rs` 637-1087) | buffer, cursor, the `Module` being filled | one pass: magic, header, code, types, data, name, exports, imports, handlers, path | operands, module heap |
| Module heap (`mem.rs`) | `heap_start`, `base`, `array_stack`, `last_array`, the mapped bytes, `Type.rc` | `new`, `load_data` (8 kinds of item), `set_index`, `restore`, `allocate_bytes`, `allocate`, `nheap`, `new_string`, `write*`, `Drop` | type maps, mmap |
| Program set-up (`program.rs`) | registers, pc, `ins_left` | `ExecutionContext::new`, `setup_entry_frame` | `vm_allocate` |
| VM and scheduler (`vm.rs`) | `queue`, `progs` | `init`, `schedmod`, `schedule`, `spawn`, `start` | loader, program, interpreter |
| Interpreter (`xec.rs`) | the running context | fetch, decode, `ILOAD`, end test | program, loader |
| Call stack (`program.rs` 41-88) | frames, next frame | `new_frame`, `push_frame`, `pop_frame`; public, no caller in the crate | `vm_allocate` |
| Operation codes (`opcode.rs`) | none | a byte transmuted into an enumeration, a table of names | |
| `mem/heap.rs`, `VmArray`, `runt.rs` | | not reached by any execution | |

What is hard here:

* **Long sequences of legal calls.** Initialisers of nested arrays are a small
  stack language (load array, set index, write, restore) interpreted with three
  pieces of state that must agree: `base`, `array_stack`, `last_array`.
* **Unchecked extents.** `write_data` checks where a store begins, not where it
  ends; `allocate_bytes` never compares with the size it asked of mmap.
* **Widths.** Sizes of arrays are products of 32 bits that a debug build checks
  and a release build wraps; types may have a negative size.
* **Two readings of one item.** The count, the operand and the payload of a data
  item are read in two places, and mean something only after all items before.
* **A cursor moved by hand** from section to section, by sizes in most places
  and by a value in one.
* **Fixed addresses.** A second heap or a second frame collides with the first;
  `mmap` reports this in a way one of the two callers does not look for.
* **Counters and indices** compared after they are decremented (`ins_left`), or
  never compared (`pc`).
* **Partial failure**: a load that fails in the middle, in a VM that already
  runs a program.

There is no concurrency and nothing is persisted, so there are no hazards of
interleaving or recovery.

What makes each part correct: a value written by an encoder comes back from
`parse_operand`; a whole file comes back as the module it was written for, a cut
one never does, and whatever the bytes a module that is handed out can be
indexed with the header's numbers; heap objects never share a byte, pointers
point to objects, items arrive where the file says; the memory a program uses stays
mapped as long as the program is there, fetches stay in the code, a clean
program ends.

## 2. Modules

| Module | What it models |
|---|---|
| `TypeMap` | pointer maps and the two readings the code has of them |
| `Operands` | variable-length integers: `parse_operand`, `parse_word`, `into_*`, and the encoder they invert |
| `Arena` | abstract: an allocator without free |
| `ModuleHeap` | `mem.rs`: the heap of one module while `load_module` fills it, the probe it ends with, and a host that goes on with it. Implements `Arena` |
| `DisLoader` | `load_module` as a state machine over the bytes of a file |
| `LoadedHeap` | the two composed: the bytes of a file drive the heap. Implements `DisLoader` |
| `CallStack` | `Stack`: frames allocated, entered, left |
| `DisVM` | `vm.rs`, `program.rs`, `xec.rs` and the address space: host calls, loading, scheduling, execution |
| `MCModuleHeap`, `MCDisLoader`, `MCLoadedHeap`, `MCDisVM` | small constants for TLC |
| `ModuleHeapProofs`, `DisVMProofs` | theorems about the module they are named after |
| `FormatProofs` | data by induction, operands, and the encoder: the file of a module, part by part |
| `DisLoaderProofs` | the loader over any bytes |
| `RoundTripProofs` | the loader over files an encoder wrote, whole or cut |
| `LoadedHeapProofs` | loader and heap together, over any data section |
| `InitialiserProofs` | the same over the data of an encoder that walks initialisers depth first: it loads |
| `ArrivalProofs` | ... and what it holds is found |

`ModuleHeap` extends `TypeMap` and instantiates `Arena`; `DisLoader` extends
`Operands`; `LoadedHeap` extends `DisLoader` and instantiates `ModuleHeap`;
`DisVM` extends `CallStack`. `FormatProofs` extends `DisLoader`, `DisLoaderProofs`
extends `FormatProofs`, `RoundTripProofs` that; `LoadedHeapProofs` extends
`LoadedHeap` and `RoundTripProofs` and instantiates `ModuleHeapProofs`,
`InitialiserProofs` extends it and `ArrivalProofs` that. Alone, the state machines
abstract each other: the loader has one action `HeapStops` for everything the heap
may do to it, the heap takes items from an environment that stands for the file,
and the VM has files that load once they have a heap, or do not.

Definitions whose name ends in `Bug` are variants of the definition that follows
them, one plausible slip each. The specifications do not use them; substituting
one for its original shows that a property notices.

### ModuleHeap and `mem.rs`

Addresses are natural numbers from `HeapBase` on, sizes are in bytes.
`heapStart`, `base`, `arrayStack`, `lastArray` and `rc` are the fields of that
name. The bytes of the heap are abstracted to `objects` (where every `String`
and `Array` lies, with its type and length), `areas` (memory handed out bare) and
`slots` (the words in which the loader left a pointer). `LoadScalars`,
`LoadString`, `LoadArray`, `SetIndex`, `Restore` are the arms of `load_data`; each
keeps the order of the code, which differs: a string is checked first and
allocated after, an array is allocated, counted and given its head before
`write_data` checks anything. `Probe` is lines 901-906 of `module.rs`.

A module that is loaded hands its heap out (`Module.module_heap` is public):
`HostStep` is what the host may call next, `allocate`, `allocate_bytes`, `nheap`,
`new_string`, the raw stores and `write_module_data`, and a host may also go on
with `write_data`, `set_index` and `restore` (`Item` allows both callers).

`status` tells how it went: "panic", "fault" (a store past the mapping), "abort"
(a debug build that meets an address its type does not allow) or "clobbered" (a
store hit the head of an object: the model stops where the code goes on with a
damaged heap).

Widths are constants: `MaxI32` (sizes of arrays, `I32` wraps), `Word` (addresses),
`USize` (`heap_start`, `AsUsize` casts, `Carries` tells that a sum leaves it).
`build` tells whether arithmetic is checked; `Overflows` is what a debug
build refuses. Types may have a negative size, and a map marks behind the data
of its type or behind the mapping. Two simplifications: an address outside the
mapping is taken to be unmapped, and the host stays in the space of a u32, where
an address cut to 32 bits is the address.

`producer`, `path`, `pending` and `items` are auxiliary: they say what kind of
file it is and what its index items name. "nested" walks an initialiser depth
first; "wellformed" may index any array it loaded before; "any" may hold
anything, and may be followed by calls of the host. Properties about good files
are guarded by the producer, the others hold for every file.

### DisLoader and `module.rs`

`offset` is the cursor, `section` where `load_module` stands, `left` and `inner`
the turns its loops still have, `dis` the `Module`. Each action is one section
or one turn of a loop; a read past the buffer is a `Panic`. `Encode` is the
format's encoder, `Meaning` the module a file stands for. `Init` chooses a
module and what happened to its file: nothing, cut at any byte, or any one byte
replaced. Operand sizes, the four-byte look-ahead of `parse_operand`
(`util.rs` 92-96), the lost sign of long operands, the reserved source operand
that is read and dropped and the handler count that moves the cursor are as in
the code.

### LoadedHeap

`LoadItem` is one turn of the data loop with the call of `load_data` in it: the
loader's cursor and the heap's step move together, and a heap that stops stops
the loader (`Then`). What the two leave out of each other is here: which operand
is the count and which the offset, what bytes an item stores (`memory`), the
change from the byte order of the file to that of the machine (`Native`), and
`from_utf8_lossy` (`Lossy`), which may make a string longer than its bytes.

The properties do not use the heap's bookkeeping: `Opened` reads off the module
which index items are open before each item, and `Reached` follows the offsets and
indexes of the file through the pointers in the heap. `DataArrives` says that
every number, string and array is found at the end of its way. Both it and
`InitialisersLoad`, that the heap never refuses such a file, speak of files of
`Initialisers`: whole ones, with a path and without handlers, whose writer goes
through the initialisers depth first (`DepthFirst`), marks no word behind the
module data as a pointer, and makes no more strings and arrays than the heap
has room for (`RoomFor`, with `Used` adding up what `new_object` takes).

### DisVM and `vm.rs`, `program.rs`, `xec.rs`

`mappings` is what mmap granted at page granularity (`Refused` is
`MAP_FIXED_NOREPLACE`; this and the rounding are external). `at` is where the
thread stands. `Load` is the host calling `load_module` or `init`; `NewHeap`,
`FillHeap`, `Schedmod`, `Start`, `Fetch`, `Execute`, `Iload`, `FreeName` are the
steps inside. `HostSchedmod`, `Spawn` and `DropModule` are the other public
things a host can do; `HostNewFrame`, `HostPushFrame` and `HostPopFrame` are calls
on a call stack of its own. A file may fail to load after its heap is mapped.
Dropping the last `Rc` of a module unmaps its heap; frames
are never unmapped. What the code leaves undefined (a fetch outside the code, an
`ILOAD` with a word that is no string pointer, the drop of a Rust `String` over
heap characters, an operation code that is none) stops with one of the outcomes a build can produce. `build`
tells whether arithmetic overflow panics.

## 3. What is checked

Passing runs.

| Run | States | Properties |
|---|---|---|
| `heap` | 1.6 million | `TypeOK`, `ObjectsDisjoint`, `ElementsFit`, `PointersResolve`, `BaseFollowsPath`, `SlotsInRegions`, `NestedLoads`, `RcCountsArrays`, and `ArenaSpec` (refinement) |
| `loader` | 55 thousand | `TypeOK`, `RoundTrip`, `WholeLoads`, `CutRejected`, `Coherent`, `Terminates` |
| `loaded` | 46 thousand | `LoadedTypeOK`, `DataArrives`, `InitialisersLoad`, `StringsAreText`, and `LoaderSpec` (refinement) |
| `vm` | 53 thousand | `TypeOK`, `HeapOutlivesProgram`, `FrameIsOwn`, `StackFramesOwn`, `FetchesInCode`, `CleanProgramEnds` |

* In a build that checks its arithmetic whatever the file, and in any build for a
  file that keeps its sizes: heap objects and areas never overlap nor reach into
  the module data, whichever allocators are called in which order, and every array
  has room for its elements. (A release build may lay one array over another when
  a size wraps: `SizesKept` is that condition.)
* Whatever the file, every pointer left is empty or the payload of an object, and
  `rc` counts the arrays of each type. For a depth-first file the base is always
  the array the innermost index item named, pointers lie in the module data or
  inside one array, and nothing but the end of the mapping, or in a debug build an
  address that does not suit its type, stops the loading.
* Whole files without handlers come back field by field and to the last byte,
  except the sign of long operands: `Unsigned` and `MeaningOfCode` say what they
  come back as. They never panic if they have a source path (without one, the
  look-ahead of the last operand reaches past the end of the file). A cut file is
  never accepted. A file with any one byte replaced may load as another module,
  but then its counts, entry type, link types and data size are consistent.
* A whole file's data arrives: after the last item every number, string and
  array of a depth-first data section is found by following the file's own
  offsets. Whatever the bytes, strings in the heap are UTF-8. The loader with its
  heap behaves as the loader alone, stopped now and then.
* Whatever modules the host loads and drops, whether they load or not, and
  whatever `ILOAD` does, the heap of a program stays mapped, there is at most one
  program with a frame, and the frame is big enough and apart; a frame of the
  host's call stack is mapped as long as the stack refers to it, and is no
  program's. The reason is fixed addresses: a second heap is refused, and then
  the process does not survive.

Runs that show a disagreement with what the repository says of the program.

| Run | What the source says | What the code does |
|---|---|---|
| `heap_capacity` | `mem.rs` 379: size is the "total size of Heap memory allocation" | `heap_start` grows past it, nothing compares |
| `heap_last_array` | `mem.rs` 383: `last_array` tells "what array should be written to" | an index item that names an earlier array opens the last one |
| `heap_index` | `src/README.md` 14: arrays of primitive types work | set index i moves the base by i bytes, not by i elements |
| `heap_probe` | `src/README.md` 11: module loading works | every load ends by dereferencing the word at offset 312, an empty pointer in a good file: a fault |
| `type_map` | `module.rs` 307: lowest offset on the highest bit | `is_pointer` picks the map byte from the end: wrong for two bytes and more |
| `loader_handlers` | `src/README.md` 12: handlers are loaded | the cursor moves by the handler count, the entries are dropped |
| `vm_operands` | `xec.rs` 13: d is the destination's address | d is computed with the source's offset |
| `vm_refused_heap` | `mem.rs` 410: a heap that cannot be made panics with a message | the test is for null, mmap answers -1: the heap is made over the refusal |

### Bounds

* `heap`: 12 bytes of module data; maps that mark a word of it, one behind it, and
  one behind the mapping; types of 4, 1, 700, -600 and -50 bytes with a `MaxI32` of
  1023 (sizes that wrap to a smaller one, that take `heap_start` out of the address
  space and that take it back), lengths 0, 1 and 3, indices 0 and 1, offsets 0 and
  4. A depth-first file has six items (two nested arrays, a write in each, both
  restored) in a release build and four in a debug build, where it differs only in
  where it may abort; any file has three items and calls of the host together. The
  mapping holds a few objects and the size asked for one fewer: capacity, the last
  page and the fault behind it all occur. In the code the mapping is the size
  rounded up to a page, here 116 and 160. `heap_probe` uses the code's 312 for
  `ProbeOffset`, the others a small offset inside the data.
* `loader`: modules that between them use every operand width, every addressing
  mode but the reserved destination, every kind of data item, no to three
  imports per list, every flag a section depends on (a file with handlers
  takes part in the properties on cuts, consistency and termination). Files are cut
  at every byte and damaged at every byte with six values (0, 1, 97, 127, 159, 255:
  zero, counts, a mode change, a negative, a long operand).
* `loaded`: fourteen data sections, narrow and wide: numbers of every width, long
  counts, strings that are and are not UTF-8, arrays of bytes, words and pointers up
  to three deep, and eight that are no depth-first walk. Cut or damaged (0, 1, 16,
  255) in the data section only; the rest is `loader`'s. One `Layout` for all
  modules; numbers of 30 bits; characters of three and four bytes are left out.
  A clobbered heap stops the model.
* `vm`: seventeen files, one per way a run can go (negative and late entry, no
  code, no data, no frame, a heap as large as the gap to the frame, an ILOAD of a
  good, a missing and an unnamed file, stale registers, a file that does not load,
  an unknown operation code), up to four host calls, both builds. Pages are 16
  bytes; the heap at 512 and the frame at 768 are as many pages apart as a large
  heap needs to meet the frame.

### Fairness

`load_module` and the interpreter are straight-line loops on one thread that
never wait. `WF_vars(Parse)`, `WF_loadedVars(LoadedNext)` and `WF_vars(Run)` say
that such a thread goes on while it can. The host's calls and the heap's interference with the loader are
not fair: nobody has to call, and nothing has to fail. `Terminates` says that
parsing ends whatever the bytes; `CleanProgramEnds` that a program that enters
at its first instruction and loads nothing runs to its end.

Deadlock is not checked: every one of these machines legitimately stops, by
finishing or by a panic.

## 4. What is proved

All with TLAPS, from the named assumptions on constants, which TLC evaluates for
the instances of the runs: `SizesAssumption`, `ReachAssumption`, `TypesAssumption`,
`InputsAssumption` (`ModuleHeap`), `FilesAssumption` (`DisVM`), `EncoderAssumption`
(`DisLoader`: modules are such as the format can hold, `IsModule`),
`LayoutAssumption` and `HeapAssumption` (`LoadedHeap`: one layout for all modules, and
`ModuleHeap`'s assumptions about sizes). There is no bound on the number of items,
objects, files or calls, nor on the length of a file or of any part of it, and both
builds are covered.

`ModuleHeapProofs`
* `TypeCorrect`: `TypeOK` is inductive as it stands; one lemma per action.
* `ObjectsStayDisjoint`, `ElementsAlwaysFit` and `ImplementsArena`: every step
  leaves objects and areas alone, reserves one area at `heap_start`, or carves one
  object there that has room for what it counts, and moves `heap_start` to its end
  or beyond (`StepCarves`). The inductive invariant `Layout` adds to the properties
  that everything handed out ends below `heap_start`; the refinement maps the same
  step to `Arena!Allocate`.
* `PointersAlwaysResolve`: a store that is not "ok" leaves the slots alone, one
  that is erases what it overlaps; a new object's head erases the slots under it.
* `RcCounts`: with `RcInv`, which adds that objects are finitely many. The array
  just loaded is a new object even where a release build lays it over others: at
  the place of an old one its head would have hit the old one's head.
* `NestedBaseFollows`: the strengthening ties `pending`, the offset of the array
  just loaded, to `last_array`: the word there holds its payload. Without it
  `SetIndex` could not know that the array the item names is the last one.
* `NestedSlotsInRegions`: with `RegionInv`, that arrays of such files are just as
  large as their elements; then what fits in the array the innermost index item
  named lies wholly inside it (`PlacedInRegion`).
* `NestedFilesLoad`: no check of the code rejects an item of such a file and none
  of its stores hits the head of an object, because stores lie in regions
  (`RegionStore`) and regions are apart from heads. `LoadInv` keeps `heap_start` in
  reach of a u32 (`ReachAssumption`), else the sum in `write_data` could wrap.

`FormatProofs`, operands: `ByteOperand`, `ShortOperand`, `WordOperand` and
`OperandRoundTrip`: what an encoder wrote at any place of any file is parsed to
its value and size, for every one-byte value and every longer value that is not
negative; `LongNegativesLoseSign`: a negative longer one comes back as
another number.

`DisVMProofs`
* `TypeCorrect`, with `Inv`: places (what `at` implies about `load`, `held`,
  `queue` and `ctx`) and counts (pc and instructions left add up to the entry
  pc and the code's length), needed because `ins_left` is decremented before it
  is compared with 0.
* `FetchesStayInCode` follows from the counts.
* `HeapsOutlivePrograms` and `FramesAreOwn`, with `Memory`: mappings never
  overlap; one heap is held, loaded or used at a time, one program is scheduled
  or running; whoever exists has its mapping. These hold because a
  refused heap is followed by the end of the process: that is the step of the
  proof to look at again if `ModuleHeap::new` learns to report the refusal.
* `StackFramesAreOwn`: `Stacked` adds that every frame the stack refers to is at
  the one address frames have, that this stays mapped, and that no program can be
  set up meanwhile.

`DisLoaderProofs`: whatever the bytes
* `TypeCorrect` (`TypeOK`) and `ModulesAreCoherent` (`Coherent`), from one inductive
  invariant, `LoadInv`. `Coherent` speaks of a finished module only; what makes it true
  is established section by section, so `LoadInv` says for each section what has been
  counted so far: until the section of the code is over, the instructions read and
  the turns its loop has left add up to the header's count (`CodeCounted`, likewise
  `TypesCounted`), the data section is entered only with an entry type that is
  described (`HeapDescribed`), and every link read names a type (`LinksCounted`). A
  section's part then stays as no later one touches those fields.

The rest of `FormatProofs`: what an encoder writes
* The library's induction theorems take an operator as a parameter, which the
  provers cannot instantiate. `NatSetInduction` does without: a set of numbers that
  has 0 and is closed under + 1 has every number, because `<` on the naturals is
  well-founded. With it, the recursive functions inside `FlattenSeq` and
  `Operands` exist and compute what they say (`FlatExists`, `Iteration`), and parts can
  be taken off the front (`FlattenFirst`).
* `EncodeOctets` and the lemmas named `...Piece`: the file of a module is bytes, and
  each of its parts stands where the part before it ends.

`RoundTripProofs`: files an encoder wrote, without handlers
* `FilesComeBack` (`RoundTrip`), `WholeFilesLoad` (`WholeLoads`), `CutFilesRejected`
  (`CutRejected` for such modules). The inductive invariant `TripInv` adds to
  `LoadInv`: what lies behind the cursor is the encoding of exactly the parts not
  read yet (`Standing`), and what has been read so far means the parts before it
  (`AsWritten`), both as far as the file goes. Where a cut file ends the parser
  panics; a whole one has for each read a part it was written for, and four more
  bytes behind every operand as long as a path follows (`Loads`).

`LoadedHeapProofs`: loader and heap, any damage to the data
* `LoadedIsLoader`: `LoadedSpec => Init /\ [][Next]_vars`, and `LoadedIsHeap`: `LoadedSpec`
  implements `ModuleHeap` with a file nobody vouches for, whose offsets, lengths
  and indexes are any natural numbers. That an item's type is one the heap knows
  needs the loader's invariant and a fact about files, `Described`: damage lies
  behind the types, so as many are described as the layout has, and the range the
  loader checks is the heap's. So what `ModuleHeapProofs` shows of any file holds of
  the heap that bytes fill: `LoadedHeapHolds`, `LoadedHeapIsArena`.
* `LoadedTypes` (`LoadedTypeOK`): numbers turned to the machine's byte order and
  decoded strings are bytes, stored at addresses.
* `StringsStayText` (`StringsAreText`). `LossyIsText` shows for any bytes that
  `from_utf8_lossy` leaves UTF-8, by induction from the end: what is behind byte k is
  whole characters, but for a continuing byte that byte k leads. Then the
  characters lie in what the heap counts as the head of an object (`CharsApart`), and
  the loader goes on only after a store that misses all of them (`AllowedApart`),
  the pointer to the string itself included.

`InitialiserProofs`: whole files of `Initialisers`
* `InitialisersAreLoaded` (`InitialisersLoad`): a file of `Initialisers` never makes
  the heap stop. The proof has a second instance of the heap, `HN`, whose producer
  is "nested", and shows each item's call to be one such a producer makes, so that
  `NestedFilesLoad` of `ModuleHeapProofs` carries over. This needs the invariant
  `FillsRightly`, with `Filled`: between two items the heap's start is what the items
  so far use up (`Used`), every array object has a described type and a length
  its bytes hold (`Sized`), the heap's path is item by item the arrays that `Opened`
  reads off the module (`Follow`), and behind an array item the word it was stored
  in is that array (`Fresh`), which the next item may index. `NumbersFill`,
  `StringFills`, `ArrayFills` and the two for index items keep it, kind by kind.

`ArrivalProofs`: the same files
* `DataIsThere` (`DataArrives`): what such a file holds is found. The two
  descriptions do not meet at once: `DataArrives` follows pointers through the heap
  (`Reached`), the loader stores at its base. Both come to `Where`, the address a
  path of `Opened` has by arithmetic on the module alone, from where the object of
  each item begins (`Place`). The invariant `DataStays` says of the items read so far
  that what each stored is there (`There`): the bytes of a number, the object, the
  pointer and the characters of a string, the object and the pointer of an array;
  and that the heap's path is the arrays that opened it (`Enters`), with
  which the base is `Where` (`Entered`). That a later item disturbs none of it is a
  fact about files: no two items of a path overlap (`SamePath`), each array is
  indexed once (`OpenerIs`), so what items store is apart across paths too
  (`SpotsApart`), apart from the characters of strings (`SpotBesideText`), and below
  the objects that come later (`KeptApart`). `EarlierStay` is the step from there;
  `NumbersArrive`, `StringArrives`, `ArrayArrives`, `IndexArrives` and `RestoreArrives`
  are the items. At the end `WhereReached` follows the arrays index by index, and
  `NumberFound`, `StringFound` and `ArrayFound` read off what the property asks for.

Only model-checked:
* Liveness (`Terminates`, `CleanProgramEnds`, and the fairness in `LoaderSpec`), which
  the prover cannot do.
* `CutRejected` for modules with handlers: there the cursor moves by a value of the
  file and may land anywhere, so a cut file is rejected or not by what its handlers
  hold; TLC checks the modules of the `loader` run.

## 5. What is not modelled

* `mem/heap.rs`: a private allocator no code constructs. `runt.rs`: empty
  functions. `main.rs` and the crate roots: one call of `init`, which `DisVM` has as
  a call of the host. The tests are empty.
* `VmArray` (`mem.rs` 151-237): no code constructs one and a comment marks it to be
  removed. To whoever does use it: `Clone` is derived and copies the pointer that
  `Drop` frees, so a clone and its original free it twice.
* Functions that only read: `read_module_data`, `read_heap`, `get`. The last
  compares the word with 0 where an empty pointer is -1, and adds the size of an
  object's header to a pointer that `load_data` already moved past it.
* `layout_map`, `allocations` and `Array.root`, which nothing reads; `Display`,
  `Debug` and printing.
* In the heap, the bytes of elements no item fills: a new array of pointers holds
  zeros and not empty pointers. A negative size of `types[0]`.
* Instructions other than `ILOAD`, which do nothing in the code either.
* How many bytes the parser allocates for a large count.

## 6. Plan

Order of work: the most important behaviour first, each step checked before it
is proved.

1. Done: the heap and its refinement, operands, the loader, the VM; type
   correctness and the main invariants of heap and VM.
2. Done: `LoadedHeap`, in which the bytes of the data section drive the heap and
   `HeapStops` becomes what the heap does.
3. Done: widths, negative sizes and alignment in `ModuleHeap`; the host's calls on
   the heap of a loaded module.
4. Done: `CallStack`, as part of `DisVM`. It is not a refinement of an abstract
   stack: `pop_frame` takes the other end than `push_frame` fills, and no text says
   otherwise.
5. Done: `DisVM` with files that do not load and unknown operation codes.
6. Done: `RcCounts`, `NestedSlotsInRegions`, `NestedFilesLoad`, `ElementsAlwaysFit`,
   `StackFramesAreOwn`.
7. Done: `DisLoader` proved for every module and file, `RoundTrip`, `WholeLoads`,
   `CutRejected` (without handlers) and `Coherent`, with induction over data;
   `LoadedHeap` proved to implement both its components, and its strings to stay
   text.
8. Done: `InitialisersLoad`: a depth-first data section makes the heap a
   `ModuleHeap` whose producer is "nested", so that `NestedFilesLoad` carries over.
9. Done: `DataArrives`: where an item stores is known from the module alone, and no
   later item stores there.
