# Verification of ebpf_llvm_jit

ebpf_llvm_jit compiles the XDP programs of an eBPF ELF file ahead of time into
RISC-V objects: it splits a program into basic blocks, emits LLVM IR for every
instruction, and lets LLVM write the object, which the bare-metal examples link
with a small runtime. This directory holds TLA+ models of it, TLC runs that
check them on small instances, and theorems about them that TLAPS checks for
all instances. `PROJECT.json` lists the runs, the mutants that show each
property can fail, the source lines of each definition, the hazards, the
findings and the theorems.

    tlc -workers 2 -config MCCodeGen_compile.cfg MCCodeGen   # one run
    tlapm CodeGenProofs.tla                                  # one module's proofs

## 1. Inventory

| Component | Source | State | Operations |
|---|---|---|---|
| Command-line driver | `main.cpp` | none of its own; output files | `build_ebpf_program`, `build_xdp`, `add_helpers`, `loadRodata` |
| CompilerXDP interface, AOT pipeline | `src/jit/compiler_xdp.cpp` | `insts`, `ext_funcs` (8192 slots), `error_msg`, `llvm_initialized` | `load_code`, `register_external_function`, `do_aot_compile`, `get_error_message` |
| Block splitting, module generation | `src/jit/compiler.cpp`, `program.h` | `program_t`: `blockBegin`, `allBlocks`, `instBlocks`, `localFuncRetBlks`, the LLVM function | `split_blocks`, `generateModule` |
| Code-emission helpers | `src/jit/code_gen.cpp` | none; what they emit works on register slots and memory | `load*Block`, `emit*` |
| ISA definitions | `src/ebpf_inst.h` | none | none |
| Emitted local-call protocol | emitted by `compiler.cpp` 237-293, 331-375, 985-1067 | at run time: `callStack`, `callItemCnt`, r6-r10, the data stack | local call, EXIT, `localRetBlock` |
| Emitted atomics | emitted by `compiler.cpp` 1212-1299 | memory shared with other threads | fetch-and-op, exchange, compare-and-exchange |
| Bare-metal runtime | `examples/99_baremetal_runtime` | UART, a 32-byte buffer | `_bpf_helper_ext_0006` (bpf_printk), `printf`, `itoa`, `hextoa`, `uart_putc` |
| Packet loaders | `main.c` and `main.bpf.c` of examples 02 to 06 | `xdp_md` records over a memory region | `load_packet_from_mem`, `get_next_pkt_end`, `load_packet_arr_from_mem`, `bpf_main` |
| AF_PACKET example, captures, `vmlinux.h`, build files | `examples/01`, `examples/00_print_pkts`, CMake | | |

**Interactions.** The driver opens the ELF with libbpf and for each `xdp`
program makes one `CompilerXDP`, registers the printk helper, hands over the
instructions (`load_code`), calls `do_aot_compile` and writes the result to a
file. `do_aot_compile` calls `generateModule`, which works on a copy of the
instructions in a `program_t`; it returns a module or the first error, which
`do_aot_compile` turns into an exception. The passes of `generateModule`
communicate only through `program_t`: `split_blocks` writes `blockBegin`, the
block loop turns it into `instBlocks`, `allBlocks` and `localFuncRetBlks`, the
emission loop reads all of them, and the last loop closes the blocks. The
emitted program calls helpers of the runtime, by name and with r1 to r5, and
communicates with itself across local calls through `callStack` and the data
stack. An example's `main` finds packets in the data region, passes each to the
compiled program, here called `bpf_main`, in an `xdp_md`, and prints with the
runtime. Everything up to the object file is one thread.

**What is hard.** Nothing in the compiler is concurrent, except the
initialisation flag of LLVM. What is hard is *order*: five passes make separate
decisions about the same program (what begins a block, what is a return site,
where a jump goes, what is a terminator, which block follows) in different
integer types, with different tests for the same thing, and a disagreement
shows only for some programs. The call protocol of the emitted program is a
second place of this kind: two pieces of emitted code index one array from a
counter, at any nesting depth. The compiled program shares memory with other
threads through atomics, the hart shares the transmit register with the UART,
and the arithmetic and the scans of the examples have their numeric edges.

**What makes each component correct.**

- Module generation: a returned module has the control flow of the program, can
  return from every local call and from nothing else, and is returned for every
  legal program; an illegal one gives an error, not an abort and not a hang.
  Running, it does what the eBPF program does.
- Local calls: a call returns to the instruction after it, and the caller finds
  r6 to r9, r10 and its own stack slots as it left them.
- Code-emission helpers: an instruction computes what the ISA says, at both
  widths and at the numeric edges.
- Atomics: at each location, each takes effect at one instant and gives the old
  value of that instant where the ISA promises it.
- CompilerXDP: `load_code` and registration accept or refuse and leave the
  compiler usable; an error message belongs to the last failure.
- Driver: an object is written for each `xdp` program or a failure is returned.
- Packet loaders: a packet is what lies between two stop sequences, inside the
  region; `bpf_main` reads only what `data` and `data_end` enclose, and its
  result depends on the packet alone.
- Runtime: the output is the format with its arguments, written inside the
  buffers, and no character is lost.

## 2. Modules

| Module | Models | Instances | Proofs |
|---|---|---|---|
| `CodeGen` | `split_blocks`, `generateModule`, the jump and call helpers of `code_gen.cpp` | `MCCodeGen` | `CodeGenProofs` |
| `Machine` | the returned module, running: blocks, branches, call stack | `MCMachine` | `CodeGenProofs` |
| `BpfFlow` | control in an eBPF program: what `Machine` implements | (through `Machine`) | (through `CodeGenProofs`) |
| `LocalCalls` | the code emitted for local calls, EXIT and `localRetBlock`, running | `MCLocalCalls` | `LocalCallsProofs` |
| `BpfCalls` | what a local call promises: what `LocalCalls` implements | (through `LocalCalls`) | (through `LocalCallsProofs`) |
| `AtomicOps` | the code emitted for atomic instructions, run by threads | `MCAtomicOps` | `AtomicOpsProofs` |
| `AtomicIsa` | what atomic instructions promise: what `AtomicOps` implements | (through `AtomicOps`) | (through `AtomicOpsProofs`) |
| `Insns` | the IR emitted for all other instructions, on bits | `MCInsns` | `InsnsProofs` |
| `Isa` | what those instructions compute, on integers: what `Insns` implements | (through `Insns`) | (through `InsnsProofs`) |
| `Words` | the iN of LLVM as sets of bits | | |
| `Powers` | powers of two and the binary digits of integers | | |
| `Driver` | the build command of `main.cpp` and the `CompilerXDP` it makes for each program | `MCDriver` | `Driver` |
| `PacketLoader` | `main` and `bpf_main` of examples 02 to 06 | `MCPacketLoader` | `PacketLoaderProofs` |
| `Printk` | bpf_printk and `printf` down to the UART | `MCPrintk` | `PrintkProofs` |
| `Induction` | no code: induction, recursive functions, `FlattenSeq`, sums and binary digits, for the proofs | | itself |

`Machine` EXTENDS `CodeGen` and is the composition of the compiler with the
program it compiles. `Machine` keeps control and leaves out data; `LocalCalls`,
`Insns` and `AtomicOps` keep the data of the three kinds of emitted code.

### CodeGen

The state is `program_t` and the locals of `generateModule`: `insns`, the loop
counter `i`, `marks` (the indices written in `blockBegin`), `instBlocks` (its
keys; the value of key k is the block named k), `allBlocks`, `localFuncRetBlks`,
`retDests` (the destinations of the indirectbr), `currBB` (where the builder
inserts), and `code`, what has been emitted into each block. `phase` is the
place in `generateModule`.

Every loop iteration is one action and every error path one action:

| Code | Actions |
|---|---|
| empty check, 157 | `RejectEmpty` |
| `split_blocks` | `StartSplit`, `SplitIter`, `SplitCrash`, `SplitDone` |
| block loop, 299-320 | `BlockIter`, `OutOfMemory`, `BlocksDone` |
| emission loop, 381-1307 | `RejectPrecheck`, `RejectOpcode`, one `Emit...` per kind of instruction with its `Reject...`, `AssertReturnSite`, `EmitDone` |
| branches between blocks and verifier, 1309-1321 | `FallThrough`, `Verify`, `RejectModule` |

An instruction keeps its registers, `off` and `imm`, and of its opcode the part
that control depends on: all ALU, load, store and atomic instructions the
switch accepts are one kind, `straight`. An emitted instruction is the number
of its eBPF instruction and, for a terminator, the blocks it leads to, taken
branch first. What it computes is in `Insns` and `AtomicOps`.

Integer widths matter and are parameters: `PcMod` (2^16) is the range of `pc`,
of the block keys and of the block loop's counter; `UIntMod` (2^32) that of the
index `split_blocks` computes; `WordBits` (64) the granularity of
`vector<bool>`. A write outside `blockBegin` is undefined; the model lets it go
unnoticed, or, when it lies outside the allocation, end the process
(`SplitCrash`). What other effects such a write may have on memory is not
modelled. `MaxBlocks` bounds the memory of the host: the block loop that never
ends for long programs allocates until it is used up.

Properties: `TypeOK`; `TerminatorLast` (nothing is emitted behind a
terminator); `EveryMarkHasBlock` (the error of lines 389-394 is dead code);
`FlowPreserved` (the returned module, read as a graph from instruction to
instruction, is the control-flow graph of the program: one place per
instruction, successors equal and in order); `ReturnsExact`; `AssertOnly`;
`SizeLimit`; and, under fairness, `Compiles` (it ends, and ends with a module
for a well-formed program). `FlowPreserved` assumes that no jump lands in the
second slot of an LDDW and that the program has at most 2^15 instructions
(`Plain`). Without the first it is false: `split_blocks` marks the slot, LDDW
skips it, and the block stays empty. Without the second it is false too:
`code_gen.cpp` 188 computes the destination in `uint16_t`, so that a jump past
the end of a long program becomes a jump to its beginning.

`AssertOnly` says when the assertion at compiler.cpp:996 fails: for a local
call that is the first instruction (the block loop collects return sites with
`i > 1`), the last, or encoded with the 0x8 bit. Programs that clang writes have
no such call. The model is of a build in which the assertion is compiled in.

### Machine and BpfFlow

`Machine` adds to `CodeGen` what runs once the module is returned: `blk` and
`pos`, the block and the entry in it that control is at, and `rets`, the return
addresses in `callStack`. `Continue` goes to the next entry of the block,
`Branch`, `Conditional`, `Call`, `ExitMain` and `Return` follow a terminator,
`Overrun` is the call `callStack` has no room for. `Return` takes an address
that is not among the destinations of the indirectbr as undefined (`Wild`), as
LLVM does. Nothing is taken from `FlowPreserved`: control follows `code`, the
blocks as emitted, with a branch that closes a block a step of its own.

`BpfFlow` is the eBPF program without blocks: an instruction number and a stack
of return numbers. `RunsProgram` is `BpfFlow!Spec`, its fairness included,
under the mapping that reads the instruction off the entry control is at; the
whole compilation maps to instruction 0 waiting. It is checked and proved for
well-formed programs (`WellFormed`, what a compiler for eBPF produces). A
program whose last write past `blockBegin` crashes the compiler does not run;
`MCMachine` excludes it by a `WordBits` larger than its programs, and the
theorem, which is about safety, needs no such bound. `InBlock` needs no
assumption on the program.

### LocalCalls and BpfCalls

`LocalCalls` is the emitted program at run time, between the points where
control can be transferred (`at`). `regs` is r6 to r9, `r10` the stack pointer
as a byte offset from `stackBegin`, `mem` the stack slots functions use,
`callStack` and `callItemCnt` the array and the counter `setupBlock` allocates.
`Call` is lines 985-1047, `Return` is EXIT with a non-zero counter followed by
`localRetBlock`, `Exit` is EXIT with counter 0. `SetReg` and `Store` stand for
whatever the program does between calls; eBPF makes r10 read-only, so the
program does not write it. `Overrun` is the call for which `callStack` has no
room: nothing tests it (compiler.cpp:244 says the counter stays below
`MAX_LOCAL_FUNC_DEPTH`, and no code compares them), what happens then is
undefined, and the model ends in `Wild`. A slot is named by the address of its
first byte; slots that partly overlap are not modelled.

`BpfCalls` keeps a stack of suspended callers, each with its return point, its
registers and its slots. `KeepsPromise` is `BpfCalls!Spec` under the mapping
that reads frame k off `callStack` at the indices the code uses and off the
data stack at depth k - 1. The promise covers functions that use up to
`STACK_SIZE` = 64 bytes of stack and up to `CALL_STACK_SIZE` nested calls.
Beyond the first the code does something else (`calls_frames`).

### AtomicOps and AtomicIsa

The code requests the ordering Monotonic (code_gen.cpp 349, compiler.cpp 1283
and 1284), which orders the accesses to *one* location: they happen in one
order, those of a thread in its program's order, and an `atomicrmw` or `cmpxchg`
reads the value right before its own. Accesses to two locations have no order
at all. So the module follows one location, of 32 or of 64 bits (`width`),
through its own order, and claims nothing of two. `regs` are every thread's own
registers, `mem` the location, and `before` the value a thread holds between the
two accesses of an EBPF_CMPXCHG. `BinOp` and `Xchg` are `emitAtomicBinOp` as the
switch calls it, `CmpxchgLoad` and `Cmpxchg` the two accesses EBPF_CMPXCHG is
emitted as, between which other threads run, and `Store` and `Load` the plain
accesses. `SetReg`, which puts any value in a register, is all the rest: the
thread's other instructions, with its accesses to other locations, whatever
they return and in whatever order memory performs them.

That a plain load or store of the location is one access in that order is taken
from riscv64, where an aligned one is; LLVM calls it a race. Accesses to a part
of the location, or to more than it, are not modelled, and neither is the
alignment of 32 bytes that `MaybeAlign(32)` claims of an `atomicrmw`.

`AtomicIsa` says what a location promises by itself: one step for each atomic
instruction and for a store, and no promise about the value of a plain load.
The location must always behave so; of the register the instruction leaves its result in, it promises the old value
for the instructions in `Promised`, and nothing for the others. `Atomic` is
`AtomicIsa!Spec` and holds with `Promised` = `Kept`, the 64-bit fetch-and-op
instructions. The code keeps no more than that:

- EBPF_CMPXCHG takes its result from the load before the exchange (`atomics_cmpxchg`).
  Two threads that take a lock with it can both read 0, of which one exchanges,
  and both find in r0 that they have it.
- EBPF_XCHG is emitted with `is_fetch` false (compiler.cpp 1258) and its
  register never gets the old value.
- A 32-bit fetch writes an i32 into the slot of the register, whose upper half
  stays as it was (code_gen.cpp 351).

### Insns, Isa, Words and Powers

An iN is the set of its bits that are 1, so that truncation is an intersection,
`zext` is nothing, and shifts move positions; that is the level of the emitted
IR. `Insns` runs the instructions of one basic block: `EmitALU` with the
operand helpers, `EmitEndian`, `EmitStore`, `EmitLoadX`, `EmitLddw`,
`EmitExtCall`, and `EmitCondJmp` for the condition at its end. `Isa` says on
integers, modulo the width, what the instruction set defines, and `Computes` is
`Isa!Spec` with registers and bytes read as integers. Where a word and a number
meet, `Unsigned` adds the powers of two at the bits of a word, and `OfInt` takes
the digits of a number (`Powers`). A register is 8 `B` bits
and a byte `B`, which is 8 in the code.

What the reader of the code should know:

- `udiv` and `urem` are emitted unconditionally, and a `select` replaces their
  result for a zero divisor by 0 or the dividend. In LLVM IR the division itself
  is undefined then. The model takes RISC-V's results and the selected value, and
  not the freedom the optimiser has.
- LE leaves the register as it is (code_gen.cpp 105), without truncation to
  `imm` bits, which the instruction set has. `Isa!Keep` promises only the low
  bits; with the others promised too, `Computes` is violated.
- LDDW with a `src_reg` above 6 matches no branch and stores nothing; 1 and 5
  store `imm` since `map_by_fd` and `map_by_idx` are not set.
- A helper call's result is any word.
- Accesses outside memory are the program's error and have no step.

### Driver

The state is what `build_ebpf_program` holds (`elf`, the programs libbpf found
with the part of their section name that matters; `k`, the loop's position;
`roData`), what the current `CompilerXDP` holds (`insts`, `extFuncs`), `result`,
and the output files: `out` now, `before` when the command started, when each
may be absent or left by an earlier build. `lost` is a history variable: the
programs whose write failed.

| Code | Actions |
|---|---|
| `bpf_object__open` | `Open`, `OpenFails` |
| `loadRodata` | `LoadRodata`: the section, or `""` for each of its failures |
| loop, 144-165 | `Skip` for an unsupported section, `Finish` |
| `build_xdp` | `Construct`, `AddHelpers`, `LoadCode`, `Compile`, `CompileFails`, `Write`, `WriteFails` |

`CompileFails` stands for every way `do_aot_compile` does not return: the
errors, the assertion, the crash and the exhausted memory of `CodeGen`, and
the exceptions for a missing target; none is caught between there and `main`.
`Write` follows, since the file is opened only after the compilation.
`WriteFails` is the `ofstream` that could not be opened or written: nobody
looks, the build goes on and reports success, and the file is absent, old or
partial. `LoadCode` cannot be refused because the driver passes a multiple of
8. An object is a record of whose code it holds, which helpers were registered
and which `.rodata` it was given.

Properties: `BuiltPrefix` (the output directory at every moment, also that at
which the process ends: objects of this build for the XDP programs so far,
everything else as it was), `OneMeansUnopened` (no program fails because an
earlier one registered the same helper), and `Ended`.

### PacketLoader

One module for examples 02 to 06, which differ in the scan (`LoadWords` and
`ScanWord` compare words in example 02, `ScanHalf` and `LoadHalves` count
halfwords, in a row from example 05 on), in what `data` and `data_end` get, and
in how much of the packet `bpf_main` looks at. `region` is the data region as
the linker script fills it: packets with 64 bits of ones after each. `HitEnd` is
the loader's error at the end of the region, which `main` ignores: `data_end`
stays what it was on the stack (`Garbage`), and in example 06 the next scan
begins at NULL. A scan that leaves the region ends the model (`Stray`). The
reads of `bpf_main` follow its bounds checks one by one, so that `Touched` says
what the next step would read.

Properties: `BoundsChecked`, whatever `main` left in the `xdp_md`; `Delimited`
(a packet the scan can tell from its end, `Clean`, is found from its first byte,
in examples 02 and 05 to its last, and in 06, which returns the end of the ones,
to where the next one begins); `VerdictOfPacket` (end to end, the result is that
of the bytes of the packet); `Finishes`.

`EndBeforeOnes` is the comment that examples 02 to 05 share, "Set pkt_end to the
address right before the 64-bit sequence of 1s", in its own terms: if the first
64 ones from the packet's beginning are those behind it (`Marked`), `data_end` is
where they begin. None of the four keeps it:

- 02 (main.c:36) compares aligned words and begins with both pointers at the
  first one: a first word of ones ends the packet, and ones that do not begin at
  a multiple of four bytes are not found. The packet of `baremetal.ld` has 66
  bytes and is run past; `Clean`, which `Delimited` is about, leaves out such
  packets in example 02, and `EndBeforeOnes` does not.
- 03 (main.c:61) and 04 (main.c:60) leave `data_end` behind the ones, 8 bytes
  further than they say, for every packet, and count halfwords of ones in total.
  `Delimited` claims nothing of their `data_end`.
- 03, 04 and 05 (main.c:81) subtract the value of `my_data_region_start`, which is
  a `char`, as if it were the address: right only when the first byte is 0.

### Printk

`_bpf_helper_ext_0006` and `printf` are the same walk over a format with three
labels; the model is one walk with the differences in `Relocated`, `IsNull` and
`AtEnd`. For a NULL format both print a message, which is left out, and return
(`NullFormat`); the helper tests only the pointer it has relocated.
A character is sent by polling and writing the holding register; `Transmit` is
the UART, concurrently. Memory is any function from addresses below `MemEnd` to
characters; a string in it (`StringAt`) ends at its first NUL or where memory
does. `Meaning` is the reference: what a format with its arguments prints, said
of its text position by position (`Piece`) and with numerals made from the
first digit on (`Dec`, `HexOf`), where the code makes them from the last on and
reverses. A format is `Complete` when it has its NUL, within `fmt_size`, and
each `%` has a conversion the code knows and one of the three arguments.

Properties: `PrintsFormat` (what goes out, in order and complete, for formats
that are `Printable`), `StaysInFormat` (a complete format is not read past its
NUL; `A%` as a whole format is, since s1 and s2 do not test for it),
`RoomInBuffer` (only the width of a `%x` can overrun the 32 bytes), and, under
fairness, `Ends`. The least int and a width of `BufSize` or more are outside
`Printable`: the first prints a wrong character, the second overruns. A
conversion without an argument left ends in `unknown`, since `va_arg` is then
undefined.

## 3. Runs

| Run | Checks | Result |
|---|---|---|
| `codegen_compile` | `TypeOK`, `TerminatorLast`, `EveryMarkHasBlock`, `FlowPreserved`, `ReturnsExact`, `AssertOnly`, `SizeLimit`, `Compiles` | pass |
| `machine_runs` | `InBlock`, `RunsProgram` | pass |
| `calls_promise` | `TypeOK`, `StackBalanced`, `CallerLocalsKept`, `KeepsPromise` | pass |
| `atomics_isa` | `TypeOK`, `Atomic` with `Promised` = `Kept` | pass |
| `insns_isa` | `TypeOK`, `Computes` | pass |
| `driver_build` | `TypeOK`, `BuiltPrefix`, `OneMeansUnopened`, `Ended` | pass |
| `loader_packets` | `TypeOK`, `BoundsChecked`, `Delimited`, `VerdictOfPacket`, `Finishes` | pass |
| `printk_uart` | `TypeOK`, `PrintsFormat`, `StaysInFormat`, `RoomInBuffer`, `Ends` | pass |
| `codegen_marks` | `MarksAreInstructions` (compiler.cpp:131) | violated: EXIT as last instruction writes past `blockBegin` |
| `calls_frames` | `CallerLocalsKept` with a slot at -72 (compiler.cpp:1028, ebpf_inst.h:23) | violated: frames are 64 bytes apart, functions may use 512 |
| `atomics_cmpxchg` | `Atomic` with CMPXCHG promised (ebpf_inst.h:39) | violated: the old value is that of an earlier load |
| `loader_dataend` | `EndBeforeOnes` (main.c:56 of example 02, 60 of 03, 59 of 04, 80 of 05) | violated: TLC stops at example 02 and a packet whose first word is ones; with `Examples` = {3}, {4} or {5} alone it is violated too |

The four violated ones are behind the findings in `PROJECT.json`, each of a line
that says what the code does not do.

**Bounds.** The programs of `MCCodeGen` are *all* sequences over a small
alphabet up to a length: four instructions over an alphabet with a straight
instruction, jumps forward and backward, a conditional jump, a local call, EXIT
and LDDW with its slot, and three over an alphabet that adds every illegal
form. Four is enough for every relation between two passes: a mark, a block, a
call, a return site and a jump to it involve at most two neighbouring pairs of
instructions, and block 0 (which `i > 1` treats differently) is still distinct
from the others. `PcMod` is 16 and further programs have 15 to 17 instructions,
so that they are below, at and past the range of the counter; `MaxBlocks` is
20, a little more, and `UIntMod` 64, more than any index that does not wrap.
`WordBits` is 4, so that a write past the vector can be inside and outside the
allocation.

`MCMachine` has every well-formed program of up to five instructions, in which
a call, a function of two instructions, its return and a loop around them fit,
and a call stack of three, so that recursion runs to its limit and unwinds.

`MCLocalCalls` has two program points, two values, one stack slot within
`STACK_SIZE` bytes and a call stack of two: a frame is pushed on top of another
and both are popped, which is where a layout error shows; three of r6 to r9 are
written, among them both ends of the range. `STACK_SIZE` keeps the code's value
64. `calls_frames` adds a slot beyond it.

`MCAtomicOps` has two threads, r0 and another register, one location of either
width, and words of one and two bits in place of 32 and 64: the upper half of a
register and sums that wrap exist; one location is what the ordering is about,
and `SetReg` lets the rest of memory answer anything; two threads are enough for one to
come between the accesses of another. The threads are interchangeable in both
modules and no property is of liveness, so that symmetry is sound.

`MCInsns` has bytes of one bit: registers of 8 bits, 32-bit operations of 4,
immediates from -8 to 7. All ALU instructions and conditions run with all
immediates and with registers at the edges of both widths, memory instructions
at addresses around both ends of memory, and some run behind one another. Shift
counts of the width and more, zero divisors, signed comparisons with the top
bit set and the upper half after a 32-bit result are all among them.

`MCDriver` has every ELF of up to three programs with distinct names, as the
functions of an object file have, in supported and unsupported sections, and
every initial content of the output directory: a program that fails has one
before it and one behind it. `Printk` and `MAX_EXT_FUNCS` have the code's
values.

`MCPacketLoader` has packets of up to four bytes with ones at every place, on
odd and even lengths; packets with runs of up to five halfwords of ones, apart
and in a row, on and off a word's boundary; Ethernet and IP headers cut at each
length that a bounds check compares with; and pairs of these in one region.

`MCPrintk` has formats of each conversion, with and without width, doubled and
unknown ones, no format at all, more conversions than arguments, and incomplete ones at the end
of the text, with the next format behind them in memory; int has 12 bits and
the buffer 6 characters, so that the least int, the longest int and too large a
width all occur; the holding register is empty or not when the call begins.

**Fairness.** `CodeGen` has `WF_vars(Next)`: `generateModule` is a single
thread that waits for nothing, so that it takes a step while one is possible.
`Driver` too, under the assumption that libbpf, LLVM and the file system
return, and `PacketLoader`, one hart with interrupts off. `Machine` has weak
fairness of compiling and of running, and no fairness of one outcome of a
branch over the other; `BpfFlow` says that a running program goes on, which is
what `Machine` has to implement. `Printk` has weak fairness of the walk and of
the UART, separately: a polling hart is not enabled while the register is full,
and the hardware empties it. `LocalCalls`, `Insns` and `AtomicOps` have none: no
liveness property is claimed of them. The
systems stop in a final phase by an explicit stuttering action, except
`LocalCalls` (after `Exit` and in `Wild`), `Driver` (whose process ends) and
`Insns` (at the end of its block, or at an access outside memory), whose runs do
not check for deadlock.

## 4. Proofs

| Module | Theorems | Assumptions beside the types of the constants |
|---|---|---|
| `CodeGenProofs` | `Typing`, `NothingBehindTerminator`, `MarkedBlocksExist`, `ReturnSitesExact`, `AssertionHolds`, `SizeLimited`, `FlowIsPreserved`, `StaysInBlocks`, `RunsTheProgram` | widths positive, `MaxBlocks` above `PcMod`, `PcMod <= UIntMod`; for the last, the program is `WellFormed` |
| `LocalCallsProofs` | `Typing`, `StackStaysBalanced`, `PromiseKept`, `CallersKeepLocals` | `SizeAssumption`; for the last two, `Offsets \subseteq -STACK_SIZE .. -1` |
| `AtomicOpsProofs` | `Typing`, `AtomicAccess` | `W` positive, r0 exists; for the second, `Promised \subseteq Kept` |
| `InsnsProofs` | `Typing`, `Refinement` | `B` positive, r0 exists |
| `Driver` | `Typing`, `PrefixIsBuilt`, `StatusOne` | the table has room for the helper, names are distinct |
| `PacketLoaderProofs` | `Typing`, `Bounds`, `Delimiting`, `Verdicts` | the region is a sequence of bytes, not empty (`LayoutAssumption`) |
| `PrintkProofs` | `Typing`, `Room`, `Bounded`, `Printing` | memory holds characters below an end; the numerals of the limits of int and uint32_t fit in `buffer`, and the range of int is even (`WidthAssumption`) |

**CodeGenProofs.** The properties are not inductive. `TerminatorLast` holds
only because the instruction after a jump-class instruction is always marked,
the mark has become a block, and the emission loop moves there: the inductive
invariant `IInv` therefore says which marks exist after i iterations
(`SplitInv`), that after the block loop the blocks are exactly the marks within
the program (`BlocksInv`), and which block the cursor is in and that it has no
terminator unless the next instruction is marked (`CursorInv`). `RInv` adds
that `localFuncRetBlks` holds exactly the return sites before i and that the
emission loop has passed a local call only if its site is among them, from
which `ReturnsExact`, `AssertOnly` and, by counting the blocks, `SizeLimit`
follow.

*The flow.* `FlowPreserved` speaks of the finished module only. The
invariant `WInv` says of the module under construction: blocks begin at marks
and no slot of an LDDW is one (`MarksInv`); `allBlocks` is `setupBlock` and then
the blocks in ascending order (`BlockOrderInv`), which is why the branch that
closes a block goes to the next instruction; each entry comes from an
instruction before `Front` and leads where that instruction leads
(`SourceInv`); no instruction has two places (`UniqueInv`), and each one before
`Front`, slots apart, has one (`CoverInv`); behind an entry comes the
instruction behind it (`ChainInv`); a block begins with the instruction it is
named for, and what follows its last entry is the next block or is still to be
emitted (`BlockInv`). Destinations are block ids in `uint16_t`: `ModNegative`
and the lemmas after it show that an id found among the blocks of a `Plain`
program is the number that was meant. That `PcMod <= UIntMod`, which the code's
widths satisfy, is needed for a backward jump before instruction 0, whose mark
must not fall in the program.

*The machine.* `StaysInBlocks` strengthens `InBlock` by what emitted
instructions lead to (`GoodEntry`), so that control always has an entry to go
to in a module the verifier has passed. `RunsTheProgram` uses it together with
`WInv`: each step of `Execute` is the step of `BpfFlow` for the instruction the
entry came from, or the branch at the end of a block, which changes no
instruction number. It is the safety half of `RunsProgram`; the fairness half
is TLC's.

**LocalCallsProofs.** `Typing` and `StackStaysBalanced` have the invariant that
the counter is five times the depth, r10 is the base of that depth, and the
items below the counter are return addresses and registers where the layout
says (`ItemsInv`). When functions use at most `STACK_SIZE` bytes of stack,
`PromiseKept` is the refinement of `BpfCalls`, step by step, and
`CallersKeepLocals` follows from the same arithmetic, `BasesApart`: slots
within `STACK_SIZE` bytes of their base belong to one depth. `SizeAssumption`
says that the data stack has room for `CALL_STACK_SIZE` frames and the full
`EBPF_STACK_SIZE` bytes of the last one, which the code's numbers
(64 * 64 + 512 <= 8 * 64 * 32) satisfy.

**AtomicOpsProofs.** The statement is of any one location and its order, so that
it holds of every location whatever the order between them. Registers and
memory map to themselves. A plain load is a register that gets some value, the
load of a compare-and-exchange a stutter and its `cmpxchg` the step of `AtomicIsa`:
the exchange itself is atomic, and since the result is not promised any value
of r0 will do. For a 64-bit fetch the iN written covers the slot, which is why
the promise can be kept there and only there.

**InsnsProofs.** `Typing` shows that no result is wider than its slot, for any
byte width: for each operation the result is a word of the width of its
operands, and a 32-bit one is also a word of 64 bits. `Refinement` is `Computes`
for every width, program and content of registers and memory. A word is the
digits of its number and a number below 2^n the word of its digits
(`ValueOfInt`, `WordIs`, by induction over the width, with `BitMore`: a number
modulo 2^(n+1) is the one modulo 2^n and one more digit). From there each
operation on bits becomes arithmetic: truncation a remainder (`TruncIs`), a part
of a word and `lshr` a quotient (`PartIs`, `LShrIs`), `shl` a product
(`ShlIs`), `ashr` a quotient of the signed number (`AShrIs`, whose digits above
the top bit are that bit, `SignBits`), one word above another a sum
(`AboveIs`). `AluIs` and `CondIs` go through the operations and the conditions,
and `BytesIs`, by induction over the number of bytes, says that a word is the sum
of its bytes, which loads, stores and byte swaps rest on. Then each `Emit` action
is the action of `Isa` that stands for it, and `IsaStep` puts them together. The
invariant needed is `TypeOK`: a register wider than 64 bits would have another
number than its digits below 64.

**Driver.** `BuiltPrefix` needs to know at the write whose object
`result` is, and `OneMeansUnopened` that the table is empty when the helper is
registered; `StageInv` says what is known at each stage of the loop. The step
that matters is `WriteStep`: distinct names make a write touch no other
program's file.

**Induction.** tlapm cannot instantiate the induction theorems of its library,
which take an operator. The lemmas here say the same of sets and functions:
`StrongInduction` and `SimpleInduction` for a set of numbers, from the library's
proof that < on `Nat` is well-founded, and `RecursionExists` for a function
whose value at n is made from the value at a smaller number. With it a
recursive function equals its definition, and what `FlattenSeq` does to a
sequence one longer (`FlattenAppend`) and to a beginning (`FlattenPrefix`) is
proved for every sequence. The community modules define sums by `CHOOSE` of a
function on subsets; `SumIs` shows that this is the sum taken position by
position, and `SumAdd` that one more element adds its value. The rest is about
division (`DivUnique`), powers of two and binary digits (`BitMore`, `BitShift`,
`BitTimes`, `BitDiv`).

**PacketLoaderProofs.** `Bounds` rests on what each place in `bpf_main` has
already tested (`Checked`), and on nothing about the region, the scan or
`data_end`. `Delimiting` is about the scan. Its invariant says how far a scan
that began at a packet has come (`ScanInv`): at the halfwords of the packet
without having met four ones in a row, or in the ones behind it with their
number; and that the pointers of a packet are those of its bytes in the region
(`Placed`). What makes it inductive is about data: the region is the packets and
what stands between them laid end to end, so that by `FlattenPrefix` packet j
begins where the layout of the ones before it ends, and a `Clean` packet has
nowhere the halfwords that would stop the scan, not across its end either.
`Verdicts` adds what a run of `bpf_main` knows at each place of the packet it
was given (`RunInv`), reading the bytes through memory.

**PrintkProofs.** For `Typing` and `Room` the proof shows that the digits of n
make a numeral with no more digits than that of a greater number (`Longer`),
and that `itoa` and `hextoa` give the reference's numerals: reversing what is
made from the last digit on gives what is made from the first (`Mirror`).
`StaysInFormat` is not inductive: `WalkInv` says for each label, of a complete
format, whether the position is inside a conversion, how many `%` lie before it
and that as many arguments have been taken, less one from the `%` to the
conversion, and that `len` is the number its digits make. The lemma that
matters is `Continues`: inside a conversion of a complete format a digit or its
letter is still to come, which is why s1 and s2 need no test for NUL.
`Printing` adds `OutInv`: what is in the UART, its register and `buffer` is what
the text says up to the walk's position, one `Piece` per step.

**Only model-checked.** Liveness (`Compiles`, `Ended`, `Finishes`, `Ends`, the
fairness in `RunsProgram`) is out of the prover's reach. Every other property
that a passing run checks is a theorem.

## 5. Not modelled

- `examples/01/vmlinux.h` is generated from a kernel: 113042 lines of type
  declarations, without a function, of which the programs use a few structs.
  It is 96 % of the repository's C lines, so that the share of mapped lines says
  little; of the other 4400 or so the map covers more than half, and of
  `compiler.cpp` and `code_gen.cpp` more than four fifths.
- `examples/01/main.c` is a loop of system calls around `bpf_main`. It passes
  `&xdp`, the address of a pointer, as context, so that the program reads the
  halves of that pointer as `data` and `data_end`; what those are depends on
  `malloc` and the C library.
- Of `CompilerXDP`: `error_msg`, which the driver reads only after a failure of
  `load_code` that its lengths exclude, and the initialisation flag of LLVM,
  which one thread sets once. `patch_map` callbacks of LDDW are null and are
  modelled as the error they give.
- LLVM, libbpf and the linker are libraries: only what `generateModule` relies
  on (a block has one terminator, at its end; an indirectbr goes to one of its
  destinations) and that they can fail is in the models. The freedom of LLVM's
  optimiser at a division by zero is not.
- The order of accesses to two locations: the code requests none, the models
  claim none, and a program that relies on one (a lock and what it guards) is
  outside them. Accesses of two widths to the same bytes are not modelled.
- Stores and loads in `Insns` are of any alignment; the alignment attributes
  the helpers give LLVM (`MaybeAlign`) are not modelled.
- The branches under `DEBUG_PRINTK`, which is 0, the result of `printf`, which
  nobody uses, `strcpy` and `strlen`, which are applied to constants. `%s` with
  an argument in `.rodata` is not relocated by the code and prints nothing in
  the model, which has no memory there.
- The driver's exit status 0 for an ELF with programs of unsupported sections
  only is modelled and not questioned. Logging is left out.
- The captures and the build files have no behaviour of the compiler.

## 6. Plan

Done: the compiler and its composition with the compiled program, local calls,
atomics, the other instructions, the driver, the packet loaders and the
runtime, each with its properties and its theorems; every invariant and every
refinement that a run checks is a theorem, but for the fairness in them.

Left, in this order:

1. The data of `LocalCalls`, `Insns` and `AtomicOps` in the blocks of
   `Machine`: one interpreter of eBPF, data included, above all four.
2. `CompilerXDP` used by other callers than the driver: `error_msg` across
   calls, the LLVM flag with two constructors.
