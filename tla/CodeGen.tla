------------------------------- MODULE CodeGen -------------------------------
(***************************************************************************)
(* CompilerXDP::generateModule: one eBPF program is split into basic       *)
(* blocks, every instruction is emitted into the LLVM block it belongs to, *)
(* blocks left open get a branch to the next one, and the module is        *)
(* verified.  What an instruction computes is left out; what is kept is    *)
(* where it is emitted and where control goes after it.                    *)
(*                                                                         *)
(* Instructions are numbered from 0, as in the code; a block is named by   *)
(* the number of the instruction it begins at, and Setup, Exit and Ret are *)
(* setupBlock, exitBlock and localRetBlock.                                *)
(***************************************************************************)
EXTENDS Integers, Sequences

CONSTANTS
  Programs,   \* the programs given to load_code, each a sequence of Insn
  ExtFuncs,   \* the imm of the registered external functions (p.extFunc)
  PcMod,      \* 2^16: pc, block keys and the block loop's i are uint16_t
  UIntMod,    \* 2^32: split_blocks computes its index as unsigned int
  WordBits,   \* 64: vector<bool> allocates whole words of this many bits
  MaxBlocks   \* bound on allBlocks standing for the memory of the host

None  == -4
Ret   == -3
Exit  == -2
Setup == -1

(***************************************************************************)
(* An instruction.  "straight" is every ALU, load, store and atomic        *)
(* instruction the switch accepts, "jcond" the conditional jumps, "callx"  *)
(* EBPF_OP_CALL | 0x8, "slot" an instruction whose code is 0, and "bad"    *)
(* and "badjmp" what the switch refuses, outside and inside the two jump   *)
(* classes.                                                                *)
(***************************************************************************)
JmpOps == {"ja", "jcond", "call", "callx", "exit", "badjmp"}
Ops    == JmpOps \cup {"straight", "lddw", "slot", "bad"}
Insn   == [op : Ops, dst : 0..15, src : 0..15, off : Int, imm : Int]

ASSUME ProgramsAssumption == Programs \subseteq Seq(Insn)
ASSUME WidthAssumption    == /\ PcMod \in Nat \ {0}
                             /\ UIntMod \in Nat \ {0}
                             /\ WordBits \in Nat \ {0}
ASSUME WidthOrder         == PcMod <= UIntMod
ASSUME BoundAssumption    == MaxBlocks \in Nat /\ MaxBlocks > PcMod

VARIABLES
  phase,            \* how far generateModule has come
  err,              \* which error it returned, "none" before
  insns,            \* p.insns
  i,                \* the counter of the loop of the current phase
  marks,            \* the indices written in p.blockBegin
  instBlocks,       \* the keys of p.instBlocks
  allBlocks,        \* p.allBlocks
  localFuncRetBlks, \* the keys of p.localFuncRetBlks
  retDests,         \* the destinations of the indirectbr of localRetBlock
  currBB,           \* currBB
  code              \* code[b]: what was emitted into block b

vars == <<phase, err, insns, i, marks, instBlocks, allBlocks,
          localFuncRetBlks, retDests, currBB, code>>

-----------------------------------------------------------------------------
Size  == Len(insns)
At(n) == insns[n + 1]
Cur   == At(i)

is_jmp(n) == At(n).op \in JmpOps
IsLocalCall(n) == At(n).op \in {"call", "callx"} /\ At(n).src = 1
RegsOk(n) == At(n).dst <= 10 /\ At(n).src <= 10

InstIds == 0 .. Size - 1
Blocks  == {Setup} \cup InstIds

(* One emitted instruction: to is <<>> unless it ends the block, and then  *)
(* lists its successors, the one taken first.                              *)
Entry(n, to) == [pc |-> n, to |-> to]

(* BasicBlock::getTerminator: the last entry, if it is a terminator.       *)
HasTerm(b) == code[b] # <<>> /\ code[b][Len(code[b])].to # <<>>

(* The bits vector<bool> has allocated for Size flags.                     *)
Capacity == ((Size + WordBits - 1) \div WordBits) * WordBits

Fail(e) ==
  /\ phase' = "error" /\ err' = e
  /\ UNCHANGED <<insns, i, marks, instBlocks, allBlocks, localFuncRetBlks,
                 retDests, currBB, code>>

-----------------------------------------------------------------------------
Init ==
  /\ insns \in Programs
  /\ phase = "start" /\ err = "none" /\ i = 0
  /\ marks = {} /\ instBlocks = {} /\ allBlocks = <<>>
  /\ localFuncRetBlks = {} /\ retDests = {} /\ currBB = Setup
  /\ code = [b \in Blocks |-> <<>>]

RejectEmpty == phase = "start" /\ insns = <<>> /\ Fail("empty")

(* blockBegin is allocated and the first instruction marked.               *)
StartSplit ==
  /\ phase = "start" /\ insns # <<>>
  /\ phase' = "split" /\ marks' = {0}
  /\ UNCHANGED <<err, insns, i, instBlocks, allBlocks, localFuncRetBlks,
                 retDests, currBB, code>>

(* One iteration of split_blocks.  The index of a jump's target is not     *)
(* compared with the size of the vector.                                   *)
JumpMark == (i + Cur.off + 1) % UIntMod
(* Bug: the instruction after a jump is not marked.                        *)
NewMarks_NoNext   == {n \in {JumpMark} : is_jmp(i)}
(* Bug: the target of a jump is not marked.                                *)
NewMarks_NoTarget == {n \in {i} : i > 0 /\ is_jmp(i - 1)}
NewMarks ==
  {n \in {i} : i > 0 /\ is_jmp(i - 1)} \cup {n \in {JumpMark} : is_jmp(i)}

SplitIter ==
  /\ phase = "split" /\ i < Size
  /\ marks' = marks \cup NewMarks
  /\ i' = i + 1
  /\ UNCHANGED <<phase, err, insns, instBlocks, allBlocks, localFuncRetBlks,
                 retDests, currBB, code>>

(* A write outside the allocation is undefined: it may go unnoticed        *)
(* (SplitIter) or end the process.                                         *)
SplitCrash ==
  /\ phase = "split" /\ i < Size /\ is_jmp(i)
  /\ JumpMark >= Capacity
  /\ phase' = "crashed"
  /\ UNCHANGED <<err, insns, i, marks, instBlocks, allBlocks,
                 localFuncRetBlks, retDests, currBB, code>>

(* bpf_main and setupBlock are created.                                    *)
SplitDone ==
  /\ phase = "split" /\ i >= Size
  /\ phase' = "blocks" /\ i' = 0 /\ allBlocks' = <<Setup>>
  /\ UNCHANGED <<err, insns, marks, instBlocks, localFuncRetBlks, retDests,
                 currBB, code>>

(* One iteration of the loop that creates the blocks; its counter is a     *)
(* uint16_t.  A block that follows a local call becomes a return site.     *)
(* Bug: the block after any call is taken for a return site.               *)
ReturnSite_AnyCall(n) == n > 1 /\ At(n - 1).op = "call"
(* Bug: the bound on i is off by one.                                      *)
ReturnSite_OffByOne(n) == n > 2 /\ At(n - 1).op = "call" /\ At(n - 1).src = 1
ReturnSite(n) == n > 1 /\ At(n - 1).op = "call" /\ At(n - 1).src = 1

(* Bug: no block is created for the last instruction.                      *)
BlockIter_SkipLast ==
  /\ phase = "blocks" /\ i < Size
  /\ IF i \in marks /\ i + 1 < Size
       THEN /\ Len(allBlocks) < MaxBlocks
            /\ instBlocks' = instBlocks \cup {i}
            /\ allBlocks' = Append(allBlocks, i)
            /\ localFuncRetBlks' =
                 localFuncRetBlks \cup {n \in {i} : ReturnSite(n)}
       ELSE UNCHANGED <<instBlocks, allBlocks, localFuncRetBlks>>
  /\ i' = (i + 1) % PcMod
  /\ UNCHANGED <<phase, err, insns, marks, retDests, currBB, code>>

(* Bug, for SizeLimit: a counter one bit wider than the block keys.        *)
BlockIter_Wide ==
  /\ phase = "blocks" /\ i < Size
  /\ IF i \in marks
       THEN /\ Len(allBlocks) < MaxBlocks
            /\ instBlocks' = instBlocks \cup {i}
            /\ allBlocks' = Append(allBlocks, i)
            /\ localFuncRetBlks' =
                 localFuncRetBlks \cup {n \in {i} : ReturnSite(n)}
       ELSE UNCHANGED <<instBlocks, allBlocks, localFuncRetBlks>>
  /\ i' = (i + 1) % (2 * PcMod)
  /\ UNCHANGED <<phase, err, insns, marks, retDests, currBB, code>>

BlockIter ==
  /\ phase = "blocks" /\ i < Size
  /\ IF i \in marks
       THEN /\ Len(allBlocks) < MaxBlocks
            /\ instBlocks' = instBlocks \cup {i}
            /\ allBlocks' = Append(allBlocks, i)
            /\ localFuncRetBlks' =
                 localFuncRetBlks \cup {n \in {i} : ReturnSite(n)}
       ELSE UNCHANGED <<instBlocks, allBlocks, localFuncRetBlks>>
  /\ i' = (i + 1) % PcMod
  /\ UNCHANGED <<phase, err, insns, marks, retDests, currBB, code>>

OutOfMemory ==
  /\ phase = "blocks" /\ i < Size /\ i \in marks
  /\ Len(allBlocks) >= MaxBlocks
  /\ phase' = "oom"
  /\ UNCHANGED <<err, insns, i, marks, instBlocks, allBlocks,
                 localFuncRetBlks, retDests, currBB, code>>

(* exitBlock and localRetBlock are created: the destinations of its        *)
(* indirectbr are the return sites known by now.                           *)
BlocksDone ==
  /\ phase = "blocks" /\ i >= Size
  /\ phase' = "emit" /\ i' = 0 /\ currBB' = 0
  /\ retDests' = localFuncRetBlks
  /\ UNCHANGED <<err, insns, marks, instBlocks, allBlocks, localFuncRetBlks,
                 code>>

-----------------------------------------------------------------------------
(* The emission loop.                                                      *)
Emitting == phase = "emit" /\ i < Size

(* The insertion point of instruction i.  A marked instruction without a   *)
(* block and a register number above r10 are errors.                       *)
Here    == IF i \in marks THEN i ELSE currBB
NoBlock == i \in marks /\ i \notin instBlocks

RejectPrecheck ==
  /\ Emitting /\ (NoBlock \/ ~RegsOk(i))
  /\ Fail(IF NoBlock THEN "noblock" ELSE "regs")

Reaches(op) == Emitting /\ ~NoBlock /\ RegsOk(i) /\ Cur.op = op

(* Emit the current instruction; it and its extra slots are consumed.      *)
Emit(to, width) ==
  /\ code' = [code EXCEPT ![Here] = Append(@, Entry(i, to))]
  /\ currBB' = Here
  /\ i' = (i + width) % PcMod
  /\ UNCHANGED <<phase, err, insns, marks, instBlocks, allBlocks,
                 localFuncRetBlks, retDests>>

EmitStraight == Reaches("straight") /\ Emit(<<>>, 1)

RejectOpcode ==
  /\ \E op \in {"bad", "badjmp", "slot"} : Reaches(op)
  /\ Fail("opcode")

(* LDDW takes a second slot; src_reg selects the pseudo instruction, and   *)
(* 2, 3, 4 and 6 need callbacks that CompilerXDP leaves unset.             *)
GoodSlot(n) == /\ n < Size
               /\ At(n).op = "slot"
               /\ At(n).dst = 0 /\ At(n).src = 0 /\ At(n).off = 0
LddwOk(n) == GoodSlot(n + 1) /\ At(n).src \notin {2, 3, 4, 6}

EmitLddw   == Reaches("lddw") /\ LddwOk(i) /\ Emit(<<>>, 2)
RejectLddw == Reaches("lddw") /\ ~LddwOk(i) /\ Fail("lddw")

(* loadJmpDstBlock, loadCallDstBlock and loadJmpNextBlock: block ids are   *)
(* uint16_t, and are looked up in instBlocks.                              *)
JmpDstBlock  == (i + 1 + Cur.off) % PcMod
CallDstBlock == (i + 1 + Cur.imm) % PcMod
NextBlock    == (i + 1) % PcMod

(* Bug: the target of a jump is not looked up.                             *)
EmitJa_NoLookup == Reaches("ja") /\ Emit(<<JmpDstBlock>>, 1)
EmitJa ==
  Reaches("ja") /\ JmpDstBlock \in instBlocks /\ Emit(<<JmpDstBlock>>, 1)
RejectJa ==
  Reaches("ja") /\ JmpDstBlock \notin instBlocks /\ Fail("target")

(* Bug: the two branches are swapped.                                      *)
EmitJcond_Swapped ==
  /\ Reaches("jcond")
  /\ {JmpDstBlock, NextBlock} \subseteq instBlocks
  /\ Emit(<<NextBlock, JmpDstBlock>>, 1)

EmitJcond ==
  /\ Reaches("jcond")
  /\ {JmpDstBlock, NextBlock} \subseteq instBlocks
  /\ Emit(<<JmpDstBlock, NextBlock>>, 1)
RejectJcond ==
  /\ Reaches("jcond")
  /\ ~({JmpDstBlock, NextBlock} \subseteq instBlocks)
  /\ Fail("target")

(* A local call first asserts that its return site has a block address.    *)
ReachesCall == \E op \in {"call", "callx"} : Reaches(op)

AssertReturnSite ==
  /\ ReachesCall /\ Cur.src = 1 /\ NextBlock \notin localFuncRetBlks
  /\ phase' = "abort"
  /\ UNCHANGED <<err, insns, i, marks, instBlocks, allBlocks,
                 localFuncRetBlks, retDests, currBB, code>>

EmitLocalCall ==
  /\ ReachesCall /\ Cur.src = 1 /\ NextBlock \in localFuncRetBlks
  /\ CallDstBlock \in instBlocks
  /\ Emit(<<CallDstBlock>>, 1)
RejectLocalCall ==
  /\ ReachesCall /\ Cur.src = 1 /\ NextBlock \in localFuncRetBlks
  /\ CallDstBlock \notin instBlocks
  /\ Fail("target")

(* A helper call stays in its block, except bpf_tail_call (12).            *)
EmitExtCall ==
  /\ ReachesCall /\ Cur.src # 1 /\ Cur.imm \in ExtFuncs
  /\ Emit(IF Cur.imm = 12 THEN <<Exit>> ELSE <<>>, 1)
RejectExtCall ==
  ReachesCall /\ Cur.src # 1 /\ Cur.imm \notin ExtFuncs /\ Fail("extfunc")

EmitExit == Reaches("exit") /\ Emit(<<Exit, Ret>>, 1)

EmitDone ==
  /\ phase = "emit" /\ i >= Size
  /\ phase' = "br" /\ i' = 0
  /\ UNCHANGED <<err, insns, marks, instBlocks, allBlocks, localFuncRetBlks,
                 retDests, currBB, code>>

-----------------------------------------------------------------------------
(* Every block but the last of allBlocks that is still open gets a branch  *)
(* to the block after it.                                                  *)
FallThrough ==
  /\ phase = "br" /\ i < Len(allBlocks) - 1
  /\ LET b == allBlocks[i + 1] IN
       code' = IF HasTerm(b) THEN code
               ELSE [code EXCEPT ![b] =
                       Append(@, Entry(None, <<allBlocks[i + 2]>>))]
  /\ i' = i + 1
  /\ UNCHANGED <<phase, err, insns, marks, instBlocks, allBlocks,
                 localFuncRetBlks, retDests, currBB>>

(* verifyModule: a block has one terminator, at its end.                   *)
WellFormedBlock(b) ==
  HasTerm(b) /\ \A k \in 1 .. Len(code[b]) - 1 : code[b][k].to = <<>>
ModuleOk == \A b \in {Setup} \cup instBlocks : WellFormedBlock(b)

Verify ==
  /\ phase = "br" /\ i >= Len(allBlocks) - 1 /\ ModuleOk
  /\ phase' = "done"
  /\ UNCHANGED <<err, insns, i, marks, instBlocks, allBlocks,
                 localFuncRetBlks, retDests, currBB, code>>
RejectModule ==
  phase = "br" /\ i >= Len(allBlocks) - 1 /\ ~ModuleOk /\ Fail("verify")

-----------------------------------------------------------------------------
Split  == StartSplit \/ SplitIter \/ SplitCrash \/ SplitDone
Create == BlockIter \/ OutOfMemory \/ BlocksDone
EmitStep ==
  \/ EmitStraight \/ EmitLddw \/ EmitJa \/ EmitJcond
  \/ EmitLocalCall \/ EmitExtCall \/ EmitExit
Reject ==
  \/ RejectEmpty \/ RejectPrecheck \/ RejectOpcode
  \/ RejectLddw \/ RejectJa \/ RejectJcond \/ RejectLocalCall
  \/ RejectExtCall \/ RejectModule
Finish == EmitDone \/ FallThrough \/ Verify

Final == {"done", "error", "abort", "crashed", "oom"}

(* generateModule has returned, or the process has ended.                  *)
Stopped == phase \in Final /\ UNCHANGED vars

Next == Split \/ Create \/ EmitStep \/ AssertReturnSite \/ Reject \/ Finish
        \/ Stopped

(* One thread runs generateModule and nothing it does blocks.              *)
Spec == Init /\ [][Next]_vars /\ WF_vars(Next)
-----------------------------------------------------------------------------
(* The state a run of generateModule can be in.                            *)
TypeOK ==
  /\ phase \in {"start", "split", "blocks", "emit", "br"} \cup Final
  /\ err \in {"none", "empty", "noblock", "regs", "opcode", "lddw", "target",
              "extfunc", "verify"}
  /\ insns \in Seq(Insn) /\ i \in Nat
  /\ marks \subseteq Nat
  /\ instBlocks \subseteq InstIds
  /\ allBlocks \in Seq(Blocks)
  /\ localFuncRetBlks \subseteq instBlocks
  /\ retDests \subseteq localFuncRetBlks
  /\ currBB \in Blocks
  /\ code \in [Blocks -> Seq([pc : InstIds \cup {None},
                               to : Seq(Blocks \cup {Exit, Ret})])]

(* Nothing is emitted after the terminator of a block, so that no          *)
(* instruction is lost behind a branch: every jump-class instruction is    *)
(* followed by a block begin (split_blocks), whatever the program.         *)
TerminatorLast ==
  \A b \in Blocks : \A k \in 1 .. Len(code[b]) - 1 : code[b][k].to = <<>>

(* The error "marked block begin, but no BasicBlock* found" is never       *)
(* returned: the loop that creates the blocks and the emission loop agree  *)
(* on where blocks begin.                                                  *)
EveryMarkHasBlock == err # "noblock"

(***************************************************************************)
(* The control flow of the eBPF program itself.                            *)
(***************************************************************************)
Slots == {n \in InstIds : n > 0 /\ At(n - 1).op = "lddw"}

IsaNext(n) ==
  LET op == At(n).op IN
  CASE op = "ja"    -> <<n + 1 + At(n).off>>
    [] op = "jcond" -> <<n + 1 + At(n).off, n + 1>>
    [] op = "exit"  -> <<Exit, Ret>>
    [] op = "lddw"  -> <<n + 2>>
    [] IsLocalCall(n) -> <<n + 1 + At(n).imm>>
    [] op \in {"call", "callx"} /\ At(n).src # 1 /\ At(n).imm = 12 -> <<Exit>>
    [] OTHER -> <<n + 1>>

(* Offsets of jumps are int16_t; those of local calls are an int32_t that  *)
(* is used as a uint16_t, and these programs keep it in the same range.    *)
(* No jump-class instruction points into the second slot of an LDDW.       *)
Reach == PcMod \div 2
Plain ==
  /\ Size <= Reach
  /\ \A n \in InstIds :
       /\ At(n).off \in -Reach .. Reach - 1
       /\ IsLocalCall(n) => At(n).imm \in -Reach .. Reach - 1
       /\ is_jmp(n) => n + 1 + At(n).off \notin Slots

(* The first instruction of a block, and the instructions control goes to  *)
(* after the k-th entry of block b.                                        *)
EntryOf(b) == IF b \in {Exit, Ret} THEN b ELSE code[b][1].pc
After(b, k) ==
  IF k < Len(code[b]) /\ code[b][k + 1].pc # None
    THEN <<code[b][k + 1].pc>>
    ELSE LET to == code[b][Len(code[b])].to
         IN  [j \in DOMAIN to |-> EntryOf(to[j])]

Places(n) == {p \in Blocks \X (1 .. Size + 1) :
                p[2] <= Len(code[p[1]]) /\ code[p[1]][p[2]].pc = n}

(* A module that is returned runs the program it was given: it starts at   *)
(* instruction 0, each instruction is emitted at one place, and after it   *)
(* control goes where the eBPF program goes, taken branch first.           *)
FlowPreserved ==
  phase = "done" /\ Plain =>
    /\ \A b \in instBlocks : code[b][1].pc = b
    /\ After(Setup, 0) = <<0>>
    /\ \A n \in InstIds \ Slots :
         /\ \E p \in Places(n) : Places(n) = {p}
         /\ \A p \in Places(n) : After(p[1], p[2]) = IsaNext(n)

(* A returned module can return from every local call, and only to the     *)
(* instruction after one: the indirectbr of localRetBlock, built before    *)
(* any call is emitted, lists exactly the return sites of the calls.       *)
ReturnsExact ==
  phase = "done" => retDests = {n + 1 : n \in {m \in InstIds : IsLocalCall(m)}}

(* The assert on localFuncRetBlks fails only at a local call that is the   *)
(* first or the last instruction, or is encoded with the 0x8 bit.          *)
AssertOnly ==
  phase = "abort" =>
    IsLocalCall(i) /\ (i = 0 \/ i + 1 = Size \/ Cur.op = "callx")

(* The uint16_t loop that creates the blocks ends exactly for programs of  *)
(* fewer than 65536 instructions; a longer one never reaches emission.     *)
SizeLimit ==
  IF Size < PcMod THEN phase # "oom"
                  ELSE phase \in {"start", "split", "blocks", "crashed", "oom"}

(* split_blocks says it "marks the instruction at the jump TARGET": every  *)
(* index it writes would be that of an instruction.  A jump-class last     *)
(* instruction, which every program has that ends in EXIT, makes it write  *)
(* one past the end of blockBegin.                                         *)
MarksAreInstructions == marks \subseteq InstIds

(***************************************************************************)
(* What a compiler for eBPF produces: registers and opcodes are legal, an  *)
(* LDDW has its slot, jumps stay in the program, a local function begins   *)
(* after a jump-class instruction, a local call is neither the first nor   *)
(* the last instruction, and the program does not run off its end.         *)
(***************************************************************************)
WellFormed ==
  /\ Size > 0 /\ Plain
  /\ {n \in InstIds : At(n).op = "slot"} = Slots
  /\ \A n \in InstIds :
       LET op == At(n).op IN
       /\ RegsOk(n) /\ op \notin {"bad", "badjmp", "callx"}
       /\ op = "lddw" => LddwOk(n)
       /\ op \in {"ja", "jcond"} => n + 1 + At(n).off \in InstIds
       /\ op = "jcond" => n + 1 \in InstIds
       /\ op \in {"call", "exit"} => At(n).off = 0
       /\ op = "call" /\ At(n).src # 1 => At(n).imm \in ExtFuncs
       /\ IsLocalCall(n) =>
            /\ n > 0 /\ n + 1 < Size
            /\ LET f == n + 1 + At(n).imm
               IN  f \in InstIds /\ (f > 0 => is_jmp(f - 1))
  /\ IsaNext(Size - 1)[1] # Size

(* generateModule ends, and compiles every such program, unless the write  *)
(* past blockBegin for a jump-class last instruction ends the process.     *)
Compiles ==
  /\ <>(phase \in Final)
  /\ WellFormed =>
       <>(phase = "done" \/ (phase = "crashed" /\ Capacity = Size))
=============================================================================
