--------------------------------- MODULE Insns ---------------------------------
(***************************************************************************)
(* The LLVM IR that generateModule emits for the instructions of a basic   *)
(* block, running: arithmetic, byte swaps, stores, loads, LDDW, helper     *)
(* calls and the condition of the jump at its end.  A register is an       *)
(* alloca of i64; an iN is the set of its bits that are 1 (Words).         *)
(***************************************************************************)
EXTENDS Words, Sequences

CONSTANTS
  B,        \* bits in a byte: 8
  Regs,     \* the registers the program uses; r0 is among them
  Size,     \* bytes of memory
  Programs  \* the basic blocks: sequences of Insn

H  == 2 * B
W  == 4 * B
DW == 8 * B

AluOps == {"add", "sub", "mul", "div", "mod", "or", "and", "xor", "lsh",
           "rsh", "arsh", "neg", "mov"}
JccOps == {"jeq", "jne", "jgt", "jge", "jlt", "jle", "jset",
           "jsgt", "jsge", "jslt", "jsle"}

(* wide: class ALU64 or JMP and not ALU or JMP32.  reg: the source is a    *)
(* register.  size: bytes.  imm2: the imm of the second slot of an LDDW.   *)
Imm  == -Pow2[W - 1] .. Pow2[W - 1] - 1
Insn ==
  [op : AluOps \cup JccOps, wide : BOOLEAN, reg : BOOLEAN,
   dst : Regs, src : Regs, imm : Imm]
  \cup [op : {"le"}, dst : Regs, imm : Imm \cup {H, W, DW}]
  \cup [op : {"be"}, dst : Regs, imm : {H, W, DW}]
  \cup [op : {"st", "stx", "ldx"}, size : {1, 2, 4, 8},
        dst : Regs, src : Regs, off : Int, imm : Imm]
  \cup [op : {"lddw"}, dst : Regs, src : {0, 1, 5} \cup 7 .. 10,
        imm : Imm, imm2 : Imm]
  \cup [op : {"call"}]

ASSUME ByteAssumption    == B \in Nat \ {0} /\ Size \in Nat
ASSUME RegsAssumption    == 0 \in Regs
ASSUME ProgramAssumption == Programs \subseteq Seq(Insn)

VARIABLES
  prog,   \* the instructions still to run
  regs,   \* regs[r]: what the slot of register r holds
  mem,    \* bytes
  taken   \* the condition of the last conditional branch

vars == <<prog, regs, mem, taken>>

-----------------------------------------------------------------------------
Init ==
  /\ prog \in Programs
  /\ regs \in [Regs -> Word(DW)]
  /\ mem \in [0 .. Size - 1 -> Word(B)]
  /\ taken = FALSE

Width(i) == IF i.wide THEN DW ELSE W

(* emitLoadALUSource and emitLoadALUDest.                                  *)
(* Bug: the immediate is not extended with its sign.                       *)
LoadALUSource_Zext(i) ==
  IF i.reg THEN Trunc(Width(i), regs[i.src]) ELSE OfInt(W, i.imm)
LoadALUSource(i) ==
  IF i.reg THEN Trunc(Width(i), regs[i.src]) ELSE OfInt(Width(i), i.imm)

LoadALUDest(i) == Trunc(Width(i), regs[i.dst])

SetReg(r, result) ==
  regs' = [regs EXCEPT ![r] = result] /\ UNCHANGED <<mem, taken>>

(* udiv and urem, also executed for a zero divisor, where LLVM leaves the  *)
(* result open and RISC-V gives all ones and the dividend.                 *)
UDiv(n, d, s) ==
  IF s = {} THEN 0 .. n - 1 ELSE OfInt(n, Unsigned(d) \div Unsigned(s))
URem(n, d, s) == IF s = {} THEN d ELSE OfInt(n, Unsigned(d) % Unsigned(s))

(* The shift count: urem by the width.                                     *)
Count(n, s) == Unsigned(s) % n

(* Bug: the count of a shift is used as it is.                             *)
AluResult_NoMask(op, n, d, s) ==
  CASE op = "lsh" -> {b + Unsigned(s) : b \in d}
    [] OTHER      -> d
AluResult(op, n, d, s) ==
  CASE op = "add"  -> OfInt(n, Unsigned(d) + Unsigned(s))
    [] op = "sub"  -> OfInt(n, Unsigned(d) - Unsigned(s))
    [] op = "mul"  -> OfInt(n, Unsigned(d) * Unsigned(s))
    [] op = "div"  -> IF s = {} THEN {} ELSE UDiv(n, d, s)
    [] op = "mod"  -> IF s = {} THEN d ELSE URem(n, d, s)
    [] op = "or"   -> d \cup s
    [] op = "and"  -> d \cap s
    [] op = "xor"  -> SymDiff(d, s)
    [] op = "lsh"  -> Shl(n, d, Count(n, s))
    [] op = "rsh"  -> LShr(n, d, Count(n, s))
    [] op = "arsh" -> AShr(n, d, Count(n, s))
    [] op = "neg"  -> OfInt(n, -Unsigned(d))
    [] op = "mov"  -> s

(* emitALUWithDstAndSrc; emitStoreALUResult extends an i32 with zeros.     *)
EmitALU(i) ==
  /\ i.op \in AluOps
  /\ SetReg(i.dst, AluResult(i.op, Width(i), LoadALUDest(i), LoadALUSource(i)))

(* emitALUEndianConversion: the bytes below imm, joined in reverse order   *)
(* for BE, and the whole register for LE.                                  *)
EmitEndian(i) ==
  \/ /\ i.op = "be"
     /\ SetReg(i.dst, UNION {{b + i.imm - B - 2 * k : b \in
                                {c \in regs[i.dst] : c - k \in 0 .. B - 1}} :
                               k \in {j \in 0 .. i.imm - 1 : j % B = 0}})
  \/ i.op = "le" /\ SetReg(i.dst, regs[i.dst])

(* emitStore and emitLoadX: a GEP by bytes, then a store or a load of      *)
(* size bytes, which lie in memory: that is the program's business.        *)
Address(r, off) == Unsigned(OfInt(DW, Unsigned(regs[r]) + off))
InMemory(a, size) == a + size <= Size

StoreSource(i) == IF i.op = "stx" THEN regs[i.src] ELSE OfInt(DW, i.imm)

EmitStore(i) ==
  /\ i.op \in {"st", "stx"}
  /\ LET a      == Address(i.dst, i.off)
         result == Trunc(i.size * B, StoreSource(i))
     IN /\ InMemory(a, i.size)
        /\ mem' = [b \in 0 .. Size - 1 |->
                     IF b \in a .. a + i.size - 1
                       THEN Part(result, (b - a) * B, B) ELSE mem[b]]
  /\ UNCHANGED <<regs, taken>>

EmitLoadX(i) ==
  /\ i.op = "ldx"
  /\ LET a == Address(i.src, i.off) IN
       /\ InMemory(a, i.size)
       /\ SetReg(i.dst, {b \in 0 .. i.size * B - 1 :
                           b % B \in mem[a + (b \div B)]})

(* LDDW: src_reg 0 joins the two immediates; 1 and 5 store imm, since no   *)
(* map_by_fd and map_by_idx are set; a src_reg above 6 stores nothing.     *)
EmitLddw(i) ==
  /\ i.op = "lddw"
  /\ SetReg(i.dst,
       CASE i.src = 0        -> OfInt(W, i.imm)
                                \cup {b + W : b \in OfInt(W, i.imm2)}
         [] i.src \in {1, 5} -> OfInt(DW, i.imm)
         [] OTHER            -> regs[i.dst])

(* emitExtFuncCall: the helper's result is stored in r0.                   *)
EmitExtCall(i) ==
  /\ i.op = "call"
  /\ \E result \in Word(DW) : SetReg(0, result)

(* emitJmpLoadSrcAndDstAndZero and the condition.                          *)
JmpSource(i) == LoadALUSource(i)
Condition(op, n, d, s) ==
  CASE op = "jeq"  -> d = s
    [] op = "jne"  -> d # s
    [] op = "jgt"  -> Unsigned(d) > Unsigned(s)
    [] op = "jge"  -> Unsigned(d) >= Unsigned(s)
    [] op = "jlt"  -> Unsigned(d) < Unsigned(s)
    [] op = "jle"  -> Unsigned(d) <= Unsigned(s)
    [] op = "jset" -> d \cap s # {}
    [] op = "jsgt" -> Signed(n, d) > Signed(n, s)
    [] op = "jsge" -> Signed(n, d) >= Signed(n, s)
    [] op = "jslt" -> Signed(n, d) < Signed(n, s)
    [] op = "jsle" -> Signed(n, d) <= Signed(n, s)

EmitCondJmp(i) ==
  /\ i.op \in JccOps
  /\ taken' = Condition(i.op, Width(i), LoadALUDest(i), JmpSource(i))
  /\ UNCHANGED <<regs, mem>>

Next ==
  /\ prog # <<>>
  /\ prog' = Tail(prog)
  /\ LET i == Head(prog) IN
       \/ EmitALU(i) \/ EmitEndian(i) \/ EmitStore(i) \/ EmitLoadX(i)
       \/ EmitLddw(i) \/ EmitExtCall(i) \/ EmitCondJmp(i)

Spec == Init /\ [][Next]_vars

-----------------------------------------------------------------------------
(* Every slot holds a word of 64 bits and every byte one of 8.             *)
TypeOK ==
  /\ prog \in Seq(Insn)
  /\ regs \in [Regs -> Word(DW)]
  /\ mem \in [0 .. Size - 1 -> Word(B)]
  /\ taken \in BOOLEAN

(* The emitted code computes what the instructions say, at both widths and *)
(* at the edges: division by zero, shifts by the width or more, negative   *)
(* immediates, the upper half of a register after a 32-bit operation.      *)
Integers64 == INSTANCE Isa WITH
  regs <- [r \in Regs |-> Unsigned(regs[r])],
  mem  <- [a \in 0 .. Size - 1 |-> Unsigned(mem[a])]
Computes == Integers64!Spec
=============================================================================
