---------------------------------- MODULE Isa ----------------------------------
(***************************************************************************)
(* What the straight-line instructions of eBPF compute, on integers:       *)
(* registers hold 0 .. 2^64 - 1, arithmetic is modulo the width of the     *)
(* instruction, memory is little-endian bytes.  An instruction says        *)
(* nothing about some results: what a register holds after a helper call,  *)
(* a pseudo LDDW of an unknown kind, and above the size of a LE.           *)
(***************************************************************************)
EXTENDS Powers, Sequences

CONSTANTS
  B,      \* bits in a byte: 8
  Regs,   \* the registers the program uses
  Size    \* bytes of memory

VARIABLES
  prog,   \* the instructions still to run
  regs, mem,
  taken   \* whether the last conditional jump is taken

vars == <<prog, regs, mem, taken>>

W  == 4 * B
DW == 8 * B

Mod(n, k)    == k % Pow2[n]
AsSigned(n, x) == IF x < Pow2[n - 1] THEN x ELSE x - Pow2[n]
Byte(x, k)   == Mod(B, x \div Pow2[B * k])
Join(bytes)  == SumFunction([k \in DOMAIN bytes |-> bytes[k] * Pow2[B * k]])

(* The operands of an instruction of width n: its immediate is signed.     *)
Width(i) == IF i.wide THEN DW ELSE W
Dst(i)   == Mod(Width(i), regs[i.dst])
Src(i)   == Mod(Width(i), IF i.reg THEN regs[i.src] ELSE i.imm)

(* Division by zero gives zero, and modulo by zero the dividend; a shift   *)
(* is by its count modulo the width.                                       *)
Alu(op, n, x, y) ==
  CASE op = "add"  -> Mod(n, x + y)
    [] op = "sub"  -> Mod(n, x - y)
    [] op = "mul"  -> Mod(n, x * y)
    [] op = "div"  -> IF y = 0 THEN 0 ELSE x \div y
    [] op = "mod"  -> IF y = 0 THEN x ELSE x % y
    [] op = "or"   -> FromBits({b \in 0 .. n - 1 : Bit(x, b) + Bit(y, b) > 0})
    [] op = "and"  -> FromBits({b \in 0 .. n - 1 : Bit(x, b) * Bit(y, b) > 0})
    [] op = "xor"  -> FromBits({b \in 0 .. n - 1 : Bit(x, b) # Bit(y, b)})
    [] op = "lsh"  -> Mod(n, x * Pow2[y % n])
    [] op = "rsh"  -> x \div Pow2[y % n]
    [] op = "arsh" -> Mod(n, AsSigned(n, x) \div Pow2[y % n])
    [] op = "neg"  -> Mod(n, -x)
    [] op = "mov"  -> y
AluOps == {"add", "sub", "mul", "div", "mod", "or", "and", "xor", "lsh",
           "rsh", "arsh", "neg", "mov"}

Holds(op, n, x, y) ==
  LET sx == AsSigned(n, x)
      sy == AsSigned(n, y)
  IN CASE op = "jeq"  -> x = y
       [] op = "jne"  -> x # y
       [] op = "jgt"  -> x > y
       [] op = "jge"  -> x >= y
       [] op = "jlt"  -> x < y
       [] op = "jle"  -> x <= y
       [] op = "jset" -> Alu("and", n, x, y) # 0
       [] op = "jsgt" -> sx > sy
       [] op = "jsge" -> sx >= sy
       [] op = "jslt" -> sx < sy
       [] op = "jsle" -> sx <= sy
JccOps == {"jeq", "jne", "jgt", "jge", "jlt", "jle", "jset",
           "jsgt", "jsge", "jslt", "jsle"}

Gets(r, x) == regs' = [regs EXCEPT ![r] = x] /\ UNCHANGED <<mem, taken>>

(* A 32-bit result clears the upper half of the register.                  *)
Compute(i) ==
  i.op \in AluOps /\ Gets(i.dst, Alu(i.op, Width(i), Dst(i), Src(i)))

Jump(i) ==
  /\ i.op \in JccOps
  /\ taken' = Holds(i.op, Width(i), Dst(i), Src(i))
  /\ UNCHANGED <<regs, mem>>

(* BE reverses the low bytes of the register, LE keeps them.               *)
Swap(i) ==
  /\ i.op = "be"
  /\ LET bytes == i.imm \div B
         x     == regs[i.dst]
     IN Gets(i.dst, Join([k \in 0 .. bytes - 1 |-> Byte(x, bytes - 1 - k)]))
Keep(i) ==
  /\ i.op = "le"
  /\ i.imm \in {2 * B, 4 * B, 8 * B} =>
       Mod(i.imm, regs'[i.dst]) = Mod(i.imm, regs[i.dst])
  /\ Gets(i.dst, regs'[i.dst])

Address(r, off) == Mod(DW, regs[r] + off)

Store(i) ==
  /\ i.op \in {"st", "stx"}
  /\ LET a == Address(i.dst, i.off)
         x == IF i.op = "stx" THEN regs[i.src] ELSE Mod(DW, i.imm)
     IN mem' = [b \in 0 .. Size - 1 |->
                  IF b - a \in 0 .. i.size - 1 THEN Byte(x, b - a) ELSE mem[b]]
  /\ UNCHANGED <<regs, taken>>

Load(i) ==
  /\ i.op = "ldx"
  /\ LET a == Address(i.src, i.off) IN
       Gets(i.dst, Join([k \in 0 .. i.size - 1 |-> mem[a + k]]))

(* A 64-bit immediate in two halves; kinds 1 and 5 give the number of a    *)
(* map, and nothing is said about the other kinds.                         *)
LoadImm(i) ==
  /\ i.op = "lddw"
  /\ i.src = 0 => regs'[i.dst] = Mod(W, i.imm) + Mod(W, i.imm2) * Pow2[W]
  /\ i.src \in {1, 5} => regs'[i.dst] = Mod(DW, i.imm)
  /\ Gets(i.dst, regs'[i.dst])

(* A helper may change r0 to r5.                                           *)
Helper(i) ==
  /\ i.op = "call"
  /\ \A r \in Regs \ (0 .. 5) : regs'[r] = regs[r]
  /\ UNCHANGED <<mem, taken>>

Next ==
  /\ prog # <<>>
  /\ prog' = Tail(prog)
  /\ LET i == Head(prog) IN
       \/ Compute(i) \/ Jump(i) \/ Swap(i) \/ Keep(i)
       \/ Store(i) \/ Load(i) \/ LoadImm(i) \/ Helper(i)

(* Registers and memory begin with anything.                               *)
Init == /\ regs \in [Regs -> 0 .. Pow2[DW] - 1]
        /\ mem \in [0 .. Size - 1 -> 0 .. Pow2[B] - 1]

Spec == Init /\ [][Next]_vars
=============================================================================
