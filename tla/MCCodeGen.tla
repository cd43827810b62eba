------------------------------ MODULE MCCodeGen ------------------------------
(* Small programs for CodeGen: every sequence of up to MaxSize             *)
(* instructions over an alphabet that has each kind of instruction, with   *)
(* offsets that stay inside, leave the program or land in an LDDW slot.    *)
EXTENDS CodeGen

CONSTANT MaxSize   \* the longest program

I(op, dst, src, off, imm) ==
  [op |-> op, dst |-> dst, src |-> src, off |-> off, imm |-> imm]

FlowAlphabet ==
  {I("straight", 0, 0, 0, 0), I("exit", 0, 0, 0, 0),
   I("lddw", 0, 0, 0, 0), I("slot", 0, 0, 0, 0),
   I("call", 0, 1, 0, 0), I("call", 0, 1, 0, 1), I("call", 0, 1, 0, -2),
   I("call", 0, 0, 0, 6),
   I("ja", 0, 0, -2, 0), I("ja", 0, 0, 1, 0),
   I("jcond", 0, 0, -3, 0), I("jcond", 0, 0, 1, 0)}

OddAlphabet ==
  {I("straight", 0, 0, 0, 0), I("straight", 11, 0, 0, 0),
   I("bad", 0, 0, 0, 0), I("badjmp", 0, 0, 1, 0), I("exit", 0, 0, 0, 0),
   I("lddw", 0, 2, 0, 0), I("lddw", 0, 7, 0, 0), I("slot", 0, 0, 0, 0),
   I("slot", 1, 0, 0, 0), I("callx", 0, 1, 0, -2), I("callx", 0, 0, 0, 6),
   I("call", 0, 0, 0, 12), I("call", 0, 0, 0, 7), I("call", 0, 1, 0, -2),
   I("ja", 0, 0, 0, 0)}

Over(alphabet, maxSize) == UNION {[1 .. n -> alphabet] : n \in 0 .. maxSize}

FlowPrograms == Over(FlowAlphabet, MaxSize)

(* Programs about as long as the range of pc, with one branch in them: two *)
(* blocks, or three.                                                       *)
LongPrograms ==
  UNION {{[k \in 1 .. n |-> IF k = at THEN insn ELSE I("straight", 0, 0, 0, 0)] :
            at \in {1, 8, n - 1, n},
            insn \in {I("exit", 0, 0, 0, 0), I("ja", 0, 0, 3, 0)}} :
         n \in PcMod - 1 .. PcMod + 1}

MCPrograms ==
  FlowPrograms \cup LongPrograms
    \cup Over(FlowAlphabet \cup OddAlphabet, MaxSize - 1)

(* A program of the kind the run that disagrees with a comment is about.   *)
ExitProgram == {<<I("straight", 0, 0, 0, 0), I("exit", 0, 0, 0, 0)>>}
=============================================================================
