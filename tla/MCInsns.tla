-------------------------------- MODULE MCInsns --------------------------------
(* Bytes of one bit, so that registers have 8 bits, the 32-bit operations  *)
(* 4, and immediates are -8 .. 7.  Every instruction runs on registers     *)
(* around the edges of both widths; some run one after another.            *)
EXTENDS Insns

Edges == {OfInt(DW, k) : k \in {0, 1, 2, 7, 8, 15, 16, 127, 128, 240, 255}}

Operands(ops, imms) ==
  [op : ops, wide : BOOLEAN, reg : {TRUE}, dst : {0}, src : Regs, imm : {0}]
  \cup
  [op : ops, wide : BOOLEAN, reg : {FALSE}, dst : {0}, src : {0}, imm : imms]

Memory ==
  [op : {"st", "stx", "ldx"}, size : {1, 2, 4, 8}, dst : {0, 6}, src : {0, 6},
   off : {-1, 0, 1, 2}, imm : {-8, 5}]

Others ==
  [op : {"le"}, dst : {0}, imm : {2, 3, 4, 8}]
  \cup [op : {"be"}, dst : {0}, imm : {H, W, DW}]
  \cup [op : {"lddw"}, dst : {0}, src : {0, 1, 5, 7},
        imm : {-8, -1, 0, 5}, imm2 : {-8, -1, 0, 5}]
  \cup [op : {"call"}]

Single == {<<i>> : i \in Operands(AluOps \cup JccOps, Imm) \cup Memory \cup Others}
Pairs  == {<<i, j>> : i \in Operands({"sub", "lsh", "mov"}, {-1, 5}),
                      j \in Operands({"arsh", "jslt"}, {-8, 3})}
MCPrograms == Single \cup Pairs

(* Registers begin at the edges; memory in two patterns where it is used.  *)
MCInit ==
  /\ prog \in Programs /\ regs \in [Regs -> Edges] /\ taken = FALSE
  /\ mem \in IF Head(prog).op \in {"st", "stx", "ldx"}
               THEN {[a \in 0 .. Size - 1 |-> OfInt(B, a)],
                     [a \in 0 .. Size - 1 |-> OfInt(B, a \div 3)]}
               ELSE {[a \in 0 .. Size - 1 |-> {}]}
MCSpec == MCInit /\ [][Next]_vars
=============================================================================
