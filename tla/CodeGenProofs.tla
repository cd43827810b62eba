---------------------------- MODULE CodeGenProofs ----------------------------
(***************************************************************************)
(* Proofs about CodeGen, for every set of programs and every width of the  *)
(* counters, and at the end about Machine: a program that has been         *)
(* compiled keeps to its blocks, and a well-formed one runs as the eBPF    *)
(* program, whatever the program and however long it runs.                 *)
(***************************************************************************)
EXTENDS Machine, SequenceTheorems, TLAPS

(* The first n instructions have been seen by split_blocks.                *)
JumpsMarked(n) ==
  \A k \in InstIds : 0 < k /\ k < n /\ is_jmp(k - 1) => k \in marks

(* While marks are made and blocks created, there is an instruction 0, it  *)
(* is marked, and nothing has been emitted.                                *)
SplitInv ==
  /\ phase = "start" => i = 0
  /\ phase \in {"start", "split", "blocks"} => \A b \in Blocks : code[b] = <<>>
  /\ phase \in {"split", "blocks", "emit"} => 0 \in InstIds /\ 0 \in marks
  /\ phase = "split" => JumpsMarked(i)
  /\ phase \in {"blocks", "emit"} => JumpsMarked(Size)

(* Every marked instruction below i has its block, and the two uint16_t    *)
(* loops run within the range of their counter.                            *)
BlocksInv ==
  /\ phase = "blocks" =>
       /\ i < PcMod
       /\ \A k \in InstIds : k < i /\ k \in marks => k \in instBlocks
  /\ phase = "emit" =>
       /\ Size < PcMod
       /\ \A k \in InstIds : k \in marks => k \in instBlocks

(* The blocks from i on are empty; when the current block is closed, the   *)
(* next instruction begins another one.                                    *)
CursorInv ==
  phase = "emit" =>
    /\ \A b \in InstIds : i <= b => code[b] = <<>>
    /\ currBB \in InstIds /\ currBB <= i
    /\ HasTerm(currBB) /\ i < Size => i \in marks

IInv == /\ TypeOK /\ SplitInv /\ BlocksInv /\ CursorInv
        /\ TerminatorLast /\ EveryMarkHasBlock

-----------------------------------------------------------------------------
(* What the uint16_t and unsigned int conversions yield.                   *)
LEMMA ModRange ==
  ASSUME NEW a \in Int, NEW w \in Nat \ {0}
  PROVE  /\ a % w \in Nat /\ a % w < w
         /\ a \in Nat /\ a < w => a % w = a
         /\ w % w = 0
<1>1. a % w \in Nat /\ a % w < w
  OBVIOUS
<1>2. ASSUME a \in Nat, a < w PROVE a % w = a
  BY <1>2
<1>3. w % w = 0
  OBVIOUS
<1> QED BY <1>1, <1>2, <1>3

(* What depends on the program only.                                       *)
LEMMA SameProgram ==
  insns' = insns => Size' = Size /\ InstIds' = InstIds /\ Blocks' = Blocks
BY DEF Size, InstIds, Blocks

(* Before anything happens the invariant holds.                            *)
LEMMA InitInv == Init => IInv
<1> SUFFICES ASSUME Init PROVE IInv
  OBVIOUS
<1> USE DEF Init, Blocks, InstIds, Size
<1>1. insns \in Seq(Insn)
  BY ProgramsAssumption
<1>2. TypeOK
  BY <1>1 DEF TypeOK, Final, Setup, None
<1>3. SplitInv /\ BlocksInv /\ CursorInv
  BY <1>1 DEF SplitInv, BlocksInv, CursorInv
<1>4. TerminatorLast /\ EveryMarkHasBlock
  BY <1>1 DEF TerminatorLast, EveryMarkHasBlock
<1> QED BY <1>2, <1>3, <1>4 DEF IInv

(* Returning an error other than the dead one keeps the invariant.         *)
LEMMA FailInv ==
  ASSUME IInv,
         NEW e \in {"empty", "regs", "opcode", "lddw", "target", "extfunc",
                    "verify"},
         Fail(e)
  PROVE  IInv'
<1> USE DEF Fail, IInv, Blocks, InstIds, Size
<1>1. TypeOK'
  BY DEF TypeOK, Final
<1>2. SplitInv' /\ BlocksInv' /\ CursorInv'
  BY DEF SplitInv, BlocksInv, CursorInv
<1>3. TerminatorLast' /\ EveryMarkHasBlock'
  BY DEF TerminatorLast, EveryMarkHasBlock
<1> QED BY <1>1, <1>2, <1>3

(* So does a step that only ends the process.                              *)
LEMMA HaltInv ==
  ASSUME IInv, phase' \in {"abort", "crashed", "oom"},
         UNCHANGED <<err, insns, i, marks, instBlocks, allBlocks,
                     localFuncRetBlks, retDests, currBB, code>>
  PROVE  IInv'
<1> USE DEF IInv, Blocks, InstIds, Size
<1>1. TypeOK'
  BY DEF TypeOK, Final
<1>2. SplitInv' /\ BlocksInv' /\ CursorInv'
  BY DEF SplitInv, BlocksInv, CursorInv
<1>3. TerminatorLast' /\ EveryMarkHasBlock'
  BY DEF TerminatorLast, EveryMarkHasBlock
<1> QED BY <1>1, <1>2, <1>3

(* Emitting an instruction keeps it: if the block it goes into was closed, *)
(* the instruction is marked and the block is a new one; if it closes its  *)
(* block, the next instruction is marked.                                  *)
LEMMA EmitInv ==
  ASSUME IInv, Emitting, ~NoBlock,
         NEW to \in Seq(Blocks \cup {Exit, Ret}),
         NEW width \in {1, 2},
         i + width <= Size,
         to # <<>> => is_jmp(i) /\ width = 1,
         Emit(to, width)
  PROVE  IInv'
<1> DEFINE E == [pc : InstIds \cup {None}, to : Seq(Blocks \cup {Exit, Ret})]
<1>0. code \in [Blocks -> Seq(E)]
  BY DEF IInv, TypeOK
<1> HIDE DEF E
<1>1. /\ insns \in Seq(Insn) /\ i \in Nat /\ Size \in Nat
      /\ i \in InstIds /\ InstIds \subseteq Blocks
  BY DEF IInv, TypeOK, Emitting, Size, InstIds, Blocks
<1>u. /\ insns' = insns /\ phase' = phase /\ marks' = marks
      /\ instBlocks' = instBlocks /\ err' = err /\ currBB' = Here
      /\ Size' = Size /\ Blocks' = Blocks /\ InstIds' = InstIds
  BY DEF Emit, Size, InstIds, Blocks
<1>2. Here \in InstIds /\ Here <= i
  <2>1. phase = "emit" /\ CursorInv
    BY DEF IInv, Emitting
  <2>2. currBB \in InstIds /\ currBB <= i
    BY <2>1 DEF CursorInv
  <2> QED BY <1>1, <2>2 DEF Here
<1>3. i' = i + width
  <2>1. i + width \in Nat /\ i + width < PcMod
    BY <1>1, WidthAssumption DEF IInv, BlocksInv, Emitting, InstIds
  <2>2. i' = (i + width) % PcMod
    BY DEF Emit
  <2> QED BY <2>1, <2>2, ModRange, WidthAssumption
<1>4. ~HasTerm(Here)
  <2>1. CASE i \in marks
    BY <2>1, <1>1 DEF IInv, CursorInv, Here, Emitting, HasTerm
  <2>2. CASE i \notin marks
    BY <2>2, <1>1 DEF IInv, CursorInv, Here, Emitting, InstIds
  <2> QED BY <2>1, <2>2
<1>5. Entry(i, to) \in E
  BY <1>1 DEF Entry, E
<1>6. /\ code'[Here] = Append(code[Here], Entry(i, to))
      /\ \A b \in Blocks : b # Here => code'[b] = code[b]
      /\ code' \in [Blocks -> Seq(E)]
  BY <1>0, <1>1, <1>2, <1>5 DEF Emit
<1>7. TypeOK'
  <2>1. i' \in Nat /\ currBB' \in Blocks
    BY <1>1, <1>2, <1>3, <1>u
  <2>2. code' \in [Blocks -> Seq(E)]'
    BY <1>6, <1>u DEF E
  <2> QED BY <1>u, <2>1, <2>2 DEF TypeOK, IInv, Emit, E
<1>8. SplitInv' /\ BlocksInv'
  BY <1>1, <1>u
     DEF IInv, SplitInv, BlocksInv, Emitting, JumpsMarked, is_jmp, At
<1>9. CursorInv'
  <2>1. ASSUME NEW b \in InstIds, i' <= b PROVE code'[b] = <<>>
    <3>1. b \in Int /\ b # Here /\ i <= b
      BY <1>1, <1>2, <1>3, <2>1 DEF InstIds
    <3> QED BY <1>1, <1>6, <3>1 DEF IInv, CursorInv, Emitting
  <2>2. currBB' \in InstIds /\ currBB' <= i'
    BY <1>1, <1>2, <1>3, <1>u DEF InstIds
  <2>3. HasTerm(currBB)' => to # <<>>
    <3>1. code[Here] \in Seq(E)
      BY <1>0, <1>1, <1>2
    <3>2. LET s == code'[Here] IN s[Len(s)] = Entry(i, to)
      BY <1>5, <1>6, <3>1
    <3> QED BY <1>u, <3>2 DEF HasTerm, Entry
  <2>4. to # <<>> /\ i' < Size => i' \in marks
    BY <1>1, <1>3 DEF IInv, SplitInv, JumpsMarked, Emitting, InstIds
  <2> QED BY <1>u, <2>1, <2>2, <2>3, <2>4 DEF CursorInv
<1>10. TerminatorLast'
  <2> SUFFICES ASSUME NEW b \in Blocks, NEW k \in 1 .. Len(code'[b]) - 1
               PROVE  code'[b][k].to = <<>>
    BY <1>u DEF TerminatorLast
  <2>0. code[b] \in Seq(E)
    BY <1>0
  <2>1. CASE b # Here
    BY <2>1, <1>6 DEF IInv, TerminatorLast
  <2>2. CASE b = Here
    <3>1. k \in 1 .. Len(code[b]) /\ code'[b][k] = code[b][k]
      <4>1. code'[b] = Append(code[b], Entry(i, to))
        BY <1>6, <2>2
      <4>2. Len(code'[b]) = Len(code[b]) + 1 /\ Len(code[b]) \in Nat
        BY <1>5, <2>0, <4>1
      <4>3. k \in 1 .. Len(code[b])
        BY <4>2
      <4> QED BY <1>5, <2>0, <4>1, <4>3
    <3>2. k < Len(code[b]) => code[b][k].to = <<>>
      BY <2>0, <3>1 DEF IInv, TerminatorLast
    <3>3. k = Len(code[b]) => code[b][k].to = <<>>
      BY <1>4, <2>0, <2>2, <3>1 DEF HasTerm
    <3> QED BY <3>1, <3>2, <3>3
  <2> QED BY <2>1, <2>2
<1>11. EveryMarkHasBlock'
  BY DEF IInv, EveryMarkHasBlock, Emit
<1> QED BY <1>7, <1>8, <1>9, <1>10, <1>11 DEF IInv

(* What each block lookup yields is the id of a block.                     *)
LEMMA EmitStepInv == IInv /\ EmitStep => IInv'
<1> SUFFICES ASSUME IInv, EmitStep PROVE IInv'
  OBVIOUS
<1>1. /\ InstIds \subseteq Blocks /\ instBlocks \subseteq InstIds
      /\ i \in Nat /\ Size \in Nat
  BY DEF IInv, TypeOK, InstIds, Blocks, Size
<1>2. <<>> \in Seq(Blocks \cup {Exit, Ret})
  OBVIOUS
<1>3. \A op : Reaches(op) =>
        Emitting /\ ~NoBlock /\ i + 1 <= Size /\ (op \in JmpOps => is_jmp(i))
  BY <1>1 DEF Reaches, Emitting, is_jmp, Cur
<1>4. CASE EmitStraight
  BY <1>2, <1>3, <1>4, EmitInv DEF EmitStraight
<1>5. CASE EmitLddw
  <2>1. i + 2 <= Size
    BY <1>1, <1>5 DEF EmitLddw, LddwOk, GoodSlot
  <2> QED BY <1>2, <1>3, <1>5, <2>1, EmitInv DEF EmitLddw
<1>6. CASE EmitJa
  <2>1. <<JmpDstBlock>> \in Seq(Blocks \cup {Exit, Ret})
    BY <1>1, <1>6 DEF EmitJa
  <2> QED BY <1>3, <1>6, <2>1, EmitInv DEF EmitJa, JmpOps
<1>7. CASE EmitJcond
  <2>1. <<JmpDstBlock, NextBlock>> \in Seq(Blocks \cup {Exit, Ret})
    BY <1>1, <1>7 DEF EmitJcond
  <2> QED BY <1>3, <1>7, <2>1, EmitInv DEF EmitJcond, JmpOps
<1>8. CASE EmitLocalCall
  <2>1. <<CallDstBlock>> \in Seq(Blocks \cup {Exit, Ret})
    BY <1>1, <1>8 DEF EmitLocalCall
  <2> QED BY <1>3, <1>8, <2>1, EmitInv DEF EmitLocalCall, ReachesCall, JmpOps
<1>9. CASE EmitExtCall
  <2> DEFINE to == IF Cur.imm = 12 THEN <<Exit>> ELSE <<>>
  <2>1. to \in Seq(Blocks \cup {Exit, Ret})
    BY <1>2
  <2> QED BY <1>3, <1>9, <2>1, EmitInv DEF EmitExtCall, ReachesCall, JmpOps
<1>10. CASE EmitExit
  <2>1. <<Exit, Ret>> \in Seq(Blocks \cup {Exit, Ret})
    OBVIOUS
  <2> QED BY <1>3, <1>10, <2>1, EmitInv DEF EmitExit, JmpOps
<1> QED BY <1>4, <1>5, <1>6, <1>7, <1>8, <1>9, <1>10 DEF EmitStep

(* No error is the dead one: during emission every mark has its block.     *)
LEMMA RejectInv == IInv /\ Reject => IInv'
<1> SUFFICES ASSUME IInv, Reject PROVE IInv'
  OBVIOUS
<1>1. Emitting => ~NoBlock
  BY DEF IInv, TypeOK, BlocksInv, Emitting, NoBlock, InstIds, Size
<1>2. CASE RejectPrecheck
  BY <1>1, <1>2, FailInv DEF RejectPrecheck
<1> QED
  BY <1>2, FailInv
     DEF Reject, RejectEmpty, RejectOpcode, RejectLddw, RejectJa, RejectJcond,
         RejectLocalCall, RejectExtCall, RejectModule

(* The block loop: a block is created for each marked instruction.         *)
LEMMA CreateInv == IInv /\ Create => IInv'
<1> SUFFICES ASSUME IInv, Create PROVE IInv'
  OBVIOUS
<1> USE DEF Blocks, InstIds, Size
<1>1. CASE BlockIter
  <2> USE <1>1 DEF BlockIter
  <2>1. i \in InstIds /\ i' \in Nat /\ i' < PcMod /\ (i' = i + 1 \/ i' = 0)
    <3>1. i \in Nat /\ i + 1 \in Nat /\ i < PcMod /\ i \in InstIds
      BY DEF IInv, TypeOK, BlocksInv
    <3>2. CASE i + 1 < PcMod
      <4> DEFINE a == i + 1
      <4>1. a \in Int /\ a \in Nat /\ a < PcMod
        BY <3>1, <3>2
      <4> HIDE DEF a
      <4>2. a % PcMod = a
        BY <4>1, ModRange, WidthAssumption
      <4> QED BY <3>1, <3>2, <4>2 DEF a
    <3>3. CASE i + 1 = PcMod
      <4>1. PcMod % PcMod = 0
        BY ModRange, WidthAssumption
      <4> QED BY <3>1, <3>3, <4>1, WidthAssumption
    <3> QED BY <3>1, <3>2, <3>3, WidthAssumption
  <2>2. TypeOK'
    <3>1. \/ /\ i \in marks
             /\ instBlocks' = instBlocks \cup {i}
             /\ allBlocks' = Append(allBlocks, i)
             /\ localFuncRetBlks' =
                  localFuncRetBlks \cup {n \in {i} : ReturnSite(n)}
          \/ UNCHANGED <<instBlocks, allBlocks, localFuncRetBlks>>
      OBVIOUS
    <3>2. /\ instBlocks' \subseteq InstIds
          /\ localFuncRetBlks' \subseteq instBlocks'
          /\ instBlocks \subseteq instBlocks'
          /\ localFuncRetBlks \subseteq localFuncRetBlks'
      BY <2>1, <3>1 DEF IInv, TypeOK
    <3>3. allBlocks' \in Seq(Blocks)
      <4>1. allBlocks \in Seq(Blocks) /\ i \in Blocks
        BY <2>1 DEF IInv, TypeOK
      <4>2. allBlocks' = Append(allBlocks, i) \/ allBlocks' = allBlocks
        BY <3>1
      <4> HIDE <1>1
      <4> HIDE DEF Blocks, InstIds, Size, BlockIter
      <4> QED BY <4>1, <4>2
    <3> QED BY <2>1, <3>2, <3>3 DEF IInv, TypeOK, Final
  <2>3. SplitInv' /\ CursorInv' /\ TerminatorLast' /\ EveryMarkHasBlock'
    BY DEF IInv, SplitInv, CursorInv, TerminatorLast, EveryMarkHasBlock,
           JumpsMarked, is_jmp, At
  <2>4. BlocksInv'
    BY <2>1 DEF IInv, BlocksInv
  <2> QED BY <2>2, <2>3, <2>4 DEF IInv
<1>2. CASE OutOfMemory
  BY <1>2, HaltInv DEF OutOfMemory
<1>3. CASE BlocksDone
  <2> USE <1>3 DEF BlocksDone
  <2>1. i \in Nat /\ Size \in Nat /\ 0 \in InstIds /\ 0 \in marks
    BY DEF IInv, TypeOK, SplitInv
  <2>2. TypeOK'
    BY <2>1 DEF IInv, TypeOK, Final
  <2>3. SplitInv' /\ TerminatorLast' /\ EveryMarkHasBlock'
    BY DEF IInv, SplitInv, TerminatorLast, EveryMarkHasBlock,
           JumpsMarked, is_jmp, At
  <2>4. BlocksInv'
    BY <2>1, WidthAssumption DEF IInv, BlocksInv
  <2>5. CursorInv'
    BY <2>1 DEF IInv, SplitInv, CursorInv, HasTerm
  <2> QED BY <2>2, <2>3, <2>4, <2>5 DEF IInv
<1> QED BY <1>1, <1>2, <1>3 DEF Create

(* split_blocks: after an iteration, one more jump has its marks.          *)
LEMMA SplitStepInv == IInv /\ Split => IInv'
<1> SUFFICES ASSUME IInv, Split PROVE IInv'
  OBVIOUS
<1>0. insns' = insns /\ Size' = Size /\ InstIds' = InstIds /\ Blocks' = Blocks
  BY SameProgram DEF Split, StartSplit, SplitIter, SplitCrash, SplitDone
<1>1. CASE StartSplit
  <2> USE <1>1 DEF StartSplit
  <2>1. 0 \in InstIds /\ i \in Nat
    BY DEF IInv, TypeOK, InstIds, Size
  <2>2. TypeOK'
    <3>1. /\ phase' \in {"start", "split", "blocks", "emit", "br"}
          /\ marks' \subseteq Nat
      OBVIOUS
    <3>2. /\ UNCHANGED <<err, insns, i, instBlocks, allBlocks,
                         localFuncRetBlks, retDests, currBB, code>>
          /\ InstIds' = InstIds /\ Blocks' = Blocks
      BY <1>0
    <3> HIDE <1>1 DEF StartSplit
    <3> QED BY <3>1, <3>2 DEF IInv, TypeOK
  <2>3. BlocksInv' /\ CursorInv' /\ TerminatorLast' /\ EveryMarkHasBlock'
    BY <1>0 DEF IInv, BlocksInv, CursorInv, TerminatorLast, EveryMarkHasBlock
  <2>4. SplitInv'
    BY <1>0, <2>1 DEF IInv, SplitInv, JumpsMarked, InstIds
  <2> QED BY <2>2, <2>3, <2>4 DEF IInv
<1>2. CASE SplitIter
  <2> USE <1>2 DEF SplitIter
  <2>1. i \in Nat /\ i \in InstIds
    BY DEF IInv, TypeOK, InstIds, Size
  <2>2. JumpMark \in Nat
    <3>1. Cur \in Insn
      BY <2>1 DEF IInv, TypeOK, Cur, At, InstIds, Size
    <3>2. i + Cur.off + 1 \in Int
      BY <2>1, <3>1 DEF Insn
    <3> QED BY <3>2, ModRange, WidthAssumption DEF JumpMark
  <2>3. NewMarks \subseteq Nat /\ (0 < i /\ is_jmp(i - 1) => i \in NewMarks)
    BY <2>1, <2>2 DEF NewMarks
  <2>4. TypeOK'
    <3>1. marks' \subseteq Nat /\ i' \in Nat
      BY <2>1, <2>3 DEF IInv, TypeOK
    <3>2. /\ UNCHANGED <<phase, err, insns, instBlocks, allBlocks,
                         localFuncRetBlks, retDests, currBB, code>>
          /\ InstIds' = InstIds /\ Blocks' = Blocks
      BY <1>0
    <3> HIDE <1>2 DEF SplitIter
    <3> QED BY <3>1, <3>2 DEF IInv, TypeOK
  <2>5. JumpsMarked(i)'
    <3> SUFFICES ASSUME NEW k \in InstIds, 0 < k, k < i + 1, is_jmp(k - 1)
                 PROVE  k \in marks'
      BY <1>0 DEF JumpsMarked, is_jmp, At
    <3>0. k \in Int
      BY DEF InstIds
    <3>1. CASE k = i
      BY <2>3, <3>1
    <3>2. CASE k < i
      BY <3>2 DEF IInv, SplitInv, JumpsMarked
    <3> QED BY <2>1, <3>0, <3>1, <3>2
  <2>6. SplitInv'
    BY <1>0, <2>5 DEF IInv, SplitInv
  <2>7. BlocksInv' /\ CursorInv' /\ TerminatorLast' /\ EveryMarkHasBlock'
    BY <1>0 DEF IInv, BlocksInv, CursorInv, TerminatorLast, EveryMarkHasBlock
  <2> QED BY <2>4, <2>6, <2>7 DEF IInv
<1>3. CASE SplitCrash
  BY <1>3, HaltInv DEF SplitCrash
<1>4. CASE SplitDone
  <2> USE <1>4 DEF SplitDone
  <2>1. i \in Nat /\ Size \in Nat
    BY DEF IInv, TypeOK, Size
  <2>2. TypeOK'
    <3>1. allBlocks' \in Seq(Blocks)
      BY DEF Blocks
    <3> QED BY <1>0, <2>1, <3>1 DEF IInv, TypeOK
  <2>3. SplitInv'
    BY <1>0, <2>1 DEF IInv, SplitInv, JumpsMarked, is_jmp, At, InstIds
  <2>4. BlocksInv' /\ CursorInv' /\ TerminatorLast' /\ EveryMarkHasBlock'
    BY <1>0, <2>1, WidthAssumption
       DEF IInv, BlocksInv, CursorInv, TerminatorLast, EveryMarkHasBlock,
           InstIds
  <2> QED BY <2>2, <2>3, <2>4 DEF IInv
<1> QED BY <1>1, <1>2, <1>3, <1>4 DEF Split

(* After emission only open blocks are extended, by a branch.              *)
LEMMA FinishInv == IInv /\ Finish => IInv'
<1> SUFFICES ASSUME IInv, Finish PROVE IInv'
  OBVIOUS
<1>1. CASE EmitDone
  <2> USE <1>1 DEF EmitDone, Blocks, InstIds, Size
  <2>1. TypeOK'
    BY DEF IInv, TypeOK, Final
  <2>2. SplitInv' /\ BlocksInv' /\ CursorInv' /\ TerminatorLast'
        /\ EveryMarkHasBlock'
    BY DEF IInv, SplitInv, BlocksInv, CursorInv, TerminatorLast,
           EveryMarkHasBlock
  <2> QED BY <2>1, <2>2 DEF IInv
<1>2. CASE FallThrough
  <2> DEFINE E == [pc : InstIds \cup {None}, to : Seq(Blocks \cup {Exit, Ret})]
  <2> DEFINE b == allBlocks[i + 1]
  <2> DEFINE e == Entry(None, <<allBlocks[i + 2]>>)
  <2>1. /\ allBlocks \in Seq(Blocks) /\ i \in Nat /\ i + 2 <= Len(allBlocks)
        /\ code \in [Blocks -> Seq(E)]
    <3>1. allBlocks \in Seq(Blocks) /\ i \in Nat /\ code \in [Blocks -> Seq(E)]
      BY DEF IInv, TypeOK
    <3>2. Len(allBlocks) \in Nat /\ i < Len(allBlocks) - 1
      BY <1>2, <3>1 DEF FallThrough
    <3>3. i + 2 <= Len(allBlocks)
      BY <3>1, <3>2
    <3> HIDE DEF E
    <3> QED BY <3>1, <3>3
  <2>2. b \in Blocks /\ allBlocks[i + 2] \in Blocks
    BY <2>1
  <2>3. e \in E
    BY <2>2 DEF Entry
  <2>4. /\ UNCHANGED <<phase, err, insns, marks, instBlocks, allBlocks,
                       localFuncRetBlks, retDests, currBB>>
        /\ Blocks' = Blocks /\ InstIds' = InstIds
        /\ i' \in Nat
    BY <1>2, <2>1 DEF FallThrough, Blocks, InstIds, Size
  <2>5. \/ code' = code
        \/ ~HasTerm(b) /\ code' = [code EXCEPT ![b] = Append(@, e)]
    BY <1>2 DEF FallThrough
  <2> HIDE DEF E, b, e
  <2>6. code' \in [Blocks -> Seq(E)]
    <3>1. code[b] \in Seq(E) /\ Append(code[b], e) \in Seq(E)
      BY <2>1, <2>2, <2>3
    <3> QED BY <2>1, <2>2, <2>5, <3>1
  <2>7. TypeOK'
    <3>1. code' \in [Blocks -> Seq(E)]'
      BY <2>4, <2>6 DEF E
    <3> QED BY <2>4, <3>1 DEF IInv, TypeOK, E
  <2>8. SplitInv' /\ BlocksInv' /\ CursorInv' /\ EveryMarkHasBlock'
    BY <1>2, <2>4 DEF IInv, SplitInv, BlocksInv, CursorInv,
                      EveryMarkHasBlock, FallThrough
  <2>9. TerminatorLast'
    <3>1. CASE code' = code
      BY <2>4, <3>1 DEF IInv, TerminatorLast
    <3>2. CASE ~HasTerm(b) /\ code' = [code EXCEPT ![b] = Append(@, e)]
      <4> SUFFICES ASSUME NEW c \in Blocks, NEW k \in 1 .. Len(code'[c]) - 1
                   PROVE  code'[c][k].to = <<>>
        BY <2>4 DEF TerminatorLast
      <4>1. CASE c # b
        BY <2>1, <3>2, <4>1 DEF IInv, TerminatorLast
      <4>2. CASE c = b
        <5>1. code[b] \in Seq(E) /\ code'[b] = Append(code[b], e)
          BY <2>1, <2>2, <3>2
        <5>2. k \in 1 .. Len(code[b]) /\ code'[b][k] = code[b][k]
          BY <2>3, <4>2, <5>1
        <5>3. k < Len(code[b]) => code[b][k].to = <<>>
          <6>1. TerminatorLast /\ Len(code[b]) \in Nat
            BY <5>1 DEF IInv
          <6>2. k < Len(code[b]) => k \in 1 .. Len(code[b]) - 1
            BY <5>2, <6>1
          <6> QED BY <2>2, <6>1, <6>2 DEF TerminatorLast
        <5>4. k = Len(code[b]) => code[b][k].to = <<>>
          BY <3>2, <5>1, <5>2 DEF HasTerm
        <5> QED BY <4>2, <5>1, <5>2, <5>3, <5>4
      <4> QED BY <4>1, <4>2
    <3> QED BY <2>5, <3>1, <3>2
  <2> QED BY <2>7, <2>8, <2>9 DEF IInv
<1>3. CASE Verify
  <2> USE <1>3 DEF Verify, Blocks, InstIds, Size
  <2>1. TypeOK'
    BY DEF IInv, TypeOK, Final
  <2>2. SplitInv' /\ BlocksInv' /\ CursorInv' /\ TerminatorLast'
        /\ EveryMarkHasBlock'
    BY DEF IInv, SplitInv, BlocksInv, CursorInv, TerminatorLast,
           EveryMarkHasBlock
  <2> QED BY <2>1, <2>2 DEF IInv
<1> QED BY <1>1, <1>2, <1>3 DEF Finish

(* The invariant is inductive.                                             *)
LEMMA StepInv == IInv /\ [Next]_vars => IInv'
<1>1. IInv /\ AssertReturnSite => IInv'
  BY HaltInv DEF AssertReturnSite
<1>2. IInv /\ UNCHANGED vars => IInv'
  <2> SUFFICES ASSUME IInv, UNCHANGED vars PROVE IInv'
    OBVIOUS
  <2>1. TypeOK'
    BY DEF vars, IInv, TypeOK, Blocks, InstIds, Size
  <2>2. SplitInv'
    BY DEF vars, IInv, SplitInv, JumpsMarked, is_jmp, At, Blocks, InstIds, Size
  <2>3. BlocksInv' /\ EveryMarkHasBlock'
    BY DEF vars, IInv, BlocksInv, EveryMarkHasBlock, InstIds, Size
  <2>4. CursorInv'
    BY DEF vars, IInv, CursorInv, HasTerm, InstIds, Size
  <2>5. TerminatorLast'
    BY DEF vars, IInv, TerminatorLast, Blocks, InstIds, Size
  <2> QED
    BY <2>1, <2>2, <2>3, <2>4, <2>5 DEF IInv
<1> QED
  BY <1>1, <1>2, SplitStepInv, CreateInv, EmitStepInv, RejectInv, FinishInv
     DEF Next, Stopped

LEMMA Invariance == Spec => []IInv
<1>1. Init => IInv
  BY InitInv
<1>2. IInv /\ [Next]_vars => IInv'
  BY StepInv
<1> QED BY <1>1, <1>2, PTL DEF Spec

(* Type correctness: what generateModule builds names only instructions    *)
(* and blocks of the program, whatever the program and the widths.         *)
THEOREM Typing == Spec => []TypeOK
<1>1. IInv => TypeOK
  BY DEF IInv
<1> QED BY <1>1, Invariance, PTL

(* No instruction is emitted behind a terminator, for any program.         *)
THEOREM NothingBehindTerminator == Spec => []TerminatorLast
<1>1. IInv => TerminatorLast
  BY DEF IInv
<1> QED BY <1>1, Invariance, PTL

(* The error "marked block begin, but no BasicBlock* found" is dead code.  *)
THEOREM MarkedBlocksExist == Spec => []EveryMarkHasBlock
<1>1. IInv => EveryMarkHasBlock
  BY DEF IInv
<1> QED BY <1>1, Invariance, PTL

-----------------------------------------------------------------------------
(* The return sites found so far are those before i; once they are all     *)
(* found they stay, and each local call emitted has one.                   *)
ReturnInv ==
  /\ \A k \in localFuncRetBlks : ReturnSite(k)
  /\ phase \in {"start", "split"} => localFuncRetBlks = {}
  /\ phase = "blocks" =>
       \A k \in InstIds :
         k < i /\ k \in marks /\ ReturnSite(k) => k \in localFuncRetBlks
  /\ phase = "emit" =>
       /\ \A k \in InstIds :
            k \in marks /\ ReturnSite(k) => k \in localFuncRetBlks
       /\ \A k \in InstIds :
            k < i /\ IsLocalCall(k) => k + 1 \in localFuncRetBlks
  /\ phase \in {"br", "done"} =>
       \A k \in InstIds : IsLocalCall(k) => k + 1 \in localFuncRetBlks
  /\ phase \in {"emit", "br", "done"} => retDests = localFuncRetBlks

(* allBlocks grows by at most one block for each instruction, so that the  *)
(* memory is used up only by a loop that does not end.                     *)
LengthInv ==
  /\ phase = "blocks" /\ Size < PcMod => Len(allBlocks) <= i + 1
  /\ phase = "oom" => Size >= PcMod
  /\ phase \in {"br", "done", "error", "abort"} => Size < PcMod

RInv == ReturnInv /\ AssertOnly /\ LengthInv

LEMMA ReturnSiteCall ==
  ASSUME TypeOK, NEW k \in InstIds, ReturnSite(k)
  PROVE  k - 1 \in InstIds /\ IsLocalCall(k - 1)
BY DEF ReturnSite, IsLocalCall, InstIds, Size, TypeOK

LEMMA RInit == Init => RInv
BY DEF Init, RInv, ReturnInv, AssertOnly, LengthInv

LEMMA RSplit == IInv /\ RInv /\ Split => RInv'
<1> SUFFICES ASSUME IInv, RInv, Split PROVE RInv'
  OBVIOUS
<1>1. insns' = insns /\ Size' = Size /\ InstIds' = InstIds
  BY SameProgram DEF Split, StartSplit, SplitIter, SplitCrash, SplitDone
<1>2. /\ UNCHANGED <<localFuncRetBlks, retDests>>
      /\ \/ phase = "start" /\ phase' = "split"
         \/ phase = "split" /\ phase' \in {"split", "crashed"}
         \/ /\ phase = "split" /\ phase' = "blocks"
            /\ i' = 0 /\ allBlocks' = <<Setup>>
  BY DEF Split, StartSplit, SplitIter, SplitCrash, SplitDone
<1>3. ReturnInv'
  BY <1>1, <1>2 DEF RInv, ReturnInv, ReturnSite, At, InstIds
<1>4. AssertOnly' /\ LengthInv'
  BY <1>1, <1>2 DEF RInv, AssertOnly, LengthInv
<1> QED BY <1>3, <1>4 DEF RInv

LEMMA RCreate == IInv /\ RInv /\ Create => RInv'
<1> SUFFICES ASSUME IInv, RInv, Create PROVE RInv'
  OBVIOUS
<1>1. insns' = insns /\ Size' = Size /\ InstIds' = InstIds
  BY SameProgram DEF Create, BlockIter, OutOfMemory, BlocksDone
<1>2. i \in Nat /\ Size \in Nat /\ allBlocks \in Seq(Blocks) /\ PcMod \in Nat
  BY WidthAssumption DEF IInv, TypeOK, Size
<1>3. CASE BlockIter
  <2>1. i \in InstIds /\ (i' = i + 1 \/ i' = 0) /\ (Size < PcMod => i' = i + 1)
    <3>1. i + 1 \in Nat /\ i < PcMod /\ i < Size
      BY <1>2, <1>3 DEF IInv, BlocksInv, BlockIter
    <3> DEFINE a == i + 1
    <3>2. i' = a % PcMod /\ a \in Int /\ a \in Nat
      BY <1>3, <3>1 DEF BlockIter
    <3>3. a < PcMod \/ (a = PcMod /\ ~(Size < PcMod))
      BY <1>2, <3>1
    <3> HIDE DEF a
    <3>4. i' = a \/ (i' = 0 /\ ~(Size < PcMod))
      BY <3>2, <3>3, ModRange, WidthAssumption
    <3> QED BY <1>2, <3>1, <3>4 DEF a, InstIds
  <2>2. /\ phase = "blocks" /\ phase' = "blocks" /\ marks' = marks
        /\ \/ /\ i \in marks /\ Len(allBlocks') = Len(allBlocks) + 1
              /\ localFuncRetBlks' =
                   localFuncRetBlks \cup {n \in {i} : ReturnSite(n)}
           \/ /\ i \notin marks /\ allBlocks' = allBlocks
              /\ localFuncRetBlks' = localFuncRetBlks
    BY <1>2, <1>3 DEF BlockIter
  <2>3. ReturnInv'
    BY <1>1, <2>1, <2>2 DEF RInv, ReturnInv, ReturnSite, At, InstIds
  <2>4. AssertOnly' /\ LengthInv'
    BY <1>1, <1>2, <2>1, <2>2 DEF RInv, AssertOnly, LengthInv
  <2> QED BY <2>3, <2>4 DEF RInv
<1>4. CASE OutOfMemory
  <2>1. /\ phase = "blocks" /\ phase' = "oom" /\ i < Size
        /\ Len(allBlocks) >= MaxBlocks /\ Len(allBlocks) \in Nat
        /\ localFuncRetBlks' = localFuncRetBlks
    BY <1>2, <1>4 DEF OutOfMemory
  <2>2. ReturnInv'
    BY <1>1, <2>1 DEF RInv, ReturnInv, ReturnSite, At
  <2>3. ~(Size < PcMod)
    BY <1>2, <2>1, BoundAssumption DEF RInv, LengthInv
  <2>4. AssertOnly' /\ LengthInv'
    BY <1>1, <1>2, <2>1, <2>3 DEF AssertOnly, LengthInv
  <2> QED BY <2>2, <2>4 DEF RInv
<1>5. CASE BlocksDone
  <2>1. /\ phase = "blocks" /\ phase' = "emit" /\ i' = 0 /\ i >= Size
        /\ UNCHANGED <<marks, localFuncRetBlks>>
        /\ retDests' = localFuncRetBlks
    BY <1>5 DEF BlocksDone
  <2>2. ReturnInv'
    BY <1>1, <1>2, <2>1
       DEF RInv, ReturnInv, ReturnSite, IsLocalCall, At, InstIds
  <2>3. AssertOnly' /\ LengthInv'
    BY <1>1, <2>1 DEF AssertOnly, LengthInv
  <2> QED BY <2>2, <2>3 DEF RInv
<1> QED BY <1>3, <1>4, <1>5 DEF Create

(* During emission the uint16_t arithmetic on pc does not wrap.            *)
LEMMA NoWrap ==
  ASSUME IInv, Emitting, NEW width \in {1, 2}, i + width <= Size
  PROVE  (i + width) % PcMod = i + width /\ NextBlock = i + 1
<1> DEFINE a == i + width
<1> DEFINE c == i + 1
<1>1. /\ a \in Int /\ a \in Nat /\ a < PcMod
      /\ c \in Int /\ c \in Nat /\ c < PcMod
  BY WidthAssumption DEF IInv, TypeOK, BlocksInv, Emitting, Size
<1>2. NextBlock = c % PcMod
  BY DEF NextBlock
<1> HIDE DEF a, c
<1>3. a % PcMod = a /\ c % PcMod = c
  BY <1>1, ModRange, WidthAssumption
<1> QED BY <1>2, <1>3 DEF a, c

LEMMA REmit ==
  ASSUME IInv, RInv, Emitting,
         NEW to, NEW width \in {1, 2}, i + width <= Size,
         IsLocalCall(i) => NextBlock \in localFuncRetBlks,
         width = 2 => ~IsLocalCall(i + 1),
         Emit(to, width)
  PROVE  RInv'
<1>1. /\ phase = "emit" /\ i \in Nat /\ Size \in Nat
      /\ i' = i + width /\ NextBlock = i + 1
  <2>1. (i + width) % PcMod = i + width /\ NextBlock = i + 1
    BY NoWrap
  <2>2. i' = (i + width) % PcMod
    BY DEF Emit
  <2> QED BY <2>1, <2>2 DEF IInv, TypeOK, Emitting, Size
<1>2. /\ UNCHANGED <<phase, insns, marks, localFuncRetBlks, retDests>>
      /\ Size' = Size /\ InstIds' = InstIds
  BY SameProgram DEF Emit
<1>3. ASSUME NEW k \in InstIds, k < i', IsLocalCall(k)
      PROVE  k + 1 \in localFuncRetBlks
  <2>1. k \in Int /\ (k < i \/ k = i \/ (width = 2 /\ k = i + 1))
    BY <1>1, <1>3 DEF InstIds
  <2>2. CASE k < i
    BY <1>1, <1>3, <2>2 DEF RInv, ReturnInv
  <2> QED BY <1>1, <1>3, <2>1, <2>2
<1>4. ReturnInv'
  BY <1>1, <1>2, <1>3 DEF RInv, ReturnInv, ReturnSite, IsLocalCall, At
<1>5. AssertOnly' /\ LengthInv'
  BY <1>1, <1>2 DEF AssertOnly, LengthInv
<1> QED BY <1>4, <1>5 DEF RInv

LEMMA REmitStep == IInv /\ RInv /\ EmitStep => RInv'
<1> SUFFICES ASSUME IInv, RInv, EmitStep PROVE RInv'
  OBVIOUS
<1>1. i \in Nat /\ Size \in Nat
  BY DEF IInv, TypeOK, Size
<1>2. \A op : Reaches(op) => Emitting /\ i + 1 <= Size /\ Cur.op = op
  BY <1>1 DEF Reaches, Emitting
<1>3. Cur.op \notin {"call", "callx"} \/ Cur.src # 1 => ~IsLocalCall(i)
  BY DEF IsLocalCall, Cur
<1>4. CASE EmitStraight
  BY <1>2, <1>3, <1>4, REmit DEF EmitStraight
<1>5. CASE EmitLddw
  <2>1. i + 2 <= Size /\ ~IsLocalCall(i + 1)
    BY <1>1, <1>5 DEF EmitLddw, LddwOk, GoodSlot, IsLocalCall
  <2> QED BY <1>2, <1>3, <1>5, <2>1, REmit DEF EmitLddw
<1>6. CASE EmitJa
  BY <1>2, <1>3, <1>6, REmit DEF EmitJa
<1>7. CASE EmitJcond
  BY <1>2, <1>3, <1>7, REmit DEF EmitJcond
<1>8. CASE EmitLocalCall
  BY <1>2, <1>8, REmit DEF EmitLocalCall, ReachesCall
<1>9. CASE EmitExtCall
  BY <1>2, <1>3, <1>9, REmit DEF EmitExtCall, ReachesCall
<1>10. CASE EmitExit
  BY <1>2, <1>3, <1>10, REmit DEF EmitExit
<1> QED BY <1>4, <1>5, <1>6, <1>7, <1>8, <1>9, <1>10 DEF EmitStep

LEMMA RReject == IInv /\ RInv /\ Reject => RInv'
<1> SUFFICES ASSUME IInv, RInv, Reject PROVE RInv'
  OBVIOUS
<1>1. \E e : Fail(e)
  BY DEF Reject, RejectEmpty, RejectPrecheck, RejectOpcode, RejectLddw,
         RejectJa, RejectJcond, RejectLocalCall, RejectExtCall, RejectModule
<1>2. \/ phase = "start" /\ insns = <<>>
      \/ phase = "emit"
      \/ phase = "br"
  BY DEF Reject, RejectEmpty, RejectPrecheck, RejectOpcode, RejectLddw,
         RejectJa, RejectJcond, RejectLocalCall, RejectExtCall, RejectModule,
         ReachesCall, Reaches, Emitting
<1>3. Size < PcMod
  <2>1. CASE insns = <<>>
    BY <2>1, WidthAssumption DEF Size
  <2> QED BY <1>2, <2>1 DEF IInv, BlocksInv, RInv, LengthInv
<1>4. phase' = "error" /\ UNCHANGED <<insns, localFuncRetBlks>>
      /\ Size' = Size
  BY <1>1, SameProgram DEF Fail
<1>5. ReturnInv'
  BY <1>4 DEF RInv, ReturnInv, ReturnSite, At
<1>6. AssertOnly' /\ LengthInv'
  BY <1>3, <1>4 DEF AssertOnly, LengthInv
<1> QED BY <1>5, <1>6 DEF RInv

(* The assertion fails only where no return site was entered, although the *)
(* instruction after a call is always marked.                              *)
LEMMA RAssert == IInv /\ RInv /\ AssertReturnSite => RInv'
<1> SUFFICES ASSUME IInv, RInv, AssertReturnSite PROVE RInv'
  OBVIOUS
<1>1. /\ phase = "emit" /\ phase' = "abort" /\ Emitting
      /\ UNCHANGED <<insns, i, localFuncRetBlks>> /\ Size' = Size
      /\ Cur.op \in {"call", "callx"} /\ Cur.src = 1
      /\ NextBlock \notin localFuncRetBlks
  BY SameProgram DEF AssertReturnSite, ReachesCall, Reaches, Emitting
<1>2. i \in Nat /\ Size \in Nat /\ i < Size /\ Size < PcMod
  BY <1>1 DEF IInv, TypeOK, BlocksInv, Emitting, Size
<1>3. NextBlock = i + 1
  BY <1>1, <1>2, NoWrap
<1>4. ASSUME i # 0, i + 1 # Size, Cur.op # "callx" PROVE FALSE
  <2>1. i + 1 \in InstIds /\ is_jmp(i) /\ ReturnSite(i + 1)
    BY <1>1, <1>2, <1>4 DEF InstIds, is_jmp, JmpOps, ReturnSite, Cur
  <2>2. i + 1 \in marks
    <3>1. JumpsMarked(Size) /\ 0 < i + 1 /\ i + 1 < Size /\ (i + 1) - 1 = i
      BY <1>1, <1>2, <1>4 DEF IInv, SplitInv
    <3> QED BY <2>1, <3>1 DEF JumpsMarked
  <2> QED BY <1>1, <1>3, <2>1, <2>2 DEF RInv, ReturnInv
<1>5. AssertOnly'
  BY <1>1, <1>4 DEF AssertOnly, IsLocalCall, Cur, At
<1>6. ReturnInv' /\ LengthInv'
  BY <1>1, <1>2 DEF RInv, ReturnInv, ReturnSite, At, LengthInv
<1> QED BY <1>5, <1>6 DEF RInv

LEMMA RFinish == IInv /\ RInv /\ Finish => RInv'
<1> SUFFICES ASSUME IInv, RInv, Finish PROVE RInv'
  OBVIOUS
<1>1. /\ UNCHANGED <<insns, localFuncRetBlks, retDests>>
      /\ Size' = Size /\ InstIds' = InstIds
      /\ \/ phase = "emit" /\ phase' = "br" /\ i >= Size
         \/ phase = "br" /\ phase' \in {"br", "done"}
  BY SameProgram DEF Finish, EmitDone, FallThrough, Verify
<1>2. ReturnInv'
  BY <1>1 DEF RInv, ReturnInv, ReturnSite, IsLocalCall, At, IInv, TypeOK,
              InstIds, Size
<1>3. AssertOnly' /\ LengthInv'
  BY <1>1 DEF AssertOnly, RInv, LengthInv, IInv, BlocksInv
<1> QED BY <1>2, <1>3 DEF RInv

LEMMA RStep == IInv /\ RInv /\ [Next]_vars => RInv'
<1>1. IInv /\ RInv /\ UNCHANGED vars => RInv'
  BY DEF vars, RInv, ReturnInv, AssertOnly, LengthInv, ReturnSite,
         IsLocalCall, At, Cur, InstIds, Size
<1> QED
  BY <1>1, RSplit, RCreate, REmitStep, RReject, RAssert, RFinish
     DEF Next, Stopped

LEMMA RInvariance == Spec => []RInv
<1>1. Init => RInv
  BY RInit
<1>2. IInv /\ RInv /\ [Next]_vars => RInv'
  BY RStep
<1> QED BY <1>1, <1>2, Invariance, PTL DEF Spec

(* A returned module can return to the instruction after each local call   *)
(* and nowhere else, for every program.                                    *)
THEOREM ReturnSitesExact == Spec => []ReturnsExact
<1>1. IInv /\ RInv => ReturnsExact
  <2> SUFFICES ASSUME IInv, RInv, phase = "done" PROVE
        retDests = {n + 1 : n \in {m \in InstIds : IsLocalCall(m)}}
    BY DEF ReturnsExact
  <2>1. ASSUME NEW k \in retDests
        PROVE  k \in {n + 1 : n \in {m \in InstIds : IsLocalCall(m)}}
    <3>1. k \in InstIds /\ ReturnSite(k) /\ k \in Int
      BY DEF IInv, TypeOK, RInv, ReturnInv, InstIds
    <3>2. k - 1 \in InstIds /\ IsLocalCall(k - 1) /\ k = (k - 1) + 1
      BY <3>1, ReturnSiteCall DEF IInv
    <3> QED BY <3>2
  <2>2. ASSUME NEW n \in InstIds, IsLocalCall(n) PROVE n + 1 \in retDests
    BY <2>2 DEF RInv, ReturnInv
  <2> QED BY <2>1, <2>2
<1> QED BY <1>1, Invariance, RInvariance, PTL

(* The assertion on the return site fails only at a local call that is the *)
(* first or the last instruction or has the 0x8 bit.                       *)
THEOREM AssertionHolds == Spec => []AssertOnly
<1>1. RInv => AssertOnly
  BY DEF RInv
<1> QED BY <1>1, RInvariance, PTL

(* The loops over the instructions end for programs of fewer than 65536    *)
(* instructions, and no longer program gets past the first of them.        *)
THEOREM SizeLimited == Spec => []SizeLimit
<1>1. IInv /\ RInv => SizeLimit
  BY WidthAssumption
     DEF IInv, TypeOK, BlocksInv, RInv, LengthInv, SizeLimit, Final, Size
<1> QED BY <1>1, Invariance, RInvariance, PTL

-----------------------------------------------------------------------------
(* The control flow of a returned module (CodeGen!FlowPreserved).         *)

(* Where control goes after an instruction that does not transfer it.      *)
Step(n) == IF At(n).op = "lddw" THEN n + 2 ELSE n + 1

(* An instruction was emitted as what the program does there: it goes on   *)
(* behind itself, or ends its block with the successors it should have,    *)
(* which are blocks.                                                       *)
GoodTo(n, to) ==
  \/ /\ to = <<>> /\ IsaNext(n) = <<Step(n)>>
     /\ At(n).op \in {"straight", "lddw", "call", "callx"} /\ ~IsLocalCall(n)
  \/ /\ to # <<>> /\ to = IsaNext(n)
     /\ \A j \in DOMAIN to : to[j] \in instBlocks \cup {Exit, Ret}

LastPc(b) == code[b][Len(code[b])].pc

-----------------------------------------------------------------------------
(* No slot of an LDDW begins a block, and every block begins at a mark.    *)
MarksInv == (Plain => marks \cap Slots = {}) /\ instBlocks \subseteq marks

(* allBlocks is setupBlock and then all blocks in the order of the         *)
(* program.                                                                *)
Ascending ==
  /\ allBlocks # <<>> /\ allBlocks[1] = Setup
  /\ \A k \in 2 .. Len(allBlocks) : allBlocks[k] \in instBlocks
  /\ \A j, k \in 2 .. Len(allBlocks) : j < k => allBlocks[j] < allBlocks[k]
  /\ \A b \in instBlocks : \E k \in 2 .. Len(allBlocks) : allBlocks[k] = b
BlockOrderInv ==
  /\ phase \in {"start", "split"} => instBlocks = {}
  /\ phase = "blocks" /\ Size < PcMod =>
       Ascending /\ \A b \in instBlocks : b < i
  /\ phase \in {"emit", "br", "done"} => Ascending /\ 0 \in instBlocks

(* The instructions before Front have been emitted.                        *)
Front == IF phase = "emit" THEN i ELSE Size

(* The entries of a block are instructions of it, in order; the last one   *)
(* may be the branch to the next block, and is all there is in setupBlock. *)
SourceInv ==
  \A b \in Blocks : \A k \in 1 .. Len(code[b]) :
    LET e == code[b][k] IN
    \/ /\ e.pc \in InstIds /\ e.pc < Front
       /\ b \in instBlocks /\ e.pc >= b + k - 1
       /\ GoodTo(e.pc, e.to)
    \/ /\ e.pc = None /\ phase # "emit"
       /\ k = Len(code[b]) /\ e.to # <<>>
       /\ b = Setup => e.to = <<0>>

(* A branch to the next block goes to a block.                             *)
BranchInv ==
  \A b \in Blocks : \A k \in 1 .. Len(code[b]) :
    code[b][k].pc = None => code[b][k].to[1] \in instBlocks

(* Every instruction but the slots has one place.                          *)
UniqueInv ==
  \A b, c \in Blocks : \A k \in 1 .. Len(code[b]), l \in 1 .. Len(code[c]) :
    code[b][k].pc = code[c][l].pc /\ code[b][k].pc # None => b = c /\ k = l
CoverInv ==
  \A n \in InstIds \ Slots :
    n < Front => \E b \in Blocks : \E k \in 1 .. Len(code[b]) :
                   code[b][k].pc = n

(* Behind an entry comes the instruction behind it.                        *)
ChainInv ==
  \A b \in instBlocks : \A k \in 1 .. Len(code[b]) - 1 :
    LET n == Step(code[b][k].pc)  e == code[b][k + 1] IN
    e.pc = n \/ (e.pc = None /\ e.to = <<n>>)

(* A block begins with the instruction it is named for; behind its last    *)
(* instruction is the next block or the instruction to be emitted next.    *)
BlockInv ==
  /\ \A b \in instBlocks : b < Front => code[b] # <<>>
  /\ \A b \in instBlocks : code[b] # <<>> =>
       /\ code[b][1].pc = b
       /\ LastPc(b) # None =>
            /\ \A c \in instBlocks : b < c => Step(LastPc(b)) <= c
            /\ \/ Step(LastPc(b)) \in instBlocks
               \/ phase = "emit" /\ b = currBB
               \/ phase # "emit" /\ Step(LastPc(b)) >= Size
  /\ phase = "emit" =>
       /\ currBB \in instBlocks
       /\ code[currBB] # <<>> => Step(LastPc(currBB)) = i
       /\ i > 0 => code[currBB] # <<>>

CodeInv ==
  SourceInv /\ BranchInv /\ UniqueInv /\ CoverInv /\ ChainInv /\ BlockInv

WInv ==
  /\ MarksInv /\ BlockOrderInv
  /\ phase \in {"emit", "br", "done"} /\ Plain => CodeInv
  /\ phase = "done" => ModuleOk
-----------------------------------------------------------------------------
(* What a block id before the first instruction becomes in w bits.         *)
LEMMA ModNegative ==
  ASSUME NEW a \in Int, NEW w \in Nat \ {0}, a < 0, -w <= a
  PROVE  a % w = a + w
<1> DEFINE q == a \div w
<1> DEFINE r == a % w
<1>1. q \in Int /\ r \in Int /\ 0 <= r /\ r < w /\ a = w * q + r
  OBVIOUS
<1> HIDE DEF q, r
<1>2. q >= 0 => w * q >= 0
  BY <1>1
<1>3. q <= -2 => w * q <= -2 * w
  BY <1>1
<1>4. q = -1
  BY <1>1, <1>2, <1>3
<1>5. r = a + w
  BY <1>1, <1>4
<1> QED BY <1>5 DEF r

LEMMA ReachRange == Reach \in Nat /\ 2 * Reach <= PcMod /\ Reach < PcMod
BY WidthAssumption DEF Reach

(* An id that was found among the blocks is the one that was meant.        *)
LEMMA BlockId ==
  ASSUME NEW a \in Int, NEW n \in Nat, n <= Reach, -Reach <= a, a < 2 * Reach,
         a % PcMod < n
  PROVE  a % PcMod = a
<1>1. CASE a >= 0
  BY <1>1, ReachRange, ModRange, WidthAssumption
<1>2. CASE a < 0
  <2>1. a % PcMod = a + PcMod
    BY <1>2, ReachRange, ModNegative, WidthAssumption
  <2> QED BY <1>2, <2>1, ReachRange, WidthAssumption
<1> QED BY <1>1, <1>2

LEMMA JumpMarkOk ==
  ASSUME TypeOK, i \in InstIds, Plain, is_jmp(i)
  PROVE  JumpMark \notin Slots
<1> DEFINE a == i + Cur.off + 1
<1>1. /\ i \in Nat /\ Size \in Nat /\ i < Size /\ Size <= Reach
      /\ Cur.off \in -Reach .. Reach - 1 /\ i + 1 + Cur.off \notin Slots
  BY DEF TypeOK, InstIds, Size, Plain, Cur
<1>2. /\ a \in Int /\ a \notin Slots /\ -Reach <= a /\ a < 2 * Reach
      /\ UIntMod \in Nat /\ 2 * Reach <= UIntMod /\ Reach \in Nat
  BY <1>1, ReachRange, WidthAssumption, WidthOrder
<1>3. JumpMark = a % UIntMod
  BY DEF JumpMark
<1> HIDE DEF a
<1>4. CASE a >= 0
  BY <1>2, <1>3, <1>4, ModRange, WidthAssumption
<1>5. CASE a < 0
  <2>0. -UIntMod <= a /\ UIntMod \in Nat \ {0}
    BY <1>2, WidthAssumption
  <2>1. a % UIntMod = a + UIntMod
    BY <1>2, <1>5, <2>0, ModNegative
  <2>2. JumpMark \in Int /\ JumpMark >= Size
    BY <1>1, <1>2, <1>3, <2>1
  <2>3. \A n \in Slots : n < Size
    BY <1>1 DEF Slots, InstIds
  <2> QED BY <1>1, <2>2, <2>3
<1> QED BY <1>2, <1>4, <1>5

LEMMA SameFlow ==
  ASSUME insns' = insns
  PROVE  /\ Plain' = Plain /\ Slots' = Slots
         /\ Size' = Size /\ InstIds' = InstIds /\ Blocks' = Blocks
BY DEF Plain, Slots, Size, InstIds, Blocks, At, is_jmp, IsLocalCall

LEMMA SameProgramStep == [Next]_vars => insns' = insns
BY DEF vars, Next, Split, StartSplit, SplitIter, SplitCrash, SplitDone, Create,
       BlockIter, OutOfMemory, BlocksDone, EmitStep, EmitStraight, EmitLddw,
       EmitJa, EmitJcond, EmitLocalCall, EmitExtCall, EmitExit, Emit,
       AssertReturnSite, Reject, RejectEmpty, RejectPrecheck, RejectOpcode,
       RejectLddw, RejectJa, RejectJcond, RejectLocalCall, RejectExtCall,
       RejectModule, Fail, Finish, EmitDone, FallThrough, Verify, Stopped

(* Steps that neither mark nor create blocks.                              *)
LEMMA OtherSteps ==
  ASSUME [Next]_vars, ~StartSplit, ~SplitIter, ~BlockIter
  PROVE  UNCHANGED <<insns, marks, instBlocks>>
BY DEF vars, Next, Split, SplitCrash, SplitDone, Create,
       OutOfMemory, BlocksDone, EmitStep, EmitStraight, EmitLddw,
       EmitJa, EmitJcond, EmitLocalCall, EmitExtCall, EmitExit, Emit,
       AssertReturnSite, Reject, RejectEmpty, RejectPrecheck, RejectOpcode,
       RejectLddw, RejectJa, RejectJcond, RejectLocalCall, RejectExtCall,
       RejectModule, Fail, Finish, EmitDone, FallThrough, Verify, Stopped

LEMMA MarksStep ==
  ASSUME IInv, MarksInv, BlockOrderInv, [Next]_vars
  PROVE  MarksInv'
<1>1. insns' = insns /\ Plain' = Plain /\ Slots' = Slots
  BY SameFlow, SameProgramStep
<1>2. CASE StartSplit
  <2>1. marks' = {0} /\ instBlocks' = instBlocks /\ instBlocks = {}
    BY <1>2 DEF StartSplit, BlockOrderInv
  <2> QED BY <1>1, <2>1 DEF MarksInv, Slots
<1>3. CASE SplitIter
  <2>1. i \in InstIds /\ i \in Nat
    BY <1>3 DEF SplitIter, IInv, TypeOK, InstIds, Size
  <2>2. Plain => NewMarks \cap Slots = {}
    <3>1. ASSUME i > 0, is_jmp(i - 1) PROVE i \notin Slots
      BY <3>1, <2>1 DEF Slots, is_jmp, JmpOps
    <3>2. Plain /\ is_jmp(i) => JumpMark \notin Slots
      BY <2>1, JumpMarkOk DEF IInv
    <3> QED BY <3>1, <3>2 DEF NewMarks
  <2>3. marks' = marks \cup NewMarks /\ instBlocks' = instBlocks
    BY <1>3 DEF SplitIter
  <2> QED BY <1>1, <2>2, <2>3 DEF MarksInv
<1>4. CASE BlockIter
  <2>1. marks' = marks /\ (instBlocks' = instBlocks
                           \/ (i \in marks /\ instBlocks' = instBlocks \cup {i}))
    BY <1>4 DEF BlockIter
  <2> QED BY <1>1, <2>1 DEF MarksInv
<1>5. CASE UNCHANGED <<insns, marks, instBlocks>>
  BY <1>1, <1>5 DEF MarksInv
<1> QED BY <1>2, <1>3, <1>4, <1>5, OtherSteps

(* Blocks are created in the order of the program.                         *)
LEMMA AppendAscending ==
  ASSUME IInv, BlockOrderInv, BlockIter, Size < PcMod, i \in marks
  PROVE  Ascending' /\ \A b \in instBlocks' : b < i'
<1>1. /\ phase = "blocks" /\ i \in Nat /\ i < Size /\ Size \in Nat
      /\ allBlocks \in Seq(Blocks) /\ Len(allBlocks) \in Nat
      /\ instBlocks \subseteq InstIds /\ InstIds \subseteq Nat
      /\ allBlocks' = Append(allBlocks, i) /\ instBlocks' = instBlocks \cup {i}
      /\ i' = (i + 1) % PcMod
  BY DEF BlockIter, IInv, TypeOK, Size, InstIds
<1>2. i' = i + 1
  <2> DEFINE a == i + 1
  <2>1. a \in Nat /\ a \in Int /\ a < PcMod
    BY <1>1, WidthAssumption
  <2> HIDE DEF a
  <2>2. a % PcMod = a
    BY <2>1, ModRange, WidthAssumption
  <2> QED BY <1>1, <2>2 DEF a
<1>3. Ascending /\ \A b \in instBlocks : b < i
  BY <1>1 DEF BlockOrderInv
<1>4. /\ allBlocks # <<>> /\ Len(allBlocks) >= 1
      /\ Len(allBlocks') = Len(allBlocks) + 1
      /\ \A k \in 1 .. Len(allBlocks) : allBlocks'[k] = allBlocks[k]
      /\ allBlocks'[Len(allBlocks) + 1] = i
  BY <1>1, <1>3 DEF Ascending
<1>5. \A k \in 2 .. Len(allBlocks') :
        k \in 2 .. Len(allBlocks) \/ k = Len(allBlocks) + 1
  BY <1>1, <1>4
<1>6. \A k \in 2 .. Len(allBlocks') : allBlocks'[k] \in instBlocks'
  BY <1>1, <1>3, <1>4, <1>5 DEF Ascending
<1>7. ASSUME NEW j \in 2 .. Len(allBlocks'), NEW k \in 2 .. Len(allBlocks'),
             j < k
      PROVE  allBlocks'[j] < allBlocks'[k]
  <2>1. j \in 2 .. Len(allBlocks) /\ allBlocks'[j] = allBlocks[j]
    BY <1>1, <1>4, <1>5, <1>7
  <2>2. CASE k \in 2 .. Len(allBlocks)
    BY <1>3, <1>4, <1>7, <2>1, <2>2 DEF Ascending
  <2>3. CASE k = Len(allBlocks) + 1
    BY <1>3, <1>4, <2>1, <2>3 DEF Ascending
  <2> QED BY <1>5, <2>2, <2>3
<1>8. ASSUME NEW b \in instBlocks'
      PROVE  \E k \in 2 .. Len(allBlocks') : allBlocks'[k] = b
  <2>1. CASE b = i
    <3>1. Len(allBlocks) + 1 \in 2 .. Len(allBlocks')
      BY <1>1, <1>4
    <3> QED BY <1>4, <2>1, <3>1
  <2>2. CASE b \in instBlocks
    <3>1. PICK k \in 2 .. Len(allBlocks) : allBlocks[k] = b
      BY <1>3, <2>2 DEF Ascending
    <3>2. k \in 2 .. Len(allBlocks') /\ allBlocks'[k] = b
      BY <1>1, <1>4, <3>1
    <3> QED BY <3>2
  <2> QED BY <1>1, <2>1, <2>2
<1>9. allBlocks' # <<>> /\ allBlocks'[1] = Setup
  BY <1>1, <1>3, <1>4 DEF Ascending
<1>10. \A b \in instBlocks' : b < i'
  BY <1>1, <1>2, <1>3
<1> QED BY <1>6, <1>7, <1>8, <1>9, <1>10 DEF Ascending

LEMMA OrderStep ==
  ASSUME IInv, RInv, BlockOrderInv, [Next]_vars
  PROVE  BlockOrderInv'
<1>1. insns' = insns /\ Size' = Size
  BY SameFlow, SameProgramStep
<1>2. CASE BlockIter
  <2>1. phase = "blocks" /\ phase' = "blocks"
    BY <1>2 DEF BlockIter
  <2>2. CASE i \in marks
    BY <1>1, <1>2, <2>1, <2>2, AppendAscending DEF BlockOrderInv
  <2>3. CASE i \notin marks
    <3>1. UNCHANGED <<instBlocks, allBlocks>> /\ i' = (i + 1) % PcMod
      BY <1>2, <2>3 DEF BlockIter
    <3>2. Size < PcMod => i' = i + 1
      <4>1. i \in Nat /\ i < Size /\ Size \in Nat
        BY <1>2 DEF BlockIter, IInv, TypeOK, Size
      <4> DEFINE a == i + 1
      <4>2. Size < PcMod => a \in Nat /\ a \in Int /\ a < PcMod
        BY <4>1, WidthAssumption
      <4> HIDE DEF a
      <4>3. Size < PcMod => a % PcMod = a
        BY <4>2, ModRange, WidthAssumption
      <4> QED BY <3>1, <4>3 DEF a
    <3>3. instBlocks \subseteq Nat /\ i \in Nat
      BY DEF IInv, TypeOK, InstIds
    <3> QED BY <1>1, <2>1, <3>1, <3>2, <3>3 DEF BlockOrderInv, Ascending
  <2> QED BY <2>2, <2>3
<1>3. CASE SplitDone
  <2>1. /\ phase = "split" /\ phase' = "blocks"
        /\ allBlocks' = <<Setup>> /\ instBlocks' = instBlocks
    BY <1>3 DEF SplitDone
  <2> QED BY <2>1 DEF BlockOrderInv, Ascending
<1>4. CASE BlocksDone
  <2>1. /\ phase = "blocks" /\ phase' = "emit" /\ i >= Size
        /\ UNCHANGED <<instBlocks, allBlocks>>
    BY <1>4 DEF BlocksDone
  <2>2. Size < PcMod
    BY <2>1, WidthAssumption DEF IInv, TypeOK, BlocksInv, Size
  <2>3. 0 \in instBlocks
    <3>1. 0 \in InstIds /\ 0 \in marks /\ Size \in Nat /\ i \in Nat
      BY <2>1 DEF IInv, TypeOK, SplitInv, Size
    <3>2. 0 < i
      BY <2>1, <3>1 DEF InstIds
    <3> QED BY <2>1, <3>1, <3>2 DEF IInv, BlocksInv
  <2> QED BY <2>1, <2>2, <2>3 DEF BlockOrderInv, Ascending
<1>5. CASE ~BlockIter /\ ~SplitDone /\ ~BlocksDone
  <2>1. /\ UNCHANGED <<instBlocks, allBlocks>>
        /\ phase' = "blocks" => phase = "blocks" /\ i' = i
        /\ phase' \in {"start", "split"} => phase \in {"start", "split"}
        /\ phase' \in {"emit", "br", "done"} =>
             phase \in {"emit", "br", "done"}
    BY <1>5
       DEF vars, Next, Split, StartSplit, SplitIter, SplitCrash, Create,
           OutOfMemory, EmitStep, EmitStraight, EmitLddw,
           EmitJa, EmitJcond, EmitLocalCall, EmitExtCall, EmitExit, Emit,
           AssertReturnSite, Reject, RejectEmpty, RejectPrecheck,
           RejectOpcode, RejectLddw, RejectJa, RejectJcond, RejectLocalCall,
           RejectExtCall, RejectModule, Fail, Finish, EmitDone, FallThrough,
           Verify, Stopped, Reaches, ReachesCall, Emitting
  <2> QED BY <1>1, <2>1 DEF BlockOrderInv, Ascending
<1> QED BY <1>2, <1>3, <1>4, <1>5

-----------------------------------------------------------------------------
LEMMA SameIsa ==
  ASSUME insns' = insns, instBlocks' = instBlocks
  PROVE  \A n, to : /\ Step(n)' = Step(n)
                    /\ GoodTo(n, to)' <=> GoodTo(n, to)
BY DEF Step, GoodTo, IsaNext, IsLocalCall, At

(* What is known of the block that the current instruction goes into.      *)
LEMMA HereFacts ==
  ASSUME IInv, MarksInv, Plain, CodeInv, Emitting, ~NoBlock
  PROVE  /\ phase = "emit" /\ i \in InstIds /\ i \in Nat
         /\ Here \in instBlocks /\ Here <= i
         /\ code[Here] = <<>> => Here = i /\ i \in marks
         /\ code[Here] # <<>> =>
              /\ Here = currBB /\ i \notin marks /\ LastPc(Here) \in InstIds
              /\ LastPc(Here) < i /\ Step(LastPc(Here)) = i
              /\ LastPc(Here) >= Here + Len(code[Here]) - 1
<1> DEFINE E == [pc : InstIds \cup {None}, to : Seq(Blocks \cup {Exit, Ret})]
<1>1. /\ insns \in Seq(Insn) /\ i \in Nat /\ code \in [Blocks -> Seq(E)]
      /\ instBlocks \subseteq InstIds
  BY DEF IInv, TypeOK
<1> HIDE DEF E
<1>2. /\ phase = "emit" /\ i \in InstIds /\ 0 \in marks
      /\ currBB \in instBlocks /\ currBB <= i
      /\ i > 0 => code[currBB] # <<>>
      /\ code[currBB] # <<>> => Step(LastPc(currBB)) = i
      /\ i \in InstIds => code[i] = <<>>
  BY <1>1 DEF Emitting, IInv, SplitInv, CursorInv, CodeInv, BlockInv, InstIds,
              Size
<1>3. CASE i \in marks
  <2>1. Here = i /\ i \in instBlocks
    BY <1>3 DEF Here, NoBlock
  <2> QED BY <1>1, <1>2, <1>3, <2>1
<1>4. CASE i \notin marks
  <2>1. Here = currBB /\ code[Here] # <<>> /\ Here \in Blocks
    BY <1>1, <1>2, <1>4 DEF Here, Blocks
  <2>2. code[Here] \in Seq(E)
    BY <1>1, <2>1
  <2>3. Len(code[Here]) \in 1 .. Len(code[Here])
    BY <2>1, <2>2
  <2>4. /\ LastPc(Here) \in InstIds /\ LastPc(Here) < i
        /\ LastPc(Here) >= Here + Len(code[Here]) - 1
    BY <1>2, <2>1, <2>3 DEF CodeInv, SourceInv, Front, LastPc
  <2> QED BY <1>1, <1>2, <1>4, <2>1, <2>4
<1> QED BY <1>3, <1>4

(* Appending to a block.                                                   *)
LEMMA AppendAt ==
  ASSUME NEW S, NEW s \in Seq(S), NEW e \in S
  PROVE  /\ Len(Append(s, e)) = Len(s) + 1
         /\ \A k \in 1 .. Len(s) : Append(s, e)[k] = s[k]
         /\ Append(s, e)[Len(s) + 1] = e
         /\ Append(s, e) # <<>>
OBVIOUS

(* Emitting an instruction as what the program does there.                 *)
LEMMA EmitFlow ==
  ASSUME IInv, MarksInv, Plain, CodeInv, Emitting, ~NoBlock,
         NEW to \in Seq(Blocks \cup {Exit, Ret}), NEW width \in {1, 2},
         i + width <= Size, Step(i) = i + width, GoodTo(i, to),
         Emit(to, width)
  PROVE  CodeInv'
<1> DEFINE E == [pc : InstIds \cup {None}, to : Seq(Blocks \cup {Exit, Ret})]
<1> DEFINE e == Entry(i, to)
<1>1. /\ phase = "emit" /\ i \in InstIds /\ i \in Nat
      /\ Here \in instBlocks /\ Here <= i
      /\ code[Here] = <<>> => Here = i /\ i \in marks
      /\ code[Here] # <<>> =>
           /\ Here = currBB /\ i \notin marks /\ LastPc(Here) \in InstIds
           /\ LastPc(Here) < i /\ Step(LastPc(Here)) = i
           /\ LastPc(Here) >= Here + Len(code[Here]) - 1
  BY HereFacts
<1>2. /\ code \in [Blocks -> Seq(E)] /\ instBlocks \subseteq InstIds
      /\ InstIds \subseteq Blocks /\ InstIds \subseteq Nat
  <2>1. /\ code \in [Blocks -> Seq(E)] /\ instBlocks \subseteq InstIds
    BY DEF IInv, TypeOK
  <2> HIDE DEF E, e
  <2> QED BY <2>1 DEF InstIds, Blocks
<1>3. e \in E /\ e.pc = i /\ e.to = to
  BY <1>1 DEF Entry
<1>4. /\ UNCHANGED <<phase, insns, marks, instBlocks>>
      /\ currBB' = Here
      /\ code' = [code EXCEPT ![Here] = Append(@, e)]
  BY DEF Emit
<1>5. /\ Size' = Size /\ InstIds' = InstIds /\ Blocks' = Blocks
      /\ Slots' = Slots
      /\ \A n, t : Step(n)' = Step(n) /\ (GoodTo(n, t)' <=> GoodTo(n, t))
  BY <1>4, SameFlow, SameIsa
<1>6. i' = i + width /\ i \in Nat /\ i' \in Nat /\ i < i'
  <2>1. i' = i + width
    BY NoWrap DEF Emit
  <2> QED BY <1>1, <2>1
<1>7. Front = i /\ Front' = i'
  BY <1>1, <1>4 DEF Front
<1> HIDE DEF E, e
<1>8. /\ \A b \in Blocks : b # Here => code'[b] = code[b]
      /\ code'[Here] = Append(code[Here], e)
      /\ \A b \in Blocks : code[b] \in Seq(E) /\ Len(code[b]) \in Nat
      /\ Here \in Blocks
  BY <1>1, <1>2, <1>4
<1>9. /\ Len(code'[Here]) = Len(code[Here]) + 1
      /\ \A k \in 1 .. Len(code[Here]) : code'[Here][k] = code[Here][k]
      /\ code'[Here][Len(code[Here]) + 1] = e
      /\ code'[Here] # <<>>
  <2>1. code[Here] \in Seq(E) /\ e \in E /\ code'[Here] = Append(code[Here], e)
    BY <1>3, <1>8
  <2> QED BY <2>1, AppendAt
(* Every entry is an old one or the new one. *)
<1>10. ASSUME NEW b \in Blocks, NEW k \in 1 .. Len(code'[b])
       PROVE  \/ k \in 1 .. Len(code[b]) /\ code'[b][k] = code[b][k]
              \/ b = Here /\ k = Len(code[b]) + 1 /\ code'[b][k] = e
  <2>1. CASE b = Here
    <3>1. Len(code[b]) \in Nat /\ k \in 1 .. Len(code[b]) + 1
      BY <1>8, <1>9, <2>1
    <3>2. k \in 1 .. Len(code[b]) \/ k = Len(code[b]) + 1
      BY <3>1
    <3> QED BY <1>9, <2>1, <3>2
  <2>2. CASE b # Here
    BY <1>8, <2>2
  <2> QED BY <2>1, <2>2
<1>11. \A b \in Blocks : \A k \in 1 .. Len(code[b]) :
         /\ k \in 1 .. Len(code'[b]) /\ code'[b][k] = code[b][k]
         /\ code[b][k].pc \in InstIds /\ code[b][k].pc < i
         /\ b \in instBlocks /\ code[b][k].pc >= b + k - 1
         /\ GoodTo(code[b][k].pc, code[b][k].to)
  <2> TAKE b \in Blocks
  <2> TAKE k \in 1 .. Len(code[b])
  <2>1. k \in 1 .. Len(code'[b]) /\ code'[b][k] = code[b][k]
    <3>1. CASE b = Here
      <4>1. Len(code[b]) \in Nat /\ Len(code'[b]) = Len(code[b]) + 1
        BY <1>8, <1>9, <3>1
      <4> QED BY <1>9, <3>1, <4>1
    <3>2. CASE b # Here
      BY <1>8, <3>2
    <3> QED BY <3>1, <3>2
  <2> QED BY <1>1, <1>7, <2>1 DEF CodeInv, SourceInv
<1>12. SourceInv'
  <2> SUFFICES ASSUME NEW b \in Blocks, NEW k \in 1 .. Len(code'[b]),
                      NEW f, f = code'[b][k]
               PROVE  /\ f.pc \in InstIds /\ f.pc < i'
                      /\ b \in instBlocks /\ f.pc >= b + k - 1
                      /\ GoodTo(f.pc, f.to)
    BY <1>4, <1>5, <1>7 DEF SourceInv
  <2>1. CASE k \in 1 .. Len(code[b]) /\ code'[b][k] = code[b][k]
    <3>1. f = code[b][k]
      BY <2>1
    <3>2. /\ f.pc \in InstIds /\ f.pc < i
          /\ b \in instBlocks /\ f.pc >= b + k - 1 /\ GoodTo(f.pc, f.to)
      BY <1>11, <2>1, <3>1
    <3>3. i \in Nat /\ i' \in Nat /\ i < i' /\ f.pc \in Nat
      BY <1>2, <1>6, <3>2
    <3>4. f.pc < i'
      BY <3>2, <3>3
    <3> QED BY <3>2, <3>4
  <2>2. CASE b = Here /\ k = Len(code[b]) + 1 /\ code'[b][k] = e
    <3>1. i >= b + k - 1
      <4>1. CASE code[Here] = <<>>
        <5>1. k = 1 /\ b = i
          BY <1>1, <2>2, <4>1
        <5> QED BY <1>1, <5>1
      <4>2. CASE code[Here] # <<>>
        <5> DEFINE m == LastPc(Here)
        <5>1. /\ m \in Nat /\ m < i /\ m >= b + Len(code[b]) - 1
              /\ b \in Nat /\ Len(code[b]) \in Nat
          BY <1>1, <1>2, <1>8, <2>2, <4>2
        <5> HIDE DEF m
        <5> QED BY <1>1, <2>2, <5>1
      <4> QED BY <4>1, <4>2
    <3> QED BY <1>1, <1>3, <1>6, <2>2, <3>1
  <2> QED BY <1>10, <2>1, <2>2
<1>13. UniqueInv'
  <2> SUFFICES ASSUME NEW b \in Blocks, NEW c \in Blocks,
                      NEW k \in 1 .. Len(code'[b]),
                      NEW l \in 1 .. Len(code'[c]),
                      code'[b][k].pc = code'[c][l].pc
               PROVE  b = c /\ k = l
    BY <1>5 DEF UniqueInv
  <2>1. CASE k \in 1 .. Len(code[b]) /\ l \in 1 .. Len(code[c])
    <3>1. /\ code[b][k].pc = code[c][l].pc
          /\ code[b][k].pc \in InstIds
      BY <1>11, <2>1
    <3>2. code[b][k].pc # None
      BY <3>1 DEF InstIds, None
    <3> QED BY <2>1, <3>1, <3>2 DEF CodeInv, UniqueInv
  <2>2. ASSUME NEW x \in Blocks, NEW m \in 1 .. Len(code'[x])
        PROVE  \/ m \in 1 .. Len(code[x]) /\ code'[x][m].pc < i
               \/ x = Here /\ m = Len(code[x]) + 1 /\ code'[x][m].pc = i
    BY <1>3, <1>10, <1>11
  <2>3. PICK p : p = code'[b][k].pc
    OBVIOUS
  <2>4. /\ \/ k \in 1 .. Len(code[b]) /\ p < i
           \/ b = Here /\ k = Len(code[b]) + 1 /\ p = i
        /\ \/ l \in 1 .. Len(code[c]) /\ p < i
           \/ c = Here /\ l = Len(code[c]) + 1 /\ p = i
    BY <2>2, <2>3
  <2>5. ~(p < i /\ p = i)
    BY <1>6
  <2> QED BY <2>1, <2>4, <2>5
<1>14. CoverInv'
  <2> SUFFICES ASSUME NEW n \in InstIds \ Slots, n < i'
               PROVE  \E b \in Blocks : \E k \in 1 .. Len(code'[b]) :
                        code'[b][k].pc = n
    BY <1>5, <1>7 DEF CoverInv
  <2>1. CASE n < i
    <3>1. PICK b \in Blocks : \E k \in 1 .. Len(code[b]) : code[b][k].pc = n
      BY <1>7, <2>1 DEF CodeInv, CoverInv
    <3> QED BY <1>11, <3>1
  <2>2. CASE n = i
    BY <1>3, <1>8, <1>9, <2>2
  <2>3. n < i \/ n = i
    <3>1. CASE n = i + 1 /\ width = 2
      BY <1>1, <3>1 DEF Slots, Step
    <3> QED BY <1>1, <1>2, <1>6, <3>1
  <2> QED BY <2>1, <2>2, <2>3
<1>15. ChainInv'
  <2> SUFFICES ASSUME NEW b \in instBlocks, NEW k \in 1 .. Len(code'[b]) - 1
               PROVE  code'[b][k + 1].pc = Step(code'[b][k].pc)
    BY <1>4, <1>5 DEF ChainInv
  <2>0. b \in Blocks /\ Len(code[b]) \in Nat
    BY <1>2, <1>8
  <2>1. CASE k \in 1 .. Len(code[b]) - 1
    <3>1. /\ k \in 1 .. Len(code[b]) /\ k + 1 \in 1 .. Len(code[b])
          /\ code'[b][k] = code[b][k] /\ code'[b][k + 1] = code[b][k + 1]
      BY <1>11, <2>0, <2>1
    <3>2. code[b][k + 1].pc \in InstIds
      BY <1>11, <2>0, <3>1
    <3>3. code[b][k + 1].pc # None
      BY <3>2 DEF InstIds, None
    <3> QED BY <2>1, <3>1, <3>3 DEF CodeInv, ChainInv
  <2>2. CASE b = Here /\ k = Len(code[b])
    <3>1. k >= 1 /\ code[b] # <<>>
      BY <2>0, <2>2
    <3>2. code'[b][k] = code[b][k] /\ code'[b][k + 1] = e
      BY <1>9, <2>0, <2>2, <3>1
    <3>3. code[b][k].pc = LastPc(Here)
      BY <2>2 DEF LastPc
    <3> QED BY <1>1, <1>3, <2>2, <3>1, <3>2, <3>3
  <2>3. k \in 1 .. Len(code[b]) - 1 \/ (b = Here /\ k = Len(code[b]))
    <3>1. CASE b = Here
      BY <1>9, <2>0, <3>1
    <3>2. CASE b # Here
      BY <1>8, <2>0, <3>2
    <3> QED BY <3>1, <3>2
  <2> QED BY <2>1, <2>2, <2>3
(* A block that begins behind i begins behind the instruction and its slot. *)
<1>16. ASSUME NEW c \in instBlocks, i < c PROVE i' <= c
  <2>1. CASE width = 2
    <3>1. i + 1 \in Slots
      <4>1. At(i).op = "lddw" /\ i + 1 \in InstIds
        BY <1>1, <2>1 DEF Step, InstIds, IInv, TypeOK, Size
      <4> QED BY <1>1, <4>1 DEF Slots
    <3>2. c # i + 1
      BY <3>1 DEF MarksInv
    <3> QED BY <1>1, <1>2, <1>6, <1>16, <2>1, <3>2
  <2>2. CASE width = 1
    BY <1>1, <1>2, <1>6, <1>16, <2>2
  <2> QED BY <2>1, <2>2
<1>17. ASSUME NEW b \in instBlocks
       PROVE  \/ b # Here /\ code'[b] = code[b] /\ LastPc(b)' = LastPc(b)
              \/ b = Here /\ LastPc(b)' = i
  <2>1. CASE b = Here
    <3>1. code'[b][Len(code'[b])].pc = i
      BY <1>3, <1>9, <2>1
    <3> QED BY <2>1, <3>1 DEF LastPc
  <2>2. CASE b # Here
    BY <1>2, <1>8, <2>2 DEF LastPc
  <2> QED BY <2>1, <2>2
<1>18. BlockInv'
  <2>1. ASSUME NEW b \in instBlocks, b < i' PROVE code'[b] # <<>>
    <3>1. CASE b < i
      BY <1>2, <1>7, <1>8, <1>9, <3>1 DEF CodeInv, BlockInv
    <3>2. CASE b = i
      BY <1>9, <3>2 DEF MarksInv, Here
    <3>3. b \in Int /\ i \in Int /\ i' \in Int
      BY <1>1, <1>2, <1>6
    <3>4. ~(i < b)
      BY <1>16, <2>1, <3>3
    <3> QED BY <3>1, <3>2, <3>3, <3>4
  <2>2. ASSUME NEW b \in instBlocks, code'[b] # <<>>
        PROVE  /\ code'[b][1].pc = b
               /\ \A c \in instBlocks : b < c => Step(LastPc(b)') <= c
               /\ Step(LastPc(b)') \in instBlocks \/ b = Here
    <3>1. CASE b # Here
      <4>1. /\ code[b] # <<>> /\ code'[b] = code[b] /\ LastPc(b)' = LastPc(b)
            /\ Len(code[b]) \in 1 .. Len(code[b])
        BY <1>2, <1>8, <1>17, <2>2, <3>1
      <4>2. LastPc(b) # None
        <5>1. LastPc(b) \in InstIds
          BY <1>2, <1>11, <4>1 DEF LastPc
        <5> QED BY <5>1 DEF InstIds, None
      <4>3. /\ code[b][1].pc = b
            /\ \A c \in instBlocks : b < c => Step(LastPc(b)) <= c
            /\ Step(LastPc(b)) \in instBlocks \/ b = currBB
        BY <1>1, <4>1, <4>2 DEF CodeInv, BlockInv
      <4>4. b = currBB => Step(LastPc(b)) \in instBlocks
        BY <1>1, <3>1, <4>1 DEF CodeInv, BlockInv, Here
      <4> QED BY <4>1, <4>3, <4>4
    <3>2. CASE b = Here
      <4>1. LastPc(b)' = i /\ Step(i) = i'
        BY <1>6, <1>17, <3>2
      <4>2. CASE code[b] = <<>>
        BY <1>1, <1>3, <1>9, <1>16, <3>2, <4>1, <4>2
      <4>3. CASE code[b] # <<>>
        <5>1. /\ Here = currBB /\ i \notin marks /\ LastPc(b) # None
              /\ Step(LastPc(b)) = i /\ 1 \in 1 .. Len(code[b])
          BY <1>1, <1>8, <3>2, <4>3 DEF InstIds, None
        <5>2. /\ code[b][1].pc = b
              /\ \A c \in instBlocks : b < c => i <= c
          BY <4>3, <5>1 DEF CodeInv, BlockInv
        <5>3. code'[b][1].pc = b
          BY <1>9, <3>2, <5>1, <5>2
        <5>4. \A c \in instBlocks : b < c => i < c
          BY <1>1, <1>2, <5>1, <5>2 DEF MarksInv
        <5> QED BY <1>16, <3>2, <4>1, <5>3, <5>4
      <4> QED BY <4>2, <4>3
    <3> QED BY <3>1, <3>2
  <2>3. PICK h : h = Here
    OBVIOUS
  <2>4. /\ currBB' = h /\ h \in instBlocks /\ code'[h] # <<>>
        /\ LastPc(h)' = i /\ Step(i) = i'
    BY <1>1, <1>4, <1>6, <1>9, <1>17, <2>3
  <2>5. LastPc(currBB)' = i
    BY <2>4 DEF LastPc
  <2>6. (\A b \in instBlocks : b < Front => code[b] # <<>>)'
    BY <1>4, <1>7, <2>1
  <2>7. (\A b \in instBlocks : code[b] # <<>> =>
           /\ code[b][1].pc = b
           /\ LastPc(b) # None =>
                /\ \A c \in instBlocks : b < c => Step(LastPc(b)) <= c
                /\ \/ Step(LastPc(b)) \in instBlocks
                   \/ phase = "emit" /\ b = currBB)'
    <3> SUFFICES ASSUME NEW b \in instBlocks, code'[b] # <<>>
                 PROVE  /\ code'[b][1].pc = b
                        /\ \A c \in instBlocks : b < c => Step(LastPc(b)') <= c
                        /\ \/ Step(LastPc(b)') \in instBlocks
                           \/ phase' = "emit" /\ b = currBB'
      BY <1>4, <1>5
    <3> QED BY <1>1, <1>4, <2>2
  <2>8. (/\ currBB \in instBlocks
         /\ code[currBB] # <<>> => Step(LastPc(currBB)) = i
         /\ i > 0 => code[currBB] # <<>>)'
    BY <1>4, <1>5, <2>4, <2>5
  <2> QED BY <2>6, <2>7, <2>8 DEF BlockInv
<1>19. BranchInv'
  <2>1. ASSUME NEW b \in Blocks, NEW k \in 1 .. Len(code'[b])
        PROVE  code'[b][k].pc \in InstIds
    BY <1>1, <1>3, <1>10, <1>11
  <2>2. None \notin InstIds
    BY DEF InstIds, None
  <2> QED BY <1>5, <2>1, <2>2 DEF BranchInv
<1> QED BY <1>12, <1>13, <1>14, <1>15, <1>18, <1>19 DEF CodeInv

(* The successors of each kind of instruction.                             *)
LEMMA Successors ==
  ASSUME NEW n
  PROVE  /\ At(n).op = "ja" => IsaNext(n) = <<n + 1 + At(n).off>>
         /\ At(n).op = "jcond" => IsaNext(n) = <<n + 1 + At(n).off, n + 1>>
         /\ At(n).op = "exit" => IsaNext(n) = <<Exit, Ret>>
         /\ At(n).op = "lddw" => IsaNext(n) = <<n + 2>>
         /\ At(n).op = "straight" => IsaNext(n) = <<n + 1>>
         /\ IsLocalCall(n) => IsaNext(n) = <<n + 1 + At(n).imm>>
         /\ At(n).op \in {"call", "callx"} /\ At(n).src # 1 =>
              IsaNext(n) = IF At(n).imm = 12 THEN <<Exit>> ELSE <<n + 1>>
BY DEF IsaNext, IsLocalCall

LEMMA EmitStepFlow ==
  ASSUME IInv, MarksInv, Plain, CodeInv, EmitStep
  PROVE  CodeInv'
<1>1. /\ InstIds \subseteq Blocks /\ instBlocks \subseteq InstIds
      /\ i \in Nat /\ Size \in Nat /\ insns \in Seq(Insn)
  BY DEF IInv, TypeOK, InstIds, Blocks, Size
<1>2. <<>> \in Seq(Blocks \cup {Exit, Ret})
  OBVIOUS
<1>3. \A op : Reaches(op) => /\ Emitting /\ ~NoBlock /\ i \in InstIds
                             /\ At(i).op = op /\ Cur = At(i) /\ i + 1 <= Size
  BY <1>1 DEF Reaches, Emitting, Cur, InstIds
<1>4. ASSUME NEW d \in Int, d \in -Reach .. Reach - 1, i \in InstIds,
             (i + 1 + d) % PcMod \in instBlocks
      PROVE  (i + 1 + d) % PcMod = i + 1 + d
  <2> DEFINE a == i + 1 + d
  <2>1. /\ a \in Int /\ -Reach <= a /\ a < 2 * Reach /\ Size <= Reach
        /\ a % PcMod < Size
    <3>1. i < Size /\ Size <= Reach /\ Reach \in Nat
      BY <1>1, <1>4, ReachRange DEF InstIds, Plain
    <3>2. a \in Int /\ -Reach <= a /\ a < 2 * Reach
      BY <1>1, <1>4, <3>1
    <3>3. \A n \in instBlocks : n < Size
      BY <1>1 DEF InstIds
    <3>4. a % PcMod < Size
      BY <1>4, <3>3
    <3> QED BY <3>1, <3>2, <3>4
  <2> HIDE DEF a
  <2>2. a % PcMod = a
    BY <1>1, <2>1, BlockId
  <2> QED BY <2>2 DEF a
<1>5. i \in InstIds => /\ At(i).off \in Int /\ At(i).off \in -Reach .. Reach - 1
                       /\ IsLocalCall(i) => /\ At(i).imm \in Int
                                            /\ At(i).imm \in -Reach .. Reach - 1
  BY ReachRange DEF Plain
<1>6. CASE EmitStraight
  <2>1. Step(i) = i + 1 /\ GoodTo(i, <<>>)
    BY <1>3, <1>6, Successors DEF EmitStraight, Step, GoodTo, IsLocalCall
  <2> QED BY <1>2, <1>3, <1>6, <2>1, EmitFlow DEF EmitStraight
<1>7. CASE EmitLddw
  <2>1. Step(i) = i + 2 /\ GoodTo(i, <<>>)
    BY <1>3, <1>7, Successors DEF EmitLddw, Step, GoodTo, IsLocalCall
  <2>2. i + 2 <= Size
    BY <1>1, <1>7 DEF EmitLddw, LddwOk, GoodSlot
  <2> QED BY <1>2, <1>3, <1>7, <2>1, <2>2, EmitFlow DEF EmitLddw
<1>8. CASE EmitJa
  <2>0. Reaches("ja") /\ JmpDstBlock \in instBlocks
    BY <1>8 DEF EmitJa
  <2>1. JmpDstBlock = i + 1 + At(i).off
    BY <1>3, <1>4, <1>5, <2>0 DEF JmpDstBlock
  <2>2. <<JmpDstBlock>> \in Seq(Blocks \cup {Exit, Ret})
    BY <1>1, <2>0
  <2>3. Step(i) = i + 1 /\ GoodTo(i, <<JmpDstBlock>>)
    <3>1. IsaNext(i) = <<JmpDstBlock>> /\ At(i).op = "ja"
      BY <1>3, <2>0, <2>1, Successors
    <3> QED BY <2>0, <3>1 DEF Step, GoodTo
  <2> QED BY <1>3, <1>8, <2>0, <2>2, <2>3, EmitFlow DEF EmitJa
<1>9. CASE EmitJcond
  <2>0. Reaches("jcond") /\ JmpDstBlock \in instBlocks /\ NextBlock \in instBlocks
    BY <1>9 DEF EmitJcond
  <2>1. JmpDstBlock = i + 1 + At(i).off /\ NextBlock = i + 1
    BY <1>3, <1>4, <1>5, <2>0, NoWrap DEF JmpDstBlock
  <2>2. <<JmpDstBlock, NextBlock>> \in Seq(Blocks \cup {Exit, Ret})
    BY <1>1, <2>0
  <2>3. Step(i) = i + 1 /\ GoodTo(i, <<JmpDstBlock, NextBlock>>)
    <3>1. IsaNext(i) = <<JmpDstBlock, NextBlock>> /\ At(i).op = "jcond"
      BY <1>3, <2>0, <2>1, Successors
    <3> QED BY <2>0, <3>1 DEF Step, GoodTo
  <2> QED BY <1>3, <1>9, <2>0, <2>2, <2>3, EmitFlow DEF EmitJcond
<1>10. CASE EmitLocalCall
  <2>0. /\ CallDstBlock \in instBlocks /\ IsLocalCall(i) /\ Cur = At(i)
        /\ Emitting /\ ~NoBlock /\ i \in InstIds /\ i + 1 <= Size
        /\ At(i).op # "lddw"
    BY <1>3, <1>10 DEF EmitLocalCall, ReachesCall, IsLocalCall
  <2>1. CallDstBlock = i + 1 + At(i).imm
    BY <1>4, <1>5, <2>0 DEF CallDstBlock
  <2>2. <<CallDstBlock>> \in Seq(Blocks \cup {Exit, Ret})
    BY <1>1, <2>0
  <2>3. Step(i) = i + 1 /\ GoodTo(i, <<CallDstBlock>>)
    <3>1. IsaNext(i) = <<CallDstBlock>>
      BY <2>0, <2>1, Successors
    <3> QED BY <2>0, <3>1 DEF Step, GoodTo
  <2> QED BY <1>10, <2>0, <2>2, <2>3, EmitFlow DEF EmitLocalCall
<1>11. CASE EmitExtCall
  <2>0. /\ At(i).src # 1 /\ Cur = At(i) /\ At(i).op \in {"call", "callx"}
        /\ Emitting /\ ~NoBlock /\ i \in InstIds /\ i + 1 <= Size
    BY <1>3, <1>11 DEF EmitExtCall, ReachesCall
  <2>1. CASE Cur.imm = 12
    <3>1. <<Exit>> \in Seq(Blocks \cup {Exit, Ret})
      OBVIOUS
    <3>2. IsaNext(i) = <<Exit>> /\ Step(i) = i + 1
      BY <2>0, <2>1, Successors DEF Step
    <3>3. GoodTo(i, <<Exit>>) /\ Emit(<<Exit>>, 1)
      BY <1>11, <2>1, <3>2 DEF GoodTo, EmitExtCall
    <3> QED BY <2>0, <3>1, <3>2, <3>3, EmitFlow
  <2>2. CASE Cur.imm # 12
    <3>1. IsaNext(i) = <<i + 1>> /\ Step(i) = i + 1
      BY <2>0, <2>2, Successors DEF Step
    <3>2. GoodTo(i, <<>>) /\ Emit(<<>>, 1)
      BY <1>11, <2>0, <2>2, <3>1 DEF GoodTo, EmitExtCall, IsLocalCall
    <3> QED BY <1>2, <2>0, <3>1, <3>2, EmitFlow
  <2> QED BY <2>1, <2>2
<1>12. CASE EmitExit
  <2>1. <<Exit, Ret>> \in Seq(Blocks \cup {Exit, Ret})
    OBVIOUS
  <2>2. Step(i) = i + 1 /\ GoodTo(i, <<Exit, Ret>>)
    <3>1. IsaNext(i) = <<Exit, Ret>> /\ At(i).op = "exit"
      BY <1>3, <1>12, Successors DEF EmitExit
    <3> QED BY <3>1 DEF Step, GoodTo
  <2> QED BY <1>3, <1>12, <2>1, <2>2, EmitFlow DEF EmitExit
<1> QED BY <1>6, <1>7, <1>8, <1>9, <1>10, <1>11, <1>12 DEF EmitStep

(* Steps that leave the code alone, after emission.                        *)
LEMMA KeepFlow ==
  ASSUME CodeInv, phase \in {"br", "done"}, phase' \in {"br", "done"},
         UNCHANGED <<insns, instBlocks, code>>
  PROVE  CodeInv'
<1>1. /\ Size' = Size /\ InstIds' = InstIds /\ Blocks' = Blocks
      /\ Slots' = Slots /\ Front = Size /\ Front' = Size
      /\ phase # "emit" /\ phase' # "emit"
      /\ \A n, t : Step(n)' = Step(n) /\ (GoodTo(n, t)' <=> GoodTo(n, t))
  BY SameFlow, SameIsa DEF Front
<1>2. SourceInv'
  <2>1. SourceInv
    BY DEF CodeInv
  <2> SUFFICES ASSUME NEW b \in Blocks, NEW k \in 1 .. Len(code[b])
               PROVE  (LET e == code[b][k] IN
                       \/ /\ e.pc \in InstIds /\ e.pc < Front
                          /\ b \in instBlocks /\ e.pc >= b + k - 1
                          /\ GoodTo(e.pc, e.to)
                       \/ /\ e.pc = None /\ phase # "emit"
                          /\ k = Len(code[b]) /\ e.to # <<>>
                          /\ b = Setup => e.to = <<0>>)'
    BY <1>1 DEF SourceInv
  <2>2. LET e == code[b][k] IN
        \/ /\ e.pc \in InstIds /\ e.pc < Front
           /\ b \in instBlocks /\ e.pc >= b + k - 1
           /\ GoodTo(e.pc, e.to)
        \/ /\ e.pc = None /\ phase # "emit"
           /\ k = Len(code[b]) /\ e.to # <<>>
           /\ b = Setup => e.to = <<0>>
    BY <2>1 DEF SourceInv
  <2> QED BY <1>1, <2>2
<1>3. UniqueInv' /\ CoverInv' /\ BranchInv'
  BY <1>1 DEF CodeInv, UniqueInv, CoverInv, BranchInv
<1>4. ChainInv'
  BY <1>1 DEF CodeInv, ChainInv, Step, At
<1>5. BlockInv'
  BY <1>1 DEF CodeInv, BlockInv, LastPc, Step, At
<1> QED BY <1>2, <1>3, <1>4, <1>5 DEF CodeInv

(* When emission begins every block is empty.                              *)
LEMMA BeginFlow ==
  ASSUME IInv, BlocksDone, 0 \in instBlocks
  PROVE  CodeInv'
<1>1. /\ phase' = "emit" /\ i' = 0 /\ currBB' = 0
      /\ UNCHANGED <<insns, instBlocks, code>>
      /\ Blocks' = Blocks /\ InstIds' = InstIds /\ Front' = 0
      /\ \A b \in Blocks : code[b] = <<>>
      /\ instBlocks \subseteq InstIds /\ InstIds \subseteq Nat
      /\ InstIds \subseteq Blocks
  BY SameProgram DEF BlocksDone, IInv, SplitInv, TypeOK, Front, InstIds, Blocks
<1>2. \A b \in Blocks : Len(code'[b]) = 0 /\ code'[b] = <<>>
  BY <1>1
<1>3. \A b \in Blocks : 1 .. Len(code'[b]) = {} /\ 1 .. Len(code'[b]) - 1 = {}
  BY <1>2
<1>4. SourceInv' /\ UniqueInv' /\ BranchInv'
  BY <1>1, <1>3 DEF SourceInv, UniqueInv, BranchInv
<1>5. ChainInv'
  BY <1>1, <1>3 DEF ChainInv
<1>6. CoverInv'
  BY <1>1 DEF CoverInv
<1>7. BlockInv'
  <2>1. \A b \in instBlocks' : ~(b < 0) /\ code'[b] = <<>>
    BY <1>1, <1>2
  <2> QED BY <1>1, <2>1 DEF BlockInv
<1> QED BY <1>4, <1>5, <1>6, <1>7 DEF CodeInv

(* When it ends every instruction has been emitted.                        *)
LEMMA EndFlow ==
  ASSUME IInv, CodeInv, EmitDone
  PROVE  CodeInv'
<1>1. /\ phase = "emit" /\ phase' = "br" /\ i >= Size /\ i \in Nat
      /\ Size \in Nat
      /\ UNCHANGED <<insns, instBlocks, code>>
      /\ Size' = Size /\ InstIds' = InstIds /\ Blocks' = Blocks
      /\ Slots' = Slots /\ Front = i /\ Front' = Size
      /\ \A n, t : Step(n)' = Step(n) /\ (GoodTo(n, t)' <=> GoodTo(n, t))
      /\ \A n \in InstIds : n \in Nat /\ n < Size /\ n < i
      /\ instBlocks \subseteq InstIds
  <2>1. /\ phase = "emit" /\ phase' = "br" /\ i >= Size /\ i \in Nat
        /\ Size \in Nat /\ instBlocks \subseteq InstIds
        /\ UNCHANGED <<insns, instBlocks, code>>
    BY DEF EmitDone, IInv, TypeOK, Size
  <2>2. \A n \in InstIds : n \in Nat /\ n < Size /\ n < i
    BY <2>1 DEF InstIds
  <2> QED BY <2>1, <2>2, SameFlow, SameIsa DEF Front
<1>2. SourceInv'
  <2> SUFFICES ASSUME NEW b \in Blocks, NEW k \in 1 .. Len(code[b]),
                      NEW f, f = code[b][k]
               PROVE  /\ f.pc \in InstIds /\ f.pc < Size
                      /\ b \in instBlocks /\ f.pc >= b + k - 1
                      /\ GoodTo(f.pc, f.to)
    BY <1>1 DEF SourceInv
  <2> QED BY <1>1 DEF CodeInv, SourceInv
<1>3. UniqueInv' /\ CoverInv' /\ BranchInv'
  BY <1>1 DEF CodeInv, UniqueInv, CoverInv, BranchInv
<1>4. ChainInv'
  BY <1>1 DEF CodeInv, ChainInv, Step, At
<1>5. BlockInv'
  <2>1. ASSUME NEW b \in instBlocks
        PROVE  /\ code[b] # <<>> /\ code[b][1].pc = b
               /\ LastPc(b) # None =>
                    /\ \A c \in instBlocks : b < c => Step(LastPc(b)) <= c
                    /\ Step(LastPc(b)) \in instBlocks
                       \/ Step(LastPc(b)) >= Size
    BY <1>1 DEF CodeInv, BlockInv
  <2> QED BY <1>1, <2>1 DEF BlockInv, LastPc, Step, At
<1> QED BY <1>2, <1>3, <1>4, <1>5 DEF CodeInv

(* An open block ends just before the block that follows in allBlocks.     *)
LEMMA OpenBlock ==
  ASSUME IInv, BlockOrderInv, CodeInv, FallThrough,
         NEW b, b = allBlocks[i + 1], NEW nb, nb = allBlocks[i + 2], ~HasTerm(b)
  PROVE  /\ b \in Blocks /\ nb \in instBlocks
         /\ \/ b = Setup /\ code[b] = <<>> /\ nb = 0
            \/ /\ b \in instBlocks /\ code[b] # <<>>
               /\ LastPc(b) \in InstIds /\ Step(LastPc(b)) = nb
<1> DEFINE E == [pc : InstIds \cup {None}, to : Seq(Blocks \cup {Exit, Ret})]
<1>1. /\ allBlocks \in Seq(Blocks) /\ i \in Nat /\ instBlocks \subseteq InstIds
      /\ code \in [Blocks -> Seq(E)]
  BY DEF IInv, TypeOK
<1> HIDE DEF E
<1>2. /\ Len(allBlocks) \in Nat /\ i < Len(allBlocks) - 1 /\ phase = "br"
      /\ Ascending /\ 0 \in instBlocks /\ Front = Size
      /\ i + 1 \in 1 .. Len(allBlocks) /\ i + 2 \in 2 .. Len(allBlocks)
  BY <1>1 DEF FallThrough, BlockOrderInv, Front
<1>3. /\ InstIds \subseteq Nat /\ \A n \in InstIds : n < Size
      /\ Setup \notin InstIds /\ Setup \in Blocks /\ Size \in Nat
  BY DEF InstIds, Setup, Blocks, Size, IInv, TypeOK
<1>4. nb \in instBlocks /\ b \in Blocks
  BY <1>1, <1>2 DEF Ascending
<1>5. code[b] \in Seq(E)
  BY <1>1, <1>4
<1>6. code[b] # <<>> => /\ Len(code[b]) \in 1 .. Len(code[b])
                        /\ code[b][Len(code[b])].to = <<>>
  BY <1>5 DEF HasTerm
<1>7. CASE i = 0
  <2>1. b = Setup
    BY <1>2, <1>7 DEF Ascending
  <2>2. code[b] = <<>>
    BY <1>1, <1>3, <1>4, <1>6, <2>1 DEF CodeInv, SourceInv
  <2>3. PICK k \in 2 .. Len(allBlocks) : allBlocks[k] = 0
    BY <1>2 DEF Ascending
  <2>4. k = 2 \/ nb < 0
    BY <1>2, <1>7, <2>3 DEF Ascending
  <2>5. nb = 0
    BY <1>1, <1>3, <1>4, <1>7, <2>3, <2>4
  <2> QED BY <1>4, <2>1, <2>2, <2>5
<1>8. CASE i > 0
  <2>1. i + 1 \in 2 .. Len(allBlocks)
    BY <1>1, <1>2, <1>8
  <2>2. b \in instBlocks /\ b < nb
    BY <1>1, <1>2, <2>1 DEF Ascending
  <2>3. code[b] # <<>>
    BY <1>1, <1>2, <1>3, <2>2 DEF CodeInv, BlockInv
  <2>4. LastPc(b) \in InstIds /\ LastPc(b) >= b + Len(code[b]) - 1
    BY <1>4, <1>6, <2>3 DEF CodeInv, SourceInv, LastPc
  <2>5. LastPc(b) # None
    BY <2>4 DEF InstIds, None
  <2>6. /\ Step(LastPc(b)) <= nb
        /\ Step(LastPc(b)) \in instBlocks \/ Step(LastPc(b)) >= Size
    BY <1>2, <1>4, <2>2, <2>3, <2>5 DEF CodeInv, BlockInv
  <2> DEFINE n == LastPc(b)
  <2> DEFINE m == Step(n)
  <2>7. n \in Nat /\ m \in Nat /\ n < m /\ b \in Nat /\ nb \in Nat /\ nb < Size
    <3>1. n \in Nat /\ b \in Nat /\ nb \in Nat /\ nb < Size
      BY <1>1, <1>3, <1>4, <2>2, <2>4
    <3>2. m = n + 1 \/ m = n + 2
      BY DEF Step
    <3> HIDE DEF n, m
    <3> QED BY <3>1, <3>2
  <2>8. b < m /\ m <= nb /\ m \in instBlocks
    <3>1. n >= b
      BY <1>5, <1>6, <2>3, <2>4, <2>7
    <3>2. m <= nb /\ (m \in instBlocks \/ m >= Size)
      BY <2>6
    <3> HIDE DEF n, m
    <3> QED BY <1>3, <2>7, <3>1, <3>2
  <2> HIDE DEF m
  <2>9. PICK j \in 2 .. Len(allBlocks) : allBlocks[j] = m
    BY <1>2, <2>8 DEF Ascending
  <2>10. j > i + 1
    <3>1. CASE j < i + 1
      <4>1. allBlocks[j] < allBlocks[i + 1]
        BY <1>2, <2>1, <2>9, <3>1 DEF Ascending
      <4> QED BY <2>7, <2>8, <2>9, <4>1
    <3>2. CASE j = i + 1
      BY <2>7, <2>8, <2>9, <3>2
    <3> QED BY <1>1, <2>9, <3>1, <3>2
  <2>11. j = i + 2 \/ nb < m
    <3>1. j \in Int /\ j # i + 2 => i + 2 < j
      BY <1>1, <2>10
    <3>2. i + 2 < j => allBlocks[i + 2] < allBlocks[j]
      BY <1>2, <2>9 DEF Ascending
    <3> QED BY <2>9, <3>1, <3>2
  <2>12. m = nb
    BY <2>7, <2>8, <2>9, <2>11
  <2> QED BY <1>4, <2>2, <2>3, <2>4, <2>12 DEF m
<1> QED BY <1>1, <1>7, <1>8

(* The branch that closes it goes where its last instruction goes.         *)
LEMMA FallFlow ==
  ASSUME IInv, BlockOrderInv, CodeInv, FallThrough
  PROVE  CodeInv'
<1> DEFINE E == [pc : InstIds \cup {None}, to : Seq(Blocks \cup {Exit, Ret})]
<1>1. PICK b, nb, e : /\ b = allBlocks[i + 1] /\ nb = allBlocks[i + 2]
                      /\ e = Entry(None, <<nb>>)
  OBVIOUS
<1>2. /\ phase = "br" /\ phase' = "br" /\ UNCHANGED <<insns, instBlocks>>
      /\ HasTerm(b) => code' = code
      /\ ~HasTerm(b) => code' = [code EXCEPT ![b] = Append(@, e)]
  BY <1>1 DEF FallThrough
<1>3. CASE HasTerm(b)
  BY <1>2, <1>3, KeepFlow
<1>4. CASE ~HasTerm(b)
  <2>1. /\ b \in Blocks /\ nb \in instBlocks
        /\ \/ b = Setup /\ code[b] = <<>> /\ nb = 0
           \/ /\ b \in instBlocks /\ code[b] # <<>>
              /\ LastPc(b) \in InstIds /\ Step(LastPc(b)) = nb
    BY <1>1, <1>4, OpenBlock
  <2>2. /\ code \in [Blocks -> Seq(E)] /\ instBlocks \subseteq InstIds
    BY DEF IInv, TypeOK
  <2>3. e.pc = None /\ e.to = <<nb>> /\ e \in E
    BY <1>1, <2>1, <2>2 DEF Entry, Blocks
  <2>4. /\ Size' = Size /\ InstIds' = InstIds /\ Blocks' = Blocks
        /\ Slots' = Slots /\ Front = Size /\ Front' = Size
        /\ phase # "emit" /\ phase' # "emit" /\ instBlocks' = instBlocks
        /\ \A n, t : Step(n)' = Step(n) /\ (GoodTo(n, t)' <=> GoodTo(n, t))
    BY <1>2, SameFlow, SameIsa DEF Front
  <2> HIDE DEF E
  <2>5. /\ \A c \in Blocks : c # b => code'[c] = code[c]
        /\ code'[b] = Append(code[b], e)
        /\ \A c \in Blocks : code[c] \in Seq(E) /\ Len(code[c]) \in Nat
        /\ instBlocks \subseteq Blocks /\ Setup \notin instBlocks
    <3>1. instBlocks \subseteq Blocks /\ Setup \notin instBlocks
      BY <2>2 DEF Blocks, InstIds, Setup
    <3>2. code' = [code EXCEPT ![b] = Append(@, e)]
      BY <1>2, <1>4
    <3>3. \A c \in Blocks : code[c] \in Seq(E)
      BY <2>2
    <3>4. \A c \in Blocks : Len(code[c]) \in Nat
      BY <3>3
    <3> QED BY <2>1, <2>2, <3>1, <3>2, <3>3, <3>4
  <2>6. /\ Len(code'[b]) = Len(code[b]) + 1
        /\ \A k \in 1 .. Len(code[b]) : code'[b][k] = code[b][k]
        /\ code'[b][Len(code[b]) + 1] = e
        /\ code'[b] # <<>>
    BY <2>3, <2>5, <2>1
  <2>7. ASSUME NEW c \in Blocks, NEW k \in 1 .. Len(code'[c])
        PROVE  \/ k \in 1 .. Len(code[c]) /\ code'[c][k] = code[c][k]
               \/ c = b /\ k = Len(code[c]) + 1 /\ code'[c][k] = e
    <3>1. CASE c = b
      BY <2>5, <2>6, <3>1
    <3>2. CASE c # b
      BY <2>5, <3>2
    <3> QED BY <3>1, <3>2
  <2>8. \A c \in Blocks : \A k \in 1 .. Len(code[c]) :
          k \in 1 .. Len(code'[c]) /\ code'[c][k] = code[c][k]
    <3> TAKE c \in Blocks
    <3> TAKE k \in 1 .. Len(code[c])
    <3>1. CASE c = b
      <4>1. Len(code[c]) \in Nat /\ Len(code'[c]) = Len(code[c]) + 1
        BY <2>5, <2>6, <3>1
      <4> QED BY <2>6, <3>1, <4>1
    <3>2. CASE c # b
      BY <2>5, <3>2
    <3> QED BY <3>1, <3>2
  (* What was emitted into the open block are instructions. *)
  <2>9. \A k \in 1 .. Len(code[b]) : code[b][k].pc # None
    <3> SUFFICES ASSUME NEW k \in 1 .. Len(code[b]), code[b][k].pc = None
                 PROVE  FALSE
      OBVIOUS
    <3>1. code[b][k].pc \notin InstIds
      BY DEF InstIds, None
    <3>2. k = Len(code[b]) /\ code[b][k].to # <<>>
      BY <2>1, <3>1 DEF CodeInv, SourceInv
    <3>3. code[b] # <<>>
      BY <2>1, <2>5
    <3> QED BY <1>4, <3>2, <3>3 DEF HasTerm
  <2>10. SourceInv'
    <3> SUFFICES ASSUME NEW c \in Blocks, NEW k \in 1 .. Len(code'[c]),
                        NEW f, f = code'[c][k]
                 PROVE  \/ /\ f.pc \in InstIds /\ f.pc < Size
                           /\ c \in instBlocks /\ f.pc >= c + k - 1
                           /\ GoodTo(f.pc, f.to)
                        \/ /\ f.pc = None /\ k = Len(code'[c]) /\ f.to # <<>>
                           /\ c = Setup => f.to = <<0>>
      BY <2>4 DEF SourceInv
    <3>1. CASE k \in 1 .. Len(code[c]) /\ f = code[c][k]
      <4>1. \/ /\ f.pc \in InstIds /\ f.pc < Size
               /\ c \in instBlocks /\ f.pc >= c + k - 1
               /\ GoodTo(f.pc, f.to)
            \/ /\ f.pc = None /\ k = Len(code[c]) /\ f.to # <<>>
               /\ c = Setup => f.to = <<0>>
        BY <2>4, <3>1 DEF CodeInv, SourceInv
      <4>2. f.pc = None => c # b
        BY <2>9, <3>1
      <4> QED BY <2>5, <4>1, <4>2
    <3>2. CASE c = b /\ k = Len(code[c]) + 1 /\ f = e
      <4>1. c = Setup => nb = 0
        BY <2>1, <2>5, <3>2
      <4>2. k = Len(code'[c])
        BY <2>6, <3>2
      <4>3. f.pc = None /\ f.to = <<nb>>
        BY <2>3, <3>2
      <4>4. f.to # <<>> /\ (c = Setup => f.to = <<0>>)
        BY <4>1, <4>3
      <4> QED BY <4>2, <4>3, <4>4
    <3> QED BY <2>7, <3>1, <3>2
  <2>11. UniqueInv'
    <3> SUFFICES ASSUME NEW c \in Blocks, NEW d \in Blocks,
                        NEW k \in 1 .. Len(code'[c]),
                        NEW l \in 1 .. Len(code'[d]),
                        code'[c][k].pc = code'[d][l].pc,
                        code'[c][k].pc # None
                 PROVE  c = d /\ k = l
      BY <2>4 DEF UniqueInv
    <3>1. /\ k \in 1 .. Len(code[c]) /\ code'[c][k] = code[c][k]
          /\ l \in 1 .. Len(code[d]) /\ code'[d][l] = code[d][l]
      BY <2>3, <2>7
    <3> QED BY <3>1 DEF CodeInv, UniqueInv
  <2>12. CoverInv'
    <3> SUFFICES ASSUME NEW n \in InstIds \ Slots, n < Size
                 PROVE  \E c \in Blocks : \E k \in 1 .. Len(code'[c]) :
                          code'[c][k].pc = n
      BY <2>4 DEF CoverInv
    <3>1. PICK c \in Blocks : \E k \in 1 .. Len(code[c]) : code[c][k].pc = n
      BY <2>4 DEF CodeInv, CoverInv
    <3> QED BY <2>8, <3>1
  <2>13. ChainInv'
    <3> SUFFICES ASSUME NEW c \in instBlocks, NEW k \in 1 .. Len(code'[c]) - 1
                 PROVE  \/ code'[c][k + 1].pc = Step(code'[c][k].pc)
                        \/ /\ code'[c][k + 1].pc = None
                           /\ code'[c][k + 1].to = <<Step(code'[c][k].pc)>>
      BY <1>2, <2>4 DEF ChainInv, Step, At
    <3>0. c \in Blocks /\ Len(code[c]) \in Nat
      BY <2>5
    <3>1. CASE k \in 1 .. Len(code[c]) - 1
      <4>1. /\ code'[c][k] = code[c][k] /\ code'[c][k + 1] = code[c][k + 1]
        BY <2>8, <3>0, <3>1
      <4> QED BY <3>1, <4>1 DEF CodeInv, ChainInv
    <3>2. CASE c = b /\ k = Len(code[c])
      <4>1. k >= 1 /\ code[b] # <<>>
        BY <3>0, <3>2
      <4>2. code'[c][k] = code[c][k] /\ code'[c][k + 1] = e
        BY <2>6, <3>0, <3>2, <4>1
      <4>3. code[c][k].pc = LastPc(b) /\ Step(LastPc(b)) = nb
        BY <2>1, <3>2, <4>1 DEF LastPc
      <4> QED BY <2>3, <4>2, <4>3
    <3>3. k \in 1 .. Len(code[c]) - 1 \/ (c = b /\ k = Len(code[c]))
      <4>1. CASE c = b
        BY <2>6, <3>0, <4>1
      <4>2. CASE c # b
        BY <2>5, <3>0, <4>2
      <4> QED BY <4>1, <4>2
    <3> QED BY <3>1, <3>2, <3>3
  <2>14. BlockInv'
    <3> SUFFICES ASSUME NEW c \in instBlocks
                 PROVE  /\ c < Size => code'[c] # <<>>
                        /\ code'[c] # <<>> =>
                             /\ code'[c][1].pc = c
                             /\ code'[c][Len(code'[c])].pc # None =>
                                  code'[c] = code[c]
      <4>1. \A d \in instBlocks :
              code[d] # <<>> /\ LastPc(d) # None =>
                /\ \A x \in instBlocks : d < x => Step(LastPc(d)) <= x
                /\ Step(LastPc(d)) \in instBlocks \/ Step(LastPc(d)) >= Size
        BY <2>4 DEF CodeInv, BlockInv
      <4> QED BY <1>2, <2>4, <4>1 DEF BlockInv, LastPc, Step, At
    <3>1. /\ c < Size => code[c] # <<>>
          /\ code[c] # <<>> => code[c][1].pc = c
      BY <2>4 DEF CodeInv, BlockInv
    <3>2. CASE c # b
      BY <2>5, <3>1, <3>2
    <3>3. CASE c = b
      <4>1. code[c] # <<>> /\ 1 \in 1 .. Len(code[c])
        BY <2>1, <2>5, <3>3
      <4>2. code'[c][1] = code[c][1] /\ code'[c][Len(code'[c])].pc = None
        BY <2>3, <2>6, <3>3, <4>1
      <4> QED BY <2>6, <3>1, <3>3, <4>1, <4>2
    <3> QED BY <3>2, <3>3
  <2>15. BranchInv'
    <3> SUFFICES ASSUME NEW c \in Blocks, NEW k \in 1 .. Len(code'[c]),
                        code'[c][k].pc = None
                 PROVE  code'[c][k].to[1] \in instBlocks
      BY <2>4 DEF BranchInv
    <3>1. CASE k \in 1 .. Len(code[c]) /\ code'[c][k] = code[c][k]
      BY <3>1 DEF CodeInv, BranchInv
    <3>2. CASE code'[c][k] = e
      BY <2>1, <2>3, <3>2
    <3> QED BY <2>7, <3>1, <3>2
  <2> QED BY <2>10, <2>11, <2>12, <2>13, <2>14, <2>15 DEF CodeInv
<1> QED BY <1>3, <1>4

(* The steps after which nothing has been emitted yet, or nothing will be. *)
LEMMA NoCode ==
  ASSUME \/ Split \/ BlockIter \/ OutOfMemory \/ AssertReturnSite \/ Reject
  PROVE  phase' \notin {"emit", "br", "done"}
BY DEF Split, StartSplit, SplitIter, SplitCrash, SplitDone, BlockIter,
       OutOfMemory, AssertReturnSite, Reject, RejectEmpty, RejectPrecheck,
       RejectOpcode, RejectLddw, RejectJa, RejectJcond, RejectLocalCall,
       RejectExtCall, RejectModule, Fail

LEMMA EmitPhase == EmitStep => phase = "emit" /\ phase' = "emit" /\ Plain' = Plain
BY SameFlow DEF EmitStep, EmitStraight, EmitLddw, EmitJa, EmitJcond, EmitLocalCall,
       EmitExtCall, EmitExit, Reaches, ReachesCall, Emitting, Emit

LEMMA StutterFlow ==
  ASSUME CodeInv, UNCHANGED vars
  PROVE  CodeInv'
<1>1. UNCHANGED <<phase, insns, i, marks, instBlocks, currBB, code>>
  BY DEF vars
<1>2. /\ Blocks' = Blocks /\ InstIds' = InstIds /\ Slots' = Slots
      /\ Front' = Front /\ Size' = Size
      /\ \A n, t : Step(n)' = Step(n) /\ (GoodTo(n, t)' <=> GoodTo(n, t))
  BY <1>1, SameFlow, SameIsa DEF Front
<1>3. SourceInv'
  BY <1>1, <1>2 DEF CodeInv, SourceInv
<1>4. UniqueInv' /\ CoverInv' /\ BranchInv'
  BY <1>1, <1>2 DEF CodeInv, UniqueInv, CoverInv, BranchInv
<1>5. ChainInv'
  BY <1>1, <1>2 DEF CodeInv, ChainInv, Step, At
<1>6. BlockInv'
  BY <1>1, <1>2 DEF CodeInv, BlockInv, LastPc, Step, At
<1> QED BY <1>3, <1>4, <1>5, <1>6 DEF CodeInv

LEMMA WStep == IInv /\ RInv /\ WInv /\ [Next]_vars => WInv'
<1> SUFFICES ASSUME IInv, RInv, WInv, [Next]_vars PROVE WInv'
  OBVIOUS
<1>1. MarksInv' /\ BlockOrderInv'
  BY MarksStep, OrderStep DEF WInv
<1>2. Plain' = Plain
  BY SameFlow, SameProgramStep
<1>3. MarksInv /\ BlockOrderInv
      /\ (phase \in {"emit", "br", "done"} /\ Plain => CodeInv)
      /\ (phase = "done" => ModuleOk)
  BY DEF WInv
<1>4. CASE \/ Split \/ BlockIter \/ OutOfMemory \/ AssertReturnSite \/ Reject
  <2>1. phase' \notin {"emit", "br", "done"}
    BY <1>4, NoCode
  <2> QED BY <1>1, <2>1 DEF WInv
<1>5. CASE BlocksDone
  <2>1. phase' = "emit" /\ instBlocks' = instBlocks
    BY <1>5 DEF BlocksDone
  <2>2. 0 \in instBlocks
    BY <1>1, <2>1 DEF BlockOrderInv
  <2>3. CodeInv'
    BY <1>5, <2>2, BeginFlow
  <2> QED BY <1>1, <2>1, <2>3 DEF WInv
<1>6. CASE EmitStep
  <2>1. phase = "emit" /\ phase' = "emit"
    BY <1>6, EmitPhase
  <2>2. Plain => CodeInv'
    BY <1>3, <1>6, <2>1, EmitStepFlow
  <2> QED BY <1>1, <1>2, <2>1, <2>2 DEF WInv
<1>7. CASE EmitDone
  <2>1. phase = "emit" /\ phase' = "br"
    BY <1>7 DEF EmitDone
  <2>2. Plain => CodeInv'
    BY <1>3, <1>7, <2>1, EndFlow
  <2> QED BY <1>1, <1>2, <2>1, <2>2 DEF WInv
<1>8. CASE FallThrough
  <2>1. phase = "br" /\ phase' = "br"
    BY <1>8 DEF FallThrough
  <2>2. Plain => CodeInv'
    BY <1>3, <1>8, <2>1, FallFlow
  <2> QED BY <1>1, <1>2, <2>1, <2>2 DEF WInv
<1>9. CASE Verify
  <2>1. /\ phase = "br" /\ phase' = "done" /\ ModuleOk
        /\ UNCHANGED <<insns, instBlocks, code>>
    BY <1>9 DEF Verify
  <2>2. Plain => CodeInv'
    BY <1>3, <2>1, KeepFlow
  <2>3. ModuleOk'
    BY <2>1 DEF ModuleOk, WellFormedBlock, HasTerm
  <2> QED BY <1>1, <1>2, <2>1, <2>2, <2>3 DEF WInv
<1>10. CASE UNCHANGED vars
  <2>1. phase' = phase /\ instBlocks' = instBlocks /\ code' = code
    BY <1>10 DEF vars
  <2>2. phase \in {"emit", "br", "done"} /\ Plain => CodeInv'
    BY <1>3, <1>10, StutterFlow
  <2>3. ModuleOk' = ModuleOk
    BY <2>1 DEF ModuleOk, WellFormedBlock, HasTerm
  <2> QED BY <1>1, <1>2, <1>3, <2>1, <2>2, <2>3 DEF WInv
<1> QED BY <1>4, <1>5, <1>6, <1>7, <1>8, <1>9, <1>10
        DEF Next, Create, Finish, Stopped

LEMMA WInit == Init => WInv
BY DEF Init, WInv, MarksInv, BlockOrderInv

LEMMA WInvariance == Spec => []WInv
<1>1. Spec => []IInv
  BY Invariance
<1>2. Spec => []RInv
  BY RInvariance
<1> QED BY <1>1, <1>2, WInit, WStep, PTL DEF Spec

-----------------------------------------------------------------------------
(* What a returned module does after the k-th entry of a block.            *)
LEMMA AfterEntry ==
  ASSUME IInv, CodeInv, ModuleOk, phase = "done",
         NEW b \in instBlocks, NEW k \in 1 .. Len(code[b]),
         NEW n \in InstIds, code[b][k].pc = n
  PROVE  After(b, k) = IsaNext(n)
<1> DEFINE E == [pc : InstIds \cup {None}, to : Seq(Blocks \cup {Exit, Ret})]
<1> DEFINE last == code[b][Len(code[b])]
<1>0. insns \in Seq(Insn) /\ code \in [Blocks -> Seq(E)]
      /\ instBlocks \subseteq InstIds
  BY DEF IInv, TypeOK
<1> HIDE DEF E
<1>1. code \in [Blocks -> Seq(E)] /\ instBlocks \subseteq InstIds /\ Size \in Nat
  BY <1>0 DEF Size
<1>2. InstIds \subseteq Nat /\ InstIds \subseteq Blocks /\ None \notin Nat
      /\ \A c \in InstIds : c < Size
  BY <1>1 DEF InstIds, Blocks, None
<1>3. b \in Blocks /\ code[b] \in Seq(E) /\ Len(code[b]) \in Nat
  <2>1. b \in Blocks /\ code[b] \in Seq(E)
    BY <1>1, <1>2
  <2> QED BY <2>1
<1>4. \A c \in instBlocks \cup {Exit, Ret} : EntryOf(c) = c
  BY <1>1, <1>2 DEF CodeInv, BlockInv, Front, EntryOf
<1>5. GoodTo(n, code[b][k].to)
  BY <1>2, <1>3 DEF CodeInv, SourceInv
<1>6. CASE k < Len(code[b])
  <2>1. k \in 1 .. Len(code[b]) - 1 /\ k + 1 \in 1 .. Len(code[b])
    BY <1>3, <1>6
  <2>2. code[b][k].to = <<>>
    BY <2>1 DEF ModuleOk, WellFormedBlock
  <2>3. IsaNext(n) = <<Step(n)>>
    BY <1>5, <2>2 DEF GoodTo
  <2>4. Step(n) \in Nat
    BY <1>2 DEF Step
  <2>5. \/ code[b][k + 1].pc = Step(n)
        \/ code[b][k + 1].pc = None /\ code[b][k + 1].to = <<Step(n)>>
    BY <2>1 DEF CodeInv, ChainInv
  <2>6. CASE code[b][k + 1].pc = Step(n)
    BY <1>2, <1>6, <2>3, <2>4, <2>6 DEF After
  <2>7. CASE code[b][k + 1].pc = None /\ code[b][k + 1].to = <<Step(n)>>
    <3>1. k + 1 = Len(code[b]) /\ code[b][k + 1].to[1] \in instBlocks
      BY <1>2, <1>3, <2>1, <2>7 DEF CodeInv, SourceInv, BranchInv
    <3>2. last.to = <<Step(n)>> /\ last.to[1] \in instBlocks
      BY <2>7, <3>1
    <3>3. EntryOf(Step(n)) = Step(n)
      BY <1>4, <3>2
    <3>4. After(b, k) = [j \in DOMAIN last.to |-> EntryOf(last.to[j])]
      BY <2>7 DEF After
    <3>5. After(b, k) = <<EntryOf(Step(n))>>
      BY <3>2, <3>4
    <3> QED BY <2>3, <3>3, <3>5
  <2> QED BY <2>5, <2>6, <2>7
<1>7. CASE k = Len(code[b])
  <2> DEFINE to == code[b][k].to
  <2>1. to # <<>>
    BY <1>7 DEF ModuleOk, WellFormedBlock, HasTerm
  <2>2. to = IsaNext(n) /\ \A j \in DOMAIN to : to[j] \in instBlocks \cup {Exit, Ret}
    BY <1>5, <2>1 DEF GoodTo
  <2>3. to \in Seq(Blocks \cup {Exit, Ret})
    <3>1. code[b][k] \in E
      BY <1>3
    <3> QED BY <3>1 DEF E
  <2>4. After(b, k) = [j \in DOMAIN to |-> EntryOf(to[j])]
    BY <1>3, <1>7 DEF After
  <2> HIDE DEF to
  <2>5. \A j \in DOMAIN to : EntryOf(to[j]) = to[j]
    BY <1>4, <2>2
  <2>6. [j \in DOMAIN to |-> EntryOf(to[j])] = [j \in DOMAIN to |-> to[j]]
    BY <2>5
  <2>7. [j \in DOMAIN to |-> to[j]] = to
    BY <2>3
  <2> QED BY <2>2, <2>4, <2>6, <2>7
<1> QED BY <1>3, <1>6, <1>7

(* A returned module begins with instruction 0.                            *)
LEMMA Begins ==
  ASSUME IInv, BlockOrderInv, CodeInv, ModuleOk, phase = "done"
  PROVE  After(Setup, 0) = <<0>>
<1> DEFINE E == [pc : InstIds \cup {None}, to : Seq(Blocks \cup {Exit, Ret})]
<1>0. insns \in Seq(Insn) /\ code \in [Blocks -> Seq(E)]
      /\ instBlocks \subseteq InstIds
  BY DEF IInv, TypeOK
<1> HIDE DEF E
<1>1. /\ code \in [Blocks -> Seq(E)] /\ instBlocks \subseteq InstIds
      /\ 0 \in instBlocks /\ Size \in Nat
  BY <1>0 DEF Size, BlockOrderInv
<1>2. /\ Setup \in Blocks /\ Setup \notin instBlocks
      /\ \A c \in InstIds : c < Size
  BY <1>1 DEF InstIds, Blocks, Setup
<1>3. code[Setup] \in Seq(E) /\ code[Setup] # <<>>
  BY <1>1, <1>2 DEF ModuleOk, WellFormedBlock, HasTerm
<1> HIDE DEF E
<1>4. 1 \in 1 .. Len(code[Setup]) /\ Len(code[Setup]) \in Nat
  BY <1>3
<1>5. Len(code[Setup]) = 1 /\ code[Setup][1].pc = None
      /\ code[Setup][1].to = <<0>>
  BY <1>2, <1>4 DEF CodeInv, SourceInv
<1>6. EntryOf(0) = 0
  BY <1>1, <1>2 DEF CodeInv, BlockInv, Front, EntryOf
<1>7. After(Setup, 0) = [j \in DOMAIN <<0>> |-> EntryOf(<<0>>[j])]
  BY <1>5 DEF After
<1>8. After(Setup, 0) = <<EntryOf(0)>>
  BY <1>7
<1> QED BY <1>6, <1>8

(* Every instruction of a returned module has one place.                   *)
LEMMA OnePlace ==
  ASSUME IInv, CodeInv, phase = "done", NEW n \in InstIds \ Slots
  PROVE  \E b \in instBlocks : \E k \in 1 .. Len(code[b]) :
           code[b][k].pc = n /\ Places(n) = {<<b, k>>}
<1> DEFINE E == [pc : InstIds \cup {None}, to : Seq(Blocks \cup {Exit, Ret})]
<1>0. insns \in Seq(Insn) /\ code \in [Blocks -> Seq(E)]
      /\ instBlocks \subseteq InstIds
  BY DEF IInv, TypeOK
<1> HIDE DEF E
<1>1. /\ code \in [Blocks -> Seq(E)] /\ instBlocks \subseteq InstIds
      /\ Size \in Nat
  BY <1>0 DEF Size
<1> HIDE DEF E
<1>2. InstIds \subseteq Nat /\ None \notin InstIds
      /\ \A c \in InstIds : c < Size
  BY <1>1 DEF InstIds, None
<1>3. PICK b \in Blocks : \E k \in 1 .. Len(code[b]) : code[b][k].pc = n
  BY <1>2 DEF CodeInv, CoverInv, Front
<1>4. PICK k \in 1 .. Len(code[b]) : code[b][k].pc = n
  BY <1>3
<1>5. b \in instBlocks /\ n >= b + k - 1
  BY <1>2, <1>4 DEF CodeInv, SourceInv
<1>6. Len(code[b]) \in Nat
  BY <1>1
<1>7. k \in 1 .. Size + 1 /\ k <= Len(code[b])
  <2>1. /\ b \in Nat /\ n \in Nat /\ n < Size /\ Size \in Nat /\ k \in Nat
        /\ k >= 1 /\ k <= Len(code[b])
    BY <1>1, <1>2, <1>5, <1>6
  <2> QED BY <1>5, <2>1
<1>8. <<b, k>> \in Places(n)
  BY <1>4, <1>7 DEF Places
<1>9. ASSUME NEW p \in Places(n) PROVE p = <<b, k>>
  <2>1. /\ p \in Blocks \X (1 .. Size + 1) /\ p[2] <= Len(code[p[1]])
        /\ code[p[1]][p[2]].pc = n
    BY DEF Places
  <2>2. PICK c \in Blocks, l \in 1 .. Size + 1 : p = <<c, l>>
    BY <2>1
  <2>3. Len(code[c]) \in Nat
    BY <1>1
  <2>4. l \in 1 .. Len(code[c]) /\ code[c][l].pc = n
    BY <1>1, <2>1, <2>2, <2>3
  <2>5. c = b /\ l = k
    BY <1>2, <1>4, <2>4 DEF CodeInv, UniqueInv
  <2> QED BY <2>2, <2>5
<1>10. Places(n) = {<<b, k>>}
  BY <1>8, <1>9
<1> QED BY <1>4, <1>5, <1>10

(* A module that is returned runs the program it was given, whatever its   *)
(* length and the width of the block ids: CodeGen!FlowPreserved.           *)
THEOREM FlowIsPreserved == Spec => []FlowPreserved
<1>1. IInv /\ WInv => FlowPreserved
  <2> SUFFICES ASSUME IInv, WInv, phase = "done", Plain
               PROVE  /\ \A b \in instBlocks : code[b][1].pc = b
                      /\ After(Setup, 0) = <<0>>
                      /\ \A n \in InstIds \ Slots :
                           /\ \E p \in Places(n) : Places(n) = {p}
                           /\ \A p \in Places(n) :
                                After(p[1], p[2]) = IsaNext(n)
    BY DEF FlowPreserved
  <2>1. CodeInv /\ ModuleOk /\ BlockOrderInv
    BY DEF WInv
  <2>2. \A b \in instBlocks : b < Size /\ code[b][1].pc = b
    BY <2>1 DEF IInv, TypeOK, InstIds, Size, CodeInv, BlockInv, Front
  <2>3. ASSUME NEW n \in InstIds \ Slots
        PROVE  /\ \E p \in Places(n) : Places(n) = {p}
               /\ \A p \in Places(n) : After(p[1], p[2]) = IsaNext(n)
    <3>1. PICK b \in instBlocks : \E k \in 1 .. Len(code[b]) :
             code[b][k].pc = n /\ Places(n) = {<<b, k>>}
      BY <2>1, OnePlace
    <3>2. PICK k \in 1 .. Len(code[b]) :
             code[b][k].pc = n /\ Places(n) = {<<b, k>>}
      BY <3>1
    <3>3. After(b, k) = IsaNext(n)
      BY <2>1, <3>2, AfterEntry
    <3> QED BY <3>2, <3>3
  <2> QED BY <2>1, <2>2, <2>3, Begins
<1>2. Spec => []IInv /\ []WInv
  BY Invariance, WInvariance, PTL
<1> QED BY <1>1, <1>2, PTL

-----------------------------------------------------------------------------
(***************************************************************************)
(* The functions that have been generated, when they run.                  *)
(***************************************************************************)
mvars == <<vars, run>>

(* The blocks a function can run in, all of them closed in a module that   *)
(* is returned.                                                            *)
CodeBlocks == {Setup} \cup instBlocks

(* What an emitted instruction that ends its block leads to: blocks that   *)
(* exist, as many as the branch takes; a local call has its return site.   *)
GoodEnd(n, to) ==
  \/ n = None /\ \E x \in instBlocks : to = <<x>>
  \/ n \in InstIds /\ At(n).op = "ja" /\ \E x \in instBlocks : to = <<x>>
  \/ n \in InstIds /\ At(n).op = "jcond"
     /\ \E x, y \in instBlocks : to = <<x, y>>
  \/ n \in InstIds /\ IsLocalCall(n) /\ n + 1 \in localFuncRetBlks
     /\ \E x \in instBlocks : to = <<x>>
  \/ n \in InstIds /\ At(n).op \in {"call", "callx"} /\ ~IsLocalCall(n)
     /\ to = <<Exit>>
  \/ n \in InstIds /\ At(n).op = "exit" /\ to = <<Exit, Ret>>

GoodEntry(e) == e.to = <<>> \/ GoodEnd(e.pc, e.to)

(* Emission: after setupBlock, allBlocks lists blocks of instructions, and *)
(* every emitted instruction leads somewhere.                              *)
OrderInv ==
  /\ phase = "blocks" => Len(allBlocks) >= 1
  /\ \A k \in 2 .. Len(allBlocks) : allBlocks[k] \in instBlocks
EntriesInv ==
  \A b \in Blocks : \A k \in 1 .. Len(code[b]) : GoodEntry(code[b][k])

FInv == OrderInv /\ EntriesInv

(* Running: nothing runs before the module is returned, and then control   *)
(* is at an entry of a closed block and the call stack within its bounds.  *)
RunInv ==
  /\ phase # "done" => blk = Setup /\ pos = 1 /\ rets = <<>>
  /\ phase = "done" => ModuleOk
  /\ blk \in CodeBlocks \cup {Halt, Wild}
  /\ phase = "done" /\ blk \in CodeBlocks => pos \in 1 .. Len(code[blk])
  /\ rets \in Seq(retDests) /\ Len(rets) <= CALL_STACK_SIZE
  /\ blk = Wild => Len(rets) = CALL_STACK_SIZE

MInv == IInv /\ RInv /\ FInv /\ RunInv

-----------------------------------------------------------------------------
LEMMA FInit == Init => FInv
BY DEF Init, FInv, OrderInv, EntriesInv, Blocks, InstIds, Size

(* Blocks and return sites are only added, so that what leads somewhere    *)
(* goes on doing so.                                                       *)
LEMMA GoodEntryKept ==
  ASSUME NEW e, GoodEntry(e), insns' = insns, instBlocks \subseteq instBlocks',
         localFuncRetBlks \subseteq localFuncRetBlks'
  PROVE  e.to = <<>> \/ GoodEnd(e.pc, e.to)'
BY DEF GoodEntry, GoodEnd, InstIds, Size, At, IsLocalCall

(* Emitting an instruction that stays in its block or leads somewhere.     *)
LEMMA FEmit ==
  ASSUME IInv, FInv, Emitting, ~NoBlock,
         NEW to \in Seq(Blocks \cup {Exit, Ret}), NEW width,
         to = <<>> \/ GoodEnd(i, to),
         Emit(to, width)
  PROVE  FInv'
<1> DEFINE E == [pc : InstIds \cup {None}, to : Seq(Blocks \cup {Exit, Ret})]
<1> DEFINE e == Entry(i, to)
<1>1. /\ code \in [Blocks -> Seq(E)] /\ i \in InstIds /\ Here \in Blocks
      /\ phase = "emit"
  <2>1. /\ insns \in Seq(Insn) /\ i \in Nat /\ currBB \in Blocks
        /\ code \in [Blocks -> Seq(E)]
    BY DEF IInv, TypeOK
  <2> HIDE DEF E, e
  <2>2. phase = "emit" /\ i < Len(insns) /\ Len(insns) \in Nat
    BY <2>1 DEF Emitting, Size
  <2>3. i \in InstIds
    BY <2>1, <2>2 DEF InstIds, Size
  <2> QED BY <2>1, <2>2, <2>3 DEF Here, Blocks
<1>2. e \in E /\ e.pc = i /\ e.to = to
  BY <1>1 DEF Entry
<1>3. /\ UNCHANGED <<insns, phase, instBlocks, allBlocks, localFuncRetBlks>>
      /\ Blocks' = Blocks
      /\ code' = [code EXCEPT ![Here] = Append(@, e)]
  BY SameProgram DEF Emit
<1> HIDE DEF E, e
<1>4. OrderInv'
  BY <1>3 DEF FInv, OrderInv
<1>5. ASSUME NEW b \in Blocks, NEW k \in 1 .. Len(code'[b])
      PROVE  GoodEntry(code'[b][k])
  <2>0. code[b] \in Seq(E)
    BY <1>1
  <2>1. CASE b # Here
    BY <1>1, <1>3, <2>1 DEF FInv, EntriesInv
  <2>2. CASE b = Here
    <3>1. code'[b] = Append(code[b], e)
      BY <1>1, <1>3, <2>2
    <3>2. Len(code[b]) \in Nat /\ Len(code'[b]) = Len(code[b]) + 1
      BY <1>2, <2>0, <3>1
    <3>3. CASE k \in 1 .. Len(code[b])
      <4>1. code'[b][k] = code[b][k]
        BY <1>2, <2>0, <3>1, <3>3
      <4> QED BY <3>3, <4>1 DEF FInv, EntriesInv
    <3>4. CASE k = Len(code[b]) + 1
      <4>1. code'[b][k] = e
        BY <1>2, <2>0, <3>1, <3>4
      <4> QED BY <1>2, <4>1 DEF GoodEntry
    <3> QED BY <3>2, <3>3, <3>4
  <2> QED BY <2>1, <2>2
<1>6. EntriesInv'
  <2> SUFFICES ASSUME NEW b \in Blocks, NEW k \in 1 .. Len(code'[b])
               PROVE  GoodEntry(code[b][k])'
    BY <1>3 DEF EntriesInv
  <2>1. PICK f : f = code'[b][k]
    OBVIOUS
  <2>2. GoodEntry(f)
    BY <1>5, <2>1
  <2>3. f.to = <<>> \/ GoodEnd(f.pc, f.to)'
    BY <1>3, <2>2, GoodEntryKept
  <2> QED BY <2>1, <2>3 DEF GoodEntry
<1> QED BY <1>4, <1>6 DEF FInv

(* What each kind of instruction leads to.                                 *)
LEMMA FEmitStep == IInv /\ RInv /\ FInv /\ EmitStep => FInv'
<1> SUFFICES ASSUME IInv, RInv, FInv, EmitStep PROVE FInv'
  OBVIOUS
<1>1. /\ InstIds \subseteq Blocks /\ instBlocks \subseteq InstIds
      /\ i \in Nat /\ Size \in Nat
  BY DEF IInv, TypeOK, InstIds, Blocks, Size
<1>2. <<>> \in Seq(Blocks \cup {Exit, Ret})
  OBVIOUS
<1>3. \A op : Reaches(op) => /\ Emitting /\ ~NoBlock
                             /\ i \in InstIds /\ At(i).op = op
  BY <1>1 DEF Reaches, Emitting, Cur, InstIds
<1>4. CASE EmitStraight
  BY <1>2, <1>3, <1>4, FEmit DEF EmitStraight
<1>5. CASE EmitLddw
  BY <1>2, <1>3, <1>5, FEmit DEF EmitLddw
<1>6. CASE EmitJa
  <2>1. <<JmpDstBlock>> \in Seq(Blocks \cup {Exit, Ret})
    BY <1>1, <1>6 DEF EmitJa
  <2>2. GoodEnd(i, <<JmpDstBlock>>)
    BY <1>3, <1>6 DEF EmitJa, GoodEnd
  <2> QED BY <1>3, <1>6, <2>1, <2>2, FEmit DEF EmitJa
<1>7. CASE EmitJcond
  <2>1. <<JmpDstBlock, NextBlock>> \in Seq(Blocks \cup {Exit, Ret})
    BY <1>1, <1>7 DEF EmitJcond
  <2>2. GoodEnd(i, <<JmpDstBlock, NextBlock>>)
    BY <1>3, <1>7 DEF EmitJcond, GoodEnd
  <2> QED BY <1>3, <1>7, <2>1, <2>2, FEmit DEF EmitJcond
<1>8. CASE EmitLocalCall
  <2>0. /\ Emitting /\ ~NoBlock /\ i \in InstIds /\ IsLocalCall(i)
        /\ NextBlock = i + 1
    <3>1. /\ Emitting /\ ~NoBlock /\ i \in InstIds
          /\ At(i).op \in {"call", "callx"} /\ At(i).src = 1
      BY <1>3, <1>8 DEF EmitLocalCall, ReachesCall, Cur
    <3>2. i + 1 <= Size
      BY <1>1, <3>1 DEF InstIds
    <3> QED BY <3>1, <3>2, NoWrap DEF IsLocalCall
  <2>1. <<CallDstBlock>> \in Seq(Blocks \cup {Exit, Ret})
    BY <1>1, <1>8 DEF EmitLocalCall
  <2>2. GoodEnd(i, <<CallDstBlock>>)
    BY <1>8, <2>0 DEF EmitLocalCall, GoodEnd
  <2> QED BY <1>8, <2>0, <2>1, <2>2, FEmit DEF EmitLocalCall
<1>9. CASE EmitExtCall
  <2> DEFINE to == IF Cur.imm = 12 THEN <<Exit>> ELSE <<>>
  <2>0. /\ Emitting /\ ~NoBlock /\ i \in InstIds
        /\ At(i).op \in {"call", "callx"} /\ ~IsLocalCall(i)
    BY <1>3, <1>9 DEF EmitExtCall, ReachesCall, IsLocalCall, Cur
  <2>1. to \in Seq(Blocks \cup {Exit, Ret})
    <3>1. <<Exit>> \in Seq(Blocks \cup {Exit, Ret})
      OBVIOUS
    <3> QED BY <1>2, <3>1
  <2>2. to = <<>> \/ GoodEnd(i, to)
    <3>1. GoodEnd(i, <<Exit>>)
      BY <2>0 DEF GoodEnd
    <3> QED BY <3>1
  <2> QED BY <1>9, <2>0, <2>1, <2>2, FEmit DEF EmitExtCall
<1>10. CASE EmitExit
  <2>1. <<Exit, Ret>> \in Seq(Blocks \cup {Exit, Ret})
    OBVIOUS
  <2>2. GoodEnd(i, <<Exit, Ret>>)
    BY <1>3, <1>10 DEF EmitExit, GoodEnd
  <2> QED BY <1>3, <1>10, <2>1, <2>2, FEmit DEF EmitExit
<1> QED BY <1>4, <1>5, <1>6, <1>7, <1>8, <1>9, <1>10 DEF EmitStep

(* Steps that emit nothing and create no block.                            *)
LEMMA FKept ==
  ASSUME FInv, phase' # "blocks",
         UNCHANGED <<insns, instBlocks, allBlocks, localFuncRetBlks, code>>
  PROVE  FInv'
<1>1. OrderInv'
  BY DEF FInv, OrderInv
<1>2. EntriesInv'
  <2> SUFFICES ASSUME NEW b \in Blocks, NEW k \in 1 .. Len(code[b])
               PROVE  GoodEntry(code[b][k])'
    BY DEF EntriesInv, Blocks, InstIds, Size
  <2>1. GoodEntry(code[b][k])
    BY DEF FInv, EntriesInv
  <2> QED BY <2>1, GoodEntryKept DEF GoodEntry
<1> QED BY <1>1, <1>2 DEF FInv

LEMMA FSplit == IInv /\ FInv /\ Split => FInv'
<1> SUFFICES ASSUME IInv, FInv, Split PROVE FInv'
  OBVIOUS
<1>1. CASE SplitDone
  <2>1. /\ UNCHANGED <<insns, instBlocks, localFuncRetBlks, code>>
        /\ allBlocks' = <<Setup>>
    BY <1>1 DEF SplitDone
  <2>2. OrderInv'
    BY <2>1 DEF OrderInv
  <2>3. EntriesInv'
    <3> SUFFICES ASSUME NEW b \in Blocks, NEW k \in 1 .. Len(code[b])
                 PROVE  GoodEntry(code[b][k])'
      BY <2>1 DEF EntriesInv, Blocks, InstIds, Size
    <3>1. GoodEntry(code[b][k])
      BY DEF FInv, EntriesInv
    <3> QED BY <2>1, <3>1, GoodEntryKept DEF GoodEntry
  <2> QED BY <2>2, <2>3 DEF FInv
<1>2. CASE StartSplit \/ SplitIter \/ SplitCrash
  BY <1>2, FKept DEF StartSplit, SplitIter, SplitCrash
<1> QED BY <1>1, <1>2 DEF Split

(* Nothing has been emitted while blocks are created.                      *)
LEMMA FCreate == IInv /\ FInv /\ Create => FInv'
<1> SUFFICES ASSUME IInv, FInv, Create PROVE FInv'
  OBVIOUS
<1>1. CASE BlockIter
  <2>1. /\ phase = "blocks" /\ phase' = "blocks" /\ insns' = insns
        /\ code' = code /\ Blocks' = Blocks
    BY <1>1, SameProgram DEF BlockIter
  <2>2. EntriesInv'
    BY <2>1 DEF IInv, SplitInv, EntriesInv
  <2>3. OrderInv'
    <3>1. allBlocks \in Seq(Blocks) /\ Len(allBlocks) \in Nat
          /\ Len(allBlocks) >= 1
      BY <2>1 DEF IInv, TypeOK, FInv, OrderInv
    <3>2. CASE i \in marks
      <4>1. /\ allBlocks' = Append(allBlocks, i)
            /\ instBlocks' = instBlocks \cup {i}
        BY <1>1, <3>2 DEF BlockIter
      <4>2. Len(allBlocks') = Len(allBlocks) + 1
        BY <3>1, <4>1
      <4>3. ASSUME NEW k \in 2 .. Len(allBlocks')
            PROVE  allBlocks'[k] \in instBlocks'
        <5>1. CASE k = Len(allBlocks) + 1
          BY <3>1, <4>1, <5>1
        <5>2. CASE k \in 2 .. Len(allBlocks)
          BY <3>1, <4>1, <5>2 DEF FInv, OrderInv
        <5> QED BY <3>1, <4>2, <5>1, <5>2
      <4> QED BY <3>1, <4>2, <4>3 DEF OrderInv
    <3>3. CASE i \notin marks
      BY <1>1, <3>3 DEF BlockIter, FInv, OrderInv
    <3> QED BY <3>2, <3>3
  <2> QED BY <2>2, <2>3 DEF FInv
<1>2. CASE OutOfMemory \/ BlocksDone
  BY <1>2, FKept DEF OutOfMemory, BlocksDone
<1> QED BY <1>1, <1>2 DEF Create

(* A block that is open leads to the next one of allBlocks.                *)
LEMMA FFinish == IInv /\ FInv /\ Finish => FInv'
<1> SUFFICES ASSUME IInv, FInv, Finish PROVE FInv'
  OBVIOUS
<1>1. CASE EmitDone \/ Verify
  BY <1>1, FKept DEF EmitDone, Verify
<1>2. CASE FallThrough
  <2> DEFINE E == [pc : InstIds \cup {None}, to : Seq(Blocks \cup {Exit, Ret})]
  <2> DEFINE c == allBlocks[i + 1]
  <2> DEFINE e == Entry(None, <<allBlocks[i + 2]>>)
  <2>1. /\ allBlocks \in Seq(Blocks) /\ i \in Nat /\ Len(allBlocks) \in Nat
        /\ i < Len(allBlocks) - 1 /\ code \in [Blocks -> Seq(E)]
    <3>1. allBlocks \in Seq(Blocks) /\ i \in Nat /\ code \in [Blocks -> Seq(E)]
      BY DEF IInv, TypeOK
    <3> HIDE DEF E, c, e
    <3> QED BY <1>2, <3>1 DEF FallThrough
  <2>2. /\ i + 1 \in 1 .. Len(allBlocks) /\ i + 2 \in 2 .. Len(allBlocks)
        /\ c \in Blocks
    BY <2>1
  <2>3. allBlocks[i + 2] \in instBlocks
    BY <2>2 DEF FInv, OrderInv
  <2>4. /\ e.pc = None /\ e.to = <<allBlocks[i + 2]>>
        /\ e \in E
    BY <2>1, <2>2 DEF Entry
  <2>5. /\ UNCHANGED <<phase, insns, instBlocks, allBlocks, localFuncRetBlks>>
        /\ Blocks' = Blocks
        /\ code' = code \/ code' = [code EXCEPT ![c] = Append(@, e)]
    BY <1>2, SameProgram DEF FallThrough
  <2>6. GoodEntry(e)
    BY <2>3, <2>4 DEF GoodEntry, GoodEnd
  <2> HIDE DEF E, c, e
  <2>7. OrderInv'
    BY <2>5 DEF FInv, OrderInv
  <2>8. ASSUME NEW b \in Blocks, NEW k \in 1 .. Len(code'[b])
        PROVE  GoodEntry(code'[b][k])
    <3>0. code[b] \in Seq(E)
      BY <2>1
    <3>1. CASE code'[b] = code[b]
      BY <3>1 DEF FInv, EntriesInv
    <3>2. CASE code'[b] = Append(code[b], e)
      <4>1. Len(code[b]) \in Nat /\ Len(code'[b]) = Len(code[b]) + 1
        BY <2>4, <3>0, <3>2
      <4>2. CASE k \in 1 .. Len(code[b])
        <5>1. code'[b][k] = code[b][k]
          BY <2>4, <3>0, <3>2, <4>2
        <5> QED BY <4>2, <5>1 DEF FInv, EntriesInv
      <4>3. CASE k = Len(code[b]) + 1
        <5>1. code'[b][k] = e
          BY <2>4, <3>0, <3>2, <4>3
        <5> QED BY <2>6, <5>1
      <4> QED BY <4>1, <4>2, <4>3
    <3>3. code'[b] = code[b] \/ code'[b] = Append(code[b], e)
      BY <2>1, <2>5
    <3> QED BY <3>1, <3>2, <3>3
  <2>9. EntriesInv'
    BY <2>5, <2>8 DEF EntriesInv, GoodEntry, GoodEnd, InstIds, Size, At,
                      IsLocalCall
  <2> QED BY <2>7, <2>9 DEF FInv
<1> QED BY <1>1, <1>2 DEF Finish

LEMMA FStep == IInv /\ RInv /\ FInv /\ [Next]_vars => FInv'
<1> SUFFICES ASSUME IInv, RInv, FInv, [Next]_vars PROVE FInv'
  OBVIOUS
<1>1. CASE Reject
  <2>1. \E x : Fail(x)
    BY <1>1 DEF Reject, RejectEmpty, RejectPrecheck, RejectOpcode, RejectLddw,
         RejectJa, RejectJcond, RejectLocalCall, RejectExtCall, RejectModule
  <2> QED BY <2>1, FKept DEF Fail
<1>2. CASE AssertReturnSite
  BY <1>2, FKept DEF AssertReturnSite
<1>3. CASE UNCHANGED vars
  <2>1. UNCHANGED <<phase, insns, instBlocks, allBlocks, localFuncRetBlks,
                    code>>
    BY <1>3 DEF vars
  <2>2. EntriesInv'
    BY <2>1 DEF FInv, EntriesInv, GoodEntry, GoodEnd, Blocks, InstIds, Size,
                At, IsLocalCall
  <2> QED BY <2>1, <2>2 DEF FInv, OrderInv
<1> QED
  BY <1>1, <1>2, <1>3, FSplit, FCreate, FEmitStep, FFinish DEF Next, Stopped

-----------------------------------------------------------------------------
LEMMA MInit == MachineInit => MInv
<1> SUFFICES ASSUME MachineInit PROVE MInv
  OBVIOUS
<1>1. Init /\ blk = Setup /\ pos = 1 /\ rets = <<>> /\ phase = "start"
  BY DEF MachineInit, Init
<1>2. Setup \notin {Halt, Wild}
  BY PlacesAssumption DEF Setup
<1>3. RunInv
  BY <1>1, <1>2, StackAssumption DEF RunInv, CodeBlocks
<1> QED BY <1>1, <1>3, InitInv, RInit, FInit DEF MInv

(* Only verifying the module returns it.                                   *)
LEMMA OnlyVerify ==
  ASSUME Next, phase # "done", phase' = "done"
  PROVE  Verify
BY DEF Next, Split, StartSplit, SplitIter, SplitCrash, SplitDone, Create,
       BlockIter, OutOfMemory, BlocksDone, EmitStep, EmitStraight,
       EmitLddw, EmitJa, EmitJcond, EmitLocalCall, EmitExtCall, EmitExit,
       Emit, AssertReturnSite, Reject, RejectEmpty, RejectPrecheck,
       RejectOpcode, RejectLddw, RejectJa, RejectJcond, RejectLocalCall,
       RejectExtCall, RejectModule, Fail, Finish, EmitDone, FallThrough,
       Stopped, vars

(* The step to "done" leaves every block closed, the first one included.   *)
LEMMA CompileRun == MInv /\ Compile => RunInv'
<1> SUFFICES ASSUME MInv, Compile PROVE RunInv'
  OBVIOUS
<1>1. /\ phase # "done" /\ Next /\ UNCHANGED <<blk, pos, rets>>
      /\ blk = Setup /\ pos = 1 /\ rets = <<>>
  BY DEF Compile, MInv, RunInv, run
<1>2. Setup \notin {Halt, Wild} /\ rets' \in Seq(retDests') /\ Len(rets') = 0
  BY <1>1, PlacesAssumption DEF Setup
<1>3. CASE phase' # "done"
  BY <1>1, <1>2, <1>3, StackAssumption DEF RunInv, CodeBlocks
<1>4. CASE phase' = "done"
  <2>1. Verify
    BY <1>1, <1>4, OnlyVerify
  <2>2. ModuleOk /\ UNCHANGED <<instBlocks, code>>
    BY <2>1 DEF Verify
  <2>3. ModuleOk'
    BY <2>2 DEF ModuleOk, WellFormedBlock, HasTerm
  <2>4. 1 \in 1 .. Len(code[Setup])
    <3> DEFINE E == [pc : InstIds \cup {None}, to : Seq(Blocks \cup {Exit, Ret})]
    <3>1. code \in [Blocks -> Seq(E)] /\ Setup \in Blocks
      BY DEF MInv, IInv, TypeOK, Blocks
    <3>2. code[Setup] # <<>>
      BY <2>2 DEF ModuleOk, WellFormedBlock, HasTerm
    <3> HIDE DEF E
    <3>3. code[Setup] \in Seq(E)
      BY <3>1
    <3> QED BY <3>2, <3>3
  <2> QED BY <1>1, <1>2, <1>4, <2>2, <2>3, <2>4, StackAssumption
          DEF RunInv, CodeBlocks
<1> QED BY <1>3, <1>4

(* What holds of the module while it runs.                                 *)
LEMMA Module ==
  ASSUME MInv, Loaded
  PROVE  /\ blk \in CodeBlocks /\ CodeBlocks \subseteq Blocks
         /\ Blocks \subseteq Int
         /\ instBlocks \subseteq InstIds /\ InstIds \subseteq Nat
         /\ retDests \subseteq instBlocks /\ retDests = localFuncRetBlks
         /\ pos \in 1 .. Len(code[blk])
         /\ \A b \in CodeBlocks : HasTerm(b) /\ 1 \in 1 .. Len(code[b])
         /\ Size < PcMod
         /\ GoodEntry(EntryAt)
<1> DEFINE E == [pc : InstIds \cup {None}, to : Seq(Blocks \cup {Exit, Ret})]
<1>1. /\ phase = "done" /\ blk \in Blocks
      /\ code \in [Blocks -> Seq(E)]
      /\ instBlocks \subseteq InstIds /\ retDests = localFuncRetBlks
      /\ localFuncRetBlks \subseteq instBlocks /\ Size < PcMod
  BY DEF Loaded, MInv, IInv, RInv, TypeOK, ReturnInv, LengthInv
<1>2. Blocks \subseteq Int /\ InstIds \subseteq Nat /\ InstIds \subseteq Blocks
      /\ Setup \in Blocks
  BY DEF Blocks, InstIds, Setup
<1>3. blk \in CodeBlocks
  <2>1. blk \notin {Halt, Wild}
    BY <1>1, <1>2, PlacesAssumption
  <2> QED BY <2>1 DEF MInv, RunInv
<1>4. CodeBlocks \subseteq Blocks
  BY <1>1, <1>2 DEF CodeBlocks
<1>5. pos \in 1 .. Len(code[blk]) /\ ModuleOk
  BY <1>1, <1>3 DEF MInv, RunInv
<1> HIDE DEF E
<1>6. ASSUME NEW b \in CodeBlocks PROVE HasTerm(b) /\ 1 \in 1 .. Len(code[b])
  <2>1. HasTerm(b) /\ code[b] \in Seq(E)
    BY <1>1, <1>4, <1>5 DEF ModuleOk, WellFormedBlock, CodeBlocks
  <2>2. code[b] # <<>>
    BY <2>1 DEF HasTerm
  <2> QED BY <2>1, <2>2
<1>7. GoodEntry(EntryAt)
  BY <1>1, <1>5 DEF MInv, FInv, EntriesInv, EntryAt
<1> QED BY <1>1, <1>2, <1>3, <1>4, <1>5, <1>6, <1>7

(* A step of the program that goes to x, a block or exitBlock.             *)
LEMMA GotoRun ==
  ASSUME MInv, Loaded, UNCHANGED vars,
         NEW x \in instBlocks \cup {Exit}, Goto(x),
         rets' \in Seq(retDests), Len(rets') <= CALL_STACK_SIZE
  PROVE  RunInv'
<1>1. /\ phase' = "done" /\ phase = "done" /\ retDests' = retDests
      /\ CodeBlocks' = CodeBlocks
      /\ code' = code /\ ModuleOk'
  BY DEF vars, MInv, RunInv, Loaded, CodeBlocks, ModuleOk, WellFormedBlock,
         HasTerm
<1>2. CASE x = Exit
  <2>1. blk' = Halt /\ Halt \notin CodeBlocks /\ Halt # Wild
    BY <1>2, Module, PlacesAssumption DEF Goto
  <2> QED BY <1>1, <2>1 DEF RunInv
<1>3. CASE x \in instBlocks
  <2>1. x \in Int /\ x # Exit /\ x \in CodeBlocks /\ x \notin {Halt, Wild}
    BY <1>3, Module, PlacesAssumption DEF Exit, CodeBlocks
  <2>2. blk' = x /\ pos' = 1 /\ 1 \in 1 .. Len(code[x])
    BY <2>1, Module DEF Goto
  <2> QED BY <1>1, <2>1, <2>2 DEF RunInv
<1> QED BY <1>2, <1>3

LEMMA ExecuteRun == MInv /\ Execute => RunInv'
<1> SUFFICES ASSUME MInv, Execute PROVE RunInv'
  OBVIOUS
<1>1. UNCHANGED vars /\ Loaded
  BY DEF Execute, Continue, Branch, Conditional, Call, Overrun, ExitMain,
         Return, Calling, EndsBlock
<1>2. rets \in Seq(retDests) /\ Len(rets) <= CALL_STACK_SIZE
  BY DEF MInv, RunInv
<1>3. EntryAt.to # <<>> => GoodEnd(EntryAt.pc, EntryAt.to)
  BY <1>1, Module DEF GoodEntry
<1>4. None \notin InstIds
  BY DEF None, InstIds
<1>5. CASE Continue
  <2>1. /\ EntryAt.to = <<>> /\ pos' = pos + 1 /\ UNCHANGED <<blk, rets>>
    BY <1>5 DEF Continue
  <2>2. pos # Len(code[blk]) /\ blk \in CodeBlocks
        /\ pos \in 1 .. Len(code[blk])
    BY <1>1, <2>1, Module DEF HasTerm, EntryAt
  <2>3. pos' \in 1 .. Len(code[blk])
    <3> DEFINE E == [pc : InstIds \cup {None}, to : Seq(Blocks \cup {Exit, Ret})]
    <3>1. code \in [Blocks -> Seq(E)] /\ blk \in Blocks
      BY <1>1 DEF MInv, IInv, TypeOK, Loaded
    <3> HIDE DEF E
    <3>2. code[blk] \in Seq(E)
      BY <3>1
    <3>3. Len(code[blk]) \in Nat
      BY <3>2
    <3> QED BY <2>1, <2>2, <3>3
  <2>4. ModuleOk' /\ CodeBlocks' = CodeBlocks /\ phase = "done"
    BY <1>1 DEF vars, MInv, RunInv, Loaded, CodeBlocks, ModuleOk,
                WellFormedBlock, HasTerm
  <2> QED BY <1>1, <2>1, <2>2, <2>3, <2>4 DEF MInv, RunInv, vars
<1>6. CASE Branch
  <2>1. /\ EntryAt.to # <<>> /\ Goto(EntryAt.to[1]) /\ rets' = rets
        /\ Op \in {"br", "ja"}
           \/ (Op \in {"call", "callx"} /\ ~IsLocalCall(EntryAt.pc))
    BY <1>6 DEF Branch, EndsBlock
  <2>2. PICK n, to : n = EntryAt.pc /\ to = EntryAt.to
    OBVIOUS
  <2>3. GoodEnd(n, to) /\ (n # None => Op = At(n).op)
    BY <1>3, <2>1, <2>2 DEF Op
  <2>4. to[1] \in instBlocks \cup {Exit}
    BY <1>4, <2>1, <2>2, <2>3 DEF GoodEnd, IsLocalCall
  <2> QED BY <1>1, <1>2, <2>1, <2>2, <2>4, GotoRun
<1>7. CASE Conditional
  <2>1. PICK k \in 1 .. 2 : Goto(EntryAt.to[k])
    BY <1>7 DEF Conditional
  <2>2. EntryAt.to # <<>> /\ rets' = rets /\ Op = "jcond"
    BY <1>7 DEF Conditional, EndsBlock
  <2>3. PICK n, to : n = EntryAt.pc /\ to = EntryAt.to
    OBVIOUS
  <2>4. GoodEnd(n, to) /\ n # None /\ At(n).op = "jcond"
    BY <1>3, <2>2, <2>3 DEF Op
  <2>5. PICK x, y \in instBlocks : to = <<x, y>>
    BY <1>4, <2>4 DEF GoodEnd, IsLocalCall
  <2>6. to[k] \in instBlocks
    BY <2>1, <2>5
  <2> QED BY <1>1, <1>2, <2>1, <2>2, <2>3, <2>6, GotoRun
<1>8. CASE Call \/ Overrun
  <2>1. /\ EntryAt.to # <<>> /\ Op \in {"call", "callx"}
        /\ IsLocalCall(EntryAt.pc)
    BY <1>8 DEF Call, Overrun, Calling, EndsBlock
  <2>2. PICK n, to : n = EntryAt.pc /\ to = EntryAt.to
    OBVIOUS
  <2>3. GoodEnd(n, to) /\ n # None /\ At(n).op \in {"call", "callx"}
        /\ IsLocalCall(n)
    BY <1>3, <2>1, <2>2 DEF Op
  <2>4. /\ n \in InstIds /\ n + 1 \in retDests /\ to[1] \in instBlocks
    BY <1>1, <2>3, Module DEF GoodEnd
  <2>5. (n + 1) % PcMod = n + 1
    <3>1. n \in Int /\ n + 1 \in Nat /\ n + 1 < PcMod
      <4>1. n \in Nat /\ n < Size /\ Size \in Nat
        BY <2>4 DEF InstIds, Size, MInv, IInv, TypeOK
      <4>2. Size < PcMod
        BY <1>1, Module
      <4> QED BY <4>1, <4>2, WidthAssumption
    <3> DEFINE a == n + 1
    <3>2. a \in Nat /\ a \in Int /\ a < PcMod
      BY <3>1
    <3> HIDE DEF a
    <3>3. a % PcMod = a
      BY <3>2, ModRange, WidthAssumption
    <3> QED BY <3>3 DEF a
  <2>6. CASE Call
    <3>1. /\ Len(rets) < CALL_STACK_SIZE /\ rets' = Append(rets, n + 1)
          /\ Goto(to[1])
      BY <2>2, <2>5, <2>6 DEF Call, ReturnAddress
    <3>2. /\ rets' \in Seq(retDests) /\ Len(rets') = Len(rets) + 1
      BY <1>2, <2>4, <3>1
    <3>3. Len(rets') <= CALL_STACK_SIZE
      BY <1>2, <3>1, <3>2, StackAssumption
    <3> QED BY <1>1, <2>4, <3>1, <3>2, <3>3, GotoRun
  <2>7. CASE Overrun
    <3>1. /\ Len(rets) >= CALL_STACK_SIZE /\ blk' = Wild
          /\ UNCHANGED <<pos, rets>>
      BY <2>7 DEF Overrun
    <3>2. Len(rets) = CALL_STACK_SIZE
      BY <1>2, <3>1, StackAssumption
    <3>3. Wild \notin CodeBlocks /\ phase = "done"
      BY <1>1, Module, PlacesAssumption DEF Loaded
    <3>4. ModuleOk' /\ CodeBlocks' = CodeBlocks
      BY <1>1 DEF vars, MInv, RunInv, Loaded, CodeBlocks, ModuleOk,
                  WellFormedBlock, HasTerm
    <3> QED BY <1>1, <1>2, <3>1, <3>2, <3>3, <3>4 DEF RunInv, vars
  <2> QED BY <1>8, <2>6, <2>7
<1>9. CASE ExitMain
  <2>1. /\ EntryAt.to # <<>> /\ rets' = rets /\ Op = "exit"
        /\ Goto(EntryAt.to[1])
    BY <1>9 DEF ExitMain, EndsBlock
  <2>2. PICK n, to : n = EntryAt.pc /\ to = EntryAt.to
    OBVIOUS
  <2>3. GoodEnd(n, to) /\ n # None /\ At(n).op = "exit"
    BY <1>3, <2>1, <2>2 DEF Op
  <2>4. to[1] = Exit
    BY <1>4, <2>3 DEF GoodEnd, IsLocalCall
  <2> QED BY <1>1, <1>2, <2>1, <2>2, <2>4, GotoRun
<1>10. CASE Return
  <2> DEFINE top == rets[Len(rets)]
  <2>1. top \in retDests /\ Len(rets) \in Nat /\ Len(rets) >= 1
    <3>1. rets # <<>> /\ Len(rets) \in Nat
      BY <1>2, <1>10 DEF Return
    <3>2. Len(rets) \in 1 .. Len(rets)
      BY <1>2, <3>1
    <3>3. top \in retDests
      BY <1>2, <3>2
    <3> QED BY <3>1, <3>2, <3>3
  <2>2. Goto(top) /\ rets' = SubSeq(rets, 1, Len(rets) - 1)
    BY <1>10, <2>1 DEF Return
  <2>3. rets' \in Seq(retDests) /\ Len(rets') = Len(rets) - 1
    <3> DEFINE m == Len(rets) - 1
    <3>1. m \in Nat /\ m \in Int /\ 1 \in Int /\ Len(rets) \in Nat
      BY <2>1
    <3>2. \A j \in 1 .. m : rets[j] \in retDests
      BY <1>2
    <3> HIDE DEF m
    <3>3. SubSeq(rets, 1, m) \in Seq(retDests) /\ Len(SubSeq(rets, 1, m)) = m
      BY <3>1, <3>2, SubSeqProperties
    <3> QED BY <2>2, <3>3 DEF m
  <2>4. Len(rets') <= CALL_STACK_SIZE
    BY <1>2, <2>1, <2>3, StackAssumption
  <2>5. top \in instBlocks
    BY <1>1, <2>1, Module
  <2> HIDE DEF top
  <2> QED BY <1>1, <2>2, <2>3, <2>4, <2>5, GotoRun
<1> QED BY <1>5, <1>6, <1>7, <1>8, <1>9, <1>10 DEF Execute

LEMMA MStep == MInv /\ [MachineNext]_mvars => MInv'
<1> SUFFICES ASSUME MInv, [MachineNext]_mvars PROVE MInv'
  OBVIOUS
<1>1. [Next]_vars
  BY DEF MachineNext, Compile, Execute, Over, mvars
<1>2. IInv' /\ RInv' /\ FInv'
  BY <1>1, StepInv, RStep, FStep DEF MInv
<1>3. ASSUME UNCHANGED mvars PROVE RunInv'
  BY <1>3 DEF mvars, vars, run, MInv, RunInv, CodeBlocks, ModuleOk,
              WellFormedBlock, HasTerm
<1>4. RunInv'
  BY <1>3, CompileRun, ExecuteRun DEF MachineNext, Over, mvars
<1> QED BY <1>2, <1>4 DEF MInv

LEMMA MInvariance == MachineSpec => []MInv
<1>1. MachineInit => MInv
  BY MInit
<1>2. MInv /\ [MachineNext]_mvars => MInv'
  BY MStep
<1> QED BY <1>1, <1>2, PTL DEF MachineSpec, mvars

(* Whatever the program, once compiled: control stays at entries of its    *)
(* blocks, returns go to return sites, and nothing but a call beyond the   *)
(* call stack is undefined.                                                *)
THEOREM StaysInBlocks == MachineSpec => []InBlock
<1>1. MInv => InBlock
  <2> SUFFICES ASSUME MInv PROVE InBlock
    OBVIOUS
  <2>1. CodeBlocks \subseteq Blocks /\ Blocks \subseteq Int
    BY DEF CodeBlocks, MInv, IInv, TypeOK, Blocks, InstIds, Setup
  <2>2. blk \in Blocks => blk \in CodeBlocks
    BY <2>1, PlacesAssumption DEF MInv, RunInv
  <2> QED BY <2>1, <2>2 DEF InBlock, MInv, RunInv, Loaded
<1> QED BY <1>1, MInvariance, PTL

-----------------------------------------------------------------------------
(* What is known while a well-formed program is compiled and run.          *)
RefInv == MInv /\ WInv /\ WellFormed

LEMMA RefStep == RefInv /\ [MachineNext]_mvars => RefInv'
<1> SUFFICES ASSUME RefInv, [MachineNext]_mvars PROVE RefInv'
  OBVIOUS
<1>1. [Next]_vars
  BY DEF MachineNext, Compile, Execute, Over, mvars
<1>2. MInv' /\ WInv'
  BY <1>1, MStep, WStep DEF RefInv, MInv
<1>3. insns' = insns
  BY <1>1, SameProgramStep
<1>4. WellFormed'
  BY <1>3, SameFlow
     DEF RefInv, WellFormed, LddwOk, GoodSlot, RegsOk, is_jmp, IsLocalCall,
         IsaNext, At, Size, InstIds
<1> QED BY <1>2, <1>4 DEF RefInv

(* The instructions of a well-formed program.                              *)
LEMMA WellFormedAt ==
  ASSUME WellFormed, IInv, NEW n \in InstIds
  PROVE  /\ At(n).op \in {"ja", "jcond", "call", "exit", "straight", "lddw",
                          "slot"}
         /\ At(n).op \in {"ja", "jcond"} => n + 1 + At(n).off \in InstIds
         /\ At(n).op = "jcond" => n + 1 \in InstIds
         /\ IsLocalCall(n) => n + 1 + At(n).imm \in InstIds
<1>1. At(n).op \in Ops
  <2>1. insns \in Seq(Insn) /\ Len(insns) \in Nat
    BY DEF IInv, TypeOK
  <2>2. n + 1 \in 1 .. Len(insns)
    BY <2>1 DEF InstIds, Size
  <2>3. insns[n + 1] \in Insn
    BY <2>1, <2>2
  <2> QED BY <2>3 DEF At, Insn
<1>2. /\ At(n).op \notin {"bad", "badjmp", "callx"}
      /\ At(n).op \in {"ja", "jcond"} => n + 1 + At(n).off \in InstIds
      /\ At(n).op = "jcond" => n + 1 \in InstIds
      /\ IsLocalCall(n) => n + 1 + At(n).imm \in InstIds
  BY DEF WellFormed
<1> QED BY <1>1, <1>2 DEF Ops, JmpOps

(* While it runs, the next instruction is that of the entry, or the one a  *)
(* branch between blocks goes to.                                          *)
LEMMA AtEntry ==
  ASSUME RefInv, Loaded, NEW n, n = EntryAt.pc, NEW to, to = EntryAt.to
  PROVE  \/ /\ n \in InstIds /\ blk \in instBlocks /\ NextInsn = n
            /\ GoodTo(n, to)
         \/ /\ n = None /\ to # <<>> /\ to[1] \in instBlocks
            /\ NextInsn = to[1]
<1>1. CodeInv /\ phase = "done" /\ blk \in Blocks /\ MInv
  BY DEF RefInv, WInv, WellFormed, Loaded
<1>2. pos \in 1 .. Len(code[blk]) /\ None \notin InstIds /\ Blocks \subseteq Int
  BY <1>1, Module DEF None, InstIds
<1>3. blk \notin {Halt, Wild}
  BY <1>1, <1>2, PlacesAssumption
<1>4. NextInsn = IF n = None THEN to[1] ELSE n
  BY <1>1, <1>3 DEF NextInsn
<1>5. \/ n \in InstIds /\ blk \in instBlocks /\ GoodTo(n, to)
      \/ n = None /\ to # <<>>
  BY <1>1, <1>2 DEF CodeInv, SourceInv, EntryAt
<1>6. n = None => to[1] \in instBlocks
  BY <1>1, <1>2 DEF CodeInv, BranchInv, EntryAt
<1> QED BY <1>2, <1>4, <1>5, <1>6

(* A block begins with its own instruction.                                *)
LEMMA AtBlock ==
  ASSUME RefInv, Loaded, UNCHANGED vars, NEW x \in instBlocks \cup {Exit}, Goto(x)
  PROVE  NextInsn' = IF x = Exit THEN Halt ELSE x
<1>1. /\ CodeInv /\ phase = "done" /\ MInv /\ phase' = "done"
      /\ code' = code /\ Blocks' = Blocks
  BY DEF RefInv, WInv, WellFormed, Loaded, vars, Blocks, InstIds, Size
<1>2. /\ instBlocks \subseteq InstIds /\ InstIds \subseteq Nat
      /\ Blocks \subseteq Int /\ InstIds \subseteq Blocks
  BY <1>1, Module DEF Blocks
<1>3. CASE x = Exit
  <2>1. blk' = Halt /\ Halt \notin Blocks
    BY <1>2, <1>3, PlacesAssumption DEF Goto
  <2> QED BY <1>1, <1>3, <2>1 DEF NextInsn
<1>4. CASE x \in instBlocks
  <2>1. x \in Nat /\ x # Exit /\ x \in Blocks /\ x < Size
    <3>1. x \in InstIds /\ x \in Nat /\ x \in Blocks
      BY <1>2, <1>4
    <3>2. Size \in Nat
      BY <1>1 DEF MInv, IInv, TypeOK, Size
    <3> QED BY <3>1, <3>2 DEF Exit, InstIds
  <2>2. x \notin {Halt, Wild} /\ x # None
    BY <2>1, PlacesAssumption DEF None
  <2>3. blk' = x /\ pos' = 1
    BY <2>1 DEF Goto
  <2>4. code[x][1].pc = x
    BY <1>1, <1>4, <2>1 DEF CodeInv, BlockInv, Front
  <2>5. EntryAt' = code[x][1]
    BY <1>1, <2>3 DEF EntryAt
  <2>6. NextInsn' = x
    BY <1>1, <2>1, <2>2, <2>3, <2>4, <2>5 DEF NextInsn
  <2> QED BY <2>1, <2>6
<1> QED BY <1>3, <1>4

(* An instruction that stays in its block is followed by the one behind it. *)
LEMMA AfterContinue ==
  ASSUME RefInv, Continue, UNCHANGED vars
  PROVE  NextInsn' = Step(EntryAt.pc)
<1>1. /\ CodeInv /\ phase = "done" /\ MInv /\ phase' = "done"
      /\ code' = code /\ Blocks' = Blocks /\ Loaded
  BY DEF RefInv, WInv, WellFormed, Loaded, vars, Continue, Blocks, InstIds, Size
<1>2. /\ EntryAt.to = <<>> /\ blk' = blk /\ pos' = pos + 1 /\ blk \in Blocks
  BY DEF Continue, Loaded
<1>3. EntryAt.pc \in InstIds /\ blk \in instBlocks
  BY <1>1, <1>2, AtEntry
<1>4. pos \in 1 .. Len(code[blk]) - 1 /\ blk \notin {Halt, Wild}
  <2>1. pos \in 1 .. Len(code[blk]) /\ HasTerm(blk) /\ Blocks \subseteq Int
    BY <1>1, Module
  <2>2. pos # Len(code[blk])
    BY <1>2, <2>1 DEF HasTerm, EntryAt
  <2>3. Len(code[blk]) \in Nat
    <3> DEFINE E == [pc : InstIds \cup {None}, to : Seq(Blocks \cup {Exit, Ret})]
    <3>1. code \in [Blocks -> Seq(E)]
      BY <1>1 DEF MInv, IInv, TypeOK
    <3> HIDE DEF E
    <3> QED BY <1>2, <3>1
  <2> QED BY <1>2, <2>1, <2>2, <2>3, PlacesAssumption
<1>5. PICK f : f = code[blk][pos + 1]
  OBVIOUS
<1>6. \/ f.pc = Step(EntryAt.pc)
      \/ f.pc = None /\ f.to = <<Step(EntryAt.pc)>>
  BY <1>1, <1>3, <1>4, <1>5 DEF CodeInv, ChainInv, EntryAt
<1>7. Step(EntryAt.pc) # None
  BY <1>3 DEF Step, InstIds, None
<1>8. EntryAt' = f
  BY <1>1, <1>2, <1>5 DEF EntryAt
<1>9. NextInsn' = IF f.pc = None THEN f.to[1] ELSE f.pc
  BY <1>1, <1>2, <1>4, <1>8 DEF NextInsn
<1> QED BY <1>6, <1>7, <1>9

(* The instruction the abstract program is at.                             *)
LEMMA FlowAt ==
  ASSUME NextInsn \in InstIds
  PROVE  Flow!Running /\ Flow!Insn = At(NextInsn)
BY DEF Flow!Running, Flow!Insn, InstIds, Size, At
(* A step of the program is a step of the abstract one, or a branch from   *)
(* one block to the next.                                                  *)
LEMMA RefExecute == RefInv /\ Execute => Flow!Next \/ UNCHANGED Flow!vars
<1> SUFFICES ASSUME RefInv, Execute PROVE Flow!Next \/ UNCHANGED Flow!vars
  OBVIOUS
<1>1. UNCHANGED vars /\ Loaded /\ MInv /\ IInv /\ WellFormed
  BY DEF Execute, Continue, Branch, Conditional, Call, Overrun, ExitMain,
         Return, Calling, EndsBlock, RefInv, MInv
<1>2. PICK n, to : n = EntryAt.pc /\ to = EntryAt.to
  OBVIOUS
<1>3. \/ /\ n \in InstIds /\ blk \in instBlocks /\ NextInsn = n
         /\ GoodTo(n, to)
      \/ /\ n = None /\ to # <<>> /\ to[1] \in instBlocks /\ NextInsn = to[1]
  BY <1>1, <1>2, AtEntry
<1>4. /\ instBlocks \subseteq InstIds /\ InstIds \subseteq Nat
      /\ retDests \subseteq instBlocks /\ insns' = insns
      /\ \A x \in Nat : x # Exit /\ x # Ret
      /\ None \notin InstIds /\ Exit \notin InstIds /\ Ret \notin InstIds
  BY <1>1, Module DEF Exit, Ret, None, InstIds, vars
<1>5. ASSUME n \in InstIds
      PROVE  /\ Flow!Running /\ Flow!Insn = At(n) /\ NextInsn = n
             /\ GoodTo(n, to) /\ n \in Nat
             /\ At(n).op \in {"ja", "jcond", "call", "exit", "straight",
                              "lddw", "slot"}
  BY <1>1, <1>3, <1>4, <1>5, FlowAt, WellFormedAt
(* Where a taken branch goes. *)
<1>6. ASSUME NEW x \in instBlocks \cup {Exit}, Goto(x)
      PROVE  NextInsn' = IF x = Exit THEN Halt ELSE x
  BY <1>1, <1>6, AtBlock
<1>7. ASSUME n \in InstIds, to # <<>>
      PROVE  /\ to = IsaNext(n)
             /\ \A j \in DOMAIN to : to[j] \in instBlocks \cup {Exit, Ret}
  BY <1>5, <1>7 DEF GoodTo
<1>8. CASE Continue
  <2>1. to = <<>> /\ rets' = rets /\ n \in InstIds /\ NextInsn' = Step(n)
    BY <1>1, <1>2, <1>3, <1>8, AfterContinue DEF Continue
  <2>2. /\ At(n).op \in {"straight", "lddw", "call"} /\ ~IsLocalCall(n)
        /\ IsaNext(n) = <<Step(n)>>
    BY <1>5, <2>1 DEF GoodTo
  <2>3. CASE At(n).op = "lddw"
    <3>1. Flow!LoadImm64
      BY <1>4, <1>5, <2>1, <2>3 DEF Flow!LoadImm64, Flow!Goto, Step
    <3> QED BY <3>1 DEF Flow!Next
  <2>4. CASE At(n).op = "straight"
    <3>1. Flow!Straight
      BY <1>4, <1>5, <2>1, <2>4 DEF Flow!Straight, Flow!Goto, Step
    <3> QED BY <3>1 DEF Flow!Next
  <2>5. CASE At(n).op = "call"
    <3>1. At(n).src # 1
      BY <2>2, <2>5 DEF IsLocalCall
    <3>2. At(n).imm # 12
      <4>1. CASE At(n).imm = 12
        <5>1. <<Exit>> = <<Step(n)>> /\ Step(n) \in Nat
          BY <1>5, <2>1, <2>2, <2>5, <3>1, <4>1, Successors DEF Step
        <5>2. Exit = Step(n)
          BY <5>1
        <5> QED BY <1>4, <5>1, <5>2
      <4> QED BY <4>1
    <3>3. Flow!Straight
      BY <1>4, <1>5, <2>1, <2>5, <3>1, <3>2
         DEF Flow!Straight, Flow!IsHelper, Flow!Goto, Step
    <3> QED BY <3>3 DEF Flow!Next
  <2> QED BY <2>2, <2>3, <2>4, <2>5
<1>9. CASE Branch
  <2>1. /\ to # <<>> /\ Goto(to[1]) /\ rets' = rets
        /\ Op \in {"br", "ja"} \/ (Op \in {"call", "callx"} /\ ~IsLocalCall(n))
        /\ Op = IF n = None THEN "br" ELSE At(n).op
    BY <1>2, <1>9 DEF Branch, EndsBlock, Op
  <2>2. CASE n = None
    <3>1. to[1] \in instBlocks /\ NextInsn = to[1]
      BY <1>3, <1>4, <2>2
    <3>2. NextInsn' = to[1]
      BY <1>4, <1>6, <2>1, <3>1
    <3> QED BY <1>4, <2>1, <3>1, <3>2 DEF Flow!vars
  <2>3. CASE n \in InstIds /\ At(n).op = "ja"
    <3>1. to = <<n + 1 + At(n).off>> /\ to[1] \in instBlocks \cup {Exit, Ret}
      BY <1>7, <2>1, <2>3, Successors
    <3>2. to[1] = n + 1 + At(n).off /\ to[1] \in InstIds
      BY <1>1, <2>3, <3>1, WellFormedAt
    <3>3. NextInsn' = to[1]
      BY <1>4, <1>6, <2>1, <3>1, <3>2
    <3>4. Flow!Jump
      BY <1>4, <1>5, <2>1, <2>3, <3>2, <3>3 DEF Flow!Jump, Flow!Goto
    <3> QED BY <3>4 DEF Flow!Next
  <2>4. CASE n \in InstIds /\ At(n).op = "call" /\ ~IsLocalCall(n)
    <3>1. At(n).src # 1
      BY <2>4 DEF IsLocalCall
    <3>2. to = IF At(n).imm = 12 THEN <<Exit>> ELSE <<n + 1>>
      BY <1>7, <2>1, <2>4, <3>1, Successors
    <3>3. to[1] \in instBlocks \cup {Exit, Ret}
      BY <1>7, <2>1, <2>4, <3>2
    <3>4. CASE At(n).imm = 12
      <4>1. NextInsn' = Halt
        BY <1>6, <2>1, <3>2, <3>4
      <4>2. Flow!Exit
        BY <1>4, <1>5, <2>1, <2>4, <3>1, <3>4, <4>1
           DEF Flow!Exit, Flow!TailCall, Flow!Goto
      <4> QED BY <4>2 DEF Flow!Next
    <3>5. CASE At(n).imm # 12
      <4>1. to[1] = n + 1 /\ n + 1 \in Nat
        BY <1>5, <2>4, <3>2, <3>5
      <4>2. NextInsn' = n + 1
        BY <1>4, <1>6, <2>1, <3>3, <4>1
      <4>3. Flow!Straight
        BY <1>4, <1>5, <2>1, <2>4, <3>1, <3>5, <4>2
           DEF Flow!Straight, Flow!IsHelper, Flow!Goto
      <4> QED BY <4>3 DEF Flow!Next
    <3> QED BY <3>4, <3>5
  <2> QED BY <1>3, <1>5, <2>1, <2>2, <2>3, <2>4
<1>10. CASE Conditional
  <2>1. PICK k \in 1 .. 2 : Goto(to[k])
    BY <1>2, <1>10 DEF Conditional
  <2>2. /\ to # <<>> /\ rets' = rets /\ n # None /\ At(n).op = "jcond"
    BY <1>2, <1>10 DEF Conditional, EndsBlock, Op
  <2>3. n \in InstIds
    BY <1>3, <2>2
  <2>4. to = <<n + 1 + At(n).off, n + 1>>
    BY <1>7, <2>2, <2>3, Successors
  <2>5. to[k] \in instBlocks \cup {Exit, Ret}
    BY <1>7, <2>2, <2>3, <2>4
  <2>6. to[k] \in InstIds /\ (to[k] = n + 1 + At(n).off \/ to[k] = n + 1)
    BY <1>1, <2>2, <2>3, <2>4, WellFormedAt
  <2>7. NextInsn' = to[k]
    BY <1>4, <1>6, <2>1, <2>5, <2>6
  <2>8. Flow!Jump \/ Flow!NotTaken
    BY <1>4, <1>5, <2>2, <2>3, <2>6, <2>7
       DEF Flow!Jump, Flow!NotTaken, Flow!Goto
  <2> QED BY <2>8 DEF Flow!Next
<1>11. CASE Call \/ Overrun
  <2>1. to # <<>> /\ n # None /\ IsLocalCall(n)
    BY <1>2, <1>11 DEF Call, Overrun, Calling, EndsBlock, Op
  <2>2. n \in InstIds /\ n + 1 < PcMod /\ At(n).op = "call" /\ At(n).src = 1
    <3>1. n \in InstIds
      BY <1>3, <2>1
    <3>2. At(n).op = "call" /\ At(n).src = 1
      BY <1>5, <2>1, <3>1 DEF IsLocalCall
    <3>3. n < Size /\ Size < PcMod /\ Size \in Nat
      BY <1>1, <3>1, Module DEF InstIds, IInv, TypeOK, Size
    <3>4. n \in Nat /\ n + 1 <= Size /\ n + 1 < PcMod
      BY <1>4, <3>1, <3>3, WidthAssumption
    <3> QED BY <3>1, <3>2, <3>4
  <2>3. (n + 1) % PcMod = n + 1
    <3> DEFINE a == n + 1
    <3>1. a \in Nat /\ a \in Int /\ a < PcMod
      BY <1>4, <2>2
    <3> HIDE DEF a
    <3>2. a % PcMod = a
      BY <3>1, ModRange, WidthAssumption
    <3> QED BY <3>2 DEF a
  <2>4. CASE Call
    <3>1. /\ Len(rets) < CALL_STACK_SIZE /\ rets' = Append(rets, n + 1)
          /\ Goto(to[1])
      BY <1>2, <2>3, <2>4 DEF Call, ReturnAddress
    <3>2. to = <<n + 1 + At(n).imm>>
      BY <1>7, <2>1, <2>2, Successors
    <3>3. to[1] \in instBlocks \cup {Exit, Ret}
      BY <1>7, <2>1, <2>2, <3>2
    <3>4. to[1] = n + 1 + At(n).imm /\ to[1] \in InstIds
      BY <1>1, <2>1, <2>2, <3>2, WellFormedAt
    <3>5. NextInsn' = to[1]
      BY <1>4, <1>6, <3>1, <3>3, <3>4
    <3>6. Flow!Call
      BY <1>4, <1>5, <2>2, <3>1, <3>4, <3>5 DEF Flow!Call, Flow!IsLocal
    <3> QED BY <3>6 DEF Flow!Next
  <2>5. CASE Overrun
    <3>1. /\ Len(rets) >= CALL_STACK_SIZE /\ blk' = Wild /\ rets' = rets
          /\ Len(rets) <= CALL_STACK_SIZE /\ Len(rets) \in Nat
      BY <1>1, <2>5 DEF Overrun, MInv, RunInv
    <3>2. Len(rets) = CALL_STACK_SIZE
      BY <3>1, StackAssumption
    <3>3. phase' = "done" /\ Wild \notin Blocks'
      <4>1. Blocks \subseteq Int /\ Blocks' = Blocks
        BY <1>1, Module DEF vars, Blocks, InstIds, Size
      <4> QED BY <1>1, <4>1, PlacesAssumption DEF vars, Loaded
    <3>4. NextInsn' = Wild
      BY <3>1, <3>3 DEF NextInsn
    <3>5. Flow!TooDeep
      BY <1>4, <1>5, <2>2, <3>1, <3>2, <3>4
         DEF Flow!TooDeep, Flow!IsLocal, Flow!Goto
    <3> QED BY <3>5 DEF Flow!Next
  <2> QED BY <1>11, <2>4, <2>5
<1>12. CASE ExitMain
  <2>1. /\ to # <<>> /\ rets' = rets /\ rets = <<>> /\ Goto(to[1])
        /\ n # None /\ At(n).op = "exit"
    BY <1>2, <1>12 DEF ExitMain, EndsBlock, Op
  <2>2. n \in InstIds /\ to = <<Exit, Ret>>
    BY <1>3, <1>7, <2>1, Successors
  <2>3. NextInsn' = Halt
    BY <1>6, <2>1, <2>2
  <2>4. Flow!Exit
    BY <1>4, <1>5, <2>1, <2>2, <2>3 DEF Flow!Exit, Flow!Goto
  <2> QED BY <2>4 DEF Flow!Next
<1>13. CASE Return
  <2>1. /\ rets # <<>> /\ n # None /\ At(n).op = "exit"
        /\ rets' = SubSeq(rets, 1, Len(rets) - 1)
    BY <1>2, <1>13 DEF Return, EndsBlock, Op
  <2>2. n \in InstIds
    BY <1>3, <2>1
  <2> DEFINE top == rets[Len(rets)]
  <2>3. top \in retDests
    <3>1. rets \in Seq(retDests)
      BY <1>1 DEF MInv, RunInv
    <3>2. Len(rets) \in 1 .. Len(rets)
      BY <2>1, <3>1
    <3> QED BY <3>1, <3>2
  <2>4. Goto(top) /\ top \in instBlocks
    BY <1>4, <1>13, <2>3 DEF Return
  <2>5. NextInsn' = top
    BY <1>4, <1>6, <2>4
  <2>6. Flow!Return
    BY <1>4, <1>5, <2>1, <2>2, <2>5 DEF Flow!Return
  <2> QED BY <2>6 DEF Flow!Next
<1> QED BY <1>8, <1>9, <1>10, <1>11, <1>12, <1>13 DEF Execute

(* Nothing runs while the program is compiled, and what is returned begins *)
(* with instruction 0.                                                     *)
LEMMA RefCompile == RefInv /\ Compile => UNCHANGED Flow!vars
<1> SUFFICES ASSUME RefInv, Compile PROVE UNCHANGED Flow!vars
  OBVIOUS
<1>1. /\ phase # "done" /\ Next /\ UNCHANGED <<blk, pos, rets>>
      /\ blk = Setup /\ pos = 1 /\ insns' = insns
  BY SameProgramStep DEF Compile, RefInv, MInv, RunInv, run
<1>2. NextInsn = 0
  BY <1>1 DEF NextInsn
<1>3. CASE phase' # "done"
  BY <1>1, <1>2, <1>3 DEF NextInsn, Flow!vars
<1>4. CASE phase' = "done"
  <2>1. phase = "br" /\ ModuleOk /\ CodeInv /\ code' = code
    BY <1>1, <1>4, OnlyVerify DEF Verify, RefInv, WInv, WellFormed
  <2>2. /\ Setup \in Blocks /\ Setup \notin instBlocks
        /\ Setup \notin {Halt, Wild} /\ Blocks' = Blocks
    BY <1>1, PlacesAssumption
       DEF Blocks, InstIds, Size, Setup, RefInv, MInv, IInv, TypeOK
  <2>3. Len(code[Setup]) \in Nat /\ Len(code[Setup]) >= 1
    <3> DEFINE E == [pc : InstIds \cup {None}, to : Seq(Blocks \cup {Exit, Ret})]
    <3>1. code \in [Blocks -> Seq(E)]
      BY DEF RefInv, MInv, IInv, TypeOK
    <3>2. code[Setup] # <<>>
      BY <2>1 DEF ModuleOk, WellFormedBlock, HasTerm
    <3> HIDE DEF E
    <3> QED BY <2>2, <3>1, <3>2
  <2>4. code[Setup][1].pc = None /\ code[Setup][1].to = <<0>>
    BY <2>1, <2>2, <2>3 DEF CodeInv, SourceInv
  <2>5. EntryAt' = code[Setup][1] /\ blk' = Setup
    BY <1>1, <2>1 DEF EntryAt
  <2>6. NextInsn' = code[Setup][1].to[1]
    BY <1>4, <2>2, <2>4, <2>5 DEF NextInsn
  <2> QED BY <1>1, <1>2, <2>4, <2>6 DEF Flow!vars
<1> QED BY <1>3, <1>4

(* A well-formed program, compiled and run, takes the steps of the eBPF    *)
(* program and no others: the safety part of Machine!RunsProgram, for      *)
(* programs of every length, runs of every length and every call depth.    *)
THEOREM RunsTheProgram ==
  MachineInit /\ WellFormed /\ [][MachineNext]_mvars =>
    Flow!Init /\ [][Flow!Next]_(Flow!vars)
<1>1. MachineInit /\ WellFormed => RefInv /\ Flow!Init
  BY MInit, WInit DEF MachineInit, RefInv, Flow!Init, NextInsn, Init
<1>2. RefInv /\ [MachineNext]_mvars => RefInv'
  BY RefStep
<1>3. RefInv /\ [MachineNext]_mvars => [Flow!Next]_(Flow!vars)
  <2> SUFFICES ASSUME RefInv, [MachineNext]_mvars
               PROVE  Flow!Next \/ UNCHANGED Flow!vars
    OBVIOUS
  <2>1. CASE UNCHANGED mvars
    <3>1. UNCHANGED <<phase, insns, code, blk, pos, rets>>
      BY <2>1 DEF mvars, vars, run
    <3>2. NextInsn' = NextInsn
      BY <3>1 DEF NextInsn, EntryAt, Blocks, InstIds, Size
    <3> QED BY <3>1, <3>2 DEF Flow!vars
  <2> QED BY <2>1, RefExecute, RefCompile DEF MachineNext, Over, mvars
<1> QED BY <1>1, <1>2, <1>3, PTL
=============================================================================
