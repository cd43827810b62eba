---------------------------- MODULE AtomicOpsProofs ----------------------------
(* Proofs about AtomicOps: its type invariant, and that the instructions   *)
(* in Kept have the whole promise of AtomicIsa.                            *)
EXTENDS AtomicOps, TLAPS

(* A location is 32 or 64 bits wide.                                       *)
LEMMA WidthType ==
  ASSUME TypeOK
  PROVE  width \in Nat /\ DW \in Nat /\ width <= DW /\ mem \in Word(width)
BY WidthAssumption DEF TypeOK, DW

(* Replacing a part of a word gives a word.                                *)
LEMMA PutType ==
  ASSUME NEW m \in Nat, NEW w \in Word(m), NEW b \in Nat, NEW n \in Nat,
         NEW v \in Word(n), b + n <= m
  PROVE  Put(w, b, n, v) \in Word(m)
<1>1. \A i \in v : i + b \in 0 .. m - 1
  BY DEF Word
<1> QED
  BY <1>1 DEF Put, Word

LEMMA TruncType ==
  ASSUME NEW w, NEW n \in Nat
  PROVE  Trunc(n, w) \in Word(n)
BY DEF Trunc, Word

LEMMA Shorter ==
  ASSUME NEW n \in Nat, NEW m \in Nat, n <= m
  PROVE  Word(n) \subseteq Word(m)
BY DEF Word

(* What atomicrmw writes is a word of its width, and the one the ISA says. *)
LEMMA RMWType ==
  ASSUME NEW op \in BinOps \cup {"xchg"}, NEW n \in Nat,
         NEW old \in Word(n), NEW src \in Word(n)
  PROVE  /\ AtomicRMW(op, n, old, src) \in Word(n)
         /\ AtomicRMW(op, n, old, src) = Promise!Result(op, n, old, src)
<1>1. CASE op = "add"
  <2>1. \A x : Unsigned(x) = Promise!Unsigned(x)
    <3>1. Pow2 = Promise!Pow2
      BY DEF Pow2, Promise!Pow2
    <3> QED
      BY <3>1 DEF Unsigned, Promise!Unsigned, FromBits, Promise!FromBits,
         SumFunctionOnSet, Promise!SumFunctionOnSet, FoldFunctionOnSet,
         Promise!FoldFunctionOnSet, MapThenFoldSet, Promise!MapThenFoldSet
  <2>2. \A k : OfInt(n, k) = Promise!OfInt(n, k)
    BY DEF OfInt, Promise!OfInt, Bit, Promise!Bit, Pow2, Promise!Pow2
  <2>3. \A k : OfInt(n, k) \in Word(n)
    BY DEF OfInt, Word
  <2> QED
    BY <1>1, <2>1, <2>2, <2>3 DEF AtomicRMW, Promise!Result
<1>2. CASE op = "and"
  BY <1>2 DEF AtomicRMW, Promise!Result, Word
<1>3. CASE op = "or"
  BY <1>3 DEF AtomicRMW, Promise!Result, Word
<1>4. CASE op = "xor"
  BY <1>4 DEF AtomicRMW, Promise!Result, SymDiff, Word
<1>5. CASE op = "xchg"
  BY <1>5 DEF AtomicRMW, Promise!Result
<1> QED
  BY <1>1, <1>2, <1>3, <1>4, <1>5 DEF BinOps

-----------------------------------------------------------------------------
(* Reading and writing registers keeps their type.                         *)
LEMMA StoreRegType ==
  ASSUME TypeOK, NEW t \in Threads, NEW r \in Regs, NEW n \in Nat, n <= DW,
         NEW v \in Word(n), StoreReg(t, r, n, v)
  PROVE  regs' \in [Threads -> [Regs -> Word(DW)]]
<1>1. regs[t][r] \in Word(DW) /\ DW \in Nat
  BY WidthAssumption DEF TypeOK, DW
<1>2. Put(regs[t][r], 0, n, v) \in Word(DW)
  BY <1>1, PutType
<1> QED
  BY <1>2 DEF TypeOK, StoreReg

(* A store of a whole slot, or of zeros and a word, leaves just the word.  *)
LEMMA WholeSlot ==
  ASSUME TypeOK, NEW t \in Threads, NEW r \in Regs, NEW v \in Word(DW),
         StoreReg(t, r, DW, v)
  PROVE  regs' = [regs EXCEPT ![t][r] = v]
<1>1. regs[t][r] \in Word(DW) /\ DW \in Nat
  BY WidthAssumption DEF TypeOK, DW
<1>2. regs[t][r] \ (0 .. 0 + DW - 1) = {}
  BY <1>1 DEF Word
<1>3. {i + 0 : i \in v} = v
  <2>1. \A i \in v : i + 0 = i
    BY <1>1 DEF Word
  <2> QED
    BY <2>1, Zenon
<1>4. Put(regs[t][r], 0, DW, v) = v
  BY <1>2, <1>3 DEF Put
<1> QED
  BY <1>4 DEF StoreReg

LEMMA RegType ==
  ASSUME TypeOK, NEW t, NEW r, NEW n \in Nat
  PROVE  Reg(t, r, n) \in Word(n)
BY TruncType DEF Reg

-----------------------------------------------------------------------------
LEMMA InitType == Init => TypeOK
BY DEF Init, TypeOK

LEMMA BinOpType ==
  ASSUME TypeOK, NEW t \in Threads, NEW op \in BinOps \cup {"xchg"},
         NEW r \in Regs, NEW f \in BOOLEAN,
         EmitAtomicBinOp(t, op, r, f), UNCHANGED <<width, before>>
  PROVE  TypeOK'
<1>1. Reg(t, r, width) \in Word(width)
  BY WidthType, RegType
<1>2. mem' \in Word(width)
  BY <1>1, WidthType, RMWType DEF EmitAtomicBinOp
<1>3. regs' \in [Threads -> [Regs -> Word(DW)]]
  BY WidthType, StoreRegType DEF EmitAtomicBinOp, TypeOK
<1> QED
  BY <1>2, <1>3 DEF TypeOK, Pending, Word

LEMMA CmpxchgType ==
  ASSUME TypeOK, NEW t \in Threads, Cmpxchg(t)
  PROVE  TypeOK'
<1>1. before[t] \in Pending
  BY DEF TypeOK, Cmpxchg, Ready
<1>2. mem' \in Word(width)
  BY WidthType, RegType DEF Cmpxchg
<1>3. regs' \in [Threads -> [Regs -> Word(DW)]]
  <2>1. before[t].val \in Word(DW)
    BY <1>1 DEF Pending
  <2> QED
    BY <2>1, WidthType, RegsAssumption, StoreRegType DEF Cmpxchg
<1>4. before' \in [Threads -> {None} \cup Pending]
  BY DEF TypeOK, Cmpxchg
<1> QED
  BY <1>2, <1>3, <1>4 DEF TypeOK, Cmpxchg

LEMMA AccessType ==
  ASSUME TypeOK, NEW t \in Threads, NEW r \in Regs
  PROVE  /\ CmpxchgLoad(t, r) => TypeOK'
         /\ Store(t, r) => TypeOK'
         /\ Load(t, r) => TypeOK'
<1>1. mem \in Word(DW)
  BY WidthType, Shorter
<1>2. CmpxchgLoad(t, r) => TypeOK'
  <2>1. [src |-> r, val |-> mem] \in Pending
    BY <1>1 DEF Pending
  <2> QED
    BY <2>1 DEF CmpxchgLoad, TypeOK
<1>3. Store(t, r) => TypeOK'
  BY WidthType, RegType DEF Store, TypeOK
<1>4. Load(t, r) => TypeOK'
  BY <1>1, WidthType, StoreRegType DEF Load, TypeOK
<1> QED
  BY <1>2, <1>3, <1>4

LEMMA SetRegType ==
  ASSUME TypeOK, NEW t \in Threads, NEW r \in Regs, NEW v \in Word(DW),
         SetReg(t, r, v)
  PROVE  TypeOK'
BY WidthType, StoreRegType DEF SetReg, TypeOK

LEMMA TypeStep == TypeOK /\ [Next]_vars => TypeOK'
<1> SUFFICES ASSUME TypeOK, [Next]_vars PROVE TypeOK'
  OBVIOUS
<1>1. CASE UNCHANGED vars
  BY <1>1 DEF vars, TypeOK
<1>2. CASE Next
  <2>0. PICK t \in Threads :
          \/ Cmpxchg(t)
          \/ \E r \in Regs :
               \/ \E op \in BinOps, f \in BOOLEAN : BinOp(t, op, r, f)
               \/ \E v \in Word(DW) : SetReg(t, r, v)
               \/ Xchg(t, r) \/ CmpxchgLoad(t, r) \/ Store(t, r) \/ Load(t, r)
    BY <1>2 DEF Next
  <2>1. CASE Cmpxchg(t)
    BY <2>1, CmpxchgType
  <2>2. CASE \E r \in Regs, v \in Word(DW) : SetReg(t, r, v)
    BY <2>2, SetRegType
  <2>3. CASE \E r \in Regs, op \in BinOps, f \in BOOLEAN : BinOp(t, op, r, f)
    BY <2>3, BinOpType DEF BinOp
  <2>4. CASE \E r \in Regs : Xchg(t, r)
    BY <2>4, BinOpType DEF Xchg
  <2>5. CASE \E r \in Regs : CmpxchgLoad(t, r) \/ Store(t, r) \/ Load(t, r)
    BY <2>5, AccessType
  <2> QED
    BY <2>0, <2>1, <2>2, <2>3, <2>4, <2>5
<1> QED
  BY <1>1, <1>2

(* Registers and the location hold words of their widths, for every width  *)
(* and any number of threads and registers.                                *)
THEOREM Typing == Spec => []TypeOK
BY InitType, TypeStep, PTL DEF Spec

-----------------------------------------------------------------------------
(* The refinement: what each step of the emitted code is in AtomicIsa.     *)
LEMMA SameOperand ==
  ASSUME NEW t, NEW r
  PROVE  Promise!Operand(t, r) = Reg(t, r, width)
BY DEF Promise!Operand, Promise!Trunc, Reg, Trunc

LEMMA RefInit == Init => Promise!Init
BY DEF Init, Promise!Init, Word, Promise!Word, DW

(* A register that gets any word is an answer where none is promised, and  *)
(* one that gets the old value an answer to everything.                    *)
LEMMA Answers ==
  ASSUME NEW t, NEW r, NEW v, NEW i, NEW new \in Word(DW),
         regs' = [regs EXCEPT ![t][r] = new],
         i \in Promised => new = v
  PROVE  Promise!Answer(t, r, v, i)
BY DEF Promise!Answer, Promise!Gets, Word, Promise!Word, DW

(* Fetch-and-op.                                                           *)
LEMMA RefBinOp ==
  ASSUME TypeOK, Promised \subseteq Kept,
         NEW t \in Threads, NEW op \in BinOps, NEW r \in Regs,
         NEW f \in BOOLEAN, BinOp(t, op, r, f)
  PROVE  Promise!Modify(t, op, r) \/ Promise!ModifyFetch(t, op, r)
<1>1. mem' = Promise!Result(op, width, mem, Promise!Operand(t, r))
  <2>1. mem' = AtomicRMW(op, width, mem, Reg(t, r, width))
    BY DEF BinOp, EmitAtomicBinOp
  <2>2. Reg(t, r, width) \in Word(width)
    BY WidthType, RegType
  <2> QED
    BY <2>1, <2>2, WidthType, RMWType, SameOperand
<1>2. CASE ~f
  BY <1>1, <1>2 DEF Promise!Modify, BinOp, EmitAtomicBinOp
<1>3. CASE f
  <2>1. StoreReg(t, r, width, mem)
    BY <1>3 DEF BinOp, EmitAtomicBinOp
  <2>2. PICK new : new = Put(regs[t][r], 0, width, mem)
    OBVIOUS
  <2>3. regs' = [regs EXCEPT ![t][r] = new]
    BY <2>1, <2>2 DEF StoreReg
  <2>4. regs[t][r] \in Word(DW)
    BY DEF TypeOK
  <2>5. new \in Word(DW)
    BY <2>2, <2>4, WidthType, PutType
  <2>6. <<op, TRUE, width>> \in Promised => new = mem
    <3> SUFFICES ASSUME <<op, TRUE, width>> \in Promised PROVE new = mem
      OBVIOUS
    <3>1. width = DW
      BY DEF Kept
    <3>2. regs' = [regs EXCEPT ![t][r] = mem]
      BY <3>1, <2>1, WidthType, WholeSlot
    <3>3. regs'[t][r] = new /\ regs'[t][r] = mem
      BY <2>3, <3>2 DEF TypeOK
    <3> QED
      BY <3>3
  <2>7. Promise!Answer(t, r, mem, <<op, TRUE, width>>)
    BY <2>3, <2>5, <2>6, Answers
  <2> QED
    BY <1>1, <2>7 DEF Promise!ModifyFetch, BinOp
<1> QED
  BY <1>2, <1>3

(* An exchange that keeps its register is one whose answer is arbitrary.   *)
LEMMA RefXchg ==
  ASSUME TypeOK, Promised \subseteq Kept,
         NEW t \in Threads, NEW r \in Regs, Xchg(t, r)
  PROVE  Promise!ModifyFetch(t, "xchg", r)
<1>1. mem' = Promise!Result("xchg", width, mem, Promise!Operand(t, r))
  <2>1. mem' = AtomicRMW("xchg", width, mem, Reg(t, r, width))
    BY DEF Xchg, EmitAtomicBinOp
  <2>2. AtomicRMW("xchg", width, mem, Reg(t, r, width))
          = Promise!Result("xchg", width, mem, Reg(t, r, width))
    BY DEF AtomicRMW, Promise!Result
  <2> QED
    BY <2>1, <2>2, SameOperand
<1>2. regs[t][r] \in Word(DW)
  BY DEF TypeOK
<1>3. regs' = [regs EXCEPT ![t][r] = regs[t][r]]
  BY DEF Xchg, EmitAtomicBinOp, TypeOK
<1>4. <<"xchg", TRUE, width>> \notin Promised
  BY DEF Kept, BinOps
<1>5. Promise!Answer(t, r, mem, <<"xchg", TRUE, width>>)
  BY <1>2, <1>3, <1>4, Answers
<1> QED
  BY <1>1, <1>5 DEF Promise!ModifyFetch, Xchg

(* The load of beforeVal is a stutter, the cmpxchg the instruction.        *)
LEMMA RefCmpxchg ==
  ASSUME TypeOK, Promised \subseteq Kept, NEW t \in Threads, Cmpxchg(t)
  PROVE  \E r \in Regs : Promise!CompareExchange(t, r)
<1>1. before[t] \in Pending
  BY DEF TypeOK, Cmpxchg, Ready
<1>2. PICK r \in Regs : r = before[t].src
  BY <1>1 DEF Pending
<1>3. PICK val \in Word(DW) : val = before[t].val
  BY <1>1 DEF Pending
<1>4. mem' = IF mem = Promise!Operand(t, 0) THEN Promise!Operand(t, r) ELSE mem
  BY <1>2, SameOperand DEF Cmpxchg
<1>5. regs' = [regs EXCEPT ![t][0] = val]
  BY <1>3, RegsAssumption, WholeSlot DEF Cmpxchg
<1>6. <<"cmpxchg", TRUE, width>> \notin Promised
  BY DEF Kept, BinOps
<1>7. Promise!Answer(t, 0, mem, <<"cmpxchg", TRUE, width>>)
  BY <1>5, <1>6, Answers
<1>8. Promise!CompareExchange(t, r)
  BY <1>4, <1>7 DEF Promise!CompareExchange, Cmpxchg
<1> QED
  BY <1>8

(* The instructions around them; a plain load is one that sets a register. *)
LEMMA RefSetReg ==
  ASSUME TypeOK, NEW t \in Threads, NEW r \in Regs, NEW v \in Word(DW),
         SetReg(t, r, v)
  PROVE  Promise!SetReg(t, r)
<1>1. regs' = [regs EXCEPT ![t][r] = v]
  BY WholeSlot DEF SetReg
<1>2. v \in Promise!Word(2 * W)
  BY DEF Word, Promise!Word, DW
<1> QED
  BY <1>1, <1>2 DEF SetReg, Promise!SetReg, Promise!Gets

LEMMA RefAccess ==
  ASSUME TypeOK, NEW t \in Threads, NEW r \in Regs
  PROVE  /\ CmpxchgLoad(t, r) => UNCHANGED <<width, regs, mem>>
         /\ Store(t, r) => Promise!Store(t, r)
         /\ Load(t, r) => Promise!SetReg(t, r)
<1>1. CmpxchgLoad(t, r) => UNCHANGED <<width, regs, mem>>
  BY DEF CmpxchgLoad
<1>2. Store(t, r) => Promise!Store(t, r)
  BY SameOperand DEF Store, Promise!Store
<1>3. Load(t, r) => Promise!SetReg(t, r)
  <2>1. mem \in Word(DW)
    BY WidthType, Shorter
  <2>2. Load(t, r) => SetReg(t, r, mem)
    BY DEF Load, SetReg
  <2> QED
    BY <2>1, <2>2, RefSetReg
<1> QED
  BY <1>1, <1>2, <1>3

LEMMA RefStep ==
  ASSUME TypeOK, Promised \subseteq Kept, [Next]_vars
  PROVE  [Promise!Next]_(Promise!vars)
<1>1. CASE UNCHANGED vars
  BY <1>1 DEF vars, Promise!vars
<1>2. CASE Next
  <2>0. PICK t \in Threads :
          \/ Cmpxchg(t)
          \/ \E r \in Regs :
               \/ \E op \in BinOps, f \in BOOLEAN : BinOp(t, op, r, f)
               \/ \E v \in Word(DW) : SetReg(t, r, v)
               \/ Xchg(t, r) \/ CmpxchgLoad(t, r) \/ Store(t, r) \/ Load(t, r)
    BY <1>2 DEF Next
  <2>1. CASE Cmpxchg(t)
    BY <2>1, RefCmpxchg DEF Promise!Next
  <2>2. CASE \E r \in Regs, v \in Word(DW) : SetReg(t, r, v)
    BY <2>2, RefSetReg DEF Promise!Next
  <2>3. CASE \E r \in Regs, op \in BinOps, f \in BOOLEAN : BinOp(t, op, r, f)
    <3>1. PICK r \in Regs, op \in BinOps, f \in BOOLEAN : BinOp(t, op, r, f)
      BY <2>3
    <3>2. Promise!Modify(t, op, r) \/ Promise!ModifyFetch(t, op, r)
      BY <3>1, RefBinOp
    <3>3. op \in Promise!BinOps
      BY DEF BinOps, Promise!BinOps
    <3> QED
      BY <3>2, <3>3 DEF Promise!Next
  <2>4. CASE \E r \in Regs : Xchg(t, r)
    BY <2>4, RefXchg DEF Promise!Next
  <2>5. CASE \E r \in Regs : CmpxchgLoad(t, r) \/ Store(t, r) \/ Load(t, r)
    BY <2>5, RefAccess DEF Promise!Next, Promise!vars
  <2> QED
    BY <2>0, <2>1, <2>2, <2>3, <2>4, <2>5
<1> QED
  BY <1>1, <1>2

(* If only 64-bit fetch-and-op has its result promised, the emitted code   *)
(* implements AtomicIsa at every location, of either width, for every      *)
(* number of threads and registers: whatever the threads do elsewhere, and *)
(* in whatever order memory performs it, every access to the location by   *)
(* an atomic instruction is atomic in the location's own order, those of a *)
(* compare-and-exchange and an exchange included.                          *)
THEOREM AtomicAccess ==
  ASSUME Promised \subseteq Kept
  PROVE  Spec => Atomic
<1>1. TypeOK /\ [Next]_vars => [Promise!Next]_(Promise!vars)
  BY RefStep
<1> QED
  BY <1>1, RefInit, Typing, PTL DEF Atomic, Spec, Promise!Spec
=============================================================================
