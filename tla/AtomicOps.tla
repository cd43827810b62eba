------------------------------- MODULE AtomicOps -------------------------------
(***************************************************************************)
(* The code generateModule emits for EBPF_ATOMIC_OPCODE_32 and _64, run by *)
(* threads that share memory.  A fetch-and-op is one atomicrmw; a compare- *)
(* and-exchange is a load, whose value becomes the result, and then a      *)
(* cmpxchg, whose result is dropped.  Registers are a thread's own, so     *)
(* that reading and writing them is part of the access to memory next to   *)
(* it.                                                                     *)
(*                                                                         *)
(* The ordering of both is Monotonic: the accesses to one location happen  *)
(* in one order, in which those of a thread keep their places, an          *)
(* atomicrmw or cmpxchg reads the value just before its own, and accesses  *)
(* to two locations have no order at all.  So the module follows one       *)
(* location, through its own order.  All else a thread does before,        *)
(* between and after, its accesses to other locations included, in         *)
(* whatever order memory performs them, is SetReg: a register gets any     *)
(* value.                                                                  *)
(***************************************************************************)
EXTENDS Words

CONSTANTS
  Threads,
  Regs,      \* registers; 0 is r0
  W,         \* 32
  Promised,  \* the instructions whose result is promised, see AtomicIsa
  None       \* a thread is between two instructions

ASSUME RegsAssumption  == 0 \in Regs
ASSUME WidthAssumption == W \in Nat \ {0}

VARIABLES
  width,     \* of the location: the one inst.code selects
  regs,      \* regs[t][r]: the slot of register r of thread t
  mem,       \* the location
  before     \* before[t]: t has loaded beforeVal and not yet exchanged

vars == <<width, regs, mem, before>>

DW     == 2 * W
BinOps == {"add", "and", "or", "xor"}

(* A thread between the two accesses of EBPF_CMPXCHG.                      *)
Pending == [src : Regs, val : Word(DW)]

(* CreateLoad of an iN from the slot of a register, and CreateStore of an  *)
(* iN to it: the rest of the slot stays as it is.                          *)
Reg(t, r, n) == Trunc(n, regs[t][r])
StoreReg(t, r, n, v) == regs' = [regs EXCEPT ![t][r] = Put(@, 0, n, v)]

Ready(t) == before[t] = None

-----------------------------------------------------------------------------
Init ==
  /\ width \in {W, DW}
  /\ regs \in [Threads -> [Regs -> Word(DW)]]
  /\ mem \in Word(width)
  /\ before = [t \in Threads |-> None]

(* The BinOp of atomicrmw.                                                 *)
AtomicRMW(op, n, old, src) ==
  CASE op = "add"  -> OfInt(n, Unsigned(old) + Unsigned(src))
    [] op = "and"  -> old \cap src
    [] op = "or"   -> old \cup src
    [] op = "xor"  -> SymDiff(old, src)
    [] op = "xchg" -> src

(* emitAtomicBinOp.                                                        *)
(* Bug: the source of a 32-bit operation is not truncated.                 *)
EmitAtomicBinOp_NoTrunc(t, op, r, is_fetch) ==
  /\ mem' = AtomicRMW(op, width, mem, regs[t][r])
  /\ IF is_fetch THEN StoreReg(t, r, width, mem) ELSE UNCHANGED regs

(* Bug: the result is read back from memory, after the operation.          *)
EmitAtomicBinOp_NewValue(t, op, r, is_fetch) ==
  /\ mem' = AtomicRMW(op, width, mem, Reg(t, r, width))
  /\ IF is_fetch THEN StoreReg(t, r, width, mem') ELSE UNCHANGED regs

EmitAtomicBinOp(t, op, r, is_fetch) ==
  LET oldValue == mem IN
  /\ mem' = AtomicRMW(op, width, oldValue, Reg(t, r, width))
  /\ IF is_fetch THEN StoreReg(t, r, width, oldValue) ELSE UNCHANGED regs

BinOp(t, op, r, is_fetch) ==
  Ready(t) /\ EmitAtomicBinOp(t, op, r, is_fetch) /\ UNCHANGED <<width, before>>

(* EBPF_XCHG is emitted with is_fetch false.                               *)
Xchg(t, r) ==
  Ready(t) /\ EmitAtomicBinOp(t, "xchg", r, FALSE) /\ UNCHANGED <<width, before>>

(* EBPF_CMPXCHG: the load of beforeVal, a plain one.                       *)
CmpxchgLoad(t, r) ==
  /\ Ready(t)
  /\ before' = [before EXCEPT ![t] = [src |-> r, val |-> mem]]
  /\ UNCHANGED <<width, regs, mem>>

(* The cmpxchg, and zext(beforeVal) into r0.                               *)
Cmpxchg(t) ==
  /\ ~Ready(t)
  /\ mem' = IF mem = Reg(t, 0, width) THEN Reg(t, before[t].src, width) ELSE mem
  /\ StoreReg(t, 0, DW, before[t].val)
  /\ before' = [before EXCEPT ![t] = None]
  /\ UNCHANGED width

(* emitStore and emitLoadX of the location, plain accesses: on riscv64     *)
(* each is one aligned store or load.  And all instructions that write a   *)
(* register.                                                               *)
Store(t, r) ==
  Ready(t) /\ mem' = Reg(t, r, width) /\ UNCHANGED <<width, regs, before>>
Load(t, r) ==
  Ready(t) /\ StoreReg(t, r, DW, mem) /\ UNCHANGED <<width, mem, before>>
SetReg(t, r, v) ==
  Ready(t) /\ StoreReg(t, r, DW, v) /\ UNCHANGED <<width, mem, before>>

Next ==
  \E t \in Threads :
    \/ Cmpxchg(t)
    \/ \E r \in Regs :
         \/ \E op \in BinOps, is_fetch \in BOOLEAN : BinOp(t, op, r, is_fetch)
         \/ \E v \in Word(DW) : SetReg(t, r, v)
         \/ Xchg(t, r) \/ CmpxchgLoad(t, r) \/ Store(t, r) \/ Load(t, r)

Spec == Init /\ [][Next]_vars

-----------------------------------------------------------------------------
(* Registers hold words of 64 bits and the location one of its width.      *)
TypeOK ==
  /\ width \in {W, DW}
  /\ regs \in [Threads -> [Regs -> Word(DW)]]
  /\ mem \in Word(width)
  /\ before \in [Threads -> {None} \cup Pending]

(* The atomic instructions keep what AtomicIsa promises of each location:  *)
(* every one takes effect on it at one instant of its order, whatever the  *)
(* other threads do, and the promised results are those of that instant.   *)
(* What can be promised are the operations without fetch and the 64-bit    *)
(* ones with it.                                                           *)
Promise == INSTANCE AtomicIsa
Atomic == Promise!Spec

(* The instructions of which the emitted code keeps the whole promise.     *)
Kept == {<<op, TRUE, DW>> : op \in BinOps}
=============================================================================
