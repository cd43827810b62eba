------------------------------- MODULE AtomicIsa -------------------------------
(***************************************************************************)
(* What the atomic instructions of eBPF promise to threads that share      *)
(* memory, of each location by itself: an instruction takes effect on the  *)
(* location at one instant, and leaves in a register the value it held     *)
(* just before, extended with zeros.  For instructions outside Promised    *)
(* only the first half is promised: the register may hold anything.        *)
(* Nothing is promised of the order of accesses to two locations, nor of   *)
(* the value of a plain load.                                              *)
(***************************************************************************)
EXTENDS Words

CONSTANTS
  Threads,
  Regs,      \* registers; 0 is r0
  W,         \* 32
  Promised   \* the instructions <<op, fetch, width>> promised in full

VARIABLES width, regs, mem

vars == <<width, regs, mem>>

BinOps == {"add", "and", "or", "xor"}

Operand(t, r) == Trunc(width, regs[t][r])

Result(op, n, old, src) ==
  CASE op = "add"  -> OfInt(n, Unsigned(old) + Unsigned(src))
    [] op = "and"  -> {i \in 0 .. n - 1 : i \in old /\ i \in src}
    [] op = "or"   -> {i \in 0 .. n - 1 : i \in old \/ i \in src}
    [] op = "xor"  -> {i \in 0 .. n - 1 : (i \in old) # (i \in src)}
    [] op = "xchg" -> src

(* Register r of thread t gets v; the register of an instruction that      *)
(* promises nothing about it gets anything.                                *)
Gets(t, r, v) == regs' = [regs EXCEPT ![t][r] = v]
Answer(t, r, v, i) ==
  \E new \in Word(2 * W) : Gets(t, r, new) /\ (i \in Promised => new = v)

Init == /\ width \in {W, 2 * W}
        /\ regs \in [Threads -> [Regs -> Word(2 * W)]]
        /\ mem \in Word(width)

(* Fetch-and-op with its result dropped or kept, and exchange.             *)
Modify(t, op, r) ==
  /\ mem' = Result(op, width, mem, Operand(t, r))
  /\ UNCHANGED <<width, regs>>
ModifyFetch(t, op, r) ==
  /\ Answer(t, r, mem, <<op, TRUE, width>>)
  /\ mem' = Result(op, width, mem, Operand(t, r))
  /\ UNCHANGED width

(* Compare-and-exchange of the location with r0.                           *)
CompareExchange(t, r) ==
  /\ Answer(t, 0, mem, <<"cmpxchg", TRUE, width>>)
  /\ mem' = IF mem = Operand(t, 0) THEN Operand(t, r) ELSE mem
  /\ UNCHANGED width

(* A plain store, and all that only changes a register.                    *)
Store(t, r)  == mem' = Operand(t, r) /\ UNCHANGED <<width, regs>>
SetReg(t, r) == \E v \in Word(2 * W) : Gets(t, r, v) /\ UNCHANGED <<width, mem>>

Next ==
  \E t \in Threads, r \in Regs :
    \/ \E op \in BinOps : Modify(t, op, r) \/ ModifyFetch(t, op, r)
    \/ ModifyFetch(t, "xchg", r)
    \/ CompareExchange(t, r)
    \/ Store(t, r)
    \/ SetReg(t, r)

Spec == Init /\ [][Next]_vars
=============================================================================
