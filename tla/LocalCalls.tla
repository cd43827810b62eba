------------------------------ MODULE LocalCalls ------------------------------
(***************************************************************************)
(* Local calls in the program generateModule emits: what the code emitted  *)
(* for a local call, for EXIT and for localRetBlock does to the call       *)
(* stack, to r6 to r9 and to the stack pointer r10 while the program runs. *)
(* Between calls the program writes these registers and its stack slots as *)
(* it likes; r10 is read-only in eBPF.  Addresses are bytes from           *)
(* stackBegin.                                                             *)
(***************************************************************************)
EXTENDS Integers, Sequences

CONSTANTS
  Points,                \* the blocks of the program
  Start,                 \* the block of instruction 0
  Vals,                  \* values of registers and stack slots
  Scratch,               \* those of r6 to r9 that the program writes
  Offsets,               \* the slots functions use, as offsets from r10
  STACK_SIZE,            \* (EBPF_STACK_SIZE + 7) / 8 = 64
  MAX_LOCAL_FUNC_DEPTH,  \* 32
  CALL_STACK_SIZE,       \* 64
  Halt, Wild,            \* bpf_main has returned; undefined behaviour
  Undef                  \* the contents of memory nothing was stored to

Saved == 6 .. 9

EBPF_STACK_SIZE == 8 * STACK_SIZE
StackEnd        == 8 * STACK_SIZE * MAX_LOCAL_FUNC_DEPTH

ASSUME PointsAssumption == /\ Start \in Points
                           /\ Halt \notin Points /\ Wild \notin Points
                           /\ Undef \in Vals
ASSUME SizeAssumption   == /\ STACK_SIZE \in Nat \ {0}
                           /\ MAX_LOCAL_FUNC_DEPTH \in Nat
                           /\ CALL_STACK_SIZE \in Nat
                           /\ STACK_SIZE * CALL_STACK_SIZE + EBPF_STACK_SIZE
                                <= StackEnd
ASSUME ProgramAssumption == /\ Scratch \subseteq Saved
                            /\ Offsets \subseteq -EBPF_STACK_SIZE .. -1

VARIABLES
  at,           \* the block control is in
  regs,         \* r6 to r9
  r10,          \* the stack pointer
  mem,          \* the data stack
  callStack,    \* the array of return addresses and saved registers
  callItemCnt   \* how many of its items are in use

vars == <<at, regs, r10, mem, callStack, callItemCnt>>

Items == 0 .. 5 * CALL_STACK_SIZE - 1

(* The slots that a function at some depth can use.                        *)
Base(depth) == StackEnd - STACK_SIZE * depth
Slots == {Base(d) + o : d \in 0 .. CALL_STACK_SIZE, o \in Offsets}

Depth == callItemCnt \div 5

-----------------------------------------------------------------------------
(* setupBlock: the counter is 0 and r10 is the end of the data stack.      *)
Init ==
  /\ at = Start
  /\ regs = [r \in Saved |-> Undef]
  /\ r10 = StackEnd
  /\ mem = [a \in Slots |-> Undef]
  /\ callStack = [n \in Items |-> Undef]
  /\ callItemCnt = 0

SetReg(r, v) ==
  /\ at \in Points
  /\ regs' = [regs EXCEPT ![r] = v]
  /\ UNCHANGED <<at, r10, mem, callStack, callItemCnt>>

Store(o, v) ==
  /\ at \in Points
  /\ mem' = [mem EXCEPT ![r10 + o] = v]
  /\ UNCHANGED <<at, regs, r10, callStack, callItemCnt>>

(* The items of the call that raises the counter to n: the return address  *)
(* topmost, then r6, r7, r8 and r9.                                        *)
(* AddrItem_Bottom, a bug: the address below the registers.                *)
AddrItem_Bottom(n) == n - 5
AddrItem(n)        == n - 1
RegItem(n, r)      == n - (r - 4)

(* A local call: five items are pushed and r10 moves down by STACK_SIZE.   *)
(* Bug: the registers are pushed in the order r9 to r6.                    *)
Pushed_Reversed(ret) ==
  LET nextPos == callItemCnt + 5 IN
  [n \in Items |->
     IF n = AddrItem(nextPos) THEN ret
     ELSE IF n - nextPos + 11 \in Saved THEN regs[n - nextPos + 11]
     ELSE callStack[n]]

Pushed(ret) ==
  LET nextPos == callItemCnt + 5 IN
  [n \in Items |->
     IF n = AddrItem(nextPos) THEN ret
     ELSE IF nextPos - n + 4 \in Saved THEN regs[nextPos - n + 4]
     ELSE callStack[n]]

(* Bug: the callee gets the caller's data stack.                           *)
Call_SameStack(ret, target) ==
  /\ at \in Points
  /\ callItemCnt + 5 <= 5 * CALL_STACK_SIZE
  /\ callItemCnt' = callItemCnt + 5
  /\ callStack' = Pushed(ret)
  /\ at' = target
  /\ UNCHANGED <<regs, r10, mem>>

Call(ret, target) ==
  /\ at \in Points
  /\ callItemCnt + 5 <= 5 * CALL_STACK_SIZE
  /\ callItemCnt' = callItemCnt + 5
  /\ callStack' = Pushed(ret)
  /\ r10' = r10 - STACK_SIZE
  /\ at' = target
  /\ UNCHANGED <<regs, mem>>

(* No depth is checked: one more call writes past the end of callStack.    *)
Overrun ==
  /\ at \in Points
  /\ callItemCnt + 5 > 5 * CALL_STACK_SIZE
  /\ at' = Wild
  /\ UNCHANGED <<regs, r10, mem, callStack, callItemCnt>>

(* Bug: the data stack is not restored.                                    *)
Return_KeepsR10 ==
  /\ at \in Points /\ callItemCnt # 0
  /\ at' = callStack[AddrItem(callItemCnt)]
  /\ regs' = [r \in Saved |-> callStack[RegItem(callItemCnt, r)]]
  /\ callItemCnt' = callItemCnt - 5
  /\ UNCHANGED <<r10, mem, callStack>>

(* EXIT with calls pending goes to localRetBlock.                          *)
Return ==
  /\ at \in Points /\ callItemCnt # 0
  /\ at' = callStack[AddrItem(callItemCnt)]
  /\ regs' = [r \in Saved |-> callStack[RegItem(callItemCnt, r)]]
  /\ callItemCnt' = callItemCnt - 5
  /\ r10' = r10 + STACK_SIZE
  /\ UNCHANGED <<mem, callStack>>

(* EXIT of the main program goes to exitBlock.                             *)
Exit ==
  /\ at \in Points /\ callItemCnt = 0
  /\ at' = Halt
  /\ UNCHANGED <<regs, r10, mem, callStack, callItemCnt>>

Next ==
  \/ \E r \in Scratch, v \in Vals : SetReg(r, v)
  \/ \E o \in Offsets, v \in Vals : Store(o, v)
  \/ \E ret, target \in Points : Call(ret, target)
  \/ Overrun \/ Return \/ Exit

Spec == Init /\ [][Next]_vars

-----------------------------------------------------------------------------
TypeOK ==
  /\ at \in Points \cup {Halt, Wild}
  /\ regs \in [Saved -> Vals]
  /\ r10 \in Int
  /\ mem \in [Slots -> Vals]
  /\ callStack \in [Items -> Points \cup Vals]
  /\ callItemCnt \in 0 .. 5 * CALL_STACK_SIZE

(* Calls and returns balance: r10 has moved once for each pending call,    *)
(* and every slot of the running function is inside the data stack, at     *)
(* every depth callStack has room for.                                     *)
StackBalanced ==
  /\ callItemCnt = 5 * Depth
  /\ r10 = Base(Depth)
  /\ \A o \in Offsets : r10 + o \in 0 .. StackEnd - 1

(* A step never changes the stack slots of a suspended caller: "Move data  *)
(* stack" before a call is what keeps them apart from the callee's.        *)
CallerLocalsKept ==
  [][\A d \in 0 .. Depth - 1 : \A o \in Offsets :
       mem'[Base(d) + o] = mem[Base(d) + o]]_vars

(***************************************************************************)
(* The promise of local calls, read off the call stack and the data stack. *)
(***************************************************************************)
SlotsAt(d) == [o \in Offsets |-> mem[Base(d) + o]]
FrameAt(k) ==
  [ret    |-> callStack[AddrItem(5 * k)],
   regs   |-> [r \in Saved |-> callStack[RegItem(5 * k, r)]],
   locals |-> SlotsAt(k - 1)]

Bpf == INSTANCE BpfCalls WITH
         MaxCalls <- CALL_STACK_SIZE,
         locals   <- SlotsAt(Depth),
         stack    <- [k \in 1 .. Depth |-> FrameAt(k)]

(* The emitted calls keep the promise, up to CALL_STACK_SIZE nested calls, *)
(* for functions that use at most STACK_SIZE bytes of stack.               *)
KeepsPromise == Bpf!Spec
=============================================================================
