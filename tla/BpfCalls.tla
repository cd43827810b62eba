------------------------------- MODULE BpfCalls -------------------------------
(***************************************************************************)
(* What a local call promises an eBPF program: it returns to the           *)
(* instruction after the call, last caller first; the caller finds r6 to   *)
(* r9 and its own stack slots as it left them.  The promise is made for up *)
(* to MaxCalls nested calls; of a deeper one nothing is said (Wild).       *)
(***************************************************************************)
EXTENDS Integers, Sequences

CONSTANTS
  Points,     \* where control can be: the blocks of the program
  Start,      \* the point execution starts at
  Vals,       \* values of registers and stack slots
  Offsets,    \* the stack slots of a function, as offsets from its r10
  MaxCalls,
  Halt, Wild  \* the program has returned; anything may have happened

VARIABLES
  at,         \* where control is
  regs,       \* r6 to r9
  locals,     \* the stack slots of the running function
  stack       \* the suspended callers, the last one at the end

vars == <<at, regs, locals, stack>>

Saved  == 6 .. 9
Regs   == [Saved -> Vals]
Locals == [Offsets -> Vals]
Frame  == [ret : Points, regs : Regs, locals : Locals]

Init == /\ at = Start /\ stack = <<>>
        /\ regs \in Regs /\ locals \in Locals

SetReg ==
  /\ at \in Points
  /\ \E r \in Saved, v \in Vals : regs' = [regs EXCEPT ![r] = v]
  /\ UNCHANGED <<at, locals, stack>>

Store ==
  /\ at \in Points
  /\ \E o \in Offsets, v \in Vals : locals' = [locals EXCEPT ![o] = v]
  /\ UNCHANGED <<at, regs, stack>>

(* The callee starts with any contents in its registers and slots.         *)
Call ==
  /\ at \in Points /\ Len(stack) < MaxCalls
  /\ at' \in Points /\ regs' \in Regs /\ locals' \in Locals
  /\ \E ret \in Points :
       stack' = Append(stack, [ret |-> ret, regs |-> regs, locals |-> locals])

TooDeep ==
  /\ at \in Points /\ Len(stack) = MaxCalls
  /\ at' = Wild /\ UNCHANGED <<regs, locals, stack>>

Return ==
  /\ at \in Points /\ stack # <<>>
  /\ LET top == stack[Len(stack)] IN
       at' = top.ret /\ regs' = top.regs /\ locals' = top.locals
  /\ stack' = SubSeq(stack, 1, Len(stack) - 1)

Exit ==
  /\ at \in Points /\ stack = <<>>
  /\ at' = Halt /\ UNCHANGED <<regs, locals, stack>>

Next == SetReg \/ Store \/ Call \/ TooDeep \/ Return \/ Exit

Spec == Init /\ [][Next]_vars
=============================================================================
