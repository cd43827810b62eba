------------------------------- MODULE BpfFlow -------------------------------
(***************************************************************************)
(* Control in an eBPF program, as the instruction set defines it: which    *)
(* instruction runs next, and which calls are waiting for a return.  Of    *)
(* more than MaxCalls nested calls nothing is said (Wild).                 *)
(***************************************************************************)
EXTENDS Integers, Sequences

CONSTANTS MaxCalls, Halt, Wild

VARIABLES
  prog,   \* the program
  pc,     \* the instruction that runs next, or Halt or Wild
  calls   \* where the pending calls return to, the last one at the end

vars == <<prog, pc, calls>>

Running == pc \in 0 .. Len(prog) - 1
Insn    == prog[pc + 1]

Goto(n) == pc' = n /\ UNCHANGED <<prog, calls>>

IsLocal  == Insn.op = "call" /\ Insn.src = 1
TailCall == Insn.op = "call" /\ Insn.src # 1 /\ Insn.imm = 12
IsHelper == Insn.op = "call" /\ Insn.src # 1 /\ Insn.imm # 12

Init == pc = 0 /\ calls = <<>>

(* An ALU, load, store or atomic instruction, or a helper that returns.    *)
Straight == Running /\ (Insn.op = "straight" \/ IsHelper) /\ Goto(pc + 1)

(* The 64-bit load is the one instruction of two slots.                    *)
LoadImm64 == Running /\ Insn.op = "lddw" /\ Goto(pc + 2)

Jump == /\ Running /\ Insn.op \in {"ja", "jcond"}
        /\ Goto(pc + 1 + Insn.off)
NotTaken == Running /\ Insn.op = "jcond" /\ Goto(pc + 1)

Call ==
  /\ Running /\ IsLocal /\ Len(calls) < MaxCalls
  /\ pc' = pc + 1 + Insn.imm /\ calls' = Append(calls, pc + 1)
  /\ UNCHANGED prog
TooDeep == Running /\ IsLocal /\ Len(calls) = MaxCalls /\ Goto(Wild)

Return ==
  /\ Running /\ Insn.op = "exit" /\ calls # <<>>
  /\ pc' = calls[Len(calls)] /\ calls' = SubSeq(calls, 1, Len(calls) - 1)
  /\ UNCHANGED prog
Exit == Running /\ ((Insn.op = "exit" /\ calls = <<>>) \/ TailCall) /\ Goto(Halt)

Next ==
  \/ Straight \/ LoadImm64 \/ Jump \/ NotTaken \/ Call \/ TooDeep
  \/ Return \/ Exit

(* A program that is running goes on.                                      *)
Spec == Init /\ [][Next]_vars /\ WF_vars(Next)
=============================================================================
