------------------------------- MODULE Machine -------------------------------
(***************************************************************************)
(* The whole way of a program: CodeGen makes blocks of it, and the blocks  *)
(* are run, with the call stack of local calls.  Control goes from entry   *)
(* to entry of a block and from its terminator to another block; EXIT      *)
(* tests callItemCnt and goes to exitBlock or to localRetBlock, whose      *)
(* indirectbr takes the address the last call pushed.                      *)
(***************************************************************************)
EXTENDS CodeGen

CONSTANTS
  CALL_STACK_SIZE,  \* 64: the calls callStack has room for
  Halt, Wild        \* bpf_main has returned; undefined behaviour

ASSUME StackAssumption == CALL_STACK_SIZE \in Nat
ASSUME PlacesAssumption == Halt \notin Int /\ Wild \notin Int /\ Halt # Wild

VARIABLES
  blk, pos,  \* the block control is in, and the entry that runs next
  rets       \* the return addresses in callStack, as blocks

run == <<blk, pos, rets>>

EntryAt == code[blk][pos]
Loaded  == phase = "done" /\ blk \in Blocks

Goto(b) == blk' = (IF b = Exit THEN Halt ELSE b) /\ pos' = 1

-----------------------------------------------------------------------------
MachineInit == Init /\ blk = Setup /\ pos = 1 /\ rets = <<>>

Compile == phase # "done" /\ Next /\ UNCHANGED run

Continue ==
  /\ Loaded /\ EntryAt.to = <<>>
  /\ pos' = pos + 1
  /\ UNCHANGED <<blk, rets>>

EndsBlock == Loaded /\ EntryAt.to # <<>>
Op == IF EntryAt.pc = None THEN "br" ELSE At(EntryAt.pc).op

(* A branch: of JA, to the next block, or after a tail call.               *)
Branch ==
  /\ EndsBlock
  /\ Op \in {"br", "ja"} \/ (Op \in {"call", "callx"} /\ ~IsLocalCall(EntryAt.pc))
  /\ Goto(EntryAt.to[1])
  /\ UNCHANGED rets

Conditional ==
  /\ EndsBlock /\ Op = "jcond"
  /\ \E k \in 1 .. 2 : Goto(EntryAt.to[k])
  /\ UNCHANGED rets

(* The address of the block after the call is pushed.                      *)
(* Bug: the address of the call's own block is pushed.                     *)
ReturnAddress_Own   == EntryAt.pc % PcMod
ReturnAddress       == (EntryAt.pc + 1) % PcMod
Calling == EndsBlock /\ Op \in {"call", "callx"} /\ IsLocalCall(EntryAt.pc)
Call ==
  /\ Calling /\ Len(rets) < CALL_STACK_SIZE
  /\ rets' = Append(rets, ReturnAddress)
  /\ Goto(EntryAt.to[1])
Overrun ==
  /\ Calling /\ Len(rets) >= CALL_STACK_SIZE
  /\ blk' = Wild /\ UNCHANGED <<pos, rets>>

ExitMain ==
  /\ EndsBlock /\ Op = "exit" /\ rets = <<>>
  /\ Goto(EntryAt.to[1]) /\ UNCHANGED rets

(* localRetBlock: an indirectbr to an address that is not one of its       *)
(* destinations is undefined.                                              *)
(* Bug: the counter is not lowered.                                        *)
Return_KeepsItem ==
  /\ EndsBlock /\ Op = "exit" /\ rets # <<>>
  /\ LET top == rets[Len(rets)]
     IN  IF top \in retDests THEN Goto(top) ELSE blk' = Wild /\ pos' = 1
  /\ UNCHANGED rets
Return ==
  /\ EndsBlock /\ Op = "exit" /\ rets # <<>>
  /\ LET top == rets[Len(rets)]
     IN  IF top \in retDests THEN Goto(top) ELSE blk' = Wild /\ pos' = 1
  /\ rets' = SubSeq(rets, 1, Len(rets) - 1)

Execute ==
  /\ \/ Continue \/ Branch \/ Conditional \/ Call \/ Overrun
     \/ ExitMain \/ Return
  /\ UNCHANGED vars

Over == phase = "done" /\ blk \in {Halt, Wild} /\ UNCHANGED <<vars, run>>

MachineNext == Compile \/ Execute \/ Over

(* One thread compiles and then runs the program.                          *)
MachineFairness == WF_<<vars, run>>(Compile) /\ WF_<<vars, run>>(Execute)

MachineSpec == MachineInit /\ [][MachineNext]_<<vars, run>> /\ MachineFairness

-----------------------------------------------------------------------------
(* Control is always at an entry of a block, so that it never runs off the *)
(* end of one, and every address on the call stack is one that localRet-   *)
(* Block can go to.  Only a call beyond CALL_STACK_SIZE is undefined.      *)
InBlock ==
  /\ blk \in Blocks \cup {Halt, Wild}
  /\ Loaded => pos \in 1 .. Len(code[blk])
  /\ rets \in Seq(retDests)
  /\ blk = Wild => Len(rets) = CALL_STACK_SIZE

(* The instruction that runs next; a branch that closes a block is none.   *)
NextInsn ==
  CASE ~(phase = "done") -> 0
    [] phase = "done" /\ blk \in {Halt, Wild} -> blk
    [] phase = "done" /\ blk \in Blocks ->
         IF EntryAt.pc = None THEN EntryAt.to[1] ELSE EntryAt.pc

Flow == INSTANCE BpfFlow WITH
          MaxCalls <- CALL_STACK_SIZE, prog <- insns, pc <- NextInsn,
          calls <- rets

(* A well-formed program, compiled and run, does what the eBPF program     *)
(* does: the same instructions in the same order, with each local call     *)
(* returning to the instruction after it, without an end of its own.       *)
RunsProgram == Flow!Spec
=============================================================================
