----------------------------- MODULE MCLocalCalls -----------------------------
(* Instances of LocalCalls: two blocks, two values, a shallow call stack,  *)
(* and stack slots as byte offsets from r10.                               *)
EXTENDS LocalCalls

NearSlot == {-8}         \* a slot within STACK_SIZE bytes of r10
FarSlots == {-8, -72}    \* and one beyond it, within EBPF_STACK_SIZE
=============================================================================
