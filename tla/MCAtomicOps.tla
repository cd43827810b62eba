------------------------------ MODULE MCAtomicOps ------------------------------
(* Two threads with r0 and one more register, and a location of either     *)
(* width.  Nothing in AtomicOps or AtomicIsa tells the threads apart.      *)
EXTENDS AtomicOps, TLC

Symmetry == Permutations(Threads)

(* EBPF_CMPXCHG promised as well.                                          *)
WithCmpxchg == Kept \cup {<<"cmpxchg", TRUE, n>> : n \in {W, DW}}
=============================================================================
