------------------------------- MODULE MCMachine -------------------------------
(* Every well-formed program of up to MaxSize instructions over an alphabet *)
(* with branches and calls in both directions.                              *)
EXTENDS Machine

CONSTANT MaxSize

I(op, src, off, imm) == [op |-> op, dst |-> 0, src |-> src, off |-> off, imm |-> imm]

Alphabet ==
  {I("straight", 0, 0, 0), I("exit", 0, 0, 0),
   I("lddw", 0, 0, 0), I("slot", 0, 0, 0),
   I("call", 1, 0, 1), I("call", 1, 0, -2), I("call", 0, 0, 6), I("call", 0, 0, 12),
   I("ja", 0, -2, 0), I("ja", 0, 1, 0), I("jcond", 0, -3, 0), I("jcond", 0, 1, 0)}

MCPrograms == UNION {[1 .. n -> Alphabet] : n \in 1 .. MaxSize}

MCInit == MachineInit /\ WellFormed
MCSpec == MCInit /\ [][MachineNext]_<<vars, run>> /\ MachineFairness
=============================================================================
