-------------------------------- MODULE Powers --------------------------------
(* Powers of two and binary digits, for the words of LLVM IR and for the   *)
(* integers of the instruction set.                                        *)
EXTENDS Integers, Functions

Pow2[n \in Nat] == IF n = 0 THEN 1 ELSE 2 * Pow2[n - 1]

(* The b-th binary digit of an integer, in two's complement.               *)
Bit(x, b) == (x \div Pow2[b]) % 2

(* The number whose binary digits are 1 at the positions in S.             *)
FromBits(S) == SumFunctionOnSet(Pow2, S)
=============================================================================
