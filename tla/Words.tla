-------------------------------- MODULE Words --------------------------------
(***************************************************************************)
(* The integers of LLVM IR.  An iN is the set of its bit positions that    *)
(* are 1, a subset of 0 .. N - 1, so that zext and a load of the low part  *)
(* of a slot need no operator, and add, sub and mul are those of integers  *)
(* taken back to N bits.                                                   *)
(***************************************************************************)
EXTENDS Powers, FiniteSetsExt

Word(n) == SUBSET (0 .. n - 1)

(* An integer as the constant of width n: getInt32, getInt64 and the       *)
(* conversions of C, which keep the low bits of the two's complement.      *)
OfInt(n, k) == {i \in 0 .. n - 1 : Bit(k, i) = 1}

Unsigned(w)  == FromBits(w)
Signed(n, w) == IF n - 1 \in w THEN Unsigned(w) - Pow2[n] ELSE Unsigned(w)

Trunc(n, w) == w \cap (0 .. n - 1)

(* shl, lshr and ashr by less than the width.                              *)
Shl(n, w, k)  == {i \in 0 .. n - 1 : i - k \in w}
LShr(n, w, k) == {i \in 0 .. n - 1 : i + k \in w}
AShr(n, w, k) == {i \in 0 .. n - 1 :
                    (IF i + k < n THEN i + k ELSE n - 1) \in w}

(* The part of a longer word that begins at bit b and is n bits long, and  *)
(* the word with that part replaced.                                       *)
Part(w, b, n)   == {i \in 0 .. n - 1 : i + b \in w}
Put(w, b, n, v) == (w \ (b .. b + n - 1)) \cup {i + b : i \in v}
=============================================================================
