------------------------------ MODULE InsnsProofs ------------------------------
(***************************************************************************)
(* Proofs about Insns: registers and memory hold words of their width, and *)
(* the emitted code implements the instruction set.  The words are taken   *)
(* to numbers first, then the operations on words to arithmetic, then each *)
(* instruction to the step of Isa with its name.                           *)
(***************************************************************************)
EXTENDS Insns, Induction

(* A word as a number.                                                     *)
LEMMA ValueMore ==
  ASSUME NEW n \in Nat, NEW w \in Word(n)
  PROVE  /\ Unsigned(w) \in Int
         /\ Unsigned(w \cup {n}) = Unsigned(w) + Pow2[n]
<1>1. n + 1 \in Nat /\ w \in SUBSET (0 .. (n + 1) - 1) /\ n \in 0 .. (n + 1) - 1 /\ n \notin w
  BY DEF Word
<1>2. \A y \in w \cup {n} : Pow2[y] \in Int
  BY <1>1, Pow2Pos
<1> QED
  BY <1>1, <1>2, SumAdd DEF Unsigned, FromBits

LEMMA ValueEmpty == Unsigned({}) = 0
BY SumEmpty DEF Unsigned, FromBits

LEMMA OfIntMore ==
  ASSUME NEW n \in Nat, NEW x \in Int
  PROVE  OfInt(n + 1, x) = IF Bit(x, n) = 1 THEN OfInt(n, x) \cup {n} ELSE OfInt(n, x)
<1>1. 0 .. (n + 1) - 1 = (0 .. n - 1) \cup {n}
  OBVIOUS
<1>2. OfInt(n + 1, x) = {i \in (0 .. n - 1) \cup {n} : Bit(x, i) = 1}
  BY <1>1 DEF OfInt
<1> QED
  BY <1>2 DEF OfInt

(* A number taken to n bits and back is the number modulo 2^n.             *)
LEMMA ValueOfInt ==
  ASSUME NEW n \in Nat, NEW x \in Int
  PROVE  Unsigned(OfInt(n, x)) = x % Pow2[n]
<1> DEFINE P == {k \in Nat : Unsigned(OfInt(k, x)) = x % Pow2[k]}
<1>1. 0 \in P
  <2>1. OfInt(0, x) = {}
    BY DEF OfInt
  <2>2. x % 1 = 0
    OBVIOUS
  <2> QED
    BY <2>1, <2>2, ValueEmpty, Pow2Is
<1>2. ASSUME NEW k \in Nat, k \in P PROVE k + 1 \in P
  <2>1. OfInt(k, x) \in Word(k)
    BY DEF OfInt, Word
  <2>2. PICK u \in Int, p \in Nat \ {0} : u = Unsigned(OfInt(k, x)) /\ p = Pow2[k]
    BY <2>1, ValueMore, Pow2Pos
  <2>3. u = x % p
    BY <1>2, <2>2
  <2>4. x % Pow2[k + 1] = u + Bit(x, k) * p
    BY <2>2, <2>3, BitMore
  <2>5. CASE Bit(x, k) = 1
    <3>1. Unsigned(OfInt(k + 1, x)) = u + p
      BY <2>1, <2>2, <2>5, OfIntMore, ValueMore
    <3>2. u + 1 * p = u + p
      OBVIOUS
    <3> QED
      BY <2>4, <2>5, <3>1, <3>2
  <2>6. CASE Bit(x, k) = 0
    <3>0. ~(Bit(x, k) = 1)
      BY <2>6
    <3>1. OfInt(k + 1, x) = OfInt(k, x)
      BY <3>0, OfIntMore
    <3>2. u + 0 * p = u
      OBVIOUS
    <3> QED
      BY <2>2, <2>4, <2>6, <3>1, <3>2
  <2> QED
    BY <2>5, <2>6, BitIs
<1> HIDE DEF P
<1>3. \A k \in Nat : k \in P
  BY <1>1, <1>2, SimpleInduction
<1> QED
  BY <1>3 DEF P

(* Every word is the word of a number below the power of its width.        *)
LEMMA WordOfInt ==
  ASSUME NEW n \in Nat
  PROVE  \A w \in Word(n) : \E x \in 0 .. Pow2[n] - 1 : w = OfInt(n, x)
<1> DEFINE P == {k \in Nat : \A w \in Word(k) :
                               \E x \in 0 .. Pow2[k] - 1 : w = OfInt(k, x)}
<1>1. 0 \in P
  <2>1. ASSUME NEW w \in Word(0) PROVE w = OfInt(0, 0)
    BY DEF Word, OfInt
  <2>2. 0 \in 0 .. Pow2[0] - 1
    BY Pow2Is
  <2> QED
    BY <2>1, <2>2
<1>2. ASSUME NEW k \in Nat, k \in P PROVE k + 1 \in P
  <2>1. PICK p \in Nat \ {0} : p = Pow2[k] /\ Pow2[k + 1] = 2 * p
    BY Pow2Is
  <2>2. ASSUME NEW w \in Word(k + 1)
        PROVE  \E x \in 0 .. 2 * p - 1 : w = OfInt(k + 1, x)
    <3>1. w \ {k} \in Word(k)
      BY DEF Word
    <3>2. PICK x \in 0 .. p - 1 : w \ {k} = OfInt(k, x)
      BY <3>1, <1>2, <2>1
    <3>3. CASE k \notin w
      <4>1. x \div p = 0
        <5>1. x = 0 * p + x /\ x \in Int
          OBVIOUS
        <5> QED
          BY <5>1, DivUnique
      <4>2. Bit(x, k) = 0
        BY <4>1, <2>1 DEF Bit
      <4>3. OfInt(k + 1, x) = OfInt(k, x)
        <5>1. x \in Int /\ 0 # 1
          OBVIOUS
        <5> QED
          BY <4>2, <5>1, OfIntMore
      <4>4. w \ {k} = w
        BY <3>3
      <4>5. x \in 0 .. 2 * p - 1
        OBVIOUS
      <4> QED
        BY <3>2, <4>3, <4>4, <4>5
    <3>4. CASE k \in w
      <4> DEFINE y == x + 1 * p
      <4>0. y \in Int /\ y = 1 * p + x /\ y \in 0 .. 2 * p - 1 /\ x \in Int
        OBVIOUS
      <4>1. y \div p = 1
        BY <4>0, DivUnique
      <4>2. Bit(y, k) = 1
        BY <4>1, <2>1 DEF Bit
      <4>3. ASSUME NEW i \in 0 .. k - 1 PROVE Bit(y, i) = Bit(x, i)
        BY <4>0, <2>1, BitShift
      <4> HIDE DEF y
      <4>4. OfInt(k, y) = OfInt(k, x)
        BY <4>3 DEF OfInt
      <4>5. OfInt(k + 1, y) = OfInt(k, x) \cup {k}
        BY <4>0, <4>2, <4>4, OfIntMore
      <4>6. w = (w \ {k}) \cup {k}
        BY <3>4
      <4> QED
        BY <3>2, <4>0, <4>5, <4>6
    <3> QED
      BY <3>3, <3>4
  <2> QED
    BY <2>1, <2>2
<1> HIDE DEF P
<1>3. \A k \in Nat : k \in P
  BY <1>1, <1>2, SimpleInduction
<1> QED
  BY <1>3 DEF P

(* A number below a power of two: its remainder and its digits.            *)
LEMMA SmallMod ==
  ASSUME NEW n \in Nat, NEW x \in 0 .. Pow2[n] - 1
  PROVE  /\ x % Pow2[n] = x
         /\ \A i \in Nat : i >= n => Bit(x, i) = 0
<1>1. ASSUME NEW i \in Nat, i >= n
      PROVE  x \div Pow2[i] = 0 /\ x % Pow2[i] = x
  <2>1. PICK p \in Nat \ {0}, m \in Nat \ {0} : p = Pow2[n] /\ m = Pow2[i] /\ p <= m
    BY <1>1, Pow2Pos, Pow2Below
  <2>2. x \in Int /\ x = 0 * m + x /\ x \in 0 .. m - 1
    BY <2>1
  <2> QED
    BY <2>1, <2>2, DivUnique
<1> QED
  BY <1>1 DEF Bit

(* A word and its number determine each other.                             *)
LEMMA WordIs ==
  ASSUME NEW n \in Nat, NEW w \in Word(n)
  PROVE  /\ Unsigned(w) \in 0 .. Pow2[n] - 1
         /\ Unsigned(w) % Pow2[n] = Unsigned(w)
         /\ w = OfInt(n, Unsigned(w))
         /\ \A i \in Nat : i \in w <=> Bit(Unsigned(w), i) = 1
<1>1. PICK x \in 0 .. Pow2[n] - 1 : w = OfInt(n, x)
  BY WordOfInt
<1>2. x \in Int
  BY Pow2Pos
<1>3. Unsigned(w) = x
  BY <1>1, <1>2, ValueOfInt, SmallMod
<1>4. ASSUME NEW i \in Nat PROVE i \in w <=> Bit(x, i) = 1
  <2>1. CASE i < n
    BY <2>1, <1>1 DEF OfInt
  <2>2. CASE i >= n
    BY <2>2, <1>1, SmallMod DEF OfInt
  <2> QED
    BY <2>1, <2>2
<1> QED
  BY <1>1, <1>3, <1>4, SmallMod

(* Two words of one width are equal if their numbers are.                  *)
LEMMA WordsEqual ==
  ASSUME NEW n \in Nat, NEW v \in Word(n), NEW w \in Word(n)
  PROVE  v = w <=> Unsigned(v) = Unsigned(w)
BY WordIs

LEMMA WordZero ==
  ASSUME NEW n \in Nat, NEW w \in Word(n)
  PROVE  w = {} <=> Unsigned(w) = 0
<1>1. {} \in Word(n)
  BY DEF Word
<1> QED
  BY <1>1, WordsEqual, ValueEmpty

(* Taking, moving and joining bits, as arithmetic.                         *)
LEMMA TruncIs ==
  ASSUME NEW n \in Nat, NEW m \in Nat, NEW w \in Word(m)
  PROVE  /\ Trunc(n, w) = OfInt(n, Unsigned(w))
         /\ Unsigned(Trunc(n, w)) = Unsigned(w) % Pow2[n]
<1>1. Unsigned(w) \in Int /\ \A i \in Nat : i \in w <=> Bit(Unsigned(w), i) = 1
  BY WordIs, Pow2Pos
<1>2. Trunc(n, w) = OfInt(n, Unsigned(w))
  BY <1>1 DEF Trunc, OfInt
<1> QED
  BY <1>1, <1>2, ValueOfInt

LEMMA PartIs ==
  ASSUME NEW n \in Nat, NEW m \in Nat, NEW w \in Word(m), NEW b \in Nat
  PROVE  /\ Part(w, b, n) = OfInt(n, Unsigned(w) \div Pow2[b])
         /\ Unsigned(Part(w, b, n)) = (Unsigned(w) \div Pow2[b]) % Pow2[n]
<1>1. PICK x \in Int : x = Unsigned(w) /\ \A i \in Nat : i \in w <=> Bit(x, i) = 1
  BY WordIs, Pow2Pos
<1>2. ASSUME NEW i \in 0 .. n - 1
      PROVE  i + b \in w <=> Bit(x \div Pow2[b], i) = 1
  <2>1. i + b \in Nat /\ i \in Nat
    OBVIOUS
  <2> QED
    BY <2>1, <1>1, BitDiv
<1>3. Part(w, b, n) = OfInt(n, x \div Pow2[b])
  BY <1>2 DEF Part, OfInt
<1>4. x \div Pow2[b] \in Int
  BY Pow2Pos, DivMod
<1> QED
  BY <1>1, <1>3, <1>4, ValueOfInt

(* A quotient of natural numbers is not above the dividend.                *)
LEMMA Quotient ==
  ASSUME NEW x \in Nat, NEW p \in Nat \ {0}
  PROVE  x \div p \in 0 .. x
<1>1. PICK e \in Int, r \in 0 .. p - 1 : e = x \div p /\ x = e * p + r
  <2>1. x \in Int
    OBVIOUS
  <2> QED
    BY <2>1, DivMod
<1>2. e >= 0
  <2> SUFFICES ASSUME e <= -1 PROVE FALSE
    BY <1>1
  <2>1. (-1 - e) * p >= 0
    OBVIOUS
  <2>2. (-1 - e) * p = -p - e * p
    OBVIOUS
  <2> QED
    BY <1>1, <2>1, <2>2
<1>3. e <= x
  <2>1. e * (p - 1) >= 0
    BY <1>2
  <2>2. e * (p - 1) = e * p - e
    OBVIOUS
  <2> QED
    BY <1>1, <2>1, <2>2
<1> QED
  BY <1>1, <1>2, <1>3

LEMMA LShrIs ==
  ASSUME NEW n \in Nat, NEW d \in Word(n), NEW k \in Nat
  PROVE  Unsigned(LShr(n, d, k)) = Unsigned(d) \div Pow2[k]
<1>1. LShr(n, d, k) = Part(d, k, n)
  BY DEF LShr, Part
<1>2. PICK x \in Nat, p \in Nat \ {0}, q \in Nat \ {0} :
        x = Unsigned(d) /\ p = Pow2[k] /\ q = Pow2[n] /\ x < q
  BY WordIs, Pow2Pos
<1>3. x \div p \in 0 .. q - 1
  BY <1>2, Quotient
<1>4. (x \div p) % q = x \div p
  BY <1>2, <1>3, SmallMod
<1> QED
  BY <1>1, <1>2, <1>4, PartIs

LEMMA ShlIs ==
  ASSUME NEW n \in Nat, NEW d \in Word(n), NEW k \in Nat
  PROVE  Unsigned(Shl(n, d, k)) = (Unsigned(d) * Pow2[k]) % Pow2[n]
<1>1. PICK x \in Int : x = Unsigned(d) /\ \A i \in Nat : i \in d <=> Bit(x, i) = 1
  BY WordIs, Pow2Pos
<1>2. ASSUME NEW i \in 0 .. n - 1
      PROVE  i - k \in d <=> Bit(x * Pow2[k], i) = 1
  <2>1. CASE i < k
    <3>1. i - k \notin d
      BY <2>1 DEF Word
    <3>2. Bit(x * Pow2[k], i) = 0
      BY <2>1, BitTimes
    <3> QED
      BY <3>1, <3>2
  <2>2. CASE i >= k
    <3>1. i - k \in Nat
      BY <2>2
    <3>2. Bit(x * Pow2[k], i) = Bit(x, i - k)
      BY <2>2, BitTimes
    <3> QED
      BY <3>1, <3>2, <1>1
  <2> QED
    BY <2>1, <2>2
<1>3. Shl(n, d, k) = OfInt(n, x * Pow2[k])
  BY <1>2 DEF Shl, OfInt
<1>4. x * Pow2[k] \in Int
  BY Pow2Pos
<1> QED
  BY <1>1, <1>3, <1>4, ValueOfInt

(* The top bit of a word is the sign: what Signed and the instruction set  *)
(* make of the number is the same.                                         *)
LEMMA TopBit ==
  ASSUME NEW n \in Nat \ {0}, NEW w \in Word(n)
  PROVE  n - 1 \in w <=> Unsigned(w) >= Pow2[n - 1]
<1>1. PICK m \in Nat : n = m + 1 /\ n - 1 = m
  <2>1. n - 1 \in Nat /\ n = (n - 1) + 1
    OBVIOUS
  <2> QED
    BY <2>1
<1>2. PICK p \in Nat \ {0} : p = Pow2[m] /\ Pow2[n] = 2 * p
  BY <1>1, Pow2Is
<1>3. PICK x \in 0 .. 2 * p - 1 : x = Unsigned(w) /\ (m \in w <=> Bit(x, m) = 1)
  BY <1>2, WordIs
<1>4. CASE x >= p
  <2>1. x = 1 * p + (x - p) /\ x - p \in 0 .. p - 1 /\ x \in Int
    BY <1>4
  <2>2. x \div p = 1
    BY <2>1, DivUnique
  <2> QED
    BY <1>1, <1>2, <1>3, <1>4, <2>2 DEF Bit
<1>5. CASE x < p
  <2>1. x = 0 * p + x /\ x \in 0 .. p - 1 /\ x \in Int
    BY <1>5
  <2>2. x \div p = 0
    BY <2>1, DivUnique
  <2> QED
    BY <1>1, <1>2, <1>3, <1>5, <2>2 DEF Bit
<1> QED
  BY <1>4, <1>5

Negative(n, x) == x >= Pow2[n - 1]
SignOf(n, x) == IF Negative(n, x) THEN x - Pow2[n] ELSE x

LEMMA SignedIs ==
  ASSUME NEW n \in Nat \ {0}, NEW w \in Word(n)
  PROVE  Signed(n, w) = SignOf(n, Unsigned(w)) /\ SignOf(n, Unsigned(w)) \in Int
BY TopBit, WordIs, Pow2Pos DEF Signed, SignOf, Negative

(* The digits of the signed number: the top bit goes on forever.           *)
LEMMA SignBits ==
  ASSUME NEW n \in Nat \ {0}, NEW w \in Word(n), NEW i \in Nat
  PROVE  Bit(SignOf(n, Unsigned(w)), i) = 1 <=> (IF i < n THEN i ELSE n - 1) \in w
<1>1. PICK x \in Nat, q \in Nat \ {0} :
        /\ x = Unsigned(w) /\ q = Pow2[n] /\ x < q
        /\ \A j \in Nat : j \in w <=> Bit(x, j) = 1
  BY WordIs, Pow2Pos
<1>2. CASE ~Negative(n, x)
  <2>1. SignOf(n, x) = x /\ n - 1 \notin w
    BY <1>1, <1>2, TopBit DEF SignOf, Negative
  <2>2. CASE i < n
    BY <2>1, <2>2, <1>1
  <2>3. CASE i >= n
    <3>1. Bit(x, i) = 0
      <4>1. x \in 0 .. Pow2[n] - 1
        BY <1>1
      <4> QED
        BY <4>1, <2>3, SmallMod
    <3> QED
      BY <2>1, <2>3, <3>1, <1>1
  <2> QED
    BY <2>2, <2>3
<1>3. CASE Negative(n, x)
  <2>1. SignOf(n, x) = x + (-1) * q /\ n - 1 \in w
    <3>1. SignOf(n, x) = x - q /\ n - 1 \in w
      BY <1>1, <1>3, TopBit DEF SignOf, Negative
    <3>2. x - q = x + (-1) * q
      OBVIOUS
    <3> QED
      BY <3>1, <3>2
  <2>2. CASE i < n
    <3>1. i \in 0 .. n - 1 /\ -1 \in Int
      BY <2>2
    <3>2. Bit(x + (-1) * q, i) = Bit(x, i)
      BY <3>1, <1>1, BitShift
    <3> QED
      BY <2>1, <2>2, <3>2, <1>1
  <2>3. CASE i >= n
    <3>1. PICK m \in Nat \ {0} : m = Pow2[i] /\ q <= m
      BY <1>1, <2>3, Pow2Pos, Pow2Below
    <3>2. PICK z \in Int : z = x + (-1) * q /\ z = x - q
      OBVIOUS
    <3>3. z = (-1) * m + (z + m) /\ z + m \in 0 .. m - 1
      BY <3>1, <3>2, <1>1
    <3>4. z \div m = -1
      BY <3>3, DivUnique
    <3>5. (-1) % 2 = 1
      <4>1. -1 \in Int /\ 2 \in Nat \ {0} /\ 1 \in 0 .. 2 - 1 /\ -1 = (-1) * 2 + 1
        OBVIOUS
      <4> QED
        BY <4>1, DivUnique
    <3>6. Bit(z, i) = 1
      BY <3>1, <3>4, <3>5 DEF Bit
    <3> QED
      BY <2>1, <2>3, <3>2, <3>6, <1>1
  <2> QED
    BY <2>2, <2>3
<1> QED
  BY <1>2, <1>3

LEMMA AShrIs ==
  ASSUME NEW n \in Nat \ {0}, NEW d \in Word(n), NEW k \in Nat
  PROVE  Unsigned(AShr(n, d, k)) = (SignOf(n, Unsigned(d)) \div Pow2[k]) % Pow2[n]
<1>1. PICK z \in Int : z = SignOf(n, Unsigned(d))
  BY SignedIs
<1>2. ASSUME NEW i \in 0 .. n - 1
      PROVE  (IF i + k < n THEN i + k ELSE n - 1) \in d <=> Bit(z \div Pow2[k], i) = 1
  <2>1. i \in Nat /\ i + k \in Nat
    OBVIOUS
  <2>2. Bit(z \div Pow2[k], i) = Bit(z, i + k)
    BY <2>1, BitDiv
  <2> QED
    BY <2>1, <2>2, <1>1, SignBits
<1>3. AShr(n, d, k) = OfInt(n, z \div Pow2[k])
  BY <1>2 DEF AShr, OfInt
<1>4. z \div Pow2[k] \in Int
  BY Pow2Pos, DivMod
<1> QED
  BY <1>1, <1>3, <1>4, ValueOfInt

(* A word put above another one.                                           *)
LEMMA AboveIs ==
  ASSUME NEW n \in Nat, NEW u \in Word(n), NEW m \in Nat, NEW v \in Word(m)
  PROVE  /\ u \cup {b + n : b \in v} \in Word(n + m)
         /\ Unsigned(u \cup {b + n : b \in v}) = Unsigned(u) + Unsigned(v) * Pow2[n]
<1> DEFINE w == u \cup {b + n : b \in v}
<1>1. w \in Word(n + m)
  <2>1. \A b \in v : b + n \in 0 .. (n + m) - 1
    BY DEF Word
  <2>2. \A b \in u : b \in 0 .. (n + m) - 1
    BY DEF Word
  <2> QED
    BY <2>1, <2>2 DEF Word
<1>2. PICK x \in Nat, y \in Nat, p \in Nat \ {0} :
        /\ x = Unsigned(u) /\ y = Unsigned(v) /\ p = Pow2[n] /\ x < p
        /\ \A i \in Nat : i \in u <=> Bit(x, i) = 1
        /\ \A i \in Nat : i \in v <=> Bit(y, i) = 1
        /\ y < Pow2[m]
  BY WordIs, Pow2Pos
<1>3. PICK z \in Nat : z = x + y * p /\ z = y * p + x
  <2>1. y * p \in Nat
    OBVIOUS
  <2> QED
    BY <2>1
<1>4. ASSUME NEW i \in 0 .. (n + m) - 1 PROVE i \in w <=> Bit(z, i) = 1
  <2>1. CASE i < n
    <3>1. i \in 0 .. n - 1 /\ \A b \in v : b + n # i
      BY <2>1 DEF Word
    <3>2. Bit(x + y * p, i) = Bit(x, i)
      BY <3>1, <1>2, BitShift
    <3> QED
      BY <3>1, <3>2, <1>2, <1>3
  <2>2. CASE i >= n
    <3>1. PICK j \in Nat : i = j + n
      <4>1. i - n \in Nat /\ i = (i - n) + n
        BY <2>2
      <4> QED
        BY <4>1
    <3>2. i \notin u /\ (i \in w <=> j \in v)
      <4>1. i \notin u
        BY <2>2 DEF Word
      <4>2. ASSUME NEW b \in v, b + n = i PROVE b = j
        BY <4>2, <3>1 DEF Word
      <4> QED
        BY <4>1, <4>2, <3>1
    <3>3. z \div p = y
      <4>1. z \in Int /\ y \in Int /\ x \in 0 .. p - 1
        BY <1>2
      <4> QED
        BY <4>1, <1>3, DivUnique
    <3>4. Bit(z \div Pow2[n], j) = Bit(z, j + n)
      BY BitDiv
    <3> QED
      BY <3>1, <3>2, <3>3, <3>4, <1>2
  <2> QED
    BY <2>1, <2>2
<1> HIDE DEF w
<1>5. w = OfInt(n + m, z)
  BY <1>1, <1>4 DEF OfInt, Word
<1>6. z \in 0 .. Pow2[n + m] - 1
  <2>1. PICK q \in Nat \ {0} : q = Pow2[m] /\ y <= q - 1
    BY <1>2, Pow2Pos
  <2>2. Pow2[n + m] = p * q
    BY <1>2, <2>1, Pow2Plus
  <2>3. (q - 1 - y) * p >= 0
    BY <2>1
  <2>4. (q - 1 - y) * p = p * q - p - y * p
    OBVIOUS
  <2> QED
    BY <1>2, <1>3, <2>2, <2>3, <2>4
<1>7. Unsigned(w) = z
  <2>1. n + m \in Nat /\ z \in Int
    OBVIOUS
  <2> QED
    BY <2>1, <1>5, <1>6, ValueOfInt, SmallMod
<1> QED
  BY <1>1, <1>2, <1>3, <1>7 DEF w

-----------------------------------------------------------------------------
LEMMA Widths ==
  /\ H \in Nat \ {0} /\ W \in Nat \ {0} /\ DW \in Nat \ {0}
  /\ B <= DW /\ H <= DW /\ W <= DW
  /\ \A size \in {1, 2, 4, 8} : size * B \in Nat /\ size * B <= DW
BY ByteAssumption DEF H, W, DW

(* The operators of Words give words.                                      *)
LEMMA WordOps ==
  ASSUME NEW n \in Nat, NEW w, NEW k
  PROVE  /\ OfInt(n, k) \in Word(n)
         /\ Trunc(n, w) \in Word(n)
         /\ Shl(n, w, k) \in Word(n)
         /\ LShr(n, w, k) \in Word(n)
         /\ AShr(n, w, k) \in Word(n)
         /\ Part(w, k, n) \in Word(n)
BY DEF Word, OfInt, Trunc, Shl, LShr, AShr, Part

LEMMA Shorter ==
  ASSUME NEW n \in Nat, NEW m \in Nat, n <= m
  PROVE  Word(n) \subseteq Word(m)
BY DEF Word

(* An arithmetic instruction of width n gives a word of width n, whatever  *)
(* its operands: division and modulo by zero and any shift count included. *)
LEMMA AluType ==
  ASSUME NEW op \in AluOps, NEW n \in Nat, NEW d \in Word(n), NEW s \in Word(n)
  PROVE  AluResult(op, n, d, s) \in Word(n)
<1>1. {} \in Word(n) /\ d \cup s \in Word(n) /\ d \cap s \in Word(n)
      /\ SymDiff(d, s) \in Word(n)
  BY DEF Word, SymDiff
<1>2. URem(n, d, s) \in Word(n) /\ UDiv(n, d, s) \in Word(n)
  BY WordOps DEF URem, UDiv, Word
<1>3. \A k : /\ OfInt(n, k) \in Word(n) /\ Shl(n, d, k) \in Word(n)
             /\ LShr(n, d, k) \in Word(n) /\ AShr(n, d, k) \in Word(n)
  BY WordOps
<1>4. CASE op \in {"add", "sub", "mul", "neg"}
  BY <1>3, <1>4 DEF AluResult
<1>5. CASE op \in {"div", "mod"}
  BY <1>1, <1>2, <1>5 DEF AluResult
<1>6. CASE op \in {"or", "and", "xor", "mov"}
  BY <1>1, <1>6 DEF AluResult
<1>7. CASE op \in {"lsh", "rsh", "arsh"}
  BY <1>3, <1>7 DEF AluResult
<1> QED
  BY <1>4, <1>5, <1>6, <1>7 DEF AluOps

LEMMA SetRegType ==
  ASSUME regs \in [Regs -> Word(DW)], NEW r, NEW v \in Word(DW), SetReg(r, v)
  PROVE  regs' \in [Regs -> Word(DW)] /\ UNCHANGED <<mem, taken>>
BY DEF SetReg

-----------------------------------------------------------------------------
LEMMA OperandTypes ==
  ASSUME NEW i
  PROVE  /\ Width(i) \in Nat /\ Width(i) <= DW
         /\ LoadALUDest(i) \in Word(Width(i))
         /\ LoadALUSource(i) \in Word(Width(i))
<1>1. Width(i) \in Nat /\ Width(i) <= DW
  BY Widths DEF Width
<1> QED
  BY <1>1, WordOps DEF LoadALUDest, LoadALUSource

LEMMA ALUType ==
  ASSUME TypeOK, NEW i, EmitALU(i)
  PROVE  regs' \in [Regs -> Word(DW)] /\ UNCHANGED <<mem, taken>>
<1>1. PICK v : v = AluResult(i.op, Width(i), LoadALUDest(i), LoadALUSource(i))
  OBVIOUS
<1>2. v \in Word(Width(i))
  BY <1>1, OperandTypes, AluType DEF EmitALU
<1>3. v \in Word(DW)
  BY <1>2, OperandTypes, Widths, Shorter
<1> QED
  BY <1>1, <1>3, SetRegType DEF EmitALU, TypeOK

(* The last byte of a whole number of bytes begins one byte before its end. *)
LEMMA LastByte ==
  ASSUME NEW q \in Int, NEW m \in Nat, q * B < m * B
  PROVE  q * B <= m * B - B
<1>1. CASE q <= m - 1
  <2>1. (m - 1 - q) * B >= 0
    BY <1>1, ByteAssumption
  <2>2. (m - 1 - q) * B = m * B - B - q * B
    BY ByteAssumption
  <2> QED
    BY <2>1, <2>2, ByteAssumption
<1>2. CASE q >= m
  <2>1. (q - m) * B >= 0
    BY <1>2, ByteAssumption
  <2>2. (q - m) * B = q * B - m * B
    BY ByteAssumption
  <2> QED
    BY <2>1, <2>2, ByteAssumption
<1> QED
  BY <1>1, <1>2

(* The bytes that BE moves stay below imm.                                 *)
LEMMA EndianType ==
  ASSUME TypeOK, NEW i \in Insn, EmitEndian(i)
  PROVE  regs' \in [Regs -> Word(DW)] /\ UNCHANGED <<mem, taken>>
<1>1. CASE i.op = "le"
  <2>1. i.dst \in Regs
    BY <1>1 DEF Insn, AluOps, JccOps
  <2>2. SetReg(i.dst, regs[i.dst])
    BY <1>1 DEF EmitEndian
  <2>3. regs[i.dst] \in Word(DW)
    BY <2>1 DEF TypeOK
  <2> QED
    BY <2>2, <2>3, SetRegType DEF TypeOK
<1>2. CASE i.op = "be"
  <2>1. i.imm \in {H, W, DW}
    BY <1>2 DEF Insn, AluOps, JccOps
  <2>2. i.imm \in Nat /\ i.imm <= DW
    BY <2>1, Widths
  <2>3. PICK n \in Nat : n = i.imm /\ n <= DW
    BY <2>2
  <2>4. PICK w : w = regs[i.dst]
    OBVIOUS
  <2>5. PICK ks : ks = {j \in 0 .. n - 1 : j % B = 0}
    OBVIOUS
  <2>6. PICK v : v = UNION {{b + n - B - 2 * k : b \in
                               {c \in w : c - k \in 0 .. B - 1}} : k \in ks}
    OBVIOUS
  <2>7. SetReg(i.dst, v)
    BY <1>2, <2>3, <2>4, <2>5, <2>6 DEF EmitEndian
  <2>8. \A k \in ks : k \in 0 .. n - B
    <3> SUFFICES ASSUME NEW k \in ks PROVE k <= n - B
      BY <2>3, <2>5
    <3>1. PICK m \in Nat : n = m * B
      BY <2>1, <2>3 DEF H, W, DW
    <3>2. k = (k \div B) * B /\ k \div B \in Int
      BY <2>3, <2>5, ByteAssumption
    <3> QED
      BY <2>3, <2>5, <3>1, <3>2, LastByte
  <2>9. v \in Word(DW)
    <3> SUFFICES ASSUME NEW x \in v PROVE x \in 0 .. DW - 1
      BY DEF Word
    <3>1. PICK k \in ks : x \in {b + n - B - 2 * k : b \in
                                   {c \in w : c - k \in 0 .. B - 1}}
      BY <2>6
    <3>2. PICK b \in w : b - k \in 0 .. B - 1 /\ x = b + n - B - 2 * k
      BY <3>1
    <3>3. w \in Word(DW)
      BY <1>2, <2>4 DEF TypeOK, Insn, AluOps, JccOps
    <3>4. b \in Nat
      BY <3>2, <3>3, Widths DEF Word
    <3> QED
      BY <2>3, <2>8, <3>2, <3>4, Widths, ByteAssumption
  <2> QED
    BY <2>7, <2>9, SetRegType DEF TypeOK
<1> QED
  BY <1>1, <1>2 DEF EmitEndian

LEMMA StoreType ==
  ASSUME TypeOK, NEW i \in Insn, EmitStore(i)
  PROVE  mem' \in [0 .. Size - 1 -> Word(B)] /\ UNCHANGED <<regs, taken>>
<1>1. PICK a, f : mem' = [b \in 0 .. Size - 1 |->
                           IF b \in a .. a + i.size - 1
                             THEN Part(f, (b - a) * B, B) ELSE mem[b]]
  BY DEF EmitStore
<1>2. \A b : Part(f, (b - a) * B, B) \in Word(B)
  BY WordOps, ByteAssumption
<1> QED
  BY <1>1, <1>2 DEF TypeOK, EmitStore

LEMMA LoadXType ==
  ASSUME TypeOK, NEW i \in Insn, EmitLoadX(i)
  PROVE  regs' \in [Regs -> Word(DW)] /\ UNCHANGED <<mem, taken>>
<1>1. PICK v, a : /\ v = {b \in 0 .. i.size * B - 1 :
                           b % B \in mem[a + (b \div B)]}
                  /\ SetReg(i.dst, v)
  BY DEF EmitLoadX
<1>2. i.size \in {1, 2, 4, 8}
  BY DEF EmitLoadX, Insn, AluOps, JccOps
<1>3. v \in Word(DW)
  BY <1>1, <1>2, Widths DEF Word
<1> QED
  BY <1>1, <1>3, SetRegType DEF TypeOK

LEMMA LddwType ==
  ASSUME TypeOK, NEW i \in Insn, EmitLddw(i)
  PROVE  regs' \in [Regs -> Word(DW)] /\ UNCHANGED <<mem, taken>>
<1>1. i.dst \in Regs
  BY DEF EmitLddw, Insn, AluOps, JccOps
<1>2. OfInt(W, i.imm) \cup {b + W : b \in OfInt(W, i.imm2)} \in Word(DW)
  <2>1. DW = W + W
    BY ByteAssumption DEF W, DW
  <2>2. \A k : OfInt(W, k) \in Word(W)
    BY Widths, WordOps
  <2>3. \A b \in OfInt(W, i.imm2) : b + W \in 0 .. DW - 1
    BY <2>1, <2>2, Widths DEF Word
  <2>4. OfInt(W, i.imm) \subseteq 0 .. DW - 1
    BY <2>2, Widths DEF Word
  <2> QED
    BY <2>3, <2>4 DEF Word
<1>3. OfInt(DW, i.imm) \in Word(DW)
  BY Widths, WordOps
<1>4. regs[i.dst] \in Word(DW)
  BY <1>1 DEF TypeOK
<1>5. \E v \in Word(DW) : SetReg(i.dst, v)
  <2>1. CASE i.src = 0
    BY <2>1, <1>2 DEF EmitLddw
  <2>2. CASE i.src \in {1, 5}
    BY <2>2, <1>3 DEF EmitLddw
  <2>3. CASE i.src \notin {0, 1, 5}
    BY <2>3, <1>4 DEF EmitLddw
  <2> QED
    BY <2>1, <2>2, <2>3
<1>6. PICK v \in Word(DW) : SetReg(i.dst, v)
  BY <1>5
<1>7. regs \in [Regs -> Word(DW)]
  BY DEF TypeOK
<1> QED
  BY <1>6, <1>7, SetRegType

LEMMA CondBoolean ==
  ASSUME NEW op \in JccOps, NEW n, NEW d, NEW s
  PROVE  Condition(op, n, d, s) \in BOOLEAN
<1>1. CASE op = "jeq"
  BY <1>1 DEF Condition
<1>2. CASE op = "jne"
  BY <1>2 DEF Condition
<1>3. CASE op = "jgt"
  BY <1>3 DEF Condition
<1>4. CASE op = "jge"
  BY <1>4 DEF Condition
<1>5. CASE op = "jlt"
  BY <1>5 DEF Condition
<1>6. CASE op = "jle"
  BY <1>6 DEF Condition
<1>7. CASE op = "jset"
  BY <1>7 DEF Condition
<1>8. CASE op = "jsgt"
  BY <1>8 DEF Condition
<1>9. CASE op = "jsge"
  BY <1>9 DEF Condition
<1>10. CASE op = "jslt"
  BY <1>10 DEF Condition
<1>11. CASE op = "jsle"
  BY <1>11 DEF Condition
<1> QED
  BY <1>1, <1>2, <1>3, <1>4, <1>5, <1>6, <1>7, <1>8, <1>9, <1>10, <1>11 DEF JccOps

LEMMA CondType ==
  ASSUME TypeOK, NEW i \in Insn, EmitCondJmp(i)
  PROVE  taken' \in BOOLEAN /\ UNCHANGED <<regs, mem>>
BY CondBoolean DEF EmitCondJmp

LEMMA InitType == Init => TypeOK
BY ProgramAssumption DEF Init, TypeOK

LEMMA TypeStep == TypeOK /\ [Next]_vars => TypeOK'
<1> SUFFICES ASSUME TypeOK, [Next]_vars PROVE TypeOK'
  OBVIOUS
<1>1. CASE UNCHANGED vars
  BY <1>1 DEF vars, TypeOK
<1>2. CASE Next
  <2>1. prog # <<>> /\ prog' = Tail(prog)
    BY <1>2 DEF Next
  <2>2. prog' \in Seq(Insn) /\ Head(prog) \in Insn
    BY <2>1 DEF TypeOK
  <2>3. PICK i \in Insn : i = Head(prog)
    BY <2>2
  <2>4. \/ EmitALU(i) \/ EmitEndian(i) \/ EmitStore(i) \/ EmitLoadX(i)
        \/ EmitLddw(i) \/ EmitExtCall(i) \/ EmitCondJmp(i)
    BY <1>2, <2>3 DEF Next
  <2>5. CASE EmitALU(i)
    BY <2>2, <2>5, ALUType DEF TypeOK
  <2>6. CASE EmitEndian(i)
    BY <2>2, <2>6, EndianType DEF TypeOK
  <2>7. CASE EmitStore(i)
    BY <2>2, <2>7, StoreType DEF TypeOK
  <2>8. CASE EmitLoadX(i)
    BY <2>2, <2>8, LoadXType DEF TypeOK
  <2>9. CASE EmitLddw(i)
    BY <2>2, <2>9, LddwType DEF TypeOK
  <2>10. CASE EmitExtCall(i)
    BY <2>2, <2>10, SetRegType DEF EmitExtCall, TypeOK
  <2>11. CASE EmitCondJmp(i)
    BY <2>2, <2>11, CondType DEF TypeOK
  <2> QED
    BY <2>4, <2>5, <2>6, <2>7, <2>8, <2>9, <2>10, <2>11
<1> QED
  BY <1>1, <1>2

(* No instruction leaves a register or a byte of memory wider than it is,  *)
(* for bytes of any number of bits, any program and any immediate: what    *)
(* LLVM requires of the types of every value that is stored.               *)
THEOREM Typing == Spec => []TypeOK
BY InitType, TypeStep, PTL DEF Spec

-----------------------------------------------------------------------------
(* The powers and digits of the instruction set are those of the words.    *)
LEMMA SamePow2 == Integers64!Pow2 = Pow2
BY DEF Pow2, Integers64!Pow2

LEMMA SameBits ==
  /\ \A x, b : Integers64!Bit(x, b) = Bit(x, b)
  /\ \A w : Integers64!FromBits(w) = Unsigned(w)
  /\ \A n, k : Integers64!Mod(n, k) = k % Pow2[n]
<1>1. \A x, b : Integers64!Bit(x, b) = Bit(x, b)
  BY SamePow2 DEF Bit, Integers64!Bit
<1>2. \A n, k : Integers64!Mod(n, k) = k % Pow2[n]
  BY SamePow2 DEF Integers64!Mod
<1>3. ASSUME NEW w PROVE Integers64!FromBits(w) = Unsigned(w)
  BY SamePow2 DEF Unsigned, FromBits, Integers64!FromBits, SumFunctionOnSet, FoldFunctionOnSet,
     MapThenFoldSet, Integers64!SumFunctionOnSet, Integers64!FoldFunctionOnSet, Integers64!MapThenFoldSet
<1> QED
  BY <1>1, <1>2, <1>3

LEMMA SameSigned ==
  ASSUME NEW n \in Nat \ {0}, NEW x \in Int
  PROVE  Integers64!AsSigned(n, x) = SignOf(n, x)
<1>1. Pow2[n - 1] \in Int
  BY Pow2Pos
<1> QED
  BY <1>1, SamePow2 DEF Integers64!AsSigned, SignOf, Negative

LEMMA SameWidth ==
  \A i : Integers64!Width(i) = Width(i)
BY DEF Integers64!Width, Width, Integers64!W, W, Integers64!DW, DW

(* The operands: what the emitted loads and truncations give.              *)
LEMMA DstIs ==
  ASSUME TypeOK, NEW i, i.dst \in Regs
  PROVE  Integers64!Dst(i) = Unsigned(LoadALUDest(i))
<1>1. regs[i.dst] \in Word(DW) /\ DW \in Nat
  BY Widths DEF TypeOK
<1>2. Width(i) \in Nat
  BY OperandTypes
<1>3. Unsigned(LoadALUDest(i)) = Unsigned(regs[i.dst]) % Pow2[Width(i)]
  BY <1>1, <1>2, TruncIs DEF LoadALUDest
<1>4. Integers64!Dst(i) = Unsigned(regs[i.dst]) % Pow2[Width(i)]
  BY SameBits, SameWidth DEF Integers64!Dst
<1> QED
  BY <1>3, <1>4

LEMMA SrcIs ==
  ASSUME TypeOK, NEW i, i.src \in Regs, i.imm \in Int
  PROVE  Integers64!Src(i) = Unsigned(LoadALUSource(i))
<1>1. regs[i.src] \in Word(DW) /\ DW \in Nat
  BY Widths DEF TypeOK
<1>2. Width(i) \in Nat
  BY OperandTypes
<1>3. CASE i.reg
  <2>1. Unsigned(LoadALUSource(i)) = Unsigned(regs[i.src]) % Pow2[Width(i)]
    BY <1>1, <1>2, <1>3, TruncIs DEF LoadALUSource
  <2>2. Integers64!Src(i) = Unsigned(regs[i.src]) % Pow2[Width(i)]
    BY <1>3, SameBits, SameWidth DEF Integers64!Src
  <2> QED
    BY <2>1, <2>2
<1>4. CASE ~i.reg
  <2>1. Unsigned(LoadALUSource(i)) = i.imm % Pow2[Width(i)]
    BY <1>2, <1>4, ValueOfInt DEF LoadALUSource
  <2>2. Integers64!Src(i) = i.imm % Pow2[Width(i)]
    BY <1>4, SameBits, SameWidth DEF Integers64!Src
  <2> QED
    BY <2>1, <2>2
<1> QED
  BY <1>3, <1>4

(* What a register gets.                                                   *)
LEMMA GetsIs ==
  ASSUME TypeOK, NEW r, NEW v, SetReg(r, v)
  PROVE  Integers64!Gets(r, Unsigned(v))
BY DEF SetReg, Integers64!Gets, TypeOK

(* The facts about the two operands that every operation needs.            *)
Operands2(n, d, s, x, y) ==
  /\ n \in Nat \ {0} /\ d \in Word(n) /\ s \in Word(n)
  /\ x \in Nat /\ y \in Nat /\ x < Pow2[n] /\ y < Pow2[n]
  /\ x = Unsigned(d) /\ y = Unsigned(s)
  /\ \A b \in Nat : b \in d <=> Bit(x, b) = 1
  /\ \A b \in Nat : b \in s <=> Bit(y, b) = 1

LEMMA OperandsAre ==
  ASSUME NEW n \in Nat \ {0}, NEW d \in Word(n), NEW s \in Word(n)
  PROVE  Operands2(n, d, s, Unsigned(d), Unsigned(s))
<1>1. Pow2[n] \in Nat
  BY Pow2Pos
<1> QED
  BY <1>1, WordIs DEF Operands2

(* Division: by a number that is not zero, and by zero.                    *)
LEMMA DivIs ==
  ASSUME NEW n, NEW d, NEW s, NEW x, NEW y, Operands2(n, d, s, x, y)
  PROVE  /\ s = {} <=> y = 0
         /\ s # {} => Unsigned(OfInt(n, x \div y)) = x \div y
         /\ s # {} => Unsigned(OfInt(n, x % y)) = x % y
<1>0. /\ n \in Nat /\ d \in Word(n) /\ s \in Word(n) /\ x \in Nat /\ y \in Nat
      /\ x = Unsigned(d) /\ y = Unsigned(s)
  BY DEF Operands2
<1>1. s = {} <=> y = 0
  BY <1>0, WordZero
<1>2. ASSUME s # {}
      PROVE  /\ x \div y \in 0 .. Pow2[n] - 1
             /\ x % y \in 0 .. Pow2[n] - 1
  <2>1. PICK q \in Nat \ {0} : q = Pow2[n] /\ x < q /\ y < q
    BY Pow2Pos DEF Operands2
  <2>2. y \in Nat \ {0} /\ x \in Int
    BY <1>0, <1>1, <1>2
  <2>3. x \div y \in 0 .. x
    BY <1>0, <2>2, Quotient
  <2>4. x % y \in 0 .. y - 1
    BY <2>2, DivMod
  <2> QED
    BY <1>0, <2>1, <2>3, <2>4
<1>3. ASSUME NEW v \in 0 .. Pow2[n] - 1 PROVE Unsigned(OfInt(n, v)) = v
  BY <1>0, ValueOfInt, SmallMod
<1> QED
  BY <1>1, <1>2, <1>3

(* The bitwise operations, digit by digit.                                 *)
LEMMA BitwiseIs ==
  ASSUME NEW n, NEW d, NEW s, NEW x, NEW y, Operands2(n, d, s, x, y)
  PROVE  /\ d \cup s = {b \in 0 .. n - 1 : Bit(x, b) + Bit(y, b) > 0}
         /\ d \cap s = {b \in 0 .. n - 1 : Bit(x, b) * Bit(y, b) > 0}
         /\ SymDiff(d, s) = {b \in 0 .. n - 1 : Bit(x, b) # Bit(y, b)}
<1>1. ASSUME NEW b \in 0 .. n - 1
      PROVE  /\ b \in d \/ b \in s <=> Bit(x, b) + Bit(y, b) > 0
             /\ b \in d /\ b \in s <=> Bit(x, b) * Bit(y, b) > 0
             /\ ~(b \in d <=> b \in s) <=> Bit(x, b) # Bit(y, b)
  <2>1. PICK u \in {0, 1}, v \in {0, 1} :
          u = Bit(x, b) /\ v = Bit(y, b) /\ (b \in d <=> u = 1) /\ (b \in s <=> v = 1)
    BY BitIs DEF Operands2
  <2>2. CASE u = 0
    BY <2>1, <2>2
  <2>3. CASE u = 1
    BY <2>1, <2>3
  <2> QED
    BY <2>2, <2>3
<1>2. d \subseteq 0 .. n - 1 /\ s \subseteq 0 .. n - 1
  BY DEF Operands2, Word
<1>3. d \cup s = {b \in 0 .. n - 1 : Bit(x, b) + Bit(y, b) > 0}
  BY <1>1, <1>2
<1>4. d \cap s = {b \in 0 .. n - 1 : Bit(x, b) * Bit(y, b) > 0}
  BY <1>1, <1>2
<1>5. SymDiff(d, s) = {b \in 0 .. n - 1 : Bit(x, b) # Bit(y, b)}
  <2>1. \A b : b \in SymDiff(d, s) <=> b \in 0 .. n - 1 /\ ~(b \in d <=> b \in s)
    BY <1>2 DEF SymDiff
  <2>2. \A b : b \in SymDiff(d, s) <=> b \in 0 .. n - 1 /\ Bit(x, b) # Bit(y, b)
    BY <1>1, <2>1
  <2> QED
    BY <2>2
<1> QED
  BY <1>3, <1>4, <1>5

(* What an arithmetic instruction of width n computes.                     *)
LEMMA AluIs ==
  ASSUME NEW op \in AluOps, NEW n \in Nat \ {0}, NEW d \in Word(n), NEW s \in Word(n)
  PROVE  Unsigned(AluResult(op, n, d, s)) = Integers64!Alu(op, n, Unsigned(d), Unsigned(s))
<1>1. PICK x \in Nat, y \in Nat : Operands2(n, d, s, x, y) /\ x = Unsigned(d) /\ y = Unsigned(s)
  BY OperandsAre DEF Operands2
<1>2. SUFFICES Unsigned(AluResult(op, n, d, s)) = Integers64!Alu(op, n, x, y)
  BY <1>1
<1>3. \A k \in Int : Unsigned(OfInt(n, k)) = Integers64!Mod(n, k)
  BY ValueOfInt, SameBits
<1>4. PICK k \in Nat : k = Count(n, s) /\ k = y % n
  <2>1. y % n \in Nat
    OBVIOUS
  <2> QED
    BY <1>1, <2>1 DEF Count
<1>5. CASE op \in {"add", "sub", "mul", "neg"}
  <2>1. x + y \in Int /\ x - y \in Int /\ x * y \in Int /\ -x \in Int
    OBVIOUS
  <2>2. CASE op = "add"
    BY <1>1, <1>3, <2>1, <2>2 DEF AluResult, Integers64!Alu
  <2>3. CASE op = "sub"
    BY <1>1, <1>3, <2>1, <2>3 DEF AluResult, Integers64!Alu
  <2>4. CASE op = "mul"
    BY <1>1, <1>3, <2>1, <2>4 DEF AluResult, Integers64!Alu
  <2>5. CASE op = "neg"
    BY <1>1, <1>3, <2>1, <2>5 DEF AluResult, Integers64!Alu
  <2> QED
    BY <1>5, <2>2, <2>3, <2>4, <2>5
<1>6. CASE op = "div"
  <2>1. CASE s = {}
    BY <1>1, <1>6, <2>1, DivIs, ValueEmpty DEF AluResult, Integers64!Alu
  <2>2. CASE s # {}
    BY <1>1, <1>6, <2>2, DivIs DEF AluResult, UDiv, Integers64!Alu
  <2> QED
    BY <2>1, <2>2
<1>7. CASE op = "mod"
  <2>1. CASE s = {}
    BY <1>1, <1>7, <2>1, DivIs DEF AluResult, Integers64!Alu
  <2>2. CASE s # {}
    BY <1>1, <1>7, <2>2, DivIs DEF AluResult, URem, Integers64!Alu
  <2> QED
    BY <2>1, <2>2
<1>8. CASE op = "or"
  <2>1. AluResult(op, n, d, s) = {b \in 0 .. n - 1 : Bit(x, b) + Bit(y, b) > 0}
    BY <1>1, <1>8, BitwiseIs DEF AluResult
  <2>2. Integers64!Alu(op, n, x, y) = Unsigned({b \in 0 .. n - 1 : Bit(x, b) + Bit(y, b) > 0})
    BY <1>8, SameBits DEF Integers64!Alu
  <2> QED
    BY <2>1, <2>2
<1>9. CASE op = "and"
  <2>1. AluResult(op, n, d, s) = {b \in 0 .. n - 1 : Bit(x, b) * Bit(y, b) > 0}
    BY <1>1, <1>9, BitwiseIs DEF AluResult
  <2>2. Integers64!Alu(op, n, x, y) = Unsigned({b \in 0 .. n - 1 : Bit(x, b) * Bit(y, b) > 0})
    BY <1>9, SameBits DEF Integers64!Alu
  <2> QED
    BY <2>1, <2>2
<1>10. CASE op = "xor"
  <2>1. AluResult(op, n, d, s) = {b \in 0 .. n - 1 : Bit(x, b) # Bit(y, b)}
    BY <1>1, <1>10, BitwiseIs DEF AluResult
  <2>2. Integers64!Alu(op, n, x, y) = Unsigned({b \in 0 .. n - 1 : Bit(x, b) # Bit(y, b)})
    BY <1>10, SameBits DEF Integers64!Alu
  <2> QED
    BY <2>1, <2>2
<1>11. CASE op = "lsh"
  <2>1. Unsigned(AluResult(op, n, d, s)) = (x * Pow2[k]) % Pow2[n]
    BY <1>1, <1>4, <1>11, ShlIs DEF AluResult
  <2>2. Integers64!Alu(op, n, x, y) = (x * Pow2[k]) % Pow2[n]
    BY <1>4, <1>11, SameBits, SamePow2 DEF Integers64!Alu
  <2> QED
    BY <2>1, <2>2
<1>12. CASE op = "rsh"
  <2>1. Unsigned(AluResult(op, n, d, s)) = x \div Pow2[k]
    BY <1>1, <1>4, <1>12, LShrIs DEF AluResult
  <2>2. Integers64!Alu(op, n, x, y) = x \div Pow2[k]
    BY <1>4, <1>12, SamePow2 DEF Integers64!Alu
  <2> QED
    BY <2>1, <2>2
<1>13. CASE op = "arsh"
  <2>1. Unsigned(AluResult(op, n, d, s)) = (SignOf(n, x) \div Pow2[k]) % Pow2[n]
    BY <1>1, <1>4, <1>13, AShrIs DEF AluResult
  <2>2. Integers64!Alu(op, n, x, y) = (SignOf(n, x) \div Pow2[k]) % Pow2[n]
    BY <1>4, <1>13, SameBits, SamePow2, SameSigned DEF Integers64!Alu
  <2> QED
    BY <2>1, <2>2
<1>14. CASE op = "mov"
  BY <1>1, <1>14 DEF AluResult, Integers64!Alu
<1> QED
  BY <1>5, <1>6, <1>7, <1>8, <1>9, <1>10, <1>11, <1>12, <1>13, <1>14 DEF AluOps

(* Whether a conditional jump is taken.                                    *)
LEMMA CondIs ==
  ASSUME NEW op \in JccOps, NEW n \in Nat \ {0}, NEW d \in Word(n), NEW s \in Word(n)
  PROVE  Condition(op, n, d, s) = Integers64!Holds(op, n, Unsigned(d), Unsigned(s))
<1>1. PICK x \in Nat, y \in Nat : Operands2(n, d, s, x, y) /\ x = Unsigned(d) /\ y = Unsigned(s)
  BY OperandsAre DEF Operands2
<1>2. SUFFICES Condition(op, n, d, s) = Integers64!Holds(op, n, x, y)
  BY <1>1
<1>3. d = s <=> x = y
  BY <1>1, WordsEqual
<1>4. CASE op = "jeq"
  BY <1>3, <1>4 DEF Condition, Integers64!Holds
<1>5. CASE op = "jne"
  BY <1>3, <1>5 DEF Condition, Integers64!Holds
<1>6. CASE op = "jgt"
  BY <1>1, <1>6 DEF Condition, Integers64!Holds
<1>7. CASE op = "jge"
  BY <1>1, <1>7 DEF Condition, Integers64!Holds
<1>8. CASE op = "jlt"
  BY <1>1, <1>8 DEF Condition, Integers64!Holds
<1>9. CASE op = "jle"
  BY <1>1, <1>9 DEF Condition, Integers64!Holds
<1>10. CASE op = "jset"
  <2>1. PICK and \in AluOps : and = "and"
    BY DEF AluOps
  <2>2. Unsigned(d \cap s) = Integers64!Alu("and", n, x, y)
    <3>1. AluResult(and, n, d, s) = d \cap s
      BY <2>1 DEF AluResult
    <3>2. Unsigned(AluResult(and, n, d, s)) = Integers64!Alu(and, n, Unsigned(d), Unsigned(s))
      BY AluIs
    <3> QED
      BY <1>1, <2>1, <3>1, <3>2
  <2>3. d \cap s = {} <=> Unsigned(d \cap s) = 0
    <3>1. d \cap s \in Word(n)
      BY DEF Word
    <3> QED
      BY <3>1, WordZero
  <2> QED
    BY <1>10, <2>2, <2>3 DEF Condition, Integers64!Holds
<1>11. /\ Signed(n, d) = Integers64!AsSigned(n, x)
       /\ Signed(n, s) = Integers64!AsSigned(n, y)
  BY <1>1, SignedIs, SameSigned
<1>12. CASE op = "jsgt"
  BY <1>11, <1>12 DEF Condition, Integers64!Holds
<1>13. CASE op = "jsge"
  BY <1>11, <1>13 DEF Condition, Integers64!Holds
<1>14. CASE op = "jslt"
  BY <1>11, <1>14 DEF Condition, Integers64!Holds
<1>15. CASE op = "jsle"
  BY <1>11, <1>15 DEF Condition, Integers64!Holds
<1> QED
  BY <1>4, <1>5, <1>6, <1>7, <1>8, <1>9, <1>10, <1>12, <1>13, <1>14, <1>15 DEF JccOps

(* Each instruction takes the step that the instruction set says.          *)
LEMMA InsnFields ==
  ASSUME NEW i \in Insn
  PROVE  /\ i.op \in AluOps \cup JccOps =>
              i.dst \in Regs /\ i.src \in Regs /\ i.imm \in Int
         /\ i.op = "be" => i.dst \in Regs /\ i.imm \in {H, W, DW}
         /\ i.op = "le" => i.dst \in Regs
         /\ i.op \in {"st", "stx", "ldx"} =>
              /\ i.dst \in Regs /\ i.src \in Regs /\ i.imm \in Int
              /\ i.off \in Int /\ i.size \in {1, 2, 4, 8}
         /\ i.op = "lddw" => i.dst \in Regs /\ i.imm \in Int /\ i.imm2 \in Int
BY DEF Insn, AluOps, JccOps, Imm

LEMMA WidthPos == \A i : Width(i) \in Nat \ {0}
BY Widths DEF Width

(* emitALUWithDstAndSrc.                                                   *)
LEMMA ComputeStep ==
  ASSUME TypeOK, NEW i \in Insn, EmitALU(i)
  PROVE  Integers64!Compute(i)
<1>1. i.op \in AluOps /\ i.dst \in Regs /\ i.src \in Regs /\ i.imm \in Int
  BY InsnFields DEF EmitALU
<1> DEFINE r == AluResult(i.op, Width(i), LoadALUDest(i), LoadALUSource(i))
<1>2. Unsigned(r) = Integers64!Alu(i.op, Width(i), Unsigned(LoadALUDest(i)),
                                   Unsigned(LoadALUSource(i)))
  BY <1>1, WidthPos, OperandTypes, AluIs
<1>3. Unsigned(r) = Integers64!Alu(i.op, Integers64!Width(i), Integers64!Dst(i), Integers64!Src(i))
  BY <1>1, <1>2, DstIs, SrcIs, SameWidth
<1>4. SetReg(i.dst, r)
  BY DEF EmitALU
<1> HIDE DEF r
<1>5. Integers64!Gets(i.dst, Unsigned(r))
  BY <1>4, GetsIs
<1>6. i.op \in Integers64!AluOps
  BY <1>1 DEF AluOps, Integers64!AluOps
<1> QED
  BY <1>3, <1>5, <1>6 DEF Integers64!Compute

(* emitCondJmpWithDstAndSrc.                                               *)
LEMMA JumpStep ==
  ASSUME TypeOK, NEW i \in Insn, EmitCondJmp(i)
  PROVE  Integers64!Jump(i)
<1>1. i.op \in JccOps /\ i.dst \in Regs /\ i.src \in Regs /\ i.imm \in Int
  BY InsnFields DEF EmitCondJmp
<1>2. taken' = Condition(i.op, Width(i), LoadALUDest(i), LoadALUSource(i))
  BY DEF EmitCondJmp, JmpSource
<1>3. Condition(i.op, Width(i), LoadALUDest(i), LoadALUSource(i))
        = Integers64!Holds(i.op, Width(i), Unsigned(LoadALUDest(i)),
                             Unsigned(LoadALUSource(i)))
  BY <1>1, WidthPos, OperandTypes, CondIs
<1>4. Integers64!Holds(i.op, Width(i), Unsigned(LoadALUDest(i)), Unsigned(LoadALUSource(i)))
        = Integers64!Holds(i.op, Integers64!Width(i), Integers64!Dst(i), Integers64!Src(i))
  BY <1>1, DstIs, SrcIs, SameWidth
<1>5. i.op \in Integers64!JccOps
  BY <1>1 DEF JccOps, Integers64!JccOps
<1>6. UNCHANGED <<regs, mem>>
  BY DEF EmitCondJmp
<1> QED
  BY <1>2, <1>3, <1>4, <1>5, <1>6 DEF Integers64!Jump

LEMMA KeepStep ==
  ASSUME TypeOK, NEW i \in Insn, EmitEndian(i), i.op = "le"
  PROVE  Integers64!Keep(i)
<1>1. SetReg(i.dst, regs[i.dst]) /\ i.dst \in Regs
  BY InsnFields DEF EmitEndian
<1>2. Integers64!Gets(i.dst, Unsigned(regs[i.dst]))
  BY <1>1, GetsIs
<1>3. regs' = regs
  BY <1>1 DEF SetReg, TypeOK
<1> QED
  BY <1>1, <1>2, <1>3 DEF Integers64!Keep

LEMMA HelperStep ==
  ASSUME TypeOK, NEW i \in Insn, EmitExtCall(i)
  PROVE  Integers64!Helper(i)
<1>1. PICK v \in Word(DW) : SetReg(0, v)
  BY DEF EmitExtCall
<1>2. \A r \in Regs \ (0 .. 5) : regs'[r] = regs[r]
  BY <1>1 DEF SetReg, TypeOK
<1>3. UNCHANGED <<mem, taken>>
  BY <1>1 DEF SetReg
<1> QED
  BY <1>2, <1>3 DEF Integers64!Helper, EmitExtCall

(* An address is the register plus the offset, at the width of a register. *)
LEMMA AddressIs ==
  ASSUME TypeOK, NEW r \in Regs, NEW off \in Int
  PROVE  Integers64!Address(r, off) = Address(r, off) /\ Address(r, off) \in Nat
<1>1. regs[r] \in Word(DW) /\ DW \in Nat
  BY Widths DEF TypeOK
<1>2. PICK x \in Int : x = Unsigned(regs[r]) + off
  BY <1>1, WordIs, Pow2Pos
<1>3. Address(r, off) = x % Pow2[DW]
  BY <1>1, <1>2, ValueOfInt DEF Address
<1>4. Integers64!Address(r, off) = x % Pow2[DW]
  BY <1>2, SameBits DEF Integers64!Address, Integers64!DW, DW
<1>5. x % Pow2[DW] \in Nat
  <2>1. PICK p \in Nat \ {0} : p = Pow2[DW]
    BY <1>1, Pow2Pos
  <2>2. x % p \in 0 .. p - 1
    BY DivMod
  <2> QED
    BY <2>1, <2>2
<1> QED
  BY <1>3, <1>4, <1>5

LEMMA LoadImmStep ==
  ASSUME TypeOK, NEW i \in Insn, EmitLddw(i)
  PROVE  Integers64!LoadImm(i)
<1>1. i.op = "lddw" /\ i.dst \in Regs /\ i.imm \in Int /\ i.imm2 \in Int
  BY InsnFields DEF EmitLddw
<1>2. PICK v : /\ SetReg(i.dst, v)
               /\ v = CASE i.src = 0        -> OfInt(W, i.imm)
                                               \cup {b + W : b \in OfInt(W, i.imm2)}
                        [] i.src \in {1, 5} -> OfInt(DW, i.imm)
                        [] OTHER            -> regs[i.dst]
  BY DEF EmitLddw
<1>3. Integers64!Gets(i.dst, Unsigned(v))
  BY <1>2, GetsIs
<1>4. regs'[i.dst] = v
  BY <1>1, <1>2 DEF SetReg, TypeOK
<1>5. ASSUME i.src = 0
      PROVE  Unsigned(v) = Integers64!Mod(Integers64!W, i.imm)
                           + Integers64!Mod(Integers64!W, i.imm2) * Integers64!Pow2[Integers64!W]
  <2>1. W \in Nat /\ OfInt(W, i.imm) \in Word(W) /\ OfInt(W, i.imm2) \in Word(W)
    BY Widths, WordOps
  <2>2. v = OfInt(W, i.imm) \cup {b + W : b \in OfInt(W, i.imm2)}
    BY <1>2, <1>5
  <2>3. Unsigned(v) = Unsigned(OfInt(W, i.imm)) + Unsigned(OfInt(W, i.imm2)) * Pow2[W]
    BY <2>1, <2>2, AboveIs
  <2>4. /\ Unsigned(OfInt(W, i.imm)) = i.imm % Pow2[W]
        /\ Unsigned(OfInt(W, i.imm2)) = i.imm2 % Pow2[W]
    BY <1>1, <2>1, ValueOfInt
  <2>5. Integers64!W = W
    BY DEF Integers64!W, W
  <2> QED
    BY <2>3, <2>4, <2>5, SameBits, SamePow2
<1>6. ASSUME i.src \in {1, 5}
      PROVE  Unsigned(v) = Integers64!Mod(Integers64!DW, i.imm)
  <2>1. v = OfInt(DW, i.imm)
    BY <1>2, <1>6
  <2>2. Integers64!DW = DW /\ DW \in Nat
    BY Widths DEF Integers64!DW, DW
  <2> QED
    BY <1>1, <2>1, <2>2, ValueOfInt, SameBits
<1>7. ([r \in Regs |-> Unsigned(regs[r])])'[i.dst] = Unsigned(v)
  BY <1>1, <1>4
<1> QED
  BY <1>1, <1>3, <1>5, <1>6, <1>7 DEF Integers64!LoadImm

(* The bytes c[0], c[1], ... c[m - 1] of a word of m bytes.                *)
Bytes(c, m) == {b \in 0 .. m * B - 1 : b % B \in c[b \div B]}

(* Where a bit of a word is: in byte j, at e.                              *)
LEMMA BitOfByte ==
  ASSUME NEW j \in Int, NEW e \in 0 .. B - 1
  PROVE  (e + j * B) \div B = j /\ (e + j * B) % B = e
<1>1. e + j * B = j * B + e /\ e + j * B \in Int
  BY ByteAssumption
<1> QED
  BY <1>1, ByteAssumption, DivUnique

LEMMA InBytes ==
  ASSUME NEW m \in Nat, NEW j \in 0 .. m - 1, NEW e \in 0 .. B - 1
  PROVE  e + j * B \in 0 .. m * B - 1
<1>1. j * B >= 0
  BY ByteAssumption
<1>2. (m - 1 - j) * B >= 0
  BY ByteAssumption
<1>3. (m - 1 - j) * B = m * B - B - j * B
  BY ByteAssumption
<1> QED
  BY <1>1, <1>2, <1>3, ByteAssumption

LEMMA ByteOf ==
  ASSUME NEW m \in Nat, NEW b \in 0 .. m * B - 1
  PROVE  \E j \in 0 .. m - 1, e \in 0 .. B - 1 :
           b = e + j * B /\ b \div B = j /\ b % B = e
<1>0. b \in Int /\ B \in Nat \ {0} /\ m * B \in Int
  BY ByteAssumption
<1>1. PICK j \in Int, e \in 0 .. B - 1 : j = b \div B /\ e = b % B /\ b = j * B + e
  BY <1>0, DivMod
<1>2. j >= 0
  <2> SUFFICES ASSUME j <= -1 PROVE FALSE
    BY <1>1
  <2>1. (-1 - j) * B >= 0
    BY <1>0
  <2>2. (-1 - j) * B = -B - j * B
    BY <1>0
  <2> QED
    BY <1>0, <1>1, <2>1, <2>2
<1>3. j <= m - 1
  <2> SUFFICES ASSUME j >= m PROVE FALSE
    BY <1>1
  <2>1. (j - m) * B >= 0
    BY <1>0
  <2>2. (j - m) * B = j * B - m * B
    BY <1>0
  <2> QED
    BY <1>0, <1>1, <2>1, <2>2
<1>4. b = e + j * B /\ j \in 0 .. m - 1
  BY <1>0, <1>1, <1>2, <1>3
<1> QED
  BY <1>1, <1>4

LEMMA BytesMore ==
  ASSUME NEW m \in Nat, NEW c, c[m] \in Word(B)
  PROVE  Bytes(c, m + 1) = Bytes(c, m) \cup {b + m * B : b \in c[m]}
<1>0. B \in Nat \ {0} /\ m * B \in Nat /\ (m + 1) * B = m * B + B
  BY ByteAssumption
<1>1. ASSUME NEW b \in Bytes(c, m + 1)
      PROVE  b \in Bytes(c, m) \cup {e + m * B : e \in c[m]}
  <2>1. b \in 0 .. (m + 1) * B - 1 /\ b % B \in c[b \div B] /\ m + 1 \in Nat
    BY <1>1 DEF Bytes
  <2>2. PICK j \in 0 .. (m + 1) - 1, e \in 0 .. B - 1 :
          b = e + j * B /\ b \div B = j /\ b % B = e
    BY <2>1, ByteOf
  <2>3. CASE j = m
    BY <2>1, <2>2, <2>3
  <2>4. CASE j # m
    <3>1. j \in 0 .. m - 1
      BY <2>4
    <3>2. b \in 0 .. m * B - 1
      BY <3>1, <2>2, InBytes
    <3> QED
      BY <3>2, <2>1 DEF Bytes
  <2> QED
    BY <2>3, <2>4
<1>2. ASSUME NEW b \in Bytes(c, m) PROVE b \in Bytes(c, m + 1)
  <2>1. b \in 0 .. m * B - 1 /\ b % B \in c[b \div B]
    BY <1>2 DEF Bytes
  <2>2. b \in 0 .. (m + 1) * B - 1
    BY <1>0, <2>1
  <2> QED
    BY <2>1, <2>2 DEF Bytes
<1>3. ASSUME NEW e \in c[m] PROVE e + m * B \in Bytes(c, m + 1)
  <2>1. e \in 0 .. B - 1 /\ m \in 0 .. (m + 1) - 1 /\ m + 1 \in Nat /\ m \in Int
    BY DEF Word
  <2>2. e + m * B \in 0 .. (m + 1) * B - 1
    BY <2>1, InBytes
  <2>3. (e + m * B) \div B = m /\ (e + m * B) % B = e
    BY <2>1, BitOfByte
  <2> QED
    BY <2>2, <2>3 DEF Bytes
<1> QED
  BY <1>1, <1>2, <1>3

(* A word of m bytes is the sum of its bytes.                              *)
LEMMA BytesIs ==
  ASSUME NEW c, NEW g, NEW M \in Nat,
         \A k \in 0 .. M - 1 : c[k] \in Word(B) /\ g[k] = Unsigned(c[k]) * Pow2[k * B]
  PROVE  Unsigned(Bytes(c, M)) = SumFunctionOnSet(g, 0 .. M - 1)
<1> DEFINE P == {m \in Nat : m <= M =>
                   /\ Bytes(c, m) \in Word(m * B)
                   /\ Unsigned(Bytes(c, m)) = SumFunctionOnSet(g, 0 .. m - 1)}
<1>1. 0 \in P
  <2>1. Bytes(c, 0) = {} /\ 0 .. 0 - 1 = {} /\ {} \in Word(0 * B)
    BY ByteAssumption DEF Bytes, Word
  <2> QED
    BY <2>1, ValueEmpty, SumEmpty
<1>2. ASSUME NEW m \in Nat, m \in P PROVE m + 1 \in P
  <2> SUFFICES ASSUME m + 1 <= M
               PROVE  /\ Bytes(c, m + 1) \in Word((m + 1) * B)
                      /\ Unsigned(Bytes(c, m + 1)) = SumFunctionOnSet(g, 0 .. (m + 1) - 1)
    OBVIOUS
  <2>1. /\ Bytes(c, m) \in Word(m * B)
        /\ Unsigned(Bytes(c, m)) = SumFunctionOnSet(g, 0 .. m - 1)
    BY <1>2
  <2>2. c[m] \in Word(B) /\ g[m] = Unsigned(c[m]) * Pow2[m * B]
    OBVIOUS
  <2>3. m * B \in Nat /\ B \in Nat /\ (m + 1) * B = m * B + B
    BY ByteAssumption
  <2>4. /\ Bytes(c, m + 1) \in Word(m * B + B)
        /\ Unsigned(Bytes(c, m + 1)) = Unsigned(Bytes(c, m)) + g[m]
    <3>1. Bytes(c, m + 1) = Bytes(c, m) \cup {b + m * B : b \in c[m]}
      BY <2>2, BytesMore
    <3>2. PICK n \in Nat, l \in Nat : n = m * B /\ l = B
      BY <2>3
    <3>3. PICK u \in Word(n), v \in Word(l) : u = Bytes(c, m) /\ v = c[m]
      BY <2>1, <2>2, <3>2
    <3>4. /\ u \cup {b + n : b \in v} \in Word(n + l)
          /\ Unsigned(u \cup {b + n : b \in v}) = Unsigned(u) + Unsigned(v) * Pow2[n]
      BY AboveIs
    <3>5. Bytes(c, m + 1) = u \cup {b + n : b \in v}
      BY <3>1, <3>2, <3>3
    <3>6. Unsigned(v) * Pow2[n] = g[m]
      BY <2>2, <3>2, <3>3
    <3> QED
      BY <3>2, <3>3, <3>4, <3>5, <3>6
  <2>5. SumFunctionOnSet(g, (0 .. m - 1) \cup {m}) = SumFunctionOnSet(g, 0 .. m - 1) + g[m]
    <3>1. \A y \in (0 .. m - 1) \cup {m} : g[y] \in Int
      <4>1. ASSUME NEW y \in 0 .. M - 1 PROVE g[y] \in Int
        <5>1. Unsigned(c[y]) \in Int
          BY <2>3, ValueMore
        <5>2. y * B \in Nat
          BY <2>3
        <5>3. Pow2[y * B] \in Int
          BY <5>2, Pow2Pos
        <5> QED
          BY <5>1, <5>3
      <4>2. (0 .. m - 1) \cup {m} \subseteq 0 .. M - 1
        OBVIOUS
      <4> QED
        BY <4>1, <4>2
    <3>2. m + 1 \in Nat /\ 0 .. m - 1 \in SUBSET (0 .. (m + 1) - 1) /\ m \in 0 .. (m + 1) - 1
          /\ m \notin 0 .. m - 1
      OBVIOUS
    <3> QED
      BY <3>1, <3>2, SumAdd
  <2>6. (0 .. m - 1) \cup {m} = 0 .. (m + 1) - 1
    OBVIOUS
  <2> QED
    BY <2>1, <2>3, <2>4, <2>5, <2>6
<1> HIDE DEF P
<1>3. \A m \in Nat : m \in P
  BY <1>1, <1>2, SimpleInduction
<1> QED
  BY <1>3 DEF P

(* Joining bytes, in the instruction set and in a word.                    *)
LEMMA JoinIs ==
  ASSUME NEW m \in Nat, NEW c, NEW bytes,
         bytes = [k \in 0 .. m - 1 |-> Unsigned(c[k])],
         \A k \in 0 .. m - 1 : c[k] \in Word(B)
  PROVE  Integers64!Join(bytes) = Unsigned(Bytes(c, m))
<1> DEFINE g == [k \in 0 .. m - 1 |-> bytes[k] * Pow2[B * k]]
<1>1. DOMAIN bytes = 0 .. m - 1 /\ DOMAIN g = 0 .. m - 1
  OBVIOUS
<1>2. ASSUME NEW k \in 0 .. m - 1 PROVE g[k] = Unsigned(c[k]) * Pow2[k * B]
  <2>1. B * k = k * B
    BY ByteAssumption
  <2> QED
    BY <2>1
<1>3. Integers64!Join(bytes) = SumFunctionOnSet(g, 0 .. m - 1)
  <2>1. Integers64!Join(bytes) = SumFunction(g)
    BY <1>1, SamePow2 DEF Integers64!Join, SumFunction, Integers64!SumFunction,
       SumFunctionOnSet, FoldFunctionOnSet, MapThenFoldSet,
       Integers64!SumFunctionOnSet, Integers64!FoldFunctionOnSet, Integers64!MapThenFoldSet
  <2> QED
    BY <1>1, <2>1 DEF SumFunction
<1> HIDE DEF g
<1> QED
  BY <1>2, <1>3, BytesIs

(* A byte of the instruction set is a byte of a word.                      *)
LEMMA ByteIs ==
  ASSUME NEW m \in Nat, NEW w \in Word(m), NEW k \in Nat
  PROVE  Integers64!Byte(Unsigned(w), k) = Unsigned(Part(w, k * B, B))
<1>1. B \in Nat /\ k * B \in Nat /\ k * B = B * k
  BY ByteAssumption
<1>2. PICK b \in Nat : b = k * B /\ b = B * k
  BY <1>1
<1>3. Unsigned(Part(w, b, B)) = (Unsigned(w) \div Pow2[b]) % Pow2[B]
  BY <1>1, PartIs
<1> QED
  BY <1>2, <1>3, SameBits, SamePow2 DEF Integers64!Byte

(* BE reverses the bytes below imm.                                        *)
Reversed(w, n) == UNION {{b + n - B - 2 * k : b \in {c \in w : c - k \in 0 .. B - 1}} :
                           k \in {j \in 0 .. n - 1 : j % B = 0}}

LEMMA ReversedIs ==
  ASSUME NEW m \in Nat, NEW w \in Word(DW), NEW c,
         c = [k \in Int |-> Part(w, (m - 1 - k) * B, B)]
  PROVE  Reversed(w, m * B) = Bytes(c, m)
<1>0. B \in Nat \ {0} /\ DW \in Nat /\ \A q \in Int : q * B \in Int
  BY ByteAssumption, Widths
<1>1. ASSUME NEW x \in Reversed(w, m * B) PROVE x \in Bytes(c, m)
  <2>1. PICK k \in 0 .. m * B - 1, b \in w :
          k % B = 0 /\ b - k \in 0 .. B - 1 /\ x = b + m * B - B - 2 * k
    BY DEF Reversed
  <2>2. PICK q \in 0 .. m - 1, r \in 0 .. B - 1 : k = r + q * B /\ r = k % B
    BY <2>1, ByteOf
  <2>3. k = q * B
    BY <1>0, <2>1, <2>2
  <2>4. PICK e \in 0 .. B - 1 : e = b - k
    BY <2>1
  <2>5. PICK j \in 0 .. m - 1 : j = m - 1 - q
    BY <2>2
  <2>6. j * B = m * B - B - q * B
    <3>1. (m - 1 - q) * B = m * B - B - q * B
      BY <1>0
    <3> QED
      BY <2>5, <3>1
  <2>7. b \in Int /\ k \in Int
    BY <2>1, <1>0 DEF Word
  <2>8. x = e + j * B
    <3>1. PICK t \in Int, s \in Int, u \in Int : t = m * B /\ s = q * B /\ u = j * B
      BY <1>0, <2>2, <2>5
    <3> QED
      BY <1>0, <2>1, <2>3, <2>4, <2>6, <2>7, <3>1
  <2>9. x \in 0 .. m * B - 1 /\ x \div B = j /\ x % B = e
    BY <2>8, InBytes, BitOfByte
  <2>10. e \in c[j]
    <3>1. m - 1 - j = q
      BY <2>5
    <3>2. c[j] = Part(w, q * B, B)
      BY <3>1
    <3>3. e + q * B = b
      BY <2>3, <2>4, <2>7
    <3> QED
      BY <2>4, <3>2, <3>3 DEF Part
  <2> QED
    BY <2>9, <2>10 DEF Bytes
<1>2. ASSUME NEW x \in Bytes(c, m) PROVE x \in Reversed(w, m * B)
  <2>1. x \in 0 .. m * B - 1 /\ x % B \in c[x \div B]
    BY <1>2 DEF Bytes
  <2>2. PICK j \in 0 .. m - 1, e \in 0 .. B - 1 : x = e + j * B /\ x \div B = j /\ x % B = e
    BY <2>1, ByteOf
  <2>3. PICK q \in 0 .. m - 1 : q = m - 1 - j
    BY <2>2
  <2>4. e + q * B \in w
    BY <2>1, <2>2, <2>3 DEF Part
  <2>5. PICK k \in Int, b \in Int : k = q * B /\ b = e + q * B
    BY <1>0, <2>3
  <2>6. k \in 0 .. m * B - 1 /\ k % B = 0
    <3>1. 0 \in 0 .. B - 1 /\ q \in Int /\ 0 + q * B = k
      BY <1>0, <2>3, <2>5
    <3> QED
      BY <3>1, InBytes, BitOfByte
  <2>7. x = b + m * B - B - 2 * k
    <3>1. (m - 1 - j) * B = m * B - B - j * B
      BY <1>0
    <3>2. q * B = m * B - B - j * B
      BY <2>3, <3>1
    <3>3. PICK t \in Int, s \in Int : t = m * B /\ s = j * B
      BY <1>0, <2>2
    <3> QED
      BY <1>0, <2>2, <2>5, <3>2, <3>3
  <2>8. b \in w /\ b - k \in 0 .. B - 1
    BY <2>4, <2>5
  <2> QED
    BY <2>6, <2>7, <2>8 DEF Reversed
<1> QED
  BY <1>1, <1>2

(* emitALUEndianConversion, BE.                                            *)
LEMMA SwapStep ==
  ASSUME TypeOK, NEW i \in Insn, EmitEndian(i), i.op = "be"
  PROVE  Integers64!Swap(i)
<1>1. i.dst \in Regs /\ i.imm \in {H, W, DW}
  BY InsnFields
<1>2. PICK m \in Nat : i.imm = m * B
  BY <1>1 DEF H, W, DW
<1>3. i.imm \div B = m
  <2>1. 0 \in 0 .. B - 1 /\ m \in Int /\ m * B \in Int /\ 0 + m * B = m * B
    BY ByteAssumption
  <2> QED
    BY <1>2, <2>1, BitOfByte
<1>4. PICK w \in Word(DW) : w = regs[i.dst]
  BY <1>1 DEF TypeOK
<1>5. PICK c : c = [k \in Int |-> Part(w, (m - 1 - k) * B, B)]
  OBVIOUS
<1>6. SetReg(i.dst, Bytes(c, m))
  <2>1. SetReg(i.dst, Reversed(w, m * B))
    BY <1>2, <1>4 DEF EmitEndian, Reversed
  <2> QED
    BY <1>5, <2>1, ReversedIs
<1>7. Integers64!Gets(i.dst, Unsigned(Bytes(c, m)))
  BY <1>6, GetsIs
<1>8. PICK bytes : bytes = [k \in 0 .. m - 1 |-> Unsigned(c[k])]
  OBVIOUS
<1>9. \A k \in 0 .. m - 1 : c[k] \in Word(B)
  BY <1>5, WordOps, ByteAssumption
<1>10. Integers64!Join(bytes) = Unsigned(Bytes(c, m))
  BY <1>8, <1>9, JoinIs
<1>11. bytes = [k \in 0 .. m - 1 |-> Integers64!Byte(Unsigned(w), m - 1 - k)]
  <2>1. ASSUME NEW k \in 0 .. m - 1
        PROVE  Unsigned(c[k]) = Integers64!Byte(Unsigned(w), m - 1 - k)
    <3>1. m - 1 - k \in Nat /\ DW \in Nat
      BY Widths
    <3> QED
      BY <1>5, <3>1, ByteIs
  <2> QED
    BY <1>8, <2>1
<1>12. ([r \in Regs |-> Unsigned(regs[r])])[i.dst] = Unsigned(w)
  BY <1>1, <1>4
<1> QED
  BY <1>3, <1>7, <1>10, <1>11, <1>12 DEF Integers64!Swap

(* emitLoadX.                                                              *)
LEMMA LoadStep ==
  ASSUME TypeOK, NEW i \in Insn, EmitLoadX(i)
  PROVE  Integers64!Load(i)
<1>1. /\ i.op = "ldx" /\ i.dst \in Regs /\ i.src \in Regs /\ i.off \in Int
      /\ i.size \in {1, 2, 4, 8}
  BY InsnFields DEF EmitLoadX
<1>2. PICK a \in Nat, m \in Nat :
        a = Address(i.src, i.off) /\ Integers64!Address(i.src, i.off) = a /\ m = i.size
  BY <1>1, AddressIs
<1>3. a + m <= Size /\ SetReg(i.dst, {b \in 0 .. m * B - 1 : b % B \in mem[a + (b \div B)]})
  BY <1>2 DEF EmitLoadX, InMemory
<1>4. PICK c : c = [k \in Int |-> mem[a + k]]
  OBVIOUS
<1>5. {b \in 0 .. m * B - 1 : b % B \in mem[a + (b \div B)]} = Bytes(c, m)
  <2>1. ASSUME NEW b \in 0 .. m * B - 1 PROVE c[b \div B] = mem[a + (b \div B)]
    <3>1. b \div B \in Int
      BY ByteAssumption
    <3> QED
      BY <1>4, <3>1
  <2> QED
    BY <2>1 DEF Bytes
<1>6. \A k \in 0 .. m - 1 : a + k \in 0 .. Size - 1 /\ c[k] = mem[a + k] /\ c[k] \in Word(B)
  BY <1>3, <1>4, ByteAssumption DEF TypeOK
<1>7. PICK bytes : bytes = [k \in 0 .. m - 1 |-> Unsigned(c[k])]
  OBVIOUS
<1>8. Integers64!Join(bytes) = Unsigned(Bytes(c, m))
  BY <1>6, <1>7, JoinIs
<1>9. bytes = [k \in 0 .. m - 1 |-> ([b \in 0 .. Size - 1 |-> Unsigned(mem[b])])[a + k]]
  BY <1>6, <1>7
<1>10. Integers64!Gets(i.dst, Unsigned(Bytes(c, m)))
  BY <1>3, <1>5, GetsIs
<1> QED
  BY <1>1, <1>2, <1>8, <1>9, <1>10 DEF Integers64!Load

(* A part of the low part of a word is a part of the word.                 *)
LEMMA PartOfTrunc ==
  ASSUME NEW w, NEW m \in Nat, NEW b \in Nat, NEW n \in Nat, b + n <= m
  PROVE  Part(Trunc(m, w), b, n) = Part(w, b, n)
BY DEF Part, Trunc

(* emitStore.                                                              *)
LEMMA StoreStep ==
  ASSUME TypeOK, NEW i \in Insn, EmitStore(i)
  PROVE  Integers64!Store(i)
<1>1. /\ i.op \in {"st", "stx"} /\ i.dst \in Regs /\ i.src \in Regs /\ i.off \in Int
      /\ i.imm \in Int /\ i.size \in {1, 2, 4, 8}
  BY InsnFields DEF EmitStore
<1>2. PICK a \in Nat, m \in Nat :
        a = Address(i.dst, i.off) /\ Integers64!Address(i.dst, i.off) = a /\ m = i.size
  BY <1>1, AddressIs
<1>3. PICK w \in Word(DW) : w = StoreSource(i)
  BY <1>1, Widths, WordOps DEF StoreSource, TypeOK
<1>4. /\ mem' = [b \in 0 .. Size - 1 |-> IF b \in a .. a + m - 1
                   THEN Part(Trunc(m * B, w), (b - a) * B, B) ELSE mem[b]]
      /\ UNCHANGED <<regs, taken>>
  BY <1>2, <1>3 DEF EmitStore
<1>5. Unsigned(w) = IF i.op = "stx" THEN ([r \in Regs |-> Unsigned(regs[r])])[i.src]
                                    ELSE Integers64!Mod(Integers64!DW, i.imm)
  <2>1. CASE i.op = "stx"
    BY <1>1, <1>3, <2>1 DEF StoreSource
  <2>2. CASE i.op # "stx"
    <3>1. w = OfInt(DW, i.imm) /\ DW \in Nat /\ Integers64!DW = DW
      BY <1>3, <2>2, Widths DEF StoreSource, DW, Integers64!DW
    <3>2. Unsigned(w) = Integers64!Mod(Integers64!DW, i.imm)
      BY <1>1, <3>1, ValueOfInt, SameBits
    <3> QED
      BY <2>2, <3>2
  <2> QED
    BY <2>1, <2>2
<1>6. ASSUME NEW b \in 0 .. Size - 1
      PROVE  Unsigned(mem'[b]) = IF b - a \in 0 .. m - 1
               THEN Integers64!Byte(Unsigned(w), b - a)
               ELSE ([d \in 0 .. Size - 1 |-> Unsigned(mem[d])])[b]
  <2>0. b \in Int /\ Size \in Nat
    BY ByteAssumption
  <2>1. CASE b - a \in 0 .. m - 1
    <3>1. PICK k \in 0 .. m - 1 : k = b - a
      BY <2>1
    <3>2. b \in a .. a + m - 1
      BY <2>0, <2>1
    <3>3. mem'[b] = Part(Trunc(m * B, w), k * B, B)
      BY <1>4, <3>1, <3>2
    <3>4. k * B \in Nat /\ m * B \in Nat /\ B \in Nat /\ k * B + B <= m * B
      <4>1. (m - 1 - k) * B >= 0
        BY ByteAssumption
      <4>2. (m - 1 - k) * B = m * B - B - k * B
        BY ByteAssumption
      <4>3. k * B \in Nat /\ m * B \in Nat /\ B \in Nat
        BY ByteAssumption
      <4> QED
        BY <4>1, <4>2, <4>3
    <3>5. mem'[b] = Part(w, k * B, B)
      BY <3>3, <3>4, PartOfTrunc
    <3>6. Unsigned(mem'[b]) = Integers64!Byte(Unsigned(w), k)
      BY <3>5, Widths, ByteIs
    <3> QED
      BY <2>1, <3>1, <3>6
  <2>2. CASE b - a \notin 0 .. m - 1
    <3>1. b \notin a .. a + m - 1
      BY <2>0, <2>2
    <3>2. mem'[b] = mem[b]
      BY <1>4, <3>1
    <3> QED
      BY <2>2, <3>2
  <2> QED
    BY <2>1, <2>2
<1>7. ([b \in 0 .. Size - 1 |-> Unsigned(mem[b])])'
        = [b \in 0 .. Size - 1 |-> IF b - a \in 0 .. m - 1
             THEN Integers64!Byte(Unsigned(w), b - a)
             ELSE ([d \in 0 .. Size - 1 |-> Unsigned(mem[d])])[b]]
  BY <1>6
<1>8. UNCHANGED <<[r \in Regs |-> Unsigned(regs[r])], taken>>
  BY <1>4
<1> QED
  BY <1>1, <1>2, <1>5, <1>7, <1>8 DEF Integers64!Store

(* The initial states, and every step.                                     *)
LEMMA IsaInit == Init => Integers64!Init
<1> SUFFICES ASSUME Init PROVE Integers64!Init
  OBVIOUS
<1>1. ASSUME NEW r \in Regs
      PROVE  Unsigned(regs[r]) \in 0 .. Pow2[DW] - 1
  BY Widths, WordIs DEF Init
<1>2. ASSUME NEW a \in 0 .. Size - 1
      PROVE  Unsigned(mem[a]) \in 0 .. Pow2[B] - 1
  BY ByteAssumption, WordIs DEF Init
<1>3. Integers64!DW = DW
  BY DEF Integers64!DW, DW
<1>4. [r \in Regs |-> Unsigned(regs[r])] \in [Regs -> 0 .. Pow2[DW] - 1]
  BY <1>1
<1>5. [a \in 0 .. Size - 1 |-> Unsigned(mem[a])] \in [0 .. Size - 1 -> 0 .. Pow2[B] - 1]
  BY <1>2
<1> QED
  BY <1>3, <1>4, <1>5, SamePow2 DEF Integers64!Init

LEMMA IsaStep == TypeOK /\ [Next]_vars => [Integers64!Next]_(Integers64!vars)
<1> SUFFICES ASSUME TypeOK, [Next]_vars PROVE [Integers64!Next]_(Integers64!vars)
  OBVIOUS
<1>1. CASE UNCHANGED vars
  BY <1>1 DEF vars, Integers64!vars
<1>2. CASE Next
  <2>1. prog # <<>> /\ prog' = Tail(prog)
    BY <1>2 DEF Next
  <2>2. PICK i \in Insn : i = Head(prog)
    BY <2>1 DEF TypeOK
  <2>3. \/ EmitALU(i) \/ EmitEndian(i) \/ EmitStore(i) \/ EmitLoadX(i)
        \/ EmitLddw(i) \/ EmitExtCall(i) \/ EmitCondJmp(i)
    BY <1>2, <2>2 DEF Next
  <2>4. \/ Integers64!Compute(i) \/ Integers64!Jump(i) \/ Integers64!Swap(i)
        \/ Integers64!Keep(i) \/ Integers64!Store(i) \/ Integers64!Load(i)
        \/ Integers64!LoadImm(i) \/ Integers64!Helper(i)
    <3>1. CASE EmitALU(i)
      BY <3>1, ComputeStep
    <3>2. CASE EmitEndian(i)
      <4>1. i.op = "be" \/ i.op = "le"
        BY <3>2 DEF EmitEndian
      <4> QED
        BY <3>2, <4>1, SwapStep, KeepStep
    <3>3. CASE EmitStore(i)
      BY <3>3, StoreStep
    <3>4. CASE EmitLoadX(i)
      BY <3>4, LoadStep
    <3>5. CASE EmitLddw(i)
      BY <3>5, LoadImmStep
    <3>6. CASE EmitExtCall(i)
      BY <3>6, HelperStep
    <3>7. CASE EmitCondJmp(i)
      BY <3>7, JumpStep
    <3> QED
      BY <2>3, <3>1, <3>2, <3>3, <3>4, <3>5, <3>6, <3>7
  <2> QED
    BY <2>1, <2>2, <2>4 DEF Integers64!Next
<1> QED
  BY <1>1, <1>2

(* The code emitted for a basic block computes what its instructions say,  *)
(* whatever the program, the immediates, the contents of registers and     *)
(* memory, and the number of bits in a byte: arithmetic at both widths,    *)
(* division by zero, counts beyond the width, signed comparisons, byte     *)
(* swaps, addresses that wrap, loads, stores and LDDW.                     *)
THEOREM Refinement == Spec => Computes
<1>1. Spec => Integers64!Init /\ [][Integers64!Next]_(Integers64!vars)
  BY Typing, IsaInit, IsaStep, PTL DEF Spec
<1> QED
  BY <1>1 DEF Computes, Integers64!Spec
=============================================================================
