----------------------------- MODULE PrintkProofs -----------------------------
(* Proofs about Printk, for every memory, format, argument and width of    *)
(* int: its type invariant, that buffer holds what is converted into it,   *)
(* that a complete format is not read beyond its NUL, and that what goes   *)
(* out is what the format says.                                            *)
EXTENDS Printk, Induction, FiniteSetTheorems

-----------------------------------------------------------------------------
(* Strings in memory end: at a NUL, or where memory does.                  *)
LEMMA StringFacts ==
  ASSUME NEW a \in Nat
  PROVE  /\ StringLen(a) \in Nat
         /\ \A m \in 0 .. StringLen(a) - 1 : a + m \in DOMAIN Memory /\ Memory[a + m] # 0
         /\ a + StringLen(a) \in DOMAIN Memory => Memory[a + StringLen(a)] = 0
<1> DEFINE Stops(n) == a + n \in DOMAIN Memory => Memory[a + n] = 0
           T == {n \in Nat : Stops(n)}
           Is(n) == /\ \A m \in 0 .. n - 1 : a + m \in DOMAIN Memory /\ Memory[a + m] # 0
                    /\ a + n \in DOMAIN Memory => Memory[a + n] = 0
<1>1. MemEnd \in T
  <2>1. a + MemEnd \notin DOMAIN Memory /\ MemEnd \in Nat
    <3>1. \A x \in DOMAIN Memory : x <= MemEnd - 1
      BY MemoryAssumption
    <3> QED
      BY <3>1, MemoryAssumption
  <2> QED
    BY <2>1
<1>2. PICK n \in T : \A m \in T : n <= m
  <2>1. T \subseteq Nat /\ T # {}
    BY <1>1
  <2> HIDE DEF T
  <2> QED
    BY <2>1, LeastNumber
<1>3. n \in 0 .. MemEnd
  BY <1>1, <1>2, MemoryAssumption
<1>4. Is(n)
  <2>1. ASSUME NEW m \in 0 .. n - 1 PROVE a + m \in DOMAIN Memory /\ Memory[a + m] # 0
    <3>1. m \in Nat /\ ~(n <= m)
      BY <1>3
    <3>2. ~Stops(m)
      BY <3>1, <1>2
    <3> QED
      BY <3>2
  <2> QED
    BY <2>1, <1>2
<1>5. StringLen(a) = CHOOSE x \in 0 .. MemEnd : Is(x)
  BY DEF StringLen
<1>6. StringLen(a) \in 0 .. MemEnd /\ Is(StringLen(a))
  <2> HIDE DEF Is
  <2> QED
    BY <1>3, <1>4, <1>5
<1>7. StringLen(a) \in Nat
  BY <1>6, MemoryAssumption
<1> QED
  BY <1>6, <1>7

LEMMA StringType ==
  ASSUME NEW a \in Nat
  PROVE  /\ StringAt(a) \in Seq(Chars) /\ Len(StringAt(a)) = StringLen(a)
         /\ \A n \in 1 .. StringLen(a) : StringAt(a)[n] = Memory[a + n - 1]
<1>1. StringLen(a) \in Nat
  BY StringFacts
<1>2. ASSUME NEW n \in 1 .. StringLen(a) PROVE Memory[a + n - 1] \in Chars
  <2>1. n - 1 \in 0 .. StringLen(a) - 1 /\ a + (n - 1) = a + n - 1
    BY <1>1
  <2>2. a + n - 1 \in DOMAIN Memory
    BY <2>1, StringFacts
  <2> QED
    BY <2>2, MemoryAssumption
<1> QED
  BY <1>1, <1>2 DEF StringAt

-----------------------------------------------------------------------------
(* Sequences back to front.                                                *)
LEMMA ReverseType ==
  ASSUME NEW a \in Seq(Chars)
  PROVE  Reverse(a) \in Seq(Chars) /\ Len(Reverse(a)) = Len(a)
         /\ \A n \in 1 .. Len(a) : Reverse(a)[n] = a[Len(a) - n + 1]
<1>1. Len(a) \in Nat
  OBVIOUS
<1>2. \A n \in 1 .. Len(a) : Len(a) - n + 1 \in 1 .. Len(a)
  BY <1>1
<1>3. \A n \in 1 .. Len(a) : a[Len(a) - n + 1] \in Chars
  BY <1>2
<1> QED
  BY <1>1, <1>3 DEF Reverse

LEMMA ReverseConcat ==
  ASSUME NEW a \in Seq(Chars), NEW b \in Seq(Chars)
  PROVE  Reverse(a \o b) = Reverse(b) \o Reverse(a)
<1>a. a \o b \in Seq(Chars)
  OBVIOUS
<1>1. PICK ab \in Seq(Chars) : ab = a \o b
  BY <1>a
<1>2. PICK ra \in Seq(Chars), rb \in Seq(Chars), rab \in Seq(Chars) :
        ra = Reverse(a) /\ rb = Reverse(b) /\ rab = Reverse(ab)
  BY ReverseType
<1>b. rb \o ra \in Seq(Chars)
  OBVIOUS
<1>3. PICK c \in Seq(Chars) : c = rb \o ra
  BY <1>b
<1>4. PICK k \in Nat, l \in Nat : k = Len(a) /\ l = Len(b)
  OBVIOUS
<1>5. Len(ab) = k + l /\ Len(ra) = k /\ Len(rb) = l /\ Len(rab) = k + l
      /\ Len(c) = k + l
  <2>1. Len(ab) = k + l
    BY <1>1, <1>4
  <2>2. Len(ra) = k /\ Len(rb) = l /\ Len(rab) = Len(ab)
    BY <1>2, <1>4, ReverseType
  <2>3. Len(c) = Len(rb) + Len(ra)
    BY <1>3
  <2> QED
    BY <2>1, <2>2, <2>3
<1>c. /\ \A n \in 1 .. k : ra[n] = a[k - n + 1]
      /\ \A n \in 1 .. l : rb[n] = b[l - n + 1]
      /\ \A n \in 1 .. k + l : rab[n] = ab[k + l - n + 1]
  <2>1. \A n \in 1 .. Len(a) : ra[n] = a[Len(a) - n + 1]
    BY <1>2, ReverseType
  <2>2. \A n \in 1 .. Len(b) : rb[n] = b[Len(b) - n + 1]
    BY <1>2, ReverseType
  <2>3. \A n \in 1 .. Len(ab) : rab[n] = ab[Len(ab) - n + 1]
    BY <1>2, ReverseType
  <2> QED
    BY <2>1, <2>2, <2>3, <1>4, <1>5
<1>d. /\ \A n \in 1 .. k : ab[n] = a[n]
      /\ \A n \in 1 .. l : ab[k + n] = b[n]
  BY <1>1, <1>4
<1>e. /\ \A n \in 1 .. l : c[n] = rb[n]
      /\ \A n \in 1 .. k : c[l + n] = ra[n]
  <2>1. Len(rb) = l /\ Len(ra) = k
    BY <1>5
  <2> QED
    BY <2>1, <1>3
<1>6. ASSUME NEW n \in 1 .. k + l PROVE rab[n] = c[n]
  <2>1. rab[n] = ab[k + l - n + 1]
    BY <1>c
  <2>2. CASE n <= l
    <3>1. n \in 1 .. l /\ l - n + 1 \in 1 .. l
      BY <2>2
    <3>2. PICK m \in 1 .. l : m = l - n + 1 /\ k + l - n + 1 = k + m
      BY <3>1
    <3>3. ab[k + m] = b[m]
      BY <1>d
    <3>4. c[n] = rb[n] /\ rb[n] = b[l - n + 1]
      BY <3>1, <1>c, <1>e
    <3> QED
      BY <2>1, <3>2, <3>3, <3>4
  <2>3. CASE n > l
    <3>1. PICK m \in 1 .. k : n = l + m
      <4>1. n - l \in 1 .. k /\ n = l + (n - l)
        BY <2>3
      <4> QED
        BY <4>1
    <3>2. k - m + 1 \in 1 .. k /\ k + l - n + 1 = k - m + 1
      BY <3>1
    <3>3. ab[k - m + 1] = a[k - m + 1]
      BY <3>2, <1>d
    <3>4. c[l + m] = ra[m] /\ ra[m] = a[k - m + 1]
      BY <1>c, <1>e
    <3> QED
      BY <2>1, <3>1, <3>2, <3>3, <3>4
  <2> QED
    BY <2>2, <2>3
<1>7. rab = c
  BY <1>5, <1>6, SeqEqual
<1> QED
  BY <1>1, <1>2, <1>3, <1>7

LEMMA ReverseOne == \A c \in Chars : Reverse(<<c>>) = <<c>> /\ <<c>> \in Seq(Chars)
BY DEF Reverse

-----------------------------------------------------------------------------
(* Numerals: made from the last digit on, as the code does, and from the   *)
(* first on.  d gives the character of a digit.                            *)
Bases == {10, 16}
Backward(f, B, d) ==
  \A n \in Nat : f[n] = IF n < B THEN <<d[n]>> ELSE <<d[n % B]>> \o f[n \div B]
Forward(g, B, d) ==
  \A n \in Nat : g[n] = IF n < B THEN <<d[n]>> ELSE Append(g[n \div B], d[n % B])

LEMMA Quotient ==
  ASSUME NEW B \in Bases, NEW n \in Nat
  PROVE  /\ n \div B \in Nat /\ n % B \in 0 .. B - 1 /\ n % B \in Nat
         /\ n >= B => n \div B < n /\ n \div B > 0
         /\ n < B => n \div B = 0 /\ n % B = n
<1>1. CASE B = 10
  BY <1>1
<1>2. CASE B = 16
  BY <1>2
<1> QED
  BY <1>1, <1>2 DEF Bases

LEMMA NumeralType ==
  ASSUME NEW B \in Bases, NEW d \in [0 .. B - 1 -> Chars], NEW f,
         Backward(f, B, d) \/ Forward(f, B, d)
  PROVE  \A n \in Nat : f[n] \in Seq(Chars) /\ Len(f[n]) >= 1
<1> DEFINE S == {n \in Nat : f[n] \in Seq(Chars) /\ Len(f[n]) >= 1}
<1>1. ASSUME NEW n \in Nat, \A m \in 0 .. n - 1 : m \in S PROVE n \in S
  <2>1. CASE n < B
    <3>0. n \in 0 .. B - 1
      BY <2>1 DEF Bases
    <3>1. n \in 0 .. B - 1 /\ f[n] = <<d[n]>>
      BY <2>1, <3>0 DEF Backward, Forward
    <3>2. PICK c \in Chars : c = d[n]
      BY <3>1
    <3>3. <<c>> \in Seq(Chars) /\ Len(<<c>>) >= 1
      OBVIOUS
    <3> QED
      BY <3>1, <3>2, <3>3
  <2>2. CASE n >= B
    <3>1. PICK q \in Nat : q = n \div B /\ q < n
      BY <2>2, Quotient
    <3>2. q \in 0 .. n - 1
      BY <3>1
    <3>3. f[q] \in Seq(Chars) /\ Len(f[q]) >= 1
      BY <3>2, <1>1
    <3>4. PICK s \in Seq(Chars), c \in Chars : s = f[q] /\ c = d[n % B] /\ Len(s) >= 1
      BY <3>3, Quotient
    <3>5. ~(n < B)
      BY <2>2 DEF Bases
    <3>6. f[n] = <<c>> \o s \/ f[n] = Append(s, c)
      BY <3>1, <3>4, <3>5 DEF Backward, Forward
    <3>7. /\ <<c>> \o s \in Seq(Chars) /\ Len(<<c>> \o s) >= 1
          /\ Append(s, c) \in Seq(Chars) /\ Len(Append(s, c)) >= 1
      BY <3>4
    <3> QED
      BY <3>6, <3>7
  <2> QED
    BY <2>1, <2>2 DEF Bases
<1> HIDE DEF S
<1>2. \A n \in Nat : n \in S
  BY <1>1, StrongInduction
<1> QED
  BY <1>2 DEF S

LEMMA NumeralExists ==
  ASSUME NEW B \in Bases, NEW d \in [0 .. B - 1 -> Chars]
  PROVE  /\ \E f \in [Nat -> Seq(Chars)] : Backward(f, B, d)
         /\ \E f \in [Nat -> Seq(Chars)] : Forward(f, B, d)
<1> DEFINE A    == Seq(Chars)
           stop == 0 .. B - 1
           b == [n \in Nat |-> IF n < B THEN <<d[n]>> ELSE <<>>]
           p == [n \in Nat |-> n \div B]
           G == [q \in Nat \X A |-> <<d[q[1] % B]>> \o q[2]]
           H == [q \in Nat \X A |-> Append(q[2], d[q[1] % B])]
<1>1. b \in [Nat -> A]
  <2>1. ASSUME NEW n \in Nat, n < B PROVE <<d[n]>> \in Seq(Chars)
    <3>1. n \in 0 .. B - 1
      BY <2>1 DEF Bases
    <3> QED
      BY <3>1
  <2> QED
    BY <2>1
<1>2. p \in [Nat -> Nat] /\ stop \subseteq Nat /\ \A n \in Nat : n \notin stop => p[n] < n
  BY Quotient DEF Bases
<1>3. G \in [Nat \X A -> A] /\ H \in [Nat \X A -> A]
  <2>1. ASSUME NEW q \in Nat \X A
        PROVE  <<d[q[1] % B]>> \o q[2] \in A /\ Append(q[2], d[q[1] % B]) \in A
    <3>1. PICK c \in Chars, s \in Seq(Chars) : c = d[q[1] % B] /\ s = q[2]
      BY Quotient
    <3> QED
      BY <3>1
  <2> QED
    BY <2>1
<1>4. Descends(A, stop, b, p, G) /\ Descends(A, stop, b, p, H)
  BY <1>1, <1>2, <1>3 DEF Descends
<1>5. \A n \in Nat : n \in stop <=> n < B
  BY DEF Bases
<1>6. PICK f \in [Nat -> A] :
        \A n \in Nat : f[n] = IF n \in stop THEN b[n] ELSE G[<<n, f[p[n]]>>]
  <2> HIDE DEF A, stop, b, p, G
  <2> QED
    BY <1>4, RecursionExists
<1>7. PICK g \in [Nat -> A] :
        \A n \in Nat : g[n] = IF n \in stop THEN b[n] ELSE H[<<n, g[p[n]]>>]
  <2> HIDE DEF A, stop, b, p, H
  <2> QED
    BY <1>4, RecursionExists
<1>8. Backward(f, B, d)
  <2> SUFFICES ASSUME NEW n \in Nat
               PROVE  f[n] = IF n < B THEN <<d[n]>> ELSE <<d[n % B]>> \o f[n \div B]
    BY DEF Backward
  <2>1. f[n \div B] \in A /\ n \div B \in Nat
    BY Quotient
  <2> QED
    BY <2>1, <1>5, <1>6
<1>9. Forward(g, B, d)
  <2> SUFFICES ASSUME NEW n \in Nat
               PROVE  g[n] = IF n < B THEN <<d[n]>> ELSE Append(g[n \div B], d[n % B])
    BY DEF Forward
  <2>1. g[n \div B] \in A /\ n \div B \in Nat
    BY Quotient
  <2> QED
    BY <2>1, <1>5, <1>7
<1> QED
  BY <1>8, <1>9

(* The two give the same numeral; a greater number has as many digits.     *)
Both(f, g, B, d) ==
  /\ B \in Bases /\ d \in [0 .. B - 1 -> Chars]
  /\ Backward(f, B, d) /\ Forward(g, B, d)

LEMMA Mirror ==
  ASSUME NEW B, NEW d, NEW f, NEW g, Both(f, g, B, d)
  PROVE  \A n \in Nat : Reverse(f[n]) = g[n]
<1> USE DEF Both
<1> DEFINE S == {n \in Nat : Reverse(f[n]) = g[n]}
<1>1. ASSUME NEW n \in Nat, \A m \in 0 .. n - 1 : m \in S PROVE n \in S
  <2>1. CASE n < B
    <3>0. n \in 0 .. B - 1
      BY <2>1 DEF Bases
    <3>1. n \in 0 .. B - 1 /\ f[n] = <<d[n]>> /\ g[n] = <<d[n]>>
      BY <2>1, <3>0 DEF Backward, Forward
    <3>2. Reverse(<<d[n]>>) = <<d[n]>>
      BY <3>1, ReverseOne
    <3> QED
      BY <3>1, <3>2
  <2>2. CASE n >= B
    <3>1. PICK q \in Nat : q = n \div B /\ q < n
      BY <2>2, Quotient
    <3>2. q \in 0 .. n - 1 /\ ~(n < B)
      BY <2>2, <3>1 DEF Bases
    <3>3. Reverse(f[q]) = g[q]
      BY <3>2, <1>1
    <3>4. PICK s \in Seq(Chars), r \in Seq(Chars), c \in Chars :
            s = f[q] /\ r = g[q] /\ c = d[n % B]
      BY NumeralType, Quotient
    <3>5. f[n] = <<c>> \o s /\ g[n] = Append(r, c)
      BY <3>1, <3>2, <3>4 DEF Backward, Forward
    <3>6. Reverse(<<c>> \o s) = Reverse(s) \o Reverse(<<c>>) /\ Reverse(<<c>>) = <<c>>
      BY ReverseOne, ReverseConcat
    <3>7. Append(r, c) = r \o <<c>>
      OBVIOUS
    <3> QED
      BY <3>3, <3>4, <3>5, <3>6, <3>7
  <2> QED
    BY <2>1, <2>2 DEF Bases
<1> HIDE DEF S
<1>2. \A n \in Nat : n \in S
  BY <1>1, StrongInduction
<1> QED
  BY <1>2 DEF S

LEMMA Longer ==
  ASSUME NEW B \in Bases, NEW d \in [0 .. B - 1 -> Chars], NEW g, Forward(g, B, d)
  PROVE  \A n \in Nat : \A m \in 0 .. n : Len(g[m]) <= Len(g[n])
<1> DEFINE S == {n \in Nat : \A m \in 0 .. n : Len(g[m]) <= Len(g[n])}
<1>1. \A n \in Nat : g[n] \in Seq(Chars) /\ Len(g[n]) \in Nat /\ Len(g[n]) >= 1
  BY NumeralType
<1>2. \A n \in Nat : n < B => Len(g[n]) = 1
  <2> TAKE n \in Nat
  <2> HAVE n < B
  <2>1. g[n] = <<d[n]>>
    BY DEF Forward
  <2> QED
    BY <2>1
<1>3. \A n \in Nat : n >= B => Len(g[n]) = Len(g[n \div B]) + 1
  <2> TAKE n \in Nat
  <2> HAVE n >= B
  <2>1. PICK s \in Seq(Chars), c \in Chars : s = g[n \div B] /\ c = d[n % B]
    BY <1>1, Quotient
  <2>2. ~(n < B)
    BY DEF Bases
  <2>3. g[n] = Append(s, c)
    BY <2>1, <2>2 DEF Forward
  <2> QED
    BY <2>1, <2>3
<1>4. ASSUME NEW n \in Nat, \A m \in 0 .. n - 1 : m \in S PROVE n \in S
  <2>1. ASSUME NEW m \in 0 .. n PROVE Len(g[m]) <= Len(g[n])
    <3>1. m \in Nat
      OBVIOUS
    <3>2. CASE m < B
      BY <3>1, <3>2, <1>1, <1>2
    <3>3. CASE m >= B
      <4>1. n >= B
        BY <3>3 DEF Bases
      <4>2. PICK q \in Nat, r \in Nat :
              q = n \div B /\ r = m \div B /\ r <= q /\ q < n
        <5>1. m \div B <= n \div B
          <6>1. CASE B = 10
            BY <6>1
          <6>2. CASE B = 16
            BY <6>2
          <6> QED
            BY <6>1, <6>2 DEF Bases
        <5> QED
          BY <5>1, <4>1, Quotient
      <4>3. q \in 0 .. n - 1 /\ r \in 0 .. q
        BY <4>2
      <4>4. Len(g[r]) <= Len(g[q])
        BY <4>3, <1>4
      <4>5. Len(g[n]) = Len(g[q]) + 1 /\ Len(g[m]) = Len(g[r]) + 1
        BY <3>1, <3>3, <4>1, <4>2, <1>3
      <4> QED
        BY <4>2, <4>4, <4>5, <1>1
    <3> QED
      BY <3>1, <3>2, <3>3 DEF Bases
  <2> QED
    BY <2>1
<1> HIDE DEF S
<1>5. \A n \in Nat : n \in S
  BY <1>4, StrongInduction
<1> QED
  BY <1>5 DEF S

(* The digits of the two bases.                                            *)
dec == [n \in 0 .. 9 |-> ZERO + n]
hex == [n \in 0 .. 15 |-> HexDigit(n)]

LEMMA DigitTypes ==
  /\ dec \in [0 .. 10 - 1 -> Chars] /\ \A n \in 0 .. 9 : dec[n] \in Chars
  /\ hex \in [0 .. 16 - 1 -> Chars] /\ \A n \in 0 .. 15 : hex[n] \in Chars
<1>1. dec \in [0 .. 10 - 1 -> Chars] /\ \A n \in 0 .. 9 : dec[n] \in Chars
  BY DEF dec, ZERO, Chars
<1>2. hex \in [0 .. 16 - 1 -> Chars] /\ \A n \in 0 .. 15 : hex[n] \in Chars
  <2>1. \A n \in 0 .. 15 : HexDigit(n) \in Chars
    BY DEF HexDigit, ZERO, Chars
  <2> QED
    BY <2>1 DEF hex
<1> QED
  BY <1>1, <1>2

LEMMA DigitsReversedIs == Backward(DigitsReversed, 10, dec)
<1> DEFINE Def(f) == [n \in Nat |-> <<ZERO + (n % 10)>> \o
                                    IF n \div 10 > 0 THEN f[n \div 10] ELSE <<>>]
<1>1. PICK f \in [Nat -> Seq(Chars)] : Backward(f, 10, dec)
  BY NumeralExists, DigitTypes DEF Bases
<1>2. \A n \in Nat : /\ n % 10 \in 0 .. 9 /\ dec[n % 10] = ZERO + (n % 10)
                     /\ dec[n % 10] \in Chars
                     /\ n < 10 => n % 10 = n /\ ~(n \div 10 > 0)
                     /\ ~(n < 10) => n \div 10 > 0
  <2> TAKE n \in Nat
  <2>1. n % 10 \in 0 .. 9
    OBVIOUS
  <2>2. dec[n % 10] = ZERO + (n % 10)
    BY <2>1 DEF dec
  <2>3. dec[n % 10] \in Chars
    BY <2>1, DigitTypes
  <2>4. (n < 10 => n % 10 = n /\ ~(n \div 10 > 0)) /\ (~(n < 10) => n \div 10 > 0)
    OBVIOUS
  <2> QED
    BY <2>1, <2>2, <2>3, <2>4
<1>3. \A n \in Nat : <<dec[n % 10]>> \o <<>> = <<dec[n % 10]>>
  BY <1>2
<1>4. f = Def(f)
  <2>1. ASSUME NEW n \in Nat PROVE f[n] = Def(f)[n]
    <3>1. CASE n < 10
      BY <3>1, <1>1, <1>2, <1>3 DEF Backward
    <3>2. CASE ~(n < 10)
      BY <3>2, <1>1, <1>2 DEF Backward
    <3> QED
      BY <3>1, <3>2
  <2> QED
    BY <2>1
<1>5. DigitsReversed = CHOOSE g : g = Def(g)
  BY DEF DigitsReversed
<1>6. DigitsReversed = Def(DigitsReversed)
  <2> HIDE DEF Def
  <2> QED
    BY <1>4, <1>5
<1>7. ASSUME NEW n \in Nat
      PROVE  DigitsReversed[n] = IF n < 10 THEN <<dec[n]>>
                                 ELSE <<dec[n % 10]>> \o DigitsReversed[n \div 10]
  <2>1. DigitsReversed[n] = <<ZERO + (n % 10)>> \o
          IF n \div 10 > 0 THEN DigitsReversed[n \div 10] ELSE <<>>
    BY <1>6
  <2> QED
    BY <2>1, <1>2, <1>3
<1> QED
  BY <1>7 DEF Backward

LEMMA DecIs == Forward(Dec, 10, dec)
<1> DEFINE Def(f) == [n \in Nat |-> IF n < 10 THEN <<ZERO + n>>
                                    ELSE Append(f[n \div 10], ZERO + (n % 10))]
<1>1. PICK f \in [Nat -> Seq(Chars)] : Forward(f, 10, dec)
  BY NumeralExists, DigitTypes DEF Bases
<1>2. \A n \in Nat : n % 10 \in 0 .. 9 /\ dec[n % 10] = ZERO + (n % 10)
  BY DEF dec
<1>3. \A n \in Nat : n < 10 => dec[n] = ZERO + n
  BY DEF dec
<1>4. f = Def(f)
  BY <1>1, <1>2, <1>3 DEF Forward
<1>5. Dec = CHOOSE g : g = Def(g)
  BY DEF Dec
<1>6. Dec = Def(Dec)
  <2> HIDE DEF Def
  <2> QED
    BY <1>4, <1>5
<1> HIDE DEF dec
<1>7. ASSUME NEW n \in Nat
      PROVE  Dec[n] = IF n < 10 THEN <<dec[n]>>
                      ELSE Append(Dec[n \div 10], dec[n % 10])
  BY <1>2, <1>3, <1>6
<1> QED
  BY <1>7 DEF Forward

(* hextoa makes no digit of a quotient of 0, and writes a 0 for 0 itself.  *)
hexDigits == [n \in Nat |-> IF n = 0 THEN <<ZERO>> ELSE HexReversed[n]]

LEMMA HexReversedIs == Backward(hexDigits, 16, hex)
<1> DEFINE Def(f) == [n \in Nat |-> IF n = 0 THEN <<>>
                                    ELSE <<HexDigit(n % 16)>> \o f[n \div 16]]
<1>1. PICK f \in [Nat -> Seq(Chars)] : Backward(f, 16, hex)
  BY NumeralExists, DigitTypes DEF Bases
<1>2. \A n \in Nat : /\ n % 16 \in 0 .. 15 /\ hex[n % 16] = HexDigit(n % 16)
                     /\ hex[n % 16] \in Chars
                     /\ n < 16 => n % 16 = n /\ n \div 16 = 0
                     /\ ~(n < 16) => n \div 16 # 0 /\ n # 0
                     /\ n \div 16 \in Nat
  <2> TAKE n \in Nat
  <2>1. n % 16 \in 0 .. 15
    OBVIOUS
  <2>2. hex[n % 16] = HexDigit(n % 16)
    BY <2>1 DEF hex
  <2>3. hex[n % 16] \in Chars
    BY <2>1, DigitTypes
  <2>4. /\ n < 16 => n % 16 = n /\ n \div 16 = 0
        /\ ~(n < 16) => n \div 16 # 0 /\ n # 0
        /\ n \div 16 \in Nat
    OBVIOUS
  <2> QED
    BY <2>1, <2>2, <2>3, <2>4
<1>3. \A n \in Nat : <<hex[n % 16]>> \o <<>> = <<hex[n % 16]>>
  BY <1>2
<1> DEFINE h == [n \in Nat |-> IF n = 0 THEN <<>> ELSE f[n]]
<1>4. h = Def(h)
  <2>1. ASSUME NEW n \in Nat PROVE h[n] = Def(h)[n]
    <3>1. CASE n = 0
      BY <3>1
    <3>2. CASE n # 0 /\ n < 16
      <4>1. h[n] = <<hex[n]>> /\ h[n \div 16] = <<>> /\ n % 16 = n
        BY <3>2, <1>1, <1>2 DEF Backward
      <4> QED
        BY <3>2, <4>1, <1>2, <1>3
    <3>3. CASE ~(n < 16)
      <4>1. h[n] = <<hex[n % 16]>> \o f[n \div 16] /\ h[n \div 16] = f[n \div 16]
        BY <3>3, <1>1, <1>2 DEF Backward
      <4> QED
        BY <3>3, <4>1, <1>2
    <3> QED
      BY <3>1, <3>2, <3>3
  <2> QED
    BY <2>1
<1>5. HexReversed = CHOOSE g : g = Def(g)
  BY DEF HexReversed
<1>6. HexReversed = Def(HexReversed)
  <2> HIDE DEF Def, h
  <2> QED
    BY <1>4, <1>5
<1>7. ASSUME NEW n \in Nat
      PROVE  hexDigits[n] = IF n < 16 THEN <<hex[n]>>
                            ELSE <<hex[n % 16]>> \o hexDigits[n \div 16]
  <2>1. \A m \in Nat : HexReversed[m] = IF m = 0 THEN <<>>
                          ELSE <<HexDigit(m % 16)>> \o HexReversed[m \div 16]
    BY <1>6
  <2>2. CASE n = 0
    <3>1. hex[0] = ZERO
      BY DEF hex, HexDigit, ZERO
    <3> QED
      BY <2>2, <3>1 DEF hexDigits
  <2>3. CASE n # 0 /\ n < 16
    <3>1. HexReversed[n] = <<hex[n]>>
      <4>1. n \div 16 = 0 /\ n % 16 = n
        BY <2>3, <1>2
      <4>2. HexReversed[0] = <<>>
        BY <2>1
      <4>3. HexReversed[n] = <<HexDigit(n % 16)>> \o HexReversed[n \div 16]
        BY <2>1, <2>3
      <4>4. HexReversed[n] = <<hex[n % 16]>> \o <<>>
        BY <4>1, <4>2, <4>3, <1>2
      <4> QED
        BY <4>1, <4>4, <1>3
    <3> QED
      BY <2>3, <3>1 DEF hexDigits
  <2>4. CASE ~(n < 16)
    <3>1. HexReversed[n] = <<hex[n % 16]>> \o HexReversed[n \div 16]
      BY <2>1, <2>4, <1>2
    <3> QED
      BY <2>4, <3>1, <1>2 DEF hexDigits
  <2> QED
    BY <2>2, <2>3, <2>4
<1> QED
  BY <1>7 DEF Backward

LEMMA HexOfIs == Forward(HexOf, 16, hex)
<1> DEFINE Def(f) == [n \in Nat |-> IF n < 16 THEN <<HexDigit(n)>>
                                    ELSE Append(f[n \div 16], HexDigit(n % 16))]
<1>1. PICK f \in [Nat -> Seq(Chars)] : Forward(f, 16, hex)
  BY NumeralExists, DigitTypes DEF Bases
<1>2. \A n \in Nat : n % 16 \in 0 .. 15 /\ hex[n % 16] = HexDigit(n % 16)
  BY DEF hex
<1>3. \A n \in Nat : n < 16 => hex[n] = HexDigit(n)
  BY DEF hex
<1>4. f = Def(f)
  BY <1>1, <1>2, <1>3 DEF Forward
<1>5. HexOf = CHOOSE g : g = Def(g)
  BY DEF HexOf
<1>6. HexOf = Def(HexOf)
  <2> HIDE DEF Def
  <2> QED
    BY <1>4, <1>5
<1> HIDE DEF hex
<1>7. ASSUME NEW n \in Nat
      PROVE  HexOf[n] = IF n < 16 THEN <<hex[n]>>
                        ELSE Append(HexOf[n \div 16], hex[n % 16])
  BY <1>2, <1>3, <1>6
<1> QED
  BY <1>7 DEF Forward

LEMMA Decimals ==
  ASSUME NEW n \in Nat
  PROVE  /\ DigitsReversed[n] \in Seq(Chars) /\ Dec[n] \in Seq(Chars)
         /\ Reverse(DigitsReversed[n]) = Dec[n]
         /\ Len(DigitsReversed[n]) = Len(Dec[n])
         /\ \A m \in 0 .. n : Len(Dec[m]) <= Len(Dec[n])
<1>1. 10 \in Bases
  BY DEF Bases
<1>2. DigitsReversed[n] \in Seq(Chars) /\ Dec[n] \in Seq(Chars)
  BY <1>1, NumeralType, DigitTypes, DigitsReversedIs, DecIs
<1>3. Reverse(DigitsReversed[n]) = Dec[n]
  <2>1. Both(DigitsReversed, Dec, 10, dec)
    BY <1>1, DigitTypes, DigitsReversedIs, DecIs DEF Both
  <2> QED
    BY <2>1, Mirror
<1>4. Len(Reverse(DigitsReversed[n])) = Len(DigitsReversed[n])
  BY <1>2, ReverseType
<1>5. \A m \in 0 .. n : Len(Dec[m]) <= Len(Dec[n])
  BY <1>1, Longer, DigitTypes, DecIs
<1> QED
  BY <1>2, <1>3, <1>4, <1>5

LEMMA Hexadecimals ==
  ASSUME NEW n \in Nat
  PROVE  /\ hexDigits[n] \in Seq(Chars) /\ HexOf[n] \in Seq(Chars)
         /\ Reverse(hexDigits[n]) = HexOf[n]
         /\ Len(hexDigits[n]) = Len(HexOf[n])
         /\ \A m \in 0 .. n : Len(HexOf[m]) <= Len(HexOf[n])
<1>1. 16 \in Bases
  BY DEF Bases
<1>2. hexDigits[n] \in Seq(Chars) /\ HexOf[n] \in Seq(Chars)
  BY <1>1, NumeralType, DigitTypes, HexReversedIs, HexOfIs
<1>3. Reverse(hexDigits[n]) = HexOf[n]
  <2>1. Both(hexDigits, HexOf, 16, hex)
    BY <1>1, DigitTypes, HexReversedIs, HexOfIs DEF Both
  <2> QED
    BY <2>1, Mirror
<1>4. Len(Reverse(hexDigits[n])) = Len(hexDigits[n])
  BY <1>2, ReverseType
<1>5. \A m \in 0 .. n : Len(HexOf[m]) <= Len(HexOf[n])
  BY <1>1, Longer, DigitTypes, HexOfIs
<1> QED
  BY <1>2, <1>3, <1>4, <1>5

-----------------------------------------------------------------------------
(* What itoa and hextoa make, and that buffer has room for it.             *)
LEMMA Half ==
  \E h \in Nat : /\ IntMod = 2 * h /\ IntMod \div 2 = h /\ h >= 1
                 /\ Len(Dec[h]) + 1 < BufSize
<1>1. PICK n \in Nat : n = IntMod /\ n # 0 /\ n % 2 = 0
  BY WidthAssumption
<1>2. n \div 2 \in Nat /\ n = 2 * (n \div 2) /\ n \div 2 >= 1
  BY <1>1
<1> QED
  BY <1>1, <1>2, WidthAssumption

LEMMA ItoaIs ==
  ASSUME NEW h \in Nat, h = IntMod \div 2, Len(Dec[h]) + 1 < BufSize,
         NEW n \in Int, -h <= n, n < h
  PROVE  /\ Itoa(n) \in Seq(Chars) /\ Len(Itoa(n)) < BufSize
         /\ n >= 0 => Itoa(n) = Dec[n]
         /\ n < 0 /\ n # -h => Itoa(n) = <<MINUS>> \o Dec[-n]
<1>0. BufSize \in Nat
  BY WidthAssumption
<1>1. CASE n >= 0
  <2>1. n \in Nat /\ n \in 0 .. h
    BY <1>1
  <2>2. n # -h \/ h = 0
    BY <1>1
  <2>3. h # 0
    BY <1>1
  <2>4. Itoa(n) = Reverse(DigitsReversed[n])
    BY <1>1, <2>2, <2>3 DEF Itoa
  <2>5. Itoa(n) = Dec[n] /\ Dec[n] \in Seq(Chars) /\ Len(Dec[n]) <= Len(Dec[h])
    BY <2>1, <2>4, Decimals
  <2>6. Len(Dec[n]) \in Nat /\ Len(Dec[h]) \in Nat
    BY <2>1, Decimals
  <2> QED
    BY <1>0, <1>1, <2>5, <2>6
<1>2. CASE n < 0 /\ n # -h
  <2>1. PICK m \in Nat : m = -n /\ m \in 0 .. h
    BY <1>2
  <2>2. Itoa(n) = Reverse(DigitsReversed[m] \o <<MINUS>>)
    BY <1>2, <2>1 DEF Itoa
  <2>3. MINUS \in Chars
    BY DEF MINUS, Chars
  <2>4. Reverse(<<MINUS>>) = <<MINUS>> /\ <<MINUS>> \in Seq(Chars)
    BY <2>3, ReverseOne
  <2>5. Itoa(n) = <<MINUS>> \o Dec[m]
    <3>1. PICK r \in Seq(Chars) : r = DigitsReversed[m] /\ Reverse(r) = Dec[m]
      BY Decimals
    <3>2. Reverse(r \o <<MINUS>>) = Reverse(<<MINUS>>) \o Reverse(r)
      BY <2>4, ReverseConcat
    <3> QED
      BY <2>2, <2>4, <3>1, <3>2
  <2>6. PICK s \in Seq(Chars) : s = Dec[m] /\ Len(s) <= Len(Dec[h])
    BY <2>1, Decimals
  <2>7. <<MINUS>> \o s \in Seq(Chars) /\ Len(<<MINUS>> \o s) = 1 + Len(s)
    BY <2>3
  <2>8. Len(s) \in Nat /\ Len(Dec[h]) \in Nat
    BY Decimals
  <2> QED
    BY <1>0, <1>2, <2>1, <2>5, <2>6, <2>7, <2>8
<1>3. CASE n < 0 /\ n = -h
  <2>1. Itoa(n) = <<MINUS, ZERO - ((-n) % 10)>>
    BY <1>3 DEF Itoa
  <2>2. PICK c \in Chars : c = ZERO - ((-n) % 10)
    <3>1. PICK m \in Nat : m = -n
      BY <1>3
    <3>2. m % 10 \in 0 .. 9
      OBVIOUS
    <3>3. \A x \in 0 .. 9 : ZERO - x \in Chars
      BY DEF ZERO, Chars
    <3> QED
      BY <3>1, <3>2, <3>3
  <2>3. MINUS \in Chars
    BY DEF MINUS, Chars
  <2>4. <<MINUS, c>> \in Seq(Chars) /\ Len(<<MINUS, c>>) = 2
    BY <2>3
  <2>5. Len(Dec[h]) \in Nat /\ Len(Dec[h]) >= 1
    <3>1. 10 \in Bases
      BY DEF Bases
    <3>2. Dec[h] \in Seq(Chars) /\ Len(Dec[h]) >= 1
      BY <3>1, NumeralType, DigitTypes, DecIs
    <3> QED
      BY <3>2
  <2>6. Itoa(n) = <<MINUS, c>> /\ ~(n >= 0)
    BY <1>3, <2>1, <2>2
  <2>7. 2 < BufSize
    BY <1>0, <2>5
  <2> QED
    BY <1>3, <2>4, <2>6, <2>7
<1> QED
  BY <1>1, <1>2, <1>3

LEMMA PaddedType ==
  ASSUME NEW s \in Seq(Chars), NEW w \in Nat
  PROVE  /\ Padded(s, w) \in Seq(Chars)
         /\ Len(Padded(s, w)) = IF Len(s) < w THEN w ELSE Len(s)
<1> DEFINE m == IF Len(s) < w THEN w - Len(s) ELSE 0
           z == [k \in 1 .. m |-> ZERO]
<1>1. m \in Nat /\ m + Len(s) = IF Len(s) < w THEN w ELSE Len(s)
  OBVIOUS
<1>2. z \in Seq(Chars) /\ Len(z) = m
  <2>1. ZERO \in Chars
    BY DEF ZERO, Chars
  <2> HIDE DEF m
  <2> QED
    BY <1>1, <2>1
<1>3. Padded(s, w) = z \o s
  BY DEF Padded
<1> HIDE DEF m, z
<1>4. z \o s \in Seq(Chars) /\ Len(z \o s) = Len(z) + Len(s)
  BY <1>2
<1> QED
  BY <1>1, <1>2, <1>3, <1>4

LEMMA HextoaIs ==
  ASSUME NEW n \in Nat, NEW w \in Nat
  PROVE  Hextoa(n, w) = Padded(HexOf[n], w)
<1> DEFINE digits == hexDigits[n]
           m == IF Len(digits) < w THEN w - Len(digits) ELSE 0
           z == [k \in 1 .. m |-> ZERO]
<1>1. Hextoa(n, w) = Reverse(digits \o z)
  BY DEF Hextoa, hexDigits
<1>2. digits \in Seq(Chars) /\ Reverse(digits) = HexOf[n] /\ Len(digits) = Len(HexOf[n])
  BY Hexadecimals
<1>3. z \in Seq(Chars) /\ Reverse(z) = z
  <2>1. m \in Nat
    <3> HIDE DEF digits
    <3> QED
      BY <1>2
  <2>2. ZERO \in Chars
    BY DEF ZERO, Chars
  <2> HIDE DEF m
  <2>3. z \in Seq(Chars) /\ Len(z) = m
    BY <2>1, <2>2
  <2>4. \A k \in 1 .. m : m - k + 1 \in 1 .. m
    BY <2>1
  <2> QED
    BY <2>1, <2>3, <2>4 DEF Reverse
<1>4. Padded(HexOf[n], w) = z \o HexOf[n]
  BY <1>2 DEF Padded
<1> HIDE DEF digits, z
<1>5. Reverse(digits \o z) = Reverse(z) \o Reverse(digits)
  BY <1>2, <1>3, ReverseConcat
<1> QED
  BY <1>1, <1>2, <1>3, <1>4, <1>5

LEMMA HexRoom ==
  ASSUME NEW n \in 0 .. IntMod - 1, NEW w \in Nat
  PROVE  /\ Hextoa(n, w) \in Seq(Chars)
         /\ w < BufSize => Len(Hextoa(n, w)) < BufSize
<1>1. IntMod - 1 \in Nat /\ n \in Nat /\ n \in 0 .. IntMod - 1 /\ BufSize \in Nat
  BY WidthAssumption
<1>2. /\ HexOf[n] \in Seq(Chars) /\ HexOf[IntMod - 1] \in Seq(Chars)
      /\ Len(HexOf[n]) <= Len(HexOf[IntMod - 1])
  BY <1>1, Hexadecimals
<1>3. Len(HexOf[n]) \in Nat /\ Len(HexOf[IntMod - 1]) \in Nat
  BY <1>2
<1>4. Len(HexOf[n]) < BufSize
  BY <1>1, <1>2, <1>3, WidthAssumption
<1>5. Hextoa(n, w) = Padded(HexOf[n], w)
  BY <1>1, HextoaIs
<1>6. /\ Padded(HexOf[n], w) \in Seq(Chars)
      /\ Len(Padded(HexOf[n], w)) = IF Len(HexOf[n]) < w THEN w ELSE Len(HexOf[n])
  BY <1>2, PaddedType
<1> QED
  BY <1>1, <1>3, <1>4, <1>5, <1>6

-----------------------------------------------------------------------------
LEMMA ArgType ==
  ASSUME TypeOK, argn < 3
  PROVE  /\ Arg \in Nat /\ UintArg = Low(Arg) /\ UintArg \in 0 .. IntMod - 1
         /\ Arg % 256 \in Chars
         /\ \A h \in Nat : h = IntMod \div 2 /\ IntMod = 2 * h =>
              IntArg \in Int /\ -h <= IntArg /\ IntArg < h
<1>1. argn + 1 \in 1 .. 3 /\ call.args \in [1 .. 3 -> Nat]
  BY CallsAssumption DEF TypeOK
<1>2. PICK v \in Nat : v = Arg
  BY <1>1 DEF Arg
<1>3. v % IntMod \in 0 .. IntMod - 1
  BY WidthAssumption
<1>4. v % 256 \in Chars
  BY DEF Chars
<1>5. UintArg = Low(Arg) /\ UintArg = v % IntMod
  BY <1>2 DEF UintArg, Low
<1>6. PICK u \in Nat : u = UintArg /\ u \in 0 .. IntMod - 1
  BY <1>3, <1>5, WidthAssumption
<1>7. ASSUME NEW h \in Nat, h = IntMod \div 2, IntMod = 2 * h
      PROVE  IntArg \in Int /\ -h <= IntArg /\ IntArg < h
  <2>1. IntArg = IF u < h THEN u ELSE u - 2 * h
    BY <1>6, <1>7 DEF IntArg
  <2>2. u < 2 * h
    BY <1>6, <1>7
  <2> QED
    BY <2>1, <2>2
<1> QED
  BY <1>2, <1>4, <1>5, <1>6, <1>7

(* What a conversion makes of its argument, and whether it fits.           *)
LEMMA DecimalRoom ==
  ASSUME TypeOK, argn < 3
  PROVE  Itoa(IntArg) \in Seq(Chars) /\ Len(Itoa(IntArg)) < BufSize
BY Half, ArgType, ItoaIs

InvType == TypeOK /\ RoomInBuffer

LEMMA InitType == Init => InvType
<1> SUFFICES ASSUME Init PROVE InvType
  OBVIOUS
<1>1. call \in Calls /\ call.thr \in Chars \cup {Empty}
  BY CallsAssumption DEF Init
<1>2. <<>> \in Seq(Chars)
  OBVIOUS
<1> QED
  BY <1>1, <1>2 DEF Init, InvType, TypeOK, RoomInBuffer

(* Taking an argument.                                                     *)
LEMMA PutsType ==
  ASSUME TypeOK, pc = "s2", argn < 3, NEW str \in Seq(Chars), NEW room, Puts(str, room),
         Len(str) < room \/ (Char = Codes.x /\ len >= BufSize)
  PROVE  InvType'
<1>1. argn + 1 \in 0 .. 3
  BY DEF TypeOK
<1>2. TypeOK'
  BY <1>1 DEF TypeOK, Puts, Final
<1>3. Char' = Char /\ len' = len
  BY DEF Puts, Char
<1>4. RoomInBuffer'
  BY <1>3 DEF RoomInBuffer, Puts
<1> QED
  BY <1>2, <1>4 DEF InvType

LEMMA RelocatedType == TypeOK => Relocated \in Nat
<1> SUFFICES ASSUME TypeOK PROVE Relocated \in Nat
  OBVIOUS
<1>1. call.fmt \in Nat
  BY CallsAssumption DEF TypeOK
<1>2. rodata_bpf_start \in Nat
  BY MemoryAssumption
<1>3. rodata_bpf_start + call.fmt \in Nat
  BY <1>1, <1>2
<1> QED
  BY <1>1, <1>3 DEF Relocated

LEMMA StepType == InvType /\ [Next]_vars => InvType'
<1> SUFFICES ASSUME InvType, [Next]_vars PROVE InvType'
  OBVIOUS
<1>0. TypeOK
  BY DEF InvType
<1>1. CASE Entry
  <2>1. Relocated \in Nat
    BY <1>0, RelocatedType
  <2> QED
    BY <2>1, <1>0, <1>1 DEF InvType, TypeOK, RoomInBuffer, Entry
<1>2. CASE Fault
  BY <1>0, <1>2 DEF InvType, TypeOK, RoomInBuffer, Fault, Final
<1>3. CASE Percent
  BY <1>0, <1>3 DEF InvType, TypeOK, RoomInBuffer, Percent, At
<1>4. CASE End
  BY <1>0, <1>4 DEF InvType, TypeOK, RoomInBuffer, End, At, Final
<1>5. CASE Literal
  <2>1. Char \in Chars
    BY <1>5, MemoryAssumption DEF Literal, At, Char
  <2> HIDE DEF Char
  <2> QED
    BY <2>1, <1>0, <1>5 DEF InvType, TypeOK, RoomInBuffer, Literal, At, uart_putc
<1>6. CASE Digit
  <2>1. 10 * len + Char - ZERO \in Nat /\ i + 1 \in Nat
    <3>1. PICK c \in ZERO .. ZERO + 9 : c = Char
      BY <1>6 DEF Digit, IsDigit
    <3>2. len \in Nat /\ i \in Nat
      BY <1>0, <1>6 DEF TypeOK, Digit, At
    <3>3. c \in Nat /\ c >= ZERO /\ ZERO = 48
      BY DEF ZERO
    <3>4. 10 * len + c - 48 \in Nat
      BY <3>2, <3>3
    <3> QED
      BY <3>1, <3>2, <3>3, <3>4
  <2> HIDE DEF Char
  <2> QED
    BY <2>1, <1>0, <1>6 DEF InvType, TypeOK, RoomInBuffer, Digit, At
<1>7. CASE NoDigit
  BY <1>0, <1>7 DEF InvType, TypeOK, RoomInBuffer, NoDigit, At
<1>8. CASE Decimal
  <2>1. pc = "s2" /\ argn < 3 /\ Puts(Itoa(IntArg), BufSize)
    BY <1>8 DEF Decimal, Taking, At
  <2>2. Itoa(IntArg) \in Seq(Chars) /\ Len(Itoa(IntArg)) < BufSize
    BY <2>1, <1>0, DecimalRoom
  <2> QED
    BY <2>1, <2>2, <1>0, PutsType
<1>9. CASE Hex
  <2>1. pc = "s2" /\ argn < 3 /\ Puts(Hextoa(UintArg, len), BufSize) /\ Char = Codes.x
    BY <1>9 DEF Hex, Taking, At
  <2>2. len \in Nat /\ BufSize \in Nat
    BY <2>1, <1>0, WidthAssumption DEF TypeOK
  <2>3. /\ Hextoa(UintArg, len) \in Seq(Chars)
        /\ len < BufSize => Len(Hextoa(UintArg, len)) < BufSize
    <3>1. UintArg \in 0 .. IntMod - 1
      BY <2>1, <1>0, ArgType
    <3> QED
      BY <2>2, <3>1, HexRoom
  <2> QED
    BY <2>1, <2>2, <2>3, <1>0, PutsType
<1>10. CASE Str
  <2>1. pc = "s2" /\ argn < 3 /\ Puts(StringAt(Arg), Len(StringAt(Arg)) + 1)
    BY <1>10 DEF Str, Taking, At
  <2>2. PICK s \in Seq(Chars) : s = StringAt(Arg)
    BY <2>1, <1>0, ArgType, StringType
  <2>3. Len(s) < Len(s) + 1
    OBVIOUS
  <2> QED
    BY <2>1, <2>2, <2>3, <1>0, PutsType
<1>11. CASE CharArg
  <2>1. pc = "s2" /\ argn < 3 /\ Puts(<<Arg % 256>>, 2)
    BY <1>11 DEF CharArg, Taking, At
  <2>2. PICK c \in Chars : c = Arg % 256
    BY <2>1, <1>0, ArgType
  <2>3. <<c>> \in Seq(Chars) /\ Len(<<c>>) < 2
    OBVIOUS
  <2> QED
    BY <2>1, <2>2, <2>3, <1>0, PutsType
<1>12. CASE Unknown
  BY <1>0, <1>12 DEF InvType, TypeOK, RoomInBuffer, Unknown, At, Final
<1>13. CASE NoConversion
  BY <1>0, <1>13 DEF InvType, TypeOK, RoomInBuffer, NoConversion, At
<1>14. CASE uart_puts
  <2>1. Head(buffer) \in Chars /\ Tail(buffer) \in Seq(Chars)
    BY <1>0, <1>14 DEF TypeOK, uart_puts
  <2> QED
    BY <2>1, <1>0, <1>14 DEF InvType, TypeOK, RoomInBuffer, uart_puts, uart_putc
<1>15. CASE Converted
  BY <1>0, <1>15 DEF InvType, TypeOK, RoomInBuffer, Converted
<1>16. CASE Transmit
  <2>1. thr \in Chars
    BY <1>0, <1>16 DEF TypeOK, Transmit
  <2>2. Append(wire, thr) \in Seq(Chars)
    BY <2>1, <1>0 DEF TypeOK
  <2>3. TypeOK'
    BY <2>2, <1>0, <1>16 DEF TypeOK, Transmit
  <2>4. RoomInBuffer'
    BY <1>16 DEF InvType, RoomInBuffer, Transmit, Char
  <2> QED
    BY <2>3, <2>4 DEF InvType
<1>17. CASE UNCHANGED vars
  BY <1>0, <1>17 DEF InvType, TypeOK, RoomInBuffer, vars, Char
<1>18. CASE NullFormat
  <2>1. Relocated \in Nat
    BY <1>0, RelocatedType
  <2> QED
    BY <2>1, <1>0, <1>18 DEF InvType, TypeOK, RoomInBuffer, NullFormat, Final
<1> QED
  BY <1>1, <1>2, <1>3, <1>4, <1>5, <1>6, <1>7, <1>8, <1>9, <1>10, <1>11, <1>12,
     <1>13, <1>14, <1>15, <1>16, <1>17, <1>18 DEF Next, Walk, Over

(* The state of a call to printf or to the helper stays of its type, and   *)
(* no width of one conversion is left for the text after it, whatever the  *)
(* format and the arguments.                                               *)
THEOREM Typing == Spec => []TypeOK
<1>1. InvType => TypeOK
  BY DEF InvType
<1> QED
  BY <1>1, InitType, StepType, PTL DEF Spec

(* buffer holds every int and every uint32_t; only a width of a %x that is *)
(* as great as buffer makes hextoa write past it.                          *)
THEOREM Room == Spec => []RoomInBuffer
<1>1. InvType => RoomInBuffer
  BY DEF InvType
<1> QED
  BY <1>1, InitType, StepType, PTL DEF Spec

-----------------------------------------------------------------------------
(* A text, position by position: when a position is inside a conversion,   *)
(* how many '%' there are up to it, and the number its digits make.        *)
LEMMA Codings ==
  /\ \A c : IsCode(c) => ~IsDigit(c) /\ c # PERCENT
  /\ ~IsDigit(PERCENT) /\ ~IsDigit(0) /\ ~IsCode(0) /\ PERCENT # 0
  /\ \A c : IsDigit(c) => c - ZERO \in Nat /\ c # PERCENT
  /\ \A c : IsCode(c) <=> c \in {Codes.c, Codes.d, Codes.s, Codes.x}
<1>1. \A c : IsCode(c) <=> c \in {99, 100, 115, 120}
  BY DEF IsCode, Codes
<1>2. \A c : IsDigit(c) <=> c \in 48 .. 57
  BY DEF IsDigit, ZERO
<1>3. Codes.c = 99 /\ Codes.d = 100 /\ Codes.s = 115 /\ Codes.x = 120
  BY DEF Codes
<1> QED
  BY <1>1, <1>2, <1>3 DEF PERCENT, ZERO

LEMMA InsideStep ==
  ASSUME NEW t, NEW k \in Nat \ {0}
  PROVE  Inside(t, k + 1) <=> t[k] = PERCENT \/ (Inside(t, k) /\ IsDigit(t[k]))
<1>1. ASSUME Inside(t, k + 1), t[k] # PERCENT PROVE Inside(t, k) /\ IsDigit(t[k])
  <2>1. PICK p \in 1 .. k : t[p] = PERCENT /\ \A m \in p + 1 .. k : IsDigit(t[m])
    BY <1>1 DEF Inside, Percents
  <2>2. p # k /\ p \in 1 .. k - 1 /\ k \in p + 1 .. k
    BY <1>1, <2>1
  <2>3. \A m \in p + 1 .. k - 1 : m \in p + 1 .. k
    BY <2>1
  <2> QED
    BY <2>1, <2>2, <2>3 DEF Inside, Percents
<1>2. ASSUME t[k] = PERCENT PROVE Inside(t, k + 1)
  <2>1. k \in Percents(t, k + 1 - 1) /\ \A m \in k + 1 .. k + 1 - 1 : IsDigit(t[m])
    BY <1>2 DEF Percents
  <2> QED
    BY <2>1 DEF Inside
<1>3. ASSUME Inside(t, k), IsDigit(t[k]) PROVE Inside(t, k + 1)
  <2>1. PICK p \in 1 .. k - 1 : t[p] = PERCENT /\ \A m \in p + 1 .. k - 1 : IsDigit(t[m])
    BY <1>3 DEF Inside, Percents
  <2>2. \A m \in p + 1 .. k + 1 - 1 : m = k \/ m \in p + 1 .. k - 1
    BY <2>1
  <2>3. \A m \in p + 1 .. k + 1 - 1 : IsDigit(t[m])
    BY <1>3, <2>1, <2>2
  <2>4. p \in Percents(t, k + 1 - 1)
    BY <2>1 DEF Percents
  <2> QED
    BY <2>3, <2>4 DEF Inside
<1> QED
  BY <1>1, <1>2, <1>3

LEMMA InsideNone == \A t : ~Inside(t, 1)
BY DEF Inside, Percents

LEMMA PercentsStep ==
  ASSUME NEW t, NEW k \in Nat
  PROVE  /\ Cardinality(Percents(t, k)) \in Nat
         /\ Cardinality(Percents(t, k + 1)) =
              Cardinality(Percents(t, k)) + IF t[k + 1] = PERCENT THEN 1 ELSE 0
         /\ \A l \in 0 .. k : Cardinality(Percents(t, l)) <= Cardinality(Percents(t, k))
         /\ Inside(t, k + 1) => Cardinality(Percents(t, k)) >= 1
<1>1. \A l \in Nat : IsFiniteSet(Percents(t, l)) /\ Cardinality(Percents(t, l)) \in Nat
  <2> TAKE l \in Nat
  <2>1. IsFiniteSet(1 .. l)
    BY FS_Interval
  <2>2. Percents(t, l) \subseteq 1 .. l
    BY DEF Percents
  <2>3. IsFiniteSet(Percents(t, l))
    BY <2>1, <2>2, FS_Subset
  <2> QED
    BY <2>3, FS_CardinalityType
<1>2. Cardinality(Percents(t, k + 1)) =
        Cardinality(Percents(t, k)) + IF t[k + 1] = PERCENT THEN 1 ELSE 0
  <2>1. CASE t[k + 1] = PERCENT
    <3>1. Percents(t, k + 1) = Percents(t, k) \cup {k + 1} /\ k + 1 \notin Percents(t, k)
      BY <2>1 DEF Percents
    <3>2. Cardinality(Percents(t, k) \cup {k + 1}) = Cardinality(Percents(t, k)) + 1
      BY <1>1, <3>1, FS_AddElement
    <3> QED
      BY <2>1, <3>1, <3>2
  <2>2. CASE t[k + 1] # PERCENT
    <3>1. Percents(t, k + 1) = Percents(t, k)
      BY <2>2 DEF Percents
    <3> QED
      BY <2>2, <3>1, <1>1
  <2> QED
    BY <2>1, <2>2
<1>3. ASSUME NEW l \in 0 .. k
      PROVE  Cardinality(Percents(t, l)) <= Cardinality(Percents(t, k))
  <2>1. Percents(t, l) \subseteq Percents(t, k)
    BY DEF Percents
  <2> QED
    BY <2>1, <1>1, FS_Subset
<1>4. ASSUME Inside(t, k + 1) PROVE Cardinality(Percents(t, k)) >= 1
  <2>1. k + 1 - 1 = k
    OBVIOUS
  <2>2. Percents(t, k) # {}
    BY <1>4, <2>1 DEF Inside
  <2>3. Cardinality(Percents(t, k)) # 0
    BY <1>1, <2>2, FS_EmptySet
  <2> QED
    BY <1>1, <2>3
<1> QED
  BY <1>1, <1>2, <1>3, <1>4

LEMMA PercentsNone == \A t : Cardinality(Percents(t, 0)) = 0
<1>1. \A t : Percents(t, 0) = {}
  BY DEF Percents
<1> QED
  BY <1>1, FS_EmptySet

LEMMA NumberIs ==
  ASSUME NEW t \in Seq(Chars)
  PROVE  /\ Number(t) \in [0 .. Len(t) -> Nat]
         /\ \A k \in 0 .. Len(t) :
              Number(t)[k] = IF k = 0 THEN 0
                             ELSE IF IsDigit(t[k]) THEN 10 * Number(t)[k - 1] + t[k] - ZERO
                             ELSE 0
<1>0. Len(t) \in Nat /\ \A k \in 1 .. Len(t) : t[k] \in Chars
  OBVIOUS
<1> DEFINE L == Len(t)
           b == [n \in Nat |-> 0]
           p == [n \in Nat |-> IF n = 0 THEN 0 ELSE n - 1]
           digits == {n \in 1 .. L : IsDigit(t[n])}
           stop == Nat \ digits
           G == [q \in Nat \X Nat |->
                   IF q[1] \in digits THEN 10 * q[2] + t[q[1]] - ZERO ELSE 0]
           Def(f) == [k \in 0 .. L |->
                        IF k = 0 THEN 0
                        ELSE IF IsDigit(t[k]) THEN 10 * f[k - 1] + t[k] - ZERO ELSE 0]
<1>1. ASSUME NEW q \in Nat \X Nat, q[1] \in digits
      PROVE  10 * q[2] + t[q[1]] - ZERO \in Nat
  <2>1. PICK c \in Chars, m \in Nat : c = t[q[1]] /\ m = q[2] /\ IsDigit(c)
    BY <1>0, <1>1
  <2>2. c \in Nat /\ c >= ZERO /\ ZERO = 48
    <3>1. c \in 48 .. 57
      BY <2>1 DEF IsDigit, ZERO
    <3> QED
      BY <3>1 DEF ZERO
  <2>3. 10 * m + c - ZERO \in Nat
    BY <2>1, <2>2
  <2> QED
    BY <2>1, <2>3
<1>2. G \in [Nat \X Nat -> Nat]
  <2> HIDE DEF digits
  <2> QED
    BY <1>1
<1>3. Descends(Nat, stop, b, p, G)
  <2>1. \A n \in Nat : n \notin stop => n # 0
    BY <1>0
  <2>2. stop \subseteq Nat /\ b \in [Nat -> Nat] /\ p \in [Nat -> Nat]
    OBVIOUS
  <2>3. \A n \in Nat : n \notin stop => p[n] < n
    BY <2>1
  <2> QED
    BY <2>2, <2>3, <1>2 DEF Descends
<1>4. PICK f \in [Nat -> Nat] :
        \A n \in Nat : f[n] = IF n \in stop THEN b[n] ELSE G[<<n, f[p[n]]>>]
  <2> HIDE DEF stop, b, p, G
  <2> QED
    BY <1>3, RecursionExists
<1> DEFINE g == [k \in 0 .. L |-> f[k]]
<1>5. \A n \in Nat : f[n] = IF n \in digits THEN 10 * f[n - 1] + t[n] - ZERO ELSE 0
  <2> TAKE n \in Nat
  <2>1. CASE n \in digits
    <3>1. n # 0 /\ n - 1 \in Nat /\ p[n] = n - 1 /\ n \notin stop
      BY <2>1, <1>0
    <3>2. f[n - 1] \in Nat /\ <<n, f[n - 1]>> \in Nat \X Nat
      BY <3>1
    <3>3. G[<<n, f[n - 1]>>] = 10 * f[n - 1] + t[n] - ZERO
      <4> HIDE DEF digits
      <4> QED
        BY <2>1, <3>2
    <3> QED
      BY <2>1, <3>1, <3>3, <1>4
  <2>2. CASE n \notin digits
    BY <2>2, <1>4
  <2> QED
    BY <2>1, <2>2
<1>6. g = Def(g)
  <2>1. ASSUME NEW k \in 0 .. L
        PROVE  g[k] = IF k = 0 THEN 0
                      ELSE IF IsDigit(t[k]) THEN 10 * g[k - 1] + t[k] - ZERO ELSE 0
    <3>0. k \in Nat /\ L \in Nat
      BY <1>0
    <3>1. CASE k = 0
      <4>1. k \notin digits
        BY <3>1
      <4> QED
        BY <3>0, <3>1, <4>1, <1>5
    <3>2. CASE k # 0
      <4>1. k \in 1 .. L /\ k - 1 \in 0 .. L
        BY <3>0, <3>2
      <4>2. g[k - 1] = f[k - 1] /\ g[k] = f[k]
        BY <4>1
      <4>3. k \in digits <=> IsDigit(t[k])
        BY <4>1
      <4> HIDE DEF g, digits
      <4> QED
        BY <3>0, <3>2, <4>2, <4>3, <1>5
    <3> QED
      BY <3>1, <3>2
  <2> HIDE DEF L
  <2> QED
    BY <2>1
<1>7. Number(t) = CHOOSE val : val = Def(val)
  BY DEF Number
<1>8. Number(t) = Def(Number(t))
  <2> HIDE DEF Def, g
  <2> QED
    BY <1>6, <1>7
<1>9. ASSUME NEW k \in 0 .. L
      PROVE  Number(t)[k] = IF k = 0 THEN 0
                            ELSE IF IsDigit(t[k]) THEN 10 * Number(t)[k - 1] + t[k] - ZERO
                            ELSE 0
  BY <1>8
<1>10. \A k \in Nat : k \in 0 .. L => Number(t)[k] \in Nat
  <2> DEFINE S == {k \in Nat : k \in 0 .. L => Number(t)[k] \in Nat}
  <2>1. 0 \in S
    BY <1>0, <1>9
  <2>2. ASSUME NEW k \in Nat, k \in S PROVE k + 1 \in S
    <3> SUFFICES ASSUME k + 1 \in 0 .. L PROVE Number(t)[k + 1] \in Nat
      OBVIOUS
    <3>0. L \in Nat /\ k \in 0 .. L
      BY <1>0
    <3>a. Number(t)[k] \in Nat
      BY <2>2, <3>0
    <3>b. k + 1 # 0 /\ k + 1 - 1 = k /\ k + 1 \in 1 .. L
      BY <3>0
    <3>1. Number(t)[k] \in Nat /\ k + 1 # 0 /\ k + 1 - 1 = k /\ k + 1 \in 1 .. L
      BY <3>a, <3>b
    <3>2. PICK m \in Nat, c \in Chars : m = Number(t)[k] /\ c = t[k + 1]
      BY <3>1, <1>0
    <3>3. Number(t)[k + 1] = IF IsDigit(c) THEN 10 * m + c - ZERO ELSE 0
      <4>1. Number(t)[k + 1] =
              IF k + 1 = 0 THEN 0
              ELSE IF IsDigit(t[k + 1]) THEN 10 * Number(t)[k + 1 - 1] + t[k + 1] - ZERO
              ELSE 0
        BY <1>9
      <4> QED
        BY <4>1, <3>1, <3>2
    <3>4. ASSUME IsDigit(c) PROVE 10 * m + c - ZERO \in Nat
      <4>1. PICK d \in 0 .. 9 : c = ZERO + d
        <5>1. c \in 48 .. 57
          BY <3>4 DEF IsDigit, ZERO
        <5>2. c - 48 \in 0 .. 9 /\ c = 48 + (c - 48)
          BY <5>1
        <5> QED
          BY <5>2 DEF ZERO
      <4>2. PICK e \in Nat : e = 10 * m
        OBVIOUS
      <4>3. e + (48 + d) - 48 \in Nat
        OBVIOUS
      <4> QED
        BY <4>1, <4>2, <4>3 DEF ZERO
    <3>5. IsDigit(c) => 10 * m + c - ZERO \in Nat
      BY <3>4
    <3> QED
      BY <3>3, <3>5
  <2>3. \A k \in Nat : k \in S
    <3> HIDE DEF S
    <3> QED
      BY <2>1, <2>2, SimpleInduction
  <2> QED
    BY <2>3
<1>11. Number(t) \in [0 .. L -> Nat]
  <2>1. \A k \in 0 .. L : Number(t)[k] \in Nat
    BY <1>0, <1>10
  <2>2. Number(t) = [k \in 0 .. L |-> Number(t)[k]]
    BY <1>8
  <2> QED
    BY <2>1, <2>2
<1> QED
  BY <1>9, <1>11

-----------------------------------------------------------------------------
(* The walk of a complete format: where it is, how many arguments it has   *)
(* taken and what width it has read, at each label.                        *)
Walked(t, lbl, n, a, w) ==
  /\ lbl \notin {"fault", "unknown"} /\ n \in 0 .. Len(t)
  /\ lbl \in {"entry", "s0"} =>
       ~Inside(t, n + 1) /\ a = Cardinality(Percents(t, n))
  /\ lbl \in {"s1", "s2"} =>
       /\ Inside(t, n + 1) /\ a + 1 = Cardinality(Percents(t, n))
       /\ w = Number(t)[n]
  /\ lbl = "s2" => IsCode(t[n + 1])
  /\ lbl = "puts" =>
       Inside(t, n + 1) /\ IsCode(t[n + 1]) /\ a = Cardinality(Percents(t, n))
  /\ lbl = "end" => n = Len(t)

WalkInv ==
  /\ pc # "entry" => format = Relocated
  /\ Complete(Text) => Walked(Text, pc, i, argn, len)

LEMMA TextFacts ==
  ASSUME TypeOK
  PROVE  /\ Relocated \in Nat /\ Text \in Seq(Chars) /\ Len(Text) \in Nat
         /\ \A n \in 0 .. Len(Text) - 1 :
              /\ Relocated + n \in DOMAIN Memory
              /\ Memory[Relocated + n] = Text[n + 1] /\ Text[n + 1] # 0
              /\ Text[n + 1] \in Chars
         /\ Complete(Text) => /\ Relocated + Len(Text) \in DOMAIN Memory
                              /\ Memory[Relocated + Len(Text)] = 0
<1>1. Relocated \in Nat
  BY RelocatedType
<1>2. PICK r \in Nat : r = Relocated
  BY <1>1
<1>3. PICK t \in Seq(Chars) : t = Text /\ t = StringAt(r)
  BY <1>2, StringType DEF Text
<1>4. /\ Len(t) \in Nat /\ Len(t) = StringLen(r)
      /\ \A n \in 1 .. Len(t) : t[n] = Memory[r + n - 1] /\ t[n] \in Chars
      /\ \A n \in 0 .. Len(t) - 1 : r + n \in DOMAIN Memory /\ Memory[r + n] # 0
      /\ r + Len(t) \in DOMAIN Memory => Memory[r + Len(t)] = 0
  <2>1. Len(t) \in Nat /\ Len(t) = StringLen(r)
    BY <1>3, StringType
  <2>2. \A n \in 1 .. Len(t) : t[n] = Memory[r + n - 1]
    BY <1>3, <2>1, StringType
  <2>3. \A n \in 1 .. Len(t) : t[n] \in Chars
    BY <1>3
  <2>4. /\ \A n \in 0 .. Len(t) - 1 : r + n \in DOMAIN Memory /\ Memory[r + n] # 0
        /\ r + Len(t) \in DOMAIN Memory => Memory[r + Len(t)] = 0
    BY <2>1, StringFacts
  <2> QED
    BY <2>1, <2>2, <2>3, <2>4
<1>5. ASSUME NEW n \in 0 .. Len(t) - 1
      PROVE  /\ r + n \in DOMAIN Memory /\ Memory[r + n] = t[n + 1] /\ t[n + 1] # 0
             /\ t[n + 1] \in Chars
  <2>1. n + 1 \in 1 .. Len(t) /\ r + (n + 1) - 1 = r + n
    BY <1>4
  <2> QED
    BY <2>1, <1>4
<1>6. Complete(t) => r + Len(t) \in DOMAIN Memory
  BY <1>2 DEF Complete
<1> QED
  BY <1>2, <1>3, <1>4, <1>5, <1>6

(* Inside a conversion of a complete format there is a digit or the letter *)
(* at its end to come.                                                     *)
LEMMA Continues ==
  ASSUME NEW t \in Seq(Chars), Complete(t), NEW n \in 0 .. Len(t), Inside(t, n + 1)
  PROVE  /\ n < Len(t) /\ (IsDigit(t[n + 1]) \/ IsCode(t[n + 1]))
         /\ Cardinality(Percents(t, n)) \in 1 .. 3
<1>0. Len(t) \in Nat /\ n \in Nat
  OBVIOUS
<1>1. PICK p \in 1 .. n : t[p] = PERCENT /\ \A m \in p + 1 .. n : IsDigit(t[m])
  <2>1. n + 1 - 1 = n
    BY <1>0
  <2> QED
    BY <2>1 DEF Inside, Percents
<1>2. p \in Percents(t, Len(t))
  BY <1>0, <1>1 DEF Percents
<1>3. PICK m \in p + 1 .. Len(t) :
        IsCode(t[m]) /\ \A j \in p + 1 .. m - 1 : IsDigit(t[j])
  BY <1>2 DEF Complete
<1>4. ~(m <= n)
  <2>1. ASSUME m <= n PROVE FALSE
    <3>1. m \in p + 1 .. n
      BY <2>1, <1>0, <1>1, <1>3
    <3> QED
      BY <3>1, <1>1, <1>3, Codings
  <2> QED
    BY <2>1
<1>5. n < Len(t)
  BY <1>0, <1>3, <1>4
<1>6. IsDigit(t[n + 1]) \/ IsCode(t[n + 1])
  <2>1. n + 1 = m \/ n + 1 \in p + 1 .. m - 1
    BY <1>0, <1>1, <1>3, <1>4
  <2> QED
    BY <2>1, <1>3
<1>7. Cardinality(Percents(t, n)) \in 1 .. 3
  <2>1. /\ Cardinality(Percents(t, n)) \in Nat
        /\ Cardinality(Percents(t, n)) >= 1
    BY <1>0, PercentsStep
  <2>2. Cardinality(Percents(t, n)) <= Cardinality(Percents(t, Len(t)))
    BY <1>0, PercentsStep
  <2>3. Cardinality(Percents(t, Len(t))) <= 3 /\ Cardinality(Percents(t, Len(t))) \in Nat
    BY <1>0, PercentsStep DEF Complete
  <2> QED
    BY <2>1, <2>2, <2>3
<1> QED
  BY <1>5, <1>6, <1>7

(* From one position to the next.                                          *)
LEMMA Onwards ==
  ASSUME NEW t \in Seq(Chars), NEW n \in 0 .. Len(t) - 1
  PROVE  /\ n \in 0 .. Len(t) /\ n + 1 \in 0 .. Len(t)
         /\ Inside(t, n + 1 + 1) <=>
              t[n + 1] = PERCENT \/ (Inside(t, n + 1) /\ IsDigit(t[n + 1]))
         /\ Cardinality(Percents(t, n)) \in Nat
         /\ Cardinality(Percents(t, n + 1)) =
              Cardinality(Percents(t, n)) + IF t[n + 1] = PERCENT THEN 1 ELSE 0
         /\ Number(t)[n] \in Nat
         /\ Number(t)[n + 1] =
              IF IsDigit(t[n + 1]) THEN 10 * Number(t)[n] + t[n + 1] - ZERO ELSE 0
<1>1. Len(t) \in Nat /\ n \in Nat /\ n + 1 \in Nat \ {0} /\ n \in 0 .. Len(t)
      /\ n + 1 \in 0 .. Len(t) /\ n + 1 - 1 = n
  OBVIOUS
<1>2. Inside(t, n + 1 + 1) <=>
        t[n + 1] = PERCENT \/ (Inside(t, n + 1) /\ IsDigit(t[n + 1]))
  BY <1>1, InsideStep
<1>3. /\ Cardinality(Percents(t, n)) \in Nat
      /\ Cardinality(Percents(t, n + 1)) =
           Cardinality(Percents(t, n)) + IF t[n + 1] = PERCENT THEN 1 ELSE 0
  BY <1>1, PercentsStep
<1>4. Number(t)[n] \in Nat
  BY <1>1, NumberIs
<1>5. Number(t)[n + 1] =
        IF IsDigit(t[n + 1]) THEN 10 * Number(t)[n] + t[n + 1] - ZERO ELSE 0
  <2>1. Number(t)[n + 1] =
          IF n + 1 = 0 THEN 0
          ELSE IF IsDigit(t[n + 1]) THEN 10 * Number(t)[n + 1 - 1] + t[n + 1] - ZERO
          ELSE 0
    BY <1>1, NumberIs
  <2> QED
    BY <2>1, <1>1
<1> QED
  BY <1>1, <1>2, <1>3, <1>4, <1>5

LEMMA InitWalk == Init => WalkInv
<1> SUFFICES ASSUME Init PROVE Walked(Text, pc, i, argn, len)
  BY DEF Init, WalkInv
<1>1. TypeOK
  BY InitType DEF InvType
<1>2. Len(Text) \in Nat
  BY <1>1, TextFacts
<1>3. ~Inside(Text, 0 + 1) /\ Cardinality(Percents(Text, 0)) = 0
  BY InsideNone, PercentsNone
<1> QED
  BY <1>2, <1>3 DEF Init, Walked

(* A call and its format stay as they are.                                 *)
LEMMA SameText ==
  ASSUME UNCHANGED call
  PROVE  /\ Relocated' = Relocated /\ Text' = Text /\ Complete(Text)' = Complete(Text)
<1>1. Relocated' = Relocated
  BY DEF Relocated
<1>2. Text' = Text
  BY <1>1 DEF Text
<1>3. Complete(Text)' = Complete(Text)
  BY <1>1, <1>2 DEF Complete
<1> QED
  BY <1>1, <1>2, <1>3

LEMMA StepWalk == InvType /\ WalkInv /\ [Next]_vars => WalkInv'
<1> SUFFICES ASSUME InvType, WalkInv, [Next]_vars PROVE WalkInv'
  OBVIOUS
<1>0. TypeOK
  BY DEF InvType
<1>1. UNCHANGED call
  BY DEF Next, Walk, NullFormat, Entry, Fault, Percent, End, Literal, Digit, NoDigit, Decimal, Hex,
         Str, CharArg, Puts, Unknown, NoConversion, uart_puts, Converted, Transmit,
         Over, vars
<1>2. (pc # "entry" => format = Relocated)'
  <2>1. pc = "entry" => Relocated' = format' \/ UNCHANGED <<pc, format>>
    BY <1>1, SameText
       DEF Next, Walk, NullFormat, Entry, Fault, Percent, End, Literal, Digit, NoDigit, Decimal, Hex,
           Str, CharArg, Unknown, NoConversion, uart_puts, Converted, Transmit,
           Over, vars, At, Taking, Final
  <2>2. pc # "entry" => UNCHANGED format
    BY DEF Next, Walk, NullFormat, Entry, Fault, Percent, End, Literal, Digit, NoDigit, Decimal, Hex,
           Str, CharArg, Puts, Unknown, NoConversion, uart_puts, Converted, Transmit,
           Over, vars
  <2> QED
    BY <2>1, <2>2, <1>1, SameText DEF WalkInv
<1>3. SUFFICES ASSUME Complete(Text)
               PROVE  Walked(Text, pc', i', argn', len')
  BY <1>1, <1>2, SameText DEF WalkInv
<1>4. PICK t \in Seq(Chars) : t = Text /\ Len(t) \in Nat /\ Complete(t)
  BY <1>0, <1>3, TextFacts
<1>5. Walked(t, pc, i, argn, len)
  BY <1>3, <1>4 DEF WalkInv
<1>6. i \in 0 .. Len(t) /\ i \in Nat /\ pc \notin {"fault", "unknown"} /\ argn \in Nat
  BY <1>0, <1>5 DEF Walked, TypeOK
<1>7. pc # "entry" => /\ format + i \in DOMAIN Memory
                      /\ i < Len(t) => Char = t[i + 1] /\ Char # 0
                      /\ i = Len(t) => Char = 0
  <2> SUFFICES ASSUME pc # "entry"
               PROVE  /\ format + i \in DOMAIN Memory
                      /\ i < Len(t) => Char = t[i + 1] /\ Char # 0
                      /\ i = Len(t) => Char = 0
    OBVIOUS
  <2>1. format = Relocated
    BY DEF WalkInv
  <2>2. CASE i < Len(t)
    <3>1. i \in 0 .. Len(t) - 1
      BY <2>2, <1>4, <1>6
    <3> QED
      BY <2>1, <2>2, <3>1, <1>0, <1>4, TextFacts DEF Char
  <2>3. CASE i = Len(t)
    BY <2>1, <2>3, <1>0, <1>4, TextFacts DEF Char
  <2> QED
    BY <2>2, <2>3, <1>4, <1>6
<1>8. i < Len(t) =>
        /\ i + 1 \in 0 .. Len(t)
        /\ Inside(t, i + 1 + 1) <=>
             t[i + 1] = PERCENT \/ (Inside(t, i + 1) /\ IsDigit(t[i + 1]))
        /\ Cardinality(Percents(t, i)) \in Nat
        /\ Cardinality(Percents(t, i + 1)) =
             Cardinality(Percents(t, i)) + IF t[i + 1] = PERCENT THEN 1 ELSE 0
        /\ Number(t)[i] \in Nat
        /\ Number(t)[i + 1] =
             IF IsDigit(t[i + 1]) THEN 10 * Number(t)[i] + t[i + 1] - ZERO ELSE 0
  <2> HAVE i < Len(t)
  <2>1. i \in 0 .. Len(t) - 1
    BY <1>4, <1>6
  <2> QED
    BY <2>1, Onwards
<1>9. Inside(t, i + 1) =>
        /\ i < Len(t) /\ (IsDigit(t[i + 1]) \/ IsCode(t[i + 1]))
        /\ Cardinality(Percents(t, i)) \in 1 .. 3
  BY <1>4, <1>6, Continues
<1> HIDE DEF Char
<1>10. SUFFICES Walked(t, pc', i', argn', len')
  BY <1>4
<1>11. CASE Entry
  BY <1>5, <1>11 DEF Entry, Walked
<1>12. CASE Fault
  BY <1>7, <1>12 DEF Fault
<1>13. CASE Percent
  <2>1. i < Len(t) /\ t[i + 1] = PERCENT
    BY <1>4, <1>6, <1>7, <1>13, Codings DEF Percent, At
  <2>2. Number(t)[i + 1] = 0 /\ len = 0 /\ argn = Cardinality(Percents(t, i))
    BY <2>1, <1>0, <1>5, <1>8, <1>13, Codings DEF Percent, At, Walked, TypeOK
  <2> QED
    BY <2>1, <2>2, <1>8, <1>13 DEF Percent, Walked
<1>14. CASE End
  <2>1. i = Len(t)
    <3>1. CASE i < Len(t)
      <4>1. call.fn = "printk" /\ i >= call.fmt_size /\ call.fmt_size \in Nat
        BY <3>1, <1>0, <1>7, <1>14, CallsAssumption DEF End, AtEnd, At, TypeOK
      <4>2. Len(t) < call.fmt_size
        BY <4>1, <1>4 DEF Complete
      <4> QED
        BY <3>1, <4>1, <4>2, <1>4, <1>6
    <3> QED
      BY <3>1, <1>4, <1>6
  <2> QED
    BY <2>1, <1>6, <1>14 DEF End, Walked
<1>15. CASE Literal
  <2>1. i < Len(t) /\ t[i + 1] # PERCENT
    BY <1>4, <1>6, <1>7, <1>15 DEF Literal, At, AtEnd
  <2>2. ~Inside(t, i + 1) /\ argn = Cardinality(Percents(t, i))
    BY <1>5, <1>15 DEF Literal, At, Walked
  <2>3. i + 1 \in 0 .. Len(t) /\ ~Inside(t, i + 1 + 1) /\ argn = Cardinality(Percents(t, i + 1))
    BY <2>1, <2>2, <1>8
  <2> QED
    BY <2>3, <1>15 DEF Literal, At, Walked
<1>16. CASE Digit
  <2>1. /\ pc = "s1" /\ Inside(t, i + 1) /\ argn + 1 = Cardinality(Percents(t, i))
        /\ len = Number(t)[i]
    BY <1>5, <1>16 DEF Digit, At, Walked
  <2>2. i < Len(t) /\ IsDigit(t[i + 1]) /\ Char = t[i + 1] /\ t[i + 1] # PERCENT
    BY <2>1, <1>7, <1>9, <1>16, Codings DEF Digit
  <2>3. /\ i + 1 \in 0 .. Len(t) /\ Inside(t, i + 1 + 1)
        /\ argn + 1 = Cardinality(Percents(t, i + 1))
    BY <2>1, <2>2, <1>8
  <2>4. len' = Number(t)[i + 1]
    BY <2>1, <2>2, <1>8, <1>16 DEF Digit
  <2> QED
    BY <2>1, <2>3, <2>4, <1>16 DEF Digit, Walked
<1>17. CASE NoDigit
  <2>1. /\ pc = "s1" /\ Inside(t, i + 1)
        /\ IsCode(t[i + 1])
    BY <1>5, <1>7, <1>9, <1>17 DEF NoDigit, At, Walked
  <2> QED
    BY <2>1, <1>5, <1>17 DEF NoDigit, Walked
<1>18. CASE Decimal \/ Hex \/ Str \/ CharArg
  <2>1. /\ pc = "s2" /\ argn' = argn + 1 /\ UNCHANGED i
        /\ pc' \in {"puts", "overrun"}
    BY <1>18 DEF Decimal, Hex, Str, CharArg, Taking, At, Puts
  <2> QED
    BY <2>1, <1>5 DEF Walked
<1>19. CASE Unknown
  <2>1. pc = "s2" /\ argn >= 3
    BY <1>19 DEF Unknown, At
  <2>2. argn + 1 \in 1 .. 3
    BY <2>1, <1>5, <1>9 DEF Walked
  <2> QED
    BY <2>1, <2>2, <1>6
<1>20. CASE NoConversion
  <2>1. pc = "s2" /\ ~IsCode(Char)
    BY <1>20 DEF NoConversion, At
  <2>2. Inside(t, i + 1) /\ IsCode(t[i + 1])
    BY <2>1, <1>5 DEF Walked
  <2> QED
    BY <2>1, <2>2, <1>7, <1>9
<1>21. CASE uart_puts
  BY <1>5, <1>21 DEF uart_puts, Walked
<1>22. CASE Converted
  <2>1. Inside(t, i + 1) /\ IsCode(t[i + 1]) /\ argn = Cardinality(Percents(t, i))
    BY <1>5, <1>22 DEF Converted, Walked
  <2>2. i < Len(t) /\ ~IsDigit(t[i + 1]) /\ t[i + 1] # PERCENT
    BY <2>1, <1>9, Codings
  <2>3. i + 1 \in 0 .. Len(t) /\ ~Inside(t, i + 1 + 1) /\ argn = Cardinality(Percents(t, i + 1))
    BY <2>1, <2>2, <1>8
  <2> QED
    BY <2>3, <1>22 DEF Converted, Walked
<1>23. CASE Transmit
  BY <1>5, <1>23 DEF Transmit, Walked
<1>24. CASE UNCHANGED vars
  BY <1>5, <1>24 DEF vars, Walked
<1>25. CASE NullFormat
  BY <1>5, <1>25 DEF NullFormat, Walked
<1> QED
  BY <1>11, <1>12, <1>13, <1>14, <1>15, <1>16, <1>17, <1>18, <1>19, <1>20, <1>21, <1>22,
     <1>23, <1>24, <1>25 DEF Next, Walk, Over

(* A complete format is not read beyond its NUL, and takes no argument     *)
(* that was not passed.                                                    *)
THEOREM Bounded == Spec => []StaysInFormat
<1>1. InvType /\ WalkInv => StaysInFormat
  <2> SUFFICES ASSUME InvType, WalkInv, Complete(Text)
               PROVE  ~(i > Len(Text) \/ pc \in {"fault", "unknown"})
    BY DEF StaysInFormat
  <2>1. Walked(Text, pc, i, argn, len) /\ TypeOK
    BY DEF WalkInv, InvType
  <2>2. i \in 0 .. Len(Text) /\ Len(Text) \in Nat
    BY <2>1, TextFacts DEF Walked
  <2> QED
    BY <2>1, <2>2 DEF Walked
<1> QED
  BY <1>1, InitType, StepType, InitWalk, StepWalk, PTL DEF Spec

-----------------------------------------------------------------------------
(* What has gone out so far is what the format says up to where the walk   *)
(* is; in uart_puts, with what is still to send.                           *)
Before == IF call.thr = Empty THEN <<>> ELSE <<call.thr>>
Said(t, n) == FlattenSeq([k \in 1 .. n |-> Piece(t, k)])
OutInv ==
  Printable(Text) =>
    /\ pc # "overrun"
    /\ IF pc = "puts" THEN Sent \o buffer = Before \o Said(Text, i + 1)
       ELSE Sent = Before \o Said(Text, i)

LEMMA SentType ==
  ASSUME TypeOK
  PROVE  Sent \in Seq(Chars) /\ Before \in Seq(Chars)
<1>1. call.thr \in Chars \cup {Empty}
  BY CallsAssumption DEF TypeOK
<1>2. thr = Empty \/ Append(wire, thr) \in Seq(Chars)
  BY DEF TypeOK
<1> QED
  BY <1>1, <1>2 DEF TypeOK, Sent, Before

(* What a conversion shows.                                                *)
LEMMA ShownType ==
  ASSUME NEW c, IsCode(c), NEW w \in Nat, NEW v \in Nat
  PROVE  Shown(c, w, v) \in Seq(Chars)
<1>0. /\ Low(v) \in Nat /\ Low(v) < IntMod
      /\ IntMod \in Nat
  BY WidthAssumption DEF Low
<1>1. CASE c = Codes.d
  <2>1. Shown(c, w, v) = IF Low(v) < IntMod \div 2 THEN Dec[Low(v)]
                         ELSE <<MINUS>> \o Dec[IntMod - Low(v)]
    BY <1>1 DEF Shown, Codes
  <2>2. IntMod - Low(v) \in Nat
    BY <1>0
  <2>3. PICK a \in Seq(Chars), b \in Seq(Chars) : a = Dec[Low(v)] /\ b = Dec[IntMod - Low(v)]
    BY <1>0, <2>2, Decimals
  <2>4. MINUS \in Chars
    BY DEF MINUS, Chars
  <2>5. <<MINUS>> \o b \in Seq(Chars)
    BY <2>4
  <2> QED
    BY <2>1, <2>3, <2>5
<1>2. CASE c = Codes.x
  <2>1. Shown(c, w, v) = Padded(HexOf[Low(v)], w)
    BY <1>2 DEF Shown, Codes
  <2> QED
    BY <2>1, <1>0, Hexadecimals, PaddedType
<1>3. CASE c = Codes.s
  <2>1. Shown(c, w, v) = StringAt(v)
    BY <1>3 DEF Shown, Codes
  <2> QED
    BY <2>1, StringType
<1>4. CASE c = Codes.c
  <2>1. Shown(c, w, v) = <<v % 256>>
    BY <1>4 DEF Shown, Codes
  <2>2. v % 256 \in Chars
    BY DEF Chars
  <2> QED
    BY <2>1, <2>2
<1> QED
  BY <1>1, <1>2, <1>3, <1>4, Codings

LEMMA PieceType ==
  ASSUME TypeOK, NEW t \in Seq(Chars), Complete(t), NEW k \in 1 .. Len(t)
  PROVE  /\ Piece(t, k) \in Seq(Chars)
         /\ t[k] = PERCENT => Piece(t, k) = <<>>
         /\ Inside(t, k) /\ IsDigit(t[k]) => Piece(t, k) = <<>>
         /\ ~Inside(t, k) /\ t[k] # PERCENT => Piece(t, k) = <<t[k]>>
         /\ Inside(t, k) /\ IsCode(t[k]) =>
              Piece(t, k) = Shown(t[k], Number(t)[k - 1],
                                  call.args[Cardinality(Percents(t, k - 1))])
<1>1. k - 1 \in 0 .. Len(t) - 1 /\ k - 1 \in 0 .. Len(t) /\ k - 1 + 1 = k /\ k \in Nat
      /\ t[k] \in Chars
  OBVIOUS
<1>2. t[k] = PERCENT => Piece(t, k) = <<>>
  BY DEF Piece
<1>3. Inside(t, k) /\ IsDigit(t[k]) => Piece(t, k) = <<>>
  BY DEF Piece
<1>4. ~Inside(t, k) /\ t[k] # PERCENT => Piece(t, k) = <<t[k]>>
  BY DEF Piece
<1>5. Inside(t, k) /\ t[k] # PERCENT /\ ~IsDigit(t[k]) => IsCode(t[k])
  BY <1>1, Continues
<1>6. ASSUME Inside(t, k), IsCode(t[k])
      PROVE  Piece(t, k) = Shown(t[k], Number(t)[k - 1],
                                 call.args[Cardinality(Percents(t, k - 1))])
  <2>1. ~IsDigit(t[k]) /\ t[k] # PERCENT
    BY <1>6, Codings
  <2>2. Cardinality(Percents(t, k)) = Cardinality(Percents(t, k - 1))
    <3>1. Percents(t, k) = Percents(t, k - 1)
      BY <2>1, <1>1 DEF Percents
    <3> QED
      BY <3>1
  <2> QED
    BY <1>6, <2>1, <2>2 DEF Piece
<1>7. ASSUME Inside(t, k), IsCode(t[k])
      PROVE  Piece(t, k) \in Seq(Chars)
  <2>1. Number(t)[k - 1] \in Nat
    BY <1>1, NumberIs
  <2>2. Cardinality(Percents(t, k - 1)) \in 1 .. 3
    BY <1>1, <1>7, Continues
  <2>3. call.args \in [1 .. 3 -> Nat]
    BY CallsAssumption DEF TypeOK
  <2>4. call.args[Cardinality(Percents(t, k - 1))] \in Nat
    BY <2>2, <2>3
  <2> QED
    BY <1>6, <1>7, <2>1, <2>4, ShownType
<1>8. Piece(t, k) \in Seq(Chars)
  <2>1. <<>> \in Seq(Chars) /\ <<t[k]>> \in Seq(Chars)
    BY <1>1
  <2> QED
    BY <2>1, <1>2, <1>3, <1>4, <1>5, <1>7
<1> QED
  BY <1>2, <1>3, <1>4, <1>6, <1>8

LEMMA SaidStep ==
  ASSUME TypeOK, NEW t \in Seq(Chars), Complete(t), NEW n \in 0 .. Len(t) - 1
  PROVE  /\ Said(t, n) \in Seq(Chars) /\ Piece(t, n + 1) \in Seq(Chars)
         /\ Said(t, n + 1) = Said(t, n) \o Piece(t, n + 1)
<1> DEFINE f == [k \in 1 .. n |-> Piece(t, k)]
           g == [k \in 1 .. n + 1 |-> Piece(t, k)]
<1>0. Len(t) \in Nat /\ n \in Nat /\ n + 1 \in Nat /\ n + 1 \in 1 .. Len(t)
  OBVIOUS
<1>1. \A k \in 1 .. n + 1 : Piece(t, k) \in Seq(Chars)
  <2> TAKE k \in 1 .. n + 1
  <2>1. k \in 1 .. Len(t)
    BY <1>0
  <2> QED
    BY <2>1, PieceType
<1>2. f \in Seq(Seq(Chars)) /\ Len(f) = n /\ \A k \in 1 .. n : f[k] = Piece(t, k)
  <2>1. \A k \in 1 .. n : Piece(t, k) \in Seq(Chars)
    BY <1>0, <1>1
  <2> QED
    BY <1>0, <2>1
<1>3. g \in Seq(Seq(Chars)) /\ Len(g) = n + 1 /\ \A k \in 1 .. n + 1 : g[k] = Piece(t, k)
  BY <1>0, <1>1
<1>4. Piece(t, n + 1) \in Seq(Chars)
  BY <1>0, <1>1
<1> HIDE DEF f, g
<1>5. g = Append(f, Piece(t, n + 1))
  <2>0. PICK x \in Seq(Chars) : x = Piece(t, n + 1)
    BY <1>4
  <2>a. Append(f, x) \in Seq(Seq(Chars))
    BY <1>2
  <2>1. PICK h \in Seq(Seq(Chars)) : h = Append(f, x)
    BY <2>a
  <2>2. Len(h) = n + 1 /\ h[n + 1] = x /\ \A k \in 1 .. n : h[k] = f[k]
    BY <1>0, <1>2, <2>1
  <2>3. ASSUME NEW k \in 1 .. n + 1 PROVE h[k] = g[k]
    <3>1. CASE k = n + 1
      BY <1>3, <2>0, <2>2, <3>1
    <3>2. CASE k # n + 1
      <4>1. k \in 1 .. n
        BY <1>0, <3>2
      <4> QED
        BY <4>1, <1>2, <1>3, <2>2
    <3> QED
      BY <3>1, <3>2
  <2>4. g = h
    BY <1>3, <2>2, <2>3, SeqEqual
  <2> QED
    BY <2>0, <2>1, <2>4
<1>6. FlattenSeq(f) \in Seq(Chars) /\ FlattenSeq(g) = FlattenSeq(f) \o Piece(t, n + 1)
  BY <1>2, <1>4, <1>5, FlattenAppend
<1> QED
  BY <1>4, <1>6 DEF Said, f, g

LEMMA SaidNothing == \A t : Said(t, 0) = <<>>
<1> TAKE t
<1> DEFINE f == [k \in 1 .. 0 |-> Piece(t, k)]
<1>1. f \in Seq(Seq(Chars)) /\ Len(f) = 0
  OBVIOUS
<1> HIDE DEF f
<1>2. FlattenSeq(f) = <<>>
  BY <1>1, FlattenIs
<1> QED
  BY <1>2 DEF Said, f

(* An int and a uint32_t are written as they are shown; only the least int *)
(* is not.                                                                 *)
LEMMA IntShown ==
  ASSUME TypeOK, argn < 3, Low(Arg) # IntMod \div 2, NEW w
  PROVE  Itoa(IntArg) = Shown(Codes.d, w, Arg)
<1>1. PICK h \in Nat : /\ IntMod = 2 * h /\ IntMod \div 2 = h /\ h >= 1
                       /\ Len(Dec[h]) + 1 < BufSize
  BY Half
<1>2. PICK u \in Nat : u = Low(Arg) /\ u = UintArg /\ u < 2 * h /\ u # h
  BY <1>1, ArgType
<1>3. PICK n \in Int : n = IntArg /\ n = IF u < h THEN u ELSE u - 2 * h
  BY <1>1, <1>2 DEF IntArg
<1>4. -h <= n /\ n < h /\ n # -h
  BY <1>2, <1>3
<1>5. (n >= 0 => Itoa(n) = Dec[n]) /\ (n < 0 => Itoa(n) = <<MINUS>> \o Dec[-n])
  BY <1>1, <1>4, ItoaIs
<1>6. Shown(Codes.d, w, Arg) = IF u < h THEN Dec[u] ELSE <<MINUS>> \o Dec[2 * h - u]
  BY <1>1, <1>2 DEF Shown, Codes
<1>7. CASE u < h
  BY <1>3, <1>5, <1>6, <1>7
<1>8. CASE ~(u < h)
  <2>1. n < 0 /\ -n = 2 * h - u
    BY <1>2, <1>3, <1>8
  <2> QED
    BY <1>3, <1>5, <1>6, <1>8, <2>1
<1> QED
  BY <1>7, <1>8

(* A conversion writes what the format says.                               *)
LEMMA Converts ==
  ASSUME TypeOK, argn < 3, Low(Arg) # IntMod \div 2, len \in Nat, len < BufSize,
         Decimal \/ Hex \/ Str \/ CharArg
  PROVE  pc' = "puts" /\ buffer' = Shown(Char, len, Arg)
<1> HIDE DEF Char, Arg
<1>0. Arg \in Nat /\ UintArg = Low(Arg) /\ UintArg \in 0 .. IntMod - 1
  BY ArgType
<1>1. CASE Decimal
  <2>1. Char = Codes.d /\ Puts(Itoa(IntArg), BufSize)
    BY <1>1 DEF Decimal, Taking
  <2> QED
    BY <2>1, IntShown, DecimalRoom DEF Puts
<1>2. CASE Hex
  <2>1. Char = Codes.x /\ Puts(Hextoa(UintArg, len), BufSize)
    BY <1>2 DEF Hex, Taking
  <2>2. Len(Hextoa(UintArg, len)) < BufSize
    BY <1>0, HexRoom
  <2>3. Hextoa(UintArg, len) = Padded(HexOf[Low(Arg)], len)
    <3>1. UintArg \in Nat
      BY <1>0, WidthAssumption
    <3> QED
      BY <1>0, <3>1, HextoaIs
  <2>4. Shown(Char, len, Arg) = Padded(HexOf[Low(Arg)], len)
    BY <2>1 DEF Shown, Codes
  <2> QED
    BY <2>1, <2>2, <2>3, <2>4 DEF Puts
<1>3. CASE Str
  <2>1. Char = Codes.s /\ Puts(StringAt(Arg), Len(StringAt(Arg)) + 1)
    BY <1>3 DEF Str, Taking
  <2>2. PICK s \in Seq(Chars) : s = StringAt(Arg)
    BY <1>0, StringType
  <2>3. Len(s) < Len(s) + 1
    OBVIOUS
  <2>4. Shown(Char, len, Arg) = StringAt(Arg)
    BY <2>1 DEF Shown, Codes
  <2> QED
    BY <2>1, <2>2, <2>3, <2>4 DEF Puts
<1>4. CASE CharArg
  <2>1. Char = Codes.c /\ Puts(<<Arg % 256>>, 2)
    BY <1>4 DEF CharArg, Taking
  <2>2. PICK c \in Chars : c = Arg % 256
    BY <1>0, ArgType
  <2>3. Len(<<c>>) < 2
    OBVIOUS
  <2>4. Shown(Char, len, Arg) = <<Arg % 256>>
    BY <2>1 DEF Shown, Codes
  <2> QED
    BY <2>1, <2>2, <2>3, <2>4 DEF Puts
<1> QED
  BY <1>1, <1>2, <1>3, <1>4

(* A character that is written follows what was sent.                      *)
LEMMA Putc ==
  ASSUME TypeOK, NEW c \in Chars, uart_putc(c), UNCHANGED wire
  PROVE  Sent' = Append(Sent, c)
<1>1. c # Empty
  BY MemoryAssumption
<1>2. thr = Empty /\ thr' = c
  BY DEF uart_putc
<1> QED
  BY <1>1, <1>2 DEF Sent

LEMMA InitOut == Init => OutInv
<1> SUFFICES ASSUME Init PROVE OutInv
  OBVIOUS
<1>1. TypeOK
  BY InitType DEF InvType
<1>2. Said(Text, 0) = <<>>
  BY SaidNothing
<1>3. Sent = Before
  <2>1. \A c \in Chars : Append(<<>>, c) = <<c>>
    OBVIOUS
  <2>2. thr \in Chars \cup {Empty}
    BY <1>1 DEF TypeOK
  <2> QED
    BY <2>1, <2>2 DEF Init, Sent, Before
<1>4. Before \o <<>> = Before
  BY <1>1, SentType
<1> QED
  BY <1>2, <1>3, <1>4 DEF Init, OutInv

LEMMA SameMeaning ==
  ASSUME UNCHANGED call
  PROVE  /\ Text' = Text /\ Printable(Text)' = Printable(Text) /\ Before' = Before
         /\ \A n : Said(Text, n)' = Said(Text, n)
<1>1. Relocated' = Relocated /\ Text' = Text /\ Complete(Text)' = Complete(Text)
  BY SameText
<1>2. Printable(Text)' = Printable(Text)
  BY <1>1 DEF Printable
<1>3. \A n : Said(Text, n)' = Said(Text, n)
  BY <1>1 DEF Said, Piece
<1> QED
  BY <1>1, <1>2, <1>3 DEF Before

LEMMA StepOut == InvType /\ WalkInv /\ OutInv /\ [Next]_vars => OutInv'
<1> SUFFICES ASSUME InvType, WalkInv, OutInv, [Next]_vars PROVE OutInv'
  OBVIOUS
<1>0. TypeOK
  BY DEF InvType
<1>1. UNCHANGED call
  BY DEF Next, Walk, NullFormat, Entry, Fault, Percent, End, Literal, Digit, NoDigit, Decimal, Hex,
         Str, CharArg, Puts, Unknown, NoConversion, uart_puts, Converted, Transmit,
         Over, vars
<1>2. PICK t : t = Text
  OBVIOUS
<1> DEFINE Told(n) == Before \o Said(t, n)
           Goal == /\ pc' # "overrun"
                   /\ IF pc' = "puts" THEN Sent' \o buffer' = Told(i' + 1)
                      ELSE Sent' = Told(i')
<1>3. SUFFICES ASSUME Printable(t) PROVE Goal
  <2>1. \A n : Said(t, n)' = Said(t, n)
    BY <1>1, <1>2, SameMeaning
  <2> QED
    BY <2>1, <1>1, <1>2, SameMeaning DEF OutInv
<1>4. t \in Seq(Chars) /\ Len(t) \in Nat /\ Complete(t)
  BY <1>0, <1>2, <1>3, TextFacts DEF Printable
<1>5. Walked(t, pc, i, argn, len)
  BY <1>2, <1>4 DEF WalkInv
<1>6. i \in 0 .. Len(t) /\ pc \notin {"fault", "unknown"} /\ i \in Nat
  BY <1>0, <1>5 DEF Walked, TypeOK
<1>7. /\ pc # "overrun"
      /\ pc = "puts" => Sent \o buffer = Told(i + 1)
      /\ pc # "puts" => Sent = Told(i)
  BY <1>2, <1>3 DEF OutInv
<1>8. Sent \in Seq(Chars) /\ Before \in Seq(Chars) /\ buffer \in Seq(Chars)
  BY <1>0, SentType DEF TypeOK
<1>9. i < Len(t) => /\ Told(i + 1) = Told(i) \o Piece(t, i + 1)
                    /\ Told(i) \in Seq(Chars) /\ Piece(t, i + 1) \in Seq(Chars)
  <2> HAVE i < Len(t)
  <2>1. i \in 0 .. Len(t) - 1
    BY <1>4, <1>6
  <2>2. /\ Said(t, i) \in Seq(Chars) /\ Piece(t, i + 1) \in Seq(Chars)
        /\ Said(t, i + 1) = Said(t, i) \o Piece(t, i + 1)
    BY <2>1, <1>0, <1>4, SaidStep
  <2>3. PICK a \in Seq(Chars), b \in Seq(Chars), c \in Seq(Chars) :
          a = Before /\ b = Said(t, i) /\ c = Piece(t, i + 1)
    BY <2>2, <1>8
  <2>4. a \o (b \o c) = (a \o b) \o c /\ a \o b \in Seq(Chars)
    OBVIOUS
  <2> QED
    BY <2>2, <2>3, <2>4
<1>10. i < Len(t) /\ pc # "entry" => Char = t[i + 1]
  <2> HAVE i < Len(t) /\ pc # "entry"
  <2>1. i \in 0 .. Len(t) - 1 /\ format = Relocated
    BY <1>4, <1>6 DEF WalkInv
  <2> QED
    BY <2>1, <1>0, <1>2, TextFacts DEF Char
<1>11. pc # "entry" /\ i = Len(t) => Char = 0
  <2> HAVE pc # "entry" /\ i = Len(t)
  <2>1. format = Relocated
    BY DEF WalkInv
  <2> QED
    BY <2>1, <1>0, <1>2, <1>4, TextFacts DEF Char
<1>12. i < Len(t) =>
        /\ t[i + 1] = PERCENT => Piece(t, i + 1) = <<>>
        /\ Inside(t, i + 1) /\ IsDigit(t[i + 1]) => Piece(t, i + 1) = <<>>
        /\ ~Inside(t, i + 1) /\ t[i + 1] # PERCENT => Piece(t, i + 1) = <<t[i + 1]>>
        /\ Inside(t, i + 1) /\ IsCode(t[i + 1]) =>
             Piece(t, i + 1) = Shown(t[i + 1], Number(t)[i],
                                     call.args[Cardinality(Percents(t, i))])
        /\ Inside(t, i + 1) => Number(t)[i] < BufSize
        /\ t[i + 1] \in Chars
  <2> HAVE i < Len(t)
  <2>0. i + 1 \in 1 .. Len(t) /\ i + 1 - 1 = i
    BY <1>4, <1>6
  <2>1. PICK k \in 1 .. Len(t) : k = i + 1 /\ k - 1 = i
    BY <2>0, <1>6
  <2>2. Inside(t, k) => Number(t)[k - 1] < BufSize
    BY <1>3 DEF Printable
  <2>3. t[i + 1] \in Chars
    BY <2>1, <1>4
  <2>4. Inside(t, k) /\ IsCode(t[k]) =>
          Piece(t, k) = Shown(t[k], Number(t)[k - 1],
                              call.args[Cardinality(Percents(t, k - 1))])
    BY <1>0, <1>4, PieceType
  <2>5. /\ t[i + 1] = PERCENT => Piece(t, i + 1) = <<>>
        /\ Inside(t, i + 1) /\ IsDigit(t[i + 1]) => Piece(t, i + 1) = <<>>
        /\ ~Inside(t, i + 1) /\ t[i + 1] # PERCENT => Piece(t, i + 1) = <<t[i + 1]>>
    BY <2>1, <1>0, <1>4, PieceType
  <2> QED
    BY <2>1, <2>2, <2>3, <2>4, <2>5
<1>13. Inside(t, i + 1) => i < Len(t) /\ Cardinality(Percents(t, i)) \in 1 .. 3
  BY <1>4, <1>6, Continues
<1>14. i < Len(t) /\ Piece(t, i + 1) = <<>> => Told(i + 1) = Told(i)
  <2> HAVE i < Len(t) /\ Piece(t, i + 1) = <<>>
  <2>1. PICK a \in Seq(Chars) : a = Told(i) /\ Told(i + 1) = a \o <<>>
    BY <1>9
  <2> QED
    BY <2>1
<1>15. UNCHANGED <<thr, wire>> => Sent' = Sent
  BY DEF Sent
<1> HIDE DEF Char, Told
<1>16. ASSUME UNCHANGED <<thr, wire, i>>, pc # "puts", pc' \notin {"puts", "overrun"}
       PROVE  Goal
  BY <1>7, <1>15, <1>16
<1>17. CASE Entry
  BY <1>16, <1>17 DEF Entry
<1>18. CASE Fault
  BY <1>16, <1>18 DEF Fault
<1>19. CASE Percent
  <2>1. pc = "s0" /\ Char = PERCENT /\ i < Len(t)
    BY <1>4, <1>6, <1>11, <1>19, Codings DEF Percent, At
  <2>2. Told(i + 1) = Told(i)
    BY <2>1, <1>10, <1>12, <1>14
  <2> QED
    BY <2>1, <2>2, <1>7, <1>15, <1>19 DEF Percent
<1>20. CASE End
  BY <1>16, <1>20 DEF End, At
<1>21. CASE Literal
  <2>1. pc = "s0" /\ pc' = "s0" /\ Char # PERCENT /\ i < Len(t) /\ i' = i + 1
    BY <1>4, <1>6, <1>11, <1>21 DEF Literal, At, AtEnd
  <2>2. ~Inside(t, i + 1)
    BY <2>1, <1>5 DEF Walked
  <2>3. PICK c \in Chars : c = Char /\ Piece(t, i + 1) = <<c>>
    BY <2>1, <2>2, <1>10, <1>12
  <2>4. Sent' = Append(Sent, c)
    BY <2>3, <1>0, <1>21, Putc DEF Literal
  <2>5. Append(Sent, c) = Sent \o <<c>>
    BY <1>8
  <2> QED
    BY <2>1, <2>3, <2>4, <2>5, <1>7, <1>9
<1>22. CASE Digit
  <2>1. pc = "s1" /\ pc' = "s1" /\ IsDigit(Char) /\ Inside(t, i + 1) /\ i' = i + 1
    BY <1>5, <1>22 DEF Digit, At, Walked
  <2>2. Told(i + 1) = Told(i)
    BY <2>1, <1>10, <1>12, <1>13, <1>14
  <2> QED
    BY <2>1, <2>2, <1>7, <1>15, <1>22 DEF Digit
<1>23. CASE NoDigit
  BY <1>16, <1>23 DEF NoDigit, At
<1>24. CASE Decimal \/ Hex \/ Str \/ CharArg
  <2>1. pc = "s2" /\ argn < 3 /\ UNCHANGED <<i, thr, wire>>
    BY <1>24 DEF Decimal, Hex, Str, CharArg, Taking, At, Puts
  <2>2. /\ Inside(t, i + 1) /\ IsCode(t[i + 1]) /\ argn + 1 = Cardinality(Percents(t, i))
        /\ len = Number(t)[i] /\ i < Len(t)
    BY <2>1, <1>5, <1>13 DEF Walked
  <2>3. Piece(t, i + 1) = Shown(Char, len, Arg)
    BY <2>1, <2>2, <1>10, <1>12 DEF Arg
  <2>4. Low(Arg) # IntMod \div 2
    <3>1. argn + 1 \in 1 .. 3
      BY <2>2, <1>13
    <3> QED
      BY <3>1, <1>3 DEF Printable, Arg
  <2>5. len \in Nat /\ len < BufSize
    BY <2>1, <2>2, <1>0, <1>12 DEF TypeOK
  <2>6. pc' = "puts" /\ buffer' = Piece(t, i + 1)
    BY <2>1, <2>3, <2>4, <2>5, <1>0, <1>24, Converts
  <2>7. Sent' = Told(i) /\ Told(i' + 1) = Told(i) \o Piece(t, i + 1)
    BY <2>1, <2>2, <1>7, <1>9, <1>15
  <2> QED
    BY <2>6, <2>7
<1>25. CASE Unknown
  BY <1>16, <1>25 DEF Unknown, At
<1>26. CASE NoConversion
  <2>1. pc = "s2" /\ ~IsCode(Char)
    BY <1>26 DEF NoConversion, At
  <2>2. Inside(t, i + 1) /\ IsCode(t[i + 1])
    BY <2>1, <1>5 DEF Walked
  <2> QED
    BY <2>1, <2>2, <1>10, <1>13
<1>27. CASE uart_puts
  <2>1. pc = "puts" /\ pc' = "puts" /\ UNCHANGED i /\ buffer # <<>>
    BY <1>27 DEF uart_puts
  <2>2. PICK b \in Seq(Chars) : b = buffer /\ b # <<>>
    BY <2>1, <1>8
  <2>a. Head(b) \in Chars /\ Tail(b) \in Seq(Chars)
    BY <2>2
  <2>3. PICK c \in Chars, s \in Seq(Chars), r \in Seq(Chars) :
          c = Head(b) /\ s = Tail(b) /\ r = Sent
    BY <2>a, <1>8
  <2>4. Sent' = Append(r, c) /\ buffer' = s
    BY <2>2, <2>3, <1>0, <1>27, Putc DEF uart_puts
  <2>5. Append(r, c) \o s = r \o b
    <3>1. b = <<c>> \o s
      BY <2>2, <2>3
    <3>2. Append(r, c) = r \o <<c>> /\ (r \o <<c>>) \o s = r \o (<<c>> \o s)
      OBVIOUS
    <3> QED
      BY <3>1, <3>2
  <2> QED
    BY <2>1, <2>2, <2>3, <2>4, <2>5, <1>7
<1>28. CASE Converted
  <2>1. pc = "puts" /\ pc' = "s0" /\ i' = i + 1 /\ buffer = <<>> /\ Sent' = Sent
    BY <1>15, <1>28 DEF Converted
  <2>2. Sent \o <<>> = Sent
    BY <1>8
  <2> QED
    BY <2>1, <2>2, <1>7
<1>29. CASE Transmit
  <2>1. UNCHANGED <<pc, i, buffer>> /\ thr # Empty /\ wire' = Append(wire, thr) /\ thr' = Empty
    BY <1>29 DEF Transmit
  <2>2. Sent' = Sent
    BY <2>1 DEF Sent
  <2> QED
    BY <2>1, <2>2, <1>7
<1>30. CASE UNCHANGED vars
  BY <1>7, <1>15, <1>30 DEF vars
<1>31. CASE NullFormat
  BY <1>16, <1>31 DEF NullFormat
<1> QED
  BY <1>17, <1>18, <1>19, <1>20, <1>21, <1>22, <1>23, <1>24, <1>25, <1>26, <1>27, <1>28,
     <1>29, <1>30, <1>31 DEF Next, Walk, Over

(* What goes out is what the format says, each character once and in       *)
(* order, after what the call before left in the register.                 *)
THEOREM Printing == Spec => []PrintsFormat
<1>1. InvType /\ WalkInv /\ OutInv => PrintsFormat
  <2> SUFFICES ASSUME InvType, WalkInv, OutInv, pc = "end", Printable(Text)
               PROVE  Sent = Before \o Meaning(Text)
    BY DEF PrintsFormat, Before
  <2>1. i = Len(Text)
    BY DEF WalkInv, Walked, Printable
  <2>2. Sent = Before \o Said(Text, i)
    BY DEF OutInv
  <2> QED
    BY <2>1, <2>2 DEF Said, Meaning
<1> QED
  BY <1>1, InitType, StepType, InitWalk, StepWalk, InitOut, StepOut, PTL DEF Spec
=============================================================================
