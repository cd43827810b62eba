------------------------------ MODULE Induction ------------------------------
(***************************************************************************)
(* Induction in the forms that the provers can use: over a set of numbers  *)
(* instead of an operator, and as the existence of a recursive function.   *)
(* They rest on the well-foundedness of < on Nat.  From them: sums over a  *)
(* set, powers of two, division and binary digits.                         *)
(***************************************************************************)
EXTENDS Powers, SequencesExt, SequenceTheorems, FiniteSetTheorems,
        WellFoundedInduction, TLAPS

LEMMA LeastNumber ==
  ASSUME NEW T, T \subseteq Nat, T # {}
  PROVE  \E x \in T : \A y \in T : x <= y
<1> DEFINE R == OpToRel(<, Nat)
<1>1. PICK x \in T : \A y \in T : ~(<<y, x>> \in R)
  BY NatLessThanWellFounded, WFMin
<1>2. \A y \in T : ~(y < x)
  BY <1>1 DEF OpToRel
<1> QED
  BY <1>2

LEMMA StrongInduction ==
  ASSUME NEW S, \A n \in Nat : (\A m \in 0 .. n - 1 : m \in S) => n \in S
  PROVE  \A n \in Nat : n \in S
<1> DEFINE T == Nat \ S
<1> SUFFICES ASSUME T # {} PROVE FALSE
  OBVIOUS
<1>1. PICK x \in T : \A y \in T : x <= y
  BY LeastNumber
<1>2. \A m \in 0 .. x - 1 : m \in S
  BY <1>1
<1> QED
  BY <1>1, <1>2

LEMMA SimpleInduction ==
  ASSUME NEW S, 0 \in S, \A n \in Nat : n \in S => n + 1 \in S
  PROVE  \A n \in Nat : n \in S
<1>1. ASSUME NEW n \in Nat, \A m \in 0 .. n - 1 : m \in S PROVE n \in S
  <2>1. CASE n = 0
    BY <2>1
  <2>2. CASE n # 0
    <3>1. n - 1 \in Nat /\ n - 1 \in S
      BY <1>1, <2>2
    <3> QED
      BY <3>1
  <2> QED
    BY <2>1, <2>2
<1> QED
  BY <1>1, StrongInduction

(* A function whose values are made from the ones below: b[n] where the    *)
(* recursion stops, and from the value at p[n] elsewhere.                  *)
Descends(A, stop, b, p, G) ==
  /\ stop \subseteq Nat /\ b \in [Nat -> A] /\ p \in [Nat -> Nat]
  /\ \A n \in Nat : n \notin stop => p[n] < n
  /\ G \in [Nat \X A -> A]

LEMMA RecursionExists ==
  ASSUME NEW A, NEW stop, NEW b, NEW p, NEW G, Descends(A, stop, b, p, G)
  PROVE  \E f \in [Nat -> A] :
           \A n \in Nat : f[n] = IF n \in stop THEN b[n] ELSE G[<<n, f[p[n]]>>]
<1> stop \subseteq Nat /\ b \in [Nat -> A] /\ p \in [Nat -> Nat]
  BY DEF Descends
<1> (\A n \in Nat : n \notin stop => p[n] < n) /\ G \in [Nat \X A -> A]
  BY DEF Descends
<1> DEFINE Rec(g, n) == IF n \in stop THEN b[n] ELSE G[<<n, g[p[n]]>>]
           Approx(g, n) == /\ g \in [0 .. n -> A]
                           /\ \A m \in 0 .. n : g[m] = Rec(g, m)
<1>1. ASSUME NEW n \in Nat, NEW m \in Nat, NEW g, NEW h,
             Approx(g, n), Approx(h, m)
      PROVE  \A x \in Nat : x <= n /\ x <= m => g[x] = h[x]
  <2> DEFINE S == {x \in Nat : x <= n /\ x <= m => g[x] = h[x]}
  <2>1. ASSUME NEW x \in Nat, \A y \in 0 .. x - 1 : y \in S PROVE x \in S
    <3> SUFFICES ASSUME x <= n, x <= m PROVE g[x] = h[x]
      OBVIOUS
    <3>1. g[x] = Rec(g, x) /\ h[x] = Rec(h, x)
      <4> x \in 0 .. n /\ x \in 0 .. m
        OBVIOUS
      <4> HIDE DEF Rec
      <4> QED
        BY <1>1
    <3>2. CASE x \in stop
      BY <3>1, <3>2
    <3>3. CASE x \notin stop
      <4>1. p[x] \in 0 .. x - 1
        BY <3>3
      <4>2. g[p[x]] = h[p[x]]
        BY <4>1, <2>1
      <4> QED
        BY <3>1, <3>3, <4>2
    <3> QED
      BY <3>2, <3>3
  <2> HIDE DEF S
  <2>2. \A x \in Nat : x \in S
    BY <2>1, StrongInduction
  <2> QED
    BY <2>2 DEF S
<1>2. \A n \in Nat : \E g : Approx(g, n)
  <2> DEFINE S == {n \in Nat : \E g : Approx(g, n)}
  <2>1. ASSUME NEW n \in Nat, \A m \in 0 .. n - 1 : m \in S
        PROVE  \E g : Approx(g, n)
    <3>1. CASE n = 0
      <4> DEFINE g == [m \in 0 .. 0 |-> b[0]]
      <4>1. 0 \in stop
        OBVIOUS
      <4>2. g \in [0 .. 0 -> A]
        OBVIOUS
      <4>3. \A m \in 0 .. 0 : g[m] = Rec(g, m)
        BY <4>1
      <4>4. Approx(g, 0)
        BY <4>2, <4>3
      <4> QED
        BY <3>1, <4>4
    <3>2. CASE n # 0
      <4>1. n - 1 \in Nat /\ n - 1 \in 0 .. n - 1
        BY <3>2
      <4>2. n - 1 \in S
        <5> HIDE DEF S
        <5> QED
          BY <2>1, <4>1
      <4>3. PICK g : Approx(g, n - 1)
        BY <4>2
      <4>4. g \in [0 .. n - 1 -> A]
        BY <4>3
      <4> DEFINE h == [m \in 0 .. n |-> IF m = n THEN Rec(g, n) ELSE g[m]]
      <4>5. ASSUME NEW m \in 0 .. n
            PROVE  /\ Rec(g, m) \in A
                   /\ h[m] = Rec(g, m)
                   /\ Rec(h, m) = Rec(g, m)
        <5>1. m \in Nat
          OBVIOUS
        <5>2. h[m] = Rec(g, m)
          <6>1. CASE m = n
            BY <6>1
          <6>2. CASE m # n
            <7>1. m \in 0 .. n - 1 /\ h[m] = g[m]
              BY <6>2
            <7> QED
              BY <7>1, <4>3
          <6> QED
            BY <6>1, <6>2
        <5>3. CASE m \in stop
          BY <5>1, <5>2, <5>3
        <5>4. CASE m \notin stop
          <6>1. p[m] \in 0 .. n - 1 /\ p[m] # n /\ p[m] \in 0 .. n
            BY <5>1, <5>4
          <6>2. h[p[m]] = g[p[m]] /\ g[p[m]] \in A
            BY <6>1, <4>4
          <6>3. G[<<m, g[p[m]]>>] \in A
            BY <5>1, <6>2
          <6> QED
            BY <5>2, <5>4, <6>2, <6>3
        <5> QED
          BY <5>3, <5>4
      <4> HIDE DEF Rec
      <4>6. h \in [0 .. n -> A]
        <5>1. \A m \in 0 .. n : h[m] \in A
          BY <4>5
        <5> QED
          BY <5>1
      <4>7. \A m \in 0 .. n : h[m] = Rec(h, m)
        BY <4>5
      <4>8. Approx(h, n)
        BY <4>6, <4>7
      <4> QED
        BY <4>8
    <3> QED
      BY <3>1, <3>2
  <2>2. \A n \in Nat : n \in S
    <3> HIDE DEF Approx
    <3>1. \A n \in Nat : (\A m \in 0 .. n - 1 : m \in S) => n \in S
      BY <2>1
    <3> HIDE DEF S
    <3> QED
      BY <3>1, StrongInduction
  <2> QED
    BY <2>2
<1> DEFINE a == [n \in Nat |-> CHOOSE g : Approx(g, n)]
           f == [n \in Nat |-> a[n][n]]
<1>3. ASSUME NEW n \in Nat
      PROVE  /\ a[n] \in [0 .. n -> A]
             /\ \A m \in 0 .. n : a[n][m] = Rec(a[n], m)
  <2>1. Approx(a[n], n)
    <3> HIDE DEF Approx
    <3> QED
      BY <1>2
  <2> HIDE DEF a
  <2> QED
    BY <2>1
<1> HIDE DEF a
<1>4. f \in [Nat -> A]
  <2>1. ASSUME NEW n \in Nat PROVE a[n][n] \in A
    BY <1>3
  <2> QED
    BY <2>1
<1>5. ASSUME NEW n \in Nat PROVE f[n] = Rec(f, n)
  <2>1. f[n] = Rec(a[n], n)
    <3> n \in 0 .. n
      OBVIOUS
    <3> HIDE DEF Rec
    <3> QED
      BY <1>3
  <2>2. CASE n \in stop
    BY <2>1, <2>2
  <2>3. CASE n \notin stop
    <3>1. p[n] \in Nat /\ p[n] < n
      BY <2>3
    <3>2. Approx(a[n], n) /\ Approx(a[p[n]], p[n])
      BY <3>1, <1>3
    <3>3. a[n][p[n]] = a[p[n]][p[n]]
      <4> HIDE DEF Approx
      <4> QED
        BY <3>1, <3>2, <1>1
    <3> QED
      BY <2>1, <2>3, <3>1, <3>3
  <2> QED
    BY <2>2, <2>3
<1> QED
  BY <1>4, <1>5

-----------------------------------------------------------------------------
(* FlattenSeq: f[n] is what the first n of the sequences come to.          *)
Flattens(f, s) ==
  f = [i \in 1 .. Len(s) |-> IF i = 1 THEN s[i] ELSE f[i - 1] \o s[i]]

LEMMA FlattensExists ==
  ASSUME NEW S, NEW s \in Seq(Seq(S))
  PROVE  \E f : Flattens(f, s)
<1> DEFINE L == Len(s)
           A == Seq(S)
           stop == {0, 1}
           b == [n \in Nat |-> IF n = 1 /\ L >= 1 THEN s[1] ELSE <<>>]
           p == [n \in Nat |-> IF n = 0 THEN 0 ELSE n - 1]
           G == [q \in Nat \X A |-> IF q[1] \in 1 .. L THEN q[2] \o s[q[1]] ELSE q[2]]
<1>1. L \in Nat /\ \A i \in 1 .. L : s[i] \in A
  OBVIOUS
<1>2. b \in [Nat -> A]
  BY <1>1
<1>3. p \in [Nat -> Nat] /\ \A n \in Nat : n \notin stop => p[n] < n
  OBVIOUS
<1>4. G \in [Nat \X A -> A]
  <2>1. ASSUME NEW n \in Nat, NEW a \in A
        PROVE  (IF n \in 1 .. L THEN a \o s[n] ELSE a) \in A
    BY <1>1
  <2> HIDE DEF A, L
  <2> QED
    BY <2>1
<1>5. Descends(A, stop, b, p, G)
  <2>1. stop \subseteq Nat
    OBVIOUS
  <2> HIDE DEF A, L, stop, b, p, G
  <2> QED
    BY <2>1, <1>2, <1>3, <1>4 DEF Descends
<1>6. PICK g \in [Nat -> A] :
        \A n \in Nat : g[n] = IF n \in stop THEN b[n] ELSE G[<<n, g[p[n]]>>]
  <2> HIDE DEF A, L, stop, b, p, G
  <2> QED
    BY <1>5, RecursionExists
<1> DEFINE f == [i \in 1 .. L |-> g[i]]
<1>7. ASSUME NEW i \in 1 .. L
      PROVE  f[i] = IF i = 1 THEN s[i] ELSE f[i - 1] \o s[i]
  <2>1. f[i] = g[i] /\ i \in Nat
    OBVIOUS
  <2>2. CASE i = 1
    <3>1. i \in stop /\ b[i] = s[i]
      BY <2>1, <2>2, <1>1
    <3>2. g[i] = b[i]
      <4> HIDE DEF G, A, stop, p, b
      <4> QED
        BY <1>6, <2>1, <3>1
    <3> QED
      BY <2>1, <2>2, <3>1, <3>2
  <2>3. CASE i # 1
    <3>0. i - 1 \in 1 .. L /\ i - 1 \in Nat /\ i # 0
      BY <2>1, <2>3, <1>1
    <3>1. i \notin stop /\ p[i] = i - 1 /\ i - 1 \in 1 .. L /\ i - 1 \in Nat
      BY <2>1, <2>3, <3>0
    <3>2. f[i - 1] = g[i - 1] /\ g[i - 1] \in A
      BY <3>1, <1>6
    <3>3. G[<<i, g[i - 1]>>] = g[i - 1] \o s[i]
      BY <3>2, <2>1
    <3>4. g[i] = G[<<i, g[p[i]]>>]
      <4> HIDE DEF G, A, stop, p, b
      <4> QED
        BY <1>6, <2>1, <3>1
    <3> QED
      BY <2>1, <2>3, <3>1, <3>2, <3>3, <3>4
  <2> QED
    BY <2>2, <2>3
<1>8. f = [i \in 1 .. L |-> f[i]]
  OBVIOUS
<1> HIDE DEF f, A, stop, b, p, G
<1>9. f = [i \in 1 .. L |-> IF i = 1 THEN s[i] ELSE f[i - 1] \o s[i]]
  <2> HIDE DEF L
  <2> QED
    BY <1>7, <1>8
<1>10. Flattens(f, s)
  BY <1>9 DEF Flattens
<1> QED
  BY <1>10

LEMMA FlattenIs ==
  ASSUME NEW S, NEW s \in Seq(Seq(S))
  PROVE  /\ Len(s) = 0 => FlattenSeq(s) = <<>>
         /\ Len(s) # 0 => \E f : Flattens(f, s) /\ FlattenSeq(s) = f[Len(s)]
<1>1. CASE Len(s) = 0
  BY <1>1 DEF FlattenSeq
<1>2. CASE Len(s) # 0
  <2> DEFINE flatten[i \in 1 .. Len(s)] ==
               IF i = 1 THEN s[i] ELSE flatten[i - 1] \o s[i]
  <2>1. Flattens(flatten, s)
    BY FlattensExists DEF Flattens
  <2>2. FlattenSeq(s) = flatten[Len(s)]
    BY <1>2 DEF FlattenSeq
  <2> QED
    BY <2>1, <2>2, <1>2
<1> QED
  BY <1>1, <1>2

LEMMA FlattensType ==
  ASSUME NEW S, NEW s \in Seq(Seq(S)), NEW f, Flattens(f, s)
  PROVE  \A i \in 1 .. Len(s) :
           f[i] \in Seq(S) /\ f[i] = IF i = 1 THEN s[i] ELSE f[i - 1] \o s[i]
<1>1. Len(s) \in Nat /\ \A i \in 1 .. Len(s) : s[i] \in Seq(S)
  OBVIOUS
<1>2. \A i \in 1 .. Len(s) : f[i] = IF i = 1 THEN s[i] ELSE f[i - 1] \o s[i]
  BY DEF Flattens
<1> DEFINE P == {i \in Nat : i \in 1 .. Len(s) => f[i] \in Seq(S)}
<1>3. ASSUME NEW i \in Nat, \A j \in 0 .. i - 1 : j \in P PROVE i \in P
  <2> SUFFICES ASSUME i \in 1 .. Len(s) PROVE f[i] \in Seq(S)
    OBVIOUS
  <2>1. CASE i = 1
    BY <2>1, <1>1, <1>2
  <2>2. CASE i # 1
    <3>1. i - 1 \in 0 .. i - 1 /\ i - 1 \in 1 .. Len(s)
      BY <2>2
    <3>2. f[i - 1] \in Seq(S)
      BY <3>1, <1>3
    <3>3. f[i] = f[i - 1] \o s[i]
      BY <2>2, <1>2
    <3> QED
      BY <3>2, <3>3, <1>1
  <2> QED
    BY <2>1, <2>2
<1>4. \A i \in Nat : i \in P
  <2> HIDE DEF P
  <2> QED
    BY <1>3, StrongInduction
<1> QED
  BY <1>2, <1>4

(* A sequence that begins as another does flattens as it does.             *)
LEMMA FlattensAlike ==
  ASSUME NEW s, NEW t, NEW f, Flattens(f, s), NEW g, Flattens(g, t),
         Len(s) \in Nat, Len(t) \in Nat, Len(s) <= Len(t), \A i \in 1 .. Len(s) : s[i] = t[i]
  PROVE  \A i \in 1 .. Len(s) : f[i] = g[i]
<1>1. /\ \A i \in 1 .. Len(s) : f[i] = IF i = 1 THEN s[i] ELSE f[i - 1] \o s[i]
      /\ \A i \in 1 .. Len(t) : g[i] = IF i = 1 THEN t[i] ELSE g[i - 1] \o t[i]
  BY DEF Flattens
<1> DEFINE P == {i \in Nat : i \in 1 .. Len(s) => f[i] = g[i]}
<1>3. ASSUME NEW i \in Nat, \A j \in 0 .. i - 1 : j \in P PROVE i \in P
  <2> SUFFICES ASSUME i \in 1 .. Len(s) PROVE f[i] = g[i]
    OBVIOUS
  <2>0. i \in 1 .. Len(s) /\ i \in 1 .. Len(t) /\ s[i] = t[i]
    OBVIOUS
  <2>1. CASE i = 1
    BY <2>0, <2>1, <1>1
  <2>2. CASE i # 1
    <3>1. i - 1 \in 0 .. i - 1 /\ i - 1 \in 1 .. Len(s)
      BY <2>2
    <3>2. f[i - 1] = g[i - 1]
      BY <3>1, <1>3
    <3> QED
      BY <2>0, <2>2, <3>2, <1>1
  <2> QED
    BY <2>1, <2>2
<1>4. \A i \in Nat : i \in P
  <2> HIDE DEF P
  <2> QED
    BY <1>3, StrongInduction
<1> QED
  BY <1>4

LEMMA FlattenAppend ==
  ASSUME NEW S, NEW s \in Seq(Seq(S)), NEW x \in Seq(S)
  PROVE  /\ FlattenSeq(s) \in Seq(S)
         /\ FlattenSeq(Append(s, x)) = FlattenSeq(s) \o x
<1> DEFINE longer == Append(s, x)
<1>1. /\ longer \in Seq(Seq(S)) /\ Len(longer) = Len(s) + 1 /\ longer[Len(s) + 1] = x
      /\ \A i \in 1 .. Len(s) : longer[i] = s[i]
      /\ Len(s) \in Nat
  OBVIOUS
<1> HIDE DEF longer
<1>2. PICK g : Flattens(g, longer) /\ FlattenSeq(longer) = g[Len(longer)]
  <2>1. longer \in Seq(Seq(S)) /\ Len(longer) # 0
    BY <1>1
  <2> QED
    BY <2>1, FlattenIs
<1>3. /\ \A i \in 1 .. Len(longer) : g[i] \in Seq(S)
      /\ g[Len(longer)] = IF Len(longer) = 1 THEN longer[Len(longer)] ELSE g[Len(longer) - 1] \o longer[Len(longer)]
  <2>1. Len(longer) \in 1 .. Len(longer)
    BY <1>1
  <2> QED
    BY <2>1, <1>1, <1>2, FlattensType
<1>4. CASE Len(s) = 0
  <2>1. FlattenSeq(s) = <<>>
    BY <1>4, FlattenIs
  <2>2. FlattenSeq(longer) = x
    BY <1>1, <1>2, <1>3, <1>4
  <2> QED
    BY <2>1, <2>2 DEF longer
<1>5. CASE Len(s) # 0
  <2>1. PICK f : Flattens(f, s) /\ FlattenSeq(s) = f[Len(s)]
    BY <1>5, FlattenIs
  <2>2. Len(s) \in 1 .. Len(s)
    BY <1>1, <1>5
  <2>3. f[Len(s)] \in Seq(S)
    BY <2>1, <2>2, FlattensType
  <2>4. \A i \in 1 .. Len(s) : g[i] = f[i]
    <3>0. \A i \in 1 .. Len(s) : s[i] = longer[i]
      BY <1>1
    <3>a. Len(s) <= Len(s) + 1
      BY <1>1
    <3>1. Len(s) <= Len(longer) /\ \A i \in 1 .. Len(s) : s[i] = longer[i]
      BY <1>1, <3>0, <3>a
    <3>2. /\ Len(s) \in Nat /\ Len(longer) \in Nat
          /\ Flattens(f, s) /\ Flattens(g, longer)
      BY <1>1, <1>2, <2>1
    <3> QED
      BY <3>1, <3>2, FlattensAlike
  <2>5. g[Len(longer)] = f[Len(s)] \o x
    <3>1. Len(longer) # 1 /\ Len(longer) - 1 = Len(s) /\ longer[Len(longer)] = x
      BY <1>1, <1>5
    <3>2. g[Len(s)] = f[Len(s)]
      BY <2>2, <2>4
    <3> QED
      BY <3>1, <3>2, <1>3
  <2> QED
    BY <2>1, <2>3, <2>5, <1>2 DEF longer
<1> QED
  BY <1>4, <1>5

(* What comes first stands first.                                          *)
LEMMA FlattenPrefix ==
  ASSUME NEW S, NEW s \in Seq(Seq(S)), NEW k \in 0 .. Len(s)
  PROVE  \E t \in Seq(S) : FlattenSeq(s) = FlattenSeq(SubSeq(s, 1, k)) \o t
<1>1. Len(s) \in Nat /\ \A i \in 1 .. Len(s) : s[i] \in Seq(S)
  OBVIOUS
<1> DEFINE Pre(n) == SubSeq(s, 1, n)
           P == {n \in Nat : n \in k .. Len(s) =>
                   \E t \in Seq(S) : FlattenSeq(Pre(n)) = FlattenSeq(Pre(k)) \o t}
<1>2. \A n \in 0 .. Len(s) : Pre(n) \in Seq(Seq(S)) /\ FlattenSeq(Pre(n)) \in Seq(S)
  <2>1. \A n \in 0 .. Len(s) : Pre(n) \in Seq(Seq(S))
    BY <1>1
  <2>2. ASSUME NEW u \in Seq(Seq(S)) PROVE FlattenSeq(u) \in Seq(S)
    <3>1. <<>> \in Seq(S)
      OBVIOUS
    <3> QED
      BY <3>1, FlattenAppend
  <2> QED
    BY <2>1, <2>2
<1>3. ASSUME NEW n \in Nat, \A m \in 0 .. n - 1 : m \in P PROVE n \in P
  <2> SUFFICES ASSUME n \in k .. Len(s)
               PROVE  \E t \in Seq(S) : FlattenSeq(Pre(n)) = FlattenSeq(Pre(k)) \o t
    OBVIOUS
  <2>1. CASE n = k
    <3>1. FlattenSeq(Pre(k)) = FlattenSeq(Pre(k)) \o <<>> /\ <<>> \in Seq(S)
      BY <1>2, ConcatEmptySeq
    <3> QED
      BY <2>1, <3>1
  <2>2. CASE n # k
    <3>1. n - 1 \in 0 .. n - 1 /\ n - 1 \in k .. Len(s) /\ n - 1 \in 0 .. Len(s)
          /\ n \in 1 .. Len(s)
      BY <2>2, <1>1
    <3>2. PICK t \in Seq(S) : FlattenSeq(Pre(n - 1)) = FlattenSeq(Pre(k)) \o t
      <4>1. n - 1 \in P
        <5> HIDE DEF P
        <5> QED
          BY <3>1, <1>3
      <4> QED
        BY <4>1, <3>1
    <3>3. Pre(n) = Append(Pre(n - 1), s[n])
      BY <3>1, <1>1
    <3>4. FlattenSeq(Pre(n)) = FlattenSeq(Pre(n - 1)) \o s[n]
      BY <3>1, <3>3, <1>1, <1>2, FlattenAppend
    <3>5. FlattenSeq(Pre(n)) = FlattenSeq(Pre(k)) \o (t \o s[n]) /\ t \o s[n] \in Seq(S)
      <4>1. FlattenSeq(Pre(k)) \in Seq(S) /\ s[n] \in Seq(S)
        BY <3>1, <1>1, <1>2
      <4> DEFINE first == FlattenSeq(Pre(k))
      <4>2. FlattenSeq(Pre(n)) = (first \o t) \o s[n]
        BY <3>2, <3>4
      <4> HIDE DEF first
      <4>3. first \in Seq(S) /\ t \in Seq(S) /\ s[n] \in Seq(S)
        BY <4>1 DEF first
      <4>4. t \o s[n] \in Seq(S)
        BY <4>3, ConcatProperties
      <4>5. \A u, v, w \in Seq(S) : (u \o v) \o w = u \o (v \o w)
        <5> TAKE u, v, w \in Seq(S)
        <5> QED
          BY ConcatAssociative, SMTT(60)
      <4> QED
        BY <4>2, <4>3, <4>4, <4>5 DEF first
    <3> QED
      BY <3>5
  <2> QED
    BY <2>1, <2>2
<1>4. Len(s) \in P
  <2> HIDE DEF P
  <2> QED
    BY <1>1, <1>3, StrongInduction
<1>5. Pre(Len(s)) = s
  BY SubSeqFull
<1>6. Len(s) \in k .. Len(s)
  BY <1>1
<1> QED
  BY <1>4, <1>5, <1>6

-----------------------------------------------------------------------------
(* The values f[0], f[1], ... where each is made from the one before.      *)
Iterates(f, a, h) == f[0] = a /\ \A n \in Nat : f[n + 1] = h[<<n, f[n]>>]

LEMMA Primitive ==
  ASSUME NEW A, NEW a \in A, NEW h \in [Nat \X A -> A]
  PROVE  \E f \in [Nat -> A] : Iterates(f, a, h)
<1> DEFINE stop == {0}
           b == [n \in Nat |-> a]
           p == [n \in Nat |-> IF n = 0 THEN 0 ELSE n - 1]
           G == [q \in Nat \X A |-> IF q[1] = 0 THEN a ELSE h[<<q[1] - 1, q[2]>>]]
<1>1. b \in [Nat -> A] /\ stop \subseteq Nat /\ p \in [Nat -> Nat]
  OBVIOUS
<1>2. \A n \in Nat : n \notin stop => p[n] < n
  OBVIOUS
<1>3. G \in [Nat \X A -> A]
  OBVIOUS
<1>4. PICK f \in [Nat -> A] :
        \A n \in Nat : f[n] = IF n \in stop THEN b[n] ELSE G[<<n, f[p[n]]>>]
  <2>1. Descends(A, stop, b, p, G)
    <3> HIDE DEF stop, b, p, G
    <3> QED
      BY <1>1, <1>2, <1>3 DEF Descends
  <2> HIDE DEF stop, b, p, G
  <2> QED
    BY <2>1, RecursionExists
<1>5. f[0] = a
  <2>1. f[0] = b[0]
    <3> HIDE DEF b, G, p
    <3> QED
      BY <1>4
  <2> QED
    BY <2>1
<1>6. ASSUME NEW n \in Nat PROVE f[n + 1] = h[<<n, f[n]>>]
  <2>1. n + 1 \in Nat /\ n + 1 \notin stop /\ p[n + 1] = n
    OBVIOUS
  <2>2. f[n + 1] = G[<<n + 1, f[n]>>]
    <3> HIDE DEF b, G, p, stop
    <3> QED
      BY <2>1, <1>4
  <2>3. G[<<n + 1, f[n]>>] = h[<<n, f[n]>>]
    <3>1. PICK v \in A : v = f[n]
      OBVIOUS
    <3>2. G[<<n + 1, v>>] = h[<<(n + 1) - 1, v>>]
      OBVIOUS
    <3>3. (n + 1) - 1 = n
      OBVIOUS
    <3> HIDE DEF G
    <3> QED
      BY <3>1, <3>2, <3>3
  <2> QED
    BY <2>2, <2>3
<1> QED
  BY <1>5, <1>6 DEF Iterates

(* Powers of two.                                                          *)
LEMMA Pow2Is ==
  /\ Pow2[0] = 1
  /\ \A n \in Nat : Pow2[n] \in Nat \ {0} /\ Pow2[n + 1] = 2 * Pow2[n]
<1> DEFINE A == Nat \ {0}
           h == [q \in Nat \X A |-> 2 * q[2]]
           Is(f) == f = [n \in Nat |-> IF n = 0 THEN 1 ELSE 2 * f[n - 1]]
<1>1. h \in [Nat \X A -> A]
  OBVIOUS
<1>2. PICK f \in [Nat -> A] :
        Iterates(f, 1, h)
  <2>1. 1 \in A
    OBVIOUS
  <2> HIDE DEF A, h
  <2> QED
    BY <1>1, <2>1, Primitive
<1>3. f[0] = 1 /\ \A n \in Nat : f[n + 1] = 2 * f[n]
  BY <1>2 DEF Iterates
<1>4. Is(f)
  <2>1. ASSUME NEW n \in Nat PROVE f[n] = IF n = 0 THEN 1 ELSE 2 * f[n - 1]
    <3>1. CASE n = 0
      BY <3>1, <1>3
    <3>2. CASE n # 0
      <4>1. PICK m \in Nat : n = m + 1
        <5>1. n - 1 \in Nat /\ n = (n - 1) + 1
          BY <3>2
        <5> QED
          BY <5>1
      <4>2. n - 1 = m
        BY <4>1
      <4> QED
        BY <4>1, <4>2, <3>2, <1>3
    <3> QED
      BY <3>1, <3>2
  <2> QED
    BY <2>1, <1>2
<1>5. Is(Pow2)
  <2>1. Pow2 = CHOOSE g : Is(g)
    BY DEF Pow2
  <2> HIDE DEF Is
  <2> QED
    BY <2>1, <1>4
<1>6. Pow2[0] = 1 /\ \A n \in Nat : Pow2[n + 1] = 2 * Pow2[n]
  <2>1. \A n \in Nat : Pow2[n] = IF n = 0 THEN 1 ELSE 2 * Pow2[n - 1]
    BY <1>5
  <2>2. Pow2[0] = 1
    BY <2>1
  <2>3. ASSUME NEW n \in Nat PROVE Pow2[n + 1] = 2 * Pow2[n]
    <3>1. n + 1 \in Nat /\ n + 1 # 0 /\ (n + 1) - 1 = n
      OBVIOUS
    <3>2. Pow2[n + 1] = 2 * Pow2[(n + 1) - 1]
      BY <2>1, <3>1
    <3> QED
      BY <3>1, <3>2
  <2> QED
    BY <2>2, <2>3
<1>7. \A n \in Nat : n \in {m \in Nat : Pow2[m] \in Nat \ {0}}
  <2> DEFINE P == {m \in Nat : Pow2[m] \in Nat \ {0}}
  <2>1. 0 \in P
    BY <1>6
  <2>2. \A n \in Nat : n \in P => n + 1 \in P
    BY <1>6
  <2> HIDE DEF P
  <2>3. \A n \in Nat : n \in P
    BY <2>1, <2>2, SimpleInduction
  <2> QED
    BY <2>3 DEF P
<1> QED
  BY <1>6, <1>7

-----------------------------------------------------------------------------
IntOn(g, S) == \A x \in S : g[x] \in Int

(* The sums of g over the elements of S below 0, 1, 2 and so on.           *)
Sums(f, g, S) ==
  f[0] = 0 /\ \A n \in Nat : f[n + 1] = f[n] + IF n \in S THEN g[n] ELSE 0
Upto(g, S) == CHOOSE f \in [Nat -> Int] : Sums(f, g, S)

LEMMA SumsExist ==
  ASSUME NEW S, NEW g, \A x \in S : g[x] \in Int
  PROVE  Upto(g, S) \in [Nat -> Int] /\ Sums(Upto(g, S), g, S)
<1> DEFINE h == [q \in Nat \X Int |-> q[2] + IF q[1] \in S THEN g[q[1]] ELSE 0]
<1>1. h \in [Nat \X Int -> Int]
  <2>1. ASSUME NEW n \in Nat, NEW v \in Int
        PROVE  (v + IF n \in S THEN g[n] ELSE 0) \in Int
    OBVIOUS
  <2> QED
    BY <2>1
<1>2. PICK f \in [Nat -> Int] : Iterates(f, 0, h)
  <2>1. 0 \in Int
    OBVIOUS
  <2> HIDE DEF h
  <2> QED
    BY <1>1, <2>1, Primitive
<1>3. ASSUME NEW n \in Nat PROVE f[n + 1] = f[n] + IF n \in S THEN g[n] ELSE 0
  <2>1. f[n + 1] = h[<<n, f[n]>>]
    BY <1>2 DEF Iterates
  <2>2. f[n] \in Int
    OBVIOUS
  <2> QED
    BY <2>1, <2>2
<1>4. Sums(f, g, S)
  BY <1>2, <1>3 DEF Sums, Iterates
<1> HIDE DEF h
<1> QED
  BY <1>4 DEF Upto

LEMMA SumsOf ==
  ASSUME NEW S, NEW g, IntOn(g, S)
  PROVE  /\ Upto(g, S)[0] = 0
         /\ \A n \in Nat :
              /\ Upto(g, S)[n] \in Int
              /\ Upto(g, S)[n + 1] = Upto(g, S)[n] + IF n \in S THEN g[n] ELSE 0
BY SumsExist DEF Sums, IntOn

(* An element that is taken out is missing from every sum above it.        *)
LEMMA SumsWithout ==
  ASSUME NEW S, NEW g, IntOn(g, S), NEW x \in S, NEW T, T = S \ {x},
         NEW m \in Nat, x \in 0 .. m - 1
  PROVE  Upto(g, S)[m] = Upto(g, T)[m] + g[x]
<1> \A y \in S : g[y] \in Int
  BY DEF IntOn
<1> DEFINE f == Upto(g, S)
           e == Upto(g, T)
           P == {n \in Nat : f[n] = e[n] + IF x \in 0 .. n - 1 THEN g[x] ELSE 0}
<1>1. /\ f[0] = 0
      /\ \A n \in Nat : f[n] \in Int /\ f[n + 1] = f[n] + IF n \in S THEN g[n] ELSE 0
  BY SumsOf
<1>2. /\ e[0] = 0
      /\ \A n \in Nat :
           e[n] \in Int /\ e[n + 1] = e[n] + IF n \in T THEN g[n] ELSE 0
  <2>1. IntOn(g, T)
    BY DEF IntOn
  <2>2. /\ Upto(g, T)[0] = 0
        /\ \A n \in Nat : /\ Upto(g, T)[n] \in Int
                          /\ Upto(g, T)[n + 1] = Upto(g, T)[n] + IF n \in T THEN g[n] ELSE 0
    BY ONLY <2>1, SumsOf
  <2> QED
    BY <2>2
<1> HIDE DEF f, e
<1>3. 0 \in P
  BY <1>1, <1>2
<1>4. ASSUME NEW n \in Nat, n \in P PROVE n + 1 \in P
  <2>1. CASE n = x
    <3>1. ~(x \in 0 .. n - 1) /\ x \in 0 .. (n + 1) - 1 /\ n \in S /\ n \notin S \ {x}
      BY <2>1
    <3>2. f[n] = e[n] /\ f[n + 1] = f[n] + g[x] /\ e[n + 1] = e[n] + 0
      BY <3>1, <1>4, <1>1, <1>2, <2>1
    <3>3. f[n + 1] = e[n + 1] + g[x]
      BY <3>2, <1>1, <1>2
    <3> QED
      BY <3>1, <3>3
  <2>2. CASE n # x
    <3>1. (x \in 0 .. n - 1 <=> x \in 0 .. (n + 1) - 1) /\ (n \in S <=> n \in S \ {x})
      BY <2>2
    <3> DEFINE new  == IF n \in S THEN g[n] ELSE 0
               part == IF x \in 0 .. n - 1 THEN g[x] ELSE 0
    <3>2. f[n + 1] = f[n] + new /\ e[n + 1] = e[n] + new
      BY <3>1, <1>1, <1>2
    <3>3. f[n] = e[n] + part
      BY <1>4
    <3>4. new \in Int /\ part \in Int /\ f[n] \in Int /\ e[n] \in Int
      BY <1>1, <1>2
    <3>5. f[n + 1] = e[n + 1] + part
      <4> HIDE DEF new, part
      <4> QED
        BY <3>2, <3>3, <3>4
    <3>6. part = IF x \in 0 .. (n + 1) - 1 THEN g[x] ELSE 0
      BY <3>1
    <3> HIDE DEF part
    <3> QED
      BY <3>5, <3>6
  <2> QED
    BY <2>1, <2>2
<1> HIDE DEF P
<1>5. \A n \in Nat : n \in P
  BY <1>3, <1>4, SimpleInduction
<1> QED
  BY <1>5 DEF P, f, e

(* What SumFunctionOnSet is: a function that adds up elements as CHOOSE    *)
(* takes them.                                                             *)
Adds(iter, g, S) ==
  iter = [s \in SUBSET S |->
            IF s = {} THEN 0
            ELSE LET x == CHOOSE x \in s : TRUE IN g[x] + iter[s \ {x}]]

LEMMA SumChoose ==
  ASSUME NEW S, NEW g
  PROVE  SumFunctionOnSet(g, S) = (CHOOSE iter : Adds(iter, g, S))[S]
BY DEF SumFunctionOnSet, FoldFunctionOnSet, MapThenFoldSet, Adds

LEMMA SumIs ==
  ASSUME NEW N \in Nat, NEW S \in SUBSET (0 .. N - 1), NEW g,
         \A x \in S : g[x] \in Int
  PROVE  SumFunctionOnSet(g, S) = Upto(g, S)[N]
<1>1. ASSUME NEW s \in SUBSET S, s # {}, NEW x \in s
      PROVE  /\ Upto(g, s)[N] = g[x] + Upto(g, s \ {x})[N]
             /\ s \ {x} \in SUBSET S
  <2>1. \A y \in s : g[y] \in Int
    OBVIOUS
  <2>3. x \in 0 .. N - 1 /\ g[x] \in Int
    BY <2>1
  <2>2. Upto(g, s)[N] = Upto(g, s \ {x})[N] + g[x]
    <3>1. IntOn(g, s)
      BY <2>1 DEF IntOn
    <3>2. PICK t : t = s \ {x}
      OBVIOUS
    <3>3. Upto(g, s)[N] = Upto(g, t)[N] + g[x]
      BY <2>3, <3>1, <3>2, SumsWithout
    <3> QED
      BY <3>2, <3>3
  <2>4. Upto(g, s \ {x})[N] \in Int
    <3>1. IntOn(g, s \ {x})
      BY <2>1 DEF IntOn
    <3> QED
      BY <3>1, SumsOf
  <2> QED
    BY <2>2, <2>3, <2>4
<1>2. Upto(g, {})[N] = 0
  <2> DEFINE f == Upto(g, {})
             P == {n \in Nat : f[n] = 0}
  <2>1. f[0] = 0 /\ \A n \in Nat : f[n] \in Int /\ f[n + 1] = f[n] + IF n \in {} THEN g[n] ELSE 0
    <3>1. IntOn(g, {})
      BY DEF IntOn
    <3> QED
      BY <3>1, SumsOf
  <2> HIDE DEF f
  <2>2. 0 \in P /\ \A n \in Nat : n \in P => n + 1 \in P
    BY <2>1
  <2> HIDE DEF P
  <2>3. \A n \in Nat : n \in P
    BY <2>2, SimpleInduction
  <2> QED
    BY <2>3 DEF P, f
<1> DEFINE it == [s \in SUBSET S |-> Upto(g, s)[N]]
<1>3. Adds(it, g, S)
  <2>1. ASSUME NEW s \in SUBSET S
        PROVE  it[s] = IF s = {} THEN 0
                       ELSE LET x == CHOOSE x \in s : TRUE IN g[x] + it[s \ {x}]
    <3>1. CASE s = {}
      BY <3>1, <1>2
    <3>2. CASE s # {}
      <4> DEFINE x == CHOOSE x \in s : TRUE
      <4>1. x \in s
        BY <3>2
      <4> HIDE DEF x
      <4>2. it[s] = g[x] + it[s \ {x}]
        BY <4>1, <3>2, <1>1
      <4> HIDE DEF it
      <4> QED
        BY <4>2, <3>2 DEF x
    <3> QED
      BY <3>1, <3>2
  <2>2. it = [s \in SUBSET S |-> it[s]]
    OBVIOUS
  <2> HIDE DEF it
  <2> QED
    BY <2>1, <2>2 DEF Adds
<1>4. PICK sum : sum = CHOOSE iter : Adds(iter, g, S)
  OBVIOUS
<1>5. Adds(sum, g, S)
  <2> HIDE DEF it
  <2> QED
    BY <1>3, <1>4
<1>6. ASSUME NEW s \in SUBSET S, s # {}
      PROVE  \E x \in s : sum[s] = g[x] + sum[s \ {x}]
  <2> DEFINE x == CHOOSE x \in s : TRUE
  <2>1. x \in s
    BY <1>6
  <2>2. sum[s] = g[x] + sum[s \ {x}]
    BY <1>5, <1>6 DEF Adds
  <2> HIDE DEF x
  <2> QED
    BY <2>1, <2>2
<1>7. sum[{}] = 0
  BY <1>5 DEF Adds
<1> DEFINE Q == {n \in Nat : \A s \in SUBSET S :
                   Cardinality(s) = n => sum[s] = Upto(g, s)[N]}
<1>8. \A s \in SUBSET S : IsFiniteSet(s) /\ Cardinality(s) \in Nat
  <2>1. IsFiniteSet(0 .. N - 1)
    BY FS_Interval
  <2>2. ASSUME NEW s \in SUBSET S PROVE IsFiniteSet(s)
    BY <2>1, FS_Subset
  <2> QED
    BY <2>2, FS_CardinalityType
<1>9. 0 \in Q
  <2>1. ASSUME NEW s \in SUBSET S, Cardinality(s) = 0 PROVE s = {}
    BY <2>1, <1>8, FS_EmptySet
  <2> QED
    BY <2>1, <1>7, <1>2
<1>10. ASSUME NEW n \in Nat, n \in Q PROVE n + 1 \in Q
  <2>1. ASSUME NEW s \in SUBSET S, Cardinality(s) = n + 1
        PROVE  sum[s] = Upto(g, s)[N]
    <3>1. s # {}
      BY <2>1, FS_EmptySet
    <3>2. PICK x \in s : sum[s] = g[x] + sum[s \ {x}]
      BY <3>1, <1>6
    <3>3. Cardinality(s \ {x}) = n /\ s \ {x} \in SUBSET S
      <4>1. Cardinality(s \ {x}) = Cardinality(s) - 1
        BY <1>8, FS_RemoveElement
      <4> QED
        BY <4>1, <2>1
    <3>4. sum[s \ {x}] = Upto(g, s \ {x})[N]
      BY <3>3, <1>10
    <3> QED
      BY <3>1, <3>2, <3>4, <1>1
  <2> QED
    BY <2>1
<1> HIDE DEF Q
<1>11. \A n \in Nat : n \in Q
  BY <1>9, <1>10, SimpleInduction
<1>12. sum[S] = Upto(g, S)[N]
  BY <1>11, <1>8 DEF Q
<1> QED
  BY <1>12, <1>4, SumChoose

(* The sum over no element, and over one element more.                     *)
LEMMA SumEmpty == \A g : SumFunctionOnSet(g, {}) = 0
<1> TAKE g
<1>1. {} \in SUBSET (0 .. 0 - 1) /\ 0 \in Nat
  OBVIOUS
<1>2. SumFunctionOnSet(g, {}) = Upto(g, {})[0]
  BY <1>1, SumIs
<1>3. IntOn(g, {})
  BY DEF IntOn
<1> QED
  BY <1>2, <1>3, SumsOf

LEMMA SumAdd ==
  ASSUME NEW N \in Nat, NEW S \in SUBSET (0 .. N - 1), NEW x \in 0 .. N - 1,
         x \notin S, NEW g, \A y \in S \cup {x} : g[y] \in Int
  PROVE  /\ SumFunctionOnSet(g, S) \in Int
         /\ SumFunctionOnSet(g, S \cup {x}) = SumFunctionOnSet(g, S) + g[x]
<1> DEFINE T == S \cup {x}
<1>1. T \ {x} = S /\ T \in SUBSET (0 .. N - 1) /\ x \in T
  OBVIOUS
<1>2. \A y \in T : g[y] \in Int
  OBVIOUS
<1> HIDE DEF T
<1>3. Upto(g, T)[N] = Upto(g, S)[N] + g[x]
  <2>1. IntOn(g, T)
    BY <1>2 DEF IntOn
  <2> QED
    BY <1>1, <2>1, SumsWithout
<1>4. SumFunctionOnSet(g, S) = Upto(g, S)[N] /\ Upto(g, S)[N] \in Int
  <2>1. IntOn(g, S)
    BY DEF IntOn
  <2> QED
    BY <2>1, SumIs, SumsOf
<1>5. SumFunctionOnSet(g, T) = Upto(g, T)[N]
  BY <1>1, <1>2, SumIs
<1> QED
  BY <1>3, <1>4, <1>5 DEF T
-----------------------------------------------------------------------------
(* Division by a positive number: the quotient and the remainder are the   *)
(* only ones there are.                                                    *)
LEMMA DivMod ==
  ASSUME NEW x \in Int, NEW m \in Nat \ {0}
  PROVE  /\ x \div m \in Int /\ x % m \in 0 .. m - 1
         /\ x = (x \div m) * m + (x % m)
<1>1. x \div m \in Int
  OBVIOUS
<1>2. x % m \in 0 .. m - 1
  OBVIOUS
<1>3. x = (x \div m) * m + (x % m)
  OBVIOUS
<1> QED
  BY <1>1, <1>2, <1>3

LEMMA DivUnique ==
  ASSUME NEW x \in Int, NEW m \in Nat \ {0}, NEW q \in Int, NEW r \in 0 .. m - 1,
         x = q * m + r
  PROVE  x \div m = q /\ x % m = r
OBVIOUS

LEMMA DivShift ==
  ASSUME NEW x \in Int, NEW m \in Nat \ {0}, NEW q \in Int
  PROVE  (x + q * m) \div m = x \div m + q /\ (x + q * m) % m = x % m
<1>1. PICK d \in Int, r \in 0 .. m - 1 : d = x \div m /\ r = x % m /\ x = d * m + r
  BY DivMod
<1>2. x + q * m = (d + q) * m + r /\ d + q \in Int /\ x + q * m \in Int
  <2>1. (d + q) * m = d * m + q * m
    OBVIOUS
  <2> QED
    BY <1>1, <2>1
<1> QED
  BY <1>1, <1>2, DivUnique

(* Powers of two.                                                          *)
LEMMA Pow2Plus ==
  ASSUME NEW a \in Nat, NEW b \in Nat
  PROVE  Pow2[a + b] = Pow2[a] * Pow2[b]
<1> DEFINE P == {n \in Nat : Pow2[a + n] = Pow2[a] * Pow2[n]}
<1>1. 0 \in P
  BY Pow2Is
<1>2. ASSUME NEW n \in Nat, n \in P PROVE n + 1 \in P
  <2>1. PICK p \in Nat, q \in Nat, s \in Nat :
          p = Pow2[a] /\ q = Pow2[n] /\ s = Pow2[a + n]
    <3>1. a + n \in Nat
      OBVIOUS
    <3> QED
      BY <3>1, Pow2Is
  <2>2. Pow2[n + 1] = 2 * q
    BY <2>1, Pow2Is
  <2>3. a + (n + 1) = (a + n) + 1 /\ a + n \in Nat
    OBVIOUS
  <2>4. Pow2[a + (n + 1)] = 2 * s
    BY <2>1, <2>3, Pow2Is
  <2>5. s = p * q
    BY <1>2, <2>1
  <2>6. 2 * (p * q) = p * (2 * q)
    OBVIOUS
  <2> QED
    BY <2>1, <2>2, <2>4, <2>5, <2>6
<1> HIDE DEF P
<1>3. \A n \in Nat : n \in P
  BY <1>1, <1>2, SimpleInduction
<1> QED
  BY <1>3 DEF P

LEMMA Pow2Pos == ASSUME NEW n \in Nat PROVE Pow2[n] \in Nat \ {0}
BY Pow2Is

LEMMA Pow2Below ==
  ASSUME NEW a \in Nat, NEW b \in Nat, a <= b
  PROVE  Pow2[a] <= Pow2[b]
<1>1. PICK c \in Nat : b = a + c
  <2>1. b - a \in Nat /\ b = a + (b - a)
    OBVIOUS
  <2> QED
    BY <2>1
<1>2. PICK p \in Nat, q \in Nat \ {0} : p = Pow2[a] /\ q = Pow2[c]
  BY Pow2Pos
<1>3. Pow2[b] = p * q
  BY <1>1, <1>2, Pow2Plus
<1>4. p * q >= p
  <2>1. p * (q - 1) >= 0
    OBVIOUS
  <2>2. p * (q - 1) = p * q - p
    OBVIOUS
  <2> QED
    BY <2>1, <2>2
<1> QED
  BY <1>2, <1>3, <1>4

(* Binary digits.                                                          *)
LEMMA BitIs ==
  ASSUME NEW x \in Int, NEW i \in Nat
  PROVE  Bit(x, i) \in {0, 1}
<1>1. x \div Pow2[i] \in Int
  BY Pow2Pos, DivMod
<1> QED
  BY <1>1 DEF Bit

LEMMA BitMore ==
  ASSUME NEW x \in Int, NEW n \in Nat
  PROVE  x % Pow2[n + 1] = (x % Pow2[n]) + Bit(x, n) * Pow2[n]
<1>1. PICK p \in Nat \ {0} : p = Pow2[n] /\ Pow2[n + 1] = 2 * p
  BY Pow2Is
<1>2. PICK q \in Int, r \in 0 .. p - 1 : q = x \div p /\ r = x % p /\ x = q * p + r
  BY DivMod
<1>3. PICK d \in Int, b \in {0, 1} : q = 2 * d + b /\ b = q % 2
  <2>1. PICK d \in Int, b \in 0 .. 1 : d = q \div 2 /\ b = q % 2 /\ q = d * 2 + b
    BY DivMod
  <2>2. b \in {0, 1} /\ q = 2 * d + b
    BY <2>1
  <2> QED
    BY <2>1, <2>2
<1>4. b = Bit(x, n)
  BY <1>1, <1>2, <1>3 DEF Bit
<1>5. r + b * p \in 0 .. 2 * p - 1 /\ 2 * p \in Nat \ {0}
  OBVIOUS
<1>6. x = d * (2 * p) + (r + b * p)
  <2>1. \A c, e \in Int : (c + e) * p = c * p + e * p
    OBVIOUS
  <2>2. (2 * d + b) * p = (2 * d) * p + b * p
    BY <2>1
  <2>3. (2 * d) * p = d * (2 * p)
    OBVIOUS
  <2>4. q * p = d * (2 * p) + b * p
    BY <1>3, <2>2, <2>3
  <2>5. PICK u \in Int, v \in Int : u = d * (2 * p) /\ v = b * p
    OBVIOUS
  <2>6. x = (u + v) + r
    BY <1>2, <2>4, <2>5
  <2>7. x = u + (r + v)
    BY <2>6
  <2> QED
    BY <2>5, <2>7
<1>7. x % (2 * p) = r + b * p
  BY <1>5, <1>6, DivUnique
<1> QED
  BY <1>1, <1>2, <1>4, <1>7

LEMMA BitShift ==
  ASSUME NEW x \in Int, NEW q \in Int, NEW n \in Nat, NEW i \in 0 .. n - 1
  PROVE  Bit(x + q * Pow2[n], i) = Bit(x, i)
<1>1. PICK k \in Nat : n = (k + i) + 1 /\ k + i \in Nat
  <2>1. n - i - 1 \in Nat /\ n = ((n - i - 1) + i) + 1
    OBVIOUS
  <2> QED
    BY <2>1
<1>2. PICK c \in Nat \ {0}, p \in Nat \ {0} : c = Pow2[k] /\ p = Pow2[i]
  BY Pow2Pos
<1>3. Pow2[n] = 2 * (c * p)
  <2>1. Pow2[(k + i) + 1] = 2 * Pow2[k + i]
    BY <1>1, Pow2Is
  <2>2. Pow2[k + i] = Pow2[k] * Pow2[i]
    BY Pow2Plus
  <2> QED
    BY <1>1, <1>2, <2>1, <2>2
<1>4. q * Pow2[n] = (2 * (q * c)) * p
  <2>1. q * (2 * (c * p)) = (2 * (q * c)) * p
    OBVIOUS
  <2> QED
    BY <1>3, <2>1
<1>5. (x + (2 * (q * c)) * p) \div p = x \div p + 2 * (q * c)
  <2>1. 2 * (q * c) \in Int
    OBVIOUS
  <2> QED
    BY <2>1, DivShift
<1>6. (x \div p + 2 * (q * c)) % 2 = (x \div p) % 2
  <2>1. x \div p \in Int /\ q * c \in Int
    BY DivMod
  <2> QED
    BY <2>1
<1> QED
  BY <1>2, <1>4, <1>5, <1>6 DEF Bit

LEMMA BitDiv ==
  ASSUME NEW x \in Int, NEW k \in Nat, NEW i \in Nat
  PROVE  Bit(x \div Pow2[k], i) = Bit(x, i + k)
<1>1. PICK a \in Nat \ {0}, b \in Nat \ {0} : a = Pow2[k] /\ b = Pow2[i]
  BY Pow2Pos
<1>2. Pow2[i + k] = b * a /\ b * a = a * b
  <2>1. Pow2[i + k] = Pow2[i] * Pow2[k]
    BY Pow2Plus
  <2>2. b * a = a * b
    OBVIOUS
  <2> QED
    BY <1>1, <2>1, <2>2
<1>3. (x \div a) \div b = x \div (a * b)
  <2>1. PICK q \in Int, r \in 0 .. a - 1 : q = x \div a /\ x = q * a + r
    BY DivMod
  <2>2. PICK p \in Int, s \in 0 .. b - 1 : p = q \div b /\ q = p * b + s
    BY DivMod
  <2>3. s * a + r \in 0 .. a * b - 1
    <3>1. s * a >= 0
      OBVIOUS
    <3>2. (b - 1 - s) * a >= 0
      OBVIOUS
    <3>3. (b - 1 - s) * a = a * b - a - s * a
      OBVIOUS
    <3> QED
      BY <3>1, <3>2, <3>3
  <2>4. x = p * (a * b) + (s * a + r)
    <3>1. q * a = (p * b) * a + s * a
      BY <2>2
    <3>2. (p * b) * a = p * (a * b)
      OBVIOUS
    <3> QED
      BY <2>1, <3>1, <3>2
  <2>5. PICK c \in Nat \ {0}, t \in Int : c = a * b /\ t = s * a + r
    OBVIOUS
  <2>6. x \div c = p
    BY <2>3, <2>4, <2>5, DivUnique
  <2> QED
    BY <2>1, <2>2, <2>5, <2>6
<1> QED
  BY <1>1, <1>2, <1>3 DEF Bit

LEMMA BitTimes ==
  ASSUME NEW x \in Int, NEW k \in Nat, NEW i \in Nat
  PROVE  /\ i < k => Bit(x * Pow2[k], i) = 0
         /\ i >= k => Bit(x * Pow2[k], i) = Bit(x, i - k)
<1>1. PICK p \in Nat \ {0} : p = Pow2[k]
  BY Pow2Pos
<1>2. CASE i < k
  <2>1. i \in 0 .. k - 1
    BY <1>2
  <2>2. Bit(0 + x * p, i) = Bit(0, i)
    BY <2>1, <1>1, BitShift
  <2>3. 0 + x * p = x * p
    OBVIOUS
  <2>4. Bit(0, i) = 0
    <3>1. PICK c \in Nat \ {0} : c = Pow2[i]
      BY Pow2Pos
    <3>2. 0 \div c = 0
      OBVIOUS
    <3> QED
      BY <3>1, <3>2 DEF Bit
  <2> QED
    BY <1>1, <1>2, <2>2, <2>3, <2>4
<1>3. CASE i >= k
  <2>1. PICK j \in Nat : i = j + k
    <3>1. i - k \in Nat /\ i = (i - k) + k
      BY <1>3
    <3> QED
      BY <3>1
  <2>2. (x * p) \div p = x
    <3>1. x * p \in Int /\ x * p = x * p + 0 /\ 0 \in 0 .. p - 1
      OBVIOUS
    <3> QED
      BY <3>1, DivUnique
  <2>3. Bit((x * p) \div Pow2[k], j) = Bit(x * p, j + k)
    <3>1. x * p \in Int
      OBVIOUS
    <3> QED
      BY <3>1, BitDiv
  <2>4. i - k = j
    BY <2>1
  <2> QED
    BY <1>1, <1>3, <2>1, <2>2, <2>3, <2>4
<1> QED
  BY <1>2, <1>3
=============================================================================
