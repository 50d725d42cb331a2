---- MODULE RelayProofs ----
(***************************************************************************)
(* Proofs about Relay, for any callers of a wallet, lists of calls, word   *)
(* size, and number of submissions.  What is written by the encoders is    *)
(* what the wallets and the token contracts read, so what is performed is  *)
(* what was asked for; what a builder signs is what the wallet hashes; and *)
(* a request is good for one nonce, so a caller's calls are performed at   *)
(* most once.                                                              *)
(***************************************************************************)
EXTENDS Relay, NaturalsInduction, WellFoundedInduction, SequenceTheorems, TLAPS

(* A set of naturals that has 0, and with a number the next, has them all. *)
LEMMA Induct ==
  ASSUME NEW T \in SUBSET Nat, 0 \in T, \A n \in T : n + 1 \in T
  PROVE  T = Nat
<1> DEFINE R == Nat \ T
<1>1. ASSUME R # {} PROVE FALSE
  <2>1. PICK m \in R : \A n \in R : <<n, m>> \notin OpToRel(<, Nat)
    <3>1. R \in SUBSET Nat
      OBVIOUS
    <3> HIDE DEF R
    <3> QED BY <1>1, <3>1, NatLessThanWellFounded, WFMin, Zenon
  <2>2. \A n \in R : ~ (n < m)
    BY <2>1, Zenon DEF OpToRel
  <2>3. m - 1 \in Nat /\ m - 1 \notin R /\ (m - 1) + 1 = m
    BY <2>2
  <2>4. m - 1 \in T
    BY <2>3
  <2>5. (m - 1) + 1 \in T
    BY <2>4
  <2> QED BY <2>3, <2>5
<1> QED BY <1>1

(* next takes each value of V at each n to one of V. *)
Within(next, V) == \A n \in Nat, v \in V : next[<<n, v>>] \in V

(* What is defined by recursion on the naturals exists. *)
LEMMA Recursion ==
  ASSUME NEW V, NEW first, first \in V,
         NEW next, Within(next, V)
  PROVE  \E g \in [Nat -> V] :
           /\ g[0] = first
           /\ \A n \in Nat : g[n + 1] = next[<<n, g[n]>>]
<1> DEFINE Good(g, n) == /\ g \in [0..n -> V] /\ g[0] = first
                         /\ \A k \in 0 .. n - 1 : g[k + 1] = next[<<k, g[k]>>]
           T == {n \in Nat : \E g : Good(g, n)}
<1>0. \A n \in Nat, v \in V : next[<<n, v>>] \in V
  BY DEF Within
<1>1. 0 \in T
  <2>1. Good([k \in 0..0 |-> first], 0)
    OBVIOUS
  <2> QED BY <2>1
<1>2. ASSUME NEW n \in T PROVE n + 1 \in T
  <2>1. PICK g : Good(g, n)
    BY <1>2
  <2> DEFINE h == [k \in 0 .. n + 1 |-> IF k <= n THEN g[k] ELSE next[<<n, g[n]>>]]
  <2>2. n \in Nat /\ g[n] \in V /\ next[<<n, g[n]>>] \in V
    BY <2>1, <1>0
  <2>3. h \in [0 .. n + 1 -> V] /\ h[0] = first
    BY <2>1, <2>2
  <2>4. ASSUME NEW k \in 0 .. (n + 1) - 1 PROVE h[k + 1] = next[<<k, h[k]>>]
    <3>1. CASE k = n
      <4>1. n \in 0 .. n + 1 /\ n + 1 \in 0 .. n + 1 /\ ~ (n + 1 <= n) /\ n <= n
        BY <2>2
      <4>2. h[n] = g[n] /\ h[n + 1] = next[<<n, g[n]>>]
        BY <4>1
      <4> HIDE DEF h
      <4> QED BY <4>2, <3>1
    <3>2. CASE k # n
      <4>1. k \in 0 .. n - 1 /\ k + 1 \in 0 .. n + 1 /\ k + 1 <= n /\ k <= n /\ k \in 0 .. n + 1
        BY <3>2, <2>2
      <4>2. h[k + 1] = g[k + 1] /\ h[k] = g[k]
        BY <4>1
      <4> QED BY <4>1, <4>2, <2>1
    <3> QED BY <3>1, <3>2
  <2>5. Good(h, n + 1)
    BY <2>3, <2>4
  <2> HIDE DEF Good
  <2> QED BY <2>2, <2>5
<1>3. T = Nat
  <2> HIDE DEF T
  <2> QED BY <1>1, <1>2, Induct DEF T
<1>4. PICK p : \A n \in Nat : Good(p[n], n)
  <2> HIDE DEF Good
  <2>1. \A n \in Nat : \E g : Good(g, n)
    BY <1>3
  <2> DEFINE q == [n \in Nat |-> CHOOSE g : Good(g, n)]
  <2>2. \A n \in Nat : Good(q[n], n)
    BY <2>1
  <2> QED BY <2>2
<1>5. \A n \in Nat : p[n][0] = first /\ p[n][n] \in V
  BY <1>4
<1>6. \A n, k \in Nat : k + 1 <= n => p[n][k + 1] = next[<<k, p[n][k]>>]
  <2> SUFFICES ASSUME NEW n \in Nat, NEW k \in Nat, k + 1 <= n
      PROVE p[n][k + 1] = next[<<k, p[n][k]>>]
    OBVIOUS
  <2>1. k \in 0 .. n - 1
    OBVIOUS
  <2> QED BY <1>4, <2>1
<1> HIDE DEF Good
<1> DEFINE B == {m \in Nat : \A n \in Nat : m <= n => p[n][m] = p[m][m]}
<1>7. B = Nat
  <2>1. 0 \in B
    BY <1>5
  <2>2. ASSUME NEW m \in B PROVE m + 1 \in B
    <3>1. m \in Nat
      OBVIOUS
    <3>2. ASSUME NEW n \in Nat, m + 1 <= n PROVE p[n][m + 1] = next[<<m, p[m][m]>>]
      <4>1. p[n][m + 1] = next[<<m, p[n][m]>>]
        BY <3>1, <3>2, <1>6
      <4>2. p[n][m] = p[m][m]
        BY <3>1, <3>2, <2>2
      <4> QED BY <4>1, <4>2
    <3>3. p[m + 1][m + 1] = next[<<m, p[m][m]>>]
      BY <3>1, <3>2
    <3> QED BY <3>1, <3>2, <3>3
  <2> HIDE DEF B
  <2> QED BY <2>1, <2>2, Induct DEF B
<1> DEFINE f == [n \in Nat |-> p[n][n]]
<1>8. f \in [Nat -> V] /\ f[0] = first
  BY <1>5
<1>9. ASSUME NEW n \in Nat PROVE f[n + 1] = next[<<n, f[n]>>]
  <2>1. p[n + 1][n + 1] = next[<<n, p[n + 1][n]>>]
    BY <1>6
  <2>2. p[n + 1][n] = p[n][n]
    BY <1>7
  <2> QED BY <2>1, <2>2
<1> QED BY <1>8, <1>9

(* The powers of the base. *)
LEMMA Powers ==
  /\ Power \in [Nat -> Nat \ {0}] /\ Power[0] = 1
  /\ \A n \in Nat : Power[n + 1] = Base * Power[n]
<1> DEFINE V == Nat \ {0}
           next == [x \in Nat \X V |-> Base * x[2]]
<1>1. Within(next, V) /\ 1 \in V
  BY AbiAssumption DEF Within
<1>2. PICK g \in [Nat -> V] : g[0] = 1 /\ \A n \in Nat : g[n + 1] = next[<<n, g[n]>>]
  <2> HIDE DEF V, next
  <2> QED BY <1>1, Recursion
<1>3. \A n \in Nat : g[n + 1] = Base * g[n]
  BY <1>2
<1>4. g = [n \in Nat |-> IF n = 0 THEN 1 ELSE Base * g[n - 1]]
  <2>1. ASSUME NEW n \in Nat, n # 0 PROVE g[n] = Base * g[n - 1]
    <3>1. n - 1 \in Nat /\ (n - 1) + 1 = n
      BY <2>1
    <3> QED BY <3>1, <1>3
  <2> QED BY <2>1, <1>2
<1>5. Power = [n \in Nat |-> IF n = 0 THEN 1 ELSE Base * Power[n - 1]]
  BY <1>4 DEF Power
<1> DEFINE T == {n \in Nat : Power[n] = g[n]}
<1>6. T = Nat
  <2>1. 0 \in T
    BY <1>5, <1>2
  <2>2. ASSUME NEW n \in T PROVE n + 1 \in T
    <3>1. n + 1 \in Nat /\ n + 1 # 0 /\ (n + 1) - 1 = n
      OBVIOUS
    <3>2. Power[n + 1] = Base * Power[n]
      BY <3>1, <1>5
    <3> QED BY <3>2, <1>3
  <2> HIDE DEF T
  <2> QED BY <2>1, <2>2, Induct DEF T
<1>7. Power[0] = 1 /\ \A n \in Nat : Power[n] \in Nat \ {0}
  BY <1>2, <1>6
<1>8. \A n \in Nat : Power[n + 1] = Base * Power[n]
  <2> SUFFICES ASSUME NEW n \in Nat PROVE Power[n + 1] = Base * Power[n]
    OBVIOUS
  <2>1. n + 1 \in Nat /\ n + 1 # 0 /\ (n + 1) - 1 = n
    OBVIOUS
  <2> QED BY <2>1, <1>5
<1>9. Power = [n \in Nat |-> Power[n]]
  BY <1>5
<1> HIDE DEF T
<1> QED BY <1>7, <1>8, <1>9

(* What the parts of a list up to the k-th come to. *)
Flat(s, k) == FlattenSeq([i \in 1..k |-> s[i]])

(* The parts are taken one by one. *)
LEMMA FlatStep ==
  ASSUME NEW S, NEW s, NEW n \in Nat, \A i \in 1..n : s[i] \in Seq(S)
  PROVE  /\ Flat(s, 0) = <<>>
         /\ \A k \in 0..n : Flat(s, k) \in Seq(S)
         /\ \A k \in 0 .. n - 1 : Flat(s, k + 1) = Flat(s, k) \o s[k + 1]
<1> DEFINE V == Seq(S)
           next == [x \in Nat \X V |-> IF x[1] + 1 \in 1..n THEN x[2] \o s[x[1] + 1] ELSE <<>>]
<1>1. Within(next, V) /\ <<>> \in V
  <2>1. ASSUME NEW k \in Nat, NEW v \in V
        PROVE  (IF k + 1 \in 1..n THEN v \o s[k + 1] ELSE <<>>) \in V
    <3>1. k + 1 \in 1..n => v \o s[k + 1] \in V
      BY ConcatProperties
    <3>2. <<>> \in V
      BY EmptySeq
    <3> QED BY <3>1, <3>2
  <2>2. <<>> \in V
    BY EmptySeq
  <2> HIDE DEF V
  <2> QED BY <2>1, <2>2 DEF Within
<1>2. PICK g \in [Nat -> V] : g[0] = <<>> /\ \A k \in Nat : g[k + 1] = next[<<k, g[k]>>]
  <2> HIDE DEF V, next
  <2> QED BY <1>1, Recursion
<1>3. \A k \in 0 .. n - 1 : g[k + 1] = g[k] \o s[k + 1]
  <2> SUFFICES ASSUME NEW k \in 0 .. n - 1 PROVE g[k + 1] = g[k] \o s[k + 1]
    OBVIOUS
  <2>1. k \in Nat /\ k + 1 \in 1..n
    OBVIOUS
  <2>2. <<k, g[k]>> \in Nat \X V
    BY <2>1, <1>2
  <2> HIDE DEF V
  <2> QED BY <2>1, <2>2, <1>2
<1>4. ASSUME NEW m \in 1..n PROVE Flat(s, m) = g[m]
  <2> DEFINE t == [i \in 1..m |-> s[i]]
             Flattens(f) == f = [i \in 1 .. Len(t) |-> IF i = 1 THEN t[i] ELSE f[i - 1] \o t[i]]
             f == CHOOSE h : Flattens(h)
             h == [i \in 1..m |-> g[i]]
  <2>1. m \in Nat /\ Len(t) = m /\ m # 0
    OBVIOUS
  <2>2. Flattens(h)
    <3>1. ASSUME NEW i \in 1..m
          PROVE h[i] = IF i = 1 THEN t[i] ELSE h[i - 1] \o t[i]
      <4>1. i - 1 \in 0 .. n - 1 /\ (i - 1) + 1 = i /\ s[i] \in Seq(S)
        OBVIOUS
      <4>2. g[i] = g[i - 1] \o s[i]
        BY <4>1, <1>3
      <4>3. CASE i = 1
        <5>1. g[0] \o s[1] = s[1]
          BY <4>1, <4>3, <1>2, ConcatEmptySeq
        <5>2. g[1] = s[1]
          <6>1. i - 1 = 0 /\ i = 1
            BY <4>3
          <6>2. g[1] = g[0] \o s[1]
            BY <4>2, <6>1
          <6> QED BY <6>2, <5>1
        <5>3. h[1] = g[1] /\ t[1] = s[1]
          BY <4>3
        <5> HIDE DEF h, t
        <5> QED BY <5>2, <5>3, <4>3
      <4>4. CASE i # 1
        <5>1. i - 1 \in 1..m
          BY <4>4
        <5> QED BY <5>1, <4>2, <4>4
      <4> QED BY <4>3, <4>4
    <3> HIDE DEF t
    <3>2. h = [i \in 1..m |-> IF i = 1 THEN t[i] ELSE h[i - 1] \o t[i]]
      <4>1. h = [i \in 1..m |-> h[i]]
        OBVIOUS
      <4> HIDE DEF h
      <4> QED BY <4>1, <3>1
    <3> QED BY <3>2, <2>1
  <2>3. Flattens(f)
    <3> HIDE DEF Flattens, h
    <3> QED BY <2>2
  <2>4. f = [i \in 1..m |-> IF i = 1 THEN t[i] ELSE f[i - 1] \o t[i]]
    <3> HIDE DEF t, f
    <3> QED BY <2>3, <2>1
  <2> DEFINE T == {k \in Nat : k + 1 <= m => f[k + 1] = g[k + 1]}
  <2>5. T = Nat
    <3>1. 0 \in T
      <4>1. 1 \in 1..m /\ 0 \in 0 .. n - 1
        OBVIOUS
      <4>2. f[1] = s[1]
        <5> HIDE DEF f
        <5> QED BY <4>1, <2>4
      <4>3. g[1] = g[0] \o s[1]
        BY <4>1, <1>3
      <4>4. g[1] = s[1]
        BY <4>3, <1>2, <4>1, ConcatEmptySeq
      <4> HIDE DEF f
      <4> QED BY <4>2, <4>4
    <3>2. ASSUME NEW k \in T PROVE k + 1 \in T
      <4>0. k \in Nat /\ k + 1 \in Nat /\ (k + 1 <= m => f[k + 1] = g[k + 1])
        <5> HIDE DEF f
        <5> QED OBVIOUS
      <4> SUFFICES ASSUME (k + 1) + 1 <= m PROVE f[(k + 1) + 1] = g[(k + 1) + 1]
        BY <4>0
      <4>1. k \in Nat /\ k + 2 \in 1..m /\ k + 2 # 1 /\ (k + 2) - 1 = k + 1 /\ k + 1 \in 0 .. n - 1
            /\ (k + 1) + 1 = k + 2
        BY <4>0
      <4>2. f[k + 2] = f[k + 1] \o s[k + 2]
        <5> HIDE DEF f
        <5> QED BY <4>1, <2>4
      <4>3. f[k + 1] = g[k + 1]
        <5> HIDE DEF f
        <5> QED BY <4>0, <4>1
      <4>4. g[k + 2] = g[k + 1] \o s[k + 2]
        BY <4>1, <1>3
      <4> HIDE DEF f
      <4> QED BY <4>1, <4>2, <4>3, <4>4
    <3> HIDE DEF T
    <3> QED BY <3>1, <3>2, Induct DEF T
  <2>6. f[m] = g[m]
    <3>1. m - 1 \in Nat /\ (m - 1) + 1 = m
      OBVIOUS
    <3>2. m - 1 \in T
      BY <2>5, <3>1
    <3> HIDE DEF f
    <3> QED BY <3>1, <3>2
  <2>7. FlattenSeq(t) = f[Len(t)]
    <3> HIDE DEF t
    <3> QED BY <2>1 DEF FlattenSeq
  <2> HIDE DEF f
  <2> QED BY <2>1, <2>6, <2>7 DEF Flat
<1>5. Flat(s, 0) = <<>>
  <2>1. [i \in 1..0 |-> s[i]] = <<>>
    OBVIOUS
  <2> QED BY <2>1 DEF Flat, FlattenSeq
<1>6. \A k \in 0..n : Flat(s, k) = g[k]
  BY <1>4, <1>5, <1>2
<1>7. \A k \in 0 .. n - 1 : k \in 0..n /\ k + 1 \in 0..n
  OBVIOUS
<1>8. \A k \in 0..n : g[k] \in Seq(S)
  BY <1>2
<1> HIDE DEF V, next
<1> QED BY <1>3, <1>5, <1>6, <1>7, <1>8

---------------------------------------------------------------------------
(* Numbers in words: what is written in a word is read back. *)

(* Division leaves a remainder below the divisor. *)
LEMMA DivideIs ==
  ASSUME NEW x \in Nat, NEW k \in Nat \ {0}
  PROVE  /\ x \div k \in Nat /\ x % k \in 0 .. k - 1
         /\ x = k * (x \div k) + (x % k)
<1>1. x % k = x - k * (x \div k)
  OBVIOUS
<1>2. x \div k \in Nat /\ k * (x \div k) \in Nat /\ x % k \in 0 .. k - 1
  OBVIOUS
<1> QED BY <1>1, <1>2

(* A quotient is the only number that fits. *)
LEMMA OnlyQuotient ==
  ASSUME NEW k \in Nat \ {0}, NEW q \in Nat, NEW r \in Nat, NEW p \in Nat, NEW s \in Nat,
         k * q + r = k * p + s, r < k, s < k
  PROVE  q = p
<1>1. CASE q < p
  <2>1. p - q - 1 \in Nat
    BY <1>1
  <2>2. k * (p - q - 1) \in Nat /\ k * (p - q - 1) = k * p - k * q - k
    BY <2>1
  <2> QED BY <2>2
<1>2. CASE p < q
  <2>1. q - p - 1 \in Nat
    BY <1>2
  <2>2. k * (q - p - 1) \in Nat /\ k * (q - p - 1) = k * q - k * p - k
    BY <2>1
  <2> QED BY <2>2
<1> QED BY <1>1, <1>2

(* One digit more. *)
LEMMA Digit ==
  ASSUME NEW x \in Nat, NEW p \in Nat \ {0}, NEW q, q = Base * p
  PROVE  /\ x \div q \in Nat /\ x \div p \in Nat
         /\ x \div p = Base * (x \div q) + ((x \div p) % Base)
<1> DEFINE d == x \div p
           r == x % p
           e == d \div Base
           s == d % Base
           f == x \div q
           t == x % q
<1>1. Base \in Nat \ {0} /\ q \in Nat \ {0}
  BY AbiAssumption
<1>2. d \in Nat /\ r \in 0 .. p - 1 /\ x = p * d + r
  BY DivideIs
<1> HIDE DEF d, r
<1>3. e \in Nat /\ s \in 0 .. Base - 1 /\ d = Base * e + s
  BY <1>1, <1>2, DivideIs
<1>4. f \in Nat /\ t \in 0 .. q - 1 /\ x = q * f + t
  BY <1>1, DivideIs
<1> HIDE DEF e, s, f, t
<1> DEFINE u == p * s + r
<1>5. x = q * e + u
  <2>1. p * d = p * (Base * e) + p * s
    BY <1>1, <1>3
  <2>2. p * (Base * e) = q * e
    BY <1>1, <1>3
  <2> QED BY <2>1, <2>2, <1>1, <1>2, <1>3
<1>6. u \in Nat /\ u < q
  <2>1. p * s + p = p * (s + 1)
    BY <1>3
  <2>2. Base - (s + 1) \in Nat
    BY <1>1, <1>3
  <2>3. p * (Base - (s + 1)) \in Nat /\ p * (Base - (s + 1)) = p * Base - p * (s + 1)
    BY <2>2, <1>1, <1>3
  <2>4. p * s \in Nat /\ p * Base = q
    BY <1>1, <1>3
  <2> QED BY <2>1, <2>3, <2>4, <1>1, <1>2
<1> HIDE DEF u
<1>7. f = e
  BY <1>1, <1>3, <1>4, <1>5, <1>6, OnlyQuotient
<1>8. d = Base * f + (d % Base)
  BY <1>3, <1>7 DEF s
<1> QED BY <1>2, <1>4, <1>8 DEF d, f

(* A word is a string of digits in base Base, the most significant first. *)
LEMMA WordIs ==
  ASSUME NEW x \in Nat
  PROVE  /\ Word(x) \in Seq(Nat) /\ Len(Word(x)) = WordSize
         /\ \A i \in 1..WordSize : Word(x)[i] = (x \div Power[WordSize - i]) % Base
<1>1. WordSize \in Nat
  BY AbiAssumption
<1>2. ASSUME NEW i \in 1..WordSize PROVE (x \div Power[WordSize - i]) % Base \in Nat
  <2>1. WordSize - i \in Nat
    BY <1>1
  <2>2. Power[WordSize - i] \in Nat \ {0}
    BY <2>1, Powers
  <2>3. x \div Power[WordSize - i] \in Nat
    BY <2>2, DivideIs
  <2>4. Base \in Nat \ {0}
    BY AbiAssumption
  <2> QED BY <2>3, <2>4, DivideIs
<1> QED BY <1>1, <1>2 DEF Word

(* A run of zeros is that long. *)
LEMMA ZerosAre ==
  ASSUME NEW n \in Nat
  PROVE  /\ Zeros(n) \in Seq(Nat) /\ Len(Zeros(n)) = n
         /\ \A i \in 1..n : Zeros(n)[i] = 0
BY DEF Zeros

(* An address is the last byte of a word of zeros. *)
LEMMA AddressIs ==
  ASSUME NEW a \in Nat
  PROVE  /\ Address(a) \in Seq(Nat) /\ Len(Address(a)) = WordSize
         /\ \A i \in 1 .. WordSize - 1 : Address(a)[i] = 0
         /\ Address(a)[WordSize] = a
<1> DEFINE z == Zeros(WordSize - 1)
<1>1. WordSize \in Nat \ {0, 1} /\ WordSize - 1 \in Nat
  BY AbiAssumption
<1>2. /\ z \in Seq(Nat) /\ Len(z) = WordSize - 1
      /\ \A i \in 1 .. WordSize - 1 : z[i] = 0
  BY <1>1, ZerosAre
<1>3. <<a>> \in Seq(Nat) /\ Len(<<a>>) = 1 /\ <<a>>[1] = a
  OBVIOUS
<1> HIDE DEF z
<1>4. /\ z \o <<a>> \in Seq(Nat)
      /\ Len(z \o <<a>>) = Len(z) + 1
      /\ \A i \in 1 .. Len(z) + 1 :
           (z \o <<a>>)[i] = IF i <= Len(z) THEN z[i] ELSE <<a>>[i - Len(z)]
  BY <1>2, <1>3, ConcatProperties
<1>5. Address(a) = z \o <<a>>
  BY DEF Address, PackedAddress, z
<1>6. (z \o <<a>>)[WordSize] = a
  <2>1. WordSize \in 1 .. Len(z) + 1 /\ ~ (WordSize <= Len(z)) /\ WordSize - Len(z) = 1
    BY <1>1, <1>2
  <2> QED BY <2>1, <1>3, <1>4
<1> QED BY <1>1, <1>2, <1>4, <1>5, <1>6

(* A number is read digit by digit. *)
LEMMA Numbers ==
  ASSUME NEW w \in Seq(Nat)
  PROVE  \E g \in [Nat -> Nat] :
           /\ g[0] = 0
           /\ \A k \in 0 .. Len(w) - 1 : g[k + 1] = Base * g[k] + w[k + 1]
           /\ Number(w) = g[Len(w)]
<1> DEFINE n == Len(w)
           next == [x \in Nat \X Nat |-> IF x[1] + 1 \in 1..n THEN Base * x[2] + w[x[1] + 1] ELSE 0]
<1>0. n \in Nat /\ Base \in Nat /\ \A k \in 1..n : w[k] \in Nat
  BY AbiAssumption
<1> DEFINE V == Nat
<1>1. Within(next, V) /\ 0 \in V
  <2> HIDE DEF n
  <2> QED BY SMTT(30), <1>0 DEF Within
<1>2. PICK g \in [Nat -> Nat] : g[0] = 0 /\ \A k \in Nat : g[k + 1] = next[<<k, g[k]>>]
  <2>1. \E g \in [Nat -> V] : g[0] = 0 /\ \A k \in Nat : g[k + 1] = next[<<k, g[k]>>]
    <3> HIDE DEF next, V
    <3> QED BY <1>1, Recursion
  <2> HIDE DEF next
  <2> QED BY <2>1
<1> HIDE DEF n
<1>3. \A k \in 0 .. n - 1 : g[k + 1] = Base * g[k] + w[k + 1]
  <2> SUFFICES ASSUME NEW k \in 0 .. n - 1 PROVE g[k + 1] = Base * g[k] + w[k + 1]
    OBVIOUS
  <2>1. k \in Nat /\ k + 1 \in 1..n
    BY <1>0
  <2> QED BY <2>1, <1>2
<1> DEFINE Counts(u) == u = [k \in 0..n |-> IF k = 0 THEN 0 ELSE Base * u[k - 1] + w[k]]
           h == [k \in 0..n |-> g[k]]
           f == CHOOSE u : Counts(u)
<1>4. Counts(h)
  <2>1. ASSUME NEW k \in 0..n PROVE h[k] = IF k = 0 THEN 0 ELSE Base * h[k - 1] + w[k]
    <3>1. CASE k = 0
      BY <3>1, <1>2
    <3>2. CASE k # 0
      <4>1. k - 1 \in 0 .. n - 1 /\ (k - 1) + 1 = k /\ k - 1 \in 0..n
        BY <3>2, <1>0
      <4>2. g[k] = Base * g[k - 1] + w[k]
        BY <4>1, <1>3
      <4> QED BY <4>1, <4>2, <3>2
    <3> QED BY <3>1, <3>2
  <2>2. h = [k \in 0..n |-> h[k]]
    OBVIOUS
  <2> HIDE DEF h
  <2> QED BY <2>1, <2>2
<1>5. Counts(f)
  <2> HIDE DEF Counts, h
  <2> QED BY <1>4
<1> HIDE DEF f
<1> DEFINE T == {k \in Nat : k <= n => f[k] = g[k]}
<1>6. T = Nat
  <2>1. 0 \in T
    BY <1>0, <1>2, <1>5
  <2>2. ASSUME NEW k \in T PROVE k + 1 \in T
    <3> SUFFICES ASSUME k + 1 <= n PROVE f[k + 1] = g[k + 1]
      OBVIOUS
    <3>1. k \in 0 .. n - 1 /\ k + 1 \in 0..n /\ k + 1 # 0 /\ (k + 1) - 1 = k /\ f[k] = g[k]
      BY <1>0
    <3>2. f[k + 1] = Base * f[k] + w[k + 1]
      BY <3>1, <1>5
    <3> QED BY <3>1, <3>2, <1>3
  <2> HIDE DEF T
  <2> QED BY <2>1, <2>2, Induct DEF T
<1>7. Number(w) = f[n]
  BY DEF Number, f, n
<1>8. Number(w) = g[n]
  <2>1. n \in T
    <3> HIDE DEF T
    <3> QED BY <1>0, <1>6
  <2>2. n <= n
    BY <1>0
  <2>3. f[n] = g[n]
    BY <2>1, <2>2
  <2> QED BY <2>3, <1>7
<1> HIDE DEF next, T
<1> QED BY <1>2, <1>3, <1>8 DEF n

(* What is written is read. *)
LEMMA ReadsWord ==
  ASSUME NEW x, Fits(x)
  PROVE  x \in Nat /\ Number(Word(x)) = x
<1> DEFINE n == WordSize
           w == Word(x)
<1>1. n \in Nat \ {0} /\ Base \in Nat \ {0}
  BY AbiAssumption
<1>2. Power[n] \in Nat \ {0}
  BY <1>1, Powers
<1>3. x \in Nat /\ x < Power[n]
  BY <1>2 DEF Fits
<1>4. w \in Seq(Nat) /\ Len(w) = n /\ \A i \in 1..n : w[i] = (x \div Power[n - i]) % Base
  BY <1>3, WordIs
<1> HIDE DEF w
<1>5. PICK g \in [Nat -> Nat] : /\ g[0] = 0
                                /\ \A k \in 0 .. n - 1 : g[k + 1] = Base * g[k] + w[k + 1]
                                /\ Number(w) = g[n]
  BY <1>4, Numbers
<1> HIDE DEF n
<1> DEFINE T == {k \in Nat : k <= n => g[k] = x \div Power[n - k]}
<1>6. T = Nat
  <2>1. 0 \in T
    <3>1. x \div Power[n] = 0
      <4>1. DEFINE p == Power[n]
      <4>2. p \in Nat \ {0} /\ x < p
        BY <1>2, <1>3
      <4> HIDE DEF p
      <4>3. x \div p \in Nat /\ x % p \in 0 .. p - 1 /\ x = p * (x \div p) + (x % p)
        BY <4>2, <1>3, DivideIs
      <4>4. p * 0 + x = p * (x \div p) + (x % p)
        BY <4>2, <4>3, <1>3
      <4>5. x \div p = 0
        BY <4>2, <4>3, <4>4, <1>3, OnlyQuotient
      <4> QED BY <4>5 DEF p
    <3>2. n - 0 = n
      BY <1>1
    <3> QED BY <3>1, <3>2, <1>5
  <2>2. ASSUME NEW k \in T PROVE k + 1 \in T
    <3> SUFFICES ASSUME k + 1 <= n PROVE g[k + 1] = x \div Power[n - (k + 1)]
      OBVIOUS
    <3> DEFINE m == n - (k + 1)
               p == Power[m]
               q == Power[n - k]
    <3>1. m \in Nat /\ m + 1 = n - k /\ k \in 0 .. n - 1 /\ k + 1 \in 1..n /\ k <= n
      BY <1>1
    <3>2. p \in Nat \ {0} /\ q = Base * p
      BY <3>1, Powers
    <3>3. g[k] = x \div q
      BY <3>1
    <3>4. g[k + 1] = Base * g[k] + w[k + 1]
      BY <3>1, <1>5
    <3>5. w[k + 1] = (x \div p) % Base
      BY <3>1, <1>4
    <3> HIDE DEF p, q, T
    <3>6. x \div p = Base * (x \div q) + ((x \div p) % Base)
      BY <1>3, <3>2, Digit
    <3>7. g[k + 1] = x \div p
      BY <3>3, <3>4, <3>5, <3>6
    <3> QED BY <3>7 DEF p
  <2> HIDE DEF T
  <2> QED BY <2>1, <2>2, Induct DEF T
<1>7. g[n] = x \div Power[n - n]
  BY <1>1, <1>6
<1>8. n - n = 0 /\ Power[0] = 1 /\ x \div 1 = x
  BY <1>1, <1>3, Powers
<1> QED BY <1>3, <1>5, <1>7, <1>8 DEF w

(* An address that is written in a word is read back as the number. *)
LEMMA ReadsAddress ==
  ASSUME NEW a \in Nat
  PROVE  Number(Address(a)) = a
<1> DEFINE n == WordSize
           w == Address(a)
<1>1. n \in Nat \ {0} /\ Base \in Nat
  BY AbiAssumption
<1>2. w \in Seq(Nat) /\ Len(w) = n /\ w[n] = a /\ \A i \in 1 .. n - 1 : w[i] = 0
  BY AddressIs
<1> HIDE DEF w
<1>3. PICK g \in [Nat -> Nat] : /\ g[0] = 0
                                /\ \A k \in 0 .. n - 1 : g[k + 1] = Base * g[k] + w[k + 1]
                                /\ Number(w) = g[n]
  BY <1>2, Numbers
<1> HIDE DEF n
<1> DEFINE T == {k \in Nat : k < n => g[k] = 0}
<1>4. T = Nat
  <2>1. 0 \in T
    BY <1>3
  <2>2. ASSUME NEW k \in T PROVE k + 1 \in T
    <3> SUFFICES ASSUME k + 1 < n PROVE g[k + 1] = 0
      OBVIOUS
    <3>1. k \in 0 .. n - 1 /\ k + 1 \in 1 .. n - 1 /\ g[k] = 0
      BY <1>1
    <3>2. g[k + 1] = Base * g[k] + w[k + 1] /\ w[k + 1] = 0
      BY <3>1, <1>2, <1>3
    <3>3. Base * 0 + 0 = 0
      BY <1>1
    <3> QED BY <3>1, <3>2, <3>3
  <2> HIDE DEF T
  <2> QED BY <2>1, <2>2, Induct DEF T
<1>5. n - 1 \in Nat /\ n - 1 < n /\ n - 1 \in 0 .. n - 1 /\ (n - 1) + 1 = n
  BY <1>1
<1>6. g[n - 1] = 0
  BY <1>4, <1>5
<1>7. g[n] = Base * g[n - 1] + w[n]
  BY <1>3, <1>5
<1>8. Base * 0 + a = a
  BY <1>1
<1> QED BY <1>2, <1>3, <1>6, <1>7, <1>8 DEF w

---------------------------------------------------------------------------
(* Strings: what is held at an offset, and read there. *)

(* What is encoded; only an address may be a number above Base. *)
Bytes == Seq(Nat)

(* A string holds another from an offset on. *)
Holds(b, i, w) == \A k \in 1 .. Len(w) : i + k <= Len(b) /\ b[i + k] = w[k]

(* A string has a length, and numbers at its offsets. *)
LEMMA BytesAre ==
  /\ <<>> \in Bytes /\ Len(<<>>) = 0
  /\ \A b \in Bytes : Len(b) \in Nat /\ \A k \in 1 .. Len(b) : b[k] \in Nat
BY DEF Bytes

(* What two strings, one after the other, come to. *)
LEMMA Joined ==
  ASSUME NEW u \in Bytes, NEW v \in Bytes
  PROVE  /\ u \o v \in Bytes /\ Len(u \o v) = Len(u) + Len(v)
         /\ \A k \in 1 .. Len(u) : (u \o v)[k] = u[k]
         /\ \A k \in 1 .. Len(v) : (u \o v)[Len(u) + k] = v[k]
<1>1. Len(u) \in Nat /\ Len(v) \in Nat
  BY BytesAre
<1>2. /\ u \o v \in Bytes /\ Len(u \o v) = Len(u) + Len(v)
      /\ \A i \in 1 .. Len(u) + Len(v) :
           (u \o v)[i] = IF i <= Len(u) THEN u[i] ELSE v[i - Len(u)]
  BY ConcatProperties DEF Bytes
<1>3. ASSUME NEW k \in 1 .. Len(u) PROVE (u \o v)[k] = u[k]
  <2>1. k \in 1 .. Len(u) + Len(v) /\ k <= Len(u)
    BY <1>1
  <2> QED BY <2>1, <1>2
<1>4. ASSUME NEW k \in 1 .. Len(v) PROVE (u \o v)[Len(u) + k] = v[k]
  <2>1. /\ Len(u) + k \in 1 .. Len(u) + Len(v) /\ ~ (Len(u) + k <= Len(u))
        /\ (Len(u) + k) - Len(u) = k
    BY <1>1
  <2> QED BY <2>1, <1>2
<1> QED BY <1>2, <1>3, <1>4

(* Strings are equal that agree at every offset. *)
LEMMA SameBytes ==
  ASSUME NEW u \in Bytes, NEW v \in Bytes, Len(u) = Len(v),
         \A k \in 1 .. Len(u) : u[k] = v[k]
  PROVE  u = v
BY SeqEqual DEF Bytes

(* Nothing is added by the empty string. *)
LEMMA JoinedEmpty ==
  ASSUME NEW u \in Bytes
  PROVE  u \o <<>> = u /\ <<>> \o u = u
BY ConcatEmptySeq DEF Bytes

(* Three strings may be joined from either end. *)
LEMMA JoinedThrice ==
  ASSUME NEW u \in Bytes, NEW v \in Bytes, NEW w \in Bytes
  PROVE  (u \o v) \o w = u \o (v \o w)
BY SMTT(30), ConcatAssociative DEF Bytes

(* A string holds itself at its start. *)
LEMMA HoldsWhole ==
  ASSUME NEW b \in Bytes
  PROVE  Holds(b, 0, b)
BY BytesAre DEF Holds

(* What is held by a part is held by the whole, further on. *)
LEMMA HoldsWithin ==
  ASSUME NEW b \in Bytes, NEW w \in Bytes, NEW v \in Bytes, NEW i \in Nat, NEW j \in Nat,
         Holds(b, i, w), Holds(w, j, v)
  PROVE  Holds(b, i + j, v)
<1> SUFFICES ASSUME NEW k \in 1 .. Len(v)
    PROVE (i + j) + k <= Len(b) /\ b[(i + j) + k] = v[k]
  BY DEF Holds
<1>0. Len(v) \in Nat /\ Len(w) \in Nat /\ Len(b) \in Nat
  BY BytesAre
<1>1. j + k <= Len(w) /\ w[j + k] = v[k] /\ j + k \in 1 .. Len(w)
  BY <1>0 DEF Holds
<1>2. i + (j + k) <= Len(b) /\ b[i + (j + k)] = w[j + k]
  BY <1>1 DEF Holds
<1>3. i + (j + k) = (i + j) + k
  BY <1>0
<1> QED BY <1>1, <1>2, <1>3

(* Who holds two strings in a row holds each. *)
LEMMA HoldsParts ==
  ASSUME NEW b \in Bytes, NEW u \in Bytes, NEW v \in Bytes, NEW i \in Nat, Holds(b, i, u \o v)
  PROVE  Holds(b, i, u) /\ Holds(b, i + Len(u), v)
<1>1. Len(u) \in Nat /\ Len(v) \in Nat /\ u \o v \in Bytes
  BY BytesAre, Joined
<1>2. Holds(u \o v, 0, u)
  <2>1. ASSUME NEW k \in 1 .. Len(u) PROVE 0 + k <= Len(u \o v) /\ (u \o v)[0 + k] = u[k]
    <3>1. 0 + k = k
      BY <1>1
    <3> QED BY <3>1, <1>1, Joined
  <2> QED BY <2>1 DEF Holds
<1>3. Holds(u \o v, Len(u), v)
  <2>1. ASSUME NEW k \in 1 .. Len(v)
        PROVE Len(u) + k <= Len(u \o v) /\ (u \o v)[Len(u) + k] = v[k]
    BY <1>1, Joined
  <2> QED BY <2>1 DEF Holds
<1>4. Holds(b, i + 0, u) /\ i + 0 = i
  BY <1>1, <1>2, HoldsWithin
<1> QED BY <1>1, <1>3, <1>4, HoldsWithin

(* What is held at an offset is what a contract reads there. *)
LEMMA HoldsAt ==
  ASSUME NEW b \in Bytes, NEW w \in Bytes, NEW i \in Nat, Holds(b, i, w)
  PROVE  At(b, i, Len(w)) = w
<1>1. Len(w) \in Nat /\ Len(b) \in Nat
  BY BytesAre
<1>2. \A k \in 1 .. Len(w) : (IF i + k <= Len(b) THEN b[i + k] ELSE 0) = w[k]
  BY DEF Holds
<1>3. At(b, i, Len(w)) = [k \in 1 .. Len(w) |-> w[k]]
  BY <1>2 DEF At
<1>4. w = [k \in 1 .. Len(w) |-> w[k]]
  BY DEF Bytes
<1> QED BY <1>3, <1>4

(* A word is as long as a word. *)
LEMMA WordBytes ==
  ASSUME NEW x \in Nat
  PROVE  Word(x) \in Bytes /\ Len(Word(x)) = WordSize
BY WordIs DEF Bytes

(* So is an address. *)
LEMMA AddressBytes ==
  ASSUME NEW a \in Nat
  PROVE  Address(a) \in Bytes /\ Len(Address(a)) = WordSize
BY AddressIs DEF Bytes

(* Zeros are bytes. *)
LEMMA ZerosBytes ==
  ASSUME NEW n \in Nat
  PROVE  Zeros(n) \in Bytes /\ Len(Zeros(n)) = n
BY ZerosAre DEF Bytes

(* What a contract reads where a number, an address or a string is held. *)
LEMMA HoldsWord ==
  ASSUME NEW b \in Bytes, NEW i \in Nat, NEW x, Fits(x), Holds(b, i, Word(x))
  PROVE  x \in Nat /\ WordAt(b, i) = x
<1>1. x \in Nat /\ Number(Word(x)) = x
  BY ReadsWord
<1>2. Word(x) \in Bytes /\ Len(Word(x)) = WordSize
  BY <1>1, WordBytes
<1>3. At(b, i, WordSize) = Word(x)
  BY <1>2, HoldsAt
<1> QED BY <1>1, <1>3 DEF WordAt

(* An address that is held is read. *)
LEMMA HoldsAddress ==
  ASSUME NEW b \in Bytes, NEW i \in Nat, NEW a \in Nat, Holds(b, i, Address(a))
  PROVE  WordAt(b, i) = a
<1>1. Number(Address(a)) = a
  BY ReadsAddress
<1>2. Address(a) \in Bytes /\ Len(Address(a)) = WordSize
  BY AddressBytes
<1>3. At(b, i, WordSize) = Address(a)
  BY <1>2, HoldsAt
<1> QED BY <1>1, <1>3 DEF WordAt

(* A string that is held behind its length is read. *)
LEMMA HoldsString ==
  ASSUME NEW b \in Bytes, NEW i \in Nat, NEW p \in Bytes, Fits(Len(p)),
         Holds(b, i, Word(Len(p)) \o p)
  PROVE  BytesAt(b, i) = p
<1>1. Len(p) \in Nat /\ WordSize \in Nat
  BY BytesAre, AbiAssumption
<1>2. Word(Len(p)) \in Bytes /\ Len(Word(Len(p))) = WordSize
  BY <1>1, WordBytes
<1>3. Holds(b, i, Word(Len(p))) /\ Holds(b, i + WordSize, p)
  BY <1>2, HoldsParts
<1>4. WordAt(b, i) = Len(p)
  BY <1>3, HoldsWord
<1>5. At(b, i + WordSize, Len(p)) = p
  BY <1>1, <1>3, HoldsAt
<1> QED BY <1>4, <1>5 DEF BytesAt

(* Strings in a row are a string. *)
LEMMA FlatBytes ==
  ASSUME NEW s, NEW n \in Nat, \A i \in 1..n : s[i] \in Bytes
  PROVE  /\ Flat(s, 0) = <<>>
         /\ \A k \in 0..n : Flat(s, k) \in Bytes
         /\ \A k \in 0 .. n - 1 : Flat(s, k + 1) = Flat(s, k) \o s[k + 1]
<1>1. \A i \in 1..n : s[i] \in Seq(Nat)
  BY DEF Bytes
<1>2. /\ Flat(s, 0) = <<>>
      /\ \A k \in 0..n : Flat(s, k) \in Seq(Nat)
      /\ \A k \in 0 .. n - 1 : Flat(s, k + 1) = Flat(s, k) \o s[k + 1]
  BY <1>1, FlatStep
<1> QED BY <1>2 DEF Bytes

(* A part is held after the parts before it. *)
LEMMA FlatHolds ==
  ASSUME NEW s, NEW n \in Nat, \A i \in 1..n : s[i] \in Bytes, NEW i \in 1..n
  PROVE  /\ Holds(Flat(s, n), Len(Flat(s, i - 1)), s[i])
         /\ Len(Flat(s, i - 1)) + Len(s[i]) <= Len(Flat(s, n))
         /\ Len(Flat(s, i - 1)) \in Nat
<1> DEFINE In(m, j) == /\ Holds(Flat(s, m), Len(Flat(s, j - 1)), s[j])
                       /\ Len(Flat(s, j - 1)) + Len(s[j]) <= Len(Flat(s, m))
           T == {m \in Nat : m <= n => \A j \in 1..m : In(m, j)}
<1>1. T = Nat
  <2>1. 0 \in T
    <3> HIDE DEF In
    <3> QED OBVIOUS
  <2>2. ASSUME NEW m \in T PROVE m + 1 \in T
    <3> SUFFICES ASSUME m + 1 <= n, NEW j \in 1 .. m + 1 PROVE In(m + 1, j)
      <4> HIDE DEF In
      <4> QED OBVIOUS
    <3>1. m \in 0 .. n - 1 /\ m \in 0..n /\ m + 1 \in 1..n /\ j \in 1..n /\ j - 1 \in 0..n
      OBVIOUS
    <3> DEFINE u == Flat(s, m)
               v == s[m + 1]
               w == Flat(s, m + 1)
               o == Len(Flat(s, j - 1))
    <3>2. w = u \o v /\ u \in Bytes /\ v \in Bytes /\ Flat(s, j - 1) \in Bytes
      BY <3>1, FlatBytes
    <3>3. o \in Nat /\ s[j] \in Bytes
      BY <3>1, <3>2, BytesAre
    <3>4. w \in Bytes /\ Len(w) = Len(u) + Len(v) /\ Len(u) \in Nat /\ Len(v) \in Nat
      <4> HIDE DEF u, v, w
      <4> QED BY <3>2, Joined, BytesAre
    <3>5. Holds(w, 0, u) /\ Holds(w, Len(u), v)
      <4>1. Holds(w, 0, u \o v)
        BY <3>2, <3>4, HoldsWhole
      <4>2. 0 + Len(u) = Len(u)
        BY <3>4
      <4> HIDE DEF w, u, v
      <4> QED BY <4>1, <4>2, <3>2, <3>4, HoldsParts
    <3>6. CASE j = m + 1
      <4>1. j - 1 = m
        BY <3>6
      <4> QED BY <4>1, <3>4, <3>5, <3>6
    <3>7. CASE j # m + 1
      <4>1. Holds(u, o, s[j]) /\ o + Len(s[j]) <= Len(u)
        <5>1. j \in 1..m /\ m <= n
          BY <3>7
        <5>2. In(m, j)
          <6> HIDE DEF In
          <6> QED BY <5>1
        <5> QED BY <5>2
      <4>2. Holds(w, 0 + o, s[j])
        <5> HIDE DEF w, u, o
        <5> QED BY <4>1, <3>2, <3>3, <3>4, <3>5, HoldsWithin
      <4>3. 0 + o = o /\ Len(s[j]) \in Nat
        BY <3>3, BytesAre
      <4>4. o + Len(s[j]) <= Len(w)
        <5> HIDE DEF w, u, v, o
        <5> QED BY <3>3, <3>4, <4>1, <4>3
      <4> QED BY <4>2, <4>3, <4>4
    <3> QED BY <3>6, <3>7
  <2> HIDE DEF T
  <2> QED BY <2>1, <2>2, Induct DEF T
<1>2. In(n, i)
  <2> HIDE DEF In
  <2> QED BY <1>1
<1>3. i - 1 \in 0..n
  OBVIOUS
<1>4. Len(Flat(s, i - 1)) \in Nat
  BY <1>3, FlatBytes, BytesAre
<1> QED BY <1>2, <1>4

(* The first n parts are w long each. *)
Uniform(s, n, w) == \A i \in 1..n : s[i] \in Bytes /\ Len(s[i]) = w

(* Parts of one length come to a multiple of it. *)
LEMMA FlatUniform ==
  ASSUME NEW n \in Nat, NEW w \in Nat, NEW s, Uniform(s, n, w)
  PROVE  \A k \in 0..n : Len(Flat(s, k)) = k * w
<1>0. \A i \in 1..n : s[i] \in Bytes /\ Len(s[i]) = w
  BY DEF Uniform
<1> DEFINE T == {m \in Nat : m <= n => Len(Flat(s, m)) = m * w}
<1>1. T = Nat
  <2>1. 0 \in T
    <3>1. Flat(s, 0) = <<>>
      BY <1>0, FlatBytes
    <3> QED BY <3>1, BytesAre
  <2>2. ASSUME NEW m \in T PROVE m + 1 \in T
    <3> SUFFICES ASSUME m + 1 <= n PROVE Len(Flat(s, m + 1)) = (m + 1) * w
      OBVIOUS
    <3>1. m \in 0 .. n - 1 /\ m \in 0..n /\ m + 1 \in 1..n
      OBVIOUS
    <3>2. Flat(s, m + 1) = Flat(s, m) \o s[m + 1] /\ Flat(s, m) \in Bytes /\ s[m + 1] \in Bytes
      BY <3>1, <1>0, FlatBytes
    <3>3. Len(Flat(s, m + 1)) = Len(Flat(s, m)) + Len(s[m + 1])
      BY <3>2, Joined
    <3>4. Len(Flat(s, m)) = m * w /\ Len(s[m + 1]) = w
      BY <3>1, <1>0
    <3> QED BY <3>3, <3>4
  <2> HIDE DEF T
  <2> QED BY <2>1, <2>2, Induct DEF T
<1> HIDE DEF T
<1>2. \A k \in 0..n : k \in T /\ k <= n
  BY <1>1
<1> QED BY <1>2 DEF T

---------------------------------------------------------------------------
(* The general encoder: where it writes each argument. *)

(* Arguments of one word each in the head. *)
Arguments(args, n) ==
  /\ args = [i \in 1..n |-> args[i]]
  /\ \A i \in 1..n :
       /\ args[i].tail \in Bytes
       /\ ~ args[i].dynamic => args[i].head \in Bytes /\ Len(args[i].head) = WordSize

(* What Assemble makes of arguments, its parts named: the tails, the       *)
(* offset at which each starts, and the slots of the head.                 *)
TailOf(args, i) == args[i].tail
Tails(args, n) == [i \in 1..n |-> TailOf(args, i)]
OffsetOf(args, n, i) == n * WordSize + Len(Flat(Tails(args, n), i - 1))
SlotOf(args, n, i) ==
  IF args[i].dynamic THEN Word(OffsetOf(args, n, i)) ELSE args[i].head
Slots(args, n) == [i \in 1..n |-> SlotOf(args, n, i)]

(* The slots of the head are words. *)
LEMMA ArgumentsAre ==
  ASSUME NEW n \in Nat, NEW args, Arguments(args, n)
  PROVE  /\ Len(args) = n /\ DOMAIN args = 1..n
         /\ \A i \in 1..n : Tails(args, n)[i] \in Bytes /\ OffsetOf(args, n, i) \in Nat
         /\ \A i \in 1..n : Slots(args, n)[i] \in Bytes /\ Len(Slots(args, n)[i]) = WordSize
<1>1. Len(args) = n /\ DOMAIN args = 1..n
  <2>1. args = [i \in 1..n |-> args[i]]
    BY DEF Arguments
  <2> DEFINE a == [i \in 1..n |-> args[i]]
  <2>2. Len(a) = n /\ DOMAIN a = 1..n
    OBVIOUS
  <2> HIDE DEF a
  <2> QED BY <2>1, <2>2 DEF a
<1>2. \A i \in 1..n : Tails(args, n)[i] \in Bytes
  BY DEF Tails, TailOf, Arguments
<1>3. ASSUME NEW i \in 1..n PROVE OffsetOf(args, n, i) \in Nat
  <2>1. Len(Flat(Tails(args, n), i - 1)) \in Nat
    BY <1>2, FlatHolds
  <2>2. n * WordSize \in Nat
    BY AbiAssumption
  <2> QED BY <2>1, <2>2 DEF OffsetOf
<1>4. \A i \in 1..n : Slots(args, n)[i] \in Bytes /\ Len(Slots(args, n)[i]) = WordSize
  <2> SUFFICES ASSUME NEW i \in 1..n
      PROVE SlotOf(args, n, i) \in Bytes /\ Len(SlotOf(args, n, i)) = WordSize
    BY DEF Slots
  <2>1. Word(OffsetOf(args, n, i)) \in Bytes /\ Len(Word(OffsetOf(args, n, i))) = WordSize
    BY <1>3, WordBytes
  <2> QED BY <2>1 DEF SlotOf, Arguments
<1> QED BY <1>1, <1>2, <1>3, <1>4

(* The head has one word for each argument. *)
LEMMA Heads ==
  ASSUME NEW n \in Nat, NEW args, Arguments(args, n)
  PROVE  HeadSize(args) = n * WordSize
<1> DEFINE z == [i \in 1..n |-> IF args[i].dynamic THEN Zeros(WordSize) ELSE args[i].head]
<1>1. WordSize \in Nat
  BY AbiAssumption
<1>2. Uniform(z, n, WordSize)
  BY <1>1, ZerosBytes DEF Arguments, Uniform
<1>3. DOMAIN args = 1..n
  BY ArgumentsAre
<1>4. z = [i \in 1..n |-> z[i]]
  OBVIOUS
<1>5. HeadSize(args) = Len(FlattenSeq(z))
  BY <1>3 DEF HeadSize
<1> HIDE DEF z
<1>6. FlattenSeq(z) = Flat(z, n)
  BY <1>4 DEF Flat
<1>7. n \in 0..n
  OBVIOUS
<1>8. Len(Flat(z, n)) = n * WordSize
  BY <1>1, <1>2, <1>7, FlatUniform
<1> QED BY <1>5, <1>6, <1>8

(* Assemble writes the slots, then the tails. *)
LEMMA Assembled ==
  ASSUME NEW n \in Nat, NEW args, Arguments(args, n)
  PROVE  Assemble(args) = Flat(Slots(args, n), n) \o Flat(Tails(args, n), n)
<1> DEFINE tail(k) == FlattenSeq([i \in 1..k |-> args[i].tail])
           slot(i) == IF args[i].dynamic THEN Word(HeadSize(args) + Len(tail(i - 1)))
                      ELSE args[i].head
<1>1. Len(args) = n /\ DOMAIN args = 1..n
  BY ArgumentsAre
<1>2. ASSUME NEW k \in 0..n PROVE tail(k) = Flat(Tails(args, n), k)
  <2>1. \A i \in 1..k : i \in 1..n
    OBVIOUS
  <2>2. [i \in 1..k |-> args[i].tail] = [i \in 1..k |-> Tails(args, n)[i]]
    BY <2>1 DEF Tails, TailOf
  <2> QED BY <2>2 DEF Flat
<1>3. ASSUME NEW i \in 1..n PROVE slot(i) = Slots(args, n)[i]
  <2>1. i - 1 \in 0..n
    OBVIOUS
  <2>2. tail(i - 1) = Flat(Tails(args, n), i - 1)
    BY <2>1, <1>2
  <2>3. HeadSize(args) = n * WordSize
    BY Heads
  <2> HIDE DEF tail
  <2> QED BY <2>2, <2>3 DEF Slots, SlotOf, OffsetOf
<1>4. [i \in DOMAIN args |-> slot(i)] = [i \in 1..n |-> Slots(args, n)[i]]
  <2> HIDE DEF slot
  <2> QED BY <1>1, <1>3
<1>5. FlattenSeq([i \in DOMAIN args |-> slot(i)]) = Flat(Slots(args, n), n)
  <2> HIDE DEF slot
  <2> QED BY <1>4 DEF Flat
<1>6. tail(Len(args)) = Flat(Tails(args, n), n)
  BY <1>1, <1>2
<1>7. Assemble(args) = FlattenSeq([i \in DOMAIN args |-> slot(i)]) \o tail(Len(args))
  BY DEF Assemble
<1> QED BY <1>5, <1>6, <1>7

(* Where the arguments of a list are found. *)
LEMMA Laid ==
  ASSUME NEW n \in Nat, NEW args, Arguments(args, n),
         NEW i \in 1..n, NEW at \in Nat, at = (i - 1) * WordSize,
         NEW b, b = Assemble(args)
  PROVE  /\ b \in Bytes
         /\ ~ args[i].dynamic => Holds(b, at, args[i].head)
         /\ args[i].dynamic =>
              \E o \in Nat : /\ Holds(b, at, Word(o)) /\ Holds(b, o, args[i].tail)
                             /\ o + Len(args[i].tail) <= Len(b)
<1> DEFINE s == Slots(args, n)
           t == Tails(args, n)
           u == Flat(s, n)
           v == Flat(t, n)
           size == n * WordSize
<1>1. WordSize \in Nat
  BY AbiAssumption
<1>2. /\ \A k \in 1..n : t[k] \in Bytes /\ OffsetOf(args, n, k) \in Nat
      /\ \A k \in 1..n : s[k] \in Bytes /\ Len(s[k]) = WordSize
  BY ArgumentsAre
<1>u. Uniform(s, n, WordSize)
  BY <1>2 DEF Uniform
<1>3. s[i] = SlotOf(args, n, i) /\ t[i] = args[i].tail
  BY DEF Slots, Tails, TailOf
<1>4. OffsetOf(args, n, i) = size + Len(Flat(t, i - 1))
  BY DEF OffsetOf
<1> HIDE DEF s, t
<1>5. u \in Bytes /\ v \in Bytes /\ b = u \o v
  <2>1. n \in 0..n
    OBVIOUS
  <2>2. u \in Bytes /\ v \in Bytes
    BY <1>2, <2>1, FlatBytes
  <2> QED BY <2>2, Assembled DEF s, t
<1>6. size \in Nat /\ Len(u) = size
  <2>1. n \in 0..n /\ size \in Nat
    BY <1>1
  <2> QED BY <2>1, <1>1, <1>u, FlatUniform
<1>7. Len(Flat(s, i - 1)) = at
  <2>1. i - 1 \in 0..n
    OBVIOUS
  <2> QED BY <2>1, <1>1, <1>u, FlatUniform
<1>8. Holds(u, at, s[i])
  BY <1>2, <1>7, FlatHolds
<1>9. /\ Holds(v, Len(Flat(t, i - 1)), t[i]) /\ Len(Flat(t, i - 1)) \in Nat
      /\ Len(Flat(t, i - 1)) + Len(t[i]) <= Len(v)
  BY <1>2, FlatHolds
<1> DEFINE p == Len(Flat(t, i - 1))
<1> HIDE DEF u, v, size, p
<1>10. b \in Bytes /\ Len(b) = Len(u) + Len(v) /\ Holds(b, 0, u) /\ Holds(b, Len(u), v)
  <2>1. b \in Bytes /\ Len(b) = Len(u) + Len(v)
    BY <1>5, Joined
  <2>2. Holds(b, 0, u \o v)
    BY <2>1, <1>5, HoldsWhole
  <2>3. 0 + Len(u) = Len(u)
    BY <1>6
  <2> QED BY <2>1, <2>2, <2>3, <1>5, HoldsParts
<1>11. s[i] \in Bytes /\ t[i] \in Bytes
  BY <1>2
<1>12. Holds(b, at, s[i])
  <2>1. 0 + at = at
    OBVIOUS
  <2> QED BY <2>1, <1>5, <1>8, <1>10, <1>11, HoldsWithin
<1>13. Holds(b, size + p, t[i]) /\ size + p \in Nat
  <2>1. Holds(v, p, t[i]) /\ p \in Nat
    BY <1>9 DEF p
  <2> QED BY <2>1, <1>5, <1>6, <1>10, <1>11, HoldsWithin
<1>14. (size + p) + Len(t[i]) <= Len(b)
  <2>1. p + Len(t[i]) <= Len(v) /\ p \in Nat
    BY <1>9 DEF p
  <2>2. Len(t[i]) \in Nat /\ Len(v) \in Nat
    BY <1>5, <1>11, BytesAre
  <2>3. Len(b) = Len(u) + Len(v) /\ Len(u) = size /\ size \in Nat
    BY <1>6, <1>10
  <2> DEFINE lt == Len(t[i])
             lu == Len(u)
             lv == Len(v)
             lb == Len(b)
  <2>4. p + lt <= lv /\ p \in Nat /\ lt \in Nat /\ lv \in Nat /\ lb = lu + lv /\ lu = size /\ size \in Nat
    BY <2>1, <2>2, <2>3
  <2> HIDE DEF lt, lu, lv, lb
  <2>5. (size + p) + lt <= lb
    BY <2>4
  <2> QED BY <2>5 DEF lt, lb
<1>15. args[i].dynamic => s[i] = Word(size + p)
  BY <1>3, <1>4 DEF SlotOf, p
<1>16. ~ args[i].dynamic => s[i] = args[i].head
  BY <1>3 DEF SlotOf
<1> QED BY <1>3, <1>10, <1>12, <1>13, <1>14, <1>15, <1>16

(* A list is not longer than its encoding. *)
LEMMA Counted ==
  ASSUME NEW n \in Nat, NEW args, Arguments(args, n)
  PROVE  Assemble(args) \in Bytes /\ n <= Len(Assemble(args)) /\ Len(Assemble(args)) \in Nat
<1> DEFINE u == Flat(Slots(args, n), n)
           v == Flat(Tails(args, n), n)
<1>1. WordSize \in Nat \ {0}
  BY AbiAssumption
<1>2. Uniform(Slots(args, n), n, WordSize) /\ n \in 0..n
  BY ArgumentsAre DEF Uniform
<1>3. Len(u) = n * WordSize
  BY <1>1, <1>2, FlatUniform
<1>4. u \in Bytes /\ v \in Bytes
  BY <1>2, ArgumentsAre, FlatBytes
<1>5. Assemble(args) = u \o v
  BY Assembled
<1> HIDE DEF u, v
<1>6. u \o v \in Bytes /\ Len(u \o v) = Len(u) + Len(v) /\ Len(v) \in Nat
  BY <1>4, Joined, BytesAre
<1>7. n <= n * WordSize /\ n * WordSize \in Nat
  <2>1. WordSize - 1 \in Nat
    BY <1>1
  <2>2. n * (WordSize - 1) \in Nat /\ n * WordSize = n * (WordSize - 1) + n
    BY <2>1, <1>1
  <2> QED BY <2>2
<1>8. n <= Len(u \o v) /\ Len(u \o v) \in Nat
  BY <1>3, <1>6, <1>7
<1> QED BY <1>5, <1>6, <1>8

(* Padding is made of bytes. *)
LEMMA PaddingBytes ==
  ASSUME NEW b \in Bytes
  PROVE  Padding(b) \in Bytes
<1>1. Len(b) \in Nat /\ WordSize \in Nat \ {0}
  BY BytesAre, AbiAssumption
<1>2. Len(b) % WordSize \in 0 .. WordSize - 1
  BY <1>1, DivideIs
<1>3. WordSize - (Len(b) % WordSize) \in Nat
  BY <1>1, <1>2
<1> QED BY <1>3, ZerosBytes, BytesAre DEF Padding

(* A byte string is written behind its length, and padded. *)
LEMMA StringBytes ==
  ASSUME NEW b \in Bytes
  PROVE  /\ ByteString(b).tail \in Bytes
         /\ Holds(ByteString(b).tail, 0, Word(Len(b)) \o b)
         /\ Word(Len(b)) \o b \in Bytes
         /\ Len(b) <= Len(ByteString(b).tail)
         /\ ByteString(b).tail = (Word(Len(b)) \o b) \o Padding(b)
<1> DEFINE u == Word(Len(b)) \o b
           v == Padding(b)
           w == ByteString(b).tail
<1>1. Len(b) \in Nat /\ WordSize \in Nat
  BY BytesAre, AbiAssumption
<1>2. u \in Bytes /\ Len(u) = WordSize + Len(b)
  <2>1. Word(Len(b)) \in Bytes /\ Len(Word(Len(b))) = WordSize
    BY <1>1, WordBytes
  <2> QED BY <2>1, Joined
<1>3. v \in Bytes /\ Len(v) \in Nat
  BY PaddingBytes, BytesAre
<1>4. w = u \o v
  BY DEF ByteString
<1> HIDE DEF u, v, w
<1>5. w \in Bytes /\ Len(w) = Len(u) + Len(v)
  BY <1>2, <1>3, <1>4, Joined
<1>6. Holds(w, 0, u)
  BY <1>2, <1>3, <1>4, <1>5, HoldsWhole, HoldsParts
<1>7. Len(b) <= Len(w)
  BY <1>1, <1>2, <1>3, <1>5
<1> QED BY <1>2, <1>4, <1>5, <1>6, <1>7 DEF u, v, w

(* A list of arguments of one word each in the head is one itself. *)
LEMMA ListBytes ==
  ASSUME NEW n \in Nat, NEW args, Arguments(args, n)
  PROVE  /\ List(args).tail = Word(n) \o Assemble(args)
         /\ Word(n) \in Bytes /\ Assemble(args) \in Bytes /\ List(args).tail \in Bytes
         /\ Len(List(args).tail) = WordSize + Len(Assemble(args))
<1>1. Len(args) = n
  BY ArgumentsAre
<1>2. List(args).tail = Word(n) \o Assemble(args)
  BY <1>1 DEF List
<1>3. /\ \A i \in 1..n : Slots(args, n)[i] \in Bytes
      /\ \A i \in 1..n : Tails(args, n)[i] \in Bytes
  BY ArgumentsAre
<1>4. Flat(Slots(args, n), n) \in Bytes /\ Flat(Tails(args, n), n) \in Bytes
  <2>1. n \in 0..n
    OBVIOUS
  <2> QED BY <1>3, <2>1, FlatBytes
<1>5. Assemble(args) \in Bytes
  BY <1>4, Assembled, Joined
<1>6. Word(n) \in Bytes /\ Len(Word(n)) = WordSize
  BY WordBytes
<1> QED BY <1>2, <1>5, <1>6, Joined

(* An array of numbers is read where it is held. *)
LEMMA ReadsNumbers ==
  ASSUME NEW v \in Bytes
  PROVE  /\ UintArray(v).tail \in Bytes /\ Len(v) <= Len(UintArray(v).tail)
         /\ \A b \in Bytes, i \in Nat :
              /\ Fits(Len(v)) /\ \A k \in 1 .. Len(v) : Fits(v[k])
              /\ Holds(b, i, UintArray(v).tail)
              => WordsAt(b, i) = v
<1> DEFINE n == Len(v)
           args == [k \in 1..n |-> Word32(Word(v[k]))]
           a == Assemble(args)
<1>1. n \in Nat /\ WordSize \in Nat \ {0} /\ \A k \in 1..n : v[k] \in Nat
  BY BytesAre, AbiAssumption
<1>2. DOMAIN v = 1..n
  BY DEF Bytes
<1>3. UintArray(v) = List(args)
  BY <1>2 DEF UintArray
<1>4. \A k \in 1..n : args[k].head = Word(v[k]) /\ args[k].tail = <<>> /\ args[k].dynamic = FALSE
  BY DEF Word32
<1>5. args = [k \in 1..n |-> args[k]]
  OBVIOUS
<1> HIDE DEF args, n
<1>6. Arguments(args, n)
  <2>1. ASSUME NEW k \in 1..n
        PROVE args[k].tail \in Bytes /\ args[k].head \in Bytes /\ Len(args[k].head) = WordSize
    BY <1>1, <1>4, BytesAre, WordBytes
  <2> QED BY <1>5, <2>1 DEF Arguments
<1>7. /\ List(args).tail = Word(n) \o a
      /\ Word(n) \in Bytes /\ a \in Bytes /\ List(args).tail \in Bytes
      /\ Len(List(args).tail) = WordSize + Len(a)
  BY <1>1, <1>6, ListBytes
<1>8. n <= Len(a)
  BY <1>1, <1>6, Counted
<1>9. ASSUME NEW b \in Bytes, NEW i \in Nat, Fits(n), \A k \in 1..n : Fits(v[k]),
             Holds(b, i, UintArray(v).tail)
      PROVE  WordsAt(b, i) = v
  <2>1. Holds(b, i, Word(n)) /\ Holds(b, i + WordSize, a)
    <3>1. Len(Word(n)) = WordSize
      BY <1>1, WordBytes
    <3>2. Holds(b, i, Word(n) \o a)
      BY <1>3, <1>7, <1>9
    <3> HIDE DEF a
    <3> QED BY <3>1, <3>2, <1>7, HoldsParts
  <2>2. WordAt(b, i) = n
    BY <1>9, <2>1, HoldsWord
  <2>3. ASSUME NEW k \in 1..n PROVE WordAt(b, i + k * WordSize) = v[k]
    <3> DEFINE at == (k - 1) * WordSize
    <3>1. at \in Nat /\ (i + WordSize) + at = i + k * WordSize
          /\ i + WordSize \in Nat /\ i + k * WordSize \in Nat
      <4>1. k - 1 \in Nat
        BY <1>1
      <4> QED BY <4>1, <1>1
    <3>2. Holds(a, at, Word(v[k]))
      <4>1. ~ args[k].dynamic => Holds(a, at, args[k].head)
        BY <1>1, <1>6, <3>1, Laid
      <4> QED BY <4>1, <1>4
    <3> HIDE DEF a, at
    <3>3. Word(v[k]) \in Bytes
      BY <1>1, WordBytes
    <3>4. Holds(b, i + k * WordSize, Word(v[k]))
      BY <2>1, <3>1, <3>2, <3>3, <1>7, HoldsWithin
    <3>5. Fits(v[k])
      BY <1>9
    <3> QED BY <3>1, <3>4, <3>5, HoldsWord
  <2>4. WordsAt(b, i) = [k \in 1..n |-> v[k]]
    BY <2>2, <2>3 DEF WordsAt
  <2>5. v = [k \in 1..n |-> v[k]]
    BY DEF Bytes, n
  <2> QED BY <2>4, <2>5
<1>10. n <= Len(UintArray(v).tail)
  <2>1. Len(a) \in Nat
    BY <1>7, BytesAre
  <2> QED BY <2>1, <1>1, <1>3, <1>7, <1>8
<1> QED BY <1>3, <1>7, <1>9, <1>10 DEF n

---------------------------------------------------------------------------
(* The encoders written out by hand agree with it. *)

(* A list with one member that goes into the tail. *)
LEMMA Alone ==
  ASSUME NEW x, x.dynamic = TRUE, x.tail \in Bytes
  PROVE  /\ Arguments(<<x>>, 1)
         /\ Assemble(<<x>>) = Word(WordSize) \o x.tail
<1> DEFINE args == <<x>>
           s == Slots(args, 1)
           t == Tails(args, 1)
<1>1. args = [i \in 1..1 |-> args[i]] /\ args[1] = x /\ 1 \in 1..1 /\ 1 \in Nat
  OBVIOUS
<1> HIDE DEF args
<1>2. Arguments(args, 1)
  <2>1. \A i \in 1..1 : args[i] = x
    BY <1>1
  <2> QED BY <1>1, <2>1 DEF Arguments
<1>3. /\ \A i \in 1..1 : t[i] \in Bytes
      /\ \A i \in 1..1 : s[i] \in Bytes
  BY <1>1, <1>2, ArgumentsAre
<1>4. t[1] = x.tail /\ s[1] = Word(OffsetOf(args, 1, 1))
  BY <1>1 DEF Tails, TailOf, Slots, SlotOf
<1>5. OffsetOf(args, 1, 1) = WordSize
  <2>1. Flat(t, 0) = <<>>
    BY <1>1, <1>3, FlatBytes
  <2>2. 1 * WordSize + 0 = WordSize /\ 1 - 1 = 0
    BY AbiAssumption
  <2> HIDE DEF t
  <2> QED BY <2>1, <2>2, BytesAre DEF OffsetOf, t
<1> HIDE DEF s, t
<1>6. ASSUME NEW u, \A i \in 1..1 : u[i] \in Bytes PROVE Flat(u, 1) = u[1]
  <2>1. 0 \in 0 .. 1 - 1 /\ 0 + 1 = 1
    OBVIOUS
  <2>2. Flat(u, 0) = <<>> /\ Flat(u, 0 + 1) = Flat(u, 0) \o u[0 + 1]
    BY <1>1, <1>6, <2>1, FlatBytes
  <2>3. u[1] \in Bytes
    BY <1>6
  <2> QED BY <2>1, <2>2, <2>3, JoinedEmpty
<1>7. Assemble(args) = Flat(s, 1) \o Flat(t, 1)
  BY <1>1, <1>2, Assembled DEF s, t
<1> QED BY <1>2, <1>3, <1>4, <1>5, <1>6, <1>7 DEF args

(* Four strings in a row. *)
LEMMA FourParts ==
  ASSUME NEW s, \A i \in 1..4 : s[i] \in Bytes
  PROVE  Flat(s, 4) = ((s[1] \o s[2]) \o s[3]) \o s[4]
<1>1. 4 \in Nat /\ 0 \in 0 .. 4 - 1 /\ 1 \in 0 .. 4 - 1 /\ 2 \in 0 .. 4 - 1 /\ 3 \in 0 .. 4 - 1
      /\ 0 + 1 = 1 /\ 1 + 1 = 2 /\ 2 + 1 = 3 /\ 3 + 1 = 4
  OBVIOUS
<1>2. Flat(s, 0) = <<>> /\ \A k \in 0 .. 4 - 1 : Flat(s, k + 1) = Flat(s, k) \o s[k + 1]
  BY <1>1, FlatBytes
<1>3. /\ Flat(s, 1) = Flat(s, 0) \o s[1] /\ Flat(s, 2) = Flat(s, 1) \o s[2]
      /\ Flat(s, 3) = Flat(s, 2) \o s[3] /\ Flat(s, 4) = Flat(s, 3) \o s[4]
  BY <1>1, <1>2
<1>4. s[1] \in Bytes
  OBVIOUS
<1>5. Flat(s, 1) = s[1]
  BY <1>2, <1>3, <1>4, JoinedEmpty
<1> QED BY <1>3, <1>5

(* The tuple of a call, as the general encoder makes it. *)
Members(call) ==
  <<Word32(Word(ProxyCode(call.operation))), Word32(Address(call.to)),
    Word32(Word(call.value)), ByteString(call.data)>>

(* A call that can be encoded. *)
CallOk(call) == call.to \in Nat /\ call.value \in Nat /\ call.data \in Bytes

(* The tuple of a call, as EncodeProxyCalls writes it. *)
Element(call) ==
  Word(ProxyCode(call.operation)) \o Address(call.to) \o Word(call.value)
    \o Word(4 * WordSize) \o Word(Len(call.data))
    \o call.data \o Padding(call.data)

(* The two are the same: the bytes member starts after four words. *)
LEMMA MembersAre ==
  ASSUME NEW call, CallOk(call)
  PROVE  /\ Arguments(Members(call), 4)
         /\ Assemble(Members(call)) = Element(call)
         /\ Assemble(Members(call)) \in Bytes
<1> DEFINE m == Members(call)
           s == Slots(m, 4)
           t == Tails(m, 4)
           w1 == Word(ProxyCode(call.operation))
           w2 == Address(call.to)
           w3 == Word(call.value)
           w4 == Word(4 * WordSize)
           d == call.data
<1>1. m = [i \in 1..4 |-> m[i]] /\ 4 \in Nat
  BY DEF Members
<1>2. /\ m[1] = Word32(w1) /\ m[2] = Word32(w2) /\ m[3] = Word32(w3) /\ m[4] = ByteString(d)
  BY DEF Members
<1>3. /\ w1 \in Bytes /\ Len(w1) = WordSize /\ w2 \in Bytes /\ Len(w2) = WordSize
      /\ w3 \in Bytes /\ Len(w3) = WordSize /\ w4 \in Bytes /\ Len(w4) = WordSize
  <2>1. ProxyCode(call.operation) \in Nat
    BY DEF ProxyCode, SafeCode
  <2>2. 4 * WordSize \in Nat
    BY AbiAssumption
  <2> QED BY <2>1, <2>2, WordBytes, AddressBytes DEF CallOk
<1>4. ByteString(d).tail \in Bytes /\ d \in Bytes
  BY StringBytes DEF CallOk
<1> HIDE DEF m, w1, w2, w3, w4, d
<1>5. /\ m[1].head = w1 /\ m[2].head = w2 /\ m[3].head = w3
      /\ m[1].tail = <<>> /\ m[2].tail = <<>> /\ m[3].tail = <<>>
      /\ m[1].dynamic = FALSE /\ m[2].dynamic = FALSE /\ m[3].dynamic = FALSE
  BY <1>2 DEF Word32
<1>6. m[4].tail = ByteString(d).tail /\ m[4].dynamic = TRUE
  BY <1>2 DEF ByteString
<1>7. \A i \in 1..4 : i = 1 \/ i = 2 \/ i = 3 \/ i = 4
  OBVIOUS
<1>8. Arguments(m, 4)
  <2>1. ASSUME NEW i \in 1..4
        PROVE /\ m[i].tail \in Bytes
              /\ ~ m[i].dynamic => m[i].head \in Bytes /\ Len(m[i].head) = WordSize
    BY <1>3, <1>4, <1>5, <1>6, <1>7, BytesAre
  <2> QED BY <1>1, <2>1 DEF Arguments
<1>9. /\ \A i \in 1..4 : t[i] \in Bytes
      /\ \A i \in 1..4 : s[i] \in Bytes
  BY <1>1, <1>8, ArgumentsAre
<1>10. t[1] = <<>> /\ t[2] = <<>> /\ t[3] = <<>> /\ t[4] = ByteString(d).tail
  BY <1>5, <1>6 DEF Tails, TailOf
<1>11. s[1] = w1 /\ s[2] = w2 /\ s[3] = w3 /\ s[4] = Word(OffsetOf(m, 4, 4))
  BY <1>5, <1>6 DEF Slots, SlotOf
<1> HIDE DEF s
<1>12. Flat(t, 3) = <<>> /\ Flat(t, 4) = ByteString(d).tail
  <2> HIDE DEF t
  <2>1. 0 \in 0 .. 4 - 1 /\ 1 \in 0 .. 4 - 1 /\ 2 \in 0 .. 4 - 1 /\ 3 \in 0 .. 4 - 1
        /\ 0 + 1 = 1 /\ 1 + 1 = 2 /\ 2 + 1 = 3 /\ 3 + 1 = 4
    OBVIOUS
  <2>2. Flat(t, 0) = <<>> /\ \A k \in 0 .. 4 - 1 : Flat(t, k + 1) = Flat(t, k) \o t[k + 1]
    BY <1>1, <1>9, FlatBytes
  <2>3. /\ Flat(t, 1) = Flat(t, 0) \o t[1] /\ Flat(t, 2) = Flat(t, 1) \o t[2]
        /\ Flat(t, 3) = Flat(t, 2) \o t[3] /\ Flat(t, 4) = Flat(t, 3) \o t[4]
    BY <2>1, <2>2
  <2>4. <<>> \o <<>> = <<>> /\ <<>> \o ByteString(d).tail = ByteString(d).tail
    BY <1>4, BytesAre, JoinedEmpty
  <2> QED BY <2>2, <2>3, <2>4, <1>10
<1>13. s[4] = w4
  <2>1. 4 - 1 = 3 /\ 4 * WordSize + 0 = 4 * WordSize
    BY AbiAssumption
  <2>2. OffsetOf(m, 4, 4) = 4 * WordSize
    BY <2>1, <1>12, BytesAre DEF OffsetOf
  <2> QED BY <2>2, <1>11 DEF w4
<1>14. Flat(s, 4) = ((w1 \o w2) \o w3) \o w4
  BY <1>9, <1>11, <1>13, FourParts
<1>15. Assemble(m) = (((w1 \o w2) \o w3) \o w4) \o ByteString(d).tail
  BY <1>1, <1>8, <1>12, <1>14, Assembled DEF s
<1> DEFINE h == ((w1 \o w2) \o w3) \o w4
           l == Word(Len(d))
           p == Padding(d)
<1>16. h \in Bytes
  BY <1>3, Joined
<1>17. l \in Bytes /\ p \in Bytes
  BY <1>4, BytesAre, WordBytes, PaddingBytes
<1>18. ByteString(d).tail = (l \o d) \o p
  BY <1>4, StringBytes
<1>19. Element(call) = ((h \o l) \o d) \o p
  BY DEF Element, w1, w2, w3, w4, d
<1> HIDE DEF h, l, p
<1>20. ((h \o l) \o d) \o p = h \o ((l \o d) \o p)
  <2>1. l \o d \in Bytes
    BY <1>4, <1>17, Joined
  <2>2. (h \o l) \o d = h \o (l \o d)
    BY <1>4, <1>16, <1>17, JoinedThrice
  <2>3. (h \o (l \o d)) \o p = h \o ((l \o d) \o p)
    BY <2>1, <1>16, <1>17, JoinedThrice
  <2> QED BY <2>2, <2>3
<1>21. Assemble(m) = Element(call)
  BY <1>15, <1>18, <1>19, <1>20 DEF h
<1>22. Assemble(m) \in Bytes
  BY <1>4, <1>15, <1>16, Joined DEF h
<1> QED BY <1>8, <1>21, <1>22 DEF m

(* A list of calls that can be encoded. *)
CallList(calls, n) ==
  calls = [i \in 1..n |-> calls[i]] /\ \A i \in 1..n : CallOk(calls[i])

(* The tuples of a list of calls. *)
CallTuple(call) == Tuple(Members(call))
Tuples(calls, n) == [i \in 1..n |-> CallTuple(calls[i])]

(* They are arguments, each in the tail. *)
LEMMA TuplesAre ==
  ASSUME NEW n \in Nat, NEW calls, CallList(calls, n)
  PROVE  /\ Len(calls) = n /\ DOMAIN calls = 1..n
         /\ Arguments(Tuples(calls, n), n)
         /\ \A i \in 1..n : /\ Tuples(calls, n)[i].dynamic = TRUE
                            /\ Tuples(calls, n)[i].tail = Assemble(Members(calls[i]))
<1>1. Len(calls) = n /\ DOMAIN calls = 1..n
  <2> DEFINE a == [i \in 1..n |-> calls[i]]
  <2>1. calls = a
    BY DEF CallList
  <2>2. Len(a) = n /\ DOMAIN a = 1..n
    OBVIOUS
  <2> HIDE DEF a
  <2> QED BY <2>1, <2>2
<1>2. ASSUME NEW call
      PROVE CallTuple(call).dynamic = TRUE /\ CallTuple(call).tail = Assemble(Members(call))
  <2> DEFINE m == Members(call)
  <2>1. 4 \in DOMAIN m /\ m[4].dynamic = TRUE
    BY DEF Members, ByteString
  <2> HIDE DEF m
  <2>2. Tuple(m).dynamic = TRUE /\ Tuple(m).tail = Assemble(m)
    BY <2>1 DEF Tuple
  <2> QED BY <2>2 DEF m, CallTuple
<1>3. \A i \in 1..n : /\ Tuples(calls, n)[i].dynamic = TRUE
                      /\ Tuples(calls, n)[i].tail = Assemble(Members(calls[i]))
  BY <1>2 DEF Tuples
<1>4. Tuples(calls, n) = [i \in 1..n |-> Tuples(calls, n)[i]]
  BY DEF Tuples
<1>5. \A i \in 1..n : Assemble(Members(calls[i])) \in Bytes
  BY MembersAre DEF CallList
<1> QED BY <1>1, <1>3, <1>4, <1>5 DEF Arguments

(* A selector is told by the place of its name. *)
LEMMA SelectorIs ==
  ASSUME NEW k \in DOMAIN Names
  PROVE  Selector(Names[k]) = Base + k
<1>1. \A i, j \in DOMAIN Names : Names[i] = Names[j] => i = j
  BY DEF Names
<1>2. (CHOOSE i \in DOMAIN Names : Names[i] = Names[k]) = k
  <2> HIDE DEF Names
  <2> QED BY <1>1
<1> QED BY <1>2 DEF Selector

(* The array of tuples, written out by hand, is that of the general encoder. *)
LEMMA ProxyEncoded ==
  ASSUME NEW n \in Nat, NEW calls, CallList(calls, n)
  PROVE  EncodeProxyCalls(calls) = EncodeArgsCall("proxy", <<List(Tuples(calls, n))>>)
<1> DEFINE args == Tuples(calls, n)
           s == Slots(args, n)
           t == Tails(args, n)
           body(k) == FlattenSeq([i \in 1..k |-> Element(calls[i])])
           offset(i) == Word(WordSize * n + Len(body(i - 1)))
           sel == <<Selector("proxy")>>
           l == List(args)
<1>1. /\ Len(calls) = n /\ DOMAIN calls = 1..n /\ Arguments(args, n)
      /\ \A i \in 1..n : args[i].dynamic = TRUE /\ args[i].tail = Assemble(Members(calls[i]))
  BY TuplesAre
<1>2. \A i \in 1..n : Assemble(Members(calls[i])) = Element(calls[i])
  BY MembersAre DEF CallList
<1> HIDE DEF args
<1>3. ASSUME NEW k \in 0..n PROVE body(k) = Flat(t, k)
  <2>1. \A i \in 1..k : i \in 1..n
    OBVIOUS
  <2>2. [i \in 1..k |-> Element(calls[i])] = [i \in 1..k |-> t[i]]
    BY <2>1, <1>1, <1>2 DEF Tails, TailOf
  <2> QED BY <2>2 DEF Flat
<1>4. ASSUME NEW i \in 1..n PROVE offset(i) = s[i]
  <2>1. i - 1 \in 0..n /\ WordSize * n = n * WordSize
    BY AbiAssumption
  <2>2. body(i - 1) = Flat(t, i - 1)
    BY <2>1, <1>3
  <2>3. s[i] = Word(OffsetOf(args, n, i))
    BY <1>1 DEF Slots, SlotOf
  <2> HIDE DEF body
  <2> QED BY <2>1, <2>2, <2>3 DEF OffsetOf
<1>5. FlattenSeq([i \in DOMAIN calls |-> offset(i)]) = Flat(s, n)
  <2>1. [i \in DOMAIN calls |-> offset(i)] = [i \in 1..n |-> s[i]]
    <3> HIDE DEF offset, s
    <3> QED BY <1>1, <1>4
  <2> HIDE DEF offset, s
  <2> QED BY <2>1 DEF Flat
<1>6. body(Len(calls)) = Flat(t, n)
  BY <1>1, <1>3
<1>7. EncodeProxyCalls(calls) =
        (((sel \o Word(WordSize)) \o Word(n)) \o Flat(s, n)) \o Flat(t, n)
  <2>1. EncodeProxyCalls(calls) =
          (((sel \o Word(WordSize)) \o Word(Len(calls)))
             \o FlattenSeq([i \in DOMAIN calls |-> offset(i)])) \o body(Len(calls))
    BY <1>1 DEF EncodeProxyCalls, Element
  <2> HIDE DEF body, offset, s, t, sel
  <2> QED BY <2>1, <1>1, <1>5, <1>6
<1>8. /\ \A i \in 1..n : s[i] \in Bytes
      /\ \A i \in 1..n : t[i] \in Bytes
  BY <1>1, ArgumentsAre
<1>9. Assemble(args) = Flat(s, n) \o Flat(t, n)
  BY <1>1, Assembled
<1> HIDE DEF s, t
<1>10. Flat(s, n) \in Bytes /\ Flat(t, n) \in Bytes
  <2>1. n \in 0..n
    OBVIOUS
  <2> QED BY <2>1, <1>8, FlatBytes
<1>11. /\ l.tail = Word(n) \o Assemble(args) /\ l.tail \in Bytes /\ Word(n) \in Bytes
       /\ Assemble(args) \in Bytes
  BY <1>1, ListBytes
<1>12. l.dynamic = TRUE
  BY DEF List
<1> HIDE DEF l
<1>13. Assemble(<<l>>) = Word(WordSize) \o l.tail
  BY <1>11, <1>12, Alone
<1>14. sel \in Bytes /\ Word(WordSize) \in Bytes
  <2>1. 2 \in DOMAIN Names /\ Names[2] = "proxy"
    BY DEF Names
  <2>2. Selector("proxy") \in Nat
    BY <2>1, SelectorIs, AbiAssumption
  <2> QED BY <2>2, WordBytes, AbiAssumption DEF Bytes
<1>15. EncodeArgsCall("proxy", <<l>>) = sel \o (Word(WordSize) \o (Word(n) \o (Flat(s, n) \o Flat(t, n))))
  BY <1>9, <1>11, <1>13 DEF EncodeArgsCall
<1> DEFINE a == Word(WordSize)
           b == Word(n)
           c == Flat(s, n)
           d == Flat(t, n)
<1>16. /\ sel \in Bytes /\ a \in Bytes /\ b \in Bytes /\ c \in Bytes /\ d \in Bytes
  BY <1>10, <1>11, <1>14
<1> HIDE DEF sel, a, b, c, d
<1>17. (((sel \o a) \o b) \o c) \o d = sel \o (a \o (b \o (c \o d)))
  <2> DEFINE e == sel \o a
             f == e \o b
             g == c \o d
  <2>1. e \in Bytes /\ g \in Bytes
    BY <1>16, Joined
  <2> HIDE DEF e, g
  <2>2. f \in Bytes /\ b \o g \in Bytes
    BY <1>16, <2>1, Joined
  <2> HIDE DEF f
  <2>3. (f \o c) \o d = f \o g
    <3>1. f \in Bytes /\ c \in Bytes /\ d \in Bytes
      BY <1>16, <2>2
    <3>2. (f \o c) \o d = f \o (c \o d)
      BY <3>1, JoinedThrice, Zenon
    <3> QED BY <3>2 DEF g
  <2>4. f \o g = e \o (b \o g)
    <3>1. e \in Bytes /\ b \in Bytes /\ g \in Bytes
      BY <1>16, <2>1
    <3>2. (e \o b) \o g = e \o (b \o g)
      BY <3>1, JoinedThrice, Zenon
    <3> QED BY <3>2 DEF f
  <2>5. e \o (b \o g) = sel \o (a \o (b \o g))
    <3> DEFINE y == b \o g
    <3>1. sel \in Bytes /\ a \in Bytes /\ y \in Bytes
      BY <1>16, <2>2
    <3> HIDE DEF y
    <3>2. (sel \o a) \o y = sel \o (a \o y)
      BY <3>1, JoinedThrice, Zenon
    <3> QED BY <3>2 DEF e, y
  <2> QED BY <2>3, <2>4, <2>5 DEF e, f, g
<1> QED BY <1>7, <1>15, <1>17 DEF a, b, c, d, l, args

(* So is the call of the multisend contract, whatever its payload. *)
LEMMA MultisendEncoded ==
  ASSUME NEW p \in Bytes
  PROVE  EncodeBytesCall("multiSend", p) = EncodeArgsCall("multiSend", <<ByteString(p)>>)
<1> DEFINE sel == <<Selector("multiSend")>>
           a == Word(WordSize)
           l == Word(Len(p))
           z == Padding(p)
           x == ByteString(p)
<1>1. sel \in Bytes
  <2>1. 1 \in DOMAIN Names /\ Names[1] = "multiSend"
    BY DEF Names
  <2>2. Selector("multiSend") \in Nat
    BY <2>1, SelectorIs, AbiAssumption
  <2> QED BY <2>2 DEF Bytes
<1>2. a \in Bytes /\ l \in Bytes /\ z \in Bytes
  BY AbiAssumption, BytesAre, WordBytes, PaddingBytes
<1>3. x.dynamic = TRUE /\ x.tail \in Bytes /\ x.tail = (l \o p) \o z
  BY StringBytes DEF ByteString
<1>4. EncodeBytesCall("multiSend", p) = (((sel \o a) \o l) \o p) \o z
  BY DEF EncodeBytesCall
<1> HIDE DEF x
<1>5. EncodeArgsCall("multiSend", <<x>>) = sel \o (a \o ((l \o p) \o z))
  <2>1. Assemble(<<x>>) = Word(WordSize) \o x.tail
    BY <1>3, Alone
  <2> QED BY <2>1, <1>3 DEF EncodeArgsCall
<1> HIDE DEF sel, a, l, z
<1>6. (((sel \o a) \o l) \o p) \o z = sel \o (a \o ((l \o p) \o z))
  <2>1. sel \o a \in Bytes /\ l \o p \in Bytes
    BY <1>1, <1>2, Joined
  <2>2. (l \o p) \o z \in Bytes
    BY <1>2, <2>1, Joined
  <2>3. ((sel \o a) \o l) \o p = (sel \o a) \o (l \o p)
    BY SMTT(30), <1>2, <2>1, JoinedThrice
  <2>4. ((sel \o a) \o (l \o p)) \o z = (sel \o a) \o ((l \o p) \o z)
    BY SMTT(30), <1>2, <2>1, JoinedThrice
  <2>5. (sel \o a) \o ((l \o p) \o z) = sel \o (a \o ((l \o p) \o z))
    BY SMTT(30), <1>1, <1>2, <2>2, JoinedThrice
  <2> QED BY <2>3, <2>4, <2>5
<1> QED BY <1>4, <1>5, <1>6 DEF x

---------------------------------------------------------------------------
(* What the token contracts read of an intent. *)

(* What is less than a number that fits a word fits one. *)
LEMMA FitsLess ==
  ASSUME NEW x, Fits(x), NEW y \in Nat, y <= x
  PROVE  Fits(y)
<1>1. Power[WordSize] \in Nat
  BY AbiAssumption, Powers
<1> QED BY <1>1 DEF Fits

(* An argument of one word is written into the head. *)
LEMMA WordArgument ==
  /\ \A x \in Nat : /\ Word32(Word(x)).tail \in Bytes /\ Word32(Word(x)).dynamic = FALSE
                    /\ Word32(Word(x)).head = Word(x)
                    /\ Word(x) \in Bytes /\ Len(Word(x)) = WordSize
  /\ \A x \in Nat : /\ Word32(Address(x)).tail \in Bytes /\ Word32(Address(x)).dynamic = FALSE
                    /\ Word32(Address(x)).head = Address(x)
                    /\ Address(x) \in Bytes /\ Len(Address(x)) = WordSize
  /\ \A v \in Bytes : UintArray(v).tail \in Bytes /\ UintArray(v).dynamic = TRUE
<1>1. \A w : Word32(w).tail = <<>> /\ Word32(w).dynamic = FALSE /\ Word32(w).head = w
  BY DEF Word32
<1>2. \A v \in Bytes : UintArray(v).tail \in Bytes
  BY ReadsNumbers
<1>3. \A v \in Bytes : UintArray(v).dynamic = TRUE
  BY DEF UintArray, List
<1> QED BY <1>1, <1>2, <1>3, BytesAre, WordBytes, AddressBytes

(* What a contract reads of its arguments. *)
LEMMA ReadsArguments ==
  ASSUME NEW n \in Nat, NEW args, Arguments(args, n), NEW a, a = Assemble(args), Fits(Len(a))
  PROVE  \A k \in 0 .. n - 1 :
           /\ \A x : Fits(x) /\ args[k + 1] = Word32(Word(x)) => WordAt(a, k * WordSize) = x
           /\ \A x \in Nat : args[k + 1] = Word32(Address(x)) => WordAt(a, k * WordSize) = x
           /\ \A v \in Bytes :
                (\A j \in 1 .. Len(v) : Fits(v[j])) /\ args[k + 1] = UintArray(v)
                => WordsAt(a, WordAt(a, k * WordSize)) = v
<1> SUFFICES ASSUME NEW k \in 0 .. n - 1
    PROVE /\ \A x : Fits(x) /\ args[k + 1] = Word32(Word(x)) => WordAt(a, k * WordSize) = x
          /\ \A x \in Nat : args[k + 1] = Word32(Address(x)) => WordAt(a, k * WordSize) = x
          /\ \A v \in Bytes :
               (\A j \in 1 .. Len(v) : Fits(v[j])) /\ args[k + 1] = UintArray(v)
               => WordsAt(a, WordAt(a, k * WordSize)) = v
  OBVIOUS
<1> DEFINE i == k + 1
           at == k * WordSize
<1>1. i \in 1..n /\ at \in Nat /\ at = (i - 1) * WordSize
  <2>1. WordSize \in Nat /\ i - 1 = k
    BY AbiAssumption
  <2> QED BY <2>1
<1> HIDE DEF i, at
<1>2. /\ a \in Bytes
      /\ ~ args[i].dynamic => Holds(a, at, args[i].head)
      /\ args[i].dynamic =>
           \E o \in Nat : /\ Holds(a, at, Word(o)) /\ Holds(a, o, args[i].tail)
                          /\ o + Len(args[i].tail) <= Len(a)
  BY <1>1, Laid
<1>3. ASSUME NEW x, Fits(x), args[i] = Word32(Word(x)) PROVE WordAt(a, at) = x
  <2>1. x \in Nat
    BY <1>3, ReadsWord
  <2>2. Holds(a, at, Word(x))
    BY <2>1, <1>2, <1>3, WordArgument
  <2> QED BY <2>2, <1>1, <1>2, <1>3, HoldsWord
<1>4. ASSUME NEW x \in Nat, args[i] = Word32(Address(x)) PROVE WordAt(a, at) = x
  <2>1. Holds(a, at, Address(x))
    BY <1>2, <1>4, WordArgument
  <2> QED BY <2>1, <1>1, <1>2, HoldsAddress
<1>5. ASSUME NEW v \in Bytes, \A j \in 1 .. Len(v) : Fits(v[j]), args[i] = UintArray(v)
      PROVE  WordsAt(a, WordAt(a, at)) = v
  <2>1. PICK o \in Nat : /\ Holds(a, at, Word(o)) /\ Holds(a, o, args[i].tail)
                         /\ o + Len(args[i].tail) <= Len(a)
    BY <1>2, <1>5, WordArgument
  <2>2. Len(v) \in Nat /\ Len(args[i].tail) \in Nat /\ Len(v) <= Len(args[i].tail) /\ Len(a) \in Nat
    BY <1>2, <1>5, BytesAre, ReadsNumbers
  <2>3. o <= Len(a) /\ Len(v) <= Len(a)
    BY <2>1, <2>2
  <2>4. Fits(o) /\ Fits(Len(v))
    BY <2>2, <2>3, FitsLess
  <2>5. WordAt(a, at) = o
    BY <2>1, <2>4, <1>1, <1>2, HoldsWord
  <2> QED BY <2>1, <2>4, <2>5, <1>2, <1>5, ReadsNumbers
<1> QED BY <1>3, <1>4, <1>5 DEF i, at

(* What an intent does not need is nothing. *)
LEMMA Canonical ==
  ASSUME NEW i \in Intents
  PROVE  /\ i = [kind |-> i.kind, id |-> i.id, list |-> i.list, amount |-> i.amount, who |-> i.who]
         /\ i.kind \in Kinds /\ i.id \in Nat /\ i.list \in Bytes /\ i.amount \in Nat /\ i.who \in Nat
         /\ i.kind \in Ctf \cup NegRisk => i.who = 0
         /\ i.kind = "redeem" => i.amount = 0
         /\ i.kind \in {"negSplit", "negMerge"} => i.list = <<>>
         /\ i.kind = "negRedeem" => i.amount = 0
         /\ i.kind \in {"approve", "approveAll"} => i.id = 0 /\ i.list = <<>>
         /\ i.kind = "transfer" => i.id = 0 /\ i.list = <<>> /\ i.amount = 0
         /\ i.kind = "negConvert" => i.list = <<i.list[1]>> /\ i.list[1] \in Nat
<1>1. /\ i \in [kind : Kinds, id : Nat, list : Seq(Nat), amount : Nat, who : Nat]
      /\ "id" \notin Needs[i.kind] => i.id = 0
      /\ "list" \notin Needs[i.kind] => i.list = <<>>
      /\ "amount" \notin Needs[i.kind] => i.amount = 0
      /\ "who" \notin Needs[i.kind] => i.who = 0
      /\ i.kind = "negConvert" => Len(i.list) = 1
  BY DEF Intents
<1>2. /\ Needs["split"] = {"id", "list", "amount"} /\ Needs["merge"] = {"id", "list", "amount"}
      /\ Needs["negConvert"] = {"id", "list", "amount"}
      /\ Needs["redeem"] = {"id", "list"} /\ Needs["negRedeem"] = {"id", "list"}
      /\ Needs["negSplit"] = {"id", "amount"} /\ Needs["negMerge"] = {"id", "amount"}
      /\ Needs["approve"] = {"who", "amount"} /\ Needs["approveAll"] = {"who", "amount"}
      /\ Needs["transfer"] = {"who"}
  BY DEF Needs, Kinds, Ctf, NegRisk
<1>3. i = [kind |-> i.kind, id |-> i.id, list |-> i.list, amount |-> i.amount, who |-> i.who]
  BY <1>1
<1>4. i.kind \in Kinds /\ i.id \in Nat /\ i.list \in Bytes /\ i.amount \in Nat /\ i.who \in Nat
  BY <1>1 DEF Bytes
<1>5. i.kind \in Ctf \cup NegRisk => i.who = 0
  BY <1>1, <1>2 DEF Ctf, NegRisk
<1>6. /\ i.kind = "redeem" => i.amount = 0
      /\ i.kind \in {"negSplit", "negMerge"} => i.list = <<>>
      /\ i.kind = "negRedeem" => i.amount = 0
      /\ i.kind \in {"approve", "approveAll"} => i.id = 0 /\ i.list = <<>>
      /\ i.kind = "transfer" => i.id = 0 /\ i.list = <<>> /\ i.amount = 0
  BY <1>1, <1>2
<1>7. i.kind = "negConvert" => i.list = <<i.list[1]>> /\ i.list[1] \in Nat
  BY <1>1
<1> QED BY <1>3, <1>4, <1>5, <1>6, <1>7

(* Calls are sent to addresses. *)
LEMMA AddressesAre ==
  ASSUME NEW i \in Intents
  PROVE  Target(i) \in Nat /\ Contracts.Collateral \in Nat
BY Canonical, ContractsAssumption DEF Target, Kinds, Ctf, NegRisk

(* The arguments of each kind, one by one. *)
LEMMA ArgumentsOf ==
  ASSUME NEW i \in Intents, i.kind # "transfer"
  PROVE  \E n \in Nat :
           /\ Arguments(Args(i), n)
           /\ i.kind \in Ctf =>
                /\ n > 3 /\ Args(i)[3] = Word32(Word(i.id)) /\ Args(i)[4] = UintArray(i.list)
                /\ i.kind # "redeem" => n > 4 /\ Args(i)[5] = Word32(Word(i.amount))
           /\ i.kind \in {"negSplit", "negMerge"} =>
                n > 1 /\ Args(i)[1] = Word32(Word(i.id)) /\ Args(i)[2] = Word32(Word(i.amount))
           /\ i.kind = "negRedeem" =>
                n > 1 /\ Args(i)[1] = Word32(Word(i.id)) /\ Args(i)[2] = UintArray(i.list)
           /\ i.kind = "negConvert" =>
                /\ n > 2 /\ Args(i)[1] = Word32(Word(i.id))
                /\ Args(i)[2] = Word32(Word(i.list[1])) /\ Args(i)[3] = Word32(Word(i.amount))
           /\ i.kind \in {"approve", "approveAll"} =>
                n > 1 /\ Args(i)[1] = Word32(Address(i.who)) /\ Args(i)[2] = Word32(Word(i.amount))
<1> DEFINE Ok(x) == x.tail \in Bytes /\ (~ x.dynamic => x.head \in Bytes /\ Len(x.head) = WordSize)
           a == Word32(Address(Contracts.Collateral))
           z == Word32(Word(TopCollection))
           d == Word32(Word(i.id))
           l == UintArray(i.list)
           m == Word32(Word(i.amount))
           w == Word32(Address(i.who))
           o == Word32(Word(i.list[1]))
<1>1. /\ i.kind \in Kinds /\ i.id \in Nat /\ i.list \in Bytes /\ i.amount \in Nat /\ i.who \in Nat
      /\ i.kind = "negConvert" => i.list[1] \in Nat
  BY Canonical
<1>2. Ok(a) /\ Ok(z) /\ Ok(d) /\ Ok(l) /\ Ok(m) /\ Ok(w) /\ (i.kind = "negConvert" => Ok(o))
  BY <1>1, AddressesAre, WordArgument DEF TopCollection
<1>3. /\ i.kind \in {"split", "merge"} => Args(i) = <<a, z, d, l>> \o <<m>>
      /\ i.kind = "redeem" => Args(i) = <<a, z, d, l>>
      /\ i.kind \in {"negSplit", "negMerge"} => Args(i) = <<d, m>>
      /\ i.kind = "negRedeem" => Args(i) = <<d, l>>
      /\ i.kind = "negConvert" => Args(i) = <<d, o, m>>
      /\ i.kind \in {"approve", "approveAll"} => Args(i) = <<w, m>>
  BY DEF Args, PositionArgs
<1> HIDE DEF a, z, d, l, m, w, o
<1>4. <<a, z, d, l>> \o <<m>> = <<a, z, d, l, m>>
  <2> DEFINE S == {a, z, d, l, m}
             u == <<a, z, d, l>>
             v == <<m>>
             q == <<a, z, d, l, m>>
  <2>1. u \in Seq(S) /\ v \in Seq(S) /\ q \in Seq(S) /\ Len(u) = 4 /\ Len(v) = 1 /\ Len(q) = 5
    OBVIOUS
  <2>2. /\ q[1] = u[1] /\ q[2] = u[2] /\ q[3] = u[3] /\ q[4] = u[4] /\ q[5] = v[1]
    OBVIOUS
  <2> HIDE DEF S, u, v, q
  <2>3. /\ u \o v \in Seq(S) /\ Len(u \o v) = 5
        /\ \A k \in 1..5 : (u \o v)[k] = IF k <= 4 THEN u[k] ELSE v[k - 4]
    <3>1. /\ u \o v \in Seq(S) /\ Len(u \o v) = Len(u) + Len(v)
          /\ \A k \in 1 .. Len(u) + Len(v) :
               (u \o v)[k] = IF k <= Len(u) THEN u[k] ELSE v[k - Len(u)]
      BY <2>1, ConcatProperties
    <3> QED BY <2>1, <3>1
  <2>4. ASSUME NEW k \in 1..5 PROVE (u \o v)[k] = q[k]
    <3>1. k = 1 \/ k = 2 \/ k = 3 \/ k = 4 \/ k = 5
      OBVIOUS
    <3>2. (u \o v)[k] = IF k <= 4 THEN u[k] ELSE v[k - 4]
      BY <2>3
    <3> QED BY <3>1, <3>2, <2>2
  <2>5. u \o v = q
    BY <2>1, <2>3, <2>4, SeqEqual
  <2> QED BY <2>5 DEF u, v, q
<1>5. CASE i.kind \in {"split", "merge"}
  <2> DEFINE q == <<a, z, d, l, m>>
  <2>1. /\ q = [k \in 1..5 |-> q[k]] /\ q[3] = d /\ q[4] = l /\ q[5] = m
        /\ \A k \in 1..5 : Ok(q[k])
    <3> HIDE DEF Ok
    <3>1. \A k \in 1..5 : k = 1 \/ k = 2 \/ k = 3 \/ k = 4 \/ k = 5
      OBVIOUS
    <3> QED BY <1>2, <3>1
  <2>2. Args(i) = q
    BY <1>3, <1>4, <1>5
  <2>3. Arguments(q, 5) /\ 5 \in Nat
    BY <2>1 DEF Arguments
  <2> HIDE DEF q, Ok
  <2> QED BY <1>5, <2>1, <2>2, <2>3 DEF d, l, m
<1>6. CASE i.kind = "redeem"
  <2> DEFINE q == <<a, z, d, l>>
  <2>1. /\ q = [k \in 1..4 |-> q[k]] /\ q[3] = d /\ q[4] = l
        /\ \A k \in 1..4 : Ok(q[k])
    <3> HIDE DEF Ok
    <3>1. \A k \in 1..4 : k = 1 \/ k = 2 \/ k = 3 \/ k = 4
      OBVIOUS
    <3> QED BY <1>2, <3>1
  <2>2. Args(i) = q
    BY <1>3, <1>6
  <2>3. Arguments(q, 4) /\ 4 \in Nat
    BY <2>1 DEF Arguments
  <2> HIDE DEF q, Ok
  <2> QED BY <1>6, <2>1, <2>2, <2>3 DEF d, l
<1>7. CASE i.kind \in {"negSplit", "negMerge"}
  <2> DEFINE q == <<d, m>>
  <2>1. /\ q = [k \in 1..2 |-> q[k]] /\ q[1] = d /\ q[2] = m
        /\ \A k \in 1..2 : Ok(q[k])
    <3> HIDE DEF Ok
    <3>1. \A k \in 1..2 : k = 1 \/ k = 2
      OBVIOUS
    <3> QED BY <1>2, <3>1
  <2>2. Args(i) = q
    BY <1>3, <1>7
  <2>3. Arguments(q, 2) /\ 2 \in Nat
    BY <2>1 DEF Arguments
  <2> HIDE DEF q, Ok
  <2> QED BY <1>7, <2>1, <2>2, <2>3 DEF d, m, Ctf
<1>8. CASE i.kind = "negRedeem"
  <2> DEFINE q == <<d, l>>
  <2>1. /\ q = [k \in 1..2 |-> q[k]] /\ q[1] = d /\ q[2] = l
        /\ \A k \in 1..2 : Ok(q[k])
    <3> HIDE DEF Ok
    <3>1. \A k \in 1..2 : k = 1 \/ k = 2
      OBVIOUS
    <3> QED BY <1>2, <3>1
  <2>2. Args(i) = q
    BY <1>3, <1>8
  <2>3. Arguments(q, 2) /\ 2 \in Nat
    BY <2>1 DEF Arguments
  <2> HIDE DEF q, Ok
  <2> QED BY <1>8, <2>1, <2>2, <2>3 DEF d, l, Ctf
<1>9. CASE i.kind = "negConvert"
  <2> DEFINE q == <<d, o, m>>
  <2>1. /\ q = [k \in 1..3 |-> q[k]] /\ q[1] = d /\ q[2] = o /\ q[3] = m
        /\ \A k \in 1..3 : Ok(q[k])
    <3> HIDE DEF Ok
    <3>1. \A k \in 1..3 : k = 1 \/ k = 2 \/ k = 3
      OBVIOUS
    <3> QED BY <1>2, <1>9, <3>1
  <2>2. Args(i) = q
    BY <1>3, <1>9
  <2>3. Arguments(q, 3) /\ 3 \in Nat
    BY <2>1 DEF Arguments
  <2> HIDE DEF q, Ok
  <2> QED BY <1>9, <2>1, <2>2, <2>3 DEF d, m, o, Ctf
<1>10. CASE i.kind \in {"approve", "approveAll"}
  <2> DEFINE q == <<w, m>>
  <2>1. /\ q = [k \in 1..2 |-> q[k]] /\ q[1] = w /\ q[2] = m
        /\ \A k \in 1..2 : Ok(q[k])
    <3> HIDE DEF Ok
    <3>1. \A k \in 1..2 : k = 1 \/ k = 2
      OBVIOUS
    <3> QED BY <1>2, <3>1
  <2>2. Args(i) = q
    BY <1>3, <1>10
  <2>3. Arguments(q, 2) /\ 2 \in Nat
    BY <2>1 DEF Arguments
  <2> HIDE DEF q, Ok
  <2> QED BY <1>10, <2>1, <2>2, <2>3 DEF w, m, Ctf
<1> QED BY <1>1, <1>5, <1>6, <1>7, <1>8, <1>9, <1>10 DEF Kinds, Ctf, NegRisk

(* No two functions share a selector. *)
LEMMA SelectorsDiffer ==
  /\ \A k \in Kinds \ {"transfer"} : Selector(k) \in Nat
  /\ \A j, k \in Kinds \ {"transfer"} : Selector(j) = Selector(k) => j = k
<1>1. \A k \in Kinds \ {"transfer"} : \E m \in DOMAIN Names : Names[m] = k
  <2>1. /\ 3 \in DOMAIN Names /\ Names[3] = "split" /\ 4 \in DOMAIN Names /\ Names[4] = "merge"
        /\ 5 \in DOMAIN Names /\ Names[5] = "redeem" /\ 6 \in DOMAIN Names /\ Names[6] = "negSplit"
        /\ 7 \in DOMAIN Names /\ Names[7] = "negMerge" /\ 8 \in DOMAIN Names /\ Names[8] = "negRedeem"
        /\ 9 \in DOMAIN Names /\ Names[9] = "negConvert" /\ 10 \in DOMAIN Names /\ Names[10] = "approve"
        /\ 11 \in DOMAIN Names /\ Names[11] = "approveAll"
    BY DEF Names
  <2> HIDE DEF Names
  <2> QED BY <2>1 DEF Kinds, Ctf, NegRisk
<1>2. \A m \in DOMAIN Names : m \in Nat
  BY DEF Names
<1>3. Base \in Nat
  BY AbiAssumption
<1>4. ASSUME NEW k \in Kinds \ {"transfer"} PROVE Selector(k) \in Nat
  <2>1. PICK m \in DOMAIN Names : Names[m] = k
    BY <1>1
  <2>2. Selector(k) = Base + m
    BY <2>1, SelectorIs
  <2> QED BY <2>2, <1>2, <1>3
<1>5. ASSUME NEW j \in Kinds \ {"transfer"}, NEW k \in Kinds \ {"transfer"},
             Selector(j) = Selector(k)
      PROVE  j = k
  <2>1. PICK m \in DOMAIN Names : Names[m] = j
    BY <1>1
  <2>2. PICK p \in DOMAIN Names : Names[p] = k
    BY <1>1
  <2>3. Selector(j) = Base + m /\ Selector(k) = Base + p
    BY <2>1, <2>2, SelectorIs
  <2>4. m = p
    BY <2>3, <1>2, <1>3, <1>5
  <2> QED BY <2>1, <2>2, <2>4
<1> QED BY <1>4, <1>5

(* The calldata of an intent is its selector and its arguments. *)
LEMMA CalldataIs ==
  ASSUME NEW i \in Intents
  PROVE  /\ Calldata(i) \in Bytes
         /\ i.kind = "transfer" => Calldata(i) = <<>>
         /\ i.kind # "transfer" =>
              /\ Calldata(i) # <<>> /\ Calldata(i)[1] = Selector(i.kind)
              /\ Tail(Calldata(i)) = Assemble(Args(i)) /\ Assemble(Args(i)) \in Bytes
              /\ Len(Calldata(i)) = 1 + Len(Assemble(Args(i)))
<1>1. CASE i.kind = "transfer"
  BY <1>1, BytesAre DEF Calldata
<1>2. CASE i.kind # "transfer"
  <2> DEFINE a == Assemble(Args(i))
             s == <<Selector(i.kind)>>
  <2>1. Selector(i.kind) \in Nat
    BY <1>2, Canonical, SelectorsDiffer
  <2>2. a \in Bytes
    <3>1. PICK n \in Nat : Arguments(Args(i), n)
      BY <1>2, ArgumentsOf
    <3> QED BY <3>1, ListBytes
  <2>3. s \in Bytes /\ Len(s) = 1 /\ s[1] = Selector(i.kind)
    BY <2>1 DEF Bytes
  <2>4. Calldata(i) = s \o a
    BY <1>2 DEF Calldata, EncodeArgsCall
  <2> HIDE DEF s, a
  <2>5. s \o a \in Bytes /\ Len(s \o a) = 1 + Len(a) /\ (s \o a)[1] = s[1]
        /\ \A k \in 1 .. Len(a) : (s \o a)[1 + k] = a[k]
    <3>1. /\ s \o a \in Bytes /\ Len(s \o a) = Len(s) + Len(a)
          /\ \A k \in 1 .. Len(s) : (s \o a)[k] = s[k]
          /\ \A k \in 1 .. Len(a) : (s \o a)[Len(s) + k] = a[k]
      BY <2>2, <2>3, Joined
    <3>2. 1 \in 1 .. Len(s)
      BY <2>3
    <3> QED BY <2>3, <3>1, <3>2
  <2>6. Len(a) \in Nat /\ s \o a # <<>>
    BY <2>2, <2>5, BytesAre
  <2>7. Tail(s \o a) = a
    <3> DEFINE t == Tail(s \o a)
    <3>1. t \in Seq(Nat) /\ Len(t) = Len(s \o a) - 1
          /\ \A k \in 1 .. Len(t) : t[k] = (s \o a)[k + 1]
      BY <2>5, <2>6, HeadTailProperties DEF Bytes
    <3>2. Len(t) = Len(a) /\ t \in Bytes
      BY <3>1, <2>5, <2>6 DEF Bytes
    <3> HIDE DEF t
    <3>3. ASSUME NEW k \in 1 .. Len(t) PROVE t[k] = a[k]
      <4>1. k + 1 = 1 + k /\ k \in 1 .. Len(a)
        BY <3>2, <2>6
      <4> QED BY <4>1, <3>1, <2>5
    <3>4. t = a
      BY <2>2, <3>2, <3>3, SameBytes
    <3> QED BY <3>4 DEF t
  <2> QED BY <1>2, <2>2, <2>3, <2>4, <2>5, <2>6, <2>7 DEF a
<1> QED BY <1>1, <1>2

(* The contract reads from the arguments what the intent says. *)
LEMMA ReadsIntent ==
  ASSUME NEW i \in Intents, i.kind # "transfer", Legal(i), NEW a, a = Assemble(Args(i)),
         Fits(Len(a))
  PROVE  Read(i.kind, a) = i
<1> DEFINE r == Read(i.kind, a)
           v == i.list
<1>1. PICK n \in Nat :
        /\ Arguments(Args(i), n)
        /\ i.kind \in Ctf =>
             /\ n > 3 /\ Args(i)[3] = Word32(Word(i.id)) /\ Args(i)[4] = UintArray(i.list)
             /\ i.kind # "redeem" => n > 4 /\ Args(i)[5] = Word32(Word(i.amount))
        /\ i.kind \in {"negSplit", "negMerge"} =>
             n > 1 /\ Args(i)[1] = Word32(Word(i.id)) /\ Args(i)[2] = Word32(Word(i.amount))
        /\ i.kind = "negRedeem" =>
             n > 1 /\ Args(i)[1] = Word32(Word(i.id)) /\ Args(i)[2] = UintArray(i.list)
        /\ i.kind = "negConvert" =>
             /\ n > 2 /\ Args(i)[1] = Word32(Word(i.id))
             /\ Args(i)[2] = Word32(Word(i.list[1])) /\ Args(i)[3] = Word32(Word(i.amount))
        /\ i.kind \in {"approve", "approveAll"} =>
             n > 1 /\ Args(i)[1] = Word32(Address(i.who)) /\ Args(i)[2] = Word32(Word(i.amount))
  BY ArgumentsOf
<1>2. /\ i = [kind |-> i.kind, id |-> i.id, list |-> i.list, amount |-> i.amount, who |-> i.who]
      /\ i.kind \in Kinds /\ i.id \in Nat /\ i.list \in Bytes /\ i.amount \in Nat /\ i.who \in Nat
      /\ i.kind \in Ctf \cup NegRisk => i.who = 0
      /\ i.kind = "redeem" => i.amount = 0
      /\ i.kind \in {"negSplit", "negMerge"} => i.list = <<>>
      /\ i.kind = "negRedeem" => i.amount = 0
      /\ i.kind \in {"approve", "approveAll"} => i.id = 0 /\ i.list = <<>>
      /\ i.kind = "negConvert" => i.list = <<i.list[1]>> /\ i.list[1] \in Nat
  BY Canonical
<1>3. Fits(i.amount) /\ Fits(i.id) /\ \A k \in 1 .. Len(v) : Fits(v[k])
  <2>1. DOMAIN v = 1 .. Len(v)
    BY <1>2 DEF Bytes
  <2> QED BY <2>1 DEF Legal
<1>4. \A k \in 0 .. n - 1 :
        /\ \A x : Fits(x) /\ Args(i)[k + 1] = Word32(Word(x)) => WordAt(a, k * WordSize) = x
        /\ \A x \in Nat : Args(i)[k + 1] = Word32(Address(x)) => WordAt(a, k * WordSize) = x
        /\ (\A j \in 1 .. Len(v) : Fits(v[j])) /\ Args(i)[k + 1] = UintArray(v)
           => WordsAt(a, WordAt(a, k * WordSize)) = v
  BY <1>1, <1>2, ReadsArguments
<1>5. /\ 0 + 1 = 1 /\ 1 + 1 = 2 /\ 2 + 1 = 3 /\ 3 + 1 = 4 /\ 4 + 1 = 5
      /\ n > 1 => 0 \in 0 .. n - 1 /\ 1 \in 0 .. n - 1
      /\ n > 2 => 0 \in 0 .. n - 1 /\ 1 \in 0 .. n - 1 /\ 2 \in 0 .. n - 1
      /\ n > 3 => 2 \in 0 .. n - 1 /\ 3 \in 0 .. n - 1
      /\ n > 4 => 4 \in 0 .. n - 1
  OBVIOUS
<1>6. CASE i.kind \in Ctf
  <2>1. WordAt(a, 2 * WordSize) = i.id /\ WordsAt(a, WordAt(a, 3 * WordSize)) = v
    BY <1>1, <1>3, <1>4, <1>5, <1>6
  <2>2. i.kind # "redeem" => WordAt(a, 4 * WordSize) = i.amount
    BY <1>1, <1>3, <1>4, <1>5, <1>6
  <2>3. CASE i.kind = "redeem"
    <3>1. r = [kind |-> i.kind, id |-> i.id, list |-> i.list, who |-> 0, amount |-> 0]
      BY <2>1, <2>3 DEF Read, NoIntent, Ctf
    <3> QED BY <1>2, <1>6, <2>3, <3>1
  <2>4. CASE i.kind # "redeem"
    <3>1. r = [kind |-> i.kind, id |-> i.id, list |-> i.list, who |-> 0, amount |-> i.amount]
      BY <2>1, <2>2, <2>4, <1>6 DEF Read, NoIntent, Ctf
    <3> QED BY <1>2, <1>6, <3>1
  <2> QED BY <2>3, <2>4
<1>7. CASE i.kind \in {"negSplit", "negMerge"}
  <2>1. WordAt(a, 0 * WordSize) = i.id /\ WordAt(a, 1 * WordSize) = i.amount
    BY <1>1, <1>3, <1>4, <1>5, <1>7
  <2>2. r = [kind |-> i.kind, id |-> i.id, list |-> <<>>, who |-> 0, amount |-> i.amount]
    BY <2>1, <1>7 DEF Read, NoIntent, Ctf
  <2> QED BY <1>2, <1>7, <2>2 DEF NegRisk
<1>8. CASE i.kind = "negRedeem"
  <2>1. WordAt(a, 0 * WordSize) = i.id /\ WordsAt(a, WordAt(a, 1 * WordSize)) = v
    BY <1>1, <1>3, <1>4, <1>5, <1>8
  <2>2. r = [kind |-> i.kind, id |-> i.id, list |-> i.list, who |-> 0, amount |-> 0]
    BY <2>1, <1>8 DEF Read, NoIntent, Ctf
  <2> QED BY <1>2, <1>8, <2>2 DEF NegRisk
<1>9. CASE i.kind = "negConvert"
  <2>0. Fits(v[1])
    <3>1. 1 \in 1 .. Len(v)
      BY <1>2, <1>9
    <3> QED BY <1>3, <3>1
  <2>1. /\ WordAt(a, 0 * WordSize) = i.id /\ WordAt(a, 1 * WordSize) = v[1]
        /\ WordAt(a, 2 * WordSize) = i.amount
    BY <1>1, <1>3, <1>4, <1>5, <1>9, <2>0
  <2>2. r = [kind |-> i.kind, id |-> i.id, list |-> <<v[1]>>, who |-> 0, amount |-> i.amount]
    BY <2>1, <1>9 DEF Read, NoIntent, Ctf
  <2> QED BY <1>2, <1>9, <2>2 DEF NegRisk
<1>10. CASE i.kind \in {"approve", "approveAll"}
  <2>1. WordAt(a, 0 * WordSize) = i.who /\ WordAt(a, 1 * WordSize) = i.amount
    BY <1>1, <1>2, <1>3, <1>4, <1>5, <1>10
  <2>2. r = [kind |-> i.kind, id |-> 0, list |-> <<>>, who |-> i.who, amount |-> i.amount]
    BY <2>1, <1>10 DEF Read, NoIntent, Ctf
  <2> QED BY <1>2, <1>10, <2>2
<1> QED BY <1>2, <1>6, <1>7, <1>8, <1>9, <1>10 DEF Kinds, Ctf, NegRisk

(* The contract a call is sent to understands what was meant. *)
LEMMA IsUnderstood ==
  ASSUME NEW i \in Intents, Legal(i), Fits(Len(Calldata(i)))
  PROVE  Understood(Target(i), Calldata(i)) = i
<1>1. CASE i.kind = "transfer"
  <2>1. Calldata(i) = <<>>
    BY <1>1, CalldataIs
  <2>2. Target(i) = i.who
    BY <1>1 DEF Target, Ctf, NegRisk
  <2>3. /\ i = [kind |-> i.kind, id |-> i.id, list |-> i.list, amount |-> i.amount, who |-> i.who]
        /\ i.id = 0 /\ i.list = <<>> /\ i.amount = 0
    BY <1>1, Canonical
  <2>4. Understood(Target(i), Calldata(i)) = [kind |-> "transfer", id |-> 0, list |-> <<>>,
                                              amount |-> 0, who |-> i.who]
    BY <2>1, <2>2 DEF Understood, NoIntent
  <2> QED BY <1>1, <2>3, <2>4
<1>2. CASE i.kind # "transfer"
  <2> DEFINE a == Assemble(Args(i))
             data == Calldata(i)
             kinds == {k \in DOMAIN HasFunction : Selector(k) = data[1] /\ HasFunction[k] = Target(i)}
  <2>1. data # <<>> /\ data[1] = Selector(i.kind) /\ Tail(data) = a /\ a \in Bytes
        /\ Len(data) = 1 + Len(a)
    BY <1>2, CalldataIs
  <2>2. Fits(Len(a))
    <3>1. Len(a) \in Nat /\ Len(a) <= Len(data)
      BY <2>1, BytesAre
    <3> QED BY <3>1, FitsLess
  <2>3. i.kind \in Kinds \ {"transfer"}
    BY <1>2, Canonical
  <2>4. DOMAIN HasFunction = Kinds \ {"transfer"} /\ HasFunction[i.kind] = Target(i)
    BY <2>3 DEF HasFunction, Target, Kinds, Ctf, NegRisk
  <2>5. \A k : k \in kinds <=> k = i.kind
    BY <2>1, <2>3, <2>4, SelectorsDiffer
  <2>6. (CHOOSE k \in kinds : TRUE) = i.kind /\ kinds # {}
    <3> HIDE DEF kinds
    <3> QED BY <2>5
  <2>7. Read(i.kind, a) = i
    BY <1>2, <2>2, ReadsIntent
  <2>8. Understood(Target(i), data) = Read(CHOOSE k \in kinds : TRUE, Tail(data))
    <3>1. data # <<>> /\ kinds # {}
      BY <2>1, <2>6
    <3> HIDE DEF data
    <3> QED BY <3>1 DEF Understood
  <2> QED BY <2>1, <2>6, <2>7, <2>8
<1> QED BY <1>1, <1>2

---------------------------------------------------------------------------
(* What the wallets decode of the calls that were encoded for them. *)

(* A wallet knows the operation by its code. *)
LEMMA OperationCodes ==
  ASSUME NEW o \in {"Call", "DelegateCall"}
  PROVE  /\ OperationOf(ProxyCodes, ProxyCode(o)) = o
         /\ OperationOf(SafeCodes, SafeCode(o)) = o
         /\ SafeCode(o) \in {0, 1} /\ ProxyCode(o) \in {1, 2}
<1>1. /\ DOMAIN ProxyCodes = {"Call", "DelegateCall"} /\ ProxyCodes[o] = ProxyCode(o)
      /\ \A k \in DOMAIN ProxyCodes : ProxyCodes[k] = ProxyCode(o) => k = o
  BY DEF ProxyCodes, ProxyCode, SafeCode
<1>2. /\ DOMAIN SafeCodes = {"Call", "DelegateCall"} /\ SafeCodes[o] = SafeCode(o)
      /\ \A k \in DOMAIN SafeCodes : SafeCodes[k] = SafeCode(o) => k = o
  BY DEF SafeCodes, SafeCode
<1>3. ASSUME NEW codes, NEW code, o \in DOMAIN codes, codes[o] = code,
             \A k \in DOMAIN codes : codes[k] = code => k = o
      PROVE  OperationOf(codes, code) = o
  BY <1>3 DEF OperationOf
<1>4. OperationOf(ProxyCodes, ProxyCode(o)) = o
  BY <1>1, <1>3
<1>5. OperationOf(SafeCodes, SafeCode(o)) = o
  BY <1>2, <1>3
<1>6. SafeCode(o) \in {0, 1} /\ ProxyCode(o) \in {1, 2}
  BY DEF SafeCode, ProxyCode
<1> QED BY <1>4, <1>5, <1>6

(* A call that the wallets can decode. *)
Readable(call) ==
  /\ call = [to |-> call.to, data |-> call.data, value |-> call.value,
             operation |-> call.operation]
  /\ CallOk(call) /\ Fits(call.value) /\ call.operation \in {"Call", "DelegateCall"}

(* A selector before an encoding is taken off. *)
LEMMA Selected ==
  ASSUME NEW s \in Nat, NEW b \in Bytes
  PROVE  /\ <<s>> \o b \in Bytes /\ Len(<<s>> \o b) = 1 + Len(b)
         /\ (<<s>> \o b)[1] = s /\ Tail(<<s>> \o b) = b
<1> DEFINE u == <<s>>
           c == u \o b
           t == Tail(c)
<1>1. u \in Bytes /\ Len(u) = 1 /\ u[1] = s /\ 1 \in 1 .. Len(u)
  BY DEF Bytes
<1> HIDE DEF u
<1>2. /\ c \in Bytes /\ Len(c) = Len(u) + Len(b)
      /\ \A k \in 1 .. Len(u) : c[k] = u[k]
      /\ \A k \in 1 .. Len(b) : c[Len(u) + k] = b[k]
  BY <1>1, Joined
<1> HIDE DEF c
<1>3. Len(b) \in Nat /\ Len(c) = 1 + Len(b) /\ c # <<>>
  BY <1>1, <1>2, BytesAre
<1>4. /\ t \in Seq(Nat) /\ Len(t) = Len(c) - 1
      /\ \A k \in 1 .. Len(t) : t[k] = c[k + 1]
  BY <1>2, <1>3, HeadTailProperties DEF Bytes
<1>5. t \in Bytes /\ Len(t) = Len(b)
  BY <1>3, <1>4 DEF Bytes
<1> HIDE DEF t
<1>6. ASSUME NEW k \in 1 .. Len(t) PROVE t[k] = b[k]
  <2>1. k + 1 = 1 + k /\ k \in 1 .. Len(b)
    BY <1>3, <1>5
  <2> QED BY <2>1, <1>1, <1>2, <1>4
<1>7. t = b
  BY <1>5, <1>6, SameBytes
<1> QED BY <1>1, <1>2, <1>3, <1>7 DEF t, c, u

(* What the proxy reads of a call's tuple. *)
LEMMA ReadsTuple ==
  ASSUME NEW call, Readable(call), NEW b \in Bytes, NEW p \in Nat, Fits(Len(b)),
         NEW m, m = Assemble(Members(call)), Holds(b, p, m), Len(m) <= Len(b)
  PROVE  /\ OperationOf(ProxyCodes, WordAt(b, p)) = call.operation
         /\ WordAt(b, p + WordSize) = call.to
         /\ WordAt(b, p + 2 * WordSize) = call.value
         /\ BytesAt(b, p + WordAt(b, p + 3 * WordSize)) = call.data
<1> DEFINE args == Members(call)
           code == ProxyCode(call.operation)
           d == call.data
           s == ByteString(d)
<1>1. Arguments(args, 4) /\ m \in Bytes /\ 4 \in Nat
  BY MembersAre DEF Readable
<1>2. /\ args[1] = Word32(Word(code)) /\ args[2] = Word32(Address(call.to))
      /\ args[3] = Word32(Word(call.value)) /\ args[4] = s
  BY DEF Members
<1>3. code \in {1, 2} /\ call.to \in Nat /\ call.value \in Nat /\ d \in Bytes /\ Fits(call.value)
  BY OperationCodes DEF Readable, CallOk
<1>4. s.dynamic = TRUE
  BY DEF ByteString
<1> HIDE DEF args, code, s
<1>5. WordSize \in Nat \ {0, 1} /\ Len(b) \in Nat /\ Len(m) \in Nat
  BY <1>1, BytesAre, AbiAssumption
<1>6. 4 <= Len(m)
  BY <1>1, Counted DEF args
<1>7. Fits(code)
  <2>1. code <= Len(b) /\ code \in Nat
    BY <1>3, <1>5, <1>6
  <2> QED BY <2>1, FitsLess
<1>8. ASSUME NEW k \in 0..3
      PROVE  /\ ~ args[k + 1].dynamic => Holds(m, k * WordSize, args[k + 1].head)
             /\ args[k + 1].dynamic =>
                  \E o \in Nat : /\ Holds(m, k * WordSize, Word(o)) /\ Holds(m, o, args[k + 1].tail)
                                 /\ o + Len(args[k + 1].tail) <= Len(m)
  <2> DEFINE i == k + 1
             at == k * WordSize
  <2>1. i \in 1..4 /\ at \in Nat /\ at = (i - 1) * WordSize
    <3>1. i - 1 = k
      OBVIOUS
    <3> QED BY <3>1, <1>5
  <2> HIDE DEF i, at
  <2>2. /\ ~ args[i].dynamic => Holds(m, at, args[i].head)
        /\ args[i].dynamic =>
             \E o \in Nat : /\ Holds(m, at, Word(o)) /\ Holds(m, o, args[i].tail)
                            /\ o + Len(args[i].tail) <= Len(m)
    BY <1>1, <2>1, Laid DEF args
  <2> QED BY <2>2 DEF i, at
<1>9. Holds(m, 0, Word(code)) /\ Holds(m, WordSize, Address(call.to))
      /\ Holds(m, 2 * WordSize, Word(call.value))
  <2>1. 0 + 1 = 1 /\ 1 + 1 = 2 /\ 2 + 1 = 3 /\ 0 * WordSize = 0 /\ 1 * WordSize = WordSize
        /\ 0 \in 0..3 /\ 1 \in 0..3 /\ 2 \in 0..3
    BY <1>5
  <2>2. ~ args[1].dynamic /\ args[1].head = Word(code)
        /\ ~ args[2].dynamic /\ args[2].head = Address(call.to)
        /\ ~ args[3].dynamic /\ args[3].head = Word(call.value)
    <3>1. code \in Nat
      BY <1>3
    <3> QED BY <3>1, <1>2, <1>3, WordArgument
  <2>3. Holds(m, 0 * WordSize, args[0 + 1].head) /\ Holds(m, 1 * WordSize, args[1 + 1].head)
        /\ Holds(m, 2 * WordSize, args[2 + 1].head)
    BY <1>8, <2>1, <2>2
  <2> QED BY <2>1, <2>2, <2>3
<1>10. PICK o \in Nat : /\ Holds(m, 3 * WordSize, Word(o)) /\ Holds(m, o, s.tail)
                        /\ o + Len(s.tail) <= Len(m)
  <2>1. 3 + 1 = 4 /\ 3 \in 0..3
    OBVIOUS
  <2>2. \E o \in Nat : /\ Holds(m, 3 * WordSize, Word(o)) /\ Holds(m, o, args[3 + 1].tail)
                       /\ o + Len(args[3 + 1].tail) <= Len(m)
    BY <1>2, <1>4, <1>8, <2>1
  <2> QED BY <1>2, <2>1, <2>2
<1>11. /\ s.tail \in Bytes /\ Holds(s.tail, 0, Word(Len(d)) \o d)
       /\ Word(Len(d)) \o d \in Bytes /\ Len(d) <= Len(s.tail)
  BY <1>3, StringBytes DEF s
<1>12. Len(s.tail) \in Nat /\ Len(d) \in Nat
  BY <1>3, <1>11, BytesAre
<1>13. Fits(o) /\ Fits(Len(d))
  <2>1. o <= Len(b) /\ Len(d) <= Len(b)
    BY <1>5, <1>10, <1>11, <1>12
  <2> QED BY <2>1, <1>12, FitsLess
<1>14. Word(code) \in Bytes /\ Address(call.to) \in Bytes /\ Word(call.value) \in Bytes /\ Word(o) \in Bytes
  <2>1. code \in Nat
    BY <1>3
  <2> QED BY <2>1, <1>3, WordBytes, AddressBytes
<1>15. p + 0 = p /\ 2 * WordSize \in Nat /\ 3 * WordSize \in Nat /\ p + WordSize \in Nat
       /\ p + 2 * WordSize \in Nat /\ p + 3 * WordSize \in Nat /\ p + o \in Nat
  BY <1>5
<1>16. WordAt(b, p) = code
  <2>1. Holds(b, p + 0, Word(code))
    BY <1>1, <1>9, <1>14, HoldsWithin
  <2> QED BY <2>1, <1>7, <1>15, HoldsWord
<1>17. WordAt(b, p + WordSize) = call.to
  <2>1. Holds(b, p + WordSize, Address(call.to))
    BY <1>1, <1>5, <1>9, <1>14, HoldsWithin
  <2> QED BY <2>1, <1>3, <1>15, HoldsAddress
<1>18. WordAt(b, p + 2 * WordSize) = call.value
  <2>1. Holds(b, p + 2 * WordSize, Word(call.value))
    BY <1>1, <1>9, <1>14, <1>15, HoldsWithin
  <2> QED BY <2>1, <1>3, <1>15, HoldsWord
<1>19. WordAt(b, p + 3 * WordSize) = o
  <2>1. Holds(b, p + 3 * WordSize, Word(o))
    BY <1>1, <1>10, <1>14, <1>15, HoldsWithin
  <2> QED BY <2>1, <1>13, <1>15, HoldsWord
<1>20. BytesAt(b, p + o) = d
  <2>1. Holds(b, p + o, s.tail)
    BY <1>1, <1>10, <1>11, HoldsWithin
  <2>2. Holds(b, (p + o) + 0, Word(Len(d)) \o d) /\ (p + o) + 0 = p + o
    BY <2>1, <1>11, <1>15, HoldsWithin
  <2> QED BY <2>2, <1>3, <1>13, <1>15, HoldsString
<1> QED BY <1>16, <1>17, <1>18, <1>19, <1>20, OperationCodes DEF code, d, Readable

(* The proxy decodes the calls that were encoded for it. *)
LEMMA ProxyDecodes ==
  ASSUME NEW n \in Nat, NEW calls, CallList(calls, n), \A i \in 1..n : Readable(calls[i]),
         NEW r, r.data = EncodeProxyCalls(calls), Fits(Len(EncodeProxyCalls(calls)))
  PROVE  ProxyPerforms(r) = calls
<1> DEFINE args == Tuples(calls, n)
           l == List(args)
           a == Assemble(<<l>>)
           g == Assemble(args)
           sel == Selector("proxy")
<1>1. /\ Len(calls) = n /\ Arguments(args, n)
      /\ \A i \in 1..n : args[i].dynamic = TRUE /\ args[i].tail = Assemble(Members(calls[i]))
  BY TuplesAre
<1>2. /\ l.tail = Word(n) \o g /\ Word(n) \in Bytes /\ Len(Word(n)) = WordSize /\ g \in Bytes
      /\ l.tail \in Bytes /\ Len(l.tail) = WordSize + Len(g) /\ n <= Len(g) /\ Len(g) \in Nat
  BY <1>1, ListBytes, WordBytes, Counted
<1>3. l.dynamic = TRUE
  BY DEF List
<1> HIDE DEF l
<1>4. Arguments(<<l>>, 1) /\ a = Word(WordSize) \o l.tail
  BY <1>2, <1>3, Alone
<1>5. /\ WordSize \in Nat /\ Word(WordSize) \in Bytes /\ Len(Word(WordSize)) = WordSize
      /\ WordSize # 0
  BY WordBytes, AbiAssumption
<1> HIDE DEF a, g
<1>6. a \in Bytes /\ Len(a) = WordSize + Len(l.tail)
  <2> DEFINE u == Word(WordSize)
             v == l.tail
  <2>1. u \in Bytes /\ v \in Bytes /\ Len(u) = WordSize /\ a = u \o v
    BY <1>2, <1>4, <1>5
  <2> HIDE DEF u, v
  <2>2. u \o v \in Bytes /\ Len(u \o v) = Len(u) + Len(v)
    BY <2>1, Joined
  <2> QED BY <2>1, <2>2 DEF v
<1>7. Tail(r.data) = a /\ Len(r.data) = 1 + Len(a)
  <2>1. 2 \in DOMAIN Names /\ Names[2] = "proxy"
    BY DEF Names
  <2>2. sel \in Nat
    BY <2>1, SelectorIs, AbiAssumption
  <2>3. r.data = <<sel>> \o a
    BY ProxyEncoded DEF EncodeArgsCall, a, l
  <2> HIDE DEF sel
  <2> QED BY <2>2, <2>3, <1>6, Selected
<1>8. Len(a) \in Nat /\ Fits(Len(a)) /\ Fits(n) /\ Fits(WordSize) /\ n <= Len(a) /\ Len(g) <= Len(a)
  <2>1. Len(a) \in Nat
    BY <1>6, BytesAre
  <2>2. Fits(Len(r.data))
    OBVIOUS
  <2>3. Len(a) <= Len(r.data) /\ n <= Len(a) /\ WordSize <= Len(a) /\ Len(g) <= Len(a)
    BY <2>1, <1>2, <1>5, <1>6, <1>7
  <2>4. Fits(Len(a))
    BY <2>1, <2>2, <2>3, FitsLess
  <2> QED BY <2>1, <2>3, <2>4, <1>5, FitsLess
<1>9. Holds(a, 0, Word(WordSize)) /\ Holds(a, WordSize, l.tail)
  <2>1. Holds(a, 0, Word(WordSize) \o l.tail)
    BY <1>4, <1>6, HoldsWhole
  <2>2. 0 + WordSize = WordSize
    BY <1>5
  <2> QED BY <2>1, <2>2, <1>2, <1>5, <1>6, HoldsParts
<1>10. Holds(a, WordSize, Word(n)) /\ Holds(a, 2 * WordSize, g)
  <2>1. WordSize + WordSize = 2 * WordSize
    BY <1>5
  <2>2. Holds(a, WordSize, Word(n) \o g) /\ WordSize \in Nat /\ Word(n) \in Bytes /\ g \in Bytes
        /\ Len(Word(n)) = WordSize
    BY <1>2, <1>5, <1>9
  <2>3. Holds(a, WordSize, Word(n)) /\ Holds(a, WordSize + Len(Word(n)), g)
    BY <2>2, <1>6, HoldsParts
  <2> QED BY <2>1, <2>2, <2>3
<1> DEFINE array == WordAt(a, 0) + WordSize
           tuple(i) == array + WordAt(a, array + (i - 1) * WordSize)
<1>11. array = 2 * WordSize /\ array - WordSize = WordSize /\ array \in Nat
  <2>1. WordAt(a, 0) = WordSize
    BY <1>6, <1>8, <1>9, HoldsWord
  <2> QED BY <2>1, <1>5
<1>12. WordAt(a, array - WordSize) = n
  BY <1>5, <1>6, <1>8, <1>10, <1>11, HoldsWord
<1> HIDE DEF array
<1> DEFINE Decoded(i) ==
  [operation |-> OperationOf(ProxyCodes, WordAt(a, tuple(i))),
   to |-> WordAt(a, tuple(i) + WordSize), value |-> WordAt(a, tuple(i) + 2 * WordSize),
   data |-> BytesAt(a, tuple(i) + WordAt(a, tuple(i) + 3 * WordSize))]
<1>13. ASSUME NEW i \in 1..n PROVE Decoded(i) = calls[i]
  <2> DEFINE at == (i - 1) * WordSize
             m == Assemble(Members(calls[i]))
  <2>1. at \in Nat /\ at = (i - 1) * WordSize
    <3>1. i - 1 \in Nat
      OBVIOUS
    <3> QED BY <3>1, <1>5
  <2>2. args[i].dynamic = TRUE /\ args[i].tail = m
    BY <1>1
  <2> HIDE DEF at, args, m
  <2>3. PICK o \in Nat : /\ Holds(g, at, Word(o)) /\ Holds(g, o, m)
                         /\ o + Len(m) <= Len(g)
    BY <1>1, <2>1, <2>2, Laid DEF g
  <2>4. m \in Bytes /\ Len(m) \in Nat
    BY MembersAre, BytesAre DEF CallList, m
  <2>5. o <= Len(g) /\ Len(m) <= Len(a)
    BY <2>3, <2>4, <1>2, <1>8
  <2>6. Fits(o) /\ Word(o) \in Bytes
    <3>1. o <= Len(a)
      BY <2>5, <1>2, <1>8
    <3> QED BY <3>1, <1>8, FitsLess, WordBytes
  <2>7. Holds(a, array + at, Word(o)) /\ Holds(a, array + o, m) /\ array + at \in Nat /\ array + o \in Nat
    <3>1. Holds(a, array, g) /\ array \in Nat /\ g \in Bytes /\ a \in Bytes
      BY <1>2, <1>6, <1>10, <1>11
    <3>2. Holds(a, array + at, Word(o))
      BY <3>1, <2>1, <2>3, <2>6, HoldsWithin
    <3>3. Holds(a, array + o, m)
      BY <3>1, <2>3, <2>4, HoldsWithin
    <3> QED BY <3>1, <3>2, <3>3, <2>1, <2>3
  <2>8. WordAt(a, array + at) = o
    BY <1>6, <2>6, <2>7, HoldsWord
  <2>9. tuple(i) = array + o
    BY <2>8 DEF at
  <2> HIDE DEF tuple
  <2> DEFINE p == tuple(i)
  <2>10. p \in Nat /\ Holds(a, p, m)
    BY <2>7, <2>9
  <2> HIDE DEF p
  <2>11. /\ OperationOf(ProxyCodes, WordAt(a, p)) = calls[i].operation
         /\ WordAt(a, p + WordSize) = calls[i].to
         /\ WordAt(a, p + 2 * WordSize) = calls[i].value
         /\ BytesAt(a, p + WordAt(a, p + 3 * WordSize)) = calls[i].data
    BY <1>6, <1>8, <2>5, <2>10, ReadsTuple DEF m
  <2>12. Decoded(i) = [operation |-> calls[i].operation, to |-> calls[i].to,
                       value |-> calls[i].value, data |-> calls[i].data]
    BY <2>11 DEF p
  <2>13. Readable(calls[i])
    OBVIOUS
  <2> HIDE DEF Decoded
  <2> QED BY <2>12, <2>13 DEF Readable
<1>14. ProxyPerforms(r) = [i \in 1 .. WordAt(a, array - WordSize) |-> Decoded(i)]
  BY <1>7 DEF ProxyPerforms, array
<1>15. calls = [i \in 1..n |-> calls[i]]
  BY DEF CallList
<1> HIDE DEF Decoded
<1> QED BY <1>12, <1>13, <1>14, <1>15

(* w is what a walk over the first n offsets finds: e at each, and s leads *)
(* to the next.                                                            *)
Walk(w, n, e, s) ==
  w = [p \in Nat |-> IF p >= n THEN <<>> ELSE <<e[p]>> \o w[s[p]]]

(* A walk that always advances comes to an end. *)
LEMMA Walks ==
  ASSUME NEW n \in Nat, NEW E, NEW e \in [Nat -> E], NEW s \in [Nat -> Nat],
         \A p \in Nat : s[p] > p
  PROVE  \E w : Walk(w, n, e, s)
<1> DEFINE V == [Nat -> Seq(E)]
           After(v) == [p \in Nat |-> IF p >= n THEN <<>> ELSE <<e[p]>> \o v[s[p]]]
           next == [x \in Nat \X V |-> After(x[2])]
           first == [p \in Nat |-> <<>>]
<1>1. \A v \in V : After(v) \in V
  <2> SUFFICES ASSUME NEW v \in V, NEW p \in Nat
               PROVE  (IF p >= n THEN <<>> ELSE <<e[p]>> \o v[s[p]]) \in Seq(E)
    OBVIOUS
  <2>1. <<e[p]>> \in Seq(E) /\ v[s[p]] \in Seq(E) /\ <<>> \in Seq(E)
    BY EmptySeq
  <2>2. <<e[p]>> \o v[s[p]] \in Seq(E)
    BY <2>1, ConcatProperties
  <2> QED BY <2>1, <2>2
<1>2. first \in V
  BY EmptySeq
<1> HIDE DEF V, After, first
<1>3. Within(next, V)
  BY <1>1 DEF Within
<1>4. PICK g \in [Nat -> V] : g[0] = first /\ \A k \in Nat : g[k + 1] = next[<<k, g[k]>>]
  <2> HIDE DEF next
  <2> QED BY <1>2, <1>3, Recursion
<1>5. \A k \in Nat : g[k] \in V /\ g[k + 1] = After(g[k])
  BY <1>4
<1> HIDE DEF next
<1>6. ASSUME NEW k \in Nat, NEW p \in Nat
      PROVE  g[k + 1][p] = IF p >= n THEN <<>> ELSE <<e[p]>> \o g[k][s[p]]
  <2>1. After(g[k])[p] = IF p >= n THEN <<>> ELSE <<e[p]>> \o g[k][s[p]]
    BY DEF After
  <2> QED BY <2>1, <1>5
<1> DEFINE T == {k \in Nat : \A p \in Nat : n <= p + k => g[k + 1][p] = g[k][p]}
<1>7. T = Nat
  <2>1. 0 \in T
    <3> SUFFICES ASSUME NEW p \in Nat, n <= p + 0 PROVE g[0 + 1][p] = g[0][p]
      OBVIOUS
    <3>1. g[0][p] = <<>>
      BY <1>4 DEF first
    <3>2. p >= n
      OBVIOUS
    <3> QED BY <3>1, <3>2, <1>6
  <2>2. ASSUME NEW k \in T PROVE k + 1 \in T
    <3> SUFFICES ASSUME NEW p \in Nat, n <= p + (k + 1) PROVE g[(k + 1) + 1][p] = g[k + 1][p]
      OBVIOUS
    <3>1. k \in Nat /\ k + 1 \in Nat
      OBVIOUS
    <3>2. s[p] \in Nat /\ n <= s[p] + k
      <4>1. s[p] \in Nat /\ s[p] > p
        OBVIOUS
      <4> QED BY <4>1, <3>1
    <3>3. g[k + 1][s[p]] = g[k][s[p]]
      BY <3>2
    <3> HIDE DEF T
    <3>4. g[k + 1][p] = IF p >= n THEN <<>> ELSE <<e[p]>> \o g[k][s[p]]
      BY <3>1, <1>6
    <3>5. g[(k + 1) + 1][p] = IF p >= n THEN <<>> ELSE <<e[p]>> \o g[k + 1][s[p]]
      BY <3>1, <1>6
    <3> QED BY <3>3, <3>4, <3>5
  <2> HIDE DEF T
  <2> QED BY <2>1, <2>2, Induct DEF T
<1>8. ASSUME NEW p \in Nat PROVE g[n + 1][p] = g[n][p]
  <2>1. n <= p + n
    OBVIOUS
  <2>2. n \in T
    BY <1>7
  <2> QED BY <2>1, <2>2
<1> HIDE DEF T
<1>9. g[n] = [p \in Nat |-> g[n][p]]
  <2>1. g[n] \in V
    BY <1>5
  <2> QED BY <2>1 DEF V
<1>10. \A p \in Nat : g[n][p] = IF p >= n THEN <<>> ELSE <<e[p]>> \o g[n][s[p]]
  BY <1>6, <1>8
<1>11. Walk(g[n], n, e, s)
  <2> DEFINE w == g[n]
  <2>1. w = [p \in Nat |-> w[p]] /\ \A p \in Nat : w[p] = IF p >= n THEN <<>> ELSE <<e[p]>> \o w[s[p]]
    BY <1>9, <1>10
  <2> HIDE DEF w
  <2>2. Walk(w, n, e, s)
    BY <2>1 DEF Walk
  <2> QED BY <2>2 DEF w
<1> QED BY <1>11

(* A walk that comes upon the members of a list one after the other finds  *)
(* the list.                                                               *)
LEMMA Walked ==
  ASSUME NEW n \in Nat, NEW e, NEW s, NEW w, Walk(w, n, e, s),
         NEW m \in Nat, NEW calls, calls = [i \in 1..m |-> calls[i]],
         NEW o, o[0] = 0, o[m] = n,
         \A i \in 1..m : /\ o[i - 1] \in Nat /\ o[i - 1] < n
                         /\ e[o[i - 1]] = calls[i] /\ s[o[i - 1]] = o[i]
  PROVE  w[0] = calls
<1> DEFINE E == {calls[i] : i \in 1..m}
           Rest(x, j) == /\ x \in Seq(E) /\ Len(x) = j
                         /\ \A k \in 1..j : x[k] = calls[(m - j) + k]
           T == {j \in Nat : j <= m => Rest(w[o[m - j]], j)}
<1>1. \A p \in Nat : w[p] = IF p >= n THEN <<>> ELSE <<e[p]>> \o w[s[p]]
  BY Zenon DEF Walk
<1>2. \A i \in 1..m : w[o[i - 1]] = <<calls[i]>> \o w[o[i]]
  <2> SUFFICES ASSUME NEW i \in 1..m PROVE w[o[i - 1]] = <<calls[i]>> \o w[o[i]]
    OBVIOUS
  <2>1. /\ o[i - 1] \in Nat /\ o[i - 1] < n
        /\ e[o[i - 1]] = calls[i] /\ s[o[i - 1]] = o[i]
    OBVIOUS
  <2>2. ~ (o[i - 1] >= n)
    BY <2>1
  <2> QED BY <2>1, <2>2, <1>1
<1>3. Rest(w[o[m]], 0)
  <2>1. w[o[m]] = <<>>
    <3>1. w[n] = IF n >= n THEN <<>> ELSE <<e[n]>> \o w[s[n]]
      BY <1>1
    <3>2. n >= n
      OBVIOUS
    <3> QED BY <3>1, <3>2
  <2>2. <<>> \in Seq(E) /\ Len(<<>>) = 0
    BY EmptySeq
  <2> HIDE DEF E
  <2> QED BY <2>1, <2>2
<1>4. ASSUME NEW j \in Nat, j + 1 <= m, Rest(w[o[m - j]], j)
      PROVE  Rest(w[o[m - (j + 1)]], j + 1)
  <2> DEFINE i == m - j
             x == w[o[i]]
             y == <<calls[i]>>
             z == y \o x
  <2>1. i \in 1..m /\ i - 1 = m - (j + 1)
    BY <1>4
  <2>2. w[o[m - (j + 1)]] = z
    BY <2>1, <1>2
  <2>3. x \in Seq(E) /\ Len(x) = j /\ \A k \in 1..j : x[k] = calls[i + k]
    BY <1>4
  <2>4. y \in Seq(E) /\ Len(y) = 1 /\ y[1] = calls[i]
    BY <2>1
  <2> HIDE DEF x, y, E, i
  <2>5. z \in Seq(E) /\ Len(z) = j + 1
    <3>1. z \in Seq(E) /\ Len(z) = Len(y) + Len(x)
      BY <2>3, <2>4, ConcatProperties
    <3> QED BY <3>1, <2>3, <2>4
  <2>6. \A k \in 1 .. Len(y) + Len(x) : z[k] = IF k <= Len(y) THEN y[k] ELSE x[k - Len(y)]
    BY <2>3, <2>4, ConcatProperties
  <2> HIDE DEF z
  <2>7. ASSUME NEW k \in 1 .. j + 1 PROVE z[k] = calls[(m - (j + 1)) + k]
    <3>1. k \in 1 .. Len(y) + Len(x)
      BY <2>3, <2>4
    <3>2. CASE k = 1
      <4>1. (m - (j + 1)) + 1 = i
        BY <2>1
      <4>2. z[1] = y[1]
        BY <3>1, <3>2, <2>4, <2>6
      <4> QED BY <4>1, <4>2, <3>2, <2>4
    <3>3. CASE k # 1
      <4>1. k - 1 \in 1..j /\ ~ (k <= 1) /\ i + (k - 1) = (m - (j + 1)) + k
        BY <3>3, <2>1 DEF i
      <4>2. z[k] = x[k - 1]
        BY <3>1, <4>1, <2>4, <2>6
      <4> QED BY <4>1, <4>2, <2>3
    <3> QED BY <3>2, <3>3
  <2> QED BY <2>2, <2>5, <2>7
<1> HIDE DEF Rest
<1>5. T = Nat
  <2>1. 0 \in T
    <3>1. m - 0 = m
      OBVIOUS
    <3> QED BY <3>1, <1>3
  <2>2. ASSUME NEW j \in T PROVE j + 1 \in T
    <3>1. j + 1 <= m => j <= m
      OBVIOUS
    <3> QED BY <3>1, <2>2, <1>4
  <2> HIDE DEF T
  <2> QED BY <2>1, <2>2, Induct DEF T
<1>6. Rest(w[0], m)
  <2>1. m \in T /\ m - m = 0 /\ m <= m
    BY <1>5
  <2> QED BY <2>1
<1>7. w[0] \in Seq(E) /\ Len(w[0]) = m /\ \A k \in 1..m : w[0][k] = calls[k]
  <2>1. \A k \in 1..m : (m - m) + k = k
    OBVIOUS
  <2> HIDE DEF E
  <2> QED BY <2>1, <1>6 DEF Rest
<1>8. calls \in Seq(E) /\ Len(calls) = m
  <2> DEFINE c == [i \in 1..m |-> calls[i]]
  <2>1. c \in Seq(E) /\ Len(c) = m
    OBVIOUS
  <2>2. c = calls
    OBVIOUS
  <2> HIDE DEF c, E
  <2> QED BY <2>1, <2>2
<1> HIDE DEF E
<1> QED BY <1>7, <1>8, SeqEqual

(* Whatever is read of a string is bytes. *)
LEMMA ReadsBytes ==
  ASSUME NEW b \in Bytes, NEW i \in Nat
  PROVE  /\ \A n \in Nat : At(b, i, n) \in Bytes /\ Len(At(b, i, n)) = n
         /\ WordAt(b, i) \in Nat
         /\ Len(BytesAt(b, i)) \in Nat
<1>1. ASSUME NEW j \in Nat, NEW n \in Nat
      PROVE  At(b, j, n) \in Bytes /\ Len(At(b, j, n)) = n
  <2>1. \A k \in 1..n : (IF j + k <= Len(b) THEN b[j + k] ELSE 0) \in Nat
    <3> SUFFICES ASSUME NEW k \in 1..n, j + k <= Len(b) PROVE b[j + k] \in Nat
      OBVIOUS
    <3>1. Len(b) \in Nat /\ j + k \in 1 .. Len(b)
      BY BytesAre
    <3> QED BY <3>1, BytesAre
  <2> DEFINE a == [k \in 1..n |-> IF j + k <= Len(b) THEN b[j + k] ELSE 0]
  <2>2. a \in Seq(Nat) /\ Len(a) = n
    BY <2>1
  <2> QED BY <2>2 DEF At, Bytes
<1>2. ASSUME NEW j \in Nat PROVE WordAt(b, j) \in Nat
  <2> DEFINE w == At(b, j, WordSize)
  <2>1. w \in Seq(Nat) /\ Len(w) \in Nat
    BY <1>1, AbiAssumption DEF Bytes
  <2> HIDE DEF w
  <2>2. Number(w) \in Nat
    BY <2>1, Numbers
  <2> QED BY <2>2 DEF WordAt, w
<1>3. Len(BytesAt(b, i)) \in Nat
  <2>1. i + WordSize \in Nat
    BY AbiAssumption
  <2> QED BY <2>1, <1>1, <1>2 DEF BytesAt
<1> QED BY <1>1, <1>2, <1>3

(* How a call is packed for the multisend contract. *)
Packed(call) ==
  <<SafeCode(call.operation)>> \o PackedAddress(call.to) \o Word(call.value)
    \o Word(Len(call.data)) \o call.data
(* The calls of a list, packed. *)
AllPacked(calls, n) == [i \in 1..n |-> Packed(calls[i])]

(* A packed call has the head the contract expects, and is read back.      *)
LEMMA PackedIs ==
  ASSUME NEW call, CallOk(call)
  PROVE  /\ Packed(call) \in Bytes /\ Len(Packed(call)) = EntryHead + Len(call.data)
         /\ Len(call.data) \in Nat
         /\ \A b \in Bytes, p \in Nat :
              Holds(b, p, Packed(call)) =>
                /\ Holds(b, p, <<SafeCode(call.operation)>>)
                /\ Holds(b, p + 1, <<call.to>>)
                /\ Holds(b, p + 2, Word(call.value))
                /\ Holds(b, p + 2 + WordSize, Word(Len(call.data)) \o call.data)
<1> DEFINE o == <<SafeCode(call.operation)>>
           t == <<call.to>>
           v == Word(call.value)
           l == Word(Len(call.data))
           d == call.data
           w == WordSize
           e == Len(d)
<1>1. /\ o \in Bytes /\ Len(o) = 1 /\ t \in Bytes /\ Len(t) = 1
      /\ v \in Bytes /\ Len(v) = w /\ l \in Bytes /\ Len(l) = w /\ d \in Bytes /\ e \in Nat /\ w \in Nat
  <2>1. SafeCode(call.operation) \in Nat
    BY DEF SafeCode
  <2>2. o \in Bytes /\ Len(o) = 1 /\ t \in Bytes /\ Len(t) = 1
    BY <2>1 DEF CallOk, Bytes
  <2>3. call.value \in Nat /\ d \in Bytes /\ e \in Nat
    BY BytesAre DEF CallOk
  <2> HIDE DEF o, t, e
  <2> QED BY <2>2, <2>3, WordBytes, AbiAssumption DEF e
<1>2. Packed(call) = (((o \o t) \o v) \o l) \o d
  BY DEF Packed, PackedAddress
<1>3. EntryHead + Len(call.data) = (((1 + 1) + w) + w) + e
  BY <1>1 DEF EntryHead
<1> HIDE DEF o, t, v, l, d, w, e
<1> DEFINE f == o \o t
           g == f \o v
           h == g \o l
           c == h \o d
           x == l \o d
<1>4. f \in Bytes /\ Len(f) = 1 + 1
  <2>1. f \in Bytes /\ Len(f) = Len(o) + Len(t)
    BY <1>1, Joined
  <2> HIDE DEF f
  <2> QED BY <1>1, <2>1
<1>5. g \in Bytes /\ Len(g) = (1 + 1) + w
  <2> HIDE DEF f
  <2>1. g \in Bytes /\ Len(g) = Len(f) + Len(v)
    BY <1>1, <1>4, Joined
  <2> HIDE DEF g
  <2> QED BY <1>1, <1>4, <2>1
<1>6. h \in Bytes /\ Len(h) = ((1 + 1) + w) + w
  <2> HIDE DEF g
  <2>1. h \in Bytes /\ Len(h) = Len(g) + Len(l)
    BY <1>1, <1>5, Joined
  <2> HIDE DEF h
  <2> QED BY <1>1, <1>5, <2>1
<1>7. c \in Bytes /\ Len(c) = (((1 + 1) + w) + w) + e
  <2> HIDE DEF h
  <2>1. c \in Bytes /\ Len(c) = Len(h) + Len(d)
    BY <1>1, <1>6, Joined
  <2> QED BY <2>1, <1>6 DEF e
<1>8. c = g \o x /\ x \in Bytes
  <2> HIDE DEF g
  <2> HIDE DEF f, h, c, x
  <2>0. g \in Bytes /\ l \in Bytes /\ d \in Bytes
    BY <1>1, <1>5
  <2>1. (g \o l) \o d = g \o (l \o d)
    BY <2>0, SMTT(30), JoinedThrice
  <2>2. l \o d \in Bytes
    BY <1>1, Joined
  <2> QED BY <2>1, <2>2 DEF c, h, x
<1>9. ASSUME NEW b \in Bytes, NEW p \in Nat, Holds(b, p, c)
      PROVE  /\ Holds(b, p, o) /\ Holds(b, p + 1, t) /\ Holds(b, p + 2, v)
             /\ Holds(b, (p + 2) + w, x)
  <2>1. Holds(b, p, g) /\ Holds(b, p + Len(g), x)
    <3> HIDE DEF g, x, c
    <3> QED BY <1>5, <1>8, <1>9, HoldsParts
  <2>2. p + Len(g) = (p + 2) + w
    BY <1>1, <1>5
  <2>3. Holds(b, p, f) /\ Holds(b, p + Len(f), v)
    <3> HIDE DEF f
    <3> QED BY <2>1, <1>1, <1>4, HoldsParts
  <2>4. Holds(b, p, o) /\ Holds(b, p + Len(o), t)
    BY <2>3, <1>1, HoldsParts
  <2>5. p + Len(f) = p + 2 /\ p + Len(o) = p + 1
    BY <1>1, <1>4
  <2> HIDE DEF f, g, x
  <2> QED BY <2>1, <2>2, <2>3, <2>4, <2>5
<1>10. Packed(call) = c
  BY <1>2
<1> HIDE DEF c
<1> QED BY <1>1, <1>3, <1>7, <1>9, <1>10 DEF o, t, v, l, d, w, e

(* What PackMultisend makes of calls is the packed calls in a row. *)
LEMMA PackMultisendIs ==
  ASSUME NEW n \in Nat, NEW calls, CallList(calls, n)
  PROVE  /\ PackMultisend(calls) = Flat(AllPacked(calls, n), n)
         /\ PackMultisend(calls) \in Bytes
         /\ \A i \in 1..n : AllPacked(calls, n)[i] = Packed(calls[i]) /\ Packed(calls[i]) \in Bytes
<1>1. DOMAIN calls = 1..n
  BY TuplesAre
<1>2. \A i \in 1..n : AllPacked(calls, n)[i] = Packed(calls[i]) /\ Packed(calls[i]) \in Bytes
  BY PackedIs DEF CallList, AllPacked
<1>3. PackMultisend(calls) = Flat(AllPacked(calls, n), n)
  <2>1. [i \in 1..n |-> Packed(calls[i])] = [i \in 1..n |-> AllPacked(calls, n)[i]]
    BY <1>2
  <2>2. PackMultisend(calls) = FlattenSeq([i \in 1..n |-> Packed(calls[i])])
    BY <1>1 DEF PackMultisend, Packed
  <2> QED BY <2>1, <2>2 DEF Flat
<1>4. Flat(AllPacked(calls, n), n) \in Bytes
  <2>1. \A i \in 1..n : AllPacked(calls, n)[i] \in Bytes
    BY <1>2
  <2>2. n \in 0..n
    OBVIOUS
  <2> QED BY <2>1, <2>2, FlatBytes
<1> QED BY <1>2, <1>3, <1>4

(* One step of the contract's walk. *)
LEMMA ReadsPacked ==
  ASSUME NEW call, Readable(call), NEW b \in Bytes, NEW p \in Nat, Fits(Len(b)),
         Holds(b, p, Packed(call)), Len(Packed(call)) <= Len(b)
  PROVE  /\ At(b, p + 1, 1)[1] = call.to /\ WordAt(b, p + 2) = call.value
         /\ BytesAt(b, p + 2 + WordSize) = call.data
         /\ OperationOf(SafeCodes, At(b, p, 1)[1]) = call.operation
<1>1. CallOk(call) /\ Fits(call.value) /\ call.data \in Bytes /\ call.operation \in {"Call", "DelegateCall"}
  BY DEF Readable, CallOk
<1>2. /\ Holds(b, p, <<SafeCode(call.operation)>>)
      /\ Holds(b, p + 1, <<call.to>>)
      /\ Holds(b, p + 2, Word(call.value))
      /\ Holds(b, p + 2 + WordSize, Word(Len(call.data)) \o call.data)
      /\ Len(Packed(call)) = EntryHead + Len(call.data) /\ Len(call.data) \in Nat
  BY <1>1, PackedIs
<1>3. Fits(Len(call.data))
  <2>1. Len(b) \in Nat /\ EntryHead \in Nat
    BY BytesAre, AbiAssumption DEF EntryHead
  <2>2. Len(call.data) <= Len(b)
    BY <2>1, <1>2
  <2> QED BY <2>2, <1>2, FitsLess
<1>4. p + 1 \in Nat /\ p + 2 \in Nat /\ p + 2 + WordSize \in Nat
  BY AbiAssumption
<1>5. ASSUME NEW x \in Nat, NEW i \in Nat, Holds(b, i, <<x>>) PROVE At(b, i, 1)[1] = x
  <2> DEFINE w == <<x>>
  <2>1. w \in Bytes /\ Len(w) = 1 /\ w[1] = x
    BY DEF Bytes
  <2> HIDE DEF w
  <2>2. At(b, i, Len(w)) = w
    BY <2>1, <1>5, HoldsAt DEF w
  <2> QED BY <2>1, <2>2
<1>6. At(b, p + 1, 1)[1] = call.to
  BY <1>1, <1>2, <1>4, <1>5 DEF CallOk
<1>7. At(b, p, 1)[1] = SafeCode(call.operation)
  <2>1. SafeCode(call.operation) \in Nat
    BY DEF SafeCode
  <2> QED BY <2>1, <1>2, <1>5
<1>8. WordAt(b, p + 2) = call.value
  BY <1>1, <1>2, <1>4, HoldsWord
<1>9. BytesAt(b, p + 2 + WordSize) = call.data
  BY <1>1, <1>2, <1>3, <1>4, HoldsString
<1> QED BY <1>1, <1>6, <1>7, <1>8, <1>9, OperationCodes

(* The multisend contract reads the calls that were packed for it. *)
LEMMA Unpacked ==
  ASSUME NEW n \in Nat, NEW calls, CallList(calls, n), \A i \in 1..n : Readable(calls[i]),
         Fits(Len(PackMultisend(calls)))
  PROVE  MultiSent(PackMultisend(calls)) = calls
<1> DEFINE b == PackMultisend(calls)
           entry(p) == [to |-> At(b, p + 1, 1)[1], value |-> WordAt(b, p + 2),
                        data |-> BytesAt(b, p + 2 + WordSize),
                        operation |-> OperationOf(SafeCodes, At(b, p, 1)[1])]
           e == [p \in Nat |-> entry(p)]
           s == [p \in Nat |-> p + EntryHead + Len(entry(p).data)]
           w == CHOOSE walk : walk = [p \in Nat |->
                  IF p >= Len(b) THEN <<>>
                  ELSE <<entry(p)>> \o walk[p + EntryHead + Len(entry(p).data)]]
           packed == AllPacked(calls, n)
           o == [i \in 0..n |-> Len(Flat(packed, i))]
<1>1. MultiSent(b) = w[0]
  BY DEF MultiSent
<1>2. /\ b = Flat(packed, n) /\ b \in Bytes
      /\ \A i \in 1..n : packed[i] = Packed(calls[i]) /\ packed[i] \in Bytes
  BY PackMultisendIs
<1>3. Len(b) \in Nat /\ EntryHead \in Nat \ {0}
  <2>1. EntryHead \in Nat \ {0}
    BY AbiAssumption DEF EntryHead
  <2> HIDE DEF b
  <2> QED BY <2>1, <1>2, BytesAre
<1> HIDE DEF b, packed
<1>4. \A p \in Nat : Len(entry(p).data) \in Nat
  <2> SUFFICES ASSUME NEW p \in Nat PROVE Len(BytesAt(b, p + 2 + WordSize)) \in Nat
    OBVIOUS
  <2>1. p + 2 + WordSize \in Nat
    BY AbiAssumption
  <2> QED BY <2>1, <1>2, ReadsBytes
<1> DEFINE E == {e[p] : p \in Nat}
<1>5. /\ e \in [Nat -> E] /\ s \in [Nat -> Nat] /\ \A p \in Nat : s[p] > p
      /\ \A p \in Nat : e[p] = entry(p) /\ s[p] = p + EntryHead + Len(entry(p).data)
  <2> HIDE DEF entry
  <2> QED BY <1>3, <1>4
<1> HIDE DEF e, s, entry, E
<1>6. Walk(w, Len(b), e, s)
  <2> DEFINE Walks2(u) == u = [p \in Nat |->
               IF p >= Len(b) THEN <<>>
               ELSE <<entry(p)>> \o u[p + EntryHead + Len(entry(p).data)]]
  <2>1. \A u : Walk(u, Len(b), e, s) <=> Walks2(u)
    <3> SUFFICES ASSUME NEW u
                 PROVE  [p \in Nat |-> IF p >= Len(b) THEN <<>> ELSE <<e[p]>> \o u[s[p]]]
                          = [p \in Nat |-> IF p >= Len(b) THEN <<>>
                               ELSE <<entry(p)>> \o u[p + EntryHead + Len(entry(p).data)]]
      BY DEF Walk
    <3> QED BY <1>5
  <2>2. \E u : Walk(u, Len(b), e, s)
    BY <1>3, <1>5, Walks
  <2>3. w = CHOOSE u : Walks2(u)
    OBVIOUS
  <2> HIDE DEF Walks2, w
  <2> QED BY <2>1, <2>2, <2>3
<1> HIDE DEF w
<1>7. o[0] = 0 /\ o[n] = Len(b) /\ \A i \in 0..n : o[i] = Len(Flat(packed, i)) /\ o[i] \in Nat
  <2>1. /\ Flat(packed, 0) = <<>>
        /\ \A k \in 0..n : Flat(packed, k) \in Bytes
    BY <1>2, FlatBytes
  <2>2. 0 \in 0..n /\ n \in 0..n
    OBVIOUS
  <2>3. \A k \in 0..n : Len(Flat(packed, k)) \in Nat
    BY <2>1, BytesAre
  <2> QED BY <2>1, <2>2, <2>3, <1>2, BytesAre
<1> HIDE DEF o
<1>8. ASSUME NEW i \in 1..n
      PROVE  /\ o[i - 1] \in Nat /\ o[i - 1] < Len(b)
             /\ e[o[i - 1]] = calls[i] /\ s[o[i - 1]] = o[i]
  <2> DEFINE p == o[i - 1]
  <2>1. i - 1 \in 0..n /\ i \in 0..n /\ i - 1 \in 0 .. n - 1 /\ (i - 1) + 1 = i
    OBVIOUS
  <2>2. p \in Nat /\ p = Len(Flat(packed, i - 1)) /\ o[i] = Len(Flat(packed, i)) /\ o[i] \in Nat
    BY <2>1, <1>7
  <2>3. Holds(b, p, packed[i]) /\ p + Len(packed[i]) <= Len(b)
    <3>1. Holds(Flat(packed, n), Len(Flat(packed, i - 1)), packed[i])
          /\ Len(Flat(packed, i - 1)) + Len(packed[i]) <= Len(Flat(packed, n))
      BY <1>2, FlatHolds
    <3> QED BY <3>1, <2>2, <1>2
  <2>4. packed[i] = Packed(calls[i]) /\ Readable(calls[i]) /\ packed[i] \in Bytes
    BY <1>2
  <2>5. CallOk(calls[i])
    BY <2>4 DEF Readable
  <2>6. Len(packed[i]) = EntryHead + Len(calls[i].data) /\ Len(calls[i].data) \in Nat
    BY <2>4, <2>5, PackedIs
  <2>7. o[i] = p + Len(packed[i])
    <3>1. Flat(packed, i - 1) \in Bytes /\ Flat(packed, i) = Flat(packed, i - 1) \o packed[i]
      <4>1. /\ \A k \in 0..n : Flat(packed, k) \in Bytes
            /\ \A k \in 0 .. n - 1 : Flat(packed, k + 1) = Flat(packed, k) \o packed[k + 1]
        BY <1>2, FlatBytes
      <4>2. Flat(packed, (i - 1) + 1) = Flat(packed, i - 1) \o packed[(i - 1) + 1]
        BY <4>1, <2>1
      <4> QED BY <4>1, <4>2, <2>1
    <3>2. Len(Flat(packed, i)) = Len(Flat(packed, i - 1)) + Len(packed[i])
      BY <3>1, <2>4, Joined
    <3> QED BY <3>2, <2>2
  <2> HIDE DEF p
  <2> DEFINE d == Len(calls[i].data)
             l == Len(packed[i])
  <2> HIDE DEF d, l
  <2>8. Len(packed[i]) <= Len(b) /\ p < Len(b)
    <3>1. l = EntryHead + d /\ d \in Nat /\ p + l <= Len(b) /\ p \in Nat
      BY <2>2, <2>3, <2>6 DEF d, l
    <3>2. l <= Len(b) /\ p < Len(b)
      BY <3>1, <1>3
    <3> QED BY <3>2 DEF l
  <2>9. Fits(Len(b))
    BY DEF b
  <2>10. /\ At(b, p + 1, 1)[1] = calls[i].to /\ WordAt(b, p + 2) = calls[i].value
         /\ BytesAt(b, p + 2 + WordSize) = calls[i].data
         /\ OperationOf(SafeCodes, At(b, p, 1)[1]) = calls[i].operation
    BY <1>2, <2>2, <2>3, <2>4, <2>8, <2>9, ReadsPacked
  <2>11. entry(p) = [to |-> calls[i].to, value |-> calls[i].value, data |-> calls[i].data,
                     operation |-> calls[i].operation]
    BY <2>10 DEF entry
  <2>12. entry(p) = calls[i]
    BY <2>11, <2>4 DEF Readable
  <2>13. e[p] = calls[i] /\ s[p] = p + EntryHead + Len(calls[i].data)
    BY <2>2, <2>12, <1>5
  <2>14. s[p] = o[i]
    <3>1. l = EntryHead + d /\ d \in Nat /\ o[i] = p + l /\ s[p] = p + EntryHead + d /\ p \in Nat
      BY <2>2, <2>6, <2>7, <2>13 DEF d, l, p
    <3> QED BY <3>1, <1>3
  <2> QED BY <2>2, <2>8, <2>13, <2>14 DEF p
<1>9. calls = [i \in 1..n |-> calls[i]]
  BY DEF CallList
<1>10. w[0] = calls
  BY SMTT(30), <1>3, <1>6, <1>7, <1>8, <1>9, Walked
<1> QED BY <1>1, <1>10 DEF b

---------------------------------------------------------------------------
(* What is performed is what was asked for. *)

(* The items a wallet can be asked for: each can be encoded and read back. *)
Legible(items) ==
  /\ items \in Seq(Items)
  /\ \A i \in DOMAIN items : /\ Legal(items[i].intent) /\ Decodes(CallOf(items[i]))
                             /\ Fits(Len(Calldata(items[i].intent)))

(* What a call means to the contract it reaches. *)
Occurs(call) == [intent |-> Understood(call.to, call.data), value |-> call.value,
                 operation |-> call.operation]

(* A call made of an item can be decoded, and means the item. *)
LEMMA CallMeans ==
  ASSUME NEW item \in Items, Legal(item.intent), Decodes(CallOf(item)),
         Fits(Len(Calldata(item.intent)))
  PROVE  /\ Readable(CallOf(item)) /\ Occurs(CallOf(item)) = item
         /\ CallOf(item).value = item.value /\ CallOf(item).operation = item.operation
<1> DEFINE i == item.intent
           t == Target(i)
           d == Calldata(i)
           call == CallOf(item)
<1>1. /\ i \in Intents /\ item.value \in Nat /\ item.operation \in {"Call", "DelegateCall"}
      /\ item = [intent |-> i, value |-> item.value, operation |-> item.operation]
  BY DEF Items
<1>2. t \in Nat /\ d \in Bytes /\ Understood(t, d) = i
  BY <1>1, AddressesAre, CalldataIs, IsUnderstood
<1>3. call = [to |-> t, data |-> d, value |-> item.value, operation |-> item.operation]
  BY DEF CallOf
<1>4. Fits(call.value)
  BY DEF Decodes
<1> HIDE DEF i, t, d, call
<1>5. /\ call.to = t /\ call.data = d /\ call.value = item.value
      /\ call.operation = item.operation
  BY <1>3
<1>6. Readable(call)
  BY <1>1, <1>2, <1>3, <1>4, <1>5 DEF Readable, CallOk
<1>7. Occurs(call) = item
  BY <1>1, <1>2, <1>5 DEF Occurs
<1> QED BY <1>5, <1>6, <1>7 DEF call

(* So do the calls made of a list of items. *)
LEMMA CallsMean ==
  ASSUME NEW items, Legible(items), NEW calls, calls = CallsOf(items), NEW n, n = Len(items)
  PROVE  /\ n \in Nat /\ DOMAIN items = 1..n /\ DOMAIN calls = 1..n /\ Len(calls) = n
         /\ CallList(calls, n) /\ Happened(calls) = items
         /\ \A i \in 1..n : /\ Readable(calls[i]) /\ calls[i] = CallOf(items[i])
                            /\ calls[i].value = items[i].value
                            /\ calls[i].operation = items[i].operation
                            /\ calls[i].operation \in {"Call", "DelegateCall"}
<1>1. n \in Nat /\ DOMAIN items = 1..n /\ \A i \in 1..n : items[i] \in Items
  BY DEF Legible
<1>2. calls = [i \in 1..n |-> CallOf(items[i])]
  BY <1>1 DEF CallsOf
<1>3. DOMAIN calls = 1..n /\ Len(calls) = n /\ \A i \in 1..n : calls[i] = CallOf(items[i])
  BY <1>1, <1>2
<1>4. ASSUME NEW i \in 1..n
      PROVE  /\ Readable(calls[i]) /\ Occurs(calls[i]) = items[i]
             /\ calls[i].value = items[i].value /\ calls[i].operation = items[i].operation
  BY <1>1, <1>3, CallMeans DEF Legible
<1>5. calls = [i \in 1..n |-> calls[i]]
  BY <1>2, <1>3
<1>6. CallList(calls, n)
  BY <1>4, <1>5 DEF CallList, Readable
<1>7. Happened(calls) = items
  <2>1. Happened(calls) = [i \in 1..n |-> Occurs(calls[i])]
    BY <1>3 DEF Happened, Occurs
  <2>2. items = [i \in 1..n |-> items[i]]
    <3>1. items \in Seq(Items)
      BY DEF Legible
    <3> QED BY <3>1, <1>1
  <2>3. [i \in 1..n |-> Occurs(calls[i])] = [i \in 1..n |-> items[i]]
    BY <1>4
  <2> QED BY <2>1, <2>2, <2>3
<1>8. \A i \in 1..n : calls[i].operation \in {"Call", "DelegateCall"}
  BY <1>4 DEF Readable
<1> QED BY <1>1, <1>3, <1>4, <1>6, <1>7, <1>8

(* A Safe performs the calls it is sent, batched or alone. *)
LEMMA SafeDoes ==
  ASSUME NEW n \in Nat, NEW calls, CallList(calls, n), \A i \in 1..n : Readable(calls[i]),
         n # 0, n = 1 => calls[1].value = 0 /\ calls[1].to # Contracts.SafeMultisend,
         Fits(Len(Aggregate(calls).data)), NEW k
  PROVE  Performs(BuildSafeTransaction(calls, k)) = calls
<1> DEFINE r == BuildSafeTransaction(calls, k)
           call == Aggregate(calls)
           op == OperationOf(SafeCodes, r.params.operation)
<1>1. /\ r.type = "SAFE" /\ r.to = call.to /\ r.data = call.data
      /\ r.params.operation = SafeCode(call.operation)
  <2>1. /\ r.type = "SAFE" /\ r.to = call.to /\ r.data = call.data
        /\ r.params = [NoParams EXCEPT !.operation = SafeCode(call.operation)]
    BY DEF BuildSafeTransaction, NoRequest
  <2> HIDE DEF r, call
  <2> QED BY <2>1 DEF NoParams
<1> HIDE DEF r
<1>2. Len(calls) = n /\ DOMAIN calls = 1..n
  BY TuplesAre
<1>3. \A i \in 1..n : calls[i].operation # "none"
  BY DEF Readable
<1>4. SafePerforms(r) = calls
  <2>1. CASE n = 1
    <3>1. call = calls[1]
      BY <2>1, <1>2 DEF Aggregate
    <3> DEFINE c == calls[1]
    <3>2. /\ Readable(c) /\ c.value = 0 /\ c.to # Contracts.SafeMultisend
      BY <2>1
    <3>3. c.operation \in {"Call", "DelegateCall"}
          /\ c = [to |-> c.to, data |-> c.data, value |-> c.value, operation |-> c.operation]
      BY <3>2 DEF Readable
    <3>4. OperationOf(SafeCodes, SafeCode(c.operation)) = c.operation
      BY <3>3, OperationCodes
    <3> HIDE DEF c
    <3>5. [to |-> r.to, value |-> 0, data |-> r.data, operation |-> op] = c
      BY <3>1, <3>2, <3>3, <3>4, <1>1 DEF c
    <3>6. SafePerforms(r) = <<c>>
      <4>1. r.to # Contracts.SafeMultisend
        BY <3>1, <3>2, <1>1 DEF c
      <4> QED BY <4>1, <3>5 DEF SafePerforms
    <3>7. calls = [i \in 1..1 |-> calls[i]]
      BY <2>1 DEF CallList
    <3>8. calls = <<c>>
      <4>1. [i \in 1..1 |-> calls[i]] = <<c>>
        BY DEF c
      <4> QED BY <4>1, <3>7
    <3> QED BY <3>6, <3>8
  <2>2. CASE n # 1
    <3> DEFINE p == PackMultisend(calls)
               x == ByteString(p)
               a == Assemble(<<x>>)
               sel == Selector("multiSend")
    <3>1. /\ call.to = Contracts.SafeMultisend /\ call.operation = "DelegateCall"
          /\ call.data = EncodeBytesCall("multiSend", p)
      BY <2>2, <1>2 DEF Aggregate
    <3>2. op = "DelegateCall"
      <4>1. OperationOf(SafeCodes, SafeCode("DelegateCall")) = "DelegateCall"
        BY OperationCodes
      <4> QED BY <4>1, <3>1, <1>1
    <3>3. p \in Bytes
      BY PackMultisendIs
    <3> HIDE DEF p
    <3>4. call.data = <<sel>> \o a
      BY <3>1, <3>3, MultisendEncoded DEF EncodeArgsCall
    <3>5. /\ x.dynamic = TRUE /\ x.tail \in Bytes /\ Holds(x.tail, 0, Word(Len(p)) \o p)
          /\ Word(Len(p)) \o p \in Bytes /\ Len(p) <= Len(x.tail)
      BY <3>3, StringBytes DEF ByteString
    <3> HIDE DEF x
    <3>6. a = Word(WordSize) \o x.tail
      BY <3>5, Alone
    <3>7. WordSize \in Nat /\ Word(WordSize) \in Bytes /\ Len(Word(WordSize)) = WordSize
      BY WordBytes, AbiAssumption
    <3> HIDE DEF a
    <3>8. a \in Bytes /\ Len(a) = WordSize + Len(x.tail)
      <4> DEFINE u == Word(WordSize)
                 v == x.tail
      <4>1. u \in Bytes /\ v \in Bytes /\ Len(u) = WordSize /\ a = u \o v
        BY <3>5, <3>6, <3>7
      <4> HIDE DEF u, v
      <4>2. u \o v \in Bytes /\ Len(u \o v) = Len(u) + Len(v)
        BY <4>1, Joined
      <4> QED BY <4>1, <4>2 DEF v
    <3>9. sel \in Nat
      <4>1. 1 \in DOMAIN Names /\ Names[1] = "multiSend"
        BY DEF Names
      <4> QED BY <4>1, SelectorIs, AbiAssumption
    <3> HIDE DEF sel, call
    <3>10. Tail(r.data) = a /\ Len(call.data) = 1 + Len(a)
      BY <3>4, <3>8, <3>9, <1>1, Selected
    <3>11. Fits(WordSize) /\ Fits(Len(p)) /\ Len(p) \in Nat
      <4>1. Len(p) \in Nat /\ Len(x.tail) \in Nat /\ Len(a) \in Nat
        BY <3>3, <3>5, <3>8, BytesAre
      <4>2. Fits(Len(call.data))
        BY DEF call
      <4>3. WordSize <= Len(call.data) /\ Len(p) <= Len(call.data)
        BY <4>1, <3>5, <3>7, <3>8, <3>10
      <4> QED BY <4>1, <4>2, <4>3, <3>7, FitsLess
    <3>12. Holds(a, 0, Word(WordSize)) /\ Holds(a, WordSize, x.tail)
      <4>1. Holds(a, 0, Word(WordSize) \o x.tail)
        BY <3>6, <3>8, HoldsWhole
      <4>2. Holds(a, 0, Word(WordSize)) /\ Holds(a, 0 + Len(Word(WordSize)), x.tail)
        BY <4>1, <3>5, <3>7, <3>8, HoldsParts
      <4>3. 0 + Len(Word(WordSize)) = WordSize
        BY <3>7
      <4> QED BY <4>2, <4>3
    <3>13. WordAt(a, 0) = WordSize
      BY <3>8, <3>11, <3>12, HoldsWord
    <3>14. BytesAt(a, WordSize) = p
      <4>1. Holds(a, WordSize + 0, Word(Len(p)) \o p)
        BY <3>5, <3>7, <3>8, <3>12, HoldsWithin
      <4>2. WordSize + 0 = WordSize
        BY <3>7
      <4> QED BY <4>1, <4>2, <3>3, <3>7, <3>8, <3>11, HoldsString
    <3>15. SafePerforms(r) = MultiSent(p)
      BY <3>1, <3>2, <3>10, <3>13, <3>14, <1>1 DEF SafePerforms
    <3>16. MultiSent(p) = calls
      BY <3>11, Unpacked DEF p
    <3> QED BY <3>15, <3>16
  <2> QED BY <2>1, <2>2
<1>5. Performs(r) = calls
  BY <1>1, <1>2, <1>3, <1>4 DEF Performs
<1> QED BY <1>5 DEF r

(* So does a proxy wallet. *)
LEMMA ProxyDoes ==
  ASSUME NEW n \in Nat, NEW calls, CallList(calls, n), \A i \in 1..n : Readable(calls[i]),
         Fits(Len(EncodeProxyCalls(calls))), NEW k, NEW relayer, NEW gas
  PROVE  Performs(BuildProxyTransaction(calls, k, relayer, gas)) = calls
<1> DEFINE r == BuildProxyTransaction(calls, k, relayer, gas)
<1>1. r.type = "PROXY" /\ r.data = EncodeProxyCalls(calls)
  BY DEF BuildProxyTransaction, NoRequest
<1> HIDE DEF r
<1>2. DOMAIN calls = 1..n
  BY TuplesAre
<1>3. \A i \in 1..n : calls[i].operation # "none"
  BY DEF Readable
<1>4. ProxyPerforms(r) = calls
  BY <1>1, ProxyDecodes
<1>5. Performs(r) = calls
  BY <1>1, <1>2, <1>3, <1>4 DEF Performs
<1> QED BY <1>5 DEF r

(* So does a deposit wallet, if each is an ordinary call. *)
LEMMA BatchDoes ==
  ASSUME NEW n \in Nat, NEW calls, CallList(calls, n), \A i \in 1..n : Readable(calls[i]),
         \A i \in 1..n : calls[i].operation = "Call", NEW k
  PROVE  Performs(BuildWalletBatch(calls, k)) = calls
<1> DEFINE r == BuildWalletBatch(calls, k)
           b == BatchCalls(calls)
<1>1. r.type = "WALLET" /\ r.deposit.calls = b
  BY DEF BuildWalletBatch, NoRequest
<1> HIDE DEF r
<1>2. DOMAIN calls = 1..n /\ calls = [i \in 1..n |-> calls[i]]
  BY TuplesAre DEF CallList
<1>3. /\ DOMAIN b = 1..n
      /\ \A i \in 1..n : /\ b[i].target = calls[i].to /\ b[i].value = calls[i].value
                         /\ b[i].data = calls[i].data
  BY <1>2 DEF BatchCalls
<1> HIDE DEF b
<1>4. BatchPerforms(r) = [i \in 1..n |-> [to |-> b[i].target, value |-> b[i].value,
                                          data |-> b[i].data, operation |-> "Call"]]
  BY <1>1, <1>3 DEF BatchPerforms
<1>5. ASSUME NEW i \in 1..n
      PROVE  [to |-> b[i].target, value |-> b[i].value, data |-> b[i].data,
              operation |-> "Call"] = calls[i]
  <2>1. calls[i] = [to |-> calls[i].to, data |-> calls[i].data, value |-> calls[i].value,
                    operation |-> calls[i].operation]
    BY DEF Readable
  <2>2. calls[i].operation = "Call"
    OBVIOUS
  <2> QED BY <2>1, <2>2, <1>3
<1>6. BatchPerforms(r) = calls
  BY <1>2, <1>4, <1>5
<1>7. \A i \in 1..n : calls[i].operation # "none"
  OBVIOUS
<1>8. Performs(r) = calls
  BY <1>1, <1>2, <1>6, <1>7 DEF Performs
<1> QED BY <1>8 DEF r

(* A wallet performs what was asked for, when the builder accepts it and   *)
(* the form of wallet can express it.                                      *)
LEMMA DoesAsAsked ==
  ASSUME form \in Forms, NEW a \in Asks[form], Builds(a), Expressible(a), NEW p
  PROVE  Happened(Performs(Built(a, p))) = a.items
<1> DEFINE calls == CallsOf(a.items)
           n == Len(a.items)
<1>1. /\ a.items \in Seq(Items)
      /\ \A i \in DOMAIN a.items : Fits(Len(Calldata(a.items[i].intent)))
  BY RelayAssumption, SizesAssumption
<1>2. AllDecode(calls) /\ \A i \in DOMAIN a.items : Legal(a.items[i].intent)
  BY DEF Builds, SafeBuilds, ProxyBuilds, Forms
<1>3. Legible(a.items)
  <2>1. DOMAIN calls = DOMAIN a.items /\ \A i \in DOMAIN a.items : calls[i] = CallOf(a.items[i])
    BY DEF CallsOf
  <2> HIDE DEF calls
  <2> QED BY <2>1, <1>1, <1>2 DEF Legible, AllDecode
<1>4. /\ n \in Nat /\ DOMAIN a.items = 1..n /\ CallList(calls, n) /\ Happened(calls) = a.items
      /\ Len(calls) = n
      /\ \A i \in 1..n : /\ Readable(calls[i]) /\ calls[i] = CallOf(a.items[i])
                         /\ calls[i].value = a.items[i].value
                         /\ calls[i].operation = a.items[i].operation
  BY <1>3, CallsMean
<1>5. CASE form = "SAFE"
  <2>1. Built(a, p) = BuildSafeTransaction(calls, p.nonce)
    BY <1>5 DEF Built
  <2>2. calls # <<>>
    BY <1>5 DEF Builds, SafeBuilds
  <2>3. n # 0
    <3>1. calls = [i \in 1..n |-> calls[i]]
      BY <1>4 DEF CallList
    <3> HIDE DEF calls, n
    <3> QED BY <3>1, <2>2
  <2>4. n = 1 => calls[1].value = 0 /\ calls[1].to # Contracts.SafeMultisend
    BY <1>4, <1>5 DEF Expressible
  <2>5. Fits(Len(Aggregate(calls).data))
    BY <1>5, SizesAssumption
  <2> HIDE DEF calls, n
  <2>6. Performs(BuildSafeTransaction(calls, p.nonce)) = calls
    BY <1>4, <2>3, <2>4, <2>5, SafeDoes
  <2> QED BY <2>1, <2>6, <1>4
<1>6. CASE form = "PROXY"
  <2>1. Built(a, p) = BuildProxyTransaction(calls, p.nonce, p.relay, a.gas)
    BY <1>6 DEF Built
  <2>2. Fits(Len(EncodeProxyCalls(calls)))
    BY <1>6, SizesAssumption
  <2> HIDE DEF calls, n
  <2>3. Performs(BuildProxyTransaction(calls, p.nonce, p.relay, a.gas)) = calls
    BY <1>4, <2>2, ProxyDoes
  <2> QED BY <2>1, <2>3, <1>4
<1>7. CASE form = "WALLET"
  <2>1. Built(a, p) = BuildWalletBatch(calls, p.nonce)
    BY <1>7 DEF Built
  <2>2. \A i \in 1..n : calls[i].operation = "Call"
    BY <1>4, <1>7 DEF Expressible
  <2> HIDE DEF calls, n
  <2>3. Performs(BuildWalletBatch(calls, p.nonce)) = calls
    BY <1>4, <2>2, BatchDoes
  <2> QED BY <2>1, <2>3, <1>4
<1> QED BY <1>5, <1>6, <1>7 DEF Forms

(* Only what the builders accepted is submitted: Build's answer goes with  *)
(* the request through its copies and transactions.                        *)
LEMMA BuiltStep == TypeOK /\ BuiltFirst /\ [Next]_vars => BuiltFirst'
<1> SUFFICES ASSUME TypeOK, BuiltFirst, [Next]_vars PROVE BuiltFirst'
  OBVIOUS
<1> DEFINE Ok(c) == Builds(ask[c])
<1>1. form' = form /\ ask' = ask
  BY DEF Next, CallerNext, ReadPayload, Build, Submit, NotSent, Answered, Broken, Poll, StartOver,
         RelayerNext, Take, Refuse, Broadcast, Invalidate, Mine, Fail, Confirm, Move, caller, vars
<1>2. \A c : Ok(c)' = Ok(c)
  BY <1>1 DEF Builds
<1>3. /\ \A c \in Callers : step[c] \notin {"payload", "building", "refused"} => Ok(c)
      /\ \A m \in wire \cup jobs : Ok(m.from)
  BY DEF BuiltFirst
<1> SUFFICES /\ \A c \in Callers : step'[c] \notin {"payload", "building", "refused"} => Ok(c)
             /\ \A m \in wire' \cup jobs' : Ok(m.from)
  BY <1>2 DEF BuiltFirst
<1>4. step \in [Callers -> Steps]
  BY DEF TypeOK
<1>5. ASSUME NEW c \in Callers, CallerNext(c)
      PROVE  /\ \A d \in Callers : step'[d] \notin {"payload", "building", "refused"} => Ok(d)
             /\ \A m \in wire' \cup jobs' : Ok(m.from)
  <2>1. CASE Submit(c)
    <3>1. Ok(c)
      BY <1>3, <2>1 DEF Submit
    <3>2. step' = [step EXCEPT ![c] = "sent"]
          /\ \E m : m.from = c /\ wire' = wire \cup {m} /\ jobs' = jobs
      BY <2>1 DEF Submit
    <3> HIDE DEF Ok
    <3> QED BY <3>1, <3>2, <1>3, <1>4
  <2>2. CASE Build(c)
    <3>1. step' = [step EXCEPT ![c] = IF Ok(c) THEN "built" ELSE "refused"]
          /\ wire' = wire /\ jobs' = jobs
      BY <2>2 DEF Build
    <3> HIDE DEF Ok
    <3> QED BY <3>1, <1>3, <1>4
  <2>3. CASE ReadPayload(c) \/ NotSent(c) \/ Answered(c) \/ Broken(c) \/ Poll(c) \/ StartOver(c)
    <3>1. wire' = wire /\ jobs' = jobs
      BY <2>3 DEF ReadPayload, NotSent, Answered, Broken, Poll, StartOver
    <3>2. \A d \in Callers : d # c => step'[d] = step[d]
      BY <2>3, <1>4 DEF ReadPayload, NotSent, Answered, Broken, Poll, StartOver, Fails
    <3>3. step'[c] \notin {"payload", "building", "refused"} =>
            step[c] \notin {"payload", "building", "refused"}
      BY <2>3, <1>4 DEF ReadPayload, NotSent, Answered, Broken, Poll, StartOver, Fails
    <3> HIDE DEF Ok
    <3> QED BY <3>1, <3>2, <3>3, <1>3
  <2> QED BY <1>5, <2>1, <2>2, <2>3 DEF CallerNext
<1>6. ASSUME NEW m \in wire, Take(m) \/ Refuse(m)
      PROVE  step' = step /\ \A k \in wire' \cup jobs' : Ok(k.from)
  <2>1. /\ step' = step /\ wire' \subseteq wire
        /\ \A k \in jobs' : k \in jobs \/ k.from = m.from
    BY <1>6 DEF Take, Refuse
  <2> HIDE DEF Ok
  <2> QED BY <2>1, <1>3
<1>7. ASSUME NEW j \in jobs, Broadcast(j) \/ Invalidate(j) \/ Mine(j) \/ Fail(j) \/ Confirm(j)
      PROVE  step' = step /\ \A k \in wire' \cup jobs' : Ok(k.from)
  <2>1. step' = step /\ wire' = wire
    BY <1>7 DEF Broadcast, Invalidate, Mine, Fail, Confirm, caller
  <2>2. \E s : jobs' = (jobs \ {j}) \cup {[j EXCEPT !.state = s]}
    BY <1>7 DEF Broadcast, Invalidate, Mine, Fail, Confirm, Becomes
  <2>3. \A s : [j EXCEPT !.state = s].from = j.from
    BY DEF TypeOK
  <2> HIDE DEF Ok
  <2> QED BY <2>1, <2>2, <2>3, <1>3
<1>8. CASE UNCHANGED vars \/ Move
  <2>1. step' = step /\ wire' = wire /\ jobs' = jobs
    BY <1>8 DEF vars, Move, caller
  <2> HIDE DEF Ok
  <2> QED BY <2>1, <1>3
<1> HIDE DEF Ok
<1> QED BY <1>3, <1>5, <1>6, <1>7, <1>8 DEF Next, RelayerNext

(* What is mined is what was asked for.                                    *)
LEMMA AsAskedStep == TypeOK /\ BuiltFirst /\ AsAsked /\ [Next]_vars => AsAsked'
<1> SUFFICES ASSUME TypeOK, BuiltFirst, AsAsked, [Next]_vars PROVE AsAsked'
  OBVIOUS
<1>1. form' = form /\ ask' = ask
  BY DEF Next, CallerNext, ReadPayload, Build, Submit, NotSent, Answered, Broken, Poll, StartOver,
         RelayerNext, Take, Refuse, Broadcast, Invalidate, Mine, Fail, Confirm, Move, caller, vars
<1> DEFINE Right(p) == Expressible(ask[p.from]) => p.items = ask[p.from].items
<1>2. \A p : Right(p)' = Right(p)
  BY <1>1 DEF Expressible
<1>3. \A p \in performed : Right(p)
  BY DEF AsAsked
<1> SUFFICES \A p \in performed' : Right(p)
  BY <1>2 DEF AsAsked
<1>4. ASSUME NEW j \in jobs, Mine(j) PROVE \A p \in performed' : Right(p)
  <2> DEFINE new == [from |-> j.from, copy |-> j.copy, items |-> Happened(Performs(Request(j)))]
  <2>1. performed' = performed \cup {new}
    BY <1>4 DEF Mine
  <2>2. j.from \in Callers /\ ask[j.from] \in Asks[form] /\ form \in Forms /\ Builds(ask[j.from])
    BY DEF TypeOK, BuiltFirst
  <2>3. Expressible(ask[j.from]) => Happened(Performs(Request(j))) = ask[j.from].items
    BY <2>2, DoesAsAsked DEF Request
  <2>4. Right(new)
    BY <2>3
  <2> HIDE DEF new, Right
  <2> QED BY <2>1, <2>4, <1>3
<1>5. CASE performed' = performed
  BY <1>3, <1>5
<1>6. performed' = performed \/ \E j \in jobs : Mine(j)
  BY DEF Next, CallerNext, ReadPayload, Build, Submit, NotSent, Answered, Broken, Poll, StartOver,
         RelayerNext, Take, Refuse, Broadcast, Invalidate, Fail, Confirm, Move, chain, caller, vars
<1> HIDE DEF Right
<1> QED BY <1>4, <1>5, <1>6

(* What the encoders written out by hand make of a list of items is what   *)
(* the general encoder makes of it.                                        *)
LEMMA Encoded ==
  ASSUME NEW items \in Seq(Items), NEW calls, calls = CallsOf(items)
  PROVE  /\ EncodeProxyCalls(calls) =
              EncodeArgsCall("proxy", <<List([i \in DOMAIN calls |-> CallTuple(calls[i])])>>)
         /\ Len(calls) > 1 =>
              Aggregate(calls).data =
                EncodeArgsCall("multiSend", <<ByteString(PackMultisend(calls))>>)
<1> DEFINE n == Len(items)
<1>1. n \in Nat /\ DOMAIN items = 1..n /\ \A i \in 1..n : items[i] \in Items
  OBVIOUS
<1>2. calls = [i \in 1..n |-> CallOf(items[i])]
  BY <1>1 DEF CallsOf
<1>3. ASSUME NEW item \in Items PROVE CallOk(CallOf(item))
  <2>1. item.intent \in Intents /\ item.value \in Nat
    BY DEF Items
  <2>2. Target(item.intent) \in Nat /\ Calldata(item.intent) \in Bytes
    BY <2>1, AddressesAre, CalldataIs
  <2> QED BY <2>1, <2>2 DEF CallOf, CallOk
<1>4. CallList(calls, n)
  <2>1. \A i \in 1..n : calls[i] = CallOf(items[i]) /\ CallOk(calls[i])
    BY <1>1, <1>2, <1>3
  <2>2. calls = [i \in 1..n |-> calls[i]]
    BY <1>2, <2>1
  <2> QED BY <2>1, <2>2 DEF CallList
<1> HIDE DEF n
<1>5. DOMAIN calls = 1..n /\ Len(calls) = n
  BY <1>1, <1>4, TuplesAre
<1>6. Tuples(calls, n) = [i \in DOMAIN calls |-> CallTuple(calls[i])]
  BY <1>5 DEF Tuples
<1>7. EncodeProxyCalls(calls) =
        EncodeArgsCall("proxy", <<List([i \in DOMAIN calls |-> CallTuple(calls[i])])>>)
  BY <1>1, <1>4, <1>6, ProxyEncoded
<1>8. PackMultisend(calls) \in Bytes
  BY <1>1, <1>4, PackMultisendIs
<1>9. ASSUME Len(calls) > 1
      PROVE  Aggregate(calls).data =
               EncodeArgsCall("multiSend", <<ByteString(PackMultisend(calls))>>)
  <2>1. Len(calls) # 1
    BY <1>1, <1>5, <1>9
  <2>2. Aggregate(calls).data = EncodeBytesCall("multiSend", PackMultisend(calls))
    BY <2>1 DEF Aggregate
  <2> QED BY <2>2, <1>8, MultisendEncoded
<1> QED BY <1>7, <1>9

(* Callers ask for lists of items, whatever they are. *)
LEMMA TypeEncoded == TypeOK => EncodersAgree
<1> SUFFICES ASSUME TypeOK, NEW c \in Callers PROVE
      LET calls == CallsOf(ask[c].items)
          tuple(call) == Tuple(<<Word32(Word(ProxyCode(call.operation))),
                                 Word32(Address(call.to)), Word32(Word(call.value)),
                                 ByteString(call.data)>>)
      IN  /\ EncodeProxyCalls(calls) =
               EncodeArgsCall("proxy", <<List([i \in DOMAIN calls |-> tuple(calls[i])])>>)
          /\ Len(calls) > 1 =>
               Aggregate(calls).data =
                 EncodeArgsCall("multiSend", <<ByteString(PackMultisend(calls))>>)
  BY DEF EncodersAgree
<1>1. ask[c].items \in Seq(Items)
  BY RelayAssumption DEF TypeOK
<1> QED BY <1>1, Encoded DEF CallTuple, Members
---------------------------------------------------------------------------
(* A request is good for one nonce. *)

(* A signature over a Safe transaction is good for one counter. *)
LEMMA SafeNonce ==
  ASSUME NEW calls, NEW k, NEW n, NEW relayer,
         Verifies(BuildSafeTransaction(calls, k), n, relayer)
  PROVE  k = n
<1> DEFINE r == BuildSafeTransaction(calls, k)
           call == Aggregate(calls)
<1>1. /\ r.type = "SAFE"
      /\ r.signature.v = 31
      /\ r.signature.over = PersonalDigest(SafeDigest(call, k))
  BY DEF BuildSafeTransaction, NoRequest, SafeSignature, Sign
<1>2. PersonalDigest(SafeDigest(call, k)) = PersonalDigest(SafeHash(r, n))
  BY <1>1 DEF Verifies
<1>3. SafeDigest(call, k) = SafeHash(r, n)
  BY <1>2 DEF PersonalDigest
<1>4. SafeDigest(call, k).struct.message.nonce = k
  BY DEF SafeDigest, Digest, StructHash
<1>5. SafeHash(r, n).struct.message.nonce = n
  BY DEF SafeHash, StructHash
<1> QED
  BY <1>3, <1>4, <1>5

(* So is one over a proxy transaction. *)
LEMMA ProxyNonce ==
  ASSUME NEW calls, NEW k, NEW n, NEW via, NEW relayer, NEW gas,
         Verifies(BuildProxyTransaction(calls, k, via, gas), n, relayer)
  PROVE  k = n
<1> DEFINE r == BuildProxyTransaction(calls, k, via, gas)
           hash == ProxyRelayHash(calls, k, via, gas)
<1>1. r.type = "PROXY" /\ r.signature.over = PersonalDigest(hash)
  BY DEF BuildProxyTransaction, NoRequest, Sign
<1>2. PersonalDigest(hash) = PersonalDigest(HubHash(r, n, relayer))
  BY <1>1 DEF Verifies
<1>3. hash = HubHash(r, n, relayer)
  BY <1>2 DEF PersonalDigest
<1>4. hash[8] = k
  BY DEF ProxyRelayHash
<1>5. HubHash(r, n, relayer)[8] = n
  BY DEF HubHash
<1> QED
  BY <1>3, <1>4, <1>5

(* So is one over a batch. *)
LEMMA BatchNonce ==
  ASSUME NEW calls, NEW k, NEW n, NEW relayer,
         Verifies(BuildWalletBatch(calls, k), n, relayer)
  PROVE  k = n
<1> DEFINE r == BuildWalletBatch(calls, k)
<1>1. r.type = "WALLET" /\ r.signature.over = BatchDigest(calls, k)
  BY DEF BuildWalletBatch, NoRequest, Sign
<1>2. BatchDigest(calls, k) = BatchHash(r, n)
  BY <1>1 DEF Verifies
<1>3. BatchDigest(calls, k).struct.message.nonce = k
  BY DEF BatchDigest, Digest, StructHash
<1>4. BatchHash(r, n).struct.message.nonce = n
  BY DEF BatchHash, StructHash
<1> QED
  BY <1>2, <1>3, <1>4

(* The wallet performs a request at the nonce it was signed at only. *)
LEMMA SignedNonce ==
  ASSUME NEW j, Performing(j)
  PROVE  j.payload.nonce = nonce
<1> DEFINE calls == CallsOf(ask[j.from].items)
<1>1. Verifies(Built(ask[j.from], j.payload), nonce, relay)
  BY DEF Performing, Request
<1>2. CASE form = "SAFE"
  <2>1. Built(ask[j.from], j.payload) = BuildSafeTransaction(calls, j.payload.nonce)
    BY <1>2 DEF Built
  <2> QED BY <1>1, <2>1, SafeNonce
<1>3. CASE form = "PROXY"
  <2>1. Built(ask[j.from], j.payload)
          = BuildProxyTransaction(calls, j.payload.nonce, j.payload.relay, ask[j.from].gas)
    BY <1>3 DEF Built
  <2> QED BY <1>1, <2>1, ProxyNonce
<1>4. CASE form # "SAFE" /\ form # "PROXY"
  <2>1. Built(ask[j.from], j.payload) = BuildWalletBatch(calls, j.payload.nonce)
    BY <1>4 DEF Built
  <2> QED BY <1>1, <2>1, BatchNonce
<1> QED
  BY <1>2, <1>3, <1>4
---------------------------------------------------------------------------
(* The initial state has the shape. *)
LEMMA InitType == Init => TypeOK
  BY RelayAssumption DEF Init, TypeOK, Steps, Payloads, NoPayload

(* Every step keeps the shape of the state. *)
LEMMA TypeStep == TypeOK /\ [Next]_vars => TypeOK'
<1> SUFFICES ASSUME TypeOK, [Next]_vars PROVE TypeOK'
  OBVIOUS
<1> USE DEF TypeOK, Steps
<1>1. ASSUME NEW c \in Callers, CallerNext(c) PROVE TypeOK'
  <2>1. CASE ReadPayload(c)
    BY <2>1 DEF ReadPayload, Payloads, chain
  <2>2. CASE Build(c)
    BY <2>2 DEF Build, chain
  <2>3. CASE Submit(c)
    <3> submits[c] + 1 \in Nat /\ payload[c] \in Payloads
      OBVIOUS
    <3> [from |-> c, copy |-> submits[c] + 1, payload |-> payload[c]] \in Copies
      BY DEF Copies
    <3> QED
      BY <2>3 DEF Submit, chain
  <2>4. CASE NotSent(c)
    BY <2>4 DEF NotSent, Fails, chain
  <2>5. CASE Answered(c)
    BY ZenonT(60), <2>5 DEF Answered, Fails, chain
  <2>6. CASE Broken(c)
    BY <2>6 DEF Broken, Fails, chain
  <2>7. CASE Poll(c)
    BY <2>7 DEF Poll, chain
  <2>8. CASE StartOver(c)
    BY <2>8 DEF StartOver, chain
  <2> QED
    BY <1>1, <2>1, <2>2, <2>3, <2>4, <2>5, <2>6, <2>7, <2>8 DEF CallerNext
<1>2. ASSUME NEW m \in wire, Take(m) PROVE TypeOK'
  <2> DEFINE j == [from |-> m.from, copy |-> m.copy, payload |-> m.payload, state |-> "NEW"]
  <2>1. j \in [from : Callers, copy : Nat, payload : Payloads, state : States]
    BY DEF Copies, States
  <2> HIDE DEF j
  <2>2. jobs' = jobs \cup {j}
    BY <1>2 DEF Take, j
  <2> QED
    BY <1>2, <2>1, <2>2 DEF Take, Tell, chain
<1>3. ASSUME NEW m \in wire, Refuse(m) PROVE TypeOK'
  BY <1>3 DEF Refuse, Tell, chain
<1>4. ASSUME NEW j \in jobs,
             Broadcast(j) \/ Invalidate(j) \/ Mine(j) \/ Fail(j) \/ Confirm(j)
      PROVE  TypeOK'
  <2>1. PICK s \in States : Becomes(j, s)
    BY <1>4 DEF Broadcast, Invalidate, Mine, Fail, Confirm, States
  <2> DEFINE k == [j EXCEPT !.state = s]
  <2>2. k \in [from : Callers, copy : Nat, payload : Payloads, state : States]
    OBVIOUS
  <2>3. jobs' = (jobs \ {j}) \cup {k}
    BY <2>1 DEF Becomes
  <2>4. UNCHANGED <<caller, wire, relay>>
    BY <1>4 DEF Broadcast, Invalidate, Mine, Fail, Confirm, chain
  <2>5. nonce' \in Nat
    BY <1>4 DEF Broadcast, Invalidate, Mine, Fail, Confirm, chain
  <2>6. \A p \in performed' : p.from \in Callers
    <3>1. j.from \in Callers
      OBVIOUS
    <3>2. CASE UNCHANGED performed
      BY <3>2
    <3>3. CASE Mine(j)
      BY <3>1, <3>3 DEF Mine
    <3> QED
      BY <1>4, <3>2, <3>3 DEF Broadcast, Invalidate, Fail, Confirm, chain
  <2> HIDE DEF k
  <2> QED
    BY <2>2, <2>3, <2>4, <2>5, <2>6 DEF caller
<1>5. CASE Move
  BY <1>5 DEF Move, caller
<1>6. CASE UNCHANGED vars
  BY <1>6 DEF vars
<1> QED
  BY <1>1, <1>2, <1>3, <1>4, <1>5, <1>6 DEF Next, RelayerNext

(* The state keeps its shape: the states of callers and transactions are   *)
(* those the code names, and an answer waits for a caller that expects it. *)
THEOREM TypeCorrect == Spec => []TypeOK
  BY InitType, TypeStep, PTL DEF Spec
---------------------------------------------------------------------------
(* What a transaction's step changes, and what it leaves alone. *)
Performed(j) ==
  /\ j.state = "EXECUTED" /\ Performing(j) /\ nonce' = nonce + 1
  /\ \E items : performed' = performed \cup
                  {[from |-> j.from, copy |-> j.copy, items |-> items]}

Advances(j, s) ==
  /\ UNCHANGED <<caller, wire>>
  /\ nonce' \in Nat /\ nonce <= nonce'
  /\ Becomes(j, s)
  /\ j.state \in {"NEW", "EXECUTED"} \/ (j.state = "MINED" /\ s = "CONFIRMED")
  /\ s # "NEW"
  /\ performed' = performed \/ (s = "MINED" /\ Performed(j))

(* Each of the relayer's steps on a transaction advances it. *)
LEMMA Advance ==
  ASSUME TypeOK, NEW j \in jobs,
         Broadcast(j) \/ Invalidate(j) \/ Mine(j) \/ Fail(j) \/ Confirm(j)
  PROVE  \E s \in States : Advances(j, s)
<1>0. nonce \in Nat
  BY DEF TypeOK
<1>1. ASSUME Broadcast(j) PROVE Advances(j, "EXECUTED")
  BY <1>0, <1>1 DEF Broadcast, Advances, chain
<1>2. ASSUME Invalidate(j) PROVE Advances(j, "INVALID")
  BY <1>0, <1>2 DEF Invalidate, Advances, chain
<1>3. ASSUME Mine(j) PROVE Advances(j, "MINED")
  <2>1. Performed(j)
    BY <1>3 DEF Mine, Performed
  <2> QED
    BY <1>0, <1>3, <2>1 DEF Mine, Advances
<1>4. ASSUME Fail(j) PROVE Advances(j, "FAILED")
  BY <1>0, <1>4 DEF Fail, Advances
<1>5. ASSUME Confirm(j) PROVE Advances(j, "CONFIRMED")
  BY <1>0, <1>5 DEF Confirm, Advances, chain
<1> QED
  BY <1>1, <1>2, <1>3, <1>4, <1>5 DEF States

(* Copies stay apart. *)
LEMMA ApartStep == TypeOK /\ CopiesApart /\ [Next]_vars => CopiesApart'
<1> SUFFICES ASSUME TypeOK, CopiesApart, [Next]_vars PROVE CopiesApart'
  OBVIOUS
<1> USE DEF CopiesApart, Same
<1>1. ASSUME NEW c \in Callers, CallerNext(c) PROVE CopiesApart'
  <2>1. CASE Submit(c)
    <3> DEFINE new == [from |-> c, copy |-> submits[c] + 1, payload |-> payload[c]]
    <3>1. new.from = c /\ new.copy = submits[c] + 1
      OBVIOUS
    <3> HIDE DEF new
    <3>2. /\ wire' = wire \cup {new} /\ jobs' = jobs /\ performed' = performed
          /\ submits' = [submits EXCEPT ![c] = @ + 1]
      BY <2>1 DEF Submit, chain, new
    <3>3. \A m \in wire \cup jobs : m.from \in Callers /\ m.copy \in Nat
      BY DEF TypeOK, Copies
    <3>4. \A m \in wire \cup jobs : ~Same(m, new)
      BY <3>1, <3>3 DEF TypeOK
    <3>5. \A m \in wire \cup jobs : m.copy <= submits'[m.from]
      BY <3>2, <3>3 DEF TypeOK
    <3>6. new.copy <= submits'[new.from]
      BY <3>1, <3>2 DEF TypeOK
    <3> QED
      BY <3>2, <3>4, <3>5, <3>6
  <2>2. CASE ~Submit(c)
    <3> UNCHANGED <<wire, jobs, submits, performed>>
      BY <1>1, <2>2
      DEF CallerNext, ReadPayload, Build, NotSent, Answered, Broken, Poll, StartOver, chain
    <3> QED
      OBVIOUS
  <2> QED
    BY <2>1, <2>2
<1>2. ASSUME NEW m \in wire, Take(m) PROVE CopiesApart'
  <2> DEFINE j == [from |-> m.from, copy |-> m.copy, payload |-> m.payload, state |-> "NEW"]
  <2>1. Same(j, m) /\ j.from = m.from /\ j.copy = m.copy
    OBVIOUS
  <2> HIDE DEF j
  <2>2. /\ wire' = wire \ {m} /\ jobs' = jobs \cup {j}
        /\ UNCHANGED <<submits, performed>>
    BY <1>2 DEF Take, chain, j
  <2> QED
    BY <2>1, <2>2
<1>3. ASSUME NEW m \in wire, Refuse(m) PROVE CopiesApart'
  BY <1>3 DEF Refuse, chain
<1>4. ASSUME NEW j \in jobs,
             Broadcast(j) \/ Invalidate(j) \/ Mine(j) \/ Fail(j) \/ Confirm(j)
      PROVE  CopiesApart'
  <2>1. PICK s \in States : Advances(j, s)
    BY <1>4, Advance
  <2> DEFINE k == [j EXCEPT !.state = s]
  <2>2. Same(j, k) /\ k.from = j.from /\ k.copy = j.copy /\ k.state = s
    BY DEF TypeOK
  <2>3. jobs' = (jobs \ {j}) \cup {k}
    BY <2>1 DEF Advances, Becomes
  <2> HIDE DEF k
  <2>4. UNCHANGED <<wire, submits>>
    BY <2>1 DEF Advances, caller
  <2>5. \A p \in performed :
          \E i \in jobs' : Same(p, i) /\ i.state \in {"MINED", "CONFIRMED"}
    <3> j.state \in {"MINED", "CONFIRMED"} => s \in {"MINED", "CONFIRMED"}
      BY <2>1 DEF Advances
    <3> QED
      BY <2>2, <2>3
  <2>6. \A p \in performed' :
          \E i \in jobs' : Same(p, i) /\ i.state \in {"MINED", "CONFIRMED"}
    <3>1. CASE s = "MINED" /\ Performed(j)
      <4>1. \A p \in performed' : p \in performed \/ (p.from = j.from /\ p.copy = j.copy)
        BY <3>1 DEF Performed
      <4> QED
        BY <2>2, <2>3, <2>5, <3>1, <4>1
    <3>2. CASE performed' = performed
      BY <2>5, <3>2
    <3> QED
      BY <2>1, <3>1, <3>2 DEF Advances
  <2> QED
    BY <2>2, <2>3, <2>4, <2>6
<1>5. CASE Move \/ UNCHANGED vars
  BY <1>5 DEF Move, caller, vars
<1> QED
  BY <1>1, <1>2, <1>3, <1>4, <1>5 DEF Next, RelayerNext
---------------------------------------------------------------------------
(* The nonce's part of the invariant, for one caller. *)
Bound(c) ==
  /\ \A m \in Pending(c) : m.payload = payload[c]
  /\ \A p \in performed : p.from = c => payload[c].nonce < nonce
  /\ ~doubt[c] => /\ \A m \in Pending(c) : m.copy = submits[c]
                  /\ \A p \in performed : p.from = c => p.copy = submits[c]
  /\ MayRenew(c) => Nothing(c)

(* A step of the caller itself. *)
LEMMA BoundOwn ==
  ASSUME TypeOK, CopiesApart, Reports, NEW c \in Callers, Bound(c), CallerNext(c)
  PROVE  Bound(c)'
<1> USE DEF Bound, Nothing, MayRenew
<1>1. CASE Submit(c)
  <2> DEFINE new == [from |-> c, copy |-> submits[c] + 1, payload |-> payload[c]]
  <2>1. new.from = c /\ new.copy = submits[c] + 1 /\ new.payload = payload[c]
    OBVIOUS
  <2> HIDE DEF new
  <2>2. /\ wire' = wire \cup {new} /\ step'[c] = "sent" /\ submits'[c] = submits[c] + 1
        /\ UNCHANGED <<payload, doubt, answer, jobs, nonce, performed>>
    BY <1>1 DEF Submit, chain, new, TypeOK
  <2>3. \A m \in Pending(c)' : m \in Pending(c) \/ m = new
    BY <2>2 DEF Pending
  <2>4. ~MayRenew(c)'
    <3> answer[c] = "none"
      BY <1>1 DEF Submit, TypeOK
    <3> QED
      BY <2>2
  <2>5. ~doubt[c] => Nothing(c)
    BY <1>1 DEF Submit
  <2> HIDE DEF MayRenew
  <2> QED
    BY <2>1, <2>2, <2>3, <2>4, <2>5
<1>2. CASE ~Submit(c)
  <2>1. UNCHANGED <<wire, jobs, submits, performed, nonce>>
    BY <1>1, <1>2
    DEF CallerNext, ReadPayload, Build, NotSent, Answered, Broken, Poll, StartOver, chain
  <2>2. Pending(c)' = Pending(c)
    BY <2>1 DEF Pending
  <2>3. CASE ReadPayload(c) \/ Build(c) \/ NotSent(c) \/ StartOver(c)
    <3>1. Nothing(c)
      BY <2>3 DEF ReadPayload, Build, NotSent, StartOver
    <3> QED
      BY <2>1, <2>2, <3>1
  <2>4. CASE Answered(c)
    <3>1. payload' = payload /\ doubt'[c] = doubt[c]
      BY <2>4 DEF Answered, Fails, TypeOK
    <3>2. MayRenew(c)' => MayRenew(c)
      BY <2>4, <3>1 DEF Answered, Fails, TypeOK
    <3> QED
      BY <2>1, <2>2, <3>1, <3>2
  <2>5. CASE Broken(c)
    <3>1. payload' = payload /\ doubt'[c] /\ step'[c] = "failed" /\ answer'[c] = "none"
      BY <2>5 DEF Broken, Fails, TypeOK
    <3> QED
      BY <2>1, <2>2, <3>1
  <2>6. CASE Poll(c)
    <3>1. PICK j \in JobOf(c) :
            /\ j.state \in {"CONFIRMED", "INVALID", "FAILED"}
            /\ step' = [step EXCEPT ![c] = IF j.state = "CONFIRMED" THEN "done" ELSE "lost"]
      BY <2>6 DEF Poll
    <3>2. UNCHANGED <<payload, doubt, answer>>
      BY <2>6 DEF Poll
    <3>3. answer[c] = "none"
      BY <2>6 DEF Poll, TypeOK
    <3>4. CASE j.state # "CONFIRMED" /\ ~doubt[c]
      <4>1. j \in jobs /\ j.from = c /\ j.copy = submits[c]
        BY DEF JobOf
      <4>2. Pending(c) = {}
        <5> SUFFICES ASSUME NEW m \in Pending(c) PROVE FALSE
          OBVIOUS
        <5>1. m.from = c /\ m.copy = submits[c]
          BY <3>4 DEF Pending
        <5>2. m \in wire \/ (m \in jobs /\ m.state \in {"NEW", "EXECUTED"})
          BY DEF Pending
        <5> QED
          BY <3>1, <4>1, <5>1, <5>2 DEF CopiesApart, Same
      <4>3. \A p \in performed : p.from # c
        BY <3>1, <3>4, <4>1 DEF CopiesApart, Same
      <4> QED
        BY <2>1, <2>2, <3>2, <4>2, <4>3
    <3>5. CASE j.state = "CONFIRMED" \/ doubt[c]
      <4>1. ~MayRenew(c)'
        BY <3>1, <3>2, <3>3, <3>5 DEF TypeOK
      <4> HIDE DEF MayRenew
      <4> QED
        BY <2>1, <2>2, <3>2, <4>1
    <3> QED
      BY <3>4, <3>5
  <2> QED
    BY <1>1, <1>2, <2>3, <2>4, <2>5, <2>6 DEF CallerNext
<1> QED
  BY <1>1, <1>2

(* A step of another caller. *)
LEMMA BoundOther ==
  ASSUME TypeOK, NEW c \in Callers, Bound(c), NEW d \in Callers, d # c, CallerNext(d)
  PROVE  Bound(c)'
<1>1. /\ step'[c] = step[c] /\ payload'[c] = payload[c] /\ submits'[c] = submits[c]
      /\ doubt'[c] = doubt[c] /\ answer'[c] = answer[c]
  BY DEF CallerNext, ReadPayload, Build, Submit, NotSent, Answered, Broken, Poll,
         StartOver, Fails, TypeOK
<1>2. UNCHANGED <<jobs, performed, nonce>>
  BY DEF CallerNext, ReadPayload, Build, Submit, NotSent, Answered, Broken, Poll,
         StartOver, chain
<1>3. wire' = wire \/ \E m : m.from = d /\ wire' = wire \cup {m}
  <2>1. CASE Submit(d)
    BY <2>1 DEF Submit
  <2>2. CASE ~Submit(d)
    BY <2>2 DEF CallerNext, ReadPayload, Build, NotSent, Answered, Broken, Poll, StartOver
  <2> QED
    BY <2>1, <2>2
<1>4. Pending(c)' = Pending(c)
  BY <1>2, <1>3 DEF Pending
<1> QED
  BY <1>1, <1>2, <1>4 DEF Bound, MayRenew, Nothing

(* The relayer answers a submission. *)
LEMMA BoundAnswered ==
  ASSUME TypeOK, CopiesApart, NEW c \in Callers, Bound(c),
         NEW m \in wire, Take(m) \/ Refuse(m)
  PROVE  Bound(c)'
<1> USE DEF Bound
<1>1. /\ UNCHANGED <<step, payload, submits, doubt, performed, nonce>>
      /\ wire' = wire \ {m}
  BY DEF Take, Refuse, chain
<1>2. answer'[c] = "4xx" => answer[c] = "4xx"
                              \/ (Refuse(m) /\ m.from = c /\ m.copy = submits[c])
  BY DEF Take, Refuse, Tell, TypeOK, Copies
<1>3. CASE Take(m)
  <2> DEFINE j == [from |-> m.from, copy |-> m.copy, payload |-> m.payload, state |-> "NEW"]
  <2>1. j.from = m.from /\ j.copy = m.copy /\ j.payload = m.payload /\ j.state = "NEW"
    OBVIOUS
  <2> HIDE DEF j
  <2>2. jobs' = jobs \cup {j}
    BY <1>3 DEF Take, j
  <2>3. \A x \in Pending(c)' : x \in Pending(c) \/ (x = j /\ m \in Pending(c))
    BY <1>1, <2>1, <2>2 DEF Pending
  <2>4. MayRenew(c)' => MayRenew(c)
    <3> answer'[c] = "4xx" => answer[c] = "4xx"
      BY <1>3 DEF Take, Tell, TypeOK
    <3> QED
      BY <1>1 DEF MayRenew
  <2>5. Nothing(c) => Nothing(c)'
    BY <1>1, <2>3 DEF Nothing
  <2> QED
    BY <1>1, <2>1, <2>3, <2>4, <2>5
<1>4. CASE Refuse(m)
  <2>1. jobs' = jobs
    BY <1>4 DEF Refuse
  <2>2. Pending(c)' = Pending(c) \ {m}
    BY <1>1, <2>1, m \notin jobs DEF Pending, CopiesApart, Same
  <2>3. MayRenew(c)' => Nothing(c)'
    <3>1. CASE MayRenew(c)
      BY <1>1, <2>2, <3>1 DEF Nothing
    <3>2. CASE MayRenew(c)' /\ ~MayRenew(c)
      <4>1. ~doubt[c] /\ m.from = c /\ m.copy = submits[c]
        BY <1>1, <1>2, <3>2 DEF MayRenew
      <4>2. \A x \in Pending(c) : x = m
        BY <4>1 DEF Pending, CopiesApart, Same
      <4>3. \A p \in performed : p.from # c
        BY <4>1 DEF CopiesApart, Same
      <4> QED
        BY <1>1, <2>2, <4>2, <4>3 DEF Nothing
    <3> QED
      BY <3>1, <3>2
  <2> QED
    BY <1>1, <2>2, <2>3
<1> QED
  BY <1>3, <1>4

(* A transaction advances: the nonce that performs it is used up. *)
LEMMA BoundAdvance ==
  ASSUME TypeOK, NEW c \in Callers, Bound(c),
         NEW j \in jobs, NEW s \in States, Advances(j, s)
  PROVE  Bound(c)'
<1> USE DEF Bound
<1> DEFINE k == [j EXCEPT !.state = s]
<1>1. k.from = j.from /\ k.copy = j.copy /\ k.payload = j.payload /\ k.state = s
  BY DEF TypeOK
<1>2. jobs' = (jobs \ {j}) \cup {k}
  BY DEF Advances, Becomes
<1> HIDE DEF k
<1>3. UNCHANGED <<step, payload, submits, doubt, answer, wire>>
  BY DEF Advances, caller
<1>4. /\ nonce \in Nat /\ nonce' \in Nat /\ nonce <= nonce'
      /\ payload[c].nonce \in Nat
  BY DEF Advances, TypeOK, Payloads
<1>5. \A x \in Pending(c)' : x \in Pending(c) \/ (x = k /\ j \in Pending(c))
  <2> s \in {"NEW", "EXECUTED"} => j.state \in {"NEW", "EXECUTED"}
    BY DEF Advances
  <2> QED
    BY <1>1, <1>2, <1>3 DEF Pending
<1>6. MayRenew(c)' = MayRenew(c)
  BY <1>3 DEF MayRenew
<1>7. CASE performed' = performed
  <2>1. Nothing(c) => Nothing(c)'
    BY <1>5, <1>7 DEF Nothing
  <2> QED
    BY <1>1, <1>3, <1>4, <1>5, <1>6, <1>7, <2>1
<1>8. CASE Performed(j)
  <2>1. \A p \in performed' : p \in performed \/ (p.from = j.from /\ p.copy = j.copy)
    BY <1>8 DEF Performed
  <2>2. j.from = c => j \in Pending(c)
    BY <1>8 DEF Performed, Pending
  <2>3. j.payload.nonce = nonce /\ nonce' = nonce + 1
    BY <1>8, SignedNonce DEF Performed
  <2>4. Nothing(c) => Nothing(c)'
    BY <1>5, <2>1, <2>2 DEF Nothing
  <2>5. \A p \in performed' : p.from = c => payload[c].nonce < nonce'
    BY <1>4, <2>1, <2>2, <2>3
  <2> QED
    BY <1>1, <1>3, <1>5, <1>6, <2>1, <2>2, <2>4, <2>5
<1> QED
  BY <1>7, <1>8 DEF Advances

(* Every step keeps the nonce's part of the invariant. *)
LEMMA OneNonceStep ==
  TypeOK /\ CopiesApart /\ Reports /\ OneNonce /\ [Next]_vars => OneNonce'
<1> SUFFICES ASSUME TypeOK, CopiesApart, Reports, OneNonce, [Next]_vars, NEW c \in Callers
             PROVE  Bound(c)'
  BY DEF OneNonce, Bound
<1>0. Bound(c)
  BY DEF OneNonce, Bound
<1>1. ASSUME NEW d \in Callers, CallerNext(d) PROVE Bound(c)'
  BY <1>0, <1>1, BoundOwn, BoundOther
<1>2. ASSUME NEW m \in wire, Take(m) \/ Refuse(m) PROVE Bound(c)'
  BY <1>0, <1>2, BoundAnswered
<1>3. ASSUME NEW j \in jobs,
             Broadcast(j) \/ Invalidate(j) \/ Mine(j) \/ Fail(j) \/ Confirm(j)
      PROVE  Bound(c)'
  <2>1. PICK s \in States : Advances(j, s)
    BY <1>3, Advance
  <2> QED
    BY <1>0, <2>1, BoundAdvance
<1>4. CASE Move \/ UNCHANGED vars
  <2> UNCHANGED <<step, payload, submits, doubt, answer, wire, jobs, nonce, performed>>
    BY <1>4 DEF Move, vars, caller
  <2> QED
    BY <1>0 DEF Bound, Pending, Nothing, MayRenew
<1> QED
  BY <1>1, <1>2, <1>3, <1>4 DEF Next, RelayerNext
---------------------------------------------------------------------------
(* A caller that polls has a transaction to poll. *)
LEMMA ReportsStep == TypeOK /\ Reports /\ [Next]_vars => Reports'
<1> SUFFICES ASSUME TypeOK, Reports, [Next]_vars, NEW c \in Callers
             PROVE  /\ step'[c] = "failed" => sure'[c] \/ doubt'[c]
                    /\ answer'[c] = "id" \/ step'[c] = "queued" => JobOf(c)' # {}
  BY DEF Reports
<1> USE DEF Reports
<1>1. ASSUME NEW d \in Callers, CallerNext(d)
      PROVE  /\ step'[c] = "failed" => sure'[c] \/ doubt'[c]
             /\ answer'[c] = "id" \/ step'[c] = "queued" => JobOf(c)' # {}
  <2>1. CASE Submit(d)
    <3>1. /\ UNCHANGED <<doubt, answer, jobs>>
          /\ step' = [step EXCEPT ![d] = "sent"]
          /\ submits' = [submits EXCEPT ![d] = @ + 1]
          /\ sure' = [sure EXCEPT ![d] = FALSE]
      BY <2>1 DEF Submit
    <3>2. answer[d] = "none"
      BY <2>1 DEF Submit, TypeOK
    <3>3. CASE c = d
      BY <3>1, <3>2, <3>3 DEF TypeOK
    <3>4. CASE c # d
      BY <3>1, <3>4 DEF TypeOK, JobOf
    <3> QED
      BY <3>3, <3>4
  <2>2. CASE ~Submit(d)
    <3>1. UNCHANGED <<jobs, submits>>
      BY <1>1, <2>2
      DEF CallerNext, ReadPayload, Build, NotSent, Answered, Broken, Poll, StartOver
    <3>2. JobOf(c)' = JobOf(c)
      BY <3>1 DEF JobOf
    <3>3. answer'[c] = "id" => answer[c] = "id"
      BY <1>1, <2>2
      DEF CallerNext, ReadPayload, Build, NotSent, Answered, Broken, Poll, StartOver, Fails,
          TypeOK
    <3>4. step'[c] = "queued" => step[c] = "queued" \/ answer[c] = "id"
      BY <1>1, <2>2
      DEF CallerNext, ReadPayload, Build, NotSent, Answered, Broken, Poll, StartOver, Fails,
          TypeOK
    <3>5. step'[c] = "failed" => sure'[c] \/ doubt'[c]
      BY <1>1, <2>2
      DEF CallerNext, ReadPayload, Build, NotSent, Answered, Broken, Poll, StartOver, Fails,
          TypeOK
    <3> QED
      BY <3>2, <3>3, <3>4, <3>5
  <2> QED
    BY <2>1, <2>2
<1>2. ASSUME NEW m \in wire, Take(m)
      PROVE  /\ step'[c] = "failed" => sure'[c] \/ doubt'[c]
             /\ answer'[c] = "id" \/ step'[c] = "queued" => JobOf(c)' # {}
  <2> DEFINE j == [from |-> m.from, copy |-> m.copy, payload |-> m.payload, state |-> "NEW"]
  <2>1. j.from = m.from /\ j.copy = m.copy
    OBVIOUS
  <2> HIDE DEF j
  <2>2. jobs' = jobs \cup {j} /\ UNCHANGED <<step, submits, sure, doubt>>
    BY <1>2 DEF Take, j
  <2>3. answer'[c] = "id" => answer[c] = "id" \/ (m.from = c /\ m.copy = submits[c])
    BY <1>2 DEF Take, Tell, TypeOK
  <2>4. JobOf(c) # {} => JobOf(c)' # {}
    BY <2>2 DEF JobOf
  <2>5. m.from = c /\ m.copy = submits[c] => JobOf(c)' # {}
    BY <2>1, <2>2 DEF JobOf
  <2> QED
    BY <2>2, <2>3, <2>4, <2>5
<1>3. ASSUME NEW m \in wire, Refuse(m)
      PROVE  /\ step'[c] = "failed" => sure'[c] \/ doubt'[c]
             /\ answer'[c] = "id" \/ step'[c] = "queued" => JobOf(c)' # {}
  BY <1>3 DEF Refuse, Tell, TypeOK, JobOf
<1>4. ASSUME NEW j \in jobs,
             Broadcast(j) \/ Invalidate(j) \/ Mine(j) \/ Fail(j) \/ Confirm(j)
      PROVE  /\ step'[c] = "failed" => sure'[c] \/ doubt'[c]
             /\ answer'[c] = "id" \/ step'[c] = "queued" => JobOf(c)' # {}
  <2>1. PICK s \in States : Advances(j, s)
    BY <1>4, Advance
  <2> DEFINE k == [j EXCEPT !.state = s]
  <2>2. k.from = j.from /\ k.copy = j.copy
    BY DEF TypeOK
  <2>3. jobs' = (jobs \ {j}) \cup {k}
    BY <2>1 DEF Advances, Becomes
  <2> HIDE DEF k
  <2>4. UNCHANGED <<step, submits, sure, doubt, answer>>
    BY <2>1 DEF Advances, caller
  <2>5. JobOf(c) # {} => JobOf(c)' # {}
    BY <2>2, <2>3, <2>4 DEF JobOf
  <2> QED
    BY <2>4, <2>5
<1>5. CASE Move \/ UNCHANGED vars
  BY <1>5 DEF Move, vars, caller, JobOf
<1> QED
  BY <1>1, <1>2, <1>3, <1>4, <1>5 DEF Next, RelayerNext

(* What is mined is the first thing mined for its caller. *)
LEMMA OnceStep ==
  TypeOK /\ OneNonce /\ PerformedOnce /\ [Next]_vars => PerformedOnce'
<1> SUFFICES ASSUME TypeOK, OneNonce, PerformedOnce, [Next]_vars PROVE PerformedOnce'
  OBVIOUS
<1>1. CASE performed' = performed
  BY <1>1 DEF PerformedOnce
<1>2. ASSUME NEW j \in jobs, Performed(j) PROVE PerformedOnce'
  <2>1. j.from \in Callers /\ j \in Pending(j.from)
    BY <1>2 DEF Performed, Pending, TypeOK
  <2>2. payload[j.from].nonce = nonce /\ nonce \in Nat
    BY <1>2, <2>1, SignedNonce DEF Performed, OneNonce, TypeOK
  <2>3. \A p \in performed : p.from # j.from
    BY <2>1, <2>2 DEF OneNonce
  <2>4. PICK items : performed' = performed \cup
                       {[from |-> j.from, copy |-> j.copy, items |-> items]}
    BY <1>2 DEF Performed
  <2> QED
    BY <2>3, <2>4 DEF PerformedOnce
<1>3. ASSUME NEW c \in Callers, CallerNext(c) PROVE performed' = performed
  BY <1>3 DEF CallerNext, ReadPayload, Build, Submit, NotSent, Answered, Broken, Poll,
              StartOver, chain
<1>4. ASSUME NEW m \in wire, Take(m) \/ Refuse(m) PROVE performed' = performed
  BY <1>4 DEF Take, Refuse, chain
<1>5. ASSUME NEW j \in jobs,
             Broadcast(j) \/ Invalidate(j) \/ Mine(j) \/ Fail(j) \/ Confirm(j)
      PROVE  performed' = performed \/ Performed(j)
  BY <1>5, Advance DEF Advances
<1>6. CASE Move \/ UNCHANGED vars
  BY <1>1, <1>6 DEF Move, vars
<1> QED
  BY <1>1, <1>2, <1>3, <1>4, <1>5, <1>6 DEF Next, RelayerNext

(* Where every copy of a request may be, and what each may still do: what  *)
(* makes one performance of a caller's calls the last.                     *)
THEOREM Invariant == Spec => []IInv
<1>1. Init => IInv
  BY InitType DEF Init, IInv, CopiesApart, OneNonce, Reports, BuiltFirst, Pending, Nothing,
                  MayRenew
<1>2. IInv /\ [Next]_vars => IInv'
  BY TypeStep, ApartStep, OneNonceStep, ReportsStep, BuiltStep DEF IInv
<1> QED
  BY <1>1, <1>2, PTL DEF Spec

(* A caller that starts over only when it is told that nothing is under    *)
(* way has its calls performed once at most: for any callers of a wallet,  *)
(* any lists of calls, any losses and any number of submissions.           *)
THEOREM OnceOnly == Spec => []PerformedOnce
<1>1. Init => PerformedOnce
  BY DEF Init, PerformedOnce
<1>2. IInv /\ PerformedOnce /\ [Next]_vars => PerformedOnce'
  BY OnceStep DEF IInv
<1> QED
  BY <1>1, <1>2, Invariant, PTL DEF Spec
---------------------------------------------------------------------------
(* What a Safe hashes is what its owner signed, if no wei is sent along.   *)
LEMMA SafeAccepts ==
  ASSUME NEW calls, NEW n, NEW relayer, Aggregate(calls).value = 0
  PROVE  Verifies(BuildSafeTransaction(calls, n), n, relayer)
<1> DEFINE r == BuildSafeTransaction(calls, n)
           call == Aggregate(calls)
           domain == [name |-> 0, version |-> 0, chainId |-> ChainId,
                      verifyingContract |-> Wallets.SAFE]
<1>1. /\ r.type = "SAFE" /\ r.signature.by = Owner /\ r.signature.v = 31
      /\ r.signature.over = PersonalDigest(SafeDigest(call, n))
  BY DEF BuildSafeTransaction, NoRequest, SafeSignature, Sign
<1>2. /\ r.to = call.to /\ r.data = call.data
      /\ r.params = [NoParams EXCEPT !.operation = SafeCode(call.operation)]
  BY DEF BuildSafeTransaction, NoRequest
<1>3. /\ r.params.operation = SafeCode(call.operation)
      /\ r.params.safeTxnGas = 0 /\ r.params.baseGas = 0 /\ r.params.gasPrice = 0
      /\ r.params.gasToken = 0 /\ r.params.refundReceiver = 0
  BY <1>2 DEF NoParams
<1>4. Separator(domain) =
        StructHash({"chainId", "verifyingContract"},
                   [chainId |-> ChainId, verifyingContract |-> Wallets.SAFE])
  <2>1. {f \in DOMAIN domain : domain[f] # 0} = {"chainId", "verifyingContract"}
    BY SubmissionAssumption
  <2>2. [f \in {"chainId", "verifyingContract"} |-> domain[f]]
          = [chainId |-> ChainId, verifyingContract |-> Wallets.SAFE]
    OBVIOUS
  <2> QED
    BY <2>1, <2>2 DEF Separator
<1> HIDE DEF domain, r, call
<1>5. SafeDigest(call, n) = SafeHash(r, n)
  BY <1>2, <1>3, <1>4 DEF SafeDigest, SafeHash, Digest, StructHash, call, domain
<1> QED
  BY <1>1, <1>5 DEF Verifies, r

(* What the relay hub hashes is what the owner signed, defaults included.  *)
LEMMA HubAccepts ==
  ASSUME NEW calls, NEW n, NEW relayer, NEW gas
  PROVE  Verifies(BuildProxyTransaction(calls, n, relayer, gas), n, relayer)
<1> DEFINE r == BuildProxyTransaction(calls, n, relayer, gas)
<1>1. /\ r.type = "PROXY" /\ r.from = Owner /\ r.to = Contracts.ProxyFactory
      /\ r.data = EncodeProxyCalls(calls)
      /\ r.signature.by = Owner /\ r.signature.v = 27
      /\ r.signature.over = PersonalDigest(ProxyRelayHash(calls, n, relayer, gas))
  BY DEF BuildProxyTransaction, NoRequest, Sign
<1>2. /\ r.params.relayerFee = 0
      /\ r.params.gasPrice = OrDefault(gas.price, 0)
      /\ r.params.gasLimit = OrDefault(gas.limit, DefaultProxyGasLimit)
  BY DEF BuildProxyTransaction, NoRequest, NoParams
<1> HIDE DEF r
<1>3. HubHash(r, n, relayer) = ProxyRelayHash(calls, n, relayer, gas)
  BY <1>1, <1>2 DEF HubHash, ProxyRelayHash
<1> QED
  BY <1>1, <1>3 DEF Verifies, r

(* What a deposit wallet hashes is what its owner signed. *)
LEMMA BatchAccepts ==
  ASSUME NEW calls, NEW n, NEW relayer
  PROVE  Verifies(BuildWalletBatch(calls, n), n, relayer)
<1> DEFINE r == BuildWalletBatch(calls, n)
           domain == [name |-> DomainName, version |-> DomainVersion,
                      chainId |-> ChainId, verifyingContract |-> Wallets.WALLET]
<1>1. /\ r.type = "WALLET" /\ r.to = Contracts.DepositWalletFactory
      /\ r.signature.by = Owner /\ r.signature.over = BatchDigest(calls, n)
      /\ r.deposit.deadline = Deadline /\ r.deposit.calls = BatchCalls(calls)
  BY DEF BuildWalletBatch, NoRequest, Sign
<1>2. DOMAIN BatchCalls(calls) = DOMAIN calls
  BY DEF BatchCalls
<1>3. Separator(domain) =
        StructHash({"name", "version", "chainId", "verifyingContract"}, domain)
  <2>1. {f \in DOMAIN domain : domain[f] # 0} = DOMAIN domain
    BY SubmissionAssumption DEF DomainName, DomainVersion
  <2>2. DOMAIN domain = {"name", "version", "chainId", "verifyingContract"}
    OBVIOUS
  <2>3. [f \in DOMAIN domain |-> domain[f]] = domain
    OBVIOUS
  <2> QED
    BY <2>1, <2>2, <2>3 DEF Separator
<1> HIDE DEF domain, r
<1>4. BatchDigest(calls, n) = BatchHash(r, n)
  BY <1>1, <1>2, <1>3 DEF BatchDigest, BatchHash, Digest, StructHash, domain
<1> QED
  BY <1>1, <1>4 DEF Verifies, r

(* A Safe's transaction sends no wei of its own, unless its only call does.*)
LEMMA SafeValue ==
  ASSUME NEW items \in Seq(Items), Len(items) = 1 => items[1].value = 0
  PROVE  Aggregate(CallsOf(items)).value = 0
<1>1. DOMAIN CallsOf(items) = 1..Len(items) /\ CallsOf(items) \in Seq(Range(CallsOf(items)))
  BY DEF CallsOf, Range
<1>2. Len(CallsOf(items)) = Len(items)
  BY <1>1
<1>3. CASE Len(items) = 1
  <2> CallsOf(items)[1].value = items[1].value
    BY <1>3 DEF CallsOf, CallOf
  <2> QED
    BY <1>2, <1>3 DEF Aggregate
<1>4. CASE Len(items) # 1
  BY <1>2, <1>4 DEF Aggregate
<1> QED
  BY <1>3, <1>4

(* Whatever calls are asked for, and whichever wallet is to make them, the *)
(* request carries all that the wallet needs to recompute what was signed: *)
(* read at the wallet's counter and its relay, it is accepted.             *)
THEOREM AlwaysVerifiable == Spec => []Verifiable
<1>1. TypeOK => Verifiable
  <2> SUFFICES ASSUME TypeOK, NEW c \in Callers, Expressible(ask[c]),
                      payload[c].nonce = nonce,
                      form = "PROXY" => payload[c].relay = relay
               PROVE  Verifies(Built(ask[c], payload[c]), nonce, relay)
    BY DEF Verifiable
  <2> DEFINE calls == CallsOf(ask[c].items)
  <2>1. ask[c].items \in Seq(Items)
    BY RelayAssumption DEF TypeOK
  <2>2. CASE form = "SAFE"
    <3>1. Aggregate(calls).value = 0
      BY <2>1, <2>2, SafeValue DEF Expressible
    <3> HIDE DEF calls
    <3>2. Verifies(BuildSafeTransaction(calls, nonce), nonce, relay)
      BY <3>1, SafeAccepts
    <3> QED
      BY <2>2, <3>2 DEF Built, calls
  <2>3. CASE form = "PROXY"
    <3> HIDE DEF calls
    <3>1. Verifies(BuildProxyTransaction(calls, nonce, relay, ask[c].gas), nonce, relay)
      BY HubAccepts
    <3> QED
      BY <2>3, <3>1 DEF Built, calls
  <2>4. CASE form = "WALLET"
    <3> HIDE DEF calls
    <3>1. Verifies(BuildWalletBatch(calls, nonce), nonce, relay)
      BY BatchAccepts
    <3> QED
      BY <2>4, <3>1 DEF Built, calls
  <2> QED
    BY <2>2, <2>3, <2>4 DEF TypeOK, Forms
<1> QED
  BY <1>1, TypeCorrect, PTL
---------------------------------------------------------------------------
(* Whatever the word size, and whatever is asked for that the form of      *)
(* wallet can express, the token contracts understand of what it performs  *)
(* the intents that were asked for, in their order, with their wei and     *)
(* their operations.                                                       *)
THEOREM PerformsAsAsked == Spec => []AsAsked
<1>1. Init => AsAsked
  BY DEF Init, AsAsked
<1>2. IInv /\ AsAsked /\ [Next]_vars => AsAsked'
  BY AsAskedStep DEF IInv
<1> QED
  BY <1>1, <1>2, Invariant, PTL DEF Spec

(* The calldata of a proxy wallet and of the multisend contract, written   *)
(* out by hand, are what the general encoder makes of the same calls.      *)
THEOREM OneEncoding == Spec => []EncodersAgree
  BY TypeEncoded, TypeCorrect, PTL
====
