---- MODULE OrdersProofs ----
(***************************************************************************)
(* Rounding protects: for every tick size, price and amount, the amounts   *)
(* of an order stay on the safe side of the price they were computed from. *)
(* An inductive invariant ties the signed order to that price.             *)
(***************************************************************************)
EXTENDS Orders, FiniteSetTheorems, TLAPS

(* Products keep the order of their factors. *)
LEMMA Times ==
  ASSUME NEW a \in Nat, NEW b \in Nat, NEW c \in Nat, a <= b
  PROVE  a * c <= b * c /\ c * a <= c * b
OBVIOUS

(* A quotient times its divisor, and what is left. *)
LEMMA Quotient ==
  ASSUME NEW x \in Nat, NEW k \in Nat \ {0}
  PROVE  /\ x \div k \in Nat /\ x % k \in 0 .. k - 1
         /\ k * (x \div k) <= x /\ x < k * (x \div k) + k
OBVIOUS

LEMMA Remainder ==
  ASSUME NEW x \in Nat, NEW k \in Nat \ {0}, x % k = 0
  PROVE  x \div k \in Nat /\ x = k * (x \div k)
<1>1. x % k = x - k * (x \div k)
  OBVIOUS
<1>2. x \div k \in Nat /\ k * (x \div k) \in Nat
  OBVIOUS
<1> QED BY <1>1, <1>2

LEMMA Cancel ==
  ASSUME NEW k \in Nat \ {0}, NEW a \in Nat, NEW b \in Nat, k * a <= k * b
  PROVE  a <= b
OBVIOUS

(* converge's rounding up is idle: a remainder of a divisor of up to four  *)
(* digits is too far from the next unit to be rounded up to it.            *)
LEMMA ConvergeTruncates ==
  ASSUME NEW x \in Nat, NEW den \in 1 .. NudgeScale
  PROVE  /\ Converge(x, den) \in Nat
         /\ den * Converge(x, den) <= x /\ x < den * Converge(x, den) + den
<1> DEFINE r == x % den
           y == r * NudgeScale + den - 1
           up == y \div den
<1>0. den \in Nat \ {0} /\ den <= 10000
  BY DEF NudgeScale
<1>1. x \div den \in Nat /\ r \in 0 .. den - 1
  BY <1>0
<1>2. y \in Nat /\ y < den * NudgeScale
  BY <1>0, <1>1 DEF NudgeScale
<1> HIDE DEF r, y
<1>3. up \in Nat /\ den * up <= y
  BY <1>0, <1>2, Quotient
<1>4. up < NudgeScale
  <2>1. SUFFICES ASSUME NudgeScale <= up PROVE FALSE
    BY <1>3 DEF NudgeScale
  <2>2. NudgeScale * den <= up * den
    <3> HIDE DEF up
    <3> QED BY <2>1, <1>0, <1>3, Times DEF NudgeScale
  <2> QED BY <2>2, <1>0, <1>2, <1>3 DEF NudgeScale
<1>5. up \div NudgeScale = 0
  BY <1>3, <1>4 DEF NudgeScale
<1>6. Converge(x, den) = x \div den
  BY <1>0, <1>1, <1>5 DEF Converge, RoundUp, r, y
<1>7. x \div den \in Nat /\ den * (x \div den) <= x /\ x < den * (x \div den) + den
  BY <1>0
<1> QED BY <1>6, <1>7

(* The limits of every tick size: a derived amount carries the decimals of *)
(* the size and the price together, and a tick is a number of units.       *)
LEMMA Limits ==
  ASSUME NEW t \in TickSizes
  PROVE  LET cfg == ByTickSize[t]
         IN /\ cfg.Price \in {10, 100, 1000, 10000}
            /\ cfg.Size = 100 /\ cfg.Amount = 100 * cfg.Price
            /\ Unit(t) \in Nat \ {0} /\ Unit(t) * cfg.Price = One
            /\ t % Unit(t) = 0 /\ Unit(t) <= t /\ t \in Nat
BY DEF TickSizes, ByTickSize, Config, Unit, One

(* A market buy, counted in units of the price: it never asks for more     *)
(* shares than its own price gives, and at the next price it would get     *)
(* fewer than it asks for.                                                 *)
LEMMA BuyStops ==
  ASSUME NEW P \in Nat \ {0}, NEW m \in Nat \ {0}, NEW k \in 1 .. P - 1,
         NEW t \in Nat, k * t <= m * (P * P), m * (P * P) < k * t + k,
         NEW j \in Nat, j * t <= m * (P * P)
  PROVE  j <= k
<1> DEFINE x == m * (P * P)
<1>0. k \in Nat \ {0} /\ k <= P - 1
  OBVIOUS
<1>1. P * P \in Nat /\ x \in Nat /\ P * P <= x
  <2> DEFINE s == P * P
  <2>1. s \in Nat /\ 1 <= m
    OBVIOUS
  <2> HIDE DEF s
  <2>2. 1 * s <= m * s /\ m * s \in Nat
    BY <2>1, Times
  <2>3. s <= m * s
    BY <2>1, <2>2
  <2> QED BY <2>1, <2>2, <2>3 DEF s
<1>2. k * t <= x /\ x < k * t + k
  OBVIOUS
<1> HIDE DEF x
<1>3. SUFFICES ASSUME k + 1 <= j PROVE FALSE
  OBVIOUS
<1>4. (k + 1) * t <= j * t
  BY <1>0, <1>2, <1>3, Times
<1>5. j * t <= x
  BY DEF x
<1>6. k * t + t <= x
  BY <1>0, <1>2, <1>4, <1>5
<1>7. t <= k
  BY <1>0, <1>1, <1>2, <1>6
<1>8. k * t <= k * k /\ k * k + k <= (P - 1) * P
  BY <1>0, <1>2, <1>7, Times
<1> QED BY <1>0, <1>1, <1>2, <1>8

(* A product of a divisor divides evenly. *)
LEMMA Exact ==
  ASSUME NEW u \in Nat, NEW d \in {1000, 10000, 100000, 1000000}
  PROVE  Converge(u * d, d) = u
BY DEF Converge

(* What Limit makes of a tick size's limits. *)
LEMMA LimitAmounts ==
  ASSUME NEW t \in TickSizes, NEW size \in Nat, NEW p \in Nat
  PROVE  LET P == ByTickSize[t].Price
             shares == RoundDown(size, Whole, 100)
             q == RoundHalfUp(p, One, P)
         IN /\ shares \in Nat /\ q \in Nat
            /\ Limit(TRUE, size, p, ByTickSize[t]) =
                 [Maker |-> shares * q, Taker |-> shares * P]
            /\ Limit(FALSE, size, p, ByTickSize[t]) =
                 [Maker |-> shares * P, Taker |-> shares * q]
<1> DEFINE cfg == ByTickSize[t]
           P == cfg.Price
           shares == RoundDown(size, Whole, 100)
           q == RoundHalfUp(p, One, P)
<1>1. P \in {10, 100, 1000, 10000} /\ cfg.Size = 100 /\ cfg.Amount = 100 * P
  BY Limits
<1> HIDE DEF cfg, P
<1>2. shares \in Nat /\ q \in Nat
  BY <1>1 DEF RoundDown, RoundHalfUp, Whole, One
<1> HIDE DEF shares, q
<1>3. shares * q \in Nat /\ 100 * P \in {1000, 10000, 100000, 1000000}
  BY <1>1, <1>2
<1>4. Converge(shares * q * cfg.Amount, cfg.Size * P) = shares * q
  BY <1>1, <1>3, Exact
<1>5. cfg.Amount \div cfg.Size = P
  BY <1>1
<1>6. /\ Limit(TRUE, size, p, cfg) = [Maker |-> shares * q, Taker |-> shares * P]
      /\ Limit(FALSE, size, p, cfg) = [Maker |-> shares * P, Taker |-> shares * q]
  BY <1>1, <1>4, <1>5 DEF Limit, shares, q, P
<1> QED BY <1>2, <1>6 DEF cfg, P, shares, q

(* What Market makes of them. *)
LEMMA MarketAmounts ==
  ASSUME NEW t \in TickSizes, NEW amt \in Nat, NEW p \in Nat
  PROVE  LET P == ByTickSize[t].Price
             m == RoundDown(amt, Whole, 100)
             k == MarketPriced(p, ByTickSize[t])
         IN /\ m \in Nat /\ k \in Nat
            /\ Market(TRUE, amt, p, ByTickSize[t]) =
                 [Maker |-> m * P, Taker |-> Converge(m * P * P, k)]
            /\ Market(FALSE, amt, p, ByTickSize[t]) =
                 [Maker |-> m * P, Taker |-> m * k]
<1> DEFINE cfg == ByTickSize[t]
           P == cfg.Price
           m == RoundDown(amt, Whole, 100)
           k == MarketPriced(p, cfg)
<1>1. P \in {10, 100, 1000, 10000} /\ cfg.Size = 100 /\ cfg.Amount = 100 * P
  BY Limits
<1> HIDE DEF cfg, P
<1>2. m \in Nat /\ k \in Nat
  BY <1>1 DEF RoundDown, MarketPriced, Whole, One, P
<1> HIDE DEF m, k
<1>3. m * k \in Nat /\ 100 * P \in {1000, 10000, 100000, 1000000}
  BY <1>1, <1>2
<1>4. Converge(m * k * cfg.Amount, cfg.Size * P) = m * k
  BY <1>1, <1>3, Exact
<1>5. cfg.Amount \div cfg.Size = P
  BY <1>1
<1>6. /\ Market(TRUE, amt, p, cfg) = [Maker |-> m * P, Taker |-> Converge(m * P * P, k)]
      /\ Market(FALSE, amt, p, cfg) = [Maker |-> m * P, Taker |-> m * k]
  BY <1>1, <1>4, <1>5 DEF Market, m, k, P
<1> QED BY <1>2, <1>6 DEF cfg, P, m, k

(* Whatever its rounding, converge returns a number of units. *)
LEMMA ConvergeNat ==
  ASSUME NEW x \in Nat, NEW den \in Nat \ {0}
  PROVE  Converge(x, den) \in Nat
<1> DEFINE r == x % den
           y == r * NudgeScale + den - 1
<1>1. x \div den \in Nat /\ r \in Nat
  OBVIOUS
<1> HIDE DEF r
<1>2. y \in Nat
  BY <1>1 DEF NudgeScale
<1> HIDE DEF y
<1>3. y \div den \in Nat
  BY <1>2, Quotient
<1>4. (y \div den) \div NudgeScale \in Nat
  BY <1>3 DEF NudgeScale
<1> QED BY <1>1, <1>4 DEF Converge, RoundUp, y, r

(* A nonempty set of positions has a last one. *)
LEMMA LastPosition ==
  ASSUME NEW n \in Nat, NEW S \in SUBSET (1 .. n), S # {}
  PROVE  Max(S) \in S
<1> DEFINE T == {n - i : i \in S}
<1>0. \A i \in S : i \in Nat /\ i <= n
  OBVIOUS
<1>1. T \in SUBSET Nat /\ T # {}
  <2>1. \A i \in S : n - i \in Nat
    BY <1>0
  <2>2. T \in SUBSET Nat
    BY <2>1
  <2>3. T # {}
    OBVIOUS
  <2> QED BY <2>2, <2>3
<1> HIDE DEF T
<1>2. PICK m \in T : \A k \in T : <<k, m>> \notin OpToRel(<, Nat)
  BY <1>1, NatLessThanWellFounded, WFMin, Zenon
<1>3. \A k \in T : ~(k < m)
  BY <1>1, <1>2, Zenon DEF OpToRel
<1>4. PICK i \in S : m = n - i
  BY DEF T
<1>5. \A j \in S : j <= i
  <2> SUFFICES ASSUME NEW j \in S PROVE j <= i
    OBVIOUS
  <2>1. n - j \in T
    BY DEF T
  <2> QED BY <1>3, <1>4, <2>1
<1>6. \E i0 \in S : \A j \in S : i0 >= j
  BY <1>5
<1> QED BY <1>6, Zenon DEF Max

(* What is a part of P as p is less than a part of w is less than P. *)
LEMMA PricedBelow ==
  ASSUME NEW P \in Nat \ {0}, NEW w \in Nat, NEW p \in Nat, p < w, NEW k \in Nat,
         w * k <= p * P
  PROVE  k < P
<1> SUFFICES ASSUME P <= k PROVE FALSE
  OBVIOUS
<1>1. w * P <= w * k
  BY Times
<1>2. (p + 1) * P <= w * P
  BY Times
<1>3. (p + 1) * P = p * P + P
  OBVIOUS
<1>4. p * P \in Nat /\ w * P \in Nat /\ w * k \in Nat
  OBVIOUS
<1> QED
  BY <1>1, <1>2, <1>3, <1>4

(* Every price of a book is a natural number. *)
LEMMA PricesAreNat == \A k \in 1 .. One - 1 : k \in Nat
  BY DEF One

(* Every level has a price. *)
LEMMA LevelPrices ==
  ASSUME NEW m \in Markets, NEW side, NEW i \in DOMAIN Levels(m, side)
  PROVE  Levels(m, side)[i].Price \in Nat
<1> DEFINE levels == Levels(m, side)
           Level == [Price : 1 .. One - 1, Size : Nat \ {0}]
<1>1. levels \in Seq(Level)
  BY OrdersAssumption DEF Levels
<1> HIDE DEF levels
<1>2. \A j \in DOMAIN levels : levels[j] \in Level
  <2> HIDE DEF Level
  <2> QED BY <1>1
<1>3. levels[i] \in Level
  BY <1>2 DEF levels
<1>4. levels[i].Price \in 1 .. One - 1
  BY <1>3
<1>5. \A k \in 1 .. One - 1 : k \in Nat
  BY PricesAreNat
<1> QED BY <1>4, <1>5, Zenon DEF levels

(* MarketPrice finds a level's price, or none. *)
LEMMA FoundPrice ==
  ASSUME NEW m \in Markets, NEW side, NEW amt, NEW type
  PROVE  MarketPrice(m, side, amt, type) \in Nat
<1> DEFINE levels == Levels(m, side)
           Upto(i) == SumFunctionOnSet(Worths(levels, side), i .. Len(levels))
           enough == {i \in DOMAIN levels : Upto(i) >= amt * One}
           Level == [Price : 1 .. One - 1, Size : Nat \ {0}]
<1>1. levels \in Seq(Level)
  BY OrdersAssumption DEF Levels
<1>2. \A l \in Level : l.Price \in Nat
  <2> SUFFICES ASSUME NEW l \in Level PROVE l.Price \in Nat
    OBVIOUS
  <2>1. l.Price \in 1 .. One - 1
    OBVIOUS
  <2>2. \A k \in 1 .. One - 1 : k \in Nat
    BY PricesAreNat
  <2> QED BY <2>1, <2>2, Zenon
<1> HIDE DEF levels, Level
<1>3. Len(levels) \in Nat /\ DOMAIN levels = 1 .. Len(levels)
  BY <1>1
<1>4. \A i \in DOMAIN levels : levels[i].Price \in Nat
  BY <1>1, <1>2, <1>3
<1>5. enough \in SUBSET (1 .. Len(levels))
  BY <1>3, Zenon
<1>6. levels # <<>> => 1 \in DOMAIN levels
  BY <1>1, <1>3
<1> HIDE DEF enough
<1>7. enough # {} => Max(enough) \in DOMAIN levels
  BY <1>3, <1>5, LastPosition
<1>8. MarketPrice(m, side, amt, type) =
        IF levels = <<>> THEN NoPrice
        ELSE IF enough # {} THEN levels[Max(enough)].Price
        ELSE IF type = "FOK" THEN NoPrice
        ELSE levels[1].Price
  BY DEF MarketPrice, enough, levels
<1> QED BY <1>4, <1>6, <1>7, <1>8 DEF NoPrice

---------------------------------------------------------------------------
(* A nonempty set of naturals has a least member. *)
LEMMA LeastExists ==
  ASSUME NEW T \in SUBSET Nat, T # {}
  PROVE  \E m \in T : \A n \in T : m <= n
<1>1. PICK m \in T : \A n \in T : <<n, m>> \notin OpToRel(<, Nat)
  BY NatLessThanWellFounded, WFMin, Zenon
<1>2. \A n \in T : ~ (n < m)
  BY <1>1, Zenon DEF OpToRel
<1> QED
  BY <1>2

Chosen(s) == CHOOSE x \in s : TRUE

(* g adds up f over every set of a collection, as the folds of the library do. *)
Adds(g, f, C) ==
  g = [s \in C |-> IF s = {} THEN 0 ELSE f[Chosen(s)] + g[s \ {Chosen(s)}]]

Sums(f, S) == CHOOSE g : Adds(g, f, SUBSET S)

LEMMA SumIsFold ==
  ASSUME NEW f, NEW S
  PROVE  SumFunctionOnSet(f, S) = Sums(f, S)[S]
BY DEF SumFunctionOnSet, FoldFunctionOnSet, MapThenFoldSet, Sums, Adds, Chosen

(* Smaller by one. *)
LEMMA Removal ==
  ASSUME NEW D, IsFiniteSet(D), NEW s \in SUBSET D, NEW x \in s
  PROVE  /\ s \ {x} \in SUBSET D
         /\ Cardinality(s) \in Nat /\ Cardinality(s \ {x}) \in Nat
         /\ Cardinality(s \ {x}) < Cardinality(s)
<1>1. IsFiniteSet(s)
  BY FS_Subset
<1>2. Cardinality(s) \in Nat /\ IsFiniteSet(s \ {x}) /\ Cardinality(s \ {x}) = Cardinality(s) - 1
  BY <1>1, FS_CardinalityType, FS_RemoveElement
<1>3. Cardinality(s \ {x}) \in Nat
  BY <1>2, FS_CardinalityType
<1> QED BY <1>2, <1>3

(* What is not so of every part of a finite set is not so of a smallest one. *)
LEMMA SmallestPart ==
  ASSUME NEW D, IsFiniteSet(D), NEW B \in SUBSET (SUBSET D), B # {}
  PROVE  \E s \in B : \A x \in s : s \ {x} \notin B
<1> DEFINE T == {Cardinality(s) : s \in B}
<1>1. \A s \in B : IsFiniteSet(s) /\ Cardinality(s) \in Nat
  BY FS_Subset, FS_CardinalityType
<1>2. T \in SUBSET Nat /\ T # {}
  BY <1>1
<1> HIDE DEF T
<1>3. PICK m \in T : \A n \in T : m <= n
  BY <1>2, LeastExists
<1>4. PICK s \in B : Cardinality(s) = m
  BY DEF T
<1>5. ASSUME NEW x \in s, s \ {x} \in B PROVE FALSE
  <2>1. Cardinality(s \ {x}) < Cardinality(s) /\ Cardinality(s) \in Nat /\ Cardinality(s \ {x}) \in Nat
    BY Removal
  <2>2. Cardinality(s \ {x}) \in T
    BY <1>5 DEF T
  <2> QED BY <2>1, <2>2, <1>3, <1>4
<1> QED BY <1>5

(* A fold exists on the parts of a finite set. *)
LEMMA SumsExist ==
  ASSUME NEW f, NEW D, IsFiniteSet(D)
  PROVE  Adds(Sums(f, D), f, SUBSET D)
<1> DEFINE Upto(k) == {s \in SUBSET D : Cardinality(s) <= k}
           Missing == {k \in Nat : ~ \E g : Adds(g, f, Upto(k))}
<1>1. \A s \in SUBSET D : Cardinality(s) \in Nat /\ (Cardinality(s) = 0 <=> s = {})
  BY FS_Subset, FS_CardinalityType, FS_EmptySet
<1>2. ASSUME Missing # {} PROVE FALSE
  <2>1. Missing \in SUBSET Nat
    OBVIOUS
  <2>2. PICK k \in Missing : \A n \in Missing : k <= n
    <3> HIDE DEF Missing
    <3> QED BY <1>2, <2>1, LeastExists
  <2>3. PICK g : \A s \in SUBSET D : Cardinality(s) < k =>
                   g[s] = IF s = {} THEN 0 ELSE f[Chosen(s)] + g[s \ {Chosen(s)}]
    <3>1. CASE k = 0
      BY <3>1, <1>1
    <3>2. CASE k # 0
      <4>0. k \in Nat /\ k - 1 \in Nat
        BY <2>1, <2>2, <3>2
      <4>1. k - 1 \in Nat /\ k - 1 \notin Missing
        <5> HIDE DEF Missing
        <5> QED BY <2>2, <4>0
      <4>2. PICK g : Adds(g, f, Upto(k - 1))
        BY <4>1
      <4>3. \A s \in SUBSET D : Cardinality(s) < k => s \in Upto(k - 1)
        BY <4>1, <1>1
      <4> HIDE DEF Upto
      <4>4. \A s \in Upto(k - 1) : g[s] = IF s = {} THEN 0 ELSE f[Chosen(s)] + g[s \ {Chosen(s)}]
        BY <4>2 DEF Adds
      <4> QED BY <4>3, <4>4
    <3> QED BY <3>1, <3>2
  <2> DEFINE h == [s \in Upto(k) |-> IF s = {} THEN 0 ELSE f[Chosen(s)] + g[s \ {Chosen(s)}]]
  <2>4. \A s \in Upto(k) : s # {} => s \ {Chosen(s)} \in Upto(k) /\ h[s \ {Chosen(s)}] = g[s \ {Chosen(s)}]
    <3> SUFFICES ASSUME NEW s \in Upto(k), s # {}
        PROVE s \ {Chosen(s)} \in Upto(k) /\ h[s \ {Chosen(s)}] = g[s \ {Chosen(s)}]
      OBVIOUS
    <3>1. Chosen(s) \in s /\ s \in SUBSET D
      BY DEF Chosen
    <3> HIDE DEF Upto
    <3> DEFINE r == s \ {Chosen(s)}
    <3>2. r \in SUBSET D /\ Cardinality(r) < Cardinality(s) /\ Cardinality(r) \in Nat /\ Cardinality(s) \in Nat
      BY <3>1, Removal
    <3> HIDE DEF r
    <3>3. Cardinality(r) < k /\ r \in Upto(k)
      BY <3>2, <2>1, <2>2 DEF Upto
    <3>4. h[r] = g[r]
      BY <3>2, <3>3, <2>3
    <3> QED BY <3>3, <3>4 DEF r
  <2>5. h = [s \in Upto(k) |-> IF s = {} THEN 0 ELSE f[Chosen(s)] + h[s \ {Chosen(s)}]]
    <3> HIDE DEF Upto
    <3>1. \A s \in Upto(k) : (IF s = {} THEN 0 ELSE f[Chosen(s)] + g[s \ {Chosen(s)}])
                           = (IF s = {} THEN 0 ELSE f[Chosen(s)] + h[s \ {Chosen(s)}])
      BY <2>4
    <3> QED BY <3>1
  <2>6. Adds(h, f, Upto(k))
    BY <2>5 DEF Adds
  <2> QED BY <2>2, <2>6
<1>3. Cardinality(D) \in Nat /\ Upto(Cardinality(D)) = SUBSET D
  BY <1>1, FS_Subset, FS_CardinalityType
<1>4. \E g : Adds(g, f, SUBSET D)
  <2> HIDE DEF Upto
  <2> QED BY <1>2, <1>3
<1> QED BY <1>4 DEF Sums

(* ... and there is but one. *)
LEMMA SumsAgree ==
  ASSUME NEW f, NEW D, IsFiniteSet(D), NEW E \in SUBSET D, NEW C, NEW P,
         C = SUBSET D, P = SUBSET E,
         NEW g, NEW h, Adds(g, f, C), Adds(h, f, P)
  PROVE  g[E] = h[E]
<1> DEFINE B == {s \in SUBSET E : g[s] # h[s]}
<1>1. IsFiniteSet(E)
  BY FS_Subset
<1>2. ASSUME B # {} PROVE FALSE
  <2>1. B \in SUBSET (SUBSET E)
    OBVIOUS
  <2>2. PICK s \in B : \A x \in s : s \ {x} \notin B
    <3> HIDE DEF B
    <3> QED BY <1>1, <1>2, <2>1, SmallestPart
  <2>3. /\ g[s] = IF s = {} THEN 0 ELSE f[Chosen(s)] + g[s \ {Chosen(s)}]
        /\ h[s] = IF s = {} THEN 0 ELSE f[Chosen(s)] + h[s \ {Chosen(s)}]
    BY <2>1 DEF Adds
  <2>4. s # {} => Chosen(s) \in s
    BY DEF Chosen
  <2>5. s # {} => g[s \ {Chosen(s)}] = h[s \ {Chosen(s)}]
    BY <2>1, <2>2, <2>4
  <2> QED BY <2>3, <2>5
<1> QED BY <1>2

(* What the library's sum is, one member at a time. *)
LEMMA SumStep ==
  ASSUME NEW f, NEW D, IsFiniteSet(D)
  PROVE  SumFunctionOnSet(f, D) =
           IF D = {} THEN 0
           ELSE f[Chosen(D)] + SumFunctionOnSet(f, D \ {Chosen(D)})
<1> DEFINE rest == D \ {Chosen(D)}
           whole == Sums(f, D)
           part == Sums(f, rest)
<1>1. rest \in SUBSET D /\ IsFiniteSet(rest)
  BY FS_Subset
<1>2. Adds(whole, f, SUBSET D) /\ Adds(part, f, SUBSET rest)
  BY <1>1, SumsExist
<1>3. whole[rest] = part[rest]
  <2> HIDE DEF rest, whole, part
  <2> QED BY <1>1, <1>2, SumsAgree
<1>4. whole[D] = IF D = {} THEN 0 ELSE f[Chosen(D)] + whole[rest]
  BY <1>2 DEF Adds
<1> QED BY <1>3, <1>4, SumIsFold

(* A sum of naturals is one, and does not depend on the order. *)
LEMMA SumNat ==
  ASSUME NEW D, IsFiniteSet(D), NEW f, \A x \in D : f[x] \in Nat
  PROVE  SumFunctionOnSet(f, D) \in Nat
<1> DEFINE B == {s \in SUBSET D : SumFunctionOnSet(f, s) \notin Nat}
<1>1. ASSUME B # {} PROVE FALSE
  <2>1. B \in SUBSET (SUBSET D)
    OBVIOUS
  <2>2. PICK s \in B : \A x \in s : s \ {x} \notin B
    <3> HIDE DEF B
    <3> QED BY <1>1, <2>1, SmallestPart
  <2>3. IsFiniteSet(s)
    BY <2>1, FS_Subset
  <2>4. s # {} => Chosen(s) \in s
    BY DEF Chosen
  <2>5. s # {} => SumFunctionOnSet(f, s \ {Chosen(s)}) \in Nat
    BY <2>1, <2>2, <2>4
  <2>6. SumFunctionOnSet(f, s) = IF s = {} THEN 0
          ELSE f[Chosen(s)] + SumFunctionOnSet(f, s \ {Chosen(s)})
    BY <2>3, SumStep
  <2>7. s # {} => f[Chosen(s)] \in Nat
    BY <2>1, <2>4
  <2> QED BY <2>1, <2>5, <2>6, <2>7
<1> QED BY <1>1

LEMMA SumRemove ==
  ASSUME NEW D, IsFiniteSet(D), NEW f, \A x \in D : f[x] \in Nat, NEW y \in D
  PROVE  SumFunctionOnSet(f, D) = f[y] + SumFunctionOnSet(f, D \ {y})
<1> DEFINE Sum(s) == SumFunctionOnSet(f, s)
           B == {s \in SUBSET D : \E z \in s : Sum(s) # f[z] + Sum(s \ {z})}
<1>1. ASSUME B # {} PROVE FALSE
  <2>1. B \in SUBSET (SUBSET D)
    OBVIOUS
  <2>2. PICK s \in B : \A x \in s : s \ {x} \notin B
    <3> HIDE DEF B
    <3> QED BY <1>1, <2>1, SmallestPart
  <2>3. PICK z \in s : Sum(s) # f[z] + Sum(s \ {z})
    OBVIOUS
  <2> DEFINE x == Chosen(s)
             both == (s \ {x}) \ {z}
  <2>4. x \in s
    BY <2>3 DEF Chosen
  <2>5. IsFiniteSet(s) /\ IsFiniteSet(s \ {z}) /\ IsFiniteSet(both)
    BY <2>1, FS_Subset
  <2> HIDE DEF x
  <2>6. Sum(s) = f[x] + Sum(s \ {x})
    BY <2>3, <2>5, SumStep DEF x
  <2>7. z # x
    BY <2>3, <2>6
  <2>8. Sum(s \ {x}) = f[z] + Sum(both)
    <3>1. s \ {x} \in SUBSET D /\ z \in s \ {x}
      BY <2>1, <2>7
    <3>2. s \ {x} \notin B
      BY <2>2, <2>4
    <3> HIDE DEF Sum
    <3> QED BY <3>1, <3>2
  <2>9. Sum(s \ {z}) = f[x] + Sum(both)
    <3>1. s \ {z} \in SUBSET D /\ x \in s \ {z}
      BY <2>1, <2>4, <2>7
    <3>2. s \ {z} \notin B
      BY <2>2
    <3>3. (s \ {z}) \ {x} = both
      OBVIOUS
    <3> HIDE DEF Sum, both
    <3> QED BY <3>1, <3>2, <3>3
  <2>10. Sum(both) \in Nat
    <3>1. \A w \in both : f[w] \in Nat
      BY <2>1
    <3> QED BY <2>5, <3>1, SumNat
  <2>11. f[x] \in Nat /\ f[z] \in Nat
    BY <2>1, <2>3, <2>4
  <2> HIDE DEF Sum, both
  <2> QED BY <2>3, <2>6, <2>8, <2>9, <2>10, <2>11
<1> QED BY <1>1

(* More terms, no smaller a sum. *)
LEMMA SumGrows ==
  ASSUME NEW D, IsFiniteSet(D), NEW f, \A x \in D : f[x] \in Nat, NEW E \in SUBSET D
  PROVE  SumFunctionOnSet(f, E) <= SumFunctionOnSet(f, D)
<1> DEFINE Sum(s) == SumFunctionOnSet(f, s)
           B == {s \in SUBSET D : E \in SUBSET s /\ ~(Sum(E) <= Sum(s))}
<1>1. ASSUME B # {} PROVE FALSE
  <2>1. B \in SUBSET (SUBSET D)
    OBVIOUS
  <2>2. PICK s \in B : \A x \in s : s \ {x} \notin B
    <3> HIDE DEF B
    <3> QED BY <1>1, <2>1, SmallestPart
  <2>3. \A r \in SUBSET D : Sum(r) \in Nat
    <3> SUFFICES ASSUME NEW r \in SUBSET D PROVE Sum(r) \in Nat
      OBVIOUS
    <3>1. IsFiniteSet(r) /\ \A x \in r : f[x] \in Nat
      BY FS_Subset
    <3> QED BY <3>1, SumNat
  <2> HIDE DEF Sum
  <2>4. PICK y \in s : y \notin E
    BY <2>1, <2>3
  <2>5. s \ {y} \in SUBSET D /\ E \in SUBSET (s \ {y}) /\ s \ {y} \notin B
    BY <2>1, <2>2, <2>4
  <2>6. Sum(E) <= Sum(s \ {y})
    BY <2>5
  <2>7. Sum(s) = f[y] + Sum(s \ {y})
    <3>1. s \in SUBSET D
      BY <2>1
    <3>2. IsFiniteSet(s) /\ \A x \in s : f[x] \in Nat
      BY <3>1, FS_Subset
    <3> QED BY <3>2, SumRemove DEF Sum
  <2>8. f[y] \in Nat
    BY <2>1
  <2> QED BY <2>1, <2>3, <2>5, <2>6, <2>7, <2>8
<1> QED BY <1>1

---------------------------------------------------------------------------
(* An intent states numbers. *)
LEMMA IntentShape ==
  ASSUME NEW i \in Intents \cup {Nothing}
  PROVE  /\ i.amount \in Nat /\ i.price \in Nat /\ i.tick \in Nat
         /\ i.negRisk \in BOOLEAN /\ i.market \in BOOLEAN
<1>1. CASE i \in Intents
  BY <1>1, OrdersAssumption
<1>2. CASE i = Nothing
  BY <1>2 DEF Nothing, NoPrice, NoTick
<1> QED BY <1>1, <1>2

(* What a market order is signed for. *)
LEMMA MarketSigned ==
  ASSUME TypeOK, opts.TickSize \in TickSizes, intent.market
  PROVE  LET P == ByTickSize[opts.TickSize].Price
             m == RoundDown(intent.amount, Whole, 100)
             k == MarketPriced(price, ByTickSize[opts.TickSize])
         IN /\ m \in Nat /\ k \in Nat /\ k = (price * P) \div One
            /\ SignedOrder.Maker = m * P
            /\ intent.side = "BUY" => SignedOrder.Taker = Converge(m * P * P, k)
            /\ intent.side # "BUY" => SignedOrder.Taker = m * k
<1> DEFINE t == opts.TickSize
           P == ByTickSize[t].Price
           m == RoundDown(intent.amount, Whole, 100)
           k == MarketPriced(price, ByTickSize[t])
<1>1. intent.amount \in Nat /\ price \in Nat /\ t \in TickSizes
  BY IntentShape DEF TypeOK
<1>2. /\ m \in Nat /\ k \in Nat
      /\ Market(TRUE, intent.amount, price, ByTickSize[t]) =
           [Maker |-> m * P, Taker |-> Converge(m * P * P, k)]
      /\ Market(FALSE, intent.amount, price, ByTickSize[t]) =
           [Maker |-> m * P, Taker |-> m * k]
  BY ZenonT(60), <1>1, MarketAmounts
<1>3. k = (price * P) \div One
  BY DEF MarketPriced, RoundDown
<1>4. /\ intent.side = "BUY" =>
           BuildMarketOrder = Market(TRUE, intent.amount, price, ByTickSize[t])
      /\ intent.side # "BUY" =>
           BuildMarketOrder = Market(FALSE, intent.amount, price, ByTickSize[t])
  BY DEF BuildMarketOrder, Market
<1>5. SignedOrder.Maker = BuildMarketOrder.Maker /\ SignedOrder.Taker = BuildMarketOrder.Taker
  BY DEF SignedOrder
<1>6. CASE intent.side = "BUY"
  <2>1. BuildMarketOrder = [Maker |-> m * P, Taker |-> Converge(m * P * P, k)]
    BY <1>2, <1>4, <1>6, Zenon
  <2>2. SignedOrder.Maker = m * P /\ SignedOrder.Taker = Converge(m * P * P, k)
    <3> HIDE DEF m, k, P
    <3> QED BY <1>5, <2>1
  <2> QED BY <1>2, <1>3, <1>6, <2>2
<1>7. CASE intent.side # "BUY"
  <2>1. BuildMarketOrder = [Maker |-> m * P, Taker |-> m * k]
    BY <1>2, <1>4, <1>7, Zenon
  <2>2. SignedOrder.Maker = m * P /\ SignedOrder.Taker = m * k
    <3> HIDE DEF m, k, P
    <3> QED BY <1>5, <2>1
  <2> QED BY <1>2, <1>3, <1>7, <2>2
<1> QED BY <1>6, <1>7

(* What a limit order is signed for. *)
LEMMA LimitSigned ==
  ASSUME TypeOK, opts.TickSize \in TickSizes, ~intent.market
  PROVE  LET P == ByTickSize[opts.TickSize].Price
             n == RoundDown(intent.amount, Whole, 100)
             q == RoundHalfUp(price, One, P)
         IN /\ n \in Nat /\ q \in Nat
            /\ intent.side = "BUY" => SignedOrder.Maker = n * q /\ SignedOrder.Taker = n * P
            /\ intent.side # "BUY" => SignedOrder.Maker = n * P /\ SignedOrder.Taker = n * q
<1> DEFINE t == opts.TickSize
           P == ByTickSize[t].Price
           n == RoundDown(intent.amount, Whole, 100)
           q == RoundHalfUp(price, One, P)
<1>1. intent.amount \in Nat /\ price \in Nat /\ t \in TickSizes
  BY IntentShape DEF TypeOK
<1>2. /\ n \in Nat /\ q \in Nat
      /\ Limit(TRUE, intent.amount, price, ByTickSize[t]) = [Maker |-> n * q, Taker |-> n * P]
      /\ Limit(FALSE, intent.amount, price, ByTickSize[t]) = [Maker |-> n * P, Taker |-> n * q]
  BY ZenonT(60), <1>1, LimitAmounts
<1>3. /\ intent.side = "BUY" =>
           BuildOrder = Limit(TRUE, intent.amount, price, ByTickSize[t])
      /\ intent.side # "BUY" =>
           BuildOrder = Limit(FALSE, intent.amount, price, ByTickSize[t])
  BY DEF BuildOrder, Limit
<1>4. SignedOrder.Maker = BuildOrder.Maker /\ SignedOrder.Taker = BuildOrder.Taker
  BY DEF SignedOrder
<1>5. CASE intent.side = "BUY"
  <2>1. BuildOrder = [Maker |-> n * q, Taker |-> n * P]
    BY <1>2, <1>3, <1>5, Zenon
  <2>2. SignedOrder.Maker = n * q /\ SignedOrder.Taker = n * P
    <3> HIDE DEF n, q, P
    <3> QED BY <1>4, <2>1
  <2> QED BY <1>2, <1>5, <2>2
<1>6. CASE intent.side # "BUY"
  <2>1. BuildOrder = [Maker |-> n * P, Taker |-> n * q]
    BY <1>2, <1>3, <1>6, Zenon
  <2>2. SignedOrder.Maker = n * P /\ SignedOrder.Taker = n * q
    <3> HIDE DEF n, q, P
    <3> QED BY <1>4, <2>1
  <2> QED BY <1>2, <1>6, <2>2
<1> QED BY <1>5, <1>6

(* What is signed is a pair of amounts. *)
LEMMA SignedShape ==
  ASSUME TypeOK, Buildable
  PROVE  SignedOrder \in [Maker : Nat, Taker : Nat, tick : Nat, negRisk : BOOLEAN]
<1> DEFINE t == opts.TickSize
           P == ByTickSize[t].Price
           buy == intent.side = "BUY"
           raw == IF intent.market THEN BuildMarketOrder ELSE BuildOrder
<1>1. t \in TickSizes /\ t \in Nat /\ opts.NegRisk \in BOOLEAN
  BY DEF TypeOK, Buildable
<1>2. intent.amount \in Nat /\ price \in Nat /\ buy \in BOOLEAN /\ intent.market \in BOOLEAN
  BY IntentShape DEF TypeOK
<1>3. P \in Nat \ {0}
  BY <1>1, Limits
<1>4. CASE intent.market
  <2> DEFINE m == RoundDown(intent.amount, Whole, 100)
             k == MarketPriced(price, ByTickSize[t])
  <2>1. /\ m \in Nat /\ k \in Nat /\ SignedOrder.Maker = m * P
        /\ buy => SignedOrder.Taker = Converge(m * P * P, k)
        /\ ~buy => SignedOrder.Taker = m * k
    BY <1>1, <1>4, MarketSigned
  <2>2. buy => k > 0
    BY <1>4 DEF Buildable
  <2> HIDE DEF m, k, P, buy
  <2>3. m * P \in Nat /\ m * k \in Nat /\ m * P * P \in Nat
    BY <1>3, <2>1
  <2>4. buy => Converge(m * P * P, k) \in Nat
    BY <2>1, <2>2, <2>3, ConvergeNat
  <2>5. SignedOrder.Maker \in Nat /\ SignedOrder.Taker \in Nat
    BY <2>1, <2>3, <2>4
  <2> QED BY <2>5, <1>1 DEF SignedOrder
<1>5. CASE ~intent.market
  <2> DEFINE shares == RoundDown(intent.amount, Whole, 100)
             q == RoundHalfUp(price, One, P)
  <2>1. /\ shares \in Nat /\ q \in Nat
        /\ buy => raw = [Maker |-> shares * q, Taker |-> shares * P]
        /\ ~buy => raw = [Maker |-> shares * P, Taker |-> shares * q]
    <3>1. /\ shares \in Nat /\ q \in Nat
          /\ Limit(TRUE, intent.amount, price, ByTickSize[t]) =
               [Maker |-> shares * q, Taker |-> shares * P]
          /\ Limit(FALSE, intent.amount, price, ByTickSize[t]) =
               [Maker |-> shares * P, Taker |-> shares * q]
      BY ZenonT(60), <1>1, <1>2, LimitAmounts
    <3>2. /\ buy => raw = Limit(TRUE, intent.amount, price, ByTickSize[t])
          /\ ~buy => raw = Limit(FALSE, intent.amount, price, ByTickSize[t])
      BY <1>5 DEF BuildOrder, Limit
    <3> QED BY <3>1, <3>2
  <2> HIDE DEF shares, q, P, buy
  <2>2. shares * q \in Nat /\ shares * P \in Nat
    BY <1>3, <2>1
  <2>3. raw.Maker \in Nat /\ raw.Taker \in Nat
    <3> HIDE DEF raw
    <3> QED BY <2>1, <2>2
  <2> QED BY <2>3, <1>1 DEF SignedOrder
<1> QED BY <1>4, <1>5

(* The invariant holds at the start. *)
LEMMA Starts == Init => IInv
BY OrdersAssumption
   DEF Init, IInv, TypeOK, AsPriced, Asked, Found, Nothing, NoOrder, NoTick, NoPrice

(* The variables keep their shape. *)
LEMMA KeepsType == IInv /\ [Next]_vars => TypeOK'
<1> SUFFICES ASSUME IInv, [Next]_vars PROVE TypeOK'
  OBVIOUS
<1>1. ASSUME NEW i \in Intents, Create(i) PROVE TypeOK'
  <2>1. i.tick \in Nat /\ i.price \in Nat /\ i.negRisk \in BOOLEAN
    BY IntentShape
  <2> QED BY <1>1, <2>1 DEF Create, IInv, TypeOK
<1>2. CASE ResolveTick
  <2>1. market.tick \in Nat
    BY OrdersAssumption, Limits DEF IInv, TypeOK
  <2> QED BY <1>2, <2>1 DEF ResolveTick, IInv, TypeOK
<1>3. CASE ResolveNegRisk
  <2>1. market.negRisk \in BOOLEAN
    BY OrdersAssumption DEF IInv, TypeOK
  <2> QED BY <1>3, <2>1 DEF ResolveNegRisk, IInv, TypeOK
<1>4. CASE FindPrice
  <2>1. price' \in Nat
    BY <1>4, FoundPrice DEF FindPrice, IInv, TypeOK
  <2> QED BY <1>4, <2>1 DEF FindPrice, IInv, TypeOK
<1>5. CASE Fails
  BY <1>5 DEF Fails, IInv, TypeOK
<1>6. CASE Build
  <2>1. CASE Buildable
    <3>1. order' \in [Maker : Nat, Taker : Nat, tick : Nat, negRisk : BOOLEAN]
      BY <1>6, <2>1, SignedShape DEF Build, IInv
    <3>2. UNCHANGED <<market, moves, intent, price, opts, filled>> /\ step' = "signed"
      BY <1>6, <2>1 DEF Build
    <3>3. price > 0
      <4>1. intent.market => price # NoPrice
        BY <1>6 DEF Build, Unpriced
      <4>2. ~intent.market => opts.TickSize \in TickSizes /\ opts.TickSize <= price
        BY <2>1 DEF Buildable, PriceInRange
      <4> QED BY <4>1, <4>2 DEF IInv, TypeOK, NoPrice, TickSizes
    <3> QED BY <3>1, <3>2, <3>3 DEF IInv, TypeOK
  <2>2. CASE ~Buildable
    BY <1>6, <2>2 DEF Build, IInv, TypeOK
  <2> QED BY <2>1, <2>2
<1>7. CASE Post
  BY <1>7 DEF Post, IInv, TypeOK
<1>8. CASE Match
  <2>1. filled' \in {"none", "part", "all"}
    BY <1>8 DEF Match
  <2> QED BY <1>8, <2>1 DEF Match, IInv, TypeOK
<1>9. CASE Move
  <2>1. market' \in Markets /\ moves' \in 0 .. MaxMoves
    BY <1>9, OrdersAssumption DEF Move, IInv, TypeOK
  <2> QED BY <1>9, <2>1 DEF Move, IInv, TypeOK
<1>10. CASE UNCHANGED vars
  BY <1>10 DEF vars, IInv, TypeOK
<1> QED
  BY <1>1, <1>2, <1>3, <1>4, <1>5, <1>6, <1>7, <1>8, <1>9, <1>10 DEF Next

(* Only Build signs, and nothing it signed for is changed afterwards. *)
LEMMA KeepsPriced == IInv /\ [Next]_vars => AsPriced'
<1> SUFFICES ASSUME IInv, [Next]_vars, step' \in {"signed", "posted"}
             PROVE  Buildable' /\ order' = SignedOrder'
  BY DEF AsPriced
<1>1. UNCHANGED <<intent, price, opts>> /\ Buildable /\ order' = SignedOrder
  <2>1. CASE Build
    BY <2>1 DEF Build, IInv, TypeOK
  <2>2. CASE Post
    BY <2>2 DEF Post, IInv, AsPriced
  <2>3. CASE Move
    BY <2>3 DEF Move, IInv, AsPriced
  <2>4. CASE UNCHANGED vars
    BY <2>4 DEF vars, IInv, AsPriced
  <2>5. CASE \/ \E i \in Intents : Create(i)
             \/ ResolveTick \/ ResolveNegRisk \/ FindPrice \/ Fails \/ Match
    BY <2>5 DEF Create, ResolveTick, ResolveNegRisk, FindPrice, Fails, Match
  <2> QED BY <2>1, <2>2, <2>3, <2>4, <2>5 DEF Next
<1> QED BY <1>1 DEF Buildable, SignedOrder, BuildMarketOrder, BuildOrder

(* What the caller left out is asked for in its own step. *)
LEMMA KeepsAsked == IInv /\ [Next]_vars => Asked'
<1> SUFFICES ASSUME IInv, [Next]_vars PROVE Asked'
  OBVIOUS
<1>1. ASSUME NEW i \in Intents, Create(i) PROVE Asked'
  BY <1>1 DEF Create, Asked
<1>2. CASE ResolveTick
  BY <1>2 DEF ResolveTick, IInv, TypeOK, Asked
<1>3. CASE ResolveNegRisk \/ FindPrice \/ Fails \/ Build \/ Post \/ Match
  BY <1>3 DEF ResolveNegRisk, FindPrice, Fails, Build, Post, Match, Asked
<1>4. CASE Move
  BY <1>4 DEF Move, IInv, Asked
<1>5. CASE UNCHANGED vars
  BY <1>5 DEF vars, IInv, Asked
<1> QED BY <1>1, <1>2, <1>3, <1>4, <1>5 DEF Next

(* What is found is what the market says, until it moves. *)
LEMMA KeepsFound == IInv /\ [Next]_vars => Found'
<1> SUFFICES ASSUME IInv, [Next]_vars, moves' = 0 PROVE Found'
  BY DEF Found
<1>0. moves = 0 /\ market' = market
  <2>1. CASE Move
    BY <2>1 DEF Move, IInv, TypeOK
  <2>2. CASE ~Move
    BY <2>2 DEF Next, vars, Create, ResolveTick, ResolveNegRisk, FindPrice, Fails,
                Build, Post, Match
  <2> QED BY <2>1, <2>2
<1>1. ASSUME NEW i \in Intents, Create(i) PROVE Found'
  BY <1>1 DEF Create, Found
<1>2. CASE ResolveTick
  BY <1>2, <1>0 DEF ResolveTick, IInv, TypeOK, Asked, Found
<1>3. CASE ResolveNegRisk
  <2>1. /\ UNCHANGED <<market, intent, price>> /\ step = "negRisk" /\ step' = "price"
        /\ opts' = [opts EXCEPT !.NegRisk = @ \/ market.negRisk]
    BY <1>3 DEF ResolveNegRisk
  <2>2. /\ opts \in [TickSize : Nat, NegRisk : BOOLEAN] /\ market.negRisk \in BOOLEAN
        /\ opts.NegRisk = intent.negRisk /\ price = intent.price
    BY <2>1, OrdersAssumption DEF IInv, TypeOK, Asked
  <2>3. /\ opts'.TickSize = opts.TickSize
        /\ opts'.NegRisk = (opts.NegRisk \/ market.negRisk)
    BY <2>1, <2>2
  <2>4. ~intent.negRisk => opts'.NegRisk = market.negRisk
    BY <2>2, <2>3
  <2>5. intent.tick = NoTick => opts.TickSize = market.tick
    BY <1>0, <2>1 DEF IInv, Found
  <2>6. ~(intent.price = NoPrice /\ price # NoPrice)
    BY <2>2
  <2> QED BY <1>0, <2>1, <2>3, <2>4, <2>5, <2>6 DEF Found
<1>4. CASE FindPrice
  <2>1. /\ UNCHANGED <<market, intent, opts>> /\ step = "price"
        /\ price' = MarketPrice(market, intent.side, intent.amount, "FOK")
    BY <1>4 DEF FindPrice
  <2>2. MarketPrice(market, intent.side, intent.amount, "FOK")' =
          MarketPrice(market, intent.side, intent.amount, "FOK")
    BY <2>1 DEF MarketPrice, Levels
  <2> QED BY <1>0, <2>1, <2>2 DEF IInv, Found
<1>5. CASE Fails \/ Match
  BY <1>5, <1>0 DEF Fails, Match, IInv, Found
<1>6. CASE Build \/ Post \/ UNCHANGED vars
  BY <1>6, <1>0 DEF Build, Post, vars, IInv, Found
<1>7. CASE Move
  BY <1>0, <1>7 DEF Move, IInv, TypeOK
<1> QED BY <1>1, <1>2, <1>3, <1>4, <1>5, <1>6, <1>7 DEF Next

(* Every step keeps all of it. *)
LEMMA Keeps == IInv /\ [Next]_vars => IInv'
BY KeepsType, KeepsPriced, KeepsAsked, KeepsFound DEF IInv

(* A signed order says what its price, options and intent make of it, for  *)
(* any markets, however they move.                                         *)
THEOREM Invariant == Spec => []IInv
<1> QED BY Starts, Keeps, PTL DEF Spec

---------------------------------------------------------------------------
(* A sell at price p takes no level a unit cheaper. *)
LEMMA SellProtected ==
  ASSUME NEW P \in {10, 100, 1000, 10000}, NEW u \in Nat \ {0}, u * P = One,
         NEW m \in Nat \ {0}, NEW p \in Nat, NEW k \in Nat, k = (p * P) \div One,
         NEW l \in Nat, l * (m * P) >= m * k * One
  PROVE  l > p - u
<1>1. m * k * One = m * (k * One) /\ l * (m * P) = m * (l * P)
  BY DEF One
<1>2. k * One <= l * P
  BY <1>1, Cancel DEF One
<1>3. p * P < k * One + One
  BY DEF One
<1> QED BY <1>2, <1>3 DEF One

---------------------------------------------------------------------------
(* Protected holds of every signed order, whatever its tick size, price    *)
(* and amount, and whatever the market has become.                         *)
LEMMA Protects == IInv => Protected
<1> SUFFICES ASSUME IInv, step \in {"signed", "posted"}, intent.market,
                    order.Maker > 0, price < One,
                    NEW i \in DOMAIN Levels(market, intent.side),
                    Takes(order, intent.side, Levels(market, intent.side)[i].Price)
             PROVE  IF intent.side = "BUY"
                      THEN Levels(market, intent.side)[i].Price % Unit(order.tick) = 0
                             => Levels(market, intent.side)[i].Price <= price
                      ELSE Levels(market, intent.side)[i].Price > price - Unit(order.tick)
  BY Zenon DEF Protected
<1> DEFINE t == opts.TickSize
           P == ByTickSize[t].Price
           u == Unit(t)
           l == Levels(market, intent.side)[i].Price
           m == RoundDown(intent.amount, Whole, 100)
           k == MarketPriced(price, ByTickSize[t])
<1>1. Buildable /\ order = SignedOrder /\ TypeOK
  BY DEF IInv, AsPriced
<1>2. t \in TickSizes /\ order.tick = t
  BY <1>1 DEF Buildable, SignedOrder
<1>3. /\ P \in {10, 100, 1000, 10000} /\ u \in Nat \ {0} /\ u * P = One
  BY <1>2, Limits
<1>4. price \in Nat /\ l \in Nat
  BY <1>1, LevelPrices DEF TypeOK
<1>5. /\ m \in Nat /\ k \in Nat /\ k = (price * P) \div One
      /\ order.Maker = m * P
      /\ intent.side = "BUY" => order.Taker = Converge(m * P * P, k)
      /\ intent.side # "BUY" => order.Taker = m * k
  BY <1>1, <1>2, MarketSigned
<1>6. intent.side = "BUY" => k > 0
  BY <1>1 DEF Buildable
<1>7. IF intent.side = "BUY" THEN l * order.Taker <= order.Maker * One
                             ELSE l * order.Maker >= order.Taker * One
  BY DEF Takes
<1> HIDE DEF m, k, P, u, l
<1>8. m \in Nat \ {0}
  BY <1>3, <1>5
<1>9. CASE intent.side = "BUY"
  <2> DEFINE T == order.Taker
             j == l \div u
             s == P * P
             x == m * s
  <2>1. k \in 1 .. P - 1 /\ k \in 1 .. NudgeScale
    <3>1. k \in Nat \ {0}
      BY <1>5, <1>6, <1>9
    <3>2. price * P \in Nat /\ One \in Nat \ {0}
      BY <1>3, <1>4 DEF One
    <3>3. One * ((price * P) \div One) <= price * P
      BY <3>2, Quotient, Zenon
    <3>4. One * k <= price * P
      BY <1>5, <3>3, Zenon
    <3>5. P \in Nat \ {0} /\ P <= NudgeScale /\ NudgeScale \in Nat
      BY <1>3 DEF NudgeScale
    <3>6. k < P
      BY <1>4, <3>1, <3>2, <3>4, <3>5, PricedBelow
    <3> QED
      BY <3>1, <3>5, <3>6
  <2>2. T = Converge(m * P * P, k) /\ l * T <= m * P * One
    BY <1>5, <1>7, <1>9
  <2> HIDE DEF T
  <2>3. m * P * P = x /\ x \in Nat /\ m * P * One = u * x
    BY <1>3, <1>8 DEF One
  <2> HIDE DEF x
  <2>4. T \in Nat /\ k * T <= x /\ x < k * T + k
    BY <2>1, <2>2, <2>3, ConvergeTruncates
  <2>5. ASSUME l % u = 0 PROVE l <= price
    <3>1. j \in Nat /\ l = u * j
      BY <1>3, <1>4, <2>5, Remainder
    <3> HIDE DEF j
    <3>2. j * T <= x
      <4>1. j * T \in Nat /\ l * T = u * (j * T)
        BY <1>3, <2>4, <3>1
      <4> QED BY <1>3, <2>2, <2>3, <4>1, Cancel
    <3>3. j <= k
      BY <1>3, <1>8, <2>1, <2>4, <3>1, <3>2, BuyStops DEF x, s
    <3>4. u * k <= price
      BY <1>3, <1>4, <1>5 DEF One
    <3>5. u * j <= u * k
      BY <1>3, <1>5, <3>1, <3>3, Times
    <3> QED BY <1>3, <1>4, <1>5, <3>1, <3>4, <3>5
  <2> QED BY <1>2, <1>9, <2>5 DEF l, u
<1>10. CASE intent.side # "BUY"
  <2>1. l * (m * P) >= m * k * One
    BY <1>5, <1>7, <1>10
  <2>2. l > price - u
    BY <1>3, <1>4, <1>5, <1>8, <2>1, SellProtected
  <2> QED BY <1>2, <1>10, <2>2 DEF l, u
<1> QED BY <1>9, <1>10

(* No market order trades beyond its price, whatever the tick size, the    *)
(* price and the amount, and however the market moves.                     *)
THEOREM NeverBeyondPrice == Spec => []Protected
<1> QED BY Invariant, Protects, PTL

(* Tradable holds of every signed order, whatever its tick size, price and *)
(* size.                                                                   *)
LEMMA Trades == IInv => Tradable
<1> SUFFICES ASSUME IInv, step \in {"signed", "posted"}, ~intent.market
             PROVE  LET shares == IF intent.side = "BUY" THEN order.Taker ELSE order.Maker
                        money == IF intent.side = "BUY" THEN order.Maker ELSE order.Taker
                        off == 2 * (money * One - price * shares)
                        unit == Unit(order.tick) * shares
                    IN /\ order.tick * shares <= money * One
                       /\ money * One <= (One - order.tick) * shares
                       /\ -unit <= off /\ off <= unit
  BY Zenon DEF Tradable
<1> DEFINE t == opts.TickSize
           P == ByTickSize[t].Price
           u == Unit(t)
           n == RoundDown(intent.amount, Whole, 100)
           q == RoundHalfUp(price, One, P)
<1>1. Buildable /\ order = SignedOrder /\ TypeOK
  BY DEF IInv, AsPriced
<1>2. /\ t \in TickSizes /\ order.tick = t /\ price \in Nat
      /\ t <= price /\ price <= One - t
  BY <1>1 DEF Buildable, SignedOrder, PriceInRange, TypeOK
<1>3. /\ P \in {10, 100, 1000, 10000} /\ u \in Nat \ {0} /\ u * P = One
      /\ t \in Nat /\ t % u = 0 /\ u <= t
  BY <1>2, Limits
<1>4. /\ n \in Nat /\ q \in Nat
      /\ intent.side = "BUY" => order.Maker = n * q /\ order.Taker = n * P
      /\ intent.side # "BUY" => order.Maker = n * P /\ order.Taker = n * q
  BY <1>1, <1>2, LimitSigned
<1> HIDE DEF n, P, u, t
<1>5. /\ 2 * (q * One - price * P) <= One /\ -One <= 2 * (q * One - price * P)
      /\ q * One - price * P \in Int
  BY <1>2, <1>3, <1>4 DEF RoundHalfUp, One
<1>6. t * P <= q * One /\ q * One <= (One - t) * P
  <2> DEFINE j == t \div u
  <2>1. j \in Nat /\ t = u * j
    BY <1>3, Remainder
  <2> HIDE DEF j
  <2>2. t * P = j * One
    BY <1>3, <2>1 DEF One
  <2>3. j <= q /\ q <= P - j
    BY <1>2, <1>3, <1>4, <2>1, <2>2 DEF RoundHalfUp, One
  <2> QED BY <1>3, <1>4, <2>1, <2>2, <2>3 DEF One
<1> HIDE DEF q
<1>7. LET shares == n * P
          money == n * q
          off == 2 * (money * One - price * shares)
      IN /\ t * shares <= money * One /\ money * One <= (One - t) * shares
         /\ -(u * shares) <= off /\ off <= u * shares
  <2> DEFINE d == q * One - price * P
  <2>1. n * (t * P) <= n * (q * One) /\ n * (q * One) <= n * ((One - t) * P)
    BY <1>2, <1>3, <1>4, <1>6, Times DEF One
  <2>2. n * q * One - price * (n * P) = n * d
    BY <1>2, <1>3, <1>4 DEF One
  <2>3. d \in Int /\ 2 * d <= One /\ -One <= 2 * d
    BY <1>5
  <2> HIDE DEF d
  <2>4. -(n * One) <= 2 * (n * d) /\ 2 * (n * d) <= n * One
    BY <1>4, <2>3 DEF One
  <2>5. u * (n * P) = n * One
    BY <1>3, <1>4 DEF One
  <2>6. t * (n * P) = n * (t * P) /\ n * q * One = n * (q * One)
        /\ (One - t) * (n * P) = n * ((One - t) * P)
    BY <1>3, <1>4 DEF One
  <2> QED BY <2>1, <2>2, <2>4, <2>5, <2>6
<1>8. Unit(order.tick) = u
  BY <1>2 DEF u
<1>9. CASE intent.side = "BUY"
  BY <1>2, <1>4, <1>7, <1>8, <1>9
<1>10. CASE intent.side # "BUY"
  BY <1>2, <1>4, <1>7, <1>8, <1>10
<1> QED BY <1>9, <1>10

(* No rounding takes a limit order out of the tradable range, or further   *)
(* than half a unit from its price.                                        *)
THEOREM StaysTradable == Spec => []Tradable
<1> QED BY Invariant, Trades, PTL

---------------------------------------------------------------------------
(* The worth of a level is a number. *)
LEMMA WorthNat ==
  ASSUME NEW m \in Markets, NEW side
  PROVE  /\ Len(Levels(m, side)) \in Nat
         /\ DOMAIN Levels(m, side) = 1 .. Len(Levels(m, side))
         /\ \A i \in DOMAIN Levels(m, side) :
              /\ Levels(m, side)[i].Price \in 1 .. One - 1
              /\ Worths(Levels(m, side), side)[i] \in Nat
<1> DEFINE levels == Levels(m, side)
           Level == [Price : 1 .. One - 1, Size : Nat \ {0}]
<1>1. levels \in Seq(Level)
  BY OrdersAssumption DEF Levels
<1> HIDE DEF levels
<1>2. Len(levels) \in Nat /\ DOMAIN levels = 1 .. Len(levels)
  BY <1>1
<1>3. \A i \in DOMAIN levels : levels[i] \in Level
  <2> HIDE DEF Level
  <2> QED BY <1>1
<1>4. \A i \in DOMAIN levels : levels[i].Price \in 1 .. One - 1 /\ levels[i].Size \in Nat
  BY <1>3
<1>5. ASSUME NEW i \in DOMAIN levels PROVE Worths(levels, side)[i] \in Nat
  <2>1. Worths(levels, side)[i] = levels[i].Size * (IF side = "BUY" THEN levels[i].Price ELSE One)
    BY DEF Worths
  <2>2. levels[i].Price \in 1 .. One - 1 /\ levels[i].Size \in Nat
    BY <1>4
  <2>3. levels[i].Price \in Nat
    BY <2>2, PricesAreNat, Zenon
  <2>4. One \in Nat
    BY DEF One
  <2> QED BY <2>1, <2>2, <2>3, <2>4
<1> QED BY <1>2, <1>4, <1>5 DEF levels

(* The level that a fill-or-kill price was found on: from there to the     *)
(* best, the levels are worth the amount.                                  *)
LEMMA FoundLevel ==
  ASSUME NEW m, NEW side, NEW amt, MarketPrice(m, side, amt, "FOK") # NoPrice,
         NEW n \in Nat, n = Len(Levels(m, side)), DOMAIN Levels(m, side) = 1 .. n
  PROVE  \E b \in 1 .. n :
           /\ Levels(m, side)[b].Price = MarketPrice(m, side, amt, "FOK")
           /\ SumFunctionOnSet(Worths(Levels(m, side), side), b .. n) >= amt * One
<1> DEFINE levels == Levels(m, side)
           Upto(i) == SumFunctionOnSet(Worths(levels, side), i .. Len(levels))
           enough == {i \in DOMAIN levels : Upto(i) >= amt * One}
<1>1. enough # {} /\ MarketPrice(m, side, amt, "FOK") = levels[Max(enough)].Price
  BY Zenon DEF MarketPrice
<1>2. enough \in SUBSET (1 .. n)
  OBVIOUS
<1>3. Max(enough) \in enough
  <2> HIDE DEF enough
  <2> QED BY <1>1, <1>2, LastPosition
<1>4. Max(enough) \in 1 .. n /\ Upto(Max(enough)) >= amt * One
  <2> DEFINE b == Max(enough)
  <2>1. b \in enough
    BY <1>3
  <2> HIDE DEF b
  <2>2. b \in 1 .. n /\ Upto(b) >= amt * One
    BY <2>1
  <2> QED BY <2>2 DEF b
<1> HIDE DEF enough
<1> QED BY <1>1, <1>4

(* A buy at a price of k units, at which a share costs less than a dollar, *)
(* takes every level that is no dearer.                                    *)
LEMMA BuyTakes ==
  ASSUME NEW u \in Nat \ {0}, NEW k \in Nat, k > 0,
         NEW p \in Nat, p < One, p = u * k, NEW l \in Nat, l <= p,
         NEW x \in Nat, NEW y, y = u * x
  PROVE  l * Converge(x, k) <= y
<1> DEFINE T == Converge(x, k)
<1>1. k \in Nat \ {0}
  OBVIOUS
<1>2. k \in 1 .. NudgeScale
  <2>1. 1 * k <= u * k
    BY Times
  <2> QED BY <1>1, <2>1 DEF One, NudgeScale
<1>3. T \in Nat /\ k * T <= x
  BY <1>2, ConvergeTruncates
<1> HIDE DEF T
<1>4. l * T <= (u * k) * T
  BY <1>3, Times
<1>5. (u * k) * T = u * (k * T) /\ k * T \in Nat
  BY <1>3
<1>6. u * (k * T) <= u * x
  BY <1>3, <1>5, Times
<1>7. l * T \in Nat /\ u * (k * T) \in Nat /\ u * x \in Nat
  BY <1>3, <1>5
<1> QED BY <1>4, <1>5, <1>6, <1>7 DEF T

(* A sell at a price of k units takes every level that pays as much. *)
LEMMA SellTakes ==
  ASSUME NEW P \in {10, 100, 1000, 10000}, NEW u \in Nat \ {0}, u * P = One,
         NEW m \in Nat, NEW k \in Nat, NEW l \in Nat, u * k <= l
  PROVE  l * (m * P) >= (m * k) * One
<1>1. m * P \in Nat /\ u * k \in Nat
  OBVIOUS
<1>2. (u * k) * (m * P) <= l * (m * P)
  BY <1>1, Times
<1>3. (u * k) * (m * P) = (m * k) * (u * P)
  OBVIOUS
<1>4. l * (m * P) \in Nat /\ (m * k) * One \in Nat
  BY DEF One
<1> QED BY <1>2, <1>3, <1>4

(* What an order gives up, counted as the book's worth is, is no more than *)
(* the amount it was made for.                                             *)
LEMMA AmountCovers ==
  ASSUME NEW t \in TickSizes, NEW amt \in Nat
  PROVE  LET m == RoundDown(amt, Whole, 100)
             given == (m * ByTickSize[t].Price) * ((Whole * One) \div ByTickSize[t].Amount)
         IN m \in Nat /\ given = m * 100000 /\ given <= amt * One
<1> DEFINE P == ByTickSize[t].Price
           m == RoundDown(amt, Whole, 100)
<1>1. P \in {10, 100, 1000, 10000} /\ ByTickSize[t].Amount = 100 * P
  BY Limits
<1>2. m \in Nat /\ m * 1000 <= amt * 100
  BY DEF RoundDown, Whole
<1> HIDE DEF m, P
<1>3. P * ((Whole * One) \div (100 * P)) = 100000 /\ (Whole * One) \div (100 * P) \in Nat
  BY <1>1 DEF Whole, One
<1>4. (m * P) * ((Whole * One) \div (100 * P)) = m * (P * ((Whole * One) \div (100 * P)))
  BY <1>1, <1>2, <1>3
<1>5. m * 100000 <= amt * One
  BY <1>2 DEF One
<1> QED BY <1>1, <1>2, <1>3, <1>4, <1>5 DEF m, P

(* A fill-or-kill order that found its own price, tick size and contract   *)
(* on a market that has not moved since is accepted there and covered: its *)
(* price is on the market's grid, so that rounding leaves it alone, and    *)
(* every level from the one it was found on to the best is open to it.     *)
LEMMA Fills ==
  ASSUME IInv, step = "posted", moves = 0, order.Maker > 0,
         intent.market, intent.price = NoPrice, intent.tick = NoTick, ~intent.negRisk
  PROVE  /\ order.negRisk = market.negRisk /\ order.tick = market.tick
         /\ Covers(market, order, intent.side)
         /\ Available(market, order, intent.side) # 0
<1> DEFINE t == market.tick
           P == ByTickSize[t].Price
           u == Unit(t)
           m == RoundDown(intent.amount, Whole, 100)
           k == MarketPriced(price, ByTickSize[t])
           side == intent.side
           levels == Levels(market, side)
           n == Len(levels)
           worth == Worths(levels, side)
           open == {i \in DOMAIN levels : Takes(order, side, levels[i].Price)}
<1>1. /\ TypeOK /\ Buildable /\ order = SignedOrder
      /\ opts.TickSize = t /\ opts.NegRisk = market.negRisk
      /\ price # NoPrice /\ price = MarketPrice(market, side, intent.amount, "FOK")
  <2>1. price # NoPrice
    BY DEF IInv, TypeOK, NoPrice
  <2> QED BY <2>1 DEF IInv, AsPriced, Found
<1>2. order.negRisk = market.negRisk /\ order.tick = t /\ t \in TickSizes
  BY <1>1 DEF SignedOrder, Buildable
<1>3. P \in {10, 100, 1000, 10000} /\ u \in Nat \ {0} /\ u * P = One
  BY <1>2, Limits
<1>4. market \in Markets /\ intent.amount \in Nat /\ price \in Nat
  BY <1>1, IntentShape DEF TypeOK
<1>5. /\ m \in Nat /\ k \in Nat /\ k = (price * P) \div One /\ order.Maker = m * P
      /\ side = "BUY" => order.Taker = Converge(m * P * P, k)
      /\ side # "BUY" => order.Taker = m * k
  BY <1>1, <1>2, MarketSigned
<1>6. /\ n \in Nat /\ DOMAIN levels = 1 .. n
      /\ \A i \in DOMAIN levels : levels[i].Price \in 1 .. One - 1 /\ worth[i] \in Nat
  BY <1>4, WorthNat
<1>7. PICK b \in 1 .. n :
        /\ levels[b].Price = price
        /\ SumFunctionOnSet(worth, b .. n) >= intent.amount * One
  <2> HIDE DEF n
  <2>1. n = Len(levels)
    BY DEF n
  <2>2. \E b \in 1 .. n :
          /\ levels[b].Price = MarketPrice(market, side, intent.amount, "FOK")
          /\ SumFunctionOnSet(worth, b .. n) >= intent.amount * One
    BY <1>1, <1>6, <2>1, FoundLevel
  <2> QED BY <1>1, <2>2
<1>8. /\ \A i \in b .. n : i \in DOMAIN levels
      /\ \A i \in b .. n : IF side = "BUY" THEN levels[i].Price <= price
                                           ELSE levels[i].Price >= price
      /\ price % u = 0
  <2>1. \A i \in b .. n : i \in 1 .. n /\ (i = b \/ b < i)
    BY <1>6, <1>7
  <2>2. CASE side = "BUY"
    <3>1. levels = market.Asks
      BY <2>2 DEF Levels
    <3>2. /\ \A i, j \in DOMAIN levels : i < j => levels[i].Price >= levels[j].Price
          /\ \A i \in DOMAIN levels : levels[i].Price % u = 0
      BY <1>4, <3>1, BooksAssumption
    <3> HIDE DEF levels, u, side, n
    <3> QED BY <1>4, <1>6, <1>7, <2>1, <2>2, <3>2
  <2>3. CASE side # "BUY"
    <3>1. levels = market.Bids
      BY <2>3 DEF Levels
    <3>2. /\ \A i, j \in DOMAIN levels : i < j => levels[i].Price <= levels[j].Price
          /\ \A i \in DOMAIN levels : levels[i].Price % u = 0
      BY <1>4, <3>1, BooksAssumption
    <3> HIDE DEF levels, u, side, n
    <3> QED BY <1>4, <1>6, <1>7, <2>1, <2>3, <3>2
  <2> QED BY <2>2, <2>3
<1>9. price < One /\ price = u * k
  <2>1. levels[b].Price \in 1 .. One - 1
    BY <1>6, <1>7
  <2>2. price \in 1 .. One - 1
    BY <1>7, <2>1
  <2>3. price < One
    BY <2>2, <1>4 DEF One
  <2> DEFINE j == price \div u
  <2>4. j \in Nat /\ price = u * j
    <3> HIDE DEF u, P, t, levels, side
    <3> QED BY <1>3, <1>4, <1>8, Remainder
  <2> HIDE DEF j, u, P, k
  <2>5. price * P = j * One /\ (j * One) \div One = j
    BY <1>3, <2>4 DEF One
  <2> QED BY <1>5, <2>3, <2>4, <2>5
<1>10. \A i \in b .. n : i \in open
  <2> SUFFICES ASSUME NEW i \in b .. n PROVE Takes(order, side, levels[i].Price)
    BY <1>8
  <2> DEFINE l == levels[i].Price
  <2>1. l \in Nat
    <3>1. l \in 1 .. One - 1
      BY <1>6, <1>8
    <3> QED BY <3>1, PricesAreNat, Zenon
  <2>2. CASE side = "BUY"
    <3> DEFINE x == m * P * P
    <3>1. k > 0 /\ order.Taker = Converge(x, k)
      BY <1>1, <1>5, <2>2 DEF Buildable
    <3>2. l <= price
      BY <1>8, <2>2
    <3> HIDE DEF l, k, u, m, P, levels
    <3> DEFINE y == m * P * One
    <3>3. x \in Nat /\ y = u * x
      BY <1>3, <1>5 DEF One
    <3> HIDE DEF x, y
    <3>4. l * Converge(x, k) <= y
      BY <1>3, <1>4, <1>5, <1>9, <2>1, <3>1, <3>2, <3>3, BuyTakes
    <3>5. l * order.Taker <= order.Maker * One
      BY <1>5, <3>1, <3>4 DEF y
    <3> QED BY <2>2, <3>5 DEF Takes, l
  <2>3. CASE side # "BUY"
    <3>1. price <= l
      <4>1. l >= price
        BY <1>8, <2>3
      <4> HIDE DEF l
      <4> QED BY <4>1, <1>4, <2>1
    <3> HIDE DEF l, k, u, m, P, levels
    <3>2. l * (m * P) >= (m * k) * One
      BY <1>3, <1>5, <1>9, <2>1, <3>1, SellTakes
    <3>3. l * order.Maker >= order.Taker * One
      BY <1>5, <2>3, <3>2
    <3> QED BY <2>3, <3>3 DEF Takes, l
  <2> QED BY <2>2, <2>3
<1> HIDE DEF k, u, m, P, t, levels, n, worth, open, side
<1>11. /\ IsFiniteSet(open) /\ open \in SUBSET (1 .. n) /\ b .. n \in SUBSET open
       /\ \A i \in open : worth[i] \in Nat
  <2>1. open \in SUBSET (1 .. n)
    BY <1>6 DEF open
  <2>2. IsFiniteSet(1 .. n)
    BY <1>6, FS_Interval
  <2> QED BY <1>6, <1>10, <2>1, <2>2, FS_Subset
<1>12. /\ Available(market, order, intent.side) = SumFunctionOnSet(worth, open)
       /\ SumFunctionOnSet(worth, b .. n) <= SumFunctionOnSet(worth, open)
       /\ SumFunctionOnSet(worth, open) \in Nat /\ SumFunctionOnSet(worth, b .. n) \in Nat
  <2>1. Available(market, order, intent.side) = SumFunctionOnSet(worth, open)
    BY DEF Available, open, worth, levels, side
  <2>2. SumFunctionOnSet(worth, b .. n) <= SumFunctionOnSet(worth, open)
    BY <1>11, SumGrows
  <2>3. SumFunctionOnSet(worth, open) \in Nat
    BY <1>11, SumNat
  <2>4. IsFiniteSet(b .. n) /\ \A i \in b .. n : worth[i] \in Nat
    BY <1>11, FS_Subset
  <2>5. SumFunctionOnSet(worth, b .. n) \in Nat
    BY <2>4, SumNat
  <2> QED BY <2>1, <2>2, <2>3, <2>5
<1>13. LET given == order.Maker * ((Whole * One) \div ByTickSize[order.tick].Amount)
       IN given = m * 100000 /\ given <= intent.amount * One
  BY <1>2, <1>4, <1>5, AmountCovers DEF m, P
<1>14. m > 0
  BY <1>3, <1>5
<1>15. Covers(market, order, intent.side)
  <2>1. intent.amount * One \in Nat /\ m * 100000 \in Nat
    BY <1>4, <1>5 DEF One
  <2> QED BY <1>7, <1>12, <1>13, <2>1 DEF Covers
<1>16. Available(market, order, intent.side) # 0
  <2>1. intent.amount * One \in Nat /\ m * 100000 \in Nat /\ m * 100000 > 0
    BY <1>4, <1>5, <1>14 DEF One
  <2>2. SumFunctionOnSet(worth, open) >= m * 100000
    BY <1>7, <1>12, <1>13, <2>1
  <2> QED BY <1>12, <2>1, <2>2
<1> QED BY <1>2, <1>15, <1>16 DEF t

(* Only a match fills, and it fills such an order entirely. *)
LEMMA KeepsFilled == IInv /\ Filled /\ [Next]_vars => Filled'
<1> SUFFICES ASSUME IInv, Filled, [Next]_vars,
                    step' = "done", moves' = 0, order'.Maker > 0,
                    intent'.market, intent'.type = "FOK", ~intent'.postOnly,
                    intent'.price = NoPrice, intent'.tick = NoTick, ~intent'.negRisk
             PROVE  filled' = "all"
  BY DEF Filled
<1>1. CASE Match
  <2>1. /\ UNCHANGED <<market, moves, intent, price, opts, order>> /\ step = "posted"
        /\ ~intent.postOnly
    BY <1>1 DEF Match
  <2>2. /\ order.negRisk = market.negRisk /\ order.tick = market.tick
        /\ Covers(market, order, intent.side)
        /\ Available(market, order, intent.side) # 0
    BY <2>1, Fills
  <2>3. order.Maker # 0
    BY <2>1
  <2> QED BY <1>1, <2>1, <2>2, <2>3 DEF Match
<1>2. CASE UNCHANGED vars
  BY <1>2 DEF vars, Filled
<1>3. CASE \/ \E i \in Intents : Create(i)
           \/ ResolveTick \/ ResolveNegRisk \/ FindPrice \/ Fails \/ Build \/ Post \/ Move
  BY <1>3 DEF Create, ResolveTick, ResolveNegRisk, FindPrice, Fails, Build, Post, Move
<1> QED BY <1>1, <1>2, <1>3 DEF Next

(* A fill-or-kill order that CreateMarketOrder prices for itself is filled *)
(* completely by the market it was made for, for books of any length and   *)
(* orders of any amount, at every tick size.                               *)
THEOREM FillOrKillFills == Spec => []Filled
<1>1. Init => Filled
  BY DEF Init, Filled
<1> QED BY Invariant, <1>1, KeepsFilled, PTL DEF Spec
====
