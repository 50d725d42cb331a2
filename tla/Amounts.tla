---- MODULE Amounts ----
(***************************************************************************)
(* The maker and taker amounts of an order (internal/amount/amount.go).    *)
(* The code computes with exact rationals; here a rational is written as a *)
(* numerator and a denominator, and a number of n decimals as an integer   *)
(* that counts units of 1/10^n.  Callers state prices in units of 1/One    *)
(* and sizes in units of 1/Whole.  Both amounts of an order are counted in *)
(* units of 1/cfg.Amount: Fixed multiplies the two by the same power of    *)
(* ten to put them on the wire, exactly, and changes nothing below.        *)
(***************************************************************************)
EXTENDS Integers

One == 10000
Whole == 1000
NudgeScale == 10000

(* The limits that apply at each tick size, as powers of ten. *)
Config(price, size, amount) == [Price |-> price, Size |-> size, Amount |-> amount]

TickSizes == {1000, 100, 50, 25, 10, 1}

ByTickSize ==
  [t \in TickSizes |->
    IF t = 1000 THEN Config(10, 100, 1000)
    ELSE IF t = 100 THEN Config(100, 100, 10000)
    ELSE IF t \in {50, 10} THEN Config(1000, 100, 100000)
    ELSE Config(10000, 100, 1000000)]

RoundDown(x, den, scale) == (x * scale) \div den
RoundUp(x, den, scale) == (x * scale + den - 1) \div den
RoundHalfUp(x, den, scale) == (2 * x * scale + den) \div (2 * den)

(* Mutant of Converge: rounded up and left there. *)
ConvergeUp(x, den) == RoundUp(x, den, 1)

(* x / den units, brought inside the allowed decimals: a value that has    *)
(* more is first rounded up four places beyond them, then truncated.  The  *)
(* whole part is set aside, for it takes part in neither rounding.         *)
Converge(x, den) ==
  IF x % den = 0
    THEN x \div den
    ELSE x \div den + RoundUp(x % den, den, NudgeScale) \div NudgeScale

(* A limit order of size shares. *)
Limit(buy, size, price, cfg) ==
  LET p == RoundHalfUp(price, One, cfg.Price)
      shares == RoundDown(size, Whole, cfg.Size)
      whole == shares * (cfg.Amount \div cfg.Size)
      derived == Converge(shares * p * cfg.Amount, cfg.Size * cfg.Price)
  IN IF buy THEN [Maker |-> derived, Taker |-> whole]
            ELSE [Maker |-> whole, Taker |-> derived]

(* Mutant of MarketPriced: rounded as a limit order's price is. *)
MarketPricedNear(price, cfg) == RoundHalfUp(price, One, cfg.Price)
(* What Market makes of a price: rounded down. *)
MarketPriced(price, cfg) == RoundDown(price, One, cfg.Price)

(* A market order: a buy states what it spends, a sell what it gives up. A *)
(* buy at a price that rounds to nothing is refused by the caller.         *)
Market(buy, amt, price, cfg) ==
  LET p == MarketPriced(price, cfg)
      maker == RoundDown(amt, Whole, cfg.Size)
  IN [Maker |-> maker * (cfg.Amount \div cfg.Size),
      Taker |-> IF buy
                  THEN Converge(maker * cfg.Price * (cfg.Amount \div cfg.Size), p)
                  ELSE Converge(maker * p * cfg.Amount, cfg.Size * cfg.Price)]
====
