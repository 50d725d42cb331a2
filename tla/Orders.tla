---- MODULE Orders ----
(***************************************************************************)
(* One order from the caller's words to the exchange's answer: CreateOrder *)
(* and CreateMarketOrder ask for the tick size, the neg-risk flag and the  *)
(* book in separate requests, build and sign; PostOrder submits            *)
(* (clob/trading.go, clob/market.go, order.go).  The market may move       *)
(* between any two of these.                                               *)
(*                                                                         *)
(* A book's levels come worst price first.  What an order carries besides  *)
(* its amounts and its contract is checked as one: an intent is wellFormed *)
(* or it is not.                                                           *)
(***************************************************************************)
EXTENDS Amounts, Sequences, FiniteSetsExt

CONSTANTS
  Markets,   \* what the exchange may show of the token: tick, negRisk, Asks, Bids
  Intents,   \* what a caller may ask for
  MaxMoves   \* bound: changes of the market during one order

NoTick == 0
NoPrice == 0

(* The least difference of two prices that a tick size's decimals can tell. *)
Unit(tick) == One \div ByTickSize[tick].Price

ASSUME OrdersAssumption ==
  /\ \A m \in Markets :
       /\ m.tick \in TickSizes /\ m.negRisk \in BOOLEAN
       /\ {m.Asks, m.Bids} \subseteq Seq([Price : 1 .. One - 1, Size : Nat \ {0}])
  /\ \A i \in Intents :
       /\ i.market \in BOOLEAN /\ i.negRisk \in BOOLEAN /\ i.amount \in Nat
       /\ i.price \in Nat /\ i.tick \in Nat
  /\ MaxMoves \in Nat

(* What the exchange promises of a book: its levels come worst price first *)
(* (clob/market.go:388), and its prices have the decimals of its tick size.*)
ASSUME BooksAssumption ==
  \A m \in Markets :
    /\ \A i, j \in DOMAIN m.Asks : i < j => m.Asks[i].Price >= m.Asks[j].Price
    /\ \A i, j \in DOMAIN m.Bids : i < j => m.Bids[i].Price <= m.Bids[j].Price
    /\ \A i \in DOMAIN m.Asks : m.Asks[i].Price % Unit(m.tick) = 0
    /\ \A i \in DOMAIN m.Bids : m.Bids[i].Price % Unit(m.tick) = 0

VARIABLES
  market,   \* the token's market, as the exchange has it now
  moves,    \* bound: how often it has changed
  intent,   \* the caller's order
  price,    \* its price, which CreateMarketOrder fills in when it is empty
  opts,     \* OrderOptions: tick size and neg-risk flag
  step,     \* how far the order is
  order,    \* the signed order
  filled    \* what the exchange did with it

vars == <<market, moves, intent, price, opts, step, order, filled>>

NoOrder == [Maker |-> 0, Taker |-> 0, tick |-> NoTick, negRisk |-> FALSE]
Nothing == [market |-> FALSE, side |-> "BUY", amount |-> 0, price |-> NoPrice,
            tick |-> NoTick, negRisk |-> FALSE, type |-> "GTC",
            postOnly |-> FALSE, wellFormed |-> FALSE]

Init ==
  /\ market \in Markets
  /\ moves = 0
  /\ intent = Nothing
  /\ price = NoPrice
  /\ opts = [TickSize |-> NoTick, NegRisk |-> FALSE]
  /\ step = "idle"
  /\ order = NoOrder
  /\ filled = "none"

---------------------------------------------------------------------------
(* What an order of this side would be matched with. *)
Levels(m, side) == IF side = "BUY" THEN m.Asks ELSE m.Bids

(* What each level adds to the walk: USDC for a buy, shares for a sell. *)
Worths(levels, side) ==
  [i \in DOMAIN levels |-> levels[i].Size * (IF side = "BUY" THEN levels[i].Price ELSE One)]

(* The price at which a walk from the best level has seen amt, or NoPrice  *)
(* for an error.                                                           *)
MarketPrice(m, side, amt, type) ==
  LET levels == Levels(m, side)
      Upto(i) == SumFunctionOnSet(Worths(levels, side), i .. Len(levels))
      enough == {i \in DOMAIN levels : Upto(i) >= amt * One}
  IN IF levels = <<>> THEN NoPrice
     ELSE IF enough # {} THEN levels[Max(enough)].Price
     ELSE IF type = "FOK" THEN NoPrice
     ELSE levels[1].Price

---------------------------------------------------------------------------
(* CreateOrder, or CreateMarketOrder, is called. *)
Create(i) ==
  /\ step = "idle"
  /\ intent' = i
  /\ price' = i.price
  /\ opts' = [TickSize |-> i.tick, NegRisk |-> i.negRisk]
  /\ step' = "tick"
  /\ UNCHANGED <<market, moves, order, filled>>

(* resolveMarket asks for the tick size unless the caller gave one. *)
ResolveTick ==
  /\ step = "tick"
  /\ opts' = [opts EXCEPT !.TickSize = IF @ = NoTick THEN market.tick ELSE @]
  /\ step' = "negRisk"
  /\ UNCHANGED <<market, moves, intent, price, order, filled>>

(* It asks for the neg-risk flag unless the caller set it. *)
ResolveNegRisk ==
  /\ step = "negRisk"
  /\ opts' = [opts EXCEPT !.NegRisk = @ \/ market.negRisk]
  /\ step' = "price"
  /\ UNCHANGED <<market, moves, intent, price, order, filled>>

Unpriced == intent.market /\ price = NoPrice

(* CreateMarketOrder fills in the price from the book, as for a FOK order. *)
FindPrice ==
  /\ step = "price" /\ Unpriced
  /\ price' = MarketPrice(market, intent.side, intent.amount, "FOK")
  /\ step' = IF price' = NoPrice THEN "failed" ELSE "price"
  /\ UNCHANGED <<market, moves, intent, opts, order, filled>>

(* Any of these requests may fail, and so may the signer. *)
Fails ==
  /\ \/ step = "tick" /\ opts.TickSize = NoTick
     \/ step = "negRisk" /\ ~opts.NegRisk
     \/ step = "price"
  /\ step' = "failed"
  /\ UNCHANGED <<market, moves, intent, price, opts, order, filled>>

(* Mutant of PriceInRange: only prices of one and more are too high. *)
PriceInRangeLow(p, tick) == tick <= p /\ p < One
(* checkPrice, for limit orders only. *)
PriceInRange(p, tick) == tick <= p /\ p <= One - tick

(* What BuildOrder and BuildMarketOrder refuse. *)
Buildable ==
  /\ opts.TickSize \in TickSizes
  /\ intent.wellFormed
  /\ IF intent.market
       THEN intent.side = "BUY" => MarketPriced(price, ByTickSize[opts.TickSize]) > 0
       ELSE PriceInRange(price, opts.TickSize)

BuildMarketOrder ==
  Market(intent.side = "BUY", intent.amount, price, ByTickSize[opts.TickSize])

BuildOrder ==
  Limit(intent.side = "BUY", intent.amount, price, ByTickSize[opts.TickSize])

(* SignOrder signs for the contract that the neg-risk flag selects. *)
SignedOrder ==
  LET raw == IF intent.market THEN BuildMarketOrder ELSE BuildOrder
  IN [Maker |-> raw.Maker, Taker |-> raw.Taker,
      tick |-> opts.TickSize, negRisk |-> opts.NegRisk]

Build ==
  /\ step = "price" /\ ~Unpriced
  /\ IF Buildable THEN order' = SignedOrder /\ step' = "signed"
                  ELSE step' = "failed" /\ UNCHANGED order
  /\ UNCHANGED <<market, moves, intent, price, opts, filled>>

(* PostOrder sends it, but no post-only order that exists to take. *)
Post ==
  /\ step = "signed"
  /\ step' = IF intent.postOnly /\ intent.type \in {"FOK", "FAK"} THEN "failed" ELSE "posted"
  /\ UNCHANGED <<market, moves, intent, price, opts, order, filled>>

---------------------------------------------------------------------------
(* The exchange. *)

(* An order trades at its own price or better. *)
Takes(o, side, p) ==
  IF side = "BUY" THEN p * o.Taker <= o.Maker * One
                  ELSE p * o.Maker >= o.Taker * One

Available(m, o, side) ==
  LET levels == Levels(m, side)
      open == {i \in DOMAIN levels : Takes(o, side, levels[i].Price)}
  IN SumFunctionOnSet(Worths(levels, side), open)

Covers(m, o, side) ==
  Available(m, o, side) >= o.Maker * ((Whole * One) \div ByTickSize[o.tick].Amount)

(* It refuses an order signed for another contract or tick size; a FOK     *)
(* order is filled entirely or not at all, and a post-only one never.      *)
Match ==
  /\ step = "posted"
  /\ step' = "done"
  /\ LET available == Available(market, order, intent.side)
         accepted == order.negRisk = market.negRisk /\ order.tick = market.tick
     IN filled' = IF ~accepted \/ order.Maker = 0 \/ available = 0 \/ intent.postOnly
                    THEN "none"
                  ELSE IF Covers(market, order, intent.side) THEN "all"
                  ELSE IF intent.type = "FOK" THEN "none"
                  ELSE "part"
  /\ UNCHANGED <<market, moves, intent, price, opts, order>>

(* The book moves, and the tick size with it. *)
Move ==
  /\ step \notin {"idle", "failed", "done"} /\ moves < MaxMoves
  /\ moves' = moves + 1
  /\ market' \in {m \in Markets : m.negRisk = market.negRisk}
  /\ UNCHANGED <<intent, price, opts, step, order, filled>>

Next ==
  \/ \E i \in Intents : Create(i)
  \/ ResolveTick \/ ResolveNegRisk \/ FindPrice \/ Fails
  \/ Build \/ Post
  \/ Match \/ Move

Spec == Init /\ [][Next]_vars

---------------------------------------------------------------------------
(* The variables keep their shape, and nothing is signed without a price. *)
TypeOK ==
  /\ market \in Markets /\ moves \in 0 .. MaxMoves
  /\ intent \in Intents \cup {Nothing}
  /\ price \in Nat
  /\ opts \in [TickSize : Nat, NegRisk : BOOLEAN]
  /\ step \in {"idle", "tick", "negRisk", "price", "signed", "posted", "done", "failed"}
  /\ step \in {"signed", "posted", "done"} => price > 0
  /\ order \in [Maker : Nat, Taker : Nat, tick : Nat, negRisk : BOOLEAN]
  /\ filled \in {"none", "part", "all"}

(* A signed order still says what its price, its options and the caller's  *)
(* words make of it.                                                       *)
AsPriced == step \in {"signed", "posted"} => Buildable /\ order = SignedOrder

(* What the caller left out is still left out until it is asked for.       *)
Asked ==
  /\ step = "tick" => opts.TickSize = intent.tick
  /\ step \in {"tick", "negRisk"} => opts.NegRisk = intent.negRisk /\ price = intent.price

(* What was found for the caller is what a market that has not moved says. *)
Found ==
  moves = 0 =>
    /\ step \in {"negRisk", "price", "signed", "posted"} /\ intent.tick = NoTick
         => opts.TickSize = market.tick
    /\ step \in {"price", "signed", "posted"} /\ ~intent.negRisk
         => opts.NegRisk = market.negRisk
    /\ step \in {"price", "signed", "posted"} /\ intent.price = NoPrice /\ price # NoPrice
         => price = MarketPrice(market, intent.side, intent.amount, "FOK")

(* The inductive invariant that Protected, Tradable and Filled rest on. *)
IInv == TypeOK /\ AsPriced /\ Asked /\ Found

(* A fill-or-kill order whose price, tick size and contract                *)
(* CreateMarketOrder found for itself is filled completely by the market   *)
(* it was made for: what MarketPrice walks, what Market rounds and what    *)
(* converge truncates never price it out of its own book                   *)
(* (clob/market.go:681, internal/amount/amount.go:68).                     *)
Filled ==
  (/\ step = "done" /\ moves = 0 /\ order.Maker > 0
   /\ intent.market /\ intent.type = "FOK" /\ ~intent.postOnly
   /\ intent.price = NoPrice /\ intent.tick = NoTick /\ ~intent.negRisk)
  => filled = "all"

(* However the market moves after it was priced, a market buy takes no     *)
(* level dearer than its price, and a sell none a whole price unit         *)
(* cheaper: a tick size read before the price may round it only in the     *)
(* caller's favour or by less than a unit, and truncating the amounts      *)
(* leaves less than a unit to slip (internal/amount/amount.go:68).         *)
Protected ==
  (/\ step \in {"signed", "posted"} /\ intent.market
   /\ order.Maker > 0 /\ price < One) =>
    LET levels == Levels(market, intent.side)
    IN \A i \in DOMAIN levels :
         LET p == levels[i].Price
         IN Takes(order, intent.side, p) =>
              IF intent.side = "BUY"
                THEN p % Unit(order.tick) = 0 => p <= price
                ELSE p > price - Unit(order.tick)

(* Rounding comes after checkPrice (order.go:189) and yet never takes a    *)
(* limit order out of the tradable range, or further than half a unit from *)
(* its price.                                                              *)
Tradable ==
  (step \in {"signed", "posted"} /\ ~intent.market) =>
    LET shares == IF intent.side = "BUY" THEN order.Taker ELSE order.Maker
        money == IF intent.side = "BUY" THEN order.Maker ELSE order.Taker
        off == 2 * (money * One - price * shares)
        unit == Unit(order.tick) * shares
    IN /\ order.tick * shares <= money * One
       /\ money * One <= (One - order.tick) * shares
       /\ -unit <= off /\ off <= unit
====
