---- MODULE MCOrders ----
(***************************************************************************)
(* A token whose tick size is 0.1 or 0.01, with up to two levels on each   *)
(* side of its book; orders of 1 and 2.505 that one level, two levels or   *)
(* none can fill, at prices that fit the tick size and prices that do not. *)
(***************************************************************************)
EXTENDS Orders

Prices(tick) == IF tick = 1000 THEN {5000, 6000} ELSE {5500, 5800}
MCSizes == {1000, 4000}

(* Worst price first: asks fall, and bids mirror them below. *)
AskSides(tick) ==
  {<<>>} \cup {<<[Price |-> p, Size |-> n]>> : p \in Prices(tick), n \in MCSizes}
  \cup {<<[Price |-> Max(Prices(tick)), Size |-> n], [Price |-> Min(Prices(tick)), Size |-> k]>> :
          n \in MCSizes, k \in MCSizes}

Below(asks) == [i \in DOMAIN asks |-> [asks[i] EXCEPT !.Price = One - 1000 - @]]

MCMarkets ==
  UNION {{[tick |-> t, negRisk |-> r, Asks |-> a, Bids |-> Below(a)] :
            a \in AskSides(t), r \in BOOLEAN} : t \in {1000, 100}}

Intended(markets, prices, ticks, types) ==
  [market : markets, side : {"BUY", "SELL"}, amount : {1000, 2505}, price : prices,
   tick : ticks, negRisk : BOOLEAN, type : types, postOnly : BOOLEAN, wellFormed : {TRUE}]

(* The last asks for a tick size there is none of, and for a malformed token. *)
MCIntents ==
  Intended({TRUE}, {NoPrice, 5580}, {NoTick, 1000}, {"FOK", "FAK"})
  \cup Intended({FALSE}, {996, 5250, 5580, 9000, 9950}, {NoTick, 1000}, {"GTC", "FAK"})
  \cup {[Nothing EXCEPT !.amount = 1000, !.tick = 7, !.price = 5000, !.wellFormed = TRUE],
        [Nothing EXCEPT !.amount = 1000, !.tick = 100, !.price = 5000]}
====
