---- MODULE MCLimiter ----
(***************************************************************************)
(* Small tables of rules, requests and answers for Limiter.  A window of   *)
(* two instants, a burst of one or two tokens and a token per instant keep *)
(* every queue short and still make requests wait on the window, on the    *)
(* bucket, on a freeze, and on each other.                                 *)
(***************************************************************************)
EXTENDS Limiter, TLC

(* The general limit of a host, a path by any method, and by one method.   *)
Orders == <<"/", "order">>
GeneralRule  == [method |-> "", prefix |-> <<"/">>, requests |-> 2, window |-> 2]
AnyOrderRule == [method |-> "", prefix |-> Orders, requests |-> 2, window |-> 2]
OrderRule    == [method |-> "POST", prefix |-> Orders, requests |-> 1, window |-> 2]

OverlappingRules == <<GeneralRule, AnyOrderRule, OrderRule>>
OverlappingRequests == {PostOrder, CancelOrder}

TwoRules == <<GeneralRule, OrderRule>>

(* Requests of one bucket that cost one token and two. *)
BucketRequests == {PostOrder, [PostOrders EXCEPT !.cost = 2]}

Answer(code, remaining, after, reset) ==
  [code |-> code, warning |-> FALSE, remaining |-> remaining, after |-> after, reset |-> reset]
Ok      == Answer(200, Missing, Missing, Missing)
Warned  == [Ok EXCEPT !.warning = TRUE]
Refused(after) == Answer(429, Missing, after, Missing)

OkOrRefused == {Ok, Refused(Secs(1))}

(* Balances of every kind, the absurd ones included, and refusals with a   *)
(* deadline of each kind and with none.                                    *)
BucketAnswers ==
  {Warned, Answer(200, Bad, Missing, Missing), Answer(429, Missing, Bad, Date(9)),
   Refused(Missing), Refused(Secs(1)), Refused(Secs(9)), Refused(Date(1))}
  \cup {Answer(200, Tokens(n), Missing, Missing) : n \in {-9, 0, 9}}

Symmetry == Permutations(Callers)
====
