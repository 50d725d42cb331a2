---- MODULE TokenBucket ----
(***************************************************************************)
(* The per-signer token bucket (ratelimit.go, tokenBucketState).           *)
(*                                                                         *)
(* Balances are integers counted in the time it takes to refill them: one  *)
(* unit of balance refills in one unit of the clock, so that "tokens +     *)
(* elapsed * Rate" is an addition and the delay of a deficit is the        *)
(* deficit.  A token is as many units as it takes to refill one.  Instant  *)
(* 0 is the zero time: never refilled, never frozen.                       *)
(***************************************************************************)
EXTENDS Integers

Least(a, b) == IF b < a THEN b ELSE a
Greatest(a, b) == IF b > a THEN b ELSE a

NewBucket(burst) == [tokens |-> burst, updated |-> 0, frozenTill |-> 0]

(* Mutant of Refilled: the clock is not moved on. *)
RefilledAnew(b, burst, now) ==
  IF b.updated = 0 THEN [b EXCEPT !.updated = now]
  ELSE [b EXCEPT !.tokens = Least(burst, @ + Greatest(now - b.updated, 0))]

(* The first refill only starts the clock. *)
Refilled(b, burst, now) ==
  IF b.updated = 0 \/ now <= b.updated
  THEN [b EXCEPT !.updated = Greatest(@, now)]
  ELSE [b EXCEPT !.tokens = Least(burst, @ + (now - b.updated)), !.updated = now]

(* The bucket after a reservation of cost, and when that may be used. *)
Spent(b, burst, cost, now) ==
  [Refilled(b, burst, now) EXCEPT !.tokens = @ - cost]

SpendTime(b, burst, cost, now) ==
  LET deficit == cost - Refilled(b, burst, now).tokens
  IN  Greatest(now + Greatest(deficit, 0), b.frozenTill)

Refunded(b, burst, cost) == [b EXCEPT !.tokens = Least(burst, @ + cost)]

(* Mutant of Adopted: the balance is believed however deep it is. *)
AdoptedUnchecked(b, burst, remaining, now) ==
  [b EXCEPT !.tokens = Least(burst, remaining), !.updated = now]

(* The exchange's own count, believed between one burst below and above 0. *)
Adopted(b, burst, remaining, now) ==
  [b EXCEPT !.tokens  = Least(burst, Greatest(-burst, remaining)),
            !.updated = now]

HeldShut(b, until) == [b EXCEPT !.frozenTill = Greatest(@, until)]
====
