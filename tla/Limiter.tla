---- MODULE Limiter ----
(***************************************************************************)
(* StandardLimiter (ratelimit.go): concurrent requests that reserve in the *)
(* sliding window of the rule they match and in the trading bucket they    *)
(* spend from, wait for the later of the two, and report the exchange's    *)
(* answers back through Observe in whatever order those arrive.            *)
(***************************************************************************)
EXTENDS SlidingWindow, TokenBucket, Sequences, FiniteSets

CONSTANTS
  Callers,      \* goroutines using the limiter
  Rules,        \* sequence of [method, prefix, requests, window]
  Requests,     \* the requests made: set of [method, path, cost]
  OrderBurst,   \* tier.Order.Burst, in tokens
  CancelBurst,  \* tier.Cancel.Burst, in tokens
  TokenTicks,   \* instants it takes to refill one token
  Responses,    \* the exchange's answers: set of [code, warning, remaining, after, reset]
  MaxFreeze,    \* the longest a header may hold the client back
  MaxTime,      \* bound: the clock stops here, and no send is scheduled later
  MaxSeq        \* bound: calls of Wait

(* Headers of a response.  A delay header is missing, unreadable, or a     *)
(* number of seconds or an instant; a balance is missing, unreadable (NaN  *)
(* included) or a number of tokens.                                        *)
Missing == [kind |-> "missing"]
Bad     == [kind |-> "bad"]
Secs(n) == [kind |-> "secs", value |-> n]
Date(t) == [kind |-> "date", value |-> t]
Tokens(n) == [kind |-> "tokens", value |-> n]

(* What the headers of a response can hold. *)
Balance == {Missing, Bad} \cup [kind : {"tokens"}, value : Int]
Delay == {Missing, Bad} \cup [kind : {"secs"}, value : Int] \cup [kind : {"date"}, value : Nat]

(* A rule, a request and a response. *)
RuleType == [method : STRING, prefix : Seq(STRING), requests : Nat, window : Nat]
RequestType == [method : STRING, path : Seq(STRING), cost : Int]
ResponseType ==
  [code : Nat, warning : BOOLEAN, remaining : Balance, after : Delay, reset : Delay]

ASSUME LimiterAssumption ==
  /\ Rules \in Seq(RuleType)
  /\ Requests \subseteq RequestType
  /\ Responses \subseteq ResponseType
  /\ {OrderBurst, CancelBurst, TokenTicks} \subseteq Nat \ {0}
  /\ {MaxFreeze, MaxTime, MaxSeq} \subseteq Nat

VARIABLES
  now,       \* l.now
  window,    \* one slidingWindow per rule
  bucket,    \* the order and the cancel bucket
  warnings,  \* responses that carried the warning header
  state,     \* each caller: idle, waiting in Wait, or sent and unanswered
  claim,     \* what each waiting caller reserved, and until when it sleeps
  issued,    \* history: how many calls of Wait reserved
  gone,      \* history: the claims whose Wait returned nil
  told       \* history: the balance each bucket last adopted, and when

limiter == <<window, bucket, warnings>>
history == <<issued, gone, told>>
vars == <<now, limiter, state, claim, history>>

(* Requests as clob/trading.go issues them.  A path is a sequence of       *)
(* pieces, cut where a rule's prefix may end.  No method sets the cost.    *)
PostOrder     == [method |-> "POST", path |-> <<"/", "order">>, cost |-> 0]
PostOrders    == [method |-> "POST", path |-> <<"/", "order", "s">>, cost |-> 0]
CancelOrder   == [method |-> "DELETE", path |-> <<"/", "order">>, cost |-> 0]
CancelAll     == [method |-> "DELETE", path |-> <<"/", "cancel-all">>, cost |-> 0]
---------------------------------------------------------------------------
Rule == DOMAIN Rules

HasPrefix(path, prefix) ==
  Len(prefix) <= Len(path) /\ SubSeq(path, 1, Len(prefix)) = prefix

(* A rule for every method names none. *)
AnyMethod == ""

Matching(r) ==
  {i \in Rule : /\ Rules[i].method \in {AnyMethod, r.method}
                /\ HasPrefix(r.path, Rules[i].prefix)}

(* Mutant of Score: naming a method counts for nothing. *)
ScoreByLength(i) == 2 * Len(Rules[i].prefix)

Score(i) == 2 * Len(Rules[i].prefix) + (IF Rules[i].method = AnyMethod THEN 0 ELSE 1)

NoRule == 0

(* match: the first of the best-scoring rules. *)
Match(r) ==
  IF Matching(r) = {} THEN NoRule
  ELSE CHOOSE i \in Matching(r) : \A j \in Matching(r) :
         Score(j) < Score(i) \/ (Score(j) = Score(i) /\ i <= j)

NoBucket == "none"

BucketFor(r) ==
  LET order  == {<<"/", "order">>, <<"/", "order", "s">>}
      cancel == {<<"/", "cancel-all">>, <<"/", "cancel-market-orders">>}
  IN  CASE r.method = "POST" /\ r.path \in order                -> "order"
        [] r.method = "DELETE" /\ r.path \in order \cup cancel  -> "cancel"
        [] OTHER                                                -> NoBucket

Burst(b) == TokenTicks * (IF b = "order" THEN OrderBurst ELSE CancelBurst)

(* What a request spends, in the units of the buckets. *)
CostOf(r) == TokenTicks * Later(r.cost, 1)
---------------------------------------------------------------------------
NoWindowClaim == [slot |-> 1, seq |-> 0, prev |-> FreeSlot, when |-> 0]

NoClaim == [ req |-> CHOOSE r \in Requests : TRUE, id |-> 0,
             win |-> NoWindowClaim, due |-> 0, until |-> 0 ]

Init ==
  /\ now = 1
  /\ window = [i \in Rule |-> NewWindow(Rules[i].requests)]
  /\ bucket = [b \in {"order", "cancel"} |-> NewBucket(Burst(b))]
  /\ warnings = 0
  /\ state = [c \in Callers |-> "idle"]
  /\ claim = [c \in Callers |-> NoClaim]
  /\ issued = 0
  /\ gone = {}
  /\ told = [b \in {"order", "cancel"} |-> [tokens |-> 0, at |-> 0]]

Waiting == {c \in Callers : state[c] = "waiting"}

(* Calls of Wait that reserved and did not give up. *)
Live == gone \cup {claim[c] : c \in Waiting}

(* Both reservations of a request at this instant, and the later of them. *)
Reservation(r) ==
  LET i   == Match(r)
      b   == BucketFor(r)
      win == IF i = NoRule THEN NoWindowClaim
             ELSE Claim(window[i], Rules[i].window, now)
      due == IF b = NoBucket THEN now
             ELSE SpendTime(bucket[b], Burst(b), CostOf(r), now)
  IN  [ req |-> r, id |-> issued + 1, win |-> win, due |-> due,
        until |-> Later(win.when, due) ]

(* Wait up to its Unlock, and its return when there is no delay. *)
Wait(c, r) ==
  /\ state[c] = "idle"
  /\ issued < MaxSeq
  /\ LET a == Reservation(r)
         i == Match(r)
         b == BucketFor(r)
     IN  /\ a.until <= MaxTime
         /\ window' = IF i = NoRule THEN window
                      ELSE [window EXCEPT ![i] = Reserved(@, a.win)]
         /\ bucket' = IF b = NoBucket THEN bucket
                      ELSE [bucket EXCEPT ![b] = Spent(@, Burst(b), CostOf(r), now)]
         /\ claim' = [claim EXCEPT ![c] = a]
         /\ \/ /\ a.until <= now
               /\ state' = [state EXCEPT ![c] = "sent"]
               /\ gone' = gone \cup {a}
            \/ /\ a.until > now
               /\ state' = [state EXCEPT ![c] = "waiting"]
               /\ UNCHANGED gone
  /\ issued' = issued + 1
  /\ UNCHANGED <<now, warnings, told>>

(* The timer fires: Wait returns nil and the request goes out. *)
Proceed(c) ==
  /\ state[c] = "waiting"
  /\ now >= claim[c].until
  /\ state' = [state EXCEPT ![c] = "sent"]
  /\ gone' = gone \cup {claim[c]}
  /\ UNCHANGED <<now, limiter, claim, issued, told>>

(* Mutant of GiveUp: the window's reservation is kept. *)
GiveUpHalf(c) ==
  /\ state[c] = "waiting"
  /\ LET b == BucketFor(claim[c].req)
     IN  bucket' = IF b = NoBucket THEN bucket
                   ELSE [bucket EXCEPT ![b] = Refunded(@, Burst(b), CostOf(claim[c].req))]
  /\ state' = [state EXCEPT ![c] = "idle"]
  /\ claim' = [claim EXCEPT ![c] = NoClaim]
  /\ UNCHANGED <<now, window, warnings, history>>

(* The context ends first: both reservations are handed back. *)
GiveUp(c) ==
  /\ state[c] = "waiting"
  /\ LET i == Match(claim[c].req)
         b == BucketFor(claim[c].req)
     IN  /\ window' = IF i = NoRule THEN window
                      ELSE [window EXCEPT ![i] = Released(@, claim[c].win)]
         /\ bucket' = IF b = NoBucket THEN bucket
                      ELSE [bucket EXCEPT ![b] =
                              Refunded(@, Burst(b), CostOf(claim[c].req))]
  /\ state' = [state EXCEPT ![c] = "idle"]
  /\ claim' = [claim EXCEPT ![c] = NoClaim]
  /\ UNCHANGED <<now, warnings, history>>
---------------------------------------------------------------------------
ClampFreeze(until) == IF until > now + MaxFreeze THEN now + MaxFreeze ELSE until

NoDeadline == 0

(* retryAfter: Retry-After in seconds, Retry-After as a date, or the reset *)
(* header; a header that cannot be read falls through to the next.         *)
RetryAfter(h) ==
  CASE h.after.kind = "secs" /\ h.after.value >= 0 ->
         now + (IF h.after.value < MaxFreeze THEN h.after.value ELSE MaxFreeze)
    [] h.after.kind = "date"  -> ClampFreeze(h.after.value)
    [] h.reset.kind = "date"  -> ClampFreeze(h.reset.value)
    [] OTHER                  -> NoDeadline

Adopts(r, h) == BucketFor(r) # NoBucket /\ h.remaining.kind = "tokens"

(* The buckets once the balance a response reports has been adopted, and,  *)
(* for a refusal, its deadline.                                            *)
Observed(r, h) ==
  LET b       == BucketFor(r)
      adopted == IF Adopts(r, h)
                 THEN [bucket EXCEPT ![b] = Adopted(@, Burst(b),
                                                    TokenTicks * h.remaining.value, now)]
                 ELSE bucket
  IN  IF h.code = 429 /\ RetryAfter(h) # NoDeadline /\ b # NoBucket
      THEN [adopted EXCEPT ![b] = HeldShut(@, RetryAfter(h))]
      ELSE adopted

(* Observe, on the answer to the request caller c sent. *)
Observe(c, h) ==
  /\ state[c] = "sent"
  /\ LET r == claim[c].req
         i == Match(r)
     IN  /\ bucket' = Observed(r, h)
         /\ window' = IF h.code = 429 /\ RetryAfter(h) # NoDeadline /\ i # NoRule
                      THEN [window EXCEPT ![i] = Frozen(@, RetryAfter(h))]
                      ELSE window
  /\ warnings' = IF h.warning THEN warnings + 1 ELSE warnings
  /\ state' = [state EXCEPT ![c] = "idle"]
  /\ claim' = [claim EXCEPT ![c] = NoClaim]
  /\ told' = IF Adopts(claim[c].req, h)
              THEN [told EXCEPT ![BucketFor(claim[c].req)] =
                      [tokens |-> TokenTicks * h.remaining.value, at |-> now]]
              ELSE told
  /\ UNCHANGED <<now, issued, gone>>

(* The request fails in the network: there is nothing to observe. *)
Unanswered(c) ==
  /\ state[c] = "sent"
  /\ state' = [state EXCEPT ![c] = "idle"]
  /\ claim' = [claim EXCEPT ![c] = NoClaim]
  /\ UNCHANGED <<now, limiter, history>>

Tick ==
  /\ now < MaxTime
  /\ now' = now + 1
  /\ UNCHANGED <<limiter, state, claim, history>>

Next ==
  \/ \E c \in Callers :
       \/ \E r \in Requests : Wait(c, r)
       \/ Proceed(c)
       \/ GiveUp(c)
       \/ \E h \in Responses : Observe(c, h)
       \/ Unanswered(c)
  \/ Tick

Spec == Init /\ [][Next]_vars
---------------------------------------------------------------------------
Buckets == {"order", "cancel"}

(* The claims of a set that spend from bucket b, and what a set of claims  *)
(* costs: a claim is as many units as it spends.                           *)
Spending(b, claims) == {a \in claims : BucketFor(a.req) = b}
Units(claims) == UNION {{a} \X (1..CostOf(a.req)) : a \in claims}
Cost(claims) == Cardinality(Units(claims))

(* Whether a caller sleeps on the window of rule i, and how that window    *)
(* knows the claim it holds and the claims that went.                      *)
Awaits(c, i) == state[c] = "waiting" /\ Match(claim[c].req) = i
Turn(a) == [slot |-> a.win.slot, seq |-> a.win.seq, when |-> a.win.when, until |-> a.until]
Held(a) == [slot |-> a.win.slot, seq |-> a.win.seq, prev |-> a.win.prev,
            when |-> a.win.when, until |-> a.until]
NotHeld == [slot |-> 1, seq |-> 0, prev |-> FreeSlot, when |-> 0, until |-> 0]

(* What the window of rule i knows of the callers and of what went. *)
Sleepers(i) == [c \in Callers |-> IF Awaits(c, i) THEN "waiting" ELSE "idle"]
Holdings(i) == [c \in Callers |-> IF Awaits(c, i) THEN Held(claim[c]) ELSE NotHeld]
Turns(i) == {Turn(a) : a \in {g \in gone : Match(g.req) = i}}

Windows(i) ==
  INSTANCE WindowWait
    WITH Requests <- Later(Rules[i].requests, 1),
         Window   <- Rules[i].window,
         MaxHold  <- MaxTime,
         win      <- window[i],
         state    <- Sleepers(i),
         claim    <- Holdings(i),
         gone     <- Turns(i)

(* Each rule's window, with the callers waiting behind it, is a WindowWait *)
(* to which the trading bucket and the requests of other rules are only a  *)
(* longer wait: whatever holds of the window alone holds of it here.       *)
ImplementsWindows ==
  /\ \A i \in Rule : Windows(i)!Init
  /\ [][\A i \in Rule : UNCHANGED Windows(i)!vars \/ Windows(i)!Next]_vars

(* "A rule for /data/orders takes precedence over one for /orders": the    *)
(* requests an endpoint's most specific rule governs, the longest prefix,  *)
(* a method before none and the first of equals, keep to that rule's       *)
(* RateLimit even when less specific rules match them too.  A limit of no  *)
(* requests is a limit of one (newSlidingWindow).                          *)
Governs(i, r) ==
  /\ i \in Matching(r)
  /\ \A j \in Matching(r) \ {i} :
       \/ Len(Rules[j].prefix) < Len(Rules[i].prefix)
       \/ /\ Rules[j].prefix = Rules[i].prefix
          /\ \/ Rules[i].method # AnyMethod /\ Rules[j].method = AnyMethod
             \/ Rules[i].method = Rules[j].method /\ i < j

EndpointPaced ==
  \A i \in Rule, t \in 0..MaxTime :
    Cardinality({a \in Live : /\ Governs(i, a.req)
                              /\ t <= a.win.when /\ a.win.when < t + Rules[i].window})
      <= Later(Rules[i].requests, 1)

(* As long as the exchange has not corrected a balance, everything sent    *)
(* from a bucket is covered by one burst and what has refilled since, with *)
(* refunds of abandoned requests, freezes and waits in any order.          *)
LongRunPaced ==
  \A b \in Buckets :
    told[b].at = 0 => Cost(Spending(b, gone)) <= Burst(b) + (now - 1)

(* What a bucket owes at an instant, and what one owes now. *)
Debt(k, burst, t) == -Refilled(k, burst, t).tokens
Owed(b) == Debt(bucket[b], Burst(b), now)

(* tokenBucketState.adopt: "the deepest hole worth believing is one burst, *)
(* which the tier's own rate refills in a bounded time".  Whatever balance *)
(* a header names and whatever is refunded on top, a bucket never holds    *)
(* more than its burst, and a new request waits for no more than one burst *)
(* and the requests already waiting in it.                                 *)
BalanceBelievable ==
  \A b \in Buckets :
    /\ bucket[b].tokens <= Burst(b)
    /\ Owed(b) <= Burst(b) + Cost(Spending(b, {claim[c] : c \in Waiting}))
====
