---- MODULE RequestProofs ----
(***************************************************************************)
(* Proofs about a request: the limiter it waits in (Limiter) and the Do    *)
(* that performs it (Session).                                             *)
(*                                                                         *)
(* Limiter, for any rules, requests, answers and callers.  Its claims are  *)
(* told apart; each window remembers, slot by slot, every claim that still *)
(* counts, whatever was handed back; each bucket's balance accounts for    *)
(* what was reserved from it and for when that is due.  From these follow  *)
(* the pace of every endpoint, the long-run rate of a bucket, the bound on *)
(* a believable debt, and that the window of each rule, with its callers,  *)
(* is a WindowWait.                                                        *)
(*                                                                         *)
(* Session, for any callers, retries and submissions: its invariant is     *)
(* inductive, and with it an order is acted on at most once and an error   *)
(* that is determinate means it was not.                                   *)
(***************************************************************************)
EXTENDS Limiter, Session, FiniteSetTheorems, TLAPS

(* The claims callers sleep on. *)
Sleeping == {claim[c] : c \in Waiting}
(* Instants and sequence numbers only grow; a bucket may owe tokens. *)
SlotType == [when : Nat, seq : Nat]
ReservationType == [slot : Nat, seq : Nat, prev : SlotType, when : Nat]
ClaimType == [req : Requests, id : Nat, win : ReservationType, due : Nat, until : Nat]
Slots(i) == 1..Later(Rules[i].requests, 1)
WindowType(i) == [slots : [Slots(i) -> SlotType], seq : Nat, frozenTill : Nat]
BucketType == [tokens : Int, updated : Nat, frozenTill : Nat]

(* The state keeps its shape, and finitely many claims count. *)
TypeOK ==
  /\ now \in Nat \ {0}
  /\ DOMAIN window = Rule /\ \A i \in Rule : window[i] \in WindowType(i)
  /\ bucket \in [Buckets -> BucketType]
  /\ state \in [Callers -> {"idle", "waiting", "sent"}]
  /\ DOMAIN claim = Callers
  /\ issued \in Nat
  /\ IsFiniteSet(Live) /\ Live \subseteq ClaimType
  /\ told \in [Buckets -> [tokens : Int, at : Nat]]

(* Claims are told apart by their number, no two callers sleep on the same *)
(* one, what went is not slept on, and nothing goes before it is due.      *)
Identified ==
  /\ \A a \in Live : a.id \in 1..issued /\ a.win.when <= a.until /\ a.due <= a.until
  /\ \A a, b \in Live : a.id = b.id => a = b
  /\ \A c, d \in Waiting : claim[c] = claim[d] => c = d
  /\ \A c \in Callers : state[c] = "waiting" => claim[c] \notin gone
  /\ \A c \in Callers : state[c] = "sent" => claim[c] \in gone
  /\ \A a \in gone : a.until <= now

(* The reservation s stands for r in the window of rule i: it is r, or one *)
(* made later and due at least a window later.                             *)
Behind(i, r, s) ==
  /\ r.seq <= s.seq
  /\ r.seq = s.seq => r.when = s.when
  /\ r.seq < s.seq => r.when + Rules[i].window <= s.when

(* A slot is one that reserve numbered, or free. *)
Proper(w, s) == s.seq <= w.seq /\ (s.seq = 0 <=> s.when = 0)

(* What the window w of rule i remembers of the claims L: every one is     *)
(* stood for by its slot, so the next claim of that slot is a window after *)
(* it; and of two on one slot, the later displaced a reservation that      *)
(* stands for the earlier, so handing it back forgets nothing.             *)
Remembers(i, w, L) ==
  /\ \A k \in Slots(i) : Proper(w, w.slots[k])
  /\ \A a \in L : /\ a.win.slot \in Slots(i) /\ a.win.seq \in 1..w.seq /\ a.win.when > 0
                  /\ Behind(i, a.win, w.slots[a.win.slot])
                  /\ Proper(w, a.win.prev) /\ a.win.prev.seq < a.win.seq
  /\ \A a, b \in L : a.win.seq = b.win.seq => a = b
  /\ \A a, b \in L : a.win.slot = b.win.slot /\ b.win.seq < a.win.seq =>
       Behind(i, b.win, a.win.prev) /\ b.win.when + Rules[i].window <= a.win.when

(* The claims on the window of rule i. *)
Of(i, claims) == {a \in claims : Match(a.req) = i}

(* Every rule's window remembers the claims on it. *)
WindowsRemember ==
  \A i \in Rule : window[i].seq <= issued /\ Remembers(i, window[i], Of(i, Live))

(* Of the claims S, those reserved up to a, and those reserved after it. *)
UpTo(a, S) == {x \in S : x.id <= a.id}
After(a, S) == {x \in S : x.id > a.id}

(* The bucket k holds no more than its burst, and exactly that until it is *)
(* first used.                                                             *)
Solvent(k, burst, t) ==
  k.tokens <= burst /\ k.updated <= t /\ (k.updated = 0 => k.tokens = burst)

(* What the claims S cost and what the bucket k still holds came from one  *)
(* burst and what has refilled, and each of them is due only when what was *)
(* reserved up to it has refilled.                                         *)
Covered(k, burst, S) ==
  /\ k.tokens + Cost(S) <= burst + Greatest(k.updated - 1, 0)
  /\ \A a \in S : Cost(UpTo(a, S)) <= burst + a.due - 1

(* The debt is no more than one burst and what the sleeping claims Z cost; *)
(* and by the time one of them is due, no more than one burst and what was *)
(* reserved after it, so that its leaving leaves the bound true.           *)
Repaid(debt, burst, t, Z) ==
  /\ debt <= burst + Cost(Z)
  /\ \A a \in Z : debt <= burst + Cost(After(a, Z)) + Greatest(a.due - t, 0)

(* Every bucket's balance accounts for the claims that spend from it. *)
BucketsBalance ==
  \A b \in Buckets :
    /\ Solvent(bucket[b], Burst(b), now)
    /\ told[b].at = 0 => Covered(bucket[b], Burst(b), Spending(b, Live))
    /\ Repaid(Owed(b), Burst(b), now, Spending(b, Sleeping))

(* The inductive invariant of the limiter. *)
IInv == TypeOK /\ Identified /\ WindowsRemember /\ BucketsBalance
---------------------------------------------------------------------------
(* Every non-empty set of naturals has a least element. *)
LEMMA LeastExists ==
  ASSUME NEW T \in SUBSET Nat, T # {}
  PROVE  \E m \in T : \A n \in T : m <= n
<1>1. PICK m \in T : \A n \in T : <<n, m>> \notin OpToRel(<, Nat)
  BY NatLessThanWellFounded, WFMin, Zenon
<1>2. \A n \in T : ~ (n < m)
  BY <1>1, Zenon DEF OpToRel
<1> QED
  BY <1>2

(* ... and every non-empty set of naturals with a bound a greatest one. *)
LEMMA GreatestExists ==
  ASSUME NEW T \in SUBSET Nat, T # {}, NEW bound \in Nat, \A n \in T : n <= bound
  PROVE  \E m \in T : \A n \in T : n <= m
<1> DEFINE U == {bound - n : n \in T}
<1>1. \A n \in T : bound - n \in Nat
  OBVIOUS
<1>2. U \in SUBSET Nat /\ U # {}
  BY <1>1
<1>3. PICK u \in U : \A v \in U : u <= v
  <2> HIDE DEF U
  <2> QED
    BY <1>2, LeastExists
<1>4. PICK m \in T : u = bound - m
  BY <1>3
<1>5. \A n \in T : bound - m <= bound - n
  BY <1>3, <1>4
<1>6. \A n \in T : n \in Nat
  OBVIOUS
<1> HIDE DEF U
<1> QED
  BY <1>5, <1>6

(* A request spends from one of the two buckets, or from none. *)
LEMMA BucketIn ==
  ASSUME NEW r
  PROVE  BucketFor(r) \in Buckets \cup {NoBucket}
BY DEF BucketFor, Buckets, NoBucket

(* A deadline is an instant, however a header words it. *)
LEMMA RetryBounded ==
  ASSUME now \in Nat, NEW h \in Responses
  PROVE  RetryAfter(h) \in Nat /\ RetryAfter(h) <= now + MaxFreeze
<1>1. MaxFreeze \in Nat /\ h.after \in Delay /\ h.reset \in Delay
  BY LimiterAssumption DEF ResponseType
<1> QED
  BY <1>1 DEF RetryAfter, ClampFreeze, NoDeadline, Delay, Missing, Bad

(* A request costs at least something. *)
LEMMA CostIn ==
  ASSUME NEW r \in Requests
  PROVE  CostOf(r) \in Nat
BY LimiterAssumption DEF CostOf, Later, RequestType

(* A bucket holds at least something. *)
LEMMA BurstIn ==
  ASSUME NEW b 
  PROVE  Burst(b) \in Nat
BY LimiterAssumption DEF Burst
---------------------------------------------------------------------------
(* Rules are numbered from 1, and scores are numbers. *)
LEMMA RuleFacts ==
  /\ Rule \subseteq Nat \ {0} /\ NoRule \notin Rule
  /\ \A i \in Rule : /\ Rules[i].requests \in Nat /\ Rules[i].window \in Nat
                     /\ Len(Rules[i].prefix) \in Nat /\ Score(i) \in Nat
                     /\ Rules[i].method = AnyMethod => Score(i) = 2 * Len(Rules[i].prefix)
                     /\ Rules[i].method # AnyMethod => Score(i) = 2 * Len(Rules[i].prefix) + 1
<1>1. Rules \in [1..Len(Rules) -> RuleType] /\ Len(Rules) \in Nat
  BY LimiterAssumption
<1>2. \A i \in Rule : Rules[i] \in RuleType
  BY <1>1 DEF Rule
<1>3. Rule \subseteq Nat \ {0} /\ NoRule \notin Rule
  BY <1>1 DEF Rule, NoRule
<1>4. \A i \in Rule : /\ Rules[i].requests \in Nat /\ Rules[i].window \in Nat
                      /\ Len(Rules[i].prefix) \in Nat
  BY <1>2 DEF RuleType
<1>5. ASSUME NEW i \in Rule
      PROVE  /\ Score(i) \in Nat
             /\ Rules[i].method = AnyMethod => Score(i) = 2 * Len(Rules[i].prefix)
             /\ Rules[i].method # AnyMethod => Score(i) = 2 * Len(Rules[i].prefix) + 1
  <2>1. Len(Rules[i].prefix) \in Nat
    BY <1>4
  <2>2. CASE Rules[i].method = AnyMethod
    BY <2>1, <2>2 DEF Score
  <2>3. CASE Rules[i].method # AnyMethod
    BY <2>1, <2>3 DEF Score
  <2> QED
    BY <2>2, <2>3
<1> QED
  BY <1>3, <1>4, <1>5

(* The longer prefix scores more, whatever the methods. *)
LEMMA Doubles ==
  ASSUME NEW n \in Nat, NEW m \in Nat
  PROVE  /\ n <= m => 2 * n + 1 <= 2 * m + 1 /\ 2 * n <= 2 * m + 1
         /\ n < m => 2 * n + 1 < 2 * m
OBVIOUS

(* match finds a rule whenever there is one: among the best scores there   *)
(* is a first.                                                             *)
LEMMA MatchFound ==
  ASSUME NEW r \in Requests, Matching(r) # {}
  PROVE  Match(r) \in Matching(r)
<1> DEFINE Scores == {Score(i) : i \in Matching(r)}
           Best   == {i \in Matching(r) : \A j \in Matching(r) : Score(j) <= Score(i)}
<1>1. Matching(r) \subseteq Rule
  BY DEF Matching
<1>2. Len(r.path) \in Nat
  BY LimiterAssumption DEF RequestType
<1>3. ASSUME NEW i \in Matching(r)
      PROVE  Score(i) \in Nat /\ Score(i) <= 2 * Len(r.path) + 1
  <2>1. Len(Rules[i].prefix) \in Nat /\ Len(Rules[i].prefix) <= Len(r.path)
    BY <1>1, RuleFacts DEF Matching, HasPrefix
  <2>2. CASE Rules[i].method = AnyMethod
    BY <1>1, <1>2, <2>1, <2>2, RuleFacts, Doubles
  <2>3. CASE Rules[i].method # AnyMethod
    BY <1>1, <1>2, <2>1, <2>3, RuleFacts, Doubles
  <2> QED
    BY <2>2, <2>3
<1>4. PICK s \in Scores : \A q \in Scores : q <= s
  <2> DEFINE top == 2 * Len(r.path) + 1
  <2>1. top \in Nat /\ \A i \in Matching(r) : Score(i) \in Nat /\ Score(i) <= top
    BY <1>2, <1>3
  <2> HIDE DEF top
  <2>2. Scores \in SUBSET Nat /\ Scores # {} /\ \A q \in Scores : q <= top
    BY <2>1
  <2> HIDE DEF Scores
  <2> QED
    BY <2>1, <2>2, GreatestExists
<1>5. Best \in SUBSET Nat /\ Best # {}
  BY <1>1, <1>4, RuleFacts
<1>6. PICK i \in Best : \A j \in Best : i <= j
  <2> HIDE DEF Best
  <2> QED
    BY <1>5, LeastExists
<1>7. \A j \in Matching(r) : Score(j) < Score(i) \/ (Score(j) = Score(i) /\ i <= j)
  <2> SUFFICES ASSUME NEW j \in Matching(r)
               PROVE  Score(j) < Score(i) \/ (Score(j) = Score(i) /\ i <= j)
    OBVIOUS
  <2>1. Score(j) <= Score(i) /\ i \in Matching(r)
    BY <1>6
  <2>2. CASE Score(j) = Score(i)
    BY <1>6, <2>1, <2>2
  <2> QED
    BY <1>3, <2>1, <2>2
<1>8. i \in Matching(r)
  BY <1>6
<1> HIDE DEF Best
<1> QED
  BY <1>7, <1>8, Zenon DEF Match

(* A request that matches a rule has it among the rules. *)
LEMMA MatchIn ==
  ASSUME NEW r \in Requests
  PROVE  Match(r) \in Rule \cup {NoRule}
<1>1. Matching(r) \subseteq Rule
  BY DEF Matching
<1> QED
  BY <1>1, MatchFound DEF Match

(* The rule that governs a request is the one match finds. *)
LEMMA GovernsMatch ==
  ASSUME NEW r \in Requests, NEW i \in Rule, Governs(i, r)
  PROVE  Match(r) = i
<1>1. Matching(r) \subseteq Rule /\ i \in Matching(r)
  BY DEF Matching, Governs
<1>2. \A j \in Matching(r) : Score(j) < Score(i) \/ (Score(j) = Score(i) /\ i <= j)
  <2> SUFFICES ASSUME NEW j \in Matching(r), j # i
               PROVE  Score(j) < Score(i) \/ (Score(j) = Score(i) /\ i <= j)
    BY <1>1, RuleFacts
  <2>1. i \in Nat /\ j \in Nat /\ Len(Rules[i].prefix) \in Nat /\ Len(Rules[j].prefix) \in Nat
    BY <1>1, RuleFacts
  <2>2. CASE Len(Rules[j].prefix) < Len(Rules[i].prefix)
    <3>1. 2 * Len(Rules[j].prefix) + 1 < 2 * Len(Rules[i].prefix)
      BY <2>1, <2>2, Doubles
    <3>2. /\ Score(j) \in {2 * Len(Rules[j].prefix), 2 * Len(Rules[j].prefix) + 1}
          /\ Score(i) \in {2 * Len(Rules[i].prefix), 2 * Len(Rules[i].prefix) + 1}
      BY <1>1, RuleFacts
    <3> QED
      BY <2>1, <3>1, <3>2
  <2>3. CASE /\ Rules[j].prefix = Rules[i].prefix
             /\ Rules[i].method # AnyMethod /\ Rules[j].method = AnyMethod
    BY <1>1, <2>1, <2>3, RuleFacts
  <2>4. CASE Rules[j].prefix = Rules[i].prefix /\ Rules[i].method = Rules[j].method /\ i < j
    BY SMTT(30), <1>1, <2>1, <2>4, RuleFacts
  <2> QED
    BY <2>2, <2>3, <2>4 DEF Governs
<1>3. /\ Match(r) \in Matching(r)
      /\ \A j \in Matching(r) : \/ Score(j) < Score(Match(r))
                                \/ Score(j) = Score(Match(r)) /\ Match(r) <= j
  BY <1>1, <1>2, Zenon DEF Match
<1>4. \/ Score(i) < Score(Match(r))
      \/ Score(i) = Score(Match(r)) /\ Match(r) <= i
  BY <1>1, <1>3
<1>5. \/ Score(Match(r)) < Score(i)
      \/ Score(Match(r)) = Score(i) /\ i <= Match(r)
  BY <1>2, <1>3
<1>6. /\ Match(r) \in Nat /\ i \in Nat
      /\ Score(Match(r)) \in Nat /\ Score(i) \in Nat
  BY <1>1, <1>3, RuleFacts
<1> QED
  BY <1>4, <1>5, <1>6
---------------------------------------------------------------------------
(* The windows: what a reservation and its return do. *)

(* A rule has finitely many slots, at least one. *)
LEMMA SlotsOf ==
  ASSUME NEW i \in Rule
  PROVE  /\ Later(Rules[i].requests, 1) \in Nat \ {0}
         /\ Slots(i) = 1..Later(Rules[i].requests, 1) /\ 1 \in Slots(i)
         /\ Rules[i].window \in Nat
<1>1. Rules[i].requests \in Nat /\ Rules[i].window \in Nat
  BY RuleFacts
<1> QED
  BY <1>1 DEF Slots, Later

(* reserve scans to an index of the array, never past it. *)
LEMMA SlotForIn ==
  ASSUME NEW i \in Rule, NEW slots \in [Slots(i) -> SlotType]
  PROVE  SlotFor(slots) \in Slots(i)
<1> DEFINE Whens == {slots[k].when : k \in Slots(i)}
<1>1. Whens \in SUBSET Nat /\ Whens # {}
  BY SlotsOf DEF SlotType
<1>2. PICK w \in Whens : \A v \in Whens : w <= v
  <2> HIDE DEF Whens
  <2> QED
    BY <1>1, LeastExists
<1>3. Oldest(slots) \subseteq Slots(i)
  BY DEF Oldest
<1>4. Oldest(slots) # {}
  BY <1>2 DEF Oldest
<1>5. Oldest(slots) \in SUBSET Nat
  BY <1>3, SlotsOf
<1>6. PICK k \in Oldest(slots) : \A j \in Oldest(slots) : k <= j
  BY <1>4, <1>5, LeastExists
<1>7. SlotFor(slots) \in Oldest(slots)
  BY <1>6, Zenon DEF SlotFor
<1> QED
  BY <1>3, <1>7

(* What reserve hands out: a fresh number, on a slot of the array, at an   *)
(* instant not past, and a window behind what it displaced.                *)
LEMMA ClaimIn ==
  ASSUME NEW i \in Rule, NEW w \in WindowType(i), NEW t \in Nat \ {0},
         NEW res, res = Claim(w, Rules[i].window, t)
  PROVE  /\ res \in ReservationType
         /\ res.slot \in Slots(i) /\ res.seq = w.seq + 1
         /\ res.prev = w.slots[res.slot]
         /\ res.when >= t
         /\ res.prev.when # 0 => res.prev.when + Rules[i].window <= res.when
<1> DEFINE k == SlotFor(w.slots)
           e == ClaimTime(w, k, Rules[i].window, t)
<1>1. k \in Slots(i) /\ k \in Nat
  BY SlotForIn, SlotsOf DEF WindowType
<1>2. w.slots[k] \in SlotType /\ w.seq \in Nat /\ w.frozenTill \in Nat
  BY <1>1 DEF WindowType
<1>3. w.slots[k].when \in Nat /\ Rules[i].window \in Nat
  BY <1>2, SlotsOf DEF SlotType
<1> HIDE DEF k
<1>4. e \in Nat /\ e >= t /\ (w.slots[k].when # 0 => w.slots[k].when + Rules[i].window <= e)
  BY <1>2, <1>3 DEF ClaimTime, Later
<1>5. res = [slot |-> k, seq |-> w.seq + 1, prev |-> w.slots[k], when |-> e]
  BY DEF Claim, k
<1> HIDE DEF e
<1> QED
  BY <1>1, <1>2, <1>4, <1>5 DEF ReservationType

(* Reserving: the new claim is numbered above every other, and stands a    *)
(* window behind whatever its slot stood for.                              *)
LEMMA Reserving ==
  ASSUME NEW i \in Rule, NEW w \in WindowType(i), NEW L \in SUBSET ClaimType,
         Remembers(i, w, L), NEW t \in Nat \ {0}, NEW a \in ClaimType,
         a.win = Claim(w, Rules[i].window, t)
  PROVE  /\ Reserved(w, a.win) \in WindowType(i)
         /\ Remembers(i, Reserved(w, a.win), L \cup {a})
<1> DEFINE k == a.win.slot
           v == Reserved(w, a.win)
<1>1. /\ a.win \in ReservationType /\ k \in Slots(i) /\ a.win.seq = w.seq + 1
      /\ a.win.prev = w.slots[k] /\ a.win.when >= t
      /\ a.win.prev.when # 0 => a.win.prev.when + Rules[i].window <= a.win.when
  BY ClaimIn
<1>2. /\ a.win.when \in Nat /\ a.win.when > 0 /\ w.seq \in Nat /\ w.frozenTill \in Nat
      /\ Rules[i].window \in Nat /\ w.slots \in [Slots(i) -> SlotType]
      /\ a.win.prev \in SlotType /\ a.win.prev.seq \in Nat /\ a.win.prev.when \in Nat
  BY <1>1, SlotsOf DEF ReservationType, WindowType, SlotType
<1>3. /\ v.seq = w.seq + 1
      /\ v.slots[k].when = a.win.when /\ v.slots[k].seq = w.seq + 1
      /\ \A j \in Slots(i) : j # k => v.slots[j] = w.slots[j]
  BY <1>1, <1>2 DEF Reserved
<1>4. v \in WindowType(i)
  <2>1. [when |-> a.win.when, seq |-> a.win.seq] \in SlotType
    BY <1>1, <1>2 DEF SlotType
  <2>2. [w.slots EXCEPT ![k] = [when |-> a.win.when, seq |-> a.win.seq]]
          \in [Slots(i) -> SlotType]
    BY <1>1, <1>2, <2>1
  <2> QED
    BY <1>1, <1>2, <2>2 DEF Reserved, WindowType
<1>5. \A j \in Slots(i) : /\ w.slots[j].seq \in Nat /\ w.slots[j].when \in Nat
                          /\ Proper(w, w.slots[j])
  BY <1>2 DEF SlotType, Remembers
<1>6. \A b \in L :
        /\ b.win.slot \in Slots(i) /\ b.win.seq \in Nat /\ b.win.when \in Nat
        /\ b.win.seq <= w.seq /\ b.win.seq > 0 /\ b.win.when > 0
        /\ Behind(i, b.win, w.slots[b.win.slot])
        /\ b.win.prev.seq \in Nat /\ Proper(w, b.win.prev) /\ b.win.prev.seq < b.win.seq
  BY <1>2 DEF Remembers, ClaimType, ReservationType, SlotType
<1> HIDE DEF k, v
<1>7. \A b \in L : b.win.slot = k =>
        Behind(i, b.win, a.win.prev) /\ b.win.when + Rules[i].window <= a.win.when
  <2> SUFFICES ASSUME NEW b \in L, b.win.slot = k
               PROVE  /\ Behind(i, b.win, a.win.prev)
                      /\ b.win.when + Rules[i].window <= a.win.when
    OBVIOUS
  <2>1. Behind(i, b.win, a.win.prev) /\ Proper(w, a.win.prev)
    BY <1>1, <1>5, <1>6 DEF k
  <2>2. a.win.prev.when # 0
    BY <1>2, <1>6, <2>1 DEF Behind, Proper
  <2>3. b.win.when <= a.win.prev.when
    BY <1>2, <1>6, <2>1 DEF Behind
  <2> QED
    BY <1>1, <1>2, <1>6, <2>1, <2>2, <2>3
<1>8. \A j \in Slots(i) : Proper(v, v.slots[j])
  BY <1>1, <1>2, <1>3, <1>5 DEF Proper
<1>9. ASSUME NEW b \in L \cup {a}
      PROVE  /\ b.win.slot \in Slots(i) /\ b.win.seq \in 1..v.seq /\ b.win.when > 0
             /\ Behind(i, b.win, v.slots[b.win.slot])
             /\ Proper(v, b.win.prev) /\ b.win.prev.seq < b.win.seq
  <2>1. CASE b = a
    <3>1. Proper(w, a.win.prev)
      BY <1>1, <1>5 DEF k
    <3> QED
      BY SMTT(30), <1>1, <1>2, <1>3, <2>1, <3>1 DEF Behind, Proper, k
  <2>2. CASE b \in L /\ b.win.slot = k
    BY <1>1, <1>2, <1>3, <1>6, <1>7, <2>2 DEF Behind, Proper
  <2>3. CASE b \in L /\ b.win.slot # k
    BY <1>2, <1>3, <1>6, <2>3 DEF Behind, Proper
  <2> QED
    BY <2>1, <2>2, <2>3
<1>10. \A b, d \in L \cup {a} : b.win.seq = d.win.seq => b = d
  BY <1>1, <1>2, <1>6 DEF Remembers
<1>11. ASSUME NEW b \in L \cup {a}, NEW d \in L \cup {a},
              b.win.slot = d.win.slot, d.win.seq < b.win.seq
       PROVE  /\ Behind(i, d.win, b.win.prev)
              /\ d.win.when + Rules[i].window <= b.win.when
  <2>1. CASE b \in L /\ d \in L
    BY <1>11, <2>1 DEF Remembers
  <2>2. CASE b = a /\ d \in L
    BY <1>7, <1>11, <2>2 DEF k
  <2>3. CASE d = a
    BY <1>1, <1>2, <1>6, <1>11, <2>3
  <2> QED
    BY <2>1, <2>2, <2>3
<1>12. Remembers(i, v, L \cup {a})
  BY <1>8, <1>9, <1>10, <1>11 DEF Remembers
<1> QED
  BY <1>4, <1>12 DEF v

(* Releasing: the claim stops counting, and what comes back into its slot  *)
(* stands for every claim that still counts.                               *)
LEMMA Releasing ==
  ASSUME NEW i \in Rule, NEW w \in WindowType(i), NEW L \in SUBSET ClaimType,
         Remembers(i, w, L), NEW a \in L
  PROVE  /\ Released(w, a.win) \in WindowType(i)
         /\ Released(w, a.win).seq = w.seq
         /\ Remembers(i, Released(w, a.win), L \ {a})
<1> DEFINE k == a.win.slot
           v == Released(w, a.win)
<1>1. /\ w.seq \in Nat /\ w.slots \in [Slots(i) -> SlotType]
      /\ k \in Slots(i) /\ a.win.prev \in SlotType /\ Rules[i].window \in Nat
      /\ a.win.prev.seq \in Nat /\ a.win.prev.when \in Nat /\ a.win.seq \in Nat
  BY SlotsOf DEF WindowType, Remembers, ClaimType, ReservationType, SlotType
<1>2. \/ v = w
      \/ /\ w.slots[k].seq = a.win.seq
         /\ v = [w EXCEPT !.slots[k] = a.win.prev]
  BY DEF Released
<1>3. v \in WindowType(i)
  <2>1. CASE v = w
    BY <2>1
  <2>2. CASE v = [w EXCEPT !.slots[k] = a.win.prev]
    <3>1. [w.slots EXCEPT ![k] = a.win.prev] \in [Slots(i) -> SlotType]
      BY <1>1
    <3> QED
      BY <1>1, <2>2, <3>1 DEF WindowType
  <2> QED
    BY <1>2, <2>1, <2>2
<1>4. /\ v.seq = w.seq
      /\ \A j \in Slots(i) : \/ v.slots[j] = w.slots[j]
                             \/ j = k /\ w.slots[j].seq = a.win.seq /\ v.slots[j] = a.win.prev
  BY <1>1, <1>2 DEF WindowType
<1> HIDE DEF v
<1>5. \A j \in Slots(i) : Proper(v, v.slots[j])
  BY <1>1, <1>4 DEF Remembers, Proper
<1>6. ASSUME NEW b \in L \ {a}
      PROVE  /\ b.win.slot \in Slots(i) /\ b.win.seq \in 1..v.seq /\ b.win.when > 0
             /\ Behind(i, b.win, v.slots[b.win.slot])
             /\ Proper(v, b.win.prev) /\ b.win.prev.seq < b.win.seq
  <2>1. /\ b.win.slot \in Slots(i) /\ b.win.seq \in 1..w.seq /\ b.win.when > 0
        /\ Behind(i, b.win, w.slots[b.win.slot])
        /\ Proper(w, b.win.prev) /\ b.win.prev.seq < b.win.seq
        /\ b.win.seq # a.win.seq
    BY DEF Remembers
  <2>2. CASE v.slots[b.win.slot] = w.slots[b.win.slot]
    BY <1>4, <2>1, <2>2 DEF Proper
  <2>3. CASE /\ b.win.slot = k /\ w.slots[b.win.slot].seq = a.win.seq
             /\ v.slots[b.win.slot] = a.win.prev
    <3>1. b.win.seq < a.win.seq
      BY <1>1, <2>1, <2>3 DEF Behind
    <3>2. Behind(i, b.win, a.win.prev)
      BY <2>3, <3>1 DEF Remembers
    <3> QED
      BY <1>4, <2>1, <2>3, <3>2 DEF Proper
  <2> QED
    BY <1>4, <2>1, <2>2, <2>3
<1>7. Remembers(i, v, L \ {a})
  BY <1>5, <1>6 DEF Remembers
<1> QED
  BY <1>3, <1>4, <1>7 DEF v

(* Freezing touches neither slots nor claims. *)
LEMMA Freezing ==
  ASSUME NEW i \in Rule, NEW w \in WindowType(i), NEW L, Remembers(i, w, L), NEW t \in Nat
  PROVE  /\ Frozen(w, t) \in WindowType(i)
         /\ Frozen(w, t).seq = w.seq
         /\ Remembers(i, Frozen(w, t), L)
<1>1. Later(w.frozenTill, t) \in Nat
  BY DEF WindowType, Later
<1>2. /\ Frozen(w, t) \in WindowType(i)
      /\ Frozen(w, t).seq = w.seq /\ Frozen(w, t).slots = w.slots
  BY <1>1 DEF Frozen, WindowType
<1> QED
  BY <1>2 DEF Remembers, Proper

(* Claims that count and fall into one period sit on different slots, so   *)
(* there are no more of them than slots.                                   *)
LEMMA OnePerSlot ==
  ASSUME NEW i \in Rule, NEW w \in WindowType(i), NEW L \in SUBSET ClaimType,
         Remembers(i, w, L), NEW t \in Nat
  PROVE  LET P == {a \in L : t <= a.win.when /\ a.win.when < t + Rules[i].window}
         IN  IsFiniteSet(P) /\ Cardinality(P) <= Later(Rules[i].requests, 1)
<1> DEFINE P == {a \in L : t <= a.win.when /\ a.win.when < t + Rules[i].window}
           n == Later(Rules[i].requests, 1)
           slotOf == [a \in P |-> a.win.slot]
<1>1. n \in Nat /\ Slots(i) = 1..n /\ Rules[i].window \in Nat
  BY SlotsOf
<1>2. \A a \in L : /\ a.win.slot \in Slots(i) /\ a.win.seq \in Nat /\ a.win.when \in Nat
  BY DEF Remembers, ClaimType, ReservationType
<1>3. ASSUME NEW a \in P, NEW b \in P, a.win.slot = b.win.slot
      PROVE  a = b
  <2>1. /\ a.win.seq < b.win.seq => a.win.when + Rules[i].window <= b.win.when
        /\ b.win.seq < a.win.seq => b.win.when + Rules[i].window <= a.win.when
    BY <1>3 DEF Remembers
  <2>2. /\ t <= a.win.when /\ a.win.when < t + Rules[i].window
        /\ t <= b.win.when /\ b.win.when < t + Rules[i].window
    OBVIOUS
  <2>3. /\ a.win.seq \in Nat /\ a.win.when \in Nat /\ b.win.seq \in Nat /\ b.win.when \in Nat
    BY <1>2
  <2>4. a.win.seq = b.win.seq
    BY <1>1, <2>1, <2>2, <2>3
  <2> QED
    BY <2>4 DEF Remembers
<1>4. slotOf \in Injection(P, 1..n)
  <2>1. slotOf \in [P -> 1..n]
    BY <1>1, <1>2
  <2> QED
    BY <1>3, <2>1 DEF Injection, IsInjective
<1>5. IsFiniteSet(1..n) /\ Cardinality(1..n) = n
  <2> HIDE DEF n
  <2>1. /\ IsFiniteSet(1..n)
        /\ Cardinality(1..n) = IF 1 > n THEN 0 ELSE n - 1 + 1
    BY <1>1, FS_Interval
  <2> QED
    BY <1>1, <2>1
<1> HIDE DEF slotOf, P, n
<1>6. IsFiniteSet(P) /\ Cardinality(P) <= n
  BY <1>4, <1>5, FS_Injection
<1> QED
  BY <1>6 DEF P, n
---------------------------------------------------------------------------
(* What claims cost. *)

(* A claim's units are as many as it costs. *)
LEMMA UnitsOfOne ==
  ASSUME NEW a \in ClaimType
  PROVE  /\ IsFiniteSet({a} \X (1..CostOf(a.req)))
         /\ Cardinality({a} \X (1..CostOf(a.req))) = CostOf(a.req)
<1> DEFINE n == CostOf(a.req)
<1>1. n \in Nat
  BY CostIn DEF ClaimType
<1> HIDE DEF n
<1>2. IsFiniteSet(1..n) /\ Cardinality(1..n) = n
  <2>1. /\ IsFiniteSet(1..n)
        /\ Cardinality(1..n) = IF 1 > n THEN 0 ELSE n - 1 + 1
    BY <1>1, FS_Interval
  <2> QED
    BY <1>1, <2>1
<1>3. IsFiniteSet({a}) /\ Cardinality({a}) = 1
  BY FS_Singleton
<1>4. IsFiniteSet({a} \X (1..n)) /\ Cardinality({a} \X (1..n)) = 1 * n
  <2>1. /\ IsFiniteSet({a} \X (1..n))
        /\ Cardinality({a} \X (1..n)) = Cardinality({a}) * Cardinality(1..n)
    BY <1>2, <1>3, FS_Product, Zenon
  <2> QED
    BY <1>1, <1>2, <1>3, <2>1, Zenon
<1> QED
  BY <1>1, <1>4 DEF n

(* No claims cost nothing. *)
LEMMA CostEmpty == Cost({}) = 0
<1>1. Units({}) = {}
  BY DEF Units
<1> QED
  BY <1>1, FS_EmptySet DEF Cost

(* Finitely many claims have a cost. *)
LEMMA CostFinite ==
  ASSUME NEW S \in SUBSET ClaimType, IsFiniteSet(S)
  PROVE  IsFiniteSet(Units(S)) /\ Cost(S) \in Nat
<1> DEFINE U(a) == {a} \X (1..CostOf(a.req))
           T == {U(a) : a \in S}
           f == [a \in S |-> U(a)]
<1>1. f \in Surjection(S, T)
  BY DEF Surjection
<1>2. \A u \in T : IsFiniteSet(u)
  BY UnitsOfOne
<1>3. Units(S) = UNION T
  BY DEF Units
<1> HIDE DEF f, T
<1>4. IsFiniteSet(T)
  BY <1>1, FS_Surjection
<1>5. IsFiniteSet(Units(S))
  BY <1>2, <1>3, <1>4, FS_UNION
<1> QED
  BY <1>5, FS_CardinalityType DEF Cost

(* One more claim costs its own cost more. *)
LEMMA CostAdd ==
  ASSUME NEW S \in SUBSET ClaimType, IsFiniteSet(S), NEW a \in ClaimType, a \notin S
  PROVE  Cost(S \cup {a}) = Cost(S) + CostOf(a.req)
<1> DEFINE V == {a} \X (1..CostOf(a.req))
<1>1. Units(S \cup {a}) = Units(S) \cup V
  BY DEF Units
<1>2. Units(S) \cap V = {}
  BY DEF Units
<1>3. IsFiniteSet(V) /\ Cardinality(V) = CostOf(a.req) /\ CostOf(a.req) \in Nat
  BY UnitsOfOne, CostIn DEF ClaimType
<1>4. IsFiniteSet(Units(S)) /\ Cardinality(Units(S)) \in Nat
  BY CostFinite DEF Cost
<1> HIDE DEF V
<1>5. Cardinality(Units(S) \cup V) = Cardinality(Units(S)) + Cardinality(V) - Cardinality({})
  BY <1>2, <1>3, <1>4, FS_Union
<1>6. Cardinality({}) = 0
  BY FS_EmptySet
<1>7. Cardinality(Units(S) \cup V) = Cardinality(Units(S)) + Cardinality(V)
  BY <1>3, <1>4, <1>5, <1>6
<1> QED
  BY <1>1, <1>3, <1>7 DEF Cost

(* ... and one claim less its own cost less. *)
LEMMA CostRemove ==
  ASSUME NEW S \in SUBSET ClaimType, IsFiniteSet(S), NEW a \in S
  PROVE  Cost(S \ {a}) = Cost(S) - CostOf(a.req)
<1>1. IsFiniteSet(S \ {a}) /\ S \ {a} \in SUBSET ClaimType
  BY FS_Subset
<1>2. Cost((S \ {a}) \cup {a}) = Cost(S \ {a}) + CostOf(a.req)
  BY <1>1, CostAdd
<1>3. Cost(S) = Cost(S \ {a}) + CostOf(a.req)
  <2>1. (S \ {a}) \cup {a} = S
    OBVIOUS
  <2> QED
    BY <1>2, <2>1, Zenon
<1>4. Cost(S \ {a}) \in Nat /\ CostOf(a.req) \in Nat
  BY <1>1, CostFinite, CostIn DEF ClaimType
<1>5. \A x, y, z \in Nat : x = y + z => y = x - z
  OBVIOUS
<1>6. Cost(S) \in Nat
  BY CostFinite
<1> QED
  BY <1>3, <1>4, <1>5, <1>6

(* Fewer claims cost no more. *)
LEMMA CostSubset ==
  ASSUME NEW S \in SUBSET ClaimType, IsFiniteSet(S), NEW R \in SUBSET S
  PROVE  Cost(R) <= Cost(S) /\ Cost(R) \in Nat /\ IsFiniteSet(R)
<1>1. Units(R) \in SUBSET Units(S)
  BY DEF Units
<1>2. IsFiniteSet(Units(S))
  BY CostFinite
<1>3. IsFiniteSet(R) /\ R \in SUBSET ClaimType
  BY FS_Subset
<1> QED
  BY <1>1, <1>2, <1>3, FS_Subset, CostFinite DEF Cost
---------------------------------------------------------------------------
(* The buckets: what each operation does to a balance and its debt. *)

(* A bucket brought up to date: what it holds then, and the rest as it was. *)
LEMMA RefilledIs ==
  ASSUME NEW k \in BucketType, NEW B \in Nat, NEW t \in Nat \ {0}, Solvent(k, B, t)
  PROVE  LET v == Refilled(k, B, t)
         IN  /\ v \in BucketType /\ v.updated = t /\ v.frozenTill = k.frozenTill
             /\ k.updated = 0 => v.tokens = B
             /\ k.updated > 0 /\ k.tokens + (t - k.updated) <= B =>
                  v.tokens = k.tokens + (t - k.updated)
             /\ k.updated > 0 /\ k.tokens + (t - k.updated) > B => v.tokens = B
             /\ v.tokens <= B
<1>1. /\ k.tokens \in Int /\ k.updated \in Nat /\ k.frozenTill \in Nat
      /\ k.tokens <= B /\ k.updated <= t /\ (k.updated = 0 => k.tokens = B)
  BY DEF BucketType, Solvent
<1>2. CASE k.updated = 0 \/ t <= k.updated
  <2>1. Refilled(k, B, t) = [k EXCEPT !.updated = t]
    BY <1>1, <1>2 DEF Refilled, Greatest
  <2> QED
    BY <1>1, <1>2, <2>1 DEF BucketType
<1>3. CASE k.updated > 0 /\ t > k.updated
  <2> DEFINE sum == k.tokens + (t - k.updated)
  <2>1. Refilled(k, B, t) = [k EXCEPT !.tokens = Least(B, sum), !.updated = t]
    BY <1>1, <1>3 DEF Refilled
  <2>2. sum \in Int
    BY <1>1
  <2>3. /\ Least(B, sum) \in Int /\ Least(B, sum) <= B
        /\ sum <= B => Least(B, sum) = sum
        /\ sum > B => Least(B, sum) = B
    BY <2>2 DEF Least
  <2>4. /\ Refilled(k, B, t) \in BucketType
        /\ Refilled(k, B, t).updated = t /\ Refilled(k, B, t).frozenTill = k.frozenTill
        /\ Refilled(k, B, t).tokens = Least(B, sum)
    <3> HIDE DEF sum
    <3> QED
      BY <1>1, <2>1, <2>3 DEF BucketType
  <2> QED
    BY <1>3, <2>3, <2>4
<1> QED
  BY <1>1, <1>2, <1>3

(* Reserving takes the cost off what the bucket then holds, and the claim  *)
(* is due when the bucket has earned it.                                   *)
LEMMA SpentIs ==
  ASSUME NEW k \in BucketType, NEW B \in Nat, NEW t \in Nat \ {0}, Solvent(k, B, t),
         NEW cost \in Nat
  PROVE  LET v == Spent(k, B, cost, t)
             d == SpendTime(k, B, cost, t)
         IN  /\ v \in BucketType /\ Solvent(v, B, t)
             /\ v.updated = t /\ v.tokens = Refilled(k, B, t).tokens - cost
             /\ Debt(v, B, t) = Debt(k, B, t) + cost /\ Debt(k, B, t) \in Int
             /\ d \in Nat /\ d >= t /\ Debt(v, B, t) <= d - t
<1> DEFINE r == Refilled(k, B, t)
           v == Spent(k, B, cost, t)
<1>1. /\ r \in BucketType /\ r.updated = t /\ r.tokens \in Int /\ r.tokens <= B
  BY RefilledIs DEF BucketType
<1>2. v = [r EXCEPT !.tokens = @ - cost]
  BY DEF Spent
<1>3. v \in BucketType /\ v.updated = t /\ v.tokens = r.tokens - cost /\ v.tokens \in Int
  BY <1>1, <1>2 DEF BucketType
<1>4. Solvent(v, B, t)
  BY <1>1, <1>3 DEF Solvent
<1>5. Refilled(v, B, t).tokens = v.tokens
  BY <1>1, <1>3, <1>4, RefilledIs
<1>6. Debt(v, B, t) = cost - r.tokens /\ Debt(k, B, t) = -r.tokens
  BY <1>1, <1>3, <1>5 DEF Debt
<1>7. k.frozenTill \in Nat
  BY DEF BucketType
<1> HIDE DEF r, v
<1>8. SpendTime(k, B, cost, t) = Greatest(t + Greatest(cost - r.tokens, 0), k.frozenTill)
  BY DEF SpendTime, r
<1>9. /\ SpendTime(k, B, cost, t) \in Nat /\ SpendTime(k, B, cost, t) >= t
      /\ cost - r.tokens <= SpendTime(k, B, cost, t) - t
  BY <1>1, <1>7, <1>8 DEF Greatest
<1> QED
  BY <1>1, <1>3, <1>4, <1>6, <1>9 DEF r, v

(* The new claim is covered like those before it. *)
LEMMA SpendingCovers ==
  ASSUME NEW k \in BucketType, NEW B \in Nat, NEW t \in Nat \ {0}, Solvent(k, B, t),
         NEW S \in SUBSET ClaimType, IsFiniteSet(S), NEW a \in ClaimType,
         \A x \in S : x.id < a.id, a.due = SpendTime(k, B, CostOf(a.req), t),
         Covered(k, B, S)
  PROVE  Covered(Spent(k, B, CostOf(a.req), t), B, S \cup {a})
<1> DEFINE cost == CostOf(a.req)
           v == Spent(k, B, cost, t)
<1>1. cost \in Nat /\ a.id \in Nat /\ a.due \in Nat /\ \A x \in S : x.id \in Nat
  BY CostIn DEF ClaimType
<1>2. Cost(S) \in Nat /\ a \notin S
  BY <1>1, CostFinite
<1>3. Cost(S \cup {a}) = Cost(S) + cost
  BY <1>2, CostAdd
<1>4. /\ v.tokens = Refilled(k, B, t).tokens - cost /\ v.updated = t
      /\ Debt(v, B, t) <= a.due - t /\ Solvent(v, B, t) /\ v \in BucketType
  <2>1. a.due = SpendTime(k, B, cost, t) /\ cost \in Nat
    BY <1>1
  <2> HIDE DEF cost
  <2> QED
    BY <2>1, SpentIs
<1> HIDE DEF v
<1>5. /\ Refilled(k, B, t).tokens \in Int /\ k.tokens \in Int /\ k.updated \in Nat
      /\ Refilled(k, B, t).tokens + Cost(S) <= B + (t - 1)
  <2>1. /\ k.tokens \in Int /\ k.updated \in Nat /\ k.updated <= t
        /\ k.tokens + Cost(S) <= B + Greatest(k.updated - 1, 0)
        /\ k.updated = 0 => k.tokens = B
    BY DEF Covered, BucketType, Solvent
  <2>2. /\ k.updated = 0 => Refilled(k, B, t).tokens = B
        /\ k.updated > 0 => Refilled(k, B, t).tokens <= k.tokens + (t - k.updated)
        /\ Refilled(k, B, t).tokens \in Int
    BY <2>1, RefilledIs DEF BucketType
  <2> QED
    BY <1>2, <2>1, <2>2 DEF Greatest
<1> HIDE DEF cost
<1>6. v.tokens + Cost(S \cup {a}) <= B + Greatest(v.updated - 1, 0)
  <2>1. Greatest(v.updated - 1, 0) = t - 1
    BY <1>4 DEF Greatest
  <2>2. v.tokens + Cost(S \cup {a}) = Refilled(k, B, t).tokens + Cost(S)
    BY <1>1, <1>2, <1>3, <1>4, <1>5
  <2> QED
    BY <1>5, <2>1, <2>2
<1>7. Refilled(v, B, t).tokens = v.tokens /\ v.tokens \in Int
  <2>1. v.tokens \in Int /\ v.tokens <= B
    BY <1>4 DEF BucketType, Solvent
  <2>2. Refilled(v, B, t).tokens \in Int
    BY <1>4, RefilledIs DEF BucketType
  <2>3. v.tokens + (t - v.updated) = v.tokens
    BY <1>4, <2>1
  <2> QED
    BY <1>4, <2>1, <2>3, RefilledIs
<1>8. Cost(S \cup {a}) <= B + a.due - 1
  <2>1. -v.tokens <= a.due - t
    BY <1>4, <1>7 DEF Debt
  <2> QED
    BY <1>1, <1>2, <1>3, <1>4, <1>5, <1>7, <2>1
<1>9. ASSUME NEW x \in S \cup {a}
      PROVE  Cost(UpTo(x, S \cup {a})) <= B + x.due - 1
  <2>1. CASE x = a
    <3>1. UpTo(a, S \cup {a}) = S \cup {a}
      BY <1>1 DEF UpTo
    <3> QED
      BY <1>8, <2>1, <3>1
  <2>2. CASE x \in S
    <3>1. UpTo(x, S \cup {a}) = UpTo(x, S)
      BY <1>1, <2>2 DEF UpTo
    <3> QED
      BY <2>2, <3>1 DEF Covered
  <2> QED
    BY <2>1, <2>2
<1> QED
  BY <1>6, <1>9 DEF Covered, v, cost

(* With a claim less, the others stay covered: its refund is no more than  *)
(* what it cost.                                                           *)
LEMMA RefundCovers ==
  ASSUME NEW k \in BucketType, NEW B \in Nat,
         NEW S \in SUBSET ClaimType, IsFiniteSet(S), NEW a \in S, Covered(k, B, S)
  PROVE  Covered(Refunded(k, B, CostOf(a.req)), B, S \ {a})
<1> DEFINE v == Refunded(k, B, CostOf(a.req))
<1>1. CostOf(a.req) \in Nat
  BY CostIn DEF ClaimType
<1>2. k.tokens \in Int /\ k.updated \in Nat
  BY DEF BucketType
<1>3. v.tokens \in Int /\ v.tokens <= k.tokens + CostOf(a.req) /\ v.updated = k.updated
  BY <1>1, <1>2 DEF Refunded, Least, BucketType
<1>4. Cost(S \ {a}) = Cost(S) - CostOf(a.req) /\ Cost(S) \in Nat
  BY CostRemove, CostFinite
<1> HIDE DEF v
<1>5. v.tokens + Cost(S \ {a}) <= B + Greatest(v.updated - 1, 0)
  BY <1>1, <1>2, <1>3, <1>4 DEF Covered, Greatest
<1>6. ASSUME NEW x \in S \ {a}
      PROVE  Cost(UpTo(x, S \ {a})) <= B + x.due - 1
  <2>1. UpTo(x, S \ {a}) \in SUBSET UpTo(x, S) /\ UpTo(x, S) \in SUBSET S
    BY DEF UpTo
  <2>2. IsFiniteSet(UpTo(x, S)) /\ Cost(UpTo(x, S)) \in Nat
    BY <2>1, CostSubset
  <2>3. Cost(UpTo(x, S \ {a})) <= Cost(UpTo(x, S)) /\ Cost(UpTo(x, S \ {a})) \in Nat
    BY <2>1, <2>2, CostSubset
  <2>4. Cost(UpTo(x, S)) <= B + x.due - 1
    BY DEF Covered
  <2>5. x.due \in Nat
    BY DEF ClaimType
  <2> QED
    BY <2>2, <2>3, <2>4, <2>5
<1> QED
  BY <1>5, <1>6 DEF Covered, v

(* With no debt, every claim is repaid. *)
LEMMA NoDebtRepaid ==
  ASSUME NEW d \in Int, NEW B \in Nat, d <= B, NEW t \in Nat,
         NEW Z \in SUBSET ClaimType, IsFiniteSet(Z)
  PROVE  Repaid(d, B, t, Z)
<1>1. Cost(Z) \in Nat
  BY CostFinite
<1>2. ASSUME NEW x \in Z
      PROVE  d <= B + Cost(After(x, Z)) + Greatest(x.due - t, 0)
  <2>1. After(x, Z) \in SUBSET Z
    BY DEF After
  <2>2. Cost(After(x, Z)) \in Nat
    BY <2>1, CostSubset
  <2>3. Greatest(x.due - t, 0) \in Nat
    BY DEF Greatest, ClaimType
  <2> QED
    BY <2>2, <2>3
<1> QED
  BY <1>1, <1>2 DEF Repaid

(* A new claim adds its cost to the debt and to what is waited for. *)
LEMMA SpendRepays ==
  ASSUME NEW d \in Int, NEW B \in Nat, NEW t \in Nat,
         NEW Z \in SUBSET ClaimType, IsFiniteSet(Z), NEW a \in ClaimType,
         \A x \in Z : x.id < a.id, Repaid(d, B, t, Z),
         NEW e \in Int, e = d + CostOf(a.req), e <= a.due - t
  PROVE  /\ Repaid(e, B, t, Z \cup {a})
         /\ a.due <= t => Repaid(e, B, t, Z)
<1> DEFINE cost == CostOf(a.req)
<1>1. cost \in Nat /\ a.id \in Nat /\ a.due \in Nat /\ \A x \in Z : x.id \in Nat
  BY CostIn DEF ClaimType
<1>2. a \notin Z /\ Cost(Z) \in Nat
  BY <1>1, CostFinite
<1>3. Cost(Z \cup {a}) = Cost(Z) + cost
  BY <1>2, CostAdd
<1>4. e <= B + Cost(Z \cup {a})
  <2>1. d <= B + Cost(Z) /\ e = d + cost
    BY DEF Repaid
  <2> HIDE DEF cost
  <2> QED
    BY <1>1, <1>2, <1>3, <2>1
<1>5. ASSUME NEW x \in Z
      PROVE  e <= B + Cost(After(x, Z \cup {a})) + Greatest(x.due - t, 0)
  <2>1. After(x, Z \cup {a}) = After(x, Z) \cup {a}
    BY <1>1 DEF After
  <2>2. After(x, Z) \in SUBSET Z /\ a \notin After(x, Z)
    BY <1>2 DEF After
  <2>3. IsFiniteSet(After(x, Z)) /\ Cost(After(x, Z)) \in Nat /\ After(x, Z) \in SUBSET ClaimType
    BY <2>2, CostSubset
  <2>4. Cost(After(x, Z) \cup {a}) = Cost(After(x, Z)) + cost
    BY <2>2, <2>3, CostAdd
  <2>5. d <= B + Cost(After(x, Z)) + Greatest(x.due - t, 0) /\ e = d + cost
    BY DEF Repaid
  <2>6. Greatest(x.due - t, 0) \in Nat
    BY DEF Greatest, ClaimType
  <2>7. Cost(After(x, Z \cup {a})) = Cost(After(x, Z)) + cost
    BY <2>1, <2>4, Zenon
  <2> HIDE DEF cost
  <2> QED
    BY <1>1, <2>3, <2>5, <2>6, <2>7
<1>6. e <= B + Cost(After(a, Z \cup {a})) + Greatest(a.due - t, 0)
  <2>1. After(a, Z \cup {a}) = {}
    BY <1>1 DEF After
  <2>2. Cost(After(a, Z \cup {a})) = 0
    BY <2>1, CostEmpty
  <2>3. Greatest(a.due - t, 0) >= a.due - t /\ Greatest(a.due - t, 0) \in Nat
    BY <1>1 DEF Greatest
  <2> QED
    BY <1>1, <2>2, <2>3
<1>7. a.due <= t => Repaid(e, B, t, Z)
  BY <1>1, NoDebtRepaid
<1> QED
  BY <1>4, <1>5, <1>6, <1>7 DEF Repaid

(* Once a claim is due, the debt is down to what was reserved after it. *)
LEMMA GoRepays ==
  ASSUME NEW d \in Int, NEW B \in Nat, NEW t \in Nat,
         NEW Z \in SUBSET ClaimType, IsFiniteSet(Z), NEW a \in Z, a.due <= t,
         \A x \in Z : x.id = a.id => x = a, Repaid(d, B, t, Z)
  PROVE  Repaid(d, B, t, Z \ {a})
<1>1. a.due \in Nat /\ \A x \in Z : x.id \in Nat /\ x.due \in Nat
  BY DEF ClaimType
<1>2. After(a, Z) \in SUBSET Z /\ Z \ {a} \in SUBSET Z /\ After(a, Z) \in SUBSET (Z \ {a})
  BY <1>1 DEF After
<1>3. /\ Cost(After(a, Z)) \in Nat /\ Cost(Z \ {a}) \in Nat /\ IsFiniteSet(Z \ {a})
      /\ Z \ {a} \in SUBSET ClaimType
  BY <1>2, CostSubset
<1>4. d <= B + Cost(After(a, Z))
  <2>1. d <= B + Cost(After(a, Z)) + Greatest(a.due - t, 0)
    BY DEF Repaid
  <2>2. Greatest(a.due - t, 0) = 0
    BY <1>1 DEF Greatest
  <2> QED
    BY <1>3, <2>1, <2>2
<1>5. Cost(After(a, Z)) <= Cost(Z \ {a})
  BY <1>2, <1>3, CostSubset
<1>6. ASSUME NEW x \in Z \ {a}
      PROVE  d <= B + Cost(After(x, Z \ {a})) + Greatest(x.due - t, 0)
  <2>1. Greatest(x.due - t, 0) \in Nat
    BY <1>1 DEF Greatest
  <2>2. /\ After(x, Z \ {a}) \in SUBSET (Z \ {a})
        /\ x.id < a.id \/ a.id < x.id
    BY <1>1 DEF After
  <2>3. Cost(After(x, Z \ {a})) \in Nat /\ IsFiniteSet(After(x, Z \ {a}))
    BY <1>3, <2>2, CostSubset
  <2>4. CASE x.id < a.id
    <3>1. After(a, Z) \in SUBSET After(x, Z \ {a})
      BY <1>1, <2>4 DEF After
    <3>2. After(x, Z \ {a}) \in SUBSET ClaimType
      BY <1>3, <2>2
    <3>3. Cost(After(a, Z)) <= Cost(After(x, Z \ {a}))
      BY <2>3, <3>1, <3>2, CostSubset
    <3> QED
      BY <1>3, <1>4, <2>1, <2>3, <3>3
  <2>5. CASE a.id < x.id
    <3>1. After(x, Z \ {a}) = After(x, Z)
      BY <1>1, <2>5 DEF After
    <3> QED
      BY <3>1 DEF Repaid
  <2> QED
    BY <2>2, <2>4, <2>5
<1>7. d <= B + Cost(Z \ {a})
  BY <1>3, <1>4, <1>5
<1> QED
  BY <1>6, <1>7 DEF Repaid

(* A refund takes off the debt what the claim takes off what is waited for. *)
LEMMA RefundRepays ==
  ASSUME NEW d \in Int, NEW B \in Nat, NEW t \in Nat,
         NEW Z \in SUBSET ClaimType, IsFiniteSet(Z), NEW a \in Z, Repaid(d, B, t, Z),
         NEW e \in Int, e <= B \/ e <= d - CostOf(a.req)
  PROVE  Repaid(e, B, t, Z \ {a})
<1> DEFINE cost == CostOf(a.req)
<1>1. cost \in Nat /\ Cost(Z) \in Nat
  BY CostIn, CostFinite DEF ClaimType
<1>2. Z \ {a} \in SUBSET ClaimType /\ IsFiniteSet(Z \ {a})
  BY FS_Subset
<1>3. CASE e <= B
  BY <1>2, <1>3, NoDebtRepaid
<1>4. CASE e <= d - cost
  <2>1. Cost(Z \ {a}) = Cost(Z) - cost
    BY CostRemove
  <2>2. d <= B + Cost(Z)
    BY DEF Repaid
  <2>3. e <= B + Cost(Z \ {a})
    <3> HIDE DEF cost
    <3> QED
      BY <1>1, <1>4, <2>1, <2>2
  <2>4. ASSUME NEW x \in Z \ {a}
        PROVE  e <= B + Cost(After(x, Z \ {a})) + Greatest(x.due - t, 0)
    <3>1. After(x, Z) \in SUBSET Z
      BY DEF After
    <3>2. /\ IsFiniteSet(After(x, Z)) /\ Cost(After(x, Z)) \in Nat
          /\ After(x, Z) \in SUBSET ClaimType
      BY <3>1, CostSubset
    <3>3. d <= B + Cost(After(x, Z)) + Greatest(x.due - t, 0)
      BY DEF Repaid
    <3>4. Greatest(x.due - t, 0) \in Nat
      BY DEF Greatest, ClaimType
    <3>5. Cost(After(x, Z \ {a})) \in Nat /\ Cost(After(x, Z \ {a})) >= Cost(After(x, Z)) - cost
      <4>1. CASE a \in After(x, Z)
        <5>1. After(x, Z \ {a}) = After(x, Z) \ {a}
          BY DEF After
        <5>2. After(x, Z) \ {a} \in SUBSET After(x, Z)
          OBVIOUS
        <5>3. Cost(After(x, Z) \ {a}) = Cost(After(x, Z)) - cost
          BY <3>2, <4>1, CostRemove
        <5>4. Cost(After(x, Z) \ {a}) \in Nat
          BY <3>2, <5>2, CostSubset
        <5> HIDE DEF cost
        <5> QED
          BY <5>1, <5>3, <5>4
      <4>2. CASE a \notin After(x, Z)
        <5>1. After(x, Z \ {a}) = After(x, Z)
          BY <4>2 DEF After
        <5> HIDE DEF cost
        <5> QED
          BY <1>1, <3>2, <5>1
      <4> QED
        BY <4>1, <4>2
    <3> HIDE DEF cost
    <3> QED
      BY <1>1, <1>4, <3>2, <3>3, <3>4, <3>5
  <2> QED
    BY <2>3, <2>4 DEF Repaid
<1> QED
  BY <1>3, <1>4

(* An instant passes: the debt is one less, unless the bucket is full. *)
LEMMA TickRepays ==
  ASSUME NEW d \in Int, NEW B \in Nat, NEW t \in Nat,
         NEW Z \in SUBSET ClaimType, IsFiniteSet(Z), Repaid(d, B, t, Z),
         NEW e \in Int, e <= B \/ e <= d - 1
  PROVE  Repaid(e, B, t + 1, Z)
<1>1. CASE e <= B
  BY <1>1, NoDebtRepaid
<1>2. CASE e <= d - 1
  <2>1. Cost(Z) \in Nat /\ d <= B + Cost(Z)
    BY CostFinite DEF Repaid
  <2>2. ASSUME NEW x \in Z
        PROVE  e <= B + Cost(After(x, Z)) + Greatest(x.due - (t + 1), 0)
    <3>1. After(x, Z) \in SUBSET Z
      BY DEF After
    <3>2. Cost(After(x, Z)) \in Nat
      BY <3>1, CostSubset
    <3>3. d <= B + Cost(After(x, Z)) + Greatest(x.due - t, 0)
      BY DEF Repaid
    <3>4. /\ Greatest(x.due - t, 0) \in Nat /\ Greatest(x.due - (t + 1), 0) \in Nat
          /\ Greatest(x.due - (t + 1), 0) >= Greatest(x.due - t, 0) - 1
      BY DEF Greatest, ClaimType
    <3> QED
      BY <1>2, <3>2, <3>3, <3>4
  <2> QED
    BY <1>2, <2>1, <2>2 DEF Repaid
<1> QED
  BY <1>1, <1>2

(* What a refund does to a bucket and to its debt. *)
LEMMA RefundedIs ==
  ASSUME NEW k \in BucketType, NEW B \in Nat, NEW t \in Nat \ {0}, Solvent(k, B, t),
         NEW cost \in Nat
  PROVE  LET v == Refunded(k, B, cost)
         IN  /\ v \in BucketType /\ Solvent(v, B, t)
             /\ Debt(k, B, t) \in Int /\ Debt(v, B, t) \in Int
             /\ Debt(v, B, t) <= B \/ Debt(v, B, t) <= Debt(k, B, t) - cost
<1> DEFINE sum == k.tokens + cost
           v == Refunded(k, B, cost)
<1>1. /\ k.tokens \in Int /\ k.updated \in Nat /\ k.frozenTill \in Nat
      /\ k.tokens <= B /\ k.updated <= t /\ (k.updated = 0 => k.tokens = B)
  BY DEF BucketType, Solvent
<1>2. sum \in Int
  BY <1>1
<1>3. /\ Least(B, sum) \in Int /\ Least(B, sum) <= B
      /\ Least(B, sum) = B \/ Least(B, sum) = sum
      /\ k.tokens = B => Least(B, sum) = B
  BY <1>1, <1>2 DEF Least
<1>4. /\ v \in BucketType /\ v.updated = k.updated /\ v.frozenTill = k.frozenTill
      /\ v.tokens = Least(B, sum)
  <2>1. v = [k EXCEPT !.tokens = Least(B, sum)]
    BY DEF Refunded
  <2> HIDE DEF sum, v
  <2> QED
    BY <1>1, <1>3, <2>1 DEF BucketType
<1> HIDE DEF v
<1>5. Solvent(v, B, t)
  BY <1>1, <1>3, <1>4 DEF Solvent
<1>6. /\ Refilled(k, B, t).tokens \in Int /\ Refilled(v, B, t).tokens \in Int
      /\ Refilled(k, B, t).tokens <= B
      /\ Debt(k, B, t) = -Refilled(k, B, t).tokens
      /\ Debt(v, B, t) = -Refilled(v, B, t).tokens
  BY <1>4, <1>5, RefilledIs DEF BucketType, Debt
<1> DEFINE f == Refilled(k, B, t).tokens
           g == Refilled(v, B, t).tokens
<1>7. ASSUME Least(B, sum) = B
      PROVE  Debt(v, B, t) <= B
  <2>1. Refilled(v, B, t).tokens = B
    <3>1. v.updated > 0 => v.tokens + (t - v.updated) >= B
      BY <1>1, <1>4, <1>7
    <3>2. v.updated > 0 => Refilled(v, B, t).tokens = B
      <4>1. v.tokens + (t - v.updated) \in Int
        BY <1>1, <1>3, <1>4
      <4>2. CASE v.updated > 0 /\ v.tokens + (t - v.updated) = B
        BY <1>4, <1>5, <4>2, RefilledIs
      <4>3. CASE v.updated > 0 /\ v.tokens + (t - v.updated) > B
        BY <1>4, <1>5, <4>3, RefilledIs
      <4> QED
        BY <3>1, <4>1, <4>2, <4>3
    <3> QED
      BY <1>1, <1>4, <1>5, <3>2, RefilledIs
  <2> QED
    BY <1>6, <2>1
<1>8. ASSUME Least(B, sum) = sum, k.updated > 0
      PROVE  Debt(v, B, t) <= B \/ Debt(v, B, t) <= Debt(k, B, t) - cost
  <2>1. /\ v.tokens = k.tokens + cost
        /\ v.tokens + (t - v.updated) = k.tokens + (t - k.updated) + cost
        /\ k.tokens + (t - k.updated) \in Int
    BY <1>1, <1>4, <1>8
  <2>2. Refilled(k, B, t).tokens <= k.tokens + (t - k.updated)
    BY <1>1, <1>6, <1>8, <2>1, RefilledIs
  <2>3. \/ Refilled(v, B, t).tokens = B
        \/ Refilled(v, B, t).tokens = k.tokens + (t - k.updated) + cost
    <3>1. v.tokens + (t - v.updated) <= B \/ v.tokens + (t - v.updated) > B
      BY <2>1
    <3> QED
      BY <1>4, <1>5, <1>8, <2>1, <3>1, RefilledIs
  <2>4. g = B \/ g = k.tokens + (t - k.updated) + cost
    BY <2>3
  <2>5. f <= k.tokens + (t - k.updated) /\ f \in Int /\ g \in Int
    BY <1>6, <2>2
  <2> DEFINE s == k.tokens + (t - k.updated)
  <2> HIDE DEF f, g, s
  <2>6. -g = -B \/ -g <= -f - cost
    BY <2>1, <2>4, <2>5 DEF s
  <2> QED
    BY <1>6, <2>5, <2>6 DEF f, g
<1>9. Debt(v, B, t) <= B \/ Debt(v, B, t) <= Debt(k, B, t) - cost
  BY <1>1, <1>3, <1>7, <1>8
<1> QED
  BY <1>4, <1>5, <1>6, <1>9 DEF v

(* An adopted balance owes at most one burst. *)
LEMMA AdoptedIs ==
  ASSUME NEW k \in BucketType, NEW B \in Nat, NEW t \in Nat \ {0}, NEW n \in Int
  PROVE  LET v == Adopted(k, B, n, t)
         IN  /\ v \in BucketType /\ Solvent(v, B, t)
             /\ Debt(v, B, t) \in Int /\ Debt(v, B, t) <= B
<1> DEFINE left == Least(B, Greatest(-B, n))
           v == Adopted(k, B, n, t)
<1>1. left \in Int /\ left <= B /\ -B <= left
  BY DEF Least, Greatest
<1>2. v = [k EXCEPT !.tokens = left, !.updated = t]
  BY DEF Adopted
<1> HIDE DEF left, v
<1>3. v \in BucketType /\ v.tokens = left /\ v.updated = t
  BY <1>1, <1>2 DEF BucketType
<1>4. Solvent(v, B, t)
  BY <1>1, <1>3 DEF Solvent
<1>5. Refilled(v, B, t).tokens = v.tokens
  <2>1. v.tokens + (t - v.updated) = v.tokens
    BY <1>1, <1>3
  <2> QED
    BY <1>1, <1>3, <1>4, <2>1, RefilledIs
<1> QED
  BY <1>1, <1>3, <1>4, <1>5 DEF Debt, v

(* Holding a bucket shut changes nothing of what it holds. *)
LEMMA HeldIs ==
  ASSUME NEW k \in BucketType, NEW B \in Nat, NEW t \in Nat \ {0}, Solvent(k, B, t),
         NEW u \in Nat
  PROVE  LET v == HeldShut(k, u)
         IN  /\ v \in BucketType /\ Solvent(v, B, t)
             /\ v.tokens = k.tokens /\ v.updated = k.updated
             /\ Debt(v, B, t) = Debt(k, B, t) /\ Debt(k, B, t) \in Int
<1> DEFINE v == HeldShut(k, u)
<1>1. /\ k.tokens \in Int /\ k.updated \in Nat /\ k.frozenTill \in Nat
  BY DEF BucketType
<1>2. /\ v \in BucketType /\ v.tokens = k.tokens /\ v.updated = k.updated
  BY <1>1 DEF HeldShut, BucketType, Greatest
<1> HIDE DEF v
<1>3. Solvent(v, B, t)
  BY <1>2 DEF Solvent
<1>4. Refilled(k, B, t).tokens \in Int
  BY RefilledIs DEF BucketType
<1>5. Refilled(v, B, t).tokens = Refilled(k, B, t).tokens
  <2>1. k.tokens + (t - k.updated) \in Int
    BY <1>1
  <2>2. \/ k.updated = 0
        \/ k.updated > 0 /\ k.tokens + (t - k.updated) <= B
        \/ k.updated > 0 /\ k.tokens + (t - k.updated) > B
    BY <1>1, <2>1
  <2> QED
    BY <1>2, <1>3, <2>2, RefilledIs
<1> QED
  BY <1>2, <1>3, <1>4, <1>5 DEF Debt, v

(* What an instant does to a debt. *)
LEMMA TickedIs ==
  ASSUME NEW k \in BucketType, NEW B \in Nat, NEW t \in Nat \ {0}, Solvent(k, B, t)
  PROVE  /\ Solvent(k, B, t + 1)
         /\ Debt(k, B, t) \in Int /\ Debt(k, B, t + 1) \in Int
         /\ Debt(k, B, t + 1) <= B \/ Debt(k, B, t + 1) <= Debt(k, B, t) - 1
<1>1. /\ k.tokens \in Int /\ k.updated \in Nat
      /\ k.tokens <= B /\ k.updated <= t /\ (k.updated = 0 => k.tokens = B)
  BY DEF BucketType, Solvent
<1>2. Solvent(k, B, t + 1) /\ t + 1 \in Nat \ {0}
  BY <1>1 DEF Solvent
<1>3. Refilled(k, B, t).tokens \in Int /\ Refilled(k, B, t + 1).tokens \in Int
  BY <1>2, RefilledIs DEF BucketType
<1> DEFINE s == k.tokens + (t - k.updated)
           n == k.tokens + (t + 1 - k.updated)
<1>4. s \in Int /\ n = s + 1 /\ n \in Int
  BY <1>1
<1>5. /\ k.updated = 0 => Refilled(k, B, t + 1).tokens = B
      /\ k.updated > 0 /\ n <= B => Refilled(k, B, t + 1).tokens = n
      /\ k.updated > 0 /\ n > B => Refilled(k, B, t + 1).tokens = B
      /\ k.updated > 0 /\ s <= B => Refilled(k, B, t).tokens = s
  <2>1. k.updated > 0 /\ s <= B => Refilled(k, B, t).tokens = s
    BY RefilledIs
  <2> DEFINE u == t + 1
  <2>2. n = k.tokens + (u - k.updated)
    BY <1>1
  <2> HIDE DEF u, n
  <2>3. /\ k.updated = 0 => Refilled(k, B, u).tokens = B
        /\ k.updated > 0 /\ n <= B => Refilled(k, B, u).tokens = n
        /\ k.updated > 0 /\ n > B => Refilled(k, B, u).tokens = B
    <3>1. u \in Nat \ {0} /\ Solvent(k, B, u)
      BY <1>2 DEF u
    <3> QED
      BY <2>2, <3>1, RefilledIs
  <2> QED
    BY <2>1, <2>3 DEF u
<1> DEFINE f == Refilled(k, B, t).tokens
           g == Refilled(k, B, t + 1).tokens
<1>6. \/ g = B
      \/ g = n /\ n <= B /\ f = s
  <2> HIDE DEF s, n
  <2> QED
    BY <1>1, <1>4, <1>5
<1>7. f \in Int /\ g \in Int /\ Debt(k, B, t) = -f /\ Debt(k, B, t + 1) = -g
  BY <1>3 DEF Debt
<1> HIDE DEF s, n, f, g
<1>8. -g <= B \/ -g <= -f - 1
  BY <1>4, <1>6, <1>7
<1> QED
  BY <1>2, <1>7, <1>8
---------------------------------------------------------------------------
(* What the invariant and the actions of the limiter say of its claims. *)

(* What is known of the claims that count. *)
LEMMA LiveFacts ==
  ASSUME TypeOK, Identified
  PROVE  /\ now \in Nat \ {0} /\ issued \in Nat
         /\ \A a \in Live : /\ a \in ClaimType /\ a.id \in 1..issued
                            /\ a.win.when <= a.until /\ a.due <= a.until
         /\ \A c \in Waiting : c \in Callers /\ claim[c] \in Live /\ claim[c] \notin gone
         /\ \A c \in Callers : state[c] = "waiting" => c \in Waiting
         /\ \A c \in Callers : state[c] = "sent" => claim[c] \in gone
         /\ IsFiniteSet(Live) /\ IsFiniteSet(gone) /\ IsFiniteSet(Sleeping)
         /\ Live = gone \cup Sleeping /\ gone \cap Sleeping = {}
<1>1. Live = gone \cup Sleeping
  BY DEF Live, Sleeping
<1>2. gone \in SUBSET Live /\ Sleeping \in SUBSET Live
  BY <1>1
<1>3. IsFiniteSet(gone) /\ IsFiniteSet(Sleeping)
  BY <1>2, FS_Subset DEF TypeOK
<1> QED
  BY <1>1, <1>3 DEF TypeOK, Identified, Waiting, Sleeping

(* A reservation is a claim: numbered next, due no earlier than now. *)
LEMMA ReservationIn ==
  ASSUME TypeOK, BucketsBalance, NEW r \in Requests, NEW a, a = Reservation(r)
  PROVE  /\ a \in ClaimType /\ a.req = r /\ a.id = issued + 1
         /\ a.win.when <= a.until /\ a.due <= a.until /\ a.due >= now
         /\ Match(r) # NoRule =>
              a.win = Claim(window[Match(r)], Rules[Match(r)].window, now)
         /\ BucketFor(r) # NoBucket =>
              a.due = SpendTime(bucket[BucketFor(r)], Burst(BucketFor(r)), CostOf(r), now)
         /\ BucketFor(r) = NoBucket => a.due = now
<1> DEFINE win == IF Match(r) = NoRule THEN NoWindowClaim
                  ELSE Claim(window[Match(r)], Rules[Match(r)].window, now)
           due == IF BucketFor(r) = NoBucket THEN now
                  ELSE SpendTime(bucket[BucketFor(r)], Burst(BucketFor(r)), CostOf(r), now)
<1>1. a = [req |-> r, id |-> issued + 1, win |-> win, due |-> due,
           until |-> Later(win.when, due)]
  BY DEF Reservation
<1>2. now \in Nat \ {0} /\ issued \in Nat
  BY DEF TypeOK
<1>3. win \in ReservationType
  <2>1. CASE Match(r) = NoRule
    <3>1. FreeSlot \in SlotType
      BY DEF FreeSlot, SlotType
    <3>2. NoWindowClaim \in ReservationType
      BY <3>1 DEF NoWindowClaim, ReservationType
    <3> QED
      BY <2>1, <3>2
  <2>2. CASE Match(r) # NoRule
    <3>1. Match(r) \in Rule /\ window[Match(r)] \in WindowType(Match(r))
      BY <2>2, MatchIn DEF TypeOK
    <3>2. Claim(window[Match(r)], Rules[Match(r)].window, now) \in ReservationType
      BY <1>2, <3>1, ClaimIn
    <3> QED
      BY <2>2, <3>2
  <2> QED
    BY <2>1, <2>2
<1>4. due \in Nat /\ due >= now
  <2>1. CASE BucketFor(r) = NoBucket
    BY <1>2, <2>1
  <2>2. CASE BucketFor(r) # NoBucket
    <3>1. BucketFor(r) \in Buckets
      BY <2>2, BucketIn
    <3>2. /\ bucket[BucketFor(r)] \in BucketType
          /\ Solvent(bucket[BucketFor(r)], Burst(BucketFor(r)), now)
      BY <3>1 DEF TypeOK, BucketsBalance
    <3>3. /\ SpendTime(bucket[BucketFor(r)], Burst(BucketFor(r)), CostOf(r), now) \in Nat
          /\ SpendTime(bucket[BucketFor(r)], Burst(BucketFor(r)), CostOf(r), now) >= now
      BY <1>2, <3>2, SpentIs, BurstIn, CostIn
    <3> QED
      BY <2>2, <3>3
  <2> QED
    BY <2>1, <2>2
<1> HIDE DEF win, due
<1>5. win.when \in Nat
  BY <1>3 DEF ReservationType
<1>6. /\ Later(win.when, due) \in Nat /\ Later(win.when, due) >= win.when
      /\ Later(win.when, due) >= due
  BY <1>4, <1>5 DEF Later
<1>7. a \in ClaimType
  BY <1>1, <1>2, <1>3, <1>4, <1>6 DEF ClaimType
<1>8. /\ a.req = r /\ a.id = issued + 1 /\ a.win = win /\ a.due = due
      /\ a.until = Later(win.when, due)
  BY <1>1
<1> QED
  BY <1>4, <1>6, <1>7, <1>8 DEF win, due

(* What Wait changes. *)
LEMMA WaitIs ==
  ASSUME TypeOK, Identified, NEW c \in Callers, NEW r \in Requests, Wait(c, r),
         NEW a, a = Reservation(r), a \in ClaimType, a.id = issued + 1
  PROVE  /\ a \notin Live /\ Live' = Live \cup {a} /\ IsFiniteSet(Live') /\ issued' = issued + 1
         /\ claim'[c] = a /\ \A d \in Callers : d # c => claim'[d] = claim[d]
         /\ \A d \in Callers : d # c => state'[d] = state[d]
         /\ DOMAIN claim' = Callers /\ state' \in [Callers -> {"idle", "waiting", "sent"}]
         /\ now' = now /\ told' = told
         /\ \/ /\ a.until <= now /\ state'[c] = "sent" /\ gone' = gone \cup {a}
               /\ Waiting' = Waiting /\ Sleeping' = Sleeping
            \/ /\ state'[c] = "waiting" /\ gone' = gone
               /\ Waiting' = Waiting \cup {c} /\ Sleeping' = Sleeping \cup {a}
<1>1. /\ state[c] = "idle" /\ issued' = issued + 1 /\ now' = now /\ told' = told
      /\ claim' = [claim EXCEPT ![c] = a]
      /\ \/ /\ a.until <= now /\ state' = [state EXCEPT ![c] = "sent"]
            /\ gone' = gone \cup {a}
         \/ state' = [state EXCEPT ![c] = "waiting"] /\ gone' = gone
  BY DEF Wait
<1>2. DOMAIN claim = Callers /\ state \in [Callers -> {"idle", "waiting", "sent"}]
  BY DEF TypeOK
<1>3. a \notin Live
  BY LiveFacts
<1>4. claim'[c] = a /\ DOMAIN claim' = Callers /\ \A d \in Callers : d # c => claim'[d] = claim[d]
  BY <1>1, <1>2
<1>5. /\ c \notin Waiting
      /\ \A d \in Callers : d # c => state'[d] = state[d]
      /\ state' \in [Callers -> {"idle", "waiting", "sent"}]
  BY <1>1, <1>2 DEF Waiting
<1>6. \A d \in Waiting : claim'[d] = claim[d]
  BY <1>4, <1>5 DEF Waiting
<1>7. ASSUME a.until <= now, state' = [state EXCEPT ![c] = "sent"], gone' = gone \cup {a}
      PROVE  state'[c] = "sent" /\ Waiting' = Waiting /\ Sleeping' = Sleeping
  <2>1. Waiting' = Waiting /\ state'[c] = "sent"
    BY <1>2, <1>5, <1>7 DEF Waiting
  <2>2. Sleeping' = Sleeping
    BY <1>6, <2>1, Zenon DEF Sleeping
  <2> QED
    BY <2>1, <2>2
<1>8. ASSUME state' = [state EXCEPT ![c] = "waiting"], gone' = gone
      PROVE  /\ state'[c] = "waiting" /\ Waiting' = Waiting \cup {c}
             /\ Sleeping' = Sleeping \cup {a}
  <2>1. Waiting' = Waiting \cup {c} /\ state'[c] = "waiting"
    BY <1>2, <1>5, <1>8 DEF Waiting
  <2>2. Sleeping' = {claim'[d] : d \in Waiting} \cup {a}
    BY <1>4, <2>1 DEF Sleeping
  <2>3. Sleeping' = Sleeping \cup {a}
    BY <1>6, <2>2 DEF Sleeping
  <2> QED
    BY <2>1, <2>3
<1>9. Live' = Live \cup {a}
  BY <1>1, <1>7, <1>8 DEF Live, Sleeping
<1>10. IsFiniteSet(Live')
  BY <1>9, FS_AddElement DEF TypeOK
<1> QED
  BY <1>1, <1>3, <1>4, <1>5, <1>7, <1>8, <1>9, <1>10

(* What the end of a wait changes: the claim no longer sleeps, and counts  *)
(* on when the wait returned nil.                                          *)
LEMMA WokenIs ==
  ASSUME TypeOK, Identified, NEW c \in Callers, state[c] = "waiting",
         NEW s \in {"idle", "sent"}, state' = [state EXCEPT ![c] = s],
         \A d \in Callers : d # c => claim'[d] = claim[d]
  PROVE  /\ claim[c] \in Sleeping /\ claim[c] \in ClaimType /\ claim[c] \notin gone
         /\ Sleeping' = Sleeping \ {claim[c]}
         /\ Waiting' = Waiting \ {c}
         /\ \A d \in Callers : d # c => state'[d] = state[d]
         /\ state'[c] = s /\ state' \in [Callers -> {"idle", "waiting", "sent"}]
<1>1. DOMAIN claim = Callers /\ state \in [Callers -> {"idle", "waiting", "sent"}]
  BY DEF TypeOK
<1>2. /\ state'[c] = s /\ \A d \in Callers : d # c => state'[d] = state[d]
      /\ state' \in [Callers -> {"idle", "waiting", "sent"}]
  BY <1>1
<1>3. Waiting' = Waiting \ {c} /\ c \in Waiting
  BY <1>1, <1>2 DEF Waiting
<1>4. \A d \in Waiting : claim[d] = claim[c] => d = c
  BY <1>3 DEF Identified
<1>5. Sleeping' = Sleeping \ {claim[c]}
  BY <1>3, <1>4 DEF Sleeping, Waiting
<1>6. claim[c] \in Sleeping /\ claim[c] \in ClaimType /\ claim[c] \notin gone
  BY <1>3, LiveFacts DEF Sleeping
<1> QED
  BY <1>2, <1>3, <1>5, <1>6

(* What an answer, or none, changes: nothing of what counts. *)
LEMMA AnsweredIs ==
  ASSUME TypeOK, Identified, NEW c \in Callers, state[c] = "sent",
         state' = [state EXCEPT ![c] = "idle"], claim' = [claim EXCEPT ![c] = NoClaim],
         gone' = gone
  PROVE  /\ Sleeping' = Sleeping /\ Waiting' = Waiting /\ Live' = Live
         /\ \A d \in Callers : d # c => state'[d] = state[d] /\ claim'[d] = claim[d]
         /\ state'[c] = "idle" /\ state' \in [Callers -> {"idle", "waiting", "sent"}]
         /\ DOMAIN claim' = Callers
<1>1. DOMAIN claim = Callers /\ state \in [Callers -> {"idle", "waiting", "sent"}]
  BY DEF TypeOK
<1>2. /\ state'[c] = "idle" /\ DOMAIN claim' = Callers
      /\ \A d \in Callers : d # c => state'[d] = state[d] /\ claim'[d] = claim[d]
      /\ state' \in [Callers -> {"idle", "waiting", "sent"}]
  BY <1>1
<1>3. Waiting' = Waiting /\ c \notin Waiting
  BY <1>2 DEF Waiting
<1>4. Sleeping' = Sleeping
  BY <1>2, <1>3 DEF Sleeping, Waiting
<1> QED
  BY <1>2, <1>3, <1>4 DEF Live, Sleeping
---------------------------------------------------------------------------
(* Claims stay identified. *)

(* A reservation has a number of its own. *)
LEMMA WaitIdentified ==
  ASSUME TypeOK, Identified, BucketsBalance, NEW c \in Callers, NEW r \in Requests, Wait(c, r)
  PROVE  Identified'
<1> DEFINE a == Reservation(r)
<1>1. /\ a \in ClaimType /\ a.id = issued + 1 /\ a.win.when <= a.until /\ a.due <= a.until
  BY ReservationIn
<1>2. /\ a \notin Live /\ Live' = Live \cup {a} /\ issued' = issued + 1
      /\ claim'[c] = a /\ \A d \in Callers : d # c => claim'[d] = claim[d]
      /\ \A d \in Callers : d # c => state'[d] = state[d]
      /\ now' = now
      /\ \/ /\ a.until <= now /\ state'[c] = "sent" /\ gone' = gone \cup {a}
            /\ Waiting' = Waiting /\ Sleeping' = Sleeping
         \/ /\ state'[c] = "waiting" /\ gone' = gone
            /\ Waiting' = Waiting \cup {c} /\ Sleeping' = Sleeping \cup {a}
  <2> HIDE DEF a
  <2> QED
    BY <1>1, WaitIs DEF a
<1> HIDE DEF a
<1>3. /\ now \in Nat \ {0} /\ issued \in Nat /\ gone \in SUBSET Live
      /\ \A x \in Live : /\ x.id \in 1..issued
                         /\ x.win.when <= x.until /\ x.due <= x.until
      /\ \A d \in Waiting : d \in Callers /\ claim[d] \in Live /\ claim[d] \notin gone
  BY LiveFacts
<1>4. \A x \in Live' : x.id \in 1..issued' /\ x.win.when <= x.until /\ x.due <= x.until
  BY <1>1, <1>2, <1>3
<1>5. \A x, y \in Live' : x.id = y.id => x = y
  <2>1. \A x, y \in Live : x.id = y.id => x = y
    BY DEF Identified
  <2>2. \A x \in Live : x.id # a.id
    BY <1>1, <1>3
  <2> QED
    BY <1>2, <2>1, <2>2
<1>6. \A d, e \in Waiting' : claim'[d] = claim'[e] => d = e
  <2>1. \A d, e \in Waiting : claim[d] = claim[e] => d = e
    BY DEF Identified
  <2>2. c \notin Waiting
    BY DEF Wait, Waiting
  <2> QED
    BY <1>2, <1>3, <2>1, <2>2
<1>7. \A d \in Callers : /\ state[d] = "waiting" => claim[d] \notin gone /\ claim[d] \in Live
                         /\ state[d] = "sent" => claim[d] \in gone
  BY LiveFacts
<1>8. \A d \in Callers : state'[d] = "waiting" => claim'[d] \notin gone'
  BY <1>2, <1>3, <1>7
<1>9. \A d \in Callers : state'[d] = "sent" => claim'[d] \in gone'
  BY <1>2, <1>7
<1>10. \A x \in gone' : x.until <= now'
  BY <1>2 DEF Identified
<1> QED
  BY <1>4, <1>5, <1>6, <1>8, <1>9, <1>10 DEF Identified

(* What the end of a wait changes. *)
LEMMA ProceedIs ==
  ASSUME TypeOK, Identified, NEW c \in Callers, Proceed(c)
  PROVE  /\ claim[c] \in Sleeping /\ claim[c] \in ClaimType /\ claim[c] \notin gone
         /\ claim[c].due <= now /\ claim[c].until <= now
         /\ Sleeping' = Sleeping \ {claim[c]} /\ Waiting' = Waiting \ {c}
         /\ gone' = gone \cup {claim[c]} /\ Live' = Live
         /\ \A d \in Callers : d # c => state'[d] = state[d]
         /\ state'[c] = "sent" /\ state' \in [Callers -> {"idle", "waiting", "sent"}]
         /\ now' = now /\ window' = window /\ bucket' = bucket /\ claim' = claim
         /\ issued' = issued /\ told' = told
<1>1. /\ state[c] = "waiting" /\ state' = [state EXCEPT ![c] = "sent"]
      /\ gone' = gone \cup {claim[c]} /\ claim' = claim
      /\ now' = now /\ window' = window /\ bucket' = bucket
      /\ issued' = issued /\ told' = told /\ claim[c].until <= now
  <2>1. now \in Nat /\ claim[c].until \in Nat
    BY LiveFacts DEF Proceed, ClaimType
  <2> QED
    BY <2>1 DEF Proceed, limiter
<1>2. /\ claim[c] \in Sleeping /\ claim[c] \in ClaimType /\ claim[c] \notin gone
      /\ Sleeping' = Sleeping \ {claim[c]} /\ Waiting' = Waiting \ {c}
      /\ \A d \in Callers : d # c => state'[d] = state[d]
      /\ state'[c] = "sent" /\ state' \in [Callers -> {"idle", "waiting", "sent"}]
  BY <1>1, WokenIs
<1>3. Live = gone \cup Sleeping /\ Live' = gone' \cup Sleeping'
  BY DEF Live, Sleeping
<1>4. Live' = Live
  BY <1>1, <1>2, <1>3
<1>5. claim[c].due <= now
  <2>1. claim[c].due <= claim[c].until /\ claim[c].due \in Nat /\ claim[c].until \in Nat
    BY <1>2, <1>3, LiveFacts DEF ClaimType
  <2>2. now \in Nat
    BY LiveFacts
  <2> QED
    BY <1>1, <2>1, <2>2
<1> QED
  BY <1>1, <1>2, <1>4, <1>5

(* A claim that went is slept on no longer. *)
LEMMA ProceedIdentified ==
  ASSUME TypeOK, Identified, NEW c \in Callers, Proceed(c)
  PROVE  Identified'
<1>1. \A d \in Waiting' : d \in Waiting /\ claim'[d] = claim[d]
  BY ProceedIs
<1>2. /\ \A x \in Live' : x.id \in 1..issued' /\ x.win.when <= x.until /\ x.due <= x.until
      /\ \A x, y \in Live' : x.id = y.id => x = y
      /\ \A d, e \in Waiting' : claim'[d] = claim'[e] => d = e
  BY <1>1, ProceedIs DEF Identified
<1>3. \A d \in Callers : state'[d] = "waiting" => claim'[d] \notin gone'
  <2> SUFFICES ASSUME NEW d \in Callers, state'[d] = "waiting"
               PROVE  claim'[d] \notin gone'
    OBVIOUS
  <2>1. d # c /\ state[d] = "waiting" /\ state[c] = "waiting"
    BY ProceedIs DEF Proceed
  <2>2. claim[d] # claim[c] /\ claim[d] \notin gone
    BY <2>1 DEF Identified, Waiting
  <2> QED
    BY <2>2, ProceedIs
<1>4. \A d \in Callers : state'[d] = "sent" => claim'[d] \in gone'
  BY ProceedIs DEF Identified
<1>5. \A x \in gone' : x.until <= now'
  BY ProceedIs DEF Identified
<1> QED
  BY <1>2, <1>3, <1>4, <1>5 DEF Identified

(* What giving up changes: its claim no longer counts. *)
LEMMA GiveUpIs ==
  ASSUME TypeOK, Identified, NEW c \in Callers, GiveUp(c)
  PROVE  /\ claim[c] \in Sleeping /\ claim[c] \in Live /\ claim[c] \in ClaimType
         /\ claim[c] \notin gone
         /\ Sleeping' = Sleeping \ {claim[c]} /\ Waiting' = Waiting \ {c}
         /\ Live' = Live \ {claim[c]}
         /\ \A d \in Callers : d # c => state'[d] = state[d] /\ claim'[d] = claim[d]
         /\ state'[c] = "idle" /\ state' \in [Callers -> {"idle", "waiting", "sent"}]
         /\ DOMAIN claim' = Callers
         /\ now' = now /\ issued' = issued /\ gone' = gone /\ told' = told
<1>1. /\ state[c] = "waiting" /\ state' = [state EXCEPT ![c] = "idle"]
      /\ claim' = [claim EXCEPT ![c] = NoClaim]
      /\ now' = now /\ issued' = issued /\ gone' = gone /\ told' = told
  BY DEF GiveUp, history
<1>2. DOMAIN claim = Callers
  BY DEF TypeOK
<1>3. DOMAIN claim' = Callers /\ \A d \in Callers : d # c => claim'[d] = claim[d]
  BY <1>1, <1>2
<1>4. /\ claim[c] \in Sleeping /\ claim[c] \in ClaimType /\ claim[c] \notin gone
      /\ Sleeping' = Sleeping \ {claim[c]} /\ Waiting' = Waiting \ {c}
      /\ \A d \in Callers : d # c => state'[d] = state[d]
      /\ state'[c] = "idle" /\ state' \in [Callers -> {"idle", "waiting", "sent"}]
  BY <1>1, <1>3, WokenIs
<1>5. Live = gone \cup Sleeping /\ Live' = gone' \cup Sleeping'
  BY DEF Live, Sleeping
<1> QED
  BY <1>1, <1>3, <1>4, <1>5

(* The claims that are left are still told apart. *)
LEMMA GiveUpIdentified ==
  ASSUME TypeOK, Identified, NEW c \in Callers, GiveUp(c)
  PROVE  Identified'
<1>1. \A d \in Waiting' : d \in Waiting /\ claim'[d] = claim[d]
  BY GiveUpIs DEF Waiting
<1>2. /\ \A x \in Live' : x.id \in 1..issued' /\ x.win.when <= x.until /\ x.due <= x.until
      /\ \A x, y \in Live' : x.id = y.id => x = y
      /\ \A d, e \in Waiting' : claim'[d] = claim'[e] => d = e
  BY <1>1, GiveUpIs DEF Identified
<1>3. \A d \in Callers : /\ state'[d] = "waiting" => claim'[d] \notin gone'
                         /\ state'[d] = "sent" => claim'[d] \in gone'
  BY GiveUpIs DEF Identified
<1>4. \A x \in gone' : x.until <= now'
  BY GiveUpIs DEF Identified
<1> QED
  BY <1>2, <1>3, <1>4 DEF Identified

(* An answer, or none, touches no claim that counts. *)
LEMMA AnsweredIdentified ==
  ASSUME TypeOK, Identified, NEW c \in Callers, state[c] = "sent",
         state' = [state EXCEPT ![c] = "idle"], claim' = [claim EXCEPT ![c] = NoClaim],
         gone' = gone, issued' = issued, now' = now
  PROVE  Identified'
<1>1. /\ Waiting' = Waiting /\ Live' = Live
      /\ \A d \in Callers : d # c => state'[d] = state[d] /\ claim'[d] = claim[d]
      /\ state'[c] = "idle"
  BY AnsweredIs
<1>2. \A d \in Waiting' : d \in Waiting /\ claim'[d] = claim[d]
  BY <1>1 DEF Waiting
<1>3. /\ \A x \in Live' : x.id \in 1..issued' /\ x.win.when <= x.until /\ x.due <= x.until
      /\ \A x, y \in Live' : x.id = y.id => x = y
      /\ \A d, e \in Waiting' : claim'[d] = claim'[e] => d = e
  BY <1>1, <1>2 DEF Identified
<1>4. \A d \in Callers : /\ state'[d] = "waiting" => claim'[d] \notin gone'
                         /\ state'[d] = "sent" => claim'[d] \in gone'
  BY <1>1 DEF Identified
<1>5. \A x \in gone' : x.until <= now'
  BY DEF Identified
<1> QED
  BY <1>3, <1>4, <1>5 DEF Identified

(* What went was due, and an instant later still is. *)
LEMMA TickIdentified ==
  ASSUME TypeOK, Identified, Tick
  PROVE  Identified' /\ Live' = Live /\ Sleeping' = Sleeping /\ Waiting' = Waiting
<1>1. /\ now' = now + 1 /\ state' = state /\ claim' = claim /\ gone' = gone
      /\ issued' = issued
  BY DEF Tick, history
<1>2. Waiting' = Waiting
  BY <1>1 DEF Waiting
<1>3. Live' = Live /\ Sleeping' = Sleeping
  BY <1>1, <1>2 DEF Live, Sleeping
<1>4. \A x \in gone' : x.until <= now'
  <2>1. \A x \in gone : x.until \in Nat /\ x.until <= now
    BY LiveFacts DEF Identified, ClaimType
  <2>2. now \in Nat
    BY DEF TypeOK
  <2> QED
    BY <1>1, <2>1, <2>2
<1>5. /\ \A x \in Live' : x.id \in 1..issued' /\ x.win.when <= x.until /\ x.due <= x.until
      /\ \A x, y \in Live' : x.id = y.id => x = y
      /\ \A c, d \in Waiting' : claim'[c] = claim'[d] => c = d
      /\ \A c \in Callers : /\ state'[c] = "waiting" => claim'[c] \notin gone'
                            /\ state'[c] = "sent" => claim'[c] \in gone'
  BY <1>1, <1>2, <1>3 DEF Identified
<1> QED
  BY <1>2, <1>3, <1>4, <1>5 DEF Identified
---------------------------------------------------------------------------
(* Windows go on remembering. *)

(* Every window has its slots, and remembers the claims on it. *)
WindowsOK ==
  /\ DOMAIN window = Rule
  /\ \A i \in Rule : /\ window[i] \in WindowType(i) /\ window[i].seq \in Nat
                     /\ window[i].seq <= issued
                     /\ Remembers(i, window[i], Of(i, Live))

(* What the invariant says of a window. *)
LEMMA WindowsFacts ==
  ASSUME TypeOK, WindowsRemember
  PROVE  WindowsOK
BY DEF TypeOK, WindowsRemember, WindowsOK, WindowType

(* It is enough to look at each window, and at the claims on it. *)
LEMMA WindowsStep ==
  ASSUME DOMAIN window' = Rule,
         \A i \in Rule : /\ window'[i] \in WindowType(i) /\ window'[i].seq <= issued'
                         /\ Remembers(i, window'[i], Of(i, Live'))
  PROVE  WindowsRemember'
BY DEF WindowsRemember

(* A reservation joins the window of its rule. *)
LEMMA WaitWindows ==
  ASSUME IInv, NEW c \in Callers, NEW r \in Requests, Wait(c, r)
  PROVE  /\ DOMAIN window' = Rule /\ \A i \in Rule : window'[i] \in WindowType(i)
         /\ WindowsRemember'
<1> DEFINE a == Reservation(r)
           m == Match(r)
<1>1. TypeOK /\ Identified /\ BucketsBalance /\ WindowsOK
  BY WindowsFacts DEF IInv
<1>2. /\ a \in ClaimType /\ a.id = issued + 1 /\ a.req = r
      /\ m # NoRule => a.win = Claim(window[m], Rules[m].window, now)
  BY <1>1, ReservationIn
<1>3. Live' = Live \cup {a} /\ issued' = issued + 1
  <2> HIDE DEF a
  <2> QED
    BY <1>1, <1>2, WaitIs DEF a
<1>4. /\ m = NoRule => window' = window
      /\ m # NoRule => window' = [window EXCEPT ![m] = Reserved(@, a.win)]
      /\ m \in Rule \cup {NoRule} /\ NoRule \notin Rule
  BY MatchIn, RuleFacts DEF Wait
<1>5. now \in Nat \ {0} /\ issued \in Nat /\ Live \in SUBSET ClaimType
  BY <1>1 DEF TypeOK
<1> HIDE DEF a, m
<1>6. DOMAIN window' = Rule
  BY <1>1, <1>4 DEF WindowsOK
<1>7. ASSUME NEW i \in Rule
      PROVE  /\ window'[i] \in WindowType(i) /\ window'[i].seq <= issued'
             /\ Remembers(i, window'[i], Of(i, Live'))
  <2>1. /\ window[i] \in WindowType(i) /\ window[i].seq <= issued /\ window[i].seq \in Nat
        /\ Remembers(i, window[i], Of(i, Live))
    BY <1>1 DEF WindowsOK
  <2>2. CASE i = m
    <3>1. window'[i] = Reserved(window[i], a.win)
      BY <1>1, <1>4, <2>2 DEF WindowsOK
    <3>2. Of(i, Live') = Of(i, Live) \cup {a}
      BY <1>2, <1>3, <2>2 DEF Of, m
    <3>3. Of(i, Live) \in SUBSET ClaimType
      BY <1>5 DEF Of
    <3>4. a.win = Claim(window[i], Rules[i].window, now)
      BY <1>2, <1>4, <2>2
    <3>5. /\ Reserved(window[i], a.win) \in WindowType(i)
          /\ Remembers(i, Reserved(window[i], a.win), Of(i, Live) \cup {a})
      BY <1>2, <1>5, <2>1, <3>3, <3>4, Reserving
    <3>6. Reserved(window[i], a.win).seq = window[i].seq + 1
      BY <1>5, <2>1, <3>4, ClaimIn DEF Reserved
    <3> QED
      BY SMTT(30), <1>3, <1>5, <2>1, <3>1, <3>2, <3>5, <3>6
  <2>3. CASE i # m
    <3>1. window'[i] = window[i]
      BY <1>1, <1>4, <2>3 DEF WindowsOK
    <3>2. Of(i, Live') = Of(i, Live)
      BY <1>2, <1>3, <2>3 DEF Of, m
    <3> QED
      BY <1>3, <1>5, <2>1, <3>1, <3>2
  <2> QED
    BY <2>2, <2>3
<1> QED
  BY <1>6, <1>7, WindowsStep

(* A claim leaves the window of its rule as if it had not been made. *)
LEMMA GiveUpWindows ==
  ASSUME IInv, NEW c \in Callers, GiveUp(c)
  PROVE  /\ DOMAIN window' = Rule /\ \A i \in Rule : window'[i] \in WindowType(i)
         /\ WindowsRemember'
<1> DEFINE a == claim[c]
           m == Match(claim[c].req)
<1>1. TypeOK /\ Identified /\ WindowsOK
  BY WindowsFacts DEF IInv
<1>2. a \in Live /\ a \in ClaimType /\ Live' = Live \ {a} /\ issued' = issued
  BY <1>1, GiveUpIs
<1>3. /\ m = NoRule => window' = window
      /\ m # NoRule => window' = [window EXCEPT ![m] = Released(@, a.win)]
  BY DEF GiveUp
<1>4. m \in Rule \cup {NoRule} /\ NoRule \notin Rule
  BY <1>2, MatchIn, RuleFacts DEF ClaimType
<1>5. Live \in SUBSET ClaimType
  BY <1>1 DEF TypeOK
<1>6. m = Match(a.req)
  OBVIOUS
<1> HIDE DEF a, m
<1>7. DOMAIN window' = Rule
  BY <1>1, <1>3 DEF WindowsOK
<1>8. ASSUME NEW i \in Rule
      PROVE  /\ window'[i] \in WindowType(i) /\ window'[i].seq <= issued'
             /\ Remembers(i, window'[i], Of(i, Live'))
  <2>1. /\ window[i] \in WindowType(i) /\ window[i].seq <= issued /\ window[i].seq \in Nat
        /\ Remembers(i, window[i], Of(i, Live))
    BY <1>1 DEF WindowsOK
  <2>2. CASE i = m
    <3>1. window'[i] = Released(window[i], a.win)
      BY <1>1, <1>3, <1>4, <2>2 DEF WindowsOK
    <3>2. Of(i, Live') = Of(i, Live) \ {a} /\ a \in Of(i, Live)
      BY <1>2, <1>6, <2>2 DEF Of
    <3>3. Of(i, Live) \in SUBSET ClaimType
      BY <1>5 DEF Of
    <3>4. /\ Released(window[i], a.win) \in WindowType(i)
          /\ Released(window[i], a.win).seq = window[i].seq
          /\ Remembers(i, Released(window[i], a.win), Of(i, Live) \ {a})
      BY <2>1, <3>2, <3>3, Releasing
    <3> QED
      BY <1>2, <2>1, <3>1, <3>2, <3>4
  <2>3. CASE i # m
    <3>1. window'[i] = window[i]
      BY <1>1, <1>3, <2>3 DEF WindowsOK
    <3>2. Of(i, Live') = Of(i, Live)
      BY <1>2, <1>6, <2>3 DEF Of
    <3> QED
      BY <1>2, <2>1, <3>1, <3>2
  <2> QED
    BY <2>2, <2>3
<1> QED
  BY <1>7, <1>8, WindowsStep

(* A refusal freezes the window, and forgets nothing. *)
LEMMA ObserveWindows ==
  ASSUME IInv, NEW c \in Callers, NEW h \in Responses, Observe(c, h)
  PROVE  /\ DOMAIN window' = Rule /\ \A i \in Rule : window'[i] \in WindowType(i)
         /\ WindowsRemember'
<1> DEFINE m == Match(claim[c].req)
<1>1. TypeOK /\ Identified /\ WindowsOK
  BY WindowsFacts DEF IInv
<1>2. /\ state[c] = "sent" /\ state' = [state EXCEPT ![c] = "idle"]
      /\ claim' = [claim EXCEPT ![c] = NoClaim] /\ gone' = gone /\ issued' = issued
      /\ \/ window' = window
         \/ m # NoRule /\ window' = [window EXCEPT ![m] = Frozen(@, RetryAfter(h))]
  BY DEF Observe
<1>3. Live' = Live
  BY <1>1, <1>2, AnsweredIs
<1>4. claim[c].req \in Requests
  <2>1. claim[c] \in gone
    BY <1>1, <1>2, LiveFacts
  <2> QED
    BY <1>1, <2>1, LiveFacts DEF ClaimType
<1>5. m \in Rule \cup {NoRule}
  BY <1>4, MatchIn
<1>6. RetryAfter(h) \in Nat
  <2>1. now \in Nat
    BY <1>1 DEF TypeOK
  <2> QED
    BY <2>1, RetryBounded
<1> HIDE DEF m
<1>7. DOMAIN window' = Rule
  BY <1>1, <1>2 DEF WindowsOK
<1>8. ASSUME NEW i \in Rule
      PROVE  /\ window'[i] \in WindowType(i) /\ window'[i].seq <= issued'
             /\ Remembers(i, window'[i], Of(i, Live'))
  <2>1. /\ window[i] \in WindowType(i) /\ window[i].seq <= issued
        /\ Remembers(i, window[i], Of(i, Live))
    BY <1>1 DEF WindowsOK
  <2>2. window'[i] = window[i] \/ window'[i] = Frozen(window[i], RetryAfter(h))
    BY <1>1, <1>2, <1>5 DEF WindowsOK
  <2>3. /\ Frozen(window[i], RetryAfter(h)) \in WindowType(i)
        /\ Frozen(window[i], RetryAfter(h)).seq = window[i].seq
        /\ Remembers(i, Frozen(window[i], RetryAfter(h)), Of(i, Live))
    BY <1>6, <2>1, Freezing
  <2>4. Remembers(i, window'[i], Of(i, Live))
    BY <2>1, <2>2, <2>3
  <2>5. window'[i] \in WindowType(i) /\ window'[i].seq <= issued
    BY <2>1, <2>2, <2>3
  <2> QED
    BY <1>2, <1>3, <2>4, <2>5
<1> QED
  BY <1>7, <1>8, WindowsStep

(* With the windows, the claims and their number, memory is unchanged. *)
LEMMA SameWindows ==
  ASSUME IInv, window' = window, Live' = Live, issued' = issued
  PROVE  /\ DOMAIN window' = Rule /\ \A i \in Rule : window'[i] \in WindowType(i)
         /\ WindowsRemember'
BY WindowsStep DEF IInv, TypeOK, WindowsRemember
---------------------------------------------------------------------------
(* Buckets go on balancing. *)

(* What the invariant says of a bucket. *)
LEMMA BucketsFacts ==
  ASSUME TypeOK, Identified, BucketsBalance, NEW b \in Buckets
  PROVE  /\ bucket[b] \in BucketType /\ Burst(b) \in Nat
         /\ Solvent(bucket[b], Burst(b), now)
         /\ Debt(bucket[b], Burst(b), now) \in Int
         /\ Repaid(Debt(bucket[b], Burst(b), now), Burst(b), now, Spending(b, Sleeping))
         /\ told[b].at = 0 => Covered(bucket[b], Burst(b), Spending(b, Live))
         /\ Spending(b, Live) \in SUBSET ClaimType /\ IsFiniteSet(Spending(b, Live))
         /\ Spending(b, Sleeping) \in SUBSET ClaimType /\ IsFiniteSet(Spending(b, Sleeping))
         /\ Spending(b, Sleeping) \in SUBSET Spending(b, Live)
         /\ \A x, y \in Live : x.id = y.id => x = y
<1>1. /\ bucket[b] \in BucketType /\ Burst(b) \in Nat /\ now \in Nat \ {0}
      /\ Solvent(bucket[b], Burst(b), now)
  BY BurstIn DEF TypeOK, BucketsBalance
<1>2. Debt(bucket[b], Burst(b), now) \in Int
  BY <1>1, RefundedIs
<1>3. Sleeping \in SUBSET Live /\ Live \in SUBSET ClaimType /\ IsFiniteSet(Live)
  BY LiveFacts
<1>4. /\ Spending(b, Live) \in SUBSET Live /\ Spending(b, Sleeping) \in SUBSET Live
      /\ Spending(b, Sleeping) \in SUBSET Spending(b, Live)
  BY <1>3 DEF Spending
<1>5. IsFiniteSet(Spending(b, Live)) /\ IsFiniteSet(Spending(b, Sleeping))
  BY <1>3, <1>4, FS_Subset
<1>6. /\ Repaid(Debt(bucket[b], Burst(b), now), Burst(b), now, Spending(b, Sleeping))
      /\ told[b].at = 0 => Covered(bucket[b], Burst(b), Spending(b, Live))
  BY DEF BucketsBalance, Owed
<1> QED
  BY <1>1, <1>2, <1>3, <1>4, <1>5, <1>6 DEF Identified

(* It is enough to look at each bucket, and at the claims that spend from it. *)
LEMMA BucketsStep ==
  ASSUME \A b \in Buckets :
           /\ Solvent(bucket'[b], Burst(b), now')
           /\ told'[b].at = 0 => Covered(bucket'[b], Burst(b), Spending(b, Live'))
           /\ Repaid(Debt(bucket'[b], Burst(b), now'), Burst(b), now', Spending(b, Sleeping'))
  PROVE  BucketsBalance'
BY DEF BucketsBalance, Owed

(* A reservation is spent from its bucket. *)
LEMMA WaitBuckets ==
  ASSUME IInv, NEW c \in Callers, NEW r \in Requests, Wait(c, r)
  PROVE  bucket' \in [Buckets -> BucketType] /\ BucketsBalance'
<1> DEFINE a == Reservation(r)
           m == BucketFor(r)
           cost == CostOf(r)
<1>1. TypeOK /\ Identified /\ BucketsBalance
  BY DEF IInv
<1>2. /\ a \in ClaimType /\ a.id = issued + 1 /\ a.req = r /\ a.due >= now /\ a.due <= a.until
      /\ m # NoBucket => a.due = SpendTime(bucket[m], Burst(m), cost, now)
  BY <1>1, ReservationIn
<1>3. /\ Live' = Live \cup {a} /\ now' = now /\ told' = told
      /\ \/ a.until <= now /\ Sleeping' = Sleeping
         \/ Sleeping' = Sleeping \cup {a}
  <2> HIDE DEF a
  <2> QED
    BY <1>1, <1>2, WaitIs DEF a
<1>4. /\ m = NoBucket => bucket' = bucket
      /\ m # NoBucket => bucket' = [bucket EXCEPT ![m] = Spent(@, Burst(m), cost, now)]
  BY DEF Wait
<1>5. m \in Buckets \cup {NoBucket} /\ m = BucketFor(a.req) /\ cost = CostOf(a.req) /\ cost \in Nat
  <2>1. a.req = r
    BY <1>2
  <2> HIDE DEF a
  <2> QED
    BY <2>1, BucketIn, CostIn
<1>6. /\ now \in Nat \ {0} /\ issued \in Nat /\ bucket \in [Buckets -> BucketType]
      /\ a.due \in Nat /\ a.until \in Nat /\ a.id \in Nat
      /\ \A x \in Live : x.id \in Nat /\ x.id <= issued
      /\ Sleeping \in SUBSET Live
  <2> HIDE DEF a
  <2>1. a.due \in Nat /\ a.until \in Nat /\ a.id \in Nat
    BY <1>2 DEF ClaimType
  <2> QED
    BY <1>1, <2>1, LiveFacts DEF TypeOK
<1> HIDE DEF a, m, cost
<1>7. ASSUME NEW b \in Buckets
      PROVE  /\ bucket'[b] \in BucketType
             /\ Solvent(bucket'[b], Burst(b), now')
             /\ told'[b].at = 0 => Covered(bucket'[b], Burst(b), Spending(b, Live'))
             /\ Repaid(Debt(bucket'[b], Burst(b), now'), Burst(b), now', Spending(b, Sleeping'))
  <2> DEFINE k == bucket[b]
             B == Burst(b)
             S == Spending(b, Live)
             Z == Spending(b, Sleeping)
  <2>1. /\ k \in BucketType /\ B \in Nat /\ Solvent(k, B, now) /\ Debt(k, B, now) \in Int
        /\ Repaid(Debt(k, B, now), B, now, Z)
        /\ told[b].at = 0 => Covered(k, B, S)
        /\ S \in SUBSET ClaimType /\ IsFiniteSet(S)
        /\ Z \in SUBSET ClaimType /\ IsFiniteSet(Z) /\ Z \in SUBSET S
    BY <1>1, BucketsFacts
  <2>2. CASE b = m
    <3> DEFINE v == Spent(k, B, cost, now)
    <3>1. bucket'[b] = v
      BY <1>4, <1>6, <2>2 DEF Buckets, NoBucket
    <3>2. a.due = SpendTime(k, B, cost, now)
      BY <1>2, <2>2 DEF Buckets, NoBucket
    <3>3. Spending(b, Live') = S \cup {a}
      BY <1>3, <1>5, <2>2 DEF Spending
    <3>4. Spending(b, Sleeping \cup {a}) = Z \cup {a}
      BY <1>5, <2>2 DEF Spending
    <3>5. \A x \in S : x.id < a.id
      BY <1>2, <1>6 DEF Spending
    <3> HIDE DEF k, B, S, Z, v
    <3>6. /\ v \in BucketType /\ Solvent(v, B, now) /\ Debt(v, B, now) \in Int
          /\ Debt(v, B, now) = Debt(k, B, now) + cost
          /\ Debt(v, B, now) <= a.due - now
      <4>1. /\ v \in BucketType /\ Solvent(v, B, now)
            /\ Debt(v, B, now) = Debt(k, B, now) + cost
            /\ Debt(v, B, now) <= SpendTime(k, B, cost, now) - now
        BY <1>5, <1>6, <2>1, SpentIs DEF v
      <4> QED
        BY <1>5, <2>1, <3>2, <4>1
    <3>7. told[b].at = 0 => Covered(v, B, S \cup {a})
      BY <1>2, <1>5, <1>6, <2>1, <3>2, <3>5, SpendingCovers DEF v
    <3>8. /\ Repaid(Debt(v, B, now), B, now, Z \cup {a})
          /\ a.due <= now => Repaid(Debt(v, B, now), B, now, Z)
      <4>1. \A x \in Z : x.id < a.id
        BY <2>1, <3>5
      <4>2. Debt(v, B, now) = Debt(k, B, now) + CostOf(a.req)
        BY <1>5, <3>6
      <4> QED
        BY <1>2, <1>6, <2>1, <3>6, <4>1, <4>2, SpendRepays
    <3>9. Repaid(Debt(v, B, now), B, now, Spending(b, Sleeping'))
      <4>1. CASE Sleeping' = Sleeping \cup {a}
        BY <3>4, <3>8, <4>1
      <4>2. CASE a.until <= now /\ Sleeping' = Sleeping
        <5>1. a.due <= now
          BY <1>2, <1>6, <4>2
        <5> QED
          BY <3>8, <4>2, <5>1 DEF Z
      <4> QED
        BY <1>3, <4>1, <4>2
    <3> QED
      BY <1>3, <3>1, <3>3, <3>6, <3>7, <3>9 DEF B
  <2>3. CASE b # m
    <3>1. bucket'[b] = k
      BY <1>4, <1>6, <2>3
    <3>2. Spending(b, Live') = S
      BY <1>3, <1>5, <2>3 DEF Spending
    <3>3. Spending(b, Sleeping') = Z
      BY <1>3, <1>5, <2>3 DEF Spending
    <3> QED
      BY <1>3, <2>1, <3>1, <3>2, <3>3
  <2> QED
    BY <2>2, <2>3
<1>8. bucket' \in [Buckets -> BucketType]
  <2>1. bucket' = [b \in Buckets |-> bucket'[b]]
    BY <1>4, <1>6
  <2> QED
    BY <1>7, <2>1
<1> QED
  BY <1>7, <1>8, BucketsStep

(* A claim that went still counts against what has refilled. *)
LEMMA ProceedBuckets ==
  ASSUME IInv, NEW c \in Callers, Proceed(c)
  PROVE  bucket' \in [Buckets -> BucketType] /\ BucketsBalance'
<1> DEFINE a == claim[c]
<1>1. TypeOK /\ Identified /\ BucketsBalance
  BY DEF IInv
<1>2. /\ a \in Sleeping /\ a.due <= now /\ Sleeping' = Sleeping \ {a} /\ Live' = Live
      /\ now' = now /\ bucket' = bucket /\ told' = told
  BY <1>1, ProceedIs
<1> HIDE DEF a
<1>3. ASSUME NEW b \in Buckets
      PROVE  /\ Solvent(bucket'[b], Burst(b), now')
             /\ told'[b].at = 0 => Covered(bucket'[b], Burst(b), Spending(b, Live'))
             /\ Repaid(Debt(bucket'[b], Burst(b), now'), Burst(b), now', Spending(b, Sleeping'))
  <2> DEFINE d == Debt(bucket[b], Burst(b), now)
             Z == Spending(b, Sleeping)
  <2>1. /\ Burst(b) \in Nat /\ Solvent(bucket[b], Burst(b), now) /\ d \in Int
        /\ Repaid(d, Burst(b), now, Z)
        /\ told[b].at = 0 => Covered(bucket[b], Burst(b), Spending(b, Live))
        /\ Z \in SUBSET ClaimType /\ IsFiniteSet(Z) /\ Z \in SUBSET Live
        /\ \A x, y \in Live : x.id = y.id => x = y
    BY <1>1, BucketsFacts DEF Spending
  <2>2. now \in Nat
    BY <1>1 DEF TypeOK
  <2>3. CASE a \in Z
    <3>1. Spending(b, Sleeping') = Z \ {a}
      BY <1>2 DEF Spending
    <3> HIDE DEF d, Z
    <3>2. Repaid(d, Burst(b), now, Z \ {a})
      BY <1>2, <2>1, <2>2, <2>3, GoRepays
    <3> QED
      BY <1>2, <2>1, <3>1, <3>2 DEF d
  <2>4. CASE a \notin Z
    <3>1. Spending(b, Sleeping') = Z
      BY <1>2, <2>4 DEF Spending
    <3> QED
      BY <1>2, <2>1, <3>1
  <2> QED
    BY <2>3, <2>4
<1> QED
  BY <1>1, <1>2, <1>3, BucketsStep DEF TypeOK

(* A claim given up is refunded. *)
LEMMA GiveUpBuckets ==
  ASSUME IInv, NEW c \in Callers, GiveUp(c)
  PROVE  bucket' \in [Buckets -> BucketType] /\ BucketsBalance'
<1> DEFINE a == claim[c]
           m == BucketFor(claim[c].req)
           cost == CostOf(claim[c].req)
<1>1. TypeOK /\ Identified /\ BucketsBalance
  BY DEF IInv
<1>2. /\ a \in Sleeping /\ a \in Live /\ a \in ClaimType
      /\ Live' = Live \ {a} /\ Sleeping' = Sleeping \ {a}
      /\ now' = now /\ told' = told
  BY <1>1, GiveUpIs
<1>3. /\ m = NoBucket => bucket' = bucket
      /\ m # NoBucket => bucket' = [bucket EXCEPT ![m] = Refunded(@, Burst(m), cost)]
  BY DEF GiveUp
<1>4. m = BucketFor(a.req) /\ cost = CostOf(a.req) /\ cost \in Nat /\ m \in Buckets \cup {NoBucket}
  BY <1>2, BucketIn, CostIn DEF ClaimType
<1>5. now \in Nat \ {0} /\ bucket \in [Buckets -> BucketType]
  BY <1>1 DEF TypeOK
<1> HIDE DEF a, m, cost
<1>6. ASSUME NEW b \in Buckets
      PROVE  /\ bucket'[b] \in BucketType
             /\ Solvent(bucket'[b], Burst(b), now')
             /\ told'[b].at = 0 => Covered(bucket'[b], Burst(b), Spending(b, Live'))
             /\ Repaid(Debt(bucket'[b], Burst(b), now'), Burst(b), now', Spending(b, Sleeping'))
  <2> DEFINE k == bucket[b]
             B == Burst(b)
             S == Spending(b, Live)
             Z == Spending(b, Sleeping)
  <2>1. /\ k \in BucketType /\ B \in Nat /\ Solvent(k, B, now) /\ Debt(k, B, now) \in Int
        /\ Repaid(Debt(k, B, now), B, now, Z)
        /\ told[b].at = 0 => Covered(k, B, S)
        /\ S \in SUBSET ClaimType /\ IsFiniteSet(S)
        /\ Z \in SUBSET ClaimType /\ IsFiniteSet(Z)
    BY <1>1, BucketsFacts
  <2>2. CASE b = m
    <3> DEFINE v == Refunded(k, B, cost)
    <3>1. bucket'[b] = v
      BY <1>3, <1>5, <2>2 DEF Buckets, NoBucket
    <3>2. Spending(b, Live') = S \ {a} /\ a \in S
      BY <1>2, <1>4, <2>2 DEF Spending
    <3>3. Spending(b, Sleeping') = Z \ {a} /\ a \in Z
      BY <1>2, <1>4, <2>2 DEF Spending
    <3> HIDE DEF k, B, S, Z, v
    <3>4. /\ v \in BucketType /\ Solvent(v, B, now) /\ Debt(v, B, now) \in Int
          /\ Debt(v, B, now) <= B \/ Debt(v, B, now) <= Debt(k, B, now) - cost
      BY <1>4, <1>5, <2>1, RefundedIs DEF v
    <3>5. told[b].at = 0 => Covered(v, B, S \ {a})
      BY <1>4, <2>1, <3>2, RefundCovers DEF v
    <3>6. Repaid(Debt(v, B, now), B, now, Z \ {a})
      BY <1>4, <1>5, <2>1, <3>3, <3>4, RefundRepays
    <3> QED
      BY <1>2, <3>1, <3>2, <3>3, <3>4, <3>5, <3>6 DEF B
  <2>3. CASE b # m
    <3>1. bucket'[b] = k
      BY <1>3, <1>5, <2>3
    <3>2. Spending(b, Live') = S
      BY <1>2, <1>4, <2>3 DEF Spending
    <3>3. Spending(b, Sleeping') = Z
      BY <1>2, <1>4, <2>3 DEF Spending
    <3> QED
      BY <1>2, <2>1, <3>1, <3>2, <3>3
  <2> QED
    BY <2>2, <2>3
<1>7. bucket' \in [Buckets -> BucketType]
  <2>1. bucket' = [b \in Buckets |-> bucket'[b]]
    BY <1>3, <1>5
  <2> QED
    BY <1>6, <2>1
<1> QED
  BY <1>6, <1>7, BucketsStep

(* What Observe leaves in a bucket: as it was or as adopted, and possibly  *)
(* held shut.                                                              *)
LEMMA ObservedIs ==
  ASSUME IInv, NEW r \in Requests, NEW h \in Responses, NEW b \in Buckets
  PROVE  /\ Observed(r, h)[b] \in BucketType
         /\ Solvent(Observed(r, h)[b], Burst(b), now)
         /\ \/ /\ Adopts(r, h) /\ b = BucketFor(r)
               /\ Debt(Observed(r, h)[b], Burst(b), now) \in Int
               /\ Debt(Observed(r, h)[b], Burst(b), now) <= Burst(b)
            \/ /\ Observed(r, h)[b].tokens = bucket[b].tokens
               /\ Observed(r, h)[b].updated = bucket[b].updated
               /\ Debt(Observed(r, h)[b], Burst(b), now) = Debt(bucket[b], Burst(b), now)
         /\ Observed(r, h) = [x \in Buckets |-> Observed(r, h)[x]]
<1> DEFINE m == BucketFor(r)
           n == TokenTicks * h.remaining.value
           first == IF Adopts(r, h)
                    THEN [bucket EXCEPT ![m] = Adopted(@, Burst(m), n, now)]
                    ELSE bucket
           last == Observed(r, h)
<1>1. /\ bucket \in [Buckets -> BucketType] /\ now \in Nat \ {0} /\ Burst(b) \in Nat
      /\ bucket[b] \in BucketType /\ Solvent(bucket[b], Burst(b), now)
  BY BurstIn DEF IInv, TypeOK, BucketsBalance
<1>2. m \in Buckets \cup {NoBucket} /\ (Adopts(r, h) => m # NoBucket) /\ NoBucket \notin Buckets
  BY BucketIn DEF Adopts, Buckets, NoBucket
<1>3. Adopts(r, h) => n \in Int
  <2>1. h.remaining \in Balance /\ TokenTicks \in Nat
    BY LimiterAssumption DEF ResponseType
  <2>2. Adopts(r, h) => h.remaining.value \in Int
    BY <2>1 DEF Adopts, Balance, Missing, Bad
  <2> QED
    BY <2>1, <2>2
<1>4. RetryAfter(h) \in Nat
  BY <1>1, RetryBounded
<1>5. \/ last = first
      \/ m # NoBucket /\ last = [first EXCEPT ![m] = HeldShut(@, RetryAfter(h))]
  BY DEF Observed
<1> HIDE DEF n, last
<1>6. DOMAIN first = Buckets /\ first = [x \in Buckets |-> first[x]]
  <2>1. bucket = [x \in Buckets |-> bucket[x]]
    BY <1>1
  <2>2. CASE Adopts(r, h)
    BY <1>1, <2>2
  <2>3. CASE ~ Adopts(r, h)
    BY <1>1, <2>1, <2>3
  <2> QED
    BY <2>2, <2>3
<1>7. /\ Adopts(r, h) /\ b = m => first[b] = Adopted(bucket[b], Burst(b), n, now)
      /\ ~ (Adopts(r, h) /\ b = m) => first[b] = bucket[b]
  BY <1>1, <1>2
<1> DEFINE v == first[b]
<1>8. /\ v \in BucketType /\ Solvent(v, Burst(b), now) /\ Debt(v, Burst(b), now) \in Int
      /\ \/ Adopts(r, h) /\ b = m /\ Debt(v, Burst(b), now) <= Burst(b)
         \/ v = bucket[b]
  <2>1. CASE Adopts(r, h) /\ b = m
    <3>1. v = Adopted(bucket[b], Burst(b), n, now) /\ n \in Int
      BY <1>3, <1>7, <2>1
    <3> HIDE DEF v
    <3> QED
      BY <1>1, <2>1, <3>1, AdoptedIs
  <2>2. CASE ~ (Adopts(r, h) /\ b = m)
    <3>1. v = bucket[b]
      BY <1>7, <2>2
    <3> HIDE DEF v
    <3> QED
      BY <1>1, <3>1, RefundedIs
  <2> QED
    BY <2>1, <2>2
<1> HIDE DEF first
<1>9. last[b] = v \/ last[b] = HeldShut(v, RetryAfter(h))
  BY <1>2, <1>5, <1>6
<1> HIDE DEF v
<1>10. /\ HeldShut(v, RetryAfter(h)) \in BucketType
       /\ Solvent(HeldShut(v, RetryAfter(h)), Burst(b), now)
       /\ HeldShut(v, RetryAfter(h)).tokens = v.tokens
       /\ HeldShut(v, RetryAfter(h)).updated = v.updated
       /\ Debt(HeldShut(v, RetryAfter(h)), Burst(b), now) = Debt(v, Burst(b), now)
  BY <1>1, <1>4, <1>8, HeldIs
<1>11. /\ last[b] \in BucketType /\ Solvent(last[b], Burst(b), now)
       /\ last[b].tokens = v.tokens /\ last[b].updated = v.updated
       /\ Debt(last[b], Burst(b), now) = Debt(v, Burst(b), now)
  BY <1>8, <1>9, <1>10
<1>12. last = [x \in Buckets |-> last[x]]
  BY <1>5, <1>6
<1>13. \/ /\ Adopts(r, h) /\ b = m
           /\ Debt(last[b], Burst(b), now) \in Int
           /\ Debt(last[b], Burst(b), now) <= Burst(b)
       \/ /\ last[b].tokens = bucket[b].tokens /\ last[b].updated = bucket[b].updated
          /\ Debt(last[b], Burst(b), now) = Debt(bucket[b], Burst(b), now)
  BY <1>8, <1>11
<1> QED
  BY <1>11, <1>12, <1>13, Zenon DEF last, m

(* A balance that is adopted starts the account anew. *)
LEMMA ObserveBuckets ==
  ASSUME IInv, NEW c \in Callers, NEW h \in Responses, Observe(c, h)
  PROVE  /\ bucket' \in [Buckets -> BucketType] /\ BucketsBalance'
         /\ told' \in [Buckets -> [tokens : Int, at : Nat]]
<1> DEFINE r == claim[c].req
<1>1. TypeOK /\ Identified /\ BucketsBalance
  BY DEF IInv
<1>2. /\ state[c] = "sent" /\ state' = [state EXCEPT ![c] = "idle"]
      /\ claim' = [claim EXCEPT ![c] = NoClaim] /\ gone' = gone /\ now' = now
      /\ bucket' = Observed(r, h)
      /\ ~ Adopts(r, h) => told' = told
      /\ Adopts(r, h) => told' = [told EXCEPT ![BucketFor(r)] =
                                    [tokens |-> TokenTicks * h.remaining.value, at |-> now]]
  BY DEF Observe
<1>3. Live' = Live /\ Sleeping' = Sleeping
  BY <1>1, <1>2, AnsweredIs
<1>4. r \in Requests
  <2>1. claim[c] \in gone
    BY <1>1, <1>2, LiveFacts
  <2> QED
    BY <1>1, <2>1, LiveFacts DEF ClaimType
<1>5. /\ now \in Nat \ {0} /\ told \in [Buckets -> [tokens : Int, at : Nat]]
      /\ BucketFor(r) \in Buckets \cup {NoBucket}
      /\ Adopts(r, h) => BucketFor(r) # NoBucket
  BY <1>1, BucketIn DEF TypeOK, Adopts
<1> HIDE DEF r
<1>6. ASSUME NEW b \in Buckets
      PROVE  /\ bucket'[b] \in BucketType
             /\ Solvent(bucket'[b], Burst(b), now')
             /\ told'[b].at = 0 => Covered(bucket'[b], Burst(b), Spending(b, Live'))
             /\ Repaid(Debt(bucket'[b], Burst(b), now'), Burst(b), now', Spending(b, Sleeping'))
  <2> DEFINE v == Observed(r, h)[b]
  <2>1. /\ Burst(b) \in Nat
        /\ Repaid(Debt(bucket[b], Burst(b), now), Burst(b), now, Spending(b, Sleeping))
        /\ told[b].at = 0 => Covered(bucket[b], Burst(b), Spending(b, Live))
        /\ Spending(b, Sleeping) \in SUBSET ClaimType /\ IsFiniteSet(Spending(b, Sleeping))
    BY <1>1, BucketsFacts
  <2>2. /\ v \in BucketType /\ Solvent(v, Burst(b), now)
        /\ \/ /\ Adopts(r, h) /\ b = BucketFor(r)
              /\ Debt(v, Burst(b), now) \in Int /\ Debt(v, Burst(b), now) <= Burst(b)
           \/ /\ v.tokens = bucket[b].tokens /\ v.updated = bucket[b].updated
              /\ Debt(v, Burst(b), now) = Debt(bucket[b], Burst(b), now)
    BY <1>4, ObservedIs
  <2>3. bucket'[b] = v
    BY <1>2
  <2> HIDE DEF v
  <2>4. CASE Adopts(r, h) /\ b = BucketFor(r)
    <3>1. told'[b].at = now
      BY <1>2, <1>5, <2>4
    <3>2. Repaid(Debt(v, Burst(b), now), Burst(b), now, Spending(b, Sleeping))
      <4>1. CASE Debt(v, Burst(b), now) \in Int /\ Debt(v, Burst(b), now) <= Burst(b)
        BY <1>5, <2>1, <4>1, NoDebtRepaid
      <4>2. CASE Debt(v, Burst(b), now) = Debt(bucket[b], Burst(b), now)
        BY <2>1, <4>2
      <4> QED
        BY <2>2, <4>1, <4>2
    <3> QED
      BY <1>2, <1>3, <1>5, <2>2, <2>3, <3>1, <3>2
  <2>5. CASE ~ (Adopts(r, h) /\ b = BucketFor(r))
    <3>1. told'[b] = told[b]
      BY <1>2, <1>5, <2>5
    <3>2. told[b].at = 0 => Covered(v, Burst(b), Spending(b, Live))
      BY <2>1, <2>2, <2>5 DEF Covered
    <3> QED
      BY <1>2, <1>3, <2>1, <2>2, <2>3, <2>5, <3>1, <3>2
  <2> QED
    BY <2>4, <2>5
<1>7. bucket' \in [Buckets -> BucketType]
  <2>1. Observed(r, h) = [x \in Buckets |-> Observed(r, h)[x]]
    <3>1. "order" \in Buckets
      BY DEF Buckets
    <3> QED
      BY <1>4, <3>1, ObservedIs
  <2> QED
    BY <1>2, <1>6, <2>1
<1>8. told' \in [Buckets -> [tokens : Int, at : Nat]]
  <2>1. Adopts(r, h) => TokenTicks * h.remaining.value \in Int
    <3>1. h.remaining \in Balance /\ TokenTicks \in Nat
      BY LimiterAssumption DEF ResponseType
    <3>2. Adopts(r, h) => h.remaining.value \in Int
      BY <3>1 DEF Adopts, Balance, Missing, Bad
    <3> QED
      BY <3>1, <3>2
  <2> QED
    BY <1>2, <1>5, <2>1
<1> QED
  BY <1>6, <1>7, <1>8, BucketsStep

(* An instant refills each bucket and brings each claim nearer. *)
LEMMA TickBuckets ==
  ASSUME IInv, Tick
  PROVE  bucket' \in [Buckets -> BucketType] /\ BucketsBalance'
<1>1. TypeOK /\ Identified /\ BucketsBalance
  BY DEF IInv
<1>2. /\ Live' = Live /\ Sleeping' = Sleeping /\ now' = now + 1
      /\ bucket' = bucket /\ told' = told
  BY <1>1, TickIdentified DEF Tick, limiter, history
<1>3. ASSUME NEW b \in Buckets
      PROVE  /\ Solvent(bucket'[b], Burst(b), now')
             /\ told'[b].at = 0 => Covered(bucket'[b], Burst(b), Spending(b, Live'))
             /\ Repaid(Debt(bucket'[b], Burst(b), now'), Burst(b), now', Spending(b, Sleeping'))
  <2> DEFINE k == bucket[b]
             B == Burst(b)
             Z == Spending(b, Sleeping)
  <2>1. /\ k \in BucketType /\ B \in Nat /\ Solvent(k, B, now) /\ Debt(k, B, now) \in Int
        /\ Repaid(Debt(k, B, now), B, now, Z)
        /\ told[b].at = 0 => Covered(k, B, Spending(b, Live))
        /\ Z \in SUBSET ClaimType /\ IsFiniteSet(Z)
    BY <1>1, BucketsFacts
  <2>2. now \in Nat \ {0}
    BY <1>1 DEF TypeOK
  <2> HIDE DEF k, B, Z
  <2>3. /\ Solvent(k, B, now + 1) /\ Debt(k, B, now + 1) \in Int
        /\ Debt(k, B, now + 1) <= B \/ Debt(k, B, now + 1) <= Debt(k, B, now) - 1
    BY <2>1, <2>2, TickedIs
  <2>4. Repaid(Debt(k, B, now + 1), B, now + 1, Z)
    BY <2>1, <2>2, <2>3, TickRepays
  <2> QED
    BY <1>2, <2>1, <2>3, <2>4 DEF k, B, Z
<1> QED
  BY <1>1, <1>2, <1>3, BucketsStep DEF TypeOK

(* With the buckets, the clock and the claims, the account is unchanged. *)
LEMMA SameBuckets ==
  ASSUME IInv, bucket' = bucket, now' = now, told' = told, Live' = Live, Sleeping' = Sleeping
  PROVE  bucket' \in [Buckets -> BucketType] /\ BucketsBalance'
BY BucketsStep DEF IInv, TypeOK, BucketsBalance, Owed
---------------------------------------------------------------------------
(* The limiter's invariant. *)

(* newSlidingWindow: free slots, at least one. *)
LEMMA NewWindowIn ==
  ASSUME NEW i \in Rule, NEW w, w = NewWindow(Rules[i].requests)
  PROVE  w \in WindowType(i) /\ w.seq = 0 /\ Remembers(i, w, {})
<1>1. FreeSlot \in SlotType /\ FreeSlot.seq = 0 /\ FreeSlot.when = 0
  BY DEF FreeSlot, SlotType
<1>2. w = [slots |-> [k \in Slots(i) |-> FreeSlot], seq |-> 0, frozenTill |-> 0]
  BY DEF NewWindow, Slots
<1>3. [k \in Slots(i) |-> FreeSlot] \in [Slots(i) -> SlotType]
  BY <1>1
<1>4. w \in WindowType(i) /\ w.seq = 0 /\ \A k \in Slots(i) : w.slots[k] = FreeSlot
  BY <1>2, <1>3 DEF WindowType
<1>5. \A k \in Slots(i) : Proper(w, w.slots[k])
  BY <1>1, <1>4 DEF Proper
<1> QED
  BY <1>4, <1>5 DEF Remembers

(* A bucket starts full, and its clock has not. *)
LEMMA NewBucketIn ==
  ASSUME NEW B \in Nat, NEW k, k = NewBucket(B)
  PROVE  /\ k \in BucketType /\ Solvent(k, B, 1) /\ Covered(k, B, {})
         /\ Repaid(Debt(k, B, 1), B, 1, {})
<1>1. k \in BucketType /\ k.tokens = B /\ k.updated = 0
  BY DEF NewBucket, BucketType
<1>2. Solvent(k, B, 1)
  BY <1>1 DEF Solvent
<1>3. Covered(k, B, {})
  <2>1. Greatest(k.updated - 1, 0) = 0
    BY <1>1 DEF Greatest
  <2> QED
    BY <1>1, <2>1, CostEmpty DEF Covered
<1>4. Refilled(k, B, 1).tokens = B
  BY <1>1, <1>2, RefilledIs
<1>5. Debt(k, B, 1) \in Int /\ Debt(k, B, 1) <= B
  BY <1>4 DEF Debt
<1>6. IsFiniteSet({})
  BY FS_EmptySet
<1>7. Repaid(Debt(k, B, 1), B, 1, {})
  BY <1>5, <1>6, NoDebtRepaid
<1> QED
  BY <1>1, <1>2, <1>3, <1>7

(* The limiter starts with free slots, full buckets and no claims. *)
LEMMA InitOK == Init => IInv
<1> SUFFICES ASSUME Init
             PROVE  IInv
  OBVIOUS
<1>1. Waiting = {} /\ Live = {} /\ Sleeping = {}
  BY DEF Init, Waiting, Live, Sleeping
<1>2. \A i \in Rule : /\ window[i] \in WindowType(i) /\ window[i].seq = 0
                      /\ Remembers(i, window[i], {})
  BY NewWindowIn DEF Init
<1>3. \A b \in Buckets : /\ bucket[b] \in BucketType /\ Solvent(bucket[b], Burst(b), 1)
                         /\ Covered(bucket[b], Burst(b), {})
                         /\ Repaid(Debt(bucket[b], Burst(b), 1), Burst(b), 1, {})
  BY NewBucketIn, BurstIn DEF Init, Buckets
<1>4. TypeOK
  <2>1. bucket \in [Buckets -> BucketType]
    BY <1>3 DEF Init, Buckets
  <2>2. told \in [Buckets -> [tokens : Int, at : Nat]]
    BY DEF Init, Buckets
  <2>3. IsFiniteSet(Live)
    BY <1>1, FS_EmptySet
  <2> QED
    BY <1>1, <1>2, <2>1, <2>2, <2>3 DEF Init, TypeOK
<1>5. Identified
  BY <1>1 DEF Init, Identified
<1>6. WindowsRemember
  <2>1. \A i \in Rule : Of(i, Live) = {}
    BY <1>1 DEF Of
  <2>2. issued = 0
    BY DEF Init
  <2> QED
    BY <1>2, <2>1, <2>2 DEF WindowsRemember
<1>7. BucketsBalance
  <2>1. \A b \in Buckets : Spending(b, Live) = {} /\ Spending(b, Sleeping) = {}
    BY <1>1 DEF Spending
  <2>2. now = 1
    BY DEF Init
  <2> QED
    BY <1>3, <2>1, <2>2 DEF BucketsBalance, Owed
<1> QED
  BY <1>4, <1>5, <1>6, <1>7 DEF IInv

(* The rest of the type invariant, given the windows and the buckets. *)
LEMMA TypeStep ==
  ASSUME now' \in Nat \ {0}, issued' \in Nat,
         DOMAIN window' = Rule, \A i \in Rule : window'[i] \in WindowType(i),
         bucket' \in [Buckets -> BucketType],
         state' \in [Callers -> {"idle", "waiting", "sent"}], DOMAIN claim' = Callers,
         IsFiniteSet(Live'), Live' \in SUBSET ClaimType,
         told' \in [Buckets -> [tokens : Int, at : Nat]]
  PROVE  TypeOK'
BY DEF TypeOK

(* A call of Wait keeps the invariant. *)
LEMMA WaitOK ==
  ASSUME IInv, NEW c \in Callers, NEW r \in Requests, Wait(c, r)
  PROVE  IInv'
<1> DEFINE a == Reservation(r)
<1>1. TypeOK /\ Identified /\ BucketsBalance
  BY DEF IInv
<1>2. a \in ClaimType /\ a.id = issued + 1
  BY <1>1, ReservationIn
<1>3. /\ Live' = Live \cup {a} /\ IsFiniteSet(Live') /\ issued' = issued + 1
      /\ DOMAIN claim' = Callers /\ state' \in [Callers -> {"idle", "waiting", "sent"}]
      /\ now' = now /\ told' = told
  <2> HIDE DEF a
  <2> QED
    BY <1>1, <1>2, WaitIs DEF a
<1> HIDE DEF a
<1>4. TypeOK'
  BY <1>1, <1>2, <1>3, WaitWindows, WaitBuckets, TypeStep DEF TypeOK
<1> QED
  BY <1>1, <1>4, WaitIdentified, WaitWindows, WaitBuckets DEF IInv

(* The end of a wait keeps it. *)
LEMMA ProceedOK ==
  ASSUME IInv, NEW c \in Callers, Proceed(c)
  PROVE  IInv'
<1>1. TypeOK /\ Identified
  BY DEF IInv
<1>2. /\ DOMAIN window' = Rule /\ \A i \in Rule : window'[i] \in WindowType(i)
      /\ WindowsRemember'
  BY <1>1, ProceedIs, SameWindows
<1>3. TypeOK'
  BY <1>1, <1>2, ProceedIs, ProceedBuckets, TypeStep DEF TypeOK
<1> QED
  BY <1>1, <1>2, <1>3, ProceedIdentified, ProceedBuckets DEF IInv

(* Giving up keeps it. *)
LEMMA GiveUpOK ==
  ASSUME IInv, NEW c \in Callers, GiveUp(c)
  PROVE  IInv'
<1>1. TypeOK /\ Identified
  BY DEF IInv
<1>2. IsFiniteSet(Live') /\ Live' \in SUBSET ClaimType
  <2>1. Live' \in SUBSET Live
    BY <1>1, GiveUpIs
  <2> QED
    BY <1>1, <2>1, FS_Subset DEF TypeOK
<1>3. TypeOK'
  BY <1>1, <1>2, GiveUpIs, GiveUpWindows, GiveUpBuckets, TypeStep DEF TypeOK
<1> QED
  BY <1>1, <1>3, GiveUpIdentified, GiveUpWindows, GiveUpBuckets DEF IInv

(* An answer keeps it. *)
LEMMA ObserveOK ==
  ASSUME IInv, NEW c \in Callers, NEW h \in Responses, Observe(c, h)
  PROVE  IInv'
<1>1. TypeOK /\ Identified
  BY DEF IInv
<1>2. /\ state[c] = "sent" /\ state' = [state EXCEPT ![c] = "idle"]
      /\ claim' = [claim EXCEPT ![c] = NoClaim] /\ gone' = gone
      /\ now' = now /\ issued' = issued
  BY DEF Observe
<1>3. TypeOK'
  BY <1>1, <1>2, AnsweredIs, ObserveWindows, ObserveBuckets, TypeStep DEF TypeOK
<1>4. Identified'
  BY <1>1, <1>2, AnsweredIdentified
<1> QED
  BY <1>3, <1>4, ObserveWindows, ObserveBuckets DEF IInv

(* A request without an answer keeps it. *)
LEMMA UnansweredOK ==
  ASSUME IInv, NEW c \in Callers, Unanswered(c)
  PROVE  IInv'
<1>1. TypeOK /\ Identified
  BY DEF IInv
<1>2. /\ state[c] = "sent" /\ state' = [state EXCEPT ![c] = "idle"]
      /\ claim' = [claim EXCEPT ![c] = NoClaim] /\ gone' = gone
      /\ now' = now /\ issued' = issued /\ told' = told
      /\ window' = window /\ bucket' = bucket
  BY DEF Unanswered, limiter, history
<1>3. /\ DOMAIN window' = Rule /\ \A i \in Rule : window'[i] \in WindowType(i)
      /\ WindowsRemember'
  BY <1>1, <1>2, AnsweredIs, SameWindows
<1>4. bucket' \in [Buckets -> BucketType] /\ BucketsBalance'
  BY <1>1, <1>2, AnsweredIs, SameBuckets
<1>5. TypeOK'
  BY <1>1, <1>2, <1>3, <1>4, AnsweredIs, TypeStep DEF TypeOK
<1>6. Identified'
  BY <1>1, <1>2, AnsweredIdentified
<1> QED
  BY <1>3, <1>4, <1>5, <1>6 DEF IInv

(* The clock keeps it. *)
LEMMA TickOK ==
  ASSUME IInv, Tick
  PROVE  IInv'
<1>1. TypeOK /\ Identified
  BY DEF IInv
<1>2. /\ now' = now + 1 /\ window' = window /\ bucket' = bucket /\ state' = state
      /\ claim' = claim /\ issued' = issued /\ told' = told
  BY DEF Tick, limiter, history
<1>3. Identified' /\ Live' = Live
  BY <1>1, TickIdentified
<1>4. /\ DOMAIN window' = Rule /\ \A i \in Rule : window'[i] \in WindowType(i)
      /\ WindowsRemember'
  BY <1>2, <1>3, SameWindows
<1>5. now' \in Nat \ {0}
  BY <1>1, <1>2 DEF TypeOK
<1>6. TypeOK'
  BY <1>1, <1>2, <1>3, <1>4, <1>5, TickBuckets, TypeStep DEF TypeOK
<1> QED
  BY <1>3, <1>4, <1>6, TickBuckets DEF IInv

(* Doing nothing keeps it. *)
LEMMA StutterOK ==
  ASSUME IInv, UNCHANGED vars
  PROVE  IInv'
<1>1. /\ now' = now /\ window' = window /\ bucket' = bucket /\ state' = state
      /\ claim' = claim /\ issued' = issued /\ told' = told /\ gone' = gone
  BY DEF vars, limiter, history
<1>2. Waiting' = Waiting /\ Live' = Live /\ Sleeping' = Sleeping
  BY <1>1 DEF Waiting, Live, Sleeping
<1>3. TypeOK /\ Identified
  BY DEF IInv
<1>4. TypeOK'
  BY <1>1, <1>2, <1>3 DEF TypeOK
<1>5. Identified'
  BY <1>1, <1>2, <1>3 DEF Identified
<1>6. WindowsRemember'
  BY <1>1, <1>2, SameWindows
<1>7. BucketsBalance'
  BY <1>1, <1>2, SameBuckets
<1> QED
  BY <1>4, <1>5, <1>6, <1>7 DEF IInv

(* Every step keeps the invariant. *)
LEMMA StepOK == IInv /\ [Next]_vars => IInv'
<1> SUFFICES ASSUME IInv, [Next]_vars
             PROVE  IInv'
  OBVIOUS
<1>1. ASSUME NEW c \in Callers, NEW r \in Requests, Wait(c, r)
      PROVE  IInv'
  BY <1>1, WaitOK
<1>2. ASSUME NEW c \in Callers, Proceed(c)
      PROVE  IInv'
  BY <1>2, ProceedOK
<1>3. ASSUME NEW c \in Callers, GiveUp(c)
      PROVE  IInv'
  BY <1>3, GiveUpOK
<1>4. ASSUME NEW c \in Callers, NEW h \in Responses, Observe(c, h)
      PROVE  IInv'
  BY <1>4, ObserveOK
<1>5. ASSUME NEW c \in Callers, Unanswered(c)
      PROVE  IInv'
  BY <1>5, UnansweredOK
<1>6. CASE Tick
  BY <1>6, TickOK
<1>7. CASE UNCHANGED vars
  BY <1>7, StutterOK
<1> QED
  BY <1>1, <1>2, <1>3, <1>4, <1>5, <1>6, <1>7 DEF Next

(* The inductive invariant holds of every run of the limiter, whatever its *)
(* rules, tier, callers, requests and the exchange's answers: claims are   *)
(* told apart, every window remembers the claims that count, and every     *)
(* bucket balances.                                                        *)
THEOREM LimiterInvariant == Spec => []IInv
<1>1. Init => IInv
  BY InitOK
<1>2. IInv /\ [Next]_vars => IInv'
  BY StepOK
<1> QED
  BY <1>1, <1>2, PTL DEF Spec
---------------------------------------------------------------------------
(* What follows from it. *)

(* Of the claims within a window there is one per slot. *)
LEMMA PacedByWindows == IInv => EndpointPaced
<1> SUFFICES ASSUME IInv, NEW i \in Rule, NEW t \in 0..MaxTime
             PROVE  Cardinality({a \in Live : /\ Governs(i, a.req) /\ t <= a.win.when
                                              /\ a.win.when < t + Rules[i].window})
                      <= Later(Rules[i].requests, 1)
  BY DEF EndpointPaced
<1> DEFINE L == Of(i, Live)
           P == {a \in L : t <= a.win.when /\ a.win.when < t + Rules[i].window}
           Q == {a \in Live : /\ Governs(i, a.req) /\ t <= a.win.when
                              /\ a.win.when < t + Rules[i].window}
           n == Later(Rules[i].requests, 1)
<1>1. window[i] \in WindowType(i) /\ Remembers(i, window[i], L) /\ Live \in SUBSET ClaimType
  BY DEF IInv, TypeOK, WindowsRemember
<1>2. L \in SUBSET ClaimType
  BY <1>1 DEF Of
<1>3. t \in Nat
  BY LimiterAssumption
<1>4. IsFiniteSet(P) /\ Cardinality(P) <= n
  <2> HIDE DEF L
  <2> QED
    BY <1>1, <1>2, <1>3, OnePerSlot
<1>5. Q \in SUBSET P
  <2>1. \A a \in Q : a.req \in Requests
    BY <1>1 DEF ClaimType
  <2>2. \A a \in Q : Match(a.req) = i
    BY <2>1, GovernsMatch
  <2> QED
    BY <2>2 DEF Of
<1>6. n \in Nat
  BY SlotsOf
<1> HIDE DEF P, Q, n
<1>7. Cardinality(Q) <= Cardinality(P) /\ Cardinality(Q) \in Nat /\ Cardinality(P) \in Nat
  BY <1>4, <1>5, FS_Subset, FS_CardinalityType
<1>8. Cardinality(Q) <= n
  BY <1>4, <1>6, <1>7
<1> QED
  BY <1>8 DEF Q, n

(* EndpointPaced: in any period as long as a rule's window, no more of the *)
(* requests that rule governs are sent than its limit, whatever less       *)
(* specific rules match them, however waits, refunds and refusals are      *)
(* interleaved (match, reserve, release).                                  *)
THEOREM EndpointsPaced == Spec => []EndpointPaced
BY LimiterInvariant, PacedByWindows, PTL

(* The bucket's own account *)

(* The last to go was due when all that went had refilled. *)
LEMMA CoveredByRefill == IInv => LongRunPaced
<1> SUFFICES ASSUME IInv, NEW b \in Buckets, told[b].at = 0
             PROVE  Cost(Spending(b, gone)) <= Burst(b) + (now - 1)
  BY DEF LongRunPaced
<1> DEFINE G == Spending(b, gone)
           S == Spending(b, Live)
           ids == {a.id : a \in G}
<1>1. TypeOK /\ Identified /\ BucketsBalance
  BY DEF IInv
<1>2. /\ Burst(b) \in Nat /\ Covered(bucket[b], Burst(b), S)
      /\ S \in SUBSET ClaimType /\ IsFiniteSet(S)
  BY <1>1, BucketsFacts
<1>3. /\ now \in Nat \ {0} /\ issued \in Nat /\ gone \in SUBSET Live
      /\ \A a \in Live : a.id \in 1..issued /\ a.due <= a.until /\ a \in ClaimType
      /\ \A a \in gone : a.until <= now
  BY <1>1, LiveFacts DEF Identified
<1>4. G \in SUBSET S /\ G \in SUBSET gone
  BY <1>3 DEF Spending
<1>5. CASE G = {}
  <2>1. Cost(G) = 0
    BY <1>5, CostEmpty
  <2> QED
    BY <1>2, <1>3, <2>1
<1>6. CASE G # {}
  <2>1. ids \in SUBSET Nat /\ ids # {} /\ \A n \in ids : n <= issued
    BY <1>3, <1>4, <1>6
  <2>2. PICK m \in ids : \A n \in ids : n <= m
    <3> HIDE DEF ids
    <3> QED
      BY <1>3, <2>1, GreatestExists
  <2>3. PICK a \in G : a.id = m
    OBVIOUS
  <2>4. G \in SUBSET UpTo(a, S) /\ UpTo(a, S) \in SUBSET S
    BY <1>4, <2>2, <2>3 DEF UpTo
  <2>5. a \in S /\ a \in gone
    BY <1>4
  <2> HIDE DEF G, S, ids
  <2>6. Cost(UpTo(a, S)) <= Burst(b) + a.due - 1
    BY <1>2, <2>5 DEF Covered
  <2>7. /\ Cost(UpTo(a, S)) \in Nat /\ IsFiniteSet(UpTo(a, S))
        /\ UpTo(a, S) \in SUBSET ClaimType
    BY <1>2, <2>4, CostSubset
  <2>8. Cost(G) <= Cost(UpTo(a, S)) /\ Cost(G) \in Nat
    BY <2>4, <2>7, CostSubset
  <2>9. a.due \in Nat /\ a.until \in Nat /\ a.due <= a.until /\ a.until <= now
    BY <1>3, <2>5 DEF ClaimType
  <2>10. Cost(G) <= Burst(b) + (now - 1)
    BY <1>2, <1>3, <2>6, <2>7, <2>8, <2>9
  <2> QED
    BY <2>10 DEF G
<1> QED
  BY <1>5, <1>6

(* LongRunPaced: until the exchange corrects a balance, what was sent from *)
(* a bucket is covered by one burst and what has refilled since, however   *)
(* many callers queue, give up and are frozen in between                   *)
(* (tokenBucketState.spend and refund).                                    *)
THEOREM LongRun == Spec => []LongRunPaced
BY LimiterInvariant, CoveredByRefill, PTL

(* A bucket's believable balance is part of its account. *)
LEMMA BalanceOfBuckets == IInv => BalanceBelievable
BY DEF IInv, BucketsBalance, Solvent, Repaid, Sleeping, BalanceBelievable

(* BalanceBelievable: whatever balance a header names and whatever is      *)
(* refunded on top, a bucket holds at most its burst, and a new request    *)
(* waits for at most one burst and the requests already waiting in it      *)
(* (tokenBucketState.adopt).                                               *)
THEOREM Believable == Spec => []BalanceBelievable
BY LimiterInvariant, BalanceOfBuckets, PTL
---------------------------------------------------------------------------
(* Each window is a WindowWait. *)

(* The operators of SlidingWindow are the same seen through an instance. *)
LEMMA SameLater == \A i, x, y : Windows(i)!Later(x, y) = Later(x, y)
BY DEF Windows!Later, Later

(* ... and so is the slot a claim takes, *)
LEMMA SameSlot ==
  ASSUME NEW i, NEW slots
  PROVE  Windows(i)!SlotFor(slots) = SlotFor(slots)
<1>1. Windows(i)!Oldest(slots) = Oldest(slots)
  BY Zenon DEF Windows!Oldest, Oldest
<1> QED
  BY <1>1, Zenon DEF Windows!SlotFor, SlotFor

(* ... the claim itself, *)
LEMMA SameClaim ==
  ASSUME NEW i, NEW w, NEW length, NEW t
  PROVE  Windows(i)!Claim(w, length, t) = Claim(w, length, t)
<1>1. \A k : Windows(i)!ClaimTime(w, k, length, t) = ClaimTime(w, k, length, t)
  BY SameLater, Zenon DEF Windows!ClaimTime, ClaimTime
<1> QED
  BY <1>1, SameSlot, Zenon DEF Windows!Claim, Claim

(* ... what it does to the window, *)
LEMMA SameWindow ==
  ASSUME NEW i, NEW w, NEW x
  PROVE  /\ Windows(i)!Reserved(w, x) = Reserved(w, x)
         /\ Windows(i)!Released(w, x) = Released(w, x)
         /\ Windows(i)!Frozen(w, x) = Frozen(w, x)
         /\ Windows(i)!NewWindow(x) = NewWindow(x)
BY SameLater, Zenon DEF Windows!Reserved, Reserved, Windows!Released, Released,
   Windows!Frozen, Frozen, Windows!NewWindow, NewWindow, Windows!FreeSlot, FreeSlot

(* ... and the claim it holds. *)
LEMMA SameHeld ==
  ASSUME NEW i, NEW a
  PROVE  /\ Windows(i)!Record(Held(a)) = Turn(a)
         /\ Windows(i)!NoClaim = NotHeld
         /\ \A hold : a.until = Later(a.win.when, hold) =>
              Windows(i)!Held(a.win, hold) = Held(a)
<1>1. Windows(i)!Record(Held(a)) = Turn(a)
  BY DEF Windows!Record, Held, Turn
<1>2. Windows(i)!NoClaim = NotHeld
  BY DEF Windows!NoClaim, NotHeld, Windows!FreeSlot, FreeSlot
<1>3. ASSUME NEW hold, a.until = Later(a.win.when, hold)
      PROVE  Windows(i)!Held(a.win, hold) = Held(a)
  BY <1>3, SameLater DEF Windows!Held, Held
<1> QED
  BY <1>1, <1>2, <1>3

(* A caller's step as a window sees it: no step, going to sleep, or waking. *)
LEMMA SleeperMoves ==
  ASSUME NEW i, NEW c \in Callers,
         \A d \in Callers : d # c => state'[d] = state[d] /\ claim'[d] = claim[d]
  PROVE  /\ ~ Awaits(c, i) /\ ~ Awaits(c, i)' =>
              Sleepers(i)' = Sleepers(i) /\ Holdings(i)' = Holdings(i)
         /\ ~ Awaits(c, i) /\ Awaits(c, i)' =>
              /\ Sleepers(i)' = [Sleepers(i) EXCEPT ![c] = "waiting"]
              /\ Holdings(i)' = [Holdings(i) EXCEPT ![c] = Held(claim'[c])]
         /\ ~ Awaits(c, i)' =>
              /\ Sleepers(i)' = [Sleepers(i) EXCEPT ![c] = "idle"]
              /\ Holdings(i)' = [Holdings(i) EXCEPT ![c] = NotHeld]
<1>1. \A d \in Callers : d # c => /\ Awaits(d, i)' <=> Awaits(d, i)
                                  /\ Held(claim'[d]) = Held(claim[d])
  BY DEF Awaits
<1>2. /\ Sleepers(i)' = [d \in Callers |-> IF Awaits(d, i)' THEN "waiting" ELSE "idle"]
      /\ Holdings(i)' = [d \in Callers |-> IF Awaits(d, i)' THEN Held(claim'[d]) ELSE NotHeld]
  BY DEF Sleepers, Holdings
<1>3. CASE ~ Awaits(c, i)'
  BY <1>1, <1>2, <1>3 DEF Sleepers, Holdings
<1>4. CASE ~ Awaits(c, i) /\ Awaits(c, i)'
  BY <1>1, <1>2, <1>4 DEF Sleepers, Holdings
<1> QED
  BY <1>3, <1>4

(* The window's step, for a caller: it reserves, goes or gives up; or it    *)
(* stays as it was.                                                        *)
WindowStep(i) == UNCHANGED Windows(i)!vars \/ Windows(i)!Next

(* A window whose slots, sleepers and turns are unchanged has not moved. *)
LEMMA WindowStill ==
  ASSUME NEW i, now' = now, window'[i] = window[i], Sleepers(i)' = Sleepers(i),
         Holdings(i)' = Holdings(i), Turns(i)' = Turns(i)
  PROVE  WindowStep(i)
BY DEF WindowStep, Windows!vars

(* Wait is a reservation of its rule's window, and nothing to the others. *)
LEMMA WaitWindow ==
  ASSUME IInv, NEW c \in Callers, NEW r \in Requests, Wait(c, r), NEW i \in Rule
  PROVE  WindowStep(i)
<1> DEFINE a == Reservation(r)
<1>1. TypeOK /\ Identified /\ BucketsBalance /\ WindowsOK
  BY WindowsFacts DEF IInv
<1>2. /\ a \in ClaimType /\ a.id = issued + 1 /\ a.req = r
      /\ a.due >= now /\ a.due <= a.until
      /\ Match(r) # NoRule => a.win = Claim(window[Match(r)], Rules[Match(r)].window, now)
  BY <1>1, ReservationIn
<1>3. a.until = Later(a.win.when, a.due)
  BY DEF Reservation
<1>4. /\ state[c] = "idle" /\ issued < MaxSeq /\ a.until <= MaxTime
      /\ claim' = [claim EXCEPT ![c] = a]
      /\ Match(r) = NoRule => window' = window
      /\ Match(r) # NoRule => window' = [window EXCEPT ![Match(r)] = Reserved(@, a.win)]
      /\ \/ /\ a.until <= now /\ state' = [state EXCEPT ![c] = "sent"]
            /\ gone' = gone \cup {a}
         \/ /\ a.until > now /\ state' = [state EXCEPT ![c] = "waiting"] /\ gone' = gone
      /\ now' = now
  BY DEF Wait
<1> HIDE DEF a
<1>5. /\ now \in Nat /\ issued \in Nat /\ MaxSeq \in Nat /\ MaxTime \in Nat
      /\ a.due \in Nat /\ a.until \in Nat
      /\ state \in [Callers -> {"idle", "waiting", "sent"}] /\ DOMAIN claim = Callers
      /\ NoRule \notin Rule
  BY <1>1, <1>2, LimiterAssumption, RuleFacts DEF TypeOK, ClaimType
<1>6. /\ \A d \in Callers : d # c => state'[d] = state[d] /\ claim'[d] = claim[d]
      /\ claim'[c] = a
  BY <1>4, <1>5
<1>7. ~ Awaits(c, i)
  BY <1>4 DEF Awaits
<1>8. CASE Match(r) = i
  <2>1. /\ window'[i] = Reserved(window[i], a.win)
        /\ a.win = Claim(window[i], Rules[i].window, now)
    BY <1>1, <1>2, <1>4, <1>5, <1>8 DEF WindowsOK
  <2>2. window[i].seq < MaxSeq
    BY <1>1, <1>4, <1>5 DEF WindowsOK
  <2>3. Sleepers(i)[c] = "idle"
    BY <1>7 DEF Sleepers
  <2>4. a.due \in now..(now + MaxTime)
    BY <1>2, <1>4, <1>5
  <2> DEFINE H == Windows(i)!Held(a.win, a.due)
  <2>5. /\ H = Held(a) /\ H.until = a.until /\ Windows(i)!Record(H) = Turn(a)
        /\ Windows(i)!Claim(window[i], Rules[i].window, now) = a.win
        /\ Windows(i)!Reserved(window[i], a.win) = window'[i]
    BY <1>3, <2>1, SameHeld, SameClaim, SameWindow DEF Held
  <2>6. \/ /\ H.until <= now
           /\ Turns(i)' = Turns(i) \cup {Windows(i)!Record(H)}
           /\ UNCHANGED <<Sleepers(i), Holdings(i)>>
        \/ /\ H.until > now
           /\ Sleepers(i)' = [Sleepers(i) EXCEPT ![c] = "waiting"]
           /\ Holdings(i)' = [Holdings(i) EXCEPT ![c] = H]
           /\ UNCHANGED Turns(i)
    <3> HIDE DEF H
    <3>1. CASE a.until <= now /\ state' = [state EXCEPT ![c] = "sent"] /\ gone' = gone \cup {a}
      <4>1. ~ Awaits(c, i)'
        BY <1>5, <3>1 DEF Awaits
      <4>2. Sleepers(i)' = Sleepers(i) /\ Holdings(i)' = Holdings(i)
        BY <1>6, <1>7, <4>1, SleeperMoves
      <4>3. Turns(i)' = Turns(i) \cup {Turn(a)}
        <5>1. {g \in gone' : Match(g.req) = i} = {g \in gone : Match(g.req) = i} \cup {a}
          BY <1>2, <1>8, <3>1
        <5>2. Turns(i)' = {Turn(x) : x \in {g \in gone' : Match(g.req) = i}}
          BY DEF Turns
        <5> QED
          BY <5>1, <5>2 DEF Turns
      <4> QED
        BY <2>5, <3>1, <4>2, <4>3
    <3>2. CASE a.until > now /\ state' = [state EXCEPT ![c] = "waiting"] /\ gone' = gone
      <4>1. Awaits(c, i)'
        BY <1>2, <1>5, <1>6, <1>8, <3>2 DEF Awaits
      <4>2. /\ Sleepers(i)' = [Sleepers(i) EXCEPT ![c] = "waiting"]
            /\ Holdings(i)' = [Holdings(i) EXCEPT ![c] = Held(a)]
        BY <1>6, <1>7, <4>1, SleeperMoves
      <4>3. Turns(i)' = Turns(i)
        BY <3>2 DEF Turns
      <4> QED
        BY <2>5, <3>2, <4>2, <4>3
    <3> QED
      BY <1>4, <3>1, <3>2
  <2>7. Windows(i)!Wait(c)
    <3>1. H.until <= MaxTime
      BY <1>4, <2>5
    <3> HIDE DEF H
    <3>2. \E hold \in now..(now + MaxTime) :
            /\ Windows(i)!Held(a.win, hold).until <= MaxTime
            /\ window'[i] = Windows(i)!Reserved(window[i], a.win)
            /\ \/ /\ Windows(i)!Held(a.win, hold).until <= now
                  /\ Turns(i)' = Turns(i) \cup {Windows(i)!Record(Windows(i)!Held(a.win, hold))}
                  /\ UNCHANGED <<Sleepers(i), Holdings(i)>>
               \/ /\ Windows(i)!Held(a.win, hold).until > now
                  /\ Sleepers(i)' = [Sleepers(i) EXCEPT ![c] = "waiting"]
                  /\ Holdings(i)' = [Holdings(i) EXCEPT ![c] = Windows(i)!Held(a.win, hold)]
                  /\ UNCHANGED Turns(i)
      BY <2>4, <2>5, <2>6, <3>1, Zenon DEF H
    <3> QED
      BY <1>4, <2>2, <2>3, <2>5, <3>2, Zenon DEF Windows!Wait
  <2> QED
    BY <2>7, Zenon DEF Windows!Next, WindowStep
<1>9. CASE Match(r) # i
  <2>1. window'[i] = window[i]
    BY <1>1, <1>4, <1>9 DEF WindowsOK
  <2>2. ~ Awaits(c, i)'
    BY <1>2, <1>6, <1>9 DEF Awaits
  <2>3. Sleepers(i)' = Sleepers(i) /\ Holdings(i)' = Holdings(i)
    BY <1>6, <1>7, <2>2, SleeperMoves
  <2>4. Turns(i)' = Turns(i)
    <3>1. {g \in gone' : Match(g.req) = i} = {g \in gone : Match(g.req) = i}
      BY <1>2, <1>4, <1>9
    <3> QED
      BY <3>1, Zenon DEF Turns
  <2> QED
    BY <1>4, <2>1, <2>3, <2>4, WindowStill
<1> QED
  BY <1>8, <1>9

(* The end of a wait is one for the window of its rule. *)
LEMMA ProceedWindow ==
  ASSUME IInv, NEW c \in Callers, Proceed(c), NEW i \in Rule
  PROVE  WindowStep(i)
<1> DEFINE a == claim[c]
<1>1. TypeOK /\ Identified
  BY DEF IInv
<1>2. /\ state[c] = "waiting" /\ now >= a.until /\ now' = now /\ window' = window
      /\ claim' = claim /\ gone' = gone \cup {a} /\ state'[c] = "sent"
      /\ \A d \in Callers : d # c => state'[d] = state[d] /\ claim'[d] = claim[d]
  BY <1>1, ProceedIs DEF Proceed
<1>3. ~ Awaits(c, i)' /\ (Awaits(c, i) <=> Match(a.req) = i)
  BY <1>2 DEF Awaits
<1>4. Turns(i)' = {Turn(x) : x \in {g \in gone' : Match(g.req) = i}}
  BY DEF Turns
<1> HIDE DEF a
<1>5. CASE Match(a.req) = i
  <2>1. /\ Sleepers(i)' = [Sleepers(i) EXCEPT ![c] = "idle"]
        /\ Holdings(i)' = [Holdings(i) EXCEPT ![c] = NotHeld]
    BY <1>2, <1>3, SleeperMoves
  <2>2. Sleepers(i)[c] = "waiting" /\ Holdings(i)[c] = Held(a)
    BY <1>3, <1>5 DEF Sleepers, Holdings, a
  <2>3. Turns(i)' = Turns(i) \cup {Turn(a)}
    <3>1. {g \in gone' : Match(g.req) = i} = {g \in gone : Match(g.req) = i} \cup {a}
      BY <1>2, <1>5
    <3> QED
      BY <1>4, <3>1 DEF Turns
  <2>4. /\ Held(a).until = a.until /\ Windows(i)!Record(Held(a)) = Turn(a)
        /\ Windows(i)!NoClaim = NotHeld
    BY SameHeld DEF Held
  <2>5. Windows(i)!Proceed(c)
    BY <1>2, <2>1, <2>2, <2>3, <2>4, Zenon DEF Windows!Proceed
  <2> QED
    BY <2>5, Zenon DEF Windows!Next, WindowStep
<1>6. CASE Match(a.req) # i
  <2>1. Sleepers(i)' = Sleepers(i) /\ Holdings(i)' = Holdings(i)
    BY <1>2, <1>3, <1>6, SleeperMoves
  <2>2. Turns(i)' = Turns(i)
    <3>1. {g \in gone' : Match(g.req) = i} = {g \in gone : Match(g.req) = i}
      BY <1>2, <1>6
    <3> QED
      BY <1>4, <3>1 DEF Turns
  <2> QED
    BY <1>2, <2>1, <2>2, WindowStill
<1> QED
  BY <1>5, <1>6

(* Giving up is giving up for the window of its rule. *)
LEMMA GiveUpWindow ==
  ASSUME IInv, NEW c \in Callers, GiveUp(c), NEW i \in Rule
  PROVE  WindowStep(i)
<1> DEFINE a == claim[c]
           m == Match(claim[c].req)
<1>1. TypeOK /\ Identified /\ WindowsOK
  BY WindowsFacts DEF IInv
<1>2. /\ state[c] = "waiting" /\ now' = now /\ gone' = gone /\ state'[c] = "idle"
      /\ \A d \in Callers : d # c => state'[d] = state[d] /\ claim'[d] = claim[d]
      /\ m = NoRule => window' = window
      /\ m # NoRule => window' = [window EXCEPT ![m] = Released(@, a.win)]
  BY <1>1, GiveUpIs DEF GiveUp
<1>3. ~ Awaits(c, i)' /\ (Awaits(c, i) <=> m = i)
  BY <1>2 DEF Awaits
<1>4. Turns(i)' = Turns(i)
  BY <1>2 DEF Turns
<1>5. CASE m = i
  <2>1. /\ Sleepers(i)' = [Sleepers(i) EXCEPT ![c] = "idle"]
        /\ Holdings(i)' = [Holdings(i) EXCEPT ![c] = NotHeld]
    BY <1>2, <1>3, SleeperMoves
  <2>2. Sleepers(i)[c] = "waiting" /\ Holdings(i)[c] = Held(a)
    BY <1>3, <1>5 DEF Sleepers, Holdings
  <2>3. window'[i] = Released(window[i], a.win)
    BY <1>1, <1>2, <1>5, RuleFacts DEF WindowsOK
  <2>4. Released(window[i], a.win) = Released(window[i], Held(a))
    BY DEF Released, Held
  <2>5. Windows(i)!Released(window[i], Held(a)) = window'[i] /\ Windows(i)!NoClaim = NotHeld
    BY <2>3, <2>4, SameWindow, SameHeld
  <2>6. Windows(i)!GiveUp(c)
    BY <1>2, <1>4, <2>1, <2>2, <2>5, Zenon DEF Windows!GiveUp
  <2> QED
    BY <2>6, Zenon DEF Windows!Next, WindowStep
<1>6. CASE m # i
  <2>1. Sleepers(i)' = Sleepers(i) /\ Holdings(i)' = Holdings(i)
    BY <1>2, <1>3, <1>6, SleeperMoves
  <2>2. window'[i] = window[i]
    BY <1>1, <1>2, <1>6 DEF WindowsOK
  <2> QED
    BY <1>2, <1>4, <2>1, <2>2, WindowStill
<1> QED
  BY <1>5, <1>6

(* An answer leaves every sleeper and every turn as it was. *)
LEMMA AnsweredWindow ==
  ASSUME TypeOK, NEW c \in Callers, state[c] = "sent",
         state' = [state EXCEPT ![c] = "idle"], claim' = [claim EXCEPT ![c] = NoClaim],
         gone' = gone, NEW i
  PROVE  Sleepers(i)' = Sleepers(i) /\ Holdings(i)' = Holdings(i) /\ Turns(i)' = Turns(i)
<1>1. DOMAIN claim = Callers /\ state \in [Callers -> {"idle", "waiting", "sent"}]
  BY DEF TypeOK
<1>2. \A d \in Callers : d # c => state'[d] = state[d] /\ claim'[d] = claim[d]
  BY <1>1
<1>3. ~ Awaits(c, i) /\ ~ Awaits(c, i)'
  BY <1>1 DEF Awaits
<1>4. Turns(i)' = Turns(i)
  BY DEF Turns
<1> QED
  BY <1>2, <1>3, <1>4, SleeperMoves

(* An answer freezes one window or none. *)
LEMMA ObserveWindow ==
  ASSUME IInv, NEW c \in Callers, NEW h \in Responses, Observe(c, h), NEW i \in Rule
  PROVE  WindowStep(i)
<1>1. TypeOK /\ WindowsOK
  BY WindowsFacts DEF IInv
<1>2. /\ state[c] = "sent" /\ state' = [state EXCEPT ![c] = "idle"]
      /\ claim' = [claim EXCEPT ![c] = NoClaim] /\ gone' = gone /\ now' = now
      /\ \/ window' = window
         \/ window' = [window EXCEPT ![Match(claim[c].req)] = Frozen(@, RetryAfter(h))]
  BY DEF Observe
<1>3. Sleepers(i)' = Sleepers(i) /\ Holdings(i)' = Holdings(i) /\ Turns(i)' = Turns(i)
  BY <1>1, <1>2, AnsweredWindow
<1>4. window'[i] = window[i] \/ window'[i] = Frozen(window[i], RetryAfter(h))
  BY <1>1, <1>2 DEF WindowsOK
<1>5. CASE window'[i] = window[i]
  BY <1>2, <1>3, <1>5, WindowStill
<1>6. CASE window'[i] = Frozen(window[i], RetryAfter(h))
  <2>1. now \in Nat /\ MaxFreeze \in Nat
    BY <1>1, LimiterAssumption DEF TypeOK
  <2>2. RetryAfter(h) \in 0..(now + MaxFreeze)
    BY <2>1, RetryBounded
  <2>3. window'[i] = Windows(i)!Frozen(window[i], RetryAfter(h))
    BY <1>6, SameWindow
  <2>4. Windows(i)!Refused
    BY <1>2, <1>3, <2>2, <2>3, Zenon DEF Windows!Refused
  <2> QED
    BY <2>4, Zenon DEF Windows!Next, WindowStep
<1> QED
  BY <1>4, <1>5, <1>6

(* The window does not see a request fail. *)
LEMMA UnansweredWindow ==
  ASSUME IInv, NEW c \in Callers, Unanswered(c), NEW i \in Rule
  PROVE  WindowStep(i)
<1>1. /\ state[c] = "sent" /\ state' = [state EXCEPT ![c] = "idle"]
      /\ claim' = [claim EXCEPT ![c] = NoClaim] /\ gone' = gone /\ now' = now
      /\ window' = window
  BY DEF Unanswered, limiter, history
<1>2. Sleepers(i)' = Sleepers(i) /\ Holdings(i)' = Holdings(i) /\ Turns(i)' = Turns(i)
  BY <1>1, AnsweredWindow DEF IInv
<1> QED
  BY <1>1, <1>2, WindowStill

(* An instant passes for every window. *)
LEMMA TickWindow ==
  ASSUME Tick, NEW i \in Rule
  PROVE  WindowStep(i)
<1>1. /\ now < MaxTime /\ now' = now + 1 /\ window' = window
      /\ state' = state /\ claim' = claim /\ gone' = gone
  BY DEF Tick, limiter, history
<1>2. /\ Sleepers(i)' = Sleepers(i) /\ Holdings(i)' = Holdings(i) /\ Turns(i)' = Turns(i)
      /\ window'[i] = window[i]
  BY <1>1 DEF Sleepers, Holdings, Turns, Awaits
<1>3. Windows(i)!Tick
  BY <1>1, <1>2, Zenon DEF Windows!Tick
<1> QED
  BY <1>3, Zenon DEF Windows!Next, WindowStep

(* Every window starts as WindowWait does. *)
LEMMA InitWindow ==
  ASSUME Init, NEW i \in Rule
  PROVE  Windows(i)!Init
<1> DEFINE n == Later(Rules[i].requests, 1)
<1>1. now = 1 /\ window[i] = NewWindow(Rules[i].requests)
  BY DEF Init
<1>2. Later(n, 1) = n
  BY RuleFacts DEF Later
<1>3. Windows(i)!NewWindow(n) = window[i]
  <2>1. NewWindow(n) = NewWindow(Rules[i].requests)
    BY <1>2, Zenon DEF NewWindow
  <2> QED
    BY <1>1, <2>1, SameWindow
<1>4. \A c \in Callers : ~ Awaits(c, i)
  BY DEF Init, Awaits
<1>5. /\ Sleepers(i) = [c \in Callers |-> "idle"]
      /\ Holdings(i) = [c \in Callers |-> Windows(i)!NoClaim]
  BY <1>4, SameHeld DEF Sleepers, Holdings
<1>6. Turns(i) = {}
  BY DEF Init, Turns
<1> QED
  BY <1>1, <1>3, <1>5, <1>6, Zenon DEF Windows!Init

(* Every step is a step of each window, or none. *)
LEMMA EachWindowSteps == IInv /\ [Next]_vars => [\A i \in Rule : WindowStep(i)]_vars
<1> SUFFICES ASSUME IInv, Next, NEW i \in Rule
             PROVE  WindowStep(i)
  OBVIOUS
<1>1. ASSUME NEW c \in Callers, NEW r \in Requests, Wait(c, r)
      PROVE  WindowStep(i)
  BY <1>1, WaitWindow
<1>2. ASSUME NEW c \in Callers, Proceed(c)
      PROVE  WindowStep(i)
  BY <1>2, ProceedWindow
<1>3. ASSUME NEW c \in Callers, GiveUp(c)
      PROVE  WindowStep(i)
  BY <1>3, GiveUpWindow
<1>4. ASSUME NEW c \in Callers, NEW h \in Responses, Observe(c, h)
      PROVE  WindowStep(i)
  BY <1>4, ObserveWindow
<1>5. ASSUME NEW c \in Callers, Unanswered(c)
      PROVE  WindowStep(i)
  BY <1>5, UnansweredWindow
<1>6. CASE Tick
  BY <1>6, TickWindow
<1> QED
  BY <1>1, <1>2, <1>3, <1>4, <1>5, <1>6 DEF Next

(* ImplementsWindows: each rule's window, with the callers waiting behind  *)
(* it, is a WindowWait, step by step: the bucket a request also waits for  *)
(* is only a later instant, and the requests of other rules, the answers   *)
(* and the failures leave it alone or are refusals (Wait, Observe).        *)
THEOREM ImplementsEachWindow == Spec => ImplementsWindows
<1>1. Init => \A i \in Rule : Windows(i)!Init
  BY InitWindow
<1>2. IInv /\ [Next]_vars =>
        [\A i \in Rule : UNCHANGED Windows(i)!vars \/ Windows(i)!Next]_vars
  BY EachWindowSteps, Zenon DEF WindowStep
<1> QED
  BY <1>1, <1>2, LimiterInvariant, PTL DEF Spec, ImplementsWindows
---------------------------------------------------------------------------
(* Session. *)

(* The initial state satisfies the invariant. *)
LEMMA DoInitInv == DoInit => DoInv
  BY SessionAssumption
  DEF DoInit, DoInv, DoTypeOK, Steps, Ended, Errors, Clients, OneOut, Untouched, Request

(* A step of a caller keeps the shape of the state. *)
LEMMA DoTypeStep == DoTypeOK /\ [DoNext]_doVars => DoTypeOK'
<1> SUFFICES ASSUME DoTypeOK, [DoNext]_doVars PROVE DoTypeOK'
  OBVIOUS
<1> USE DEF DoTypeOK, Statuses, NoReply, ExtraAttempts
<1>1. ASSUME NEW c \in Clients, Call(c) PROVE DoTypeOK'
  BY <1>1, SessionAssumption DEF Call, Steps, Ended
<1>2. ASSUME NEW c \in Clients, Step(c) PROVE DoTypeOK'
  <2>1. CASE Prepare(c)
    BY <2>1 DEF Prepare, Steps, Ended
  <2>2. CASE PrepareFails(c) \/ PaceCut(c)
    BY <2>2 DEF PrepareFails, PaceCut, Return, Steps, Ended, Errors, Nil, NotSent
  <2>3. CASE AuthFails(c)
    BY <2>3 DEF AuthFails, Return, Steps, Ended, Errors, Nil, NoSigner, NoCredentials, Other
  <2>4. CASE Paced(c)
    BY <2>4 DEF Paced, Request, Steps, Ended
  <2>5. CASE Broken(c)
    BY <2>5 DEF Broken, Return, Steps, Ended, Errors, Nil, Other
  <2>6. CASE Retry(c)
    BY <2>6, SessionAssumption DEF Retry, Request, Steps, Ended
  <2>7. CASE RetryCut(c)
    BY <2>7 DEF RetryCut, Return, Steps, Ended, Errors, Nil, Other
  <2>8. CASE Receive(c)
    BY <2>8 DEF Receive, Return, Steps, Ended, Errors, Nil, Other, Answered
  <2> QED
    BY <1>2, <2>1, <2>2, <2>3, <2>4, <2>5, <2>6, <2>7, <2>8 DEF Step
<1>3. ASSUME NEW m \in wire, Serve(m) PROVE DoTypeOK'
  BY <1>3 DEF Serve
<1>4. CASE UNCHANGED doVars
  BY <1>4 DEF doVars
<1> QED
  BY <1>1, <1>2, <1>3, <1>4 DEF DoNext

(* A step keeps at most one submission of an order out. *)
LEMMA OneOutStep == DoInv /\ [DoNext]_doVars => \A c \in Writers : OneOut(c)'
<1> SUFFICES ASSUME DoInv, [DoNext]_doVars, NEW c \in Writers PROVE OneOut(c)'
  OBVIOUS
<1> c \in Clients /\ c \notin Readers
  BY SessionAssumption DEF Clients
<1> OneOut(c) /\ DoTypeOK
  BY DEF DoInv
<1> USE DEF OneOut, Untouched, MayCall, Request, NoReply, Statuses
<1>1. ASSUME NEW d \in Clients, Call(d) PROVE OneOut(c)'
  BY <1>1 DEF Call, DoTypeOK
<1>2. ASSUME NEW d \in Clients, Step(d) PROVE OneOut(c)'
  <2>1. CASE d # c
    <3>1. /\ step'[c] = step[c] /\ submit'[c] = submit[c] /\ attempt'[c] = attempt[c]
          /\ reply'[c] = reply[c] /\ err'[c] = err[c] /\ applied'[c] = applied[c]
      BY <1>2, <2>1 DEF Step, Prepare, PrepareFails, AuthFails, Paced, PaceCut, Broken,
                        Retry, RetryCut, Receive, Return, DoTypeOK
    <3>2. \A m \in wire' : m.caller = c => m \in wire
      BY <1>2, <2>1 DEF Step, Prepare, PrepareFails, AuthFails, Paced, PaceCut, Broken,
                        Retry, RetryCut, Receive
    <3> QED
      BY <3>1, <3>2 DEF Indeterminate
  <2>2. CASE d = c
    <3>1. CASE Prepare(c)
      BY <3>1 DEF Prepare, DoTypeOK
    <3>2. CASE PrepareFails(c) \/ PaceCut(c) \/ AuthFails(c)
      BY <3>2 DEF PrepareFails, PaceCut, AuthFails, Return, DoTypeOK
    <3>3. CASE Paced(c)
      BY <3>3 DEF Paced, DoTypeOK
    <3>4. CASE Broken(c)
      BY <3>4 DEF Broken, Return, DoTypeOK, ExtraAttempts, Indeterminate, Other
    <3>5. CASE Receive(c)
      BY <3>5 DEF Receive, Return, DoTypeOK, Indeterminate, Other, Answered, Nil
    <3>6. CASE Retry(c) \/ RetryCut(c)
      BY <3>6 DEF Retry, RetryCut
    <3> QED
      BY <1>2, <2>2, <3>1, <3>2, <3>3, <3>4, <3>5, <3>6 DEF Step
  <2> QED
    BY <2>1, <2>2
<1>3. ASSUME NEW m \in wire, Serve(m) PROVE OneOut(c)'
  <2>1. CASE m.caller # c
    BY <1>3, <2>1 DEF Serve, DoTypeOK
  <2>2. CASE m.caller = c
    BY <1>3, <2>2 DEF Serve, DoTypeOK
  <2> QED
    BY <2>1, <2>2
<1>4. CASE UNCHANGED doVars
  BY <1>4 DEF doVars
<1> QED
  BY <1>1, <1>2, <1>3, <1>4 DEF DoNext

(* The invariant of Session.Do's writes holds in every reachable state. *)
THEOREM DoInvariant == DoSpec => []DoInv
<1>1. DoInv /\ [DoNext]_doVars => DoInv'
  BY DoTypeStep, OneOutStep DEF DoInv
<1> QED
  BY DoInitInv, <1>1, PTL DEF DoSpec

(* An order is acted on at most once, whatever its caller resubmits on the *)
(* word of Indeterminate and whatever the network delays or loses.         *)
THEOREM OrderedOnce == DoSpec => []AtMostOnce
<1>1. DoInv => AtMostOnce
  BY DEF DoInv, OneOut, AtMostOnce
<1> QED
  BY DoInvariant, <1>1, PTL

(* An error that is not Indeterminate means the order was not acted on and *)
(* never will be.                                                          *)
THEOREM DeterminateIsFinal == DoSpec => []RefusedMeansNothing
<1>1. DoInv => RefusedMeansNothing
  BY DEF DoInv, OneOut, MayCall, RefusedMeansNothing
<1> QED
  BY DoInvariant, <1>1, PTL
====
