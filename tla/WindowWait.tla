---- MODULE WindowWait ----
(***************************************************************************)
(* Concurrent callers of StandardLimiter.Wait behind one endpoint's        *)
(* sliding window, and the refusals Observe turns into freezes             *)
(* (ratelimit.go).  A caller reserves under the limiter's lock, sleeps     *)
(* outside it until the instant it was given, and either goes or, when its *)
(* context ends first, takes the lock again and releases.                  *)
(*                                                                         *)
(* The trading bucket that may push a request past the window's own        *)
(* instant is any later instant up to MaxHold away; module Limiter has     *)
(* the bucket itself and implements this module.                           *)
(***************************************************************************)
EXTENDS SlidingWindow, FiniteSets

CONSTANTS
  Callers,    \* goroutines calling Wait
  Requests,   \* the rule's RateLimit.Requests
  Window,     \* the rule's RateLimit.Window
  MaxFreeze,  \* the longest freeze a response may ask for
  MaxHold,    \* the longest the trading bucket may hold a request
  MaxTime,    \* bound: the clock stops here, and no send is scheduled later
  MaxSeq      \* bound: reservations made

ASSUME ConstantsAssumption ==
  /\ Requests \in Nat \ {0}
  /\ {Window, MaxFreeze, MaxHold, MaxTime, MaxSeq} \subseteq Nat

VARIABLES
  now,    \* time.Now
  win,    \* the slidingWindow
  state,  \* what each caller is doing: idle or waiting
  claim,  \* each caller's windowReservation, and until when it sleeps
  gone    \* history: the claims whose Wait returned nil

vars == <<now, win, state, claim, gone>>

NoClaim == [slot |-> 1, seq |-> 0, prev |-> FreeSlot, when |-> 0, until |-> 0]

(* A claim as history remembers it. *)
Record(c) == [slot |-> c.slot, seq |-> c.seq, when |-> c.when, until |-> c.until]

Init ==
  /\ now = 1
  /\ win = NewWindow(Requests)
  /\ state = [c \in Callers |-> "idle"]
  /\ claim = [c \in Callers |-> NoClaim]
  /\ gone = {}

(* What a caller holds once the window gave it res and the bucket allowed  *)
(* it at instant hold: Wait sleeps until the later of the two.             *)
Held(res, hold) == [ slot  |-> res.slot,
                     seq   |-> res.seq,
                     prev  |-> res.prev,
                     when  |-> res.when,
                     until |-> Later(res.when, hold) ]

(* Wait, its first critical section.  With no delay it returns at once. *)
Wait(c) ==
  /\ state[c] = "idle"
  /\ win.seq < MaxSeq
  /\ LET res == Claim(win, Window, now) IN
     \E hold \in now..(now + MaxHold) :
       /\ Held(res, hold).until <= MaxTime
       /\ win' = Reserved(win, res)
       /\ \/ /\ Held(res, hold).until <= now
             /\ gone' = gone \cup {Record(Held(res, hold))}
             /\ UNCHANGED <<state, claim>>
          \/ /\ Held(res, hold).until > now
             /\ state' = [state EXCEPT ![c] = "waiting"]
             /\ claim' = [claim EXCEPT ![c] = Held(res, hold)]
             /\ UNCHANGED gone
  /\ UNCHANGED now

(* Mutant of Proceed: the timer fires one instant early. *)
ProceedEarly(c) ==
  /\ state[c] = "waiting"
  /\ now + 1 >= claim[c].until
  /\ state' = [state EXCEPT ![c] = "idle"]
  /\ claim' = [claim EXCEPT ![c] = NoClaim]
  /\ gone' = gone \cup {Record(claim[c])}
  /\ UNCHANGED <<now, win>>

(* Mutant of Proceed: the freeze is looked at again on waking. *)
ProceedUnfrozen(c) ==
  /\ state[c] = "waiting"
  /\ now >= Later(claim[c].until, win.frozenTill)
  /\ state' = [state EXCEPT ![c] = "idle"]
  /\ claim' = [claim EXCEPT ![c] = NoClaim]
  /\ gone' = gone \cup {Record(claim[c])}
  /\ UNCHANGED <<now, win>>

(* The timer of a waiting caller fires and Wait returns nil. *)
Proceed(c) ==
  /\ state[c] = "waiting"
  /\ now >= claim[c].until
  /\ state' = [state EXCEPT ![c] = "idle"]
  /\ claim' = [claim EXCEPT ![c] = NoClaim]
  /\ gone' = gone \cup {Record(claim[c])}
  /\ UNCHANGED <<now, win>>

(* The context of a waiting caller ends: Wait releases and fails.  select  *)
(* chooses freely when the timer has fired too.                            *)
GiveUp(c) ==
  /\ state[c] = "waiting"
  /\ win' = Released(win, claim[c])
  /\ state' = [state EXCEPT ![c] = "idle"]
  /\ claim' = [claim EXCEPT ![c] = NoClaim]
  /\ UNCHANGED <<now, gone>>

(* Observe of a refusal naming a deadline, past or up to MaxFreeze away. *)
Refused ==
  /\ \E until \in 0..(now + MaxFreeze) : win' = Frozen(win, until)
  /\ UNCHANGED <<now, state, claim, gone>>

Tick ==
  /\ now < MaxTime
  /\ now' = now + 1
  /\ UNCHANGED <<win, state, claim, gone>>

Next ==
  \/ \E c \in Callers : Wait(c) \/ Proceed(c) \/ GiveUp(c)
  \/ Refused
  \/ Tick

(* Time passes and a timer that is due fires. *)
Fairness == WF_vars(Tick) /\ \A c \in Callers : WF_vars(Proceed(c))

Spec == Init /\ [][Next]_vars /\ Fairness
---------------------------------------------------------------------------
Waiting == {c \in Callers : state[c] = "waiting"}

(* The reservations that count: made and not given up. *)
Live == gone \cup {Record(claim[c]) : c \in Waiting}

(* Every instant a send may be scheduled for. *)
Instants == 0..MaxTime

(* The state keeps its shape: slots hold instants and reservation numbers  *)
(* already issued, a waiting caller holds a claim on an existing slot, and *)
(* history holds claims.                                                   *)
SlotType == [when : Nat, seq : Nat]
GoneType == [slot : 1..Requests, seq : Nat, when : Nat, until : Nat]
ClaimType == [slot : 1..Requests, seq : Nat, prev : SlotType, when : Nat, until : Nat]

TypeOK ==
  /\ now \in Nat \ {0}
  /\ win \in [slots : [1..Requests -> SlotType], seq : Nat, frozenTill : Nat]
  /\ state \in [Callers -> {"idle", "waiting"}]
  /\ claim \in [Callers -> ClaimType]
  /\ gone \in SUBSET GoneType
---------------------------------------------------------------------------
(* A reservation r that counts and an entry s of its slot: s is r, or      *)
(* stands at least a Window behind it.                                     *)
Behind(r, s) ==
  /\ r.seq <= s.seq
  /\ r.seq = s.seq => r.when = s.when
  /\ r.seq < s.seq => r.when + Window <= s.when

(* Reservation numbers are issued once, and only slot entries of number 0  *)
(* are free.                                                               *)
Proper(s) == s.seq <= win.seq /\ (s.seq = 0 <=> s.when = 0)

Numbered ==
  /\ \A i \in 1..Requests : Proper(win.slots[i])
  /\ \A c \in Waiting :
       /\ claim[c].seq \in 1..win.seq /\ claim[c].when <= claim[c].until
       /\ Proper(claim[c].prev) /\ claim[c].prev.seq < claim[c].seq
  /\ \A r \in Live : r.seq \in 1..win.seq /\ r.when > 0
  /\ \A r, s \in Live : r.seq = s.seq => r = s
  /\ \A c, d \in Waiting : claim[c].seq = claim[d].seq => c = d
  /\ \A c \in Waiting, r \in gone : r.seq # claim[c].seq

SlotsRemember == \A r \in Live : Behind(r, win.slots[r.slot])

RefundsRemember ==
  \A c \in Waiting : \A r \in Live :
    r.slot = claim[c].slot /\ r.seq < claim[c].seq => Behind(r, claim[c].prev)

Spaced ==
  \A r, s \in Live : r.slot = s.slot /\ r.seq < s.seq => r.when + Window <= s.when

(* The inductive invariant.  Every slot, and every entry a pending refund  *)
(* could put back into one, still stands for each reservation that counts  *)
(* and was made on that slot before it: releasing in any order never       *)
(* forgets a send that is inside the window (slidingWindow.release).       *)
IInv == TypeOK /\ Numbered /\ SlotsRemember /\ RefundsRemember /\ Spaced

(* "A slidingWindow admits at most Requests sends in any Window": of the   *)
(* instants reserve has handed out and nobody gave up, no period of length *)
(* Window holds more than Requests, whatever order requests are abandoned  *)
(* in and however freezes fall between them.                               *)
InPeriod(t) == {r \in Live : t <= r.when /\ r.when < t + Window}

AtMostRequests == \A t \in Instants : Cardinality(InPeriod(t)) <= Requests

(* The abstract limiter: each claim that counts is an admission. *)
Admissions(claims) == {[id |-> r.seq, at |-> r.when] : r \in claims}

Promise == INSTANCE RateWindow
             WITH Id      <- 1..MaxSeq,
                  Instant <- Instants,
                  waiting <- Admissions({Record(claim[c]) : c \in Waiting}),
                  gone    <- Admissions(gone)

(* Slots, numbers and refunds implement the promise of RateWindow: nothing *)
(* that went is ever forgotten, nothing goes before the instant it was     *)
(* admitted at, and abandoning is the only way to leave.                   *)
KeepsPromise == Promise!Init /\ [][Promise!Next]_Promise!vars

(* A request that waits is not made to wait again: refusals that keep      *)
(* arriving for other requests never push back one already scheduled, so   *)
(* its Wait returns once the clock reaches the instant it was given.       *)
EveryWaitEnds ==
  \A c \in Callers : state[c] = "waiting" ~> state[c] = "idle"
====
