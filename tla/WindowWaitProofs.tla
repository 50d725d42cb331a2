---- MODULE WindowWaitProofs ----
(***************************************************************************)
(* Proofs about WindowWait, for every number of callers, every limit and   *)
(* every bound.                                                            *)
(***************************************************************************)
EXTENDS WindowWait, FiniteSetTheorems, TLAPS

(* Every non-empty set of naturals has a least element. *)
LEMMA LeastExists ==
  ASSUME NEW T \in SUBSET Nat, T # {}
  PROVE  \E m \in T : \A n \in T : m <= n
<1>1. PICK m \in T : \A n \in T : <<n, m>> \notin OpToRel(<, Nat)
  BY NatLessThanWellFounded, WFMin, Zenon
<1>2. \A n \in T : ~ (n < m)
  BY <1>1, Zenon DEF OpToRel
<1> QED
  BY <1>2

(* reserve scans to an index of the array, never past it. *)
LEMMA SlotForInRange ==
  ASSUME NEW slots \in [1..Requests -> SlotType]
  PROVE  SlotFor(slots) \in 1..Requests
<1> DEFINE Whens == {slots[i].when : i \in 1..Requests}
<1>1. Whens \in SUBSET Nat /\ Whens # {}
  BY ConstantsAssumption DEF SlotType
<1>2. PICK w \in Whens : \A v \in Whens : w <= v
  <2> HIDE DEF Whens
  <2> QED
    BY <1>1, LeastExists
<1>3. Oldest(slots) \in SUBSET Nat /\ Oldest(slots) \subseteq 1..Requests
  BY DEF Oldest
<1>4. Oldest(slots) # {}
  BY <1>2 DEF Oldest
<1>5. PICK i \in Oldest(slots) : \A j \in Oldest(slots) : i <= j
  BY <1>3, <1>4, LeastExists
<1>6. SlotFor(slots) \in Oldest(slots)
  BY <1>5, Zenon DEF SlotFor
<1> QED
  BY <1>3, <1>6

(* What reserve hands out: a fresh number, on a slot of the array, at an   *)
(* instant not past, not frozen, and a Window after what it displaced.     *)
LEMMA ClaimProperties ==
  ASSUME TypeOK
  PROVE  LET res == Claim(win, Window, now)
         IN  /\ res.slot \in 1..Requests
             /\ res.seq = win.seq + 1
             /\ res.prev = win.slots[res.slot]
             /\ res.when \in Nat /\ res.when >= now /\ res.when >= win.frozenTill
             /\ res.prev.when # 0 => res.when >= res.prev.when + Window
<1> DEFINE i == SlotFor(win.slots)
<1>1. i \in 1..Requests
  BY SlotForInRange DEF TypeOK
<1>2. win.slots[i] \in SlotType
  BY <1>1 DEF TypeOK
<1>3. /\ now \in Nat /\ win.seq \in Nat /\ win.frozenTill \in Nat
      /\ win.slots[i].when \in Nat /\ Window \in Nat
  BY <1>2, ConstantsAssumption DEF TypeOK, SlotType
<1>4. /\ ClaimTime(win, i, Window, now) \in Nat
      /\ ClaimTime(win, i, Window, now) >= now
      /\ ClaimTime(win, i, Window, now) >= win.frozenTill
      /\ win.slots[i].when # 0 =>
           ClaimTime(win, i, Window, now) >= win.slots[i].when + Window
  <2> HIDE DEF i
  <2> QED
    BY <1>3 DEF ClaimTime, Later
<1> HIDE DEF i
<1> QED
  BY <1>1, <1>4 DEF Claim, i

(* Type correctness of the state: slots, claims and history keep their     *)
(* shape, which needs the scan of reserve to stay inside the array.        *)
LEMMA TypeStep == TypeOK /\ [Next]_vars => TypeOK'
<1> SUFFICES ASSUME TypeOK, [Next]_vars
             PROVE  TypeOK'
  OBVIOUS
<1>1. ASSUME NEW c \in Callers, Wait(c)
      PROVE  TypeOK'
  <2> DEFINE res == Claim(win, Window, now)
  <2>1. /\ res.slot \in 1..Requests /\ res.seq = win.seq + 1
        /\ res.prev = win.slots[res.slot] /\ res.when \in Nat /\ res.when >= now
    BY ClaimProperties
  <2>2. win' = [ slots      |-> [win.slots EXCEPT ![res.slot] =
                                   [when |-> res.when, seq |-> res.seq]],
                 seq        |-> win.seq + 1,
                 frozenTill |-> win.frozenTill ]
    BY <1>1, <2>1 DEF Wait, Reserved
  <2>3. PICK hold \in now..(now + MaxHold) :
          \/ gone' = gone \cup {Record(Held(res, hold))} /\ UNCHANGED <<state, claim>>
          \/ /\ state' = [state EXCEPT ![c] = "waiting"]
             /\ claim' = [claim EXCEPT ![c] = Held(res, hold)]
             /\ UNCHANGED gone
    BY <1>1 DEF Wait
  <2>4. now' = now
    BY <1>1 DEF Wait
  <2> HIDE DEF res
  <2>5. res.prev \in SlotType
    BY <2>1 DEF TypeOK
  <2>6. Held(res, hold) \in ClaimType /\ Record(Held(res, hold)) \in GoneType
    BY SMTT(30), <2>1, <2>3, <2>5, ConstantsAssumption
    DEF TypeOK, Held, Record, ClaimType, GoneType, Later
  <2>7. win' \in [slots : [1..Requests -> SlotType], seq : Nat, frozenTill : Nat]
    BY <2>1, <2>2 DEF TypeOK, SlotType
  <2> QED
    BY <2>3, <2>4, <2>6, <2>7 DEF TypeOK
<1>2. ASSUME NEW c \in Callers, Proceed(c)
      PROVE  TypeOK'
  <2>1. NoClaim \in ClaimType
    BY ConstantsAssumption DEF ClaimType, NoClaim, FreeSlot, SlotType
  <2>2. claim[c] \in ClaimType
    BY DEF TypeOK
  <2>3. Record(claim[c]) \in GoneType
    BY <2>2 DEF Record, ClaimType, GoneType
  <2> QED
    BY <1>2, <2>1, <2>3 DEF Proceed, TypeOK
<1>3. ASSUME NEW c \in Callers, GiveUp(c)
      PROVE  TypeOK'
  <2>1. claim[c].prev \in SlotType /\ NoClaim \in ClaimType
    BY ConstantsAssumption DEF TypeOK, ClaimType, NoClaim, FreeSlot, SlotType
  <2>2. Released(win, claim[c]) \in
          [slots : [1..Requests -> SlotType], seq : Nat, frozenTill : Nat]
    BY <2>1 DEF TypeOK, Released
  <2> QED
    BY <1>3, <2>1, <2>2 DEF GiveUp, TypeOK
<1>4. CASE Refused
  <2>1. PICK until \in 0..(now + MaxFreeze) : win' = Frozen(win, until)
    BY <1>4 DEF Refused
  <2>2. Later(win.frozenTill, until) \in Nat
    BY <2>1, ConstantsAssumption DEF TypeOK, Later
  <2>3. win' \in [slots : [1..Requests -> SlotType], seq : Nat, frozenTill : Nat]
    BY <2>1, <2>2 DEF TypeOK, Frozen
  <2> QED
    BY <1>4, <2>3 DEF Refused, TypeOK
<1>5. CASE Tick
  BY <1>5 DEF Tick, TypeOK
<1>6. CASE UNCHANGED vars
  BY <1>6 DEF vars, TypeOK
<1> QED
  BY <1>1, <1>2, <1>3, <1>4, <1>5, <1>6 DEF Next

LEMMA TypeInit == Init => TypeOK
<1> SUFFICES ASSUME Init
             PROVE  TypeOK
  OBVIOUS
<1>1. Later(Requests, 1) = Requests
  BY ConstantsAssumption DEF Later
<1>2. NewWindow(Requests) \in
        [slots : [1..Requests -> SlotType], seq : Nat, frozenTill : Nat]
  BY <1>1 DEF NewWindow, FreeSlot, SlotType
<1>3. NoClaim \in ClaimType
  BY ConstantsAssumption DEF NoClaim, FreeSlot, SlotType, ClaimType
<1> QED
  BY <1>2, <1>3 DEF Init, TypeOK

(* The state of the limiter's window keeps its shape in every behaviour.   *)
THEOREM TypeCorrect == Spec => []TypeOK
BY TypeInit, TypeStep, PTL DEF Spec
---------------------------------------------------------------------------
LEMMA LiveType == TypeOK => Live \subseteq GoneType
BY DEF TypeOK, Live, Waiting, Record, ClaimType, GoneType

(* The part of the invariant that does not look at types. *)
Remembers == Numbered /\ SlotsRemember /\ RefundsRemember /\ Spaced

LEMMA RemembersInit == Init => Remembers
<1> SUFFICES ASSUME Init
             PROVE  Remembers
  OBVIOUS
<1>1. Waiting = {} /\ Live = {} /\ gone = {}
  BY DEF Init, Waiting, Live
<1>2. \A i \in 1..Requests : Proper(win.slots[i])
  <2>1. Later(Requests, 1) = Requests
    BY ConstantsAssumption DEF Later
  <2> QED
    BY <2>1 DEF Init, NewWindow, FreeSlot, Proper
<1> QED
  BY <1>1, <1>2
  DEF Remembers, Numbered, SlotsRemember, RefundsRemember, Spaced

(* A window behind what is later is a window behind what is earlier.       *)
LEMMA Queues ==
  ASSUME NEW a \in Nat, NEW b \in Nat, NEW e \in Nat, NEW w \in Nat, a <= b, e >= b + w
  PROVE  a + w <= e
OBVIOUS

(* Wait: the new claim is numbered above every other, and stands a Window  *)
(* behind whatever its slot stood for.                                     *)
LEMMA RemembersWait ==
  ASSUME TypeOK, Remembers, NEW c \in Callers, Wait(c)
  PROVE  Remembers'
<1> DEFINE res == Claim(win, Window, now)
           i   == res.slot
<1>1. /\ i \in 1..Requests /\ res.seq = win.seq + 1 /\ res.prev = win.slots[i]
      /\ res.when \in Nat /\ res.when > 0
      /\ win.slots[i].when # 0 => res.when >= win.slots[i].when + Window
  BY ClaimProperties DEF TypeOK
<1>2. /\ win'.slots = [win.slots EXCEPT ![i] = [when |-> res.when, seq |-> res.seq]]
      /\ win'.seq = win.seq + 1
  BY <1>1 DEF Wait, Reserved
<1>3. PICK hold \in now..(now + MaxHold) :
        \/ gone' = gone \cup {Record(Held(res, hold))} /\ UNCHANGED <<state, claim>>
        \/ /\ state' = [state EXCEPT ![c] = "waiting"]
           /\ claim' = [claim EXCEPT ![c] = Held(res, hold)]
           /\ UNCHANGED gone
  BY DEF Wait
<1> DEFINE n == Record(Held(res, hold))
<1>4. n.slot = i /\ n.seq = win.seq + 1 /\ n.when = res.when
  BY <1>1 DEF Record, Held
<1>5. c \notin Waiting
  BY DEF Wait, Waiting
<1> HIDE DEF res
<1>6. Live' = Live \cup {n}
  <2>1. CASE gone' = gone \cup {n} /\ UNCHANGED <<state, claim>>
    BY <2>1 DEF Live, Waiting
  <2>2. CASE /\ state' = [state EXCEPT ![c] = "waiting"]
             /\ claim' = [claim EXCEPT ![c] = Held(res, hold)]
             /\ UNCHANGED gone
    <3>1. Waiting' = Waiting \cup {c}
      BY <2>2 DEF Waiting, TypeOK
    <3>2. \A d \in Waiting : claim'[d] = claim[d]
      BY <2>2, <1>5 DEF TypeOK, Waiting
    <3>3. claim'[c] = Held(res, hold)
      BY <2>2 DEF TypeOK
    <3> QED
      BY <2>2, <3>1, <3>2, <3>3 DEF Live
  <2> QED
    BY <1>3, <2>1, <2>2
<1>7. \A d \in Waiting' : \/ d \in Waiting /\ claim'[d] = claim[d] /\ d # c
                          \/ /\ d = c
                             /\ claim'[d].slot = i
                             /\ claim'[d].seq = win.seq + 1
                             /\ claim'[d].prev = win.slots[i]
                             /\ claim'[d].when <= claim'[d].until
                             /\ gone' = gone
  <2>1. res.when <= Held(res, hold).until
    BY <1>1, <1>3, ConstantsAssumption DEF TypeOK, Held, Later
  <2> QED
    BY <1>1, <1>3, <1>5, <2>1 DEF Waiting, TypeOK, Held
<1>8. /\ win.seq \in Nat /\ Window \in Nat
      /\ win.slots \in [1..Requests -> SlotType]
      /\ \A j \in 1..Requests : win.slots[j].seq \in Nat /\ win.slots[j].when \in Nat
  BY ConstantsAssumption DEF TypeOK, SlotType
<1>9. \A r \in Live : r \in GoneType
  BY LiveType
<1>10. \A r \in Live : r.seq <= win.seq /\ r.seq > 0 /\ r.seq # n.seq
  BY <1>4, <1>8, <1>9 DEF Remembers, Numbered, GoneType
<1>11. \A r \in Live : r.slot = i => r.when + Window <= n.when
  <2> SUFFICES ASSUME NEW r \in Live, r.slot = i
               PROVE  r.when + Window <= res.when
    BY <1>4
  <2>1. Behind(r, win.slots[i]) /\ Proper(win.slots[i])
    BY <1>1 DEF Remembers, Numbered, SlotsRemember
  <2>2. r.seq > 0 /\ r.seq \in Nat /\ r.when \in Nat
    BY <1>9, <1>10 DEF GoneType
  <2>3. win.slots[i].seq \in Nat /\ win.slots[i].when \in Nat
    BY <1>1, <1>8
  <2>4. win.slots[i].when # 0
    BY <2>1, <2>2, <2>3 DEF Behind, Proper
  <2>5. r.when <= win.slots[i].when
    BY <1>8, <2>1, <2>2, <2>3 DEF Behind
  <2>6. res.when \in Nat /\ res.when >= win.slots[i].when + Window
    BY <1>1, <2>4
  <2>7. Window \in Nat
    BY <1>8
  <2> QED
    BY <2>2, <2>3, <2>5, <2>6, <2>7, Queues
<1>entry. /\ win'.slots[i] = [when |-> res.when, seq |-> res.seq]
          /\ \A j \in 1..Requests : j # i => win'.slots[j] = win.slots[j]
  <2> HIDE DEF i
  <2> QED
    BY <1>1, <1>2, <1>8
<1> HIDE DEF n, i
<1>12. Numbered'
  <2>1. \A j \in 1..Requests : Proper(win.slots[j])'
    <3> SUFFICES ASSUME NEW j \in 1..Requests
                 PROVE  Proper(win.slots[j])'
      OBVIOUS
    <3>1. Proper(win.slots[j])
      BY DEF Remembers, Numbered
    <3>2. CASE j = i
      BY <1>1, <1>2, <1>4, <1>8, <1>entry, <3>2 DEF Proper
    <3>3. CASE j # i
      BY <1>2, <1>8, <1>entry, <3>1, <3>3 DEF Proper
    <3> QED
      BY <3>2, <3>3
  <2>2. \A d \in Waiting' :
          /\ claim'[d].seq \in 1..win'.seq /\ claim'[d].when <= claim'[d].until
          /\ Proper(claim[d].prev)' /\ claim'[d].prev.seq < claim'[d].seq
    <3> SUFFICES ASSUME NEW d \in Waiting'
                 PROVE  /\ claim'[d].seq \in 1..win'.seq /\ claim'[d].when <= claim'[d].until
                        /\ Proper(claim[d].prev)' /\ claim'[d].prev.seq < claim'[d].seq
      OBVIOUS
    <3>1. CASE d \in Waiting /\ claim'[d] = claim[d]
      <4>1. /\ claim[d].seq \in 1..win.seq /\ claim[d].when <= claim[d].until
            /\ Proper(claim[d].prev) /\ claim[d].prev.seq < claim[d].seq
        BY <3>1 DEF Remembers, Numbered
      <4>2. claim[d].prev.seq \in Nat
        BY <3>1 DEF Waiting, TypeOK, ClaimType, SlotType
      <4> QED
        BY <1>2, <1>8, <3>1, <4>1, <4>2 DEF Proper
    <3>2. CASE /\ claim'[d].seq = win.seq + 1 /\ claim'[d].prev = win.slots[i]
               /\ claim'[d].when <= claim'[d].until
      <4>1. Proper(win.slots[i])
        BY <1>1 DEF Remembers, Numbered
      <4> QED
        BY <1>1, <1>2, <1>8, <3>2, <4>1 DEF Proper
    <3> QED
      BY <1>7, <3>1, <3>2
  <2>3. \A r \in Live' : r.seq \in 1..win'.seq /\ r.when > 0
    BY <1>1, <1>2, <1>4, <1>6, <1>8 DEF Remembers, Numbered
  <2>4. \A r, s \in Live' : r.seq = s.seq => r = s
    BY <1>6, <1>10 DEF Remembers, Numbered
  <2>5. \A d, e \in Waiting' : claim'[d].seq = claim'[e].seq => d = e
    BY <1>7, <1>8 DEF Remembers, Numbered
  <2>6. \A d \in Waiting', r \in gone' : r.seq # claim'[d].seq
    <3> SUFFICES ASSUME NEW d \in Waiting', NEW r \in gone'
                 PROVE  r.seq # claim'[d].seq
      OBVIOUS
    <3>1. r \in gone \/ r = n
      BY <1>3 DEF n
    <3>2. r \in gone => r \in Live
      BY DEF Live
    <3>3. CASE d \in Waiting /\ claim'[d] = claim[d] /\ d # c
      BY <1>4, <1>8, <3>1, <3>3 DEF Remembers, Numbered
    <3>4. CASE claim'[d].seq = win.seq + 1 /\ gone' = gone
      BY <1>4, <1>10, <3>2, <3>4
    <3> QED
      BY <1>7, <3>3, <3>4
  <2> QED
    BY <2>1, <2>2, <2>3, <2>4, <2>5, <2>6 DEF Numbered
<1>13. SlotsRemember'
  <2> SUFFICES ASSUME NEW r \in Live'
               PROVE  Behind(r, win'.slots[r.slot])
    BY DEF SlotsRemember, Behind
  <2>1. CASE r = n
    <3>1. r.slot = i /\ r.seq = win.seq + 1 /\ r.when = res.when
      BY <1>4, <2>1
    <3>2. win'.slots[r.slot].seq = r.seq /\ win'.slots[r.slot].when = r.when
      BY <1>1, <1>entry, <3>1
    <3> QED
      BY <1>8, <3>1, <3>2 DEF Behind
  <2>2. CASE r \in Live /\ r.slot = i
    <3>1. r.seq <= win.seq /\ r.seq \in Nat /\ r.when + Window <= res.when
      BY <1>4, <1>9, <1>10, <1>11, <2>2 DEF GoneType
    <3>2. win'.slots[r.slot].seq = win.seq + 1 /\ win'.slots[r.slot].when = res.when
      BY <1>1, <1>entry, <2>2
    <3> QED
      BY <1>8, <3>1, <3>2 DEF Behind
  <2>3. CASE r \in Live /\ r.slot # i
    <3>1. Behind(r, win.slots[r.slot]) /\ r.slot \in 1..Requests
      BY <1>9, <2>3 DEF Remembers, SlotsRemember, GoneType
    <3> QED
      BY <1>entry, <2>3, <3>1
  <2> QED
    BY <1>6, <2>1, <2>2, <2>3
<1>14. RefundsRemember'
  <2> SUFFICES ASSUME NEW d \in Waiting', NEW r \in Live',
                      r.slot = claim'[d].slot, r.seq < claim'[d].seq
               PROVE  Behind(r, claim'[d].prev)
    BY DEF RefundsRemember, Behind
  <2>1. CASE d \in Waiting /\ claim'[d] = claim[d]
    <3>1. r # n
      BY <1>4, <1>8, <2>1 DEF Remembers, Numbered
    <3> QED
      BY <1>6, <2>1, <3>1 DEF Remembers, RefundsRemember
  <2>2. CASE /\ claim'[d].slot = i /\ claim'[d].seq = win.seq + 1
             /\ claim'[d].prev = win.slots[i]
    <3>1. r \in Live
      BY <1>4, <1>6, <1>8, <2>2
    <3> QED
      BY <2>2, <3>1 DEF Remembers, SlotsRemember
  <2> QED
    BY <1>7, <2>1, <2>2
<1>15. Spaced'
  <2> SUFFICES ASSUME NEW r \in Live', NEW s \in Live',
                      r.slot = s.slot, r.seq < s.seq
               PROVE  r.when + Window <= s.when
    BY DEF Spaced
  <2>1. CASE r \in Live /\ s \in Live
    BY <2>1 DEF Remembers, Spaced
  <2>2. CASE r \in Live /\ s = n
    BY <1>4, <1>11, <2>2
  <2>3. CASE r = n
    BY <1>4, <1>6, <1>8, <1>9, <1>10, <2>3 DEF GoneType
  <2> QED
    BY <1>6, <2>1, <2>2, <2>3
<1> QED
  BY <1>12, <1>13, <1>14, <1>15 DEF Remembers

(* Proceed: the claim moves from the caller to history and counts as before. *)
LEMMA RemembersProceed ==
  ASSUME TypeOK, Remembers, NEW c \in Callers, Proceed(c)
  PROVE  Remembers'
<1>1. Waiting' = Waiting \ {c} /\ c \in Waiting
  BY DEF Proceed, Waiting, TypeOK
<1>2. \A d \in Waiting' : claim'[d] = claim[d]
  BY <1>1 DEF Proceed, TypeOK, Waiting
<1>3. gone' = gone \cup {Record(claim[c])} /\ win' = win
  BY DEF Proceed
<1>4. Live' = Live
  BY <1>1, <1>2, <1>3 DEF Live
<1>5. Record(claim[c]).seq = claim[c].seq
  BY DEF Record
<1>6. Numbered'
  <2>1. \A i \in 1..Requests : Proper(win.slots[i])'
    BY <1>3 DEF Remembers, Numbered, Proper
  <2>2. \A d \in Waiting' :
          /\ claim'[d].seq \in 1..win'.seq /\ claim'[d].when <= claim'[d].until
          /\ Proper(claim[d].prev)' /\ claim'[d].prev.seq < claim'[d].seq
    BY <1>1, <1>2, <1>3 DEF Remembers, Numbered, Proper
  <2>3. \A r \in Live' : r.seq \in 1..win'.seq /\ r.when > 0
    BY <1>3, <1>4 DEF Remembers, Numbered
  <2>4. \A r, s \in Live' : r.seq = s.seq => r = s
    BY <1>4 DEF Remembers, Numbered
  <2>5. \A d, e \in Waiting' : claim'[d].seq = claim'[e].seq => d = e
    BY <1>1, <1>2 DEF Remembers, Numbered
  <2>6. \A d \in Waiting', r \in gone' : r.seq # claim'[d].seq
    BY <1>1, <1>2, <1>3, <1>5 DEF Remembers, Numbered
  <2> QED
    BY <2>1, <2>2, <2>3, <2>4, <2>5, <2>6 DEF Numbered
<1>7. SlotsRemember'
  BY <1>3, <1>4 DEF Remembers, SlotsRemember, Behind
<1>8. RefundsRemember'
  BY <1>1, <1>2, <1>4 DEF Remembers, RefundsRemember, Behind
<1>9. Spaced'
  BY <1>4 DEF Remembers, Spaced
<1> QED
  BY <1>6, <1>7, <1>8, <1>9 DEF Remembers

(* GiveUp: the claim stops counting, and what comes back into its slot     *)
(* stands for every claim that still counts.                               *)
LEMMA RemembersGiveUp ==
  ASSUME TypeOK, Remembers, NEW c \in Callers, GiveUp(c)
  PROVE  Remembers'
<1> DEFINE i == claim[c].slot
<1>1. Waiting' = Waiting \ {c} /\ c \in Waiting
  BY DEF GiveUp, Waiting, TypeOK
<1>2. \A d \in Waiting' : claim'[d] = claim[d]
  BY <1>1 DEF GiveUp, TypeOK, Waiting
<1>3. Live' \subseteq Live /\ gone' = gone
  BY <1>1, <1>2 DEF GiveUp, Live
<1>4. \A r \in Live' : r.seq # claim[c].seq
  <2>1. \A d \in Waiting' : Record(claim[d]).seq = claim[d].seq
    BY DEF Record
  <2> QED
    BY <1>1, <1>2, <1>3, <2>1 DEF Remembers, Numbered, Live
<1>5. win.slots[i].seq = claim[c].seq =>
        win' = [win EXCEPT !.slots[i] = claim[c].prev]
  BY DEF GiveUp, Released
<1>6. win.slots[i].seq # claim[c].seq => win' = win
  BY DEF GiveUp, Released
<1>7. /\ win'.seq = win.seq
      /\ \A j \in 1..Requests : \/ win'.slots[j] = win.slots[j]
                               \/ /\ j = i
                                  /\ win.slots[j].seq = claim[c].seq
                                  /\ win'.slots[j] = claim[c].prev
  BY <1>5, <1>6 DEF TypeOK
<1>8. Numbered'
  <2>1. \A j \in 1..Requests : Proper(win.slots[j])'
    BY <1>1, <1>7 DEF Remembers, Numbered, Proper
  <2>2. \A d \in Waiting' :
          /\ claim'[d].seq \in 1..win'.seq /\ claim'[d].when <= claim'[d].until
          /\ Proper(claim[d].prev)' /\ claim'[d].prev.seq < claim'[d].seq
    BY <1>1, <1>2, <1>7 DEF Remembers, Numbered, Proper
  <2>3. \A r \in Live' : r.seq \in 1..win'.seq /\ r.when > 0
    BY <1>3, <1>7 DEF Remembers, Numbered
  <2>4. \A r, s \in Live' : r.seq = s.seq => r = s
    BY <1>3 DEF Remembers, Numbered
  <2>5. \A d, e \in Waiting' : claim'[d].seq = claim'[e].seq => d = e
    BY <1>1, <1>2 DEF Remembers, Numbered
  <2>6. \A d \in Waiting', r \in gone' : r.seq # claim'[d].seq
    BY <1>1, <1>2, <1>3 DEF Remembers, Numbered
  <2> QED
    BY <2>1, <2>2, <2>3, <2>4, <2>5, <2>6 DEF Numbered
<1>9. SlotsRemember'
  <2> SUFFICES ASSUME NEW r \in Live'
               PROVE  Behind(r, win'.slots[r.slot])
    BY DEF SlotsRemember, Behind
  <2>1. r \in Live /\ r \in GoneType /\ r.slot \in 1..Requests /\ r.seq \in Nat
    BY <1>3, LiveType DEF GoneType
  <2>2. Behind(r, win.slots[r.slot])
    BY <2>1 DEF Remembers, SlotsRemember
  <2>3. CASE /\ r.slot = i /\ win.slots[r.slot].seq = claim[c].seq
             /\ win'.slots[r.slot] = claim[c].prev
    <3>1. claim[c].seq \in Nat
      BY DEF TypeOK, ClaimType
    <3>2. r.seq < claim[c].seq
      BY <1>4, <2>1, <2>2, <2>3, <3>1 DEF Behind
    <3> QED
      BY <1>1, <2>1, <2>3, <3>2 DEF Remembers, RefundsRemember
  <2> QED
    BY <1>7, <2>1, <2>2, <2>3
<1>10. RefundsRemember'
  BY <1>1, <1>2, <1>3 DEF Remembers, RefundsRemember, Behind
<1>11. Spaced'
  BY <1>3 DEF Remembers, Spaced
<1> QED
  BY <1>8, <1>9, <1>10, <1>11 DEF Remembers

(* Steps that touch neither slots nor claims. *)
LEMMA RemembersOther ==
  ASSUME Remembers,
         win'.slots = win.slots, win'.seq = win.seq,
         UNCHANGED <<state, claim, gone>>
  PROVE  Remembers'
<1>1. Live' = Live /\ Waiting' = Waiting
  BY DEF Live, Waiting
<1>2. Numbered'
  BY <1>1 DEF Remembers, Numbered, Proper
<1>3. SlotsRemember' /\ RefundsRemember' /\ Spaced'
  BY <1>1 DEF Remembers, SlotsRemember, RefundsRemember, Spaced, Behind
<1> QED
  BY <1>2, <1>3 DEF Remembers

LEMMA InvStep == IInv /\ [Next]_vars => IInv'
<1> SUFFICES ASSUME IInv, [Next]_vars
             PROVE  IInv'
  OBVIOUS
<1>1. TypeOK /\ Remembers /\ TypeOK'
  BY TypeStep DEF IInv, Remembers
<1>2. CASE \E c \in Callers : Wait(c) \/ Proceed(c) \/ GiveUp(c)
  BY <1>1, <1>2, RemembersWait, RemembersProceed, RemembersGiveUp DEF IInv, Remembers
<1>3. CASE Refused
  <2>1. win'.slots = win.slots /\ win'.seq = win.seq
    BY <1>1, <1>3 DEF Refused, Frozen, TypeOK
  <2> QED
    BY <1>1, <1>3, <2>1, RemembersOther DEF Refused, IInv, Remembers
<1>4. CASE Tick
  BY <1>1, <1>4, RemembersOther DEF Tick, IInv, Remembers
<1>5. CASE UNCHANGED vars
  BY <1>1, <1>5, RemembersOther DEF vars, IInv, Remembers
<1> QED
  BY <1>2, <1>3, <1>4, <1>5 DEF Next

(* The inductive invariant holds in every behaviour. *)
THEOREM Invariant == Spec => []IInv
<1>1. Init => IInv
  BY TypeInit, RemembersInit DEF IInv, Remembers
<1> QED
  BY <1>1, InvStep, PTL DEF Spec
---------------------------------------------------------------------------
(* Claims that count and fall into one period sit on different slots, so   *)
(* there are no more of them than slots.                                   *)
LEMMA OnePerSlot ==
  ASSUME IInv, NEW t \in Instants
  PROVE  IsFiniteSet(InPeriod(t)) /\ Cardinality(InPeriod(t)) <= Requests
<1> DEFINE slotOf == [r \in InPeriod(t) |-> r.slot]
<1>1. \A r \in InPeriod(t) : r \in Live /\ r \in GoneType
  BY LiveType DEF InPeriod, IInv
<1>2. slotOf \in [InPeriod(t) -> 1..Requests]
  BY <1>1 DEF GoneType
<1>3. ASSUME NEW r \in InPeriod(t), NEW s \in InPeriod(t), r.slot = s.slot
      PROVE  r = s
  <2>1. /\ r.seq \in Nat /\ s.seq \in Nat /\ r.when \in Nat /\ s.when \in Nat
        /\ t \in Nat /\ Window \in Nat
    BY <1>1, ConstantsAssumption DEF GoneType, Instants
  <2>2. t <= r.when /\ r.when < t + Window /\ t <= s.when /\ s.when < t + Window
    BY DEF InPeriod
  <2>3. /\ r.seq < s.seq => r.when + Window <= s.when
        /\ s.seq < r.seq => s.when + Window <= r.when
    BY <1>1, <1>3 DEF IInv, Spaced
  <2>4. r.seq = s.seq
    BY <2>1, <2>2, <2>3
  <2> QED
    BY <1>1, <2>4 DEF IInv, Numbered
<1>4. slotOf \in Injection(InPeriod(t), 1..Requests)
  BY <1>2, <1>3 DEF Injection, IsInjective
<1>5. IsFiniteSet(1..Requests) /\ Cardinality(1..Requests) = Requests
  <2>1. 1 \in Int /\ Requests \in Int /\ Requests >= 1
    BY ConstantsAssumption
  <2>2. /\ IsFiniteSet(1..Requests)
        /\ Cardinality(1..Requests) = IF 1 > Requests THEN 0 ELSE Requests - 1 + 1
    BY <2>1, FS_Interval
  <2> QED
    BY <2>1, <2>2
<1> HIDE DEF slotOf
<1> QED
  BY <1>4, <1>5, FS_Injection

(* At most Requests of the instants handed out and not given up fall into  *)
(* any period of Window, for every limit and every number of callers.      *)
THEOREM WindowPaced == Spec => []AtMostRequests
<1>1. IInv => AtMostRequests
  BY OnePerSlot DEF AtMostRequests
<1> QED
  BY <1>1, Invariant, PTL
---------------------------------------------------------------------------
(* Admissions forget a claim's slot, prev and until; adding or removing a  *)
(* claim adds or removes its admission.                                    *)
LEMMA AdmissionsAdd ==
  ASSUME NEW A, NEW r
  PROVE  Admissions(A \cup {r}) = Admissions(A) \cup {[id |-> r.seq, at |-> r.when]}
BY DEF Admissions

(* Counting admissions of the claims that count is counting the claims. *)
LEMMA PromisePaced == IInv => Promise!Paced(Admissions(Live))
<1> SUFFICES ASSUME IInv, NEW t \in Instants
             PROVE  Cardinality(Promise!Within(Admissions(Live), t)) <= Requests
  BY DEF Promise!Paced, Cardinality, Promise!Cardinality, IsFiniteSet, Promise!IsFiniteSet
<1> DEFINE W == Promise!Within(Admissions(Live), t)
           f == [r \in InPeriod(t) |-> [id |-> r.seq, at |-> r.when]]
<1>1. \A r \in InPeriod(t) : f[r] \in W
  BY DEF Promise!Within, Admissions, InPeriod
<1>2. \A a \in W : \E r \in InPeriod(t) : f[r] = a
  BY DEF Promise!Within, Admissions, InPeriod
<1>3. f \in Surjection(InPeriod(t), W)
  BY <1>1, <1>2 DEF Surjection
<1>4. IsFiniteSet(InPeriod(t)) /\ Cardinality(InPeriod(t)) <= Requests
  BY OnePerSlot
<1>5. IsFiniteSet(W) /\ Cardinality(W) <= Cardinality(InPeriod(t))
  <2> HIDE DEF f, W
  <2> QED
    BY <1>3, <1>4, FS_Surjection
<1>6. Cardinality(InPeriod(t)) \in Nat /\ Cardinality(W) \in Nat
  BY <1>4, <1>5, FS_CardinalityType
<1> HIDE DEF W
<1> QED
  BY <1>4, <1>5, <1>6, ConstantsAssumption DEF W

(* Each step of the limiter is a step of the abstract one or changes       *)
(* nothing it can see.                                                     *)
LEMMA PromiseStep ==
  ASSUME IInv, IInv', [Next]_vars
  PROVE  [Promise!Next]_Promise!vars
<1> DEFINE waiting == {Record(claim[c]) : c \in Waiting}
           adm(c)  == [id |-> claim[c].seq, at |-> claim[c].when]
<1>0. Admissions(Live) = Admissions(waiting) \cup Admissions(gone)
  BY DEF Admissions, Live
<1>1. ASSUME NEW c \in Callers, Wait(c)
      PROVE  Promise!Next
  <2> DEFINE res == Claim(win, Window, now)
             a   == [id |-> res.seq, at |-> res.when]
  <2>1. /\ res.seq = win.seq + 1 /\ res.when \in Nat /\ res.when >= now
        /\ now \in Nat /\ win.seq \in Nat /\ win.seq < MaxSeq /\ MaxSeq \in Nat
        /\ MaxTime \in Nat
    BY <1>1, ClaimProperties, ConstantsAssumption DEF Wait, IInv, TypeOK
  <2> HIDE DEF res
  <2>2. PICK hold \in now..(now + MaxHold) :
          /\ Held(res, hold).until <= MaxTime
          /\ \/ /\ Held(res, hold).until <= now
                /\ gone' = gone \cup {Record(Held(res, hold))}
                /\ UNCHANGED <<state, claim>>
             \/ /\ state' = [state EXCEPT ![c] = "waiting"]
                /\ claim' = [claim EXCEPT ![c] = Held(res, hold)]
                /\ UNCHANGED gone
    BY <1>1 DEF Wait, res
  <2> DEFINE n == Record(Held(res, hold))
  <2>3. n.seq = res.seq /\ n.when = res.when
    BY DEF Record, Held
  <2>4. res.when <= Held(res, hold).until
    BY <2>1, ConstantsAssumption DEF Held, Later
  <2>5. hold \in Nat /\ Held(res, hold).until \in Nat
    BY <2>1, ConstantsAssumption DEF Held, Later
  <2>6. a \in Promise!Admission
    BY <2>1, <2>2, <2>4, <2>5 DEF Promise!Admission, Instants
  <2>7. Promise!Fresh(a.id)
    <3>1. \A r \in Live : r.seq # res.seq
      BY <2>1 DEF IInv, Numbered
    <3> QED
      BY <1>0, <3>1 DEF Promise!Fresh, Admissions
  <2>8. \/ /\ Admissions(waiting)' = Admissions(waiting) /\ res.when = now
           /\ Admissions(gone)' = Admissions(gone) \cup {a}
        \/ /\ Admissions(waiting)' = Admissions(waiting) \cup {a}
           /\ Admissions(gone)' = Admissions(gone)
    <3>1. CASE /\ Held(res, hold).until <= now
               /\ gone' = gone \cup {n}
               /\ UNCHANGED <<state, claim>>
      <4>1. res.when = now
        BY <2>1, <2>4, <2>5, <3>1
      <4>2. Waiting' = Waiting
        BY <3>1 DEF Waiting
      <4> QED
        <5>1. Admissions(gone \cup {n}) = Admissions(gone) \cup {a}
          <6> HIDE DEF n
          <6> QED
            BY <2>3, AdmissionsAdd
        <5>2. waiting' = waiting
          BY <3>1, <4>2
        <5> QED
          BY <3>1, <4>1, <5>1, <5>2 DEF Admissions
    <3>2. CASE /\ state' = [state EXCEPT ![c] = "waiting"]
               /\ claim' = [claim EXCEPT ![c] = Held(res, hold)]
               /\ UNCHANGED gone
      <4>1. c \notin Waiting /\ Waiting' = Waiting \cup {c}
        BY <1>1, <3>2 DEF Wait, Waiting, IInv, TypeOK
      <4>2. \A d \in Waiting : claim'[d] = claim[d]
        BY <3>2, <4>1 DEF IInv, TypeOK, Waiting
      <4>3. claim'[c] = Held(res, hold)
        BY <3>2 DEF IInv, TypeOK
      <4>4. waiting' = waiting \cup {n}
        BY <4>1, <4>2, <4>3
      <4>5. Admissions(waiting') = Admissions(waiting) \cup {a}
        <5> HIDE DEF n, waiting
        <5> QED
          BY <2>3, <4>4, AdmissionsAdd
      <4> QED
        BY <3>2, <4>5 DEF Admissions
    <3> QED
      BY <2>2, <3>1, <3>2
  <2>9. Promise!Paced(Admissions(waiting) \cup Admissions(gone) \cup {a})
    <3>1. Admissions(Live)' = Admissions(waiting) \cup Admissions(gone) \cup {a}
      <4>1. Admissions(Live)' = Admissions(waiting)' \cup Admissions(gone)'
        BY DEF Admissions, Live
      <4> QED
        BY <2>8, <4>1
    <3>2. IInv' => Promise!Paced(Admissions(Live))'
      BY PromisePaced, PTL
    <3> QED
      BY <3>1, <3>2
  <2>10. Promise!Admit(a)
    BY <1>1, <2>1, <2>7, <2>8, <2>9 DEF Promise!Admit, Wait
  <2> HIDE DEF a
  <2> QED
    BY <2>6, <2>10 DEF Promise!Next
<1>2. ASSUME NEW c \in Callers, Proceed(c) \/ GiveUp(c)
      PROVE  /\ adm(c) \in Admissions(waiting)
             /\ Admissions(waiting)' = Admissions(waiting) \ {adm(c)}
  <2>1. c \in Waiting /\ Waiting' = Waiting \ {c}
    BY <1>2 DEF Proceed, GiveUp, Waiting, IInv, TypeOK
  <2>2. \A d \in Waiting' : claim'[d] = claim[d]
    BY <1>2, <2>1 DEF Proceed, GiveUp, Waiting, IInv, TypeOK
  <2>3. \A d \in Waiting : claim[d].seq = claim[c].seq => d = c
    BY <2>1 DEF IInv, Numbered
  <2>4. \A d \in Callers : /\ Record(claim[d]).seq = claim[d].seq
                          /\ Record(claim[d]).when = claim[d].when
    BY DEF Record
  <2>5. Admissions(waiting) = {adm(d) : d \in Waiting}
    <3>1. \A d \in Waiting : [id |-> Record(claim[d]).seq, at |-> Record(claim[d]).when] = adm(d)
      BY <2>4 DEF Waiting
    <3>2. Admissions(waiting) =
            {[id |-> Record(claim[d]).seq, at |-> Record(claim[d]).when] : d \in Waiting}
      BY DEF Admissions
    <3> QED
      BY <3>1, <3>2
  <2>6. Admissions(waiting)' = {adm(d) : d \in Waiting'}
    <3>1. waiting' = {Record(claim[d]) : d \in Waiting'}
      BY <2>2
    <3>2. \A d \in Waiting' : [id |-> Record(claim[d]).seq, at |-> Record(claim[d]).when] = adm(d)
      BY <2>1, <2>4 DEF Waiting
    <3>3. Admissions(waiting)' =
            {[id |-> Record(claim[d]).seq, at |-> Record(claim[d]).when] : d \in Waiting'}
      BY <3>1 DEF Admissions
    <3> QED
      BY <3>2, <3>3
  <2> QED
    BY <2>1, <2>3, <2>5, <2>6
<1>3. ASSUME NEW c \in Callers, Proceed(c)
      PROVE  Promise!Next
  <2>1. gone' = gone \cup {Record(claim[c])} /\ now' = now /\ now >= claim[c].until
    BY <1>3 DEF Proceed
  <2>2. Admissions(gone)' = Admissions(gone) \cup {adm(c)}
    <3>1. /\ Record(claim[c]).seq = claim[c].seq
          /\ Record(claim[c]).when = claim[c].when
      BY DEF Record
    <3> QED
      BY ZenonT(60), <2>1, <3>1, AdmissionsAdd DEF Admissions
  <2>3. adm(c).at <= now
    <3>1. /\ claim[c].when \in Nat /\ claim[c].until \in Nat /\ now \in Nat
          /\ claim[c].when <= claim[c].until
      BY <1>3 DEF Proceed, IInv, TypeOK, ClaimType, Numbered, Waiting
    <3> QED
      BY <2>1, <3>1
  <2>4. Promise!Go(adm(c))
    BY <1>2, <1>3, <2>1, <2>2, <2>3, Zenon DEF Promise!Go
  <2> QED
    BY <1>2, <1>3, <2>4, Zenon DEF Promise!Next
<1>6. ASSUME NEW c \in Callers, GiveUp(c)
      PROVE  Promise!Next
  <2>1. gone' = gone /\ now' = now /\ Admissions(gone)' = Admissions(gone)
    BY <1>6 DEF GiveUp, Admissions
  <2>2. Promise!Withdraw(adm(c))
    BY <1>2, <1>6, <2>1 DEF Promise!Withdraw
  <2> QED
    BY <1>2, <1>6, <2>2, Zenon DEF Promise!Next
<1>4. CASE Refused \/ UNCHANGED vars
  BY <1>4 DEF Refused, vars, Promise!vars, Waiting
<1>5. CASE Tick
  BY <1>5 DEF Tick, Promise!Next, Promise!Tick, Waiting, IInv, TypeOK
<1> QED
  BY <1>1, <1>3, <1>4, <1>5, <1>6 DEF Next

(* The sliding window implements the promise of RateWindow.                *)
THEOREM Implements == Spec => KeepsPromise
<1>1. Init => Promise!Init
  BY DEF Init, Promise!Init, Admissions, Waiting
<1> QED
  BY <1>1, PromiseStep, Invariant, PTL DEF Spec, KeepsPromise
====
