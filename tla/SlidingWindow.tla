---- MODULE SlidingWindow ----
(***************************************************************************)
(* The sliding window of one endpoint (ratelimit.go, slidingWindow): the   *)
(* last Requests scheduled sends, remembered in an unordered array of      *)
(* slots.  Reserving takes a free slot or displaces the oldest send and    *)
(* queues one Window behind it; releasing puts back what the claim         *)
(* displaced; freezing holds later reservations until an instant.          *)
(*                                                                         *)
(* Instants are naturals and the clock starts at 1, so that 0 is the zero  *)
(* time.Time by which the code marks a free slot and "never frozen".       *)
(***************************************************************************)
EXTENDS Naturals

Later(a, b) == IF b > a THEN b ELSE a

FreeSlot == [when |-> 0, seq |-> 0]

(* newSlidingWindow *)
NewWindow(requests) ==
  [ slots      |-> [i \in 1..Later(requests, 1) |-> FreeSlot],
    seq        |-> 0,
    frozenTill |-> 0 ]

(* The slots a reservation may take: a free one has instant 0, so the      *)
(* least instants are the free slots if there are any and else the oldest  *)
(* sends.  The scan keeps the first of equals.                             *)
Oldest(slots) == {i \in DOMAIN slots : \A j \in DOMAIN slots :
                                          slots[i].when <= slots[j].when}

SlotFor(slots) == CHOOSE i \in Oldest(slots) : \A j \in Oldest(slots) : i <= j

(* When a claim on slot i may be used. *)
ClaimTime(w, i, window, now) ==
  LET expiry == IF w.slots[i].when = 0 THEN now ELSE w.slots[i].when + window
  IN  Later(Later(now, expiry), w.frozenTill)

(* The claim reserve hands out; `when` is the instant it returns with it. *)
Claim(w, window, now) ==
  LET i == SlotFor(w.slots)
  IN  [ slot |-> i,
        seq  |-> w.seq + 1,
        prev |-> w.slots[i],
        when |-> ClaimTime(w, i, window, now) ]

(* The window after handing out that claim. *)
Reserved(w, claim) ==
  [ slots      |-> [w.slots EXCEPT ![claim.slot] =
                      [when |-> claim.when, seq |-> claim.seq]],
    seq        |-> claim.seq,
    frozenTill |-> w.frozenTill ]

(* Mutant of Released: the slot is blanked. *)
ReleasedBlank(w, claim) ==
  IF w.slots[claim.slot].seq = claim.seq
  THEN [w EXCEPT !.slots[claim.slot] = FreeSlot]
  ELSE w

(* release: a claim displaced in the meantime has nothing to give back. *)
Released(w, claim) ==
  IF w.slots[claim.slot].seq = claim.seq
  THEN [w EXCEPT !.slots[claim.slot] = claim.prev]
  ELSE w

Frozen(w, until) == [w EXCEPT !.frozenTill = Later(@, until)]
====
