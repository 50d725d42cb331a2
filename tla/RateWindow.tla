---- MODULE RateWindow ----
(***************************************************************************)
(* What a sliding-window limiter promises, with no slot in sight: every    *)
(* request is admitted at an instant, a request that has not gone yet may  *)
(* be withdrawn, one that has gone counts for ever, and no period of       *)
(* Window holds more than Requests of the instants admitted.               *)
(***************************************************************************)
EXTENDS Naturals, FiniteSets

CONSTANTS
  Requests,   \* the allowance
  Window,     \* the period it is counted over
  Id,         \* names of requests
  Instant     \* the instants a request may be admitted at

VARIABLES
  now,        \* the clock
  waiting,    \* admitted, not gone: a set of [id, at]
  gone        \* admitted and gone

vars == <<now, waiting, gone>>

Admission == [id : Id, at : Instant]

(* The admissions of a set that fall into the period starting at t. *)
Within(admissions, t) == {a \in admissions : t <= a.at /\ a.at < t + Window}

Paced(admissions) ==
  \A t \in Instant : Cardinality(Within(admissions, t)) <= Requests

Init == now = 1 /\ waiting = {} /\ gone = {}

Fresh(id) == \A a \in waiting \cup gone : a.id # id

(* A request is admitted, to wait or, when its instant is now, to go. *)
Admit(a) ==
  /\ Fresh(a.id)
  /\ a.at >= now
  /\ Paced(waiting \cup gone \cup {a})
  /\ \/ waiting' = waiting \cup {a} /\ gone' = gone
     \/ a.at = now /\ gone' = gone \cup {a} /\ waiting' = waiting
  /\ UNCHANGED now

(* A waiting request goes, never before its instant. *)
Go(a) ==
  /\ a \in waiting
  /\ a.at <= now
  /\ waiting' = waiting \ {a}
  /\ gone' = gone \cup {a}
  /\ UNCHANGED now

(* A waiting request is given up. *)
Withdraw(a) ==
  /\ a \in waiting
  /\ waiting' = waiting \ {a}
  /\ UNCHANGED <<now, gone>>

Tick == now' > now /\ UNCHANGED <<waiting, gone>>

Next ==
  \/ \E a \in Admission : Admit(a)
  \/ \E a \in waiting : Go(a) \/ Withdraw(a)
  \/ Tick

Spec == Init /\ [][Next]_vars
====
