---- MODULE MCWindowWait ----
(***************************************************************************)
(* A window of two sends every two instants, two callers and four          *)
(* reservations: enough for a claim to displace one that went and one that *)
(* is pending, for refunds in either order, and for a request to queue     *)
(* behind a freeze and behind another.                                     *)
(***************************************************************************)
EXTENDS WindowWait
====
