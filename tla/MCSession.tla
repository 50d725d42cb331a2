---- MODULE MCSession ----
(***************************************************************************)
(* One order and one read, which share nothing but the network: two tries  *)
(* of the read after the first, and the order submitted up to three times, *)
(* with copies of earlier submissions still on their way.                  *)
(***************************************************************************)
EXTENDS Session
====
