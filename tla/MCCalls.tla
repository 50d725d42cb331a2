---- MODULE MCCalls ----
(***************************************************************************)
(* A process that does anything twice, and one of the same wallet that     *)
(* starts up beside it; reads are retried once, and a listing has three    *)
(* rows in pages of two.                                                   *)
(***************************************************************************)
EXTENDS Calls
====
