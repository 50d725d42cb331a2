---- MODULE MCFeed ----
(***************************************************************************)
(* The two tokens of a market, two breaks and a malformed frame.           *)
(***************************************************************************)
EXTENDS Feed
====
