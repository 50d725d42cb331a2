---- MODULE MCOnchain ----
(***************************************************************************)
(* Two senders that each try twice, while the base fee moves three times.  *)
(***************************************************************************)
EXTENDS Onchain, TLC

Symmetry == Permutations(Senders)
====
