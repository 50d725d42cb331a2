---- MODULE MCSignIn ----
(***************************************************************************)
(* Two callers of different accounts over one jar.                         *)
(***************************************************************************)
EXTENDS SignIn

CONSTANTS c1, c2, a, b

TwoAccounts == [c \in {c1, c2} |-> IF c = c1 THEN a ELSE b]
====
