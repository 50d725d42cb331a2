---- MODULE MCWsConn ----
(***************************************************************************)
(* Two ids and one or two callers changing them: enough for a change to    *)
(* miss a resubscribe, and for two frames to cross.                        *)
(***************************************************************************)
EXTENDS WsConn, TLC

Symmetry == Permutations(Callers) \cup Permutations(Ids \ InitialIds)
====
