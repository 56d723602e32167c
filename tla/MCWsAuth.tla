------------------------------- MODULE MCWsAuth -------------------------------
(* Small instances of WsAuth for TLC. *)
EXTENDS WsAuth, TLC

Symm == Permutations(Callers) \cup Permutations(Chans) \cup Permutations(Keys)
===============================================================================
