------------------------------- MODULE MCWsSubs -------------------------------
(* Small instances of WsSubs for TLC. *)
EXTENDS WsSubs, TLC

Symm == Permutations(Callers) \cup Permutations(Objs) \cup Permutations(Keys)
===============================================================================
