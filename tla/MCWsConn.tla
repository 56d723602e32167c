------------------------------- MODULE MCWsConn -------------------------------
(* Small instances of WsConn for TLC. *)
EXTENDS WsConn, TLC

Symm == Permutations(Batches) \cup Permutations(Conns)
===============================================================================
