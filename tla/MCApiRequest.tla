----------------------------- MODULE MCApiRequest -----------------------------
(* Small instances of ApiRequest for TLC. *)
EXTENDS ApiRequest, TLC

Symm == Permutations(Requests)
=============================================================================
