------------------------------ MODULE MCOutChans ------------------------------
(* Small instances of OutChans for TLC. *)
EXTENDS OutChans, TLC

Symm == Permutations(Users) \cup Permutations(Readers) \cup Permutations(Syms)
          \cup Permutations(Chans) \cup Permutations(RefMaps)
===============================================================================
