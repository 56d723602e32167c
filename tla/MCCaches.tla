-------------------------------- MODULE MCCaches --------------------------------
(* Small instances of Caches for TLC: two exchange objects of one name, the      *)
(* first of which cares for more market types; a perpetual and a future with     *)
(* tiers of their own.                                                           *)
EXTENDS Caches, TLC

CONSTANTS e1, e2, spot, linear

Cares == (e1 :> {spot, linear}) @@ (e2 :> {spot})

\* The second fetch misses a code of the first, the third brings it again.
Codes3 == <<{"btc", "eth"}, {"eth"}, {"btc", "eth"}>>

Perp   == {[floor |-> 0, cap |-> 2, lev |-> 5, rate |-> 1],
           [floor |-> 2, cap |-> 4, lev |-> 3, rate |-> 2],
           [floor |-> 4, cap |-> 8, lev |-> 2, rate |-> 4]}
Future == {[floor |-> 0, cap |-> 2, lev |-> 4, rate |-> 1],
           [floor |-> 2, cap |-> 3, lev |-> 1, rate |-> 2]}

McTiers == [s \in {"perp", "future", "*"} |-> IF s = "future" THEN Future ELSE Perp]

ASSUME TiersInSteps == InSteps

Symm == Permutations(Callers)
=================================================================================
