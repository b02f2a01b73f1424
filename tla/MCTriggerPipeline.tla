--------------------------- MODULE MCTriggerPipeline ---------------------------
(* Values for model checking TriggerPipeline: which pull request each       *)
(* comment belongs to, and the symmetry of the row ids.                     *)
EXTENDS TriggerPipeline, TLC

CONSTANTS i1, i2, p1, p2, c1, c2, r1, d1, d2

OnePr == [c \in Comments |-> p1]
TwoPrs == [c \in Comments |-> IF c = c1 THEN p1 ELSE p2]
RowSymmetry == Permutations(ItemIds)
=============================================================================
