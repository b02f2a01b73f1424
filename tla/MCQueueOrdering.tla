---------------------------- MODULE MCQueueOrdering ----------------------------
(* Values for model checking QueueOrdering: one row that predates the       *)
(* queue_order table beside rows inserted since.                            *)
EXTENDS QueueOrdering, TLC

CONSTANTS first, a, b

NewRows == Permutations(ItemIds \ Legacy)

\* The swaps of moveItems on a list longer than the state space allows, for
\* every selection and direction.
ASSUME LongMoves ==
    \A n \in 1..6 : \A S \in SUBSET (1..n), up \in BOOLEAN :
        LET o == [k \in 1..n |-> k]
            new == Moved(o, S, up)
        IN  List!IsList(new) /\ List!Moved(o, new, S, up)

=============================================================================
