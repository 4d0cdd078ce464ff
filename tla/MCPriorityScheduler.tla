------------------------- MODULE MCPriorityScheduler -------------------------
(* Instances of PriorityScheduler for TLC: two delivery processors of one    *)
(* queue, or these and one of a second queue.                                *)
EXTENDS PriorityScheduler

CONSTANTS gold, bulk,   \* queues
          a, b, c       \* workers

Pair      == {a, b}
PairHome  == [w \in Pair |-> bulk]
Mixed     == {a, c}
MixedHome == [w \in Mixed |-> IF w = c THEN gold ELSE bulk]

\* A weight that is not positive takes the fallbacks of capacity and refill.
OddWeights == {-1, 2}
=============================================================================
