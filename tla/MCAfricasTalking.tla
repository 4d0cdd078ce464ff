--------------------------- MODULE MCAfricasTalking ---------------------------
(* Instances of AfricasTalking for TLC.                                       *)
EXTENDS AfricasTalking, TLC

CONSTANTS d1, d2,        \* deliveries
          m1, m2, m3,    \* messages
          c1, c2         \* goroutines

\* A batch with two valid messages and an invalid one, and an empty batch.
MixedBatch  == (d1 :> {m1, m2, m3}) @@ (d2 :> {})
\* A valid and an invalid message, and an empty batch.
SmallBatch  == (d1 :> {m1, m3}) @@ (d2 :> {})
\* The documented use: one message in each delivery.
SingleBatch == (d1 :> {m1}) @@ (d2 :> {m2})
=============================================================================
