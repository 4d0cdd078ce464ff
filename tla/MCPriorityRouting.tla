-------------------------- MODULE MCPriorityRouting --------------------------
(* Instances of PriorityRouting for TLC.                                     *)
EXTENDS PriorityRouting, TLC

CONSTANTS d1, d2,    \* deliveries
          t1, p1,    \* messages, t1 transactional
          c1, c2     \* goroutines

\* One delivery with both kinds and an empty one.
OneMixed == (d1 :> {t1, p1}) @@ (d2 :> {})
=============================================================================
