---------------------------- MODULE MCSdpBatching ----------------------------
(* Two workers and three deliveries: an SDP message, an SDP message the API   *)
(* refuses together with a regular one, and an empty delivery.                *)
EXTENDS SdpBatching, TLC

CONSTANTS d0, d1, d2,    \* deliveries
          p1, p2, r1,    \* messages, r1 not for the SDP batch path
          w1, w2         \* workers

Mixed     == (d0 :> {}) @@ (d1 :> {p1}) @@ (d2 :> {p2, r1})
OneSender == [m \in {p1, p2, r1} |-> "a"]
\* Two deliveries to be acknowledged together, and an empty one with another.
TwoLoads  == {{d1, d2}, {d0, d1}}
\* The first delivery may be handed out twice.
FirstOnly == (d0 :> 1) @@ (d1 :> 1) @@ (d2 :> 0)
=============================================================================
