--------------------------- MODULE MCBrokerSession ---------------------------
(* Two letters in the source queue of one migrator. *)
EXTENDS BrokerSession, TLC

CONSTANTS dlq,    \* migrator
          a, b    \* letters

OneLane == (a :> dlq) @@ (b :> dlq)
=============================================================================
