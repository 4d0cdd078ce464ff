-------------------------- MODULE MCDeliveryPipeline --------------------------
(* Instances of DeliveryPipeline for TLC: one goroutine for each consumed     *)
(* queue; the gateway queue with the promotional retry queue; or the same     *)
(* with two goroutines for the gateway queue.                                 *)
EXTENDS DeliveryPipeline

CONSTANTS gw, gw2, api, tx, pr,   \* goroutines
          m1, m2                  \* messages

QueueOf(c) == CASE c \in {gw, gw2} -> Gateway
                [] c = api -> ApiV2
                [] c = tx  -> TransactionalRetry
                [] c = pr  -> PromotionalRetry

EachQueue        == {gw, api, tx, pr}
EachQueueReads   == [c \in EachQueue |-> QueueOf(c)]
GatewayOnly      == {gw, pr}
GatewayOnlyReads == [c \in GatewayOnly |-> QueueOf(c)]
TwinsRetry       == {gw, gw2, pr}
TwinsRetryReads  == [c \in TwinsRetry |-> QueueOf(c)]
=============================================================================
