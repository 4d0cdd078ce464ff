---------------------------- MODULE MessageCustody ----------------------------
(***************************************************************************)
(* What the gateway promises to whoever publishes an SMS to one of its     *)
(* input queues: once accepted, the message is settled at some time, and   *)
(* that is final.  How often it is sent is not part of the promise.        *)
(***************************************************************************)
CONSTANT Msg

VARIABLE status

Init == status = [m \in Msg |-> "new"]

Accept(S) ==
  /\ S # {} /\ \A m \in S : status[m] = "new"
  /\ status' = [m \in Msg |-> IF m \in S THEN "accepted" ELSE status[m]]

Settle(S) ==
  /\ S # {} /\ \A m \in S : status[m] = "accepted"
  /\ status' = [m \in Msg |-> IF m \in S THEN "settled" ELSE status[m]]

Next == \E S \in SUBSET Msg : Accept(S) \/ Settle(S)

Safety == Init /\ [][Next]_status

Spec ==
  /\ Safety
  /\ \A m \in Msg : WF_status(\E S \in SUBSET Msg : m \in S /\ Settle(S))
=============================================================================
