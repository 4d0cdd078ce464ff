--------------------------- MODULE PriorityRouting ---------------------------
(***************************************************************************)
(* Priority routing: RouteDelivery splits a delivery into transactional    *)
(* and promotional messages, has the TransactionalHandler process the      *)
(* former and the PriorityScheduler admit the latter, and acknowledges or  *)
(* requeues the delivery as a whole (message_router.go,                    *)
(* transactional_handler.go ProcessBatch, priority_scheduler.go and        *)
(* processor.go ProcessMessages).                                          *)
(*                                                                         *)
(* A message is handed over when its result is published, to SAVE_TO_DB,   *)
(* the DLQ or a delay queue; what happens to it then is DeliveryPipeline.  *)
(* When a credit is granted is PriorityScheduler; here it may take for     *)
(* ever.                                                                   *)
(***************************************************************************)
EXTENDS Integers, FiniteSets

CONSTANTS
  Delivery, Msg,
  Batch,              \* Batch[d]: the messages of delivery d
  Transactional,      \* messages with packageId = TRANSACTIONAL
  Consumer,           \* delivery-processing goroutines
  NoDelivery,
  MaxReturns,         \* bound: returns of a message to the queue
  MaxFaults,          \* bound: publish errors, lost connections, crashes
  MaxCancels          \* bound: shutdown signals

ASSUME RoutingConstantsOK ==
  /\ Batch \in [Delivery -> SUBSET Msg]
  /\ \A d, e \in Delivery : d # e => Batch[d] \cap Batch[e] = {}
  /\ Transactional \subseteq Msg
  /\ NoDelivery \notin Delivery
  /\ IsFiniteSet(Consumer) /\ {"ready", "gone"} \cap Consumer = {}
  /\ MaxReturns \in Nat /\ MaxFaults \in Nat /\ MaxCancels \in Nat

VARIABLES
  where,      \* where[d]: ready in the queue, unacked at a goroutine, or gone
  job,        \* job[c]: the delivery c routes
  pc,         \* pc[c]: where in RouteDelivery c is
  todo,       \* todo[c]: messages of this half without a result
  out,        \* out[c]: messages of this half whose result is not published
  failed,     \* failed[c]: processingFailed
  ctxDone,
  accepted,   \* history: how often an MNO accepted the message
  handed,     \* history: how often its result was published
  returned,   \* history: how often its unacked delivery was returned
  swallowed,  \* history: messages whose publish error ProcessBatch only logged
  abandoned,  \* history: messages a worker gave up on ctx.Done
  tried,      \* history: messages processed at least once
  faults, cancels

task    == <<job, pc, todo, out, failed>>
history == <<accepted, handed, returned, swallowed, abandoned, tried>>
env     == <<ctxDone, faults, cancels>>
vars    == <<where, job, pc, todo, out, failed, ctxDone, accepted, handed, returned,
             swallowed, abandoned, tried, faults, cancels>>

TypeOK ==
  /\ where \in [Delivery -> {"ready", "gone"} \cup Consumer]
  /\ job \in [Consumer -> Delivery \cup {NoDelivery}]
  /\ pc \in [Consumer -> {"idle", "transactional", "credit", "promotional", "close"}]
  /\ todo \in [Consumer -> SUBSET Msg] /\ out \in [Consumer -> SUBSET Msg]
  /\ failed \in [Consumer -> BOOLEAN]
  /\ ctxDone \in BOOLEAN
  /\ accepted \in [Msg -> Nat] /\ handed \in [Msg -> Nat] /\ returned \in [Msg -> Nat]
  /\ swallowed \subseteq Transactional /\ abandoned \subseteq Msg \ Transactional
  /\ tried \subseteq Msg
  /\ faults \in 0 .. MaxFaults /\ cancels \in 0 .. MaxCancels

-----------------------------------------------------------------------------
Unacked  == {d \in Delivery : where[d] \in Consumer}
Promo(d) == Batch[d] \ Transactional

Requeue(S) ==
  /\ where' = [d \in Delivery |-> IF d \in S THEN "ready" ELSE where[d]]
  /\ returned' = [m \in Msg |-> returned[m] + Cardinality({d \in S : m \in Batch[d]})]

Bump(counter, m) == [counter EXCEPT ![m] = @ + 1]

Goto(c, label) == pc' = [pc EXCEPT ![c] = label]

\* m gets its result, with ok that of an MNO that accepted it.
Processed(c, m, ok) ==
  /\ m \in todo[c]
  /\ todo' = [todo EXCEPT ![c] = @ \ {m}]
  /\ out' = [out EXCEPT ![c] = @ \cup {m}]
  /\ accepted' = IF ok THEN Bump(accepted, m) ELSE accepted
  /\ tried' = tried \cup {m}

\* The result of m is published.
HandedOver(c, m) ==
  /\ todo[c] = {} /\ m \in out[c]
  /\ out' = [out EXCEPT ![c] = @ \ {m}]
  /\ handed' = Bump(handed, m)

-----------------------------------------------------------------------------
(* Faulty variants of the actions below. *)

\* A transactional message that failed goes back on the work channel.
TransactionalAgain(c, m, ok) ==
  /\ pc[c] = "transactional" /\ m \in todo[c]
  /\ todo' = IF ok /\ accepted[m] = 0 THEN todo ELSE [todo EXCEPT ![c] = @ \ {m}]
  /\ out' = [out EXCEPT ![c] = @ \cup {m}]
  /\ accepted' = IF ok THEN Bump(accepted, m) ELSE accepted
  /\ tried' = tried \cup {m}
  /\ UNCHANGED <<where, job, pc, failed, handed, returned, swallowed, abandoned, env>>

\* The error of the promotional half is dropped like that of the other.
PromotionalErrorIgnored(c) ==
  /\ faults < MaxFaults
  /\ pc[c] = "promotional" /\ todo[c] = {} /\ out[c] # {}
  /\ out' = [out EXCEPT ![c] = {}]
  /\ faults' = faults + 1
  /\ Goto(c, "close")
  /\ UNCHANGED <<where, job, todo, failed, history, ctxDone, cancels>>

\* Promotional messages are routed first and wait for their credit.
RoutePromotionalFirst(c, d) ==
  /\ pc[c] = "idle" /\ where[d] = "ready" /\ Batch[d] # {}
  /\ \A m \in Batch[d] : returned[m] <= MaxReturns
  /\ where' = [where EXCEPT ![d] = c]
  /\ job' = [job EXCEPT ![c] = d]
  /\ todo' = [todo EXCEPT ![c] = Batch[d] \cap Transactional]
  /\ Goto(c, "credit")
  /\ UNCHANGED <<out, failed, history, env>>

-----------------------------------------------------------------------------
Init ==
  /\ where = [d \in Delivery |-> "ready"]
  /\ job = [c \in Consumer |-> NoDelivery]
  /\ pc = [c \in Consumer |-> "idle"]
  /\ todo = [c \in Consumer |-> {}] /\ out = [c \in Consumer |-> {}]
  /\ failed = [c \in Consumer |-> FALSE]
  /\ ctxDone = FALSE
  /\ accepted = [m \in Msg |-> 0] /\ handed = [m \in Msg |-> 0]
  /\ returned = [m \in Msg |-> 0]
  /\ swallowed = {} /\ abandoned = {} /\ tried = {}
  /\ faults = 0 /\ cancels = 0

\* RouteDelivery begins: split, and start ProcessBatch on the transactional half.
RouteDelivery(c, d) ==
  /\ pc[c] = "idle" /\ where[d] = "ready" /\ Batch[d] # {}
  /\ \A m \in Batch[d] : returned[m] <= MaxReturns
  /\ where' = [where EXCEPT ![d] = c]
  /\ job' = [job EXCEPT ![c] = d]
  /\ todo' = [todo EXCEPT ![c] = Batch[d] \cap Transactional]
  /\ Goto(c, "transactional")
  /\ UNCHANGED <<out, failed, history, env>>

AckEmpty(c, d) ==
  /\ pc[c] = "idle" /\ where[d] = "ready" /\ Batch[d] = {}
  /\ where' = [where EXCEPT ![d] = "gone"]
  /\ UNCHANGED <<task, history, env>>

\* A worker of ProcessBatch, under the handler's own context: every message gets
\* a result, also during a shutdown.
ProcessTransactional(c, m, ok) ==
  /\ pc[c] = "transactional"
  /\ Processed(c, m, ok)
  /\ UNCHANGED <<where, job, pc, failed, handed, returned, swallowed, abandoned, env>>

PublishTransactional(c, m) ==
  /\ pc[c] = "transactional"
  /\ HandedOver(c, m)
  /\ UNCHANGED <<where, job, pc, todo, failed, accepted, returned, swallowed,
                 abandoned, tried, env>>

\* HandleBatchResults fails: ProcessBatch logs the error and returns as usual.
TransactionalPublishError(c) ==
  /\ faults < MaxFaults
  /\ pc[c] = "transactional" /\ todo[c] = {} /\ out[c] # {}
  /\ swallowed' = swallowed \cup out[c]
  /\ out' = [out EXCEPT ![c] = {}]
  /\ faults' = faults + 1
  /\ UNCHANGED <<where, job, pc, todo, failed, accepted, handed, returned,
                 abandoned, tried, ctxDone, cancels>>

\* ProcessBatch has returned: on to the promotional half, if there is one.
TransactionalDone(c) ==
  /\ pc[c] = "transactional" /\ todo[c] = {} /\ out[c] = {}
  /\ Goto(c, IF Promo(job[c]) = {} THEN "close" ELSE "credit")
  /\ UNCHANGED <<where, job, todo, out, failed, history, env>>

\* The scheduler admits the promotional half.
AcquireCredit(c) ==
  /\ pc[c] = "credit"
  /\ todo' = [todo EXCEPT ![c] = Promo(job[c])]
  /\ Goto(c, "promotional")
  /\ UNCHANGED <<where, job, out, failed, history, env>>

\* acquireCredit returns ctx.Err: the delivery is to be requeued.
CreditCancelled(c) ==
  /\ ctxDone /\ pc[c] = "credit"
  /\ failed' = [failed EXCEPT ![c] = TRUE]
  /\ Goto(c, "close")
  /\ UNCHANGED <<where, job, todo, out, history, env>>

ProcessPromotional(c, m, ok) ==
  /\ pc[c] = "promotional"
  /\ Processed(c, m, ok)
  /\ UNCHANGED <<where, job, pc, failed, handed, returned, swallowed, abandoned, env>>

\* processRegular's workers give up on ctx.Done, before or after the send.
Abandon(c, m, sent) ==
  /\ ctxDone /\ pc[c] = "promotional" /\ m \in todo[c]
  /\ todo' = [todo EXCEPT ![c] = @ \ {m}]
  /\ accepted' = IF sent THEN Bump(accepted, m) ELSE accepted
  /\ abandoned' = abandoned \cup {m}
  /\ UNCHANGED <<where, job, pc, out, failed, handed, returned, swallowed, tried, env>>

PublishPromotional(c, m) ==
  /\ pc[c] = "promotional"
  /\ HandedOver(c, m)
  /\ UNCHANGED <<where, job, pc, todo, failed, accepted, returned, swallowed,
                 abandoned, tried, env>>

\* Processor.ProcessMessages returns the publish error.
PromotionalPublishError(c) ==
  /\ faults < MaxFaults
  /\ pc[c] = "promotional" /\ todo[c] = {} /\ out[c] # {}
  /\ out' = [out EXCEPT ![c] = {}]
  /\ failed' = [failed EXCEPT ![c] = TRUE]
  /\ faults' = faults + 1
  /\ Goto(c, "close")
  /\ UNCHANGED <<where, job, todo, history, ctxDone, cancels>>

PromotionalDone(c) ==
  /\ pc[c] = "promotional" /\ todo[c] = {} /\ out[c] = {}
  /\ Goto(c, "close")
  /\ UNCHANGED <<where, job, todo, out, failed, history, env>>

\* Nack with requeue if a half failed, else ack; without effect if the broker
\* has taken the delivery back.
Close(c) ==
  LET d == job[c]
  IN  /\ pc[c] = "close"
      /\ IF where[d] # c THEN UNCHANGED <<where, returned>>
         ELSE IF failed[c] THEN Requeue({d})
         ELSE where' = [where EXCEPT ![d] = "gone"] /\ UNCHANGED returned
      /\ job' = [job EXCEPT ![c] = NoDelivery]
      /\ failed' = [failed EXCEPT ![c] = FALSE]
      /\ Goto(c, "idle")
      /\ UNCHANGED <<todo, out, accepted, handed, swallowed, abandoned, tried, env>>

ConnectionLost ==
  /\ faults < MaxFaults /\ Unacked # {}
  /\ Requeue(Unacked)
  /\ faults' = faults + 1
  /\ UNCHANGED <<task, accepted, handed, swallowed, abandoned, tried, ctxDone, cancels>>

\* The process ends and is started again.
Restart ==
  /\ Requeue(Unacked)
  /\ job' = [c \in Consumer |-> NoDelivery]
  /\ pc' = [c \in Consumer |-> "idle"]
  /\ todo' = [c \in Consumer |-> {}] /\ out' = [c \in Consumer |-> {}]
  /\ failed' = [c \in Consumer |-> FALSE]
  /\ ctxDone' = FALSE
  /\ UNCHANGED <<accepted, handed, swallowed, abandoned, tried, cancels>>

Crash ==
  /\ faults < MaxFaults /\ \E c \in Consumer : pc[c] # "idle"
  /\ faults' = faults + 1
  /\ Restart

Cancel ==
  /\ ~ctxDone /\ cancels < MaxCancels
  /\ ctxDone' = TRUE /\ cancels' = cancels + 1
  /\ UNCHANGED <<where, task, history, faults>>

Exit == ctxDone /\ Restart /\ UNCHANGED faults

\* The steps RouteDelivery can always take; a credit may not come.
Work(c) ==
  \/ \E m \in Msg, ok \in BOOLEAN :
       ProcessTransactional(c, m, ok) \/ ProcessPromotional(c, m, ok) \/ Abandon(c, m, ok)
  \/ \E m \in Msg : PublishTransactional(c, m) \/ PublishPromotional(c, m)
  \/ TransactionalPublishError(c) \/ TransactionalDone(c)
  \/ CreditCancelled(c)
  \/ PromotionalPublishError(c) \/ PromotionalDone(c)
  \/ Close(c)

Next ==
  \/ \E c \in Consumer : \/ \E d \in Delivery : RouteDelivery(c, d) \/ AckEmpty(c, d)
                         \/ Work(c)
                         \/ AcquireCredit(c)
  \/ ConnectionLost
  \/ Crash
  \/ Cancel
  \/ Exit

\* Goroutines run and sends end; no fairness for AcquireCredit.
Fairness == \A c \in Consumer : WF_vars(Work(c))

Safety == Init /\ [][Next]_vars
Spec   == Safety /\ Fairness

-----------------------------------------------------------------------------
(* Properties *)

\* A half that failed makes the other half be sent again (one Nack for both);
\* still, each send beyond the first is paid for by a return of the delivery.
SendsAreRedeliveries == \A m \in Msg : accepted[m] <= 1 + returned[m]

\* RouteDelivery acknowledges a delivery only when every message of both halves
\* was handed over, except what ProcessBatch swallowed or a shutdown cut off.
AckedIsHandedOver ==
  \A d \in Delivery : where[d] = "gone" =>
    \A m \in Batch[d] : handed[m] > 0 \/ m \in swallowed \cup abandoned

\* The fast path is free of the scheduler (RouteDelivery's order): once a
\* goroutine has a delivery its transactional messages are processed, even if
\* no credit is ever granted for the promotional ones beside them.
FastPathFree ==
  \A c \in Consumer, m \in Transactional :
    (\E d \in Delivery : job[c] = d /\ m \in Batch[d])
      ~> (m \in tried \/ job[c] = NoDelivery)
=============================================================================
