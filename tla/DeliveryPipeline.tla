--------------------------- MODULE DeliveryPipeline ---------------------------
(***************************************************************************)
(* The standard (non-priority) path of an SMS through the gateway:         *)
(* RabbitMQ delivers an envelope (one AMQP message holding a batch of SMS  *)
(* messages) to a delivery processor, a worker pool sends each message,    *)
(* the results are published group by group, and only then the envelope    *)
(* is acknowledged.  Failed messages wait in a TTL queue and come back     *)
(* through a retry queue.                                                  *)
(*                                                                         *)
(*   consumer.go        drainChannel, parseMessages, Ack, Nack             *)
(*   processor.go       ProcessDelivery, processRegular, processMessage    *)
(*   result_handler.go  HandleBatchResults                                 *)
(*   publisher.go       PublishBatchResults                                *)
(*                                                                         *)
(* A message is a model value; its body is reduced to its retryCount, the  *)
(* only field that decides where it goes.  SAVE_TO_DB and the DLQ are      *)
(* read by other programs and are kept as counts per message.              *)
(***************************************************************************)
EXTENDS Integers, FiniteSets

CONSTANTS
  Msg,                      \* SMS messages (correlators)
  Transactional,            \* those with packageId = TRANSACTIONAL
  Unparsable,               \* those whose JSON json.Unmarshal rejects
  EmptyBatchIn,             \* input queues that may hold an empty batch at first
  Consumer,                 \* delivery-processing goroutines
  Reads,                    \* Reads[c]: the queue goroutine c is fed from
  Nobody,                   \* the holder of an envelope that is not delivered
  MaxRetriesTransactional,  \* RETRY_MAX_RETRIES_TRANSACTIONAL
  MaxRetriesPromotional,    \* RETRY_MAX_RETRIES_PROMOTIONAL
  MaxEnvelopes,             \* bound: envelopes in the broker at one time
  MaxFaults,                \* bound: publish errors, lost answers, lost connections,
                            \* crashes and shutdown signals
  MaxCancels                \* bound: shutdown signals

Gateway            == "GATEWAY"              \* GATEWAY_QUEUE_NAME, promotional
ApiV2              == "API_V2"               \* any other input queue
TransactionalDelay == "TRANSACTIONAL_DELAY"
PromotionalDelay   == "PROMOTIONAL_DELAY"
TransactionalRetry == "TRANSACTIONAL_RETRY"
PromotionalRetry   == "PROMOTIONAL_RETRY"
NoQueue            == "none"

InputQueue    == {Gateway, ApiV2}
DelayQueue    == {TransactionalDelay, PromotionalDelay}
RetryQueue    == {TransactionalRetry, PromotionalRetry}
ConsumedQueue == InputQueue \cup RetryQueue
Queue         == ConsumedQueue \cup DelayQueue
ServedInput   == {q \in InputQueue : \E c \in Consumer : Reads[c] = q}

Tag    == 1 .. MaxEnvelopes
NoTag  == 0
Absent == -1                                 \* retryCount of a message not in a body

ASSUME ConstantsOK ==
  /\ Transactional \subseteq Msg /\ Unparsable \subseteq Msg
  /\ EmptyBatchIn \subseteq InputQueue
  /\ Reads \in [Consumer -> ConsumedQueue]
  /\ IsFiniteSet(Consumer) /\ Nobody \notin Consumer
  /\ MaxRetriesTransactional \in Nat /\ MaxRetriesPromotional \in Nat
  /\ MaxEnvelopes \in Nat \ {0} /\ MaxFaults \in Nat /\ MaxCancels \in Nat

Body == [Msg -> {Absent} \cup Nat]

VARIABLES
  queue,        \* queue[t]: the queue envelope t lies in, unacked ones included
  body,         \* body[t]: the retryCount of each message in t, or Absent
  holder,       \* holder[t]: the goroutine t is delivered to and unacked at
  stage,        \* stage[c]: what goroutine c is doing
  tag,          \* tag[c]: the envelope c works on
  work,         \* work[c]: the messages c parsed from it
  result,       \* result[c][m]: what became of m in c's batch
  ctxDone,      \* the root context has been cancelled
  origin,       \* history: the input queue a message arrived in
  accepted,     \* history: how often an MNO accepted the message
  unheard,      \* history: how often it did and its answer never arrived
  savedSent,    \* SAVE_TO_DB entries with status SENT
  savedFailed,  \* SAVE_TO_DB entries with status FAILED
  dead,         \* DLQ entries
  dropped,      \* history: messages in an envelope that failed to parse
  redelivered,  \* history: how often an unacked envelope holding m was returned
  abandoned,    \* history: messages whose worker or result ctx.Done discarded
  faults, cancels

broker  == <<queue, body, holder>>
jobs    == <<stage, tag, work, result>>
ledger  == <<accepted, unheard, savedSent, savedFailed, dead>>
history == <<origin, dropped, abandoned, redelivered>>
env     == <<ctxDone, faults, cancels>>
vars    == <<queue, body, holder, stage, tag, work, result, ctxDone, origin,
             accepted, unheard, savedSent, savedFailed, dead, dropped, abandoned,
             redelivered, faults, cancels>>

EmptyBody  == [m \in Msg |-> Absent]
NoResult   == [m \in Msg |-> "absent"]

SendResult == {"success", "retryable", "permanent"}
Outcome    == SendResult \cup {"absent", "todo", "dead", "done", "abandoned"}

TypeOK ==
  /\ queue \in [Tag -> Queue \cup {NoQueue}]
  /\ body \in [Tag -> Body]
  /\ holder \in [Tag -> Consumer \cup {Nobody}]
  /\ stage \in [Consumer -> {"idle", "sending", "publishing"}]
  /\ tag \in [Consumer -> Tag \cup {NoTag}]
  /\ work \in [Consumer -> Body]
  /\ result \in [Consumer -> [Msg -> Outcome]]
  /\ ctxDone \in BOOLEAN
  /\ origin \in [Msg -> InputQueue \cup {NoQueue}]
  /\ accepted \in [Msg -> Nat] /\ unheard \in [Msg -> Nat]
  /\ savedSent \in [Msg -> Nat] /\ savedFailed \in [Msg -> Nat]
  /\ dead \in [Msg -> Nat]
  /\ dropped \subseteq Msg /\ abandoned \subseteq Msg
  /\ redelivered \in [Msg -> Nat]
  /\ faults \in 0 .. MaxFaults /\ cancels \in 0 .. MaxCancels

-----------------------------------------------------------------------------
(* Helpers *)

Holds(b)    == {m \in Msg : b[m] # Absent}     \* the messages of a body
FreeTags    == {t \in Tag : queue[t] = NoQueue}
FreshTag    == CHOOSE t \in FreeTags : TRUE
Ready(t, q) == queue[t] = q /\ holder[t] = Nobody

maxRetries(m) == IF m \in Transactional THEN MaxRetriesTransactional
                                        ELSE MaxRetriesPromotional

\* SourceQueue was stamped with the consumed queue, so the whole batch of one
\* delivery is promotional or none of it is.
IsPromotional(c) == Reads[c] = Gateway

\* Faulty variant: retries go to the legacy queue that nothing consumes.
LegacyRetryQueueOf(c) == "RETRY_QUEUE"

DelayQueueOf(c) == IF IsPromotional(c) THEN PromotionalDelay ELSE TransactionalDelay

\* x-dead-letter-routing-key of the delay queues
DeadLetterRoute(q) == IF q = PromotionalDelay THEN PromotionalRetry
                                              ELSE TransactionalRetry

With(c, o) == {m \in Msg : result[c][m] = o}

Bump(counter, S) == [m \in Msg |-> IF m \in S THEN counter[m] + 1 ELSE counter[m]]

PutEnvelope(q, b) ==
  /\ FreeTags # {}
  /\ queue' = [queue EXCEPT ![FreshTag] = q]
  /\ body'  = [body EXCEPT ![FreshTag] = b]
  /\ UNCHANGED holder

Idle(c) ==
  /\ stage'  = [stage EXCEPT ![c] = "idle"]
  /\ tag'    = [tag EXCEPT ![c] = NoTag]
  /\ work'   = [work EXCEPT ![c] = EmptyBody]
  /\ result' = [result EXCEPT ![c] = NoResult]

Delivered == {t \in Tag : holder[t] # Nobody}

Held(c) == {t \in Tag : holder[t] = c}

\* Delivered envelopes become ready again (nack with requeue, closed channel).
Return(S) ==
  /\ holder' = [t \in Tag |-> IF t \in S THEN Nobody ELSE holder[t]]
  /\ redelivered' = [m \in Msg |->
        redelivered[m] + Cardinality({t \in S : body[t][m] # Absent})]

Remove(t) ==
  /\ queue'  = [queue EXCEPT ![t] = NoQueue]
  /\ body'   = [body EXCEPT ![t] = EmptyBody]
  /\ holder' = [holder EXCEPT ![t] = Nobody]

\* Faulty variant: the limit is compared with the count before the increment
\* and strictly.
ExhaustedLate(c, m) == work[c][m] > maxRetries(m)

\* NewRetryableResult has already incremented RetryCount when the limit is
\* compared with it.
Exhausted(c, m) == work[c][m] + 1 >= maxRetries(m)

\* Results that PublishBatchResults has still to publish.
Pending(c) == {m \in Msg : result[c][m] \in {"success", "retryable", "permanent", "dead"}}

-----------------------------------------------------------------------------
(* Faulty variants of the actions below, each a bug this code could have   *)
(* had; TLC must find a property that rejects it.                          *)

\* One failed message sends the whole batch to the delay queue again.
PublishRetriesWholeBatch(c) ==
  /\ stage[c] = "publishing" /\ With(c, "success") = {}
  /\ With(c, "retryable") # {}
  /\ PutEnvelope(DelayQueueOf(c), [m \in Msg |->
        IF work[c][m] # Absent THEN work[c][m] + 1 ELSE Absent])
  /\ result' = [result EXCEPT ![c] = [m \in Msg |->
        IF @[m] = "retryable" THEN "done" ELSE @[m]]]
  /\ UNCHANGED <<stage, tag, work, ledger, history, env>>

\* A message that failed for good stays among those to be retried.
PublishRetriesFailed(c) ==
  /\ stage[c] = "publishing" /\ With(c, "success") = {}
  /\ With(c, "retryable") # {}
  /\ PutEnvelope(DelayQueueOf(c), [m \in Msg |->
        IF result[c][m] \in {"retryable", "permanent"} THEN work[c][m] + 1 ELSE Absent])
  /\ result' = [result EXCEPT ![c] = [m \in Msg |->
        IF @[m] = "retryable" THEN "done" ELSE @[m]]]
  /\ UNCHANGED <<stage, tag, work, ledger, history, env>>

\* Failures reach SAVE_TO_DB before the DLQ.
PublishDeadLettersLast(c) ==
  /\ stage[c] = "publishing" /\ With(c, "success") \cup With(c, "retryable") = {}
  /\ With(c, "permanent") # {}
  /\ result' = [result EXCEPT ![c] = [m \in Msg |->
        IF @[m] = "permanent" THEN "dead" ELSE @[m]]]
  /\ savedFailed' = Bump(savedFailed, With(c, "permanent"))
  /\ UNCHANGED <<broker, stage, tag, work, accepted, unheard, savedSent, dead, history, env>>

\* The delivery is acknowledged before its results are published.
AckEarly(c) ==
  /\ stage[c] = "publishing"
  /\ IF holder[tag[c]] = c THEN Remove(tag[c]) ELSE UNCHANGED broker
  /\ Idle(c)
  /\ UNCHANGED <<ledger, history, env>>

\* The delay queue is declared without its dead-letter route.
ExpireDiscards(t) ==
  /\ queue[t] \in DelayQueue
  /\ Remove(t)
  /\ UNCHANGED <<jobs, ledger, history, env>>

-----------------------------------------------------------------------------
Init ==
  /\ \E q \in EmptyBatchIn \cup {NoQueue} :
        queue = [t \in Tag |-> IF t = 1 THEN q ELSE NoQueue]
  /\ body = [t \in Tag |-> EmptyBody]
  /\ holder = [t \in Tag |-> Nobody]
  /\ stage = [c \in Consumer |-> "idle"]
  /\ tag = [c \in Consumer |-> NoTag]
  /\ work = [c \in Consumer |-> EmptyBody]
  /\ result = [c \in Consumer |-> NoResult]
  /\ ctxDone = FALSE
  /\ origin = [m \in Msg |-> NoQueue]
  /\ accepted = [m \in Msg |-> 0] /\ unheard = [m \in Msg |-> 0]
  /\ savedSent = [m \in Msg |-> 0] /\ savedFailed = [m \in Msg |-> 0]
  /\ dead = [m \in Msg |-> 0]
  /\ dropped = {} /\ abandoned = {}
  /\ redelivered = [m \in Msg |-> 0]
  /\ faults = 0 /\ cancels = 0

\* An upstream service publishes a batch of new messages to an input queue.
Produce(q, S) ==
  /\ S # {} /\ \A m \in S : origin[m] = NoQueue
  /\ PutEnvelope(q, [m \in Msg |-> IF m \in S THEN 0 ELSE Absent])
  /\ origin' = [m \in Msg |-> IF m \in S THEN q ELSE origin[m]]
  /\ UNCHANGED <<jobs, ledger, dropped, abandoned, redelivered, env>>

\* drainChannel hands the next parsed delivery to an idle goroutine, which
\* enters ProcessDelivery and starts its worker pool.  A cancelled context does
\* not exclude it: select picks any ready case, and a delivery nacked for the
\* sake of ctx.Done stays ready.
Deliver(c, t) ==
  /\ stage[c] = "idle" /\ Ready(t, Reads[c])
  /\ Holds(body[t]) # {} /\ Holds(body[t]) \cap Unparsable = {}
  /\ holder' = [holder EXCEPT ![t] = c]
  /\ stage'  = [stage EXCEPT ![c] = "sending"]
  /\ tag'    = [tag EXCEPT ![c] = t]
  /\ work'   = [work EXCEPT ![c] = body[t]]
  /\ result' = [result EXCEPT ![c] =
                  [m \in Msg |-> IF body[t][m] # Absent THEN "todo" ELSE "absent"]]
  /\ UNCHANGED <<queue, body, ledger, history, env>>

\* ProcessDelivery acknowledges an empty batch at once.
AckEmpty(c, t) ==
  /\ stage[c] = "idle" /\ Ready(t, Reads[c])
  /\ Holds(body[t]) = {}
  /\ Remove(t)
  /\ UNCHANGED <<jobs, ledger, history, env>>

\* parseMessages fails if any element of the array is malformed; drainChannel
\* then rejects the whole envelope without requeue.
NackUnparsable(c, t) ==
  /\ Ready(t, Reads[c])
  /\ Holds(body[t]) \cap Unparsable # {}
  /\ Remove(t)
  /\ dropped' = dropped \cup Holds(body[t])
  /\ UNCHANGED <<jobs, ledger, origin, abandoned, redelivered, env>>

\* A worker of c's pool takes m, processes it and delivers its result: an MNO
\* accepted it and said so; it may be tried again (no token, open circuit,
\* transient MNO error); or it never can be (validation, no sender, rejection).
processMessage(c, m, r) ==
  /\ stage[c] = "sending" /\ result[c][m] = "todo"
  /\ result' = [result EXCEPT ![c][m] = r]
  /\ accepted' = IF r = "success" THEN Bump(accepted, {m}) ELSE accepted
  /\ UNCHANGED <<broker, stage, tag, work, unheard, savedSent, savedFailed, dead, history, env>>

\* The MNO accepts m, but the request times out or its answer cannot be read:
\* executeRequest takes that for an MNO that is unavailable.
answerLost(c, m) ==
  /\ faults + cancels < MaxFaults
  /\ stage[c] = "sending" /\ result[c][m] = "todo"
  /\ result' = [result EXCEPT ![c][m] = "retryable"]
  /\ accepted' = Bump(accepted, {m})
  /\ unheard' = Bump(unheard, {m})
  /\ faults' = faults + 1
  /\ UNCHANGED <<broker, stage, tag, work, savedSent, savedFailed, dead, history,
                 ctxDone, cancels>>

\* With the context cancelled the feeder or the worker may return before m is
\* processed, or the worker may choose ctx.Done over results <- result.
abandon(c, m, sent) ==
  /\ ctxDone
  /\ stage[c] = "sending" /\ result[c][m] = "todo"
  /\ result' = [result EXCEPT ![c][m] = "abandoned"]
  /\ accepted' = IF sent THEN Bump(accepted, {m}) ELSE accepted
  /\ abandoned' = abandoned \cup {m}
  /\ UNCHANGED <<broker, stage, tag, work, unheard, savedSent, savedFailed, dead,
                 origin, dropped, redelivered, env>>

\* All results are in: those past their limit become permanent failures.
HandleBatchResults(c) ==
  /\ stage[c] = "sending" /\ With(c, "todo") = {}
  /\ stage'  = [stage EXCEPT ![c] = "publishing"]
  /\ result' = [result EXCEPT ![c] = [m \in Msg |->
                  IF @[m] = "retryable" /\ Exhausted(c, m) THEN "permanent" ELSE @[m]]]
  /\ UNCHANGED <<broker, tag, work, ledger, history, env>>

\* PublishBatchResults, step 1: each successful message, one publish each.
PublishSuccess(c, m) ==
  /\ stage[c] = "publishing" /\ result[c][m] = "success"
  /\ result' = [result EXCEPT ![c][m] = "done"]
  /\ savedSent' = Bump(savedSent, {m})
  /\ UNCHANGED <<broker, stage, tag, work, accepted, unheard, savedFailed, dead, history, env>>

\* Step 2: all retryable messages in one envelope to the delay queue.
PublishRetries(c) ==
  /\ stage[c] = "publishing" /\ With(c, "success") = {}
  /\ With(c, "retryable") # {}
  /\ PutEnvelope(DelayQueueOf(c), [m \in Msg |->
        IF result[c][m] = "retryable" THEN work[c][m] + 1 ELSE Absent])
  /\ result' = [result EXCEPT ![c] = [m \in Msg |->
        IF @[m] = "retryable" THEN "done" ELSE @[m]]]
  /\ UNCHANGED <<stage, tag, work, ledger, history, env>>

\* Step 3: all failed messages in one envelope to the DLQ.
PublishDeadLetters(c) ==
  /\ stage[c] = "publishing" /\ With(c, "success") \cup With(c, "retryable") = {}
  /\ With(c, "permanent") # {}
  /\ result' = [result EXCEPT ![c] = [m \in Msg |->
        IF @[m] = "permanent" THEN "dead" ELSE @[m]]]
  /\ dead' = Bump(dead, With(c, "permanent"))
  /\ UNCHANGED <<broker, stage, tag, work, accepted, unheard, savedSent, savedFailed, history, env>>

\* Step 4: the same messages in one envelope to SAVE_TO_DB.
PublishFailures(c) ==
  /\ stage[c] = "publishing"
  /\ With(c, "success") \cup With(c, "retryable") \cup With(c, "permanent") = {}
  /\ With(c, "dead") # {}
  /\ result' = [result EXCEPT ![c] = [m \in Msg |->
        IF @[m] = "dead" THEN "done" ELSE @[m]]]
  /\ savedFailed' = Bump(savedFailed, With(c, "dead"))
  /\ UNCHANGED <<broker, stage, tag, work, accepted, unheard, savedSent, dead, history, env>>

\* Any of the publishes fails: ProcessDelivery nacks the delivery with requeue.
\* The nack has no effect if the broker has already taken the envelope back.
PublishError(c) ==
  /\ faults + cancels < MaxFaults
  /\ stage[c] = "publishing" /\ Pending(c) # {}
  /\ Return(Held(c))
  /\ Idle(c)
  /\ faults' = faults + 1
  /\ UNCHANGED <<queue, body, ledger, origin, dropped, abandoned, ctxDone, cancels>>

\* Everything is published: the delivery is acknowledged.  If the broker has
\* taken the envelope back, the ack fails and changes nothing.
Ack(c) ==
  /\ stage[c] = "publishing" /\ Pending(c) = {}
  /\ IF holder[tag[c]] = c THEN Remove(tag[c]) ELSE UNCHANGED broker
  /\ Idle(c)
  /\ UNCHANGED <<ledger, history, env>>

\* RabbitMQ moves an envelope whose TTL has passed to the retry queue.
Expire(t) ==
  /\ queue[t] \in DelayQueue
  /\ queue' = [queue EXCEPT ![t] = DeadLetterRoute(@)]
  /\ UNCHANGED <<body, holder, jobs, ledger, history, env>>

\* The connection drops: every unacked envelope becomes ready again while the
\* goroutines go on with what they parsed from it.
ConnectionLost ==
  /\ faults + cancels < MaxFaults
  /\ Delivered # {}
  /\ Return(Delivered)
  /\ faults' = faults + 1
  /\ UNCHANGED <<queue, body, jobs, ledger, origin, dropped, abandoned, ctxDone, cancels>>

Forget ==
  /\ Return(Delivered)
  /\ stage'  = [c \in Consumer |-> "idle"]
  /\ tag'    = [c \in Consumer |-> NoTag]
  /\ work'   = [c \in Consumer |-> EmptyBody]
  /\ result' = [c \in Consumer |-> NoResult]

\* The process dies and is restarted.
Crash ==
  /\ faults + cancels < MaxFaults
  /\ \E c \in Consumer : stage[c] # "idle"
  /\ Forget
  /\ ctxDone' = FALSE
  /\ faults' = faults + 1
  /\ UNCHANGED <<queue, body, ledger, origin, dropped, abandoned, cancels>>

\* main cancels the root context on SIGTERM.
Cancel ==
  /\ ~ctxDone /\ cancels < MaxCancels /\ faults + cancels < MaxFaults
  /\ ctxDone' = TRUE
  /\ cancels' = cancels + 1
  /\ UNCHANGED <<broker, jobs, ledger, history, faults>>

\* Shutdown closes the connection without waiting for deliveries in progress
\* and main returns; the process is started again.
Exit ==
  /\ ctxDone
  /\ Forget
  /\ ctxDone' = FALSE
  /\ UNCHANGED <<queue, body, ledger, origin, dropped, abandoned, faults, cancels>>

Send(c) == \E m \in Msg :
             \/ \E r \in SendResult : processMessage(c, m, r)
             \/ \E sent \in BOOLEAN : abandon(c, m, sent)
             \/ answerLost(c, m)

Publish(c) ==
  \/ \E m \in Msg : PublishSuccess(c, m)
  \/ PublishRetries(c)
  \/ PublishDeadLetters(c)
  \/ PublishFailures(c)

Receive(c) == \E t \in Tag : Deliver(c, t) \/ AckEmpty(c, t) \/ NackUnparsable(c, t)

Next ==
  \/ \E q \in ServedInput, S \in SUBSET Msg : Produce(q, S)
  \/ \E c \in Consumer : Receive(c) \/ Send(c) \/ HandleBatchResults(c)
                         \/ Publish(c) \/ PublishError(c) \/ Ack(c)
  \/ \E t \in Tag : Expire(t)
  \/ ConnectionLost
  \/ Crash
  \/ Cancel
  \/ Exit

\* A goroutine that can go on does, TTLs run out, and a cancelled process
\* exits and is restarted.  Faults, signals and producers are never forced.
Fairness ==
  /\ \A c \in Consumer : /\ WF_vars(Receive(c))
                         /\ WF_vars(Send(c))
                         /\ WF_vars(HandleBatchResults(c))
                         /\ WF_vars(Publish(c))
                         /\ WF_vars(Ack(c))
  /\ \A t \in Tag : WF_vars(Expire(t))
  /\ WF_vars(Exit)

Safety == Init /\ [][Next]_vars
Spec   == Safety /\ Fairness

-----------------------------------------------------------------------------
(* Properties *)

Recorded(m) == savedSent[m] + savedFailed[m] > 0
InBroker(m) == \E t \in Tag : queue[t] # NoQueue /\ body[t][m] # Absent
Settled(m)  == Recorded(m) \/ m \in dropped \cup abandoned

\* At-least-once custody (ProcessDelivery acks only after PublishBatchResults):
\* whatever is lost, requeued or crashes, a message that entered an input queue
\* is still in some envelope of the broker or has its SAVE_TO_DB record, unless
\* its envelope failed to parse or a shutdown made a worker give it up.
CustodyKept ==
  \A m \in Msg : origin[m] # NoQueue => InBroker(m) \/ Settled(m)

\* Envelope t still stands for m: it is not held by a goroutine that has
\* already published m elsewhere and is about to acknowledge t.
StandsFor(t, m) ==
  /\ queue[t] # NoQueue /\ body[t][m] # Absent
  /\ holder[t] # Nobody => result[holder[t]][m] # "done"

\* The bookkeeping between broker and goroutines that an ack or nack relies on.
DeliveriesOK ==
  /\ \A t \in Tag : queue[t] = NoQueue => body[t] = EmptyBody /\ holder[t] = Nobody
  /\ \A t \in Tag : holder[t] # Nobody =>
       /\ stage[holder[t]] # "idle"
       /\ tag[holder[t]] = t /\ work[holder[t]] = body[t]
  /\ \A c \in Consumer : stage[c] # "idle" => tag[c] \in Tag
  /\ \A c \in Consumer, m \in Msg : stage[c] = "publishing" => result[c][m] # "todo"
  /\ \A c \in Consumer, m \in Msg :
       /\ work[c][m] = Absent <=> result[c][m] = "absent"
       /\ result[c][m] = "abandoned" => m \in abandoned

\* CustodyKept made inductive.  An envelope in the broker is no comfort when it
\* is about to be acknowledged; one that still stands for the message is
\* (ProcessDelivery, PublishBatchResults, Delivery.Ack and Nack).
CustodyInv ==
  /\ DeliveriesOK
  /\ \A m \in Msg : origin[m] # NoQueue =>
       Settled(m) \/ \E t \in Tag : StandsFor(t, m)

\* Retries are per message (PublishBatchResults), so every acceptance of a message
\* beyond the first has a reason of its own: a return of an unacked envelope that
\* held it (publish error, lost connection, crash), or an earlier acceptance whose
\* answer never arrived (executeRequest).
DuplicatesAreExplained ==
  \A m \in Msg : accepted[m] <= 1 + redelivered[m] + unheard[m]

\* The same for SAVE_TO_DB: without a redelivery a message has at most one
\* record, sent or failed, and each redelivery adds at most one.
RecordsAreRedeliveries ==
  \A m \in Msg : savedSent[m] + savedFailed[m] <= 1 + redelivered[m]

\* maxRetries bounds a message's life (HandleBatchResults): a copy in a delay or
\* retry queue has failed at least once and is retried at most as often as the
\* limit of its packageId allows, on whichever route it came.
RetriesBounded ==
  \A t \in Tag : queue[t] \in DelayQueue \cup RetryQueue =>
    \A m \in Holds(body[t]) : body[t][m] \in 1 .. maxRetries(m)

\* The database never runs ahead of the facts (order of PublishBatchResults): a
\* FAILED record has its DLQ entry, a SENT record an acceptance that was heard.
RecordsBacked ==
  \A m \in Msg : savedFailed[m] <= dead[m] /\ savedSent[m] + unheard[m] <= accepted[m]

\* What a producer is promised, as an abstract specification.
CustodyStatus == [m \in Msg |-> IF origin[m] = NoQueue THEN "new"
                               ELSE IF Settled(m) THEN "settled" ELSE "accepted"]

Custody == INSTANCE MessageCustody WITH status <- CustodyStatus

\* The pipeline implements MessageCustody: what the broker took in is settled
\* at some time and stays settled, for all retries, faults and restarts.
ImplementsCustody == Custody!Spec

\* README.md:60 "Manual queue acknowledgment ensures no message loss", read for
\* a shutdown: no message ends up in no queue and without a record.
NoMessageLoss ==
  \A m \in Msg : origin[m] # NoQueue =>
    InBroker(m) \/ Recorded(m) \/ m \in dropped

\* publisher.go:169-171 "routed to the delay queue matching their type": what
\* came in through the gateway queue never waits in the transactional lane.
RetryLaneMatchesType ==
  \A t \in Tag : queue[t] \in {TransactionalDelay, TransactionalRetry} =>
    \A m \in Holds(body[t]) : origin[m] # Gateway
=============================================================================
