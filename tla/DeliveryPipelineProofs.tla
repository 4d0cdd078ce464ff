------------------------ MODULE DeliveryPipelineProofs ------------------------
(***************************************************************************)
(* Type correctness, custody, the bound on retries and the accounts of     *)
(* sends and records of DeliveryPipeline, and that it implements the       *)
(* safety part of MessageCustody, for any number of messages, goroutines,  *)
(* retries, faults and shutdowns.                                          *)
(***************************************************************************)
EXTENDS DeliveryPipeline, FiniteSetTheorems, TLAPS

\* What PublishRetries may put in a delay queue has not reached its limit.
RetriesLeft ==
  \A c \in Consumer, m \in Msg :
    stage[c] = "publishing" /\ result[c][m] = "retryable" => ~Exhausted(c, m)

\* A message that no producer has published has left no trace.
Untouched ==
  \A m \in Msg : origin[m] = NoQueue =>
    /\ accepted[m] = 0 /\ unheard[m] = 0 /\ savedSent[m] = 0 /\ savedFailed[m] = 0
    /\ m \notin dropped \cup abandoned
    /\ \A t \in Tag : body[t][m] = Absent
    /\ \A c \in Consumer : result[c][m] = "absent"

\* Where an acceptance or a record of m may still come from: envelopes that are
\* ready, and goroutines that have a result of m in one of the states O.
Waiting(m) == {t \in Tag : holder[t] = Nobody /\ body[t][m] # Absent}
At(m, O)   == {c \in Consumer : result[c][m] \in O}

\* m may still be sent, or has still to be recorded.
Unsent     == {"todo", "retryable"}
Unrecorded == {"todo", "success", "retryable", "permanent", "dead"}

Open(m, O) == Cardinality(Waiting(m)) + Cardinality(At(m, O))

\* Acceptances and records so far, with those still to come, are paid for by the
\* first delivery and the returns of envelopes to their queues; an acceptance
\* nobody heard of leaves the message to be sent as before and pays for itself.
SendsPaid ==
  \A m \in Msg : accepted[m] + Open(m, Unsent) <= 1 + redelivered[m] + unheard[m]

RecordsPaid ==
  \A m \in Msg : savedSent[m] + savedFailed[m] + Open(m, Unrecorded) <= 1 + redelivered[m]

\* A goroutine about to record an outcome has the fact behind its record.
FactsFirst ==
  \A m \in Msg :
    /\ savedSent[m] + unheard[m] + Cardinality(At(m, {"success"})) <= accepted[m]
    /\ savedFailed[m] + Cardinality(At(m, {"dead"})) <= dead[m]

AccountsInv == SendsPaid /\ RecordsPaid /\ FactsFirst

-----------------------------------------------------------------------------
\* The names of the queues are distinct strings.
LEMMA QueueNames ==
  /\ NoQueue \notin Queue
  /\ InputQueue \subseteq Queue /\ DelayQueue \subseteq Queue /\ RetryQueue \subseteq Queue
  /\ Gateway \in Queue /\ ApiV2 \in Queue
  /\ \A c : DelayQueueOf(c) \in Queue
  /\ \A q : DeadLetterRoute(q) \in Queue
  BY DEF NoQueue, Queue, InputQueue, DelayQueue, RetryQueue, ConsumedQueue, Gateway,
         ApiV2, TransactionalDelay, PromotionalDelay, TransactionalRetry,
         PromotionalRetry, DelayQueueOf, DeadLetterRoute

\* FreshTag is a free tag when there is one.
LEMMA FreshTagIsFree ==
  ASSUME FreeTags # {}
  PROVE  FreshTag \in Tag /\ queue[FreshTag] = NoQueue
  BY DEF FreeTags, FreshTag

\* The body of an envelope that carries nothing is a body.
LEMMA EmptyBodyType == EmptyBody \in Body
  BY DEF EmptyBody, Body, Absent

\* A goroutine with no results yet has a result function.
LEMMA NoResultType == NoResult \in [Msg -> Outcome]
  BY DEF NoResult, Outcome

\* Counting more entries keeps a counter a counter.
LEMMA BumpType ==
  ASSUME NEW f \in [Msg -> Nat], NEW S
  PROVE  Bump(f, S) \in [Msg -> Nat]
  BY DEF Bump

\* The envelopes in the broker are finitely many, so those returned can be counted.
LEMMA ReturnType ==
  ASSUME redelivered \in [Msg -> Nat], NEW S \in SUBSET Tag, Return(S)
  PROVE  redelivered' \in [Msg -> Nat]
<1>1. IsFiniteSet(Tag)
  BY ConstantsOK, FS_Interval DEF Tag
<1>2. \A m \in Msg : Cardinality({t \in S : body[t][m] # Absent}) \in Nat
  <2>1. TAKE m \in Msg
  <2>2. {t \in S : body[t][m] # Absent} \subseteq Tag
    OBVIOUS
  <2>3. QED
    BY <1>1, <2>2, FS_Subset, FS_CardinalityType
<1>3. QED
  BY <1>2 DEF Return

-----------------------------------------------------------------------------
\* The broker and the goroutines start with values of their types.
LEMMA InitTypeOK == Init => TypeOK
<1> SUFFICES ASSUME Init PROVE TypeOK
  OBVIOUS
<1>1. queue \in [Tag -> Queue \cup {NoQueue}]
  BY ConstantsOK, QueueNames DEF Init
<1>2. /\ body \in [Tag -> Body] /\ work \in [Consumer -> Body]
      /\ result \in [Consumer -> [Msg -> Outcome]]
  BY EmptyBodyType, NoResultType DEF Init
<1>3. faults \in 0 .. MaxFaults /\ cancels \in 0 .. MaxCancels
  BY ConstantsOK DEF Init
<1>4. QED
  BY <1>1, <1>2, <1>3 DEF Init, TypeOK

\* No handler, publish, acknowledgement or fault takes a variable out of its type.
LEMMA NextTypeOK == TypeOK /\ [Next]_vars => TypeOK'
<1> SUFFICES ASSUME TypeOK, [Next]_vars PROVE TypeOK'
  OBVIOUS
<1> USE ConstantsOK
<1>1. ASSUME NEW q \in InputQueue, NEW S \in SUBSET Msg, Produce(q, S) PROVE TypeOK'
  <2>1. [m \in Msg |-> IF m \in S THEN 0 ELSE Absent] \in Body
    BY DEF Body, Absent
  <2>2. origin' \in [Msg -> InputQueue \cup {NoQueue}]
    BY <1>1 DEF Produce, TypeOK
  <2>3. QED
    BY <1>1, <2>1, <2>2, FreshTagIsFree, QueueNames
    DEF Produce, PutEnvelope, TypeOK, jobs, ledger, env
<1>2. ASSUME NEW c \in Consumer, NEW t \in Tag, Deliver(c, t) PROVE TypeOK'
  <2>1. [m \in Msg |-> IF body[t][m] # Absent THEN "todo" ELSE "absent"] \in [Msg -> Outcome]
    BY DEF Outcome
  <2>2. QED
    BY <1>2, <2>1 DEF Deliver, TypeOK, ledger, history, env
<1>3. ASSUME NEW c \in Consumer, NEW t \in Tag, AckEmpty(c, t) PROVE TypeOK'
  BY <1>3, EmptyBodyType DEF AckEmpty, Remove, TypeOK, jobs, ledger, history, env
<1>4. ASSUME NEW c \in Consumer, NEW t \in Tag, NackUnparsable(c, t) PROVE TypeOK'
  BY <1>4, EmptyBodyType DEF NackUnparsable, Remove, Holds, TypeOK, jobs, ledger, env
<1>5. ASSUME NEW c \in Consumer, NEW m \in Msg, NEW r \in SendResult, processMessage(c, m, r)
      PROVE  TypeOK'
  <2>1. accepted' \in [Msg -> Nat]
    BY <1>5, BumpType DEF processMessage, TypeOK
  <2>2. r \in Outcome
    BY DEF Outcome
  <2>3. QED
    BY <1>5, <2>1, <2>2 DEF processMessage, TypeOK, broker, history, env
<1>6. ASSUME NEW c \in Consumer, NEW m \in Msg, NEW s \in BOOLEAN, abandon(c, m, s)
      PROVE  TypeOK'
  <2>1. accepted' \in [Msg -> Nat]
    BY <1>6, BumpType DEF abandon, TypeOK
  <2>2. "abandoned" \in Outcome
    BY DEF Outcome
  <2>3. QED
    BY <1>6, <2>1, <2>2 DEF abandon, TypeOK, broker, env
<1>6a. ASSUME NEW c \in Consumer, NEW m \in Msg, answerLost(c, m) PROVE TypeOK'
  <2>1. accepted' \in [Msg -> Nat] /\ unheard' \in [Msg -> Nat]
    BY <1>6a, BumpType DEF answerLost, TypeOK
  <2>2. "retryable" \in Outcome
    BY DEF Outcome, SendResult
  <2>3. faults' \in 0 .. MaxFaults
    BY <1>6a DEF answerLost, TypeOK
  <2>4. QED
    BY <1>6a, <2>1, <2>2, <2>3 DEF answerLost, TypeOK, broker, history
<1>7. ASSUME NEW c \in Consumer, HandleBatchResults(c) PROVE TypeOK'
  <2>1. result' \in [Consumer -> [Msg -> Outcome]]
    BY <1>7 DEF HandleBatchResults, TypeOK, Outcome, SendResult
  <2>2. QED
    BY <1>7, <2>1 DEF HandleBatchResults, TypeOK, broker, ledger, history, env
<1>8. ASSUME NEW c \in Consumer, NEW m \in Msg, PublishSuccess(c, m) PROVE TypeOK'
  <2>1. savedSent' \in [Msg -> Nat]
    BY <1>8, BumpType DEF PublishSuccess, TypeOK
  <2>2. "done" \in Outcome
    BY DEF Outcome
  <2>3. QED
    BY <1>8, <2>1, <2>2 DEF PublishSuccess, TypeOK, broker, history, env
<1>9. ASSUME NEW c \in Consumer, PublishRetries(c) PROVE TypeOK'
  <2>1. [m \in Msg |-> IF result[c][m] = "retryable" THEN work[c][m] + 1 ELSE Absent] \in Body
    <3>1. \A m \in Msg : work[c][m] \in {Absent} \cup Nat
      BY DEF TypeOK, Body
    <3>2. QED
      BY <3>1 DEF Body, Absent
  <2>2. result' \in [Consumer -> [Msg -> Outcome]]
    BY <1>9 DEF PublishRetries, TypeOK, Outcome
  <2>3. QED
    BY <1>9, <2>1, <2>2, FreshTagIsFree, QueueNames
    DEF PublishRetries, PutEnvelope, TypeOK, ledger, history, env
<1>10. ASSUME NEW c \in Consumer, PublishDeadLetters(c) PROVE TypeOK'
  <2>1. dead' \in [Msg -> Nat]
    BY <1>10, BumpType DEF PublishDeadLetters, TypeOK
  <2>2. result' \in [Consumer -> [Msg -> Outcome]]
    BY <1>10 DEF PublishDeadLetters, TypeOK, Outcome
  <2>3. QED
    BY <1>10, <2>1, <2>2 DEF PublishDeadLetters, TypeOK, broker, history, env
<1>11. ASSUME NEW c \in Consumer, PublishFailures(c) PROVE TypeOK'
  <2>1. savedFailed' \in [Msg -> Nat]
    BY <1>11, BumpType DEF PublishFailures, TypeOK
  <2>2. result' \in [Consumer -> [Msg -> Outcome]]
    BY <1>11 DEF PublishFailures, TypeOK, Outcome
  <2>3. QED
    BY <1>11, <2>1, <2>2 DEF PublishFailures, TypeOK, broker, history, env
<1>12. ASSUME NEW c \in Consumer, PublishError(c) PROVE TypeOK'
  <2>1. redelivered' \in [Msg -> Nat]
    BY <1>12, ReturnType DEF PublishError, TypeOK, Held
  <2>2. QED
    BY <1>12, <2>1, EmptyBodyType, NoResultType
    DEF PublishError, Return, Idle, TypeOK, ledger
<1>13. ASSUME NEW c \in Consumer, Ack(c) PROVE TypeOK'
  <2>1. CASE holder[tag[c]] = c
    <3>1. Remove(tag[c])
      BY <1>13, <2>1 DEF Ack
    <3>2. /\ queue' \in [Tag -> Queue \cup {NoQueue}] /\ body' \in [Tag -> Body]
          /\ holder' \in [Tag -> Consumer \cup {Nobody}]
      BY <3>1, EmptyBodyType DEF Remove, TypeOK
    <3>3. QED
      BY <1>13, <3>2, EmptyBodyType, NoResultType
      DEF Ack, Idle, TypeOK, ledger, history, env
  <2>2. CASE holder[tag[c]] # c
    BY <1>13, <2>2, EmptyBodyType, NoResultType
    DEF Ack, Idle, TypeOK, broker, ledger, history, env
  <2>3. QED
    BY <2>1, <2>2
<1>14. ASSUME NEW t \in Tag, Expire(t) PROVE TypeOK'
  BY <1>14, QueueNames DEF Expire, TypeOK, jobs, ledger, history, env
<1>15. CASE ConnectionLost
  <2>1. redelivered' \in [Msg -> Nat]
    BY <1>15, ReturnType DEF ConnectionLost, TypeOK, Delivered
  <2>2. QED
    BY <1>15, <2>1 DEF ConnectionLost, Return, TypeOK, jobs, ledger
<1>16. CASE Crash
  <2>1. redelivered' \in [Msg -> Nat]
    BY <1>16, ReturnType DEF Crash, Forget, TypeOK, Delivered
  <2>2. faults' \in 0 .. MaxFaults
    BY <1>16 DEF Crash, TypeOK
  <2>3. QED
    BY <1>16, <2>1, <2>2, EmptyBodyType, NoResultType DEF Crash, Forget, Return, TypeOK, ledger
<1>17. CASE Cancel
  BY <1>17 DEF Cancel, TypeOK, broker, jobs, ledger, history
<1>18. CASE Exit
  <2>1. redelivered' \in [Msg -> Nat]
    BY <1>18, ReturnType DEF Exit, Forget, TypeOK, Delivered
  <2>2. QED
    BY <1>18, <2>1, EmptyBodyType, NoResultType DEF Exit, Forget, Return, TypeOK, ledger
<1>19. CASE UNCHANGED vars
  BY <1>19 DEF vars, TypeOK
<1>20. QED
  BY <1>1, <1>2, <1>3, <1>4, <1>5, <1>6, <1>6a, <1>7, <1>8, <1>9, <1>10, <1>11, <1>12,
     <1>13, <1>14, <1>15, <1>16, <1>17, <1>18, <1>19
  DEF Next, Receive, Send, Publish, ServedInput

\* The pipeline's variables keep their types in every behaviour (all actions of
\* consumer.go, processor.go and publisher.go as modelled).
THEOREM TypeCorrect == Safety => []TypeOK
  BY InitTypeOK, NextTypeOK, PTL DEF Safety

-----------------------------------------------------------------------------
(* Custody.  DeliveriesOK is inductive by itself; with it, each action     *)
(* either leaves every standing envelope standing or replaces it by a      *)
(* record or a new envelope.                                               *)

\* Nothing is delivered in the initial state.
LEMMA InitDeliveriesOK == Init => DeliveriesOK
<1> SUFFICES ASSUME Init PROVE DeliveriesOK
  OBVIOUS
<1>1. \A c \in Consumer, m \in Msg : work[c][m] = Absent /\ result[c][m] = "absent"
  BY DEF Init, EmptyBody, NoResult
<1>2. QED
  BY <1>1 DEF Init, DeliveriesOK

\* Every step keeps deliveries and the goroutines that hold them in agreement.
LEMMA NextDeliveriesOK == TypeOK /\ DeliveriesOK /\ [Next]_vars => DeliveriesOK'
<1> SUFFICES ASSUME TypeOK, DeliveriesOK, [Next]_vars PROVE DeliveriesOK'
  OBVIOUS
<1> USE ConstantsOK
<1>a. \A m \in Msg : EmptyBody[m] = Absent /\ NoResult[m] = "absent"
  BY DEF EmptyBody, NoResult
<1>1. ASSUME NEW q \in InputQueue, NEW S \in SUBSET Msg, Produce(q, S) PROVE DeliveriesOK'
  <2>1. FreshTag \in Tag /\ queue[FreshTag] = NoQueue /\ q # NoQueue
    BY <1>1, FreshTagIsFree, QueueNames DEF Produce, PutEnvelope
  <2>2. QED
    BY <1>1, <2>1 DEF Produce, PutEnvelope, DeliveriesOK, TypeOK, jobs
<1>2. ASSUME NEW c \in Consumer, NEW t \in Tag, Deliver(c, t) PROVE DeliveriesOK'
  <2>1. queue[t] # NoQueue /\ holder[t] = Nobody /\ stage[c] = "idle"
    BY <1>2, QueueNames DEF Deliver, Ready, Queue
  <2>2. \A m \in Msg : work'[c][m] = Absent <=> result'[c][m] = "absent"
    BY <1>2 DEF Deliver, TypeOK
  <2>3. \A m \in Msg : result'[c][m] \notin {"abandoned"}
    BY <1>2 DEF Deliver, TypeOK
  <2>4. stage'[c] = "sending" /\ tag'[c] = t /\ work'[c] = body[t] /\ holder'[t] = c
    BY <1>2 DEF Deliver, TypeOK
  <2>5. QED
    BY <1>2, <2>1, <2>2, <2>3, <2>4 DEF Deliver, DeliveriesOK, TypeOK, history
<1>3. ASSUME NEW c \in Consumer, NEW t \in Tag, AckEmpty(c, t) PROVE DeliveriesOK'
  BY <1>3 DEF AckEmpty, Ready, Remove, DeliveriesOK, TypeOK, jobs, history
<1>4. ASSUME NEW c \in Consumer, NEW t \in Tag, NackUnparsable(c, t) PROVE DeliveriesOK'
  BY <1>4 DEF NackUnparsable, Ready, Remove, DeliveriesOK, TypeOK, jobs
<1>5. ASSUME NEW c \in Consumer, NEW m \in Msg, NEW r \in SendResult, processMessage(c, m, r)
      PROVE  DeliveriesOK'
  BY <1>5 DEF processMessage, DeliveriesOK, TypeOK, broker, history, SendResult
<1>6. ASSUME NEW c \in Consumer, NEW m \in Msg, NEW s \in BOOLEAN, abandon(c, m, s)
      PROVE  DeliveriesOK'
  BY <1>6 DEF abandon, DeliveriesOK, TypeOK, broker
<1>6a. ASSUME NEW c \in Consumer, NEW m \in Msg, answerLost(c, m) PROVE DeliveriesOK'
  BY <1>6a DEF answerLost, DeliveriesOK, TypeOK, broker, history
<1>7. ASSUME NEW c \in Consumer, HandleBatchResults(c) PROVE DeliveriesOK'
  BY <1>7 DEF HandleBatchResults, With, DeliveriesOK, TypeOK, broker, history
<1>8. ASSUME NEW c \in Consumer, NEW m \in Msg, PublishSuccess(c, m) PROVE DeliveriesOK'
  BY <1>8 DEF PublishSuccess, DeliveriesOK, TypeOK, broker, history
<1>9. ASSUME NEW c \in Consumer, PublishRetries(c) PROVE DeliveriesOK'
  <2>1. FreshTag \in Tag /\ queue[FreshTag] = NoQueue /\ DelayQueueOf(c) # NoQueue
    BY <1>9, FreshTagIsFree, QueueNames DEF PublishRetries, PutEnvelope
  <2>2. QED
    BY <1>9, <2>1 DEF PublishRetries, PutEnvelope, DeliveriesOK, TypeOK, history
<1>10. ASSUME NEW c \in Consumer, PublishDeadLetters(c) PROVE DeliveriesOK'
  BY <1>10 DEF PublishDeadLetters, DeliveriesOK, TypeOK, broker, history
<1>11. ASSUME NEW c \in Consumer, PublishFailures(c) PROVE DeliveriesOK'
  BY <1>11 DEF PublishFailures, DeliveriesOK, TypeOK, broker, history
<1>12. ASSUME NEW c \in Consumer, PublishError(c) PROVE DeliveriesOK'
  BY <1>12, <1>a DEF PublishError, Return, Held, Idle, DeliveriesOK, TypeOK
<1>13. ASSUME NEW c \in Consumer, Ack(c) PROVE DeliveriesOK'
  <2>1. CASE holder[tag[c]] = c
    <3>1. tag[c] \in Tag
      BY <1>13 DEF Ack, DeliveriesOK
    <3>2. queue' = [queue EXCEPT ![tag[c]] = NoQueue] /\ body' = [body EXCEPT ![tag[c]] = EmptyBody]
          /\ holder' = [holder EXCEPT ![tag[c]] = Nobody]
      BY <1>13, <2>1 DEF Ack, Remove
    <3>3. \A t \in Tag : holder'[t] # Nobody => t # tag[c] /\ holder'[t] = holder[t] /\ holder[t] # c
      BY <3>1, <3>2 DEF DeliveriesOK, TypeOK
    <3>4. Idle(c) /\ UNCHANGED abandoned
      BY <1>13 DEF Ack, history
    <3>5. QED
      BY <1>a, <3>1, <3>2, <3>3, <3>4 DEF Idle, DeliveriesOK, TypeOK
  <2>2. CASE holder[tag[c]] # c
    BY <1>13, <1>a, <2>2 DEF Ack, Idle, DeliveriesOK, TypeOK, broker, history
  <2>3. QED
    BY <2>1, <2>2
<1>14. ASSUME NEW t \in Tag, Expire(t) PROVE DeliveriesOK'
  BY <1>14, QueueNames DEF Expire, DeliveriesOK, TypeOK, jobs, history
<1>15. CASE ConnectionLost
  BY <1>15 DEF ConnectionLost, Return, Delivered, DeliveriesOK, TypeOK, jobs
<1>16. CASE Crash
  BY <1>16, <1>a DEF Crash, Forget, Return, Delivered, DeliveriesOK, TypeOK
<1>17. CASE Cancel
  BY <1>17 DEF Cancel, DeliveriesOK, broker, jobs, history
<1>18. CASE Exit
  BY <1>18, <1>a DEF Exit, Forget, Return, Delivered, DeliveriesOK, TypeOK
<1>19. CASE UNCHANGED vars
  BY <1>19 DEF vars, DeliveriesOK
<1>20. QED
  BY <1>1, <1>2, <1>3, <1>4, <1>5, <1>6, <1>6a, <1>7, <1>8, <1>9, <1>10, <1>11, <1>12,
     <1>13, <1>14, <1>15, <1>16, <1>17, <1>18, <1>19
  DEF Next, Receive, Send, Publish, ServedInput

\* A counter of history entries never goes down.
LEMMA BumpGrows ==
  ASSUME NEW f \in [Msg -> Nat], NEW S, NEW m \in Msg
  PROVE  /\ Bump(f, S)[m] \in Nat /\ Bump(f, S)[m] >= f[m]
         /\ m \in S => Bump(f, S)[m] > 0
  BY DEF Bump

\* Nothing is unsettled again: records are only added (SAVE_TO_DB is append-only
\* for the gateway) and what was given up stays given up.
LEMMA SettledIsStable ==
  ASSUME TypeOK, [Next]_vars, NEW m \in Msg, Settled(m)
  PROVE  Settled(m)'
<1> USE DEF Settled, Recorded
<1>1. ASSUME NEW c \in Consumer, NEW n \in Msg, PublishSuccess(c, n) PROVE Settled(m)'
  <2>1. savedSent'[m] \in Nat /\ savedSent'[m] >= savedSent[m]
    BY <1>1, BumpGrows DEF PublishSuccess, TypeOK
  <2>2. QED
    BY <1>1, <2>1 DEF PublishSuccess, TypeOK, history
<1>2. ASSUME NEW c \in Consumer, PublishFailures(c) PROVE Settled(m)'
  <2>1. savedFailed'[m] \in Nat /\ savedFailed'[m] >= savedFailed[m]
    BY <1>2, BumpGrows DEF PublishFailures, TypeOK
  <2>2. QED
    BY <1>2, <2>1 DEF PublishFailures, TypeOK, history
<1>3. ASSUME UNCHANGED <<savedSent, savedFailed>>,
             dropped \subseteq dropped', abandoned \subseteq abandoned'
      PROVE  Settled(m)'
  BY <1>3
<1>4. QED
  BY <1>1, <1>2, <1>3
  DEF Next, Receive, Send, Publish, Produce, Deliver, AckEmpty, NackUnparsable,
      processMessage, abandon, answerLost, HandleBatchResults, PublishRetries, PublishDeadLetters,
      PublishError, Ack, Expire, ConnectionLost, Crash, Cancel, Exit, vars, ledger, history

Standing == \A m \in Msg : origin[m] # NoQueue =>
              Settled(m) \/ \E t \in Tag : StandsFor(t, m)

\* Every step keeps the custody invariant: no message loses its last copy unrecorded.
LEMMA NextStanding == TypeOK /\ DeliveriesOK /\ Standing /\ [Next]_vars => Standing'
<1> SUFFICES ASSUME TypeOK, DeliveriesOK, Standing, [Next]_vars,
                    NEW m \in Msg, origin'[m] # NoQueue
             PROVE  Settled(m)' \/ \E t \in Tag : StandsFor(t, m)'
  BY DEF Standing
<1> USE ConstantsOK
<1> DEFINE Goal == Settled(m)' \/ \E t \in Tag : StandsFor(t, m)'
<1>s. ASSUME Settled(m) PROVE Goal
  BY <1>s, SettledIsStable
<1>1. ASSUME NEW q \in InputQueue, NEW S \in SUBSET Msg, Produce(q, S) PROVE Goal
  <2>1. PICK f \in Tag : f = FreshTag /\ queue[f] = NoQueue /\ q # NoQueue
    BY <1>1, FreshTagIsFree, QueueNames DEF Produce, PutEnvelope
  <2>2. CASE m \in S
    <3>1. StandsFor(f, m)'
      BY <1>1, <2>1, <2>2 DEF Produce, PutEnvelope, StandsFor, TypeOK, DeliveriesOK, Absent
    <3>2. QED
      BY <2>1, <3>1
  <2>3. CASE m \notin S
    <3>1. origin[m] # NoQueue
      BY <1>1, <2>3 DEF Produce, TypeOK
    <3>2. ASSUME NEW t \in Tag, StandsFor(t, m) PROVE StandsFor(t, m)'
      BY <1>1, <2>1, <3>2 DEF Produce, PutEnvelope, StandsFor, TypeOK, jobs
    <3>3. QED
      BY <1>s, <3>1, <3>2 DEF Standing
  <2>4. QED
    BY <2>2, <2>3
<1>2. ASSUME NEW c \in Consumer, NEW t \in Tag, Deliver(c, t) PROVE Goal
  <2>1. origin[m] # NoQueue
    BY <1>2 DEF Deliver, history
  <2>2. ASSUME NEW u \in Tag, StandsFor(u, m) PROVE StandsFor(u, m)'
    BY <1>2, <2>2 DEF Deliver, Ready, StandsFor, DeliveriesOK, TypeOK
  <2>3. QED
    BY <1>s, <2>1, <2>2 DEF Standing
<1>3. ASSUME NEW c \in Consumer, NEW t \in Tag, AckEmpty(c, t) PROVE Goal
  <2>1. origin[m] # NoQueue
    BY <1>3 DEF AckEmpty, history
  <2>2. body[t][m] = Absent
    BY <1>3 DEF AckEmpty, Holds
  <2>3. ASSUME NEW u \in Tag, StandsFor(u, m) PROVE StandsFor(u, m)'
    BY <1>3, <2>2, <2>3 DEF AckEmpty, Remove, StandsFor, TypeOK, jobs
  <2>4. QED
    BY <1>s, <2>1, <2>3 DEF Standing
<1>4. ASSUME NEW c \in Consumer, NEW t \in Tag, NackUnparsable(c, t) PROVE Goal
  <2>1. origin[m] # NoQueue
    BY <1>4 DEF NackUnparsable
  <2>2. CASE body[t][m] # Absent
    BY <1>4, <2>2 DEF NackUnparsable, Holds, Settled
  <2>3. CASE body[t][m] = Absent
    <3>1. ASSUME NEW u \in Tag, StandsFor(u, m) PROVE StandsFor(u, m)'
      BY <1>4, <2>3, <3>1 DEF NackUnparsable, Remove, StandsFor, TypeOK, jobs
    <3>2. QED
      BY <1>s, <2>1, <3>1 DEF Standing
  <2>4. QED
    BY <2>2, <2>3
<1>5. ASSUME NEW c \in Consumer, NEW n \in Msg, NEW r \in SendResult, processMessage(c, n, r)
      PROVE  Goal
  <2>1. origin[m] # NoQueue
    BY <1>5 DEF processMessage, history
  <2>2. ASSUME NEW u \in Tag, StandsFor(u, m) PROVE StandsFor(u, m)'
    BY <1>5, <2>2 DEF processMessage, StandsFor, TypeOK, broker, SendResult
  <2>3. QED
    BY <1>s, <2>1, <2>2 DEF Standing
<1>6. ASSUME NEW c \in Consumer, NEW n \in Msg, NEW s \in BOOLEAN, abandon(c, n, s)
      PROVE  Goal
  <2>1. origin[m] # NoQueue
    BY <1>6 DEF abandon
  <2>2. ASSUME NEW u \in Tag, StandsFor(u, m) PROVE StandsFor(u, m)'
    BY <1>6, <2>2 DEF abandon, StandsFor, TypeOK, broker
  <2>3. QED
    BY <1>s, <2>1, <2>2 DEF Standing
<1>6a. ASSUME NEW c \in Consumer, NEW n \in Msg, answerLost(c, n) PROVE Goal
  <2>1. origin[m] # NoQueue
    BY <1>6a DEF answerLost, history
  <2>2. ASSUME NEW u \in Tag, StandsFor(u, m) PROVE StandsFor(u, m)'
    BY <1>6a, <2>2 DEF answerLost, StandsFor, TypeOK, broker
  <2>3. QED
    BY <1>s, <2>1, <2>2 DEF Standing
<1>7. ASSUME NEW c \in Consumer, HandleBatchResults(c) PROVE Goal
  <2>1. origin[m] # NoQueue
    BY <1>7 DEF HandleBatchResults, history
  <2>2. ASSUME NEW u \in Tag, StandsFor(u, m) PROVE StandsFor(u, m)'
    BY <1>7, <2>2 DEF HandleBatchResults, StandsFor, TypeOK, broker
  <2>3. QED
    BY <1>s, <2>1, <2>2 DEF Standing
<1>8. ASSUME NEW c \in Consumer, NEW n \in Msg, PublishSuccess(c, n) PROVE Goal
  <2>1. origin[m] # NoQueue
    BY <1>8 DEF PublishSuccess, history
  <2>2. CASE n = m
    <3>1. savedSent'[m] \in Nat /\ savedSent'[m] > 0
      BY <1>8, <2>2, BumpGrows DEF PublishSuccess, TypeOK
    <3>2. QED
      BY <1>8, <3>1 DEF PublishSuccess, Settled, Recorded, TypeOK
  <2>3. CASE n # m
    <3>1. ASSUME NEW u \in Tag, StandsFor(u, m) PROVE StandsFor(u, m)'
      BY <1>8, <2>3, <3>1 DEF PublishSuccess, StandsFor, TypeOK, broker
    <3>2. QED
      BY <1>s, <2>1, <3>1 DEF Standing
  <2>4. QED
    BY <2>2, <2>3
<1>9. ASSUME NEW c \in Consumer, PublishRetries(c) PROVE Goal
  <2>1. PICK f \in Tag : f = FreshTag /\ queue[f] = NoQueue /\ DelayQueueOf(c) # NoQueue
    BY <1>9, FreshTagIsFree, QueueNames DEF PublishRetries, PutEnvelope
  <2>2. origin[m] # NoQueue
    BY <1>9 DEF PublishRetries, history
  <2>3. CASE result[c][m] = "retryable"
    <3>1. work[c][m] # Absent /\ work[c][m] \in {Absent} \cup Nat
      BY <2>3 DEF DeliveriesOK, TypeOK, Body
    <3>2. work[c][m] + 1 # Absent
      BY <3>1 DEF Absent
    <3>3. StandsFor(f, m)'
      BY <1>9, <2>1, <2>3, <3>2 DEF PublishRetries, PutEnvelope, StandsFor, TypeOK, DeliveriesOK
    <3>4. QED
      BY <2>1, <3>3
  <2>4. CASE result[c][m] # "retryable"
    <3>1. ASSUME NEW u \in Tag, StandsFor(u, m) PROVE StandsFor(u, m)'
      BY <1>9, <2>1, <2>4, <3>1 DEF PublishRetries, PutEnvelope, StandsFor, TypeOK
    <3>2. QED
      BY <1>s, <2>2, <3>1 DEF Standing
  <2>5. QED
    BY <2>3, <2>4
<1>10. ASSUME NEW c \in Consumer, PublishDeadLetters(c) PROVE Goal
  <2>1. origin[m] # NoQueue
    BY <1>10 DEF PublishDeadLetters, history
  <2>2. ASSUME NEW u \in Tag, StandsFor(u, m) PROVE StandsFor(u, m)'
    BY <1>10, <2>2 DEF PublishDeadLetters, StandsFor, TypeOK, broker
  <2>3. QED
    BY <1>s, <2>1, <2>2 DEF Standing
<1>11. ASSUME NEW c \in Consumer, PublishFailures(c) PROVE Goal
  <2>1. origin[m] # NoQueue
    BY <1>11 DEF PublishFailures, history
  <2>2. CASE result[c][m] = "dead"
    <3>1. savedFailed'[m] \in Nat /\ savedFailed'[m] > 0
      BY <1>11, <2>2, BumpGrows DEF PublishFailures, With, TypeOK
    <3>2. QED
      BY <1>11, <3>1 DEF PublishFailures, Settled, Recorded, TypeOK
  <2>3. CASE result[c][m] # "dead"
    <3>1. ASSUME NEW u \in Tag, StandsFor(u, m) PROVE StandsFor(u, m)'
      BY <1>11, <2>3, <3>1 DEF PublishFailures, StandsFor, TypeOK, broker
    <3>2. QED
      BY <1>s, <2>1, <3>1 DEF Standing
  <2>4. QED
    BY <2>2, <2>3
<1>12. ASSUME NEW c \in Consumer, PublishError(c) PROVE Goal
  <2>1. origin[m] # NoQueue
    BY <1>12 DEF PublishError
  <2>2. ASSUME NEW u \in Tag, StandsFor(u, m) PROVE StandsFor(u, m)'
    BY <1>12, <2>2 DEF PublishError, Return, Held, Idle, StandsFor, TypeOK
  <2>3. QED
    BY <1>s, <2>1, <2>2 DEF Standing
<1>13. ASSUME NEW c \in Consumer, Ack(c) PROVE Goal
  <2>1. origin[m] # NoQueue
    BY <1>13 DEF Ack, history
  <2>2. tag[c] \in Tag /\ Idle(c)
    BY <1>13 DEF Ack, DeliveriesOK
  <2>3. result[c][m] \in {"absent", "done", "abandoned"}
    BY <1>13 DEF Ack, Pending, DeliveriesOK, TypeOK, Outcome, SendResult
  <2>4. CASE holder[tag[c]] = c
    <3>1. Remove(tag[c])
      BY <1>13, <2>4 DEF Ack
    <3>2. CASE result[c][m] = "abandoned"
      BY <1>s, <3>2 DEF DeliveriesOK, Settled
    <3>3. CASE result[c][m] # "abandoned"
      <4>1. ~StandsFor(tag[c], m)
        BY <2>2, <2>3, <2>4, <3>3 DEF StandsFor, DeliveriesOK
      <4>2. ASSUME NEW u \in Tag, StandsFor(u, m) PROVE StandsFor(u, m)'
        <5>1. u # tag[c] /\ holder[u] # c
          BY <4>1, <4>2 DEF DeliveriesOK
        <5>2. QED
          BY <2>2, <3>1, <4>2, <5>1 DEF Remove, Idle, StandsFor, TypeOK
      <4>3. QED
        BY <1>s, <2>1, <4>2 DEF Standing
    <3>4. QED
      BY <3>2, <3>3
  <2>5. CASE holder[tag[c]] # c
    <3>1. ASSUME NEW u \in Tag, StandsFor(u, m) PROVE StandsFor(u, m)'
      <4>1. holder[u] # c
        BY <2>5 DEF DeliveriesOK
      <4>2. QED
        BY <1>13, <2>2, <2>5, <3>1, <4>1 DEF Ack, Idle, StandsFor, TypeOK, broker
    <3>2. QED
      BY <1>s, <2>1, <3>1 DEF Standing
  <2>6. QED
    BY <2>4, <2>5
<1>14. ASSUME NEW t \in Tag, Expire(t) PROVE Goal
  <2>1. origin[m] # NoQueue
    BY <1>14 DEF Expire, history
  <2>2. ASSUME NEW u \in Tag, StandsFor(u, m) PROVE StandsFor(u, m)'
    BY <1>14, <2>2, QueueNames DEF Expire, StandsFor, TypeOK, jobs
  <2>3. QED
    BY <1>s, <2>1, <2>2 DEF Standing
<1>15. CASE ConnectionLost
  <2>1. ASSUME NEW u \in Tag, StandsFor(u, m) PROVE StandsFor(u, m)'
    BY <1>15, <2>1 DEF ConnectionLost, Return, Delivered, StandsFor, TypeOK
  <2>2. QED
    BY <1>s, <1>15, <2>1 DEF Standing, ConnectionLost
<1>16. CASE Crash \/ Exit
  <2>1. ASSUME NEW u \in Tag, StandsFor(u, m) PROVE StandsFor(u, m)'
    BY <1>16, <2>1 DEF Crash, Exit, Forget, Return, Delivered, StandsFor, TypeOK
  <2>2. QED
    BY <1>s, <1>16, <2>1 DEF Standing, Crash, Exit
<1>17. CASE Cancel \/ UNCHANGED vars
  <2>1. ASSUME NEW u \in Tag, StandsFor(u, m) PROVE StandsFor(u, m)'
    BY <1>17, <2>1 DEF Cancel, StandsFor, broker, jobs, vars
  <2>2. QED
    BY <1>s, <1>17, <2>1 DEF Standing, Cancel, vars, history
<1>18. QED
  BY <1>1, <1>2, <1>3, <1>4, <1>5, <1>6, <1>6a, <1>7, <1>8, <1>9, <1>10, <1>11, <1>12,
     <1>13, <1>14, <1>15, <1>16, <1>17
  DEF Next, Receive, Send, Publish, ServedInput

\* The strengthened invariant holds in every behaviour.
THEOREM CustodyInvariant == Safety => []CustodyInv
<1>1. Init => DeliveriesOK /\ Standing
  <2>1. Init => Standing
    BY DEF Init, Standing
  <2>2. QED
    BY <2>1, InitDeliveriesOK
<1>2. TypeOK /\ (DeliveriesOK /\ Standing) /\ [Next]_vars => (DeliveriesOK /\ Standing)'
  BY NextDeliveriesOK, NextStanding
<1>3. DeliveriesOK /\ Standing => CustodyInv
  BY DEF CustodyInv, Standing
<1>4. QED
  BY <1>1, <1>2, <1>3, TypeCorrect, PTL DEF Safety

\* At-least-once custody: ProcessDelivery acknowledges an envelope only when
\* each of its messages is recorded, waits in a new envelope, or was given up.
THEOREM CustodyIsKept == Safety => []CustodyKept
<1>1. CustodyInv => CustodyKept
  BY DEF CustodyInv, CustodyKept, StandsFor, InBroker
<1>2. QED
  BY <1>1, CustodyInvariant, PTL

-----------------------------------------------------------------------------
(* The bound on retries: HandleBatchResults leaves only results with a     *)
(* retry to spare, and nothing but PublishRetries fills the delay queues.  *)

\* The lanes of retries are apart from the queues producers publish to.
LEMMA RetryLanes ==
  /\ \A q \in InputQueue : q \notin DelayQueue \cup RetryQueue
  /\ NoQueue \notin DelayQueue \cup RetryQueue
  /\ \A q : DeadLetterRoute(q) \in RetryQueue
  BY DEF NoQueue, InputQueue, DelayQueue, RetryQueue, Gateway, ApiV2, TransactionalDelay,
         PromotionalDelay, TransactionalRetry, PromotionalRetry, DeadLetterRoute

\* A step that leaves the stage, the work and the retryable results of the
\* goroutines alone, or makes them fewer, leaves only retries within the limit.
LEMMA NextRetriesLeft == TypeOK /\ RetriesLeft /\ [Next]_vars => RetriesLeft'
<1> SUFFICES ASSUME TypeOK, RetriesLeft, [Next]_vars PROVE RetriesLeft'
  OBVIOUS
<1> USE DEF RetriesLeft, Exhausted
<1>1. ASSUME NEW c \in Consumer, NEW t \in Tag, Deliver(c, t) PROVE RetriesLeft'
  BY <1>1 DEF Deliver, TypeOK
<1>2. ASSUME NEW c \in Consumer, NEW m \in Msg, NEW r \in SendResult, processMessage(c, m, r)
      PROVE  RetriesLeft'
  BY <1>2 DEF processMessage, TypeOK
<1>3. ASSUME NEW c \in Consumer, NEW m \in Msg, NEW s \in BOOLEAN, abandon(c, m, s)
      PROVE  RetriesLeft'
  BY <1>3 DEF abandon, TypeOK
<1>3a. ASSUME NEW c \in Consumer, NEW m \in Msg, answerLost(c, m) PROVE RetriesLeft'
  BY <1>3a DEF answerLost, TypeOK
<1>4. ASSUME NEW c \in Consumer, HandleBatchResults(c) PROVE RetriesLeft'
  BY <1>4 DEF HandleBatchResults, TypeOK
<1>5. ASSUME NEW c \in Consumer, NEW m \in Msg, PublishSuccess(c, m) PROVE RetriesLeft'
  BY <1>5 DEF PublishSuccess, TypeOK
<1>6. ASSUME NEW c \in Consumer, PublishRetries(c) \/ PublishDeadLetters(c) \/ PublishFailures(c)
      PROVE  RetriesLeft'
  <2>1. UNCHANGED <<stage, work>>
    BY <1>6 DEF PublishRetries, PublishDeadLetters, PublishFailures
  <2>2. \A d \in Consumer, m \in Msg : result'[d][m] = "retryable" => result[d][m] = "retryable"
    <3>1. CASE PublishRetries(c)
      BY <3>1 DEF PublishRetries, TypeOK
    <3>2. CASE PublishDeadLetters(c)
      BY <3>2 DEF PublishDeadLetters, TypeOK
    <3>3. CASE PublishFailures(c)
      BY <3>3 DEF PublishFailures, TypeOK
    <3>4. QED
      BY <1>6, <3>1, <3>2, <3>3
  <2>3. QED
    BY <2>1, <2>2
<1>7. ASSUME NEW c \in Consumer, PublishError(c) \/ Ack(c) PROVE RetriesLeft'
  BY <1>7 DEF PublishError, Ack, Idle, TypeOK
<1>8. CASE Crash \/ Exit
  BY <1>8 DEF Crash, Exit, Forget
<1>9. ASSUME UNCHANGED jobs PROVE RetriesLeft'
  BY <1>9 DEF jobs
<1>10. QED
  BY <1>1, <1>2, <1>3, <1>3a, <1>4, <1>5, <1>6, <1>7, <1>8, <1>9
  DEF Next, Receive, Send, Publish, Produce, AckEmpty, NackUnparsable, Expire,
      ConnectionLost, Cancel, vars, jobs

\* Only PublishRetries puts an envelope in a delay queue, only expiry moves one to
\* a retry queue, and neither lets a message past its limit.
LEMMA NextRetriesBounded ==
  TypeOK /\ DeliveriesOK /\ RetriesLeft /\ RetriesBounded /\ [Next]_vars => RetriesBounded'
<1> SUFFICES ASSUME TypeOK, DeliveriesOK, RetriesLeft, RetriesBounded, [Next]_vars
             PROVE  RetriesBounded'
  OBVIOUS
<1> USE ConstantsOK, RetryLanes DEF RetriesBounded
<1>1. ASSUME NEW q \in InputQueue, NEW S \in SUBSET Msg, Produce(q, S) PROVE RetriesBounded'
  <2>1. FreshTag \in Tag
    BY <1>1, FreshTagIsFree DEF Produce, PutEnvelope
  <2>2. QED
    BY <1>1, <2>1 DEF Produce, PutEnvelope, TypeOK, Holds
<1>2. ASSUME NEW c \in Consumer, PublishRetries(c) PROVE RetriesBounded'
  <2>1. FreshTag \in Tag
    BY <1>2, FreshTagIsFree DEF PublishRetries, PutEnvelope
  <2>2. \A m \in Msg : result[c][m] = "retryable" => work[c][m] + 1 \in 1 .. maxRetries(m)
    <3>1. TAKE m \in Msg
    <3>2. HAVE result[c][m] = "retryable"
    <3>3. work[c][m] \in Nat
      BY <3>2 DEF DeliveriesOK, TypeOK, Body
    <3>4. maxRetries(m) \in Nat
      BY DEF maxRetries
    <3>5. QED
      BY <1>2, <3>2, <3>3, <3>4 DEF PublishRetries, RetriesLeft, Exhausted
  <2>3. \A m \in Holds(body'[FreshTag]) : body'[FreshTag][m] \in 1 .. maxRetries(m)
    BY <1>2, <2>1, <2>2 DEF PublishRetries, PutEnvelope, TypeOK, Holds
  <2>4. QED
    BY <1>2, <2>1, <2>3 DEF PublishRetries, PutEnvelope, TypeOK, Holds
<1>3. ASSUME NEW t \in Tag, Remove(t) PROVE RetriesBounded'
  BY <1>3 DEF Remove, TypeOK, Holds
<1>4. ASSUME NEW t \in Tag, Expire(t) PROVE RetriesBounded'
  BY <1>4 DEF Expire, TypeOK, Holds
<1>5. ASSUME UNCHANGED <<queue, body>> PROVE RetriesBounded'
  BY <1>5 DEF Holds
<1>6. ASSUME NEW c \in Consumer, Ack(c) PROVE RetriesBounded'
  <2>1. tag[c] \in Tag
    BY <1>6 DEF Ack, DeliveriesOK
  <2>2. QED
    BY <1>3, <1>5, <1>6, <2>1 DEF Ack, broker
<1>7. QED
  BY <1>1, <1>2, <1>3, <1>4, <1>5, <1>6
  DEF Next, Receive, Send, Publish, ServedInput, Deliver, AckEmpty, NackUnparsable,
      processMessage, abandon, answerLost, HandleBatchResults, PublishSuccess, PublishDeadLetters,
      PublishFailures, PublishError, ConnectionLost, Crash, Cancel, Exit, vars, broker

\* maxRetries bounds a message's life for any limits, whatever is returned,
\* redelivered or handled by two goroutines at once.
THEOREM RetriesStayBounded == Safety => []RetriesBounded
<1>1. Init => DeliveriesOK /\ RetriesLeft /\ RetriesBounded
  <2>1. Init => RetriesLeft
    BY DEF Init, RetriesLeft
  <2>2. Init => RetriesBounded
    BY DEF Init, RetriesBounded, Holds, EmptyBody
  <2>3. QED
    BY <2>1, <2>2, InitDeliveriesOK
<1>2. /\ TypeOK /\ (DeliveriesOK /\ RetriesLeft /\ RetriesBounded) /\ [Next]_vars
         => (DeliveriesOK /\ RetriesLeft /\ RetriesBounded)'
  BY NextDeliveriesOK, NextRetriesLeft, NextRetriesBounded
<1>3. QED
  BY <1>1, <1>2, TypeCorrect, PTL DEF Safety

-----------------------------------------------------------------------------
(* The safety part of the refinement: what a producer is promised.         *)

\* A message gets a trace only from the envelope a producer put it in.
LEMMA NextUntouched == TypeOK /\ Untouched /\ [Next]_vars => Untouched'
<1> SUFFICES ASSUME TypeOK, Untouched, [Next]_vars PROVE Untouched'
  OBVIOUS
<1> USE ConstantsOK DEF Untouched
<1>a. \A m \in Msg : EmptyBody[m] = Absent /\ NoResult[m] = "absent"
  BY DEF EmptyBody, NoResult
<1>1. ASSUME NEW q \in InputQueue, NEW S \in SUBSET Msg, Produce(q, S) PROVE Untouched'
  <2>1. FreshTag \in Tag /\ q # NoQueue
    BY <1>1, FreshTagIsFree, QueueNames DEF Produce, PutEnvelope
  <2>2. \A m \in Msg : origin'[m] = NoQueue => m \notin S /\ origin[m] = NoQueue
    BY <1>1, <2>1 DEF Produce, TypeOK
  <2>3. QED
    BY <1>1, <2>1, <2>2 DEF Produce, PutEnvelope, TypeOK, jobs, ledger
<1>2. ASSUME NEW c \in Consumer, NEW t \in Tag, Deliver(c, t) PROVE Untouched'
  BY <1>2 DEF Deliver, TypeOK, ledger, history
<1>3. ASSUME NEW c \in Consumer, NEW t \in Tag, AckEmpty(c, t) PROVE Untouched'
  BY <1>3, <1>a DEF AckEmpty, Remove, TypeOK, jobs, ledger, history
<1>4. ASSUME NEW c \in Consumer, NEW t \in Tag, NackUnparsable(c, t) PROVE Untouched'
  BY <1>4, <1>a DEF NackUnparsable, Remove, Holds, TypeOK, jobs, ledger
<1>5. ASSUME NEW c \in Consumer, NEW n \in Msg, NEW r \in SendResult, processMessage(c, n, r)
      PROVE  Untouched'
  BY <1>5 DEF processMessage, Bump, TypeOK, broker, history
<1>6. ASSUME NEW c \in Consumer, NEW n \in Msg, NEW s \in BOOLEAN, abandon(c, n, s)
      PROVE  Untouched'
  BY <1>6 DEF abandon, Bump, TypeOK, broker
<1>6a. ASSUME NEW c \in Consumer, NEW n \in Msg, answerLost(c, n) PROVE Untouched'
  BY <1>6a DEF answerLost, Bump, TypeOK, broker, history
<1>7. ASSUME NEW c \in Consumer, HandleBatchResults(c) PROVE Untouched'
  BY <1>7 DEF HandleBatchResults, TypeOK, broker, ledger, history
<1>8. ASSUME NEW c \in Consumer, NEW n \in Msg, PublishSuccess(c, n) PROVE Untouched'
  BY <1>8 DEF PublishSuccess, Bump, TypeOK, broker, history
<1>9. ASSUME NEW c \in Consumer, PublishRetries(c) PROVE Untouched'
  <2>1. FreshTag \in Tag
    BY <1>9, FreshTagIsFree DEF PublishRetries, PutEnvelope
  <2>2. QED
    BY <1>9, <2>1 DEF PublishRetries, PutEnvelope, TypeOK, ledger, history
<1>10. ASSUME NEW c \in Consumer, PublishDeadLetters(c) PROVE Untouched'
  BY <1>10 DEF PublishDeadLetters, TypeOK, broker, history
<1>11. ASSUME NEW c \in Consumer, PublishFailures(c) PROVE Untouched'
  BY <1>11 DEF PublishFailures, With, Bump, TypeOK, broker, history
<1>12. ASSUME NEW c \in Consumer, PublishError(c) PROVE Untouched'
  BY <1>12, <1>a DEF PublishError, Idle, TypeOK, ledger
<1>13. ASSUME NEW c \in Consumer, Ack(c) PROVE Untouched'
  <2>1. \A t \in Tag, m \in Msg : body[t][m] = Absent => body'[t][m] = Absent
    BY <1>13, <1>a DEF Ack, Remove, TypeOK, broker
  <2>2. QED
    BY <1>13, <1>a, <2>1 DEF Ack, Idle, TypeOK, ledger, history
<1>14. CASE Crash \/ Exit
  BY <1>14, <1>a DEF Crash, Exit, Forget, ledger
<1>15. CASE ConnectionLost \/ Cancel \/ (\E t \in Tag : Expire(t)) \/ UNCHANGED vars
  BY <1>15 DEF ConnectionLost, Cancel, Expire, vars, broker, jobs, ledger, history
<1>16. QED
  BY <1>1, <1>2, <1>3, <1>4, <1>5, <1>6, <1>6a, <1>7, <1>8, <1>9, <1>10, <1>11, <1>12,
     <1>13, <1>14, <1>15
  DEF Next, Receive, Send, Publish, ServedInput

\* Before anything is produced there are no traces.
LEMMA InitUntouched == Init => Untouched
<1>1. \A m \in Msg : EmptyBody[m] = Absent /\ NoResult[m] = "absent"
  BY DEF EmptyBody, NoResult
<1>2. QED
  BY <1>1 DEF Init, Untouched

\* In every reachable state a message that was not produced has left no trace.
LEMMA UntouchedInvariant == Safety => []Untouched
  BY InitUntouched, NextUntouched, TypeCorrect, PTL DEF Safety

\* Nobody but a producer says where a message came from.
LEMMA OriginIsStable ==
  ASSUME [Next]_vars, ~\E q \in ServedInput, S \in SUBSET Msg : Produce(q, S)
  PROVE  UNCHANGED origin
  BY DEF Next, Receive, Send, Publish, Deliver, AckEmpty, NackUnparsable,
      processMessage, abandon, answerLost, HandleBatchResults, PublishSuccess, PublishRetries,
      PublishDeadLetters, PublishFailures, PublishError, Ack, Expire, ConnectionLost,
      Crash, Cancel, Exit, vars, history

\* Each step is a step of MessageCustody or stutters: a producer's publish accepts,
\* a record, a rejected envelope and an abandoned message settle.
LEMMA CustodyStep ==
  TypeOK /\ Untouched /\ [Next]_vars => [Custody!Next]_CustodyStatus
<1> SUFFICES ASSUME TypeOK, Untouched, [Next]_vars
             PROVE  Custody!Next \/ CustodyStatus' = CustodyStatus
  OBVIOUS
<1>1. ASSUME NEW q \in ServedInput, NEW S \in SUBSET Msg, Produce(q, S) PROVE Custody!Next
  <2>1. q # NoQueue
    BY QueueNames DEF ServedInput
  <2>2. \A m \in Msg : origin'[m] = IF m \in S THEN q ELSE origin[m]
    BY <1>1 DEF Produce
  <2>3. \A m \in Msg : Settled(m)' = Settled(m)
    BY <1>1 DEF Produce, Settled, Recorded, ledger
  <2>4. \A m \in S : origin[m] = NoQueue /\ ~Settled(m)
    BY <1>1 DEF Produce, Untouched, Settled, Recorded
  <2>5. S # {} /\ \A m \in S : CustodyStatus[m] = "new"
    BY <1>1, <2>4 DEF Produce, CustodyStatus
  <2>6. CustodyStatus' = [m \in Msg |-> IF m \in S THEN "accepted" ELSE CustodyStatus[m]]
    BY <2>1, <2>2, <2>3, <2>4 DEF CustodyStatus
  <2>7. QED
    BY <2>5, <2>6 DEF Custody!Next, Custody!Accept
<1>2. ASSUME UNCHANGED origin PROVE Custody!Next \/ CustodyStatus' = CustodyStatus
  <2> DEFINE S == {m \in Msg : CustodyStatus[m] = "accepted" /\ Settled(m)'}
  <2>1. \A m \in Msg : Settled(m) => Settled(m)'
    BY SettledIsStable
  <2>2. CustodyStatus' = [m \in Msg |-> IF m \in S THEN "settled" ELSE CustodyStatus[m]]
    BY <1>2, <2>1 DEF CustodyStatus
  <2>3. CASE S = {}
    BY <2>2, <2>3 DEF CustodyStatus
  <2>4. CASE S # {}
    BY <2>2, <2>4 DEF Custody!Next, Custody!Settle
  <2>5. QED
    BY <2>3, <2>4
<1>3. QED
  BY <1>1, <1>2, OriginIsStable

\* The pipeline keeps the safety half of its promise to producers: a message is
\* settled only after it was accepted, and what is settled stays settled.
THEOREM SafetyImplementsCustody == Safety => Custody!Safety
<1>1. Init => Custody!Init
  BY DEF Init, Custody!Init, CustodyStatus
<1>2. QED
  BY <1>1, CustodyStep, TypeCorrect, UntouchedInvariant, PTL DEF Safety, Custody!Safety

-----------------------------------------------------------------------------
(* The accounts.  An envelope that is ready may cost a send and a record,  *)
(* and so may a goroutine that is not done with a message; a delivery      *)
(* moves that from the envelope to the goroutine, a retry back, and a      *)
(* returned envelope is counted in redelivered.                            *)

One(p) == IF p THEN 1 ELSE 0

\* Two sets that differ in one element at most.
LEMMA CountOne ==
  ASSUME NEW S, NEW T, NEW c, IsFiniteSet(S), S \ {c} = T \ {c}
  PROVE  /\ Cardinality(S) \in Nat /\ Cardinality(T) \in Nat
         /\ Cardinality(T) + One(c \in S) = Cardinality(S) + One(c \in T)
<1> DEFINE R == S \ {c}
<1>1. IsFiniteSet(R)
  BY FS_Subset
<1>2. Cardinality(R) \in Nat
  BY <1>1, FS_CardinalityType
<1>3. ASSUME NEW U, U \ {c} = R PROVE Cardinality(U) = Cardinality(R) + One(c \in U)
  <2>1. CASE c \in U
    <3>1. U = R \cup {c} /\ c \notin R
      BY <1>3, <2>1
    <3>2. QED
      BY <1>1, <2>1, <3>1, FS_AddElement DEF One
  <2>2. CASE c \notin U
    <3>1. U = R
      BY <1>3, <2>2
    <3>2. QED
      BY <1>2, <2>2, <3>1 DEF One
  <2>3. QED
    BY <2>1, <2>2
<1>4. Cardinality(S) = Cardinality(R) + One(c \in S)
  BY <1>3
<1>5. Cardinality(T) = Cardinality(R) + One(c \in T)
  BY <1>3
<1>6. QED
  BY <1>2, <1>4, <1>5 DEF One

\* The envelopes and the goroutines that count are finitely many.
LEMMA CountsFinite ==
  ASSUME NEW m
  PROVE  /\ IsFiniteSet(Waiting(m)) /\ Cardinality(Waiting(m)) \in Nat
         /\ \A O : IsFiniteSet(At(m, O)) /\ Cardinality(At(m, O)) \in Nat
<1>1. IsFiniteSet(Tag) /\ IsFiniteSet(Consumer)
  BY ConstantsOK, FS_Interval DEF Tag
<1>2. Waiting(m) \subseteq Tag /\ \A O : At(m, O) \subseteq Consumer
  BY DEF Waiting, At
<1>3. IsFiniteSet(Waiting(m)) /\ \A O : IsFiniteSet(At(m, O))
  BY <1>1, <1>2, FS_Subset
<1>4. QED
  BY <1>3, FS_CardinalityType

\* One goroutine's result of m changes.
LEMMA AtStep ==
  ASSUME NEW c \in Consumer, NEW m, NEW O,
         \A d \in Consumer \ {c} : result'[d][m] = result[d][m]
  PROVE  /\ Cardinality(At(m, O)) \in Nat /\ Cardinality(At(m, O)') \in Nat
         /\ Cardinality(At(m, O)') + One(result[c][m] \in O)
              = Cardinality(At(m, O)) + One(result'[c][m] \in O)
<1>1. At(m, O) \ {c} = At(m, O)' \ {c}
  BY DEF At
<1>2. c \in At(m, O) <=> result[c][m] \in O
  BY DEF At
<1>3. c \in At(m, O)' <=> result'[c][m] \in O
  BY DEF At
<1>4. IsFiniteSet(At(m, O))
  BY CountsFinite
<1>5. QED
  BY <1>1, <1>2, <1>3, <1>4, CountOne DEF One

\* The account of one message.
Account(m) ==
  /\ accepted[m] + Open(m, Unsent) <= 1 + redelivered[m] + unheard[m]
  /\ savedSent[m] + savedFailed[m] + Open(m, Unrecorded) <= 1 + redelivered[m]
  /\ savedSent[m] + unheard[m] + Cardinality(At(m, {"success"})) <= accepted[m]
  /\ savedFailed[m] + Cardinality(At(m, {"dead"})) <= dead[m]

\* The accounts are in order if each message's is.
LEMMA AccountsEach == AccountsInv <=> \A m \in Msg : Account(m)
  BY DEF AccountsInv, SendsPaid, RecordsPaid, FactsFirst, Account

\* The counters of m, before and after a step.
LEMMA CountersNat ==
  ASSUME TypeOK, TypeOK', NEW m \in Msg
  PROVE  /\ accepted[m] \in Nat /\ savedSent[m] \in Nat /\ savedFailed[m] \in Nat
         /\ dead[m] \in Nat /\ redelivered[m] \in Nat /\ unheard[m] \in Nat
         /\ accepted'[m] \in Nat /\ savedSent'[m] \in Nat /\ savedFailed'[m] \in Nat
         /\ dead'[m] \in Nat /\ redelivered'[m] \in Nat /\ unheard'[m] \in Nat
  BY DEF TypeOK

\* The number of ready envelopes with m after a step.
LEMMA WaitingNat ==
  ASSUME NEW m
  PROVE  IsFiniteSet(Waiting(m)') /\ Cardinality(Waiting(m)') \in Nat
<1>1. IsFiniteSet(Tag) /\ Waiting(m)' \subseteq Tag
  BY ConstantsOK, FS_Interval DEF Tag, Waiting
<1>2. IsFiniteSet(Waiting(m)')
  BY <1>1, FS_Subset
<1>3. QED
  BY <1>2, FS_CardinalityType

\* Goroutine c gets on with m: what it may still cost, with what it has cost and
\* with the envelopes that are ready, has not grown.
LEMMA GoroutineStep ==
  ASSUME TypeOK, TypeOK', NEW m \in Msg, Account(m), NEW c \in Consumer,
         \A d \in Consumer \ {c} : result'[d][m] = result[d][m],
         redelivered'[m] = redelivered[m],
         accepted'[m] + unheard[m] + Cardinality(Waiting(m)') + One(result'[c][m] \in Unsent)
           <= accepted[m] + unheard'[m] + Cardinality(Waiting(m))
             + One(result[c][m] \in Unsent),
         savedSent'[m] + savedFailed'[m] + Cardinality(Waiting(m)')
             + One(result'[c][m] \in Unrecorded)
           <= savedSent[m] + savedFailed[m] + Cardinality(Waiting(m))
             + One(result[c][m] \in Unrecorded),
         savedSent'[m] + unheard'[m] + One(result'[c][m] \in {"success"}) + accepted[m]
           <= savedSent[m] + unheard[m] + One(result[c][m] \in {"success"}) + accepted'[m],
         savedFailed'[m] + One(result'[c][m] \in {"dead"}) + dead[m]
           <= savedFailed[m] + One(result[c][m] \in {"dead"}) + dead'[m]
  PROVE  Account(m)'
<1>1. Cardinality(Waiting(m)) \in Nat /\ Cardinality(Waiting(m)') \in Nat
  BY CountsFinite, WaitingNat
<1>2. /\ Cardinality(At(m, Unsent)) \in Nat /\ Cardinality(At(m, Unsent)') \in Nat
      /\ Cardinality(At(m, Unsent)') + One(result[c][m] \in Unsent)
           = Cardinality(At(m, Unsent)) + One(result'[c][m] \in Unsent)
  BY AtStep
<1>3. /\ Cardinality(At(m, Unrecorded)) \in Nat /\ Cardinality(At(m, Unrecorded)') \in Nat
      /\ Cardinality(At(m, Unrecorded)') + One(result[c][m] \in Unrecorded)
           = Cardinality(At(m, Unrecorded)) + One(result'[c][m] \in Unrecorded)
  BY AtStep
<1>4. /\ Cardinality(At(m, {"success"})) \in Nat /\ Cardinality(At(m, {"success"})') \in Nat
      /\ Cardinality(At(m, {"success"})') + One(result[c][m] \in {"success"})
           = Cardinality(At(m, {"success"})) + One(result'[c][m] \in {"success"})
  BY AtStep
<1>5. /\ Cardinality(At(m, {"dead"})) \in Nat /\ Cardinality(At(m, {"dead"})') \in Nat
      /\ Cardinality(At(m, {"dead"})') + One(result[c][m] \in {"dead"})
           = Cardinality(At(m, {"dead"})) + One(result'[c][m] \in {"dead"})
  BY AtStep
<1>6. \A p : One(p) \in Nat
  BY DEF One
<1>7. /\ Open(m, Unsent)' = Cardinality(Waiting(m)') + Cardinality(At(m, Unsent)')
      /\ Open(m, Unrecorded)' = Cardinality(Waiting(m)') + Cardinality(At(m, Unrecorded)')
  BY DEF Open, Unsent, Unrecorded
<1>8. (accepted[m] + Open(m, Unsent) <= 1 + redelivered[m] + unheard[m])'
  BY <1>1, <1>2, <1>6, <1>7, CountersNat DEF Account, Open
<1>9. (savedSent[m] + savedFailed[m] + Open(m, Unrecorded) <= 1 + redelivered[m])'
  BY <1>1, <1>3, <1>6, <1>7, CountersNat DEF Account, Open
<1>10. (savedSent[m] + unheard[m] + Cardinality(At(m, {"success"})) <= accepted[m])'
  BY <1>4, <1>6, CountersNat DEF Account
<1>11. (savedFailed[m] + Cardinality(At(m, {"dead"})) <= dead[m])'
  BY <1>5, <1>6, CountersNat DEF Account
<1>12. QED
  BY <1>8, <1>9, <1>10, <1>11 DEF Account

\* Goroutines forget m or keep what they have of it, nothing is sent or recorded,
\* and each envelope that has become ready is counted as returned.
LEMMA ForgetStep ==
  ASSUME TypeOK, TypeOK', NEW m \in Msg, Account(m),
         \A c \in Consumer : result'[c][m] \in {result[c][m], "absent"},
         UNCHANGED ledger,
         Cardinality(Waiting(m)') + redelivered[m] <= Cardinality(Waiting(m)) + redelivered'[m]
  PROVE  Account(m)'
<1>1. Cardinality(Waiting(m)) \in Nat /\ Cardinality(Waiting(m)') \in Nat
  BY CountsFinite, WaitingNat
<1>2. ASSUME NEW O, "absent" \notin O
      PROVE  /\ Cardinality(At(m, O)) \in Nat /\ Cardinality(At(m, O)') \in Nat
             /\ Cardinality(At(m, O)') <= Cardinality(At(m, O))
  <2>1. At(m, O)' \subseteq At(m, O)
    BY <1>2 DEF At
  <2>2. IsFiniteSet(At(m, O)) /\ Cardinality(At(m, O)) \in Nat
    BY CountsFinite
  <2>3. IsFiniteSet(At(m, O)') /\ Cardinality(At(m, O)') <= Cardinality(At(m, O))
    BY <2>1, <2>2, FS_Subset
  <2>4. QED
    BY <2>2, <2>3, FS_CardinalityType
<1>3. "absent" \notin Unsent /\ "absent" \notin Unrecorded
  BY DEF Unsent, Unrecorded
<1>4. /\ Open(m, Unsent)' = Cardinality(Waiting(m)') + Cardinality(At(m, Unsent)')
      /\ Open(m, Unrecorded)' = Cardinality(Waiting(m)') + Cardinality(At(m, Unrecorded)')
  BY DEF Open, Unsent, Unrecorded
<1>5. /\ Cardinality(At(m, Unsent)) \in Nat /\ Cardinality(At(m, Unsent)') \in Nat
      /\ Cardinality(At(m, Unsent)') <= Cardinality(At(m, Unsent))
  BY <1>2, <1>3
<1>6. /\ Cardinality(At(m, Unrecorded)) \in Nat /\ Cardinality(At(m, Unrecorded)') \in Nat
      /\ Cardinality(At(m, Unrecorded)') <= Cardinality(At(m, Unrecorded))
  BY <1>2, <1>3
<1>7. /\ Cardinality(At(m, {"success"})) \in Nat /\ Cardinality(At(m, {"success"})') \in Nat
      /\ Cardinality(At(m, {"success"})') <= Cardinality(At(m, {"success"}))
  BY <1>2
<1>8. /\ Cardinality(At(m, {"dead"})) \in Nat /\ Cardinality(At(m, {"dead"})') \in Nat
      /\ Cardinality(At(m, {"dead"})') <= Cardinality(At(m, {"dead"}))
  BY <1>2
<1>9. /\ accepted' = accepted /\ unheard' = unheard /\ savedSent' = savedSent
      /\ savedFailed' = savedFailed /\ dead' = dead
  BY DEF ledger
<1>10. (accepted[m] + Open(m, Unsent) <= 1 + redelivered[m] + unheard[m])'
  BY <1>1, <1>4, <1>5, <1>9, CountersNat DEF Account, Open
<1>11. (savedSent[m] + savedFailed[m] + Open(m, Unrecorded) <= 1 + redelivered[m])'
  BY <1>1, <1>4, <1>6, <1>9, CountersNat DEF Account, Open
<1>12. (savedSent[m] + unheard[m] + Cardinality(At(m, {"success"})) <= accepted[m])'
  BY <1>7, <1>9, CountersNat DEF Account
<1>13. (savedFailed[m] + Cardinality(At(m, {"dead"})) <= dead[m])'
  BY <1>8, <1>9, CountersNat DEF Account
<1>14. QED
  BY <1>10, <1>11, <1>12, <1>13 DEF Account

\* Envelopes leave the broker, or stay as they are.
LEMMA FewerWaiting ==
  ASSUME TypeOK, NEW m \in Msg, Waiting(m)' \subseteq Waiting(m), UNCHANGED redelivered
  PROVE  Cardinality(Waiting(m)') + redelivered[m] <= Cardinality(Waiting(m)) + redelivered'[m]
<1>1. Cardinality(Waiting(m)) \in Nat /\ Cardinality(Waiting(m)') \in Nat
  BY CountsFinite, WaitingNat
<1>2. Cardinality(Waiting(m)') <= Cardinality(Waiting(m))
  BY CountsFinite, FS_Subset
<1>3. redelivered[m] \in Nat
  BY DEF TypeOK
<1>4. QED
  BY <1>1, <1>2, <1>3

\* Envelopes that are returned were not ready before.
LEMMA ReturnedWaiting ==
  ASSUME TypeOK, NEW S \in SUBSET Delivered, Return(S), UNCHANGED body, NEW m \in Msg
  PROVE  Cardinality(Waiting(m)') + redelivered[m] <= Cardinality(Waiting(m)) + redelivered'[m]
<1> DEFINE R == {t \in S : body[t][m] # Absent}
<1>1. Waiting(m)' = Waiting(m) \cup R /\ Waiting(m) \cap R = {} /\ R \subseteq Tag
  BY DEF Return, Waiting, Delivered, TypeOK
<1>2. IsFiniteSet(R) /\ Cardinality(R) \in Nat
  <2>1. IsFiniteSet(Tag)
    BY ConstantsOK, FS_Interval DEF Tag
  <2>2. IsFiniteSet(R)
    BY <1>1, <2>1, FS_Subset
  <2>3. QED
    BY <2>2, FS_CardinalityType
<1>3. IsFiniteSet(Waiting(m)) /\ Cardinality(Waiting(m)) \in Nat
  BY CountsFinite
<1>4. Cardinality(Waiting(m)') = Cardinality(Waiting(m)) + Cardinality(R)
  <2>1. Cardinality(Waiting(m) \cup R)
          = Cardinality(Waiting(m)) + Cardinality(R) - Cardinality(Waiting(m) \cap R)
    BY <1>2, <1>3, FS_Union
  <2>2. Cardinality(Waiting(m) \cap R) = 0
    BY <1>1, FS_EmptySet
  <2>3. QED
    BY <1>1, <1>2, <1>3, <2>1, <2>2
<1>5. redelivered'[m] = redelivered[m] + Cardinality(R) /\ redelivered[m] \in Nat
  BY DEF Return, TypeOK
<1>6. QED
  BY <1>2, <1>3, <1>4, <1>5

\* One step of a goroutine keeps every account.
LEMMA GoroutineAccounts ==
  ASSUME TypeOK, TypeOK', DeliveriesOK, NEW m \in Msg, Account(m), NEW c \in Consumer,
         \/ \E t \in Tag : Deliver(c, t)
         \/ Send(c) \/ HandleBatchResults(c) \/ Publish(c)
  PROVE  Account(m)'
<1> DEFINE W  == Cardinality(Waiting(m))
           W2 == Cardinality(Waiting(m)')
           r  == result[c][m]
           r2 == result'[c][m]
           Good == /\ \A d \in Consumer \ {c} : result'[d][m] = result[d][m]
                   /\ redelivered'[m] = redelivered[m]
                   /\ accepted'[m] + unheard[m] + W2 + One(r2 \in Unsent)
                        <= accepted[m] + unheard'[m] + W + One(r \in Unsent)
                   /\ savedSent'[m] + savedFailed'[m] + W2 + One(r2 \in Unrecorded)
                        <= savedSent[m] + savedFailed[m] + W + One(r \in Unrecorded)
                   /\ savedSent'[m] + unheard'[m] + One(r2 \in {"success"}) + accepted[m]
                        <= savedSent[m] + unheard[m] + One(r \in {"success"}) + accepted'[m]
                   /\ savedFailed'[m] + One(r2 \in {"dead"}) + dead[m]
                        <= savedFailed[m] + One(r \in {"dead"}) + dead'[m]
<1>a. W \in Nat /\ W2 \in Nat
  BY CountsFinite, WaitingNat
<1>b. /\ accepted[m] \in Nat /\ savedSent[m] \in Nat /\ savedFailed[m] \in Nat
      /\ dead[m] \in Nat /\ unheard[m] \in Nat
  BY DEF TypeOK
<1>c. ASSUME UNCHANGED <<body, holder>> PROVE W2 = W
  BY <1>c DEF Waiting
<1> HIDE DEF W, W2
<1> USE DEF One, Unsent, Unrecorded
<1>1. ASSUME NEW t \in Tag, Deliver(c, t) PROVE Good
  <2>1. UNCHANGED <<accepted, unheard, savedSent, savedFailed, dead, redelivered, body>>
    BY <1>1 DEF Deliver, history, ledger
  <2>2. \A d \in Consumer \ {c} : result'[d][m] = result[d][m]
    BY <1>1 DEF Deliver, TypeOK
  <2>3. holder[t] = Nobody /\ holder' = [holder EXCEPT ![t] = c] /\ c # Nobody
    BY <1>1, ConstantsOK DEF Deliver, Ready
  <2>4. CASE body[t][m] = Absent
    <3>1. r2 = "absent"
      BY <1>1, <2>4 DEF Deliver, TypeOK
    <3>2. Waiting(m)' = Waiting(m)
      BY <2>1, <2>3, <2>4 DEF Waiting, TypeOK
    <3>3. W2 = W
      BY <3>2 DEF W, W2
    <3>4. QED
      BY <1>a, <1>b, <2>1, <2>2, <3>1, <3>3
  <2>5. CASE body[t][m] # Absent
    <3>1. r2 = "todo"
      BY <1>1, <2>5 DEF Deliver, TypeOK
    <3>2. Waiting(m) \ {t} = Waiting(m)' \ {t} /\ t \in Waiting(m) /\ t \notin Waiting(m)'
      BY <2>1, <2>3, <2>5 DEF Waiting, TypeOK
    <3>3. W2 + 1 = W
      BY <1>a, <3>2, CountsFinite, CountOne DEF W, W2
    <3>4. QED
      BY <1>a, <1>b, <2>1, <2>2, <3>1, <3>3
  <2>6. QED
    BY <2>4, <2>5
<1>2. ASSUME NEW n \in Msg, NEW x \in SendResult, processMessage(c, n, x) PROVE Good
  <2>1. W2 = W /\ UNCHANGED <<unheard, savedSent, savedFailed, dead, redelivered>>
    BY <1>2, <1>c DEF processMessage, broker, history
  <2>2. \A d \in Consumer \ {c} : result'[d][m] = result[d][m]
    BY <1>2 DEF processMessage, TypeOK
  <2>3. CASE n = m
    <3>1. r = "todo" /\ r2 = x /\ x \in {"success", "retryable", "permanent"}
      BY <1>2, <2>3 DEF processMessage, TypeOK, SendResult
    <3>2. accepted'[m] = IF x = "success" THEN accepted[m] + 1 ELSE accepted[m]
      BY <1>2, <2>3 DEF processMessage, Bump
    <3>3. QED
      BY <1>a, <1>b, <2>1, <2>2, <3>1, <3>2
  <2>4. CASE n # m
    <3>1. r2 = r /\ accepted'[m] = accepted[m]
      BY <1>2, <2>4 DEF processMessage, TypeOK, Bump
    <3>2. QED
      BY <1>a, <1>b, <2>1, <2>2, <3>1
  <2>5. QED
    BY <2>3, <2>4
<1>3. ASSUME NEW n \in Msg, NEW x \in BOOLEAN, abandon(c, n, x) PROVE Good
  <2>1. W2 = W /\ UNCHANGED <<unheard, savedSent, savedFailed, dead, redelivered>>
    BY <1>3, <1>c DEF abandon, broker
  <2>2. \A d \in Consumer \ {c} : result'[d][m] = result[d][m]
    BY <1>3 DEF abandon, TypeOK
  <2>3. CASE n = m
    <3>1. r = "todo" /\ r2 = "abandoned"
      BY <1>3, <2>3 DEF abandon, TypeOK
    <3>2. accepted'[m] = accepted[m] + 1 \/ accepted'[m] = accepted[m]
      BY <1>3, <2>3 DEF abandon, Bump
    <3>3. QED
      BY <1>a, <1>b, <2>1, <2>2, <3>1, <3>2
  <2>4. CASE n # m
    <3>1. r2 = r /\ accepted'[m] = accepted[m]
      BY <1>3, <2>4 DEF abandon, TypeOK, Bump
    <3>2. QED
      BY <1>a, <1>b, <2>1, <2>2, <3>1
  <2>5. QED
    BY <2>3, <2>4
<1>3a. ASSUME NEW n \in Msg, answerLost(c, n) PROVE Good
  <2>1. W2 = W /\ UNCHANGED <<savedSent, savedFailed, dead, redelivered>>
    BY <1>3a, <1>c DEF answerLost, broker, history
  <2>2. \A d \in Consumer \ {c} : result'[d][m] = result[d][m]
    BY <1>3a DEF answerLost, TypeOK
  <2>3. \/ /\ r = "todo" /\ r2 = "retryable"
           /\ accepted'[m] = accepted[m] + 1 /\ unheard'[m] = unheard[m] + 1
        \/ r2 = r /\ accepted'[m] = accepted[m] /\ unheard'[m] = unheard[m]
    BY <1>3a DEF answerLost, TypeOK, Bump
  <2>4. QED
    BY <1>a, <1>b, <2>1, <2>2, <2>3
<1>4. ASSUME HandleBatchResults(c) PROVE Good
  <2>1. /\ W2 = W
        /\ UNCHANGED <<accepted, unheard, savedSent, savedFailed, dead, redelivered>>
    BY <1>4, <1>c DEF HandleBatchResults, broker, ledger, history
  <2>2. \A d \in Consumer \ {c} : result'[d][m] = result[d][m]
    BY <1>4 DEF HandleBatchResults, TypeOK
  <2>3. r2 = r \/ (r = "retryable" /\ r2 = "permanent")
    BY <1>4 DEF HandleBatchResults, TypeOK
  <2>4. QED
    BY <1>a, <1>b, <2>1, <2>2, <2>3
<1>5. ASSUME NEW n \in Msg, PublishSuccess(c, n) PROVE Good
  <2>1. W2 = W /\ UNCHANGED <<accepted, unheard, savedFailed, dead, redelivered>>
    BY <1>5, <1>c DEF PublishSuccess, broker, history
  <2>2. \A d \in Consumer \ {c} : result'[d][m] = result[d][m]
    BY <1>5 DEF PublishSuccess, TypeOK
  <2>3. \/ n = m /\ r = "success" /\ r2 = "done" /\ savedSent'[m] = savedSent[m] + 1
        \/ r2 = r /\ savedSent'[m] = savedSent[m]
    BY <1>5 DEF PublishSuccess, TypeOK, Bump
  <2>4. QED
    BY <1>a, <1>b, <2>1, <2>2, <2>3
<1>6. ASSUME PublishRetries(c) PROVE Good
  <2>1. UNCHANGED <<accepted, unheard, savedSent, savedFailed, dead, redelivered, holder>>
    BY <1>6 DEF PublishRetries, PutEnvelope, ledger, history
  <2>2. \A d \in Consumer \ {c} : result'[d][m] = result[d][m]
    BY <1>6 DEF PublishRetries, TypeOK
  <2>3. PICK f \in Tag : f = FreshTag /\ queue[f] = NoQueue
    BY <1>6, FreshTagIsFree DEF PublishRetries, PutEnvelope
  <2>4. body[f] = EmptyBody /\ holder[f] = Nobody
    BY <2>3 DEF DeliveriesOK
  <2>5. body' = [body EXCEPT ![f] = [n \in Msg |->
                   IF result[c][n] = "retryable" THEN work[c][n] + 1 ELSE Absent]]
    BY <1>6, <2>3 DEF PublishRetries, PutEnvelope
  <2>6. Waiting(m) \ {f} = Waiting(m)' \ {f} /\ f \notin Waiting(m)
    BY <2>1, <2>4, <2>5 DEF Waiting, TypeOK, EmptyBody
  <2>7. CASE r = "retryable"
    <3>1. r2 = "done"
      BY <1>6, <2>7 DEF PublishRetries, TypeOK
    <3>2. work[c][m] \in Nat
      BY <2>7 DEF DeliveriesOK, TypeOK, Body
    <3>3. f \in Waiting(m)'
      BY <2>1, <2>4, <2>5, <2>7, <3>2 DEF Waiting, TypeOK, Absent
    <3>4. W2 = W + 1
      BY <1>a, <2>6, <3>3, CountsFinite, CountOne DEF W, W2
    <3>5. QED
      BY <1>a, <1>b, <2>1, <2>2, <2>7, <3>1, <3>4
  <2>8. CASE r # "retryable"
    <3>1. r2 = r
      BY <1>6, <2>8 DEF PublishRetries, TypeOK
    <3>2. f \notin Waiting(m)'
      BY <2>5, <2>8 DEF Waiting, TypeOK
    <3>3. W2 = W
      BY <1>a, <2>6, <3>2, CountsFinite, CountOne DEF W, W2
    <3>4. QED
      BY <1>a, <1>b, <2>1, <2>2, <3>1, <3>3
  <2>9. QED
    BY <2>7, <2>8
<1>7. ASSUME PublishDeadLetters(c) PROVE Good
  <2>1. W2 = W /\ UNCHANGED <<accepted, unheard, savedSent, savedFailed, redelivered>>
    BY <1>7, <1>c DEF PublishDeadLetters, broker, history
  <2>2. \A d \in Consumer \ {c} : result'[d][m] = result[d][m]
    BY <1>7 DEF PublishDeadLetters, TypeOK
  <2>3. \/ r = "permanent" /\ r2 = "dead" /\ dead'[m] = dead[m] + 1
        \/ r2 = r /\ dead'[m] = dead[m]
    BY <1>7 DEF PublishDeadLetters, TypeOK, Bump, With
  <2>4. QED
    BY <1>a, <1>b, <2>1, <2>2, <2>3
<1>8. ASSUME PublishFailures(c) PROVE Good
  <2>1. W2 = W /\ UNCHANGED <<accepted, unheard, savedSent, dead, redelivered>>
    BY <1>8, <1>c DEF PublishFailures, broker, history
  <2>2. \A d \in Consumer \ {c} : result'[d][m] = result[d][m]
    BY <1>8 DEF PublishFailures, TypeOK
  <2>3. \/ r = "dead" /\ r2 = "done" /\ savedFailed'[m] = savedFailed[m] + 1
        \/ r2 = r /\ savedFailed'[m] = savedFailed[m]
    BY <1>8 DEF PublishFailures, TypeOK, Bump, With
  <2>4. QED
    BY <1>a, <1>b, <2>1, <2>2, <2>3
<1>9. Good
  BY <1>1, <1>2, <1>3, <1>3a, <1>4, <1>5, <1>6, <1>7, <1>8 DEF Send, Publish
<1>10. QED
  BY <1>9, GoroutineStep DEF W, W2

\* So does every other step: producers, acknowledgements, faults and restarts.
LEMMA NextAccounts ==
  TypeOK /\ TypeOK' /\ DeliveriesOK /\ Untouched /\ AccountsInv /\ [Next]_vars => AccountsInv'
<1> SUFFICES ASSUME TypeOK, TypeOK', DeliveriesOK, Untouched, AccountsInv, [Next]_vars,
                    NEW m \in Msg
             PROVE  Account(m)'
  BY DEF AccountsInv, SendsPaid, RecordsPaid, FactsFirst, Account
<1>a. Account(m)
  BY AccountsEach
<1>b. \A n \in Msg : EmptyBody[n] = Absent /\ NoResult[n] = "absent"
  BY DEF EmptyBody, NoResult
<1>1. ASSUME NEW q \in InputQueue, NEW S \in SUBSET Msg, Produce(q, S) PROVE Account(m)'
  <2>1. UNCHANGED <<ledger, redelivered, holder, result>>
    BY <1>1 DEF Produce, PutEnvelope, jobs
  <2>2. PICK f \in Tag : f = FreshTag /\ queue[f] = NoQueue
    BY <1>1, FreshTagIsFree DEF Produce, PutEnvelope
  <2>3. body[f] = EmptyBody /\ holder[f] = Nobody
    BY <2>2 DEF DeliveriesOK
  <2>4. body' = [body EXCEPT ![f] = [n \in Msg |-> IF n \in S THEN 0 ELSE Absent]]
    BY <1>1, <2>2 DEF Produce, PutEnvelope
  <2>5. CASE m \in S
    <3>1. origin[m] = NoQueue
      BY <1>1, <2>5 DEF Produce
    <3>2. \A c \in Consumer : result[c][m] = "absent"
      BY <3>1 DEF Untouched
    <3>3. \A t \in Tag : body[t][m] = Absent
      BY <3>1 DEF Untouched
    <3>4. Waiting(m)' = {f}
      BY <2>1, <2>3, <2>4, <2>5, <3>3 DEF Waiting, TypeOK, Absent
    <3>5. Cardinality(Waiting(m)') = 1
      BY <3>4, FS_Singleton
    <3>6. /\ At(m, Unsent)' = {} /\ At(m, Unrecorded)' = {}
          /\ At(m, {"success"})' = {} /\ At(m, {"dead"})' = {}
      BY <2>1, <3>2 DEF At, Unsent, Unrecorded
    <3>7. Cardinality({}) = 0
      BY FS_EmptySet
    <3>8. accepted'[m] = 0 /\ unheard'[m] = 0 /\ savedSent'[m] = 0 /\ savedFailed'[m] = 0
      BY <2>1, <3>1 DEF Untouched, ledger
    <3>9. Open(m, Unsent)' = 1 /\ Open(m, Unrecorded)' = 1
      BY <3>5, <3>6, <3>7 DEF Open, Unsent, Unrecorded
    <3>10. redelivered'[m] \in Nat /\ dead'[m] \in Nat
      BY DEF TypeOK
    <3>11. /\ (accepted[m] + Open(m, Unsent) <= 1 + redelivered[m] + unheard[m])'
           /\ (savedSent[m] + savedFailed[m] + Open(m, Unrecorded) <= 1 + redelivered[m])'
      BY <3>8, <3>9, <3>10
    <3>12. /\ (savedSent[m] + unheard[m] + Cardinality(At(m, {"success"})) <= accepted[m])'
           /\ (savedFailed[m] + Cardinality(At(m, {"dead"})) <= dead[m])'
      <4>1. Cardinality(At(m, {"success"})') = 0 /\ Cardinality(At(m, {"dead"})') = 0
        BY <3>6, <3>7
      <4>2. QED
        BY <3>8, <3>10, <4>1
    <3>13. QED
      BY <3>11, <3>12 DEF Account
  <2>6. CASE m \notin S
    <3>1. Waiting(m)' \subseteq Waiting(m)
      BY <2>1, <2>4, <2>6 DEF Waiting, TypeOK
    <3>2. QED
      BY <1>a, <2>1, <3>1, FewerWaiting, ForgetStep
  <2>7. QED
    BY <2>5, <2>6
<1>2. ASSUME NEW t \in Tag, Remove(t), UNCHANGED <<ledger, redelivered>>,
             \A c \in Consumer : result'[c][m] \in {result[c][m], "absent"}
      PROVE  Account(m)'
  <2>1. Waiting(m)' \subseteq Waiting(m)
    BY <1>2, <1>b DEF Remove, Waiting, TypeOK
  <2>2. QED
    BY <1>2, <1>a, <2>1, FewerWaiting, ForgetStep
<1>3. ASSUME UNCHANGED <<body, holder, redelivered, ledger>>,
             \A c \in Consumer : result'[c][m] \in {result[c][m], "absent"}
      PROVE  Account(m)'
  <2>1. Waiting(m)' \subseteq Waiting(m)
    BY <1>3 DEF Waiting
  <2>2. QED
    BY <1>3, <1>a, <2>1, FewerWaiting, ForgetStep
<1>4. ASSUME NEW S \in SUBSET Delivered, Return(S), UNCHANGED <<body, ledger>>,
             \A c \in Consumer : result'[c][m] \in {result[c][m], "absent"}
      PROVE  Account(m)'
  BY <1>4, <1>a, ReturnedWaiting, ForgetStep
<1>5. ASSUME NEW c \in Consumer, NEW t \in Tag, AckEmpty(c, t) \/ NackUnparsable(c, t)
      PROVE  Account(m)'
  BY <1>2, <1>5 DEF AckEmpty, NackUnparsable, jobs, history
<1>6. ASSUME NEW c \in Consumer, PublishError(c) PROVE Account(m)'
  <2>1. Held(c) \in SUBSET Delivered
    BY ConstantsOK DEF Held, Delivered
  <2>2. \A d \in Consumer : result'[d][m] \in {result[d][m], "absent"}
    BY <1>6, <1>b DEF PublishError, Idle, TypeOK
  <2>3. QED
    BY <1>4, <1>6, <2>1, <2>2 DEF PublishError
<1>7. ASSUME NEW c \in Consumer, Ack(c) PROVE Account(m)'
  <2>1. tag[c] \in Tag
    BY <1>7 DEF Ack, DeliveriesOK
  <2>2. \A d \in Consumer : result'[d][m] \in {result[d][m], "absent"}
    BY <1>7, <1>b DEF Ack, Idle, TypeOK
  <2>3. UNCHANGED <<ledger, redelivered>> /\ (Remove(tag[c]) \/ UNCHANGED <<body, holder>>)
    BY <1>7 DEF Ack, broker, history
  <2>4. QED
    BY <1>2, <1>3, <2>1, <2>2, <2>3
<1>8. CASE ConnectionLost
  <2>1. Return(Delivered) /\ UNCHANGED <<body, ledger, result>>
    BY <1>8 DEF ConnectionLost, jobs
  <2>2. QED
    BY <1>4, <2>1
<1>9. CASE Crash \/ Exit
  <2>1. Return(Delivered) /\ UNCHANGED <<body, ledger>>
    BY <1>9 DEF Crash, Exit, Forget
  <2>2. \A c \in Consumer : result'[c][m] = "absent"
    BY <1>9, <1>b DEF Crash, Exit, Forget
  <2>3. QED
    BY <1>4, <2>1, <2>2
<1>10. CASE Cancel \/ (\E t \in Tag : Expire(t)) \/ UNCHANGED vars
  BY <1>3, <1>10 DEF Cancel, Expire, vars, broker, jobs, history, ledger
<1>11. QED
  BY <1>a, <1>1, <1>5, <1>6, <1>7, <1>8, <1>9, <1>10, GoroutineAccounts
  DEF Next, Receive, ServedInput

\* Nothing is owed in the initial state.
LEMMA InitAccounts == Init => AccountsInv
<1> SUFFICES ASSUME Init, NEW m \in Msg PROVE Account(m)
  BY DEF AccountsInv, SendsPaid, RecordsPaid, FactsFirst, Account
<1>1. \A n \in Msg : EmptyBody[n] = Absent /\ NoResult[n] = "absent"
  BY DEF EmptyBody, NoResult
<1>2. Waiting(m) = {}
  BY <1>1 DEF Init, Waiting
<1>3. /\ At(m, Unsent) = {} /\ At(m, Unrecorded) = {}
      /\ At(m, {"success"}) = {} /\ At(m, {"dead"}) = {}
  BY <1>1 DEF Init, At, Unsent, Unrecorded
<1>4. Cardinality({}) = 0
  BY FS_EmptySet
<1>5. Open(m, Unsent) = 0 /\ Open(m, Unrecorded) = 0
  BY <1>2, <1>3, <1>4 DEF Open
<1>6. QED
  BY <1>3, <1>4, <1>5 DEF Init, Account

\* What has been sent and recorded, with what may still be, is paid for in every
\* reachable state.
THEOREM AccountsInvariant == Safety => []AccountsInv
<1>1. Safety => []DeliveriesOK
  BY CustodyInvariant, PTL DEF CustodyInv
<1>2. QED
  BY <1>1, InitAccounts, NextAccounts, TypeCorrect, UntouchedInvariant, PTL DEF Safety

\* An MNO accepts a message once, once more for each return of an unacked envelope
\* that held it, and once more for each acceptance it could not tell us of: retries
\* as such never send twice.
THEOREM DuplicatesArePaid == Safety => []DuplicatesAreExplained
<1>1. TypeOK /\ AccountsInv => DuplicatesAreExplained
  <2>1. SUFFICES ASSUME TypeOK, AccountsInv, NEW m \in Msg
                 PROVE  accepted[m] <= 1 + redelivered[m] + unheard[m]
    BY DEF DuplicatesAreExplained
  <2>2. /\ Open(m, Unsent) \in Nat /\ accepted[m] \in Nat /\ redelivered[m] \in Nat
        /\ unheard[m] \in Nat
    BY <2>1, CountsFinite DEF Open, TypeOK
  <2>3. QED
    BY <2>1, <2>2 DEF AccountsInv, SendsPaid
<1>2. QED
  BY <1>1, AccountsInvariant, TypeCorrect, PTL

\* The same for SAVE_TO_DB: one record, and one more for each return.
THEOREM RecordsArePaid == Safety => []RecordsAreRedeliveries
<1>1. TypeOK /\ AccountsInv => RecordsAreRedeliveries
  <2>1. SUFFICES ASSUME TypeOK, AccountsInv, NEW m \in Msg
                 PROVE  savedSent[m] + savedFailed[m] <= 1 + redelivered[m]
    BY DEF RecordsAreRedeliveries
  <2>2. /\ Open(m, Unrecorded) \in Nat /\ savedSent[m] \in Nat /\ savedFailed[m] \in Nat
        /\ redelivered[m] \in Nat
    BY <2>1, CountsFinite DEF Open, TypeOK
  <2>3. QED
    BY <2>1, <2>2 DEF AccountsInv, RecordsPaid
<1>2. QED
  BY <1>1, AccountsInvariant, TypeCorrect, PTL

\* A FAILED record has its DLQ entry and a SENT record a heard acceptance, one each
\* (the order of PublishBatchResults), with any number of goroutines at work.
THEOREM RecordsStayBacked == Safety => []RecordsBacked
<1>1. TypeOK /\ AccountsInv => RecordsBacked
  <2>1. SUFFICES ASSUME TypeOK, AccountsInv, NEW m \in Msg
                 PROVE  savedFailed[m] <= dead[m] /\ savedSent[m] + unheard[m] <= accepted[m]
    BY DEF RecordsBacked
  <2>2. /\ Cardinality(At(m, {"success"})) \in Nat /\ Cardinality(At(m, {"dead"})) \in Nat
        /\ savedSent[m] \in Nat /\ savedFailed[m] \in Nat /\ dead[m] \in Nat
        /\ accepted[m] \in Nat /\ unheard[m] \in Nat
    BY <2>1, CountsFinite DEF TypeOK
  <2>3. QED
    BY <2>1, <2>2 DEF AccountsInv, FactsFirst
<1>2. QED
  BY <1>1, AccountsInvariant, TypeCorrect, PTL
=============================================================================
