# TLA+ verification of the SMS MNO gateway

The gateway consumes batches of SMS messages from RabbitMQ, sends them to mobile
network operators (MNOs) over HTTP, and publishes the results: a record for the
database writer (`SAVE_TO_DB`), a copy in a delay queue for a retry, or a copy in a
dead-letter queue (DLQ).  It acknowledges a delivery only after that.  Almost
everything that makes it correct happens between two steps: between publishing and
acknowledging, between checking a breaker and sending, between reading a credit
channel and waiting on it.  This directory models those steps, checks them with TLC
and proves the central invariants with TLAPS.

Paths below are relative to `src/`; `sms/` stands for `internal/sms/`.

## 1. Inventory

| Part | State it keeps | Operations | Hard behaviour | What makes it correct |
|---|---|---|---|---|
| Standard delivery path: `sms/service/processor.go`, `result_handler.go`, `sms/adapters/rabbitmq/{consumer,publisher}.go` | envelopes in queues, unacked deliveries, results of a batch | consume, parse, send with a worker pool, publish groups, ack/nack | crash, lost connection or publish error between two publishes or before the ack; shutdown while workers run; stale deliveries | no message is lost; duplicates are explained by redeliveries and lost answers; records agree with facts |
| Retry lanes: `publisher.go` 51-102, 227-250, `bootstrap/app.go` 395-442, 585-613 | delay queues with TTL and dead-letter routes, `RetryCount`, `SourceQueue` | delay, expire, consume again | state travels inside the message; its meaning changes on the second trip | bounded retries; the right lane; every message is settled in the end |
| Priority scheduler: `sms/service/priority_scheduler.go` | per queue: weight, credit channel, last processed; the weights map, the multiplier | acquire credit, refill, change weights, resize channels, reconfigure, stop | three locks, a channel replaced while goroutines wait on it | credits conserved; no weight change missed; waiters are served |
| Priority routing: `sms/service/message_router.go`, `transactional_handler.go` | a delivery split into two halves | process transactional half, wait for a credit, process the other, one ack for both | partial failure, shutdown between the halves | the ack covers both halves; transactional messages do not wait for credits |
| AfricasTalking: `sms/service/africas_talking_processor.go`, `sms/adapters/mno/africas_talking.go`, `sms/adapters/httpapi/africas_talking_reporter.go` | balance cooldown, retry attempt of a step | send once, save, report, retry in process, dead-letter | a retry after the SMS is out; verdicts of several messages in one ack | never sent twice without a redelivery; record before report; nobody forgotten |
| Circuit breaker and SMPP senders: `internal/common/circuitbreaker/breaker.go`, `sms/adapters/mno/base.go` | breaker state and counts | `IsHealthy`, `IsOpen`, `Execute` | three checks at three times; results that arrive after a change of state | bounded probes; an open breaker delays messages and does not fail them; it closes again |
| SDP batching: `bootstrap/app.go` 534-568, 839-878, `processor.go` 105-232, `sms/adapters/mno/safaricom_sdp.go`, `sms/adapters/redis/token_cache.go` | accumulated deliveries, chunks, the token in Redis | accumulate, chunk by sender, one call per chunk, fall back to single sends, fetch and drop tokens | the token is shared, fetched and deleted without a lock; a chunk stands for many messages | a message does not suffer for its batch mates or for a stale token; a joint ack covers every delivery; a worker that stops keeps no message |
| DLQ migrators: `bootstrap/app.go` 651-837 | deliveries unacked on a channel of their own | consume a dead-letter queue, choose a destination, publish, ack, restart after an error | publish and ack are frames nobody confirms; a restart meets the reconnect | no dead letter is lost; copies are explained by dead channels; the queue drains |
| RabbitMQ connection: `sms/adapters/rabbitmq/connection.go` | connection, close notification, `closed` | connect, reconnect, close, open channels | the handler sleeps without the lock; a connection may die before anybody watches it | one socket; at most one dial after `Close`; somebody reconnects |
| Rate limiter: `internal/common/ratelimit/limiter.go` | rates per network | wait, set rate, follow the configuration | a reload while a reload is being applied | rates follow Redis |
| Dynamic configuration, priority store: `sms/adapters/redis/{dynamic_config,priority_store}.go` | hashes in Redis, local caches, channels of capacity 1 | seed, get, set, watch | reads and cache writes without a common lock, signals coalesced, snapshots skipped, notifications lost | an announced change is applied |
| Router, factory, SMPP constructors, configuration, HTTP server, logging, metrics, mocks | fixed at start, or none | lookups, I/O | none | not modelled |

Interactions: `App.Start` creates the goroutines.  A consumer goroutine per queue feeds
an unbuffered channel; processors take deliveries from it and call the senders; the
senders share breakers, the balance cooldown and the token cache; the result handler
publishes through one publisher; expired delay-queue messages come back through the
retry consumers.  Two migrators move dead letters back on channels of their own.  Rates and
weights reach the limiter and the scheduler from Redis through watchers.  With priority
routing on, processors call `RouteDelivery`, which calls
the transactional handler and the scheduler.  A signal cancels one context for all;
`App.Shutdown` does not wait for the processors, so the process ends in the middle of
whatever they do, and the supervisor starts it again.

`PROJECT.json` lists every hazard at its line with the properties that would notice it.

## 2. Modules

| Module | Models | State and code |
|---|---|---|
| `DeliveryPipeline` | standard path, retry lanes, shutdown, faults | An envelope is a tag with `queue`, `body` (retry count per message) and `holder`. A goroutine has `stage`, `tag`, `work`, `result`: `Deliver` (drainChannel), `Send` (one message, one worker), `HandleBatchResults` (retry limit), `PublishSuccess`, `PublishRetries`, `PublishDeadLetters`, `PublishFailures` in the order of `PublishBatchResults`, `PublishError` (nack), `Ack`. `Expire` is the TTL of a delay queue. |
| `MessageCustody` | what a producer may rely on | A message is new, accepted or settled; settled is final; accepted messages are settled in the end. |
| `PriorityScheduler` | credits, weights, refill, shutdown | The channels a queue has had are numbered; a waiter keeps the number it read. `s.mu` is held from `UpdateWeights` to `UpdateDone`, `creditsMu` from `RefillQueue` to the last `AddCredit`. |
| `PriorityRouting` | `RouteDelivery`, `ProcessBatch`, one ack for two halves | `pc`, `todo`, `out`, `failed` of a goroutine. The credit is a free choice that may never come. |
| `AfricasTalking` | processor, sender, reporter | `pc` walks rate limit, balance check, call, save, report; `verdict` collects drop and requeue for the joint ack. |
| `CircuitBreaker` | one breaker and its callers | gobreaker is external and modelled as the code uses it; `current` says whether a request belongs to the present generation. |
| `SdpBatching` | batching workers, chunks, fallback, token cache | `Accumulate` is `accumulateBatch` in one step: the drain does not block. A token is the number of the period it was issued in. `GetToken` and `Respond` collect the steps of `getToken` and the HTTP outcomes. |
| `BrokerSession` | connection, reconnect handler, DLQ migrators | Connections are numbered. `handler` walks `handleReconnect` and `connect` (`mu` is held from `Dial` to `Register`); a migrator has `phase`, `on` (the connection of its channel) and `hand` (its delivery). `frames` is what the broker has not handled yet: a dead connection takes it along, without an error at the client. |
| `HotReload` | rate limits and weights, from Redis to limiter and scheduler | A value is the number of the write it comes from. `watcher`/`cache`/`token`/`next` are `Watch`, the cache and the limiter's round; `weightWatcher`/`weightCache`/`watchChan` are `WatchWeights`; `call` is a call of this pod's own `SetInt`, `SetAll`, `SetQueueWeight(s)` or `GetQueueWeights`. |
| `*Proofs`, one for each module above but `MessageCustody` | inductive invariants, lemmas, theorems | section 5 |
| `MC*` | instances for TLC | model values and small batches only |

Abstractions used throughout.  What an MNO answers is a free choice among the result
categories of `domain/result.go` (in `SdpBatching` the API refuses the messages in
`Refused` and stale tokens).  Message text, MSISDNs, logging and metrics are left out.
Time is left out: a TTL, a backoff, a breaker timeout or a starvation age may pass at any
moment.  History variables (`accepted`, `redelivered`, `balance`, ...) only count.  An
operator named as a *faulty variant* is not part of the model: it states what a
plausible mistake in the definition it stands for would be, and shows that the
property named in `PROJECT.json` would notice it.

Faults: a lost connection returns every unacked delivery to its queue while goroutines
go on with theirs and find their ack without effect; a crash loses the goroutines too; a
publish fails with an error the publisher sees.  An answer is lost: the operator has accepted a
message (`answerLost`, `Unavailable` and `SendRegular` with `taken`), or the PHP API has handled
a report (`AnswerLost`), and the client takes the timeout or the unreadable body for a failure.
`unheard` counts these.  `BrokerSession` adds what the client does not
see: frames written to a connection that dies before the broker handles them, and a broker
that notices a dead connection late.  In `HotReload` a Redis command fails, a subscription
cannot be made, or a notification is lost.

## 3. Runs

Passing runs (distinct states in brackets):

- `pipeline_batch` (1.0 M) - batches of up to two messages, a goroutine on each input and
  retry queue, one fault. The transactional message has a retry limit of 1 and the
  promotional one of 2, so that one batch is split between the DLQ and a delay queue and the
  second trip differs from the first. Nothing is lost (`CustodyKept`); each acceptance beyond
  the first is explained by a redelivery or by an earlier acceptance nobody heard of, although
  a batch is partly sent, retried and failed (`DuplicatesAreExplained`); so are records by
  redeliveries (`RecordsAreRedeliveries`); FAILED records have DLQ entries and SENT records an
  acceptance that was heard (`RecordsBacked`); no route exceeds its limit (`RetriesBounded`).
- `pipeline_live` (0.3 M) - two goroutines on one queue, so that a delivery can be in work
  twice after a lost connection, an unparsable message, an empty batch, and one fault or
  shutdown: `CustodyInv`, the inductive invariant, and `ImplementsCustody`, refinement with
  liveness.
- `sched_credits` (0.3 M) - two processors, a weight change (two channels) between three
  weights, one of them negative, a reload to one of two multipliers, a shutdown: credits are
  conserved, the weight in force is the configured one and the channel has the size it asks
  for, replaced channels only drain, and a waiter whose channel stays in use is served
  (`WaitersFreed`). Two weight changes (`MaxUpdates = 2`, three channels; 0.7 M states) pass
  too, in 190 s.
- `at_shared` (0.2 M) - two goroutines share the sender, a delivery with a valid and an
  invalid message and an empty one, a fault and a shutdown. Two faults (0.6 M) pass too.
- `breaker` (0.6 M) - three goroutines, two probes, both trip conditions, an operator that
  fails and recovers at any time: probes are bounded (`ProbesBounded`), a message fails
  without being sent only if the breaker opened between its two checks
  (`OnlyCaughtFailUnsent`), and the breaker closes once the operator is well (`Recovers`).
- `routing` (0.2 M) - two goroutines, a mixed and an empty delivery, two faults, a shutdown.
- `sdp` (0.3 M) - two workers, two token periods, one fault or shutdown, and two loads of the
  queue: two deliveries, an SDP message and a refused one with a regular one, which one worker
  may accumulate and acknowledge together, or an SDP message and an empty delivery, which
  stops a worker for good. The token cache is read, stored late and deleted across the expiry;
  every batch ends. With all three deliveries and two redeliveries (8.1 M states) the
  invariants hold too; the liveness check of that instance takes too long to repeat.
- `broker` (0.1 M) - one migrator with two dead letters, two faults (lost connections, failed
  dials, channels or publishes) and a shutdown at any time.
- `reload` (0.2 M) - two rate fields and the weights, two writes by this pod or another, a
  Redis fault, a shutdown. Two writes are what an overtaken cache write, a signal during a
  round and a skipped snapshot need; with three writes (3.3 M states) the invariants hold too.

Runs that show a disagreement between the code and what is said about it:

- `loss_on_shutdown` - `README.md:60` "Manual queue acknowledgment ensures no message
  loss". On a cancelled context workers return without a result, and the delivery is
  acknowledged all the same. `CustodyKept` holds because it excepts these messages
  (`abandoned`) and the envelopes that fail to parse (`dropped`).
- `retry_lane` - `publisher.go:170` "routed to the delay queue matching their type".
  `parseMessages` overwrites `SourceQueue` with the retry queue, so a promotional message
  moves to the transactional lane on its second failure.
- `sched_stranded` - `docs/usage.md:575`. A batch waiting for a credit during a weight
  change waits on the replaced channel until a shutdown. `WaitersFreed` shows that this is
  the only way to wait for ever.

### Bounds

One fault and one shutdown are enough to separate any two steps: each property relates
one delivery's steps, and after the fault the system is back in a state without history
but for the counters. `broker` has two, so that the dial after a loss can fail or the new
connection die in turn. In the pipeline runs and in `sdp` faults and shutdowns share one
budget (`MaxFaults`). Two goroutines are enough for a stale delivery or a shared resource
to have two users; the breaker has three so that probes can exceed the limit of two. One
weight change gives a replaced channel, on which a batch may wait while refills go to the new
one; the reload before, between or after it gives every order of the two. In `sdp` only the
first delivery is handed out again (`FirstOnly`), as a redelivery of the second repeats the
same with other names. `MaxEnvelopes` is large enough that no publish is ever blocked by it in
these runs; the other bounds cap inputs (faults, signals, updates, returns, and in the breaker
new messages while `MaxCounted` requests are counted), never steps of the code. Where deadlock
is not checked the system may really stop: the bounded inputs are used up, and idle goroutines
wait. In `breaker` the operator can always change, so that the deadlock check says nothing
there; `Recovers` is the property about getting stuck.

### Fairness

Weak fairness of the steps a goroutine can take by itself: HTTP calls end because the
client has a timeout, Redis and AMQP calls return, backoffs and TTLs pass, a cancelled
process exits. `TakeCredit` is strongly fair: receivers of a Go channel are served in the
order in which they started to wait. No fairness for faults, signals, producers, weight
changes, the operator's recovery, or the credit in `PriorityRouting`; none for the publish of
another pod that has written a hash. The reconnect handler and the migrators are fair, as
their sleeps end, and so is the broker: it handles what arrives and gives up dead
connections (heartbeats). The scheduler's
fairness includes the ticker of the refill loop; the breaker's includes its timeout.

## 4. Properties by question

- *Is anything lost?* `CustodyKept`, `CustodyInv`, `ImplementsCustody`, `AckedIsHandedOver`
  (routing, SDP), `NobodyForgotten` (AfricasTalking), `LettersKept` (migrators).
- *Is anything done twice without a reason?* `DuplicatesAreExplained`,
  `RecordsAreRedeliveries`, `SendsAreRedeliveries` (three modules), `CopiesArePaid`.
- *Do records tell the truth?* `RecordsBacked`, `RecordBeforeReport`.
- *Does everything end?* `ImplementsCustody`, `RetriesBounded`, `DeliveriesResolved`,
  `BatchesResolved`, `WaitersFreed`, `FastPathFree`, `Recovers`, `LettersMoved`,
  `ChangesApplied`.
- *Is shared state sound?* `CreditsConserved`, `CapacityInForce`,
  `WeightInForce`, `OldChannelsOnlyDrain`, `CooldownHolds`, `ProbesBounded`,
  `StoppedKeepNothing`, `OneConnection`, `RatesFollow`, `WeightsFollow`.
- *Does a message fail only for a reason of its own?* `OnlyCaughtFailUnsent` (breaker),
  `OnlyRefusedFail` (SDP).

Every module has a `TypeOK`; the runs check it where it relates variables or is proved.

## 5. Proofs

Every invariant and every action property of the passing runs is a theorem about `Safety`
(the specification without fairness), for all values of the constants that the
module's `ASSUME` admits. Besides types of constants the assumptions are these: the sets of
goroutines are finite (`Consumer`, `Worker`: `App.Start` creates a fixed number), a message
is in one delivery (routing, AfricasTalking, SDP), a dead-letter queue holds finitely many letters, limits and
bounds are natural numbers, and those are positive that the code defaults or validates:
multipliers and the default weight (`loadConfig`, `watchSchedulerConfig`), the breaker's
thresholds, the report retries of AfricasTalking, and an SDP batch size of at least two, as a
smaller one turns batching off. TLC checks each inductive invariant on the instance of the module's run;
the proofs then have a step per action.

Most properties are not inductive, and for one of three reasons.

*They speak of what has happened and not of what may still happen.* The bounds on duplicates
count sends, records, calls and copies. The invariants add what is still possible: the
account of a message covers what was done **and** the goroutines and envelopes that
may still do it, so that a step which does it only moves an entry.

- `DeliveryPipelineProofs`: `AccountsInv` (`SendsPaid`, `RecordsPaid`, `FactsFirst`) gives
  `DuplicatesArePaid`, `RecordsArePaid`, `RecordsStayBacked`. A ready envelope and a goroutine
  with an unfinished result are entries; taking a delivery turns the first into
  the second, publishing a retry the second into the first, and a return adds an entry and
  the redelivery that pays for it. A lost answer adds an acceptance without closing the entry,
  and `unheard` pays for it.
- `PriorityRoutingProofs`, `AfricasTalkingProofs`, `SdpBatchingProofs`: `SendsPaid`. Every send
  made or possible belongs to a different hand-out of its delivery. This is what covers a
  goroutine that goes on with a delivery the broker has already given to another.
  `TellsPaid` is the same account for AfricasTalking's records and reports (`RecordsComeFirst`):
  a report is warranted by a record or by an earlier report whose answer was lost (`Warrant`),
  and one is lost only after a record (`LostAfterRecord`).
- `CircuitBreakerProofs`: `CountsCovered`. gobreaker's `requests` covers the requests in flight and
  the outcomes counted, so a half-open breaker that admits a request has room for it
  (`ProbesStayBounded`). `CaughtOK`: a worker past `IsHealthy` whose breaker is open was caught
  (`OnlyCaughtMessagesFail`).
- `BrokerSessionProofs`: `CopiesInv`. A copy is *owed* while the letter is queued, in hand or in a
  frame that publishes or requeues it. That one letter is not owed two copies at once needs
  the order of frames: two frames about one letter on one channel are its publish and its ack
  (`FramesOrdered`), and frames and hands are about letters unacked on that channel
  (`FramesPlaced`, `HandsPlaced`).

*They hold at the end because of something established earlier.*

- `CustodyInv` (`CustodyInvariant`, `CustodyIsKept`): "in some envelope" is no comfort if that
  envelope is about to be acknowledged by a goroutine that has already published the message
  elsewhere. The invariant asks for an envelope that still *stands for* the message
  (`StandsFor`) and for the bookkeeping between broker and goroutines that an ack relies on
  (`DeliveriesOK`). Publishing moves the standing envelope to the new one, an ack removes one
  that stands for nothing, a nack, lost connection or crash makes the held one stand again.
- `RetriesStayBounded` needs `RetriesLeft`: `HandleBatchResults` has compared the count of
  whatever `PublishRetries` is about to publish.
- `HalvesKept`, `Kept`, `HeldKept` (routing, AfricasTalking, SDP): each message of a delivery in
  work is still to come, has an unpublished result, or was heard of: `AckedAreHandedOver`,
  `NobodyIsForgotten`. `RefusedFail` and `StageOK` give `OnlyRefusedAreFailed` and
  `StoppedWorkersKeepNothing`.
- `SessionInv`: the ack that removes a letter is written long before the broker handles it, so
  every ack has its letter's publish further ahead, or the letter has arrived
  (`FramesBacked`, `HandsBacked`): `DeadLettersKept`. `DialsPaid` bounds the connections, so types
  are part of it. `SingleConn` says which connection may be open while the handler works and
  which dials are left after `Close`: `ConnectionsDoNotLeak`.
- `ReloadInv`: where the latest value is while it travels. Unless news is on its way or was
  never announced, the watcher holds it or it is in the cache and the limiter has it or has still to
  fetch it (`RatesKnown`); for the weights, in the channel or in force, or skipped
  (`WeightsKnown`).

*They hold between critical sections.* `SchedulerInv` says what the two locks of the scheduler
mean (`LocksOK`) and which queues an update has reached (`WeightsVisited`): `SchedulerTypes`,
`WeightsStayInForce`, and the action property `ReplacedChannelsOnlyDrain`.
`CapacityStaysInForce` adds `CapacitiesVisited`; it has no hypothesis on reloads, as the property
speaks of the multiplier a channel was made with (`madeWith`).

`CreditsStayConserved` is about a sum over a queue's channels. What the library's fold
computes is proved from its definition: by an argument from a least counterexample
(`Least`, on the sizes of sets) its recursion has a solution (`TotalsExist`), changing one value
changes the sum by the difference (`SumUpdate`), and the sum of zeros is zero (`SumZero`). The
invariant `AccountsInv` adds that a channel is empty until its queue opens it.

*Refinement.* `SafetyImplementsCustody`: `Safety => Custody!Safety`, where `Custody` is
`MessageCustody` with the status computed from the pipeline's state. Initial states map to
initial states, and each step changes no message's status or takes one or more forward, never
back. That a message not yet taken in has left no trace (`Untouched`) excludes the step from
new to settled.

Model-checked only: what needs fairness, which is out of the prover's reach.
`ImplementsCustody` (its liveness half), `WaitersFreed`, `DeliveriesResolved`, `Recovers`,
`FastPathFree`, `BatchesResolved`, `LettersMoved`, `ChangesApplied`.

## 6. Disagreements and limits met while modelling

Besides the three violation runs. Each is visible in a module as an exception or an action; the
properties hold of the code as it is and except what is listed here:

- A body that fails to parse is rejected without requeue with all its messages
  (`consumer.go:158`; `docs/architecture.md:1070` says "Parse error | Nack with requeue"):
  `NackUnparsable`, `dropped`.
- `NewRetryableResult` increments `RetryCount` before `HandleBatchResults` compares it, so a
  message is retried one time less than the limit says (`result_handler.go:129`;
  `docs/usage.md:622` "retryCount < 10?", `docs/usage.md:649` "10 retries exhausted";
  `docs/architecture.md:1051` compares before it increments): `Exhausted`. `RetriesBounded`
  states the documented limit, which the code keeps and does not use up.
- `docs/usage.md:607` gives the capacity as weight x creditMultiplier. A reload of the
  multiplier does not resize the channels there are (`priority_scheduler.go:350`), so the
  formula is wrong for a queue until its weight changes next: `CapacityInForce` is stated with
  the multiplier the channel was made with.
- A message whose acceptance nobody heard of is sent again, and if its retries are used up it
  is recorded as FAILED although the subscriber has it (`base.go:140`, `safaricom_sdp.go:413`):
  `unheard`, in the bounds of `DuplicatesAreExplained` and `RecordsBacked`.
- The breakers are registered without `MinRequests` and `FailureRatio`, so the first failure
  trips them (`breaker.go:78`; `docs/architecture.md:1091` says five): `ReadyToTrip`.
- A breaker that opens between `IsHealthy` and `Send` makes a message fail permanently that
  was never sent (`base.go:89`; `docs/usage.md:639` lists it as retryable): `CheckOpen`.
  `OnlyCaughtFailUnsent` says that this window is the only way.
- If the DLQ publish fails too, an AfricasTalking message is dropped (`africas_talking_processor.go:263`):
  `unburied`.
- `ProcessBatch` only logs a publish error of the transactional half, and the delivery is
  acknowledged (`transactional_handler.go:329`; `docs/architecture.md:1077` says nack):
  `swallowed`.
- An empty delivery makes an SDP batching worker return for good with the delivery unacked
  (`app.go:547`; `docs/architecture.md:1069` says "Ack immediately"): `Accumulate`, `StopWorker`.
  `StoppedKeepNothing` says that no message stays with it.
- The DLQ migrator sends a whole batch back to the main queue if one of its messages ran out
  of retries, so permanent failures in the same batch are sent again (`app.go:725`;
  `config.go:86` and `README.md:384`): the destination is not told apart in `BrokerSession`.
- What the migrator sends back and fails again comes back to the DLQ: the cycle has no bound.
- A connection that dies between `Dial` and `NotifyClose` leaves no reconnect handler
  (`connection.go:73`; `connection.go:13` "automatic reconnection"): `Orphaned`, the exception of
  `LettersMoved`. The migrators then restart every five seconds for ever.
- `WatchWeights` skips the newest snapshot, not the oldest, when its channel is full
  (`priority_store.go:232`; `ports/priority_store.go:24`): `skipped`, the exception of
  `WeightsFollow`. The refill period is passed on in the same way (`priority_scheduler.go:363`).
- The limiter starts with the environment's rates and looks at Redis only after the first
  notification (`limiter.go:268`); weights changed between `loadWeights` and the subscription
  are missed: `ratesDue`, `weightsDue`.
- The retry limits in Redis are read from a cache that nothing refreshes after start: no one
  watches their namespace (`result_handler.go:48`, `ports/dynamic_config.go:6`).
- `GetQueueWeights` may fill the cache with weights older than those a watcher has put there,
  and they stay until the next change: `GetQueueWeights`, `Fill`.
- The publisher and the consumers use different channels, so a publish lost with the
  connection may be followed by an ack that is not (`publisher.go:131`). The migrators use one
  channel, whose frames keep their order; `LettersKept` rests on that.

## 7. Plan

1. Proofs: action properties that the invariants suggest and no run states yet (a
   recorded message is never unsettled, a cooldown never shortened, `lateDials` and `copies` never
   fall), and lemmas shared by the accounts of the three delivery modules.
2. Statements of section 6 as properties of their own: documented thresholds, requeues,
   destinations.

## 8. Not modelled

Router, factory and operator constructors: pure lookups, fixed at start; a failed lookup is
an outcome of a send. Configuration: read once, its values are constants here. Token buckets:
`golang.org/x/time/rate` works with time, which is left out. The transactional handler's own
queue (`Handle`, `HandleSync`, its workers): nothing in the program submits to it. HTTP server,
logging, metrics, mocks: I/O and test doubles without influence on control.
