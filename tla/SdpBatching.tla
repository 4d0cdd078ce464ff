----------------------------- MODULE SdpBatching -----------------------------
(***************************************************************************)
(* The batching workers of a promotional queue (app.go), the SDP batch     *)
(* path of the Processor (processor.go) and the Safaricom SDP sender with  *)
(* its shared token cache (safaricom_sdp.go, token_cache.go).              *)
(*                                                                         *)
(* A worker takes deliveries until it has BatchSize messages, sends those  *)
(* for Safaricom in chunks of one sender name, each chunk in one API call, *)
(* the others one by one, publishes the results and acknowledges all its   *)
(* deliveries.  A chunk the API refuses is sent message by message.        *)
(*                                                                         *)
(* A token is the number of the period in which it was issued; the API     *)
(* takes those of the present period only.  A message is handed over when  *)
(* its result is published, to SAVE_TO_DB, the DLQ or a delay queue.       *)
(***************************************************************************)
EXTENDS Integers, FiniteSets

CONSTANTS
  Delivery, Msg,
  Batch,          \* Batch[d]: the messages of delivery d
  Sender,         \* Sender[m]: the sender name of m
  Regular,        \* messages that are transactional or for another network
  Refused,        \* messages the SDP API does not accept
  Worker,         \* SDP batching workers
  BatchSize,      \* QUEUE_SDP_BATCH_SIZES of the queue
  TokenAttempts,  \* fetchToken calls of one getToken, 10 in the code
  MaxPeriods,     \* bound: token periods
  Loads,          \* bound: what the queue may hold at first, sets of deliveries
  MaxReturns,     \* bound: MaxReturns[d], returns of d to the queue
  MaxFaults       \* bound: Redis and publish errors, lost answers, lost
                  \* connections, crashes and shutdown signals

NoToken == 0

ASSUME SdpConstantsOK ==
  /\ Batch \in [Delivery -> SUBSET Msg]
  /\ \A d, e \in Delivery : d # e => Batch[d] \cap Batch[e] = {}
  /\ DOMAIN Sender = Msg
  /\ Regular \subseteq Msg /\ Refused \subseteq Msg \ Regular
  /\ IsFiniteSet(Worker) /\ {"absent", "ready", "gone"} \cap Worker = {}
  /\ BatchSize \in Nat \ {0, 1} /\ TokenAttempts \in Nat \ {0}
  /\ MaxPeriods \in Nat \ {0}
  /\ Loads \subseteq SUBSET Delivery
  /\ MaxReturns \in [Delivery -> Nat] /\ MaxFaults \in Nat

VARIABLES
  where,      \* where[d]: ready in the queue, unacked at a worker, or gone; absent
              \* if it never gets there
  held,       \* held[w]: deliveryBatch of w
  pc,         \* pc[w]: where in its loop w is
  todo,       \* todo[w]: messages without a result
  chunk,      \* chunk[w]: the messages of the present API call
  single,     \* single[w]: w sends the messages of a refused chunk one by one
  alone,      \* alone[w]: those not yet sent
  token,      \* token[w]: the token w sends with
  tries,      \* tries[w]: failed fetchToken calls
  result,     \* result[w][m]
  cache,      \* the token in Redis
  period,     \* the period whose tokens the API takes
  accepted,   \* history: how often an MNO accepted the message
  handed,     \* history: messages whose result was published
  returned,   \* history: how often its unacked delivery was returned
  abandoned,  \* history: messages a worker gave up on ctx.Done
  ctxDone, faults, cancels

call    == <<chunk, single, alone, token, tries>>
task    == <<held, pc, todo, chunk, single, alone, token, tries, result>>
sdp     == <<cache, period>>
history == <<accepted, handed, returned, abandoned>>
env     == <<ctxDone, faults, cancels>>
vars    == <<where, held, pc, todo, chunk, single, alone, token, tries, result,
             cache, period, accepted, handed, returned, abandoned, ctxDone,
             faults, cancels>>

NoResult == [m \in Msg |-> "none"]

TypeOK ==
  /\ where \in [Delivery -> {"absent", "ready", "gone"} \cup Worker]
  /\ held \in [Worker -> SUBSET Delivery]
  /\ pc \in [Worker -> {"idle", "sending", "token", "fetching", "storing",
                        "calling", "publishing", "stopped"}]
  /\ todo \in [Worker -> SUBSET Msg]
  /\ chunk \in [Worker -> SUBSET (Msg \ Regular)]
  /\ single \in [Worker -> BOOLEAN]
  /\ alone \in [Worker -> SUBSET (Msg \ Regular)]
  /\ token \in [Worker -> NoToken .. MaxPeriods] /\ cache \in NoToken .. MaxPeriods
  /\ period \in 1 .. MaxPeriods
  /\ tries \in [Worker -> 0 .. TokenAttempts - 1]
  /\ result \in [Worker -> [Msg -> {"none", "success", "retryable", "permanent"}]]
  /\ accepted \in [Msg -> Nat] /\ returned \in [Msg -> Nat]
  /\ handed \subseteq Msg /\ abandoned \subseteq Regular
  /\ ctxDone \in BOOLEAN
  /\ faults \in 0 .. MaxFaults /\ cancels \in 0 .. MaxFaults

-----------------------------------------------------------------------------
Unacked == {d \in Delivery : where[d] \in Worker}

Messages(D) == UNION {Batch[d] : d \in D}

Requeue(S) ==
  /\ where' = [d \in Delivery |-> IF d \in S THEN "ready" ELSE where[d]]
  /\ returned' = [m \in Msg |-> returned[m] + Cardinality({d \in S : m \in Batch[d]})]

Goto(w, label) == pc' = [pc EXCEPT ![w] = label]

Bump(counter, S) == [m \in Msg |-> counter[m] + IF m \in S THEN 1 ELSE 0]

Fault == faults + cancels < MaxFaults /\ faults' = faults + 1

\* A send of S fails; if taken, the MNO accepted it and the answer was lost.
TakenUnheard(taken, S) ==
  IF taken THEN Fault /\ accepted' = Bump(accepted, S) ELSE UNCHANGED <<accepted, faults>>

\* The messages of S get result r; w has no token and no call any more.
Resolve(w, S, r) ==
  /\ result' = [result EXCEPT ![w] = [m \in Msg |-> IF m \in S THEN r ELSE @[m]]]
  /\ todo' = [todo EXCEPT ![w] = @ \ S]
  /\ token' = [token EXCEPT ![w] = NoToken]
  /\ tries' = [tries EXCEPT ![w] = 0]

\* Faulty variant: the loop over a refused chunk takes all its messages again
\* after each of them.
NextCallRepeats(w, rest) ==
  IF rest = {}
  THEN /\ chunk' = [chunk EXCEPT ![w] = {}] /\ alone' = [alone EXCEPT ![w] = {}]
       /\ single' = [single EXCEPT ![w] = FALSE]
       /\ Goto(w, "sending")
  ELSE \E m \in rest :
       /\ chunk' = [chunk EXCEPT ![w] = {m}]
       /\ alone' = [alone EXCEPT ![w] = rest]
       /\ single' = [single EXCEPT ![w] = TRUE]
       /\ Goto(w, "token")

\* The next message of a refused chunk is sent alone, in any order, or w goes
\* on to the next chunk.
NextCall(w, rest) ==
  IF rest = {}
  THEN /\ chunk' = [chunk EXCEPT ![w] = {}] /\ alone' = [alone EXCEPT ![w] = {}]
       /\ single' = [single EXCEPT ![w] = FALSE]
       /\ Goto(w, "sending")
  ELSE \E m \in rest :
       /\ chunk' = [chunk EXCEPT ![w] = {m}]
       /\ alone' = [alone EXCEPT ![w] = rest \ {m}]
       /\ single' = [single EXCEPT ![w] = TRUE]
       /\ Goto(w, "token")

\* The call of w ends with result r for all its messages.
EndCall(w, r) == Resolve(w, chunk[w], r) /\ NextCall(w, alone[w])

\* A Redis command fails, as every one does under a cancelled context.
RedisError == (ctxDone /\ UNCHANGED faults) \/ Fault

-----------------------------------------------------------------------------
(* Faulty variants of the actions below. *)

\* accumulateBatch looks at the context again before it returns its batch.
AccumulateOrStop(w, D) ==
  /\ pc[w] = "idle" /\ D # {}
  /\ \A d \in D : where[d] = "ready" /\ \A m \in Batch[d] : returned[m] <= MaxReturns[d]
  /\ \E d \in D : Cardinality(Messages(D \ {d})) < BatchSize
  /\ where' = [d \in Delivery |-> IF d \in D THEN w ELSE where[d]]
  /\ held' = [held EXCEPT ![w] = D]
  /\ todo' = [todo EXCEPT ![w] = Messages(D)]
  /\ Goto(w, IF ctxDone THEN "stopped" ELSE "sending")
  /\ UNCHANGED <<call, result, sdp, history, env>>

\* The loop of getToken starts over.
FetchForEver(w) ==
  /\ pc[w] = "fetching"
  /\ tries' = [tries EXCEPT ![w] = (@ + 1) % TokenAttempts]
  /\ UNCHANGED <<where, held, pc, todo, chunk, single, alone, token, result, sdp, history, env>>

\* A refused chunk fails as a whole.
RejectAll(w) ==
  /\ pc[w] = "calling" /\ token[w] = period /\ ~single[w]
  /\ EndCall(w, "permanent")
  /\ UNCHANGED <<where, held, sdp, history, env>>

\* The publish error is only logged.
PublishErrorIgnored(w) ==
  /\ pc[w] = "publishing" /\ result[w] # NoResult
  /\ Fault
  /\ result' = [result EXCEPT ![w] = NoResult]
  /\ UNCHANGED <<where, held, pc, todo, call, sdp, history, ctxDone, cancels>>

-----------------------------------------------------------------------------
Init ==
  /\ \E load \in Loads :
       where = [d \in Delivery |-> IF d \in load THEN "ready" ELSE "absent"]
  /\ held = [w \in Worker |-> {}]
  /\ pc = [w \in Worker |-> "idle"]
  /\ todo = [w \in Worker |-> {}]
  /\ chunk = [w \in Worker |-> {}] /\ alone = [w \in Worker |-> {}]
  /\ single = [w \in Worker |-> FALSE]
  /\ token = [w \in Worker |-> NoToken] /\ tries = [w \in Worker |-> 0]
  /\ result = [w \in Worker |-> NoResult]
  /\ cache = NoToken /\ period = 1
  /\ accepted = [m \in Msg |-> 0] /\ returned = [m \in Msg |-> 0]
  /\ handed = {} /\ abandoned = {}
  /\ ctxDone = FALSE /\ faults = 0 /\ cancels = 0

\* accumulateBatch blocks for a delivery and adds further ones as long as they
\* are at hand and it has fewer than BatchSize messages.  Without messages the
\* worker returns for good, its deliveries unacked.
Accumulate(w, D) ==
  /\ pc[w] = "idle" /\ D # {}
  /\ \A d \in D : where[d] = "ready" /\ \A m \in Batch[d] : returned[m] <= MaxReturns[d]
  /\ \E d \in D : Cardinality(Messages(D \ {d})) < BatchSize
  /\ where' = [d \in Delivery |-> IF d \in D THEN w ELSE where[d]]
  /\ held' = [held EXCEPT ![w] = D]
  /\ todo' = [todo EXCEPT ![w] = Messages(D)]
  /\ Goto(w, IF Messages(D) = {} THEN "stopped" ELSE "sending")
  /\ UNCHANGED <<call, result, sdp, history, env>>

\* The context is cancelled, or the consumer has closed the channel, which it
\* does on the same context.
StopWorker(w) ==
  /\ ctxDone /\ pc[w] = "idle"
  /\ Goto(w, "stopped")
  /\ UNCHANGED <<where, held, todo, call, result, sdp, history, env>>

\* The next chunk of a group: BatchSize messages, or what is left of them.
IsChunk(w, c) ==
  LET m == CHOOSE x \in c : TRUE
      group == {x \in todo[w] \ Regular : Sender[x] = Sender[m]}
  IN  c # {} /\ c \subseteq group
      /\ Cardinality(c) = IF Cardinality(group) < BatchSize
                          THEN Cardinality(group) ELSE BatchSize

\* The rate limiter grants one token for each message of the chunk and the
\* breaker is not open: SendBatch goes on to getToken.
StartChunk(w, c) ==
  /\ pc[w] = "sending" /\ IsChunk(w, c)
  /\ chunk' = [chunk EXCEPT ![w] = c]
  /\ Goto(w, "token")
  /\ UNCHANGED <<where, held, todo, single, alone, token, tries, result, sdp, history, env>>

\* WaitN fails, or the breaker is open: the whole chunk is retryable.
RefuseChunk(w, c) ==
  /\ pc[w] = "sending" /\ IsChunk(w, c)
  /\ Resolve(w, c, "retryable")
  /\ UNCHANGED <<where, held, pc, chunk, single, alone, sdp, history, env>>

\* getToken: the cached token, whoever stored it.
UseCached(w) ==
  /\ pc[w] = "token" /\ cache # NoToken
  /\ token' = [token EXCEPT ![w] = cache]
  /\ Goto(w, "calling")
  /\ UNCHANGED <<where, held, todo, chunk, single, alone, tries, result, sdp, history, env>>

\* No token in the cache, or Redis does not answer.
CacheMiss(w) ==
  /\ pc[w] = "token"
  /\ (cache = NoToken /\ UNCHANGED faults) \/ RedisError
  /\ Goto(w, "fetching")
  /\ UNCHANGED <<where, held, todo, call, result, sdp, history, ctxDone, cancels>>

FetchToken(w) ==
  /\ pc[w] = "fetching"
  /\ token' = [token EXCEPT ![w] = period]
  /\ Goto(w, "storing")
  /\ UNCHANGED <<where, held, todo, chunk, single, alone, tries, result, sdp, history, env>>

\* The token has been fetched some time ago; other workers may have stored,
\* deleted and used other tokens since.
StoreToken(w) ==
  /\ pc[w] = "storing"
  /\ \/ cache' = token[w] /\ UNCHANGED faults
     \/ RedisError /\ UNCHANGED cache
  /\ Goto(w, "calling")
  /\ UNCHANGED <<where, held, todo, call, result, period, history, ctxDone, cancels>>

\* fetchToken fails and is tried again after a backoff.
FetchAgain(w) ==
  /\ pc[w] = "fetching" /\ tries[w] + 1 < TokenAttempts
  /\ tries' = [tries EXCEPT ![w] = @ + 1]
  /\ UNCHANGED <<where, held, pc, todo, chunk, single, alone, token, result, sdp, history, env>>

\* The last attempt failed, or the context is cancelled during a backoff.
FetchGivesUp(w) ==
  /\ pc[w] = "fetching" /\ (tries[w] + 1 = TokenAttempts \/ ctxDone)
  /\ EndCall(w, "retryable")
  /\ UNCHANGED <<where, held, sdp, history, env>>

\* 2xx: the answer stands for every message of the call.
Accept(w) ==
  /\ pc[w] = "calling" /\ token[w] = period /\ chunk[w] \cap Refused = {}
  /\ accepted' = Bump(accepted, chunk[w])
  /\ EndCall(w, "success")
  /\ UNCHANGED <<where, held, sdp, handed, returned, abandoned, env>>

\* A transport error, or 5xx, 429, 408.  The API may have taken the messages of a
\* call whose answer was lost.
Unavailable(w, taken) ==
  /\ pc[w] = "calling"
  /\ taken => token[w] = period /\ chunk[w] \cap Refused = {}
  /\ TakenUnheard(taken, chunk[w])
  /\ EndCall(w, "retryable")
  /\ UNCHANGED <<where, held, sdp, handed, returned, abandoned, ctxDone, cancels>>

\* 401, or 404: the cached token is deleted, also if it is not the one refused.
TokenExpired(w) ==
  /\ pc[w] = "calling" /\ token[w] # period
  /\ \/ cache' = NoToken /\ UNCHANGED faults
     \/ RedisError /\ UNCHANGED cache
  /\ EndCall(w, "retryable")
  /\ UNCHANGED <<where, held, period, history, ctxDone, cancels>>

\* Another 4xx for a chunk: none of its messages has a result yet, each is sent
\* again alone.
RejectChunk(w) ==
  /\ pc[w] = "calling" /\ token[w] = period /\ ~single[w]
  /\ NextCall(w, chunk[w])
  /\ token' = [token EXCEPT ![w] = NoToken]
  /\ tries' = [tries EXCEPT ![w] = 0]
  /\ UNCHANGED <<where, held, todo, result, sdp, history, env>>

\* Another 4xx for one message.
RejectMessage(w) ==
  /\ pc[w] = "calling" /\ token[w] = period /\ single[w]
  /\ chunk[w] \subseteq Refused
  /\ EndCall(w, "permanent")
  /\ UNCHANGED <<where, held, sdp, history, env>>

\* processRegular, after all chunks; the answer of an MNO may be lost as well.
SendRegular(w, m, r, taken) ==
  /\ taken => r = "retryable"
  /\ pc[w] = "sending" /\ todo[w] \subseteq Regular /\ m \in todo[w]
  /\ IF r = "success" THEN accepted' = Bump(accepted, {m}) /\ UNCHANGED faults
     ELSE TakenUnheard(taken, {m})
  /\ Resolve(w, {m}, r)
  /\ UNCHANGED <<where, held, pc, chunk, single, alone, sdp, handed, returned, abandoned,
                 ctxDone, cancels>>

\* Its workers give up on ctx.Done, before or after the send.
Abandon(w, m, sent) ==
  /\ ctxDone
  /\ pc[w] = "sending" /\ todo[w] \subseteq Regular /\ m \in todo[w]
  /\ accepted' = IF sent THEN Bump(accepted, {m}) ELSE accepted
  /\ abandoned' = abandoned \cup {m}
  /\ Resolve(w, {m}, "none")
  /\ UNCHANGED <<where, held, pc, chunk, single, alone, sdp, handed, returned, env>>

ProcessingDone(w) ==
  /\ pc[w] = "sending" /\ todo[w] = {}
  /\ Goto(w, "publishing")
  /\ UNCHANGED <<where, held, todo, call, result, sdp, history, env>>

\* HandleBatchResults publishes one envelope after the other: successes, what is
\* to be retried, what failed for good.
Publish(w) ==
  LET With(r) == {m \in Msg : result[w][m] = r}
      S == IF With("success") # {} THEN With("success")
           ELSE IF With("retryable") # {} THEN With("retryable") ELSE With("permanent")
  IN  /\ pc[w] = "publishing" /\ result[w] # NoResult
      /\ handed' = handed \cup S
      /\ result' = [result EXCEPT ![w] = [m \in Msg |-> IF m \in S THEN "none" ELSE @[m]]]
      /\ UNCHANGED <<where, held, pc, todo, call, sdp, accepted, returned, abandoned, env>>

\* ProcessMessages returns the publish error: every delivery is requeued.
PublishError(w) ==
  /\ pc[w] = "publishing" /\ result[w] # NoResult
  /\ Fault
  /\ Requeue({d \in held[w] : where[d] = w})
  /\ held' = [held EXCEPT ![w] = {}]
  /\ result' = [result EXCEPT ![w] = NoResult]
  /\ Goto(w, "idle")
  /\ UNCHANGED <<todo, call, sdp, accepted, handed, abandoned, ctxDone, cancels>>

\* Each delivery is acknowledged; without effect if the broker took it back.
Ack(w, d) ==
  /\ pc[w] = "publishing" /\ result[w] = NoResult /\ d \in held[w]
  /\ where' = IF where[d] = w THEN [where EXCEPT ![d] = "gone"] ELSE where
  /\ held' = [held EXCEPT ![w] = @ \ {d}]
  /\ Goto(w, IF held[w] = {d} THEN "idle" ELSE "publishing")
  /\ UNCHANGED <<todo, call, result, sdp, history, env>>

\* The API ends a token period; the TTL of the cached token runs out.
NewPeriod ==
  /\ period < MaxPeriods /\ period' = period + 1
  /\ UNCHANGED <<where, task, cache, history, env>>

TokenTTL ==
  /\ cache # NoToken /\ cache' = NoToken
  /\ UNCHANGED <<where, task, period, history, env>>

ConnectionLost ==
  /\ Unacked # {} /\ Fault
  /\ Requeue(Unacked)
  /\ UNCHANGED <<task, sdp, accepted, handed, abandoned, ctxDone, cancels>>

\* The process ends and is started again; Redis keeps the token.
Restart ==
  /\ Requeue(Unacked)
  /\ held' = [w \in Worker |-> {}]
  /\ pc' = [w \in Worker |-> "idle"]
  /\ todo' = [w \in Worker |-> {}]
  /\ chunk' = [w \in Worker |-> {}] /\ alone' = [w \in Worker |-> {}]
  /\ single' = [w \in Worker |-> FALSE]
  /\ token' = [w \in Worker |-> NoToken] /\ tries' = [w \in Worker |-> 0]
  /\ result' = [w \in Worker |-> NoResult]
  /\ ctxDone' = FALSE
  /\ UNCHANGED <<sdp, accepted, handed, abandoned, cancels>>

Crash == (\E w \in Worker : pc[w] # "idle") /\ Fault /\ Restart

Cancel ==
  /\ ~ctxDone /\ faults + cancels < MaxFaults
  /\ ctxDone' = TRUE /\ cancels' = cancels + 1
  /\ UNCHANGED <<where, task, sdp, history, faults>>

Exit == ctxDone /\ Restart /\ UNCHANGED faults

GetToken(w) == \/ UseCached(w) \/ CacheMiss(w) \/ FetchToken(w) \/ StoreToken(w)
               \/ FetchAgain(w) \/ FetchGivesUp(w)
Respond(w)  == \/ Accept(w) \/ (\E taken \in BOOLEAN : Unavailable(w, taken))
               \/ TokenExpired(w) \/ RejectChunk(w) \/ RejectMessage(w)

Process(w) ==
  \/ \E c \in SUBSET todo[w] : StartChunk(w, c) \/ RefuseChunk(w, c)
  \/ GetToken(w) \/ Respond(w)
  \/ \E m \in Regular :
       \/ \E r \in {"success", "retryable", "permanent"}, taken \in BOOLEAN :
            SendRegular(w, m, r, taken)
       \/ \E sent \in BOOLEAN : Abandon(w, m, sent)
  \/ ProcessingDone(w)
  \/ Publish(w) \/ PublishError(w)
  \/ \E d \in Delivery : Ack(w, d)

Next ==
  \/ \E w \in Worker : \/ \E D \in SUBSET Delivery : Accumulate(w, D)
                       \/ StopWorker(w)
                       \/ Process(w)
  \/ NewPeriod \/ TokenTTL
  \/ ConnectionLost \/ Crash \/ Cancel \/ Exit

\* HTTP and Redis calls end, backoffs end, and a worker that can go on does.
Fairness == \A w \in Worker : WF_vars(Process(w))

Safety == Init /\ [][Next]_vars
Spec   == Safety /\ Fairness

-----------------------------------------------------------------------------
(* Properties *)

\* Chunks, the fallback to single sends and expired tokens never send a message
\* again that SDP has accepted: an acceptance beyond the first is paid for by a
\* return of its delivery (SendBatch, processSdpBatch).
SendsAreRedeliveries == \A m \in Msg : accepted[m] <= 1 + returned[m]

\* All deliveries of a batch are acknowledged on one HandleBatchResults: each of
\* their messages was handed over, except those processRegular gave up during a
\* shutdown (app.go batching worker, ProcessMessages).
AckedIsHandedOver ==
  \A d \in Delivery : where[d] = "gone" =>
    Batch[d] \subseteq handed \cup abandoned

\* "rather than permanently failing every message together": an SDP message
\* fails for good only if the API refuses that message itself, whatever company
\* it was sent in and whichever worker's token was stale (SendBatch, getToken).
OnlyRefusedFail ==
  \A w \in Worker, m \in Msg \ Regular :
    result[w][m] = "permanent" => m \in Refused

\* A worker that has returned keeps no message from the others: what it left
\* unacked is empty deliveries (accumulateBatch).
StoppedKeepNothing ==
  \A w \in Worker : pc[w] = "stopped" => Messages({d \in Delivery : where[d] = w}) = {}

\* A worker comes back for its next batch, whatever the token endpoint, the send
\* endpoint, Redis and the other workers' tokens do (getToken, SendBatch).
BatchesResolved ==
  \A w \in Worker : pc[w] \notin {"idle", "stopped"} ~> pc[w] \in {"idle", "stopped"}
=============================================================================
