---------------------------- MODULE AfricasTalking ----------------------------
(***************************************************************************)
(* International SMS: the AfricasTalking consumer, its processor and its   *)
(* sender (africas_talking_processor.go, mno/africas_talking.go,           *)
(* httpapi/africas_talking_reporter.go).                                   *)
(*                                                                         *)
(* A message is sent once per delivery; what follows the send, the record  *)
(* in SAVE_TO_DB and the report to the PHP API, is retried in process so   *)
(* that a retry never sends again.  A delivery is acknowledged, dropped or *)
(* returned to the queue when all its messages have been through.          *)
(*                                                                         *)
(* Several goroutines share the sender, whose balance cooldown one of them *)
(* may trip while others are between their check of it and their call.     *)
(* The circuit breaker is abstracted to a choice: a send may be refused.   *)
(***************************************************************************)
EXTENDS Integers, FiniteSets

CONSTANTS
  Delivery,          \* AMQP messages of AFRICAS_TALKING_SMS_QUEUE
  Msg,               \* SMS messages
  Batch,             \* Batch[d]: the messages of delivery d
  Invalid,           \* messages that fail Validate or have no outboxId
  Consumer,          \* delivery-processing goroutines
  NoDelivery, NoMsg,
  MaxReportRetries,  \* AFRICAS_TALKING report retries
  MaxReturns,        \* bound: returns of a message to the queue
  MaxFaults,         \* bound: lost connections, lost answers and crashes
  MaxCancels         \* bound: shutdown signals

ASSUME ATConstantsOK ==
  /\ Batch \in [Delivery -> SUBSET Msg]
  /\ \A d, e \in Delivery : d # e => Batch[d] \cap Batch[e] = {}
  /\ Invalid \subseteq Msg
  /\ IsFiniteSet(Consumer)
  /\ NoDelivery \notin Delivery /\ NoMsg \notin Msg
  /\ {"ready", "gone"} \cap Consumer = {}
  /\ MaxReportRetries \in Nat \ {0}      \* NewAfricasTalkingProcessor's default
  /\ MaxReturns \in Nat /\ MaxFaults \in Nat /\ MaxCancels \in Nat

VARIABLES
  where,     \* where[d]: ready in the queue, unacked at a goroutine, or gone
  job,       \* job[c]: the delivery goroutine c processes
  left,      \* left[c]: the messages of it that c has not taken up
  pc,        \* pc[c]: where in processMessage c is
  cur,       \* cur[c]: the message c is at
  res,       \* res[c]: the result of its send
  attempt,   \* attempt[c]: retryInProcess' attempt
  verdict,   \* verdict[c]: the nacks ProcessDelivery has collected
  cooling,   \* the balance cooldown is active
  ctxDone,
  sends,     \* history: calls of the AfricasTalking API per message
  returned,  \* history: returns of an unacked delivery per message
  saved,     \* SAVE_TO_DB records per message
  reported,  \* reports the PHP API handled, per message
  told,      \* of these, reports of a successful or permanently failed send
  unheard,   \* history: of the latter, those whose answer was lost
  dead,      \* DLQ entries per message
  unburied,  \* history: messages whose DLQ publish failed
  past,      \* history: goroutines past the check when the cooldown was tripped
  faults, cancels

task    == <<job, left, pc, cur, res, attempt, verdict>>
ledger  == <<sends, returned, saved, reported, told, unheard, dead, unburied>>
sender  == <<cooling, past>>
env     == <<ctxDone, faults, cancels>>
vars    == <<where, job, left, pc, cur, res, attempt, verdict, cooling, ctxDone,
             sends, returned, saved, reported, told, unheard, dead, unburied, past,
             faults, cancels>>

Result == {"success", "permanent", "retryable"}

TypeOK ==
  /\ where \in [Delivery -> {"ready", "gone"} \cup Consumer]
  /\ job \in [Consumer -> Delivery \cup {NoDelivery}]
  /\ left \in [Consumer -> SUBSET Msg]
  /\ pc \in [Consumer -> {"idle", "next", "check", "call", "inflight", "save",
                          "saveWait", "report", "reportWait", "final"}]
  /\ cur \in [Consumer -> Msg \cup {NoMsg}]
  /\ res \in [Consumer -> Result \cup {"none"}]
  /\ attempt \in [Consumer -> 0 .. MaxReportRetries + 1]
  /\ verdict \in [Consumer -> SUBSET {"requeue", "drop"}]
  /\ cooling \in BOOLEAN /\ ctxDone \in BOOLEAN
  /\ sends \in [Msg -> Nat] /\ returned \in [Msg -> Nat]
  /\ saved \in [Msg -> Nat] /\ reported \in [Msg -> Nat] /\ told \in [Msg -> Nat]
  /\ unheard \in [Msg -> Nat] /\ dead \in [Msg -> Nat]
  /\ unburied \subseteq Msg
  /\ past \subseteq Consumer
  /\ faults \in 0 .. MaxFaults /\ cancels \in 0 .. MaxCancels

-----------------------------------------------------------------------------
Unacked == {d \in Delivery : where[d] \in Consumer}

\* Unacked deliveries go back to the queue.
Requeue(S) ==
  /\ where' = [d \in Delivery |-> IF d \in S THEN "ready" ELSE where[d]]
  /\ returned' = [m \in Msg |-> returned[m] + Cardinality({d \in S : m \in Batch[d]})]

\* One more downstream step with a fresh count of attempts.
Goto(c, label) ==
  /\ pc' = [pc EXCEPT ![c] = label]
  /\ attempt' = [attempt EXCEPT ![c] = 1]

\* Faulty variant of AfterSend: the API is told before our own record is stored.
AfterSendReportsFirst(c, r) ==
  /\ res' = [res EXCEPT ![c] = r]
  /\ Goto(c, "report")

\* Send returned r: results that are not retryable are recorded first.
AfterSend(c, r) ==
  /\ res' = [res EXCEPT ![c] = r]
  /\ Goto(c, IF r = "retryable" THEN "report" ELSE "save")

\* processMessage returned outcome v.
NextMessage(c, v) ==
  /\ pc' = [pc EXCEPT ![c] = "next"]
  /\ cur' = [cur EXCEPT ![c] = NoMsg]
  /\ res' = [res EXCEPT ![c] = "none"]
  /\ attempt' = [attempt EXCEPT ![c] = 0]
  /\ verdict' = [verdict EXCEPT ![c] = @ \cup v]

-----------------------------------------------------------------------------
(* Faulty variants of the actions below. *)

\* A failed report starts the message over, from the send.
ResumeFromSend(c) ==
  /\ pc[c] \in {"saveWait", "reportWait"}
  /\ pc' = [pc EXCEPT ![c] = "check"]
  /\ attempt' = [attempt EXCEPT ![c] = @ + 1]
  /\ UNCHANGED <<where, job, left, cur, res, verdict, ledger, sender, env>>

\* A drop verdict wins over a requeue verdict.
CloseDropFirst(c) ==
  LET d == job[c]
  IN  /\ pc[c] = "next" /\ left[c] = {}
      /\ IF where[d] = c
         THEN IF "requeue" \in verdict[c] /\ "drop" \notin verdict[c]
              THEN Requeue({d})
              ELSE where' = [where EXCEPT ![d] = "gone"] /\ UNCHANGED returned
         ELSE UNCHANGED <<where, returned>>
      /\ job' = [job EXCEPT ![c] = NoDelivery]
      /\ pc' = [pc EXCEPT ![c] = "idle"]
      /\ verdict' = [verdict EXCEPT ![c] = {}]
      /\ UNCHANGED <<left, cur, res, attempt, sends, saved, reported, told, unheard,
                     dead, unburied, sender, env>>

\* The cooldown is not consulted.
CheckBalanceSkipped(c) ==
  /\ pc[c] = "check"
  /\ Goto(c, "call")
  /\ UNCHANGED <<where, job, left, cur, res, verdict, ledger, sender, env>>

\* Attempts are never counted up.
ResumeForever(c) ==
  /\ pc[c] \in {"saveWait", "reportWait"}
  /\ pc' = [pc EXCEPT ![c] = IF @ = "saveWait" THEN "save" ELSE "report"]
  /\ UNCHANGED <<where, job, left, cur, res, attempt, verdict, ledger, sender, env>>

-----------------------------------------------------------------------------
Init ==
  /\ where = [d \in Delivery |-> "ready"]
  /\ job = [c \in Consumer |-> NoDelivery]
  /\ left = [c \in Consumer |-> {}]
  /\ pc = [c \in Consumer |-> "idle"]
  /\ cur = [c \in Consumer |-> NoMsg]
  /\ res = [c \in Consumer |-> "none"]
  /\ attempt = [c \in Consumer |-> 0]
  /\ verdict = [c \in Consumer |-> {}]
  /\ cooling = FALSE /\ ctxDone = FALSE
  /\ sends = [m \in Msg |-> 0] /\ returned = [m \in Msg |-> 0]
  /\ saved = [m \in Msg |-> 0] /\ reported = [m \in Msg |-> 0]
  /\ told = [m \in Msg |-> 0] /\ unheard = [m \in Msg |-> 0] /\ dead = [m \in Msg |-> 0]
  /\ unburied = {} /\ past = {}
  /\ faults = 0 /\ cancels = 0

Deliver(c, d) ==
  /\ pc[c] = "idle" /\ where[d] = "ready" /\ Batch[d] # {}
  /\ \A m \in Batch[d] : returned[m] <= MaxReturns
  /\ where' = [where EXCEPT ![d] = c]
  /\ job' = [job EXCEPT ![c] = d]
  /\ left' = [left EXCEPT ![c] = Batch[d]]
  /\ pc' = [pc EXCEPT ![c] = "next"]
  /\ UNCHANGED <<cur, res, attempt, verdict, ledger, sender, env>>

\* ProcessDelivery acknowledges an empty delivery at once.
AckEmpty(c, d) ==
  /\ pc[c] = "idle" /\ where[d] = "ready" /\ Batch[d] = {}
  /\ where' = [where EXCEPT ![d] = "gone"]
  /\ UNCHANGED <<task, ledger, sender, env>>

\* An invalid message is dropped before anything is sent.
DropInvalid(c, m) ==
  /\ pc[c] = "next" /\ m \in left[c] \cap Invalid
  /\ left' = [left EXCEPT ![c] = @ \ {m}]
  /\ verdict' = [verdict EXCEPT ![c] = @ \cup {"drop"}]
  /\ UNCHANGED <<where, job, pc, cur, res, attempt, ledger, sender, env>>

\* The rate limiter's Wait fails when the context is cancelled.
RateLimited(c, m) ==
  /\ ctxDone
  /\ pc[c] = "next" /\ m \in left[c] \ Invalid
  /\ left' = [left EXCEPT ![c] = @ \ {m}]
  /\ verdict' = [verdict EXCEPT ![c] = @ \cup {"requeue"}]
  /\ UNCHANGED <<where, job, pc, cur, res, attempt, ledger, sender, env>>

StartSend(c, m) ==
  /\ pc[c] = "next" /\ m \in left[c] \ Invalid
  /\ left' = [left EXCEPT ![c] = @ \ {m}]
  /\ cur' = [cur EXCEPT ![c] = m]
  /\ pc' = [pc EXCEPT ![c] = "check"]
  /\ UNCHANGED <<where, job, res, attempt, verdict, ledger, sender, env>>

\* balanceCooldownRemaining: during the cooldown the message fails for good.
CheckBalance(c) ==
  /\ pc[c] = "check"
  /\ IF cooling THEN AfterSend(c, "permanent") ELSE Goto(c, "call") /\ UNCHANGED res
  /\ UNCHANGED <<where, job, left, cur, verdict, ledger, sender, env>>

\* The circuit breaker refuses the call: IsOpen makes it a permanent failure,
\* Execute a retryable one.
CircuitRefuses(c, r) ==
  /\ pc[c] = "call"
  /\ AfterSend(c, r)
  /\ past' = past \ {c}
  /\ UNCHANGED <<where, job, left, cur, verdict, ledger, cooling, env>>

\* executeSend begins its HTTP call.
Call(c) ==
  /\ pc[c] = "call"
  /\ pc' = [pc EXCEPT ![c] = "inflight"]
  /\ sends' = [sends EXCEPT ![cur[c]] = @ + 1]
  /\ past' = past \ {c}
  /\ UNCHANGED <<where, job, left, cur, res, attempt, verdict, returned, saved,
                 reported, told, unheard, dead, unburied, cooling, env>>

\* The answer, classified: InsufficientBalance trips the cooldown.
Respond(c, r, balance) ==
  /\ pc[c] = "inflight" /\ (balance => r = "permanent")
  /\ AfterSend(c, r)
  /\ cooling' = (cooling \/ balance)
  /\ past' = IF balance /\ ~cooling THEN {o \in Consumer : pc[o] = "call"} ELSE past
  /\ UNCHANGED <<where, job, left, cur, verdict, ledger, env>>

CooldownOver ==
  /\ cooling /\ cooling' = FALSE /\ past' = {}
  /\ UNCHANGED <<where, task, ledger, env>>

Save(c) ==
  /\ pc[c] = "save"
  /\ saved' = [saved EXCEPT ![cur[c]] = @ + 1]
  /\ Goto(c, "report")
  /\ UNCHANGED <<where, job, left, cur, res, verdict, sends, returned, reported,
                 told, unheard, dead, unburied, sender, env>>

\* The PHP API handled c's report; a retryable outcome is not a final one.
Tell(c) ==
  /\ reported' = [reported EXCEPT ![cur[c]] = @ + 1]
  /\ told' = IF res[c] = "retryable" THEN told ELSE [told EXCEPT ![cur[c]] = @ + 1]

Report(c) ==
  /\ pc[c] = "report"
  /\ Tell(c)
  /\ NextMessage(c, {})
  /\ UNCHANGED <<where, job, left, sends, returned, saved, unheard, dead, unburied,
                 sender, env>>

Exhausted(c) == attempt[c] > MaxReportRetries

\* retryInProcess: the step returned an error; back off or give up.
BackOff(c) ==
  pc' = [pc EXCEPT ![c] = IF Exhausted(c) THEN "final"
                          ELSE IF @ = "save" THEN "saveWait" ELSE "reportWait"]

\* The record was not published, or the API did not handle the report.
StepFails(c) ==
  /\ pc[c] \in {"save", "report"}
  /\ BackOff(c)
  /\ UNCHANGED <<where, job, left, cur, res, attempt, verdict, ledger, sender, env>>

\* The API handled the report, but its answer was lost or was an error: Report
\* fails, and the report will be made again.
AnswerLost(c) ==
  /\ pc[c] = "report" /\ faults < MaxFaults
  /\ Tell(c)
  /\ unheard' = IF res[c] = "retryable" THEN unheard
                ELSE [unheard EXCEPT ![cur[c]] = @ + 1]
  /\ BackOff(c)
  /\ faults' = faults + 1
  /\ UNCHANGED <<where, job, left, cur, res, attempt, verdict, sends, returned, saved,
                 dead, unburied, sender, ctxDone, cancels>>

\* The backoff is over and the step is tried again.
Resume(c) ==
  /\ pc[c] \in {"saveWait", "reportWait"}
  /\ pc' = [pc EXCEPT ![c] = IF @ = "saveWait" THEN "save" ELSE "report"]
  /\ attempt' = [attempt EXCEPT ![c] = @ + 1]
  /\ UNCHANGED <<where, job, left, cur, res, verdict, ledger, sender, env>>

\* The context is cancelled during the backoff.
CancelBackoff(c) ==
  /\ ctxDone /\ pc[c] \in {"saveWait", "reportWait"}
  /\ pc' = [pc EXCEPT ![c] = "final"]
  /\ UNCHANGED <<where, job, left, cur, res, attempt, verdict, ledger, sender, env>>

\* finalizeExhausted: requeue on shutdown; else one attempt to dead-letter, whose
\* failure is only logged, and drop.
FinalizeExhausted(c, published) ==
  /\ pc[c] = "final"
  /\ NextMessage(c, IF ctxDone THEN {"requeue"} ELSE {"drop"})
  /\ dead' = IF ~ctxDone /\ published THEN [dead EXCEPT ![cur[c]] = @ + 1] ELSE dead
  /\ unburied' = IF ctxDone \/ published THEN unburied ELSE unburied \cup {cur[c]}
  /\ UNCHANGED <<where, job, left, sends, returned, saved, reported, told,
                 unheard, sender, env>>

\* The end of ProcessDelivery.  If the broker has taken the delivery back, the
\* ack or nack changes nothing.
Close(c) ==
  LET d == job[c]
  IN  /\ pc[c] = "next" /\ left[c] = {}
      /\ IF where[d] = c
         THEN IF "requeue" \in verdict[c]
              THEN Requeue({d})
              ELSE where' = [where EXCEPT ![d] = "gone"] /\ UNCHANGED returned
         ELSE UNCHANGED <<where, returned>>
      /\ job' = [job EXCEPT ![c] = NoDelivery]
      /\ pc' = [pc EXCEPT ![c] = "idle"]
      /\ verdict' = [verdict EXCEPT ![c] = {}]
      /\ UNCHANGED <<left, cur, res, attempt, sends, saved, reported, told, unheard,
                     dead, unburied, sender, env>>

ConnectionLost ==
  /\ faults < MaxFaults /\ Unacked # {}
  /\ Requeue(Unacked)
  /\ faults' = faults + 1
  /\ UNCHANGED <<task, sends, saved, reported, told, unheard, dead, unburied, sender,
                 ctxDone, cancels>>

\* The process ends and is started again; the cooldown is in its memory.
Restart ==
  /\ Requeue(Unacked)
  /\ job' = [c \in Consumer |-> NoDelivery]
  /\ left' = [c \in Consumer |-> {}]
  /\ pc' = [c \in Consumer |-> "idle"]
  /\ cur' = [c \in Consumer |-> NoMsg]
  /\ res' = [c \in Consumer |-> "none"]
  /\ attempt' = [c \in Consumer |-> 0]
  /\ verdict' = [c \in Consumer |-> {}]
  /\ cooling' = FALSE /\ past' = {} /\ ctxDone' = FALSE
  /\ UNCHANGED <<sends, saved, reported, told, unheard, dead, unburied, cancels>>

Crash ==
  /\ faults < MaxFaults /\ \E c \in Consumer : pc[c] # "idle"
  /\ faults' = faults + 1
  /\ Restart

Cancel ==
  /\ ~ctxDone /\ cancels < MaxCancels
  /\ ctxDone' = TRUE /\ cancels' = cancels + 1
  /\ UNCHANGED <<where, task, ledger, sender, faults>>

\* Shutdown does not wait for the processors.
Exit == ctxDone /\ Restart /\ UNCHANGED faults

Process(c) ==
  \/ \E m \in Msg : DropInvalid(c, m) \/ RateLimited(c, m) \/ StartSend(c, m)
  \/ CheckBalance(c)
  \/ \E r \in {"permanent", "retryable"} : CircuitRefuses(c, r)
  \/ Call(c)
  \/ \E r \in Result, balance \in BOOLEAN : Respond(c, r, balance)
  \/ Save(c) \/ Report(c) \/ StepFails(c) \/ AnswerLost(c)
  \/ Resume(c) \/ CancelBackoff(c)
  \/ \E published \in BOOLEAN : FinalizeExhausted(c, published)
  \/ Close(c)

Next ==
  \/ \E c \in Consumer : \/ \E d \in Delivery : Deliver(c, d) \/ AckEmpty(c, d)
                         \/ Process(c)
  \/ CooldownOver
  \/ ConnectionLost
  \/ Crash
  \/ Cancel
  \/ Exit

\* HTTP calls end (the client has a timeout), backoffs end, and a goroutine that
\* can go on does.
Fairness == \A c \in Consumer : WF_vars(Process(c))

Safety == Init /\ [][Next]_vars
Spec   == Safety /\ Fairness

-----------------------------------------------------------------------------
(* Properties *)

\* "From this point on, Send is never called again for this message": the API is
\* called for a message once, and once more for each return of its delivery to
\* the queue, whatever the steps after the send do (retryInProcess).
SendsAreRedeliveries == \A m \in Msg : sends[m] <= 1 + returned[m]

\* "our own record is persisted before we tell gateway-dlr-handler": the API has
\* been told of no outcome before SAVE_TO_DB has one, and of no more outcomes than
\* SAVE_TO_DB has, except for the reports repeated because their answer was lost.
RecordBeforeReport ==
  \A m \in Msg : /\ told[m] > 0 => saved[m] > 0
                 /\ told[m] <= saved[m] + unheard[m]

\* No delivery leaves the queue with a valid message nobody has heard of: each
\* was reported or dead-lettered, or the DLQ itself refused it.  In particular
\* one message's drop never takes another's requeue with it (ProcessDelivery).
NobodyForgotten ==
  \A d \in Delivery : where[d] = "gone" =>
    \A m \in Batch[d] \ Invalid : reported[m] + dead[m] > 0 \/ m \in unburied

\* tripBalanceCooldown stops the calls of every goroutine: during a cooldown only
\* those call that had passed balanceCooldownRemaining before it was tripped, and
\* each only once.
CooldownHolds ==
  cooling => \A c \in Consumer : pc[c] = "call" => c \in past

\* retryInProcess gives up: a goroutine that took a delivery comes back for the
\* next one, whatever keeps failing downstream.
DeliveriesResolved == \A c \in Consumer : pc[c] # "idle" ~> pc[c] = "idle"
=============================================================================
