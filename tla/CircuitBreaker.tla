---------------------------- MODULE CircuitBreaker ----------------------------
(***************************************************************************)
(* One network's circuit breaker and the goroutines that send through it:  *)
(* processMessage asks IsHealthy, the sender asks IsOpen, and the request  *)
(* runs inside Execute (processor.go, mno/base.go, safaricom_sdp.go,       *)
(* common/circuitbreaker/breaker.go).                                      *)
(*                                                                         *)
(* The breaker itself is github.com/sony/gobreaker, modelled as the code   *)
(* uses it: a request remembers the generation that admitted it, and its   *)
(* outcome counts only if the breaker has not changed state meanwhile.     *)
(* Generations are reduced to whether a request belongs to the present     *)
(* one.  Interval is left at 0, so counts are cleared only by a change of  *)
(* state.                                                                  *)
(***************************************************************************)
EXTENDS Integers, FiniteSets

CONSTANTS
  Worker,               \* goroutines that send to the network
  ConsecutiveFailures,  \* trip after so many failures in a row,
  MinRequests,          \* or, from so many requests on,
  FailurePercent,       \* when so many percent of them failed
  MaxRequests,          \* probes admitted, and successes needed, when half-open
  MaxCounted            \* bound: messages arrive while a closed breaker has counted
                        \* fewer requests

ASSUME BreakerConstantsOK ==
  /\ IsFiniteSet(Worker)
  /\ ConsecutiveFailures \in Nat \ {0} /\ MinRequests \in Nat
  /\ FailurePercent \in 0 .. 100
  /\ MaxRequests \in Nat \ {0} /\ MaxCounted \in Nat \ {0}

VARIABLES
  state,     \* closed, open or half-open
  requests,  \* gobreaker.Counts
  failures,
  failRun,   \* ConsecutiveFailures
  goodRun,   \* ConsecutiveSuccesses
  stage,     \* stage[w]: where in processMessage and Send w is
  current,   \* current[w]: w's request was admitted in the present generation
  last,      \* last[w]: the result of w's last message
  reached,   \* reached[w]: that message was put to the operator
  caught,    \* history: the breaker opened while w was between its two checks
  up         \* the operator accepts every message

counts == <<requests, failures, failRun, goodRun>>
vars   == <<state, requests, failures, failRun, goodRun, stage, current, last,
            reached, caught, up>>

TypeOK ==
  /\ state \in {"closed", "open", "half-open"}
  /\ requests \in Nat
  /\ failures \in 0 .. requests /\ failRun \in 0 .. failures
  /\ goodRun \in 0 .. requests
  /\ stage \in [Worker -> {"idle", "healthy", "admit", "inflight"}]
  /\ current \in [Worker -> BOOLEAN]
  /\ last \in [Worker -> {"none", "success", "retryable", "permanent"}]
  /\ reached \in [Worker -> BOOLEAN] /\ caught \in [Worker -> BOOLEAN]
  /\ up \in BOOLEAN

-----------------------------------------------------------------------------
\* setState: a new generation with counts cleared; requests in flight are late.
NewState(s) ==
  /\ state' = s
  /\ requests' = 0 /\ failures' = 0 /\ failRun' = 0 /\ goodRun' = 0
  /\ current' = [w \in Worker |-> FALSE]
  /\ caught' = IF s = "open" THEN [w \in Worker |-> caught[w] \/ stage[w] = "healthy"]
               ELSE caught

\* The ReadyToTrip closure of New, on the counts after a failure.
ReadyToTrip(rs, fs, run) ==
  \/ run >= ConsecutiveFailures
  \/ rs >= MinRequests /\ 100 * fs >= FailurePercent * rs

\* The message of w has result r.
Done(w, r) ==
  /\ stage' = [stage EXCEPT ![w] = "idle"]
  /\ last' = [last EXCEPT ![w] = r]

-----------------------------------------------------------------------------
(* Faulty variants of the operators below. *)

\* Half-open, the breaker admits everybody.
MayAdmitAll == state # "open"

\* processMessage does not ask IsHealthy.
CheckHealthSkipped(w) ==
  /\ stage[w] = "idle" /\ (state = "closed" => requests < MaxCounted)
  /\ reached' = [reached EXCEPT ![w] = FALSE]
  /\ caught' = [caught EXCEPT ![w] = FALSE]
  /\ stage' = [stage EXCEPT ![w] = "healthy"]
  /\ UNCHANGED <<state, counts, current, last, up>>

\* One success more than the probes admitted is needed to close.
ClosesLate(run) == run > MaxRequests

-----------------------------------------------------------------------------
Init ==
  /\ state = "closed"
  /\ requests = 0 /\ failures = 0 /\ failRun = 0 /\ goodRun = 0
  /\ stage = [w \in Worker |-> "idle"]
  /\ current = [w \in Worker |-> FALSE]
  /\ last = [w \in Worker |-> "none"]
  /\ reached = [w \in Worker |-> FALSE] /\ caught = [w \in Worker |-> FALSE]
  /\ up \in BOOLEAN

\* processMessage, with a valid message and a rate token: IsHealthy.  An open
\* breaker makes the message retryable.
CheckHealth(w) ==
  /\ stage[w] = "idle" /\ (state = "closed" => requests < MaxCounted)
  /\ reached' = [reached EXCEPT ![w] = FALSE]
  /\ caught' = [caught EXCEPT ![w] = FALSE]
  /\ IF state = "open" THEN Done(w, "retryable")
     ELSE stage' = [stage EXCEPT ![w] = "healthy"] /\ UNCHANGED last
  /\ UNCHANGED <<state, counts, current, up>>

\* Send asks again: now an open breaker makes the message a permanent failure.
CheckOpen(w) ==
  /\ stage[w] = "healthy"
  /\ IF state = "open" THEN Done(w, "permanent")
     ELSE stage' = [stage EXCEPT ![w] = "admit"] /\ UNCHANGED last
  /\ UNCHANGED <<state, counts, current, reached, caught, up>>

MayAdmit == state = "closed" \/ (state = "half-open" /\ requests < MaxRequests)

\* Execute, beforeRequest: the request is admitted and counted.
Admit(w) ==
  /\ stage[w] = "admit" /\ MayAdmit
  /\ requests' = requests + 1
  /\ stage' = [stage EXCEPT ![w] = "inflight"]
  /\ current' = [current EXCEPT ![w] = TRUE]
  /\ reached' = [reached EXCEPT ![w] = TRUE]
  /\ UNCHANGED <<state, failures, failRun, goodRun, last, caught, up>>

\* ErrOpenState or ErrTooManyRequests: no result was set, so it is retryable.
Refuse(w) ==
  /\ stage[w] = "admit" /\ ~MayAdmit
  /\ Done(w, "retryable")
  /\ UNCHANGED <<state, counts, current, reached, caught, up>>

Closes(run) == run >= MaxRequests

OnSuccess ==
  IF state = "half-open" /\ Closes(goodRun + 1)
  THEN NewState("closed")
  ELSE /\ goodRun' = goodRun + 1 /\ failRun' = 0
       /\ UNCHANGED <<state, requests, failures, current, caught>>

OnFailure ==
  IF state = "half-open" \/ ReadyToTrip(requests, failures + 1, failRun + 1)
  THEN NewState("open")
  ELSE /\ failures' = failures + 1 /\ failRun' = failRun + 1 /\ goodRun' = 0
       /\ UNCHANGED <<state, requests, current, caught>>

Counts(w) == current[w]

\* The request ends and Execute's afterRequest counts it.  Every result but a
\* success is a failure to the breaker, a rejection of the message too.
Finish(w, r) ==
  /\ stage[w] = "inflight" /\ (up => r = "success")
  /\ Done(w, r)
  /\ IF ~Counts(w) THEN UNCHANGED <<state, counts, current, caught>>
     ELSE IF r = "success" THEN OnSuccess ELSE OnFailure
  /\ UNCHANGED <<reached, up>>

\* Timeout has passed; the next call of any method finds the breaker half-open.
TimeoutOver ==
  /\ state = "open"
  /\ NewState("half-open")
  /\ UNCHANGED <<stage, last, reached, up>>

\* The operator fails or recovers.
Flip ==
  /\ up' = ~up
  /\ UNCHANGED <<state, counts, stage, current, last, reached, caught>>

Step(w) ==
  \/ CheckHealth(w) \/ CheckOpen(w) \/ Admit(w) \/ Refuse(w)
  \/ \E r \in {"success", "retryable", "permanent"} : Finish(w, r)

Next == (\E w \in Worker : Step(w)) \/ TimeoutOver \/ Flip

\* Messages keep arriving, requests end (the HTTP client has a timeout), and the
\* breaker's timeout passes.
Fairness == (\A w \in Worker : WF_vars(Step(w))) /\ WF_vars(TimeoutOver)

Safety == Init /\ [][Next]_vars
Spec   == Safety /\ Fairness

-----------------------------------------------------------------------------
(* Properties *)

\* A recovering operator is spared: of all goroutines that passed both checks,
\* at most MaxRequests have a request with it that half-open admitted.
ProbesBounded ==
  state = "half-open" =>
    Cardinality({w \in Worker : stage[w] = "inflight" /\ current[w]}) <= MaxRequests

\* An open breaker delays messages, it does not fail them: a message is failed for
\* good without having been put to the operator only if the breaker opened after
\* processMessage had asked IsHealthy for it and before Send asked IsOpen.  So an
\* opening costs a goroutine one message at most (processMessage, Send).
OnlyCaughtFailUnsent ==
  \A w \in Worker :
    stage[w] = "idle" /\ last[w] = "permanent" /\ ~reached[w] => caught[w]

\* The breaker never locks itself out: if the operator is well from some time
\* on, sending resumes, whatever late failures and refused probes came between.
Recovers == (<>[]up) => []<>(state = "closed")
=============================================================================
