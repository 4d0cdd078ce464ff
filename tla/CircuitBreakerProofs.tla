------------------------- MODULE CircuitBreakerProofs -------------------------
(***************************************************************************)
(* Proofs about CircuitBreaker for any number of goroutines, thresholds    *)
(* and probes.                                                             *)
(***************************************************************************)
EXTENDS CircuitBreaker, FiniteSetTheorems, TLAPS

\* Requests of the present generation that have not ended.
InFlight == {w \in Worker : stage[w] = "inflight" /\ current[w]}

\* Every outcome the breaker counts belongs to a request it counted: requests
\* covers those in flight and, besides them, the failures or the successes.
CountsCovered ==
  /\ Cardinality(InFlight) + failures <= requests
  /\ Cardinality(InFlight) + goodRun <= requests

\* Half-open, no more requests are counted than there may be probes.
ProbesCounted == state = "half-open" => requests <= MaxRequests

BreakerInv == TypeOK /\ CountsCovered /\ ProbesCounted

-----------------------------------------------------------------------------
\* The requests in flight can be counted.
LEMMA InFlightFinite == IsFiniteSet(InFlight) /\ Cardinality(InFlight) \in Nat
<1>1. InFlight \subseteq Worker
  BY DEF InFlight
<1>2. IsFiniteSet(InFlight)
  BY <1>1, BreakerConstantsOK, FS_Subset DEF BreakerConstantsOK
<1>3. QED
  BY <1>2, FS_CardinalityType

\* A new generation has no request in flight.
LEMMA NewStateInFlight ==
  ASSUME NEW s, NewState(s)
  PROVE  InFlight' = {} /\ Cardinality(InFlight') = 0
BY FS_EmptySet DEF NewState, InFlight

\* A breaker starts closed, with nothing counted.
LEMMA InitInv == Init => BreakerInv
<1> SUFFICES ASSUME Init PROVE BreakerInv
  OBVIOUS
<1>1. InFlight = {}
  BY DEF Init, InFlight
<1>2. Cardinality(InFlight) = 0
  BY <1>1, FS_EmptySet
<1>3. TypeOK
  BY BreakerConstantsOK DEF Init, TypeOK, BreakerConstantsOK
<1>4. QED
  BY <1>2, <1>3 DEF Init, BreakerInv, CountsCovered, ProbesCounted

\* Every step of a goroutine, the timeout and the operator keep the invariant.
LEMMA NextInv == BreakerInv /\ [Next]_vars => BreakerInv'
<1> SUFFICES ASSUME BreakerInv, [Next]_vars PROVE BreakerInv'
  OBVIOUS
<1> USE BreakerConstantsOK DEF BreakerConstantsOK
<1>1. TypeOK /\ CountsCovered /\ ProbesCounted
  BY DEF BreakerInv
<1>2. IsFiniteSet(InFlight) /\ Cardinality(InFlight) \in Nat
  BY InFlightFinite
<1>3. ASSUME UNCHANGED <<state, counts, current>>, TypeOK',
             \A w \in Worker : stage'[w] = "inflight" <=> stage[w] = "inflight"
      PROVE  BreakerInv'
  <2>1. InFlight' = InFlight
    BY <1>3 DEF InFlight
  <2>2. QED
    BY <1>1, <1>3, <2>1 DEF BreakerInv, CountsCovered, ProbesCounted, counts
<1>4. ASSUME NEW w \in Worker, CheckHealth(w) PROVE BreakerInv'
  <2>1. TypeOK' /\ \A v \in Worker : stage'[v] = "inflight" <=> stage[v] = "inflight"
    BY <1>1, <1>4 DEF CheckHealth, Done, TypeOK, counts
  <2>2. QED
    BY <1>3, <1>4, <2>1 DEF CheckHealth
<1>5. ASSUME NEW w \in Worker, CheckOpen(w) PROVE BreakerInv'
  <2>1. TypeOK' /\ \A v \in Worker : stage'[v] = "inflight" <=> stage[v] = "inflight"
    BY <1>1, <1>5 DEF CheckOpen, Done, TypeOK, counts
  <2>2. QED
    BY <1>3, <1>5, <2>1 DEF CheckOpen
<1>6. ASSUME NEW w \in Worker, Admit(w) PROVE BreakerInv'
  <2>1. InFlight' = InFlight \cup {w} /\ w \notin InFlight
    BY <1>1, <1>6 DEF Admit, InFlight, TypeOK
  <2>2. Cardinality(InFlight') = Cardinality(InFlight) + 1
    BY <1>2, <2>1, FS_AddElement
  <2>3. TypeOK'
    BY <1>1, <1>6 DEF Admit, TypeOK
  <2>4. CountsCovered'
    BY <1>1, <1>2, <1>6, <2>2 DEF Admit, CountsCovered, TypeOK
  <2>5. ProbesCounted'
    BY <1>1, <1>6 DEF Admit, MayAdmit, ProbesCounted, TypeOK
  <2>6. QED
    BY <2>3, <2>4, <2>5 DEF BreakerInv
<1>7. ASSUME NEW w \in Worker, Refuse(w) PROVE BreakerInv'
  <2>1. TypeOK' /\ \A v \in Worker : stage'[v] = "inflight" <=> stage[v] = "inflight"
    BY <1>1, <1>7 DEF Refuse, Done, TypeOK, counts
  <2>2. QED
    BY <1>3, <1>7, <2>1 DEF Refuse
<1>8. ASSUME NEW s \in {"closed", "open", "half-open"}, NewState(s),
             stage' \in [Worker -> {"idle", "healthy", "admit", "inflight"}],
             last' \in [Worker -> {"none", "success", "retryable", "permanent"}],
             UNCHANGED <<reached, up>>
      PROVE  BreakerInv'
  <2>0. caught' \in [Worker -> BOOLEAN]
    BY <1>1, <1>8 DEF NewState, TypeOK
  <2>1. Cardinality(InFlight') = 0
    BY <1>8, NewStateInFlight
  <2>2. TypeOK'
    BY <1>1, <1>8, <2>0 DEF NewState, TypeOK
  <2>3. QED
    BY <1>8, <2>1, <2>2 DEF NewState, BreakerInv, CountsCovered, ProbesCounted
<1>9. ASSUME NEW w \in Worker, NEW r \in {"success", "retryable", "permanent"}, Finish(w, r)
      PROVE  BreakerInv'
  <2>1. /\ stage' \in [Worker -> {"idle", "healthy", "admit", "inflight"}]
        /\ last' \in [Worker -> {"none", "success", "retryable", "permanent"}]
        /\ UNCHANGED <<reached, up>> /\ stage[w] = "inflight"
        /\ stage' = [stage EXCEPT ![w] = "idle"]
    BY <1>1, <1>9 DEF Finish, Done, TypeOK
  <2>2. CASE ~current[w]
    <3>1. UNCHANGED <<state, counts, current, caught>>
      BY <1>9, <2>2 DEF Finish, Counts
    <3>2. InFlight' = InFlight
      BY <1>1, <2>1, <2>2, <3>1 DEF InFlight, TypeOK
    <3>3. TypeOK'
      BY <1>1, <2>1, <3>1 DEF TypeOK, counts
    <3>4. QED
      BY <1>1, <3>1, <3>2, <3>3 DEF BreakerInv, CountsCovered, ProbesCounted, counts
  <2>3. ASSUME current[w], UNCHANGED current
        PROVE  Cardinality(InFlight') + 1 = Cardinality(InFlight) /\ Cardinality(InFlight') \in Nat
    <3>1. InFlight' = InFlight \ {w} /\ w \in InFlight
      BY <1>1, <2>1, <2>3 DEF InFlight, TypeOK
    <3>2. IsFiniteSet(InFlight') /\ Cardinality(InFlight') = Cardinality(InFlight) - 1
      BY <1>2, <3>1, FS_RemoveElement
    <3>3. QED
      BY <1>2, <3>2, FS_CardinalityType
  <2>4. CASE current[w] /\ r = "success"
    <3>1. OnSuccess
      BY <1>9, <2>4 DEF Finish, Counts
    <3>2. CASE NewState("closed")
      BY <1>8, <2>1, <3>2
    <3>3. CASE /\ goodRun' = goodRun + 1 /\ failRun' = 0
               /\ UNCHANGED <<state, requests, failures, current, caught>>
      <4>1. CountsCovered'
        BY <1>1, <1>2, <2>3, <2>4, <3>3 DEF CountsCovered, TypeOK
      <4>2. TypeOK'
        BY <1>1, <1>2, <2>1, <2>3, <2>4, <3>3 DEF CountsCovered, TypeOK
      <4>3. QED
        BY <1>1, <3>3, <4>1, <4>2 DEF BreakerInv, ProbesCounted
    <3>4. QED
      BY <3>1, <3>2, <3>3 DEF OnSuccess
  <2>5. CASE current[w] /\ r # "success"
    <3>1. OnFailure
      BY <1>9, <2>5 DEF Finish, Counts
    <3>2. CASE NewState("open")
      BY <1>8, <2>1, <3>2
    <3>3. CASE /\ failures' = failures + 1 /\ failRun' = failRun + 1 /\ goodRun' = 0
               /\ UNCHANGED <<state, requests, current, caught>>
      <4>1. CountsCovered'
        BY <1>1, <1>2, <2>3, <2>5, <3>3 DEF CountsCovered, TypeOK
      <4>2. TypeOK'
        BY <1>1, <1>2, <2>1, <2>3, <2>5, <3>3 DEF CountsCovered, TypeOK
      <4>3. QED
        BY <1>1, <3>3, <4>1, <4>2 DEF BreakerInv, ProbesCounted
    <3>4. QED
      BY <3>1, <3>2, <3>3 DEF OnFailure
  <2>6. QED
    BY <2>2, <2>4, <2>5
<1>10. CASE TimeoutOver
  BY <1>1, <1>8, <1>10 DEF TimeoutOver, TypeOK
<1>11. CASE Flip
  <2>1. TypeOK'
    BY <1>1, <1>11 DEF Flip, TypeOK, counts
  <2>2. QED
    BY <1>3, <1>11, <2>1 DEF Flip
<1>12. CASE UNCHANGED vars
  <2>1. TypeOK'
    BY <1>1, <1>12 DEF vars, TypeOK
  <2>2. QED
    BY <1>3, <1>12, <2>1 DEF vars, counts
<1>13. QED
  BY <1>4, <1>5, <1>6, <1>7, <1>9, <1>10, <1>11, <1>12 DEF Next, Step

\* The counters of the breaker cover the requests in flight throughout.
THEOREM BreakerInvariant == Safety => []BreakerInv
BY InitInv, NextInv, PTL DEF Safety

\* gobreaker admits at most MaxRequests probes of one half-open generation, for
\* any number of goroutines between the checks and Execute.
THEOREM ProbesStayBounded == Safety => []ProbesBounded
<1>1. BreakerInv => ProbesBounded
  <2>1. SUFFICES ASSUME BreakerInv, state = "half-open"
                 PROVE  Cardinality(InFlight) <= MaxRequests
    BY DEF ProbesBounded, InFlight
  <2>2. Cardinality(InFlight) \in Nat
    BY InFlightFinite
  <2>3. QED
    BY <2>1, <2>2, BreakerConstantsOK
    DEF BreakerInv, CountsCovered, ProbesCounted, TypeOK, BreakerConstantsOK
<1>2. QED
  BY <1>1, BreakerInvariant, PTL

\* The message w has checked the breaker for, or was told so of last, met an open
\* breaker only if it was caught between the checks.
CaughtOK(w) ==
  /\ stage[w] = "healthy" /\ state = "open" => caught[w]
  /\ stage[w] = "idle" /\ last[w] = "permanent" /\ ~reached[w] => caught[w]
  /\ stage[w] = "inflight" => reached[w]

AllCaughtOK == \A w \in Worker : CaughtOK(w)

\* A message fails for good unsent only if the breaker opened between the two checks
\* made for it, for any number of goroutines, thresholds and probes.
THEOREM OnlyCaughtMessagesFail == Safety => []OnlyCaughtFailUnsent
<1>1. Init => AllCaughtOK
  BY DEF Init, AllCaughtOK, CaughtOK
<1>2. ASSUME TypeOK, AllCaughtOK, [Next]_vars PROVE AllCaughtOK'
  <2>1. SUFFICES ASSUME NEW w \in Worker PROVE CaughtOK(w)'
    BY DEF AllCaughtOK
  <2>2. CaughtOK(w)
    BY <1>2 DEF AllCaughtOK
  <2>3. ASSUME NEW s, NewState(s),
               stage'[w] = stage[w] \/ (stage[w] = "inflight" /\ stage'[w] = "idle"),
               stage'[w] = stage[w] => last'[w] = last[w], UNCHANGED reached
        PROVE  CaughtOK(w)'
    <3>1. /\ state' = s /\ (caught[w] => caught'[w])
          /\ s = "open" /\ stage[w] = "healthy" => caught'[w]
      BY <1>2, <2>3 DEF NewState, TypeOK
    <3>2. QED
      BY <2>2, <2>3, <3>1 DEF CaughtOK
  <2>4. ASSUME NEW v \in Worker, CheckHealth(v) PROVE CaughtOK(w)'
    BY <1>2, <2>2, <2>4 DEF CheckHealth, Done, CaughtOK, TypeOK
  <2>5. ASSUME NEW v \in Worker, CheckOpen(v) PROVE CaughtOK(w)'
    BY <1>2, <2>2, <2>5 DEF CheckOpen, Done, CaughtOK, TypeOK
  <2>6. ASSUME NEW v \in Worker, Admit(v) PROVE CaughtOK(w)'
    BY <1>2, <2>2, <2>6 DEF Admit, CaughtOK, TypeOK
  <2>7. ASSUME NEW v \in Worker, Refuse(v) PROVE CaughtOK(w)'
    BY <1>2, <2>2, <2>7 DEF Refuse, Done, CaughtOK, TypeOK
  <2>8. ASSUME NEW v \in Worker, NEW r \in {"success", "retryable", "permanent"}, Finish(v, r)
        PROVE  CaughtOK(w)'
    <3>1. /\ stage'[w] = stage[w] \/ (stage[w] = "inflight" /\ stage'[w] = "idle")
          /\ stage'[w] = stage[w] => last'[w] = last[w]
          /\ UNCHANGED reached
      BY <1>2, <2>8 DEF Finish, Done, TypeOK
    <3>2. (\E s : NewState(s)) \/ UNCHANGED <<state, caught>>
      BY <2>8 DEF Finish, OnSuccess, OnFailure
    <3>3. QED
      BY <2>2, <2>3, <3>1, <3>2 DEF CaughtOK
  <2>9. CASE TimeoutOver
    BY <2>3, <2>9 DEF TimeoutOver
  <2>10. CASE Flip \/ UNCHANGED vars
    BY <2>2, <2>10 DEF Flip, vars, CaughtOK
  <2>11. QED
    BY <1>2, <2>4, <2>5, <2>6, <2>7, <2>8, <2>9, <2>10 DEF Next, Step
<1>3. AllCaughtOK => OnlyCaughtFailUnsent
  BY DEF OnlyCaughtFailUnsent, AllCaughtOK, CaughtOK
<1>4. Safety => []TypeOK
  BY BreakerInvariant, PTL DEF BreakerInv
<1>5. QED
  BY <1>1, <1>2, <1>3, <1>4, PTL DEF Safety
===============================================================================
