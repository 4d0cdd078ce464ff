-------------------------- MODULE SdpBatchingProofs --------------------------
(***************************************************************************)
(* Proofs about SdpBatching for any deliveries, workers, batch sizes,      *)
(* token periods and faults.                                               *)
(***************************************************************************)
EXTENDS SdpBatching, FiniteSetTheorems, TLAPS

\* What worker w holds at each point of its loop.
StageOK(w) ==
  /\ pc[w] = "idle" => held[w] = {}
  /\ pc[w] = "stopped" => \A d \in held[w] : Batch[d] = {}
  /\ pc[w] \in {"idle", "publishing", "stopped"} => todo[w] = {}
  /\ pc[w] \in {"idle", "sending", "publishing", "stopped"} => alone[w] = {}
  /\ pc[w] \in {"token", "fetching", "storing", "calling"} =>
       chunk[w] \cup alone[w] \subseteq todo[w] /\ chunk[w] \cap alone[w] = {}

\* A message of a delivery in work has no result yet, has one that is not published
\* yet, or was handed over or given up.
HeldKept(w) ==
  pc[w] \notin {"idle", "stopped"} =>
    \A d \in held[w] : \A m \in Batch[d] :
      m \in todo[w] \/ result[w][m] # "none" \/ m \in handed \cup abandoned

\* A delivery that is out at w is one w knows of.
HeldKnown(w) == \A d \in Delivery : where[d] = w => d \in held[w]

\* What w has failed for good, the API refuses.
RefusedFail(w) == \A m \in Msg \ Regular : result[w][m] = "permanent" => m \in Refused

Senders(m) == {w \in Worker : m \in todo[w]}

One(p) == IF p THEN 1 ELSE 0

\* m's delivery is not in the queue, but with a worker or gone.
Taken(m)   == \E d \in Delivery : m \in Batch[d] /\ where[d] # "ready"
HandOut(m) == returned[m] + One(Taken(m))

\* Every acceptance of m, had or still possible, belongs to a different hand-out of
\* its delivery: the present one or one that ended in a return.
SendsPaid == \A m \in Msg : accepted[m] + Cardinality(Senders(m)) <= HandOut(m)

SdpInv ==
  /\ TypeOK /\ SendsPaid /\ AckedIsHandedOver
  /\ \A w \in Worker : StageOK(w) /\ HeldKept(w) /\ HeldKnown(w) /\ RefusedFail(w)

-----------------------------------------------------------------------------
\* Counting with one member in doubt: what b must cover, a and the size of S,
\* stays covered if the change at c is.
LEMMA CountStep ==
  ASSUME NEW S, NEW T, NEW c, IsFiniteSet(S), S \ {c} = T \ {c},
         NEW a \in Nat, NEW a2 \in Nat, NEW b \in Nat, NEW b2 \in Nat,
         a + Cardinality(S) <= b,
         a2 + One(c \in T) + b <= a + One(c \in S) + b2
  PROVE  a2 + Cardinality(T) <= b2
<1> DEFINE R == S \ {c}
<1>1. IsFiniteSet(R)
  BY FS_Subset
<1>2. Cardinality(R) \in Nat
  BY <1>1, FS_CardinalityType
<1>3. ASSUME NEW U, U \ {c} = R PROVE Cardinality(U) = Cardinality(R) + One(c \in U)
  <2>1. CASE c \in U
    <3>1. U = R \cup {c} /\ c \notin R
      BY <1>3, <2>1
    <3>2. QED
      BY <1>1, <2>1, <3>1, FS_AddElement DEF One
  <2>2. CASE c \notin U
    <3>1. U = R
      BY <1>3, <2>2
    <3>2. QED
      BY <1>2, <2>2, <3>1 DEF One
  <2>3. QED
    BY <2>1, <2>2
<1>4. Cardinality(S) = Cardinality(R) + One(c \in S)
  BY <1>3
<1>5. Cardinality(T) = Cardinality(R) + One(c \in T)
  BY <1>3
<1>6. One(c \in S) \in Nat /\ One(c \in T) \in Nat
  BY DEF One
<1> HIDE DEF R
<1>7. QED
  BY <1>2, <1>4, <1>5, <1>6

\* The workers that may send m can be counted.
LEMMA CountsFinite ==
  ASSUME NEW m PROVE IsFiniteSet(Senders(m)) /\ Cardinality(Senders(m)) \in Nat
<1>1. Senders(m) \subseteq Worker /\ IsFiniteSet(Worker)
  BY SdpConstantsOK DEF Senders, SdpConstantsOK
<1>2. IsFiniteSet(Senders(m))
  BY <1>1, FS_Subset
<1>3. QED
  BY <1>2, FS_CardinalityType

\* Hand-outs are natural numbers.
LEMMA HandOutNat ==
  ASSUME TypeOK, NEW m \in Msg PROVE HandOut(m) \in Nat /\ returned[m] <= HandOut(m)
                                     /\ HandOut(m) <= 1 + returned[m]
BY DEF TypeOK, HandOut, One

\* Requeueing deliveries that are out pays for each of their messages what the
\* hand-out that ends was worth.
LEMMA RequeuePays ==
  ASSUME TypeOK, NEW S \in SUBSET Delivery, Requeue(S),
         \A d \in S : where[d] # "ready"
  PROVE  /\ where' \in [Delivery -> {"absent", "ready", "gone"} \cup Worker]
         /\ returned' \in [Msg -> Nat]
         /\ \A d \in Delivery : where'[d] = "gone" => where[d] = "gone"
         /\ \A m \in Msg : HandOut(m)' = HandOut(m)
<1>1. /\ where' = [d \in Delivery |-> IF d \in S THEN "ready" ELSE where[d]]
      /\ returned' = [m \in Msg |-> returned[m] + Cardinality({d \in S : m \in Batch[d]})]
      /\ where \in [Delivery -> {"absent", "ready", "gone"} \cup Worker]
      /\ returned \in [Msg -> Nat]
  BY DEF Requeue, TypeOK
<1>2. ASSUME NEW m \in Msg
      PROVE  /\ returned'[m] \in Nat
             /\ returned'[m] + One(Taken(m)') = returned[m] + One(Taken(m))
  <2> DEFINE D == {d \in S : m \in Batch[d]}
  <2>1. returned'[m] = returned[m] + Cardinality(D) /\ returned[m] \in Nat
    BY <1>1
  <2>2. CASE D = {}
    <3>1. Cardinality(D) = 0
      BY <2>2, FS_EmptySet
    <3>2. Taken(m)' <=> Taken(m)
      BY <1>1, <2>2 DEF Taken
    <3>3. QED
      BY <2>1, <3>1, <3>2 DEF One
  <2>3. CASE D # {}
    <3>1. PICK d \in S : m \in Batch[d]
      BY <2>3
    <3>2. \A e \in Delivery : m \in Batch[e] => e = d
      BY <3>1, SdpConstantsOK DEF SdpConstantsOK
    <3>3. D = {d}
      BY <3>1, <3>2
    <3>4. Cardinality(D) = 1
      BY <3>3, FS_Singleton
    <3>5. Taken(m) /\ ~Taken(m)'
      BY <1>1, <3>1, <3>2 DEF Taken
    <3>6. QED
      BY <2>1, <3>4, <3>5 DEF One
  <2>4. QED
    BY <2>2, <2>3
<1>3. QED
  BY <1>1, <1>2 DEF HandOut

-----------------------------------------------------------------------------
\* What a step of worker w has to show: its own stage, deliveries and results, that
\* it takes no delivery from the others, that a delivery it removes was handed over,
\* and that an acceptance it gains, had or possible, is matched by a hand-out.
LEMMA WorkerStep ==
  ASSUME SdpInv, TypeOK', NEW w \in Worker,
         \A o \in Worker \ {w} :
           /\ pc'[o] = pc[o] /\ held'[o] = held[o] /\ todo'[o] = todo[o]
           /\ chunk'[o] = chunk[o] /\ alone'[o] = alone[o] /\ result'[o] = result[o],
         StageOK(w)', HeldKept(w)', HeldKnown(w)', RefusedFail(w)',
         \A d \in Delivery : where'[d] \in Worker \ {w} => where[d] = where'[d],
         handed \subseteq handed', abandoned \subseteq abandoned',
         \A d \in Delivery : where'[d] = "gone" =>
           where[d] = "gone" \/ Batch[d] \subseteq handed' \cup abandoned',
         \A m \in Msg : accepted'[m] + One(m \in todo'[w]) + HandOut(m)
                           <= accepted[m] + One(m \in todo[w]) + HandOut(m)'
  PROVE  SdpInv'
<1>1. TypeOK /\ SendsPaid /\ AckedIsHandedOver
      /\ \A o \in Worker : StageOK(o) /\ HeldKept(o) /\ HeldKnown(o) /\ RefusedFail(o)
  BY DEF SdpInv
<1>2. AckedIsHandedOver'
  BY <1>1 DEF AckedIsHandedOver
<1>3. ASSUME NEW o \in Worker
      PROVE  StageOK(o)' /\ HeldKept(o)' /\ HeldKnown(o)' /\ RefusedFail(o)'
  <2>1. CASE o = w
    BY <2>1
  <2>2. CASE o # w
    <3>1. StageOK(o)'
      BY <1>1, <2>2 DEF StageOK
    <3>2. HeldKept(o)'
      BY <1>1, <2>2 DEF HeldKept
    <3>3. HeldKnown(o)'
      BY <1>1, <2>2 DEF HeldKnown
    <3>4. RefusedFail(o)'
      BY <1>1, <2>2 DEF RefusedFail
    <3>5. QED
      BY <3>1, <3>2, <3>3, <3>4
  <2>3. QED
    BY <2>1, <2>2
<1>4. SendsPaid'
  <2>1. SUFFICES ASSUME NEW m \in Msg
                 PROVE  accepted'[m] + Cardinality(Senders(m)') <= HandOut(m)'
    BY DEF SendsPaid
  <2>2. Senders(m) \ {w} = Senders(m)' \ {w}
    BY DEF Senders
  <2>3. One(w \in Senders(m)) = One(m \in todo[w]) /\ One(w \in Senders(m)') = One(m \in todo'[w])
    BY DEF Senders, One
  <2>4. /\ accepted[m] \in Nat /\ accepted'[m] \in Nat
        /\ HandOut(m) \in Nat /\ HandOut(m)' \in Nat
    BY <1>1 DEF TypeOK, HandOut, One
  <2>5. accepted[m] + Cardinality(Senders(m)) <= HandOut(m) /\ IsFiniteSet(Senders(m))
    BY <1>1, CountsFinite DEF SendsPaid
  <2>6. accepted'[m] + One(w \in Senders(m)') + HandOut(m)
          <= accepted[m] + One(w \in Senders(m)) + HandOut(m)'
    BY <2>3
  <2> HIDE DEF Senders
  <2>7. QED
    BY <2>2, <2>4, <2>5, <2>6, CountStep
<1>5. QED
  BY <1>2, <1>3, <1>4 DEF SdpInv

\* A step between accumulateBatch and the acks: no delivery moves.
LEMMA QuietStep ==
  ASSUME SdpInv, TypeOK', NEW w \in Worker, UNCHANGED <<where, held, returned>>,
         \A o \in Worker \ {w} :
           /\ pc'[o] = pc[o] /\ todo'[o] = todo[o] /\ chunk'[o] = chunk[o]
           /\ alone'[o] = alone[o] /\ result'[o] = result[o],
         StageOK(w)', HeldKept(w)', RefusedFail(w)',
         handed \subseteq handed', abandoned \subseteq abandoned',
         \A m \in Msg : accepted'[m] + One(m \in todo'[w]) <= accepted[m] + One(m \in todo[w])
  PROVE  SdpInv'
<1>1. TypeOK /\ HeldKnown(w)
  BY DEF SdpInv
<1>2. \A m \in Msg : HandOut(m)' = HandOut(m) /\ HandOut(m) \in Nat
  BY <1>1, HandOutNat DEF HandOut, Taken
<1>3. ASSUME NEW m \in Msg
      PROVE  accepted'[m] + One(m \in todo'[w]) + HandOut(m)
               <= accepted[m] + One(m \in todo[w]) + HandOut(m)'
  <2>1. /\ accepted[m] \in Nat /\ accepted'[m] \in Nat
        /\ One(m \in todo[w]) \in Nat /\ One(m \in todo'[w]) \in Nat
    BY <1>1 DEF TypeOK, One
  <2>2. accepted'[m] + One(m \in todo'[w]) <= accepted[m] + One(m \in todo[w])
    OBVIOUS
  <2>3. QED
    BY <1>2, <2>1, <2>2
<1>4. HeldKnown(w)'
  BY <1>1 DEF HeldKnown
<1>5. QED
  BY <1>3, <1>4, WorkerStep

-----------------------------------------------------------------------------
\* What Resolve does to the state of w, and to no other.
LEMMA ResolveFacts ==
  ASSUME TypeOK, NEW w \in Worker, NEW S,
         NEW r \in {"none", "success", "retryable", "permanent"}, Resolve(w, S, r)
  PROVE  /\ result' \in [Worker -> [Msg -> {"none", "success", "retryable", "permanent"}]]
         /\ todo' \in [Worker -> SUBSET Msg]
         /\ token' \in [Worker -> NoToken .. MaxPeriods]
         /\ tries' \in [Worker -> 0 .. TokenAttempts - 1]
         /\ \A m \in Msg : result'[w][m] = IF m \in S THEN r ELSE result[w][m]
         /\ todo'[w] = todo[w] \ S
         /\ \A o \in Worker \ {w} : result'[o] = result[o] /\ todo'[o] = todo[o]
<1>1. /\ result' = [result EXCEPT ![w] = [m \in Msg |-> IF m \in S THEN r ELSE result[w][m]]]
      /\ todo' = [todo EXCEPT ![w] = todo[w] \ S]
      /\ token' = [token EXCEPT ![w] = NoToken] /\ tries' = [tries EXCEPT ![w] = 0]
  BY DEF Resolve
<1>2. NoToken \in NoToken .. MaxPeriods /\ 0 \in 0 .. TokenAttempts - 1
  BY SdpConstantsOK DEF NoToken, SdpConstantsOK
<1>3. [m \in Msg |-> IF m \in S THEN r ELSE result[w][m]]
        \in [Msg -> {"none", "success", "retryable", "permanent"}]
  BY DEF TypeOK
<1>4. result' \in [Worker -> [Msg -> {"none", "success", "retryable", "permanent"}]]
  BY <1>1, <1>3 DEF TypeOK
<1>5. /\ token' \in [Worker -> NoToken .. MaxPeriods]
      /\ tries' \in [Worker -> 0 .. TokenAttempts - 1]
  BY <1>1, <1>2 DEF TypeOK
<1>6. /\ todo' \in [Worker -> SUBSET Msg] /\ todo'[w] = todo[w] \ S
      /\ \A o \in Worker \ {w} : result'[o] = result[o] /\ todo'[o] = todo[o]
  BY <1>1 DEF TypeOK
<1>7. \A m \in Msg : result'[w][m] = IF m \in S THEN r ELSE result[w][m]
  BY <1>1 DEF TypeOK
<1>8. QED
  BY <1>4, <1>5, <1>6, <1>7

\* What NextCall does to the call of w, and to no other.
LEMMA NextCallFacts ==
  ASSUME TypeOK, NEW w \in Worker, NEW rest \in SUBSET (Msg \ Regular), NextCall(w, rest)
  PROVE  /\ chunk' \in [Worker -> SUBSET (Msg \ Regular)]
         /\ alone' \in [Worker -> SUBSET (Msg \ Regular)]
         /\ single' \in [Worker -> BOOLEAN]
         /\ pc' \in [Worker -> {"idle", "sending", "token", "fetching", "storing",
                                "calling", "publishing", "stopped"}]
         /\ chunk'[w] \cup alone'[w] \subseteq rest /\ chunk'[w] \cap alone'[w] = {}
         /\ pc'[w] \in {"sending", "token"} /\ (pc'[w] = "sending" => alone'[w] = {})
         /\ \A o \in Worker \ {w} :
              pc'[o] = pc[o] /\ chunk'[o] = chunk[o] /\ alone'[o] = alone[o]
<1>1. CASE rest = {}
  <2>1. /\ chunk' = [chunk EXCEPT ![w] = {}] /\ alone' = [alone EXCEPT ![w] = {}]
        /\ single' = [single EXCEPT ![w] = FALSE] /\ pc' = [pc EXCEPT ![w] = "sending"]
    BY <1>1 DEF NextCall, Goto
  <2>2. single' \in [Worker -> BOOLEAN]
    BY <2>1 DEF TypeOK
  <2>3. QED
    BY <2>1, <2>2 DEF TypeOK
<1>2. CASE rest # {}
  <2>1. PICK m \in rest :
        /\ chunk' = [chunk EXCEPT ![w] = {m}] /\ alone' = [alone EXCEPT ![w] = rest \ {m}]
        /\ single' = [single EXCEPT ![w] = TRUE] /\ pc' = [pc EXCEPT ![w] = "token"]
    BY <1>2 DEF NextCall, Goto
  <2>2. single' \in [Worker -> BOOLEAN]
    BY <2>1 DEF TypeOK
  <2>3. QED
    BY <2>1, <2>2 DEF TypeOK
<1>3. QED
  BY <1>1, <1>2

\* The messages of S get a result: each of them leaves todo, and is accepted once
\* at most.
LEMMA ResolveStep ==
  ASSUME SdpInv, TypeOK', NEW w \in Worker, NEW S \in SUBSET todo[w],
         NEW r \in {"none", "success", "retryable", "permanent"}, Resolve(w, S, r),
         UNCHANGED <<where, held, handed, returned>>,
         pc[w] \notin {"idle", "stopped"}, StageOK(w)',
         \A o \in Worker \ {w} :
           pc'[o] = pc[o] /\ chunk'[o] = chunk[o] /\ alone'[o] = alone[o],
         abandoned \subseteq abandoned', r = "none" => S \subseteq abandoned',
         r = "permanent" => S \subseteq Regular \cup Refused,
         accepted' = accepted \/ accepted' = Bump(accepted, S)
  PROVE  SdpInv'
<1>1. TypeOK /\ HeldKept(w) /\ RefusedFail(w)
  BY DEF SdpInv
<1>2. /\ \A m \in Msg : result'[w][m] = IF m \in S THEN r ELSE result[w][m]
      /\ todo'[w] = todo[w] \ S
      /\ \A o \in Worker \ {w} : result'[o] = result[o] /\ todo'[o] = todo[o]
  BY <1>1, ResolveFacts
<1>3. HeldKept(w)'
  <2>1. SUFFICES ASSUME NEW d \in held[w], NEW m \in Batch[d]
                 PROVE  m \in todo'[w] \/ result'[w][m] # "none" \/ m \in handed' \cup abandoned'
    BY DEF HeldKept
  <2>2. m \in Msg
    BY <1>1, SdpConstantsOK DEF TypeOK, SdpConstantsOK
  <2>3. m \in todo[w] \/ result[w][m] # "none" \/ m \in handed \cup abandoned
    BY <1>1 DEF HeldKept
  <2>4. QED
    BY <1>2, <2>2, <2>3
<1>4. RefusedFail(w)'
  BY <1>1, <1>2 DEF RefusedFail
<1>5. ASSUME NEW m \in Msg
      PROVE  accepted'[m] + One(m \in todo'[w]) <= accepted[m] + One(m \in todo[w])
  <2>1. accepted[m] \in Nat /\ accepted'[m] \in {accepted[m], accepted[m] + One(m \in S)}
    BY <1>1 DEF TypeOK, Bump, One
  <2>2. m \in S => m \in todo[w] /\ m \notin todo'[w]
    BY <1>2
  <2>3. m \in todo'[w] => m \in todo[w]
    BY <1>2
  <2>4. QED
    BY <2>1, <2>2, <2>3 DEF One
<1>6. QED
  BY <1>2, <1>3, <1>4, <1>5, QuietStep

\* The call ends with one result for all its messages; the rest of a refused chunk
\* goes on, if there is any.
LEMMA EndCallStep ==
  ASSUME SdpInv, NEW w \in Worker, NEW r \in {"success", "retryable", "permanent"},
         pc[w] \in {"fetching", "calling"}, EndCall(w, r),
         r = "permanent" => chunk[w] \subseteq Refused,
         accepted' = accepted \/ accepted' = Bump(accepted, chunk[w]),
         UNCHANGED <<where, held, handed, returned, abandoned, period, ctxDone, cancels>>,
         cache' \in NoToken .. MaxPeriods, faults' \in 0 .. MaxFaults
  PROVE  SdpInv'
<1>1. TypeOK /\ StageOK(w)
  BY DEF SdpInv
<1>2. /\ Resolve(w, chunk[w], r) /\ NextCall(w, alone[w])
      /\ chunk[w] \in SUBSET todo[w] /\ alone[w] \subseteq todo[w] \ chunk[w]
      /\ alone[w] \in SUBSET (Msg \ Regular)
  BY <1>1 DEF EndCall, StageOK, TypeOK
<1>3. /\ result' \in [Worker -> [Msg -> {"none", "success", "retryable", "permanent"}]]
      /\ todo' \in [Worker -> SUBSET Msg]
      /\ token' \in [Worker -> NoToken .. MaxPeriods]
      /\ tries' \in [Worker -> 0 .. TokenAttempts - 1]
      /\ todo'[w] = todo[w] \ chunk[w]
  BY <1>1, <1>2, ResolveFacts
<1>4. /\ chunk' \in [Worker -> SUBSET (Msg \ Regular)]
      /\ alone' \in [Worker -> SUBSET (Msg \ Regular)]
      /\ single' \in [Worker -> BOOLEAN]
      /\ pc' \in [Worker -> {"idle", "sending", "token", "fetching", "storing",
                             "calling", "publishing", "stopped"}]
      /\ chunk'[w] \cup alone'[w] \subseteq alone[w] /\ chunk'[w] \cap alone'[w] = {}
      /\ pc'[w] \in {"sending", "token"} /\ (pc'[w] = "sending" => alone'[w] = {})
      /\ \A o \in Worker \ {w} :
           pc'[o] = pc[o] /\ chunk'[o] = chunk[o] /\ alone'[o] = alone[o]
  BY <1>1, <1>2, NextCallFacts
<1>5. accepted' \in [Msg -> Nat]
  BY <1>1 DEF TypeOK, Bump
<1>6. TypeOK'
  BY <1>1, <1>3, <1>4, <1>5 DEF TypeOK
<1>7. StageOK(w)'
  BY <1>2, <1>3, <1>4 DEF StageOK
<1>8. QED
  BY <1>2, <1>4, <1>6, <1>7, ResolveStep

\* A step that ends no message: getToken, the start of a call, a refused chunk.
LEMMA CallStep ==
  ASSUME SdpInv, TypeOK', NEW w \in Worker,
         UNCHANGED <<where, held, todo, result, accepted, handed, returned, abandoned>>,
         pc[w] \notin {"idle", "stopped", "publishing"},
         pc'[w] \notin {"idle", "stopped", "publishing"},
         pc'[w] = "sending" => alone'[w] = {},
         pc'[w] # "sending" =>
           chunk'[w] \cup alone'[w] \subseteq todo[w] /\ chunk'[w] \cap alone'[w] = {},
         \A o \in Worker \ {w} :
           pc'[o] = pc[o] /\ chunk'[o] = chunk[o] /\ alone'[o] = alone[o]
  PROVE  SdpInv'
<1>1. TypeOK /\ HeldKept(w) /\ RefusedFail(w)
  BY DEF SdpInv
<1>2. StageOK(w)'
  BY DEF StageOK
<1>3. HeldKept(w)' /\ RefusedFail(w)'
  BY <1>1 DEF HeldKept, RefusedFail
<1>4. \A m \in Msg : accepted'[m] + One(m \in todo'[w]) <= accepted[m] + One(m \in todo[w])
  BY <1>1 DEF TypeOK, One
<1>5. QED
  BY <1>2, <1>3, <1>4, QuietStep

\* A fault is within its bound.
LEMMA FaultFacts ==
  ASSUME TypeOK, Fault \/ RedisError \/ UNCHANGED faults PROVE faults' \in 0 .. MaxFaults
BY SdpConstantsOK DEF TypeOK, Fault, RedisError, SdpConstantsOK

\* The steps of getToken and of the answers keep the invariant.
LEMMA SendStep ==
  ASSUME SdpInv, NEW w \in Worker, GetToken(w) \/ Respond(w)
  PROVE  SdpInv'
<1>1. TypeOK /\ StageOK(w)
  BY DEF SdpInv
<1>2. /\ TokenAttempts \in Nat \ {0} /\ MaxPeriods \in Nat \ {0} /\ NoToken \in NoToken .. MaxPeriods
      /\ NoToken = 0
  BY SdpConstantsOK DEF SdpConstantsOK, NoToken
<1>3. CASE UseCached(w)
  <2>1. /\ pc[w] = "token" /\ pc' = [pc EXCEPT ![w] = "calling"]
        /\ token' = [token EXCEPT ![w] = cache]
        /\ UNCHANGED <<where, held, todo, chunk, single, alone, tries, result, sdp, history, env>>
    BY <1>3 DEF UseCached, Goto
  <2>2. TypeOK'
    BY <1>1, <2>1 DEF TypeOK, sdp, history, env
  <2>3. pc'[w] = "calling" /\ \A o \in Worker \ {w} : pc'[o] = pc[o]
    BY <1>1, <2>1 DEF TypeOK
  <2>4. QED
    BY <1>1, <2>1, <2>2, <2>3, CallStep DEF StageOK, history
<1>4. CASE CacheMiss(w)
  <2>1. /\ pc[w] = "token" /\ pc' = [pc EXCEPT ![w] = "fetching"]
        /\ UNCHANGED <<where, held, todo, call, result, sdp, history, ctxDone, cancels>>
    BY <1>4 DEF CacheMiss, Goto
  <2>2. faults' \in 0 .. MaxFaults
    BY <1>1, <1>4, FaultFacts DEF CacheMiss
  <2>3. TypeOK'
    BY <1>1, <2>1, <2>2 DEF TypeOK, call, sdp, history
  <2>4. pc'[w] = "fetching" /\ \A o \in Worker \ {w} : pc'[o] = pc[o]
    BY <1>1, <2>1 DEF TypeOK
  <2>5. QED
    BY <1>1, <2>1, <2>3, <2>4, CallStep DEF StageOK, call, history
<1>5. CASE FetchToken(w)
  <2>1. /\ pc[w] = "fetching" /\ pc' = [pc EXCEPT ![w] = "storing"]
        /\ token' = [token EXCEPT ![w] = period]
        /\ UNCHANGED <<where, held, todo, chunk, single, alone, tries, result, sdp, history, env>>
    BY <1>5 DEF FetchToken, Goto
  <2>2. period \in NoToken .. MaxPeriods
    BY <1>1, <1>2 DEF TypeOK
  <2>3. TypeOK'
    BY <1>1, <2>1, <2>2 DEF TypeOK, sdp, history, env
  <2>4. pc'[w] = "storing" /\ \A o \in Worker \ {w} : pc'[o] = pc[o]
    BY <1>1, <2>1 DEF TypeOK
  <2>5. QED
    BY <1>1, <2>1, <2>3, <2>4, CallStep DEF StageOK, history
<1>6. CASE StoreToken(w)
  <2>1. /\ pc[w] = "storing" /\ pc' = [pc EXCEPT ![w] = "calling"]
        /\ UNCHANGED <<where, held, todo, call, result, period, history, ctxDone, cancels>>
    BY <1>6 DEF StoreToken, Goto
  <2>2. faults' \in 0 .. MaxFaults /\ cache' \in NoToken .. MaxPeriods
    BY <1>1, <1>6, FaultFacts DEF StoreToken, TypeOK
  <2>3. TypeOK'
    BY <1>1, <2>1, <2>2 DEF TypeOK, call, history
  <2>4. pc'[w] = "calling" /\ \A o \in Worker \ {w} : pc'[o] = pc[o]
    BY <1>1, <2>1 DEF TypeOK
  <2>5. QED
    BY <1>1, <2>1, <2>3, <2>4, CallStep DEF StageOK, call, history
<1>7. CASE FetchAgain(w)
  <2>1. /\ pc[w] = "fetching" /\ tries[w] + 1 < TokenAttempts
        /\ tries' = [tries EXCEPT ![w] = @ + 1]
        /\ UNCHANGED <<where, held, pc, todo, chunk, single, alone, token, result, sdp,
                       history, env>>
    BY <1>7 DEF FetchAgain
  <2>2. tries[w] + 1 \in 0 .. TokenAttempts - 1
    BY <1>1, <1>2, <2>1 DEF TypeOK
  <2>3. TypeOK'
    BY <1>1, <2>1, <2>2 DEF TypeOK, sdp, history, env
  <2>4. QED
    BY <1>1, <2>1, <2>3, CallStep DEF StageOK, history
<1>8. CASE FetchGivesUp(w)
  BY <1>1, <1>8, EndCallStep DEF FetchGivesUp, TypeOK, sdp, history, env
<1>9. CASE Accept(w)
  BY <1>1, <1>9, EndCallStep DEF Accept, TypeOK, sdp, env
<1>10. ASSUME NEW taken \in BOOLEAN, Unavailable(w, taken) PROVE SdpInv'
  <2>1. /\ faults' \in 0 .. MaxFaults
        /\ accepted' = accepted \/ accepted' = Bump(accepted, chunk[w])
    BY <1>1, <1>10, FaultFacts DEF Unavailable, TakenUnheard
  <2>2. QED
    BY <1>1, <1>10, <2>1, EndCallStep DEF Unavailable, TypeOK, sdp
<1>11. CASE TokenExpired(w)
  <2>1. faults' \in 0 .. MaxFaults /\ cache' \in NoToken .. MaxPeriods
    BY <1>1, <1>2, <1>11, FaultFacts DEF TokenExpired, TypeOK
  <2>2. QED
    BY <1>11, <2>1, EndCallStep DEF TokenExpired, history
<1>12. CASE RejectChunk(w)
  <2>1. /\ pc[w] = "calling" /\ NextCall(w, chunk[w])
        /\ token' = [token EXCEPT ![w] = NoToken] /\ tries' = [tries EXCEPT ![w] = 0]
        /\ UNCHANGED <<where, held, todo, result, sdp, history, env>>
        /\ chunk[w] \in SUBSET (Msg \ Regular) /\ chunk[w] \subseteq todo[w]
    BY <1>1, <1>12 DEF RejectChunk, StageOK, TypeOK
  <2>2. /\ chunk' \in [Worker -> SUBSET (Msg \ Regular)]
        /\ alone' \in [Worker -> SUBSET (Msg \ Regular)]
        /\ single' \in [Worker -> BOOLEAN]
        /\ pc' \in [Worker -> {"idle", "sending", "token", "fetching", "storing",
                               "calling", "publishing", "stopped"}]
        /\ chunk'[w] \cup alone'[w] \subseteq chunk[w] /\ chunk'[w] \cap alone'[w] = {}
        /\ pc'[w] \in {"sending", "token"} /\ (pc'[w] = "sending" => alone'[w] = {})
        /\ \A o \in Worker \ {w} :
             pc'[o] = pc[o] /\ chunk'[o] = chunk[o] /\ alone'[o] = alone[o]
    BY <1>1, <2>1, NextCallFacts
  <2>3. 0 \in 0 .. TokenAttempts - 1
    BY <1>2
  <2>4. TypeOK'
    BY <1>1, <1>2, <2>1, <2>2, <2>3 DEF TypeOK, sdp, history, env
  <2>5. QED
    BY <2>1, <2>2, <2>4, CallStep DEF history
<1>13. CASE RejectMessage(w)
  BY <1>1, <1>13, EndCallStep DEF RejectMessage, TypeOK, sdp, history, env
<1>14. QED
  BY <1>3, <1>4, <1>5, <1>6, <1>7, <1>8, <1>9, <1>10, <1>11, <1>12, <1>13
  DEF GetToken, Respond

\* The steps from a batch to its results keep the invariant.
LEMMA ChunkStep ==
  ASSUME SdpInv, NEW w \in Worker,
         \/ \E c \in SUBSET todo[w] : StartChunk(w, c) \/ RefuseChunk(w, c)
         \/ \E m \in Regular :
              \/ \E r \in {"success", "retryable", "permanent"}, taken \in BOOLEAN :
                   SendRegular(w, m, r, taken)
              \/ \E sent \in BOOLEAN : Abandon(w, m, sent)
  PROVE  SdpInv'
<1>1. TypeOK /\ StageOK(w) /\ Regular \subseteq Msg
  BY SdpConstantsOK DEF SdpInv, SdpConstantsOK
<1>2. ASSUME NEW S \in SUBSET todo[w], pc[w] = "sending", todo'[w] = todo[w] \ S,
             UNCHANGED <<pc, held, alone>>
      PROVE  StageOK(w)'
  BY <1>1, <1>2 DEF StageOK
<1>3. ASSUME NEW c \in SUBSET todo[w], StartChunk(w, c) PROVE SdpInv'
  <2>1. /\ pc[w] = "sending" /\ chunk' = [chunk EXCEPT ![w] = c]
        /\ pc' = [pc EXCEPT ![w] = "token"] /\ c \subseteq Msg \ Regular /\ alone[w] = {}
        /\ UNCHANGED <<where, held, todo, single, alone, token, tries, result, sdp, history, env>>
    BY <1>1, <1>3 DEF StartChunk, IsChunk, Goto, StageOK, TypeOK
  <2>2. TypeOK'
    BY <1>1, <2>1 DEF TypeOK, sdp, history, env
  <2>3. /\ pc'[w] = "token" /\ chunk'[w] = c
        /\ \A o \in Worker \ {w} : pc'[o] = pc[o] /\ chunk'[o] = chunk[o]
    BY <1>1, <2>1 DEF TypeOK
  <2>4. QED
    BY <2>1, <2>2, <2>3, CallStep DEF history
<1>4. ASSUME NEW c \in SUBSET todo[w], RefuseChunk(w, c) PROVE SdpInv'
  <2>1. /\ pc[w] = "sending" /\ Resolve(w, c, "retryable")
        /\ UNCHANGED <<where, held, pc, chunk, single, alone, sdp, history, env>>
    BY <1>4 DEF RefuseChunk
  <2>2. /\ result' \in [Worker -> [Msg -> {"none", "success", "retryable", "permanent"}]]
        /\ todo' \in [Worker -> SUBSET Msg]
        /\ token' \in [Worker -> NoToken .. MaxPeriods]
        /\ tries' \in [Worker -> 0 .. TokenAttempts - 1]
        /\ todo'[w] = todo[w] \ c
    BY <1>1, <2>1, ResolveFacts
  <2>3. TypeOK'
    BY <1>1, <2>1, <2>2 DEF TypeOK, sdp, history, env
  <2>4. StageOK(w)'
    BY <1>2, <2>1, <2>2
  <2>5. QED
    BY <2>1, <2>3, <2>4, ResolveStep DEF history
<1>5. ASSUME NEW m \in Regular, NEW r \in {"success", "retryable", "permanent"},
             NEW taken \in BOOLEAN, SendRegular(w, m, r, taken)
      PROVE  SdpInv'
  <2>1. /\ pc[w] = "sending" /\ {m} \in SUBSET todo[w] /\ Resolve(w, {m}, r)
        /\ accepted' = accepted \/ accepted' = Bump(accepted, {m})
        /\ UNCHANGED <<where, held, pc, chunk, single, alone, sdp, handed, returned,
                       abandoned, ctxDone, cancels>>
        /\ Fault \/ UNCHANGED faults
    BY <1>5 DEF SendRegular, TakenUnheard
  <2>2. /\ result' \in [Worker -> [Msg -> {"none", "success", "retryable", "permanent"}]]
        /\ todo' \in [Worker -> SUBSET Msg]
        /\ token' \in [Worker -> NoToken .. MaxPeriods]
        /\ tries' \in [Worker -> 0 .. TokenAttempts - 1]
        /\ todo'[w] = todo[w] \ {m}
    BY <1>1, <2>1, ResolveFacts
  <2>3. accepted' \in [Msg -> Nat] /\ faults' \in 0 .. MaxFaults
    <3>1. faults' \in 0 .. MaxFaults
      BY <1>1, <2>1, FaultFacts
    <3>2. QED
      BY <1>1, <2>1, <3>1 DEF TypeOK, Bump
  <2>4. TypeOK'
    BY <1>1, <2>1, <2>2, <2>3 DEF TypeOK, sdp
  <2>5. StageOK(w)'
    BY <1>2, <2>1, <2>2
  <2>6. QED
    BY <1>5, <2>1, <2>4, <2>5, ResolveStep
<1>6. ASSUME NEW m \in Regular, NEW sent \in BOOLEAN, Abandon(w, m, sent) PROVE SdpInv'
  <2>1. /\ pc[w] = "sending" /\ {m} \in SUBSET todo[w] /\ Resolve(w, {m}, "none")
        /\ accepted' = IF sent THEN Bump(accepted, {m}) ELSE accepted
        /\ abandoned' = abandoned \cup {m}
        /\ UNCHANGED <<where, held, pc, chunk, single, alone, sdp, handed, returned, env>>
    BY <1>6 DEF Abandon
  <2>2. /\ result' \in [Worker -> [Msg -> {"none", "success", "retryable", "permanent"}]]
        /\ todo' \in [Worker -> SUBSET Msg]
        /\ token' \in [Worker -> NoToken .. MaxPeriods]
        /\ tries' \in [Worker -> 0 .. TokenAttempts - 1]
        /\ todo'[w] = todo[w] \ {m}
    BY <1>1, <2>1, ResolveFacts
  <2>3. accepted' \in [Msg -> Nat] /\ (accepted' = accepted \/ accepted' = Bump(accepted, {m}))
    BY <1>1, <2>1 DEF TypeOK, Bump
  <2>4. TypeOK'
    BY <1>1, <2>1, <2>2, <2>3 DEF TypeOK, sdp, env
  <2>5. StageOK(w)'
    BY <1>2, <2>1, <2>2
  <2>6. QED
    BY <2>1, <2>3, <2>4, <2>5, ResolveStep
<1>7. QED
  BY <1>3, <1>4, <1>5, <1>6

\* All messages have results: those are published, or the deliveries returned.
LEMMA PublishStep ==
  ASSUME SdpInv, NEW w \in Worker, ProcessingDone(w) \/ Publish(w) \/ PublishError(w)
  PROVE  SdpInv'
<1>1. TypeOK /\ StageOK(w) /\ HeldKept(w) /\ HeldKnown(w) /\ RefusedFail(w)
  BY DEF SdpInv
<1>2. CASE ProcessingDone(w)
  <2>1. /\ pc[w] = "sending" /\ todo[w] = {} /\ pc' = [pc EXCEPT ![w] = "publishing"]
        /\ UNCHANGED <<where, held, todo, call, result, sdp, history, env>>
    BY <1>2 DEF ProcessingDone, Goto
  <2>2. TypeOK'
    BY <1>1, <2>1 DEF TypeOK, call, sdp, history, env
  <2>3. pc'[w] = "publishing" /\ \A o \in Worker \ {w} : pc'[o] = pc[o]
    BY <1>1, <2>1 DEF TypeOK
  <2>4. StageOK(w)' /\ HeldKept(w)' /\ RefusedFail(w)'
    BY <1>1, <2>1, <2>3 DEF StageOK, HeldKept, RefusedFail, call, history
  <2>5. \A m \in Msg : accepted'[m] + One(m \in todo'[w]) <= accepted[m] + One(m \in todo[w])
    BY <1>1, <2>1 DEF TypeOK, One, history
  <2>6. QED
    BY <2>1, <2>2, <2>3, <2>4, <2>5, QuietStep DEF call, history
<1>3. CASE Publish(w)
  <2>1. PICK S \in SUBSET Msg :
        /\ pc[w] = "publishing" /\ handed' = handed \cup S
        /\ result' = [result EXCEPT ![w] = [m \in Msg |-> IF m \in S THEN "none"
                                                          ELSE result[w][m]]]
        /\ UNCHANGED <<where, held, pc, todo, call, sdp, accepted, returned, abandoned, env>>
    BY <1>3 DEF Publish
  <2>2. [m \in Msg |-> IF m \in S THEN "none" ELSE result[w][m]]
          \in [Msg -> {"none", "success", "retryable", "permanent"}]
    BY <1>1 DEF TypeOK
  <2>3. /\ result' \in [Worker -> [Msg -> {"none", "success", "retryable", "permanent"}]]
        /\ \A m \in Msg : result'[w][m] = IF m \in S THEN "none" ELSE result[w][m]
        /\ \A o \in Worker \ {w} : result'[o] = result[o]
    BY <1>1, <2>1, <2>2 DEF TypeOK
  <2>4. TypeOK'
    BY <1>1, <2>1, <2>3 DEF TypeOK, call, sdp, env
  <2>5. StageOK(w)' /\ RefusedFail(w)'
    BY <1>1, <2>1, <2>3 DEF StageOK, RefusedFail, call
  <2>6. HeldKept(w)'
    <3>1. \A d \in held[w] : Batch[d] \subseteq Msg
      BY <1>1, SdpConstantsOK DEF TypeOK, SdpConstantsOK
    <3>2. QED
      BY <1>1, <2>1, <2>3, <3>1 DEF HeldKept
  <2>7. \A m \in Msg : accepted'[m] + One(m \in todo'[w]) <= accepted[m] + One(m \in todo[w])
    BY <1>1, <2>1 DEF TypeOK, One
  <2>8. QED
    BY <2>1, <2>3, <2>4, <2>5, <2>6, <2>7, QuietStep DEF call
<1>4. CASE PublishError(w)
  <2> DEFINE H == {d \in held[w] : where[d] = w}
  <2>1. /\ pc[w] = "publishing" /\ Fault /\ Requeue(H) /\ todo[w] = {} /\ alone[w] = {}
        /\ held' = [held EXCEPT ![w] = {}] /\ result' = [result EXCEPT ![w] = NoResult]
        /\ pc' = [pc EXCEPT ![w] = "idle"]
        /\ UNCHANGED <<todo, call, sdp, accepted, handed, abandoned, ctxDone, cancels>>
    BY <1>1, <1>4 DEF PublishError, Goto, StageOK
  <2>2. H \in SUBSET Delivery /\ \A d \in H : where[d] # "ready"
    BY <1>1, SdpConstantsOK DEF TypeOK, SdpConstantsOK
  <2>3. /\ where' \in [Delivery -> {"absent", "ready", "gone"} \cup Worker]
        /\ returned' \in [Msg -> Nat]
        /\ \A d \in Delivery : where'[d] = "gone" => where[d] = "gone"
        /\ \A m \in Msg : HandOut(m)' = HandOut(m)
    BY <1>1, <2>1, <2>2, RequeuePays
  <2>4. \A d \in Delivery : where'[d] = IF d \in H THEN "ready" ELSE where[d]
    BY <2>1 DEF Requeue
  <2>5. faults' \in 0 .. MaxFaults
    BY <1>1, <2>1, FaultFacts
  <2>6. NoResult \in [Msg -> {"none", "success", "retryable", "permanent"}]
    BY DEF NoResult
  <2>7. result' \in [Worker -> [Msg -> {"none", "success", "retryable", "permanent"}]]
    BY <1>1, <2>1, <2>6 DEF TypeOK
  <2>8. TypeOK'
    BY <1>1, <2>1, <2>3, <2>5, <2>7 DEF TypeOK, call, sdp
  <2>9. /\ pc'[w] = "idle" /\ held'[w] = {} /\ result'[w] = NoResult
        /\ \A o \in Worker \ {w} :
             pc'[o] = pc[o] /\ held'[o] = held[o] /\ result'[o] = result[o]
    BY <1>1, <2>1 DEF TypeOK
  <2>10. StageOK(w)' /\ HeldKept(w)'
    BY <2>1, <2>9 DEF StageOK, HeldKept, call
  <2>11. RefusedFail(w)'
    BY <2>9 DEF RefusedFail, NoResult
  <2>12. HeldKnown(w)' /\ \A d \in Delivery : where'[d] \in Worker \ {w} => where[d] = where'[d]
    BY <1>1, <2>4, SdpConstantsOK DEF HeldKnown, SdpConstantsOK
  <2>13. \A m \in Msg : accepted'[m] + One(m \in todo'[w]) + HandOut(m)
                          <= accepted[m] + One(m \in todo[w]) + HandOut(m)'
    BY <1>1, <2>1, <2>3, HandOutNat DEF One, TypeOK
  <2>14. QED
    BY <2>1, <2>3, <2>8, <2>9, <2>10, <2>11, <2>12, <2>13, WorkerStep DEF call
<1>5. QED
  BY <1>2, <1>3, <1>4

\* A delivery is acknowledged once everything in it was handed over.
LEMMA AckStep ==
  ASSUME SdpInv, NEW w \in Worker, NEW d \in Delivery, Ack(w, d) PROVE SdpInv'
<1>1. TypeOK /\ StageOK(w) /\ HeldKept(w) /\ HeldKnown(w) /\ RefusedFail(w)
  BY DEF SdpInv
<1>2. /\ Batch[d] \subseteq Msg /\ "gone" \notin Worker /\ "ready" \notin Worker
  BY SdpConstantsOK DEF SdpConstantsOK
<1>3. /\ pc[w] = "publishing" /\ result[w] = NoResult /\ d \in held[w]
      /\ where' = IF where[d] = w THEN [where EXCEPT ![d] = "gone"] ELSE where
      /\ held' = [held EXCEPT ![w] = @ \ {d}] /\ todo[w] = {} /\ alone[w] = {}
      /\ pc' = [pc EXCEPT ![w] = IF held[w] = {d} THEN "idle" ELSE "publishing"]
      /\ UNCHANGED <<todo, call, result, sdp, history, env>>
  BY <1>1 DEF Ack, Goto, StageOK
<1>4. TypeOK'
  BY <1>1, <1>3 DEF TypeOK, call, sdp, history, env
<1>5. /\ pc'[w] = (IF held[w] = {d} THEN "idle" ELSE "publishing") /\ held'[w] = held[w] \ {d}
      /\ \A o \in Worker \ {w} : pc'[o] = pc[o] /\ held'[o] = held[o]
      /\ where'[d] = IF where[d] = w THEN "gone" ELSE where[d]
      /\ \A e \in Delivery \ {d} : where'[e] = where[e]
  BY <1>1, <1>3 DEF TypeOK
<1>6. StageOK(w)' /\ HeldKept(w)' /\ RefusedFail(w)'
  BY <1>1, <1>3, <1>5 DEF StageOK, HeldKept, RefusedFail, call, history
<1>7. HeldKnown(w)' /\ \A e \in Delivery : where'[e] \in Worker \ {w} => where[e] = where'[e]
  BY <1>1, <1>2, <1>5 DEF HeldKnown
<1>8. Batch[d] \subseteq handed \cup abandoned
  <2>1. \A m \in Msg : result[w][m] = "none"
    BY <1>3 DEF NoResult
  <2>2. QED
    BY <1>1, <1>2, <1>3, <2>1 DEF HeldKept
<1>9. \A e \in Delivery : where'[e] # "ready" <=> where[e] # "ready"
  BY <1>2, <1>5
<1>10. \A m \in Msg : accepted'[m] + One(m \in todo'[w]) + HandOut(m)
                         <= accepted[m] + One(m \in todo[w]) + HandOut(m)'
  <2>1. \A m \in Msg : HandOut(m)' = HandOut(m) /\ HandOut(m) \in Nat
    BY <1>1, <1>3, <1>9, HandOutNat DEF HandOut, Taken, history
  <2>2. QED
    BY <1>1, <1>3, <2>1 DEF One, TypeOK, history
<1>11. QED
  BY <1>3, <1>4, <1>5, <1>6, <1>7, <1>8, <1>10, WorkerStep DEF call, history

\* Deliveries are handed out to an idle worker: each of their messages may be
\* accepted once.
LEMMA AccumulateStep ==
  ASSUME SdpInv, NEW w \in Worker, NEW D \in SUBSET Delivery, Accumulate(w, D)
  PROVE  SdpInv'
<1>1. TypeOK /\ StageOK(w) /\ HeldKnown(w) /\ RefusedFail(w)
  BY DEF SdpInv
<1>2. /\ \A d \in Delivery : Batch[d] \subseteq Msg
      /\ \A d, e \in Delivery : d # e => Batch[d] \cap Batch[e] = {}
      /\ "gone" \notin Worker /\ "ready" \notin Worker
  BY SdpConstantsOK DEF SdpConstantsOK
<1>3. /\ pc[w] = "idle" /\ held[w] = {} /\ todo[w] = {} /\ alone[w] = {}
      /\ \A d \in D : where[d] = "ready"
      /\ where' = [d \in Delivery |-> IF d \in D THEN w ELSE where[d]]
      /\ held' = [held EXCEPT ![w] = D] /\ todo' = [todo EXCEPT ![w] = Messages(D)]
      /\ pc' = [pc EXCEPT ![w] = IF Messages(D) = {} THEN "stopped" ELSE "sending"]
      /\ UNCHANGED <<call, result, sdp, history, env>>
  BY <1>1 DEF Accumulate, Goto, StageOK
<1>4. /\ Messages(D) \subseteq Msg
      /\ \A m : m \in Messages(D) <=> \E d \in D : m \in Batch[d]
  BY <1>2 DEF Messages
<1> HIDE DEF Messages
<1>5. TypeOK'
  BY <1>1, <1>3, <1>4 DEF TypeOK, call, sdp, history, env
<1>6. /\ pc'[w] = (IF Messages(D) = {} THEN "stopped" ELSE "sending")
      /\ held'[w] = D /\ todo'[w] = Messages(D)
      /\ \A o \in Worker \ {w} : pc'[o] = pc[o] /\ held'[o] = held[o] /\ todo'[o] = todo[o]
      /\ \A d \in Delivery : where'[d] = IF d \in D THEN w ELSE where[d]
  BY <1>1, <1>3 DEF TypeOK
<1>7. StageOK(w)'
  BY <1>3, <1>4, <1>6 DEF StageOK, call
<1>8. HeldKept(w)'
  BY <1>4, <1>6 DEF HeldKept
<1>9. RefusedFail(w)'
  BY <1>1, <1>3 DEF RefusedFail
<1>10. HeldKnown(w)' /\ \A d \in Delivery : where'[d] \in Worker \ {w} => where[d] = where'[d]
  BY <1>1, <1>3, <1>6 DEF HeldKnown
<1>11. ASSUME NEW m \in Msg
       PROVE  accepted'[m] + One(m \in todo'[w]) + HandOut(m)
                <= accepted[m] + One(m \in todo[w]) + HandOut(m)'
  <2>1. /\ accepted' = accepted /\ returned' = returned
        /\ accepted[m] \in Nat /\ returned[m] \in Nat
    BY <1>1, <1>3 DEF history, TypeOK
  <2>2. Taken(m)' <=> Taken(m) \/ m \in Messages(D)
    BY <1>2, <1>4, <1>6 DEF Taken
  <2>3. m \in Messages(D) => ~Taken(m)
    BY <1>2, <1>3, <1>4 DEF Taken
  <2>4. m \notin todo[w] /\ (m \in todo'[w] <=> m \in Messages(D))
    BY <1>3, <1>6
  <2>5. QED
    BY <2>1, <2>2, <2>3, <2>4 DEF One, HandOut
<1>12. \A d \in Delivery : where'[d] = "gone" => where[d] = "gone"
  BY <1>2, <1>6
<1>13. QED
  BY <1>3, <1>5, <1>6, <1>7, <1>8, <1>9, <1>10, <1>11, <1>12, WorkerStep DEF call, history

\* An idle worker returns; it holds nothing.
LEMMA StopWorkerStep ==
  ASSUME SdpInv, NEW w \in Worker, StopWorker(w) PROVE SdpInv'
<1>1. TypeOK /\ StageOK(w) /\ HeldKnown(w) /\ RefusedFail(w)
  BY DEF SdpInv
<1>2. /\ pc[w] = "idle" /\ pc' = [pc EXCEPT ![w] = "stopped"]
      /\ UNCHANGED <<where, held, todo, call, result, sdp, history, env>>
  BY DEF StopWorker, Goto
<1>3. TypeOK'
  BY <1>1, <1>2 DEF TypeOK, call, sdp, history, env
<1>4. pc'[w] = "stopped" /\ \A o \in Worker \ {w} : pc'[o] = pc[o]
  BY <1>1, <1>2 DEF TypeOK
<1>5. StageOK(w)' /\ HeldKept(w)' /\ RefusedFail(w)'
  BY <1>1, <1>2, <1>4 DEF StageOK, HeldKept, RefusedFail, call
<1>6. \A m \in Msg : accepted'[m] + One(m \in todo'[w]) <= accepted[m] + One(m \in todo[w])
  BY <1>1, <1>2 DEF TypeOK, One, history
<1>7. QED
  BY <1>2, <1>3, <1>4, <1>5, <1>6, QuietStep DEF call, history

\* A step outside the workers leaves their tasks alone, or clears them all, and
\* returns deliveries at most.
LEMMA BrokerStep ==
  ASSUME SdpInv, TypeOK', UNCHANGED <<accepted, handed, abandoned>>,
         \A d \in Delivery : where'[d] = "gone" => where[d] = "gone",
         \A m \in Msg : HandOut(m)' = HandOut(m),
         \/ UNCHANGED task /\ \A d \in Delivery : where'[d] \in Worker => where'[d] = where[d]
         \/ /\ held' = [w \in Worker |-> {}] /\ pc' = [w \in Worker |-> "idle"]
            /\ todo' = [w \in Worker |-> {}] /\ alone' = [w \in Worker |-> {}]
            /\ result' = [w \in Worker |-> NoResult]
            /\ \A d \in Delivery : where'[d] \notin Worker
  PROVE  SdpInv'
<1>1. TypeOK /\ SendsPaid /\ AckedIsHandedOver
      /\ \A w \in Worker : StageOK(w) /\ HeldKept(w) /\ HeldKnown(w) /\ RefusedFail(w)
  BY DEF SdpInv
<1>2. AckedIsHandedOver'
  BY <1>1 DEF AckedIsHandedOver
<1>3. CASE UNCHANGED task /\ \A d \in Delivery : where'[d] \in Worker => where'[d] = where[d]
  <2>1. ASSUME NEW w \in Worker
        PROVE  StageOK(w)' /\ HeldKept(w)' /\ HeldKnown(w)' /\ RefusedFail(w)'
    BY <1>1, <1>3 DEF StageOK, HeldKept, HeldKnown, RefusedFail, task
  <2>2. \A m \in Msg : Senders(m)' = Senders(m)
    BY <1>3 DEF Senders, task
  <2>3. SendsPaid'
    BY <1>1, <2>2 DEF SendsPaid
  <2>4. QED
    BY <1>2, <2>1, <2>3 DEF SdpInv
<1>4. CASE /\ held' = [w \in Worker |-> {}] /\ pc' = [w \in Worker |-> "idle"]
           /\ todo' = [w \in Worker |-> {}] /\ alone' = [w \in Worker |-> {}]
           /\ result' = [w \in Worker |-> NoResult]
           /\ \A d \in Delivery : where'[d] \notin Worker
  <2>1. ASSUME NEW w \in Worker
        PROVE  StageOK(w)' /\ HeldKept(w)' /\ HeldKnown(w)' /\ RefusedFail(w)'
    BY <1>4, <2>1 DEF StageOK, HeldKept, HeldKnown, RefusedFail, NoResult
  <2>2. ASSUME NEW m \in Msg PROVE accepted'[m] + Cardinality(Senders(m)') <= HandOut(m)'
    <3>1. Senders(m)' = {}
      BY <1>4 DEF Senders
    <3>2. Cardinality(Senders(m)') = 0
      BY <3>1, FS_EmptySet
    <3>3. /\ Cardinality(Senders(m)) \in Nat /\ accepted[m] \in Nat /\ HandOut(m) \in Nat
          /\ accepted[m] + Cardinality(Senders(m)) <= HandOut(m)
      BY <1>1, CountsFinite, HandOutNat DEF TypeOK, SendsPaid
    <3> HIDE DEF Senders
    <3>4. QED
      BY <3>2, <3>3
  <2>3. SendsPaid'
    BY <2>2 DEF SendsPaid
  <2>4. QED
    BY <1>2, <2>1, <2>3 DEF SdpInv
<1>5. QED
  BY <1>3, <1>4

\* The broker takes back every delivery that is out.
LEMMA ReturnUnacked ==
  ASSUME SdpInv, Requeue(Unacked)
  PROVE  /\ where' \in [Delivery -> {"absent", "ready", "gone"} \cup Worker]
         /\ returned' \in [Msg -> Nat]
         /\ \A d \in Delivery : where'[d] = "gone" => where[d] = "gone"
         /\ \A d \in Delivery : where'[d] \notin Worker
         /\ \A m \in Msg : HandOut(m)' = HandOut(m)
<1>1. Unacked \in SUBSET Delivery /\ (\A d \in Unacked : where[d] # "ready")
      /\ "ready" \notin Worker
  BY SdpConstantsOK DEF Unacked, SdpConstantsOK
<1>2. \A d \in Delivery : where'[d] \notin Worker
  BY <1>1 DEF Requeue, Unacked
<1>3. QED
  BY <1>1, <1>2, RequeuePays DEF SdpInv

\* The process ends and starts again.
LEMMA RestartStep ==
  ASSUME SdpInv, Restart, faults' \in 0 .. MaxFaults PROVE SdpInv'
<1>1. TypeOK
  BY DEF SdpInv
<1>2. /\ Requeue(Unacked)
      /\ held' = [w \in Worker |-> {}] /\ pc' = [w \in Worker |-> "idle"]
      /\ todo' = [w \in Worker |-> {}]
      /\ chunk' = [w \in Worker |-> {}] /\ alone' = [w \in Worker |-> {}]
      /\ single' = [w \in Worker |-> FALSE]
      /\ token' = [w \in Worker |-> NoToken] /\ tries' = [w \in Worker |-> 0]
      /\ result' = [w \in Worker |-> NoResult] /\ ctxDone' = FALSE
      /\ UNCHANGED <<cache, period, accepted, handed, abandoned, cancels>>
  BY DEF Restart, sdp
<1>3. /\ where' \in [Delivery -> {"absent", "ready", "gone"} \cup Worker]
      /\ returned' \in [Msg -> Nat]
      /\ \A d \in Delivery : where'[d] = "gone" => where[d] = "gone"
      /\ \A d \in Delivery : where'[d] \notin Worker
      /\ \A m \in Msg : HandOut(m)' = HandOut(m)
  BY <1>2, ReturnUnacked
<1>4. NoToken \in NoToken .. MaxPeriods /\ 0 \in 0 .. TokenAttempts - 1
  BY SdpConstantsOK DEF SdpConstantsOK, NoToken
<1>5. single' \in [Worker -> BOOLEAN] /\ ctxDone' \in BOOLEAN
  BY <1>2
<1>6. NoResult \in [Msg -> {"none", "success", "retryable", "permanent"}]
  BY DEF NoResult
<1>7. result' \in [Worker -> [Msg -> {"none", "success", "retryable", "permanent"}]]
  BY <1>2, <1>6
<1>8. TypeOK'
  BY <1>1, <1>2, <1>3, <1>4, <1>5, <1>7 DEF TypeOK
<1>9. QED
  BY <1>2, <1>3, <1>8, BrokerStep

\* Nothing has been handed out at first.
LEMMA InitInv == Init => SdpInv
<1> SUFFICES ASSUME Init PROVE SdpInv
  OBVIOUS
<1>1. TypeOK
  <2>1. single \in [Worker -> BOOLEAN] /\ ctxDone \in BOOLEAN
    BY DEF Init
  <2>2. /\ 0 \in Nat /\ 0 \in 0 .. MaxFaults /\ 1 \in 1 .. MaxPeriods
        /\ NoToken \in NoToken .. MaxPeriods /\ 0 \in 0 .. TokenAttempts - 1
    BY SdpConstantsOK DEF SdpConstantsOK, NoToken
  <2>3. NoResult \in [Msg -> {"none", "success", "retryable", "permanent"}]
    BY DEF NoResult
  <2>4. QED
    BY <2>1, <2>2, <2>3 DEF Init, TypeOK
<1>2. ASSUME NEW m \in Msg PROVE accepted[m] + Cardinality(Senders(m)) <= HandOut(m)
  <2>1. Senders(m) = {} /\ HandOut(m) \in Nat /\ accepted[m] = 0
    BY <1>1, HandOutNat DEF Init, Senders
  <2>2. Cardinality(Senders(m)) = 0
    BY <2>1, FS_EmptySet
  <2> HIDE DEF Senders
  <2>3. QED
    BY <2>1, <2>2
<1>3. SendsPaid
  BY <1>2 DEF SendsPaid
<1>4. AckedIsHandedOver
  BY DEF Init, AckedIsHandedOver
<1>5. \A w \in Worker : StageOK(w) /\ HeldKept(w) /\ HeldKnown(w) /\ RefusedFail(w)
  BY SdpConstantsOK DEF Init, StageOK, HeldKept, HeldKnown, RefusedFail, NoResult,
                        SdpConstantsOK
<1>6. QED
  BY <1>1, <1>3, <1>4, <1>5 DEF SdpInv

-----------------------------------------------------------------------------
\* The inductive invariant: types, what each worker holds and knows of, and the
\* account of acceptances.
THEOREM SdpInvariant == Safety => []SdpInv
<1>1. ASSUME SdpInv, [Next]_vars PROVE SdpInv'
  <2>1. TypeOK /\ MaxFaults \in Nat /\ MaxPeriods \in Nat \ {0}
    BY <1>1, SdpConstantsOK DEF SdpInv, SdpConstantsOK
  <2>2. ASSUME NEW w \in Worker, Process(w) PROVE SdpInv'
    BY <1>1, <2>2, ChunkStep, SendStep, PublishStep, AckStep DEF Process
  <2>3. CASE NewPeriod
    <3>1. period < MaxPeriods /\ period' = period + 1
          /\ UNCHANGED <<where, task, cache, history, env>>
      BY <2>3 DEF NewPeriod
    <3>2. TypeOK'
      BY <2>1, <3>1 DEF TypeOK, task, history, env
    <3>3. \A m \in Msg : HandOut(m)' = HandOut(m)
      BY <3>1 DEF HandOut, Taken, history
    <3>4. QED
      BY <1>1, <3>1, <3>2, <3>3, BrokerStep DEF history
  <2>4. CASE TokenTTL
    <3>1. cache' = NoToken /\ UNCHANGED <<where, task, period, history, env>>
      BY <2>4 DEF TokenTTL
    <3>2. cache' \in NoToken .. MaxPeriods
      BY <2>1, <3>1 DEF NoToken
    <3>3. TypeOK'
      BY <2>1, <3>1, <3>2 DEF TypeOK, task, history, env
    <3>4. \A m \in Msg : HandOut(m)' = HandOut(m)
      BY <3>1 DEF HandOut, Taken, history
    <3>5. QED
      BY <1>1, <3>1, <3>3, <3>4, BrokerStep DEF history
  <2>5. CASE ConnectionLost
    <3>1. /\ Fault /\ Requeue(Unacked)
          /\ UNCHANGED <<task, sdp, accepted, handed, abandoned, ctxDone, cancels>>
      BY <2>5 DEF ConnectionLost
    <3>2. /\ where' \in [Delivery -> {"absent", "ready", "gone"} \cup Worker]
          /\ returned' \in [Msg -> Nat]
          /\ \A d \in Delivery : where'[d] = "gone" => where[d] = "gone"
          /\ \A d \in Delivery : where'[d] \notin Worker
          /\ \A m \in Msg : HandOut(m)' = HandOut(m)
      BY <1>1, <3>1, ReturnUnacked
    <3>3. faults' \in 0 .. MaxFaults
      BY <2>1, <3>1, FaultFacts
    <3>4. TypeOK'
      BY <2>1, <3>1, <3>2, <3>3 DEF TypeOK, task, sdp
    <3>5. QED
      BY <1>1, <3>1, <3>2, <3>4, BrokerStep
  <2>6. CASE Crash
    <3>1. Restart /\ faults' \in 0 .. MaxFaults
      BY <2>1, <2>6, FaultFacts DEF Crash
    <3>2. QED
      BY <1>1, <3>1, RestartStep
  <2>7. CASE Cancel
    <3>1. /\ faults + cancels < MaxFaults /\ cancels' = cancels + 1 /\ ctxDone' = TRUE
          /\ UNCHANGED <<where, task, sdp, history, faults>>
      BY <2>7 DEF Cancel
    <3>2. ctxDone' \in BOOLEAN
      BY <3>1
    <3>3. cancels' \in 0 .. MaxFaults
      BY <2>1, <3>1 DEF TypeOK
    <3>4. TypeOK'
      BY <2>1, <3>1, <3>2, <3>3 DEF TypeOK, task, sdp, history
    <3>5. \A m \in Msg : HandOut(m)' = HandOut(m)
      BY <3>1 DEF HandOut, Taken, history
    <3>6. QED
      BY <1>1, <3>1, <3>4, <3>5, BrokerStep DEF history
  <2>8. CASE Exit
    <3>1. Restart /\ faults' \in 0 .. MaxFaults
      BY <2>1, <2>8, FaultFacts DEF Exit
    <3>2. QED
      BY <1>1, <3>1, RestartStep
  <2>9. CASE UNCHANGED vars
    <3>1. TypeOK'
      BY <2>1, <2>9 DEF vars, TypeOK
    <3>2. \A m \in Msg : HandOut(m)' = HandOut(m)
      BY <2>9 DEF vars, HandOut, Taken
    <3>3. UNCHANGED <<accepted, handed, abandoned, where>> /\ UNCHANGED task
      BY <2>9 DEF vars, task
    <3>4. QED
      BY <1>1, <3>1, <3>2, <3>3, BrokerStep
  <2>10. QED
    BY <1>1, <2>2, <2>3, <2>4, <2>5, <2>6, <2>7, <2>8, <2>9, AccumulateStep, StopWorkerStep
    DEF Next
<1>2. QED
  BY <1>1, InitInv, PTL DEF Safety

\* An acceptance beyond the first is paid for by a return of the delivery, whatever
\* chunks, single sends and expired tokens do.
THEOREM SendsStayPaid == Safety => []SendsAreRedeliveries
<1>1. SdpInv => SendsAreRedeliveries
  <2>1. SUFFICES ASSUME SdpInv, NEW m \in Msg PROVE accepted[m] <= 1 + returned[m]
    BY DEF SendsAreRedeliveries
  <2>2. /\ TypeOK /\ accepted[m] + Cardinality(Senders(m)) <= HandOut(m)
        /\ accepted[m] \in Nat /\ returned[m] \in Nat
    BY <2>1 DEF SdpInv, SendsPaid, TypeOK
  <2>3. Cardinality(Senders(m)) \in Nat /\ HandOut(m) \in Nat /\ HandOut(m) <= 1 + returned[m]
    BY <2>2, CountsFinite, HandOutNat
  <2> HIDE DEF Senders, HandOut
  <2>4. QED
    BY <2>2, <2>3
<1>2. QED
  BY <1>1, SdpInvariant, PTL

\* Every delivery of a batch leaves the queue with all its messages handed over, or
\* given up during a shutdown.
THEOREM AckedAreHandedOver == Safety => []AckedIsHandedOver
BY SdpInvariant, PTL DEF SdpInv

\* An SDP message fails for good only if the API refuses that message itself.
THEOREM OnlyRefusedAreFailed == Safety => []OnlyRefusedFail
<1>1. SdpInv => OnlyRefusedFail
  BY DEF SdpInv, RefusedFail, OnlyRefusedFail
<1>2. QED
  BY <1>1, SdpInvariant, PTL

\* A worker that has returned keeps no message from the others.
THEOREM StoppedWorkersKeepNothing == Safety => []StoppedKeepNothing
<1>1. SdpInv => StoppedKeepNothing
  BY DEF SdpInv, StageOK, HeldKnown, StoppedKeepNothing, Messages
<1>2. QED
  BY <1>1, SdpInvariant, PTL

=============================================================================
