------------------------ MODULE PriorityRoutingProofs ------------------------
(***************************************************************************)
(* Proofs about PriorityRouting for any deliveries, goroutines, faults and *)
(* shutdowns.                                                              *)
(***************************************************************************)
EXTENDS PriorityRouting, FiniteSetTheorems, TLAPS

\* What goroutine c holds at each point of RouteDelivery.
StageOK(c) ==
  /\ pc[c] = "idle" <=> job[c] = NoDelivery
  /\ pc[c] \in {"idle", "credit", "close"} => todo[c] = {} /\ out[c] = {}
  /\ pc[c] = "transactional" => todo[c] \cup out[c] \subseteq Transactional
  /\ pc[c] = "promotional" => todo[c] \cup out[c] \subseteq Msg \ Transactional
  /\ failed[c] => pc[c] = "close"

Heard(m) == handed[m] > 0 \/ m \in swallowed \cup abandoned

\* No half is forgotten on the way to the ack: a message of the delivery in work
\* was handed over (or swallowed, or abandoned), has no published result yet, or
\* its half has not begun.
HalvesKept(c) ==
  pc[c] # "idle" /\ ~failed[c] =>
    \A m \in Batch[job[c]] :
      \/ Heard(m) \/ m \in todo[c] \cup out[c]
      \/ m \notin Transactional /\ pc[c] \in {"transactional", "credit"}

\* c may still send m in the delivery it works on.
MaySend(c, m) ==
  \/ m \in todo[c]
  \/ pc[c] \in {"transactional", "credit"} /\ m \in Batch[job[c]] \ Transactional

Sending(c, m) == IF MaySend(c, m) THEN 1 ELSE 0
Senders(m)    == {c \in Consumer : MaySend(c, m)}

\* m's delivery is not in the queue, but with a goroutine or gone.
Taken(m)   == \E d \in Delivery : m \in Batch[d] /\ where[d] # "ready"
HandOut(m) == returned[m] + (IF Taken(m) THEN 1 ELSE 0)

\* Every send of m, made or still possible, belongs to a different hand-out of its
\* delivery: the present one or one that ended in a return.
SendsPaid == \A m \in Msg : accepted[m] + Cardinality(Senders(m)) <= HandOut(m)

RoutingInv ==
  /\ TypeOK /\ SendsPaid /\ AckedIsHandedOver
  /\ \A c \in Consumer : StageOK(c) /\ HalvesKept(c)

-----------------------------------------------------------------------------
\* Two finite sets that differ at c at most.
LEMMA CountOne ==
  ASSUME NEW S, NEW T, NEW c, IsFiniteSet(S), S \ {c} = T \ {c}
  PROVE  /\ IsFiniteSet(T) /\ Cardinality(S) \in Nat /\ Cardinality(T) \in Nat
         /\ (c \in T => c \in S) => Cardinality(T) <= Cardinality(S)
         /\ c \in S /\ c \notin T => Cardinality(T) + 1 = Cardinality(S)
         /\ c \notin S /\ c \in T => Cardinality(T) = Cardinality(S) + 1
<1> DEFINE R == S \ {c}
<1>1. IsFiniteSet(R)
  BY FS_Subset
<1>2. Cardinality(R) \in Nat
  BY <1>1, FS_CardinalityType
<1>3. ASSUME NEW U, U \ {c} = R
      PROVE  IsFiniteSet(U) /\ Cardinality(U) = IF c \in U THEN Cardinality(R) + 1
                                                           ELSE Cardinality(R)
  <2>1. CASE c \in U
    <3>1. U = R \cup {c} /\ c \notin R
      BY <1>3, <2>1
    <3>2. QED
      BY <1>1, <2>1, <3>1, FS_AddElement
  <2>2. CASE c \notin U
    BY <1>1, <1>3, <2>2
  <2>3. QED
    BY <2>1, <2>2
<1>4. /\ IsFiniteSet(T)
      /\ Cardinality(S) = IF c \in S THEN Cardinality(R) + 1 ELSE Cardinality(R)
      /\ Cardinality(T) = IF c \in T THEN Cardinality(R) + 1 ELSE Cardinality(R)
  BY <1>3
<1>5. QED
  BY <1>2, <1>4

\* The goroutines that may send m can be counted.
LEMMA SendersFinite ==
  ASSUME NEW m PROVE IsFiniteSet(Senders(m)) /\ Cardinality(Senders(m)) \in Nat
<1>1. Senders(m) \subseteq Consumer
  BY DEF Senders
<1>2. QED
  BY <1>1, RoutingConstantsOK, FS_Subset, FS_CardinalityType DEF RoutingConstantsOK

\* Requeueing deliveries that are out pays for each of their messages what the
\* hand-out that ends was worth.
LEMMA RequeuePays ==
  ASSUME TypeOK, NEW S \in SUBSET Delivery, Requeue(S),
         \A d \in S : where[d] # "ready"
  PROVE  /\ where' \in [Delivery -> {"ready", "gone"} \cup Consumer]
         /\ returned' \in [Msg -> Nat]
         /\ \A d \in Delivery : where'[d] = "gone" => where[d] = "gone"
         /\ \A m \in Msg : HandOut(m)' = HandOut(m)
<1>1. /\ where' = [d \in Delivery |-> IF d \in S THEN "ready" ELSE where[d]]
      /\ returned' = [m \in Msg |-> returned[m] + Cardinality({d \in S : m \in Batch[d]})]
      /\ where \in [Delivery -> {"ready", "gone"} \cup Consumer]
      /\ returned \in [Msg -> Nat]
  BY DEF Requeue, TypeOK
<1>2. ASSUME NEW m \in Msg
      PROVE  /\ returned'[m] \in Nat
             /\ returned'[m] + (IF Taken(m)' THEN 1 ELSE 0)
                  = returned[m] + (IF Taken(m) THEN 1 ELSE 0)
  <2> DEFINE D == {d \in S : m \in Batch[d]}
  <2>1. returned'[m] = returned[m] + Cardinality(D) /\ returned[m] \in Nat
    BY <1>1
  <2>2. CASE D = {}
    <3>1. Cardinality(D) = 0
      BY <2>2, FS_EmptySet
    <3>2. Taken(m)' <=> Taken(m)
      BY <1>1, <2>2 DEF Taken
    <3>3. QED
      BY <2>1, <3>1, <3>2
  <2>3. CASE D # {}
    <3>1. PICK d \in S : m \in Batch[d]
      BY <2>3
    <3>2. \A e \in Delivery : m \in Batch[e] => e = d
      BY <3>1, RoutingConstantsOK DEF RoutingConstantsOK
    <3>3. D = {d}
      BY <3>1, <3>2
    <3>4. Cardinality(D) = 1
      BY <3>3, FS_Singleton
    <3>5. Taken(m) /\ ~Taken(m)'
      BY <1>1, <3>1, <3>2 DEF Taken
    <3>6. QED
      BY <2>1, <3>4, <3>5
  <2>4. QED
    BY <2>2, <2>3
<1>3. QED
  BY <1>1, <1>2 DEF HandOut

-----------------------------------------------------------------------------
\* What a step of goroutine c has to show: its own stage and halves, that nothing
\* heard of is unheard of, that a delivery it removes has been heard of, and that
\* a send it gains, made or possible, is matched by a hand-out.
LEMMA GoroutineStep ==
  ASSUME RoutingInv, TypeOK', NEW c \in Consumer,
         \A o \in Consumer \ {c} :
           /\ pc'[o] = pc[o] /\ job'[o] = job[o] /\ failed'[o] = failed[o]
           /\ todo'[o] = todo[o] /\ out'[o] = out[o],
         StageOK(c)', HalvesKept(c)',
         \A m \in Msg : Heard(m) => Heard(m)',
         \A d \in Delivery : where'[d] = "gone" =>
           where[d] = "gone" \/ \A m \in Batch[d] : Heard(m)',
         \A m \in Msg : accepted'[m] + Sending(c, m)' + HandOut(m)
                           <= accepted[m] + Sending(c, m) + HandOut(m)'
  PROVE  RoutingInv'
<1>1. TypeOK /\ SendsPaid /\ AckedIsHandedOver
      /\ \A o \in Consumer : StageOK(o) /\ HalvesKept(o)
  BY DEF RoutingInv
<1>2. Batch \in [Delivery -> SUBSET Msg]
  BY RoutingConstantsOK DEF RoutingConstantsOK
<1>3. AckedIsHandedOver'
  BY <1>1, <1>2 DEF AckedIsHandedOver, Heard
<1>4. ASSUME NEW o \in Consumer PROVE StageOK(o)' /\ HalvesKept(o)'
  <2>1. CASE o = c
    BY <2>1
  <2>2. CASE o # c
    <3>1. StageOK(o)'
      BY <1>1, <2>2 DEF StageOK
    <3>2. HalvesKept(o)'
      <4>1. pc[o] # "idle" => job[o] \in Delivery
        BY <1>1 DEF StageOK, TypeOK
      <4>2. QED
        BY <1>1, <1>2, <2>2, <4>1 DEF HalvesKept
    <3>3. QED
      BY <3>1, <3>2
  <2>3. QED
    BY <2>1, <2>2
<1>5. SendsPaid'
  <2>1. SUFFICES ASSUME NEW m \in Msg
                 PROVE  accepted'[m] + Cardinality(Senders(m)') <= HandOut(m)'
    BY DEF SendsPaid
  <2>2. IsFiniteSet(Senders(m))
    BY SendersFinite
  <2>3. Senders(m) \ {c} = Senders(m)' \ {c}
    BY DEF Senders, MaySend
  <2>4. /\ Cardinality(Senders(m)) \in Nat /\ Cardinality(Senders(m)') \in Nat
        /\ Cardinality(Senders(m)') + Sending(c, m) <= Cardinality(Senders(m)) + Sending(c, m)'
    <3>1. /\ c \in Senders(m) <=> MaySend(c, m)
          /\ c \in Senders(m)' <=> MaySend(c, m)'
      BY DEF Senders
    <3>2. QED
      BY <2>2, <2>3, <3>1, CountOne DEF Sending
  <2>5. accepted[m] + Cardinality(Senders(m)) <= HandOut(m)
    BY <1>1 DEF SendsPaid
  <2>6. /\ accepted[m] \in Nat /\ accepted'[m] \in Nat
        /\ HandOut(m) \in Nat /\ HandOut(m)' \in Nat
        /\ Sending(c, m) \in Nat /\ Sending(c, m)' \in Nat
    BY <1>1 DEF TypeOK, HandOut, Sending
  <2>7. accepted'[m] + Sending(c, m)' + HandOut(m)
          <= accepted[m] + Sending(c, m) + HandOut(m)'
    OBVIOUS
  <2> HIDE DEF Senders
  <2>8. QED
    BY <2>4, <2>5, <2>6, <2>7
<1>6. QED
  BY <1>1, <1>3, <1>4, <1>5 DEF RoutingInv

\* A step that moves no delivery.
LEMMA QuietStep ==
  ASSUME RoutingInv, TypeOK', NEW c \in Consumer, UNCHANGED <<where, returned>>,
         \A o \in Consumer \ {c} :
           /\ pc'[o] = pc[o] /\ job'[o] = job[o] /\ failed'[o] = failed[o]
           /\ todo'[o] = todo[o] /\ out'[o] = out[o],
         StageOK(c)', HalvesKept(c)',
         \A m \in Msg : Heard(m) => Heard(m)',
         \A m \in Msg : accepted'[m] + Sending(c, m)' <= accepted[m] + Sending(c, m)
  PROVE  RoutingInv'
<1>1. \A m \in Msg : HandOut(m)' = HandOut(m)
  BY DEF HandOut, Taken
<1>2. ASSUME NEW m \in Msg
      PROVE  accepted'[m] + Sending(c, m)' + HandOut(m)
               <= accepted[m] + Sending(c, m) + HandOut(m)'
  <2>1. /\ accepted[m] \in Nat /\ accepted'[m] \in Nat /\ HandOut(m) \in Nat
        /\ Sending(c, m) \in Nat /\ Sending(c, m)' \in Nat
    BY DEF RoutingInv, TypeOK, HandOut, Sending
  <2>2. accepted'[m] + Sending(c, m)' <= accepted[m] + Sending(c, m)
    OBVIOUS
  <2>3. QED
    BY <1>1, <2>1, <2>2
<1>3. QED
  BY <1>2, GoroutineStep

\* A message of the half in work gets its result.
LEMMA ProcessedStep ==
  ASSUME RoutingInv, NEW c \in Consumer, NEW m \in Msg, NEW ok \in BOOLEAN,
         pc[c] \in {"transactional", "promotional"}, Processed(c, m, ok),
         UNCHANGED <<where, job, pc, failed, handed, returned, swallowed, abandoned, env>>
  PROVE  RoutingInv'
<1>1. TypeOK /\ StageOK(c) /\ HalvesKept(c)
  BY DEF RoutingInv
<1>2. /\ m \in todo[c] /\ m \in Msg /\ tried' = tried \cup {m}
      /\ todo' = [todo EXCEPT ![c] = @ \ {m}] /\ out' = [out EXCEPT ![c] = @ \cup {m}]
      /\ accepted' = IF ok THEN Bump(accepted, m) ELSE accepted
  BY DEF Processed
<1>3. accepted' \in [Msg -> Nat] /\ accepted'[m] <= accepted[m] + 1
      /\ \A n \in Msg \ {m} : accepted'[n] = accepted[n]
  BY <1>1, <1>2 DEF TypeOK, Bump
<1>4. TypeOK'
  BY <1>1, <1>2, <1>3 DEF TypeOK, env
<1>5. todo'[c] = todo[c] \ {m} /\ out'[c] = out[c] \cup {m}
  BY <1>1, <1>2 DEF TypeOK
<1>6. StageOK(c)'
  BY <1>1, <1>2, <1>5 DEF StageOK
<1>7. HalvesKept(c)'
  BY <1>1, <1>2, <1>5 DEF HalvesKept, Heard
<1>8. ~MaySend(c, m)' /\ MaySend(c, m)
  BY <1>1, <1>2, <1>5 DEF MaySend, StageOK
<1>9. \A n \in Msg \ {m} : MaySend(c, n)' <=> MaySend(c, n)
  BY <1>5 DEF MaySend
<1>10. \A n \in Msg : accepted'[n] + Sending(c, n)' <= accepted[n] + Sending(c, n)
  BY <1>1, <1>3, <1>8, <1>9 DEF Sending, TypeOK
<1>11. \A o \in Consumer \ {c} : todo'[o] = todo[o] /\ out'[o] = out[o]
  BY <1>1, <1>2 DEF TypeOK
<1>12. QED
  BY <1>4, <1>6, <1>7, <1>10, <1>11, QuietStep DEF Heard

\* The result of a message of the half in work is published.
LEMMA HandedOverStep ==
  ASSUME RoutingInv, NEW c \in Consumer, NEW m \in Msg,
         pc[c] \in {"transactional", "promotional"}, HandedOver(c, m),
         UNCHANGED <<where, job, pc, todo, failed, accepted, returned, swallowed,
                     abandoned, tried, env>>
  PROVE  RoutingInv'
<1>1. TypeOK /\ StageOK(c) /\ HalvesKept(c)
  BY DEF RoutingInv
<1>2. out' = [out EXCEPT ![c] = @ \ {m}] /\ handed' = [handed EXCEPT ![m] = @ + 1]
  BY DEF HandedOver, Bump
<1>3. /\ handed' \in [Msg -> Nat] /\ handed'[m] > 0
      /\ \A n \in Msg : handed[n] > 0 => handed'[n] > 0
  BY <1>1, <1>2 DEF TypeOK
<1>4. TypeOK'
  BY <1>1, <1>2, <1>3 DEF TypeOK, env
<1>5. out'[c] = out[c] \ {m}
  BY <1>1, <1>2 DEF TypeOK
<1>6. StageOK(c)'
  BY <1>1, <1>5 DEF StageOK
<1>7. HalvesKept(c)'
  <2>1. Batch[job[c]] \subseteq Msg
    BY <1>1, RoutingConstantsOK DEF StageOK, TypeOK, RoutingConstantsOK
  <2>2. QED
    BY <1>1, <1>3, <1>5, <2>1 DEF HalvesKept, Heard
<1>8. \A n \in Msg : accepted'[n] + Sending(c, n)' <= accepted[n] + Sending(c, n)
  BY <1>1 DEF Sending, MaySend, TypeOK
<1>9. \A o \in Consumer \ {c} : out'[o] = out[o]
  BY <1>1, <1>2 DEF TypeOK
<1>10. \A n \in Msg : Heard(n) => Heard(n)'
  BY <1>3 DEF Heard
<1>11. QED
  BY <1>4, <1>6, <1>7, <1>8, <1>9, <1>10, QuietStep

\* Every step of RouteDelivery keeps the invariant.
LEMMA WorkStep ==
  ASSUME RoutingInv, NEW c \in Consumer, Work(c) \/ AcquireCredit(c)
  PROVE  RoutingInv'
<1>1. TypeOK /\ StageOK(c) /\ HalvesKept(c)
  BY DEF RoutingInv
<1>2. /\ Batch \in [Delivery -> SUBSET Msg] /\ MaxFaults \in Nat
      /\ {"ready", "gone"} \cap Consumer = {}
  BY RoutingConstantsOK DEF RoutingConstantsOK
<1>3. pc[c] # "idle" => job[c] \in Delivery /\ Batch[job[c]] \subseteq Msg
  BY <1>1, <1>2 DEF StageOK, TypeOK
<1>4. ASSUME NEW m \in Msg, NEW ok \in BOOLEAN, ProcessTransactional(c, m, ok)
      PROVE  RoutingInv'
  BY <1>4, ProcessedStep DEF ProcessTransactional
<1>5. ASSUME NEW m \in Msg, NEW ok \in BOOLEAN, ProcessPromotional(c, m, ok)
      PROVE  RoutingInv'
  BY <1>5, ProcessedStep DEF ProcessPromotional
<1>6. ASSUME NEW m \in Msg, NEW sent \in BOOLEAN, Abandon(c, m, sent)
      PROVE  RoutingInv'
  <2>1. /\ accepted' \in [Msg -> Nat] /\ accepted'[m] <= accepted[m] + 1
        /\ \A n \in Msg \ {m} : accepted'[n] = accepted[n]
    BY <1>1, <1>6 DEF Abandon, Bump, TypeOK
  <2>2. m \notin Transactional
    BY <1>1, <1>6 DEF Abandon, StageOK
  <2>3. TypeOK'
    BY <1>1, <1>6, <2>1, <2>2 DEF Abandon, TypeOK, env
  <2>4. todo'[c] = todo[c] \ {m} /\ m \in todo[c] /\ pc[c] = "promotional"
    BY <1>1, <1>6 DEF Abandon, TypeOK
  <2>5. StageOK(c)'
    BY <1>1, <1>6, <2>4 DEF Abandon, StageOK
  <2>6. HalvesKept(c)'
    BY <1>1, <1>6, <2>4 DEF Abandon, HalvesKept, Heard
  <2>7. /\ ~MaySend(c, m)' /\ MaySend(c, m)
        /\ \A n \in Msg \ {m} : MaySend(c, n)' <=> MaySend(c, n)
    BY <1>6, <2>4 DEF Abandon, MaySend
  <2>8. \A n \in Msg : accepted'[n] + Sending(c, n)' <= accepted[n] + Sending(c, n)
    BY <1>1, <2>1, <2>7 DEF Sending, TypeOK
  <2>9. \A o \in Consumer \ {c} : todo'[o] = todo[o]
    BY <1>1, <1>6 DEF Abandon, TypeOK
  <2>10. \A n \in Msg : Heard(n) => Heard(n)'
    BY <1>6 DEF Abandon, Heard
  <2>11. QED
    BY <1>6, <2>3, <2>5, <2>6, <2>8, <2>9, <2>10, QuietStep DEF Abandon
<1>7. ASSUME NEW m \in Msg, PublishTransactional(c, m) PROVE RoutingInv'
  BY <1>7, HandedOverStep DEF PublishTransactional
<1>8. ASSUME NEW m \in Msg, PublishPromotional(c, m) PROVE RoutingInv'
  BY <1>8, HandedOverStep DEF PublishPromotional
<1>9. CASE TransactionalPublishError(c)
  <2>1. out'[c] = {} /\ out[c] \subseteq Transactional /\ swallowed' = swallowed \cup out[c]
    BY <1>1, <1>9 DEF TransactionalPublishError, StageOK, TypeOK
  <2>2. TypeOK'
    BY <1>1, <1>2, <1>9, <2>1 DEF TransactionalPublishError, TypeOK
  <2>3. StageOK(c)' /\ HalvesKept(c)'
    BY <1>1, <1>9, <2>1 DEF TransactionalPublishError, StageOK, HalvesKept, Heard
  <2>4. \A n \in Msg : accepted'[n] + Sending(c, n)' <= accepted[n] + Sending(c, n)
    BY <1>1, <1>9 DEF TransactionalPublishError, Sending, MaySend, TypeOK
  <2>5. \A o \in Consumer \ {c} : out'[o] = out[o]
    BY <1>1, <1>9 DEF TransactionalPublishError, TypeOK
  <2>6. \A n \in Msg : Heard(n) => Heard(n)'
    BY <1>9 DEF TransactionalPublishError, Heard
  <2>7. QED
    BY <1>9, <2>2, <2>3, <2>4, <2>5, <2>6, QuietStep DEF TransactionalPublishError
<1>10. CASE TransactionalDone(c)
  <2>1. pc'[c] = IF Promo(job[c]) = {} THEN "close" ELSE "credit"
    BY <1>1, <1>10 DEF TransactionalDone, Goto, TypeOK
  <2>2. TypeOK'
    BY <1>1, <1>10 DEF TransactionalDone, Goto, TypeOK, history, env
  <2>3. StageOK(c)'
    BY <1>1, <1>10, <2>1 DEF TransactionalDone, StageOK
  <2>4. HalvesKept(c)'
    BY <1>1, <1>10, <2>1 DEF TransactionalDone, HalvesKept, Heard, Promo, history
  <2>5. \A n \in Msg : MaySend(c, n)' => MaySend(c, n)
    BY <1>10, <2>1 DEF TransactionalDone, MaySend
  <2>6. \A n \in Msg : accepted'[n] + Sending(c, n)' <= accepted[n] + Sending(c, n)
    BY <1>1, <1>10, <2>5 DEF TransactionalDone, Sending, TypeOK, history
  <2>7. \A o \in Consumer \ {c} : pc'[o] = pc[o]
    BY <1>1, <1>10 DEF TransactionalDone, Goto, TypeOK
  <2>8. QED
    BY <1>10, <2>2, <2>3, <2>4, <2>6, <2>7, QuietStep
    DEF TransactionalDone, history, Heard
<1>11. CASE AcquireCredit(c)
  <2>1. pc'[c] = "promotional" /\ todo'[c] = Promo(job[c]) /\ todo[c] = {} /\ out[c] = {}
        /\ pc[c] = "credit"
    BY <1>1, <1>11 DEF AcquireCredit, Goto, StageOK, TypeOK
  <2>2. Promo(job[c]) \subseteq Msg \ Transactional
    BY <1>3, <2>1 DEF Promo
  <2>3. TypeOK'
    BY <1>1, <1>11, <2>2 DEF AcquireCredit, Goto, TypeOK, history, env
  <2>4. StageOK(c)'
    BY <1>1, <1>11, <2>1, <2>2 DEF AcquireCredit, StageOK
  <2>5. HalvesKept(c)'
    BY <1>1, <1>11, <2>1 DEF AcquireCredit, HalvesKept, Heard, Promo, history
  <2>6. \A n \in Msg : MaySend(c, n)' => MaySend(c, n)
    BY <1>11, <2>1 DEF AcquireCredit, MaySend, Promo
  <2>7. \A n \in Msg : accepted'[n] + Sending(c, n)' <= accepted[n] + Sending(c, n)
    BY <1>1, <1>11, <2>6 DEF AcquireCredit, Sending, TypeOK, history
  <2>8. \A o \in Consumer \ {c} : pc'[o] = pc[o] /\ todo'[o] = todo[o]
    BY <1>1, <1>11 DEF AcquireCredit, Goto, TypeOK
  <2>9. QED
    BY <1>11, <2>3, <2>4, <2>5, <2>7, <2>8, QuietStep DEF AcquireCredit, history, Heard
<1>12. CASE CreditCancelled(c)
  <2>1. pc'[c] = "close" /\ failed'[c] /\ pc[c] = "credit"
    BY <1>1, <1>12 DEF CreditCancelled, Goto, TypeOK
  <2>2. TypeOK'
    BY <1>1, <1>12 DEF CreditCancelled, Goto, TypeOK, history, env
  <2>3. StageOK(c)' /\ HalvesKept(c)'
    BY <1>1, <1>12, <2>1 DEF CreditCancelled, StageOK, HalvesKept
  <2>4. \A n \in Msg : MaySend(c, n)' => MaySend(c, n)
    BY <1>12, <2>1 DEF CreditCancelled, MaySend
  <2>5. \A n \in Msg : accepted'[n] + Sending(c, n)' <= accepted[n] + Sending(c, n)
    BY <1>1, <1>12, <2>4 DEF CreditCancelled, Sending, TypeOK, history
  <2>6. \A o \in Consumer \ {c} : pc'[o] = pc[o] /\ failed'[o] = failed[o]
    BY <1>1, <1>12 DEF CreditCancelled, Goto, TypeOK
  <2>7. QED
    BY <1>12, <2>2, <2>3, <2>5, <2>6, QuietStep DEF CreditCancelled, history, Heard
<1>13. CASE PromotionalPublishError(c)
  <2>1. pc'[c] = "close" /\ failed'[c] /\ out'[c] = {} /\ todo[c] = {} /\ pc[c] = "promotional"
    BY <1>1, <1>13 DEF PromotionalPublishError, Goto, TypeOK
  <2>2. TypeOK'
    BY <1>1, <1>2, <1>13 DEF PromotionalPublishError, Goto, TypeOK, history
  <2>3. StageOK(c)' /\ HalvesKept(c)'
    BY <1>1, <1>13, <2>1 DEF PromotionalPublishError, StageOK, HalvesKept
  <2>4. \A n \in Msg : MaySend(c, n)' => MaySend(c, n)
    BY <1>13, <2>1 DEF PromotionalPublishError, MaySend
  <2>5. \A n \in Msg : accepted'[n] + Sending(c, n)' <= accepted[n] + Sending(c, n)
    BY <1>1, <1>13, <2>4 DEF PromotionalPublishError, Sending, TypeOK, history
  <2>6. \A o \in Consumer \ {c} :
          pc'[o] = pc[o] /\ failed'[o] = failed[o] /\ out'[o] = out[o]
    BY <1>1, <1>13 DEF PromotionalPublishError, Goto, TypeOK
  <2>7. QED
    BY <1>13, <2>2, <2>3, <2>5, <2>6, QuietStep DEF PromotionalPublishError, history, Heard
<1>14. CASE PromotionalDone(c)
  <2>1. pc'[c] = "close" /\ out[c] = {} /\ todo[c] = {} /\ pc[c] = "promotional"
    BY <1>1, <1>14 DEF PromotionalDone, Goto, TypeOK
  <2>2. TypeOK'
    BY <1>1, <1>14 DEF PromotionalDone, Goto, TypeOK, history, env
  <2>3. StageOK(c)' /\ HalvesKept(c)'
    BY <1>1, <1>14, <2>1 DEF PromotionalDone, StageOK, HalvesKept, Heard, history
  <2>4. \A n \in Msg : MaySend(c, n)' => MaySend(c, n)
    BY <1>14, <2>1 DEF PromotionalDone, MaySend
  <2>5. \A n \in Msg : accepted'[n] + Sending(c, n)' <= accepted[n] + Sending(c, n)
    BY <1>1, <1>14, <2>4 DEF PromotionalDone, Sending, TypeOK, history
  <2>6. \A o \in Consumer \ {c} : pc'[o] = pc[o]
    BY <1>1, <1>14 DEF PromotionalDone, Goto, TypeOK
  <2>7. QED
    BY <1>14, <2>2, <2>3, <2>5, <2>6, QuietStep DEF PromotionalDone, history, Heard
<1>15. CASE Close(c)
  <2> DEFINE d == job[c]
  <2>1. /\ pc[c] = "close" /\ d \in Delivery /\ todo[c] = {} /\ out[c] = {}
        /\ IF where[d] # c THEN UNCHANGED <<where, returned>>
           ELSE IF failed[c] THEN Requeue({d})
           ELSE where' = [where EXCEPT ![d] = "gone"] /\ UNCHANGED returned
    BY <1>1, <1>3, <1>15 DEF Close, StageOK
  <2>2. /\ pc' = [pc EXCEPT ![c] = "idle"] /\ job' = [job EXCEPT ![c] = NoDelivery]
        /\ failed' = [failed EXCEPT ![c] = FALSE]
        /\ UNCHANGED <<todo, out, accepted, handed, swallowed, abandoned, tried, env>>
    BY <1>15 DEF Close, Goto
  <2>3. /\ where' \in [Delivery -> {"ready", "gone"} \cup Consumer]
        /\ returned' \in [Msg -> Nat]
        /\ \A m \in Msg : HandOut(m)' = HandOut(m)
        /\ \A e \in Delivery : where'[e] = "gone" =>
             where[e] = "gone" \/ \A m \in Batch[e] : Heard(m)'
    <3>1. CASE where[d] # c
      BY <1>1, <2>1, <3>1 DEF HandOut, Taken, TypeOK
    <3>2. CASE where[d] = c /\ failed[c]
      <4>1. Requeue({d}) /\ where[d] # "ready"
        BY <1>2, <2>1, <3>2
      <4>2. QED
        BY <1>1, <2>1, <4>1, RequeuePays
    <3>3. CASE where[d] = c /\ ~failed[c]
      <4>1. where' = [where EXCEPT ![d] = "gone"] /\ UNCHANGED returned
        BY <2>1, <3>3
      <4>2. \A m \in Batch[d] : Heard(m)'
        BY <1>1, <2>1, <2>2, <3>3 DEF HalvesKept, Heard
      <4>3. \A e \in Delivery : where'[e] # "ready" <=> where[e] # "ready"
        BY <1>1, <1>2, <3>3, <4>1 DEF TypeOK
      <4>4. \A m \in Msg : HandOut(m)' = HandOut(m)
        BY <4>1, <4>3 DEF HandOut, Taken
      <4>5. QED
        BY <1>1, <4>1, <4>2, <4>4 DEF TypeOK
    <3>4. QED
      BY <3>1, <3>2, <3>3
  <2>4. TypeOK'
    BY <1>1, <2>2, <2>3 DEF TypeOK, env
  <2>5. pc'[c] = "idle" /\ job'[c] = NoDelivery /\ failed'[c] = FALSE
    BY <1>1, <2>2 DEF TypeOK
  <2>6. StageOK(c)' /\ HalvesKept(c)'
    BY <2>1, <2>2, <2>5 DEF StageOK, HalvesKept
  <2>7. \A m \in Msg : Sending(c, m)' = 0 /\ Sending(c, m) = 0
    BY <2>1, <2>2, <2>5 DEF Sending, MaySend
  <2>8. \A m \in Msg : accepted'[m] + Sending(c, m)' + HandOut(m)
                          <= accepted[m] + Sending(c, m) + HandOut(m)'
    BY <1>1, <2>2, <2>3, <2>7 DEF TypeOK, HandOut
  <2>9. \A o \in Consumer \ {c} :
          pc'[o] = pc[o] /\ job'[o] = job[o] /\ failed'[o] = failed[o]
    BY <1>1, <2>2 DEF TypeOK
  <2>10. \A m \in Msg : Heard(m) => Heard(m)'
    BY <2>2 DEF Heard
  <2>11. QED
    BY <2>2, <2>3, <2>4, <2>6, <2>8, <2>9, <2>10, GoroutineStep
<1>16. QED
  BY <1>4, <1>5, <1>6, <1>7, <1>8, <1>9, <1>10, <1>11, <1>12, <1>13, <1>14, <1>15 DEF Work

\* A delivery is handed out: each of its messages may be sent once.
LEMMA RouteDeliveryStep ==
  ASSUME RoutingInv, NEW c \in Consumer, NEW d \in Delivery, RouteDelivery(c, d)
  PROVE  RoutingInv'
<1>1. TypeOK /\ StageOK(c) /\ HalvesKept(c)
  BY DEF RoutingInv
<1>2. /\ Batch[d] \subseteq Msg /\ {"ready", "gone"} \cap Consumer = {} /\ d # NoDelivery
      /\ \A e \in Delivery : e # d => Batch[d] \cap Batch[e] = {}
  BY RoutingConstantsOK DEF RoutingConstantsOK
<1>3. /\ pc[c] = "idle" /\ todo[c] = {} /\ out[c] = {} /\ ~failed[c]
      /\ where[d] = "ready" /\ where' = [where EXCEPT ![d] = c]
      /\ job' = [job EXCEPT ![c] = d]
      /\ todo' = [todo EXCEPT ![c] = Batch[d] \cap Transactional]
      /\ pc' = [pc EXCEPT ![c] = "transactional"]
      /\ UNCHANGED <<out, failed, history, env>>
  BY <1>1 DEF RouteDelivery, Goto, StageOK
<1>4. TypeOK'
  BY <1>1, <1>2, <1>3 DEF TypeOK, history, env
<1>5. /\ pc'[c] = "transactional" /\ job'[c] = d /\ todo'[c] = Batch[d] \cap Transactional
      /\ where'[d] = c /\ c # "ready" /\ c # "gone"
      /\ \A e \in Delivery \ {d} : where'[e] = where[e]
  BY <1>1, <1>2, <1>3 DEF TypeOK
<1>6. StageOK(c)'
  BY <1>2, <1>3, <1>5 DEF StageOK
<1>7. HalvesKept(c)'
  BY <1>3, <1>5 DEF HalvesKept
<1>8. ASSUME NEW m \in Msg
      PROVE  accepted'[m] + Sending(c, m)' + HandOut(m)
               <= accepted[m] + Sending(c, m) + HandOut(m)'
  <2>1. accepted'[m] = accepted[m] /\ returned'[m] = returned[m]
        /\ accepted[m] \in Nat /\ returned[m] \in Nat
    BY <1>1, <1>3 DEF history, TypeOK
  <2>2. Taken(m)' <=> Taken(m) \/ m \in Batch[d]
    BY <1>5 DEF Taken
  <2>3. m \in Batch[d] => ~Taken(m)
    BY <1>2, <1>3 DEF Taken
  <2>4. MaySend(c, m)' => m \in Batch[d]
    BY <1>5 DEF MaySend
  <2>5. QED
    BY <2>1, <2>2, <2>3, <2>4 DEF Sending, HandOut
<1>9. \A o \in Consumer \ {c} : pc'[o] = pc[o] /\ job'[o] = job[o] /\ todo'[o] = todo[o]
  BY <1>1, <1>3 DEF TypeOK
<1>10. \A e \in Delivery : where'[e] = "gone" => where[e] = "gone"
  BY <1>5
<1>11. \A m \in Msg : Heard(m) => Heard(m)'
  BY <1>3 DEF Heard, history
<1>12. QED
  BY <1>3, <1>4, <1>6, <1>7, <1>8, <1>9, <1>10, <1>11, GoroutineStep

\* An empty delivery is acknowledged.
LEMMA AckEmptyStep ==
  ASSUME RoutingInv, NEW c \in Consumer, NEW d \in Delivery, AckEmpty(c, d)
  PROVE  RoutingInv'
<1>1. TypeOK /\ StageOK(c) /\ HalvesKept(c)
  BY DEF RoutingInv
<1>2. /\ Batch[d] = {} /\ where' = [where EXCEPT ![d] = "gone"]
      /\ UNCHANGED <<task, history, env>>
  BY DEF AckEmpty
<1>3. TypeOK' /\ \A e \in Delivery \ {d} : where'[e] = where[e]
  BY <1>1, <1>2 DEF TypeOK, task, history, env
<1>4. \A m \in Msg : (Taken(m)' <=> Taken(m)) /\ (Heard(m) => Heard(m)')
  BY <1>2, <1>3 DEF Taken, Heard, history
<1>5. \A m \in Msg : HandOut(m)' = HandOut(m) /\ Sending(c, m)' = Sending(c, m)
  BY <1>2, <1>4 DEF HandOut, Sending, MaySend, task, history
<1>6. \A m \in Msg : /\ accepted'[m] = accepted[m] /\ accepted[m] \in Nat
                      /\ Sending(c, m) \in Nat /\ HandOut(m) \in Nat
  BY <1>1, <1>2 DEF TypeOK, history, Sending, HandOut
<1>7. \A m \in Msg : accepted'[m] + Sending(c, m)' + HandOut(m)
                        <= accepted[m] + Sending(c, m) + HandOut(m)'
  BY <1>5, <1>6
<1>8. StageOK(c)' /\ HalvesKept(c)'
  BY <1>1, <1>2 DEF StageOK, HalvesKept, Heard, task, history
<1>9. \A e \in Delivery : where'[e] = "gone" =>
        where[e] = "gone" \/ \A m \in Batch[e] : Heard(m)'
  BY <1>2, <1>3
<1>10. QED
  BY <1>2, <1>3, <1>4, <1>7, <1>8, <1>9, GoroutineStep DEF task

\* A lost connection returns every unacked delivery, whoever works on it.
LEMMA ConnectionLostStep ==
  ASSUME RoutingInv, ConnectionLost PROVE RoutingInv'
<1>1. TypeOK /\ SendsPaid /\ AckedIsHandedOver
      /\ \A c \in Consumer : StageOK(c) /\ HalvesKept(c)
  BY DEF RoutingInv
<1>2. Requeue(Unacked) /\ Unacked \in SUBSET Delivery
      /\ \A d \in Unacked : where[d] # "ready"
  BY RoutingConstantsOK DEF ConnectionLost, Unacked, RoutingConstantsOK
<1>3. /\ where' \in [Delivery -> {"ready", "gone"} \cup Consumer]
      /\ returned' \in [Msg -> Nat]
      /\ \A d \in Delivery : where'[d] = "gone" => where[d] = "gone"
      /\ \A m \in Msg : HandOut(m)' = HandOut(m)
  BY <1>1, <1>2, RequeuePays
<1>4. UNCHANGED <<task, accepted, handed, swallowed, abandoned, tried, ctxDone, cancels>>
      /\ faults < MaxFaults /\ faults' = faults + 1 /\ MaxFaults \in Nat
  BY RoutingConstantsOK DEF ConnectionLost, RoutingConstantsOK
<1>5. TypeOK'
  BY <1>1, <1>3, <1>4 DEF TypeOK, task
<1>6. \A m \in Msg : Senders(m)' = Senders(m)
  BY <1>4 DEF Senders, MaySend, task
<1>7. SendsPaid'
  BY <1>1, <1>3, <1>4, <1>6 DEF SendsPaid
<1>8. AckedIsHandedOver'
  BY <1>1, <1>3, <1>4 DEF AckedIsHandedOver
<1>9. \A c \in Consumer : StageOK(c)' /\ HalvesKept(c)'
  BY <1>1, <1>4 DEF StageOK, HalvesKept, Heard, task
<1>10. QED
  BY <1>5, <1>7, <1>8, <1>9 DEF RoutingInv

\* A restart forgets what the goroutines were at and returns their deliveries.
LEMMA RestartStep ==
  ASSUME RoutingInv, Restart, faults' \in 0 .. MaxFaults PROVE RoutingInv'
<1>1. TypeOK /\ SendsPaid /\ AckedIsHandedOver
  BY DEF RoutingInv
<1>2. Requeue(Unacked) /\ Unacked \in SUBSET Delivery
      /\ \A d \in Unacked : where[d] # "ready"
  BY RoutingConstantsOK DEF Restart, Unacked, RoutingConstantsOK
<1>3. /\ where' \in [Delivery -> {"ready", "gone"} \cup Consumer]
      /\ returned' \in [Msg -> Nat]
      /\ \A d \in Delivery : where'[d] = "gone" => where[d] = "gone"
      /\ \A m \in Msg : HandOut(m)' = HandOut(m)
  BY <1>1, <1>2, RequeuePays
<1>4. /\ job' = [c \in Consumer |-> NoDelivery] /\ pc' = [c \in Consumer |-> "idle"]
      /\ todo' = [c \in Consumer |-> {}] /\ out' = [c \in Consumer |-> {}]
      /\ failed' = [c \in Consumer |-> FALSE] /\ ctxDone' = FALSE
      /\ UNCHANGED <<accepted, handed, swallowed, abandoned, tried, cancels>>
  BY DEF Restart
<1>5. TypeOK'
  BY <1>1, <1>3, <1>4 DEF TypeOK
<1>6. ASSUME NEW m \in Msg PROVE accepted'[m] + Cardinality(Senders(m)') <= HandOut(m)'
  <2>1. Senders(m)' = {}
    BY <1>4 DEF Senders, MaySend
  <2>2. Cardinality(Senders(m)') = 0
    BY <2>1, FS_EmptySet
  <2>3. accepted[m] + Cardinality(Senders(m)) <= HandOut(m)
    BY <1>1 DEF SendsPaid
  <2>4. Cardinality(Senders(m)) \in Nat /\ accepted[m] \in Nat /\ HandOut(m) \in Nat
    BY <1>1, SendersFinite DEF TypeOK, HandOut
  <2> HIDE DEF Senders
  <2>5. QED
    BY <1>3, <1>4, <2>2, <2>3, <2>4
<1>7. SendsPaid'
  BY <1>6 DEF SendsPaid
<1>8. AckedIsHandedOver'
  BY <1>1, <1>3, <1>4 DEF AckedIsHandedOver
<1>9. \A c \in Consumer : StageOK(c)' /\ HalvesKept(c)'
  BY <1>4 DEF StageOK, HalvesKept
<1>10. QED
  BY <1>5, <1>7, <1>8, <1>9 DEF RoutingInv

-----------------------------------------------------------------------------
\* Nothing has been handed out at first.
LEMMA InitInv == Init => RoutingInv
<1> SUFFICES ASSUME Init PROVE RoutingInv
  OBVIOUS
<1>1. TypeOK
  <2>1. /\ failed \in [Consumer -> BOOLEAN] /\ ctxDone \in BOOLEAN
        /\ pc \in [Consumer -> {"idle", "transactional", "credit", "promotional", "close"}]
        /\ todo \in [Consumer -> SUBSET Msg] /\ out \in [Consumer -> SUBSET Msg]
    BY DEF Init
  <2>2. 0 \in Nat /\ 0 \in 0 .. MaxFaults /\ 0 \in 0 .. MaxCancels
    BY RoutingConstantsOK DEF RoutingConstantsOK
  <2>3. QED
    BY <2>1, <2>2 DEF Init, TypeOK
<1>2. \A m \in Msg : Senders(m) = {}
  BY DEF Init, Senders, MaySend
<1>3. SendsPaid
  <2>1. Cardinality({}) = 0
    BY FS_EmptySet
  <2>2. QED
    BY <1>2, <2>1 DEF Init, SendsPaid, HandOut
<1>4. AckedIsHandedOver /\ \A c \in Consumer : StageOK(c) /\ HalvesKept(c)
  BY DEF Init, AckedIsHandedOver, StageOK, HalvesKept
<1>5. QED
  BY <1>1, <1>3, <1>4 DEF RoutingInv

\* The invariant holds throughout, for every interleaving of goroutines, faults
\* and restarts.
THEOREM RoutingInvariant == Safety => []RoutingInv
<1>1. ASSUME RoutingInv, [Next]_vars PROVE RoutingInv'
  <2>1. TypeOK /\ MaxFaults \in Nat
    BY <1>1, RoutingConstantsOK DEF RoutingInv, RoutingConstantsOK
  <2>2. CASE Crash
    BY <1>1, <2>1, <2>2, RestartStep DEF Crash, TypeOK
  <2>3. CASE Exit
    BY <1>1, <2>1, <2>3, RestartStep DEF Exit, TypeOK
  <2>4. ASSUME UNCHANGED <<where, task, history>>, TypeOK' PROVE RoutingInv'
    <3>1. \A m \in Msg : Senders(m)' = Senders(m) /\ HandOut(m)' = HandOut(m)
      BY <2>4 DEF Senders, MaySend, HandOut, Taken, task, history
    <3>2. SendsPaid'
      BY <1>1, <2>4, <3>1 DEF RoutingInv, SendsPaid, history
    <3>3. AckedIsHandedOver'
      BY <1>1, <2>4 DEF RoutingInv, AckedIsHandedOver, history
    <3>4. \A c \in Consumer : StageOK(c)' /\ HalvesKept(c)'
      BY <1>1, <2>4 DEF RoutingInv, StageOK, HalvesKept, Heard, task, history
    <3>5. QED
      BY <2>4, <3>2, <3>3, <3>4 DEF RoutingInv
  <2>5. CASE Cancel
    <3>1. TypeOK'
      BY <2>1, <2>5, RoutingConstantsOK DEF Cancel, TypeOK, task, history, RoutingConstantsOK
    <3>2. QED
      BY <2>4, <2>5, <3>1 DEF Cancel
  <2>6. CASE UNCHANGED vars
    <3>1. TypeOK'
      BY <2>1, <2>6 DEF vars, TypeOK
    <3>2. QED
      BY <2>4, <2>6, <3>1 DEF vars, task, history
  <2>7. QED
    BY <1>1, <2>2, <2>3, <2>5, <2>6, RouteDeliveryStep, AckEmptyStep, WorkStep,
       ConnectionLostStep DEF Next
<1>2. QED
  BY <1>1, InitInv, PTL DEF Safety

\* RouteDelivery acknowledges nothing before both halves have been handed over,
\* swallowed by ProcessBatch or cut off by a shutdown.
THEOREM AckedAreHandedOver == Safety => []AckedIsHandedOver
<1>1. RoutingInv => AckedIsHandedOver
  BY DEF RoutingInv
<1>2. QED
  BY <1>1, RoutingInvariant, PTL

\* An MNO accepts a message once more than needed only if its delivery came back:
\* RouteDelivery itself never sends a message twice.
THEOREM SendsStayPaid == Safety => []SendsAreRedeliveries
<1>1. ASSUME RoutingInv PROVE SendsAreRedeliveries
  <2>1. SUFFICES ASSUME NEW m \in Msg PROVE accepted[m] <= 1 + returned[m]
    BY DEF SendsAreRedeliveries
  <2>2. /\ accepted[m] + Cardinality(Senders(m)) <= HandOut(m)
        /\ accepted[m] \in Nat /\ returned[m] \in Nat
    BY <1>1 DEF RoutingInv, SendsPaid, TypeOK
  <2>3. Cardinality(Senders(m)) \in Nat
    BY SendersFinite
  <2>4. QED
    BY <2>2, <2>3 DEF HandOut
<1>2. QED
  BY <1>1, RoutingInvariant, PTL
===============================================================================
