------------------------ MODULE AfricasTalkingProofs ------------------------
(***************************************************************************)
(* Proofs about AfricasTalking for any deliveries, goroutines, faults and  *)
(* shutdowns.                                                              *)
(***************************************************************************)
EXTENDS AfricasTalking, FiniteSetTheorems, TLAPS

\* What goroutine c holds at each point of ProcessDelivery.
StageOK(c) ==
  /\ pc[c] = "idle" <=> job[c] = NoDelivery
  /\ pc[c] = "idle" => left[c] = {} /\ verdict[c] = {}
  /\ pc[c] \in {"idle", "next"} <=> cur[c] = NoMsg
  /\ cur[c] \notin left[c]
  /\ pc[c] \in {"saveWait", "reportWait"} => attempt[c] <= MaxReportRetries

Heard(m) == reported[m] + dead[m] > 0 \/ m \in unburied

\* A valid message of the delivery in work is still to come, is the one in hand,
\* has been heard of, or has asked for the delivery to be returned.
Kept(c) ==
  pc[c] # "idle" =>
    \A m \in Batch[job[c]] \ Invalid :
      m \in left[c] \/ m = cur[c] \/ Heard(m) \/ "requeue" \in verdict[c]

\* c may still call the API for m in the delivery it works on.
MaySend(c, m) == m \in left[c] \/ (cur[c] = m /\ pc[c] \in {"check", "call"})

\* c has recorded the final outcome of m and not reported it yet.
MayTell(c, m) == cur[c] = m /\ res[c] # "retryable" /\ pc[c] \in {"report", "reportWait"}

Senders(m) == {c \in Consumer : MaySend(c, m)}
Tellers(m) == {c \in Consumer : MayTell(c, m)}

One(p) == IF p THEN 1 ELSE 0

\* m's delivery is not in the queue, but with a goroutine or gone.
Taken(m)   == \E d \in Delivery : m \in Batch[d] /\ where[d] # "ready"
HandOut(m) == returned[m] + One(Taken(m))

\* Every call for m, made or still possible, belongs to a different hand-out of
\* its delivery: the present one or one that ended in a return.
SendsPaid == \A m \in Msg : sends[m] + Cardinality(Senders(m)) <= HandOut(m)

\* What pays for the reports of m's final outcome: its records, and the answers
\* that were lost.
Warrant(m) == saved[m] + unheard[m]

\* Every report of a final outcome, made or under way, has a record of its own or
\* repeats one whose answer was lost.
TellsPaid == \A m \in Msg : told[m] + Cardinality(Tellers(m)) <= Warrant(m)

\* An answer is lost only after the record of the outcome is stored.
LostAfterRecord == \A m \in Msg : unheard[m] > 0 => saved[m] > 0

ATInv ==
  /\ TypeOK /\ SendsPaid /\ TellsPaid /\ LostAfterRecord
  /\ NobodyForgotten /\ CooldownHolds
  /\ \A c \in Consumer : StageOK(c) /\ Kept(c)

-----------------------------------------------------------------------------
\* Counting with one member in doubt: what b must cover, a and the size of S,
\* stays covered if the change at c is.
LEMMA CountStep ==
  ASSUME NEW S, NEW T, NEW c, IsFiniteSet(S), S \ {c} = T \ {c},
         NEW a \in Nat, NEW a2 \in Nat, NEW b \in Nat, NEW b2 \in Nat,
         a + Cardinality(S) <= b,
         a2 + One(c \in T) + b <= a + One(c \in S) + b2
  PROVE  a2 + Cardinality(T) <= b2
<1> DEFINE R == S \ {c}
<1>1. IsFiniteSet(R)
  BY FS_Subset
<1>2. Cardinality(R) \in Nat
  BY <1>1, FS_CardinalityType
<1>3. ASSUME NEW U, U \ {c} = R PROVE Cardinality(U) = Cardinality(R) + One(c \in U)
  <2>1. CASE c \in U
    <3>1. U = R \cup {c} /\ c \notin R
      BY <1>3, <2>1
    <3>2. QED
      BY <1>1, <2>1, <3>1, FS_AddElement DEF One
  <2>2. CASE c \notin U
    <3>1. U = R
      BY <1>3, <2>2
    <3>2. QED
      BY <1>2, <2>2, <3>1 DEF One
  <2>3. QED
    BY <2>1, <2>2
<1>4. Cardinality(S) = Cardinality(R) + One(c \in S)
  BY <1>3
<1>5. Cardinality(T) = Cardinality(R) + One(c \in T)
  BY <1>3
<1>6. One(c \in S) \in Nat /\ One(c \in T) \in Nat
  BY DEF One
<1> HIDE DEF R
<1>7. QED
  BY <1>2, <1>4, <1>5, <1>6

\* The goroutines that may send, or report, m can be counted.
LEMMA CountsFinite ==
  ASSUME NEW m
  PROVE  /\ IsFiniteSet(Senders(m)) /\ Cardinality(Senders(m)) \in Nat
         /\ IsFiniteSet(Tellers(m)) /\ Cardinality(Tellers(m)) \in Nat
<1>1. Senders(m) \subseteq Consumer /\ Tellers(m) \subseteq Consumer
  BY DEF Senders, Tellers
<1>2. IsFiniteSet(Consumer)
  BY ATConstantsOK DEF ATConstantsOK
<1>3. IsFiniteSet(Senders(m)) /\ IsFiniteSet(Tellers(m))
  BY <1>1, <1>2, FS_Subset
<1>4. QED
  BY <1>3, FS_CardinalityType

\* Hand-outs are natural numbers.
LEMMA HandOutNat ==
  ASSUME TypeOK, NEW m \in Msg PROVE HandOut(m) \in Nat /\ returned[m] <= HandOut(m)
                                     /\ HandOut(m) <= 1 + returned[m]
BY DEF TypeOK, HandOut, One

\* Warrants are natural numbers.
LEMMA WarrantNat == ASSUME TypeOK, NEW m \in Msg PROVE Warrant(m) \in Nat
BY DEF TypeOK, Warrant

\* Requeueing deliveries that are out pays for each of their messages what the
\* hand-out that ends was worth.
LEMMA RequeuePays ==
  ASSUME TypeOK, NEW S \in SUBSET Delivery, Requeue(S),
         \A d \in S : where[d] # "ready"
  PROVE  /\ where' \in [Delivery -> {"ready", "gone"} \cup Consumer]
         /\ returned' \in [Msg -> Nat]
         /\ \A d \in Delivery : where'[d] = "gone" => where[d] = "gone"
         /\ \A m \in Msg : HandOut(m)' = HandOut(m)
<1>1. /\ where' = [d \in Delivery |-> IF d \in S THEN "ready" ELSE where[d]]
      /\ returned' = [m \in Msg |-> returned[m] + Cardinality({d \in S : m \in Batch[d]})]
      /\ where \in [Delivery -> {"ready", "gone"} \cup Consumer]
      /\ returned \in [Msg -> Nat]
  BY DEF Requeue, TypeOK
<1>2. ASSUME NEW m \in Msg
      PROVE  /\ returned'[m] \in Nat
             /\ returned'[m] + One(Taken(m)') = returned[m] + One(Taken(m))
  <2> DEFINE D == {d \in S : m \in Batch[d]}
  <2>1. returned'[m] = returned[m] + Cardinality(D) /\ returned[m] \in Nat
    BY <1>1
  <2>2. CASE D = {}
    <3>1. Cardinality(D) = 0
      BY <2>2, FS_EmptySet
    <3>2. Taken(m)' <=> Taken(m)
      BY <1>1, <2>2 DEF Taken
    <3>3. QED
      BY <2>1, <3>1, <3>2 DEF One
  <2>3. CASE D # {}
    <3>1. PICK d \in S : m \in Batch[d]
      BY <2>3
    <3>2. \A e \in Delivery : m \in Batch[e] => e = d
      BY <3>1, ATConstantsOK DEF ATConstantsOK
    <3>3. D = {d}
      BY <3>1, <3>2
    <3>4. Cardinality(D) = 1
      BY <3>3, FS_Singleton
    <3>5. Taken(m) /\ ~Taken(m)'
      BY <1>1, <3>1, <3>2 DEF Taken
    <3>6. QED
      BY <2>1, <3>4, <3>5 DEF One
  <2>4. QED
    BY <2>2, <2>3
<1>3. QED
  BY <1>1, <1>2 DEF HandOut

-----------------------------------------------------------------------------
\* What a step of goroutine c has to show: its own stage and messages, that
\* nothing heard of is unheard of, that a delivery it removes has been heard of,
\* that a call it gains is matched by a hand-out, and a report by a record.
LEMMA GoroutineStep ==
  ASSUME ATInv, TypeOK', NEW c \in Consumer,
         \A o \in Consumer \ {c} :
           /\ pc'[o] = pc[o] /\ job'[o] = job[o] /\ left'[o] = left[o] /\ cur'[o] = cur[o]
           /\ res'[o] = res[o] /\ attempt'[o] = attempt[o] /\ verdict'[o] = verdict[o],
         StageOK(c)', Kept(c)', CooldownHolds',
         \A m \in Msg : Heard(m) => Heard(m)',
         \A d \in Delivery : where'[d] = "gone" =>
           where[d] = "gone" \/ \A m \in Batch[d] \ Invalid : Heard(m)',
         \A m \in Msg : sends'[m] + One(MaySend(c, m)') + HandOut(m)
                           <= sends[m] + One(MaySend(c, m)) + HandOut(m)',
         \A m \in Msg : told'[m] + One(MayTell(c, m)') + Warrant(m)
                           <= told[m] + One(MayTell(c, m)) + Warrant(m)',
         LostAfterRecord'
  PROVE  ATInv'
<1>1. TypeOK /\ SendsPaid /\ TellsPaid /\ NobodyForgotten
      /\ \A o \in Consumer : StageOK(o) /\ Kept(o)
  BY DEF ATInv
<1>2. Batch \in [Delivery -> SUBSET Msg]
  BY ATConstantsOK DEF ATConstantsOK
<1>3. NobodyForgotten'
  BY <1>1, <1>2 DEF NobodyForgotten, Heard
<1>4. ASSUME NEW o \in Consumer PROVE StageOK(o)' /\ Kept(o)'
  <2>1. CASE o = c
    BY <2>1
  <2>2. CASE o # c
    <3>1. StageOK(o)'
      BY <1>1, <2>2 DEF StageOK
    <3>2. Kept(o)'
      <4>1. pc[o] # "idle" => job[o] \in Delivery
        BY <1>1 DEF StageOK, TypeOK
      <4>2. QED
        BY <1>1, <1>2, <2>2, <4>1 DEF Kept
    <3>3. QED
      BY <3>1, <3>2
  <2>3. QED
    BY <2>1, <2>2
<1>5. SendsPaid'
  <2>1. SUFFICES ASSUME NEW m \in Msg
                 PROVE  sends'[m] + Cardinality(Senders(m)') <= HandOut(m)'
    BY DEF SendsPaid
  <2>2. Senders(m) \ {c} = Senders(m)' \ {c}
    BY DEF Senders, MaySend
  <2>3. One(c \in Senders(m)) = One(MaySend(c, m)) /\ One(c \in Senders(m)') = One(MaySend(c, m)')
    BY DEF Senders, One
  <2>4. /\ sends[m] \in Nat /\ sends'[m] \in Nat
        /\ HandOut(m) \in Nat /\ HandOut(m)' \in Nat
    BY <1>1 DEF TypeOK, HandOut, One
  <2>5. sends[m] + Cardinality(Senders(m)) <= HandOut(m) /\ IsFiniteSet(Senders(m))
    BY <1>1, CountsFinite DEF SendsPaid
  <2>6. sends'[m] + One(c \in Senders(m)') + HandOut(m)
          <= sends[m] + One(c \in Senders(m)) + HandOut(m)'
    BY <2>3
  <2> HIDE DEF Senders
  <2>7. QED
    BY <2>2, <2>4, <2>5, <2>6, CountStep
<1>6. TellsPaid'
  <2>1. SUFFICES ASSUME NEW m \in Msg
                 PROVE  told'[m] + Cardinality(Tellers(m)') <= Warrant(m)'
    BY DEF TellsPaid
  <2>2. Tellers(m) \ {c} = Tellers(m)' \ {c}
    BY DEF Tellers, MayTell
  <2>3. One(c \in Tellers(m)) = One(MayTell(c, m)) /\ One(c \in Tellers(m)') = One(MayTell(c, m)')
    BY DEF Tellers, One
  <2>4. told[m] \in Nat /\ told'[m] \in Nat /\ Warrant(m) \in Nat /\ Warrant(m)' \in Nat
    BY <1>1 DEF TypeOK, Warrant
  <2>5. told[m] + Cardinality(Tellers(m)) <= Warrant(m) /\ IsFiniteSet(Tellers(m))
    BY <1>1, CountsFinite DEF TellsPaid
  <2>6. told'[m] + One(c \in Tellers(m)') + Warrant(m)
          <= told[m] + One(c \in Tellers(m)) + Warrant(m)'
    BY <2>3
  <2> HIDE DEF Tellers, Warrant
  <2>7. QED
    BY <2>2, <2>4, <2>5, <2>6, CountStep
<1>7. QED
  BY <1>3, <1>4, <1>5, <1>6 DEF ATInv

\* A step that moves no delivery and reaches nobody outside.
LEMMA QuietStep ==
  ASSUME ATInv, TypeOK', NEW c \in Consumer, UNCHANGED <<where, ledger>>,
         \A o \in Consumer \ {c} :
           /\ pc'[o] = pc[o] /\ job'[o] = job[o] /\ left'[o] = left[o] /\ cur'[o] = cur[o]
           /\ res'[o] = res[o] /\ attempt'[o] = attempt[o] /\ verdict'[o] = verdict[o],
         StageOK(c)', Kept(c)', CooldownHolds',
         \A m \in Msg : (MaySend(c, m)' => MaySend(c, m)) /\ (MayTell(c, m)' => MayTell(c, m))
  PROVE  ATInv'
<1>1. \A m \in Msg : HandOut(m)' = HandOut(m) /\ (Heard(m) => Heard(m)')
  BY DEF HandOut, Taken, ledger, Heard
<1>2. \A m \in Msg : One(MaySend(c, m)') <= One(MaySend(c, m))
                      /\ One(MayTell(c, m)') <= One(MayTell(c, m))
  BY DEF One
<1>3. \A m \in Msg : /\ One(MaySend(c, m)) \in Nat /\ One(MaySend(c, m)') \in Nat
                      /\ One(MayTell(c, m)) \in Nat /\ One(MayTell(c, m)') \in Nat
                      /\ HandOut(m) \in Nat
                      /\ sends[m] \in Nat /\ told[m] \in Nat /\ Warrant(m) \in Nat
  BY HandOutNat DEF ATInv, TypeOK, One, Warrant
<1>4. /\ UNCHANGED <<sends, told>> /\ \A m \in Msg : Warrant(m)' = Warrant(m)
      /\ LostAfterRecord'
  BY DEF ledger, Warrant, ATInv, LostAfterRecord
<1>5. /\ \A m \in Msg : sends'[m] + One(MaySend(c, m)') + HandOut(m)
                           <= sends[m] + One(MaySend(c, m)) + HandOut(m)'
      /\ \A m \in Msg : told'[m] + One(MayTell(c, m)') + Warrant(m)
                           <= told[m] + One(MayTell(c, m)) + Warrant(m)'
  BY <1>1, <1>2, <1>3, <1>4
<1>6. QED
  BY <1>1, <1>4, <1>5, GoroutineStep

-----------------------------------------------------------------------------
\* A message is taken from those left: dropped, returned or taken up for its send.
LEMMA TakeUpStep ==
  ASSUME ATInv, NEW c \in Consumer, NEW m \in Msg,
         DropInvalid(c, m) \/ RateLimited(c, m) \/ StartSend(c, m)
  PROVE  ATInv'
<1>1. TypeOK /\ StageOK(c) /\ Kept(c) /\ CooldownHolds
  BY DEF ATInv
<1>2. NoMsg \notin Msg
  BY ATConstantsOK DEF ATConstantsOK
<1>3. CASE DropInvalid(c, m)
  <2>1. /\ pc[c] = "next" /\ m \in Invalid /\ left'[c] = left[c] \ {m}
        /\ verdict'[c] = verdict[c] \cup {"drop"}
        /\ UNCHANGED <<where, job, pc, cur, res, attempt, ledger, sender, env>>
        /\ \A o \in Consumer \ {c} : left'[o] = left[o] /\ verdict'[o] = verdict[o]
    BY <1>1, <1>3 DEF DropInvalid, TypeOK
  <2>2. TypeOK'
    BY <1>1, <1>3 DEF DropInvalid, TypeOK, ledger, sender, env
  <2>3. StageOK(c)'
    BY <1>1, <2>1 DEF StageOK
  <2>4. Kept(c)'
    BY <1>1, <2>1 DEF Kept, Heard, ledger
  <2>5. CooldownHolds'
    BY <1>1, <2>1 DEF CooldownHolds, sender
  <2>6. \A n \in Msg : (MaySend(c, n)' => MaySend(c, n)) /\ (MayTell(c, n)' => MayTell(c, n))
    BY <2>1 DEF MaySend, MayTell
  <2>7. QED
    BY <2>1, <2>2, <2>3, <2>4, <2>5, <2>6, QuietStep
<1>4. CASE RateLimited(c, m)
  <2>1. /\ pc[c] = "next" /\ left'[c] = left[c] \ {m}
        /\ verdict'[c] = verdict[c] \cup {"requeue"}
        /\ UNCHANGED <<where, job, pc, cur, res, attempt, ledger, sender, env>>
        /\ \A o \in Consumer \ {c} : left'[o] = left[o] /\ verdict'[o] = verdict[o]
    BY <1>1, <1>4 DEF RateLimited, TypeOK
  <2>2. TypeOK'
    BY <1>1, <1>4 DEF RateLimited, TypeOK, ledger, sender, env
  <2>3. StageOK(c)'
    BY <1>1, <2>1 DEF StageOK
  <2>4. Kept(c)'
    BY <2>1 DEF Kept
  <2>5. CooldownHolds'
    BY <1>1, <2>1 DEF CooldownHolds, sender
  <2>6. \A n \in Msg : (MaySend(c, n)' => MaySend(c, n)) /\ (MayTell(c, n)' => MayTell(c, n))
    BY <2>1 DEF MaySend, MayTell
  <2>7. QED
    BY <2>1, <2>2, <2>3, <2>4, <2>5, <2>6, QuietStep
<1>5. CASE StartSend(c, m)
  <2>1. /\ pc[c] = "next" /\ m \in left[c] /\ left'[c] = left[c] \ {m}
        /\ cur'[c] = m /\ pc'[c] = "check"
        /\ UNCHANGED <<where, job, res, attempt, verdict, ledger, sender, env>>
        /\ \A o \in Consumer \ {c} : left'[o] = left[o] /\ cur'[o] = cur[o] /\ pc'[o] = pc[o]
    BY <1>1, <1>5 DEF StartSend, TypeOK
  <2>2. TypeOK'
    BY <1>1, <1>5 DEF StartSend, TypeOK, ledger, sender, env
  <2>3. StageOK(c)'
    BY <1>1, <1>2, <2>1 DEF StageOK
  <2>4. Kept(c)'
    <3>1. job[c] \in Delivery /\ cur[c] = NoMsg /\ Batch[job[c]] \subseteq Msg
      BY <1>1, <2>1, ATConstantsOK DEF StageOK, TypeOK, ATConstantsOK
    <3>2. QED
      BY <1>1, <1>2, <2>1, <3>1 DEF Kept, Heard, ledger
  <2>5. CooldownHolds'
    BY <1>1, <2>1 DEF CooldownHolds, sender
  <2>6. \A n \in Msg : (MaySend(c, n)' => MaySend(c, n)) /\ (MayTell(c, n)' => MayTell(c, n))
    BY <2>1 DEF MaySend, MayTell
  <2>7. QED
    BY <2>1, <2>2, <2>3, <2>4, <2>5, <2>6, QuietStep
<1>6. QED
  BY <1>3, <1>4, <1>5

\* The goroutine moves on with its message in hand and reaches nobody outside: the
\* check of the cooldown, the answer of the API, a failed step, a backoff.
LEMMA InHandStep ==
  ASSUME ATInv, TypeOK', NEW c \in Consumer, CooldownHolds',
         pc[c] \notin {"idle", "next"}, pc'[c] \notin {"idle", "next"},
         pc'[c] \in {"saveWait", "reportWait"} => attempt'[c] <= MaxReportRetries,
         UNCHANGED <<where, job, left, cur, verdict, ledger>>,
         \A o \in Consumer \ {c} :
           pc'[o] = pc[o] /\ res'[o] = res[o] /\ attempt'[o] = attempt[o],
         pc'[c] \in {"check", "call"} => pc[c] \in {"check", "call"},
         pc'[c] \in {"report", "reportWait"} /\ res'[c] # "retryable" =>
           pc[c] \in {"report", "reportWait"} /\ res[c] # "retryable"
  PROVE  ATInv'
<1>1. StageOK(c) /\ Kept(c)
  BY DEF ATInv
<1>2. StageOK(c)'
  BY <1>1 DEF StageOK
<1>3. Kept(c)'
  BY <1>1 DEF Kept, Heard, ledger
<1>4. \A n \in Msg : (MaySend(c, n)' => MaySend(c, n)) /\ (MayTell(c, n)' => MayTell(c, n))
  BY DEF MaySend, MayTell
<1>5. QED
  BY <1>2, <1>3, <1>4, QuietStep

\* Every step of processMessage between the send and the end keeps the invariant.
LEMMA WorkStep ==
  ASSUME ATInv, NEW c \in Consumer,
         \/ CheckBalance(c)
         \/ \E r \in {"permanent", "retryable"} : CircuitRefuses(c, r)
         \/ \E r \in Result, balance \in BOOLEAN : Respond(c, r, balance)
         \/ StepFails(c) \/ Resume(c) \/ CancelBackoff(c)
  PROVE  ATInv'
<1>1. TypeOK /\ StageOK(c) /\ CooldownHolds /\ MaxReportRetries \in Nat \ {0}
  BY ATConstantsOK DEF ATInv, ATConstantsOK
<1>2. CASE CheckBalance(c)
  <2>1. /\ pc[c] = "check" /\ (pc'[c] = "call" => ~cooling) /\ pc'[c] \in {"call", "save"}
        /\ UNCHANGED <<where, job, left, cur, verdict, ledger, sender, env>>
        /\ \A o \in Consumer \ {c} :
             pc'[o] = pc[o] /\ res'[o] = res[o] /\ attempt'[o] = attempt[o]
    BY <1>1, <1>2 DEF CheckBalance, AfterSend, Goto, TypeOK
  <2>2. TypeOK'
    BY <1>1, <1>2 DEF CheckBalance, AfterSend, Goto, TypeOK, ledger, sender, env, Result
  <2>3. CooldownHolds'
    BY <1>1, <2>1 DEF CooldownHolds, sender
  <2>4. QED
    BY <2>1, <2>2, <2>3, InHandStep
<1>3. ASSUME NEW r \in {"permanent", "retryable"}, CircuitRefuses(c, r) PROVE ATInv'
  <2>1. /\ pc[c] = "call" /\ pc'[c] = (IF r = "retryable" THEN "report" ELSE "save")
        /\ res'[c] = r /\ past' = past \ {c} /\ cooling' = cooling
        /\ UNCHANGED <<where, job, left, cur, verdict, ledger, env>>
        /\ \A o \in Consumer \ {c} :
             pc'[o] = pc[o] /\ res'[o] = res[o] /\ attempt'[o] = attempt[o]
    BY <1>1, <1>3 DEF CircuitRefuses, AfterSend, Goto, TypeOK
  <2>2. TypeOK'
    BY <1>1, <1>3 DEF CircuitRefuses, AfterSend, Goto, TypeOK, ledger, env, Result
  <2>3. CooldownHolds'
    BY <1>1, <2>1 DEF CooldownHolds
  <2>4. QED
    BY <2>1, <2>2, <2>3, InHandStep
<1>4. ASSUME NEW r \in Result, NEW balance \in BOOLEAN, Respond(c, r, balance) PROVE ATInv'
  <2>1. /\ pc[c] = "inflight" /\ pc'[c] = (IF r = "retryable" THEN "report" ELSE "save")
        /\ res'[c] = r
        /\ UNCHANGED <<where, job, left, cur, verdict, ledger, env>>
        /\ \A o \in Consumer \ {c} :
             pc'[o] = pc[o] /\ res'[o] = res[o] /\ attempt'[o] = attempt[o]
    BY <1>1, <1>4 DEF Respond, AfterSend, Goto, TypeOK
  <2>2. past' \subseteq Consumer /\ cooling' \in BOOLEAN
    BY <1>1, <1>4 DEF Respond, TypeOK
  <2>3. TypeOK'
    BY <1>1, <1>4, <2>2 DEF Respond, AfterSend, Goto, TypeOK, ledger, env, Result
  <2>4. CooldownHolds'
    <3>1. /\ cooling' => cooling \/ balance
          /\ past' = IF balance /\ ~cooling THEN {o \in Consumer : pc[o] = "call"} ELSE past
      BY <1>4 DEF Respond
    <3>2. QED
      BY <1>1, <2>1, <3>1 DEF CooldownHolds
  <2>5. QED
    BY <2>1, <2>3, <2>4, InHandStep
<1>5. CASE StepFails(c)
  <2>1. /\ pc[c] \in {"save", "report"}
        /\ pc'[c] = (IF Exhausted(c) THEN "final"
                     ELSE IF pc[c] = "save" THEN "saveWait" ELSE "reportWait")
        /\ UNCHANGED <<where, job, left, cur, res, attempt, verdict, ledger, sender, env>>
        /\ \A o \in Consumer \ {c} : pc'[o] = pc[o]
    BY <1>1, <1>5 DEF StepFails, BackOff, TypeOK
  <2>2. TypeOK'
    BY <1>1, <1>5 DEF StepFails, BackOff, TypeOK, ledger, sender, env
  <2>3. pc'[c] \in {"saveWait", "reportWait"} => attempt'[c] <= MaxReportRetries
    BY <1>1, <2>1 DEF Exhausted, TypeOK
  <2>4. CooldownHolds'
    BY <1>1, <2>1 DEF CooldownHolds, sender
  <2>5. QED
    BY <2>1, <2>2, <2>3, <2>4, InHandStep
<1>6. CASE Resume(c)
  <2>1. /\ pc[c] \in {"saveWait", "reportWait"}
        /\ pc' = [pc EXCEPT ![c] = IF @ = "saveWait" THEN "save" ELSE "report"]
        /\ attempt' = [attempt EXCEPT ![c] = @ + 1]
        /\ UNCHANGED <<where, job, left, cur, res, verdict, ledger, sender, env>>
    BY <1>6 DEF Resume
  <2>2. /\ pc'[c] = (IF pc[c] = "saveWait" THEN "save" ELSE "report")
        /\ \A o \in Consumer \ {c} : pc'[o] = pc[o] /\ attempt'[o] = attempt[o]
    BY <1>1, <2>1 DEF TypeOK
  <2>3. attempt[c] + 1 \in 0 .. MaxReportRetries + 1
    BY <1>1, <2>1 DEF StageOK, TypeOK
  <2>4. TypeOK'
    BY <1>1, <2>1, <2>3 DEF TypeOK, ledger, sender, env
  <2>5. CooldownHolds'
    BY <1>1, <2>1, <2>2 DEF CooldownHolds, sender
  <2>6. QED
    BY <2>1, <2>2, <2>4, <2>5, InHandStep
<1>7. CASE CancelBackoff(c)
  <2>1. /\ pc[c] \in {"saveWait", "reportWait"} /\ pc'[c] = "final"
        /\ UNCHANGED <<where, job, left, cur, res, attempt, verdict, ledger, sender, env>>
        /\ \A o \in Consumer \ {c} : pc'[o] = pc[o]
    BY <1>1, <1>7 DEF CancelBackoff, TypeOK
  <2>2. TypeOK'
    BY <1>1, <1>7 DEF CancelBackoff, TypeOK, ledger, sender, env
  <2>3. CooldownHolds'
    BY <1>1, <2>1 DEF CooldownHolds, sender
  <2>4. QED
    BY <2>1, <2>2, <2>3, InHandStep
<1>8. QED
  BY <1>2, <1>3, <1>4, <1>5, <1>6, <1>7

\* What a message in hand and its delivery are.
LEMMA InHand ==
  ASSUME ATInv, NEW c \in Consumer, pc[c] \notin {"idle", "next"}
  PROVE  cur[c] \in Msg /\ job[c] \in Delivery /\ Batch[job[c]] \subseteq Msg
BY ATConstantsOK DEF ATInv, StageOK, TypeOK, ATConstantsOK

\* A call of the API uses up the right to one.
LEMMA CallStep ==
  ASSUME ATInv, NEW c \in Consumer, Call(c) PROVE ATInv'
<1>1. TypeOK /\ StageOK(c) /\ Kept(c) /\ CooldownHolds /\ pc[c] = "call"
  BY DEF ATInv, Call
<1>2. cur[c] \in Msg
  BY <1>1, InHand
<1>3. /\ pc'[c] = "inflight" /\ past' = past \ {c} /\ cooling' = cooling
      /\ sends' = [sends EXCEPT ![cur[c]] = @ + 1]
      /\ UNCHANGED <<where, job, left, cur, res, attempt, verdict, returned, saved,
                     reported, told, unheard, dead, unburied, env>>
      /\ \A o \in Consumer \ {c} : pc'[o] = pc[o]
  BY <1>1 DEF Call, TypeOK
<1>4. /\ sends'[cur[c]] = sends[cur[c]] + 1
      /\ \A m \in Msg \ {cur[c]} : sends'[m] = sends[m]
      /\ \A m \in Msg : sends[m] \in Nat /\ sends'[m] \in Nat
      /\ sends' \in [Msg -> Nat]
  BY <1>1, <1>2, <1>3 DEF TypeOK
<1>5. TypeOK'
  BY <1>1, <1>3, <1>4 DEF Call, TypeOK, env
<1>6. StageOK(c)'
  BY <1>1, <1>3 DEF StageOK
<1>7. Kept(c)'
  BY <1>1, <1>3 DEF Kept, Heard
<1>8. CooldownHolds'
  BY <1>1, <1>3 DEF CooldownHolds
<1>9. ASSUME NEW m \in Msg
      PROVE  /\ sends'[m] + One(MaySend(c, m)') + HandOut(m)
                  <= sends[m] + One(MaySend(c, m)) + HandOut(m)'
             /\ told'[m] + One(MayTell(c, m)') + Warrant(m)
                  <= told[m] + One(MayTell(c, m)) + Warrant(m)'
  <2>1. /\ HandOut(m)' = HandOut(m) /\ HandOut(m) \in Nat /\ told[m] \in Nat
        /\ Warrant(m)' = Warrant(m) /\ Warrant(m) \in Nat
    <3>1. HandOut(m)' = HandOut(m) /\ HandOut(m) \in Nat /\ told[m] \in Nat
      BY <1>1, <1>3, HandOutNat DEF HandOut, Taken, TypeOK
    <3>2. QED
      BY <1>1, <1>3, <3>1, WarrantNat DEF Warrant
  <2>2. ~MayTell(c, m)' /\ ~MayTell(c, m)
    BY <1>1, <1>3 DEF MayTell
  <2>3. MaySend(c, m)' <=> m \in left[c]
    BY <1>3 DEF MaySend
  <2>4. MaySend(c, m) <=> m \in left[c] \/ m = cur[c]
    BY <1>1 DEF MaySend
  <2>5. cur[c] \notin left[c]
    BY <1>1 DEF StageOK
  <2>6. QED
    BY <1>3, <1>4, <2>1, <2>2, <2>3, <2>4, <2>5 DEF One
<1>10. LostAfterRecord' /\ \A m \in Msg : Heard(m) => Heard(m)'
  BY <1>3 DEF Heard, ATInv, LostAfterRecord
<1>11. QED
  BY <1>3, <1>5, <1>6, <1>7, <1>8, <1>9, <1>10, GoroutineStep

\* A record is stored: it pays for the report that follows.
LEMMA SaveStep ==
  ASSUME ATInv, NEW c \in Consumer, Save(c) PROVE ATInv'
<1>1. TypeOK /\ StageOK(c) /\ Kept(c) /\ CooldownHolds /\ pc[c] = "save"
  BY DEF ATInv, Save
<1>2. cur[c] \in Msg /\ 1 \in 0 .. MaxReportRetries + 1
  BY <1>1, InHand, ATConstantsOK DEF ATConstantsOK
<1>3. /\ pc'[c] = "report" /\ saved' = [saved EXCEPT ![cur[c]] = @ + 1]
      /\ UNCHANGED <<where, job, left, cur, res, verdict, sends, returned, reported,
                     told, unheard, dead, unburied, sender, env>>
      /\ \A o \in Consumer \ {c} : pc'[o] = pc[o] /\ attempt'[o] = attempt[o]
  BY <1>1 DEF Save, Goto, TypeOK
<1>4. /\ saved'[cur[c]] = saved[cur[c]] + 1
      /\ \A m \in Msg \ {cur[c]} : saved'[m] = saved[m]
      /\ \A m \in Msg : saved[m] \in Nat /\ saved'[m] \in Nat
      /\ saved' \in [Msg -> Nat]
  BY <1>1, <1>2, <1>3 DEF TypeOK
<1>5. TypeOK'
  BY <1>1, <1>2, <1>3, <1>4 DEF Save, Goto, TypeOK, sender, env
<1>6. StageOK(c)'
  BY <1>1, <1>3 DEF StageOK
<1>7. Kept(c)'
  BY <1>1, <1>3 DEF Kept, Heard
<1>8. CooldownHolds'
  BY <1>1, <1>3 DEF CooldownHolds, sender
<1>9. ASSUME NEW m \in Msg
      PROVE  /\ sends'[m] + One(MaySend(c, m)') + HandOut(m)
                  <= sends[m] + One(MaySend(c, m)) + HandOut(m)'
             /\ told'[m] + One(MayTell(c, m)') + Warrant(m)
                  <= told[m] + One(MayTell(c, m)) + Warrant(m)'
  <2>1. /\ HandOut(m)' = HandOut(m) /\ HandOut(m) \in Nat
        /\ told[m] \in Nat /\ sends[m] \in Nat /\ unheard[m] \in Nat
    BY <1>1, <1>3, HandOutNat DEF HandOut, Taken, TypeOK
  <2>2. MaySend(c, m)' <=> MaySend(c, m)
    BY <1>1, <1>3 DEF MaySend
  <2>3. ~MayTell(c, m) /\ (MayTell(c, m)' => m = cur[c])
    BY <1>1, <1>3 DEF MayTell
  <2>4. QED
    BY <1>3, <1>4, <2>1, <2>2, <2>3 DEF One, Warrant
<1>10. LostAfterRecord' /\ \A m \in Msg : Heard(m) => Heard(m)'
  BY <1>2, <1>3, <1>4 DEF Heard, ATInv, LostAfterRecord
<1>11. QED
  BY <1>3, <1>5, <1>6, <1>7, <1>8, <1>9, <1>10, GoroutineStep

\* The API handled a report and its answer was lost: the report may be repeated, and
\* the lost answer pays for that.  The record was there, or there would be no report.
LEMMA AnswerLostStep ==
  ASSUME ATInv, NEW c \in Consumer, AnswerLost(c) PROVE ATInv'
<1>1. /\ TypeOK /\ StageOK(c) /\ Kept(c) /\ CooldownHolds /\ pc[c] = "report"
      /\ MaxReportRetries \in Nat \ {0} /\ MaxFaults \in Nat
  BY ATConstantsOK DEF ATInv, AnswerLost, ATConstantsOK
<1>2. cur[c] \in Msg
  BY <1>1, InHand
<1>3. /\ pc'[c] = (IF Exhausted(c) THEN "final" ELSE "reportWait")
      /\ reported' = [reported EXCEPT ![cur[c]] = @ + 1]
      /\ told' = IF res[c] = "retryable" THEN told ELSE [told EXCEPT ![cur[c]] = @ + 1]
      /\ unheard' = IF res[c] = "retryable" THEN unheard
                    ELSE [unheard EXCEPT ![cur[c]] = @ + 1]
      /\ UNCHANGED <<where, job, left, cur, res, attempt, verdict, sends, returned, saved,
                     dead, unburied, sender, ctxDone, cancels>>
      /\ \A o \in Consumer \ {c} : pc'[o] = pc[o]
  BY <1>1 DEF AnswerLost, Tell, BackOff, TypeOK
<1>4. /\ reported' \in [Msg -> Nat] /\ told' \in [Msg -> Nat] /\ unheard' \in [Msg -> Nat]
      /\ \A m \in Msg : reported[m] \in Nat /\ reported'[m] >= reported[m]
      /\ \A m \in Msg : /\ told[m] \in Nat /\ unheard[m] \in Nat /\ saved[m] \in Nat
                         /\ told'[m] = told[m] + One(m = cur[c] /\ res[c] # "retryable")
                         /\ unheard'[m] = unheard[m] + One(m = cur[c] /\ res[c] # "retryable")
  BY <1>1, <1>2, <1>3 DEF TypeOK, One
<1>5. TypeOK'
  <2>1. faults' \in 0 .. MaxFaults
    BY <1>1 DEF AnswerLost, TypeOK
  <2>2. pc' \in [Consumer -> {"idle", "next", "check", "call", "inflight", "save",
                               "saveWait", "report", "reportWait", "final"}]
    BY <1>1 DEF AnswerLost, BackOff, TypeOK
  <2>3. QED
    BY <1>1, <1>3, <1>4, <2>1, <2>2 DEF TypeOK, sender
<1>6. StageOK(c)'
  BY <1>1, <1>3 DEF StageOK, Exhausted, TypeOK
<1>7. \A m \in Msg : Heard(m) => Heard(m)'
  <2>1. \A m \in Msg : dead[m] \in Nat
    BY <1>1 DEF TypeOK
  <2>2. \A m \in Msg : reported[m] + dead[m] > 0 => reported'[m] + dead[m] > 0
    BY <1>4, <2>1
  <2>3. QED
    BY <1>3, <2>2 DEF Heard
<1>8. Kept(c)'
  <2>1. job[c] \in Delivery /\ Batch[job[c]] \subseteq Msg
    BY <1>1, InHand
  <2>2. QED
    BY <1>1, <1>3, <1>7, <2>1 DEF Kept
<1>9. CooldownHolds'
  BY <1>1, <1>3 DEF CooldownHolds, sender
<1>10. ASSUME NEW m \in Msg
       PROVE  /\ sends'[m] + One(MaySend(c, m)') + HandOut(m)
                   <= sends[m] + One(MaySend(c, m)) + HandOut(m)'
              /\ told'[m] + One(MayTell(c, m)') + Warrant(m)
                   <= told[m] + One(MayTell(c, m)) + Warrant(m)'
  <2>1. HandOut(m)' = HandOut(m) /\ HandOut(m) \in Nat /\ sends[m] \in Nat
    BY <1>1, <1>3, HandOutNat DEF HandOut, Taken, TypeOK
  <2>2. /\ MaySend(c, m)' <=> MaySend(c, m)
        /\ MayTell(c, m)' => MayTell(c, m)
    BY <1>1, <1>3 DEF MaySend, MayTell
  <2>3. QED
    BY <1>3, <1>4, <2>1, <2>2 DEF One, Warrant
<1>11. LostAfterRecord'
  <2>1. SUFFICES ASSUME NEW m \in Msg, m = cur[c], res[c] # "retryable", saved[m] = 0
                 PROVE  FALSE
    BY <1>3, <1>4 DEF ATInv, LostAfterRecord, One
  <2>2. /\ told[m] + Cardinality(Tellers(m)) <= saved[m] + unheard[m]
        /\ unheard[m] > 0 => saved[m] > 0
    BY DEF ATInv, TellsPaid, Warrant, LostAfterRecord
  <2>3. Cardinality(Tellers(m)) = 0
    <3>1. Cardinality(Tellers(m)) \in Nat
      BY CountsFinite
    <3> HIDE DEF Tellers
    <3>2. QED
      BY <1>4, <2>1, <2>2, <3>1
  <2>4. c \in Tellers(m)
    BY <1>1, <2>1 DEF Tellers, MayTell
  <2>5. QED
    BY <2>3, <2>4, CountsFinite, FS_EmptySet
<1>12. QED
  BY <1>3, <1>5, <1>6, <1>7, <1>8, <1>9, <1>10, <1>11, GoroutineStep

\* A message is through: what is left of the others is as before.
LEMMA NextMessageStep ==
  ASSUME ATInv, TypeOK', NEW c \in Consumer, NEW v, NextMessage(c, v),
         pc[c] \in {"report", "final"}, NEW done, done = cur[c],
         UNCHANGED <<where, job, left, sends, returned, saved, unheard, sender>>,
         \A m \in Msg : Heard(m) => Heard(m)',
         Heard(done)' \/ "requeue" \in v,
         \A m \in Msg : told'[m] <= told[m] + One(MayTell(c, m))
  PROVE  ATInv'
<1>1. TypeOK /\ StageOK(c) /\ Kept(c) /\ CooldownHolds
  BY DEF ATInv
<1>2. /\ pc'[c] = "next" /\ cur'[c] = NoMsg /\ verdict'[c] = verdict[c] \cup v
      /\ \A o \in Consumer \ {c} : /\ pc'[o] = pc[o] /\ cur'[o] = cur[o] /\ res'[o] = res[o]
                                   /\ attempt'[o] = attempt[o] /\ verdict'[o] = verdict[o]
  BY <1>1 DEF NextMessage, TypeOK
<1>3. cur[c] \in Msg /\ job[c] \in Delivery /\ Batch[job[c]] \subseteq Msg /\ NoMsg \notin Msg
  BY InHand, ATConstantsOK DEF ATConstantsOK
<1>4. StageOK(c)'
  BY <1>1, <1>2, <1>3 DEF StageOK, TypeOK
<1>5. Kept(c)'
  BY <1>1, <1>2, <1>3 DEF Kept
<1>6. CooldownHolds'
  BY <1>1, <1>2 DEF CooldownHolds, sender
<1>7. ASSUME NEW m \in Msg
      PROVE  /\ sends'[m] + One(MaySend(c, m)') + HandOut(m)
                  <= sends[m] + One(MaySend(c, m)) + HandOut(m)'
             /\ told'[m] + One(MayTell(c, m)') + Warrant(m)
                  <= told[m] + One(MayTell(c, m)) + Warrant(m)'
  <2>1. /\ HandOut(m)' = HandOut(m) /\ HandOut(m) \in Nat
        /\ Warrant(m)' = Warrant(m) /\ Warrant(m) \in Nat
        /\ sends[m] \in Nat /\ told[m] \in Nat /\ told'[m] \in Nat
    <3>1. /\ HandOut(m)' = HandOut(m) /\ HandOut(m) \in Nat
          /\ sends[m] \in Nat /\ told[m] \in Nat /\ told'[m] \in Nat
      BY <1>1, HandOutNat DEF HandOut, Taken, TypeOK
    <3>2. QED
      BY <1>1, <3>1, WarrantNat DEF Warrant
  <2>2. (MaySend(c, m)' <=> MaySend(c, m)) /\ ~MayTell(c, m)'
    BY <1>2, <1>3 DEF MaySend, MayTell
  <2>3. told'[m] <= told[m] + One(MayTell(c, m))
    OBVIOUS
  <2>4. One(MayTell(c, m)) \in Nat /\ One(MayTell(c, m)') = 0
        /\ One(MaySend(c, m)) \in Nat /\ One(MaySend(c, m)') = One(MaySend(c, m))
    BY <2>2 DEF One
  <2>5. QED
    BY <2>1, <2>3, <2>4
<1>8. LostAfterRecord'
  BY DEF ATInv, LostAfterRecord
<1>9. QED
  BY <1>1, <1>2, <1>4, <1>5, <1>6, <1>7, <1>8, GoroutineStep

\* A report was accepted, or the message was given up.
LEMMA ThroughStep ==
  ASSUME ATInv, NEW c \in Consumer,
         Report(c) \/ \E published \in BOOLEAN : FinalizeExhausted(c, published)
  PROVE  ATInv'
<1>0. PICK done : done = cur[c]
  OBVIOUS
<1>1. TypeOK /\ pc[c] \in {"report", "final"}
  BY DEF ATInv, Report, FinalizeExhausted
<1>2. cur[c] \in Msg /\ 0 \in 0 .. MaxReportRetries + 1
  BY <1>1, InHand, ATConstantsOK DEF ATConstantsOK
<1>3. \A m \in Msg : reported[m] \in Nat /\ dead[m] \in Nat /\ told[m] \in Nat
  BY <1>1 DEF TypeOK
<1>4. ASSUME NEW v \in SUBSET {"requeue", "drop"}, NextMessage(c, v)
      PROVE  /\ pc' \in [Consumer -> {"idle", "next", "check", "call", "inflight", "save",
                                      "saveWait", "report", "reportWait", "final"}]
             /\ cur' \in [Consumer -> Msg \cup {NoMsg}]
             /\ res' \in [Consumer -> Result \cup {"none"}]
             /\ attempt' \in [Consumer -> 0 .. MaxReportRetries + 1]
             /\ verdict' \in [Consumer -> SUBSET {"requeue", "drop"}]
  BY <1>1, <1>2, <1>4 DEF NextMessage, TypeOK
<1>5. CASE Report(c)
  <2>1. /\ pc[c] = "report" /\ reported' = [reported EXCEPT ![cur[c]] = @ + 1]
        /\ told' = IF res[c] = "retryable" THEN told ELSE [told EXCEPT ![cur[c]] = @ + 1]
        /\ NextMessage(c, {})
        /\ UNCHANGED <<where, job, left, sends, returned, saved, unheard, dead, unburied,
                       sender, env>>
    BY <1>5 DEF Report, Tell
  <2>2. /\ reported' \in [Msg -> Nat] /\ reported'[cur[c]] = reported[cur[c]] + 1
        /\ \A m \in Msg : reported'[m] >= reported[m] /\ reported'[m] \in Nat
    BY <1>1, <1>2, <2>1 DEF TypeOK
  <2>3. told' \in [Msg -> Nat] /\ \A m \in Msg : told'[m] <= told[m] + One(MayTell(c, m))
    BY <1>1, <1>2, <2>1 DEF TypeOK, MayTell, One
  <2>4. TypeOK'
    BY <1>1, <1>4, <2>1, <2>2, <2>3 DEF TypeOK, sender, env
  <2>5. Heard(done)' /\ \A m \in Msg : Heard(m) => Heard(m)'
    <3>1. reported'[cur[c]] + dead[cur[c]] > 0
      BY <1>2, <1>3, <2>2
    <3>2. \A m \in Msg : reported[m] + dead[m] > 0 => reported'[m] + dead[m] > 0
      BY <1>3, <2>2
    <3>3. QED
      BY <1>0, <2>1, <3>1, <3>2 DEF Heard
  <2>6. QED
    BY <1>0, <1>1, <2>1, <2>3, <2>4, <2>5, NextMessageStep
<1>6. ASSUME NEW published \in BOOLEAN, FinalizeExhausted(c, published) PROVE ATInv'
  <2> DEFINE v == IF ctxDone THEN {"requeue"} ELSE {"drop"}
  <2>1. /\ NextMessage(c, v)
        /\ dead' = IF ~ctxDone /\ published THEN [dead EXCEPT ![cur[c]] = @ + 1] ELSE dead
        /\ unburied' = IF ctxDone \/ published THEN unburied ELSE unburied \cup {cur[c]}
        /\ UNCHANGED <<where, job, left, sends, returned, saved, reported, told,
                       unheard, sender, env>>
    BY <1>6 DEF FinalizeExhausted
  <2>2. /\ dead' \in [Msg -> Nat] /\ unburied' \subseteq Msg /\ unburied \subseteq unburied'
        /\ \A m \in Msg : dead'[m] >= dead[m] /\ dead'[m] \in Nat
    BY <1>1, <1>2, <2>1 DEF TypeOK
  <2>3. ctxDone \/ cur[c] \in unburied' \/ dead'[cur[c]] = dead[cur[c]] + 1
    BY <1>1, <1>2, <2>1 DEF TypeOK
  <2>4. TypeOK'
    <3>1. v \in SUBSET {"requeue", "drop"}
      OBVIOUS
    <3>2. QED
      BY <1>1, <1>4, <2>1, <2>2, <3>1 DEF TypeOK, sender, env
  <2>5. /\ Heard(done)' \/ "requeue" \in v
        /\ \A m \in Msg : Heard(m) => Heard(m)'
    <3>1. dead'[cur[c]] = dead[cur[c]] + 1 => reported[cur[c]] + dead'[cur[c]] > 0
      BY <1>2, <1>3, <2>2
    <3>2. \A m \in Msg : reported[m] + dead[m] > 0 => reported[m] + dead'[m] > 0
      BY <1>3, <2>2
    <3>3. QED
      BY <1>0, <2>1, <2>2, <2>3, <3>1, <3>2 DEF Heard
  <2>6. \A m \in Msg : told'[m] <= told[m] + One(MayTell(c, m))
    BY <1>3, <2>1 DEF One
  <2> HIDE DEF v
  <2>7. QED
    BY <1>0, <1>1, <2>1, <2>4, <2>5, <2>6, NextMessageStep
<1>7. QED
  BY <1>5, <1>6

-----------------------------------------------------------------------------
\* ProcessDelivery ends: the delivery is returned, or gone with nobody forgotten.
LEMMA CloseStep ==
  ASSUME ATInv, NEW c \in Consumer, Close(c) PROVE ATInv'
<1> DEFINE d == job[c]
<1>1. TypeOK /\ StageOK(c) /\ Kept(c) /\ CooldownHolds
  BY DEF ATInv
<1>2. /\ Batch \in [Delivery -> SUBSET Msg] /\ NoMsg \notin Msg
      /\ {"ready", "gone"} \cap Consumer = {}
  BY ATConstantsOK DEF ATConstantsOK
<1>3. /\ pc[c] = "next" /\ left[c] = {} /\ d \in Delivery /\ cur[c] = NoMsg
      /\ IF where[d] = c
         THEN IF "requeue" \in verdict[c]
              THEN Requeue({d})
              ELSE where' = [where EXCEPT ![d] = "gone"] /\ UNCHANGED returned
         ELSE UNCHANGED <<where, returned>>
  BY <1>1 DEF Close, StageOK, TypeOK
<1>4. /\ job' = [job EXCEPT ![c] = NoDelivery] /\ pc' = [pc EXCEPT ![c] = "idle"]
      /\ verdict' = [verdict EXCEPT ![c] = {}]
      /\ UNCHANGED <<left, cur, res, attempt, sends, saved, reported, told, unheard,
                     dead, unburied, sender, env>>
  BY DEF Close
<1>5. /\ where' \in [Delivery -> {"ready", "gone"} \cup Consumer]
      /\ returned' \in [Msg -> Nat]
      /\ \A m \in Msg : HandOut(m)' = HandOut(m)
      /\ \A e \in Delivery : where'[e] = "gone" =>
           where[e] = "gone" \/ \A m \in Batch[e] \ Invalid : Heard(m)'
  <2>1. CASE where[d] # c
    BY <1>1, <1>3, <2>1 DEF HandOut, Taken, TypeOK
  <2>2. CASE where[d] = c /\ "requeue" \in verdict[c]
    <3>1. Requeue({d}) /\ where[d] # "ready"
      BY <1>2, <1>3, <2>2
    <3>2. QED
      BY <1>1, <1>3, <3>1, RequeuePays
  <2>3. CASE where[d] = c /\ "requeue" \notin verdict[c]
    <3>1. where' = [where EXCEPT ![d] = "gone"] /\ UNCHANGED returned
      BY <1>3, <2>3
    <3>2. \A m \in Batch[d] \ Invalid : Heard(m)'
      BY <1>1, <1>2, <1>3, <1>4, <2>3 DEF Kept, Heard
    <3>3. \A e \in Delivery : where'[e] # "ready" <=> where[e] # "ready"
      BY <1>1, <1>2, <2>3, <3>1 DEF TypeOK
    <3>4. \A m \in Msg : HandOut(m)' = HandOut(m)
      BY <3>1, <3>3 DEF HandOut, Taken
    <3>5. QED
      BY <1>1, <3>1, <3>2, <3>4 DEF TypeOK
  <2>4. QED
    BY <2>1, <2>2, <2>3
<1>6. TypeOK'
  BY <1>1, <1>4, <1>5 DEF TypeOK, sender, env
<1>7. /\ pc'[c] = "idle" /\ job'[c] = NoDelivery /\ verdict'[c] = {}
      /\ \A o \in Consumer \ {c} :
           pc'[o] = pc[o] /\ job'[o] = job[o] /\ verdict'[o] = verdict[o]
  BY <1>1, <1>4 DEF TypeOK
<1>8. StageOK(c)' /\ Kept(c)'
  BY <1>3, <1>4, <1>7 DEF StageOK, Kept
<1>9. CooldownHolds'
  BY <1>1, <1>4, <1>7 DEF CooldownHolds, sender
<1>10. ASSUME NEW m \in Msg
       PROVE  /\ sends'[m] + One(MaySend(c, m)') + HandOut(m)
                   <= sends[m] + One(MaySend(c, m)) + HandOut(m)'
              /\ told'[m] + One(MayTell(c, m)') + Warrant(m)
                   <= told[m] + One(MayTell(c, m)) + Warrant(m)'
  <2>1. /\ ~MaySend(c, m) /\ ~MaySend(c, m)' /\ ~MayTell(c, m) /\ ~MayTell(c, m)'
    BY <1>2, <1>3, <1>4 DEF MaySend, MayTell
  <2>2. /\ HandOut(m) \in Nat /\ sends[m] \in Nat /\ told[m] \in Nat
        /\ Warrant(m)' = Warrant(m) /\ Warrant(m) \in Nat
    BY <1>1, <1>4, HandOutNat DEF TypeOK, Warrant
  <2>3. QED
    BY <1>4, <1>5, <2>1, <2>2 DEF One
<1>11. LostAfterRecord' /\ \A m \in Msg : Heard(m) => Heard(m)'
  BY <1>4 DEF Heard, ATInv, LostAfterRecord
<1>12. QED
  BY <1>4, <1>5, <1>6, <1>7, <1>8, <1>9, <1>10, <1>11, GoroutineStep

\* A delivery is handed out: the API may be called once for each of its messages.
LEMMA DeliverStep ==
  ASSUME ATInv, NEW c \in Consumer, NEW d \in Delivery, Deliver(c, d)
  PROVE  ATInv'
<1>1. TypeOK /\ StageOK(c) /\ CooldownHolds
  BY DEF ATInv
<1>2. /\ Batch[d] \subseteq Msg /\ {"ready", "gone"} \cap Consumer = {}
      /\ d # NoDelivery /\ NoMsg \notin Msg
      /\ \A e \in Delivery : e # d => Batch[d] \cap Batch[e] = {}
  BY ATConstantsOK DEF ATConstantsOK
<1>3. /\ pc[c] = "idle" /\ left[c] = {} /\ cur[c] = NoMsg /\ where[d] = "ready"
      /\ where' = [where EXCEPT ![d] = c] /\ job' = [job EXCEPT ![c] = d]
      /\ left' = [left EXCEPT ![c] = Batch[d]] /\ pc' = [pc EXCEPT ![c] = "next"]
      /\ UNCHANGED <<cur, res, attempt, verdict, ledger, sender, env>>
  BY <1>1 DEF Deliver, StageOK
<1>4. TypeOK'
  BY <1>1, <1>2, <1>3 DEF TypeOK, ledger, sender, env
<1>5. /\ pc'[c] = "next" /\ job'[c] = d /\ left'[c] = Batch[d]
      /\ where'[d] = c /\ c # "ready" /\ c # "gone"
      /\ \A e \in Delivery \ {d} : where'[e] = where[e]
      /\ \A o \in Consumer \ {c} : pc'[o] = pc[o] /\ job'[o] = job[o] /\ left'[o] = left[o]
  BY <1>1, <1>2, <1>3 DEF TypeOK
<1>6. StageOK(c)'
  BY <1>2, <1>3, <1>5 DEF StageOK
<1>7. Kept(c)'
  BY <1>5 DEF Kept
<1>8. CooldownHolds'
  BY <1>1, <1>3, <1>5 DEF CooldownHolds, sender
<1>9. ASSUME NEW m \in Msg
      PROVE  /\ sends'[m] + One(MaySend(c, m)') + HandOut(m)
                  <= sends[m] + One(MaySend(c, m)) + HandOut(m)'
             /\ told'[m] + One(MayTell(c, m)') + Warrant(m)
                  <= told[m] + One(MayTell(c, m)) + Warrant(m)'
  <2>1. /\ UNCHANGED <<sends, returned, told>> /\ returned[m] \in Nat
        /\ sends[m] \in Nat /\ told[m] \in Nat
        /\ Warrant(m)' = Warrant(m) /\ Warrant(m) \in Nat
    BY <1>1, <1>3 DEF ledger, TypeOK, Warrant
  <2>2. Taken(m)' <=> Taken(m) \/ m \in Batch[d]
    BY <1>5 DEF Taken
  <2>3. m \in Batch[d] => ~Taken(m)
    BY <1>2, <1>3 DEF Taken
  <2>4. (MaySend(c, m)' => m \in Batch[d]) /\ ~MayTell(c, m)'
    BY <1>5 DEF MaySend, MayTell
  <2>5. QED
    BY <2>1, <2>2, <2>3, <2>4 DEF One, HandOut
<1>10. \A e \in Delivery : where'[e] = "gone" => where[e] = "gone"
  BY <1>5
<1>11. LostAfterRecord' /\ \A m \in Msg : Heard(m) => Heard(m)'
  BY <1>3 DEF Heard, ledger, ATInv, LostAfterRecord
<1>12. QED
  BY <1>3, <1>4, <1>5, <1>6, <1>7, <1>8, <1>9, <1>10, <1>11, GoroutineStep

\* A step outside the goroutines leaves their tasks alone, or clears them all, and
\* returns deliveries or removes empty ones at most.
LEMMA BrokerStep ==
  ASSUME ATInv, TypeOK', CooldownHolds',
         UNCHANGED <<sends, saved, reported, told, unheard, dead, unburied>>,
         \A d \in Delivery : where'[d] = "gone" => where[d] = "gone" \/ Batch[d] = {},
         \A m \in Msg : HandOut(m)' = HandOut(m),
         UNCHANGED task \/ (/\ job' = [c \in Consumer |-> NoDelivery]
                            /\ left' = [c \in Consumer |-> {}]
                            /\ pc' = [c \in Consumer |-> "idle"]
                            /\ cur' = [c \in Consumer |-> NoMsg]
                            /\ verdict' = [c \in Consumer |-> {}])
  PROVE  ATInv'
<1>1. TypeOK /\ SendsPaid /\ TellsPaid /\ NobodyForgotten
      /\ \A c \in Consumer : StageOK(c) /\ Kept(c)
  BY DEF ATInv
<1>2. NobodyForgotten'
  BY <1>1 DEF NobodyForgotten
<1>3. ASSUME NEW c \in Consumer PROVE StageOK(c)' /\ Kept(c)'
  <2>1. CASE UNCHANGED task
    BY <1>1, <2>1 DEF StageOK, Kept, Heard, task
  <2>2. CASE job'[c] = NoDelivery /\ left'[c] = {} /\ pc'[c] = "idle" /\ cur'[c] = NoMsg
             /\ verdict'[c] = {}
    BY <2>2 DEF StageOK, Kept
  <2>3. QED
    BY <2>1, <2>2
<1>4. ASSUME NEW m \in Msg
      PROVE  sends'[m] + Cardinality(Senders(m)') <= HandOut(m)'
             /\ told'[m] + Cardinality(Tellers(m)') <= Warrant(m)'
  <2>1. /\ sends[m] + Cardinality(Senders(m)) <= HandOut(m)
        /\ told[m] + Cardinality(Tellers(m)) <= Warrant(m)
        /\ Warrant(m)' = Warrant(m) /\ Warrant(m) \in Nat
    BY <1>1 DEF SendsPaid, TellsPaid, Warrant, TypeOK
  <2>2. CASE UNCHANGED task
    <3>1. Senders(m)' = Senders(m) /\ Tellers(m)' = Tellers(m)
      BY <2>2 DEF Senders, Tellers, MaySend, MayTell, task
    <3>2. QED
      BY <2>1, <3>1
  <2>3. CASE left' = [c \in Consumer |-> {}] /\ pc' = [c \in Consumer |-> "idle"]
    <3>1. Senders(m)' = {} /\ Tellers(m)' = {}
      BY <2>3 DEF Senders, Tellers, MaySend, MayTell
    <3>2. Cardinality(Senders(m)') = 0 /\ Cardinality(Tellers(m)') = 0
      BY <3>1, FS_EmptySet
    <3>3. /\ Cardinality(Senders(m)) \in Nat /\ Cardinality(Tellers(m)) \in Nat
          /\ sends[m] \in Nat /\ told[m] \in Nat /\ HandOut(m) \in Nat
      BY <1>1, CountsFinite, HandOutNat DEF TypeOK
    <3> HIDE DEF Senders, Tellers
    <3>4. QED
      BY <2>1, <3>2, <3>3
  <2>4. QED
    BY <2>2, <2>3
<1>5. SendsPaid' /\ TellsPaid' /\ LostAfterRecord'
  BY <1>1, <1>4 DEF SendsPaid, TellsPaid, ATInv, LostAfterRecord
<1>6. QED
  BY <1>2, <1>3, <1>5 DEF ATInv

\* Deliveries that are out can be returned.
LEMMA ReturnUnacked ==
  ASSUME ATInv, Requeue(Unacked)
  PROVE  /\ where' \in [Delivery -> {"ready", "gone"} \cup Consumer]
         /\ returned' \in [Msg -> Nat]
         /\ \A d \in Delivery : where'[d] = "gone" => where[d] = "gone"
         /\ \A m \in Msg : HandOut(m)' = HandOut(m)
<1>1. Unacked \in SUBSET Delivery /\ \A d \in Unacked : where[d] # "ready"
  BY ATConstantsOK DEF Unacked, ATConstantsOK
<1>2. QED
  BY <1>1, RequeuePays DEF ATInv

\* The process ends and starts again.
LEMMA RestartStep ==
  ASSUME ATInv, Restart, faults' \in 0 .. MaxFaults PROVE ATInv'
<1>1. TypeOK
  BY DEF ATInv
<1>2. /\ Requeue(Unacked)
      /\ job' = [c \in Consumer |-> NoDelivery] /\ left' = [c \in Consumer |-> {}]
      /\ pc' = [c \in Consumer |-> "idle"] /\ cur' = [c \in Consumer |-> NoMsg]
      /\ res' = [c \in Consumer |-> "none"] /\ attempt' = [c \in Consumer |-> 0]
      /\ verdict' = [c \in Consumer |-> {}]
      /\ cooling' = FALSE /\ past' = {} /\ ctxDone' = FALSE
      /\ UNCHANGED <<sends, saved, reported, told, unheard, dead, unburied, cancels>>
  BY DEF Restart
<1>3. /\ where' \in [Delivery -> {"ready", "gone"} \cup Consumer]
      /\ returned' \in [Msg -> Nat]
      /\ \A d \in Delivery : where'[d] = "gone" => where[d] = "gone"
      /\ \A m \in Msg : HandOut(m)' = HandOut(m)
  BY <1>2, ReturnUnacked
<1>4. 0 \in 0 .. MaxReportRetries + 1
  BY ATConstantsOK DEF ATConstantsOK
<1>5. cooling' \in BOOLEAN /\ ctxDone' \in BOOLEAN
  BY <1>2
<1>6. TypeOK'
  BY <1>1, <1>2, <1>3, <1>4, <1>5 DEF TypeOK
<1>7. CooldownHolds'
  BY <1>2 DEF CooldownHolds
<1>8. QED
  BY <1>2, <1>3, <1>6, <1>7, BrokerStep

\* Nothing has been handed out at first.
LEMMA InitInv == Init => ATInv
<1> SUFFICES ASSUME Init PROVE ATInv
  OBVIOUS
<1>1. TypeOK
  <2>1. cooling \in BOOLEAN /\ ctxDone \in BOOLEAN
    BY DEF Init
  <2>2. 0 \in Nat /\ 0 \in 0 .. MaxFaults /\ 0 \in 0 .. MaxCancels
        /\ 0 \in 0 .. MaxReportRetries + 1
    BY ATConstantsOK DEF ATConstantsOK
  <2>3. QED
    BY <2>1, <2>2 DEF Init, TypeOK
<1>2. ASSUME NEW m \in Msg
      PROVE  sends[m] + Cardinality(Senders(m)) <= HandOut(m)
             /\ told[m] + Cardinality(Tellers(m)) <= Warrant(m)
  <2>1. Senders(m) = {} /\ Tellers(m) = {} /\ HandOut(m) \in Nat
    BY <1>1, HandOutNat DEF Init, Senders, Tellers, MaySend, MayTell
  <2>2. Cardinality(Senders(m)) = 0 /\ Cardinality(Tellers(m)) = 0
    BY <2>1, FS_EmptySet
  <2>3. sends[m] = 0 /\ told[m] = 0 /\ Warrant(m) = 0
    BY DEF Init, Warrant
  <2> HIDE DEF Senders, Tellers
  <2>4. QED
    BY <2>1, <2>2, <2>3
<1>3. SendsPaid /\ TellsPaid
  BY <1>2 DEF SendsPaid, TellsPaid
<1>4. NobodyForgotten /\ CooldownHolds /\ LostAfterRecord
  BY DEF Init, NobodyForgotten, CooldownHolds, LostAfterRecord
<1>5. \A c \in Consumer : StageOK(c) /\ Kept(c)
  BY DEF Init, StageOK, Kept
<1>6. QED
  BY <1>1, <1>3, <1>4, <1>5 DEF ATInv

-----------------------------------------------------------------------------
\* The inductive invariant: types, what each goroutine holds, the accounts of calls
\* and reports, and the two properties that go through as they stand.
THEOREM ATInvariant == Safety => []ATInv
<1>1. ASSUME ATInv, [Next]_vars PROVE ATInv'
  <2>1. TypeOK /\ CooldownHolds /\ MaxFaults \in Nat /\ MaxCancels \in Nat
    BY <1>1, ATConstantsOK DEF ATInv, ATConstantsOK
  <2>2. ASSUME NEW c \in Consumer, NEW d \in Delivery, AckEmpty(c, d) PROVE ATInv'
    <3>1. /\ Batch[d] = {} /\ where' = [where EXCEPT ![d] = "gone"]
          /\ UNCHANGED <<task, ledger, sender, env>>
      BY <2>2 DEF AckEmpty
    <3>2. TypeOK' /\ \A e \in Delivery \ {d} : where'[e] = where[e]
      BY <2>1, <3>1 DEF TypeOK, task, ledger, sender, env
    <3>3. \A m \in Msg : HandOut(m)' = HandOut(m)
      BY <3>1, <3>2 DEF HandOut, Taken, ledger
    <3>4. CooldownHolds'
      BY <2>1, <3>1 DEF CooldownHolds, task, sender
    <3>5. QED
      BY <1>1, <3>1, <3>2, <3>3, <3>4, BrokerStep DEF ledger
  <2>3. ASSUME NEW c \in Consumer, Process(c) PROVE ATInv'
    BY <1>1, <2>3, TakeUpStep, WorkStep, CallStep, SaveStep, AnswerLostStep, ThroughStep,
       CloseStep
    DEF Process
  <2>4. CASE CooldownOver
    <3>1. /\ cooling' = FALSE /\ past' = {} /\ UNCHANGED <<where, task, ledger, env>>
      BY <2>4 DEF CooldownOver
    <3>2. cooling' \in BOOLEAN
      BY <3>1
    <3>3. TypeOK'
      BY <2>1, <3>1, <3>2 DEF TypeOK, task, ledger, env
    <3>4. CooldownHolds' /\ \A m \in Msg : HandOut(m)' = HandOut(m)
      BY <3>1 DEF CooldownHolds, HandOut, Taken, ledger
    <3>5. QED
      BY <1>1, <3>1, <3>3, <3>4, BrokerStep DEF ledger
  <2>5. CASE ConnectionLost
    <3>1. /\ Requeue(Unacked) /\ faults < MaxFaults /\ faults' = faults + 1
          /\ UNCHANGED <<task, sends, saved, reported, told, unheard, dead, unburied, sender,
                         ctxDone, cancels>>
      BY <2>5 DEF ConnectionLost
    <3>2. /\ where' \in [Delivery -> {"ready", "gone"} \cup Consumer]
          /\ returned' \in [Msg -> Nat]
          /\ \A d \in Delivery : where'[d] = "gone" => where[d] = "gone"
          /\ \A m \in Msg : HandOut(m)' = HandOut(m)
      BY <1>1, <3>1, ReturnUnacked
    <3>3. TypeOK'
      BY <2>1, <3>1, <3>2 DEF TypeOK, task, sender
    <3>4. CooldownHolds'
      BY <2>1, <3>1 DEF CooldownHolds, task, sender
    <3>5. QED
      BY <1>1, <3>1, <3>2, <3>3, <3>4, BrokerStep
  <2>6. CASE Crash
    <3>1. Restart /\ faults' \in 0 .. MaxFaults
      BY <2>1, <2>6 DEF Crash, TypeOK
    <3>2. QED
      BY <1>1, <3>1, RestartStep
  <2>7. CASE Cancel
    <3>1. /\ cancels < MaxCancels /\ cancels' = cancels + 1 /\ ctxDone' = TRUE
          /\ UNCHANGED <<where, task, ledger, sender, faults>>
      BY <2>7 DEF Cancel
    <3>2. ctxDone' \in BOOLEAN
      BY <3>1
    <3>3. TypeOK'
      BY <2>1, <3>1, <3>2 DEF TypeOK, task, ledger, sender
    <3>4. CooldownHolds' /\ \A m \in Msg : HandOut(m)' = HandOut(m)
      BY <2>1, <3>1 DEF CooldownHolds, HandOut, Taken, task, ledger, sender
    <3>5. QED
      BY <1>1, <3>1, <3>3, <3>4, BrokerStep DEF ledger
  <2>8. CASE Exit
    <3>1. Restart /\ faults' \in 0 .. MaxFaults
      BY <2>1, <2>8 DEF Exit, TypeOK
    <3>2. QED
      BY <1>1, <3>1, RestartStep
  <2>9. CASE UNCHANGED vars
    <3>1. TypeOK' /\ CooldownHolds'
      BY <2>1, <2>9 DEF vars, TypeOK, CooldownHolds
    <3>2. \A m \in Msg : HandOut(m)' = HandOut(m)
      BY <2>9 DEF vars, HandOut, Taken
    <3>3. UNCHANGED <<sends, saved, reported, told, unheard, dead, unburied, where>> /\ UNCHANGED task
      BY <2>9 DEF vars, task
    <3>4. QED
      BY <1>1, <3>1, <3>2, <3>3, BrokerStep
  <2>10. QED
    BY <1>1, <2>2, <2>3, <2>4, <2>5, <2>6, <2>7, <2>8, <2>9, DeliverStep DEF Next
<1>2. QED
  BY <1>1, InitInv, PTL DEF Safety

\* A message is sent once, and once more for each return of its delivery, whatever
\* the steps after the send do.
THEOREM SendsStayPaid == Safety => []SendsAreRedeliveries
<1>1. ATInv => SendsAreRedeliveries
  <2>1. SUFFICES ASSUME ATInv, NEW m \in Msg PROVE sends[m] <= 1 + returned[m]
    BY DEF SendsAreRedeliveries
  <2>2. /\ TypeOK /\ sends[m] + Cardinality(Senders(m)) <= HandOut(m)
        /\ sends[m] \in Nat /\ returned[m] \in Nat
    BY <2>1 DEF ATInv, SendsPaid, TypeOK
  <2>3. Cardinality(Senders(m)) \in Nat /\ HandOut(m) \in Nat /\ HandOut(m) <= 1 + returned[m]
    BY <2>2, CountsFinite, HandOutNat
  <2> HIDE DEF Senders, HandOut
  <2>4. QED
    BY <2>2, <2>3
<1>2. QED
  BY <1>1, ATInvariant, PTL

\* The API is told of no final outcome before its record is stored, and of each only
\* once unless the answer was lost.
THEOREM RecordsComeFirst == Safety => []RecordBeforeReport
<1>1. ATInv => RecordBeforeReport
  <2>1. SUFFICES ASSUME ATInv, NEW m \in Msg
                 PROVE  (told[m] > 0 => saved[m] > 0) /\ told[m] <= saved[m] + unheard[m]
    BY DEF RecordBeforeReport
  <2>2. /\ told[m] + Cardinality(Tellers(m)) <= saved[m] + unheard[m]
        /\ told[m] \in Nat /\ saved[m] \in Nat /\ unheard[m] \in Nat
        /\ unheard[m] > 0 => saved[m] > 0
    BY <2>1 DEF ATInv, TellsPaid, Warrant, LostAfterRecord, TypeOK
  <2>3. Cardinality(Tellers(m)) \in Nat
    BY CountsFinite
  <2> HIDE DEF Tellers
  <2>4. QED
    BY <2>2, <2>3
<1>2. QED
  BY <1>1, ATInvariant, PTL

\* No delivery leaves the queue with a valid message nobody has heard of.
THEOREM NobodyIsForgotten == Safety => []NobodyForgotten
BY ATInvariant, PTL DEF ATInv

\* During a balance cooldown only those call that were past the check.
THEOREM CooldownIsKept == Safety => []CooldownHolds
BY ATInvariant, PTL DEF ATInv

=============================================================================
