----------------------- MODULE PrioritySchedulerProofs -----------------------
(* Proofs about PriorityScheduler for every set of queues and workers, every *)
(* weight and multiplier and every number of updates.                        *)
EXTENDS PriorityScheduler, FiniteSetTheorems, WellFoundedInduction, TLAPS

\* What the locks buy: only updateWeights has queues to visit or to resize, each
\* visit finds an existing channel and can number one more, a refill works on
\* an existing channel, and a waiter holds a channel its queue has had.
LocksOK ==
  /\ unvisited # {} \/ resizing # NoQueue => muHeld
  /\ \A q \in Queue : channel[q] <= updates + 1
  /\ \A q \in Queue : q \in unvisited \/ q = resizing => channel[q] \in 1 .. updates
  /\ resizing \notin unvisited
  /\ unfilled \subseteq Known
  /\ filling # NoQueue => filling \in Known /\ toAdd > 0
  /\ \A w \in Worker : stage[w] # "idle" => Home[w] \in Known
  /\ \A w \in Worker : stage[w] = "waiting" => held[w] \in Channel

\* No channel holds more credits than it has room for: Go's channels see to that,
\* and the step that moves credits between two of them has to agree.
CreditsBounded ==
  \A q \in Queue, g \in Channel : credits[q][g] <= capacity[q][g]

\* WeightInForce during an update: only queues not yet visited may differ.
WeightsVisited ==
  \A q \in Known : q \in unvisited \/ weight[q] = EffectiveWeight(weights, q)

SchedulerInv == TypeOK /\ LocksOK /\ CreditsBounded /\ WeightsVisited

\* CreditsConserved needs that a channel is empty until its queue opens it.
UnopenedEmpty ==
  \A q \in Queue, g \in Channel : g > channel[q] => credits[q][g] = 0

AccountsInv == CreditsConserved /\ UnopenedEmpty

\* A step adds d credits to channel k of queue q and enters them.
Adds(q, k, d) ==
  /\ credits' = [credits EXCEPT ![q][k] = @ + d]
  /\ balance' = [balance EXCEPT ![q] = @ + d]

\* CapacityInForce during an update: only the channel about to be replaced may
\* have another size.
CapacitiesVisited ==
  \A q \in Known \ {resizing} :
    capacity[q][channel[q]] = CapacityOf(weight[q], madeWith[q])

\* SumFunction, as Folds defines it: the element it takes next out of a set, and
\* the total of a set s given the totals g of smaller ones.
Pick(s) == CHOOSE x \in s : TRUE
Plus(f, g, s) == IF s = {} THEN 0 ELSE f[Pick(s)] + g[s \ {Pick(s)}]
Totals(f, g, D) == g \in [D -> Int] /\ \A s \in D : g[s] = Plus(f, g, s)

\* Every channel has room for a positive number of credits (resizeCreditChannel,
\* getOrCreateQueueState): a weight that is not positive counts as one.
LEMMA CapacityPositive ==
  ASSUME NEW w \in Int, NEW m \in Nat \ {0}
  PROVE  CapacityOf(w, m) \in Nat \ {0}
BY DEF CapacityOf

\* The weights in force are the stored ones or the default.
LEMMA EffectiveType ==
  ASSUME NEW ws \in [Queue -> Weight \cup {Unset}], NEW q \in Queue
  PROVE  EffectiveWeight(ws, q) \in Weight \cup {DefaultWeight}
BY DEF EffectiveWeight

\* All weights are integers.
LEMMA WeightInt == Weight \cup {Unset, DefaultWeight} \subseteq Int
BY SchedulerConstantsOK DEF SchedulerConstantsOK, Unset

\* The scheduler starts with no queue state, all locks free.
LEMMA InitInv == Init => SchedulerInv
<1> SUFFICES ASSUME Init PROVE SchedulerInv
  OBVIOUS
<1> USE SchedulerConstantsOK DEF SchedulerConstantsOK, Init
<1>1. TypeOK
  <2>1. /\ channel \in [Queue -> Channel \cup {NoChannel}]
        /\ held \in [Worker -> Channel \cup {NoChannel}]
        /\ capacity \in [Queue -> [Channel -> Nat]]
        /\ credits \in [Queue -> [Channel -> Nat]]
    OBVIOUS
  <2>2. /\ weight \in [Queue -> Weight \cup {Unset, DefaultWeight}]
        /\ stage \in [Worker -> Stage]
        /\ balance \in [Queue -> Int]
    BY DEF Stage
  <2>3. updates \in 0 .. MaxUpdates /\ reconfigs \in 0 .. MaxReconfigs /\ toAdd \in Nat
    OBVIOUS
  <2>4. muHeld \in BOOLEAN /\ ctxDone \in BOOLEAN /\ stopped \in BOOLEAN
    OBVIOUS
  <2>5. QED
    BY <2>1, <2>2, <2>3, <2>4 DEF TypeOK
<1>2. LocksOK
  BY DEF LocksOK, Known, Channel, NoChannel
<1>3. CreditsBounded
  BY DEF CreditsBounded
<1>4. WeightsVisited
  BY DEF WeightsVisited, Known
<1>5. QED
  BY <1>1, <1>2, <1>3, <1>4 DEF SchedulerInv

\* Every step of every goroutine keeps the locking discipline, the bound on the
\* credits and the weights in force.
LEMMA NextInv == SchedulerInv /\ [Next]_vars => SchedulerInv'
<1> SUFFICES ASSUME SchedulerInv, [Next]_vars PROVE SchedulerInv'
  OBVIOUS
<1> USE SchedulerConstantsOK DEF SchedulerInv
<1>1. ASSUME NEW w \in Worker, Enter(w) PROVE SchedulerInv'
  <2> DEFINE q == Home[w]
             wt == EffectiveWeight(weights, q)
             cap == CapacityOf(wt, multiplier)
  <2>1. q \in Queue /\ wt \in Weight \cup {DefaultWeight} /\ cap \in Nat
    BY EffectiveType, WeightInt, CapacityPositive DEF TypeOK
  <2>2. 1 \in Channel
    BY DEF Channel
  <2>3. CASE q \in Known
    <3> USE <1>1, <2>3 DEF Enter, store, chans, updater, refill, life, bounds
    <3>1. TypeOK'
      BY DEF TypeOK, Stage
    <3>2. LocksOK'
      BY DEF TypeOK, LocksOK, Known
    <3>3. CreditsBounded' /\ WeightsVisited'
      BY DEF CreditsBounded, WeightsVisited, Known
    <3>4. QED
      BY <3>1, <3>2, <3>3
  <2>4. CASE q \notin Known
    <3>1. /\ weight'   = [weight EXCEPT ![q] = wt]
          /\ channel'  = [channel EXCEPT ![q] = 1]
          /\ capacity' = [capacity EXCEPT ![q][1] = cap]
          /\ madeWith' = [madeWith EXCEPT ![q] = multiplier]
          /\ credits'  = [credits EXCEPT ![q][1] = cap]
          /\ balance'  = [balance EXCEPT ![q] = @ + cap]
          /\ ~muHeld /\ stage[w] = "idle"
          /\ stage' = [stage EXCEPT ![w] = "entered"]
          /\ UNCHANGED <<weights, multiplier, muHeld, unvisited, resizing,
                         unfilled, filling, toAdd, held, starving, ctxDone,
                         stopped, updates, reconfigs>>
      BY <1>1, <2>4 DEF Enter, store, updater, refill, life, bounds
    <3> HIDE DEF q, wt, cap
    <3>2. /\ credits' \in [Queue -> [Channel -> Nat]]
          /\ capacity' \in [Queue -> [Channel -> Nat]]
          /\ \A p \in Queue, g \in Channel :
               /\ credits'[p][g] = IF p = q /\ g = 1 THEN cap ELSE credits[p][g]
               /\ capacity'[p][g] = IF p = q /\ g = 1 THEN cap ELSE capacity[p][g]
      BY <2>1, <2>2, <3>1 DEF TypeOK
    <3>3. /\ stage' \in [Worker -> Stage] /\ weight' \in [Queue -> Weight \cup {Unset, DefaultWeight}]
          /\ channel' \in [Queue -> Channel \cup {NoChannel}] /\ balance' \in [Queue -> Int]
          /\ madeWith' \in [Queue -> Multiplier \cup {0}]
      BY <2>1, <2>2, <3>1 DEF TypeOK, Stage
    <3>4. TypeOK'
      BY <3>1, <3>2, <3>3 DEF TypeOK
    <3>5. Known' = Known \cup {q} /\ \A p \in Queue : channel'[p] = IF p = q THEN 1 ELSE channel[p]
      BY <2>1, <3>1 DEF TypeOK, Known, NoChannel
    <3>6. LocksOK'
      <4>1. q = Home[w]
        BY DEF q
      <4>2. QED
        BY <2>1, <3>1, <3>3, <3>5, <4>1 DEF TypeOK, LocksOK
    <3>7. CreditsBounded'
      BY <2>1, <3>2 DEF CreditsBounded
    <3>8. WeightsVisited'
      <4>1. weight'[q] = EffectiveWeight(weights, q)
        BY <2>1, <3>1 DEF TypeOK, wt
      <4>2. \A p \in Known : p # q => weight'[p] = weight[p]
        BY <2>1, <3>1 DEF TypeOK, Known
      <4>3. QED
        BY <2>1, <3>1, <3>5, <4>1, <4>2 DEF WeightsVisited, EffectiveWeight
    <3>9. QED
      BY <3>4, <3>6, <3>7, <3>8
  <2>5. QED
    BY <2>3, <2>4
<1>2. ASSUME NEW w \in Worker, CheckStarvation(w) PROVE SchedulerInv'
  <2> USE <1>2 DEF CheckStarvation, store, chans, updater, refill, workers, life, bounds
  <2>1. TypeOK'
    BY EffectiveType DEF TypeOK, Stage, Channel, NoChannel
  <2>2. LocksOK'
    BY DEF TypeOK, LocksOK, Known, Channel, NoChannel
  <2>3. CreditsBounded'
    BY DEF TypeOK, CreditsBounded
  <2>4. WeightsVisited'
    BY DEF TypeOK, LocksOK, WeightsVisited, Known
  <2>5. QED
    BY <2>1, <2>2, <2>3, <2>4
<1>3. ASSUME NEW w \in Worker, ReadChannel(w) PROVE SchedulerInv'
  <2> USE <1>3 DEF ReadChannel, store, chans, updater, refill, workers, life, bounds
  <2>1. TypeOK'
    BY EffectiveType DEF TypeOK, Stage, Channel, NoChannel
  <2>2. LocksOK'
    BY DEF TypeOK, LocksOK, Known, Channel, NoChannel
  <2>3. CreditsBounded'
    BY DEF TypeOK, CreditsBounded
  <2>4. WeightsVisited'
    BY DEF TypeOK, LocksOK, WeightsVisited, Known
  <2>5. QED
    BY <2>1, <2>2, <2>3, <2>4
<1>4. ASSUME NEW w \in Worker, TakeCredit(w) PROVE SchedulerInv'
  <2> USE <1>4 DEF TakeCredit, store, chans, updater, refill, workers, life, bounds
  <2>1. TypeOK'
    <3> DEFINE q == Home[w]
               g == held[w]
    <3>1. q \in Queue /\ g \in Channel /\ credits[q][g] > 0
      BY DEF LocksOK, TypeOK
    <3>2. credits' \in [Queue -> [Channel -> Nat]] /\ balance' \in [Queue -> Int]
      BY <3>1 DEF TypeOK
    <3>3. QED
      BY <3>2 DEF TypeOK, Stage
  <2>2. LocksOK'
    BY DEF TypeOK, LocksOK, Known, Channel, NoChannel
  <2>3. CreditsBounded'
    <3>1. Home[w] \in Queue /\ held[w] \in Channel
      BY DEF LocksOK, TypeOK
    <3>2. QED
      BY <3>1 DEF TypeOK, CreditsBounded
  <2>4. WeightsVisited'
    BY DEF TypeOK, LocksOK, WeightsVisited, Known
  <2>5. QED
    BY <2>1, <2>2, <2>3, <2>4
<1>5. ASSUME NEW w \in Worker, Leave(w) PROVE SchedulerInv'
  <2> USE <1>5 DEF Leave, store, chans, updater, refill, workers, life, bounds
  <2>1. TypeOK'
    BY EffectiveType DEF TypeOK, Stage, Channel, NoChannel
  <2>2. LocksOK'
    BY DEF TypeOK, LocksOK, Known, Channel, NoChannel
  <2>3. CreditsBounded'
    BY DEF TypeOK, CreditsBounded
  <2>4. WeightsVisited'
    BY DEF TypeOK, LocksOK, WeightsVisited, Known
  <2>5. QED
    BY <2>1, <2>2, <2>3, <2>4
<1>6. ASSUME NEW w \in Worker, Finish(w) PROVE SchedulerInv'
  <2> USE <1>6 DEF Finish, store, chans, updater, refill, workers, life, bounds
  <2>1. TypeOK'
    BY EffectiveType DEF TypeOK, Stage, Channel, NoChannel
  <2>2. LocksOK'
    BY DEF TypeOK, LocksOK, Known, Channel, NoChannel
  <2>3. CreditsBounded'
    BY DEF TypeOK, CreditsBounded
  <2>4. WeightsVisited'
    BY DEF TypeOK, LocksOK, WeightsVisited, Known
  <2>5. QED
    BY <2>1, <2>2, <2>3, <2>4
<1>7. ASSUME NEW q \in Queue, Age(q) PROVE SchedulerInv'
  <2> USE <1>7 DEF Age, store, chans, updater, refill, workers, life, bounds
  <2>1. TypeOK'
    BY EffectiveType DEF TypeOK, Stage, Channel, NoChannel
  <2>2. LocksOK'
    BY DEF TypeOK, LocksOK, Known, Channel, NoChannel
  <2>3. CreditsBounded'
    BY DEF TypeOK, CreditsBounded
  <2>4. WeightsVisited'
    BY DEF TypeOK, LocksOK, WeightsVisited, Known
  <2>5. QED
    BY <2>1, <2>2, <2>3, <2>4
<1>8. ASSUME Tick PROVE SchedulerInv'
  <2> USE <1>8 DEF Tick, store, chans, updater, refill, workers, life, bounds
  <2>1. TypeOK'
    BY DEF TypeOK, Known
  <2>2. LocksOK'
    BY DEF TypeOK, LocksOK, Known, Channel, NoChannel
  <2>3. CreditsBounded'
    BY DEF TypeOK, CreditsBounded
  <2>4. WeightsVisited'
    BY DEF TypeOK, LocksOK, WeightsVisited, Known
  <2>5. QED
    BY <2>1, <2>2, <2>3, <2>4
<1>9. ASSUME NEW q \in Queue, RefillQueue(q) PROVE SchedulerInv'
  <2> USE <1>9 DEF RefillQueue, store, chans, updater, refill, workers, life, bounds
  <2>1. RefillAmount(q) \in Nat \ {0}
    BY WeightInt DEF RefillAmount, TypeOK
  <2>2. TypeOK'
    BY <2>1 DEF TypeOK
  <2>3. LocksOK'
    BY <2>1 DEF TypeOK, LocksOK, Known
  <2>4. CreditsBounded' /\ WeightsVisited'
    BY DEF CreditsBounded, WeightsVisited, Known
  <2>5. QED
    BY <2>2, <2>3, <2>4
<1>10. ASSUME AddCredit PROVE SchedulerInv'
  <2> USE <1>10 DEF AddCredit, store, chans, updater, refill, workers, life, bounds
  <2>1. TypeOK'
    <3>1. filling \in Queue /\ channel[filling] \in Channel /\ toAdd - 1 \in Nat
      BY DEF TypeOK, LocksOK, Known
    <3>2. credits' \in [Queue -> [Channel -> Nat]] /\ balance' \in [Queue -> Int]
      BY <3>1 DEF TypeOK
    <3>3. QED
      BY <3>1, <3>2 DEF TypeOK
  <2>2. LocksOK'
    BY DEF TypeOK, LocksOK, Known, Channel, NoChannel
  <2>3. CreditsBounded'
    BY DEF TypeOK, CreditsBounded
  <2>4. WeightsVisited'
    BY DEF TypeOK, LocksOK, WeightsVisited, Known
  <2>5. QED
    BY <2>1, <2>2, <2>3, <2>4
<1>11. ASSUME NEW ws \in [Queue -> Weight \cup {Unset}], UpdateWeights(ws) PROVE SchedulerInv'
  <2> USE <1>11 DEF UpdateWeights, store, chans, updater, refill, workers, life, bounds
  <2>1. TypeOK'
    BY DEF TypeOK, Known
  <2>2. LocksOK'
    <3>1. Known' = Known /\ updates \in Nat /\ \A q \in Known : channel[q] \in Nat \ {0}
      BY DEF TypeOK, Known, Channel, NoChannel
    <3>2. /\ \A q \in Queue : channel[q] \in Nat /\ channel[q] <= updates + 1
          /\ resizing = NoQueue
      BY DEF TypeOK, LocksOK, Channel, NoChannel
    <3>3. resizing' \notin unvisited'
      BY <3>2 DEF Known
    <3>4. \A q \in Queue : q \in unvisited' \/ q = resizing' => channel'[q] \in 1 .. updates'
      BY <3>1, <3>2
    <3>5. QED
      BY <3>1, <3>2, <3>3, <3>4 DEF LocksOK
  <2>3. CreditsBounded'
    BY DEF TypeOK, CreditsBounded
  <2>4. WeightsVisited'
    BY DEF TypeOK, LocksOK, WeightsVisited, Known
  <2>5. QED
    BY <2>1, <2>2, <2>3, <2>4
<1>12. ASSUME NEW q \in Queue, VisitQueue(q) PROVE SchedulerInv'
  <2> USE <1>12 DEF VisitQueue, store, chans, updater, refill, workers, life, bounds
  <2>1. TypeOK'
    BY EffectiveType DEF TypeOK, Stage, Channel, NoChannel
  <2>2. LocksOK'
    BY DEF TypeOK, LocksOK, Known, Channel, NoChannel
  <2>3. CreditsBounded'
    BY DEF TypeOK, CreditsBounded
  <2>4. WeightsVisited'
    BY DEF TypeOK, LocksOK, WeightsVisited, Known
  <2>5. QED
    BY <2>1, <2>2, <2>3, <2>4
<1>13. ASSUME NEW q \in Queue, ResizeCreditChannel(q) PROVE SchedulerInv'
  <2> DEFINE old == channel[q]
             new == channel[q] + 1
             cap == CapacityOf(weight[q], multiplier)
             n   == Transferable(credits[q][old], cap)
  <2>1. old \in Channel /\ new \in Channel /\ old # new /\ old \in 1 .. updates
    <3>1. resizing = q
      BY <1>13 DEF ResizeCreditChannel
    <3>2. old \in 1 .. updates
      BY <3>1 DEF LocksOK
    <3>3. updates \in 0 .. MaxUpdates
      BY DEF TypeOK
    <3>4. QED
      BY <3>2, <3>3 DEF Channel
  <2>2. cap \in Nat
    BY WeightInt, CapacityPositive DEF TypeOK
  <2>3. credits[q][old] \in Nat /\ n \in Nat /\ n <= credits[q][old] /\ n <= cap
    BY <2>1, <2>2 DEF TypeOK, Transferable
  <2>4. /\ channel'  = [channel EXCEPT ![q] = new]
        /\ capacity' = [capacity EXCEPT ![q][new] = cap]
        /\ madeWith' = [madeWith EXCEPT ![q] = multiplier]
        /\ credits'  = [credits EXCEPT ![q] = [credits[q] EXCEPT ![old] = @ - n, ![new] = n]]
        /\ resizing = q /\ resizing' = NoQueue
        /\ UNCHANGED <<weights, multiplier, weight, muHeld, unvisited, unfilled,
                       filling, toAdd, stage, held, starving, ctxDone, stopped,
                       balance, updates, reconfigs>>
    BY <1>13 DEF ResizeCreditChannel, Transfer, store, refill, workers, life, bounds
  <2> HIDE DEF old, new, cap, n
  <2>5. [credits[q] EXCEPT ![old] = @ - n, ![new] = n] \in [Channel -> Nat]
    BY <2>1, <2>3 DEF TypeOK
  <2>6. /\ credits' \in [Queue -> [Channel -> Nat]]
        /\ capacity' \in [Queue -> [Channel -> Nat]]
        /\ channel' \in [Queue -> Channel \cup {NoChannel}]
        /\ madeWith' \in [Queue -> Multiplier \cup {0}]
    BY <2>1, <2>2, <2>4, <2>5 DEF TypeOK
  <2>7. TypeOK'
    BY <2>4, <2>6 DEF TypeOK
  <2>8. /\ Known' = Known
        /\ \A p \in Queue : channel'[p] = IF p = q THEN new ELSE channel[p]
    <3>1. \A p \in Queue : channel'[p] = IF p = q THEN new ELSE channel[p]
      BY <2>4 DEF TypeOK
    <3>2. new # NoChannel /\ channel[q] # NoChannel
      BY <2>1 DEF old, Channel, NoChannel
    <3>3. QED
      BY <3>1, <3>2 DEF Known
  <2>9. LocksOK'
    <3>1. new = old + 1 /\ new <= updates + 1 /\ q \notin unvisited
      <4>1. new = old + 1
        BY DEF old, new
      <4>2. updates \in Nat
        BY DEF TypeOK
      <4>3. q \notin unvisited
        BY <2>4 DEF LocksOK
      <4>4. QED
        BY <2>1, <4>1, <4>2, <4>3
    <3>2. \A p \in Queue : channel'[p] <= updates' + 1
      BY <2>4, <2>8, <3>1 DEF LocksOK
    <3>3. \A p \in Queue : p \in unvisited' \/ p = resizing' => channel'[p] \in 1 .. updates'
      BY <2>4, <2>8, <3>1 DEF LocksOK
    <3>4. resizing' \notin unvisited' /\ (unvisited' # {} \/ resizing' # NoQueue => muHeld')
      BY <2>4 DEF LocksOK, TypeOK
    <3>5. QED
      BY <2>4, <2>8, <3>2, <3>3, <3>4 DEF LocksOK
  <2>10. CreditsBounded'
    <3>1. \A g \in Channel :
            /\ credits'[q][g] = IF g = new THEN n ELSE IF g = old THEN credits[q][old] - n
                                ELSE credits[q][g]
            /\ capacity'[q][g] = IF g = new THEN cap ELSE capacity[q][g]
      BY <2>1, <2>4 DEF TypeOK
    <3>2. \A g \in Channel : credits'[q][g] <= capacity'[q][g]
      <4>1. \A g \in Channel : /\ credits[q][g] \in Nat /\ capacity[q][g] \in Nat
                               /\ credits[q][g] <= capacity[q][g]
        BY DEF CreditsBounded, TypeOK
      <4>2. ASSUME NEW g \in Channel, g = new PROVE credits'[q][g] <= capacity'[q][g]
        BY <2>3, <3>1, <4>2
      <4>3. ASSUME NEW g \in Channel, g # new PROVE credits'[q][g] <= capacity'[q][g]
        <5>1. credits'[q][g] \in {credits[q][g], credits[q][g] - n}
          BY <3>1, <4>3
        <5>2. capacity'[q][g] = capacity[q][g]
          BY <3>1, <4>3
        <5>3. QED
          BY <2>3, <4>1, <5>1, <5>2
      <4>4. QED
        BY <4>2, <4>3
    <3>3. \A p \in Queue \ {q} : credits'[p] = credits[p] /\ capacity'[p] = capacity[p]
      BY <2>4 DEF TypeOK
    <3>4. QED
      BY <3>2, <3>3 DEF CreditsBounded
  <2>11. WeightsVisited'
    BY <2>4, <2>8 DEF WeightsVisited, EffectiveWeight
  <2>12. QED
    BY <2>7, <2>9, <2>10, <2>11
<1>14. ASSUME UpdateDone PROVE SchedulerInv'
  <2> USE <1>14 DEF UpdateDone, store, chans, updater, refill, workers, life, bounds
  <2>1. TypeOK'
    BY EffectiveType DEF TypeOK, Stage, Channel, NoChannel
  <2>2. LocksOK'
    BY DEF TypeOK, LocksOK, Known, Channel, NoChannel
  <2>3. CreditsBounded'
    BY DEF TypeOK, CreditsBounded
  <2>4. WeightsVisited'
    BY DEF TypeOK, LocksOK, WeightsVisited, Known
  <2>5. QED
    BY <2>1, <2>2, <2>3, <2>4
<1>15. ASSUME NEW m \in Multiplier, NEW fresh \in SUBSET starving, Reconfigure(m, fresh) PROVE SchedulerInv'
  <2> USE <1>15 DEF Reconfigure, store, chans, updater, refill, workers, life, bounds
  <2>1. TypeOK'
    BY DEF TypeOK
  <2>2. LocksOK'
    BY DEF TypeOK, LocksOK, Known, Channel, NoChannel
  <2>3. CreditsBounded'
    BY DEF TypeOK, CreditsBounded
  <2>4. WeightsVisited'
    BY DEF TypeOK, LocksOK, WeightsVisited, Known
  <2>5. QED
    BY <2>1, <2>2, <2>3, <2>4
<1>16. ASSUME Cancel PROVE SchedulerInv'
  <2> USE <1>16 DEF Cancel, store, chans, updater, refill, workers, life, bounds
  <2>1. TypeOK'
    BY EffectiveType DEF TypeOK, Stage, Channel, NoChannel
  <2>2. LocksOK'
    BY DEF TypeOK, LocksOK, Known, Channel, NoChannel
  <2>3. CreditsBounded'
    BY DEF TypeOK, CreditsBounded
  <2>4. WeightsVisited'
    BY DEF TypeOK, LocksOK, WeightsVisited, Known
  <2>5. QED
    BY <2>1, <2>2, <2>3, <2>4
<1>17. ASSUME Stop PROVE SchedulerInv'
  <2> USE <1>17 DEF Stop, store, chans, updater, refill, workers, life, bounds
  <2>1. TypeOK'
    BY EffectiveType DEF TypeOK, Stage, Channel, NoChannel
  <2>2. LocksOK'
    BY DEF TypeOK, LocksOK, Known, Channel, NoChannel
  <2>3. CreditsBounded'
    BY DEF TypeOK, CreditsBounded
  <2>4. WeightsVisited'
    BY DEF TypeOK, LocksOK, WeightsVisited, Known
  <2>5. QED
    BY <2>1, <2>2, <2>3, <2>4
<1>18. CASE UNCHANGED vars
  BY <1>18 DEF vars, TypeOK, LocksOK, CreditsBounded, WeightsVisited, Known
<1>19. QED
  BY <1>1, <1>2, <1>3, <1>4, <1>5, <1>6, <1>7, <1>8, <1>9, <1>10, <1>11, <1>12, <1>13, <1>14, <1>15, <1>16, <1>17, <1>18 DEF Next, Step, Refill, Update

\* The strengthened invariant holds throughout.
LEMMA SchedulerInvariant == Safety => []SchedulerInv
BY InitInv, NextInv, PTL DEF Safety

\* All state of the scheduler stays well typed; in particular no weight change
\* needs a channel beyond those numbered and no credit count falls below zero.
THEOREM SchedulerTypes == Safety => []TypeOK
<1>1. SchedulerInv => TypeOK
  BY DEF SchedulerInv
<1>2. QED
  BY <1>1, SchedulerInvariant, PTL

\* Between updates every queue has the weight of the last update, also a queue
\* that was created while updates were coming in.
THEOREM WeightsStayInForce == Safety => []WeightInForce
<1>1. SchedulerInv => WeightInForce
  BY DEF SchedulerInv, LocksOK, WeightsVisited, WeightInForce
<1>2. QED
  BY <1>1, SchedulerInvariant, PTL

\* A step credits no channel but the one in use afterwards.
LEMMA StepDrains ==
  SchedulerInv /\ [Next]_vars =>
    [\A q \in Queue, g \in Channel :
       g # channel'[q] => credits'[q][g] <= credits[q][g]]_vars
<1> SUFFICES ASSUME SchedulerInv, [Next]_vars,
                    NEW p \in Queue, NEW g \in Channel, g # channel'[p]
             PROVE  credits'[p][g] <= credits[p][g]
  OBVIOUS
<1> USE SchedulerConstantsOK
<1>1. credits[p][g] \in Nat /\ credits \in [Queue -> [Channel -> Nat]]
  BY DEF SchedulerInv, TypeOK
<1>2. CASE credits' = credits
  BY <1>1, <1>2
<1>3. ASSUME NEW w \in Worker, Enter(w) PROVE credits'[p][g] <= credits[p][g]
  <2>1. Home[w] \in Queue /\ 1 \in Channel /\ channel \in [Queue -> Channel \cup {NoChannel}]
    BY DEF SchedulerInv, TypeOK, Channel
  <2>2. CASE Home[w] \in Known
    BY <1>1, <1>3, <2>2 DEF Enter, chans
  <2>3. CASE Home[w] \notin Known
    <3>1. /\ channel' = [channel EXCEPT ![Home[w]] = 1]
          /\ \E k : credits' = [credits EXCEPT ![Home[w]][1] = k]
      BY <1>3, <2>3 DEF Enter
    <3>2. ~(p = Home[w] /\ g = 1)
      BY <2>1, <3>1
    <3>3. QED
      BY <1>1, <2>1, <3>1, <3>2
  <2>4. QED
    BY <2>2, <2>3
<1>4. ASSUME NEW w \in Worker, TakeCredit(w) PROVE credits'[p][g] <= credits[p][g]
  <2>1. Home[w] \in Queue /\ held[w] \in Channel
    BY <1>4 DEF TakeCredit, SchedulerInv, LocksOK
  <2>2. QED
    BY <1>1, <1>4, <2>1 DEF TakeCredit
<1>5. CASE AddCredit
  <2>1. channel' = channel /\ filling \in Queue /\ channel[filling] \in Channel
    BY <1>5 DEF AddCredit, SchedulerInv, LocksOK, TypeOK, Known
  <2>2. QED
    BY <1>1, <1>5, <2>1 DEF AddCredit
<1>6. ASSUME NEW q \in Queue, ResizeCreditChannel(q) PROVE credits'[p][g] <= credits[p][g]
  <2> DEFINE old == channel[q]
             new == channel[q] + 1
             cap == CapacityOf(weight[q], multiplier)
             n   == Transferable(credits[q][old], cap)
  <2>1. resizing = q
    BY <1>6 DEF ResizeCreditChannel
  <2>2. old \in 1 .. updates /\ updates \in 0 .. MaxUpdates
    BY <2>1 DEF SchedulerInv, LocksOK, TypeOK
  <2>3. old \in Channel /\ new \in Channel /\ old # new
    BY <2>2 DEF Channel
  <2>4. cap \in Nat /\ credits[q][old] \in Nat
    <3>1. weight[q] \in Int /\ multiplier \in Nat \ {0}
      BY WeightInt DEF SchedulerInv, TypeOK
    <3>2. QED
      BY <1>1, <2>3, <3>1, CapacityPositive
  <2>5. n \in Nat
    BY <2>4 DEF Transferable
  <2>6. /\ channel' = [channel EXCEPT ![q] = new]
        /\ credits' = [credits EXCEPT ![q] = [credits[q] EXCEPT ![old] = @ - n, ![new] = n]]
    BY <1>6 DEF ResizeCreditChannel, Transfer
  <2>7. channel'[q] = new
    BY <2>6 DEF SchedulerInv, TypeOK
  <2> HIDE DEF old, new, cap, n
  <2>8. QED
    BY <1>1, <2>3, <2>4, <2>5, <2>6, <2>7
<1>7. CASE UNCHANGED vars
  BY <1>2, <1>7 DEF vars
<1>8. QED
  BY <1>2, <1>3, <1>4, <1>5, <1>6, <1>7
  DEF Next, Step, Refill, Update, CheckStarvation, ReadChannel, Leave, Finish, Age,
      Tick, RefillQueue, UpdateWeights, VisitQueue, UpdateDone, Reconfigure, Cancel,
      Stop, chans

\* A channel that a weight change has replaced is never refilled: waiters that
\* hold it can count on no credits but those left in it.
THEOREM ReplacedChannelsOnlyDrain == Safety => OldChannelsOnlyDrain
BY SchedulerInvariant, StepDrains, PTL DEF Safety, OldChannelsOnlyDrain

\* Every set of natural numbers that is not empty has a least element: the
\* induction below argues from a least counterexample.
LEMMA Least ==
  ASSUME NEW T \in SUBSET Nat, T # {}
  PROVE  \E n \in T : \A m \in T : n <= m
<1>1. IsWellFoundedOn(OpToRel(<, Nat), Nat)
  BY NatLessThanWellFounded
<1>2. PICK n \in T : \A m \in T : ~(<<m, n>> \in OpToRel(<, Nat))
  BY <1>1, WFMin
<1>3. \A m \in T : ~(m < n)
  BY <1>2 DEF OpToRel
<1>4. QED
  BY <1>3

\* Taking an element out of a finite set makes it smaller by one.
LEMMA Smaller ==
  ASSUME NEW S, IsFiniteSet(S), NEW s \in SUBSET S, s # {}
  PROVE  /\ Pick(s) \in s
         /\ s \ {Pick(s)} \in SUBSET S
         /\ Cardinality(s) \in Nat
         /\ Cardinality(s \ {Pick(s)}) \in Nat
         /\ Cardinality(s \ {Pick(s)}) = Cardinality(s) - 1
<1>1. Pick(s) \in s
  BY DEF Pick
<1>2. IsFiniteSet(s)
  BY FS_Subset
<1>3. Cardinality(s \ {Pick(s)}) = Cardinality(s) - 1 /\ IsFiniteSet(s \ {Pick(s)})
  BY <1>1, <1>2, FS_RemoveElement
<1>4. Cardinality(s) \in Nat /\ Cardinality(s \ {Pick(s)}) \in Nat
  BY <1>2, <1>3, FS_CardinalityType
<1>5. QED
  BY <1>1, <1>3, <1>4

\* The recursion of SumFunction has a solution.
LEMMA TotalsExist ==
  ASSUME NEW S, IsFiniteSet(S), NEW f \in [S -> Int]
  PROVE  \E g : Totals(f, g, SUBSET S)
<1> DEFINE D(n) == {s \in SUBSET S : Cardinality(s) <= n}
           Bad  == {n \in Nat : ~\E g : Totals(f, g, D(n))}
<1>1. \A s \in SUBSET S : Cardinality(s) \in Nat /\ (Cardinality(s) = 0 <=> s = {})
  BY FS_Subset, FS_CardinalityType, FS_EmptySet
<1>2. Bad = {}
  <2> SUFFICES ASSUME Bad # {} PROVE FALSE
    OBVIOUS
  <2>1. PICK n \in Bad : \A m \in Bad : n <= m
    <3>1. Bad \in SUBSET Nat
      OBVIOUS
    <3> HIDE DEF Bad
    <3>2. QED
      BY <3>1, Least
  <2>2. n \in Nat /\ ~\E g : Totals(f, g, D(n))
    OBVIOUS
  <2>3. CASE n = 0
    <3>1. \A s \in D(n) : s = {}
      BY <1>1, <2>3
    <3> DEFINE g == [s \in D(n) |-> 0]
    <3>2. g \in [D(n) -> Int] /\ \A s \in D(n) : g[s] = 0 /\ Plus(f, g, s) = 0
      BY <3>1 DEF Plus
    <3>3. Totals(f, g, D(n))
      BY <3>2 DEF Totals
    <3>4. QED
      BY <2>2, <3>3
  <2>4. CASE n # 0
    <3>1. n - 1 \in Nat /\ n - 1 \notin Bad
      <4>1. n - 1 \in Nat /\ ~(n <= n - 1)
        BY <2>2, <2>4
      <4> HIDE DEF Bad
      <4>2. QED
        BY <2>1, <4>1
    <3>2. PICK h : Totals(f, h, D(n - 1))
      BY <3>1
    <3> DEFINE g == [s \in D(n) |-> Plus(f, h, s)]
    <3>3. ASSUME NEW s \in D(n), s # {}
          PROVE  Pick(s) \in S /\ s \ {Pick(s)} \in D(n - 1) /\ s \ {Pick(s)} \in D(n)
      BY <2>2, <3>3, Smaller
    <3>4. \A s \in D(n - 1) : s \in D(n) /\ g[s] = h[s]
      <4>1. \A s \in D(n - 1) : s \in D(n)
        BY <1>1, <2>2
      <4>2. \A s \in D(n - 1) : h[s] = Plus(f, h, s)
        BY <3>2 DEF Totals
      <4>3. QED
        BY <4>1, <4>2
    <3>5. ASSUME NEW s \in D(n) PROVE g[s] \in Int /\ g[s] = Plus(f, g, s)
      <4>1. CASE s = {}
        BY <4>1 DEF Plus
      <4>2. CASE s # {}
        <5>1. /\ Pick(s) \in S /\ s \ {Pick(s)} \in D(n - 1)
              /\ g[s \ {Pick(s)}] = h[s \ {Pick(s)}]
          BY <3>3, <3>4, <4>2
        <5>2. h[s \ {Pick(s)}] \in Int /\ f[Pick(s)] \in Int
          BY <3>2, <5>1 DEF Totals
        <5>3. g[s] = f[Pick(s)] + h[s \ {Pick(s)}]
          BY <4>2 DEF Plus
        <5>4. Plus(f, g, s) = f[Pick(s)] + g[s \ {Pick(s)}]
          BY <4>2 DEF Plus
        <5> HIDE DEF g
        <5>5. QED
          BY <5>1, <5>2, <5>3, <5>4
      <4>3. QED
        BY <4>1, <4>2
    <3>6. Totals(f, g, D(n))
      <4>1. g \in [D(n) -> Int]
        BY <3>5
      <4> HIDE DEF g
      <4>2. QED
        BY <3>5, <4>1 DEF Totals
    <3>7. QED
      BY <2>2, <3>6
  <2>5. QED
    BY <2>3, <2>4
<1>3. Cardinality(S) \in Nat /\ D(Cardinality(S)) = SUBSET S
  BY FS_Subset, FS_CardinalityType
<1>4. QED
  BY <1>2, <1>3

\* SumFunction is given by a solution of its recursion.
LEMMA SumTotals ==
  ASSUME NEW S, IsFiniteSet(S), NEW f \in [S -> Int]
  PROVE  \E g : g = [s \in SUBSET S |-> Plus(f, g, s)] /\ SumFunction(f) = g[S]
<1> DEFINE h == CHOOSE g : g = [s \in SUBSET S |-> Plus(f, g, s)]
<1>1. SumFunction(f) = h[S]
  <2>1. DOMAIN f = S
    OBVIOUS
  <2>2. SumFunction(f) = (CHOOSE g : g = [s \in SUBSET DOMAIN f |-> Plus(f, g, s)])[DOMAIN f]
    BY DEF SumFunction, SumFunctionOnSet, FoldFunctionOnSet, MapThenFoldSet, Plus, Pick
  <2>3. QED
    BY <2>1, <2>2
<1>2. \E g : g = [s \in SUBSET S |-> Plus(f, g, s)]
  <2>1. PICK g : Totals(f, g, SUBSET S)
    BY TotalsExist
  <2>2. g = [s \in SUBSET S |-> Plus(f, g, s)]
    BY <2>1 DEF Totals
  <2>3. QED
    BY <2>2
<1>3. h = [s \in SUBSET S |-> Plus(f, h, s)]
  BY <1>2
<1>4. QED
  BY <1>1, <1>3

\* Changing one value of a function changes its sum by the difference.
LEMMA SumUpdate ==
  ASSUME NEW S, IsFiniteSet(S), NEW f \in [S -> Int], NEW e \in [S -> Int], NEW k \in S,
         \A x \in S \ {k} : e[x] = f[x]
  PROVE  SumFunction(f) \in Int /\ SumFunction(e) = SumFunction(f) + e[k] - f[k]
<1> DEFINE v == e[k]
<1>1. v \in Int /\ \A x \in S : e[x] = IF x = k THEN v ELSE f[x]
  OBVIOUS
<1>2. PICK g : g = [s \in SUBSET S |-> Plus(f, g, s)] /\ SumFunction(f) = g[S]
  BY SumTotals
<1>3. PICK h : h = [s \in SUBSET S |-> Plus(e, h, s)] /\ SumFunction(e) = h[S]
  BY SumTotals
<1> DEFINE Good(s) == g[s] \in Int /\ h[s] = g[s] + (IF k \in s THEN v - f[k] ELSE 0)
           Bad == {n \in Nat : \E s \in SUBSET S : Cardinality(s) = n /\ ~Good(s)}
<1> HIDE DEF v
<1>4. \A s \in SUBSET S : g[s] = Plus(f, g, s) /\ h[s] = Plus(e, h, s)
  <2>1. \A s \in SUBSET S : g[s] = Plus(f, g, s)
    BY <1>2
  <2>2. \A s \in SUBSET S : h[s] = Plus(e, h, s)
    BY <1>3
  <2>3. QED
    BY <2>1, <2>2
<1>5. Bad = {}
  <2> SUFFICES ASSUME Bad # {} PROVE FALSE
    OBVIOUS
  <2>1. PICK n \in Bad : \A m \in Bad : n <= m
    <3>1. Bad \in SUBSET Nat
      OBVIOUS
    <3> HIDE DEF Bad
    <3>2. QED
      BY <3>1, Least
  <2>2. PICK s \in SUBSET S : Cardinality(s) = n /\ ~Good(s)
    OBVIOUS
  <2>3. CASE s = {}
    <3>1. g[s] = 0 /\ h[s] = 0 /\ k \notin s
      BY <1>4, <2>3 DEF Plus
    <3>2. QED
      BY <2>2, <3>1
  <2>4. CASE s # {}
    <3> DEFINE x == Pick(s)
               r == s \ {Pick(s)}
    <3>1. /\ x \in s /\ r \in SUBSET S
          /\ n \in Nat /\ Cardinality(r) \in Nat /\ Cardinality(r) = n - 1
      BY <2>2, <2>4, Smaller
    <3>2. Good(r)
      BY <2>1, <3>1
    <3>3. g[s] = f[x] + g[r] /\ h[s] = e[x] + h[r]
      BY <1>4, <2>4 DEF Plus
    <3>4. x \in S /\ f[x] \in Int /\ f[k] \in Int /\ v \in Int /\ e[x] = IF x = k THEN v ELSE f[x]
      BY <1>1, <3>1
    <3>5. x \notin r /\ (x # k => (k \in s <=> k \in r))
      OBVIOUS
    <3> HIDE DEF x, r
    <3>6. CASE x = k
      BY <2>2, <3>1, <3>2, <3>3, <3>4, <3>5, <3>6
    <3>7. CASE x # k
      BY <2>2, <3>1, <3>2, <3>3, <3>4, <3>5, <3>7
    <3>8. QED
      BY <3>6, <3>7
  <2>5. QED
    BY <2>3, <2>4
<1>6. Good(S)
  <2>1. Cardinality(S) \in Nat
    BY FS_CardinalityType
  <2>2. QED
    BY <1>5, <2>1
<1>7. f[k] \in Int
  OBVIOUS
<1>8. QED
  BY <1>1, <1>2, <1>3, <1>6, <1>7 DEF v

\* The sum of zeros is zero.
LEMMA SumZero ==
  ASSUME NEW S, IsFiniteSet(S)
  PROVE  SumFunction([x \in S |-> 0]) = 0
<1> DEFINE f == [x \in S |-> 0]
<1>1. f \in [S -> Int]
  OBVIOUS
<1>2. PICK g : g = [s \in SUBSET S |-> Plus(f, g, s)] /\ SumFunction(f) = g[S]
  BY <1>1, SumTotals
<1> DEFINE Bad == {n \in Nat : \E s \in SUBSET S : Cardinality(s) = n /\ g[s] # 0}
<1>3. \A s \in SUBSET S : g[s] = Plus(f, g, s)
  BY <1>2
<1>4. Bad = {}
  <2> SUFFICES ASSUME Bad # {} PROVE FALSE
    OBVIOUS
  <2>1. PICK n \in Bad : \A m \in Bad : n <= m
    <3>1. Bad \in SUBSET Nat
      OBVIOUS
    <3> HIDE DEF Bad
    <3>2. QED
      BY <3>1, Least
  <2>2. PICK s \in SUBSET S : Cardinality(s) = n /\ g[s] # 0
    OBVIOUS
  <2>3. s # {}
    BY <1>3, <2>2 DEF Plus
  <2> DEFINE r == s \ {Pick(s)}
  <2>4. /\ Pick(s) \in s /\ r \in SUBSET S
        /\ n \in Nat /\ Cardinality(r) \in Nat /\ Cardinality(r) = n - 1
    BY <2>2, <2>3, Smaller
  <2>5. g[r] = 0
    BY <2>1, <2>4
  <2>6. g[s] = f[Pick(s)] + g[r]
    BY <1>3, <2>3 DEF Plus
  <2>7. f[Pick(s)] = 0
    BY <2>4
  <2>8. QED
    BY <2>2, <2>5, <2>6, <2>7
<1>5. Cardinality(S) \in Nat
  BY FS_CardinalityType
<1>6. g[S] = 0
  BY <1>4, <1>5
<1>7. QED
  BY <1>2, <1>6

\* Channels are finitely many and numbered from one.
LEMMA ChannelFinite == IsFiniteSet(Channel) /\ 1 \in Channel
<1>1. 1 \in Int /\ MaxUpdates + 1 \in Int /\ 1 \in Channel
  BY SchedulerConstantsOK DEF SchedulerConstantsOK, Channel
<1>2. QED
  BY <1>1, FS_Interval DEF Channel

\* Two fillings of a queue's channels that differ in channel k only.
LEMMA ChannelSum ==
  ASSUME NEW f \in [Channel -> Int], NEW e \in [Channel -> Int], NEW k \in Channel,
         \A g \in Channel \ {k} : e[g] = f[g]
  PROVE  SumFunction(f) \in Int /\ SumFunction(e) = SumFunction(f) + e[k] - f[k]
BY ChannelFinite, SumUpdate

\* A step that adds d to one channel of a queue and to its balance keeps the
\* account.
LEMMA OneChannel ==
  ASSUME SchedulerInv, CreditsConserved, NEW q \in Queue, NEW k \in Channel, NEW d \in Int,
         Adds(q, k, d)
  PROVE  CreditsConserved'
<1> USE DEF Adds
<1>1. /\ credits \in [Queue -> [Channel -> Nat]] /\ balance \in [Queue -> Int]
      /\ credits[q] \in [Channel -> Int] /\ credits[q][k] \in Int /\ balance[q] \in Int
  BY DEF SchedulerInv, TypeOK
<1>2. /\ credits'[q] \in [Channel -> Int] /\ credits'[q][k] = credits[q][k] + d
      /\ \A g \in Channel \ {k} : credits'[q][g] = credits[q][g]
  BY <1>1
<1>3. /\ SumFunction(credits[q]) \in Int
      /\ SumFunction(credits'[q]) = SumFunction(credits[q]) + credits'[q][k] - credits[q][k]
  BY <1>1, <1>2, ChannelSum
<1>4. balance'[q] = balance[q] + d /\ balance[q] = SumFunction(credits[q])
  BY <1>1 DEF CreditsConserved
<1>5. \A p \in Queue \ {q} : credits'[p] = credits[p] /\ balance'[p] = balance[p]
  BY <1>1
<1>6. SumFunction(credits'[q]) = balance'[q]
  BY <1>1, <1>2, <1>3, <1>4
<1>7. QED
  BY <1>4, <1>5, <1>6 DEF CreditsConserved

\* Before the first delivery there are no credits and the balance is zero.
LEMMA InitAccounts == Init => AccountsInv
<1> SUFFICES ASSUME Init PROVE AccountsInv
  OBVIOUS
<1>1. \A q \in Queue : balance[q] = 0 /\ credits[q] = [g \in Channel |-> 0]
  BY DEF Init
<1>2. SumFunction([g \in Channel |-> 0]) = 0
  BY ChannelFinite, SumZero
<1>3. QED
  BY <1>1, <1>2 DEF AccountsInv, CreditsConserved, UnopenedEmpty

\* Every step pays for the credits it adds to or takes from the channels.
LEMMA NextAccounts == SchedulerInv /\ AccountsInv /\ [Next]_vars => AccountsInv'
<1> SUFFICES ASSUME SchedulerInv, AccountsInv, [Next]_vars PROVE AccountsInv'
  OBVIOUS
<1> USE SchedulerConstantsOK DEF SchedulerConstantsOK
<1>1. /\ credits \in [Queue -> [Channel -> Nat]] /\ balance \in [Queue -> Int]
      /\ channel \in [Queue -> Channel \cup {NoChannel}]
      /\ CreditsConserved /\ UnopenedEmpty
  BY DEF SchedulerInv, TypeOK, AccountsInv
<1>2. CASE credits' = credits /\ balance' = balance /\ channel' = channel
  BY <1>1, <1>2 DEF AccountsInv, CreditsConserved, UnopenedEmpty
<1>3. ASSUME NEW w \in Worker, Enter(w) PROVE AccountsInv'
  <2>1. CASE Home[w] \in Known
    BY <1>2, <1>3, <2>1 DEF Enter, chans
  <2>2. CASE Home[w] \notin Known
    <3> DEFINE q   == Home[w]
               cap == CapacityOf(EffectiveWeight(weights, q), multiplier)
    <3>1. q \in Queue /\ cap \in Nat
      BY EffectiveType, WeightInt, CapacityPositive DEF SchedulerInv, TypeOK
    <3>2. channel[q] = 0 /\ 1 \in Channel /\ credits[q][1] = 0
      BY <1>1, <2>2, <3>1, ChannelFinite DEF Known, NoChannel, UnopenedEmpty
    <3>3. /\ credits' = [credits EXCEPT ![q][1] = cap]
          /\ balance' = [balance EXCEPT ![q] = @ + cap]
          /\ channel' = [channel EXCEPT ![q] = 1]
      BY <1>3, <2>2 DEF Enter
    <3> HIDE DEF q, cap
    <3>4. Adds(q, 1, cap)
      BY <1>1, <3>1, <3>2, <3>3 DEF Adds
    <3>5. CreditsConserved'
      BY <1>1, <3>1, <3>2, <3>4, OneChannel
    <3>6. UnopenedEmpty'
      BY <1>1, <3>1, <3>2, <3>3 DEF UnopenedEmpty, Channel, NoChannel
    <3>7. QED
      BY <3>5, <3>6 DEF AccountsInv
  <2>3. QED
    BY <2>1, <2>2
<1>4. ASSUME NEW w \in Worker, TakeCredit(w) PROVE AccountsInv'
  <2> DEFINE q == Home[w]
             k == held[w]
  <2>1. q \in Queue /\ k \in Channel /\ credits[q][k] \in Nat /\ credits[q][k] > 0
    BY <1>1, <1>4 DEF TakeCredit, SchedulerInv, LocksOK
  <2>2. /\ credits' = [credits EXCEPT ![q][k] = @ - 1]
        /\ balance' = [balance EXCEPT ![q] = @ - 1] /\ channel' = channel
    BY <1>4 DEF TakeCredit
  <2> HIDE DEF q, k
  <2>3. -1 \in Int /\ Adds(q, k, -1)
    <3>1. credits' = [credits EXCEPT ![q] = [credits[q] EXCEPT ![k] = @ + (-1)]]
      <4>1. credits[q][k] - 1 = credits[q][k] + (-1)
        BY <2>1
      <4>2. QED
        BY <1>1, <2>1, <2>2, <4>1
    <3>2. balance' = [balance EXCEPT ![q] = @ + (-1)]
      <4>1. balance[q] - 1 = balance[q] + (-1)
        BY <1>1, <2>1
      <4>2. QED
        BY <1>1, <2>1, <2>2, <4>1
    <3>3. QED
      BY <1>1, <2>1, <3>1, <3>2 DEF Adds
  <2>4. CreditsConserved'
    BY <1>1, <2>1, <2>3, OneChannel
  <2>5. UnopenedEmpty'
    BY <1>1, <2>1, <2>2 DEF UnopenedEmpty
  <2>6. QED
    BY <2>4, <2>5 DEF AccountsInv
<1>5. ASSUME AddCredit PROVE AccountsInv'
  <2> DEFINE q == filling
             k == channel[q]
  <2>1. q \in Queue /\ k \in Channel
    BY <1>5 DEF AddCredit, SchedulerInv, LocksOK, TypeOK, Known
  <2>2. credits[q][k] \in Nat
    BY <1>1, <2>1
  <2>3. channel' = channel
    BY <1>5 DEF AddCredit
  <2>4. CASE ~(credits[q][k] < capacity[q][k])
    BY <1>2, <1>5, <2>4 DEF AddCredit
  <2>5. CASE credits[q][k] < capacity[q][k]
    <3>1. /\ credits' = [credits EXCEPT ![q][k] = @ + 1]
          /\ balance' = [balance EXCEPT ![q] = @ + 1]
      BY <1>5, <2>5 DEF AddCredit
    <3>2. k = channel[q]
      OBVIOUS
    <3> HIDE DEF q, k
    <3>3. CreditsConserved'
      <4>1. 1 \in Int /\ Adds(q, k, 1)
        BY <3>1 DEF Adds
      <4>2. QED
        BY <1>1, <2>1, <4>1, OneChannel
    <3>4. UnopenedEmpty'
      BY <1>1, <2>1, <2>2, <2>3, <3>1, <3>2 DEF UnopenedEmpty, Channel
    <3>5. QED
      BY <3>3, <3>4 DEF AccountsInv
  <2>6. QED
    BY <2>4, <2>5
<1>6. ASSUME NEW q \in Queue, ResizeCreditChannel(q) PROVE AccountsInv'
  <2> DEFINE old == channel[q]
             new == channel[q] + 1
             cap == CapacityOf(weight[q], multiplier)
             n   == Transferable(credits[q][old], cap)
             kept == [credits[q] EXCEPT ![old] = @ - n]
  <2>1. old \in 1 .. updates /\ updates \in 0 .. MaxUpdates
    BY <1>6 DEF ResizeCreditChannel, SchedulerInv, LocksOK, TypeOK
  <2>2. old \in Channel /\ new \in Channel /\ old < new /\ old \in Nat /\ new = old + 1
    BY <2>1 DEF Channel
  <2>3. cap \in Nat /\ credits[q][old] \in Nat
    <3>1. weight[q] \in Int /\ multiplier \in Nat \ {0}
      BY WeightInt DEF SchedulerInv, TypeOK
    <3>2. QED
      BY <1>1, <2>2, <3>1, CapacityPositive
  <2>4. n \in Int /\ credits[q][new] = 0
    BY <1>1, <2>2, <2>3 DEF Transferable, UnopenedEmpty
  <2>5. /\ channel' = [channel EXCEPT ![q] = new]
        /\ credits' = [credits EXCEPT ![q] = [credits[q] EXCEPT ![old] = @ - n, ![new] = n]]
        /\ balance' = balance
    BY <1>6 DEF ResizeCreditChannel, Transfer
  <2>6. old = channel[q]
    OBVIOUS
  <2> HIDE DEF old, new, cap, n
  <2>7. /\ kept \in [Channel -> Int] /\ kept[new] = 0 /\ kept[old] = credits[q][old] - n
        /\ \A g \in Channel \ {old} : kept[g] = credits[q][g]
    BY <1>1, <2>2, <2>3, <2>4
  <2>8. /\ credits'[q] \in [Channel -> Int] /\ credits'[q][new] = n
        /\ \A g \in Channel \ {new} : credits'[q][g] = kept[g]
    BY <1>1, <2>2, <2>3, <2>4, <2>5
  <2> HIDE DEF kept
  <2>9. /\ SumFunction(credits[q]) \in Int
        /\ SumFunction(kept) = SumFunction(credits[q]) + kept[old] - credits[q][old]
    <3>1. credits[q] \in [Channel -> Int]
      BY <1>1
    <3>2. QED
      BY <2>2, <2>7, <3>1, ChannelSum
  <2>10. /\ SumFunction(kept) \in Int
         /\ SumFunction(credits'[q]) = SumFunction(kept) + credits'[q][new] - kept[new]
    BY <2>2, <2>7, <2>8, ChannelSum
  <2>11. SumFunction(credits'[q]) = SumFunction(credits[q])
    BY <2>3, <2>4, <2>7, <2>8, <2>9, <2>10
  <2>12. CreditsConserved'
    <3>1. \A p \in Queue \ {q} : credits'[p] = credits[p]
      BY <1>1, <2>5
    <3>2. QED
      BY <1>1, <2>5, <2>11, <3>1 DEF CreditsConserved
  <2>13. UnopenedEmpty'
    <3>1. \A p \in Queue \ {q} : credits'[p] = credits[p] /\ channel'[p] = channel[p]
      BY <1>1, <2>5
    <3>2. \A g \in Channel : g > new => credits'[q][g] = credits[q][g] /\ g > old
      BY <1>1, <2>2, <2>5 DEF Channel
    <3>3. channel'[q] = new
      BY <1>1, <2>5
    <3>4. QED
      BY <1>1, <2>6, <3>1, <3>2, <3>3 DEF UnopenedEmpty
  <2>14. QED
    BY <2>12, <2>13 DEF AccountsInv
<1>7. CASE UNCHANGED vars
  BY <1>2, <1>7 DEF vars
<1>8. QED
  BY <1>2, <1>3, <1>4, <1>5, <1>6, <1>7
  DEF Next, Step, Refill, Update, CheckStarvation, ReadChannel, Leave, Finish, Age,
      Tick, RefillQueue, UpdateWeights, VisitQueue, UpdateDone, Reconfigure, Cancel,
      Stop, chans

\* Refills, resizes and waiters on replaced channels together neither lose nor
\* forge a credit: what was issued and not spent lies in the queue's channels.
THEOREM CreditsStayConserved == Safety => []CreditsConserved
<1>1. AccountsInv => CreditsConserved
  BY DEF AccountsInv
<1>2. QED
  BY <1>1, InitAccounts, NextAccounts, SchedulerInvariant, PTL DEF Safety

\* Unless the multiplier changes, every step leaves the channels in use with the
\* size of their weights, but for the one updateWeights is about to replace.
LEMMA NextCapacities ==
  SchedulerInv /\ CapacitiesVisited /\ [Next]_vars => CapacitiesVisited'
<1> SUFFICES ASSUME SchedulerInv, CapacitiesVisited, [Next]_vars
             PROVE  CapacitiesVisited'
  OBVIOUS
<1> USE SchedulerConstantsOK DEF SchedulerConstantsOK
<1>1. /\ capacity \in [Queue -> [Channel -> Nat]]
      /\ weight \in [Queue -> Weight \cup {Unset, DefaultWeight}]
      /\ channel \in [Queue -> Channel \cup {NoChannel}]
      /\ madeWith \in [Queue -> Multiplier \cup {0}]
  BY DEF SchedulerInv, TypeOK
<1>2. CASE /\ capacity' = capacity /\ weight' = weight /\ channel' = channel
           /\ resizing' = resizing /\ madeWith' = madeWith
  BY <1>2 DEF CapacitiesVisited, Known
<1>3. ASSUME NEW w \in Worker, Enter(w) PROVE CapacitiesVisited'
  <2>1. CASE Home[w] \in Known
    BY <1>2, <1>3, <2>1 DEF Enter, chans, store, updater
  <2>2. CASE Home[w] \notin Known
    <3> DEFINE q   == Home[w]
               wt  == EffectiveWeight(weights, q)
               cap == CapacityOf(wt, multiplier)
    <3>1. q \in Queue /\ 1 \in Channel
      BY ChannelFinite
    <3>2. /\ weight'   = [weight EXCEPT ![q] = wt]
          /\ channel'  = [channel EXCEPT ![q] = 1]
          /\ capacity' = [capacity EXCEPT ![q][1] = cap]
          /\ madeWith' = [madeWith EXCEPT ![q] = multiplier] /\ resizing' = resizing
      BY <1>3, <2>2 DEF Enter, store, updater
    <3>3. cap = CapacityOf(wt, multiplier)
      OBVIOUS
    <3> HIDE DEF q, wt, cap
    <3>4. /\ weight'[q] = wt /\ channel'[q] = 1 /\ capacity'[q][1] = cap
          /\ madeWith'[q] = multiplier
          /\ \A p \in Queue \ {q} : /\ weight'[p] = weight[p] /\ channel'[p] = channel[p]
                                    /\ capacity'[p] = capacity[p] /\ madeWith'[p] = madeWith[p]
      BY <1>1, <3>1, <3>2
    <3>5. QED
      BY <3>1, <3>2, <3>3, <3>4 DEF CapacitiesVisited, Known
  <2>3. QED
    BY <2>1, <2>2
<1>4. ASSUME NEW q \in Queue, VisitQueue(q) PROVE CapacitiesVisited'
  <2>1. /\ weight' = [weight EXCEPT ![q] = EffectiveWeight(weights, q)]
        /\ resizing = NoQueue
        /\ resizing' = IF weight[q] # EffectiveWeight(weights, q) THEN q ELSE NoQueue
        /\ channel' = channel /\ capacity' = capacity /\ madeWith' = madeWith
    BY <1>4 DEF VisitQueue, store
  <2>2. \A p \in Queue : p # resizing' => weight'[p] = weight[p]
    BY <1>1, <2>1
  <2>3. \A p \in Queue : p # resizing
    BY <2>1
  <2>4. QED
    BY <2>1, <2>2, <2>3 DEF CapacitiesVisited, Known
<1>5. ASSUME NEW q \in Queue, ResizeCreditChannel(q) PROVE CapacitiesVisited'
  <2> DEFINE new == channel[q] + 1
             cap == CapacityOf(weight[q], multiplier)
  <2>1. channel[q] \in 1 .. updates /\ updates \in 0 .. MaxUpdates /\ resizing = q
    BY <1>5 DEF ResizeCreditChannel, SchedulerInv, LocksOK, TypeOK
  <2>2. new \in Channel /\ channel[q] # NoChannel
    BY <2>1 DEF Channel, NoChannel
  <2>3. /\ channel' = [channel EXCEPT ![q] = new]
        /\ capacity' = [capacity EXCEPT ![q][new] = cap]
        /\ weight' = weight /\ madeWith' = [madeWith EXCEPT ![q] = multiplier]
    BY <1>5 DEF ResizeCreditChannel, store
  <2>4. cap = CapacityOf(weight[q], multiplier)
    OBVIOUS
  <2> HIDE DEF new, cap
  <2>5. /\ channel'[q] = new /\ capacity'[q][new] = cap /\ madeWith'[q] = multiplier
        /\ \A p \in Queue \ {q} : /\ channel'[p] = channel[p] /\ capacity'[p] = capacity[p]
                                  /\ madeWith'[p] = madeWith[p]
    BY <1>1, <2>2, <2>3
  <2>6. QED
    BY <2>1, <2>2, <2>3, <2>4, <2>5 DEF CapacitiesVisited, Known
<1>6. ASSUME NEW m \in Multiplier, NEW fresh \in SUBSET starving, Reconfigure(m, fresh)
      PROVE  CapacitiesVisited'
  BY <1>2, <1>6 DEF Reconfigure, chans, updater
<1>7. CASE UNCHANGED vars
  BY <1>2, <1>7 DEF vars
<1>8. QED
  BY <1>2, <1>3, <1>4, <1>5, <1>6, <1>7
  DEF Next, Step, Refill, Update, CheckStarvation, ReadChannel, TakeCredit, Leave,
      Finish, Age, Tick, RefillQueue, AddCredit, UpdateWeights, UpdateDone, Cancel,
      Stop, chans, store, updater

\* The size of a credit channel is the weight in force times the multiplier it was
\* made with, for any weights, reloads of the multiplier and updates: no change of
\* weight leaves a channel behind (updateWeights, resizeCreditChannel).
THEOREM CapacityStaysInForce == Safety => []CapacityInForce
<1>1. Init => CapacitiesVisited
  BY DEF Init, CapacitiesVisited, Known
<1>2. SchedulerInv /\ CapacitiesVisited => CapacityInForce
  BY SchedulerConstantsOK
  DEF SchedulerConstantsOK, SchedulerInv, LocksOK, CapacitiesVisited, CapacityInForce, Known
<1>3. QED
  BY <1>1, <1>2, NextCapacities, SchedulerInvariant, PTL DEF Safety
=============================================================================
