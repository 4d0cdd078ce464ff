-------------------------- MODULE PriorityScheduler --------------------------
(***************************************************************************)
(* Credit-based weighted round robin (priority_scheduler.go).  A batch of  *)
(* promotional messages is admitted by taking a credit from the buffered   *)
(* channel of its queue; a refill loop adds credits in proportion to the   *)
(* queue's weight; a weight change replaces the channel by a resized one;  *)
(* a queue that has not processed anything for maxStarvationAge needs no   *)
(* credit.                                                                 *)
(*                                                                         *)
(* Goroutines: the delivery processors of each queue (Worker), the refill  *)
(* loop, the weight watcher and the configuration watcher.  s.mu is held   *)
(* from UpdateWeights to UpdateDone, qs.creditsMu from RefillQueue to the  *)
(* last AddCredit; every other critical section is one step.               *)
(*                                                                         *)
(* The channels a queue has had are numbered; a goroutine keeps the number *)
(* of the channel it read, and old channels stay, as they do in Go for as  *)
(* long as someone receives from them.  Time is reduced to the set of      *)
(* queues whose lastProcessed is older than maxStarvationAge.              *)
(***************************************************************************)
EXTENDS Integers, Functions

CONSTANTS
  Queue,          \* queue names
  Worker,         \* delivery-processing goroutines
  Home,           \* Home[w]: the queue whose deliveries w handles
  Weight,         \* weights an administrator may store
  Multiplier,     \* creditMultiplier values the configuration may take
  DefaultWeight,  \* PRIORITY_DEFAULT_WEIGHT
  NoQueue,
  MaxUpdates,     \* bound: weight updates
  MaxReconfigs    \* bound: configuration updates

Unset   == -99                      \* a queue the weights map does not mention
Channel == 1 .. MaxUpdates + 1
NoChannel == 0

\* loadConfig and watchSchedulerConfig let only positive multipliers through.
ASSUME SchedulerConstantsOK ==
  /\ Home \in [Worker -> Queue]
  /\ Weight \subseteq Int /\ Unset \notin Weight
  /\ Multiplier \subseteq Nat \ {0} /\ Multiplier # {}
  /\ DefaultWeight \in Nat \ {0}
  /\ NoQueue \notin Queue
  /\ MaxUpdates \in Nat /\ MaxReconfigs \in Nat

VARIABLES
  weights,     \* s.weights
  multiplier,  \* s.creditMultiplier
  weight,      \* qs.weight, Unset while the queue has no queueState
  channel,     \* qs.credits: the number of the queue's current channel
  capacity,    \* capacity[q][g]: the size of channel g
  madeWith,    \* history: the multiplier when q's current channel was made
  credits,     \* credits[q][g]: the credits in channel g
  muHeld,      \* updateWeights holds s.mu
  unvisited,   \* queues updateWeights has still to visit
  resizing,    \* the queue whose weight is written and channel not yet replaced
  unfilled,    \* queues the current refillAllCredits has still to visit
  filling,     \* the queue whose creditsMu refillQueueCredits holds
  toAdd,       \* credits it has still to offer
  stage,       \* stage[w]: where in ProcessMessages w is
  held,        \* held[w]: the channel w read and waits on
  starving,    \* queues idle for more than maxStarvationAge
  ctxDone,     \* the workers' context is cancelled
  stopped,     \* Stop has returned
  balance,     \* history: credits issued minus credits spent, per queue
  updates, reconfigs

store   == <<weights, multiplier>>
chans   == <<weight, channel, capacity, madeWith, credits>>
updater == <<muHeld, unvisited, resizing>>
refill  == <<unfilled, filling, toAdd>>
workers == <<stage, held>>
life    == <<ctxDone, stopped>>
bounds  == <<updates, reconfigs>>
vars    == <<weights, multiplier, weight, channel, capacity, madeWith, credits,
             muHeld, unvisited, resizing, unfilled, filling, toAdd, stage, held,
             starving, ctxDone, stopped, balance, updates, reconfigs>>

Stage == {"idle", "entered", "fresh", "waiting", "processing"}

TypeOK ==
  /\ weights \in [Queue -> Weight \cup {Unset}]
  /\ multiplier \in Multiplier
  /\ weight \in [Queue -> Weight \cup {Unset, DefaultWeight}]
  /\ channel \in [Queue -> Channel \cup {NoChannel}]
  /\ capacity \in [Queue -> [Channel -> Nat]]
  /\ madeWith \in [Queue -> Multiplier \cup {0}]
  /\ credits \in [Queue -> [Channel -> Nat]]
  /\ muHeld \in BOOLEAN
  /\ unvisited \subseteq Queue /\ resizing \in Queue \cup {NoQueue}
  /\ unfilled \subseteq Queue /\ filling \in Queue \cup {NoQueue}
  /\ toAdd \in Nat
  /\ stage \in [Worker -> Stage]
  /\ held \in [Worker -> Channel \cup {NoChannel}]
  /\ starving \subseteq Queue
  /\ ctxDone \in BOOLEAN /\ stopped \in BOOLEAN
  /\ balance \in [Queue -> Int]
  /\ updates \in 0 .. MaxUpdates /\ reconfigs \in 0 .. MaxReconfigs

-----------------------------------------------------------------------------
Known == {q \in Queue : channel[q] # NoChannel}          \* the keys of s.queues

\* Faulty variant: the map is read without its ok, so that a queue it does not
\* mention gets weight 0 and not the default.
EffectiveWeightOrZero(ws, q) == IF ws[q] = Unset THEN 0 ELSE ws[q]

EffectiveWeight(ws, q) == IF ws[q] = Unset THEN DefaultWeight ELSE ws[q]

CapacityOf(w, m) == IF w * m <= 0 THEN m ELSE w * m

\* Faulty variant: a weight that is not positive refills nothing.
RefillWeightOnly(q) == IF weight[q] <= 0 THEN 0 ELSE weight[q]

RefillAmount(q) == IF weight[q] <= 0 THEN DefaultWeight ELSE weight[q]

\* The transfer loop ends when the new channel is full or the old one empty.
Transferable(available, room) ==
  IF available <= room THEN available ELSE room

\* Faulty variant: the new channel copies the credits of the old one.
TransferCopies(q, n) ==
  [credits[q] EXCEPT ![channel[q] + 1] = n]

\* The credits of a queue's channels after n of them moved to the next channel.
Transfer(q, n) ==
  [credits[q] EXCEPT ![channel[q]] = @ - n, ![channel[q] + 1] = n]

-----------------------------------------------------------------------------
(* Faulty variants of the actions below. *)

\* A queue state is created outside s.mu, from a snapshot of the weights that
\* an update has already replaced.
EnterUnlocked(w) ==
  LET q   == Home[w]
      cap == CapacityOf(DefaultWeight, multiplier)
  IN  /\ stage[w] = "idle"
      /\ stage' = [stage EXCEPT ![w] = "entered"]
      /\ IF q \in Known THEN UNCHANGED <<chans, balance>> ELSE
           /\ weight'   = [weight EXCEPT ![q] = DefaultWeight]
           /\ channel'  = [channel EXCEPT ![q] = 1]
           /\ capacity' = [capacity EXCEPT ![q][1] = cap]
           /\ madeWith' = [madeWith EXCEPT ![q] = multiplier]
           /\ credits'  = [credits EXCEPT ![q][1] = cap]
           /\ balance'  = [balance EXCEPT ![q] = @ + cap]
      /\ UNCHANGED <<store, updater, refill, held, starving, life, bounds>>

\* The weight changes and the channel keeps its size.
ResizeForgotten(q) ==
  /\ resizing = q /\ filling # q
  /\ resizing' = NoQueue
  /\ UNCHANGED <<store, chans, muHeld, unvisited, refill, workers, starving,
                 life, balance, bounds>>

\* Credits go to the first channel the queue ever had.
AddCreditFirstChannel ==
  LET q == filling
      g == 1
      room == credits[q][g] < capacity[q][g]
  IN  /\ filling # NoQueue
      /\ credits' = IF room THEN [credits EXCEPT ![q][g] = @ + 1] ELSE credits
      /\ balance' = IF room THEN [balance EXCEPT ![q] = @ + 1] ELSE balance
      /\ toAdd' = toAdd - 1
      /\ filling' = IF toAdd = 1 THEN NoQueue ELSE filling
      /\ UNCHANGED <<store, weight, channel, capacity, madeWith, updater, unfilled,
                     workers, starving, life, bounds>>

-----------------------------------------------------------------------------
\* NewPriorityScheduler, then Start with the weights loadWeights found.
Init ==
  /\ weights \in [Queue -> Weight \cup {Unset}]
  /\ multiplier \in Multiplier
  /\ weight = [q \in Queue |-> Unset]
  /\ channel = [q \in Queue |-> NoChannel]
  /\ capacity = [q \in Queue |-> [g \in Channel |-> 0]]
  /\ madeWith = [q \in Queue |-> 0]
  /\ credits = [q \in Queue |-> [g \in Channel |-> 0]]
  /\ muHeld = FALSE /\ unvisited = {} /\ resizing = NoQueue
  /\ unfilled = {} /\ filling = NoQueue /\ toAdd = 0
  /\ stage = [w \in Worker |-> "idle"]
  /\ held = [w \in Worker |-> NoChannel]
  /\ starving = {}
  /\ ctxDone = FALSE /\ stopped = FALSE
  /\ balance = [q \in Queue |-> 0]
  /\ updates = 0 /\ reconfigs = 0

\* ProcessMessages is called: getOrCreateQueueState, with a full channel for a
\* queue met for the first time.  A delivery may still come after the context is
\* cancelled: drainChannel's select picks any ready case.
Enter(w) ==
  LET q   == Home[w]
      wt  == EffectiveWeight(weights, q)
      cap == CapacityOf(wt, multiplier)
  IN  /\ ~muHeld /\ stage[w] = "idle"
      /\ stage' = [stage EXCEPT ![w] = "entered"]
      /\ IF q \in Known THEN UNCHANGED <<chans, balance>> ELSE
           /\ weight'   = [weight EXCEPT ![q] = wt]
           /\ channel'  = [channel EXCEPT ![q] = 1]
           /\ capacity' = [capacity EXCEPT ![q][1] = cap]
           /\ madeWith' = [madeWith EXCEPT ![q] = multiplier]
           /\ credits'  = [credits EXCEPT ![q][1] = cap]
           /\ balance'  = [balance EXCEPT ![q] = @ + cap]
      /\ UNCHANGED <<store, updater, refill, held, starving, life, bounds>>

\* acquireCredit: a starving queue needs no credit.
CheckStarvation(w) ==
  /\ ~muHeld /\ stage[w] = "entered"
  /\ stage' = [stage EXCEPT ![w] =
                 IF Home[w] \in starving THEN "processing" ELSE "fresh"]
  /\ UNCHANGED <<store, chans, updater, refill, held, starving, life, balance, bounds>>

\* acquireCredit reads qs.credits under creditsMu and waits on that channel.
ReadChannel(w) ==
  /\ stage[w] = "fresh" /\ filling # Home[w]
  /\ stage' = [stage EXCEPT ![w] = "waiting"]
  /\ held' = [held EXCEPT ![w] = channel[Home[w]]]
  /\ UNCHANGED <<store, chans, updater, refill, starving, life, balance, bounds>>

TakeCredit(w) ==
  /\ stage[w] = "waiting" /\ credits[Home[w]][held[w]] > 0
  /\ credits' = [credits EXCEPT ![Home[w]][held[w]] = @ - 1]
  /\ balance' = [balance EXCEPT ![Home[w]] = @ - 1]
  /\ stage' = [stage EXCEPT ![w] = "processing"]
  /\ held' = [held EXCEPT ![w] = NoChannel]
  /\ UNCHANGED <<store, weight, channel, capacity, madeWith, updater, refill,
                 starving, life, bounds>>

\* The waiter's context is cancelled: ProcessMessages returns the error.
Leave(w) ==
  /\ ctxDone /\ stage[w] = "waiting"
  /\ stage' = [stage EXCEPT ![w] = "idle"]
  /\ held' = [held EXCEPT ![w] = NoChannel]
  /\ UNCHANGED <<store, chans, updater, refill, starving, life, balance, bounds>>

\* The batch has been processed and lastProcessed is now.
Finish(w) ==
  /\ ~muHeld /\ stage[w] = "processing"
  /\ stage' = [stage EXCEPT ![w] = "idle"]
  /\ starving' = starving \ {Home[w]}
  /\ UNCHANGED <<store, chans, updater, refill, held, life, balance, bounds>>

\* maxStarvationAge passes without q processing anything.
Age(q) ==
  /\ q \in Known \ starving
  /\ starving' = starving \cup {q}
  /\ UNCHANGED <<store, chans, updater, refill, workers, life, balance, bounds>>

\* refillAllCredits, on every tick: a snapshot of s.queues.
Tick ==
  /\ ~stopped /\ ~muHeld
  /\ unfilled = {} /\ filling = NoQueue
  /\ unfilled' = Known /\ Known # {}
  /\ UNCHANGED <<store, chans, updater, filling, toAdd, workers, starving, life,
                 balance, bounds>>

\* refillQueueCredits locks creditsMu and reads the weight.
RefillQueue(q) ==
  /\ filling = NoQueue /\ q \in unfilled
  /\ unfilled' = unfilled \ {q}
  /\ toAdd' = RefillAmount(q)
  /\ filling' = IF RefillAmount(q) = 0 THEN NoQueue ELSE q
  /\ UNCHANGED <<store, chans, updater, workers, starving, life, balance, bounds>>

\* One turn of its loop: a full channel takes nothing, and the break in the
\* select leaves only the select, so the loop goes on.
AddCredit ==
  LET q == filling
      g == channel[q]
      room == credits[q][g] < capacity[q][g]
  IN  /\ filling # NoQueue
      /\ credits' = IF room THEN [credits EXCEPT ![q][g] = @ + 1] ELSE credits
      /\ balance' = IF room THEN [balance EXCEPT ![q] = @ + 1] ELSE balance
      /\ toAdd' = toAdd - 1
      /\ filling' = IF toAdd = 1 THEN NoQueue ELSE filling
      /\ UNCHANGED <<store, weight, channel, capacity, madeWith, updater, unfilled,
                     workers, starving, life, bounds>>

\* watchWeights received new weights: updateWeights locks s.mu.
UpdateWeights(ws) ==
  /\ ~stopped /\ ~muHeld /\ updates < MaxUpdates
  /\ updates' = updates + 1
  /\ weights' = ws
  /\ muHeld' = TRUE /\ unvisited' = Known
  /\ UNCHANGED <<multiplier, chans, resizing, refill, workers, starving, life,
                 balance, reconfigs>>

\* One queue of its loop, in any order: write the weight if it changed.
VisitQueue(q) ==
  LET wt == EffectiveWeight(weights, q)
  IN  /\ muHeld /\ resizing = NoQueue /\ q \in unvisited
      /\ unvisited' = unvisited \ {q}
      /\ weight' = [weight EXCEPT ![q] = wt]
      /\ resizing' = IF weight[q] # wt THEN q ELSE NoQueue
      /\ UNCHANGED <<store, channel, capacity, madeWith, credits, muHeld, refill,
                     workers, starving, life, balance, bounds>>

\* resizeCreditChannel, under creditsMu: credits beyond the new capacity stay
\* in the old channel, whose waiters go on waiting on it.
ResizeCreditChannel(q) ==
  LET cap == CapacityOf(weight[q], multiplier)
      n   == Transferable(credits[q][channel[q]], cap)
  IN  /\ resizing = q /\ filling # q
      /\ channel'  = [channel EXCEPT ![q] = @ + 1]
      /\ capacity' = [capacity EXCEPT ![q][channel[q] + 1] = cap]
      /\ madeWith' = [madeWith EXCEPT ![q] = multiplier]
      /\ credits'  = [credits EXCEPT ![q] = Transfer(q, n)]
      /\ resizing' = NoQueue
      /\ UNCHANGED <<store, weight, muHeld, unvisited, refill, workers, starving,
                     life, balance, bounds>>

UpdateDone ==
  /\ muHeld /\ resizing = NoQueue /\ unvisited = {}
  /\ muHeld' = FALSE
  /\ UNCHANGED <<store, chans, unvisited, resizing, refill, workers, starving,
                 life, balance, bounds>>

\* watchSchedulerConfig: a new multiplier, and a larger maxStarvationAge may
\* make starving queues fresh again (a smaller one is Age).
Reconfigure(m, fresh) ==
  /\ ~stopped /\ ~muHeld /\ reconfigs < MaxReconfigs
  /\ reconfigs' = reconfigs + 1
  /\ multiplier' = m
  /\ starving' = starving \ fresh
  /\ UNCHANGED <<weights, chans, updater, refill, workers, life, balance, updates>>

\* main cancels the workers' context before Shutdown calls Stop.
Cancel ==
  /\ ~ctxDone /\ ctxDone' = TRUE
  /\ UNCHANGED <<store, chans, updater, refill, workers, starving, stopped,
                 balance, bounds>>

\* Stop cancels the scheduler's own context and wg.Wait has seen the refill loop
\* and the watchers return, which they do between two rounds of their work.
Stop ==
  /\ ctxDone /\ ~stopped /\ stopped' = TRUE
  /\ ~muHeld /\ unfilled = {} /\ filling = NoQueue
  /\ UNCHANGED <<store, chans, updater, refill, workers, starving, ctxDone,
                 balance, bounds>>

Step(w)  == Enter(w) \/ CheckStarvation(w) \/ ReadChannel(w) \/ Finish(w)
Refill   == Tick \/ (\E q \in Queue : RefillQueue(q)) \/ AddCredit
Update   == (\E q \in Queue : VisitQueue(q) \/ ResizeCreditChannel(q)) \/ UpdateDone

Next ==
  \/ \E w \in Worker : Step(w) \/ TakeCredit(w) \/ Leave(w)
  \/ \E q \in Queue : Age(q)
  \/ Refill
  \/ Update
  \/ \E ws \in [Queue -> Weight \cup {Unset}] : UpdateWeights(ws)
  \/ \E m \in Multiplier, fresh \in SUBSET starving : Reconfigure(m, fresh)
  \/ Cancel
  \/ Stop

\* The ticker ticks and every goroutine that can run does.  Receivers of a Go
\* channel are served in the order in which they began to wait, so a waiter is
\* not passed over for ever while credits come and go: strong fairness.
Fairness ==
  /\ \A w \in Worker : /\ WF_vars(Step(w))
                       /\ SF_vars(TakeCredit(w))
                       /\ WF_vars(Leave(w))
  /\ WF_vars(Refill)
  /\ WF_vars(Update)

Safety == Init /\ [][Next]_vars
Spec   == Safety /\ Fairness

-----------------------------------------------------------------------------
(* Properties *)

\* Weight changes, refills and waiters on replaced channels together neither
\* lose nor forge a credit (resizeCreditChannel, refillQueueCredits): what was
\* issued and not spent lies in one of the queue's channels.
CreditsConserved ==
  \A q \in Queue : balance[q] = SumFunction(credits[q])

\* A queue created while weights are being changed does not miss the change
\* (getOrCreateQueueState and updateWeights under s.mu): between updates every
\* queue has the weight the last update gave it.
WeightInForce ==
  ~muHeld => \A q \in Known : weight[q] = EffectiveWeight(weights, q)

\* docs/usage.md:607 "Credit Capacity | weight x creditMultiplier": between updates
\* the channel in use has the size its weight asks for, although weight and channel
\* change in two steps (updateWeights, resizeCreditChannel).  The multiplier is the
\* one in force when the channel was made: a reload (watchSchedulerConfig) resizes
\* nothing and reaches a queue with its next change of weight.
CapacityInForce ==
  ~muHeld => \A q \in Known :
    capacity[q][channel[q]] = CapacityOf(weight[q], madeWith[q])

\* A replaced channel is only drained (refillQueueCredits reads qs.credits under
\* creditsMu): no refill in progress during a resize credits the old channel.
OldChannelsOnlyDrain ==
  [][\A q \in Queue, g \in Channel :
       g # channel'[q] => credits'[q][g] <= credits[q][g]]_vars

\* docs/usage.md:575 "even weight=1 queues don't starve indefinitely": a batch
\* that waits for a credit is admitted, or its context is cancelled.
WaitersServed == \A w \in Worker : stage[w] = "waiting" ~> stage[w] # "waiting"

\* No batch waits for ever on a channel in use, and none beyond a shutdown
\* (acquireCredit, refillQueueCredits): a waiting goroutine gets its credit or
\* leaves, unless a weight change replaced its channel and nothing was cancelled.
WaitersFreed ==
  \A w \in Worker : stage[w] = "waiting" ~>
    stage[w] # "waiting" \/ (held[w] # channel[Home[w]] /\ ~ctxDone)
=============================================================================
