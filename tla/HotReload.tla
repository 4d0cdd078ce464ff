------------------------------ MODULE HotReload ------------------------------
(***************************************************************************)
(* Settings that change at run time, as one pod sees them: the rate limits *)
(* (dynamic_config.go, watched by limiter.go) and the queue weights        *)
(* (priority_store.go, watched by priority_scheduler.go).  Both live in a  *)
(* Redis hash; a change is an HSET followed by a PUBLISH, by this pod's    *)
(* own API, by another pod or by an operator.  A watcher goroutine reads   *)
(* the hash after each notification, fills a local cache and passes the    *)
(* news on through a channel of capacity 1: for rates a token, upon which  *)
(* the limiter reads the cache field by field; for weights a snapshot,     *)
(* which is skipped when the channel is full.                              *)
(*                                                                         *)
(* A value is the number of the write it comes from; 0 is the value of the *)
(* environment, 1 what Redis held before.  The read of a hash and the      *)
(* write of the cache are separate steps, as no lock spans them.           *)
(***************************************************************************)
EXTENDS Integers

CONSTANTS
  Fields,      \* number of fields of the rate-limit hash
  MaxWrites,   \* bound: changes made while the pod runs
  MaxFaults    \* bound: Redis commands that fail, notifications that get lost

ASSUME ReloadConstantsOK ==
  /\ Fields \in Nat \ {0} /\ MaxWrites \in Nat /\ MaxFaults \in Nat

Field   == 1 .. Fields
Env     == 0                        \* the value of the environment
Old     == 1                        \* what Redis held when the pod started
Version == 0 .. MaxWrites + 1
Missing == -1                       \* no such field; no snapshot in the channel
Setting == Version \cup {Missing}

VARIABLES
  rates,      \* Redis: the hash of rate limits
  stored,     \* Redis: the hash of weights, as one value
  latest,     \* the number of the last write
  extern,     \* the hash somebody else has written and not yet published
  cache,      \* dc.cache of the namespace
  watcher,    \* where the goroutine of Watch is
  seen,       \* the hash it has read
  inbox,      \* notifications it has still to receive
  token,      \* the channel of Watch holds its one element
  next,       \* the field the limiter sets next, 0 when it waits
  rate,       \* the limiter's rates
  call,       \* where a call to this pod's stores is
  value,      \* the fields it will put into dc.cache, Missing where it puts none
  read,       \* the weights it has read
  weightCache, cacheValid,           \* s.cachedWeights, s.cacheValid
  weightWatcher, snapshot,           \* the goroutine of WatchWeights, what it read
  weightInbox,
  watchChan,  \* the channel of WatchWeights: Missing or a snapshot
  weights,    \* the scheduler's weights
  ratesDue,   \* history: a rate was written and no notification that the
              \* watcher could act upon has followed
  weightsDue, \* history: the same for weights
  skipped,    \* history: the newest snapshot was skipped
  down, faults

redis     == <<rates, stored, latest, extern>>
config    == <<cache, watcher, seen, inbox, token>>
limiter   == <<next, rate>>
api       == <<call, value, read>>
store     == <<weightCache, cacheValid>>
watch     == <<weightWatcher, snapshot, weightInbox, watchChan>>
history   == <<ratesDue, weightsDue, skipped>>
vars      == <<rates, stored, latest, extern, cache, watcher, seen, inbox, token,
               next, rate, call, value, read, weightCache, cacheValid,
               weightWatcher, snapshot, weightInbox, watchChan, weights,
               ratesDue, weightsDue, skipped, down, faults>>

Nothing == [f \in Field |-> Missing]
Watcher == {"off", "loaded", "idle", "fetched", "gone"}
RateCall   == {"cacheFields", "refresh", "cacheAll", "publish"}
WeightCall == {"invalidate", "publishWeights"}

TypeOK ==
  /\ rates \in [Field -> Setting] /\ stored \in Version /\ latest \in Version
  /\ extern \in {"none", "rates", "weights"}
  /\ cache \in [Field -> Setting] /\ seen \in [Field -> Setting]
  /\ watcher \in Watcher /\ inbox \in 0 .. MaxWrites /\ token \in BOOLEAN
  /\ next \in 0 .. Fields /\ rate \in [Field -> Version]
  /\ call \in {"idle", "fill"} \cup RateCall \cup WeightCall
  /\ value \in [Field -> Setting] /\ read \in Setting
  /\ weightCache \in Version /\ cacheValid \in BOOLEAN
  /\ weightWatcher \in Watcher /\ snapshot \in Setting
  /\ weightInbox \in 0 .. MaxWrites
  /\ watchChan \in Setting /\ weights \in Version
  /\ ratesDue \in BOOLEAN /\ weightsDue \in BOOLEAN /\ skipped \in BOOLEAN
  /\ down \in BOOLEAN /\ faults \in 0 .. MaxFaults

-----------------------------------------------------------------------------
Fault    == faults < MaxFaults /\ faults' = faults + 1
Watching(w) == w \in {"idle", "fetched"}
Over(old, new) == [f \in Field |-> IF new[f] = Missing THEN old[f] ELSE new[f]]
Only(S, v)     == [f \in Field |-> IF f \in S THEN v ELSE Missing]

\* HSET of the fields S of the rate hash, or of the weights.
HSetRates(S) ==
  /\ latest <= MaxWrites /\ latest' = latest + 1
  /\ rates' = Over(rates, Only(S, latest'))
  /\ ratesDue' = TRUE

HSetWeights ==
  /\ latest <= MaxWrites /\ latest' = latest + 1
  /\ stored' = latest' /\ weightsDue' = TRUE

\* PUBLISH: it reaches this pod's watcher if that has subscribed, unless the
\* command fails or the subscription is broken at that moment.
PublishRates ==
  \/ /\ Watching(watcher)
     /\ inbox' = inbox + 1 /\ ratesDue' = FALSE /\ UNCHANGED faults
  \/ ~Watching(watcher) /\ ratesDue' = TRUE /\ UNCHANGED <<inbox, faults>>
  \/ Watching(watcher) /\ Fault /\ ratesDue' = TRUE /\ UNCHANGED inbox

PublishWeights ==
  \/ /\ Watching(weightWatcher)
     /\ weightInbox' = weightInbox + 1 /\ weightsDue' = FALSE /\ UNCHANGED faults
  \/ ~Watching(weightWatcher) /\ weightsDue' = TRUE /\ UNCHANGED <<weightInbox, faults>>
  \/ Watching(weightWatcher) /\ Fault /\ weightsDue' = TRUE /\ UNCHANGED weightInbox

-----------------------------------------------------------------------------
(* Faulty variants of the actions below. *)

\* The limiter forgets a signal that arrives during its round.
SetRateDrains ==
  /\ next > 0
  /\ rate' = [rate EXCEPT ![next] = IF cache[next] = Missing THEN @ ELSE cache[next]]
  /\ next' = (next + 1) % (Fields + 1)
  /\ token' = (token /\ next < Fields)
  /\ UNCHANGED <<redis, cache, watcher, seen, inbox, api, store, watch, weights, history,
                 down, faults>>

\* The round goes one field too far.
SetRatePastEnd ==
  /\ next > 0
  /\ rate' = [rate EXCEPT ![next] = IF cache[next] = Missing THEN @ ELSE cache[next]]
  /\ next' = next + 1
  /\ UNCHANGED <<redis, config, api, store, watch, weights, history, down, faults>>

\* The limiter listens for the first change only.
TakeTokenOnce ==
  /\ next = 0 /\ token /\ \A f \in Field : rate[f] = Env
  /\ token' = FALSE /\ next' = 1
  /\ UNCHANGED <<redis, cache, watcher, seen, inbox, rate, api, store, watch, weights,
                 history, down, faults>>

\* WatchWeights asks GetQueueWeights, which prefers the cache, instead of Redis.
ReceiveWeightsCached ==
  /\ weightWatcher = "idle" /\ weightInbox > 0
  /\ weightInbox' = weightInbox - 1
  /\ weightWatcher' = "fetched"
  /\ snapshot' = IF cacheValid THEN weightCache ELSE stored
  /\ weightsDue' = FALSE
  /\ UNCHANGED <<redis, config, limiter, api, store, watchChan, weights, ratesDue,
                 skipped, down, faults>>

-----------------------------------------------------------------------------
\* NewDynamicConfig and Seed: Seed writes the environment's value into absent
\* fields; it may have failed, and so may the reads that fill the cache.
InitConfig ==
  /\ \E absent \in {Env, Missing} : rates \in [Field -> {absent, Old}]
  /\ cache \in {rates, Nothing}
  /\ watcher = "off" /\ seen = Nothing /\ inbox = 0 /\ token = FALSE

\* NewPriorityStore, which falls back to the defaults.
InitStore ==
  /\ stored = Old /\ weightCache \in {Env, Old} /\ cacheValid = TRUE
  /\ weightWatcher = "off" /\ snapshot = Missing /\ weightInbox = 0
  /\ watchChan = Missing /\ weights = Env

\* New builds the limiter from the environment.
InitLimiter == next = 0 /\ rate = [f \in Field |-> Env]

Init ==
  /\ InitConfig /\ InitStore /\ InitLimiter
  /\ latest = Old /\ extern = "none"
  /\ call = "idle" /\ value = Nothing /\ read = Missing
  /\ ratesDue = TRUE /\ weightsDue = TRUE /\ skipped = FALSE
  /\ down = FALSE /\ faults = 0

\* Another pod or an operator writes a hash, and later publishes.
OtherWrites ==
  /\ extern = "none"
  /\ \/ /\ extern' = "rates"
        /\ \E S \in SUBSET Field \ {{}} : HSetRates(S)
        /\ UNCHANGED <<stored, weightsDue>>
     \/ /\ extern' = "weights" /\ HSetWeights
        /\ UNCHANGED <<rates, ratesDue>>
  /\ UNCHANGED <<config, limiter, api, store, watch, weights, skipped, down, faults>>

OtherPublishes ==
  /\ extern # "none" /\ extern' = "none"
  /\ \/ extern = "rates" /\ PublishRates /\ UNCHANGED <<weightInbox, weightsDue>>
     \/ extern = "weights" /\ PublishWeights /\ UNCHANGED <<inbox, ratesDue>>
  /\ UNCHANGED <<rates, stored, latest, cache, watcher, seen, token, limiter, api,
                 store, weightWatcher, snapshot, watchChan, weights, skipped, down>>

-----------------------------------------------------------------------------
(* Calls to this pod's own stores, once Start has loaded the weights. *)

Accepting == call = "idle" /\ weightWatcher \notin {"off", "gone"}

SetInt(f) ==
  /\ Accepting /\ HSetRates({f})
  /\ call' = "cacheFields" /\ value' = Only({f}, latest')
  /\ UNCHANGED <<stored, extern, config, limiter, read, store, watch, weights,
                 weightsDue, skipped, down, faults>>

\* Fields are added to a namespace that has been read, be it empty.
CacheFields ==
  /\ call = "cacheFields" /\ call' = "publish"
  /\ \/ cache' = Over(cache, value)
     \/ cache = Nothing /\ UNCHANGED cache
  /\ value' = Nothing
  /\ UNCHANGED <<redis, watcher, seen, inbox, token, limiter, read, store, watch,
                 weights, history, down, faults>>

SetAll(S) ==
  /\ Accepting /\ HSetRates(S)
  /\ call' = "refresh"
  /\ UNCHANGED <<stored, extern, config, limiter, value, read, store, watch, weights,
                 weightsDue, skipped, down, faults>>

\* refreshNamespace, whose error SetAll ignores.
Refresh ==
  /\ call = "refresh"
  /\ \/ call' = "cacheAll" /\ value' = rates /\ UNCHANGED faults
     \/ call' = "publish" /\ Fault /\ UNCHANGED value
  /\ UNCHANGED <<redis, config, limiter, read, store, watch, weights, history, down>>

CacheAll ==
  /\ call = "cacheAll" /\ call' = "publish"
  /\ cache' = value /\ value' = Nothing
  /\ UNCHANGED <<redis, watcher, seen, inbox, token, limiter, read, store, watch,
                 weights, history, down, faults>>

Publish ==
  /\ call = "publish" /\ call' = "idle" /\ PublishRates
  /\ UNCHANGED <<redis, cache, watcher, seen, token, limiter, value, read, store,
                 watch, weights, weightsDue, skipped, down>>

SetQueueWeights ==
  /\ Accepting /\ HSetWeights
  /\ call' = "invalidate"
  /\ UNCHANGED <<rates, extern, config, limiter, value, read, store, watch, weights,
                 ratesDue, skipped, down, faults>>

Invalidate ==
  /\ call = "invalidate" /\ call' = "publishWeights"
  /\ cacheValid' = FALSE
  /\ UNCHANGED <<redis, config, limiter, value, read, weightCache, watch, weights,
                 history, down, faults>>

NotifyChange ==
  /\ call = "publishWeights" /\ call' = "idle" /\ PublishWeights
  /\ UNCHANGED <<redis, config, limiter, value, read, store, weightWatcher, snapshot,
                 watchChan, weights, ratesDue, skipped, down>>

\* GetQueueWeights that misses the cache; an error changes nothing.
GetQueueWeights ==
  /\ Accepting /\ ~cacheValid
  /\ call' = "fill" /\ read' = stored
  /\ UNCHANGED <<redis, config, limiter, value, store, watch, weights, history, down, faults>>

Fill ==
  /\ call = "fill" /\ call' = "idle"
  /\ weightCache' = read /\ cacheValid' = TRUE /\ read' = Missing
  /\ UNCHANGED <<redis, config, limiter, value, watch, weights, history, down, faults>>

-----------------------------------------------------------------------------
(* The goroutine of Watch and the limiter. *)

\* Watch, called by WatchDynamicConfig; after an error nobody watches.
Watch ==
  /\ watcher = "off"
  /\ \/ watcher' = "idle" /\ UNCHANGED faults
     \/ watcher' = "gone" /\ Fault
  /\ UNCHANGED <<redis, cache, seen, inbox, token, limiter, api, store, watch, weights,
                 history, down>>

\* A notification; the hash is read.
Receive ==
  /\ watcher = "idle" /\ inbox > 0
  /\ inbox' = inbox - 1 /\ watcher' = "fetched"
  /\ \/ seen' = rates /\ ratesDue' = FALSE /\ UNCHANGED faults
     \/ seen' = Nothing /\ ratesDue' = TRUE /\ Fault
  /\ UNCHANGED <<redis, cache, token, limiter, api, store, watch, weights, weightsDue,
                 skipped, down>>

\* The cache is filled unless the read failed; a token is sent unless one waits.
Signal ==
  /\ watcher = "fetched" /\ watcher' = "idle"
  /\ cache' = IF seen = Nothing THEN cache ELSE seen
  /\ seen' = Nothing /\ token' = TRUE
  /\ UNCHANGED <<redis, inbox, limiter, api, store, watch, weights, history, down, faults>>

TakeToken ==
  /\ next = 0 /\ token
  /\ token' = FALSE /\ next' = 1
  /\ UNCHANGED <<redis, cache, watcher, seen, inbox, rate, api, store, watch, weights,
                 history, down, faults>>

\* SetRate(GetInt(...)); a field the cache lacks keeps its rate.
SetRate ==
  /\ next > 0
  /\ rate' = [rate EXCEPT ![next] = IF cache[next] = Missing THEN @ ELSE cache[next]]
  /\ next' = (next + 1) % (Fields + 1)
  /\ UNCHANGED <<redis, config, api, store, watch, weights, history, down, faults>>

-----------------------------------------------------------------------------
(* The goroutine of WatchWeights and the scheduler. *)

\* Start, after WatchDynamicConfig: loadWeights, from the cache, before
\* watchWeights subscribes.
LoadWeights ==
  /\ watcher # "off" /\ weightWatcher = "off" /\ weightWatcher' = "loaded"
  /\ weights' = weightCache /\ weightsDue' = (weightCache # stored)
  /\ UNCHANGED <<redis, config, limiter, api, store, snapshot, weightInbox, watchChan,
                 ratesDue, skipped, down, faults>>

WatchWeights ==
  /\ weightWatcher = "loaded"
  /\ \/ weightWatcher' = "idle" /\ UNCHANGED faults
     \/ weightWatcher' = "gone" /\ Fault
  /\ UNCHANGED <<redis, config, limiter, api, store, snapshot, weightInbox, watchChan,
                 weights, history, down>>

\* A notification; the read that fails is not repeated.
ReceiveWeights ==
  /\ weightWatcher = "idle" /\ weightInbox > 0
  /\ weightInbox' = weightInbox - 1
  /\ \/ /\ weightWatcher' = "fetched" /\ snapshot' = stored
        /\ weightsDue' = FALSE /\ UNCHANGED faults
     \/ weightsDue' = TRUE /\ Fault /\ UNCHANGED <<weightWatcher, snapshot>>
  /\ UNCHANGED <<redis, config, limiter, api, store, watchChan, weights, ratesDue,
                 skipped, down>>

\* The cache is filled and the snapshot sent, or skipped when the channel is full.
SendWeights ==
  /\ weightWatcher = "fetched" /\ weightWatcher' = "idle"
  /\ weightCache' = snapshot /\ cacheValid' = TRUE /\ snapshot' = Missing
  /\ \/ watchChan = Missing /\ watchChan' = snapshot /\ skipped' = FALSE
     \/ /\ watchChan # Missing /\ UNCHANGED watchChan
        /\ skipped' = (watchChan # snapshot)
  /\ UNCHANGED <<redis, config, limiter, api, weightInbox, weights, ratesDue, weightsDue,
                 down, faults>>

UpdateWeights ==
  /\ watchChan # Missing /\ ~down
  /\ weights' = watchChan /\ watchChan' = Missing
  /\ UNCHANGED <<redis, config, limiter, api, store, weightWatcher, snapshot, weightInbox,
                 history, down, faults>>

\* PriorityScheduler.Stop, PriorityStore.Close and DynamicConfig.Close.
Close ==
  /\ weightWatcher # "off" /\ ~down /\ down' = TRUE
  /\ watcher' = "gone" /\ weightWatcher' = "gone"
  /\ inbox' = 0 /\ weightInbox' = 0 /\ seen' = Nothing /\ snapshot' = Missing
  /\ UNCHANGED <<redis, cache, token, limiter, api, store, watchChan, weights, history, faults>>

-----------------------------------------------------------------------------
Calls    == CacheFields \/ Refresh \/ CacheAll \/ Publish \/ Invalidate \/ NotifyChange \/ Fill
Requests == \/ \E f \in Field : SetInt(f)
            \/ \E S \in SUBSET Field \ {{}} : SetAll(S)
            \/ SetQueueWeights \/ GetQueueWeights
Others   == OtherWrites \/ OtherPublishes

RateLoop   == Receive \/ Signal
WeightLoop == ReceiveWeights \/ SendWeights
Starting   == Watch \/ LoadWeights \/ WatchWeights
Limiter    == TakeToken \/ SetRate

Next == Others \/ Requests \/ Calls \/ Starting \/ RateLoop \/ Limiter
        \/ WeightLoop \/ UpdateWeights \/ Close

\* Every goroutine of the pod goes on.  Nobody has to change a setting, and
\* whoever has written a hash need not live to publish it.
Fairness ==
  /\ WF_vars(Watch) /\ WF_vars(LoadWeights \/ WatchWeights) /\ WF_vars(Calls)
  /\ WF_vars(RateLoop) /\ WF_vars(Limiter)
  /\ WF_vars(WeightLoop) /\ WF_vars(UpdateWeights)

Safety == Init /\ [][Next]_vars
Spec   == Safety /\ Fairness

-----------------------------------------------------------------------------
\* Rates: a limit that differs from the one in Redis is on its way, whatever
\* the order in which the watcher, a call of this pod and the limiter read and
\* write the cache: a notification, a token or the rest of the limiter's round
\* is still to come, or a call that ends by publishing; or the change was never
\* announced to this pod (Watch, SetInt, SetAll, WatchDynamicConfig).
RatesFollow ==
  \A f \in Field :
    \/ rates[f] \in {rate[f], Missing}
    \/ ratesDue \/ down
    \/ call \in RateCall \/ inbox > 0 \/ watcher = "fetched"
    \/ token \/ next \in 1 .. f

\* Weights: the same for the scheduler, but a newest snapshot that found the
\* channel full is lost for good (WatchWeights, loadWeights, updateWeights).
WeightsFollow ==
  \/ weights = stored
  \/ weightsDue \/ skipped \/ down
  \/ weightInbox > 0 \/ weightWatcher = "fetched" \/ watchChan # Missing

\* Once nobody changes a setting any more, every announced change is applied,
\* for good, by the limiter and, unless its snapshot was skipped, by the
\* scheduler (the loops of Watch, WatchDynamicConfig and watchWeights).
ChangesApplied ==
  <>[](/\ ratesDue \/ down \/ \A f \in Field : rates[f] \in {rate[f], Missing}
       /\ weightsDue \/ skipped \/ down \/ weights = stored)
=============================================================================
