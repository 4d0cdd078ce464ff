--------------------------- MODULE HotReloadProofs ---------------------------
(***************************************************************************)
(* Proofs about HotReload for any number of fields, changes and faults.    *)
(***************************************************************************)
EXTENDS HotReload, TLAPS

One(p) == IF p THEN 1 ELSE 0

\* A notification waiting for a watcher, or still to be published, comes from a
\* write of its own.
Backed ==
  inbox + weightInbox + One(extern # "none") + One(call \in RateCall \cup WeightCall)
    <= latest - Old

\* A goroutine that has read the weights has a value in its hands.
ReadsOK ==
  /\ call = "fill" => read # Missing
  /\ weightWatcher = "fetched" => snapshot # Missing

\* News of the rates is still to reach the watcher, or never will.
RateNews == ratesDue \/ down \/ call \in RateCall \/ inbox > 0

\* Without news, the watcher holds the hash as it is, or has put it into the cache
\* and the limiter has set, or is still to set, each rate from there.
RatesKnown ==
  \/ RateNews
  \/ watcher = "fetched" /\ seen = rates
  \/ /\ watcher # "fetched"
     /\ \A f \in Field : rates[f] # Missing =>
          /\ cache[f] = rates[f]
          /\ rate[f] = rates[f] \/ token \/ next \in 1 .. f

\* The same for the weights, whose snapshot passes through the channel, unless it
\* was skipped there.
WeightNews == weightsDue \/ down \/ weightInbox > 0

WeightsKnown ==
  /\ weightWatcher = "off" => watchChan = Missing
  /\ \/ WeightNews
     \/ weightWatcher = "fetched" /\ snapshot = stored
     \/ /\ weightWatcher # "fetched"
        /\ skipped \/ IF watchChan = Missing THEN weights = stored ELSE watchChan = stored

ReloadInv == TypeOK /\ Backed /\ ReadsOK /\ RatesKnown /\ WeightsKnown

-----------------------------------------------------------------------------
\* Notifications stay backed by writes.
LEMMA BackedStep == ASSUME ReloadInv, [Next]_vars PROVE Backed'
<1> USE DEF One, RateCall, WeightCall, Old
<1>1. /\ inbox \in Nat /\ weightInbox \in Nat /\ latest \in Nat
      /\ Backed
  BY ReloadConstantsOK DEF ReloadInv, TypeOK, Version, ReloadConstantsOK
<1>2. CASE Others
  BY <1>1, <1>2 DEF Others, OtherWrites, OtherPublishes, HSetRates, HSetWeights,
     PublishRates, PublishWeights, Backed, api, config, watch
<1>3. CASE Requests
  <2>1. ASSUME NEW f \in Field, SetInt(f) PROVE Backed'
    BY <1>1, <2>1 DEF SetInt, Accepting, HSetRates, Backed, config, watch
  <2>2. ASSUME NEW S \in SUBSET Field \ {{}}, SetAll(S) PROVE Backed'
    BY <1>1, <2>2 DEF SetAll, Accepting, HSetRates, Backed, config, watch
  <2>3. CASE SetQueueWeights
    BY <1>1, <2>3 DEF SetQueueWeights, Accepting, HSetWeights, Backed, config, watch
  <2>4. CASE GetQueueWeights
    BY <1>1, <2>4 DEF GetQueueWeights, Accepting, Backed, config, watch, redis
  <2>5. QED
    BY <1>3, <2>1, <2>2, <2>3, <2>4 DEF Requests
<1>4. CASE Calls
  BY <1>1, <1>4 DEF Calls, CacheFields, Refresh, CacheAll, Publish, Invalidate,
     NotifyChange, Fill, PublishRates, PublishWeights, Backed, config, watch, redis
<1>5. CASE Starting \/ Limiter \/ UpdateWeights
  BY <1>1, <1>5 DEF Starting, Watch, LoadWeights, WatchWeights, Limiter, TakeToken, SetRate,
     UpdateWeights, Backed, config, watch, redis, api
<1>6. CASE RateLoop \/ WeightLoop \/ Close
  BY <1>1, <1>6 DEF RateLoop, Receive, Signal, WeightLoop, ReceiveWeights, SendWeights,
     Close, Backed, config, watch, redis, api
<1>7. CASE UNCHANGED vars
  BY <1>1, <1>7 DEF vars, Backed
<1>8. QED
  BY <1>2, <1>3, <1>4, <1>5, <1>6, <1>7 DEF Next

\* What has been read stays in hand until it is used.
LEMMA ReadsStep == ASSUME ReloadInv, [Next]_vars PROVE ReadsOK'
<1>1. ReadsOK /\ stored # Missing
  BY ReloadConstantsOK DEF ReloadInv, TypeOK, Version, Missing, ReloadConstantsOK
<1>2. CASE Others \/ Starting \/ RateLoop \/ Limiter \/ UpdateWeights
  BY <1>1, <1>2 DEF Others, OtherWrites, OtherPublishes, Starting, Watch, LoadWeights,
     WatchWeights, RateLoop, Receive, Signal, Limiter, TakeToken, SetRate, UpdateWeights,
     ReadsOK, api, watch
<1>3. CASE Requests
  BY <1>1, <1>3 DEF Requests, SetInt, SetAll, SetQueueWeights, GetQueueWeights, ReadsOK, watch
<1>4. CASE Calls
  BY <1>1, <1>4 DEF Calls, CacheFields, Refresh, CacheAll, Publish, Invalidate,
     NotifyChange, Fill, ReadsOK, watch
<1>5. CASE WeightLoop \/ Close
  BY <1>1, <1>5 DEF WeightLoop, ReceiveWeights, SendWeights, Close, ReadsOK, api
<1>6. CASE UNCHANGED vars
  BY <1>1, <1>6 DEF vars, ReadsOK
<1>7. QED
  BY <1>2, <1>3, <1>4, <1>5, <1>6 DEF Next

\* The limiter's rates follow through every step.
LEMMA RatesStep == ASSUME ReloadInv, [Next]_vars PROVE RatesKnown'
<1>1. RatesKnown /\ inbox \in Nat /\ next \in 0 .. Fields /\ Fields \in Nat \ {0}
      /\ rate \in [Field -> Version]
  BY ReloadConstantsOK DEF ReloadInv, TypeOK, ReloadConstantsOK
<1> USE DEF RateNews, RatesKnown, RateCall
<1>2. CASE OtherWrites
  BY <1>1, <1>2 DEF OtherWrites, HSetRates, HSetWeights, config, limiter, api
<1>3. CASE OtherPublishes
  BY <1>1, <1>3 DEF OtherPublishes, PublishRates, PublishWeights, limiter, api
<1>4. CASE Requests
  <2>1. ASSUME NEW f \in Field, SetInt(f) PROVE RatesKnown'
    BY <2>1 DEF SetInt, HSetRates
  <2>2. ASSUME NEW S \in SUBSET Field \ {{}}, SetAll(S) PROVE RatesKnown'
    BY <2>2 DEF SetAll, HSetRates
  <2>3. CASE SetQueueWeights
    BY <1>1, <2>3 DEF SetQueueWeights, Accepting, config, limiter
  <2>4. CASE GetQueueWeights
    BY <1>1, <2>4 DEF GetQueueWeights, Accepting, config, limiter, redis, history
  <2>5. QED
    BY <1>4, <2>1, <2>2, <2>3, <2>4 DEF Requests
<1>5. CASE CacheFields \/ Refresh \/ CacheAll \/ Publish
  BY <1>1, <1>5 DEF CacheFields, Refresh, CacheAll, Publish, PublishRates, config
<1>6. CASE Invalidate \/ NotifyChange \/ Fill
  BY <1>1, <1>6 DEF Invalidate, NotifyChange, Fill, config, limiter, redis, history
<1>7. CASE Starting \/ WeightLoop \/ UpdateWeights
  BY <1>1, <1>7 DEF Starting, Watch, LoadWeights, WatchWeights, WeightLoop, ReceiveWeights,
     SendWeights, UpdateWeights, config, limiter, redis, api, history
<1>8. CASE Receive
  BY <1>1, <1>8 DEF Receive, redis, limiter, api
<1>9. CASE Signal
  <2>1. ~RateNews => seen = rates
    BY <1>1, <1>9 DEF Signal
  <2>2. seen = Nothing => \A f \in Field : seen[f] = Missing
    BY DEF Nothing
  <2>3. QED
    BY <1>1, <1>9, <2>1, <2>2 DEF Signal, redis, limiter, api, history
<1>10. CASE TakeToken
  BY <1>1, <1>10 DEF TakeToken, redis, api, history, Field
<1>11. CASE SetRate
  <2>1. next \in Field
    BY <1>1, <1>11 DEF SetRate, Field
  <2>2. next' = IF next = Fields THEN 0 ELSE next + 1
    BY <1>1, <1>11, <2>1 DEF SetRate, Field
  <2>3. \A f \in Field : rate'[f] = IF f = next /\ cache[f] # Missing THEN cache[f] ELSE rate[f]
    BY <1>1, <1>11, <2>1 DEF SetRate
  <2>4. \A f \in Field : next \in 1 .. f => f = next \/ next' \in 1 .. f
    BY <1>1, <2>1, <2>2 DEF Field
  <2>5. QED
    BY <1>1, <1>11, <2>3, <2>4 DEF SetRate, redis, config, api, history
<1>12. CASE Close
  BY <1>12 DEF Close
<1>13. CASE UNCHANGED vars
  BY <1>1, <1>13 DEF vars
<1>14. QED
  BY <1>2, <1>3, <1>4, <1>5, <1>6, <1>7, <1>8, <1>9, <1>10, <1>11, <1>12, <1>13
  DEF Next, Others, Calls, RateLoop, Limiter

\* The scheduler's weights follow through every step.
LEMMA WeightsStep == ASSUME ReloadInv, [Next]_vars PROVE WeightsKnown'
<1>1. WeightsKnown /\ weightInbox \in Nat /\ ReadsOK
  BY DEF ReloadInv, TypeOK
<1> USE DEF WeightNews, WeightsKnown
<1>2. CASE Others
  BY <1>1, <1>2 DEF Others, OtherWrites, OtherPublishes, HSetRates, HSetWeights,
     PublishRates, PublishWeights, watch
<1>3. CASE Requests
  BY <1>1, <1>3 DEF Requests, SetInt, SetAll, SetQueueWeights, GetQueueWeights, Accepting,
     HSetRates, HSetWeights, watch, redis, history
<1>4. CASE Calls
  BY <1>1, <1>4 DEF Calls, CacheFields, Refresh, CacheAll, Publish, Invalidate,
     NotifyChange, Fill, PublishWeights, watch, redis, history
<1>5. CASE Starting
  BY <1>1, <1>5 DEF Starting, Watch, LoadWeights, WatchWeights, watch, redis, history
<1>6. CASE RateLoop \/ Limiter
  BY <1>1, <1>6 DEF RateLoop, Receive, Signal, Limiter, TakeToken, SetRate, watch, redis, history
<1>7. CASE ReceiveWeights
  BY <1>1, <1>7 DEF ReceiveWeights, redis
<1>8. CASE SendWeights
  <2>1. /\ weightWatcher = "fetched" /\ weightWatcher' = "idle" /\ stored' = stored
        /\ UNCHANGED <<weightInbox, weights, weightsDue, down>> /\ snapshot # Missing
    BY <1>1, <1>8 DEF SendWeights, ReadsOK, redis
  <2>2. \/ watchChan' = snapshot
        \/ watchChan' = watchChan /\ watchChan # snapshot /\ skipped' = TRUE
    BY <1>8 DEF SendWeights
  <2>3. snapshot = stored \/ weightsDue \/ down \/ weightInbox > 0
    BY <1>1, <2>1
  <2>4. QED
    BY <1>1, <2>1, <2>2, <2>3
<1>9. CASE UpdateWeights
  BY <1>1, <1>9 DEF UpdateWeights, redis, history
<1>10. CASE Close
  BY <1>1, <1>10 DEF Close
<1>11. CASE UNCHANGED vars
  BY <1>1, <1>11 DEF vars
<1>12. QED
  BY <1>2, <1>3, <1>4, <1>5, <1>6, <1>7, <1>8, <1>9, <1>10, <1>11 DEF Next, WeightLoop

-----------------------------------------------------------------------------
\* Merged and single fields are settings again.
LEMMA MergeFacts ==
  /\ \A S : \A v \in Setting : Only(S, v) \in [Field -> Setting]
  /\ \A a, b \in [Field -> Setting] : Over(a, b) \in [Field -> Setting]
  /\ Nothing \in [Field -> Setting] /\ Missing \in Setting
BY DEF Over, Only, Nothing, Setting

\* The next write has a number of its own as long as writes are left.
LEMMA WriteFacts ==
  ASSUME TypeOK
  PROVE  /\ \A S : HSetRates(S) => /\ latest' \in Version /\ latest' \in Setting
                                   /\ rates' \in [Field -> Setting] /\ ratesDue' \in BOOLEAN
         /\ HSetWeights => latest' \in Version /\ stored' \in Version /\ weightsDue' \in BOOLEAN
<1>1. latest <= MaxWrites => latest + 1 \in Version
  BY ReloadConstantsOK DEF TypeOK, Version, ReloadConstantsOK
<1>2. \A S : HSetRates(S) => latest' \in Version /\ rates' = Over(rates, Only(S, latest'))
  BY <1>1 DEF HSetRates
<1>3. HSetWeights => latest' \in Version /\ stored' \in Version
  BY <1>1 DEF HSetWeights
<1>4. (\A S : HSetRates(S) => ratesDue' \in BOOLEAN) /\ (HSetWeights => weightsDue' \in BOOLEAN)
  BY DEF HSetRates, HSetWeights
<1>5. \A S : HSetRates(S) => latest' \in Setting /\ rates' \in [Field -> Setting]
  BY <1>2, MergeFacts DEF TypeOK, Setting
<1>6. QED
  BY <1>2, <1>3, <1>4, <1>5

\* Notifications and faults stay within their bounds.
LEMMA PublishFacts ==
  ASSUME TypeOK
  PROVE  /\ Fault => faults' \in 0 .. MaxFaults
         /\ PublishRates => /\ inbox' \in Nat /\ ratesDue' \in BOOLEAN
                            /\ faults' \in 0 .. MaxFaults
         /\ PublishWeights => /\ weightInbox' \in Nat /\ weightsDue' \in BOOLEAN
                              /\ faults' \in 0 .. MaxFaults
<1>1. inbox \in Nat /\ weightInbox \in Nat /\ faults \in 0 .. MaxFaults /\ MaxFaults \in Nat
  BY ReloadConstantsOK DEF TypeOK, ReloadConstantsOK
<1>2. Fault => faults' \in 0 .. MaxFaults
  BY <1>1 DEF Fault
<1>3. (PublishRates => inbox' \in Nat) /\ (PublishWeights => weightInbox' \in Nat)
  BY <1>1 DEF PublishRates, PublishWeights
<1>4. (PublishRates => ratesDue' \in BOOLEAN) /\ (PublishWeights => weightsDue' \in BOOLEAN)
  BY DEF PublishRates, PublishWeights
<1>5. (PublishRates \/ PublishWeights) => faults' \in 0 .. MaxFaults
  BY <1>1, <1>2 DEF PublishRates, PublishWeights
<1>6. QED
  BY <1>2, <1>3, <1>4, <1>5

\* What backs the notifications bounds them.
LEMMA InboxBound ==
  ASSUME Backed', inbox' \in Nat, weightInbox' \in Nat, latest' \in Version
  PROVE  inbox' \in 0 .. MaxWrites /\ weightInbox' \in 0 .. MaxWrites
<1>1. /\ One(extern' # "none") \in Nat /\ One(call' \in RateCall \cup WeightCall) \in Nat
      /\ MaxWrites \in Nat
  BY ReloadConstantsOK DEF One, ReloadConstantsOK
<1>2. inbox' + weightInbox' + One(extern' # "none") + One(call' \in RateCall \cup WeightCall)
        <= latest' - 1
  BY DEF Backed, Old
<1>3. latest' \in 0 .. MaxWrites + 1
  BY DEF Version
<1>4. QED
  BY <1>1, <1>2, <1>3

\* Types are kept, the bound of the inboxes by the writes behind them.
LEMMA TypeStep == ASSUME ReloadInv, Backed', [Next]_vars PROVE TypeOK'
<1>1. TypeOK /\ ReadsOK /\ inbox \in Nat /\ weightInbox \in Nat
      /\ Fields \in Nat \ {0} /\ MaxWrites \in Nat
  BY ReloadConstantsOK DEF ReloadInv, TypeOK, ReloadConstantsOK
<1>2. \A v \in Setting : v # Missing => v \in Version
  BY DEF Setting
<1>3. \A v \in Version : v \in Setting
  BY DEF Setting
<1>4. TRUE \in BOOLEAN /\ FALSE \in BOOLEAN
  OBVIOUS
<1>5. CASE OtherWrites
  <2>1. /\ latest' \in Version /\ rates' \in [Field -> Setting] /\ stored' \in Version
        /\ ratesDue' \in BOOLEAN /\ weightsDue' \in BOOLEAN
        /\ extern' \in {"none", "rates", "weights"}
    BY <1>1, <1>5, WriteFacts DEF OtherWrites, TypeOK
  <2>2. QED
    BY <1>1, <1>5, <2>1 DEF OtherWrites, TypeOK, config, limiter, api, store, watch
<1>6. CASE OtherPublishes
  <2>1. /\ inbox' \in Nat /\ weightInbox' \in Nat /\ faults' \in 0 .. MaxFaults
        /\ ratesDue' \in BOOLEAN /\ weightsDue' \in BOOLEAN
    BY <1>1, <1>6, PublishFacts DEF OtherPublishes, TypeOK
  <2>2. inbox' \in 0 .. MaxWrites /\ weightInbox' \in 0 .. MaxWrites
    BY <1>1, <1>6, <2>1, InboxBound DEF OtherPublishes, TypeOK
  <2>3. QED
    BY <1>1, <1>6, <2>1, <2>2 DEF OtherPublishes, TypeOK, limiter, api, store
<1>7. ASSUME NEW f \in Field, SetInt(f) PROVE TypeOK'
  <2>1. /\ latest' \in Version /\ rates' \in [Field -> Setting] /\ ratesDue' \in BOOLEAN
        /\ value' \in [Field -> Setting]
    BY <1>1, <1>7, WriteFacts, MergeFacts DEF SetInt
  <2>2. QED
    BY <1>1, <1>7, <2>1 DEF SetInt, TypeOK, RateCall, config, limiter, store, watch
<1>8. ASSUME NEW S, SetAll(S) PROVE TypeOK'
  <2>1. latest' \in Version /\ rates' \in [Field -> Setting] /\ ratesDue' \in BOOLEAN
    BY <1>1, <1>8, WriteFacts DEF SetAll
  <2>2. QED
    BY <1>1, <1>8, <2>1 DEF SetAll, TypeOK, RateCall, config, limiter, store, watch
<1>9. CASE SetQueueWeights
  <2>1. latest' \in Version /\ stored' \in Version /\ weightsDue' \in BOOLEAN
    BY <1>1, <1>9, WriteFacts DEF SetQueueWeights
  <2>2. QED
    BY <1>1, <1>9, <2>1 DEF SetQueueWeights, TypeOK, WeightCall, config, limiter, store, watch
<1>10. CASE GetQueueWeights
  BY <1>1, <1>3, <1>10 DEF GetQueueWeights, TypeOK, redis, config, limiter, store, watch, history
<1>11. CASE CacheFields
  <2>1. cache' \in [Field -> Setting] /\ value' \in [Field -> Setting]
    BY <1>1, <1>11, MergeFacts DEF CacheFields, TypeOK
  <2>2. QED
    BY <1>1, <1>11, <2>1 DEF CacheFields, TypeOK, RateCall, redis, limiter, store, watch, history
<1>12. CASE Refresh
  <2>1. faults' \in 0 .. MaxFaults
    BY <1>1, <1>12, PublishFacts DEF Refresh, TypeOK
  <2>2. QED
    BY <1>1, <1>12, <2>1
    DEF Refresh, TypeOK, RateCall, redis, config, limiter, store, watch, history
<1>13. CASE CacheAll
  BY <1>1, <1>13, MergeFacts
  DEF CacheAll, TypeOK, RateCall, redis, limiter, store, watch, history
<1>14. CASE Publish
  <2>1. inbox' \in Nat /\ faults' \in 0 .. MaxFaults /\ ratesDue' \in BOOLEAN
    BY <1>1, <1>14, PublishFacts DEF Publish
  <2>2. inbox' \in 0 .. MaxWrites
    BY <1>1, <1>14, <2>1, InboxBound DEF Publish, TypeOK, redis, watch
  <2>3. QED
    BY <1>1, <1>14, <2>1, <2>2 DEF Publish, TypeOK, redis, limiter, store, watch
<1>15. CASE Invalidate
  BY <1>1, <1>15 DEF Invalidate, TypeOK, WeightCall, redis, config, limiter, watch, history
<1>16. CASE NotifyChange
  <2>1. weightInbox' \in Nat /\ faults' \in 0 .. MaxFaults /\ weightsDue' \in BOOLEAN
    BY <1>1, <1>16, PublishFacts DEF NotifyChange
  <2>2. weightInbox' \in 0 .. MaxWrites
    BY <1>1, <1>16, <2>1, InboxBound DEF NotifyChange, TypeOK, redis, config
  <2>3. QED
    BY <1>1, <1>16, <2>1, <2>2 DEF NotifyChange, TypeOK, redis, config, limiter, store
<1>17. CASE Fill
  <2>1. weightCache' \in Version /\ read' \in Setting
    BY <1>1, <1>2, <1>17, MergeFacts DEF Fill, ReadsOK, TypeOK
  <2>2. QED
    BY <1>1, <1>17, <2>1 DEF Fill, TypeOK, redis, config, limiter, watch, history
<1>18. CASE Watch
  <2>1. faults' \in 0 .. MaxFaults
    BY <1>1, <1>18, PublishFacts DEF Watch, TypeOK
  <2>2. QED
    BY <1>1, <1>18, <2>1 DEF Watch, Watcher, TypeOK, redis, limiter, api, store, watch, history
<1>19. CASE LoadWeights
  <2>1. weightsDue' \in BOOLEAN
    BY <1>19 DEF LoadWeights
  <2>2. QED
    BY <1>1, <1>19, <2>1 DEF LoadWeights, Watcher, TypeOK, redis, config, limiter, api, store
<1>20. CASE WatchWeights
  <2>1. faults' \in 0 .. MaxFaults
    BY <1>1, <1>20, PublishFacts DEF WatchWeights, TypeOK
  <2>2. QED
    BY <1>1, <1>20, <2>1
    DEF WatchWeights, Watcher, TypeOK, redis, config, limiter, api, store, history
<1>21. CASE Receive
  <2>1. faults' \in 0 .. MaxFaults /\ seen' \in [Field -> Setting]
    BY <1>1, <1>21, PublishFacts, MergeFacts DEF Receive, TypeOK
  <2>2. ratesDue' \in BOOLEAN
    BY <1>21 DEF Receive
  <2>3. inbox' \in 0 .. MaxWrites
    BY <1>1, <1>21 DEF Receive, TypeOK
  <2>4. QED
    BY <1>1, <1>21, <2>1, <2>2, <2>3
    DEF Receive, Watcher, TypeOK, redis, limiter, api, store, watch
<1>22. CASE Signal
  BY <1>1, <1>22, MergeFacts
  DEF Signal, Watcher, TypeOK, redis, limiter, api, store, watch, history
<1>23. CASE TakeToken
  <2>1. next' \in 0 .. Fields
    BY <1>1, <1>23 DEF TakeToken
  <2>2. token' \in BOOLEAN
    BY <1>23 DEF TakeToken
  <2>3. QED
    BY <1>1, <1>23, <2>1, <2>2 DEF TakeToken, TypeOK, redis, api, store, watch, history
<1>24. CASE SetRate
  <2>1. next \in Field /\ next' \in 0 .. Fields
    BY <1>1, <1>24 DEF SetRate, TypeOK, Field
  <2>2. cache[next] # Missing => cache[next] \in Version
    BY <1>1, <1>2, <2>1 DEF TypeOK
  <2>3. rate' \in [Field -> Version]
    BY <1>1, <1>24, <2>1, <2>2 DEF SetRate, TypeOK
  <2>4. QED
    BY <1>1, <1>24, <2>1, <2>3 DEF SetRate, TypeOK, redis, config, api, store, watch, history
<1>25. CASE ReceiveWeights
  <2>1. faults' \in 0 .. MaxFaults /\ snapshot' \in Setting /\ weightWatcher' \in Watcher
    BY <1>1, <1>3, <1>25, PublishFacts DEF ReceiveWeights, Watcher, TypeOK
  <2>2. weightsDue' \in BOOLEAN
    BY <1>25 DEF ReceiveWeights
  <2>3. weightInbox' \in 0 .. MaxWrites
    BY <1>1, <1>25 DEF ReceiveWeights, TypeOK
  <2>4. QED
    BY <1>1, <1>25, <2>1, <2>2, <2>3
    DEF ReceiveWeights, TypeOK, redis, config, limiter, api, store
<1>26. CASE SendWeights
  <2>1. weightCache' \in Version /\ snapshot' \in Setting /\ watchChan' \in Setting
    BY <1>1, <1>2, <1>26, MergeFacts DEF SendWeights, ReadsOK, TypeOK
  <2>2. skipped' \in BOOLEAN
    BY <1>26 DEF SendWeights
  <2>3. QED
    BY <1>1, <1>26, <2>1, <2>2 DEF SendWeights, Watcher, TypeOK, redis, config, limiter, api
<1>27. CASE UpdateWeights
  BY <1>1, <1>2, <1>27, MergeFacts
  DEF UpdateWeights, TypeOK, redis, config, limiter, api, store, history
<1>28. CASE Close
  <2>1. 0 \in 0 .. MaxWrites
    BY ReloadConstantsOK DEF ReloadConstantsOK
  <2>2. QED
    BY <1>1, <1>28, <2>1, MergeFacts
    DEF Close, Watcher, TypeOK, redis, limiter, api, store, history
<1>29. CASE UNCHANGED vars
  BY <1>1, <1>29 DEF vars, TypeOK
<1>30. CASE Others \/ Requests
  BY <1>5, <1>6, <1>7, <1>8, <1>9, <1>10, <1>30 DEF Others, Requests
<1>31. CASE Calls
  BY <1>11, <1>12, <1>13, <1>14, <1>15, <1>16, <1>17, <1>31 DEF Calls
<1>32. CASE Starting \/ RateLoop \/ Limiter \/ WeightLoop
  BY <1>18, <1>19, <1>20, <1>21, <1>22, <1>23, <1>24, <1>25, <1>26, <1>32
  DEF Starting, RateLoop, Limiter, WeightLoop
<1>33. QED
  BY <1>27, <1>28, <1>29, <1>30, <1>31, <1>32 DEF Next

\* The pod starts with news due.
LEMMA InitInv == Init => ReloadInv
<1> SUFFICES ASSUME Init PROVE ReloadInv
  OBVIOUS
<1> USE DEF Init, InitConfig, InitStore, InitLimiter
<1>1. /\ Env \in Version /\ Old \in Version /\ Env \in Setting /\ Old \in Setting
      /\ Missing \in Setting /\ 0 \in 0 .. MaxWrites /\ 0 \in 0 .. MaxFaults /\ 0 \in 0 .. Fields
  BY ReloadConstantsOK DEF ReloadConstantsOK, Env, Old, Version, Setting
<1>2. /\ rates \in [Field -> Setting] /\ cache \in [Field -> Setting]
      /\ Nothing \in [Field -> Setting]
  BY <1>1, MergeFacts
<1>3. /\ token \in BOOLEAN /\ cacheValid \in BOOLEAN /\ ratesDue \in BOOLEAN
      /\ weightsDue \in BOOLEAN /\ skipped \in BOOLEAN /\ down \in BOOLEAN
  OBVIOUS
<1>4. TypeOK
  BY <1>1, <1>2, <1>3 DEF TypeOK, Watcher
<1>5. Backed /\ ReadsOK
  BY DEF Backed, ReadsOK, One, Old, RateCall, WeightCall
<1>6. RatesKnown /\ WeightsKnown
  BY DEF RatesKnown, RateNews, WeightsKnown, WeightNews
<1>7. QED
  BY <1>4, <1>5, <1>6 DEF ReloadInv

-----------------------------------------------------------------------------
\* The inductive invariant: types, backed notifications, and where the latest
\* settings are.
THEOREM ReloadInvariant == Safety => []ReloadInv
<1>1. ASSUME ReloadInv, [Next]_vars PROVE ReloadInv'
  BY <1>1, BackedStep, ReadsStep, RatesStep, WeightsStep, TypeStep DEF ReloadInv
<1>2. QED
  BY <1>1, InitInv, PTL DEF Safety

\* Every variable keeps its type; in particular no inbox outgrows the changes made.
THEOREM TypeCorrect == Safety => []TypeOK
BY ReloadInvariant, PTL DEF ReloadInv

\* A limit that differs from the one in Redis is on its way, or was never announced.
THEOREM RatesAreFollowed == Safety => []RatesFollow
<1>1. ReloadInv => RatesFollow
  BY DEF ReloadInv, RatesKnown, RateNews, RatesFollow
<1>2. QED
  BY <1>1, ReloadInvariant, PTL

\* The same for the weights, but for a snapshot skipped by a full channel.
THEOREM WeightsAreFollowed == Safety => []WeightsFollow
<1>1. ReloadInv => WeightsFollow
  BY DEF ReloadInv, WeightsKnown, WeightNews, WeightsFollow
<1>2. QED
  BY <1>1, ReloadInvariant, PTL

=============================================================================
