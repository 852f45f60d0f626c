-------------------------- MODULE MarketDataProofs --------------------------
(***************************************************************************)
(* Theorems about the price of a tick: a cached price is as young as the   *)
(* cache promises, however slow the reads that brought it were, and an old *)
(* price is served for a new one only after the hosts of the endpoints     *)
(* have been asked.                                                        *)
(***************************************************************************)
EXTENDS MarketData, RpcFailoverProofs

Count == Len(Endpoints)

\* The success that the pool monitor keeps is dated no later than its price.
PoolDated ==
  /\ pool.price = NoAge <=> pool.stamp = NoAge
  /\ pool.price <= pool.stamp

\* In a round, its price has been read after the round began.
RoundDated ==
  pc = "round" =>
    roundAge # NoAge /\ (roundPrice = NoAge \/ roundPrice <= roundAge)

\* Only a tick has a price.
ServedInTick == pc # "tick" => served = Nothing

\* A contract is bound to an endpoint of its host.
ContractsBound ==
  \A h \in Hosts :
    contracts[h] # Unbound => HostOf(contracts[h]) = h

\* The k endpoints before the i-th one, in the order of the rotation.
Before(i, k) ==
  IF k >= Count THEN 1..Count
  ELSE IF k < i THEN (i - k)..(i - 1)
  ELSE (1..(i - 1)) \cup ((i + Count - k)..Count)

\* A call that has met no error but retryable ones has asked the hosts of the
\* endpoints just before the current one, one in every attempt.
AskedInOrder ==
  pc = "rpc" /\ ~refused =>
    HostsOf(asked) = HostsOf(Before(current, attempt - 1))

\* The part of the inductive invariant that is about the ages and the contracts,
\* and with it who has been asked.
PriceInv ==
  /\ TypeOK /\ reads \in [Reads -> {1, 2, Done}]
  /\ PoolDated /\ RoundDated /\ ServedInTick /\ ContractsBound /\ CacheIsYoung
MarketInv == PriceInv /\ AskedInOrder /\ AllAskedBeforeStale

-----------------------------------------------------------------------------
(* Ages *)

KeptAges == Ages \cup {NoAge}

\* Time makes an age an age, and makes none of what there is not.
LEMMA OlderIsAge ==
  ASSUME NEW age \in KeptAges, NEW time \in Nat
  PROVE  /\ Older(age, time) \in KeptAges
         /\ Older(age, time) = NoAge <=> age = NoAge
BY MarketAssumption DEF Older, KeptAges, Ages, NoAge

\* Time keeps the order of two ages.
LEMMA OlderInOrder ==
  ASSUME NEW a \in KeptAges, NEW b \in KeptAges, NEW time \in Nat, a <= b
  PROVE  Older(a, time) <= Older(b, time)
BY MarketAssumption DEF Older, KeptAges, Ages, NoAge

\* Nothing is younger than what has just been read, and all that there is is
\* younger than what there is not.
LEMMA AgeBounds ==
  /\ 0 \in KeptAges /\ 0 # NoAge /\ NoAge \in KeptAges
  /\ \A age \in KeptAges : age \in Nat /\ 0 <= age /\ age <= NoAge
BY MarketAssumption DEF KeptAges, Ages, NoAge

\* The attempts of a call.
LEMMA Attempts ==
  MaxRetries \in Nat /\ 0 \in 0..(MaxRetries + 1) /\ 1 \in 0..(MaxRetries + 1)
<1>1. MaxRetries \in Nat
  BY FailoverAssumption, Zenon
<1> QED BY <1>1

\* Time for all that is kept.
LEMMA ElapseKeeps ==
  ASSUME PriceInv, NEW time \in Nat,
         pool' = [price |-> Older(pool.price, time),
                  stamp |-> Older(pool.stamp, time)]
  PROVE  /\ pool' \in [price : KeptAges, stamp : KeptAges]
         /\ PoolDated'
         /\ Older(dexAge, time) \in KeptAges
         /\ Older(roundAge, time) \in KeptAges
         /\ Older(roundPrice, time) \in KeptAges
<1>1. /\ pool.price \in KeptAges /\ pool.stamp \in KeptAges
      /\ dexAge \in KeptAges /\ roundAge \in KeptAges /\ roundPrice \in KeptAges
  BY DEF PriceInv, TypeOK, KeptAges
<1>2. /\ pool.price <= pool.stamp
      /\ pool.price = NoAge <=> pool.stamp = NoAge
  BY DEF PriceInv, PoolDated
<1>3. /\ pool'.price = Older(pool.price, time)
      /\ pool'.stamp = Older(pool.stamp, time)
  OBVIOUS
<1>4. /\ Older(pool.price, time) \in KeptAges
      /\ Older(pool.stamp, time) \in KeptAges
      /\ Older(pool.price, time) <= Older(pool.stamp, time)
      /\ Older(pool.price, time) = NoAge <=> Older(pool.stamp, time) = NoAge
  BY <1>1, <1>2, OlderIsAge, OlderInOrder, Zenon
<1>5. NoAge' = NoAge
  BY DEF NoAge
<1>6. PoolDated'
  BY <1>3, <1>4, <1>5 DEF PoolDated
<1> QED BY <1>1, <1>4, <1>6, OlderIsAge

-----------------------------------------------------------------------------
(* Steps *)

\* The state that a call leaves behind in the reader of the pool: a contract of
\* its host, bound to an endpoint of this host.
LEMMA ContractKept ==
  ASSUME PriceInv, contracts' = Contracts
  PROVE  /\ Target \in Index /\ HostOf(Target) = HostNow
         /\ contracts' \in [Hosts -> Index \cup {Unbound}]
         /\ ContractsBound'
<1>1. /\ current \in Index /\ contracts \in [Hosts -> Index \cup {Unbound}]
      /\ ContractsBound
  BY DEF PriceInv, TypeOK
<1>2. HostNow \in Hosts
  BY <1>1 DEF HostNow, Hosts, HostsOf
<1>3. Target \in Index /\ HostOf(Target) = HostNow
  <2>1. CASE contracts[HostNow] = Unbound
    BY <1>1, <2>1 DEF Target, HostNow
  <2>2. CASE contracts[HostNow] # Unbound
    BY <1>1, <1>2, <2>2 DEF Target, ContractsBound
  <2> QED BY <2>1, <2>2
<1>4. contracts' \in [Hosts -> Index \cup {Unbound}]
  BY <1>1, <1>2, <1>3 DEF Contracts
<1>5. ASSUME NEW h \in Hosts, contracts'[h] # Unbound
      PROVE  HostOf(contracts'[h]) = h
  <2>1. CASE h = HostNow
    BY <1>1, <1>2, <1>3, <2>1 DEF Contracts
  <2>2. CASE h # HostNow
    BY <1>1, <1>2, <1>5, <2>2 DEF Contracts, ContractsBound
  <2> QED BY <2>1, <2>2
<1>6. Hosts' = Hosts /\ Unbound' = Unbound
  BY DEF Hosts, HostsOf, HostOf, Unbound
<1> QED BY <1>3, <1>4, <1>5, <1>6 DEF ContractsBound

\* The first state.
LEMMA PriceBegins ==
  ASSUME Init
  PROVE  PriceInv
<1>1. current \in Index /\ attempt \in 0..(MaxRetries + 1)
  <2>1. 1 \in 1..Len(Endpoints)
    BY EndpointsList
  <2> QED BY <2>1, EndpointsList, Attempts, Zenon DEF Init, InitClient, Index
<1>2. TypeOK
  <2>1. contracts \in [Hosts -> Index \cup {Unbound}]
    BY DEF Init
  <2>2. roundPrice \in KeptAges /\ roundAge \in KeptAges /\ dexAge \in KeptAges
    BY AgeBounds DEF Init
  <2>3. pool \in [price : KeptAges, stamp : KeptAges]
    BY AgeBounds DEF Init, NoPool
  <2>4. served \in [source : Sources \cup {"none"}, age : KeptAges]
    BY AgeBounds DEF Init, Nothing
  <2>5. attempt = 0 /\ pc = "price"
    BY DEF Init, InitClient
  <2>6. attempt > 0 <=> pc = "rpc"
    BY <2>5
  <2>7. health \in [Index -> {"up"} \cup Faults] /\ asked \subseteq Index
    BY DEF Init
  <2>8. \A t \in Reads : reads[t] \in {1, 2, Done}
    BY DEF Init
  <2>9. /\ pc \in Steps /\ monitor \in BOOLEAN /\ refused \in BOOLEAN
        /\ second \in BOOLEAN
    BY DEF Init, Steps
  <2> QED BY <1>1, <2>1, <2>2, <2>3, <2>4, <2>6, <2>7, <2>8, <2>9, Zenon
        DEF TypeOK, KeptAges
<1>3. reads \in [Reads -> {1, 2, Done}]
  BY DEF Init
<1>4. PoolDated
  BY AgeBounds DEF Init, PoolDated, NoPool
<1>5. RoundDated /\ ServedInTick /\ ContractsBound /\ CacheIsYoung
  BY DEF Init, RoundDated, ServedInTick, ContractsBound, CacheIsYoung, Nothing
<1> QED BY <1>2, <1>3, <1>4, <1>5 DEF PriceInv

LEMMA StutterKeeps ==
  ASSUME PriceInv, UNCHANGED vars
  PROVE  PriceInv'
BY DEF vars, clientVars, poolVars, PriceInv, TypeOK, PoolDated, RoundDated,
  ServedInTick, ContractsBound, CacheIsYoung

LEMMA PoolCachedKeeps ==
  ASSUME PriceInv, PoolCached
  PROVE  PriceInv'
<1>1. /\ pool.price \in KeptAges /\ pool.stamp \in KeptAges
      /\ pool.price <= pool.stamp /\ pool.stamp < MinInterval
      /\ served' = [source |-> "pool_cached", age |-> pool.price]
      /\ pc' = "tick" /\ pc = "price" /\ second' = FALSE
  BY DEF PriceInv, TypeOK, PoolDated, PoolCached, Serve, KeptAges
<1>2. pool.price < MinInterval
  BY <1>1, AgeBounds, MarketAssumption
<1>3. served'.source = "pool_cached" /\ served'.age < MinInterval
  BY <1>1, <1>2
<1>4. CacheIsYoung'
  BY <1>3 DEF CacheIsYoung
<1>5. served' \in [source : Sources \cup {"none"}, age : KeptAges]
  BY <1>1 DEF Sources
<1>6. TypeOK' /\ reads' \in [Reads -> {1, 2, Done}]
  BY <1>1, <1>5 DEF PriceInv, TypeOK, PoolCached, poolVars, clientVars, Steps,
    KeptAges
<1>7. PoolDated' /\ RoundDated' /\ ServedInTick' /\ ContractsBound'
  BY <1>1 DEF PriceInv, PoolCached, poolVars, PoolDated, RoundDated,
    ServedInTick, ContractsBound
<1> QED BY <1>4, <1>6, <1>7 DEF PriceInv

LEMMA BeginRoundKeeps ==
  ASSUME PriceInv, BeginRound
  PROVE  PriceInv'
<1>1. roundPrice' \in KeptAges /\ roundAge' \in KeptAges
  BY AgeBounds DEF BeginRound
<1>2. TypeOK' /\ reads' \in [Reads -> {1, 2, Done}]
  BY <1>1 DEF PriceInv, TypeOK, BeginRound, clientVars, Steps, KeptAges
<1>3. PoolDated' /\ ServedInTick' /\ ContractsBound' /\ CacheIsYoung'
  BY DEF PriceInv, BeginRound, PoolDated, ServedInTick, ContractsBound,
    CacheIsYoung
<1>4. RoundDated'
  BY AgeBounds DEF BeginRound, RoundDated
<1> QED BY <1>2, <1>3, <1>4 DEF PriceInv

\* A price that is read in the round is read after it began.
LEMMA CallEndsKeeps ==
  ASSUME PriceInv, NEW read \in Reads, NEW ok \in BOOLEAN, CallEnds(read, ok)
  PROVE  PriceInv'
<1>1. PICK time \in 0..CallTime :
        /\ Elapse(time)
        /\ roundAge' = Older(roundAge, time)
        /\ roundPrice' = IF read = "price" /\ ok THEN 0 ELSE Older(roundPrice, time)
  BY DEF CallEnds
<1>2. time \in Nat
  BY MarketAssumption
<1>3. /\ pool' \in [price : KeptAges, stamp : KeptAges] /\ PoolDated'
      /\ dexAge' \in KeptAges /\ roundAge' \in KeptAges
      /\ Older(roundPrice, time) \in KeptAges
  BY <1>1, <1>2, ElapseKeeps DEF Elapse
<1>4. roundPrice' \in KeptAges
  BY <1>1, <1>3, AgeBounds
<1>5. reads' \in [Reads -> {1, 2, Done}]
  <2>1. reads \in [Reads -> {1, 2, Done}]
    BY DEF PriceInv
  <2>2. reads[read] \in {1, 2} /\ CallsOf(read) \in {1, 2}
    BY <2>1 DEF CallEnds, CallsOf
  <2>3. reads' = [reads EXCEPT ![read] =
                    IF ok /\ reads[read] < CallsOf(read) THEN reads[read] + 1
                    ELSE Done]
    BY DEF CallEnds
  <2>4. (IF ok /\ reads[read] < CallsOf(read) THEN reads[read] + 1 ELSE Done)
          \in {1, 2, Done}
    BY <2>2
  <2> QED BY <2>1, <2>3, <2>4
<1>6. TypeOK'
  <2>1. \A t \in Reads : reads'[t] \in {1, 2, Done}
    BY <1>5
  <2> QED BY <1>3, <1>4, <2>1 DEF PriceInv, TypeOK, CallEnds, clientVars,
        KeptAges
<1>7. RoundDated'
  <2>1. pc = "round" /\ roundAge # NoAge
    BY DEF CallEnds, PriceInv, RoundDated
  <2>2. roundAge \in KeptAges /\ roundPrice \in KeptAges
    BY DEF PriceInv, TypeOK, KeptAges
  <2>3. roundAge' # NoAge
    BY <1>1, <1>2, <2>1, <2>2, OlderIsAge
  <2>4. roundPrice' = NoAge \/ roundPrice' <= roundAge'
    <3>1. CASE read = "price" /\ ok
      BY <1>1, <1>3, <3>1, AgeBounds
    <3>2. CASE ~(read = "price" /\ ok) /\ roundPrice = NoAge
      BY <1>1, <1>2, <2>2, <3>2, OlderIsAge
    <3>3. CASE ~(read = "price" /\ ok) /\ roundPrice # NoAge
      <4>1. roundPrice <= roundAge
        BY <2>1, <3>3 DEF PriceInv, RoundDated
      <4> QED BY <1>1, <1>2, <2>2, <3>3, <4>1, OlderInOrder
    <3> QED BY <3>1, <3>2, <3>3
  <2> QED BY <2>3, <2>4 DEF RoundDated, NoAge
<1>8. ServedInTick' /\ ContractsBound' /\ CacheIsYoung'
  BY DEF PriceInv, CallEnds, ServedInTick, ContractsBound, CacheIsYoung
<1> QED BY <1>3, <1>5, <1>6, <1>7, <1>8 DEF PriceInv

LEMMA RoundSucceedsKeeps ==
  ASSUME PriceInv, RoundSucceeds
  PROVE  PriceInv'
<1>1. /\ roundPrice \in KeptAges /\ roundAge \in KeptAges
      /\ roundPrice # NoAge /\ roundAge # NoAge /\ roundPrice <= roundAge
  BY DEF PriceInv, TypeOK, RoundDated, RoundSucceeds, KeptAges
<1>2. /\ pool' = [price |-> roundPrice, stamp |-> roundAge]
      /\ served' = [source |-> "pool", age |-> roundPrice]
      /\ pc' = "tick" /\ pc = "round" /\ second' = FALSE
      /\ roundPrice' = NoAge /\ roundAge' = NoAge
  BY DEF RoundSucceeds, Serve, Stamp
<1>3. served' \in [source : Sources \cup {"none"}, age : KeptAges]
  BY <1>1, <1>2 DEF Sources
<1>4. pool' \in [price : KeptAges, stamp : KeptAges]
  BY <1>1, <1>2
<1>5. TypeOK' /\ reads' \in [Reads -> {1, 2, Done}]
  BY <1>2, <1>3, <1>4, AgeBounds DEF PriceInv, TypeOK, RoundSucceeds,
    clientVars, Steps, KeptAges
<1>6. PoolDated'
  BY <1>1, <1>2 DEF PoolDated, NoAge
<1>7. RoundDated' /\ ServedInTick' /\ ContractsBound' /\ CacheIsYoung'
  BY <1>2 DEF PriceInv, RoundSucceeds, RoundDated, ServedInTick,
    ContractsBound, CacheIsYoung
<1> QED BY <1>5, <1>6, <1>7 DEF PriceInv

LEMMA RoundFailsKeeps ==
  ASSUME PriceInv, RoundFails
  PROVE  PriceInv'
BY AgeBounds DEF RoundFails, clientVars, PriceInv, TypeOK, PoolDated, RoundDated,
  ServedInTick, ContractsBound, CacheIsYoung, KeptAges, Steps

LEMMA NoMonitorKeeps ==
  ASSUME PriceInv, NoMonitor
  PROVE  PriceInv'
BY DEF NoMonitor, clientVars, poolVars, PriceInv, TypeOK, PoolDated, RoundDated,
  ServedInTick, ContractsBound, CacheIsYoung, Steps

LEMMA DexCachedKeeps ==
  ASSUME PriceInv, DexCached
  PROVE  PriceInv'
<1>1. /\ dexAge \in KeptAges /\ dexAge < PriceTtl
      /\ served' = [source |-> "cache", age |-> dexAge]
      /\ pc' = "tick" /\ pc = "dex" /\ second' = FALSE
  BY DEF PriceInv, TypeOK, DexCached, Serve, KeptAges
<1>2. CacheIsYoung'
  BY <1>1 DEF CacheIsYoung
<1>3. served' \in [source : Sources \cup {"none"}, age : KeptAges]
  BY <1>1 DEF Sources
<1>4. TypeOK' /\ reads' \in [Reads -> {1, 2, Done}]
  BY <1>1, <1>3 DEF PriceInv, TypeOK, DexCached, poolVars, clientVars, Steps,
    KeptAges
<1>5. PoolDated' /\ RoundDated' /\ ServedInTick' /\ ContractsBound'
  BY <1>1 DEF PriceInv, DexCached, poolVars, PoolDated, RoundDated,
    ServedInTick, ContractsBound
<1> QED BY <1>2, <1>4, <1>5 DEF PriceInv

LEMMA AskChainKeeps ==
  ASSUME PriceInv, AskChain
  PROVE  PriceInv'
<1>1. attempt' = 1 /\ attempt' \in 0..(MaxRetries + 1) /\ current' = current
  BY Attempts, Zenon DEF AskChain, StartCall
<1>2. TypeOK' /\ reads' \in [Reads -> {1, 2, Done}]
  <2>1. attempt' > 0 <=> pc' = "rpc"
    BY <1>1 DEF AskChain
  <2>2. asked' \subseteq Index /\ refused' \in BOOLEAN /\ pc' \in Steps
    BY DEF AskChain, Steps
  <2> QED BY <1>1, <2>1, <2>2, Zenon DEF PriceInv, TypeOK, AskChain, poolVars
<1>3. PoolDated' /\ RoundDated' /\ ServedInTick' /\ ContractsBound' /\ CacheIsYoung'
  BY DEF PriceInv, AskChain, poolVars, PoolDated, RoundDated, ServedInTick,
    ContractsBound, CacheIsYoung
<1> QED BY <1>2, <1>3 DEF PriceInv

LEMMA ChainAnswersKeeps ==
  ASSUME PriceInv, ChainAnswers
  PROVE  PriceInv'
<1>1. /\ contracts' \in [Hosts -> Index \cup {Unbound}] /\ ContractsBound'
  BY ContractKept DEF ChainAnswers
<1>2. PICK time \in 0..CallTime : pool' = [price |-> Older(pool.price, time),
                                           stamp |-> Older(pool.stamp, time)]
  BY DEF ChainAnswers
<1>3. time \in Nat
  BY MarketAssumption
<1>4. pool' \in [price : KeptAges, stamp : KeptAges] /\ PoolDated'
  BY <1>2, <1>3, ElapseKeeps
<1>5. /\ served' = [source |-> "rpc", age |-> 0] /\ pc' = "tick" /\ dexAge' = 0
      /\ attempt' = 0 /\ current' = current /\ second' = FALSE
  BY DEF ChainAnswers, Serve, Answered
<1>6. served' \in [source : Sources \cup {"none"}, age : KeptAges]
  BY <1>5, AgeBounds DEF Sources
<1>7. TypeOK' /\ reads' \in [Reads -> {1, 2, Done}]
  <2>1. attempt' > 0 <=> pc' = "rpc"
    BY <1>5
  <2>2. pc' \in Steps /\ dexAge' \in KeptAges /\ second' \in BOOLEAN
    BY <1>5, AgeBounds DEF Steps
  <2> QED BY <1>1, <1>4, <1>5, <1>6, <2>1, <2>2, Attempts, Zenon
        DEF PriceInv, TypeOK, ChainAnswers, poolVars, KeptAges
<1>8. RoundDated' /\ ServedInTick' /\ CacheIsYoung'
  BY <1>5 DEF RoundDated, ServedInTick, CacheIsYoung
<1> QED BY <1>1, <1>4, <1>7, <1>8 DEF PriceInv

\* An error of an attempt: the invariant but for what the next step of the call
\* decides.
LEMMA ChainFailsKeeps ==
  ASSUME PriceInv, ChainFails
  PROVE  /\ contracts' \in [Hosts -> Index \cup {Unbound}] /\ ContractsBound'
         /\ pool' \in [price : KeptAges, stamp : KeptAges] /\ PoolDated'
         /\ dexAge' \in KeptAges /\ asked' \subseteq Index /\ refused' \in BOOLEAN
         /\ (dexAge' = NoAge <=> dexAge = NoAge)
<1>1. /\ contracts' \in [Hosts -> Index \cup {Unbound}] /\ ContractsBound'
      /\ Target \in Index
  BY ContractKept DEF ChainFails
<1>2. PICK time \in 0..CallTime : Elapse(time)
  BY DEF ChainFails
<1>3. time \in Nat
  BY MarketAssumption
<1>4. /\ pool' \in [price : KeptAges, stamp : KeptAges] /\ PoolDated'
      /\ dexAge' \in KeptAges
  BY <1>2, <1>3, ElapseKeeps DEF Elapse
<1>5. dexAge' = NoAge <=> dexAge = NoAge
  BY <1>2, <1>3, OlderIsAge DEF Elapse, PriceInv, TypeOK, KeptAges
<1>6. asked' \subseteq Index
  BY <1>1, Zenon DEF ChainFails, PriceInv, TypeOK
<1>7. refused' \in BOOLEAN
  BY Zenon DEF ChainFails
<1> QED BY <1>1, <1>4, <1>5, <1>6, <1>7

LEMMA AskAgainKeeps ==
  ASSUME PriceInv, AskAgain
  PROVE  PriceInv'
<1>1. /\ current \in Index /\ attempt \in 1..MaxRetries /\ pc = "rpc" /\ pc' = "rpc"
      /\ attempt' = attempt + 1 /\ second' = second /\ second \in BOOLEAN
      /\ current' = IF Retryable(health[Target]) THEN Rotated ELSE current
  BY DEF AskAgain, ChainFails, Retry, PriceInv, TypeOK
<1>2. current' \in Index
  BY <1>1, RotatedNext DEF Index
<1>3. attempt' \in 0..(MaxRetries + 1) /\ attempt' > 0
  BY <1>1, Attempts
<1>4. TypeOK' /\ reads' \in [Reads -> {1, 2, Done}]
  <2>1. attempt' > 0 <=> pc' = "rpc"
    BY <1>1, <1>3
  <2>2. pc' \in Steps /\ second' \in BOOLEAN
    BY <1>1 DEF Steps
  <2>3. ChainFails /\ UNCHANGED served
    BY DEF AskAgain
  <2> QED BY <1>2, <1>3, <2>1, <2>2, <2>3, ChainFailsKeeps, Zenon
        DEF PriceInv, TypeOK, ChainFails, poolVars, KeptAges
<1>5. RoundDated' /\ ServedInTick' /\ CacheIsYoung'
  BY <1>1 DEF AskAgain, PriceInv, RoundDated, ServedInTick, CacheIsYoung
<1> QED BY <1>4, <1>5, ChainFailsKeeps DEF PriceInv, AskAgain

LEMMA ServeStaleKeeps ==
  ASSUME PriceInv, ServeStale
  PROVE  PriceInv'
<1>1. /\ served' = [source |-> "stale_cache", age |-> dexAge'] /\ pc' = "tick"
      /\ attempt' = 0 /\ current' = current /\ ChainFails /\ second' = FALSE
  BY DEF ServeStale, Serve, GiveUp
<1>2. served' \in [source : Sources \cup {"none"}, age : KeptAges]
  BY <1>1, ChainFailsKeeps DEF Sources
<1>3. TypeOK' /\ reads' \in [Reads -> {1, 2, Done}]
  <2>1. attempt' > 0 <=> pc' = "rpc"
    BY <1>1
  <2>2. pc' \in Steps /\ second' \in BOOLEAN
    BY <1>1 DEF Steps
  <2> QED BY <1>1, <1>2, <2>1, <2>2, ChainFailsKeeps, Attempts, Zenon
        DEF PriceInv, TypeOK, ChainFails, poolVars, KeptAges
<1>4. RoundDated' /\ ServedInTick' /\ CacheIsYoung'
  BY <1>1 DEF RoundDated, ServedInTick, CacheIsYoung
<1> QED BY <1>1, <1>3, <1>4, ChainFailsKeeps DEF PriceInv

LEMMA NoPriceYetKeeps ==
  ASSUME PriceInv, NoPriceYet
  PROVE  PriceInv'
<1>1. /\ served' = Nothing /\ pc' \in {"dex", "sleep"} /\ second' = FALSE
      /\ attempt' = 0 /\ current' = current /\ ChainFails
  BY DEF NoPriceYet, GiveUp
<1>2. served' \in [source : Sources \cup {"none"}, age : KeptAges]
  BY <1>1, AgeBounds DEF Nothing
<1>3. TypeOK' /\ reads' \in [Reads -> {1, 2, Done}]
  <2>1. attempt' > 0 <=> pc' = "rpc"
    BY <1>1
  <2>2. pc' \in Steps /\ second' \in BOOLEAN
    BY <1>1 DEF Steps
  <2> QED BY <1>1, <1>2, <2>1, <2>2, ChainFailsKeeps, Attempts, Zenon
        DEF PriceInv, TypeOK, ChainFails, poolVars, KeptAges
<1>4. RoundDated' /\ ServedInTick' /\ CacheIsYoung'
  BY <1>1 DEF RoundDated, ServedInTick, CacheIsYoung, Nothing, NoAge
<1> QED BY <1>1, <1>3, <1>4, ChainFailsKeeps DEF PriceInv

LEMMA TickKeeps ==
  ASSUME PriceInv, Tick
  PROVE  PriceInv'
<1>1. served' \in [source : Sources \cup {"none"}, age : KeptAges]
  BY AgeBounds DEF Tick, Nothing
<1>2. TypeOK' /\ reads' \in [Reads -> {1, 2, Done}]
  BY <1>1 DEF Tick, PriceInv, TypeOK, clientVars, poolVars, Steps, KeptAges
<1>3. PoolDated' /\ RoundDated' /\ ServedInTick' /\ ContractsBound' /\ CacheIsYoung'
  BY DEF Tick, PriceInv, poolVars, PoolDated, RoundDated, ServedInTick,
    ContractsBound, CacheIsYoung, Nothing, NoAge
<1> QED BY <1>2, <1>3 DEF PriceInv

LEMMA SleepKeeps ==
  ASSUME PriceInv, Sleep
  PROVE  PriceInv'
<1>1. LoopTime \in Nat /\ Elapse(LoopTime)
  BY MarketAssumption DEF Sleep
<1>2. /\ pool' \in [price : KeptAges, stamp : KeptAges] /\ PoolDated'
      /\ dexAge' \in KeptAges
  BY <1>1, ElapseKeeps DEF Elapse
<1>3. TypeOK' /\ reads' \in [Reads -> {1, 2, Done}]
  BY <1>2 DEF Sleep, PriceInv, TypeOK, clientVars, poolVars, Steps, KeptAges
<1>4. RoundDated' /\ ServedInTick' /\ ContractsBound' /\ CacheIsYoung'
  BY DEF Sleep, PriceInv, poolVars, RoundDated, ServedInTick,
    ContractsBound, CacheIsYoung
<1> QED BY <1>2, <1>3, <1>4 DEF PriceInv

LEMMA HealthChangesKeeps ==
  ASSUME PriceInv, HealthChanges
  PROVE  PriceInv'
<1>1. health' \in [Index -> {"up"} \cup Faults]
  BY DEF HealthChanges, PriceInv, TypeOK
<1>2. TypeOK' /\ reads' \in [Reads -> {1, 2, Done}]
  BY <1>1 DEF HealthChanges, PriceInv, TypeOK, clientVars, poolVars
<1>3. PoolDated' /\ RoundDated' /\ ServedInTick' /\ ContractsBound' /\ CacheIsYoung'
  BY DEF HealthChanges, PriceInv, poolVars, PoolDated, RoundDated, ServedInTick,
    ContractsBound, CacheIsYoung
<1> QED BY <1>2, <1>3 DEF PriceInv

LEMMA PriceKept ==
  ASSUME PriceInv, [Next]_vars
  PROVE  PriceInv'
BY PoolCachedKeeps, BeginRoundKeeps, CallEndsKeeps, RoundSucceedsKeeps,
  RoundFailsKeeps, NoMonitorKeeps, DexCachedKeeps, AskChainKeeps,
  ChainAnswersKeeps, AskAgainKeeps, ServeStaleKeeps, NoPriceYetKeeps, TickKeeps,
  SleepKeeps, HealthChangesKeeps, StutterKeeps DEF Next, Loop, LoopOver

-----------------------------------------------------------------------------
(* The endpoints that a call has asked *)

\* With the current endpoint asked, the client moves on, and there is one more
\* before it.
LEMMA OneMoreBefore ==
  ASSUME NEW i \in 1..Count, NEW k \in Nat
  PROVE  Before(IF i < Count THEN i + 1 ELSE 1, k + 1) = Before(i, k) \cup {i}
<1>1. Count \in Nat \ {0}
  BY EndpointsList DEF Count
<1>2. CASE k >= Count
  BY <1>1, <1>2 DEF Before
<1>3. CASE k = Count - 1
  BY <1>1, <1>3 DEF Before
<1>4. CASE k < Count - 1 /\ i < Count
  BY <1>1, <1>4 DEF Before
<1>5. CASE k < Count - 1 /\ i = Count
  BY <1>1, <1>5 DEF Before
<1> QED BY <1>1, <1>2, <1>3, <1>4, <1>5

\* They are as many as the attempts, up to the number of endpoints.
LEMMA BeforeSize ==
  ASSUME NEW i \in 1..Count, NEW k \in Nat
  PROVE  Cardinality(Before(i, k)) = IF k >= Count THEN Count ELSE k
<1>1. Count \in Nat \ {0}
  BY EndpointsList DEF Count
<1>2. CASE k >= Count
  BY <1>1, <1>2, FS_Interval DEF Before
<1>3. CASE k < Count /\ k < i
  <2>1. Before(i, k) = (i - k)..(i - 1)
    BY <1>1, <1>3 DEF Before
  <2>2. Cardinality((i - k)..(i - 1)) = k
    BY <1>1, <1>3, FS_Interval
  <2> QED BY <1>1, <1>3, <2>1, <2>2
<1>4. CASE k < Count /\ k >= i
  <2> DEFINE low == 1..(i - 1)
             high == (i + Count - k)..Count
  <2>1. Before(i, k) = low \cup high
    BY <1>1, <1>4 DEF Before
  <2>2. /\ IsFiniteSet(low) /\ Cardinality(low) = i - 1
        /\ IsFiniteSet(high) /\ Cardinality(high) = k - i + 1
    <3>1. 1 \in Int /\ i - 1 \in Int /\ i + Count - k \in Int /\ Count \in Int
      BY <1>1
    <3>2. IsFiniteSet(low) /\ Cardinality(low) = IF 1 > i - 1 THEN 0 ELSE i - 1 - 1 + 1
      BY <3>1, FS_Interval, Zenon
    <3>3. /\ IsFiniteSet(high)
          /\ Cardinality(high) = IF i + Count - k > Count THEN 0
                                 ELSE Count - (i + Count - k) + 1
      BY <3>1, FS_Interval, Zenon
    <3> HIDE DEF low, high
    <3> QED BY <1>1, <1>4, <3>2, <3>3
  <2>3. Cardinality(low \cap high) = 0
    <3>1. low \cap high = {}
      BY <1>1, <1>4
    <3> QED BY <3>1, FS_EmptySet
  <2>4. Cardinality(low \cup high) =
          Cardinality(low) + Cardinality(high) - Cardinality(low \cap high)
    BY <2>2, FS_Union
  <2> HIDE DEF low, high
  <2> QED BY <1>1, <1>4, <2>1, <2>2, <2>3, <2>4
<1> QED BY <1>1, <1>2, <1>3, <1>4

\* An error of an attempt: the host of the current endpoint has been asked, by the
\* contract that is bound to one of its endpoints.
LEMMA AskedAfterError ==
  ASSUME MarketInv, ChainFails
  PROVE  ~refused' =>
           /\ Retryable(health[Target])
           /\ HostsOf(asked') = HostsOf(Before(Rotated, attempt))
<1> SUFFICES ASSUME ~refused'
             PROVE  /\ Retryable(health[Target])
                    /\ HostsOf(asked') = HostsOf(Before(Rotated, attempt))
  OBVIOUS
<1>1. ~refused /\ Retryable(health[Target]) /\ asked' = asked \cup {Target}
  BY DEF ChainFails
<1>2. HostOf(Target) = HostOf(current)
  BY ContractKept DEF MarketInv, ChainFails, HostNow
<1>3. current \in 1..Count /\ attempt \in Nat /\ attempt > 0
  BY EndpointsList, Attempts
    DEF ChainFails, MarketInv, PriceInv, TypeOK, Index, Count
<1>4. HostsOf(asked) = HostsOf(Before(current, attempt - 1))
  BY <1>1 DEF MarketInv, AskedInOrder, ChainFails
<1>5. Rotated = IF current < Count THEN current + 1 ELSE 1
  <2>1. /\ current < Count => Rotated = current + 1
        /\ current = Count => Rotated = 1
    BY <1>3, RotatedNext, EndpointsList, Zenon DEF Count
  <2>2. current < Count \/ current = Count
    <3>1. Count \in Nat
      BY EndpointsList DEF Count
    <3> QED BY <1>3, <3>1
  <2> QED BY <1>3, <2>1, <2>2
<1>6. attempt - 1 \in Nat /\ (attempt - 1) + 1 = attempt
  BY <1>3
<1>7. Before(Rotated, (attempt - 1) + 1) = Before(current, attempt - 1) \cup {current}
  BY <1>3, <1>5, <1>6, OneMoreBefore
<1>8. \A xs, x : HostsOf(xs \cup {x}) = HostsOf(xs) \cup {HostOf(x)}
  BY DEF HostsOf
<1> QED BY <1>1, <1>4, <1>6, <1>7, <1>2, <1>8

\* The endpoints before another are endpoints.
LEMMA BeforeIndex ==
  ASSUME NEW i \in 1..Count, NEW k \in Nat
  PROVE  Before(i, k) \in SUBSET Index
<1>1. Count \in Nat \ {0} /\ Index = 1..Count
  BY EndpointsList DEF Count, Index
<1> QED BY <1>1 DEF Before

\* What a call has asked is kept through its attempts, and is complete when it
\* gives up.
LEMMA MarketKept ==
  ASSUME MarketInv, [Next]_vars
  PROVE  MarketInv'
<1>1. PriceInv'
  BY PriceKept DEF MarketInv
<1>2. Count \in Nat \ {0}
  BY EndpointsList DEF Count
<1>3. CASE AskChain
  <2>1. pc' = "rpc" /\ asked' = {} /\ attempt' = 1 /\ current' = current
        /\ served' = served /\ pc # "tick"
    BY <1>3 DEF AskChain, StartCall
  <2>2. current \in 1..Count
    BY EndpointsList DEF MarketInv, PriceInv, TypeOK, Index, Count
  <2>3. Before(current, 0) = {}
    BY <1>2, <2>2 DEF Before
  <2>4. AskedInOrder'
    BY <2>1, <2>3 DEF AskedInOrder, HostsOf, HostOf, Before, Count
  <2>5. AllAskedBeforeStale'
    BY <2>1 DEF MarketInv, PriceInv, ServedInTick, AllAskedBeforeStale, Nothing
  <2> QED BY <1>1, <2>4, <2>5 DEF MarketInv
<1>4. CASE AskAgain
  <2>1. ChainFails /\ attempt' = attempt + 1 /\ attempt \in Nat
        /\ current' = (IF Retryable(health[Target]) THEN Rotated ELSE current)
        /\ served' = served /\ pc # "tick"
    BY <1>4, Attempts DEF AskAgain, Retry, ChainFails
  <2>2. ~refused' => HostsOf(asked') = HostsOf(Before(current', attempt' - 1))
    BY <2>1, AskedAfterError
  <2>3. AskedInOrder'
    BY <2>2 DEF AskedInOrder, HostsOf, HostOf, Before, Count
  <2>4. AllAskedBeforeStale'
    BY <2>1 DEF MarketInv, PriceInv, ServedInTick, AllAskedBeforeStale, Nothing
  <2> QED BY <1>1, <2>3, <2>4 DEF MarketInv
<1>5. CASE ServeStale
  <2>1. ChainFails /\ attempt = MaxRetries + 1 /\ pc' = "tick"
    BY <1>5 DEF ServeStale, GiveUp, Serve
  <2> DEFINE turns == Before(Rotated, MaxRetries + 1)
  <2>2. Cardinality(turns) =
          (IF MaxRetries < Count THEN MaxRetries + 1 ELSE Count)
        /\ turns \in SUBSET Index
    <3>1. Rotated \in 1..Count /\ MaxRetries + 1 \in Nat
      BY RotatedNext, EndpointsList, Attempts
        DEF MarketInv, PriceInv, TypeOK, Index, Count
    <3>2. Cardinality(turns) =
            IF MaxRetries + 1 >= Count THEN Count ELSE MaxRetries + 1
      BY <3>1, BeforeSize
    <3>3. turns \in SUBSET Index
      BY <3>1, BeforeIndex
    <3> HIDE DEF turns
    <3> QED BY <1>2, <3>2, <3>3, Attempts
  <2>3. ~refused' => HostsOf(asked') = HostsOf(turns)
    BY <2>1, AskedAfterError
  <2> HIDE DEF turns
  <2>4. AllAskedBeforeStale'
    BY <2>2, <2>3 DEF AllAskedBeforeStale, Count, Index, HostsOf, HostOf
  <2>5. AskedInOrder'
    BY <2>1 DEF AskedInOrder
  <2> QED BY <1>1, <2>4, <2>5 DEF MarketInv
<1>6. CASE HealthChanges \/ LoopOver \/ UNCHANGED vars
  <2>1. UNCHANGED <<pc, current, attempt, asked, refused, served>>
    BY <1>6 DEF HealthChanges, LoopOver, vars, clientVars
  <2>2. AskedInOrder' /\ AllAskedBeforeStale'
    BY <2>1 DEF MarketInv, AskedInOrder, AllAskedBeforeStale, HostsOf, HostOf,
      Before, Count, Index
  <2> QED BY <1>1, <2>2 DEF MarketInv
<1>7. CASE /\ Next /\ ~AskChain /\ ~AskAgain /\ ~ServeStale /\ ~HealthChanges
           /\ ~LoopOver
  <2>1. /\ pc' # "rpc"
        /\ served'.source # "stale_cache" \/ (pc # "tick" /\ served' = served)
    BY <1>7 DEF Next, Loop, PoolCached, BeginRound, CallEnds, RoundSucceeds,
      RoundFails, NoMonitor, DexCached, ChainAnswers, NoPriceYet, Tick, Sleep,
      Serve, Nothing
  <2>2. AskedInOrder' /\ AllAskedBeforeStale'
    BY <2>1 DEF MarketInv, PriceInv, ServedInTick, AskedInOrder,
      AllAskedBeforeStale, Nothing
  <2> QED BY <1>1, <2>2 DEF MarketInv
<1> QED BY <1>3, <1>4, <1>5, <1>6, <1>7

\* In the first state no call has asked anything.
LEMMA MarketBegins == Init => MarketInv
<1> SUFFICES ASSUME Init PROVE MarketInv
  OBVIOUS
<1>1. pc # "rpc" /\ served.source # "stale_cache"
  BY DEF Init, Nothing
<1> QED BY <1>1, PriceBegins DEF MarketInv, AskedInOrder, AllAskedBeforeStale

\* The inductive invariant holds in every state: what is kept is dated no later
\* than it was read, a contract is bound to an endpoint of its host, and a call
\* that has met no refusal has asked the hosts of the endpoints before the current
\* one, one in every attempt.
THEOREM MarketSound == Spec => []MarketInv
<1>1. Init => MarketInv
  BY MarketBegins
<1>2. MarketInv /\ [Next]_vars => MarketInv'
  BY MarketKept
<1> QED BY <1>1, <1>2, PTL DEF Spec

\* The types hold in every state, for every table of urls and all times: the
\* age of a success of the pool, of a price and of a round stay in their
\* bounds, and a call of the client is under way just when the loop waits for it.
THEOREM MarketTyped == Spec => []TypeOK
<1>1. MarketInv => TypeOK
  BY DEF MarketInv, PriceInv
<1> QED BY <1>1, MarketSound, PTL

\* A price from a cache has been read less than the time of this cache ago, for
\* all times: a success of the pool is dated by the beginning of its round, and
\* its price was read after it.
THEOREM CacheYoung == Spec => []CacheIsYoung
<1>1. MarketInv => CacheIsYoung
  BY DEF MarketInv, PriceInv
<1> QED BY <1>1, MarketSound, PTL

\* An old price is served for a new one only after the hosts of as many endpoints
\* have been asked as there are attempts, or of all of them, unless one of them
\* answered with an error that is no reason to move on: for every list of urls,
\* also one that names a host several times.
THEOREM AllAsked == Spec => []AllAskedBeforeStale
<1>1. MarketInv => AllAskedBeforeStale
  BY DEF MarketInv
<1> QED BY <1>1, MarketSound, PTL
=============================================================================
