----------------------------- MODULE MarketData ------------------------------
(***************************************************************************)
(* Where the price of a tick comes from: the main loop asks the pool       *)
(* monitor (dex/pool_monitor.py) and falls back on DexClient               *)
(* (dex_client.py), which reads the pool through the failover client.      *)
(* Both keep their last success.  A price is represented by its age: the   *)
(* time since it was read from the chain, up to AgeCap.                    *)
(*                                                                         *)
(* The four reads of a pool round are coroutines whose RPC calls run in    *)
(* threads and end in any order.  Endpoints and the pool's RPC fail freely *)
(* and take any time; the loop itself is one task.                         *)
(***************************************************************************)
EXTENDS RpcFailover, FiniteSets

CONSTANTS
  Host,             \* Host[url]: scheme and host of a url, its mask_rpc_url()
  PriceTtl,         \* PRICE_CACHE_SECONDS
  MinInterval,      \* POOL_MONITOR_MIN_INTERVAL_SECONDS
  LoopTime,         \* LOOP_SECONDS
  CallTime,         \* the longest time one RPC call takes
  AgeCap            \* ages are counted up to here

ASSUME MarketAssumption ==
  /\ \A i \in DOMAIN Endpoints : Endpoints[i] \in DOMAIN Host
  /\ PriceTtl \in Nat /\ MinInterval \in Nat /\ LoopTime \in Nat \ {0}
  /\ CallTime \in Nat
  /\ AgeCap \in Nat /\ AgeCap >= PriceTtl /\ AgeCap >= MinInterval

VARIABLES
  pc,           \* the step of the loop
  monitor,      \* pool_monitor is there: its constructor has not raised
  reads,        \* reads[t]: RPC calls of a pool read that have begun, or Done
  roundPrice,   \* age of the price this round has read
  roundAge,     \* time since the round began
  second,       \* an exception of DexClient is followed by a second call
  pool,         \* _last_successful_pool_info and _last_successful_at
  dexAge,       \* age of last_price
  contracts,    \* _pool_contracts: the endpoint a contract is bound to
  health,       \* what each endpoint does with a request
  asked,        \* endpoints that this call has reached
  refused,      \* a request of this call met an error that is not retryable
  served        \* the price of the tick

clientVars == <<current, attempt>>
poolVars   == <<reads, roundPrice, roundAge>>
vars == <<pc, monitor, poolVars, second, pool, dexAge, contracts, health, asked,
          refused, served, clientVars>>

-----------------------------------------------------------------------------
Ages    == 0..AgeCap
NoAge   == AgeCap + 1       \* of what there is not
Reads   == {"price", "liquidity", "volatility", "volume"}
Sources == {"pool", "pool_cached", "cache", "rpc", "stale_cache"}
Faults  == {"timeout", "rpc_error"}   \* one that is retryable and one that is not
Done    == 0                \* no call of the read is under way
Steps   == {"price", "round", "dex", "rpc", "tick", "sleep", "stopped"}

Index   == DOMAIN Endpoints
HostOf(i)   == Host[Endpoints[i]]
HostsOf(is) == {HostOf(i) : i \in is}
Hosts   == HostsOf(Index)
Unbound == 0
Nothing == [source |-> "none", age |-> NoAge]
NoPool  == [price |-> NoAge, stamp |-> NoAge]

\* An age after some time has passed; what does not exist does not age.
Older(age, time) ==
  IF age = NoAge THEN NoAge
  ELSE IF age + time > AgeCap THEN AgeCap ELSE age + time

\* Time passes for all that is kept.
Elapse(time) ==
  /\ pool' = [price |-> Older(pool.price, time),
              stamp |-> Older(pool.stamp, time)]
  /\ dexAge' = Older(dexAge, time)

Init ==
  /\ InitClient
  /\ pc = "price" /\ monitor \in BOOLEAN
  /\ reads = [t \in Reads |-> Done]
  /\ roundPrice = NoAge /\ roundAge = NoAge
  /\ second = FALSE /\ pool = NoPool /\ dexAge = NoAge
  /\ contracts = [h \in Hosts |-> Unbound]
  /\ health = [i \in Index |-> "up"]
  /\ asked = {} /\ refused = FALSE
  /\ served = Nothing

Serve(source, age) ==
  served' = [source |-> source, age |-> age] /\ pc' = "tick" /\ second' = FALSE

-----------------------------------------------------------------------------
(* PoolMonitor.get_pool_info() *)

\* A success younger than the interval is served again.
PoolCached ==
  /\ pc = "price" /\ monitor
  /\ pool.stamp < MinInterval
  /\ Serve("pool_cached", pool.price)
  /\ UNCHANGED <<monitor, poolVars, pool, dexAge, contracts, health, asked,
                 refused, clientVars>>

\* Every read starts its first call.
BeginRound ==
  /\ pc = "price" /\ monitor
  /\ pool.stamp >= MinInterval
  /\ pc' = "round"
  /\ reads' = [t \in Reads |-> 1]
  /\ roundPrice' = NoAge /\ roundAge' = 0
  /\ UNCHANGED <<monitor, second, pool, dexAge, contracts, health, asked,
                 refused, served, clientVars>>

CallsOf(read) == IF read = "price" THEN 1 ELSE 2

\* One call of a read ends, and the next one of the same read begins.  A failed
\* first call ends the read.
CallEnds(read, ok) ==
  /\ pc = "round" /\ reads[read] # Done
  /\ \E time \in 0..CallTime :
       /\ Elapse(time)
       /\ roundAge' = Older(roundAge, time)
       /\ roundPrice' = IF read = "price" /\ ok THEN 0 ELSE Older(roundPrice, time)
  /\ reads' = [reads EXCEPT ![read] = IF ok /\ @ < CallsOf(read) THEN @ + 1
                                     ELSE Done]
  /\ UNCHANGED <<pc, monitor, second, contracts, health, asked, refused, served,
                 clientVars>>

AllRead == \A t \in Reads : reads[t] = Done

\* Mutant of Stamp: the success is dated by the end of the round.
StampLate == 0

\* The success is dated by the time taken before the reads.
Stamp == roundAge

\* The round has a price: it is kept and served.
RoundSucceeds ==
  /\ pc = "round" /\ AllRead /\ roundPrice # NoAge
  /\ pool' = [price |-> roundPrice, stamp |-> Stamp]
  /\ Serve("pool", roundPrice)
  /\ roundPrice' = NoAge /\ roundAge' = NoAge
  /\ UNCHANGED <<monitor, reads, dexAge, contracts, health, asked,
                 refused, clientVars>>

\* It has none: the loop falls back on DexClient.  This call is in the try block
\* of the pool monitor, whose handler calls DexClient, too.
RoundFails ==
  /\ pc = "round" /\ AllRead /\ roundPrice = NoAge
  /\ pc' = "dex" /\ second' = TRUE
  /\ roundAge' = NoAge
  /\ UNCHANGED <<monitor, reads, roundPrice, pool, dexAge, contracts,
                 health, asked, refused, served, clientVars>>

-----------------------------------------------------------------------------
(* DexClient.get_price() *)

NoMonitor ==
  /\ pc = "price" /\ ~monitor
  /\ pc' = "dex"
  /\ UNCHANGED <<monitor, poolVars, second, pool, dexAge, contracts, health,
                 asked, refused, served, clientVars>>

DexCached ==
  /\ pc = "dex" /\ dexAge < PriceTtl
  /\ Serve("cache", dexAge)
  /\ UNCHANGED <<monitor, poolVars, pool, dexAge, contracts, health, asked,
                 refused, clientVars>>

AskChain ==
  /\ pc = "dex" /\ dexAge >= PriceTtl
  /\ StartCall
  /\ pc' = "rpc"
  /\ asked' = {} /\ refused' = FALSE
  /\ UNCHANGED <<monitor, poolVars, second, pool, dexAge, contracts, health,
                 served>>

\* _pool_for_client(): one contract for a host, bound to the endpoint that was
\* the current one when it was made.
HostNow == HostOf(current)

\* Mutant of Target: one contract for all hosts.
TargetOfAny ==
  LET bound == {contracts[h] : h \in Hosts} \ {Unbound}
  IN IF bound = {} THEN current ELSE CHOOSE i \in bound : TRUE

Target == IF contracts[HostNow] = Unbound THEN current ELSE contracts[HostNow]

Contracts == [contracts EXCEPT ![HostNow] = Target]

ChainAnswers ==
  /\ pc = "rpc" /\ health[Target] = "up"
  /\ Answered
  /\ contracts' = Contracts
  /\ \E time \in 0..CallTime : pool' = [price |-> Older(pool.price, time),
                                        stamp |-> Older(pool.stamp, time)]
  /\ dexAge' = 0
  /\ Serve("rpc", 0)
  /\ UNCHANGED <<monitor, poolVars, health, asked, refused>>

\* An error, and what it leaves behind for the next attempt of the call.
ChainFails ==
  /\ pc = "rpc" /\ health[Target] # "up"
  /\ contracts' = Contracts
  /\ asked' = asked \cup {Target}
  /\ refused' = (refused \/ ~Retryable(health[Target]))
  /\ \E time \in 0..CallTime : Elapse(time)
  /\ UNCHANGED <<monitor, poolVars, health>>

AskAgain ==
  /\ ChainFails
  /\ Retry(health[Target])
  /\ UNCHANGED <<pc, second, served>>

\* The last attempt has failed: the last success is served, however old.
ServeStale ==
  /\ ChainFails /\ GiveUp
  /\ dexAge # NoAge
  /\ Serve("stale_cache", dexAge')

\* There has been none yet: the error is followed by the second call, or the
\* loop logs it.
NoPriceYet ==
  /\ ChainFails /\ GiveUp
  /\ dexAge = NoAge
  /\ pc' = IF second THEN "dex" ELSE "sleep"
  /\ second' = FALSE /\ served' = Nothing

-----------------------------------------------------------------------------
(* The rest of a cycle of the main loop. *)

\* The tick returns or raises; a limit that it has hit ends the loop.
Tick ==
  /\ pc = "tick"
  /\ pc' \in {"sleep", "stopped"} /\ served' = Nothing
  /\ UNCHANGED <<monitor, poolVars, second, pool, dexAge, contracts, health,
                 asked, refused, clientVars>>

Sleep ==
  /\ pc = "sleep"
  /\ pc' = "price"
  /\ Elapse(LoopTime)
  /\ asked' = {} /\ refused' = FALSE
  /\ UNCHANGED <<monitor, poolVars, second, contracts, health, served,
                 clientVars>>

\* An endpoint breaks or recovers.  It matters only while a call is under way.
HealthChanges ==
  /\ pc = "rpc"
  /\ \E i \in Index, h \in {"up"} \cup Faults :
       h # health[i] /\ health' = [health EXCEPT ![i] = h]
  /\ UNCHANGED <<pc, monitor, poolVars, second, pool, dexAge, contracts, asked,
                 refused, served, clientVars>>

Loop ==
  \/ PoolCached \/ BeginRound
  \/ \E read \in Reads, ok \in BOOLEAN : CallEnds(read, ok)
  \/ RoundSucceeds \/ RoundFails
  \/ NoMonitor \/ DexCached \/ AskChain
  \/ ChainAnswers \/ AskAgain \/ ServeStale \/ NoPriceYet
  \/ Tick \/ Sleep

LoopOver == pc = "stopped" /\ UNCHANGED vars

Next == Loop \/ HealthChanges \/ LoopOver

\* The loop is one task, and every call of it ends by its answer or its timeout.
Spec == Init /\ [][Next]_vars /\ WF_vars(Loop)

-----------------------------------------------------------------------------
(* Properties. *)

\* The type of every variable.
TypeOK ==
  /\ current \in Index /\ attempt \in 0..(MaxRetries + 1)
  /\ pc \in Steps /\ monitor \in BOOLEAN /\ second \in BOOLEAN
  /\ \A t \in Reads : reads[t] \in {1, 2, Done}
  /\ roundPrice \in Ages \cup {NoAge} /\ roundAge \in Ages \cup {NoAge}
  /\ pool \in [price : Ages \cup {NoAge}, stamp : Ages \cup {NoAge}]
  /\ dexAge \in Ages \cup {NoAge}
  /\ contracts \in [Hosts -> Index \cup {Unbound}]
  /\ health \in [Index -> {"up"} \cup Faults]
  /\ asked \subseteq Index /\ refused \in BOOLEAN
  /\ served \in [source : Sources \cup {"none"}, age : Ages \cup {NoAge}]
  /\ (attempt > 0 <=> pc = "rpc")

\* A price served from a cache was read less than the cache's time ago, also
\* when the reads of the round that brought it were slow.
CacheIsYoung ==
  /\ served.source = "pool_cached" => served.age < MinInterval
  /\ served.source = "cache" => served.age < PriceTtl

\* An old price is served for a new one only after the hosts of as many
\* endpoints have been asked as there are attempts, or of all endpoints, unless
\* an endpoint answered with an error that is no reason to move on.  Endpoints of
\* one host share a contract: which of them is asked is not said.
AllAskedBeforeStale ==
  served.source = "stale_cache" =>
    \/ refused
    \/ \E turns \in SUBSET Index :
         /\ Cardinality(turns) =
              IF MaxRetries < Len(Endpoints) THEN MaxRetries + 1
              ELSE Len(Endpoints)
         /\ HostsOf(turns) \subseteq HostsOf(asked)

\* Once the endpoints of some host answer for good and no other endpoint does
\* worse than time out, ticks get prices that are not stale again and again,
\* unless the loop stops, although an error of the last attempt leaves the
\* client where it is, and although endpoints of a host share a contract.
Works(host) ==
  \A i \in Index :
    /\ HostOf(i) = host => health[i] = "up"
    /\ health[i] # "rpc_error"
PricesComeBack ==
  \A host \in Hosts :
    <>[]Works(host) =>
      []<>(pc = "stopped" \/ (pc = "tick" /\ served.source # "stale_cache"))
==============================================================================
