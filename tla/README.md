# Verification of the market maker bot

TLA+ models of the bot under `src/src/`, checked with TLC and, where a theorem is
listed below, proved with TLAPS. The code is the reference; line numbers of every
definition are in `PROJECT.json` ("map").

## The system

One process runs one asyncio loop (`main.py`). Every cycle fetches a price, hands it to
`process_price_tick` (`bot_runner.py`), writes the state file and sleeps. An exception
anywhere in a cycle is logged and the loop goes on with the next `cycle_index`; a tick
that returns `False` ends it. Only the reads of a
price round run in threads, awaited by the loop. What is hard is therefore the order of
many state changes inside a tick, the ways in which a tick can end early, state that
outlives ticks and restarts, and calls to nodes that fail or answer late.

| component | state it keeps | operations | talks to |
|---|---|---|---|
| main loop (`main.py`) | `cycle_index`, the runtime | start, restore, tick, dump, stop | everything below |
| state machine (`state_machine.py`) | `StateMachineContext`: state, entered cycle, reason, cooldown deadline | `sync_cycle`, `maybe_enter_cooldown`, `prepare_distribution`, `handle_*_fill`, `allow_*` | called by the tick; reads the episode and the portfolio |
| reentry engine (`reentry_engine.py`, `runtime_risk.py`) | `ReentryState`: the episode, its budget, spent amount, levels, timeout | arm after a sell, plan a buy, account a buy | armed by sell chunks; read by every gate |
| tick (`bot_runner.py`), with and without the decision engine | `BotRuntime`: streaks, last fill, counters, debug values | candidates, decision, pre-order checks, execution, bookkeeping | all of them, by calls and by shared `BotRuntime` fields |
| decision engine, trade filter, inventory manager | none of their own (read counters of the runtime) | choose one candidate, cap it, filter it | called once per tick |
| edge filter, signal gate | recent outcomes | turn down, shrink or raise a size | between decision and order |
| sizing (`sizing_engine.py`) | a frozen snapshot | reserves, room, maximum sizes | start of the tick; stale for the rest of it |
| engine, portfolio | balances, cost basis, `min_eth_reserve` | checks and paper fills | execution |
| risk manager, strategy selector | loss count, lock | allow or refuse, choose a V7 strategy | decide the tick's mode |
| adaptive market maker | fill probes, cycle history | judge fills, classify the market, plan a cycle | decides mode, sides, whether there is a size |
| execution routing | policy, RPC clients | private, CoW, public or no send | between order and fill |
| market data, RPC failover | price cache, endpoint index | `get_price`, `perform` | main loop, routing |
| persistence (`state_persistence.py`) | the state file | load, apply, dump | main loop |
| notifications, logging, reports | update offset, files | send, append | everything; output |

What makes each correct:

* state machine: a tick acts on a state that agrees with the book; a cooldown starts
  when the losses reach the limit, blocks sells, and ends in time by either deadline.
* reentry: an episode is funded by quote that is there, buys each level once, charges
  every buy, is the only thing that trades while armed, ends when it is spent.
* tick: nothing is oversold or overspent whatever the filters make of a size, and an
  exception between two bookkeeping steps does no lasting harm.
* risk manager: a lock holds as long as it is meant to. RPC failover: every endpoint
  gets its turn and the answer is of the last attempt. Market data: an old price is
  not mistaken for a new one. Persistence: a restart resumes a state the process could
  have been in. Routing: nothing is sent twice, nothing sent is forgotten.

The hazards, each with its line and the properties that cover it, are in
`PROJECT.json`.

## Modules

| module | models |
|---|---|
| `StateMachine` | `state_machine.py`, its methods as operators on a context record |
| `ReentryEngine` | `reentry_engine.py` and its bookkeeping, as operators on an episode record |
| `TradingCycle` | the tick with the decision engine: variables, one action per step, properties |
| `ReentryContract` | abstract: what is promised of an episode, as an account |
| `LegacyTick` | the tick without the decision engine; EXTENDS `TradingCycle` |
| `BotRestart` | the process around the ticks: dump, death, restart; EXTENDS `TradingCycle` |
| `RpcFailover` | `rpc_manager.py`: endpoints, attempts, rotation; a library of actions |
| `MarketData` | where the price of a tick comes from; EXTENDS `RpcFailover` |
| `OrderRouting` | an order from the size guard to its fills; EXTENDS `RpcFailover` |
| `AdaptivePlan` | `build_cycle_plan` of `adaptive_market_maker.py`, pure operators |
| `AdaptiveGovernor` | the feedback of fills and losses on the plan; EXTENDS `AdaptivePlan` |
| `MC...` | tables and instances for model checking |
| `TradingCycleProofs` | types, gates, cooldown bound and funding of `TradingCycle` |
| `EpisodeProofs` | episodes: levels, the contract, the pause after losses; EXTENDS `TradingCycleProofs` |
| `BotRestartProofs`, `LegacyTickProofs` | theorems of the two modules that extend the tick; EXTEND `EpisodeProofs` |
| `RpcFailoverProofs` | lemmas about endpoints and attempts |
| `MarketDataProofs`, `OrderRoutingProofs` | theorems of the two users of the failover; EXTEND `RpcFailoverProofs` |
| `AdaptiveGovernorProofs` | theorems of `AdaptiveGovernor` |

`TradingCycle` EXTENDS the two libraries. Its variables: `ctx` is `state_context`, `re`
is `reentry_state`, `base`/`quote` are the portfolio, `lossStreak` and `lastFill` are the
runtime's; `tick` holds the locals a tick computes before it decides (price, mode,
reserve, room), `order` the decision and the chunks still to be sold; `pc` is the next
step of the tick.

A tick of the model:

    idle --BeginTick--> decide --Decide...--> order --SellPlaced--> chunk
      ^                   |                     |                     |
      |  InvalidPrice,    | DecideNothing       | BuyFilled, dropped  | ChunkFilled, dropped
      |  NoTradeOverride  v                     v                     v
      +------CloseTick--- close <---------------+---------------------+
              (limits: stopped)

* `BeginTick`: sizing snapshot, first `sync_cycle`, the mode (`TickMode`).
* `DecideBuy`, `DecideReentry`, `DecideSell`: the candidates by the gates of the state
  machine and the precedence of the decision engine. `DecideNothing`: no candidate, or
  one of the many filters said no. `NoTradeOverride` returns without the closing
  synchronisation; `StopAtLimit` ends the loop.
* `BuyDropped`, `BuyFilled`, `SellDropped`, `SellRefused`, `SellPlaced`: router,
  pre-order checks and execution. `prepare_distribution` is part of every sell that is
  large enough, placed or not, as in the code.
* `ChunkFilled`: one chunk with all it does: portfolio, arming, streak, state machine,
  cooldown. `ChunkDropped`: the rest of the sell is abandoned.
* A fill may be followed by `EndTick` at once: appending the row of the trade log raises.
  `logger.py` and the Telegram calls swallow their errors, and the other calls of a tick
  that can raise leave the modelled state as another action does.
* `LoopOver` is a stutter of a loop that has stopped or run `MAX_LOOPS`. Deadlock is
  checked in every run: a tick never gets stuck between two steps.

`TradingCycle` assumes `enable_state_machine`, the reentry engine and the decision engine
switched on (the defaults).

The other modules:

* `LegacyTick` reuses `BeginTick`, the execution and `CloseTick`, and adds what this tick
  has of its own. `pair` holds its two orders, `LegacyDecide` builds them (reentry plan,
  partial reset, quotes, profit lock and other exits, forced trades, drift guard, caps,
  pipeline, filter), `RouteOrders` sends both and executes at most one; `lock` and
  `opened` are the profit lock and the open position.
* `BotRestart` runs the steps of `TradingCycle` while `process` is "ticking". `Dump`
  writes `file` after a tick that returned; `DumpFails`, `Die` (in a dump with a torn
  file) and `Restart`, which brings back what `apply_state` restores and leaves the rest
  as `create_runtime` makes it.
* `MarketData` is the first half of a loop iteration: the pool monitor's round of four
  reads, which end in any order, its cache, then `DexClient`: cache, failover call, last
  success. A price is its age. `health` is what each endpoint does and changes freely.
* `OrderRouting`: `NewOrder` (size guard), the guards and the choice of the mode, the
  private send of live mode with its retries, the simulation after it, the checks and the
  fills. Nodes, gossip and mining are external.
* `AdaptiveGovernor` has two steps per cycle: `Observe` judges the fills that are old
  enough and makes the plan, `Fill` or `NoFill` is the tick. Windows are kept by age, so
  that the state space is finite without a bound on the cycles.

### What is abstracted

* Amounts are whole units of quote, prices are levels; percentages of a price are
  distances on that scale. The levels lie as near one another as the thresholds of an
  episode (fractions of a percent to a few percent), so that one unit of base is worth
  one unit of quote at each of them: what moving prices do to the value of the holdings
  is left out, what they do to the levels of an episode is not. A chunk quoted above the
  mid sells less base than it earns quote (`Premium`). Fees and slippage are left out. The unit is fine enough for the comparisons the code makes
  (smallest order, trade maximum, 98 percent of a budget), not for its rounding to six
  digits.
* Prices, the V7 strategy, the intelligence mode, the risk manager, the filters, the
  router and fills choose freely (`\E`). The gates only shrink or raise a size
  (`Resized`, up to `BoostPct`), as `size_multiplier` of the edge filter does.
* Minutes are cycles, converted once as the code does.
* `LegacyTick`: the profit over the anchor is a band that the market chooses anew at every
  tick; equity-based sizes and limits are constants, as in `TradingCycle`.
* `OrderRouting`: what the guards measure is an input (`Risks`); policies are sets of
  overlays, later ones over earlier ones. In the code slices are only counted, CoW and
  public modes send nothing.
* `AdaptivePlan` works in percent and hundredths of a point, with the constants of the
  profile `v6_balanced_paper`; it leaves out quote prices and how large a size is.
* `AdaptiveGovernor`: what a fill lacks of its expected edge is 0, 20 or 40 basis points;
  the fills of a cycle get one verdict, and the chunks of a sell one sign of profit, as they
  share price and cost basis but for slippage and fees. The health of the price source is
  full in every plan: a tick with a price resets the count of invalid ones first.
* `BotRestart`: a dump is one step; a torn file reads as no state, as `load_state` does.
  `main` takes `start_eth` from the restored portfolio, so that the preserved base changes
  with a restart; the model keeps that of the first start. No checked property depends on
  how much is preserved.
* `OrderRouting`: in live mode the private send is available when it is enabled and there is
  an endpoint. The lost answers are those of a timeout (retried) and of a plain
  error (not retried); rate limits and refused connections retry like the first.

## Runs

The bounds are the constants of the cfg. In the runs of the cycle, the legacy tick and
the restarts `MaxLoops` is the code's own `MAX_LOOPS`, which ends the loop.

| run | asks | bounds, and why they suffice | states |
|---|---|---|---|
| `short_cap` | state agrees with the book; only the episode trades while armed or cooling; cooldown bounded; losses pause sells | limit 2 and 5 cycles: two losing sells in one tick or two, a cooldown and its end; the maximum (3) is below the configured 4, and an idle tick forgets the streak after 2, before the pause is over; two reserves so that the book changes sides between ticks; one price, as `episode` and `restarts` move it | 2.9 M |
| `scarce_quote` | types (nothing negative), funded budget | 5 held in all while one trade may be 6 and a position 8: `ACCOUNT_SIZE_OVERRIDE` or a fixed `MAX_TRADE_SIZE_USD` make sizes independent of what is held; quote reserves 0 and 2 leave a tick no room, sizes raised by half | 3.0 M |
| `episode` | a level once, the contract | 4 prices reach pullback, three zones and max-miss; timeout after 2 cycles; maximum trade 3 of 4 held: two chunks and arming anew; sizes raised by half | 1.1 M |
| `bypassed_exit` | a forced exit let through in NO_TRADE can be placed | 2 cycles; found after 2 steps | violated |
| `market_making` | the market making mode can trade either side | 2 cycles; found after 2 steps | violated |
| `legacy_ticks` | what is sent, borrowed, sold and due without the decision engine; losses pause its sells, too | 5 cycles: buy, hold for the failsafe (2), time stop (2) and maximum hold (3), sell, cooldown of 2, streak forgotten after 1; a budget larger than the quote held; level one at 80 percent is two chunks | 1.5 M |
| `legacy_market_making` | `RANGE_MAKER` quotes sells, too, without the decision engine | 3 cycles; found by the first decision | violated |
| `restarts` | the cycle's promises across a death | 1 restart at any step of 2 cycles; the second life has 2 cycles again: an episode armed and bought in one is continued in the other; two prices reach levels and timeout | 3.6 M |
| `market_prices` | ages of served prices, asking all endpoints, prices come back | 3 endpoints after blanks and repetitions, the first and the last of one host, 2 retries, so one call takes a turn of each; ages up to 3 pass both caches (2); no bound on the rounds | 289 k |
| `routing_orders` | public only if safe; sent twice, sent but refused, approved but not sent | 2 orders, 2 nodes, 1 retry: the retry meets another node that may or may not know the first transaction; five policies, 25 measures around each limit | 1.7 M |
| `routing_chunks` | every fill was routed | 1 sell of two chunks | violated |
| `governor` | when quoting stops, what locks, what ends | 4 markets (calm, calm trend, chaos, overweight); window of 3 cycles, cluster of 2, fills judged after 2, so that a fill may turn between its first and its last measure; history of 3, stages at 1, 2, 3 bad cycles, lock at 2 losses, sells of 2 chunks | 183 k |

* `SyncedState`: when a tick decides, the machine is in COOLDOWN or where the book puts
  it, although exceptions and NO_TRADE skip the closing synchronisation. The first one
  of the next tick repairs it; the mutant shows that a state it leaves alone breaks it.
* `OnlyReentryTrades`: six sources of candidates, gated at different places, add up to:
  armed or cooling, only the episode's buys.
* `CooldownBounded` and `SellsPauseAfterLosses` are the two sides of a cooldown: it is
  never longer than the shorter limit, and sells do not come back before it. The second
  one is stated of the sell that brought the streak to its limit (`lastFill.limit`, history
  only), not of the streak at the later sell: an idle tick may forget the streak before
  the pause is over, and in `short_cap` and `legacy_ticks` it does. Without a maximum the
  pause is checked in `legacy_ticks`, the bound is proved only. A softened cooldown only lets an episode's
  buy through.
* `BudgetFunded`: the budget comes from a snapshot older than the sell, and is covered
  all the same. `LevelBoughtOnce`: list and flags agree.
* `KeepsContract`: the tick refines `ReentryContract`, in which the holdings change
  during an episode by charged buys only, none larger than the gates' raise of the rest,
  and the episode ends when its budget is used up and in no other way. The refinement
  maps `re` and the step of the tick to the account; a sell that arms anew is "arming".

* `LegacyTick`: `OrdersSentAreAllowed` is a property of the routing step itself, because
  both orders are sent whatever the tick selects: also when it selects none, and when the
  router then fails. `OnlyForcedBuysBorrow` is what is left of `BudgetFunded` here: in the waiting state
  a trade for its own sake may spend the episode's quote, nothing else may.
  `ExitIsDue` follows the failsafe over ticks with NO_TRADE, exceptions and refused
  sells. `LevelOneOnce` relates two sells of a profit lock level with
  dropped chunks between. `QuotedSellsOnlyOverweight` states a consequence that is hard
  to see in the code: regular sells wait for two marks that are never set together. Documentation
  says otherwise of `RANGE_MAKER`: see `legacy_market_making` below.
* `BotRestart`: `OnlyReentryTrades` and `BudgetFunded` hold across deaths because
  portfolio and episode are in one file: a torn one resets both.
  `LevelTwiceOnlyAfterRestart`: the flags of two levels are not in the file, so only
  these may be bought again.
* `MarketData`: `CacheIsYoung` because a round is stamped with the time taken before its
  reads, which end in any order and take time; the mutant stamps its end.
  `AllAskedBeforeStale` although rotation is per error class; `PricesComeBack` although
  the last error of a call does not rotate. Both speak of hosts: two urls of one host
  share a contract (see the observations), so that the premise of the second is a host all
  of whose endpoints work, and the first counts hosts. Their mutants: no
  rotation, and one contract for all hosts.
* `OrderRouting`: `TwiceOnlyAfterLostAnswer` bounds what a retry can do on chain: a given
  nonce protects, a nonce that is looked up per attempt does not. `SentIsApproved` shows
  that the simulation after the send refuses nothing the slippage guard has let through,
  except below the guard's floor of 2 bps. `ApprovedIsSent` is the other direction.
* `AdaptiveGovernor`: a fill that moved well may still fall short of the edge expected of
  it, and a toxic one may have moved well at first, so that the hard block on the gap and
  the one on toxic flow are reached separately. `QuotesStopAfterToxicCluster` over the whole chain from fills to
  orders; `LockIsFinal` (the loss lock stops the only event that would open it) and
  `DefenceLatches` (a defence that is recorded as its own cause) are traps a reader of
  the code should know of; `PauseEnds` and `CalmsDown` say what does end.

Each property has a mutant of a definition (the operators named `...Late`, `...Anyway`
and so on, next to what they change) under which its run fails.

### Disagreements found

* `bypassed_exit`: a forced sell is let past NO_TRADE, but `can_place_sell` refuses every
  order in NO_TRADE; the integration test that asserts the sell is executed replaces
  that check.
* `market_making`: README lists two-sided market making as the mode `RANGE_MAKER`; the
  market making strategy sets `RANGE`, in which neither side passes the pre-order checks.
* `legacy_market_making`: the same line of README calls `RANGE_MAKER` two-sided. In the
  tick without the decision engine `should_delay_regular_sell` holds every quoted sell
  back outside of OVERWEIGHT_EXIT until both levels of the profit lock are executed, which
  is never the case (`QuotedSellsOnlyOverweight`): the mode quotes buys only.
* `routing_chunks`: `README_MEV_EXECUTION.md` says that every executable signal is routed
  before any fill; of a sell above the maximum only the first chunk is, and all are filled.

### Observations

Not findings, as no text of the repository says otherwise, but worth knowing:

* Without the decision engine, forced buys during an episode spend its quote, so that
  `BudgetFunded` and `OnlyReentryTrades` do not hold there (`OnlyForcedBuysBorrow` does).
* A buy that is switched off keeps its size and is sent to the router every tick.
* After a restart `cycle_index` starts at 0, while the timeout of an episode and the last
  fill keep the old index: the timeout comes as many cycles late.
* Two attempts of a private send without a given nonce may both be mined; a trade that was
  sent may still be turned down by the checks or the simulated fill, and is not booked.
* `_pool_for_client` keeps contracts by scheme and host, and `normalize_rpc_urls` removes
  identical urls only: of two urls of one host the one that is used first serves both, so
  the other one is never asked, and a rotation between them changes nothing.
* The drawdown lock of the risk manager reads `runtime.current_drawdown_usd`, which
  nothing writes.

## Fairness

`MarketData` has `WF_vars(Loop)` and `AdaptiveGovernor` that of `Next`, written as "a step that
changes something is taken again and again" since one always can be: the loop is
one task, swallows every exception and goes on, and each RPC call ends by an answer or by
its timeout. Nothing is assumed of endpoints and markets: what they must do for a property
is its premise (`<>[]Works(host)`, `<>[](plan.calm)`). The other specifications have no
fairness, as their properties are safety properties; that a tick cannot get stuck is the
deadlock check. That an episode ends is not stated: it needs fills, which the market owes
nobody.

## Theorems

Every invariant and every action property that a passing run checks is also proved, for
all constants that meet the `...Assumption` of the modules: amounts and ages are
naturals, the maximum trade is at least the smallest order, the premium is smaller than
that, a raise is at least 100 percent, a window has at least one cycle. The runs show each of
them on a small instance, and their mutants show that it can fail.

### `TradingCycleProofs`

* `TypeCorrect`: `Spec => []TypeOK`. Inductive as it stands. The lemmas bound every size:
  a capped sell never exceeds what is above the reserve (`CapSellBound`), chunks are
  integers and none is missing (`ChunkSizesType`, `TailType`), a plan and a budget are
  naturals (`PlanType`, `BudgetType`).
* `Synced`: `SyncedState` is inductive relative to `TypeOK`. `SyncResult` states what
  `sync_cycle` may return; only `BeginTick` enters "decide" and no decision touches the
  state or the book.
* `OnlyReentry`: from the two above. `GatedBuy` and `GatedSell` read the gates in a synced
  state: an armed episode is WAIT_REENTRY or COOLDOWN, in which `AllowSell` is false.
* `CooldownBound`: `KeptCooldown`, a synchronisation that stays in COOLDOWN is before both
  limits, with `entered` and the cycle unchanged until the decision.
* `Funded`: needs a strengthening. The rest of a budget is covered because no other buy
  spends quote while armed (`OnlyReentryTrades`), and a budget is covered when it is armed
  because the room of the tick still is: `room <= quote` is kept up to the fill and
  through the chunks of a sell, which only add quote. Both are conjuncts of
  `BudgetFunded` (`RoomFunded`, `RestFunded` in the proofs).

### `EpisodeProofs`

* `Ordered`: the invariant `OrderInv` of the orders. An order for a level is for one that
  may still be bought and for no more than the gates may make of the rest of the budget
  (`LevelOrdered`), and the flags of the timeout and max-miss levels agree with the list
  of levels (`FlagsAgree`): the code asks the flags for two levels and the list for the
  others.
* `BoughtOnce`: `LevelBoughtOnce` from `OrderInv`.
* `Contracted`: `KeepsContract`, the refinement of `ReentryContract`. A filled buy of an
  episode maps to `Spend` (`BuySpends`), any other fill of a buy to `Trade`, a chunk to `Arm`
  or `Trade` (`ChunkArms`), the other steps to `Settle` or a stutter (`OthersSettle`). The
  case that is not obvious is a sell of several chunks: `ArmedBySell` says that an
  episode that is armed while chunks are left is depleted and was armed with a budget, so that
  the next chunk arms it anew; `ProductGrows` and its companions carry the percentages.
* `PausesAfterLosses`: `SellsPauseAfterLosses` from `PauseInv`. The streak at its limit
  with a sell as the last fill, remembered in `lastFill` also when the streak is forgotten,
  means that the pause of that sell runs, with the entry
  and deadline it had, or that one of the two limits has passed. A chunk is sold in
  COOLDOWN only by the sell that has started it.

### `BotRestartProofs`

* `ProcessSound`: `ProcessInv`. A tick's step is a step of `TradingCycle` (`WorkSteps`),
  so its part is kept by the lemmas above; `FileSound` says that what the file holds is a
  funded episode whose bought levels are listed. `FlagsAgree` is kept until the first
  restart only, and a theorem cannot say more: the two flags are not in the file.
* `ProcessTyped`, `OnlyReentryOverRestarts`, `FundedOverRestarts`: conjuncts of it.
  `TwiceOnlyAfterRestart`: from `LevelOrdered`, which holds in every life, and the list.

### `MarketDataProofs`

* `MarketSound`: `MarketInv`. Its first part, `PriceInv`, is about ages: a success is dated
  by its round or earlier (`PoolDated`, `RoundDated`), which gives `CacheYoung` although the
  reads of a round end in any order, and a contract is bound to an endpoint of its host
  (`ContractsBound`). `AskedInOrder` says whom a call has asked after k attempts: the
  hosts of the k endpoints before the current one in the ring.
* `AllAsked`: `AllAskedBeforeStale` from there, for every list of urls, also one that names a
  host several times. It can speak of hosts only, as of two urls of one host one is
  never asked.

### `OrderRoutingProofs`

* `RoutingSound`: `RoutingInv`. A send has passed the guards (`SendGuarded`); what nodes
  and chain hold belongs to the signals so far (`SentKnown`), a given nonce stays the
  nonce of its signal (`NonceStays`), two nonces of a signal take a lost answer
  (`OneNonce`), and before a signal is sent nothing of it exists (`NotYetSent`).
* `TwiceOnlyAfterLoss`: two transactions of a signal on the chain have two nonces, since
  the chain takes one per nonce. `PublicSafe`, `ConfirmedIsApproved`, `ApprovalIsOfSent`:
  the guards and the simulation compared, for all measures and all policies that overlays
  can build. `PolicyAssumption` states that each resolved stack of overlays is a policy
  of known fields; TLC evaluates it.

### `AdaptiveGovernorProofs`

* `GovernorSound`: `GovernorInv`, what the plan of a tick has made of the lock, the
  history and the fills, all of which stay until it trades (`PlanHeeds`).
* `QuotesStop`, `LockFinal` (`LockedPlacesNothing`), `LatchHolds`: the steps from there.
  The last counts: a history of fixed length that takes in a bad cycle has at least as
  many as before (`BadRemembered`, by an injection).

### `LegacyTickProofs`

* `LegacyDecisions`: `LegacyTyped`. `DecisionSound` follows the two orders of a tick from
  the proposals through forced trades, drift guard, priority, caps, gate and filter
  (`BuyDraft`, `SellProposal`, `SellDraft`) to the pair that is routed (`PairSound`).
  `~lock.two` is part of it: the second mark of the profit lock is never kept. What the
  tick shares with the other one is typed by the lemmas of `TradingCycleProofs`
  (`SharedTyped`).
* `LegacyTypeCorrect`, `QuotedOnlyOverweight`: from `LegacySound`, which adds that the
  machine is synced until the order (`LegacySynced`) and that the order is what the
  router was given (`LegacyOrdered`).
* `SentAllowed`: of the routing step, whatever is selected and also when the router fails:
  the pair it is given respects the state machine (`PairSound`), and what of it has a size
  is sent (`SizedSound`).
* `OnlyForcedBorrow`: `LegacyFunded`, with the room of the snapshot as in `Funded`.
* `ExitDue`: `HeldInv`. The state machine has been in ACCUMULATING since before the
  history began; when it is elsewhere in a tick, the history begins there or the book
  agrees, so that the closing synchronisation enters nothing new.
* `LegacyPausesAfterLosses`: `PauseInv` of `EpisodeProofs` again; every sell of this tick has its
  own gate, and `LegacyOrdered` says that none is selected in COOLDOWN.
* `LevelOneSold`: `LevelInv`. A sell of the first level that was taken already is a later
  chunk of the same tick.

### What the proofs changed in the model

* In `OrderRouting` the last of several chunks took the whole remainder of the division
  into units and could exceed the maximum; `RoutingTyped` failed on it. The code's equal
  parts differ by a rounding only, and so do the parts of the model now.
* `LockIsFinal` said of a locked step only that no fill of it waits for its verdict; the
  proof showed that there is no fill at all, and the property says so now.
* The endpoints of `RpcFailover` are given by the places where a url stands first, and the
  router's fallbacks by their order, since nothing can be proved here about a fold or
  a filter over a sequence.

### Only model-checked

* `PricesComeBack`, `PauseEnds`, `CalmsDown`: liveness under fairness (ENABLED and the
  well-founded argument are out of the prover's reach).
* Absence of deadlock in every run.
* What recursive definitions compute for every input (chunks, overlays): the proofs use
  their types and bounds only, stated as an assumption (`PolicyAssumption`) where they
  would need induction over a sequence.
* The disagreements, which are counterexamples.

## Not modelled

See "components" in `PROJECT.json` for each part.

* Notifications: errors are swallowed, commands only read. Logging and reports: output;
  the one effect on control is the exception after a fill. Configuration: constants of the
  models, read once. Backtests: offline callers of the same tick.
* Of the tick with the decision engine: scores, filters and sizes beyond "turn down,
  shrink, raise"; the adaptive plan is modelled beside it, not composed with it.
* Of the intelligence layer: feeds, regime detector and the older scoring, numeric
  functions of market data without state that outlives a tick in a way a property here
  depends on.
* The timing of forced trades, the daily roll-over, the side-flip cooldown and the
  same-candle guard are free choices of a tick: they only turn trades down.

## Plan

1. The contract of an episode for the tick without the decision engine and over restarts:
   what is left of it where forced buys trade beside the episode, or its flags are lost.
2. The adaptive plan as the source of the mode of `TradingCycle`.
3. Daily counters and pauses of the trade filter.
