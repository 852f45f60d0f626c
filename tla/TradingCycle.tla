---------------------------- MODULE TradingCycle ----------------------------
(***************************************************************************)
(* One price tick after the other (bot_runner.py), with the parts of it    *)
(* that change what the bot holds and what it may do next: the gates of    *)
(* the state machine, the choice of a trade, the pre-order checks, the     *)
(* execution of a buy or of the chunks of a sell, and the bookkeeping of   *)
(* the fills.  The market, the signals, the edge and signal gates and the  *)
(* execution router choose freely: they decide whether a trade is tried,   *)
(* at what size and whether it fills.                                      *)
(*                                                                         *)
(* A tick is a sequence of steps, because it may end early, by a return or *)
(* by an exception after any fill: the main loop logs it and goes on with  *)
(* the next cycle.  A unit of the base currency is worth a unit of the     *)
(* quote currency at all price levels, which are that near to one another; *)
(* fees are left out.                                                      *)
(***************************************************************************)
EXTENDS Sequences, StateMachine, ReentryEngine

CONSTANTS
  MaxLoops,         \* MAX_LOOPS: the loop ends after so many cycles
  Prices,           \* the price levels a tick may see
  ReserveLevels,    \* base_reserve_usd of a sizing snapshot
  QuoteReserves,    \* quote_reserve_usd of a sizing snapshot
  StartBase,        \* the portfolio at start
  StartQuote,
  PreservePct,      \* ETH_PRESERVATION_FLOOR_MULTIPLIER, in percent
  BaseTrade,        \* the trade size that budgets fall back on
  MaxTrade,         \* sizing.max_trade_size_usd
  BoostPct,         \* the most the gates raise a size by, 100 = not at all
  PositionCap,      \* effective_max_inventory_usd
  ReentryCap,       \* the same with REENTRY_INVENTORY_BUFFER_PCT on top
  Premium,          \* how much above the mid a chunk may be quoted, in quote
  StaleCycles       \* LOSS_STREAK_RESET_AFTER_MINUTES in cycles

ASSUME CycleAssumption ==
  /\ MaxLoops \in Nat
  /\ Prices \subseteq Nat \ {0}
  /\ ReserveLevels \subseteq Nat
  /\ QuoteReserves \subseteq Nat
  /\ StartBase \in Nat /\ StartQuote \in Nat
  /\ PreservePct \in 0..100
  /\ BaseTrade \in Nat
  /\ MaxTrade \in Nat /\ MaxTrade >= MinNotional
  /\ BoostPct \in Nat /\ BoostPct >= 100
  /\ PositionCap \in Nat /\ ReentryCap \in Nat /\ ReentryCap >= PositionCap
  /\ Premium \in Nat /\ Premium < MinNotional
  /\ StaleCycles \in Nat

VARIABLES
  cycle,        \* cycle_index
  pc,           \* the step of the tick that is next
  tick,         \* what the tick has computed before it decides
  order,        \* the trade the tick has decided on
  ctx,          \* runtime.state_context
  re,           \* runtime.reentry_state
  base,         \* portfolio.eth
  quote,        \* portfolio.usdc
  lossStreak,   \* runtime.loss_streak
  lastFill      \* last_fill_side, and last_fill_cycle (also last_trade_cycle_any);
                \* history: whether that fill left the streak at its limit

vars == <<cycle, pc, tick, order, ctx, re, base, quote, lossStreak, lastFill>>

-----------------------------------------------------------------------------
Steps == {"idle", "decide", "order", "chunk", "close", "stopped"}

StrategyModes == {"TREND_UP", "RANGE_MAKER", "OVERWEIGHT_EXIT", "NO_TRADE"}
V7Strategies  == {"trend_long_strategy", "trend_short_or_hedge_strategy",
                  "market_making_strategy", "breakout_scalp_strategy",
                  "stay_flat"}
Modes == StrategyModes \cup {"TREND_DOWN", "RANGE"}

\* FORCED_SELL_REASONS, one of each family.
ForcedSells == {"inventory_force_reduce", "profit_lock", "force_trade_sell"}
FloorSells  == {"quoted_sell", "inventory_correction"}
StrategySells == {"inventory_force_reduce", "profit_lock", "quoted_sell",
                  "trend_rally_sell"}
Sells == StrategySells \cup {"inventory_correction", "force_trade_sell"}

StrategyBuys  == {"trend_buy", "base_mm_buy"}
InventoryBuys == {"inventory_rebalance", "partial_reset"}
Buys == Levels \cup StrategyBuys \cup InventoryBuys \cup {"force_trade_buy"}

NoTick  == [price |-> NoPrice, mode |-> "NO_TRADE", reserve |-> 0, room |-> 0]
NoOrder == [side |-> "NONE", reason |-> "", size |-> 0, premium |-> 0,
            loss |-> FALSE, chunks |-> <<>>]
NoFill  == [side |-> "NONE", cycle |-> 0, limit |-> FALSE]

Init ==
  /\ cycle = 0 /\ pc = "idle" /\ tick = NoTick /\ order = NoOrder
  /\ ctx = BootContext /\ re = BlankReentry
  /\ base = StartBase /\ quote = StartQuote
  /\ lossStreak = 0 /\ lastFill = NoFill

\* The tick is over, by its return or by an exception.
EndTick ==
  /\ pc' = "idle" /\ cycle' = cycle + 1 /\ tick' = NoTick /\ order' = NoOrder

\* The tick returns False: a daily loss limit or the kill switch ends the loop.
StopLoop ==
  /\ pc' = "stopped" /\ tick' = NoTick /\ order' = NoOrder
  /\ UNCHANGED cycle

-----------------------------------------------------------------------------
\* The mode of a tick: the V7 strategy replaces the mode of the intelligence
\* layer, unless it is breakout outside of a breakout; stay_flat, a switched
\* off or refused strategy and the risk manager's lock make it NO_TRADE.
TickMode(strategyMode, v7, breakout, blocked) ==
  IF v7 = "stay_flat" \/ blocked THEN "NO_TRADE"
  ELSE CASE v7 = "trend_long_strategy"           -> "TREND_UP"
         [] v7 = "trend_short_or_hedge_strategy" -> "TREND_DOWN"
         [] v7 = "market_making_strategy"        -> "RANGE"
         [] v7 = "breakout_scalp_strategy"       ->
              IF breakout THEN "TREND_UP" ELSE strategyMode

\* Mutant of RoomOf: a reserve above the quote leaves a debt.
RoomInDebt(level) == quote - level

\* build_sizing_snapshot(): the reserve is never more than is held, the room
\* for buys is what is left over the quote reserve.
ReserveOf(level) == Least(base, level)
RoomOf(level) == Greatest(quote - level, 0)

\* A price that is not positive: the tick returns at once.
InvalidPrice ==
  /\ pc = "idle" /\ cycle < MaxLoops
  /\ EndTick
  /\ UNCHANGED <<ctx, re, base, quote, lossStreak, lastFill>>

\* Sizing, the state machine's first synchronisation, and the mode.
BeginTick ==
  /\ pc = "idle" /\ cycle < MaxLoops
  /\ \E price \in Prices, r \in ReserveLevels, q \in QuoteReserves :
     \E strategyMode \in StrategyModes, v7 \in V7Strategies :
     \E breakout, blocked \in BOOLEAN :
       /\ tick' = [price   |-> price,
                   mode    |-> TickMode(strategyMode, v7, breakout, blocked),
                   reserve |-> ReserveOf(r),
                   room    |-> RoomOf(q)]
       /\ ctx' = SyncCycle(ctx, cycle, re.active, base > ReserveOf(r))
  /\ pc' = "decide"
  /\ UNCHANGED <<cycle, order, re, base, quote, lossStreak, lastFill>>

-----------------------------------------------------------------------------
\* _reset_stale_loss_streak_if_idle(), part of every decision.
ForgottenStreak ==
  IF lastFill.side = "NONE" \/ cycle - lastFill.cycle < StaleCycles
  THEN lossStreak ELSE 0

\* _soften_cooldown_if_enabled(): a soft cooldown does not count as one.
Cooling(soft) == InCooldown(ctx) /\ ~soft

\* The candidates the tick hands to the decision engine, by the gates of the
\* state machine; while an episode is armed the engine drops every buy but the
\* episode's own.
MayBuy(reason, soft) ==
  /\ ~re.active
  /\ \/ reason \in StrategyBuys /\ AllowBuy(ctx) /\ ~RequiresReentryOnly(ctx)
     \/ reason \in InventoryBuys /\ AllowBuy(ctx) /\ ~Cooling(soft)
     \/ /\ reason = "force_trade_buy" /\ ~Cooling(soft)
        /\ AllowBuy(ctx) \/ ctx.state = "ACCUMULATING"

\* Mutant of MaySell: a pause without an episode lasts as long as the streak.
MaySellForgotten(reason, soft) ==
  /\ \/ AllowSell(ctx) /\ ~Cooling(soft)
     \/ InCooldown(ctx) /\ ~re.active /\ ForgottenStreak < LossStreakLimit
  /\ reason \in StrategySells => ~RequiresReentryOnly(ctx)

MaySell(reason, soft) ==
  /\ AllowSell(ctx) /\ ~Cooling(soft)
  /\ reason \in StrategySells => ~RequiresReentryOnly(ctx)
  /\ reason = "profit_lock" => ctx.state \in {"ACCUMULATING", "DISTRIBUTING"}
  /\ reason = "quoted_sell" => tick.mode \in {"TREND_UP", "RANGE_MAKER"}

\* The sizes the filters and the gates may make of a size: they shrink it or
\* raise it.  A size below the minimum ends as a refused order does.
Resized(size) == MinNotional..((size * BoostPct) \div 100)

Decided(side, reason, size, premium, loss) ==
  [NoOrder EXCEPT !.side = side, !.reason = reason, !.size = size,
                  !.premium = premium, !.loss = loss]

\* _should_bypass_no_trade_override()
Overridden(side, reason) ==
  tick.mode = "NO_TRADE" /\ ~(side = "SELL" /\ reason \in ForcedSells)

\* decide() without a trade, and every gate that turns one down.
DecideNothing ==
  /\ pc = "decide"
  /\ tick.mode # "NO_TRADE"
  /\ pc' = "close"
  /\ lossStreak' = ForgottenStreak
  /\ UNCHANGED <<cycle, tick, order, ctx, re, base, quote, lastFill>>

\* NO_TRADE: the tick returns without the closing synchronisation.
NoTradeOverride ==
  /\ pc = "decide"
  /\ tick.mode = "NO_TRADE"
  /\ EndTick \/ StopLoop
  /\ lossStreak' = ForgottenStreak
  /\ UNCHANGED <<ctx, re, base, quote, lastFill>>

\* MAX_DAILY_LOSS: the loop ends, whatever has been decided.
StopAtLimit ==
  /\ pc = "decide"
  /\ StopLoop
  /\ lossStreak' = ForgottenStreak
  /\ UNCHANGED <<ctx, re, base, quote, lastFill>>

\* A candidate is at least a smallest order, within the room and the trade size.
DecideBuy(reason) ==
  /\ pc = "decide"
  /\ ~Overridden("BUY", reason)
  /\ tick.room >= MinNotional
  /\ \E soft \in BOOLEAN : MayBuy(reason, soft)
  /\ \E size \in Resized(Least(tick.room, MaxTrade)) :
       order' = Decided("BUY", reason, size, 0, FALSE)
  /\ pc' = "order"
  /\ lossStreak' = ForgottenStreak
  /\ UNCHANGED <<cycle, tick, ctx, re, base, quote, lastFill>>

\* The episode's buy, when a level of the plan is due.
DecideReentry ==
  /\ pc = "decide"
  /\ \E soft, confirmed \in BOOLEAN :
       LET plan == Plan(re, cycle, tick.price, tick.room, confirmed)
       IN /\ ~Cooling(soft)
          /\ plan.size >= MinNotional
          /\ ~Overridden("BUY", plan.level)
          /\ \E size \in Resized(plan.size) :
               order' = Decided("BUY", plan.level, size, 0, FALSE)
  /\ pc' = "order"
  /\ lossStreak' = ForgottenStreak
  /\ UNCHANGED <<cycle, tick, ctx, re, base, quote, lastFill>>

\* Whether the chunks realise a loss is the same for all of them: they share
\* one price and one cost basis.
DecideSell(reason) ==
  /\ pc = "decide"
  /\ ~Overridden("SELL", reason)
  /\ \E soft \in BOOLEAN : MaySell(reason, soft)
  /\ \E size \in Resized(base), premium \in 0..Premium, loss \in BOOLEAN :
       order' = Decided("SELL", reason, size, premium, loss)
  /\ pc' = "order"
  /\ lossStreak' = ForgottenStreak
  /\ UNCHANGED <<cycle, tick, ctx, re, base, quote, lastFill>>

-----------------------------------------------------------------------------
\* The modes that can_place_buy() and can_place_sell() accept.
BuyModes  == {"TREND_UP", "RANGE_MAKER"}
SellModes == {"TREND_UP", "RANGE_MAKER", "OVERWEIGHT_EXIT"}

\* The inventory cap a candidate carries; a forced trade brings its own.
BuyCap(reason) ==
  IF reason \in StrategyBuys THEN PositionCap
  ELSE IF reason = "force_trade_buy" THEN base + quote
  ELSE Greatest(ReentryCap, base + Remaining(re))

BuySize == Least(order.size, MaxTrade)   \* _apply_trade_size_guard(), a buy

\* The router or the pre-order checks turn the buy down, or it does not fill.
BuyDropped ==
  /\ pc = "order" /\ order.side = "BUY"
  /\ pc' = "close"
  /\ UNCHANGED <<cycle, tick, order, ctx, re, base, quote, lossStreak, lastFill>>

BuyPlaced ==
  /\ pc = "order" /\ order.side = "BUY"
  /\ tick.mode \in BuyModes
  /\ base + BuySize <= BuyCap(order.reason)

\* _record_fill(), a buy.
RecordBuy(reason, size) ==
  IF reason \in Levels THEN RecordReentryBuy(re, reason, size)
  ELSE IF reason = "partial_reset" THEN RecordPartialReset(re, size)
  ELSE re

\* The trade is over: the tick goes on, or appending its row to the trade log
\* raises and ends the tick before the closing synchronisation.
AfterTrade == (pc' = "close" /\ UNCHANGED <<cycle, tick, order>>) \/ EndTick

\* Mutant of Affordable: the quote is not looked at again.
AffordableAnyway == order.size > 0

\* simulate_fill(): the quote must cover the buy, whatever the gates made of it.
Affordable == quote >= BuySize

BuyFilled ==
  /\ BuyPlaced
  /\ Affordable
  /\ base' = base + BuySize /\ quote' = quote - BuySize
  /\ re' = RecordBuy(order.reason, BuySize)
  /\ ctx' = HandleBuyFill(ctx, cycle, order.reason)
  /\ lastFill' = [side |-> "BUY", cycle |-> cycle, limit |-> FALSE]
  /\ AfterTrade
  /\ UNCHANGED lossStreak

-----------------------------------------------------------------------------
\* cap_inventory_preserving_sell_order(): what may be sold, and the size of an
\* order capped to it.  An order of a size sells size - premium of the base.
PreservedBase == (StartBase * PreservePct) \div 100
SellFloor(reason) ==
  IF reason \in FloorSells THEN Greatest(PreservedBase, tick.reserve)
  ELSE tick.reserve
Sellable(reason) == Greatest(base - SellFloor(reason), 0)
CapSell(reason, size, premium) ==
  IF Sellable(reason) = 0 THEN 0
  ELSE Least(size, Sellable(reason) + premium)

\* _build_chunk_sizes(): equal parts of at most MaxTrade; when they would be
\* too small, one part of MaxTrade and no more.
ChunkSizes(total) ==
  LET n == (total + MaxTrade - 1) \div MaxTrade
  IN IF total <= MaxTrade THEN <<total>>
     ELSE IF total \div n < MinNotional THEN <<MaxTrade>>
     ELSE [i \in 1..n |-> (i * total) \div n - ((i - 1) * total) \div n]

\* The router may move the price after the size guard has cut the chunks, and
\* the first of them is capped again at the new price.
CutSizes == ChunkSizes(CapSell(order.reason, order.size, order.premium))
FirstSize(premium) == CapSell(order.reason, Head(CutSizes), premium)

\* can_place_sell(); simulate_fill() looks at the reserve again.
CanPlaceSell(size, premium) ==
  /\ tick.mode \in SellModes
  /\ base - (size - premium) >= tick.reserve

\* The router turns the sell down, or the cap leaves too little of it.
SellDropped ==
  /\ pc = "order" /\ order.side = "SELL"
  /\ pc' = "close"
  /\ UNCHANGED <<cycle, tick, order, ctx, re, base, quote, lossStreak, lastFill>>

\* prepare_distribution() comes before the pre-order checks.
SellPrepared(premium) ==
  /\ pc = "order" /\ order.side = "SELL"
  /\ FirstSize(premium) >= MinNotional
  /\ ctx' = PrepareDistribution(ctx, cycle, order.reason)
  /\ UNCHANGED <<cycle, tick, re, base, quote, lossStreak, lastFill>>

\* The checks turn the sell down; sell_disabled and side_flip_cooldown do not
\* stop a forced one.
SellRefused(premium) ==
  /\ SellPrepared(premium)
  /\ order.reason \in ForcedSells => ~CanPlaceSell(FirstSize(premium), premium)
  /\ pc' = "close" /\ UNCHANGED order

SellPlaced(premium) ==
  /\ SellPrepared(premium)
  /\ CanPlaceSell(FirstSize(premium), premium)
  /\ pc' = "chunk"
  /\ order' = [order EXCEPT !.premium = premium, !.chunks = CutSizes]

-----------------------------------------------------------------------------
\* _execute_sell_chunks(), one chunk: capped again, by what is left.
ChunkSize == CapSell(order.reason, Head(order.chunks), order.premium)

ChunkSendable ==
  ChunkSize >= MinNotional /\ CanPlaceSell(ChunkSize, order.premium)

\* The chunk is too small, not for sale or not filled: the rest of the sell is
\* dropped.
ChunkDropped ==
  /\ pc = "chunk"
  /\ pc' = "close"
  /\ UNCHANGED <<cycle, tick, order, ctx, re, base, quote, lossStreak, lastFill>>

\* should_activate_reentry_after_sell(): too little is left to sell again.
Depleted(left) == left - tick.reserve < MinNotional

\* The streak after a sell fill; a forced trade does not count.
StreakAfter ==
  IF order.reason = "force_trade_sell" THEN lossStreak
  ELSE IF order.loss THEN lossStreak + 1
  ELSE 0

\* The next chunk, or the end of the sell.
AfterChunk ==
  \/ /\ Len(order.chunks) > 1
     /\ order' = [order EXCEPT !.chunks = Tail(@)]
     /\ UNCHANGED <<cycle, pc, tick>>
  \/ Len(order.chunks) = 1 /\ pc' = "close" /\ UNCHANGED <<cycle, tick, order>>
  \/ EndTick

ChunkFilled ==
  /\ pc = "chunk"
  /\ ChunkSendable
  /\ base' = base - (ChunkSize - order.premium)
  /\ quote' = quote + ChunkSize
  /\ \/ ~Depleted(base') /\ UNCHANGED re
     \/ /\ Depleted(base')
        /\ \E boost \in 0..(BudgetBase(re, BaseTrade) \div 4) :
             re' = Activate(re, cycle, tick.price, ChunkSize,
                            Budget(re, BaseTrade, boost, tick.room))
  /\ lossStreak' = StreakAfter
  /\ lastFill' = [side |-> "SELL", cycle |-> cycle,
                  limit |-> lossStreak' >= LossStreakLimit]
  /\ ctx' = MaybeEnterCooldown(
              HandleSellFill(ctx, cycle, order.reason, re'.active,
                             base' > tick.reserve),
              cycle, lossStreak')
  /\ AfterChunk

-----------------------------------------------------------------------------
\* The state machine's second synchronisation, and the last look at the limits.
CloseTick ==
  /\ pc = "close"
  /\ ctx' = SyncCycle(ctx, cycle, re.active, base > tick.reserve)
  /\ EndTick \/ StopLoop
  /\ UNCHANGED <<re, base, quote, lossStreak, lastFill>>

Decide ==
  \/ DecideNothing \/ NoTradeOverride \/ StopAtLimit \/ DecideReentry
  \/ \E reason \in Buys \ Levels : DecideBuy(reason)
  \/ \E reason \in Sells : DecideSell(reason)

Execute ==
  \/ BuyDropped \/ BuyFilled
  \/ SellDropped
  \/ \E premium \in 0..Premium : SellRefused(premium) \/ SellPlaced(premium)
  \/ ChunkDropped \/ ChunkFilled

\* The loop has stopped, or has run its MAX_LOOPS cycles.  Nothing else may keep
\* the next step from being taken.
LoopOver ==
  /\ pc = "stopped" \/ (pc = "idle" /\ cycle >= MaxLoops)
  /\ UNCHANGED vars

Next ==
  InvalidPrice \/ BeginTick \/ Decide \/ Execute \/ CloseTick \/ LoopOver

Spec == Init /\ [][Next]_vars

-----------------------------------------------------------------------------
(* Properties. *)

Contexts ==
  [state : States, entered : Nat, kind : TransitionKinds,
   trade : Buys \cup Sells \cup {""}, until : Nat \cup {NoUntil}]
Episodes ==
  [active : BOOLEAN, price : Nat, size : Nat, budget : Nat, spent : Nat,
   timeout : Nat \cup {NoTimeout}, timeoutDone : BOOLEAN, missDone : BOOLEAN,
   levels : SUBSET Levels]
Ticks == [price : Nat, mode : Modes, reserve : Nat, room : Nat]
Orders ==
  [side : {"NONE", "BUY", "SELL"}, reason : Buys \cup Sells \cup {""},
   size : Nat, premium : 0..Premium, loss : BOOLEAN, chunks : Seq(Int)]
Fills == [side : {"NONE", "BUY", "SELL"}, cycle : Nat, limit : BOOLEAN]

\* The type of every variable; holdings and amounts are never negative.
TypeOK ==
  /\ cycle \in Nat /\ pc \in Steps /\ tick \in Ticks /\ order \in Orders
  /\ ctx \in Contexts /\ re \in Episodes
  /\ base \in Nat /\ quote \in Nat
  /\ lossStreak \in Nat /\ lastFill \in Fills
  /\ pc = "chunk" => order.chunks # <<>>

\* When a tick decides, the state machine is in COOLDOWN or in the state that
\* the book calls for, whatever the last tick left behind: an exception after a
\* fill skips the closing synchronisation, and so does NO_TRADE.
SyncedState ==
  pc \in {"decide", "order"} =>
    \/ InCooldown(ctx)
    \/ ctx.state = Resting(re.active, base > tick.reserve)

\* While an episode is armed or a cooldown runs, the only trade that is ever
\* decided on is a buy of the armed episode: no sell takes away what the
\* episode has just bought, and no other buy uses its budget.
OnlyReentryTrades ==
  pc = "order" /\ (re.active \/ InCooldown(ctx)) =>
    re.active /\ order.reason \in Levels

\* A tick that decides in COOLDOWN is within the configured cooldown and within
\* the maximum, counted from the fill that started it.
CooldownBounded ==
  pc \in {"decide", "order"} /\ InCooldown(ctx) =>
    \A limit \in {CooldownCycles, MaxCooldownCycles} \ {0} :
      cycle - ctx.entered < limit

\* The rest of an armed budget is in the portfolio: the budget was cut to the
\* quote that the tick's first snapshot had free, the snapshot is still covered
\* when the sell uses it, and nothing else has used the quote since.
BudgetFunded ==
  /\ re.active => Remaining(re) <= quote
  /\ pc \in {"decide", "order", "chunk"} => tick.room <= quote

\* After a sell that brought the losing streak to its limit, no later tick
\* sells until the shorter of the two cooldowns is over, unless a trade of the
\* episode came between: the pause outlives the streak, which an idle tick may
\* forget before the pause is over.
SellsPauseAfterLosses ==
  [][ /\ pc = "chunk" /\ base' < base
      /\ lastFill.side = "SELL" /\ lastFill.cycle < cycle
      /\ lastFill.limit /\ CooldownCycles > 0
      => \E limit \in {CooldownCycles, MaxCooldownCycles} \ {0} :
           cycle - lastFill.cycle >= limit ]_vars

\* A level of an episode is bought at most once: the flags of the timeout and
\* max-miss levels and the list of the others agree on what has been bought.
LevelBoughtOnce ==
  [][pc = "order" /\ order.reason \in Levels /\ base' > base
       => order.reason \notin re.levels]_vars

\* A protective exit that the NO_TRADE override lets through can be executed:
\* the pre-order checks accept it in the mode of that very tick.
BypassedExitPlaceable ==
  pc = "order" /\ order.side = "SELL" /\ tick.mode = "NO_TRADE" =>
    tick.mode \in SellModes

\* Market making quotes both sides: in the mode that the market making strategy
\* sets, the pre-order checks accept buys and sells.
MarketMakingPlaceable ==
  pc = "order" /\ tick.mode = "RANGE" =>
    IF order.side = "BUY" THEN tick.mode \in BuyModes
    ELSE tick.mode \in SellModes

\* The account that the episode is, as ReentryContract sees it.
Contract ==
  INSTANCE ReentryContract WITH
    MinOrder  <- MinNotional,
    ExcessPct <- BoostPct,
    phase  <- IF ~re.active THEN "free"
              ELSE IF pc = "chunk" THEN "arming" ELSE "armed",
    budget <- IF re.active THEN re.budget ELSE 0,
    spent  <- IF re.active THEN re.spent ELSE 0,
    held   <- base

\* The tick implements the contract of the episode.
KeepsContract == Contract!ContractSpec
=============================================================================
