----------------------------- MODULE LegacyTick -----------------------------
(***************************************************************************)
(* The price tick when the decision engine is switched off (bot_runner.py, *)
(* process_price_tick).  It builds a buy and a sell at the same time,      *)
(* resizes both, hands both to the execution router, and executes at most  *)
(* one of them.  The exits of a position (profit lock, open profit, time   *)
(* and stop exits of runtime_risk.py) are modelled in full; the market     *)
(* chooses how far the price is from the position's anchor.  The rest of   *)
(* the tick, its gates and the execution, are those of TradingCycle.       *)
(***************************************************************************)
EXTENDS TradingCycle

CONSTANTS
  TradeSizes,       \* the sizes a quote may have
  LevelOnePct,      \* PROFIT_LOCK_LEVEL_1_SELL_FRACTION, in percent
  FailsafeCycles,   \* STATE_MACHINE_ACCUMULATING_FAILSAFE_MINUTES, 0 = off
  TimeStopCycles,   \* the hold limits of resolve_hold_limits_minutes()
  MaxHoldCycles,
  ForceSize,        \* sizing.force_trade_size_usd
  ExitCap           \* the most a paper profit exit sells, 0 = no cap

ASSUME LegacyAssumption ==
  /\ TradeSizes \subseteq Nat
  /\ LevelOnePct \in 0..100
  /\ FailsafeCycles \in Nat
  /\ TimeStopCycles \in Nat /\ MaxHoldCycles \in Nat
  /\ ForceSize \in Nat /\ ExitCap \in Nat

VARIABLES
  pair,        \* the buy and the sell of the tick, and the side it selects
  sent,        \* the sides handed to the execution router in this tick
  lock,        \* runtime.profit_lock_state: the levels that were executed
  opened,      \* runtime.open_position_cycle
  heldSince,   \* history: since when the position is held undisturbed
  oneSold,     \* history: the cycle of the last fill, if it was of level one
  borrowed     \* history: what forced buys have spent during the episode

legacyVars == <<pair, sent, lock, opened, heldSince, oneSold, borrowed>>
allVars == <<vars, legacyVars>>

NoCycle == -1

\* The bands of the profit over the anchor: at the stop loss, not above zero,
\* above zero, at the first and at the second profit lock level.
Bands == {"stop", "below", "open", "one", "two"}

\* The exits of a position.  In the trading cycle's terms the range exits are
\* regular sells without a floor, all the others forced ones.
Exits == {"time_exit_sell", "stop_loss_sell", "range_sell", "profit_exit_sell",
          "profit_lock_level_1", "profit_lock_level_2"}

\* PRIORITY_SELL_REASONS
PrioritySells == ForcedSells \ {"force_trade_sell"}

Leg(reason, size, on, exit) ==
  [reason |-> reason, size |-> size, on |-> on, exit |-> exit]
NoLeg  == Leg("", 0, FALSE, "")
NoPair == [buy |-> NoLeg, sell |-> NoLeg, side |-> "NONE"]
NoLock == [one |-> FALSE, two |-> FALSE]

LegacyInit ==
  /\ Init
  /\ pair = NoPair /\ sent = {} /\ lock = NoLock /\ opened = NoCycle
  /\ heldSince = 0 /\ oneSold = NoCycle /\ borrowed = 0

-----------------------------------------------------------------------------
\* The first part of the tick is the one of the other tick: sizing, mode and
\* state machine.  A position that the machine was not holding is a new one.
LegacyBegin ==
  /\ BeginTick
  /\ pair' = NoPair /\ sent' = {}
  /\ heldSince' = IF ctx.state = "ACCUMULATING" THEN heldSince ELSE cycle
  /\ UNCHANGED <<lock, opened, oneSold, borrowed>>

LegacyInvalid == InvalidPrice /\ UNCHANGED legacyVars

\* MAX_DAILY_LOSS ends the loop before anything is decided.
LegacyStop ==
  /\ pc = "decide"
  /\ StopLoop
  /\ UNCHANGED <<ctx, re, base, quote, lossStreak, lastFill>>
  /\ UNCHANGED legacyVars

\* NO_TRADE returns at once: here no exit is let through, and the losing streak
\* is not looked at.
LegacyNoTrade ==
  /\ pc = "decide" /\ tick.mode = "NO_TRADE"
  /\ EndTick \/ StopLoop
  /\ UNCHANGED <<ctx, re, base, quote, lossStreak, lastFill>>
  /\ UNCHANGED legacyVars

-----------------------------------------------------------------------------
(* The exits of a position. *)

Tradable == base - tick.reserve

\* Mutant of FailsafeDue: it waits one cycle too long.
FailsafeDueLate ==
  /\ ctx.state = "ACCUMULATING" /\ FailsafeCycles > 0
  /\ TimeInState(ctx, cycle) > FailsafeCycles

\* accumulating_failsafe_due()
FailsafeDue ==
  /\ ctx.state = "ACCUMULATING" /\ FailsafeCycles > 0
  /\ TimeInState(ctx, cycle) >= FailsafeCycles

\* position_hold_minutes(): zero without a position of the bot's own.
Held == IF opened = NoCycle THEN 0 ELSE Greatest(cycle - opened, 0)

TimeExit(band) ==
  \/ TimeStopCycles > 0 /\ Held >= TimeStopCycles /\ band \notin {"one", "two"}
  \/ MaxHoldCycles > 0 /\ Held >= MaxHoldCycles /\ band # "two"

ExitLeg(exit, size) ==
  Leg(IF exit = "range_sell" THEN "trend_rally_sell" ELSE "profit_lock",
      size, TRUE, exit)

\* build_profit_lock_sell_plan(), by its early returns.  top says that the price
\* is in the upper part of a range, where a position not at a loss is sold.
LockPlan(band, top) ==
  IF Tradable = 0 THEN NoLeg
  ELSE IF FailsafeDue THEN ExitLeg("time_exit_sell", Tradable)
  ELSE IF band = "stop" THEN ExitLeg("stop_loss_sell", Tradable)
  ELSE IF lock.one /\ lock.two THEN NoLeg
  ELSE IF top THEN ExitLeg("range_sell", Tradable)
  ELSE IF TimeExit(band) THEN ExitLeg("time_exit_sell", Tradable)
  ELSE IF band = "two" /\ ~lock.two THEN ExitLeg("profit_lock_level_2", Tradable)
  ELSE IF band \in {"one", "two"} /\ ~lock.one
  THEN ExitLeg("profit_lock_level_1", (Tradable * LevelOnePct) \div 100)
  ELSE NoLeg

\* build_open_profit_exit_plan(): any profit closes a position of the bot's own.
OpenProfitPlan(band) ==
  IF opened # NoCycle /\ band \in {"open", "one", "two"} /\ Tradable > 0
  THEN ExitLeg("profit_exit_sell", Tradable) ELSE NoLeg

\* _cap_paper_activity_exit_sell_size(): paper trading takes a profit in small
\* parts, and only from what is held above the target.
Capped(leg, excess) ==
  LET size == Least(Least(leg.size, ExitCap), excess)
  IN IF \/ ExitCap = 0
        \/ leg.exit \notin {"profit_exit_sell", "profit_lock_level_1",
                            "profit_lock_level_2"}
     THEN leg
     ELSE [leg EXCEPT !.size = IF size >= MinNotional THEN size ELSE 0]

\* should_delay_regular_sell(): what is held always has a cost basis.
Delayed ==
  tick.mode # "OVERWEIGHT_EXIT" /\ base > 0 /\ ~(lock.one /\ lock.two)

-----------------------------------------------------------------------------
(* The two orders of a tick. *)

\* choose_trade_size_usd(): only these modes have a size.
QuoteSizes ==
  IF tick.mode \in SellModes THEN TradeSizes ELSE {0}

\* The episode's buy comes first, and only the state machine's waiting state
\* asks for it: not a cooldown, not even a softened one.
ReentryPlan(confirmed) == Plan(re, cycle, tick.price, tick.room, confirmed)
ReentryDue(soft, confirmed) ==
  /\ ~Cooling(soft) /\ RequiresReentryOnly(ctx)
  /\ ReentryPlan(confirmed).size >= MinNotional
ReentryLeg(confirmed) ==
  Leg(ReentryPlan(confirmed).level,
      Least(ReentryPlan(confirmed).size, tick.room), TRUE, "")

\* build_partial_reset_buy_plan()
ResetLegs(soft) ==
  {Leg("partial_reset", size, TRUE, "") :
     size \in {s \in {MinNotional, MaxTrade} :
                 /\ ~Cooling(soft) /\ AllowBuy(ctx)
                 /\ ~RequiresReentryOnly(ctx) /\ ~re.active
                 /\ s <= Least(Greatest(ReentryCap - base, 0), tick.room)}}

\* Mutant of QuotedBuys: the state machine switches the buy off, but leaves it
\* its size, as a missing signal does.
QuotedBuysSwitched(size, soft) ==
  IF Cooling(soft) THEN {NoLeg}
  ELSE {Leg("trend_buy", size, on, "") :
          on \in {FALSE, AllowBuy(ctx) /\ ~RequiresReentryOnly(ctx)}}

\* Without a signal the quoted buy is off, but it keeps its size.
QuotedBuys(size, soft) ==
  IF Cooling(soft) \/ ~AllowBuy(ctx) THEN {NoLeg}
  ELSE {Leg("trend_buy", size, on, "") :
          on \in {FALSE, ~RequiresReentryOnly(ctx)}}

BuyLegs(size, soft) ==
  UNION {IF ReentryDue(soft, confirmed) THEN {ReentryLeg(confirmed)}
         ELSE ResetLegs(soft) \cup QuotedBuys(size, soft) :
         confirmed \in BOOLEAN}

\* A regular sell waits for the profit lock, but not in OVERWEIGHT_EXIT.
RegularSells(size, soft) ==
  IF \/ Delayed \/ Cooling(soft) \/ ~AllowSell(ctx)
     \/ RequiresReentryOnly(ctx)
  THEN {NoLeg}
  ELSE {NoLeg, Leg("quoted_sell", size, TRUE, "")}

\* A level of the profit lock, else the open profit.
ExitOf(band, top, excess) ==
  LET level == Capped(LockPlan(band, top), excess)
  IN IF level.size >= MinNotional THEN level
     ELSE Capped(OpenProfitPlan(band), excess)

ExitLegs(soft) ==
  IF /\ ~Cooling(soft) /\ AllowSell(ctx)
     /\ ctx.state \in {"ACCUMULATING", "DISTRIBUTING"}
  THEN {ExitOf(band, top, excess) :
          band \in Bands, top \in BOOLEAN, excess \in {0, base}}
  ELSE {NoLeg}

\* The book above its force limit is reduced, whatever else there is to sell.
ForcedReduce(size, soft) ==
  IF AllowSell(ctx) /\ ~Cooling(soft)
  THEN {Leg("inventory_force_reduce", Greatest(size, MinNotional), TRUE, "")}
  ELSE {}

SellLegs(size, soft) ==
  (UNION {IF exit.size >= MinNotional THEN {exit} ELSE RegularSells(size, soft) :
          exit \in ExitLegs(soft)})
  \cup ForcedReduce(size, soft)

\* build_force_trade_candidate() and _build_activity_floor_candidate(): a trade
\* for its own sake, when neither order has a size.  The buy is allowed while
\* an episode waits.
ForcedBuys(soft) ==
  {Leg("force_trade_buy", size, TRUE, "") :
     size \in {s \in {Least(ForceSize, tick.room)} :
                 /\ ~Cooling(soft) /\ s >= MinNotional
                 /\ AllowBuy(ctx) \/ ctx.state = "ACCUMULATING"}}
ForcedTradeSells(soft) ==
  {Leg("force_trade_sell", size, TRUE, "") :
     size \in {s \in {Least(ForceSize, Tradable)} :
                 ~Cooling(soft) /\ AllowSell(ctx) /\ s >= MinNotional}}

\* The orders after a forced trade may have filled in.
WithForced(buy, sell, soft) ==
  LET forced ==
        {[buy |-> b, sell |-> sell] : b \in ForcedBuys(soft)}
          \cup {[buy |-> buy, sell |-> s] : s \in ForcedTradeSells(soft)}
      small == buy.size < MinNotional /\ sell.size < MinNotional
  IN {[buy |-> buy, sell |-> sell]} \cup {legs \in forced : small}

\* The inventory drift guard may strike out either order, but no forced sell.
Drifted(legs) ==
  [buy  : {legs.buy, NoLeg},
   sell : IF legs.sell.reason \in ForcedSells THEN {legs.sell}
          ELSE {legs.sell, NoLeg}]

\* A sell that has priority strikes out the buy.
Prioritised(legs) ==
  IF legs.sell.reason \in PrioritySells /\ legs.sell.size >= MinNotional
  THEN [legs EXCEPT !.buy = NoLeg] ELSE legs

\* cap_inventory_preserving_sell_order() and the caps of the inventory manager.
CappedBuy(leg) ==
  IF leg.reason \in Levels \cup {"force_trade_buy"} THEN leg
  ELSE [leg EXCEPT !.size = Least(@, tick.room)]
CapOrders(legs) ==
  [buy  |-> CappedBuy(legs.buy),
   sell |-> [legs.sell EXCEPT !.size = CapSell(legs.sell.reason, @, 0)]]

\* The buy is selected when it is on, else the sell.
Selected(legs) ==
  IF legs.buy.on /\ legs.buy.size >= MinNotional THEN "BUY"
  ELSE IF legs.sell.size >= MinNotional THEN "SELL" ELSE "NONE"

\* _apply_signal_pipeline() judges the selected order alone: turned down, it
\* loses its size, and the tick selects nothing.
Rejected(legs, side) ==
  [buy  |-> IF side = "BUY" THEN NoLeg ELSE legs.buy,
   sell |-> IF side = "SELL" THEN NoLeg ELSE legs.sell,
   side |-> "NONE"]
Gated(legs) ==
  {[buy |-> legs.buy, sell |-> legs.sell, side |-> Selected(legs)],
   Rejected(legs, Selected(legs))}

\* The trade filter shrinks both orders, but not below the smallest order.
FilteredSizes(size) ==
  IF size = 0 THEN {0} ELSE MinNotional..Greatest(size, MinNotional)

\* The orders of the tick, and what the decision makes of them.
LegacyDecide ==
  /\ pc = "decide" /\ tick.mode # "NO_TRADE"
  /\ \E size \in QuoteSizes, soft \in BOOLEAN :
     \E buy \in BuyLegs(size, soft), sell \in SellLegs(size, soft) :
     \E made \in WithForced(buy, sell, soft) :
     \E kept \in {Prioritised(legs) : legs \in Drifted(made)} :
     \E gated \in Gated(CapOrders(kept)) :
     \E bs \in FilteredSizes(gated.buy.size),
        ss \in FilteredSizes(gated.sell.size) :
          pair' = [gated EXCEPT !.buy.size = bs, !.sell.size = ss]
  /\ pc' = "route"
  /\ lossStreak' = ForgottenStreak
  /\ UNCHANGED <<cycle, tick, order, ctx, re, base, quote, lastFill>>
  /\ UNCHANGED <<sent, lock, opened, heldSince, oneSold, borrowed>>

-----------------------------------------------------------------------------
(* The router, and the execution of the selected order. *)

\* Both orders go to the router, the buy first, whether they are selected or
\* not; the router may fail and end the tick after either.
Sized == {side \in {"BUY", "SELL"} :
            (IF side = "BUY" THEN pair.buy ELSE pair.sell).size > 0}

RouterFails ==
  /\ pc = "route" /\ Sized # {}
  /\ sent' \in {Sized, Sized \cap {"BUY"}}
  /\ EndTick
  /\ UNCHANGED <<ctx, re, base, quote, lossStreak, lastFill>>
  /\ UNCHANGED <<pair, lock, opened, heldSince, oneSold, borrowed>>

RouteOrders ==
  /\ pc = "route"
  /\ sent' = Sized
  /\ IF pair.side = "NONE" THEN pc' = "close" /\ UNCHANGED order
     ELSE LET leg == IF pair.side = "BUY" THEN pair.buy ELSE pair.sell
          IN \E loss \in (IF pair.side = "BUY" THEN {FALSE} ELSE BOOLEAN) :
               /\ pc' = "order"
               /\ order' = Decided(pair.side, leg.reason, leg.size, 0, loss)
  /\ UNCHANGED <<cycle, tick, ctx, re, base, quote, lossStreak, lastFill>>
  /\ UNCHANGED <<pair, lock, opened, heldSince, oneSold, borrowed>>

LegacyDropped ==
  /\ BuyDropped \/ SellDropped \/ ChunkDropped
  /\ UNCHANGED legacyVars

\* _record_fill(): a buy starts a new position.
LegacyBuyFilled ==
  /\ BuyFilled
  /\ order.reason = "partial_reset" => base + BuySize <= ReentryCap
  /\ lock' = NoLock /\ opened' = cycle
  /\ heldSince' = cycle /\ oneSold' = NoCycle
  /\ borrowed' = borrowed +
       (IF re.active /\ order.reason = "force_trade_buy" THEN BuySize ELSE 0)
  /\ UNCHANGED <<pair, sent>>

\* prepare_distribution() moves the machine before the last checks, and with it
\* the time the position has been held.
LegacySellTried(premium) ==
  /\ SellRefused(premium) \/ SellPlaced(premium)
  /\ heldSince' = cycle
  /\ UNCHANGED <<pair, sent, lock, opened, oneSold, borrowed>>

\* Mutant of AfterExit: a level counts as executed when its last chunk is.
AfterExitLastChunk(exit) ==
  IF exit = "profit_lock_level_1"
  THEN [lock EXCEPT !.one = @ \/ Len(order.chunks) = 1] ELSE NoLock

\* Mutant of AfterExit: the second level is kept like the first.
AfterExitKept(exit) ==
  CASE exit = "profit_lock_level_1" -> [lock EXCEPT !.one = TRUE]
    [] exit = "profit_lock_level_2" -> [lock EXCEPT !.two = TRUE]
    [] OTHER -> NoLock

\* _record_fill(): the first level is remembered, every other sell, also one of
\* the second level and one of a part of the position, clears the profit lock.
AfterExit(exit) ==
  IF exit = "profit_lock_level_1" THEN [lock EXCEPT !.one = TRUE] ELSE NoLock

LegacyChunkFilled ==
  /\ ChunkFilled
  /\ lock' = AfterExit(pair.sell.exit)
  /\ opened' = IF Depleted(base') THEN NoCycle ELSE opened
  /\ heldSince' = cycle
  /\ oneSold' = IF pair.sell.exit = "profit_lock_level_1" THEN cycle
                ELSE NoCycle
  /\ borrowed' = IF Depleted(base') THEN 0 ELSE borrowed
  /\ UNCHANGED <<pair, sent>>

\* The second synchronisation, the rows of the reports and the last limits.
LegacyClose == CloseTick /\ UNCHANGED legacyVars

LegacyOver == LoopOver /\ UNCHANGED legacyVars

LegacyNext ==
  \/ LegacyInvalid \/ LegacyBegin \/ LegacyStop \/ LegacyNoTrade
  \/ LegacyDecide \/ RouterFails \/ RouteOrders \/ LegacyDropped
  \/ LegacyBuyFilled \/ \E premium \in 0..Premium : LegacySellTried(premium)
  \/ LegacyChunkFilled \/ LegacyClose \/ LegacyOver

LegacySpec == LegacyInit /\ [][LegacyNext]_allVars

-----------------------------------------------------------------------------
(* Properties. *)

Legs == [reason : Buys \cup Sells \cup {""}, size : Nat, on : BOOLEAN,
         exit : Exits \cup {""}]

\* The type of every variable; holdings are never negative.
LegacyTypeOK ==
  /\ pc \in Steps \cup {"route"}
  /\ tick \in Ticks /\ ctx \in Contexts /\ re \in Episodes /\ order \in Orders
  /\ base \in Nat /\ quote \in Nat
  /\ pair \in [buy : Legs, sell : Legs, side : {"BUY", "SELL", "NONE"}]
  /\ sent \subseteq {"BUY", "SELL"}
  /\ lock \in [one : BOOLEAN, two : BOOLEAN]
  /\ opened \in Nat \cup {NoCycle} /\ oneSold \in Nat \cup {NoCycle}
  /\ heldSince \in Nat /\ borrowed \in Nat

\* Both orders of a tick go to the router: also the one the tick does not
\* select, also when a gate has turned the selected one down, and also when the
\* router then fails.  The orders themselves must therefore respect the state
\* machine: in a cooldown nothing is sent, softened or not; while an episode is
\* armed no sell is sent; and beside an exit that has priority no buy is sent.
OrdersSentAreAllowed ==
  [][pc = "route" =>
       /\ InCooldown(ctx) => sent' = {}
       /\ re.active => "SELL" \notin sent'
       /\ {"BUY", "SELL"} \subseteq sent'
            => pair.sell.reason \notin PrioritySells]_allVars

\* The rest of an armed budget is in the portfolio, but for what forced buys
\* have taken: in the waiting state a trade for its own sake is allowed, and no
\* other trade than the episode's and this one reaches its quote.
OnlyForcedBuysBorrow ==
  re.active => Remaining(re) <= quote + borrowed

\* A regular sell is delayed until both levels of the profit lock are executed.
\* That never happens, because the second level clears the first: outside of
\* OVERWEIGHT_EXIT the tick never executes a quoted sell.  The documentation says
\* otherwise of RANGE_MAKER, see RangeMakerQuotesSells.
QuotedSellsOnlyOverweight ==
  pc = "order" /\ order.reason = "quoted_sell" => tick.mode = "OVERWEIGHT_EXIT"

\* RANGE_MAKER is two-sided market making (README.md): a tick in this mode that
\* holds enough to sell, and that the state machine allows to sell, may quote a
\* sell.
RangeMakerQuotesSells ==
  pc = "decide" /\ tick.mode = "RANGE_MAKER"
  /\ AllowSell(ctx) /\ Tradable >= MinNotional
    => \E size \in QuoteSizes :
         /\ size >= MinNotional
         /\ Leg("quoted_sell", size, TRUE, "") \in SellLegs(size, FALSE)

\* A position that was held undisturbed for the failsafe time is closed by the
\* next order, unless the book is above its force limit.  Only a fill or a
\* sell that was tried restarts the time: a tick that decides nothing, does not
\* trade, or ends with an exception does not.
ExitIsDue ==
  pc = "order" /\ ctx.state = "ACCUMULATING" /\ FailsafeCycles > 0
  /\ cycle - heldSince >= FailsafeCycles /\ Tradable >= MinNotional
    => /\ order.side = "SELL"
       /\ \/ order.reason = "inventory_force_reduce"
          \/ pair.sell.exit = "time_exit_sell"

\* The first level of the profit lock is sold once: as long as its fill is the
\* last one of the bot, no later tick sells it again, even if some of its
\* chunks were dropped or its tick ended with an exception.
LevelOneOnce ==
  [][pc = "chunk" /\ base' < base /\ pair.sell.exit = "profit_lock_level_1"
       => oneSold \in {NoCycle, cycle}]_allVars
=============================================================================
