---------------------------- MODULE ReentryEngine ----------------------------
(***************************************************************************)
(* Buying back after the inventory has been sold (reentry_engine.py and    *)
(* its bookkeeping in runtime_risk.py and bot_runner.py).  A sell that     *)
(* leaves too little to sell again arms an episode: a budget to buy back   *)
(* with, at a pullback, at three price zones, at a timeout or when the     *)
(* price runs away.  The methods are operators on the ReentryState record. *)
(* Prices are levels on a scale, a percentage of the last sell price is a  *)
(* distance on it; amounts are whole units of the quote currency.          *)
(***************************************************************************)
EXTENDS Integers

CONSTANTS
  MinNotional,     \* MIN_ORDER_SIZE_USD, the smallest order
  TimeoutCycles,   \* REENTRY_TIMEOUT_MINUTES in cycles
  TimeoutPct,      \* REENTRY_TIMEOUT_BUY_FRACTION, in percent of the budget
  MaxMissPct,      \* REENTRY_MAX_MISS_BUY_FRACTION
  MaxMissRise,     \* REENTRY_MAX_MISS_PCT, above the last sell price
  PullbackDrop,    \* WAIT_REENTRY_PULLBACK_PCT, below the last sell price
  ZoneDrop,        \* REENTRY_ZONE_<i>_MULTIPLIER, below the last sell price
  ZonePct          \* REENTRY_ZONE_<i>_BUY_FRACTION

Zones == 1..3

ASSUME ReentryAssumption ==
  /\ MinNotional \in Nat \ {0}
  /\ TimeoutCycles \in Nat \ {0}
  /\ TimeoutPct \in Nat /\ MaxMissPct \in Nat
  /\ MaxMissRise \in Nat /\ PullbackDrop \in Nat
  /\ ZoneDrop \in [Zones -> Nat] /\ ZonePct \in [Zones -> Nat]

\* A level is named by the reason of its buy; executed_buy_levels holds it
\* without the prefix.
ZoneName == [z \in Zones |->
               CASE z = 1 -> "reentry_zone_1"
                 [] z = 2 -> "reentry_zone_2"
                 [] z = 3 -> "reentry_zone_3"]
Levels == {"reentry_pullback", "reentry_timeout", "reentry_max_miss"}
            \cup {ZoneName[z] : z \in Zones}

NoPrice   == 0    \* last_sell_price is None
NoTimeout == -1   \* timeout_cycle is None

\* ReentryState as it is created.  The fields that are only logged (highest and
\* lowest price since the sell, last_sell_cycle) and runaway_triggered, which
\* no plan sets or reads, are left out.
BlankReentry ==
  [active |-> FALSE, price |-> NoPrice, size |-> 0, budget |-> 0, spent |-> 0,
   timeout |-> NoTimeout, timeoutDone |-> FALSE, missDone |-> FALSE,
   levels |-> {}]

Least(a, b)    == IF a <= b THEN a ELSE b
Greatest(a, b) == IF a >= b THEN a ELSE b

-----------------------------------------------------------------------------
\* Mutant of Remaining: what has been spent is forgotten.
RemainingAll(re) == re.budget

\* remaining_budget()
Remaining(re) == Greatest(re.budget - re.spent, 0)

\* The size that a budget starts from.
BudgetBase(re, fallback) == Greatest(re.size, fallback)

\* Mutant of Budget: not within the free quote.
BudgetUncapped(re, fallback, boost, quote) == BudgetBase(re, fallback) + boost

\* reentry_budget_usd(): the size of the sell before this one (the record still
\* holds it) or the base trade size, plus a share of the profit of at most a
\* quarter, within the quote the tick's first sizing snapshot had free.
Budget(re, fallback, boost, quote) ==
  Least(BudgetBase(re, fallback) + boost, quote)

\* activate_after_sell(): a new episode replaces whatever the record held.
Activate(re, c, price, size, budget) ==
  [active |-> budget > 0, price |-> price, size |-> size, budget |-> budget,
   spent |-> 0, timeout |-> c + TimeoutCycles, timeoutDone |-> FALSE,
   missDone |-> FALSE, levels |-> {}]

-----------------------------------------------------------------------------
PullbackDue(re, mid) ==
  /\ "reentry_pullback" \notin re.levels
  /\ re.price - PullbackDrop > 0
  /\ mid <= re.price - PullbackDrop

\* Mutant of TimeoutDue: due again after it has been bought.
TimeoutDueAgain(re, c) == c >= re.timeout

TimeoutDue(re, c) == c >= re.timeout /\ ~re.timeoutDone

MaxMissDue(re, mid, confirmed) ==
  ~re.missDone /\ mid >= re.price + MaxMissRise /\ confirmed

ZonesDue(re, mid) ==
  {z \in Zones : /\ ZoneName[z] \notin re.levels
                 /\ re.price - ZoneDrop[z] > 0
                 /\ mid <= re.price - ZoneDrop[z]}

FirstZone(zones) == CHOOSE z \in zones : \A y \in zones : z <= y

\* A timeout or max-miss buy is at least one order, when the rest allows it.
Fraction(re, pct) == Greatest((re.budget * pct) \div 100, MinNotional)

NoPlan == [level |-> "", size |-> 0]

\* build_scale_in_plan(): the first level that is due, whether or not its size
\* is large enough to be placed.
Plan(re, c, mid, room, confirmed) ==
  LET rest == Least(Remaining(re), room)
  IN IF ~re.active \/ rest <= 0 THEN NoPlan
     ELSE IF PullbackDue(re, mid)
     THEN [level |-> "reentry_pullback", size |-> rest]
     ELSE IF TimeoutDue(re, c)
     THEN [level |-> "reentry_timeout",
           size |-> Least(Fraction(re, TimeoutPct), rest)]
     ELSE IF MaxMissDue(re, mid, confirmed)
     THEN [level |-> "reentry_max_miss",
           size |-> Least(Fraction(re, MaxMissPct), rest)]
     ELSE IF ZonesDue(re, mid) # {}
     THEN LET z == FirstZone(ZonesDue(re, mid))
          IN [level |-> ZoneName[z],
              size |-> Least((re.budget * ZonePct[z]) \div 100, rest)]
     ELSE NoPlan

-----------------------------------------------------------------------------
\* The episode ends when all but 2% of the budget is spent, and not before one
\* smallest order is.
SpentUp(re) ==
  100 * re.spent >= Greatest(98 * re.budget, 100 * MinNotional)

\* _record_fill(), the reentry part of a buy, and the flags the tick sets after
\* a timeout or max-miss buy.
RecordReentryBuy(re, level, size) ==
  LET bought == [re EXCEPT !.spent = @ + size, !.levels = @ \cup {level}]
  IN [bought EXCEPT !.active = @ /\ ~SpentUp(bought),
                    !.timeoutDone = @ \/ level = "reentry_timeout",
                    !.missDone = @ \/ level = "reentry_max_miss"]

\* _record_fill(), a partial_reset buy: charged to the record, episode or not.
RecordPartialReset(re, size) == [re EXCEPT !.spent = @ + size]
=============================================================================
