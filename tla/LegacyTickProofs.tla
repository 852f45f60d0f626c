-------------------------- MODULE LegacyTickProofs --------------------------
(***************************************************************************)
(* Theorems about the tick without the decision engine, for every value of *)
(* its constants.  What it shares with the other tick is typed by the      *)
(* lemmas of TradingCycleProofs; what is new here are the two orders of a  *)
(* tick, which are followed through the gates from the proposals to the    *)
(* one that is executed.                                                   *)
(***************************************************************************)
EXTENDS LegacyTick, EpisodeProofs

-----------------------------------------------------------------------------
(* Proposals of a tick. *)

\* A proposal, before the trade filter has made its size an amount.
Drafts == [reason : Buys \cup Sells \cup {""}, size : Int, on : BOOLEAN,
           exit : Exits \cup {""}]

\* A position is held for the failsafe time, and there is enough of it to sell.
Overdue == FailsafeDue /\ Tradable >= MinNotional

\* The sell of a position that is overdue.
FailsafeReason(leg) ==
  \/ leg.reason = "inventory_force_reduce"
  \/ leg.reason = "profit_lock" /\ leg.exit = "time_exit_sell"
FailsafeSell(leg) == leg.size >= MinNotional /\ FailsafeReason(leg)

\* What holds of a buy that is proposed: none in COOLDOWN, and in the waiting
\* state only one of the episode or a forced one is on.
BuyDraft(leg) ==
  /\ leg \in Drafts /\ leg.reason \in Buys \cup {""}
  /\ leg.size # 0 => ~InCooldown(ctx)
  /\ leg.on => /\ leg.reason \in Buys
               /\ RequiresReentryOnly(ctx)
                    => leg.reason \in Levels \cup {"force_trade_buy"}

\* What holds of a sell once it is capped.
SellDraft(leg) ==
  /\ leg \in Drafts /\ leg.reason \in Sells \cup {""}
  /\ leg.size # 0 => leg.reason \in Sells /\ AllowSell(ctx)
  /\ leg.reason = "quoted_sell" /\ leg.size # 0 => tick.mode = "OVERWEIGHT_EXIT"
  /\ leg.exit = "profit_lock_level_1" => ~lock.one
  /\ Overdue => FailsafeSell(leg)

\* Before that a quoted sell may be of a base that is not there.
SellProposal(leg) ==
  /\ leg \in Drafts /\ leg.reason \in Sells \cup {""}
  /\ leg.size # 0 => leg.reason \in Sells /\ AllowSell(ctx)
  /\ leg.reason \in PrioritySells => leg.size >= MinNotional
  /\ leg.reason = "quoted_sell" => base = 0 \/ tick.mode = "OVERWEIGHT_EXIT"
  /\ leg.exit = "profit_lock_level_1" => ~lock.one
  /\ Overdue => FailsafeSell(leg)

\* The variables this tick adds are typed.
PairTyped ==
  /\ pair \in [buy : Legs, sell : Legs, side : {"BUY", "SELL", "NONE"}]
  /\ sent \subseteq {"BUY", "SELL"}
  /\ lock \in [one : BOOLEAN, two : BOOLEAN]
  /\ opened \in Nat \cup {NoCycle} /\ oneSold \in Nat \cup {NoCycle}
  /\ heldSince \in Nat /\ borrowed \in Nat

\* The types that every step keeps.
TickTyped ==
  /\ cycle \in Nat /\ pc \in Steps \cup {"route"}
  /\ tick \in Ticks /\ ctx \in Contexts /\ re \in Episodes /\ order \in Orders
  /\ base \in Nat /\ quote \in Nat
  /\ lossStreak \in Nat /\ lastFill \in Fills
  /\ pc = "chunk" => order.chunks # <<>>

\* No order is a proposal of either side, unless a position is overdue.
LEMMA NoLegDraft ==
  /\ NoLeg \in Drafts /\ NoLeg.size = 0 /\ NoLeg.reason = "" /\ ~NoLeg.on
  /\ BuyDraft(NoLeg)
  /\ ~Overdue => SellProposal(NoLeg) /\ SellDraft(NoLeg)
<1>1. NoLeg \in Drafts /\ NoLeg.size = 0 /\ NoLeg.reason = "" /\ ~NoLeg.on
        /\ NoLeg.exit = ""
  BY DEF NoLeg, Leg, Drafts, Exits
<1>2. "" \notin PrioritySells
  BY DEF PrioritySells, ForcedSells
<1> QED BY <1>1, <1>2 DEF BuyDraft, SellProposal, SellDraft

\* What a proposal is made of.
LEMMA LegDraft ==
  ASSUME NEW reason \in Buys \cup Sells \cup {""}, NEW size \in Int,
         NEW on \in BOOLEAN, NEW exit \in Exits \cup {""}
  PROVE  /\ Leg(reason, size, on, exit) \in Drafts
         /\ Leg(reason, size, on, exit).reason = reason
         /\ Leg(reason, size, on, exit).size = size
         /\ Leg(reason, size, on, exit).on = on
         /\ Leg(reason, size, on, exit).exit = exit
BY DEF Leg, Drafts

\* What the tick has computed is an amount, above the reserve or below it.
LEMMA TradableType ==
  ASSUME TickTyped
  PROVE  Tradable \in Int /\ tick.room \in Nat /\ base \in Nat
BY DEF TickTyped, Tradable, Ticks

\* The gates of a buy: none is proposed in COOLDOWN.
LEMMA BuyGates ==
  ASSUME AllowBuy(ctx) \/ ctx.state = "ACCUMULATING" \/ RequiresReentryOnly(ctx)
  PROVE  ~InCooldown(ctx)
BY DEF AllowBuy, RequiresReentryOnly, InCooldown

\* A buy that passes them is a proposal.
LEMMA BuyOffered ==
  ASSUME NEW reason \in Buys, NEW size \in Int, NEW on \in BOOLEAN,
         ~InCooldown(ctx),
         on /\ RequiresReentryOnly(ctx)
           => reason \in Levels \cup {"force_trade_buy"}
  PROVE  BuyDraft(Leg(reason, size, on, ""))
<1> DEFINE leg == Leg(reason, size, on, "")
<1>1. leg \in Drafts /\ leg.reason = reason /\ leg.on = on
  <2>1. reason \in Buys \cup Sells \cup {""} /\ "" \in Exits \cup {""}
    OBVIOUS
  <2> QED BY <2>1 DEF Leg, Drafts
<1>2. leg.reason \in Buys \cup {""} /\ (leg.on => leg.reason \in Buys)
  BY <1>1
<1>3. leg.on /\ RequiresReentryOnly(ctx)
        => leg.reason \in Levels \cup {"force_trade_buy"}
  BY <1>1
<1>4. BuyDraft(leg)
  <2> HIDE DEF leg
  <2> QED BY <1>1, <1>2, <1>3 DEF BuyDraft
<1> QED BY <1>4

\* The episode's buy is one of its levels.
LEMMA ReentryDraft ==
  ASSUME TickTyped, NEW soft \in BOOLEAN, NEW confirmed \in BOOLEAN,
         ReentryDue(soft, confirmed)
  PROVE  BuyDraft(ReentryLeg(confirmed))
<1> DEFINE plan == Plan(re, cycle, tick.price, tick.room, confirmed)
<1>1. /\ re \in Episodes /\ cycle \in Nat
      /\ tick.price \in Nat /\ tick.room \in Nat
  BY DEF TickTyped, Ticks
<1>2. plan.size >= MinNotional /\ RequiresReentryOnly(ctx)
  BY DEF ReentryDue, ReentryPlan
<1>3. plan.level \in Levels
  BY <1>1, <1>2, PlanType
<1> DEFINE size == Least(plan.size, tick.room)
<1>4. size \in Int
  <2>1. plan.size \in Int
    BY <1>1, <1>2, PlanDue
  <2> HIDE DEF plan
  <2> QED BY <1>1, <2>1 DEF Least
<1>5. plan.level \in Buys
  BY <1>3 DEF Buys
<1>6. ReentryLeg(confirmed) = Leg(plan.level, size, TRUE, "")
  BY DEF ReentryLeg, ReentryPlan
<1> HIDE DEF plan, size
<1> QED BY <1>2, <1>3, <1>4, <1>5, <1>6, BuyGates, BuyOffered

\* A partial reset is a buy outside of the waiting state.
LEMMA ResetDraft ==
  ASSUME TickTyped, NEW soft \in BOOLEAN, NEW leg \in ResetLegs(soft)
  PROVE  BuyDraft(leg)
<1>1. PICK size \in {MinNotional, MaxTrade} :
        /\ leg = Leg("partial_reset", size, TRUE, "")
        /\ AllowBuy(ctx) /\ ~RequiresReentryOnly(ctx)
  BY DEF ResetLegs
<1>2. size \in Int
  BY CycleAssumption, ReentryAssumption
<1>3. "partial_reset" \in Buys
  BY DEF Buys, InventoryBuys
<1> QED BY <1>1, <1>2, <1>3, BuyGates, BuyOffered

\* A quoted buy is off in the waiting state.
LEMMA QuotedDraft ==
  ASSUME TickTyped, NEW soft \in BOOLEAN, NEW size \in Int,
         NEW leg \in QuotedBuys(size, soft)
  PROVE  BuyDraft(leg)
<1>1. CASE leg = NoLeg
  BY <1>1, NoLegDraft
<1>2. CASE leg # NoLeg
  <2>1. AllowBuy(ctx)
    BY <1>2 DEF QuotedBuys
  <2>2. PICK on \in {FALSE, ~RequiresReentryOnly(ctx)} :
          leg = Leg("trend_buy", size, on, "")
    BY <1>2 DEF QuotedBuys
  <2>3. on \in BOOLEAN /\ on => ~RequiresReentryOnly(ctx)
    BY <2>2
  <2>4. "trend_buy" \in Buys
    BY DEF Buys, StrategyBuys
  <2> QED BY <2>1, <2>2, <2>3, <2>4, BuyGates, BuyOffered
<1> QED BY <1>1, <1>2

\* Every buy that is proposed passes the gates.
LEMMA BuyProposed ==
  ASSUME TickTyped, NEW soft \in BOOLEAN, NEW size \in Int,
         NEW leg \in BuyLegs(size, soft)
  PROVE  BuyDraft(leg)
<1>1. PICK confirmed \in BOOLEAN :
        leg \in IF ReentryDue(soft, confirmed) THEN {ReentryLeg(confirmed)}
                ELSE ResetLegs(soft) \cup QuotedBuys(size, soft)
  BY DEF BuyLegs
<1>2. CASE ReentryDue(soft, confirmed)
  BY <1>1, <1>2, ReentryDraft
<1>3. CASE leg \in ResetLegs(soft) \cup QuotedBuys(size, soft)
  BY <1>3, ResetDraft, QuotedDraft
<1> QED BY <1>1, <1>2, <1>3

\* So does a forced buy.
LEMMA ForcedBuyDraft ==
  ASSUME TickTyped, NEW soft \in BOOLEAN, NEW leg \in ForcedBuys(soft)
  PROVE  BuyDraft(leg)
<1> DEFINE size == Least(ForceSize, tick.room)
<1>1. /\ leg = Leg("force_trade_buy", size, TRUE, "")
      /\ AllowBuy(ctx) \/ ctx.state = "ACCUMULATING"
  BY DEF ForcedBuys
<1>2. size \in Int
  BY LegacyAssumption, TradableType DEF Least
<1>3. "force_trade_buy" \in Buys
  BY DEF Buys
<1> HIDE DEF size
<1> QED BY <1>1, <1>2, <1>3, BuyGates, BuyOffered

\* A sell that passes the gates is a proposal.
LEMMA SellOffered ==
  ASSUME NEW reason \in Sells, NEW size \in Int, NEW exit \in Exits \cup {""},
         size # 0 => AllowSell(ctx),
         reason \in PrioritySells => size >= MinNotional,
         reason = "quoted_sell" => base = 0 \/ tick.mode = "OVERWEIGHT_EXIT",
         exit = "profit_lock_level_1" => ~lock.one,
         Overdue => /\ size >= MinNotional
                    /\ \/ reason = "inventory_force_reduce"
                       \/ reason = "profit_lock" /\ exit = "time_exit_sell"
  PROVE  SellProposal(Leg(reason, size, TRUE, exit))
<1> DEFINE leg == Leg(reason, size, TRUE, exit)
<1>1. leg \in Drafts /\ leg.reason = reason /\ leg.size = size /\ leg.exit = exit
  BY DEF Leg, Drafts
<1>2. SellProposal(leg)
  <2> HIDE DEF leg
  <2> QED BY <1>1 DEF SellProposal, FailsafeSell, FailsafeReason
<1> QED BY <1>2

\* The smallest order is an amount above nothing.
LEMMA SmallestOrder == MinNotional \in Nat /\ ~(0 >= MinNotional)
BY ReentryAssumption

\* A position is overdue only in a state that sells.
LEMMA OverdueSells ==
  ASSUME Overdue
  PROVE  /\ ctx.state = "ACCUMULATING" /\ AllowSell(ctx)
         /\ ~RequiresReentryOnly(ctx)
         /\ \A soft \in BOOLEAN : ~Cooling(soft)
         /\ Tradable >= MinNotional
BY DEF Overdue, FailsafeDue, AllowSell, RequiresReentryOnly, Cooling, InCooldown

\* What an exit of a position is before and after its cap: none, a regular sell
\* or a forced one, and level one only while it has not been sold.
ExitDraft(leg) ==
  /\ leg \in Drafts /\ leg.reason \in {"", "trend_rally_sell", "profit_lock"}
  /\ leg.reason = "" => leg.size = 0
  /\ leg.exit = "profit_lock_level_1" => ~lock.one

\* An exit is one of these.
LEMMA ExitLegDraft ==
  ASSUME NEW exit \in Exits, NEW size \in Int,
         exit = "profit_lock_level_1" => ~lock.one
  PROVE  ExitDraft(ExitLeg(exit, size))
BY DEF ExitLeg, ExitDraft, Leg, Drafts, Sells, StrategySells

\* So is an empty one.
LEMMA NoExitDraft == ExitDraft(NoLeg)
BY DEF ExitDraft, NoLeg, Leg, Drafts, Exits

\* So is the plan of the profit lock, whichever of its returns it takes.
LEMMA LockPlanDraft ==
  ASSUME TickTyped, NEW band \in Bands, NEW top \in BOOLEAN
  PROVE  ExitDraft(LockPlan(band, top))
<1>1. Tradable \in Int /\ (Tradable * LevelOnePct) \div 100 \in Int
  BY TradableType, LegacyAssumption
<1>2. \A exit \in Exits \ {"profit_lock_level_1"} :
        ExitDraft(ExitLeg(exit, Tradable))
  BY <1>1, ExitLegDraft
<1>3. ~lock.one =>
        ExitDraft(ExitLeg("profit_lock_level_1",
                          (Tradable * LevelOnePct) \div 100))
  BY <1>1, ExitLegDraft DEF Exits
<1>4. {"time_exit_sell", "stop_loss_sell", "range_sell", "profit_lock_level_2"}
        \subseteq Exits \ {"profit_lock_level_1"}
  BY DEF Exits
<1> QED BY <1>2, <1>3, <1>4, NoExitDraft DEF LockPlan

\* So is an open profit.
LEMMA OpenProfitDraft ==
  ASSUME TickTyped, NEW band \in Bands
  PROVE  ExitDraft(OpenProfitPlan(band))
BY TradableType, ExitLegDraft, NoExitDraft DEF OpenProfitPlan, Exits

\* The cap of paper trading keeps what an exit is.
LEMMA CappedDraft ==
  ASSUME TickTyped, NEW leg, ExitDraft(leg), NEW excess \in Int
  PROVE  ExitDraft(Capped(leg, excess))
<1> DEFINE size == Least(Least(leg.size, ExitCap), excess)
           kept == IF size >= MinNotional THEN size ELSE 0
           cut == [leg EXCEPT !.size = kept]
<1>1. leg \in Drafts /\ leg.size \in Int
  BY DEF ExitDraft, Drafts
<1>2. kept \in Int
  BY <1>1, LegacyAssumption DEF Least
<1>3. leg.size = 0 => kept = 0
  BY <1>1, LegacyAssumption, ReentryAssumption DEF Least
<1>4. Capped(leg, excess) = leg \/ Capped(leg, excess) = cut
  BY DEF Capped
<1>5. ExitDraft(cut)
  <2> HIDE DEF kept
  <2> QED BY <1>1, <1>2, <1>3 DEF ExitDraft, Drafts
<1> QED BY <1>4, <1>5

\* An overdue position is planned to be sold as a whole, and no cap cuts that.
LEMMA OverdueExit ==
  ASSUME TickTyped, Overdue, NEW band, NEW top, NEW excess
  PROVE  ExitOf(band, top, excess) = ExitLeg("time_exit_sell", Tradable)
<1> DEFINE leg == ExitLeg("time_exit_sell", Tradable)
<1>1. Tradable \in Int /\ Tradable >= MinNotional /\ Tradable # 0
  BY TradableType, OverdueSells, ReentryAssumption
<1>2. LockPlan(band, top) = leg
  BY <1>1 DEF LockPlan, Overdue
<1>3. leg.exit = "time_exit_sell" /\ leg.size = Tradable
  BY DEF ExitLeg, Leg
<1> HIDE DEF leg
<1>4. Capped(leg, excess) = leg
  BY <1>3 DEF Capped
<1> QED BY <1>1, <1>2, <1>3, <1>4 DEF ExitOf, leg

\* An exit that is large enough to be placed is a proposal of the sell side.
LEMMA ExitProposed ==
  ASSUME TickTyped, NEW soft \in BOOLEAN, NEW leg \in ExitLegs(soft),
         leg.size >= MinNotional
  PROVE  SellProposal(leg)
<1>1. leg # NoLeg
  <2>1. ~(0 >= MinNotional)
    BY SmallestOrder
  <2>2. NoLeg.size = 0
    BY NoLegDraft
  <2> QED BY <2>1, <2>2
<1>2. /\ AllowSell(ctx)
      /\ \E band \in Bands, top \in BOOLEAN, excess \in {0, base} :
           leg = ExitOf(band, top, excess)
  BY <1>1 DEF ExitLegs
<1>3. PICK band \in Bands, top \in BOOLEAN, excess \in {0, base} :
        leg = ExitOf(band, top, excess)
  BY <1>2
<1>4. excess \in Int
  BY <1>3, TradableType
<1>5. ExitDraft(leg)
  BY <1>3, <1>4, LockPlanDraft, OpenProfitDraft, CappedDraft DEF ExitOf
<1>6. leg.size # 0
  BY ReentryAssumption
<1>7. /\ leg.reason \in {"trend_rally_sell", "profit_lock"}
      /\ leg.reason \in Sells
  BY <1>5, <1>6 DEF ExitDraft, Sells, StrategySells
<1>8. Overdue => FailsafeSell(leg)
  BY <1>3, OverdueExit DEF FailsafeSell, FailsafeReason, ExitLeg, Leg
<1> QED BY <1>2, <1>5, <1>7, <1>8 DEF ExitDraft, SellProposal

\* A regular sell is offered only by the gates, and not while the second level
\* of the profit lock is outstanding, unless the book is to be reduced.
LEMMA RegularProposed ==
  ASSUME TickTyped, ~(lock.one /\ lock.two), ~Overdue,
         NEW soft \in BOOLEAN, NEW size \in Int,
         NEW leg \in RegularSells(size, soft)
  PROVE  SellProposal(leg)
<1>1. CASE leg = NoLeg
  BY <1>1, NoLegDraft
<1>2. CASE leg # NoLeg
  <2>1. /\ AllowSell(ctx) /\ ~Delayed
        /\ leg = Leg("quoted_sell", size, TRUE, "")
    BY <1>2 DEF RegularSells
  <2>2. base = 0 \/ tick.mode = "OVERWEIGHT_EXIT"
    <3>1. tick.mode = "OVERWEIGHT_EXIT" \/ ~(base > 0)
      BY <2>1, Zenon DEF Delayed
    <3> QED BY <3>1, TradableType
  <2>3. "quoted_sell" \in Sells /\ "quoted_sell" \notin PrioritySells
    BY DEF Sells, StrategySells, PrioritySells, ForcedSells
  <2> QED BY <2>1, <2>2, <2>3, SellOffered
<1> QED BY <1>1, <1>2

\* A book above its force limit is reduced by at least the smallest order.
LEMMA ReduceProposed ==
  ASSUME TickTyped, NEW soft \in BOOLEAN, NEW size \in Int,
         NEW leg \in ForcedReduce(size, soft)
  PROVE  SellProposal(leg) /\ leg.size >= MinNotional
<1> DEFINE most == Greatest(size, MinNotional)
<1>1. most \in Int /\ most >= MinNotional
  BY ReentryAssumption DEF Greatest
<1>2. AllowSell(ctx) /\ leg = Leg("inventory_force_reduce", most, TRUE, "")
  BY DEF ForcedReduce
<1>3. "inventory_force_reduce" \in Sells
  BY DEF Sells, StrategySells
<1> HIDE DEF most
<1>4. SellProposal(leg)
  BY <1>1, <1>2, <1>3, SellOffered
<1> QED BY <1>1, <1>2, <1>4 DEF Leg

\* Every sell that is proposed passes the gates, and an overdue position is
\* sold or reduced.
LEMMA SellProposed ==
  ASSUME TickTyped, ~(lock.one /\ lock.two),
         NEW soft \in BOOLEAN, NEW size \in Int,
         NEW leg \in SellLegs(size, soft)
  PROVE  SellProposal(leg)
<1>1. CASE leg \in ForcedReduce(size, soft)
  BY <1>1, ReduceProposed
<1>2. CASE leg \notin ForcedReduce(size, soft)
  <2>1. PICK exit \in ExitLegs(soft) :
          leg \in IF exit.size >= MinNotional THEN {exit}
                  ELSE RegularSells(size, soft)
    BY <1>2 DEF SellLegs
  <2>2. CASE exit.size >= MinNotional
    BY <2>1, <2>2, ExitProposed
  <2>3. CASE ~(exit.size >= MinNotional)
    <3>1. ~Overdue
      <4> SUFFICES ASSUME Overdue PROVE exit.size >= MinNotional
        BY <2>3
      <4>1. /\ ~Cooling(soft) /\ AllowSell(ctx)
            /\ ctx.state \in {"ACCUMULATING", "DISTRIBUTING"}
        BY OverdueSells
      <4>2. PICK band \in Bands, top \in BOOLEAN, excess \in {0, base} :
              exit = ExitOf(band, top, excess)
        BY <2>1, <4>1 DEF ExitLegs
      <4>3. exit = ExitLeg("time_exit_sell", Tradable)
        BY <4>2, OverdueExit
      <4> QED BY <4>3, OverdueSells DEF ExitLeg, Leg
    <3> QED BY <2>1, <2>3, <3>1, RegularProposed
  <2> QED BY <2>2, <2>3
<1> QED BY <1>1, <1>2

\* A forced sell is a proposal, when nothing is overdue.
LEMMA ForcedSellProposed ==
  ASSUME TickTyped, ~Overdue, NEW soft \in BOOLEAN,
         NEW leg \in ForcedTradeSells(soft)
  PROVE  SellProposal(leg)
<1> DEFINE size == Least(ForceSize, Tradable)
<1>1. AllowSell(ctx) /\ leg = Leg("force_trade_sell", size, TRUE, "")
  BY DEF ForcedTradeSells
<1>2. size \in Int
  BY LegacyAssumption, TradableType DEF Least
<1>3. "force_trade_sell" \in Sells /\ "force_trade_sell" \notin PrioritySells
  BY DEF Sells, PrioritySells
<1> HIDE DEF size
<1> QED BY <1>1, <1>2, <1>3, SellOffered

-----------------------------------------------------------------------------
(* The way of both orders through the tick. *)

\* Both orders as they are proposed, and as they are when they are capped.
Proposals(legs) ==
  legs \in [buy : Drafts, sell : Drafts] /\ BuyDraft(legs.buy)
    /\ SellProposal(legs.sell)

OrdersDrafted(legs) ==
  /\ legs \in [buy : Drafts, sell : Drafts]
  /\ BuyDraft(legs.buy) /\ SellDraft(legs.sell)
  /\ legs.sell.reason \in PrioritySells => legs.buy.size = 0
  /\ legs.buy.on => legs.sell.reason \notin PrioritySells

\* A forced trade replaces one of them by a proposal, none that is overdue.
LEMMA ForcedKeeps ==
  ASSUME TickTyped, NEW soft \in BOOLEAN, NEW buy, NEW sell,
         BuyDraft(buy), SellProposal(sell), NEW made \in WithForced(buy, sell, soft)
  PROVE  Proposals(made)
<1>1. buy \in Drafts /\ sell \in Drafts
  BY DEF BuyDraft, SellProposal
<1>2. CASE made = [buy |-> buy, sell |-> sell]
  BY <1>1, <1>2 DEF Proposals
<1>3. CASE \E b \in ForcedBuys(soft) : made = [buy |-> b, sell |-> sell]
  <2>1. PICK b \in ForcedBuys(soft) : made = [buy |-> b, sell |-> sell]
    BY <1>3
  <2>2. BuyDraft(b) /\ b \in Drafts
    BY ForcedBuyDraft DEF BuyDraft
  <2> QED BY <1>1, <2>1, <2>2 DEF Proposals
<1>4. CASE /\ sell.size < MinNotional
           /\ \E s \in ForcedTradeSells(soft) : made = [buy |-> buy, sell |-> s]
  <2>1. PICK s \in ForcedTradeSells(soft) : made = [buy |-> buy, sell |-> s]
    BY <1>4
  <2>2. ~Overdue
    <3>1. sell.size \in Int /\ MinNotional \in Int
      <4>1. sell.size \in Int
        BY <1>1 DEF Drafts
      <4> QED BY <4>1, SmallestOrder
    <3>2. ~(sell.size >= MinNotional)
      BY <1>4, <3>1
    <3> QED BY <3>2, Zenon DEF SellProposal, FailsafeSell
  <2>3. SellProposal(s) /\ s \in Drafts
    BY <2>2, ForcedSellProposed DEF SellProposal
  <2> QED BY <1>1, <2>1, <2>3 DEF Proposals
<1> QED BY <1>2, <1>3, <1>4 DEF WithForced

\* The drift guard strikes out no sell of an overdue position, and beside a sell
\* that has priority no buy is left.
LEMMA KeptProposals ==
  ASSUME NEW made, Proposals(made), NEW drifted \in Drifted(made)
  PROVE  /\ Proposals(Prioritised(drifted))
         /\ Prioritised(drifted).sell.reason \in PrioritySells
              => Prioritised(drifted).buy = NoLeg
<1>1. /\ BuyDraft(made.buy) /\ SellProposal(made.sell)
      /\ made.buy \in Drafts /\ made.sell \in Drafts
  BY DEF Proposals
<1>2. /\ drifted.buy \in {made.buy, NoLeg} /\ drifted.sell \in {made.sell, NoLeg}
      /\ made.sell.reason \in ForcedSells => drifted.sell = made.sell
      /\ drifted = [buy |-> drifted.buy, sell |-> drifted.sell]
  BY DEF Drifted
<1>3. Overdue => drifted.sell = made.sell
  <2> SUFFICES ASSUME Overdue PROVE made.sell.reason \in ForcedSells
    BY <1>2
  <2>1. FailsafeSell(made.sell)
    BY <1>1 DEF SellProposal
  <2> QED BY <2>1 DEF FailsafeSell, FailsafeReason, ForcedSells
<1>4. /\ BuyDraft(drifted.buy) /\ SellProposal(drifted.sell)
      /\ drifted.buy \in Drafts /\ drifted.sell \in Drafts
  BY <1>1, <1>2, <1>3, NoLegDraft
<1>5. Proposals(drifted)
  BY <1>2, <1>4 DEF Proposals
<1>6. CASE drifted.sell.reason \in PrioritySells
  <2> DEFINE alone == [drifted EXCEPT !.buy = NoLeg]
  <2>1. drifted.sell.size >= MinNotional
    BY <1>4, <1>6 DEF SellProposal
  <2>2. Prioritised(drifted) = alone
    BY <1>6, <2>1 DEF Prioritised
  <2>3. alone = [buy |-> NoLeg, sell |-> drifted.sell]
    BY <1>5 DEF Proposals
  <2>4. Proposals(alone) /\ alone.buy = NoLeg
    BY <1>4, <2>3, NoLegDraft DEF Proposals
  <2> QED BY <2>2, <2>4
<1>7. CASE drifted.sell.reason \notin PrioritySells
  BY <1>5, <1>7 DEF Prioritised
<1> QED BY <1>6, <1>7

\* The cap of a buy gives it no size, and leaves a proposal what it is.
LEMMA CappedBuyDraft ==
  ASSUME TickTyped, NEW leg, BuyDraft(leg)
  PROVE  /\ BuyDraft(CappedBuy(leg))
         /\ leg = NoLeg => CappedBuy(leg).size = 0 /\ ~CappedBuy(leg).on
<1> DEFINE size == Least(leg.size, tick.room)
           cut == [leg EXCEPT !.size = size]
<1>1. leg \in Drafts /\ leg.size \in Int /\ tick.room \in Nat
  BY TradableType DEF BuyDraft, Drafts
<1>2. size \in Int /\ (leg.size = 0 => size = 0)
  BY <1>1 DEF Least
<1>3. CappedBuy(leg) = leg \/ CappedBuy(leg) = cut
  BY DEF CappedBuy
<1>4. cut \in Drafts /\ cut.size = size /\ cut.reason = leg.reason
        /\ cut.on = leg.on
  <2> HIDE DEF size
  <2> QED BY <1>1, <1>2 DEF Drafts
<1>5. BuyDraft(cut)
  <2> HIDE DEF cut, size
  <2> QED BY <1>2, <1>4 DEF BuyDraft
<1>6. leg = NoLeg => cut.size = 0 /\ ~cut.on /\ leg.size = 0 /\ ~leg.on
  BY <1>2, <1>4, NoLegDraft
<1> QED BY <1>3, <1>5, <1>6

\* The size of a capped sell: nothing of nothing, and of an overdue position
\* what there is above the reserve.
LEMMA CapSellKeeps ==
  ASSUME TypeOK, NEW reason, NEW size \in Int
  PROVE  /\ CapSell(reason, size, 0) \in Int
         /\ size = 0 \/ base = 0 => CapSell(reason, size, 0) = 0
         /\ /\ reason \notin FloorSells
            /\ size >= MinNotional /\ Tradable >= MinNotional
            => CapSell(reason, size, 0) >= MinNotional
<1> DEFINE most == Sellable(reason)
<1>1. most \in Nat /\ most <= base /\ base \in Nat /\ most + 0 = most
  BY SellableType DEF TypeOK
<1>2. CapSell(reason, size, 0) = IF most = 0 THEN 0 ELSE Least(size, most)
  BY <1>1 DEF CapSell
<1>3. reason \notin FloorSells /\ Tradable >= MinNotional => most >= MinNotional
  <2> SUFFICES ASSUME reason \notin FloorSells, Tradable >= MinNotional
               PROVE  Greatest(Tradable, 0) >= MinNotional
    BY DEF Sellable, SellFloor, Tradable
  <2>1. Tradable \in Int
    BY DEF Tradable, TypeOK, Ticks
  <2> QED BY <2>1, SmallestOrder DEF Greatest
<1> HIDE DEF most
<1>4. MinNotional \in Nat /\ MinNotional > 0
  BY SmallestOrder
<1> QED BY <1>1, <1>2, <1>3, <1>4 DEF Least

\* The caps of both orders keep what is known of them.
LEMMA CappedOrders ==
  ASSUME TypeOK, TickTyped, NEW legs, Proposals(legs),
         legs.sell.reason \in PrioritySells => legs.buy = NoLeg
  PROVE  OrdersDrafted(CapOrders(legs))
<1> DEFINE buy == CappedBuy(legs.buy)
           sell == legs.sell
           size == CapSell(sell.reason, sell.size, 0)
           cut == [sell EXCEPT !.size = size]
<1>1. BuyDraft(legs.buy) /\ SellProposal(sell) /\ sell \in Drafts
        /\ sell.size \in Int
  BY DEF Proposals, SellProposal, Drafts
<1>2. BuyDraft(buy) /\ buy \in Drafts
        /\ (legs.buy = NoLeg => buy.size = 0 /\ ~buy.on)
  BY <1>1, CappedBuyDraft DEF BuyDraft
<1>3. /\ size \in Int
      /\ sell.size = 0 \/ base = 0 => size = 0
      /\ /\ sell.reason \notin FloorSells
         /\ sell.size >= MinNotional /\ Tradable >= MinNotional
         => size >= MinNotional
  BY <1>1, CapSellKeeps
<1>4. cut \in Drafts /\ cut.size = size /\ cut.reason = sell.reason
        /\ cut.exit = sell.exit
  <2> HIDE DEF size
  <2> QED BY <1>1, <1>3 DEF Drafts
<1>5. CapOrders(legs) = [buy |-> buy, sell |-> cut]
  BY DEF CapOrders
<1>6. Overdue => FailsafeSell(cut)
  <2> SUFFICES ASSUME Overdue PROVE FailsafeSell(cut)
    OBVIOUS
  <2>1. sell.size >= MinNotional /\ FailsafeReason(sell)
    BY <1>1 DEF SellProposal, FailsafeSell
  <2>2. sell.reason \notin FloorSells
    BY <2>1 DEF FailsafeReason, FloorSells
  <2>3. size >= MinNotional
    BY <1>3, <2>1, <2>2, OverdueSells
  <2> HIDE DEF cut, size
  <2> QED BY <1>4, <2>1, <2>3 DEF FailsafeSell, FailsafeReason
<1> HIDE DEF cut, size, buy
<1>7. SellDraft(cut)
  BY <1>1, <1>3, <1>4, <1>6 DEF SellProposal, SellDraft
<1> QED BY <1>2, <1>4, <1>5, <1>7 DEF OrdersDrafted

\* What the tick has decided, once the pipeline has judged the selected order.
PairSound(p) ==
  /\ p.buy.size # 0 => ~InCooldown(ctx)
  /\ p.sell.size # 0 => AllowSell(ctx)
  /\ p.sell.reason \in PrioritySells => p.buy.size = 0
  /\ p.sell.exit = "profit_lock_level_1" => ~lock.one
  /\ p.side = "BUY" =>
       /\ p.buy.reason \in Buys /\ ~InCooldown(ctx) /\ ~Overdue
       /\ RequiresReentryOnly(ctx)
            => p.buy.reason \in Levels \cup {"force_trade_buy"}
  /\ p.side = "SELL" =>
       /\ p.sell.reason \in Sells /\ AllowSell(ctx)
       /\ p.sell.reason = "quoted_sell" => tick.mode = "OVERWEIGHT_EXIT"
       /\ Overdue => FailsafeReason(p.sell)

\* A proposal becomes a pair of orders, of which one may be selected.
LEMMA GatedSound ==
  ASSUME NEW legs, OrdersDrafted(legs), NEW p \in Gated(legs)
  PROVE  /\ p \in [buy : Drafts, sell : Drafts, side : {"BUY", "SELL", "NONE"}]
         /\ PairSound(p)
<1>1. /\ legs.buy \in Drafts /\ legs.sell \in Drafts
      /\ BuyDraft(legs.buy) /\ SellDraft(legs.sell)
      /\ legs.sell.reason \in PrioritySells => legs.buy.size = 0
      /\ legs.buy.on => legs.sell.reason \notin PrioritySells
  BY DEF OrdersDrafted
<1> DEFINE side == Selected(legs)
<1>2. /\ side \in {"BUY", "SELL", "NONE"}
      /\ side = "BUY" => legs.buy.on /\ legs.buy.size >= MinNotional
      /\ side = "SELL" => legs.sell.size >= MinNotional
  BY DEF Selected
<1>3. /\ NoLeg \in Drafts /\ NoLeg.size = 0
      /\ NoLeg.reason \notin PrioritySells
      /\ NoLeg.exit # "profit_lock_level_1"
  BY NoLegDraft DEF NoLeg, Leg, PrioritySells, ForcedSells
<1>4. Overdue => legs.sell.reason \in PrioritySells /\ FailsafeReason(legs.sell)
  BY <1>1 DEF SellDraft, FailsafeSell, FailsafeReason, PrioritySells, ForcedSells
<1>5. CASE p = [buy |-> legs.buy, sell |-> legs.sell, side |-> side]
  <2>1. p.buy = legs.buy /\ p.sell = legs.sell /\ p.side = side
    BY <1>5
  <2>2. side = "BUY" => legs.buy.size # 0
    BY <1>2, SmallestOrder
  <2>3. side = "SELL" => legs.sell.size # 0
    BY <1>2, SmallestOrder
  <2> HIDE DEF side
  <2>4. PairSound(p)
    BY <1>1, <1>2, <1>4, <2>1, <2>2, <2>3 DEF PairSound, BuyDraft, SellDraft
  <2> QED BY <1>1, <1>2, <1>5, <2>4
<1>6. CASE p = Rejected(legs, side)
  <2>1. /\ p.buy \in {legs.buy, NoLeg} /\ p.sell \in {legs.sell, NoLeg}
        /\ p.side = "NONE"
        /\ p = [buy |-> p.buy, sell |-> p.sell, side |-> p.side]
    BY <1>6 DEF Rejected
  <2>2. PairSound(p)
    BY <1>1, <1>3, <2>1 DEF PairSound, BuyDraft, SellDraft
  <2> QED BY <1>1, <1>3, <2>1, <2>2
<1> QED BY <1>5, <1>6 DEF Gated

\* The trade filter keeps an order without a size as it is, and makes an amount
\* of every other.
LEMMA FilteredSound ==
  ASSUME NEW p \in [buy : Drafts, sell : Drafts, side : {"BUY", "SELL", "NONE"}],
         PairSound(p),
         NEW bs \in FilteredSizes(p.buy.size),
         NEW ss \in FilteredSizes(p.sell.size)
  PROVE  LET q == [p EXCEPT !.buy.size = bs, !.sell.size = ss]
         IN /\ q \in [buy : Legs, sell : Legs, side : {"BUY", "SELL", "NONE"}]
            /\ PairSound(q)
<1> DEFINE q == [p EXCEPT !.buy.size = bs, !.sell.size = ss]
<1>1. /\ bs \in Nat /\ (p.buy.size = 0 => bs = 0)
      /\ ss \in Nat /\ (p.sell.size = 0 => ss = 0)
  BY SmallestOrder DEF FilteredSizes
<1>2. /\ p.buy \in Drafts /\ p.sell \in Drafts
      /\ q.buy = [p.buy EXCEPT !.size = bs]
      /\ q.sell = [p.sell EXCEPT !.size = ss] /\ q.side = p.side
  <2>1. p.buy \in Drafts /\ p.sell \in Drafts
    OBVIOUS
  <2>2. q.buy = [p.buy EXCEPT !.size = bs]
    OBVIOUS
  <2>3. q.sell = [p.sell EXCEPT !.size = ss]
    OBVIOUS
  <2>4. q.side = p.side
    OBVIOUS
  <2> QED BY <2>1, <2>2, <2>3, <2>4
<1>3. /\ q.buy \in Legs /\ q.buy.size = bs /\ q.buy.reason = p.buy.reason
      /\ q.sell \in Legs /\ q.sell.size = ss /\ q.sell.reason = p.sell.reason
      /\ q.sell.exit = p.sell.exit
  BY <1>1, <1>2 DEF Drafts, Legs
<1>4. q \in [buy : Legs, sell : Legs, side : {"BUY", "SELL", "NONE"}]
  <2> DEFINE b == [p.buy EXCEPT !.size = bs]
             s == [p.sell EXCEPT !.size = ss]
  <2>1. q = [p EXCEPT !.buy = b, !.sell = s]
    OBVIOUS
  <2>2. b \in Legs /\ s \in Legs
    BY <1>2, <1>3
  <2> HIDE DEF b, s, q
  <2> QED BY <2>1, <2>2
<1> HIDE DEF q
<1>5. PairSound(q)
  BY <1>1, <1>2, <1>3 DEF PairSound, FailsafeReason
<1> QED BY <1>4, <1>5 DEF q

\* What a tick decides passes the gates, unless both levels of the profit lock
\* were executed.
LEMMA DecisionSound ==
  ASSUME TickTyped, ~(lock.one /\ lock.two), LegacyDecide
  PROVE  /\ pair' \in [buy : Legs, sell : Legs, side : {"BUY", "SELL", "NONE"}]
         /\ PairSound(pair')
<1>1. TypeOK
  BY DEF TickTyped, TypeOK, LegacyDecide, Steps
<1>2. PICK size \in QuoteSizes, soft \in BOOLEAN :
        \E buy \in BuyLegs(size, soft), sell \in SellLegs(size, soft) :
        \E made \in WithForced(buy, sell, soft) :
        \E kept \in {Prioritised(legs) : legs \in Drifted(made)} :
        \E gated \in Gated(CapOrders(kept)) :
        \E bs \in FilteredSizes(gated.buy.size),
           ss \in FilteredSizes(gated.sell.size) :
             pair' = [gated EXCEPT !.buy.size = bs, !.sell.size = ss]
  BY DEF LegacyDecide
<1>3. size \in Int
  BY LegacyAssumption DEF QuoteSizes
<1>4. PICK buy \in BuyLegs(size, soft), sell \in SellLegs(size, soft) :
        \E made \in WithForced(buy, sell, soft) :
        \E kept \in {Prioritised(legs) : legs \in Drifted(made)} :
        \E gated \in Gated(CapOrders(kept)) :
        \E bs \in FilteredSizes(gated.buy.size),
           ss \in FilteredSizes(gated.sell.size) :
             pair' = [gated EXCEPT !.buy.size = bs, !.sell.size = ss]
  BY <1>2
<1>5. BuyDraft(buy) /\ SellProposal(sell)
  BY <1>3, BuyProposed, SellProposed
<1>6. PICK made \in WithForced(buy, sell, soft) :
        \E kept \in {Prioritised(legs) : legs \in Drifted(made)} :
        \E gated \in Gated(CapOrders(kept)) :
        \E bs \in FilteredSizes(gated.buy.size),
           ss \in FilteredSizes(gated.sell.size) :
             pair' = [gated EXCEPT !.buy.size = bs, !.sell.size = ss]
  BY <1>4
<1>7. Proposals(made)
  BY <1>5, ForcedKeeps
<1>8. PICK drifted \in Drifted(made) :
        \E gated \in Gated(CapOrders(Prioritised(drifted))) :
        \E bs \in FilteredSizes(gated.buy.size),
           ss \in FilteredSizes(gated.sell.size) :
             pair' = [gated EXCEPT !.buy.size = bs, !.sell.size = ss]
  BY <1>6
<1>9. OrdersDrafted(CapOrders(Prioritised(drifted)))
  <2>1. /\ Proposals(Prioritised(drifted))
        /\ Prioritised(drifted).sell.reason \in PrioritySells
             => Prioritised(drifted).buy = NoLeg
    BY <1>7, KeptProposals
  <2> QED BY <1>1, <2>1, CappedOrders
<1>10. PICK gated \in Gated(CapOrders(Prioritised(drifted))) :
         \E bs \in FilteredSizes(gated.buy.size),
            ss \in FilteredSizes(gated.sell.size) :
              pair' = [gated EXCEPT !.buy.size = bs, !.sell.size = ss]
  BY <1>8
<1>11. /\ gated \in [buy : Drafts, sell : Drafts, side : {"BUY", "SELL", "NONE"}]
       /\ PairSound(gated)
  BY <1>9, GatedSound
<1>12. PICK bs \in FilteredSizes(gated.buy.size),
            ss \in FilteredSizes(gated.sell.size) :
         pair' = [gated EXCEPT !.buy.size = bs, !.sell.size = ss]
  BY <1>10
<1> HIDE DEF PairSound
<1> QED BY <1>11, <1>12, FilteredSound, Zenon

-----------------------------------------------------------------------------
(* Types. *)

\* The steps that are those of the other tick.
SharedStep == InvalidPrice \/ BeginTick \/ Execute \/ CloseTick \/ LoopOver

\* The types and the profit lock, of which the second level is never kept.
LegacyTyped ==
  /\ TickTyped /\ PairTyped
  /\ ~lock.two
  /\ pc = "route" => PairSound(pair)

\* A step is shared or one of this tick's own.
LEMMA LegacySteps ==
  ASSUME LegacyNext
  PROVE  \/ SharedStep
         \/ LegacyStop \/ LegacyNoTrade \/ LegacyDecide
         \/ RouterFails \/ RouteOrders
BY DEF LegacyNext, SharedStep, Execute, LegacyInvalid, LegacyBegin,
  LegacyDropped, LegacyBuyFilled, LegacySellTried, LegacyChunkFilled,
  LegacyClose, LegacyOver

\* A shared step keeps the types as it does in the other tick.
LEMMA SharedTyped ==
  ASSUME TickTyped, SharedStep
  PROVE  TypeOK /\ TypeOK' /\ TickTyped' /\ pc' # "route"
<1>1. pc # "route"
  BY DEF SharedStep, InvalidPrice, BeginTick, Execute, BuyDropped, BuyFilled,
    BuyPlaced, SellDropped, SellRefused, SellPlaced, SellPrepared, ChunkDropped,
    ChunkFilled, CloseTick, LoopOver
<1>2. TypeOK
  BY <1>1 DEF TickTyped, TypeOK
<1>3. TypeOK'
  BY <1>2, TypeStep DEF SharedStep, Next
<1> QED BY <1>2, <1>3 DEF TypeOK, TickTyped, Steps

\* A tick that ends, or stops the loop, leaves what it had computed.
LEMMA EndTyped ==
  ASSUME TickTyped, EndTick \/ StopLoop,
         UNCHANGED <<ctx, re, base, quote, lossStreak, lastFill>>
  PROVE  TickTyped' /\ pc' \in {"idle", "stopped"}
<1>1. cycle + 1 \in Nat
  BY DEF TickTyped
<1> QED BY <1>1, NothingType DEF EndTick, StopLoop, TickTyped, Steps

\* Selecting an order keeps the types.
LEMMA RouteTyped == LegacyTyped /\ RouteOrders => TickTyped'
<1> SUFFICES ASSUME LegacyTyped, RouteOrders PROVE TickTyped'
  OBVIOUS
<1>1. order' \in Orders
  <2>1. CASE pair.side = "NONE"
    BY <2>1 DEF RouteOrders, LegacyTyped, TickTyped
  <2>2. CASE pair.side # "NONE"
    <3> DEFINE leg == IF pair.side = "BUY" THEN pair.buy ELSE pair.sell
    <3>1. /\ pair.side \in {"BUY", "SELL"}
          /\ pair.buy \in Legs /\ pair.sell \in Legs
      BY <2>2 DEF LegacyTyped, PairTyped
    <3>2. leg.size \in Nat /\ leg.reason \in Buys \cup Sells
      <4>1. pc = "route"
        BY DEF RouteOrders
      <4>2. /\ pair.side = "BUY" => pair.buy.reason \in Buys
            /\ pair.side = "SELL" => pair.sell.reason \in Sells
        BY <4>1 DEF LegacyTyped, PairSound
      <4> QED BY <3>1, <4>2 DEF Legs
    <3>3. PICK loss \in BOOLEAN :
            order' = Decided(pair.side, leg.reason, leg.size, 0, loss)
      BY <2>2 DEF RouteOrders
    <3>4. 0 \in 0..Premium
      BY CycleAssumption
    <3> HIDE DEF leg
    <3> QED BY <3>1, <3>2, <3>3, <3>4, DecidedType
  <2> QED BY <2>1, <2>2
<1> QED BY <1>1 DEF RouteOrders, LegacyTyped, TickTyped, Steps

\* The second level of the profit lock is never kept.
LEMMA AfterExitType ==
  ASSUME PairTyped, ~lock.two, NEW exit
  PROVE  AfterExit(exit) \in [one : BOOLEAN, two : BOOLEAN] /\ ~AfterExit(exit).two
BY DEF AfterExit, NoLock, PairTyped

\* The variables of this tick alone keep their types.
LEMMA PairStep == LegacyTyped /\ LegacyNext => PairTyped' /\ ~lock'.two
<1> SUFFICES ASSUME LegacyTyped, LegacyNext PROVE PairTyped' /\ ~lock'.two
  OBVIOUS
<1>0. PairTyped /\ TickTyped /\ ~lock.two /\ cycle \in Nat
  BY DEF LegacyTyped, TickTyped
<1>1. CASE UNCHANGED legacyVars
  BY <1>0, <1>1 DEF legacyVars, PairTyped
<1>2. CASE LegacyBegin
  BY <1>0, <1>2 DEF LegacyBegin, NoPair, NoLeg, Leg, Legs, PairTyped
<1>3. CASE LegacyDecide
  <2>1. pair' \in [buy : Legs, sell : Legs, side : {"BUY", "SELL", "NONE"}]
    BY <1>0, <1>3, DecisionSound
  <2> QED BY <1>0, <1>3, <2>1 DEF LegacyDecide, PairTyped
<1>4. CASE RouterFails \/ RouteOrders
  BY <1>0, <1>4 DEF RouterFails, RouteOrders, Sized, PairTyped
<1>5. CASE LegacyBuyFilled
  <2>1. TypeOK
    BY <1>0, <1>5, SharedTyped DEF LegacyBuyFilled, SharedStep, Execute
  <2>2. borrowed' \in Nat
    BY <1>0, <1>5, <2>1, BuySizeType DEF LegacyBuyFilled, PairTyped
  <2> QED BY <1>0, <1>5, <2>2 DEF LegacyBuyFilled, NoLock, PairTyped
<1>6. CASE \E premium \in 0..Premium : LegacySellTried(premium)
  BY <1>0, <1>6 DEF LegacySellTried, PairTyped
<1>7. CASE LegacyChunkFilled
  <2>1. lock' \in [one : BOOLEAN, two : BOOLEAN] /\ ~lock'.two
    BY <1>0, <1>7, AfterExitType DEF LegacyChunkFilled
  <2>2. /\ opened' \in Nat \cup {NoCycle} /\ oneSold' \in Nat \cup {NoCycle}
        /\ borrowed' \in Nat /\ heldSince' \in Nat
    BY <1>0, <1>7 DEF LegacyChunkFilled, PairTyped
  <2> QED BY <1>0, <1>7, <2>1, <2>2 DEF LegacyChunkFilled, PairTyped
<1> QED BY <1>1, <1>2, <1>3, <1>4, <1>5, <1>6, <1>7 DEF LegacyNext,
  LegacyInvalid, LegacyStop, LegacyNoTrade, LegacyDropped, LegacyClose, LegacyOver

\* Every step of this tick keeps the types.
LEMMA LegacyTypeStep == LegacyTyped /\ [LegacyNext]_allVars => LegacyTyped'
<1> SUFFICES ASSUME LegacyTyped, [LegacyNext]_allVars PROVE LegacyTyped'
  OBVIOUS
<1>0. TickTyped /\ PairTyped /\ ~lock.two
  BY DEF LegacyTyped
<1>1. CASE UNCHANGED allVars
  BY <1>1 DEF allVars, vars, legacyVars, LegacyTyped, TickTyped, PairTyped,
    PairSound, FailsafeReason, Overdue, FailsafeDue, Tradable, TimeInState,
    InCooldown, AllowSell, RequiresReentryOnly
<1>2. CASE LegacyNext
  <2>1. PairTyped' /\ ~lock'.two
    BY <1>2, PairStep
  <2>2. CASE SharedStep
    BY <1>0, <2>1, <2>2, SharedTyped DEF LegacyTyped
  <2>3. CASE LegacyStop \/ LegacyNoTrade \/ RouterFails
    <3>1. TickTyped' /\ pc' # "route"
      BY <1>0, <2>3, EndTyped DEF LegacyStop, LegacyNoTrade, RouterFails
    <3> QED BY <2>1, <3>1 DEF LegacyTyped
  <2>4. CASE LegacyDecide
    <3>1. TickTyped'
      <4>1. ForgottenStreak \in Nat
        BY <1>0 DEF ForgottenStreak, TickTyped
      <4> QED BY <1>0, <2>4, <4>1 DEF LegacyDecide, TickTyped, Steps
    <3>2. PairSound(pair')
      BY <1>0, <2>4, DecisionSound
    <3>3. PairSound(pair)'
      BY <2>4, <3>2 DEF LegacyDecide, PairSound, FailsafeReason, Overdue,
        FailsafeDue, Tradable, TimeInState, InCooldown, AllowSell,
        RequiresReentryOnly
    <3> QED BY <2>1, <3>1, <3>3 DEF LegacyTyped
  <2>5. CASE RouteOrders
    <3>1. pc' # "route"
      BY <2>5 DEF RouteOrders
    <3> QED BY <2>1, <2>5, <3>1, RouteTyped DEF LegacyTyped
  <2> QED BY <1>2, <2>2, <2>3, <2>4, <2>5, LegacySteps
<1> QED BY <1>1, <1>2

\* The initial state is typed.
LEMMA LegacyTypeInit == LegacyInit => LegacyTyped
<1> SUFFICES ASSUME LegacyInit PROVE LegacyTyped
  OBVIOUS
<1>1. TypeOK /\ pc = "idle"
  BY TypeInit DEF LegacyInit, Init
<1>2. PairTyped /\ ~lock.two
  BY DEF LegacyInit, NoPair, NoLeg, Leg, Legs, NoLock, PairTyped
<1> QED BY <1>1, <1>2 DEF LegacyTyped, TickTyped, TypeOK

\* The inductive invariant of the decision: what reaches the router has passed
\* the gates, and the second level of the profit lock is never kept.
THEOREM LegacyDecisions == LegacySpec => []LegacyTyped
BY LegacyTypeInit, LegacyTypeStep, PTL DEF LegacySpec

\* LegacyTypeOK: the type of every variable, whatever the gates make of both
\* orders; the holdings are never negative.
THEOREM LegacyTypeCorrect == LegacySpec => []LegacyTypeOK
<1>1. LegacyTyped => LegacyTypeOK
  BY DEF LegacyTyped, TickTyped, PairTyped, LegacyTypeOK
<1> QED BY <1>1, LegacyDecisions, PTL

-----------------------------------------------------------------------------
(* What is sent. *)

\* The machine agrees with the book up to the order.
LegacySynced ==
  pc \in {"decide", "route", "order"} =>
    \/ InCooldown(ctx)
    \/ ctx.state = Resting(re.active, base > tick.reserve)

\* What is known of the order of a tick.
LegacyOrdered ==
  pc = "order" =>
    /\ order.side \in {"BUY", "SELL"}
    /\ order.side = "BUY" =>
         /\ ~InCooldown(ctx) /\ ~Overdue
         /\ RequiresReentryOnly(ctx)
              => order.reason \in Levels \cup {"force_trade_buy"}
    /\ order.side = "SELL" =>
         /\ ~InCooldown(ctx)
         /\ order.reason = pair.sell.reason
         /\ order.reason = "quoted_sell" => tick.mode = "OVERWEIGHT_EXIT"
         /\ Overdue => FailsafeReason(pair.sell)
    /\ order.reason = "quoted_sell" => order.side = "SELL"

\* A step to a decision or on the way to an order begins a tick, or leaves the
\* machine, the book and the snapshot alone.
LEMMA WayToOrder ==
  ASSUME LegacyNext, pc' \in {"decide", "route", "order"}
  PROVE  \/ BeginTick /\ pc' = "decide"
         \/ LegacyDecide /\ pc = "decide" /\ pc' = "route"
         \/ RouteOrders /\ pc = "route" /\ pc' = "order" /\ pair.side # "NONE"
<1>1. CASE SharedStep
  <2>1. SUFFICES ASSUME ~BeginTick PROVE FALSE
    BY <1>1 DEF BeginTick
  <2>2. CASE LoopOver
    BY <2>2 DEF LoopOver, vars
  <2> QED BY <1>1, <2>1, <2>2 DEF SharedStep, InvalidPrice, Execute, BuyDropped,
    BuyFilled, AfterTrade, SellDropped, SellRefused, SellPlaced, ChunkDropped,
    ChunkFilled, AfterChunk, CloseTick, EndTick, StopLoop
<1>2. ~LegacyStop /\ ~LegacyNoTrade /\ ~RouterFails
  BY DEF LegacyStop, LegacyNoTrade, RouterFails, EndTick, StopLoop
<1> QED BY <1>1, <1>2, LegacySteps DEF LegacyDecide, RouteOrders

\* The first synchronisation holds until the order.
LEMMA LegacySyncStep ==
  LegacyTyped /\ LegacySynced /\ [LegacyNext]_allVars => LegacySynced'
<1> SUFFICES ASSUME LegacyTyped, LegacySynced, LegacyNext,
                    pc' \in {"decide", "route", "order"}
             PROVE  LegacySynced'
  BY DEF LegacySynced, allVars, vars, InCooldown
<1>1. CASE BeginTick
  <2>1. TypeOK
    BY <1>1, SharedTyped DEF LegacyTyped, SharedStep
  <2> QED BY <1>1, <2>1, BeginSyncs DEF LegacySynced, InCooldown
<1>2. CASE /\ pc \in {"decide", "route"}
           /\ UNCHANGED <<ctx, re, base, tick>>
  BY <1>2 DEF LegacySynced, InCooldown
<1> QED BY <1>1, <1>2, WayToOrder DEF LegacyDecide, RouteOrders

\* What the router is given, whatever is selected of it.
LEMMA SizedSound ==
  ASSUME LegacyTyped, LegacySynced, pc = "route"
  PROVE  /\ Sized \subseteq {"BUY", "SELL"}
         /\ InCooldown(ctx) => Sized = {}
         /\ re.active => "SELL" \notin Sized
         /\ {"BUY", "SELL"} \subseteq Sized
              => pair.sell.reason \notin PrioritySells
<1>1. /\ "BUY" \in Sized => pair.buy.size # 0
      /\ "SELL" \in Sized => pair.sell.size # 0
      /\ Sized \subseteq {"BUY", "SELL"}
  <2>1. ~(0 > 0)
    OBVIOUS
  <2>2. "BUY" \in Sized => pair.buy.size > 0
    BY DEF Sized
  <2>3. "SELL" \in Sized => pair.sell.size > 0
    BY DEF Sized
  <2>4. Sized \subseteq {"BUY", "SELL"}
    BY DEF Sized
  <2> QED BY <2>1, <2>2, <2>3, <2>4
<1>2. PairSound(pair)
  BY DEF LegacyTyped
<1>3. /\ "BUY" \in Sized => ~InCooldown(ctx)
      /\ "SELL" \in Sized => AllowSell(ctx)
      /\ "SELL" \in Sized /\ pair.sell.reason \in PrioritySells
           => "BUY" \notin Sized
  BY <1>1, <1>2 DEF PairSound
<1>4. AllowSell(ctx) => ~re.active /\ ~InCooldown(ctx)
  BY DEF AllowSell, InCooldown, LegacySynced, Resting
<1>5. InCooldown(ctx) => Sized = {}
  BY <1>1, <1>3, <1>4
<1>6. re.active => "SELL" \notin Sized
  BY <1>3, <1>4
<1> QED BY <1>1, <1>3, <1>5, <1>6

\* What is selected of it.
LEMMA LegacyOrderStep ==
  LegacyTyped /\ LegacySynced /\ LegacyOrdered /\ [LegacyNext]_allVars
    => LegacyOrdered'
<1> SUFFICES ASSUME LegacyTyped, LegacySynced, LegacyNext, pc' = "order"
             PROVE  LegacyOrdered'
  BY DEF LegacyOrdered, allVars, vars, legacyVars,
    FailsafeReason, Overdue, FailsafeDue, Tradable, TimeInState, InCooldown,
    RequiresReentryOnly
<1>1. /\ RouteOrders /\ pc = "route" /\ pair.side \in {"BUY", "SELL"}
      /\ PairSound(pair) /\ pair.buy \in Legs /\ pair.sell \in Legs
  BY WayToOrder DEF LegacyTyped, PairTyped
<1>2. UNCHANGED <<ctx, re, base, tick, pair, cycle>>
  BY <1>1 DEF RouteOrders
<1> DEFINE leg == IF pair.side = "BUY" THEN pair.buy ELSE pair.sell
<1>3. order'.side = pair.side /\ order'.reason = leg.reason
  <2>1. \E loss \in BOOLEAN :
          order' = Decided(pair.side, leg.reason, leg.size, 0, loss)
    BY <1>1 DEF RouteOrders
  <2> QED BY <2>1 DEF Decided, NoOrder
<1>4. AllowSell(ctx) => ~InCooldown(ctx)
  BY DEF AllowSell, InCooldown
<1>5. CASE pair.side = "BUY"
  <2>1. /\ order'.side = "BUY" /\ order'.reason = pair.buy.reason
        /\ pair.buy.reason \in Buys /\ ~InCooldown(ctx) /\ ~Overdue
        /\ RequiresReentryOnly(ctx)
             => pair.buy.reason \in Levels \cup {"force_trade_buy"}
    BY <1>1, <1>3, <1>5 DEF PairSound
  <2>2. "quoted_sell" \notin Buys
    BY DEF Buys, Levels, Zones, ZoneName, StrategyBuys, InventoryBuys
  <2> QED BY <1>2, <2>1, <2>2 DEF LegacyOrdered, Overdue, FailsafeDue,
    Tradable, TimeInState, InCooldown, RequiresReentryOnly
<1>6. CASE pair.side = "SELL"
  <2>1. /\ order'.side = "SELL" /\ order'.reason = pair.sell.reason
        /\ ~InCooldown(ctx)
        /\ pair.sell.reason = "quoted_sell" => tick.mode = "OVERWEIGHT_EXIT"
        /\ Overdue => FailsafeReason(pair.sell)
    BY <1>1, <1>3, <1>4, <1>6 DEF PairSound
  <2> QED BY <1>2, <2>1 DEF LegacyOrdered, Overdue, FailsafeDue,
    FailsafeReason, Tradable, TimeInState, InCooldown
<1> QED BY <1>1, <1>5, <1>6

\* The inductive invariant of the tick up to its order.
LegacyInv == LegacyTyped /\ LegacySynced /\ LegacyOrdered

\* It holds in every state of every run.
THEOREM LegacySound == LegacySpec => []LegacyInv
<1>1. LegacyInit => LegacyInv
  BY LegacyTypeInit DEF LegacyInit, Init, LegacyInv, LegacySynced, LegacyOrdered
<1>2. LegacyInv /\ [LegacyNext]_allVars => LegacyInv'
  BY LegacyTypeStep, LegacySyncStep, LegacyOrderStep DEF LegacyInv
<1> QED BY <1>1, <1>2, PTL DEF LegacySpec

\* OrdersSentAreAllowed: whatever a tick selects, and also when the router fails
\* after the first order, in COOLDOWN nothing reaches the router, while an episode
\* is armed no sell does, and no buy does beside a sell that has priority.
THEOREM SentAllowed == LegacySpec => OrdersSentAreAllowed
<1>1. LegacyInv /\ [LegacyNext]_allVars =>
        [ pc = "route" =>
            /\ InCooldown(ctx) => sent' = {}
            /\ re.active => "SELL" \notin sent'
            /\ {"BUY", "SELL"} \subseteq sent'
                 => pair.sell.reason \notin PrioritySells ]_allVars
  <2> SUFFICES ASSUME LegacyInv, LegacyNext, pc = "route"
               PROVE  /\ InCooldown(ctx) => sent' = {}
                      /\ re.active => "SELL" \notin sent'
                      /\ {"BUY", "SELL"} \subseteq sent'
                           => pair.sell.reason \notin PrioritySells
    OBVIOUS
  <2>1. RouterFails \/ RouteOrders
    <3>1. ~SharedStep
      BY SharedTyped DEF LegacyInv, LegacyTyped, TypeOK, Steps
    <3> QED BY <3>1, LegacySteps DEF LegacyStop, LegacyNoTrade, LegacyDecide
  <2>2. sent' \in {Sized, Sized \cap {"BUY"}}
    BY <2>1 DEF RouterFails, RouteOrders
  <2> QED BY <2>2, SizedSound DEF LegacyInv
<1> QED BY <1>1, LegacySound, PTL DEF LegacySpec, OrdersSentAreAllowed

\* QuotedSellsOnlyOverweight: without OVERWEIGHT_EXIT no quoted sell is ever
\* executed, for all levels and fractions of the profit lock.
THEOREM QuotedOnlyOverweight == LegacySpec => []QuotedSellsOnlyOverweight
<1>1. LegacyInv => QuotedSellsOnlyOverweight
  BY DEF LegacyInv, LegacyOrdered, QuotedSellsOnlyOverweight
<1> QED BY <1>1, LegacySound, PTL

-----------------------------------------------------------------------------
(* The budget of an episode, but for what is borrowed. *)

\* The rest of the budget, and the snapshot that a new budget is cut to.
LegacyFunded ==
  /\ OnlyForcedBuysBorrow
  /\ pc \in {"decide", "route", "order", "chunk"} => tick.room <= quote

\* A filled buy is one of a level, whose size is charged, or a forced one, whose
\* size is borrowed.
LEMMA LegacyFundedBuy ==
  LegacyInv /\ LegacyFunded /\ LegacyBuyFilled => LegacyFunded'
<1> SUFFICES ASSUME LegacyInv, LegacyFunded, LegacyBuyFilled
             PROVE  LegacyFunded'
  OBVIOUS
<1>1. BuyFilled /\ pc = "order" /\ order.side = "BUY"
  BY DEF LegacyBuyFilled, BuyFilled, BuyPlaced
<1>2. TypeOK /\ PairTyped
  BY <1>1, SharedTyped DEF LegacyInv, LegacyTyped, SharedStep, Execute
<1>3. pc' \notin {"decide", "route", "order", "chunk"}
  BY <1>1 DEF BuyFilled, AfterTrade, EndTick
<1>4. SUFFICES ASSUME re'.active PROVE Remaining(re)' <= quote' + borrowed'
  BY <1>3 DEF LegacyFunded, OnlyForcedBuysBorrow
<1>5. re' = RecordBuy(order.reason, BuySize)
  BY <1>1 DEF BuyFilled
<1>6. re.active
  BY <1>2, <1>4, <1>5 DEF RecordBuy, RecordReentryBuy, RecordPartialReset,
    TypeOK, Episodes
<1>7. order.reason \in Levels \cup {"force_trade_buy"}
  <2>1. ~InCooldown(ctx)
    BY <1>1 DEF LegacyInv, LegacyOrdered
  <2>2. RequiresReentryOnly(ctx)
    BY <1>1, <1>6, <2>1 DEF LegacyInv, LegacySynced, Resting, RequiresReentryOnly
  <2> QED BY <1>1, <2>1, <2>2 DEF LegacyInv, LegacyOrdered
<1>8. /\ re.budget \in Nat /\ re.spent \in Nat /\ quote \in Nat
      /\ BuySize \in Nat /\ borrowed \in Nat
  BY <1>2, BuySizeType DEF TypeOK, Episodes, PairTyped
<1>9. /\ Greatest(re.budget - re.spent, 0) <= quote + borrowed
      /\ quote >= BuySize /\ quote' = quote - BuySize
  BY <1>1, <1>6 DEF LegacyFunded, OnlyForcedBuysBorrow, Remaining, BuyFilled,
    Affordable
<1>10. CASE order.reason \in Levels
  <2>1. re'.budget = re.budget /\ re'.spent = re.spent + BuySize
    BY <1>2, <1>5, <1>10 DEF RecordBuy, RecordReentryBuy, TypeOK, Episodes
  <2>2. "force_trade_buy" \notin Levels
    BY DEF Levels, Zones, ZoneName
  <2>3. borrowed' = borrowed
    BY <1>8, <1>10, <2>2 DEF LegacyBuyFilled
  <2>4. Greatest(re.budget - (re.spent + BuySize), 0)
          <= (quote + borrowed) - BuySize
    <3> DEFINE funds == quote + borrowed
    <3>1. funds \in Nat /\ funds >= BuySize
      BY <1>8, <1>9
    <3> HIDE DEF funds
    <3>2. Greatest(re.budget - re.spent, 0) <= funds
      BY <1>9 DEF funds
    <3> QED BY <1>8, <3>1, <3>2, SpendFunded DEF funds
  <2>5. Greatest(re'.budget - re'.spent, 0) <= quote' + borrowed'
    <3>1. quote' + borrowed' = (quote + borrowed) - BuySize
      BY <1>8, <1>9, <2>3
    <3> QED BY <2>1, <2>4, <3>1
  <2> QED BY <2>5 DEF Remaining
<1>11. CASE order.reason = "force_trade_buy"
  <2>1. "force_trade_buy" \notin Levels
    BY DEF Levels, Zones, ZoneName
  <2>2. re' = re
    BY <1>5, <1>11, <2>1 DEF RecordBuy
  <2>3. borrowed' = borrowed + BuySize
    BY <1>6, <1>11 DEF LegacyBuyFilled
  <2>4. quote' + borrowed' = quote + borrowed
    BY <1>8, <1>9, <2>3
  <2> QED BY <1>9, <2>2, <2>4 DEF Remaining
<1> QED BY <1>7, <1>10, <1>11

\* A chunk adds quote; when it arms an episode, the budget is within the
\* snapshot and nothing is borrowed.
LEMMA LegacyFundedChunk ==
  LegacyInv /\ LegacyFunded /\ LegacyChunkFilled => LegacyFunded'
<1> SUFFICES ASSUME LegacyInv, LegacyFunded, LegacyChunkFilled
             PROVE  LegacyFunded'
  OBVIOUS
<1>0. ChunkFilled /\ pc = "chunk" /\ ChunkSendable
  BY DEF LegacyChunkFilled, ChunkFilled
<1>1. TypeOK /\ TypeOK' /\ PairTyped
  BY <1>0, SharedTyped DEF LegacyInv, LegacyTyped, SharedStep, Execute
<1>2. /\ re \in Episodes /\ tick.room \in Nat /\ quote \in Nat
      /\ borrowed \in Nat
  BY <1>1 DEF TypeOK, Ticks, PairTyped
<1>3. quote' \in Nat /\ quote' >= quote
  <2>1. ChunkSize \in Nat
    BY <1>0, <1>1, ChunkSold
  <2>2. quote' = quote + ChunkSize
    BY <1>0 DEF ChunkFilled
  <2> QED BY <1>2, <2>1, <2>2
<1>4. tick.room <= quote
  BY <1>0 DEF LegacyFunded
<1>5. pc' \in {"decide", "route", "order", "chunk"} => tick'.room <= quote'
  BY <1>0, <1>2, <1>3, <1>4 DEF ChunkFilled, AfterChunk, EndTick
<1>6. re'.active => Remaining(re)' <= quote' + borrowed'
  <2>1. CASE ~Depleted(base')
    <3>1. re' = re /\ borrowed' = borrowed
      BY <1>0, <2>1 DEF ChunkFilled, LegacyChunkFilled
    <3>2. re.active => Remaining(re) <= quote + borrowed
      BY DEF LegacyFunded, OnlyForcedBuysBorrow
    <3>3. Remaining(re) \in Nat
      BY <1>2, RemainingType
    <3>4. re.active => Remaining(re) <= quote' + borrowed
      BY <1>2, <1>3, <3>2, <3>3
    <3> QED BY <3>1, <3>4 DEF Remaining
  <2>2. CASE Depleted(base')
    <3>1. PICK boost \in 0..(BudgetBase(re, BaseTrade) \div 4) :
            re' = Activate(re, cycle, tick.price, ChunkSize,
                           Budget(re, BaseTrade, boost, tick.room))
      BY <1>0, <2>2 DEF ChunkFilled
    <3> DEFINE budget == Budget(re, BaseTrade, boost, tick.room)
    <3>2. budget \in Nat /\ budget <= tick.room
      BY <1>2, BudgetType
    <3>3. re'.budget = budget /\ re'.spent = 0
      BY <3>1 DEF Activate
    <3>4. borrowed' = 0
      BY <2>2 DEF LegacyChunkFilled
    <3> HIDE DEF budget
    <3>5. ASSUME NEW q \in Nat, q >= quote
          PROVE  Greatest(budget - 0, 0) <= q + 0
      BY <1>2, <1>4, <3>2, <3>5 DEF Greatest
    <3>6. Greatest(budget - 0, 0) <= quote' + 0
      BY <1>3, <3>5
    <3> QED BY <3>3, <3>4, <3>6 DEF Remaining
  <2> QED BY <2>1, <2>2
<1> QED BY <1>5, <1>6 DEF LegacyFunded, OnlyForcedBuysBorrow

\* A snapshot never has more room than there is quote.
LEMMA LegacyFundedBegin ==
  LegacyInv /\ LegacyFunded /\ LegacyBegin => LegacyFunded'
<1> SUFFICES ASSUME LegacyInv, LegacyFunded, LegacyBegin PROVE LegacyFunded'
  OBVIOUS
<1>1. PICK q \in QuoteReserves : tick'.room = RoomOf(q)
  BY DEF LegacyBegin, BeginTick
<1>2. q \in Nat /\ quote \in Nat
  BY CycleAssumption DEF LegacyInv, LegacyTyped, TickTyped
<1>3. RoomOf(q) <= quote
  BY <1>2 DEF RoomOf, Greatest
<1>4. UNCHANGED <<re, quote, borrowed>>
  BY DEF LegacyBegin, BeginTick
<1> QED BY <1>1, <1>3, <1>4 DEF LegacyFunded, OnlyForcedBuysBorrow, Remaining

\* Every step keeps the budget funded.
LEMMA LegacyFundedStep ==
  LegacyInv /\ LegacyFunded /\ [LegacyNext]_allVars => LegacyFunded'
<1> SUFFICES ASSUME LegacyInv, LegacyFunded, [LegacyNext]_allVars
             PROVE  LegacyFunded'
  OBVIOUS
<1>1. ASSUME UNCHANGED <<re, quote, borrowed>>,
             \/ pc' \notin {"decide", "route", "order", "chunk"}
             \/ UNCHANGED tick /\ pc \in {"decide", "route", "order", "chunk"}
      PROVE  LegacyFunded'
  BY <1>1 DEF LegacyFunded, OnlyForcedBuysBorrow, Remaining
<1>2. CASE UNCHANGED allVars \/ LegacyOver
  BY <1>2 DEF allVars, vars, legacyVars, LegacyOver, LoopOver, LegacyFunded,
    OnlyForcedBuysBorrow, Remaining
<1>3. CASE LegacyInvalid \/ LegacyStop \/ LegacyNoTrade \/ LegacyClose \/ RouterFails
  BY <1>1, <1>3 DEF LegacyInvalid, InvalidPrice, LegacyStop, LegacyNoTrade,
    LegacyClose, CloseTick, RouterFails, EndTick, StopLoop, legacyVars
<1>4. CASE LegacyDecide \/ RouteOrders
  BY <1>1, <1>4 DEF LegacyDecide, RouteOrders
<1>5. CASE LegacyDropped
  BY <1>1, <1>5 DEF LegacyDropped, BuyDropped, SellDropped, ChunkDropped, legacyVars
<1>6. CASE \E premium \in 0..Premium : LegacySellTried(premium)
  BY <1>1, <1>6 DEF LegacySellTried, SellRefused, SellPlaced, SellPrepared
<1> QED BY <1>2, <1>3, <1>4, <1>5, <1>6, LegacyFundedBegin, LegacyFundedBuy,
  LegacyFundedChunk DEF LegacyNext

\* OnlyForcedBuysBorrow: the rest of an armed budget is in the portfolio, but for
\* what forced buys have spent since it was armed.
THEOREM OnlyForcedBorrow == LegacySpec => []OnlyForcedBuysBorrow
<1>1. LegacyInit => LegacyFunded
  BY DEF LegacyInit, Init, BlankReentry, LegacyFunded, OnlyForcedBuysBorrow
<1>2. LegacyFunded => OnlyForcedBuysBorrow
  BY DEF LegacyFunded
<1> QED BY <1>1, <1>2, LegacySound, LegacyFundedStep, PTL DEF LegacySpec

-----------------------------------------------------------------------------
(* The time a position is held, and the first level of the profit lock. *)

\* The state machine has not been holding for less long than the history says:
\* when it is elsewhere within a tick, the history begins with the tick, or the
\* book agrees.
HeldInv ==
  /\ heldSince <= cycle
  /\ ctx.state = "ACCUMULATING" => ctx.entered <= heldSince
  /\ /\ pc \in {"decide", "route", "order", "chunk", "close"}
     /\ ctx.state # "ACCUMULATING"
     => \/ heldSince = cycle
        \/ ctx.state = Resting(re.active, base > tick.reserve)

\* A synchronisation that changes the record enters the state that the book
\* calls for, and one that finds it there changes nothing.
LEMMA SyncEntered ==
  ASSUME NEW has \in BOOLEAN, re.active \in BOOLEAN,
         ctx' = SyncCycle(ctx, cycle, re.active, has)
  PROVE  /\ ctx' = ctx \/ ctx'.entered = cycle
         /\ ctx.state = Resting(re.active, has) => ctx' = ctx
         /\ ctx.state # "COOLDOWN" /\ ctx'.state = ctx.state => ctx' = ctx
<1> DEFINE resting == Resting(re.active, has)
<1>1. resting # "COOLDOWN"
  BY RestingType
<1>2. \/ ctx' = ctx
      \/ /\ ctx.state = "COOLDOWN"
         /\ ctx' = Transition(ctx, resting, cycle, CooldownExit(ctx, cycle), "")
      \/ /\ ctx.state # "COOLDOWN" /\ ctx.state # resting
         /\ ctx' = Transition(ctx, resting, cycle, SettleKind(ctx, resting), "")
  BY DEF SyncCycle, Settles
<1> HIDE DEF resting
<1>3. \/ ctx' = ctx
      \/ /\ ctx'.entered = cycle /\ ctx'.state = resting
         /\ ctx.state = "COOLDOWN" \/ ctx.state # resting
  <2> DEFINE first == Transition(ctx, resting, cycle, CooldownExit(ctx, cycle), "")
             second == Transition(ctx, resting, cycle, SettleKind(ctx, resting), "")
  <2>1. first = ctx \/ (first.entered = cycle /\ first.state = resting)
    BY DEF Transition
  <2>2. second = ctx \/ (second.entered = cycle /\ second.state = resting)
    BY DEF Transition
  <2> HIDE DEF first, second
  <2>3. \/ ctx' = ctx
        \/ ctx.state = "COOLDOWN" /\ ctx' = first
        \/ ctx.state # resting /\ ctx' = second
    BY <1>2 DEF first, second
  <2> QED BY <2>1, <2>2, <2>3
<1> QED BY <1>1, <1>3 DEF resting

\* The beginning of a tick starts the history of a position that is new.
LEMMA HeldBegin == LegacyInv /\ HeldInv /\ LegacyBegin => HeldInv'
<1> SUFFICES ASSUME LegacyInv, HeldInv, LegacyBegin PROVE HeldInv'
  OBVIOUS
<1>1. TypeOK /\ BeginTick
  BY SharedTyped DEF LegacyBegin, SharedStep, LegacyInv, LegacyTyped
<1>2. PICK r \in ReserveLevels :
        /\ tick'.reserve = ReserveOf(r)
        /\ ctx' = SyncCycle(ctx, cycle, re.active, base > ReserveOf(r))
  BY <1>1 DEF BeginTick
<1> DEFINE has == base > ReserveOf(r)
<1>3. /\ ctx \in Contexts /\ cycle \in Nat /\ heldSince \in Nat
      /\ re.active \in BOOLEAN /\ has \in BOOLEAN
  BY <1>1 DEF TypeOK, Episodes, LegacyInv, LegacyTyped, PairTyped
<1>4. /\ ctx' = ctx \/ ctx'.entered = cycle
      /\ ctx.state # "COOLDOWN" /\ ctx'.state = ctx.state => ctx' = ctx
  <2> HIDE DEF has
  <2>0. ctx' = SyncCycle(ctx, cycle, re.active, has)
    BY <1>2 DEF has
  <2>1. ctx' = ctx \/ ctx'.entered = cycle
    BY <1>3, <2>0, SyncEntered, Zenon
  <2>2. ctx.state # "COOLDOWN" /\ ctx'.state = ctx.state => ctx' = ctx
    BY <1>3, <2>0, SyncEntered, Zenon
  <2> QED BY <2>1, <2>2
<1>5. /\ ctx'.state = "COOLDOWN" => ctx' = ctx
      /\ ctx'.state = "COOLDOWN" \/ ctx'.state = Resting(re.active, has)
  BY <1>2, <1>3, SyncResult
<1>6. /\ UNCHANGED <<cycle, re, base>>
      /\ heldSince' = IF ctx.state = "ACCUMULATING" THEN heldSince ELSE cycle
  BY <1>1 DEF BeginTick, LegacyBegin
<1>7. heldSince <= cycle /\ (ctx.state = "ACCUMULATING" => ctx.entered <= heldSince)
  BY DEF HeldInv
<1>8. heldSince' <= cycle'
  BY <1>3, <1>6, <1>7
<1>9. ctx'.state = "ACCUMULATING" => ctx'.entered <= heldSince'
  BY <1>3, <1>4, <1>6, <1>7
<1>10. ctx'.state # "ACCUMULATING" =>
         \/ heldSince' = cycle'
         \/ ctx'.state = Resting(re.active, has)
  BY <1>4, <1>5, <1>6
<1> QED BY <1>2, <1>6, <1>8, <1>9, <1>10 DEF HeldInv

\* The end of a tick enters no other state than the book has called for since
\* its beginning, or since the history began.
LEMMA HeldClose == LegacyInv /\ HeldInv /\ LegacyClose => HeldInv'
<1> SUFFICES ASSUME LegacyInv, HeldInv, LegacyClose PROVE HeldInv'
  OBVIOUS
<1>1. TypeOK /\ CloseTick /\ pc = "close"
  BY SharedTyped DEF LegacyClose, CloseTick, SharedStep, LegacyInv, LegacyTyped
<1> DEFINE has == base > tick.reserve
<1>2. /\ ctx \in Contexts /\ cycle \in Nat /\ heldSince \in Nat
      /\ re.active \in BOOLEAN /\ has \in BOOLEAN
  BY <1>1 DEF TypeOK, Episodes, LegacyInv, LegacyTyped, PairTyped
<1>3. ctx' = SyncCycle(ctx, cycle, re.active, has) /\ heldSince' = heldSince
  BY <1>1 DEF CloseTick, LegacyClose, legacyVars
<1>4. /\ ctx' = ctx \/ ctx'.entered = cycle
      /\ ctx.state = Resting(re.active, has) => ctx' = ctx
      /\ ctx.state # "COOLDOWN" /\ ctx'.state = ctx.state => ctx' = ctx
  <2> HIDE DEF has
  <2>1. ctx' = ctx \/ ctx'.entered = cycle
    BY <1>2, <1>3, SyncEntered, Zenon
  <2>2. ctx.state = Resting(re.active, has) => ctx' = ctx
    BY <1>2, <1>3, SyncEntered, Zenon
  <2>3. ctx.state # "COOLDOWN" /\ ctx'.state = ctx.state => ctx' = ctx
    BY <1>2, <1>3, SyncEntered, Zenon
  <2> QED BY <2>1, <2>2, <2>3
<1>5. /\ heldSince <= cycle
      /\ ctx.state = "ACCUMULATING" => ctx.entered <= heldSince
      /\ ctx.state # "ACCUMULATING" =>
           heldSince = cycle \/ ctx.state = Resting(re.active, has)
  BY <1>1 DEF HeldInv
<1>6. ctx'.state = "ACCUMULATING" => ctx'.entered <= heldSince
  BY <1>2, <1>4, <1>5
<1>7. pc' \in {"idle", "stopped"} /\ cycle' \in {cycle, cycle + 1}
  BY <1>1 DEF CloseTick, EndTick, StopLoop
<1>8. heldSince' <= cycle'
  BY <1>2, <1>3, <1>5, <1>7
<1> QED BY <1>3, <1>6, <1>7, <1>8 DEF HeldInv

\* A fill, or a sell that is tried, begins the history anew.
LEMMA HeldTrade ==
  ASSUME LegacyInv, HeldInv,
         \/ LegacyBuyFilled
         \/ \E premium \in 0..Premium : LegacySellTried(premium)
         \/ LegacyChunkFilled
  PROVE  HeldInv'
<1>1. TypeOK
  BY SharedTyped DEF LegacyInv, LegacyTyped, SharedStep, Execute,
    LegacyBuyFilled, LegacySellTried, LegacyChunkFilled
<1>2. /\ cycle \in Nat /\ heldSince \in Nat
      /\ heldSince <= cycle
      /\ ctx.state = "ACCUMULATING" => ctx.entered <= heldSince
      /\ ctx.state = "ACCUMULATING" => ctx.entered \in Nat
  BY <1>1 DEF TypeOK, Contexts, HeldInv, LegacyInv, LegacyTyped, PairTyped
<1>3. heldSince' = cycle
  BY DEF LegacyBuyFilled, LegacySellTried, LegacyChunkFilled
<1>4. \/ cycle' = cycle
      \/ cycle' = cycle + 1 /\ pc' = "idle"
  BY DEF LegacyBuyFilled, BuyFilled, AfterTrade, EndTick, LegacySellTried,
    SellRefused, SellPlaced, SellPrepared, LegacyChunkFilled, ChunkFilled,
    AfterChunk
<1>5. \/ ctx' = ctx \/ ctx'.entered = cycle
      \/ ctx'.state # "ACCUMULATING"
  <2>1. CASE LegacyBuyFilled
    BY <2>1 DEF LegacyBuyFilled, BuyFilled, HandleBuyFill, Transition
  <2>2. CASE \E premium \in 0..Premium : LegacySellTried(premium)
    <3>1. ctx' = PrepareDistribution(ctx, cycle, order.reason)
      BY <2>2 DEF LegacySellTried, SellRefused, SellPlaced, SellPrepared
    <3> QED BY <3>1 DEF PrepareDistribution, Transition
  <2>3. CASE LegacyChunkFilled
    <3> DEFINE y == HandleSellFill(ctx, cycle, order.reason, re'.active,
                                   base' > tick.reserve)
               z == Transition(y, "COOLDOWN", cycle, "loss_streak_limit", "")
    <3>1. ctx' = y \/ ctx' = [z EXCEPT !.until = cycle + CooldownCycles]
      BY <2>3 DEF LegacyChunkFilled, ChunkFilled, MaybeEnterCooldown
    <3>2. y = ctx \/ y.entered = cycle
      BY DEF HandleSellFill, Transition
    <3>3. z.state = "COOLDOWN"
      BY DEF Transition
    <3>4. [z EXCEPT !.until = cycle + CooldownCycles].state = z.state
      <4> HIDE DEF z
      <4> QED OBVIOUS
    <3> QED BY <3>1, <3>2, <3>3, <3>4
  <2> QED BY <2>1, <2>2, <2>3
<1>6. ctx'.state = "ACCUMULATING" => ctx'.entered <= cycle
  BY <1>2, <1>5
<1>7. heldSince' <= cycle'
  BY <1>2, <1>3, <1>4
<1> QED BY <1>3, <1>4, <1>6, <1>7 DEF HeldInv

\* Every step keeps the history right.
LEMMA HeldStep == LegacyInv /\ HeldInv /\ [LegacyNext]_allVars => HeldInv'
<1> SUFFICES ASSUME LegacyInv, HeldInv, [LegacyNext]_allVars PROVE HeldInv'
  OBVIOUS
<1>0. cycle \in Nat /\ heldSince \in Nat /\ heldSince <= cycle
  BY DEF LegacyInv, LegacyTyped, TickTyped, PairTyped, HeldInv
<1>1. ASSUME UNCHANGED <<ctx, heldSince>>,
             pc' \in {"idle", "stopped"}, cycle' \in {cycle, cycle + 1}
      PROVE  HeldInv'
  <2>1. heldSince' <= cycle'
    BY <1>0, <1>1
  <2> QED BY <1>1, <2>1 DEF HeldInv
<1>2. ASSUME UNCHANGED <<ctx, heldSince, cycle, re, base, tick>>,
             pc \in {"decide", "route", "order", "chunk", "close"}
      PROVE  HeldInv'
  BY <1>2 DEF HeldInv
<1>3. CASE UNCHANGED allVars \/ LegacyOver
  BY <1>3 DEF allVars, vars, legacyVars, LegacyOver, LoopOver, HeldInv
<1>4. CASE LegacyInvalid \/ LegacyStop \/ LegacyNoTrade \/ RouterFails
  BY <1>1, <1>4 DEF LegacyInvalid, InvalidPrice, LegacyStop, LegacyNoTrade,
    RouterFails, EndTick, StopLoop, legacyVars
<1>5. CASE LegacyDecide \/ RouteOrders
  BY <1>2, <1>5 DEF LegacyDecide, RouteOrders
<1>6. CASE LegacyDropped
  BY <1>1, <1>2, <1>6 DEF LegacyDropped, BuyDropped, SellDropped, ChunkDropped,
    AfterTrade, AfterChunk, EndTick, legacyVars
<1> QED BY <1>3, <1>4, <1>5, <1>6, HeldBegin, HeldClose, HeldTrade DEF LegacyNext

\* ExitIsDue: a position that nothing has disturbed for the failsafe time is
\* sold by the next order, whatever ticks without an order, ticks that end with
\* an exception and synchronisations there have been in between.
THEOREM ExitDue == LegacySpec => []ExitIsDue
<1>1. LegacyInit => HeldInv
  <2> SUFFICES ASSUME LegacyInit PROVE HeldInv
    OBVIOUS
  <2>1. cycle = 0 /\ heldSince = 0 /\ pc = "idle" /\ ctx = BootContext
    BY DEF LegacyInit, Init
  <2>2. heldSince <= cycle
    BY <2>1
  <2>3. BootContext.state # "ACCUMULATING"
    BY DEF BootContext
  <2> QED BY <2>1, <2>2, <2>3 DEF HeldInv
<1>2. LegacyInv /\ HeldInv => ExitIsDue
  <2> SUFFICES ASSUME LegacyInv, HeldInv, pc = "order",
                      ctx.state = "ACCUMULATING", FailsafeCycles > 0,
                      cycle - heldSince >= FailsafeCycles,
                      Tradable >= MinNotional
               PROVE  /\ order.side = "SELL"
                      /\ \/ order.reason = "inventory_force_reduce"
                         \/ pair.sell.exit = "time_exit_sell"
    BY DEF ExitIsDue
  <2>1. /\ cycle \in Nat /\ heldSince \in Nat /\ ctx.entered \in Nat
        /\ ctx.entered <= heldSince
    BY DEF LegacyInv, LegacyTyped, TickTyped, PairTyped, Contexts, HeldInv
  <2>2. /\ TimeInState(ctx, cycle) \in Nat
        /\ cycle - ctx.entered <= TimeInState(ctx, cycle)
    BY <2>1, TimeInStateBound
  <2>3. TimeInState(ctx, cycle) >= FailsafeCycles
    BY <2>1, <2>2, LegacyAssumption
  <2>4. Overdue
    BY <2>3 DEF Overdue, FailsafeDue
  <2> QED BY <2>4 DEF LegacyInv, LegacyOrdered, FailsafeReason
<1> QED BY <1>1, <1>2, LegacySound, HeldStep, PTL DEF LegacySpec

\* While the bot's last fill was one of the first level, the level is taken.
\* From the router on a sell of that level is one that was not taken before the
\* tick, or one whose earlier chunk has been filled in this tick.
LevelInv ==
  /\ oneSold # NoCycle => lock.one
  /\ /\ pc \in {"order", "chunk"}
     /\ pair.sell.exit = "profit_lock_level_1" /\ lock.one
     => oneSold = cycle

\* Every step keeps it.
LEMMA LevelStep ==
  LegacyInv /\ LevelInv /\ [LegacyNext]_allVars => LevelInv'
<1> SUFFICES ASSUME LegacyInv, LevelInv, [LegacyNext]_allVars PROVE LevelInv'
  OBVIOUS
<1>1. ASSUME UNCHANGED <<lock, oneSold>>,
             \/ pc' \notin {"order", "chunk"}
             \/ UNCHANGED <<pair, cycle>> /\ pc \in {"order", "chunk"}
      PROVE  LevelInv'
  BY <1>1 DEF LevelInv
<1>2. CASE UNCHANGED allVars \/ LegacyOver
  BY <1>2 DEF allVars, vars, legacyVars, LegacyOver, LoopOver, LevelInv
<1>3. CASE \/ LegacyInvalid \/ LegacyBegin \/ LegacyStop \/ LegacyNoTrade
           \/ LegacyDecide \/ RouterFails \/ LegacyClose
  BY <1>1, <1>3 DEF LegacyInvalid, InvalidPrice, LegacyBegin, BeginTick,
    LegacyStop, LegacyNoTrade, LegacyDecide, RouterFails, LegacyClose,
    CloseTick, EndTick, StopLoop, legacyVars
<1>4. CASE RouteOrders
  <2>1. pair.sell.exit = "profit_lock_level_1" => ~lock.one
    BY <1>4 DEF RouteOrders, LegacyInv, LegacyTyped, PairSound
  <2> QED BY <1>4, <2>1 DEF RouteOrders, LevelInv
<1>5. CASE LegacyDropped
  BY <1>1, <1>5 DEF LegacyDropped, BuyDropped, SellDropped, ChunkDropped,
    AfterTrade, EndTick, legacyVars
<1>6. CASE LegacyBuyFilled
  BY <1>6 DEF LegacyBuyFilled, NoLock, LevelInv
<1>7. CASE \E premium \in 0..Premium : LegacySellTried(premium)
  BY <1>1, <1>7 DEF LegacySellTried, SellRefused, SellPlaced, SellPrepared,
    AfterTrade, EndTick
<1>8. CASE LegacyChunkFilled
  <2>1. pc' \in {"order", "chunk"} => cycle' = cycle
    BY <1>8 DEF LegacyChunkFilled, ChunkFilled, AfterChunk, EndTick
  <2>2. CASE pair.sell.exit = "profit_lock_level_1"
    <3>1. lock'.one /\ oneSold' = cycle
      BY <1>8, <2>2 DEF LegacyChunkFilled, AfterExit, LegacyInv, LegacyTyped,
        PairTyped
    <3> QED BY <2>1, <3>1 DEF LevelInv
  <2>3. CASE pair.sell.exit # "profit_lock_level_1"
    BY <1>8, <2>3 DEF LegacyChunkFilled, LevelInv
  <2> QED BY <2>2, <2>3
<1> QED BY <1>2, <1>3, <1>4, <1>5, <1>6, <1>7, <1>8 DEF LegacyNext

\* LevelOneOnce: the first level of the profit lock is sold in one tick only, as
\* long as no other fill comes after it.
THEOREM LevelOneSold == LegacySpec => LevelOneOnce
<1>1. LegacyInit => LevelInv
  BY DEF LegacyInit, Init, LevelInv
<1>2. LegacyInv /\ LevelInv /\ [LegacyNext]_allVars
        => [pc = "chunk" /\ base' < base /\ pair.sell.exit = "profit_lock_level_1"
              => oneSold \in {NoCycle, cycle}]_allVars
  BY DEF LevelInv
<1> QED BY <1>1, <1>2, LegacySound, LevelStep, PTL DEF LegacySpec, LevelOneOnce

-----------------------------------------------------------------------------
(* The pause after a series of losses, as in the other tick. *)

\* A step of this tick that fills nothing is quiet, and sells nothing in
\* COOLDOWN.
LEMMA LegacyQuiet ==
  ASSUME LegacyInv, PauseInv, LegacyNext, ~BuyFilled, ~ChunkFilled
  PROVE  Quiet /\ PauseOfSell'
<1>1. CASE SharedStep
  <2>1. TypeOK /\ Next
    BY <1>1, SharedTyped DEF SharedStep, Next, LegacyInv, LegacyTyped
  <2>2. Quiet
    BY <2>1, QuietSteps DEF Quiet
  <2>3. ASSUME NEW premium \in 0..Premium, SellPlaced(premium)
        PROVE  PauseOfSell'
    <3>1. ~InCooldown(ctx)
      BY <2>3 DEF SellPlaced, SellPrepared, LegacyInv, LegacyOrdered
    <3> QED BY <2>3, <3>1, PlacedOutside
  <2>4. CASE UNCHANGED vars
    BY <2>2, <2>4 DEF vars, PauseInv, PauseOfSell, InCooldown
  <2>5. CASE pc' # "chunk"
    BY <2>2, <2>5 DEF PauseOfSell
  <2> QED BY <2>1, <2>2, <2>3, <2>4, <2>5, ChunkSteps
<1>2. CASE LegacyStop \/ LegacyNoTrade \/ LegacyDecide \/ RouterFails \/ RouteOrders
  <2>1. UNCHANGED <<ctx, lastFill>>
    BY <1>2 DEF LegacyStop, LegacyNoTrade, LegacyDecide, RouterFails, RouteOrders
  <2>2. cycle' \in {cycle, cycle + 1} /\ pc' # "chunk"
    BY <1>2 DEF LegacyStop, LegacyNoTrade, LegacyDecide, RouterFails,
      RouteOrders, EndTick, StopLoop
  <2> QED BY <2>1, <2>2 DEF Quiet, PauseOfSell
<1> QED BY <1>1, <1>2, LegacySteps

\* Every step keeps the pause.
LEMMA LegacyPauseStep ==
  LegacyInv /\ PauseInv /\ [LegacyNext]_allVars => PauseInv'
<1> SUFFICES ASSUME LegacyInv, PauseInv, [LegacyNext]_allVars PROVE PauseInv'
  OBVIOUS
<1>1. PauseTyped
  BY DEF LegacyInv, LegacyTyped, TickTyped, PauseTyped
<1>2. CASE UNCHANGED allVars
  BY <1>2 DEF allVars, vars, PauseInv, PauseOfSell, PauseKept, PauseRuns,
    PauseOver, InCooldown
<1>3. CASE LegacyNext /\ ~BuyFilled /\ ~ChunkFilled
  BY <1>1, <1>3, LegacyQuiet, QuietPause DEF PauseInv
<1>4. CASE BuyFilled
  BY <1>1, <1>4, BuyPause
<1>5. CASE ChunkFilled
  <2>1. re' \in Episodes
    BY <1>5, SharedTyped DEF SharedStep, Execute, LegacyInv, LegacyTyped, TickTyped
  <2> QED BY <1>1, <1>5, <2>1, ChunkPause
<1> QED BY <1>2, <1>3, <1>4, <1>5

\* SellsPauseAfterLosses: exits, forced reductions and forced trades, each of
\* which has its own gate here, pause after the losses as well.
THEOREM LegacyPausesAfterLosses == LegacySpec => SellsPauseAfterLosses
<1>1. LegacyInit => PauseInv
  <2> SUFFICES ASSUME LegacyInit PROVE PauseInv
    OBVIOUS
  <2>1. Init
    BY DEF LegacyInit
  <2> QED BY <2>1 DEF Init, NoFill, PauseInv, PauseOfSell, PauseKept
<1>2. LegacyInv /\ PauseInv /\ [LegacyNext]_allVars =>
        [ /\ pc = "chunk" /\ base' < base
          /\ lastFill.side = "SELL" /\ lastFill.cycle < cycle
          /\ lastFill.limit /\ CooldownCycles > 0
          => \E limit \in {CooldownCycles, MaxCooldownCycles} \ {0} :
               cycle - lastFill.cycle >= limit ]_vars
  BY SaleAfterPause DEF PauseOver, LegacyInv, LegacyTyped, TickTyped, PauseTyped
<1> QED BY <1>1, <1>2, LegacyPauseStep, LegacySound, PTL DEF LegacySpec,
  SellsPauseAfterLosses
=============================================================================
