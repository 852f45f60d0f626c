---------------------------- MODULE EpisodeProofs ----------------------------
(***************************************************************************)
(* Theorems about the episode that a sell arms: a level is bought once,    *)
(* and the tick implements ReentryContract, the account that the episode   *)
(* is.  The invariants that both need say what an order is about.          *)
(***************************************************************************)
EXTENDS TradingCycleProofs

\* The side of an order and its reason belong together.
OrderSided ==
  pc = "order" =>
    \/ order.side = "BUY" /\ order.reason \in Buys
    \/ order.side = "SELL" /\ order.reason \in Sells

\* A level that may be bought: it has not been, or is one of those whose flag
\* says so.
LevelOpen(e, level) ==
  \/ level \in Levels \ e.levels
  \/ level = "reentry_timeout" /\ ~e.timeoutDone
  \/ level = "reentry_max_miss" /\ ~e.missDone

\* An order for a level is for an open one of an armed episode, and for no more
\* than the gates may make of the rest of its budget.
LevelOrdered ==
  pc = "order" /\ order.reason \in Levels =>
    /\ re.active /\ LevelOpen(re, order.reason)
    /\ order.size >= MinNotional
    /\ 100 * order.size <= BoostPct * (re.budget - re.spent)

\* The flags of the timeout and max-miss levels agree with the list.
FlagsAgree ==
  /\ "reentry_timeout" \in re.levels => re.timeoutDone
  /\ "reentry_max_miss" \in re.levels => re.missDone

\* An episode that is armed while chunks are left will be armed by them as well:
\* too little is left to sell again, and its budget was not zero.
ArmedBySell ==
  pc = "chunk" /\ re.active => Depleted(base) /\ tick.room > 0 /\ re.size > 0

-----------------------------------------------------------------------------
(* Amounts. *)

\* A product grows with its factor.
LEMMA ProductGrows ==
  ASSUME NEW a \in Nat, NEW b \in Nat, NEW k \in Nat, a <= b
  PROVE  k * a <= k * b
<1>1. PICK d \in Nat : b = a + d
  <2>1. b - a \in Nat /\ b = a + (b - a)
    OBVIOUS
  <2> QED BY <2>1
<1>2. k * b = k * a + k * d /\ k * d \in Nat /\ k * a \in Nat
  BY <1>1
<1> QED BY <1>2

\* What the gates make of a size is at least a smallest order, and no more than
\* the raise allows.
LEMMA ResizedBound ==
  ASSUME NEW size \in Nat, NEW resized \in Resized(size)
  PROVE  resized >= MinNotional /\ 100 * resized <= BoostPct * size
<1> DEFINE most == size * BoostPct
<1>1. most \in Nat /\ most = BoostPct * size
  BY CycleAssumption
<1>2. resized \in Nat /\ resized >= MinNotional
  BY ResizedType
<1>3. resized <= most \div 100
  BY DEF Resized
<1> HIDE DEF most
<1>4. 100 * resized <= most
  BY <1>1, <1>2, <1>3
<1> QED BY <1>1, <1>2, <1>4

\* A fraction of a budget is an amount.
LEMMA FractionType ==
  ASSUME NEW e \in Episodes, NEW pct \in Nat
  PROVE  Fraction(e, pct) \in Nat /\ (e.budget * pct) \div 100 \in Nat
<1> DEFINE product == e.budget * pct
<1>1. product \in Nat
  BY DEF Episodes
<1> HIDE DEF product
<1>2. product \div 100 \in Nat
  BY <1>1
<1>3. Greatest(product \div 100, MinNotional) \in Nat
  BY <1>2, ReentryAssumption DEF Greatest
<1> QED BY <1>2, <1>3 DEF Fraction, product

\* A plan that is large enough to be placed is for an open level, and for no
\* more than the rest of the budget.
LEMMA PlanDue ==
  ASSUME NEW e \in Episodes, NEW c \in Nat, NEW mid \in Nat, NEW room \in Nat,
         NEW confirmed \in BOOLEAN,
         Plan(e, c, mid, room, confirmed).size >= MinNotional
  PROVE  LET plan == Plan(e, c, mid, room, confirmed)
         IN /\ LevelOpen(e, plan.level)
            /\ plan.size \in Nat /\ plan.size <= e.budget - e.spent
<1> DEFINE plan == Plan(e, c, mid, room, confirmed)
           rest == Least(Remaining(e), room)
<1>1. e.active /\ plan.level \in Levels
  BY PlanType
<1>2. rest \in Nat /\ rest <= Remaining(e)
  BY RemainingType DEF Least
<1>3. plan # NoPlan
  <2>1. NoPlan.size = 0 /\ ~(0 >= MinNotional)
    BY ReentryAssumption DEF NoPlan
  <2> QED BY <2>1
<1>4. rest > 0
  BY <1>2, <1>3 DEF Plan
<1>5. rest <= e.budget - e.spent
  <2>1. e.budget \in Nat /\ e.spent \in Nat
    BY DEF Episodes
  <2>2. Remaining(e) \in Nat /\ Remaining(e) \in {e.budget - e.spent, 0}
    BY <2>1, RemainingType DEF Remaining, Greatest
  <2> HIDE DEF rest
  <2> QED BY <1>2, <1>4, <2>1, <2>2
<1>6. ASSUME NEW size \in Nat
      PROVE  Least(size, rest) \in Nat /\ Least(size, rest) <= rest
  BY <1>2, <1>6 DEF Least
<1> HIDE DEF rest
<1>7. CASE PullbackDue(e, mid)
  <2>1. plan = [level |-> "reentry_pullback", size |-> rest]
    BY <1>1, <1>3, <1>7 DEF Plan, rest
  <2> QED BY <1>1, <1>2, <1>5, <1>7, <2>1 DEF PullbackDue, LevelOpen
<1>8. CASE ~PullbackDue(e, mid) /\ TimeoutDue(e, c)
  <2>1. plan = [level |-> "reentry_timeout",
                size  |-> Least(Fraction(e, TimeoutPct), rest)]
    BY <1>1, <1>3, <1>8 DEF Plan, rest
  <2>2. Fraction(e, TimeoutPct) \in Nat
    BY FractionType, ReentryAssumption
  <2>3. plan.size \in Nat /\ plan.size <= rest
    BY <1>6, <2>1, <2>2
  <2>4. LevelOpen(e, plan.level)
    BY <1>8, <2>1 DEF TimeoutDue, LevelOpen
  <2> HIDE DEF plan
  <2>5. plan.size <= e.budget - e.spent
    BY <1>2, <1>5, <2>3 DEF Episodes
  <2> QED BY <2>3, <2>4, <2>5 DEF plan
<1>9. CASE /\ ~PullbackDue(e, mid) /\ ~TimeoutDue(e, c)
           /\ MaxMissDue(e, mid, confirmed)
  <2>1. plan = [level |-> "reentry_max_miss",
                size  |-> Least(Fraction(e, MaxMissPct), rest)]
    BY <1>1, <1>3, <1>9 DEF Plan, rest
  <2>2. Fraction(e, MaxMissPct) \in Nat
    BY FractionType, ReentryAssumption
  <2>3. plan.size \in Nat /\ plan.size <= rest
    BY <1>6, <2>1, <2>2
  <2>4. LevelOpen(e, plan.level)
    <3>1. ~e.missDone
      BY <1>9 DEF MaxMissDue
    <3>2. plan.level = "reentry_max_miss"
      BY <2>1
    <3> QED BY <3>1, <3>2 DEF LevelOpen
  <2> HIDE DEF plan
  <2>5. plan.size <= e.budget - e.spent
    BY <1>2, <1>5, <2>3 DEF Episodes
  <2> QED BY <2>3, <2>4, <2>5 DEF plan
<1>10. CASE /\ ~PullbackDue(e, mid) /\ ~TimeoutDue(e, c)
            /\ ~MaxMissDue(e, mid, confirmed)
  <2> DEFINE z == FirstZone(ZonesDue(e, mid))
  <2>1. ZonesDue(e, mid) # {}
    BY <1>1, <1>3, <1>10 DEF Plan
  <2>2. plan = [level |-> ZoneName[z],
                size  |-> Least((e.budget * ZonePct[z]) \div 100, rest)]
    BY <1>1, <1>3, <1>10, <2>1 DEF Plan, rest
  <2>3. z \in ZonesDue(e, mid)
    BY <2>1, FirstZoneType DEF ZonesDue
  <2> HIDE DEF z
  <2>4. z \in Zones /\ ZoneName[z] \notin e.levels
    BY <2>3 DEF ZonesDue
  <2>5. ZonePct[z] \in Nat
    BY <2>4, ReentryAssumption
  <2>6. (e.budget * ZonePct[z]) \div 100 \in Nat
    BY <2>5, FractionType
  <2>7. plan.size \in Nat /\ plan.size <= rest
    BY <1>6, <2>2, <2>6
  <2>8. plan.level = ZoneName[z]
    BY <2>2
  <2> HIDE DEF plan
  <2>9. plan.size <= e.budget - e.spent
    BY <1>2, <1>5, <2>7 DEF Episodes
  <2> QED BY <1>1, <2>4, <2>7, <2>8, <2>9 DEF LevelOpen, plan
<1> QED BY <1>7, <1>8, <1>9, <1>10

-----------------------------------------------------------------------------
(* What orders and chunks are about. *)

\* Holdings and episode change by fills alone.
LEMMA FillsAlone ==
  ASSUME [Next]_vars
  PROVE  UNCHANGED <<re, base, quote, lastFill>> \/ BuyFilled \/ ChunkFilled
BY DEF vars, Next, InvalidPrice, BeginTick, Decide, DecideNothing,
  NoTradeOverride, StopAtLimit, DecideReentry, DecideBuy, DecideSell, Execute,
  BuyDropped, SellDropped, SellRefused, SellPlaced, SellPrepared, ChunkDropped,
  CloseTick, LoopOver

\* The initial state orders nothing, sells nothing, and has no episode.
LEMMA OrderInit ==
  Init => OrderSided /\ LevelOrdered /\ FlagsAgree /\ ArmedBySell
BY DEF Init, BlankReentry, OrderSided, LevelOrdered, FlagsAgree, ArmedBySell

\* Every decision is for a side and a reason of that side; one for a level is
\* for an open level, and covered.
LEMMA OrderStep ==
  TypeOK /\ OrderSided /\ LevelOrdered /\ [Next]_vars
    => OrderSided' /\ LevelOrdered'
<1> SUFFICES ASSUME TypeOK, OrderSided, LevelOrdered, Next, pc' = "order"
             PROVE  OrderSided' /\ LevelOrdered'
  BY DEF OrderSided, LevelOrdered, LevelOpen, vars
<1>1. pc = "decide" /\ UNCHANGED re
  BY DecisionSteps DEF BeginTick
<1>2. CASE DecideReentry
  <2>1. PICK soft \in BOOLEAN, confirmed \in BOOLEAN :
          LET plan == Plan(re, cycle, tick.price, tick.room, confirmed)
          IN /\ plan.size >= MinNotional
             /\ \E size \in Resized(plan.size) :
                  order' = Decided("BUY", plan.level, size, 0, FALSE)
    BY <1>2 DEF DecideReentry
  <2> DEFINE plan == Plan(re, cycle, tick.price, tick.room, confirmed)
  <2>2. /\ re \in Episodes /\ cycle \in Nat
        /\ tick.price \in Nat /\ tick.room \in Nat
    BY DEF TypeOK, Ticks
  <2>3. re.active /\ plan.level \in Levels
    BY <2>1, <2>2, PlanType
  <2>4. /\ LevelOpen(re, plan.level)
        /\ plan.size \in Nat /\ plan.size <= re.budget - re.spent
    BY <2>1, <2>2, PlanDue
  <2>5. PICK size \in Resized(plan.size) :
          order' = Decided("BUY", plan.level, size, 0, FALSE)
    BY <2>1
  <2> HIDE DEF plan
  <2>6. /\ order'.side = "BUY" /\ order'.reason = plan.level
        /\ order'.size = size
    BY <2>5 DEF Decided, NoOrder
  <2>7. size \in Nat /\ size >= MinNotional /\ 100 * size <= BoostPct * plan.size
    BY <2>4, ResizedType, ResizedBound
  <2>8. 100 * size <= BoostPct * (re.budget - re.spent)
    <3> DEFINE rest == re.budget - re.spent
    <3>1. rest \in Nat
      BY <2>2, <2>4 DEF Episodes
    <3> HIDE DEF rest
    <3>2. BoostPct * plan.size <= BoostPct * rest
      BY <2>4, <3>1, ProductGrows, CycleAssumption DEF rest
    <3>3. /\ BoostPct * plan.size \in Nat /\ BoostPct * rest \in Nat
          /\ 100 * size \in Nat
      BY <2>4, <2>7, <3>1, CycleAssumption
    <3>4. 100 * size <= BoostPct * rest
      BY <2>7, <3>2, <3>3
    <3> QED BY <3>4 DEF rest
  <2>9. OrderSided'
    BY <2>3, <2>6 DEF OrderSided, Buys
  <2>10. LevelOrdered'
    BY <1>1, <2>3, <2>4, <2>6, <2>7, <2>8 DEF LevelOrdered, LevelOpen
  <2> QED BY <2>9, <2>10
<1>3. ASSUME NEW reason \in Buys \ Levels, DecideBuy(reason)
      PROVE  OrderSided' /\ LevelOrdered'
  <2>1. order'.side = "BUY" /\ order'.reason = reason
    BY <1>3 DEF DecideBuy, Decided, NoOrder
  <2> QED BY <2>1 DEF OrderSided, LevelOrdered
<1>4. ASSUME NEW reason \in Sells, DecideSell(reason)
      PROVE  OrderSided' /\ LevelOrdered'
  <2>1. order'.side = "SELL" /\ order'.reason = reason
    BY <1>4 DEF DecideSell, Decided, NoOrder
  <2>2. reason \notin Levels
    BY DEF Sells, StrategySells, Levels, ZoneName, Zones
  <2> QED BY <2>1, <2>2 DEF OrderSided, LevelOrdered
<1> QED BY <1>1, <1>2, <1>3, <1>4, DecisionSteps DEF BeginTick

\* A buy marks its level in both ways, and a new episode in none.
LEMMA FlagsStep == TypeOK /\ FlagsAgree /\ [Next]_vars => FlagsAgree'
<1> SUFFICES ASSUME TypeOK, FlagsAgree, [Next]_vars PROVE FlagsAgree'
  OBVIOUS
<1>0. re \in Episodes
  BY DEF TypeOK
<1>1. CASE UNCHANGED re
  BY <1>1 DEF FlagsAgree
<1>2. CASE BuyFilled
  <2>1. re' = RecordBuy(order.reason, BuySize)
    BY <1>2 DEF BuyFilled
  <2> QED BY <1>0, <2>1
    DEF RecordBuy, RecordReentryBuy, RecordPartialReset, Episodes, FlagsAgree
<1>3. CASE ChunkFilled
  <2>1. UNCHANGED re \/ re'.levels = {}
    BY <1>3 DEF ChunkFilled, Activate
  <2> QED BY <1>1, <2>1 DEF FlagsAgree
<1> QED BY <1>1, <1>2, <1>3, FillsAlone

\* A sell that is placed finds no episode, and the reasons of sells are no
\* levels.
LEMMA SellFindsNoEpisode ==
  ASSUME OrderSided, OnlyReentryTrades,
         NEW premium, SellPlaced(premium) \/ SellRefused(premium)
  PROVE  ~re.active /\ ~InCooldown(ctx)
<1>1. pc = "order" /\ order.side = "SELL"
  BY DEF SellPlaced, SellRefused, SellPrepared
<1>2. order.reason \in Sells
  BY <1>1 DEF OrderSided
<1>3. order.reason \notin Levels
  BY <1>2 DEF Sells, StrategySells, Levels, ZoneName, Zones
<1> QED BY <1>1, <1>3 DEF OnlyReentryTrades

\* A step to a chunk is a sell that is placed, or a chunk with others left.
LEMMA ChunkSteps ==
  ASSUME Next, pc' = "chunk"
  PROVE  \/ \E premium \in 0..Premium : SellPlaced(premium)
         \/ ChunkFilled /\ pc = "chunk" /\ UNCHANGED <<cycle, tick>>
         \/ UNCHANGED vars
<1>1. ~EndTick
  BY DEF EndTick
<1>2. /\ ~InvalidPrice /\ ~BeginTick /\ ~CloseTick
      /\ ~Decide
  BY <1>1 DEF InvalidPrice, BeginTick, CloseTick, StopLoop, Decide, DecideNothing,
    NoTradeOverride, StopAtLimit, DecideReentry, DecideBuy, DecideSell
<1>3. CASE Execute
  BY <1>1, <1>3 DEF Execute, BuyDropped, BuyFilled, AfterTrade, SellDropped,
    SellRefused, ChunkDropped, ChunkFilled, AfterChunk
<1>4. CASE LoopOver
  BY <1>4 DEF LoopOver
<1> QED BY <1>2, <1>3, <1>4 DEF Next

\* What a filled chunk does to the holdings.
LEMMA ChunkHoldings ==
  ASSUME TypeOK, ChunkFilled
  PROVE  /\ base' \in Nat /\ base' < base
         /\ ChunkSize \in Nat \ {0}
<1>1. base \in Nat
  BY DEF TypeOK
<1> DEFINE sold == ChunkSize - order.premium
<1>2. ChunkSize \in Nat /\ sold \in Nat \ {0} /\ sold <= base
  BY ChunkSold DEF ChunkFilled
<1>3. base' = base - sold
  BY DEF ChunkFilled
<1>4. ChunkSize >= MinNotional
  BY DEF ChunkFilled, ChunkSendable
<1>5. ChunkSize \in Nat \ {0}
  BY <1>2, <1>4, ReentryAssumption
<1> HIDE DEF sold
<1> QED BY <1>1, <1>2, <1>3, <1>5

\* An episode that one chunk has armed is armed by every further chunk.
LEMMA ArmedStep ==
  TypeOK /\ OrderSided /\ OnlyReentryTrades /\ ArmedBySell /\ [Next]_vars
    => ArmedBySell'
<1> SUFFICES ASSUME TypeOK, OrderSided, OnlyReentryTrades, ArmedBySell, Next,
                    pc' = "chunk", re'.active
             PROVE  ArmedBySell'
  BY DEF ArmedBySell, Depleted, vars
<1>1. ASSUME NEW premium \in 0..Premium, SellPlaced(premium)
      PROVE  FALSE
  <2>1. UNCHANGED re
    BY <1>1 DEF SellPlaced, SellPrepared
  <2> QED BY <1>1, <2>1, SellFindsNoEpisode
<1>2. CASE ChunkFilled /\ pc = "chunk" /\ UNCHANGED <<cycle, tick>>
  <2>1. /\ base \in Nat /\ tick.reserve \in Nat /\ tick.room \in Nat
        /\ re \in Episodes
    BY DEF TypeOK, Ticks
  <2>2. base' \in Nat /\ base' < base /\ ChunkSize \in Nat \ {0}
    BY <1>2, ChunkHoldings
  <2>3. CASE ~Depleted(base') /\ UNCHANGED re
    <3>1. base - tick.reserve < MinNotional
      BY <1>2, <2>3 DEF ArmedBySell, Depleted
    <3>2. base' - tick.reserve < MinNotional
      BY <2>1, <2>2, <3>1, ReentryAssumption
    <3> QED BY <2>3, <3>2 DEF Depleted
  <2>4. CASE /\ Depleted(base')
             /\ \E boost \in 0..(BudgetBase(re, BaseTrade) \div 4) :
                  re' = Activate(re, cycle, tick.price, ChunkSize,
                                 Budget(re, BaseTrade, boost, tick.room))
    <3>1. PICK boost \in 0..(BudgetBase(re, BaseTrade) \div 4) :
            re' = Activate(re, cycle, tick.price, ChunkSize,
                           Budget(re, BaseTrade, boost, tick.room))
      BY <2>4
    <3> DEFINE budget == Budget(re, BaseTrade, boost, tick.room)
    <3>2. budget \in Nat /\ budget <= tick.room
      BY <2>1, BudgetType
    <3>3. budget > 0 /\ re'.size = ChunkSize
      BY <3>1 DEF Activate
    <3> HIDE DEF budget
    <3>4. tick.room > 0 /\ re'.size > 0
      BY <2>1, <2>2, <3>2, <3>3
    <3> QED BY <1>2, <2>4, <3>4 DEF ArmedBySell, Depleted
  <2> QED BY <1>2, <2>3, <2>4 DEF ChunkFilled
<1>3. CASE UNCHANGED vars
  BY <1>3 DEF vars, ArmedBySell, Depleted
<1> QED BY <1>1, <1>2, <1>3, ChunkSteps

\* What is known of orders, levels and chunks in every reachable state.
OrderInv ==
  TypeOK /\ OnlyReentryTrades /\ OrderSided /\ LevelOrdered /\ FlagsAgree
    /\ ArmedBySell

\* Orders, levels and chunks are what the invariant says, in every state.
THEOREM Ordered == Spec => []OrderInv
<1>1. Init => OrderSided /\ LevelOrdered /\ FlagsAgree /\ ArmedBySell
  BY OrderInit
<1>2. OrderInv /\ TypeOK' /\ OnlyReentryTrades' /\ [Next]_vars => OrderInv'
  BY OrderStep, FlagsStep, ArmedStep DEF OrderInv
<1>3. TypeOK /\ OnlyReentryTrades /\ OrderSided /\ LevelOrdered /\ FlagsAgree
        /\ ArmedBySell => OrderInv
  BY DEF OrderInv
<1> QED BY <1>1, <1>2, <1>3, TypeCorrect, OnlyReentry, PTL DEF Spec

\* LevelBoughtOnce: a level of an episode is bought at most once, because the
\* flags of the timeout and max-miss levels agree with the list of the others.
THEOREM BoughtOnce == Spec => LevelBoughtOnce
<1>1. OrderInv =>
        (pc = "order" /\ order.reason \in Levels /\ base' > base
           => order.reason \notin re.levels)
  BY DEF OrderInv, LevelOrdered, LevelOpen, FlagsAgree
<1>2. OrderInv /\ [Next]_vars =>
        [pc = "order" /\ order.reason \in Levels /\ base' > base
           => order.reason \notin re.levels]_vars
  BY <1>1
<1> QED BY <1>2, Ordered, PTL DEF Spec, LevelBoughtOnce

-----------------------------------------------------------------------------
(* The tick implements the contract of the episode. *)

\* A filled buy of the episode is a Spend: within the raise of the rest of the
\* budget, charged to it, and the last one if the budget is used up.
LEMMA BuySpends ==
  ASSUME OrderInv, BuyFilled, re.active
  PROVE  Contract!Spend
<1>1. /\ pc = "order" /\ re' = RecordBuy(order.reason, BuySize)
      /\ base' = base + BuySize
      /\ pc' \in {"close", "idle"}
  BY DEF BuyFilled, BuyPlaced, AfterTrade, EndTick
<1>2. order.reason \in Levels
  BY <1>1 DEF OrderInv, OnlyReentryTrades
<1>3. /\ re \in Episodes /\ re.budget \in Nat /\ re.spent \in Nat
      /\ base \in Nat /\ order.size \in Nat
  BY DEF OrderInv, TypeOK, Episodes, Orders
<1>4. order.size >= MinNotional /\ 100 * order.size <= BoostPct * (re.budget - re.spent)
  BY <1>1, <1>2 DEF OrderInv, LevelOrdered
<1> DEFINE bought == BuySize
           rest == BoostPct * (re.budget - re.spent)
<1>5. bought \in Nat /\ bought <= order.size /\ bought >= MinNotional
  BY <1>3, <1>4, CycleAssumption, ReentryAssumption DEF BuySize, Least
<1>6. rest \in Int
  BY <1>3, CycleAssumption
<1>7. 100 * bought <= rest
  <2> HIDE DEF bought, rest
  <2>1. 100 * order.size <= rest
    BY <1>4 DEF rest
  <2> QED BY <1>3, <1>5, <1>6, <2>1
<1>8. base' - base = bought /\ base' \in Nat /\ bought > 0
  <2> HIDE DEF bought
  <2>1. base' = base + bought
    BY <1>1 DEF bought
  <2> QED BY <1>3, <1>5, <2>1, ReentryAssumption
<1> DEFINE charged == [re EXCEPT !.spent = @ + bought,
                                 !.levels = @ \cup {order.reason}]
<1>9. /\ charged.budget = re.budget /\ charged.spent = re.spent + bought
      /\ re'.budget = re.budget /\ re'.spent = re.spent + bought
      /\ re'.active = (re.active /\ ~SpentUp(charged))
  BY <1>1, <1>2, <1>3 DEF RecordBuy, RecordReentryBuy, Episodes
<1>10. SpentUp(charged) <=> /\ 100 * (re.spent + bought) >= 98 * re.budget
                            /\ re.spent + bought >= MinNotional
  <2> HIDE DEF bought, charged
  <2>1. /\ 98 * re.budget \in Nat /\ 100 * MinNotional \in Nat
        /\ re.spent + bought \in Nat
    BY <1>3, <1>5, ReentryAssumption
  <2>2. SpentUp(charged) <=> /\ 100 * (re.spent + bought) >= 98 * re.budget
                             /\ 100 * (re.spent + bought) >= 100 * MinNotional
    BY <1>9, <2>1 DEF SpentUp, Greatest
  <2>3. 100 * (re.spent + bought) >= 100 * MinNotional
          <=> re.spent + bought >= MinNotional
    BY <2>1, ReentryAssumption
  <2> QED BY <2>2, <2>3
<1> HIDE DEF bought, charged, rest
<1>11. re'.active <=> ~SpentUp(charged)
  BY <1>9
<1> QED
  BY <1>1, <1>7, <1>8, <1>9, <1>10, <1>11
  DEF Contract!Spend, Contract!UsedUp, rest

\* A filled chunk arms the episode, or trades while there is none.
LEMMA ChunkArms ==
  ASSUME OrderInv, ChunkFilled
  PROVE  Contract!Arm \/ Contract!Trade
<1>1. pc = "chunk" /\ re \in Episodes /\ base \in Nat /\ tick.room \in Nat
      /\ tick.reserve \in Nat
  BY DEF ChunkFilled, OrderInv, TypeOK, Ticks
<1>2. base' \in Nat /\ base' < base /\ ChunkSize \in Nat \ {0}
  BY ChunkHoldings DEF OrderInv
<1>3. CASE ~Depleted(base') /\ UNCHANGED re
  <2>1. ~re.active
    <3> SUFFICES ASSUME re.active PROVE FALSE
      OBVIOUS
    <3>1. base - tick.reserve < MinNotional
      BY <1>1 DEF OrderInv, ArmedBySell, Depleted
    <3>2. base' - tick.reserve < MinNotional
      BY <1>1, <1>2, <3>1, ReentryAssumption
    <3> QED BY <1>3, <3>2 DEF Depleted
  <2> QED BY <1>2, <1>3, <2>1 DEF Contract!Trade
<1>4. CASE \E boost \in 0..(BudgetBase(re, BaseTrade) \div 4) :
             re' = Activate(re, cycle, tick.price, ChunkSize,
                            Budget(re, BaseTrade, boost, tick.room))
  <2>1. PICK boost \in 0..(BudgetBase(re, BaseTrade) \div 4) :
          re' = Activate(re, cycle, tick.price, ChunkSize,
                         Budget(re, BaseTrade, boost, tick.room))
    BY <1>4
  <2> DEFINE budget == Budget(re, BaseTrade, boost, tick.room)
  <2>2. budget \in Nat /\ budget <= tick.room
    BY <1>1, BudgetType
  <2>3. re.active => budget > 0
    <3> SUFFICES ASSUME re.active PROVE budget > 0
      OBVIOUS
    <3>1. tick.room > 0 /\ re.size > 0 /\ re.size \in Nat
      BY <1>1 DEF OrderInv, ArmedBySell, Episodes
    <3>2. BudgetBase(re, BaseTrade) \in Nat /\ BudgetBase(re, BaseTrade) > 0
      BY <3>1, CycleAssumption DEF BudgetBase, Greatest
    <3>3. boost \in Nat
      BY <3>2
    <3>4. BudgetBase(re, BaseTrade) + boost > 0
      BY <3>2, <3>3
    <3> QED BY <3>1, <3>4 DEF Budget, Least
  <2>4. /\ re'.active <=> budget > 0
        /\ re'.budget = budget
        /\ re'.spent = 0
    BY <2>1 DEF Activate
  <2> HIDE DEF budget
  <2>5. CASE budget > 0
    <3>1. re'.active
      BY <2>4, <2>5
    <3>2. re'.budget \in Nat \ {0} /\ re'.spent = 0
      BY <2>2, <2>4, <2>5
    <3> QED BY <1>1, <1>2, <3>1, <3>2 DEF Contract!Arm
  <2>6. CASE ~(budget > 0)
    BY <1>2, <2>3, <2>4, <2>6 DEF Contract!Trade
  <2> QED BY <2>5, <2>6
<1> QED BY <1>3, <1>4 DEF ChunkFilled

\* The other steps change the account in nothing, or end the sell.
LEMMA OthersSettle ==
  ASSUME OrderInv, [Next]_vars, ~BuyFilled, ~ChunkFilled
  PROVE  Contract!Settle \/ UNCHANGED Contract!cvars
<1>1. UNCHANGED <<re, base>>
  BY FillsAlone
<1>2. CASE re.active /\ pc = "chunk" /\ pc' # "chunk"
  BY <1>1, <1>2 DEF Contract!Settle
<1>3. CASE re.active /\ pc # "chunk" /\ pc' = "chunk"
  <2>1. PICK premium \in 0..Premium : SellPlaced(premium)
    BY <1>3, ChunkSteps DEF vars
  <2> QED BY <1>3, <2>1, SellFindsNoEpisode DEF OrderInv
<1>4. CASE ~re.active \/ (pc = "chunk" <=> pc' = "chunk")
  BY <1>1, <1>4 DEF Contract!cvars
<1> QED BY <1>2, <1>3, <1>4

\* KeepsContract: the tick implements the contract of the episode.  A filled
\* buy of the episode maps to Spend, a filled chunk to Arm or Trade, the end of
\* a sell to Settle, and every other step to a stutter.
THEOREM Contracted == Spec => KeepsContract
<1>1. Init => Contract!ContractInit
  BY CycleAssumption DEF Init, BlankReentry, Contract!ContractInit
<1>2. OrderInv /\ [Next]_vars => [Contract!ContractNext]_(Contract!cvars)
  <2> SUFFICES ASSUME OrderInv, [Next]_vars
               PROVE  Contract!ContractNext \/ UNCHANGED Contract!cvars
    OBVIOUS
  <2>1. CASE BuyFilled /\ re.active
    BY <2>1, BuySpends DEF Contract!ContractNext
  <2>2. CASE BuyFilled /\ ~re.active
    <3>1. /\ re' = RecordBuy(order.reason, BuySize) /\ pc = "order"
          /\ base' = base + BuySize
      BY <2>2 DEF BuyFilled, BuyPlaced
    <3>2. ~re'.active
      BY <2>2, <3>1 DEF RecordBuy, RecordReentryBuy, RecordPartialReset, OrderInv,
        TypeOK, Episodes
    <3>3. base' \in Nat
      BY <3>1, BuySizeType DEF OrderInv, TypeOK
    <3> QED BY <2>2, <3>2, <3>3 DEF Contract!Trade, Contract!ContractNext
  <2>3. CASE ChunkFilled
    BY <2>3, ChunkArms DEF Contract!ContractNext
  <2>4. CASE ~BuyFilled /\ ~ChunkFilled
    BY <2>4, OthersSettle DEF Contract!ContractNext
  <2> QED BY <2>1, <2>2, <2>3, <2>4
<1> QED
  BY <1>1, <1>2, Ordered, PTL DEF Spec, KeepsContract, Contract!ContractSpec

-----------------------------------------------------------------------------
(* The pause after a series of losses. *)

\* The pause that the last fill has started still runs.
PauseRuns ==
  /\ InCooldown(ctx) /\ ctx.entered = lastFill.cycle
  /\ ctx.until = lastFill.cycle + CooldownCycles

\* One of the two cooldowns has passed since the last fill.
PauseOver ==
  \E limit \in {CooldownCycles, MaxCooldownCycles} \ {0} :
    cycle - lastFill.cycle >= limit

\* The last fill was a sell that left the streak at its limit: its pause runs or
\* is over, whatever has become of the streak.
PauseKept ==
  lastFill.limit /\ CooldownCycles > 0 /\ lastFill.side = "SELL"
    => PauseRuns \/ PauseOver

\* Chunks are sold in COOLDOWN only if this very sell has started it.
PauseOfSell == pc = "chunk" /\ InCooldown(ctx) => lastFill.cycle = cycle

PauseInv == lastFill.cycle <= cycle /\ PauseOfSell /\ PauseKept

\* A synchronisation leaves a COOLDOWN with a deadline only after one of the two
\* cooldowns.
LEMMA ExitAfterLimit ==
  ASSUME NEW x \in Contexts, NEW c \in Nat, NEW start \in Nat, NEW until \in Nat,
         x.state = "COOLDOWN", x.entered = start, x.until = until,
         until = start + CooldownCycles, start <= c, CooldownCycles > 0
  PROVE  \/ CooldownExit(x, c) = ""
         \/ \E limit \in {CooldownCycles, MaxCooldownCycles} \ {0} :
              c - start >= limit
<1> DEFINE Passed == \E limit \in {CooldownCycles, MaxCooldownCycles} \ {0} :
                       c - start >= limit
<1>1. CooldownCycles \in Nat /\ MaxCooldownCycles \in Nat
  BY StateMachineAssumption
<1>2. TimeInState(x, c) = c - start
  BY <1>1 DEF TimeInState
<1>3. MaxCooldownCycles > 0 /\ c - start >= MaxCooldownCycles => Passed
  BY <1>1
<1>4. c - start >= CooldownCycles => Passed
  BY <1>1
<1>5. NoCooldownRemaining(x, c) => Passed
  <2> SUFFICES ASSUME NoCooldownRemaining(x, c) PROVE Passed
    OBVIOUS
  <2>1. until \in CooldownDeadlines(x)
    BY <1>1 DEF CooldownDeadlines, NoUntil
  <2>2. PICK d \in CooldownDeadlines(x) : d <= c
    BY <2>1 DEF NoCooldownRemaining
  <2>3. d = until \/ (d = start + MaxCooldownCycles /\ MaxCooldownCycles > 0)
    BY <2>2 DEF CooldownDeadlines
  <2>4. CASE d = until
    BY <1>1, <1>4, <2>2, <2>4
  <2>5. CASE d = start + MaxCooldownCycles /\ MaxCooldownCycles > 0
    BY <1>1, <1>3, <2>2, <2>5
  <2> QED BY <2>3, <2>4, <2>5
<1> HIDE DEF Passed
<1> QED BY <1>1, <1>2, <1>3, <1>4, <1>5 DEF CooldownExit, Passed

\* A sell that brings the streak to its limit starts a pause, whatever state the
\* machine was in: handle_sell_fill() has left COOLDOWN before.
LEMMA PauseStarts ==
  ASSUME NEW x \in Contexts, NEW c \in Nat, NEW trade, NEW until,
         until = c + CooldownCycles,
         NEW active \in BOOLEAN, NEW has \in BOOLEAN, NEW streak, PauseDue(streak)
  PROVE  LET y == MaybeEnterCooldown(HandleSellFill(x, c, trade, active, has), c,
                                     streak)
         IN y.state = "COOLDOWN" /\ y.entered = c /\ y.until = until
<1> DEFINE z == HandleSellFill(x, c, trade, active, has)
<1>1. z.state # "COOLDOWN"
  BY RestingType DEF HandleSellFill, Transition
<1> HIDE DEF z
<1> DEFINE t == Transition(z, "COOLDOWN", c, "loss_streak_limit", "")
<1>2. t = [state |-> "COOLDOWN", entered |-> c, kind |-> "loss_streak_limit",
           trade |-> "", until |-> z.until]
  BY <1>1 DEF Transition
<1>3. MaybeEnterCooldown(z, c, streak) = [t EXCEPT !.until = until]
  BY DEF MaybeEnterCooldown
<1> HIDE DEF t
<1> QED BY <1>2, <1>3 DEF z

\* How a step that fills nothing may change the clock and the state machine.
LEMMA QuietSteps ==
  ASSUME TypeOK, [Next]_vars, ~BuyFilled, ~ChunkFilled
  PROVE  /\ UNCHANGED lastFill
         /\ cycle' \in {cycle, cycle + 1}
         /\ \/ UNCHANGED ctx
            \/ \E active, has \in BOOLEAN :
                 ctx' = SyncCycle(ctx, cycle, active, has)
            \/ \E trade : ctx' = PrepareDistribution(ctx, cycle, trade)
<1>1. UNCHANGED lastFill
  BY FillsAlone
<1>2. \A has : (base > has) \in BOOLEAN
  OBVIOUS
<1>3. re.active \in BOOLEAN
  BY DEF TypeOK, Episodes
<1>4. CASE InvalidPrice \/ UNCHANGED vars \/ LoopOver
  BY <1>1, <1>4 DEF InvalidPrice, EndTick, LoopOver, vars
<1>5. CASE BeginTick
  BY <1>1, <1>2, <1>3, <1>5 DEF BeginTick
<1>6. CASE CloseTick
  BY <1>1, <1>2, <1>3, <1>6 DEF CloseTick, EndTick, StopLoop
<1>7. CASE Decide
  BY <1>1, <1>7 DEF Decide, DecideNothing, NoTradeOverride,
    StopAtLimit, DecideReentry, DecideBuy, DecideSell, EndTick, StopLoop
<1>8. CASE Execute
  BY <1>1, <1>8 DEF Execute, BuyDropped, SellDropped, SellRefused, SellPlaced,
    SellPrepared, ChunkDropped
<1> QED BY <1>4, <1>5, <1>6, <1>7, <1>8 DEF Next

\* The types that the pause is about.
PauseTyped ==
  ctx \in Contexts /\ cycle \in Nat /\ lastFill \in Fills

LEMMA PauseTypes ==
  ASSUME PauseTyped
  PROVE  /\ ctx \in Contexts /\ cycle \in Nat
         /\ lastFill.cycle \in Nat /\ lastFill.limit \in BOOLEAN
         /\ CooldownCycles \in Nat /\ MaxCooldownCycles \in Nat
BY StateMachineAssumption DEF PauseTyped, Fills

\* A step that fills nothing.
Quiet ==
  /\ UNCHANGED lastFill
  /\ cycle' \in {cycle, cycle + 1}
  /\ \/ UNCHANGED ctx
     \/ \E active, has \in BOOLEAN : ctx' = SyncCycle(ctx, cycle, active, has)
     \/ \E trade : ctx' = PrepareDistribution(ctx, cycle, trade)

\* It ends a pause only when one of the two cooldowns has passed.
LEMMA QuietPause ==
  ASSUME PauseTyped, PauseInv, Quiet
  PROVE  lastFill'.cycle <= cycle' /\ PauseKept'
<1>0. /\ ctx \in Contexts /\ cycle \in Nat /\ lastFill.cycle \in Nat
      /\ CooldownCycles \in Nat /\ MaxCooldownCycles \in Nat
  BY PauseTypes
<1>1. UNCHANGED lastFill /\ cycle' \in {cycle, cycle + 1}
  BY DEF Quiet
<1>2. lastFill'.cycle <= cycle'
  BY <1>0, <1>1 DEF PauseInv
<1>3. PauseOver => PauseOver'
  <2> SUFFICES ASSUME NEW limit \in {CooldownCycles, MaxCooldownCycles} \ {0},
                      cycle - lastFill.cycle >= limit
               PROVE  PauseOver'
    BY DEF PauseOver
  <2>1. cycle' - lastFill'.cycle >= limit
    BY <1>0, <1>1
  <2> QED BY <2>1 DEF PauseOver
<1>4. PauseRuns /\ CooldownCycles > 0 => PauseRuns' \/ PauseOver
  <2> SUFFICES ASSUME PauseRuns, CooldownCycles > 0
               PROVE  PauseRuns' \/ PauseOver
    OBVIOUS
  <2> DEFINE start == lastFill.cycle
             until == lastFill.cycle + CooldownCycles
  <2>1. /\ ctx.state = "COOLDOWN" /\ ctx.entered = start /\ ctx.until = until
        /\ start <= cycle /\ start \in Nat /\ until \in Nat
        /\ until = start + CooldownCycles
    BY <1>0 DEF PauseRuns, InCooldown, PauseInv
  <2>2. CASE UNCHANGED ctx
    BY <1>1, <2>2 DEF PauseRuns, InCooldown
  <2>3. ASSUME NEW active \in BOOLEAN, NEW has \in BOOLEAN,
               ctx' = SyncCycle(ctx, cycle, active, has)
        PROVE  PauseRuns' \/ PauseOver
    <3>1. CooldownExit(ctx, cycle) = "" \/ PauseOver
      <4> HIDE DEF start, until
      <4>1. \/ CooldownExit(ctx, cycle) = ""
            \/ \E limit \in {CooldownCycles, MaxCooldownCycles} \ {0} :
                 cycle - start >= limit
        BY <1>0, <2>1, ExitAfterLimit
      <4> QED BY <4>1 DEF PauseOver, start
    <3>2. CooldownExit(ctx, cycle) = "" => UNCHANGED ctx
      BY <2>1, <2>3 DEF SyncCycle
    <3> QED BY <2>2, <3>1, <3>2
  <2>4. ASSUME NEW trade, ctx' = PrepareDistribution(ctx, cycle, trade)
        PROVE  PauseRuns' \/ PauseOver
    BY <2>1, <2>2, <2>4 DEF PrepareDistribution
  <2> QED BY <2>2, <2>3, <2>4 DEF Quiet
<1> QED BY <1>1, <1>2, <1>3, <1>4 DEF PauseInv, PauseKept

\* After a buy there is no pause to keep.
LEMMA BuyPause ==
  ASSUME PauseTyped, BuyFilled
  PROVE  PauseInv'
<1>1. /\ lastFill' = [side |-> "BUY", cycle |-> cycle, limit |-> FALSE]
      /\ cycle' \in {cycle, cycle + 1} /\ pc' # "chunk"
  BY DEF BuyFilled, AfterTrade, EndTick
<1> QED BY <1>1, PauseTypes DEF PauseInv, PauseKept, PauseOfSell

\* A chunk that brings the streak to its limit starts a pause.
LEMMA ChunkPause ==
  ASSUME PauseTyped, re' \in Episodes, ChunkFilled
  PROVE  PauseInv'
<1>1. /\ lastFill'.cycle = cycle
      /\ lastFill'.limit <=> lossStreak' >= LossStreakLimit
      /\ cycle' \in {cycle, cycle + 1} /\ (pc' = "chunk" => cycle' = cycle)
  BY DEF ChunkFilled, AfterChunk, EndTick
<1>2. ASSUME lossStreak' >= LossStreakLimit, CooldownCycles > 0
      PROVE  PauseRuns'
  <2>1. PauseDue(lossStreak')
    BY <1>2 DEF PauseDue
  <2>2. re'.active \in BOOLEAN /\ (base' > tick.reserve) \in BOOLEAN
    BY DEF Episodes
  <2>3. ctx' = MaybeEnterCooldown(
                 HandleSellFill(ctx, cycle, order.reason, re'.active,
                                base' > tick.reserve), cycle, lossStreak')
    BY DEF ChunkFilled
  <2> DEFINE until == cycle + CooldownCycles
  <2>4. until = cycle + CooldownCycles
    OBVIOUS
  <2> HIDE DEF until
  <2>5. PICK active \in BOOLEAN, has \in BOOLEAN, streak \in {lossStreak'} :
          /\ PauseDue(streak)
          /\ ctx' = MaybeEnterCooldown(
                      HandleSellFill(ctx, cycle, order.reason, active, has),
                      cycle, streak)
    BY <2>1, <2>2, <2>3, Zenon
  <2>6. ctx'.state = "COOLDOWN" /\ ctx'.entered = cycle /\ ctx'.until = until
    BY <2>4, <2>5, PauseTypes, PauseStarts
  <2> QED BY <1>1, <2>6 DEF PauseRuns, InCooldown, until
<1> QED BY <1>1, <1>2, PauseTypes DEF PauseInv, PauseKept, PauseOfSell

\* A sell that is placed outside of COOLDOWN does not enter it.
LEMMA PlacedOutside ==
  ASSUME NEW premium, SellPlaced(premium), ~InCooldown(ctx)
  PROVE  PauseOfSell'
<1>1. ctx' = PrepareDistribution(ctx, cycle, order.reason)
  BY DEF SellPlaced, SellPrepared
<1>2. ctx'.state # "COOLDOWN"
  BY <1>1 DEF PrepareDistribution, Transition, InCooldown
<1> QED BY <1>2 DEF PauseOfSell, InCooldown

\* Every step keeps the pause.
LEMMA PauseStep == OrderInv /\ PauseInv /\ [Next]_vars => PauseInv'
<1> SUFFICES ASSUME OrderInv, PauseInv, [Next]_vars PROVE PauseInv'
  OBVIOUS
<1>0. TypeOK /\ PauseTyped
  BY DEF OrderInv, TypeOK, PauseTyped
<1>1. CASE ~BuyFilled /\ ~ChunkFilled
  <2>1. lastFill'.cycle <= cycle' /\ PauseKept'
    BY <1>0, <1>1, QuietSteps, QuietPause DEF Quiet
  <2>2. PauseOfSell'
    <3>1. CASE Next /\ pc' = "chunk"
      <4>1. CASE UNCHANGED vars
        BY <4>1 DEF vars, PauseInv, PauseOfSell, InCooldown
      <4>2. ASSUME NEW premium \in 0..Premium, SellPlaced(premium)
            PROVE  PauseOfSell'
        BY <4>2, SellFindsNoEpisode, PlacedOutside DEF OrderInv
      <4> QED BY <1>1, <3>1, <4>1, <4>2, ChunkSteps
    <3>2. CASE UNCHANGED vars
      BY <3>2 DEF vars, PauseInv, PauseOfSell, InCooldown
    <3> QED BY <3>1, <3>2 DEF PauseOfSell
  <2> QED BY <2>1, <2>2 DEF PauseInv
<1>2. CASE BuyFilled
  BY <1>0, <1>2, BuyPause
<1>3. CASE ChunkFilled
  BY <1>0, <1>3, ChunkEpisode, ChunkPause
<1> QED BY <1>1, <1>2, <1>3

\* A sell after that is in a later tick finds the pause over.
LEMMA SaleAfterPause ==
  ASSUME PauseTyped, PauseInv, pc = "chunk",
         lastFill.limit, CooldownCycles > 0, lastFill.side = "SELL", lastFill.cycle < cycle
  PROVE  PauseOver
<1>1. lastFill.cycle \in Nat /\ cycle \in Nat
  BY PauseTypes
<1>2. ~InCooldown(ctx)
  BY <1>1 DEF PauseInv, PauseOfSell
<1> QED BY <1>2 DEF PauseInv, PauseKept, PauseRuns

\* SellsPauseAfterLosses: after a sell that brought the streak to its limit, no
\* later tick sells before the shorter of the two cooldowns is over, unless a
\* buy of the episode came between: also when the streak is forgotten meanwhile.
THEOREM PausesAfterLosses == Spec => SellsPauseAfterLosses
<1>1. Init => PauseInv
  BY DEF Init, NoFill, PauseInv, PauseOfSell, PauseKept
<1>2. OrderInv /\ PauseInv /\ [Next]_vars =>
        [ /\ pc = "chunk" /\ base' < base
          /\ lastFill.side = "SELL" /\ lastFill.cycle < cycle
          /\ lastFill.limit /\ CooldownCycles > 0
          => \E limit \in {CooldownCycles, MaxCooldownCycles} \ {0} :
               cycle - lastFill.cycle >= limit ]_vars
  BY SaleAfterPause DEF PauseOver, OrderInv, TypeOK, PauseTyped
<1> QED BY <1>1, <1>2, PauseStep, Ordered, PTL DEF Spec, SellsPauseAfterLosses
=============================================================================
